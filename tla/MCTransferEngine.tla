--------------------------- MODULE MCTransferEngine ---------------------------
(* Instances of TransferEngine for TLC: c1 is a control URB, d1 and d2 are two *)
(* URBs of one bulk endpoint.                                                  *)
EXTENDS TransferEngine

CONSTANTS c1, d1, d2, bulk, ep0

MCEndpoints == {ep0, bulk}
MCEp == [u \in Urbs |-> IF u = c1 THEN ep0 ELSE bulk]
===============================================================================
