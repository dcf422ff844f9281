---------------------------- MODULE MCUsbipServer ----------------------------
(* Instances of UsbipServer: three addresses, an allow list of two entries,   *)
(* and bodies that repeat an address, hold more than fit, or hold none.       *)
EXTENDS UsbipServer, TLC

CONSTANTS a1, a2, a3, c1, c2

MCBodies == {[mode |-> "closed", list |-> <<a1, a2>>],
             [mode |-> "absent", list |-> <<a2, a2, a3, a1>>],
             [mode |-> "open",   list |-> <<>>]}

MCAddress == (c1 :> a1) @@ (c2 :> a2)
==============================================================================
