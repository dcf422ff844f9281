------------------------------- MODULE MCCapture -------------------------------
(* Instances of Capture for TLC: three packets of one or two cells each and a  *)
(* ring that holds two of the shorter entries or one of the longer.            *)
EXTENDS Capture

CONSTANTS p1, p2, p3

MCSize == [p \in Packets |-> IF p = p3 THEN 2 ELSE 1]
===============================================================================
