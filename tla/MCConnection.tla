----------------------------- MODULE MCConnection -----------------------------
(* Instances of Connection for TLC: two or three connections, and two or three  *)
(* enumerations, e2 being the device of e1 plugged in again in Replugged.      *)
EXTENDS Connection, TLC

CONSTANTS e1, e2, e3, k1, k2, k3, x, y, z, port1, port2

OneEach == [c \in Conns |-> CASE c = k1 -> x [] c = k2 -> y [] OTHER -> z]
Shared  == [c \in Conns |-> IF c = k3 THEN y ELSE x]

TwoPorts  == [d \in Devices |-> IF d = e1 THEN port1 ELSE port2]
Replugged == [d \in Devices |-> IF d = e3 THEN port2 ELSE port1]
===============================================================================
