----------------------------- MODULE MCSharedTable -----------------------------
(* Two sessions with one URB each, and a table of two slots.                    *)
EXTENDS SharedTable

CONSTANTS s1, s2, u1, u2

EachTheirs == [u \in Urbs |-> IF u = u1 THEN s1 ELSE s2]
================================================================================
