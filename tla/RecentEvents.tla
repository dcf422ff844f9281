----------------------------- MODULE RecentEvents -----------------------------
(* What the event log promises those who read it: the events last logged,     *)
(* newest first, as many as it has room for.  EventLog implements this         *)
(* specification.                                                              *)
EXTENDS Naturals, Sequences

CONSTANTS Events,     \* what can be logged
          Capacity    \* EVENT_LOG_MAX_ENTRIES

VARIABLE log          \* newest first

\* At most the first n elements of a sequence.
Newest(s, n) == IF Len(s) <= n THEN s ELSE SubSeq(s, 1, n)

Init == log = <<>>

Add(e) == log' = Newest(<<e>> \o log, Capacity)

Next == \E e \in Events : Add(e)

Spec == Init /\ [][Next]_log
===============================================================================
