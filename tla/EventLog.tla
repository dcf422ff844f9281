------------------------------- MODULE EventLog -------------------------------
(***************************************************************************)
(* The event log: a ring of entries that every task writes to and that the  *)
(* feed and the web interface read.  event_log_add and event_log_get_recent *)
(* run under one mutex, so each is one step; the 100 ms limit on waiting    *)
(* for it is taken never to expire, since no one blocks while holding it.   *)
(*                                                                          *)
(* The content of an entry is the number of the event, which is what total  *)
(* counts; time, level and text are left out, and so is the width of total, *)
(* which addresses nothing.  The ring starts empty: event_log_init allocates *)
(* it before any other component exists.                                    *)
(*                                                                          *)
(* A definition X_Fault is X with one plausible mistake; the properties     *)
(* are validated by checking that they reject it.                           *)
(***************************************************************************)
EXTENDS Naturals, Sequences

CONSTANTS Capacity,     \* EVENT_LOG_MAX_ENTRIES
          Events        \* the events that may be logged: 1, 2, 3 and so on

ASSUME LogAssumption == Capacity \in Nat \ {0} /\ Events \subseteq Nat

VARIABLES entries,      \* the ring
          head,         \* next write index
          count,        \* number of valid entries
          total         \* events ever logged

log == <<entries, head, count, total>>

Positions == 0 .. Capacity - 1

LogInit == /\ entries = [p \in Positions |-> 0]
           /\ head = 0 /\ count = 0 /\ total = 0

LogTypeOK == /\ entries \in [Positions -> Nat]
             /\ head \in Positions
             /\ count \in 0 .. Capacity
             /\ total \in Nat

\* Fault: the index does not wrap.
LogAdd_NoWrap(n) ==
    /\ n = total + 1 /\ n \in Events
    /\ entries' = [entries EXCEPT ![head] = n]
    /\ head' = head + 1
    /\ count' = IF count < Capacity THEN count + 1 ELSE count
    /\ total' = n

\* event_log_add of event n
LogAdd(n) == /\ n = total + 1 /\ n \in Events
             /\ entries' = [entries EXCEPT ![head] = n]
             /\ head' = (head + 1) % Capacity
             /\ count' = IF count < Capacity THEN count + 1 ELSE count
             /\ total' = n

\* Fault: the entry at the write index is taken for the newest.
Recent_AtHead(max) == LET n == IF max < count THEN max ELSE count IN
                      [i \in 1 .. n |-> entries[(head + Capacity + 1 - i) % Capacity]]

\* event_log_get_recent
Recent(max) == LET n == IF max < count THEN max ELSE count IN
               [i \in 1 .. n |-> entries[(head + Capacity - i) % Capacity]]

LogNext == \E n \in Events : LogAdd(n)

LogSpec == LogInit /\ [][LogNext]_log
-------------------------------------------------------------------------------
(* Properties *)

\* The ring with its two indices implements a bounded list of the newest events:
\* what a reader gets is never out of order, never an entry that was overwritten
\* or not yet written.
Log == INSTANCE RecentEvents WITH log <- Recent(Capacity)

ImplementsRecentEvents == Log!Spec
===============================================================================
