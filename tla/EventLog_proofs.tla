---------------------------- MODULE EventLog_proofs ----------------------------
(***************************************************************************)
(* EventLog implements RecentEvents, for every capacity of the ring: proofs. *)
(*                                                                         *)
(* The argument: below Capacity the two remainders are a comparison and a    *)
(* subtraction (ModStep, ModBack); an added event is at position 1 of what a  *)
(* reader gets, and what was at position i is at i + 1, since the write did   *)
(* not touch it (Shift); so adding to the ring is adding to the list.        *)
(***************************************************************************)
EXTENDS EventLog, TLAPS

\* Where the writer goes from position h, and where the reader finds the i-th newest
\* entry when the writer is at h.
Step(h)    == IF h + 1 = Capacity THEN 0 ELSE h + 1
Back(h, i) == IF i <= h THEN h - i ELSE h + Capacity - i

\* What a reader of the whole ring gets from entries e, with write index h and c
\* valid entries.
Ring(e, h, c) == [i \in 1 .. c |-> e[Back(h, i)]]

LEMMA ModStep ==
    ASSUME NEW h \in Positions
    PROVE  (h + 1) % Capacity = Step(h)
BY LogAssumption DEF Positions, Step

LEMMA ModBack ==
    ASSUME NEW h \in Positions, NEW i \in 1 .. Capacity
    PROVE  (h + Capacity - i) % Capacity = Back(h, i)
BY LogAssumption DEF Positions, Back

LEMMA StepIn == ASSUME NEW h \in Positions PROVE Step(h) \in Positions
BY LogAssumption DEF Positions, Step

LEMMA BackIn ==
    ASSUME NEW h \in Positions, NEW i \in 1 .. Capacity
    PROVE  Back(h, i) \in Positions
BY LogAssumption DEF Positions, Back

\* The ring is well formed in every state.
THEOREM LogTyping == LogSpec => []LogTypeOK
<1>1. LogInit => LogTypeOK
    BY LogAssumption DEF LogInit, LogTypeOK, Positions
<1>2. LogTypeOK /\ [LogNext]_log => LogTypeOK'
    <2> SUFFICES ASSUME LogTypeOK, [LogNext]_log PROVE LogTypeOK'
        OBVIOUS
    <2>1. ASSUME NEW n \in Events, LogAdd(n) PROVE LogTypeOK'
        <3>1. n \in Nat
            BY <2>1, LogAssumption
        <3>2. head' \in Positions
            BY <2>1, ModStep, StepIn DEF LogAdd, LogTypeOK
        <3>3. entries' \in [Positions -> Nat]
            BY <2>1, <3>1 DEF LogAdd, LogTypeOK
        <3>4. count' \in 0 .. Capacity /\ total' \in Nat
            BY <2>1, <3>1, LogAssumption DEF LogAdd, LogTypeOK
        <3> QED
            BY <3>2, <3>3, <3>4 DEF LogTypeOK
    <2>2. CASE UNCHANGED log
        BY <2>2 DEF log, LogTypeOK
    <2> QED
        BY <2>1, <2>2 DEF LogNext
<1> QED
    BY <1>1, <1>2, PTL DEF LogSpec
-------------------------------------------------------------------------------
\* event_log_get_recent of the whole ring is a sequence, of the valid entries.
LEMMA RingSeq ==
    ASSUME NEW e \in [Positions -> Nat], NEW h \in Positions, NEW c \in 0 .. Capacity
    PROVE  /\ Ring(e, h, c) \in Seq(Nat)
           /\ Len(Ring(e, h, c)) = c
<1>1. \A i \in 1 .. c : e[Back(h, i)] \in Nat
    BY BackIn, LogAssumption
<1>2. c \in Nat
    BY LogAssumption
<1> QED
    BY <1>1, <1>2 DEF Ring

LEMMA RecentIsRing ==
    ASSUME NEW e, NEW h \in Positions, NEW c \in 0 .. Capacity
    PROVE  [i \in 1 .. c |-> e[(h + Capacity - i) % Capacity]] = Ring(e, h, c)
<1>1. ASSUME NEW i \in 1 .. c
      PROVE  (h + Capacity - i) % Capacity = Back(h, i)
    BY ModBack, LogAssumption
<1> QED
    BY <1>1 DEF Ring

\* After a write the i-th newest entry is the (i+1)-th, and it was not overwritten.
LEMMA Shift ==
    ASSUME NEW h \in Positions, NEW i \in 1 .. Capacity - 1
    PROVE  /\ Back(Step(h), i + 1) = Back(h, i)
           /\ Back(h, i) # h
BY LogAssumption DEF Positions, Step, Back

\* ... and the newest is where the writer was.
LEMMA FirstBack == ASSUME NEW h \in Positions PROVE Back(Step(h), 1) = h
BY LogAssumption DEF Positions, Step, Back

LEMMA NewestIs ==
    ASSUME NEW s \in Seq(Nat), NEW max \in Nat, NEW k \in Nat,
           k = IF Len(s) <= max THEN Len(s) ELSE max
    PROVE  Log!Newest(s, max) = [i \in 1 .. k |-> s[i]]
<1>1. CASE Len(s) <= max
    BY <1>1 DEF Log!Newest
<1>2. CASE ~(Len(s) <= max)
    BY <1>2 DEF Log!Newest
<1> QED
    BY <1>1, <1>2

\* Adding to the ring is adding to the list.
LEMMA AddsToList ==
    ASSUME NEW e \in [Positions -> Nat], NEW h \in Positions, NEW c \in 0 .. Capacity,
           NEW n \in Nat
    PROVE  Ring([e EXCEPT ![h] = n], Step(h), IF c < Capacity THEN c + 1 ELSE c)
              = Log!Newest(<<n>> \o Ring(e, h, c), Capacity)
<1> DEFINE new == [e EXCEPT ![h] = n]
           k   == IF c < Capacity THEN c + 1 ELSE c
           old == Ring(e, h, c)
           lst == <<n>> \o old
<1>1. Capacity \in Nat /\ c \in Nat /\ k \in 1 .. Capacity /\ k <= c + 1
    BY LogAssumption
<1>2. old \in Seq(Nat) /\ Len(old) = c
    BY RingSeq
<1>3. lst \in Seq(Nat) /\ Len(lst) = c + 1 /\ lst[1] = n
    BY <1>2
<1>4. \A i \in 1 .. c : lst[i + 1] = old[i]
    BY <1>1, <1>2
<1>5. Log!Newest(lst, Capacity) = [i \in 1 .. k |-> lst[i]]
    <2> HIDE DEF lst
    <2>1. k = IF Len(lst) <= Capacity THEN Len(lst) ELSE Capacity
        BY <1>1, <1>3
    <2> HIDE DEF k
    <2> QED
        BY <1>1, <1>3, <2>1, NewestIs
<1>6. new \in [Positions -> Nat] /\ new[h] = n
    OBVIOUS
<1>7. ASSUME NEW i \in 1 .. k PROVE new[Back(Step(h), i)] = lst[i]
    <2>1. CASE i = 1
        BY <1>3, <1>6, <2>1, FirstBack
    <2>2. CASE i # 1
        <3>1. i - 1 \in 1 .. Capacity - 1 /\ i - 1 \in 1 .. c /\ (i - 1) + 1 = i
            BY <1>1, <2>2
        <3>2. Back(Step(h), i) = Back(h, i - 1) /\ Back(h, i - 1) # h
            BY <3>1, Shift
        <3>3. Back(h, i - 1) \in Positions
            BY <3>1, BackIn, <1>1
        <3>4. new[Back(Step(h), i)] = e[Back(h, i - 1)]
            BY <3>2, <3>3
        <3>5. lst[i] = e[Back(h, i - 1)]
            BY <1>4, <3>1 DEF Ring
        <3> QED
            BY <3>4, <3>5
    <2> QED
        BY <2>1, <2>2
<1> HIDE DEF new, k, old, lst
<1>8. Ring(new, Step(h), k) = [i \in 1 .. k |-> lst[i]]
    BY <1>7 DEF Ring
<1> QED
    BY <1>5, <1>8 DEF new, k, old, lst
-------------------------------------------------------------------------------
\* EventLog implements RecentEvents: whatever the capacity, and however often the
\* ring has gone round, event_log_get_recent answers with the newest events.
THEOREM Implementation == LogSpec => ImplementsRecentEvents
<1>1. LogInit => Log!Init
    BY LogAssumption DEF LogInit, Log!Init, Recent
<1>2. LogTypeOK /\ LogTypeOK' /\ [LogNext]_log => [Log!Next]_(Recent(Capacity))
    <2> SUFFICES ASSUME LogTypeOK, LogTypeOK', [LogNext]_log
                 PROVE  [Log!Next]_(Recent(Capacity))
        OBVIOUS
    <2>1. Recent(Capacity) = Ring(entries, head, count)
        <3>1. count \in 0 .. Capacity /\ head \in Positions
            BY DEF LogTypeOK
        <3>2. (IF Capacity < count THEN Capacity ELSE count) = count
            BY <3>1, LogAssumption
        <3>3. Recent(Capacity)
                 = [i \in 1 .. count |-> entries[(head + Capacity - i) % Capacity]]
            BY <3>2 DEF Recent
        <3> QED
            BY <3>1, <3>3, RecentIsRing
    <2>2. Recent(Capacity)' = Ring(entries', head', count')
        <3>1. count' \in 0 .. Capacity /\ head' \in Positions
            BY DEF LogTypeOK
        <3>2. (IF Capacity < count' THEN Capacity ELSE count') = count'
            BY <3>1, LogAssumption
        <3>3. Recent(Capacity)'
                 = [i \in 1 .. count' |-> entries'[(head' + Capacity - i) % Capacity]]
            BY <3>2 DEF Recent
        <3> QED
            BY <3>1, <3>3, RecentIsRing
    <2>3. ASSUME NEW n \in Events, LogAdd(n) PROVE Log!Add(n)
        <3>1. n \in Nat
            BY LogAssumption
        <3>2. /\ entries' = [entries EXCEPT ![head] = n]
              /\ head' = Step(head)
              /\ count' = IF count < Capacity THEN count + 1 ELSE count
            BY <2>3, ModStep DEF LogAdd, LogTypeOK
        <3>3. entries \in [Positions -> Nat] /\ head \in Positions
              /\ count \in 0 .. Capacity
            BY DEF LogTypeOK
        <3>4. Ring([entries EXCEPT ![head] = n], Step(head),
                   IF count < Capacity THEN count + 1 ELSE count)
                 = Log!Newest(<<n>> \o Ring(entries, head, count), Capacity)
            BY <3>1, <3>3, AddsToList, Zenon
        <3>5. Ring(entries', head', count')
                 = Log!Newest(<<n>> \o Ring(entries, head, count), Capacity)
            BY <3>2, <3>4, Zenon
        <3> QED
            BY <2>1, <2>2, <3>5 DEF Log!Add
    <2>4. CASE UNCHANGED log
        BY <2>4 DEF log, Recent
    <2> QED
        BY <2>3, <2>4 DEF LogNext, Log!Next
<1> QED
    BY <1>1, <1>2, LogTyping, PTL DEF LogSpec, ImplementsRecentEvents, Log!Spec
===============================================================================
