------------------------- MODULE TransferEngine_proofs -------------------------
(* Proofs about TransferEngine for any set of URBs, any table size, any        *)
(* assignment of endpoints, late callbacks and reused registry entries         *)
(* included: nothing is assumed of Prompt or Replug, but in the last sections. *)
(* Who owns a transfer in flight, what a reply says and which pipes stay       *)
(* halted are proved where no callback misses the last wait of a cancel.       *)
EXTENDS TransferEngine, TLAPS

Waits == {"gentle", "force", "plain"}

\* While cancel_pending_urb waits, cur is the active slot it was called for.
WaitShape == pc \in Waits => cur \in Slots /\ slot[cur] # NoUrb

\* Only URBs taken from the socket are in the table.
Taken == \A i \in Slots : slot[i] \in submitted \cup {NoUrb}

\* A semaphore is given by a callback, which leaves a status first.
Signalled == \A i \in Slots : sem[i] = "given" => status[i] \in Results

Typing == TypeOK /\ WaitShape /\ Taken /\ Signalled

USE DEF Slots, Devices, Results, Errors, Labels, Waits

LEMMA InitTyped == Init => Typing
<1> SUFFICES ASSUME Init PROVE Typing
  OBVIOUS
<1>1. TypeOK
  BY UrbsAssumption, SlotsAssumption, EndpointsAssumption DEF Init, TypeOK
<1>2. WaitShape
  BY DEF Init, WaitShape
<1>3. Taken /\ Signalled
  BY DEF Init, Taken, Signalled
<1>. QED
  BY <1>1, <1>2, <1>3 DEF Typing

\* What a step that frees a slot owes to TypeOK besides the table.
Outside ==
    /\ pc \in Labels /\ cur \in 0 .. NumSlots
    /\ why \in {"none", "unlink", "timeout", "cleanup"}
    /\ devinfo \in Devices /\ removed \in BOOLEAN
    /\ xfer \in [Urbs -> {"idle", "flight", "flushed"} \cup Results]
    /\ ctx \in [Urbs -> Slots] /\ target \in [Urbs -> Devices]
    /\ halted \subseteq Devices \X Endpoints
    /\ plug \in {"present", "notified", "unregistered", "closed"}
    /\ reused \in BOOLEAN /\ flag \in BOOLEAN
    /\ submitted \subseteq Urbs /\ unlinked \subseteq submitted
    /\ answers \in [Urbs -> Seq(Results \cup Errors \cup {"unlinked"})]
    /\ sock \in {"open", "held", "dead"}

LEMMA TypeOKOutside == TypeOK => Outside
  BY DEF TypeOK, Outside

LEMMA TypeOKTable ==
  TypeOK => /\ slot \in [Slots -> Urbs \cup {NoUrb}]
            /\ sem \in [Slots -> {"null", "empty", "given"}]
            /\ status \in [Slots -> Results \cup {"error"}]
            /\ \A i \in Slots : sem[i] = "null" <=> slot[i] = NoUrb
  BY DEF TypeOK

\* An answer is appended or dropped: the log keeps its type.
LEMMA AnswerTyped ==
  ASSUME TypeOK, NEW u \in Urbs,
         NEW a \in Results \cup Errors \cup {"unlinked"}, Answer(u, a)
  PROVE  answers' \in [Urbs -> Seq(Results \cup Errors \cup {"unlinked"})]
  BY DEF TypeOK, Answer

\* Freeing an active slot keeps the table's types and shape.
LEMMA FreeTyped ==
  ASSUME TypeOK, NEW i \in Slots, Free(i)
  PROVE  /\ slot' \in [Slots -> Urbs \cup {NoUrb}]
         /\ sem' \in [Slots -> {"null", "empty", "given"}]
         /\ status' \in [Slots -> Results \cup {"error"}]
         /\ aged' \subseteq Urbs
         /\ \A k \in Slots : sem'[k] = "null" <=> slot'[k] = NoUrb
         /\ \A k, j \in Slots :
                slot'[k] = slot'[j] /\ slot'[k] # NoUrb => k = j
  BY DEF TypeOK, Free

\* The start of a cancel leaves cur at the slot it was asked to cancel.
LEMMA BeginCancelTyped ==
  ASSUME TypeOK, NEW i \in Slots, slot[i] # NoUrb, NEW d \in Devices,
         NEW handle \in BOOLEAN, NEW force \in BOOLEAN,
         NEW reason \in {"unlink", "timeout", "cleanup"},
         BeginCancel(i, d, handle, force, reason)
  PROVE  /\ cur' = i /\ why' = reason /\ pc' \in Waits
         /\ xfer' \in [Urbs -> {"idle", "flight", "flushed"} \cup Results]
         /\ halted' \subseteq Devices \X Endpoints
<1>1. slot[i] \in Urbs /\ Ep[slot[i]] \in Endpoints
  BY EndpointsAssumption, UrbsAssumption, TypeOKTable
<1>2. cur' = i /\ why' = reason /\ pc' \in Waits
  BY DEF BeginCancel
<1>3. xfer' \in [Urbs -> {"idle", "flight", "flushed"} \cup Results]
  BY TypeOKOutside DEF BeginCancel, Flush, Outside
<1>4. halted' \subseteq Devices \X Endpoints
  BY <1>1, TypeOKOutside DEF BeginCancel, Outside
<1>. QED
  BY <1>2, <1>3, <1>4

\* ... and adds nothing to it.
LEMMA FreeTaken ==
  ASSUME TypeOK, Taken, Signalled, NEW i \in Slots, Free(i),
         submitted' = submitted
  PROVE  Taken' /\ Signalled'
  BY DEF TypeOK, Taken, Signalled, Free

\* A slot whose semaphore exists holds a URB.
LEMMA GivenHolds ==
  ASSUME Typing
  PROVE  \A i \in Slots : sem[i] # "null" => slot[i] \in Urbs
  BY DEF Typing, TypeOK

LEMMA FreeTypeOK ==
  ASSUME TypeOK, NEW i \in Slots, Free(i), Outside'
  PROVE  TypeOK'
<1>1. /\ slot' \in [Slots -> Urbs \cup {NoUrb}]
      /\ sem' \in [Slots -> {"null", "empty", "given"}]
      /\ status' \in [Slots -> Results \cup {"error"}]
      /\ aged' \subseteq Urbs
      /\ \A k \in Slots : sem'[k] = "null" <=> slot'[k] = NoUrb
      /\ \A k, j \in Slots :
             slot'[k] = slot'[j] /\ slot'[k] # NoUrb => k = j
  BY FreeTyped
<1>. QED
  BY <1>1 DEF TypeOK, Outside

LEMMA QuietTypeOK ==
  ASSUME TypeOK, UNCHANGED <<slot, sem, status, aged>>, Outside'
  PROVE  TypeOK'
  BY DEF TypeOK, Outside

\* The end of a cancel, by the callback or by the clock, frees the slot.
LEMMA WaitOverTyped ==
  ASSUME Typing, WaitTaken \/ LastWaitExpires
  PROVE  Typing'
<1> USE UrbsAssumption, EndpointsAssumption
<1>1. /\ cur \in Slots /\ slot[cur] \in Urbs
      /\ Free(cur) /\ Finish /\ ClearAfterForce
      /\ UNCHANGED <<xfer, ctx, target, submitted>>
  BY DEF WaitTaken, LastWaitExpires, Finish, Typing, WaitShape, TypeOK, host
<1>2. answers' \in [Urbs -> Seq(Results \cup Errors \cup {"unlinked"})]
  BY <1>1, AnswerTyped DEF Finish, Typing
<1>3. halted' \subseteq Devices \X Endpoints
  BY <1>1 DEF ClearAfterForce, Typing, TypeOK
<1>4. pc' \in {"scan", "cleanup"} /\ cur' \in 0 .. NumSlots /\ why' = "none"
  BY <1>1, SlotsAssumption DEF Finish, Goto
<1>5. Outside'
  <2>1. /\ UNCHANGED <<devinfo, removed, xfer, ctx, target, plug, reused, flag>>
        /\ UNCHANGED <<submitted, unlinked, sock>>
    BY <1>1 DEF Finish, host
  <2>2. Outside
    BY TypeOKOutside DEF Typing
  <2>. QED
    BY <1>2, <1>3, <1>4, <2>1, <2>2 DEF Outside
<1>7. TypeOK'
  BY <1>1, <1>5, FreeTypeOK DEF Typing
<1>6. Taken' /\ Signalled'
  BY <1>1, FreeTaken DEF Typing
<1>. QED
  BY <1>4, <1>7, <1>6 DEF Typing, WaitShape

LEMMA NextTyped == Typing /\ [Next]_vars => Typing'
<1> SUFFICES ASSUME Typing, [Next]_vars PROVE Typing'
  OBVIOUS
<1> USE UrbsAssumption, SlotsAssumption, EndpointsAssumption
<1> USE DEF Typing, WaitShape, Taken, Signalled, vars, engine, table, stack, host, client
<1>1. CASE Lookup
  BY <1>1 DEF Lookup, TypeOK
<1>2. CASE Arm
  <2>1. /\ pc' \in {"removal", "stopped"} /\ flag' \in BOOLEAN
        /\ UNCHANGED <<slot, sem, status, aged, submitted>>
    BY <1>2, TypeOKOutside DEF Arm, Outside
  <2>2. Outside'
    BY <1>2, <2>1, TypeOKOutside DEF Arm, Outside
  <2>. QED
    BY <2>1, <2>2, QuietTypeOK
<1>3. CASE CheckRemoval
  <2>1. TypeOK'
    <3>1. removed' \in BOOLEAN /\ flag' \in BOOLEAN /\ reused' \in BOOLEAN
      BY <1>3 DEF CheckRemoval, TypeOK
    <3>2. pc' \in Labels /\ cur' \in 0 .. NumSlots
      BY <1>3 DEF CheckRemoval, Goto, TypeOK
    <3>. QED
      BY <1>3, <3>1, <3>2 DEF CheckRemoval, TypeOK
  <2>2. UNCHANGED <<slot, sem, status, submitted>> /\ pc' \notin Waits
    BY <1>3 DEF CheckRemoval, Goto
  <2>. QED
    BY <2>1, <2>2
<1>4. CASE SocketIdle \/ SocketEnds
  BY <1>4 DEF SocketIdle, SocketEnds, Goto, TypeOK
<1>5. ASSUME NEW u \in Urbs, RecvSubmitRefused(u) \/ RecvSubmitCut(u)
      PROVE  Typing'
  <2>1. answers' \in [Urbs -> Seq(Results \cup Errors \cup {"unlinked"})]
    BY <1>5, AnswerTyped DEF RecvSubmitRefused, RecvSubmitCut, TypeOK
  <2>2. /\ UNCHANGED <<why, devinfo, removed, slot, sem, status, aged, xfer, ctx>>
        /\ UNCHANGED <<target, halted, plug, reused, flag, unlinked, sock>>
        /\ pc' \in {"scan", "cleanup"} /\ cur' = 0
        /\ submitted' = submitted \cup {u}
    BY <1>5 DEF RecvSubmitRefused, RecvSubmitCut, Goto
  <2>3. Outside'
    <3>1. submitted' \subseteq Urbs /\ unlinked' \subseteq submitted'
      BY <2>2, TypeOKOutside DEF Outside
    <3>2. pc' \in Labels /\ cur' \in 0 .. NumSlots
      BY <2>2
    <3>. QED
      BY <2>1, <2>2, <3>1, <3>2, TypeOKOutside DEF Outside
  <2>. QED
    BY <2>2, <2>3, QuietTypeOK
<1>6. ASSUME NEW u \in Urbs, RecvSubmit(u)
      PROVE  Typing'
  <2>1. PICK i \in Slots : /\ LowestFree(i)
                           /\ slot' = [slot EXCEPT ![i] = u]
                           /\ sem' = [sem EXCEPT ![i] = "empty"]
                           /\ ctx' = [ctx EXCEPT ![u] = i]
    BY <1>6 DEF RecvSubmit
  <2>2. ~InTable(u)
    BY <1>6 DEF RecvSubmit, InTable
  <2>. QED
    BY <1>6, <2>1, <2>2 DEF RecvSubmit, LowestFree, InTable, Goto, TypeOK
<1>7. ASSUME NEW u \in Urbs, RecvUnlink(u)
      PROVE  Typing'
  <2>1. PICK i \in Slots :
           /\ slot[i] = u
           /\ BeginCancel(i, devinfo, HasHandle(devinfo), FALSE, "unlink")
    BY <1>7 DEF RecvUnlink
  <2>2. /\ slot[i] # NoUrb /\ devinfo \in Devices
        /\ HasHandle(devinfo) \in BOOLEAN
    BY <2>1 DEF TypeOK, HasHandle
  <2>3. /\ cur' = i /\ why' = "unlink" /\ pc' \in Waits
        /\ xfer' \in [Urbs -> {"idle", "flight", "flushed"} \cup Results]
        /\ halted' \subseteq Devices \X Endpoints
    BY <2>1, <2>2, BeginCancelTyped
  <2>. QED
    BY <1>7, <2>2, <2>3 DEF RecvUnlink, TypeOK
<1>8. ASSUME NEW u \in Urbs, RecvUnlinkLate(u)
      PROVE  Typing'
  BY <1>8 DEF RecvUnlinkLate, Goto, TypeOK
<1>9. CASE ScanSkip \/ ScanEnd \/ CleanupSkip \/ CleanupEnd
  <2>1. TypeOK'
    <3>1. CASE ScanSkip
      BY <3>1 DEF ScanSkip, TypeOK
    <3>2. CASE CleanupSkip
      BY <3>2 DEF CleanupSkip, TypeOK
    <3>3. CASE ScanEnd \/ CleanupEnd
      BY <3>3 DEF ScanEnd, CleanupEnd, Goto, TypeOK
    <3>. QED
      BY <1>9, <3>1, <3>2, <3>3
  <2>2. UNCHANGED <<slot, sem, status, submitted>> /\ pc' \notin Waits
    BY <1>9 DEF ScanSkip, ScanEnd, CleanupSkip, CleanupEnd, Goto
  <2>. QED
    BY <2>1, <2>2
<1>10. CASE ScanCompleted
  <2>1. /\ cur \in Slots /\ slot[cur] \in Urbs /\ Free(cur)
        /\ status[cur] \in Results
    BY <1>10 DEF ScanCompleted, TypeOK
  <2>2. answers' \in [Urbs -> Seq(Results \cup Errors \cup {"unlinked"})]
    BY <1>10, <2>1, AnswerTyped DEF ScanCompleted
  <2>3. /\ xfer' \in [Urbs -> {"idle", "flight", "flushed"} \cup Results]
        /\ halted' \subseteq Devices \X Endpoints
    BY <1>10 DEF ScanCompleted, Flush, TypeOK
  <2>4. pc' \in {"scan", "cleanup"} /\ cur' \in 0 .. NumSlots
    BY <1>10, <2>1 DEF ScanCompleted, Goto
  <2>6. Outside'
    <3>1. /\ UNCHANGED <<why, devinfo, removed, ctx, target>>
          /\ UNCHANGED <<plug, reused, flag, submitted, unlinked, sock>>
      BY <1>10 DEF ScanCompleted
    <3>. QED
      BY <2>2, <2>3, <2>4, <3>1, TypeOKOutside DEF Outside
  <2>5. TypeOK'
    BY <2>1, <2>6, FreeTypeOK
  <2>. QED
    BY <1>10, <2>1, <2>4, <2>5, FreeTyped, FreeTaken DEF ScanCompleted
<1>11. CASE ScanTimeout
  <2>1. /\ cur \in Slots /\ slot[cur] # NoUrb
        /\ BeginCancel(cur, "mine", TRUE, TRUE, "timeout")
    BY <1>11 DEF ScanTimeout, TypeOK
  <2>2. /\ cur' = cur /\ why' = "timeout" /\ pc' \in Waits
        /\ xfer' \in [Urbs -> {"idle", "flight", "flushed"} \cup Results]
        /\ halted' \subseteq Devices \X Endpoints
    BY <2>1, BeginCancelTyped
  <2>3. /\ UNCHANGED <<slot, sem, status, aged, devinfo, removed, ctx, target>>
        /\ UNCHANGED <<plug, reused, flag, submitted, unlinked, answers, sock>>
    BY <1>11 DEF ScanTimeout
  <2>4. TypeOK'
    BY <2>1, <2>2, <2>3, TypeOKOutside, QuietTypeOK DEF Outside
  <2>. QED
    BY <2>1, <2>2, <2>3, <2>4
<1>12. CASE Exists
  <2>1. /\ pc' \in {"cleanup", "removal"} /\ removed' \in BOOLEAN
        /\ UNCHANGED <<slot, sem, status, aged, submitted>>
    BY <1>12, TypeOKOutside DEF Exists, Outside
  <2>2. devinfo' \in Devices
    BY <1>12, TypeOKOutside DEF Exists, Entry, Outside
  <2>3. Outside'
    BY <1>12, <2>1, <2>2, TypeOKOutside DEF Exists, Outside
  <2>. QED
    BY <2>1, <2>3, QuietTypeOK
<1>13. CASE CleanupCancel
  <2>1. /\ cur \in Slots /\ slot[cur] # NoUrb /\ (~removed) \in BOOLEAN
        /\ BeginCancel(cur, "mine", ~removed, TRUE, "cleanup")
    BY <1>13 DEF CleanupCancel, TypeOK
  <2>2. /\ cur' = cur /\ why' = "cleanup" /\ pc' \in Waits
        /\ xfer' \in [Urbs -> {"idle", "flight", "flushed"} \cup Results]
        /\ halted' \subseteq Devices \X Endpoints
    BY <2>1, BeginCancelTyped
  <2>3. /\ UNCHANGED <<slot, sem, status, aged, devinfo, removed, ctx, target>>
        /\ UNCHANGED <<plug, reused, flag, submitted, unlinked, answers, sock>>
    BY <1>13 DEF CleanupCancel
  <2>4. TypeOK'
    BY <2>1, <2>2, <2>3, TypeOKOutside, QuietTypeOK DEF Outside
  <2>. QED
    BY <2>1, <2>2, <2>3, <2>4
<1>14. CASE GentleExpires
  <2>1. /\ cur \in Slots /\ slot[cur] # NoUrb /\ devinfo \in Devices
        /\ BeginCancel(cur, devinfo, TRUE, TRUE, why)
    BY <1>14 DEF GentleExpires, TypeOK
  <2>2. /\ cur' = cur /\ why' = why /\ pc' \in Waits
        /\ xfer' \in [Urbs -> {"idle", "flight", "flushed"} \cup Results]
        /\ halted' \subseteq Devices \X Endpoints
    BY <2>1 DEF BeginCancel, Flush, TypeOK
  <2>3. /\ UNCHANGED <<slot, sem, status, aged, devinfo, removed, ctx, target>>
        /\ UNCHANGED <<plug, reused, flag, submitted, unlinked, answers, sock>>
    BY <1>14 DEF GentleExpires
  <2>4. TypeOK'
    BY <2>1, <2>2, <2>3, TypeOKOutside, QuietTypeOK DEF Outside
  <2>. QED
    BY <2>1, <2>2, <2>3, <2>4
<1>15. CASE WaitTaken \/ LastWaitExpires
  BY <1>15, WaitOverTyped DEF TypeOK
<1>16. CASE Terminated
  BY <1>16 DEF Terminated, TypeOK
<1>17. ASSUME NEW u \in Urbs, NEW result \in Results, Callback(u, result)
       PROVE  Typing'
  <2>1. ctx[u] \in Slots
    BY DEF TypeOK
  <2>2. /\ xfer' \in [Urbs -> {"idle", "flight", "flushed"} \cup Results]
        /\ halted' \subseteq Devices \X Endpoints
    BY <1>17 DEF Callback, TypeOK
  <2>3. CASE sem[ctx[u]] = "null"
    <3>1. UNCHANGED <<slot, sem, status, submitted>> /\ pc' = "panic"
      BY <1>17, <2>3 DEF Callback
    <3>. QED
      BY <1>17, <2>2, <3>1 DEF Callback, TypeOK
  <2>4. CASE sem[ctx[u]] # "null"
    <3>1. /\ status' = [status EXCEPT ![ctx[u]] = result]
          /\ sem' = [sem EXCEPT ![ctx[u]] = "given"]
          /\ UNCHANGED <<pc, cur, slot, submitted>>
      BY <1>17, <2>4 DEF Callback
    <3>2. /\ sem' \in [Slots -> {"null", "empty", "given"}]
          /\ status' \in [Slots -> Results \cup {"error"}]
          /\ \A i \in Slots : sem'[i] = "null" <=> slot'[i] = NoUrb
          /\ Signalled'
      BY <2>1, <2>4, <3>1 DEF TypeOK
    <3>3. TypeOK'
      BY <1>17, <2>2, <3>1, <3>2 DEF Callback, TypeOK
    <3>. QED
      BY <3>1, <3>2, <3>3
  <2>. QED
    BY <2>3, <2>4
<1>18. ASSUME NEW u \in Urbs, Age(u)
       PROVE  Typing'
  BY <1>18 DEF Age, TypeOK
<1>19. CASE Hold \/ LetGo \/ Disconnect \/ Unplug \/ PlugOther \/ LoseFlag
  <2>1. TypeOK'
    <3>1. CASE Hold \/ LetGo \/ Disconnect
      <4>1. /\ UNCHANGED <<engine, slot, sem, status, aged, stack, host>>
            /\ UNCHANGED <<submitted, unlinked, answers>>
            /\ sock' \in {"open", "held", "dead"}
        BY <3>1 DEF Hold, LetGo, Disconnect
      <4>. QED
        BY <4>1, TypeOKOutside, QuietTypeOK DEF Outside
    <3>2. CASE Unplug
      <4>1. flag' \in BOOLEAN /\ reused' \in BOOLEAN
        BY <3>2 DEF Unplug, TypeOK
      <4>2. plug' \in {"present", "notified", "unregistered", "closed"}
        BY <3>2 DEF Unplug
      <4>. QED
        BY <3>2, <4>1, <4>2 DEF Unplug, TypeOK
    <3>3. CASE PlugOther \/ LoseFlag
      <4>1. flag' \in BOOLEAN /\ reused' \in BOOLEAN
        BY <3>3 DEF PlugOther, LoseFlag, TypeOK
      <4>. QED
        BY <3>3, <4>1 DEF PlugOther, LoseFlag, TypeOK
    <3>. QED
      BY <1>19, <3>1, <3>2, <3>3
  <2>2. UNCHANGED <<pc, cur, slot, sem, status, submitted>>
    BY <1>19 DEF Hold, LetGo, Disconnect, Unplug, PlugOther, LoseFlag
  <2>. QED
    BY <2>1, <2>2
<1>20. CASE UNCHANGED vars
  BY <1>20 DEF TypeOK
<1>. QED
  BY <1>1, <1>2, <1>3, <1>4, <1>5, <1>6, <1>7, <1>8, <1>9, <1>10, <1>11, <1>12,
     <1>13, <1>14, <1>15, <1>16, <1>17, <1>18, <1>19, <1>20
     DEF Next, Engine, HostStack, Environment

\* Spec => []TypeOK: the table keeps its shape in every session, whatever the
\* host stack, the host manager and the client do.
THEOREM Typed == SafeSpec => []TypeOK
<1>1. Typing => TypeOK
  BY DEF Typing
<1>. QED
  BY <1>1, InitTyped, NextTyped, PTL DEF SafeSpec
-------------------------------------------------------------------------------
(* One answer per URB *)

AnswerSet == Results \cup Errors \cup {"unlinked"}

\* The ledger of answers against the table.
Ledger ==
    \A u \in Urbs :
        /\ InTable(u) \/ u \notin submitted => answers[u] = <<>>
        /\ answers[u] = <<>> \/ \E a \in AnswerSet : answers[u] = <<a>>
        /\ u \in submitted => InTable(u) \/ answers[u] # <<>> \/ sock = "dead"

\* A cancel for an unlink is of a URB whose CMD_UNLINK was received.
Asked == pc \in Waits /\ why = "unlink" => slot[cur] \in unlinked

IInv == Typing /\ Ledger /\ Asked

LEMMA InitIInv == Init => IInv
<1> SUFFICES ASSUME Init PROVE IInv
  OBVIOUS
<1>1. Ledger
  <2>1. \A u \in Urbs : answers[u] = <<>> /\ u \notin submitted
    BY DEF Init
  <2>. QED
    BY <2>1 DEF Ledger
<1>2. Asked
  BY DEF Init, Asked
<1>. QED
  BY <1>1, <1>2, InitTyped DEF IInv

\* Freeing a slot takes its URB out of the table, and no other.
LEMMA FreeInTable ==
  ASSUME TypeOK, NEW i \in Slots, slot[i] \in Urbs, Free(i)
  PROVE  \A v \in Urbs : InTable(v)' <=> InTable(v) /\ v # slot[i]
  BY UrbsAssumption DEF TypeOK, Free, InTable

\* The reply to a URB of the table, and the release of its slot.
LEMMA AnswerLedger ==
  ASSUME IInv, NEW i \in Slots, slot[i] \in Urbs, Free(i),
         NEW a \in AnswerSet, Answer(slot[i], a), UNCHANGED <<submitted, sock>>
  PROVE  Ledger'
<1>1. /\ answers[slot[i]] = <<>>
      /\ answers \in [Urbs -> Seq(AnswerSet)]
  BY DEF IInv, Ledger, InTable, Typing, TypeOK, AnswerSet
<1>2. \A v \in Urbs : InTable(v)' <=> InTable(v) /\ v # slot[i]
  BY FreeInTable DEF IInv, Typing
<1>3. /\ \A v \in Urbs : v # slot[i] => answers'[v] = answers[v]
      /\ sock = "open" => answers'[slot[i]] = <<a>>
      /\ sock # "open" => answers' = answers
  BY <1>1 DEF Answer
<1>4. slot[i] \in submitted /\ sock \in {"open", "dead"}
  BY UrbsAssumption DEF IInv, Typing, Taken, TypeOK, Answer, Unheld
<1>5. <<a>> # <<>>
  OBVIOUS
<1> SUFFICES ASSUME NEW v \in Urbs
             PROVE  /\ InTable(v)' \/ v \notin submitted' => answers'[v] = <<>>
                    /\ \/ answers'[v] = <<>>
                       \/ \E b \in AnswerSet : answers'[v] = <<b>>
                    /\ v \in submitted' =>
                          InTable(v)' \/ answers'[v] # <<>> \/ sock' = "dead"
  BY DEF Ledger
<1>6. CASE v # slot[i]
  BY <1>2, <1>3, <1>6 DEF IInv, Ledger
<1>7. CASE v = slot[i]
  <2>1. ~InTable(v)'
    BY <1>2, <1>7
  <2>2. CASE sock = "open"
    BY <1>3, <1>4, <1>5, <1>7, <2>1, <2>2
  <2>3. CASE sock # "open"
    <3>1. answers'[v] = <<>> /\ sock' = "dead"
      BY <1>1, <1>3, <1>4, <1>7, <2>3
    <3>. QED
      BY <2>1, <3>1
  <2>. QED
    BY <2>2, <2>3
<1>. QED
  BY <1>6, <1>7

\* A step that ends a wait answers the URB it waited for.
LEMMA WaitOverAnswers ==
  ASSUME IInv, WaitTaken \/ LastWaitExpires
  PROVE  /\ cur \in Slots /\ slot[cur] \in Urbs /\ Free(cur)
         /\ UNCHANGED <<submitted, unlinked, sock>>
         /\ pc' \notin Waits
         /\ \/ slot[cur] \in unlinked /\ Answer(slot[cur], "unlinked")
            \/ \E a \in Errors : Answer(slot[cur], a)
<1>1. Finish /\ pc \in Waits
  BY DEF WaitTaken, LastWaitExpires
<1>2. cur \in Slots /\ slot[cur] \in Urbs
  <2>1. cur \in Slots /\ slot[cur] # NoUrb
    BY <1>1 DEF IInv, Typing, WaitShape
  <2>2. slot \in [Slots -> Urbs \cup {NoUrb}]
    BY DEF IInv, Typing, TypeOK
  <2>. QED
    BY <2>1, <2>2
<1>3. why = "unlink" => slot[cur] \in unlinked
  BY <1>1 DEF IInv, Asked
<1>. QED
  BY <1>1, <1>2, <1>3 DEF Finish, Goto

\* A scan that finds a transfer done answers with the status left in the slot.
LEMMA CompletedAnswers ==
  ASSUME IInv, ScanCompleted
  PROVE  /\ cur \in Slots /\ slot[cur] \in Urbs /\ Free(cur)
         /\ UNCHANGED <<submitted, unlinked, sock>>
         /\ pc' \notin Waits
         /\ status[cur] \in Results /\ Answer(slot[cur], status[cur])
<1>1. /\ cur \in Slots /\ sem[cur] = "given" /\ Free(cur)
      /\ Answer(slot[cur], status[cur])
      /\ UNCHANGED <<submitted, unlinked, sock>>
  BY DEF ScanCompleted
<1>2. pc' = "scan" \/ pc' = "cleanup"
  BY DEF ScanCompleted, Goto
<1>3. slot[cur] \in Urbs
  BY <1>1, GivenHolds DEF IInv
<1>4. status[cur] \in Results
  BY <1>1 DEF IInv, Typing, Signalled
<1>. QED
  BY <1>1, <1>2, <1>3, <1>4

\* A step that leaves the table, the answers and the taken URBs alone.
LEMMA QuietLedger ==
  ASSUME Ledger, UNCHANGED <<slot, submitted, answers>>,
         sock = "dead" => sock' = "dead"
  PROVE  Ledger'
  BY DEF Ledger, InTable

LEMMA NextIInv == IInv /\ [Next]_vars => IInv'
<1> SUFFICES ASSUME IInv, [Next]_vars PROVE IInv'
  OBVIOUS
<1>1. Typing'
  BY NextTyped DEF IInv
<1> SUFFICES Ledger' /\ Asked'
  BY <1>1 DEF IInv
<1> USE DEF vars, engine, table, stack, host, client
<1>2. ASSUME NEW u \in Urbs, RecvSubmit(u)
      PROVE  Ledger' /\ Asked'
  <2>1. PICK i \in Slots : /\ LowestFree(i)
                           /\ slot' = [slot EXCEPT ![i] = u]
    BY <1>2 DEF RecvSubmit
  <2>2. \A v \in Urbs : InTable(v)' <=> InTable(v) \/ v = u
    BY <2>1, UrbsAssumption DEF LowestFree, InTable, IInv, Typing, TypeOK
  <2>3. /\ submitted' = submitted \cup {u}
        /\ UNCHANGED <<answers, sock>> /\ pc' = "scan"
        /\ u \notin submitted
    BY <1>2 DEF RecvSubmit, Goto
  <2>. QED
    BY <2>2, <2>3 DEF IInv, Ledger, Asked
<1>3. ASSUME NEW u \in Urbs, RecvSubmitRefused(u)
      PROVE  Ledger' /\ Asked'
  <2>1. /\ submitted' = submitted \cup {u} /\ u \notin submitted
        /\ UNCHANGED <<slot, sock>> /\ pc' = "scan"
    BY <1>3 DEF RecvSubmitRefused, Goto
  <2>2. PICK a \in AnswerSet : Answer(u, a)
    BY <1>3 DEF RecvSubmitRefused, AnswerSet
  <2>3. answers[u] = <<>> /\ ~InTable(u)
    BY <2>1, UrbsAssumption DEF IInv, Ledger, Typing, Taken, InTable
  <2>4. /\ \A v \in Urbs : v # u => answers'[v] = answers[v]
        /\ sock = "open" => answers'[u] = <<a>>
        /\ sock # "open" => answers' = answers
    BY <2>2, <2>3 DEF Answer, IInv, Typing, TypeOK
  <2>5. /\ <<a>> # <<>> /\ sock \in {"open", "dead"}
        /\ \A v \in Urbs : InTable(v)' <=> InTable(v)
    BY <2>1, <2>2 DEF IInv, Typing, TypeOK, InTable, Answer, Unheld
  <2>6. Ledger'
    <3>1. ASSUME NEW v \in Urbs, v # u
          PROVE  /\ answers'[v] = answers[v] /\ (InTable(v)' <=> InTable(v))
                 /\ v \in submitted' <=> v \in submitted
      BY <2>1, <2>4, <2>5, <3>1
    <3>2. /\ u \in submitted' /\ ~InTable(u)'
          /\ \/ answers'[u] = <<a>>
             \/ answers'[u] = <<>> /\ sock' = "dead"
      BY <2>1, <2>3, <2>4, <2>5
    <3>. QED
      BY <2>1, <2>5, <3>1, <3>2 DEF IInv, Ledger
  <2>. QED
    BY <2>1, <2>6 DEF Asked
<1>4. ASSUME NEW u \in Urbs, RecvSubmitCut(u)
      PROVE  Ledger' /\ Asked'
  <2>1. /\ submitted' = submitted \cup {u} /\ sock = "dead"
        /\ UNCHANGED <<slot, answers, sock>> /\ pc' = "cleanup"
        /\ u \notin submitted
    BY <1>4 DEF RecvSubmitCut, Goto
  <2>. QED
    BY <2>1 DEF IInv, Ledger, Asked, InTable
<1>5. ASSUME NEW u \in Urbs, RecvUnlink(u)
      PROVE  Ledger' /\ Asked'
  <2>1. /\ UNCHANGED <<slot, submitted, answers, sock>>
        /\ unlinked' = unlinked \cup {u}
        /\ slot[cur'] = u
    BY <1>5 DEF RecvUnlink, BeginCancel
  <2>. QED
    BY <2>1, QuietLedger DEF IInv, Asked
<1>6. ASSUME NEW u \in Urbs, RecvUnlinkLate(u)
      PROVE  Ledger' /\ Asked'
  <2>1. UNCHANGED <<slot, submitted, answers, sock>> /\ pc' \notin Waits
    BY <1>6 DEF RecvUnlinkLate, Goto
  <2>. QED
    BY <2>1, QuietLedger DEF IInv, Asked
<1>7. CASE ScanCompleted
  BY <1>7, CompletedAnswers, AnswerLedger DEF Asked, IInv, AnswerSet
<1>8. CASE WaitTaken \/ LastWaitExpires
  <2>1. /\ cur \in Slots /\ slot[cur] \in Urbs /\ Free(cur)
        /\ UNCHANGED <<submitted, sock>> /\ pc' \notin Waits
    BY <1>8, WaitOverAnswers
  <2>2. PICK a \in AnswerSet : Answer(slot[cur], a)
    BY <1>8, WaitOverAnswers DEF AnswerSet
  <2>. QED
    BY <2>1, <2>2, AnswerLedger DEF Asked
<1>9. CASE ScanTimeout \/ CleanupCancel
  <2>1. /\ UNCHANGED <<slot, submitted, answers, sock>>
        /\ why' \in {"timeout", "cleanup"}
    BY <1>9 DEF ScanTimeout, CleanupCancel, BeginCancel
  <2>. QED
    BY <2>1, QuietLedger DEF IInv, Asked
<1>10. CASE GentleExpires
  <2>1. UNCHANGED <<slot, submitted, answers, sock, unlinked, cur, why>>
    BY <1>10 DEF GentleExpires, BeginCancel
  <2>2. pc \in Waits
    BY <1>10 DEF GentleExpires
  <2>. QED
    BY <2>1, <2>2, QuietLedger DEF IInv, Asked
<1>11. CASE \/ Lookup \/ Arm \/ CheckRemoval \/ SocketIdle \/ SocketEnds
            \/ ScanSkip \/ ScanEnd \/ Exists \/ CleanupSkip \/ CleanupEnd
  <2>1. /\ UNCHANGED <<slot, submitted, answers, sock>>
        /\ pc' \notin Waits
    BY <1>11 DEF Lookup, Arm, CheckRemoval, SocketIdle, SocketEnds, ScanSkip,
                 ScanEnd, Exists, CleanupSkip, CleanupEnd, Goto
  <2>. QED
    BY <2>1, QuietLedger DEF IInv, Asked
<1>12. CASE HostStack
  <2>1. /\ UNCHANGED <<slot, submitted, answers, sock, unlinked, cur, why>>
        /\ pc' \in {pc, "panic"}
    BY <1>12 DEF HostStack, Callback
  <2>. QED
    BY <2>1, QuietLedger DEF IInv, Asked
<1>13. CASE Environment \/ Terminated \/ UNCHANGED vars
  <2>1. /\ UNCHANGED <<slot, submitted, answers, unlinked, pc, cur, why>>
        /\ sock = "dead" => sock' = "dead"
    BY <1>13 DEF Environment, Age, Hold, LetGo, Disconnect, Unplug, PlugOther, LoseFlag,
                 Terminated
  <2>. QED
    BY <2>1, QuietLedger DEF IInv, Asked
<1>. QED
  BY <1>2, <1>3, <1>4, <1>5, <1>6, <1>7, <1>8, <1>9, <1>10, <1>11, <1>12, <1>13
     DEF Next, Engine

THEOREM Invariance == SafeSpec => []IInv
  BY InitIInv, NextIInv, PTL DEF SafeSpec

\* Spec => []OneAnswer: no URB is ever answered twice.
THEOREM AtMostOneAnswer == SafeSpec => []OneAnswer
<1>1. IInv => OneAnswer
  <2>1. \A a \in AnswerSet : Len(<<a>>) <= 1
    OBVIOUS
  <2>2. Len(<<>>) <= 1
    OBVIOUS
  <2>. QED
    BY <2>1, <2>2 DEF IInv, Ledger, OneAnswer
<1>. QED
  BY <1>1, Invariance, PTL

\* Spec => []NoneForgotten: a URB leaves the table only with its answer.
THEOREM NothingForgotten == SafeSpec => []NoneForgotten
<1>1. IInv => NoneForgotten
  BY DEF IInv, Ledger, NoneForgotten, Typing, TypeOK
<1>. QED
  BY <1>1, Invariance, PTL
-------------------------------------------------------------------------------
(* An ended session left nothing in the table *)

\* The cleanup walk has emptied the slots below cur; before the loop, and after
\* the walk, all of them are empty.
Swept ==
    /\ pc = "exists" => cur = 0
    /\ pc = "cleanup" \/ (pc \in Waits /\ why = "cleanup") =>
          \A i \in Slots : i < cur => slot[i] = NoUrb
    /\ pc \in {"lookup", "arm", "stopped"} => \A i \in Slots : slot[i] = NoUrb

DInv == Typing /\ Swept

\* A step that starts the walk over, or goes on in the loop, keeps Swept.
LEMMA LoopSwept ==
  ASSUME \/ pc' \in {"removal", "socket", "scan", "panic"}
         \/ pc' \in {"exists", "cleanup"} /\ cur' = 0
  PROVE  Swept'
  BY SlotsAssumption DEF Swept

\* The end of a wait: in the cleanup, the walk goes one slot on.
LEMMA WaitOverSwept ==
  ASSUME DInv, WaitTaken \/ LastWaitExpires
  PROVE  Swept'
<1>1. /\ Finish /\ Free(cur) /\ pc \in Waits
      /\ cur \in Slots /\ slot \in [Slots -> Urbs \cup {NoUrb}]
  BY DEF WaitTaken, LastWaitExpires, Finish, DInv, Typing, WaitShape, TypeOK
<1>2. CASE why = "cleanup"
  <2>1. pc' = "cleanup" /\ cur' = cur + 1 /\ slot' = [slot EXCEPT ![cur] = NoUrb]
    BY <1>1, <1>2 DEF Finish, Free
  <2>2. \A i \in Slots : i < cur => slot[i] = NoUrb
    BY <1>1, <1>2 DEF DInv, Swept
  <2>3. \A i \in Slots : i < cur' => slot'[i] = NoUrb
    BY <1>1, <2>1, <2>2
  <2>. QED
    BY <2>1, <2>3 DEF Swept
<1>3. CASE why # "cleanup"
  <2>1. pc' = "scan" \/ (pc' = "cleanup" /\ cur' = 0)
    BY <1>1, <1>3 DEF Finish, Goto
  <2>. QED
    BY <2>1, LoopSwept
<1>. QED
  BY <1>2, <1>3

LEMMA NextDInv == DInv /\ [Next]_vars => DInv'
<1> SUFFICES ASSUME DInv, [Next]_vars PROVE Swept'
  BY NextTyped DEF DInv
<1> USE DEF vars, engine, table, stack, host, client
<1>1. CASE Lookup \/ Arm
  <2>1. /\ \A i \in Slots : slot[i] = NoUrb
        /\ slot' = slot /\ pc' \in {"arm", "removal", "stopped"}
    BY <1>1 DEF Lookup, Arm, DInv, Swept
  <2>. QED
    BY <2>1 DEF Swept
<1>2. CASE CheckRemoval \/ SocketIdle \/ SocketEnds \/ ScanEnd
  <2>1. \/ pc' \in {"socket", "scan"}
        \/ pc' \in {"exists", "cleanup"} /\ cur' = 0
    BY <1>2 DEF CheckRemoval, SocketIdle, SocketEnds, ScanEnd, Goto
  <2>. QED
    BY <2>1, LoopSwept
<1>3. ASSUME NEW u \in Urbs,
             \/ RecvSubmitRefused(u) \/ RecvSubmitCut(u)
             \/ RecvSubmit(u) \/ RecvUnlinkLate(u)
      PROVE  Swept'
  <2>1. pc' = "scan" \/ (pc' = "cleanup" /\ cur' = 0)
    BY <1>3 DEF RecvSubmitRefused, RecvSubmitCut, RecvSubmit, RecvUnlinkLate,
                Goto
  <2>. QED
    BY <2>1, LoopSwept
<1>4. ASSUME NEW u \in Urbs, RecvUnlink(u)
      PROVE  Swept'
  <2>1. pc' \in Waits /\ why' = "unlink"
    BY <1>4 DEF RecvUnlink, BeginCancel
  <2>. QED
    BY <2>1 DEF Swept
<1>5. CASE ScanSkip \/ ScanCompleted
  <2>1. pc' = "scan" \/ (pc' = "cleanup" /\ cur' = 0)
    BY <1>5 DEF ScanSkip, ScanCompleted, Goto
  <2>. QED
    BY <2>1, LoopSwept
<1>6. CASE ScanTimeout
  <2>1. pc' \in Waits /\ why' = "timeout"
    BY <1>6 DEF ScanTimeout, BeginCancel
  <2>. QED
    BY <2>1 DEF Swept
<1>7. CASE Exists
  <2>1. \/ pc' = "removal"
        \/ pc' = "cleanup" /\ cur' = 0
    BY <1>7 DEF Exists, DInv, Swept
  <2>. QED
    BY <2>1, LoopSwept
<1>8. CASE CleanupSkip
  <2>1. /\ \A i \in Slots : i < cur => slot[i] = NoUrb
        /\ cur \in Slots /\ slot[cur] = NoUrb
        /\ slot' = slot /\ cur' = cur + 1 /\ pc' = "cleanup"
    BY <1>8 DEF CleanupSkip, DInv, Swept
  <2>2. \A i \in Slots : i < cur' => slot'[i] = NoUrb
    BY <2>1
  <2>. QED
    BY <2>1, <2>2 DEF Swept
<1>9. CASE CleanupCancel
  <2>1. /\ \A i \in Slots : i < cur => slot[i] = NoUrb
        /\ slot' = slot /\ cur' = cur /\ pc' \in Waits
    BY <1>9 DEF CleanupCancel, BeginCancel, DInv, Swept
  <2>. QED
    BY <2>1 DEF Swept
<1>10. CASE CleanupEnd
  <2>1. /\ \A i \in Slots : i < cur => slot[i] = NoUrb
        /\ slot' = slot /\ pc' = "stopped"
    BY <1>10 DEF CleanupEnd, Goto, DInv, Swept
  <2>2. cur \in 0 .. NumSlots /\ cur \notin Slots
    BY <1>10 DEF CleanupEnd, DInv, Typing, TypeOK
  <2>3. \A i \in Slots : i < cur
    BY <2>2, SlotsAssumption
  <2>. QED
    BY <2>1, <2>3 DEF Swept
<1>11. CASE GentleExpires
  <2>1. /\ pc \in Waits /\ pc' \in Waits
        /\ slot' = slot /\ cur' = cur /\ why' = why
    BY <1>11 DEF GentleExpires, BeginCancel
  <2>. QED
    BY <2>1 DEF DInv, Swept
<1>12. CASE WaitTaken \/ LastWaitExpires
  BY <1>12, WaitOverSwept
<1>13. CASE HostStack
  <2>1. UNCHANGED <<slot, cur, why>> /\ pc' \in {pc, "panic"}
    BY <1>13 DEF HostStack, Callback
  <2>. QED
    BY <2>1 DEF DInv, Swept
<1>14. CASE Environment \/ Terminated \/ UNCHANGED vars
  <2>1. UNCHANGED <<slot, cur, why, pc>>
    BY <1>14 DEF Environment, Age, Hold, LetGo, Disconnect, Unplug, PlugOther, LoseFlag,
                 Terminated
  <2>. QED
    BY <2>1 DEF DInv, Swept
<1>. QED
  BY <1>1, <1>2, <1>3, <1>4, <1>5, <1>6, <1>7, <1>8, <1>9, <1>10, <1>11, <1>12,
     <1>13, <1>14 DEF Next, Engine

\* Spec => []TableDrained: the session ends with an empty table whichever way it
\* left its loop and however its cancels ended.
THEOREM Drained == SafeSpec => []TableDrained
<1>1. Init => DInv
  BY InitTyped DEF Init, DInv, Swept
<1>2. DInv => TableDrained
  BY DEF DInv, Swept, TableDrained
<1>. QED
  BY <1>1, <1>2, NextDInv, PTL DEF SafeSpec
-------------------------------------------------------------------------------
(* The session implements UrbService *)

\* A step that answers a URB of the table is a reply, or is not seen by the
\* service when the client is gone.
LEMMA AnswerRefines ==
  ASSUME IInv, NEW i \in Slots, slot[i] \in Urbs,
         NEW a \in AnswerSet, Answer(slot[i], a),
         a = "unlinked" => slot[i] \in unlinked,
         UNCHANGED <<submitted, unlinked, sock>>
  PROVE  [Service!Next]_(Service!vars)
<1>1. slot[i] \in submitted /\ answers[slot[i]] = <<>>
  BY UrbsAssumption DEF IInv, Ledger, InTable, Typing, Taken
<1>2. CASE sock = "open"
  <2>1. answers' = [answers EXCEPT ![slot[i]] = <<a>>]
    BY <1>1, <1>2 DEF Answer
  <2>2. Service!Reply(slot[i], a)
    BY <1>1, <1>2, <2>1 DEF Service!Reply
  <2>3. CASE a = "unlinked"
    BY <2>2, <2>3 DEF Service!Next, Service!Abort
  <2>4. CASE a # "unlinked"
    BY <2>2, <2>4 DEF Service!Next, AnswerSet
  <2>. QED
    BY <2>3, <2>4
<1>3. CASE sock # "open"
  BY <1>3 DEF Answer, Service!vars
<1>. QED
  BY <1>2, <1>3

LEMMA StepRefines == IInv /\ [Next]_vars => [Service!Next]_(Service!vars)
<1> SUFFICES ASSUME IInv, [Next]_vars PROVE [Service!Next]_(Service!vars)
  OBVIOUS
<1> USE DEF vars, engine, table, stack, host, client
<1>1. ASSUME NEW u \in Urbs, RecvSubmit(u) \/ RecvSubmitCut(u)
      PROVE  Service!Submit(u)
  BY <1>1 DEF RecvSubmit, RecvSubmitCut, Service!Submit
<1>2. ASSUME NEW u \in Urbs, RecvSubmitRefused(u)
      PROVE  \/ Service!Submit(u)
             \/ \E a \in Results \cup Errors : Service!Refuse(u, a)
  <2>1. /\ u \notin submitted /\ submitted' = submitted \cup {u}
        /\ UNCHANGED <<unlinked, sock>>
    BY <1>2 DEF RecvSubmitRefused
  <2>2. PICK a \in Errors : Answer(u, a)
    BY <1>2 DEF RecvSubmitRefused
  <2>3. answers[u] = <<>>
    BY <2>1 DEF IInv, Ledger
  <2>4. CASE sock = "open"
    <3>1. answers' = [answers EXCEPT ![u] = <<a>>]
      BY <2>2, <2>3, <2>4 DEF Answer
    <3>. QED
      BY <2>1, <3>1 DEF Service!Refuse
  <2>5. CASE sock # "open"
    BY <2>1, <2>2, <2>5 DEF Answer, Service!Submit
  <2>. QED
    BY <2>4, <2>5
<1>3. ASSUME NEW u \in Urbs, RecvUnlink(u) \/ RecvUnlinkLate(u)
      PROVE  Service!Unlink(u)
  BY <1>3 DEF RecvUnlink, RecvUnlinkLate, Service!Unlink
<1>4. CASE ScanCompleted
  <2>1. status[cur] \in AnswerSet /\ status[cur] # "unlinked"
    BY <1>4, CompletedAnswers DEF AnswerSet
  <2>. QED
    BY <1>4, <2>1, CompletedAnswers, AnswerRefines
<1>5. CASE WaitTaken \/ LastWaitExpires
  <2>1. PICK a \in AnswerSet : /\ Answer(slot[cur], a)
                               /\ a = "unlinked" => slot[cur] \in unlinked
    BY <1>5, WaitOverAnswers DEF AnswerSet
  <2>. QED
    BY <1>5, <2>1, WaitOverAnswers, AnswerRefines
<1>6. CASE Hold \/ LetGo \/ Disconnect
  BY <1>6 DEF Hold, LetGo, Disconnect, Service!Next, Service!Hold, Service!LetGo,
              Service!Disconnect
<1>7. CASE \/ Lookup \/ Arm \/ CheckRemoval \/ SocketIdle \/ SocketEnds
           \/ ScanSkip \/ ScanEnd \/ Exists \/ CleanupSkip \/ CleanupEnd
  BY <1>7 DEF Lookup, Arm, CheckRemoval, SocketIdle, SocketEnds, ScanSkip,
              ScanEnd, Exists, CleanupSkip, CleanupEnd, Service!vars
<1>8. CASE ScanTimeout \/ CleanupCancel \/ GentleExpires
  BY <1>8 DEF ScanTimeout, CleanupCancel, GentleExpires, Service!vars
<1>9. CASE HostStack \/ Terminated \/ UNCHANGED vars
  BY <1>9 DEF HostStack, Callback, Terminated, Service!vars
<1>10. CASE (\E u \in Urbs : Age(u)) \/ Unplug \/ PlugOther \/ LoseFlag
  BY <1>10 DEF Age, Unplug, PlugOther, LoseFlag, Service!vars
<1>. QED
  BY <1>1, <1>2, <1>3, <1>4, <1>5, <1>6, <1>7, <1>8, <1>9, <1>10
     DEF Next, Engine, Environment, Service!Next

\* The session implements the safety part of UrbService: with the fairness of
\* Spec, TLC shows the liveness part on small instances.
THEOREM Refinement == SafeSpec => ImplementsSafety
<1>1. Init => Service!Init
  BY DEF Init, Service!Init
<1>. QED
  BY <1>1, Invariance, StepRefines, PTL
     DEF SafeSpec, ImplementsSafety, Service!SafeSpec
-------------------------------------------------------------------------------
(* Transfers and slots, when callbacks are prompt *)

\* Slots and transfers point at each other, and a semaphore that was given
\* stands for the result of the slot's own transfer.
Linked ==
    /\ \A u \in Urbs : /\ InFlight(u) => slot[ctx[u]] = u
                       /\ u \notin submitted => xfer[u] = "idle"
    /\ \A i \in Slots : sem[i] = "given" => xfer[slot[i]] = status[i]

\* What was sent as a transfer's status was its status.
Honest == \A u \in Urbs : \A a \in Results :
              answers[u] = <<a>> => xfer[u] = a

LInv == IInv /\ Linked /\ Honest

LEMMA InitLInv == Init => LInv
<1> SUFFICES ASSUME Init PROVE LInv
  OBVIOUS
<1>1. Linked
  BY DEF Init, Linked, InFlight
<1>2. Honest
  BY DEF Init, Honest
<1>. QED
  BY <1>1, <1>2, InitIInv DEF LInv

\* A flush leaves every transfer in flight that was.
LEMMA FlushInFlight ==
  ASSUME TypeOK, NEW d, NEW e, xfer' = Flush(d, e)
  PROVE  \A u \in Urbs : /\ InFlight(u)' <=> InFlight(u)
                         /\ ~InFlight(u) => xfer'[u] = xfer[u]
  BY DEF TypeOK, Flush, InFlight

\* Between callbacks, transfers are flushed at most.
QuietStack == \A u \in Urbs : /\ InFlight(u)' <=> InFlight(u)
                              /\ ~InFlight(u) => xfer'[u] = xfer[u]

\* A step that frees no slot and runs no callback.
LEMMA QuietLinked ==
  ASSUME LInv, QuietStack, UNCHANGED <<slot, sem, status, ctx, answers>>,
         submitted \subseteq submitted'
  PROVE  Linked' /\ Honest'
<1> USE DEF LInv, IInv, Typing
<1>1. \A i \in Slots : sem[i] = "given" => slot[i] \in Urbs
  BY TypeOKTable
<1>2. \A i \in Slots : sem[i] = "given" => ~InFlight(slot[i])
  BY <1>1 DEF Linked, Signalled, InFlight
<1>3. Linked'
  BY <1>1, <1>2 DEF Linked, QuietStack, InFlight
<1>4. Honest'
  BY DEF Honest, QuietStack, InFlight
<1>. QED
  BY <1>3, <1>4

\* Freeing a slot whose transfer is done, after at most a flush.
LEMMA FreeLinked ==
  ASSUME LInv, NEW i \in Slots, slot[i] \in Urbs, ~InFlight(slot[i]), Free(i),
         QuietStack, NEW a \in AnswerSet, Answer(slot[i], a),
         a \in Results => xfer[slot[i]] = a,
         UNCHANGED <<ctx, submitted>>
  PROVE  Linked' /\ Honest'
<1> USE DEF LInv, IInv, Typing
<1>1. \A j \in Slots : sem'[j] = "given" =>
        /\ j # i /\ sem[j] = "given" /\ slot[j] \in Urbs
        /\ slot'[j] = slot[j] /\ status'[j] = status[j]
        /\ ~InFlight(slot[j])
  <2> SUFFICES ASSUME NEW j \in Slots, sem'[j] = "given"
               PROVE  /\ j # i /\ sem[j] = "given" /\ slot[j] \in Urbs
                      /\ slot'[j] = slot[j] /\ status'[j] = status[j]
                      /\ ~InFlight(slot[j])
    OBVIOUS
  <2>1. j # i /\ sem[j] = "given"
    BY TypeOKTable DEF Free
  <2>2. slot'[j] = slot[j] /\ status'[j] = status[j] /\ slot[j] \in Urbs
    BY <2>1, TypeOKTable DEF Free
  <2>3. ~InFlight(slot[j])
    BY <2>1 DEF Linked, Signalled, InFlight
  <2>. QED
    BY <2>1, <2>2, <2>3
<1>2. \A j \in Slots : sem'[j] = "given" => xfer'[slot'[j]] = status'[j]
  BY <1>1 DEF QuietStack, Linked
<1>3. ASSUME NEW u \in Urbs
      PROVE  /\ InFlight(u)' => slot'[ctx'[u]] = u
             /\ u \notin submitted' => xfer'[u] = "idle"
  BY <1>3 DEF QuietStack, Linked, Free, TypeOK, InFlight
<1>4. Honest'
  <2>1. answers[slot[i]] = <<>>
    BY DEF Ledger, InTable
  <2>2. /\ \A v \in Urbs : v # slot[i] => answers'[v] = answers[v]
        /\ answers'[slot[i]] \in {<<>>, <<a>>}
    BY <2>1 DEF Answer, TypeOK
  <2>3. xfer'[slot[i]] = xfer[slot[i]]
    BY DEF QuietStack
  <2>4. \A b \in Results : answers'[slot[i]] = <<b>> => b = a
    BY <2>2
  <2>5. ASSUME NEW v \in Urbs, NEW b \in Results, answers'[v] = <<b>>
        PROVE  xfer'[v] = b
    <3>1. CASE v = slot[i]
      BY <2>3, <2>4, <2>5, <3>1
    <3>2. CASE v # slot[i]
      BY <2>2, <2>5, <3>2 DEF Honest, QuietStack, InFlight
    <3>. QED
      BY <3>1, <3>2
  <2>. QED
    BY <2>5 DEF Honest
<1>. QED
  BY <1>2, <1>3, <1>4 DEF Linked

LEMMA NextLInv ==
  ASSUME Prompt = Endpoints
  PROVE  LInv /\ [Next]_vars => LInv'
<1> SUFFICES ASSUME LInv, [Next]_vars PROVE Linked' /\ Honest'
  BY NextIInv DEF LInv
<1> USE DEF LInv, IInv, Typing
<1> USE DEF vars, engine, table, stack, host, client
<1>1. \A i \in Slots : sem[i] = "given" =>
          slot[i] \in Urbs /\ ~InFlight(slot[i])
  BY TypeOKTable DEF Linked, Signalled, InFlight
<1>2. ASSUME NEW u \in Urbs, RecvSubmit(u)
      PROVE  Linked' /\ Honest'
  <2>1. PICK i \in Slots : /\ LowestFree(i)
                           /\ slot' = [slot EXCEPT ![i] = u]
                           /\ sem' = [sem EXCEPT ![i] = "empty"]
                           /\ ctx' = [ctx EXCEPT ![u] = i]
    BY <1>2 DEF RecvSubmit
  <2>2. /\ xfer' = [xfer EXCEPT ![u] = "flight"]
        /\ submitted' = submitted \cup {u} /\ u \notin submitted
        /\ UNCHANGED <<status, answers>>
    BY <1>2 DEF RecvSubmit
  <2>3. answers[u] = <<>> /\ slot[i] = NoUrb
    BY <2>1, <2>2 DEF Ledger, LowestFree
  <2>4. ASSUME NEW v \in Urbs
        PROVE  /\ InFlight(v)' => slot'[ctx'[v]] = v
               /\ v \notin submitted' => xfer'[v] = "idle"
    <3>1. CASE v = u
      BY <2>1, <2>2, <3>1 DEF TypeOK
    <3>2. CASE v # u
      <4>1. xfer'[v] = xfer[v] /\ ctx'[v] = ctx[v] /\ ctx[v] \in Slots
        BY <2>1, <2>2, <3>2 DEF TypeOK
      <4>2. InFlight(v) => slot[ctx[v]] = v /\ ctx[v] # i
        BY <2>3, UrbsAssumption DEF Linked
      <4>3. slot[ctx[v]] = v /\ ctx[v] # i => slot'[ctx[v]] = v
        BY <2>1, <4>1 DEF TypeOK
      <4>. QED
        BY <2>2, <4>1, <4>2, <4>3 DEF Linked, InFlight
    <3>. QED
      BY <3>1, <3>2
  <2>5. ASSUME NEW j \in Slots, sem'[j] = "given"
        PROVE  xfer'[slot'[j]] = status'[j]
    <3>1. j # i /\ sem[j] = "given" /\ slot'[j] = slot[j]
      BY <2>1, <2>5 DEF TypeOK
    <3>2. slot[j] # u /\ slot[j] \in Urbs
      BY <1>1, <2>2, <3>1, UrbsAssumption DEF Taken
    <3>. QED
      BY <2>2, <3>1, <3>2 DEF Linked, TypeOK
  <2>6. Honest'
    <3>1. \A b \in Results : answers[u] # <<b>>
      BY <2>3
    <3>2. \A v \in Urbs : v # u => xfer'[v] = xfer[v]
      BY <2>2 DEF TypeOK
    <3>. QED
      BY <2>2, <3>1, <3>2 DEF Honest
  <2>. QED
    BY <2>4, <2>5, <2>6 DEF Linked
<1>3. ASSUME NEW u \in Urbs, RecvSubmitRefused(u)
      PROVE  Linked' /\ Honest'
  <2>1. /\ UNCHANGED <<slot, sem, status, ctx, xfer>>
        /\ submitted \subseteq submitted' /\ u \notin submitted
    BY <1>3 DEF RecvSubmitRefused
  <2>2. PICK a \in Errors : Answer(u, a)
    BY <1>3 DEF RecvSubmitRefused
  <2>3. answers[u] = <<>>
    BY <2>1 DEF Ledger
  <2>4. /\ \A v \in Urbs : v # u => answers'[v] = answers[v]
        /\ answers'[u] \in {<<>>, <<a>>}
    BY <2>2, <2>3 DEF Answer, TypeOK
  <2>5. \A b \in Results : answers'[u] # <<b>>
    BY <2>4
  <2>6. Honest'
    BY <2>1, <2>4, <2>5 DEF Honest
  <2>. QED
    BY <2>1, <2>6 DEF Linked, InFlight
<1>4. ASSUME NEW u \in Urbs,
             RecvSubmitCut(u) \/ RecvUnlink(u) \/ RecvUnlinkLate(u)
      PROVE  Linked' /\ Honest'
  <2>1. QuietStack
    BY <1>4 DEF RecvSubmitCut, RecvUnlink, RecvUnlinkLate, BeginCancel,
                QuietStack, InFlight
  <2>. QED
    BY <1>4, <2>1, QuietLinked DEF RecvSubmitCut, RecvUnlink, RecvUnlinkLate
<1>5. CASE ScanCompleted
  <2>1. /\ cur \in Slots /\ slot[cur] \in Urbs /\ Free(cur)
        /\ sem[cur] = "given" /\ status[cur] \in Results
        /\ Answer(slot[cur], status[cur])
        /\ UNCHANGED <<ctx, submitted>>
    BY <1>5, CompletedAnswers DEF ScanCompleted
  <2>2. QuietStack
    BY <1>5, FlushInFlight DEF ScanCompleted, QuietStack, InFlight
  <2>3. ~InFlight(slot[cur]) /\ xfer[slot[cur]] = status[cur]
    BY <1>1, <2>1 DEF Linked
  <2>. QED
    BY <2>1, <2>2, <2>3, FreeLinked DEF AnswerSet
<1>6. CASE WaitTaken \/ LastWaitExpires
  <2>1. /\ cur \in Slots /\ slot[cur] \in Urbs /\ Free(cur)
        /\ UNCHANGED <<submitted, ctx, xfer>>
    BY <1>6, WaitOverAnswers DEF WaitTaken, LastWaitExpires, Finish
  <2>2. PICK a \in Errors \cup {"unlinked"} : Answer(slot[cur], a)
    BY <1>6, WaitOverAnswers
  <2>3. sem[cur] = "given"
    BY <1>6, <2>1, EndpointsAssumption DEF WaitTaken, LastWaitExpires
  <2>4. ~InFlight(slot[cur]) /\ QuietStack
    BY <1>1, <2>1, <2>3 DEF QuietStack, InFlight
  <2>5. a \in AnswerSet /\ a \notin Results
    BY DEF AnswerSet
  <2>. QED
    BY <2>1, <2>2, <2>4, <2>5, FreeLinked
<1>7. CASE ScanTimeout \/ CleanupCancel \/ GentleExpires
  <2>1. xfer' = xfer \/ \E d, e : xfer' = Flush(d, e)
    BY <1>7 DEF ScanTimeout, CleanupCancel, GentleExpires, BeginCancel
  <2>2. QuietStack
    BY <2>1, FlushInFlight DEF QuietStack, InFlight
  <2>. QED
    BY <1>7, <2>2, QuietLinked DEF ScanTimeout, CleanupCancel, GentleExpires
<1>8. CASE \/ Lookup \/ Arm \/ CheckRemoval \/ SocketIdle \/ SocketEnds
           \/ ScanSkip \/ ScanEnd \/ Exists \/ CleanupSkip \/ CleanupEnd
  <2>1. UNCHANGED <<slot, sem, status, ctx, answers, submitted, xfer>>
    BY <1>8 DEF Lookup, Arm, CheckRemoval, SocketIdle, SocketEnds, ScanSkip,
                ScanEnd, Exists, CleanupSkip, CleanupEnd
  <2>. QED
    BY <2>1, QuietLinked DEF QuietStack, InFlight
<1>9. ASSUME NEW u \in Urbs, NEW result \in Results, Callback(u, result)
      PROVE  Linked' /\ Honest'
  <2>1. /\ InFlight(u) /\ ctx[u] \in Slots /\ slot[ctx[u]] = u
        /\ sem[ctx[u]] # "null"
    BY <1>9, UrbsAssumption DEF Callback, Linked, TypeOK
  <2>2. /\ xfer' = [xfer EXCEPT ![u] = result]
        /\ status' = [status EXCEPT ![ctx[u]] = result]
        /\ sem' = [sem EXCEPT ![ctx[u]] = "given"]
        /\ UNCHANGED <<slot, ctx, submitted, answers>>
    BY <1>9, <2>1 DEF Callback
  <2>3. answers[u] = <<>> /\ u \in submitted
    BY <2>1, UrbsAssumption DEF Ledger, InTable, Taken
  <2>4. ASSUME NEW j \in Slots, sem'[j] = "given"
        PROVE  xfer'[slot'[j]] = status'[j]
    <3>1. CASE j = ctx[u]
      BY <2>1, <2>2, <3>1 DEF TypeOK
    <3>2. CASE j # ctx[u]
      <4>1. sem[j] = "given" /\ status'[j] = status[j]
        BY <2>1, <2>2, <2>4, <3>2 DEF TypeOK
      <4>2. slot[j] # u /\ slot[j] \in Urbs
        BY <1>1, <2>1, <4>1
      <4>. QED
        BY <2>2, <4>1, <4>2 DEF Linked, TypeOK
    <3>. QED
      BY <3>1, <3>2
  <2>5. ASSUME NEW v \in Urbs
        PROVE  /\ InFlight(v)' => slot'[ctx'[v]] = v
               /\ v \notin submitted' => xfer'[v] = "idle"
    BY <2>1, <2>2, <2>3 DEF Linked, InFlight, TypeOK
  <2>6. Honest'
    <3>1. \A b \in Results : answers[u] # <<b>>
      BY <2>3
    <3>2. \A v \in Urbs : v # u => xfer'[v] = xfer[v]
      BY <2>2 DEF TypeOK
    <3>. QED
      BY <2>2, <3>1, <3>2 DEF Honest
  <2>. QED
    BY <2>4, <2>5, <2>6 DEF Linked
<1>10. CASE Environment \/ Terminated \/ UNCHANGED vars
  <2>1. UNCHANGED <<slot, sem, status, ctx, answers, submitted, xfer>>
    BY <1>10 DEF Environment, Age, Hold, LetGo, Disconnect, Unplug, PlugOther, LoseFlag,
                 Terminated
  <2>. QED
    BY <2>1, QuietLinked DEF QuietStack, InFlight
<1>. QED
  BY <1>2, <1>3, <1>4, <1>5, <1>6, <1>7, <1>8, <1>9, <1>10
     DEF Next, Engine, HostStack

\* When no callback misses the last wait, no slot is freed under a transfer.
THEOREM TransfersOwned ==
  ASSUME Prompt = Endpoints
  PROVE  SafeSpec => []InFlightOwned
<1>1. LInv => InFlightOwned
  BY DEF LInv, Linked, InFlightOwned
<1>. QED
  BY <1>1, InitLInv, NextLInv, PTL DEF SafeSpec

\* When a session is over, no transfer of its URBs is in flight any more, so no
\* callback of it is left to write into the table.
THEOREM EndsQuietly ==
  ASSUME Prompt = Endpoints
  PROVE  SafeSpec => [](pc = "stopped" => \A u \in Urbs : ~InFlight(u))
<1>1. LInv /\ TableDrained => (pc = "stopped" => \A u \in Urbs : ~InFlight(u))
  <2> SUFFICES ASSUME LInv, TableDrained, pc = "stopped", NEW u \in Urbs, InFlight(u)
               PROVE  FALSE
    OBVIOUS
  <2>1. ctx[u] \in Slots /\ slot[ctx[u]] = u
    BY DEF LInv, IInv, Typing, TypeOK, Linked
  <2>. QED
    BY <2>1, UrbsAssumption DEF TableDrained
<1>. QED
  BY <1>1, InitLInv, NextLInv, Drained, PTL DEF SafeSpec

\* ... and no URB is answered with another's status.
THEOREM RepliesHonest ==
  ASSUME Prompt = Endpoints
  PROVE  SafeSpec => []HonestReply
<1>1. LInv => HonestReply
  <2> SUFFICES ASSUME LInv, NEW u \in Urbs, NEW k \in DOMAIN answers[u],
                      answers[u][k] \in Results
               PROVE  answers[u][k] = xfer[u]
    BY DEF HonestReply
  <2>1. PICK a \in AnswerSet : answers[u] = <<a>>
    BY DEF LInv, IInv, Ledger
  <2>2. answers[u][k] = a
    BY <2>1
  <2>. QED
    BY <2>1, <2>2 DEF LInv, Honest
<1>. QED
  BY <1>1, InitLInv, NextLInv, PTL DEF SafeSpec
-------------------------------------------------------------------------------
(* Halted pipes *)

\* While the device is there nothing says it is not, and every transfer is its.
Present == plug = "present" => /\ ~flag /\ ~removed /\ devinfo = "mine"
                               /\ \A u \in Urbs : target[u] = "mine"

\* A cancel waits plainly for control transfers only, as long as the device is
\* there, and gently for nothing but an unlink.
CancelShape ==
    /\ pc = "gentle" => why = "unlink"
    /\ pc \in Waits /\ plug = "present" =>
          (pc = "plain" <=> Ep[slot[cur]] = Control)

\* The stall is still to be replied to, or was unlinked before it could be.
Stalled(e) == \/ \E i \in Slots : /\ sem[i] = "given" /\ status[i] = "stall"
                                  /\ Ep[slot[i]] = e
              \/ \E u \in unlinked : xfer[u] = "stall" /\ Ep[u] = e

\* A halted pipe is a stalled one, or the one that is being flushed.
HaltedFor ==
    plug = "present" /\ pc # "panic" =>
        \A p \in halted : /\ p[1] = "mine" /\ p[2] # Control
                          /\ \/ Stalled(p[2])
                             \/ pc = "force" /\ p[2] = Ep[slot[cur]]

KInv == LInv /\ Present /\ CancelShape /\ HaltedFor

LEMMA InitKInv == Init => KInv
<1> SUFFICES ASSUME Init PROVE KInv
  OBVIOUS
<1>1. Present /\ CancelShape /\ HaltedFor
  BY DEF Init, Present, CancelShape, HaltedFor
<1>. QED
  BY <1>1, InitLInv DEF KInv

LEMMA NextPresent == Typing /\ Present /\ [Next]_vars => Present'
<1> SUFFICES ASSUME Typing, Present, [Next]_vars, plug' = "present"
             PROVE  /\ ~flag' /\ ~removed' /\ devinfo' = "mine"
                    /\ \A u \in Urbs : target'[u] = "mine"
  BY DEF Present
<1> USE DEF vars, engine, table, stack, host, client
<1>1. plug = "present"
  BY DEF Next, Engine, HostStack, Environment, Lookup, Arm, CheckRemoval,
         SocketIdle, SocketEnds, RecvSubmitRefused, RecvSubmitCut, RecvSubmit,
         RecvUnlink, RecvUnlinkLate, ScanSkip, ScanCompleted, ScanTimeout,
         ScanEnd, Exists, CleanupSkip, CleanupCancel, CleanupEnd, WaitTaken,
         GentleExpires, LastWaitExpires, Finish, Callback, Age, Hold, LetGo, Disconnect,
         Unplug, PlugOther, LoseFlag, Terminated
<1>2. ~flag /\ ~removed /\ devinfo = "mine" /\ \A u \in Urbs : target[u] = "mine"
  BY <1>1 DEF Present
<1>3. CASE Arm \/ CheckRemoval \/ Exists \/ Unplug \/ LoseFlag
  <2>1. CASE Arm
    BY <1>2, <2>1 DEF Arm
  <2>2. CASE CheckRemoval
    BY <1>2, <2>2 DEF CheckRemoval
  <2>3. CASE Exists
    BY <1>1, <1>2, <2>3 DEF Exists, Entry
  <2>4. CASE Unplug \/ LoseFlag
    BY <1>1, <1>2, <2>4 DEF Unplug, LoseFlag
  <2>. QED
    BY <1>3, <2>1, <2>2, <2>3, <2>4
<1>4. ASSUME NEW u \in Urbs, RecvSubmit(u)
      PROVE  \A v \in Urbs : target'[v] = "mine"
  BY <1>2, <1>4 DEF RecvSubmit, Typing, TypeOK
<1>5. CASE \E u \in Urbs : RecvSubmit(u)
  <2>1. UNCHANGED <<flag, removed, devinfo>>
    BY <1>5 DEF RecvSubmit
  <2>. QED
    BY <1>2, <1>4, <1>5, <2>1
<1>6. CASE /\ ~(Arm \/ CheckRemoval \/ Exists \/ Unplug \/ LoseFlag)
           /\ ~(\E u \in Urbs : RecvSubmit(u))
  <2>1. UNCHANGED <<flag, removed, devinfo, target>>
    BY <1>6 DEF Next, Engine, HostStack, Environment, Lookup, SocketIdle,
           SocketEnds, RecvSubmitRefused, RecvSubmitCut, RecvUnlink,
           RecvUnlinkLate, ScanSkip, ScanCompleted, ScanTimeout, ScanEnd,
           CleanupSkip, CleanupCancel, CleanupEnd, WaitTaken, GentleExpires,
           LastWaitExpires, Finish, Callback, Age, Hold, LetGo, Disconnect, PlugOther,
           Terminated
  <2>. QED
    BY <1>2, <2>1
<1>. QED
  BY <1>3, <1>5, <1>6

\* A step that loses no stall, and halts no pipe but for the flush it begins.
LEMMA KeepsHaltedFor ==
  ASSUME Typing, HaltedFor, plug = "present" /\ pc # "panic",
         \A e \in Endpoints : Stalled(e) => Stalled(e)',
         \A p \in halted' : \/ p \in halted
                            \/ /\ p[1] = "mine" /\ p[2] # Control
                               /\ pc' = "force" /\ p[2] = Ep[slot'[cur']],
         pc # "force"
  PROVE  HaltedFor'
<1>1. \A p \in halted : p[2] \in Endpoints
  BY DEF Typing, TypeOK
<1>. QED
  BY <1>1 DEF HaltedFor

LEMMA StalledStays ==
  ASSUME UNCHANGED <<slot, sem, status>>, unlinked \subseteq unlinked',
         \A u \in Urbs : xfer[u] = "stall" => xfer'[u] = "stall",
         unlinked \subseteq Urbs, NEW e, Stalled(e)
  PROVE  Stalled(e)'
BY DEF Stalled

LEMMA UnlinkedStalled ==
  ASSUME NEW u \in unlinked', xfer'[u] = "stall", NEW e, Ep[u] = e
  PROVE  Stalled(e)'
BY DEF Stalled

\* The start of a cancel, for a slot that holds a URB of a device that is there.
LEMMA BeginCancelShape ==
  ASSUME NEW i \in Slots, NEW force \in BOOLEAN, NEW reason,
         BeginCancel(i, "mine", TRUE, force, reason), UNCHANGED slot,
         reason # "unlink" => force
  PROVE  /\ cur' = i
         /\ pc' = "gentle" => why' = "unlink"
         /\ pc' = "plain" <=> Ep[slot'[cur']] = Control
         /\ \A p \in halted' : \/ p \in halted
                               \/ /\ p[1] = "mine" /\ p[2] # Control
                                  /\ pc' = "force" /\ p[2] = Ep[slot'[cur']]
BY DEF BeginCancel

\* Freeing a slot loses no stall but one of its own transfer.
LEMMA FreeKeepsStalled ==
  ASSUME Typing, NEW i \in Slots, Free(i), unlinked' = unlinked,
         \A u \in Urbs : xfer[u] = "stall" => xfer'[u] = "stall",
         NEW e, Stalled(e), ~(status[i] = "stall" /\ sem[i] = "given" /\ Ep[slot[i]] = e)
  PROVE  Stalled(e)'
<1>1. CASE \E u \in unlinked : xfer[u] = "stall" /\ Ep[u] = e
  BY <1>1 DEF Stalled, Typing, TypeOK
<1>2. ASSUME NEW j \in Slots, sem[j] = "given", status[j] = "stall", Ep[slot[j]] = e
      PROVE  Stalled(e)'
  <2>1. j # i
    BY <1>2
  <2>2. sem'[j] = sem[j] /\ status'[j] = status[j] /\ slot'[j] = slot[j]
    BY <2>1 DEF Free, Typing, TypeOK
  <2>. QED
    BY <1>2, <2>2 DEF Stalled
<1>. QED
  BY <1>1, <1>2 DEF Stalled

\* A flush ends no transfer.
LEMMA FlushKeepsStall ==
  ASSUME TypeOK, xfer' = xfer \/ \E d, e : xfer' = Flush(d, e)
  PROVE  \A u \in Urbs : xfer[u] = "stall" => xfer'[u] = "stall"
BY DEF TypeOK, Flush

LEMMA NextCancelShape == KInv /\ [Next]_vars => CancelShape'
<1> SUFFICES ASSUME KInv, [Next]_vars PROVE CancelShape'
  OBVIOUS
<1> USE DEF KInv, LInv, IInv, Typing, vars, engine, table, stack, host, client
<1>1. ASSUME NEW u \in Urbs, RecvUnlink(u) PROVE CancelShape'
  <2>1. PICK i \in Slots :
           BeginCancel(i, devinfo, HasHandle(devinfo), FALSE, "unlink")
    BY <1>1 DEF RecvUnlink
  <2>2. why' = "unlink" /\ cur' = i /\ slot' = slot /\ plug' = plug
    BY <1>1, <2>1 DEF RecvUnlink, BeginCancel
  <2>3. CASE plug = "present"
    <3>1. devinfo = "mine" /\ HasHandle(devinfo) = TRUE
      BY <2>3 DEF Present, HasHandle
    <3>. QED
      BY <2>1, <2>2, <3>1, BeginCancelShape DEF CancelShape
  <2>. QED
    BY <2>2, <2>3 DEF CancelShape
<1>2. CASE ScanTimeout
  <2>1. cur \in Slots /\ BeginCancel(cur, "mine", TRUE, TRUE, "timeout")
        /\ slot' = slot
    BY <1>2 DEF ScanTimeout
  <2>. QED
    BY <2>1, BeginCancelShape DEF CancelShape
<1>3. CASE CleanupCancel
  <2>1. cur \in Slots /\ BeginCancel(cur, "mine", ~removed, TRUE, "cleanup")
        /\ slot' = slot /\ plug' = plug
    BY <1>3 DEF CleanupCancel
  <2>2. pc' # "gentle"
    BY <2>1 DEF BeginCancel
  <2>3. CASE plug = "present"
    <3>1. ~removed = TRUE
      BY <2>3 DEF Present
    <3>. QED
      BY <2>1, <2>2, <3>1, BeginCancelShape DEF CancelShape
  <2>. QED
    BY <2>1, <2>2, <2>3 DEF CancelShape
<1>4. CASE GentleExpires
  <2>1. cur \in Slots /\ pc = "gentle"
        /\ BeginCancel(cur, devinfo, TRUE, TRUE, why) /\ slot' = slot /\ plug' = plug
    BY <1>4 DEF GentleExpires, WaitShape
  <2>2. pc' # "gentle"
    BY <2>1 DEF BeginCancel
  <2>3. plug = "present" => devinfo = "mine"
    BY DEF Present
  <2>. QED
    BY <2>1, <2>2, <2>3, BeginCancelShape DEF CancelShape
<1>5. ASSUME NEW u \in Urbs, NEW r \in Results, Callback(u, r) PROVE CancelShape'
  <2>1. UNCHANGED <<slot, why, cur, plug>> /\ (pc' = pc \/ pc' = "panic")
    BY <1>5 DEF Callback
  <2>. QED
    BY <2>1 DEF CancelShape
<1>6. CASE WaitTaken \/ LastWaitExpires
  <2>1. pc' \notin Waits
    BY <1>6, WaitOverAnswers
  <2>. QED
    BY <2>1 DEF CancelShape
<1>7. CASE Environment \/ Terminated \/ UNCHANGED vars
  <2>1. UNCHANGED <<pc, slot, why, cur>> /\ (plug' = "present" => plug = "present")
    BY <1>7 DEF Environment, Age, Hold, LetGo, Disconnect, Unplug, PlugOther, LoseFlag,
                Terminated
  <2>. QED
    BY <2>1 DEF CancelShape
<1>8. CASE \/ Lookup \/ Arm \/ CheckRemoval \/ SocketIdle \/ SocketEnds
           \/ ScanSkip \/ ScanCompleted \/ ScanEnd \/ Exists \/ CleanupSkip
           \/ CleanupEnd
           \/ \E u \in Urbs : \/ RecvSubmitRefused(u) \/ RecvSubmitCut(u)
                              \/ RecvSubmit(u) \/ RecvUnlinkLate(u)
  <2>1. pc' \notin Waits
    BY <1>8 DEF Lookup, Arm, CheckRemoval, SocketIdle, SocketEnds, ScanSkip,
                ScanCompleted, ScanEnd, Exists, CleanupSkip, CleanupEnd,
                RecvSubmitRefused, RecvSubmitCut, RecvSubmit, RecvUnlinkLate, Goto
  <2>. QED
    BY <2>1 DEF CancelShape
<1>. QED
  BY <1>1, <1>2, <1>3, <1>4, <1>5, <1>6, <1>7, <1>8 DEF Next, Engine, HostStack

LEMMA NextHaltedFor ==
  KInv /\ [Next]_vars => HaltedFor'
<1> SUFFICES ASSUME KInv, [Next]_vars, plug' = "present", pc' # "panic"
             PROVE  HaltedFor'
  BY DEF HaltedFor
<1> USE DEF KInv, LInv, IInv, Typing, vars, engine, table, stack, host, client
<1>1. plug = "present"
  BY DEF Next, Engine, HostStack, Environment, Lookup, Arm, CheckRemoval,
         SocketIdle, SocketEnds, RecvSubmitRefused, RecvSubmitCut, RecvSubmit,
         RecvUnlink, RecvUnlinkLate, ScanSkip, ScanCompleted, ScanTimeout,
         ScanEnd, Exists, CleanupSkip, CleanupCancel, CleanupEnd, WaitTaken,
         GentleExpires, LastWaitExpires, Finish, Callback, Age, Hold, LetGo, Disconnect,
         Unplug, PlugOther, LoseFlag, Terminated
<1>2. devinfo = "mine" /\ ~removed /\ \A u \in Urbs : target[u] = "mine"
  BY <1>1 DEF Present
<1>3. unlinked \subseteq Urbs /\ \A p \in halted : p[2] \in Endpoints
  BY DEF TypeOK
<1>4. CASE ScanTimeout \/ CleanupCancel \/ GentleExpires \/ \E u \in Urbs : RecvUnlink(u)
  <2>1. /\ UNCHANGED <<slot, sem, status>> /\ unlinked \subseteq unlinked'
        /\ pc \in {"scan", "cleanup", "gentle", "socket"}
        /\ \E i \in Slots, force \in BOOLEAN, reason \in {"unlink", "timeout", "cleanup"} :
              /\ BeginCancel(i, "mine", TRUE, force, reason)
              /\ reason # "unlink" => force
    <3>1. CASE ScanTimeout
      BY <3>1 DEF ScanTimeout
    <3>2. CASE CleanupCancel
      <4>1. ~removed = TRUE
        BY <1>2
      <4>. QED
        BY <3>2, <4>1 DEF CleanupCancel
    <3>3. CASE GentleExpires
      BY <1>2, <3>3 DEF GentleExpires, WaitShape, CancelShape
    <3>4. CASE \E u \in Urbs : RecvUnlink(u)
      <4>1. HasHandle(devinfo) = TRUE
        BY <1>1 DEF HasHandle
      <4>. QED
        BY <1>2, <3>4, <4>1 DEF RecvUnlink
    <3>. QED
      BY <1>4, <3>1, <3>2, <3>3, <3>4
  <2>2. PICK i \in Slots, force \in BOOLEAN, reason \in {"unlink", "timeout", "cleanup"} :
              /\ BeginCancel(i, "mine", TRUE, force, reason)
              /\ reason # "unlink" => force
    BY <2>1
  <2>3. xfer' = xfer \/ \E d, e : xfer' = Flush(d, e)
    BY <2>2 DEF BeginCancel
  <2>4. \A p \in halted' : \/ p \in halted
                           \/ /\ p[1] = "mine" /\ p[2] # Control
                              /\ pc' = "force" /\ p[2] = Ep[slot'[cur']]
    BY <2>1, <2>2, BeginCancelShape
  <2>5. \A e \in Endpoints : Stalled(e) => Stalled(e)'
    BY <1>3, <2>1, <2>3, FlushKeepsStall, StalledStays
  <2>. QED
    BY <1>1, <2>1, <2>4, <2>5, KeepsHaltedFor
<1>5. ASSUME NEW u \in Urbs, NEW r \in Results, Callback(u, r) PROVE HaltedFor'
  <2>1. InFlight(u) /\ slot[ctx[u]] = u /\ ctx[u] \in Slots /\ target[u] = "mine"
    BY <1>2, <1>5 DEF Callback, Linked, TypeOK
  <2>2. sem[ctx[u]] # "null"
    BY <2>1, UrbsAssumption DEF TypeOK
  <2>3. /\ xfer' = [xfer EXCEPT ![u] = r] /\ pc' = pc
        /\ status' = [status EXCEPT ![ctx[u]] = r]
        /\ sem' = [sem EXCEPT ![ctx[u]] = "given"]
        /\ UNCHANGED <<slot, ctx, cur, unlinked, plug>>
        /\ halted' = IF r = "stall" /\ Ep[u] # Control
                     THEN halted \cup {<<target[u], Ep[u]>>} ELSE halted
    BY <1>5, <2>2 DEF Callback
  <2>4. ~(sem[ctx[u]] = "given")
    BY <2>1 DEF Linked, Signalled, InFlight
  <2>5. ASSUME NEW e, Stalled(e) PROVE Stalled(e)'
    <3>1. ASSUME NEW i \in Slots, sem[i] = "given", status[i] = "stall", Ep[slot[i]] = e
          PROVE  Stalled(e)'
      <4>1. sem'[i] = sem[i] /\ status'[i] = status[i]
        BY <2>3, <2>4, <3>1 DEF TypeOK
      <4>. QED
        BY <2>3, <3>1, <4>1 DEF Stalled
    <3>2. ASSUME NEW v \in unlinked, xfer[v] = "stall", Ep[v] = e
          PROVE  Stalled(e)'
      <4>1. v # u /\ v \in Urbs
        BY <1>3, <2>1, <3>2 DEF InFlight
      <4>. QED
        BY <2>3, <3>2, <4>1 DEF Stalled, TypeOK
    <3>. QED
      BY <2>5, <3>1, <3>2 DEF Stalled
  <2>6. r = "stall" => Stalled(Ep[u])'
    <3>1. sem'[ctx[u]] = "given" /\ status'[ctx[u]] = r /\ slot'[ctx[u]] = u
      BY <2>1, <2>3 DEF TypeOK
    <3>. QED
      BY <2>1, <3>1 DEF Stalled
  <2>7. ASSUME NEW p \in halted'
        PROVE  /\ p[1] = "mine" /\ p[2] # Control
               /\ Stalled(p[2])' \/ (pc' = "force" /\ p[2] = Ep[slot'[cur']])
    <3>1. CASE p \in halted
      BY <1>1, <2>3, <2>5, <3>1 DEF HaltedFor, Callback
    <3>2. CASE p \notin halted
      <4>1. r = "stall" /\ Ep[u] # Control /\ p = <<"mine", Ep[u]>>
        BY <2>1, <2>3, <3>2
      <4>. QED
        BY <2>6, <4>1
    <3>. QED
      BY <3>1, <3>2
  <2>. QED
    BY <2>7 DEF HaltedFor
<1>6. CASE ScanCompleted
  <2>1. /\ cur \in Slots /\ slot[cur] \in Urbs /\ Free(cur) /\ unlinked' = unlinked
        /\ pc' # "force" /\ pc = "scan"
    BY <1>6, CompletedAnswers DEF ScanCompleted
  <2>2. \/ /\ status[cur] = "stall" /\ Ep[slot[cur]] # Control
           /\ xfer' = Flush("mine", Ep[slot[cur]])
           /\ halted' = halted \ {<<"mine", Ep[slot[cur]]>>}
        \/ /\ ~(status[cur] = "stall" /\ Ep[slot[cur]] # Control)
           /\ xfer' = xfer /\ halted' = halted
    BY <1>6 DEF ScanCompleted
  <2>3. \A u \in Urbs : xfer[u] = "stall" => xfer'[u] = "stall"
    BY <2>2, FlushKeepsStall
  <2>4. ASSUME NEW p \in halted'
        PROVE  p[1] = "mine" /\ p[2] # Control /\ Stalled(p[2])'
    <3>1. p \in halted
      BY <2>2
    <3>2. p[1] = "mine" /\ p[2] # Control /\ Stalled(p[2])
      BY <1>1, <2>1, <3>1 DEF HaltedFor
    <3>3. p = <<p[1], p[2]>>
      BY <3>1 DEF TypeOK
    <3>4. ~(status[cur] = "stall" /\ sem[cur] = "given" /\ Ep[slot[cur]] = p[2])
      BY <2>2, <3>2, <3>3
    <3>. QED
      BY <2>1, <2>3, <3>2, <3>4, FreeKeepsStalled
  <2>. QED
    BY <2>4 DEF HaltedFor
<1>7. CASE WaitTaken \/ LastWaitExpires
  <2>1. /\ cur \in Slots /\ slot[cur] \in Urbs /\ Free(cur) /\ unlinked' = unlinked
        /\ xfer' = xfer /\ ClearAfterForce /\ pc \in Waits
    BY <1>7, WaitOverAnswers DEF WaitTaken, LastWaitExpires
  <2>2. ASSUME NEW p \in halted'
        PROVE  p[1] = "mine" /\ p[2] # Control /\ Stalled(p[2])'
    <3>1. p \in halted /\ p = <<p[1], p[2]>>
      BY <2>1 DEF ClearAfterForce, TypeOK
    <3>2. /\ p[1] = "mine" /\ p[2] # Control
          /\ Stalled(p[2]) \/ (pc = "force" /\ p[2] = Ep[slot[cur]])
      BY <1>1, <2>1, <3>1 DEF HaltedFor
    <3>3. CASE pc = "gentle"
      <4>1. slot[cur] \in unlinked
        BY <3>3 DEF CancelShape, Asked
      <4>2. CASE status[cur] = "stall" /\ sem[cur] = "given" /\ Ep[slot[cur]] = p[2]
        <5>1. xfer[slot[cur]] = "stall"
          BY <2>1, <4>2 DEF Linked
        <5>2. slot[cur] \in unlinked' /\ xfer'[slot[cur]] = "stall"
          BY <2>1, <4>1, <5>1
        <5>. QED
          BY <3>2, <4>2, <5>2, UnlinkedStalled
      <4>3. CASE ~(status[cur] = "stall" /\ sem[cur] = "given" /\ Ep[slot[cur]] = p[2])
        BY <2>1, <3>2, <3>3, <4>3, FreeKeepsStalled
      <4>. QED
        BY <3>2, <4>2, <4>3
    <3>4. CASE pc = "force"
      <4>1. p[2] # Ep[slot[cur]]
        BY <1>2, <2>1, <3>1, <3>2, <3>4 DEF ClearAfterForce, CancelDevice
      <4>. QED
        BY <2>1, <3>2, <4>1, FreeKeepsStalled
    <3>5. CASE pc = "plain"
      <4>1. Ep[slot[cur]] = Control
        BY <1>1, <3>5 DEF CancelShape
      <4>. QED
        BY <2>1, <3>2, <3>5, <4>1, FreeKeepsStalled
    <3>. QED
      BY <2>1, <3>3, <3>4, <3>5
  <2>. QED
    BY <2>2 DEF HaltedFor
<1>8. ASSUME NEW u \in Urbs, RecvSubmit(u) PROVE HaltedFor'
  <2>1. PICK i \in Slots : /\ LowestFree(i)
                           /\ slot' = [slot EXCEPT ![i] = u]
                           /\ sem' = [sem EXCEPT ![i] = "empty"]
    BY <1>8 DEF RecvSubmit
  <2>2. /\ xfer' = [xfer EXCEPT ![u] = "flight"] /\ u \notin submitted
        /\ UNCHANGED <<status, unlinked, halted>> /\ pc = "socket"
    BY <1>8 DEF RecvSubmit
  <2>3. ASSUME NEW e, Stalled(e) PROVE Stalled(e)'
    <3>1. sem[i] = "null"
      BY <2>1 DEF LowestFree, TypeOK
    <3>2. \A j \in Slots : sem[j] = "given" => sem'[j] = "given" /\ slot'[j] = slot[j]
      BY <2>1, <3>1 DEF TypeOK
    <3>3. \A v \in Urbs : xfer[v] = "stall" => xfer'[v] = "stall"
      BY <2>2 DEF TypeOK, Linked
    <3>. QED
      BY <1>3, <2>2, <2>3, <3>2, <3>3 DEF Stalled
  <2>. QED
    BY <1>1, <2>2, <2>3, KeepsHaltedFor
<1>9. CASE \/ Lookup \/ Arm \/ CheckRemoval \/ SocketIdle \/ SocketEnds
           \/ ScanSkip \/ ScanEnd \/ Exists \/ CleanupSkip \/ CleanupEnd
           \/ \E u \in Urbs : \/ RecvSubmitRefused(u) \/ RecvSubmitCut(u)
                              \/ RecvUnlinkLate(u)
  <2>1. /\ UNCHANGED <<slot, sem, status, xfer, halted>> /\ unlinked \subseteq unlinked'
        /\ pc # "force"
    BY <1>9 DEF Lookup, Arm, CheckRemoval, SocketIdle, SocketEnds, ScanSkip,
                ScanEnd, Exists, CleanupSkip, CleanupEnd, RecvSubmitRefused,
                RecvSubmitCut, RecvUnlinkLate, Goto
  <2>2. pc # "panic"
    BY <1>9 DEF Lookup, Arm, CheckRemoval, SocketIdle, SocketEnds, ScanSkip,
                ScanEnd, Exists, CleanupSkip, CleanupEnd, RecvSubmitRefused,
                RecvSubmitCut, RecvUnlinkLate
  <2>. QED
    BY <1>1, <1>3, <2>1, <2>2, StalledStays, KeepsHaltedFor
<1>10. CASE Environment \/ Terminated \/ UNCHANGED vars
  <2>1. UNCHANGED <<pc, slot, cur, sem, status, xfer, halted, unlinked>>
    BY <1>10 DEF Environment, Age, Hold, LetGo, Disconnect, Unplug, PlugOther, LoseFlag,
                 Terminated
  <2>. QED
    BY <1>1, <2>1 DEF HaltedFor, Stalled
<1>. QED
  BY <1>4, <1>5, <1>6, <1>7, <1>8, <1>9, <1>10 DEF Next, Engine, HostStack

\* "After a STALL, ESP-IDF puts the endpoint pipe into halted state.  We must clear
\* it": it is cleared, but for the stalls of URBs that were unlinked meanwhile.
THEOREM StallsCleared ==
  ASSUME Prompt = Endpoints
  PROVE  SafeSpec => []StallClearedUnlessUnlinked
<1>1. KInv => StallClearedUnlessUnlinked
  BY DEF KInv, HaltedFor, Stalled, StallClearedUnlessUnlinked
<1>2. KInv /\ [Next]_vars => KInv'
  BY NextLInv, NextPresent, NextCancelShape, NextHaltedFor DEF KInv, LInv, IInv
<1>. QED
  BY <1>1, <1>2, InitKInv, PTL DEF SafeSpec
================================================================================
