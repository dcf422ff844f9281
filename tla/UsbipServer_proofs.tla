-------------------------- MODULE UsbipServer_proofs --------------------------
(***************************************************************************)
(* The accept loop over the allow list: proofs.  A step of the server is a   *)
(* step of AccessControl or leaves it alone (ServerStep), so what is proved  *)
(* of a check holds of the checks the loop makes.  That no descriptor leaks  *)
(* needs that the connections in the backlog, in the loop's hand and with a  *)
(* handler are different ones, and that the loop has one in hand but while   *)
(* it accepts (SInv).  What POSTs and restarts do to the list is carried     *)
(* over in the same way, as is the exact answer of an undisturbed check.     *)
(***************************************************************************)
EXTENDS UsbipServer, AccessControl_proofs

SInv == /\ spc \in {"accept", "memory", "check", "spawn"}
        /\ hand \in Clients \cup {NoClient} /\ (spc = "accept" <=> hand = NoClient)
        /\ handlers \subseteq Clients /\ hand \notin handlers
        /\ backlog \in Seq(Clients)
        /\ \A i \in DOMAIN backlog : backlog[i] # hand /\ backlog[i] \notin handlers
        /\ \A i, j \in DOMAIN backlog : backlog[i] = backlog[j] => i = j
        /\ NoDescriptorLeak

USE ClientsAssumption
-------------------------------------------------------------------------------
LEMMA ServerInit == Init => SInv
BY DEF Init, SInv, NoDescriptorLeak

\* The connection at the head of the backlog is not among the others.
LEMMA HeadLeaves ==
    ASSUME SInv, backlog # <<>>
    PROVE  /\ Head(backlog) \in Clients /\ Head(backlog) = backlog[1]
           /\ Head(backlog) \notin handlers
           /\ Tail(backlog) \in Seq(Clients)
           /\ \A i \in DOMAIN Tail(backlog) :
                 /\ i + 1 \in DOMAIN backlog /\ Tail(backlog)[i] = backlog[i + 1]
                 /\ Tail(backlog)[i] # Head(backlog)
<1>1. backlog \in Seq(Clients) /\ 1 \in DOMAIN backlog
    BY DEF SInv
<1>2. /\ Head(backlog) \in Clients /\ Head(backlog) = backlog[1]
      /\ Tail(backlog) \in Seq(Clients)
    BY <1>1
<1>3. \A i \in DOMAIN Tail(backlog) :
         i + 1 \in DOMAIN backlog /\ Tail(backlog)[i] = backlog[i + 1] /\ i + 1 # 1
    BY <1>1
<1>4. \A i \in DOMAIN Tail(backlog) : backlog[i + 1] # backlog[1]
    BY <1>1, <1>3 DEF SInv
<1>5. backlog[1] \notin handlers
    BY <1>1 DEF SInv
<1> QED
    BY <1>2, <1>3, <1>4, <1>5

\* What is left of the backlog is as good as all of it.
LEMMA TailKeeps ==
    ASSUME SInv, backlog # <<>>, backlog' = Tail(backlog)
    PROVE  /\ backlog' \in Seq(Clients)
           /\ \A i \in DOMAIN backlog' :
                 /\ backlog'[i] # Head(backlog) /\ backlog'[i] # hand
                 /\ backlog'[i] \notin handlers
           /\ \A i, j \in DOMAIN backlog' : backlog'[i] = backlog'[j] => i = j
<1>1. \A i \in DOMAIN backlog' : backlog'[i] # hand /\ backlog'[i] \notin handlers
    BY HeadLeaves DEF SInv
<1>2. ASSUME NEW i \in DOMAIN backlog', NEW j \in DOMAIN backlog',
             backlog'[i] = backlog'[j]
      PROVE  i = j
    <2>1. i + 1 = j + 1
        BY <1>2, HeadLeaves DEF SInv
    <2>2. i \in Nat /\ j \in Nat
        BY HeadLeaves
    <2> QED
        BY <2>1, <2>2
<1> QED
    BY <1>1, <1>2, HeadLeaves

LEMMA AcceptKeeps == SInv /\ Accept => SInv'
<1> SUFFICES ASSUME SInv, Accept PROVE SInv'
    OBVIOUS
<1>1. /\ backlog # <<>> /\ backlog' = Tail(backlog) /\ hand' = Head(backlog)
      /\ hand = NoClient /\ spc' = "memory" /\ handlers' = handlers
      /\ fds' = fds \cup {hand'}
    BY DEF Accept, SInv
<1>2. hand' \in Clients /\ hand' \notin handlers'
    BY <1>1, HeadLeaves
<1>3. NoDescriptorLeak'
    BY <1>1, <1>2 DEF SInv, NoDescriptorLeak
<1> QED
    BY <1>1, <1>2, <1>3, TailKeeps DEF SInv

LEMMA AcceptFailsKeeps == SInv /\ AcceptFails => SInv'
BY TailKeeps DEF AcceptFails, SInv, NoDescriptorLeak

\* The connection in hand is turned away, or given a handler.
LEMMA DoneWithHand ==
    ASSUME SInv, spc # "accept", UNCHANGED backlog, hand' = NoClient, spc' = "accept",
           \/ fds' = fds \ {hand} /\ UNCHANGED handlers
           \/ handlers' = handlers \cup {hand} /\ UNCHANGED fds
    PROVE  SInv'
<1>1. hand \in Clients /\ NoClient \notin handlers'
    BY DEF SInv
<1>2. \A i \in DOMAIN backlog : backlog[i] # NoClient /\ backlog[i] \notin handlers'
    BY DEF SInv
<1>3. NoDescriptorLeak'
    BY <1>1 DEF SInv, NoDescriptorLeak
<1> QED
    BY <1>1, <1>2, <1>3 DEF SInv

LEMMA ConnectKeeps == ASSUME NEW c \in Clients, SInv, Connect(c) PROVE SInv'
<1>1. /\ c \notin Waiting \cup fds /\ backlog' = Append(backlog, c)
      /\ UNCHANGED <<spc, hand, fds, handlers>> /\ backlog \in Seq(Clients)
    BY DEF Connect, SInv
<1>2. c # hand /\ c \notin handlers /\ \A i \in DOMAIN backlog : backlog[i] # c
    BY <1>1 DEF Waiting, SInv, NoDescriptorLeak
<1>3. /\ backlog' \in Seq(Clients)
      /\ \A i \in DOMAIN backlog' :
            \/ i \in DOMAIN backlog /\ backlog'[i] = backlog[i]
            \/ i = Len(backlog) + 1 /\ backlog'[i] = c
    BY <1>1
<1>4. \A i, j \in DOMAIN backlog' : backlog'[i] = backlog'[j] => i = j
    BY <1>2, <1>3 DEF SInv
<1>5. \A i \in DOMAIN backlog' : backlog'[i] # hand /\ backlog'[i] \notin handlers
    BY <1>2, <1>3 DEF SInv
<1> QED
    BY <1>1, <1>3, <1>4, <1>5 DEF SInv, NoDescriptorLeak

LEMMA ServerKeeps == SInv /\ [Next]_vars => SInv'
<1> SUFFICES ASSUME SInv, [Next]_vars PROVE SInv'
    OBVIOUS
<1>1. CASE MemoryLow
    BY <1>1, DoneWithHand DEF MemoryLow, TurnAway
<1>2. CASE MemoryFine
    BY <1>2 DEF MemoryFine, SInv, NoDescriptorLeak
<1>3. CASE Decide
    <2>1. CASE TurnAway
        BY <1>3, <2>1, DoneWithHand DEF Decide, TurnAway
    <2>2. CASE spc' = "spawn" /\ UNCHANGED <<hand, fds>>
        BY <1>3, <2>2 DEF Decide, SInv, NoDescriptorLeak
    <2> QED
        BY <1>3, <2>1, <2>2 DEF Decide
<1>4. CASE Spawn
    BY <1>4, DoneWithHand DEF Spawn
<1>5. CASE SpawnFails
    BY <1>5, DoneWithHand DEF SpawnFails, TurnAway
<1>6. ASSUME NEW c \in Clients, HandlerEnds(c) PROVE SInv'
    BY <1>6 DEF HandlerEnds, SInv, NoDescriptorLeak
<1>7. CASE Restart
    BY <1>7 DEF Restart, SInv, NoDescriptorLeak
<1>8. CASE Check \/ AclPost \/ UNCHANGED vars
    <2>1. UNCHANGED server
        BY <1>8 DEF Check, AclPost, vars
    <2> QED
        BY <2>1 DEF server, SInv, NoDescriptorLeak
<1> QED
    BY <1>1, <1>2, <1>3, <1>4, <1>5, <1>6, <1>7, <1>8, AcceptKeeps, AcceptFailsKeeps,
       ConnectKeeps DEF Next, Loop

LEMMA ServerInvariant == Spec => []SInv
BY ServerInit, ServerKeeps, PTL DEF Spec

\* usbip_server_task closes every descriptor it accepted or hands it to a handler,
\* whichever way it leaves the body of its loop.
THEOREM NoLeak == Spec => []NoDescriptorLeak
<1>1. SInv => NoDescriptorLeak
    BY DEF SInv
<1> QED
    BY ServerInvariant, <1>1, PTL
-------------------------------------------------------------------------------
\* Every step of the server is a step of the allow list or none.
LEMMA ServerStep == SInv /\ [Next]_vars => [AclNext]_aclVars
<1> SUFFICES ASSUME SInv, [Next]_vars PROVE [AclNext]_aclVars
    OBVIOUS
<1>1. CASE MemoryFine
    <2>1. Address[hand] \in Addresses
        BY <1>1 DEF MemoryFine, SInv
    <2> QED
        BY <1>1, <2>1 DEF MemoryFine, AclNext
<1>2. CASE Check
    BY <1>2 DEF Check, AclNext
<1>3. CASE Decide
    BY <1>3 DEF Decide, AclNext
<1>4. CASE Restart
    BY <1>4 DEF Restart, AclNext
<1>5. CASE AclPost
    BY <1>5 DEF AclPost, AclNext
<1>6. CASE Accept \/ AcceptFails \/ MemoryLow \/ Spawn \/ SpawnFails \/ UNCHANGED vars
    BY <1>6 DEF Accept, AcceptFails, MemoryLow, Spawn, SpawnFails, vars
<1>7. ASSUME NEW c \in Clients, HandlerEnds(c) \/ Connect(c)
      PROVE  UNCHANGED aclVars
    BY <1>7 DEF HandlerEnds, Connect
<1> QED
    BY <1>1, <1>2, <1>3, <1>4, <1>5, <1>6, <1>7 DEF Next, Loop

\* The accept loop, in a build that stores the element of an addition before the count
\* (elementFirst), lets an address in only if it was on the list at some moment of the
\* check, whatever is posted meanwhile and whenever the device restarts.
THEOREM ServerListedPass == Spec => []OnlyListedPass
<1>1. Init => AInv
    BY InitHolds DEF Init
<1>2. AInv /\ SInv /\ [Next]_vars => AInv'
    BY ServerStep, AclInvariant
<1>3. AInv => OnlyListedPass
    BY DEF AInv, Watched, OnlyListedPass
<1> QED
    BY ServerInvariant, <1>1, <1>2, <1>3, PTL DEF Spec
-------------------------------------------------------------------------------
(* What is proved of the list, for the loop that checks against it *)

\* The loop begins a check and takes its result; no other step of it touches one.
LoopTypes == /\ fds \subseteq Clients /\ handlers \subseteq fds
             /\ ip = IF spc = "check" THEN Address[hand] ELSE NoAddress

LEMMA InitLoopTypes == Init => LoopTypes
BY DEF Init, AclInit, LoopTypes

LEMMA KeepsLoopTypes == SInv /\ LoopTypes /\ [Next]_vars => LoopTypes'
<1> SUFFICES ASSUME SInv, LoopTypes, [Next]_vars PROVE LoopTypes'
    OBVIOUS
<1>1. CASE Accept
    <2>1. /\ spc = "accept" /\ spc' = "memory" /\ UNCHANGED <<ip, handlers>>
          /\ fds' = fds \cup {hand'} /\ hand' = Head(backlog) /\ backlog # <<>>
        BY <1>1 DEF Accept, aclVars, checker
    <2> QED
        BY <2>1, HeadLeaves DEF LoopTypes
<1>2. CASE AcceptFails \/ MemoryLow \/ SpawnFails
    BY <1>2 DEF AcceptFails, MemoryLow, SpawnFails, TurnAway, aclVars, checker, SInv,
                LoopTypes
<1>3. CASE MemoryFine
    BY <1>3 DEF MemoryFine, CheckBegin, LoopTypes
<1>4. CASE Check
    BY <1>4 DEF Check, CheckLoad, CheckNext, server, LoopTypes
<1>5. CASE Decide
    <2>1. ip' = NoAddress /\ UNCHANGED handlers
        BY <1>5 DEF Decide, CheckEnd
    <2>2. CASE TurnAway
        BY <1>5, <2>1, <2>2 DEF TurnAway, SInv, LoopTypes
    <2>3. CASE spc' = "spawn" /\ UNCHANGED <<hand, fds>>
        BY <2>1, <2>3 DEF LoopTypes
    <2> QED
        BY <1>5, <2>2, <2>3 DEF Decide
<1>6. CASE Spawn
    <2>1. /\ spc = "spawn" /\ spc' = "accept" /\ UNCHANGED <<ip, fds>>
          /\ handlers' = handlers \cup {hand}
        BY <1>6 DEF Spawn, aclVars, checker
    <2>2. hand \in fds
        BY <2>1 DEF SInv, NoDescriptorLeak
    <2> QED
        BY <2>1, <2>2 DEF LoopTypes
<1>7. ASSUME NEW c \in Clients, HandlerEnds(c) \/ Connect(c) PROVE LoopTypes'
    BY <1>7 DEF HandlerEnds, Connect, aclVars, checker, LoopTypes
<1>8. CASE AclPost
    BY <1>8 DEF AclPost, Http, checker, server, LoopTypes
<1>9. CASE Restart
    BY <1>9 DEF Restart, AclRestart, LoopTypes
<1>10. CASE UNCHANGED vars
    BY <1>10 DEF vars, server, aclVars, checker, LoopTypes
<1> QED
    BY <1>1, <1>2, <1>3, <1>4, <1>5, <1>6, <1>7, <1>8, <1>9, <1>10 DEF Next, Loop

LEMMA ServerTInv == Spec => [](TInv /\ SInv /\ LoopTypes)
<1>1. Init => TInv /\ LoopTypes
    BY InitTInv, InitLoopTypes DEF Init
<1>2. TInv /\ SInv /\ [Next]_vars => TInv'
    BY ServerStep, TypeInvariant
<1> QED
    BY ServerInvariant, <1>1, <1>2, KeepsLoopTypes, PTL DEF Spec

\* usbip_server_task and access_control.c: types, and one check at a time, for the
\* connection in the loop's hand.
THEOREM ServerTyped == Spec => []TypeOK
<1>1. SInv /\ LoopTypes /\ AclTypeOK => TypeOK
    BY DEF SInv, LoopTypes, TypeOK
<1> QED
    BY ServerTInv, TypesFollow, <1>1, PTL

\* What a POST was answered is what the accept loop checks against from then on,
\* restarts included.
THEOREM ServerAnswerLasts == Spec => []AnsweredLasts
<1>1. TInv => AnsweredLasts
    BY AnsweredFollows DEF TInv
<1> QED
    BY ServerTInv, <1>1, PTL

\* A restart of the server in the middle of a POST finds part of one list, never an
\* address of neither.
THEOREM ServerRestartFinds == Spec => []RestartFindsPart
<1>1. TInv => RestartFindsPart
    BY PartFollows DEF TInv, MInv
<1> QED
    BY ServerTInv, <1>1, PTL

\* A connection is decided about exactly as the list says when nobody posts.
THEOREM ServerCheckExact == Spec => []ExactAtRest
BY ServerTInv, ExactFollows, PTL
===============================================================================
