--------------------------- MODULE WsHandler_proofs ---------------------------
(***************************************************************************)
(* The live feed: proofs.                                                  *)
(*                                                                         *)
(* The table of clients names open sessions, each once (TableInv): only the  *)
(* HTTP task puts a descriptor into it, and it takes the one it is about to   *)
(* close out first; what the broadcasters do to it is take a descriptor out. *)
(* What the class driver broadcasts is the registry (ListInv): while it lists *)
(* the devices no one changes which there are, so the list is what the entries *)
(* passed so far hold, and complete when it is as long as the count.         *)
(***************************************************************************)
EXTENDS WsHandler, EventLog_proofs, FiniteSetTheorems

TableInv ==
    /\ ws_fds \in [Slots -> Fds \cup {Zero, NoFd}]
    /\ session \in [Fds -> {"none", "open", "broken"}]
    /\ hpc \in Fds \cup {NoFd}
    /\ up => \A i \in Slots : ws_fds[i] # NoFd => /\ ws_fds[i] \in Fds \ {hpc}
                                                  /\ session[ws_fds[i]] # "none"
    /\ OneSlotEach

\* The devices in the entries below n
Below(n) == {dev[i] : i \in {j \in Entries : j < n /\ InUse(j)}}

Busy == bpc["driver"] \in {"rows", "send", "drop"}

ListInv ==
    /\ bpc \in [Casters -> {"idle", "begin", "count", "rows", "send", "drop"}]
    /\ at = [b \in Casters |-> at[b]] /\ rows = [b \in Casters |-> rows[b]]
    /\ dev_count = [b \in Casters |-> dev_count[b]]
    /\ bpc["driver"] \notin {"rows", "send", "drop"} =>
          at["driver"] = 0 /\ rows["driver"] = {}
    /\ bpc["driver"] = "rows" => /\ at["driver"] \in 0 .. NumEntries
                                 /\ rows["driver"] = Below(at["driver"])
                                 /\ dev_count["driver"] = Cardinality(Present)
    /\ ChangeIsListed

USE FeedAssumption, RegistryAssumption
-------------------------------------------------------------------------------
(* The table of clients *)

\* Taking a descriptor out of the table leaves at least the same slots free.
LEMMA UnregisterClears ==
    ASSUME TableInv, NEW f, Unregister(f)
    PROVE  /\ ws_fds' \in [Slots -> Fds \cup {Zero, NoFd}]
           /\ \A i \in Slots : ws_fds'[i] \in {ws_fds[i], NoFd}
           /\ up /\ f # NoFd => \A i \in Slots : ws_fds'[i] # f
<1>1. /\ ws_fds' \in [Slots -> Fds \cup {Zero, NoFd}]
      /\ \A i \in Slots : ws_fds'[i] \in {ws_fds[i], NoFd}
    BY DEF Unregister, TableInv
<1>2. ASSUME up, f # NoFd, NEW i \in Slots PROVE ws_fds'[i] # f
    <2>1. ws_fds[i] = f => \A j \in Slots : j < i => ws_fds[j] # f
        <3>1. \A j \in Slots : ws_fds[i] = f /\ ws_fds[j] = f => i = j
            BY <1>2 DEF TableInv, OneSlotEach
        <3> QED
            BY <3>1 DEF Slots
    <2>2. CASE ws_fds[i] = f
        BY <1>2, <2>1, <2>2 DEF Unregister
    <2>3. CASE ws_fds[i] # f
        BY <1>2, <2>3 DEF Unregister
    <2> QED
        BY <2>2, <2>3
<1> QED
    BY <1>1, <1>2

LEMMA UnregisterKeeps ==
    ASSUME TableInv, NEW f, Unregister(f), UNCHANGED <<up, session, hpc>>
    PROVE  TableInv'
<1>1. /\ ws_fds' \in [Slots -> Fds \cup {Zero, NoFd}]
      /\ \A i \in Slots : ws_fds'[i] \in {ws_fds[i], NoFd}
    BY UnregisterClears
<1>2. OneSlotEach'
    BY <1>1 DEF TableInv, OneSlotEach
<1> QED
    BY <1>1, <1>2 DEF TableInv

LEMMA MessageKeeps == ASSUME TableInv, NEW f \in Fds, Message(f) PROVE TableInv'
<1>1. UNCHANGED <<up, session, hpc>> /\ hpc = NoFd /\ session[f] = "open"
    BY DEF Message, web
<1>2. CASE Registered(NoFd) /\ ~Registered(f)
    <2>1. PICK k : ws_fds' = [ws_fds EXCEPT ![k] = f]
        BY <1>2 DEF Message, Register
    <2>2. \A i \in Slots : /\ ws_fds'[i] = ws_fds[i] \/ (i = k /\ ws_fds'[i] = f)
                           /\ ws_fds[i] # f
        <3>1. \A i \in Slots : ws_fds[i] # f
            BY <1>2 DEF Registered
        <3>2. DOMAIN ws_fds = Slots
            BY DEF TableInv
        <3> QED
            BY <2>1, <3>1, <3>2
    <2>3. ws_fds' \in [Slots -> Fds \cup {Zero, NoFd}]
        BY <2>1 DEF TableInv
    <2>4. OneSlotEach'
        BY <1>1, <2>2 DEF TableInv, OneSlotEach
    <2> QED
        BY <1>1, <2>2, <2>3, <2>4 DEF TableInv
<1>3. CASE ~(Registered(NoFd) /\ ~Registered(f))
    BY <1>1, <1>3 DEF Message, Register, TableInv, OneSlotEach
<1> QED
    BY <1>2, <1>3

LEMMA CloseKeeps ==
    ASSUME TableInv, (\E f \in Fds : OnSockClose(f)) \/ CloseSocket
    PROVE  TableInv'
<1>1. ASSUME NEW f \in Fds, OnSockClose(f) PROVE TableInv'
    <2>1. UNCHANGED <<up, session>> /\ hpc' = f
        BY <1>1 DEF OnSockClose
    <2>2. /\ ws_fds' \in [Slots -> Fds \cup {Zero, NoFd}]
          /\ \A i \in Slots : ws_fds'[i] \in {ws_fds[i], NoFd}
          /\ up => \A i \in Slots : ws_fds'[i] # f
        BY <1>1, UnregisterClears DEF OnSockClose
    <2>3. OneSlotEach'
        BY <2>1, <2>2 DEF TableInv, OneSlotEach
    <2> QED
        BY <2>1, <2>2, <2>3 DEF TableInv
<1>2. CASE CloseSocket
    <2>1. UNCHANGED <<ws_fds, up>> /\ hpc' = NoFd /\ hpc # NoFd
          /\ session' = [session EXCEPT ![hpc] = "none"]
        BY <1>2 DEF CloseSocket
    <2>2. OneSlotEach'
        BY <2>1 DEF TableInv, OneSlotEach
    <2> QED
        BY <2>1, <2>2 DEF TableInv
<1> QED
    BY <1>1, <1>2

\* A step that opens or breaks a connection and leaves the table alone.
LEMMA SessionKeeps ==
    ASSUME TableInv, NEW f \in Fds, NEW s \in {"open", "broken"},
           session' = [session EXCEPT ![f] = s], UNCHANGED <<ws_fds, up, hpc>>
    PROVE  TableInv'
<1>1. /\ session' \in [Fds -> {"none", "open", "broken"}]
      /\ \A g \in Fds : session[g] # "none" => session'[g] # "none"
    BY DEF TableInv
<1> QED
    BY <1>1 DEF TableInv, OneSlotEach

LEMMA CasterTable ==
    ASSUME TableInv, NEW b \in Casters, Caster(b)
    PROVE  TableInv'
<1>1. CASE Drop(b)
    BY <1>1, UnregisterKeeps DEF Drop, web
<1>2. CASE ~Drop(b)
    <2>1. UNCHANGED <<ws_fds, up, session, hpc>>
        BY <1>2 DEF Caster, Skip, Snapshot, NoMemory, Count, Row, Lines, Send, web
    <2> QED
        BY <2>1 DEF TableInv, OneSlotEach
<1> QED
    BY <1>1, <1>2

LEMMA TableKeeps == TableInv /\ [Next]_vars => TableInv'
<1> SUFFICES ASSUME TableInv, [Next]_vars PROVE TableInv'
    OBVIOUS
<1>1. CASE WebInit
    BY <1>1 DEF WebInit, TableInv, OneSlotEach, Empty
<1>2. ASSUME NEW f \in Fds, Accept(f) PROVE TableInv'
    BY <1>2, SessionKeeps DEF Accept
<1>3. ASSUME NEW f \in Fds, Break(f) PROVE TableInv'
    BY <1>3, SessionKeeps DEF Break
<1>4. ASSUME \/ \E d \in Devices : Plug(d) \/ Unplug(d)
             \/ OtherEvent \/ UNCHANGED vars
      PROVE  TableInv'
    <2>1. UNCHANGED <<ws_fds, up, session, hpc>>
        BY <1>4 DEF Plug, Unplug, OtherEvent, vars, web
    <2> QED
        BY <2>1 DEF TableInv, OneSlotEach
<1> QED
    BY <1>1, <1>2, <1>3, <1>4, MessageKeeps, CloseKeeps, CasterTable DEF Next, Http

LEMMA TableInit == Init => TableInv
BY DEF Init, TableInv, OneSlotEach

\* No client of the feed's table is a descriptor that the HTTP server has closed.
THEOREM TableIsOpen == Spec => []RegisteredIsOpen
<1>1. TableInv => RegisteredIsOpen
    BY DEF TableInv, RegisteredIsOpen
<1> QED
    BY TableInit, TableKeeps, <1>1, PTL DEF Spec

\* No client has two slots.
THEOREM OneSlot == Spec => []OneSlotEach
<1>1. TableInv => OneSlotEach
    BY DEF TableInv
<1> QED
    BY TableInit, TableKeeps, <1>1, PTL DEF Spec
-------------------------------------------------------------------------------
(* The list of devices *)

LEMMA PresentFinite == IsFiniteSet(Present)
<1> DEFINE used == {j \in Entries : InUse(j)}
           f == [j \in used |-> dev[j]]
<1>1. IsFiniteSet(Entries)
    <2>1. 0 \in Int /\ NumEntries - 1 \in Int
        OBVIOUS
    <2> QED
        BY <2>1, FS_Interval DEF Entries
<1>2. IsFiniteSet(used)
    <2>1. used \in SUBSET Entries
        OBVIOUS
    <2> QED
        BY <1>1, <2>1, FS_Subset
<1>3. f \in Surjection(used, Present)
    BY DEF Surjection, Present
<1> QED
    BY <1>2, <1>3, FS_Surjection

\* A list as long as the number of devices is complete, and so is one of all entries.
LEMMA Complete ==
    ASSUME NEW n \in 0 .. NumEntries,
           n = NumEntries \/ ~(Cardinality(Below(n)) < Cardinality(Present))
    PROVE  Below(n) = Present
<1>1. Below(n) \subseteq Present
    BY DEF Below, Present
<1>2. CASE n = NumEntries
    BY <1>2 DEF Below, Present, Entries
<1>3. CASE n # NumEntries
    <2>1. Cardinality(Below(n)) <= Cardinality(Present)
        BY <1>1, PresentFinite, FS_Subset
    <2>2. Cardinality(Below(n)) \in Nat /\ Cardinality(Present) \in Nat
        BY <1>1, PresentFinite, FS_Subset, FS_CardinalityType
    <2>3. Cardinality(Below(n)) = Cardinality(Present)
        BY <1>3, <2>1, <2>2
    <2> QED
        BY <1>1, <2>3, PresentFinite, FS_Subset
<1> QED
    BY <1>2, <1>3

LEMMA RowKeeps == ASSUME ListInv, Row("driver") PROVE ListInv'
<1> DEFINE n == at["driver"]
<1>1. /\ bpc["driver"] = "rows" /\ n < NumEntries /\ n \in 0 .. NumEntries
      /\ rows["driver"] = Below(n)
    BY DEF Row, MoreRows, ListInv
<1>2. /\ at'["driver"] = n + 1 /\ at' = [b \in Casters |-> at'[b]]
      /\ rows' = [b \in Casters |-> rows'[b]]
      /\ rows'["driver"] = IF InUse(n) THEN Below(n) \cup {dev[n]} ELSE Below(n)
    BY <1>1 DEF Row, ListInv, Casters
<1>3. UNCHANGED <<dev, bpc, dev_count>>
    BY DEF Row, registry
<1>4. Below(n + 1) = rows'["driver"]
    <2>1. \A j \in Entries : j < n + 1 <=> j < n \/ j = n
        BY <1>1 DEF Entries
    <2>2. n \in Entries
        BY <1>1 DEF Entries
    <2> QED
        BY <1>2, <2>1, <2>2 DEF Below
<1>5. Present' = Present
    BY <1>3 DEF Present, InUse
<1>6. n + 1 \in 0 .. NumEntries
    BY <1>1
<1>7. bpc'["driver"] = "rows"
    BY <1>1, <1>3
<1>8. at'["driver"] \in 0 .. NumEntries /\ rows'["driver"] = Below(at["driver"])'
    <2>1. Below(at["driver"])' = {dev[i] : i \in {j \in Entries : j < n + 1 /\ InUse(j)}}
        BY <1>2, <1>3 DEF Below, InUse
    <2>2. Below(at["driver"])' = Below(n + 1)
        BY <2>1 DEF Below
    <2> QED
        BY <1>2, <1>4, <1>6, <2>2
<1> QED
    BY <1>2, <1>3, <1>5, <1>7, <1>8 DEF ListInv, ChangeIsListed

LEMMA LinesKeeps == ASSUME ListInv, Lines("driver") PROVE ListInv'
<1>1. /\ bpc["driver"] = "rows" /\ bpc'["driver"] = "send"
      /\ bpc' \in [Casters -> {"idle", "begin", "count", "rows", "send", "drop"}]
      /\ at' = [b \in Casters |-> at'[b]]
      /\ UNCHANGED <<dev, rows, dev_count>>
    BY DEF Lines, Goto, ListInv, Casters, registry
<1>2. rows["driver"] = Present
    <2>1. \/ at["driver"] = NumEntries
          \/ ~(Cardinality(Below(at["driver"])) < Cardinality(Present))
        BY <1>1 DEF Lines, MoreRows, ListInv
    <2>2. at["driver"] \in 0 .. NumEntries /\ rows["driver"] = Below(at["driver"])
        BY <1>1 DEF ListInv
    <2> QED
        BY <2>1, <2>2, Complete
<1>3. Present' = Present
    BY <1>1 DEF Present, InUse
<1> QED
    BY <1>1, <1>2, <1>3 DEF ListInv, ChangeIsListed

\* A step of the class driver's broadcast that lists nothing
LEMMA DriverKeeps == ASSUME ListInv, Caster("driver") PROVE ListInv'
<1>1. CASE Row("driver")
    BY <1>1, RowKeeps
<1>2. CASE Lines("driver")
    BY <1>2, LinesKeeps
<1>3. CASE Skip("driver") \/ Snapshot("driver") \/ NoMemory("driver") \/ Count("driver")
           \/ Send("driver") \/ Drop("driver")
    <2>1. UNCHANGED dev /\ bpc["driver"] # "idle"
        BY <1>3 DEF Skip, Snapshot, NoMemory, Count, Send, Drop, Ready, registry
    <2>2. Present' = Present /\ Below(0) = {}
        BY <2>1 DEF Present, InUse, Below, Entries
    <2>3. CASE Skip("driver") \/ NoMemory("driver") \/ Done("driver")
        <3>1. Done("driver")
            BY <2>3 DEF Skip, NoMemory
        <3> QED
            BY <2>1, <2>2, <3>1
            DEF Done, Goto, ListInv, ChangeIsListed, Casters
    <2>4. CASE Snapshot("driver")
        BY <2>1, <2>2, <2>4
        DEF Snapshot, Ready, Goto, ListInv, ChangeIsListed, Casters
    <2>5. CASE Count("driver")
        <3>1. Below(at["driver"])' = {}
            <4>1. UNCHANGED <<dev, at>> /\ at["driver"] = 0
                BY <2>1, <2>5 DEF Count, ListInv
            <4>2. Below(at["driver"])' = Below(0)
                BY <4>1 DEF Below, InUse
            <4> QED
                BY <2>2, <4>2
        <3>2. /\ bpc["driver"] = "count" /\ bpc'["driver"] = "rows"
              /\ bpc' \in [Casters -> {"idle", "begin", "count", "rows",
                                       "send", "drop"}]
              /\ UNCHANGED <<at, rows>> /\ dev_count' = [b \in Casters |-> dev_count'[b]]
              /\ dev_count'["driver"] = Cardinality(Present)
            BY <2>5 DEF Count, Goto, ListInv, Casters
        <3> QED
            BY <2>1, <2>2, <3>1, <3>2 DEF ListInv, ChangeIsListed
    <2>6. ASSUME Send("driver") \/ Drop("driver"), ~Done("driver") PROVE ListInv'
        <3>1. /\ bpc["driver"] \in {"send", "drop"} /\ bpc'["driver"] \in {"send", "drop"}
              /\ bpc' \in [Casters -> {"idle", "begin", "count", "rows",
                                       "send", "drop"}]
              /\ UNCHANGED <<rows, dev_count>> /\ at' = [b \in Casters |-> at'[b]]
            BY <2>6 DEF Send, Drop, GoOn, Goto, ListInv, Casters
        <3> QED
            BY <2>1, <2>2, <3>1 DEF ListInv, ChangeIsListed
    <2> QED
        BY <1>3, <2>3, <2>4, <2>5, <2>6
<1> QED
    BY <1>1, <1>2, <1>3 DEF Caster

\* What the timer's broadcast does is none of the class driver's.
LEMMA TimerKeeps == ASSUME ListInv, Caster("timer") PROVE ListInv'
<1>1. /\ UNCHANGED dev
      /\ bpc' \in [Casters -> {"idle", "begin", "count", "rows", "send", "drop"}]
      /\ bpc'["driver"] = bpc["driver"]
    BY DEF Caster, Skip, Snapshot, NoMemory, Count, Row, Lines, Send, Drop, GoOn, Done, Goto,
           Casters, ListInv, registry
<1>2. /\ at' = [b \in Casters |-> at'[b]] /\ at'["driver"] = at["driver"]
      /\ rows' = [b \in Casters |-> rows'[b]] /\ rows'["driver"] = rows["driver"]
      /\ dev_count' = [b \in Casters |-> dev_count'[b]]
      /\ dev_count'["driver"] = dev_count["driver"]
    BY DEF Caster, Skip, Snapshot, NoMemory, Count, Row, Lines, Send, Drop, GoOn, Done,
           Casters, ListInv
<1>3. Present' = Present /\ Below(at["driver"])' = Below(at["driver"])
    BY <1>1, <1>2 DEF Present, Below, InUse
<1> QED
    BY <1>1, <1>2, <1>3 DEF ListInv, ChangeIsListed

LEMMA ListKeeps == ListInv /\ [Next]_vars => ListInv'
<1> SUFFICES ASSUME ListInv, [Next]_vars PROVE ListInv'
    OBVIOUS
<1>1. ASSUME NEW d \in Devices, Plug(d) \/ Unplug(d) PROVE ListInv'
    <2>1. /\ bpc["driver"] = "idle" /\ bpc'["driver"] = "begin"
          /\ bpc' \in [Casters -> {"idle", "begin", "count", "rows", "send",
                                   "drop"}]
          /\ UNCHANGED <<at, rows, dev_count>>
        BY <1>1 DEF Plug, Unplug, Goto, ListInv, Casters
    <2> QED
        BY <2>1 DEF ListInv, ChangeIsListed
<1>2. ASSUME WebInit \/ (\E f \in Fds : Break(f)) \/ Http \/ OtherEvent \/ UNCHANGED vars
      PROVE  ListInv'
    <2>1. UNCHANGED <<dev, bpc, at, rows, dev_count>>
        BY <1>2 DEF WebInit, Break, Http, Accept, Message, OnSockClose, CloseSocket,
                    OtherEvent, vars, registry, broadcast
    <2>2. Present' = Present /\ Below(at["driver"])' = Below(at["driver"])
        BY <2>1 DEF Present, Below, InUse
    <2> QED
        BY <2>1, <2>2 DEF ListInv, ChangeIsListed
<1> QED
    BY <1>1, <1>2, DriverKeeps, TimerKeeps DEF Next, Casters

LEMMA ListInit == Init => ListInv
<1> SUFFICES ASSUME Init PROVE ListInv
    OBVIOUS
<1> QED
    BY DEF Init, ListInv, ChangeIsListed, Casters

\* The broadcast after a change lists the devices of the registry, whatever the
\* number of entries and the holes between them.
THEOREM ListIsComplete == Spec => []ChangeIsListed
<1>1. ListInv => ChangeIsListed
    BY DEF ListInv
<1> QED
    BY ListInit, ListKeeps, <1>1, PTL DEF Spec

-------------------------------------------------------------------------------
(* The log *)

\* Every step of the system is a step of the log or leaves it alone.
LEMMA FeedStep == [Next]_vars => [LogNext]_log
<1>1. ASSUME NEW n, LogAdd(n) PROVE LogNext
    BY <1>1 DEF LogAdd, LogNext
<1>2. ASSUME NEW b, Caster(b) PROVE UNCHANGED log
    BY <1>2 DEF Caster, Skip, Snapshot, NoMemory, Count, Row, Lines, Send, Drop
<1>3. ASSUME NEW f, Accept(f) \/ Message(f) \/ OnSockClose(f) \/ Break(f)
      PROVE  UNCHANGED log
    BY <1>3 DEF Accept, Message, OnSockClose, Break
<1>4. ASSUME CloseSocket \/ WebInit \/ UNCHANGED vars PROVE UNCHANGED log
    BY <1>4 DEF CloseSocket, WebInit, vars
<1>5. ASSUME OtherEvent \/ \E d \in Devices : Plug(d) \/ Unplug(d)
      PROVE  \E n : LogAdd(n)
    BY <1>5 DEF OtherEvent, Plug, Unplug
<1> QED
    BY <1>1, <1>2, <1>3, <1>4, <1>5 DEF Next, Http

\* The log that the broadcasters read is the newest events, newest first.
THEOREM FeedLog == Spec => ImplementsRecentEvents
<1>1. Spec => LogSpec
    BY FeedStep, PTL DEF Spec, Init, LogSpec
<1> QED
    BY <1>1, Implementation, PTL
-------------------------------------------------------------------------------
(* Types *)

\* There are at most as many devices as entries.
LEMMA PresentCount == Cardinality(Present) \in 0 .. NumEntries
<1> DEFINE used == {j \in Entries : InUse(j)}
           f == [j \in used |-> dev[j]]
<1>1. IsFiniteSet(Entries) /\ Cardinality(Entries) = NumEntries
    <2>1. 0 \in Int /\ NumEntries - 1 \in Int /\ (NumEntries - 1) - 0 + 1 = NumEntries
        OBVIOUS
    <2> QED
        BY <2>1, FS_Interval DEF Entries
<1>2. IsFiniteSet(used) /\ Cardinality(used) <= NumEntries
    <2>1. used \in SUBSET Entries
        OBVIOUS
    <2> QED
        BY <1>1, <2>1, FS_Subset
<1>3. Cardinality(used) \in Nat /\ Cardinality(Present) \in Nat
    BY <1>2, PresentFinite, FS_CardinalityType
<1>4. f \in Surjection(used, Present)
    BY DEF Surjection, Present
<1>5. Cardinality(Present) <= Cardinality(used)
    BY <1>2, <1>4, FS_Surjection
<1> QED
    BY <1>2, <1>3, <1>5

\* The local state of the broadcasters
CasterTyped ==
    /\ fds \in [Casters -> [Slots -> Fds \cup {Zero, NoFd}]]
    /\ at \in [Casters -> Nat]
    /\ \A b \in Casters : bpc[b] \in {"send", "drop"} => at[b] \in Slots
    /\ dev_count \in [Casters -> 0 .. NumEntries]
    /\ rows \in [Casters -> SUBSET Devices]
    /\ news \in [Casters -> Nat]

\* What TableInv, ListInv and the log's own types leave to be said
FInv ==
    /\ RegistryTypeOK /\ CasterTyped
    /\ up \in BOOLEAN /\ failures \in 0 .. MaxFailures
    /\ callers \subseteq Fds /\ unseen \subseteq Devices

LEMMA InitFInv == Init => FInv
<1> SUFFICES ASSUME Init PROVE FInv
    OBVIOUS
<1>1. RegistryTypeOK
    BY DEF Init, RegistryInit, RegistryTypeOK, Exported
<1>2. CasterTyped
    <2>1. Empty \in [Slots -> Fds \cup {Zero, NoFd}]
        BY DEF Empty
    <2>2. bpc = [b \in Casters |-> "idle"]
        BY DEF Init
    <2>3. \A b \in Casters : bpc[b] \notin {"send", "drop"}
        BY <2>2
    <2>4. fds \in [Casters -> [Slots -> Fds \cup {Zero, NoFd}]]
        BY <2>1 DEF Init
    <2>5. at \in [Casters -> Nat] /\ dev_count \in [Casters -> 0 .. NumEntries]
        BY DEF Init
    <2>6. rows \in [Casters -> SUBSET Devices] /\ news \in [Casters -> Nat]
        BY DEF Init
    <2> QED
        BY <2>3, <2>4, <2>5, <2>6 DEF CasterTyped
<1>3. up \in BOOLEAN
    BY DEF Init
<1>4. /\ callers \subseteq Fds /\ unseen \subseteq Devices
      /\ failures \in 0 .. MaxFailures
    BY DEF Init
<1> QED
    BY <1>1, <1>2, <1>3, <1>4 DEF FInv

\* The newest of the events read, if there is one, is a number.
LEMMA NewsTyped ==
    ASSUME LogTypeOK, Recent(LogLines) # <<>>
    PROVE  Recent(LogLines)[1] \in Nat
<1> DEFINE n == IF LogLines < count THEN LogLines ELSE count
<1>1. n \in Nat /\ Recent(LogLines) = [i \in 1 .. n |-> entries[(head + Capacity - i) % Capacity]]
    BY DEF Recent, LogTypeOK
<1>2. n # 0
    <2>1. n = 0 => Recent(LogLines) = <<>>
        BY <1>1
    <2> QED
        BY <2>1
<1> HIDE DEF n
<1>3. Recent(LogLines)[1] = entries[(head + Capacity - 1) % Capacity]
    BY <1>1, <1>2
<1>4. (head + Capacity - 1) % Capacity \in Positions
    <2>1. head \in Positions /\ 1 \in 1 .. Capacity
        BY LogAssumption DEF LogTypeOK
    <2> QED
        BY <2>1, ModBack, BackIn
<1> QED
    BY <1>3, <1>4 DEF LogTypeOK

LEMMA DoneTyped ==
    ASSUME CasterTyped, bpc = [c \in Casters |-> bpc[c]], NEW b \in Casters, Done(b)
    PROVE  CasterTyped'
<1>1. \A c \in Casters : bpc'[c] \in {"send", "drop"} => c # b /\ bpc[c] \in {"send", "drop"}
    BY DEF Done, Goto
<1>2. at' \in [Casters -> Nat] /\ \A c \in Casters : c # b => at'[c] = at[c]
    BY DEF CasterTyped, Done
<1>3. fds' \in [Casters -> [Slots -> Fds \cup {Zero, NoFd}]]
    BY DEF CasterTyped, Done, Empty
<1> QED
    BY <1>1, <1>2, <1>3 DEF CasterTyped, Done

LEMMA GoOnTyped ==
    ASSUME CasterTyped, bpc = [c \in Casters |-> bpc[c]], NEW b \in Casters, NEW i,
           GoOn(b, i)
    PROVE  CasterTyped'
<1>1. CASE Done(b)
    BY <1>1, DoneTyped
<1>2. CASE /\ \E j \in Following(b, i) : at' = [at EXCEPT ![b] = j]
           /\ Goto(b, "send") /\ UNCHANGED <<fds, dev_count, rows, news>>
    <2>1. PICK j \in Slots : at' = [at EXCEPT ![b] = j]
        BY <1>2 DEF Following, Ahead
    <2> QED
        BY <1>2, <2>1 DEF CasterTyped, Goto, Slots
<1> QED
    BY <1>1, <1>2 DEF GoOn

LEMMA CasterKeepsTypes ==
    ASSUME FInv, TableInv, ListInv, LogTypeOK, NEW b \in Casters, Caster(b)
    PROVE  CasterTyped'
<1>1. bpc = [c \in Casters |-> bpc[c]] /\ CasterTyped
    BY DEF ListInv, FInv
<1>2. CASE Skip(b) \/ NoMemory(b)
    BY <1>1, <1>2, DoneTyped DEF Skip, NoMemory
<1>3. CASE Snapshot(b)
    BY <1>1, <1>3 DEF Snapshot, Goto, CasterTyped, TableInv
<1>4. CASE Count(b)
    BY <1>1, <1>4, PresentCount DEF Count, Goto, CasterTyped
<1>5. CASE Row(b)
    <2>1. at[b] \in Entries
        BY <1>1, <1>5 DEF Row, MoreRows, CasterTyped, Entries
    <2>2. InUse(at[b]) => dev[at[b]] \in Devices
        BY <2>1 DEF FInv, RegistryTypeOK, InUse
    <2>3. rows' \in [Casters -> SUBSET Devices]
        BY <1>1, <1>5, <2>2 DEF Row, CasterTyped
    <2>4. /\ at' \in [Casters -> Nat]
          /\ \A c \in Casters : c # b => at'[c] = at[c]
          /\ bpc' = bpc /\ bpc[b] = "rows"
        BY <1>1, <1>5 DEF Row, CasterTyped
    <2> QED
        BY <1>1, <1>5, <2>3, <2>4 DEF Row, CasterTyped
<1>6. CASE Lines(b)
    <2>1. news' \in [Casters -> Nat]
        <3>1. PICK n \in Nat : news' = [news EXCEPT ![b] = n] \/ news' = news
            <4>1. PICK s : s = Recent(LogLines)
                OBVIOUS
            <4>2. (IF s = <<>> THEN 0 ELSE s[1]) \in Nat
                BY <4>1, NewsTyped
            <4>3. \/ news' = [news EXCEPT ![b] = IF s = <<>> THEN 0 ELSE s[1]]
                  \/ news' = news
                BY <1>6, <4>1 DEF Lines
            <4> QED
                BY <4>2, <4>3
        <3> QED
            BY <1>1, <3>1 DEF CasterTyped
    <2>2. PICK i \in Slots : at' = [at EXCEPT ![b] = i]
        BY <1>6 DEF Lines, Following, Ahead
    <2>3. at' \in [Casters -> Nat] /\ \A c \in Casters : at'[c] \in {i, at[c]}
        BY <1>1, <2>2 DEF CasterTyped, Slots
    <2>4. \A c \in Casters : bpc'[c] \in {"send", "drop"} => at'[c] \in Slots
        BY <1>1, <1>6, <2>2 DEF Lines, Goto, CasterTyped
    <2>5. UNCHANGED <<fds, dev_count, rows>>
        BY <1>6 DEF Lines
    <2> QED
        BY <1>1, <2>1, <2>3, <2>4, <2>5 DEF CasterTyped
<1>7. CASE Send(b)
    <2>1. CASE GoOn(b, at[b] + 1)
        BY <1>1, <2>1, GoOnTyped
    <2>2. CASE Goto(b, "drop") /\ UNCHANGED <<fds, at, dev_count, rows, news>>
        BY <1>1, <1>7, <2>2 DEF Send, Goto, CasterTyped
    <2> QED
        BY <1>7, <2>1, <2>2 DEF Send
<1>8. CASE Drop(b)
    BY <1>1, <1>8, GoOnTyped DEF Drop
<1> QED
    BY <1>2, <1>3, <1>4, <1>5, <1>6, <1>7, <1>8 DEF Caster

\* The registry: nothing is exported here, so nothing is exported without a device.
LEMMA PlugTyped ==
    ASSUME RegistryTypeOK, NEW d \in Devices, Add(d) \/ Remove(d)
    PROVE  RegistryTypeOK'
<1>1. CASE Add(d)
    BY <1>1 DEF Add, RegistryTypeOK, Exported, InUse
<1>2. CASE Remove(d)
    BY <1>2 DEF Remove, RegistryTypeOK, Exported, InUse
<1> QED
    BY <1>1, <1>2

LEMMA NextFInv ==
    FInv /\ TableInv /\ ListInv /\ LogTypeOK /\ [Next]_vars => FInv'
<1> SUFFICES ASSUME FInv, TableInv, ListInv, LogTypeOK, [Next]_vars PROVE FInv'
    OBVIOUS
<1>1. ASSUME NEW b \in Casters, Caster(b) PROVE FInv'
    <2>1. CasterTyped'
        BY <1>1, CasterKeepsTypes
    <2>2. failures' \in 0 .. MaxFailures
        BY <1>1 DEF Caster, Skip, Snapshot, NoMemory, Count, Row, Lines, Send, Drop, FInv
    <2>3. UNCHANGED <<dev, owner, up, callers, unseen>>
        BY <1>1 DEF Caster, Skip, Snapshot, NoMemory, Count, Row, Lines, Send, Drop,
           registry, web
    <2> QED
        BY <2>1, <2>2, <2>3 DEF FInv, RegistryTypeOK, Exported, InUse
<1>2. ASSUME NEW d \in Devices, Plug(d) \/ Unplug(d) PROVE FInv'
    <2>1. RegistryTypeOK'
        BY <1>2, PlugTyped DEF Plug, Unplug, FInv
    <2>2. CasterTyped'
        BY <1>2 DEF Plug, Unplug, Goto, FInv, CasterTyped, ListInv
    <2>3. unseen' \subseteq Devices /\ UNCHANGED <<up, callers, failures>>
        BY <1>2 DEF Plug, Unplug, web, FInv
    <2> QED
        BY <2>1, <2>2, <2>3 DEF FInv
<1>3. CASE WebInit \/ (\E f \in Fds : Break(f)) \/ Http \/ OtherEvent \/ UNCHANGED vars
    <2>1. UNCHANGED <<dev, owner, bpc, fds, at, dev_count, rows, news, callers, unseen>>
        BY <1>3 DEF WebInit, Break, Http, Accept, Message, OnSockClose, CloseSocket,
                    OtherEvent, vars, registry, broadcast, web
    <2>2. up' = up \/ up' = TRUE
        BY <1>3 DEF WebInit, Break, Http, Accept, Message, OnSockClose, CloseSocket,
                    OtherEvent, vars, web
    <2>3. failures' \in 0 .. MaxFailures
        BY <1>3 DEF WebInit, Break, Http, Accept, Message, OnSockClose, CloseSocket,
                    OtherEvent, vars, FInv
    <2>4. up' \in BOOLEAN
        BY <2>2 DEF FInv
    <2> QED
        BY <2>1, <2>3, <2>4 DEF FInv, CasterTyped, RegistryTypeOK, Exported, InUse
<1> QED
    BY <1>1, <1>2, <1>3 DEF Next

\* The types of the feed, for any number of clients, slots, entries and log lines:
\* above all, the slot that a failed send unregisters is one of the table's.
THEOREM FeedTyped == Spec => []TypeOK
<1>1. LogTypeOK /\ TableInv /\ ListInv /\ FInv => TypeOK
    BY DEF TableInv, ListInv, FInv, CasterTyped, TypeOK
<1>2. Spec => []LogTypeOK
    <2>1. Spec => LogSpec
        BY FeedStep, PTL DEF Spec, Init, LogSpec
    <2> QED
        BY <2>1, LogTyping, PTL
<1> QED
    BY <1>1, <1>2, InitFInv, NextFInv, TableInit, TableKeeps, ListInit, ListKeeps, PTL
       DEF Spec
===============================================================================
