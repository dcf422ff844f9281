--------------------------- MODULE Connection_proofs ---------------------------
(***************************************************************************)
(* The connections over the host manager and the registry: proofs.          *)
(*                                                                         *)
(* HInv is about the class driver: what is registered is tracked, each      *)
(* device once, and the device under way is not registered.  OInv is about  *)
(* what outlives a client: an export has a connection that holds its entry, *)
(* a claim one that works on the device, or a release of it failed.  Both   *)
(* hold however connections, operators and plugs interleave.               *)
(*                                                                         *)
(* DInv is about exclusive sessions, and takes the discipline of its        *)
(* theorems: clients have addresses of their own, no operator releases      *)
(* exports, and no device takes the entry of another.  It says that what a  *)
(* connection looked up stays where it was until it is gone for good, and   *)
(* that a connection in possession of an entry is its owner.                *)
(*                                                                         *)
(* The last part shows, under the same discipline, that all this implements *)
(* DeviceLease.  XInv is what the mapping needs beside DInv: an export has a *)
(* device, and only a connection in its session works with one.             *)
(***************************************************************************)
EXTENDS Connection, FiniteSetTheorems, TLAPS

USE RegistryAssumption, ConnectionAssumption

HInv ==
    /\ dev \in [Entries -> Devices \cup {NoDevice}]
    /\ bus \in [Devices -> {"new", "in", "refused", "known", "away", "over"}]
    /\ tracked \subseteq Devices /\ IsFiniteSet(tracked)
    /\ Cardinality(tracked) <= NumEntries
    /\ \A d \in tracked : bus[d] \in {"known", "away"}
    /\ open \subseteq Devices /\ kept \subseteq Devices
    /\ claims \in [Devices -> Level]
    /\ \A d \in Devices : claims[d] # "none" => d \in open
    /\ \A d \in open : bus[d] \notin {"new", "in", "refused"}
    /\ \A i \in Entries : InUse(i) => dev[i] \in tracked
    /\ \A i, j \in Entries : InUse(i) /\ dev[i] = dev[j] => i = j
    /\ mpc \in {"idle", "add", "close", "untrack"}
    /\ mpc # "idle" => mdev \in tracked /\ \A i \in Entries : dev[i] # mdev
    /\ mpc \in {"close", "untrack"} => bus[mdev] = "away"

\* Where a connection answers for the entry idx
Holding == {"get", "undo", "reply", "stale", "claim", "refuse", "run", "arm", "handle",
            "session", "unclaim", "release"}
\* Where the interfaces of info are claimed
Working == {"run", "arm", "handle", "session", "unclaim"}

OInv ==
    /\ owner \in [Entries -> Clients \cup {NoClient}]
    /\ cpc = [c \in Conns |-> cpc[c]]
    /\ idx = [c \in Conns |-> idx[c]]
    /\ info = [c \in Conns |-> info[c]]
    /\ \A i \in Entries : Exported(i) =>
          \E c \in Conns : Ip[c] = owner[i] /\ idx[c] = i /\ cpc[c] \in Holding
    /\ \A d \in Devices \ kept : claims[d] # "none" /\ Tracked(d) =>
          \E c \in Conns : info[c] = d /\ cpc[c] \in Working
--------------------------------------------------------------------------------
(* The class driver *)

LEMMA InitHInv == Init => HInv
BY FS_EmptySet DEF Init, RegistryInit, HostInit, HInv, Level, InUse

LEMMA NewTrackedKeeps ==
    ASSUME HInv, NEW d \in Devices, NewTracked(d)
    PROVE  HInv'
<1>1. d \notin tracked /\ \A i \in Entries : dev[i] # d
    BY DEF NewTracked, HInv, InUse
<1>2. /\ IsFiniteSet(tracked \cup {d})
      /\ Cardinality(tracked \cup {d}) = Cardinality(tracked) + 1
    BY <1>1, FS_AddElement DEF HInv
<1>3. Cardinality(tracked) \in Nat
    BY FS_CardinalityType DEF HInv
<1>4. Cardinality(tracked \cup {d}) <= NumEntries
    BY <1>2, <1>3 DEF NewTracked, HInv
<1> QED
    BY <1>1, <1>2, <1>4 DEF NewTracked, HInv, InUse, registry

LEMMA NewAddKeeps == ASSUME HInv, NewAdd PROVE HInv'
<1>1. PICK i \in Entries : ~InUse(i) /\ dev' = [dev EXCEPT ![i] = mdev]
    BY DEF NewAdd, Add
<1>2. mdev \in tracked /\ \A j \in Entries : dev[j] # mdev
    BY DEF HInv, NewAdd
<1>3. /\ dev' \in [Entries -> Devices \cup {NoDevice}]
      /\ \A j \in Entries : dev'[j] = IF j = i THEN mdev ELSE dev[j]
    BY <1>1, <1>2 DEF HInv
<1>4. UNCHANGED <<bus, open, tracked, claims, kept>> /\ mpc' = "idle"
    BY DEF NewAdd
<1> QED
    BY <1>1, <1>2, <1>3, <1>4 DEF HInv, InUse

LEMMA GoneRemoveKeeps ==
    ASSUME HInv, NEW d \in Devices, GoneRemove(d)
    PROVE  HInv'
<1>1. /\ dev' \in [Entries -> Devices \cup {NoDevice}]
      /\ \A i \in Entries : dev'[i] = IF dev[i] = d THEN NoDevice ELSE dev[i]
    BY DEF GoneRemove, Remove, HInv
<1>2. \A i \in Entries : dev'[i] # d
    BY <1>1
<1> QED
    BY <1>1, <1>2 DEF GoneRemove, HInv, InUse, Tracked

LEMMA GoneUntrackKeeps == ASSUME HInv, GoneUntrack PROVE HInv'
<1>1. /\ IsFiniteSet(tracked \ {mdev})
      /\ Cardinality(tracked \ {mdev}) <= Cardinality(tracked)
    BY FS_Subset, tracked \ {mdev} \in SUBSET tracked DEF HInv
<1>2. Cardinality(tracked) \in Nat /\ Cardinality(tracked \ {mdev}) \in Nat
    BY <1>1, FS_CardinalityType DEF HInv
<1>3. Cardinality(tracked \ {mdev}) <= NumEntries
    BY <1>1, <1>2 DEF HInv
<1> QED
    BY <1>1, <1>3 DEF GoneUntrack, HInv, InUse, registry

LEMMA HostKeeps == ASSUME HInv, ClassDriver \/ Bus PROVE HInv'
<1>1. ASSUME NEW d \in Devices, PlugIn(d) PROVE HInv'
    BY <1>1 DEF PlugIn, HInv, InUse, registry
<1>2. ASSUME NEW d \in Devices, Unplug(d) PROVE HInv'
    BY <1>2 DEF Unplug, HInv, InUse, registry
<1>3. ASSUME NEW d \in Devices, NewRefused(d) PROVE HInv'
    BY <1>3 DEF NewRefused, HInv, InUse, registry
<1>4. CASE GoneClose
    BY <1>4 DEF GoneClose, HInv, InUse, registry
<1> QED
    BY <1>1, <1>2, <1>3, <1>4, NewTrackedKeeps, NewAddKeeps, GoneRemoveKeeps,
       GoneUntrackKeeps DEF ClassDriver, Bus

\* What a connection or an operator does to the registry and the host manager
Apart == /\ UNCHANGED <<dev, bus, open, tracked, mpc, mdev>>
         /\ claims' \in [Devices -> Level] /\ kept' \subseteq Devices
         /\ \A d \in Devices : claims'[d] # "none" => d \in open

LEMMA ApartKeeps == ASSUME HInv, Apart PROVE HInv'
BY DEF HInv, Apart, InUse

\* What a call of the host library for each interface may change: one device
LEMMA ClaimsMove ==
    ASSUME HInv, NEW d, ClaimInterfaces(d) \/ ReleaseInterfaces(d)
    PROVE  /\ claims' \in [Devices -> Level] /\ kept' \subseteq Devices
           /\ \A e \in Devices : claims'[e] # "none" => e \in open
           /\ \A e \in Devices \ {d} : /\ claims'[e] = claims[e]
                                       /\ e \in kept => e \in kept'
<1>1. CASE ~Tracked(d)
    BY <1>1 DEF HInv, ClaimInterfaces, ReleaseInterfaces
<1>2. CASE Tracked(d)
    <2>1. PICK l \in Level : /\ claims' = [claims EXCEPT ![d] = l]
                             /\ l = "none" \/ d \in open
        BY <1>2 DEF HInv, ClaimInterfaces, ReleaseInterfaces, Tracked, Raised, Lowered,
                    Level
    <2>2. d \in Devices /\ kept' \subseteq Devices
        BY <1>2 DEF HInv, ClaimInterfaces, ReleaseInterfaces, Tracked
    <2>3. \A e \in Devices \ {d} : e \in kept => e \in kept'
        BY <1>2 DEF ClaimInterfaces, ReleaseInterfaces
    <2> QED
        BY <2>1, <2>2, <2>3 DEF HInv
<1> QED
    BY <1>1, <1>2

LEMMA TaskApart ==
    ASSUME HInv, NEW c \in Conns, Task(c)
    PROVE  Apart
<1>1. CASE LookUp(c) \/ Get(c) \/ SendReply(c) \/ Run(c) \/ Arm(c) \/ GetHandle(c)
           \/ SessionOver(c) \/ Leave(c)
    BY <1>1 DEF LookUp, Get, SendReply, Run, Arm, GetHandle, SessionOver, Leave, Apart,
                HInv, registry, host
<1>2. CASE TryImport(c) \/ Refuse(c) \/ ReleaseEntry(c) \/ Done(c)
    BY <1>2 DEF TryImport, Refuse, ReleaseEntry, Done, Import, Release, ReleaseByIp,
                Apart, HInv, registry, host
<1>3. CASE Claim(c) /\ UNCHANGED <<claims, kept>>
    BY <1>3 DEF Claim, Apart, HInv, registry
<1>4. CASE \/ Claim(c) /\ ClaimInterfaces(info[c])
           \/ ReleaseStale(c) \/ Unclaim(c)
    <2>1. ClaimInterfaces(info[c]) \/ ReleaseInterfaces(info[c])
        BY <1>4 DEF ReleaseStale, Unclaim
    <2>2. UNCHANGED <<dev, bus, open, tracked, mpc, mdev>>
        BY <1>4 DEF Claim, ReleaseStale, Unclaim, registry
    <2> QED
        BY <2>1, <2>2, ClaimsMove DEF Apart
<1> QED
    BY <1>1, <1>2, <1>3, <1>4 DEF Task, Claim

LEMMA NextHInv == HInv /\ [Next]_vars => HInv'
<1> SUFFICES ASSUME HInv, [Next]_vars PROVE HInv'
    OBVIOUS
<1>1. CASE \/ \E i \in Entries : WebGet(i)
           \/ WebRelease \/ Terminated \/ UNCHANGED vars
    <2>1. Apart
        BY <1>1 DEF WebGet, WebRelease, Release, Terminated, vars, Apart, HInv,
                    registry, host
    <2> QED
        BY <2>1, ApartKeeps
<1> QED
    BY <1>1, HostKeeps, TaskApart, ApartKeeps DEF Next

\* When the class driver registers a device there is an entry for it.
LEMMA Room == ASSUME HInv, mpc = "add" PROVE \E i \in Entries : ~InUse(i)
<1> SUFFICES ASSUME \A i \in Entries : InUse(i) PROVE FALSE
    OBVIOUS
<1> DEFINE others == tracked \ {mdev}
<1>1. dev \in Injection(Entries, others)
    BY DEF HInv, Injection, IsInjective, InUse
<1>2. /\ IsFiniteSet(others)
      /\ Cardinality(others) = Cardinality(tracked) - 1
    BY FS_RemoveElement DEF HInv
<1>3. Cardinality(Entries) <= Cardinality(others)
    BY <1>1, <1>2, FS_Injection
<1>4. Cardinality(Entries) = NumEntries
    <2>1. 0 \in Int /\ NumEntries - 1 \in Int
        OBVIOUS
    <2> QED
        BY <2>1, FS_Interval DEF Entries
<1>5. Cardinality(tracked) \in Nat
    BY FS_CardinalityType DEF HInv
<1> QED
    BY <1>2, <1>3, <1>4, <1>5 DEF HInv

\* What is registered has a handle, and what is to be registered gets an entry, for
\* any number of devices and entries.
THEOREM Handles == Spec => []RegisteredHasHandle
<1>1. HInv => RegisteredHasHandle
    BY Room DEF HInv, RegisteredHasHandle, Tracked
<1> QED
    BY <1>1, InitHInv, NextHInv, PTL DEF Spec
--------------------------------------------------------------------------------
(* Types *)

\* A connection that looked a path up has an entry in hand until it is through.
Armed == \A c \in Conns : cpc[c] = "arm" => eng[c] \in Entries

TInv == /\ TypeOK /\ Armed
        /\ \A c \in Conns : cpc[c] \in Holding \cup {"import"} => idx[c] \in Entries

LEMMA InitTInv == ASSUME Devices # {} PROVE Init => TInv
<1>1. AnyPath \in Paths
    <2>1. \E p \in Paths : TRUE
        BY DEF Paths
    <2> QED
        BY <2>1 DEF AnyPath
<1>2. Init => TypeOK
    <2> SUFFICES ASSUME Init PROVE TypeOK
        OBVIOUS
    <2>1. RegistryTypeOK /\ HostTypeOK
        BY DEF Init, RegistryInit, HostInit, RegistryTypeOK, HostTypeOK, Level, Exported
    <2> QED
        BY <1>1, <2>1 DEF Init, TypeOK, NoEntry
<1> QED
    BY <1>2 DEF Init, TInv, Holding, Armed

LEMMA ReleaseTyped ==
    ASSUME RegistryTypeOK, NEW i, Release(i)
    PROVE  RegistryTypeOK'
BY DEF RegistryTypeOK, Release, Exported, InUse

LEMMA ReturnTyped ==
    ASSUME TInv, Devices # {}, NEW c \in Conns, NEW label \in {"idle", "done"},
           Return(c, label), UNCHANGED <<eng, sdev, web>>, RegistryTypeOK', HostTypeOK'
    PROVE  TInv'
<1>1. AnyPath \in Paths
    <2>1. \E p \in Paths : TRUE
        BY DEF Paths
    <2> QED
        BY <2>1 DEF AnyPath
<1>2. TypeOK'
    BY <1>1 DEF TInv, TypeOK, Return, Goto
<1>3. \A k \in Conns : cpc'[k] \in Holding \cup {"import"} => idx'[k] \in Entries
    BY DEF TInv, TypeOK, Return, Goto, Holding
<1>4. Armed'
    BY DEF TInv, TypeOK, Return, Goto, Armed
<1> QED
    BY <1>2, <1>3, <1>4 DEF TInv

LEMMA TaskTyped ==
    ASSUME HInv, TInv, Devices # {}, NEW c \in Conns, Task(c)
    PROVE  TInv'
<1>1. CASE LookUp(c)
    <2>1. PICK p \in Paths, i \in Entries : /\ want' = [want EXCEPT ![c] = p]
                                            /\ idx' = [idx EXCEPT ![c] = i]
        BY <1>1 DEF LookUp
    <2> QED
        BY <1>1, <2>1 DEF LookUp, Goto, TInv, TypeOK, RegistryTypeOK, HostTypeOK,
           Holding, Armed, registry, host, Exported, InUse
<1>2. CASE TryImport(c)
    <2>1. HostTypeOK'
        BY <1>2 DEF TryImport, TInv, TypeOK, HostTypeOK, host
    <2>2. CASE Import(idx[c], Ip[c]) /\ Goto(c, "get") /\ UNCHANGED <<want, idx, info>>
        <3>1. RegistryTypeOK'
            BY <2>2 DEF TInv, TypeOK, RegistryTypeOK, Import, Exported, InUse
        <3> QED
            BY <1>2, <2>1, <2>2, <3>1 DEF TryImport, Goto, TInv, TypeOK, Holding, Armed
    <2>3. CASE Return(c, "idle") /\ UNCHANGED registry
        <3>1. RegistryTypeOK'
            BY <2>3 DEF TInv, TypeOK, RegistryTypeOK, registry, Exported, InUse
        <3> QED
            BY <1>2, <2>1, <2>3, <3>1, ReturnTyped DEF TryImport
    <2> QED
        BY <1>2, <2>2, <2>3 DEF TryImport
<1>3. CASE Get(c) \/ SendReply(c) \/ Run(c) \/ Arm(c) \/ GetHandle(c) \/ SessionOver(c)
           \/ Leave(c)
    <2>1. RegistryTypeOK' /\ HostTypeOK'
        BY <1>3 DEF Get, SendReply, Run, Arm, GetHandle, SessionOver, Leave, TInv, TypeOK,
           RegistryTypeOK, HostTypeOK, registry, host, Exported, InUse
    <2>2. UNCHANGED <<want, idx, web>>
        BY <1>3 DEF Get, SendReply, Run, Arm, GetHandle, SessionOver, Leave
    <2>3. info' \in [Conns -> Devices \cup {NoDevice}]
        BY <1>3 DEF Get, SendReply, Run, Arm, GetHandle, SessionOver, Leave, TInv, TypeOK,
           RegistryTypeOK, Holding
    <2>4. sdev' \in [Conns -> Devices \cup {NoDevice}]
        <3>1. CASE Arm(c) /\ InUse(eng[c])
            <4>1. eng[c] \in Entries
                BY <1>3, <3>1 DEF Arm, TInv, Armed
            <4> QED
                BY <3>1, <4>1 DEF Arm, TInv, TypeOK, RegistryTypeOK
        <3>2. CASE ~(Arm(c) /\ InUse(eng[c]))
            BY <1>3, <3>2 DEF Get, SendReply, Run, Arm, GetHandle, SessionOver, Leave, TInv,
               TypeOK
        <3> QED
            BY <3>1, <3>2
    <2>5. eng' \in [Conns -> Entries \cup {NoEntry}]
        BY <1>3 DEF Get, SendReply, Run, Arm, GetHandle, SessionOver, Leave, TInv, TypeOK
    <2>6. /\ cpc' \in [Conns -> {"idle", "import", "get", "undo", "reply", "stale",
                          "claim", "refuse", "run", "arm", "handle", "session",
                          "unclaim", "release", "done", "closed"}]
          /\ \A k \in Conns : cpc'[k] \in Holding \cup {"import"} => idx[k] \in Entries
        BY <1>3 DEF Get, SendReply, Run, Arm, GetHandle, SessionOver, Leave, TInv, TypeOK,
           Goto, Holding
    <2>7. \A k \in Conns : cpc'[k] = "arm" => eng'[k] \in Entries
        BY <1>3 DEF Get, SendReply, Run, Arm, GetHandle, SessionOver, Leave, TInv, TypeOK,
           Goto, Armed
    <2> QED
        BY <2>1, <2>2, <2>3, <2>4, <2>5, <2>6, <2>7 DEF TInv, TypeOK, Armed
<1>4. CASE ReleaseStale(c) \/ Claim(c) \/ Unclaim(c)
    <2>1. Apart /\ UNCHANGED owner
        BY <1>4, TaskApart DEF ReleaseStale, Claim, Unclaim, registry, Task
    <2>2. RegistryTypeOK' /\ HostTypeOK'
        BY <2>1 DEF Apart, TInv, TypeOK, RegistryTypeOK, HostTypeOK, Exported, InUse
    <2>3. /\ cpc' \in {[cpc EXCEPT ![c] = label] :
                          label \in {"claim", "run", "refuse", "release"}}
          /\ cpc[c] \in {"stale", "claim", "unclaim"}
          /\ UNCHANGED <<want, idx, info, eng, sdev, web>>
        BY <1>4 DEF ReleaseStale, Claim, Unclaim, Goto
    <2> QED
        BY <2>2, <2>3 DEF TInv, TypeOK, Holding, Armed
<1>5. CASE Refuse(c) \/ ReleaseEntry(c)
    <2>1. RegistryTypeOK' /\ HostTypeOK'
        BY <1>5, ReleaseTyped DEF Refuse, ReleaseEntry, TInv, TypeOK, HostTypeOK, host
    <2> QED
        BY <1>5, <2>1, ReturnTyped DEF Refuse, ReleaseEntry
<1>6. CASE Done(c)
    <2>1. RegistryTypeOK'
        BY <1>6 DEF Done, ReleaseByIp, TInv, TypeOK, RegistryTypeOK, Exported, InUse
    <2> QED
        BY <1>6, <2>1 DEF Done, Goto, TInv, TypeOK, HostTypeOK, host, Holding, Armed
<1> QED
    BY <1>1, <1>2, <1>3, <1>4, <1>5, <1>6 DEF Task

\* The class driver: a device gets an entry with no owner, and leaves none behind.
LEMMA HostTyped ==
    ASSUME HInv, TInv, ClassDriver \/ Bus, UNCHANGED <<conns, web>>
    PROVE  TInv'
<1>1. RegistryTypeOK'
    <2>1. CASE NewAdd
        <3>1. PICK i \in Entries : /\ dev' = [dev EXCEPT ![i] = mdev]
                                   /\ owner' = [owner EXCEPT ![i] = NoClient]
            BY <2>1 DEF NewAdd, Add
        <3>2. mdev \in Devices
            BY <2>1 DEF NewAdd, HInv
        <3> QED
            BY <3>1, <3>2 DEF TInv, TypeOK, RegistryTypeOK, Exported, InUse
    <2>2. ASSUME NEW d \in Devices, GoneRemove(d) PROVE RegistryTypeOK'
        BY <2>2 DEF GoneRemove, Remove, TInv, TypeOK, RegistryTypeOK, Exported, InUse
    <2>3. CASE UNCHANGED registry
        BY <2>3 DEF TInv, TypeOK, RegistryTypeOK, registry, Exported, InUse
    <2>4. \/ NewAdd \/ UNCHANGED registry
          \/ \E d \in Devices : GoneRemove(d)
        BY DEF ClassDriver, Bus, NewRefused, NewTracked, GoneClose, GoneUntrack,
           PlugIn, Unplug
    <2> QED
        BY <2>1, <2>2, <2>3, <2>4
<1>2. HostTypeOK'
    <2>1. mdev' \in Devices \cup {NoDevice}
        BY DEF ClassDriver, Bus, NewRefused, NewTracked, NewAdd, GoneRemove, GoneClose,
           GoneUntrack, PlugIn, Unplug, TInv, TypeOK, HostTypeOK
    <2>2. HInv'
        BY HostKeeps
    <2> QED
        BY <2>1, <2>2 DEF HInv, HostTypeOK
<1> QED
    BY <1>1, <1>2 DEF TInv, TypeOK, Armed, conns

LEMMA NextTInv ==
    ASSUME Devices # {}
    PROVE  HInv /\ TInv /\ [Next]_vars => TInv'
<1> SUFFICES ASSUME HInv, TInv, [Next]_vars PROVE TInv'
    OBVIOUS
<1>1. CASE \/ \E i \in Entries : WebGet(i)
           \/ Terminated \/ UNCHANGED vars
    BY <1>1 DEF WebGet, Terminated, vars, registry, host, conns, TInv, TypeOK, Armed,
       RegistryTypeOK, HostTypeOK, Exported, InUse
<1>2. CASE WebRelease
    <2>1. RegistryTypeOK'
        BY <1>2, ReleaseTyped DEF WebRelease, TInv, TypeOK
    <2> QED
        BY <1>2, <2>1 DEF WebRelease, host, conns, TInv, TypeOK, HostTypeOK, Armed
<1> QED
    BY <1>1, <1>2, TaskTyped, HostTyped DEF Next

\* The types of the registry, the class driver and the connections, and that no
\* entry is exported without a device, whoever removes, imports and releases.
THEOREM ConnectionTyped ==
    ASSUME Devices # {}
    PROVE  Spec => []TypeOK
<1>1. TInv => TypeOK
    BY DEF TInv
<1> QED
    BY <1>1, InitTInv, NextTInv, InitHInv, NextHInv, PTL DEF Spec
--------------------------------------------------------------------------------
(* Exports and claims *)

LEMMA InitOInv == Init => OInv
BY DEF Init, RegistryInit, HostInit, OInv, Exported

\* An entry that is released, or not touched, stays answered for.
LEMMA TaskOwner ==
    ASSUME HInv, OInv, NEW c \in Conns, Task(c)
    PROVE  /\ owner' \in [Entries -> Clients \cup {NoClient}]
           /\ cpc' = [k \in Conns |-> cpc'[k]]
           /\ idx' = [k \in Conns |-> idx'[k]]
           /\ info' = [k \in Conns |-> info'[k]]
           /\ \A i \in Entries : Exported(i)' =>
                 \E k \in Conns : /\ Ip[k] = owner'[i] /\ idx'[k] = i
                                  /\ cpc'[k] \in Holding
<1>1. CASE LookUp(c) \/ Leave(c)
    BY <1>1 DEF LookUp, Leave, Goto, OInv, Exported, Holding, registry
<1>2. CASE Get(c) \/ SendReply(c) \/ ReleaseStale(c) \/ Claim(c) \/ Run(c) \/ Arm(c)
           \/ GetHandle(c) \/ SessionOver(c) \/ Unclaim(c)
    BY <1>2 DEF Get, SendReply, ReleaseStale, Claim, Run, Arm, GetHandle, SessionOver,
                Unclaim, Goto, OInv, Exported, Holding, registry
<1>3. CASE TryImport(c)
    BY <1>3 DEF TryImport, Import, Return, Goto, OInv, Exported, Holding, registry
<1>4. CASE Refuse(c) \/ ReleaseEntry(c)
    <2>1. /\ owner' = [owner EXCEPT ![idx[c]] = NoClient]
          /\ cpc' \in {[cpc EXCEPT ![c] = "idle"], [cpc EXCEPT ![c] = "done"]}
          /\ idx' = [idx EXCEPT ![c] = NoEntry]
          /\ info' = [info EXCEPT ![c] = NoDevice]
        BY <1>4 DEF Refuse, ReleaseEntry, Release, Return, Goto
    <2>2. \A k \in Conns \ {c} : cpc'[k] = cpc[k] /\ idx'[k] = idx[k]
        BY <2>1 DEF OInv
    <2>3. \A i \in Entries : Exported(i)' => i # idx[c] /\ owner'[i] = owner[i]
        BY <2>1 DEF OInv, Exported
    <2>4. owner' \in [Entries -> Clients \cup {NoClient}]
        BY <2>1 DEF OInv
    <2>5. /\ cpc' = [k \in Conns |-> cpc'[k]]
          /\ idx' = [k \in Conns |-> idx'[k]]
          /\ info' = [k \in Conns |-> info'[k]]
        BY <2>1 DEF OInv
    <2> QED
        BY <2>2, <2>3, <2>4, <2>5 DEF OInv, Exported
<1>5. CASE Done(c)
    <2>1. \A i \in Entries : Exported(i)' => owner[i] # Ip[c] /\ owner'[i] = owner[i]
        BY <1>5 DEF Done, ReleaseByIp, Exported
    <2>2. /\ owner' \in [Entries -> Clients \cup {NoClient}]
          /\ UNCHANGED <<idx, info>> /\ cpc' = [cpc EXCEPT ![c] = "closed"]
        BY <1>5 DEF Done, ReleaseByIp, Goto, OInv
    <2>3. /\ cpc' = [k \in Conns |-> cpc'[k]]
          /\ \A k \in Conns \ {c} : cpc'[k] = cpc[k]
        BY <2>2 DEF OInv
    <2>4. \A i \in Entries : Exported(i)' =>
             \E k \in Conns : Ip[k] = owner'[i] /\ idx[k] = i /\ cpc'[k] \in Holding
        BY <2>1, <2>3 DEF OInv, Exported
    <2> QED
        BY <2>2, <2>3, <2>4 DEF OInv
<1> QED
    BY <1>1, <1>2, <1>3, <1>4, <1>5 DEF Task

\* A claim that stays has its connection, or a release that failed.
LEMMA TaskClaims ==
    ASSUME HInv, OInv, NEW c \in Conns, Task(c)
    PROVE  \A d \in Devices \ kept' : claims'[d] # "none" /\ Tracked(d)' =>
              \E k \in Conns : info'[k] = d /\ cpc'[k] \in Working
<1>1. CASE \/ LookUp(c) \/ TryImport(c) \/ Get(c) \/ SendReply(c) \/ Refuse(c) \/ Run(c)
           \/ Arm(c) \/ GetHandle(c) \/ SessionOver(c) \/ ReleaseEntry(c) \/ Leave(c)
           \/ Done(c)
           \/ Claim(c) /\ UNCHANGED <<claims, kept>>
    <2>1. UNCHANGED <<claims, kept, tracked>>
        BY <1>1 DEF LookUp, TryImport, Get, SendReply, Refuse, Run, Arm, GetHandle,
                    SessionOver, ReleaseEntry, Leave, Done, Claim, host
    <2>2. \A k \in Conns : cpc[k] \in Working =>
             cpc'[k] \in Working /\ info'[k] = info[k]
        BY <1>1 DEF LookUp, TryImport, Get, SendReply, Refuse, Run, Arm, GetHandle,
                    SessionOver, ReleaseEntry, Leave, Done, Claim, Return, Goto, OInv,
                    Working
    <2> QED
        BY <2>1, <2>2 DEF OInv, Tracked
<1>2. CASE Claim(c) /\ ClaimInterfaces(info[c])
    <2>1. /\ UNCHANGED <<tracked, info>>
          /\ cpc[c] = "claim" /\ cpc'[c] \in {"run", "refuse"}
          /\ \A k \in Conns \ {c} : cpc'[k] = cpc[k]
        BY <1>2 DEF Claim, Goto, OInv
    <2>2. cpc'[c] = "run" \/ UNCHANGED <<claims, kept>>
        BY <1>2 DEF Claim, Goto, OInv
    <2> QED
        BY <1>2, <2>1, <2>2, ClaimsMove DEF OInv, Tracked, Working
<1>3. CASE ReleaseStale(c) \/ Unclaim(c)
    <2>1. /\ UNCHANGED <<tracked, info>> /\ ReleaseInterfaces(info[c])
          /\ \A k \in Conns \ {c} : cpc'[k] = cpc[k]
        BY <1>3 DEF ReleaseStale, Unclaim, Goto, OInv
    <2>2. \A d \in Devices \ kept' : claims'[d] # "none" /\ Tracked(d) => d # info[c]
        BY <2>1 DEF ReleaseInterfaces, HInv
    <2> QED
        BY <2>1, <2>2, ClaimsMove DEF OInv, Tracked
<1> QED
    BY <1>1, <1>2, <1>3 DEF Task, Claim

\* The class driver exports nothing and claims nothing, and a device it begins to
\* track is not claimed.
LEMMA HostOInv ==
    ASSUME HInv, OInv, ClassDriver \/ Bus, UNCHANGED <<conns, web>>
    PROVE  OInv'
<1>1. /\ UNCHANGED <<cpc, idx, info, claims>>
      /\ \A d \in kept : Tracked(d)' => d \in kept'
    BY DEF ClassDriver, NewRefused, NewTracked, GoneRemove, NewAdd, GoneClose,
           GoneUntrack, Bus, PlugIn, Unplug, Tracked, conns
<1>2. \A d \in Devices : claims[d] # "none" /\ Tracked(d)' => Tracked(d)
    BY DEF ClassDriver, NewRefused, NewTracked, GoneRemove, NewAdd, GoneClose,
           GoneUntrack, Bus, PlugIn, Unplug, Tracked, HInv
<1>3. /\ owner' \in [Entries -> Clients \cup {NoClient}]
      /\ \A i \in Entries : Exported(i)' => owner'[i] = owner[i]
    BY DEF ClassDriver, NewRefused, NewTracked, GoneRemove, NewAdd, GoneClose,
           GoneUntrack, Bus, PlugIn, Unplug, Add, Remove, registry, OInv, Exported
<1> QED
    BY <1>1, <1>2, <1>3 DEF OInv, Exported

LEMMA NextOInv == HInv /\ OInv /\ [Next]_vars => OInv'
<1> SUFFICES ASSUME HInv, OInv, [Next]_vars PROVE OInv'
    OBVIOUS
<1>1. ASSUME NEW c \in Conns, Task(c) PROVE OInv'
    BY <1>1, TaskOwner, TaskClaims DEF OInv
<1>2. CASE \/ \E i \in Entries : WebGet(i)
           \/ Terminated \/ UNCHANGED vars
    BY <1>2 DEF WebGet, Terminated, vars, registry, host, conns, OInv, Exported, Tracked
<1>3. CASE WebRelease
    <2>1. /\ owner' \in [Entries -> Clients \cup {NoClient}]
          /\ \A i \in Entries : Exported(i)' => owner'[i] = owner[i]
        BY <1>3 DEF WebRelease, Release, OInv, Exported
    <2>2. UNCHANGED <<cpc, idx, info, claims, kept, tracked>>
        BY <1>3 DEF WebRelease, host, conns
    <2> QED
        BY <2>1, <2>2 DEF OInv, Exported, Tracked
<1> QED
    BY <1>1, <1>2, <1>3, HostOInv DEF Next

\* An export never outlives its client's connections: no way out of an import or a
\* session forgets it, for any number of clients, devices and entries.
THEOREM ExportsEnd == Spec => []NoOrphanExport
<1>1. OInv => NoOrphanExport
    BY DEF OInv, NoOrphanExport, Holding
<1> QED
    BY <1>1, InitHInv, NextHInv, InitOInv, NextOInv, PTL DEF Spec

\* Nor does a claim of a device that can still be found, unless a release failed.
THEOREM ClaimsEnd == Spec => []NoOrphanClaim
<1>1. OInv => NoOrphanClaim
    BY DEF OInv, NoOrphanClaim, Working
<1> QED
    BY <1>1, InitHInv, NextHInv, InitOInv, NextOInv, PTL DEF Spec
--------------------------------------------------------------------------------
(* Exclusive sessions *)

\* What import_disciplined.cfg assumes of its constants
Discipline == /\ \A c, k \in Conns : Ip[c] = Ip[k] => c = k
              /\ WebUi = FALSE /\ Reuse = FALSE

\* No device will be added: one has left.
Frozen == mpc # "add" /\ \E d \in Devices : bus[d] \in {"away", "over"}

\* The states of a device that has its port to itself
Attached(d) == bus[d] \in {"in", "known", "away"}

\* Where a connection knows the device it serves
Knowing == {"reply", "stale", "claim", "refuse", "run", "arm", "handle", "session",
            "unclaim"}
\* Where the transfer loop has a copy of the entry
Serving == {"handle", "session"}

\* The entry a connection looked up holds the path it wants, until it is empty for
\* good.
Placed(c) == cpc[c] \in Holding \cup {"import"} =>
    /\ idx[c] \in Entries
    /\ \A i \in Entries : InUse(i) /\ Path[dev[i]] = want[c] => i = idx[c]
    /\ InUse(idx[c]) => Path[dev[idx[c]]] = want[c]
    /\ ~InUse(idx[c]) => Frozen

\* It is exported to the connection, and holds the device the connection serves.
Owned(c) == /\ cpc[c] \in Holding /\ InUse(idx[c]) => owner[idx[c]] = Ip[c]
            /\ cpc[c] \in Knowing /\ InUse(idx[c]) => dev[idx[c]] = info[c]
            /\ cpc[c] \in Knowing => /\ info[c] \in Devices /\ Path[info[c]] = want[c]
                                     /\ bus[info[c]] \in {"known", "away", "over"}

Served(c) == /\ cpc[c] = "arm" => eng[c] = idx[c]
             /\ cpc[c] \in Serving => sdev[c] = info[c]

\* No two serve one device.
Alone == \A c, k \in Conns :
            c # k /\ cpc[c] \in Knowing /\ cpc[k] \in Knowing => info[c] # info[k]

DInv == /\ \A d, e \in Devices : Path[d] = Path[e] /\ Attached(d) /\ Attached(e) => d = e
        /\ want = [c \in Conns |-> want[c]] /\ sdev = [c \in Conns |-> sdev[c]]
        /\ eng = [c \in Conns |-> eng[c]]
        /\ web = NoEntry
        /\ \A c \in Conns : Placed(c) /\ Owned(c) /\ Served(c)
        /\ Alone

LEMMA InitDInv == Init => DInv
BY DEF Init, RegistryInit, HostInit, DInv, Placed, Owned, Served, Alone, Attached,
       Holding, Knowing, Serving

\* Two entries do not hold one path.
LEMMA OnePath ==
    ASSUME HInv, DInv, NEW i \in Entries, NEW j \in Entries,
           InUse(i), InUse(j), Path[dev[i]] = Path[dev[j]]
    PROVE  i = j
<1>1. /\ dev[i] \in Devices /\ dev[j] \in Devices
      /\ Attached(dev[i]) /\ Attached(dev[j])
    BY DEF HInv, Attached
<1>2. dev[i] = dev[j]
    BY <1>1 DEF DInv
<1> QED
    BY <1>2 DEF HInv

\* What a task does to the places of the others: nothing.
LEMMA OnlyOwn ==
    ASSUME HInv, OInv, DInv, NEW c \in Conns, Task(c)
    PROVE  /\ \A k \in Conns \ {c} : /\ cpc'[k] = cpc[k] /\ want'[k] = want[k]
                                     /\ idx'[k] = idx[k] /\ info'[k] = info[k]
                                     /\ eng'[k] = eng[k] /\ sdev'[k] = sdev[k]
           /\ want' = [k \in Conns |-> want'[k]] /\ sdev' = [k \in Conns |-> sdev'[k]]
           /\ eng' = [k \in Conns |-> eng'[k]]
           /\ web' = NoEntry
<1>1. CASE LookUp(c) \/ Get(c) \/ SendReply(c) \/ ReleaseStale(c) \/ Claim(c) \/ Run(c)
           \/ Arm(c) \/ GetHandle(c) \/ SessionOver(c) \/ Unclaim(c) \/ Leave(c) \/ Done(c)
    BY <1>1 DEF LookUp, Get, SendReply, ReleaseStale, Claim, Run, Arm, GetHandle,
                SessionOver, Unclaim, Leave, Done, Goto, OInv, DInv
<1>2. CASE TryImport(c) \/ Refuse(c) \/ ReleaseEntry(c)
    BY <1>2 DEF TryImport, Refuse, ReleaseEntry, Return, Goto, OInv, DInv
<1> QED
    BY <1>1, <1>2 DEF Task

\* A task that is not looking a path up keeps the one it has, or lets go.
LEMMA OwnPlace ==
    ASSUME HInv, OInv, DInv, NEW c \in Conns, Task(c), ~LookUp(c)
    PROVE  \/ cpc'[c] \notin Holding \cup {"import"}
           \/ /\ cpc[c] \in Holding \cup {"import"}
              /\ idx'[c] = idx[c] /\ want'[c] = want[c]
<1>1. CASE Get(c) \/ SendReply(c) \/ ReleaseStale(c) \/ Claim(c) \/ Run(c) \/ Arm(c)
           \/ GetHandle(c) \/ SessionOver(c) \/ Unclaim(c) \/ Leave(c) \/ Done(c)
    BY <1>1 DEF Get, SendReply, ReleaseStale, Claim, Run, Arm, GetHandle, SessionOver,
                Unclaim, Leave, Done, Goto, OInv, Holding
<1>2. CASE TryImport(c) \/ Refuse(c) \/ ReleaseEntry(c)
    BY <1>2 DEF TryImport, Refuse, ReleaseEntry, Return, Goto, OInv, Holding
<1> QED
    BY <1>1, <1>2 DEF Task

LEMMA TaskPlaced ==
    ASSUME HInv, OInv, DInv, NEW c \in Conns, Task(c), NEW k \in Conns
    PROVE  Placed(k)'
<1>1. UNCHANGED <<dev, bus, mpc>>
    BY TaskApart DEF Apart
<1>2. CASE k = c /\ LookUp(c)
    <2>1. PICK p \in Paths, i \in Entries :
             /\ Found(p, i)
             /\ want' = [want EXCEPT ![c] = p] /\ idx' = [idx EXCEPT ![c] = i]
        BY <1>2 DEF LookUp
    <2>2. want'[c] = p /\ idx'[c] = i
        BY <2>1 DEF OInv, DInv
    <2>3. InUse(i) /\ Path[dev[i]] = p
        BY <2>1 DEF Found
    <2>4. \A j \in Entries : InUse(j) /\ Path[dev[j]] = p => j = i
        BY <2>3, OnePath
    <2> QED
        BY <1>1, <1>2, <2>2, <2>3, <2>4 DEF Placed, InUse
<1>3. CASE k # c \/ ~LookUp(c)
    <2>1. \/ cpc'[k] \notin Holding \cup {"import"}
          \/ /\ cpc[k] \in Holding \cup {"import"}
             /\ idx'[k] = idx[k] /\ want'[k] = want[k]
        BY <1>3, OnlyOwn, OwnPlace
    <2>2. Placed(k)
        BY DEF DInv
    <2> QED
        BY <1>1, <2>1, <2>2 DEF Placed, InUse, Frozen
<1> QED
    BY <1>2, <1>3

\* No task takes an entry from another connection that holds it.
LEMMA OwnerStays ==
    ASSUME Discipline, HInv, OInv, DInv, NEW c \in Conns, Task(c), NEW k \in Conns, k # c,
           cpc[k] \in Holding, InUse(idx[k])
    PROVE  owner'[idx[k]] = Ip[k]
<1>1. idx[k] \in Entries /\ owner[idx[k]] = Ip[k] /\ Exported(idx[k]) /\ Ip[c] # Ip[k]
    BY DEF Discipline, DInv, Placed, Owned, Exported
<1>2. CASE LookUp(c) \/ Get(c) \/ SendReply(c) \/ ReleaseStale(c) \/ Claim(c) \/ Run(c)
           \/ Arm(c) \/ GetHandle(c) \/ SessionOver(c) \/ Unclaim(c) \/ Leave(c)
    BY <1>1, <1>2 DEF LookUp, Get, SendReply, ReleaseStale, Claim, Run, Arm, GetHandle,
                      SessionOver, Unclaim, Leave, registry
<1>3. CASE TryImport(c)
    BY <1>1, <1>3 DEF TryImport, Import, OInv, registry
<1>4. CASE Refuse(c) \/ ReleaseEntry(c)
    <2>1. cpc[c] \in Holding /\ owner' = [owner EXCEPT ![idx[c]] = NoClient]
        BY <1>4 DEF Refuse, ReleaseEntry, Release, Holding
    <2>2. idx[c] # idx[k]
        BY <1>1, <2>1 DEF DInv, Owned
    <2> QED
        BY <1>1, <2>1, <2>2 DEF OInv
<1>5. CASE Done(c)
    BY <1>1, <1>5 DEF Done, ReleaseByIp
<1> QED
    BY <1>2, <1>3, <1>4, <1>5 DEF Task

LEMMA TaskOwned ==
    ASSUME Discipline, HInv, OInv, DInv, NEW c \in Conns, Task(c), NEW k \in Conns
    PROVE  Owned(k)'
<1>1. UNCHANGED <<dev, bus>>
    BY TaskApart DEF Apart
<1>2. Owned(k) /\ Placed(k)
    BY DEF DInv
<1>3. CASE k # c
    BY <1>1, <1>2, <1>3, OnlyOwn, OwnerStays DEF Owned, InUse
<1>4. CASE k = c
    <2>1. CASE LookUp(c) \/ Leave(c) \/ Done(c) \/ Refuse(c) \/ ReleaseEntry(c)
        <3>1. cpc'[c] \notin Holding
            BY <2>1 DEF LookUp, Leave, Done, Refuse, ReleaseEntry, Return, Goto, OInv,
                        Holding
        <3> QED
            BY <1>4, <3>1 DEF Owned, Holding, Knowing
    <2>2. CASE TryImport(c)
        <3>1. cpc'[c] \notin Knowing
            BY <2>2 DEF TryImport, Return, Goto, OInv, Knowing
        <3>2. cpc'[c] \in Holding => owner'[idx'[c]] = Ip[c]
            BY <1>2, <1>4, <2>2 DEF TryImport, Import, Return, Goto, OInv, Holding, Placed
        <3> QED
            BY <1>4, <3>1, <3>2 DEF Owned
    <2>3. CASE Get(c)
        <3>1. /\ cpc[c] \in Holding
              /\ UNCHANGED <<owner, idx, want>>
              /\ cpc'[c] \in Knowing => InUse(idx[c]) /\ info'[c] = dev[idx[c]]
            BY <2>3 DEF Get, Goto, OInv, Holding, Knowing, registry
        <3>2. InUse(idx[c]) => dev[idx[c]] \in tracked
            BY <1>2, <1>4, <3>1 DEF Placed, HInv
        <3> QED
            BY <1>1, <1>2, <1>4, <3>1, <3>2 DEF Owned, Placed, HInv, InUse
    <2>4. CASE SendReply(c) \/ ReleaseStale(c) \/ Claim(c) \/ Run(c) \/ Arm(c)
               \/ GetHandle(c) \/ SessionOver(c) \/ Unclaim(c)
        <3>1. /\ cpc[c] \in Holding /\ cpc[c] \in Knowing
              /\ UNCHANGED <<owner, idx, want, info>>
            BY <2>4 DEF SendReply, ReleaseStale, Claim, Run, Arm, GetHandle, SessionOver,
                        Unclaim, Holding, Knowing, registry
        <3> QED
            BY <1>1, <1>2, <1>4, <3>1 DEF Owned, InUse
    <2> QED
        BY <2>1, <2>2, <2>3, <2>4 DEF Task
<1> QED
    BY <1>3, <1>4

\* A device that a connection comes to serve is not served already.
LEMMA TaskAlone ==
    ASSUME Discipline, HInv, OInv, DInv, NEW c \in Conns, Task(c)
    PROVE  Alone'
<1>1. CASE Get(c)
    <2>1. SUFFICES ASSUME NEW k \in Conns \ {c}, cpc[k] \in Knowing, cpc'[c] \in Knowing
                   PROVE  info[k] # info'[c]
        BY OnlyOwn DEF DInv, Alone
    <2>2. /\ cpc[c] \in Holding /\ cpc[k] \in Holding
          /\ InUse(idx[c]) /\ info'[c] = dev[idx[c]]
        BY <1>1, <2>1 DEF Get, Goto, OInv, Holding, Knowing
    <2>3. idx[c] \in Entries /\ Path[info[k]] = want[k]
        BY <2>1, <2>2 DEF DInv, Placed, Owned
    <2>4. ASSUME info[k] = dev[idx[c]] PROVE FALSE
        <3>1. idx[c] = idx[k]
            BY <2>2, <2>3, <2>4 DEF DInv, Placed
        <3>2. owner[idx[c]] = Ip[c] /\ owner[idx[k]] = Ip[k]
            BY <2>2, <3>1 DEF DInv, Owned
        <3> QED
            BY <3>1, <3>2 DEF Discipline
    <2> QED
        BY <2>2, <2>4
<1>2. CASE ~Get(c)
    <2>1. cpc'[c] \in Knowing => cpc[c] \in Knowing /\ info'[c] = info[c]
        <3>1. CASE LookUp(c) \/ SendReply(c) \/ ReleaseStale(c) \/ Claim(c) \/ Run(c)
                   \/ Arm(c) \/ GetHandle(c) \/ SessionOver(c) \/ Unclaim(c) \/ Leave(c)
                   \/ Done(c)
            BY <3>1 DEF LookUp, SendReply, ReleaseStale, Claim, Run, Arm, GetHandle,
                        SessionOver, Unclaim, Leave, Done, Goto, OInv, Knowing
        <3>2. CASE TryImport(c) \/ Refuse(c) \/ ReleaseEntry(c)
            BY <3>2 DEF TryImport, Refuse, ReleaseEntry, Return, Goto, OInv, Knowing
        <3> QED
            BY <1>2, <3>1, <3>2 DEF Task
    <2> QED
        BY <2>1, OnlyOwn DEF DInv, Alone
<1> QED
    BY <1>1, <1>2

LEMMA TaskServed ==
    ASSUME HInv, OInv, DInv, NEW c \in Conns, Task(c), NEW k \in Conns
    PROVE  Served(k)'
<1>1. Served(k) /\ Owned(k) /\ Placed(k)
    BY DEF DInv
<1>2. CASE k # c
    BY <1>1, <1>2, OnlyOwn DEF Served
<1>3. CASE k = c
    <2>1. CASE LookUp(c) \/ TryImport(c) \/ Get(c) \/ SendReply(c) \/ ReleaseStale(c)
               \/ Claim(c) \/ Refuse(c) \/ SessionOver(c) \/ Unclaim(c) \/ ReleaseEntry(c)
               \/ Leave(c) \/ Done(c)
        <3>1. cpc'[c] \notin Serving \cup {"arm"}
            BY <2>1 DEF LookUp, TryImport, Get, SendReply, ReleaseStale, Claim, Refuse,
                        SessionOver, Unclaim, ReleaseEntry, Leave, Done, Return, Goto,
                        OInv, Serving
        <3> QED
            BY <1>3, <3>1 DEF Served
    <2>2. CASE Run(c)
        <3>1. cpc'[c] \notin Serving /\ UNCHANGED idx
            BY <2>2 DEF Run, Goto, OInv, Serving
        <3>2. cpc'[c] = "arm" => eng'[c] = idx[c]
            BY <1>1, <1>3, <2>2 DEF Run, Found, Goto, OInv, DInv, Placed, Holding
        <3> QED
            BY <1>3, <3>1, <3>2 DEF Served
    <2>3. CASE Arm(c)
        <3>1. cpc[c] = "arm" /\ cpc'[c] # "arm" /\ UNCHANGED info
            BY <2>3 DEF Arm, Goto, OInv
        <3>2. cpc'[c] \in Serving => InUse(eng[c]) /\ sdev'[c] = dev[eng[c]]
            BY <2>3 DEF Arm, Goto, OInv, DInv, Serving
        <3> QED
            BY <1>1, <1>3, <3>1, <3>2 DEF Served, Owned, Knowing
    <2>4. CASE GetHandle(c)
        BY <1>1, <1>3, <2>4 DEF GetHandle, Goto, OInv, DInv, Served, Serving
    <2> QED
        BY <2>1, <2>2, <2>3, <2>4 DEF Task
<1> QED
    BY <1>2, <1>3

LEMMA TaskDInv ==
    ASSUME Discipline, HInv, OInv, DInv, NEW c \in Conns, Task(c)
    PROVE  DInv'
<1>1. UNCHANGED bus
    BY TaskApart DEF Apart
<1> QED
    BY <1>1, OnlyOwn, TaskPlaced, TaskOwned, TaskServed, TaskAlone DEF DInv, Attached

\* The class driver empties the entries a connection looked up, for good; the one it
\* fills has a path that no connection waits for.
LEMMA HostPlaced ==
    ASSUME Discipline, HInv, OInv, DInv, ClassDriver \/ Bus, UNCHANGED <<conns, web>>,
           NEW c \in Conns
    PROVE  Placed(c)'
<1>1. Placed(c) /\ UNCHANGED <<cpc, idx, want>>
    BY DEF DInv, conns
<1>2. ASSUME NEW d \in Devices, PlugIn(d) \/ NewRefused(d) PROVE Placed(c)'
    BY <1>1, <1>2 DEF PlugIn, NewRefused, HInv, Placed, Frozen, InUse, registry
<1>3. ASSUME NEW d \in Devices, Unplug(d) PROVE Placed(c)'
    BY <1>1, <1>3 DEF Unplug, HInv, Placed, Frozen, InUse, registry
<1>4. ASSUME NEW d \in Devices, NewTracked(d) PROVE Placed(c)'
    <2>1. ~Frozen /\ UNCHANGED dev
        BY <1>4 DEF NewTracked, Discipline, Frozen, registry
    <2> QED
        BY <1>1, <2>1 DEF Placed, InUse
<1>5. ASSUME NEW d \in Devices, GoneRemove(d) PROVE Placed(c)'
    <2>1. Frozen'
        BY <1>5 DEF GoneRemove, Frozen
    <2>2. \A i \in Entries : InUse(i)' => InUse(i) /\ dev'[i] = dev[i]
        BY <1>5 DEF GoneRemove, Remove, InUse
    <2> QED
        BY <1>1, <2>1, <2>2 DEF Placed
<1>6. CASE GoneClose \/ GoneUntrack
    <2>1. UNCHANGED dev
        BY <1>6 DEF GoneClose, GoneUntrack, registry
    <2>2. Frozen'
        BY <1>6 DEF GoneClose, GoneUntrack, HInv, Frozen
    <2> QED
        BY <1>1, <2>1, <2>2 DEF Placed, InUse
<1>7. CASE NewAdd
    <2> SUFFICES ASSUME cpc[c] \in Holding \cup {"import"} PROVE Placed(c)'
        BY <1>1 DEF Placed
    <2>1. PICK i \in Entries : ~InUse(i) /\ dev' = [dev EXCEPT ![i] = mdev]
        BY <1>7 DEF NewAdd, Add
    <2>2. InUse(idx[c]) /\ idx[c] \in Entries
        BY <1>1, <1>7 DEF Placed, Frozen, NewAdd
    <2>3. mdev \in tracked /\ mdev # dev[idx[c]]
        BY <1>7, <2>2 DEF HInv, NewAdd
    <2>4. Path[mdev] # want[c]
        <3>1. /\ mdev \in Devices /\ dev[idx[c]] \in Devices
              /\ Attached(mdev) /\ Attached(dev[idx[c]])
            BY <2>2, <2>3 DEF HInv, Attached
        <3>2. Path[dev[idx[c]]] = want[c]
            BY <1>1, <2>2 DEF Placed
        <3> QED
            BY <2>3, <3>1, <3>2 DEF DInv
    <2>5. \A j \in Entries : dev'[j] = IF j = i THEN mdev ELSE dev[j]
        BY <2>1 DEF HInv
    <2>6. i # idx[c]
        BY <2>1, <2>2
    <2> QED
        BY <1>1, <2>2, <2>4, <2>5, <2>6 DEF Placed, InUse
<1> QED
    BY <1>2, <1>3, <1>4, <1>5, <1>6, <1>7 DEF ClassDriver, Bus

\* An entry it empties is nobody's; the one it fills is not a connection's.
LEMMA HostOwned ==
    ASSUME Discipline, HInv, OInv, DInv, ClassDriver \/ Bus, UNCHANGED <<conns, web>>,
           NEW c \in Conns
    PROVE  Owned(c)'
<1>1. Placed(c) /\ Owned(c) /\ UNCHANGED <<cpc, idx, info, want>>
    BY DEF DInv, conns
<1>2. \A d \in Devices : bus[d] \in {"known", "away", "over"} =>
                            bus'[d] \in {"known", "away", "over"}
    BY DEF ClassDriver, NewRefused, NewTracked, GoneRemove, NewAdd, GoneClose,
           GoneUntrack, Bus, PlugIn, Unplug, HInv
<1>3. ASSUME cpc[c] \in Holding, NEW i \in Entries, i = idx[c], dev'[i] # NoDevice
      PROVE  InUse(i) /\ dev'[i] = dev[i] /\ owner'[i] = owner[i]
    <2>1. CASE NewAdd
        <3>1. PICK j \in Entries : /\ ~InUse(j)
                                   /\ dev' = [dev EXCEPT ![j] = mdev]
                                   /\ owner' = [owner EXCEPT ![j] = NoClient]
            BY <2>1 DEF NewAdd, Add
        <3>2. InUse(i)
            BY <1>1, <1>3, <2>1 DEF Placed, Frozen, NewAdd
        <3> QED
            BY <3>1, <3>2 DEF HInv, OInv
    <2>2. CASE \E d \in Devices : GoneRemove(d)
        BY <1>3, <2>2 DEF GoneRemove, Remove, InUse
    <2>3. CASE UNCHANGED registry
        BY <1>3, <2>3 DEF registry, InUse
    <2> QED
        BY <2>1, <2>2, <2>3 DEF ClassDriver, NewRefused, NewTracked, GoneClose,
                                GoneUntrack, Bus, PlugIn, Unplug
<1>4. cpc[c] \in Knowing => cpc[c] \in Holding
    BY DEF Knowing, Holding
<1> QED
    BY <1>1, <1>2, <1>3, <1>4 DEF Owned, Placed, InUse

\* Two devices of one port are not attached at a time.
LEMMA HostPorts ==
    ASSUME HInv, DInv, ClassDriver \/ Bus
    PROVE  \A d, e \in Devices :
              Path[d] = Path[e] /\ Attached(d)' /\ Attached(e)' => d = e
<1>1. ASSUME NEW d \in Devices, PlugIn(d)
      PROVE  \A a, e \in Devices :
                Path[a] = Path[e] /\ Attached(a)' /\ Attached(e)' => a = e
    BY <1>1 DEF PlugIn, HInv, DInv, Attached
<1>2. ASSUME ~\E d \in Devices : PlugIn(d), NEW d \in Devices, Attached(d)'
      PROVE  Attached(d)
    BY <1>2 DEF ClassDriver, NewRefused, NewTracked, GoneRemove, NewAdd, GoneClose,
                GoneUntrack, Bus, Unplug, HInv, Attached
<1> QED
    BY <1>1, <1>2 DEF DInv

LEMMA NextDInv ==
    ASSUME Discipline
    PROVE  HInv /\ OInv /\ DInv /\ [Next]_vars => DInv'
<1> SUFFICES ASSUME HInv, OInv, DInv, [Next]_vars PROVE DInv'
    OBVIOUS
<1>1. CASE (ClassDriver \/ Bus) /\ UNCHANGED <<conns, web>>
    <2>1. Alone' /\ UNCHANGED <<want, eng, sdev, web>>
        BY <1>1 DEF DInv, Alone, conns
    <2>2. /\ want' = [c \in Conns |-> want'[c]] /\ sdev' = [c \in Conns |-> sdev'[c]]
          /\ eng' = [c \in Conns |-> eng'[c]] /\ web' = NoEntry
        BY <2>1 DEF DInv
    <2>3. \A c \in Conns : Served(c)'
        BY <1>1 DEF DInv, Served, conns
    <2> QED
        BY <1>1, <2>1, <2>2, <2>3, HostPlaced, HostOwned, HostPorts DEF DInv
<1>2. CASE (\E i \in Entries : WebGet(i)) \/ WebRelease
    BY <1>2 DEF WebGet, WebRelease, Discipline, DInv
<1>3. CASE Terminated \/ UNCHANGED vars
    BY <1>3 DEF Terminated, vars, registry, host, conns, DInv, Placed, Owned, Served,
                Alone, Attached, Frozen, InUse, Tracked
<1> QED
    BY <1>1, <1>2, <1>3, TaskDInv DEF Next

\* Under the discipline no two clients forward URBs to one device, for any number of
\* clients, devices and entries.
THEOREM SessionsExclude ==
    ASSUME Discipline
    PROVE  Spec => []ExclusiveSession
<1>1. DInv => ExclusiveSession
    BY DEF DInv, Served, Alone, Knowing, Serving, ExclusiveSession, InSession
<1> QED
    BY <1>1, InitHInv, NextHInv, InitOInv, NextOInv, InitDInv, NextDInv, PTL DEF Spec

\* What the registry offers to the next client is free.
THEOREM OfferedIsFree ==
    ASSUME Discipline
    PROVE  Spec => []AvailableMeansFree
<1>1. DInv => AvailableMeansFree
    <2> SUFFICES ASSUME DInv, NEW i \in Entries, InUse(i), NEW c \in Conns, InSession(c),
                        sdev[c] = dev[i]
                 PROVE  Exported(i)
        BY DEF AvailableMeansFree
    <2>1. cpc[c] \in Holding /\ cpc[c] \in Knowing /\ sdev[c] = info[c]
        BY DEF InSession, Holding, Knowing, Serving, DInv, Served
    <2>2. Path[dev[i]] = want[c]
        BY <2>1 DEF DInv, Owned
    <2>3. i = idx[c]
        BY <2>1, <2>2 DEF DInv, Placed
    <2> QED
        BY <2>1, <2>3 DEF DInv, Owned, Exported
<1> QED
    BY <1>1, InitHInv, NextHInv, InitOInv, NextOInv, InitDInv, NextDInv, PTL DEF Spec

\* No import, no end of a session and no step of the class driver changes what is
\* claimed of the device of another session, for any number of clients and devices.
THEOREM ClaimsStay ==
    ASSUME Discipline
    PROVE  Spec => ClaimsUntouched
<1> DEFINE Claimed == {"run", "arm", "handle", "session"}
<1>1. ASSUME HInv, OInv, DInv, [Next]_vars, NEW c \in Conns, cpc[c] \in Claimed
      PROVE  claims'[info[c]] = claims[info[c]]
    <2>1. ASSUME NEW k \in Conns, ReleaseStale(k) \/ Claim(k) \/ Unclaim(k)
          PROVE  claims'[info[c]] = claims[info[c]]
        <3>1. cpc[k] \in Knowing /\ c # k /\ cpc[c] \in Knowing
            BY <1>1, <2>1 DEF ReleaseStale, Claim, Unclaim, Knowing
        <3>2. info[c] \in Devices \ {info[k]}
            BY <1>1, <3>1 DEF DInv, Alone, Owned
        <3>3. \/ UNCHANGED claims
              \/ ClaimInterfaces(info[k]) \/ ReleaseInterfaces(info[k])
            BY <2>1 DEF ReleaseStale, Claim, Unclaim
        <3> QED
            BY <1>1, <3>2, <3>3, ClaimsMove
    <2>2. ASSUME NEW k \in Conns, Task(k), ~(ReleaseStale(k) \/ Claim(k) \/ Unclaim(k))
          PROVE  UNCHANGED claims
        BY <2>2 DEF Task, LookUp, TryImport, Get, SendReply, Refuse, Run, Arm, GetHandle,
                    SessionOver, ReleaseEntry, Leave, Done, host
    <2>3. CASE ClassDriver \/ Bus
        BY <2>3 DEF ClassDriver, NewRefused, NewTracked, GoneRemove, NewAdd, GoneClose,
                    GoneUntrack, Bus, PlugIn, Unplug
    <2>4. CASE \/ \E i \in Entries : WebGet(i)
               \/ WebRelease \/ Terminated \/ UNCHANGED vars
        BY <2>4 DEF WebGet, WebRelease, Terminated, vars, host
    <2> QED
        BY <1>1, <2>1, <2>2, <2>3, <2>4 DEF Next
<1>2. HInv /\ OInv /\ DInv /\ [Next]_vars =>
         [\A c \in Conns : cpc[c] \in Claimed => claims'[info[c]] = claims[info[c]]]_vars
    BY <1>1
<1> QED
    BY <1>2, InitHInv, NextHInv, InitOInv, NextOInv, InitDInv, NextDInv, PTL
       DEF Spec, ClaimsUntouched
--------------------------------------------------------------------------------
(* An import is a lease: Connection implements DeviceLease under the discipline *)

\* The devices a registry offers, and the pairs of a client and the device exported
\* to it, as functions of the two arrays
OfferedOf(dv, ow) == {dv[i] : i \in {j \in Entries : dv[j] # NoDevice /\ ow[j] = NoClient}}
LeasesOf(dv, ow)  == {<<ow[i], dv[i]>> : i \in {j \in Entries : ow[j] # NoClient}}

\* No device is in two entries, and no entry is exported without one.
Sound(dv, ow) ==
    /\ dv \in [Entries -> Devices \cup {NoDevice}]
    /\ ow \in [Entries -> Clients \cup {NoClient}]
    /\ \A i \in Entries : ow[i] # NoClient => dv[i] # NoDevice
    /\ \A i, j \in Entries : dv[i] # NoDevice /\ dv[i] = dv[j] => i = j

\* An import takes one device from the offered ones to the leased.
LEMMA GrantMoves ==
    ASSUME NEW dv, NEW ow, Sound(dv, ow), NEW i \in Entries, NEW x \in Clients,
           dv[i] # NoDevice, ow[i] = NoClient
    PROVE  /\ dv[i] \in OfferedOf(dv, ow)
           /\ OfferedOf(dv, [ow EXCEPT ![i] = x]) = OfferedOf(dv, ow) \ {dv[i]}
           /\ LeasesOf(dv, [ow EXCEPT ![i] = x]) = LeasesOf(dv, ow) \cup {<<x, dv[i]>>}
<1> DEFINE ow2 == [ow EXCEPT ![i] = x]
<1>1. \A j \in Entries : ow2[j] = IF j = i THEN x ELSE ow[j]
    BY DEF Sound
<1>2. x # NoClient
    OBVIOUS
<1>3. ASSUME NEW d
      PROVE  d \in OfferedOf(dv, ow2) <=> d \in OfferedOf(dv, ow) \ {dv[i]}
    BY <1>1, <1>2 DEF Sound, OfferedOf
<1>4. ASSUME NEW l
      PROVE  l \in LeasesOf(dv, ow2) <=> l \in LeasesOf(dv, ow) \cup {<<x, dv[i]>>}
    BY <1>1, <1>2 DEF LeasesOf
<1>5. dv[i] \in OfferedOf(dv, ow)
    BY DEF OfferedOf
<1> QED
    BY <1>3, <1>4, <1>5

\* A release takes it back.
LEMMA ReturnMoves ==
    ASSUME NEW dv, NEW ow, Sound(dv, ow), NEW i \in Entries,
           ow[i] # NoClient, NEW ow2, ow2 = [ow EXCEPT ![i] = NoClient]
    PROVE  /\ <<ow[i], dv[i]>> \in LeasesOf(dv, ow)
           /\ OfferedOf(dv, ow2) = OfferedOf(dv, ow) \cup {dv[i]}
           /\ LeasesOf(dv, ow2) = LeasesOf(dv, ow) \ {<<ow[i], dv[i]>>}
<1>1. \A j \in Entries : ow2[j] = IF j = i THEN NoClient ELSE ow[j]
    BY DEF Sound
<1>2. dv[i] # NoDevice
    BY DEF Sound
<1>3. ASSUME NEW d
      PROVE  d \in OfferedOf(dv, ow2) <=> d \in OfferedOf(dv, ow) \cup {dv[i]}
    BY <1>1, <1>2 DEF OfferedOf
<1>4. ASSUME NEW j \in Entries, j # i, ow[j] # NoClient
      PROVE  <<ow[j], dv[j]>> # <<ow[i], dv[i]>>
    BY <1>2, <1>4 DEF Sound
<1>5. ASSUME NEW l
      PROVE  l \in LeasesOf(dv, ow2) <=> l \in LeasesOf(dv, ow) \ {<<ow[i], dv[i]>>}
    BY <1>1, <1>4 DEF LeasesOf
<1>6. <<ow[i], dv[i]>> \in LeasesOf(dv, ow)
    BY DEF LeasesOf
<1> QED
    BY <1>3, <1>5, <1>6

\* A new entry is one more offer.
LEMMA OfferAdds ==
    ASSUME NEW dv, NEW ow, Sound(dv, ow), NEW i \in Entries, NEW d \in Devices,
           dv[i] = NoDevice
    PROVE  /\ OfferedOf([dv EXCEPT ![i] = d], [ow EXCEPT ![i] = NoClient])
                 = OfferedOf(dv, ow) \cup {d}
           /\ LeasesOf([dv EXCEPT ![i] = d], [ow EXCEPT ![i] = NoClient])
                 = LeasesOf(dv, ow)
<1> DEFINE dv2 == [dv EXCEPT ![i] = d]
           ow2 == [ow EXCEPT ![i] = NoClient]
<1>1. \A j \in Entries : /\ dv2[j] = IF j = i THEN d ELSE dv[j]
                         /\ ow2[j] = IF j = i THEN NoClient ELSE ow[j]
    BY DEF Sound
<1>2. d # NoDevice /\ ow[i] = NoClient
    BY DEF Sound
<1>3. ASSUME NEW e
      PROVE  e \in OfferedOf(dv2, ow2) <=> e \in OfferedOf(dv, ow) \cup {d}
    BY <1>1, <1>2 DEF OfferedOf
<1>4. ASSUME NEW l
      PROVE  l \in LeasesOf(dv2, ow2) <=> l \in LeasesOf(dv, ow)
    BY <1>1, <1>2 DEF LeasesOf
<1> QED
    BY <1>3, <1>4

\* A removal leaves the other devices as they are.
LEMMA WithdrawTakes ==
    ASSUME NEW dv, NEW ow, Sound(dv, ow), NEW d \in Devices,
           NEW dv2, dv2 = [i \in Entries |-> IF dv[i] = d THEN NoDevice ELSE dv[i]],
           NEW ow2, ow2 = [i \in Entries |-> IF dv[i] = d THEN NoClient ELSE ow[i]]
    PROVE  /\ OfferedOf(dv2, ow2) = OfferedOf(dv, ow) \ {d}
           /\ LeasesOf(dv2, ow2) = {l \in LeasesOf(dv, ow) : l[2] # d}
<1>1. \A j \in Entries : /\ dv2[j] = IF dv[j] = d THEN NoDevice ELSE dv[j]
                         /\ ow2[j] = IF dv[j] = d THEN NoClient ELSE ow[j]
    OBVIOUS
<1>2. ASSUME NEW e
      PROVE  e \in OfferedOf(dv2, ow2) <=> e \in OfferedOf(dv, ow) \ {d}
    BY <1>1 DEF OfferedOf
<1>3. ASSUME NEW l
      PROVE  l \in LeasesOf(dv2, ow2) <=> l \in {m \in LeasesOf(dv, ow) : m[2] # d}
    BY <1>1 DEF LeasesOf
<1> QED
    BY <1>2, <1>3
\* Nothing is exported but devices, and nobody works with one but in a session.
XInv == /\ \A i \in Entries : Exported(i) => InUse(i)
        /\ \A c \in Conns : cpc[c] \notin Serving => sdev[c] = NoDevice

LInv == HInv /\ OInv /\ DInv /\ XInv

LEMMA InitLInv == Init => LInv
<1>1. Init => XInv
    BY DEF Init, RegistryInit, XInv, Exported
<1> QED
    BY <1>1, InitHInv, InitOInv, InitDInv DEF LInv

LEMMA Views ==
    /\ Offered = OfferedOf(dev, owner) /\ Leases = LeasesOf(dev, owner)
    /\ Offered' = OfferedOf(dev', owner') /\ Leases' = LeasesOf(dev', owner')
BY DEF Offered, Leases, OfferedOf, LeasesOf, InUse, Exported

LEMMA RegistrySound == LInv => Sound(dev, owner)
BY DEF LInv, HInv, OInv, XInv, Sound, InUse, Exported

\* An entry that is exported is leased to the client of a connection.
LEMMA ExportIsLease ==
    ASSUME LInv, NEW i \in Entries, Exported(i)
    PROVE  /\ dev[i] \in Devices /\ owner[i] \in Lease!Client
           /\ <<owner[i], dev[i]>> \in Leases
<1>1. dev[i] \in Devices
    BY DEF LInv, HInv, XInv, InUse
<1>2. owner[i] \in {Ip[c] : c \in Conns}
    BY DEF LInv, OInv
<1>3. <<owner[i], dev[i]>> \in Leases
    BY DEF Leases
<1> QED
    BY <1>1, <1>2, <1>3 DEF Lease!Client

\* Whoever works with the device of an entry has it exported.
LEMMA UserIsOwner ==
    ASSUME LInv, NEW i \in Entries, InUse(i), NEW c \in Conns, sdev[c] = dev[i]
    PROVE  cpc[c] \in Serving /\ idx[c] = i /\ owner[i] = Ip[c] /\ info[c] = dev[i]
<1>1. cpc[c] \in Serving
    BY DEF LInv, XInv, InUse
<1>2. cpc[c] \in Holding /\ cpc[c] \in Knowing /\ sdev[c] = info[c]
    BY <1>1 DEF LInv, Serving, Holding, Knowing, DInv, Served
<1>3. Path[dev[i]] = want[c]
    BY <1>2 DEF LInv, DInv, Owned
<1>4. idx[c] = i
    BY <1>2, <1>3 DEF LInv, DInv, Placed
<1> QED
    BY <1>1, <1>2, <1>4 DEF LInv, DInv, Owned

\* What ends an export, of one entry that nobody works with
LEMMA ReleaseRefines ==
    ASSUME LInv, NEW i \in Entries, UNCHANGED <<dev, sdev>>,
           owner' = [owner EXCEPT ![i] = NoClient],
           Exported(i) => \A c \in Conns : sdev[c] # dev[i]
    PROVE  [Lease!Next]_(Lease!vars)
<1>1. CASE Exported(i)
    <2>1. PICK o : o = owner'
        OBVIOUS
    <2>2. /\ Offered' = Offered \cup {dev[i]} /\ Leases' = Leases \ {<<owner[i], dev[i]>>}
          /\ <<owner[i], dev[i]>> \in Leases
        BY <1>1, <2>1, Views, RegistrySound, ReturnMoves DEF Exported
    <2>3. Lease!Return(owner[i], dev[i])
        BY <1>1, <2>2 DEF Lease!Return, Lease!InUse
    <2> QED
        BY <1>1, <2>3, ExportIsLease DEF Lease!Next
<1>2. CASE ~Exported(i)
    <2>1. owner' = owner
        BY <1>2 DEF Exported, LInv, OInv
    <2> QED
        BY <2>1, Views DEF Lease!vars
<1> QED
    BY <1>1, <1>2

LEMMA ImportRefines ==
    ASSUME LInv, NEW c \in Conns, NEW i \in Entries, Import(i, Ip[c]), UNCHANGED sdev
    PROVE  [Lease!Next]_(Lease!vars)
<1>1. /\ dev[i] # NoDevice /\ owner[i] = NoClient /\ Ip[c] \in Clients /\ dev' = dev
      /\ dev[i] \in Devices
    BY DEF Import, InUse, Exported, LInv, HInv
<1>2. PICK o : o = owner' /\ o = [owner EXCEPT ![i] = Ip[c]]
    BY DEF Import
<1>3. /\ dev[i] \in Offered /\ Offered' = Offered \ {dev[i]}
      /\ Leases' = Leases \cup {<<Ip[c], dev[i]>>}
    <2>1. PICK x \in Clients : x = Ip[c]
        BY <1>1
    <2>2. /\ o = [owner EXCEPT ![i] = x] /\ Sound(dev, owner)
          /\ dev[i] # NoDevice /\ owner[i] = NoClient
        BY <1>1, <1>2, <2>1, RegistrySound
    <2>3. /\ dev[i] \in OfferedOf(dev, owner)
          /\ OfferedOf(dev, o) = OfferedOf(dev, owner) \ {dev[i]}
          /\ LeasesOf(dev, o) = LeasesOf(dev, owner) \cup {<<x, dev[i]>>}
        BY <2>2, GrantMoves
    <2> QED
        BY <1>1, <1>2, <2>1, <2>3, Views
<1>4. Lease!Grant(Ip[c], dev[i]) /\ Ip[c] \in Lease!Client
    BY <1>3 DEF Lease!Grant, Lease!Client
<1> QED
    BY <1>1, <1>4 DEF Lease!Next

\* The transfer loop reads the device that is exported to its client, and no other.
LEMMA ArmRefines ==
    ASSUME LInv, NEW c \in Conns, Arm(c)
    PROVE  [Lease!Next]_(Lease!vars)
<1>1. cpc[c] = "arm" /\ UNCHANGED <<dev, owner>>
    BY DEF Arm, registry
<1>2. CASE UNCHANGED sdev
    BY <1>1, <1>2, Views DEF Lease!vars
<1>3. ASSUME NEW i, i = eng[c], InUse(i), sdev' = [sdev EXCEPT ![c] = dev[i]]
      PROVE  Lease!Begin(c, dev[i]) /\ dev[i] \in Devices
    <2>1. i = idx[c] /\ i \in Entries
        BY <1>1, <1>3 DEF LInv, DInv, Served, Placed, Holding
    <2>2. owner[i] = Ip[c]
        BY <1>1, <1>3, <2>1 DEF LInv, DInv, Owned, Holding
    <2>3. <<Ip[c], dev[i]>> \in Leases /\ dev[i] \in Devices
        BY <2>1, <2>2, ExportIsLease DEF Exported
    <2>4. sdev[c] = NoDevice
        BY <1>1 DEF LInv, XInv, Serving
    <2> QED
        BY <1>1, <1>3, <2>3, <2>4, Views DEF Lease!Begin
<1> QED
    BY <1>2, <1>3 DEF Arm, Lease!Next

LEMMA TaskRefines ==
    ASSUME Discipline, LInv, NEW c \in Conns, Task(c)
    PROVE  [Lease!Next]_(Lease!vars)
<1>1. CASE LookUp(c) \/ Get(c) \/ SendReply(c) \/ ReleaseStale(c) \/ Claim(c) \/ Run(c)
           \/ Unclaim(c) \/ Leave(c)
    <2>1. UNCHANGED <<dev, owner, sdev>>
        BY <1>1 DEF LookUp, Get, SendReply, ReleaseStale, Claim, Run, Unclaim, Leave,
                    registry
    <2> QED
        BY <2>1, Views DEF Lease!vars
<1>2. CASE TryImport(c)
    <2>1. cpc[c] = "import" /\ UNCHANGED sdev
        BY <1>2 DEF TryImport
    <2>2. idx[c] \in Entries
        BY <2>1 DEF LInv, DInv, Placed
    <2>3. CASE UNCHANGED registry
        BY <2>1, <2>3, Views DEF Lease!vars, registry
    <2>4. CASE Import(idx[c], Ip[c])
        BY <2>1, <2>2, <2>4, ImportRefines
    <2> QED
        BY <1>2, <2>3, <2>4 DEF TryImport
<1>3. CASE Refuse(c) \/ ReleaseEntry(c)
    <2>1. /\ cpc[c] \in Holding \ Serving
          /\ owner' = [owner EXCEPT ![idx[c]] = NoClient] /\ UNCHANGED <<dev, sdev>>
        BY <1>3 DEF Refuse, ReleaseEntry, Release, Holding, Serving
    <2>2. PICK i \in Entries : i = idx[c]
        BY <2>1 DEF LInv, DInv, Placed
    <2>3. ASSUME Exported(i), NEW k \in Conns, sdev[k] = dev[i] PROVE FALSE
        <3>1. InUse(i) /\ owner[i] = Ip[c]
            BY <2>1, <2>2, <2>3 DEF LInv, XInv, DInv, Owned
        <3>2. cpc[k] \in Serving /\ owner[i] = Ip[k]
            BY <2>3, <3>1, UserIsOwner
        <3>3. k = c
            BY <3>1, <3>2 DEF Discipline
        <3> QED
            BY <2>1, <3>2, <3>3
    <2> QED
        BY <2>1, <2>2, <2>3, ReleaseRefines
<1>4. CASE Arm(c)
    BY <1>4, ArmRefines
<1>5. CASE SessionOver(c) \/ GetHandle(c)
    <2>1. /\ cpc[c] \in Serving /\ UNCHANGED <<dev, owner>>
          /\ UNCHANGED sdev \/ sdev' = [sdev EXCEPT ![c] = NoDevice]
        BY <1>5 DEF SessionOver, GetHandle, Serving, registry
    <2>2. sdev[c] # NoDevice
        BY <2>1 DEF LInv, DInv, Served, Owned, Serving, Knowing
    <2>3. Lease!End(c) \/ UNCHANGED Lease!vars
        BY <2>1, <2>2, Views DEF Lease!End, Lease!vars
    <2> QED
        BY <2>3 DEF Lease!Next
\* A connection that is done has nothing exported any more.
<1>6. CASE Done(c)
    <2>1. /\ cpc[c] = "done" /\ UNCHANGED <<dev, sdev>>
          /\ owner' = [i \in Entries |-> IF owner[i] = Ip[c] THEN NoClient ELSE owner[i]]
        BY <1>6 DEF Done, ReleaseByIp
    <2>2. ASSUME NEW i \in Entries, owner[i] = Ip[c] PROVE FALSE
        <3>1. Exported(i)
            BY <2>2 DEF Exported
        <3>2. PICK k \in Conns : Ip[k] = Ip[c] /\ cpc[k] \in Holding
            BY <2>2, <3>1 DEF LInv, OInv
        <3> QED
            BY <2>1, <3>2 DEF Discipline, Holding
    <2>3. owner' = owner
        BY <2>1, <2>2 DEF LInv, OInv
    <2> QED
        BY <2>1, <2>3, Views DEF Lease!vars
<1> QED
    BY <1>1, <1>2, <1>3, <1>4, <1>5, <1>6 DEF Task
LEMMA HostRefines ==
    ASSUME LInv, ClassDriver \/ Bus, UNCHANGED <<conns, web>>
    PROVE  [Lease!Next]_(Lease!vars)
<1>1. UNCHANGED sdev
    BY DEF conns
<1>2. CASE UNCHANGED registry
    BY <1>1, <1>2, Views DEF Lease!vars, registry
\* Nobody works with the device the class driver is about to register.
<1>3. CASE NewAdd
    <2>1. PICK i \in Entries : /\ ~InUse(i)
                               /\ dev' = [dev EXCEPT ![i] = mdev]
                               /\ owner' = [owner EXCEPT ![i] = NoClient]
        BY <1>3 DEF NewAdd, Add
    <2>2. PICK d \in Devices : d = mdev /\ \A j \in Entries : dev[j] # d
        BY <1>3 DEF NewAdd, LInv, HInv
    <2>3. PICK dv, o : dv = dev' /\ o = owner'
        OBVIOUS
    <2>4. Offered' = Offered \cup {d} /\ Leases' = Leases
        <3>1. Sound(dev, owner) /\ dev[i] = NoDevice
            BY <2>1, RegistrySound DEF InUse
        <3>2. dv = [dev EXCEPT ![i] = d] /\ o = [owner EXCEPT ![i] = NoClient]
            BY <2>1, <2>2, <2>3
        <3>3. /\ OfferedOf([dev EXCEPT ![i] = d], [owner EXCEPT ![i] = NoClient])
                    = OfferedOf(dev, owner) \cup {d}
              /\ LeasesOf([dev EXCEPT ![i] = d], [owner EXCEPT ![i] = NoClient])
                    = LeasesOf(dev, owner)
            BY <3>1, OfferAdds
        <3> QED
            BY <2>3, <3>2, <3>3, Views
    <2>5. d \notin Offered /\ ~Lease!Leased(d)
        BY <2>2 DEF Offered, Leases, Lease!Leased
    <2>6. ASSUME NEW c \in Conns, sdev[c] = d PROVE FALSE
        <3>1. cpc[c] \in Serving /\ info[c] = d
            BY <2>6 DEF LInv, XInv, DInv, Served
        <3>2. InUse(idx[c]) /\ idx[c] \in Entries
            BY <1>3, <3>1 DEF LInv, DInv, Placed, Holding, Serving, Frozen, NewAdd
        <3>3. dev[idx[c]] = d
            BY <3>1, <3>2 DEF LInv, DInv, Owned, Knowing, Serving
        <3> QED
            BY <2>2, <3>2, <3>3
    <2>7. Lease!Offer(d)
        BY <1>1, <2>4, <2>5, <2>6 DEF Lease!Offer, Lease!InUse
    <2> QED
        BY <2>7 DEF Lease!Next
<1>4. ASSUME NEW d \in Devices, GoneRemove(d)
      PROVE  [Lease!Next]_(Lease!vars)
    <2>1. PICK dv, o : /\ dv = dev' /\ o = owner'
                       /\ dv = [i \in Entries |-> IF dev[i] = d THEN NoDevice ELSE dev[i]]
                       /\ o = [i \in Entries |-> IF dev[i] = d THEN NoClient ELSE owner[i]]
        BY <1>4 DEF GoneRemove, Remove
    <2>2. /\ OfferedOf(dv, o) = OfferedOf(dev, owner) \ {d}
          /\ LeasesOf(dv, o) = {l \in LeasesOf(dev, owner) : l[2] # d}
        BY <2>1, RegistrySound, WithdrawTakes
    <2>3. Offered' = Offered \ {d} /\ Leases' = {l \in Leases : l[2] # d}
        BY <2>1, <2>2, Views
    <2>4. CASE \E i \in Entries : dev[i] = d
        <3>1. PICK i \in Entries : dev[i] = d
            BY <2>4
        <3>2. d \in Offered \/ Lease!Leased(d)
            <4>1. CASE Exported(i)
                BY <3>1, <4>1, ExportIsLease DEF Lease!Leased
            <4>2. CASE ~Exported(i)
                BY <3>1, <4>2 DEF Offered, InUse
            <4> QED
                BY <4>1, <4>2
        <3>3. Lease!Withdraw(d)
            BY <1>1, <2>3, <3>2 DEF Lease!Withdraw
        <3> QED
            BY <3>3 DEF Lease!Next
    <2>5. CASE \A i \in Entries : dev[i] # d
        <3>1. dev' = dev /\ owner' = owner
            BY <2>1, <2>5 DEF LInv, HInv, OInv
        <3> QED
            BY <1>1, <3>1, Views DEF Lease!vars
    <2> QED
        BY <2>4, <2>5
<1> QED
    BY <1>2, <1>3, <1>4 DEF ClassDriver, NewRefused, NewTracked, GoneClose, GoneUntrack,
                            Bus, PlugIn, Unplug

LEMMA NextRefines ==
    ASSUME Discipline
    PROVE  LInv /\ [Next]_vars => [Lease!Next]_(Lease!vars)
<1> SUFFICES ASSUME LInv, [Next]_vars PROVE [Lease!Next]_(Lease!vars)
    OBVIOUS
<1>1. CASE (\E i \in Entries : WebGet(i)) \/ WebRelease
    BY <1>1 DEF WebGet, WebRelease, Discipline, LInv, DInv
<1>2. CASE Terminated \/ UNCHANGED vars
    <2>1. UNCHANGED <<dev, owner, sdev>>
        BY <1>2 DEF Terminated, vars, registry, conns
    <2> QED
        BY <2>1, Views DEF Lease!vars
<1> QED
    BY <1>1, <1>2, TaskRefines, HostRefines DEF Next

LEMMA NextXInv == LInv /\ [Next]_vars => XInv'
<1> SUFFICES ASSUME LInv, [Next]_vars PROVE XInv'
    OBVIOUS
<1>1. /\ \A i \in Entries : Exported(i) => InUse(i)
      /\ \A c \in Conns : cpc[c] \notin Serving => sdev[c] = NoDevice
      /\ dev \in [Entries -> Devices \cup {NoDevice}]
      /\ owner \in [Entries -> Clients \cup {NoClient}]
      /\ cpc = [k \in Conns |-> cpc[k]] /\ sdev = [k \in Conns |-> sdev[k]]
    BY DEF LInv, HInv, OInv, DInv, XInv
<1>2. ASSUME NEW c \in Conns, Task(c) PROVE \A i \in Entries : Exported(i)' => InUse(i)'
    <2>1. CASE LookUp(c) \/ Get(c) \/ SendReply(c) \/ ReleaseStale(c) \/ Claim(c)
               \/ Run(c) \/ Arm(c) \/ GetHandle(c) \/ SessionOver(c) \/ Unclaim(c)
               \/ Leave(c)
        BY <1>1, <2>1 DEF LookUp, Get, SendReply, ReleaseStale, Claim, Run, Arm, GetHandle,
                          SessionOver, Unclaim, Leave, registry, Exported, InUse
    <2>2. CASE TryImport(c)
        BY <1>1, <2>2 DEF TryImport, Import, Exported, InUse, registry
    <2>3. CASE Refuse(c) \/ ReleaseEntry(c)
        BY <1>1, <2>3 DEF Refuse, ReleaseEntry, Release, Exported, InUse
    <2>4. CASE Done(c)
        BY <1>1, <2>4 DEF Done, ReleaseByIp, Exported, InUse
    <2> QED
        BY <1>2, <2>1, <2>2, <2>3, <2>4 DEF Task
<1>3. ASSUME NEW c \in Conns, Task(c), NEW k \in Conns, cpc'[k] \notin Serving
      PROVE  sdev'[k] = NoDevice
    <2>1. CASE k # c
        BY <1>1, <1>3, <2>1, OnlyOwn DEF LInv
    <2>2. CASE k = c /\ (LookUp(c) \/ Get(c) \/ SendReply(c) \/ ReleaseStale(c) \/ Claim(c)
                         \/ Run(c) \/ Unclaim(c) \/ Leave(c) \/ Done(c))
        BY <1>1, <2>2 DEF LookUp, Get, SendReply, ReleaseStale, Claim, Run, Unclaim, Leave,
                          Done, Serving
    <2>3. CASE k = c /\ (TryImport(c) \/ Refuse(c) \/ ReleaseEntry(c))
        BY <1>1, <2>3 DEF TryImport, Refuse, ReleaseEntry, Serving
    <2>4. CASE k = c /\ (Arm(c) \/ GetHandle(c) \/ SessionOver(c))
        BY <1>1, <1>3, <2>4 DEF Arm, GetHandle, SessionOver, Goto, Serving
    <2> QED
        BY <1>3, <2>1, <2>2, <2>3, <2>4 DEF Task
<1>4. CASE (ClassDriver \/ Bus) /\ UNCHANGED <<conns, web>>
    <2>1. UNCHANGED <<cpc, sdev>>
        BY <1>4 DEF conns
    <2>2. \A i \in Entries : Exported(i)' => InUse(i)'
        <3>1. CASE UNCHANGED registry
            BY <1>1, <3>1 DEF registry, Exported, InUse
        <3>2. CASE NewAdd
            BY <1>1, <3>2 DEF NewAdd, Add, Exported, InUse, LInv, HInv
        <3>3. ASSUME NEW d \in Devices, GoneRemove(d)
              PROVE  \A i \in Entries : Exported(i)' => InUse(i)'
            BY <1>1, <3>3 DEF GoneRemove, Remove, Exported, InUse
        <3> QED
            BY <1>4, <3>1, <3>2, <3>3 DEF ClassDriver, NewRefused, NewTracked, GoneClose,
                                          GoneUntrack, Bus, PlugIn, Unplug
    <2> QED
        BY <1>1, <2>1, <2>2 DEF XInv
<1>5. CASE (\E i \in Entries : WebGet(i)) \/ WebRelease
    BY <1>1, <1>5 DEF WebGet, WebRelease, Release, XInv, Exported, InUse,
                      registry, conns
<1>6. CASE Terminated \/ UNCHANGED vars
    BY <1>1, <1>6 DEF Terminated, vars, registry, conns, XInv, Exported, InUse
<1> QED
    BY <1>2, <1>3, <1>4, <1>5, <1>6 DEF Next, XInv

LEMMA NextLInv ==
    ASSUME Discipline
    PROVE  LInv /\ [Next]_vars => LInv'
BY NextHInv, NextOInv, NextDInv, NextXInv DEF LInv

\* handle_import, the transfer loop and the release implement an exclusive lease of
\* devices, under the discipline, for any number of clients, devices and entries.
THEOREM LeaseImplemented ==
    ASSUME Discipline
    PROVE  Spec => ImplementsLease
<1>1. Init => Lease!Init
    BY DEF Init, RegistryInit, Lease!Init, Offered, Leases, InUse, Exported
<1> QED
    BY <1>1, InitLInv, NextLInv, NextRefines, PTL DEF Spec, ImplementsLease, Lease!Spec

\* What the lease promises on its own: whoever works with a device is the only client
\* that may have its lease, and what is offered is neither leased nor worked with.
LeaseHeld ==
    /\ sdev = [c \in Conns |-> sdev[c]]
    /\ Offered \subseteq Devices
    /\ \A d \in Offered : ~Lease!Leased(d) /\ ~Lease!InUse(d)
    /\ \A x, y \in Lease!Client, d \in Devices :
          <<x, d>> \in Leases /\ <<y, d>> \in Leases => x = y
    /\ \A c \in Conns : sdev[c] # NoDevice =>
          /\ sdev[c] \in Devices
          /\ \A x \in Lease!Client : <<x, sdev[c]>> \in Leases => x = Ip[c]
    /\ Lease!Exclusive

LEMMA LeaseStep == LeaseHeld /\ [Lease!Next]_(Lease!vars) => LeaseHeld'
<1> SUFFICES ASSUME LeaseHeld, [Lease!Next]_(Lease!vars) PROVE LeaseHeld'
    OBVIOUS
<1> USE DEF LeaseHeld, Lease!Leased, Lease!InUse, Lease!Exclusive, Lease!Client
<1>1. ASSUME NEW d \in Devices, Lease!Offer(d) PROVE LeaseHeld'
    BY <1>1 DEF Lease!Offer
<1>2. ASSUME NEW d \in Devices, Lease!Withdraw(d) PROVE LeaseHeld'
    BY <1>2 DEF Lease!Withdraw
<1>3. ASSUME NEW d \in Devices, NEW x \in Lease!Client, Lease!Grant(x, d) PROVE LeaseHeld'
    BY <1>3 DEF Lease!Grant
<1>4. ASSUME NEW d \in Devices, NEW x \in Lease!Client, Lease!Return(x, d) PROVE LeaseHeld'
    BY <1>4 DEF Lease!Return
<1>5. ASSUME NEW d \in Devices, NEW c \in Conns, Lease!Begin(c, d) PROVE LeaseHeld'
    <2>1. /\ UNCHANGED <<Offered, Leases>> /\ <<Ip[c], d>> \in Leases /\ sdev[c] = NoDevice
          /\ sdev' = [sdev EXCEPT ![c] = d]
        BY <1>5 DEF Lease!Begin
    <2>2. /\ sdev' = [k \in Conns |-> sdev'[k]]
          /\ \A k \in Conns : sdev'[k] = IF k = c THEN d ELSE sdev[k]
        BY <2>1
    <2>3. d \notin Offered
        BY <2>1
    <2>4. \A x \in Lease!Client : <<x, d>> \in Leases => x = Ip[c]
        BY <2>1
    <2>5. \A k \in Conns : sdev[k] = d /\ d # NoDevice => Ip[k] = Ip[c]
        BY <2>1
    <2> QED
        BY <2>1, <2>2, <2>3, <2>4, <2>5
<1>6. ASSUME NEW c \in Conns, Lease!End(c) PROVE LeaseHeld'
    <2>1. /\ UNCHANGED <<Offered, Leases>>
          /\ sdev' = [sdev EXCEPT ![c] = NoDevice]
        BY <1>6 DEF Lease!End
    <2>2. /\ sdev' = [k \in Conns |-> sdev'[k]]
          /\ \A k \in Conns : sdev'[k] = IF k = c THEN NoDevice ELSE sdev[k]
        BY <2>1
    <2>3. \A e \in Devices : e # NoDevice /\ (\E k \in Conns : sdev'[k] = e)
                              => \E k \in Conns : sdev[k] = e
        BY <2>2
    <2>4. \A e \in Offered : ~\E k \in Conns : sdev'[k] = e
        BY <2>3
    <2>5. \A k, m \in Conns : Ip[k] # Ip[m] /\ sdev'[k] # NoDevice => sdev'[k] # sdev'[m]
        BY <2>2
    <2> QED
        BY <2>1, <2>2, <2>4, <2>5
<1>7. CASE UNCHANGED Lease!vars
    BY <1>7 DEF Lease!vars
<1> QED
    BY <1>1, <1>2, <1>3, <1>4, <1>5, <1>6, <1>7 DEF Lease!Next

\* DeviceLease means what it is called: whoever implements it, no two clients work with
\* one device, even while a device that was unplugged is still worked with.
THEOREM LeaseExcludes == Lease!Spec => []Lease!Exclusive
<1>1. Lease!Init => LeaseHeld
    BY DEF Lease!Init, LeaseHeld, Lease!Leased, Lease!InUse, Lease!Exclusive
<1>2. LeaseHeld => Lease!Exclusive
    BY DEF LeaseHeld
<1> QED
    BY <1>1, <1>2, LeaseStep, PTL DEF Lease!Spec
================================================================================
