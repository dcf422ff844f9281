------------------------------ MODULE Connection ------------------------------
(***************************************************************************)
(* The connections of the USB/IP server over the host manager and the       *)
(* device registry: the task each client gets (usbip_connection_handle),    *)
(* from an import request to the release of the device, while devices come  *)
(* and go and the web interface releases exports.  A task takes one step    *)
(* per registry operation, so other tasks act between any two of them.      *)
(*                                                                          *)
(* The transfer loop itself is TransferEngine; here it is one label,        *)
(* "session", that ends when the client leaves or the device does.          *)
(* Accepting connections, access control, the protocol version and          *)
(* OP_REQ_DEVLIST, which only reads, are left out; a connection that does   *)
(* nothing but list devices is one that leaves from "idle".                 *)
(*                                                                          *)
(* A definition X_Fault is X with one plausible mistake; the properties     *)
(* are validated by checking that they reject it.                           *)
(***************************************************************************)
EXTENDS UsbHostMgr

CONSTANTS Conns,      \* connections, each used once
          Ip,         \* the client each comes from
          WebUi       \* does an operator release exports?

ASSUME ConnectionAssumption == /\ Ip \in [Conns -> Clients]
                               /\ WebUi \in BOOLEAN

VARIABLES
  cpc,        \* where the task of each connection is
  want,       \* the path its import request names
  idx,        \* dev_index
  info,       \* the device its copy of the entry describes
  eng,        \* dev_index in transfer_engine_run
  sdev,       \* the device its transfer loop works on: devinfo there
  web         \* the entry an operator's request is about to release

conns == <<cpc, want, idx, info, eng, sdev>>
vars  == <<registry, host, conns, web>>

NoEntry == NumEntries
Paths == {Path[d] : d \in Devices}

\* device_manager_lookup: the entry of a path
Found(p, i) == /\ InUse(i) /\ Path[dev[i]] = p
               /\ \A j \in Entries : j < i => ~(InUse(j) /\ Path[dev[j]] = p)

AnyPath == CHOOSE p \in Paths : TRUE

Init == /\ RegistryInit
        /\ HostInit
        /\ cpc = [c \in Conns |-> "idle"]
        /\ want = [c \in Conns |-> AnyPath]
        /\ idx = [c \in Conns |-> NoEntry]
        /\ info = [c \in Conns |-> NoDevice]
        /\ eng = [c \in Conns |-> NoEntry]
        /\ sdev = [c \in Conns |-> NoDevice]
        /\ web = NoEntry

Goto(c, label) == cpc' = [cpc EXCEPT ![c] = label]

\* handle_import returns; its locals are gone.
Return(c, label) == /\ Goto(c, label)
                    /\ want' = [want EXCEPT ![c] = AnyPath]
                    /\ idx' = [idx EXCEPT ![c] = NoEntry]
                    /\ info' = [info EXCEPT ![c] = NoDevice]
-------------------------------------------------------------------------------
(* handle_import *)

\* A request for a path: the lookup.  An unknown path is answered with ST_NA.
LookUp(c) ==
    /\ cpc[c] = "idle"
    /\ \E p \in Paths, i \in Entries :
          /\ Found(p, i)
          /\ want' = [want EXCEPT ![c] = p]
          /\ idx' = [idx EXCEPT ![c] = i]
    /\ Goto(c, "import")
    /\ UNCHANGED <<registry, host, info, eng, sdev, web>>

\* The claim of the entry, by index: it may hold another device by now.
TryImport(c) ==
    /\ cpc[c] = "import"
    /\ \/ /\ Import(idx[c], Ip[c])
          /\ Goto(c, "get")
          /\ UNCHANGED <<want, idx, info>>
       \/ /\ ~InUse(idx[c]) \/ Exported(idx[c])
          /\ Return(c, "idle")
          /\ UNCHANGED registry
    /\ UNCHANGED <<host, eng, sdev, web>>

Get(c) == /\ cpc[c] = "get"
          /\ \/ /\ InUse(idx[c])
                /\ info' = [info EXCEPT ![c] = dev[idx[c]]]
                /\ Goto(c, "reply")
             \/ /\ ~InUse(idx[c])
                /\ Goto(c, "undo")
                /\ UNCHANGED info
          /\ UNCHANGED <<registry, host, want, idx, eng, sdev, web>>

\* The reply with the device's descriptor, sent or not.
SendReply(c) == /\ cpc[c] = "reply"
                /\ Goto(c, "stale") \/ Goto(c, "undo")
                /\ UNCHANGED <<registry, host, want, idx, info, eng, sdev, web>>

\* "release any stale interface claims from a previous session"
ReleaseStale(c) ==
    /\ cpc[c] = "stale"
    /\ ReleaseInterfaces(info[c])
    /\ Goto(c, "claim")
    /\ UNCHANGED <<registry, bus, open, tracked, mpc, mdev, want, idx, info, eng,
                   sdev, web>>

\* All interfaces are claimed, as far as the host library lets them; or the device
\* has no handle or no descriptor.
Claim(c) ==
    /\ cpc[c] = "claim"
    /\ \/ /\ ClaimInterfaces(info[c])
          /\ Goto(c, "run")
       \/ /\ Goto(c, "refuse")
          /\ UNCHANGED <<claims, kept>>
    /\ UNCHANGED <<registry, bus, open, tracked, mpc, mdev, want, idx, info, eng,
                   sdev, web>>

\* Fault: the refused client keeps the entry.
Refuse_Keeps(c) == /\ cpc[c] = "refuse"
                   /\ Return(c, "idle")
                   /\ UNCHANGED <<registry, host, eng, sdev, web>>

\* The claim failed: the device is released and the client may ask again.
Refuse(c) == /\ cpc[c] = "refuse"
             /\ Release(idx[c])
             /\ Return(c, "idle")
             /\ UNCHANGED <<host, eng, sdev, web>>

\* transfer_engine_run looks the path up afresh ...
Run(c) ==
    /\ cpc[c] = "run"
    /\ \/ \E i \in Entries :
             /\ Found(want[c], i)
             /\ eng' = [eng EXCEPT ![c] = i]
             /\ Goto(c, "arm")
       \/ /\ \A i \in Entries : ~Found(want[c], i)
          /\ Goto(c, "unclaim")
          /\ UNCHANGED eng
    /\ UNCHANGED <<registry, host, want, idx, info, sdev, web>>

\* Fault: the entry is released as soon as the transfer loop knows its device.
Arm_Early(c) ==
    /\ cpc[c] = "arm"
    /\ InUse(eng[c])
    /\ sdev' = [sdev EXCEPT ![c] = dev[eng[c]]]
    /\ Release(eng[c])
    /\ Goto(c, "handle")
    /\ eng' = [eng EXCEPT ![c] = NoEntry]
    /\ UNCHANGED <<host, want, idx, info, web>>

\* ... reads the entry ...
Arm(c) ==
    /\ cpc[c] = "arm"
    /\ \/ /\ InUse(eng[c])
          /\ sdev' = [sdev EXCEPT ![c] = dev[eng[c]]]
          /\ Goto(c, "handle")
       \/ /\ ~InUse(eng[c])
          /\ Goto(c, "unclaim")
          /\ UNCHANGED sdev
    /\ eng' = [eng EXCEPT ![c] = NoEntry]
    /\ UNCHANGED <<registry, host, want, idx, info, web>>

\* ... and gets the handle of the device it found there.
GetHandle(c) ==
    /\ cpc[c] = "handle"
    /\ \/ /\ Tracked(sdev[c])
          /\ Goto(c, "session")
          /\ UNCHANGED sdev
       \/ /\ ~Tracked(sdev[c])
          /\ Goto(c, "unclaim")
          /\ sdev' = [sdev EXCEPT ![c] = NoDevice]
    /\ UNCHANGED <<registry, host, want, idx, info, eng, web>>

\* The transfer loop returns: the client left, or the device did.
SessionOver(c) == /\ cpc[c] = "session"
                  /\ Goto(c, "unclaim")
                  /\ sdev' = [sdev EXCEPT ![c] = NoDevice]
                  /\ UNCHANGED <<registry, host, want, idx, info, eng, web>>

\* Fault: the interfaces stay claimed.
Unclaim_Forgets(c) ==
    /\ cpc[c] = "unclaim"
    /\ Goto(c, "release")
    /\ UNCHANGED <<registry, host, want, idx, info, eng, sdev, web>>

\* Fault: the interfaces are released after the entry.
Unclaim_Late(c) ==
    \/ /\ cpc[c] = "unclaim"
       /\ Release(idx[c])
       /\ Goto(c, "release")
       /\ UNCHANGED <<host, want, idx, info, eng, sdev, web>>
    \/ /\ cpc[c] = "release"
       /\ ReleaseInterfaces(info[c])
       /\ Return(c, "done")
       /\ UNCHANGED <<registry, bus, open, tracked, mpc, mdev, eng, sdev, web>>

\* usb_host_mgr_release_interfaces, of the device the entry held at Get
Unclaim(c) == /\ cpc[c] = "unclaim"
              /\ ReleaseInterfaces(info[c])
              /\ Goto(c, "release")
              /\ UNCHANGED <<registry, bus, open, tracked, mpc, mdev, want, idx, info, eng,
                             sdev, web>>

\* device_manager_release by index, after the session or instead of it
ReleaseEntry(c) == /\ cpc[c] \in {"release", "undo"}
                   /\ Release(idx[c])
                   /\ Return(c, "done")
                   /\ UNCHANGED <<host, eng, sdev, web>>
-------------------------------------------------------------------------------
(* The end of usbip_connection_handle *)

Leave(c) == /\ cpc[c] = "idle"
            /\ Goto(c, "done")
            /\ UNCHANGED <<registry, host, want, idx, info, eng, sdev, web>>

\* "Safety: release any devices this client may have imported"
Done(c) == /\ cpc[c] = "done"
           /\ ReleaseByIp(Ip[c])
           /\ Goto(c, "closed")
           /\ UNCHANGED <<host, want, idx, info, eng, sdev, web>>
-------------------------------------------------------------------------------
(* The web interface *)

\* An operator's request reads the entry ...
WebGet(i) == /\ WebUi /\ web = NoEntry
             /\ InUse(i)
             /\ web' = i
             /\ UNCHANGED <<registry, host, conns>>

\* ... and then releases it.
WebRelease == /\ web # NoEntry
              /\ Release(web)
              /\ web' = NoEntry
              /\ UNCHANGED <<host, conns>>

Terminated == /\ \A c \in Conns : cpc[c] = "closed"
              /\ UNCHANGED vars
-------------------------------------------------------------------------------
Task(c) == \/ LookUp(c) \/ TryImport(c) \/ Get(c) \/ SendReply(c) \/ Claim(c)
           \/ ReleaseStale(c) \/ Refuse(c) \/ Run(c) \/ Arm(c) \/ GetHandle(c)
           \/ SessionOver(c) \/ Unclaim(c) \/ ReleaseEntry(c) \/ Leave(c) \/ Done(c)

Next == \/ \E c \in Conns : Task(c)
        \/ ClassDriver /\ UNCHANGED <<conns, web>>
        \/ Bus /\ UNCHANGED <<conns, web>>
        \/ \E i \in Entries : WebGet(i)
        \/ WebRelease
        \/ Terminated

\* The class driver task is never blocked for good: what it waits for, the mutex
\* of the registry, is held for a few instructions, and a log entry, at a time.
Spec == Init /\ [][Next]_vars /\ WF_vars(ClassDriver /\ UNCHANGED <<conns, web>>)
-------------------------------------------------------------------------------
(* Properties *)

\* Types of the registry and of the connections' local state; no entry is
\* exported without a device.
TypeOK ==
    /\ RegistryTypeOK
    /\ HostTypeOK
    /\ cpc \in [Conns -> {"idle", "import", "get", "undo", "reply", "stale",
                          "claim", "refuse", "run", "arm", "handle", "session",
                          "unclaim", "release", "done", "closed"}]
    /\ want \in [Conns -> Paths]
    /\ idx \in [Conns -> Entries \cup {NoEntry}]
    /\ info \in [Conns -> Devices \cup {NoDevice}]
    /\ eng \in [Conns -> Entries \cup {NoEntry}]
    /\ sdev \in [Conns -> Devices \cup {NoDevice}]
    /\ web \in Entries \cup {NoEntry}

InSession(c) == cpc[c] = "session"

\* Two clients never forward URBs to one device at a time.
ExclusiveSession ==
    \A c, k \in Conns :
        c # k /\ InSession(c) /\ InSession(k) => sdev[c] # sdev[k]

\* DEV_STATE_AVAILABLE is "Plugged in, not exported": no transfer loop works on
\* a device that the registry offers to the next client.
AvailableMeansFree ==
    \A i \in Entries : InUse(i) /\ ~Exported(i) =>
        \A c \in Conns : InSession(c) => sdev[c] # dev[i]

\* From the claim of a connection to the end of its session nobody releases or
\* claims an interface of its device: no import's release of stale claims, and no
\* session's end, comes too late or too early.
ClaimsUntouched ==
    [][\A c \in Conns : cpc[c] \in {"run", "arm", "handle", "session"} =>
          claims'[info[c]] = claims[info[c]]]_vars

\* An export never outlives the connections of its client: however an import
\* fails or a session ends, the entry is released.
NoOrphanExport ==
    \A i \in Entries : Exported(i) =>
        \E c \in Conns : /\ Ip[c] = owner[i]
                         /\ cpc[c] \notin {"idle", "import", "closed"}

\* Interface claims never outlive the sessions of the device, as long as it has a
\* handle, unless the host library refused to release them when it was last asked.
NoOrphanClaim ==
    \A d \in Devices \ kept : claims[d] # "none" /\ Tracked(d) =>
        \E c \in Conns :
           info[c] = d /\ cpc[c] \in {"run", "arm", "handle", "session", "unclaim"}

\* What the clients see of all this: devices that are offered, leased and used.
Offered == {dev[i] : i \in {j \in Entries : InUse(j) /\ ~Exported(j)}}
Leases  == {<<owner[i], dev[i]>> : i \in {j \in Entries : Exported(j)}}

Lease == INSTANCE DeviceLease WITH offered <- Offered, leases <- Leases, using <- sdev

\* An import is an exclusive lease: granted of a free device only, the ground of
\* every session, and given back when nobody works with the device any more.
ImplementsLease == Lease!Spec
===============================================================================
