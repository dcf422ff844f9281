------------------------------ MODULE UsbHostMgr ------------------------------
(***************************************************************************)
(* The class driver task of the USB host manager, over the registry: what   *)
(* it does when a device is enumerated and when one is gone, the table of   *)
(* handles it keeps (s_tracked), and the claims the connection tasks make   *)
(* through it.                                                              *)
(*                                                                          *)
(* The host library is external: it reports a removal only of devices that  *)
(* were opened, its events arrive in order, and it does not close a device  *)
(* while an interface of it is claimed.  It may refuse to claim or to       *)
(* release any interface.  A device is one enumeration, with an address of  *)
(* its own.  The removal notification is TransferEngine's, the end of the   *)
(* two tasks is left out: nothing calls usb_host_mgr_stop.                  *)
(***************************************************************************)
EXTENDS DeviceManager, FiniteSets

CONSTANTS Path,       \* the bus id of each device
          Reuse       \* may a device take an entry that another one had?

ASSUME HostAssumption == Reuse \in BOOLEAN

VARIABLES
  bus,        \* per device: "new", "in" (enumerated, the event is queued),
              \* "refused" or "known" (opened), then "away" (unplugged, the event is
              \* queued) and "over"
  open,       \* devices the host library holds open for the class driver
  tracked,    \* devices in s_tracked
  claims,     \* how many of a device's interfaces the host library has as claimed
  kept,       \* auxiliary: devices with a handle whose last release left some of them
              \* claimed, and that have not been claimed since
  mpc, mdev   \* where the class driver task is, and the device it is at

host == <<bus, open, tracked, claims, kept, mpc, mdev>>

Level == {"none", "some", "all"}

HostInit == /\ bus = [d \in Devices |-> "new"]
            /\ open = {} /\ tracked = {}
            /\ claims = [d \in Devices |-> "none"] /\ kept = {}
            /\ mpc = "idle" /\ mdev = NoDevice

\* usb_host_mgr_get_handle finds the device
Tracked(d) == d \in tracked
-------------------------------------------------------------------------------
(* The bus *)

\* Two devices are not in one port at a time, and the port's last one has been
\* dealt with before the next is enumerated.
PlugIn(d) ==
    /\ bus[d] = "new"
    /\ \A e \in Devices :
          Path[e] = Path[d] => bus[e] \in {"new", "refused", "over"}
    /\ bus' = [bus EXCEPT ![d] = "in"]
    /\ UNCHANGED <<registry, open, tracked, claims, kept, mpc, mdev>>

Unplug(d) == /\ bus[d] = "known"
             /\ bus' = [bus EXCEPT ![d] = "away"]
             /\ UNCHANGED <<registry, open, tracked, claims, kept, mpc, mdev>>
-------------------------------------------------------------------------------
(* handle_new_device *)

\* The device cannot be opened, or one of its descriptors cannot be had or no
\* entry of s_tracked is free, and it is closed again.
NewRefused(d) == /\ mpc = "idle" /\ bus[d] = "in"
                 /\ bus' = [bus EXCEPT ![d] = "refused"]
                 /\ UNCHANGED <<registry, open, tracked, claims, kept, mpc, mdev>>

\* Fault: a device without an entry in s_tracked is registered all the same.
NewTracked_Overflow(d) ==
    /\ mpc = "idle" /\ bus[d] = "in"
    /\ bus' = [bus EXCEPT ![d] = "known"]
    /\ open' = open \cup {d}
    /\ tracked' = IF Cardinality(tracked) < NumEntries THEN tracked \cup {d}
                  ELSE tracked
    /\ mpc' = "add" /\ mdev' = d
    /\ UNCHANGED <<registry, claims, kept>>

NewTracked(d) == /\ mpc = "idle" /\ bus[d] = "in"
                 /\ Cardinality(tracked) < NumEntries
                 /\ Reuse \/ \A e \in Devices : bus[e] \notin {"away", "over"}
                 /\ bus' = [bus EXCEPT ![d] = "known"]
                 /\ open' = open \cup {d} /\ tracked' = tracked \cup {d}
                 /\ mpc' = "add" /\ mdev' = d
                 /\ UNCHANGED <<registry, claims, kept>>

NewAdd == /\ mpc = "add"
          /\ Add(mdev)
          /\ mpc' = "idle" /\ mdev' = NoDevice
          /\ UNCHANGED <<bus, open, tracked, claims, kept>>
-------------------------------------------------------------------------------
(* handle_device_gone *)

\* Fault: the entry is looked for under the path "1-{address}".
GoneRemove_ByPath(d) ==
    /\ mpc = "idle" /\ bus[d] = "away"
    /\ UNCHANGED registry
    /\ mpc' = "close" /\ mdev' = d
    /\ UNCHANGED <<bus, open, tracked, claims, kept>>

\* The entry is found by its address.
GoneRemove(d) == /\ mpc = "idle" /\ bus[d] = "away" /\ Tracked(d)
                 /\ Remove(d)
                 /\ mpc' = "close" /\ mdev' = d
                 /\ UNCHANGED <<bus, open, tracked, claims, kept>>

\* usb_host_device_close, whose result is not looked at
GoneClose == /\ mpc = "close"
             /\ open' = IF claims[mdev] = "none" THEN open \ {mdev} ELSE open
             /\ mpc' = "untrack"
             /\ UNCHANGED <<registry, bus, tracked, claims, kept, mdev>>

GoneUntrack == /\ mpc = "untrack"
               /\ tracked' = tracked \ {mdev}
               /\ bus' = [bus EXCEPT ![mdev] = "over"]
               /\ kept' = kept \ {mdev}
               /\ mpc' = "idle" /\ mdev' = NoDevice
               /\ UNCHANGED <<registry, open, claims>>
-------------------------------------------------------------------------------
(* usb_host_mgr_claim_interfaces and _release_interfaces, in other tasks: one    *)
(* call of the host library for each interface, each of which may fail           *)

Raised(l)  == IF l = "all" THEN {l} ELSE {l, "some", "all"}
Lowered(l) == IF l = "none" THEN {l} ELSE {l, "some", "none"}

\* When it answers ESP_OK: the device has a handle and a descriptor, whatever was
\* claimed.  With a handle that is found but closed, while handle_device_gone is
\* between its last two steps, nothing can be claimed.
ClaimInterfaces(d) ==
    /\ Tracked(d)
    /\ \E l \in Raised(claims[d]) :
          /\ d \in open \/ l = claims[d]
          /\ claims' = [claims EXCEPT ![d] = l]
    /\ kept' = kept \ {d}

\* Without a handle there is nothing to release.  The result is not looked at by
\* the callers.
ReleaseInterfaces(d) ==
    \/ /\ Tracked(d)
       /\ \E l \in Lowered(claims[d]) :
             /\ claims' = [claims EXCEPT ![d] = l]
             /\ kept' = IF l = "none" THEN kept \ {d} ELSE kept \cup {d}
    \/ ~Tracked(d) /\ UNCHANGED <<claims, kept>>
-------------------------------------------------------------------------------
ClassDriver == \/ \E d \in Devices : \/ NewRefused(d) \/ NewTracked(d)
                                     \/ GoneRemove(d)
               \/ NewAdd \/ GoneClose \/ GoneUntrack

Bus == \E d \in Devices : PlugIn(d) \/ Unplug(d)
-------------------------------------------------------------------------------
(* Properties *)

HostTypeOK == /\ bus \in [Devices -> {"new", "in", "refused", "known", "away",
                                  "over"}]
              /\ open \subseteq Devices /\ tracked \subseteq Devices
              /\ claims \in [Devices -> Level] /\ kept \subseteq Devices
              /\ \A d \in Devices : claims[d] # "none" => d \in open
              /\ mpc \in {"idle", "add", "close", "untrack"}
              /\ mdev \in Devices \cup {NoDevice}

\* A device is in the registry only while its handle can be found, and whenever
\* the class driver adds one there is an entry for it: device_manager_add cannot
\* answer that the registry is full.
RegisteredHasHandle ==
    /\ \A i \in Entries : InUse(i) => Tracked(dev[i])
    /\ mpc = "add" => \E i \in Entries : ~InUse(i)

\* Release finds no handle: "Expected when device was physically disconnected -
\* handle already closed".
HandleClosed == \A d \in Devices : bus[d] = "over" => d \notin open

\* A device that was unplugged leaves the registry for good: again and again none of
\* those is in it (and none comes back, so each has left from some moment on).
GoneIsRemoved == []<>(\A d \in Devices : bus[d] \in {"away", "over"} =>
                          \A i \in Entries : dev[i] # d)
===============================================================================
