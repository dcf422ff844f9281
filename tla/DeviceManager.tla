---------------------------- MODULE DeviceManager ----------------------------
(***************************************************************************)
(* The device registry.  Each operation runs under one mutex, so each is    *)
(* one action here; what is not atomic is a caller that uses two of them in *)
(* a row.  A device is one enumeration of a physical device: plugged in     *)
(* again it gets another handle and, in the same port of a hub, the same    *)
(* path.                                                                    *)
(*                                                                          *)
(* The state and the client_ip of an entry change together, so one          *)
(* function, owner, stands for both.  The 200 ms limit on waiting for the   *)
(* mutex is taken never to expire: what an operation does while it holds    *)
(* the mutex is short, a removal's entry in the event log included, which   *)
(* waits for the mutex of the log at most.                                  *)
(* Descriptors, strings and statistics are left out.                        *)
(*                                                                          *)
(* A definition X_Fault is X with one plausible mistake; the properties     *)
(* are validated by checking that they reject it.                           *)
(***************************************************************************)
EXTENDS Naturals

CONSTANTS Devices,    \* enumerations that may happen
          NoDevice,   \* the content of an entry not in use
          Clients,    \* client IP addresses
          NoClient,   \* the owner of an entry that is AVAILABLE
          NumEntries  \* CONFIG_USBIP_MAX_DEVICES

ASSUME RegistryAssumption == /\ NoDevice \notin Devices
                             /\ NoClient \notin Clients
                             /\ NumEntries \in Nat \ {0}

VARIABLES dev,        \* the device of each entry
          owner       \* the client an entry is EXPORTED to

registry == <<dev, owner>>

Entries == 0 .. NumEntries - 1

InUse(i)    == dev[i] # NoDevice
Exported(i) == owner[i] # NoClient

RegistryInit == /\ dev = [i \in Entries |-> NoDevice]
                /\ owner = [i \in Entries |-> NoClient]

RegistryTypeOK == /\ dev \in [Entries -> Devices \cup {NoDevice}]
                  /\ owner \in [Entries -> Clients \cup {NoClient}]
                  /\ \A i \in Entries : Exported(i) => InUse(i)
-------------------------------------------------------------------------------
\* device_manager_add: the lowest entry not in use, AVAILABLE.  That there is one
\* is RegisteredHasHandle of UsbHostMgr.
Add(d) == \E i \in Entries :
             /\ ~InUse(i)
             /\ \A j \in Entries : j < i => InUse(j)
             /\ dev' = [dev EXCEPT ![i] = d]
             /\ owner' = [owner EXCEPT ![i] = NoClient]

\* Fault: the entry is not cleared.
Remove_KeepsOwner(d) ==
    /\ dev' = [i \in Entries |-> IF dev[i] = d THEN NoDevice ELSE dev[i]]
    /\ UNCHANGED owner

\* device_manager_remove of the entry found for device d, if there is one
Remove(d) ==
    /\ dev' = [i \in Entries |-> IF dev[i] = d THEN NoDevice ELSE dev[i]]
    /\ owner' = [i \in Entries |-> IF dev[i] = d THEN NoClient ELSE owner[i]]

\* Fault: an entry is handed out again although it is exported.
Import_Unchecked(i, ip) == /\ InUse(i)
                           /\ owner' = [owner EXCEPT ![i] = ip]
                           /\ UNCHANGED dev

\* device_manager_import, when it succeeds
Import(i, ip) == /\ InUse(i) /\ ~Exported(i)
                 /\ owner' = [owner EXCEPT ![i] = ip]
                 /\ UNCHANGED dev

\* device_manager_release: idempotent, and blind to who asks.
Release(i) == /\ owner' = [owner EXCEPT ![i] = NoClient]
              /\ UNCHANGED dev

\* Fault: the address is not compared.
ReleaseByIp_All(ip) == /\ owner' = [i \in Entries |-> NoClient]
                       /\ UNCHANGED dev

\* device_manager_release_by_ip
ReleaseByIp(ip) ==
    /\ owner' = [i \in Entries |-> IF owner[i] = ip THEN NoClient ELSE owner[i]]
    /\ UNCHANGED dev
===============================================================================
