------------------------------ MODULE DeviceLease ------------------------------
(* What "exporting" a device to a client promises, entries and paths apart: a   *)
(* device that is offered is leased to one client at a time; only the client     *)
(* that has the lease starts to work with the device; and the device is offered  *)
(* to others only when nobody works with it.  A device that is unplugged is      *)
(* withdrawn, leased or not, and a session with it may go on for a while.        *)
(* Connection implements this where clients have addresses of their own, no      *)
(* operator ends exports, and no device takes the entry of another.              *)
EXTENDS Naturals

CONSTANTS Devices, NoDevice,
          Conns,      \* connections
          Ip          \* the client each comes from

VARIABLES offered,    \* devices a client may be given
          leases,     \* pairs of a client and the device it was given
          using       \* the device each connection works with, or NoDevice

vars == <<offered, leases, using>>

Client == {Ip[c] : c \in Conns}

InUse(d)  == \E c \in Conns : using[c] = d
Leased(d) == \E x \in Client : <<x, d>> \in leases

Init == /\ offered = {} /\ leases = {}
        /\ using = [c \in Conns |-> NoDevice]

Offer(d) == /\ d \notin offered /\ ~Leased(d) /\ ~InUse(d)
            /\ offered' = offered \cup {d}
            /\ UNCHANGED <<leases, using>>

Grant(x, d) == /\ d \in offered
               /\ offered' = offered \ {d}
               /\ leases' = leases \cup {<<x, d>>}
               /\ UNCHANGED using

Begin(c, d) == /\ <<Ip[c], d>> \in leases /\ using[c] = NoDevice
               /\ using' = [using EXCEPT ![c] = d]
               /\ UNCHANGED <<offered, leases>>

End(c) == /\ using[c] # NoDevice
          /\ using' = [using EXCEPT ![c] = NoDevice]
          /\ UNCHANGED <<offered, leases>>

Return(x, d) == /\ <<x, d>> \in leases /\ ~InUse(d)
                /\ leases' = leases \ {<<x, d>>}
                /\ offered' = offered \cup {d}
                /\ UNCHANGED using

Withdraw(d) == /\ d \in offered \/ Leased(d)
               /\ offered' = offered \ {d}
               /\ leases' = {l \in leases : l[2] # d}
               /\ UNCHANGED using

Next == \/ \E d \in Devices : \/ Offer(d) \/ Withdraw(d)
                              \/ \E x \in Client : Grant(x, d) \/ Return(x, d)
                              \/ \E c \in Conns : Begin(c, d)
        \/ \E c \in Conns : End(c)

Spec == Init /\ [][Next]_vars

\* Two connections of different clients do not work with one device.
Exclusive == \A c, k \in Conns :
                 Ip[c] # Ip[k] /\ using[c] # NoDevice => using[c] # using[k]
================================================================================
