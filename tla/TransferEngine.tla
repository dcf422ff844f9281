---------------------------- MODULE TransferEngine ----------------------------
(***************************************************************************)
(* One USB/IP session: the loop of transfer_engine_run, the table of        *)
(* pending URBs it keeps, and the three parties that act on its state from  *)
(* other tasks: the USB host stack that runs transfer_cb, the host manager  *)
(* that unregisters an unplugged device, and the client at the other end of *)
(* the socket.                                                              *)
(*                                                                          *)
(* The engine task takes one step per slot of a table walk and one per wait *)
(* of cancel_pending_urb, so the other parties act in between.  A step that *)
(* receives or sends is blocked as a whole while the client holds it up:    *)
(* usbip_net_recv and usbip_net_send have no time limit.  Each URB is       *)
(* submitted and unlinked at most once (a sequence number is not reused     *)
(* within a session).  Transfer data, isochronous descriptors, the packet   *)
(* capture and the per-device statistics are left out.                      *)
(*                                                                          *)
(* A definition X_Fault is X with one plausible mistake; the properties     *)
(* are validated by checking that they reject it.                           *)
(***************************************************************************)
EXTENDS Naturals, Sequences

CONSTANTS Urbs,       \* sequence numbers of the URBs the client may submit
          NoUrb,      \* the content of an inactive slot
          NumSlots,   \* MAX_PENDING_URBS
          Endpoints,
          Control,    \* endpoint 0
          Ep,         \* the endpoint each URB is addressed to
          Prompt,     \* endpoints whose last callback never misses the final
                      \* wait of cancel_pending_urb
          Replug      \* may another device take the registry entry?

ASSUME UrbsAssumption == NoUrb \notin Urbs
ASSUME SlotsAssumption == NumSlots \in Nat \ {0}
ASSUME EndpointsAssumption == /\ Control \in Endpoints
                              /\ Ep \in [Urbs -> Endpoints]
                              /\ Prompt \subseteq Endpoints
ASSUME ReplugAssumption == Replug \in BOOLEAN

VARIABLES
  pc,         \* where the engine task is; "gentle", "force" and "plain" are the
              \* waits of cancel_pending_urb
  cur,        \* the slot a table walk or a cancel is at
  why,        \* what the cancel is for
  devinfo,    \* the device the engine's local copy of the entry describes
  removed,    \* device_removed
  slot,       \* s_pending: the URB of each slot
  sem,        \* its semaphore
  status,     \* its usb_status
  aged,       \* URBs pending for longer than PENDING_URB_TIMEOUT_US
  xfer,       \* the host stack's view of each transfer
  ctx,        \* the slot transfer->context points at
  target,     \* the device the transfer was submitted to
  halted,     \* halted pipes, as <<device, endpoint>>
  plug,       \* how far handle_device_gone is with the imported device
  reused,     \* another device sits in the entry the imported one had
  flag,       \* s_removed_addr holds the imported device's address
  submitted, unlinked, answers, sock    \* the client's side: see UrbService

engine == <<pc, cur, why, devinfo, removed>>
table  == <<slot, sem, status>>
stack  == <<xfer, ctx, target, halted>>
host   == <<plug, reused, flag>>
client == <<submitted, unlinked, answers, sock>>
vars   == <<engine, table, aged, stack, host, client>>

Slots   == 0 .. NumSlots - 1
Devices == {"mine", "other"}
Results == {"completed", "stall", "canceled", "no_device"}
Errors  == {"EIO", "ENODEV", "ETIMEDOUT"}

InTable(u)  == \E i \in Slots : slot[i] = u
InFlight(u) == xfer[u] \in {"flight", "flushed"}

\* What the device registry holds at the session's index.
Entry == CASE plug \in {"present", "notified"} -> "mine"
           [] OTHER -> IF reused THEN "other" ELSE "none"

\* usb_host_mgr_get_handle finds the address of device d
HasHandle(d) == d = "mine" => plug # "closed"

Gone(d) == d = "mine" /\ plug # "present"

Init == /\ pc = "lookup" /\ cur = 0 /\ why = "none"
        /\ devinfo = "mine" /\ removed = FALSE
        /\ slot = [i \in Slots |-> NoUrb]
        /\ sem = [i \in Slots |-> "null"]
        /\ status = [i \in Slots |-> "error"]
        /\ aged = {}
        /\ xfer = [u \in Urbs |-> "idle"]
        /\ ctx = [u \in Urbs |-> 0]
        /\ target = [u \in Urbs |-> "mine"]
        /\ halted = {}
        /\ plug = "present" /\ reused = FALSE /\ flag = FALSE
        /\ submitted = {} /\ unlinked = {} /\ sock = "open"
        /\ answers = [u \in Urbs |-> <<>>]
-------------------------------------------------------------------------------
(* Helpers *)

\* A recv or a send on the socket returns, with an error if the client is gone.
Unheld == sock # "held"

\* An answer reaches the client only while the client is there.
Answer(u, a) ==
    /\ Unheld
    /\ answers' = IF sock = "open" THEN [answers EXCEPT ![u] = Append(@, a)]
                                   ELSE answers

\* Fault: the semaphore outlives the slot.
Free_KeepsSemaphore(i) == /\ slot' = [slot EXCEPT ![i] = NoUrb]
                          /\ status' = [status EXCEPT ![i] = "error"]
                          /\ aged' = aged \ {slot[i]}
                          /\ UNCHANGED sem

\* free_pending_slot.  Nothing reads an inactive slot, so its status is reset
\* (and its age forgotten) here instead of when the slot is next filled.
Free(i) == /\ slot' = [slot EXCEPT ![i] = NoUrb]
           /\ sem' = [sem EXCEPT ![i] = "null"]
           /\ status' = [status EXCEPT ![i] = "error"]
           /\ aged' = aged \ {slot[i]}

\* Fault: slots in use are not skipped.
LowestFree_IgnoresActive(i) == \A j \in Slots : j < i => slot[j] # NoUrb

\* find_free_slot
LowestFree(i) == /\ slot[i] = NoUrb
                 /\ \A j \in Slots : j < i => slot[j] # NoUrb

\* usb_host_endpoint_flush cancels every transfer of the endpoint.
Flush(d, e) == [u \in Urbs |->
                  IF xfer[u] = "flight" /\ target[u] = d /\ Ep[u] = e
                  THEN "flushed" ELSE xfer[u]]

Goto(label) == pc' = label /\ cur' = 0

\* The entry of cancel_pending_urb for slot i, with a handle of device d or none.
BeginCancel(i, d, handle, force, reason) ==
    LET e == Ep[slot[i]] IN
    /\ cur' = i
    /\ why' = reason
    /\ \/ /\ e = Control \/ ~handle
          /\ pc' = "plain"
          /\ UNCHANGED <<xfer, halted>>
       \/ /\ e # Control /\ handle /\ ~force
          /\ pc' = "gentle"
          /\ UNCHANGED <<xfer, halted>>
       \/ /\ e # Control /\ handle /\ force
          /\ pc' = "force"
          /\ xfer' = Flush(d, e)
          /\ halted' = halted \cup {<<d, e>>}
-------------------------------------------------------------------------------
(* The engine task: the start and the removal check *)

\* device_manager_lookup and _get, before the handle is fetched
Lookup == /\ pc = "lookup"
          /\ pc' = IF Entry = "mine" THEN "arm" ELSE "stopped"
          /\ UNCHANGED <<cur, why, devinfo, removed, table, aged, stack, host,
                         client>>

\* usb_host_mgr_get_handle, then the stale removal notification is cleared
Arm == /\ pc = "arm"
       /\ \/ /\ HasHandle("mine")
             /\ flag' = FALSE
             /\ pc' = "removal"
          \/ /\ ~HasHandle("mine")
             /\ pc' = "stopped"
             /\ UNCHANGED flag
       /\ UNCHANGED <<cur, why, devinfo, removed, table, aged, stack, plug,
                      reused, client>>

\* Fault: a removal leaves the loop without the cleanup.
CheckRemoval_NoCleanup ==
    /\ pc = "removal"
    /\ flag' = FALSE
    /\ pc' = IF flag /\ devinfo = "mine" THEN "stopped" ELSE "socket"
    /\ UNCHANGED <<cur, removed, why, devinfo, table, aged, stack, plug, reused,
                   client>>

\* usb_host_mgr_check_removal consumes the notification whoever it is for.
CheckRemoval ==
    /\ pc = "removal"
    /\ flag' = FALSE
    /\ \/ /\ flag /\ devinfo = "mine"
          /\ removed' = TRUE
          /\ Goto("cleanup")
       \/ /\ ~(flag /\ devinfo = "mine")
          /\ pc' = "socket"
          /\ UNCHANGED <<removed, cur>>
    /\ UNCHANGED <<why, devinfo, table, aged, stack, plug, reused, client>>
-------------------------------------------------------------------------------
(* The engine task, phase 1: one command from the socket *)

\* With the client gone the socket is always readable.
SocketIdle == /\ pc = "socket" /\ sock = "open"
              /\ Goto("scan")
              /\ UNCHANGED <<why, devinfo, removed, table, aged, stack, host,
                             client>>

\* End of stream, a select error, or a command the engine does not know.
SocketEnds == /\ pc = "socket" /\ Unheld
              /\ Goto("cleanup")
              /\ UNCHANGED <<why, devinfo, removed, table, aged, stack, host,
                             client>>

\* Fault: the error path forgets free_pending_slot.
RecvSubmitRefused_Leaks(u) ==
    /\ pc = "socket" /\ u \notin submitted
    /\ submitted' = submitted \cup {u}
    /\ \E i \in Slots : /\ LowestFree(i)
                        /\ slot' = [slot EXCEPT ![i] = u]
                        /\ sem' = [sem EXCEPT ![i] = "empty"]
    /\ Answer(u, "EIO")
    /\ Goto("scan")
    /\ UNCHANGED <<why, devinfo, removed, status, aged, stack, host, unlinked,
                   sock>>

\* handle_cmd_submit refuses: the table is full, memory is short or the host
\* stack rejects the transfer (EIO), or the device has no handle (ENODEV).
\* Whether the error reply could be sent is not looked at.
RecvSubmitRefused(u) ==
    /\ pc = "socket" /\ u \notin submitted
    /\ submitted' = submitted \cup {u}
    /\ \/ Answer(u, "EIO")
       \/ ~HasHandle(devinfo) /\ Answer(u, "ENODEV")
    /\ Goto("scan")
    /\ UNCHANGED <<why, devinfo, removed, table, aged, stack, host, unlinked,
                   sock>>

\* The data or the isochronous descriptors of the URB never arrive.
RecvSubmitCut(u) ==
    /\ pc = "socket" /\ u \notin submitted /\ sock = "dead"
    /\ submitted' = submitted \cup {u}
    /\ Goto("cleanup")
    /\ UNCHANGED <<why, devinfo, removed, table, aged, stack, host, unlinked,
                   answers, sock>>

\* The transfer is submitted; its callback will find the slot it lives in.
RecvSubmit(u) ==
    /\ pc = "socket" /\ Unheld /\ u \notin submitted
    /\ HasHandle(devinfo) /\ ~Gone(devinfo)
    /\ <<devinfo, Ep[u]>> \notin halted
    /\ submitted' = submitted \cup {u}
    /\ \E i \in Slots : /\ LowestFree(i)
                        /\ slot' = [slot EXCEPT ![i] = u]
                        /\ sem' = [sem EXCEPT ![i] = "empty"]
                        /\ ctx' = [ctx EXCEPT ![u] = i]
    /\ xfer' = [xfer EXCEPT ![u] = "flight"]
    /\ target' = [target EXCEPT ![u] = devinfo]
    /\ Goto("scan")
    /\ UNCHANGED <<why, devinfo, removed, status, aged, halted, host, unlinked,
                   answers, sock>>

\* handle_cmd_unlink of a URB in the table: the cancel begins gently.
RecvUnlink(u) ==
    /\ pc = "socket" /\ Unheld /\ u \in submitted \ unlinked
    /\ unlinked' = unlinked \cup {u}
    /\ \E i \in Slots : /\ slot[i] = u
                        /\ BeginCancel(i, devinfo, HasHandle(devinfo), FALSE,
                                       "unlink")
    /\ UNCHANGED <<devinfo, removed, table, aged, ctx, target, host, submitted,
                   answers, sock>>

\* Fault: RET_UNLINK says -ECONNRESET whether or not the URB was found.
RecvUnlinkLate_AlwaysReset(u) ==
    /\ pc = "socket" /\ u \in submitted \ unlinked /\ ~InTable(u)
    /\ unlinked' = unlinked \cup {u}
    /\ Answer(u, "unlinked")
    /\ Goto("scan")
    /\ UNCHANGED <<why, devinfo, removed, table, aged, stack, host, submitted,
                   sock>>

\* handle_cmd_unlink of a URB that is no longer there: RET_UNLINK says 0.
RecvUnlinkLate(u) ==
    /\ pc = "socket" /\ Unheld /\ u \in submitted \ unlinked /\ ~InTable(u)
    /\ unlinked' = unlinked \cup {u}
    /\ Goto("scan") \/ (sock = "dead" /\ Goto("cleanup"))
    /\ UNCHANGED <<why, devinfo, removed, table, aged, stack, host, submitted,
                   answers, sock>>
-------------------------------------------------------------------------------
(* The engine task, phases 2 and 3, and the cleanup *)

\* An inactive slot, or one whose transfer is still running.
ScanSkip == /\ pc = "scan" /\ cur \in Slots
            /\ \/ slot[cur] = NoUrb
               \/ sem[cur] = "empty" /\ slot[cur] \notin aged
            /\ cur' = cur + 1
            /\ UNCHANGED <<pc, why, devinfo, removed, table, aged, stack, host,
                           client>>

\* Fault: the stall is reported, the pipe stays halted.
ScanCompleted_NoClear ==
    /\ pc = "scan" /\ cur \in Slots /\ sem[cur] = "given"
    /\ Free(cur)
    /\ Answer(slot[cur], status[cur])
    /\ \/ pc' = "scan" /\ cur' = cur + 1
       \/ sock = "dead" /\ Goto("cleanup")
    /\ UNCHANGED <<why, devinfo, removed, stack, host, submitted, unlinked, sock>>

\* send_completed_reply: a stalled pipe is halted, flushed and cleared, then the
\* status the callback left in the slot is sent.
ScanCompleted ==
    /\ pc = "scan" /\ cur \in Slots /\ sem[cur] = "given"
    /\ IF status[cur] = "stall" /\ Ep[slot[cur]] # Control
       THEN /\ xfer' = Flush("mine", Ep[slot[cur]])
            /\ halted' = halted \ {<<"mine", Ep[slot[cur]]>>}
       ELSE UNCHANGED <<xfer, halted>>
    /\ Free(cur)
    /\ Answer(slot[cur], status[cur])
    /\ \/ pc' = "scan" /\ cur' = cur + 1
       \/ sock = "dead" /\ Goto("cleanup")
    /\ UNCHANGED <<why, devinfo, removed, ctx, target, host, submitted,
                   unlinked, sock>>

\* Fault: no URB is ever too old.
ScanTimeout_Never == FALSE

ScanTimeout ==
    /\ pc = "scan" /\ cur \in Slots
    /\ sem[cur] = "empty" /\ slot[cur] \in aged
    /\ BeginCancel(cur, "mine", TRUE, TRUE, "timeout")
    /\ UNCHANGED <<devinfo, removed, table, aged, ctx, target, host, client>>

ScanEnd == /\ pc = "scan" /\ cur \notin Slots
           /\ Goto("exists")
           /\ UNCHANGED <<why, devinfo, removed, table, aged, stack, host,
                          client>>

\* Fault: phase 3 does not look at the registry.
Exists_Unchecked == /\ pc = "exists"
                    /\ pc' = "removal"
                    /\ UNCHANGED <<cur, why, devinfo, removed, table, aged,
                                   stack, host, client>>

\* device_manager_get refreshes the engine's copy of the entry.
Exists == /\ pc = "exists"
          /\ \/ /\ Entry = "none"
                /\ removed' = TRUE
                /\ pc' = "cleanup"
                /\ UNCHANGED devinfo
             \/ /\ Entry # "none"
                /\ devinfo' = Entry
                /\ pc' = "removal"
                /\ UNCHANGED removed
          /\ UNCHANGED <<cur, why, table, aged, stack, host, client>>

CleanupSkip == /\ pc = "cleanup" /\ cur \in Slots /\ slot[cur] = NoUrb
               /\ cur' = cur + 1
               /\ UNCHANGED <<pc, why, devinfo, removed, table, aged, stack,
                              host, client>>

CleanupCancel ==
    /\ pc = "cleanup" /\ cur \in Slots /\ slot[cur] # NoUrb
    /\ BeginCancel(cur, "mine", ~removed, TRUE, "cleanup")
    /\ UNCHANGED <<devinfo, removed, table, aged, ctx, target, host, client>>

CleanupEnd == /\ pc = "cleanup" /\ cur \notin Slots
              /\ Goto("stopped")
              /\ UNCHANGED <<why, devinfo, removed, table, aged, stack, host,
                             client>>
-------------------------------------------------------------------------------
(* The waits of cancel_pending_urb *)

CancelDevice == IF why = "unlink" THEN devinfo ELSE "mine"

\* What the caller of cancel_pending_urb does next: one answer, the slot freed.
Finish ==
    LET u == slot[cur] IN
    /\ Free(cur)
    /\ \/ /\ why = "unlink"
          /\ Answer(u, "unlinked")
          /\ Goto("scan") \/ (sock = "dead" /\ Goto("cleanup"))
       \/ /\ why = "timeout"
          /\ Answer(u, "ETIMEDOUT")
          /\ pc' = "scan" /\ cur' = cur + 1
       \/ /\ why = "cleanup"
          /\ Answer(u, "ENODEV")
          /\ pc' = "cleanup" /\ cur' = cur + 1
    /\ why' = "none"
    /\ UNCHANGED <<devinfo, removed, ctx, target, host, submitted, unlinked,
                   sock>>

\* usb_host_endpoint_clear follows the forced wait, and only that one.
ClearAfterForce ==
    halted' = IF pc = "force"
              THEN halted \ {<<CancelDevice, Ep[slot[cur]]>>} ELSE halted

WaitTaken == /\ pc \in {"gentle", "force", "plain"}
             /\ sem[cur] = "given"
             /\ ClearAfterForce
             /\ Finish
             /\ UNCHANGED xfer

\* Fault: the gentle wait runs out and the slot is freed at once.
GentleExpires_NoForce == /\ pc = "gentle" /\ sem[cur] = "empty"
                         /\ Finish
                         /\ UNCHANGED <<xfer, halted>>

\* The gentle wait runs out: halt, flush and wait again.
GentleExpires == /\ pc = "gentle" /\ sem[cur] = "empty"
                 /\ BeginCancel(cur, devinfo, TRUE, TRUE, why)
                 /\ UNCHANGED <<devinfo, removed, table, aged, ctx, target,
                                host, client>>

\* The last wait runs out: its result is not looked at and the slot is freed.
LastWaitExpires == /\ pc \in {"force", "plain"}
                   /\ sem[cur] = "empty"
                   /\ Ep[slot[cur]] \notin Prompt
                   /\ ClearAfterForce
                   /\ Finish
                   /\ UNCHANGED xfer

Terminated == pc \in {"stopped", "panic"} /\ UNCHANGED vars
-------------------------------------------------------------------------------
(* The other tasks *)

\* What happens after the session is of no consequence to it, but for a callback
\* that comes late.
Running == pc \notin {"stopped", "panic"}

\* How the host stack may end transfer u now.  "completed" stands for every
\* status that leaves the pipe usable.
Outcomes(u) == CASE xfer[u] = "flushed" -> {"canceled", "completed"}
                 [] xfer[u] # "flushed" /\ Gone(target[u]) -> {"no_device"}
                 [] OTHER -> IF <<target[u], Ep[u]>> \in halted THEN {}
                             ELSE {"completed", "stall"}

\* transfer_cb writes through transfer->context, whatever is there by now; a
\* semaphore that was deleted fails an assertion of the kernel.
Callback(u, result) ==
    /\ pc # "panic" /\ InFlight(u) /\ result \in Outcomes(u)
    /\ xfer' = [xfer EXCEPT ![u] = result]
    /\ halted' = IF result = "stall" /\ Ep[u] # Control
                 THEN halted \cup {<<target[u], Ep[u]>>} ELSE halted
    /\ \/ /\ sem[ctx[u]] # "null"
          /\ status' = [status EXCEPT ![ctx[u]] = result]
          /\ sem' = [sem EXCEPT ![ctx[u]] = "given"]
          /\ UNCHANGED pc
       \/ /\ sem[ctx[u]] = "null"
          /\ pc' = "panic"
          /\ UNCHANGED <<status, sem>>
    /\ UNCHANGED <<cur, why, devinfo, removed, slot, aged, ctx, target, host,
                   client>>

\* 120 s pass since the URB was submitted.
Age(u) == /\ Running /\ InTable(u) /\ InFlight(u) /\ u \notin aged
          /\ aged' = aged \cup {u}
          /\ UNCHANGED <<engine, table, stack, host, client>>

\* The client is there, but has sent only a part of a header or of a URB's data,
\* or does not read what it is sent ...
Hold == /\ Running /\ sock = "open"
        /\ sock' = "held"
        /\ UNCHANGED <<engine, table, aged, stack, host, submitted, unlinked,
                       answers>>

\* ... and goes on.
LetGo == /\ Running /\ sock = "held"
         /\ sock' = "open"
         /\ UNCHANGED <<engine, table, aged, stack, host, submitted, unlinked,
                        answers>>

Disconnect == /\ Running /\ sock # "dead"
              /\ sock' = "dead"
              /\ UNCHANGED <<engine, table, aged, stack, host, submitted,
                             unlinked, answers>>

\* handle_device_gone: the notification, the registry, then the handle
Unplug == /\ Running
          /\ \/ plug = "present"      /\ plug' = "notified" /\ flag' = TRUE
             \/ plug = "notified"     /\ plug' = "unregistered" /\ UNCHANGED flag
             \/ plug = "unregistered" /\ plug' = "closed" /\ UNCHANGED flag
          /\ UNCHANGED <<engine, table, aged, stack, reused, client>>

\* handle_new_device gives the freed entry to another device.
PlugOther == /\ Running /\ Replug /\ ~reused /\ plug \in {"unregistered", "closed"}
             /\ reused' = TRUE
             /\ UNCHANGED <<engine, table, aged, stack, plug, flag, client>>

\* Another session polls or clears the one removal notification, or the removal
\* of another device overwrites it.
LoseFlag == /\ Running /\ flag
            /\ flag' = FALSE
            /\ UNCHANGED <<engine, table, aged, stack, plug, reused, client>>
-------------------------------------------------------------------------------
Engine == \/ Lookup \/ Arm \/ CheckRemoval \/ SocketIdle \/ SocketEnds
          \/ \E u \in Urbs : \/ RecvSubmitRefused(u) \/ RecvSubmitCut(u)
                             \/ RecvSubmit(u)
                             \/ RecvUnlink(u) \/ RecvUnlinkLate(u)
          \/ ScanSkip \/ ScanCompleted \/ ScanTimeout \/ ScanEnd \/ Exists
          \/ CleanupSkip \/ CleanupCancel \/ CleanupEnd
          \/ WaitTaken \/ GentleExpires \/ LastWaitExpires

HostStack == \E u \in Urbs : \E result \in Results : Callback(u, result)

Environment == \/ \E u \in Urbs : Age(u)
               \/ Hold \/ LetGo \/ Disconnect \/ Unplug \/ PlugOther \/ LoseFlag

Next == Engine \/ HostStack \/ Environment \/ Terminated

\* A callback the host stack owes: the transfer was flushed, its device is gone,
\* or it is a control transfer, which every device answers.
OwedCallback(u) == /\ \/ xfer[u] = "flushed"
                      \/ Gone(target[u])
                      \/ Ep[u] = Control
                   /\ \E result \in Results : Callback(u, result)

\* The engine task gets on unless it is in a recv or a send that a client holds
\* up; its other waits have a time limit.  The clock advances, and a removal that
\* has begun runs to its end.  No client has to let go of the engine, and no device
\* has to complete a data transfer.
Fairness == /\ WF_vars(Engine)
            /\ \A u \in Urbs : WF_vars(OwedCallback(u)) /\ WF_vars(Age(u))
            /\ WF_vars(plug # "present" /\ Unplug)

SafeSpec == Init /\ [][Next]_vars
Spec == SafeSpec /\ Fairness
-------------------------------------------------------------------------------
(* Properties *)

Labels == {"lookup", "arm", "removal", "socket", "scan", "exists", "cleanup",
           "gentle", "force", "plain", "stopped", "panic"}

\* Types, and the shape of s_pending: a slot is active exactly when it has a
\* semaphore, and no two active slots hold the same URB.
TypeOK ==
    /\ pc \in Labels /\ cur \in 0 .. NumSlots
    /\ why \in {"none", "unlink", "timeout", "cleanup"}
    /\ devinfo \in Devices /\ removed \in BOOLEAN
    /\ slot \in [Slots -> Urbs \cup {NoUrb}]
    /\ sem \in [Slots -> {"null", "empty", "given"}]
    /\ status \in [Slots -> Results \cup {"error"}]
    /\ aged \subseteq Urbs
    /\ xfer \in [Urbs -> {"idle", "flight", "flushed"} \cup Results]
    /\ ctx \in [Urbs -> Slots] /\ target \in [Urbs -> Devices]
    /\ halted \subseteq Devices \X Endpoints
    /\ plug \in {"present", "notified", "unregistered", "closed"}
    /\ reused \in BOOLEAN /\ flag \in BOOLEAN
    /\ submitted \subseteq Urbs /\ unlinked \subseteq submitted
    /\ answers \in [Urbs -> Seq(Results \cup Errors \cup {"unlinked"})]
    /\ sock \in {"open", "held", "dead"}
    /\ \A i \in Slots : sem[i] = "null" <=> slot[i] = NoUrb
    /\ \A i, j \in Slots : slot[i] = slot[j] /\ slot[i] # NoUrb => i = j

\* A URB gets at most one answer, whatever mixture of completion, unlink,
\* timeout, unplug and cleanup it meets, and no answer while it is in the table:
\* a second RET_SUBMIT for a sequence number corrupts the client's queue.
OneAnswer == \A u \in Urbs : /\ Len(answers[u]) <= 1
                             /\ InTable(u) => answers[u] = <<>>

\* No URB is forgotten: once taken from the socket it is in the table, or it has
\* been answered, or the client is gone.
NoneForgotten == \A u \in submitted :
                     InTable(u) \/ answers[u] # <<>> \/ sock = "dead"

\* The host stack never holds a transfer whose slot has been freed or given to
\* another URB: cancel_pending_urb must not return before the callback ran
\* ("MUST force-cancel to prevent use-after-free when we free the slot but the
\* transfer is still in-flight").
InFlightOwned == \A u \in Urbs : InFlight(u) => slot[ctx[u]] = u

\* A RET_SUBMIT that carries a transfer's status carries the status of that very
\* transfer, not what a callback of an earlier user of the slot left there.
HonestReply ==
    \A u \in Urbs : \A k \in DOMAIN answers[u] :
        answers[u][k] \in Results => answers[u][k] = xfer[u]

\* A session that has ended left nothing in the table.
TableDrained == pc = "stopped" => \A i \in Slots : slot[i] = NoUrb

\* Once the device is being removed or the client is gone, the session ends,
\* although the removal notification may be lost to another session, unless the
\* client holds the engine up over and over or for good.
SessionEnds == <>[]Unheld =>
                   ((plug # "present" \/ sock = "dead") ~> pc = "stopped")

\* A URB is not submitted to a device the client did not import.
OwnDevice == \A u \in Urbs : target[u] = "mine"

\* "After a STALL, ESP-IDF puts the endpoint pipe into halted state.  We must
\* clear it so subsequent transfers can be submitted": when the engine is back in
\* its loop, a halted pipe is one whose stalled URB is still to be replied to, or
\* was unlinked before it could be.
StallClearedUnlessUnlinked ==
    pc = "removal" /\ plug = "present" =>
        \A p \in halted :
            \/ \E i \in Slots : /\ sem[i] = "given" /\ status[i] = "stall"
                                /\ Ep[slot[i]] = p[2]
            \/ \E u \in unlinked : xfer[u] = "stall" /\ Ep[u] = p[2]

\* The session implements the service promised to the client: safety alone when
\* callbacks may be late and entries reused, with liveness when they may not.
Service == INSTANCE UrbService WITH Statuses <- Results \cup Errors
ImplementsSafety == Service!SafeSpec
Implements == Service!Spec
===============================================================================
