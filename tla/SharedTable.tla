------------------------------ MODULE SharedTable ------------------------------
(***************************************************************************)
(* Several sessions at a time over the one table of pending URBs: s_pending *)
(* is static, so every transfer_engine_run clears it when it starts, scans  *)
(* all of it in every round and empties it when it ends, on behalf of its   *)
(* own client.  A session takes one step per slot.                          *)
(*                                                                          *)
(* What one session does with its own URBs is TransferEngine's matter; here *)
(* a transfer is in flight and then done, a cancel waits for it to be done, *)
(* and unlinks, timeouts, stalls and the device's removal are left out.     *)
(***************************************************************************)
EXTENDS Naturals

CONSTANTS Sessions,
          Urbs,
          Submitter,  \* the session whose client submits each URB
          NoUrb,
          NumSlots    \* MAX_PENDING_URBS

VARIABLES
  run,        \* per session: "new", "loop", "cleanup", "ended"
  cur,        \* the slot its walk over the table is at; NumSlots: not in a walk
  slot, sem,  \* s_pending
  xfer, ctx,  \* the host stack's transfers and their contexts
  replies,    \* <<s, u>>: a reply to u was sent on the socket of s
  panic       \* a callback gave a semaphore that is not there

vars == <<run, cur, slot, sem, xfer, ctx, replies, panic>>

Slots == 0 .. NumSlots - 1

Init == /\ run = [s \in Sessions |-> "new"]
        /\ cur = [s \in Sessions |-> NumSlots]
        /\ slot = [i \in Slots |-> NoUrb] /\ sem = [i \in Slots |-> "null"]
        /\ xfer = [u \in Urbs |-> "idle"] /\ ctx = [u \in Urbs |-> 0]
        /\ replies = {} /\ panic = FALSE
--------------------------------------------------------------------------------
\* memset of the table
Start(s) == /\ run[s] = "new"
            /\ run' = [run EXCEPT ![s] = "loop"]
            /\ slot' = [i \in Slots |-> NoUrb]
            /\ sem' = [i \in Slots |-> "null"]
            /\ UNCHANGED <<cur, xfer, ctx, replies, panic>>

\* handle_cmd_submit, in the lowest free slot
Submit(u) ==
    /\ run[Submitter[u]] = "loop" /\ cur[Submitter[u]] = NumSlots
    /\ xfer[u] = "idle"
    /\ \E i \in Slots :
          /\ slot[i] = NoUrb /\ \A j \in Slots : j < i => slot[j] # NoUrb
          /\ slot' = [slot EXCEPT ![i] = u] /\ sem' = [sem EXCEPT ![i] = "empty"]
          /\ ctx' = [ctx EXCEPT ![u] = i]
    /\ xfer' = [xfer EXCEPT ![u] = "flight"]
    /\ cur' = [cur EXCEPT ![Submitter[u]] = 0]
    /\ UNCHANGED <<run, replies, panic>>

\* Nothing to read: the round goes on to the scan.
NoCommand(s) == /\ run[s] = "loop" /\ cur[s] = NumSlots
                /\ cur' = [cur EXCEPT ![s] = 0]
                /\ UNCHANGED <<run, slot, sem, xfer, ctx, replies, panic>>

\* The client is gone: the cleanup walk begins.
Leave(s) == /\ run[s] = "loop" /\ cur[s] = NumSlots
            /\ run' = [run EXCEPT ![s] = "cleanup"]
            /\ cur' = [cur EXCEPT ![s] = 0]
            /\ UNCHANGED <<slot, sem, xfer, ctx, replies, panic>>

\* The walk passes a slot that is inactive or, in the loop, still running.
Pass(s) == /\ cur[s] \in Slots
           /\ \/ slot[cur[s]] = NoUrb
              \/ run[s] = "loop" /\ sem[cur[s]] = "empty"
           /\ cur' = [cur EXCEPT ![s] = @ + 1]
           /\ UNCHANGED <<run, slot, sem, xfer, ctx, replies, panic>>

\* The slot's URB is replied to on the session's own socket, and the slot freed:
\* in the loop because it is done, in the cleanup once its cancel waited for it.
Reply(s) == /\ cur[s] \in Slots /\ slot[cur[s]] # NoUrb
            /\ sem[cur[s]] = "given"
            /\ replies' = replies \cup {<<s, slot[cur[s]]>>}
            /\ slot' = [slot EXCEPT ![cur[s]] = NoUrb]
            /\ sem' = [sem EXCEPT ![cur[s]] = "null"]
            /\ cur' = [cur EXCEPT ![s] = @ + 1]
            /\ UNCHANGED <<run, xfer, ctx, panic>>

CleanupEnd(s) == /\ run[s] = "cleanup" /\ cur[s] = NumSlots
                 /\ run' = [run EXCEPT ![s] = "ended"]
                 /\ UNCHANGED <<cur, slot, sem, xfer, ctx, replies, panic>>

\* transfer_cb
Callback(u) == /\ xfer[u] = "flight"
               /\ xfer' = [xfer EXCEPT ![u] = "done"]
               /\ IF sem[ctx[u]] = "null"
                  THEN panic' = TRUE /\ UNCHANGED sem
                  ELSE sem' = [sem EXCEPT ![ctx[u]] = "given"] /\ UNCHANGED panic
               /\ UNCHANGED <<run, cur, slot, ctx, replies>>

Terminated == /\ panic \/ \A s \in Sessions : run[s] = "ended"
              /\ UNCHANGED vars

Session(s) == \/ Start(s) \/ NoCommand(s) \/ Leave(s)
              \/ Pass(s) \/ Reply(s) \/ CleanupEnd(s)

Next == \/ /\ ~panic
           /\ \/ \E s \in Sessions : Session(s)
              \/ \E u \in Urbs : Submit(u) \/ Callback(u)
        \/ Terminated

Spec == Init /\ [][Next]_vars
--------------------------------------------------------------------------------
(* Properties *)

\* With several devices exported at a time ("multiple transfer_engine_run
\* instances"), each client gets the replies to its own URBs.
RepliesToOwner == \A r \in replies : Submitter[r[2]] = r[1]
================================================================================
