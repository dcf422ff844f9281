------------------------------ MODULE UsbipServer ------------------------------
(***************************************************************************)
(* The accept loop of usbip_server_task, over AccessControl: it takes one   *)
(* connection at a time, turns it away when memory is short or its address  *)
(* is not allowed, and hands it to a connection handler task of its own.    *)
(* What the handler does with it is Connection's and TransferEngine's       *)
(* matter.  The loop never ends: nothing calls usbip_server_stop.           *)
(***************************************************************************)
EXTENDS AccessControl

CONSTANTS Clients,   \* connections that may be made
          NoClient,
          Address    \* the address each is made from

ASSUME ClientsAssumption == /\ NoClient \notin Clients
                            /\ Address \in [Clients -> Addresses]

VARIABLES
  spc,        \* where the accept loop is
  hand,       \* the connection it is deciding about
  backlog,    \* connections made and not yet accepted, oldest first
  fds,        \* connections with an open descriptor on this side
  handlers    \* connections with a handler task

server == <<spc, hand, backlog, fds, handlers>>
vars   == <<aclVars, server>>

Waiting == {backlog[i] : i \in DOMAIN backlog} \cup {hand}

Init == /\ AclInit
        /\ spc = "accept" /\ hand = NoClient /\ backlog = <<>>
        /\ fds = {} /\ handlers = {}
--------------------------------------------------------------------------------
\* close(client_fd) and the next round
TurnAway == /\ fds' = fds \ {hand}
            /\ hand' = NoClient /\ spc' = "accept"

Accept == /\ spc = "accept" /\ backlog # <<>>
          /\ hand' = Head(backlog) /\ backlog' = Tail(backlog)
          /\ fds' = fds \cup {hand'}
          /\ spc' = "memory"
          /\ UNCHANGED <<aclVars, handlers>>

\* accept() fails on a connection that was given up meanwhile.
AcceptFails == /\ spc = "accept" /\ backlog # <<>>
               /\ backlog' = Tail(backlog)
               /\ UNCHANGED <<aclVars, spc, hand, fds, handlers>>

\* Less than 32 KB of internal memory is free.
MemoryLow == /\ spc = "memory"
             /\ TurnAway
             /\ UNCHANGED <<aclVars, backlog, handlers>>

MemoryFine == /\ spc = "memory"
              /\ CheckBegin(Address[hand])
              /\ spc' = "check"
              /\ UNCHANGED <<elementFirst, hand, backlog, fds, handlers>>

Check == /\ spc = "check"
         /\ CheckLoad \/ CheckNext
         /\ UNCHANGED <<elementFirst, server>>

\* Fault: a refused connection is forgotten, not closed.
Decide_Forgets == /\ spc = "check" /\ CheckEnd
                  /\ IF verdict = "denied"
                     THEN spc' = "accept" /\ hand' = NoClient
                     ELSE spc' = "spawn" /\ UNCHANGED hand
                  /\ UNCHANGED <<elementFirst, backlog, fds, handlers>>

Decide == /\ spc = "check" /\ CheckEnd
          /\ \/ verdict = "denied" /\ TurnAway
             \/ verdict # "denied" /\ spc' = "spawn" /\ UNCHANGED <<hand, fds>>
          /\ UNCHANGED <<elementFirst, backlog, handlers>>

\* The context is allocated and the handler task created ...
Spawn == /\ spc = "spawn"
         /\ handlers' = handlers \cup {hand}
         /\ hand' = NoClient /\ spc' = "accept"
         /\ UNCHANGED <<aclVars, backlog, fds>>

\* ... or one of the two fails.
SpawnFails == /\ spc = "spawn"
              /\ TurnAway
              /\ UNCHANGED <<aclVars, backlog, handlers>>

\* The handler task is through with the connection, and closes it.
HandlerEnds(c) == /\ c \in handlers
                  /\ handlers' = handlers \ {c} /\ fds' = fds \ {c}
                  /\ UNCHANGED <<aclVars, spc, hand, backlog>>

Connect(c) == /\ c \notin Waiting \cup fds
              /\ backlog' = Append(backlog, c)
              /\ UNCHANGED <<aclVars, spc, hand, fds, handlers>>

Restart == /\ AclRestart
           /\ spc' = "accept" /\ hand' = NoClient /\ backlog' = <<>>
           /\ fds' = {} /\ handlers' = {}
           /\ UNCHANGED elementFirst

AclPost == Http /\ UNCHANGED <<elementFirst, server>>

Loop == \/ Accept \/ AcceptFails \/ MemoryLow \/ MemoryFine
        \/ Check \/ Decide \/ Spawn \/ SpawnFails

Next == \/ Loop
        \/ \E c \in Clients : HandlerEnds(c) \/ Connect(c)
        \/ AclPost \/ Restart

\* The accept task is never blocked for good while a connection waits: what it
\* calls does not wait.  Nothing is assumed of the other tasks.
Spec == Init /\ [][Next]_vars /\ WF_vars(Loop)
--------------------------------------------------------------------------------
(* Properties *)

\* Types, and one check at a time, for the connection in the loop's hand.
TypeOK == /\ AclTypeOK
          /\ spc \in {"accept", "memory", "check", "spawn"}
          /\ hand \in Clients \cup {NoClient} /\ backlog \in Seq(Clients)
          /\ fds \subseteq Clients /\ handlers \subseteq fds
          /\ ip = IF spc = "check" THEN Address[hand] ELSE NoAddress

\* A descriptor is open only for the connection the loop is deciding about and
\* for those a handler owns: no way out of the loop body leaks one.
NoDescriptorLeak == fds = handlers \cup ({hand} \ {NoClient})

\* Every connection made is decided about, whatever is posted meanwhile: it gets
\* a handler or is closed.
EveryoneDecided == \A c \in Clients : c \in Waiting ~> c \notin Waiting
================================================================================
