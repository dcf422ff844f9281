------------------------------ MODULE WsHandler -------------------------------
(***************************************************************************)
(* The live feed of the web interface: the table of WebSocket clients, the  *)
(* two tasks that broadcast to it (the 500 ms timer, and the class driver    *)
(* of the USB host manager after each change), and the HTTP server's task   *)
(* that fills and empties it, over the event log and the device registry.   *)
(*                                                                          *)
(* A broadcast takes a copy of the table, reads the registry one entry at a  *)
(* time and the log, and then sends to the copy, one client at a time.      *)
(*                                                                          *)
(* The HTTP server is external: one task, at most MaxSockets sessions; an   *)
(* asynchronous send fails if the descriptor is none of its sessions or if  *)
(* the connection is broken.  The class driver is what UsbHostMgr describes, *)
(* reduced to its changes of the registry; the two lines it logs for a       *)
(* change are one event.  Exports, the release that a message may ask for   *)
(* (WebGet and WebRelease of Connection), the mDNS record, authentication   *)
(* and JSON are left out.                                                   *)
(***************************************************************************)
EXTENDS EventLog, DeviceManager, FiniteSets

CONSTANTS Fds,        \* descriptors of the HTTP server's sockets
          Zero,       \* descriptor 0, which is no socket
          NoFd,       \* a free slot: -1
          MaxClients, \* WS_MAX_CLIENTS
          LogLines,   \* LOG_BROADCAST_COUNT
          Timer,      \* could webui_init create its timer?
          MaxFailures \* bound on failed allocations and broken connections

ASSUME FeedAssumption == /\ Zero \notin Fds /\ NoFd \notin Fds /\ Zero # NoFd
                         /\ MaxClients \in Nat \ {0} /\ LogLines \in Nat \ {0}
                         /\ MaxFailures \in Nat /\ Timer \in BOOLEAN

VARIABLES
  ws_fds,     \* the clients of the feed; zeroed memory until ws_handler_init
  up,         \* has webui_init been through?
  session,    \* per descriptor, the HTTP session: "none", "open" or "broken"
  hpc,        \* the descriptor the HTTP task is about to close, or NoFd
  bpc,        \* per broadcaster: "idle", "begin", "count", "rows", "send", "drop"
  fds,        \* its copy of ws_fds
  at,         \* the entry or the slot its loop is at
  dev_count,  \* the number of devices it expects
  rows,       \* the devices listed so far
  news,       \* the newest event in its frame, 0 if there is none
  unseen,     \* devices that have yet to be plugged in
  callers,    \* descriptors that connections will get
  failures    \* allocations and connections that have failed

web       == <<up, session, hpc, callers>>
broadcast == <<bpc, fds, at, dev_count, rows, news>>
vars      == <<log, registry, ws_fds, web, broadcast, unseen, failures>>

Casters == {"timer", "driver"}
Slots   == 0 .. MaxClients - 1
Empty   == [i \in Slots |-> NoFd]

Registered(f) == \E i \in Slots : ws_fds[i] = f
Present       == {dev[i] : i \in {j \in Entries : InUse(j)}}

Init == /\ LogInit
        /\ RegistryInit
        /\ ws_fds = [i \in Slots |-> Zero]
        /\ up = FALSE
        /\ session = [f \in Fds |-> "none"]
        /\ hpc = NoFd
        /\ bpc = [b \in Casters |-> "idle"]
        /\ fds = [b \in Casters |-> Empty]
        /\ at = [b \in Casters |-> 0]
        /\ dev_count = [b \in Casters |-> 0]
        /\ rows = [b \in Casters |-> {}]
        /\ news = [b \in Casters |-> 0]
        /\ unseen \in SUBSET Devices
        /\ callers \in SUBSET Fds
        /\ failures = 0
-------------------------------------------------------------------------------
(* The table, each operation under ws_fds_lock *)

\* Fault: a client is not looked for before it gets a slot.
Register_Twice(f) ==
    ws_fds' = IF Registered(NoFd)
              THEN [ws_fds EXCEPT ![CHOOSE i \in Slots :
                       /\ ws_fds[i] = NoFd
                       /\ \A j \in Slots : j < i => ws_fds[j] # NoFd] = f]
              ELSE ws_fds

\* ws_register_fd: the lowest free slot, if there is one and f has none yet
Register(f) ==
    ws_fds' = IF Registered(NoFd) /\ ~Registered(f)
              THEN [ws_fds EXCEPT ![CHOOSE i \in Slots :
                       /\ ws_fds[i] = NoFd
                       /\ \A j \in Slots : j < i => ws_fds[j] # NoFd] = f]
              ELSE ws_fds

\* ws_unregister_fd: the lowest slot that has f
Unregister(f) ==
    ws_fds' = [i \in Slots |->
                  IF ws_fds[i] = f /\ \A j \in Slots : j < i => ws_fds[j] # f
                  THEN NoFd ELSE ws_fds[i]]
-------------------------------------------------------------------------------
(* The HTTP server's task *)

\* webui_init: the table is initialised before the /ws handler is registered.
WebInit == /\ ~up
           /\ up' = TRUE
           /\ ws_fds' = Empty
           /\ UNCHANGED <<log, registry, session, hpc, callers, broadcast, unseen, failures>>

\* A connection gets a descriptor, perhaps one that was closed a moment ago.
Accept(f) == /\ up /\ hpc = NoFd /\ session[f] = "none" /\ f \in callers
             /\ session' = [session EXCEPT ![f] = "open"]
             /\ UNCHANGED <<log, registry, ws_fds, up, hpc, callers, broadcast, unseen, failures>>

\* The handshake, and every later message: the client is registered.
Message(f) == /\ hpc = NoFd /\ session[f] = "open"
              /\ Register(f)
              /\ UNCHANGED <<log, registry, web, broadcast, unseen, failures>>

\* The client is gone without a word.
Break(f) == /\ session[f] = "open" /\ failures < MaxFailures
            /\ session' = [session EXCEPT ![f] = "broken"]
            /\ failures' = failures + 1
            /\ UNCHANGED <<log, registry, ws_fds, up, hpc, callers, broadcast, unseen>>

\* Fault: the hook only closes the socket.
OnSockClose_Forgets(f) ==
    /\ hpc = NoFd /\ session[f] # "none"
    /\ hpc' = f
    /\ UNCHANGED <<log, registry, ws_fds, up, session, callers, broadcast, unseen, failures>>

\* on_sock_close: the client is unregistered, then the descriptor is closed.
OnSockClose(f) ==
    /\ hpc = NoFd /\ session[f] # "none"
    /\ Unregister(f)
    /\ hpc' = f
    /\ UNCHANGED <<log, registry, up, session, callers, broadcast, unseen, failures>>

CloseSocket == /\ hpc # NoFd
               /\ session' = [session EXCEPT ![hpc] = "none"]
               /\ hpc' = NoFd
               /\ UNCHANGED <<log, registry, ws_fds, up, callers, broadcast, unseen, failures>>
-------------------------------------------------------------------------------
(* The class driver *)

Goto(b, label) == bpc' = [bpc EXCEPT ![b] = label]

\* handle_new_device and handle_device_gone: the registry and the log
Plug(d) == /\ bpc["driver"] = "idle" /\ d \in unseen
           /\ \E i \in Entries : ~InUse(i)
           /\ Add(d) /\ LogAdd(total + 1)
           /\ unseen' = unseen \ {d}
           /\ Goto("driver", "begin")
           /\ UNCHANGED <<ws_fds, web, fds, at, dev_count, rows, news, failures>>

Unplug(d) == /\ bpc["driver"] = "idle" /\ d \in Present
             /\ Remove(d) /\ LogAdd(total + 1)
             /\ Goto("driver", "begin")
             /\ UNCHANGED <<ws_fds, web, fds, at, dev_count, rows, news, unseen, failures>>

\* Any other task logs something.
OtherEvent == /\ LogAdd(total + 1)
              /\ UNCHANGED <<registry, ws_fds, web, broadcast, unseen, failures>>
-------------------------------------------------------------------------------
(* ws_broadcast_stats *)

Ready(b) == bpc[b] = IF b = "timer" THEN "idle" ELSE "begin"

Done(b) == /\ Goto(b, "idle")
           /\ fds' = [fds EXCEPT ![b] = Empty]
           /\ at' = [at EXCEPT ![b] = 0]
           /\ dev_count' = [dev_count EXCEPT ![b] = 0]
           /\ rows' = [rows EXCEPT ![b] = {}]
           /\ news' = [news EXCEPT ![b] = 0]

\* The timer, if it could be created, is started at the end of webui_init.  Without
\* clients there is nothing to do: the timer then takes no step.
Skip(b) == /\ Ready(b) /\ b = "driver"
           /\ ws_fds = Empty
           /\ Done(b)
           /\ UNCHANGED <<log, registry, ws_fds, web, unseen, failures>>

Snapshot(b) == /\ Ready(b) /\ (b = "timer" => up /\ Timer)
               /\ ws_fds # Empty
               /\ fds' = [fds EXCEPT ![b] = ws_fds]
               /\ Goto(b, "count")
               /\ UNCHANGED <<log, registry, ws_fds, web, at, dev_count, rows, news, unseen,
                              failures>>

\* No memory for the frame: this broadcast is not made.
NoMemory(b) == /\ bpc[b] = "count" /\ failures < MaxFailures
               /\ failures' = failures + 1
               /\ Done(b)
               /\ UNCHANGED <<log, registry, ws_fds, web, unseen>>

\* build_devices_json: the count ...
Count(b) == /\ bpc[b] = "count"
            /\ dev_count' = [dev_count EXCEPT ![b] = Cardinality(Present)]
            /\ Goto(b, "rows")
            /\ UNCHANGED <<log, registry, ws_fds, web, fds, at, rows, news, unseen, failures>>

\* Fault: the loop ends at the number of devices, not at the last entry.
MoreRows_ByIndex(b) == at[b] < dev_count[b]

MoreRows(b) == at[b] < NumEntries /\ Cardinality(rows[b]) < dev_count[b]

\* ... and then entry after entry, until as many are listed.
Row(b) == /\ bpc[b] = "rows" /\ MoreRows(b)
          /\ rows' = [rows EXCEPT ![b] =
                         IF InUse(at[b]) THEN @ \cup {dev[at[b]]} ELSE @]
          /\ at' = [at EXCEPT ![b] = @ + 1]
          /\ UNCHANGED <<log, registry, ws_fds, web, bpc, fds, dev_count, news, unseen,
                         failures>>

Target(b) == fds[b][at[b]]

\* The slots that a broadcast has yet to send to, from slot i on
Ahead(b, i) == {j \in Slots : j >= i /\ fds[b][j] # NoFd}

\* Fault: the loop ends at the first free slot.
Following_Stops(b, i) == IF i \in Slots /\ fds[b][i] # NoFd THEN {i} ELSE {}

\* The next of them, if there is one: free slots are passed over.
Following(b, i) == {j \in Ahead(b, i) : \A k \in Ahead(b, i) : j <= k}

\* The loop goes on behind slot i, or the broadcast is done.
GoOn(b, i) == \/ /\ Following(b, i) = {}
                 /\ Done(b)
              \/ /\ \E j \in Following(b, i) : at' = [at EXCEPT ![b] = j]
                 /\ Goto(b, "send")
                 /\ UNCHANGED <<fds, dev_count, rows, news>>

\* build_logs_json; without memory the list is empty.
Lines(b) == /\ bpc[b] = "rows" /\ ~MoreRows(b)
            /\ LET lines == Recent(LogLines) IN
               \/ /\ news' = [news EXCEPT ![b] = IF lines = <<>> THEN 0 ELSE lines[1]]
                  /\ UNCHANGED failures
               \/ /\ failures < MaxFailures
                  /\ failures' = failures + 1
                  /\ UNCHANGED news
            /\ \E i \in Following(b, 0) : at' = [at EXCEPT ![b] = i]
            /\ Goto(b, "send")
            /\ UNCHANGED <<log, registry, ws_fds, web, fds, dev_count, rows, unseen>>

\* httpd_ws_send_frame_async succeeds.
Sends(f) == f \in Fds /\ session[f] = "open"

Send(b) == /\ bpc[b] = "send"
           /\ \/ /\ Sends(Target(b))
                 /\ GoOn(b, at[b] + 1)
              \/ /\ ~Sends(Target(b))
                 /\ Goto(b, "drop")
                 /\ UNCHANGED <<fds, at, dev_count, rows, news>>
           /\ UNCHANGED <<log, registry, ws_fds, up, session, hpc, callers, unseen, failures>>

\* The send failed: the client is unregistered, a moment later.
Drop(b) == /\ bpc[b] = "drop"
           /\ Unregister(Target(b))
           /\ GoOn(b, at[b] + 1)
           /\ UNCHANGED <<log, registry, web, unseen, failures>>
-------------------------------------------------------------------------------
Caster(b) == \/ Skip(b) \/ Snapshot(b) \/ NoMemory(b) \/ Count(b) \/ Row(b) \/ Lines(b)
             \/ Send(b) \/ Drop(b)

Http == \/ \E f \in Fds : Accept(f) \/ Message(f) \/ OnSockClose(f)
        \/ CloseSocket

Next == \/ WebInit \/ Http
        \/ \E f \in Fds : Break(f)
        \/ \E d \in Devices : Plug(d) \/ Unplug(d)
        \/ OtherEvent
        \/ \E b \in Casters : Caster(b)

\* The timer fires again and again, and neither it nor the class driver is ever
\* blocked: the locks are held for a few instructions, a send that stalls fails
\* after the server's send_wait_timeout.
Fairness == /\ WF_vars(Caster("timer"))
            /\ WF_vars(Caster("driver"))

Spec == Init /\ [][Next]_vars /\ Fairness
-------------------------------------------------------------------------------
(* Properties *)

\* Types of the table and of the broadcasters' local state.
TypeOK ==
    /\ LogTypeOK /\ RegistryTypeOK
    /\ ws_fds \in [Slots -> Fds \cup {Zero, NoFd}]
    /\ up \in BOOLEAN
    /\ session \in [Fds -> {"none", "open", "broken"}]
    /\ hpc \in Fds \cup {NoFd}
    /\ bpc \in [Casters -> {"idle", "begin", "count", "rows", "send", "drop"}]
    /\ fds \in [Casters -> [Slots -> Fds \cup {Zero, NoFd}]]
    /\ at \in [Casters -> Nat]
    /\ \A b \in Casters : bpc[b] = "drop" => at[b] \in Slots
    /\ dev_count \in [Casters -> 0 .. NumEntries]
    /\ rows \in [Casters -> SUBSET Devices]
    /\ news \in [Casters -> Nat]
    /\ callers \subseteq Fds /\ unseen \subseteq Devices
    /\ failures \in 0 .. MaxFailures

\* The feed's table names only descriptors that are sessions of the HTTP server:
\* the close hook runs before the descriptor can be anybody else's, and no
\* broadcast puts a descriptor back.
RegisteredIsOpen == up => \A i \in Slots :
                             ws_fds[i] # NoFd => /\ ws_fds[i] \in Fds
                                                 /\ session[ws_fds[i]] # "none"

\* A client that says something after its handshake does not take a second slot,
\* which its close would leave behind.
OneSlotEach == up => \A i, j \in Slots :
                        ws_fds[i] = ws_fds[j] /\ ws_fds[i] # NoFd => i = j

\* The broadcast that follows a change lists exactly the devices there are, since
\* no one but its own task changes the registry's membership: neither the holes in
\* the registry nor the count read before them cut it short.  (The timer's list
\* has no such guarantee.)
ChangeIsListed == bpc["driver"] \in {"send", "drop"} => rows["driver"] = Present

\* As long as there is a timer, what is logged reaches every client of the feed: a
\* frame that has the newest event is sent to it, unless it is unregistered first.
\* (Stated for the last event of a behaviour, so that "newest" does not move.)
FeedArrives ==
    Timer => \A f \in Fds :
        Registered(f) /\ total + 1 \notin Events ~>
            \/ ~Registered(f)
            \/ \E b \in Casters : /\ bpc[b] = "send" /\ Target(b) = f
                                   /\ news[b] = total
===============================================================================
