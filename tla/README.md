# TLA+ models of the USB/IP server for ESP32-P4

This directory models the concurrent firmware in `src/`: the engine that forwards
URBs between a TCP client and the USB host stack, the host manager and the registry
of devices with the connections that import from them, the accept loop with its
allow list, the packet capture, and the live feed of the web interface with the
event log. TLC checks the models on small instances; TLAPS proves the main results
for any number of URBs, slots, devices, clients and addresses.

## The system

The program runs on FreeRTOS on two cores. Paths are relative to
`src/components/`.

| Part | State it keeps | Operations | Talks to |
|---|---|---|---|
| `transfer_engine/transfer_engine.c` | `s_pending[32]`, locals of the session loop | `transfer_engine_run`, submit, unlink, callback | socket, USB host stack, registry, removal flag, capture |
| `device_manager/device_manager.c` | table of devices, their state and client | add, remove, lookup, get, import, release, release_by_ip | mutex of its own |
| `usbip_server/usbip_connection.c` | locals of a task per client | devlist, import, final release | registry, host manager, engine |
| `usbip_server/usbip_server.c` | listening socket | accept loop | access control, connection tasks |
| `usb_host_mgr/usb_host_mgr.c` | `s_tracked`, `s_removed_addr` | new device, device gone, claim, release, get handle | registry, USB host stack, feed |
| `access_control/access_control.c` | mode, allow list, NVS copy | check, set, add, remove | accept loop, web API |
| `capture/capture.c`, `capture_api.c` | ring, file, flags, counters | start, stop, delete, submit, writer task | SD card, engine, HTTP task |
| `event_log/event_log.c` | circular log | add, get_recent | everybody |
| `webui/ws_handler.c`, `webui.c` | WebSocket descriptors, timer | register, broadcast, close hook | HTTP server, registry, event log |
| `webui/webui_api.c` | none of its own | REST handlers | registry, access control, capture |
| `usbip_proto`, `network_mgr`, `main` | none that others decide on | packing, set-up | |

What is hard to test here: a completion callback runs on the other core while
the engine scans, waits for, answers or frees the slot the callback writes to; a
cancel waits for a bounded time and goes on whatever the result; an unplug is
noticed by three routes (a notification that any session can consume, the
registry, failing transfers) in any order; a registry entry is reused by the next
device; two connections use two registry operations in a row where each is atomic
but the pair is not; an address is checked against a list that another task is
rebuilding without a lock, and that is saved piece by piece; a broadcast sends to a
copy of a table whose descriptors may be somebody else's by then; a capture is
restarted while its writer is still closing the file, or is on before it has a writer;
calls into the host library and the file system fail, and their results are dropped; a
`recv` or a `send` never returns. `PROJECT.json` lists every such
hazard with its line and the property that covers it.

What makes each part correct:

- engine: every URB is answered exactly once and truthfully, no slot is freed
  under a running transfer, a session ends when its device or client leaves (unless the
  client holds it up), and leaves nothing behind;
- registry, host manager and connections: a device is forwarded by one session, is
  offered only when none forwards it, is released however an import or a session
  ends, is registered only while it has a handle, and leaves when it is unplugged;
- accept loop and access control: only a listed address gets in, whatever is posted
  meanwhile; what was answered outlasts a restart; every connection is decided about
  and no descriptor is leaked;
- capture: the file of a capture holds whole records in order, but for a last one that
  an I/O error cut short, and is closed;
- event log and feed: readers get the newest entries, the table names open sessions,
  a change of the devices is told in full, the last event reaches every client.

## Modules

| Module | Models | Role |
|---|---|---|
| `UrbService` | the promise to the client: one answer per URB | abstract specification |
| `TransferEngine` | one session of `transfer_engine_run` | implements `UrbService` |
| `SharedTable` | several sessions over the one `s_pending` | |
| `DeviceManager` | the registry's operations, one action each | extended by the next |
| `UsbHostMgr` | class driver task, `s_tracked`, claims | extended by the next |
| `DeviceLease` | the promise of an export: one client at a time | abstract specification |
| `Connection` | import, session and release over both, web UI | implements `DeviceLease` |
| `AccessControl` | list and mode in memory and flash, POST, check, restart | extended by the next |
| `UsbipServer` | the accept loop over `AccessControl` | |
| `Capture` | ring, writer task, start, stop, delete | |
| `RecentEvents` | the newest events, newest first | abstract specification |
| `EventLog` | the circular log | implements `RecentEvents` |
| `WsHandler` | the feed over `EventLog` and `DeviceManager` | |
| `MC...` | constants for TLC | |
| `..._proofs` | theorems about the module they are named after | TLAPS |

A definition whose name ends in `_Name` after another's (`Decide_Forgets` before
`Decide`) is that definition with one plausible mistake. The specifications do not
use them; each property has been seen to reject one.

### TransferEngine

`pc` is where the engine's task is: `lookup` and `arm` (before the loop),
`removal`, `socket`, `scan`, `exists` (the phases of the loop), `gentle`, `force`,
`plain` (the three waits of `cancel_pending_urb`), `cleanup`, `stopped`. `panic`
is the kernel assertion of a callback that gives a deleted semaphore. A table walk
takes one step per slot (`cur`) and a cancel at least two (it begins, it ends by
the semaphore or by the clock), so callbacks, unplugs and disconnects fall
between any two slots and inside every wait. The body of a handler between two such
points is one action, with its reply and the freeing of the slot. An action that
receives or sends is blocked as a whole (`Unheld`) while the client holds it up:
`usbip_net_recv` and `usbip_net_send` loop until all is there, and no time limit is set
on the socket. `Hold` is a client that has sent a part of a header or of a URB's data
and no more, or does not read; `LetGo` is that it goes on.

`slot`, `sem`, `status` are the fields of `s_pending` that decide anything.
`xfer`, `ctx`, `target`, `halted` are the host stack's side: where each transfer
is, which slot its context points at, which device it went to, which pipes are
halted. `plug`, `reused`, `flag` are the steps of `handle_device_gone`, the reuse
of the registry entry, and `s_removed_addr`. `submitted`, `unlinked`, `answers`,
`sock` (`open`, `held`, `dead`) are what the client sees, and are the variables of
`UrbService`, so the refinement mapping is the identity on them with `Statuses` instantiated.

Left out: payloads and lengths, isochronous descriptors, statistics, the capture
calls. Assumed: a sequence number is used once in a session and unlinked at most
once; USB addresses are not reused while a session lasts. When a session has stopped,
its environment stops with it except for late callbacks.

`Prompt` is the set of endpoints whose callbacks never miss the last wait of a
cancel; `Replug` says whether another device may take the registry entry. With
`Prompt = {}` every bounded wait may run out.

`SharedTable` keeps of all this only what it takes to run two sessions over one
table: the wipe at the start, submit, the scan, the cleanup and the callback.

### DeviceManager, UsbHostMgr and Connection

An entry is `dev` and `owner`; `owner` stands for `state` and `client_ip`, which
change together. A device is one enumeration: `bus` follows it from `new` over `in`
(its event is queued) to `refused` or `known`, and when it is unplugged over `away`
to `over`. `mpc` and `mdev` are the class driver task: `add` is between tracking and
registering, `close` and `untrack` are the steps of `handle_device_gone` after the
entry has been removed. `open` and `claims` are the host library's side. It does not
close a device that has a claimed interface, and the code does not look. It may refuse to
claim or to release any interface: `claims` says whether none, some or all of a device's
interfaces are claimed, `ClaimInterfaces` raises it to any level and `ReleaseInterfaces`
lowers it to any, since both functions log a failing call and answer ESP_OK. `kept`
remembers the devices whose last release left a claim.

A connection's task (`cpc`) takes one step per registry or host operation: `idle`, `import`,
`get`, `reply`, `stale` (the release of old claims), `claim`, `refuse`, `run`, `arm`, `handle`
(the three lookups `transfer_engine_run` begins with), `session`, `unclaim`, `release`, `undo`,
`done`, `closed`. `idx`, `info`, `want` are `dev_index`, `info`, `req.busid`; `eng` and `sdev`
are the index and the device of the transfer loop, which looks the path up again. `refuse` is
where a claim that answers an error leads: no handle, or no descriptor. `WebGet` and
`WebRelease` are the two steps of the web handlers that release an export. The session itself
is one label: what happens in it is `TransferEngine`. `Reuse` says whether a device may be
plugged in after another has left.

The refinement mapping to `DeviceLease` forgets entries and paths: `Offered` is the
devices in entries nobody has, `Leases` the pairs of a client and the device in an entry
exported to it, and `sdev` is what each connection works with. An operator's
release, or that of another connection of the address, would return a lease while the
device is worked with, which `DeviceLease` does not allow.

### AccessControl and UsbipServer

Nothing locks the allow list, so `AccessControl` has one step for every store of the
HTTP task (`hpc`: each cell moved down by a removal, the count, each of the two
stores of an addition, each save). The check loads the count (`CheckLoad`, into
`bound`; a build may keep it in a register from one round of the loop to the next) and
reads a cell (`CheckNext`) in two steps. The two stores of
`s_allowlist[s_allowlist_count++] = ip` are unordered in C: `elementFirst` is the build's
choice, made once. A save may fail, with the old or the new value in flash, and
nobody looks; a load may fail at a restart, which may come between any two steps.
`before`, `acked`, `stale`, `seen` and `calm` only remember, for the properties.

`UsbipServer` is the loop of `usbip_server_task`: `spc` is `accept`, `memory`,
`check`, `spawn`; `hand` the connection it is deciding about. Its check is
`AccessControl`'s, step by step.

### Capture

A cell is the unit of the ring: an entry is its length cell and the cells of its
record, so that a reader that is out of step reads record cells as lengths. `head`
and `tail` wrap as in the code. `wpc` is each writer's place (`loop`, `read`,
`write`, `close`, `exit`, `gone`) and `cpc` the HTTP task's. A start numbers its file
and its writer task, and is four steps: reset, open, flags, writer. Between the last two
the capture is on and has no writer; when the task cannot be created `StartFails` takes
the flags back. `accepted` remembers what got into the ring.

`fwrite` only hands a record to stdio: `records` is what the stream of each file took, `saved`
what the file holds once it is closed. A short `fwrite` leaves the beginning of a record in the
stream. `fflush` and `fclose`, whose results nobody looks at, may fail: then the file holds
some beginning of what the stream took, cut anywhere. `opened` and `failed` are the files that
are open and those that met an error. `overlap` remembers that a start or a delete found an
earlier writer alive: after that two writers share the ring and one file pointer, and the
properties marked with it are not claimed. Peeking and reading are two steps, as in the code;
the three stores of the error path, and `fclose` with the clearing of the pointer, are one step
each.

### EventLog and WsHandler

`event_log_add` and `event_log_get_recent` each run under one mutex, so each is one
step. The refinement mapping to `RecentEvents` is what a reader would get:
`log <- Recent(Capacity)`.

`WsHandler` has three tasks. The HTTP server's accepts, registers a client at its handshake and
at every message, and closes; the hook that unregisters comes before the descriptor is closed.
The class driver changes the registry, logs and broadcasts; the timer, if `webui_init` could
create it (`Timer`), broadcasts. A broadcast (`bpc`) takes a copy of the table, counts the
devices, reads entry after entry, reads the log and sends to one client at a time; a failed
send and the unregistering after it are two steps. `session` says what the HTTP server knows of
a descriptor, which may be closed and given to the next connection in the middle of a
broadcast.

## Runs

| Run | Checks | Instance | Shows |
|---|---|---|---|
| `te_orderly` | `InFlightOwned`, `HonestReply`, `StallClearedUnlessUnlinked`, `SessionEnds`, `Implements` | two URBs of one bulk endpoint, two slots, prompt callbacks, fairness | the session implements `UrbService` with liveness; no slot is freed under a transfer; stalls are cleared; it ends unless the client holds it up |
| `te_hostile` | `TypeOK`, `OneAnswer`, `NoneForgotten`, `TableDrained`, `ImplementsSafety` | a control and a bulk URB, two slots, any wait may run out, entry reused | one answer per URB, nothing forgotten, table drained, whatever the timing |
| `te_control_late` | `InFlightOwned` | only control callbacks may be late | violated: a control transfer is freed in flight |
| `te_replug` | `OwnDevice` | entry reused | violated: URBs go to another device |
| `shared_table` | `RepliesToOwner` | two sessions with a URB each, two slots | violated: a client gets the reply to the other's URB |
| `import_disciplined` | `ExclusiveSession`, `AvailableMeansFree`, `ImplementsLease`, `ClaimsUntouched` | three clients with their own addresses, two devices, two entries | sessions are exclusive, keep their claims, the registry is truthful, and an import is a lease |
| `import_hostile` | `TypeOK`, `NoOrphanExport`, `NoOrphanClaim`, `RegisteredHasHandle`, `GoneIsRemoved` | two clients, three enumerations (one a replug in the same port), one entry, an operator | nothing stays exported without its client, nor claimed unless the host library refused the release, nor registered without a handle |
| `import_same_ip` | `AvailableMeansFree` | two of three connections from one address | violated: the end of one frees the other's device |
| `unplug_claimed` | `HandleClosed` | one device, one connection | violated: a device unplugged under a session is never closed |
| `admission` | `TypeOK`, `AnsweredLasts`, `RestartFindsPart`, `OnlyListedPass`, `ExactAtRest`, `NoDescriptorLeak`, `EveryoneDecided` | two clients, three addresses, a list of two, two POSTs of three kinds, failing saves and loads, restarts | only what is listed passes where the element is stored first, what was answered lasts, everyone is decided about |
| `capture_on` | `TypeOK`, `WholeRecords`, `CountsMatch`, `AloneRecordingHasFile`, `NoneLostInHand`, `RingDrains`, `FileCloses` | three packets, a ring of five cells, two starts, fairness | records are whole and in order, none is lost in the writer's hands, the count is right without errors, the ring drains, the file is closed |
| `feed` | `TypeOK`, `RegisteredIsOpen`, `OneSlotEach`, `ChangeIsListed`, `ImplementsRecentEvents`, `FeedArrives` | three descriptors without a device, or one with two devices; two slots, three events, one failure | the table, the lists and the log are right, and the last event arrives |

### Bounds

Two URBs and two slots: every hazard of the table is about one slot reused by a
second URB, or about one URB that flushes another of its endpoint; that a table of
two can be full with two URBs pending is covered by the refusal, which may also
happen for want of memory. The two instances differ in the endpoints so that
control waits, flushes and stalls all occur.

Two or three connections: two compete and a third ends in between. Three
enumerations: a device, itself plugged in again, and another that fills the only
entry. What is claimed of a device has three levels, since all that is asked of it is
whether nothing, something or everything is claimed.

A list of two cells, three addresses: a removal shifts, the list is full, a body
repeats an address and has more than fits, and a cell may still hold an address
removed earlier. Two POSTs (`MaxPosts`), so that a list is built and then rebuilt.
Restarts are not bounded.

Three packets of one or two cells in five cells: the ring is filled, wraps at
different offsets and drops a packet; two starts (`MaxStarts`): one capture meets the
writer of the other.

A log of two entries and three events wraps. Three descriptors for two slots, so that
the table is full; with them no device, so that only the timer broadcasts. Two
devices and one client in the other slice, where both tasks broadcast and the first
entry becomes a hole. One failed allocation or broken connection (`MaxFailures`).

Each URB, connection of `Connection`, enumeration and packet is used once, which
bounds the rest.

`import_disciplined` assumes what its name says: every connection has an address
of its own, no operator releases exports, and no device is plugged in after
another was removed. Each of these is needed: `import_same_ip` drops the first,
and with the others dropped a device can be released under its session (see the
hazards).

### Fairness

`TransferEngine`: the engine's task runs at a fixed priority and gets on unless it is in a
`recv` or a `send` that the client holds up (`WF(Engine)`, whose steps are disabled by `held`);
its other waits, for semaphores and in `select`, have a time limit. The clock advances
(`WF(Age)`); the host stack completes a transfer that was flushed, whose device is gone, or
that goes to endpoint 0; and `handle_device_gone` runs to its end. No fairness is assumed for a
data transfer (a device may stay silent), for the delivery of the removal notification, or for
the client, which need never let go. What must happen in the end is therefore claimed only
where the client holds the engine up no more from some moment on (`<>[]Unheld` in
`SessionEnds`; `UrbService` promises an answer only if the client is there to take it); a
client that is gone holds nothing up. TCP keepalive ends a `recv` of a client that vanished,
which is `Disconnect`; it does not end that of a client that is there.

`Capture`: a writer and an HTTP request in progress get on; nobody has to send
another request. `Connection`: the class driver task gets on, since all it waits for
is a mutex that is held for a few instructions and a log entry; nothing is assumed of the
connections. `UsbipServer`: the accept loop gets on; nothing is assumed of handlers,
POSTs or clients. `WsHandler`: each of the two broadcasting tasks gets on, the timer
because it is periodic and a send that stalls fails after the HTTP server's
`send_wait_timeout`; nothing is assumed of clients or devices.

## Proofs

All theorems are about the specifications as TLC runs them, for every value of
the constants that satisfies the named `ASSUME`s of the modules.

`TransferEngine_proofs`, for every `Urbs`, `NumSlots`, `Endpoints`, `Ep` and, except
where said, every `Prompt` and `Replug`:

- `Typed`, `AtMostOneAnswer`, `NothingForgotten`, `Drained`: `TypeOK`, `OneAnswer`,
  `NoneForgotten`, `TableDrained`;
- `Refinement`: `SafeSpec` implements `UrbService`'s `SafeSpec`;
- `TransfersOwned`, `RepliesHonest`, `StallsCleared`: with `Prompt = Endpoints`,
  `InFlightOwned`, `HonestReply` and `StallClearedUnlessUnlinked`;
- `EndsQuietly`: with `Prompt = Endpoints`, a session that is over has no transfer in
  flight, so no callback writes into the table after it. `Drained` alone says that the
  slots are free.

None of these is inductive alone. The invariant `IInv` adds to `TypeOK` the shape
of a cancel in progress (a wait always has an active slot and a reason), what the
semaphore says (given only if the transfer is over, for a slot whose URB was
submitted), and a ledger: a URB outside the table that has been taken has its one
answer, one inside has none, one that was never taken has neither slot nor
answer. Without the ledger a second answer could not be excluded at `Finish`,
where the slot's URB must still be unanswered. `DInv` adds that the slots the cleanup has
passed are free. `LInv` adds that a transfer in flight and its slot point at each
other and that a given semaphore carries the status of the slot's own transfer; this
is where the assumption on callbacks is used, in `LastWaitExpires`, and the violated
run `te_control_late` shows that it cannot be dropped. `KInv` adds to `LInv` the reason
why a pipe of a device that is there is halted (`HaltedFor`): a URB that stalled and is
still to be replied to, one that was unlinked before it could be, or the flush of a
cancel under way, which ends with a clear.

`Connection_proofs`, for every number of devices, entries and connections:

- `Handles`: `RegisteredHasHandle`. `HInv` says what is registered is tracked, each
  device once, and that the device the class driver is at is tracked and not
  registered; then a full registry would hold more devices than `s_tracked` has room
  for.
- `ExportsEnd`, `ClaimsEnd`: `NoOrphanExport`, `NoOrphanClaim`, with operators, replugs,
  and claims and releases that fail; what the host library last refused to release is
  excepted. `OInv` strengthens the first: the connection that answers for an export is
  one that holds this very entry, since a release frees one entry only.
- `SessionsExclude`, `OfferedIsFree`, `ClaimsStay`: `ExclusiveSession`,
  `AvailableMeansFree`, `ClaimsUntouched`, under `Discipline`, which is what
  `import_disciplined` assumes. `DInv` says that the entry a connection looked up is the
  only one with its path until it is empty for good (`Placed`), that whoever holds an
  entry is its owner (`Owned`), and that no two connections know one device (`Alone`).
- `ConnectionTyped`: `TypeOK`, if there is a device (with none, an event in progress has no
  legal device).
- `LeaseImplemented`: `ImplementsLease`, under `Discipline`. Each operation of the registry
  moves one device between what is offered and the leases (`GrantMoves`, `ReturnMoves`,
  `OfferAdds`, `WithdrawTakes`); `release_by_ip` finds nothing to release by then. That a
  return finds nobody at work is `UserIsOwner`: whoever works with a device is in its
  session and has its entry exported, by `DInv` and `XInv`, which says that only a
  connection in its session works with a device.
- `LeaseExcludes`: what implements `DeviceLease` never lets two clients work with one device,
  by `LeaseHeld`: a device has at most one lease, whoever works with it is the only one who
  may have it, and what is offered is neither leased nor worked with.

`Capture_proofs`, for every ring, packet size and number of captures, as long as the
writers of two captures do not meet:

- `RecordingIsServed`, `RecordsCounted`: `AloneRecordingHasFile`, `CountsMatch`. `Places`
  says where the flags, the open file and the writers are at each point of a start, and
  what of the count is in the stream and, after a close without an error, in the file.
- `FilesAreWhole`, `HandsAreEmpty`: `WholeRecords`, `NoneLostInHand`. `Chain` gives where
  each accepted packet that has not been taken out ends in the ring; an entry put in
  makes it longer and overwrites nothing of it (`FillCells`, `FillExtends`), one taken out
  is its first (`ReadShortens`). `InOrder` ties the chain to the file: what it starts
  after is what the stream took, and one more while the writer holds a record; a file that
  is closed has that, or after an error a beginning of it. Without it the
  length the writer peeked could not be known to be that of an entry.
- `Typed`: `TypeOK`, if there is a packet (with none, a cell has no legal value).

`AccessControl_proofs`, for every list, capacity, body and number of clients, with saves
and loads that fail and restarts between any two stores:

- `ListedPass`: `OnlyListedPass`, which is about builds that store the element first
  (see below for the others). `Shape` gives the cells and indices; `Watched` says that
  whatever a check can still read, up to the count it has or may load, was on the list at
  some moment of it.
- `AnswerLasts`, `RestartFinds`: `AnsweredLasts`, `RestartFindsPart`. `Kept` names, for each
  place in a POST, the one list that memory holds, or is one entry away from, and that
  flash holds unless a save failed: while the old list is removed, a tail of it; then what
  the addresses looked at so far leave in an empty list (`Digest`: without repetitions, in
  order of first appearance, cut at the capacity). `ModeHolds`
  is the same of the mode.
- `CheckExact`: `ExactAtRest`. `Exact` says that a check during which nobody stores has
  compared the entries before its index in vain, on the list as it is.
- `AclTyped`: `AclTypeOK`.

`UsbipServer_proofs`: `ServerListedPass`, `ServerAnswerLasts`, `ServerRestartFinds` and
`ServerCheckExact` carry these to the accept loop, each of whose steps is a step of the
list or leaves it alone, and whose check is at work only at `check`; `ServerTyped` is
`TypeOK`, by that invariant; `NoLeak` is `NoDescriptorLeak`, by `SInv`: a connection is at
one place only, of the backlog, the loop's hand and the handlers.

`EventLog_proofs`: `LogTyping`, and `Implementation`, the refinement of `RecentEvents`
for every capacity. Going back `i` entries from the new write index is going back `i - 1`
from the old one (`Shift`), so an addition puts one event in front of the list and
cuts it at the capacity. `WsHandler_proofs`: `FeedLog` carries this to the feed;
`TableIsOpen` and `OneSlot` (`TableInv`: a registered descriptor is a session that is
not being closed); `ListIsComplete` (`ListInv`: while the class driver
lists, what it has is what the entries passed hold, and as many as were counted is
all); `FeedTyped` is `TypeOK`.

Only model-checked: liveness (`SessionEnds`, the liveness of `Implements`, `GoneIsRemoved`,
`EveryoneDecided`, `RingDrains`, `FileCloses`, `FeedArrives`), which is out of the prover's
reach. Every invariant of a passing run, and the safety of every refinement, is proved,
under the assumptions its run makes.

## Disagreements found

With a run, and quotations in `PROJECT.json`:

- `te_control_late`: a control transfer whose callback is late is freed in flight;
- `te_replug`: a session goes on with another device that took the registry entry;
- `import_same_ip`: an export is released by another connection of its address;
- `unplug_claimed`: a device unplugged under a session is closed while claimed, the
  host library refuses, and nobody closes it any more;
- `shared_table`: two sessions answer each other's URBs, since `s_pending` is one
  static table.

Known from the models, without a run of their own:

- a URB that stalls and is unlinked before it was replied to leaves its pipe halted
  (`transfer_engine.c:204`), the exception in `StallClearedUnlessUnlinked`;
- an unlink that finds a completed URB in the table discards its result and answers
  -ECONNRESET, where the comment at `transfer_engine.c:608` provides for 0
  (`transfer_engine.c:617`);
- `capture_stop` does not write what is in the ring (`capture.c:332`), where
  `capture.h:46` says "Stop capturing and flush remaining data";
- a writer that outlives its capture closes the next one's file (`capture.c:411`), the
  `overlap` in `AloneRecordingHasFile`;
- a capture started while the last one's writer is at work overwrites `s_pcap_file`
  (`capture.c:495`): the last one's file stays open for good, the `overlap` in `FileCloses`;
- `fflush` and `fclose` may fail unseen (`capture.c:409`): the count includes records that the
  file has lost, the `failed` in `CountsMatch`, where `capture.h:28` says "Number of PCAP
  records written";
- a claim that the host library refuses is logged and ESP_OK returned
  (`usb_host_mgr.c:587`): a session starts without its interfaces, where
  `usbip_connection.c:233` says "claim all interfaces for this session". No property claims
  that a session has them;
- a release that the host library refuses is logged, and the interface stays claimed when
  the session is over (`usb_host_mgr.c:627`), the `kept` in `NoOrphanClaim`;
- `recv` and `send` have no time limit (`usbip_proto.c:111`, `:136`): a client that is there
  but stalls in the middle of a request, or does not read, also stops the scan that should
  abort stuck transfers (`transfer_engine.c:45`), the `<>[]Unheld` in `SessionEnds`;
- in a build that stores the count first, a check can read a counted cell that still holds
  an address removed long ago (`access_control.c:185`), the `elementFirst` in
  `OnlyListedPass`.

## Not modelled

- Stream framing: lengths that are clamped after the client has sent more
  (`transfer_engine.c:396`), and what `read_body` cuts off (`webui_api.c:465`).
- The memory of a configuration descriptor, which copies of an entry share, and records
  longer than the writer's buffer when the snapshot length is raised above 432.
- `usbip_server_stop`, `usb_host_mgr_stop`, `webui_stop`: nothing calls them.
- The limits on waiting for the mutexes of the registry (200 ms) and the log (100 ms):
  taken never to expire. The log's is held for a copy of a line; the registry's for a
  few instructions and, in a removal (`device_manager.c:115`) and its like, for an entry in
  the log, that is for the wait for the log's mutex at the most.
- The mDNS record of the number of devices: `network_mgr_update_mdns_devices` only logs a
  failure (`network_mgr.c:266`), so the record may be wrong, and nothing reads it.
- The header of a capture file, whose write is checked when the file is opened.
- The download of a capture while it is written; the other REST handlers, which
  format status or store settings that nothing modelled reads; pages, JSON and
  authentication.
- `transfer_iso.c`: nothing calls it. `usbip_proto` but for its blocking `recv` and `send`:
  byte order. `network_mgr` and `main`: set-up by calls into the platform.

## Next

- Proofs of what the liveness rests on: that each phase of the engine's loop that no client
  holds up, and each place of a task, has a step (the deadlock-freedom that `WF` needs), as
  state formulas.
- The end of a broadcast to a descriptor that was closed and is another client's: what the
  wrong client gets, and the unregistering of the wrong client.
- What remains of the disciplined results when one of its three parts is dropped.
- Stream framing, with lengths as numbers and the reader's position in the stream.
