---------------------------- MODULE AccessControl ----------------------------
(***************************************************************************)
(* The allow list: its copy in memory, its copy in flash (NVS), the HTTP    *)
(* task that rebuilds it entry by entry from the body of a POST, the task   *)
(* that checks an address against it meanwhile, and restarts.               *)
(*                                                                          *)
(* Nothing locks the list, so every store of the HTTP task and every load   *)
(* of the check is a step.  The stores are seen in program order, but for   *)
(* s_allowlist[s_allowlist_count++] = ip, whose two stores the language     *)
(* leaves unordered, and a round of the check may load the count again or   *)
(* go on with what it loaded before: both are choices of the build.  A key  *)
(* that NVS does not hold reads as open mode or as the empty list.  A body  *)
(* is what read_body took of it.                                            *)
(***************************************************************************)
EXTENDS Naturals, Sequences, FiniteSets

CONSTANTS Addresses,
          NoAddress,     \* zero, what access_control_init fills the cells with
          Capacity,      \* ACCESS_CONTROL_MAX_IPS
          Bodies,        \* the POST bodies: a mode or "absent", and addresses
          NoBody,
          MaxPosts       \* bound: the POSTs of a behaviour

ASSUME AddressesAssumption == NoAddress \notin Addresses
ASSUME CapacityAssumption == Capacity \in Nat \ {0}
ASSUME BodiesAssumption ==
    /\ NoBody \notin Bodies
    /\ Bodies \subseteq [mode: {"open", "closed", "absent"}, list: Seq(Addresses)]
ASSUME PostsAssumption == MaxPosts \in Nat

VARIABLES
  mode, cell, count,      \* s_closed_mode, s_allowlist, s_allowlist_count
  savedMode, savedList,   \* the same in flash
  elementFirst,           \* does the build store the element before the count?
  hpc,                    \* where the HTTP task is in the POST handler
  body,                   \* the body it works on
  todo,                   \* the addresses still to remove, or still to add
  at,                     \* the cell remove_ip's shift is at
  ip, pos, bound, verdict,             \* the check under way, or its result
  posts, before, acked, stale, seen, calm    \* history, see below

memory  == <<mode, cell, count>>
flash   == <<savedMode, savedList>>
http    == <<hpc, body, todo, at>>
checker == <<ip, pos, bound, verdict>>

(* before  the list when the POST under way began                            *)
(* acked   the last POST that was answered, until the next one begins        *)
(* stale   what flash and memory may differ in, a save or a load having      *)
(*         failed                                                            *)
(* seen    the addresses listed at some moment of the check                  *)
(* calm    the HTTP task stored nothing since the check began                *)
history == <<posts, before, acked, stale>>
watch   == <<seen, calm>>
aclVars == <<memory, flash, elementFirst, http, checker, history, watch>>

Cells  == 1 .. Capacity
Modes  == {"open", "closed"}
List   == [i \in 1 .. count |-> cell[i]]
Listed == {cell[i] : i \in 1 .. count}

\* What the list means between the two stores of an addition: the new address is
\* on it, as a check with a larger count in its register may find, and a cell that
\* is counted but not yet stored is not.
Named  == CASE hpc = "count"   -> Listed \cup {cell[count + 1]}
            [] hpc = "element" -> {cell[i] : i \in 1 .. count - 1}
            [] OTHER           -> Listed

AclInit == /\ mode = "open" /\ count = 0 /\ cell = [i \in Cells |-> NoAddress]
           /\ savedMode = "open" /\ savedList = <<>>
           /\ elementFirst \in BOOLEAN
           /\ hpc = "idle" /\ body = NoBody /\ todo = <<>> /\ at = 1
           /\ ip = NoAddress /\ pos = 1 /\ bound = 0 /\ verdict = "none"
           /\ posts = 0 /\ before = <<>> /\ acked = NoBody /\ stale = {}
           /\ seen = {} /\ calm = TRUE
-----------------------------------------------------------------------------
(* The HTTP task: handle_api_settings_acl_post and what it calls *)

Post(b) == /\ hpc = "idle" /\ posts < MaxPosts
           /\ posts' = posts + 1
           /\ body' = b /\ before' = List /\ acked' = NoBody
           /\ hpc' = "mode"
           /\ UNCHANGED <<memory, flash, todo, at, stale>>

\* access_control_set_mode: no change, no save
SetMode == /\ hpc = "mode"
           /\ IF body.mode \in {"absent", mode}
              THEN hpc' = "snapshot" /\ UNCHANGED mode
              ELSE hpc' = "saveMode" /\ mode' = body.mode
           /\ UNCHANGED <<cell, count, flash, body, todo, at, history>>

\* save_mode_to_nvs, whose result nobody looks at; when the commit fails the
\* value may be there or not.
SaveMode == /\ hpc = "saveMode"
            /\ \/ savedMode' = mode /\ stale' = stale \ {"mode"}
               \/ savedMode' \in {mode, savedMode} /\ stale' = stale \cup {"mode"}
            /\ hpc' = "snapshot"
            /\ UNCHANGED <<memory, savedList, body, todo, at, posts, before,
                           acked>>

\* access_control_get_allowlist
Snapshot == /\ hpc = "snapshot"
            /\ todo' = List
            /\ hpc' = "remove"
            /\ UNCHANGED <<memory, flash, body, at, history>>

\* access_control_remove_ip finds the entry
RemoveFind ==
    /\ hpc = "remove" /\ todo # <<>>
    /\ \/ /\ Head(todo) \in Listed
          /\ at' \in {i \in 1 .. count : /\ cell[i] = Head(todo)
                                         /\ \A j \in 1 .. i - 1 :
                                                cell[j] # Head(todo)}
          /\ hpc' = "shift"
          /\ UNCHANGED todo
       \/ /\ Head(todo) \notin Listed
          /\ todo' = Tail(todo)
          /\ UNCHANGED <<hpc, at>>
    /\ UNCHANGED <<memory, flash, body, history>>

RemoveShift == /\ hpc = "shift" /\ at < count
               /\ cell' = [cell EXCEPT ![at] = cell[at + 1]]
               /\ at' = at + 1
               /\ UNCHANGED <<mode, count, flash, hpc, body, todo, history>>

\* Fault: the entry is taken out before the others are moved down.
RemoveDrop_Early == /\ hpc = "shift"
                    /\ count' = count - 1
                    /\ hpc' = "saveRemoved"
                    /\ UNCHANGED <<mode, cell, flash, body, todo, at, history>>

RemoveDrop == /\ hpc = "shift" /\ at = count
              /\ count' = count - 1
              /\ hpc' = "saveRemoved"
              /\ UNCHANGED <<mode, cell, flash, body, todo, at, history>>

\* Fault: the last entry is removed without a save.
SaveList_NotEmpty ==
    /\ hpc \in {"saveRemoved", "saveAdded"}
    /\ IF count > 0
       THEN savedList' = List /\ stale' = stale \ {"list"}
       ELSE UNCHANGED <<savedList, stale>>
    /\ todo' = Tail(todo)
    /\ hpc' = IF hpc = "saveRemoved" THEN "remove" ELSE "add"
    /\ UNCHANGED <<memory, savedMode, body, at, posts, before, acked>>

\* save_allowlist_to_nvs, whose result nobody looks at
SaveList == /\ hpc \in {"saveRemoved", "saveAdded"}
            /\ \/ savedList' = List /\ stale' = stale \ {"list"}
               \/ /\ savedList' \in {List, savedList}
                  /\ stale' = stale \cup {"list"}
            /\ todo' = Tail(todo)
            /\ hpc' = IF hpc = "saveRemoved" THEN "remove" ELSE "add"
            /\ UNCHANGED <<memory, savedMode, body, at, posts, before, acked>>

\* The old list is gone; a body without "allowlist" leaves it so.
RemovedAll == /\ hpc = "remove" /\ todo = <<>>
              /\ todo' = body.list
              /\ hpc' = "add"
              /\ UNCHANGED <<memory, flash, body, at, history>>

\* Fault: duplicates are not looked for.
AddFind_Duplicates ==
    /\ hpc = "add" /\ todo # <<>>
    /\ IF count >= Capacity
       THEN todo' = Tail(todo) /\ UNCHANGED hpc
       ELSE hpc' = "store" /\ UNCHANGED todo
    /\ UNCHANGED <<memory, flash, body, at, history>>

\* access_control_add_ip refuses a duplicate, and any address when full
AddFind == /\ hpc = "add" /\ todo # <<>>
           /\ IF Head(todo) \in Listed \/ count >= Capacity
              THEN todo' = Tail(todo) /\ UNCHANGED hpc
              ELSE hpc' = "store" /\ UNCHANGED todo
           /\ UNCHANGED <<memory, flash, body, at, history>>

\* Fault: the count is stored first in a build that should not.
AddStore_CountFirst ==
    /\ hpc = "store"
    /\ count' = count + 1 /\ hpc' = "element" /\ UNCHANGED cell
    /\ UNCHANGED <<mode, flash, body, todo, at, history>>

\* The first of the two stores of s_allowlist[s_allowlist_count++] = ip ...
AddStore ==
    /\ hpc = "store"
    /\ \/ /\ elementFirst
          /\ cell' = [cell EXCEPT ![count + 1] = Head(todo)]
          /\ hpc' = "count" /\ UNCHANGED count
       \/ /\ ~elementFirst
          /\ count' = count + 1
          /\ hpc' = "element" /\ UNCHANGED cell
    /\ UNCHANGED <<mode, flash, body, todo, at, history>>

\* ... and the second.
AddFinish ==
    /\ \/ /\ hpc = "count"
          /\ count' = count + 1 /\ UNCHANGED cell
       \/ /\ hpc = "element"
          /\ cell' = [cell EXCEPT ![count] = Head(todo)] /\ UNCHANGED count
    /\ hpc' = "saveAdded"
    /\ UNCHANGED <<mode, flash, body, todo, at, history>>

Respond == /\ hpc = "add" /\ todo = <<>>
           /\ hpc' = "idle" /\ acked' = body
           /\ UNCHANGED <<memory, flash, body, todo, at, posts, before, stale>>

\* handle_api_system_factory_reset: nvs_flash_erase, whose result nobody looks
\* at, then a restart
FactoryReset ==
    /\ hpc = "idle"
    /\ \/ savedMode' = "open" /\ savedList' = <<>>
       \/ UNCHANGED flash
    /\ acked' = NoBody /\ stale' = {"mode", "list"}
    /\ hpc' = "restarting"
    /\ UNCHANGED <<memory, body, todo, at, posts, before>>

HttpStep == \/ \E b \in Bodies : Post(b)
            \/ SetMode \/ SaveMode \/ Snapshot
            \/ RemoveFind \/ RemoveShift \/ RemoveDrop \/ SaveList \/ RemovedAll
            \/ AddFind \/ AddStore \/ AddFinish \/ Respond
            \/ FactoryReset

\* The history of a check: what the HTTP task does while it is under way
Observe == /\ seen' = IF ip = NoAddress THEN {} ELSE seen \cup Named'
           /\ calm' = (ip = NoAddress \/ (calm /\ memory' = memory))

Http == HttpStep /\ Observe /\ UNCHANGED checker
-----------------------------------------------------------------------------
(* access_control_check, in the task that calls it *)

CheckBegin(a) ==
    /\ ip = NoAddress
    /\ ip' = a /\ pos' = 1 /\ bound' = count
    /\ verdict' = IF mode = "open" THEN "open" ELSE "none"
    /\ seen' = Named /\ calm' = TRUE
    /\ UNCHANGED <<memory, flash, http, history>>

\* The count is loaded, again perhaps; the HTTP task may store before the cell is.
CheckLoad == /\ ip # NoAddress /\ verdict = "none" /\ bound # count
             /\ bound' = count
             /\ UNCHANGED <<memory, flash, http, ip, pos, verdict, history, watch>>

\* Fault: the loop stops one entry early.
CheckNext_Short ==
    /\ ip # NoAddress /\ verdict = "none"
    /\ verdict' = IF pos >= bound THEN "denied"
                  ELSE IF cell[pos] = ip THEN "listed" ELSE "none"
    /\ pos' = pos + 1
    /\ UNCHANGED <<memory, flash, http, ip, bound, history, watch>>

\* Fault: the loop does not go on to the next entry.
CheckNext_Stuck ==
    /\ ip # NoAddress /\ verdict = "none"
    /\ verdict' = IF pos > bound THEN "denied"
                  ELSE IF cell[pos] = ip THEN "listed" ELSE "none"
    /\ UNCHANGED <<memory, flash, http, ip, pos, bound, history, watch>>

\* One round of the loop: the count, as it was loaded last, and then the cell
CheckNext ==
    /\ ip # NoAddress /\ verdict = "none"
    /\ verdict' = IF pos > bound THEN "denied"
                  ELSE IF cell[pos] = ip THEN "listed" ELSE "none"
    /\ pos' = pos + 1
    /\ UNCHANGED <<memory, flash, http, ip, bound, history, watch>>

\* The caller takes the result.
CheckEnd == /\ verdict # "none"
            /\ ip' = NoAddress /\ verdict' = "none" /\ pos' = 1 /\ bound' = 0
            /\ seen' = {} /\ calm' = TRUE
            /\ UNCHANGED <<memory, flash, http, history>>
-----------------------------------------------------------------------------
(* Restarts: access_control_init *)

\* Each key may be unreadable; the defaults are used in its place.
Load == \E failed \in SUBSET {"mode", "list"} :
          LET list == IF "list" \in failed THEN <<>> ELSE savedList IN
          /\ mode' = IF "mode" \in failed THEN "open" ELSE savedMode
          /\ count' = Len(list)
          /\ cell' = [i \in Cells |-> IF i <= Len(list) THEN list[i]
                                      ELSE NoAddress]
          /\ stale' = stale \cup failed

\* A reset, a power cut or a panic, at any moment: what was not in flash is lost
AclRestart == /\ Load
              /\ hpc' = "idle" /\ body' = NoBody /\ todo' = <<>> /\ at' = 1
              /\ ip' = NoAddress /\ pos' = 1 /\ bound' = 0 /\ verdict' = "none"
              /\ seen' = {} /\ calm' = TRUE
              /\ UNCHANGED <<flash, posts, before, acked>>

AclNext == /\ \/ Http
              \/ \E a \in Addresses : CheckBegin(a)
              \/ CheckLoad \/ CheckNext \/ CheckEnd
              \/ AclRestart
           /\ UNCHANGED elementFirst

AclSpec == AclInit /\ [][AclNext]_aclVars
-----------------------------------------------------------------------------
(* Properties *)

\* Types, and the shape of the list: it holds addresses, within its capacity, and
\* none twice but for the copies a shift leaves until it ends.
AclTypeOK ==
    /\ mode \in Modes /\ savedMode \in Modes
    /\ cell \in [Cells -> Addresses \cup {NoAddress}] /\ count \in 0 .. Capacity
    /\ hpc \in {"idle", "mode", "saveMode", "snapshot", "remove", "shift",
                "saveRemoved", "add", "store", "count", "element", "saveAdded",
                "restarting"}
    /\ body \in Bodies \cup {NoBody} /\ todo \in Seq(Addresses)
    /\ at \in Cells
    /\ ip \in Addresses \cup {NoAddress} /\ pos \in 1 .. Capacity + 2
    /\ bound \in 0 .. Capacity
    /\ verdict \in {"none", "open", "listed", "denied"}
    /\ seen \subseteq Addresses \cup {NoAddress} /\ calm \in BOOLEAN
    /\ stale \subseteq {"mode", "list"}
    /\ hpc # "element" => NoAddress \notin Listed
    /\ hpc \notin {"shift", "element"} =>
          \A i, j \in 1 .. count : cell[i] = cell[j] => i = j

\* The addresses a list of addresses stands for: the first Capacity of its
\* different ones, in order.
FirstUses(s) == {i \in DOMAIN s : \A j \in 1 .. i - 1 : s[j] # s[i]}
Expected(s)  ==
    LET uses == FirstUses(s)
        size == IF Cardinality(uses) < Capacity THEN Cardinality(uses)
                ELSE Capacity
    IN  [k \in 1 .. size |->
            s[CHOOSE i \in uses : Cardinality({j \in uses : j <= i}) = k]]

\* A POST that was answered is what the device checks against from then on,
\* restarts included, unless a save or a load failed.
AnsweredLasts == acked # NoBody /\ stale = {} =>
                     /\ List = Expected(acked.list) /\ savedList = List
                     /\ acked.mode # "absent" => mode = acked.mode
                     /\ savedMode = mode

\* What a restart in the middle of a POST finds is what was left of the old list
\* or what there was of the new one: never an address of neither, never a hole.
RestartFindsPart ==
    hpc \notin {"idle", "restarting"} /\ "list" \notin stale =>
        \/ \E n \in 0 .. Len(before) :
              savedList = SubSeq(before, n + 1, Len(before))
        \/ \E n \in 0 .. Len(Expected(body.list)) :
              savedList = SubSeq(Expected(body.list), 1, n)

\* "In closed mode, only allowlisted IPs pass", in a build that stores an element
\* before it counts it: a check admits an address only if it was on the list at some
\* moment of the check, whatever the HTTP task does to the cells meanwhile.  In the
\* other builds that C allows it fails: a check can read a counted cell that was last
\* stored for an address removed long ago.
OnlyListedPass == elementFirst /\ verdict = "listed" => ip \in seen

\* A check during which the HTTP task stores nothing is exact.
ExactAtRest == verdict # "none" /\ calm =>
                   verdict = IF mode = "open" THEN "open"
                             ELSE IF ip \in Listed THEN "listed" ELSE "denied"
=============================================================================
