------------------------- MODULE AccessControl_proofs -------------------------
(***************************************************************************)
(* The allow list, for every list, capacity, body and interleaving: proofs.  *)
(*                                                                         *)
(* "In closed mode, only allowlisted IPs pass": while a check is under way,   *)
(* everything it can read is an address that was on the list at some moment  *)
(* of the check (Watched).  The HTTP task stores only to a cell below the    *)
(* count, and then what it stores is on the list, or to the cell behind the  *)
(* last, and then, in a build that stores the element first, what it stores  *)
(* is about to be (HttpKeeps).                                             *)
(*                                                                         *)
(* What a POST leaves in memory and in flash: there is always one list that   *)
(* both hold, but for the step under way and for saves that failed (Kept).   *)
(* It is a tail of the old list and then what the addresses of the body that *)
(* were looked at leave in an empty one (Digest).                          *)
(***************************************************************************)
EXTENDS AccessControl, FiniteSetTheorems, TLAPS

Contents == Addresses \cup {NoAddress}

\* The labels at which the HTTP task works on the head of todo.
Working == {"shift", "saveRemoved", "store", "count", "element", "saveAdded"}

Shape ==
    /\ cell \in [Cells -> Contents] /\ count \in 0 .. Capacity
    /\ todo \in Seq(Contents) /\ (hpc \in Working => todo # <<>>)
    /\ savedList \in Seq(Contents) /\ Len(savedList) <= Capacity
    /\ hpc \notin {"idle", "restarting"} => body \in Bodies
    /\ hpc \in {"store", "count"} => count < Capacity
    /\ hpc = "shift" => at \in 1 .. count
    /\ elementFirst => hpc # "element"
    /\ hpc = "element" => count # 0
    /\ pos \in Nat \ {0} /\ bound \in 0 .. Capacity

Watched ==
    elementFirst /\ ip # NoAddress =>
        /\ Named \subseteq seen
        /\ \A i \in 1 .. bound : cell[i] \in seen
        /\ verdict = "listed" => ip \in seen

AInv == Shape /\ Watched /\ (ip = NoAddress => verdict # "listed")

USE CapacityAssumption, BodiesAssumption
-----------------------------------------------------------------------------
LEMMA ListIsSeq == Shape => List \in Seq(Contents) /\ Len(List) = count
<1> SUFFICES ASSUME Shape PROVE List \in Seq(Contents) /\ Len(List) = count
    OBVIOUS
<1>1. count \in Nat
    BY DEF Shape
<1>2. \A i \in 1 .. count : cell[i] \in Contents
    BY DEF Shape, Cells
<1> QED
    BY <1>1, <1>2 DEF List

LEMMA TailIsSeq ==
    ASSUME NEW s \in Seq(Contents), s # <<>>
    PROVE  /\ Tail(s) \in Seq(Contents) /\ Head(s) \in Contents
OBVIOUS

LEMMA BodyList == ASSUME NEW b \in Bodies PROVE b.list \in Seq(Contents)
<1>1. b.list \in Seq(Addresses)
    OBVIOUS
<1> QED
    BY <1>1 DEF Contents

LEMMA InitHolds == AclInit => AInv
BY DEF AclInit, AInv, Shape, Watched, Contents, Cells, Working
-------------------------------------------------------------------------------
(* The HTTP task keeps the shape *)

LEMMA HttpShape ==
    Shape /\ HttpStep /\ UNCHANGED <<checker, elementFirst>> => Shape'
<1> SUFFICES ASSUME Shape, HttpStep, UNCHANGED <<checker, elementFirst>>
             PROVE  Shape'
    OBVIOUS
<1>1. pos' \in Nat \ {0} /\ bound' \in 0 .. Capacity /\ elementFirst' = elementFirst
    BY DEF Shape, checker
<1>2. ASSUME NEW b \in Bodies, Post(b) PROVE Shape'
    BY <1>1, <1>2 DEF Post, memory, flash, Shape, Working
<1>3. CASE SetMode
    BY <1>1, <1>3 DEF SetMode, flash, Shape, Working
<1>4. CASE SaveMode
    BY <1>1, <1>4 DEF SaveMode, memory, Shape, Working
<1>5. CASE Snapshot
    <2>1. todo' \in Seq(Contents)
        BY <1>5, ListIsSeq DEF Snapshot
    <2> QED
        BY <1>1, <1>5, <2>1 DEF Snapshot, memory, flash, Shape, Working
<1>6. CASE RemoveFind
    <2>1. CASE hpc' = "shift"
        <3>1. at' \in 1 .. count
            BY <1>6, <2>1 DEF RemoveFind
        <3> QED
            BY <1>1, <1>6, <2>1, <3>1 DEF RemoveFind, memory, flash, Shape, Working
    <2>2. CASE todo' = Tail(todo)
        <3>1. todo' \in Seq(Contents) /\ hpc' = "remove"
            BY <1>6, <2>2, TailIsSeq DEF RemoveFind, Shape
        <3> QED
            BY <1>1, <1>6, <3>1 DEF RemoveFind, memory, flash, Shape, Working
    <2> QED
        BY <1>6, <2>1, <2>2 DEF RemoveFind
<1>7. CASE RemoveShift
    <2>1. at \in Cells /\ at + 1 \in Cells /\ at' \in 1 .. count
        BY <1>7 DEF RemoveShift, Shape, Cells
    <2>2. cell' \in [Cells -> Contents]
        BY <1>7, <2>1 DEF RemoveShift, Shape
    <2> QED
        BY <1>1, <1>7, <2>1, <2>2 DEF RemoveShift, flash, Shape, Working
<1>8. CASE RemoveDrop
    <2>1. count' \in 0 .. Capacity
        BY <1>8 DEF RemoveDrop, Shape
    <2> QED
        BY <1>1, <1>8, <2>1 DEF RemoveDrop, flash, Shape, Working
<1>9. CASE SaveList
    <2>1. todo' \in Seq(Contents)
        BY <1>9, TailIsSeq DEF SaveList, Shape, Working
    <2>2. savedList' \in Seq(Contents) /\ Len(savedList') <= Capacity
        <3>1. savedList' \in {List, savedList}
            BY <1>9 DEF SaveList
        <3>2. List \in Seq(Contents) /\ Len(List) <= Capacity
            BY ListIsSeq DEF Shape
        <3> QED
            BY <3>1, <3>2 DEF Shape
    <2>3. hpc' \in {"remove", "add"}
        BY <1>9 DEF SaveList
    <2> QED
        BY <1>1, <1>9, <2>1, <2>2, <2>3 DEF SaveList, memory, Shape, Working
<1>10. CASE RemovedAll
    <2>1. todo' \in Seq(Contents)
        BY <1>10, BodyList DEF RemovedAll, Shape
    <2> QED
        BY <1>1, <1>10, <2>1 DEF RemovedAll, memory, flash, Shape, Working
<1>11. CASE AddFind
    <2>1. todo' \in Seq(Contents)
        BY <1>11, TailIsSeq DEF AddFind, Shape
    <2> QED
        BY <1>1, <1>11, <2>1 DEF AddFind, memory, flash, Shape, Working
<1>12. CASE AddStore
    <2>1. Head(todo) \in Contents
        BY <1>12, TailIsSeq DEF AddStore, Shape, Working
    <2>2. CASE elementFirst
        <3>1. cell' \in [Cells -> Contents] /\ UNCHANGED count /\ hpc' = "count"
            BY <1>12, <2>1, <2>2 DEF AddStore, Shape
        <3> QED
            BY <1>1, <1>12, <2>2, <3>1 DEF AddStore, flash, Shape, Working
    <2>3. CASE ~elementFirst
        <3>1. /\ count' \in 0 .. Capacity /\ count' # 0 /\ UNCHANGED cell
              /\ hpc' = "element"
            BY <1>12, <2>3 DEF AddStore, Shape
        <3> QED
            BY <1>1, <1>12, <2>3, <3>1 DEF AddStore, flash, Shape, Working
    <2> QED
        BY <2>2, <2>3
<1>13. CASE AddFinish
    <2>1. Head(todo) \in Contents
        BY <1>13, TailIsSeq DEF AddFinish, Shape, Working
    <2>2. cell' \in [Cells -> Contents] /\ count' \in 0 .. Capacity
        BY <1>13, <2>1 DEF AddFinish, Shape
    <2> QED
        BY <1>1, <1>13, <2>2 DEF AddFinish, flash, Shape, Working
<1>14. CASE Respond
    BY <1>1, <1>14 DEF Respond, memory, flash, Shape, Working
<1>15. CASE FactoryReset
    <2>1. savedList' \in Seq(Contents) /\ Len(savedList') <= Capacity
        <3>1. savedList' = <<>> \/ savedList' = savedList
            BY <1>15 DEF FactoryReset, flash
        <3>2. savedList \in Seq(Contents) /\ Len(savedList) <= Capacity
            BY DEF Shape
        <3>3. <<>> \in Seq(Contents) /\ Len(<<>>) <= Capacity
            OBVIOUS
        <3> QED
            BY <3>1, <3>2, <3>3
    <2> QED
        BY <1>1, <1>15, <2>1 DEF FactoryReset, memory, Shape, Working
<1> QED
    BY <1>2, <1>3, <1>4, <1>5, <1>6, <1>7, <1>8, <1>9, <1>10, <1>11, <1>12, <1>13,
       <1>14, <1>15 DEF HttpStep
-------------------------------------------------------------------------------
(* What the HTTP task stores is on the list *)

LEMMA HttpKeeps ==
    ASSUME Shape, HttpStep, elementFirst, UNCHANGED elementFirst, NEW i \in Cells
    PROVE  cell'[i] = cell[i] \/ cell'[i] \in Named'
<1>1. CASE RemoveShift
    <2>1. /\ at \in 1 .. count /\ at \in Cells
          /\ cell' = [cell EXCEPT ![at] = cell[at + 1]] /\ count' = count
          /\ hpc' = "shift"
        BY <1>1 DEF RemoveShift, Shape, Cells
    <2>2. cell'[at] \in Named'
        BY <2>1 DEF Named, Listed
    <2>3. i # at => cell'[i] = cell[i]
        BY <2>1 DEF Shape
    <2> QED
        BY <2>2, <2>3
<1>2. CASE AddStore
    <2>1. /\ cell' = [cell EXCEPT ![count + 1] = Head(todo)] /\ count' = count
          /\ hpc' = "count"
        BY <1>2 DEF AddStore
    <2>2. cell'[count + 1] \in Named'
        BY <2>1 DEF Named
    <2>3. i # count + 1 => cell'[i] = cell[i]
        BY <2>1 DEF Shape
    <2> QED
        BY <2>2, <2>3
<1>3. CASE AddFinish
    BY <1>3 DEF AddFinish, Shape
<1>4. CASE ~RemoveShift /\ ~AddStore /\ ~AddFinish
    <2>1. cell' = cell
        BY <1>4 DEF HttpStep, Post, SetMode, SaveMode, Snapshot, RemoveFind, RemoveDrop,
                    SaveList, RemovedAll, AddFind, Respond, FactoryReset, memory
    <2> QED
        BY <2>1
<1> QED
    BY <1>1, <1>2, <1>3, <1>4

LEMMA HttpWatched ==
    AInv /\ Http /\ UNCHANGED elementFirst => Watched'
<1> SUFFICES ASSUME AInv, Http, UNCHANGED elementFirst, elementFirst', ip' # NoAddress
             PROVE  /\ Named' \subseteq seen'
                    /\ \A i \in 1 .. bound' : cell'[i] \in seen'
                    /\ verdict' = "listed" => ip' \in seen'
    BY DEF Watched
<1>1. /\ ip' = ip /\ bound' = bound /\ verdict' = verdict /\ elementFirst
      /\ seen' = seen \cup Named'
    BY DEF Http, Observe, checker
<1>2. \A i \in 1 .. bound : cell[i] \in seen
    BY <1>1 DEF AInv, Watched
<1>3. \A i \in 1 .. bound : i \in Cells
    BY DEF AInv, Shape, Cells
<1>4. ASSUME NEW i \in 1 .. bound PROVE cell'[i] \in seen'
    <2>1. cell'[i] = cell[i] \/ cell'[i] \in Named'
        BY <1>1, <1>3, HttpKeeps DEF AInv, Http
    <2> QED
        BY <1>1, <1>2, <2>1
<1>5. verdict = "listed" => ip \in seen
    BY <1>1 DEF AInv, Watched
<1> QED
    BY <1>1, <1>4, <1>5
-------------------------------------------------------------------------------
(* The check and the restart *)

LEMMA BeginKeeps ==
    ASSUME AInv, NEW a \in Addresses, CheckBegin(a), UNCHANGED elementFirst
    PROVE  AInv'
<1>1. /\ UNCHANGED <<cell, count, hpc, todo, at, body, savedList>>
      /\ ip' = a /\ pos' = 1 /\ bound' = count /\ seen' = Named
      /\ verdict' \in {"open", "none"}
    BY DEF CheckBegin, memory, flash, http
<1>2. Shape'
    BY <1>1 DEF AInv, Shape
<1>3. Named' = Named
    BY <1>1 DEF Named, Listed
<1>4. ASSUME elementFirst', NEW i \in 1 .. count PROVE cell[i] \in Named
    <2>1. hpc # "element"
        BY <1>4 DEF AInv, Shape
    <2>2. cell[i] \in Listed
        BY DEF Listed
    <2> QED
        BY <2>1, <2>2 DEF Named
<1>5. Watched'
    BY <1>1, <1>3, <1>4 DEF Watched
<1> QED
    BY <1>1, <1>2, <1>5 DEF AInv

LEMMA LoadKeeps ==
    ASSUME AInv, CheckLoad, UNCHANGED elementFirst
    PROVE  AInv'
<1>1. /\ UNCHANGED <<cell, count, hpc, todo, at, body, savedList, ip, pos, seen>>
      /\ ip # NoAddress /\ bound' = count /\ verdict' = "none"
    BY DEF CheckLoad, memory, flash, http, watch
<1>2. Shape'
    BY <1>1 DEF AInv, Shape
<1>3. Named' = Named
    BY <1>1 DEF Named, Listed
<1>4. ASSUME elementFirst PROVE \A i \in 1 .. count : cell[i] \in seen
    <2>1. hpc # "element" /\ Named \subseteq seen
        BY <1>1, <1>4 DEF AInv, Watched, Shape
    <2> QED
        BY <2>1 DEF Named, Listed
<1>5. Watched'
    BY <1>1, <1>3, <1>4 DEF Watched, AInv
<1> QED
    BY <1>1, <1>2, <1>5 DEF AInv

LEMMA NextKeeps ==
    ASSUME AInv, CheckNext, UNCHANGED elementFirst
    PROVE  AInv'
<1>1. /\ UNCHANGED <<cell, count, hpc, todo, at, body, savedList, ip, bound, seen>>
      /\ ip # NoAddress /\ pos' = pos + 1
      /\ verdict' = "listed" => ~(pos > bound) /\ cell[pos] = ip
    BY DEF CheckNext, memory, flash, http, watch
<1>2. Shape'
    BY <1>1 DEF AInv, Shape
<1>3. Named' = Named
    BY <1>1 DEF Named, Listed
<1>4. ASSUME elementFirst PROVE \A i \in 1 .. bound : cell[i] \in seen
    BY <1>1, <1>4 DEF AInv, Watched
<1>5. ASSUME elementFirst, verdict' = "listed" PROVE ip \in seen
    <2>1. pos \in 1 .. bound
        BY <1>1, <1>5 DEF AInv, Shape
    <2> QED
        BY <1>1, <1>4, <1>5, <2>1
<1>6. Watched'
    BY <1>1, <1>3, <1>4, <1>5 DEF Watched, AInv
<1> QED
    BY <1>1, <1>2, <1>6 DEF AInv

LEMMA EndKeeps ==
    ASSUME AInv, CheckEnd, UNCHANGED elementFirst
    PROVE  AInv'
<1>1. /\ UNCHANGED <<cell, count, hpc, todo, at, body, savedList>>
      /\ ip' = NoAddress /\ pos' = 1 /\ bound' = 0 /\ verdict' = "none"
    BY DEF CheckEnd, memory, flash, http
<1> QED
    BY <1>1 DEF AInv, Shape, Watched

LEMMA RestartKeeps ==
    ASSUME AInv, AclRestart, UNCHANGED elementFirst
    PROVE  AInv'
<1>1. /\ hpc' = "idle" /\ todo' = <<>> /\ UNCHANGED savedList
      /\ ip' = NoAddress /\ pos' = 1 /\ bound' = 0 /\ verdict' = "none"
    BY DEF AclRestart, flash
<1>2. PICK list \in {<<>>, savedList} :
         /\ count' = Len(list)
         /\ cell' = [i \in Cells |-> IF i <= Len(list) THEN list[i] ELSE NoAddress]
    BY DEF AclRestart, Load
<1>3. list \in Seq(Contents) /\ Len(list) <= Capacity
    <2>1. savedList \in Seq(Contents) /\ Len(savedList) <= Capacity
        BY DEF AInv, Shape
    <2>2. <<>> \in Seq(Contents) /\ Len(<<>>) <= Capacity
        OBVIOUS
    <2>3. list = <<>> \/ list = savedList
        BY <1>2
    <2> QED
        BY <2>1, <2>2, <2>3
<1>4. count' \in 0 .. Capacity
    BY <1>2, <1>3
<1>5. cell' \in [Cells -> Contents]
    <2>1. ASSUME NEW i \in Cells, i <= Len(list) PROVE list[i] \in Contents
        BY <1>3, <2>1 DEF Cells
    <2>2. NoAddress \in Contents
        BY DEF Contents
    <2> QED
        BY <1>2, <2>1, <2>2
<1>6. Shape'
    BY <1>1, <1>4, <1>5 DEF AInv, Shape, Working
<1> QED
    BY <1>1, <1>6 DEF AInv, Watched
-------------------------------------------------------------------------------
LEMMA AclInvariant == AInv /\ [AclNext]_aclVars => AInv'
<1> SUFFICES ASSUME AInv, [AclNext]_aclVars PROVE AInv'
    OBVIOUS
<1>1. ASSUME Http, UNCHANGED elementFirst PROVE AInv'
    <2>1. Shape'
        BY <1>1, HttpShape DEF Http, AInv
    <2>2. Watched'
        BY <1>1, HttpWatched
    <2>3. ip' = NoAddress => verdict' # "listed"
        BY <1>1 DEF Http, checker, AInv
    <2> QED
        BY <2>1, <2>2, <2>3 DEF AInv
<1>2. CASE UNCHANGED aclVars
    <2>1. UNCHANGED <<cell, count, hpc, todo, at, body, savedList, ip, pos, bound,
                      verdict, seen, elementFirst>>
        BY <1>2 DEF aclVars, memory, flash, http, checker, watch
    <2>2. Shape'
        BY <2>1 DEF AInv, Shape
    <2>3. Named' = Named
        BY <2>1 DEF Named, Listed
    <2>4. Watched'
        BY <2>1, <2>3 DEF AInv, Watched
    <2> QED
        BY <2>1, <2>2, <2>4 DEF AInv
<1> QED
    BY <1>1, <1>2, BeginKeeps, LoadKeeps, NextKeeps, EndKeeps, RestartKeeps DEF AclNext

\* access_control_check, in a build that stores the element of an addition before the
\* count (elementFirst), admits only an address that was on the list at some moment of
\* the check.  C allows the other order too, and then it may admit another.
THEOREM ListedPass == AclSpec => []OnlyListedPass
<1>1. AInv => OnlyListedPass
    BY DEF AInv, Watched, OnlyListedPass
<1> QED
    BY InitHolds, AclInvariant, <1>1, PTL DEF AclSpec
-------------------------------------------------------------------------------
(* What a list of addresses stands for, address by address *)

\* The positions below or at k where an address is for the first time.
Uses(s, k) == {i \in 1 .. k : \A j \in 1 .. i - 1 : s[j] # s[i]}

\* l is what the first k addresses of s leave in an empty list.
Digest(s, k, l) ==
    /\ Len(l) = IF Cardinality(Uses(s, k)) < Capacity THEN Cardinality(Uses(s, k))
                ELSE Capacity
    /\ \A r \in 1 .. Len(l) : \E i \in Uses(s, k) : /\ Cardinality(Uses(s, i)) = r
                                                    /\ l[r] = s[i]
    /\ Cardinality(Uses(s, k)) <= Capacity =>
          \A i \in 1 .. k : \E r \in 1 .. Len(l) : l[r] = s[i]

Distinct(l) == \A i, j \in 1 .. Len(l) : l[i] = l[j] => i = j

LEMMA UsesFinite ==
    ASSUME NEW s, NEW k \in Nat
    PROVE  IsFiniteSet(Uses(s, k)) /\ Cardinality(Uses(s, k)) \in Nat
<1>1. IsFiniteSet(1 .. k)
    BY FS_Interval
<1>2. Uses(s, k) \in SUBSET (1 .. k)
    BY DEF Uses
<1> QED
    BY <1>1, <1>2, FS_Subset, FS_CardinalityType

\* One more address is one more use, if it is new, and no more if it is not.
LEMMA UsesStep ==
    ASSUME NEW s, NEW k \in Nat
    PROVE  /\ (\A j \in 1 .. k : s[j] # s[k + 1]) =>
                 /\ Uses(s, k + 1) = Uses(s, k) \cup {k + 1}
                 /\ Cardinality(Uses(s, k + 1)) = Cardinality(Uses(s, k)) + 1
           /\ (\E j \in 1 .. k : s[j] = s[k + 1]) => Uses(s, k + 1) = Uses(s, k)
<1>1. ASSUME \A j \in 1 .. k : s[j] # s[k + 1]
      PROVE  Uses(s, k + 1) = Uses(s, k) \cup {k + 1}
    BY <1>1 DEF Uses
<1>2. k + 1 \notin Uses(s, k)
    BY DEF Uses
<1>3. ASSUME NEW j \in 1 .. k, s[j] = s[k + 1]
      PROVE  Uses(s, k + 1) = Uses(s, k)
    BY <1>3 DEF Uses
<1> QED
    BY <1>1, <1>2, <1>3, UsesFinite, FS_AddElement

\* The uses up to i are those of a longer list that come no later than i.
LEMMA UsesBelow ==
    ASSUME NEW s, NEW k \in Nat, NEW i \in 0 .. k
    PROVE  /\ Uses(s, i) = {j \in Uses(s, k) : j <= i}
           /\ Cardinality(Uses(s, i)) <= Cardinality(Uses(s, k))
<1>1. Uses(s, i) = {j \in Uses(s, k) : j <= i}
    BY DEF Uses
<1>2. Uses(s, i) \in SUBSET Uses(s, k)
    BY <1>1
<1> QED
    BY <1>1, <1>2, UsesFinite, FS_Subset

\* A later use has more uses up to it.
LEMMA UsesRank ==
    ASSUME NEW s, NEW k \in Nat, NEW i \in Uses(s, k), NEW j \in Uses(s, k),
           Cardinality(Uses(s, i)) = Cardinality(Uses(s, j))
    PROVE  i = j
<1>1. \A a, b \in Uses(s, k) : a < b => Cardinality(Uses(s, a)) < Cardinality(Uses(s, b))
    <2> SUFFICES ASSUME NEW a \in Uses(s, k), NEW b \in Uses(s, k), a < b
                 PROVE  Cardinality(Uses(s, a)) < Cardinality(Uses(s, b))
        OBVIOUS
    <2>1. a \in 1 .. k /\ b \in 1 .. k /\ a \in Nat /\ b \in Nat
        BY DEF Uses
    <2>2. b - 1 \in Nat /\ a \in 0 .. b - 1 /\ (b - 1) + 1 = b
        BY <2>1
    <2>3. \A j1 \in 1 .. b - 1 : s[j1] # s[b]
        BY DEF Uses
    <2>4. Cardinality(Uses(s, b)) = Cardinality(Uses(s, b - 1)) + 1
        BY <2>2, <2>3, UsesStep
    <2>5. Cardinality(Uses(s, a)) <= Cardinality(Uses(s, b - 1))
        BY <2>2, UsesBelow
    <2>6. Cardinality(Uses(s, a)) \in Nat /\ Cardinality(Uses(s, b - 1)) \in Nat
        BY <2>1, <2>2, UsesFinite
    <2> QED
        BY <2>4, <2>5, <2>6
<1>2. i \in Nat /\ j \in Nat
    BY DEF Uses
<1>3. Cardinality(Uses(s, i)) \in Nat
    BY <1>2, UsesFinite
<1> QED
    BY <1>1, <1>2, <1>3
\* No address stands for nothing.
LEMMA DigestOfNone == ASSUME NEW s PROVE Digest(s, 0, <<>>)
<1>1. Uses(s, 0) = {}
    BY DEF Uses
<1>2. Cardinality(Uses(s, 0)) = 0
    BY <1>1, FS_EmptySet
<1> QED
    BY <1>2 DEF Digest

\* An address that is there already, or that finds the list full, adds nothing.
LEMMA DigestSkip ==
    ASSUME NEW s, NEW k \in Nat, NEW l \in Seq(Addresses), Digest(s, k, l),
           \/ \E r \in 1 .. Len(l) : l[r] = s[k + 1]
           \/ Len(l) >= Capacity
    PROVE  Digest(s, k + 1, l)
<1>1. PICK c \in Nat : c = Cardinality(Uses(s, k))
    BY UsesFinite
<1>2. PICK d \in Nat : d = Cardinality(Uses(s, k + 1))
    BY UsesFinite
<1>3. \A r \in 1 .. Len(l) : \E i \in Uses(s, k) : /\ Cardinality(Uses(s, i)) = r
                                                   /\ l[r] = s[i]
    BY DEF Digest
<1>4. CASE \E j \in 1 .. k : s[j] = s[k + 1]
    <2>1. Uses(s, k + 1) = Uses(s, k)
        BY <1>4, UsesStep
    <2>2. ASSUME c <= Capacity, NEW i \in 1 .. k + 1
          PROVE  \E r \in 1 .. Len(l) : l[r] = s[i]
        <3>1. \A j \in 1 .. k : \E r \in 1 .. Len(l) : l[r] = s[j]
            BY <1>1, <2>2 DEF Digest
        <3>2. i \in 1 .. k \/ i = k + 1
            OBVIOUS
        <3> QED
            BY <1>4, <3>1, <3>2
    <2> QED
        BY <1>1, <2>1, <2>2 DEF Digest
<1>5. CASE \A j \in 1 .. k : s[j] # s[k + 1]
    <2>1. Uses(s, k + 1) = Uses(s, k) \cup {k + 1} /\ d = c + 1
        BY <1>1, <1>2, <1>5, UsesStep
    <2>2. ~ \E r \in 1 .. Len(l) : l[r] = s[k + 1]
        <3> SUFFICES ASSUME NEW r \in 1 .. Len(l), l[r] = s[k + 1] PROVE FALSE
            OBVIOUS
        <3>1. PICK i \in Uses(s, k) : l[r] = s[i]
            BY <1>3
        <3>2. i \in 1 .. k
            BY DEF Uses
        <3> QED
            BY <1>5, <3>1, <3>2
    <2>3. Len(l) >= Capacity /\ Len(l) = IF c < Capacity THEN c ELSE Capacity
        BY <1>1, <2>2 DEF Digest
    <2>4. c >= Capacity /\ d > Capacity /\ Len(l) = IF d < Capacity THEN d ELSE Capacity
        BY <2>1, <2>3
    <2>5. \A r \in 1 .. Len(l) : \E i \in Uses(s, k + 1) :
             Cardinality(Uses(s, i)) = r /\ l[r] = s[i]
        BY <1>3, <2>1
    <2>6. ~ (d <= Capacity)
        BY <2>4
    <2> QED
        BY <1>2, <2>4, <2>5, <2>6 DEF Digest
<1> QED
    BY <1>4, <1>5

LEMMA AppendIsSeq ==
    ASSUME NEW l \in Seq(Addresses), NEW a \in Addresses
    PROVE  Append(l, a) \in Seq(Addresses)
OBVIOUS

\* A new address that finds room is appended.
LEMMA DigestAdd ==
    ASSUME NEW s, NEW k \in Nat, NEW l \in Seq(Addresses), Digest(s, k, l), Distinct(l),
           NEW a \in Addresses, a = s[k + 1],
           \A r \in 1 .. Len(l) : l[r] # a, Len(l) < Capacity
    PROVE  Digest(s, k + 1, Append(l, a)) /\ Distinct(Append(l, a))
<1>1. PICK c \in Nat : c = Cardinality(Uses(s, k))
    BY UsesFinite
<1>2. PICK d \in Nat : d = Cardinality(Uses(s, k + 1))
    BY UsesFinite
<1>3. \A r \in 1 .. Len(l) : \E i \in Uses(s, k) : /\ Cardinality(Uses(s, i)) = r
                                                   /\ l[r] = s[i]
    BY DEF Digest
<1>4. Len(l) = c /\ c < Capacity
    BY <1>1 DEF Digest
<1>5. \A i \in 1 .. k : \E r \in 1 .. Len(l) : l[r] = s[i]
    BY <1>1, <1>4 DEF Digest
<1>6. \A j \in 1 .. k : s[j] # s[k + 1]
    BY <1>5
<1>7. Uses(s, k + 1) = Uses(s, k) \cup {k + 1} /\ d = c + 1
    BY <1>1, <1>2, <1>6, UsesStep
<1>8. PICK m \in Seq(Addresses) : m = Append(l, a)
    BY AppendIsSeq
<1>9. /\ Len(m) = Len(l) + 1 /\ m[Len(l) + 1] = a
      /\ \A r \in 1 .. Len(l) : m[r] = l[r]
    BY <1>8
<1>10. Len(m) = IF d < Capacity THEN d ELSE Capacity
    BY <1>4, <1>7, <1>9
<1>11. ASSUME NEW r \in 1 .. Len(m)
       PROVE  \E i \in Uses(s, k + 1) : Cardinality(Uses(s, i)) = r /\ m[r] = s[i]
    <2>1. CASE r = Len(l) + 1
        BY <1>2, <1>4, <1>7, <1>9, <2>1
    <2>2. CASE r \in 1 .. Len(l)
        BY <1>3, <1>7, <1>9, <2>2
    <2> QED
        BY <1>9, <2>1, <2>2
<1>12. ASSUME NEW i \in 1 .. k + 1 PROVE \E r \in 1 .. Len(m) : m[r] = s[i]
    <2>1. CASE i = k + 1
        BY <1>9, <2>1
    <2>2. CASE i \in 1 .. k
        <3>1. PICK r \in 1 .. Len(l) : l[r] = s[i]
            BY <1>5, <2>2
        <3> QED
            BY <1>9, <3>1
    <2>3. i = k + 1 \/ i \in 1 .. k
        OBVIOUS
    <2> QED
        BY <2>1, <2>2, <2>3
<1>13. Digest(s, k + 1, m)
    BY <1>2, <1>10, <1>11, <1>12 DEF Digest
<1>14. Distinct(m)
    BY <1>9 DEF Distinct
<1> QED
    BY <1>8, <1>13, <1>14

\* What some of the addresses leave is the beginning of what all of them do.
LEMMA DigestIsPrefix ==
    ASSUME NEW s \in Seq(Addresses), NEW k \in 0 .. Len(s), NEW l \in Seq(Addresses),
           Digest(s, k, l)
    PROVE  /\ Len(l) <= Len(Expected(s)) /\ l = SubSeq(Expected(s), 1, Len(l))
           /\ k = Len(s) => l = Expected(s)
<1>1. PICK n \in Nat : n = Len(s)
    OBVIOUS
<1>2. FirstUses(s) = Uses(s, n) /\ k \in 0 .. n /\ k \in Nat
    BY <1>1 DEF FirstUses, Uses
<1>3. PICK c \in Nat : c = Cardinality(Uses(s, n))
    BY UsesFinite
<1>4. PICK size \in Nat : size = IF c < Capacity THEN c ELSE Capacity
    OBVIOUS
<1>5. PICK e : e = [r \in 1 .. size |->
                      s[CHOOSE i \in Uses(s, n) : Cardinality({j \in Uses(s, n) : j <= i}) = r]]
    OBVIOUS
<1>6. Expected(s) = e
    BY <1>2, <1>3, <1>4, <1>5 DEF Expected
<1>7. \A i \in Uses(s, n) : /\ {j \in Uses(s, n) : j <= i} = Uses(s, i)
                            /\ i \in 1 .. n /\ s[i] \in Addresses
    <2> SUFFICES ASSUME NEW i \in Uses(s, n)
                 PROVE  {j \in Uses(s, n) : j <= i} = Uses(s, i) /\ i \in 1 .. n
                        /\ s[i] \in Addresses
        OBVIOUS
    <2>1. i \in 1 .. n /\ i \in 0 .. n
        BY DEF Uses
    <2>2. s[i] \in Addresses
        BY <1>1, <2>1
    <2> QED
        BY <2>1, <2>2, UsesBelow
\* One use of each rank, so the CHOOSE has no choice.
<1>8. ASSUME NEW r \in 1 .. size, NEW i \in Uses(s, n), Cardinality(Uses(s, i)) = r
      PROVE  e[r] = s[i]
    <2>1. PICK h : h = CHOOSE j \in Uses(s, n) :
                          Cardinality({j2 \in Uses(s, n) : j2 <= j}) = r
        OBVIOUS
    <2>2. h \in Uses(s, n) /\ Cardinality({j2 \in Uses(s, n) : j2 <= h}) = r
        BY <1>7, <1>8, <2>1
    <2>3. h = i
        BY <1>7, <1>8, <2>2, UsesRank
    <2> QED
        BY <1>5, <2>1, <2>3
<1>9. Uses(s, k) \subseteq Uses(s, n)
    BY <1>2, UsesBelow
<1>10. PICK b \in Nat : b = Cardinality(Uses(s, k))
    BY <1>2, UsesFinite
<1>11. b <= c /\ Len(l) = IF b < Capacity THEN b ELSE Capacity
    BY <1>2, <1>3, <1>10, UsesBelow DEF Digest
<1>12. Len(l) <= size
    BY <1>4, <1>11
<1>13. ASSUME NEW r \in 1 .. Len(l) PROVE l[r] = e[r]
    <2>1. PICK i \in Uses(s, k) : Cardinality(Uses(s, i)) = r /\ l[r] = s[i]
        BY DEF Digest
    <2>2. r \in 1 .. size /\ i \in Uses(s, n)
        BY <1>9, <1>12
    <2> QED
        BY <1>8, <2>1, <2>2
<1>14. Len(e) = size /\ Len(l) <= Len(e)
    <2>1. e = [r \in 1 .. size |-> e[r]]
        BY <1>5
    <2>2. PICK elements : elements = {e[r] : r \in 1 .. size}
        OBVIOUS
    <2>3. e \in [1 .. size -> elements]
        BY <2>1, <2>2
    <2>4. e \in Seq(elements)
        BY <2>3
    <2> QED
        BY <1>5, <1>12, <2>1, <2>4
<1>15. l = SubSeq(e, 1, Len(l))
    <2>1. PICK p : p = SubSeq(e, 1, Len(l))
        OBVIOUS
    <2>2. p = [r \in 1 .. Len(l) |-> e[r]]
        BY <1>5, <1>14, <2>1
    <2>3. l = [r \in 1 .. Len(l) |-> l[r]]
        OBVIOUS
    <2> QED
        BY <1>13, <2>1, <2>2, <2>3
<1>16. ASSUME k = Len(s) PROVE l = e
    <2>1. Len(l) = size
        BY <1>1, <1>3, <1>4, <1>10, <1>11, <1>16
    <2>2. l = [r \in 1 .. size |-> l[r]] /\ e = [r \in 1 .. size |-> e[r]]
        BY <1>5, <2>1
    <2> QED
        BY <1>13, <2>1, <2>2
<1> QED
    BY <1>6, <1>14, <1>15, <1>16
-------------------------------------------------------------------------------
(* The list while a POST rebuilds it.  Whatever the HTTP task is at, there is   *)
(* one list that memory holds, or is one entry away from, and that flash holds  *)
(* unless a save failed (Kept): first the old one, then what is left of it,     *)
(* then what there is of the new one.                                           *)

Labels == {"idle", "mode", "saveMode", "snapshot", "remove", "shift",
           "saveRemoved", "add", "store", "count", "element", "saveAdded",
           "restarting"}

Fresh    == "list" \notin stale
Removing == {"remove", "shift", "saveRemoved"}
Adding   == {"add", "store", "count", "element", "saveAdded"}
Between  == {"shift", "saveRemoved", "element", "saveAdded"}

\* The list in memory is l.
Holds(l) == count = Len(l) /\ \A i \in 1 .. count : cell[i] = l[i]

\* t is what follows the first n entries of s.
Suffix(t, s, n) == /\ n \in 0 .. Len(s) /\ Len(t) = Len(s) - n
                   /\ \A i \in 1 .. Len(t) : t[i] = s[n + i]

Kept(l) ==
    /\ Distinct(l) /\ Len(l) <= Capacity
    /\ Fresh => savedList = l
    /\ hpc \notin Between => Holds(l)
    /\ hpc \in {"mode", "saveMode", "snapshot"} => l = before
    /\ hpc \in Removing => l = todo /\ \E n \in Nat : Suffix(l, before, n)
    /\ hpc = "shift" =>
          /\ count = Len(l)
          /\ \A i \in 1 .. count : cell[i] = IF i < at THEN l[i + 1] ELSE l[i]
    /\ hpc = "saveRemoved" => Holds(Tail(l))
    /\ hpc \in Adding => \E k \in Nat : /\ Suffix(todo, body.list, k)
                                        /\ Digest(body.list, k, l)
    /\ hpc \in {"store", "count", "element", "saveAdded"} =>
          /\ Len(l) < Capacity
          /\ \A i \in 1 .. Len(l) : l[i] # Head(todo)
    /\ hpc = "count" => cell[count + 1] = Head(todo)
    /\ hpc = "element" => /\ count = Len(l) + 1
                          /\ \A i \in 1 .. Len(l) : cell[i] = l[i]
    /\ hpc = "saveAdded" => Holds(Append(l, Head(todo)))
    /\ acked # NoBody => /\ hpc = "idle" /\ acked \in Bodies
                         /\ Fresh => l = Expected(acked.list)

ListTypes ==
    /\ hpc \in Labels /\ at \in Cells /\ body \in Bodies \cup {NoBody}
    /\ todo \in Seq(Addresses) /\ before \in Seq(Addresses)
    /\ savedList \in Seq(Addresses) /\ Distinct(savedList)
    /\ stale \subseteq {"mode", "list"}
    /\ hpc = "restarting" => stale = {"mode", "list"}

LInv == AInv /\ ListTypes /\ \E l \in Seq(Addresses) : Kept(l)

LEMMA HoldsList ==
    ASSUME NEW l \in Seq(Addresses), Holds(l)
    PROVE  List = l /\ Listed = {l[i] : i \in 1 .. Len(l)}
<1>1. l = [i \in 1 .. Len(l) |-> l[i]] /\ Len(l) \in Nat
    OBVIOUS
<1>2. List = [i \in 1 .. Len(l) |-> l[i]]
    BY <1>1 DEF Holds, List
<1> QED
    BY <1>1, <1>2 DEF Holds, Listed

LEMMA TailOfAddresses ==
    ASSUME NEW s \in Seq(Addresses), s # <<>>
    PROVE  /\ Tail(s) \in Seq(Addresses) /\ Head(s) \in Addresses /\ Head(s) = s[1]
           /\ Len(s) \in Nat \ {0} /\ Len(Tail(s)) = Len(s) - 1
           /\ \A i \in 1 .. Len(Tail(s)) : Tail(s)[i] = s[i + 1]
OBVIOUS

LEMMA NoAddresses == <<>> \in Seq(Addresses) /\ Len(<<>>) = 0
OBVIOUS

LEMMA InitLInv == AclInit => LInv
<1> SUFFICES ASSUME AclInit PROVE LInv
    OBVIOUS
<1>1. /\ count = 0 /\ savedList = <<>> /\ hpc = "idle" /\ body = NoBody /\ todo = <<>>
      /\ at = 1 /\ before = <<>> /\ acked = NoBody /\ stale = {}
    BY DEF AclInit
<1>2. PICK l \in Seq(Addresses) : l = <<>> /\ Len(l) = 0
    BY NoAddresses
<1>3. Distinct(l)
    BY <1>2 DEF Distinct
<1>4. ListTypes
    BY <1>1, <1>2, <1>3 DEF ListTypes, Labels, Cells
<1>5. Kept(l)
    BY <1>1, <1>2, <1>3 DEF Kept, Holds, Between, Removing, Adding
<1> QED
    BY <1>4, <1>5, InitHolds DEF LInv

\* A step that leaves the list, its copy in flash and the POST alone
LEMMA KeptStays ==
    ASSUME NEW l \in Seq(Addresses), Kept(l),
           UNCHANGED <<cell, count, savedList, hpc, body, todo, at, before, acked, stale>>
    PROVE  Kept(l)'
BY DEF Kept, Fresh, Holds
-------------------------------------------------------------------------------
(* The steps before the first removal, and the last two *)

LEMMA PostKept ==
    ASSUME Shape, NEW l \in Seq(Addresses), Kept(l), NEW b \in Bodies, Post(b)
    PROVE  Kept(l)' /\ before' = l
<1>1. /\ hpc = "idle" /\ hpc' = "mode" /\ before' = List /\ acked' = NoBody
      /\ UNCHANGED <<cell, count, savedList, stale>>
    BY DEF Post, memory, flash
<1>2. Holds(l) /\ before' = l
    BY <1>1, HoldsList DEF Kept, Between
<1> QED
    BY <1>1, <1>2 DEF Kept, Fresh, Holds, Between, Removing, Adding

LEMMA ModeKept ==
    ASSUME Shape, NEW l \in Seq(Addresses), Kept(l), SetMode \/ SaveMode
    PROVE  Kept(l)'
<1>1. /\ hpc \in {"mode", "saveMode"} /\ hpc' \in {"saveMode", "snapshot"}
      /\ UNCHANGED <<cell, count, savedList, before, acked>> /\ Fresh' = Fresh
    BY DEF SetMode, SaveMode, memory, flash, history, Fresh
<1> QED
    BY <1>1 DEF Kept, Holds, Between, Removing, Adding

LEMMA SnapshotKept ==
    ASSUME Shape, NEW l \in Seq(Addresses), Kept(l), Snapshot
    PROVE  Kept(l)' /\ todo' = l
<1>1. /\ hpc = "snapshot" /\ hpc' = "remove" /\ todo' = List
      /\ UNCHANGED <<cell, count, savedList, before, acked, stale>>
    BY DEF Snapshot, memory, flash, history
<1>2. Holds(l) /\ todo' = l /\ l = before
    BY <1>1, HoldsList DEF Kept, Between
<1>3. Suffix(l, before, 0)
    BY <1>2 DEF Suffix
<1> QED
    BY <1>1, <1>2, <1>3 DEF Kept, Fresh, Holds, Between, Removing, Adding

LEMMA RespondKept ==
    ASSUME Shape, ListTypes, NEW l \in Seq(Addresses), Kept(l), Respond
    PROVE  Kept(l)'
<1>1. /\ hpc = "add" /\ todo = <<>> /\ hpc' = "idle" /\ acked' = body
      /\ UNCHANGED <<cell, count, savedList, stale>>
    BY DEF Respond, memory, flash
<1>2. body \in Bodies
    BY <1>1 DEF Shape
<1>3. PICK s \in Seq(Addresses) : s = body.list
    BY <1>2
<1>4. PICK k \in Nat : Suffix(todo, s, k) /\ Digest(s, k, l)
    BY <1>1, <1>3 DEF Kept, Adding
<1>5. k = Len(s) /\ k \in 0 .. Len(s)
    BY <1>1, <1>4 DEF Suffix
<1>6. l = Expected(body.list)
    BY <1>3, <1>4, <1>5, DigestIsPrefix
<1> QED
    BY <1>1, <1>2, <1>6 DEF Kept, Fresh, Holds, Between, Removing, Adding

LEMMA ResetKept ==
    ASSUME Shape, NEW l \in Seq(Addresses), Kept(l), FactoryReset
    PROVE  Kept(l)'
<1>1. /\ hpc = "idle" /\ hpc' = "restarting" /\ acked' = NoBody /\ ~Fresh'
      /\ UNCHANGED <<cell, count>>
    BY DEF FactoryReset, memory, Fresh
<1> QED
    BY <1>1 DEF Kept, Fresh, Holds, Between, Removing, Adding
-------------------------------------------------------------------------------
(* Removing the old list, first entry first *)

\* The entry to remove is always found, and always the first.
LEMMA RemoveFindKept ==
    ASSUME Shape, ListTypes, NEW l \in Seq(Addresses), Kept(l), RemoveFind
    PROVE  Kept(l)' /\ at' = 1 /\ hpc' = "shift" /\ UNCHANGED todo
<1>1. /\ hpc = "remove" /\ todo # <<>>
      /\ UNCHANGED <<cell, count, savedList, body, before, acked, stale>>
    BY DEF RemoveFind, memory, flash, history
<1>2. /\ l = todo /\ count = Len(l) /\ \A i \in 1 .. count : cell[i] = l[i]
      /\ \E n \in Nat : Suffix(l, before, n)
    BY <1>1 DEF Kept, Removing, Between, Holds
<1>3. Head(todo) = cell[1] /\ 1 \in 1 .. count
    BY <1>1, <1>2
<1>4. Head(todo) \in Listed
    BY <1>3 DEF Listed
<1>5. /\ at' \in {i \in 1 .. count : /\ cell[i] = Head(todo)
                                     /\ \A j \in 1 .. i - 1 : cell[j] # Head(todo)}
      /\ hpc' = "shift" /\ UNCHANGED todo
    BY <1>4 DEF RemoveFind
<1>6. at' = 1
    BY <1>3, <1>5 DEF Shape
<1>7. \A i \in 1 .. count : ~(i < at')
    BY <1>6
<1> QED
    BY <1>1, <1>2, <1>5, <1>6, <1>7 DEF Kept, Fresh, Holds, Between, Removing, Adding

LEMMA RemoveShiftKept ==
    ASSUME Shape, ListTypes, NEW l \in Seq(Addresses), Kept(l), RemoveShift
    PROVE  Kept(l)'
<1>1. /\ hpc = "shift" /\ hpc' = "shift" /\ at < count /\ at' = at + 1
      /\ cell' = [cell EXCEPT ![at] = cell[at + 1]]
      /\ UNCHANGED <<count, savedList, body, todo, before, acked, stale>>
    BY DEF RemoveShift, flash, history
<1>2. /\ l = todo /\ count = Len(l) /\ \E n \in Nat : Suffix(l, before, n)
      /\ \A i \in 1 .. count : cell[i] = IF i < at THEN l[i + 1] ELSE l[i]
    BY <1>1 DEF Kept, Removing
<1>3. /\ at \in 1 .. count /\ at + 1 \in 1 .. count /\ count \in Nat
      /\ \A i \in 1 .. count : i \in Cells
    BY <1>1 DEF Shape, Cells
<1>4. cell[at + 1] = l[at + 1]
    BY <1>2, <1>3
<1>5. \A i \in 1 .. count : cell'[i] = IF i = at THEN l[at + 1] ELSE cell[i]
    BY <1>1, <1>3, <1>4 DEF Shape
<1>6. \A i \in 1 .. count : cell'[i] = IF i < at + 1 THEN l[i + 1] ELSE l[i]
    BY <1>2, <1>3, <1>5
<1> QED
    BY <1>1, <1>2, <1>6 DEF Kept, Fresh, Holds, Between, Removing, Adding

LEMMA RemoveDropKept ==
    ASSUME Shape, ListTypes, NEW l \in Seq(Addresses), Kept(l), RemoveDrop
    PROVE  Kept(l)'
<1>1. /\ hpc = "shift" /\ hpc' = "saveRemoved" /\ at = count /\ count' = count - 1
      /\ UNCHANGED <<cell, savedList, body, todo, before, acked, stale>>
    BY DEF RemoveDrop, flash, history
<1>2. /\ l = todo /\ count = Len(l) /\ \E n \in Nat : Suffix(l, before, n)
      /\ \A i \in 1 .. count : cell[i] = IF i < at THEN l[i + 1] ELSE l[i]
    BY <1>1 DEF Kept, Removing
<1>3. l # <<>> /\ count \in Nat \ {0}
    BY <1>1, <1>2 DEF Shape, Working
<1>4. PICK m \in Seq(Addresses) : m = Tail(l)
    BY <1>3, TailOfAddresses
<1>5. Len(m) = count - 1 /\ \A i \in 1 .. count - 1 : m[i] = l[i + 1]
    BY <1>2, <1>3, <1>4
<1>6. Holds(m)'
    BY <1>1, <1>2, <1>3, <1>5 DEF Holds
<1> QED
    BY <1>1, <1>2, <1>4, <1>6 DEF Kept, Fresh, Between, Removing, Adding

\* What is left has no address twice, and is at the end of the old list still.
LEMMA TailKept ==
    ASSUME NEW l \in Seq(Addresses), l # <<>>, Distinct(l),
           NEW b \in Seq(Addresses), NEW n \in Nat, Suffix(l, b, n)
    PROVE  /\ Tail(l) \in Seq(Addresses) /\ Len(Tail(l)) = Len(l) - 1
           /\ Distinct(Tail(l)) /\ Suffix(Tail(l), b, n + 1)
<1>1. PICK m \in Seq(Addresses) : m = Tail(l)
    BY TailOfAddresses
<1>2. Len(l) \in Nat \ {0} /\ Len(b) \in Nat
    OBVIOUS
<1>3. Len(m) = Len(l) - 1 /\ \A i \in 1 .. Len(m) : m[i] = l[i + 1] /\ i + 1 \in 1 .. Len(l)
    BY <1>1, <1>2
<1>4. Distinct(m)
    BY <1>2, <1>3 DEF Distinct
<1>5. Len(l) = Len(b) - n /\ \A i \in 1 .. Len(l) : l[i] = b[n + i]
    BY DEF Suffix
<1>6. \A i \in 1 .. Len(m) : m[i] = b[(n + 1) + i]
    BY <1>2, <1>3, <1>5
<1>7. Suffix(m, b, n + 1)
    BY <1>2, <1>3, <1>5, <1>6 DEF Suffix
<1> QED
    BY <1>1, <1>3, <1>4, <1>7

\* What save_allowlist_to_nvs leaves in flash, when memory holds l
LEMMA Saved ==
    ASSUME SaveList, NEW l \in Seq(Addresses), Holds(l)
    PROVE  /\ Fresh' => savedList' = l
           /\ savedList' \in {l, savedList} /\ Holds(l)'
           /\ todo' = Tail(todo) /\ UNCHANGED <<body, before, acked, at>>
<1>1. List = l
    BY HoldsList
<1> QED
    BY <1>1 DEF SaveList, memory, Fresh, Holds

LEMMA SaveRemovedKept ==
    ASSUME Shape, ListTypes, NEW l \in Seq(Addresses), Kept(l), SaveList,
           hpc = "saveRemoved"
    PROVE  /\ Tail(l) \in Seq(Addresses) /\ Kept(Tail(l))'
           /\ savedList' \in {Tail(l), savedList}
<1>1. l = todo /\ l # <<>> /\ Distinct(l) /\ Len(l) <= Capacity /\ Holds(Tail(l))
    BY DEF Kept, Removing, Shape, Working
<1>2. PICK n \in Nat : Suffix(l, before, n)
    BY DEF Kept, Removing
<1>3. /\ Tail(l) \in Seq(Addresses) /\ Len(Tail(l)) = Len(l) - 1
      /\ Distinct(Tail(l)) /\ Suffix(Tail(l), before, n + 1)
    BY <1>1, <1>2, TailKept DEF ListTypes
<1>4. PICK m \in Seq(Addresses) : m = Tail(l)
    BY <1>3
<1>5. hpc' = "remove" /\ acked = NoBody
    BY DEF SaveList, Kept
<1>6. /\ Fresh' => savedList' = m
      /\ savedList' \in {m, savedList} /\ Holds(m)'
      /\ todo' = m /\ UNCHANGED <<body, before, acked>>
    BY <1>1, <1>4, Saved
<1>7. Len(m) <= Capacity /\ Distinct(m) /\ Suffix(m, before', n + 1) /\ n + 1 \in Nat
    BY <1>1, <1>3, <1>4, <1>6
<1>8. Kept(m)'
    BY <1>5, <1>6, <1>7 DEF Kept, Between, Removing, Adding
<1> QED
    BY <1>3, <1>4, <1>6, <1>8

LEMMA RemovedAllKept ==
    ASSUME Shape, ListTypes, NEW l \in Seq(Addresses), Kept(l), RemovedAll
    PROVE  Kept(l)'
<1>1. /\ hpc = "remove" /\ todo = <<>> /\ hpc' = "add" /\ todo' = body.list
      /\ UNCHANGED <<cell, count, savedList, body, before, acked, stale>>
    BY DEF RemovedAll, memory, flash, history
<1>2. l = <<>>
    BY <1>1 DEF Kept, Removing
<1>3. PICK s \in Seq(Addresses) : s = body.list
    BY <1>1 DEF Shape
<1>4. Suffix(s, s, 0) /\ Digest(s, 0, l)
    BY <1>2, DigestOfNone DEF Suffix
<1> QED
    BY <1>1, <1>3, <1>4 DEF Kept, Fresh, Holds, Between, Removing, Adding
-------------------------------------------------------------------------------
(* Adding the new list, in the order of the body *)

\* What is left to add after one more address
LEMMA NextOfBody ==
    ASSUME NEW t \in Seq(Addresses), t # <<>>, NEW s \in Seq(Addresses),
           NEW k \in Nat, Suffix(t, s, k)
    PROVE  /\ Head(t) = s[k + 1] /\ Head(t) \in Addresses
           /\ Tail(t) \in Seq(Addresses) /\ Suffix(Tail(t), s, k + 1)
<1>1. PICK u \in Seq(Addresses) : u = Tail(t)
    BY TailOfAddresses
<1>2. Len(t) \in Nat \ {0} /\ Len(s) \in Nat
    BY TailOfAddresses
<1>3. Len(u) = Len(t) - 1 /\ \A i \in 1 .. Len(u) : u[i] = t[i + 1] /\ i + 1 \in 1 .. Len(t)
    BY <1>1, <1>2, TailOfAddresses
<1>4. Len(t) = Len(s) - k /\ \A i \in 1 .. Len(t) : t[i] = s[k + i]
    BY DEF Suffix
<1>5. \A i \in 1 .. Len(u) : u[i] = s[(k + 1) + i]
    BY <1>2, <1>3, <1>4
<1>6. Suffix(u, s, k + 1)
    BY <1>2, <1>3, <1>4, <1>5 DEF Suffix
<1>7. Head(t) = t[1] /\ t[1] = s[k + 1] /\ Head(t) \in Addresses
    BY <1>2, <1>4, TailOfAddresses
<1> QED
    BY <1>1, <1>6, <1>7

\* A duplicate is refused, and any address when the list is full; else there is
\* room, and the address is new.
LEMMA AddFindKept ==
    ASSUME Shape, ListTypes, NEW l \in Seq(Addresses), Kept(l), AddFind
    PROVE  Kept(l)'
<1>1. /\ hpc = "add" /\ todo # <<>> /\ acked = NoBody
      /\ UNCHANGED <<cell, count, savedList, body, before, acked, stale>>
    BY DEF AddFind, memory, flash, history, Kept
<1>2. PICK s \in Seq(Addresses) : s = body.list
    BY <1>1 DEF Shape
<1>3. PICK k \in Nat : Suffix(todo, s, k) /\ Digest(s, k, l)
    BY <1>1, <1>2 DEF Kept, Adding
<1>4. Holds(l) /\ Distinct(l) /\ Len(l) <= Capacity /\ (Fresh => savedList = l)
    BY <1>1 DEF Kept, Between
<1>5. count = Len(l) /\ Listed = {l[i] : i \in 1 .. Len(l)}
    BY <1>4, HoldsList DEF Holds
<1>6. CASE Head(todo) \in Listed \/ count >= Capacity
    <2>1. hpc' = "add" /\ todo' = Tail(todo)
        BY <1>1, <1>6 DEF AddFind
    <2>2. Head(todo) = s[k + 1] /\ Suffix(Tail(todo), s, k + 1)
        BY <1>1, <1>3, NextOfBody DEF ListTypes
    <2>3. Digest(s, k + 1, l)
        BY <1>3, <1>5, <1>6, <2>2, DigestSkip
    <2>4. Suffix(todo', body'.list, k + 1) /\ Digest(body'.list, k + 1, l) /\ k + 1 \in Nat
        BY <1>1, <1>2, <2>1, <2>2, <2>3
    <2>5. Holds(l)' /\ Fresh' = Fresh
        BY <1>1, <1>4 DEF Holds, Fresh
    <2> QED
        BY <1>1, <1>4, <2>1, <2>4, <2>5 DEF Kept, Between, Removing, Adding
<1>7. CASE ~(Head(todo) \in Listed \/ count >= Capacity)
    <2>1. hpc' = "store" /\ UNCHANGED todo
        BY <1>7 DEF AddFind
    <2>2. Len(l) < Capacity /\ \A i \in 1 .. Len(l) : l[i] # Head(todo)
        BY <1>5, <1>7
    <2>3. Holds(l)' /\ Fresh' = Fresh
        BY <1>1, <1>4 DEF Holds, Fresh
    <2> QED
        BY <1>1, <1>2, <1>3, <1>4, <2>1, <2>2, <2>3 DEF Kept, Between, Removing, Adding
<1> QED
    BY <1>6, <1>7

LEMMA AddStoreKept ==
    ASSUME Shape, ListTypes, NEW l \in Seq(Addresses), Kept(l), AddStore
    PROVE  Kept(l)'
<1>1. /\ hpc = "store" /\ acked = NoBody /\ Len(l) < Capacity
      /\ UNCHANGED <<savedList, body, todo, before, acked, stale>>
    BY DEF AddStore, flash, history, Kept
<1>2. /\ Holds(l) /\ Distinct(l) /\ Len(l) <= Capacity /\ (Fresh => savedList = l)
      /\ \A i \in 1 .. Len(l) : l[i] # Head(todo)
      /\ \E k \in Nat : Suffix(todo, body.list, k) /\ Digest(body.list, k, l)
    BY <1>1 DEF Kept, Between, Adding
<1>3. count = Len(l) /\ count + 1 \in Cells /\ count \in Nat
    BY <1>1, <1>2 DEF Holds, Shape, Cells
<1>4. CASE hpc' = "count"
    <2>1. cell' = [cell EXCEPT ![count + 1] = Head(todo)] /\ UNCHANGED count
        BY <1>4 DEF AddStore
    <2>2. cell'[count + 1] = Head(todo) /\ \A i \in 1 .. count : cell'[i] = cell[i]
        BY <1>3, <2>1 DEF Shape
    <2>3. Holds(l)'
        BY <1>2, <2>1, <2>2 DEF Holds
    <2> QED
        BY <1>1, <1>2, <1>4, <2>1, <2>2, <2>3 DEF Kept, Fresh, Between, Removing, Adding
<1>5. CASE hpc' = "element"
    <2>1. UNCHANGED cell /\ count' = count + 1
        BY <1>5 DEF AddStore
    <2>2. count' = Len(l) + 1 /\ \A i \in 1 .. Len(l) : cell'[i] = l[i]
        BY <1>2, <2>1 DEF Holds
    <2> QED
        BY <1>1, <1>2, <1>5, <2>2 DEF Kept, Fresh, Between, Removing, Adding
<1> QED
    BY <1>4, <1>5 DEF AddStore

LEMMA AddFinishKept ==
    ASSUME Shape, ListTypes, NEW l \in Seq(Addresses), Kept(l), AddFinish
    PROVE  Kept(l)'
<1>1. /\ hpc \in {"count", "element"} /\ hpc' = "saveAdded" /\ acked = NoBody
      /\ UNCHANGED <<savedList, body, todo, before, acked, stale>>
    BY DEF AddFinish, flash, history, Kept
<1>2. /\ Distinct(l) /\ Len(l) <= Capacity /\ (Fresh => savedList = l)
      /\ Len(l) < Capacity /\ \A i \in 1 .. Len(l) : l[i] # Head(todo)
      /\ \E k \in Nat : Suffix(todo, body.list, k) /\ Digest(body.list, k, l)
    BY <1>1 DEF Kept, Adding
<1>3. PICK a \in Addresses : a = Head(todo)
    BY <1>1, TailOfAddresses DEF Shape, Working, ListTypes
<1>4. PICK m \in Seq(Addresses) : m = Append(l, a)
    BY AppendIsSeq
<1>5. /\ Len(m) = Len(l) + 1 /\ m[Len(l) + 1] = a /\ Len(l) \in Nat
      /\ \A i \in 1 .. Len(l) : m[i] = l[i]
    BY <1>4
<1>6. /\ count' = Len(l) + 1 /\ cell'[Len(l) + 1] = a
      /\ \A i \in 1 .. Len(l) : cell'[i] = l[i]
    <2>1. CASE hpc = "count"
        <3>1. Holds(l) /\ cell[count + 1] = a
            BY <1>3, <2>1 DEF Kept, Between
        <3>2. count' = count + 1 /\ UNCHANGED cell
            BY <2>1 DEF AddFinish
        <3> QED
            BY <3>1, <3>2 DEF Holds
    <2>2. CASE hpc = "element"
        <3>1. count = Len(l) + 1 /\ \A i \in 1 .. Len(l) : cell[i] = l[i]
            BY <2>2 DEF Kept
        <3>2. UNCHANGED count /\ cell' = [cell EXCEPT ![count] = a]
            BY <1>3, <2>2 DEF AddFinish
        <3>3. count \in Cells /\ \A i \in 1 .. Len(l) : i \in Cells /\ i # count
            BY <1>2, <1>5, <3>1 DEF Cells
        <3> QED
            BY <3>1, <3>2, <3>3 DEF Shape
    <2> QED
        BY <1>1, <2>1, <2>2
<1>7. \A i \in 1 .. Len(l) + 1 : i = Len(l) + 1 \/ i \in 1 .. Len(l)
    BY <1>5
<1>8. Holds(m)'
    BY <1>5, <1>6, <1>7 DEF Holds
<1>9. Holds(Append(l, Head(todo)))'
    BY <1>1, <1>3, <1>4, <1>8
<1> QED
    BY <1>1, <1>2, <1>9 DEF Kept, Fresh, Between, Removing, Adding

LEMMA SaveAddedKept ==
    ASSUME Shape, ListTypes, NEW l \in Seq(Addresses), Kept(l), SaveList,
           hpc = "saveAdded"
    PROVE  \E m \in Seq(Addresses) : Kept(m)' /\ savedList' \in {m, savedList}
<1>1. todo # <<>> /\ acked = NoBody /\ hpc' = "add"
    BY DEF Shape, Working, Kept, SaveList
<1>2. PICK a \in Addresses : a = Head(todo)
    BY <1>1, TailOfAddresses DEF ListTypes
<1>3. PICK m \in Seq(Addresses) : m = Append(l, a)
    BY AppendIsSeq
<1>4. /\ Distinct(l) /\ Len(l) < Capacity /\ \A i \in 1 .. Len(l) : l[i] # a
      /\ Holds(m)
    BY <1>2, <1>3 DEF Kept
<1>5. PICK s \in Seq(Addresses) : s = body.list
    BY DEF Shape
<1>6. PICK k \in Nat : Suffix(todo, s, k) /\ Digest(s, k, l)
    BY <1>5 DEF Kept, Adding
<1>7. a = s[k + 1] /\ Suffix(Tail(todo), s, k + 1)
    BY <1>1, <1>2, <1>6, NextOfBody DEF ListTypes
<1>8. Digest(s, k + 1, m) /\ Distinct(m)
    BY <1>3, <1>4, <1>6, <1>7, DigestAdd
<1>9. Len(m) <= Capacity
    BY <1>3, <1>4
<1>10. /\ Fresh' => savedList' = m
       /\ savedList' \in {m, savedList} /\ Holds(m)'
       /\ todo' = Tail(todo) /\ UNCHANGED <<body, before, acked>>
    BY <1>4, Saved
<1>11. Suffix(todo', body'.list, k + 1) /\ Digest(body'.list, k + 1, m) /\ k + 1 \in Nat
    BY <1>5, <1>7, <1>8, <1>10
<1>12. Kept(m)'
    BY <1>1, <1>8, <1>9, <1>10, <1>11 DEF Kept, Between, Removing, Adding
<1> QED
    BY <1>10, <1>12
-------------------------------------------------------------------------------
\* Every step of the HTTP task keeps a list, and what it puts in flash is one.
LEMMA HttpKept ==
    ASSUME Shape, ListTypes, NEW l \in Seq(Addresses), Kept(l), HttpStep
    PROVE  \E m \in Seq(Addresses) :
              Kept(m)' /\ savedList' \in {m, savedList, <<>>}
<1>1. ASSUME NEW b \in Bodies, Post(b) PROVE Kept(l)' /\ savedList' = savedList
    BY <1>1, PostKept DEF Post, flash
<1>2. CASE SetMode \/ SaveMode \/ Snapshot \/ Respond
    BY <1>2, ModeKept, SnapshotKept, RespondKept
       DEF SetMode, SaveMode, Snapshot, Respond, flash
<1>3. CASE RemoveFind \/ RemoveShift \/ RemoveDrop \/ RemovedAll
    BY <1>3, RemoveFindKept, RemoveShiftKept, RemoveDropKept, RemovedAllKept
       DEF RemoveFind, RemoveShift, RemoveDrop, RemovedAll, flash
<1>4. CASE AddFind \/ AddStore \/ AddFinish
    BY <1>4, AddFindKept, AddStoreKept, AddFinishKept
       DEF AddFind, AddStore, AddFinish, flash
<1>5. CASE SaveList
    <2>1. CASE hpc = "saveRemoved"
        BY <1>5, <2>1, SaveRemovedKept
    <2>2. CASE hpc = "saveAdded"
        BY <1>5, <2>2, SaveAddedKept
    <2> QED
        BY <1>5, <2>1, <2>2 DEF SaveList
<1>6. CASE FactoryReset
    <2>1. Kept(l)'
        BY <1>6, ResetKept
    <2>2. savedList' = <<>> \/ savedList' = savedList
        BY <1>6 DEF FactoryReset, flash
    <2> QED
        BY <2>1, <2>2
<1> QED
    BY <1>1, <1>2, <1>3, <1>4, <1>5, <1>6 DEF HttpStep

\* Where the HTTP task goes, and what it takes with it
LEMMA HttpTypes ==
    ASSUME Shape, ListTypes, NEW l \in Seq(Addresses), Kept(l), HttpStep
    PROVE  /\ hpc' \in Labels /\ at' \in Cells /\ body' \in Bodies \cup {NoBody}
           /\ todo' \in Seq(Addresses) /\ before' \in Seq(Addresses)
           /\ stale' \subseteq {"mode", "list"}
           /\ hpc' = "restarting" => stale' = {"mode", "list"}
<1>1. ASSUME NEW b \in Bodies, Post(b)
      PROVE  /\ hpc' = "mode" /\ UNCHANGED <<at, todo, stale>> /\ body' = b
             /\ before' \in Seq(Addresses)
    BY <1>1, PostKept DEF Post
<1>2. CASE SetMode \/ SaveMode
    BY <1>2 DEF SetMode, SaveMode, history, ListTypes, Labels
<1>3. CASE Snapshot
    BY <1>3, SnapshotKept DEF Snapshot, history, ListTypes, Labels
<1>4. CASE RemoveFind
    <2>1. 1 \in Cells
        BY DEF Cells
    <2> QED
        BY <1>4, <2>1, RemoveFindKept DEF RemoveFind, history, ListTypes, Labels
<1>5. CASE RemoveShift
    <2>1. at' \in Cells
        BY <1>5 DEF RemoveShift, Shape, Cells
    <2> QED
        BY <1>5, <2>1 DEF RemoveShift, history, ListTypes, Labels
<1>6. CASE RemoveDrop \/ AddStore \/ AddFinish
    BY <1>6 DEF RemoveDrop, AddStore, AddFinish, history, ListTypes, Labels
<1>7. CASE SaveList
    <2>1. todo' \in Seq(Addresses)
        BY <1>7, TailOfAddresses DEF SaveList, Shape, Working, ListTypes
    <2> QED
        BY <1>7, <2>1 DEF SaveList, ListTypes, Labels
<1>8. CASE RemovedAll
    <2>1. todo' \in Seq(Addresses)
        BY <1>8 DEF RemovedAll, Shape
    <2> QED
        BY <1>8, <2>1 DEF RemovedAll, history, ListTypes, Labels
<1>9. CASE AddFind
    <2>1. todo' \in Seq(Addresses)
        BY <1>9, TailOfAddresses DEF AddFind, ListTypes
    <2> QED
        BY <1>9, <2>1 DEF AddFind, history, ListTypes, Labels
<1>10. CASE Respond \/ FactoryReset
    BY <1>10 DEF Respond, FactoryReset, ListTypes, Labels
<1>11. ASSUME NEW b \in Bodies, Post(b)
       PROVE  /\ hpc' \in Labels /\ at' \in Cells /\ body' \in Bodies \cup {NoBody}
              /\ todo' \in Seq(Addresses) /\ stale' \subseteq {"mode", "list"}
              /\ hpc' # "restarting"
    BY <1>1, <1>11 DEF ListTypes, Labels
<1> QED
    BY <1>1, <1>2, <1>3, <1>4, <1>5, <1>6, <1>7, <1>8, <1>9, <1>10, <1>11 DEF HttpStep

LEMMA HttpLists == LInv /\ HttpStep /\ AInv' => LInv'
<1> SUFFICES ASSUME LInv, HttpStep, AInv' PROVE LInv'
    OBVIOUS
<1>1. PICK l \in Seq(Addresses) : Kept(l)
    BY DEF LInv
<1>2. Shape /\ ListTypes
    BY DEF LInv, AInv
<1>3. PICK m \in Seq(Addresses) : Kept(m)' /\ savedList' \in {m, savedList, <<>>}
    BY <1>1, <1>2, HttpKept
<1>4. savedList' \in Seq(Addresses) /\ Distinct(savedList')
    <2>1. Distinct(m) /\ Distinct(savedList) /\ savedList \in Seq(Addresses)
        BY <1>2, <1>3 DEF Kept, ListTypes
    <2>2. Distinct(<<>>)
        BY DEF Distinct
    <2> QED
        BY <1>3, <2>1, <2>2, NoAddresses
<1>5. ListTypes'
    BY <1>1, <1>2, <1>4, HttpTypes DEF ListTypes
<1> QED
    BY <1>3, <1>5 DEF LInv

\* What access_control_init reads into memory
LEMMA LoadedList ==
    ASSUME LInv, Load, NEW failed \in SUBSET {"mode", "list"},
           NEW list, list = (IF "list" \in failed THEN <<>> ELSE savedList),
           count' = Len(list),
           cell' = [i \in Cells |-> IF i <= Len(list) THEN list[i] ELSE NoAddress]
    PROVE  /\ list \in Seq(Addresses) /\ Distinct(list) /\ Len(list) <= Capacity
           /\ Holds(list)'
<1>1. savedList \in Seq(Addresses) /\ Distinct(savedList) /\ Len(savedList) <= Capacity
    BY DEF LInv, ListTypes, AInv, Shape
<1>2. <<>> \in Seq(Addresses) /\ Len(<<>>) = 0 /\ Distinct(<<>>)
    BY NoAddresses DEF Distinct
<1>3. list \in Seq(Addresses) /\ Distinct(list) /\ Len(list) <= Capacity
    <2>1. CASE "list" \in failed
        BY <1>2, <2>1
    <2>2. CASE "list" \notin failed
        BY <1>1, <2>2
    <2> QED
        BY <2>1, <2>2
<1>4. \A i \in 1 .. Len(list) : i \in Cells /\ cell'[i] = list[i]
    BY <1>3 DEF Cells
<1> QED
    BY <1>3, <1>4 DEF Holds

LEMMA RestartLists == LInv /\ AclRestart /\ AInv' => LInv'
<1> SUFFICES ASSUME LInv, AclRestart, AInv' PROVE LInv'
    OBVIOUS
<1>1. PICK failed \in SUBSET {"mode", "list"} :
         \E list : /\ list = (IF "list" \in failed THEN <<>> ELSE savedList)
                   /\ count' = Len(list)
                   /\ cell' = [i \in Cells |-> IF i <= Len(list) THEN list[i]
                                               ELSE NoAddress]
                   /\ stale' = stale \cup failed
    BY DEF AclRestart, Load
<1>2. PICK list : /\ list = (IF "list" \in failed THEN <<>> ELSE savedList)
                  /\ count' = Len(list)
                  /\ cell' = [i \in Cells |-> IF i <= Len(list) THEN list[i]
                                              ELSE NoAddress]
                  /\ stale' = stale \cup failed
    BY <1>1
<1>3. /\ list \in Seq(Addresses) /\ Distinct(list) /\ Len(list) <= Capacity
      /\ Holds(list)'
    BY <1>2, LoadedList DEF AclRestart
<1>4. /\ hpc' = "idle" /\ body' = NoBody /\ todo' = <<>> /\ at' = 1
      /\ UNCHANGED <<savedList, before, acked>>
    BY DEF AclRestart, flash
<1>5. ListTypes'
    <2>1. 1 \in Cells
        BY DEF Cells
    <2> QED
        BY <1>2, <1>4, <2>1, NoAddresses DEF LInv, ListTypes, Labels
<1>6. Fresh' => Fresh /\ list = savedList
    BY <1>2 DEF Fresh
<1>7. acked' # NoBody => /\ acked' \in Bodies
                         /\ (Fresh' => list = Expected(acked'.list))
    BY <1>4, <1>6 DEF LInv, Kept
<1>8. Kept(list)'
    BY <1>3, <1>4, <1>6, <1>7 DEF Kept, Between, Removing, Adding
<1> QED
    BY <1>3, <1>5, <1>8 DEF LInv

LEMMA ListInvariant == LInv /\ [AclNext]_aclVars => LInv'
<1> SUFFICES ASSUME LInv, [AclNext]_aclVars PROVE LInv'
    OBVIOUS
<1>1. AInv'
    BY AclInvariant DEF LInv
<1>2. ASSUME UNCHANGED <<memory, flash, http, history>> PROVE LInv'
    <2>1. UNCHANGED <<cell, count, savedList, hpc, body, todo, at, before, acked, stale>>
        BY <1>2 DEF memory, flash, http, history
    <2>2. PICK l \in Seq(Addresses) : Kept(l)
        BY DEF LInv
    <2>3. Kept(l)'
        BY <2>1, <2>2, KeptStays
    <2>4. ListTypes'
        BY <2>1 DEF LInv, ListTypes
    <2> QED
        BY <1>1, <2>3, <2>4 DEF LInv
<1>3. CASE Http
    BY <1>1, <1>3, HttpLists DEF Http
<1>4. CASE AclRestart
    BY <1>1, <1>4, RestartLists
<1>5. ASSUME NEW a \in Addresses, CheckBegin(a) PROVE LInv'
    BY <1>2, <1>5 DEF CheckBegin
<1>6. CASE CheckLoad \/ CheckNext \/ CheckEnd
    BY <1>2, <1>6 DEF CheckLoad, CheckNext, CheckEnd
<1>7. CASE UNCHANGED aclVars
    BY <1>2, <1>7 DEF aclVars
<1> QED
    BY <1>3, <1>4, <1>5, <1>6, <1>7 DEF AclNext
-------------------------------------------------------------------------------
(* The mode, in memory and in flash *)

ModeHolds ==
    /\ mode \in Modes /\ savedMode \in Modes
    /\ "mode" \notin stale /\ hpc # "saveMode" => savedMode = mode
    /\ hpc \notin {"idle", "mode", "restarting"} /\ body.mode # "absent" =>
          mode = body.mode
    /\ acked # NoBody /\ "mode" \notin stale /\ acked.mode # "absent" =>
          mode = acked.mode

MInv == LInv /\ ModeHolds

LEMMA InitMInv == AclInit => MInv
<1> SUFFICES ASSUME AclInit PROVE ModeHolds
    BY InitLInv DEF MInv
<1> QED
    BY DEF AclInit, ModeHolds, Modes

\* A POST that was answered was the last thing the HTTP task did.
LEMMA AnsweredIsIdle == LInv /\ acked # NoBody => hpc = "idle"
BY DEF LInv, Kept

LEMMA HttpMode == MInv /\ HttpStep => ModeHolds'
<1> SUFFICES ASSUME MInv, HttpStep PROVE ModeHolds'
    OBVIOUS
<1>1. Shape /\ ListTypes /\ ModeHolds /\ (acked # NoBody => hpc = "idle")
    BY AnsweredIsIdle DEF MInv, LInv, AInv
<1>2. ASSUME NEW b \in Bodies, Post(b) PROVE ModeHolds'
    BY <1>1, <1>2 DEF Post, memory, flash, ModeHolds
<1>3. CASE SetMode
    <2>1. /\ hpc = "mode" /\ hpc' \in {"snapshot", "saveMode"}
          /\ UNCHANGED <<savedMode, body, acked, stale>> /\ acked = NoBody
        BY <1>1, <1>3 DEF SetMode, flash, history
    <2>2. PICK m \in {"open", "closed", "absent"} : m = body.mode
        BY <1>1, <2>1 DEF Shape
    <2>3. CASE m \in {"absent", mode}
        BY <1>1, <1>3, <2>1, <2>2, <2>3 DEF SetMode, ModeHolds
    <2>4. CASE m \notin {"absent", mode}
        BY <1>1, <1>3, <2>1, <2>2, <2>4 DEF SetMode, ModeHolds, Modes
    <2> QED
        BY <2>3, <2>4
<1>4. CASE SaveMode
    <2>1. /\ hpc = "saveMode" /\ hpc' = "snapshot" /\ acked = NoBody
          /\ UNCHANGED <<mode, body, acked>>
          /\ savedMode' \in {mode, savedMode}
          /\ "mode" \notin stale' => savedMode' = mode
        BY <1>1, <1>4 DEF SaveMode, memory
    <2> QED
        BY <1>1, <2>1 DEF ModeHolds
<1>5. CASE SaveList
    <2>1. /\ UNCHANGED <<mode, savedMode, body, acked>>
          /\ hpc' \notin {"idle", "mode", "saveMode", "restarting"}
          /\ hpc \notin {"idle", "mode", "saveMode", "restarting"}
          /\ "mode" \notin stale' => "mode" \notin stale
        BY <1>5 DEF SaveList, memory
    <2> QED
        BY <1>1, <2>1 DEF ModeHolds
<1>6. CASE Snapshot \/ RemoveFind \/ RemoveShift \/ RemoveDrop \/ RemovedAll
             \/ AddFind \/ AddStore \/ AddFinish
    <2>1. /\ UNCHANGED <<mode, savedMode, body, acked, stale>>
          /\ hpc' \notin {"idle", "mode", "saveMode", "restarting"}
          /\ hpc \notin {"idle", "mode", "saveMode", "restarting"}
        BY <1>6 DEF Snapshot, RemoveFind, RemoveShift, RemoveDrop, RemovedAll, AddFind,
                    AddStore, AddFinish, memory, flash, history
    <2> QED
        BY <1>1, <2>1 DEF ModeHolds
<1>7. CASE Respond
    <2>1. /\ hpc = "add" /\ hpc' = "idle" /\ acked' = body
          /\ UNCHANGED <<mode, savedMode, body, stale>>
        BY <1>7 DEF Respond, memory, flash
    <2> QED
        BY <1>1, <2>1 DEF ModeHolds
<1>8. CASE FactoryReset
    <2>1. /\ hpc = "idle" /\ hpc' = "restarting" /\ acked' = NoBody /\ mode' = mode
          /\ stale' = {"mode", "list"}
        BY <1>8 DEF FactoryReset, memory
    <2>2. savedMode' = "open" \/ savedMode' = savedMode
        BY <1>8 DEF FactoryReset, flash
    <2> QED
        BY <1>1, <2>1, <2>2 DEF ModeHolds, Modes
<1> QED
    BY <1>2, <1>3, <1>4, <1>5, <1>6, <1>7, <1>8 DEF HttpStep

LEMMA RestartMode == MInv /\ AclRestart => ModeHolds'
<1> SUFFICES ASSUME MInv, AclRestart PROVE ModeHolds'
    OBVIOUS
<1>1. ModeHolds /\ (acked # NoBody => hpc = "idle")
    BY AnsweredIsIdle DEF MInv
<1>2. hpc' = "idle" /\ UNCHANGED <<savedMode, acked>>
    BY DEF AclRestart, flash
<1>3. PICK failed \in SUBSET {"mode", "list"} :
         /\ mode' = IF "mode" \in failed THEN "open" ELSE savedMode
         /\ stale' = stale \cup failed
    BY DEF AclRestart, Load
<1>4. "mode" \notin stale' => mode' = savedMode /\ "mode" \notin stale
    BY <1>3
<1> QED
    BY <1>1, <1>2, <1>3, <1>4 DEF ModeHolds, Modes

LEMMA ModeInvariant == MInv /\ [AclNext]_aclVars => MInv'
<1> SUFFICES ASSUME MInv, [AclNext]_aclVars PROVE ModeHolds'
    BY ListInvariant DEF MInv
<1>1. CASE Http
    BY <1>1, HttpMode DEF Http
<1>2. CASE AclRestart
    BY <1>2, RestartMode
<1>3. ASSUME UNCHANGED <<memory, flash, http, history>> PROVE ModeHolds'
    BY <1>3 DEF memory, flash, http, history, MInv, ModeHolds
<1>4. ASSUME NEW a \in Addresses, CheckBegin(a) PROVE ModeHolds'
    BY <1>3, <1>4 DEF CheckBegin
<1>5. CASE CheckLoad \/ CheckNext \/ CheckEnd
    BY <1>3, <1>5 DEF CheckLoad, CheckNext, CheckEnd
<1>6. CASE UNCHANGED aclVars
    BY <1>3, <1>6 DEF aclVars
<1> QED
    BY <1>1, <1>2, <1>4, <1>5, <1>6 DEF AclNext

LEMMA AclModeInvariant == AclSpec => []MInv
BY InitMInv, ModeInvariant, PTL DEF AclSpec

LEMMA AnsweredFollows == MInv => AnsweredLasts
<1> SUFFICES ASSUME MInv, acked # NoBody, stale = {}
             PROVE  /\ List = Expected(acked.list) /\ savedList = List
                    /\ acked.mode # "absent" => mode = acked.mode
                    /\ savedMode = mode
    BY DEF AnsweredLasts
<1>1. PICK l \in Seq(Addresses) : Kept(l)
    BY DEF MInv, LInv
<1>2. Holds(l) /\ savedList = l /\ l = Expected(acked.list) /\ hpc = "idle"
    BY <1>1 DEF Kept, Fresh, Between
<1>3. List = l
    BY <1>2, HoldsList
<1> QED
    BY <1>2, <1>3 DEF MInv, ModeHolds

\* handle_api_settings_acl_post: once it has answered, the device checks against what
\* it was told, and finds the same after any number of restarts, whatever the old
\* list was, how long the new one is and how often it names an address.
THEOREM AnswerLasts == AclSpec => []AnsweredLasts
BY AclModeInvariant, AnsweredFollows, PTL

\* A suffix of a list, and a beginning, in the words of the property
LEMMA SuffixIsSubSeq ==
    ASSUME NEW t \in Seq(Addresses), NEW s \in Seq(Addresses), NEW n \in Nat,
           Suffix(t, s, n)
    PROVE  n \in 0 .. Len(s) /\ t = SubSeq(s, n + 1, Len(s))
<1>1. /\ n \in 0 .. Len(s) /\ Len(t) = Len(s) - n
      /\ \A i \in 1 .. Len(t) : t[i] = s[n + i]
    BY DEF Suffix
<1>2. SubSeq(s, n + 1, Len(s)) \in Seq(Addresses)
    BY <1>1
<1>3. PICK p \in Seq(Addresses) : p = SubSeq(s, n + 1, Len(s))
    BY <1>2
<1>4. Len(p) = Len(s) - n /\ \A i \in 1 .. Len(p) : p[i] = s[n + i]
    BY <1>1, <1>3
<1> QED
    BY <1>1, <1>3, <1>4

LEMMA PartFollows == LInv => RestartFindsPart
<1> SUFFICES ASSUME LInv, hpc \notin {"idle", "restarting"}, Fresh
             PROVE  \/ \E n \in 0 .. Len(before) :
                          savedList = SubSeq(before, n + 1, Len(before))
                    \/ \E n \in 0 .. Len(Expected(body.list)) :
                          savedList = SubSeq(Expected(body.list), 1, n)
    BY DEF RestartFindsPart, Fresh
<1>1. PICK l \in Seq(Addresses) : Kept(l)
    BY DEF LInv
<1>2. savedList = l /\ before \in Seq(Addresses)
    BY <1>1 DEF Kept, LInv, ListTypes
<1>3. CASE hpc \in {"mode", "saveMode", "snapshot"}
    <2>1. l = before
        BY <1>1, <1>3 DEF Kept
    <2>2. Suffix(l, before, 0)
        BY <2>1 DEF Suffix
    <2> QED
        BY <1>2, <2>2, SuffixIsSubSeq
<1>4. CASE hpc \in Removing
    <2>1. PICK n \in Nat : Suffix(l, before, n)
        BY <1>1, <1>4 DEF Kept
    <2> QED
        BY <1>2, <2>1, SuffixIsSubSeq
<1>5. CASE hpc \in Adding
    <2>1. PICK s \in Seq(Addresses) : s = body.list
        BY DEF LInv, AInv, Shape
    <2>2. PICK k \in Nat : Suffix(todo, s, k) /\ Digest(s, k, l)
        BY <1>1, <1>5, <2>1 DEF Kept
    <2>3. k \in 0 .. Len(s)
        BY <2>2 DEF Suffix
    <2>4. Len(l) <= Len(Expected(s)) /\ l = SubSeq(Expected(s), 1, Len(l))
        BY <2>2, <2>3, DigestIsPrefix
    <2>5. PICK n : n = Len(Expected(s))
        OBVIOUS
    <2>6. Len(l) \in 0 .. n
        BY <2>4, <2>5
    <2> QED
        BY <1>2, <2>1, <2>4, <2>5, <2>6
<1> QED
    BY <1>3, <1>4, <1>5 DEF LInv, ListTypes, Labels, Removing, Adding

\* save_allowlist_to_nvs after every removal and every addition: a restart in the
\* middle of a POST finds what was left of the old list or what there was of the
\* new one.
THEOREM RestartFinds == AclSpec => []RestartFindsPart
<1>1. MInv => RestartFindsPart
    BY PartFollows DEF MInv
<1> QED
    BY AclModeInvariant, <1>1, PTL
-------------------------------------------------------------------------------
(* The check, and the types of everything *)

\* A check that saw the HTTP task store nothing has compared the address with the
\* entries before pos, and its result is the one of the list as it is.
Exact ==
    ip # NoAddress /\ calm =>
        /\ verdict = "open" <=> mode = "open"
        /\ verdict = "none" => /\ bound = count
                               /\ \A i \in 1 .. count : i < pos => cell[i] # ip
        /\ verdict = "listed" => ip \in Listed
        /\ verdict = "denied" => ip \notin Listed

CheckTypes ==
    /\ ip \in Contents /\ verdict \in {"none", "open", "listed", "denied"}
    /\ pos \in 1 .. Capacity + 2 /\ (verdict = "none" => pos <= Capacity + 1)
    /\ seen \subseteq Contents
    /\ ip = NoAddress => verdict = "none"

Typing == CheckTypes /\ calm \in BOOLEAN

TInv == MInv /\ Typing /\ Exact

LEMMA NamedTyped == Shape => Named \subseteq Contents
<1> SUFFICES ASSUME Shape PROVE Named \subseteq Contents
    OBVIOUS
<1>1. \A i \in 1 .. count : cell[i] \in Contents
    BY DEF Shape, Cells
<1>2. hpc = "count" => cell[count + 1] \in Contents
    BY DEF Shape, Cells
<1>3. hpc = "element" => \A i \in 1 .. count - 1 : i \in 1 .. count
    BY DEF Shape
<1> QED
    BY <1>1, <1>2, <1>3 DEF Named, Listed

LEMMA InitTInv == AclInit => TInv
<1> SUFFICES ASSUME AclInit PROVE Typing /\ Exact
    BY InitMInv DEF TInv
<1>1. /\ ip = NoAddress /\ verdict = "none" /\ pos = 1 /\ seen = {} /\ calm = TRUE
    BY DEF AclInit
<1> QED
    BY <1>1 DEF Typing, CheckTypes, Exact, Contents

LEMMA HttpTInv == TInv /\ Http /\ Shape' => Typing' /\ Exact'
<1> SUFFICES ASSUME TInv, Http, Shape' PROVE Typing' /\ Exact'
    OBVIOUS
<1>1. UNCHANGED <<ip, pos, bound, verdict>>
    BY DEF Http, checker
<1>2. /\ seen' = IF ip = NoAddress THEN {} ELSE seen \cup Named'
      /\ calm' = (ip = NoAddress \/ (calm /\ memory' = memory))
    BY DEF Http, Observe
<1>3. Named' \subseteq Contents
    <2>1. /\ cell' \in [Cells -> Contents] /\ count' \in 0 .. Capacity
          /\ hpc' = "count" => count' < Capacity
        BY DEF Shape
    <2>2. PICK c \in [Cells -> Contents], n \in 0 .. Capacity : c = cell' /\ n = count'
        BY <2>1
    <2>3. \A i \in 1 .. n : c[i] \in Contents
        BY DEF Cells
    <2>4. n < Capacity => c[n + 1] \in Contents
        BY DEF Cells
    <2>5. \A i \in 1 .. n - 1 : c[i] \in Contents
        BY <2>3
    <2> QED
        BY <2>1, <2>2, <2>3, <2>4, <2>5 DEF Named, Listed
<1>4. CheckTypes'
    BY <1>1, <1>2, <1>3 DEF TInv, Typing, CheckTypes
<1>5. calm' \in BOOLEAN
    BY <1>2, Zenon
<1>6. ip # NoAddress /\ calm' => calm /\ memory' = memory
    BY <1>2, Zenon
<1>7. ip # NoAddress /\ calm' => calm /\ UNCHANGED <<mode, cell, count>>
    BY <1>6, Zenon DEF memory
<1>8. Listed' = {cell'[i] : i \in 1 .. count'}
    BY DEF Listed
<1>9. Exact'
    BY <1>1, <1>7, <1>8 DEF TInv, Exact, Listed
<1> QED
    BY <1>4, <1>5, <1>9 DEF Typing

LEMMA BeginTInv ==
    ASSUME TInv, NEW a \in Addresses, CheckBegin(a)
    PROVE  Typing' /\ Exact'
<1>1. /\ ip' = a /\ pos' = 1 /\ bound' = count
      /\ verdict' = (IF mode = "open" THEN "open" ELSE "none")
      /\ seen' = Named /\ calm' = TRUE /\ UNCHANGED <<mode, cell, count>>
    BY DEF CheckBegin, memory
<1>2. Shape
    BY DEF TInv, MInv, LInv, AInv
<1>3. Named \subseteq Contents /\ a \in Contents /\ a # NoAddress
    BY <1>2, NamedTyped, AddressesAssumption DEF Contents
<1>4. Typing'
    BY <1>1, <1>3 DEF Typing, CheckTypes
<1>5. Exact'
    BY <1>1 DEF Exact
<1> QED
    BY <1>4, <1>5

LEMMA LoadTInv == TInv /\ CheckLoad => Typing' /\ Exact'
<1> SUFFICES ASSUME TInv, CheckLoad PROVE Typing' /\ Exact'
    OBVIOUS
<1>1. /\ ip # NoAddress /\ verdict = "none" /\ bound # count
      /\ UNCHANGED <<mode, cell, count, ip, pos, verdict, seen, calm>>
    BY DEF CheckLoad, memory, watch
<1>2. CheckTypes'
    BY <1>1 DEF TInv, Typing, CheckTypes
<1>3. ~calm
    BY <1>1 DEF TInv, Exact
<1>4. ~calm' /\ (calm' \in BOOLEAN)
    BY <1>1, <1>3, Zenon DEF TInv, Typing
<1>5. Exact'
    BY <1>4, Zenon DEF Exact
<1> QED
    BY <1>2, <1>4, <1>5 DEF Typing

LEMMA NextTInv == TInv /\ CheckNext => Typing' /\ Exact'
<1> SUFFICES ASSUME TInv, CheckNext PROVE Typing' /\ Exact'
    OBVIOUS
<1>1. /\ ip # NoAddress /\ verdict = "none" /\ pos' = pos + 1
      /\ verdict' = IF pos > bound THEN "denied"
                    ELSE IF cell[pos] = ip THEN "listed" ELSE "none"
      /\ UNCHANGED <<mode, cell, count, ip, bound, seen, calm>>
    BY DEF CheckNext, memory, watch
<1>2. Shape /\ CheckTypes /\ (calm \in BOOLEAN)
    BY DEF TInv, MInv, LInv, AInv, Typing
<1>3. bound \in 0 .. Capacity /\ pos \in 1 .. Capacity + 1
    BY <1>1, <1>2 DEF Shape, CheckTypes
<1>4. CheckTypes'
    BY <1>1, <1>2, <1>3 DEF CheckTypes
<1>5. calm' \in BOOLEAN
    BY <1>1, <1>2, Zenon
<1>6. ASSUME calm' PROVE Exact'
    <2>1. calm
        BY <1>1, <1>6, Zenon
    <2>2. /\ mode # "open" /\ bound = count
          /\ \A i \in 1 .. count : i < pos => cell[i] # ip
        BY <1>1, <2>1 DEF TInv, Exact
    <2>3. Listed' = {cell[i] : i \in 1 .. count}
        BY <1>1 DEF Listed
    <2>4. CASE pos > bound
        <3>1. ip \notin Listed' /\ verdict' = "denied"
            BY <1>1, <1>3, <2>2, <2>3, <2>4
        <3> QED
            BY <1>1, <2>2, <3>1 DEF Exact
    <2>5. CASE ~(pos > bound) /\ cell[pos] = ip
        <3>1. pos \in 1 .. count
            BY <1>3, <2>2, <2>5
        <3>2. ip \in Listed' /\ verdict' = "listed"
            BY <1>1, <2>3, <2>5, <3>1
        <3> QED
            BY <1>1, <2>2, <3>2 DEF Exact
    <2>6. CASE ~(pos > bound) /\ cell[pos] # ip
        <3>1. \A i \in 1 .. count : i < pos + 1 => cell[i] # ip
            BY <1>3, <2>2, <2>6
        <3> QED
            BY <1>1, <2>2, <2>6, <3>1 DEF Exact
    <2> QED
        BY <2>4, <2>5, <2>6
<1>7. ASSUME ~calm' PROVE Exact'
    BY <1>7, Zenon DEF Exact
<1> QED
    BY <1>4, <1>5, <1>6, <1>7 DEF Typing

LEMMA DoneTInv == CheckEnd \/ AclRestart => Typing' /\ Exact'
<1> SUFFICES ASSUME CheckEnd \/ AclRestart PROVE Typing' /\ Exact'
    OBVIOUS
<1>1. ip' = NoAddress /\ verdict' = "none" /\ pos' = 1 /\ seen' = {} /\ calm' = TRUE
    BY DEF CheckEnd, AclRestart
<1> QED
    BY <1>1 DEF Typing, CheckTypes, Exact, Contents

LEMMA TypeInvariant == TInv /\ [AclNext]_aclVars => TInv'
<1> SUFFICES ASSUME TInv, [AclNext]_aclVars PROVE TInv'
    OBVIOUS
<1>1. MInv' /\ Shape'
    <2>1. MInv'
        BY ModeInvariant DEF TInv
    <2> QED
        BY <2>1 DEF MInv, LInv, AInv
<1>2. CASE UNCHANGED aclVars
    <2>1. UNCHANGED <<ip, verdict, pos, bound, seen, mode, cell, count>> /\ calm' = calm
        BY <1>2 DEF aclVars, memory, checker, watch
    <2>2. CheckTypes'
        BY <2>1 DEF TInv, Typing, CheckTypes
    <2>3. calm' \in BOOLEAN
        BY <2>1, Zenon DEF TInv, Typing
    <2>4. Listed' = Listed
        BY <2>1 DEF Listed
    <2>5. Exact'
        BY <2>1, <2>4, Zenon DEF TInv, Exact
    <2> QED
        BY <1>1, <2>2, <2>3, <2>5 DEF TInv, Typing
<1>3. ASSUME Typing', Exact' PROVE TInv'
    BY <1>1, <1>3 DEF TInv
<1> QED
    BY <1>1, <1>2, <1>3, HttpTInv, BeginTInv, LoadTInv, NextTInv, DoneTInv DEF AclNext

LEMMA AclTypeInvariant == AclSpec => []TInv
BY InitTInv, TypeInvariant, PTL DEF AclSpec

LEMMA ExactFollows == TInv => ExactAtRest
<1> SUFFICES ASSUME TInv, verdict # "none", calm
             PROVE  verdict = IF mode = "open" THEN "open"
                              ELSE IF ip \in Listed THEN "listed" ELSE "denied"
    BY DEF ExactAtRest
<1>1. ip # NoAddress /\ verdict \in {"none", "open", "listed", "denied"}
    BY DEF TInv, Typing, CheckTypes
<1> QED
    BY <1>1 DEF TInv, Exact

\* access_control_check: with nobody storing meanwhile, it admits exactly the
\* addresses on the list, or all of them in open mode.
THEOREM CheckExact == AclSpec => []ExactAtRest
BY AclTypeInvariant, ExactFollows, PTL

\* Where the HTTP task neither shifts nor stores an element, no address is listed
\* twice, and none of the listed cells was never stored.
LEMMA ListedOnce ==
    ASSUME Shape, ListTypes, NEW l \in Seq(Addresses), Kept(l)
    PROVE  /\ hpc # "element" => NoAddress \notin Listed
           /\ hpc \notin {"shift", "element"} =>
                 \A i, j \in 1 .. count : cell[i] = cell[j] => i = j
<1>1. ASSUME NEW m \in Seq(Addresses), Holds(m), Distinct(m)
      PROVE  /\ NoAddress \notin Listed
             /\ \A i, j \in 1 .. count : cell[i] = cell[j] => i = j
    <2>1. \A i \in 1 .. count : cell[i] = m[i] /\ m[i] \in Addresses
        BY <1>1 DEF Holds
    <2>2. \A i \in 1 .. count : cell[i] # NoAddress
        BY <2>1, AddressesAssumption
    <2>3. \A i, j \in 1 .. count : m[i] = m[j] => i = j
        BY <1>1 DEF Holds, Distinct
    <2> QED
        BY <2>1, <2>2, <2>3 DEF Listed
<1>2. CASE hpc = "shift"
    <2>1. /\ count = Len(l) /\ at \in 1 .. count
          /\ \A i \in 1 .. count : cell[i] = IF i < at THEN l[i + 1] ELSE l[i]
        BY <1>2 DEF Kept, Shape
    <2>2. \A i \in 1 .. count : cell[i] \in Addresses
        <3> SUFFICES ASSUME NEW i \in 1 .. count PROVE cell[i] \in Addresses
            OBVIOUS
        <3>1. i < at => i + 1 \in 1 .. Len(l)
            BY <2>1
        <3> QED
            BY <2>1, <3>1
    <2> QED
        BY <1>2, <2>2, AddressesAssumption DEF Listed
<1>3. CASE hpc = "saveRemoved"
    <2>1. l # <<>> /\ Distinct(l) /\ Holds(Tail(l))
        BY <1>3 DEF Kept, Removing, Shape, Working
    <2>2. PICK n \in Nat : Suffix(l, before, n)
        BY <1>3 DEF Kept, Removing
    <2>3. Tail(l) \in Seq(Addresses) /\ Distinct(Tail(l))
        BY <2>1, <2>2, TailKept DEF ListTypes
    <2> QED
        BY <1>1, <2>1, <2>3
<1>4. CASE hpc = "saveAdded"
    <2>1. PICK a \in Addresses : a = Head(todo)
        BY <1>4, TailOfAddresses DEF Shape, Working, ListTypes
    <2>2. PICK m \in Seq(Addresses) : m = Append(l, a)
        BY AppendIsSeq
    <2>3. Holds(m) /\ Distinct(l) /\ \A i \in 1 .. Len(l) : l[i] # a
        BY <1>4, <2>1, <2>2 DEF Kept
    <2>4. Distinct(m)
        BY <2>2, <2>3 DEF Distinct
    <2> QED
        BY <1>1, <2>3, <2>4
<1>5. CASE hpc \notin Between
    <2>1. Holds(l) /\ Distinct(l)
        BY <1>5 DEF Kept
    <2> QED
        BY <1>1, <2>1
<1> QED
    BY <1>2, <1>3, <1>4, <1>5 DEF Between

LEMMA TypesFollow == TInv => AclTypeOK
<1> SUFFICES ASSUME TInv PROVE AclTypeOK
    OBVIOUS
<1>1. MInv /\ LInv /\ ModeHolds /\ Shape /\ ListTypes /\ CheckTypes
    BY DEF TInv, MInv, LInv, AInv, Typing
<1>2. PICK l \in Seq(Addresses) : Kept(l)
    BY <1>1 DEF LInv
<1>3. /\ hpc # "element" => NoAddress \notin Listed
      /\ hpc \notin {"shift", "element"} =>
            \A i, j \in 1 .. count : cell[i] = cell[j] => i = j
    BY <1>1, <1>2, ListedOnce
<1>4. calm \in BOOLEAN
    BY DEF TInv, Typing
<1>5. /\ cell \in [Cells -> Addresses \cup {NoAddress}] /\ count \in 0 .. Capacity
      /\ bound \in 0 .. Capacity
    BY <1>1 DEF Shape, Contents
<1>6. /\ ip \in Addresses \cup {NoAddress} /\ pos \in 1 .. Capacity + 2
      /\ verdict \in {"none", "open", "listed", "denied"}
      /\ seen \subseteq Addresses \cup {NoAddress}
    BY <1>1 DEF CheckTypes, Contents
<1>7. mode \in Modes /\ savedMode \in Modes
    BY <1>1 DEF ModeHolds
<1> QED
    BY <1>1, <1>3, <1>4, <1>5, <1>6, <1>7 DEF AclTypeOK, ListTypes, Labels

\* access_control.c: types, and the shape of the list, whatever is posted: addresses,
\* no more than fit, and none twice but while entries are moved down.
THEOREM AclTyped == AclSpec => []AclTypeOK
BY AclTypeInvariant, TypesFollow, PTL
===============================================================================
