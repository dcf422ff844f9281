------------------------------ MODULE UrbService ------------------------------
(* What a USB/IP session promises its client about the URBs it submits: every  *)
(* URB gets exactly one answer, a RET_SUBMIT or, if the client asked for it,   *)
(* the successful RET_UNLINK that replaces it, as long as the client is there  *)
(* to receive it, and does not hold up the engine.  Nothing here says where    *)
(* the answer comes from; TransferEngine implements this specification.        *)
EXTENDS Naturals, Sequences

CONSTANTS Urbs,       \* the sequence numbers of the URBs a client may submit
          Statuses    \* the statuses of a RET_SUBMIT

VARIABLES submitted,  \* URBs the engine has taken from the socket
          unlinked,   \* URBs whose CMD_UNLINK it has taken
          answers,    \* per URB, the answers sent, oldest first
          sock        \* "open" until the client goes away; "held" while it blocks
              \* whoever sends to it or receives from it

vars == <<submitted, unlinked, answers, sock>>

Init == /\ submitted = {}
        /\ unlinked = {}
        /\ answers = [u \in Urbs |-> <<>>]
        /\ sock = "open"

\* A URB is accepted; the answer comes later.
Submit(u) == /\ u \notin submitted
             /\ submitted' = submitted \cup {u}
             /\ UNCHANGED <<unlinked, answers, sock>>

\* A URB is refused on the spot.
Refuse(u, a) == /\ u \notin submitted
                /\ submitted' = submitted \cup {u}
                /\ answers' = [answers EXCEPT ![u] = <<a>>]
                /\ UNCHANGED <<unlinked, sock>>

\* The one RET_SUBMIT of a URB.
Reply(u, a) == /\ u \in submitted
               /\ sock = "open"
               /\ answers[u] = <<>>
               /\ answers' = [answers EXCEPT ![u] = <<a>>]
               /\ UNCHANGED <<submitted, unlinked, sock>>

\* A CMD_UNLINK is taken ...
Unlink(u) == /\ u \in submitted \ unlinked
             /\ unlinked' = unlinked \cup {u}
             /\ UNCHANGED <<submitted, answers, sock>>

\* ... and answered with success, which replaces the RET_SUBMIT.
Abort(u) == /\ u \in unlinked
            /\ Reply(u, "unlinked")

Hold == /\ sock = "open"
        /\ sock' = "held"
        /\ UNCHANGED <<submitted, unlinked, answers>>

LetGo == /\ sock = "held"
         /\ sock' = "open"
         /\ UNCHANGED <<submitted, unlinked, answers>>

Disconnect == /\ sock # "dead"
              /\ sock' = "dead"
              /\ UNCHANGED <<submitted, unlinked, answers>>

Next == \/ \E u \in Urbs : \/ Submit(u) \/ Unlink(u) \/ Abort(u)
                           \/ \E a \in Statuses : Refuse(u, a) \/ Reply(u, a)
        \/ Hold \/ LetGo \/ Disconnect

\* Every URB taken is answered in the end, unless the client leaves first or keeps
\* holding the engine up.
Fairness == \A u \in Urbs :
                WF_vars(Abort(u) \/ \E a \in Statuses : Reply(u, a))

SafeSpec == Init /\ [][Next]_vars
Spec == SafeSpec /\ Fairness
===============================================================================
