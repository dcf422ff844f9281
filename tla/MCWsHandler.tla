----------------------------- MODULE MCWsHandler ------------------------------
(* An instance of WsHandler for TLC, in two slices: several clients and no      *)
(* device, so that only the timer broadcasts, or several devices and one client, *)
(* so that both tasks do.                                                       *)
EXTENDS WsHandler

CONSTANT f1

MCInit == /\ Init
          /\ \/ unseen = {} /\ callers = Fds
             \/ unseen = Devices /\ callers = {f1}

MCSpec == MCInit /\ [][Next]_vars /\ Fairness
===============================================================================
