----------------------------- MODULE SocketLife -----------------------------
(***************************************************************************)
(* What greenev's IO thread promises of the sockets in its care: each goes *)
(* along one road from its creation to its end.  A socket that is prepared *)
(* is handed over or closed with its siblings; one handed over is watched  *)
(* next; one that is watched is closed, once.  The only other end is the   *)
(* refusal by a full command queue, after which nobody knows the socket.   *)
(***************************************************************************)
CONSTANTS Sockets

VARIABLES stage

Stages == {"none", "preparing", "handed", "refused", "watched", "closed"}

Road ==
  { <<"none", "preparing">>,    \* listen, connect
    <<"none", "watched">>,      \* accept
    <<"none", "closed">>,       \* a failure on the very socket
    <<"preparing", "closed">>,  \* a failure on a sibling
    <<"preparing", "handed">>,
    <<"preparing", "refused">>,
    <<"handed", "watched">>,
    <<"watched", "closed">> }

Init == stage = [s \in Sockets |-> "none"]

\* Several sockets may end in one step, each along the road.
Next ==
  /\ stage' \in [Sockets -> Stages]
  /\ \A s \in Sockets :
       stage'[s] = stage[s] \/ <<stage[s], stage'[s]>> \in Road

Spec == Init /\ [][Next]_stage
=============================================================================
