--------------------------- MODULE PlayerLifecycle ---------------------------
(***************************************************************************)
(* What the ClassicPlugin promises of each player that connects, without   *)
(* sockets, tasks or handlers: it is loading the map, then it plays, then  *)
(* it has left, then it is deleted, never backwards and never leaving a    *)
(* stage out while the server is up.  The world's roster is exactly the    *)
(* players that play.  PlayerSession implements it.                        *)
(***************************************************************************)
EXTENDS Integers

CONSTANT MaxJoin    \* bound: how many players ever connect

VARIABLES up,       \* the server is up
          stage,    \* the stage of each player's life
          roster    \* the players in the world

Stages == {"absent", "loading", "playing", "left", "deleted"}

Init ==
    /\ up = TRUE
    /\ stage = [p \in 1..MaxJoin |-> "absent"]
    /\ roster = {}

Playing(s) == {p \in 1..MaxJoin : s[p] = "playing"}

\* Players connect one after the other.
Connect(p) ==
    /\ up /\ stage[p] = "absent" /\ \A q \in 1..(p - 1) : stage[q] # "absent"
    /\ stage' = [stage EXCEPT ![p] = "loading"]
    /\ UNCHANGED <<up, roster>>

\* Nothing happens to the players Q, except that those who play may leave, at
\* once because losing one may reveal the loss of others.
MayLeave(Q) ==
    \A q \in Q : \/ stage'[q] = stage[q]
                 \/ stage[q] = "playing" /\ stage'[q] = "left"

\* A player's map has been sent: it plays, unless it is lost while this is
\* announced.
EnterWorld(p) ==
    /\ up /\ stage[p] = "loading"
    /\ stage' \in [1..MaxJoin -> Stages]
    /\ stage'[p] \in {"playing", "left"} /\ MayLeave((1..MaxJoin) \ {p})
    /\ roster' = Playing(stage')
    /\ UNCHANGED up

Leave ==
    /\ up
    /\ stage' \in [1..MaxJoin -> Stages] /\ MayLeave(1..MaxJoin)
    /\ roster' = Playing(stage')
    /\ UNCHANGED up

\* Only players that have left are deleted.
Delete ==
    /\ up
    /\ stage' \in [1..MaxJoin -> Stages]
    /\ \A q \in 1..MaxJoin : \/ stage'[q] = stage[q]
                             \/ stage[q] = "left" /\ stage'[q] = "deleted"
    /\ UNCHANGED <<up, roster>>

\* The server goes down, in whatever state that leaves the players it has;
\* none is brought back or invented.
Down ==
    /\ up' = FALSE
    /\ stage' \in [1..MaxJoin -> Stages]
    /\ \A p \in 1..MaxJoin :
          /\ stage[p] \in {"absent", "deleted"} => stage'[p] = stage[p]
          /\ stage[p] = "left" => stage'[p] \in {"left", "deleted"}
          /\ stage'[p] = "absent" => stage[p] = "absent"
    /\ roster' \subseteq {p \in 1..MaxJoin : stage[p] \in {"playing", "loading"}}
                            \cup roster

Next ==
    \/ \E p \in 1..MaxJoin : Connect(p) \/ EnterWorld(p)
    \/ Leave \/ Delete \/ Down

Spec == Init /\ [][Next]_<<up, stage, roster>>
=============================================================================
