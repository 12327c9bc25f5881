------------------------------ MODULE HeartbeatMC ------------------------------
(***************************************************************************)
(* Each thread makes one log call, in every place among the steps of the   *)
(* other's: a line before, across and after one of the other thread.  Four *)
(* beats and two restarts of the server fit into one request.              *)
(***************************************************************************)
EXTENDS Heartbeat

MCMaxCalls == [t \in Thread |-> 1]

=============================================================================
