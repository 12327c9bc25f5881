------------------------------- MODULE Heartbeat -------------------------------
(***************************************************************************)
(* beat() on the server's thread and doHeartBeat() on a thread of its own, *)
(* which share a ServerInfo and the logger.  The server's thread logs at   *)
(* any time and writes to cout where it sends and receives strings.        *)
(*                                                                         *)
(* The ServerInfo is modelled by the number of the beat that wrote it and  *)
(* read in two parts, as it has many fields; the request takes any time.   *)
(* Both it and the thread are static: they go on when the launcher         *)
(* restarts the server, which begins to beat anew.                         *)
(***************************************************************************)
EXTENDS Logging

CONSTANTS
    MaxBeats,    \* bound: calls of beat
    MaxRestarts  \* bound: restarts of the server since the thread was started

server == "server"
heart == "heart"

ASSUME HeartbeatAssumption ==
    Thread = {server, heart} /\ MaxBeats \in Nat /\ MaxRestarts \in Nat

VARIABLES
    queued,   \* a call of beat is in the task queue
    beating,  \* beat has written info and not yet asked for the thread
    beats,    \* calls of beat
    hb,       \* the thread: "none", "start", "half" (of info read),
              \* "request", "log", "over"
    info,     \* the beat that wrote the static info
    seen,     \* the beats whose info the thread has read
    restarts  \* history: restarts of the server since the thread was started

beatVars == <<queued, beating, beats, hb, info, seen, restarts>>
vars == <<logVars, beatVars>>

Init ==
    /\ LogInit
    /\ queued = TRUE /\ beating = FALSE /\ beats = 0
    /\ hb = "none" /\ info = 0 /\ seen = {} /\ restarts = 0

\* The server's thread is neither in a log call nor in beat, nor stuck behind
\* an exception, after which main's handler only logs.
Free == ~down /\ at[server] = "out" /\ ~beating

-----------------------------------------------------------------------------
(* The server's thread.                                                    *)

\* info = Server->getInfo()
BeatInfo ==
    /\ Free /\ ~thrown /\ queued /\ beats < MaxBeats
    /\ queued' = FALSE /\ beating' = TRUE
    /\ beats' = beats + 1 /\ info' = beats + 1
    /\ UNCHANGED <<logVars, hb, seen, restarts>>

\* Mutant of BeatJoin: beat is queued again in any case.
BeatJoinAlways ==
    /\ ~down /\ beating
    /\ beating' = FALSE /\ queued' = TRUE
    /\ IF hb \in {"none", "over"} THEN hb' = "start" /\ seen' = {} /\ restarts' = 0
       ELSE UNCHANGED <<hb, seen, restarts>>
    /\ UNCHANGED <<logVars, beats, info>>

\* timed_join(0) is true of a thread that is over and false of one that is
\* not; of one that never ran it says what the version of the library says.
BeatJoin ==
    /\ ~down /\ beating
    /\ beating' = FALSE
    /\ \/ /\ hb \in {"none", "over"}
          /\ hb' = "start" /\ seen' = {} /\ queued' = TRUE /\ restarts' = 0
       \/ /\ hb # "over"
          /\ UNCHANGED <<hb, seen, queued, restarts>>
    /\ UNCHANGED <<logVars, beats, info>>

\* start() returns or throws, and the launcher constructs serverClass again,
\* which adds beat to the new queue.
Restart ==
    /\ Free /\ ~thrown /\ restarts < MaxRestarts
    /\ queued' = TRUE /\ restarts' = restarts + 1
    /\ UNCHANGED <<logVars, beating, beats, hb, info, seen>>

ServerLogs == Free /\ Log(server) /\ UNCHANGED beatVars

ServerRaw == Free /\ ~thrown /\ Raw(server) /\ UNCHANGED beatVars

\* bad_lexical_cast or bad_alloc reaches main's handler.
ServerThrows == WriteThrows(server) /\ UNCHANGED <<down, beatVars>>

ServerGoes == Go(server) /\ UNCHANGED beatVars

-----------------------------------------------------------------------------
(* The thread of doHeartBeat.                                              *)

ReadInfo ==
    /\ ~down /\ hb \in {"start", "half"}
    /\ hb' = IF hb = "start" THEN "half" ELSE "request"
    /\ seen' = seen \cup {info}
    /\ UNCHANGED <<logVars, queued, beating, beats, info, restarts>>

\* A std::string is assigned while it is read.
InfoCrash ==
    /\ ~down /\ hb \in {"start", "half"} /\ Free /\ ~thrown /\ queued /\ beats < MaxBeats
    /\ down' = TRUE
    /\ UNCHANGED <<callVars, mixed, prefix, owner, fout, file, console, raws, thrown, beatVars>>

\* No connection: a text to cout, without the logger.
NoConnection ==
    /\ hb = "request" /\ Raw(heart)
    /\ hb' = "over"
    /\ UNCHANGED <<queued, beating, beats, info, seen, restarts>>

\* The answer is logged.
Answered ==
    /\ hb = "request" /\ Log(heart)
    /\ hb' = "log"
    /\ UNCHANGED <<queued, beating, beats, info, seen, restarts>>

\* Nobody catches what leaves a thread's function.
HeartThrows == WriteThrows(heart) /\ down' = TRUE /\ UNCHANGED beatVars

HeartGoes == Go(heart) /\ UNCHANGED beatVars

HeartOver ==
    /\ ~down /\ hb = "log" /\ at[heart] = "out"
    /\ hb' = "over"
    /\ UNCHANGED <<logVars, queued, beating, beats, info, seen, restarts>>

-----------------------------------------------------------------------------
Next ==
    \/ BeatInfo \/ BeatJoin \/ Restart
    \/ ServerLogs \/ ServerRaw \/ ServerThrows \/ ServerGoes
    \/ ReadInfo \/ InfoCrash \/ NoConnection \/ Answered
    \/ HeartThrows \/ HeartGoes \/ HeartOver
    \/ Crash /\ UNCHANGED beatVars

Spec == Init /\ [][Next]_vars

\* The operating system runs both threads.
FairSpec == Spec /\ WF_vars(ServerGoes) /\ WF_vars(HeartGoes)

-----------------------------------------------------------------------------
(* Properties.                                                             *)

TypeOK ==
    /\ at \in [Thread -> {"out", "clear", "put", "lock", "head", "body", "tail", "unlock"}]
    /\ left \in [Thread -> 0..MaxWrites] /\ calls \in [Thread -> Nat]
    /\ owner \in Thread \cup {Nobody}
    /\ fout \in BOOLEAN /\ thrown \in BOOLEAN /\ down \in BOOLEAN
    /\ raws \in Nat
    /\ queued \in BOOLEAN /\ beating \in BOOLEAN
    /\ beats \in Nat /\ info \in Nat
    /\ hb \in {"none", "start", "half", "request", "log", "over"}
    /\ seen \subseteq Nat /\ restarts \in Nat

\* A heartbeat tells the state the server had at one beat, or parts of it at
\* that and a later beat: in one life of the server at most one beat overwrites
\* the info of a running thread, because it is not followed by another before
\* that thread is over; every restart may add one.
OneOverwritePerLife == \A i, j \in seen : i - j <= 1 + restarts

\* Every log call ends, whatever the other thread does, unless a write threw
\* in one and left the mutex locked.
LogEnds == \A t \in Thread : at[t] # "out" ~> at[t] = "out" \/ thrown \/ down

=============================================================================
