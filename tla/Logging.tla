-------------------------------- MODULE Logging --------------------------------
(***************************************************************************)
(* outputLogger: a log call is beginOutput, one write for each of its      *)
(* arguments and endOutput.  All threads share the stream in which         *)
(* beginOutput formats the time, and it does so before it takes the mutex. *)
(* Other code writes to cout without the logger.                           *)
(*                                                                         *)
(* A call is named by its thread and its number; the time it formats is    *)
(* named like the call.  One operation on the stream is one step.  That    *)
(* two threads do at once is undefined: it comes out as one after the      *)
(* other, or the process crashes.                                          *)
(***************************************************************************)
EXTENDS Integers, Sequences

CONSTANTS
    Thread,
    Nobody,
    MaxCalls,   \* bound: log calls of each thread
    MaxWrites,  \* bound: arguments of a log call
    MaxRaw      \* bound: texts written to cout directly

ASSUME LoggingAssumption ==
    /\ Nobody \notin Thread
    /\ MaxCalls \in [Thread -> Nat] /\ MaxWrites \in Nat \ {0} /\ MaxRaw \in Nat

VARIABLES
    at,       \* the next thing a thread does in its call, or "out" of one
    left,     \* arguments it has still to write
    calls,    \* calls it has made
    mixed,    \* calls whose way from str("") to the head met another's
    prefix,   \* the times in the shared stream
    owner,    \* of the mutex
    fout,     \* the file is good; once it fails (a full disk) it stays so
    file,     \* what was written to it, piece by piece
    console,  \* and to cout
    raws,     \* texts written to cout directly
    thrown,   \* a write threw out of a call: nothing unlocks the mutex
    down      \* the process ended

callVars == <<at, left, calls>>
logVars == <<callVars, mixed, prefix, owner, fout, file, console, raws, thrown, down>>

Call(t) == <<t, calls[t]>>

\* On the way from clearing the stream to reading it.
Stamping(t) == at[t] \in {"put", "lock", "head"}

LogInit ==
    /\ at = [t \in Thread |-> "out"] /\ left = [t \in Thread |-> 0]
    /\ calls = [t \in Thread |-> 0]
    /\ mixed = {} /\ prefix = <<>> /\ owner = Nobody
    /\ fout = TRUE /\ file = <<>> /\ console = <<>> /\ raws = 0
    /\ thrown = FALSE /\ down = FALSE

-----------------------------------------------------------------------------
\* log, info, error or debug is called.
Log(t) ==
    /\ ~down /\ at[t] = "out" /\ calls[t] < MaxCalls[t]
    /\ calls' = [calls EXCEPT ![t] = @ + 1]
    /\ \E n \in 1..MaxWrites : left' = [left EXCEPT ![t] = n]
    /\ at' = [at EXCEPT ![t] = "clear"]
    /\ UNCHANGED <<mixed, prefix, owner, fout, file, console, raws, thrown, down>>

\* Mutant of Clear: without str("").
ClearNothing(t) ==
    /\ ~down /\ at[t] = "clear"
    /\ at' = [at EXCEPT ![t] = "put"]
    /\ mixed' = IF \E u \in Thread \ {t} : Stamping(u)
                THEN mixed \cup {Call(t)} \cup {Call(u) : u \in {v \in Thread : Stamping(v)}}
                ELSE mixed
    /\ UNCHANGED <<left, calls, prefix, owner, fout, file, console, raws, thrown, down>>

\* prefix.str("")
Clear(t) ==
    /\ ~down /\ at[t] = "clear"
    /\ at' = [at EXCEPT ![t] = "put"]
    /\ prefix' = <<>>
    /\ mixed' = IF \E u \in Thread \ {t} : Stamping(u)
                THEN mixed \cup {Call(t)} \cup {Call(u) : u \in {v \in Thread : Stamping(v)}}
                ELSE mixed
    /\ UNCHANGED <<left, calls, owner, fout, file, console, raws, thrown, down>>

\* prefix << local_time()
Put(t) ==
    /\ ~down /\ at[t] = "put"
    /\ at' = [at EXCEPT ![t] = "lock"]
    /\ prefix' = Append(prefix, Call(t))
    /\ UNCHANGED <<left, calls, mixed, owner, fout, file, console, raws, thrown, down>>

\* m.lock()
Lock(t) ==
    /\ ~down /\ at[t] = "lock" /\ owner = Nobody
    /\ at' = [at EXCEPT ![t] = "head"]
    /\ owner' = t
    /\ UNCHANGED <<left, calls, mixed, prefix, fout, file, console, raws, thrown, down>>

\* write: to the file while it is good, and to cout (Silent is never set).
Written(t, kind, times) ==
    LET piece == [call |-> Call(t), kind |-> kind, times |-> times, clean |-> Call(t) \notin mixed]
    IN  /\ \/ fout /\ file' = Append(file, piece) /\ UNCHANGED fout
           \/ fout' = FALSE /\ UNCHANGED file
        /\ console' = Append(console, piece)

\* The head: the times in the stream and the kind of the message.
WriteHead(t) ==
    /\ ~down /\ at[t] = "head"
    /\ at' = [at EXCEPT ![t] = "body"]
    /\ Written(t, "head", prefix)
    /\ UNCHANGED <<left, calls, mixed, prefix, owner, raws, thrown, down>>

WriteBody(t) ==
    /\ ~down /\ at[t] = "body"
    /\ left' = [left EXCEPT ![t] = @ - 1]
    /\ at' = [at EXCEPT ![t] = IF left[t] = 1 THEN "tail" ELSE @]
    /\ Written(t, "body", <<>>)
    /\ UNCHANGED <<calls, mixed, prefix, owner, raws, thrown, down>>

\* Mutant of WriteTail: endOutput unlocks the mutex and then ends the line.
WriteTailUnlocked(t) ==
    /\ ~down /\ at[t] \in {"tail", "unlock"}
    /\ IF at[t] = "tail"
       THEN /\ at' = [at EXCEPT ![t] = "unlock"] /\ owner' = Nobody
            /\ UNCHANGED <<fout, file, console>>
       ELSE /\ at' = [at EXCEPT ![t] = "out"] /\ UNCHANGED owner
            /\ Written(t, "tail", <<>>)
    /\ UNCHANGED <<left, calls, mixed, prefix, raws, thrown, down>>

\* endOutput: the end of the line,
WriteTail(t) ==
    /\ ~down /\ at[t] = "tail"
    /\ at' = [at EXCEPT ![t] = "unlock"]
    /\ Written(t, "tail", <<>>)
    /\ UNCHANGED <<left, calls, mixed, prefix, owner, raws, thrown, down>>

\* Mutant of Unlock: the mutex is kept.
UnlockNot(t) ==
    /\ ~down /\ at[t] = "unlock"
    /\ at' = [at EXCEPT ![t] = "out"]
    /\ UNCHANGED <<left, calls, mixed, prefix, owner, fout, file, console, raws, thrown, down>>

\* and m.unlock().
Unlock(t) ==
    /\ ~down /\ at[t] = "unlock"
    /\ at' = [at EXCEPT ![t] = "out"]
    /\ owner' = Nobody
    /\ UNCHANGED <<left, calls, mixed, prefix, fout, file, console, raws, thrown, down>>

\* The conversion of an argument throws; the mutex stays locked.
WriteThrows(t) ==
    /\ ~down /\ at[t] = "body"
    /\ at' = [at EXCEPT ![t] = "out"]
    /\ thrown' = TRUE
    /\ UNCHANGED <<left, calls, mixed, prefix, owner, fout, file, console, raws>>

\* A text written to cout without the logger.
Raw(t) ==
    /\ ~down /\ at[t] = "out" /\ raws < MaxRaw
    /\ raws' = raws + 1
    /\ console' = Append(console, [call |-> <<t, 0>>, kind |-> "raw", times |-> <<>>, clean |-> TRUE])
    /\ UNCHANGED <<callVars, mixed, prefix, owner, fout, file, thrown, down>>

\* Two threads use the stream at once.
UsesPrefix(t) == at[t] \in {"clear", "put", "head"}

Crash ==
    /\ ~down /\ \E t, u \in Thread : t # u /\ UsesPrefix(t) /\ UsesPrefix(u)
    /\ down' = TRUE
    /\ UNCHANGED <<callVars, mixed, prefix, owner, fout, file, console, raws, thrown>>

Go(t) == Clear(t) \/ Put(t) \/ Lock(t) \/ WriteHead(t) \/ WriteBody(t) \/ WriteTail(t) \/ Unlock(t)

-----------------------------------------------------------------------------
(* Properties.                                                             *)

\* What may come after a piece of a line: more of the same line, and only
\* after its end another.
Follows(a, b) ==
    IF a.kind = "tail" THEN b.kind = "head"
    ELSE b.call = a.call /\ b.kind \in {"body", "tail"}

\* Whole lines, one after the other, whatever stands between their pieces
\* that is of no line.
Whole(s) ==
    /\ \A i, j \in 1..Len(s) :
          /\ i < j /\ s[i].kind # "raw" /\ s[j].kind # "raw"
          /\ \A k \in (i + 1)..(j - 1) : s[k].kind = "raw"
          => Follows(s[i], s[j])
    /\ \A j \in 1..Len(s) :
          s[j].kind # "raw" /\ (\A k \in 1..(j - 1) : s[k].kind = "raw") => s[j].kind = "head"

\* No line of the log is ever broken by another, neither in the file nor
\* among the texts that go to the console without the logger, wherever the
\* file fails or a call ends with an exception.
LinesWhole == Whole(file) /\ Whole(console)

\* A line begins with the time of its own call, and only that, unless another
\* thread was in beginOutput at the same time: although the stream for it is
\* shared and used without the mutex, nothing of a call that is over is left
\* in it.
StampsOwn ==
    \A i \in 1..Len(console) :
        LET piece == console[i]
        IN  piece.kind = "head" /\ piece.clean => piece.times = <<piece.call>>

=============================================================================
