---------------------------- MODULE Heartbeat_proofs ----------------------------
(***************************************************************************)
(* Whole lines, their times and the shared ServerInfo, for any number of   *)
(* calls, arguments and beats.                                             *)
(***************************************************************************)
EXTENDS Heartbeat, TLAPS

Piece == [call : Thread \X Nat, kind : {"head", "body", "tail", "raw"},
          times : Seq(Thread \X Nat), clean : BOOLEAN]

-----------------------------------------------------------------------------
(* Sequences of pieces.                                                    *)

\* The last piece of a line in s is the i-th.
IsLast(s, i) ==
    /\ i \in 1..Len(s) /\ s[i].kind # "raw"
    /\ \A k \in (i + 1)..Len(s) : s[k].kind = "raw"

\* s ends between two lines, or inside the line of call c.
Between(s) == \A i \in 1..Len(s) : IsLast(s, i) => s[i].kind = "tail"

InLine(s, c) ==
    /\ \E i \in 1..Len(s) : s[i].kind # "raw"
    /\ \A i \in 1..Len(s) : IsLast(s, i) => s[i].call = c /\ s[i].kind \in {"head", "body"}

\* A text of no line changes nothing.
LEMMA RawKeepsWhole ==
    ASSUME NEW s \in Seq(Piece), NEW p \in Piece, p.kind = "raw", Whole(s)
    PROVE  Whole(Append(s, p))
<1> DEFINE r == Append(s, p)
<1>1. Len(r) = Len(s) + 1 /\ r[Len(s) + 1] = p /\ (\A i \in 1..Len(s) : r[i] = s[i]) /\ Len(s) \in Nat
  OBVIOUS
<1> HIDE DEF r
<1>2. \A i \in 1..Len(r) : r[i].kind # "raw" => i \in 1..Len(s)
  BY <1>1
<1>3. ASSUME NEW i \in 1..Len(r), NEW j \in 1..Len(r), i < j,
             r[i].kind # "raw", r[j].kind # "raw",
             \A k \in (i + 1)..(j - 1) : r[k].kind = "raw"
      PROVE  Follows(r[i], r[j])
  <2>1. i \in 1..Len(s) /\ j \in 1..Len(s)
    BY <1>2, <1>3
  <2>2. \A k \in (i + 1)..(j - 1) : s[k].kind = "raw"
    BY <1>1, <1>3, <2>1
  <2>3. Follows(s[i], s[j])
    BY <1>1, <1>3, <2>1, <2>2 DEF Whole
  <2> QED BY <1>1, <2>1, <2>3
<1>4. ASSUME NEW j \in 1..Len(r), r[j].kind # "raw", \A k \in 1..(j - 1) : r[k].kind = "raw"
      PROVE  r[j].kind = "head"
  BY <1>1, <1>2, <1>4 DEF Whole
<1> QED BY <1>3, <1>4 DEF Whole, r

LEMMA RawKeepsEnd ==
    ASSUME NEW s \in Seq(Piece), NEW p \in Piece, p.kind = "raw"
    PROVE  /\ Between(s) => Between(Append(s, p))
           /\ \A c : InLine(s, c) => InLine(Append(s, p), c)
<1> DEFINE r == Append(s, p)
<1>1. Len(r) = Len(s) + 1 /\ r[Len(s) + 1] = p /\ (\A i \in 1..Len(s) : r[i] = s[i]) /\ Len(s) \in Nat
  OBVIOUS
<1> HIDE DEF r
<1>2. \A i \in 1..Len(r) : IsLast(r, i) => i \in 1..Len(s) /\ IsLast(s, i)
  BY <1>1 DEF IsLast
<1>3. Between(s) => Between(r)
  BY <1>1, <1>2 DEF Between
<1>4. \A c : InLine(s, c) => InLine(r, c)
  BY <1>1, <1>2 DEF InLine
<1> QED BY <1>3, <1>4 DEF r

\* A piece may be added where it belongs.
LEMMA PieceKeepsWhole ==
    ASSUME NEW s \in Seq(Piece), NEW p \in Piece, p.kind # "raw", Whole(s),
           \A i \in 1..Len(s) : IsLast(s, i) => Follows(s[i], p),
           (\A i \in 1..Len(s) : s[i].kind = "raw") => p.kind = "head"
    PROVE  Whole(Append(s, p))
<1> DEFINE r == Append(s, p)
<1>1. Len(r) = Len(s) + 1 /\ r[Len(s) + 1] = p /\ (\A i \in 1..Len(s) : r[i] = s[i]) /\ Len(s) \in Nat
  OBVIOUS
<1> HIDE DEF r
<1>3. ASSUME NEW i \in 1..Len(r), NEW j \in 1..Len(r), i < j,
             r[i].kind # "raw", r[j].kind # "raw",
             \A k \in (i + 1)..(j - 1) : r[k].kind = "raw"
      PROVE  Follows(r[i], r[j])
  <2>1. i \in 1..Len(s) /\ r[i] = s[i]
    BY <1>1, <1>3
  <2>2. CASE j = Len(s) + 1
    <3>1. \A k \in (i + 1)..Len(s) : s[k].kind = "raw"
      BY <1>1, <1>3, <2>2
    <3>2. IsLast(s, i)
      BY <1>3, <2>1, <3>1 DEF IsLast
    <3> QED BY <1>1, <2>1, <2>2, <3>2
  <2>3. CASE j \in 1..Len(s)
    <3>1. \A k \in (i + 1)..(j - 1) : s[k].kind = "raw"
      BY <1>1, <1>3, <2>1, <2>3
    <3>2. Follows(s[i], s[j])
      BY <1>1, <1>3, <2>1, <2>3, <3>1 DEF Whole
    <3> QED BY <1>1, <2>1, <2>3, <3>2
  <2> QED BY <1>1, <2>2, <2>3
<1>4. ASSUME NEW j \in 1..Len(r), r[j].kind # "raw", \A k \in 1..(j - 1) : r[k].kind = "raw"
      PROVE  r[j].kind = "head"
  <2>1. CASE j = Len(s) + 1
    BY <1>1, <1>4, <2>1
  <2>2. CASE j \in 1..Len(s)
    BY <1>1, <1>4, <2>2 DEF Whole
  <2> QED BY <1>1, <2>1, <2>2
<1> QED BY <1>3, <1>4 DEF Whole, r

LEMMA HeadKeepsWhole ==
    ASSUME NEW s \in Seq(Piece), NEW p \in Piece, p.kind = "head",
           Whole(s), Between(s)
    PROVE  Whole(Append(s, p)) /\ InLine(Append(s, p), p.call)
<1> DEFINE r == Append(s, p)
<1>1. Len(r) = Len(s) + 1 /\ r[Len(s) + 1] = p /\ (\A i \in 1..Len(s) : r[i] = s[i]) /\ Len(s) \in Nat
  OBVIOUS
<1> HIDE DEF r
<1>2. \A i \in 1..Len(s) : IsLast(s, i) => Follows(s[i], p)
  BY DEF Between, Follows
<1>3. Whole(r)
  BY <1>2, PieceKeepsWhole DEF r
<1>4. InLine(r, p.call)
  BY <1>1 DEF InLine, IsLast
<1> QED BY <1>3, <1>4 DEF r

LEMMA RestKeepsWhole ==
    ASSUME NEW s \in Seq(Piece), NEW p \in Piece, p.kind \in {"body", "tail"},
           Whole(s), InLine(s, p.call)
    PROVE  /\ Whole(Append(s, p))
           /\ p.kind = "body" => InLine(Append(s, p), p.call)
           /\ p.kind = "tail" => Between(Append(s, p))
<1> DEFINE r == Append(s, p)
<1>1. Len(r) = Len(s) + 1 /\ r[Len(s) + 1] = p /\ (\A i \in 1..Len(s) : r[i] = s[i]) /\ Len(s) \in Nat
  OBVIOUS
<1> HIDE DEF r
<1>2. \A i \in 1..Len(s) : IsLast(s, i) => Follows(s[i], p)
  BY DEF InLine, Follows
<1>3. \E i \in 1..Len(s) : s[i].kind # "raw"
  BY DEF InLine
<1>4. Whole(r)
  BY <1>2, <1>3, PieceKeepsWhole DEF r
<1>5. \A i \in 1..Len(r) : IsLast(r, i) => i = Len(s) + 1
  BY <1>1 DEF IsLast
<1>6. p.kind = "body" => InLine(r, p.call)
  BY <1>1, <1>5 DEF InLine
<1>7. p.kind = "tail" => Between(r)
  BY <1>1, <1>5 DEF Between
<1> QED BY <1>4, <1>6, <1>7 DEF r

-----------------------------------------------------------------------------
(* The inductive invariant.                                                *)

\* The values of the logger's variables.
LogTypes ==
    /\ at \in [Thread -> {"out", "clear", "put", "lock", "head", "body", "tail", "unlock"}]
    /\ left \in [Thread -> 0..MaxWrites] /\ calls \in [Thread -> Nat]
    /\ \A t \in Thread : at[t] \notin {"out", "tail", "unlock"} => left[t] > 0
    /\ mixed \subseteq Thread \X Nat
    /\ prefix \in Seq(Thread \X Nat)
    /\ owner \in Thread \cup {Nobody}
    /\ file \in Seq(Piece) /\ console \in Seq(Piece)
    /\ fout \in BOOLEAN /\ thrown \in BOOLEAN /\ down \in BOOLEAN
    /\ raws \in Nat

\* Who is past Lock has the mutex.
Mutex == \A t \in Thread : at[t] \in {"head", "body", "tail", "unlock"} => owner = t

\* Where s ends, as far as threads may still write.
EndsAsCalled(s) ==
    /\ owner = Nobody => Between(s)
    /\ \A t \in Thread : /\ at[t] \in {"head", "unlock"} => Between(s)
                         /\ at[t] \in {"body", "tail"} => InLine(s, Call(t))

Lines ==
    /\ LinesWhole
    /\ EndsAsCalled(console)
    /\ fout => EndsAsCalled(file)

\* What a call that met no other in beginOutput finds in the stream.
Stamps ==
    /\ \A t, u \in Thread : t # u /\ Stamping(t) /\ Stamping(u) => Call(t) \in mixed
    /\ \A t \in Thread : Call(t) \notin mixed =>
          /\ at[t] = "put" => prefix = <<>>
          /\ at[t] \in {"lock", "head"} => prefix = <<Call(t)>>

LogInv == LogTypes /\ Mutex /\ Lines /\ Stamps /\ StampsOwn

\* What v, the beat whose info a thread has begun to read, may be behind by: one
\* for every restart, and one for the beat of this life unless that is queued.
Ahead(v) ==
    /\ v <= info /\ info <= v + restarts + 1
    /\ queued => info <= v + restarts

\* Whose info a running thread has read.
BeatInv ==
    /\ queued \in BOOLEAN /\ beating \in BOOLEAN
    /\ beats \in Nat /\ info = beats
    /\ hb \in {"none", "start", "half", "request", "log", "over"}
    /\ seen \subseteq Nat /\ restarts \in Nat
    /\ hb \in {"none", "start"} => seen = {}
    /\ hb = "half" => \E v \in Nat : seen = {v} /\ Ahead(v)
    /\ OneOverwritePerLife

-----------------------------------------------------------------------------
(* The steps of the logger.                                                *)

\* A step of a thread in the logger, or of a thread that is none of its.
LogStep(t) == Log(t) \/ Go(t) \/ Raw(t) \/ (WriteThrows(t) /\ down' \in BOOLEAN)

Ended ==
    /\ down' = TRUE
    /\ UNCHANGED <<callVars, mixed, prefix, owner, fout, file, console, raws, thrown>>

LEMMA NextLogs ==
    ASSUME down \in BOOLEAN, [Next]_vars
    PROVE  (\E t \in Thread : LogStep(t)) \/ Ended \/ UNCHANGED logVars
<1>1. server \in Thread /\ heart \in Thread
  BY HeartbeatAssumption
<1> QED
  BY <1>1 DEF Next, vars, LogStep, Ended, BeatInfo, BeatJoin, Restart, ServerLogs, ServerRaw,
     ServerThrows, ServerGoes, ReadInfo, InfoCrash, NoConnection, Answered, HeartThrows,
     HeartGoes, HeartOver, Crash

\* A write adds the piece the thread is at.
Adds(t, p) ==
    /\ p.call = Call(t) /\ p.kind = at[t]
    /\ p.kind = "head" => p.times = prefix
    /\ p.clean = (Call(t) \notin mixed)
    /\ console' = Append(console, p)
    /\ \/ fout /\ fout' = fout /\ file' = Append(file, p)
       \/ fout' = FALSE /\ file' = file

LEMMA WriteAdds ==
    ASSUME LogTypes, NEW t \in Thread, WriteHead(t) \/ WriteBody(t) \/ WriteTail(t)
    PROVE  /\ at[t] \in {"head", "body", "tail"}
           /\ \E p \in Piece : Adds(t, p)
<1>1. PICK times \in {prefix, <<>>} :
         (at[t] = "head" => times = prefix) /\ Written(t, at[t], times)
  BY DEF WriteHead, WriteBody, WriteTail
<1>2. times \in Seq(Thread \X Nat)
  <2>1. prefix \in Seq(Thread \X Nat) /\ <<>> \in Seq(Thread \X Nat)
    BY DEF LogTypes
  <2> QED BY <1>1, <2>1
<1>3. at[t] \in {"head", "body", "tail"}
  BY DEF WriteHead, WriteBody, WriteTail
<1>4. Call(t) \in Thread \X Nat
  BY DEF LogTypes, Call
<1> DEFINE p == [call |-> Call(t), kind |-> at[t], times |-> times, clean |-> Call(t) \notin mixed]
<1>5. p \in Piece
  BY <1>2, <1>3, <1>4 DEF Piece
<1>6. Adds(t, p)
  BY <1>1 DEF Written, Adds
<1> QED BY <1>3, <1>5, <1>6

LEMMA LogTypesStep ==
    ASSUME LogTypes, NEW t \in Thread, LogStep(t)
    PROVE  LogTypes'
<1>1. Call(t) \in Thread \X Nat
  BY DEF LogTypes, Call
<1>2. CASE Log(t)
  BY <1>2, LoggingAssumption, SMTT(30) DEF LogTypes, Log
<1>3. CASE Clear(t)
  BY <1>3 DEF LogTypes, Clear, Call
<1>4. CASE Put(t)
  BY <1>1, <1>4, SMTT(30) DEF LogTypes, Put
<1>5. CASE Lock(t)
  BY <1>5 DEF LogTypes, Lock
<1>6. CASE WriteHead(t) \/ WriteBody(t) \/ WriteTail(t)
  <2>1. PICK p \in Piece : Adds(t, p)
    BY <1>6, WriteAdds
  <2>2. file' \in Seq(Piece) /\ console' \in Seq(Piece) /\ fout' \in BOOLEAN
    <3>1. file \in Seq(Piece) /\ console \in Seq(Piece) /\ fout \in BOOLEAN
      BY DEF LogTypes
    <3>2. console' = Append(console, p)
      BY <2>1 DEF Adds
    <3>3. \/ fout' = fout /\ file' = Append(file, p)
          \/ fout' = FALSE /\ file' = file
      BY <2>1 DEF Adds
    <3>4. console' \in Seq(Piece)
      BY <2>1, <3>1, <3>2
    <3>5. Append(file, p) \in Seq(Piece)
      BY <2>1, <3>1
    <3>6. file' \in Seq(Piece)
      BY <3>1, <3>3, <3>5
    <3>7. fout' \in BOOLEAN
      BY <3>1, <3>3
    <3> QED BY <3>4, <3>6, <3>7
  <2>3. /\ at' \in [Thread -> {"out", "clear", "put", "lock", "head", "body", "tail", "unlock"}]
        /\ left' \in [Thread -> 0..MaxWrites]
        /\ \A u \in Thread : at'[u] \notin {"out", "tail", "unlock"} => left'[u] > 0
    <3>1. CASE WriteHead(t)
      <4>1. left[t] > 0
        BY <3>1 DEF LogTypes, WriteHead
      <4> QED BY <3>1, <4>1 DEF LogTypes, WriteHead
    <3>2. CASE WriteBody(t)
      <4>1. at[t] = "body" /\ left[t] \in 0..MaxWrites /\ left[t] > 0 /\ MaxWrites \in Nat
        BY <3>2, LoggingAssumption DEF LogTypes, WriteBody
      <4>2. left' = [left EXCEPT ![t] = @ - 1]
        BY <3>2 DEF WriteBody
      <4>3. at' = [at EXCEPT ![t] = IF left[t] = 1 THEN "tail" ELSE @]
        BY <3>2 DEF WriteBody
      <4>4. left[t] - 1 \in 0..MaxWrites /\ (left[t] # 1 => left[t] - 1 > 0)
        BY <4>1
      <4>5. left' \in [Thread -> 0..MaxWrites] /\ left'[t] = left[t] - 1
        BY <4>2, <4>4 DEF LogTypes
      <4>6. at'[t] = (IF left[t] = 1 THEN "tail" ELSE "body")
        BY <4>1, <4>3 DEF LogTypes
      <4>7. \A u \in Thread \ {t} : at'[u] = at[u] /\ left'[u] = left[u]
        BY <4>2, <4>3 DEF LogTypes
      <4>8. at' \in [Thread -> {"out", "clear", "put", "lock", "head", "body", "tail", "unlock"}]
        BY <4>1, <4>3 DEF LogTypes
      <4>9. at'[t] = "body" => left'[t] > 0
        BY <4>4, <4>5, <4>6
      <4>10. \A u \in Thread : at'[u] \notin {"out", "tail", "unlock"} => left'[u] > 0
        BY <4>6, <4>7, <4>9 DEF LogTypes
      <4> QED BY <4>5, <4>8, <4>10
    <3>3. CASE WriteTail(t)
      BY <3>3 DEF LogTypes, WriteTail
    <3> QED BY <1>6, <3>1, <3>2, <3>3
  <2> QED BY <1>6, <2>2, <2>3 DEF LogTypes, WriteHead, WriteBody, WriteTail
<1>7. CASE Unlock(t)
  BY <1>7 DEF LogTypes, Unlock
<1>8. CASE WriteThrows(t) /\ down' \in BOOLEAN
  BY <1>8 DEF LogTypes, WriteThrows
<1>9. CASE Raw(t)
  <2>1. [call |-> <<t, 0>>, kind |-> "raw", times |-> <<>>, clean |-> TRUE] \in Piece
    BY DEF Piece
  <2> QED BY <1>9, <2>1 DEF LogTypes, Raw, callVars
<1> QED BY <1>2, <1>3, <1>4, <1>5, <1>6, <1>7, <1>8, <1>9 DEF LogStep, Go

LEMMA MutexStep ==
    ASSUME LogTypes, Mutex, NEW t \in Thread, LogStep(t)
    PROVE  Mutex'
<1>1. CASE Log(t) \/ Clear(t) \/ Put(t) \/ WriteThrows(t)
  BY <1>1 DEF LogTypes, Mutex, Log, Clear, Put, WriteThrows
<1>2. CASE Lock(t)
  BY <1>2, LoggingAssumption DEF LogTypes, Mutex, Lock
<1>3. CASE WriteHead(t) \/ WriteBody(t) \/ WriteTail(t)
  BY <1>3 DEF LogTypes, Mutex, WriteHead, WriteBody, WriteTail
<1>4. CASE Unlock(t)
  BY <1>4 DEF LogTypes, Mutex, Unlock
<1>5. CASE Raw(t)
  BY <1>5 DEF Mutex, Raw, callVars
<1> QED BY <1>1, <1>2, <1>3, <1>4, <1>5 DEF LogStep, Go

\* EndsAsCalled(s) in the next state.
EndsNext(s) ==
    /\ owner' = Nobody => Between(s)
    /\ \A t \in Thread : /\ at'[t] \in {"head", "unlock"} => Between(s)
                         /\ at'[t] \in {"body", "tail"} => InLine(s, Call(t)')

\* Steps that write nothing.
Quiet(t) == Log(t) \/ Clear(t) \/ Put(t) \/ Lock(t) \/ Unlock(t) \/ WriteThrows(t)

LEMMA QuietKeepsEnds ==
    ASSUME LogTypes, Mutex, NEW t \in Thread, Quiet(t), NEW s, EndsAsCalled(s)
    PROVE  EndsNext(s)
<1>1. CASE Log(t)
  <2>1. \A u \in Thread : at'[u] = (IF u = t THEN "clear" ELSE at[u])
    BY <1>1 DEF LogTypes, Log
  <2>2. \A u \in Thread : u # t => Call(u)' = Call(u)
    BY <1>1 DEF LogTypes, Log, Call
  <2> QED BY <1>1, <2>1, <2>2 DEF Log, EndsAsCalled, EndsNext
<1>2. CASE Clear(t) \/ Put(t) \/ WriteThrows(t)
  <2>1. \A u \in Thread : at'[u] = at[u] \/ at'[u] \in {"put", "lock", "out"}
    BY <1>2 DEF LogTypes, Clear, Put, WriteThrows
  <2>2. owner' = owner /\ \A u \in Thread : Call(u)' = Call(u)
    BY <1>2 DEF Clear, Put, WriteThrows, Call
  <2> QED BY <2>1, <2>2 DEF EndsAsCalled, EndsNext
<1>3. CASE Lock(t)
  <2>1. Between(s)
    BY <1>3 DEF Lock, EndsAsCalled
  <2>2. \A u \in Thread : at'[u] = (IF u = t THEN "head" ELSE at[u]) /\ Call(u)' = Call(u)
    BY <1>3 DEF LogTypes, Lock, Call
  <2> QED BY <2>1, <2>2 DEF EndsAsCalled, EndsNext
<1>4. CASE Unlock(t)
  <2>1. Between(s)
    BY <1>4 DEF Unlock, EndsAsCalled
  <2>2. \A u \in Thread : at'[u] = (IF u = t THEN "out" ELSE at[u]) /\ Call(u)' = Call(u)
    BY <1>4 DEF LogTypes, Unlock, Call
  <2> QED BY <2>1, <2>2 DEF EndsAsCalled, EndsNext
<1> QED BY <1>1, <1>2, <1>3, <1>4 DEF Quiet

LEMMA WriteKeepsLines ==
    ASSUME LogTypes, Mutex, NEW t \in Thread, WriteHead(t) \/ WriteBody(t) \/ WriteTail(t),
           NEW s \in Seq(Piece), Whole(s), EndsAsCalled(s),
           NEW p \in Piece, p.call = Call(t), p.kind = at[t]
    PROVE  Whole(Append(s, p)) /\ EndsNext(Append(s, p))
<1>1. owner = t /\ owner' = t /\ t # Nobody
  BY LoggingAssumption DEF Mutex, WriteHead, WriteBody, WriteTail
<1>2. \A u \in Thread : u # t => at'[u] \notin {"head", "body", "tail", "unlock"}
  BY <1>1 DEF LogTypes, Mutex, WriteHead, WriteBody, WriteTail
<1>3. Call(t)' = Call(t)
  BY DEF Call, WriteHead, WriteBody, WriteTail
<1>4. CASE WriteHead(t)
  <2>1. Whole(Append(s, p)) /\ InLine(Append(s, p), Call(t))
    BY <1>4, HeadKeepsWhole DEF WriteHead, EndsAsCalled
  <2>2. at'[t] = "body"
    BY <1>4 DEF LogTypes, WriteHead
  <2> QED BY <1>1, <1>2, <1>3, <2>1, <2>2 DEF EndsNext
<1>5. CASE WriteBody(t)
  <2>1. Whole(Append(s, p)) /\ InLine(Append(s, p), Call(t))
    BY <1>5, RestKeepsWhole DEF WriteBody, EndsAsCalled
  <2>2. at'[t] \in {"body", "tail"}
    BY <1>5 DEF LogTypes, WriteBody
  <2> QED BY <1>1, <1>2, <1>3, <2>1, <2>2 DEF EndsNext
<1>6. CASE WriteTail(t)
  <2>1. Whole(Append(s, p)) /\ Between(Append(s, p))
    BY <1>6, RestKeepsWhole DEF WriteTail, EndsAsCalled
  <2>2. at'[t] = "unlock"
    BY <1>6 DEF LogTypes, WriteTail
  <2> QED BY <1>1, <1>2, <1>3, <2>1, <2>2 DEF EndsNext
<1> QED BY <1>4, <1>5, <1>6

LEMMA LinesStep ==
    ASSUME LogTypes, Mutex, Lines, NEW t \in Thread, LogStep(t)
    PROVE  Lines'
<1>1. file \in Seq(Piece) /\ console \in Seq(Piece) /\ fout \in BOOLEAN
  BY DEF LogTypes
<1>2. Whole(file) /\ Whole(console) /\ EndsAsCalled(console) /\ (fout => EndsAsCalled(file))
  BY DEF Lines, LinesWhole
<1>3. CASE Quiet(t)
  <2>1. file' = file /\ console' = console /\ fout' = fout
    BY <1>3 DEF Quiet, Log, Clear, Put, Lock, Unlock, WriteThrows
  <2>2. EndsNext(console) /\ (fout => EndsNext(file))
    BY <1>2, <1>3, QuietKeepsEnds
  <2> QED BY <1>2, <2>1, <2>2 DEF Lines, LinesWhole, EndsAsCalled, EndsNext
<1>4. CASE WriteHead(t) \/ WriteBody(t) \/ WriteTail(t)
  <2>1. PICK p \in Piece : Adds(t, p)
    BY <1>4, WriteAdds
  <2>2. p.call = Call(t) /\ p.kind = at[t] /\ console' = Append(console, p)
    BY <2>1 DEF Adds
  <2>3. Whole(console') /\ EndsNext(console')
    BY <1>1, <1>2, <1>4, <2>1, <2>2, WriteKeepsLines
  <2>4. CASE fout /\ fout' = fout /\ file' = Append(file, p)
    <3>1. Whole(file') /\ EndsNext(file')
      BY <1>1, <1>2, <1>4, <2>1, <2>2, <2>4, WriteKeepsLines
    <3> QED BY <2>3, <3>1 DEF Lines, LinesWhole, EndsAsCalled, EndsNext
  <2>5. CASE fout' = FALSE /\ file' = file
    BY <1>2, <2>3, <2>5 DEF Lines, LinesWhole, EndsAsCalled, EndsNext
  <2> QED BY <2>1, <2>4, <2>5 DEF Adds
<1>5. CASE Raw(t)
  <2> DEFINE raw == [call |-> <<t, 0>>, kind |-> "raw", times |-> <<>>, clean |-> TRUE]
  <2>1. raw \in Piece /\ raw.kind = "raw"
    BY DEF Piece
  <2>2. /\ console' = Append(console, raw) /\ file' = file /\ fout' = fout
        /\ owner' = owner /\ at' = at /\ calls' = calls
    BY <1>5 DEF Raw, callVars
  <2> HIDE DEF raw
  <2>3. Whole(console')
    BY <1>1, <1>2, <2>1, <2>2, RawKeepsWhole
  <2>4. Between(console) => Between(console')
    BY <1>1, <2>1, <2>2, RawKeepsEnd
  <2>5. \A u \in Thread : Call(u)' = Call(u) /\ (InLine(console, Call(u)) => InLine(console', Call(u)))
    BY <1>1, <2>1, <2>2, RawKeepsEnd DEF Call
  <2>6. EndsAsCalled(console)'
    BY <1>2, <2>2, <2>4, <2>5 DEF EndsAsCalled
  <2>7. fout' => EndsAsCalled(file)'
    BY <1>2, <2>2, <2>5 DEF EndsAsCalled
  <2> QED BY <1>2, <2>2, <2>3, <2>6, <2>7 DEF Lines, LinesWhole
<1> QED BY <1>3, <1>4, <1>5 DEF LogStep, Go, Quiet

LEMMA StampsStep ==
    ASSUME LogTypes, Stamps, NEW t \in Thread, LogStep(t)
    PROVE  Stamps'
<1>1. \A u \in Thread : Stamping(u)' => (u = t /\ Clear(t)) \/ (Stamping(u) /\ Call(u)' = Call(u))
  BY DEF LogTypes, Stamping, Call, LogStep, Go, Log, Clear, Put, Lock, WriteHead, WriteBody,
     WriteTail, Unlock, WriteThrows, Raw, callVars
<1>2. mixed \subseteq mixed'
  BY DEF LogStep, Go, Log, Clear, Put, Lock, WriteHead, WriteBody,
     WriteTail, Unlock, WriteThrows, Raw, callVars
<1>3. CASE Clear(t)
  <2>1. \A u \in Thread : Call(u)' = Call(u)
    BY <1>3 DEF Clear, Call
  <2>2. \A u \in Thread \ {t} : at'[u] = at[u]
    BY <1>3 DEF LogTypes, Clear
  <2>3. at'[t] = "put" /\ prefix' = <<>>
    BY <1>3 DEF LogTypes, Clear
  <2>4. \A u \in Thread \ {t} : Stamping(u) => Call(u) \in mixed' /\ Call(t) \in mixed'
    BY <1>3 DEF Clear
  <2>5. \A u \in Thread \ {t} : Stamping(u)' <=> Stamping(u)
    BY <2>2 DEF Stamping
  <2>6. \A u, v \in Thread : u # v /\ Stamping(u)' /\ Stamping(v)' => Call(u)' \in mixed'
    BY <1>2, <2>1, <2>4, <2>5 DEF Stamps
  <2>7. \A u \in Thread \ {t} : at'[u] \in {"put", "lock", "head"} => Call(u)' \in mixed'
    BY <2>1, <2>2, <2>4 DEF Stamping
  <2> QED BY <2>3, <2>6, <2>7 DEF Stamps
<1>4. CASE Put(t)
  <2>1. at[t] = "put" /\ at'[t] = "lock" /\ prefix' = Append(prefix, Call(t)) /\ mixed' = mixed
    BY <1>4 DEF LogTypes, Put
  <2>2. \A u \in Thread : Call(u)' = Call(u)
    BY <1>4 DEF Put, Call
  <2>3. \A u \in Thread \ {t} : at'[u] = at[u]
    BY <1>4 DEF LogTypes, Put
  <2>4. \A u, v \in Thread : u # v /\ Stamping(u)' /\ Stamping(v)' => Call(u)' \in mixed'
    BY <2>1, <2>2, <2>3 DEF Stamps, Stamping
  <2>5. \A u \in Thread \ {t} : Stamping(u)' => Call(u)' \in mixed'
    BY <2>1, <2>4 DEF Stamping
  <2>6. Call(t) \notin mixed => prefix' = <<Call(t)>>
    <3>1. Call(t) \notin mixed => prefix = <<>>
      BY <2>1 DEF Stamps
    <3>2. \A c : Append(<<>>, c) = <<c>>
      OBVIOUS
    <3> QED BY <2>1, <3>1, <3>2
  <2> QED BY <2>1, <2>2, <2>4, <2>5, <2>6 DEF Stamps, Stamping
<1>5. CASE ~Clear(t) /\ ~Put(t)
  <2>1. prefix' = prefix /\ mixed' = mixed
    BY <1>5 DEF LogStep, Go, Log, Lock, WriteHead, WriteBody,
       WriteTail, Unlock, WriteThrows, Raw, callVars
  <2>2. \A u \in Thread : Stamping(u)' => at'[u] = at[u] \/ (at[u] = "lock" /\ at'[u] = "head")
    BY <1>5 DEF LogTypes, Stamping, LogStep, Go, Log, Lock, WriteHead, WriteBody,
       WriteTail, Unlock, WriteThrows, Raw, callVars
  <2>3. \A u \in Thread : Stamping(u)' => Stamping(u) /\ Call(u)' = Call(u)
    BY <1>1, <1>5
  <2> QED BY <2>1, <2>2, <2>3 DEF Stamps, Stamping
<1> QED BY <1>3, <1>4, <1>5

LEMMA StampsOwnStep ==
    ASSUME LogTypes, Stamps, StampsOwn, NEW t \in Thread, LogStep(t)
    PROVE  StampsOwn'
<1>1. console \in Seq(Piece)
  BY DEF LogTypes
<1>2. CASE WriteHead(t) \/ WriteBody(t) \/ WriteTail(t)
  <2>1. PICK p \in Piece : Adds(t, p)
    BY <1>2, WriteAdds
  <2>2. p.kind = "head" /\ p.clean => p.times = <<p.call>>
    BY <2>1 DEF Adds, Stamps
  <2>3. console' = Append(console, p)
    BY <2>1 DEF Adds
  <2> QED BY <1>1, <2>1, <2>2, <2>3 DEF StampsOwn
<1>3. CASE Raw(t)
  <2> DEFINE raw == [call |-> <<t, 0>>, kind |-> "raw", times |-> <<>>, clean |-> TRUE]
  <2>1. raw.kind = "raw" /\ console' = Append(console, raw)
    BY <1>3 DEF Raw
  <2> HIDE DEF raw
  <2> QED BY <1>1, <2>1 DEF StampsOwn
<1>4. CASE Quiet(t)
  <2>1. console' = console
    BY <1>4 DEF Quiet, Log, Clear, Put, Lock, Unlock, WriteThrows
  <2> QED BY <2>1 DEF StampsOwn
<1> QED BY <1>2, <1>3, <1>4 DEF LogStep, Go, Quiet

LEMMA LogInvUnchanged ==
    ASSUME LogInv, Ended \/ UNCHANGED logVars
    PROVE  LogInv'
<1>1. UNCHANGED <<at, left, calls, mixed, prefix, owner, fout, file, console, raws, thrown>>
  BY DEF Ended, logVars, callVars
<1>2. down' \in BOOLEAN
  BY DEF Ended, logVars, LogInv, LogTypes
<1>3. LogTypes'
  BY <1>1, <1>2 DEF LogInv, LogTypes
<1>4. Mutex'
  BY <1>1 DEF LogInv, Mutex
<1>5. Lines'
  BY <1>1 DEF LogInv, Lines, LinesWhole, EndsAsCalled, Call
<1>6. Stamps' /\ StampsOwn'
  BY <1>1 DEF LogInv, Stamps, Stamping, StampsOwn, Call
<1> QED BY <1>3, <1>4, <1>5, <1>6 DEF LogInv

LEMMA LogInvStep ==
    ASSUME LogInv, [Next]_vars
    PROVE  LogInv'
<1>1. CASE \E t \in Thread : LogStep(t)
  BY <1>1, LogTypesStep, MutexStep, LinesStep, StampsStep, StampsOwnStep DEF LogInv
<1>2. CASE Ended \/ UNCHANGED logVars
  BY <1>2, LogInvUnchanged
<1> QED BY <1>1, <1>2, NextLogs DEF LogInv, LogTypes

-----------------------------------------------------------------------------
(* The steps of the heartbeat.                                             *)

LEMMA BeatInvStep ==
    ASSUME BeatInv, [Next]_vars
    PROVE  BeatInv'
<1>1. CASE BeatInfo
  <2>1. /\ queued /\ queued' = FALSE /\ beating' = TRUE /\ beats' = beats + 1
        /\ info' = beats + 1 /\ hb' = hb /\ seen' = seen /\ restarts' = restarts
    BY <1>1 DEF BeatInfo
  <2>2. ASSUME hb = "half" PROVE \E v \in Nat : seen' = {v} /\ Ahead(v)'
    <3>1. PICK v \in Nat : seen = {v} /\ Ahead(v)
      BY <2>2 DEF BeatInv
    <3>2. v <= info /\ info <= v + restarts
      BY <2>1, <3>1 DEF Ahead
    <3>3. v <= info' /\ info' <= v + restarts' + 1 /\ ~queued'
      BY <2>1, <3>2 DEF BeatInv
    <3> QED BY <2>1, <3>1, <3>3 DEF Ahead
  <2>3. OneOverwritePerLife' /\ seen' \subseteq Nat /\ (hb' \in {"none", "start"} => seen' = {})
    BY <2>1 DEF BeatInv, OneOverwritePerLife
  <2>4. queued' \in BOOLEAN /\ beating' \in BOOLEAN /\ restarts' \in Nat
    BY <2>1 DEF BeatInv
  <2>5. beats \in Nat /\ hb \in {"none", "start", "half", "request", "log", "over"}
    BY DEF BeatInv
  <2>6. beats' \in Nat /\ info' = beats' /\ hb' \in {"none", "start", "half", "request", "log", "over"}
    BY <2>1, <2>5
  <2> QED BY <2>1, <2>2, <2>3, <2>4, <2>6 DEF BeatInv
<1>2. CASE BeatJoin
  <2>1. beating' = FALSE /\ beats' = beats /\ info' = info
    BY <1>2 DEF BeatJoin
  <2>2. CASE hb' = "start" /\ seen' = {} /\ queued' = TRUE /\ restarts' = 0
    BY <2>1, <2>2 DEF BeatInv, OneOverwritePerLife
  <2>3. CASE hb' = hb /\ seen' = seen /\ queued' = queued /\ restarts' = restarts
    BY <2>1, <2>3 DEF BeatInv, Ahead, OneOverwritePerLife
  <2> QED BY <1>2, <2>2, <2>3 DEF BeatJoin
<1>3. CASE Restart
  <2>1. /\ queued' = TRUE /\ restarts' = restarts + 1 /\ beating' = beating
        /\ beats' = beats /\ info' = info /\ hb' = hb /\ seen' = seen
    BY <1>3 DEF Restart
  <2>2. ASSUME hb = "half" PROVE \E v \in Nat : seen' = {v} /\ Ahead(v)'
    <3>1. PICK v \in Nat : seen = {v} /\ Ahead(v)
      BY <2>2 DEF BeatInv
    <3>2. info \in Nat /\ restarts \in Nat /\ v <= info /\ info <= v + restarts + 1
      BY <3>1 DEF Ahead, BeatInv
    <3>3. v <= info' /\ info' <= v + restarts'
      BY <2>1, <3>2
    <3>4. info' <= v + restarts' + 1
      BY <2>1, <3>2
    <3>5. Ahead(v)'
      BY <3>3, <3>4, Zenon DEF Ahead
    <3> QED BY <2>1, <3>1, <3>5
  <2>3. restarts' \in Nat
    BY <2>1 DEF BeatInv
  <2>4. OneOverwritePerLife'
    <3> SUFFICES ASSUME NEW i \in seen, NEW j \in seen PROVE i - j <= 1 + restarts'
      BY <2>1 DEF OneOverwritePerLife
    <3>1. i \in Nat /\ j \in Nat /\ restarts \in Nat /\ i - j <= 1 + restarts
      BY DEF BeatInv, OneOverwritePerLife
    <3> QED BY <2>1, <3>1
  <2> QED BY <2>1, <2>2, <2>3, <2>4 DEF BeatInv
<1>4. CASE ReadInfo
  <2>1. /\ seen' = seen \cup {info} /\ queued' = queued /\ beating' = beating
        /\ beats' = beats /\ info' = info /\ restarts' = restarts
    BY <1>4 DEF ReadInfo
  <2>2. CASE hb = "start"
    <3>1. hb' = "half" /\ seen' = {info} /\ info \in Nat /\ restarts \in Nat
      BY <1>4, <2>1, <2>2 DEF ReadInfo, BeatInv
    <3>2. Ahead(info)'
      BY <2>1, <3>1 DEF Ahead
    <3>3. OneOverwritePerLife'
      BY <2>1, <3>1 DEF OneOverwritePerLife
    <3> QED BY <2>1, <3>1, <3>2, <3>3 DEF BeatInv
  <2>3. CASE hb = "half"
    <3>1. PICK v \in Nat : seen = {v} /\ Ahead(v)
      BY <2>3 DEF BeatInv
    <3>2. hb' = "request" /\ seen' = {v, info} /\ info \in Nat /\ restarts \in Nat
      BY <1>4, <2>1, <2>3, <3>1 DEF ReadInfo, BeatInv
    <3>3. v <= info /\ info <= v + restarts + 1
      BY <3>1, <3>2 DEF Ahead
    <3>4. OneOverwritePerLife'
      BY <2>1, <3>2, <3>3 DEF OneOverwritePerLife
    <3> QED BY <2>1, <3>1, <3>2, <3>4 DEF BeatInv
  <2> QED BY <1>4, <2>2, <2>3 DEF ReadInfo
<1>5. CASE NoConnection \/ Answered \/ HeartOver
  BY <1>5 DEF BeatInv, OneOverwritePerLife, NoConnection, Answered, HeartOver
<1>6. CASE UNCHANGED beatVars
  BY <1>6 DEF BeatInv, Ahead, OneOverwritePerLife, beatVars
<1> QED
  BY <1>1, <1>2, <1>3, <1>4, <1>5, <1>6 DEF Next, vars, ServerLogs, ServerRaw,
     ServerThrows, ServerGoes, InfoCrash, HeartThrows, HeartGoes

-----------------------------------------------------------------------------
IInv == LogInv /\ BeatInv

LEMMA InitIInv == Init => IInv
<1> SUFFICES ASSUME Init PROVE IInv
  OBVIOUS
<1>1. LogTypes
  <2>1. 0 \in 0..MaxWrites
    BY LoggingAssumption
  <2>2. <<>> \in Seq(Piece) /\ <<>> \in Seq(Thread \X Nat)
    OBVIOUS
  <2> QED BY <2>1, <2>2 DEF Init, LogInit, LogTypes
<1>2. Mutex /\ Stamps
  BY DEF Init, LogInit, Mutex, Stamps, Stamping
<1>3. Lines
  BY DEF Init, LogInit, Lines, LinesWhole, Whole, EndsAsCalled, Between
<1>4. StampsOwn
  BY DEF Init, LogInit, StampsOwn
<1>5. BeatInv
  BY DEF Init, BeatInv, OneOverwritePerLife
<1> QED BY <1>1, <1>2, <1>3, <1>4, <1>5 DEF IInv, LogInv

LEMMA IInvAlways == Spec => []IInv
<1>1. IInv /\ [Next]_vars => IInv'
  BY LogInvStep, BeatInvStep DEF IInv
<1> QED BY InitIInv, <1>1, PTL DEF Spec

\* Every variable has a value of its type: threads, the mutex, the stream
\* and the heartbeat's thread.
THEOREM TypesAlwaysHold == Spec => []TypeOK
<1>1. IInv => TypeOK
  BY DEF IInv, LogInv, LogTypes, BeatInv, TypeOK
<1> QED BY IInvAlways, <1>1, PTL

\* However threads, direct writes to cout, a failing file and throwing writes
\* interleave, beginOutput and endOutput keep the lines whole.
THEOREM LinesAlwaysWhole == Spec => []LinesWhole
<1>1. IInv => LinesWhole
  BY DEF IInv, LogInv, Lines
<1> QED BY IInvAlways, <1>1, PTL

\* A line has its own time and no other unless its call met another one in
\* beginOutput, which uses the shared stream without the mutex.
THEOREM StampsAlwaysOwn == Spec => []StampsOwn
<1>1. IInv => StampsOwn
  BY DEF IInv, LogInv
<1> QED BY IInvAlways, <1>1, PTL

\* In one life of the server a running heartbeat sees its ServerInfo overwritten
\* once at most, because the beat that does it is not queued again; every restart
\* since the thread was started may add one.
THEOREM AtMostOneOverwritePerLife == Spec => []OneOverwritePerLife
<1>1. IInv => OneOverwritePerLife
  BY DEF IInv, BeatInv
<1> QED BY IInvAlways, <1>1, PTL

=============================================================================
