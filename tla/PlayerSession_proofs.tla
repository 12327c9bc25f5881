------------------------ MODULE PlayerSession_proofs ------------------------
(***************************************************************************)
(* Proofs about PlayerSession, for any number of players and packets: type *)
(* correctness and the invariants that tie the world's roster, the map     *)
(* tasks and the receives to the list of players; and, resting on those,   *)
(* the bookkeeping of ids, what clients show of each other, and that the   *)
(* handlers implement PlayerLifecycle.                                     *)
(***************************************************************************)
EXTENDS PlayerSession, TLAPS

Recv == {"none", "armed", "ready", "failed"}
Disc == {"no", "maybe", "yes"}

-----------------------------------------------------------------------------
(* What the helpers of the handlers preserve.                              *)

LEMMA FreeIdsAreBytes == FreeIds \subseteq Byte
  BY SessionAssumption DEF FreeIds, Byte

LEMMA DisconnectTypes ==
  ASSUME TypeOK, NEW D, NEW M, NEW t, NEW r, Disconnect(D, M, t, r),
         M \subseteq 1..joined, t \subseteq 1..joined, r \in [Player -> Recv]
  PROVE  /\ members' \subseteq 1..joined /\ world' \subseteq 1..joined
         /\ mapTask' \subseteq 1..joined
         /\ recv' \in [Player -> Recv] /\ disc' \in [Player -> Disc]
  BY DEF TypeOK, Disconnect, Recv, Disc

LEMMA DisconnectThrowsTypes ==
  ASSUME TypeOK, NEW D, NEW M, NEW t, NEW r, NEW outer,
         DisconnectThrows(D, outer, M, t, r), D \subseteq 1..joined,
         M \subseteq 1..joined, t \subseteq 1..joined, r \in [Player -> Recv]
  PROVE  /\ members' \subseteq 1..joined /\ world' \subseteq 1..joined
         /\ mapTask' \subseteq 1..joined
         /\ recv' \in [Player -> Recv] /\ disc' \in [Player -> Disc]
         /\ proc' = "throw" /\ UNCHANGED <<idVars, players, peerVars, view, ubs>>
  BY DEF TypeOK, DisconnectThrows, Recv, Disc

LEMMA ViewsTypes ==
  ASSUME TypeOK, NEW M, NEW D, NEW told, NEW shown \in SUBSET Byte, NEW missed
  PROVE  Views(M, D, told, shown, missed) \in [Player -> SUBSET Byte]
  BY DEF TypeOK, Views

LEMMA DiesTypes ==
  ASSUME TypeOK, NEW how \in {"assert", "crash"}, Dies(how)
  PROVE  TypeOK'
  BY SessionAssumption DEF TypeOK, Dies, Cleared

LEMMA ThrowTypes == TypeOK /\ Throw => TypeOK'
  BY DEF TypeOK, Throw, idVars, peerVars

-----------------------------------------------------------------------------
(* Type correctness.                                                       *)

LEMMA InitTypes == Init => TypeOK
  BY SessionAssumption DEF Init, TypeOK, Byte

LEMMA JoinTypes == TypeOK /\ Join => TypeOK'
<1> SUFFICES ASSUME TypeOK, Join PROVE TypeOK'
  OBVIOUS
<1> DEFINE p == joined + 1
<1>1. PICK i \in FreeIds : Enlist(p, i)
  BY DEF Join
<1>2. i \in Byte
  BY FreeIdsAreBytes
<1>3. p \in Player /\ p \in 1..joined' /\ joined' \in 0..MaxJoin
  BY <1>1, SessionAssumption DEF Join, Enlist, TypeOK, Player
<1>4. /\ players' \subseteq 1..joined' /\ IDS' \subseteq Byte
      /\ id' \in [Player -> Byte]
      /\ ubs' \subseteq {"iterator", "index", "freed", "listed"}
  BY <1>1, <1>2, <1>3 DEF Enlist, TypeOK
<1>5. /\ world' \subseteq 1..joined' /\ mapTask' \subseteq 1..joined'
      /\ visible' \subseteq 1..joined' /\ recv' \in [Player -> Recv]
  BY <1>1, <1>3 DEF Join, Construct, JoinWorld, Enlist, TypeOK, Recv
<1>6. gone' \subseteq 1..joined' /\ members' \subseteq 1..joined'
  BY <1>1, <1>3 DEF Join, Enlist, TypeOK
<1> QED
  BY <1>3, <1>4, <1>5, <1>6 DEF Join, TypeOK, Recv

LEMMA ThrownTypes ==
  ASSUME TypeOK, NEW D, NEW outer, NEW r, sent' = sent,
         DisconnectThrows(D, outer, members, mapTask, r), D \subseteq 1..joined,
         r \in [Player -> Recv]
  PROVE  TypeOK'
<1>1. /\ members' \subseteq 1..joined /\ world' \subseteq 1..joined
      /\ mapTask' \subseteq 1..joined
      /\ recv' \in [Player -> Recv] /\ disc' \in [Player -> Disc]
      /\ proc' = "throw" /\ UNCHANGED <<idVars, players, peerVars, view, ubs>>
  BY DisconnectThrowsTypes DEF TypeOK
<1> QED
  BY <1>1 DEF TypeOK, Recv, Disc, idVars, peerVars

LEMMA GoesOnTypes ==
  ASSUME TypeOK, NEW F, NEW D, NEW r, GoesOn(F, D, r), r \in [Player -> Recv]
  PROVE  TypeOK'
<1>1. view' \in [Player -> SUBSET Byte]
  BY ViewsTypes DEF GoesOn
<1>2. /\ members' \subseteq 1..joined /\ world' \subseteq 1..joined
      /\ mapTask' \subseteq 1..joined
      /\ recv' \in [Player -> Recv] /\ disc' \in [Player -> Disc]
  BY DisconnectTypes DEF GoesOn, TypeOK
<1> QED
  BY <1>1, <1>2 DEF GoesOn, TypeOK, Recv, Disc, Iterated, idVars, peerVars

LEMMA OnDataTypes ==
  ASSUME TypeOK, NEW p \in Player, OnData(p)
  PROVE  TypeOK'
<1>1. PICK R \in Audiences(p) : \E F \in FailSets(members, R) :
          \/ GoesOn(F, F, [recv EXCEPT ![p] = "armed"])
          \/ Dies("crash")
          \/ /\ DisconnectThrows(F, {}, members, mapTask, [recv EXCEPT ![p] = "none"])
             /\ UNCHANGED sent
  BY DEF OnData
<1>2. PICK F \in FailSets(members, R) :
          \/ GoesOn(F, F, [recv EXCEPT ![p] = "armed"])
          \/ Dies("crash")
          \/ /\ DisconnectThrows(F, {}, members, mapTask, [recv EXCEPT ![p] = "none"])
             /\ UNCHANGED sent
  BY <1>1
<1>3. F \subseteq 1..joined
  BY DEF FailSets, TypeOK
<1>4. /\ [recv EXCEPT ![p] = "armed"] \in [Player -> Recv]
      /\ [recv EXCEPT ![p] = "none"] \in [Player -> Recv]
  BY DEF TypeOK, Recv
<1> QED
  BY <1>2, <1>3, <1>4, GoesOnTypes, DiesTypes, ThrownTypes

LEMMA OnErrorTypes ==
  ASSUME TypeOK, NEW p \in Player, OnError(p)
  PROVE  TypeOK'
<1> DEFINE r == [recv EXCEPT ![p] = "none"]
           R == IF p \in visible THEN members \ {p} ELSE {}
<1>1. PICK F \in FailSets(members \ {p}, R) :
          \/ GoesOn(F, F \cup {p}, r)
          \/ /\ DisconnectThrows(F \cup {p}, {p}, members, mapTask, r)
             /\ UNCHANGED sent
          \/ Dies("crash")
  BY DEF OnError
<1>2. F \cup {p} \subseteq 1..joined
  BY DEF FailSets, TypeOK, OnError
<1>3. r \in [Player -> Recv]
  BY DEF TypeOK, Recv
<1> QED
  BY <1>1, <1>2, <1>3, GoesOnTypes, DiesTypes, ThrownTypes

LEMMA PlayersStepTypes == TypeOK /\ PlayersStep => TypeOK'
  BY DEF TypeOK, PlayersStep, Reap, peerVars

LEMMA MapFinalTypes ==
  ASSUME TypeOK, NEW p \in Player, MapFinal(p)
  PROVE  TypeOK'
<1> DEFINE M == members \cup {p}
           R == Others(p)
           t == mapTask \ {p}
<1>1. PICK F \in FailSets(M, R \cup {p}) :
         \/ /\ Disconnect(F, M, t, recv)
            /\ ubs' = Iterated(F \ {p})
            /\ \E told, missed :
                  view' = [Views(M, F, told, {id[p]}, missed) EXCEPT
                             ![p] = IF p \in F THEN @
                                    ELSE {id[q] : q \in R \ F}]
            /\ sent' = [sent EXCEPT ![p] = Chunks]
            /\ UNCHANGED <<proc, idVars, players, peerVars>>
         \/ Dies("crash")
         \/ /\ DisconnectThrows(F, {}, M, t, recv)
            /\ sent' = [sent EXCEPT ![p] = Chunks]
  BY DEF MapFinal
<1>2. /\ M \subseteq 1..joined /\ t \subseteq 1..joined /\ F \subseteq 1..joined
      /\ recv \in [Player -> Recv]
  BY DEF FailSets, TypeOK, MapFinal, Recv
<1>3. [sent EXCEPT ![p] = Chunks] \in [Player -> 0..Chunks]
  BY SessionAssumption DEF TypeOK
<1>4. CASE Dies("crash")
  BY <1>4, DiesTypes
<1>5. CASE /\ DisconnectThrows(F, {}, M, t, recv)
           /\ sent' = [sent EXCEPT ![p] = Chunks]
  <2>1. /\ members' \subseteq 1..joined /\ world' \subseteq 1..joined
        /\ mapTask' \subseteq 1..joined
        /\ recv' \in [Player -> Recv] /\ disc' \in [Player -> Disc]
        /\ proc' = "throw" /\ UNCHANGED <<idVars, players, peerVars, view, ubs>>
    BY <1>2, <1>5, DisconnectThrowsTypes
  <2> QED
    BY <1>3, <1>5, <2>1 DEF TypeOK, Recv, Disc, idVars, peerVars
<1>6. CASE /\ Disconnect(F, M, t, recv)
           /\ ubs' = Iterated(F \ {p})
           /\ \E told, missed :
                 view' = [Views(M, F, told, {id[p]}, missed) EXCEPT
                            ![p] = IF p \in F THEN @
                                   ELSE {id[q] : q \in R \ F}]
           /\ sent' = [sent EXCEPT ![p] = Chunks]
           /\ UNCHANGED <<proc, idVars, players, peerVars>>
  <2>1. PICK told, missed :
           view' = [Views(M, F, told, {id[p]}, missed) EXCEPT
                      ![p] = IF p \in F THEN @ ELSE {id[q] : q \in R \ F}]
    BY <1>6
  <2>2. {id[p]} \in SUBSET Byte /\ {id[q] : q \in R \ F} \in SUBSET Byte
    <3>1. members \subseteq Player
      BY SessionAssumption DEF TypeOK, Player
    <3>2. id[p] \in Byte /\ \A q \in members : id[q] \in Byte
      BY <3>1 DEF TypeOK
    <3> QED
      BY <3>2 DEF Others
  <2>3. view' \in [Player -> SUBSET Byte]
    BY <2>1, <2>2, ViewsTypes
  <2>4. /\ members' \subseteq 1..joined /\ world' \subseteq 1..joined
        /\ mapTask' \subseteq 1..joined
        /\ recv' \in [Player -> Recv] /\ disc' \in [Player -> Disc]
    BY <1>2, <1>6, DisconnectTypes
  <2> QED
    BY <1>3, <1>6, <2>3, <2>4 DEF TypeOK, Recv, Disc, Iterated, idVars, peerVars
<1> QED
  BY <1>1, <1>4, <1>5, <1>6

LEMMA TypeStep == TypeOK /\ [Next]_vars => TypeOK'
<1> SUFFICES ASSUME TypeOK, [Next]_vars PROVE TypeOK'
  OBVIOUS
<1>1. CASE BeginPoll
  BY <1>1 DEF BeginPoll, TypeOK, idVars, peerVars
<1>2. CASE Join
  BY <1>2, JoinTypes
<1>3. CASE JoinFails
  BY <1>3, ThrowTypes, DiesTypes DEF JoinFails
<1>4. CASE PlayersStep
  BY <1>4, PlayersStepTypes
<1>5. CASE Destroy
  <2>1. /\ disc' \in [Player -> Disc]
        /\ recv' \in [Player -> Recv]
        /\ sent' \in [Player -> 0..Chunks]
        /\ view' \in [Player -> SUBSET Byte]
        /\ budget' \in 0..MaxData
    BY <1>5, SessionAssumption DEF Destroy, Cleared, TypeOK, Disc, Recv
  <2>2. /\ joined' = joined /\ id' = id /\ visible' = visible
        /\ players' = {} /\ IDS' = {} /\ mapTask' = {} /\ gone' = {} /\ ubs' = {}
        /\ proc' = "stopped"
        /\ members' \subseteq members /\ world' \subseteq world
    BY <1>5 DEF Destroy, Cleared
  <2> QED
    BY <2>1, <2>2 DEF TypeOK, Disc, Recv
<1>6. CASE DestroyDies
  BY <1>6, DiesTypes DEF DestroyDies
<1>7. ASSUME NEW p \in Player, PeerLeaves(p) PROVE TypeOK'
  BY <1>7 DEF PeerLeaves, TypeOK, idVars
<1>8. ASSUME NEW p \in Player, PacketArrives(p) PROVE TypeOK'
  BY <1>8, SessionAssumption DEF PacketArrives, TypeOK, idVars
<1>9. ASSUME NEW p \in Player, ReceiveFails(p) PROVE TypeOK'
  BY <1>9 DEF ReceiveFails, TypeOK, idVars, peerVars
<1>10. ASSUME NEW p \in Player, Handler(p) PROVE TypeOK'
  <2>1. CASE OnData(p)
    BY <2>1, OnDataTypes
  <2>2. CASE OnDataThrows(p)
    BY <2>2, ThrowTypes DEF OnDataThrows
  <2>3. CASE OnDataLate(p)
    BY <2>3 DEF OnDataLate, TypeOK, idVars, peerVars
  <2>4. CASE OnError(p)
    BY <2>4, OnErrorTypes
  <2>5. CASE OnErrorAsserts(p) \/ OnFreed(p)
    BY <2>5, DiesTypes DEF OnErrorAsserts, OnFreed
  <2>6. CASE OnErrorAgain(p)
    BY <2>6 DEF OnErrorAgain, TypeOK, idVars, peerVars
  <2> QED
    BY <1>10, <2>1, <2>2, <2>3, <2>4, <2>5, <2>6 DEF Handler
<1>11. ASSUME NEW p \in Player, MapTask(p) PROVE TypeOK'
  <2>1. CASE MapChunk(p)
    BY <2>1, SessionAssumption DEF MapChunk, TypeOK, idVars, peerVars
  <2>2. CASE MapSendAsserts(p)
    BY <2>2, DiesTypes DEF MapSendAsserts
  <2>3. CASE MapFinal(p)
    BY <2>3, MapFinalTypes
  <2> QED
    BY <1>11, <2>1, <2>2, <2>3 DEF MapTask
<1>12. CASE UNCHANGED vars
  BY <1>12 DEF vars, TypeOK
<1> QED
  BY <1>1, <1>2, <1>3, <1>4, <1>5, <1>6, <1>7, <1>8, <1>9, <1>10, <1>11, <1>12
     DEF Next

\* Every variable keeps to its type, whatever the players do.
THEOREM TypeCorrect == Spec => []TypeOK
<1> QED
  BY InitTypes, TypeStep, PTL DEF Spec

-----------------------------------------------------------------------------
(* The inductive invariant.  RosterConsistent, MapSendSafe, StillListening *)
(* and HandlersOwned need each other, and two facts more: a closed socket  *)
(* has no receive that could still deliver a packet, and a Player that has *)
(* not been constructed is as Init left it.                                *)

ClosedSockets == \A p \in Player : disc[p] = "yes" => recv[p] # "armed"

Unconstructed ==
    \A p \in Player :
        p > joined => disc[p] = "no" /\ sent[p] = 0 /\ recv[p] = "none"

Sound ==
    /\ members \subseteq world
    /\ world = {p \in players : disc[p] = "no"}
    /\ \A p \in Player : disc[p] # "maybe"
    /\ mapTask = world \ members
    /\ \A p \in Player : p \in mapTask <=> p \in players /\ sent[p] < Chunks
    /\ \A p \in world : recv[p] # "none"
    /\ ~DeferredAborts => \A p \in Player : recv[p] # "none" => p \in players
    /\ ClosedSockets
    /\ Unconstructed

IInv == Up => Sound

LEMMA InitSound == Init => IInv
  BY SessionAssumption
     DEF Init, IInv, Sound, ClosedSockets, Unconstructed, Player

LEMMA DownSound == ~Up' => IInv'
  BY DEF IInv

\* Disconnecting some of the players in the world.
LEMMA DisconnectSound ==
  ASSUME TypeOK, Sound, NEW D, NEW M, NEW t, NEW r, Disconnect(D, M, t, r),
         D \subseteq M, M \subseteq world, members \subseteq M, t = world \ M,
         r \in [Player -> Recv],
         \A p \in Player : r[p] # "none" => recv[p] # "none",
         \A p \in world \ D : r[p] # "none",
         \A p \in Player : disc[p] = "yes" => r[p] # "armed",
         \A p \in Player : p \in t <=> p \in players /\ sent'[p] < Chunks,
         \A p \in Player : p > joined => sent'[p] = 0,
         UNCHANGED <<joined, players>>
  PROVE  Sound'
<1>1. /\ M \subseteq Player /\ D \subseteq Player /\ world \subseteq Player
      /\ players \subseteq Player
  BY SessionAssumption DEF TypeOK, Player
<1>2. \A p \in Player : disc'[p] = IF p \in D THEN "yes" ELSE disc[p]
  BY DEF Disconnect
<1>3. \A p \in Player :
         recv'[p] = IF p \in D /\ r[p] = "armed" THEN "failed" ELSE r[p]
  BY DEF Disconnect
<1>4. members' = M \ D /\ world' = world \ D /\ mapTask' = t \ D
  BY DEF Disconnect
<1>5. world' = {p \in players' : disc'[p] = "no"}
  <2>1. world = {p \in players : disc[p] = "no"}
    BY DEF Sound
  <2> QED
    BY <1>1, <1>2, <1>4, <2>1
<1>6. mapTask' = world' \ members'
  BY <1>4
<1>7. \A p \in Player : p \in mapTask' <=> p \in players' /\ sent'[p] < Chunks
  BY <1>4
<1>8. \A p \in world' : recv'[p] # "none"
  BY <1>1, <1>3, <1>4 DEF Sound
<1>9. ~DeferredAborts => \A p \in Player : recv'[p] # "none" => p \in players'
  BY <1>3 DEF Sound
<1>10. ClosedSockets'
  BY <1>1, <1>2, <1>3 DEF ClosedSockets, Player
<1>11. Unconstructed'
  BY <1>1, <1>2, <1>3, SessionAssumption DEF Sound, Unconstructed, TypeOK, Player
<1>12. \A p \in Player : disc'[p] # "maybe"
  BY <1>2 DEF Sound
<1> QED
  BY <1>4, <1>5, <1>6, <1>7, <1>8, <1>9, <1>10, <1>11, <1>12 DEF Sound, Player

LEMMA GoesOnSound ==
  ASSUME TypeOK, Sound, NEW F, NEW D, NEW r, GoesOn(F, D, r),
         D \subseteq members, r \in [Player -> Recv],
         \A p \in Player : r[p] # "none" => recv[p] # "none",
         \A p \in world \ D : r[p] # "none",
         \A p \in Player : disc[p] = "yes" => r[p] # "armed"
  PROVE  Sound'
<1>1. /\ Disconnect(D, members, mapTask, r)
      /\ sent' = sent /\ UNCHANGED <<joined, players>>
  BY DEF GoesOn, idVars
<1>2. /\ members \subseteq world /\ mapTask = world \ members
      /\ \A p \in Player : p \in mapTask <=> p \in players /\ sent'[p] < Chunks
      /\ \A p \in Player : p > joined => sent'[p] = 0
  BY <1>1 DEF Sound, Unconstructed
<1> QED
  BY <1>1, <1>2, DisconnectSound

LEMMA OnDataSound ==
  ASSUME TypeOK, Sound, NEW p \in Player, OnData(p)
  PROVE  IInv'
<1> DEFINE r == [recv EXCEPT ![p] = "armed"]
<1>1. PICK R \in Audiences(p) : \E F \in FailSets(members, R) :
          \/ GoesOn(F, F, r)
          \/ Dies("crash")
          \/ DisconnectThrows(F, {}, members, mapTask, [recv EXCEPT ![p] = "none"])
  BY DEF OnData
<1>2. PICK F \in FailSets(members, R) :
          \/ GoesOn(F, F, r)
          \/ Dies("crash")
          \/ DisconnectThrows(F, {}, members, mapTask, [recv EXCEPT ![p] = "none"])
  BY <1>1
<1>3. CASE GoesOn(F, F, r)
  <2>1. F \subseteq members
    BY DEF FailSets
  <2>2. /\ recv[p] = "ready" /\ disc[p] = "no" /\ p \in players
        /\ recv \in [Player -> Recv]
    BY DEF OnData, TypeOK, Recv
  <2>3. /\ r \in [Player -> Recv]
        /\ \A q \in Player : r[q] = IF q = p THEN "armed" ELSE recv[q]
    BY <2>2 DEF Recv
  <2>4. /\ \A q \in Player : r[q] # "none" => recv[q] # "none"
        /\ \A q \in Player : disc[q] = "yes" => r[q] # "armed"
    BY <2>2, <2>3 DEF Sound, ClosedSockets
  <2>5. \A q \in world \ F : r[q] # "none"
    <3>1. world \subseteq Player
      BY SessionAssumption DEF TypeOK, Player
    <3> QED
      BY <2>3, <3>1 DEF Sound
  <2> QED
    BY <1>3, <2>1, <2>3, <2>4, <2>5, GoesOnSound DEF IInv
<1>4. CASE Dies("crash") \/ DisconnectThrows(F, {}, members, mapTask,
                                              [recv EXCEPT ![p] = "none"])
  BY <1>4, DownSound DEF Dies, DisconnectThrows, Up
<1> QED
  BY <1>2, <1>3, <1>4

LEMMA OnErrorSound ==
  ASSUME TypeOK, Sound, NEW p \in Player, OnError(p)
  PROVE  IInv'
<1> DEFINE r == [recv EXCEPT ![p] = "none"]
           R == IF p \in visible THEN members \ {p} ELSE {}
<1>1. PICK F \in FailSets(members \ {p}, R) :
          \/ GoesOn(F, F \cup {p}, r)
          \/ DisconnectThrows(F \cup {p}, {p}, members, mapTask, r)
          \/ Dies("crash")
  BY DEF OnError
<1>2. CASE GoesOn(F, F \cup {p}, r)
  <2>1. F \cup {p} \subseteq members
    BY DEF FailSets, OnError
  <2>2. recv \in [Player -> Recv]
    BY DEF TypeOK, Recv
  <2>3. /\ r \in [Player -> Recv]
        /\ \A q \in Player : r[q] = IF q = p THEN "none" ELSE recv[q]
    BY <2>2 DEF Recv
  <2>4. /\ \A q \in Player : r[q] # "none" => recv[q] # "none"
        /\ \A q \in Player : disc[q] = "yes" => r[q] # "armed"
    BY <2>3 DEF Sound, ClosedSockets
  <2>5. \A q \in world \ (F \cup {p}) : r[q] # "none"
    <3>1. world \subseteq Player
      BY SessionAssumption DEF TypeOK, Player
    <3> QED
      BY <2>3, <3>1 DEF Sound
  <2> QED
    BY <1>2, <2>1, <2>3, <2>4, <2>5, GoesOnSound DEF IInv
<1>3. CASE \/ DisconnectThrows(F \cup {p}, {p}, members, mapTask, r)
           \/ Dies("crash")
  BY <1>3, DownSound DEF Dies, DisconnectThrows, Up
<1> QED
  BY <1>1, <1>2, <1>3

LEMMA MapFinalSound ==
  ASSUME TypeOK, Sound, NEW p \in Player, MapFinal(p)
  PROVE  IInv'
<1> DEFINE M == members \cup {p}
           R == Others(p)
           t == mapTask \ {p}
<1>1. PICK F \in FailSets(M, R \cup {p}) :
         \/ /\ Disconnect(F, M, t, recv)
            /\ sent' = [sent EXCEPT ![p] = Chunks]
            /\ UNCHANGED <<joined, players>>
         \/ Dies("crash")
         \/ DisconnectThrows(F, {}, M, t, recv)
  BY DEF MapFinal, idVars
<1>2. CASE /\ Disconnect(F, M, t, recv)
           /\ sent' = [sent EXCEPT ![p] = Chunks]
           /\ UNCHANGED <<joined, players>>
  <2>1. /\ p \in mapTask /\ p \in world /\ p \in players /\ p <= joined
    BY SessionAssumption DEF MapFinal, Sound, TypeOK, Player
  <2>2. F \subseteq M /\ M \subseteq world /\ members \subseteq M /\ t = world \ M
    BY <2>1 DEF FailSets, Sound
  <2>3. \A q \in Player : sent'[q] = IF q = p THEN Chunks ELSE sent[q]
    BY <1>2 DEF TypeOK
  <2>4. \A q \in Player : q \in t <=> q \in players /\ sent'[q] < Chunks
    BY <2>1, <2>3, SessionAssumption DEF Sound
  <2>5. \A q \in Player : q > joined => sent'[q] = 0
    BY <2>1, <2>3, SessionAssumption DEF Sound, Unconstructed, TypeOK, Player
  <2>6. /\ recv \in [Player -> Recv]
        /\ \A q \in world \ F : recv[q] # "none"
        /\ \A q \in Player : disc[q] = "yes" => recv[q] # "armed"
    BY DEF Sound, TypeOK, Recv, ClosedSockets
  <2> QED
    BY <1>2, <2>2, <2>4, <2>5, <2>6, DisconnectSound DEF IInv
<1>3. CASE Dies("crash") \/ DisconnectThrows(F, {}, M, t, recv)
  BY <1>3, DownSound DEF Dies, DisconnectThrows, Up
<1> QED
  BY <1>1, <1>2, <1>3

LEMMA JoinSound ==
  ASSUME TypeOK, Sound, Join
  PROVE  Sound'
<1> DEFINE p == joined + 1
<1>1. /\ joined' = p /\ players' = players \cup {p}
      /\ world' = world \cup {p} /\ mapTask' = mapTask \cup {p}
      /\ recv' = [recv EXCEPT ![p] = "armed"]
      /\ UNCHANGED <<disc, members, sent>>
  BY DEF Join, Enlist, Construct, JoinWorld
<1>2. /\ p \in Player /\ joined \in Nat /\ players \subseteq 1..joined
      /\ world \subseteq 1..joined /\ members \subseteq 1..joined
      /\ p \notin players /\ p \notin members
  BY SessionAssumption DEF Join, TypeOK, Player
<1>3. disc[p] = "no" /\ sent[p] = 0
  BY <1>2 DEF Sound, Unconstructed
<1>4. \A q \in Player : recv'[q] = IF q = p THEN "armed" ELSE recv[q]
  BY <1>1 DEF TypeOK
<1>5. world' = {q \in players' : disc'[q] = "no"}
  BY <1>1, <1>3 DEF Sound
<1>6. mapTask' = world' \ members'
  BY <1>1, <1>2 DEF Sound
<1>7. \A q \in Player : q \in mapTask' <=> q \in players' /\ sent'[q] < Chunks
  BY <1>1, <1>3, SessionAssumption DEF Sound
<1>8. \A q \in world' : recv'[q] # "none"
  <2>1. world' \subseteq Player
    BY <1>1, <1>2, SessionAssumption DEF Player, TypeOK
  <2> QED
    BY <1>1, <1>4, <2>1 DEF Sound
<1>9. ~DeferredAborts => \A q \in Player : recv'[q] # "none" => q \in players'
  BY <1>1, <1>4 DEF Sound
<1>10. ClosedSockets'
  BY <1>1, <1>3, <1>4 DEF Sound, ClosedSockets, Player
<1>11. Unconstructed'
  BY <1>1, <1>2, <1>4 DEF Sound, Unconstructed, Player
<1> QED
  BY <1>1, <1>5, <1>6, <1>7, <1>8, <1>9, <1>10, <1>11 DEF Sound, Player

LEMMA PlayersStepSound ==
  ASSUME TypeOK, Sound, PlayersStep
  PROVE  Sound'
<1>1. PICK done \in SUBSET Reaped : players' = players \ done
  BY DEF PlayersStep, Reap
<1>2. \A p \in done : p \in players /\ disc[p] = "yes"
  BY <1>1 DEF Reaped
<1>3. UNCHANGED <<joined, disc, world, members, mapTask, sent, recv>>
  BY DEF PlayersStep
<1>4. world' = {p \in players' : disc'[p] = "no"}
  BY <1>1, <1>2, <1>3 DEF Sound
<1>5. \A p \in Player : p \in mapTask' <=> p \in players' /\ sent'[p] < Chunks
  BY <1>1, <1>2, <1>3 DEF Sound
<1>6. ~DeferredAborts => \A p \in Player : recv'[p] # "none" => p \in players'
  BY <1>1, <1>2, <1>3 DEF Sound, ClosedSockets, PlayersStep, Drained
<1> QED
  BY <1>3, <1>4, <1>5, <1>6 DEF Sound, ClosedSockets, Unconstructed, Player

LEMMA SoundStep == TypeOK /\ IInv /\ [Next]_vars => IInv'
<1> SUFFICES ASSUME TypeOK, IInv, [Next]_vars PROVE IInv'
  OBVIOUS
<1>1. CASE BeginPoll
  <2>1. Sound /\ UNCHANGED <<joined, players, disc, world, members, mapTask, sent, recv>>
    BY <1>1 DEF BeginPoll, IInv, Up, idVars
  <2> QED
    BY <2>1 DEF IInv, Sound, ClosedSockets, Unconstructed, Player
<1>2. CASE Join
  BY <1>2, JoinSound DEF Join, IInv, Up
<1>3. CASE JoinFails
  BY <1>3, DownSound DEF JoinFails, Throw, Dies, Up
<1>4. CASE PlayersStep
  BY <1>4, PlayersStepSound DEF PlayersStep, IInv, Up
<1>5. CASE Destroy \/ DestroyDies
  BY <1>5, DownSound DEF Destroy, DestroyDies, Dies, Up
<1>6. ASSUME NEW p \in Player, PeerLeaves(p) PROVE IInv'
  <2>1. Sound /\ UNCHANGED <<joined, players, disc, world, members, mapTask, sent, recv>>
    BY <1>6 DEF PeerLeaves, IInv, idVars
  <2> QED
    BY <2>1 DEF IInv, Sound, ClosedSockets, Unconstructed, Player
<1>7. ASSUME NEW p \in Player,
             \/ PacketArrives(p) /\ recv' = [recv EXCEPT ![p] = "ready"]
             \/ ReceiveFails(p) /\ recv' = [recv EXCEPT ![p] = "failed"]
             \/ OnDataLate(p) /\ recv' = [recv EXCEPT ![p] = "failed"]
      PROVE IInv'
  <2>1. /\ Sound /\ recv[p] # "none"
        /\ UNCHANGED <<joined, players, disc, world, members, mapTask, sent>>
    BY <1>7 DEF PacketArrives, ReceiveFails, OnDataLate, IInv, Up, idVars
  <2>2. \A q \in Player :
           /\ recv'[q] = "none" <=> recv[q] = "none"
           /\ recv'[q] = "armed" => recv[q] = "armed"
    BY <1>7, <2>1 DEF TypeOK
  <2>3. world \subseteq Player
    BY SessionAssumption DEF TypeOK, Player
  <2> QED
    BY <2>1, <2>2, <2>3 DEF IInv, Sound, ClosedSockets, Unconstructed, Player
<1>8. ASSUME NEW p \in Player, Handler(p) PROVE IInv'
  <2>1. Sound
    BY <1>8 DEF Handler, OnData, OnDataThrows, OnDataLate, OnError,
                OnErrorAsserts, OnErrorAgain, OnFreed, IInv, Up
  <2>2. CASE OnData(p)
    BY <2>1, <2>2, OnDataSound
  <2>3. CASE OnDataThrows(p) \/ OnErrorAsserts(p) \/ OnErrorAgain(p) \/ OnFreed(p)
    BY <2>3, DownSound DEF OnDataThrows, OnErrorAsserts, OnErrorAgain, OnFreed,
                           Throw, Dies, Up
  <2>4. CASE OnDataLate(p)
    BY <1>7, <2>4 DEF OnDataLate
  <2>5. CASE OnError(p)
    BY <2>1, <2>5, OnErrorSound
  <2> QED
    BY <1>8, <2>2, <2>3, <2>4, <2>5 DEF Handler
<1>9. ASSUME NEW p \in Player, MapTask(p) PROVE IInv'
  <2>1. Sound
    BY <1>9 DEF MapTask, MapChunk, MapSendAsserts, MapFinal, IInv, Up
  <2>2. CASE MapChunk(p)
    <3>1. UNCHANGED <<joined, players, disc, world, members, mapTask, recv>>
      BY <2>2 DEF MapChunk, idVars
    <3>2. \A q \in Player : sent'[q] = IF q = p THEN sent[p] + 1 ELSE sent[q]
      BY <2>2 DEF MapChunk, TypeOK
    <3>3. p \in mapTask /\ p <= joined /\ sent[p] + 1 < Chunks /\ sent[p] \in Nat
      BY <2>2, SessionAssumption DEF MapChunk, TypeOK
    <3>4. \A q \in Player : q \in mapTask <=> q \in players /\ sent'[q] < Chunks
      BY <2>1, <3>2, <3>3, SessionAssumption DEF Sound
    <3>5. Unconstructed'
      BY <2>1, <3>1, <3>2, <3>3 DEF Sound, Unconstructed, TypeOK, Player
    <3> QED
      BY <2>1, <3>1, <3>4, <3>5 DEF IInv, Sound, ClosedSockets, Player
  <2>3. CASE MapSendAsserts(p)
    BY <2>3, DownSound DEF MapSendAsserts, Dies, Up
  <2>4. CASE MapFinal(p)
    BY <2>1, <2>4, MapFinalSound
  <2> QED
    BY <1>9, <2>2, <2>3, <2>4 DEF MapTask
<1>10. CASE UNCHANGED vars
  BY <1>10 DEF vars, IInv, Up, Sound, ClosedSockets, Unconstructed, Player
<1>11. ASSUME NEW p \in Player, PacketArrives(p) \/ ReceiveFails(p) PROVE IInv'
  BY <1>7, <1>11 DEF PacketArrives, ReceiveFails
<1> QED
  BY <1>1, <1>2, <1>3, <1>4, <1>5, <1>6, <1>8, <1>9, <1>10, <1>11 DEF Next

LEMMA AlwaysSound == Spec => [](TypeOK /\ IInv)
<1> QED
  BY InitTypes, InitSound, TypeStep, SoundStep, PTL DEF Spec

\* The world's set of raw pointers never holds a deleted or disconnected player
\* between two handlers.
THEOREM RosterAlwaysConsistent == Spec => []RosterConsistent
<1>1. TypeOK /\ IInv => RosterConsistent
  BY DEF IInv, Sound, RosterConsistent
<1> QED
  BY <1>1, AlwaysSound, PTL

\* No map task ever runs on a deleted or disconnected player.
THEOREM MapSendAlwaysSafe == Spec => []MapSendSafe
<1>1. TypeOK /\ IInv => MapSendSafe
  BY DEF IInv, Sound, MapSendSafe
<1> QED
  BY <1>1, AlwaysSound, PTL

\* Every connected player is listened to.
THEOREM AlwaysListening == Spec => []StillListening
<1>1. TypeOK /\ IInv => StillListening
  BY DEF IInv, Sound, StillListening
<1> QED
  BY <1>1, AlwaysSound, PTL

\* With a reactor, no receive handler ever runs on a deleted player.
THEOREM HandlersAlwaysOwned == ~DeferredAborts /\ Spec => []HandlersOwned
<1>1. ~DeferredAborts /\ TypeOK /\ IInv => HandlersOwned
  BY DEF IInv, Sound, HandlersOwned
<1>2. CASE ~DeferredAborts
  <2>1. TypeOK /\ IInv => HandlersOwned
    BY <1>1, <1>2
  <2> QED
    BY <2>1, AlwaysSound, PTL
<1>3. CASE DeferredAborts
  BY <1>3
<1> QED
  BY <1>2, <1>3

-----------------------------------------------------------------------------
(* Ids.                                                                    *)

\* What all steps but Join and PlayersStep leave alone, or the server is down.
LEMMA Kept ==
  ASSUME TypeOK, [Next]_vars, ~Join, ~PlayersStep, Up'
  PROVE  Up /\ UNCHANGED <<idVars, players>> /\ ubs \subseteq ubs'
<1>1. CASE BeginPoll \/ UNCHANGED vars
  BY <1>1 DEF BeginPoll, vars, idVars, Up
<1>2. CASE JoinFails \/ Destroy \/ DestroyDies
  BY <1>2 DEF JoinFails, Throw, Dies, Destroy, DestroyDies, Up
<1>3. ASSUME NEW p \in Player, PeerLeaves(p) \/ PacketArrives(p) \/ ReceiveFails(p)
      PROVE  Up /\ UNCHANGED <<idVars, players>> /\ ubs \subseteq ubs'
  BY <1>3 DEF PeerLeaves, PacketArrives, ReceiveFails
<1>4. ASSUME NEW p \in Player, Handler(p)
      PROVE  Up /\ UNCHANGED <<idVars, players>> /\ ubs \subseteq ubs'
  <2>1. proc = "poll"
    BY <1>4 DEF Handler, OnData, OnDataThrows, OnDataLate, OnError, OnErrorAsserts,
                OnErrorAgain, OnFreed
  <2>2. \/ \E F, D, r : GoesOn(F, D, r)
        \/ OnDataLate(p)
        \/ \E D, outer, M, t, r : DisconnectThrows(D, outer, M, t, r)
        \/ \E how \in {"assert", "crash"} : Dies(how)
        \/ Throw \/ OnErrorAgain(p)
    <3>1. CASE OnData(p)
      BY <3>1 DEF OnData
    <3>2. CASE OnError(p)
      BY <3>2 DEF OnError
    <3>3. CASE OnDataThrows(p) \/ OnDataLate(p) \/ OnErrorAsserts(p) \/ OnErrorAgain(p) \/ OnFreed(p)
      BY <3>3 DEF OnDataThrows, OnErrorAsserts, OnFreed
    <3> QED BY <1>4, <3>1, <3>2, <3>3 DEF Handler
  <2> QED BY <2>1, <2>2 DEF GoesOn, Iterated, OnDataLate, DisconnectThrows, Dies, Throw,
                            OnErrorAgain, Up
<1>5. ASSUME NEW p \in Player, MapTask(p)
      PROVE  Up /\ UNCHANGED <<idVars, players>> /\ ubs \subseteq ubs'
  <2>1. CASE MapChunk(p)
    BY <2>1 DEF MapChunk, Up
  <2>2. CASE MapSendAsserts(p)
    BY <2>2 DEF MapSendAsserts, Dies, Up
  <2>3. CASE MapFinal(p)
    <3>1. \/ \E F : ubs' = Iterated(F \ {p}) /\ UNCHANGED <<proc, idVars, players>>
          \/ Dies("crash")
          \/ \E F, M, t : DisconnectThrows(F, {}, M, t, recv)
      BY <2>3 DEF MapFinal
    <3> QED BY <2>3, <3>1 DEF MapFinal, Iterated, Dies, DisconnectThrows, Up
  <2> QED BY <1>5, <2>1, <2>2, <2>3 DEF MapTask
<1> QED BY <1>1, <1>2, <1>3, <1>4, <1>5 DEF Next

LEMMA JoinIds ==
  ASSUME TypeOK, IdsBookkept, Join
  PROVE  IdsBookkept'
<1> DEFINE p == joined + 1
<1>1. PICK i \in FreeIds : Enlist(p, i)
  BY DEF Join
<1>2. /\ p \in Player /\ p \notin players /\ players \subseteq Player /\ Up
      /\ id \in [Player -> Byte]
  BY SessionAssumption DEF Join, TypeOK, Player, Up
<1>3. players' = players \cup {p} /\ IDS' = IDS \cup {i} /\ ubs \subseteq ubs'
      /\ (i > LastSigned => "index" \in ubs')
  BY <1>1 DEF Enlist
<1>4. \A q \in Player : id'[q] = IF q = p THEN i ELSE id[q]
  BY <1>1, <1>2 DEF Enlist
<1>5. ASSUME "index" \notin ubs' PROVE i \notin IDS
  <2>1. ~(i > LastSigned)
    BY <1>3, <1>5
  <2>2. (0..LastSigned) \ IDS # {}
    BY <2>1, SessionAssumption DEF FreeIds
  <2> QED BY <2>2 DEF FreeIds
<1> SUFFICES ASSUME Up', ubs' \cap {"freed", "index"} = {}
             PROVE  /\ IDS' = {id'[q] : q \in players'}
                    /\ \A q, r \in players' : id'[q] = id'[r] => q = r
  BY DEF IdsBookkept, Up
<1>6. /\ IDS = {id[q] : q \in players}
      /\ \A q, r \in players : id[q] = id[r] => q = r
  BY <1>2, <1>3 DEF IdsBookkept
<1>7. i \notin IDS
  BY <1>5
<1>8. \A q \in players : id'[q] = id[q] /\ id[q] # i
  BY <1>2, <1>4, <1>6, <1>7
<1>9. id'[p] = i
  BY <1>2, <1>4
<1> QED BY <1>3, <1>6, <1>8, <1>9

LEMMA ReapIds ==
  ASSUME TypeOK, IdsBookkept, PlayersStep
  PROVE  IdsBookkept'
<1> SUFFICES ASSUME Up', ubs' \cap {"freed", "index"} = {}
             PROVE  /\ IDS' = {id'[q] : q \in players'}
                    /\ \A q, r \in players' : id'[q] = id'[r] => q = r
  BY DEF IdsBookkept, Up
<1>1. PICK done \in SUBSET players, read \in [Reaped -> Byte] :
         /\ players' = players \ done
         /\ done \subseteq Reaped
         /\ IDS' = IDS \ {read[p] : p \in done}
         /\ ubs \subseteq ubs'
         /\ (\E p \in done : read[p] # id[p]) => "freed" \in ubs'
  BY DEF PlayersStep, Reap, Reaped
<1>2. Up /\ id' = id
  BY DEF PlayersStep, Up
<1>3. /\ IDS = {id[q] : q \in players}
      /\ \A q, r \in players : id[q] = id[r] => q = r
  BY <1>1, <1>2 DEF IdsBookkept
<1>4. \A p \in done : read[p] = id[p]
  BY <1>1
<1>5. \A x : x \in IDS' <=> x \in IDS /\ ~\E p \in done : x = id[p]
  BY <1>1, <1>4
<1>6. IDS' = {id[q] : q \in players \ done}
  BY <1>1, <1>3, <1>5
<1> QED BY <1>1, <1>2, <1>3, <1>6

LEMMA IdsStep == TypeOK /\ IdsBookkept /\ [Next]_vars => IdsBookkept'
<1> SUFFICES ASSUME TypeOK, IdsBookkept, [Next]_vars PROVE IdsBookkept'
  OBVIOUS
<1>1. CASE ~Join /\ ~PlayersStep /\ Up'
  <2>1. Up /\ UNCHANGED <<IDS, id, players>> /\ ubs \subseteq ubs'
    BY <1>1, Kept DEF idVars
  <2> QED BY <2>1 DEF IdsBookkept
<1>2. CASE ~Up'
  BY <1>2 DEF IdsBookkept
<1> QED BY <1>1, <1>2, JoinIds, ReapIds

\* For any number of players and any order of joins, failures and deletions,
\* Players::IDS holds the ids of the listed players and no two share one, unless
\* an id was read out of freed memory or past the bitset.
THEOREM IdsAlwaysBookkept == Spec => []IdsBookkept
<1>1. Init => IdsBookkept
  BY DEF Init, IdsBookkept
<1> QED BY <1>1, IdsStep, TypeCorrect, PTL DEF Spec

-----------------------------------------------------------------------------
(* What clients show.                                                      *)

\* The members of M show each other, and else only who left unseen.
Exact(M, v, i) ==
    \A p \in M :
        /\ \A q \in M : q # p => i[q] \in v[p]
        /\ \A x \in v[p] : \/ \E q \in M : q # p /\ x = i[q]
                           \/ \E q \in 1..joined : q \notin visible /\ x = i[q]

LEMMA ExactViews == ViewsExact <=> (Up /\ ubs = {} => Exact(members, view, id))
BY DEF ViewsExact, Exact

\* In a sound state without undefined behaviour ids tell players apart.
LEMMA IdsTell ==
  ASSUME TypeOK, Sound, IdsBookkept, Up, ubs = {}
  PROVE  /\ members \subseteq players /\ players \subseteq Player /\ members \subseteq 1..joined
         /\ \A p, q \in players : id[p] = id[q] => p = q
BY SessionAssumption DEF Sound, IdsBookkept, TypeOK, Player

\* The players D leave and are unspawned at all the others.
LEMMA LeaveExact ==
  ASSUME NEW M \in SUBSET players, M \subseteq 1..joined, NEW v, NEW w, NEW D \in SUBSET M,
         \A p, q \in players : id[p] = id[q] => p = q,
         Exact(M, v, id),
         \A p \in M \ D : w[p] = v[p] \ {id[d] : d \in D \cap visible}
  PROVE  Exact(M \ D, w, id)
<1> SUFFICES ASSUME NEW p \in M \ D
             PROVE  /\ \A q \in M \ D : q # p => id[q] \in w[p]
                    /\ \A x \in w[p] : \/ \E q \in M \ D : q # p /\ x = id[q]
                                       \/ \E q \in 1..joined : q \notin visible /\ x = id[q]
  BY DEF Exact
<1>1. /\ \A q \in M : q # p => id[q] \in v[p]
      /\ \A x \in v[p] : \/ \E q \in M : q # p /\ x = id[q]
                         \/ \E q \in 1..joined : q \notin visible /\ x = id[q]
  BY DEF Exact
<1>2. \A x : x \in w[p] <=> x \in v[p] /\ ~\E d \in D \cap visible : x = id[d]
  OBVIOUS
<1>3. ASSUME NEW q \in M \ D, q # p PROVE id[q] \in w[p]
  <2>1. ~\E d \in D \cap visible : id[q] = id[d]
    OBVIOUS
  <2> QED BY <1>1, <1>2, <1>3, <2>1
<1>4. ASSUME NEW x \in w[p]
      PROVE  \/ \E q \in M \ D : q # p /\ x = id[q]
             \/ \E q \in 1..joined : q \notin visible /\ x = id[q]
  <2>1. x \in v[p] /\ ~\E d \in D \cap visible : x = id[d]
    BY <1>2
  <2>2. CASE \E q \in M : q # p /\ x = id[q]
    <3>1. PICK q \in M : q # p /\ x = id[q]
      BY <2>2
    <3>2. CASE q \in D
      BY <2>1, <3>1, <3>2
    <3> QED BY <3>1, <3>2
  <2> QED BY <1>1, <2>1, <2>2
<1> QED BY <1>3, <1>4

\* A handler that goes on without undefined behaviour.
LEMMA GoesOnExact ==
  ASSUME TypeOK, Sound, IdsBookkept, ViewsExact, Up, ubs' = {},
         NEW F, NEW D \in SUBSET members, NEW r, GoesOn(F, D, r)
  PROVE  ViewsExact'
<1>1. F = {} /\ ubs = {}
  BY DEF GoesOn, Iterated
<1>2. PICK missed \in SUBSET Skippable(F, D, members) :
         view' = Views(members, D, {}, {}, missed)
  BY DEF GoesOn
<1>3. missed = {}
  BY <1>1, <1>2 DEF Skippable
<1>4. members' = members \ D /\ id' = id /\ joined' = joined /\ visible' = visible
  BY DEF GoesOn, Disconnect, idVars
<1>5. \A p \in members \ D : view'[p] = view[p] \ {id[d] : d \in D \cap visible}
  <2>1. members \subseteq Player
    BY SessionAssumption DEF TypeOK, Player
  <2>2. \A p \in members \ D : view'[p] = (view[p] \cup {}) \ {id[d] : d \in {e \in D \cap visible : TRUE}}
    BY <1>2, <1>3, <2>1 DEF Views
  <2> QED BY <2>2
<1>6. Exact(members, view, id)
  BY <1>1, ExactViews
<1>7. Exact(members \ D, view', id)
  BY <1>1, <1>5, <1>6, IdsTell, LeaveExact
<1>8. Exact(members, view, id)'
  BY <1>4, <1>7 DEF Exact
<1> QED BY <1>8 DEF ViewsExact, Exact

LEMMA MapFinalExact ==
  ASSUME TypeOK, Sound, IdsBookkept, ViewsExact, Up, Up', ubs' = {},
         NEW p \in Player, MapFinal(p)
  PROVE  ViewsExact'
<1> DEFINE M == members \cup {p}
           R == Others(p)
           t == mapTask \ {p}
<1>1. PICK F \in FailSets(M, R \cup {p}) :
         /\ Disconnect(F, M, t, recv)
         /\ ubs' = Iterated(F \ {p})
         /\ \E told \in IF F \ {p} = {} THEN {R} ELSE SUBSET (R \ F),
               missed \in SUBSET Skippable(F \ {p}, F, M) :
               view' = [Views(M, F, told, {id[p]}, missed) EXCEPT
                          ![p] = IF p \in F THEN @ ELSE {id[q] : q \in R \ F}]
         /\ UNCHANGED <<proc, idVars, players, peerVars>>
  BY DEF MapFinal, Dies, DisconnectThrows, Up
<1>2. F \ {p} = {} /\ ubs = {}
  BY <1>1 DEF Iterated
<1>3. view' = [Views(M, F, R, {id[p]}, {}) EXCEPT ![p] = IF p \in F THEN @ ELSE {id[q] : q \in R \ F}]
  BY <1>1, <1>2 DEF Skippable
<1>4. /\ p \in players /\ p \notin members /\ members \subseteq Player /\ players \subseteq Player
      /\ members \subseteq players /\ members \subseteq 1..joined /\ p \in 1..joined
      /\ \A q, r \in players : id[q] = id[r] => q = r
  <2>1. p \in world /\ p \notin members /\ p \in players
    BY DEF MapFinal, Sound
  <2> QED BY <1>2, <2>1, IdsTell DEF TypeOK
<1>5. R = members
  BY <1>4 DEF Others
<1>6. Exact(members, view, id)
  BY <1>2, ExactViews
<1>7. members' = M \ F /\ id' = id /\ joined' = joined /\ visible' = visible
  BY <1>1 DEF Disconnect, idVars
<1> DEFINE v == [q \in Player |-> IF q = p THEN {id[r] : r \in members} ELSE view[q] \cup {id[p]}]
<1>8. Exact(M, v, id)
  <2> SUFFICES ASSUME NEW q \in M
               PROVE  /\ \A r \in M : r # q => id[r] \in v[q]
                      /\ \A x \in v[q] : \/ \E r \in M : r # q /\ x = id[r]
                                         \/ \E r \in 1..joined : r \notin visible /\ x = id[r]
    BY DEF Exact
  <2>1. CASE q = p
    <3>1. v[q] = {id[r] : r \in members}
      BY <2>1
    <3> QED BY <1>4, <2>1, <3>1
  <2>2. CASE q # p
    <3>1. q \in members /\ v[q] = view[q] \cup {id[p]}
      BY <1>4, <2>2
    <3>2. /\ \A r \in members : r # q => id[r] \in view[q]
          /\ \A x \in view[q] : \/ \E r \in members : r # q /\ x = id[r]
                                \/ \E r \in 1..joined : r \notin visible /\ x = id[r]
      BY <1>6, <3>1 DEF Exact
    <3> QED BY <2>2, <3>1, <3>2
  <2> QED BY <2>1, <2>2
<1>9. F \subseteq {p} /\ F \subseteq M
  BY <1>1, <1>2 DEF FailSets
<1>10. \A q \in M \ F : view'[q] = v[q] \ {id[d] : d \in F \cap visible}
  <2> SUFFICES ASSUME NEW q \in M \ F
               PROVE  view'[q] = v[q] \ {id[d] : d \in F \cap visible}
    OBVIOUS
  <2>1. CASE q = p
    <3>1. F = {} /\ view'[p] = {id[r] : r \in R}
      BY <1>3, <1>9, <2>1 DEF Views
    <3> QED BY <1>5, <2>1, <3>1
  <2>2. CASE q # p
    <3>1. q \in members /\ q \in R /\ q \in Player
      BY <1>4, <1>5, <2>2
    <3>2. view'[q] = (view[q] \cup {id[p]}) \ {id[d] : d \in {e \in F \cap visible : TRUE}}
      BY <1>3, <2>2, <3>1 DEF Views
    <3> QED BY <2>2, <3>1, <3>2
  <2> QED BY <2>1, <2>2
<1>11. M \subseteq players /\ M \subseteq 1..joined
  BY <1>4
<1> HIDE DEF M, v
<1>12. Exact(M \ F, view', id)
  BY <1>4, <1>8, <1>9, <1>10, <1>11, LeaveExact
<1>13. Exact(members, view, id)'
  BY <1>7, <1>12 DEF Exact
<1> QED BY <1>13 DEF ViewsExact, Exact

LEMMA JoinExact ==
  ASSUME TypeOK, ViewsExact, Join
  PROVE  ViewsExact'
<1> SUFFICES ASSUME ubs' = {} PROVE Exact(members, view, id)'
  BY DEF ViewsExact, Exact
<1> DEFINE n == joined + 1
<1>1. /\ members' = members /\ view' = view /\ joined' = n /\ Up /\ ubs = {}
      /\ \E i : id' = [id EXCEPT ![n] = i]
      /\ visible' \subseteq visible \cup {n} /\ visible \subseteq visible'
  BY DEF Join, Enlist, Construct, Up
<1>2. members \subseteq 1..joined /\ joined \in Nat /\ n \in Player
  BY SessionAssumption DEF TypeOK, Join, Player
<1>3. \A q \in 1..joined : id'[q] = id[q] /\ q \in 1..n /\ (q \in visible' <=> q \in visible)
  BY <1>1, <1>2 DEF TypeOK
<1>4. Exact(members, view, id)
  BY <1>1, ExactViews
<1> QED BY <1>1, <1>2, <1>3, <1>4 DEF Exact

\* Steps that tell no client anything.
LEMMA QuietExact ==
  ASSUME ViewsExact, Up' => Up, ubs \subseteq ubs',
         UNCHANGED <<members, view, joined, visible, id>>
  PROVE  ViewsExact'
BY DEF ViewsExact

LEMMA ViewsStep ==
  TypeOK /\ IInv /\ IdsBookkept /\ ViewsExact /\ [Next]_vars => ViewsExact'
<1> SUFFICES ASSUME TypeOK, IInv, IdsBookkept, ViewsExact, [Next]_vars, Up', ubs' = {}
             PROVE  ViewsExact'
  BY DEF ViewsExact, Up
<1>1. CASE Join
  BY <1>1, JoinExact
<1>2. CASE PlayersStep
  <2>1. Up /\ ubs \subseteq ubs' /\ UNCHANGED <<members, view, joined, visible, id>>
    BY <1>2 DEF PlayersStep, Reap, Up
  <2> QED BY <2>1, QuietExact
<1>3. CASE ~Join /\ ~PlayersStep
  <2>1. Up /\ UNCHANGED <<joined, visible, id>> /\ ubs \subseteq ubs'
    BY <1>3, Kept DEF idVars
  <2>2. Sound
    BY <2>1 DEF IInv
  <2>3. CASE UNCHANGED <<members, view>>
    BY <2>1, <2>3, QuietExact
  <2>4. ASSUME NEW p \in Player, OnData(p) PROVE ViewsExact'
    <3>1. PICK R \in Audiences(p) :
             \E F \in FailSets(members, R) : GoesOn(F, F, [recv EXCEPT ![p] = "armed"])
      BY <2>4 DEF OnData, Dies, DisconnectThrows, Up
    <3>2. PICK F \in FailSets(members, R) : GoesOn(F, F, [recv EXCEPT ![p] = "armed"])
      BY <3>1
    <3>3. F \subseteq members
      BY <3>2 DEF FailSets
    <3> QED BY <2>1, <2>2, <3>2, <3>3, GoesOnExact
  <2>5. ASSUME NEW p \in Player, OnError(p) PROVE ViewsExact'
    <3>1. PICK F \in FailSets(members \ {p}, IF p \in visible THEN members \ {p} ELSE {}) :
             GoesOn(F, F \cup {p}, [recv EXCEPT ![p] = "none"])
      BY <2>5 DEF OnError, Dies, DisconnectThrows, Up
    <3>2. F \cup {p} \subseteq members
      BY <2>5, <3>1 DEF FailSets, OnError
    <3> QED BY <2>1, <2>2, <3>1, <3>2, GoesOnExact
  <2>6. ASSUME NEW p \in Player, MapFinal(p) PROVE ViewsExact'
    BY <2>1, <2>2, <2>6, MapFinalExact
  <2>7. ASSUME NEW p \in Player,
               \/ PeerLeaves(p) \/ PacketArrives(p) \/ ReceiveFails(p)
               \/ OnDataLate(p) \/ MapChunk(p)
        PROVE  UNCHANGED <<members, view>>
    BY <2>7 DEF PeerLeaves, PacketArrives, ReceiveFails, OnDataLate, MapChunk
  <2>8. CASE BeginPoll \/ UNCHANGED vars
    BY <2>3, <2>8 DEF BeginPoll, vars
  <2>9. CASE JoinFails \/ Destroy \/ DestroyDies
    BY <2>9 DEF JoinFails, Throw, Dies, Destroy, DestroyDies, Up
  <2>10. ASSUME NEW p \in Player, Handler(p) PROVE ViewsExact'
    <3>1. ~(OnDataThrows(p) \/ OnErrorAsserts(p) \/ OnErrorAgain(p) \/ OnFreed(p))
      BY DEF OnDataThrows, OnErrorAsserts, OnErrorAgain, OnFreed, Throw, Dies, Up
    <3> QED BY <2>3, <2>4, <2>5, <2>7, <2>10, <3>1 DEF Handler
  <2>11. ASSUME NEW p \in Player, MapTask(p) PROVE ViewsExact'
    <3>1. ~MapSendAsserts(p)
      BY DEF MapSendAsserts, Dies, Up
    <3> QED BY <2>3, <2>6, <2>7, <2>11, <3>1 DEF MapTask
  <2>12. ASSUME NEW p \in Player, PeerLeaves(p) \/ PacketArrives(p) \/ ReceiveFails(p)
         PROVE  ViewsExact'
    BY <2>3, <2>7, <2>12
  <2> QED BY <1>3, <2>8, <2>9, <2>10, <2>11, <2>12 DEF Next
<1> QED BY <1>1, <1>2, <1>3

\* Every client in the world shows everybody else in it, and otherwise only
\* players that left unannounced, until undefined behaviour is met: a send that
\* fails inside a broadcast is that already, because the loop goes on over an
\* iterator that was erased, so of what follows such a send nothing is said.
THEOREM ViewsAlwaysExact == Spec => []ViewsExact
<1>1. Init => IdsBookkept /\ ViewsExact
  BY DEF Init, IdsBookkept, ViewsExact
<1> QED BY <1>1, IdsStep, ViewsStep, AlwaysSound, PTL DEF Spec

-----------------------------------------------------------------------------
(* PlayerSession implements PlayerLifecycle.                               *)

StageOf(p, j, l, d, m) ==
    IF p > j THEN "absent"
    ELSE IF p \notin l THEN "deleted"
    ELSE IF d[p] # "no" THEN "left"
    ELSE IF p \in m THEN "playing"
    ELSE "loading"

LEMMA StageIs ==
  /\ Stage = [p \in Player |-> StageOf(p, joined, players, disc, members)]
  /\ Stage' = [p \in Player |-> StageOf(p, joined', players', disc', members')]
BY DEF Stage, StageOf

LEMMA StageTypes ==
  /\ Stage \in [1..MaxJoin -> Life!Stages] /\ Stage' \in [1..MaxJoin -> Life!Stages]
  /\ DOMAIN Stage = Player /\ DOMAIN Stage' = Player
BY StageIs DEF StageOf, Life!Stages, Player

LEMMA StageSame ==
  ASSUME UNCHANGED <<joined, players, disc, members>>
  PROVE  Stage' = Stage
BY StageIs

\* The server goes down with the players it had, some of them disconnected or
\* deleted.
LEMMA GoesDown ==
  ASSUME ~Up', joined' = joined, players' \subseteq players,
         \A p \in Player : disc[p] # "no" => disc'[p] # "no",
         \A p \in Player : p \in players \ players' => players' = {} \/ disc[p] # "no",
         \A p \in members' : p \in members \/ (p \in Player /\ Stage[p] \in {"playing", "loading"})
  PROVE  Life!Down
<1>1. ASSUME NEW p \in Player
      PROVE  /\ Stage[p] \in {"absent", "deleted"} => Stage'[p] = Stage[p]
             /\ Stage[p] = "left" => Stage'[p] \in {"left", "deleted"}
             /\ Stage'[p] = "absent" => Stage[p] = "absent"
  BY StageIs DEF StageOf
<1>2. Up' = FALSE
  BY DEF Up
<1>3. members' \subseteq {p \in 1..MaxJoin : Stage[p] \in {"playing", "loading"}} \cup members
  BY DEF Player
<1> QED BY <1>1, <1>2, <1>3, StageTypes DEF Life!Down, Player

LEMMA DiesDown ==
  ASSUME NEW how \in {"assert", "crash"}, Dies(how)
  PROVE  Life!Down
<1>1. ~Up' /\ UNCHANGED <<joined, players, disc, members>>
  BY DEF Dies, Cleared, Up
<1> QED BY <1>1, GoesDown

LEMMA ThrowDown ==
  ASSUME Throw
  PROVE  Life!Down
<1>1. ~Up' /\ UNCHANGED <<joined, players, disc, members>>
  BY DEF Throw, Up, idVars
<1> QED BY <1>1, GoesDown

LEMMA DisconnectThrowsDown ==
  ASSUME TypeOK, NEW D, NEW M, NEW outer, NEW t, NEW r, DisconnectThrows(D, outer, M, t, r),
         D \subseteq M, \A p \in M : p \in members \/ (p \in Player /\ Stage[p] \in {"playing", "loading"})
  PROVE  Life!Down
<1>1. PICK x \in D, S \in SUBSET D :
         /\ members' = (M \ D) \cup S
         /\ disc' = [q \in Player |-> IF q \in S \cup {x} THEN "maybe"
                                      ELSE IF q \in D THEN "yes" ELSE disc[q]]
  BY DEF DisconnectThrows
<1>2. ~Up' /\ UNCHANGED <<joined, players>>
  BY DEF DisconnectThrows, Up, idVars
<1>3. members' \subseteq M
  BY <1>1
<1>4. \A p \in Player : disc[p] # "no" => disc'[p] # "no"
  BY <1>1
<1> QED BY <1>2, <1>3, <1>4, GoesDown

\* Disconnecting players of the world, D among them.
LEMMA DisconnectMayLeave ==
  ASSUME TypeOK, Sound, NEW M, NEW D, NEW t, NEW r, Disconnect(D, M, t, r),
         D \subseteq M, M \subseteq world, members \subseteq M,
         UNCHANGED <<joined, players>>
  PROVE  /\ \A q \in Player : Stage'[q] = IF q \in D THEN "left"
                                          ELSE IF q \in M THEN "playing" ELSE Stage[q]
         /\ \A q \in members : Stage[q] = "playing"
         /\ members' = Life!Playing(Stage')
<1>1. /\ members' = M \ D
      /\ \A q \in Player : disc'[q] = IF q \in D THEN "yes" ELSE disc[q]
  BY DEF Disconnect
<1>2. world = {p \in players : disc[p] = "no"} /\ players \subseteq 1..joined /\ joined \in 0..MaxJoin
      /\ players \subseteq Player
  BY SessionAssumption DEF Sound, TypeOK, Player
<1>3. \A q \in M : q \in players /\ disc[q] = "no" /\ ~(q > joined) /\ q \in Player
  BY <1>2, SessionAssumption
<1>4. \A q \in members : Stage[q] = "playing"
  BY <1>3, StageIs DEF StageOf
<1>5. ASSUME NEW q \in Player
      PROVE  Stage'[q] = IF q \in D THEN "left" ELSE IF q \in M THEN "playing" ELSE Stage[q]
  <2>1. Stage'[q] = StageOf(q, joined, players, disc', M \ D)
    BY <1>1, StageIs
  <2>2. Stage[q] = StageOf(q, joined, players, disc, members)
    BY StageIs
  <2> QED BY <1>1, <1>3, <2>1, <2>2 DEF StageOf
<1>6. \A q \in Player : q \in M \ D <=> Stage'[q] = "playing"
  <2> SUFFICES ASSUME NEW q \in Player, q \notin M PROVE Stage[q] # "playing"
    BY <1>5
  <2> QED BY StageIs DEF StageOf
<1>7. M \ D \subseteq Player
  BY <1>3
<1>8. members' = Life!Playing(Stage')
  BY <1>1, <1>6, <1>7 DEF Life!Playing, Player
<1> QED BY <1>4, <1>5, <1>8

LEMMA GoesOnLeaves ==
  ASSUME TypeOK, Sound, Up, NEW F, NEW D \in SUBSET members, NEW r, GoesOn(F, D, r)
  PROVE  Life!Leave
<1>1. Disconnect(D, members, mapTask, r) /\ UNCHANGED <<proc, joined, players>>
      /\ members \subseteq world
  BY DEF GoesOn, idVars, Sound
<1>2. /\ \A q \in Player : Stage'[q] = IF q \in D THEN "left"
                                       ELSE IF q \in members THEN "playing" ELSE Stage[q]
      /\ \A q \in members : Stage[q] = "playing"
      /\ members' = Life!Playing(Stage')
  BY <1>1, DisconnectMayLeave
<1>3. Life!MayLeave(1..MaxJoin)
  BY <1>2 DEF Life!MayLeave, Player
<1>4. Up' = Up
  BY <1>1 DEF Up
<1> QED BY <1>2, <1>3, <1>4, StageTypes DEF Life!Leave

LEMMA MapFinalEnters ==
  ASSUME TypeOK, Sound, Up, NEW p \in Player, MapFinal(p)
  PROVE  Life!EnterWorld(p) \/ Life!Down
<1> DEFINE M == members \cup {p}
           t == mapTask \ {p}
<1>1. p \in mapTask /\ p \in world /\ p \notin members /\ p \in players /\ disc[p] = "no"
      /\ ~(p > joined)
  BY SessionAssumption DEF MapFinal, Sound, TypeOK, Player
<1>2. Stage[p] = "loading"
  BY <1>1, StageIs DEF StageOf
<1>3. PICK F \in SUBSET M :
         \/ Disconnect(F, M, t, recv) /\ UNCHANGED <<proc, joined, players>>
         \/ Dies("crash")
         \/ DisconnectThrows(F, {}, M, t, recv)
  BY DEF MapFinal, idVars, FailSets
<1>4. CASE Disconnect(F, M, t, recv) /\ UNCHANGED <<proc, joined, players>>
  <2>1. M \subseteq world /\ members \subseteq M
    BY <1>1 DEF Sound
  <2>2. /\ \A q \in Player : Stage'[q] = IF q \in F THEN "left"
                                         ELSE IF q \in M THEN "playing" ELSE Stage[q]
        /\ \A q \in members : Stage[q] = "playing"
        /\ members' = Life!Playing(Stage')
    BY <1>4, <2>1, DisconnectMayLeave
  <2>3. Life!MayLeave((1..MaxJoin) \ {p})
    BY <2>2 DEF Life!MayLeave, Player
  <2>4. Stage'[p] \in {"playing", "left"}
    BY <2>2
  <2>5. Up' = Up
    BY <1>4 DEF Up
  <2> QED BY <1>2, <2>2, <2>3, <2>4, <2>5, StageTypes DEF Life!EnterWorld
<1>5. CASE Dies("crash")
  BY <1>5, DiesDown
<1>6. CASE DisconnectThrows(F, {}, M, t, recv)
  <2>1. \A q \in M : q \in members \/ (q \in Player /\ Stage[q] \in {"playing", "loading"})
    BY <1>2
  <2> QED BY <1>6, <2>1, DisconnectThrowsDown
<1> QED BY <1>3, <1>4, <1>5, <1>6

LEMMA JoinConnects ==
  ASSUME TypeOK, Sound, Join
  PROVE  joined + 1 \in 1..MaxJoin /\ Life!Connect(joined + 1)
<1> DEFINE n == joined + 1
<1>1. /\ joined' = n /\ players' = players \cup {n} /\ UNCHANGED <<disc, members>>
      /\ Up /\ Up'
  BY DEF Join, Enlist, Up
<1>2. /\ n \in 1..MaxJoin /\ joined \in Nat /\ players \subseteq 1..joined
      /\ members \subseteq 1..joined /\ disc[n] = "no"
  BY SessionAssumption DEF TypeOK, Join, Sound, Unconstructed, Player
<1>3. ASSUME NEW q \in Player
      PROVE  /\ Stage'[q] = IF q = n THEN "loading" ELSE Stage[q]
             /\ q < n => Stage[q] # "absent"
             /\ q = n => Stage[q] = "absent"
  <2>1. Stage'[q] = StageOf(q, n, players \cup {n}, disc, members)
    BY <1>1, StageIs
  <2>2. Stage[q] = StageOf(q, joined, players, disc, members)
    BY StageIs
  <2>3. q \in Nat
    BY SessionAssumption DEF Player
  <2> QED BY <1>2, <2>1, <2>2, <2>3 DEF StageOf
<1>4. Stage' = [Stage EXCEPT ![n] = "loading"]
  BY <1>3, StageIs, StageTypes
<1>5. n \in Player /\ \A q \in 1..(n - 1) : q \in Player /\ q < n
  BY <1>2, SessionAssumption DEF Player
<1>6. Stage[n] = "absent" /\ \A q \in 1..(n - 1) : Stage[q] # "absent"
  BY <1>3, <1>5
<1> QED BY <1>1, <1>2, <1>4, <1>6 DEF Life!Connect, Up

LEMMA ReapDeletes ==
  ASSUME TypeOK, PlayersStep
  PROVE  Life!Delete \/ Life!Down
<1>1. PICK done \in SUBSET players :
         players' = players \ done /\ \A p \in done : disc[p] = "yes"
  BY DEF PlayersStep, Reap, Reaped
<1>2. Up /\ UNCHANGED <<joined, disc, members>>
  BY DEF PlayersStep, Up
<1>3. CASE ~Up'
  BY <1>1, <1>2, <1>3, GoesDown
<1>4. CASE Up'
  <2>1. ASSUME NEW q \in Player
        PROVE  Stage'[q] = Stage[q] \/ (Stage[q] = "left" /\ Stage'[q] = "deleted")
    <3>1. Stage'[q] = StageOf(q, joined, players \ done, disc, members)
      BY <1>1, <1>2, StageIs
    <3>2. Stage[q] = StageOf(q, joined, players, disc, members)
      BY StageIs
    <3> QED BY <1>1, <3>1, <3>2 DEF StageOf
  <2>2. Up' = Up
    BY <1>2, <1>4 DEF Up
  <2> QED BY <1>2, <2>1, <2>2, StageTypes DEF Life!Delete, Player
<1> QED BY <1>3, <1>4

LEMMA DestroyDown ==
  ASSUME Destroy
  PROVE  Life!Down
<1>1. ~Up' /\ joined' = joined /\ players' = {} /\ members' \subseteq members
  BY DEF Destroy, Cleared, Up
<1>2. \A p \in Player : disc[p] # "no" => disc'[p] # "no"
  BY DEF Destroy
<1> QED BY <1>1, <1>2, GoesDown

\* The handlers, map tasks, steps and the destruction of the players do what
\* the lifecycle allows and nothing else: nobody goes back a stage, and the
\* roster is who plays.
THEOREM LifecycleImplemented == Spec => ImplementsLifecycle
<1>1. Init => Life!Init
  BY SessionAssumption DEF Init, Life!Init, Stage, Player, Up
<1>2. TypeOK /\ IInv /\ [Next]_vars => [Life!Next]_<<Up, Stage, members>>
  <2> SUFFICES ASSUME TypeOK, IInv, [Next]_vars
               PROVE  Life!Next \/ UNCHANGED <<Up, Stage, members>>
    OBVIOUS
  <2>1. CASE BeginPoll \/ UNCHANGED vars
    BY <2>1, StageSame DEF BeginPoll, vars, idVars, Up
  <2>2. CASE Join
    <3>1. Sound
      BY <2>2 DEF Join, IInv, Up
    <3> QED BY <2>2, <3>1, JoinConnects DEF Life!Next
  <2>3. CASE JoinFails \/ DestroyDies
    BY <2>3, ThrowDown, DiesDown DEF JoinFails, DestroyDies, Life!Next
  <2>4. CASE PlayersStep
    BY <2>4, ReapDeletes DEF Life!Next
  <2>5. CASE Destroy
    BY <2>5, DestroyDown DEF Life!Next
  <2>6. ASSUME NEW p \in Player,
               \/ PeerLeaves(p) \/ PacketArrives(p) \/ ReceiveFails(p)
               \/ OnDataLate(p) \/ MapChunk(p)
        PROVE  UNCHANGED <<Up, Stage, members>>
    <3>1. UNCHANGED <<proc, joined, players, disc, members>>
      BY <2>6 DEF PeerLeaves, PacketArrives, ReceiveFails, OnDataLate, MapChunk, idVars
    <3> QED BY <3>1, StageSame DEF Up
  <2>7. ASSUME NEW p \in Player, Handler(p)
        PROVE  Life!Next \/ UNCHANGED <<Up, Stage, members>>
    <3>1. Sound /\ Up
      BY <2>7 DEF Handler, OnData, OnDataThrows, OnDataLate, OnError,
                  OnErrorAsserts, OnErrorAgain, OnFreed, IInv, Up
    <3>2. CASE \/ \E F \in SUBSET members, D \in SUBSET members : \E r : GoesOn(F, D, r)
               \/ \E D \in SUBSET members : \E outer, t, r : DisconnectThrows(D, outer, members, t, r)
               \/ \E how \in {"assert", "crash"} : Dies(how)
               \/ Throw
      BY <3>1, <3>2, GoesOnLeaves, DisconnectThrowsDown, DiesDown, ThrowDown DEF Life!Next
    <3>3. CASE OnData(p)
      <4>1. PICK R \in Audiences(p) : \E F \in FailSets(members, R) :
              \/ GoesOn(F, F, [recv EXCEPT ![p] = "armed"])
              \/ Dies("crash")
              \/ DisconnectThrows(F, {}, members, mapTask, [recv EXCEPT ![p] = "none"])
        BY <3>3 DEF OnData
      <4> QED BY <3>2, <4>1 DEF FailSets
    <3>4. CASE OnError(p)
      <4>1. PICK F \in FailSets(members \ {p}, IF p \in visible THEN members \ {p} ELSE {}) :
              \/ GoesOn(F, F \cup {p}, [recv EXCEPT ![p] = "none"])
              \/ DisconnectThrows(F \cup {p}, {p}, members, mapTask, [recv EXCEPT ![p] = "none"])
              \/ Dies("crash")
        BY <3>4 DEF OnError
      <4>2. F \subseteq members /\ F \cup {p} \subseteq members
        BY <3>4, <4>1 DEF FailSets, OnError
      <4> QED BY <3>2, <4>1, <4>2
    <3>5. CASE OnDataThrows(p) \/ OnErrorAsserts(p) \/ OnFreed(p)
      BY <3>2, <3>5 DEF OnDataThrows, OnErrorAsserts, OnFreed
    <3>6. CASE OnErrorAgain(p)
      <4>1. /\ ~Up' /\ UNCHANGED <<joined, players, members>>
            /\ \A q \in Player : disc[q] # "no" => disc'[q] # "no"
        BY <3>6 DEF OnErrorAgain, Up, idVars, TypeOK
      <4> QED BY <4>1, GoesDown DEF Life!Next
    <3> QED BY <2>6, <2>7, <3>3, <3>4, <3>5, <3>6 DEF Handler
  <2>8. ASSUME NEW p \in Player, MapTask(p)
        PROVE  Life!Next \/ UNCHANGED <<Up, Stage, members>>
    <3>1. Sound /\ Up
      BY <2>8 DEF MapTask, MapChunk, MapSendAsserts, MapFinal, IInv, Up
    <3>2. CASE MapFinal(p)
      BY <3>1, <3>2, MapFinalEnters DEF Life!Next, Player
    <3>3. CASE MapSendAsserts(p)
      BY <3>3, DiesDown DEF MapSendAsserts, Life!Next
    <3> QED BY <2>6, <2>8, <3>2, <3>3 DEF MapTask
  <2> QED BY <2>1, <2>2, <2>3, <2>4, <2>5, <2>6, <2>7, <2>8 DEF Next
<1> QED BY <1>1, <1>2, AlwaysSound, PTL DEF Spec, ImplementsLifecycle, Life!Spec

=============================================================================
