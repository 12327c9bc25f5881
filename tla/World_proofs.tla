------------------------------ MODULE World_proofs ------------------------------
(***************************************************************************)
(* What clients show, for any map size, positions, players and any number  *)
(* of movements; and what multiLine makes of messages, for any names,      *)
(* messages and width of a line.                                           *)
(***************************************************************************)
EXTENDS World, SequenceFacts

-----------------------------------------------------------------------------
(* Remainders.                                                             *)

\* x and y differ by a multiple of n.
Cong(x, y, n) == \E k \in Int : x - y = n * k

LEMMA Divides ==
    ASSUME NEW x \in Int, NEW n \in Nat \ {0}
    PROVE  /\ x % n \in 0..(n - 1)
           /\ \E k \in Int : x = n * k + (x % n)
<1>1. x \div n \in Int /\ x % n \in 0..(n - 1) /\ x = n * (x \div n) + (x % n)
  OBVIOUS
<1> QED BY <1>1

LEMMA Product ==
    ASSUME NEW a \in Int, NEW b \in Int, NEW n \in Int
    PROVE  /\ a * n \in Int /\ n * a = a * n
           /\ n * (a + b) = n * a + n * b
           /\ n * (a - b) = n * a - n * b
           /\ n * (-a) = -(n * a)
OBVIOUS

LEMMA CongRem ==
    ASSUME NEW x \in Int, NEW n \in Nat \ {0}
    PROVE  Cong(x % n, x, n)
<1>1. PICK k \in Int : x = n * k + (x % n)
  BY Divides
<1>2. (x % n) - x = n * (-k) /\ -k \in Int
  BY <1>1, Divides, Product
<1> QED BY <1>2 DEF Cong

LEMMA CongSum ==
    ASSUME NEW x \in Int, NEW y \in Int, NEW u \in Int, NEW v \in Int,
           NEW n \in Nat \ {0}, Cong(x, y, n), Cong(u, v, n)
    PROVE  Cong(x + u, y + v, n) /\ Cong(x - u, y - v, n) /\ Cong(y, x, n)
<1>1. PICK k \in Int : x - y = n * k
  BY DEF Cong
<1>2. PICK l \in Int : u - v = n * l
  BY DEF Cong
<1>3. n * (k + l) = n * k + n * l /\ n * (k - l) = n * k - n * l /\ n * (-k) = -(n * k)
  BY Product
<1>4. n * k \in Int /\ n * l \in Int
  OBVIOUS
<1>5. (x + u) - (y + v) = n * (k + l) /\ (x - u) - (y - v) = n * (k - l) /\ y - x = n * (-k)
  BY <1>1, <1>2, <1>3, <1>4
<1>6. k + l \in Int /\ k - l \in Int /\ -k \in Int
  OBVIOUS
<1>7. Cong(x + u, y + v, n)
  BY <1>5, <1>6 DEF Cong
<1>8. Cong(x - u, y - v, n)
  BY <1>5, <1>6 DEF Cong
<1>9. Cong(y, x, n)
  BY <1>5, <1>6 DEF Cong
<1> QED BY <1>7, <1>8, <1>9

LEMMA CongTrans ==
    ASSUME NEW x \in Int, NEW y \in Int, NEW z \in Int, NEW n \in Nat \ {0},
           Cong(x, y, n), Cong(y, z, n)
    PROVE  Cong(x, z, n)
<1>1. Cong(x + y, y + z, n)
  BY CongSum
<1>2. (x + y) - (y + z) = x - z
  OBVIOUS
<1> QED BY <1>1, <1>2 DEF Cong

\* The remainder is determined.
LEMMA RemUnique ==
    ASSUME NEW x \in Int, NEW n \in Nat \ {0}, NEW r \in 0..(n - 1), Cong(r, x, n)
    PROVE  x % n = r
<1>1. Cong(x % n, r, n)
  <2>1. Cong(x % n, x, n) /\ x % n \in Int
    BY CongRem, Divides
  <2>2. Cong(x, r, n)
    BY CongSum
  <2> QED BY <2>1, <2>2, CongTrans
<1> DEFINE q == x % n
<1>2. q \in 0..(n - 1)
  BY Divides
<1>3. PICK k \in Int : q - r = n * k
  BY <1>1 DEF Cong
<1> HIDE DEF q
<1>4. q - r < n /\ q - r > -n
  BY <1>2
<1>5. k = 0
  <2>1. CASE k >= 1
    <3>1. n * k >= n
      BY <2>1
    <3> QED BY <1>3, <1>4, <3>1
  <2>2. CASE k <= -1
    <3>1. n * k <= -n
      BY <2>2
    <3> QED BY <1>3, <1>4, <3>1
  <2> QED BY <2>1, <2>2
<1>6. n * k = 0
  BY <1>5
<1>7. q = r
  BY <1>2, <1>3, <1>6
<1> QED BY <1>7 DEF q

LEMMA CongZero ==
    ASSUME NEW x \in Int, NEW n \in Nat \ {0}
    PROVE  x % n = 0 <=> Cong(x, 0, n)
<1>1. ASSUME x % n = 0 PROVE Cong(x, 0, n)
  <2>1. Cong(x % n, x, n)
    BY CongRem
  <2>2. Cong(0, x, n)
    BY <1>1, <2>1
  <2> QED BY <2>2, CongSum
<1>2. ASSUME Cong(x, 0, n) PROVE x % n = 0
  <2>1. Cong(0, x, n)
    BY <1>2, CongSum
  <2>2. 0 \in 0..(n - 1)
    OBVIOUS
  <2> QED BY <2>1, <2>2, RemUnique
<1> QED BY <1>1, <1>2

\* Numbers that differ by a multiple of Wide differ by one of Narrow.
LEMMA CongNarrow ==
    ASSUME NEW x \in Int, NEW y \in Int, Cong(x, y, Wide)
    PROVE  Cong(x, y, Narrow)
<1>1. Wide \in Nat \ {0} /\ Narrow \in Nat \ {0} /\ Wide % Narrow = 0
  BY WorldAssumption
<1>2. PICK m \in Int : Wide = Narrow * m
  <2>1. Cong(Wide, 0, Narrow)
    BY <1>1, CongZero
  <2>2. PICK m \in Int : Wide - 0 = Narrow * m
    BY <2>1 DEF Cong
  <2> QED BY <1>1, <2>2
<1>3. PICK k \in Int : x - y = Wide * k
  BY DEF Cong
<1>4. Wide * k = Narrow * (m * k)
  BY <1>1, <1>2
<1> QED BY <1>3, <1>4 DEF Cong

-----------------------------------------------------------------------------
(* Offsets, and what a client makes of them.                               *)

LEMMA Sizes == Wide \in Nat \ {0} /\ Narrow \in Nat \ {0}
BY WorldAssumption

LEMMA RemInt ==
    ASSUME NEW x \in Int, NEW n \in Nat \ {0}
    PROVE  x % n \in Int /\ Cong(x % n, x, n)
<1>1. x % n \in 0..(n - 1)
  BY Divides
<1>2. x % n \in Int
  BY <1>1
<1> QED BY <1>2, CongRem

LEMMA OffsetInt ==
    ASSUME NEW x \in Int, NEW y \in Int
    PROVE  Offset(x, y) \in Int /\ Cong(Offset(x, y), x - y, Narrow)
<1> DEFINE byte == (x - y) % Narrow
<1>1. byte \in Int /\ Cong(byte, x - y, Narrow)
  <2> DEFINE z == x - y
  <2>1. z \in Int
    OBVIOUS
  <2> HIDE DEF z
  <2>2. z % Narrow \in Int /\ Cong(z % Narrow, z, Narrow)
    BY <2>1, RemInt, Sizes
  <2> QED BY <2>2 DEF z
<1>2. Offset(x, y) = IF byte < Narrow \div 2 THEN byte ELSE byte - Narrow
  BY DEF Offset
<1> HIDE DEF byte
<1>3. byte - Narrow \in Int /\ Narrow \in Int
  BY <1>1, Sizes
<1>4. Cong(byte - Narrow, byte, Narrow)
  <2>1. (byte - Narrow) - byte = Narrow * (-1)
    BY <1>1, <1>3
  <2> QED BY <2>1 DEF Cong
<1>5. Cong(byte - Narrow, x - y, Narrow)
  <2>1. x - y \in Int
    OBVIOUS
  <2> QED BY <1>1, <1>3, <1>4, <2>1, CongTrans, Sizes
<1> QED BY <1>1, <1>2, <1>3, <1>5

\* An offset keeps the distance up to a multiple of Narrow.
LEMMA OffsetKeeps ==
    ASSUME NEW old \in Int, NEW new \in Int, NEW s \in Int, NEW n \in {Narrow, Wide},
           Cong(old, s, n), Cong(Offset(new, old), new - old, n)
    PROVE  Cong(new, (s + Offset(new, old)) % Wide, n)
<1> DEFINE off == Offset(new, old)
<1>1. off \in Int
  BY OffsetInt
<1> HIDE DEF off
<1>2. s + off \in Int /\ n \in Nat \ {0} /\ new - old \in Int
  BY <1>1, Sizes
<1>3. (s + off) % Wide \in Int /\ Cong((s + off) % Wide, s + off, Wide)
  <2> DEFINE z == s + off
  <2>1. z \in Int
    BY <1>2
  <2> HIDE DEF z
  <2>2. z % Wide \in Int /\ Cong(z % Wide, z, Wide)
    BY <2>1, RemInt, Sizes
  <2> QED BY <2>2 DEF z
<1>4. Cong((s + off) % Wide, s + off, n)
  BY <1>2, <1>3, CongNarrow
<1>5. Cong(s + off, old + (new - old), n)
  <2>1. Cong(s, old, n)
    BY <1>2, CongSum
  <2>2. Cong(off, new - old, n)
    BY DEF off
  <2> QED BY <1>1, <1>2, <2>1, <2>2, CongSum
<1>6. old + (new - old) = new
  OBVIOUS
<1>7. Cong((s + off) % Wide, new, n)
  BY <1>2, <1>3, <1>4, <1>5, <1>6, CongTrans
<1>8. Cong(new, (s + off) % Wide, n)
  BY <1>2, <1>3, <1>7, CongSum
<1> QED BY <1>8 DEF off

\* A step that fits a signed byte is told exactly.
LEMMA OffsetExact ==
    ASSUME NEW old \in Int, NEW new \in Int,
           (new - old) % Wide < Narrow \div 2 \/ (new - old) % Wide >= Wide - Narrow \div 2
    PROVE  Cong(Offset(new, old), new - old, Wide)
<1> DEFINE x == new - old
           step == x % Wide
           half == Narrow \div 2
<1>1. x \in Int /\ step \in 0..(Wide - 1) /\ Cong(step, x, Wide)
  <2>1. x \in Int
    OBVIOUS
  <2> QED BY <2>1, Divides, CongRem, Sizes
<1>2. half \in Nat /\ 2 * half = Narrow /\ half < Narrow
  BY WorldAssumption
<1>3. Offset(new, old) = IF x % Narrow < half THEN x % Narrow ELSE (x % Narrow) - Narrow
  BY DEF Offset
<1>4. step < half \/ step >= Wide - half
  OBVIOUS
<1> HIDE DEF x, step, half
<1>5. CASE step < half
  <2>1. step \in 0..(Narrow - 1)
    BY <1>1, <1>2, <1>5, Sizes
  <2>2. Cong(step, x, Narrow)
    BY <1>1, CongNarrow
  <2>3. x % Narrow = step
    BY <1>1, <2>1, <2>2, RemUnique, Sizes
  <2> QED BY <1>1, <1>3, <1>5, <2>3 DEF x
<1>6. CASE step >= Wide - half
  <2> DEFINE low == step - Wide
  <2>1. low \in Int /\ low + Narrow \in half..(Narrow - 1)
    BY <1>1, <1>2, <1>6, Sizes
  <2>2. Cong(low, step, Wide)
    <3>1. low - step = Wide * (-1)
      BY <1>1, Sizes
    <3> QED BY <3>1 DEF Cong
  <2>3. step \in Int
    BY <1>1, Sizes
  <2> HIDE DEF low
  <2>4. Cong(low, x, Wide)
    BY <1>1, <2>1, <2>2, <2>3, CongTrans, Sizes
  <2>5. Cong(low, x, Narrow)
    BY <1>1, <2>1, <2>4, CongNarrow
  <2>6. Cong(low + Narrow, low, Narrow)
    <3>1. (low + Narrow) - low = Narrow * 1
      BY <2>1, Sizes
    <3> QED BY <3>1 DEF Cong
  <2>7. low + Narrow \in Int /\ low + Narrow \in 0..(Narrow - 1)
    BY <1>2, <2>1, Sizes
  <2>8. Cong(low + Narrow, x, Narrow)
    BY <1>1, <2>1, <2>5, <2>6, <2>7, CongTrans, Sizes
  <2>9. x % Narrow = low + Narrow
    BY <1>1, <2>7, <2>8, RemUnique, Sizes
  <2>10. Offset(new, old) = low
    BY <1>2, <1>3, <2>1, <2>9, Sizes
  <2> QED BY <2>4, <2>10 DEF x
<1> QED BY <1>4, <1>5, <1>6

Facing(s, o) == (s.h = o.h /\ s.p = o.p) \/ (s.h = o.p /\ s.p = o.h)

\* What a client shows after the packet about a move from old to new.
LEMMA AppliedUpdate ==
    ASSUME NEW old \in Position, NEW new \in Position, NEW s \in Position
    PROVE  /\ Applied(Update(old, new), s) \in Position
           /\ \A a \in Axes : Applied(Update(old, new), s).at[a]
                               = (s.at[a] + Offset(new.at[a], old.at[a])) % Wide
           /\ Facing(s, old) => Facing(Applied(Update(old, new), s), new)
<1> DEFINE off == [a \in Axes |-> Offset(new.at[a], old.at[a])]
           moved == \E a \in Axes : off[a] # 0
           turned == new.h # old.h \/ new.p # old.p
           there == [a \in Axes |-> (s.at[a] + off[a]) % Wide]
           r == Applied(Update(old, new), s)
<1>1. \A a \in Axes : s.at[a] \in 0..(Wide - 1) /\ off[a] \in Int
  <2> SUFFICES ASSUME NEW a \in Axes PROVE s.at[a] \in 0..(Wide - 1) /\ off[a] \in Int
    OBVIOUS
  <2>1. s.at[a] \in 0..(Wide - 1) /\ old.at[a] \in 0..(Wide - 1) /\ new.at[a] \in 0..(Wide - 1)
    BY DEF Position, Coordinates
  <2>2. old.at[a] \in Int /\ new.at[a] \in Int
    BY <2>1, Sizes
  <2> QED BY <2>1, <2>2, OffsetInt
<1>2. there \in Coordinates
  <2>1. ASSUME NEW a \in Axes PROVE (s.at[a] + off[a]) % Wide \in 0..(Wide - 1)
    <3> DEFINE z == s.at[a] + off[a]
    <3>1. z \in Int
      BY <1>1, Sizes
    <3> HIDE DEF z
    <3>2. z % Wide \in 0..(Wide - 1)
      BY <3>1, Divides, Sizes
    <3> QED BY <3>2 DEF z
  <2> QED BY <2>1 DEF Coordinates
<1>3. ~moved => \A a \in Axes : (s.at[a] + off[a]) % Wide = s.at[a]
  <2> SUFFICES ASSUME ~moved, NEW a \in Axes PROVE (s.at[a] + off[a]) % Wide = s.at[a]
    OBVIOUS
  <2> DEFINE z == s.at[a]
  <2>1. off[a] = 0 /\ z \in 0..(Wide - 1)
    BY <1>1
  <2>2. z + off[a] = z /\ z \in Int /\ z - z = Wide * 0
    BY <2>1, Sizes
  <2>3. Cong(z, z, Wide)
    BY <2>2 DEF Cong
  <2> HIDE DEF z
  <2>4. z % Wide = z
    BY <2>1, <2>2, <2>3, RemUnique, Sizes
  <2> QED BY <2>2, <2>4 DEF z
<1>4. \A a \in Axes : there[a] = (s.at[a] + Offset(new.at[a], old.at[a])) % Wide
  OBVIOUS
<1>5. s.h \in 0..(Narrow - 1) /\ s.p \in 0..(Narrow - 1) /\ new.h \in 0..(Narrow - 1) /\ new.p \in 0..(Narrow - 1)
  BY DEF Position
<1>6. CASE moved /\ turned
  <2>1. Update(old, new) = [kind |-> "Movement", off |-> off, h |-> new.p, p |-> new.h]
    BY <1>6 DEF Update
  <2>2. r = [at |-> there, h |-> new.p, p |-> new.h]
    BY <2>1 DEF Applied
  <2> HIDE DEF r, there, off
  <2> QED BY <1>2, <1>4, <1>5, <2>2 DEF Facing, Position, r
<1>7. CASE moved /\ ~turned
  <2>1. Update(old, new) = [kind |-> "Position", off |-> off]
    BY <1>7 DEF Update
  <2>2. r = [s EXCEPT !.at = there]
    BY <2>1 DEF Applied
  <2>3. new.h = old.h /\ new.p = old.p
    BY <1>7
  <2> HIDE DEF r, there, off
  <2> QED BY <1>2, <1>4, <1>5, <2>2, <2>3 DEF Facing, Position, r
<1>8. CASE ~moved /\ turned
  <2>1. Update(old, new) = [kind |-> "Orientation", h |-> new.h, p |-> new.p]
    BY <1>8 DEF Update
  <2>2. r = [s EXCEPT !.h = new.h, !.p = new.p]
    BY <2>1 DEF Applied
  <2>3. \A a \in Axes : s.at[a] = (s.at[a] + Offset(new.at[a], old.at[a])) % Wide
    BY <1>3, <1>8
  <2> HIDE DEF r, there, off
  <2> QED BY <1>5, <2>2, <2>3 DEF Facing, Position, r
<1>9. CASE ~moved /\ ~turned
  <2>1. Update(old, new) = [kind |-> "none"]
    BY <1>9 DEF Update
  <2>2. r = s
    BY <2>1 DEF Applied
  <2>3. \A a \in Axes : s.at[a] = (s.at[a] + Offset(new.at[a], old.at[a])) % Wide
    BY <1>3, <1>9
  <2>4. new.h = old.h /\ new.p = old.p
    BY <1>9
  <2> HIDE DEF r, there, off
  <2> QED BY <2>2, <2>3, <2>4 DEF Facing, r
<1> QED BY <1>6, <1>7, <1>8, <1>9

-----------------------------------------------------------------------------
(* The views.                                                              *)

ViewTypes ==
    /\ members \subseteq Player /\ loading \subseteq Player /\ members \cap loading = {}
    /\ pos \in [Player -> Position]
    /\ knows \in [Player -> SUBSET Player]
    /\ shown \in [Player -> [Player -> Position]]

\* What client q shows of player p is right but for multiples of 256 and the
\* exchange of heading and pitch.
Faithful(q, p) ==
    /\ p \in knows[q]
    /\ \A a \in Axes : Cong(pos[p].at[a], shown[q][p].at[a], Narrow)
    /\ Facing(shown[q][p], pos[p])

Views == \A q, p \in Player : Apart(q, p) => Faithful(q, p)

LEMMA SpawnSeen ==
    MapSpawn \in Position /\ Facing(MapSpawn, MapSpawn)
    /\ \A a \in Axes : Cong(MapSpawn.at[a], MapSpawn.at[a], Narrow)
<1>1. MapSpawn \in Position
  BY WorldAssumption
<1>2. ASSUME NEW a \in Axes PROVE Cong(MapSpawn.at[a], MapSpawn.at[a], Narrow)
  <2>1. MapSpawn.at[a] \in 0..(Wide - 1)
    BY <1>1 DEF Position, Coordinates
  <2>2. MapSpawn.at[a] - MapSpawn.at[a] = Narrow * 0
    BY <2>1, Sizes
  <2> QED BY <2>2 DEF Cong
<1> QED BY <1>1, <1>2 DEF Facing

LEMMA OccurringTypes == Occurring \subseteq Position
BY WorldAssumption DEF Occurring, Position

LEMMA ViewsInit == Init => ViewTypes /\ Views
BY SpawnSeen DEF Init, ViewTypes, Views, Apart

LEMMA JoinViews ==
    ASSUME ViewTypes, Views, NEW p \in Player, Join(p)
    PROVE  ViewTypes' /\ Views'
<1>1. PICK junk \in Position : pos' = [pos EXCEPT ![p] = junk]
  BY OccurringTypes DEF Join
<1>2. p \notin members /\ loading' = loading \cup {p} /\ UNCHANGED <<members, knows, shown>>
  BY DEF Join
<1>3. ViewTypes'
  BY <1>1, <1>2 DEF ViewTypes
<1>4. \A r \in members : pos'[r] = pos[r]
  BY <1>1, <1>2 DEF ViewTypes
<1>5. Views'
  BY <1>2, <1>4 DEF Views, Apart, Faithful
<1> QED BY <1>3, <1>5

LEMMA FinalViews ==
    ASSUME ViewTypes, Views, NEW p \in Player, SendMapFinal(p)
    PROVE  ViewTypes' /\ Views'
<1>1. /\ members' = members \cup {p} /\ loading' = loading \ {p}
      /\ pos' = [pos EXCEPT ![p] = MapSpawn]
      /\ knows' = [q \in Player |->
                   IF q = p THEN members \ {p}
                   ELSE IF q \in members THEN knows[q] \cup {p} ELSE knows[q]]
      /\ shown' = [q \in Player |-> [r \in Player |->
                   IF q = p /\ r \in members \ {p} THEN pos[r]
                   ELSE IF q \in members \ {p} /\ r = p THEN MapSpawn
                   ELSE shown[q][r]]]
  BY DEF SendMapFinal, Spawned
<1>2. ViewTypes'
  <2>1. pos' \in [Player -> Position] /\ members' \subseteq Player /\ loading' \subseteq Player
    BY <1>1, SpawnSeen DEF ViewTypes
  <2>4. members' \cap loading' = {}
    BY <1>1 DEF ViewTypes
  <2>2. knows' \in [Player -> SUBSET Player]
    BY <1>1 DEF ViewTypes
  <2>3. shown' \in [Player -> [Player -> Position]]
    BY <1>1, SpawnSeen DEF ViewTypes
  <2> QED BY <2>1, <2>2, <2>3, <2>4 DEF ViewTypes
<1>3. \A r \in Player : pos'[r] = IF r = p THEN MapSpawn ELSE pos[r]
  BY <1>1 DEF ViewTypes
<1>4. ASSUME NEW q \in Player, NEW r \in Player, Apart(q, r)'
      PROVE  Faithful(q, r)'
  <2>1. q # r /\ q \in members \cup {p} /\ r \in members \cup {p}
    BY <1>1, <1>4 DEF Apart
  <2>2. CASE q = p
    <3>1. r \in knows'[q] /\ shown'[q][r] = pos[r] /\ pos'[r] = pos[r] /\ pos[r] \in Position
      BY <1>1, <1>3, <2>1, <2>2 DEF ViewTypes
    <3>2. ASSUME NEW a \in Axes PROVE Cong(pos[r].at[a], pos[r].at[a], Narrow)
      <4>1. pos[r].at[a] \in 0..(Wide - 1)
        BY <3>1 DEF Position, Coordinates
      <4>2. pos[r].at[a] - pos[r].at[a] = Narrow * 0
        BY <4>1, Sizes
      <4> QED BY <4>2 DEF Cong
    <3> QED BY <3>1, <3>2 DEF Faithful, Facing
  <2>3. CASE q # p /\ r = p
    <3>1. r \in knows'[q] /\ shown'[q][r] = MapSpawn /\ pos'[r] = MapSpawn
      BY <1>1, <1>3, <2>1, <2>3
    <3> QED BY <3>1, SpawnSeen DEF Faithful
  <2>4. CASE q # p /\ r # p
    <3>1. Faithful(q, r)
      BY <2>1, <2>4 DEF Views, Apart
    <3>2. knows[q] \subseteq knows'[q] /\ shown'[q][r] = shown[q][r] /\ pos'[r] = pos[r]
      BY <1>1, <1>3, <2>1, <2>4
    <3> QED BY <3>1, <3>2 DEF Faithful
  <2> QED BY <2>2, <2>3, <2>4
<1>5. Views'
  BY <1>4 DEF Views
<1> QED BY <1>2, <1>5

LEMMA LeaveViews ==
    ASSUME ViewTypes, Views, NEW p \in Player, Leave(p)
    PROVE  ViewTypes' /\ Views'
<1>1. members' = members \ {p} /\ UNCHANGED <<loading, pos, shown>>
  BY DEF Leave
<1>2. knows' \in [Player -> SUBSET Player] /\ \A q \in Player : knows[q] \ {p} \subseteq knows'[q]
  BY DEF Leave, ViewTypes
<1>3. ViewTypes'
  BY <1>1, <1>2 DEF ViewTypes
<1>4. Views'
  BY <1>1, <1>2 DEF Views, Apart, Faithful
<1> QED BY <1>3, <1>4

\* The movement of p to new, seen by q.
LEMMA MovementShown ==
    ASSUME ViewTypes, Views, NEW p \in Player, Movement(p)
    PROVE  \E new \in Position :
             /\ pos' = [pos EXCEPT ![p] = new]
             /\ UNCHANGED <<members, loading, knows>>
             /\ shown' \in [Player -> [Player -> Position]]
             /\ \A q, r \in Player : Apart(q, r) =>
                  IF r = p
                  THEN /\ Facing(shown'[q][p], new)
                       /\ \A a \in Axes : shown'[q][p].at[a]
                             = (shown[q][p].at[a] + Offset(new.at[a], pos[p].at[a])) % Wide
                  ELSE shown'[q][r] = shown[q][r]
<1>1. PICK new \in Position :
         /\ pos' = [pos EXCEPT ![p] = new]
         /\ shown' = [q \in Player |-> [r \in Player |->
                IF r = p /\ q \in members \ {p} /\ p \in knows[q]
                THEN Applied(Update(pos[p], new), shown[q][p])
                ELSE shown[q][r]]]
  BY OccurringTypes DEF Movement
<1>2. UNCHANGED <<members, loading, knows>>
  BY DEF Movement, mapVars
<1>3. ASSUME NEW q \in Player
      PROVE  /\ Applied(Update(pos[p], new), shown[q][p]) \in Position
             /\ Apart(q, p) =>
                  /\ Facing(shown'[q][p], new)
                  /\ \A a \in Axes : shown'[q][p].at[a]
                        = (shown[q][p].at[a] + Offset(new.at[a], pos[p].at[a])) % Wide
  <2> DEFINE ap == Applied(Update(pos[p], new), shown[q][p])
  <2>1. shown[q][p] \in Position /\ pos[p] \in Position
    BY DEF ViewTypes
  <2>2. /\ ap \in Position
        /\ \A a \in Axes : ap.at[a] = (shown[q][p].at[a] + Offset(new.at[a], pos[p].at[a])) % Wide
        /\ Facing(shown[q][p], pos[p]) => Facing(ap, new)
    BY <2>1, AppliedUpdate
  <2>3. Apart(q, p) => shown'[q][p] = ap /\ Facing(shown[q][p], pos[p])
    BY <1>1 DEF Views, Faithful, Apart
  <2> HIDE DEF ap
  <2>4. Apart(q, p) =>
           /\ Facing(shown'[q][p], new)
           /\ \A a \in Axes : shown'[q][p].at[a]
                 = (shown[q][p].at[a] + Offset(new.at[a], pos[p].at[a])) % Wide
    BY <2>2, <2>3
  <2> QED BY <2>2, <2>4 DEF ap
<1>4. shown' \in [Player -> [Player -> Position]]
  <2>1. ASSUME NEW q \in Player, NEW r \in Player PROVE shown'[q][r] \in Position
    <3>1. CASE r = p /\ q \in members \ {p} /\ p \in knows[q]
      <4>1. shown'[q][r] = Applied(Update(pos[p], new), shown[q][p])
        BY <1>1, <3>1
      <4> QED BY <4>1, <1>3
    <3>2. CASE ~(r = p /\ q \in members \ {p} /\ p \in knows[q])
      <4>1. shown'[q][r] = shown[q][r]
        BY <1>1, <3>2
      <4>2. shown[q][r] \in Position
        BY DEF ViewTypes
      <4> QED BY <4>1, <4>2
    <3> QED BY <3>1, <3>2
  <2> QED BY <1>1, <2>1
<1>5. \A q, r \in Player : r # p => shown'[q][r] = shown[q][r]
  BY <1>1
<1>6. \A q, r \in Player : Apart(q, r) =>
         IF r = p
         THEN /\ Facing(shown'[q][p], new)
              /\ \A a \in Axes : shown'[q][p].at[a]
                    = (shown[q][p].at[a] + Offset(new.at[a], pos[p].at[a])) % Wide
         ELSE shown'[q][r] = shown[q][r]
  BY <1>3, <1>5
<1>7. pos' = [pos EXCEPT ![p] = new]
  BY <1>1
<1> QED BY <1>2, <1>4, <1>6, <1>7, Zenon

\* A distance in the wide ring is a multiple of Narrow as the numbers' is.
LEMMA DriftCong ==
    ASSUME NEW x \in Int, NEW y \in Int
    PROVE  Cong(x, y, Narrow) <=> ((x - y) % Wide) % Narrow = 0
<1> DEFINE d == x - y
           w == d % Wide
<1>1. d \in Int
  OBVIOUS
<1> HIDE DEF d
<1>2. w \in Int /\ Cong(w, d, Wide)
  BY <1>1, RemInt, Sizes
<1> HIDE DEF w
<1>3. Cong(w, d, Narrow) /\ Cong(d, w, Narrow)
  BY <1>1, <1>2, CongNarrow, CongSum, Sizes
<1>4. Cong(d, 0, Narrow) <=> Cong(w, 0, Narrow)
  BY <1>1, <1>2, <1>3, CongTrans, Sizes
<1>5. Cong(x, y, Narrow) <=> Cong(d, 0, Narrow)
  BY DEF Cong, d
<1>6. Cong(w, 0, Narrow) <=> w % Narrow = 0
  BY <1>2, CongZero, Sizes
<1> QED BY <1>4, <1>5, <1>6 DEF w, d

LEMMA MovementViews ==
    ASSUME ViewTypes, Views, NEW p \in Player, Movement(p)
    PROVE  ViewTypes' /\ Views'
<1>1. PICK new \in Position :
             /\ pos' = [pos EXCEPT ![p] = new]
             /\ UNCHANGED <<members, loading, knows>>
             /\ shown' \in [Player -> [Player -> Position]]
             /\ \A q, r \in Player : Apart(q, r) =>
                  IF r = p
                  THEN /\ Facing(shown'[q][p], new)
                       /\ \A a \in Axes : shown'[q][p].at[a]
                             = (shown[q][p].at[a] + Offset(new.at[a], pos[p].at[a])) % Wide
                  ELSE shown'[q][r] = shown[q][r]
  BY MovementShown
<1>2. ViewTypes'
  BY <1>1 DEF ViewTypes
<1>3. ASSUME NEW q \in Player, NEW r \in Player, Apart(q, r)'
      PROVE  Faithful(q, r)'
  <2>1. Apart(q, r) /\ Faithful(q, r)
    BY <1>1, <1>3 DEF Apart, Views
  <2>2. CASE r # p
    <3>1. pos'[r] = pos[r] /\ shown'[q][r] = shown[q][r] /\ knows' = knows
      BY <1>1, <2>1, <2>2 DEF ViewTypes
    <3> QED BY <2>1, <3>1 DEF Faithful
  <2>3. CASE r = p
    <3>1. pos'[p] = new /\ p \in knows'[q] /\ Facing(shown'[q][p], new)
      BY <1>1, <2>1, <2>3 DEF ViewTypes, Faithful
    <3>2. ASSUME NEW a \in Axes PROVE Cong(new.at[a], shown'[q][p].at[a], Narrow)
      <4>1. new.at[a] \in Int /\ pos[p].at[a] \in Int /\ shown[q][p].at[a] \in Int
        <5>1. new \in Position /\ pos[p] \in Position /\ shown[q][p] \in Position
          BY <1>1 DEF ViewTypes
        <5>2. \A s \in Position : s.at[a] \in 0..(Wide - 1)
          BY DEF Position, Coordinates
        <5> QED BY <5>1, <5>2, Sizes
      <4>2. Cong(pos[p].at[a], shown[q][p].at[a], Narrow)
        BY <2>1, <2>3 DEF Faithful
      <4>3. Cong(Offset(new.at[a], pos[p].at[a]), new.at[a] - pos[p].at[a], Narrow)
        BY <4>1, OffsetInt
      <4>4. Cong(new.at[a], (shown[q][p].at[a] + Offset(new.at[a], pos[p].at[a])) % Wide, Narrow)
        BY <4>1, <4>2, <4>3, OffsetKeeps
      <4> QED BY <1>1, <2>1, <2>3, <4>4
    <3> QED BY <2>3, <3>1, <3>2 DEF Faithful
  <2> QED BY <2>2, <2>3
<1> QED BY <1>2, <1>3 DEF Views

\* The steps that touch no view.
Aside == UNCHANGED <<members, loading, viewVars>>

LEMMA NextViews ==
    ASSUME [Next]_vars
    PROVE  \/ \E p \in Player : Join(p) \/ SendMapFinal(p) \/ Leave(p) \/ Movement(p)
           \/ (\E p \in Player : SendMapChunk(p)) /\ Aside
           \/ Aside
BY DEF Next, vars, Aside, viewVars, mapVars, Cut, CutCrashes, Booted, SendMapChunk, Chat,
   MultiLine, MultiLineFails, SendChat

LEMMA ViewsStep ==
    ASSUME ViewTypes, Views, [Next]_vars
    PROVE  ViewTypes' /\ Views'
<1>1. CASE Aside
  BY <1>1 DEF Aside, viewVars, ViewTypes, Views, Apart, Faithful
<1> QED BY <1>1, NextViews, JoinViews, FinalViews, LeaveViews, MovementViews

LEMMA ViewsAlways == Spec => [](ViewTypes /\ Views)
BY ViewsInit, ViewsStep, PTL DEF Spec

\* Everybody in the world shows everybody else in it, and wrong at most by a
\* multiple of 256, for any number of players and movements.
THEOREM DriftAlwaysWhole == Spec => []DriftWhole
<1>1. ViewTypes /\ Views => DriftWhole
  <2> SUFFICES ASSUME ViewTypes, Views, NEW q \in Player, NEW p \in Player, Apart(q, p)
               PROVE  p \in knows[q] /\ \A a \in Axes : Drift(q, p, a) % Narrow = 0
    BY DEF DriftWhole
  <2>1. p \in knows[q]
    BY DEF Views, Faithful
  <2>2. ASSUME NEW a \in Axes PROVE Drift(q, p, a) % Narrow = 0
    <3>1. pos[p].at[a] \in Int /\ shown[q][p].at[a] \in Int
      <4>1. pos[p] \in Position /\ shown[q][p] \in Position
        BY DEF ViewTypes
      <4>2. \A s \in Position : s.at[a] \in 0..(Wide - 1)
        BY DEF Position, Coordinates
      <4> QED BY <4>1, <4>2, Sizes
    <3>2. Cong(pos[p].at[a], shown[q][p].at[a], Narrow)
      BY DEF Views, Faithful
    <3>3. ((pos[p].at[a] - shown[q][p].at[a]) % Wide) % Narrow = 0
      BY <3>1, <3>2, DriftCong
    <3> QED BY <3>3 DEF Drift
  <2> QED BY <2>1, <2>2
<1> QED BY ViewsAlways, <1>1, PTL

\* Headings and pitches are those the player has, or the two exchanged.
THEOREM FacingAlwaysShown == Spec => []FacingShown
<1>1. ViewTypes /\ Views => FacingShown
  BY DEF Views, Faithful, Facing, FacingShown
<1> QED BY ViewsAlways, <1>1, PTL

-----------------------------------------------------------------------------
(* Short steps.                                                            *)

\* Congruent numbers have the same remainder.
LEMMA SameRem ==
    ASSUME NEW x \in Int, NEW y \in Int, NEW n \in Nat \ {0}, Cong(x, y, n)
    PROVE  x % n = y % n
<1>1. x % n \in Int /\ x % n \in 0..(n - 1) /\ Cong(x % n, x, n)
  BY RemInt, Divides
<1>2. Cong(x % n, y, n)
  BY <1>1, CongTrans
<1> QED BY <1>1, <1>2, RemUnique

LEMMA ShortKeeps ==
    ASSUME NEW old \in Int, NEW new \in Int, NEW s \in Int,
           (new - old) % Wide < Narrow \div 2 \/ (new - old) % Wide >= Wide - Narrow \div 2
    PROVE  (new - ((s + Offset(new, old)) % Wide)) % Wide = (old - s) % Wide
<1> DEFINE off == Offset(new, old)
           t == (s + off) % Wide
<1>1. off \in Int /\ Cong(off, new - old, Wide)
  BY OffsetInt, OffsetExact
<1>2. s + off \in Int /\ Wide \in Nat \ {0} /\ new - old \in Int
  BY <1>1, Sizes
<1>3. t \in Int /\ Cong(t, s + off, Wide)
  <2> DEFINE z == s + off
  <2>1. z \in Int
    BY <1>2
  <2> HIDE DEF z
  <2>2. z % Wide \in Int /\ Cong(z % Wide, z, Wide)
    BY <2>1, RemInt, Sizes
  <2> QED BY <2>2 DEF z
<1> HIDE DEF off, t
<1>4. Cong(s, s, Wide) /\ Cong(new, new, Wide)
  <2>1. s - s = Wide * 0 /\ new - new = Wide * 0
    BY Sizes
  <2> QED BY <2>1 DEF Cong
<1>5. Cong(s + off, s + (new - old), Wide)
  BY <1>1, <1>2, <1>4, CongSum
<1>6. Cong(t, s + (new - old), Wide)
  BY <1>2, <1>3, <1>5, CongTrans
<1>7. Cong(new - t, new - (s + (new - old)), Wide)
  BY <1>2, <1>3, <1>4, <1>6, CongSum
<1>8. new - (s + (new - old)) = old - s /\ new - t \in Int /\ old - s \in Int
  BY <1>3
<1>9. (new - t) % Wide = (old - s) % Wide
  BY <1>2, <1>7, <1>8, SameRem
<1> QED BY <1>9 DEF t, off

\* A pair that a step other than a movement leaves in the world together.
LEMMA OthersStay ==
    ASSUME ViewTypes, [Next]_vars, ~(\E p \in Player : Movement(p)),
           NEW q \in Player, NEW r \in Player, Apart(q, r), Apart(q, r)'
    PROVE  pos'[r] = pos[r] /\ shown'[q][r] = shown[q][r]
<1>1. q \in members /\ r \in members /\ q # r
  BY DEF Apart
<1>2. CASE \E p \in Player : Join(p)
  <2>1. PICK p \in Player : Join(p)
    BY <1>2
  <2>2. p # r /\ shown' = shown /\ \E junk : pos' = [pos EXCEPT ![p] = junk]
    BY <1>1, <2>1 DEF Join
  <2> QED BY <2>2 DEF ViewTypes
<1>3. CASE \E p \in Player : SendMapFinal(p)
  <2>1. PICK p \in Player : SendMapFinal(p)
    BY <1>3
  <2>2. p # q /\ p # r
    BY <1>1, <2>1 DEF SendMapFinal, ViewTypes
  <2>3. pos' = [pos EXCEPT ![p] = MapSpawn]
    BY <2>1 DEF SendMapFinal
  <2>4. shown'[q][r] = shown[q][r]
    BY <2>1, <2>2 DEF SendMapFinal, Spawned
  <2> QED BY <2>2, <2>3, <2>4 DEF ViewTypes
<1>4. CASE \E p \in Player : Leave(p)
  BY <1>4 DEF Leave
<1>5. CASE Aside
  BY <1>5 DEF Aside, viewVars
<1> QED BY <1>2, <1>3, <1>4, <1>5, NextViews

LEMMA ShortStepsShown ==
    ASSUME ViewTypes, Views, [Next]_vars,
           NEW q \in Player, NEW r \in Player, Apart(q, r), Apart(q, r)',
           NEW a \in Axes, ShortStep(r, a)
    PROVE  Drift(q, r, a)' = Drift(q, r, a)
<1>1. CASE \E p \in Player : Movement(p)
  <2>1. PICK p \in Player : Movement(p)
    BY <1>1
  <2>2. PICK new \in Position :
             /\ pos' = [pos EXCEPT ![p] = new]
             /\ Apart(q, r) =>
                  IF r = p
                  THEN /\ Facing(shown'[q][p], new)
                       /\ \A b \in Axes : shown'[q][p].at[b]
                             = (shown[q][p].at[b] + Offset(new.at[b], pos[p].at[b])) % Wide
                  ELSE shown'[q][r] = shown[q][r]
    BY <2>1, MovementShown
  <2>3. CASE r = p
    <3>1. pos'[r] = new /\ pos[r] \in Position /\ shown[q][r] \in Position
      BY <2>2, <2>3 DEF ViewTypes
    <3>2. new.at[a] \in Int /\ pos[r].at[a] \in Int /\ shown[q][r].at[a] \in Int
      <4>1. \A s \in Position : s.at[a] \in 0..(Wide - 1)
        BY DEF Position, Coordinates
      <4> QED BY <3>1, <4>1, Sizes
    <3>3. shown'[q][r].at[a] = (shown[q][r].at[a] + Offset(new.at[a], pos[r].at[a])) % Wide
      BY <2>2, <2>3
    <3>4. \/ (new.at[a] - pos[r].at[a]) % Wide < Narrow \div 2
          \/ (new.at[a] - pos[r].at[a]) % Wide >= Wide - Narrow \div 2
      BY <3>1 DEF ShortStep
    <3>5. (new.at[a] - ((shown[q][r].at[a] + Offset(new.at[a], pos[r].at[a])) % Wide)) % Wide
             = (pos[r].at[a] - shown[q][r].at[a]) % Wide
      BY <3>2, <3>4, ShortKeeps
    <3> QED BY <3>1, <3>3, <3>5 DEF Drift
  <2>4. CASE r # p
    <3>1. pos'[r] = pos[r] /\ shown'[q][r] = shown[q][r]
      BY <2>2, <2>4 DEF ViewTypes
    <3> QED BY <3>1 DEF Drift
  <2> QED BY <2>3, <2>4
<1>2. CASE ~(\E p \in Player : Movement(p))
  <2>1. pos'[r] = pos[r] /\ shown'[q][r] = shown[q][r]
    BY <1>2, OthersStay
  <2> QED BY <2>1 DEF Drift
<1> QED BY <1>1, <1>2

\* Only steps of more than a signed byte make a client show a player at
\* another distance from its real position.
THEOREM StepsAlwaysShown == Spec => StepsShown
<1>1. ViewTypes /\ Views /\ [Next]_vars =>
        [\A q, p \in Player : Apart(q, p) /\ Apart(q, p)' =>
          \A a \in Axes : ShortStep(p, a) => Drift(q, p, a)' = Drift(q, p, a)]_vars
  BY ShortStepsShown
<1> QED BY <1>1, ViewsAlways, PTL DEF Spec, StepsShown

-----------------------------------------------------------------------------
(* The map.                                                                *)

Chunk == [from : Nat, size : Nat]

\* The i-th packet of a map that is cut.
Ith(i) == [from |-> (i - 1) * ChunkSize, size |-> PieceSize(zippedSize - (i - 1) * ChunkSize)]

CutInv ==
    /\ zippedSize \in Nat \ {0} /\ cut \in Nat /\ it \in Nat
    /\ cutting \in BOOLEAN /\ overrun \in BOOLEAN
    /\ chunks \in Seq(Chunk) /\ Len(chunks) > 0
    /\ (Len(chunks) - 1) * ChunkSize < zippedSize
    /\ zippedSize <= Len(chunks) * ChunkSize
    /\ cutting => ~overrun /\ cut <= Len(chunks) /\ it = cut * ChunkSize /\ it <= zippedSize
    /\ \A i \in 1..Len(chunks) : i <= cut => chunks[i] = Ith(i)
    /\ ~cutting => cut >= Len(chunks) /\ (overrun <=> zippedSize = Len(chunks) * ChunkSize)

LEMMA Monotone ==
    ASSUME NEW a \in Int, NEW b \in Int, NEW n \in Nat \ {0}
    PROVE  /\ a <= b <=> a * n <= b * n
           /\ (a + 1) * n = a * n + n /\ (a - 1) * n = a * n - n
<1>1. a <= b => a * n <= b * n
  <2> SUFFICES ASSUME a <= b PROVE a * n <= b * n
    OBVIOUS
  <2>1. b - a \in Nat /\ (b - a) * n >= 0
    OBVIOUS
  <2>2. (b - a) * n = b * n - a * n
    OBVIOUS
  <2> QED BY <2>1, <2>2
<1>2. b < a => b * n < a * n
  <2> SUFFICES ASSUME b < a PROVE b * n < a * n
    OBVIOUS
  <2>1. a - b - 1 \in Nat /\ (a - b - 1) * n >= 0
    OBVIOUS
  <2>2. (a - b - 1) * n = a * n - b * n - n
    OBVIOUS
  <2> QED BY <2>1, <2>2
<1>3. a * n \in Int /\ b * n \in Int
  OBVIOUS
<1>4. (a + 1) * n = a * n + n /\ (a - 1) * n = a * n - n
  OBVIOUS
<1> QED BY <1>1, <1>2, <1>3, <1>4

LEMMA CeilBounds ==
    ASSUME NEW z \in Nat \ {0}, NEW n \in Nat \ {0}
    PROVE  /\ CeilDiv(z, n) \in Nat \ {0}
           /\ (CeilDiv(z, n) - 1) * n < z /\ z <= CeilDiv(z, n) * n
<1> DEFINE x == z + n - 1
           q == x \div n
<1>1. x \in Nat /\ x >= n
  OBVIOUS
<1> HIDE DEF x
<1>2. q \in Int /\ n * q <= x /\ x < n * q + n
  BY <1>1
<1> HIDE DEF q
<1>3. n * q = q * n /\ q * n \in Int
  BY <1>2
<1>4. q * n <= z + n - 1 /\ z + n - 1 < q * n + n
  BY <1>2, <1>3 DEF x
<1>5. (q - 1) * n = q * n - n
  BY <1>2, Monotone
<1>6. q >= 1
  <2>1. CASE q <= 0
    <3>1. q * n <= 0 * n
      BY <1>2, <2>1, Monotone
    <3> QED BY <1>1, <1>2, <1>3, <3>1
  <2> QED BY <1>2, <2>1
<1>7. CeilDiv(z, n) = q
  BY DEF CeilDiv, q, x
<1> QED BY <1>2, <1>3, <1>4, <1>5, <1>6, <1>7

LEMMA CutInvInit == Init => CutInv
<1> SUFFICES ASSUME Init PROVE CutInv
  OBVIOUS
<1> DEFINE n == CeilDiv(zippedSize, ChunkSize)
<1>1. zippedSize \in Nat \ {0} /\ ChunkSize \in Nat \ {0}
  BY ChunksAssumption DEF Init, CutInit
<1>2. n \in Nat \ {0} /\ (n - 1) * ChunkSize < zippedSize /\ zippedSize <= n * ChunkSize
  BY <1>1, CeilBounds
<1>3. chunks = [i \in 1..n |-> Empty] /\ cut = 0 /\ it = 0 /\ cutting = TRUE /\ overrun = FALSE
  BY DEF Init, CutInit
<1> HIDE DEF n
<1>4. chunks \in Seq(Chunk) /\ Len(chunks) = n
  BY <1>2, <1>3 DEF Empty, Chunk
<1>5. 0 * ChunkSize = 0
  BY <1>1
<1>6. \A i \in 1..Len(chunks) : i <= cut => chunks[i] = Ith(i)
  BY <1>2, <1>3, <1>4
<1>7. cut \in Nat /\ it \in Nat /\ cut <= Len(chunks) /\ it = cut * ChunkSize /\ it <= zippedSize
  BY <1>1, <1>2, <1>3, <1>4, <1>5
<1>8. /\ Len(chunks) > 0
      /\ (Len(chunks) - 1) * ChunkSize < zippedSize
      /\ zippedSize <= Len(chunks) * ChunkSize
  BY <1>2, <1>4
<1>9. cutting /\ ~overrun /\ cutting \in BOOLEAN /\ overrun \in BOOLEAN
  BY <1>3
<1> QED BY <1>1, <1>4, <1>6, <1>7, <1>8, <1>9 DEF CutInv

LEMMA CutStep ==
    ASSUME CutInv, CutChunk
    PROVE  CutInv' /\ Len(chunks') = Len(chunks)
<1> DEFINE n == Len(chunks)
           size == PieceSize(zippedSize - it)
<1>1. /\ zippedSize \in Nat \ {0} /\ cut \in Nat /\ it \in Nat /\ ChunkSize \in Nat \ {0}
      /\ n \in Nat /\ n > 0 /\ cut <= n /\ it = cut * ChunkSize /\ it <= zippedSize
      /\ (n - 1) * ChunkSize < zippedSize /\ zippedSize <= n * ChunkSize
      /\ cutting /\ ~overrun /\ chunks \in Seq(Chunk)
  BY ChunksAssumption DEF CutInv, CutChunk
<1>2. /\ IF cut < n
         THEN chunks' = [chunks EXCEPT ![cut + 1] = [from |-> it, size |-> size]] /\ overrun' = overrun
         ELSE overrun' = TRUE /\ chunks' = chunks
      /\ cut' = cut + 1 /\ it' = it + size /\ cutting' = (size = ChunkSize) /\ zippedSize' = zippedSize
  BY DEF CutChunk
<1>3. size = IF zippedSize - it > ChunkSize THEN ChunkSize ELSE zippedSize - it
  BY DEF PieceSize
<1>4. \A i \in 1..n : i <= cut => chunks[i] = Ith(i)
  BY DEF CutInv
<1>5. \A i : Ith(i)' = Ith(i)
  BY <1>2 DEF Ith
<1>6. (cut + 1) * ChunkSize = it + ChunkSize /\ ((cut + 1) - 1) * ChunkSize = it
  <2>1. (cut + 1) - 1 = cut /\ (cut + 1) * ChunkSize = cut * ChunkSize + ChunkSize
    BY <1>1, Monotone
  <2> QED BY <1>1, <2>1
<1>7. size \in Nat /\ size <= ChunkSize
  BY <1>1, <1>3
<1>8. Ith(cut + 1) = [from |-> it, size |-> size]
  BY <1>6 DEF Ith
<1> HIDE DEF size
<1>9. CASE cut < n
  <2>1. chunks' \in Seq(Chunk) /\ Len(chunks') = n
    <3>1. [from |-> it, size |-> size] \in Chunk
      BY <1>1, <1>7 DEF Chunk
    <3>2. cut + 1 \in 1..n
      BY <1>1, <1>9
    <3>3. chunks' = [chunks EXCEPT ![cut + 1] = [from |-> it, size |-> size]]
      BY <1>2, <1>9
    <3> QED BY <1>1, <3>1, <3>2, <3>3
  <2>2. \A i \in 1..n : chunks'[i] = IF i = cut + 1 THEN Ith(cut + 1) ELSE chunks[i]
    BY <1>1, <1>2, <1>8, <1>9
  <2>3. \A i \in 1..n : i <= cut' => chunks'[i] = Ith(i)
    BY <1>1, <1>2, <1>4, <2>2
  <2>4. cut' \in Nat /\ it' \in Nat /\ cut' <= n /\ it' <= zippedSize
    BY <1>1, <1>2, <1>3, <1>7, <1>9
  <2>5. overrun' = FALSE
    BY <1>1, <1>2, <1>9
  <2>6. CASE size = ChunkSize
    <3>1. it' = cut' * ChunkSize /\ cutting' = TRUE
      BY <1>1, <1>2, <1>6, <2>6
    <3> QED BY <1>1, <1>2, <1>5, <2>1, <2>3, <2>4, <2>5, <3>1 DEF CutInv
  <2>7. CASE size # ChunkSize
    <3>1. zippedSize < (cut + 1) * ChunkSize
      BY <1>1, <1>3, <1>6, <2>7
    <3>2. (n - 1) * ChunkSize < (cut + 1) * ChunkSize
      <4>1. (n - 1) * ChunkSize \in Int /\ (cut + 1) * ChunkSize \in Int
        BY <1>1
      <4> QED BY <1>1, <3>1, <4>1
    <3>3. ~(cut + 1 <= n - 1)
      <4>1. cut + 1 \in Int /\ n - 1 \in Int
        BY <1>1
      <4>2. (n - 1) * ChunkSize \in Int /\ (cut + 1) * ChunkSize \in Int
        BY <1>1
      <4>3. cut + 1 <= n - 1 => (cut + 1) * ChunkSize <= (n - 1) * ChunkSize
        BY <1>1, <4>1, Monotone
      <4> QED BY <3>2, <4>2, <4>3
    <3>4. cut' = n
      BY <1>1, <1>2, <1>9, <3>3
    <3>5. zippedSize # n * ChunkSize
      <4>1. cut + 1 = n
        BY <1>2, <3>4
      <4>2. zippedSize < n * ChunkSize
        BY <3>1, <4>1
      <4> QED BY <1>1, <4>2
    <3>6. cutting' = FALSE
      BY <1>2, <2>7
    <3> QED BY <1>1, <1>2, <1>5, <2>1, <2>3, <2>4, <2>5, <3>4, <3>5, <3>6 DEF CutInv
  <2> QED BY <2>1, <2>6, <2>7
<1>10. CASE cut = n
  <2>1. zippedSize = n * ChunkSize /\ size = 0
    BY <1>1, <1>3, <1>10
  <2>2. overrun' = TRUE /\ chunks' = chunks
    BY <1>1, <1>2, <1>10
  <2>3. cut' = n + 1 /\ it' = it
    BY <1>1, <1>2, <1>10, <2>1
  <2>4. size # ChunkSize
    BY <1>1, <2>1
  <2>5. cutting' = FALSE
    BY <1>2, <2>4
  <2>6. \A i \in 1..n : chunks'[i] = Ith(i)'
    BY <1>1, <1>4, <1>5, <1>10, <2>2
  <2>7. /\ zippedSize' \in Nat \ {0} /\ cut' \in Nat /\ it' \in Nat /\ cut' >= Len(chunks')
        /\ zippedSize' = Len(chunks') * ChunkSize
        /\ (Len(chunks') - 1) * ChunkSize < zippedSize'
        /\ zippedSize' <= Len(chunks') * ChunkSize
    BY <1>1, <1>2, <2>1, <2>2, <2>3
  <2> QED BY <1>1, <2>2, <2>5, <2>6, <2>7 DEF CutInv
<1> QED BY <1>1, <1>9, <1>10

MapInv ==
    /\ map \in [Player -> Seq(Chunk)]
    /\ members \subseteq Player /\ loading \subseteq Player
    /\ cutting => proc \in {"cutting", "down"}
    /\ proc = "cutting" \/ cutting =>
          members = {} /\ loading = {} /\ \A p \in Player : Len(map[p]) = 0
    /\ \A p \in Player :
          /\ Len(map[p]) <= Len(chunks)
          /\ \A i \in 1..Len(map[p]) : map[p][i] = chunks[i]
    /\ \A p \in loading : Len(map[p]) < Len(chunks)
    /\ \A p \in members : Len(map[p]) = Len(chunks)

LEMMA MapInit == Init => MapInv
<1> SUFFICES ASSUME Init PROVE MapInv
  OBVIOUS
<1>1. CutInv
  BY CutInvInit
<1>2. map = [p \in Player |-> <<>>] /\ members = {} /\ loading = {} /\ proc = "cutting"
  BY DEF Init
<1>3. map \in [Player -> Seq(Chunk)] /\ \A p \in Player : map[p] = <<>> /\ Len(map[p]) = 0
  BY <1>2
<1>4. Len(chunks) \in Nat
  BY <1>1 DEF CutInv
<1> QED BY <1>2, <1>3, <1>4 DEF MapInv

\* Nothing but CutChunk changes the list of packets.
LEMMA MapSame ==
    ASSUME CutInv, UNCHANGED chunkVars
    PROVE  CutInv' /\ chunks' = chunks /\ cutting' = cutting
BY DEF CutInv, chunkVars, Ith

LEMMA CutMap ==
    ASSUME CutInv, MapInv, Cut
    PROVE  CutInv' /\ MapInv'
<1>1. CutInv' /\ Len(chunks') = Len(chunks)
  BY CutStep DEF Cut
<1>2. proc = "cutting" /\ proc' = proc /\ members' = members /\ loading' = loading /\ map' = map
  BY DEF Cut, mapVars
<1>3. members = {} /\ loading = {} /\ \A p \in Player : Len(map[p]) = 0
  BY <1>2 DEF MapInv
<1>4. \A p \in Player : Len(map'[p]) <= Len(chunks') /\ 1..Len(map'[p]) = {}
  BY <1>1, <1>2, <1>3 DEF CutInv
<1> QED BY <1>1, <1>2, <1>3, <1>4 DEF MapInv

\* Another chunk for p.
LEMMA SendMap ==
    ASSUME CutInv, MapInv, NEW p \in loading,
           map' = [map EXCEPT ![p] = Append(@, chunks[Len(@) + 1])]
    PROVE  /\ map' \in [Player -> Seq(Chunk)]
           /\ Len(map'[p]) = Len(map[p]) + 1
           /\ \A q \in Player : q # p => map'[q] = map[q]
           /\ \A q \in Player :
                /\ Len(map'[q]) <= Len(chunks)
                /\ \A i \in 1..Len(map'[q]) : map'[q][i] = chunks[i]
<1> DEFINE k == Len(map[p]) + 1
<1>1. p \in Player /\ map[p] \in Seq(Chunk) /\ map \in [Player -> Seq(Chunk)]
      /\ chunks \in Seq(Chunk) /\ Len(map[p]) < Len(chunks)
  BY DEF MapInv, CutInv
<1>2. k \in 1..Len(chunks) /\ chunks[k] \in Chunk
  BY <1>1
<1>3. Append(map[p], chunks[k]) \in Seq(Chunk)
  BY <1>1, <1>2
<1>4. map'[p] = Append(map[p], chunks[k]) /\ \A q \in Player : q # p => map'[q] = map[q]
  BY <1>1
<1>5. map' \in [Player -> Seq(Chunk)]
  BY <1>1, <1>3
<1>6. Len(map'[p]) = k /\ \A i \in 1..k : map'[p][i] = IF i = k THEN chunks[k] ELSE map[p][i]
  BY <1>1, <1>2, <1>4
<1>7. \A q \in Player :
        Len(map[q]) <= Len(chunks) /\ \A i \in 1..Len(map[q]) : map[q][i] = chunks[i]
  BY DEF MapInv
<1>8. \A i \in 1..Len(map'[p]) : map'[p][i] = chunks[i]
  BY <1>1, <1>2, <1>6, <1>7
<1>9. Len(map'[p]) <= Len(chunks)
  BY <1>2, <1>6
<1>10. \A q \in Player :
         Len(map'[q]) <= Len(chunks) /\ \A i \in 1..Len(map'[q]) : map'[q][i] = chunks[i]
  BY <1>4, <1>7, <1>8, <1>9
<1> QED BY <1>4, <1>5, <1>6, <1>10

LEMMA MapStep == CutInv /\ MapInv /\ [Next]_vars => CutInv' /\ MapInv'
<1> SUFFICES ASSUME CutInv, MapInv, [Next]_vars PROVE CutInv' /\ MapInv'
  OBVIOUS
<1>1. CASE Cut
  BY <1>1, CutMap
<1>2. CASE CutCrashes
  <2>1. CutInv' /\ chunks' = chunks /\ cutting' = cutting
    BY <1>2, MapSame DEF CutCrashes
  <2>2. proc' = "down" /\ members' = members /\ loading' = loading /\ map' = map
        /\ proc = "cutting"
    BY <1>2 DEF CutCrashes, mapVars
  <2> QED BY <2>1, <2>2 DEF MapInv
<1>3. CASE Booted
  <2>1. CutInv' /\ chunks' = chunks /\ cutting' = cutting /\ ~cutting
    BY <1>3, MapSame DEF Booted
  <2>2. proc' = "idle" /\ members' = members /\ loading' = loading /\ map' = map
    BY <1>3 DEF Booted, mapVars
  <2> QED BY <2>1, <2>2 DEF MapInv
<1>4. ASSUME NEW p \in Player, Join(p) PROVE CutInv' /\ MapInv'
  <2>1. CutInv' /\ chunks' = chunks /\ cutting' = cutting
    BY <1>4, MapSame DEF Join
  <2>2. proc = "idle" /\ proc' = proc /\ members' = members
        /\ loading' = loading \cup {p} /\ map' = map
    BY <1>4 DEF Join
  <2>3. Len(map[p]) = 0 /\ Len(chunks) > 0
    BY <1>4 DEF Join, CutInv
  <2>4. ~cutting
    BY <2>2 DEF MapInv
  <2>5. \A q \in loading' : Len(map[q]) < Len(chunks)
    BY <2>2, <2>3 DEF MapInv
  <2> QED BY <2>1, <2>2, <2>4, <2>5 DEF MapInv
<1>5. ASSUME NEW p \in Player, SendMapChunk(p) PROVE CutInv' /\ MapInv'
  <2>1. CutInv' /\ chunks' = chunks /\ cutting' = cutting
    BY <1>5, MapSame DEF SendMapChunk
  <2>2. proc = "idle" /\ proc' = proc /\ members' = members /\ loading' = loading
        /\ p \in loading /\ Len(map[p]) + 1 < Len(chunks)
        /\ map' = [map EXCEPT ![p] = Append(@, chunks[Len(@) + 1])]
    BY <1>5 DEF SendMapChunk
  <2>3. /\ map' \in [Player -> Seq(Chunk)] /\ Len(map'[p]) = Len(map[p]) + 1
        /\ \A q \in Player : q # p => map'[q] = map[q]
        /\ \A q \in Player :
             Len(map'[q]) <= Len(chunks) /\ \A i \in 1..Len(map'[q]) : map'[q][i] = chunks[i]
    BY <2>2, SendMap
  <2>4. ~cutting /\ p \notin members
    <3>1. Len(map[p]) < Len(chunks) /\ Len(map[p]) \in Nat /\ Len(chunks) \in Nat
      BY <2>2 DEF MapInv, CutInv
    <3> QED BY <2>2, <3>1 DEF MapInv
  <2>5. \A q \in loading : Len(map'[q]) < Len(chunks)
    BY <2>2, <2>3 DEF MapInv
  <2>6. \A q \in members : Len(map'[q]) = Len(chunks)
    BY <2>3, <2>4 DEF MapInv
  <2> QED BY <2>1, <2>2, <2>3, <2>4, <2>5, <2>6 DEF MapInv
<1>6. ASSUME NEW p \in Player, SendMapFinal(p) PROVE CutInv' /\ MapInv'
  <2>1. CutInv' /\ chunks' = chunks /\ cutting' = cutting
    BY <1>6, MapSame DEF SendMapFinal
  <2>2. proc = "idle" /\ proc' = proc /\ members' = members \cup {p} /\ loading' = loading \ {p}
        /\ p \in loading /\ Len(map[p]) + 1 = Len(chunks)
        /\ map' = [map EXCEPT ![p] = Append(@, chunks[Len(@) + 1])]
    BY <1>6 DEF SendMapFinal
  <2>3. /\ map' \in [Player -> Seq(Chunk)] /\ Len(map'[p]) = Len(map[p]) + 1
        /\ \A q \in Player : q # p => map'[q] = map[q]
        /\ \A q \in Player :
             Len(map'[q]) <= Len(chunks) /\ \A i \in 1..Len(map'[q]) : map'[q][i] = chunks[i]
    BY <2>2, SendMap
  <2>4. ~cutting
    BY <2>2 DEF MapInv
  <2>5. \A q \in loading' : Len(map'[q]) < Len(chunks)
    BY <2>2, <2>3 DEF MapInv
  <2>6. \A q \in members' : Len(map'[q]) = Len(chunks)
    BY <2>2, <2>3 DEF MapInv
  <2> QED BY <2>1, <2>2, <2>3, <2>4, <2>5, <2>6 DEF MapInv
<1>7. ASSUME NEW p \in Player, Leave(p) PROVE CutInv' /\ MapInv'
  <2>1. CutInv' /\ chunks' = chunks /\ cutting' = cutting
    BY <1>7, MapSame DEF Leave
  <2>2. proc = "idle" /\ proc' = proc /\ members' = members \ {p}
        /\ loading' = loading /\ map' = map
    BY <1>7 DEF Leave
  <2> QED BY <2>1, <2>2 DEF MapInv
<1>8. CASE \/ \E p \in Player : Movement(p)
           \/ \E p \in Player : Chat(p)
           \/ MultiLine \/ MultiLineFails \/ SendChat
           \/ UNCHANGED vars
  <2>1. CutInv' /\ chunks' = chunks /\ cutting' = cutting
    <3>1. UNCHANGED chunkVars
      BY <1>8 DEF Movement, Chat, MultiLine, MultiLineFails, SendChat, vars
    <3> QED BY <3>1, MapSame
  <2>2. members' = members /\ loading' = loading /\ map' = map
    BY <1>8 DEF Movement, Chat, MultiLine, MultiLineFails, SendChat, vars, mapVars
  <2>3. proc' = proc \/ (proc \in {"idle", "format"} /\ proc' # "cutting")
    BY <1>8 DEF Movement, Chat, MultiLine, MultiLineFails, SendChat, vars
  <2>4. proc' # proc => ~cutting
    BY <2>3 DEF MapInv
  <2> QED BY <2>1, <2>2, <2>3, <2>4 DEF MapInv
<1> QED BY <1>1, <1>2, <1>3, <1>4, <1>5, <1>6, <1>7, <1>8 DEF Next

\* What the loop cut is the whole map.
LEMMA CutWhole ==
    ASSUME CutInv, ~cutting, NEW m \in Seq(Chunk), Len(m) = Len(chunks),
           \A i \in 1..Len(m) : m[i] = chunks[i]
    PROVE  WholeMap(m)
<1> DEFINE n == Len(chunks)
<1>1. /\ zippedSize \in Nat \ {0} /\ ChunkSize \in Nat \ {0} /\ n \in Nat \ {0} /\ Len(m) = n
      /\ (n - 1) * ChunkSize < zippedSize /\ zippedSize <= n * ChunkSize
  BY ChunksAssumption DEF CutInv
<1>2. \A i \in 1..n : m[i] = Ith(i)
  BY DEF CutInv
<1>3. ASSUME NEW i \in 1..n
      PROVE  m[i].from = (i - 1) * ChunkSize /\ m[i].size = PieceSize(zippedSize - (i - 1) * ChunkSize)
  <2>1. m[i] = Ith(i)
    BY <1>2
  <2>2. /\ Ith(i).from = (i - 1) * ChunkSize
        /\ Ith(i).size = PieceSize(zippedSize - (i - 1) * ChunkSize)
    BY Zenon DEF Ith
  <2> QED BY <2>1, <2>2
<1>4. \A i \in 1..n : (i - 1) * ChunkSize \in Int
  BY <1>1
<1> HIDE DEF n
<1>5. m[1].from = 0
  <2>1. m[1].from = (1 - 1) * ChunkSize
    BY <1>1, <1>3
  <2> QED BY <1>1, <2>1
<1>6. ASSUME NEW i \in 1..(n - 1) PROVE m[i + 1].from = m[i].from + m[i].size
  <2>1. i \in 1..n /\ i + 1 \in 1..n /\ i \in Int /\ i <= n - 1 /\ (i + 1) - 1 = i
    BY <1>1
  <2>2. i * ChunkSize <= (n - 1) * ChunkSize
    BY <1>1, <2>1, Monotone
  <2>3. (i - 1) * ChunkSize = i * ChunkSize - ChunkSize /\ i * ChunkSize \in Int
    BY <1>1, <2>1, Monotone
  <2>4. zippedSize - (i - 1) * ChunkSize > ChunkSize
    BY <1>1, <2>2, <2>3
  <2>5. m[i].size = ChunkSize /\ m[i].from = (i - 1) * ChunkSize
    BY <1>3, <2>1, <2>4 DEF PieceSize
  <2>6. m[i + 1].from = i * ChunkSize
    BY <1>3, <2>1
  <2> QED BY <1>1, <2>3, <2>5, <2>6
<1>7. m[n].from + m[n].size = zippedSize
  <2>1. n \in 1..n /\ n \in Int
    BY <1>1
  <2>2. (n - 1) * ChunkSize = n * ChunkSize - ChunkSize /\ n * ChunkSize \in Int
    BY <1>1, <2>1, Monotone
  <2>3. ~(zippedSize - (n - 1) * ChunkSize > ChunkSize)
    BY <1>1, <2>2
  <2>4. m[n].size = zippedSize - (n - 1) * ChunkSize /\ m[n].from = (n - 1) * ChunkSize
    BY <1>3, <2>1, <2>3 DEF PieceSize
  <2> QED BY <1>1, <2>2, <2>4
<1> QED BY <1>1, <1>5, <1>6, <1>7 DEF WholeMap

LEMMA OverrunExact ==
    ASSUME CutInv, ~cutting
    PROVE  overrun <=> zippedSize % ChunkSize = 0
<1> DEFINE n == Len(chunks)
           z == zippedSize
<1>1. /\ z \in Nat \ {0} /\ ChunkSize \in Nat \ {0} /\ n \in Nat \ {0}
      /\ (n - 1) * ChunkSize < z /\ z <= n * ChunkSize
      /\ overrun \in BOOLEAN /\ (overrun <=> z = n * ChunkSize)
  BY ChunksAssumption DEF CutInv
<1> HIDE DEF n, z
<1>2. z % ChunkSize = 0 <=> Cong(z, 0, ChunkSize)
  BY <1>1, CongZero
<1>3. ASSUME z = n * ChunkSize PROVE Cong(z, 0, ChunkSize)
  <2>1. z - 0 = ChunkSize * n /\ n \in Int
    BY <1>1, <1>3
  <2> QED BY <2>1 DEF Cong
<1>4. ASSUME Cong(z, 0, ChunkSize) PROVE z = n * ChunkSize
  <2>1. PICK q \in Int : z - 0 = ChunkSize * q
    BY <1>4 DEF Cong
  <2>2. z = q * ChunkSize /\ n \in Int /\ n - 1 \in Int
    BY <1>1, <2>1
  <2>3. ~(q <= n - 1)
    <3>1. q <= n - 1 => q * ChunkSize <= (n - 1) * ChunkSize
      BY <1>1, <2>2, Monotone
    <3>2. (n - 1) * ChunkSize \in Int
      BY <1>1
    <3> QED BY <1>1, <2>2, <3>1, <3>2
  <2>4. q <= n
    BY <1>1, <2>2, Monotone
  <2>5. q = n
    BY <2>2, <2>3, <2>4
  <2> QED BY <2>2, <2>5
<1>5. overrun <=> z % ChunkSize = 0
  BY <1>1, <1>2, <1>3, <1>4
<1> QED BY <1>5 DEF z

\* Whatever the size of the map and of a packet, who is in the world has the
\* map, each byte once and in order, and the loop that cuts it writes behind
\* the list exactly for the multiples of the packet's size.
THEOREM MapAlwaysWhole == Spec => []MapWhole
<1>1. Init => CutInv /\ MapInv
  BY CutInvInit, MapInit
<1>2. CutInv /\ MapInv => MapWhole
  <2> SUFFICES ASSUME CutInv, MapInv PROVE MapWhole
    OBVIOUS
  <2>1. ASSUME NEW p \in members PROVE WholeMap(map[p])
    <3>1. p \in Player /\ map[p] \in Seq(Chunk) /\ Len(map[p]) = Len(chunks) /\ ~cutting
      BY DEF MapInv
    <3>2. \A i \in 1..Len(map[p]) : map[p][i] = chunks[i]
      BY <3>1 DEF MapInv
    <3> QED BY <3>1, <3>2, CutWhole
  <2>2. proc = "idle" => (overrun <=> zippedSize % ChunkSize = 0)
    <3>1. proc = "idle" => ~cutting
      BY DEF MapInv
    <3> QED BY <3>1, OverrunExact
  <2> QED BY <2>1, <2>2 DEF MapWhole
<1> QED BY <1>1, <1>2, MapStep, PTL DEF Spec

-----------------------------------------------------------------------------
(* Chat: the lines and the text left are the message.                      *)

FormatTypes ==
    chat \in [username : Text, msg : Text] /\ msg \in Text /\ lines \in Seq(Text)

\* trim_right finds the last character that is no space, or that there is none.
LEMMA TrimTyped == ASSUME NEW text \in Text PROVE trimRight(text) \in Text
<1> DEFINE l == Len(text)
           Blank(n) == \A i \in (n + 1)..l : text[i] = Space
           Found(n) == (n > 0 => text[n] # Space) /\ Blank(n)
           S == {n \in 0..l : Blank(n)}
           m == Min(S)
<1>1. l \in Nat
  BY DEF Text
<1> HIDE DEF l
<1>2. S \in SUBSET Nat /\ l \in S
  BY <1>1
<1>3. m \in S /\ \A n \in S : m <= n
  <2> HIDE DEF S
  <2> QED BY <1>2, LeastNatural
<1>4. m \in 0..l /\ Blank(m)
  BY <1>3
<1>5. m > 0 => text[m] # Space
  <2> SUFFICES ASSUME m > 0, text[m] = Space PROVE FALSE
    OBVIOUS
  <2> DEFINE k == m - 1
  <2> HIDE DEF m
  <2>1. k \in 0..l /\ k + 1 = m
    BY <1>1, <1>4
  <2>2. Blank(k)
    <3> SUFFICES ASSUME NEW i \in (k + 1)..l PROVE text[i] = Space
      OBVIOUS
    <3>1. i = m \/ i \in (m + 1)..l
      BY <1>1, <1>4, <2>1
    <3> QED BY <3>1, <1>4
  <2>3. k \in S
    BY <2>1, <2>2
  <2>4. m <= k
    BY <1>3, <2>3
  <2> QED BY <1>1, <1>4, <2>1, <2>4
<1>6. \E n \in 0..l : Found(n)
  <2> HIDE DEF m
  <2> QED BY <1>4, <1>5
<1> DEFINE c == CHOOSE n \in 0..l : Found(n)
<1>7. c \in 0..l
  <2> HIDE DEF Found
  <2> QED BY <1>6
<1>8. trimRight(text) = SubSeq(text, 1, c)
  BY DEF trimRight, l
<1> HIDE DEF c
<1> QED BY <1>7, <1>8, SubSeqType DEF l, Text

\* One iteration: the line is what fits of the name and the text, and what it
\* says of the text and what is left are the text.
LEMMA LineCut ==
    ASSUME NEW username \in Text, NEW text \in Text, text # <<>>
    PROVE  LET line == singleLine(username, text)
               end  == IF Len(line) < Width THEN Len(line) ELSE Width
               made == SubSeq(line, 1, end)
               rest == SubSeq(line, end + 1, Len(line))
           IN  /\ made \in Text /\ rest \in Text /\ Len(made) <= Width
               /\ Fits(username) =>
                     SubSeq(made, Len(Prefix(username)) + 1, Len(made)) \o rest = text
<1> DEFINE pre == Prefix(username)
           line == singleLine(username, text)
           p == Len(pre)
           t == Len(text)
           l == Len(line)
           end == IF l < Width THEN l ELSE Width
           made == SubSeq(line, 1, end)
           rest == SubSeq(line, end + 1, l)
<1>1. Width \in Nat \ {0} /\ Separator \in Seq(Character)
  BY FormatAssumption DEF Text
<1>2. pre \in Seq(Character) /\ text \in Seq(Character)
  BY <1>1, ConcatProperties DEF Prefix, Text
<1>3. line = pre \o text
  BY DEF singleLine
<1> HIDE DEF pre, line
<1>4. /\ line \in Seq(Character) /\ l = p + t /\ p \in Nat /\ t \in Nat /\ t # 0
      /\ \A i \in 1..(p + t) : line[i] = IF i <= p THEN pre[i] ELSE text[i - p]
  BY <1>2, <1>3, ConcatProperties
<1> HIDE DEF p, t, l
<1>5. l \in Nat /\ l = p + t
  BY <1>4
<1>6. end \in 0..l /\ end \in 1..l /\ end <= Width /\ (p < Width => p + 1 <= end)
  BY <1>1, <1>4, <1>5
<1> HIDE DEF end
<1>7. made \in Seq(Character) /\ Len(made) = end
  <2>1. made \in Seq(Character) /\ Len(made) = IF 1 <= end THEN end - 1 + 1 ELSE 0
    <3>1. 1 \in Nat \ {0} /\ end \in 0..Len(line)
      BY <1>6 DEF l
    <3> QED BY <1>4, <3>1, SubSeqType
  <2>2. 1 <= end /\ end - 1 + 1 = end
    BY <1>5, <1>6
  <2> QED BY <2>1, <2>2
<1>8. rest \in Seq(Character)
  <2> DEFINE m == end + 1
  <2>1. m \in Nat \ {0} /\ l \in 0..Len(line)
    BY <1>5, <1>6 DEF l
  <2> HIDE DEF m
  <2>2. SubSeq(line, m, l) \in Seq(Character)
    BY <1>4, <2>1, SubSeqType
  <2> QED BY <2>2 DEF m
<1>9. ASSUME p < Width PROVE SubSeq(made, p + 1, end) \o rest = text
  <2> DEFINE m == p + 1
  <2>1. /\ m \in 1..(l + 1) /\ m \in 1..end /\ end \in (m - 1)..l /\ l \in end..l
        /\ p \in Nat
    BY <1>4, <1>5, <1>6, <1>9
  <2>2. SubSeq(made, m, end) = SubSeq(line, m, end)
    <3>1. /\ 1 \in 1..Len(line) /\ end \in 1..Len(line)
          /\ m \in 1..(end - 1 + 1) /\ end \in 1..(end - 1 + 1)
          /\ 1 + m - 1 = m /\ 1 + end - 1 = end
      BY <1>5, <1>6, <2>1 DEF l
    <3> HIDE DEF m
    <3>2. SubSeq(made, m, end) = SubSeq(line, 1 + m - 1, 1 + end - 1)
      BY <1>4, <3>1, SubSeqOfSubSeq
    <3> QED BY <3>1, <3>2
  <2>3. SubSeq(line, m, end) \o rest = SubSeq(line, m, l)
    <3> HIDE DEF m
    <3> QED BY <1>4, <2>1, ConcatAdjacentSubSeq DEF l
  <2>4. SubSeq(line, m, l) = text
    <3>1. FoundAt(line, text, p)
      <4>1. p + Len(text) <= Len(line)
        BY <1>4, <1>5 DEF l, t
      <4>2. ASSUME NEW j \in 1..t PROVE line[p + j] = text[j]
        <5>1. p + j \in 1..(p + t) /\ ~(p + j <= p) /\ (p + j) - p = j
          BY <1>4
        <5> QED BY <5>1, <1>4
      <4> QED BY <4>1, <4>2 DEF FoundAt, t
    <3>2. SubSeq(line, p + 1, p + Len(text)) = text
      BY <1>2, <1>4, <2>1, <3>1, SubSeqIs
    <3> QED BY <3>2, <1>5 DEF t
  <2> QED BY <2>2, <2>3, <2>4
<1>10. made \in Text /\ rest \in Text /\ Len(made) <= Width
  BY <1>6, <1>7, <1>8 DEF Text
<1>11. Fits(username) => SubSeq(made, Len(Prefix(username)) + 1, Len(made)) \o rest = text
  <2>1. Fits(username) <=> p < Width
    BY DEF Fits, p, pre
  <2> QED BY <2>1, <1>7, <1>9 DEF p, pre
<1> QED BY <1>10, <1>11 DEF line, l, end

\* What is said in the texts ls behind the first p characters of each.
Pieces(ls, p) == [i \in 1..Len(ls) |-> SubSeq(ls[i], p + 1, Len(ls[i]))]

LEMMA PiecesTyped ==
    ASSUME NEW ls \in Seq(Text), NEW p \in Nat
    PROVE  Pieces(ls, p) \in Seq(Text) /\ Len(Pieces(ls, p)) = Len(ls)
<1>1. ASSUME NEW i \in 1..Len(ls) PROVE SubSeq(ls[i], p + 1, Len(ls[i])) \in Text
  <2> DEFINE m == p + 1
             s == ls[i]
  <2>1. m \in Nat \ {0} /\ s \in Seq(Character)
    BY DEF Text
  <2> HIDE DEF m, s
  <2>2. Len(s) \in 0..Len(s)
    BY <2>1
  <2>3. SubSeq(s, m, Len(s)) \in Seq(Character)
    BY <2>1, <2>2, SubSeqType
  <2> QED BY <2>3 DEF m, s, Text
<1>2. Pieces(ls, p) \in [1..Len(ls) -> Text] /\ Len(ls) \in Nat
  BY <1>1 DEF Pieces
<1> QED BY <1>2

LEMMA PiecesAppend ==
    ASSUME NEW ls \in Seq(Text), NEW made \in Text, NEW p \in Nat
    PROVE  FlattenSeq(Pieces(Append(ls, made), p))
              = FlattenSeq(Pieces(ls, p)) \o SubSeq(made, p + 1, Len(made))
<1> DEFINE n == Len(ls)
           longer == Append(ls, made)
           piece == SubSeq(made, p + 1, Len(made))
           short == Pieces(ls, p)
           long == Pieces(longer, p)
           all == Append(short, piece)
<1>1. /\ n \in Nat /\ longer \in Seq(Text) /\ Len(longer) = n + 1 /\ longer[n + 1] = made
      /\ \A i \in 1..n : longer[i] = ls[i]
  BY AppendProperties
<1> HIDE DEF longer
<1>2. /\ short \in Seq(Text) /\ Len(short) = n /\ long \in Seq(Text) /\ Len(long) = n + 1
  BY <1>1, PiecesTyped
<1> HIDE DEF n
<1>3. long[n + 1] = piece /\ \A i \in 1..n : long[i] = short[i]
  <2>1. n + 1 \in 1..(n + 1) /\ \A i \in 1..n : i \in 1..(n + 1)
    BY <1>1
  <2>2. long[n + 1] = piece
    BY <1>1, <2>1 DEF Pieces
  <2>3. ASSUME NEW i \in 1..n PROVE long[i] = short[i]
    BY <1>1, <2>1 DEF Pieces, n
  <2> QED BY <2>2, <2>3
<1>4. piece \in Text
  <2>1. long[n + 1] \in Text
    <3> HIDE DEF long
    <3> QED BY <1>1, <1>2
  <2> QED BY <1>3, <2>1
<1> HIDE DEF short, long, piece
<1>5. /\ all \in Seq(Text) /\ Len(all) = n + 1 /\ all[n + 1] = piece
      /\ \A i \in 1..n : all[i] = short[i]
  BY <1>2, <1>4, AppendProperties
<1>6. FlattenSeq(all) = FlattenSeq(short) \o piece
  BY <1>2, <1>4, FlattenAppend DEF Text
<1> HIDE DEF all
<1>7. long = all
  <2>1. ASSUME NEW i \in 1..(n + 1) PROVE long[i] = all[i]
    <3>1. i = n + 1 \/ i \in 1..n
      BY <1>1
    <3> QED BY <3>1, <1>3, <1>5
  <2> QED BY <2>1, <1>2, <1>5, SeqEqual
<1> QED BY <1>6, <1>7 DEF short, long, piece, longer

LEMMA LineStep ==
    ASSUME FormatTypes, ChatKept, FormatLine PROVE FormatTypes' /\ ChatKept'
<1> DEFINE u == chat.username
           p == Len(Prefix(u))
           line == singleLine(u, msg)
           end == IF Len(line) < Width THEN Len(line) ELSE Width
           made == SubSeq(line, 1, end)
           rest == SubSeq(line, end + 1, Len(line))
<1>1. u \in Text /\ msg \in Text /\ msg # <<>> /\ lines \in Seq(Text)
  BY DEF FormatTypes, FormatLine
<1>2. /\ made \in Text /\ rest \in Text /\ Len(made) <= Width
      /\ Fits(u) => SubSeq(made, p + 1, Len(made)) \o rest = msg
  BY <1>1, LineCut
<1>3. lines' = Append(lines, made) /\ msg' = rest /\ chat' = chat
  BY DEF FormatLine
<1> HIDE DEF made, rest
<1>4. FormatTypes'
  BY <1>1, <1>2, <1>3, AppendProperties DEF FormatTypes
<1>5. ASSUME Fits(u)
      PROVE  Said(u)' \o msg' = chat.msg /\ \A i \in 1..Len(lines') : Len(lines'[i]) <= Width
  <2>1. p \in Nat
    BY <1>1, FormatAssumption, ConcatProperties DEF Prefix, Text
  <2> HIDE DEF p
  <2> DEFINE before == FlattenSeq(Pieces(lines, p))
             piece == SubSeq(made, p + 1, Len(made))
  <2>2. Said(u) = before /\ Said(u)' = FlattenSeq(Pieces(lines', p))
    BY <1>3 DEF Said, Pieces, p
  <2>3. Said(u)' = before \o piece
    BY <1>1, <1>2, <1>3, <2>1, <2>2, PiecesAppend
  <2>4. before \in Seq(Character)
    BY <1>1, <2>1, PiecesTyped, FlattenType DEF Text
  <2>5. piece \in Seq(Character)
    <3> DEFINE m == p + 1
    <3>1. m \in Nat \ {0} /\ made \in Seq(Character) /\ Len(made) \in 0..Len(made)
      BY <1>2, <2>1 DEF Text
    <3> HIDE DEF m
    <3>2. SubSeq(made, m, Len(made)) \in Seq(Character)
      BY <3>1, SubSeqType
    <3> QED BY <3>2 DEF m
  <2>6. before \o msg = chat.msg /\ \A i \in 1..Len(lines) : Len(lines[i]) <= Width
    BY <1>5, <2>2 DEF ChatKept
  <2>7. piece \o rest = msg /\ rest \in Seq(Character)
    BY <1>2, <1>5 DEF Text, p
  <2> HIDE DEF before, piece
  <2>8. (before \o piece) \o rest = before \o (piece \o rest)
    <3>1. rest \in Seq(Character)
      BY <2>7
    <3> QED BY <3>1, <2>4, <2>5, ConcatAssociative
  <2>9. Said(u)' \o msg' = chat.msg
    BY <1>3, <2>3, <2>6, <2>7, <2>8
  <2>10. \A i \in 1..Len(lines') : Len(lines'[i]) <= Width
    <3> DEFINE n == Len(lines)
    <3>1. n \in Nat /\ Len(lines') = n + 1 /\ lines'[n + 1] = made
          /\ \A i \in 1..n : lines'[i] = lines[i]
      BY <1>1, <1>2, <1>3, AppendProperties
    <3> HIDE DEF n
    <3> TAKE i \in 1..Len(lines')
    <3>2. i = n + 1 \/ i \in 1..n
      BY <3>1
    <3> QED BY <3>1, <3>2, <1>2, <2>6 DEF n
  <2> QED BY <2>9, <2>10
<1>6. ChatKept'
  BY <1>3, <1>5 DEF ChatKept
<1> QED BY <1>4, <1>6

LEMMA FormatInitial == Init => FormatTypes /\ ChatKept
<1> SUFFICES ASSUME Init PROVE FormatTypes /\ ChatKept
  OBVIOUS
<1>1. chat = [username |-> <<>>, msg |-> <<>>] /\ msg = <<>> /\ lines = <<>>
  BY DEF Init, FormatInit
<1>2. FormatTypes
  BY <1>1 DEF FormatTypes, Text
<1>3. Len(lines) = 0
  BY <1>1
<1>4. Said(chat.username) = <<>>
  <2>1. Said(chat.username) = FlattenSeq(Pieces(lines, Len(Prefix(chat.username))))
    BY DEF Said, Pieces
  <2>2. \A p : Pieces(<<>>, p) = <<>>
    BY DEF Pieces
  <2> QED BY <1>1, <2>1, <2>2, FlattenEmpty
<1>5. <<>> \o <<>> = <<>>
  BY EmptySeq, ConcatEmptySeq
<1> QED BY <1>1, <1>2, <1>3, <1>4, <1>5 DEF ChatKept

LEMMA FormatStep == FormatTypes /\ ChatKept /\ [Next]_vars => FormatTypes' /\ ChatKept'
<1> SUFFICES ASSUME FormatTypes, ChatKept, [Next]_vars PROVE FormatTypes' /\ ChatKept'
  OBVIOUS
<1>1. ASSUME NEW p \in Player, Chat(p) PROVE FormatTypes' /\ ChatKept'
  <2>1. PICK text \in Messages : BeginFormat(Name[p], text)
    BY <1>1 DEF Chat
  <2>2. Name[p] \in Text /\ text \in Text
    BY WorldAssumption
  <2> DEFINE m == trimRight(text)
  <2>3. m \in Text
    BY <2>2, TrimTyped
  <2>4. chat' = [username |-> Name[p], msg |-> m] /\ msg' = m /\ lines' = <<>>
    BY <2>1 DEF BeginFormat
  <2> HIDE DEF m
  <2>5. FormatTypes'
    BY <2>2, <2>3, <2>4 DEF FormatTypes
  <2>6. Said(chat.username)' = <<>>
    <3>1. Said(chat.username)' = FlattenSeq(Pieces(lines', Len(Prefix(chat'.username))))
      BY DEF Said, Pieces, Prefix
    <3>2. \A k : Pieces(<<>>, k) = <<>>
      BY DEF Pieces
    <3> QED BY <2>4, <3>1, <3>2, FlattenEmpty
  <2>7. <<>> \o m = m /\ chat'.msg = m /\ Len(lines') = 0
    BY <2>3, <2>4, ConcatEmptySeq DEF Text
  <2>8. (Said(chat.username) \o msg = chat.msg)'
    BY <2>4, <2>6, <2>7
  <2>9. (\A i \in 1..Len(lines) : Len(lines[i]) <= Width)'
    <3>1. \A i \in 1..0 : FALSE
      OBVIOUS
    <3> QED BY <2>7, <3>1
  <2> QED BY <2>5, <2>8, <2>9 DEF ChatKept
<1>2. CASE MultiLine
  BY <1>2, LineStep DEF MultiLine
<1>3. ASSUME UNCHANGED formatVars PROVE FormatTypes' /\ ChatKept'
  BY <1>3 DEF formatVars, FormatTypes, ChatKept, Said
<1>4. CASE ~ (MultiLine \/ \E p \in Player : Chat(p))
  <2>1. UNCHANGED formatVars
    BY <1>4 DEF Next, vars, Cut, CutCrashes, Booted, Join, SendMapChunk, SendMapFinal, Leave,
       Movement, MultiLineFails, FormatFails, SendChat
  <2> QED BY <2>1, <1>3
<1> QED BY <1>1, <1>2, <1>4

\* Whatever the message, the width of a line and the number of iterations: if
\* the name leaves room for text, no text is lost, doubled or out of order, and
\* every line fits into a packet.
THEOREM ChatAlwaysKept == Spec => []ChatKept
<1>1. Init => FormatTypes /\ ChatKept
  BY FormatInitial
<1> QED BY <1>1, FormatStep, PTL DEF Spec

-----------------------------------------------------------------------------
(* Types.                                                                  *)

Counted == proc \in {"cutting", "idle", "format", "down"} /\ moves \in Nat /\ chats \in Nat

LEMMA CountedStep == Counted /\ [Next]_vars => Counted'
BY DEF Counted, Next, vars, Cut, CutCrashes, Booted, Join, SendMapChunk, SendMapFinal, Leave,
   Movement, Chat, MultiLine, MultiLineFails, SendChat

\* The variables of the world keep their types: the map and its packets, the
\* rosters, positions and what clients show.
THEOREM TypesAlwaysHold == Spec => []TypeOK
<1>1. Init => ViewTypes /\ Views /\ CutInv /\ MapInv /\ Counted /\ FormatTypes /\ ChatKept
  BY ViewsInit, CutInvInit, MapInit, FormatInitial DEF Init, Counted
<1>2. ViewTypes /\ Views /\ CutInv /\ MapInv /\ Counted /\ FormatTypes /\ ChatKept /\ [Next]_vars
        => ViewTypes' /\ Views' /\ CutInv' /\ MapInv' /\ Counted' /\ FormatTypes' /\ ChatKept'
  BY ViewsStep, MapStep, CountedStep, FormatStep
<1>3. ViewTypes /\ CutInv /\ MapInv /\ Counted /\ FormatTypes => TypeOK
  BY DEF ViewTypes, CutInv, MapInv, Counted, FormatTypes, TypeOK, Chunk
<1> QED BY <1>1, <1>2, <1>3, PTL DEF Spec

=============================================================================
