----------------------------- MODULE SequenceFacts -----------------------------
(***************************************************************************)
(* Facts about naturals, sequences and their concatenation that the proofs *)
(* of several modules rest on: the least element of a set of naturals and  *)
(* the induction it gives, and what FlattenSeq, a recursive function,      *)
(* computes for sequences of any length.                                   *)
(***************************************************************************)
EXTENDS Integers, SequencesExt, FiniteSetTheorems, SequenceTheorems,
        WellFoundedInduction, TLAPS

-----------------------------------------------------------------------------
(* Naturals.                                                               *)

\* Every set of naturals but the empty one has a least element, which Min is:
\* the intervals 0..n are finite, and one of them is contained in no other.
LEMMA LeastNatural ==
    ASSUME NEW S \in SUBSET Nat, S # {}
    PROVE  Min(S) \in S /\ \A x \in S : Min(S) <= x
<1> DEFINE Below == {0..n : n \in S}
<1>1. IsWellFoundedOn(StrictSubsetOrdering(Nat), FiniteSubsetsOf(Nat))
  BY FS_StrictSubsetOrderingWellFounded
<1>2. \A n \in S : 0..n \in FiniteSubsetsOf(Nat)
  <2> TAKE n \in S
  <2>1. IsFiniteSet(0..n)
    BY FS_Interval
  <2> QED
    BY <2>1 DEF FiniteSubsetsOf
<1>3. Below \subseteq FiniteSubsetsOf(Nat) /\ Below # {}
  BY <1>2
<1>4. PICK I \in Below :
          \A J \in Below : ~ (<<J, I>> \in StrictSubsetOrdering(Nat))
  <2> HIDE DEF Below
  <2> QED
    BY <1>1, <1>3, WFMin
<1>5. PICK m \in S : I = 0..m
  OBVIOUS
<1>6. \A x \in S : m <= x
  <2> SUFFICES ASSUME NEW x \in S, x < m PROVE FALSE
    OBVIOUS
  <2>1. 0..x \in Below /\ 0..x \subseteq 0..m /\ 0..x # 0..m
    OBVIOUS
  <2>2. <<0..x, 0..m>> \in StrictSubsetOrdering(Nat)
    BY <2>1 DEF StrictSubsetOrdering
  <2> QED
    BY <2>1, <2>2, <1>4, <1>5
<1> QED
  BY <1>6 DEF Min

\* Induction, over the set of the naturals a claim holds for.
LEMMA Induction ==
    ASSUME NEW S, 0 \in S, \A n \in Nat : n \in S => n + 1 \in S
    PROVE  Nat \subseteq S
<1> SUFFICES ASSUME Nat \ S # {} PROVE FALSE
  OBVIOUS
<1> DEFINE m == Min(Nat \ S)
<1>1. m \in Nat \ S /\ \A x \in Nat \ S : m <= x
  BY LeastNatural
<1> HIDE DEF m
<1>2. m # 0 /\ m - 1 \in Nat /\ m - 1 \in S
  BY <1>1
<1> QED
  BY <1>1, <1>2

-----------------------------------------------------------------------------
(* FlattenSeq.                                                             *)

\* f is the function that FlattenSeq defines by recursion: what the first n
\* of the sequences ss, the first i for each i, make in a row.
Rows(f, ss, n) ==
    f = [i \in 1..n |-> IF i = 1 THEN ss[i] ELSE f[i - 1] \o ss[i]]

\* The first n elements of tt are those of ss, and sequences over T.
Shared(ss, tt, n, T) == \A i \in 1..n : ss[i] \in Seq(T) /\ tt[i] = ss[i]

LEMMA RowsExist ==
    ASSUME NEW ss, NEW n \in Nat
    PROVE  \E f : Rows(f, ss, n)
<1> DEFINE S == {k \in Nat : \E f : Rows(f, ss, k)}
<1>1. 0 \in S
  <2> DEFINE e == [i \in 1..0 |-> 0]
  <2>1. e = [i \in 1..0 |-> IF i = 1 THEN ss[i] ELSE e[i - 1] \o ss[i]]
    OBVIOUS
  <2> QED
    BY <2>1 DEF Rows
<1>2. ASSUME NEW k \in Nat, k \in S PROVE k + 1 \in S
  <2>1. PICK f : Rows(f, ss, k)
    BY <1>2
  <2> DEFINE last == IF k = 0 THEN ss[1] ELSE f[k] \o ss[k + 1]
             g == [i \in 1..(k + 1) |-> IF i = k + 1 THEN last ELSE f[i]]
  <2>2. \A i \in 1..k : f[i] = IF i = 1 THEN ss[i] ELSE f[i - 1] \o ss[i]
    BY <2>1 DEF Rows
  <2>3. /\ DOMAIN g = 1..(k + 1) /\ g = [i \in 1..(k + 1) |-> g[i]]
        /\ g[k + 1] = last
    OBVIOUS
  <2>4. \A i \in 1..k : g[i] = f[i]
    OBVIOUS
  <2> HIDE DEF g
  <2>5. ASSUME NEW i \in 1..(k + 1)
        PROVE  g[i] = IF i = 1 THEN ss[i] ELSE g[i - 1] \o ss[i]
    <3>1. CASE i = k + 1 /\ k = 0
      BY <3>1, <2>3
    <3>2. CASE i = k + 1 /\ k # 0
      <4>1. k \in 1..k /\ i - 1 = k
        BY <3>2
      <4>2. g[i] = f[k] \o ss[i] /\ g[i - 1] = f[k]
        BY <4>1, <3>2, <2>3, <2>4
      <4>3. i # 1
        BY <3>2
      <4> QED
        BY <4>2, <4>3
    <3>3. CASE i \in 1..k /\ i = 1
      BY <3>3, <2>2, <2>4
    <3>4. CASE i \in 1..k /\ i # 1
      <4>1. i - 1 \in 1..k
        BY <3>4
      <4>2. g[i] = f[i] /\ g[i - 1] = f[i - 1]
        BY <4>1, <3>4, <2>4
      <4>3. f[i] = f[i - 1] \o ss[i]
        BY <3>4, <2>2
      <4> QED
        BY <4>2, <4>3, <3>4
    <3> QED
      BY <3>1, <3>2, <3>3, <3>4
  <2>6. Rows(g, ss, k + 1)
    BY <2>3, <2>5 DEF Rows
  <2> QED
    BY <2>6
<1> HIDE DEF S
<1>3. Nat \subseteq S
  BY <1>1, <1>2, Induction
<1> QED
  BY <1>3 DEF S

LEMMA FlattenRows ==
    ASSUME NEW ss, Len(ss) \in Nat, Len(ss) # 0
    PROVE  \E f : Rows(f, ss, Len(ss)) /\ FlattenSeq(ss) = f[Len(ss)]
<1> DEFINE f == CHOOSE f : Rows(f, ss, Len(ss))
<1>1. Rows(f, ss, Len(ss))
  BY RowsExist
<1>2. FlattenSeq(ss) = f[Len(ss)]
  BY DEF FlattenSeq, Rows
<1> QED
  BY <1>1, <1>2

\* The rows of sequences over T are sequences over T; rows of ss and of a
\* longer tt that begins with ss begin with the same values.
LEMMA RowsAgree ==
    ASSUME NEW T, NEW n \in Nat, NEW m \in Nat, n <= m,
           NEW ss, NEW tt, Shared(ss, tt, n, T),
           NEW f, Rows(f, ss, n), NEW g, Rows(g, tt, m)
    PROVE  Shared(f, g, n, T)
<1> USE DEF Shared
<1> DEFINE S == {k \in Nat : k \in 1..n => f[k] \in Seq(T) /\ g[k] = f[k]}
<1>1. 0 \in S
  OBVIOUS
<1>2. \A i \in 1..n : f[i] = IF i = 1 THEN ss[i] ELSE f[i - 1] \o ss[i]
  BY DEF Rows
<1>3. \A i \in 1..n : g[i] = IF i = 1 THEN tt[i] ELSE g[i - 1] \o tt[i]
  <2>1. \A i \in 1..m : g[i] = IF i = 1 THEN tt[i] ELSE g[i - 1] \o tt[i]
    BY DEF Rows
  <2> QED
    BY <2>1
<1>4. ASSUME NEW k \in Nat, k \in S PROVE k + 1 \in S
  <2> SUFFICES ASSUME k + 1 \in 1..n
               PROVE  f[k + 1] \in Seq(T) /\ g[k + 1] = f[k + 1]
    OBVIOUS
  <2>1. CASE k = 0
    BY <2>1, <1>2, <1>3
  <2>2. CASE k # 0
    <3>1. k \in 1..n /\ k + 1 # 1 /\ (k + 1) - 1 = k
      BY <2>2
    <3>2. f[k] \in Seq(T) /\ g[k] = f[k]
      BY <1>4, <3>1
    <3>3. f[k + 1] = f[k] \o ss[k + 1] /\ g[k + 1] = g[k] \o tt[k + 1]
      BY <1>2, <1>3, <3>1
    <3>4. ss[k + 1] \in Seq(T) /\ tt[k + 1] = ss[k + 1]
      OBVIOUS
    <3> QED
      BY <3>2, <3>3, <3>4
  <2> QED
    BY <2>1, <2>2
<1> HIDE DEF S
<1>5. Nat \subseteq S
  BY <1>1, <1>4, Induction
<1> QED
  BY <1>5 DEF S

LEMMA FlattenEmpty == FlattenSeq(<<>>) = <<>>
  BY DEF FlattenSeq

\* FlattenSeq is a homomorphism: an element more is that sequence behind.
LEMMA FlattenAppend ==
    ASSUME NEW T, NEW ss \in Seq(Seq(T)), NEW s \in Seq(T)
    PROVE  /\ FlattenSeq(ss) \in Seq(T)
           /\ FlattenSeq(Append(ss, s)) = FlattenSeq(ss) \o s
<1> DEFINE n == Len(ss)
           tt == Append(ss, s)
<1>1. /\ n \in Nat /\ tt \in Seq(Seq(T)) /\ Len(tt) = n + 1
      /\ tt[n + 1] = s /\ \A i \in 1..n : ss[i] \in Seq(T) /\ tt[i] = ss[i]
  OBVIOUS
<1> HIDE DEF tt, n
<1>2. PICK g : Rows(g, tt, n + 1) /\ FlattenSeq(tt) = g[n + 1]
  BY <1>1, FlattenRows
<1>3. g[n + 1] = IF n + 1 = 1 THEN s ELSE g[n] \o s
  <2>1. g = [i \in 1..(n + 1) |-> IF i = 1 THEN tt[i] ELSE g[i - 1] \o tt[i]]
    BY <1>2 DEF Rows
  <2>2. n + 1 \in 1..(n + 1) /\ (n + 1) - 1 = n
    BY <1>1
  <2>3. g[n + 1] = IF n + 1 = 1 THEN tt[n + 1] ELSE g[n] \o tt[n + 1]
    BY <2>1, <2>2
  <2> QED
    BY <2>3, <1>1
<1>4. CASE n = 0
  <2>1. ss = <<>>
    BY <1>4 DEF n
  <2>2. FlattenSeq(ss) = <<>> /\ FlattenSeq(tt) = s
    BY <2>1, <1>2, <1>3, <1>4, FlattenEmpty
  <2>3. <<>> \in Seq(T) /\ <<>> \o s = s
    BY ConcatEmptySeq
  <2> QED
    BY <2>2, <2>3 DEF tt
<1>5. CASE n # 0
  <2>1. PICK f : Rows(f, ss, n) /\ FlattenSeq(ss) = f[n]
    BY <1>1, <1>5, FlattenRows DEF n
  <2>2. Shared(f, g, n, T)
    <3> DEFINE m == n + 1
    <3>1. n \in Nat /\ m \in Nat /\ n <= m
      BY <1>1
    <3>2. Shared(ss, tt, n, T)
      BY <1>1 DEF Shared
    <3>3. Rows(f, ss, n) /\ Rows(g, tt, m)
      BY <1>2, <2>1
    <3> HIDE DEF m
    <3> QED
      BY <3>1, <3>2, <3>3, RowsAgree
  <2>3. f[n] \in Seq(T) /\ g[n] = f[n] /\ n + 1 # 1
    BY <2>2, <1>1, <1>5 DEF Shared
  <2> QED
    BY <2>1, <2>3, <1>2, <1>3 DEF tt
<1> QED
  BY <1>4, <1>5

LEMMA FlattenType ==
    ASSUME NEW T, NEW ss \in Seq(Seq(T))
    PROVE  FlattenSeq(ss) \in Seq(T)
<1>1. <<>> \in Seq(T)
  OBVIOUS
<1> QED
  BY <1>1, FlattenAppend

\* The elements one by one make the sequence again.
LEMMA FlattenSingles ==
    ASSUME NEW T, NEW s \in Seq(T)
    PROVE  FlattenSeq([i \in DOMAIN s |-> <<s[i]>>]) = s
<1> DEFINE Singles(t) == [i \in DOMAIN t |-> <<t[i]>>]
           S == {n \in Nat : \A t \in Seq(T) : Len(t) = n => FlattenSeq(Singles(t)) = t}
<1>1. ASSUME NEW t \in Seq(T) PROVE Singles(t) \in Seq(Seq(T)) /\ Len(Singles(t)) = Len(t)
  <2>1. Len(t) \in Nat /\ DOMAIN t = 1..Len(t) /\ \A i \in 1..Len(t) : <<t[i]>> \in Seq(T)
    OBVIOUS
  <2>2. Singles(t) \in [1..Len(t) -> Seq(T)]
    BY <2>1
  <2> QED
    BY <2>1, <2>2
<1>2. 0 \in S
  <2>1. ASSUME NEW t \in Seq(T), Len(t) = 0 PROVE FlattenSeq(Singles(t)) = t
    <3>1. t = <<>> /\ Singles(t) = <<>>
      BY <1>1, <2>1, EmptySeq
    <3> QED
      BY <3>1, FlattenEmpty
  <2> QED
    BY <2>1
<1>3. ASSUME NEW n \in Nat, n \in S PROVE n + 1 \in S
  <2>1. ASSUME NEW t \in Seq(T), Len(t) = n + 1 PROVE FlattenSeq(Singles(t)) = t
    <3>0. t # <<>>
      BY <2>1
    <3>1. PICK r \in Seq(T), c \in T : t = Append(r, c)
      BY <3>0, SequenceEmptyOrAppend
    <3>2. /\ Len(r) = n /\ t[n + 1] = c /\ DOMAIN r = 1..n /\ DOMAIN t = 1..(n + 1)
          /\ \A i \in 1..n : t[i] = r[i]
      BY <2>1, <3>1
    <3> DEFINE short == Singles(r)
               long == Singles(t)
               one == <<c>>
               made == Append(short, one)
    <3>3. short \in Seq(Seq(T)) /\ Len(short) = n /\ long \in Seq(Seq(T)) /\ Len(long) = n + 1
      BY <1>1, <2>1, <3>2
    <3>4. one \in Seq(T) /\ long[n + 1] = one /\ \A i \in 1..n : long[i] = short[i]
      BY <3>2
    <3>5. FlattenSeq(short) = r
      BY <1>3, <3>2
    <3> HIDE DEF short, long, one
    <3>6. /\ made \in Seq(Seq(T)) /\ Len(made) = n + 1 /\ made[n + 1] = one
          /\ \A i \in 1..n : made[i] = short[i]
      BY <3>3, <3>4, AppendProperties
    <3>7. FlattenSeq(made) = FlattenSeq(short) \o one
      BY <3>3, <3>4, FlattenAppend
    <3> HIDE DEF made
    <3>8. long = made
      <4>1. ASSUME NEW i \in 1..(n + 1) PROVE long[i] = made[i]
        <5>1. i = n + 1 \/ i \in 1..n
          OBVIOUS
        <5> QED
          BY <5>1, <3>4, <3>6
      <4> QED
        BY <4>1, <3>3, <3>6, SeqEqual
    <3>9. r \o one = t
      BY <3>1, AppendIsConcat DEF one
    <3> QED
      BY <3>5, <3>7, <3>8, <3>9 DEF long
  <2> QED
    BY <2>1
<1> HIDE DEF S
<1>4. Nat \subseteq S
  BY <1>2, <1>3, Induction
<1>5. Len(s) \in Nat
  OBVIOUS
<1> QED
  BY <1>4, <1>5 DEF S

-----------------------------------------------------------------------------
(* Where the elements of a flattened sequence are.                         *)

\* What the first n of the sequences ss make in a row.
Joined(ss, n) == FlattenSeq(SubSeq(ss, 1, n))

LEMMA SubSeqType ==
    ASSUME NEW T, NEW s \in Seq(T), NEW m \in Nat \ {0}, NEW n \in 0..Len(s)
    PROVE  /\ SubSeq(s, m, n) \in Seq(T)
           /\ Len(SubSeq(s, m, n)) = IF m <= n THEN n - m + 1 ELSE 0
           /\ \A i \in 1..(n - m + 1) : SubSeq(s, m, n)[i] = s[m + i - 1]
<1>1. \A i \in m..n : s[i] \in T
  OBVIOUS
<1>2. m \in Int /\ n \in Int
  OBVIOUS
<1> QED
  BY <1>1, <1>2, SubSeqProperties

LEMMA JoinedEnds ==
    ASSUME NEW T, NEW ss \in Seq(Seq(T))
    PROVE  /\ Joined(ss, 0) = <<>>
           /\ Joined(ss, Len(ss)) = FlattenSeq(ss)
           /\ \A n \in 0..Len(ss) : Joined(ss, n) \in Seq(T) /\ Len(Joined(ss, n)) \in Nat
<1>1. SubSeq(ss, 1, 0) = <<>> /\ SubSeq(ss, 1, Len(ss)) = ss
  BY SubSeqEmpty, SubSeqFull
<1>2. ASSUME NEW n \in 0..Len(ss) PROVE Joined(ss, n) \in Seq(T) /\ Len(Joined(ss, n)) \in Nat
  <2>1. SubSeq(ss, 1, n) \in Seq(Seq(T))
    BY SubSeqType
  <2>2. Joined(ss, n) \in Seq(T)
    BY <2>1, FlattenType DEF Joined
  <2> QED
    BY <2>2, LenProperties
<1> QED
  BY <1>1, <1>2, FlattenEmpty DEF Joined

LEMMA JoinedStep ==
    ASSUME NEW T, NEW ss \in Seq(Seq(T)), NEW n \in 1..Len(ss)
    PROVE  Joined(ss, n) = Joined(ss, n - 1) \o ss[n]
<1>1. /\ SubSeq(ss, 1, n) \in Seq(Seq(T)) /\ Len(SubSeq(ss, 1, n)) = n
      /\ \A i \in 1..n : SubSeq(ss, 1, n)[i] = ss[i]
  BY SubSeqType
<1>2. /\ SubSeq(ss, 1, n - 1) \in Seq(Seq(T)) /\ Len(SubSeq(ss, 1, n - 1)) = n - 1
      /\ \A i \in 1..(n - 1) : SubSeq(ss, 1, n - 1)[i] = ss[i]
  <2>1. n - 1 \in 0..Len(ss)
    OBVIOUS
  <2> QED
    BY <2>1, SubSeqType
<1> DEFINE shorter == SubSeq(ss, 1, n - 1)
           longer  == SubSeq(ss, 1, n)
<1>3. longer = Append(shorter, ss[n])
  <2>1. /\ Append(shorter, ss[n]) \in Seq(Seq(T)) /\ Len(Append(shorter, ss[n])) = n
        /\ \A i \in 1..(n - 1) : Append(shorter, ss[n])[i] = ss[i]
        /\ Append(shorter, ss[n])[n] = ss[n]
    <3> HIDE DEF shorter
    <3>1. ss[n] \in Seq(T) /\ shorter \in Seq(Seq(T)) /\ Len(shorter) = n - 1
      BY <1>2 DEF shorter
    <3>2. \A i \in 1..(n - 1) : shorter[i] = ss[i]
      BY <1>2 DEF shorter
    <3> QED
      BY <3>1, <3>2, AppendProperties
  <2> HIDE DEF shorter, longer
  <2>2. longer \in Seq(Seq(T)) /\ Len(longer) = n /\ \A i \in 1..n : longer[i] = ss[i]
    BY <1>1 DEF longer
  <2>3. ASSUME NEW i \in 1..n PROVE longer[i] = Append(shorter, ss[n])[i]
    <3>1. i = n \/ i \in 1..(n - 1)
      OBVIOUS
    <3> QED
      BY <3>1, <2>1, <2>2
  <2> QED
    BY <2>1, <2>2, <2>3, SeqEqual
<1>4. ss[n] \in Seq(T)
  OBVIOUS
<1> HIDE DEF shorter, longer
<1>5. FlattenSeq(Append(shorter, ss[n])) = FlattenSeq(shorter) \o ss[n]
  BY <1>2, <1>4, FlattenAppend DEF shorter
<1> QED
  BY <1>3, <1>5 DEF Joined, shorter, longer

LEMMA JoinedPrefix ==
    ASSUME NEW T, NEW ss \in Seq(Seq(T)), NEW k \in 0..Len(ss)
    PROVE  \E rest \in Seq(T) : FlattenSeq(ss) = Joined(ss, k) \o rest
<1> DEFINE Good(n) == \E rest \in Seq(T) : Joined(ss, n) = Joined(ss, k) \o rest
           S == {n \in Nat : n \in k..Len(ss) => Good(n)}
<1>0. \A n : n \in S <=> n \in Nat /\ (n \in k..Len(ss) => Good(n))
  OBVIOUS
<1>1. Good(k)
  <2>1. Joined(ss, k) \in Seq(T)
    BY JoinedEnds
  <2> QED
    BY <2>1, ConcatEmptySeq, EmptySeq
<1> HIDE DEF S
<1>2. 0 \in S
  <2>1. 0 \in k..Len(ss) => k = 0
    OBVIOUS
  <2> HIDE DEF Good
  <2> QED
    BY <2>1, <1>0, <1>1
<1>3. ASSUME NEW n \in Nat, n \in S PROVE n + 1 \in S
  <2> SUFFICES ASSUME n + 1 \in k..Len(ss) PROVE Good(n + 1)
    <3> HIDE DEF Good
    <3> QED
      BY <1>0
  <2>1. CASE n + 1 = k
    BY <2>1, <1>1
  <2>2. CASE n + 1 # k
    <3>1. n \in k..Len(ss) /\ n + 1 \in 1..Len(ss) /\ (n + 1) - 1 = n
      BY <2>2
    <3>2. PICK rest \in Seq(T) : Joined(ss, n) = Joined(ss, k) \o rest
      BY <1>0, <1>3, <3>1
    <3>3. Joined(ss, n + 1) = Joined(ss, n) \o ss[n + 1]
      BY <3>1, JoinedStep
    <3>4. Joined(ss, k) \in Seq(T) /\ ss[n + 1] \in Seq(T)
      BY <3>1, JoinedEnds
    <3>5. rest \o ss[n + 1] \in Seq(T)
      BY <3>4, ConcatProperties
    <3>6. (Joined(ss, k) \o rest) \o ss[n + 1] = Joined(ss, k) \o (rest \o ss[n + 1])
      <4> DEFINE a == Joined(ss, k)
                 c == ss[n + 1]
      <4>1. a \in Seq(T) /\ c \in Seq(T)
        BY <3>4
      <4> HIDE DEF a, c
      <4>2. (a \o rest) \o c = a \o (rest \o c)
        BY <4>1, ConcatAssociative
      <4> QED
        BY <4>2 DEF a, c
    <3> QED
      BY <3>2, <3>3, <3>5, <3>6
  <2> QED
    BY <2>1, <2>2
<1>4. Nat \subseteq S
  BY <1>2, <1>3, Induction
<1>5. Good(Len(ss))
  <2>1. Len(ss) \in Nat /\ Len(ss) \in k..Len(ss)
    OBVIOUS
  <2> HIDE DEF Good
  <2> QED
    BY <2>1, <1>0, <1>4
<1> QED
  BY <1>5, JoinedEnds

\* Each of the sequences is found in the flattened one, behind those before it.
LEMMA FlattenAt ==
    ASSUME NEW T, NEW ss \in Seq(Seq(T)), NEW n \in 1..Len(ss)
    PROVE  /\ Len(Joined(ss, n)) = Len(Joined(ss, n - 1)) + Len(ss[n])
           /\ Len(Joined(ss, n)) <= Len(FlattenSeq(ss))
           /\ \A j \in 1..Len(ss[n]) :
                 FlattenSeq(ss)[Len(Joined(ss, n - 1)) + j] = ss[n][j]
<1> DEFINE before == Joined(ss, n - 1)
<1>1. before \in Seq(T) /\ ss[n] \in Seq(T) /\ Joined(ss, n) \in Seq(T)
  <2>1. n - 1 \in 0..Len(ss) /\ n \in 0..Len(ss)
    OBVIOUS
  <2> QED
    BY <2>1, JoinedEnds
<1>2. Joined(ss, n) = before \o ss[n]
  BY JoinedStep
<1>3. PICK rest \in Seq(T) : FlattenSeq(ss) = Joined(ss, n) \o rest
  <2>1. n \in 0..Len(ss)
    OBVIOUS
  <2> QED
    BY <2>1, JoinedPrefix
<1> HIDE DEF before
<1>4. Len(Joined(ss, n)) = Len(before) + Len(ss[n])
  BY <1>1, <1>2, ConcatProperties
<1>5. Len(FlattenSeq(ss)) = Len(Joined(ss, n)) + Len(rest) /\ Len(rest) \in Nat
  BY <1>1, <1>3, ConcatProperties
<1>6. ASSUME NEW j \in 1..Len(ss[n]) PROVE FlattenSeq(ss)[Len(before) + j] = ss[n][j]
  <2> DEFINE i == Len(before) + j
  <2>1. /\ Len(before) \in Nat /\ Len(ss[n]) \in Nat /\ Len(rest) \in Nat
        /\ i \in 1..(Len(before) + Len(ss[n])) /\ i - Len(before) = j /\ i > Len(before)
    BY <1>1
  <2>2. (before \o ss[n])[i] = ss[n][j]
    BY <1>1, <2>1, ConcatProperties
  <2>3. i \in 1..(Len(Joined(ss, n)) + Len(rest)) /\ i <= Len(Joined(ss, n))
    BY <2>1, <1>4
  <2>4. (Joined(ss, n) \o rest)[i] = Joined(ss, n)[i]
    <3> HIDE DEF i
    <3> QED
      BY <1>1, <2>3, ConcatProperties
  <2> QED
    BY <2>2, <2>4, <1>2, <1>3
<1>7. Len(Joined(ss, n)) \in Nat
  BY <1>1
<1>8. Len(Joined(ss, n)) <= Len(FlattenSeq(ss))
  BY <1>5, <1>7
<1> QED
  BY <1>4, <1>6, <1>8 DEF before

\* A flattened sequence is empty only if all of its elements are.
LEMMA FlattenNonEmpty ==
    ASSUME NEW T, NEW ss \in Seq(Seq(T)), NEW n \in 1..Len(ss), ss[n] # <<>>
    PROVE  FlattenSeq(ss) # <<>>
<1> DEFINE a == Len(Joined(ss, n - 1))
           b == Len(ss[n])
           c == Len(Joined(ss, n))
<1>1. n - 1 \in 0..Len(ss) /\ ss[n] \in Seq(T)
  OBVIOUS
<1>2. a \in Nat
  BY <1>1, JoinedEnds
<1>3. b \in Nat /\ b # 0
  BY <1>1
<1>4. c = a + b /\ c <= Len(FlattenSeq(ss))
  BY FlattenAt
<1> HIDE DEF a, b, c
<1> SUFFICES ASSUME FlattenSeq(ss) = <<>> PROVE FALSE
  OBVIOUS
<1> QED
  BY <1>2, <1>3, <1>4

-----------------------------------------------------------------------------
\* Prefixes, element by element.
LEMMA PrefixIs ==
    ASSUME NEW T, NEW s \in Seq(T), NEW t \in Seq(T)
    PROVE  IsPrefix(s, t) <=> Len(s) <= Len(t) /\ \A i \in 1..Len(s) : s[i] = t[i]
<1>1. SubSeq(s, 1, Len(s)) = s
  BY SubSeqFull
<1> SUFFICES ASSUME Len(s) <= Len(t)
             PROVE  s = SubSeq(t, 1, Len(s)) <=> \A i \in 1..Len(s) : s[i] = t[i]
  BY <1>1 DEF IsPrefix
<1> DEFINE u == SubSeq(t, 1, Len(s))
<1>2. u \in Seq(T) /\ Len(u) = Len(s) /\ \A i \in 1..Len(s) : u[i] = t[i]
  <2>1. Len(s) \in 0..Len(t)
    OBVIOUS
  <2> QED
    BY <2>1, SubSeqType
<1> HIDE DEF u
<1>3. s = u <=> \A i \in 1..Len(s) : s[i] = t[i]
  BY <1>2, SeqEqual
<1> QED
  BY <1>3 DEF u

\* w is found right behind the first t elements of s.
FoundAt(s, w, t) ==
    t + Len(w) <= Len(s) /\ \A j \in 1..Len(w) : s[t + j] = w[j]

LEMMA SubSeqIs ==
    ASSUME NEW T, NEW s \in Seq(T), NEW w \in Seq(T), NEW t \in Nat,
           FoundAt(s, w, t)
    PROVE  SubSeq(s, t + 1, t + Len(w)) = w
<1> USE DEF FoundAt
<1> DEFINE m == t + 1
           n == t + Len(w)
           got == SubSeq(s, m, n)
<1>1. Len(w) \in Nat /\ Len(s) \in Nat
  OBVIOUS
<1>2. m \in Nat \ {0} /\ n \in 0..Len(s)
  BY <1>1
<1>3. n - m + 1 = Len(w) /\ (m <= n \/ Len(w) = 0)
  BY <1>1
<1>4. \A j \in 1..Len(w) : m + j - 1 = t + j
  BY <1>1
<1> HIDE DEF m, n
<1>5. /\ got \in Seq(T) /\ Len(got) = IF m <= n THEN n - m + 1 ELSE 0
      /\ \A j \in 1..(n - m + 1) : got[j] = s[m + j - 1]
  BY <1>2, SubSeqType
<1> HIDE DEF got
<1>6. Len(got) = Len(w)
  BY <1>3, <1>5
<1>7. \A j \in 1..Len(w) : got[j] = w[j]
  BY <1>3, <1>4, <1>5
<1>8. got = w
  BY <1>5, <1>6, <1>7, SeqEqual
<1> QED
  BY <1>8 DEF got, m, n

=============================================================================
