---------------------------- MODULE PlayerDB_proofs ----------------------------
(***************************************************************************)
(* Proofs about PlayerDB for any names, any number of rows and any number  *)
(* of lives: the index finds the first row of every name, and no other;    *)
(* what a completed save holds is found again by the lives that follow;    *)
(* and no name comes to have two rows unless it has a comma.  They rest on *)
(* what Escape and Unescape compute, for texts of any length.              *)
(***************************************************************************)
EXTENDS PlayerDB, SequenceFacts

-----------------------------------------------------------------------------
(* The texts of the file: Escape and Unescape take a character more.       *)

Comma == ","
Slash == "\\"

Bare(c) == c # Comma

HasComma(name) == \E k \in DOMAIN name : name[k] = Comma

Escaped(c) == IF c = "," THEN <<"\\", ",">> ELSE <<c>>

\* What Escape and Unescape join.
EscapePieces(name) == [i \in DOMAIN name |-> Escaped(name[i])]
UnescapePieces(text) ==
    [i \in DOMAIN text |-> IF Escaping(text, i) THEN <<>> ELSE <<text[i]>>]

LEMMA CharFacts ==
    /\ \A c \in Char : <<c>> \in Text /\ Len(<<c>>) = 1 /\ <<c>>[1] = c
    /\ <<>> \in Text /\ <<"\\", ",">> \in Text /\ Len(<<"\\", ",">>) = 2
    /\ <<"\\", ",">>[1] = "\\" /\ <<"\\", ",">>[2] = "," /\ "\\" # ","
    /\ "\\" \in Char /\ "," \in Char
  BY DEF Char, Text

LEMMA PiecesTyped ==
    ASSUME NEW text \in Text
    PROVE  /\ EscapePieces(text) \in Seq(Text) /\ Len(EscapePieces(text)) = Len(text)
           /\ UnescapePieces(text) \in Seq(Text)
           /\ Len(UnescapePieces(text)) = Len(text)
<1>1. Len(text) \in Nat /\ DOMAIN text = 1..Len(text)
      /\ \A i \in 1..Len(text) : text[i] \in Char
  BY DEF Text
<1>2. \A i \in 1..Len(text) : EscapePieces(text)[i] \in Text
  BY <1>1, CharFacts DEF EscapePieces, Escaped
<1>3. \A i \in 1..Len(text) : UnescapePieces(text)[i] \in Text
  BY <1>1, CharFacts DEF UnescapePieces
<1>4. /\ EscapePieces(text) \in [1..Len(text) -> Text]
      /\ UnescapePieces(text) \in [1..Len(text) -> Text]
  BY <1>1, <1>2, <1>3 DEF EscapePieces, UnescapePieces
<1> QED
  BY <1>1, <1>4

LEMMA TextTyped ==
    ASSUME NEW text \in Text
    PROVE  /\ Escape(text) \in Text /\ Unescape(text) \in Text
           /\ Escape(text) = FlattenSeq(EscapePieces(text))
           /\ Unescape(text) = FlattenSeq(UnescapePieces(text))
<1>1. Escape(text) = FlattenSeq(EscapePieces(text))
  BY DEF Escape, EscapePieces, Escaped
<1>2. Unescape(text) = FlattenSeq(UnescapePieces(text))
  BY DEF Unescape, UnescapePieces
<1> QED
  BY <1>1, <1>2, PiecesTyped, FlattenType DEF Text

LEMMA EscapeAppend ==
    ASSUME NEW name \in Text, NEW c \in Char
    PROVE  Escape(Append(name, c)) = Escape(name) \o Escaped(c)
<1> DEFINE longer == Append(name, c)
           n == Len(name)
<1>1. /\ longer \in Text /\ n \in Nat /\ Len(longer) = n + 1 /\ longer[n + 1] = c
      /\ DOMAIN longer = 1..(n + 1) /\ DOMAIN name = 1..n
      /\ \A i \in 1..n : longer[i] = name[i]
  BY DEF Text
<1>2. Escaped(c) \in Text
  BY CharFacts DEF Escaped
<1> HIDE DEF longer, n
<1> DEFINE short == EscapePieces(name)
           long == EscapePieces(longer)
           made == Append(short, Escaped(c))
<1>3. short \in Seq(Text) /\ Len(short) = n /\ long \in Seq(Text) /\ Len(long) = n + 1
  BY <1>1, PiecesTyped DEF n
<1>4. \A i \in 1..n : long[i] = short[i]
  BY <1>1 DEF EscapePieces
<1>5. long[n + 1] = Escaped(c)
  BY <1>1 DEF EscapePieces
<1> HIDE DEF short, long
<1>6. /\ made \in Seq(Text) /\ Len(made) = n + 1 /\ made[n + 1] = Escaped(c)
      /\ \A i \in 1..n : made[i] = short[i]
  BY <1>1, <1>2, <1>3, AppendProperties
<1> HIDE DEF made
<1>7. long = made
  <2>1. ASSUME NEW i \in 1..(n + 1) PROVE long[i] = made[i]
    <3>1. i = n + 1 \/ i \in 1..n
      BY <1>1
    <3> QED
      BY <3>1, <1>4, <1>5, <1>6
  <2> QED
    BY <2>1, <1>3, <1>6, SeqEqual
<1>8. FlattenSeq(made) = FlattenSeq(short) \o Escaped(c)
  BY <1>2, <1>3, FlattenAppend DEF made, Text
<1> QED
  BY <1>1, <1>7, <1>8, TextTyped DEF short, long, longer

\* A character that is no comma makes no escape of what comes before it.
LEMMA UnescapeAppend ==
    ASSUME NEW text \in Text, NEW c \in Char, Bare(c)
    PROVE  Unescape(Append(text, c)) = Append(Unescape(text), c)
<1> DEFINE longer == Append(text, c)
           n == Len(text)
<1>1. /\ longer \in Text /\ n \in Nat /\ Len(longer) = n + 1 /\ longer[n + 1] = c
      /\ DOMAIN longer = 1..(n + 1) /\ DOMAIN text = 1..n
      /\ \A i \in 1..n : longer[i] = text[i]
  BY DEF Text
<1> HIDE DEF longer, n
<1>2. \A i \in 1..n : Escaping(longer, i) <=> Escaping(text, i)
  <2> TAKE i \in 1..n
  <2>1. CASE i = n
    <3>1. ~(n < n) /\ Len(text) = n
      BY <1>1 DEF n
    <3> QED
      BY <2>1, <3>1, <1>1 DEF Escaping, Bare, Comma
  <2>2. CASE i # n
    <3>1. i < n /\ i + 1 \in 1..n /\ i < n + 1
      BY <2>2, <1>1
    <3>2. Len(text) = n
      BY DEF n
    <3> QED
      BY <3>1, <3>2, <1>1 DEF Escaping
  <2> QED
    BY <2>1, <2>2
<1>3. ~Escaping(longer, n + 1)
  <2>1. ~(n + 1 < n + 1)
    BY <1>1
  <2> QED
    BY <2>1, <1>1 DEF Escaping
<1> DEFINE short == UnescapePieces(text)
           long == UnescapePieces(longer)
           made == Append(short, <<c>>)
<1>4. short \in Seq(Text) /\ Len(short) = n /\ long \in Seq(Text) /\ Len(long) = n + 1
  BY <1>1, PiecesTyped DEF n
<1>5. \A i \in 1..n : long[i] = short[i]
  BY <1>1, <1>2 DEF UnescapePieces
<1>6. long[n + 1] = <<c>>
  BY <1>1, <1>3 DEF UnescapePieces
<1> HIDE DEF short, long
<1>7. /\ made \in Seq(Text) /\ Len(made) = n + 1 /\ made[n + 1] = <<c>>
      /\ \A i \in 1..n : made[i] = short[i]
  <2>1. <<c>> \in Text
    BY CharFacts
  <2> QED
    BY <1>1, <1>4, <2>1, AppendProperties
<1> HIDE DEF made
<1>8. long = made
  <2>1. ASSUME NEW i \in 1..(n + 1) PROVE long[i] = made[i]
    <3>1. i = n + 1 \/ i \in 1..n
      BY <1>1
    <3> QED
      BY <3>1, <1>5, <1>6, <1>7
  <2> QED
    BY <2>1, <1>4, <1>7, SeqEqual
<1>9. <<c>> \in Text
  BY CharFacts
<1>10. FlattenSeq(made) = FlattenSeq(short) \o <<c>>
  BY <1>4, <1>9, FlattenAppend DEF made, Text
<1>11. Unescape(longer) = Unescape(text) \o <<c>> /\ Unescape(text) \in Text
  BY <1>1, <1>8, <1>10, TextTyped DEF short, long
<1> QED
  BY <1>11, AppendIsConcat DEF longer, Text

\* An escaped comma becomes a comma.
LEMMA UnescapeComma ==
    ASSUME NEW text \in Text
    PROVE  Unescape(text \o <<"\\", ",">>) = Append(Unescape(text), ",")
<1> DEFINE pair == <<"\\", ",">>
           longer == text \o pair
           n == Len(text)
<1>0. pair \in Text /\ Len(pair) = 2 /\ pair[1] = "\\" /\ pair[2] = ","
  BY CharFacts
<1> HIDE DEF pair
<1>1. /\ longer \in Text /\ n \in Nat /\ Len(longer) = n + 2
      /\ DOMAIN longer = 1..(n + 2) /\ DOMAIN text = 1..n
      /\ \A i \in 1..n : longer[i] = text[i]
      /\ longer[n + 1] = "\\" /\ longer[n + 2] = ","
  <2>1. text \in Seq(Char) /\ pair \in Seq(Char)
    BY <1>0 DEF Text
  <2>2. /\ longer \in Seq(Char) /\ Len(longer) = Len(text) + Len(pair)
        /\ \A i \in 1..(Len(text) + Len(pair)) :
              longer[i] = IF i <= Len(text) THEN text[i] ELSE pair[i - Len(text)]
    BY <2>1, ConcatProperties
  <2>3. n \in Nat /\ DOMAIN text = 1..n /\ DOMAIN longer = 1..Len(longer)
    BY <2>1, <2>2
  <2> HIDE DEF longer, n
  <2>4. /\ longer \in Seq(Char) /\ Len(longer) = n + 2
        /\ \A i \in 1..(n + 2) : longer[i] = IF i <= n THEN text[i] ELSE pair[i - n]
    BY <2>2, <1>0 DEF n
  <2>5. longer[n + 1] = pair[1] /\ longer[n + 2] = pair[2]
    <3>1. /\ n + 1 \in 1..(n + 2) /\ ~(n + 1 <= n) /\ (n + 1) - n = 1
          /\ n + 2 \in 1..(n + 2) /\ ~(n + 2 <= n) /\ (n + 2) - n = 2
      BY <2>3
    <3> QED
      BY <3>1, <2>4
  <2>6. \A i \in 1..n : longer[i] = text[i]
    BY <2>3, <2>4
  <2> QED
    BY <1>0, <2>3, <2>4, <2>5, <2>6 DEF Text
<1> HIDE DEF longer, n
<1>14. /\ n \in Nat /\ ~(n < n) /\ n + 1 < n + 2 /\ ~(n + 2 < n + 2)
       /\ (n + 1) + 1 = n + 2 /\ n + 1 \in 1..(n + 2) /\ n + 2 \in 1..(n + 2)
       /\ n + 1 \in 1..(n + 1) /\ n + 1 \in Nat
  <2>1. n \in Nat
    BY <1>1
  <2> QED
    BY <2>1
<1>2. \A i \in 1..n : Escaping(longer, i) <=> Escaping(text, i)
  <2> TAKE i \in 1..n
  <2>0. Len(text) = n
    BY DEF n
  <2>1. CASE i = n
    BY <2>0, <2>1, <1>1, <1>14, CharFacts DEF Escaping
  <2>2. CASE i # n
    <3>1. i < n /\ i + 1 \in 1..n /\ i < n + 2
      BY <2>2, <1>14
    <3> QED
      BY <2>0, <3>1, <1>1 DEF Escaping
  <2> QED
    BY <2>1, <2>2
<1>3. Escaping(longer, n + 1) /\ ~Escaping(longer, n + 2)
  BY <1>1, <1>14 DEF Escaping
<1> DEFINE short == UnescapePieces(text)
           long == UnescapePieces(longer)
           none == <<>>
           comma == <<",">>
           once == Append(short, none)
           made == Append(once, comma)
<1>4. short \in Seq(Text) /\ Len(short) = n /\ long \in Seq(Text) /\ Len(long) = n + 2
  BY <1>1, PiecesTyped DEF n
<1>5. \A i \in 1..n : long[i] = short[i]
  <2> TAKE i \in 1..n
  <2>1. i \in 1..(n + 2)
    BY <1>14
  <2> QED
    BY <2>1, <1>1, <1>2 DEF UnescapePieces
<1>6. long[n + 1] = none /\ long[n + 2] = comma
  BY <1>1, <1>3, <1>14 DEF UnescapePieces
<1>7. none \in Text /\ comma \in Text
  BY CharFacts
<1> HIDE DEF short, long, none, comma
<1>8. /\ once \in Seq(Text) /\ Len(once) = n + 1 /\ once[n + 1] = none
      /\ \A i \in 1..n : once[i] = short[i]
  BY <1>4, <1>7, <1>14, AppendProperties
<1> HIDE DEF once
<1>9. /\ made \in Seq(Text) /\ Len(made) = (n + 1) + 1 /\ made[(n + 1) + 1] = comma
      /\ \A i \in 1..(n + 1) : made[i] = once[i]
  BY <1>7, <1>8, <1>14, AppendProperties
<1> HIDE DEF made
<1>10. long = made
  <2>2. ASSUME NEW i \in 1..(n + 2) PROVE long[i] = made[i]
    <3>1. i = n + 2 \/ i = n + 1 \/ i \in 1..n
      BY <1>14
    <3>2. CASE i \in 1..n
      <4>1. i \in 1..(n + 1)
        BY <3>2, <1>14
      <4> QED
        BY <3>2, <4>1, <1>5, <1>8, <1>9
    <3> QED
      BY <3>1, <3>2, <1>14, <1>6, <1>8, <1>9
  <2> QED
    <3>1. Len(long) = n + 2 /\ Len(made) = n + 2
      BY <1>4, <1>9, <1>14
    <3> QED
      BY <3>1, <2>2, <1>4, <1>9, SeqEqual
<1>11. FlattenSeq(made) = (FlattenSeq(short) \o none) \o comma
  <2>1. FlattenSeq(once) = FlattenSeq(short) \o none
    BY <1>4, <1>7, FlattenAppend DEF once, Text
  <2>2. FlattenSeq(made) = FlattenSeq(once) \o comma
    BY <1>7, <1>8, FlattenAppend DEF made, Text
  <2> QED
    BY <2>1, <2>2
<1>12. /\ Unescape(longer) = (Unescape(text) \o <<>>) \o <<",">>
       /\ Unescape(text) \in Seq(Char) /\ "," \in Char
  BY <1>1, <1>10, <1>11, TextTyped, CharFacts DEF short, long, none, comma, Text
<1>13. Unescape(text) \o <<>> = Unescape(text)
  BY <1>12, ConcatEmptySeq
<1> QED
  BY <1>12, <1>13, AppendIsConcat DEF longer, pair

\* What comes of one round through the file before the line is decoded: a text
\* of any length is escaped and unescaped to itself.
LEMMA UnescapeEscape ==
    ASSUME NEW name \in Text PROVE Unescape(Escape(name)) = name
<1> DEFINE S == {n \in Nat : \A t \in Text : Len(t) = n => Unescape(Escape(t)) = t}
<1>1. 0 \in S
  <2>1. ASSUME NEW t \in Text, Len(t) = 0 PROVE Unescape(Escape(t)) = t
    <3>1. t = <<>>
      BY <2>1 DEF Text
    <3>2. <<>> \in Text
      BY CharFacts
    <3>3. /\ EscapePieces(<<>>) \in Seq(Text) /\ Len(EscapePieces(<<>>)) = 0
          /\ UnescapePieces(<<>>) \in Seq(Text) /\ Len(UnescapePieces(<<>>)) = 0
      BY <3>2, PiecesTyped, EmptySeq
    <3>4. EscapePieces(<<>>) = <<>> /\ UnescapePieces(<<>>) = <<>>
      BY <3>3, EmptySeq
    <3> QED
      BY <3>1, <3>2, <3>4, TextTyped, FlattenEmpty
  <2> QED
    BY <2>1
<1>2. ASSUME NEW n \in Nat, n \in S PROVE n + 1 \in S
  <2>1. ASSUME NEW t \in Text, Len(t) = n + 1 PROVE Unescape(Escape(t)) = t
    <3>1. t \in Seq(Char) /\ t # <<>>
      BY <2>1 DEF Text
    <3>2. PICK s \in Seq(Char), c \in Char : t = Append(s, c)
      BY <3>1, SequenceEmptyOrAppend
    <3>3. s \in Text /\ Len(s) = n
      BY <2>1, <3>2 DEF Text
    <3>4. Unescape(Escape(s)) = s /\ Escape(s) \in Text
      BY <1>2, <3>3, TextTyped
    <3>5. Escape(t) = Escape(s) \o Escaped(c)
      BY <3>2, <3>3, EscapeAppend
    <3>6. CASE c = ","
      <4>1. Escape(t) = Escape(s) \o <<"\\", ",">>
        BY <3>5, <3>6 DEF Escaped
      <4> QED
        BY <4>1, <3>2, <3>4, <3>6, UnescapeComma
    <3>7. CASE c # ","
      <4>1. Escape(t) = Append(Escape(s), c)
        BY <3>4, <3>5, <3>7, AppendIsConcat DEF Escaped, Text
      <4> QED
        BY <4>1, <3>2, <3>4, <3>7, UnescapeAppend DEF Bare, Comma
    <3> QED
      BY <3>6, <3>7
  <2> QED
    BY <2>1
<1> HIDE DEF S
<1>3. Nat \subseteq S
  BY <1>1, <1>2, Induction
<1>4. Len(name) \in Nat
  BY DEF Text
<1> QED
  BY <1>3, <1>4 DEF S

\* A text without escaped commas is not changed.
LEMMA UnescapePlain ==
    ASSUME NEW text \in Text, \A i \in DOMAIN text : ~Escaping(text, i)
    PROVE  Unescape(text) = text
<1>1. UnescapePieces(text) = [i \in DOMAIN text |-> <<text[i]>>]
  BY DEF UnescapePieces
<1>2. FlattenSeq([i \in DOMAIN text |-> <<text[i]>>]) = text
  BY FlattenSingles DEF Text
<1> QED
  BY <1>1, <1>2, TextTyped

\* Unescape takes out backslashes only.
LEMMA CommaKept ==
    ASSUME NEW text \in Text, HasComma(text)
    PROVE  HasComma(Unescape(text))
<1> DEFINE pieces == UnescapePieces(text)
<1>1. PICK n \in DOMAIN text : text[n] = Comma
  BY DEF HasComma
<1>2. n \in 1..Len(text) /\ DOMAIN text = 1..Len(text)
  BY DEF Text
<1>3. pieces \in Seq(Text) /\ n \in 1..Len(pieces)
  BY <1>2, PiecesTyped
<1>4. pieces[n] = <<Comma>>
  BY <1>1, CharFacts DEF UnescapePieces, Escaping, Comma
<1>5. Unescape(text) = FlattenSeq(pieces) /\ Unescape(text) \in Text
  BY TextTyped
<1> HIDE DEF pieces
<1> DEFINE a == Len(Joined(pieces, n - 1))
           b == Len(Joined(pieces, n))
           l == Len(pieces[n])
           all == FlattenSeq(pieces)
<1>6. a \in Nat
  <2>1. n - 1 \in 0..Len(pieces)
    BY <1>3
  <2> QED
    BY <2>1, <1>3, JoinedEnds DEF Text
<1>7. l = 1 /\ pieces[n][1] = Comma
  <2>1. Comma \in Char
    BY CharFacts DEF Comma
  <2>2. Len(<<Comma>>) = 1 /\ <<Comma>>[1] = Comma
    BY <2>1, CharFacts
  <2> QED
    BY <2>2, <1>4
<1>8. b = a + l /\ b <= Len(all) /\ \A j \in 1..l : all[a + j] = pieces[n][j]
  BY <1>3, FlattenAt DEF Text
<1>9. all \in Seq(Char)
  BY <1>5 DEF Text
<1> HIDE DEF a, b, l, all
<1>10. a + 1 \in 1..Len(all) /\ all[a + 1] = Comma
  BY <1>6, <1>7, <1>8, <1>9
<1>11. a + 1 \in DOMAIN all
  BY <1>9, <1>10
<1> QED
  BY <1>5, <1>10, <1>11 DEF HasComma, all

\* Every comma of an escaped text has its backslash.
Backed(text) == \A i \in DOMAIN text : text[i] = Comma => i > 1 /\ text[i - 1] = Slash

LEMMA BackedAppend ==
    ASSUME NEW text \in Text, Backed(text), NEW c \in Char, Bare(c)
    PROVE  Backed(Append(text, c))
<1> DEFINE longer == Append(text, c)
           n == Len(text)
<1>1. /\ n \in Nat /\ DOMAIN text = 1..n /\ DOMAIN longer = 1..(n + 1)
      /\ longer[n + 1] = c /\ \A i \in 1..n : longer[i] = text[i]
  BY DEF Text
<1> HIDE DEF longer, n
<1>2. ASSUME NEW i \in DOMAIN longer, longer[i] = Comma
      PROVE  i > 1 /\ longer[i - 1] = Slash
  <2>1. i \in 1..n
    BY <1>1, <1>2 DEF Bare
  <2>2. i > 1 /\ text[i - 1] = Slash
    BY <2>1, <1>1, <1>2 DEF Backed
  <2>3. i - 1 \in 1..n
    BY <2>1, <2>2, <1>1
  <2> QED
    BY <2>2, <2>3, <1>1
<1> QED
  BY <1>2 DEF Backed, longer

LEMMA BackedComma ==
    ASSUME NEW text \in Text, Backed(text)
    PROVE  Backed(text \o <<Slash, Comma>>)
<1>1. text \in Seq(Char) /\ Slash \in Char /\ Comma \in Char /\ Slash # Comma
  BY CharFacts DEF Text, Slash, Comma
<1> DEFINE once == Append(text, Slash)
           longer == Append(once, Comma)
           n == Len(text)
<1>2. /\ n \in Nat /\ DOMAIN text = 1..n /\ once \in Seq(Char) /\ Len(once) = n + 1
      /\ once[n + 1] = Slash /\ \A i \in 1..n : once[i] = text[i]
  BY <1>1, AppendProperties
<1> HIDE DEF once, n
<1>3. Backed(once) /\ once \in Text
  BY <1>1, <1>2, BackedAppend DEF Bare, once, Text
<1> DEFINE m == n + 1
<1>4. m \in Nat /\ m > 0 /\ m \in 1..m
  BY <1>2
<1>5. DOMAIN once = 1..m /\ once[m] = Slash /\ Len(once) = m
  BY <1>2
<1> HIDE DEF m
<1>6. /\ longer \in Seq(Char) /\ Len(longer) = m + 1 /\ longer[m + 1] = Comma
      /\ \A i \in 1..m : longer[i] = once[i]
  BY <1>1, <1>2, <1>5, AppendProperties
<1> HIDE DEF longer
<1>7. ASSUME NEW i \in DOMAIN longer, longer[i] = Comma
      PROVE  i > 1 /\ longer[i - 1] = Slash
  <2>1. i \in 1..(m + 1)
    BY <1>6, <1>7
  <2>2. CASE i = m + 1
    <3>1. i > 1 /\ i - 1 = m
      BY <2>2, <1>4
    <3> QED
      BY <3>1, <1>4, <1>5, <1>6
  <2>3. CASE i # m + 1
    <3>1. i \in 1..m
      BY <2>1, <2>3, <1>4
    <3>2. i > 1 /\ once[i - 1] = Slash
      BY <3>1, <1>3, <1>5, <1>6, <1>7 DEF Backed
    <3>3. i - 1 \in 1..m
      BY <3>1, <3>2, <1>4
    <3> QED
      BY <3>2, <3>3, <1>6
  <2> QED
    BY <2>2, <2>3
<1>8. Backed(longer)
  BY <1>7 DEF Backed
<1>9. longer = text \o <<Slash, Comma>>
  <2>1. once = text \o <<Slash>>
    BY <1>1, AppendIsConcat DEF once
  <2>2. longer = once \o <<Comma>>
    BY <1>1, <1>2, AppendIsConcat DEF longer
  <2>3. <<Slash>> \in Seq(Char) /\ <<Comma>> \in Seq(Char)
    BY <1>1
  <2>6. <<Slash>> \o <<Comma>> = <<Slash, Comma>>
    <3>1. <<Slash>> \o <<Comma>> = Append(<<Slash>>, Comma)
      BY <1>1, <2>3, AppendIsConcat
    <3>2. Append(<<Slash>>, Comma) = <<Slash, Comma>>
      <4> DEFINE s == Append(<<Slash>>, Comma)
                 r == <<Slash, Comma>>
      <4>1. s \in Seq(Char) /\ Len(s) = 2 /\ s[1] = Slash /\ s[2] = Comma
        BY <1>1, <2>3
      <4>2. r \in Seq(Char) /\ Len(r) = 2 /\ r[1] = Slash /\ r[2] = Comma
        BY <1>1
      <4> HIDE DEF s, r
      <4>3. \A i \in 1..2 : s[i] = r[i]
        BY <4>1, <4>2
      <4>4. s = r
        BY <4>1, <4>2, <4>3, SeqEqual
      <4> QED
        BY <4>4 DEF s, r
    <3> QED
      BY <3>1, <3>2
  <2> DEFINE x == <<Slash>>
             y == <<Comma>>
  <2>4. x \in Seq(Char) /\ y \in Seq(Char)
    BY <2>3
  <2> HIDE DEF x, y
  <2>5. (text \o x) \o y = text \o (x \o y)
    BY <1>1, <2>4, ConcatAssociative, SMTT(30)
  <2> QED
    BY <2>1, <2>2, <2>5, <2>6 DEF x, y
<1> QED
  BY <1>8, <1>9

LEMMA EscapeBacked ==
    ASSUME NEW name \in Text PROVE Backed(Escape(name))
<1> DEFINE S == {n \in Nat : \A t \in Text : Len(t) = n => Backed(Escape(t))}
<1>1. 0 \in S
  <2>1. ASSUME NEW t \in Text, Len(t) = 0 PROVE Backed(Escape(t))
    <3>1. EscapePieces(t) = <<>>
      BY <2>1, PiecesTyped, EmptySeq
    <3>2. Escape(t) = <<>>
      BY <3>1, TextTyped, FlattenEmpty
    <3>3. \A i \in DOMAIN <<>> : FALSE
      OBVIOUS
    <3> QED
      BY <3>2, <3>3 DEF Backed
  <2> QED
    BY <2>1
<1>2. ASSUME NEW n \in Nat, n \in S PROVE n + 1 \in S
  <2>1. ASSUME NEW t \in Text, Len(t) = n + 1 PROVE Backed(Escape(t))
    <3>1. t \in Seq(Char) /\ t # <<>>
      BY <2>1 DEF Text
    <3>2. PICK s \in Seq(Char), c \in Char : t = Append(s, c)
      BY <3>1, SequenceEmptyOrAppend
    <3>3. s \in Text /\ Len(s) = n
      BY <2>1, <3>2 DEF Text
    <3>4. Backed(Escape(s)) /\ Escape(s) \in Text
      BY <1>2, <3>3, TextTyped
    <3>5. Escape(t) = Escape(s) \o Escaped(c)
      BY <3>2, <3>3, EscapeAppend
    <3>6. CASE c = Comma
      BY <3>4, <3>5, <3>6, BackedComma DEF Escaped, Comma, Slash
    <3>7. CASE c # Comma
      <4>1. Escape(t) = Append(Escape(s), c)
        BY <3>4, <3>5, <3>7, AppendIsConcat DEF Escaped, Comma, Text
      <4> QED
        BY <4>1, <3>2, <3>4, <3>7, BackedAppend DEF Bare
    <3> QED
      BY <3>6, <3>7
  <2> QED
    BY <2>1
<1> HIDE DEF S
<1>3. Nat \subseteq S
  BY <1>1, <1>2, Induction
<1>4. Len(name) \in Nat
  BY DEF Text
<1> QED
  BY <1>3, <1>4 DEF S

\* A name the file can hold is read back, as it was.
LEMMA CleanReturns ==
    ASSUME NEW name \in Text, Clean(name)
    PROVE  Readable(Escape(name)) /\ Decode(Escape(name)) = name
<1> DEFINE line == Escape(name)
<1>1. line \in Text /\ Backed(line)
  BY TextTyped, EscapeBacked
<1>2. \A i \in DOMAIN line : line[i] = "," => i > 1 /\ Escaping(line, i - 1)
  <2> HIDE DEF line
  <2>1. Len(line) \in Nat /\ DOMAIN line = 1..Len(line)
    BY <1>1 DEF Text
  <2> SUFFICES ASSUME NEW i \in 1..Len(line), line[i] = Comma
               PROVE  i > 1 /\ Escaping(line, i - 1)
    BY <2>1 DEF Comma
  <2>2. i > 1 /\ line[i - 1] = Slash
    BY <1>1, <2>1 DEF Backed
  <2>3. i - 1 < Len(line) /\ (i - 1) + 1 = i
    BY <2>1
  <2> QED
    BY <2>2, <2>3 DEF Escaping, Slash, Comma
<1>3. line = <<>> \/ line[Len(line)] # "\\"
  <2>1. CASE name = <<>>
    <3>1. EscapePieces(name) = <<>>
      BY <2>1, PiecesTyped, EmptySeq
    <3> QED
      BY <3>1, TextTyped, FlattenEmpty
  <2>2. CASE name # <<>>
    <3>1. PICK s \in Seq(Char), c \in Char : name = Append(s, c)
      BY <2>2, SequenceEmptyOrAppend DEF Text
    <3> DEFINE n == Len(s)
    <3>2. n \in Nat /\ Len(name) = n + 1 /\ name[n + 1] = c /\ DOMAIN name = 1..(n + 1)
      BY <3>1, AppendProperties
    <3> HIDE DEF n
    <3>3. ~(n + 1 < n + 1) /\ n + 1 \in 1..(n + 1)
      BY <3>2
    <3>4. c # "\\"
      BY <3>2, <3>3 DEF Clean
    <3> DEFINE e == Escape(s)
               x == Escaped(c)
    <3>5. line = e \o x /\ e \in Seq(Char)
      BY <3>1, EscapeAppend, TextTyped DEF Text
    <3>6. x \in Seq(Char) /\ Len(x) \in Nat \ {0} /\ x[Len(x)] # "\\"
      <4>1. CASE c = ","
        <5> DEFINE pair == <<"\\", ",">>
        <5>1. pair \in Seq(Char)
          BY CharFacts DEF Text
        <5>2. Len(pair) \in Nat \ {0} /\ pair[Len(pair)] # "\\"
          <6>1. Len(pair) = 2 /\ pair[2] = "," /\ "," # "\\"
            BY CharFacts
          <6> HIDE DEF pair
          <6>2. Len(pair) = 2
            BY <6>1
          <6>3. Len(pair) \in Nat \ {0}
            BY <6>2
          <6> QED
            BY <6>1, <6>2, <6>3
        <5>3. x = pair
          BY <4>1 DEF Escaped
        <5> HIDE DEF pair, x
        <5> QED
          BY <5>1, <5>2, <5>3
      <4>2. CASE c # ","
        BY <3>4, <4>2, CharFacts DEF Escaped, Text
      <4> QED
        BY <4>1, <4>2
    <3> HIDE DEF line, e, x
    <3> DEFINE l == Len(e)
               m == Len(x)
    <3>7. /\ Len(line) = l + m
          /\ \A i \in 1..(l + m) : line[i] = IF i <= l THEN e[i] ELSE x[i - l]
      BY <3>5, <3>6, ConcatProperties
    <3>8. l \in Nat /\ m \in Nat \ {0}
      BY <3>5, <3>6
    <3> HIDE DEF l, m
    <3>9. l + m \in 1..(l + m) /\ ~(l + m <= l) /\ (l + m) - l = m
      BY <3>8
    <3>10. line[Len(line)] = x[m]
      BY <3>7, <3>9
    <3> QED
      BY <3>6, <3>10 DEF m
  <2> QED
    BY <2>1, <2>2
<1>4. Readable(line)
  BY <1>2, <1>3 DEF Readable
<1>5. Unescape(name) = name
  <2>1. \A i \in DOMAIN name : ~Escaping(name, i)
    BY DEF Escaping, Clean
  <2> QED
    BY <2>1, UnescapePlain
<1> QED
  BY <1>4, <1>5, UnescapeEscape DEF Decode

\* A line without commas is the name it was written for.
LEMMA CommaFree ==
    ASSUME NEW name \in Text
    PROVE  /\ Decode(Escape(name)) = Unescape(name)
           /\ HasComma(Unescape(name)) \/ Unescape(name) = name
<1>1. CASE HasComma(name)
  BY <1>1, CommaKept, UnescapeEscape DEF Decode
<1>2. CASE ~HasComma(name)
  <2>1. ASSUME NEW i \in DOMAIN name PROVE ~Escaping(name, i)
    <3> DEFINE n == Len(name)
    <3>1. n \in Nat /\ DOMAIN name = 1..n
      BY DEF Text
    <3>2. i < n => i + 1 \in 1..n
      BY <3>1
    <3> HIDE DEF n
    <3> QED
      BY <1>2, <3>1, <3>2 DEF HasComma, Escaping, Comma, n
  <2> QED
    BY <2>1, UnescapePlain, UnescapeEscape DEF Decode
<1> QED
  BY <1>1, <1>2

-----------------------------------------------------------------------------
(* The inductive invariant.                                                *)

\* i is the position, counted from 0, of the first row of this name.
First(rs, name, i) ==
    /\ i \in Nat /\ i + 1 \in DOMAIN rs /\ rs[i + 1] = name
    /\ \A j \in 1..i : rs[j] # name

Indexed(ix, rs) ==
    /\ DOMAIN ix = ToSet(rs)
    /\ \A name \in ToSet(rs) : First(rs, name, ix[name])

\* Of the completed saves it is the last one whose lines are in the file, and
\* a save that is begun takes that from it.
Written ==
    /\ kept = <<>> \/ file = [i \in DOMAIN kept |-> Escape(kept[i])]
    /\ pc = "saving" => kept = <<>>

\* No two of the names are the same but those with commas: among the rows, and
\* among the names that the lines of the file stand for.
Distinct(names) ==
    \A i, j \in DOMAIN names :
        i # j /\ names[i] = names[j] => HasComma(names[i])

Decoded(lines) == [i \in DOMAIN lines |-> Decode(lines[i])]

IInv ==
    /\ TypeOK /\ Indexed(index, rows)
    /\ Written /\ SavedNamesReturn
    /\ Distinct(rows) /\ Distinct(Decoded(file))

-----------------------------------------------------------------------------
(* Operators.                                                              *)

LEMMA EmptyFacts ==
    <<>> \in Seq(Text) /\ Indexed(<<>>, <<>>) /\ Distinct(<<>>) /\ Distinct(Decoded(<<>>))
  BY DEF Indexed, ToSet, Distinct, Decoded

LEMMA DecodeTyped == \A line \in Text : Decode(line) \in Text
  BY TextTyped DEF Decode

\* The file is read up to its first bad line and no further, however many
\* lines it has.
LEMMA LoadedIs ==
    ASSUME file \in Seq(Text)
    PROVE  /\ Loaded \in Seq(Text) /\ Len(Loaded) \in 0..Len(file)
           /\ \A i \in 1..Len(Loaded) : Loaded[i] = Decode(file[i])
           /\ \A n \in 1..Len(file) :
                 (\A i \in 1..n : Readable(file[i])) => n <= Len(Loaded)
<1> DEFINE bad == {i \in DOMAIN file : ~Readable(file[i])}
           n == IF bad = {} THEN Len(file) ELSE Min(bad) - 1
           l == Len(file)
<1>1. l \in Nat /\ DOMAIN file = 1..l
  OBVIOUS
<1> HIDE DEF l
<1>2. n \in 0..l /\ \A k \in 1..l : (\A i \in 1..k : Readable(file[i])) => k <= n
  <2>1. CASE bad = {}
    BY <2>1, <1>1 DEF l
  <2>2. CASE bad # {}
    <3>1. bad \in SUBSET (1..l) /\ bad \in SUBSET Nat
      BY <1>1
    <3>2. \A i \in bad : ~Readable(file[i])
      OBVIOUS
    <3> HIDE DEF bad
    <3>3. Min(bad) \in bad
      BY <3>1, <2>2, LeastNatural
    <3>4. PICK k \in 1..l : k = Min(bad)
      BY <3>1, <3>3
    <3>5. n = k - 1
      BY <3>4, <2>2
    <3>6. ~Readable(file[k])
      BY <3>2, <3>3, <3>4
    <3> HIDE DEF n
    <3>7. n \in 0..l
      BY <3>5, <1>1
    <3>8. ASSUME NEW j \in 1..l, \A i \in 1..j : Readable(file[i]) PROVE j <= n
      BY <3>5, <3>6, <3>8, <1>1
    <3> QED
      BY <3>7, <3>8
  <2> QED
    BY <2>1, <2>2
<1>3. Loaded = [i \in 1..n |-> Decode(file[i])]
  BY DEF Loaded
<1> HIDE DEF n
<1>4. \A i \in 1..n : Decode(file[i]) \in Text
  <2> TAKE i \in 1..n
  <2>1. i \in 1..l
    BY <1>1, <1>2
  <2>2. file[i] \in Text
    BY <2>1, <1>1
  <2> QED
    BY <2>2, DecodeTyped
<1>5. Loaded \in [1..n -> Text] /\ n \in Nat
  BY <1>1, <1>2, <1>3, <1>4
<1>6. Loaded \in Seq(Text) /\ Len(Loaded) = n
  BY <1>5
<1> QED
  BY <1>2, <1>3, <1>6 DEF l

\* generateIndex enters the first row of each name, however many there are.
LEMMA GeneratedIndexes ==
    ASSUME NEW rs \in Seq(Text) PROVE Indexed(Generated(rs), rs)
<1>1. Len(rs) \in Nat /\ DOMAIN rs = 1..Len(rs)
  OBVIOUS
<1>2. ASSUME NEW name \in ToSet(rs) PROVE First(rs, name, Generated(rs)[name])
  <2> DEFINE Places == {i \in DOMAIN rs : rs[i] = name}
  <2>1. Places \in SUBSET Nat /\ Places # {}
    BY <1>1 DEF ToSet
  <2>2. Min(Places) \in Places /\ \A x \in Places : Min(Places) <= x
    <3> HIDE DEF Places
    <3> QED
      BY <2>1, LeastNatural
  <2>3. Generated(rs)[name] = Min(Places) - 1
    BY DEF Generated
  <2>4. PICK k \in 1..Len(rs) : k = Min(Places)
    BY <1>1, <2>2
  <2>5. rs[k] = name
    BY <2>2, <2>4
  <2>6. \A j \in 1..(k - 1) : rs[j] # name
    <3> SUFFICES ASSUME NEW j \in 1..(k - 1), rs[j] = name PROVE FALSE
      OBVIOUS
    <3>1. j \in Places
      BY <1>1
    <3>2. k <= j
      <4> HIDE DEF Places
      <4> QED
        BY <3>1, <2>2, <2>4
    <3> QED
      BY <3>2, <1>1
  <2>7. Generated(rs)[name] = k - 1
    BY <2>3, <2>4
  <2> HIDE DEF Places
  <2> QED
    BY <1>1, <2>5, <2>6, <2>7 DEF First
<1>3. DOMAIN Generated(rs) = ToSet(rs)
  BY DEF Generated
<1> QED
  BY <1>2, <1>3 DEF Indexed

-----------------------------------------------------------------------------
(* The steps.                                                              *)

\* insertRow may trust the size of the list only because the name is new.
LEMMA InsertIndexes ==
    ASSUME NEW name \in Text, rows \in Seq(Text), Indexed(index, rows),
           name \notin DOMAIN index, Inserted(name)
    PROVE  Indexed(index', rows')
<1> DEFINE Known == ToSet(rows) \cup {name}
           n == Len(rows)
<1>1. n \in Nat /\ DOMAIN rows = 1..n
  OBVIOUS
<1>2. /\ DOMAIN rows' = 1..(n + 1)
      /\ \A i \in 1..n : rows'[i] = rows[i]
      /\ rows'[n + 1] = name
  BY <1>1 DEF Inserted
<1>3. ToSet(rows') = Known
  <2>1. Known \subseteq ToSet(rows')
    BY <1>1, <1>2 DEF ToSet
  <2>2. ToSet(rows') \subseteq Known
    BY <1>2 DEF ToSet
  <2> QED
    BY <2>1, <2>2
<1>4. name \notin ToSet(rows) /\ DOMAIN index = ToSet(rows)
  BY DEF Indexed
<1>5. /\ DOMAIN index' = Known
      /\ index'[name] = n
      /\ \A other \in ToSet(rows) : index'[other] = index[other]
  BY <1>4 DEF Inserted
<1>6. First(rows', name, n)
  <2>1. \A j \in 1..n : rows[j] \in ToSet(rows)
    BY <1>1 DEF ToSet
  <2> QED
    BY <1>1, <1>2, <1>4, <2>1 DEF First
<1>7. ASSUME NEW other \in ToSet(rows) PROVE First(rows', other, index'[other])
  <2> DEFINE i == index[other]
  <2>1. First(rows, other, i)
    BY DEF Indexed
  <2> HIDE DEF i
  <2>2. First(rows', other, i)
    BY <2>1, <1>1, <1>2 DEF First
  <2> QED
    BY <2>2, <1>5 DEF i
<1> QED
  BY <1>3, <1>5, <1>6, <1>7 DEF Indexed

-----------------------------------------------------------------------------
(* The steps.                                                              *)

\* What a life loads, it loads from the lines of the last completed save.
LEMMA LoadReturns ==
    ASSUME IInv, rows' = Loaded, kept' = kept PROVE SavedNamesReturn'
<1> SUFFICES ASSUME NEW n \in 1..Len(kept), \A i \in 1..n : Clean(kept[i])
             PROVE  n <= Len(Loaded) /\ Loaded[n] = kept[n]
  BY DEF SavedNamesReturn
<1>1. kept \in Seq(Text) /\ file \in Seq(Text) /\ kept # <<>>
  BY DEF IInv, TypeOK
<1>2. file = [i \in DOMAIN kept |-> Escape(kept[i])]
  BY <1>1 DEF IInv, Written
<1> DEFINE l == Len(kept)
<1>3. l \in Nat /\ DOMAIN kept = 1..l /\ n \in 1..l
  BY <1>1
<1> HIDE DEF l
<1>4. Len(file) = l
  BY <1>1, <1>2, <1>3
<1>5. ASSUME NEW i \in 1..n
      PROVE  Readable(file[i]) /\ Decode(file[i]) = kept[i]
  <2>1. i \in 1..l
    BY <1>3
  <2>2. kept[i] \in Text /\ file[i] = Escape(kept[i])
    BY <1>1, <1>2, <1>3, <2>1
  <2> QED
    BY <2>2, CleanReturns
<1>6. n <= Len(Loaded) /\ Len(Loaded) \in Nat
  BY <1>1, <1>3, <1>4, <1>5, LoadedIs
<1>7. n \in 1..n /\ n \in 1..Len(Loaded)
  BY <1>3, <1>6
<1>8. Loaded[n] = Decode(file[n])
  BY <1>1, <1>7, LoadedIs
<1> QED
  BY <1>5, <1>6, <1>7, <1>8

\* Loading takes names from the lines and makes no new ones of them.
LEMMA LoadDistinct ==
    ASSUME file \in Seq(Text), Distinct(Decoded(file)) PROVE Distinct(Loaded)
<1> DEFINE n == Len(Loaded)
           l == Len(file)
<1>1. /\ n \in 0..l /\ l \in Nat /\ DOMAIN Loaded = 1..n /\ DOMAIN file = 1..l
      /\ \A i \in 1..n : Loaded[i] = Decode(file[i])
  BY LoadedIs
<1> HIDE DEF n, l
<1>2. \A i \in 1..n : i \in DOMAIN Decoded(file) /\ Loaded[i] = Decoded(file)[i]
  BY <1>1 DEF Decoded
<1> QED
  BY <1>1, <1>2 DEF Distinct

\* A line or two that say the same had the same name, unless it has a comma.
LEMMA WriteDistinct ==
    ASSUME NEW names \in Seq(Text), Distinct(names), NEW n \in 0..Len(names)
    PROVE  LET lines == [i \in 1..n |-> Escape(names[i])]
           IN  lines \in Seq(Text) /\ Distinct(Decoded(lines))
<1> DEFINE lines == [i \in 1..n |-> Escape(names[i])]
<1>1. n \in Nat /\ \A i \in 1..n : i \in DOMAIN names /\ names[i] \in Text
  OBVIOUS
<1>2. lines \in Seq(Text)
  <2>1. \A i \in 1..n : lines[i] \in Text
    BY <1>1, TextTyped
  <2> QED
    BY <1>1, <2>1
<1>3. /\ DOMAIN Decoded(lines) = 1..n
      /\ \A i \in 1..n : Decoded(lines)[i] = Unescape(names[i])
  <2>1. DOMAIN lines = 1..n /\ \A i \in 1..n : lines[i] = Escape(names[i])
    OBVIOUS
  <2> HIDE DEF lines
  <2>2. \A i \in 1..n : Decode(lines[i]) = Unescape(names[i])
    BY <1>1, <2>1, CommaFree
  <2> QED
    BY <2>1, <2>2 DEF Decoded
<1>4. ASSUME NEW i \in 1..n, NEW j \in 1..n, i # j, Unescape(names[i]) = Unescape(names[j])
      PROVE  HasComma(Unescape(names[i]))
  <2>1. \/ HasComma(Unescape(names[i]))
        \/ Unescape(names[i]) = names[i] /\ Unescape(names[j]) = names[j]
    BY <1>1, <1>4, CommaFree
  <2> QED
    BY <1>1, <1>4, <2>1 DEF Distinct
<1> HIDE DEF lines
<1>5. Distinct(Decoded(lines))
  BY <1>3, <1>4 DEF Distinct
<1> QED
  BY <1>2, <1>5 DEF lines

LEMMA IndexTyped ==
    ASSUME NEW ix, NEW rs, Indexed(ix, rs), ix = [name \in DOMAIN ix |-> ix[name]]
    PROVE  ix \in [ToSet(rs) -> Nat]
  BY DEF Indexed, First

LEMMA LoadStep == IInv /\ Load => IInv'
<1> SUFFICES ASSUME IInv, Load PROVE IInv'
  OBVIOUS
<1>1. /\ rows' = Loaded /\ index' = Generated(Loaded) /\ kept' = kept /\ file' = file
      /\ pc' = "up" /\ lives' = lives + 1 /\ blind' = FALSE /\ lives < MaxLives
  BY DEF Load
<1>2. file \in Seq(Text) /\ Loaded \in Seq(Text)
  BY LoadedIs DEF IInv, TypeOK
<1>3. Indexed(index', rows')
  BY <1>1, <1>2, GeneratedIndexes
<1>4. index' \in [ToSet(rows') -> Nat]
  <2>1. Generated(Loaded) = [name \in DOMAIN Generated(Loaded) |-> Generated(Loaded)[name]]
    BY DEF Generated
  <2> QED
    BY <1>1, <1>3, <2>1, IndexTyped
<1>5. TypeOK'
  <2>1. lives' \in 0..MaxLives
    BY <1>1, DatabaseAssumption DEF IInv, TypeOK
  <2> QED
    BY <1>1, <1>2, <1>4, <2>1 DEF IInv, TypeOK
<1>6. Written'
  BY <1>1 DEF IInv, Written
<1>7. SavedNamesReturn'
  BY <1>1, LoadReturns
<1>8. Distinct(rows') /\ Distinct(Decoded(file))'
  BY <1>1, <1>2, LoadDistinct DEF IInv
<1> QED
  BY <1>3, <1>5, <1>6, <1>7, <1>8 DEF IInv

LEMMA JoinStep ==
    ASSUME NEW name \in Names, IInv, Join(name) PROVE IInv'
<1>1. /\ name \in Text /\ name \notin DOMAIN index /\ Inserted(name)
      /\ UNCHANGED <<pc, file, lives, kept, blind>> /\ rows \in Seq(Text)
  BY DatabaseAssumption DEF Join, HasPlayer, IInv, TypeOK
<1> DEFINE n == Len(rows)
<1>2. /\ n \in Nat /\ rows' \in Seq(Text) /\ DOMAIN rows = 1..n /\ DOMAIN rows' = 1..(n + 1)
      /\ Len(rows') = n + 1 /\ rows'[n + 1] = name /\ \A i \in 1..n : rows'[i] = rows[i]
  BY <1>1, AppendProperties DEF Inserted
<1> HIDE DEF n
<1>3. Indexed(index', rows')
  BY <1>1, InsertIndexes DEF IInv
<1>4. index' \in [ToSet(rows') -> Nat]
  <2>1. index' = [other \in DOMAIN index' |-> index'[other]]
    BY <1>1 DEF Inserted
  <2> QED
    BY <1>3, <2>1, IndexTyped
<1>5. TypeOK'
  BY <1>1, <1>2, <1>4 DEF IInv, TypeOK
<1>6. Written'
  BY <1>1 DEF IInv, Written
<1>7. SavedNamesReturn'
  <2> SUFFICES ASSUME pc = "up", ~blind, NEW k \in 1..Len(kept), \A i \in 1..k : Clean(kept[i])
               PROVE  k <= Len(rows') /\ rows'[k] = kept[k]
    BY <1>1 DEF SavedNamesReturn
  <2>1. k <= n /\ rows[k] = kept[k]
    BY DEF IInv, SavedNamesReturn, n
  <2>2. k \in 1..n
    BY <2>1, <1>2
  <2> QED
    BY <2>1, <2>2, <1>2
<1>8. Distinct(rows')
  <2>1. \A i \in 1..n : rows[i] # name
    <3>1. name \notin ToSet(rows)
      BY <1>1 DEF IInv, Indexed
    <3> QED
      BY <3>1, <1>2 DEF ToSet
  <2> SUFFICES ASSUME NEW i \in 1..(n + 1), NEW j \in 1..(n + 1), i # j, rows'[i] = rows'[j]
               PROVE  HasComma(rows'[i])
    BY <1>2 DEF Distinct
  <2>2. (i = n + 1 \/ i \in 1..n) /\ (j = n + 1 \/ j \in 1..n)
    BY <1>2
  <2>3. i \in 1..n /\ j \in 1..n
    BY <2>1, <2>2, <1>2
  <2> QED
    BY <2>3, <1>2 DEF IInv, Distinct
<1> QED
  BY <1>1, <1>3, <1>5, <1>6, <1>7, <1>8 DEF IInv

\* The destructor, completed: the file has every row, in order.
LEMMA WriteStep == IInv /\ Write => IInv'
<1> SUFFICES ASSUME IInv, Write PROVE IInv'
  OBVIOUS
<1> DEFINE n == Len(rows)
<1>1. rows \in Seq(Text) /\ DOMAIN rows = 1..n /\ n \in 0..Len(rows)
  BY DEF IInv, TypeOK
<1> HIDE DEF n
<1>2. /\ file' = [i \in 1..n |-> Escape(rows[i])] /\ kept' = rows /\ pc' = "down"
      /\ rows' = <<>> /\ index' = <<>> /\ UNCHANGED <<lives, blind>>
  BY <1>1 DEF Write
<1>3. file' \in Seq(Text) /\ Distinct(Decoded(file'))
  BY <1>1, <1>2, WriteDistinct DEF IInv
<1>4. TypeOK'
  BY <1>1, <1>2, <1>3, EmptyFacts DEF IInv, TypeOK, ToSet
<1>5. Written' /\ SavedNamesReturn'
  BY <1>1, <1>2 DEF Written, SavedNamesReturn
<1> QED
  BY <1>2, <1>3, <1>4, <1>5, EmptyFacts DEF IInv

LEMMA WriteCutStep == IInv /\ WriteCut => IInv'
<1> SUFFICES ASSUME IInv, WriteCut PROVE IInv'
  OBVIOUS
<1>1. PICK n \in 0..Len(rows) : file' = [i \in 1..n |-> Escape(rows[i])]
  BY DEF WriteCut
<1>2. /\ kept' = <<>> /\ pc' = "down" /\ rows \in Seq(Text)
      /\ rows' = <<>> /\ index' = <<>> /\ UNCHANGED <<lives, blind>>
  BY DEF WriteCut, IInv, TypeOK, Written
<1>3. file' \in Seq(Text) /\ Distinct(Decoded(file'))
  BY <1>1, <1>2, WriteDistinct DEF IInv
<1>4. TypeOK'
  BY <1>2, <1>3, EmptyFacts DEF IInv, TypeOK, ToSet
<1>5. Written' /\ SavedNamesReturn'
  BY <1>2 DEF Written, SavedNamesReturn
<1> QED
  BY <1>2, <1>3, <1>4, <1>5, EmptyFacts DEF IInv

LEMMA InitInv == Init => IInv
<1> SUFFICES ASSUME Init PROVE IInv
  OBVIOUS
<1>1. TypeOK
  <2>1. lives \in 0..MaxLives
    BY DatabaseAssumption DEF Init
  <2>2. index \in [ToSet(rows) -> Nat]
    BY EmptyFacts DEF Init, ToSet
  <2> QED
    BY <2>1, <2>2, EmptyFacts DEF Init, TypeOK
<1>2. Written /\ SavedNamesReturn
  BY DEF Init, Written, SavedNamesReturn
<1> QED
  BY <1>1, <1>2, EmptyFacts DEF Init, IInv

LEMMA InvStep == IInv /\ [Next]_vars => IInv'
<1> SUFFICES ASSUME IInv, [Next]_vars PROVE IInv'
  OBVIOUS
<1>1. CASE Load
  BY <1>1, LoadStep
<1>2. CASE LoadFails
  <2>1. TypeOK'
    BY <1>2, EmptyFacts, DatabaseAssumption DEF LoadFails, IInv, TypeOK, ToSet
  <2>2. Written' /\ SavedNamesReturn'
    BY <1>2 DEF LoadFails, IInv, Written, SavedNamesReturn
  <2>3. Distinct(Decoded(file))'
    BY <1>2 DEF LoadFails, IInv
  <2> QED
    BY <1>2, <2>1, <2>2, <2>3, EmptyFacts DEF LoadFails, IInv
<1>3. ASSUME NEW name \in Names, Join(name) PROVE IInv'
  BY <1>3, JoinStep
<1>4. CASE Open
  <2>1. TypeOK'
    BY <1>4, EmptyFacts DEF Open, IInv, TypeOK
  <2>2. Written' /\ SavedNamesReturn'
    BY <1>4 DEF Open, Written, SavedNamesReturn
  <2>3. Distinct(rows') /\ Indexed(index', rows') /\ file' = <<>>
    BY <1>4 DEF Open, IInv
  <2> QED
    BY <2>1, <2>2, <2>3, EmptyFacts DEF IInv
<1>5. CASE Write
  BY <1>5, WriteStep
<1>6. CASE WriteCut
  BY <1>6, WriteCutStep
<1>7. CASE EndUnsaved
  <2>1. TypeOK'
    BY <1>7, EmptyFacts DEF EndUnsaved, IInv, TypeOK, ToSet
  <2>2. Written' /\ SavedNamesReturn'
    BY <1>7 DEF EndUnsaved, IInv, Written, SavedNamesReturn
  <2>3. Distinct(Decoded(file))'
    BY <1>7 DEF EndUnsaved, IInv
  <2> QED
    BY <1>7, <2>1, <2>2, <2>3, EmptyFacts DEF EndUnsaved, IInv
<1>8. CASE UNCHANGED vars
  <2>1. TypeOK' /\ Written' /\ SavedNamesReturn'
    BY <1>8 DEF vars, IInv, TypeOK, Written, SavedNamesReturn
  <2>2. /\ Distinct(Decoded(file))' /\ Distinct(rows') /\ Indexed(index', rows')
    BY <1>8 DEF vars, IInv
  <2> QED
    BY <2>1, <2>2 DEF IInv
<1> QED
  BY <1>1, <1>2, <1>3, <1>4, <1>5, <1>6, <1>7, <1>8 DEF Next

-----------------------------------------------------------------------------
(* The theorems.                                                           *)

\* The rows, the lines of the file and the names saved are texts, and the
\* database is never constructed more often than it may be.
THEOREM TypeCorrect == Spec => []TypeOK
<1>1. IInv => TypeOK
  BY DEF IInv
<1> QED
  BY InitInv, InvStep, <1>1, PTL DEF Spec

\* The index holds exactly the names of the rows, each at its first row: a
\* player that is looked up gets its own data and never those of another, and
\* getIndexAndCheck does not throw for a player that has been added.
THEOREM IndexAlwaysSound == Spec => []IndexSound
<1>1. IInv => IndexSound
  <2> SUFFICES ASSUME IInv PROVE IndexSound
    OBVIOUS
  <2>1. DOMAIN index = ToSet(rows)
    BY DEF IInv, Indexed
  <2>2. \A name \in DOMAIN index : First(rows, name, index[name])
    BY DEF IInv, Indexed
  <2> QED
    BY <2>1, <2>2 DEF IndexSound, First
<1> QED
  BY InitInv, InvStep, <1>1, PTL DEF Spec

\* What a completed save holds is there again in every life that can read the
\* file, at its place, up to the first name the format cannot hold.
THEOREM SavedNamesAlwaysReturn == Spec => []SavedNamesReturn
<1>1. IInv => SavedNamesReturn
  BY DEF IInv
<1> QED
  BY InitInv, InvStep, <1>1, PTL DEF Spec

\* However the lives end, no player gets a second row but one whose name has a
\* comma.
THEOREM DuplicatesAlwaysHaveCommas == Spec => []DuplicatesHaveCommas
<1>1. IInv => DuplicatesHaveCommas
  BY DEF IInv, Distinct, HasComma, Comma, DuplicatesHaveCommas
<1> QED
  BY InitInv, InvStep, <1>1, PTL DEF Spec
=============================================================================
