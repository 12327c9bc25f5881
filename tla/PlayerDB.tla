------------------------------- MODULE PlayerDB -------------------------------
(***************************************************************************)
(* The player database of the ClassicPlugin: the rows in memory and their  *)
(* index (CSVDB), the file Players.csv, and the lives of the plugin, each  *)
(* of which loads the file, adds the players that join, and saves the rows *)
(* when it is destroyed, unless it crashes.                                *)
(*                                                                         *)
(* A row is its key, the name; the numbers of a row are never changed and  *)
(* not told apart.  Names are sequences over the characters that the file  *)
(* format tells apart.  A line of the file is the text of its first        *)
(* column; a line that was cut short is no line, because it is not read.   *)
(***************************************************************************)
EXTENDS Integers, SequencesExt

CONSTANTS
    Names,       \* the names players join with
    MaxRows,     \* bound: with how many rows players still join
    MaxLives     \* bound: how many times the database is constructed

Char == {"x", ",", "\\"}
Text == Seq(Char)

ASSUME DatabaseAssumption ==
    Names \subseteq Text /\ MaxRows \in Nat /\ MaxLives \in Nat

VARIABLES
    pc,      \* "down", "up", or "saving": the file is truncated
    rows,    \* DB_Base::rows, their names
    index,   \* DBIndex::index, from names to positions counted from 0
    file,    \* the lines of Players.csv
    lives,   \* how many times the database has been constructed
    kept,    \* history: the names saved, while no later save was begun
    blind    \* history: this life could not read the file

vars == <<pc, rows, index, file, lives, kept, blind>>

Init ==
    /\ pc = "down" /\ rows = <<>> /\ index = <<>> /\ file = <<>>
    /\ lives = 0 /\ kept = <<>> /\ blind = FALSE

-----------------------------------------------------------------------------
(* The text of a name in the file.                                         *)

\* Mutant of Escape: names are written as they are.
EscapeNothing(name) == name

\* OutputRowToStream for strings: each comma gets a backslash before it.
Escape(name) ==
    FlattenSeq([i \in DOMAIN name |->
                   IF name[i] = "," THEN <<"\\", ",">> ELSE <<name[i]>>])

\* A backslash right before a comma.
Escaping(text, i) == i < Len(text) /\ text[i] = "\\" /\ text[i + 1] = ","

Unescape(text) ==
    FlattenSeq([i \in DOMAIN text |->
                   IF Escaping(text, i) THEN <<>> ELSE <<text[i]>>])

\* InputStreamToRow for strings: readCommas joins what is between escaped
\* commas, then replace_all removes backslashes before commas once more.
Decode(text) == Unescape(Unescape(text))

\* readCommas reads the column and no more if no comma in it is bare and it does
\* not end in a backslash, which would join it with the next column; otherwise
\* a number that follows fails to parse.
Readable(text) ==
    /\ \A i \in DOMAIN text : text[i] = "," => i > 1 /\ Escaping(text, i - 1)
    /\ text = <<>> \/ text[Len(text)] # "\\"

-----------------------------------------------------------------------------
(* DataBase and DBIndex.                                                   *)

\* operator>> stops at the first line that is no row.
Loaded ==
    LET bad == {i \in DOMAIN file : ~Readable(file[i])}
        n == IF bad = {} THEN Len(file) ELSE Min(bad) - 1
    IN  [i \in 1..n |-> Decode(file[i])]

\* generateIndex keeps the first row of each name.
Generated(rs) ==
    [name \in ToSet(rs) |-> Min({i \in DOMAIN rs : rs[i] = name}) - 1]

\* Mutant of Inserted: the row is entered in the index after it was added.
InsertedAfter(name) ==
    /\ rows' = Append(rows, name)
    /\ index' = [k \in DOMAIN index \cup {name} |->
                    IF k = name THEN Len(rows) + 1 ELSE index[k]]

\* insertRow.
Inserted(name) ==
    /\ index' = [k \in DOMAIN index \cup {name} |->
                    IF k = name THEN Len(rows) ELSE index[k]]
    /\ rows' = Append(rows, name)

-----------------------------------------------------------------------------
(* The lives of the database.                                              *)

\* PlayerDataBase::PlayerDataBase.
Load ==
    /\ pc = "down" /\ lives < MaxLives
    /\ pc' = "up" /\ lives' = lives + 1
    /\ rows' = Loaded
    /\ index' = Generated(rows')
    /\ blind' = FALSE
    /\ UNCHANGED <<file, kept>>

\* The file is there but cannot be opened: the database is as good as new.
LoadFails ==
    /\ pc = "down" /\ lives < MaxLives
    /\ pc' = "up" /\ lives' = lives + 1
    /\ rows' = <<>> /\ index' = <<>>
    /\ blind' = TRUE
    /\ UNCHANGED <<file, kept>>

\* Mutant of HasPlayer: the look-up by the last row only.
HasPlayerLast(name) == rows # <<>> /\ name = rows[Len(rows)]

HasPlayer(name) == name \in DOMAIN index

\* Players::onInitialData looks the player up and adds who is not there.
Join(name) ==
    /\ pc = "up" /\ ~HasPlayer(name) /\ Len(rows) < MaxRows
    /\ Inserted(name)
    /\ UNCHANGED <<pc, file, lives, kept, blind>>

\* PlayerDataBase::~PlayerDataBase opens the file, which truncates it.
Open ==
    /\ pc = "up"
    /\ pc' = "saving"
    /\ file' = <<>>
    /\ kept' = <<>>
    /\ UNCHANGED <<rows, index, lives, blind>>

\* The rows are written, the file is closed, the rows are deleted.
Write ==
    /\ pc = "saving"
    /\ pc' = "down" /\ rows' = <<>> /\ index' = <<>>
    /\ file' = [i \in DOMAIN rows |-> Escape(rows[i])]
    /\ kept' = rows
    /\ UNCHANGED <<lives, blind>>

\* A crash while saving, or a full disk, which nobody notices: some first lines
\* are on the disk.
WriteCut ==
    /\ pc = "saving"
    /\ pc' = "down" /\ rows' = <<>> /\ index' = <<>>
    /\ \E n \in 0..Len(rows) : file' = [i \in 1..n |-> Escape(rows[i])]
    /\ UNCHANGED <<lives, kept, blind>>

\* The file cannot be opened, and nobody is told; or a crash, a failed assertion or
\* a second exception ends the process and no destructor runs.
EndUnsaved ==
    /\ pc = "up"
    /\ pc' = "down" /\ rows' = <<>> /\ index' = <<>>
    /\ UNCHANGED <<file, lives, kept, blind>>

Next ==
    \/ Load \/ LoadFails \/ Open \/ Write \/ WriteCut \/ EndUnsaved
    \/ \E name \in Names : Join(name)

Spec == Init /\ [][Next]_vars

-----------------------------------------------------------------------------
(* Properties.                                                             *)

TypeOK ==
    /\ pc \in {"down", "up", "saving"}
    /\ rows \in Seq(Text) /\ kept \in Seq(Text)
    /\ index \in [ToSet(rows) -> Nat]
    /\ file \in Seq(Text)
    /\ lives \in 0..MaxLives
    /\ blind \in BOOLEAN

\* The file can hold this name: no backslash of it stands before a comma or at
\* the end, where it would be taken for an escape.
Clean(name) ==
    \A i \in DOMAIN name : name[i] = "\\" => i < Len(name) /\ name[i + 1] # ","

\* A name is found in the index if and only if it has a row, and there it is:
\* the first of that name, also for rows added to those that were loaded.
IndexSound ==
    pc = "up" =>
        /\ DOMAIN index = ToSet(rows)
        /\ \A name \in DOMAIN index :
              /\ index[name] + 1 \in DOMAIN rows /\ rows[index[name] + 1] = name
              /\ \A i \in 1..index[name] : rows[i] # name

\* Through any number of lives, crashed ones between them, every player that
\* the last completed save has is found again at its place, up to the first
\* name the file cannot hold, by every life that can read the file; only a save
\* that was cut short loses others.
SavedNamesReturn ==
    pc = "up" /\ ~blind =>
        \A n \in 1..Len(kept) :
            (\A i \in 1..n : Clean(kept[i])) => n <= Len(rows) /\ rows[n] = kept[n]

\* Two rows have the same name only if a backslash before one of its commas got
\* lost on the way through the file.
DuplicatesHaveCommas ==
    \A i, j \in DOMAIN rows :
        i # j /\ rows[i] = rows[j] => \E k \in DOMAIN rows[i] : rows[i][k] = ","
=============================================================================
