------------------------------- MODULE TextFormat -------------------------------
(***************************************************************************)
(* format::player::multiLine: a chat message becomes lines, each with the  *)
(* speaker's name in front and none longer than a packet's string.  One    *)
(* action per iteration of its while loop.  A text is a sequence of        *)
(* characters.                                                             *)
(***************************************************************************)
EXTENDS Integers, Sequences, SequencesExt

CONSTANTS
    Character, \* what texts are made of
    Width,     \* characters in a line and in a packet's string (64)
    MaxLines,  \* bound: lines after which the memory is used up
    Space,     \* the character that trim_right removes
    Separator  \* ": "

Text == Seq(Character)

ASSUME FormatAssumption ==
    /\ Width \in Nat \ {0} /\ MaxLines \in Nat
    /\ Separator \in Text

VARIABLES
    chat,   \* the username and the message, trimmed, the handler holds
    msg,    \* the text multiLine has still to cut
    lines   \* the lines it has made

formatVars == <<chat, msg, lines>>

Prefix(username) == username \o Separator

\* Mutant of singleLine: nothing separates the name from the text.
singleLineBare(username, text) == username \o text

singleLine(username, text) == Prefix(username) \o text

\* The text up to its last character that is no space.
trimRight(text) ==
    SubSeq(text, 1, CHOOSE n \in 0..Len(text) :
                       /\ n > 0 => text[n] # Space
                       /\ \A i \in (n + 1)..Len(text) : text[i] = Space)

FormatInit == chat = [username |-> <<>>, msg |-> <<>>] /\ msg = <<>> /\ lines = <<>>

BeginFormat(username, text) ==
    /\ chat' = [username |-> username, msg |-> trimRight(text)]
    /\ msg' = chat'.msg
    /\ lines' = <<>>

\* Mutant of FormatLine: the line is kept but not erased from the text.
FormatLineKeeps ==
    LET line == singleLine(chat.username, msg)
    IN  /\ msg # <<>> /\ Len(lines) < MaxLines
        /\ lines' = Append(lines, SubSeq(line, 1, Width))
        /\ msg' = IF Len(line) > Width THEN msg ELSE <<>>
        /\ UNCHANGED chat

FormatLine ==
    LET line == singleLine(chat.username, msg)
        end  == IF Len(line) < Width THEN Len(line) ELSE Width
    IN  /\ msg # <<>> /\ Len(lines) < MaxLines
        /\ lines' = Append(lines, SubSeq(line, 1, end))
        /\ msg' = SubSeq(line, end + 1, Len(line))
        /\ UNCHANGED chat

\* No memory for another line: bad_alloc.
FormatFails == msg # <<>> /\ Len(lines) = MaxLines /\ UNCHANGED formatVars

FormatEnds == msg = <<>>

-----------------------------------------------------------------------------
\* The name leaves room for text in a line.
Fits(username) == Len(Prefix(username)) < Width

\* What the lines say, without the name in front of each.
Said(username) ==
    FlattenSeq([i \in 1..Len(lines) |->
        SubSeq(lines[i], Len(Prefix(username)) + 1, Len(lines[i]))])

=============================================================================
