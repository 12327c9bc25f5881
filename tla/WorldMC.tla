-------------------------------- MODULE WorldMC --------------------------------
(***************************************************************************)
(* World with two players: one whose name leaves two characters of a line  *)
(* to the text, one whose name leaves none.  Places are chosen so that     *)
(* steps between them fit the offset, are its largest multiple, leave one  *)
(* axis alone, or wrap.                                                    *)
(***************************************************************************)
EXTENDS World

MCCharacter == {"a", "b", "c", "k", "l", "m", "n", ":", " "}
MCName == [p \in Player |-> IF p = 1 THEN <<"a">> ELSE <<"a", "b", "c">>]
MCSeparator == <<":", " ">>
MCPlace(x, z) == [a \in Axes |-> IF a = "x" THEN x ELSE z]
MCPlaces == {MCPlace(0, 0), MCPlace(4, 1), MCPlace(15, 0)}
MCSpawn == [at |-> MCPlace(7, 2), h |-> 0, p |-> 1]
MCMessages == {<<"k", " ", "l", "m", "n">>, <<"k", "l", " ", " ", " ">>,
               <<" ", " ", " ", " ", " ">>}

=============================================================================
