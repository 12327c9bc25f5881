----------------------------- MODULE PlayerDBMC -----------------------------
(***************************************************************************)
(* Names for the model checker: one for each way the file format can treat *)
(* a name, up to two characters, and one of three.                         *)
(***************************************************************************)
EXTENDS PlayerDB

\* An empty and a plain name; a comma alone and after a character; backslashes
\* that are harmless, at the end, and before a comma; two escapes in a row.
MCNames == {<<>>, <<"x">>, <<",">>, <<"x", ",">>, <<"\\", "x">>, <<"x", "\\">>,
            <<"\\", ",">>, <<"\\", "\\", ",">>}
=============================================================================
