------------------------------ MODULE ConnectionMC ------------------------------
(***************************************************************************)
(* Two clients.  Fields are shorter and fewer than the real ones.  The     *)
(* bytes inside of packets include ids, so that a stream once shifted is   *)
(* read as packets nobody sent; the packet with id 0 is one the switch     *)
(* does not have.                                                          *)
(***************************************************************************)
EXTENDS Connection, TLC

CONSTANTS c1, c2

MCLayout == (5 :> <<2>>) @@ (13 :> <<1, 2>>)
MCBlock == [id |-> 5, fields |-> << <<13, 5>> >>]
MCChat == [id |-> 13, fields |-> << <<255>>, <<5, 97>> >>]
MCInfo == [id |-> 0, fields |-> << <<13>> >>]
MCPlans == (c1 :> {<<MCChat, MCBlock>>}) @@ (c2 :> {<<MCBlock>>, <<MCInfo, MCChat>>})
MCReply == <<1, 2>>

=============================================================================
