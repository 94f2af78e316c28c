----------------------------- MODULE MCConsole -----------------------------
(* Instance of Console for TLC: a screen of three rows of two characters, a  *)
(* character of two pixels and a pixel of two bytes; a scroll goes through   *)
(* all three loops of memory_fastest_copy().                                 *)
EXTENDS Console, TLC

CONSTANTS t1, t2
MCChar == {"i", "l"}
MCGlyph == ("i" :> {<<0, 1>>}) @@ ("l" :> {<<0, 0>>, <<0, 1>>})
MCColour == (t1 :> 1) @@ (t2 :> 2)
MCMessage == {<<"nl", "i">>, <<"l">>}
MCIrqMessage == {<<"nl", "l">>}
=============================================================================
