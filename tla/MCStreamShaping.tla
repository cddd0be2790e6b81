--------------------------- MODULE MCStreamShaping ---------------------------
(* Small instances of StreamShaping: 1 and 2 make up the markers, 3 is a     *)
(* line end, 4 ends the generation.                                         *)
EXTENDS StreamShaping

OneTwo  == <<1, 2>>
TwoTwo  == <<2, 2>>
OneOne  == <<1, 1>>
TwoOne  == <<2, 1>>
One     == <<1>>

(* Stop strings of two tokens, so that a delta may end with the first; one   *)
(* may leave room for a tool call behind it.                                 *)
MCStops == {<<3, 1>>, <<2, 2>>}
==============================================================================
