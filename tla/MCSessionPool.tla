---------------------------- MODULE MCSessionPool ----------------------------
(* Small instances of SessionPool.                                          *)
EXTENDS SessionPool, TLC

CONSTANTS b1, b2

(* Turns of a conversation: a first one, which may be sent again or stepped  *)
(* back to, a second one, and others that branch off.                       *)
Turns    == {<<1, 1, 2>>, <<1, 1, 2, 1, 2>>, <<1, 2, 2, 1>>, <<1, 1, 2, 2, 1, 1>>}
TwoTurns == {<<1, 2>>, <<1, 2, 1, 2>>}

Model(other, window, keepsTail, tail, retention) ==
  [other |-> other, window |-> window, keepsTail |-> keepsTail,
   checkpointTail |-> tail, retention |-> retention]

(* A speculative engine on a hybrid model, FallbackRunner on a hybrid model  *)
(* and on one whose layers all trim, and on one with sliding windows.       *)
Engine  == Model("recurrent", 0, TRUE, 4, 2)
Hybrid  == Model("recurrent", 0, FALSE, 1, 2)
Dense   == Model("none", 0, FALSE, 1, 1)
Sliding == Model("rotating", 5, FALSE, 1, 2)

Served   == {Engine, Hybrid, Dense}
Windowed == {Sliding}

PromptsOf == [m \in Models |-> IF m \in {Engine, Sliding} THEN Turns ELSE TwoTurns]
AnswersOf == [m \in Models |-> CASE m = Engine -> {<<>>, <<1>>}
                               [] m = Sliding -> {<<1>>, <<2, 1>>}
                               [] m = Hybrid -> {<<2>>}
                               [] m = Dense -> {<<1>>}]

AdmissionSymmetry == Permutations(Batch)
==============================================================================
