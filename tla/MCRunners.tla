----------------------------- MODULE MCRunners -----------------------------
(* One conversation over a vocabulary of three tokens, the last of which    *)
(* ends an answer. The model hesitates after every context of even length.  *)
EXTENDS Runners

MCSpecPrompts ==
  {<<1>>, <<1, 2>>, <<2, 1, 1>>, <<1, 2, 1>>, <<1, 1, 2, 2>>, <<1, 2, 1, 1, 2>>,
   <<1, 1, 2, 2, 1, 2>>, <<2, 1, 1, 2, 2, 1, 1>>}
MCFlashPrompts ==
  {<<1>>, <<1, 1, 2, 2>>, <<1, 2, 1, 1, 2, 2>>, <<1, 2, 1, 1, 2, 2, 1>>,
   <<2, 1, 1, 2, 2, 1, 1, 2, 1>>}
MCLookupPrompts ==
  {<<1>>, <<1, 2, 1>>, <<1, 2, 1, 2>>, <<1, 1, 2, 1, 1, 2, 1>>, <<2, 3, 1, 2, 2, 3, 1, 2>>}
MCGemmaPrompts == {<<1>>, <<1, 2>>, <<1, 2, 1>>, <<1, 2, 1, 1, 2, 2, 1>>}

MCSupport(c) ==
  IF Len(c) % 2 = 0 THEN {1, 2}
  ELSE {1 + ((Len(c) + (IF c = <<>> THEN 0 ELSE c[Len(c)])) % 3)}

(* The switches of group prefill and of the rounds are independent; the     *)
(* presynced round needs the pipeline off.                                  *)
MCKnobs ==
  {[pipeline |-> p, presync |-> FALSE, grouped |-> p = 1] : p \in 0..2}
    \union {[pipeline |-> 0, presync |-> TRUE, grouped |-> FALSE],
            [pipeline |-> 0, presync |-> FALSE, grouped |-> TRUE]}
=============================================================================
