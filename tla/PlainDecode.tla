----------------------------- MODULE PlainDecode -----------------------------
(***************************************************************************)
(* What generate() of mlxturbo/spec.py promises whatever it speculates:    *)
(* every token is one the model itself could have said after the prompt    *)
(* and the tokens before it, nothing follows an end-of-sequence token, and *)
(* max_tokens is a bound.                                                  *)
(***************************************************************************)
EXTENDS Naturals, Sequences

CONSTANTS
  Token,       \* the vocabulary
  Eos,         \* eos_ids
  Support(_)   \* what the model may say after a context: one token when greedy

VARIABLES
  prompt,   \* prompt_ids of the call in progress, or of the last one
  budget,   \* its max_tokens
  out       \* the tokens it has emitted

Init ==
  /\ prompt = <<>>
  /\ budget = 0
  /\ out = <<>>

(* A call begins. *)
Ask ==
  /\ prompt' \in Seq(Token) \ {<<>>}
  /\ budget' \in Nat
  /\ out' = <<>>

(* A block of one or more tokens is emitted. *)
Emit ==
  /\ UNCHANGED <<prompt, budget>>
  /\ Len(out) < Len(out')
  /\ Len(out') <= budget
  /\ SubSeq(out', 1, Len(out)) = out
  /\ \A i \in (Len(out) + 1)..Len(out') :
       /\ out'[i] \in Support(prompt \o SubSeq(out', 1, i - 1))
       /\ i > 1 => out'[i - 1] \notin Eos

Next == Ask \/ Emit

Spec == Init /\ [][Next]_<<prompt, budget, out>>
=============================================================================
