----------------------------- MODULE RaggedRows ------------------------------
(***************************************************************************)
(* What a ragged batch promises: every row has a history of its own, as if  *)
(* it were generated alone.  Rows enter with their prompt, grow by what a    *)
(* round accepts for them, and leave without disturbing the others.         *)
(***************************************************************************)
EXTENDS Integers, Sequences, SequencesExt, Selections

CONSTANTS Tokens, Width

VARIABLE rows   \* the histories, in batch order

Init == rows = <<>>

(* New rows join at the end, with any history. *)
Enter ==
  /\ Len(rows') > Len(rows) /\ IsPrefix(rows, rows')
  /\ \A i \in DOMAIN rows' : rows'[i] \in Seq(Tokens)

(* A round appends to every row between one token and Width. *)
Grow ==
  /\ Len(rows') = Len(rows)
  /\ \A b \in DOMAIN rows :
       /\ IsPrefix(rows[b], rows'[b])
       /\ Len(rows'[b]) - Len(rows[b]) \in 1..Width
       /\ rows'[b] \in Seq(Tokens)

(* Some rows leave; the others keep their order and their histories. *)
Leave == \E S \in SUBSET DOMAIN rows : rows' = Selection(rows, S)

Next == Enter \/ Grow \/ Leave

Spec == Init /\ [][Next]_rows
==============================================================================
