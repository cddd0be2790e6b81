--------------------------- MODULE MCNgramStream ---------------------------
(* Generations of one slot: a batch replaces one at every second row. *)
EXTENDS NgramStream

CONSTANTS mlx, d1, d2

MCBatches == {<<1, 2>>, <<2, 1, 2>>}
=============================================================================
