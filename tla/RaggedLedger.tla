---------------------------- MODULE RaggedLedger -----------------------------
(***************************************************************************)
(* The ragged batch of mlxturbo/batch_spec.py: RaggedLedger, the columns of  *)
(* RaggedAttnCache it describes, and the pads of RaggedDraftCache, under the *)
(* operations of BatchSpecGenerator and SpecPrefillLane.                     *)
(*                                                                         *)
(* All rows share one physical length L.  A round appends the same number of *)
(* columns to every row, and the ledger marks the rejected ones dead; a      *)
(* column holds the token and the position it was rotated to.                *)
(***************************************************************************)
EXTENDS Integers, Sequences, FiniteSets, Selections

CONSTANTS
  Tokens,
  Width,      \* T + 1 at most: columns of a round
  MaxRows,    \* bound: rows of a batch
  MaxL,       \* bound: physical columns
  MaxRounds,  \* bound: rounds since the batch was empty
  PromptLens, \* lengths of the prompts
  Window      \* PRIME_WINDOW

ASSUME SizeAssumption ==
  /\ Width \in Nat \ {0} /\ MaxRows \in Nat \ {0} /\ MaxL \in Nat
  /\ MaxRounds \in Nat /\ Window \in Nat \ {0}
  /\ PromptLens \subseteq Nat \ {0, 1} /\ Tokens # {}

VARIABLES
  L,        \* physical columns, of the ledger
  alive,    \* _alive: per row, which columns are seen
  valid,    \* _valid_len: per row, its logical length
  cols,     \* per row, the columns of the KV caches
  phys,     \* _idx of the KV caches
  memo,     \* _mask_memo: the width a mask was built for, and what it shows
  width,    \* columns of the round in flight, 0 between rounds
  pads,     \* _pad of the draft cache
  dsize,    \* _idx of the draft cache
  drafted,  \* per row, the positions its draft columns were rotated to
  rounds

ledger == <<L, alive, valid>>
drafts == <<pads, dsize, drafted>>
ledgerVars == <<ledger, cols, phys, memo, width, drafts, rounds>>

Zero == [tok |-> 0, pos |-> 0]
Rows == DOMAIN alive

Const(n, x) == [i \in 1..n |-> x]
Most(S) == IF S = {} THEN 0 ELSE CHOOSE x \in S : \A y \in S : y <= x
MaxValid == Most({valid[b] : b \in Rows})
AliveAt(b) == {i \in 1..L : alive[b][i]}

LedgerInit ==
  /\ L = 0 /\ alive = <<>> /\ valid = <<>>
  /\ cols = <<>> /\ phys = 0
  /\ memo = {} /\ width = 0
  /\ pads = <<>> /\ dsize = 0 /\ drafted = <<>>
  /\ rounds = 0

(* _invalidate(): every operation on the ledger drops the masks built of it. *)
KeepMemo == memo' = memo
Invalidate == memo' = {}

(***************************************************************************)
(* Entering rows                                                           *)
(***************************************************************************)
Rotated(ts, from) == [i \in DOMAIN ts |-> [tok |-> ts[i], pos |-> from + i]]

(* The priming window of a draft cache counts from its own first column. *)
Primed(w) == [i \in 1..w |-> i]

(* A batch starts from a list of prompts, padded on the right and committed  *)
(* as one round that keeps each row's own length.                           *)
Prefill(prompts) ==
  /\ L = 0 /\ alive = <<>> /\ width = 0
  /\ LET n == Most({Len(prompts[b]) : b \in DOMAIN prompts})
         w == Most({k \in 1..Window :
                     \A b \in DOMAIN prompts : k <= Len(prompts[b]) - 1})
     IN  /\ L' = n
         /\ alive' = [b \in DOMAIN prompts |-> [i \in 1..n |-> i <= Len(prompts[b])]]
         /\ cols' = [b \in DOMAIN prompts |->
                      Rotated(prompts[b], 0) \o Const(n - Len(prompts[b]), Zero)]
         /\ phys' = n
         /\ valid' = [b \in DOMAIN prompts |-> Len(prompts[b])]
         /\ pads' = [b \in DOMAIN prompts |-> 0]
         /\ dsize' = w
         /\ drafted' = [b \in DOMAIN prompts |-> Primed(w)]
  /\ Invalidate
  /\ UNCHANGED <<width, rounds>>

(* Left-padding a row to n columns. *)
LeftPad(s, n, x) == Const(n - Len(s), x) \o s

PackedTail(b) == SubSeq(cols[b], L - MaxValid + 1, L)

(* compact(): the columns of each row that are still seen, pushed to the     *)
(* right end of as few columns as the longest row needs.                     *)
Packed(b) ==
  LET kept == Selection(cols[b], AliveAt(b))
  IN  Const(MaxValid - Len(kept), cols[b][1]) \o kept

PackedAlive(b) == [i \in 1..MaxValid |-> i > MaxValid - valid[b]]

(* The draft columns of a row that joins, and of those that were there, are  *)
(* padded to the wider of the two.                                          *)
PadsBack(n, w) == Append([b \in Rows |-> pads[b] - (n - dsize)], n - w)
NewPads(n, w) == Append([b \in Rows |-> pads[b] + (n - dsize)], n - w)

(* join(): a prefilled row enters a running batch, which is compacted first  *)
(* if it has a dead column everywhere.                                      *)
Join(prompt) ==
  /\ Rows # {} /\ width = 0
  /\ Len(alive) < MaxRows
  /\ LET dense == L > MaxValid
         oldL  == IF dense THEN MaxValid ELSE L
         newL  == IF Len(prompt) > oldL THEN Len(prompt) ELSE oldL
         live(b) == IF dense THEN PackedAlive(b) ELSE alive[b]
         data(b) == IF dense THEN Packed(b) ELSE cols[b]
         w == IF Len(prompt) - 1 < Window THEN Len(prompt) - 1 ELSE Window
         n == IF w > dsize THEN w ELSE dsize
     IN  /\ newL <= MaxL
         /\ L' = newL
         /\ phys' = newL
         /\ alive' = Append([b \in Rows |-> LeftPad(live(b), newL, FALSE)],
                            [i \in 1..newL |-> i > newL - Len(prompt)])
         /\ valid' = Append(valid, Len(prompt))
         /\ cols' = Append([b \in Rows |-> LeftPad(data(b), newL, Zero)],
                           LeftPad(Rotated(prompt, 0), newL, Zero))
         /\ dsize' = n
         /\ pads' = NewPads(n, w)
         /\ drafted' = Append([b \in Rows |-> LeftPad(drafted[b], n, 0)],
                              LeftPad(Primed(w), n, 0))
  /\ Invalidate
  /\ UNCHANGED <<width, rounds>>

(***************************************************************************)
(* A round                                                                 *)
(***************************************************************************)

(* What a layer sees: the columns that are alive, and the new ones causally. *)
Mask(T) == [T |-> T, past |-> [b \in Rows |-> AliveAt(b)]]

(* round_mask(): built once and reused by every layer of the round. *)
RoundMask(T) ==
  IF \E m \in memo : m.T = T THEN CHOOSE m \in memo : m.T = T ELSE Mask(T)

(* RaggedDraftCache.offset: the columns a row does not own are not counted. *)
DraftOffset(b) == dsize - pads[b]

(* RaggedAttnCache.offset: rows count on from their own logical length. *)
OffsetPhysical(b) == L
Offset(b) == valid[b]

(* The verification forward: T columns for every row, rotated on from its   *)
(* logical length.  The draft chain keeps one column of its own.            *)
Forward(T, ts) ==
  /\ Rows # {} /\ width = 0 /\ rounds < MaxRounds
  /\ L + T <= MaxL
  /\ memo' = memo \cup {RoundMask(T)}
  /\ cols' = [b \in Rows |-> cols[b] \o Rotated(ts[b], Offset(b))]
  /\ phys' = phys + T
  /\ width' = T
  /\ dsize' = IF T > 1 THEN dsize + 1 ELSE dsize
  /\ drafted' = [b \in Rows |-> IF T > 1 THEN Append(drafted[b], DraftOffset(b) + 1)
                                ELSE drafted[b]]
  /\ UNCHANGED <<ledger, pads, rounds>>

(* commit_round(): the first keeps[b] of the new columns stay alive. *)
CommittedShort(b, keep) == alive[b] \o [i \in 1..width |-> i < keep]
Committed(b, keep) == alive[b] \o [i \in 1..width |-> i <= keep]

CommitRound(keeps) ==
  /\ width > 0
  /\ alive' = [b \in Rows |-> Committed(b, keeps[b])]
  /\ valid' = [b \in Rows |-> valid[b] + keeps[b]]
  /\ L' = L + width
  /\ Invalidate
  /\ width' = 0
  /\ rounds' = rounds + 1
  /\ UNCHANGED <<cols, phys, drafts>>

(***************************************************************************)
(* Leaving rows, and columns                                               *)
(***************************************************************************)

(* retire(): the rows that stay, in order. *)
Retire(staying) ==
  /\ width = 0 /\ Rows # {} /\ staying # Rows
  /\ alive' = Selection(alive, staying) /\ valid' = Selection(valid, staying)
  /\ cols' = Selection(cols, staying)
  /\ pads' = Selection(pads, staying) /\ drafted' = Selection(drafted, staying)
  /\ Invalidate
  /\ UNCHANGED <<L, phys, width, dsize, rounds>>

(* The scheduler drops a batch that has no row left. *)
Discard ==
  /\ width = 0 /\ Rows = {} /\ L > 0
  /\ L' = 0 /\ phys' = 0 /\ dsize' = 0 /\ rounds' = 0
  /\ Invalidate
  /\ UNCHANGED <<alive, valid, cols, pads, drafted, width>>

(* maybe_compact(): when the columns exceed what is valid by half. *)
Compact ==
  /\ width = 0 /\ MaxValid > 0
  /\ 2 * L > 3 * MaxValid
  /\ cols' = [b \in Rows |-> Packed(b)]
  /\ alive' = [b \in Rows |-> PackedAlive(b)]
  /\ L' = MaxValid
  /\ phys' = MaxValid
  /\ Invalidate
  /\ UNCHANGED <<valid, width, drafts, rounds>>

Pieces(n) == [1..n -> Tokens]
Prompts == UNION {Pieces(n) : n \in PromptLens}

LedgerNext ==
  \/ \E n \in 1..MaxRows : \E ps \in [1..n -> Prompts] : Prefill(ps)
  \/ \E p \in Prompts : Join(p)
  \/ \E T \in 1..Width : \E ts \in [Rows -> Pieces(T)] : Forward(T, ts)
  \/ \E keeps \in [Rows -> 1..width] : CommitRound(keeps)
  \/ \E S \in SUBSET Rows : Retire(S)
  \/ Discard \/ Compact

LedgerSpec == LedgerInit /\ [][LedgerNext]_ledgerVars

(***************************************************************************)
(* Properties                                                              *)
(***************************************************************************)
Column == [tok : Tokens \cup {0}, pos : Nat]

LedgerTypeOK ==
  /\ L \in Nat /\ phys \in Nat /\ dsize \in Nat /\ rounds \in Nat
  /\ width \in 0..Width
  /\ alive \in Seq(Seq(BOOLEAN))
  /\ valid \in Seq(Nat) /\ pads \in Seq(Nat) /\ drafted \in Seq(Seq(Nat))
  /\ cols \in Seq(Seq(Column))
  /\ IsFiniteSet(memo)

(* The ledger and the caches it describes count the same columns in every   *)
(* row, and the logical length of a row is the number of its live columns.  *)
Counted ==
  /\ phys = L + width
  /\ Len(valid) = Len(alive) /\ Len(cols) = Len(alive)
  /\ \A b \in Rows :
       /\ Len(alive[b]) = L /\ Len(cols[b]) = phys
       /\ Cardinality(AliveAt(b)) = valid[b]

(* Whatever was padded, rejected, joined or packed, the live columns of a    *)
(* row were rotated to the positions 1, 2, 3, ... of its own history; the    *)
(* draft cache shows a row its own columns and no padding, and their         *)
(* positions go on counting from its own priming window.                    *)
RotationsHold ==
  /\ \A b \in Rows :
       LET live == Selection(cols[b], AliveAt(b))
       IN  \A i \in DOMAIN live : live[i].pos = i
  /\ Len(pads) = Len(alive) /\ Len(drafted) = Len(alive)
  /\ \A b \in Rows :
       /\ Len(drafted[b]) = dsize /\ pads[b] <= dsize
       /\ \A i \in 1..dsize :
            drafted[b][i] = IF i > pads[b] THEN i - pads[b] ELSE 0

(* A mask that is kept for the layers of a round shows the ledger as it is.  *)
MasksFresh == \A m \in memo : m = Mask(m.T)

(* Ledger, KV columns, draft cache and kept masks are changed by different  *)
(* calls of a round, a join, a retirement and a compaction: between them     *)
(* they never part.                                                         *)
Aligned == LedgerTypeOK /\ Counted /\ RotationsHold /\ MasksFresh

History(b) ==
  LET live == Selection(cols[b], AliveAt(b)) IN [i \in DOMAIN live |-> live[i].tok]

Alone == INSTANCE RaggedRows WITH rows <- [b \in Rows |-> History(b)]

(* Every row reads exactly its own history, as if it were alone. *)
RowsAlone == Alone!Spec
==============================================================================
