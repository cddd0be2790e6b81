--------------------------- MODULE SuffixAutomaton ---------------------------
(***************************************************************************)
(* SuffixAutomaton of mlxturbo/sam.py: the automaton of a growing sequence *)
(* of tokens and the cursor of its longest suffix that occurred before.    *)
(*                                                                         *)
(* A state is the longest string that leads to it (its length), the state  *)
(* of its longest suffix of another class (link), its transitions, and a   *)
(* place where it ends (end). States and places are counted from 1, and 0  *)
(* is none; state 1 is that of the empty string.                           *)
(***************************************************************************)
EXTENDS Integers, Sequences, SequencesExt

CONSTANT Token

Blank == [t \in Token |-> 0]

Empty ==
  [states |-> <<[len |-> 0, link |-> 0, trans |-> Blank, end |-> 0]>>,
   last |-> 1, seq |-> <<>>, at |-> 1, matched |-> 0]

(* The states from s along the links, which lead to ever shorter strings   *)
(* and end after that of the empty one.                                    *)
Chain(S, s) ==
  LET up[n \in 0..Len(S)] == IF n = 0 THEN s
                              ELSE IF up[n - 1] = 0 THEN 0 ELSE S[up[n - 1]].link
      top == Cardinality({n \in 1..Len(S) : up[n - 1] # 0})
  IN  [n \in 1..top |-> up[n - 1]]

(* The place in a chain of the first state that goes on with t, or 0. *)
FirstWith(S, chain, t) == SelectInSeq(chain, LAMBDA s : S[s].trans[t] # 0)

(* Where the cursor gets to with t: the state, the length, and the states  *)
(* of the chain it has passed.                                             *)
Step(a, t) ==
  LET chain == Chain(a.states, a.at)
      k == FirstWith(a.states, chain, t)
      s == IF k = 0 THEN Last(chain) ELSE chain[k]
      len == IF s = a.at THEN a.matched ELSE a.states[s].len
  IN  [at      |-> IF k = 0 THEN 1 ELSE a.states[s].trans[t],
       matched |-> IF k = 0 THEN 0 ELSE len + 1,
       passed  |-> ToSet(SubSeq(chain, 2, IF k = 0 THEN Len(chain) ELSE k)) \ {1}]

(* A mutant: any state the cursor was in is said to end here.              *)
AdvancedAlways(a, t) ==
  LET step == Step(a, t)
  IN  [a EXCEPT !.states = [s \in DOMAIN a.states |->
                              IF s \in step.passed \cup {a.at}
                              THEN [a.states[s] EXCEPT !.end = Len(a.seq)]
                              ELSE a.states[s]],
                !.at = step.at, !.matched = step.matched]

(* _advance_match: on its way the cursor notes where the states end that   *)
(* the suffix fills.                                                       *)
Advanced(a, t) ==
  LET step == Step(a, t)
      full == IF a.matched > 0 /\ a.matched = a.states[a.at].len THEN {a.at} ELSE {}
  IN  [a EXCEPT !.states = [s \in DOMAIN a.states |->
                              IF s \in step.passed \cup full
                              THEN [a.states[s] EXCEPT !.end = Len(a.seq)]
                              ELSE a.states[s]],
                !.at = step.at, !.matched = step.matched]

Redirected(S, those, t, s) ==
  [q \in DOMAIN S |-> IF q \in those THEN [S[q] EXCEPT !.trans[t] = s] ELSE S[q]]

(* A mutant: no state is split. *)
GrownNoClone(a, t) ==
  LET S == a.states
      chain == Chain(S, a.last)
      k == FirstWith(S, chain, t)
      cur == Len(S) + 1
      above == ToSet(IF k = 0 THEN chain ELSE SubSeq(chain, 1, k - 1))
      state == [len |-> S[a.last].len + 1, link |-> IF k = 0 THEN 1 ELSE S[chain[k]].trans[t],
                trans |-> Blank, end |-> Len(a.seq) + 1]
  IN  [a EXCEPT !.states = Append(Redirected(S, above, t, cur), state), !.last = cur]

(* _sam_extend: a state for the whole sequence, and a clone where the      *)
(* string that occurred before is shorter than its state.                  *)
Grown(a, t) ==
  LET S == a.states
      chain == Chain(S, a.last)
      k == FirstWith(S, chain, t)
      cur == Len(S) + 1
      above == ToSet(IF k = 0 THEN chain ELSE SubSeq(chain, 1, k - 1))
      grown(link) == Append(Redirected(S, above, t, cur),
                            [len |-> S[a.last].len + 1, link |-> link,
                             trans |-> Blank, end |-> Len(a.seq) + 1])
      p == chain[k]
      q == S[p].trans[t]
      clone == cur + 1
      leading == {s \in ToSet(SubSeq(chain, k, Len(chain))) : S[s].trans[t] = q}
      split == Append(Redirected(grown(clone), leading, t, clone),
                      [grown(clone)[q] EXCEPT !.len = S[p].len + 1])
  IN  [a EXCEPT !.last = cur,
                !.states = IF k = 0 THEN grown(1)
                           ELSE IF S[p].len + 1 = S[q].len THEN grown(q)
                           ELSE [split EXCEPT ![q].link = clone]]

(* extend(): the cursor moves before the automaton grows. *)
Extended(a, t) == [Grown(Advanced(a, t), t) EXCEPT !.seq = Append(@, t)]

(* extend_all() *)
ExtendedBy(a, ts) ==
  LET after[n \in 0..Len(ts)] == IF n = 0 THEN a ELSE Extended(after[n - 1], ts[n])
  IN  after[Len(ts)]

(***************************************************************************)
(* Queries                                                                 *)
(***************************************************************************)
LongestMatch(a) ==
  [len |-> a.matched, end |-> IF a.matched = 0 THEN 0 ELSE a.states[a.at].end]

(* peek_match(): the match there would be if t came next. *)
Peek(a, t) ==
  LET step == Step(a, t)
  IN  [len |-> step.matched, end |-> IF step.matched = 0 THEN 0 ELSE a.states[step.at].end]

(* draft(), or an empty draft: what followed the match. *)
Draft(a, max, min) ==
  LET m == LongestMatch(a)
  IN  IF max <= 0 \/ m.len < min \/ m.end = 0 THEN <<>>
      ELSE SubSeq(a.seq, m.end + 1, IF m.end + max < Len(a.seq) THEN m.end + max ELSE Len(a.seq))

(***************************************************************************)
(* The reference                                                           *)
(***************************************************************************)
Suffix(s, n) == SubSeq(s, Len(s) - n + 1, Len(s))

(* The suffix of length n of s ends at e. *)
Ends(s, n, e) == n <= e /\ SubSeq(s, e - n + 1, e) = Suffix(s, n)

(* The longest suffix that also ended earlier. *)
Repeats(s) == {n \in 1..Len(s) : \E e \in n..(Len(s) - 1) : Ends(s, n, e)}
Longest(s) == IF Repeats(s) = {} THEN 0
              ELSE CHOOSE n \in Repeats(s) : \A m \in Repeats(s) : m <= n

(* A match is the longest there is, and it did end where it says.          *)
Genuine(m, s) ==
  /\ m.len = Longest(s)
  /\ m.len > 0 => m.end < Len(s) /\ Ends(s, m.len, m.end)
==============================================================================
