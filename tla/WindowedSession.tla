--------------------------- MODULE WindowedSession ---------------------------
(***************************************************************************)
(* A FallbackSession of mlxturbo/runner.py over a model whose layers are   *)
(* full attention or sliding windows, as LookupSpecRunner and              *)
(* Gemma4AssistantRunner use it.                                           *)
(*                                                                         *)
(* A full layer (kv) is the tokens it has absorbed. A sliding layer (ring) *)
(* is the tokens it still has: a forward of one token writes into a ring   *)
(* of max tokens, one of several keeps max - 1 old ones beside its own. A  *)
(* ring trims only while it has never been full. max is RotatingKVCache's  *)
(* max_size; a model without sliding layers is one whose ring never fills. *)
(***************************************************************************)
EXTENDS Integers, Sequences, SequencesExt

First(s, n) == SubSeq(s, 1, n)
Drop(s, n) == First(s, Len(s) - n)
AtMost(m, n) == IF m < n THEN m ELSE n
Final(s, n) == SubSeq(s, Len(s) - AtMost(n, Len(s)) + 1, Len(s))

NoCache == [kv |-> <<>>, ring |-> <<>>]

Fed(c, w, max) ==
  [kv   |-> c.kv \o w,
   ring |-> IF Len(w) = 1 THEN Final(c.ring \o w, max)
            ELSE Final(c.ring, max - 1) \o w]

(* can_trim_prompt_cache *)
CanTrim(c, max) == Len(c.kv) < max

(* trim_prompt_cache, which does nothing if one layer does not trim. *)
Trimmed(c, n, max) ==
  IF n > 0 /\ CanTrim(c, max)
  THEN [kv |-> Drop(c.kv, n), ring |-> Drop(c.ring, n)]
  ELSE c

(* Both kinds of layer stand for the context s, and the ring covers what a *)
(* token may look back to.                                                 *)
StandFor(c, s, max) ==
  /\ c.kv = s
  /\ IsSuffix(c.ring, s)
  /\ Len(c.ring) >= AtMost(Len(s), max)

Unknown == <<>>   \* the hidden state of layers that disagree

(* What a forward of w on c says at every position of w. *)
HiddenOver(c, w, max) ==
  LET after == Fed(c, w, max)
  IN  [j \in DOMAIN w |-> IF StandFor(after, after.kv, max)
                          THEN Drop(after.kv, Len(w) - j) ELSE Unknown]

(***************************************************************************)
(* The session                                                             *)
(***************************************************************************)
(* FallbackSession.invalidate() *)
Invalid == [has |-> FALSE, processed |-> <<>>, c |-> NoCache]

Published(c, processed) == [has |-> TRUE, processed |-> processed, c |-> c]

(* Both runners take a session over that the prompt extends by at least a  *)
(* token.                                                                  *)
Extends(x, p) ==
  x.has /\ IsPrefix(x.processed, p) /\ Len(x.processed) < Len(p)

(* A mutant: the session keeps the caches the call is about to change. *)
SessionShared(x, p) == x

SessionTaken(x, p) == IF Extends(x, p) THEN Invalid ELSE x

CacheTaken(x, p) == IF Extends(x, p) THEN x.c ELSE NoCache

(* _try_trim_session_cache, and the selector's update of processed. *)
Rewound(x, n, max) == Published(Trimmed(x.c, n, max), Drop(x.processed, n))

(* What a session sees that still names the caches of a call that failed. *)
AfterFailure(x, taken, c) == IF taken /\ x.has THEN [x EXCEPT !.c = c] ELSE x
==============================================================================
