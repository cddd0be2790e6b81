----------------------------- MODULE SpecEngine -----------------------------
(***************************************************************************)
(* SpecEngine.generate of mlxturbo/spec.py over a ChatSession: one call    *)
(* after another on the session of a conversation.                         *)
(*                                                                         *)
(* A call takes the session's caches if the new prompt extends what they   *)
(* have absorbed, prefills the rest in chunks, and then drafts, verifies   *)
(* and rolls back until the answer ends.  A layer's cache is the sequence  *)
(* of tokens it has absorbed: kv for the layers that trim, rec for the     *)
(* recurrent ones, whose state is put back from a capture.  A hidden state *)
(* is the context it stands for.  The MTP head has a cache of its own, a   *)
(* row per pair of a token and the hidden state before it.                 *)
(***************************************************************************)
EXTENDS Integers, Sequences, SequencesExt, Selections

CONSTANTS
  Token, Eos, Support(_),  \* see PlainDecode
  Prompts,         \* the prompts that arrive
  Budgets,         \* the max_tokens they come with
  DraftCap,        \* max_draft or n_draft: cap_base
  LookupLen,       \* lookup_len
  PrefillStep,     \* PREFILL_STEP_SIZE
  CheckpointTail,  \* CHECKPOINT_TAIL
  Retention        \* CHECKPOINT_RETENTION

VocabularyAssumption == Eos \subseteq Token
PromptsAssumption ==
  /\ Prompts \subseteq Seq(Token) \ {<<>>}
  /\ Budgets \subseteq Nat
SizesAssumption ==
  /\ DraftCap \in Nat
  /\ LookupLen \in Nat
  /\ {PrefillStep, CheckpointTail, Retention} \subseteq Nat \ {0}

VARIABLES
  sess,     \* the ChatSession
  st,       \* where the call in progress is
  prompt,   \* prompt_ids
  budget,   \* max_tokens
  useMtp,   \* use_mtp
  out,      \* out_tokens
  gen       \* the locals that own the caches during a call

vars == <<sess, st, prompt, budget, useMtp, out, gen>>

(* The hidden state of no context: what a draft head makes of its own      *)
(* guess, what layers that disagree compute, or None.                      *)
Unknown == <<>>

NoTail == [pos |-> 0, h |-> Unknown]

(* ChatSession.invalidate(). *)
Invalid == [has |-> FALSE, processed |-> <<>>, kv |-> <<>>, rec |-> <<>>,
            mtp |-> <<>>, mtpValid |-> FALSE, h |-> Unknown,
            cps |-> <<>>, tail |-> NoTail]

(* The locals of a call that reuses nothing: make_cache(), KVCache(). *)
Fresh == [kv |-> <<>>, rec |-> <<>>, mtp |-> <<>>, h |-> Unknown,
          cps |-> <<>>, tail |-> NoTail, shared |-> FALSE, reused |-> 0,
          fed |-> <<>>, window |-> <<>>, off |-> 0]

Init ==
  /\ sess = Invalid
  /\ st = "idle"
  /\ prompt = <<>>
  /\ budget = 0
  /\ useMtp = FALSE
  /\ out = <<>>
  /\ gen = Fresh

First(s, n) == SubSeq(s, 1, n)
Drop(s, n) == First(s, Len(s) - n)
AtMost(m, n) == IF m < n THEN m ELSE n

(* The hidden state at the position n tokens before the end of the caches. *)
Hidden(kv, rec, n) == IF Drop(kv, n) = Drop(rec, n) THEN Drop(kv, n) ELSE Unknown

(* The tokens a hidden state may lead to. *)
Draw(h) == IF h = Unknown THEN Token ELSE Support(h)

(***************************************************************************)
(* Between calls                                                           *)
(***************************************************************************)
(* The checkpoints that are not past a position. *)
UpTo(cps, pos) == Selection(cps, {k \in DOMAIN cps : cps[k].pos <= pos})

(* A mutant: the MTP state of the old position stays valid. *)
RewoundWithMtp(x, cp) ==
  [x EXCEPT !.processed = First(@, cp.pos),
            !.kv = Drop(@, Len(x.processed) - cp.pos),
            !.rec = cp.snap,
            !.cps = UpTo(@, cp.pos),
            !.tail = IF @.pos = cp.pos THEN @ ELSE NoTail]

(* _try_checkpoint_restore_session_cache and what the selector does after *)
(* it; which checkpoint it picks is SessionPool's subject.                *)
Rewound(x, cp) ==
  [x EXCEPT !.processed = First(@, cp.pos),
            !.kv = Drop(@, Len(x.processed) - cp.pos),
            !.rec = cp.snap,
            !.mtp = <<>>, !.mtpValid = FALSE, !.h = Unknown,
            !.cps = UpTo(@, cp.pos),
            !.tail = IF @.pos = cp.pos THEN @ ELSE NoTail]

Rewind ==
  /\ st = "idle"
  /\ \E i \in DOMAIN sess.cps :
       /\ sess.cps[i].pos < Len(sess.processed)
       /\ sess' = Rewound(sess, sess.cps[i])
  /\ UNCHANGED <<st, prompt, budget, useMtp, out, gen>>

(* A mutant: a session that covers the prompt needs no tail. *)
CoverableAlways(x, p) == TRUE

(* The selector hands over a session that covers the whole prompt only if  *)
(* its tail is stamped there (_reuse_cap_for).                             *)
Coverable(x, p) == x.processed = p => x.tail.pos = Len(p)

(* The prompt extends what the session has absorbed, and its MTP rows need *)
(* not be made up for.                                                     *)
Reusable(x, p, mtpOn) ==
  /\ x.has
  /\ IsPrefix(x.processed, p)
  /\ mtpOn => x.mtpValid \/ x.h = Unknown

(* The caches move from the session to the call. *)
Taken(x, p) ==
  [Fresh EXCEPT
     !.shared = TRUE, !.kv = x.kv, !.rec = x.rec, !.cps = x.cps, !.reused = Len(x.processed),
     !.mtp = IF x.mtpValid THEN x.mtp ELSE <<>>,
     !.h = IF x.processed = p THEN x.tail.h
           ELSE IF x.mtpValid THEN x.h ELSE Unknown,
     !.tail = IF x.processed = p THEN x.tail ELSE NoTail]

(* A mutant: the session keeps the caches the call is about to change. *)
SessionShared(x, p) == x

SessionAfterTaking(x, p) ==
  IF x.has /\ IsPrefix(x.processed, p) THEN Invalid ELSE x

Begin ==
  /\ st = "idle"
  /\ prompt' \in {p \in Prompts : Coverable(sess, p)}
  /\ budget' \in Budgets
  /\ useMtp' \in {FALSE, DraftCap > 0}
  /\ out' = <<>>
  /\ LET keep == Reusable(sess, prompt', useMtp')
     IN  /\ gen' = IF keep THEN Taken(sess, prompt') ELSE Fresh
         /\ st' = IF keep /\ sess.processed = prompt' THEN "first" ELSE "prefill"
  /\ sess' = SessionAfterTaking(sess, prompt')

(***************************************************************************)
(* Prefill                                                                 *)
(***************************************************************************)
(* A mutant: nothing is evicted. *)
RetainedAll(cps) == cps

(* del checkpoints[:-CHECKPOINT_RETENTION] *)
Retained(cps) == SubSeq(cps, Len(cps) - AtMost(Len(cps), Retention) + 1, Len(cps))

Checkpointed(cps, pos, rec) == Retained(Append(cps, [pos |-> pos, snap |-> rec]))

(* A mutant: the position before the tail is that of the chunk's start. *)
ChunkCheckpointsAtStart(cps, done, chunk, rec, last) ==
  LET head == Drop(chunk, CheckpointTail)
  IN  Checkpointed(IF last /\ Len(chunk) > CheckpointTail
                   THEN Checkpointed(cps, done, rec \o head) ELSE cps,
                   done + Len(chunk), rec \o chunk)

(* split_and_checkpoint_tail: the last chunk stops before its last tokens  *)
(* for one more checkpoint.                                                *)
ChunkCheckpoints(cps, done, chunk, rec, last) ==
  LET head == Drop(chunk, CheckpointTail)
  IN  Checkpointed(IF last /\ Len(chunk) > CheckpointTail
                   THEN Checkpointed(cps, done + Len(head), rec \o head) ELSE cps,
                   done + Len(chunk), rec \o chunk)

(* A mutant: the rows are paired with the hidden state of their own token. *)
PrefillRowsShifted(g) ==
  LET from == IF g.h = Unknown THEN g.reused + 2 ELSE g.reused + 1
  IN  [i \in 1..(Len(prompt) - from + 1) |->
         <<prompt[from + i - 1], Hidden(g.kv, g.rec, Len(prompt) - (from + i - 1))>>]

(* The MTP rows of the prompt's new part: the first one needs the hidden   *)
(* state the session ended with.                                           *)
PrefillRows(g) ==
  LET from == IF g.h = Unknown THEN g.reused + 2 ELSE g.reused + 1
  IN  [i \in 1..(Len(prompt) - from + 1) |->
         LET j == from + i - 1
         IN  <<prompt[j], IF j = g.reused + 1 THEN g.h
                          ELSE Hidden(g.kv, g.rec, Len(prompt) - (j - 1))>>]

Prefill ==
  /\ st = "prefill"
  /\ LET done == gen.reused + Len(gen.window)
         chunk == SubSeq(prompt, done + 1, AtMost(done + PrefillStep, Len(prompt)))
         last == done + Len(chunk) = Len(prompt)
         g == [gen EXCEPT !.kv = @ \o chunk, !.rec = @ \o chunk,
                          !.cps = ChunkCheckpoints(@, done, chunk, gen.rec, last)]
         h == Hidden(g.kv, g.rec, 0)
     IN  IF last
         THEN /\ gen' = [g EXCEPT !.mtp = IF useMtp THEN @ \o PrefillRows(g) ELSE @,
                                  !.h = h, !.tail = [pos |-> Len(prompt), h |-> h],
                                  !.window = <<>>]
              /\ st' = "first"
         ELSE /\ gen' = [g EXCEPT !.window = @ \o chunk]
              /\ st' = "prefill"
  /\ UNCHANGED <<sess, prompt, budget, useMtp, out>>

(* The first token is drawn from the last hidden state of the prompt. *)
FirstToken ==
  /\ st = "first"
  /\ budget > 0
  /\ \E y \in Draw(gen.h) : out' = <<y>>
  /\ st' = "decode"
  /\ UNCHANGED <<sess, prompt, budget, useMtp, gen>>

(***************************************************************************)
(* A round: propose                                                        *)
(***************************************************************************)
More == Len(out) < budget /\ Last(out) \notin Eos

(* A mutant: the proposal may use up the budget, forgetting the token that *)
(* verification adds.                                                      *)
ProposalCapFull == budget - Len(out)

ProposalCap == budget - Len(out) - 1

Guesses(lo, hi) == UNION {[1..n -> Token] : n \in lo..hi}

(* The window to verify, and the rows drafting left in the MTP cache. *)
Proposed(drafts, rows) ==
  /\ st = "decode"
  /\ More
  /\ gen' = [gen EXCEPT !.window = <<Last(out)>> \o drafts,
                        !.off = Len(gen.mtp), !.mtp = @ \o rows]
  /\ st' = "verify"
  /\ UNCHANGED <<sess, prompt, budget, useMtp, out>>

(* The suffix automaton's continuation: any tokens, as far as the rest of  *)
(* the engine is concerned.                                                *)
ProposeLookup ==
  \E drafts \in Guesses(1, AtMost(LookupLen, ProposalCap)) : Proposed(drafts, <<>>)

Cap == IF useMtp THEN AtMost(DraftCap, ProposalCap) ELSE 0

(* The first link of the MTP chain, and its continuation by lookup. *)
ProposeExtended ==
  /\ Cap >= 1
  /\ ProposalCap >= 2
  /\ \E drafts \in Guesses(2, AtMost(LookupLen, ProposalCap - 1) + 1) :
       Proposed(drafts, <<<<Last(out), gen.h>>>>)

(* The MTP chain: every link but the first is drawn from the head's own    *)
(* hidden state. The gated chain draws all Cap links and verifies some.    *)
ProposeChain ==
  \E links \in Guesses(0, Cap), drawn \in {0, Cap} :
    LET n == IF drawn < Len(links) THEN Len(links) ELSE drawn
    IN  Proposed(links,
                 [i \in 1..n |-> IF i = 1 THEN <<Last(out), gen.h>>
                                 ELSE <<IF i - 1 <= Len(links) THEN links[i - 1]
                                        ELSE Last(out), Unknown>>])

(***************************************************************************)
(* A round: verify and commit                                              *)
(***************************************************************************)
(* A mutant: a draft the model would not say ends nothing. *)
AcceptableByLast(w, h) ==
  {a \in 0..(Len(w) - 1) :
     /\ a > 0 => w[a + 1] \in Draw(h[a])
     /\ a < Len(w) - 1 => Draw(h[a + 1]) \ {w[a + 2]} # {}}

(* How many drafts may be accepted: the ones before it could all be said,  *)
(* and if the next one is refused there is something else to say. Greedy,  *)
(* that is the longest run the model agrees with.                          *)
Acceptable(w, h) ==
  {a \in 0..(Len(w) - 1) :
     /\ \A i \in 1..a : w[i + 1] \in Draw(h[i])
     /\ a < Len(w) - 1 => Draw(h[a + 1]) \ {w[a + 2]} # {}}

(* The accepted drafts stop at the first end-of-sequence token. *)
EosAt(w, a) == {i \in 1..a : w[i + 1] \in Eos}
Cut(w, a) == CHOOSE i \in EosAt(w, a) : \A j \in EosAt(w, a) : i <= j

Refused(w, a) == IF a < Len(w) - 1 THEN {w[a + 2]} ELSE {}

(* A mutant: the recurrent state is put back to the end of the window. *)
RolledBackKvOnly(g, consumed) ==
  [g EXCEPT !.kv = (@ \o First(g.window, consumed)), !.rec = @ \o g.window]

(* _rollback: kv trims what was not consumed, rec takes the capture at the *)
(* last position consumed.                                                 *)
RolledBack(g, consumed) ==
  [g EXCEPT !.kv = Drop(@ \o g.window, Len(g.window) - consumed),
            !.rec = @ \o First(g.window, consumed)]

(* A mutant: the drafted rows stay when more than one token was consumed. *)
RepairedOnTop(g, consumed, h) ==
  g.mtp \o [i \in 1..consumed |-> <<g.window[i], IF i = 1 THEN g.h ELSE h[i - 1]>>]

(* _repair_mtp_cache: the first drafted row is kept when it is all that    *)
(* was consumed, otherwise the rows of the consumed tokens are built anew. *)
Repaired(g, consumed, h) ==
  IF Len(g.mtp) > g.off /\ consumed = 1
  THEN First(g.mtp, g.off + 1)
  ELSE First(g.mtp, g.off) \o
         [i \in 1..consumed |-> <<g.window[i], IF i = 1 THEN g.h ELSE h[i - 1]>>]

(* The caches keep the tokens that were consumed, the caller gets tokens. *)
Committed(tokens, consumed, h) ==
  /\ out' = out \o tokens
  /\ gen' = [RolledBack(gen, consumed) EXCEPT
               !.mtp = IF useMtp THEN Repaired(gen, consumed, h) ELSE @,
               !.h = h[consumed],
               !.fed = @ \o First(gen.window, consumed),
               !.window = <<>>, !.off = 0]

(* The hidden states of the window, from one forward of all of it. *)
WindowHidden ==
  LET w == gen.window
  IN  [i \in 1..Len(w) |-> Hidden(gen.kv \o w, gen.rec \o w, Len(w) - i)]

Verify ==
  /\ st = "verify"
  /\ LET w == gen.window  h == WindowHidden
     IN  \E a \in Acceptable(w, h) :
           \/ /\ EosAt(w, a) # {}
              /\ Committed(SubSeq(w, 2, Cut(w, a) + 1), Cut(w, a), h)
           \/ /\ EosAt(w, a) = {}
              /\ \E y \in Draw(h[a + 1]) \ Refused(w, a) :
                   Committed(SubSeq(w, 2, a + 1) \o <<y>>, 1 + a, h)
  /\ st' = "decode"
  /\ UNCHANGED <<sess, prompt, budget, useMtp>>

(***************************************************************************)
(* The end of a call                                                       *)
(***************************************************************************)
Finished ==
  \/ st = "first" /\ budget = 0
  \/ st = "decode" /\ ~More

(* ChatSession.publish() *)
Publish ==
  /\ Finished
  /\ sess' = [has |-> TRUE, processed |-> prompt \o gen.fed, kv |-> gen.kv,
              rec |-> gen.rec, mtp |-> gen.mtp, mtpValid |-> useMtp,
              h |-> gen.h, cps |-> gen.cps, tail |-> gen.tail]
  /\ gen' = Fresh
  /\ st' = "idle"
  /\ UNCHANGED <<prompt, budget, useMtp, out>>

(* What a session sees that still names the caches of the call. *)
SessionAfterFailure(x) ==
  IF gen.shared /\ x.has
  THEN [x EXCEPT !.kv = gen.kv, !.rec = gen.rec, !.mtp = gen.mtp]
  ELSE x

(* on_tokens raises, as it does to cancel, or the engine does. *)
Fail ==
  /\ st # "idle"
  /\ sess' = SessionAfterFailure(sess)
  /\ gen' = Fresh
  /\ st' = "idle"
  /\ UNCHANGED <<prompt, budget, useMtp, out>>

Next ==
  \/ Rewind \/ Begin
  \/ Prefill \/ FirstToken
  \/ ProposeLookup \/ ProposeExtended \/ ProposeChain
  \/ Verify
  \/ Publish \/ Fail

Spec == Init /\ [][Next]_vars

(***************************************************************************)
(* Properties                                                              *)
(***************************************************************************)
(* The pairs a context gives the MTP head. *)
TrueRows(c) == [i \in 1..(Len(c) - 1) |-> <<c[i + 1], First(c, i)>>]

(* The caches x are those of the context c: both kinds of layer, the       *)
(* checkpoints and the tail.                                               *)
Follow(x, c) ==
  /\ x.kv = c /\ x.rec = c
  /\ Len(x.cps) <= Retention
  /\ \A i \in DOMAIN x.cps :
       /\ x.cps[i].snap = First(c, x.cps[i].pos)
       /\ i > 1 => x.cps[i - 1].pos < x.cps[i].pos
  /\ x.tail.h = First(c, x.tail.pos)

(* Between two rounds, and in a session that is published, every cache     *)
(* stands for exactly the tokens that were fed: the trimmed layers, the    *)
(* recurrent state put back from a capture, the hidden state, each         *)
(* checkpoint, the tail, and an unbroken run of true MTP rows up to the    *)
(* last one (a rollback, a repair, a reuse or a failed call of spec.py     *)
(* that left one of them elsewhere would only show as a worse answer).     *)
CachesFollow ==
  /\ sess.has =>
       /\ Follow(sess, sess.processed)
       /\ sess.h \in {Unknown, sess.processed}
       /\ sess.mtpValid => /\ sess.h = sess.processed
                           /\ IsSuffix(sess.mtp, TrueRows(sess.processed))
  /\ st \in {"first", "decode"} =>
       /\ Follow(gen, prompt \o gen.fed)
       /\ gen.h = prompt \o gen.fed
       /\ useMtp => IsSuffix(gen.mtp, TrueRows(prompt \o gen.fed))
=============================================================================
