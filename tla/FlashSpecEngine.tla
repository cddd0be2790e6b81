-------------------------- MODULE FlashSpecEngine --------------------------
(***************************************************************************)
(* FlashSpecEngine.generate_stream of mlxturbo/spec_flash.py under the     *)
(* FlashSpecRunner of mlxturbo/runner.py: one call after another on the    *)
(* session of a conversation.                                              *)
(*                                                                         *)
(* The model has four kinds of cache, which a rejected draft leaves by     *)
(* four different rules: attention (kv) trims, its indexer (idx) is cut to *)
(* a length noted before the forward, the recurrent layers (rec) take the  *)
(* capture at a position, the n-gram context (ctx) is built again from the *)
(* context before.  Each is the sequence of tokens it stands for, a hidden *)
(* state is the context it stands for, and the draft cache of the MTP head *)
(* has a row per token and the hidden state before it.  cur is Last(out):  *)
(* the token to feed next.                                                 *)
(***************************************************************************)
EXTENDS Integers, Sequences, SequencesExt, Selections

CONSTANTS
  Token, Eos, Support(_),  \* see PlainDecode
  Prompts,         \* the prompts that arrive
  Budgets,         \* the max_tokens they come with
  Depth,           \* MTP_DEPTH: the longest draft
  Step,            \* PREFILL_STEP_SIZE
  Group,           \* _PREFILL_GROUP
  TailSize,        \* CHECKPOINT_TAIL
  Retention,       \* CHECKPOINT_RETENTION
  PrimeWindow,     \* PRIME_WINDOW
  ContextLen,      \* ngram_size - 1
  Knobs            \* the settings the engine may run with

VocabularyAssumption == Eos \subseteq Token
PromptsAssumption == Prompts \subseteq Seq(Token) \ {<<>>} /\ Budgets \subseteq Nat
SizesAssumption ==
  /\ {Depth, Step, Group, TailSize, Retention, PrimeWindow, ContextLen} \subseteq Nat \ {0}
  /\ TailSize < Step
KnobsAssumption ==
  Knobs \subseteq [pipeline : {0, 1, 2},   \* MLXTURBO_PIPELINE
                   presync : BOOLEAN,      \* MLXTURBO_DRAFT_PRESYNC
                   grouped : BOOLEAN]      \* _PREFILL_GROUP > 1

VARIABLES
  knobs,    \* the environment the process was started with
  sess,     \* the FallbackSession
  st,       \* where the call in progress is
  prompt,   \* prompt_ids
  budget,   \* max_tokens
  greedy,   \* temp <= 0 and no sampler
  out,      \* the tokens yielded
  gen       \* the locals of the call

vars == <<knobs, sess, st, prompt, budget, greedy, out, gen>>

Unknown == <<>>     \* the hidden state of caches that disagree

First(s, n) == SubSeq(s, 1, n)
Drop(s, n) == First(s, Len(s) - n)
AtMost(m, n) == IF m < n THEN m ELSE n
Final(s, n) == SubSeq(s, Len(s) - AtMost(n, Len(s)) + 1, Len(s))

(***************************************************************************)
(* Caches                                                                  *)
(***************************************************************************)
NoCache == [kv |-> <<>>, idx |-> <<>>, rec |-> <<>>, ctx |-> <<>>]

(* One forward of some tokens. *)
Fed(c, w) == [kv |-> c.kv \o w, idx |-> c.idx \o w, rec |-> c.rec \o w,
              ctx |-> Final(c.ctx \o w, ContextLen)]

Agree(c) == c.idx = c.kv /\ c.rec = c.kv /\ c.ctx = Final(c.kv, ContextLen)

(* The hidden state n tokens before the end. *)
Hidden(c, n) == IF Agree(c) THEN Drop(c.kv, n) ELSE Unknown

(* What the forward of w after c says at every position of w. *)
HiddenOver(c, w) == [j \in 1..Len(w) |-> Hidden(Fed(c, w), Len(w) - j)]

(* The tokens the model may say next: its first choice when greedy. *)
Top(h) == CHOOSE y \in (IF h = Unknown THEN Token ELSE Support(h)) : TRUE
Draw(h) == IF h = Unknown THEN Token ELSE IF greedy THEN {Top(h)} ELSE Support(h)

(* snapshot_pre: what the capture of the forward cannot give back; and the *)
(* state the capture starts from.                                          *)
Pre(c) == [idxLen |-> Len(c.idx), ctx |-> c.ctx, rec |-> c.rec]

(* A mutant: the context is put back as it was before the forward. *)
RollbackOldContext(c, pre, pair, keep) ==
  IF keep = Len(pair) THEN c
  ELSE [kv |-> Drop(c.kv, Len(pair) - keep),
        idx |-> First(c.idx, pre.idxLen + keep),
        rec |-> pre.rec \o First(pair, keep),
        ctx |-> pre.ctx]

(* rollback and rollback_recurrent: keep the first tokens of the pair. *)
Rollback(c, pre, pair, keep) ==
  IF keep = Len(pair) THEN c
  ELSE [kv |-> Drop(c.kv, Len(pair) - keep),
        idx |-> First(c.idx, pre.idxLen + keep),
        rec |-> pre.rec \o First(pair, keep),
        ctx |-> Final(pre.ctx \o First(pair, keep), ContextLen)]

(***************************************************************************)
(* The session                                                             *)
(***************************************************************************)
NoTail == [pos |-> 0, h |-> Unknown, mtp |-> <<>>]

(* FallbackSession.invalidate(). *)
Invalid == [has |-> FALSE, processed |-> <<>>, c |-> NoCache, cps |-> <<>>, tail |-> NoTail]

NoRound == [pair |-> <<>>, hs |-> <<>>, pre |-> Pre(NoCache)]
NoNext == [round |-> NoRound, c |-> NoCache, mtp |-> <<>>]

Fresh == [c |-> NoCache, cps |-> <<>>, tail |-> NoTail, reused |-> 0,
          shared |-> FALSE,
          cuts |-> <<>>, kept |-> <<>>,                \* prefill
          h |-> Unknown, mtp |-> <<>>, drafts |-> <<>>,
          round |-> NoRound, next |-> NoNext, off |-> 0]

Init ==
  /\ knobs \in Knobs
  /\ sess = Invalid
  /\ st = "idle"
  /\ prompt = <<>> /\ budget = 0 /\ greedy = TRUE /\ out = <<>>
  /\ gen = Fresh

(* The checkpoints that are not past a position. *)
UpTo(cps, pos) == Selection(cps, {k \in DOMAIN cps : cps[k].pos <= pos})

(* _try_checkpoint_restore_session_cache: what trims is trimmed, the rest  *)
(* is put back from the snapshot. SessionPool says which one is picked.    *)
Rewind ==
  /\ st = "idle"
  /\ \E i \in DOMAIN sess.cps :
       LET cp == sess.cps[i]  n == Len(sess.processed) - cp.pos
       IN  /\ n > 0
           /\ sess' = [sess EXCEPT
                         !.processed = Drop(@, n),
                         !.c = [kv |-> Drop(@.kv, n), idx |-> Drop(@.idx, n),
                                rec |-> cp.rec, ctx |-> cp.ctx],
                         !.cps = UpTo(@, cp.pos),
                         !.tail = IF @.pos = cp.pos THEN @ ELSE NoTail]
  /\ UNCHANGED <<knobs, st, prompt, budget, greedy, out, gen>>

(* A mutant: the session keeps the caches the call is about to change. *)
SessionShared(x) == x

SessionTaken(x) == Invalid

(* FlashSpecRunner.generate takes a session the prompt extends; a session  *)
(* that covers the whole prompt needs the tail of exactly this position,   *)
(* which the selector sees to.                                             *)
Begin ==
  /\ st = "idle"
  /\ prompt' \in {p \in Prompts : sess.processed = p => sess.tail.pos = Len(p)}
  /\ budget' \in Budgets
  /\ greedy' \in BOOLEAN
  /\ out' = <<>>
  /\ IF sess.has /\ IsPrefix(sess.processed, prompt')
     THEN LET resume == sess.processed = prompt'
              base == [Fresh EXCEPT !.c = sess.c, !.cps = sess.cps, !.shared = TRUE,
                                     !.reused = Len(sess.processed)]
          IN  /\ gen' = IF resume
                        THEN [base EXCEPT !.tail = sess.tail, !.h = sess.tail.h,
                                          !.mtp = sess.tail.mtp]
                        ELSE base
              /\ st' = IF resume THEN "first" ELSE "prefill"
              /\ sess' = SessionTaken(sess)
     ELSE gen' = Fresh /\ st' = "prefill" /\ UNCHANGED sess
  /\ UNCHANGED knobs

(***************************************************************************)
(* Prefill                                                                 *)
(***************************************************************************)
Checkpointed(cps, c) ==
  LET all == Append(cps, [pos |-> Len(c.kv), rec |-> c.rec, ctx |-> c.ctx])
  IN  Final(all, Retention)

(* A mutant: the group takes the tail with it, but for one token. *)
BeforeTailShort(width) == width - 1

(* What the group runs of the last chunk. *)
BeforeTail(width) == width - TailSize

(* The members of the next group, given how much of the prompt is left:    *)
(* whole chunks, the odd one that precedes the last chunk if the group has *)
(* room, and the last chunk without its tail. A single whole chunk makes   *)
(* no group.                                                               *)
GroupWidths(left) ==
  LET whole == IF left < Step THEN 0 ELSE AtMost(Group, (left - Step) \div Step)
      after == left - whole * Step
      odd   == IF whole < Group /\ Step < after /\ after < 2 * Step
               THEN <<after - Step>> ELSE <<>>
      most  == [k \in 1..whole |-> Step] \o odd
      rest  == IF odd = <<>> THEN after ELSE Step
  IN  IF most # <<>> /\ TailSize < rest /\ rest <= Step
      THEN Append(most, BeforeTail(rest))
      ELSE IF Len(most) = 1 /\ odd = <<>> THEN <<>> ELSE most

Done == Len(gen.c.kv)
Left == Len(prompt) - Done
NextOf(n) == SubSeq(prompt, Done + 1, Done + n)

(* The ends of consecutive chunks, after the first n tokens. *)
Ends(n, widths) ==
  LET end[k \in 0..Len(widths)] == IF k = 0 THEN n ELSE end[k - 1] + widths[k]
  IN  [k \in 1..Len(widths) |-> end[k]]

(* Run the next chunks of the prompt: the caches move, each chunk leaves   *)
(* its hyper state, of which the last two are kept.                        *)
Run(g, widths, hypers) ==
  LET end == Last(Ends(Done, widths))
  IN  [g EXCEPT !.c = Fed(@, NextOf(end - Done)),
                !.cuts = @ \o Ends(Done, widths),
                !.kept = Final(@ \o hypers, 2)]

(* _group_prefill_forward, layer by layer, and one checkpoint at its end. *)
PrefillGroup ==
  /\ st = "prefill"
  /\ knobs.grouped
  /\ GroupWidths(Left) # <<>>
  /\ LET g == Run(gen, GroupWidths(Left), GroupWidths(Left))
     IN  gen' = [g EXCEPT !.cps = Checkpointed(@, g.c)]
  /\ UNCHANGED <<knobs, sess, st, prompt, budget, greedy, out>>

ByChunk == st = "prefill" /\ ~(knobs.grouped /\ GroupWidths(Left) # <<>>)

(* A chunk before the last one. *)
PrefillChunk ==
  /\ ByChunk
  /\ Left > Step
  /\ LET width == AtMost(Step, Left - Step)
         g == Run(gen, <<width>>, <<width>>)
     IN  gen' = [g EXCEPT !.cps = Checkpointed(@, g.c)]
  /\ UNCHANGED <<knobs, sess, st, prompt, budget, greedy, out>>

(* A mutant: the rows of the window are taken from its front. *)
PrimedRowsFront(c, span) ==
  [i \in 1..(span - 1) |-> <<c.kv[i + 1], Hidden(c, Len(c.kv) - i)>>]

(* _prime_draft_cache: the pairs of the last span positions. *)
PrimedRows(c, span) ==
  [i \in 1..(span - 1) |->
     LET k == Len(c.kv) - span + i IN <<c.kv[k + 1], Hidden(c, Len(c.kv) - k)>>]

(* _retain_hyper_tail: how many hyper states the last two chunks give. *)
PrimeSpan(kept, new) ==
  LET wanted == AtMost(PrimeWindow + 1, new)
      cur == Last(kept)
  IN  IF cur >= wanted \/ Len(kept) = 1 THEN AtMost(cur, wanted)
      ELSE AtMost(wanted, cur + kept[1])

(* The last chunk, its tail apart (split_and_checkpoint_tail), and what    *)
(* the call keeps of the boundary between prefill and decode.              *)
PrefillLast ==
  /\ ByChunk
  /\ Left <= Step
  /\ LET head == IF Left > TailSize THEN Left - TailSize ELSE 0
         split == IF head = 0 THEN gen
                  ELSE LET g == Run(gen, <<head>>, <<>>) IN [g EXCEPT !.cps = Checkpointed(@, g.c)]
         c == Fed(gen.c, NextOf(Left))
         h == Hidden(c, 0)
         kept == Final(Append(gen.kept, Left), 2)
         mtp == IF budget = 0 THEN <<>>
                ELSE PrimedRows(c, PrimeSpan(kept, Len(prompt) - gen.reused))
     IN  gen' = [split EXCEPT !.c = c, !.cps = Checkpointed(@, c), !.kept = <<>>,
                              !.cuts = Append(@, Len(prompt)), !.h = h, !.mtp = mtp,
                              !.tail = [pos |-> Len(prompt), h |-> h, mtp |-> mtp]]
  /\ st' = "first"
  /\ UNCHANGED <<knobs, sess, prompt, budget, greedy, out>>

FirstToken ==
  /\ st = "first"
  /\ budget > 0
  /\ \E y \in Draw(gen.h) : out' = <<y>>
  /\ st' = IF out'[1] \in Eos THEN "end" ELSE "decode"
  /\ UNCHANGED <<knobs, sess, prompt, budget, greedy, gen>>

(***************************************************************************)
(* A round                                                                 *)
(***************************************************************************)
(* What _draft_chain comes up with: any tokens, at a depth that the        *)
(* context length or the depth controller chooses.                         *)
Drafts == UNION {[1..d -> Token] : d \in 1..Depth}

(* A mutant: the second link's row, made of a guess, stays.                *)
DraftedRowsAll(mtp, cur, h) == mtp \o <<<<cur, h>>, <<cur, Unknown>>>>

(* _draft_chain keeps the row of cur and trims those of its own guesses. *)
DraftedRows(mtp, cur, h) == Append(mtp, <<cur, h>>)

Draft ==
  /\ st = "decode"
  /\ Len(out) < budget
  /\ gen.drafts = <<>> /\ gen.next = NoNext
  /\ \E d \in Drafts :
       gen' = [gen EXCEPT !.drafts = d, !.mtp = DraftedRows(@, Last(out), gen.h)]
  /\ UNCHANGED <<knobs, sess, st, prompt, budget, greedy, out>>

(* The verification forward of a pair after c. *)
RoundOf(c, pair) == [pair |-> pair, hs |-> HiddenOver(c, pair), pre |-> Pre(c)]

(* The next round is put together before this one is known: as if all of   *)
(* it were accepted.                                                       *)
Guessed(c, round, mtp, d) ==
  LET cur == Top(Last(round.hs))
  IN  [round |-> RoundOf(c, <<cur>> \o d), c |-> c, mtp |-> mtp]

Ahead(total) == knobs.pipeline > 0 /\ greedy /\ Len(out) + total < budget
Presync == knobs.presync /\ knobs.pipeline = 0 /\ greedy

(* Submit the verification of this round, and what may go with it: the     *)
(* next round as guessed, or the first draft step after every position.    *)
Submit ==
  /\ st = "decode"
  /\ gen.drafts # <<>> \/ gen.next # NoNext
  /\ LET adopted == gen.next # NoNext
         round == IF adopted THEN gen.next.round ELSE RoundOf(gen.c, <<Last(out)>> \o gen.drafts)
         c == IF adopted THEN gen.c ELSE Fed(gen.c, round.pair)
         total == Len(round.pair)
         base == [gen EXCEPT !.drafts = <<>>, !.next = NoNext, !.round = round, !.c = c,
                             !.off = Len(gen.mtp)]
     IN  IF Ahead(total)
         THEN \E d \in Drafts :
                LET next == Guessed(c, round, gen.mtp, d)
                IN  gen' = [base EXCEPT !.next = next, !.c = Fed(c, next.round.pair),
                                        !.mtp = DraftedRows(@, next.round.pair[1], Last(round.hs))]
         ELSE gen' = [base EXCEPT !.mtp = IF Presync
                                          THEN @ \o [j \in 1..total |->
                                                       <<Top(round.hs[j]), round.hs[j]>>]
                                          ELSE @]
  /\ st' = "verify"
  /\ UNCHANGED <<knobs, sess, prompt, budget, greedy, out>>

(* A mutant: the answer after the first wrong draft is the draft. *)
VerdictsOfDrafts(round) == {Tail(round.pair) \o <<y>> : y \in Draw(Last(round.hs))}

(* _verify: what the model says at each position, up to and including the  *)
(* first one where the draft is something else.                            *)
Verdicts(round) ==
  LET d == Tail(round.pair)
      agreed == {a \in 0..Len(d) : \A j \in 1..a : d[j] \in Draw(round.hs[j])}
  IN  UNION {{First(d, a) \o <<y>> :
                y \in Draw(round.hs[a + 1]) \ (IF a < Len(d) THEN {d[a + 1]} ELSE {})} :
             a \in agreed}

(* The answer stops at an end-of-sequence token and at max_tokens. *)
Cut(vals) ==
  LET ends == {k \in DOMAIN vals : vals[k] \in Eos}
      upTo == IF ends = {} THEN Len(vals) ELSE CHOOSE k \in ends : \A o \in ends : k <= o
  IN  First(vals, AtMost(upTo, budget - Len(out)))

(* A mutant: only the first of the confirmed tokens gets its row. *)
GapRowsOne(vals, hs) == IF Len(vals) > 1 THEN <<<<vals[1], hs[1]>>>> ELSE <<>>

(* _prime_accepted_gap: the rows of the confirmed tokens but the last. *)
GapRows(vals, hs) == [i \in 1..(Len(vals) - 1) |-> <<vals[i], hs[i]>>]

(* A mutant: a guessed round that is not taken leaves its caches.          *)
UnpipelinedNot(g) == [g EXCEPT !.mtp = g.next.mtp]

(* _pipeline_restore *)
Unpipelined(g) == [g EXCEPT !.c = g.next.c, !.mtp = g.next.mtp]

(* The rows of the draft cache once vals are confirmed. *)
Confirmed(mtp, vals, full) ==
  IF Presync THEN First(mtp, gen.off + Len(vals))
  ELSE IF full /\ knobs.pipeline = 1 THEN mtp
  ELSE mtp \o GapRows(vals, gen.round.hs)

(* Settle a round: take or drop the guessed one, bring the draft cache up  *)
(* to the confirmed tokens, draft on if there is more to come, roll back.  *)
Settle ==
  /\ st = "verify"
  /\ \E said \in Verdicts(gen.round) :
       LET vals == Cut(said)
           ended == Last(vals) \in Eos
           full == Len(vals) = Len(gen.round.pair) /\ ~ended
           taken == gen.next # NoNext /\ full /\ knobs.pipeline = 1
           g == IF gen.next = NoNext \/ taken THEN gen ELSE Unpipelined(gen)
           more == Len(out) + Len(vals) < budget /\ ~ended
           h == gen.round.hs[Len(vals)]
           rows == Confirmed(g.mtp, vals, full)
           base == [g EXCEPT !.round = NoRound, !.off = 0, !.h = h,
                             !.next = IF taken THEN gen.next ELSE NoNext,
                             !.c = Rollback(@, gen.round.pre, gen.round.pair, Len(vals))]
       IN  /\ out' = out \o vals
           /\ st' = IF more THEN "decode" ELSE "end"
           /\ IF more /\ ~taken
              THEN \E d \in Drafts :
                     gen' = [base EXCEPT !.drafts = d,
                                         !.mtp = IF Presync THEN rows
                                                 ELSE DraftedRows(rows, Last(vals), h)]
              ELSE gen' = [base EXCEPT !.mtp = rows]
  /\ UNCHANGED <<knobs, sess, prompt, budget, greedy>>

(***************************************************************************)
(* The end of a call                                                       *)
(***************************************************************************)
Finished ==
  \/ st = "end"
  \/ st = "first" /\ budget = 0
  \/ st = "decode" /\ Len(out) >= budget

(* A mutant: the last token is taken to be in the caches. *)
ProcessedAll == prompt \o out

(* The last token was yielded and never fed. *)
Processed == prompt \o First(out, Len(out) - AtMost(1, Len(out)))

Publish ==
  /\ Finished
  /\ sess' = [has |-> TRUE, processed |-> Processed, c |-> gen.c, cps |-> gen.cps,
              tail |-> gen.tail]
  /\ gen' = Fresh
  /\ st' = "idle"
  /\ UNCHANGED <<knobs, prompt, budget, greedy, out>>

(* The callback raises, as it does to cancel, or the engine does. A        *)
(* session that still names the caches of the call sees what became of     *)
(* them.                                                                   *)
Fail ==
  /\ st # "idle"
  /\ sess' = IF gen.shared /\ sess.has THEN [sess EXCEPT !.c = gen.c] ELSE sess
  /\ gen' = Fresh
  /\ st' = "idle"
  /\ UNCHANGED <<knobs, prompt, budget, greedy, out>>

Next ==
  \/ Rewind \/ Begin
  \/ PrefillGroup \/ PrefillChunk \/ PrefillLast
  \/ FirstToken \/ Draft \/ Submit \/ Settle
  \/ Publish \/ Fail

Spec == Init /\ [][Next]_vars

(***************************************************************************)
(* Properties                                                              *)
(***************************************************************************)
(* All four kinds of cache stand for the context s. *)
StandFor(c, s) == c.kv = s /\ Agree(c)

(* The checkpoints and the tail are of the context s. *)
MarksOf(x, s) ==
  /\ Len(x.cps) <= Retention
  /\ \A i \in DOMAIN x.cps :
       LET cp == x.cps[i]
       IN  /\ cp.rec = First(s, cp.pos)
           /\ cp.ctx = Final(First(s, cp.pos), ContextLen)
           /\ i > 1 => x.cps[i - 1].pos < cp.pos
  /\ x.tail.h = First(s, x.tail.pos)

(* The rows are pairs of a token of s and the hidden state before it, in   *)
(* order, and unbroken unless guessed rounds are taken, which are known to *)
(* leave the confirmed tokens between out (spec_flash.py:2749-2755).       *)
TrueRows(rows, s) ==
  /\ \A i \in DOMAIN rows : rows[i] = <<s[Len(rows[i][2]) + 1], First(s, Len(rows[i][2]))>>
  /\ \A i \in 2..Len(rows) :
       LET n == Len(rows[i][2]) - Len(rows[i - 1][2])
       IN  IF knobs.pipeline = 1 THEN n > 0 ELSE n = 1
  /\ knobs.pipeline # 1 /\ rows # <<>> => Len(Last(rows)[2]) + 1 = Len(s)

(* Between rounds, and in a published session, every cache stands for      *)
(* exactly what was fed: the token to feed next is not in it, no rejected  *)
(* or guessed token is, and the draft cache holds confirmed rows only, the *)
(* engine's invariant of spec_flash.py:1294-1296 and 1640-1643.            *)
CachesFollow ==
  /\ sess.has => StandFor(sess.c, sess.processed) /\ MarksOf(sess, sess.processed)
  /\ st = "first" => StandFor(gen.c, prompt) /\ gen.h = prompt
  /\ st \in {"first", "decode", "end"} => MarksOf(gen, prompt)
  /\ st \in {"decode", "end"} =>
       /\ StandFor(gen.c, Processed \o gen.next.round.pair)
       /\ gen.h = Processed
       /\ st = "decode" /\ gen.next = NoNext =>
            TrueRows(gen.mtp, IF gen.drafts # <<>> THEN prompt \o out ELSE Processed)

(* The chunks are those of the plain prefill, whatever is run layer by     *)
(* layer: whole chunks from the start, the odd one before the last, the    *)
(* last one, its tail apart (spec_flash.py:2268-2269; another grid rounds  *)
(* otherwise and answers otherwise).                                       *)
GridKept ==
  st = "first" /\ gen.cuts # <<>> =>
    LET n == Len(prompt) - gen.reused
        grid == {k * Step : k \in 1..(n - Step) \div Step} \union {n}
                  \union (IF n > Step THEN {n - Step} ELSE {})
        tail == IF AtMost(n, Step) > TailSize THEN {n - TailSize} ELSE {}
    IN  gen.cuts = InOrder({gen.reused + k : k \in grid \union tail})
=============================================================================
