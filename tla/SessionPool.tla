----------------------------- MODULE SessionPool -----------------------------
(***************************************************************************)
(* STATE.session_pool of mlxturbo/server.py and the sessions in it: the    *)
(* serial path selects one under STATE.lock, rewinds it to what it shares  *)
(* with the new prompt and generates on its cache; the batch path claims   *)
(* one with a mark, without the lock.                                      *)
(*                                                                         *)
(* A cache is modelled by the tokens each of its layers has absorbed: kv   *)
(* for the layers that can always be trimmed, oth for those that cannot,   *)
(* or not always.  A cache is right when both equal the session's          *)
(* processed, which is what every reuse relies on and nothing verifies.    *)
(***************************************************************************)
EXTENDS Integers, Sequences, FiniteSets, SequencesExt, Selections

CONSTANTS
  Models,         \* the models that may be loaded, with their runners
  Prompts,        \* the prompts that arrive, by model: sequences of tokens
  Answers,        \* what a generation may feed back into its cache, by model
  Batch,          \* the concurrent batch admissions
  Slots,          \* identities of session objects, 1..n
  MaxSessions     \* --max-sessions

(* other: the layers beside kv. keepsTail: the runner publishes a tail, as   *)
(* the speculative engines do. checkpointTail: CHECKPOINT_TAIL or            *)
(* _CHECKPOINT_TAIL. retention: CHECKPOINT_RETENTION. window: max_size of a  *)
(* rotating layer.                                                          *)
ASSUME SizeAssumption ==
  /\ MaxSessions \in Nat \ {0}
  /\ Slots = 1..(MaxSessions + 1)
  /\ Models \subseteq [other : {"none", "recurrent", "rotating"}, window : Nat,
                       keepsTail : BOOLEAN, checkpointTail : Nat \ {0},
                       retention : Nat \ {0}]
  /\ \A m \in Models : m.other = "rotating" => ~m.keepsTail
ASSUME PromptAssumption ==
  \A m \in Models : /\ Prompts[m] \subseteq Seq(Nat) /\ <<>> \notin Prompts[m]
                    /\ Answers[m] \subseteq Seq(Nat)

VARIABLES
  model,    \* the model that is loaded
  pool,     \* the pool, least recently used first
  sess,     \* what each session object holds
  claimed,  \* the sessions marked by the batch path
  serial,   \* the request that holds STATE.lock, if any
  orphan,   \* the prompt of a cancelled request whose selection is queued
  batch     \* the batch admissions

vars == <<model, pool, sess, claimed, serial, orphan, batch>>

Other == model.other
Window == model.window
KeepsTail == model.keepsTail
CheckpointTail == model.checkpointTail
Retention == model.retention

NoTail == [pos |-> 0, hist |-> <<>>]

(* invalidate(): nothing is published. *)
Invalid == [has |-> FALSE, processed |-> <<>>, kv |-> <<>>, oth |-> <<>>,
            cps |-> <<>>, tail |-> NoTail]

(* A request before it owns a cache, and while it does. *)
Waiting(st, slot, prompt, reused) ==
  [st |-> st, slot |-> slot, prompt |-> prompt, reused |-> reused,
   kv |-> <<>>, oth |-> <<>>, cps |-> <<>>]
Running(r, reused, kv, oth, cps) ==
  [st |-> "running", slot |-> r.slot, prompt |-> r.prompt, reused |-> reused,
   kv |-> kv, oth |-> oth, cps |-> cps]

Idle == Waiting("idle", 0, <<>>, 0)

Init ==
  /\ model \in Models
  /\ pool = <<>>
  /\ sess = [s \in Slots |-> Invalid]
  /\ claimed = {}
  /\ serial = Idle
  /\ orphan = <<>>
  /\ batch = [b \in Batch |-> Idle]

(***************************************************************************)
(* Prefixes and rewinding                                                  *)
(***************************************************************************)
First(s, n) == SubSeq(s, 1, n)

Common(s, t) ==
  Cardinality({i \in DOMAIN s \cap DOMAIN t : First(s, i) = First(t, i)})

(* A mutant: a prompt may always be covered whole. *)
CapAtLength(x, prompt) == Len(prompt)

(* Reuse leaves a token to prefill, unless the session stopped its own      *)
(* prefill exactly where this prompt ends.                                  *)
ReuseCap(x, prompt) ==
  IF x.tail.pos = Len(prompt) THEN Len(prompt) ELSE Len(prompt) - 1

Lcp(x, prompt) ==
  LET c == Common(x.processed, prompt)  cap == ReuseCap(x, prompt)
  IN  IF c < cap THEN c ELSE cap

(* is_trimmable() of the layers beside kv. *)
OtherTrims(x) ==
  \/ Other = "none"
  \/ Other = "rotating" /\ Len(x.oth) < Window

KeepTail(x, n) == IF x.tail.pos = n THEN x.tail ELSE NoTail

(* _try_trim_session_cache and what the selector does after it. *)
CanTrim(x) == x.has /\ OtherTrims(x)

(* A layer without what it absorbed after the first n tokens. *)
Rolled(x, s, n) == First(s, Len(s) - (Len(x.processed) - n))

(* A session cut at n. *)
Cut(x, n, oth, cps) ==
  [has |-> x.has, processed |-> First(x.processed, n), kv |-> Rolled(x, x.kv, n),
   oth |-> oth, cps |-> cps, tail |-> KeepTail(x, n)]

Trimmed(x, n) ==
  Cut(x, n, IF Other = "none" THEN <<>> ELSE Rolled(x, x.oth, n), x.cps)

(* _try_checkpoint_restore_session_cache: the latest checkpoint at or      *)
(* before n whose snapshot covers exactly the layers that cannot be        *)
(* trimmed now.                                                            *)
Usable(x, n) == {i \in DOMAIN x.cps : x.cps[i].pos <= n /\ x.cps[i].pos > 0}

Nearest(x, n) ==
  CHOOSE i \in Usable(x, n) :
    \A j \in Usable(x, n) :
      \/ x.cps[j].pos < x.cps[i].pos
      \/ x.cps[j].pos = x.cps[i].pos /\ i <= j

(* The checkpoints at or before a position. *)
UpTo(cps, pos) == Selection(cps, {i \in DOMAIN cps : cps[i].pos <= pos})

CanRestore(x, n) ==
  /\ x.has
  /\ n < Len(x.processed)
  /\ Usable(x, n) # {}
  /\ x.cps[Nearest(x, n)].deep <=> ~OtherTrims(x)
  /\ Len(x.processed) - x.cps[Nearest(x, n)].pos <= Len(x.kv)

Snapped(x, cp) == IF cp.deep THEN cp.snap ELSE Rolled(x, x.oth, cp.pos)

(* A mutant: processed is cut at the match, not at the checkpoint. *)
RestoredToMatch(x, n) ==
  LET cp == x.cps[Nearest(x, n)]
  IN  [Cut(x, cp.pos, Snapped(x, cp), UpTo(x.cps, cp.pos))
         EXCEPT !.processed = First(x.processed, n)]

(* A mutant: later checkpoints survive the restore. *)
RestoredWithAll(x, n) ==
  LET cp == x.cps[Nearest(x, n)] IN Cut(x, cp.pos, Snapped(x, cp), x.cps)

Restored(x, n) ==
  LET cp == x.cps[Nearest(x, n)]
  IN  Cut(x, cp.pos, Snapped(x, cp), UpTo(x.cps, cp.pos))

CanRewind(x, n) == CanTrim(x) \/ CanRestore(x, n)
Rewound(x, n) == IF CanTrim(x) THEN Trimmed(x, n) ELSE Restored(x, n)

(***************************************************************************)
(* Selection on the serial path                                            *)
(***************************************************************************)
InPool == ToSet(pool)
Held(s) == s \in claimed

(* move_to_end *)
Newest(p, s) == Append(RemoveFirst(p, s), s)

(* A mutant: the mark of the batch path is not looked at. *)
WholeOfAny(prompt) ==
  {s \in InPool : sess[s].processed # <<>>
                  /\ Lcp(sess[s], prompt) = Len(sess[s].processed)}

(* 1st pass: the whole of processed is a prefix of the prompt. *)
Whole(prompt) ==
  {s \in InPool : ~Held(s) /\ sess[s].processed # <<>>
                  /\ Lcp(sess[s], prompt) = Len(sess[s].processed)}

(* A mutant: the mark is not looked at in the second pass. *)
PartialOfAny(prompt) ==
  {s \in InPool : /\ 0 < Lcp(sess[s], prompt)
                  /\ Lcp(sess[s], prompt) < Len(sess[s].processed)
                  /\ CanRewind(sess[s], Lcp(sess[s], prompt))}

(* 2nd pass: a part of it is, and the cache can be rewound there. *)
Partial(prompt) ==
  {s \in InPool : /\ ~Held(s)
                  /\ 0 < Lcp(sess[s], prompt)
                  /\ Lcp(sess[s], prompt) < Len(sess[s].processed)
                  /\ CanRewind(sess[s], Lcp(sess[s], prompt))}

Position(s) == CHOOSE i \in DOMAIN pool : pool[i] = s

(* The longest match; among equals the one used longest ago. *)
Best(S, prompt) ==
  CHOOSE s \in S : \A t \in S :
    \/ Lcp(sess[t], prompt) < Lcp(sess[s], prompt)
    \/ Lcp(sess[t], prompt) = Lcp(sess[s], prompt) /\ Position(s) <= Position(t)

Unclaimed == Among(pool, Slots \ claimed)

(* Session objects nobody refers to: what session_factory() may return. *)
Used == InPool \cup {serial.slot} \cup {batch[b].slot : b \in Batch}
Fresh == CHOOSE s \in Slots \ Used : \A t \in Slots \ Used : s <= t

(* A mutant: the new session is pooled even when nothing can be evicted. *)
AlwaysPool(s) ==
  IF Len(pool) >= MaxSessions /\ Unclaimed # <<>>
    THEN Append(RemoveFirst(pool, Head(Unclaimed)), s)
    ELSE Append(pool, s)

(* A miss evicts the least recently used unclaimed session when the pool is *)
(* full; if every session is claimed the new one stays outside the pool.    *)
PoolAfterMiss(s) ==
  IF Len(pool) >= MaxSessions /\ Unclaimed # <<>>
    THEN Append(RemoveFirst(pool, Head(Unclaimed)), s)
    ELSE IF Len(pool) < MaxSessions THEN Append(pool, s) ELSE pool

(* The executor is one thread, and _drive keeps it from the first prepared  *)
(* admission to the last released one.                                      *)
DriveIdle == \A b \in Batch : batch[b].st \in {"idle", "claimed"}

(* A request takes STATE.lock. *)
Lock(prompt) ==
  /\ serial.st = "idle"
  /\ serial' = Waiting("locked", 0, prompt, 0)
  /\ UNCHANGED <<pool, sess, claimed, orphan, batch>>

(* _select_session for a prompt, under _SESSION_POOL_LOCK: the session, and *)
(* what becomes of the pool.                                                *)
Selecting(prompt, s) ==
  \/ /\ Whole(prompt) # {}
     /\ s = Best(Whole(prompt), prompt)
     /\ pool' = Newest(pool, s)
     /\ UNCHANGED sess
  \/ /\ Whole(prompt) = {} /\ Partial(prompt) # {}
     /\ s = Best(Partial(prompt), prompt)
     /\ pool' = Newest(pool, s)
     /\ sess' = [sess EXCEPT ![s] = Rewound(@, Lcp(@, prompt))]
  \/ /\ Whole(prompt) = {} /\ Partial(prompt) = {}
     /\ s = Fresh
     /\ pool' = PoolAfterMiss(s)
     /\ sess' = [q \in Slots |-> IF q \in ToSet(pool') \ {s} THEN sess[q] ELSE Invalid]

Select ==
  /\ serial.st = "locked" /\ orphan = <<>> /\ DriveIdle
  /\ \E s \in Slots :
       /\ Selecting(serial.prompt, s)
       /\ serial' = Waiting("selected", s, serial.prompt, 0)
  /\ UNCHANGED <<claimed, orphan, batch>>

(* The request is cancelled and gives the lock back; a selection that is    *)
(* already running is not undone.                                           *)
Abandon ==
  /\ serial.st \in {"locked", "selected"}
  /\ serial' = Idle
  /\ orphan' \in IF serial.st = "locked" /\ orphan = <<>>
                   THEN {<<>>, serial.prompt} ELSE {orphan}
  /\ UNCHANGED <<pool, sess, claimed, batch>>

(* The selection of a cancelled request runs with the lock free. *)
SelectOrphan ==
  /\ orphan # <<>> /\ DriveIdle
  /\ \E s \in Slots : Selecting(orphan, s)
  /\ orphan' = <<>>
  /\ UNCHANGED <<claimed, serial, batch>>

(***************************************************************************)
(* Generation                                                              *)
(***************************************************************************)

(* A runner takes the session's cache over when it is a prefix of the       *)
(* prompt, and starts afresh otherwise.                                     *)
Reusable(x, prompt) ==
  /\ x.has
  /\ Common(x.processed, prompt) = Len(x.processed)
  /\ Len(x.processed) < Len(prompt) \/ KeepsTail

(* A prompt covered whole resumes from the tail; without one a token is     *)
(* left to prefill, on a cache that has absorbed it already.                *)
Resumed(x, prompt) ==
  IF Len(x.processed) = Len(prompt) /\ x.tail.pos # Len(prompt)
    THEN Len(prompt) - 1 ELSE Len(x.processed)

Owner(r, x) ==
  IF Reusable(x, r.prompt)
    THEN Running(r, Resumed(x, r.prompt), x.kv, x.oth, x.cps)
    ELSE Running(r, 0, <<>>, <<>>, <<>>)

(* generate(): the session is invalidated before its cache is touched. *)
Generate ==
  /\ serial.st = "selected" /\ DriveIdle
  /\ LET x == sess[serial.slot] IN
       /\ serial' = Owner(serial, x)
       /\ sess' = IF Reusable(x, serial.prompt)
                    THEN [sess EXCEPT ![serial.slot] = Invalid] ELSE sess
  /\ UNCHANGED <<pool, claimed, orphan, batch>>

(* A mutant: a prompt shorter than the tail gets a checkpoint too. *)
MarksBefore(r) ==
  LET n == Len(r.prompt)
  IN  IF KeepsTail THEN <<n - CheckpointTail, n>> ELSE <<n - CheckpointTail>>

(* Where a prefill leaves checkpoints (a prompt is one prefill chunk): the   *)
(* speculative engines before the last CheckpointTail tokens and at the end, *)
(* FallbackRunner once, before its end.                                      *)
Marks(r) ==
  LET n == Len(r.prompt)
      d == n - r.reused
      before == IF d > CheckpointTail THEN <<n - CheckpointTail>> ELSE <<>>
  IN  IF KeepsTail THEN before \o (IF d > 0 THEN <<n>> ELSE <<>>)
      ELSE IF before # <<>> THEN before
      ELSE IF d > 1 THEN <<n - 1>> ELSE <<>>

LastN(s, n) == SubSeq(s, IF Len(s) > n THEN Len(s) - n + 1 ELSE 1, Len(s))

(* A snapshot holds the layers that cannot be trimmed, and a rotating one    *)
(* even while it can.                                                        *)
WithCheckpoints(r, oth) ==
  LET marks == Marks(r)
  IN  LastN(r.cps \o [i \in DOMAIN marks |->
                        [pos |-> marks[i], deep |-> Other # "none",
                         snap |-> First(oth, IF Other = "none" THEN 0 ELSE marks[i])]],
            Retention)

(* What publish() stores after the prompt and the answer went through the   *)
(* cache the request owns.                                                  *)
Published(r, answer, tails) ==
  LET fed == SubSeq(r.prompt, r.reused + 1, Len(r.prompt))
      oth == IF Other = "none" THEN <<>> ELSE r.oth \o fed
  IN  [has |-> TRUE,
       processed |-> r.prompt \o answer,
       kv |-> r.kv \o fed \o answer,
       oth |-> IF Other = "none" THEN <<>> ELSE oth \o answer,
       cps |-> WithCheckpoints(r, oth),
       tail |-> IF tails THEN [pos |-> Len(r.prompt), hist |-> r.kv \o fed] ELSE NoTail]

Succeed(answer) ==
  /\ serial.st = "running"
  /\ sess' = [sess EXCEPT ![serial.slot] = Published(serial, answer, KeepsTail)]
  /\ serial' = Idle
  /\ UNCHANGED <<pool, claimed, orphan, batch>>

(* An exception, or a stop through cancel_event. *)
Fail ==
  /\ serial.st = "running"
  /\ serial' = Idle
  /\ UNCHANGED <<pool, sess, claimed, orphan, batch>>

(***************************************************************************)
(* The batch path                                                          *)
(***************************************************************************)

(* Sessions a batch admission can only append to. *)
Appendable(prompt) ==
  {s \in InPool : /\ ~Held(s)
                  /\ sess[s].has /\ sess[s].processed # <<>>
                  /\ Len(sess[s].processed) < Len(prompt)
                  /\ IsPrefix(sess[s].processed, prompt)}

Mark(b, s, prompt, n, p) ==
  /\ claimed' = claimed \cup {s}
  /\ pool' = Newest(p, s)
  /\ batch' = [batch EXCEPT ![b] = Waiting("claimed", s, prompt, n)]

(* _claim_batch_session on the event loop: only while the lock is free, and  *)
(* only for sessions of a FallbackRunner (can_batch).                       *)
Claim(b, prompt) ==
  /\ ~KeepsTail
  /\ batch[b].st = "idle"
  /\ serial.st = "idle"
  /\ \/ /\ Appendable(prompt) # {}
        /\ LET s == CHOOSE s \in Appendable(prompt) : \A t \in Appendable(prompt) :
                      \/ Len(sess[t].processed) < Len(sess[s].processed)
                      \/ /\ Len(sess[t].processed) = Len(sess[s].processed)
                         /\ Position(s) <= Position(t)
           IN  Mark(b, s, prompt, Len(sess[s].processed), pool)
        /\ UNCHANGED sess
     \/ /\ Appendable(prompt) = {}
        /\ Len(pool) < MaxSessions
        /\ sess' = [sess EXCEPT ![Fresh] = Invalid]
        /\ Mark(b, Fresh, prompt, 0, pool)
     \/ /\ Appendable(prompt) = {}
        /\ Len(pool) >= MaxSessions
        /\ Unclaimed # <<>>
        /\ Mark(b, Head(Unclaimed), prompt, 0, pool)
        /\ UNCHANGED sess
  /\ UNCHANGED <<serial, orphan>>

(* _prepare_session on the executor: the claimed session is invalidated,    *)
(* its cache used only if it still is what was claimed.                     *)
Prepare(b) ==
  /\ batch[b].st = "claimed" /\ serial.st # "running"
  /\ LET r == batch[b]  x == sess[r.slot] IN
       batch' = [batch EXCEPT ![b] =
                   IF /\ r.reused > 0 /\ x.has
                      /\ Len(x.processed) = r.reused
                      /\ r.reused < Len(r.prompt)
                      /\ IsPrefix(x.processed, r.prompt)
                     THEN Running(r, r.reused, x.kv, x.oth, x.cps)
                     ELSE Running(r, 0, <<>>, <<>>, <<>>)]
  /\ sess' = [sess EXCEPT ![batch[b].slot] = Invalid]
  /\ UNCHANGED <<pool, claimed, serial, orphan>>

(* The terminal cache is published with the checkpoints it came with. *)
PublishBatch(b, answer) ==
  /\ batch[b].st = "running"
  /\ sess' = [sess EXCEPT ![batch[b].slot] =
                [Published(batch[b], answer, FALSE) EXCEPT !.cps = batch[b].cps]]
  /\ batch' = [batch EXCEPT ![b].st = "over"]
  /\ UNCHANGED <<pool, claimed, serial, orphan>>

(* An error, a cancellation before or during generation, or no cache        *)
(* returned: nothing is published.                                          *)
DropBatch(b) ==
  /\ batch[b].st \in {"claimed", "running"}
  /\ batch' = [batch EXCEPT ![b].st = "over"]
  /\ UNCHANGED <<pool, sess, claimed, serial, orphan>>

(* _release_batch_session *)
ReleaseClaim(b) ==
  /\ batch[b].st = "over"
  /\ claimed' = claimed \ {batch[b].slot}
  /\ batch' = [batch EXCEPT ![b] = Idle]
  /\ UNCHANGED <<pool, sess, serial, orphan>>

Serial ==
  \/ \E p \in Prompts[model] : Lock(p)
  \/ Select \/ Abandon \/ SelectOrphan \/ Generate \/ Fail
  \/ \E a \in Answers[model] : Succeed(a)
Admitted(b) ==
  \/ \E p \in Prompts[model] : Claim(b, p)
  \/ Prepare(b) \/ DropBatch(b) \/ ReleaseClaim(b)
  \/ \E a \in Answers[model] : PublishBatch(b, a)

Next == (Serial \/ \E b \in Batch : Admitted(b)) /\ UNCHANGED model

Spec == Init /\ [][Next]_vars

(***************************************************************************)
(* Properties                                                              *)
(***************************************************************************)
Tokens == UNION {ToSet(p) : p \in Prompts[model] \cup Answers[model]}
Histories == Seq(Tokens)
Checkpoints == Seq([pos : Nat, deep : BOOLEAN, snap : Histories])
States == {"idle", "locked", "selected", "claimed", "running", "over"}
Owners == [st : States, slot : Slots \cup {0}, prompt : Histories, reused : Nat,
           kv : Histories, oth : Histories, cps : Checkpoints]

TypeOK ==
  /\ model \in Models
  /\ pool \in Seq(Slots)
  /\ sess \in [Slots -> [has : BOOLEAN, processed : Histories, kv : Histories,
                         oth : Histories, cps : Checkpoints,
                         tail : [pos : Nat, hist : Histories]]]
  /\ claimed \subseteq Slots
  /\ serial \in Owners
  /\ orphan \in Histories
  /\ batch \in [Batch -> Owners]

(* The pool stays within its limit and holds no session twice, however     *)
(* misses and claims of the two paths interleave.                          *)
Bounded == Len(pool) <= MaxSessions /\ IsInjective(pool)

Owned(r) == IF r.slot = 0 THEN {} ELSE {r.slot}

(* No session serves two requests at once, on either path, and one that a   *)
(* batch admission owns is marked and stays in the pool.                    *)
Exclusive ==
  /\ \A b \in Batch : Owned(batch[b]) \cap Owned(serial) = {}
  /\ \A b, c \in Batch : b # c => Owned(batch[b]) \cap Owned(batch[c]) = {}
  /\ claimed = UNION {Owned(batch[b]) : b \in Batch}
  /\ claimed \subseteq InPool

(* What a batch admission was promised is still there when _drive gets to   *)
(* it: no selection rewinds or evicts a session between the claim and        *)
(* _prepare_session, so no claimed reuse is lost.                            *)
ClaimKept ==
  \A b \in Batch :
    batch[b].st = "claimed" /\ batch[b].reused > 0
      => LET x == sess[batch[b].slot] IN
           x.has /\ x.processed = First(batch[b].prompt, batch[b].reused)

(* A session has one owner, in a pool that keeps its limit, and an admission  *)
(* keeps what it claimed: the batch path claims without STATE.lock, and a    *)
(* cancelled request may still select (server.py:1137-1168, 3407-3498).      *)
PoolSound == Bounded /\ Exclusive /\ ClaimKept

Absorbed(kv, oth, hist) == kv = hist /\ (Other = "none" \/ oth = hist)

(* A published cache has absorbed exactly the tokens its session says.      *)
CacheIsHistory ==
  \A s \in Slots :
    sess[s].has => Absorbed(sess[s].kv, sess[s].oth, sess[s].processed)

(* A request generates on a cache that has absorbed exactly the part of its *)
(* own prompt it skips, and the speculative engines skip a whole prompt only *)
(* if the session carries the state of exactly that position.               *)
ReuseIsPrefix ==
  /\ \A r \in {serial} \cup {batch[b] : b \in Batch} :
       r.st = "running" => Absorbed(r.kv, r.oth, First(r.prompt, r.reused))
  /\ LET x == sess[serial.slot] IN
     serial.st = "selected" /\ Reusable(x, serial.prompt)
       /\ Len(x.processed) = Len(serial.prompt)
         => x.tail = [pos |-> Len(serial.prompt), hist |-> serial.prompt]

(* A snapshot never outlives the history it belongs to. *)
CheckpointsMatch ==
  \A s \in Slots : \A i \in DOMAIN sess[s].cps :
    LET cp == sess[s].cps[i] IN
      cp.deep => /\ cp.pos <= Len(sess[s].processed)
                 /\ cp.snap = First(sess[s].processed, cp.pos)

(* What a request resumes from, now or after any later rewind, is of its own *)
(* history: rewinding, regenerating and branching turns in any order.       *)
ReuseSound == ReuseIsPrefix /\ CheckpointsMatch
==============================================================================
