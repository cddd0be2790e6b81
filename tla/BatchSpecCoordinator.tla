------------------------ MODULE BatchSpecCoordinator -------------------------
(***************************************************************************)
(* The scheduler of batched speculation, mlxturbo/batch_spec.py: submit() on *)
(* the event loop and _drive() on the executor thread, which shares each     *)
(* step's token budget between one decode round of the running batch and a   *)
(* chunk of one prompt (the lane), preempts rows when memory runs out, and    *)
(* falls back on the serial engine for a request without company.            *)
(*                                                                         *)
(* A token is the request it answers and its place in the answer.  What a    *)
(* round accepts, whether it ends an answer, and whether memory suffices are *)
(* choices; RaggedLedger models the caches of the batch.                     *)
(***************************************************************************)
EXTENDS SequencesExt, Selections

CONSTANTS
  Requests,     \* the admissions
  Streaming,    \* those with on_tokens, on_done and a cancel_event
  Key,          \* _sampling_key of each request, None with a seed
  PromptLen,
  MaxTokens,
  MaxBatch,     \* --max-batch-spec
  Waits,        \* wait_ms > 0
  Depth,        \* engine.depth
  RectLimit,    \* RECT_LIMIT
  TokenBudget,  \* TOKEN_BUDGET
  PrefillChunk, \* PREFILL_CHUNK
  Faults,       \* which engine or callback steps may raise
  None

(* A token, a lane and a row on the serial engine; none of them is None.    *)
Tokens == [of : Requests, i : Nat]
Lanes  == [req : Requests, at : Nat, left : Nat]
Solos  == [req : Requests, got : Seq(Tokens)]

FaultKinds == {"round", "prefill", "join", "callback", "solo"}

ASSUME RequestAssumption ==
  /\ Streaming \subseteq Requests /\ None \notin Requests
  /\ PromptLen \in [Requests -> Nat] /\ MaxTokens \in [Requests -> Nat \ {0}]
  /\ \A r \in Requests : PromptLen[r] >= 2
  /\ None \notin Lanes /\ None \notin Solos
ASSUME SizeAssumption ==
  /\ MaxBatch \in Nat \ {0} /\ TokenBudget \in Nat \ {0}
  /\ PrefillChunk \in Nat \ {0} /\ RectLimit \in Nat /\ Depth \in Nat
  /\ Waits \in BOOLEAN /\ Faults \subseteq FaultKinds

VARIABLES
  outcome,    \* "none" until submitted, "pending", then how it ended
  cancelled,  \* the requests whose cancel_event is set
  heard,      \* what on_tokens has given each stream
  kept,       \* adm.tokens
  result,     \* the tokens of res
  putting,    \* the submits between inbox.put and the guarded check
  inbox,      \* _inbox
  active,     \* _active
  queued,     \* the drive loops queued on the executor
  pc,         \* where _drive stands
  waiting,    \* _waiting
  seq,        \* adm.seq, 0 before it is drained
  rows,       \* _rows
  gen,        \* the rows of _gen: whose history each one holds, and how far
  genKey,     \* the sampler _gen was built with
  sampler,    \* _temp, _sampler
  lane,       \* _lane and _lane_adm
  budget,     \* tokens left in this step
  moved,      \* progressed
  fresh,      \* what the round or the prefill yields, until it is delivered
  staying,    \* the rows that have been delivered to and go on
  solo,       \* the request on the serial engine, and its tokens so far
  dropped     \* (history) admissions only a frame knew that an exception unwound

answers  == <<heard, kept, result>>
requests == <<outcome, cancelled, answers>>
intake   == <<putting, inbox, active, queued>>
batch    == <<rows, gen, genKey>>
step     == <<budget, moved>>
round    == <<fresh, staying>>
others   == <<solo, dropped>>
vars == <<requests, intake, pc, waiting, seq, batch, sampler, lane, step, round, others>>

Ended == {"done", "cancelled", "error"}
Idle == gen = <<>> /\ lane = None

(* n tokens of a history that stands at position at. *)
Following(of, at, n) == [i \in 1..n |-> [of |-> of, i |-> at + i]]

Init ==
  /\ outcome = [r \in Requests |-> "none"] /\ cancelled = {}
  /\ heard = [r \in Requests |-> <<>>] /\ kept = heard /\ result = heard
  /\ putting = {} /\ inbox = <<>> /\ active = FALSE /\ queued = 0
  /\ pc = "off" /\ waiting = <<>> /\ seq = [r \in Requests |-> 0]
  /\ rows = <<>> /\ gen = <<>> /\ genKey = None /\ sampler = None
  /\ lane = None /\ budget = 0 /\ moved = FALSE
  /\ fresh = <<>> /\ staying = {} /\ solo = None /\ dropped = {}

(***************************************************************************)
(* The event loop                                                          *)
(***************************************************************************)
Put(r) ==
  /\ outcome[r] = "none"
  /\ outcome' = [outcome EXCEPT ![r] = "pending"]
  /\ inbox' = Append(inbox, r)
  /\ putting' = putting \cup {r}
  /\ UNCHANGED <<cancelled, answers, active, queued, pc, waiting, seq, batch,
                 sampler, lane, step, round, others>>

Kick(r) ==
  /\ r \in putting
  /\ putting' = putting \ {r}
  /\ active' = TRUE
  /\ queued' = IF active THEN queued ELSE queued + 1
  /\ UNCHANGED <<requests, inbox, pc, waiting, seq, batch, sampler, lane, step,
                 round, others>>

Cancel(r) ==
  /\ r \in Streaming \ cancelled /\ outcome[r] = "pending"
  /\ cancelled' = cancelled \cup {r}
  /\ UNCHANGED <<outcome, answers, intake, pc, waiting, seq, batch, sampler, lane,
                 step, round, others>>

(***************************************************************************)
(* _drive: the loop                                                        *)
(***************************************************************************)

(* _complete(): the first end of an admission is the one that counts. *)
Completed(S, how) ==
  [r \in Requests |-> IF r \in S /\ outcome[r] = "pending" THEN how ELSE outcome[r]]

Start ==
  /\ pc = "off" /\ queued > 0
  /\ queued' = queued - 1
  /\ pc' = "drain"
  /\ waiting' = <<>> /\ rows' = <<>> /\ gen' = <<>> /\ lane' = None
  /\ UNCHANGED <<requests, putting, inbox, active, seq, genKey, sampler, step,
                 round, others>>

Drained == Cardinality({r \in Requests : seq[r] > 0})

(* _drain(), on its own, while waiting for company, or before an admission. *)
Take ==
  /\ pc \in {"drain", "company", "fetch"} /\ inbox # <<>>
  /\ inbox' = Tail(inbox)
  /\ waiting' = Append(waiting, Head(inbox))
  /\ seq' = [seq EXCEPT ![Head(inbox)] = Drained + 1]
  /\ UNCHANGED <<requests, putting, active, queued, pc, batch, sampler, lane, step,
                 round, others>>

TakenAll ==
  /\ pc \in {"drain", "fetch"} /\ inbox = <<>>
  /\ pc' = IF pc = "drain" THEN "look" ELSE "head"
  /\ UNCHANGED <<requests, intake, waiting, seq, batch, sampler, lane, step, round,
                 others>>

(* _wait_for_company() ends at its deadline or with a full batch. *)
CompanyOver ==
  /\ pc = "company"
  /\ pc' = "relook"
  /\ UNCHANGED <<requests, intake, waiting, seq, batch, sampler, lane, step, round,
                 others>>

(* What the loop does with what is waiting, once the dead are out of it: a   *)
(* step, the serial engine, a wait for company, another round, or the end.   *)
Decision(w, first) ==
  IF ~Idle THEN "step"
  ELSE IF w = <<>> THEN IF first THEN "close" ELSE "drain"
  ELSE IF first /\ Waits /\ Len(w) = 1 THEN "company"
  ELSE IF Len(w) = 1 \/ Key[Head(w)] = None THEN "alone"
  ELSE "step"

Look ==
  /\ pc \in {"look", "relook"}
  /\ outcome' = Completed(cancelled \cap ToSet(waiting), "cancelled")
  /\ LET w == Among(waiting, Requests \ cancelled)
     IN  /\ waiting' = w
         /\ pc' = Decision(w, pc = "look")
  /\ UNCHANGED <<cancelled, answers, intake, seq, batch, sampler, lane, step, round,
                 others>>

(***************************************************************************)
(* A step: the running batch first                                         *)
(***************************************************************************)
BeginStep ==
  /\ pc = "step"
  /\ budget' = TokenBudget /\ moved' = FALSE
  /\ pc' = "room"
  /\ UNCHANGED <<requests, intake, waiting, seq, batch, sampler, lane, round, others>>

(* Mutant of Resumed: the row is forgotten. *)
ResumedNever(r) == waiting

Resumed(r) == <<r>> \o waiting

(* _preempt_one(): the newest row leaves the batch with the tokens it has. *)
Youngest(b) == \A c \in DOMAIN rows : seq[rows[c]] <= seq[rows[b]]

Preempt(b) ==
  /\ pc = "room" /\ b \in DOMAIN rows /\ Youngest(b)
  /\ rows' = Selection(rows, DOMAIN rows \ {b})
  /\ gen' = Selection(gen, DOMAIN gen \ {b})
  /\ waiting' = Resumed(rows[b])
  /\ UNCHANGED <<requests, intake, pc, seq, genKey, sampler, lane, step, round, others>>

RoundDepth(n) ==
  LET may == {d \in 0..Depth : d = 0 \/ (n * (1 + d) <= RectLimit /\ n * (1 + d) <= budget)}
  IN  CHOOSE d \in may : \A e \in may : e <= d

(* _truncate(): never past max_tokens, and at least one token. *)
Room(r) == MaxTokens[r] - Len(kept[r])

(* One decode round: every row accepts some of its drafts and one more       *)
(* token, up to the end of its answer.                                       *)
Round ==
  /\ pc = "room" /\ rows # <<>>
  /\ LET d == RoundDepth(Len(rows)) IN
       \E n \in [DOMAIN rows -> 1..(d + 1)], last \in [DOMAIN rows -> BOOLEAN] :
         /\ \A b \in DOMAIN rows : n[b] <= IF Room(rows[b]) > 1 THEN Room(rows[b]) ELSE 1
         /\ fresh' = [b \in DOMAIN rows |->
                        [toks |-> Following(gen[b].of, gen[b].at, n[b]), eos |-> last[b]]]
         /\ gen' = [b \in DOMAIN rows |-> [gen[b] EXCEPT !.at = @ + n[b]]]
         /\ budget' = budget - Len(rows) * (1 + d)
  /\ moved' = TRUE /\ staying' = {}
  /\ pc' = "deliver"
  /\ UNCHANGED <<requests, intake, waiting, seq, rows, genKey, sampler, lane, others>>

NoRound ==
  /\ pc = "room" /\ rows = <<>>
  /\ pc' = "lane"
  /\ UNCHANGED <<requests, intake, waiting, seq, batch, sampler, lane, step, round,
                 others>>

(***************************************************************************)
(* _after_round(): delivery, row by row                                    *)
(***************************************************************************)
Turn == Len(rows) - Len(fresh) + 1

Delivered(r, toks) == kept' = [kept EXCEPT ![r] = @ \o toks]

(* The callback of a stream raises once it is cancelled, or fails. *)
Raises(r, toks, fault) ==
  toks # <<>> /\ r \in Streaming /\ (r \in cancelled \/ fault \in Faults)

DeliverRaises ==
  /\ pc = "deliver" /\ fresh # <<>>
  /\ LET r == rows[Turn] IN
       /\ Raises(r, Head(fresh).toks, "callback")
       /\ Delivered(r, Head(fresh).toks)
       /\ outcome' = Completed({r}, IF r \in cancelled THEN "cancelled" ELSE "error")
  /\ fresh' = Tail(fresh)
  /\ UNCHANGED <<cancelled, heard, result, intake, pc, waiting, seq, batch, sampler,
                 lane, step, staying, others>>

Deliver ==
  /\ pc = "deliver" /\ fresh # <<>>
  /\ LET r    == rows[Turn]
         toks == Head(fresh).toks
         full == Len(kept[r]) + Len(toks) >= MaxTokens[r] \/ (toks # <<>> /\ Head(fresh).eos)
     IN  /\ r \in Streaming \cap cancelled => toks = <<>>
         /\ Delivered(r, toks)
         /\ heard' = [heard EXCEPT ![r] = IF r \in Streaming THEN @ \o toks ELSE @]
         /\ IF r \in cancelled \/ full
              THEN /\ outcome' = Completed({r}, IF r \in cancelled THEN "cancelled" ELSE "done")
                   /\ result' = IF r \in cancelled THEN result
                                ELSE [result EXCEPT ![r] = kept'[r]]
                   /\ UNCHANGED staying
              ELSE staying' = staying \cup {Turn} /\ UNCHANGED <<outcome, result>>
  /\ fresh' = Tail(fresh)
  /\ UNCHANGED <<cancelled, intake, pc, waiting, seq, batch, sampler, lane, step, others>>

(* Mutant of Remaining: as many rows are kept, but the first ones. *)
RemainingFirst(s) == SubSeq(s, 1, Cardinality(staying))

(* The ended rows are retired from the generator and from _rows. *)
Remaining(s) == Selection(s, staying)

Settle ==
  /\ pc = "deliver" /\ fresh = <<>>
  /\ rows' = Selection(rows, staying)
  /\ gen' = Remaining(gen)
  /\ staying' = {}
  /\ pc' = "lane"
  /\ UNCHANGED <<requests, intake, waiting, seq, genKey, sampler, lane, step, fresh,
                 others>>

(***************************************************************************)
(* ... and then, with what is left of the budget, the lane                 *)
(***************************************************************************)
LaneOver ==
  /\ pc = "lane" /\ budget <= 0
  /\ pc' = "endstep"
  /\ UNCHANGED <<requests, intake, waiting, seq, batch, sampler, lane, step, round,
                 others>>

LaneNext ==
  /\ pc = "lane" /\ budget > 0
  /\ IF lane # None /\ lane.req \in cancelled
       THEN /\ outcome' = Completed({lane.req}, "cancelled")
            /\ lane' = None /\ pc' = "fetch"
       ELSE /\ pc' = IF lane = None THEN "fetch" ELSE "advance"
            /\ UNCHANGED <<outcome, lane>>
  /\ UNCHANGED <<cancelled, answers, intake, waiting, seq, batch, sampler, step,
                 round, others>>

HeadDead ==
  /\ pc = "head" /\ waiting # <<>> /\ Head(waiting) \in cancelled
  /\ outcome' = Completed({Head(waiting)}, "cancelled")
  /\ waiting' = Tail(waiting)
  /\ UNCHANGED <<cancelled, answers, intake, pc, seq, batch, sampler, lane, step,
                 round, others>>

BatchKey == IF rows # <<>> THEN Key[rows[1]] ELSE None

(* Mutants of MayAdmit: whoever fits, not the head; the head, if not seeded. *)
AnyoneMayAdmit(k) ==
  /\ Len(rows) < MaxBatch
  /\ Key[waiting[k]] # None /\ BatchKey \in {None, Key[waiting[k]]}
HeadMayAdmit(k) == k = 1 /\ Key[waiting[k]] # None

MayAdmit(k) ==
  /\ k = 1 /\ Len(rows) < MaxBatch
  /\ Key[waiting[k]] # None /\ BatchKey \in {None, Key[waiting[k]]}

(* _admit_next(): memory permitting, the request's prompt and what it has    *)
(* already said enter the lane.                                              *)
Admit(k) ==
  /\ pc = "head" /\ k \in DOMAIN waiting /\ Head(waiting) \notin cancelled
  /\ MayAdmit(k)
  /\ LET r == waiting[k] IN
       /\ waiting' = Selection(waiting, DOMAIN waiting \ {k})
       /\ sampler' = IF BatchKey = None THEN Key[r] ELSE sampler
       /\ lane' = [req |-> r, at |-> Len(kept[r]), left |-> PromptLen[r] + Len(kept[r])]
  /\ pc' = "advance"
  /\ UNCHANGED <<requests, intake, seq, batch, step, round, others>>

NoAdmit ==
  /\ pc = "head"
  /\ waiting # <<>> => Head(waiting) \notin cancelled
  /\ pc' = "endstep"
  /\ UNCHANGED <<requests, intake, waiting, seq, batch, sampler, lane, step, round,
                 others>>

Smaller(a, b) == IF a < b THEN a ELSE b

(* One chunk per request and step. *)
Advance ==
  /\ pc = "advance"
  /\ LET n == Smaller(lane.left, Smaller(PrefillChunk, budget)) IN
       /\ budget' = budget - n
       /\ lane' = [lane EXCEPT !.left = @ - n]
       /\ pc' = IF n = lane.left THEN "join" ELSE "endstep"
  /\ moved' = TRUE
  /\ UNCHANGED <<requests, intake, waiting, seq, batch, sampler, round, others>>

(* _join_lane(): the row joins the batch or starts one, and its first token  *)
(* is delivered like those of a round.                                       *)
Join ==
  /\ pc = "join"
  /\ rows' = Append(rows, lane.req)
  /\ gen' = Append(gen, [of |-> lane.req, at |-> lane.at + 1])
  /\ genKey' = IF gen = <<>> THEN sampler ELSE genKey
  /\ \E last \in BOOLEAN :
       fresh' = Append([b \in DOMAIN rows |-> [toks |-> <<>>, eos |-> FALSE]],
                       [toks |-> Following(lane.req, lane.at, 1), eos |-> last])
  /\ lane' = None /\ staying' = {}
  /\ pc' = "deliver"
  /\ UNCHANGED <<requests, intake, waiting, seq, sampler, step, others>>

(* A step that did nothing leaves the head to the serial engine. *)
EndStep ==
  /\ pc = "endstep"
  /\ pc' = IF ~moved /\ Idle /\ waiting # <<>> THEN "alone" ELSE "drain"
  /\ UNCHANGED <<requests, intake, waiting, seq, batch, sampler, lane, step, round,
                 others>>

(***************************************************************************)
(* _run_solo()                                                             *)
(***************************************************************************)
Alone ==
  /\ pc = "alone"
  /\ solo' = [req |-> Head(waiting), got |-> <<>>]
  /\ waiting' = Tail(waiting)
  /\ pc' = "solo"
  /\ UNCHANGED <<requests, intake, seq, batch, sampler, lane, step, round, dropped>>

(* The next tokens of the serial engine, which starts where the row stood. *)
Continuation(n) ==
  Following(solo.req, Len(kept[solo.req]) + Len(solo.got), n)

SoloToken ==
  /\ pc = "solo"
  /\ LET r == solo.req IN
       \E n \in 1..(Depth + 1) :
         /\ Len(solo.got) + n <= Room(r)
         /\ r \notin Streaming \cap cancelled
         /\ heard' = [heard EXCEPT ![r] = IF r \in Streaming THEN @ \o Continuation(n) ELSE @]
         /\ solo' = [solo EXCEPT !.got = @ \o Continuation(n)]
  /\ UNCHANGED <<outcome, cancelled, kept, result, intake, pc, waiting, seq, batch,
                 sampler, lane, step, round, dropped>>

(* Mutant of SoloResult: what the engine returned is the result. *)
SoloOwn == solo.got

SoloResult == kept[solo.req] \o solo.got

SoloEnds ==
  /\ pc = "solo" /\ solo.got # <<>>
  /\ outcome' = Completed({solo.req}, "done")
  /\ result' = [result EXCEPT ![solo.req] = SoloResult]
  /\ solo' = None
  /\ pc' = "drain"
  /\ UNCHANGED <<cancelled, heard, kept, intake, waiting, seq, batch, sampler, lane,
                 step, round, dropped>>

SoloRaises ==
  /\ pc = "solo"
  /\ \/ "solo" \in Faults
     \/ Len(solo.got) < Room(solo.req) /\ Raises(solo.req, Continuation(1), "callback")
  /\ outcome' = Completed({solo.req}, IF solo.req \in cancelled THEN "cancelled" ELSE "error")
  /\ solo' = None
  /\ pc' = "drain"
  /\ UNCHANGED <<cancelled, answers, intake, waiting, seq, batch, sampler, lane, step,
                 round, dropped>>

(***************************************************************************)
(* _drive: the handler and the exit                                        *)
(***************************************************************************)
RoundRaises ==
  /\ pc = "room" /\ rows # <<>> /\ "round" \in Faults
  /\ pc' = "fail"
  /\ UNCHANGED <<requests, intake, waiting, seq, batch, sampler, lane, step, round,
                 others>>

PrefillRaises ==
  /\ pc = "advance" /\ "prefill" \in Faults
  /\ pc' = "fail"
  /\ UNCHANGED <<requests, intake, waiting, seq, batch, sampler, lane, step, round,
                 others>>

(* The lane is cleared before the batch is built or extended. *)
JoinRaises ==
  /\ pc = "join" /\ "join" \in Faults
  /\ lane' = None /\ dropped' = dropped \cup {lane.req}
  /\ pc' = "fail"
  /\ UNCHANGED <<requests, intake, waiting, seq, batch, sampler, step, round, solo>>

(* _live_admissions() *)
Live == ToSet(rows) \cup ToSet(waiting) \cup (IF lane = None THEN {} ELSE {lane.req})

Fail ==
  /\ pc = "fail"
  /\ outcome' = Completed(Live, "error")
  /\ waiting' = <<>> /\ rows' = <<>> /\ gen' = <<>> /\ lane' = None
  /\ pc' = "close"
  /\ UNCHANGED <<cancelled, answers, intake, seq, genKey, sampler, step, round, others>>

Close ==
  /\ pc = "close"
  /\ active' = FALSE
  /\ pc' = "recheck"
  /\ UNCHANGED <<requests, putting, inbox, queued, waiting, seq, batch, sampler, lane,
                 step, round, others>>

(* Mutant of Recheck: the inbox is not looked at again. *)
RecheckNothing ==
  /\ pc = "recheck"
  /\ pc' = "off"
  /\ UNCHANGED <<requests, intake, waiting, seq, batch, sampler, lane, step, round,
                 others>>

(* What arrived between the last look and the clearing of _active. *)
Recheck ==
  /\ pc = "recheck"
  /\ pc' = IF inbox = <<>> THEN "off" ELSE "restart"
  /\ UNCHANGED <<requests, intake, waiting, seq, batch, sampler, lane, step, round,
                 others>>

Restart ==
  /\ pc = "restart"
  /\ active' = TRUE
  /\ queued' = IF active THEN queued ELSE queued + 1
  /\ pc' = "off"
  /\ UNCHANGED <<requests, putting, inbox, waiting, seq, batch, sampler, lane, step,
                 round, others>>

Drive ==
  \/ Start \/ Take \/ TakenAll \/ CompanyOver \/ Look
  \/ BeginStep \/ (\E b \in DOMAIN rows : Preempt(b)) \/ Round \/ NoRound
  \/ DeliverRaises \/ Deliver \/ Settle
  \/ LaneOver \/ LaneNext \/ HeadDead \/ (\E k \in DOMAIN waiting : Admit(k))
  \/ NoAdmit \/ Advance \/ Join \/ EndStep
  \/ Alone \/ SoloToken \/ SoloEnds \/ SoloRaises
  \/ RoundRaises \/ PrefillRaises \/ JoinRaises
  \/ Fail \/ Close \/ Recheck \/ Restart

Next == Drive \/ \E r \in Requests : Put(r) \/ Kick(r) \/ Cancel(r)

Spec == Init /\ [][Next]_vars

(* The executor runs what is submitted to it, and submit() returns. *)
FairSpec == Spec /\ WF_vars(Drive) /\ \A r \in Requests : WF_vars(Kick(r))

(***************************************************************************)
(* Properties                                                              *)
(***************************************************************************)
TypeOK ==
  /\ outcome \in [Requests -> {"none", "pending"} \cup Ended]
  /\ cancelled \subseteq Streaming /\ putting \subseteq Requests
  /\ heard \in [Requests -> Seq(Tokens)] /\ kept \in [Requests -> Seq(Tokens)]
  /\ result \in [Requests -> Seq(Tokens)]
  /\ inbox \in Seq(Requests) /\ waiting \in Seq(Requests) /\ rows \in Seq(Requests)
  /\ seq \in [Requests -> Nat] /\ queued \in 0..1 /\ active \in BOOLEAN
  /\ gen \in Seq([of : Requests, at : Nat])
  /\ lane = None \/ lane \in Lanes
  /\ solo = None \/ solo \in Solos
  /\ moved \in BOOLEAN /\ staying \subseteq DOMAIN rows
  /\ dropped \subseteq Requests

Count(r, s) == Cardinality({i \in DOMAIN s : s[i] = r})

(* The places that know of r; while a round is delivered, the rows that have *)
(* had their turn are the ones that stay.                                   *)
Places(r) ==
  LET still == IF pc = "deliver" THEN Selection(rows, {i \in DOMAIN rows : i >= Turn \/ i \in staying})
               ELSE rows
  IN  Count(r, inbox) + Count(r, waiting) + Count(r, still)
      + (IF lane # None /\ lane.req = r THEN 1 ELSE 0)
      + (IF solo # None /\ solo.req = r THEN 1 ELSE 0)

(* Through preemption, resumption, joins and the serial fallback, a request  *)
(* that has not ended is in one place, and one that has is in none (and the  *)
(* lists, the lane and the serial row have their types).                    *)
OnePlace ==
  /\ TypeOK
  /\ \A r \in Requests \ dropped :
       Places(r) = IF outcome[r] = "pending" THEN 1 ELSE 0

(* An answer comes out token by token from its first, without a gap, a       *)
(* repetition or a token of another row, however often it was preempted; the *)
(* result is all of it, and what its stream has heard.                       *)
AnswersWhole ==
  \A r \in Requests :
    /\ heard[r] = Following(r, 0, Len(heard[r]))
    /\ kept[r] = Following(r, 0, Len(kept[r]))
    /\ Len(kept[r]) <= MaxTokens[r] /\ Len(heard[r]) <= MaxTokens[r]
    /\ outcome[r] = "done" =>
         /\ result[r] # <<>> /\ result[r] = Following(r, 0, Len(result[r]))
         /\ r \in Streaming => result[r] = heard[r]

(* Row b of the generator holds the history of the b-th admission, up to the *)
(* last token that admission was given.                                      *)
RowsAligned ==
  pc # "deliver" =>
    /\ Len(gen) = Len(rows)
    /\ \A b \in DOMAIN rows :
         gen[b] = [of |-> rows[b], at |-> Len(kept[rows[b]])]

(* One call samples for all rows: they, and the row whose prefill is under   *)
(* way, have the settings of the sampler and no seed; and by the time that    *)
(* row joins there is still room for it.                                    *)
JoinSound ==
  /\ \A b \in DOMAIN rows : Key[rows[b]] = genKey
  /\ rows # <<>> => genKey # None
  /\ lane # None => Key[lane.req] = sampler /\ (rows # <<>> => sampler = genKey)
  /\ Len(rows) + (IF lane = None THEN 0 ELSE 1) <= MaxBatch

(* No request gets to run before one that arrived earlier and has not run.   *)
Begins(r) ==
  /\ r \in ToSet(waiting) \ ToSet(waiting')
  /\ outcome'[r] = "pending" /\ kept[r] = <<>>

ArrivalOrder ==
  [][\A r \in Requests : Begins(r) =>
       \A q \in ToSet(waiting') : seq[q] > seq[r]]_vars

(* Every submitted request ends, however often memory runs out: a row that   *)
(* resumes gains at least a token.  (A row lost by a failing join does not.)  *)
Resolved ==
  \A r \in Requests : (outcome[r] = "pending") ~> (outcome[r] \in Ended \/ r \in dropped)

(* "do not leave a Future dangling on an internal failure" *)
AllResolved == \A r \in Requests : (outcome[r] = "pending") ~> (outcome[r] \in Ended)
==============================================================================
