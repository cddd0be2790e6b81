-------------------------- MODULE BatchCoordinator --------------------------
(***************************************************************************)
(* The continuous-batching worker of mlxturbo/batch.py: submit() on the    *)
(* event loop, _drive() on the single MLX executor thread, and the three   *)
(* callbacks (release_session, on_done, future) that end an admission.     *)
(*                                                                         *)
(* The token stream is abstracted to the number of tokens a row still has  *)
(* to produce; the vendored BatchGenerator to the set of rows that answer  *)
(* a tick.  The scheduling, the session hand-over, the order of the        *)
(* completion steps and the failure paths are those of the code.           *)
(***************************************************************************)
EXTENDS Integers, Sequences, FiniteSets

CONSTANTS
  Requests,     \* the admissions
  Streaming,    \* those submitted with on_tokens, on_done and a cancel_event
  Recycled,     \* those whose identity a later, identical request reuses
  Jobs,         \* the other work submitted to the same executor
  Sessions,     \* the FallbackSession slots of the pool
  PromptLen,    \* len(prompt_ids) of each request
  MaxTokens,    \* max_tokens of each request
  Budget,       \* indexer_budget(model), None for a model without QSA
  MaxBatch,     \* --max-batch
  Coalesce,     \* MLXTURBO_BATCH_WAIT_MS > 0
  Faults,       \* which library or callback steps may raise
  Drive,        \* the executor's entry for _drive
  None

FaultKinds == {"insert", "tick", "callback", "finish"}

ASSUME RequestAssumption ==
  /\ Streaming \subseteq Requests
  /\ Recycled \subseteq Requests
  /\ PromptLen \in [Requests -> Nat]
  /\ MaxTokens \in [Requests -> Nat \ {0}]
ASSUME CapacityAssumption ==
  /\ Budget \in Nat \cup {None}
  /\ MaxBatch \in Nat \ {0}
  /\ None \notin Nat
ASSUME NamesAssumption ==
  /\ None \notin Requests \cup Sessions \cup Jobs \cup {"pool", "solo"}
  /\ Drive \notin Jobs
  /\ Coalesce \in BOOLEAN
  /\ Faults \subseteq FaultKinds

VARIABLES
  future,     \* each admission's Future: "none" until it is submitted
  told,       \* how often on_done has been called
  cancelled,  \* the requests whose cancel_event is set
  putting,    \* the submits between inbox.put and the guarded check
  inbox,      \* _inbox
  active,     \* _active
  execq,      \* the executor's FIFO of submitted work
  serial,     \* the state of each other job
  pc,         \* where _drive stands
  pendSolo, pendPool,
  live,       \* the rows resident in the generator
  mode,       \* "solo", "pool" or None
  filling,    \* the live rows whose prompt is still being prefilled
  left,       \* the tokens each row may still produce
  answers,    \* the rows whose response of this tick is unread
  fin,        \* the completion in progress: who, how, and where it returns to
  claim,      \* the admission that claimed each session
  reuse,      \* the admissions whose claim was an append-only match
  cache,      \* whose history each session has published, or None
  lent        \* the rows that generate on a cache moved out of a session

requestVars == <<future, told, cancelled, putting>>
queueVars   == <<inbox, active, execq, serial>>
driveVars   == <<pc, pendSolo, pendPool, live, mode, filling, left, answers, fin>>
sessionVars == <<claim, reuse, cache, lent>>
vars == <<requestVars, queueVars, driveVars, sessionVars>>

Outcomes == {"done", "cancelled", "error"}
Ended(r) == future[r] \in Outcomes

(***************************************************************************)
(* Tiers and the co-resident budget                                        *)
(***************************************************************************)
classify(r) ==
  IF Budget # None /\ PromptLen[r] + MaxTokens[r] > Budget THEN "solo" ELSE "pool"

(* max(prompt_len) + max(max_tokens) of the rows stays within the budget. *)
FitsTogether(rows) ==
  Budget = None \/ \A a, b \in rows : PromptLen[a] + MaxTokens[b] <= Budget

(* Mutant of the next definition: classify() alone decides. *)
FitsAlone(r, resident) == classify(r) = "pool"

PoolAdmissionFits(r, resident) == resident = {} \/ FitsTogether(resident \cup {r})

Init ==
  /\ future = [r \in Requests |-> "none"]
  /\ told = [r \in Requests |-> 0]
  /\ cancelled = {} /\ putting = {}
  /\ inbox = <<>> /\ active = FALSE /\ execq = <<>>
  /\ serial = [j \in Jobs |-> "idle"]
  /\ pc = "off" /\ pendSolo = <<>> /\ pendPool = <<>>
  /\ live = {} /\ mode = None /\ filling = {} /\ left = MaxTokens
  /\ answers = {} /\ fin = None
  /\ claim = [s \in Sessions |-> None]
  /\ cache = [s \in Sessions |-> None]
  /\ reuse = {} /\ lent = {}

(***************************************************************************)
(* The event loop                                                          *)
(***************************************************************************)

(* A request enters submit(): its session, if it got one, is claimed, and  *)
(* the admission is in the inbox.  An append-only match is only possible   *)
(* on a session that has a published cache.                                *)
Put(r) ==
  /\ future[r] = "none"
  /\ future' = [future EXCEPT ![r] = "pending"]
  /\ putting' = putting \cup {r}
  /\ inbox' = Append(inbox, r)
  /\ \/ UNCHANGED <<claim, reuse>>
     \/ \E s \in Sessions :
          /\ claim[s] = None
          /\ claim' = [claim EXCEPT ![s] = r]
          /\ \/ reuse' = reuse
             \/ cache[s] # None /\ reuse' = reuse \cup {r}
  /\ UNCHANGED <<told, cancelled, active, execq, serial, driveVars, cache, lent>>

(* Mutant of Kick: the guard is taken, _active is not read. *)
KickAlways(r) ==
  /\ r \in putting
  /\ putting' = putting \ {r}
  /\ active' = TRUE
  /\ execq' = Append(execq, Drive)
  /\ UNCHANGED <<future, told, cancelled, inbox, serial, driveVars, sessionVars>>

(* The rest of submit(): start a drive loop if none is running. *)
Kick(r) ==
  /\ r \in putting
  /\ putting' = putting \ {r}
  /\ active' = TRUE
  /\ execq' = IF active THEN execq ELSE Append(execq, Drive)
  /\ UNCHANGED <<future, told, cancelled, inbox, serial, driveVars, sessionVars>>

(* The consumer of a stream goes away, or matched a stop string. *)
Cancel(r) ==
  /\ r \in Streaming \ cancelled
  /\ future[r] = "pending"
  /\ cancelled' = cancelled \cup {r}
  /\ UNCHANGED <<future, told, putting, queueVars, driveVars, sessionVars>>

(* The server is done with the request; a later one may look the same. *)
Forget(r) ==
  /\ r \in Recycled
  /\ Ended(r)
  /\ r \notin putting
  /\ future' = [future EXCEPT ![r] = "none"]
  /\ told' = [told EXCEPT ![r] = 0]
  /\ cancelled' = cancelled \ {r}
  /\ left' = [left EXCEPT ![r] = MaxTokens[r]]
  /\ UNCHANGED <<putting, queueVars, pc, pendSolo, pendPool, live, mode, filling,
                 answers, fin, sessionVars>>

(* Something else is submitted to the executor. *)
SubmitJob(j) ==
  /\ serial[j] = "idle"
  /\ serial' = [serial EXCEPT ![j] = "queued"]
  /\ execq' = Append(execq, j)
  /\ UNCHANGED <<requestVars, inbox, active, driveVars, sessionVars>>

(***************************************************************************)
(* The executor thread: one piece of work at a time                        *)
(***************************************************************************)
ThreadFree == pc = "off" /\ \A j \in Jobs : serial[j] # "running"

StartJob ==
  /\ ThreadFree /\ execq # <<>> /\ Head(execq) # Drive
  /\ serial' = [serial EXCEPT ![Head(execq)] = "running"]
  /\ execq' = Tail(execq)
  /\ UNCHANGED <<requestVars, inbox, active, driveVars, sessionVars>>

EndJob(j) ==
  /\ serial[j] = "running"
  /\ serial' = [serial EXCEPT ![j] = "done"]
  /\ UNCHANGED <<requestVars, inbox, active, execq, driveVars, sessionVars>>

StartDrive ==
  /\ ThreadFree /\ execq # <<>> /\ Head(execq) = Drive
  /\ execq' = Tail(execq)
  /\ pc' = "drain"
  /\ UNCHANGED <<requestVars, inbox, active, serial, pendSolo, pendPool, live,
                 mode, filling, left, answers, fin, sessionVars>>

(***************************************************************************)
(* _drive: reading the inbox                                               *)
(***************************************************************************)
CohortStart == Coalesce /\ mode = None /\ live = {} /\ Len(pendPool) = 1

(* get_nowait succeeds. *)
Take ==
  /\ pc \in {"drain", "gather"}
  /\ inbox # <<>>
  /\ inbox' = Tail(inbox)
  /\ IF classify(Head(inbox)) = "solo"
       THEN pendSolo' = Append(pendSolo, Head(inbox)) /\ UNCHANGED pendPool
       ELSE pendPool' = Append(pendPool, Head(inbox)) /\ UNCHANGED pendSolo
  /\ UNCHANGED <<requestVars, active, execq, serial, pc, live, mode, filling, left,
                 answers, fin, sessionVars>>

(* get_nowait raises Empty: sleep once for company, or go on to admission. *)
InboxEmpty ==
  /\ pc \in {"drain", "gather"}
  /\ inbox = <<>>
  /\ pc' = IF pc = "drain" /\ CohortStart THEN "sleep" ELSE "admit"
  /\ UNCHANGED <<requestVars, queueVars, pendSolo, pendPool, live, mode, filling,
                 left, answers, fin, sessionVars>>

Wake ==
  /\ pc = "sleep"
  /\ pc' = "gather"
  /\ UNCHANGED <<requestVars, queueVars, pendSolo, pendPool, live, mode, filling,
                 left, answers, fin, sessionVars>>

(***************************************************************************)
(* _drive: admission                                                       *)
(***************************************************************************)
ClaimedBy(r) == {s \in Sessions : claim[s] = r}

(* _complete(r) starts; it will come back to the step named by back. *)
Complete(r, how, back) ==
  /\ fin' = [req |-> r, how |-> how, back |-> back]
  /\ pc' = "release"

(* Mutant of PrepareSession: the slot keeps its cache. *)
PrepareByAlias(r) == UNCHANGED cache

(* _prepare_session: the claimed session is invalidated in either case; on *)
(* a proven append-only match its cache becomes the admission's own.       *)
PrepareSession(r) ==
  cache' = [s \in Sessions |-> IF claim[s] = r THEN None ELSE cache[s]]

OwnsMovedCache(r) == r \in reuse /\ \E s \in ClaimedBy(r) : cache[s] # None

(* The admit() closure, once r has left its pending list. *)
Admit(r, tier, back) ==
  IF r \in cancelled
    THEN /\ Complete(r, "cancelled", back)
         /\ UNCHANGED <<live, mode, filling, cache, lent>>
    ELSE /\ PrepareSession(r)
         /\ \/ /\ live' = live \cup {r}
               /\ filling' = filling \cup {r}
               /\ lent' = IF OwnsMovedCache(r) THEN lent \cup {r} ELSE lent
               /\ mode' = tier
               /\ pc' = back
               /\ UNCHANGED fin
            \/ /\ "insert" \in Faults
               /\ Complete(r, "error", back)
               /\ UNCHANGED <<live, mode, filling, lent>>

PoolMayAdmit ==
  /\ mode \in {None, "pool"}
  /\ pendPool # <<>>
  /\ Cardinality(live) < MaxBatch
  /\ PoolAdmissionFits(Head(pendPool), live)

AdmitPool ==
  /\ pc = "admit"
  /\ PoolMayAdmit
  /\ pendPool' = Tail(pendPool)
  /\ Admit(Head(pendPool), "pool", "admit")
  /\ UNCHANGED <<requestVars, queueVars, pendSolo, left, answers, claim, reuse>>

SoloMayAdmit == mode = None /\ live = {} /\ pendSolo # <<>>

(* One solo admission per round of the loop. *)
AdmitSolo ==
  /\ pc = "admit"
  /\ ~PoolMayAdmit
  /\ SoloMayAdmit
  /\ pendSolo' = Tail(pendSolo)
  /\ Admit(Head(pendSolo), "solo", "check")
  /\ UNCHANGED <<requestVars, queueVars, pendPool, left, answers, claim, reuse>>

AdmitNone ==
  /\ pc = "admit"
  /\ ~PoolMayAdmit
  /\ ~SoloMayAdmit
  /\ pc' = "check"
  /\ UNCHANGED <<requestVars, queueVars, pendSolo, pendPool, live, mode, filling,
                 left, answers, fin, sessionVars>>

(* Mutant of CheckIdle: the loop waits for work instead of leaving. *)
CheckIdleSpins ==
  /\ pc = "check"
  /\ live = {}
  /\ pc' = "drain"
  /\ UNCHANGED <<requestVars, queueVars, pendSolo, pendPool, live, mode, filling,
                 left, answers, fin, sessionVars>>

(* Nothing resident: spin once more if something is pending, else leave. *)
CheckIdle ==
  /\ pc = "check"
  /\ live = {}
  /\ pc' = IF pendSolo # <<>> \/ pendPool # <<>> THEN "drain" ELSE "close"
  /\ UNCHANGED <<requestVars, queueVars, pendSolo, pendPool, live, mode, filling,
                 left, answers, fin, sessionVars>>

(***************************************************************************)
(* _drive: one tick of the generator and its responses                     *)
(***************************************************************************)

(* gen.next(): a decode round for the rows past their prompt, together     *)
(* with a prefill chunk that may finish the prompt of some others.         *)
Tick ==
  /\ pc = "check"
  /\ live # {}
  /\ \E ready \in SUBSET filling :
       /\ filling # {} => ready # {}
       /\ filling' = filling \ ready
  /\ answers' = live \ filling
  /\ pc' = "respond"
  /\ UNCHANGED <<requestVars, queueVars, pendSolo, pendPool, live, mode, left, fin,
                 sessionVars>>

TickFails ==
  /\ pc = "check"
  /\ live # {}
  /\ "tick" \in Faults
  /\ pc' = "fail"
  /\ UNCHANGED <<requestVars, queueVars, pendSolo, pendPool, live, mode, filling,
                 left, answers, fin, sessionVars>>

Answering(r) == pc = "respond" /\ r \in answers

(* A row leaves the generator: its moved cache is gone with it. *)
Leave(r) ==
  /\ live' = live \ {r}
  /\ filling' = filling \ {r}
  /\ answers' = answers \ {r}
  /\ lent' = lent \ {r}

(* Mutant of Deliver: the length limit is not applied. *)
DeliverPastLimit(r) ==
  /\ Answering(r)
  /\ r \notin cancelled
  /\ left' = [left EXCEPT ![r] = @ - 1]
  /\ answers' = answers \ {r}
  /\ UNCHANGED <<requestVars, queueVars, pc, pendSolo, pendPool, live, mode,
                 filling, fin, sessionVars>>

(* _deliver_token of a token that does not finish the row. *)
Deliver(r) ==
  /\ Answering(r)
  /\ r \notin cancelled
  /\ left[r] > 1
  /\ left' = [left EXCEPT ![r] = @ - 1]
  /\ answers' = answers \ {r}
  /\ UNCHANGED <<requestVars, queueVars, pc, pendSolo, pendPool, live, mode,
                 filling, fin, sessionVars>>

(* on_tokens raises: the row alone is removed from the batch.  A set       *)
(* cancel_event always raises; another failure is reported as an error.    *)
DeliverRaises(r) ==
  /\ Answering(r)
  /\ r \in Streaming
  /\ r \in cancelled \/ "callback" \in Faults
  /\ Leave(r)
  /\ Complete(r, IF r \in cancelled THEN "cancelled" ELSE "error", "respond")
  /\ UNCHANGED <<requestVars, queueVars, pendSolo, pendPool, mode, left, claim,
                 reuse, cache>>

(* _publish_session: the terminal cache goes to the claimed session, unless *)
(* the generator returned none or it does not extend the prompt.            *)
PublishSession(r) ==
  \/ UNCHANGED cache
  \/ cache' = [s \in Sessions |-> IF claim[s] = r THEN r ELSE cache[s]]

(* A finishing response: "stop" (no token is delivered, the event is not    *)
(* read) or "length" (the last token was delivered).                        *)
Finish(r) ==
  /\ Answering(r)
  /\ \/ UNCHANGED left
     \/ r \notin cancelled /\ left[r] = 1 /\ left' = [left EXCEPT ![r] = 0]
  /\ Leave(r)
  /\ PublishSession(r)
  /\ Complete(r, "done", "respond")
  /\ UNCHANGED <<requestVars, queueVars, pendSolo, pendPool, mode, claim, reuse>>

EndOfTick ==
  /\ pc = "respond"
  /\ answers = {}
  /\ mode' = IF live = {} THEN None ELSE mode
  /\ pc' = "drain"
  /\ UNCHANGED <<requestVars, queueVars, pendSolo, pendPool, live, filling, left,
                 answers, fin, sessionVars>>

(***************************************************************************)
(* _complete: release the session, tell the stream, resolve the Future     *)
(***************************************************************************)
(* Mutant of Release: the caller is woken with the session still claimed. *)
ReleaseLater ==
  /\ pc = "release"
  /\ pc' = IF fin.req \in Streaming THEN "notify" ELSE "resolve"
  /\ UNCHANGED <<requestVars, queueVars, pendSolo, pendPool, live, mode, filling,
                 left, answers, fin, sessionVars>>

Release ==
  /\ pc = "release"
  /\ claim' = [s \in Sessions |-> IF claim[s] = fin.req THEN None ELSE claim[s]]
  /\ reuse' = reuse \ {fin.req}
  /\ pc' = IF fin.req \in Streaming THEN "notify" ELSE "resolve"
  /\ UNCHANGED <<requestVars, queueVars, pendSolo, pendPool, live, mode, filling,
                 left, answers, fin, cache, lent>>

Notify ==
  /\ pc = "notify"
  /\ told' = [told EXCEPT ![fin.req] = @ + 1]
  /\ pc' = "resolve"
  /\ UNCHANGED <<future, cancelled, putting, queueVars, pendSolo, pendPool, live,
                 mode, filling, left, answers, fin, sessionVars>>

(* on_done("done") runs the router's finalize pass, which may raise; the    *)
(* exception reaches _drive's outermost handler.                            *)
NotifyRaises ==
  /\ pc = "notify"
  /\ fin.how = "done"
  /\ "finish" \in Faults
  /\ told' = [told EXCEPT ![fin.req] = @ + 1]
  /\ pc' = "fail"
  /\ fin' = None
  /\ UNCHANGED <<future, cancelled, putting, queueVars, pendSolo, pendPool, live,
                 mode, filling, left, answers, sessionVars>>

Resolve ==
  /\ pc = "resolve"
  /\ future' = [future EXCEPT ![fin.req] = fin.how]
  /\ pc' = fin.back
  /\ fin' = None
  /\ UNCHANGED <<told, cancelled, putting, queueVars, pendSolo, pendPool, live, mode,
                 filling, left, answers, sessionVars>>

(***************************************************************************)
(* _drive: the outermost handler and the exit                              *)
(***************************************************************************)
(* Whatever is resident, then whatever is pending, ends with the error. *)
FailLive ==
  /\ pc = "fail"
  /\ \E r \in live : Leave(r) /\ Complete(r, "error", "fail")
  /\ UNCHANGED <<requestVars, queueVars, pendSolo, pendPool, mode, left, claim, reuse,
                 cache>>

FailSolo ==
  /\ pc = "fail" /\ live = {} /\ pendSolo # <<>>
  /\ pendSolo' = Tail(pendSolo)
  /\ Complete(Head(pendSolo), "error", "fail")
  /\ UNCHANGED <<requestVars, queueVars, pendPool, live, mode, filling, left, answers,
                 sessionVars>>

FailPool ==
  /\ pc = "fail" /\ live = {} /\ pendSolo = <<>> /\ pendPool # <<>>
  /\ pendPool' = Tail(pendPool)
  /\ Complete(Head(pendPool), "error", "fail")
  /\ UNCHANGED <<requestVars, queueVars, pendSolo, live, mode, filling, left, answers,
                 sessionVars>>

(* Mutant of FailDone: the pending lists are forgotten. *)
FailLiveOnly ==
  /\ pc = "fail"
  /\ live = {}
  /\ pc' = "close"
  /\ UNCHANGED <<requestVars, queueVars, pendSolo, pendPool, live, mode, filling,
                 left, answers, fin, sessionVars>>

FailDone ==
  /\ pc = "fail"
  /\ live = {} /\ pendSolo = <<>> /\ pendPool = <<>>
  /\ pc' = "close"
  /\ UNCHANGED <<requestVars, queueVars, pendSolo, pendPool, live, mode, filling,
                 left, answers, fin, sessionVars>>

(* gen.close(), and _active cleared under the guard; the locals of _drive   *)
(* are gone.                                                                *)
Close ==
  /\ pc = "close"
  /\ active' = FALSE
  /\ pendSolo' = <<>> /\ pendPool' = <<>> /\ live' = {}
  /\ mode' = None /\ filling' = {} /\ answers' = {}
  /\ pc' = "recheck"
  /\ UNCHANGED <<requestVars, inbox, execq, serial, left, fin, sessionVars>>

(* Mutant of Recheck: the loop leaves without looking back. *)
RecheckNothing ==
  /\ pc = "recheck"
  /\ pc' = "off"
  /\ UNCHANGED <<requestVars, queueVars, pendSolo, pendPool, live, mode, filling,
                 left, answers, fin, sessionVars>>

(* The unguarded look at the inbox ... *)
Recheck ==
  /\ pc = "recheck"
  /\ pc' = IF inbox = <<>> THEN "off" ELSE "restart"
  /\ UNCHANGED <<requestVars, queueVars, pendSolo, pendPool, live, mode, filling,
                 left, answers, fin, sessionVars>>

(* ... and the guarded start of the next drive loop. *)
Restart ==
  /\ pc = "restart"
  /\ active' = TRUE
  /\ execq' = IF active THEN execq ELSE Append(execq, Drive)
  /\ pc' = "off"
  /\ UNCHANGED <<requestVars, inbox, serial, pendSolo, pendPool, live, mode, filling,
                 left, answers, fin, sessionVars>>

EventLoop ==
  \/ \E r \in Requests : Put(r) \/ Kick(r) \/ Cancel(r) \/ Forget(r)
  \/ \E j \in Jobs : SubmitJob(j)

Answer == \E r \in Requests : Deliver(r) \/ DeliverRaises(r) \/ Finish(r)

DriveStep ==
  \/ Take \/ InboxEmpty \/ Wake
  \/ AdmitPool \/ AdmitSolo \/ AdmitNone \/ CheckIdle
  \/ Tick \/ TickFails \/ Answer \/ EndOfTick
  \/ Release \/ Notify \/ NotifyRaises \/ Resolve
  \/ FailLive \/ FailSolo \/ FailPool \/ FailDone \/ Close \/ Recheck \/ Restart

Executor ==
  \/ StartJob \/ StartDrive \/ DriveStep
  \/ \E j \in Jobs : EndJob(j)

Next == EventLoop \/ Executor

Spec == Init /\ [][Next]_vars

(* The executor thread keeps running while it has work, and an entered     *)
(* submit() returns.  Arrivals, cancellations and faults are not fair.     *)
Fairness ==
  /\ WF_vars(Executor)
  /\ \A r \in Requests : WF_vars(Kick(r))

FairSpec == Spec /\ Fairness

(***************************************************************************)
(* Properties                                                              *)
(***************************************************************************)
Steps == {"off", "drain", "sleep", "gather", "admit", "check", "respond",
          "release", "notify", "resolve", "fail", "close", "recheck", "restart"}
Completing == {"release", "notify", "resolve"}

Completions == [req : Requests, how : Outcomes, back : {"admit", "check", "respond", "fail"}]

TypeOK ==
  /\ future \in [Requests -> Outcomes \cup {"none", "pending"}]
  /\ told \in [Requests -> Nat]
  /\ cancelled \subseteq Streaming
  /\ putting \subseteq Requests
  /\ inbox \in Seq(Requests)
  /\ active \in BOOLEAN
  /\ execq \in Seq(Jobs \cup {Drive})
  /\ serial \in [Jobs -> {"idle", "queued", "running", "done"}]
  /\ pc \in Steps
  /\ pendSolo \in Seq(Requests) /\ pendPool \in Seq(Requests)
  /\ live \subseteq Requests
  /\ mode \in {"solo", "pool", None}
  /\ filling \subseteq Requests /\ answers \subseteq Requests
  /\ left \in [Requests -> Nat]
  /\ fin \in Completions \cup {None}
  /\ pc \in Completing => fin \in Completions
  /\ claim \in [Sessions -> Requests \cup {None}]
  /\ cache \in [Sessions -> Requests \cup {None}]
  /\ reuse \subseteq Requests /\ lent \subseteq Requests

(* The loop that owns the generator: from its first statement to the point *)
(* where it clears _active.                                                *)
Driving == pc \notin {"off", "recheck", "restart"}

(* _active is exact: it is set if and only if one _drive is queued on the  *)
(* executor or running before its exit, and there is never a second one.   *)
OneDriver ==
  LET queued == {i \in DOMAIN execq : execq[i] = Drive}
  IN  /\ active <=> Driving \/ queued # {}
      /\ Driving => queued = {}
      /\ \A i, j \in queued : i = j

(* An admission in the inbox is never left to nobody: a loop runs or is     *)
(* queued, or a submit or an exiting loop is about to look (the race that   *)
(* the re-check after clearing _active is there for).                       *)
InboxServed == inbox # <<>> => active \/ putting # {} \/ pc \in {"recheck", "restart"}

(* The guarantee of the tiers: the rows that share a batch fit the indexer  *)
(* budget together, not only each alone, a solo row shares with nobody, and *)
(* the batch is bounded.                                                    *)
CoResidency ==
  /\ FitsTogether({r \in live : classify(r) = "pool"})
  /\ \A r \in live : classify(r) = "solo" => live = {r}
  /\ Cardinality(live) <= MaxBatch

(* Where an admission is: a pending one in exactly one place, any other in  *)
(* none, so that it is completed once and never lost.                       *)
Where(r) ==
  {<<"inbox", i>> : i \in {k \in DOMAIN inbox : inbox[k] = r}} \cup
  {<<"solo", i>> : i \in {k \in DOMAIN pendSolo : pendSolo[k] = r}} \cup
  {<<"pool", i>> : i \in {k \in DOMAIN pendPool : pendPool[k] = r}} \cup
  {<<"live", 0>> : q \in live \cap {r}} \cup
  (IF pc \in Completing /\ fin.req = r THEN {<<"completing", 0>>} ELSE {})

Resolving(r) == pc = "resolve" /\ fin.req = r

(* Each submitted admission is in one place until it is told of its end and  *)
(* its Future resolved (never lost, never twice), and in none afterwards. A  *)
(* stream hears of its end once, even if hearing of it raises, and before    *)
(* its Future resolves; a non-streaming caller has the Future only.          *)
Accounted ==
  \A r \in Requests :
    /\ Cardinality(Where(r)) =
         IF future[r] = "pending" /\ (told[r] = 0 \/ Resolving(r)) THEN 1 ELSE 0
    /\ told[r] <= IF r \in Streaming THEN 1 ELSE 0
    /\ r \in Streaming /\ (Ended(r) \/ Resolving(r)) => told[r] = 1

(* By the time anyone is told that a request ended, its session is already  *)
(* free, so the next request of the conversation can claim it.              *)
ReleasedFirst ==
  \A r \in Requests :
    Ended(r) \/ told[r] > 0 => ClaimedBy(r) = {}

(* A cache that a row decodes on is in no session: the slot it came from is *)
(* invalid and still claimed until the row has left the batch.              *)
CacheMoved ==
  \A r \in lent :
    /\ r \in live
    /\ \E s \in Sessions : claim[s] = r /\ cache[s] = None

(* Every submitted admission ends: "always resolved" of Admission.future.   *)
AllResolved == \A r \in Requests : (future[r] = "pending") ~> Ended(r)

(* The loop gives the thread back to the executor's other work.             *)
OthersServed == \A j \in Jobs : (serial[j] = "queued") ~> (serial[j] = "done")
=================================================================================
