-------------------------- MODULE RequestLifecycle ---------------------------
(***************************************************************************)
(* The life of a generation request in mlxturbo/server.py: its queue slot,  *)
(* STATE.lock, the selection and the worker it puts on the one-thread       *)
(* executor, the queue its worker fills and its handler drains, and a       *)
(* cancellation or a disconnect at any point where the handler is suspended.*)
(*                                                                         *)
(* The event loop runs one handler from one suspension to the next, so a    *)
(* step of a handler is one action; the executor and the threads that wait  *)
(* in q.get run beside it.                                                  *)
(***************************************************************************)
EXTENDS Integers, Sequences, FiniteSets, SequencesExt, Functions

CONSTANTS
  Requests,
  Streaming,   \* the requests answered as an event stream
  Batched,     \* the requests routed to a batch coordinator
  MaxQueue,    \* --max-queue
  MaxDeltas,   \* bound: deltas a worker emits
  MaxCancels   \* bound: cancellations delivered in all

ASSUME RequestAssumption ==
  /\ Streaming \subseteq Requests /\ Batched \subseteq Requests
  /\ MaxQueue \in Nat /\ MaxDeltas \in Nat /\ MaxCancels \in Nat

VARIABLES
  depth,     \* STATE.queue_depth
  locked,    \* STATE.lock
  waiters,   \* the futures queued in STATE.lock, by request
  acq,       \* the acquire() of each request
  pc,        \* where each handler is suspended
  owned,     \* the handlers that will release STATE.lock
  jobs,      \* the executor's queue, the running job first
  worker,    \* the worker of each request
  q,         \* its event queue
  getter,    \* the state of the thread that waits in q.get
  cancel,    \* cancel_event
  emitted,   \* what the worker put into q, in order
  seen,      \* what the handler took out
  stopped,   \* a stop string matched
  cancels    \* cancellations delivered

lockVars   == <<locked, waiters, acq, owned>>
streamVars == <<q, getter, cancel, emitted, seen, stopped>>
vars == <<depth, lockVars, pc, jobs, worker, streamVars, cancels>>

Init ==
  /\ depth = 0
  /\ locked = FALSE /\ waiters = <<>>
  /\ acq = [r \in Requests |-> "none"]
  /\ owned = {}
  /\ pc = [r \in Requests |-> "new"]
  /\ jobs = <<>>
  /\ worker = [r \in Requests |-> "none"]
  /\ q = [r \in Requests |-> <<>>]
  /\ getter = [r \in Requests |-> "none"]
  /\ cancel = {}
  /\ emitted = [r \in Requests |-> <<>>]
  /\ seen = [r \in Requests |-> <<>>]
  /\ stopped = {}
  /\ cancels = [r \in Requests |-> 0]

Goto(r, l) == pc' = [pc EXCEPT ![r] = l]

(***************************************************************************)
(* STATE.lock, an asyncio.Lock                                             *)
(***************************************************************************)

(* _wake_up_first: the first future of the queue, if it is not done. *)
Woken(a, ws) ==
  IF ws # <<>> /\ a[Head(ws)] = "waiting" THEN [a EXCEPT ![Head(ws)] = "woken"] ELSE a

Unlock(a) ==
  /\ locked' = FALSE
  /\ acq' = Woken(a, waiters)
  /\ UNCHANGED waiters

(* acquire() runs: at once if the lock is free and nobody waits. *)
AcquireStarts(r) ==
  /\ acq[r] = "spawned"
  /\ IF ~locked /\ \A i \in DOMAIN waiters : acq[waiters[i]] = "cancelled"
       THEN /\ locked' = TRUE
            /\ acq' = [acq EXCEPT ![r] = "held"]
            /\ UNCHANGED waiters
       ELSE /\ waiters' = Append(waiters, r)
            /\ acq' = [acq EXCEPT ![r] = "waiting"]
            /\ UNCHANGED locked
  /\ UNCHANGED <<depth, owned, pc, jobs, worker, streamVars, cancels>>

AcquireWakes(r) ==
  /\ acq[r] = "woken"
  /\ locked' = TRUE
  /\ waiters' = RemoveFirst(waiters, r)
  /\ acq' = [acq EXCEPT ![r] = "held"]
  /\ UNCHANGED <<depth, owned, pc, jobs, worker, streamVars, cancels>>

(* A cancelled acquire() leaves the queue and passes a wake-up on. *)
AcquireCancelled(r) ==
  /\ acq[r] \in {"cancelled", "doomed"}
  /\ waiters' = RemoveFirst(waiters, r)
  /\ acq' = LET a == [acq EXCEPT ![r] = "none"]
            IN  IF locked THEN a ELSE Woken(a, RemoveFirst(waiters, r))
  /\ UNCHANGED <<depth, locked, owned, pc, jobs, worker, streamVars, cancels>>

(* task.cancel() of an acquire() that is not done. *)
CancelAcquire(r) ==
  [acq EXCEPT ![r] = CASE acq[r] = "spawned" -> "none"
                       [] acq[r] = "waiting" -> "cancelled"
                       [] acq[r] = "woken"   -> "doomed"]

(***************************************************************************)
(* The queue slot                                                          *)
(***************************************************************************)

(* A mutant: the limit is noticed one request too late. *)
QueueFullLate == depth > MaxQueue

QueueFull == depth >= MaxQueue

(* _try_reserve_queue_slot, and the first thing the handler waits for. *)
Arrive(r) ==
  /\ pc[r] = "new"
  /\ IF QueueFull
       THEN /\ Goto(r, "refused")
            /\ UNCHANGED <<depth, acq, worker>>
       ELSE /\ depth' = depth + 1
            /\ IF r \in Streaming
                 THEN Goto(r, "preamble") /\ UNCHANGED <<acq, worker>>
                 ELSE IF r \in Batched
                   THEN /\ Goto(r, "running")
                        /\ worker' = [worker EXCEPT ![r] = "running"]
                        /\ UNCHANGED acq
                   ELSE /\ Goto(r, "acquiring")
                        /\ acq' = [acq EXCEPT ![r] = "spawned"]
                        /\ UNCHANGED worker
  /\ UNCHANGED <<locked, waiters, owned, jobs, streamVars, cancels>>

(* _release_queue_slot, on the way out. *)
ReleaseSlot == depth' = IF depth > 0 THEN depth - 1 ELSE 0

(* A mutant: a stream closed right after its preamble keeps its slot. *)
LeaveStarted(r) ==
  Goto(r, "over") /\ IF pc[r] = "preamble" THEN UNCHANGED depth ELSE ReleaseSlot

Leave(r) == Goto(r, "over") /\ ReleaseSlot

(***************************************************************************)
(* Taking the lock                                                         *)
(***************************************************************************)

(* The first event is out; the route is decided. *)
AfterPreamble(r) ==
  /\ pc[r] = "preamble"
  /\ IF r \in Batched
       THEN /\ Goto(r, "peeking")
            /\ worker' = [worker EXCEPT ![r] = "running"]
            /\ getter' = [getter EXCEPT ![r] = "blocked"]
            /\ UNCHANGED acq
       ELSE /\ Goto(r, "acquiring")
            /\ acq' = [acq EXCEPT ![r] = "spawned"]
            /\ UNCHANGED <<worker, getter>>
  /\ UNCHANGED <<depth, locked, waiters, owned, jobs, q, cancel, emitted, seen,
                 stopped, cancels>>

(* Every interval a comment line goes out, while the handler still waits. *)
Keepalive(r) ==
  /\ r \in Streaming
  /\ \/ pc[r] = "acquiring" /\ acq[r] # "held" /\ Goto(r, "lock_keepalive")
     \/ pc[r] = "peeking" /\ getter[r] = "blocked" /\ Goto(r, "peek_keepalive")
  /\ UNCHANGED <<depth, lockVars, jobs, worker, streamVars, cancels>>

KeepaliveSent(r) ==
  /\ \/ pc[r] = "lock_keepalive" /\ Goto(r, "acquiring")
     \/ pc[r] = "peek_keepalive" /\ Goto(r, "peeking")
  /\ UNCHANGED <<depth, lockVars, jobs, worker, streamVars, cancels>>

(* The acquire is done: owned is set and the selection submitted. *)
TakeLock(r) ==
  /\ pc[r] = "acquiring" /\ acq[r] = "held"
  /\ acq' = [acq EXCEPT ![r] = "none"]
  /\ owned' = owned \cup {r}
  /\ jobs' = Append(jobs, [kind |-> "select", req |-> r])
  /\ Goto(r, "selecting")
  /\ UNCHANGED <<depth, locked, waiters, worker, streamVars, cancels>>

(* _select_session returns on the executor. *)
SelectionEnds ==
  /\ jobs # <<>> /\ Head(jobs).kind = "select"
  /\ jobs' = Tail(jobs)
  /\ UNCHANGED <<depth, lockVars, pc, worker, streamVars, cancels>>

Submitted(r, kind) == \E i \in DOMAIN jobs : jobs[i] = [kind |-> kind, req |-> r]

(* _start_generation, or _run_generate. *)
StartGeneration(r) ==
  /\ pc[r] = "selecting" /\ ~Submitted(r, "select")
  /\ jobs' = Append(jobs, [kind |-> "generate", req |-> r])
  /\ worker' = [worker EXCEPT ![r] = "queued"]
  /\ IF r \in Streaming
       THEN Goto(r, "peeking") /\ getter' = [getter EXCEPT ![r] = "blocked"]
       ELSE Goto(r, "running") /\ UNCHANGED getter
  /\ UNCHANGED <<depth, lockVars, q, cancel, emitted, seen, stopped, cancels>>

(***************************************************************************)
(* The worker                                                              *)
(***************************************************************************)
Terminal == {"done", "cancelled", "error"}

Running(r) ==
  IF r \in Batched THEN worker[r] = "running"
  ELSE jobs # <<>> /\ Head(jobs) = [kind |-> "generate", req |-> r]

Put(r, e) ==
  IF r \in Streaming
    THEN /\ q' = [q EXCEPT ![r] = Append(@, e)]
         /\ emitted' = [emitted EXCEPT ![r] = Append(@, e)]
    ELSE UNCHANGED <<q, emitted>>

EndWorker(r) ==
  /\ worker' = [worker EXCEPT ![r] = "over"]
  /\ jobs' = IF r \in Batched THEN jobs ELSE Tail(jobs)

(* A mutant: a cancelled generation ends without a word. *)
OnTokensSilent(r) ==
  /\ Running(r)
  /\ r \in Streaming
  /\ IF r \in cancel THEN EndWorker(r) /\ UNCHANGED <<q, emitted>>
     ELSE Len(emitted[r]) < MaxDeltas /\ Put(r, "delta") /\ UNCHANGED <<worker, jobs>>
  /\ UNCHANGED <<depth, lockVars, pc, getter, cancel, seen, stopped, cancels>>

(* on_tokens: a cancelled generation stops here and nowhere else. *)
OnTokens(r) ==
  /\ Running(r)
  /\ r \in Streaming
  /\ \/ /\ r \in cancel
        /\ Put(r, "cancelled")
        /\ EndWorker(r)
     \/ /\ r \notin cancel
        /\ Len(emitted[r]) < MaxDeltas
        /\ Put(r, "delta")
        /\ UNCHANGED <<worker, jobs>>
  /\ UNCHANGED <<depth, lockVars, pc, getter, cancel, seen, stopped, cancels>>

(* The generation returns, or raises. *)
WorkerEnds(r) ==
  /\ Running(r)
  /\ \E e \in {"done", "error"} : Put(r, e)
  /\ EndWorker(r)
  /\ UNCHANGED <<depth, lockVars, pc, getter, cancel, seen, stopped, cancels>>

(***************************************************************************)
(* Draining the queue                                                      *)
(***************************************************************************)

(* The thread in q.get has an item; one whose handler is gone drops it. *)
GetterTakes(r) ==
  /\ getter[r] = "blocked" /\ q[r] # <<>>
  /\ q' = [q EXCEPT ![r] = Tail(@)]
  /\ getter' = [getter EXCEPT ![r] = Head(q[r])]
  /\ UNCHANGED <<depth, lockVars, pc, jobs, worker, cancel, emitted, seen, stopped,
                 cancels>>

Taken(r) == getter[r] \notin {"none", "blocked"}

(* A mutant: the peeked item goes to the end of the queue. *)
RequeueBack(r) == q' = [q EXCEPT ![r] = Append(@, getter[r])]

(* _requeue_front: the first item goes back to be read like the others. *)
RequeueFront(r) == q' = [q EXCEPT ![r] = <<getter[r]>> \o @]

Peeked(r) ==
  /\ pc[r] = "peeking" /\ Taken(r)
  /\ RequeueFront(r)
  /\ getter' = [getter EXCEPT ![r] = "blocked"]
  /\ Goto(r, "reading")
  /\ UNCHANGED <<depth, lockVars, jobs, worker, cancel, emitted, seen, stopped, cancels>>

(* One round of the handler's loop over q. *)
HandleItem(r) ==
  /\ pc[r] = "reading" /\ Taken(r)
  /\ \/ /\ getter[r] = "delta" /\ r \in stopped
        /\ getter' = [getter EXCEPT ![r] = "blocked"]
        /\ UNCHANGED <<pc, seen, stopped, cancel>>
     \/ /\ getter[r] = "delta" /\ r \notin stopped
        /\ seen' = [seen EXCEPT ![r] = Append(@, "delta")]
        /\ getter' = [getter EXCEPT ![r] = "none"]
        /\ Goto(r, "sending")
        /\ \/ UNCHANGED <<stopped, cancel>>
           \/ stopped' = stopped \cup {r} /\ cancel' = cancel \cup {r}
     \/ /\ getter[r] \in Terminal
        /\ seen' = [seen EXCEPT ![r] = Append(@, getter[r])]
        /\ getter' = [getter EXCEPT ![r] = "none"]
        /\ Goto(r, "finishing")
        /\ UNCHANGED <<stopped, cancel>>
  /\ UNCHANGED <<depth, lockVars, jobs, worker, q, emitted, cancels>>

ChunkSent(r) ==
  /\ pc[r] = "sending"
  /\ getter' = [getter EXCEPT ![r] = "blocked"]
  /\ Goto(r, "reading")
  /\ UNCHANGED <<depth, lockVars, jobs, worker, q, cancel, emitted, seen, stopped, cancels>>

(***************************************************************************)
(* The end                                                                 *)
(***************************************************************************)

(* The finally of a stream: stop the worker, then wait for it. *)
LastChunkSent(r) ==
  /\ pc[r] = "finishing"
  /\ cancel' = cancel \cup {r}
  /\ Goto(r, "closing")
  /\ UNCHANGED <<depth, lockVars, jobs, worker, q, getter, emitted, seen, stopped, cancels>>

(* A mutant: a second cancellation breaks the wait for the worker. *)
MayLeaveOnSecond(r) == worker[r] = "over" \/ cancels[r] > 1

(* The handler is released by the end of its worker and by nothing else. *)
MayLeave(r) == worker[r] = "over"

Finish(r) ==
  /\ pc[r] \in {"closing", "running"}
  /\ MayLeave(r)
  /\ Leave(r)
  /\ owned' = owned \ {r}
  /\ IF r \in owned THEN Unlock(acq) ELSE UNCHANGED <<locked, waiters, acq>>
  /\ UNCHANGED <<jobs, worker, streamVars, cancels>>

(***************************************************************************)
(* Cancellation                                                            *)
(***************************************************************************)
Delivered == FoldFunction(LAMBDA m, n : m + n, 0, cancels)

Cancelled(r) ==
  /\ Delivered < MaxCancels
  /\ cancels' = [cancels EXCEPT ![r] = @ + 1]

(* A mutant: only a pending acquire is undone. *)
GiveBackPending(r) ==
  /\ acq' = IF acq[r] = "held" THEN [acq EXCEPT ![r] = "none"] ELSE CancelAcquire(r)
  /\ UNCHANGED <<locked, waiters>>

(* Before the lock, or while waiting for it.  An acquire that is done but    *)
(* was not handed over is undone.                                           *)
GiveBack(r) ==
  IF acq[r] = "held" THEN Unlock([acq EXCEPT ![r] = "none"])
  ELSE acq' = CancelAcquire(r) /\ UNCHANGED <<locked, waiters>>

CancelEarly(r) ==
  /\ Cancelled(r)
  /\ \/ pc[r] = "preamble" /\ UNCHANGED <<locked, waiters, acq>>
     \/ /\ pc[r] \in {"acquiring", "lock_keepalive"}
        /\ r \notin Streaming => acq[r] \in {"waiting", "woken"}
        /\ GiveBack(r)
  /\ Leave(r)
  /\ UNCHANGED <<owned, jobs, worker, streamVars>>

(* While the selection runs: it is dropped from the queue if it has not      *)
(* started, and runs on if it has.                                          *)
CancelSelecting(r) ==
  /\ pc[r] = "selecting"
  /\ Cancelled(r)
  /\ LET job == [kind |-> "select", req |-> r]
     IN  jobs' = IF Submitted(r, "select") /\ Head(jobs) # job
                 THEN RemoveFirst(jobs, job) ELSE jobs
  /\ owned' = owned \ {r}
  /\ Unlock(acq)
  /\ Leave(r)
  /\ UNCHANGED <<worker, streamVars>>

(* While the stream is open: its thread in q.get, if any, is left behind. *)
CancelStreaming(r) ==
  /\ pc[r] \in {"peeking", "peek_keepalive", "reading", "sending", "finishing"}
  /\ Cancelled(r)
  /\ cancel' = cancel \cup {r}
  /\ Goto(r, "closing")
  /\ UNCHANGED <<depth, lockVars, jobs, worker, q, getter, emitted, seen, stopped>>

(* While it waits for its worker: remembered, and the wait goes on. *)
CancelDeferred(r) ==
  /\ pc[r] \in {"closing", "running"}
  /\ Cancelled(r)
  /\ UNCHANGED <<depth, lockVars, pc, jobs, worker, streamVars>>

Lock(r) == AcquireStarts(r) \/ AcquireWakes(r) \/ AcquireCancelled(r)
Handler(r) ==
  \/ AfterPreamble(r) \/ KeepaliveSent(r) \/ TakeLock(r) \/ StartGeneration(r)
  \/ Peeked(r) \/ HandleItem(r) \/ ChunkSent(r) \/ LastChunkSent(r) \/ Finish(r)
Cancel(r) ==
  CancelEarly(r) \/ CancelSelecting(r) \/ CancelStreaming(r) \/ CancelDeferred(r)

Next ==
  \/ SelectionEnds
  \/ \E r \in Requests :
       \/ Arrive(r) \/ Lock(r) \/ Handler(r) \/ Keepalive(r) \/ Cancel(r)
       \/ OnTokens(r) \/ WorkerEnds(r) \/ GetterTakes(r)

Spec == Init /\ [][Next]_vars

(* The event loop and the threads run on, a client reads what it is sent,   *)
(* and a generation ends.                                                   *)
FairSpec ==
  /\ Spec
  /\ WF_vars(SelectionEnds)
  /\ \A r \in Requests :
       /\ WF_vars(Lock(r)) /\ WF_vars(Handler(r)) /\ WF_vars(GetterTakes(r))
       /\ WF_vars(WorkerEnds(r) \/ OnTokens(r))

(***************************************************************************)
(* Properties                                                              *)
(***************************************************************************)
Places == {"new", "refused", "preamble", "acquiring", "lock_keepalive", "selecting",
           "peeking", "peek_keepalive", "reading", "sending", "finishing", "closing",
           "running", "over"}
AcqStates == {"none", "spawned", "waiting", "woken", "held", "cancelled", "doomed"}
Events == Terminal \cup {"delta"}
Job == [kind : {"select", "generate"}, req : Requests]

TypeOK ==
  /\ depth \in 0..MaxQueue
  /\ locked \in BOOLEAN
  /\ waiters \in Seq(Requests)
  /\ acq \in [Requests -> AcqStates]
  /\ pc \in [Requests -> Places]
  /\ owned \subseteq Requests
  /\ jobs \in Seq(Job)
  /\ worker \in [Requests -> {"none", "queued", "running", "over"}]
  /\ q \in [Requests -> Seq(Events)]
  /\ getter \in [Requests -> Events \cup {"none", "blocked"}]
  /\ cancel \subseteq Requests /\ stopped \subseteq Requests
  /\ emitted \in [Requests -> Seq(Events)]
  /\ seen \in [Requests -> Seq(Events)]
  /\ cancels \in [Requests -> Nat]

Active(r) == worker[r] \in {"queued", "running"}

(* Whatever is cancelled, and however often: a serial generation that is    *)
(* queued or running belongs to the one request that holds STATE.lock.      *)
WorkerCovered ==
  \A r \in Requests \ Batched : Active(r) => locked /\ owned = {r}

(* STATE.lock is taken exactly when one handler, or one acquire it has yet  *)
(* to notice, holds it: it is never leaked and never released twice.        *)
LockAccounted ==
  LET holders == owned \cup {r \in Requests : acq[r] = "held"}
  IN  Cardinality(holders) = IF locked THEN 1 ELSE 0

InFlight == {r \in Requests : pc[r] \notin {"new", "refused", "over"}}

(* Every request in flight has one queue slot, and nothing else has.        *)
SlotsAccounted == depth = Cardinality(InFlight)

(* A request that is refused, cancelled at any suspension or closed right    *)
(* after its preamble gives back what it held exactly once.                 *)
Accounted == LockAccounted /\ SlotsAccounted

(* What the client is sent is what the worker emitted, in that order; a     *)
(* stream that was not cut off got all of it up to the stop string, and its  *)
(* terminal event last.  The worker says how it ended once, and says         *)
(* nothing after that.                                                      *)
StreamFaithful ==
  \A r \in Streaming :
    /\ r \notin stopped => IsPrefix(seen[r], emitted[r])
    /\ pc[r] = "over" /\ cancels[r] = 0
         => /\ seen[r] # <<>> /\ Last(seen[r]) = Last(emitted[r])
            /\ r \notin stopped => seen[r] = emitted[r]
    /\ \A i \in DOMAIN emitted[r] :
         emitted[r][i] \in Terminal => i = Len(emitted[r]) /\ worker[r] = "over"

(* Every request that was let in ends, and gives its slot and its lock back. *)
AllEnd == \A r \in Requests : r \in InFlight ~> pc[r] = "over"

(* A thread that waits in q.get when the client goes away is released.      *)
GetterFreed == \A r \in Streaming : getter[r] = "blocked" ~> getter[r] # "blocked"
==============================================================================
