----------------------- MODULE RequestLifecycleProofs ------------------------
(***************************************************************************)
(* Safety of the request lifecycle for any set of requests, streaming or   *)
(* not, batched or not, any --max-queue, any number of deltas and any      *)
(* number of cancellations.                                                *)
(***************************************************************************)
EXTENDS RequestLifecycle, ListFacts, FiniteSetTheorems, TLAPS

(***************************************************************************)
(* The inductive invariant                                                 *)
(***************************************************************************)
Queueing == {"waiting", "woken", "cancelled", "doomed"}

(* Who waits in STATE.lock: once each, and only the first may be woken,     *)
(* which happens while the lock is free.                                    *)
WaitersSound ==
  /\ \A r \in Requests : acq[r] \in Queueing <=> r \in Elements(waiters)
  /\ Distinct(waiters)
  /\ \A r \in Requests :
       acq[r] \in {"woken", "doomed"} => ~locked /\ waiters # <<>> /\ Head(waiters) = r

Holders == owned \cup {r \in Requests : acq[r] = "held"}

LockSound ==
  /\ WaitersSound
  /\ locked <=> Holders # {}
  /\ \A r, s \in Holders : r = s
  /\ \A r \in owned : acq[r] # "held"

(* Where a handler that has the lock stands. *)
Serving == {"selecting", "peeking", "peek_keepalive", "reading", "sending", "finishing",
            "closing", "running"}
Early == {"new", "preamble", "acquiring", "lock_keepalive", "selecting"}

(* Where a handler stands tells what it holds, and how far its worker is. *)
PlacesSound ==
  \A r \in Requests :
    /\ acq[r] \in {"spawned", "waiting", "woken", "held"}
         <=> pc[r] \in {"acquiring", "lock_keepalive"}
    /\ acq[r] \in {"cancelled", "doomed"} => pc[r] = "over"
    /\ r \in owned <=> r \notin Batched /\ pc[r] \in Serving
    /\ pc[r] \in {"acquiring", "lock_keepalive", "selecting"} => r \notin Batched
    /\ pc[r] \in Early => worker[r] = "none"
    /\ r \notin Batched => worker[r] # "running"
    /\ r \notin Batched /\ worker[r] = "queued" => pc[r] \in Serving

(* The executor has a job of a request once, and a generation only for a    *)
(* worker that is still to end.                                             *)
JobsSound ==
  /\ Distinct(jobs)
  /\ \A j \in Elements(jobs) :
       /\ j.req \notin Batched
       /\ pc[j.req] \notin Early \ {"selecting"}
       /\ j.kind = "generate" => worker[j.req] = "queued"

(* A queue slot for each request in flight. *)
SlotsSound == IsFiniteSet(InFlight) /\ SlotsAccounted

(* What is on its way from the worker to the client. *)
Sent(r) == Len(emitted[r]) - Len(q[r])

(* The queue is what was emitted last, before it comes what the thread in   *)
(* q.get has taken, and before that what the handler has read.              *)
Flow(r) ==
  /\ Len(q[r]) <= Len(emitted[r])
  /\ \A i \in 1..Len(q[r]) : q[r][i] = emitted[r][Sent(r) + i]
  /\ Taken(r) => Sent(r) > 0 /\ getter[r] = emitted[r][Sent(r)]
  /\ r \notin stopped =>
       /\ Len(seen[r]) <= Len(emitted[r])
       /\ \A i \in 1..Len(seen[r]) : seen[r][i] = emitted[r][i]
       /\ cancels[r] = 0 => Len(seen[r]) = IF Taken(r) THEN Sent(r) - 1 ELSE Sent(r)

(* Nobody has broken off a stream that is still served, and one that was    *)
(* never broken off is closed with its terminal event, and nothing is left. *)
Phase(r) ==
  /\ pc[r] \notin {"closing", "over"} => cancels[r] = 0
  /\ pc[r] # "running"
  /\ pc[r] \in Early \cup {"refused"} => worker[r] = "none"
  /\ pc[r] \in Early \cup {"refused", "sending"} => getter[r] = "none"
  /\ pc[r] \in {"finishing", "closing", "over"} /\ cancels[r] = 0 =>
       /\ getter[r] = "none" /\ q[r] = <<>> /\ seen[r] # <<>> /\ emitted[r] # <<>>
       /\ Last(seen[r]) = Last(emitted[r]) /\ Last(emitted[r]) \in Terminal

(* A worker says how it ended when it ends, and nothing after that. *)
Ended(r) ==
  \A i \in DOMAIN emitted[r] :
    emitted[r][i] \in Terminal => i = Len(emitted[r]) /\ worker[r] = "over"

StreamSound == \A r \in Streaming : Flow(r) /\ Phase(r) /\ Ended(r)

IInv == TypeOK /\ LockSound /\ PlacesSound /\ JobsSound /\ SlotsSound /\ StreamSound

LEMMA InitSound == Init => IInv
<1> SUFFICES ASSUME Init PROVE IInv OBVIOUS
<1> USE DEF Init
<1>1. TypeOK
  <2>1. <<>> \in Seq(Requests) /\ <<>> \in Seq(Job) /\ <<>> \in Seq(Events)
    BY EmptyList
  <2>2. "none" \in AcqStates /\ "new" \in Places /\ Requests \in SUBSET Requests
    BY DEF AcqStates, Places
  <2>3. locked \in BOOLEAN /\ owned \subseteq Requests
        /\ cancel \subseteq Requests /\ stopped \subseteq Requests
    OBVIOUS
  <2>7. depth \in 0..MaxQueue
    BY RequestAssumption
  <2>4. /\ q \in [Requests -> Seq(Events)] /\ emitted \in [Requests -> Seq(Events)]
        /\ seen \in [Requests -> Seq(Events)]
    BY <2>1
  <2>5. /\ waiters \in Seq(Requests) /\ jobs \in Seq(Job)
    BY <2>1
  <2>6. /\ acq \in [Requests -> AcqStates] /\ pc \in [Requests -> Places]
        /\ worker \in [Requests -> {"none", "queued", "running", "over"}]
        /\ getter \in [Requests -> Events \cup {"none", "blocked"}]
        /\ cancels \in [Requests -> Nat]
    BY <2>2
  <2> QED BY <2>3, <2>4, <2>5, <2>6, <2>7 DEF TypeOK
<1>2. Elements(<<>>) = {} /\ Distinct(<<>>)
  BY DEF Elements, Distinct
<1>3. LockSound
  BY <1>2 DEF LockSound, WaitersSound, Holders, Queueing
<1>4. PlacesSound
  BY DEF PlacesSound, Serving, Early
<1>5. JobsSound
  BY <1>2 DEF JobsSound
<1>6. SlotsSound
  <2>1. InFlight = {} BY DEF InFlight
  <2> QED BY <2>1, FS_EmptySet DEF SlotsSound, SlotsAccounted
<1>7. StreamSound
  BY RequestAssumption DEF StreamSound, Flow, Phase, Ended, Taken, Sent
<1> QED BY <1>1, <1>3, <1>4, <1>5, <1>6, <1>7 DEF IInv

(***************************************************************************)
(* Type correctness                                                        *)
(***************************************************************************)
LEMMA WokenType ==
  ASSUME NEW a \in [Requests -> AcqStates], NEW ws \in Seq(Requests)
  PROVE  Woken(a, ws) \in [Requests -> AcqStates]
<1>1. CASE ws = <<>> BY <1>1 DEF Woken
<1>2. CASE ws # <<>>
  <2>1. Head(ws) \in Requests BY <1>2, ListParts
  <2> QED BY <2>1 DEF Woken, AcqStates
<1> QED BY <1>1, <1>2

(* A wake-up turns the first future from waiting to woken and nothing else. *)
LEMMA WokenFacts ==
  ASSUME NEW a \in [Requests -> AcqStates], NEW ws \in Seq(Requests), NEW r \in Requests
  PROVE  Woken(a, ws)[r] = IF ws # <<>> /\ r = Head(ws) /\ a[r] = "waiting" THEN "woken"
                           ELSE a[r]
<1>1. CASE ws = <<>> BY <1>1 DEF Woken
<1>2. CASE ws # <<>>
  <2>1. Head(ws) \in Requests BY <1>2, ListParts
  <2> QED BY <1>2, <2>1 DEF Woken
<1> QED BY <1>1, <1>2

LEMMA WokenOnly ==
  ASSUME TypeOK
  PROVE  \A x \in Requests :
           \/ Woken(acq, waiters)[x] = acq[x]
           \/ acq[x] = "waiting" /\ Woken(acq, waiters)[x] = "woken"
  BY WokenFacts DEF TypeOK

LEMMA HeadJob ==
  ASSUME TypeOK, jobs # <<>>
  PROVE  Head(jobs) \in Elements(jobs) /\ Head(jobs) \in Job
  BY TailFacts, ListParts DEF TypeOK

LEMMA LockType ==
  ASSUME IInv, NEW r \in Requests, Lock(r)
  PROVE  TypeOK'
<1> USE DEF IInv, TypeOK, AcqStates, streamVars
<1>1. CASE AcquireStarts(r)
  <2>1. Append(waiters, r) \in Seq(Requests)
    BY AppendFacts
  <2> QED BY <1>1, <2>1 DEF AcquireStarts
<1>2. RemoveFirst(waiters, r) \in Seq(Requests)
  BY RemoveFacts DEF LockSound, WaitersSound
<1>3. CASE AcquireWakes(r)
  BY <1>2, <1>3 DEF AcquireWakes
<1>4. CASE AcquireCancelled(r)
  <2>1. RemoveFirst(waiters, r) # <<>> => Head(RemoveFirst(waiters, r)) \in Requests
    BY <1>2, ListParts
  <2> QED BY <1>2, <1>4, <2>1 DEF AcquireCancelled, Woken
<1> QED BY <1>1, <1>3, <1>4 DEF Lock

LEMMA HandlerType ==
  ASSUME IInv, NEW r \in Requests, Handler(r) \/ Arrive(r) \/ Keepalive(r)
  PROVE  TypeOK'
<1> USE RequestAssumption DEF IInv, TypeOK, Places, Goto, lockVars, streamVars
<1>1. CASE Arrive(r)
  <2>1. depth' \in 0..MaxQueue
    BY <1>1 DEF Arrive, QueueFull
  <2> QED BY <1>1, <2>1, ZenonT(40) DEF Arrive, AcqStates
<1>2. CASE Keepalive(r) BY <1>2 DEF Keepalive
<1>3. CASE AfterPreamble(r) BY <1>3, ZenonT(40) DEF AfterPreamble, AcqStates
<1>4. CASE KeepaliveSent(r) BY <1>4 DEF KeepaliveSent
<1>5. CASE TakeLock(r)
  <2>1. Append(jobs, [kind |-> "select", req |-> r]) \in Seq(Job)
    BY AppendFacts DEF Job
  <2> QED BY <1>5, <2>1 DEF TakeLock, AcqStates
<1>6. CASE StartGeneration(r)
  <2>1. Append(jobs, [kind |-> "generate", req |-> r]) \in Seq(Job)
    BY AppendFacts DEF Job
  <2> QED BY <1>6, <2>1 DEF StartGeneration
<1>7. CASE Peeked(r)
  <2>1. <<getter[r]>> \o q[r] \in Seq(Events)
    BY <1>7 DEF Peeked, Taken
  <2> QED BY <1>7, <2>1 DEF Peeked, RequeueFront
<1>8. CASE HandleItem(r)
  <2>1. getter[r] \in Events /\ Append(seen[r], getter[r]) \in Seq(Events)
    <3>1. getter[r] \in Events
      BY <1>8 DEF HandleItem, Taken, Events
    <3> QED BY <3>1, AppendFacts
  <2>2. seen' \in [Requests -> Seq(Events)]
    <3>1. CASE UNCHANGED seen BY <3>1
    <3>2. CASE seen' = [seen EXCEPT ![r] = Append(@, getter[r])] BY <2>1, <3>2
    <3> QED BY <1>8, <3>1, <3>2 DEF HandleItem
  <2> QED BY <1>8, <2>2 DEF HandleItem
<1>9. CASE ChunkSent(r) BY <1>9 DEF ChunkSent
<1>10. CASE LastChunkSent(r) BY <1>10 DEF LastChunkSent
<1>11. CASE Finish(r)
  <2>1. depth' \in 0..MaxQueue
    BY <1>11 DEF Finish, Leave, ReleaseSlot
  <2>2. acq' \in [Requests -> AcqStates]
    <3>1. Woken(acq, waiters) \in [Requests -> AcqStates]
      BY WokenType
    <3> QED BY <1>11, <3>1 DEF Finish, Unlock
  <2> QED BY <1>11, <2>1, <2>2 DEF Finish, Leave, Unlock
<1> QED
  BY <1>1, <1>2, <1>3, <1>4, <1>5, <1>6, <1>7, <1>8, <1>9, <1>10, <1>11 DEF Handler

LEMMA CancelType ==
  ASSUME IInv, NEW r \in Requests, Cancel(r)
  PROVE  TypeOK'
<1> USE RequestAssumption DEF IInv, TypeOK, Places, Goto, lockVars, streamVars, Cancelled
<1>1. CASE CancelEarly(r)
  <2>1. depth' \in 0..MaxQueue
    BY <1>1 DEF CancelEarly, Leave, ReleaseSlot
  <2>2. acq' \in [Requests -> AcqStates]
    <3>1. CASE pc[r] = "preamble" BY <1>1, <3>1 DEF CancelEarly
    <3>2. CASE pc[r] \in {"acquiring", "lock_keepalive"} /\ acq[r] = "held"
      <4>1. [acq EXCEPT ![r] = "none"] \in [Requests -> AcqStates]
        BY DEF AcqStates
      <4>2. acq' = Woken([acq EXCEPT ![r] = "none"], waiters)
        BY <1>1, <3>2 DEF CancelEarly, GiveBack, Unlock
      <4> QED BY <4>1, <4>2, WokenType
    <3>3. CASE pc[r] \in {"acquiring", "lock_keepalive"} /\ acq[r] # "held"
      <4>1. acq[r] \in {"spawned", "waiting", "woken"}
        BY <3>3 DEF PlacesSound
      <4>2. CancelAcquire(r) \in [Requests -> AcqStates]
        BY <4>1 DEF CancelAcquire, AcqStates
      <4> QED BY <1>1, <3>3, <4>2 DEF CancelEarly, GiveBack
    <3> QED BY <1>1, <3>1, <3>2, <3>3 DEF CancelEarly
  <2>3. locked' \in BOOLEAN /\ waiters' = waiters
    BY <1>1 DEF CancelEarly, GiveBack, Unlock
  <2>4. pc' \in [Requests -> Places] /\ cancels' \in [Requests -> Nat]
    BY <1>1 DEF CancelEarly, Leave
  <2>5. UNCHANGED <<owned, jobs, worker, q, getter, cancel, emitted, seen, stopped>>
    BY <1>1 DEF CancelEarly
  <2> QED BY <2>1, <2>2, <2>3, <2>4, <2>5
<1>2. CASE CancelSelecting(r)
  <2>1. depth' \in 0..MaxQueue
    BY <1>2 DEF CancelSelecting, Leave, ReleaseSlot
  <2>2. acq' \in [Requests -> AcqStates]
    BY <1>2, WokenType DEF CancelSelecting, Unlock
  <2>3. jobs' \in Seq(Job)
    BY <1>2, RemoveFacts DEF CancelSelecting, JobsSound, Job
  <2>4. locked' \in BOOLEAN /\ waiters' = waiters /\ owned' \subseteq Requests
    BY <1>2 DEF CancelSelecting, Unlock
  <2>5. UNCHANGED <<worker, q, getter, cancel, emitted, seen, stopped>>
    BY <1>2 DEF CancelSelecting
  <2>6. pc' \in [Requests -> Places] /\ cancels' \in [Requests -> Nat]
    BY <1>2 DEF CancelSelecting, Leave
  <2> QED BY <2>1, <2>2, <2>3, <2>4, <2>5, <2>6
<1>3. CASE CancelStreaming(r) BY <1>3 DEF CancelStreaming
<1>4. CASE CancelDeferred(r) BY <1>4 DEF CancelDeferred
<1> QED BY <1>1, <1>2, <1>3, <1>4 DEF Cancel

LEMMA WorkerType ==
  ASSUME IInv, NEW r \in Requests, OnTokens(r) \/ WorkerEnds(r) \/ GetterTakes(r)
  PROVE  TypeOK'
<1> USE RequestAssumption DEF IInv, TypeOK, Places, lockVars
<1>1. ASSUME NEW e \in Events, Put(r, e)
      PROVE  q' \in [Requests -> Seq(Events)] /\ emitted' \in [Requests -> Seq(Events)]
  <2>1. q[r] \in Seq(Events) /\ emitted[r] \in Seq(Events)
    OBVIOUS
  <2>2. Append(q[r], e) \in Seq(Events) /\ Append(emitted[r], e) \in Seq(Events)
    BY <2>1, AppendFacts
  <2>3. CASE r \in Streaming
    <3>1. q' = [q EXCEPT ![r] = Append(@, e)] /\ emitted' = [emitted EXCEPT ![r] = Append(@, e)]
      BY <1>1, <2>3 DEF Put
    <3> QED BY <2>2, <3>1
  <2>4. CASE r \notin Streaming BY <1>1, <2>4 DEF Put
  <2> QED BY <2>3, <2>4
<1>2. ASSUME Running(r), EndWorker(r)
      PROVE  jobs' \in Seq(Job) /\ worker' \in [Requests -> {"none", "queued", "running", "over"}]
  BY <1>2, ListParts DEF Running, EndWorker, Job
<1>3. CASE OnTokens(r) /\ r \in cancel
  <2>1. "cancelled" \in Events /\ Put(r, "cancelled") /\ EndWorker(r) /\ Running(r)
    BY <1>3 DEF OnTokens, Events, Terminal
  <2>2. UNCHANGED <<depth, locked, waiters, acq, owned, pc, getter, cancel, seen, stopped, cancels>>
    BY <1>3 DEF OnTokens
  <2> QED BY <1>1, <1>2, <2>1, <2>2
<1>4. CASE OnTokens(r) /\ r \notin cancel
  <2>1. "delta" \in Events /\ Put(r, "delta")
    BY <1>4 DEF OnTokens, Events
  <2>2. UNCHANGED <<depth, locked, waiters, acq, owned, pc, jobs, worker, getter, cancel, seen,
                    stopped, cancels>>
    BY <1>4 DEF OnTokens
  <2> QED BY <1>1, <2>1, <2>2
<1>5. CASE WorkerEnds(r)
  <2>1. PICK e \in {"done", "error"} : Put(r, e)
    BY <1>5 DEF WorkerEnds
  <2>2. e \in Events /\ EndWorker(r) /\ Running(r)
    BY <1>5 DEF WorkerEnds, Events, Terminal
  <2>3. UNCHANGED <<depth, locked, waiters, acq, owned, pc, getter, cancel, seen, stopped, cancels>>
    BY <1>5 DEF WorkerEnds
  <2> QED BY <1>1, <1>2, <2>1, <2>2, <2>3
<1>6. CASE GetterTakes(r)
  <2>1. Head(q[r]) \in Events /\ Tail(q[r]) \in Seq(Events)
    BY <1>6, ListParts DEF GetterTakes
  <2> QED BY <1>6, <2>1 DEF GetterTakes
<1> QED BY <1>3, <1>4, <1>5, <1>6

LEMMA TypeStep ==
  ASSUME IInv, Next
  PROVE  TypeOK'
<1>1. CASE SelectionEnds
  BY <1>1, ListParts DEF SelectionEnds, IInv, TypeOK, lockVars, streamVars
<1> QED BY <1>1, LockType, HandlerType, CancelType, WorkerType DEF Next

(***************************************************************************)
(* Where the handlers stand                                                *)
(***************************************************************************)
LEMMA PlacesLock ==
  ASSUME IInv, NEW r \in Requests, Lock(r)
  PROVE  PlacesSound'
<1> USE DEF IInv, PlacesSound
<1>0. /\ acq \in [Requests -> AcqStates] /\ RemoveFirst(waiters, r) \in Seq(Requests)
      /\ UNCHANGED <<pc, owned, worker>>
  BY RemoveFacts
  DEF TypeOK, LockSound, WaitersSound, Lock, AcquireStarts, AcquireWakes, AcquireCancelled
<1>1. CASE AcquireStarts(r) BY <1>0, <1>1 DEF AcquireStarts
<1>2. CASE AcquireWakes(r) BY <1>0, <1>2 DEF AcquireWakes
<1>3. CASE AcquireCancelled(r)
  <2> DEFINE a == [acq EXCEPT ![r] = "none"]
  <2>1. a \in [Requests -> AcqStates] BY <1>0 DEF AcqStates
  <2>2. \A x \in Requests : acq'[x] = a[x] \/ (a[x] = "waiting" /\ acq'[x] = "woken")
    BY <1>0, <1>3, <2>1, WokenFacts, ZenonT(40) DEF AcquireCancelled
  <2>3. acq[r] \in {"cancelled", "doomed"}
    BY <1>3 DEF AcquireCancelled
  <2> QED BY <1>0, <2>2, <2>3
<1> QED BY <1>1, <1>2, <1>3 DEF Lock

LEMMA PlacesHandler ==
  ASSUME IInv, NEW r \in Requests, Handler(r) \/ Arrive(r) \/ Keepalive(r)
  PROVE  PlacesSound'
<1> USE DEF IInv, TypeOK, PlacesSound, Serving, Early, Goto, lockVars
<1>1. CASE Arrive(r) BY <1>1 DEF Arrive
<1>2. CASE Keepalive(r) BY <1>2 DEF Keepalive
<1>3. CASE AfterPreamble(r) BY <1>3 DEF AfterPreamble
<1>4. CASE KeepaliveSent(r) BY <1>4, SMTT(30) DEF KeepaliveSent
<1>5. CASE TakeLock(r) BY <1>5 DEF TakeLock
<1>6. CASE StartGeneration(r) BY <1>6 DEF StartGeneration
<1>7. CASE Peeked(r) BY <1>7 DEF Peeked
<1>8. CASE HandleItem(r) BY <1>8, SMTT(30) DEF HandleItem
<1>9. CASE ChunkSent(r) BY <1>9 DEF ChunkSent
<1>10. CASE LastChunkSent(r) BY <1>10 DEF LastChunkSent
<1>11. CASE Finish(r)
  <2>1. \A x \in Requests : acq'[x] = acq[x] \/ (acq[x] = "waiting" /\ acq'[x] = "woken")
    <3>1. acq' = Woken(acq, waiters) \/ acq' = acq
      BY <1>11 DEF Finish, Unlock
    <3> QED BY <3>1, WokenOnly
  <2> QED BY <1>11, <2>1 DEF Finish, Leave, MayLeave
<1> QED
  BY <1>1, <1>2, <1>3, <1>4, <1>5, <1>6, <1>7, <1>8, <1>9, <1>10, <1>11 DEF Handler

LEMMA PlacesCancel ==
  ASSUME IInv, NEW r \in Requests, Cancel(r)
  PROVE  PlacesSound'
<1> USE DEF IInv, TypeOK, PlacesSound, Serving, Early, Goto, lockVars
<1>1. CASE CancelEarly(r)
  <2>1. CASE pc[r] = "preamble"
    BY <1>1, <2>1 DEF CancelEarly, Leave
  <2>2. CASE pc[r] \in {"acquiring", "lock_keepalive"} /\ acq[r] = "held"
    <3> DEFINE a == [acq EXCEPT ![r] = "none"]
    <3>1. a \in [Requests -> AcqStates] BY DEF AcqStates
    <3>2. acq' = Woken(a, waiters)
      BY <1>1, <2>2 DEF CancelEarly, GiveBack, Unlock
    <3>3. \A x \in Requests : acq'[x] = a[x] \/ (a[x] = "waiting" /\ acq'[x] = "woken")
      BY <3>1, <3>2, WokenFacts, ZenonT(40)
    <3> QED BY <1>1, <2>2, <3>3 DEF CancelEarly, Leave
  <2>3. CASE pc[r] \in {"acquiring", "lock_keepalive"} /\ acq[r] # "held"
    BY <1>1, <2>3 DEF CancelEarly, GiveBack, CancelAcquire, Leave
  <2> QED BY <1>1, <2>1, <2>2, <2>3 DEF CancelEarly
<1>2. CASE CancelSelecting(r)
  <2>1. \A x \in Requests : acq'[x] = acq[x] \/ (acq[x] = "waiting" /\ acq'[x] = "woken")
    <3>1. acq' = Woken(acq, waiters)
      BY <1>2 DEF CancelSelecting, Unlock
    <3> QED BY <3>1, WokenOnly
  <2> QED BY <1>2, <2>1 DEF CancelSelecting, Leave
<1>3. CASE CancelStreaming(r) BY <1>3 DEF CancelStreaming
<1>4. CASE CancelDeferred(r) BY <1>4 DEF CancelDeferred
<1> QED BY <1>1, <1>2, <1>3, <1>4 DEF Cancel

LEMMA PlacesWorker ==
  ASSUME IInv, NEW r \in Requests, OnTokens(r) \/ WorkerEnds(r) \/ GetterTakes(r)
  PROVE  PlacesSound'
<1> USE DEF IInv, TypeOK, PlacesSound, lockVars
<1>1. UNCHANGED <<acq, pc, owned>>
  BY DEF OnTokens, WorkerEnds, GetterTakes
<1>2. CASE UNCHANGED worker
  BY <1>1, <1>2
<1>3. CASE Running(r) /\ worker' = [worker EXCEPT ![r] = "over"]
  <2>1. pc[r] \notin Early
    <3>1. CASE r \in Batched BY <1>3, <3>1 DEF Running
    <3>2. CASE r \notin Batched
      <4>1. [kind |-> "generate", req |-> r] \in Elements(jobs)
        <5>1. jobs # <<>> /\ Head(jobs) = [kind |-> "generate", req |-> r]
          BY <1>3, <3>2 DEF Running
        <5> QED BY <5>1, HeadJob
      <4>2. worker[r] = "queued"
        BY <4>1 DEF JobsSound
      <4> QED BY <4>2
    <3> QED BY <3>1, <3>2
  <2> QED BY <1>1, <1>3, <2>1
<1> QED BY <1>2, <1>3 DEF OnTokens, WorkerEnds, GetterTakes, EndWorker

LEMMA PlacesStep ==
  ASSUME IInv, Next
  PROVE  PlacesSound'
<1>1. CASE SelectionEnds
  BY <1>1 DEF SelectionEnds, IInv, PlacesSound, lockVars
<1> QED BY <1>1, PlacesLock, PlacesHandler, PlacesCancel, PlacesWorker DEF Next

(***************************************************************************)
(* STATE.lock                                                              *)
(***************************************************************************)
LEMMA LockKept ==
  ASSUME LockSound, UNCHANGED lockVars
  PROVE  LockSound'
  BY DEF LockSound, WaitersSound, Holders, lockVars

(* An acquire() of a request that is neither queued nor has the lock. *)
LEMMA LockSpawned ==
  ASSUME IInv, NEW r \in Requests, acq[r] = "none",
         acq' = [acq EXCEPT ![r] = "spawned"], UNCHANGED <<locked, waiters, owned>>
  PROVE  LockSound'
<1>1. Holders' = Holders
  BY DEF Holders, IInv, TypeOK
<1>2. WaitersSound'
  BY DEF WaitersSound, IInv, LockSound, TypeOK, Queueing
<1> QED BY <1>1, <1>2 DEF LockSound, IInv, TypeOK

(* The one that has the lock gives it back. *)
LEMMA LockReleased ==
  ASSUME IInv, NEW r \in Holders, NEW a,
         a = [acq EXCEPT ![r] = IF @ = "held" THEN "none" ELSE @],
         acq' = Woken(a, waiters), ~locked', waiters' = waiters, owned' = owned \ {r}
  PROVE  LockSound'
<1>1. /\ locked /\ Holders = {r} /\ r \in Requests /\ waiters \in Seq(Requests)
      /\ acq \in [Requests -> AcqStates] /\ owned \subseteq Requests
  BY DEF IInv, LockSound, Holders, TypeOK
<1>2. a \in [Requests -> AcqStates]
  BY <1>1 DEF AcqStates
<1>3. \A x \in Requests : a[x] # "held" /\ a[x] \notin {"woken", "doomed"}
  BY <1>1 DEF Holders, IInv, LockSound, WaitersSound
<1>4. \A x \in Requests : a[x] \in Queueing <=> x \in Elements(waiters)
  BY <1>1 DEF IInv, LockSound, WaitersSound, Queueing
<1>5. \A x \in Requests :
        acq'[x] = IF waiters # <<>> /\ x = Head(waiters) /\ a[x] = "waiting" THEN "woken"
                  ELSE a[x]
  BY <1>1, <1>2, WokenFacts
<1>6. Holders' = {}
  BY <1>1, <1>3, <1>5 DEF Holders
<1>7. WaitersSound'
  BY <1>1, <1>3, <1>4, <1>5, ZenonT(40) DEF WaitersSound, Queueing, IInv, LockSound
<1> QED BY <1>1, <1>3, <1>6, <1>7 DEF LockSound, Holders

(* An acquire() takes the lock while it is free. *)
LEMMA LockTaken ==
  ASSUME IInv, NEW r \in Requests, ~locked, locked', acq' = [acq EXCEPT ![r] = "held"],
         waiters' = RemoveFirst(waiters, r), owned' = owned,
         \A x \in Requests : acq[x] \in {"woken", "doomed"} => x = r
  PROVE  LockSound'
<1>1. /\ Holders = {} /\ waiters \in Seq(Requests) /\ acq \in [Requests -> AcqStates]
      /\ Distinct(waiters) /\ owned = {}
  BY DEF IInv, LockSound, Holders, TypeOK, WaitersSound
<1>2. Distinct(waiters') /\ Elements(waiters') = Elements(waiters) \ {r}
  BY <1>1, RemoveFacts
<1>3. Holders' = {r}
  BY <1>1 DEF Holders
<1>4. WaitersSound'
  BY <1>1, <1>2 DEF WaitersSound, Queueing, IInv, LockSound
<1> QED BY <1>1, <1>3, <1>4 DEF LockSound

LEMMA LockLock ==
  ASSUME IInv, NEW r \in Requests, Lock(r)
  PROVE  LockSound'
<1>0. /\ waiters \in Seq(Requests) /\ acq \in [Requests -> AcqStates] /\ Distinct(waiters)
      /\ owned \subseteq Requests
  BY DEF IInv, TypeOK, LockSound, WaitersSound
<1>1. CASE AcquireStarts(r)
  <2>1. r \notin Elements(waiters)
    BY <1>1 DEF AcquireStarts, IInv, LockSound, WaitersSound, Queueing
  <2>2. CASE ~locked /\ \A i \in DOMAIN waiters : acq[waiters[i]] = "cancelled"
    <3>1. locked' /\ acq' = [acq EXCEPT ![r] = "held"] /\ waiters' = waiters /\ owned' = owned
      BY <1>1, <2>2 DEF AcquireStarts
    <3>2. RemoveFirst(waiters, r) = waiters
      BY <1>0, <2>1, RemoveAbsent
    <3>3. \A x \in Requests : acq[x] \notin {"woken", "doomed"}
      BY <2>2 DEF IInv, LockSound, WaitersSound, Elements, Queueing
    <3> QED BY <2>2, <3>1, <3>2, <3>3, LockTaken
  <2>3. CASE ~(~locked /\ \A i \in DOMAIN waiters : acq[waiters[i]] = "cancelled")
    <3>1. /\ locked' = locked /\ owned' = owned /\ acq[r] = "spawned"
          /\ acq' = [acq EXCEPT ![r] = "waiting"] /\ waiters' = Append(waiters, r)
      BY <1>1, <2>3 DEF AcquireStarts
    <3>2. Distinct(waiters') /\ Elements(waiters') = Elements(waiters) \cup {r}
      BY <1>0, <2>1, <3>1, AppendFacts
    <3>3. waiters # <<>> => waiters' # <<>> /\ Head(waiters') = Head(waiters)
      BY <1>0, <3>1
    <3>4. Holders' = Holders
      BY <1>0, <3>1 DEF Holders
    <3>5. WaitersSound'
      BY <1>0, <3>1, <3>2, <3>3 DEF WaitersSound, Queueing, IInv, LockSound
    <3> QED BY <1>0, <3>1, <3>4, <3>5 DEF LockSound, IInv
  <2> QED BY <2>2, <2>3
<1>2. CASE AcquireWakes(r)
  <2>1. ~locked /\ \A x \in Requests : acq[x] \in {"woken", "doomed"} => x = r
    BY <1>2 DEF AcquireWakes, IInv, LockSound, WaitersSound
  <2> QED BY <1>2, <2>1, LockTaken DEF AcquireWakes
<1>3. CASE AcquireCancelled(r)
  <2> DEFINE a == [acq EXCEPT ![r] = "none"]
             w == RemoveFirst(waiters, r)
  <2>1. /\ w \in Seq(Requests) /\ Distinct(w) /\ Elements(w) = Elements(waiters) \ {r}
        /\ waiters # <<>> /\ r # Head(waiters) => w # <<>> /\ Head(w) = Head(waiters)
    BY <1>0, RemoveFacts
  <2>2. /\ acq' = IF locked THEN a ELSE Woken(a, w)
        /\ waiters' = w /\ locked' = locked /\ owned' = owned
        /\ acq[r] \in {"cancelled", "doomed"}
    BY <1>3 DEF AcquireCancelled
  <2>3. a \in [Requests -> AcqStates]
    BY <1>0 DEF AcqStates
  <2> HIDE DEF a, w
  <2>4. \A x \in Requests :
          acq'[x] = IF ~locked /\ w # <<>> /\ x = Head(w) /\ a[x] = "waiting" THEN "woken"
                    ELSE a[x]
    BY <2>1, <2>2, <2>3, WokenFacts
  <2>5. \A x \in Requests : a[x] = IF x = r THEN "none" ELSE acq[x]
    BY <1>0 DEF a
  <2>6. Holders' = Holders
    BY <2>2, <2>4, <2>5 DEF Holders
  <2>7. \A x \in Requests : acq'[x] \in Queueing <=> x \in Elements(waiters')
    BY <2>1, <2>2, <2>4, <2>5 DEF Queueing, IInv, LockSound, WaitersSound
  <2>8. ASSUME NEW x \in Requests, acq'[x] \in {"woken", "doomed"}
        PROVE  ~locked' /\ waiters' # <<>> /\ Head(waiters') = x
    <3>1. CASE acq'[x] = a[x]
      <4>1. x # r /\ acq[x] \in {"woken", "doomed"} BY <2>5, <2>8, <3>1
      <4>2. ~locked /\ waiters # <<>> /\ Head(waiters) = x
        BY <4>1 DEF IInv, LockSound, WaitersSound
      <4> QED BY <2>1, <2>2, <4>1, <4>2
    <3>2. CASE acq'[x] # a[x]
      BY <2>2, <2>4, <3>2
    <3> QED BY <3>1, <3>2
  <2>9. WaitersSound'
    BY <2>1, <2>2, <2>7, <2>8 DEF WaitersSound
  <2> QED BY <2>2, <2>4, <2>5, <2>6, <2>9, <1>0 DEF LockSound, IInv
<1> QED BY <1>1, <1>2, <1>3 DEF Lock

LEMMA LockHandler ==
  ASSUME IInv, NEW r \in Requests, Handler(r) \/ Arrive(r) \/ Keepalive(r)
  PROVE  LockSound'
<1>1. CASE UNCHANGED lockVars
  BY <1>1, LockKept DEF IInv
<1>2. CASE Arrive(r) \/ AfterPreamble(r)
  <2>1. acq[r] = "none"
    BY <1>2 DEF Arrive, AfterPreamble, IInv, PlacesSound, TypeOK, AcqStates
  <2>2. CASE UNCHANGED acq
    BY <1>1, <1>2, <2>2 DEF Arrive, AfterPreamble, lockVars
  <2>3. CASE acq' = [acq EXCEPT ![r] = "spawned"]
    BY <1>2, <2>1, <2>3, LockSpawned DEF Arrive, AfterPreamble
  <2> QED BY <1>2, <2>2, <2>3 DEF Arrive, AfterPreamble
<1>3. CASE TakeLock(r)
  <2>1. /\ acq \in [Requests -> AcqStates] /\ acq[r] = "held" /\ owned' = owned \cup {r}
        /\ acq' = [acq EXCEPT ![r] = "none"] /\ locked' = locked /\ waiters' = waiters
    BY <1>3 DEF TakeLock, IInv, TypeOK
  <2>2. Holders' = Holders /\ r \in Holders
    BY <2>1 DEF Holders
  <2>3. WaitersSound'
    BY <2>1 DEF WaitersSound, Queueing, IInv, LockSound
  <2>4. \A x \in owned' : acq'[x] # "held"
    BY <2>1, <2>2 DEF IInv, LockSound, TypeOK
  <2> QED BY <2>1, <2>2, <2>3, <2>4 DEF LockSound, IInv
<1>4. CASE Finish(r)
  <2>1. CASE r \in owned
    <3>1. r \in Holders /\ acq = [acq EXCEPT ![r] = IF @ = "held" THEN "none" ELSE @]
      BY <2>1 DEF Holders, IInv, LockSound, TypeOK
    <3>2. /\ acq' = Woken(acq, waiters) /\ ~locked' /\ waiters' = waiters
          /\ owned' = owned \ {r}
      BY <1>4, <2>1 DEF Finish, Unlock
    <3> QED BY <3>1, <3>2, LockReleased
  <2>2. CASE r \notin owned
    BY <1>1, <1>4, <2>2 DEF Finish, lockVars
  <2> QED BY <2>1, <2>2
<1>5. CASE StartGeneration(r) \/ KeepaliveSent(r) \/ Keepalive(r)
  BY <1>1, <1>5 DEF StartGeneration, KeepaliveSent, Keepalive
<1>6. CASE Peeked(r) \/ HandleItem(r) \/ ChunkSent(r) \/ LastChunkSent(r)
  BY <1>1, <1>6 DEF Peeked, HandleItem, ChunkSent, LastChunkSent
<1> QED BY <1>2, <1>3, <1>4, <1>5, <1>6 DEF Handler

LEMMA LockCancel ==
  ASSUME IInv, NEW r \in Requests, Cancel(r)
  PROVE  LockSound'
<1>1. CASE UNCHANGED lockVars
  BY <1>1, LockKept DEF IInv
<1>2. CASE CancelEarly(r)
  <2>1. CASE pc[r] = "preamble"
    BY <1>1, <1>2, <2>1 DEF CancelEarly, lockVars
  <2>2. CASE pc[r] # "preamble" /\ acq[r] = "held"
    <3>1. /\ acq' = Woken([acq EXCEPT ![r] = "none"], waiters) /\ ~locked'
          /\ waiters' = waiters /\ owned' = owned
      BY <1>2, <2>2 DEF CancelEarly, GiveBack, Unlock
    <3>2. r \in Holders /\ r \notin owned
      BY <2>2 DEF Holders, IInv, LockSound
    <3> QED BY <2>2, <3>1, <3>2, LockReleased
  <2>3. CASE pc[r] # "preamble" /\ acq[r] # "held"
    <3>1. /\ acq' = CancelAcquire(r) /\ UNCHANGED <<locked, waiters, owned>>
          /\ acq[r] \in {"spawned", "waiting", "woken"}
      BY <1>2, <2>3 DEF CancelEarly, GiveBack, IInv, PlacesSound
    <3>2. acq \in [Requests -> AcqStates]
      BY DEF IInv, TypeOK
    <3>3. \A x \in Requests \ {r} : acq'[x] = acq[x]
      BY <3>1, <3>2 DEF CancelAcquire
    <3>4. /\ acq[r] = "spawned" => acq'[r] = "none"
          /\ acq[r] = "waiting" => acq'[r] = "cancelled"
          /\ acq[r] = "woken" => acq'[r] = "doomed"
      BY <3>1, <3>2 DEF CancelAcquire
    <3>5. Holders' = Holders
      BY <3>1, <3>3, <3>4 DEF Holders
    <3>6. WaitersSound'
      BY <3>1, <3>3, <3>4 DEF WaitersSound, Queueing, IInv, LockSound
    <3>7. \A x \in owned : acq'[x] # "held"
      BY <3>1, <3>3, <3>4 DEF IInv, LockSound, TypeOK
    <3> QED BY <3>1, <3>5, <3>6, <3>7 DEF LockSound, IInv
  <2> QED BY <2>1, <2>2, <2>3
<1>3. CASE CancelSelecting(r)
  <2>1. r \in owned
    BY <1>3 DEF CancelSelecting, IInv, PlacesSound, Serving
  <2>2. r \in Holders /\ acq = [acq EXCEPT ![r] = IF @ = "held" THEN "none" ELSE @]
    BY <2>1 DEF Holders, IInv, LockSound, TypeOK
  <2>3. /\ acq' = Woken(acq, waiters) /\ ~locked' /\ waiters' = waiters
        /\ owned' = owned \ {r}
    BY <1>3 DEF CancelSelecting, Unlock
  <2> QED BY <2>2, <2>3, LockReleased
<1>4. CASE CancelStreaming(r) \/ CancelDeferred(r)
  BY <1>1, <1>4 DEF CancelStreaming, CancelDeferred
<1> QED BY <1>2, <1>3, <1>4 DEF Cancel

LEMMA LockStep ==
  ASSUME IInv, Next
  PROVE  LockSound'
<1>1. CASE SelectionEnds
  BY <1>1, LockKept DEF SelectionEnds, IInv
<1>2. ASSUME NEW r \in Requests, OnTokens(r) \/ WorkerEnds(r) \/ GetterTakes(r)
      PROVE  LockSound'
  BY <1>2, LockKept DEF OnTokens, WorkerEnds, GetterTakes, IInv
<1> QED BY <1>1, <1>2, LockLock, LockHandler, LockCancel DEF Next

(***************************************************************************)
(* The executor's queue                                                    *)
(***************************************************************************)

(* Handlers move on, and no queued worker ends. *)
LEMMA JobsKept ==
  ASSUME IInv, UNCHANGED jobs, NEW r \in Requests,
         \A x \in Requests \ {r} : pc'[x] = pc[x] /\ worker'[x] = worker[x],
         pc'[r] \in Early \ {"selecting"} => pc[r] \in Early \ {"selecting"},
         worker'[r] = worker[r] \/ worker[r] # "queued"
  PROVE  JobsSound'
<1>1. \A j \in Elements(jobs) : j.req \in Requests
  <2>1. jobs \in Seq(Job)
    BY DEF IInv, TypeOK
  <2> QED BY <2>1, ElementsType DEF Job
<1> QED BY <1>1 DEF JobsSound, IInv

(* A new job is the last of the queue. *)
LEMMA JobAdded ==
  ASSUME IInv, NEW r \in Requests \ Batched, NEW k \in {"select", "generate"},
         jobs' = Append(jobs, [kind |-> k, req |-> r]),
         [kind |-> k, req |-> r] \notin Elements(jobs),
         pc'[r] \notin Early \ {"selecting"},
         k = "generate" => worker'[r] = "queued",
         worker'[r] = worker[r] \/ worker[r] # "queued",
         \A x \in Requests \ {r} : pc'[x] = pc[x] /\ worker'[x] = worker[x]
  PROVE  JobsSound'
<1>1. jobs \in Seq(Job) /\ [kind |-> k, req |-> r] \in Job /\ Distinct(jobs)
  BY DEF IInv, TypeOK, Job, JobsSound
<1>2. Distinct(jobs') /\ Elements(jobs') = Elements(jobs) \cup {[kind |-> k, req |-> r]}
  BY <1>1, AppendFacts
<1>3. \A j \in Elements(jobs) : j.req \in Requests
  BY <1>1, ElementsType, ZenonT(40) DEF Job
<1> QED BY <1>2, <1>3 DEF JobsSound, IInv

(* A job leaves the queue. *)
LEMMA JobLeaves ==
  ASSUME IInv, NEW r \in Requests, NEW k,
         jobs' \in Seq(Job), Distinct(jobs'),
         Elements(jobs') \subseteq Elements(jobs),
         k = "generate" => [kind |-> "generate", req |-> r] \notin Elements(jobs'),
         worker'[r] = worker[r] \/ k = "generate",
         pc'[r] \in Early \ {"selecting"} => pc[r] \in Early \ {"selecting"},
         \A x \in Requests \ {r} : pc'[x] = pc[x] /\ worker'[x] = worker[x]
  PROVE  JobsSound'
<1>1. SUFFICES ASSUME NEW j \in Elements(jobs')
      PROVE  /\ j.req \notin Batched
             /\ pc'[j.req] \notin Early \ {"selecting"}
             /\ j.kind = "generate" => worker'[j.req] = "queued"
  BY DEF JobsSound
<1>2. j \in Elements(jobs) /\ j \in Job
  BY ElementsType
<1>3. /\ j.req \notin Batched /\ pc[j.req] \notin Early \ {"selecting"}
      /\ j.kind = "generate" => worker[j.req] = "queued"
  BY <1>2 DEF IInv, JobsSound
<1>4. j.req \in Requests /\ j = [kind |-> j.kind, req |-> j.req]
  BY <1>2 DEF Job
<1>5. CASE j.req # r BY <1>3, <1>4, <1>5
<1>6. CASE j.req = r BY <1>3, <1>4, <1>6
<1> QED BY <1>5, <1>6

LEMMA JobsHandler ==
  ASSUME IInv, NEW r \in Requests, Handler(r) \/ Arrive(r) \/ Keepalive(r)
  PROVE  JobsSound'
<1> USE DEF Goto, lockVars
<1>0. pc \in [Requests -> Places] /\ jobs \in Seq(Job)
      /\ worker \in [Requests -> {"none", "queued", "running", "over"}]
  BY DEF IInv, TypeOK
<1>1. CASE TakeLock(r)
  <2>1. [kind |-> "select", req |-> r] \notin Elements(jobs) /\ r \notin Batched
    BY <1>1 DEF TakeLock, IInv, JobsSound, PlacesSound, Early
  <2> QED BY <1>0, <1>1, <2>1, JobAdded DEF TakeLock
<1>2. CASE StartGeneration(r)
  <2>1. worker[r] = "none" /\ r \notin Batched
    BY <1>2 DEF StartGeneration, IInv, PlacesSound, Early
  <2>2. [kind |-> "generate", req |-> r] \notin Elements(jobs)
    BY <2>1 DEF IInv, JobsSound
  <2>3. pc'[r] \notin Early /\ worker'[r] = "queued"
        /\ jobs' = Append(jobs, [kind |-> "generate", req |-> r])
        /\ \A x \in Requests \ {r} : pc'[x] = pc[x] /\ worker'[x] = worker[x]
    BY <1>0, <1>2 DEF StartGeneration, Early
  <2> QED BY <2>1, <2>2, <2>3, JobAdded
<1>3. CASE Arrive(r) \/ Keepalive(r) \/ AfterPreamble(r) \/ KeepaliveSent(r)
  <2>1. UNCHANGED jobs /\ (worker'[r] = worker[r] \/ worker[r] # "queued")
        /\ \A x \in Requests \ {r} : pc'[x] = pc[x] /\ worker'[x] = worker[x]
    BY <1>0, <1>3
    DEF Arrive, Keepalive, AfterPreamble, KeepaliveSent, IInv, PlacesSound, Early
  <2>2. pc'[r] \in Early \ {"selecting"} => pc[r] \in Early \ {"selecting"}
    BY <1>0, <1>3 DEF Arrive, Keepalive, AfterPreamble, KeepaliveSent, Early
  <2> QED BY <2>1, <2>2, JobsKept
<1>4. CASE Peeked(r) \/ HandleItem(r) \/ ChunkSent(r) \/ LastChunkSent(r) \/ Finish(r)
  <2>1. UNCHANGED <<jobs, worker>> /\ pc'[r] \notin Early
        /\ \A x \in Requests \ {r} : pc'[x] = pc[x]
    BY <1>0, <1>4
    DEF Peeked, HandleItem, ChunkSent, LastChunkSent, Finish, Leave, Early
  <2> QED BY <2>1, JobsKept
<1> QED BY <1>1, <1>2, <1>3, <1>4 DEF Handler

LEMMA JobsCancel ==
  ASSUME IInv, NEW r \in Requests, Cancel(r)
  PROVE  JobsSound'
<1> USE DEF Goto, lockVars
<1>0. /\ pc \in [Requests -> Places] /\ jobs \in Seq(Job) /\ UNCHANGED worker
      /\ Distinct(jobs)
  BY DEF IInv, TypeOK, JobsSound, Cancel, CancelEarly, CancelSelecting, CancelStreaming,
         CancelDeferred
<1>1. CASE CancelSelecting(r)
  <2> DEFINE job == [kind |-> "select", req |-> r]
  <2>1. jobs' = RemoveFirst(jobs, job) \/ jobs' = jobs
    BY <1>1 DEF CancelSelecting
  <2>2. /\ jobs' \in Seq(Job) /\ Distinct(jobs')
        /\ Elements(jobs') \subseteq Elements(jobs)
    BY <1>0, <2>1, RemoveFacts
  <2>3. pc'[r] = "over" /\ \A x \in Requests \ {r} : pc'[x] = pc[x]
    BY <1>0, <1>1 DEF CancelSelecting, Leave
  <2>4. pc'[r] \notin Early
    BY <2>3 DEF Early
  <2> QED BY <1>0, <2>2, <2>3, <2>4, JobLeaves
<1>2. CASE CancelEarly(r) \/ CancelStreaming(r) \/ CancelDeferred(r)
  <2>1. UNCHANGED jobs /\ (pc'[r] \in Early => pc'[r] = pc[r])
        /\ \A x \in Requests \ {r} : pc'[x] = pc[x]
    BY <1>0, <1>2 DEF CancelEarly, CancelStreaming, CancelDeferred, Leave, Early
  <2> QED BY <1>0, <2>1, JobsKept
<1> QED BY <1>1, <1>2 DEF Cancel

LEMMA JobsWorker ==
  ASSUME IInv, NEW r \in Requests, OnTokens(r) \/ WorkerEnds(r)
  PROVE  JobsSound'
<1>0. /\ worker \in [Requests -> {"none", "queued", "running", "over"}] /\ jobs \in Seq(Job)
      /\ UNCHANGED pc /\ Running(r) /\ Distinct(jobs)
  BY DEF IInv, TypeOK, JobsSound, OnTokens, WorkerEnds
<1>1. CASE UNCHANGED <<worker, jobs>>
  BY <1>0, <1>1, JobsKept
<1>2. CASE EndWorker(r) /\ r \in Batched
  <2>1. worker[r] = "running" /\ UNCHANGED jobs
        /\ \A x \in Requests \ {r} : worker'[x] = worker[x]
    BY <1>0, <1>2 DEF Running, EndWorker
  <2> QED BY <1>0, <2>1, JobsKept
<1>3. CASE EndWorker(r) /\ r \notin Batched
  <2>1. /\ jobs # <<>> /\ Head(jobs) = [kind |-> "generate", req |-> r] /\ jobs' = Tail(jobs)
        /\ \A x \in Requests \ {r} : worker'[x] = worker[x]
    BY <1>0, <1>3 DEF Running, EndWorker
  <2>2. /\ jobs' \in Seq(Job) /\ Distinct(jobs') /\ Elements(jobs') \subseteq Elements(jobs)
        /\ [kind |-> "generate", req |-> r] \notin Elements(jobs')
    BY <1>0, <2>1, ListParts, TailFacts
  <2> QED BY <1>0, <2>1, <2>2, JobLeaves
<1> QED BY <1>1, <1>2, <1>3 DEF OnTokens, WorkerEnds

LEMMA JobsStep ==
  ASSUME IInv, Next
  PROVE  JobsSound'
<1>1. CASE SelectionEnds
  <2>1. jobs # <<>> /\ jobs' = Tail(jobs) /\ UNCHANGED <<pc, worker>>
    BY <1>1 DEF SelectionEnds
  <2>2. jobs \in Seq(Job) /\ Distinct(jobs)
    BY DEF IInv, TypeOK, JobsSound
  <2>3. Distinct(jobs') /\ Elements(jobs') \subseteq Elements(jobs)
    BY <2>1, <2>2, TailFacts
  <2> QED BY <2>1, <2>3 DEF JobsSound, IInv
<1>2. ASSUME NEW r \in Requests, Lock(r) \/ GetterTakes(r)
      PROVE  JobsSound'
  <2>1. UNCHANGED <<jobs, pc, worker>>
    BY <1>2 DEF Lock, AcquireStarts, AcquireWakes, AcquireCancelled, GetterTakes
  <2> QED BY <2>1, JobsKept
<1> QED BY <1>1, <1>2, JobsHandler, JobsCancel, JobsWorker DEF Next

(***************************************************************************)
(* The queue slots                                                         *)
(***************************************************************************)
LEMMA SlotTaken ==
  ASSUME IInv, NEW r \in Requests, r \notin InFlight, depth' = depth + 1,
         InFlight' = InFlight \cup {r}
  PROVE  SlotsSound'
  BY FS_AddElement, FS_CardinalityType DEF IInv, SlotsSound, SlotsAccounted

LEMMA SlotGivenBack ==
  ASSUME IInv, NEW r \in Requests, pc[r] \in Places \ {"new", "refused", "over"}, Leave(r)
  PROVE  SlotsSound'
<1>1. /\ r \in InFlight /\ pc \in [Requests -> Places] /\ IsFiniteSet(InFlight)
      /\ depth = Cardinality(InFlight)
  BY DEF InFlight, IInv, TypeOK, SlotsSound, SlotsAccounted
<1>2. InFlight' = InFlight \ {r}
  BY <1>1 DEF InFlight, Leave, Goto
<1>3. IsFiniteSet(InFlight') /\ Cardinality(InFlight') = Cardinality(InFlight) - 1
  BY <1>1, <1>2, FS_RemoveElement
<1>4. Cardinality(InFlight) \in Nat /\ Cardinality(InFlight') \in Nat
  BY <1>1, <1>3, FS_CardinalityType
<1>5. depth' = depth - 1
  BY <1>1, <1>3, <1>4 DEF Leave, ReleaseSlot
<1> QED BY <1>1, <1>3, <1>5 DEF SlotsSound, SlotsAccounted

LEMMA SlotKept ==
  ASSUME IInv, UNCHANGED depth, InFlight' = InFlight
  PROVE  SlotsSound'
  BY DEF IInv, SlotsSound, SlotsAccounted

LEMMA SlotsStep ==
  ASSUME IInv, Next
  PROVE  SlotsSound'
<1> USE DEF Goto, lockVars, streamVars
<1>0. pc \in [Requests -> Places]
  BY DEF IInv, TypeOK
<1>1. ASSUME NEW r \in Requests, Arrive(r) PROVE SlotsSound'
  <2>1. CASE QueueFull
    <3>1. UNCHANGED depth /\ InFlight' = InFlight
      BY <1>0, <1>1, <2>1 DEF Arrive, InFlight
    <3> QED BY <3>1, SlotKept
  <2>2. CASE ~QueueFull
    <3>1. r \notin InFlight /\ depth' = depth + 1 /\ InFlight' = InFlight \cup {r}
      BY <1>0, <1>1, <2>2 DEF Arrive, InFlight
    <3> QED BY <3>1, SlotTaken
  <2> QED BY <2>1, <2>2
<1>2. ASSUME NEW r \in Requests, Finish(r) \/ CancelEarly(r) \/ CancelSelecting(r)
      PROVE  SlotsSound'
  BY <1>2, SlotGivenBack DEF Finish, CancelEarly, CancelSelecting, Places
<1>3. ASSUME NEW r \in Requests,
             (Handler(r) /\ ~Finish(r)) \/ Keepalive(r) \/ CancelStreaming(r)
      PROVE  UNCHANGED depth /\ InFlight' = InFlight
  <2>1. UNCHANGED depth
    BY <1>3
    DEF Handler, AfterPreamble, KeepaliveSent, TakeLock, StartGeneration, Peeked, HandleItem,
        ChunkSent, LastChunkSent, Keepalive, CancelStreaming
  <2>2. pc' = pc \/ \E l \in Places \ {"new", "refused", "over"} :
          pc[r] \in Places \ {"new", "refused", "over"} /\ pc' = [pc EXCEPT ![r] = l]
    BY <1>3
    DEF Handler, AfterPreamble, KeepaliveSent, TakeLock, StartGeneration, Peeked, HandleItem,
        ChunkSent, LastChunkSent, Keepalive, CancelStreaming, Places
  <2> QED BY <1>0, <2>1, <2>2 DEF InFlight
<1>4. ASSUME NEW r \in Requests,
             Lock(r) \/ CancelDeferred(r) \/ OnTokens(r) \/ WorkerEnds(r) \/ GetterTakes(r)
      PROVE  UNCHANGED <<depth, pc>>
  BY <1>4
  DEF Lock, AcquireStarts, AcquireWakes, AcquireCancelled, CancelDeferred, OnTokens,
      WorkerEnds, GetterTakes
<1>5. CASE SelectionEnds
  BY <1>5, SlotKept DEF SelectionEnds, InFlight
<1>6. CASE UNCHANGED <<depth, pc>>
  BY <1>6, SlotKept DEF InFlight
<1> QED BY <1>1, <1>2, <1>3, <1>4, <1>5, <1>6, SlotKept DEF Next, Cancel

(***************************************************************************)
(* What a stream has sent                                                  *)
(***************************************************************************)
LEMMA StreamTypes ==
  ASSUME TypeOK, NEW r \in Streaming
  PROVE  /\ r \in Requests
         /\ q[r] \in Seq(Events) /\ emitted[r] \in Seq(Events) /\ seen[r] \in Seq(Events)
         /\ getter[r] \in Events \cup {"none", "blocked"} /\ cancels[r] \in Nat
         /\ Len(q[r]) \in Nat /\ Len(emitted[r]) \in Nat /\ Len(seen[r]) \in Nat
         /\ DOMAIN q[r] = 1..Len(q[r]) /\ DOMAIN emitted[r] = 1..Len(emitted[r])
         /\ DOMAIN seen[r] = 1..Len(seen[r])
         /\ pc[r] \in Places
<1>1. /\ r \in Requests
      /\ q[r] \in Seq(Events) /\ emitted[r] \in Seq(Events) /\ seen[r] \in Seq(Events)
      /\ getter[r] \in Events \cup {"none", "blocked"} /\ cancels[r] \in Nat
      /\ pc[r] \in Places
  BY RequestAssumption DEF TypeOK
<1> QED BY <1>1, LenProperties

(* The steps of the others do not touch a stream. *)
LEMMA StreamKept ==
  ASSUME NEW x, Flow(x), Phase(x), Ended(x),
         q'[x] = q[x], emitted'[x] = emitted[x], seen'[x] = seen[x],
         getter'[x] = getter[x], cancels'[x] = cancels[x], worker'[x] = worker[x],
         pc'[x] = pc[x], x \in stopped' <=> x \in stopped
  PROVE  Flow(x)' /\ Phase(x)' /\ Ended(x)'
  BY DEF Flow, Phase, Ended, Sent, Taken

(* A stream whose items stay where they are. *)
LEMMA FlowKept ==
  ASSUME NEW x, Flow(x), Ended(x), UNCHANGED <<q, emitted, seen, stopped>>,
         getter'[x] = getter[x] \/ (~Taken(x) /\ ~Taken(x)'),
         cancels[x] \in Nat, cancels'[x] = cancels[x] \/ cancels'[x] = cancels[x] + 1,
         worker'[x] = worker[x] \/ worker[x] # "over"
  PROVE  Flow(x)' /\ Ended(x)'
<1>1. (Taken(x)' <=> Taken(x)) /\ (Taken(x) => getter'[x] = getter[x])
  BY DEF Taken
<1>2. Sent(x)' = Sent(x) /\ (cancels'[x] = 0 => cancels[x] = 0)
  BY DEF Sent
<1>3. Flow(x)'
  BY <1>1, <1>2 DEF Flow
<1>4. Ended(x)'
  BY DEF Ended
<1> QED BY <1>3, <1>4

LEMMA Difference ==
  \A m, n \in Nat : m - n \in Int /\ m - n <= m /\ (m - n = m => n = 0)
  OBVIOUS

LEMMA StreamHandler ==
  ASSUME IInv, NEW r \in Streaming, Handler(r) \/ Arrive(r) \/ Keepalive(r)
  PROVE  Flow(r)' /\ Phase(r)' /\ Ended(r)'
<1> USE DEF Goto, lockVars, streamVars
<1>0. /\ Flow(r) /\ Phase(r) /\ Ended(r) /\ TypeOK /\ r \in Requests
      /\ pc \in [Requests -> Places] /\ getter \in [Requests -> Events \cup {"none", "blocked"}]
      /\ worker \in [Requests -> {"none", "queued", "running", "over"}]
      /\ q \in [Requests -> Seq(Events)] /\ seen \in [Requests -> Seq(Events)]
      /\ cancels[r] \in Nat
  BY StreamTypes DEF IInv, StreamSound, TypeOK
<1>1. CASE Arrive(r) \/ Keepalive(r) \/ AfterPreamble(r) \/ KeepaliveSent(r) \/ TakeLock(r)
  <2>1. /\ UNCHANGED <<q, emitted, seen, stopped, cancels>>
        /\ getter'[r] = getter[r] \/ (~Taken(r) /\ ~Taken(r)')
        /\ worker'[r] = worker[r] \/ worker[r] # "over"
    <3>1. CASE AfterPreamble(r)
      BY <1>0, <3>1 DEF AfterPreamble, Phase, Early, Taken
    <3>2. CASE Arrive(r)
      <4>1. UNCHANGED <<q, emitted, seen, stopped, cancels, getter>>
        BY <3>2 DEF Arrive
      <4>2. worker[r] = "none"
        BY <1>0, <3>2 DEF Arrive, Phase, Early
      <4> QED BY <4>1, <4>2
    <3>3. CASE Keepalive(r) \/ KeepaliveSent(r) \/ TakeLock(r)
      <4>1. UNCHANGED <<q, emitted, seen, stopped, cancels, getter, worker>>
        BY <3>3 DEF Keepalive, KeepaliveSent, TakeLock
      <4> QED BY <4>1
    <3> QED BY <1>1, <3>1, <3>2, <3>3
  <2>2. Flow(r)' /\ Ended(r)'
    BY <1>0, <2>1, FlowKept
  <2>3. Phase(r)'
    BY <1>0, <1>1
    DEF Arrive, Keepalive, AfterPreamble, KeepaliveSent, TakeLock, Phase, Early
  <2> QED BY <2>2, <2>3
<1>2. CASE StartGeneration(r)
  <2>1. /\ UNCHANGED <<q, emitted, seen, stopped, cancels>>
        /\ getter[r] = "none" /\ getter'[r] = "blocked" /\ worker[r] = "none"
    BY <1>0, <1>2 DEF StartGeneration, Phase, Early
  <2>2. Flow(r)' /\ Ended(r)'
    BY <1>0, <2>1, FlowKept DEF Taken
  <2>3. Phase(r)'
    BY <1>0, <1>2 DEF StartGeneration, Phase, Early
  <2> QED BY <2>2, <2>3
<1>3. CASE Peeked(r)
  <2>1. /\ Taken(r) /\ pc[r] = "peeking" /\ pc'[r] = "reading" /\ getter'[r] = "blocked"
        /\ q'[r] = <<getter[r]>> \o q[r]
        /\ UNCHANGED <<worker, cancel, emitted, seen, stopped, cancels>>
    BY <1>0, <1>3 DEF Peeked, RequeueFront
  <2>2. /\ q[r] \in Seq(Events) /\ getter[r] \in Events
        /\ Len(q[r]) \in Nat /\ Len(emitted[r]) \in Nat /\ Len(seen[r]) \in Nat
    BY <1>0, <2>1, StreamTypes DEF Taken
  <2>3. /\ Len(q'[r]) = Len(q[r]) + 1 /\ q'[r][1] = getter[r]
        /\ \A i \in 2..(Len(q[r]) + 1) : q'[r][i] = q[r][i - 1]
    BY <2>1, <2>2
  <2>4. Sent(r)' = Sent(r) - 1 /\ ~Taken(r)' /\ Sent(r) \in Int
    <3>1. Sent(r) = Len(emitted[r]) - Len(q[r]) /\ Sent(r)' = Len(emitted[r]) - Len(q'[r])
      BY <2>1 DEF Sent
    <3>2. Sent(r)' = Sent(r) - 1 /\ Sent(r) \in Int
      BY <2>2, <2>3, <3>1
    <3> QED BY <2>1, <3>2 DEF Taken
  <2>5. Len(q'[r]) <= Len(emitted'[r])
    BY <1>0, <2>1, <2>2, <2>3 DEF Flow, Sent
  <2>6. ASSUME NEW i \in 1..Len(q'[r]) PROVE q'[r][i] = emitted'[r][Sent(r)' + i]
    <3>1. CASE i = 1
      <4>1. Sent(r) = Sent(r)' + i
        BY <2>4, <3>1
      <4> QED BY <1>0, <2>1, <2>3, <3>1, <4>1 DEF Flow
    <3>2. CASE i # 1
      <4>1. i \in 2..(Len(q[r]) + 1) /\ i - 1 \in 1..Len(q[r])
        BY <2>2, <2>3, <3>2
      <4>2. Sent(r) + (i - 1) = Sent(r)' + i
        BY <2>4
      <4>3. q[r][i - 1] = emitted[r][Sent(r) + (i - 1)]
        BY <1>0, <4>1 DEF Flow
      <4> QED BY <2>1, <2>3, <4>1, <4>2, <4>3
    <3> QED BY <3>1, <3>2
  <2>7. Flow(r)'
    BY <1>0, <2>1, <2>4, <2>5, <2>6 DEF Flow
  <2> QED BY <1>0, <2>1, <2>7 DEF Phase, Ended, Early
<1>4. CASE HandleItem(r)
  <2>0. /\ Taken(r) /\ pc[r] = "reading" /\ cancels[r] = 0 /\ getter[r] \in Events
        /\ UNCHANGED <<worker, q, emitted, cancels>>
        /\ seen[r] \in Seq(Events) /\ emitted[r] \in Seq(Events)
        /\ Len(q[r]) \in Nat /\ Len(emitted[r]) \in Nat /\ Len(seen[r]) \in Nat
    BY <1>0, <1>4, StreamTypes DEF HandleItem, Phase, Taken
  <2>1. CASE UNCHANGED <<pc, seen, stopped>> /\ r \in stopped /\ getter'[r] = "blocked"
    BY <1>0, <2>0, <2>1 DEF Flow, Phase, Ended, Sent, Taken, Early
  <2>2. ASSUME seen'[r] = Append(seen[r], getter[r]), getter'[r] = "none",
               stopped \subseteq stopped'
        PROVE  /\ Flow(r)'
               /\ Len(seen'[r]) = Len(seen[r]) + 1 /\ seen'[r] # <<>>
               /\ Last(seen'[r]) = getter[r]
    <3>1. /\ Len(seen'[r]) = Len(seen[r]) + 1 /\ seen'[r][Len(seen[r]) + 1] = getter[r]
          /\ \A i \in 1..Len(seen[r]) : seen'[r][i] = seen[r][i]
          /\ seen'[r] # <<>>
      BY <2>0, <2>2, AppendFacts
    <3>2. /\ ~Taken(r)' /\ Sent(r)' = Sent(r) /\ emitted'[r] = emitted[r]
          /\ Sent(r) \in Int /\ Sent(r) <= Len(emitted[r])
      <4>1. ~Taken(r)' BY <2>2 DEF Taken
      <4>2. Sent(r)' = Sent(r) /\ emitted'[r] = emitted[r] BY <2>0 DEF Sent
      <4>3. Sent(r) \in Int /\ Sent(r) <= Len(emitted[r])
        <5>1. Len(q[r]) \in Nat /\ Len(emitted[r]) \in Nat BY <2>0
        <5> QED BY <5>1, Difference, Zenon DEF Sent
      <4> QED BY <4>1, <4>2, <4>3
    <3>3. ASSUME r \notin stopped'
          PROVE  /\ Len(seen'[r]) = Sent(r)' /\ Len(seen'[r]) <= Len(emitted'[r])
                 /\ \A i \in 1..Len(seen'[r]) : seen'[r][i] = emitted'[r][i]
      <4>1. r \notin stopped BY <2>2, <3>3
      <4>2. Len(seen[r]) = Sent(r) - 1
        BY <1>0, <2>0, <4>1 DEF Flow
      <4>3. Len(seen'[r]) = Sent(r)' /\ Len(seen'[r]) <= Len(emitted'[r])
        BY <2>0, <3>1, <3>2, <4>2
      <4>4. seen'[r][Sent(r)] = emitted[r][Sent(r)]
        <5>1. Sent(r) = Len(seen[r]) + 1
          BY <2>0, <3>2, <4>2
        <5> QED BY <1>0, <2>0, <3>1, <5>1 DEF Flow
      <4>5. \A i \in 1..Len(seen[r]) : seen'[r][i] = emitted[r][i]
        BY <1>0, <3>1, <4>1 DEF Flow
      <4>6. \A i \in 1..Len(seen'[r]) : i \in 1..Len(seen[r]) \/ i = Sent(r)
        BY <2>0, <3>1, <3>2, <4>2
      <4> QED BY <3>2, <4>3, <4>4, <4>5, <4>6
    <3>4. Flow(r)'
      BY <1>0, <2>0, <3>2, <3>3 DEF Flow
    <3> QED BY <2>0, <3>1, <3>4 DEF Last
  <2>3. CASE seen' = [seen EXCEPT ![r] = Append(@, "delta")] /\ getter[r] = "delta"
             /\ getter' = [getter EXCEPT ![r] = "none"] /\ pc' = [pc EXCEPT ![r] = "sending"]
             /\ stopped \subseteq stopped'
    <3>1. Flow(r)'
      BY <1>0, <2>2, <2>3
    <3> QED BY <1>0, <2>0, <2>3, <3>1 DEF Phase, Ended, Early
  <2>4. CASE seen' = [seen EXCEPT ![r] = Append(@, getter[r])] /\ getter[r] \in Terminal
             /\ getter' = [getter EXCEPT ![r] = "none"] /\ pc' = [pc EXCEPT ![r] = "finishing"]
             /\ UNCHANGED stopped
    <3>1. Flow(r)' /\ seen'[r] # <<>> /\ Last(seen'[r]) = getter[r]
      BY <1>0, <2>2, <2>4
    <3>2. Sent(r) \in 1..Len(emitted[r]) /\ getter[r] = emitted[r][Sent(r)]
      BY <1>0, <2>0 DEF Flow, Sent
    <3>3. Sent(r) = Len(emitted[r])
      BY <1>0, <2>0, <2>4, <3>2 DEF Ended
    <3>4. Len(q[r]) = 0 /\ emitted[r] # <<>>
      <4>1. Len(q[r]) \in Nat /\ Len(emitted[r]) \in Nat BY <2>0
      <4>2. Len(emitted[r]) - Len(q[r]) = Len(emitted[r]) BY <3>3 DEF Sent
      <4>3. Len(q[r]) = 0 BY <4>1, <4>2, Difference, Zenon
      <4>4. emitted[r] # <<>>
        <5>1. Len(emitted[r]) \in 1..Len(emitted[r]) BY <3>2, <3>3
        <5>2. Len(emitted[r]) # 0 BY <4>1, <5>1
        <5> QED BY <5>2
      <4> QED BY <4>3, <4>4
    <3>5. q[r] = <<>>
      BY <1>0, <3>4
    <3>6. getter'[r] = "none" /\ pc'[r] = "finishing" /\ cancels'[r] = 0
      BY <1>0, <2>0, <2>4
    <3>7. Phase(r)'
      BY <2>0, <2>4, <3>1, <3>2, <3>3, <3>4, <3>5, <3>6 DEF Phase, Last, Early
    <3> QED BY <1>0, <2>0, <3>1, <3>7 DEF Ended
  <2> QED
    BY <1>0, <1>4, <2>1, <2>3, <2>4 DEF HandleItem
<1>5. CASE ChunkSent(r)
  <2>1. /\ UNCHANGED <<q, emitted, seen, stopped, cancels, worker>>
        /\ getter[r] = "none" /\ getter'[r] = "blocked"
    BY <1>0, <1>5 DEF ChunkSent, Phase
  <2>2. Flow(r)' /\ Ended(r)'
    BY <1>0, <2>1, FlowKept DEF Taken
  <2>3. Phase(r)'
    BY <1>0, <1>5 DEF ChunkSent, Phase, Early
  <2> QED BY <2>2, <2>3
<1>6. CASE LastChunkSent(r) \/ Finish(r)
  <2>1. UNCHANGED <<q, emitted, seen, stopped, cancels, worker, getter>>
    BY <1>6 DEF LastChunkSent, Finish
  <2>2. Flow(r)' /\ Ended(r)'
    BY <1>0, <2>1 DEF Flow, Ended, Sent, Taken
  <2>3. Phase(r)'
    BY <1>0, <1>6, <2>1 DEF LastChunkSent, Finish, Leave, Phase, Early
  <2> QED BY <2>2, <2>3
<1> QED BY <1>1, <1>2, <1>3, <1>4, <1>5, <1>6 DEF Handler

LEMMA StreamCancel ==
  ASSUME IInv, NEW r \in Streaming, Cancel(r)
  PROVE  Flow(r)' /\ Phase(r)' /\ Ended(r)'
<1>1. /\ Flow(r) /\ Phase(r) /\ Ended(r) /\ r \in Requests
      /\ pc \in [Requests -> Places] /\ cancels \in [Requests -> Nat]
  BY StreamTypes DEF IInv, StreamSound, TypeOK
<1>2. /\ UNCHANGED <<q, emitted, seen, stopped, getter, worker>>
      /\ cancels'[r] = cancels[r] + 1 /\ pc'[r] \in {"closing", "over", "running"}
      /\ pc'[r] = "running" => pc[r] = "running"
  BY <1>1
  DEF Cancel, CancelEarly, CancelSelecting, CancelStreaming, CancelDeferred, Cancelled,
      Leave, Goto, lockVars, streamVars
<1>3. cancels[r] \in Nat /\ cancels'[r] # 0
  BY <1>1, <1>2
<1>4. Flow(r)' /\ Ended(r)'
  BY <1>1, <1>2, <1>3, FlowKept
<1>5. Phase(r)'
  BY <1>1, <1>2, <1>3 DEF Phase, Early
<1> QED BY <1>4, <1>5

LEMMA StreamGetter ==
  ASSUME IInv, NEW r \in Streaming, GetterTakes(r)
  PROVE  Flow(r)' /\ Phase(r)' /\ Ended(r)'
<1>1. /\ Flow(r) /\ Phase(r) /\ Ended(r) /\ r \in Requests /\ TypeOK
      /\ q \in [Requests -> Seq(Events)]
      /\ getter \in [Requests -> Events \cup {"none", "blocked"}]
  BY StreamTypes DEF IInv, StreamSound, TypeOK
<1>2. /\ getter[r] = "blocked" /\ q[r] # <<>> /\ q'[r] = Tail(q[r])
      /\ getter'[r] = Head(q[r])
      /\ UNCHANGED <<pc, worker, emitted, seen, stopped, cancels>>
  BY <1>1 DEF GetterTakes, streamVars, lockVars
<1>3. /\ q[r] \in Seq(Events) /\ Len(emitted[r]) \in Nat /\ Len(seen[r]) \in Nat
      /\ Len(q[r]) \in Nat \ {0} /\ Len(q'[r]) = Len(q[r]) - 1
      /\ Head(q[r]) \in Events /\ Head(q[r]) = q[r][1]
      /\ \A i \in 1..(Len(q[r]) - 1) : q'[r][i] = q[r][i + 1]
  BY <1>1, <1>2, StreamTypes, ListParts, TailLength
<1>4. Taken(r)' /\ ~Taken(r)
  BY <1>2, <1>3 DEF Taken, Events, Terminal
<1>5. /\ Len(q[r]) <= Len(emitted[r])
      /\ \A i \in 1..Len(q[r]) : q[r][i] = emitted[r][Sent(r) + i]
  BY <1>1 DEF Flow
<1>6. Sent(r) \in Nat /\ Sent(r)' = Sent(r) + 1
  <2>1. Sent(r) = Len(emitted[r]) - Len(q[r]) /\ Sent(r)' = Len(emitted[r]) - Len(q'[r])
    BY <1>2 DEF Sent
  <2>2. \A m, n \in Nat : n # 0 /\ n <= m => m - n \in Nat /\ m - (n - 1) = (m - n) + 1
    OBVIOUS
  <2> QED BY <1>3, <1>5, <2>1, <2>2
<1>7. \A i \in 1..Len(q'[r]) : q'[r][i] = emitted'[r][Sent(r)' + i]
  <2>1. SUFFICES ASSUME NEW i \in 1..Len(q'[r])
                 PROVE  q'[r][i] = emitted'[r][Sent(r)' + i]
    OBVIOUS
  <2>2. i \in 1..(Len(q[r]) - 1) /\ i + 1 \in 1..Len(q[r])
    BY <1>3, <2>1
  <2>3. Sent(r) + (i + 1) = Sent(r)' + i
    BY <1>6, <2>2
  <2> QED BY <1>2, <1>3, <1>5, <2>2, <2>3
<1>8. getter'[r] = emitted'[r][Sent(r)']
  BY <1>2, <1>3, <1>5, <1>6
<1>9. r \notin stopped' =>
        /\ Len(seen'[r]) <= Len(emitted'[r])
        /\ \A i \in 1..Len(seen'[r]) : seen'[r][i] = emitted'[r][i]
        /\ cancels'[r] = 0 => Len(seen'[r]) = Sent(r)' - 1
  BY <1>1, <1>2, <1>4, <1>6 DEF Flow
<1>10. Len(q'[r]) <= Len(emitted'[r]) /\ Sent(r)' > 0
  BY <1>2, <1>3, <1>5, <1>6
<1>11. Flow(r)'
  BY <1>4, <1>7, <1>8, <1>9, <1>10 DEF Flow
<1> QED BY <1>1, <1>2, <1>11 DEF Phase, Ended

(* A worker that still runs has not said how it ended. *)
LEMMA RunningUnended ==
  ASSUME IInv, NEW r \in Streaming, Running(r)
  PROVE  /\ worker[r] \in {"queued", "running"}
         /\ \A i \in DOMAIN emitted[r] : emitted[r][i] \notin Terminal
         /\ pc[r] \notin Early \cup {"refused", "running"}
         /\ ~(pc[r] \in {"finishing", "closing", "over"} /\ cancels[r] = 0)
<1>1. /\ Flow(r) /\ Phase(r) /\ Ended(r) /\ r \in Requests /\ TypeOK
  BY StreamTypes DEF IInv, StreamSound
<1>2. worker[r] \in {"queued", "running"}
  <2>1. CASE r \in Batched BY <2>1 DEF Running
  <2>2. CASE r \notin Batched
    <3>1. jobs # <<>> /\ Head(jobs) = [kind |-> "generate", req |-> r]
      BY <2>2 DEF Running
    <3>2. Head(jobs) \in Elements(jobs)
      BY <1>1, <3>1, ListParts DEF TypeOK, Elements
    <3> QED BY <3>1, <3>2 DEF IInv, JobsSound
  <2> QED BY <2>1, <2>2
<1>3. \A i \in DOMAIN emitted[r] : emitted[r][i] \notin Terminal
  BY <1>1, <1>2 DEF Ended
<1>4. emitted[r] # <<>> => Last(emitted[r]) \notin Terminal
  <2>1. ASSUME emitted[r] # <<>> PROVE Len(emitted[r]) \in DOMAIN emitted[r]
    BY <1>1, <2>1, StreamTypes
  <2> QED BY <1>3, <2>1 DEF Last
<1> QED BY <1>1, <1>2, <1>3, <1>4 DEF Phase

LEMMA StreamPut ==
  ASSUME IInv, NEW r \in Streaming, NEW e \in Events, Running(r), Put(r, e),
         UNCHANGED <<getter, seen, stopped, cancels, pc>>,
         e \in Terminal => worker'[r] = "over"
  PROVE  Flow(r)' /\ Phase(r)' /\ Ended(r)'
<1>1. /\ Flow(r) /\ Phase(r) /\ Ended(r) /\ r \in Requests
      /\ q[r] \in Seq(Events) /\ emitted[r] \in Seq(Events)
      /\ Len(q[r]) \in Nat /\ Len(emitted[r]) \in Nat /\ Len(seen[r]) \in Nat
      /\ getter[r] \in Events \cup {"none", "blocked"}
      /\ q \in [Requests -> Seq(Events)] /\ emitted \in [Requests -> Seq(Events)]
  BY StreamTypes DEF IInv, StreamSound, TypeOK
<1>2. q'[r] = Append(q[r], e) /\ emitted'[r] = Append(emitted[r], e)
  BY <1>1 DEF Put
<1>3. /\ Len(q'[r]) = Len(q[r]) + 1 /\ q'[r][Len(q[r]) + 1] = e
      /\ \A i \in 1..Len(q[r]) : q'[r][i] = q[r][i]
      /\ Len(emitted'[r]) = Len(emitted[r]) + 1 /\ emitted'[r][Len(emitted[r]) + 1] = e
      /\ \A i \in 1..Len(emitted[r]) : emitted'[r][i] = emitted[r][i]
      /\ DOMAIN emitted'[r] = 1..(Len(emitted[r]) + 1) /\ DOMAIN emitted[r] = 1..Len(emitted[r])
  BY <1>1, <1>2, AppendFacts
<1>4. /\ Len(q[r]) <= Len(emitted[r])
      /\ \A i \in 1..Len(q[r]) : q[r][i] = emitted[r][Sent(r) + i]
  BY <1>1 DEF Flow
<1>5. /\ Sent(r)' = Sent(r) /\ Sent(r) \in 0..Len(emitted[r])
      /\ Sent(r) + (Len(q[r]) + 1) = Len(emitted[r]) + 1
  <2>1. Sent(r) = Len(emitted[r]) - Len(q[r]) /\ Sent(r)' = Len(emitted'[r]) - Len(q'[r])
    BY DEF Sent
  <2>2. \A m, n \in Nat : n <= m => /\ (m + 1) - (n + 1) = m - n /\ m - n \in 0..m
                                    /\ (m - n) + (n + 1) = m + 1
    OBVIOUS
  <2> QED BY <1>1, <1>3, <1>4, <2>1, <2>2
<1>6. \A i \in 1..Len(q'[r]) : q'[r][i] = emitted'[r][Sent(r)' + i]
  <2>1. ASSUME NEW i \in 1..Len(q[r]) PROVE q'[r][i] = emitted'[r][Sent(r)' + i]
    <3>1. Sent(r) + i \in 1..Len(emitted[r])
      BY <1>1, <1>5
    <3> QED BY <1>3, <1>4, <1>5, <3>1
  <2>2. q'[r][Len(q[r]) + 1] = emitted'[r][Sent(r)' + (Len(q[r]) + 1)]
    BY <1>3, <1>5
  <2>3. \A i \in 1..Len(q'[r]) : i \in 1..Len(q[r]) \/ i = Len(q[r]) + 1
    BY <1>1, <1>3
  <2> QED BY <2>1, <2>2, <2>3
<1>7. (Taken(r)' <=> Taken(r)) /\ getter'[r] = getter[r]
  BY DEF Taken
<1>8. Taken(r)' => Sent(r)' > 0 /\ getter'[r] = emitted'[r][Sent(r)']
  <2>1. SUFFICES ASSUME Taken(r) PROVE Sent(r) > 0 /\ getter[r] = emitted'[r][Sent(r)]
    BY <1>5, <1>7
  <2>2. Sent(r) > 0 /\ getter[r] = emitted[r][Sent(r)]
    BY <1>1, <2>1 DEF Flow
  <2>3. Sent(r) \in 1..Len(emitted[r])
    BY <1>1, <1>5, <2>2
  <2> QED BY <1>3, <2>2, <2>3
<1>9. ASSUME r \notin stopped'
      PROVE  /\ Len(seen'[r]) <= Len(emitted'[r])
             /\ \A i \in 1..Len(seen'[r]) : seen'[r][i] = emitted'[r][i]
             /\ cancels'[r] = 0 =>
                  Len(seen'[r]) = IF Taken(r)' THEN Sent(r)' - 1 ELSE Sent(r)'
  <2>1. /\ Len(seen[r]) <= Len(emitted[r])
        /\ \A i \in 1..Len(seen[r]) : seen[r][i] = emitted[r][i]
        /\ cancels[r] = 0 => Len(seen[r]) = IF Taken(r) THEN Sent(r) - 1 ELSE Sent(r)
    BY <1>1, <1>9 DEF Flow
  <2>2. seen'[r] = seen[r] /\ cancels'[r] = cancels[r]
    OBVIOUS
  <2>3. Len(seen[r]) <= Len(emitted[r]) + 1 /\ \A i \in 1..Len(seen[r]) : i \in 1..Len(emitted[r])
    BY <1>1, <2>1
  <2>4. \A i \in 1..Len(seen[r]) : seen[r][i] = emitted'[r][i]
    BY <1>3, <2>1, <2>3
  <2>5. cancels[r] = 0 => Len(seen[r]) = IF Taken(r)' THEN Sent(r)' - 1 ELSE Sent(r)'
    BY <1>5, <1>7, <2>1
  <2> QED BY <1>3, <2>2, <2>3, <2>4, <2>5
<1>10. Len(q'[r]) <= Len(emitted'[r])
  BY <1>1, <1>3, <1>4
<1>11. Flow(r)'
  BY <1>6, <1>8, <1>9, <1>10 DEF Flow
<1>12. \A i \in 1..Len(emitted[r]) : emitted'[r][i] \notin Terminal
  BY <1>3, RunningUnended
<1>13. Ended(r)'
  BY <1>1, <1>3, <1>12 DEF Ended
<1>14. Phase(r)'
  BY <1>1, RunningUnended DEF Phase
<1> QED BY <1>11, <1>13, <1>14

LEMMA StreamWorker ==
  ASSUME IInv, NEW r \in Streaming, OnTokens(r) \/ WorkerEnds(r)
  PROVE  Flow(r)' /\ Phase(r)' /\ Ended(r)'
<1>1. /\ worker \in [Requests -> {"none", "queued", "running", "over"}] /\ r \in Requests
  BY StreamTypes DEF IInv, TypeOK
<1>2. Running(r) /\ UNCHANGED <<getter, seen, stopped, cancels, pc>>
  BY DEF OnTokens, WorkerEnds, lockVars, streamVars
<1>3. \E e \in Events : Put(r, e) /\ (e \in Terminal => worker'[r] = "over")
  BY <1>1 DEF OnTokens, WorkerEnds, EndWorker, Events, Terminal
<1> QED BY <1>2, <1>3, StreamPut

LEMMA StreamStep ==
  ASSUME IInv, Next
  PROVE  StreamSound'
<1>1. SUFFICES ASSUME NEW x \in Streaming
               PROVE  Flow(x)' /\ Phase(x)' /\ Ended(x)'
  BY DEF StreamSound
<1>2. /\ Flow(x) /\ Phase(x) /\ Ended(x) /\ x \in Requests /\ TypeOK
  BY StreamTypes DEF IInv, StreamSound
<1>3. ASSUME UNCHANGED <<q, emitted, seen, getter, cancels, worker, pc, stopped>>
      PROVE  Flow(x)' /\ Phase(x)' /\ Ended(x)'
  BY <1>2, <1>3, StreamKept
<1>4. CASE SelectionEnds
  <2>1. UNCHANGED <<q, emitted, seen, getter, cancels, worker, pc, stopped>>
    BY <1>4 DEF SelectionEnds, streamVars, lockVars
  <2> QED BY <2>1, <1>3
<1>5. ASSUME NEW r \in Requests, Lock(r)
      PROVE  Flow(x)' /\ Phase(x)' /\ Ended(x)'
  <2>1. UNCHANGED <<q, emitted, seen, getter, cancels, worker, pc, stopped>>
    BY <1>5 DEF Lock, AcquireStarts, AcquireWakes, AcquireCancelled, streamVars, lockVars
  <2> QED BY <2>1, <1>3
<1>6. ASSUME NEW r \in Requests, r # x,
             \/ Arrive(r) \/ Handler(r) \/ Keepalive(r) \/ Cancel(r)
             \/ OnTokens(r) \/ WorkerEnds(r) \/ GetterTakes(r)
      PROVE  Flow(x)' /\ Phase(x)' /\ Ended(x)'
  <2>1. /\ q'[x] = q[x] /\ emitted'[x] = emitted[x] /\ seen'[x] = seen[x]
        /\ getter'[x] = getter[x] /\ cancels'[x] = cancels[x] /\ worker'[x] = worker[x]
        /\ pc'[x] = pc[x] /\ (x \in stopped' <=> x \in stopped)
    <3> USE <1>2 DEF TypeOK, Goto, lockVars, streamVars
    <3>1. CASE Arrive(r) \/ Keepalive(r)
      BY <1>6, <3>1 DEF Arrive, Keepalive
    <3>2. CASE Handler(r)
      BY <1>6, <3>2
      DEF Handler, AfterPreamble, KeepaliveSent, TakeLock, StartGeneration, Peeked,
          RequeueFront, HandleItem, ChunkSent, LastChunkSent, Finish, Leave
    <3>3. CASE Cancel(r)
      BY <1>6, <3>3
      DEF Cancel, CancelEarly, CancelSelecting, CancelStreaming, CancelDeferred, Cancelled, Leave
    <3>4. CASE OnTokens(r) \/ WorkerEnds(r) \/ GetterTakes(r)
      BY <1>6, <3>4 DEF OnTokens, WorkerEnds, GetterTakes, Put, EndWorker
    <3> QED BY <1>6, <3>1, <3>2, <3>3, <3>4
  <2> QED BY <1>2, <2>1, StreamKept
<1>7. ASSUME NEW r \in Requests,
             \/ Arrive(r) \/ Lock(r) \/ Handler(r) \/ Keepalive(r) \/ Cancel(r)
             \/ OnTokens(r) \/ WorkerEnds(r) \/ GetterTakes(r)
      PROVE  Flow(x)' /\ Phase(x)' /\ Ended(x)'
  BY <1>5, <1>6, <1>7, StreamHandler, StreamCancel, StreamWorker, StreamGetter
<1> QED BY <1>4, <1>7 DEF Next

(***************************************************************************)
(* The theorems                                                            *)
(***************************************************************************)
LEMMA IInvStutter ==
  ASSUME IInv, UNCHANGED vars
  PROVE  IInv'
<1> USE DEF vars, lockVars, streamVars
<1>1. TypeOK' BY DEF IInv, TypeOK
<1>2. LockSound' BY DEF IInv, LockSound, WaitersSound, Holders
<1>3. PlacesSound' BY DEF IInv, PlacesSound
<1>4. JobsSound' BY DEF IInv, JobsSound
<1>5. SlotsSound' BY SlotKept DEF InFlight
<1>6. StreamSound'
  <2>1. UNCHANGED <<q, emitted, seen, getter, cancels, worker, pc, stopped>>
    OBVIOUS
  <2> QED BY <2>1, StreamKept DEF IInv, StreamSound
<1> QED BY <1>1, <1>2, <1>3, <1>4, <1>5, <1>6 DEF IInv

LEMMA Invariant == Spec => []IInv
<1>1. IInv /\ [Next]_vars => IInv'
  BY IInvStutter, TypeStep, LockStep, PlacesStep, JobsStep, SlotsStep, StreamStep DEF IInv
<1> QED BY InitSound, <1>1, PTL DEF Spec

(* Every variable of the request lifecycle keeps its type; the queue depth   *)
(* stays within --max-queue.                                                *)
THEOREM TypeCorrect == Spec => []TypeOK
<1>1. IInv => TypeOK
  BY DEF IInv
<1> QED BY <1>1, Invariant, PTL

(* However many cancellations arrive, and wherever: a serial generation      *)
(* that is queued or running is covered by the one request that holds        *)
(* STATE.lock.                                                              *)
THEOREM WorkerCoveredHolds == Spec => []WorkerCovered
<1>1. IInv => WorkerCovered
  <2>1. SUFFICES ASSUME IInv, NEW r \in Requests \ Batched, Active(r)
                 PROVE  locked /\ owned = {r}
    BY DEF WorkerCovered
  <2>2. r \in owned
    BY <2>1 DEF IInv, PlacesSound, Active
  <2>3. locked /\ \A s \in owned : s = r
    BY <2>1, <2>2 DEF IInv, LockSound, Holders
  <2> QED BY <2>2, <2>3
<1> QED BY <1>1, Invariant, PTL

(* Whatever a request went through, it gave back what it held exactly once: *)
(* STATE.lock is taken exactly when one handler or one acquire holds it, and *)
(* the queue slots in use are the requests in flight.                       *)
THEOREM AccountedHolds == Spec => []Accounted
<1>1. IInv => Accounted
  <2> SUFFICES ASSUME IInv PROVE Accounted OBVIOUS
  <2>1. LockAccounted
    <3>1. CASE locked
      <4>1. PICK h : Holders = {h}
        BY <3>1 DEF IInv, LockSound
      <4> QED BY <3>1, <4>1, FS_Singleton DEF LockAccounted, Holders
    <3>2. CASE ~locked
      <4>1. Holders = {}
        BY <3>2 DEF IInv, LockSound
      <4> QED BY <3>2, <4>1, FS_EmptySet DEF LockAccounted, Holders
    <3> QED BY <3>1, <3>2
  <2>2. SlotsAccounted
    BY DEF IInv, SlotsSound
  <2> QED BY <2>1, <2>2 DEF Accounted
<1> QED BY <1>1, Invariant, PTL

(* What the client is sent is what the worker emitted, in that order; a     *)
(* stream that was not cut off got all of it up to the stop string and its   *)
(* terminal event last; the worker's terminal event is its last.            *)
THEOREM StreamFaithfulHolds == Spec => []StreamFaithful
<1>1. IInv => StreamFaithful
  <2>1. SUFFICES ASSUME IInv, NEW r \in Streaming
                 PROVE  /\ r \notin stopped => IsPrefix(seen[r], emitted[r])
                        /\ pc[r] = "over" /\ cancels[r] = 0
                             => /\ seen[r] # <<>> /\ Last(seen[r]) = Last(emitted[r])
                                /\ r \notin stopped => seen[r] = emitted[r]
                        /\ Ended(r)
    BY DEF StreamFaithful, Ended
  <2>2. Flow(r) /\ Phase(r) /\ Ended(r) /\ TypeOK
    BY <2>1 DEF IInv, StreamSound
  <2>3. /\ seen[r] \in Seq(Events) /\ emitted[r] \in Seq(Events)
        /\ Len(seen[r]) \in Nat /\ Len(emitted[r]) \in Nat
    BY <2>2, StreamTypes
  <2>4. r \notin stopped => IsPrefix(seen[r], emitted[r])
    <3>1. SUFFICES ASSUME r \notin stopped
                   PROVE  /\ Len(seen[r]) <= Len(emitted[r])
                          /\ SubSeq(seen[r], 1, Len(seen[r])) = SubSeq(emitted[r], 1, Len(seen[r]))
      BY DEF IsPrefix
    <3>2. /\ Len(seen[r]) <= Len(emitted[r])
          /\ \A i \in 1..Len(seen[r]) : seen[r][i] = emitted[r][i]
      BY <2>2, <3>1 DEF Flow
    <3> DEFINE a == SubSeq(seen[r], 1, Len(seen[r]))
               b == SubSeq(emitted[r], 1, Len(seen[r]))
    <3>3. /\ a \in Seq(Events) /\ Len(a) = Len(seen[r])
          /\ \A i \in 1..Len(seen[r]) : a[i] = seen[r][i]
          /\ b \in Seq(Events) /\ Len(b) = Len(seen[r])
          /\ \A i \in 1..Len(seen[r]) : b[i] = emitted[r][i]
      BY <2>3, <3>2, SubSeqProperties
    <3> HIDE DEF a, b
    <3>4. a = b
      BY <3>2, <3>3, SeqEqual
    <3> QED BY <3>2, <3>4 DEF a, b
  <2>5. ASSUME pc[r] = "over", cancels[r] = 0
        PROVE  /\ seen[r] # <<>> /\ Last(seen[r]) = Last(emitted[r])
               /\ r \notin stopped => seen[r] = emitted[r]
    <3>1. /\ seen[r] # <<>> /\ Last(seen[r]) = Last(emitted[r])
          /\ getter[r] = "none" /\ q[r] = <<>>
      BY <2>2, <2>5 DEF Phase
    <3>2. ASSUME r \notin stopped PROVE seen[r] = emitted[r]
      <4>1. Len(seen[r]) = Sent(r) /\ \A i \in 1..Len(seen[r]) : seen[r][i] = emitted[r][i]
        BY <2>2, <2>5, <3>1, <3>2 DEF Flow, Taken
      <4>2. Sent(r) = Len(emitted[r]) - 0
        BY <3>1 DEF Sent
      <4>3. Len(seen[r]) = Len(emitted[r])
        BY <2>3, <4>1, <4>2
      <4> QED BY <2>3, <4>1, <4>3, SeqEqual
    <3> QED BY <3>1, <3>2
  <2> QED BY <2>2, <2>4, <2>5
<1> QED BY <1>1, Invariant, PTL
==============================================================================
