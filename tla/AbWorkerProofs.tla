---------------------------- MODULE AbWorkerProofs ----------------------------
(***************************************************************************)
(* What AbWorker promises whatever the number of workers and users, and      *)
(* whoever is killed when: a submitted job is not lost, and it is measured   *)
(* in the environment, on the engine and on the clean model it asked for.    *)
(***************************************************************************)
EXTENDS AbWorker, ListFacts

Jobs == UNION {Brings[u] : u \in Users}
Envs == {b.env : b \in Jobs} \cup {None}

Standing ==
  {"dead", "new", "back", "wait", "clear", "made", "held", "memory", "run", "boot", "record",
   "load", "idle", "exit", "finish", "unlink", "ask", "front", "await", "tail", "look",
   "asked", "own"}

WorkerLocals ==
  [env : Envs, mark : Users \cup {None}, tools : Nat, fp : Nat, loaded : Nat,
   left : Users \cup {None}, job : Users \cup {None},
   result : {None, "done", "err", "refused"}, leaving : BOOLEAN]

Typed ==
  /\ pc \in [Workers \cup Users -> Standing]
  /\ w \in [Workers -> WorkerLocals]
  /\ brought \in [Users -> Jobs \cup {None}]
  /\ queue \in Seq(Users)
  /\ results \in [Users -> SUBSET {"done", "err"}]
  /\ since \in [Users -> Nat \cup {None}]
  /\ code \in Nat

(* A user comes with a job, submits it after that, and the sources were then *)
(* no newer than they are now.                                               *)
UserSound(u) ==
  /\ pc[u] # "new" => brought[u] \in Jobs
  /\ since[u] # None => pc[u] # "new" /\ since[u] <= code
SubmittedSound == \A u \in Users : UserSound(u)

(* A job file is in the queue once, from when it was submitted.              *)
QueueSound == Distinct(queue) /\ \A u \in Elements(queue) : since[u] # None

(* What a job needs of the worker that has it.                               *)
Suits(d) ==
  /\ since[w[d].job] <= w[d].fp
  /\ Decodes(w[d].job) => w[d].env = brought[w[d].job].env

(* A worker that restarted itself for a job has its environment; it has a    *)
(* job only after it loaded the model; the job suits it until it has run;    *)
(* and what a job left behind is there only while the worker is leaving.     *)
Handling == {"wait", "clear", "made", "run"}
Ending == {"finish", "unlink", "exit"}

MarkSound(d) ==
  w[d].mark # None =>
    /\ since[w[d].mark] # None
    /\ w[d].env = brought[w[d].mark].env

JobSound(d) ==
  /\ w[d].fp <= code
  /\ w[d].job # None => since[w[d].job] # None /\ pc[d] \in Handling \cup Ending
  /\ pc[d] \in {"load", "idle"} \/ w[d].job # None => w[d].fp <= w[d].loaded
  /\ w[d].job # None /\ pc[d] \in Handling => Suits(d)
  /\ pc[d] \in {"run", "finish", "unlink"} => w[d].job # None

EndSound(d) ==
  /\ w[d].left # None => pc[d] \in Ending /\ w[d].leaving
  /\ pc[d] = "finish" => w[d].result \in {"done", "err"}
  /\ pc[d] = "unlink" => results[w[d].job] # {}

WorkerSound(d) == MarkSound(d) /\ JobSound(d) /\ EndSound(d)

IInv ==
  /\ Typed /\ SubmittedSound /\ QueueSound /\ Kept
  /\ \A d \in Workers : WorkerSound(d)

(***************************************************************************)
(* What steps have in common                                               *)
(***************************************************************************)
(* A result, a submission and what was brought to it do not go away.        *)
Lasting ==
  /\ \A u \in Users : since[u] # None => since'[u] = since[u] /\ brought'[u] = brought[u]
  /\ \A u \in Users : results[u] # {} => results'[u] # {}
  /\ code' >= code

LEMMA NoneIsNobody == None \notin Nat /\ None \notin Users /\ None \notin Workers
                      /\ Workers \cap Users = {}
  BY NamesAssumption

(* A worker is where it was, with what it had: it stays sound. *)
LEMMA WorkerStays ==
  ASSUME IInv, Typed', Lasting, NEW d \in Workers, w'[d] = w[d], pc'[d] = pc[d]
  PROVE  WorkerSound(d)'
<1> USE NoneIsNobody
<1>1. WorkerSound(d) /\ w[d] \in WorkerLocals /\ code \in Nat /\ code' \in Nat
  BY DEF IInv, Typed
<1>2. w[d].mark \in Users \cup {None} /\ w[d].job \in Users \cup {None} /\ w[d].fp \in Nat
  BY <1>1 DEF WorkerLocals
<1>3. MarkSound(d)'
  BY <1>1, <1>2 DEF WorkerSound, MarkSound, Lasting
<1>4. JobSound(d)'
  <2>1. w'[d].fp <= code'
    BY <1>1, <1>2 DEF WorkerSound, JobSound, Lasting
  <2>2. w'[d].job # None => since'[w'[d].job] = since[w[d].job] /\ brought'[w'[d].job] = brought[w[d].job]
    BY <1>1, <1>2 DEF WorkerSound, JobSound, Lasting
  <2>3. w'[d].job # None /\ pc'[d] \in Handling => Suits(d)'
    BY <1>1, <2>2 DEF WorkerSound, JobSound, Suits, Decodes
  <2> QED BY <1>1, <2>1, <2>2, <2>3 DEF WorkerSound, JobSound
<1>5. EndSound(d)'
  <2>1. pc[d] = "unlink" => w[d].job \in Users
    BY <1>1, <1>2 DEF WorkerSound, JobSound
  <2> QED BY <1>1, <2>1 DEF WorkerSound, EndSound, Lasting
<1> QED BY <1>3, <1>4, <1>5 DEF WorkerSound

(* The queue, the results and the submissions are as they were. *)
LEMMA FilesStay ==
  ASSUME IInv, UNCHANGED <<brought, since, queue, results>>, code' \in Nat, code' >= code,
         \A u \in Users : pc'[u] = "new" <=> pc[u] = "new"
  PROVE  SubmittedSound' /\ QueueSound' /\ Kept' /\ Lasting
<1>1. code \in Nat
  BY DEF IInv, Typed
<1>2. SubmittedSound'
  BY <1>1 DEF IInv, Typed, SubmittedSound, UserSound
<1>3. QueueSound' /\ Kept'
  BY DEF IInv, QueueSound, Kept
<1>4. Lasting
  BY DEF Lasting
<1> QED BY <1>2, <1>3, <1>4

(* A step of one user that moves only itself. *)
LEMMA UserMoves ==
  ASSUME IInv, UNCHANGED <<w, brought, since, code, queue, results>>,
         NEW u \in Users, pc[u] # "new",
         NEW to \in Standing \ {"new"}, pc' = [pc EXCEPT ![u] = to]
  PROVE  IInv'
<1> USE NoneIsNobody
<1>1. Typed'
  BY DEF IInv, Typed
<1>2. SubmittedSound' /\ QueueSound' /\ Kept' /\ Lasting
  <2>1. code' \in Nat /\ code' >= code
    BY DEF IInv, Typed
  <2>2. \A v \in Users : pc'[v] = "new" <=> pc[v] = "new"
    BY DEF IInv, Typed
  <2> QED BY <2>1, <2>2, FilesStay
<1>3. ASSUME NEW d \in Workers PROVE WorkerSound(d)'
  <2>1. pc'[d] = pc[d]
    BY DEF IInv, Typed
  <2> QED BY <1>1, <1>2, <2>1, WorkerStays
<1> QED BY <1>1, <1>2, <1>3 DEF IInv

(* A step of one worker that moves only itself. *)
LEMMA WorkerMoves ==
  ASSUME IInv, UNCHANGED <<brought, since, code, queue, results>>,
         NEW d \in Workers, NEW to \in Standing, pc' = [pc EXCEPT ![d] = to],
         NEW x \in WorkerLocals, w' = [w EXCEPT ![d] = x],
         Typed' => WorkerSound(d)'
  PROVE  IInv'
<1> USE NoneIsNobody
<1>1. Typed'
  BY DEF IInv, Typed
<1>2. SubmittedSound' /\ QueueSound' /\ Kept' /\ Lasting
  <2>1. code' \in Nat /\ code' >= code
    BY DEF IInv, Typed
  <2>2. \A v \in Users : pc'[v] = "new" <=> pc[v] = "new"
    BY DEF IInv, Typed
  <2> QED BY <2>1, <2>2, FilesStay
<1>3. ASSUME NEW e \in Workers, e # d PROVE WorkerSound(e)'
  <2>1. pc'[e] = pc[e] /\ w'[e] = w[e]
    BY <1>3 DEF IInv, Typed
  <2> QED BY <1>1, <1>2, <2>1, WorkerStays
<1> QED BY <1>1, <1>2, <1>3 DEF IInv

(* A worker that has just been started has nothing to answer for. *)
LEMMA StartedSound ==
  ASSUME IInv, Typed', NEW d \in Workers, NEW env \in Envs, NEW mark \in Users \cup {None},
         w'[d] = Started(env, mark), pc'[d] \in {"boot", "dead"},
         mark # None => since'[mark] # None /\ env = brought'[mark].env
  PROVE  WorkerSound(d)'
<1>1. /\ w'[d].env = env /\ w'[d].mark = mark /\ w'[d].fp = 0 /\ w'[d].left = None
      /\ w'[d].job = None /\ w'[d].loaded = 0
  BY DEF Started
<1>2. MarkSound(d)'
  BY <1>1 DEF MarkSound
<1>3. JobSound(d)'
  <2>1. w'[d].fp <= code' /\ w'[d].fp <= w'[d].loaded
    BY <1>1 DEF Typed
  <2> QED BY <1>1, <2>1 DEF JobSound
<1>4. EndSound(d)'
  BY <1>1 DEF EndSound
<1> QED BY <1>2, <1>3, <1>4 DEF WorkerSound

LEMMA StartedType ==
  ASSUME NEW env \in Envs, NEW mark \in Users \cup {None}
  PROVE  Started(env, mark) \in WorkerLocals
  BY DEF Started, WorkerLocals

(***************************************************************************)
(* Users                                                                   *)
(***************************************************************************)
LEMMA AcquireUser ==
  ASSUME IInv, NEW u \in Users, Acquire(u) PROVE IInv'
<1>1. CASE FindDead(u) \/ ClearDead(u) \/ MakeLock(u)
  <2>1. UNCHANGED <<w, brought, since, code, queue, results>>
        /\ pc[u] # "new" /\ \E to \in Standing \ {"new"} : pc' = [pc EXCEPT ![u] = to]
    BY <1>1 DEF FindDead, ClearDead, MakeLock, At, users, jobs, world, Standing
  <2> QED BY <2>1, UserMoves
<1>2. CASE WriteLock(u)
  <2>1. UNCHANGED <<w, brought, since, code, queue, results>>
        /\ pc[u] # "new" /\ pc' = [pc EXCEPT ![u] = "held"] /\ "held" \in Standing \ {"new"}
    BY <1>2 DEF WriteLock, At, users, jobs, world, Standing
  <2> QED BY <2>1, UserMoves
<1> QED BY <1>1, <1>2 DEF Acquire

(* What a user does in front of the queue, in line, and with the lock,       *)
(* except to submit its job and to start a worker.                          *)
LEMMA UserStep ==
  ASSUME IInv, NEW u \in Users,
         \/ Delegate(u) \/ DoItself(u) \/ InLine(u) \/ TailLog(u) \/ Look(u) \/ GiveUpJob(u)
         \/ AskToStop(u) \/ NobodyToAsk(u) \/ Asked(u) \/ Done(u)
  PROVE  IInv'
<1>1. UNCHANGED <<w, brought, since, code, queue, results>>
  BY DEF Delegate, DoItself, InLine, TailLog, Look, GiveUpJob, AskToStop, NobodyToAsk, Asked,
         Done, users, jobs, world
<1>2. pc[u] # "new" /\ \E to \in Standing \ {"new"} : pc' = [pc EXCEPT ![u] = to]
  <2>1. CASE InLine(u) \/ TailLog(u) \/ Look(u) \/ GiveUpJob(u)
    BY <2>1 DEF InLine, TailLog, Look, GiveUpJob, At, Standing
  <2>2. CASE Delegate(u) \/ DoItself(u) \/ AskToStop(u) \/ NobodyToAsk(u) \/ Asked(u) \/ Done(u)
    BY <2>2 DEF Delegate, DoItself, AskToStop, NobodyToAsk, Asked, Done, At, Standing
  <2> QED BY <2>1, <2>2
<1> QED BY <1>1, <1>2, UserMoves

(* It comes with a job, before it has submitted one. *)
LEMMA ComeStep ==
  ASSUME IInv, NEW u \in Users, Come(u) PROVE IInv'
<1> USE NoneIsNobody
<1>1. /\ UNCHANGED <<w, since, code, queue, results>>
      /\ pc[u] = "new" /\ pc' = [pc EXCEPT ![u] = IF u \in Direct THEN "ask" ELSE "front"]
  BY DEF Come, At, jobs, world
<1>2. PICK b \in Brings[u] : brought' = [brought EXCEPT ![u] = b]
  BY DEF Come
<1>3. since[u] = None
  BY <1>1 DEF IInv, Typed, SubmittedSound, UserSound
<1>4. Typed'
  <2>1. pc' \in [Workers \cup Users -> Standing]
    BY <1>1 DEF IInv, Typed, Standing
  <2>2. brought' \in [Users -> Jobs \cup {None}]
    BY <1>2 DEF IInv, Typed, Jobs
  <2> QED BY <1>1, <2>1, <2>2 DEF IInv, Typed
<1>5. \A v \in Users : v # u => pc'[v] = pc[v] /\ brought'[v] = brought[v]
  BY <1>1, <1>2 DEF IInv, Typed
<1>6. SubmittedSound'
  <2>1. UserSound(u)'
    BY <1>2, <1>3, <1>1 DEF UserSound, IInv, Typed, Jobs
  <2>2. ASSUME NEW v \in Users, v # u PROVE UserSound(v)'
    BY <1>1, <1>5, <2>2 DEF IInv, SubmittedSound, UserSound
  <2> QED BY <2>1, <2>2 DEF SubmittedSound
<1>7. QueueSound' /\ Kept'
  BY <1>1 DEF IInv, QueueSound, Kept
<1>8. Lasting
  BY <1>1, <1>3, <1>5 DEF Lasting, IInv, Typed
<1>9. ASSUME NEW d \in Workers PROVE WorkerSound(d)'
  <2>1. pc'[d] = pc[d]
    BY <1>1 DEF IInv, Typed
  <2> QED BY <1>1, <1>4, <1>8, <2>1, WorkerStays
<1> QED BY <1>4, <1>6, <1>7, <1>9 DEF IInv

(* The file is put in the queue, where it is not yet. *)
LEMMA EnqueueStep ==
  ASSUME IInv, NEW u \in Users, Enqueue(u) PROVE IInv'
<1> USE NoneIsNobody
<1>1. /\ UNCHANGED <<w, brought, code, results>>
      /\ pc[u] \in {"ask", "await"} /\ pc' = [pc EXCEPT ![u] = "tail"]
      /\ Routable(u) /\ since[u] = None
      /\ queue' = Append(queue, u) /\ since' = [since EXCEPT ![u] = code]
  BY DEF Enqueue, At, users, world
<1>2. queue \in Seq(Users) /\ Distinct(queue) /\ code \in Nat
  BY DEF IInv, Typed, QueueSound
<1>3. u \notin Elements(queue)
  BY <1>1 DEF IInv, QueueSound
<1>4. queue' \in Seq(Users) /\ Distinct(queue') /\ Elements(queue') = Elements(queue) \cup {u}
  BY <1>1, <1>2, <1>3, AppendFacts
<1>5. Typed'
  <2>1. pc' \in [Workers \cup Users -> Standing]
    BY <1>1 DEF IInv, Typed, Standing
  <2> QED BY <1>1, <1>2, <1>4, <2>1 DEF IInv, Typed
<1>6. since'[u] = code /\ \A v \in Users : v # u => pc'[v] = pc[v] /\ since'[v] = since[v]
  BY <1>1 DEF IInv, Typed
<1>7. brought[u] \in Jobs
  BY <1>1 DEF IInv, SubmittedSound, UserSound
<1>8. SubmittedSound'
  <2>1. UserSound(u)'
    BY <1>1, <1>2, <1>6, <1>7 DEF UserSound, IInv, Typed
  <2>2. ASSUME NEW v \in Users, v # u PROVE UserSound(v)'
    BY <1>1, <1>6, <2>2 DEF IInv, SubmittedSound, UserSound
  <2> QED BY <2>1, <2>2 DEF SubmittedSound
<1>9. QueueSound'
  BY <1>2, <1>4, <1>6, ElementsType DEF IInv, QueueSound
<1>10. Kept'
  <2>1. \A v \in Users : Contains(queue', v) <=> v \in Elements(queue')
    BY <1>4, LenProperties DEF Contains, Elements
  <2>2. \A v \in Users : Contains(queue, v) <=> v \in Elements(queue)
    BY <1>2, LenProperties DEF Contains, Elements
  <2> QED BY <1>1, <1>4, <1>6, <2>1, <2>2 DEF IInv, Kept
<1>11. Lasting
  BY <1>1, <1>2, <1>6 DEF Lasting
<1>12. ASSUME NEW d \in Workers PROVE WorkerSound(d)'
  <2>1. pc'[d] = pc[d]
    BY <1>1 DEF IInv, Typed
  <2> QED BY <1>1, <1>5, <1>11, <2>1, WorkerStays
<1> QED BY <1>5, <1>8, <1>9, <1>10, <1>12 DEF IInv

(* A user starts a worker, if there is room for one. *)
LEMMA PopenStep ==
  ASSUME IInv, NEW u \in Users, Start(u) \/ Restart(u) PROVE IInv'
<1> USE NoneIsNobody
<1>1. /\ UNCHANGED <<brought, since, code, queue, results>>
      /\ pc[u] # "new" /\ Popen(u, "await")
  BY DEF Start, Restart, users, jobs, world
<1>2. CASE {d \in Workers : pc[d] = "dead"} = {}
  <2>1. pc' = [pc EXCEPT ![u] = "await"] /\ w' = w
    BY <1>1, <1>2 DEF Popen
  <2>2. "await" \in Standing \ {"new"}
    BY DEF Standing
  <2> QED BY <1>1, <2>1, <2>2, UserMoves
<1>3. CASE {d \in Workers : pc[d] = "dead"} # {}
  <2>1. PICK d \in Workers : /\ pc' = [pc EXCEPT ![u] = "await", ![d] = "boot"]
                             /\ w' = [w EXCEPT ![d] = Started(brought[u].env, None)]
    BY <1>1, <1>3 DEF Popen
  <2>2. brought[u].env \in Envs
    BY <1>1 DEF IInv, SubmittedSound, UserSound, Envs
  <2>3. Typed'
    <3>1. pc' \in [Workers \cup Users -> Standing]
      BY <2>1 DEF IInv, Typed, Standing
    <3>2. w' \in [Workers -> WorkerLocals]
      BY <2>1, <2>2, StartedType DEF IInv, Typed
    <3> QED BY <1>1, <3>1, <3>2 DEF IInv, Typed
  <2>4. \A v \in Users : pc'[v] = "new" <=> pc[v] = "new"
    BY <1>1, <2>1 DEF IInv, Typed
  <2>5. SubmittedSound' /\ QueueSound' /\ Kept' /\ Lasting
    <3>1. code' \in Nat /\ code' >= code
      BY <1>1 DEF IInv, Typed
    <3> QED BY <1>1, <2>4, <3>1, FilesStay
  <2>6. WorkerSound(d)'
    <3>1. w'[d] = Started(brought[u].env, None) /\ pc'[d] = "boot"
      BY <2>1 DEF IInv, Typed
    <3> QED BY <2>2, <2>3, <3>1, StartedSound
  <2>7. ASSUME NEW e \in Workers, e # d PROVE WorkerSound(e)'
    <3>1. pc'[e] = pc[e] /\ w'[e] = w[e]
      BY <2>1, <2>7 DEF IInv, Typed
    <3> QED BY <2>3, <2>5, <3>1, WorkerStays
  <2> QED BY <2>3, <2>5, <2>6, <2>7 DEF IInv
<1> QED BY <1>2, <1>3

(***************************************************************************)
(* Workers                                                                 *)
(***************************************************************************)
(* A worker moves on without changing what it knows, and no condition on    *)
(* where it stands comes into force.                                        *)
LEMMA WorkerGoes ==
  ASSUME IInv, UNCHANGED <<w, brought, since, code, queue, results>>,
         NEW d \in Workers, NEW to \in Standing, pc' = [pc EXCEPT ![d] = to],
         \/ to = "exit"
         \/ to = "run" /\ pc[d] = "made" /\ w[d].job # None
         \/ to = "memory" /\ pc[d] = "made" /\ w[d].job = None
         \/ to \in {"wait", "clear", "made"} /\ pc[d] \in {"wait", "clear"}
  PROVE  IInv'
<1> USE NoneIsNobody
<1>1. w[d] \in WorkerLocals /\ w' = [w EXCEPT ![d] = w[d]] /\ pc'[d] = to /\ w'[d] = w[d]
  BY DEF IInv, Typed
<1>2. WorkerSound(d)
  BY DEF IInv
<1>3. WorkerSound(d)'
  <2>1. MarkSound(d)'
    BY <1>1, <1>2 DEF WorkerSound, MarkSound
  <2>2. JobSound(d)'
    BY <1>1, <1>2 DEF WorkerSound, JobSound, Suits, Decodes, Handling, Ending
  <2>3. EndSound(d)'
    BY <1>1, <1>2 DEF WorkerSound, EndSound, Ending
  <2> QED BY <2>1, <2>2, <2>3 DEF WorkerSound
<1> QED BY <1>1, <1>3, WorkerMoves

LEMMA AcquireWorker ==
  ASSUME IInv, NEW d \in Workers, Acquire(d) PROVE IInv'
<1> USE NoneIsNobody
<1>1. UNCHANGED <<w, brought, since, code, queue, results>>
  BY DEF Acquire, FindDead, ClearDead, MakeLock, WriteLock, users, jobs, world
<1>2. CASE FindDead(d)
  <2>1. pc[d] = "wait" /\ pc' = [pc EXCEPT ![d] = "clear"] /\ "clear" \in Standing
    BY <1>2 DEF FindDead, At, Standing
  <2> QED BY <1>1, <2>1, WorkerGoes
<1>3. CASE ClearDead(d)
  <2>1. pc[d] = "clear" /\ pc' = [pc EXCEPT ![d] = "wait"] /\ "wait" \in Standing
    BY <1>3 DEF ClearDead, At, Standing
  <2> QED BY <1>1, <2>1, WorkerGoes
<1>4. CASE MakeLock(d)
  <2>1. pc[d] = "wait" /\ pc' = [pc EXCEPT ![d] = "made"] /\ "made" \in Standing
    BY <1>4 DEF MakeLock, At, Standing
  <2> QED BY <1>1, <2>1, WorkerGoes
<1>5. CASE WriteLock(d)
  <2>1. pc[d] = "made" /\ pc' = [pc EXCEPT ![d] = IF w[d].job = None THEN "memory" ELSE "run"]
    BY <1>5 DEF WriteLock, At
  <2>2. "memory" \in Standing /\ "run" \in Standing
    BY DEF Standing
  <2> QED BY <1>1, <2>1, <2>2, WorkerGoes
<1> QED BY <1>2, <1>3, <1>4, <1>5 DEF Acquire

(* It sees the stop file, or leaves because there is nothing to do. *)
LEMMA LeaveStep ==
  ASSUME IInv, NEW d \in Workers, StopSeen(d) \/ Leave(d) PROVE IInv'
<1>1. UNCHANGED <<w, brought, since, code, queue, results>>
  BY DEF StopSeen, Leave, users, jobs, world
<1>2. "exit" \in Standing
  BY DEF Standing
<1>3. pc' = [pc EXCEPT ![d] = "exit"]
  BY DEF StopSeen, Leave, At
<1> QED BY <1>1, <1>2, <1>3, WorkerGoes

(* What the tools are imported from is bound to nothing yet. *)
LEMMA BootStep ==
  ASSUME IInv, NEW d \in Workers, Boot(d) PROVE IInv'
<1> USE NoneIsNobody
<1> DEFINE x == [w[d] EXCEPT !.tools = code]
<1>1. /\ UNCHANGED <<brought, since, code, queue, results>>
      /\ pc[d] = "boot" /\ pc' = [pc EXCEPT ![d] = "record"]
      /\ w' = [w EXCEPT ![d].tools = code] /\ "record" \in Standing
  BY DEF Boot, At, users, jobs, world, Standing
<1>2. w[d] \in WorkerLocals /\ code \in Nat /\ WorkerSound(d)
  BY DEF IInv, Typed
<1>3. w' = [w EXCEPT ![d] = x] /\ x \in WorkerLocals /\ w'[d] = x /\ pc'[d] = "record"
  BY <1>1, <1>2 DEF WorkerLocals, IInv, Typed
<1>4. /\ w'[d].fp = w[d].fp /\ w'[d].job = w[d].job /\ w'[d].mark = w[d].mark
      /\ w'[d].env = w[d].env /\ w'[d].left = w[d].left /\ w[d].job = None
  BY <1>1, <1>2, <1>3 DEF WorkerLocals, WorkerSound, JobSound, Handling, Ending
<1>5. WorkerSound(d)'
  <2>1. MarkSound(d)'
    BY <1>1, <1>2, <1>4 DEF WorkerSound, MarkSound
  <2>2. JobSound(d)'
    BY <1>1, <1>2, <1>3, <1>4 DEF WorkerSound, JobSound, Handling
  <2>3. EndSound(d)'
    BY <1>1, <1>2, <1>3, <1>4 DEF WorkerSound, EndSound, Ending
  <2> QED BY <2>1, <2>2, <2>3 DEF WorkerSound
<1> HIDE DEF x
<1> QED BY <1>1, <1>3, <1>5, WorkerMoves

(* The sources are fingerprinted before the model is loaded. *)
LEMMA RecordStep ==
  ASSUME IInv, NEW d \in Workers, Record(d) PROVE IInv'
<1> USE NoneIsNobody
<1> DEFINE x == [w[d] EXCEPT !.fp = code]
<1>1. /\ UNCHANGED <<brought, since, code, queue, results>>
      /\ pc[d] = "record" /\ pc' = [pc EXCEPT ![d] = "wait"]
      /\ w' = [w EXCEPT ![d].fp = code] /\ "wait" \in Standing
  BY DEF Record, At, Fingerprint, users, jobs, world, Standing
<1>2. w[d] \in WorkerLocals /\ code \in Nat /\ WorkerSound(d)
  BY DEF IInv, Typed
<1>3. w' = [w EXCEPT ![d] = x] /\ x \in WorkerLocals /\ w'[d] = x /\ pc'[d] = "wait"
  BY <1>1, <1>2 DEF WorkerLocals, IInv, Typed
<1>4. /\ w'[d].fp = code /\ w'[d].job = w[d].job /\ w'[d].mark = w[d].mark
      /\ w'[d].env = w[d].env /\ w'[d].left = w[d].left /\ w[d].job = None
  BY <1>1, <1>2, <1>3 DEF WorkerLocals, WorkerSound, JobSound, Handling, Ending
<1>5. WorkerSound(d)'
  <2>1. MarkSound(d)'
    BY <1>1, <1>2, <1>4 DEF WorkerSound, MarkSound
  <2>2. JobSound(d)'
    BY <1>1, <1>2, <1>3, <1>4 DEF JobSound, Handling
  <2>3. EndSound(d)'
    BY <1>1, <1>2, <1>3, <1>4 DEF WorkerSound, EndSound, Ending
  <2> QED BY <2>1, <2>2, <2>3 DEF WorkerSound
<1> HIDE DEF x
<1> QED BY <1>1, <1>3, <1>5, WorkerMoves

(* What is loaded is no older than the fingerprint. *)
LEMMA LoadStep ==
  ASSUME IInv, NEW d \in Workers, Load(d) PROVE IInv'
<1> USE NoneIsNobody
<1> DEFINE x == [w[d] EXCEPT !.loaded = code]
<1>1. /\ UNCHANGED <<brought, since, code, queue, results>>
      /\ pc[d] = "memory" /\ pc' = [pc EXCEPT ![d] = "load"]
      /\ w' = [w EXCEPT ![d].loaded = code] /\ "load" \in Standing
  BY DEF Load, At, users, jobs, world, Standing
<1>2. w[d] \in WorkerLocals /\ code \in Nat /\ WorkerSound(d)
  BY DEF IInv, Typed
<1>3. w' = [w EXCEPT ![d] = x] /\ x \in WorkerLocals /\ w'[d] = x /\ pc'[d] = "load"
  BY <1>1, <1>2 DEF WorkerLocals, IInv, Typed
<1>4. /\ w'[d].fp = w[d].fp /\ w'[d].job = w[d].job /\ w'[d].mark = w[d].mark
      /\ w'[d].env = w[d].env /\ w'[d].left = w[d].left /\ w[d].job = None
      /\ w'[d].loaded = code
  BY <1>1, <1>2, <1>3 DEF WorkerLocals, WorkerSound, JobSound, Handling, Ending
<1>5. WorkerSound(d)'
  <2>1. MarkSound(d)'
    BY <1>1, <1>2, <1>4 DEF WorkerSound, MarkSound
  <2>2. JobSound(d)'
    BY <1>1, <1>2, <1>3, <1>4 DEF WorkerSound, JobSound, Handling
  <2>3. EndSound(d)'
    BY <1>1, <1>2, <1>3, <1>4 DEF WorkerSound, EndSound, Ending
  <2> QED BY <2>1, <2>2, <2>3 DEF WorkerSound
<1> HIDE DEF x
<1> QED BY <1>1, <1>3, <1>5, WorkerMoves

LEMMA LoadedStep ==
  ASSUME IInv, NEW d \in Workers, Loaded(d) PROVE IInv'
<1> USE NoneIsNobody
<1>1. /\ UNCHANGED <<brought, since, code, queue, results>>
      /\ pc[d] = "load" /\ pc' = [pc EXCEPT ![d] = "idle"]
      /\ w' = [w EXCEPT ![d].fp = w[d].fp] /\ "idle" \in Standing
  BY DEF Loaded, At, Fingerprint, users, jobs, world, Standing
<1>2. w[d] \in WorkerLocals /\ code \in Nat /\ WorkerSound(d)
  BY DEF IInv, Typed
<1>3. w' = [w EXCEPT ![d] = w[d]] /\ w'[d] = w[d] /\ pc'[d] = "idle"
  BY <1>1, <1>2 DEF WorkerLocals, IInv, Typed
<1>4. w[d].job = None
  BY <1>1, <1>2 DEF WorkerSound, JobSound, Handling, Ending
<1>5. WorkerSound(d)'
  <2>1. MarkSound(d)'
    BY <1>1, <1>2, <1>3 DEF WorkerSound, MarkSound
  <2>2. JobSound(d)'
    BY <1>1, <1>2, <1>3, <1>4 DEF WorkerSound, JobSound, Handling
  <2>3. EndSound(d)'
    BY <1>1, <1>2, <1>3, <1>4 DEF WorkerSound, EndSound, Ending
  <2> QED BY <2>1, <2>2, <2>3 DEF WorkerSound
<1> QED BY <1>1, <1>2, <1>3, <1>5, WorkerMoves

(* A worker begins again, in an environment it was given for a job. *)
LEMMA RebornStep ==
  ASSUME IInv, NEW d \in Workers, NEW env \in Envs, NEW mark \in Users \cup {None},
         mark # None => since[mark] # None /\ env = brought[mark].env,
         Reborn(d, env, mark)
  PROVE  IInv'
<1> USE NoneIsNobody
<1>1. /\ UNCHANGED <<brought, since, code, queue, results>>
      /\ pc' = [pc EXCEPT ![d] = "boot"] /\ "boot" \in Standing
      /\ w' = [w EXCEPT ![d] = Started(env, mark)]
  BY DEF Reborn, At, users, jobs, world, Standing
<1>2. Started(env, mark) \in WorkerLocals
  BY StartedType
<1>3. w'[d] = Started(env, mark) /\ pc'[d] = "boot"
  BY <1>1 DEF IInv, Typed
<1>4. mark # None => since'[mark] # None /\ env = brought'[mark].env
  BY <1>1
<1>5. Typed' => WorkerSound(d)'
  BY <1>3, <1>4, StartedSound
<1> QED BY <1>1, <1>2, <1>5, WorkerMoves

LEMMA ExitStep ==
  ASSUME IInv, NEW d \in Workers, Exit(d) PROVE IInv'
<1> USE NoneIsNobody
<1>1. /\ UNCHANGED <<brought, since, code, queue, results>>
      /\ pc' = [pc EXCEPT ![d] = "dead"] /\ "dead" \in Standing
      /\ w' = [w EXCEPT ![d] = Started(None, None)]
  BY DEF Exit, At, users, jobs, world, Standing
<1>2. Started(None, None) \in WorkerLocals /\ None \in Envs
  BY StartedType DEF Envs
<1>3. w'[d] = Started(None, None) /\ pc'[d] = "dead"
  BY <1>1 DEF IInv, Typed
<1>4. Typed' => WorkerSound(d)'
  BY <1>2, <1>3, StartedSound
<1> QED BY <1>1, <1>2, <1>4, WorkerMoves

(* A job a worker picks is one that was submitted. *)
LEMMA Picked ==
  ASSUME IInv, NEW d \in Workers, NEW j \in Users, Picks(d, j)
  PROVE  /\ pc[d] = "idle" /\ since[j] \in Nat /\ since[j] <= code /\ brought[j] \in Jobs
         /\ w[d].job = None /\ w[d].fp <= w[d].loaded /\ w[d].left = None
<1> USE NoneIsNobody
<1>1. pc[d] = "idle" /\ j \in Elements(queue)
  BY DEF Picks, Foremost, Elements
<1>2. since[j] # None
  BY <1>1 DEF IInv, QueueSound
<1>3. WorkerSound(d)
  BY DEF IInv
<1> QED BY <1>1, <1>2, <1>3
        DEF IInv, Typed, SubmittedSound, UserSound, WorkerSound, JobSound, EndSound,
            Handling, Ending

LEMMA RestartStep ==
  ASSUME IInv, NEW d \in Workers, RestartForCode(d) \/ RestartForEnv(d) PROVE IInv'
<1> USE NoneIsNobody
<1>1. w[d] \in WorkerLocals /\ MarkSound(d)
  BY DEF IInv, Typed, WorkerSound
<1>2. CASE RestartForCode(d)
  <2>1. w[d].env \in Envs /\ w[d].mark \in Users \cup {None}
    BY <1>1 DEF WorkerLocals
  <2>2. Reborn(d, w[d].env, w[d].mark)
    BY <1>2 DEF RestartForCode
  <2> QED BY <1>1, <2>1, <2>2, RebornStep DEF MarkSound
<1>3. CASE RestartForEnv(d)
  <2>1. PICK j \in Users :
          /\ Picks(d, j) /\ NeedReload(d, j)
          /\ IF w[d].mark # j THEN Reborn(d, NewEnv(d, j), j) ELSE Refuse(d, j)
    BY <1>3 DEF RestartForEnv
  <2>2. since[j] # None /\ brought[j] \in Jobs
    BY <2>1, Picked
  <2>3. w[d].mark # j
    BY <1>1, <2>1, <2>2 DEF MarkSound, NeedReload
  <2>4. NewEnv(d, j) = brought[j].env /\ brought[j].env \in Envs
    BY <2>2 DEF NewEnv, Envs
  <2> QED BY <2>1, <2>2, <2>3, <2>4, RebornStep
<1> QED BY <1>2, <1>3

(* What it takes suits it. *)
LEMMA TakeStep ==
  ASSUME IInv, NEW d \in Workers, Take(d) PROVE IInv'
<1> USE NoneIsNobody
<1>1. PICK j \in Users : /\ Picks(d, j) /\ w[d].fp = code /\ ~NeedReload(d, j)
                         /\ w' = [w EXCEPT ![d].job = j]
  BY DEF Take
<1> DEFINE x == [w[d] EXCEPT !.job = j]
<1>2. /\ UNCHANGED <<brought, since, code, queue, results>>
      /\ pc' = [pc EXCEPT ![d] = "wait"] /\ "wait" \in Standing
  BY DEF Take, At, users, jobs, world, Standing
<1>3. w[d] \in WorkerLocals /\ WorkerSound(d)
  BY DEF IInv, Typed
<1>4. /\ pc[d] = "idle" /\ since[j] \in Nat /\ since[j] <= code
      /\ w[d].fp <= w[d].loaded /\ w[d].left = None
  BY <1>1, Picked
<1>5. w' = [w EXCEPT ![d] = x] /\ x \in WorkerLocals /\ w'[d] = x /\ pc'[d] = "wait"
  BY <1>1, <1>2, <1>3 DEF WorkerLocals, IInv, Typed
<1>6. /\ w'[d].fp = w[d].fp /\ w'[d].job = j /\ w'[d].mark = w[d].mark
      /\ w'[d].env = w[d].env /\ w'[d].left = w[d].left /\ w'[d].loaded = w[d].loaded
  BY <1>3, <1>5 DEF WorkerLocals
<1>7. WorkerSound(d)'
  <2>1. MarkSound(d)'
    BY <1>2, <1>3, <1>6 DEF WorkerSound, MarkSound
  <2>2. Suits(d)'
    <3>1. Decodes(j) => w[d].env = brought[j].env
      BY <1>1 DEF NeedReload
    <3>2. Decodes(j)' = Decodes(j)
      BY <1>2 DEF Decodes
    <3> QED BY <1>1, <1>2, <1>4, <1>6, <3>1, <3>2 DEF Suits, Decodes
  <2>3. JobSound(d)'
    BY <1>1, <1>2, <1>3, <1>4, <1>5, <1>6, <2>2 DEF WorkerSound, JobSound, Handling
  <2>4. EndSound(d)'
    BY <1>4, <1>5, <1>6 DEF EndSound
  <2> QED BY <2>1, <2>3, <2>4 DEF WorkerSound
<1> HIDE DEF x
<1> QED BY <1>2, <1>5, <1>7, WorkerMoves

(* The job has run; what it left keeps the worker from another one. *)
LEMMA RunStep ==
  ASSUME IInv, NEW d \in Workers, Run(d) PROVE IInv'
<1> USE NoneIsNobody
<1>1. PICK raised \in BOOLEAN, restored \in BOOLEAN, r \in {"done", "err"} :
        w' = [w EXCEPT ![d].result = IF raised \/ ~restored THEN "err" ELSE r,
                       ![d].left = IF Decodes(w[d].job) /\ (raised \/ ~restored)
                                   THEN w[d].job ELSE None,
                       ![d].leaving = Leaving(d, raised, restored)]
  BY DEF Run
<1> DEFINE res == IF raised \/ ~restored THEN "err" ELSE r
           lv == Decodes(w[d].job) /\ (raised \/ ~restored)
           lf == IF lv THEN w[d].job ELSE None
           x == [w[d] EXCEPT !.result = res, !.left = lf, !.leaving = lv]
<1>2. /\ UNCHANGED <<brought, since, code, queue, results>>
      /\ pc[d] = "run" /\ pc' = [pc EXCEPT ![d] = "finish"] /\ "finish" \in Standing
  BY DEF Run, At, users, jobs, world, Standing
<1>3. w[d] \in WorkerLocals /\ WorkerSound(d)
  BY DEF IInv, Typed
<1>4. res \in {"done", "err"} /\ lv \in BOOLEAN /\ lf \in Users \cup {None}
      /\ (lf # None => lv)
  BY <1>3 DEF WorkerLocals
<1>5. w' = [w EXCEPT ![d] = x] /\ w'[d] = x /\ pc'[d] = "finish"
  BY <1>1, <1>2 DEF IInv, Typed, Leaving
<1> HIDE DEF res, lv, lf
<1>6. x \in WorkerLocals
  BY <1>3, <1>4 DEF WorkerLocals
<1>7. /\ w'[d].fp = w[d].fp /\ w'[d].job = w[d].job /\ w'[d].mark = w[d].mark
      /\ w'[d].env = w[d].env /\ w'[d].loaded = w[d].loaded
      /\ w'[d].left = lf /\ w'[d].leaving = lv /\ w'[d].result = res
  <2>1. /\ x.fp = w[d].fp /\ x.job = w[d].job /\ x.mark = w[d].mark
        /\ x.env = w[d].env /\ x.loaded = w[d].loaded /\ x.left = lf /\ x.result = res
    BY <1>3, <1>4 DEF WorkerLocals
  <2>2. x.leaving = lv
    BY <1>3, <1>4, Zenon DEF WorkerLocals
  <2> HIDE DEF x
  <2> QED BY <1>5, <2>1, <2>2
<1>8. WorkerSound(d)'
  <2>1. MarkSound(d)'
    BY <1>2, <1>3, <1>7 DEF WorkerSound, MarkSound
  <2>2. JobSound(d)'
    BY <1>2, <1>3, <1>5, <1>7 DEF WorkerSound, JobSound, Handling, Ending
  <2>3. EndSound(d)'
    BY <1>4, <1>5, <1>7 DEF EndSound, Ending
  <2> QED BY <2>1, <2>2, <2>3 DEF WorkerSound
<1> HIDE DEF x
<1> QED BY <1>2, <1>5, <1>6, <1>8, WorkerMoves

(* The result is put in place first, *)
LEMMA FinishStep ==
  ASSUME IInv, NEW d \in Workers, Finish(d) PROVE IInv'
<1> USE NoneIsNobody
<1> DEFINE j == w[d].job
           res == w[d].result
<1>1. /\ UNCHANGED <<w, brought, since, code, queue>>
      /\ pc[d] = "finish" /\ pc' = [pc EXCEPT ![d] = "unlink"]
      /\ results' = [results EXCEPT ![j] = results[j] \cup {res}]
  BY DEF Finish, At, users, world
<1>2. w[d] \in WorkerLocals /\ WorkerSound(d)
  BY DEF IInv, Typed
<1>3. j \in Users /\ res \in {"done", "err"} /\ since[j] # None /\ w[d].fp <= w[d].loaded
  BY <1>1, <1>2 DEF WorkerLocals, WorkerSound, JobSound, EndSound
<1> HIDE DEF j, res
<1>4. Typed'
  <2>1. pc' \in [Workers \cup Users -> Standing]
    BY <1>1 DEF IInv, Typed, Standing
  <2> QED BY <1>1, <1>3, <2>1 DEF IInv, Typed
<1>5. /\ results'[j] # {} /\ \A u \in Users : results[u] # {} => results'[u] # {}
      /\ \A u \in Users : pc'[u] = pc[u] /\ pc'[d] = "unlink"
  BY <1>1, <1>3 DEF IInv, Typed
<1>6. SubmittedSound' /\ QueueSound'
  BY <1>1, <1>5 DEF IInv, SubmittedSound, UserSound, QueueSound
<1>7. Kept'
  BY <1>1, <1>5 DEF IInv, Kept
<1>8. Lasting
  BY <1>1, <1>5 DEF Lasting, IInv, Typed
<1>9. WorkerSound(d)'
  <2>1. MarkSound(d)'
    BY <1>1, <1>2 DEF WorkerSound, MarkSound
  <2>2. JobSound(d)'
    BY <1>1, <1>2, <1>5 DEF WorkerSound, JobSound, Handling, Ending
  <2>3. EndSound(d)'
    BY <1>1, <1>2, <1>5 DEF WorkerSound, EndSound, Ending, j
  <2> QED BY <2>1, <2>2, <2>3 DEF WorkerSound
<1>10. ASSUME NEW e \in Workers, e # d PROVE WorkerSound(e)'
  <2>1. pc'[e] = pc[e]
    BY <1>1, <1>10 DEF IInv, Typed
  <2> QED BY <1>1, <1>4, <1>8, <2>1, WorkerStays
<1> QED BY <1>4, <1>6, <1>7, <1>9, <1>10 DEF IInv

(* and the job is removed when there is one. *)
LEMMA UnlinkStep ==
  ASSUME IInv, NEW d \in Workers, Unlink(d) PROVE IInv'
<1> USE NoneIsNobody
<1> DEFINE j == w[d].job
           x == [w[d] EXCEPT !.job = None, !.result = None]
           to == IF w[d].leaving THEN "exit" ELSE "idle"
<1>1. /\ UNCHANGED <<brought, since, code, results>>
      /\ pc[d] = "unlink" /\ pc' = [pc EXCEPT ![d] = to] /\ to \in Standing
      /\ queue' = RemoveFirst(queue, j)
      /\ w' = [w EXCEPT ![d].job = None, ![d].result = None]
  BY DEF Unlink, At, users, world, Standing
<1>2. w[d] \in WorkerLocals /\ WorkerSound(d) /\ queue \in Seq(Users) /\ Distinct(queue)
  BY DEF IInv, Typed, QueueSound
<1>3. j \in Users /\ results[j] # {} /\ w[d].fp <= w[d].loaded
  BY <1>1, <1>2 DEF WorkerLocals, WorkerSound, JobSound, EndSound
<1>4. w' = [w EXCEPT ![d] = x] /\ x \in WorkerLocals /\ w'[d] = x
  BY <1>1, <1>2 DEF WorkerLocals, IInv, Typed
<1>5. /\ w'[d].fp = w[d].fp /\ w'[d].job = None /\ w'[d].mark = w[d].mark
      /\ w'[d].env = w[d].env /\ w'[d].loaded = w[d].loaded
      /\ w'[d].left = w[d].left /\ w'[d].leaving = w[d].leaving
  BY <1>2, <1>4, ZenonT(40) DEF WorkerLocals
<1> HIDE DEF j, x
<1>6. queue' \in Seq(Users) /\ Distinct(queue') /\ Elements(queue') = Elements(queue) \ {j}
  BY <1>1, <1>2, RemoveFacts
<1>7. Typed'
  <2>1. pc' \in [Workers \cup Users -> Standing] /\ w' \in [Workers -> WorkerLocals]
    BY <1>1, <1>4 DEF IInv, Typed
  <2> QED BY <1>1, <1>6, <2>1 DEF IInv, Typed
<1>8. pc'[d] = to /\ \A u \in Users : pc'[u] = pc[u]
  BY <1>1 DEF IInv, Typed
<1>9. SubmittedSound' /\ QueueSound'
  BY <1>1, <1>6, <1>8 DEF IInv, SubmittedSound, UserSound, QueueSound
<1>10. Kept'
  <2>1. \A v \in Users : Contains(queue', v) <=> v \in Elements(queue')
    BY <1>6, LenProperties DEF Contains, Elements
  <2>2. \A v \in Users : Contains(queue, v) <=> v \in Elements(queue)
    BY <1>2, LenProperties DEF Contains, Elements
  <2> QED BY <1>1, <1>3, <1>6, <2>1, <2>2 DEF IInv, Kept
<1>11. Lasting
  BY <1>1 DEF Lasting, IInv, Typed
<1>12. WorkerSound(d)'
  <2>1. MarkSound(d)'
    BY <1>1, <1>2, <1>5 DEF WorkerSound, MarkSound
  <2>2. JobSound(d)'
    BY <1>1, <1>2, <1>3, <1>5, <1>8 DEF WorkerSound, JobSound
  <2>3. EndSound(d)'
    BY <1>1, <1>2, <1>5, <1>8 DEF WorkerSound, EndSound, Ending
  <2> QED BY <2>1, <2>2, <2>3 DEF WorkerSound
<1>13. ASSUME NEW e \in Workers, e # d PROVE WorkerSound(e)'
  <2>1. pc'[e] = pc[e] /\ w'[e] = w[e]
    BY <1>1, <1>4, <1>13 DEF IInv, Typed
  <2> QED BY <1>7, <1>11, <2>1, WorkerStays
<1> QED BY <1>7, <1>9, <1>10, <1>12, <1>13 DEF IInv

(***************************************************************************)
(* The world                                                               *)
(***************************************************************************)
LEMMA EditStep ==
  ASSUME IInv, Edit PROVE IInv'
<1>1. UNCHANGED <<pc, w, brought, since, queue, results>> /\ code' = code + 1
  BY DEF Edit, users, jobs
<1>2. Typed' /\ code' >= code /\ code' \in Nat
  BY <1>1 DEF IInv, Typed
<1>3. SubmittedSound' /\ QueueSound' /\ Kept' /\ Lasting
  BY <1>1, <1>2, FilesStay
<1>4. ASSUME NEW d \in Workers PROVE WorkerSound(d)'
  BY <1>1, <1>2, <1>3, WorkerStays
<1> QED BY <1>2, <1>3, <1>4 DEF IInv

(* Who is killed loses what it had in memory, and no file. *)
LEMMA CrashStep ==
  ASSUME IInv, NEW p \in Workers \cup Users, Crash(p) PROVE IInv'
<1> USE NoneIsNobody
<1>1. /\ UNCHANGED <<brought, since, code, queue, results>>
      /\ pc[p] # "new"
      /\ pc' = [pc EXCEPT ![p] = IF p \in Workers THEN "dead" ELSE "back"]
      /\ w' = IF p \in Workers THEN [w EXCEPT ![p] = Started(None, None)] ELSE w
  BY DEF Crash, Alive, users, jobs
<1>2. "dead" \in Standing /\ "back" \in Standing \ {"new"}
  BY DEF Standing
<1>3. CASE p \in Users
  BY <1>1, <1>2, <1>3, UserMoves
<1>4. CASE p \in Workers
  <2>1. Started(None, None) \in WorkerLocals /\ None \in Envs
    BY StartedType DEF Envs
  <2>2. w'[p] = Started(None, None) /\ pc'[p] = "dead"
    BY <1>1, <1>4 DEF IInv, Typed
  <2>3. Typed' => WorkerSound(p)'
    BY <1>4, <2>1, <2>2, StartedSound
  <2>4. pc' = [pc EXCEPT ![p] = "dead"] /\ w' = [w EXCEPT ![p] = Started(None, None)]
    BY <1>1, <1>4
  <2> QED BY <1>1, <1>2, <1>4, <2>1, <2>3, <2>4, WorkerMoves
<1> QED BY <1>3, <1>4

(***************************************************************************)
(* The theorems                                                            *)
(***************************************************************************)
LEMMA InitSound == Init => IInv
<1> SUFFICES ASSUME Init PROVE IInv
  OBVIOUS
<1> USE NoneIsNobody
<1>1. Started(None, None) \in WorkerLocals
  BY StartedType DEF Envs
<1>2. Typed
  BY <1>1, EmptyList DEF Init, Typed, Standing
<1>3. SubmittedSound
  BY DEF Init, SubmittedSound, UserSound
<1>4. QueueSound /\ Kept
  BY DEF Init, QueueSound, Kept, Distinct, Elements
<1>5. ASSUME NEW d \in Workers PROVE WorkerSound(d)
  <2>1. /\ w[d].mark = None /\ w[d].fp = 0 /\ w[d].job = None /\ w[d].left = None
        /\ pc[d] = "dead" /\ code = 0
    BY DEF Init, Started
  <2> QED BY <2>1 DEF WorkerSound, MarkSound, JobSound, EndSound
<1> QED BY <1>2, <1>3, <1>4, <1>5 DEF IInv

LEMMA StepSound == IInv /\ [Next]_vars => IInv'
<1> SUFFICES ASSUME IInv, [Next]_vars PROVE IInv'
  OBVIOUS
<1>1. ASSUME NEW d \in Workers, Worker(d) \/ Leave(d) PROVE IInv'
  BY <1>1, AcquireWorker, BootStep, LeaveStep, RecordStep, LoadStep, LoadedStep, ExitStep, RestartStep,
     TakeStep, RunStep, FinishStep, UnlinkStep DEF Worker
<1>2. ASSUME NEW u \in Users, Come(u) \/ User(u) PROVE IInv'
  BY <1>2, AcquireUser, UserStep, ComeStep, EnqueueStep, PopenStep DEF User
<1>3. CASE UNCHANGED vars
  BY <1>3 DEF vars, users, jobs, world, IInv, Typed, SubmittedSound, UserSound, QueueSound, Kept,
     WorkerSound, MarkSound, JobSound, EndSound, Suits, Decodes
<1> QED BY <1>1, <1>2, <1>3, EditStep, CrashStep DEF Next

(* The lines of ab_submit.py that say a job keeps its place, and the ones of *)
(* ab_daemon.py that put the result in place before they remove the job: a   *)
(* submitted job is in the queue or has a result, whoever is killed.         *)
THEOREM KeptHolds == Spec => []Kept
<1>1. IInv => Kept
  BY DEF IInv
<1> QED BY <1>1, InitSound, StepSound, PTL DEF Spec

LEMMA SoundAsAsked == IInv => AsAsked
<1> SUFFICES ASSUME IInv PROVE AsAsked
  OBVIOUS
<1> USE NoneIsNobody
<1>1. ASSUME NEW d \in Workers, pc[d] = "run", Decodes(w[d].job)
      PROVE  /\ w[d].env = brought[w[d].job].env
             /\ w[d].loaded >= since[w[d].job]
             /\ w[d].tools = w[d].fp => w[d].tools >= since[w[d].job]
             /\ w[d].left = None
  <2>1. w[d] \in WorkerLocals /\ WorkerSound(d)
    BY DEF IInv, Typed
  <2>2. w[d].job \in Users /\ since[w[d].job] # None /\ w[d].fp <= w[d].loaded /\ Suits(d)
    BY <1>1, <2>1 DEF WorkerSound, JobSound, WorkerLocals, Handling
  <2>3. since[w[d].job] \in Nat /\ w[d].fp \in Nat /\ w[d].loaded \in Nat
    BY <2>1, <2>2 DEF IInv, Typed, WorkerLocals
  <2>4. w[d].left = None
    BY <1>1, <2>1 DEF WorkerSound, EndSound, Ending
  <2> QED BY <1>1, <2>2, <2>3, <2>4 DEF Suits
<1>2. \A u \in Users : "refused" \notin results[u]
  BY DEF IInv, Typed
<1> QED BY <1>1, <1>2 DEF AsAsked

(* env_delta, the fingerprint taken before the model is loaded, and the      *)
(* worker that does not go on after a job it could not clean up behind: a    *)
(* job runs in the environment of its submitter, on an engine no older than  *)
(* its submission, with nothing left by another job, and one restart is      *)
(* enough for it.  decode_ab is as new too, unless an edit fell between its  *)
(* import (ab_daemon.py:822) and the fingerprint (832).                      *)
THEOREM AsAskedHolds == Spec => []AsAsked
BY SoundAsAsked, InitSound, StepSound, PTL DEF Spec
==============================================================================
