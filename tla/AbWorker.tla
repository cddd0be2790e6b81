------------------------------ MODULE AbWorker ------------------------------
(***************************************************************************)
(* tools/ab_daemon.py, ab_submit.py and biglock.sh: workers that keep the  *)
(* 98 GB model loaded and run measurement jobs from a queue, the processes *)
(* that submit them, and the lock all of them take in turn for the GPU.    *)
(* They share nothing but files, and any of them may be killed.            *)
(*                                                                         *)
(* A user is a call of ab_submit.py (Direct) or of biglock.sh and brings   *)
(* one job: "decode" is decode_ab, run on a worker's own model, "exec" a   *)
(* command that a worker runs, "own" one that no worker can take.  A       *)
(* worker that replaces itself (execv) keeps its pid.  No pid is used      *)
(* twice: a file left by a dead process names nobody (Gone).  Its ticket   *)
(* counts for nothing and is swept by whoever reads it: here it goes with  *)
(* the process.                                                            *)
(***************************************************************************)
EXTENDS Integers, Sequences, SequencesExt

CONSTANTS
  Workers,           \* bound: as many are alive at once
  Users, Direct,
  Brings,            \* Brings[u]: the jobs u may come with, their kind and the
                     \* environment that matters when a model is loaded
  Prio,              \* Prio[u]: its lane, 2 before 1 before 0
  None, Gone,
  MaxEdits, MaxCrashes   \* bounds: edits of the source, processes killed

ASSUME UsersAssumption ==
  /\ Direct \subseteq Users /\ Prio \in [Users -> 0..2] /\ DOMAIN Brings = Users
  /\ \A u \in Users : \A b \in Brings[u] : b.kind \in {"decode", "exec", "own"}
ASSUME BoundsAssumption == MaxEdits \in Nat /\ MaxCrashes \in Nat
ASSUME NamesAssumption ==
  /\ None # Gone /\ {None, Gone} \cap (Workers \cup Users \cup Nat) = {}
  /\ Workers \cap Users = {}

VARIABLES
  pc,        \* where each process is
  w,         \* the locals of each worker
  brought,   \* brought[u]: the job of u
  again,     \* again[u]: restart is given, u starts a worker when its own is gone
  lock,      \* who made LOCK_FILE, Gone if it is dead, or None
  blank,     \* its pid is not written yet
  tickets,   \* PRIO_DIR, oldest first
  stop,      \* STOP_FILE
  pidfile,   \* the pid in PID_FILE
  queue,     \* the .json files, oldest first
  results,   \* results[u]: the .done and .err files of u's job
  since,     \* the source when u submitted
  code,      \* the source now
  crashes

users == <<brought, again>>
biglock == <<lock, blank, tickets>>
flags == <<stop, pidfile>>
jobs == <<queue, results, since>>
world == <<code, crashes>>
vars == <<pc, w, users, biglock, flags, jobs, world>>

(* A worker started in an environment: os.environ, the job of ENV_JOB_MARK, *)
(* the sources as its imports found them (tools), as the fingerprint noted  *)
(* them (fp) and as the model was loaded from them (loaded), the leftovers  *)
(* in memory, the job at hand.                                              *)
Started(env, mark) ==
  [env |-> env, mark |-> mark, tools |-> 0, fp |-> 0, loaded |-> 0, left |-> None,
   job |-> None, result |-> None, leaving |-> FALSE]

Init ==
  /\ pc = [p \in Workers \cup Users |-> IF p \in Workers THEN "dead" ELSE "new"]
  /\ w = [d \in Workers |-> Started(None, None)]
  /\ brought = [u \in Users |-> None]
  /\ again = [u \in Users |-> u \in Direct]
  /\ lock = None /\ blank = FALSE /\ tickets = <<>>
  /\ stop = FALSE /\ pidfile = None
  /\ queue = <<>> /\ results = [u \in Users |-> {}] /\ since = [u \in Users |-> None]
  /\ code = 0 /\ crashes = 0

Alive(p) == pc[p] \notin {"dead", "new", "back"}
Decodes(u) == brought[u].kind = "decode"
Routable(u) == brought[u].kind \in {"decode", "exec"}

At(p, from, to) == pc[p] = from /\ pc' = [pc EXCEPT ![p] = to]

(* daemon_record() *)
Recorded == pidfile \notin {None, Gone}

Queued(p, prio) == Append(tickets, [who |-> p, prio |-> prio])
Without(p) == SelectSeq(tickets, LAMBDA t : t.who # p)

(***************************************************************************)
(* The lock: biglock_acquire and the loop of biglock.sh                    *)
(***************************************************************************)
Waiting(p) == pc[p] = "wait"

(* _live_higher: somebody alive is in a higher lane, or earlier in this    *)
(* one.                                                                    *)
LiveHigher(p) ==
  \E i, k \in DOMAIN tickets :
    /\ tickets[i].who = p /\ tickets[k].who # p
    /\ \/ tickets[k].prio > tickets[i].prio
       \/ tickets[k].prio = tickets[i].prio /\ k < i

(* A mutant: only an empty lock file is cleared. *)
DeadLockBlank == blank

DeadLock == blank \/ lock = Gone

(* The lock was read and names nobody alive; it is removed later, whatever *)
(* it is by then.                                                          *)
FindDead(p) ==
  /\ lock # None /\ DeadLock
  /\ At(p, "wait", "clear")
  /\ UNCHANGED <<w, users, biglock, flags, jobs, world>>

ClearDead(p) ==
  /\ At(p, "clear", "wait")
  /\ lock' = None /\ blank' = FALSE
  /\ UNCHANGED <<w, users, tickets, flags, jobs, world>>

(* The file is made first (O_EXCL, noclobber), the pid written into it next. *)
MakeLock(p) ==
  /\ lock = None /\ ~LiveHigher(p)
  /\ At(p, "wait", "made")
  /\ lock' = p /\ blank' = TRUE
  /\ UNCHANGED <<w, users, tickets, flags, jobs, world>>

WriteLock(p) ==
  /\ At(p, "made", IF p \in Users THEN "held" ELSE IF w[p].job = None THEN "memory" ELSE "run")
  /\ blank' = (blank /\ lock # p)
  /\ tickets' = Without(p)
  /\ UNCHANGED <<w, users, lock, flags, jobs, world>>

Acquire(p) == FindDead(p) \/ ClearDead(p) \/ MakeLock(p) \/ WriteLock(p)

(* biglock_release(): the lock goes if the pid in it begins with the        *)
(* worker's. The pid of somebody else, or of somebody dead, may.            *)
Release(d) ==
  /\ \/ lock # d /\ lock' = lock
     \/ lock' = IF blank THEN lock ELSE None
  /\ tickets' = Without(d)
  /\ UNCHANGED blank

(***************************************************************************)
(* A worker: start, load, leave                                            *)
(***************************************************************************)
(* A mutant: the sources are fingerprinted when the model is loaded. *)
FingerprintLate(d) == code

(* fp0: the sources as they were before the model was loaded. *)
Fingerprint(d) == IF pc[d] = "record" THEN code ELSE w[d].fp

(* decode_ab, which the jobs run, is imported before the sources are        *)
(* fingerprinted (and the worker's own text was read before that).          *)
Boot(d) ==
  /\ At(d, "boot", "record")
  /\ stop' = FALSE
  /\ w' = [w EXCEPT ![d].tools = code]
  /\ UNCHANGED <<users, biglock, pidfile, jobs, world>>

Record(d) ==
  /\ At(d, "record", "wait")
  /\ w' = [w EXCEPT ![d].fp = Fingerprint(d)]
  /\ pidfile' = d
  /\ tickets' = Queued(d, 1)
  /\ UNCHANGED <<users, lock, blank, stop, jobs, world>>

(* Memory is free, or has been waited for long enough: load_bundle reads    *)
(* the rest of the sources, the engine's and its own.                       *)
Load(d) ==
  /\ At(d, "memory", "load")
  /\ w' = [w EXCEPT ![d].loaded = code]
  /\ UNCHANGED <<users, biglock, flags, jobs, world>>

Loaded(d) ==
  /\ At(d, "load", "idle")
  /\ w' = [w EXCEPT ![d].fp = Fingerprint(d)]
  /\ Release(d)
  /\ UNCHANGED <<users, flags, jobs, world>>

(* A mutant: the job that waited for the lock goes with the worker. *)
StopSeenDropping(d) ==
  /\ stop
  /\ \E from \in {"idle", "wait", "memory"} : At(d, from, "exit")
  /\ queue' = RemoveFirst(queue, w[d].job)
  /\ UNCHANGED <<w, users, biglock, flags, results, since, world>>

(* The stop file is looked at when idle and in the waits for the lock and  *)
(* for memory (StopRequested); a job that was taken stays in the queue.    *)
StopSeen(d) ==
  /\ stop
  /\ \E from \in {"idle", "wait", "memory"} : At(d, from, "exit")
  /\ UNCHANGED <<w, users, biglock, flags, jobs, world>>

(* --idle-exit-s and --yield-after-s: nothing to do for a while. *)
Leave(d) ==
  /\ queue = <<>>
  /\ At(d, "idle", "exit")
  /\ UNCHANGED <<w, users, biglock, flags, jobs, world>>

(* _cleanup_files() and os._exit *)
Exit(d) ==
  /\ At(d, "exit", "dead")
  /\ w' = [w EXCEPT ![d] = Started(None, None)]
  /\ stop' = FALSE
  /\ pidfile' = IF pidfile = d THEN None ELSE pidfile
  /\ Release(d)
  /\ UNCHANGED <<users, jobs, world>>

(***************************************************************************)
(* A worker: jobs                                                          *)
(***************************************************************************)
(* read_jobs()[0]: the highest lane, then the oldest. *)
Foremost(j) ==
  \E i \in DOMAIN queue :
    /\ queue[i] = j
    /\ \A k \in DOMAIN queue : Prio[queue[k]] < Prio[j] \/ (Prio[queue[k]] = Prio[j] /\ i <= k)

Picks(d, j) == pc[d] = "idle" /\ ~stop /\ Foremost(j)

(* env_delta's need_reload *)
NeedReload(d, j) == Decodes(j) /\ w[d].env # brought[j].env

(* os.execv, os.execve: the same process from the beginning. *)
Reborn(d, env, mark) ==
  /\ At(d, "idle", "boot")
  /\ w' = [w EXCEPT ![d] = Started(env, mark)]
  /\ Release(d)
  /\ UNCHANGED <<users, flags, jobs, world>>

Refuse(d, j) ==
  /\ At(d, "idle", "finish")
  /\ w' = [w EXCEPT ![d].job = j, ![d].result = "refused"]
  /\ UNCHANGED <<users, biglock, flags, jobs, world>>

RestartForCode(d) ==
  \E j \in Users : Picks(d, j) /\ w[d].fp # code /\ Reborn(d, w[d].env, w[d].mark)

(* A mutant: the worker starts again in the environment it has. *)
NewEnvKept(d, j) == w[d].env

NewEnv(d, j) == brought[j].env

(* It is started again for a job once; a second time the job is refused. *)
RestartForEnv(d) ==
  \E j \in Users :
    /\ Picks(d, j) /\ w[d].fp = code /\ NeedReload(d, j)
    /\ IF w[d].mark # j THEN Reborn(d, NewEnv(d, j), j) ELSE Refuse(d, j)

Take(d) ==
  /\ \E j \in Users :
       /\ Picks(d, j) /\ w[d].fp = code /\ ~NeedReload(d, j)
       /\ w' = [w EXCEPT ![d].job = j]
       /\ tickets' = Queued(d, Prio[j])
  /\ At(d, "idle", "wait")
  /\ UNCHANGED <<users, lock, blank, flags, jobs, world>>

(* A mutant: only a state that cannot be restored ends the worker. *)
LeavingUnlessRestored(d, raised, restored) == ~restored

(* After a job that raised, or that it could not clean up behind, a worker *)
(* does not trust itself.                                                  *)
Leaving(d, raised, restored) == Decodes(w[d].job) /\ (raised \/ ~restored)

(* The job runs to its end; then environ, restore_state and reset_engine,  *)
(* still under the lock. What an exception breaks they do not repair.      *)
Run(d) ==
  /\ At(d, "run", "finish")
  /\ \E raised, restored \in BOOLEAN, r \in {"done", "err"} :
       w' = [w EXCEPT ![d].result = IF raised \/ ~restored THEN "err" ELSE r,
                      ![d].left = IF Decodes(w[d].job) /\ (raised \/ ~restored)
                                  THEN w[d].job ELSE None,
                      ![d].leaving = Leaving(d, raised, restored)]
  /\ Release(d)
  /\ UNCHANGED <<users, flags, jobs, world>>

(* finish(): the result is put in place, *)
Finish(d) ==
  /\ At(d, "finish", "unlink")
  /\ results' = [results EXCEPT ![w[d].job] = @ \cup {w[d].result}]
  /\ UNCHANGED <<w, users, biglock, flags, queue, since, world>>

(* and then the job removed. *)
Unlink(d) ==
  /\ At(d, "unlink", IF w[d].leaving THEN "exit" ELSE "idle")
  /\ queue' = RemoveFirst(queue, w[d].job)
  /\ w' = [w EXCEPT ![d].job = None, ![d].result = None]
  /\ UNCHANGED <<users, biglock, flags, results, since, world>>

Worker(d) ==
  \/ Acquire(d)
  \/ Boot(d) \/ Record(d) \/ Load(d) \/ Loaded(d) \/ StopSeen(d) \/ Exit(d)
  \/ RestartForCode(d) \/ RestartForEnv(d) \/ Take(d)
  \/ Run(d) \/ Finish(d) \/ Unlink(d)

(***************************************************************************)
(* A user: in front of the queue                                           *)
(***************************************************************************)
(* start_daemon: the worker inherits the environment of whoever starts it. *)
Popen(u, to) ==
  LET free == {d \in Workers : pc[d] = "dead"}
      d == CHOOSE d \in free : TRUE
  IN  IF free = {} THEN pc' = [pc EXCEPT ![u] = to] /\ UNCHANGED w
      ELSE /\ pc' = [pc EXCEPT ![u] = to, ![d] = "boot"]
           /\ w' = [w EXCEPT ![d] = Started(brought[u].env, None)]

Come(u) ==
  /\ At(u, "new", IF u \in Direct THEN "ask" ELSE "front")
  /\ \E b \in Brings[u] : brought' = [brought EXCEPT ![u] = b]
  /\ tickets' = IF u \in Direct THEN tickets ELSE Queued(u, Prio[u])
  /\ UNCHANGED <<w, again, lock, blank, flags, jobs, world>>

(* A mutant: the ticket stays while a worker does the job. *)
HandedOverInLine(u) == tickets

(* biglock.sh takes its ticket back before it hands a job over. *)
HandedOver(u) == Without(u)

(* A file of a worker is looked for, not whether the worker lives. *)
ToWorker(u) == Decodes(u) \/ pidfile # None

Delegate(u) ==
  /\ At(u, "front", "ask") /\ ToWorker(u)
  /\ tickets' = HandedOver(u)
  /\ UNCHANGED <<w, users, lock, blank, flags, jobs, world>>

DoItself(u) ==
  /\ At(u, "front", "wait") /\ ~ToWorker(u)
  /\ UNCHANGED <<w, users, biglock, flags, jobs, world>>

(* enqueue() *)
Enqueue(u) ==
  /\ \E from \in {"ask", "await"} : At(u, from, "tail")
  /\ Recorded /\ Routable(u) /\ since[u] = None
  /\ queue' = Append(queue, u)
  /\ since' = [since EXCEPT ![u] = code]
  /\ UNCHANGED <<w, users, biglock, flags, results, world>>

Start(u) ==
  /\ pc[u] = "ask" /\ ~Recorded /\ Decodes(u)
  /\ Popen(u, "await")
  /\ UNCHANGED <<users, biglock, flags, jobs, world>>

(* Back in line: nobody takes the job (NOT_ROUTABLE, run_fallback). *)
InLine(u) ==
  /\ since[u] = None
  /\ \/ At(u, "ask", "wait") /\ ~Decodes(u) /\ ~(Recorded /\ Routable(u))
     \/ ~Recorded /\ At(u, "await", IF again[u] THEN "front" ELSE "wait")
  /\ again' = [again EXCEPT ![u] = FALSE]
  /\ tickets' = Queued(u, Prio[u])
  /\ UNCHANGED <<w, brought, lock, blank, flags, jobs, world>>

(* tail_until_done: first the results, then the job, then the worker. *)
TailLog(u) ==
  /\ At(u, "tail", IF results[u] # {} THEN "back" ELSE "look")
  /\ UNCHANGED <<w, users, biglock, flags, jobs, world>>

(* The job is still there, and so is a worker, or there is one again. *)
Look(u) ==
  /\ Recorded
  /\ \/ Contains(queue, u) /\ At(u, "look", "tail")
     \/ since[u] # None /\ At(u, "await", "tail")
  /\ UNCHANGED <<w, users, biglock, flags, jobs, world>>

Restart(u) ==
  /\ pc[u] = "look" /\ Contains(queue, u) /\ ~Recorded /\ again[u]
  /\ Popen(u, "await")
  /\ UNCHANGED <<users, biglock, flags, jobs, world>>

(* Return codes 5 and 6: the job is gone, the worker is. *)
GiveUpJob(u) ==
  /\ \/ ~Contains(queue, u) /\ At(u, "look", "back")
     \/ ~Recorded /\ ~again[u] /\ At(u, "look", "back")
     \/ ~Recorded /\ since[u] # None /\ At(u, "await", "back")
  /\ UNCHANGED <<w, users, biglock, flags, jobs, world>>

(***************************************************************************)
(* A user: with the lock                                                   *)
(***************************************************************************)
(* A worker that has the model is told to give it back. *)
AskToStop(u) ==
  /\ Prio[u] < 2 /\ Recorded
  /\ At(u, "held", "asked")
  /\ stop' = TRUE
  /\ UNCHANGED <<w, users, biglock, pidfile, jobs, world>>

NobodyToAsk(u) ==
  /\ ~(Prio[u] < 2 /\ Recorded)
  /\ At(u, "held", "own")
  /\ UNCHANGED <<w, users, biglock, flags, jobs, world>>

(* It has gone, or half an hour has. *)
Asked(u) ==
  /\ At(u, "asked", "own")
  /\ stop' = FALSE
  /\ UNCHANGED <<w, users, biglock, pidfile, jobs, world>>

(* The command ends; the EXIT trap removes the lock, whosever it is. *)
Done(u) ==
  /\ At(u, "own", "back")
  /\ lock' = None /\ blank' = FALSE /\ tickets' = Without(u)
  /\ UNCHANGED <<w, users, flags, jobs, world>>

User(u) ==
  \/ Acquire(u)
  \/ Delegate(u) \/ DoItself(u) \/ Enqueue(u) \/ Start(u) \/ InLine(u)
  \/ TailLog(u) \/ Look(u) \/ Restart(u) \/ GiveUpJob(u)
  \/ AskToStop(u) \/ NobodyToAsk(u) \/ Asked(u) \/ Done(u)

(***************************************************************************)
(* The world                                                               *)
(***************************************************************************)
Edit ==
  /\ code < MaxEdits
  /\ code' = code + 1
  /\ UNCHANGED <<pc, w, users, biglock, flags, jobs, crashes>>

(* Killed: what it had in files stays, what it had in memory is gone. *)
Crash(p) ==
  /\ crashes < MaxCrashes /\ Alive(p)
  /\ crashes' = crashes + 1
  /\ pc' = [pc EXCEPT ![p] = IF p \in Workers THEN "dead" ELSE "back"]
  /\ w' = IF p \in Workers THEN [w EXCEPT ![p] = Started(None, None)] ELSE w
  /\ tickets' = Without(p)
  /\ lock' = IF lock = p THEN Gone ELSE lock
  /\ pidfile' = IF pidfile = p THEN Gone ELSE pidfile
  /\ UNCHANGED <<users, blank, stop, jobs, code>>

Next ==
  \/ \E d \in Workers : Worker(d) \/ Leave(d)
  \/ \E u \in Users : Come(u) \/ User(u)
  \/ Edit
  \/ \E p \in Workers \cup Users : Crash(p)

Spec == Init /\ [][Next]_vars

Fairness ==
  /\ \A d \in Workers : WF_vars(Worker(d))
  /\ \A u \in Users : WF_vars(User(u))

FairSpec == Spec /\ Fairness

(***************************************************************************)
(* Properties                                                              *)
(***************************************************************************)
(* A job that was submitted is in the queue or has a result, whoever is    *)
(* killed, stopped or replaced in between (ab_submit.py:260-262).          *)
Kept == \A u \in Users : since[u] # None => Contains(queue, u) \/ results[u] # {}

(* A job measures what it was submitted to measure: the environment of its *)
(* submitter, an engine no older than its submission, and a model on which *)
(* no earlier job has left anything; and to get there one reload is enough *)
(* (ab_daemon.py:57-68, 974-1008).  The same of decode_ab only when no     *)
(* edit fell between its import and the fingerprint (ab_daemon.py:822 and  *)
(* 832): such an edit is in the fingerprint and not in memory, no later    *)
(* comparison finds it, and lines 65-69 promise more than the code does.   *)
AsAsked ==
  /\ \A d \in Workers :
       pc[d] = "run" /\ Decodes(w[d].job) =>
         /\ w[d].env = brought[w[d].job].env
         /\ w[d].loaded >= since[w[d].job]
         /\ w[d].tools = w[d].fp => w[d].tools >= since[w[d].job]
         /\ w[d].left = None
  /\ \A u \in Users : "refused" \notin results[u]

(* Whoever comes returns: nobody waits for ever for a lock, a ticket, a    *)
(* worker or a result, and they do not all wait for each other.            *)
AllReturn == \A u \in Users : pc[u] # "new" ~> pc[u] = "back"
=============================================================================
