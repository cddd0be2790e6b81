---------------------------- MODULE NgramStream ----------------------------
(***************************************************************************)
(* The row cache of StreamNGram in mlxturbo/ngram_stream.py (the pread     *)
(* backend): the MLX thread looks rows up while the daemon threads of      *)
(* prefetch() fill the cache.                                              *)
(*                                                                         *)
(* A generation of the cache is an index and a buffer of Cap slots.  The   *)
(* lock covers the writers; a reader takes the current generation once and *)
(* goes on with it, whatever becomes current meanwhile.  The record of a   *)
(* row on disk is the row itself.  A generation that nobody refers to is   *)
(* garbage, and its name is used again.                                    *)
(***************************************************************************)
EXTENDS Naturals, Sequences, FiniteSets, SequencesExt, Selections

CONSTANTS
  Rows,      \* row ids of the n-gram tables
  Batches,   \* the rows a forward or a prefetch asks for
  Mlx,       \* the thread that runs the model
  Daemons,   \* the threads prefetch(wait=False) starts
  Cap,       \* _cache_cap
  Junk,      \* what np.empty holds
  NoLock     \* _cache_lock when nobody holds it

ASSUME RowsAssumption == Rows \subseteq Nat /\ Batches \subseteq Seq(Rows) \ {<<>>}
ASSUME ThreadsAssumption == IsFiniteSet(Daemons) /\ Mlx \notin Daemons
ASSUME CapAssumption == Cap \in Nat \ {0}
ASSUME NamesAssumption == Junk \notin Rows /\ NoLock \notin Daemons \union {Mlx}

Threads == Daemons \union {Mlx}
Gens == 1..(Cardinality(Threads) + 2)
None == 0

VARIABLES
  enabled,  \* prefetch_enabled
  cur,      \* _cache_gen
  heap,     \* the _NGramCacheGen objects
  lock,     \* the holder of _cache_lock
  th        \* where each thread stands, and its locals

streamVars == <<enabled, cur, heap, lock, th>>

Blank == [idx |-> [r \in Rows |-> None], buf |-> [s \in 1..Cap |-> Junk], n |-> 0]

Idle == [pc |-> "idle", op |-> "none", gen |-> None, rows |-> <<>>,
         out |-> <<>>, at |-> 1, slot |-> None, miss |-> <<>>, put |-> <<>>]

StreamInit ==
  /\ enabled \in BOOLEAN
  /\ cur = None
  /\ heap = [g \in Gens |-> Blank]
  /\ lock = NoLock
  /\ th = [t \in Threads |-> Idle]

At(t, pc) == th[t].pc = pc

(* A generation lasts as long as something refers to it. *)
Collected(h) ==
  [g \in Gens |-> IF g = cur' \/ \E t \in Threads : th'[t].gen = g THEN h[g] ELSE Blank]

(* A name for _NGramCacheGen(...). *)
FreeGen == CHOOSE g \in Gens : g # cur /\ \A t \in Threads : th[t].gen # g

(***************************************************************************)
(* _gather_cached: look up, row by row, in one generation                  *)
(***************************************************************************)
Call(batch) ==
  /\ At(Mlx, "idle")
  /\ LET allMiss == cur = None \/ heap[cur].n = 0
     IN  th' = [th EXCEPT ![Mlx] =
                  [Idle EXCEPT !.op = "call", !.rows = batch, !.gen = cur,
                               !.out = [i \in DOMAIN batch |-> Junk],
                               !.pc = IF allMiss THEN "pread" ELSE "look",
                               !.miss = IF allMiss THEN [i \in DOMAIN batch |-> i] ELSE <<>>]]
  /\ UNCHANGED <<enabled, cur, heap, lock>>

(* slot = idx.get(row) *)
Look ==
  /\ At(Mlx, "look")
  /\ LET x == th[Mlx]
         slot == heap[x.gen].idx[x.rows[x.at]]
     IN  th' = [th EXCEPT ![Mlx] =
                  IF x.at > Len(x.rows) THEN [x EXCEPT !.pc = "pread"]
                  ELSE IF slot # None THEN [x EXCEPT !.pc = "copy", !.slot = slot]
                  ELSE [x EXCEPT !.at = @ + 1, !.miss = Append(@, x.at)]]
  /\ UNCHANGED <<enabled, cur, heap, lock>>

(* out[i] = buf[slot] *)
Copy ==
  /\ At(Mlx, "copy")
  /\ LET x == th[Mlx]
     IN  th' = [th EXCEPT ![Mlx].out[x.at] = heap[x.gen].buf[x.slot],
                          ![Mlx].at = @ + 1, ![Mlx].slot = None, ![Mlx].pc = "look"]
  /\ UNCHANGED <<enabled, cur, heap, lock>>

(* A mutant: what was read is put where the rows stood in the file.        *)
ScatterFromFront(x) ==
  [i \in DOMAIN x.out |-> IF i \in 1..Len(x.miss) THEN x.rows[x.miss[i]] ELSE x.out[i]]

(* out[i] = got[j] *)
Scatter(x) ==
  [i \in DOMAIN x.out |-> IF i \in Range(x.miss) THEN x.rows[i] ELSE x.out[i]]

(* _gather_pread of the rows that were not there. *)
Pread ==
  /\ At(Mlx, "pread")
  /\ LET x == th[Mlx]
     IN  th' = [th EXCEPT ![Mlx] =
                  [x EXCEPT !.out = Scatter(x), !.gen = None,
                            !.put = [j \in DOMAIN x.miss |-> x.rows[x.miss[j]]],
                            !.miss = <<>>, !.at = 1,
                            !.pc = IF x.miss = <<>> THEN "idle" ELSE "ensure"]]
  /\ UNCHANGED <<enabled, cur, lock>>
  /\ heap' = Collected(heap)

(***************************************************************************)
(* prefetch and _prefetch_worker                                           *)
(***************************************************************************)
Fetch(t, op, batch) ==
  th' = [th EXCEPT ![t] = [Idle EXCEPT !.pc = "ensure", !.op = op, !.rows = batch]]

(* prefetch(wait=True): a new prefill begins; the generation is dropped    *)
(* without the lock.                                                       *)
PrefetchHere(batch) ==
  /\ enabled
  /\ At(Mlx, "idle")
  /\ cur' = None
  /\ Fetch(Mlx, "fetch", batch)
  /\ UNCHANGED <<enabled, lock>>
  /\ heap' = Collected(heap)

(* prefetch(wait=False) starts a thread and goes on. *)
PrefetchBehind(t, batch) ==
  /\ enabled
  /\ At(Mlx, "idle") /\ At(t, "idle")
  /\ Fetch(t, "fetch", batch)
  /\ UNCHANGED <<enabled, cur, heap, lock>>

(* The rows worth reading, each once (np.unique). *)
Missing(x, g) == InOrder({r \in Range(x.rows) : heap[g].idx[r] = None})

(* _prefetch_worker between its _ensure_cache_gen and its _cache_put, the  *)
(* index of generation g being read at once.                               *)
Select(t) ==
  /\ At(t, "select")
  /\ LET rows == Missing(th[t], th[t].gen)
     IN  th' = [th EXCEPT ![t] =
                  IF rows = <<>> THEN Idle
                  ELSE [@ EXCEPT !.op = "put", !.put = rows, !.gen = None, !.pc = "ensure"]]
  /\ UNCHANGED <<enabled, cur, lock>>
  /\ heap' = Collected(heap)

(***************************************************************************)
(* _ensure_cache_gen                                                       *)
(***************************************************************************)
(* It has returned g: to _prefetch_worker, which reads its index, or to    *)
(* _cache_put, which only asks whether there is one.                       *)
Ensured(t, g) ==
  th' = [th EXCEPT ![t] =
           IF g = None THEN [@ EXCEPT !.pc = "idle", !.put = <<>>]
           ELSE IF @.op = "fetch" THEN [@ EXCEPT !.gen = g, !.pc = "select"]
           ELSE [@ EXCEPT !.pc = "lock"]]

Ensure(t) ==
  /\ At(t, "ensure")
  /\ IF cur # None \/ ~enabled
     THEN Ensured(t, cur)
     ELSE th' = [th EXCEPT ![t].pc = "create"]
  /\ UNCHANGED <<enabled, cur, heap, lock>>

(* Under the lock: whoever comes second finds what the first one made. *)
Create(t) ==
  /\ At(t, "create")
  /\ lock = NoLock
  /\ IF cur # None
     THEN Ensured(t, cur) /\ UNCHANGED <<cur, heap>>
     ELSE /\ cur' = FreeGen
          /\ Ensured(t, cur')
          /\ UNCHANGED heap
  /\ UNCHANGED <<enabled, lock>>

(***************************************************************************)
(* _cache_put                                                              *)
(***************************************************************************)
(* A mutant: a failed writer keeps the lock. *)
FailureKeepsLock(t) == t

(* The with statement gives the lock back. *)
FailureReleases(t) == NoLock

(* _cache_put reads _cache_gen anew, under the lock. prefetch() may have   *)
(* dropped the generation since _ensure_cache_gen saw it: then gen.idx     *)
(* raises, and the thread ends.                                            *)
Lock(t) ==
  /\ At(t, "lock")
  /\ lock = NoLock
  /\ IF cur = None
     THEN /\ lock' = FailureReleases(t)
          /\ th' = [th EXCEPT ![t] = [Idle EXCEPT !.op = "raised"]]
     ELSE /\ lock' = t
          /\ th' = [th EXCEPT ![t].gen = cur, ![t].pc = "fill"]
  /\ UNCHANGED <<enabled, cur, heap>>

(* A mutant: the full generation is emptied and used again. *)
RenewedInPlace(g) == g

(* A full generation is replaced, never used again. *)
Renewed(g) == FreeGen

Filled(x, r) == [x EXCEPT !.buf[x.n + 1] = r]

(* A mutant: one row more than there are slots. *)
FullLate(x) == x.n > Cap

Full(x) == x.n >= Cap

(* gen.buf[gen.n] = data[i] *)
Fill(t) ==
  /\ At(t, "fill")
  /\ th[t].put # <<>>
  /\ LET r == Head(th[t].put)
         g == th[t].gen
     IN  IF heap[g].idx[r] # None
         THEN /\ th' = [th EXCEPT ![t].put = Tail(@)]
              /\ UNCHANGED <<cur, heap>>
         ELSE IF ~Full(heap[g])
         THEN /\ heap' = [heap EXCEPT ![g] = Filled(@, r)]
              /\ th' = [th EXCEPT ![t].pc = "publish"]
              /\ UNCHANGED cur
         ELSE /\ cur' = Renewed(g)
              /\ th' = [th EXCEPT ![t].gen = cur', ![t].pc = "publish"]
              /\ heap' = Collected([heap EXCEPT ![cur'] = Filled(Blank, r)])
  /\ UNCHANGED <<enabled, lock>>

(* gen.idx[row] = gen.n; gen.n += 1 *)
Published(x, r) == [x EXCEPT !.idx[r] = x.n + 1, !.n = x.n + 1]

Publish(t) ==
  /\ At(t, "publish")
  /\ heap' = [heap EXCEPT ![th[t].gen] = Published(@, Head(th[t].put))]
  /\ th' = [th EXCEPT ![t].pc = "fill", ![t].put = Tail(@)]
  /\ UNCHANGED <<enabled, cur, lock>>

(* The end of _cache_put, and of the worker or the call it belongs to. *)
PutDone(t) ==
  /\ At(t, "fill")
  /\ th[t].put = <<>>
  /\ lock' = NoLock
  /\ th' = [th EXCEPT ![t] = IF t = Mlx THEN [@ EXCEPT !.pc = "idle", !.gen = None] ELSE Idle]
  /\ UNCHANGED <<enabled, cur>>
  /\ heap' = Collected(heap)

Work(t) == Ensure(t) \/ Create(t) \/ Select(t) \/ Lock(t) \/ Fill(t) \/ Publish(t) \/ PutDone(t)

StreamNext ==
  \/ \E batch \in Batches :
       \/ Call(batch)
       \/ PrefetchHere(batch)
       \/ \E t \in Daemons : PrefetchBehind(t, batch)
  \/ Look \/ Copy \/ Pread
  \/ \E t \in Threads : Work(t)

StreamSpec == StreamInit /\ [][StreamNext]_streamVars

(* Threads that have something to do go on, and the lock is handed to a    *)
(* waiting thread in the end.                                              *)
FairSpec ==
  /\ StreamSpec
  /\ WF_streamVars(Look \/ Copy \/ Pread)
  /\ \A t \in Threads : WF_streamVars(Work(t))

(***************************************************************************)
(* Properties                                                              *)
(***************************************************************************)
Generation == [idx : [Rows -> 0..Cap], buf : [1..Cap -> Rows \union {Junk}], n : 0..Cap]

Locals ==
  [pc : {"idle", "look", "copy", "pread", "ensure", "create", "select", "lock", "fill", "publish"},
   op : {"none", "call", "fetch", "put", "raised"},
   gen : Gens \union {None}, rows : Seq(Rows), out : Seq(Rows \union {Junk}),
   at : Nat \ {0}, slot : 0..Cap, miss : Seq(Nat \ {0}), put : Seq(Rows)]

(* The type invariant of the cache and of its threads. *)
TypeOK ==
  /\ enabled \in BOOLEAN
  /\ cur \in Gens \union {None}
  /\ heap \in [Gens -> Generation]
  /\ lock \in Threads \union {NoLock}
  /\ th \in [Threads -> Locals]

(* What a lookup returns is, row for row, what is on disk, whichever       *)
(* generations its prefetchers replace, drop or fill under it              *)
(* (ngram_stream.py:180-188, 619-662), and the MLX thread itself never     *)
(* fails on a generation that is gone.                                     *)
RowsFromDisk ==
  /\ At(Mlx, "idle") /\ th[Mlx].op = "call" => th[Mlx].out = th[Mlx].rows
  /\ th[Mlx].op # "raised"

(* A lookup or a foreground prefetch always comes back: no daemon, not     *)
(* even one that fails under the lock, keeps the MLX thread waiting        *)
(* (ngram_stream.py:604-617).                                              *)
MlxComesBack == ~At(Mlx, "idle") ~> At(Mlx, "idle")
=============================================================================
