--------------------------- MODULE BatchingProofs ---------------------------
(***************************************************************************)
(* Proofs about the two halves of batched serving, for any number of rows: *)
(*                                                                         *)
(* - BatchCoordinator, the scheduling: safety for any set of admissions,   *)
(*   any prompt and token lengths, any budget and any --max-batch;         *)
(* - RaggedLedger, the columns of the speculative batch: for any widths of *)
(*   a round and any prompts, ledger, caches and masks stay aligned, and   *)
(*   the batch implements RaggedRows.                                      *)
(*                                                                         *)
(* In the ledger, whatever is done to a row is one of five things to its   *)
(* columns: it is padded on the left, packed to the right end, written     *)
(* behind, committed in part, or made anew.  Lemmas show what each does to *)
(* the columns that are seen; the steps of the batch follow from them.     *)
(***************************************************************************)
EXTENDS BatchCoordinator, RaggedLedger, ListFacts, FiniteSetTheorems, TLAPS

(***************************************************************************)
(* Type correctness                                                        *)
(***************************************************************************)

LEMMA InitType == Init => TypeOK
<1> SUFFICES ASSUME Init PROVE TypeOK OBVIOUS
<1> USE DEF Init
<1>1. left \in [Requests -> Nat]
  BY RequestAssumption
<1>2. inbox \in Seq(Requests) /\ pendSolo \in Seq(Requests) /\ pendPool \in Seq(Requests)
      /\ execq \in Seq(Jobs \cup {Drive})
  BY EmptyList
<1>3. claim \in [Sessions -> Requests \cup {None}] /\ cache \in [Sessions -> Requests \cup {None}]
  OBVIOUS
<1> QED BY <1>1, <1>2, <1>3 DEF TypeOK, Outcomes, Steps, Completing

LEMMA EventLoopType ==
  ASSUME TypeOK, EventLoop
  PROVE  TypeOK'
<1> USE RequestAssumption
    DEF TypeOK, Outcomes, Steps, Completing, Completions, driveVars, queueVars, sessionVars,
        requestVars
<1>1. ASSUME NEW r \in Requests, Put(r) PROVE TypeOK'
  <2>1. inbox' \in Seq(Requests)
    BY <1>1, AppendProperties DEF Put
  <2>2. claim' \in [Sessions -> Requests \cup {None}] /\ reuse' \subseteq Requests
    <3>1. CASE UNCHANGED <<claim, reuse>> BY <3>1
    <3>2. ASSUME NEW s \in Sessions, claim' = [claim EXCEPT ![s] = r],
                 reuse' = reuse \/ reuse' = reuse \cup {r}
          PROVE  claim' \in [Sessions -> Requests \cup {None}] /\ reuse' \subseteq Requests
      BY <3>2
    <3> QED BY <1>1, <3>1, <3>2 DEF Put
  <2>3. future' \in [Requests -> Outcomes \cup {"none", "pending"}]
    BY <1>1 DEF Put
  <2> QED BY <1>1, <2>1, <2>2, <2>3, SMTT(30) DEF Put
<1>2. ASSUME NEW r \in Requests, Kick(r) PROVE TypeOK'
  BY <1>2 DEF Kick
<1>3. ASSUME NEW r \in Requests, Cancel(r) PROVE TypeOK'
  BY <1>3 DEF Cancel
<1>4. ASSUME NEW r \in Requests, Forget(r) PROVE TypeOK'
  BY <1>4, SMTT(30) DEF Forget, Ended
<1>5. ASSUME NEW j \in Jobs, SubmitJob(j) PROVE TypeOK'
  BY <1>5 DEF SubmitJob
<1> QED BY <1>1, <1>2, <1>3, <1>4, <1>5 DEF EventLoop

LEMMA ExecutorType ==
  ASSUME TypeOK, Executor
  PROVE  TypeOK'
<1> USE RequestAssumption
    DEF TypeOK, Outcomes, Steps, Completing, Completions, driveVars, queueVars, sessionVars,
        requestVars
<1>1. CASE StartJob BY <1>1, ListParts DEF StartJob
<1>2. CASE StartDrive BY <1>2, ListParts DEF StartDrive
<1>3. ASSUME NEW j \in Jobs, EndJob(j) PROVE TypeOK' BY <1>3 DEF EndJob
<1>4. CASE Take
  <2>1. inbox # <<>> /\ Head(inbox) \in Requests /\ Tail(inbox) \in Seq(Requests)
    BY <1>4, ListParts DEF Take
  <2>2. pendSolo' \in Seq(Requests) /\ pendPool' \in Seq(Requests)
    <3>1. Append(pendSolo, Head(inbox)) \in Seq(Requests)
      BY <2>1, AppendProperties
    <3>2. Append(pendPool, Head(inbox)) \in Seq(Requests)
      BY <2>1, AppendProperties
    <3> QED BY <1>4, <3>1, <3>2 DEF Take
  <2> QED BY <1>4, <2>1, <2>2 DEF Take
<1>5. CASE InboxEmpty BY <1>5 DEF InboxEmpty
<1>6. CASE Wake BY <1>6 DEF Wake
<1>7. CASE AdmitPool
  <2>1. Head(pendPool) \in Requests /\ Tail(pendPool) \in Seq(Requests)
    BY <1>7, ListParts DEF AdmitPool, PoolMayAdmit
  <2> DEFINE r == Head(pendPool)
  <2>2. CASE r \in cancelled
    <3>1. fin' = [req |-> r, how |-> "cancelled", back |-> "admit"] /\ pc' = "release"
      BY <1>7, <2>2 DEF AdmitPool, Admit, Complete
    <3>2. fin' \in Completions
      BY <3>1, <2>1
    <3>3. UNCHANGED <<live, mode, filling, cache, lent>>
      BY <1>7, <2>2 DEF AdmitPool, Admit
    <3> QED BY <1>7, <2>1, <3>1, <3>2, <3>3 DEF AdmitPool
  <2>3. CASE r \notin cancelled
    <3>1. cache' \in [Sessions -> Requests \cup {None}]
      BY <1>7, <2>3 DEF AdmitPool, Admit, PrepareSession
    <3>2. /\ live' \subseteq Requests /\ filling' \subseteq Requests
          /\ lent' \subseteq Requests /\ mode' \in {"solo", "pool", None}
          /\ pc' \in Steps /\ fin' \in Completions \cup {None}
          /\ (pc' \in Completing => fin' \in Completions)
      <4>1. CASE /\ live' = live \cup {r} /\ filling' = filling \cup {r}
                 /\ lent' = IF OwnsMovedCache(r) THEN lent \cup {r} ELSE lent
                 /\ mode' = "pool" /\ pc' = "admit" /\ UNCHANGED fin
        BY <4>1, <2>1
      <4>2. CASE Complete(r, "error", "admit") /\ UNCHANGED <<live, mode, filling, lent>>
        BY <4>2, <2>1 DEF Complete
      <4> QED BY <1>7, <2>3, <4>1, <4>2 DEF AdmitPool, Admit
    <3> QED BY <1>7, <2>1, <3>1, <3>2 DEF AdmitPool
  <2> QED BY <2>2, <2>3
<1>8. CASE AdmitSolo
  <2>1. Head(pendSolo) \in Requests /\ Tail(pendSolo) \in Seq(Requests)
    BY <1>8, ListParts DEF AdmitSolo, SoloMayAdmit
  <2> DEFINE r == Head(pendSolo)
  <2>2. CASE r \in cancelled
    <3>1. fin' = [req |-> r, how |-> "cancelled", back |-> "check"] /\ pc' = "release"
      BY <1>8, <2>2 DEF AdmitSolo, Admit, Complete
    <3>2. fin' \in Completions
      BY <3>1, <2>1
    <3>3. UNCHANGED <<live, mode, filling, cache, lent>>
      BY <1>8, <2>2 DEF AdmitSolo, Admit
    <3> QED BY <1>8, <2>1, <3>1, <3>2, <3>3 DEF AdmitSolo
  <2>3. CASE r \notin cancelled
    <3>1. cache' \in [Sessions -> Requests \cup {None}]
      BY <1>8, <2>3 DEF AdmitSolo, Admit, PrepareSession
    <3>2. /\ live' \subseteq Requests /\ filling' \subseteq Requests
          /\ lent' \subseteq Requests /\ mode' \in {"solo", "pool", None}
          /\ pc' \in Steps /\ fin' \in Completions \cup {None}
          /\ (pc' \in Completing => fin' \in Completions)
      <4>1. CASE /\ live' = live \cup {r} /\ filling' = filling \cup {r}
                 /\ lent' = IF OwnsMovedCache(r) THEN lent \cup {r} ELSE lent
                 /\ mode' = "solo" /\ pc' = "check" /\ UNCHANGED fin
        BY <4>1, <2>1
      <4>2. CASE Complete(r, "error", "check") /\ UNCHANGED <<live, mode, filling, lent>>
        BY <4>2, <2>1 DEF Complete
      <4> QED BY <1>8, <2>3, <4>1, <4>2 DEF AdmitSolo, Admit
    <3> QED BY <1>8, <2>1, <3>1, <3>2 DEF AdmitSolo
  <2> QED BY <2>2, <2>3
<1>9. CASE AdmitNone BY <1>9 DEF AdmitNone
<1>10. CASE CheckIdle BY <1>10 DEF CheckIdle
<1>11. CASE Tick BY <1>11 DEF Tick
<1>12. CASE TickFails BY <1>12 DEF TickFails
<1>13. ASSUME NEW r \in Requests, Deliver(r) PROVE TypeOK'
  <2>1. left' \in [Requests -> Nat]
    BY <1>13 DEF Deliver
  <2> QED BY <1>13, <2>1 DEF Deliver, Answering
<1>14. ASSUME NEW r \in Requests, DeliverRaises(r) PROVE TypeOK'
  BY <1>14 DEF DeliverRaises, Answering, Leave, Complete
<1>15. ASSUME NEW r \in Requests, Finish(r) PROVE TypeOK'
  <2>1. left' \in [Requests -> Nat]
    <3>1. CASE UNCHANGED left BY <3>1
    <3>2. CASE left' = [left EXCEPT ![r] = 0] BY <3>2
    <3> QED BY <1>15, <3>1, <3>2 DEF Finish
  <2>2. cache' \in [Sessions -> Requests \cup {None}]
    <3>1. CASE UNCHANGED cache BY <3>1
    <3>2. CASE cache' = [s \in Sessions |-> IF claim[s] = r THEN r ELSE cache[s]]
      BY <3>2
    <3> QED BY <1>15, <3>1, <3>2 DEF Finish, PublishSession
  <2>3. pc' \in Completing /\ fin' \in Completions
    BY <1>15 DEF Finish, Complete
  <2> QED BY <1>15, <2>1, <2>2, <2>3 DEF Finish, Leave
<1>16. CASE EndOfTick BY <1>16 DEF EndOfTick
<1>17. CASE Release BY <1>17 DEF Release
<1>18. CASE Notify BY <1>18 DEF Notify
<1>19. CASE NotifyRaises BY <1>19 DEF NotifyRaises
<1>20. CASE Resolve BY <1>20 DEF Resolve
<1>21. CASE FailLive BY <1>21 DEF FailLive, Leave, Complete
<1>22. CASE FailSolo
  <2>1. Head(pendSolo) \in Requests /\ Tail(pendSolo) \in Seq(Requests)
    BY <1>22, ListParts DEF FailSolo
  <2> QED BY <1>22, <2>1 DEF FailSolo, Complete
<1>23. CASE FailPool
  <2>1. Head(pendPool) \in Requests /\ Tail(pendPool) \in Seq(Requests)
    BY <1>23, ListParts DEF FailPool
  <2> QED BY <1>23, <2>1 DEF FailPool, Complete
<1>24. CASE FailDone BY <1>24 DEF FailDone
<1>25. CASE Close BY <1>25, EmptyList DEF Close
<1>26. CASE Recheck BY <1>26 DEF Recheck
<1>27. CASE Restart BY <1>27 DEF Restart
<1> QED
  BY <1>1, <1>2, <1>3, <1>4, <1>5, <1>6, <1>7, <1>8, <1>9, <1>10, <1>11, <1>12,
     <1>13, <1>14, <1>15, <1>16, <1>17, <1>18, <1>19, <1>20, <1>21, <1>22, <1>23,
     <1>24, <1>25, <1>26, <1>27
  DEF Executor, DriveStep, Answer

(* Every variable keeps its type, and a completion is in progress exactly  *)
(* while _drive stands inside _complete.                                   *)
THEOREM TypeCorrect == Spec => []TypeOK
<1>1. TypeOK /\ UNCHANGED vars => TypeOK'
  BY DEF TypeOK, vars, requestVars, queueVars, driveVars, sessionVars
<1>2. TypeOK /\ [Next]_vars => TypeOK'
  BY <1>1, EventLoopType, ExecutorType DEF Next
<1> QED BY InitType, <1>2, PTL DEF Spec

(***************************************************************************)
(* Who may share a batch                                                   *)
(***************************************************************************)

(* CoResidency is not inductive: an admission is judged by the mode and by  *)
(* the list it waits in, so both must say what is resident and pending.     *)
Tiers ==
  /\ \A i \in DOMAIN pendPool : classify(pendPool[i]) = "pool"
  /\ \A i \in DOMAIN pendSolo : classify(pendSolo[i]) = "solo"
  /\ live # {} => mode # None
  /\ mode = "pool" => FitsTogether(live) /\ \A r \in live : classify(r) = "pool"
  /\ mode = "solo" => \A r \in live : live = {r} /\ classify(r) = "solo"
  /\ IsFiniteSet(live) /\ Cardinality(live) <= MaxBatch

(* A set of rows that fits the budget still does without one of them. *)
LEMMA FitsFewer ==
  ASSUME NEW A, NEW B \in SUBSET A, FitsTogether(A)
  PROVE  FitsTogether(B)
  BY DEF FitsTogether

(* A pool request fits the budget alone: what classify() proves. *)
LEMMA PoolFitsAlone ==
  ASSUME NEW r \in Requests, classify(r) = "pool"
  PROVE  FitsTogether({r})
<1>1. PromptLen[r] \in Nat /\ MaxTokens[r] \in Nat
  BY RequestAssumption
<1>2. CASE Budget = None
  BY <1>2 DEF FitsTogether
<1>3. CASE Budget # None
  <2>1. Budget \in Nat
    BY <1>3, CapacityAssumption
  <2>2. PromptLen[r] + MaxTokens[r] <= Budget
    BY <1>1, <1>3, <2>1 DEF classify
  <2> QED BY <2>2 DEF FitsTogether
<1> QED BY <1>2, <1>3

LEMMA TiersKept ==
  ASSUME Tiers, UNCHANGED <<pendPool, pendSolo, live, mode>>
  PROVE  Tiers'
  BY DEF Tiers, classify, FitsTogether

LEMMA AdmitPoolTiers ==
  ASSUME TypeOK, Tiers, AdmitPool
  PROVE  Tiers'
<1> DEFINE r == Head(pendPool)
<1>1. /\ r \in Requests /\ classify(r) = "pool"
      /\ \A i \in DOMAIN Tail(pendPool) : classify(Tail(pendPool)[i]) = "pool"
  BY ListParts DEF TypeOK, Tiers, AdmitPool, PoolMayAdmit
<1>2. pendPool' = Tail(pendPool) /\ pendSolo' = pendSolo
  BY DEF AdmitPool
<1>3. CASE UNCHANGED <<live, mode>>
  BY <1>1, <1>2, <1>3 DEF Tiers, classify, FitsTogether
<1>4. CASE live' = live \cup {r} /\ mode' = "pool"
  <2>1. \A q \in live : classify(q) = "pool"
    BY DEF Tiers, AdmitPool, PoolMayAdmit
  <2>2. FitsTogether(live \cup {r})
    BY <1>1, PoolFitsAlone DEF AdmitPool, PoolMayAdmit, PoolAdmissionFits
  <2>3. IsFiniteSet(live') /\ Cardinality(live') <= MaxBatch
    <3>1. IsFiniteSet(live) /\ Cardinality(live) < MaxBatch
      BY DEF Tiers, AdmitPool, PoolMayAdmit
    <3>2. Cardinality(live) \in Nat /\ MaxBatch \in Nat
      BY <3>1, FS_CardinalityType, CapacityAssumption
    <3> QED BY <1>4, <3>1, <3>2, FS_AddElement
  <2>4. mode' = "pool" /\ mode' # "solo" /\ mode' # None
    BY <1>4, NamesAssumption
  <2>5. \A q \in live' : classify(q) = "pool"
    BY <1>1, <1>4, <2>1
  <2> QED BY <1>1, <1>2, <1>4, <2>2, <2>3, <2>4, <2>5
      DEF Tiers, classify, FitsTogether
<1> QED BY <1>3, <1>4 DEF AdmitPool, Admit, Complete

LEMMA AdmitSoloTiers ==
  ASSUME TypeOK, Tiers, AdmitSolo
  PROVE  Tiers'
<1> DEFINE r == Head(pendSolo)
<1>1. /\ r \in Requests /\ classify(r) = "solo"
      /\ \A i \in DOMAIN Tail(pendSolo) : classify(Tail(pendSolo)[i]) = "solo"
  BY ListParts DEF TypeOK, Tiers, AdmitSolo, SoloMayAdmit
<1>2. pendSolo' = Tail(pendSolo) /\ pendPool' = pendPool
  BY DEF AdmitSolo
<1>3. CASE UNCHANGED <<live, mode>>
  BY <1>1, <1>2, <1>3 DEF Tiers, classify, FitsTogether
<1>4. CASE live' = {r} /\ mode' = "solo"
  <2>1. IsFiniteSet(live') /\ Cardinality(live') <= MaxBatch
    <3>1. IsFiniteSet({r}) /\ Cardinality({r}) = 1
      BY FS_Singleton
    <3> QED BY <1>4, <3>1, CapacityAssumption
  <2>2. mode' = "solo" /\ mode' # "pool" /\ mode' # None
    BY <1>4, NamesAssumption
  <2> QED BY <1>1, <1>2, <1>4, <2>1, <2>2 DEF Tiers, classify, FitsTogether
<1>5. live = {}
  BY DEF AdmitSolo, SoloMayAdmit
<1> QED BY <1>3, <1>4, <1>5 DEF AdmitSolo, Admit, Complete

LEMMA TakeTiers ==
  ASSUME TypeOK, Tiers, Take
  PROVE  Tiers'
<1> DEFINE r == Head(inbox)
<1>1. r \in Requests /\ classify(r) \in {"pool", "solo"}
  BY ListParts DEF TypeOK, Take, classify
<1>2. CASE classify(r) = "solo"
  <2>1. pendSolo' = Append(pendSolo, r) /\ pendPool' = pendPool
    BY <1>2 DEF Take
  <2>2. \A i \in DOMAIN pendSolo' : classify(pendSolo'[i]) = "solo"
    BY <1>1, <1>2, <2>1, AppendProperties, SMTT(30) DEF TypeOK, Tiers
  <2> QED BY <2>1, <2>2 DEF Take, Tiers, classify, FitsTogether
<1>3. CASE classify(r) = "pool"
  <2>1. pendPool' = Append(pendPool, r) /\ pendSolo' = pendSolo
    BY <1>3 DEF Take
  <2>2. \A i \in DOMAIN pendPool' : classify(pendPool'[i]) = "pool"
    BY <1>1, <1>3, <2>1, AppendProperties, SMTT(30) DEF TypeOK, Tiers
  <2> QED BY <2>1, <2>2 DEF Take, Tiers, classify, FitsTogether
<1> QED BY <1>1, <1>2, <1>3

(* A row leaves, the mode stays. *)
LEMMA LeaveTiers ==
  ASSUME Tiers, NEW r, live' = live \ {r}, UNCHANGED <<mode, pendSolo, pendPool>>
  PROVE  Tiers'
<1>1. mode = "pool" => FitsTogether(live')
  BY FitsFewer DEF Tiers
<1>2. IsFiniteSet(live') /\ Cardinality(live') <= MaxBatch
  <2>1. IsFiniteSet(live') /\ Cardinality(live') <= Cardinality(live)
    BY FS_Subset DEF Tiers
  <2>2. Cardinality(live) \in Nat /\ Cardinality(live') \in Nat /\ MaxBatch \in Nat
    BY <2>1, FS_CardinalityType, CapacityAssumption DEF Tiers
  <2> QED BY <2>1, <2>2 DEF Tiers
<1> QED BY <1>1, <1>2 DEF Tiers, classify, FitsTogether

LEMMA TiersStep ==
  ASSUME TypeOK, Tiers, Next
  PROVE  Tiers'
<1> USE DEF requestVars, queueVars, driveVars, sessionVars
<1>1. CASE EventLoop
  <2>1. UNCHANGED <<pendPool, pendSolo, live, mode>>
    BY <1>1 DEF EventLoop, Put, Kick, Cancel, Forget, SubmitJob
  <2> QED BY <2>1, TiersKept
<1>2. CASE StartJob \/ StartDrive \/ (\E j \in Jobs : EndJob(j))
  <2>1. UNCHANGED <<pendPool, pendSolo, live, mode>>
    BY <1>2 DEF StartJob, StartDrive, EndJob
  <2> QED BY <2>1, TiersKept
<1>3. CASE InboxEmpty \/ Wake \/ AdmitNone \/ CheckIdle \/ Tick \/ TickFails
  <2>1. UNCHANGED <<pendPool, pendSolo, live, mode>>
    BY <1>3 DEF InboxEmpty, Wake, AdmitNone, CheckIdle, Tick, TickFails
  <2> QED BY <2>1, TiersKept
<1>4. CASE Release \/ Notify \/ NotifyRaises \/ Resolve \/ FailDone \/ Recheck \/ Restart
  <2>1. UNCHANGED <<pendPool, pendSolo, live, mode>>
    BY <1>4 DEF Release, Notify, NotifyRaises, Resolve, FailDone, Recheck, Restart
  <2> QED BY <2>1, TiersKept
<1>5. CASE Answer
  <2>1. ASSUME NEW r \in Requests, Deliver(r) PROVE Tiers'
    BY <2>1, TiersKept DEF Deliver
  <2>2. ASSUME NEW r \in Requests, DeliverRaises(r) PROVE Tiers'
    BY <2>2, LeaveTiers DEF DeliverRaises, Leave
  <2>3. ASSUME NEW r \in Requests, Finish(r) PROVE Tiers'
    BY <2>3, LeaveTiers DEF Finish, Leave
  <2> QED BY <1>5, <2>1, <2>2, <2>3 DEF Answer
<1>6. CASE FailLive
  BY <1>6, LeaveTiers DEF FailLive, Leave
<1>7. CASE FailSolo
  <2>1. \A i \in DOMAIN Tail(pendSolo) : classify(Tail(pendSolo)[i]) = "solo"
    BY <1>7, ListParts DEF FailSolo, TypeOK, Tiers
  <2> QED BY <1>7, <2>1 DEF FailSolo, Tiers, classify, FitsTogether
<1>8. CASE FailPool
  <2>1. \A i \in DOMAIN Tail(pendPool) : classify(Tail(pendPool)[i]) = "pool"
    BY <1>8, ListParts DEF FailPool, TypeOK, Tiers
  <2> QED BY <1>8, <2>1 DEF FailPool, Tiers, classify, FitsTogether
<1>9. CASE EndOfTick
  BY <1>9 DEF EndOfTick, Tiers, classify, FitsTogether
<1>10. CASE Close
  <2>1. IsFiniteSet(live') /\ Cardinality(live') <= MaxBatch
    BY <1>10, FS_EmptySet, CapacityAssumption DEF Close
  <2> QED BY <1>10, <2>1, NamesAssumption DEF Close, Tiers
<1> QED
  BY <1>1, <1>2, <1>3, <1>4, <1>5, <1>6, <1>7, <1>8, <1>9, <1>10, AdmitPoolTiers,
     AdmitSoloTiers, TakeTiers
  DEF Next, Executor, DriveStep

(* Rows that share a batch fit the budget together, a solo row is alone,    *)
(* and there are at most max_batch rows, whatever arrives and whenever.     *)
THEOREM CoResidencyHolds == Spec => []CoResidency
<1>1. Init => Tiers
  BY FS_EmptySet, CapacityAssumption DEF Init, Tiers, FitsTogether
<1>2. TypeOK /\ Tiers /\ [Next]_vars => Tiers'
  <2>1. Tiers /\ UNCHANGED vars => Tiers'
    BY TiersKept DEF vars, driveVars
  <2> QED BY <2>1, TiersStep
<1>3. TypeOK /\ Tiers => CoResidency
  <2> SUFFICES ASSUME TypeOK, Tiers PROVE CoResidency OBVIOUS
  <2>1. mode = "pool" \/ mode = "solo" \/ live = {}
    BY DEF TypeOK, Tiers
  <2>2. FitsTogether({r \in live : classify(r) = "pool"})
    BY <2>1, FitsFewer DEF Tiers, FitsTogether
  <2>3. \A r \in live : classify(r) = "solo" => live = {r}
    BY <2>1 DEF Tiers
  <2> QED BY <2>2, <2>3 DEF Tiers, CoResidency
<1> QED BY <1>1, <1>2, <1>3, TypeCorrect, PTL DEF Spec

(***************************************************************************)
(* One drive loop, and nobody left in the inbox                            *)
(***************************************************************************)

(* Where _drive stands in the executor's queue. *)
Queued == {i \in DOMAIN execq : execq[i] = Drive}

LEMMA DriverKept ==
  ASSUME OneDriver, UNCHANGED <<active, execq>>, Driving' <=> Driving
  PROVE  OneDriver'
  BY DEF OneDriver

(* Work appended to the queue adds its own place only. *)
LEMMA QueueAppend ==
  ASSUME TypeOK, NEW w \in Jobs \cup {Drive}, execq' = Append(execq, w)
  PROVE  Queued' = IF w = Drive THEN Queued \cup {Len(execq) + 1} ELSE Queued
<1>1. /\ execq \in Seq(Jobs \cup {Drive}) /\ Len(execq') = Len(execq) + 1
      /\ \A i \in 1..Len(execq) : execq'[i] = execq[i]
      /\ execq'[Len(execq) + 1] = w
      /\ execq' \in Seq(Jobs \cup {Drive})
  BY AppendProperties DEF TypeOK
<1>2. /\ DOMAIN execq = 1..Len(execq) /\ DOMAIN execq' = 1..(Len(execq) + 1)
      /\ Len(execq) \in Nat
  BY <1>1
<1> QED BY <1>1, <1>2 DEF Queued

(* Taking the head of the queue moves every other place down by one. *)
LEMMA QueueTail ==
  ASSUME TypeOK, execq # <<>>, execq' = Tail(execq)
  PROVE  /\ \A i \in Queued' : i + 1 \in Queued
         /\ \A i \in Queued : i # 1 => i - 1 \in Queued'
         /\ 1 \in Queued <=> Head(execq) = Drive
         /\ Queued \subseteq Nat /\ Queued' \subseteq Nat \ {0}
<1>1. /\ execq \in Seq(Jobs \cup {Drive}) /\ Len(execq') = Len(execq) - 1
      /\ \A i \in 1..Len(execq') : execq'[i] = execq[i + 1]
      /\ execq' \in Seq(Jobs \cup {Drive})
      /\ Head(execq) = execq[1]
  BY HeadTailProperties DEF TypeOK
<1>2. /\ DOMAIN execq = 1..Len(execq) /\ DOMAIN execq' = 1..Len(execq')
      /\ Len(execq) \in Nat /\ Len(execq) # 0
  BY <1>1
<1> QED BY <1>1, <1>2 DEF Queued

(* A loop is started only by whoever sets _active. *)
LEMMA StartDriver ==
  ASSUME TypeOK, OneDriver, active' = TRUE, Driving' <=> Driving,
         execq' = IF active THEN execq ELSE Append(execq, Drive)
  PROVE  OneDriver'
<1>1. CASE active
  BY <1>1 DEF OneDriver
<1>2. CASE ~active
  <2>1. Queued = {} /\ ~Driving
    BY <1>2 DEF OneDriver, Queued
  <2>2. Queued' = {Len(execq) + 1}
    BY <1>2, <2>1, QueueAppend
  <2> QED BY <2>1, <2>2 DEF OneDriver, Queued
<1> QED BY <1>1, <1>2

LEMMA DriverStep ==
  ASSUME TypeOK, OneDriver, Next
  PROVE  OneDriver'
<1> USE DEF requestVars, queueVars, driveVars, sessionVars
<1>1. ASSUME NEW r \in Requests, Kick(r) PROVE OneDriver'
  BY <1>1, StartDriver DEF Kick, Driving
<1>2. ASSUME NEW r \in Requests, Put(r) \/ Cancel(r) \/ Forget(r) PROVE OneDriver'
  BY <1>2, DriverKept DEF Put, Cancel, Forget, Driving
<1>3. ASSUME NEW j \in Jobs, SubmitJob(j) PROVE OneDriver'
  <2>1. Queued' = Queued
    BY <1>3, QueueAppend, NamesAssumption DEF SubmitJob
  <2>2. active' = active /\ (Driving' <=> Driving)
    BY <1>3 DEF SubmitJob, Driving
  <2> QED BY <2>1, <2>2 DEF OneDriver, Queued
<1>4. CASE StartJob
  <2>1. active' = active /\ (Driving' <=> Driving)
    BY <1>4 DEF StartJob, Driving
  <2>2. /\ \A i \in Queued' : i + 1 \in Queued
        /\ \A i \in Queued : i # 1 => i - 1 \in Queued'
        /\ 1 \notin Queued /\ Queued \subseteq Nat /\ Queued' \subseteq Nat
    BY <1>4, QueueTail DEF StartJob
  <2>3. Queued' = {} <=> Queued = {}
    BY <2>2
  <2>4. \A i, j \in Queued' : i = j
    <3>1. \A i, j \in Queued : i = j
      BY DEF OneDriver, Queued
    <3> QED BY <2>2, <3>1
  <2> QED BY <2>1, <2>3, <2>4 DEF OneDriver, Queued
<1>5. CASE StartDrive
  <2>1. active' = active /\ ~Driving /\ Driving'
    BY <1>5 DEF StartDrive, Driving, ThreadFree
  <2>2. /\ \A i \in Queued' : i + 1 \in Queued /\ i \in Nat \ {0}
        /\ 1 \in Queued
    BY <1>5, QueueTail DEF StartDrive
  <2>3. \A i, j \in Queued : i = j
    BY DEF OneDriver, Queued
  <2>4. Queued' = {}
    BY <2>2, <2>3
  <2>5. active
    BY <2>2 DEF OneDriver, Queued
  <2> QED BY <2>1, <2>4, <2>5 DEF OneDriver, Queued
<1>6. ASSUME NEW j \in Jobs, EndJob(j) PROVE OneDriver'
  BY <1>6, DriverKept DEF EndJob, Driving
<1>7. CASE Take \/ InboxEmpty \/ Wake \/ AdmitNone \/ CheckIdle \/ Tick \/ TickFails
           \/ EndOfTick \/ Release \/ Notify \/ NotifyRaises \/ FailDone \/ Recheck
  BY <1>7, DriverKept
  DEF Take, InboxEmpty, Wake, AdmitNone, CheckIdle, Tick, TickFails, EndOfTick,
      Release, Notify, NotifyRaises, FailDone, Recheck, Driving
<1>8. CASE AdmitPool \/ AdmitSolo
  BY <1>8, DriverKept DEF AdmitPool, AdmitSolo, Admit, Complete, Driving
<1>9. CASE Answer \/ FailLive \/ FailSolo \/ FailPool
  BY <1>9, DriverKept
  DEF Answer, Deliver, DeliverRaises, Finish, Answering, FailLive, FailSolo, FailPool,
      Complete, Driving
<1>10. CASE Resolve
  <2>1. fin.back \in {"admit", "check", "respond", "fail"}
    BY <1>10 DEF Resolve, TypeOK, Completing, Completions
  <2> QED BY <1>10, <2>1, DriverKept DEF Resolve, Driving
<1>11. CASE Close
  <2>1. Queued' = {} /\ ~active' /\ ~Driving'
    BY <1>11 DEF Close, OneDriver, Driving, Queued
  <2> QED BY <2>1 DEF OneDriver, Queued
<1>12. CASE Restart
  BY <1>12, StartDriver DEF Restart, Driving
<1> QED
  BY <1>1, <1>2, <1>3, <1>4, <1>5, <1>6, <1>7, <1>8, <1>9, <1>10, <1>11, <1>12
  DEF Next, EventLoop, Executor, DriveStep

(* _active tells the truth: one _drive is queued or running while it is     *)
(* set, none otherwise, however submits interleave with the loop's exit.    *)
THEOREM OneDriverHolds == Spec => []OneDriver
<1>1. Init => OneDriver
  BY DEF Init, OneDriver, Driving
<1>2. TypeOK /\ OneDriver /\ [Next]_vars => OneDriver'
  <2>1. OneDriver /\ UNCHANGED vars => OneDriver'
    BY DriverKept DEF vars, queueVars, driveVars, Driving
  <2> QED BY <2>1, DriverStep
<1> QED BY <1>1, <1>2, TypeCorrect, PTL DEF Spec

LEMMA InboxStep ==
  ASSUME InboxServed, Next
  PROVE  InboxServed'
<1> USE DEF requestVars, queueVars, driveVars, sessionVars, InboxServed
<1>1. CASE EventLoop
  BY <1>1 DEF EventLoop, Put, Kick, Cancel, Forget, SubmitJob
<1>2. CASE StartJob \/ StartDrive \/ (\E j \in Jobs : EndJob(j))
  BY <1>2 DEF StartJob, StartDrive, EndJob, ThreadFree
<1>3. CASE Take \/ InboxEmpty \/ Wake \/ AdmitNone \/ CheckIdle \/ Tick \/ TickFails
  BY <1>3 DEF Take, InboxEmpty, Wake, AdmitNone, CheckIdle, Tick, TickFails
<1>4. CASE AdmitPool \/ AdmitSolo \/ Answer \/ EndOfTick
  BY <1>4
  DEF AdmitPool, AdmitSolo, Answer, Deliver, DeliverRaises, Finish, Answering, EndOfTick
<1>5. CASE Release \/ Notify \/ NotifyRaises \/ Resolve
  BY <1>5 DEF Release, Notify, NotifyRaises, Resolve
<1>6. CASE FailLive \/ FailSolo \/ FailPool \/ FailDone \/ Close
  BY <1>6 DEF FailLive, FailSolo, FailPool, FailDone, Close
<1>7. CASE Recheck \/ Restart
  BY <1>7 DEF Recheck, Restart
<1> QED
  BY <1>1, <1>2, <1>3, <1>4, <1>5, <1>6, <1>7 DEF Next, Executor, DriveStep

(* A late arrival is never stranded in the inbox: whenever it holds an      *)
(* admission, someone is bound to look at it again.                         *)
THEOREM InboxServedHolds == Spec => []InboxServed
<1>1. Init => InboxServed
  BY DEF Init, InboxServed
<1>2. InboxServed /\ [Next]_vars => InboxServed'
  <2>1. InboxServed /\ UNCHANGED vars => InboxServed'
    BY DEF InboxServed, vars, requestVars, queueVars, driveVars
  <2> QED BY <2>1, InboxStep
<1> QED BY <1>1, <1>2, PTL DEF Spec

(***************************************************************************)
(* Where an admission is, and what it holds there                          *)
(***************************************************************************)
Ending == IF pc \in Completing THEN {fin.req} ELSE {}
Held ==
  Elements(inbox) \cup Elements(pendSolo) \cup Elements(pendPool) \cup live \cup Ending

(* An admission that is submitted and has not been told of its end. *)
Due(r) == future[r] = "pending" /\ (told[r] = 0 \/ Resolving(r))

(* Accounted is not inductive: it counts an admission only where it can be  *)
(* seen. The lists and sets are told apart here, and hold those due an end. *)
Apart(i, s, p, l, e) ==
  /\ i \cap s = {} /\ i \cap p = {} /\ i \cap l = {} /\ i \cap e = {}
  /\ s \cap p = {} /\ s \cap l = {} /\ s \cap e = {}
  /\ p \cap l = {} /\ p \cap e = {} /\ l \cap e = {}

HomesSound ==
  /\ Distinct(inbox) /\ Distinct(pendSolo) /\ Distinct(pendPool)
  /\ Apart(Elements(inbox), Elements(pendSolo), Elements(pendPool), live, Ending)
  /\ \A r \in Requests : r \in Held <=> Due(r)

ToldSound ==
  /\ \A r \in Requests :
       /\ told[r] <= IF r \in Streaming THEN 1 ELSE 0
       /\ r \in Streaming /\ (Ended(r) \/ Resolving(r)) => told[r] = 1
       /\ future[r] = "none" => told[r] = 0
  /\ pc = "notify" => fin.req \in Streaming

(* What the loop is sure of where it stands. *)
DriveSound ==
  /\ answers \subseteq live
  /\ pc = "close" => pendSolo = <<>> /\ pendPool = <<>> /\ live = {}

(* A session is claimed by an admission that is still to be released. *)
ClaimSound ==
  \A s \in Sessions :
    claim[s] # None =>
      Due(claim[s]) /\ ~(pc \in {"notify", "resolve"} /\ fin.req = claim[s])

Whereabouts == HomesSound /\ ToldSound /\ DriveSound /\ ClaimSound /\ CacheMoved

(* The steps that neither end an admission nor tell anyone of its end. *)
LEMMA EndsKept ==
  ASSUME ToldSound, ClaimSound, UNCHANGED <<future, told, claim>>,
         pc \notin {"notify", "resolve"}, pc' \notin {"notify", "resolve"}
  PROVE  ToldSound' /\ ClaimSound' /\ \A r \in Requests : Due(r)' <=> Due(r)
  BY DEF ToldSound, ClaimSound, Due, Resolving, Ended

LEMMA StillHere ==
  ASSUME Whereabouts, UNCHANGED <<inbox, pendSolo, pendPool, live, future, told, claim, cache,
                                  lent>>,
         answers' \subseteq live,
         pc' = "close" => pendSolo = <<>> /\ pendPool = <<>> /\ live = {},
         UNCHANGED <<pc, fin>> \/ (pc \notin Completing /\ pc' \notin Completing)
  PROVE  Whereabouts'
<1>1. Ending' = Ending /\ Held' = Held
  BY DEF Ending, Held
<1>2. ToldSound' /\ ClaimSound' /\ \A r \in Requests : Due(r)' <=> Due(r)
  <2>1. CASE UNCHANGED <<pc, fin>>
    BY <2>1 DEF Whereabouts, ToldSound, ClaimSound, Due, Resolving, Ended
  <2>2. CASE pc \notin Completing /\ pc' \notin Completing
    BY <2>2, EndsKept DEF Whereabouts, Completing
  <2> QED BY <2>1, <2>2
<1>3. HomesSound'
  BY <1>1, <1>2 DEF Whereabouts, HomesSound
<1>4. DriveSound' /\ CacheMoved'
  BY DEF Whereabouts, DriveSound, CacheMoved
<1> QED BY <1>2, <1>3, <1>4 DEF Whereabouts

(* A row leaves the batch and its completion starts. *)
LEMMA RowEnds ==
  ASSUME TypeOK, Whereabouts, NEW r \in live, NEW how, NEW back,
         pc \notin Completing, Leave(r), Complete(r, how, back),
         UNCHANGED <<inbox, pendSolo, pendPool, future, told, claim>>,
         \A s \in Sessions : claim[s] # r => cache'[s] = cache[s]
  PROVE  Whereabouts'
<1>0. r \in Requests
  BY DEF TypeOK
<1>1. Ending = {} /\ Ending' = {r} /\ live' = live \ {r}
  BY DEF Ending, Complete, Completing, Leave
<1>2. ToldSound' /\ ClaimSound' /\ \A x \in Requests : Due(x)' <=> Due(x)
  BY EndsKept DEF Whereabouts, Complete, Completing
<1>3. HomesSound'
  <2>1. Apart(Elements(inbox), Elements(pendSolo), Elements(pendPool), live, Ending)
    BY DEF Whereabouts, HomesSound
  <2>2. Apart(Elements(inbox), Elements(pendSolo), Elements(pendPool), live', Ending')
    BY <1>1, <2>1 DEF Apart
  <2>3. Held' = Held
    BY <1>1 DEF Held
  <2> QED BY <1>2, <2>2, <2>3 DEF Whereabouts, HomesSound
<1>4. DriveSound'
  BY DEF Whereabouts, DriveSound, Leave, Complete
<1>5. CacheMoved'
  BY DEF Whereabouts, CacheMoved, Leave
<1> QED BY <1>2, <1>3, <1>4, <1>5 DEF Whereabouts

(* The head of a pending list is completed at once. *)
LEMMA SoloEnds ==
  ASSUME TypeOK, Whereabouts, NEW how, NEW back, pendSolo # <<>>, pc \notin Completing,
         pendSolo' = Tail(pendSolo), Complete(Head(pendSolo), how, back),
         UNCHANGED <<inbox, pendPool, live, answers, future, told, claim, lent>>,
         \A s \in Sessions : claim[s] # Head(pendSolo) => cache'[s] = cache[s]
  PROVE  Whereabouts'
<1> DEFINE r == Head(pendSolo)
<1>0. pendSolo \in Seq(Requests) /\ r \in Requests
  BY ListParts DEF TypeOK
<1>1. Ending = {} /\ Ending' = {r}
  BY DEF Ending, Complete, Completing
<1>2. ToldSound' /\ ClaimSound' /\ \A x \in Requests : Due(x)' <=> Due(x)
  BY EndsKept DEF Whereabouts, Complete, Completing
<1>3. /\ Distinct(pendSolo') /\ Elements(pendSolo') = Elements(pendSolo) \ {r}
      /\ Elements(pendSolo) = Elements(pendSolo') \cup {r}
  BY <1>0, TailFacts DEF Whereabouts, HomesSound
<1> HIDE DEF r
<1>4. HomesSound'
  <2>1. Apart(Elements(inbox), Elements(pendSolo), Elements(pendPool), live, Ending)
    BY DEF Whereabouts, HomesSound
  <2>2. Apart(Elements(inbox), Elements(pendSolo'), Elements(pendPool), live, Ending')
    BY <1>1, <1>3, <2>1 DEF Apart
  <2>3. Held' = Held
    BY <1>1, <1>3 DEF Held
  <2> QED BY <1>2, <1>3, <2>2, <2>3 DEF Whereabouts, HomesSound
<1>5. DriveSound'
  BY DEF Whereabouts, DriveSound, Complete
<1>6. CacheMoved'
  <2>1. r \notin live
    BY <1>3 DEF Whereabouts, HomesSound, Apart
  <2> QED BY <2>1 DEF Whereabouts, CacheMoved, r
<1> QED BY <1>2, <1>4, <1>5, <1>6 DEF Whereabouts

LEMMA PoolEnds ==
  ASSUME TypeOK, Whereabouts, NEW how, NEW back, pendPool # <<>>, pc \notin Completing,
         pendPool' = Tail(pendPool), Complete(Head(pendPool), how, back),
         UNCHANGED <<inbox, pendSolo, live, answers, future, told, claim, lent>>,
         \A s \in Sessions : claim[s] # Head(pendPool) => cache'[s] = cache[s]
  PROVE  Whereabouts'
<1> DEFINE r == Head(pendPool)
<1>0. pendPool \in Seq(Requests) /\ r \in Requests
  BY ListParts DEF TypeOK
<1>1. Ending = {} /\ Ending' = {r}
  BY DEF Ending, Complete, Completing
<1>2. ToldSound' /\ ClaimSound' /\ \A x \in Requests : Due(x)' <=> Due(x)
  BY EndsKept DEF Whereabouts, Complete, Completing
<1>3. /\ Distinct(pendPool') /\ Elements(pendPool') = Elements(pendPool) \ {r}
      /\ Elements(pendPool) = Elements(pendPool') \cup {r}
  BY <1>0, TailFacts DEF Whereabouts, HomesSound
<1> HIDE DEF r
<1>4. HomesSound'
  <2>1. Apart(Elements(inbox), Elements(pendSolo), Elements(pendPool), live, Ending)
    BY DEF Whereabouts, HomesSound
  <2>2. Apart(Elements(inbox), Elements(pendSolo), Elements(pendPool'), live, Ending')
    BY <1>1, <1>3, <2>1 DEF Apart
  <2>3. Held' = Held
    BY <1>1, <1>3 DEF Held
  <2> QED BY <1>2, <1>3, <2>2, <2>3 DEF Whereabouts, HomesSound
<1>5. DriveSound'
  BY DEF Whereabouts, DriveSound, Complete
<1>6. CacheMoved'
  <2>1. r \notin live
    BY <1>3 DEF Whereabouts, HomesSound, Apart
  <2> QED BY <2>1 DEF Whereabouts, CacheMoved, r
<1> QED BY <1>2, <1>4, <1>5, <1>6 DEF Whereabouts

(* The head of a pending list becomes a row, on the cache of its session if *)
(* that was proved to match.                                                *)
LEMMA RowStarts ==
  ASSUME TypeOK, Whereabouts, NEW r \in Requests, r \notin live, PrepareSession(r),
         lent' = IF OwnsMovedCache(r) THEN lent \cup {r} ELSE lent,
         live' = live \cup {r}, UNCHANGED claim
  PROVE  CacheMoved'
<1>1. ASSUME NEW x \in lent'
      PROVE  x \in live' /\ \E s \in Sessions : claim'[s] = x /\ cache'[s] = None
  <2>1. CASE x = r /\ x \notin lent
    <3>1. PICK s \in Sessions : claim[s] = r
      BY <1>1, <2>1 DEF OwnsMovedCache, ClaimedBy
    <3>2. cache'[s] = None
      BY <3>1 DEF PrepareSession
    <3> QED BY <2>1, <3>1, <3>2
  <2>2. CASE x \in lent
    <3>1. x \in live
      BY <2>2 DEF Whereabouts, CacheMoved
    <3>2. PICK s \in Sessions : claim[s] = x /\ cache[s] = None
      BY <2>2 DEF Whereabouts, CacheMoved
    <3>3. cache'[s] = None
      BY <3>2 DEF PrepareSession
    <3> QED BY <3>1, <3>2, <3>3
  <2> QED BY <1>1, <2>1, <2>2
<1> QED BY <1>1 DEF CacheMoved

LEMMA AdmitPoolHome ==
  ASSUME TypeOK, Whereabouts, AdmitPool
  PROVE  Whereabouts'
<1> DEFINE r == Head(pendPool)
<1> USE DEF requestVars, queueVars
<1>0. /\ pendPool # <<>> /\ pendPool \in Seq(Requests) /\ r \in Requests
      /\ pendPool' = Tail(pendPool) /\ pc = "admit"
      /\ UNCHANGED <<inbox, pendSolo, answers, future, told, claim>>
  BY ListParts DEF AdmitPool, PoolMayAdmit, TypeOK
<1>1. CASE \E how : Complete(r, how, "admit") /\ UNCHANGED <<live, lent>>
  <2>1. \A s \in Sessions : claim[s] # r => cache'[s] = cache[s]
    BY <1>0 DEF AdmitPool, Admit, PrepareSession, TypeOK
  <2> QED BY <1>0, <1>1, <2>1, PoolEnds DEF Completing
<1>2. CASE /\ PrepareSession(r) /\ live' = live \cup {r} /\ pc' = "admit"
           /\ lent' = IF OwnsMovedCache(r) THEN lent \cup {r} ELSE lent
  <2>1. /\ Distinct(pendPool') /\ Elements(pendPool') = Elements(pendPool) \ {r}
        /\ Elements(pendPool) = Elements(pendPool') \cup {r}
    BY <1>0, TailFacts DEF Whereabouts, HomesSound
  <2>2. ToldSound' /\ ClaimSound' /\ \A x \in Requests : Due(x)' <=> Due(x)
    BY <1>0, <1>2, EndsKept DEF Whereabouts
  <2>3. Ending = {} /\ Ending' = {}
    BY <1>0, <1>2 DEF Ending, Completing
  <2>4. Apart(Elements(inbox), Elements(pendSolo), Elements(pendPool), live, Ending)
    BY DEF Whereabouts, HomesSound
  <2>5. HomesSound'
    <3>1. Apart(Elements(inbox), Elements(pendSolo), Elements(pendPool'), live', Ending')
      BY <1>2, <2>1, <2>3, <2>4 DEF Apart
    <3>2. Held' = Held
      BY <1>0, <1>2, <2>1, <2>3 DEF Held
    <3> QED BY <1>0, <2>1, <2>2, <3>1, <3>2 DEF Whereabouts, HomesSound
  <2>6. DriveSound'
    BY <1>0, <1>2 DEF Whereabouts, DriveSound
  <2>7. CacheMoved'
    <3>1. r \notin live
      BY <2>1, <2>4 DEF Apart
    <3> QED BY <1>0, <1>2, <3>1, RowStarts
  <2> QED BY <2>2, <2>5, <2>6, <2>7 DEF Whereabouts
<1> QED BY <1>0, <1>1, <1>2 DEF AdmitPool, Admit

LEMMA AdmitSoloHome ==
  ASSUME TypeOK, Whereabouts, AdmitSolo
  PROVE  Whereabouts'
<1> DEFINE r == Head(pendSolo)
<1> USE DEF requestVars, queueVars
<1>0. /\ pendSolo # <<>> /\ pendSolo \in Seq(Requests) /\ r \in Requests
      /\ pendSolo' = Tail(pendSolo) /\ pc = "admit"
      /\ UNCHANGED <<inbox, pendPool, answers, future, told, claim>>
  BY ListParts DEF AdmitSolo, SoloMayAdmit, TypeOK
<1>1. CASE \E how : Complete(r, how, "check") /\ UNCHANGED <<live, lent>>
  <2>1. \A s \in Sessions : claim[s] # r => cache'[s] = cache[s]
    BY <1>0 DEF AdmitSolo, Admit, PrepareSession, TypeOK
  <2> QED BY <1>0, <1>1, <2>1, SoloEnds DEF Completing
<1>2. CASE /\ PrepareSession(r) /\ live' = live \cup {r} /\ pc' = "check"
           /\ lent' = IF OwnsMovedCache(r) THEN lent \cup {r} ELSE lent
  <2>1. /\ Distinct(pendSolo') /\ Elements(pendSolo') = Elements(pendSolo) \ {r}
        /\ Elements(pendSolo) = Elements(pendSolo') \cup {r}
    BY <1>0, TailFacts DEF Whereabouts, HomesSound
  <2>2. ToldSound' /\ ClaimSound' /\ \A x \in Requests : Due(x)' <=> Due(x)
    BY <1>0, <1>2, EndsKept DEF Whereabouts
  <2>3. Ending = {} /\ Ending' = {}
    BY <1>0, <1>2 DEF Ending, Completing
  <2>4. Apart(Elements(inbox), Elements(pendSolo), Elements(pendPool), live, Ending)
    BY DEF Whereabouts, HomesSound
  <2>5. HomesSound'
    <3>1. Apart(Elements(inbox), Elements(pendSolo'), Elements(pendPool), live', Ending')
      BY <1>2, <2>1, <2>3, <2>4 DEF Apart
    <3>2. Held' = Held
      BY <1>0, <1>2, <2>1, <2>3 DEF Held
    <3> QED BY <1>0, <2>1, <2>2, <3>1, <3>2 DEF Whereabouts, HomesSound
  <2>6. DriveSound'
    BY <1>0, <1>2 DEF Whereabouts, DriveSound
  <2>7. CacheMoved'
    <3>1. r \notin live
      BY <2>1, <2>4 DEF Apart
    <3> QED BY <1>0, <1>2, <3>1, RowStarts
  <2> QED BY <2>2, <2>5, <2>6, <2>7 DEF Whereabouts
<1> QED BY <1>0, <1>1, <1>2 DEF AdmitSolo, Admit

LEMMA TakeHome ==
  ASSUME TypeOK, Whereabouts, Take
  PROVE  Whereabouts'
<1> DEFINE r == Head(inbox)
<1> USE DEF requestVars, sessionVars
<1>0. /\ inbox \in Seq(Requests) /\ pendSolo \in Seq(Requests) /\ pendPool \in Seq(Requests)
      /\ inbox # <<>> /\ r \in Requests /\ pc \notin Completing /\ pc # "close"
      /\ UNCHANGED <<live, answers, future, told, claim, pc, cache, lent>>
  BY ListParts DEF Take, TypeOK, Completing
<1>1. /\ Distinct(inbox') /\ Elements(inbox') = Elements(inbox) \ {r}
      /\ Elements(inbox) = Elements(inbox') \cup {r}
  BY <1>0, TailFacts DEF Whereabouts, HomesSound, Take
<1>2. ToldSound' /\ ClaimSound' /\ \A x \in Requests : Due(x)' <=> Due(x)
  BY <1>0, EndsKept DEF Whereabouts, Completing
<1>3. Ending = {} /\ Ending' = {}
  BY <1>0 DEF Ending
<1>4. Apart(Elements(inbox), Elements(pendSolo), Elements(pendPool), live, Ending)
  BY DEF Whereabouts, HomesSound
<1>5. HomesSound'
  <2>1. CASE pendSolo' = Append(pendSolo, r) /\ UNCHANGED pendPool
    <3>1. r \notin Elements(pendSolo)
      BY <1>1, <1>4 DEF Apart
    <3>2. Distinct(pendSolo') /\ Elements(pendSolo') = Elements(pendSolo) \cup {r}
      BY <1>0, <2>1, <3>1, AppendFacts DEF Whereabouts, HomesSound
    <3>3. Apart(Elements(inbox'), Elements(pendSolo'), Elements(pendPool'), live', Ending')
      BY <1>0, <1>1, <1>3, <1>4, <2>1, <3>2 DEF Apart
    <3>4. Held' = Held
      BY <1>0, <1>1, <1>3, <2>1, <3>2 DEF Held
    <3> QED BY <1>1, <1>2, <2>1, <3>2, <3>3, <3>4 DEF Whereabouts, HomesSound
  <2>2. CASE pendPool' = Append(pendPool, r) /\ UNCHANGED pendSolo
    <3>1. r \notin Elements(pendPool)
      BY <1>1, <1>4 DEF Apart
    <3>2. Distinct(pendPool') /\ Elements(pendPool') = Elements(pendPool) \cup {r}
      BY <1>0, <2>2, <3>1, AppendFacts DEF Whereabouts, HomesSound
    <3>3. Apart(Elements(inbox'), Elements(pendSolo'), Elements(pendPool'), live', Ending')
      BY <1>0, <1>1, <1>3, <1>4, <2>2, <3>2 DEF Apart
    <3>4. Held' = Held
      BY <1>0, <1>1, <1>3, <2>2, <3>2 DEF Held
    <3> QED BY <1>1, <1>2, <2>2, <3>2, <3>3, <3>4 DEF Whereabouts, HomesSound
  <2> QED BY <2>1, <2>2 DEF Take
<1>6. DriveSound' /\ CacheMoved'
  BY <1>0 DEF Whereabouts, DriveSound, CacheMoved
<1> QED BY <1>2, <1>5, <1>6 DEF Whereabouts

LEMMA PutHome ==
  ASSUME TypeOK, Whereabouts, NEW r \in Requests, Put(r)
  PROVE  Whereabouts'
<1> USE DEF driveVars
<1>0. /\ inbox \in Seq(Requests) /\ future \in [Requests -> Outcomes \cup {"none", "pending"}]
      /\ future[r] = "none" /\ future' = [future EXCEPT ![r] = "pending"] /\ told[r] = 0
      /\ inbox' = Append(inbox, r)
      /\ UNCHANGED <<pendSolo, pendPool, live, answers, told, pc, fin, cache, lent>>
  BY DEF Put, TypeOK, Whereabouts, ToldSound
<1>1. /\ \A x \in Requests : Due(x)' <=> Due(x) \/ x = r
      /\ ~Due(r) /\ ~Resolving(r)
  BY <1>0 DEF Due, Resolving, Whereabouts, HomesSound, Held, Ending, Completing
<1>2. Ending' = Ending
  BY <1>0 DEF Ending
<1>3. r \notin Held
  BY <1>1 DEF Whereabouts, HomesSound
<1>4. Distinct(inbox') /\ Elements(inbox') = Elements(inbox) \cup {r}
  <2>1. r \notin Elements(inbox)
    BY <1>3 DEF Held
  <2> QED BY <1>0, <2>1, AppendFacts DEF Whereabouts, HomesSound
<1>5. HomesSound'
  <2>1. Apart(Elements(inbox), Elements(pendSolo), Elements(pendPool), live, Ending)
    BY DEF Whereabouts, HomesSound
  <2>2. Apart(Elements(inbox'), Elements(pendSolo), Elements(pendPool), live, Ending)
    BY <1>3, <1>4, <2>1 DEF Apart, Held
  <2>3. Held' = Held \cup {r}
    BY <1>0, <1>2, <1>4 DEF Held
  <2> QED BY <1>0, <1>1, <1>2, <1>4, <2>2, <2>3 DEF Whereabouts, HomesSound
<1>6. ToldSound'
  BY <1>0, <1>1 DEF Whereabouts, ToldSound, Ended, Outcomes, Resolving
<1>7. ClaimSound'
  <2>1. ASSUME NEW s \in Sessions, claim'[s] # None
        PROVE  Due(claim[s])' /\ ~(pc \in {"notify", "resolve"} /\ fin.req = claim[s])'
    <3>1. CASE claim'[s] = claim[s]
      <4>1. Due(claim[s]) /\ ~(pc \in {"notify", "resolve"} /\ fin.req = claim[s])
        BY <2>1, <3>1 DEF Whereabouts, ClaimSound
      <4>2. claim[s] \in Requests
        BY <2>1, <3>1 DEF TypeOK
      <4> QED BY <1>0, <3>1, <4>1, <4>2 DEF Due, Resolving
    <3>2. CASE claim'[s] = r
      <4>1. ~(pc \in {"notify", "resolve"} /\ fin.req = r)
        BY <1>3 DEF Held, Ending, Completing
      <4>2. future'[r] = "pending" /\ told'[r] = 0
        BY <1>0
      <4> QED BY <1>0, <3>2, <4>1, <4>2 DEF Due
    <3> QED BY <3>1, <3>2 DEF Put, TypeOK
  <2> QED BY <2>1 DEF ClaimSound
<1>8. DriveSound'
  BY <1>0 DEF Whereabouts, DriveSound
<1>9. CacheMoved'
  <2>1. \A s \in Sessions : claim[s] # None => claim'[s] = claim[s]
    BY DEF Put, TypeOK
  <2>2. None \notin Requests
    BY NamesAssumption
  <2>3. ASSUME NEW x \in lent
        PROVE  x \in live /\ \E s \in Sessions : claim'[s] = x /\ cache[s] = None
    <3>1. x \in live /\ x \in Requests
      BY <2>3 DEF Whereabouts, CacheMoved, TypeOK
    <3>2. PICK s \in Sessions : claim[s] = x /\ cache[s] = None
      BY <2>3 DEF Whereabouts, CacheMoved
    <3> QED BY <2>1, <2>2, <3>1, <3>2
  <2> QED BY <1>0, <2>3 DEF CacheMoved
<1> QED BY <1>5, <1>6, <1>7, <1>8, <1>9 DEF Whereabouts

LEMMA ForgetHome ==
  ASSUME TypeOK, Whereabouts, NEW r \in Requests, Forget(r)
  PROVE  Whereabouts'
<1> USE DEF queueVars, sessionVars
<1>0. /\ future \in [Requests -> Outcomes \cup {"none", "pending"}] /\ told \in [Requests -> Nat]
      /\ future[r] \in Outcomes
      /\ future' = [future EXCEPT ![r] = "none"] /\ told' = [told EXCEPT ![r] = 0]
      /\ UNCHANGED <<inbox, pendSolo, pendPool, live, answers, pc, fin, claim, cache, lent>>
  BY DEF Forget, TypeOK, Ended
<1>1. Ending' = Ending /\ Held' = Held
  BY <1>0 DEF Ending, Held
<1>2. ~Due(r) /\ ~Due(r)'
  BY <1>0 DEF Due, Outcomes
<1>3. r \notin Held /\ ~Resolving(r)
  BY <1>2 DEF Whereabouts, HomesSound, Held, Ending, Resolving, Completing
<1>4. \A x \in Requests : Due(x)' <=> Due(x)
  BY <1>0, <1>2 DEF Due, Resolving
<1>5. HomesSound'
  BY <1>0, <1>1, <1>4 DEF Whereabouts, HomesSound
<1>6. ToldSound'
  BY <1>0, <1>3 DEF Whereabouts, ToldSound, Ended, Outcomes, Resolving
<1>7. ClaimSound'
  <2>1. ASSUME NEW s \in Sessions, claim[s] # None
        PROVE  Due(claim[s])' /\ ~(pc \in {"notify", "resolve"} /\ fin.req = claim[s])'
    <3>1. Due(claim[s]) /\ ~(pc \in {"notify", "resolve"} /\ fin.req = claim[s])
          /\ claim[s] \in Requests
      BY <2>1 DEF Whereabouts, ClaimSound, TypeOK
    <3> QED BY <1>0, <1>2, <3>1 DEF Due, Resolving
  <2> QED BY <1>0, <2>1 DEF ClaimSound
<1>8. DriveSound' /\ CacheMoved'
  BY <1>0 DEF Whereabouts, DriveSound, CacheMoved
<1> QED BY <1>5, <1>6, <1>7, <1>8 DEF Whereabouts

(* What is known of an admission that is being completed. *)
LEMMA CompletingFacts ==
  ASSUME TypeOK, Whereabouts, pc \in Completing
  PROVE  /\ fin \in Completions /\ fin.req \in Requests /\ Ending = {fin.req}
         /\ future[fin.req] = "pending" /\ fin.req \notin live
         /\ fin.req \notin Elements(inbox) \cup Elements(pendSolo) \cup Elements(pendPool)
         /\ pc # "resolve" => told[fin.req] = 0
         /\ \A x \in Requests \ {fin.req} : Due(x) => future[x] = "pending" /\ told[x] = 0
<1>1. fin \in Completions /\ fin.req \in Requests /\ Ending = {fin.req}
  BY DEF TypeOK, Completions, Ending
<1>2. Due(fin.req)
  BY <1>1 DEF Whereabouts, HomesSound, Held
<1>3. Apart(Elements(inbox), Elements(pendSolo), Elements(pendPool), live, Ending)
  BY DEF Whereabouts, HomesSound
<1>4. /\ fin.req \notin live
      /\ fin.req \notin Elements(inbox) \cup Elements(pendSolo) \cup Elements(pendPool)
  BY <1>1, <1>3 DEF Apart
<1>5. \A x \in Requests \ {fin.req} : Due(x) => future[x] = "pending" /\ told[x] = 0
  BY DEF Due, Resolving
<1> QED BY <1>1, <1>2, <1>4, <1>5 DEF Due, Resolving

LEMMA ReleaseHome ==
  ASSUME TypeOK, Whereabouts, Release
  PROVE  Whereabouts'
<1> USE DEF requestVars, queueVars
<1>0. /\ pc = "release" /\ pc' = IF fin.req \in Streaming THEN "notify" ELSE "resolve"
      /\ claim' = [s \in Sessions |-> IF claim[s] = fin.req THEN None ELSE claim[s]]
      /\ UNCHANGED <<inbox, pendSolo, pendPool, live, answers, future, told, fin, cache, lent>>
  BY DEF Release
<1>1. /\ fin \in Completions /\ fin.req \in Requests /\ Ending = {fin.req}
      /\ future[fin.req] = "pending" /\ fin.req \notin live /\ told[fin.req] = 0
  BY <1>0, CompletingFacts DEF Completing
<1>2. Ending' = Ending /\ Held' = Held
  BY <1>0 DEF Ending, Held, Completing
<1>3. \A x \in Requests : Due(x)' <=> Due(x)
  BY <1>0, <1>1 DEF Due, Resolving
<1>4. HomesSound'
  BY <1>0, <1>2, <1>3 DEF Whereabouts, HomesSound
<1>5. ToldSound'
  BY <1>0, <1>1 DEF Whereabouts, ToldSound, Ended, Resolving
<1>6. ClaimSound'
  BY <1>0, <1>1, <1>3 DEF Whereabouts, ClaimSound, TypeOK
<1>7. DriveSound'
  BY <1>0 DEF Whereabouts, DriveSound
<1>8. CacheMoved'
  BY <1>0, <1>1 DEF Whereabouts, CacheMoved
<1> QED BY <1>4, <1>5, <1>6, <1>7, <1>8 DEF Whereabouts

LEMMA NotifyHome ==
  ASSUME TypeOK, Whereabouts, Notify
  PROVE  Whereabouts'
<1> USE DEF queueVars, sessionVars
<1>0. /\ pc = "notify" /\ pc' = "resolve" /\ told' = [told EXCEPT ![fin.req] = @ + 1]
      /\ told \in [Requests -> Nat]
      /\ UNCHANGED <<inbox, pendSolo, pendPool, live, answers, future, fin, claim, cache, lent>>
  BY DEF Notify, TypeOK
<1>1. /\ fin \in Completions /\ fin.req \in Requests /\ Ending = {fin.req}
      /\ future[fin.req] = "pending" /\ told[fin.req] = 0 /\ fin.req \in Streaming
  BY <1>0, CompletingFacts DEF Completing, Whereabouts, ToldSound
<1>2. Ending' = Ending /\ Held' = Held
  BY <1>0 DEF Ending, Held, Completing
<1>3. told'[fin.req] = 1 /\ \A x \in Requests \ {fin.req} : told'[x] = told[x]
  BY <1>0, <1>1
<1>4. \A x \in Requests : Due(x)' <=> Due(x)
  BY <1>0, <1>1, <1>3 DEF Due, Resolving
<1>5. HomesSound'
  BY <1>0, <1>2, <1>4 DEF Whereabouts, HomesSound
<1>6. ToldSound'
  BY <1>0, <1>1, <1>3 DEF Whereabouts, ToldSound, Ended, Resolving
<1>7. ClaimSound'
  <2>1. \A s \in Sessions : claim[s] # None => claim[s] \in Requests
    BY DEF TypeOK
  <2> QED BY <1>0, <1>4, <2>1 DEF Whereabouts, ClaimSound, Due, Resolving
<1>8. DriveSound' /\ CacheMoved'
  BY <1>0 DEF Whereabouts, DriveSound, CacheMoved
<1> QED BY <1>5, <1>6, <1>7, <1>8 DEF Whereabouts

(* An admission is through: nobody holds it any more. *)
LEMMA CompletionEnds ==
  ASSUME TypeOK, Whereabouts, pc \in {"notify", "resolve"}, NEW f, f = fin.req, fin' = None,
         pc' \in {"admit", "check", "respond", "fail"}, ~Due(f)',
         ToldSound', \A x \in Requests \ {f} : future'[x] = future[x] /\ told'[x] = told[x],
         UNCHANGED <<inbox, pendSolo, pendPool, live, answers, claim, cache, lent>>
  PROVE  Whereabouts'
<1>1. /\ f \in Requests /\ Ending = {f} /\ f \notin live
      /\ f \notin Elements(inbox) \cup Elements(pendSolo) \cup Elements(pendPool)
      /\ \A x \in Requests \ {f} : Due(x) => future[x] = "pending" /\ told[x] = 0
  BY CompletingFacts DEF Completing
<1>2. Ending' = {} /\ Held' = Held \ {f}
  BY <1>1 DEF Ending, Held, Completing
<1>3. \A x \in Requests \ {f} : Due(x)' <=> Due(x)
  BY DEF Due, Resolving
<1>4. HomesSound'
  <2>1. Apart(Elements(inbox), Elements(pendSolo), Elements(pendPool), live, Ending)
    BY DEF Whereabouts, HomesSound
  <2>2. Apart(Elements(inbox), Elements(pendSolo), Elements(pendPool), live, Ending')
    BY <1>2, <2>1 DEF Apart
  <2>3. \A x \in Requests : x \in Held' <=> Due(x)'
    BY <1>2, <1>3 DEF Whereabouts, HomesSound
  <2> QED BY <2>2, <2>3 DEF Whereabouts, HomesSound
<1>5. ClaimSound'
  <2>1. \A s \in Sessions : claim[s] # None => claim[s] \in Requests \ {f}
    BY DEF TypeOK, Whereabouts, ClaimSound
  <2> QED BY <1>3, <2>1 DEF Whereabouts, ClaimSound
<1>6. DriveSound' /\ CacheMoved'
  BY DEF Whereabouts, DriveSound, CacheMoved
<1> QED BY <1>4, <1>5, <1>6 DEF Whereabouts

LEMMA NotifyRaisesHome ==
  ASSUME TypeOK, Whereabouts, NotifyRaises
  PROVE  Whereabouts'
<1> USE DEF queueVars, sessionVars
<1>0. /\ pc = "notify" /\ pc' = "fail" /\ told' = [told EXCEPT ![fin.req] = @ + 1]
      /\ told \in [Requests -> Nat] /\ fin' = None
      /\ UNCHANGED <<inbox, pendSolo, pendPool, live, answers, future, claim, cache, lent>>
  BY DEF NotifyRaises, TypeOK
<1>1. PICK f \in Requests :
        f = fin.req /\ told[f] = 0 /\ f \in Streaming /\ future[f] = "pending"
  BY <1>0, CompletingFacts DEF Completing, Whereabouts, ToldSound
<1>2. told'[f] = 1 /\ \A x \in Requests \ {f} : told'[x] = told[x]
  BY <1>0, <1>1
<1>3. ~Due(f)'
  BY <1>0, <1>1, <1>2 DEF Due, Resolving
<1>4. ToldSound'
  BY <1>0, <1>1, <1>2 DEF Whereabouts, ToldSound, Ended, Resolving
<1> QED BY <1>0, <1>1, <1>2, <1>3, <1>4, CompletionEnds

LEMMA ResolveHome ==
  ASSUME TypeOK, Whereabouts, Resolve
  PROVE  Whereabouts'
<1> USE DEF queueVars, sessionVars
<1>0. /\ pc = "resolve" /\ pc' = fin.back /\ fin' = None
      /\ future' = [future EXCEPT ![fin.req] = fin.how]
      /\ future \in [Requests -> Outcomes \cup {"none", "pending"}]
      /\ UNCHANGED <<inbox, pendSolo, pendPool, live, answers, told, claim, cache, lent>>
  BY DEF Resolve, TypeOK
<1>1. PICK f \in Requests : f = fin.req /\ fin \in Completions
  BY <1>0, CompletingFacts DEF Completing
<1>2. fin.how \in Outcomes /\ pc' \in {"admit", "check", "respond", "fail"}
  BY <1>0, <1>1 DEF Completions
<1>3. future'[f] = fin.how /\ \A x \in Requests \ {f} : future'[x] = future[x]
  BY <1>0, <1>1
<1>4. ~Due(f)'
  BY <1>1, <1>2, <1>3 DEF Due, Outcomes
<1>5. ToldSound'
  BY <1>0, <1>1, <1>2, <1>3 DEF Whereabouts, ToldSound, Ended, Resolving, Outcomes
<1> QED BY <1>0, <1>1, <1>2, <1>3, <1>4, <1>5, CompletionEnds

LEMMA WhereaboutsStep ==
  ASSUME TypeOK, Whereabouts, Next
  PROVE  Whereabouts'
<1> USE DEF requestVars, queueVars, driveVars, sessionVars
<1>0. answers \subseteq live /\ (pc = "close" => pendSolo = <<>> /\ pendPool = <<>> /\ live = {})
  BY DEF Whereabouts, DriveSound
<1>1. CASE \/ \E r \in Requests : Kick(r) \/ Cancel(r)
           \/ \E j \in Jobs : SubmitJob(j) \/ EndJob(j)
           \/ StartJob
  <2>1. UNCHANGED <<inbox, pendSolo, pendPool, live, future, told, claim, cache, lent, answers,
                    pc, fin>>
    BY <1>1 DEF Kick, Cancel, SubmitJob, EndJob, StartJob
  <2> QED BY <1>0, <2>1, StillHere
<1>2. CASE \/ StartDrive \/ InboxEmpty \/ Wake \/ AdmitNone \/ CheckIdle \/ Tick \/ TickFails
           \/ EndOfTick \/ FailDone \/ Recheck \/ Restart
           \/ \E r \in Requests : Deliver(r)
  <2>1. UNCHANGED <<inbox, pendSolo, pendPool, live, future, told, claim, cache, lent>>
    BY <1>2
    DEF StartDrive, InboxEmpty, Wake, AdmitNone, CheckIdle, Tick, TickFails, EndOfTick,
        FailDone, Recheck, Restart, Deliver
  <2>2. answers' \subseteq live
    BY <1>0, <1>2
    DEF StartDrive, InboxEmpty, Wake, AdmitNone, CheckIdle, Tick, TickFails, EndOfTick,
        FailDone, Recheck, Restart, Deliver
  <2>3. pc \notin Completing /\ pc' \notin Completing
    BY <1>2
    DEF StartDrive, ThreadFree, InboxEmpty, Wake, AdmitNone, CheckIdle, Tick, TickFails,
        EndOfTick, FailDone, Recheck, Restart, Deliver, Answering, Completing
  <2>4. pc' = "close" => pendSolo = <<>> /\ pendPool = <<>> /\ live = {}
    BY <1>2
    DEF StartDrive, InboxEmpty, Wake, AdmitNone, CheckIdle, Tick, TickFails, EndOfTick,
        FailDone, Recheck, Restart, Deliver, Answering
  <2> QED BY <2>1, <2>2, <2>3, <2>4, StillHere
<1>3. CASE Close
  <2>1. /\ UNCHANGED <<inbox, pendSolo, pendPool, live, future, told, claim, cache, lent>>
        /\ answers' = {} /\ pc = "close" /\ pc' = "recheck"
    BY <1>0, <1>3 DEF Close
  <2> QED BY <2>1, StillHere DEF Completing
<1>4. ASSUME NEW r \in Requests, DeliverRaises(r) PROVE Whereabouts'
  <2>1. r \in live /\ pc \notin Completing
    BY <1>0, <1>4 DEF DeliverRaises, Answering, Completing
  <2>2. \A s \in Sessions : claim[s] # r => cache'[s] = cache[s]
    BY <1>4 DEF DeliverRaises
  <2> QED BY <1>4, <2>1, <2>2, RowEnds DEF DeliverRaises
<1>5. ASSUME NEW r \in Requests, Finish(r) PROVE Whereabouts'
  <2>1. r \in live /\ pc \notin Completing
    BY <1>0, <1>5 DEF Finish, Answering, Completing
  <2>2. \A s \in Sessions : claim[s] # r => cache'[s] = cache[s]
    BY <1>5 DEF Finish, PublishSession
  <2> QED BY <1>5, <2>1, <2>2, RowEnds DEF Finish
<1>6. CASE FailLive
  <2>1. pc \notin Completing /\ \A s \in Sessions : cache'[s] = cache[s]
    BY <1>6 DEF FailLive, Completing
  <2>2. PICK r \in live : Leave(r) /\ Complete(r, "error", "fail")
    BY <1>6 DEF FailLive
  <2> QED BY <1>6, <2>1, <2>2, RowEnds DEF FailLive
<1>7. CASE FailSolo
  <2>1. pc \notin Completing /\ \A s \in Sessions : cache'[s] = cache[s]
    BY <1>7 DEF FailSolo, Completing
  <2> QED BY <1>7, <2>1, SoloEnds DEF FailSolo
<1>8. CASE FailPool
  <2>1. pc \notin Completing /\ \A s \in Sessions : cache'[s] = cache[s]
    BY <1>8 DEF FailPool, Completing
  <2> QED BY <1>8, <2>1, PoolEnds DEF FailPool
<1> QED
  BY <1>1, <1>2, <1>3, <1>4, <1>5, <1>6, <1>7, <1>8, PutHome, ForgetHome, TakeHome,
     AdmitPoolHome, AdmitSoloHome, ReleaseHome, NotifyHome, NotifyRaisesHome, ResolveHome
  DEF Next, EventLoop, Executor, DriveStep, Answer

LEMMA WhereaboutsHold == Spec => []Whereabouts
<1>1. Init => Whereabouts
  <2> SUFFICES ASSUME Init PROVE Whereabouts OBVIOUS
  <2>1. Elements(<<>>) = {} /\ Distinct(<<>>)
    BY DEF Elements, Distinct
  <2>2. HomesSound
    BY <2>1 DEF Init, HomesSound, Apart, Held, Ending, Due, Completing
  <2>3. ToldSound /\ DriveSound /\ ClaimSound /\ CacheMoved
    BY DEF Init, ToldSound, DriveSound, ClaimSound, CacheMoved, Ended, Resolving, Outcomes
  <2> QED BY <2>2, <2>3 DEF Whereabouts
<1>2. TypeOK /\ Whereabouts /\ [Next]_vars => Whereabouts'
  <2>1. ASSUME Whereabouts, UNCHANGED vars PROVE Whereabouts'
    <3>1. UNCHANGED <<inbox, pendSolo, pendPool, live, future, told, claim, cache, lent, answers,
                      pc, fin>>
      BY <2>1 DEF vars, requestVars, queueVars, driveVars, sessionVars
    <3> QED BY <2>1, <3>1, StillHere DEF Whereabouts, DriveSound
  <2> QED BY <2>1, WhereaboutsStep
<1> QED BY <1>1, <1>2, TypeCorrect, PTL DEF Spec

(* Where(r) counts what Whereabouts says of r. *)
LEMMA PlaceOfList ==
  ASSUME NEW S, NEW s \in Seq(S), Distinct(s), NEW r \in Elements(s)
  PROVE  \E k \in DOMAIN s : \A i \in DOMAIN s : s[i] = r <=> i = k
<1>1. PICK k \in DOMAIN s : s[k] = r
  BY DEF Elements
<1> QED BY <1>1 DEF Distinct

LEMMA NoPlaceOfList ==
  ASSUME NEW s, NEW r, r \notin Elements(s)
  PROVE  {i \in DOMAIN s : s[i] = r} = {}
  BY DEF Elements

LEMMA OneWhere ==
  ASSUME TypeOK, Whereabouts, NEW r \in Requests
  PROVE  Cardinality(Where(r)) = IF Due(r) THEN 1 ELSE 0
<1> DEFINE I == {i \in DOMAIN inbox : inbox[i] = r}
           S == {i \in DOMAIN pendSolo : pendSolo[i] = r}
           P == {i \in DOMAIN pendPool : pendPool[i] = r}
           E == IF pc \in Completing /\ fin.req = r THEN {<<"completing", 0>>} ELSE {}
<1>1. Where(r) = {<<"inbox", i>> : i \in I} \cup {<<"solo", i>> : i \in S}
                 \cup {<<"pool", i>> : i \in P} \cup {<<"live", 0>> : q \in live \cap {r}} \cup E
  BY DEF Where
<1>2. /\ r \notin Elements(inbox) => I = {}
      /\ r \notin Elements(pendSolo) => S = {}
      /\ r \notin Elements(pendPool) => P = {}
      /\ r \notin live => live \cap {r} = {}
      /\ r \notin Ending => E = {}
  BY NoPlaceOfList DEF Ending
<1>3. /\ r \in Elements(inbox) => \E k : I = {k}
      /\ r \in Elements(pendSolo) => \E k : S = {k}
      /\ r \in Elements(pendPool) => \E k : P = {k}
  <2>1. /\ inbox \in Seq(Requests) /\ pendSolo \in Seq(Requests) /\ pendPool \in Seq(Requests)
        /\ Distinct(inbox) /\ Distinct(pendSolo) /\ Distinct(pendPool)
    BY DEF TypeOK, Whereabouts, HomesSound
  <2>2. ASSUME r \in Elements(inbox) PROVE \E k : I = {k}
    <3>1. PICK k \in DOMAIN inbox : \A i \in DOMAIN inbox : inbox[i] = r <=> i = k
      BY <2>1, <2>2, PlaceOfList
    <3>2. I = {k}
      BY <3>1
    <3> QED BY <3>2
  <2>3. ASSUME r \in Elements(pendSolo) PROVE \E k : S = {k}
    <3>1. PICK k \in DOMAIN pendSolo : \A i \in DOMAIN pendSolo : pendSolo[i] = r <=> i = k
      BY <2>1, <2>3, PlaceOfList
    <3>2. S = {k}
      BY <3>1
    <3> QED BY <3>2
  <2>4. ASSUME r \in Elements(pendPool) PROVE \E k : P = {k}
    <3>1. PICK k \in DOMAIN pendPool : \A i \in DOMAIN pendPool : pendPool[i] = r <=> i = k
      BY <2>1, <2>4, PlaceOfList
    <3>2. P = {k}
      BY <3>1
    <3> QED BY <3>2
  <2> QED BY <2>2, <2>3, <2>4
<1>4. /\ r \in live => live \cap {r} = {r}
      /\ r \in Ending => E = {<<"completing", 0>>}
  BY DEF Ending
<1> HIDE DEF I, S, P, E
<1>5. Apart(Elements(inbox), Elements(pendSolo), Elements(pendPool), live, Ending)
  BY DEF Whereabouts, HomesSound
<1>6. CASE ~Due(r)
  <2>1. r \notin Held
    BY <1>6 DEF Whereabouts, HomesSound
  <2>2. I = {} /\ S = {} /\ P = {} /\ live \cap {r} = {} /\ E = {}
    BY <1>2, <2>1 DEF Held
  <2>3. Where(r) = {}
    BY <1>1, <2>2
  <2> QED BY <1>6, <2>3, FS_EmptySet
<1>7. CASE Due(r)
  <2>1. r \in Held
    BY <1>7 DEF Whereabouts, HomesSound
  <2>2. ASSUME r \in Elements(inbox) PROVE \E e : Where(r) = {e}
    <3>1. PICK k : I = {k} BY <1>3, <2>2
    <3>2. S = {} /\ P = {} /\ live \cap {r} = {} /\ E = {}
      BY <1>2, <1>5, <2>2 DEF Apart
    <3>3. {<<"inbox", i>> : i \in I} = {<<"inbox", k>>}
      BY <3>1
    <3>4. Where(r) = {<<"inbox", k>>}
      BY <1>1, <3>2, <3>3
    <3> QED BY <3>4
  <2>3. ASSUME r \in Elements(pendSolo) PROVE \E e : Where(r) = {e}
    <3>1. PICK k : S = {k} BY <1>3, <2>3
    <3>2. I = {} /\ P = {} /\ live \cap {r} = {} /\ E = {}
      BY <1>2, <1>5, <2>3 DEF Apart
    <3>3. {<<"solo", i>> : i \in S} = {<<"solo", k>>}
      BY <3>1
    <3>4. Where(r) = {<<"solo", k>>}
      BY <1>1, <3>2, <3>3
    <3> QED BY <3>4
  <2>4. ASSUME r \in Elements(pendPool) PROVE \E e : Where(r) = {e}
    <3>1. PICK k : P = {k} BY <1>3, <2>4
    <3>2. I = {} /\ S = {} /\ live \cap {r} = {} /\ E = {}
      BY <1>2, <1>5, <2>4 DEF Apart
    <3>3. {<<"pool", i>> : i \in P} = {<<"pool", k>>}
      BY <3>1
    <3>4. Where(r) = {<<"pool", k>>}
      BY <1>1, <3>2, <3>3
    <3> QED BY <3>4
  <2>5. ASSUME r \in live PROVE \E e : Where(r) = {e}
    <3>1. I = {} /\ S = {} /\ P = {} /\ E = {}
      BY <1>2, <1>5, <2>5 DEF Apart
    <3>2. {<<"live", 0>> : q \in live \cap {r}} = {<<"live", 0>>}
      BY <2>5
    <3>3. Where(r) = {<<"live", 0>>}
      BY <1>1, <3>1, <3>2
    <3> QED BY <3>3
  <2>6. ASSUME r \in Ending PROVE \E e : Where(r) = {e}
    <3>1. I = {} /\ S = {} /\ P = {} /\ live \cap {r} = {}
      BY <1>2, <1>5, <2>6 DEF Apart
    <3> QED BY <1>1, <1>4, <2>6, <3>1, ZenonT(40)
  <2>7. PICK e : Where(r) = {e}
    BY <2>1, <2>2, <2>3, <2>4, <2>5, <2>6 DEF Held
  <2> QED BY <1>7, <2>7, FS_Singleton
<1> QED BY <1>6, <1>7

(* No admission is lost and none is completed twice: from its submit until   *)
(* it is told of its end it is in exactly one place, and a stream hears of   *)
(* its end once, before its Future resolves.                                *)
THEOREM AccountedHolds == Spec => []Accounted
<1>1. TypeOK /\ Whereabouts => Accounted
  BY OneWhere DEF Accounted, Due, Whereabouts, ToldSound
<1> QED BY <1>1, TypeCorrect, WhereaboutsHold, PTL

(* The session of a request is free before anyone hears that it ended.       *)
THEOREM ReleasedFirstHolds == Spec => []ReleasedFirst
<1>1. TypeOK /\ Whereabouts => ReleasedFirst
  <2>1. SUFFICES ASSUME TypeOK, Whereabouts, NEW r \in Requests, NEW s \in Sessions,
                        claim[s] = r
                 PROVE  ~Ended(r) /\ ~(told[r] > 0)
    BY DEF ReleasedFirst, ClaimedBy
  <2>2. r # None
    BY NamesAssumption
  <2>3. Due(r) /\ ~(pc \in {"notify", "resolve"} /\ fin.req = r)
    BY <2>1, <2>2 DEF Whereabouts, ClaimSound
  <2>4. future[r] = "pending" /\ told[r] = 0
    BY <2>3 DEF Due, Resolving
  <2> QED BY <2>4 DEF Ended, Outcomes
<1> QED BY <1>1, TypeCorrect, WhereaboutsHold, PTL

(* A cache that a row decodes on is in no session that another request can   *)
(* claim, until the row has left the batch.                                 *)
THEOREM CacheMovedHolds == Spec => []CacheMoved
<1>1. Whereabouts => CacheMoved
  BY DEF Whereabouts
<1> QED BY <1>1, WhereaboutsHold, PTL

(***************************************************************************)
(***************************************************************************)
(* The ragged ledger                                                       *)
(***************************************************************************)
(***************************************************************************)

(***************************************************************************)
(* The entries at a set of places, by an ascending list of the places        *)
(***************************************************************************)
(* A list is a selection if it is at an ascending list of the places. *)
LEMMA SelectionIs ==
  ASSUME NEW n, NEW f, NEW S, Ascends(f, n, S), NEW s
  PROVE  /\ Selection(s, S) = [j \in 1..n |-> s[f[j]]]
         /\ IsFiniteSet(S) /\ Cardinality(S) = n
<1>1. /\ IsFiniteSet(S) /\ Cardinality(S) = n
      /\ \A j \in 1..n : Nth(S, j) = f[j]
  BY Ascending
<1>2. Selection(s, S) = [j \in 1..n |-> s[Nth(S, j)]]
  BY <1>1 DEF Selection
<1> QED BY <1>1, <1>2

(* An ascending list of the places there are. *)
LEMMA Places ==
  ASSUME NEW S \in SUBSET Int, IsFiniteSet(S)
  PROVE  \E f : /\ Ascends(f, Cardinality(S), S)
                /\ \A s : Selection(s, S) = [j \in 1..Cardinality(S) |-> s[f[j]]]
<1> DEFINE n == Cardinality(S)
           f == [j \in 1..n |-> Nth(S, j)]
<1>1. /\ n \in Nat
      /\ \A j \in 1..n : Nth(S, j) \in S
      /\ \A x \in S : \E j \in 1..n : Nth(S, j) = x
      /\ \A i, j \in 1..n : i < j <=> Nth(S, i) < Nth(S, j)
  BY NthFacts
<1>2. f \in [1..n -> Int]
  BY <1>1
<1>3. S = {f[i] : i \in 1..n} /\ \A i, j \in 1..n : i < j => f[i] < f[j]
  BY <1>1
<1>4. \A s : Selection(s, S) = [j \in 1..n |-> s[f[j]]]
  BY DEF Selection
<1> HIDE DEF n, f
<1>5. Ascends(f, n, S)
  BY <1>1, <1>2, <1>3 DEF Ascends
<1> QED BY <1>4, <1>5 DEF n

(***************************************************************************)
(* A row                                                                   *)
(***************************************************************************)

(* The columns that are seen, and what they hold. *)
Sees(al) == {i \in DOMAIN al : al[i]}
Seen(al, cs) == Selection(cs, Sees(al))

(* Columns rotated to the positions behind the first from ones. *)
InPlace(s, from) == \A j \in DOMAIN s : s[j].tok \in Tokens /\ s[j].pos = from + j

(* l columns in the ledger and w of a round in flight. *)
Long(al, cs, l, w) ==
  /\ al \in Seq(BOOLEAN) /\ Len(al) = l
  /\ cs \in Seq(Column) /\ Len(cs) = l + w

(* The columns of the round go on from position v. *)
GoesOn(cs, v, l, w) ==
  \A i \in 1..w : cs[l + i].tok \in Tokens /\ cs[l + i].pos = v + i

(* A row of which v columns are seen. *)
RowSound(al, cs, v, l, w) ==
  /\ Long(al, cs, l, w)
  /\ Cardinality(Sees(al)) = v
  /\ InPlace(Seen(al, cs), 0)
  /\ GoesOn(cs, v, l, w)

LEMMA RowFacts ==
  ASSUME NEW al, NEW cs, NEW v, NEW l \in Nat, NEW w \in Nat, RowSound(al, cs, v, l, w)
  PROVE  /\ v \in Nat /\ v <= l /\ DOMAIN al = 1..l /\ DOMAIN cs = 1..(l + w)
         /\ Sees(al) \in SUBSET (1..l) /\ Sees(al) \in SUBSET Int /\ IsFiniteSet(Sees(al))
         /\ Seen(al, cs) \in Seq(Column) /\ Len(Seen(al, cs)) = v
         /\ DOMAIN Seen(al, cs) = 1..v
<1>1. /\ DOMAIN al = 1..l /\ DOMAIN cs = 1..(l + w) /\ cs \in Seq(Column)
      /\ al \in Seq(BOOLEAN)
  BY LenProperties DEF RowSound, Long
<1>2. Sees(al) \in SUBSET (1..l)
  BY <1>1 DEF Sees
<1>3. IsFiniteSet(1..l) /\ Cardinality(1..l) = l
  BY <1>1, PlacesCounted DEF RowSound, Long
<1>4. IsFiniteSet(Sees(al)) /\ v \in Nat /\ v <= l
  <2>1. IsFiniteSet(Sees(al)) /\ Cardinality(Sees(al)) <= Cardinality(1..l)
    BY <1>2, <1>3, FS_Subset
  <2>2. Cardinality(Sees(al)) \in Nat
    BY <2>1, FS_CardinalityType
  <2> QED BY <1>3, <2>1, <2>2 DEF RowSound, Long
<1>5. Sees(al) \in SUBSET DOMAIN cs
  BY <1>1, <1>2
<1>6. /\ Seen(al, cs) \in Seq(Column) /\ Len(Seen(al, cs)) = v
      /\ DOMAIN Seen(al, cs) = 1..v
  BY <1>1, <1>5, SelectionFacts DEF Seen, RowSound, Long
<1> QED BY <1>1, <1>2, <1>4, <1>6

(* What the columns of s at the places that f lists hold. *)
Reads(t, s, f, n) == t = [j \in 1..n |-> s[f[j]]]

(* How a row is shown to be sound: by the places of its columns. *)
LEMMA RowFrom ==
  ASSUME NEW v \in Nat, NEW l \in Nat, NEW w \in Nat,
         NEW al, NEW cs, Long(al, cs, l, w), GoesOn(cs, v, l, w),
         NEW f, Ascends(f, v, Sees(al)),
         NEW t, Reads(t, cs, f, v), InPlace(t, 0)
  PROVE  RowSound(al, cs, v, l, w) /\ Seen(al, cs) = t
<1>1. Selection(cs, Sees(al)) = [j \in 1..v |-> cs[f[j]]] /\ Cardinality(Sees(al)) = v
  BY SelectionIs
<1>2. Selection(cs, Sees(al)) = t
  BY <1>1 DEF Reads
<1> QED BY <1>1, <1>2 DEF RowSound, Seen

(* A list of l entries padded on the left to n. *)
Fits(s, l, n) == Len(s) = l /\ l <= n
Padded(t, s, l, n, x) ==
  /\ Len(t) = n /\ DOMAIN t = 1..n
  /\ \A i \in 1..(n - l) : t[i] = x
  /\ \A i \in 1..l : t[n - l + i] = s[i]

LEMMA PadFacts ==
  ASSUME NEW S, NEW s \in Seq(S), NEW x \in S, NEW n \in Nat, NEW l, Fits(s, l, n)
  PROVE  LeftPad(s, n, x) \in Seq(S) /\ Padded(LeftPad(s, n, x), s, l, n, x)
<1>0. Len(s) = l /\ l <= n
  BY DEF Fits
<1> DEFINE k == n - Len(s)
           c == Const(k, x)
<1>1. Len(s) \in Nat /\ k \in Nat
  BY <1>0, LenProperties
<1> HIDE DEF k
<1>2. c \in Seq(S) /\ Len(c) = k /\ \A i \in 1..k : c[i] = x
  <2>1. c \in [1..k -> S]
    BY DEF Const
  <2>2. c \in Seq(S) /\ Len(c) = k
    BY <1>1, <2>1
  <2> QED BY <2>2 DEF Const
<1> HIDE DEF c
<1>3. /\ c \o s \in Seq(S) /\ Len(c \o s) = k + Len(s)
      /\ \A i \in 1..(k + Len(s)) : (c \o s)[i] = IF i <= k THEN c[i] ELSE s[i - k]
  BY <1>1, <1>2, ConcatProperties
<1>4. k + Len(s) = n
  BY <1>1 DEF k
<1>5. DOMAIN (c \o s) = 1..n
  BY <1>3, <1>4, LenProperties
<1>6. \A i \in 1..k : i \in 1..(k + Len(s)) /\ i <= k
  BY <1>1
<1>7. LeftPad(s, n, x) = c \o s
  BY DEF LeftPad, c, k
<1>8. ASSUME NEW i \in 1..Len(s) PROVE (c \o s)[k + i] = s[i]
  <2> DEFINE j == k + i
             m == Len(s)
  <2>1. j \in 1..(k + m) /\ ~(j <= k) /\ j - k = i
    <3>1. m \in Nat /\ i \in 1..m
      BY <1>1
    <3> HIDE DEF m
    <3> QED BY <1>1, <3>1
  <2> HIDE DEF j
  <2>2. (c \o s)[j] = s[j - k]
    BY <1>3, <2>1
  <2> QED BY <2>1, <2>2 DEF j
<1>9. \A i \in 1..k : (c \o s)[i] = x
  BY <1>2, <1>3, <1>6
<1> QED BY <1>0, <1>3, <1>4, <1>5, <1>7, <1>8, <1>9 DEF k, Padded

(* The columns that are seen, listed by their places. *)
Placed(f, al, cs, v, l) ==
  /\ Ascends(f, v, Sees(al)) /\ \A j \in 1..v : f[j] \in 1..l
  /\ Seen(al, cs) = [j \in 1..v |-> cs[f[j]]]

LEMMA RowPlaces ==
  ASSUME NEW al, NEW cs, NEW v, NEW l \in Nat, NEW w \in Nat, RowSound(al, cs, v, l, w)
  PROVE  \E f : Placed(f, al, cs, v, l)
<1>1. Sees(al) \in SUBSET (1..l) /\ Sees(al) \in SUBSET Int /\ IsFiniteSet(Sees(al))
  BY RowFacts
<1>2. Cardinality(Sees(al)) = v
  BY DEF RowSound
<1>3. PICK f : /\ Ascends(f, v, Sees(al))
               /\ \A s : Selection(s, Sees(al)) = [j \in 1..v |-> s[f[j]]]
  BY <1>1, <1>2, Places
<1>4. \A j \in 1..v : f[j] \in Sees(al)
  BY <1>3 DEF Ascends
<1> QED BY <1>1, <1>3, <1>4 DEF Seen, Placed

Narrow(l, n) == l <= n
SameRow(al2, cs2, al, cs, v, n) ==
  RowSound(al2, cs2, v, n, 0) /\ Seen(al2, cs2) = Seen(al, cs)

(* A row that is padded on the left shows what it did. *)
LEMMA PadRow ==
  ASSUME NEW al, NEW cs, NEW v, NEW l \in Nat, RowSound(al, cs, v, l, 0),
         NEW n \in Nat, Narrow(l, n), NEW x \in Column
  PROVE  SameRow(LeftPad(al, n, FALSE), LeftPad(cs, n, x), al, cs, v, n)
<1> DEFINE k == n - l
           a == LeftPad(al, n, FALSE)
           c == LeftPad(cs, n, x)
           t == Seen(al, cs)
<1>1. /\ v \in Nat /\ DOMAIN al = 1..l /\ k \in Nat /\ n = k + l /\ InPlace(t, 0)
      /\ al \in Seq(BOOLEAN) /\ Len(al) = l /\ cs \in Seq(Column) /\ Len(cs) = l
  <2>1. 0 \in Nat /\ l + 0 = l /\ k \in Nat /\ n = k + l
    BY DEF Narrow
  <2>2. v \in Nat /\ DOMAIN al = 1..l
    BY <2>1, RowFacts
  <2> QED BY <2>1, <2>2 DEF RowSound, Long
<1>2. PICK f : Placed(f, al, cs, v, l)
  BY RowPlaces
<1>2a. /\ Ascends(f, v, Sees(al)) /\ \A j \in 1..v : f[j] \in 1..l
      /\ t = [j \in 1..v |-> cs[f[j]]]
  BY <1>2 DEF Placed
<1>3. /\ a \in Seq(BOOLEAN) /\ Len(a) = n /\ DOMAIN a = 1..n
      /\ \A i \in 1..k : a[i] = FALSE
      /\ \A i \in 1..l : a[k + i] = al[i]
  <2>1. Fits(al, l, n) /\ FALSE \in BOOLEAN
    BY <1>1 DEF Fits, Narrow
  <2>2. a \in Seq(BOOLEAN) /\ Padded(a, al, l, n, FALSE)
    BY <1>1, <2>1, PadFacts
  <2> QED BY <2>2 DEF Padded
<1>4. /\ c \in Seq(Column) /\ Len(c) = n /\ \A i \in 1..l : c[k + i] = cs[i]
  <2>1. Fits(cs, l, n)
    BY <1>1 DEF Fits, Narrow
  <2>2. c \in Seq(Column) /\ Padded(c, cs, l, n, x)
    BY <1>1, <2>1, PadFacts
  <2> QED BY <2>2 DEF Padded
<1> DEFINE g == [j \in 1..v |-> k + f[j]]
<1> HIDE DEF k, a, c, t
<1>5. g \in [1..v -> Int] /\ \A i, j \in 1..v : i < j => g[i] < g[j]
  BY <1>1, <1>2a, SMTT(30) DEF Ascends
<1>6. Sees(a) = {g[j] : j \in 1..v}
  <2>1. ASSUME NEW i \in Sees(a) PROVE \E j \in 1..v : i = k + f[j]
    <3>1. i \in 1..n /\ a[i]
      BY <1>3, <2>1 DEF Sees
    <3>2. i \notin 1..k
      BY <1>3, <3>1
    <3>3. i - k \in 1..l /\ i = k + (i - k)
      BY <1>1, <3>1, <3>2
    <3>4. al[i - k]
      BY <1>3, <3>1, <3>3
    <3>5. i - k \in Sees(al)
      BY <1>1, <3>3, <3>4 DEF Sees
    <3>6. PICK j \in 1..v : i - k = f[j]
      BY <1>2a, <3>5 DEF Ascends
    <3> QED BY <3>3, <3>6
  <2>2. ASSUME NEW j \in 1..v PROVE k + f[j] \in Sees(a)
    <3>1. f[j] \in Sees(al) /\ f[j] \in 1..l
      BY <1>2a DEF Ascends
    <3>2. al[f[j]]
      BY <3>1 DEF Sees
    <3>3. a[k + f[j]] /\ k + f[j] \in 1..n
      BY <1>1, <1>3, <3>1, <3>2
    <3> QED BY <1>3, <3>3 DEF Sees
  <2> QED BY <2>1, <2>2
<1>7. Reads(t, c, g, v)
  <2>1. \A j \in 1..v : c[g[j]] = cs[f[j]]
    BY <1>2a, <1>4
  <2> QED BY <1>2a, <2>1 DEF Reads
<1> HIDE DEF g
<1>8. Ascends(g, v, Sees(a)) /\ n + 0 = n /\ 0 \in Nat
  BY <1>1, <1>5, <1>6 DEF Ascends
<1>9. SameRow(a, c, al, cs, v, n)
  <2>1. GoesOn(c, v, n, 0)
    BY DEF GoesOn
  <2>2. Len(c) = n + 0
    BY <1>4, <1>8
  <2>3. Long(a, c, n, 0)
    BY <1>3, <1>4, <2>2 DEF Long
  <2>4. RowSound(a, c, v, n, 0) /\ Seen(a, c) = t
    BY <1>1, <1>7, <1>8, <2>1, <2>3, RowFrom
  <2> QED BY <2>4 DEF SameRow, t
<1> QED BY <1>9 DEF a, c

(* A row packed to the right end of m columns shows what was packed. *)
LEMMA PackRow ==
  ASSUME NEW t \in Seq(Column), InPlace(t, 0), NEW m \in Nat, Len(t) <= m, NEW x \in Column
  PROVE  /\ RowSound([i \in 1..m |-> i > m - Len(t)], LeftPad(t, m, x), Len(t), m, 0)
         /\ Seen([i \in 1..m |-> i > m - Len(t)], LeftPad(t, m, x)) = t
<1> DEFINE v == Len(t)
           k == m - v
           a == [i \in 1..m |-> i > m - v]
           c == LeftPad(t, m, x)
           g == [j \in 1..v |-> k + j]
<1>1. v \in Nat /\ k \in Nat /\ m = k + v /\ DOMAIN t = 1..v
  BY LenProperties
<1>2. /\ c \in Seq(Column) /\ Len(c) = m /\ \A i \in 1..v : c[k + i] = t[i]
  <2>1. Fits(t, v, m)
    BY DEF Fits
  <2>2. c \in Seq(Column) /\ Padded(c, t, v, m, x)
    BY <2>1, PadFacts
  <2> QED BY <2>2 DEF Padded
<1>3. a \in Seq(BOOLEAN) /\ Len(a) = m /\ DOMAIN a = 1..m
  <2>1. a \in [1..m -> BOOLEAN]
    OBVIOUS
  <2> HIDE DEF a
  <2> QED BY <2>1
<1>4. \A i \in 1..m : a[i] <=> i > k
  OBVIOUS
<1> HIDE DEF v, a, c, k
<1>5. g \in [1..v -> Int] /\ \A i, j \in 1..v : i < j => g[i] < g[j]
  BY <1>1
<1>6. Sees(a) = {g[j] : j \in 1..v}
  <2>1. ASSUME NEW i \in Sees(a) PROVE \E j \in 1..v : i = k + j
    <3>1. i \in 1..m /\ i > k
      BY <1>3, <1>4, <2>1 DEF Sees
    <3>2. i - k \in 1..v /\ i = k + (i - k)
      BY <1>1, <3>1
    <3> QED BY <3>2
  <2>2. ASSUME NEW j \in 1..v PROVE k + j \in Sees(a)
    <3>1. k + j \in 1..m /\ k + j > k
      BY <1>1
    <3> QED BY <1>3, <1>4, <3>1 DEF Sees
  <2> QED BY <2>1, <2>2
<1>7. Reads(t, c, g, v)
  <2>1. \A j \in 1..v : c[g[j]] = t[j]
    BY <1>2
  <2>2. t = [j \in 1..v |-> t[j]]
    BY <1>1
  <2> HIDE DEF g
  <2> QED BY <2>1, <2>2 DEF Reads
<1> HIDE DEF g
<1>8. Ascends(g, v, Sees(a)) /\ m + 0 = m /\ 0 \in Nat
  BY <1>1, <1>5, <1>6 DEF Ascends
<1>9. RowSound(a, c, v, m, 0) /\ Seen(a, c) = t
  <2>1. GoesOn(c, v, m, 0)
    BY DEF GoesOn
  <2>2. Len(c) = m + 0
    BY <1>2, <1>8
  <2>3. Long(a, c, m, 0)
    BY <1>3, <1>2, <2>2 DEF Long
  <2> QED BY <1>1, <1>7, <1>8, <2>1, <2>3, RowFrom
<1> QED BY <1>9 DEF a, c, v

(* What is written behind a row goes on from its logical length. *)
LEMMA RotatedFacts ==
  ASSUME NEW T \in Nat, NEW ts \in [1..T -> Tokens], NEW v \in Nat
  PROVE  /\ Rotated(ts, v) \in Seq(Column) /\ Len(Rotated(ts, v)) = T
         /\ DOMAIN Rotated(ts, v) = 1..T
         /\ \A i \in 1..T : Rotated(ts, v)[i] = [tok |-> ts[i], pos |-> v + i]
         /\ \A i \in 1..T : Rotated(ts, v)[i].tok = ts[i] /\ Rotated(ts, v)[i].pos = v + i
         /\ InPlace(Rotated(ts, v), v)
<1> DEFINE r == Rotated(ts, v)
<1>1. DOMAIN r = 1..T /\ \A i \in 1..T : r[i] = [tok |-> ts[i], pos |-> v + i]
  BY DEF Rotated
<1>2. \A i \in 1..T : ts[i] \in Tokens /\ v + i \in Nat
  OBVIOUS
<1>3. r = [i \in 1..T |-> r[i]]
  BY DEF Rotated
<1> HIDE DEF r
<1>4. \A i \in 1..T : r[i] \in Column /\ r[i].tok = ts[i] /\ r[i].pos = v + i
  BY <1>1, <1>2 DEF Column
<1>5. r \in [1..T -> Column]
  BY <1>3, <1>4
<1>6. r \in Seq(Column) /\ Len(r) = T
  BY <1>5
<1>7. InPlace(r, v)
  BY <1>1, <1>2, <1>4 DEF InPlace
<1> QED BY <1>1, <1>4, <1>6, <1>7 DEF r

(* Columns behind the ones of the ledger. *)
Behind(t, s, r, l, w) ==
  /\ Len(t) = l + w
  /\ \A i \in 1..l : t[i] = s[i]
  /\ \A i \in 1..w : t[l + i] = r[i]

LEMMA BehindFacts ==
  ASSUME NEW S, NEW s \in Seq(S), NEW r \in Seq(S), NEW l, NEW w, Len(s) = l, Len(r) = w
  PROVE  /\ s \o r \in Seq(S) /\ Behind(s \o r, s, r, l, w)
         /\ l \in Nat /\ w \in Nat /\ DOMAIN (s \o r) = 1..(l + w)
<1> DEFINE t == s \o r
<1>1. l \in Nat /\ w \in Nat
  BY LenProperties
<1>2. /\ t \in Seq(S) /\ Len(t) = l + w
      /\ \A i \in 1..(l + w) : t[i] = IF i <= l THEN s[i] ELSE r[i - l]
  BY ConcatProperties
<1>3. DOMAIN t = 1..(l + w)
  BY <1>2, LenProperties
<1> HIDE DEF t
<1>4. \A i \in 1..l : i \in 1..(l + w) /\ i <= l
  BY <1>1
<1>5. \A i \in 1..w : l + i \in 1..(l + w) /\ ~(l + i <= l) /\ (l + i) - l = i
  BY <1>1
<1>6. \A i \in 1..w : t[l + i] = r[i]
  BY <1>2, <1>5
<1> QED BY <1>1, <1>2, <1>3, <1>4, <1>6 DEF Behind, t

LEMMA WriteRow ==
  ASSUME NEW al, NEW cs, NEW v, NEW l \in Nat, RowSound(al, cs, v, l, 0),
         NEW T \in Nat, NEW ts \in [1..T -> Tokens]
  PROVE  /\ RowSound(al, cs \o Rotated(ts, v), v, l, T)
         /\ Seen(al, cs \o Rotated(ts, v)) = Seen(al, cs)
<1> DEFINE c == cs \o Rotated(ts, v)
           t == Seen(al, cs)
           r == Rotated(ts, v)
<1>1. v \in Nat /\ InPlace(t, 0) /\ cs \in Seq(Column) /\ Len(cs) = l /\ al \in Seq(BOOLEAN) /\ Len(al) = l
  <2>1. 0 \in Nat /\ l + 0 = l
    OBVIOUS
  <2>2. v \in Nat
    BY <2>1, RowFacts
  <2> QED BY <2>1, <2>2 DEF RowSound, Long
<1>2. PICK f : Placed(f, al, cs, v, l)
  BY RowPlaces
<1>2a. /\ Ascends(f, v, Sees(al)) /\ \A j \in 1..v : f[j] \in 1..l
      /\ t = [j \in 1..v |-> cs[f[j]]]
  BY <1>2 DEF Placed
<1>3. /\ r \in Seq(Column) /\ Len(r) = T
      /\ \A i \in 1..T : r[i].tok \in Tokens /\ r[i].pos = v + i
  <2>1. /\ r \in Seq(Column) /\ Len(r) = T
        /\ \A i \in 1..T : r[i].tok = ts[i] /\ r[i].pos = v + i
    BY <1>1, RotatedFacts
  <2> HIDE DEF r
  <2> QED BY <2>1
<1> HIDE DEF t, r
<1>4. c \in Seq(Column) /\ Behind(c, cs, r, l, T)
  BY <1>1, <1>3, BehindFacts DEF r
<1> HIDE DEF c
<1>5. Long(al, c, l, T) /\ GoesOn(c, v, l, T)
  BY <1>1, <1>3, <1>4 DEF Behind, Long, GoesOn
<1>6. Reads(t, c, f, v)
  BY <1>2a, <1>4 DEF Reads, Behind
<1>7. RowSound(al, c, v, l, T) /\ Seen(al, c) = t
  BY <1>1, <1>2a, <1>5, <1>6, RowFrom
<1> QED BY <1>7 DEF c, t

(* What is committed of a round is seen behind what was seen. *)
Longer(t, s, v, k) == Len(t) = v + k /\ \A j \in 1..v : t[j] = s[j]

LEMMA CommitRow ==
  ASSUME NEW al, NEW cs, NEW v, NEW l \in Nat, NEW w \in Nat, RowSound(al, cs, v, l, w),
         NEW k \in 0..w
  PROVE  /\ RowSound(al \o [i \in 1..w |-> i <= k], cs, v + k, l + w, 0)
         /\ Longer(Seen(al \o [i \in 1..w |-> i <= k], cs), Seen(al, cs), v, k)
<1> DEFINE b == [i \in 1..w |-> i <= k]
           a == al \o b
           t == Seen(al, cs)
<1>1. /\ v \in Nat /\ InPlace(t, 0) /\ DOMAIN al = 1..l /\ DOMAIN t = 1..v
      /\ cs \in Seq(Column) /\ Len(cs) = l + w /\ al \in Seq(BOOLEAN) /\ Len(al) = l
      /\ \A i \in 1..w : cs[l + i].tok \in Tokens /\ cs[l + i].pos = v + i
  <2>1. v \in Nat /\ DOMAIN al = 1..l /\ DOMAIN t = 1..v
    BY RowFacts
  <2>2. Long(al, cs, l, w) /\ InPlace(t, 0) /\ GoesOn(cs, v, l, w)
    BY DEF RowSound
  <2> HIDE DEF t
  <2> QED BY <2>1, <2>2 DEF Long, GoesOn
<1>2. PICK f : Placed(f, al, cs, v, l)
  BY RowPlaces
<1>2a. /\ Ascends(f, v, Sees(al)) /\ \A j \in 1..v : f[j] \in 1..l
      /\ t = [j \in 1..v |-> cs[f[j]]]
  BY <1>2 DEF Placed
<1>3. b \in Seq(BOOLEAN) /\ Len(b) = w /\ \A i \in 1..w : b[i] <=> i <= k
  <2>1. b \in [1..w -> BOOLEAN]
    OBVIOUS
  <2>2. \A i \in 1..w : b[i] <=> i <= k
    OBVIOUS
  <2> HIDE DEF b
  <2>3. b \in Seq(BOOLEAN) /\ Len(b) = w
    BY <2>1
  <2> QED BY <2>2, <2>3
<1> HIDE DEF b, t
<1>4. a \in Seq(BOOLEAN) /\ Behind(a, al, b, l, w) /\ DOMAIN a = 1..(l + w)
  <2>1. al \in Seq(BOOLEAN) /\ Len(al) = l /\ b \in Seq(BOOLEAN) /\ Len(b) = w
    BY <1>1, <1>3
  <2> QED BY <2>1, BehindFacts
<1> HIDE DEF a
<1> DEFINE n == v + k
           g == [j \in 1..n |-> IF j <= v THEN f[j] ELSE l + (j - v)]
           u == [j \in 1..n |-> cs[g[j]]]
<1>5. n \in Nat /\ k \in Nat /\ k <= w /\ l + w \in Nat
  BY <1>1
<1>6. /\ \A j \in 1..v : j \in 1..n /\ g[j] = f[j]
      /\ \A j \in 1..k : v + j \in 1..n /\ g[v + j] = l + j
      /\ \A j \in 1..n : j \in 1..v \/ \E q \in 1..k : j = v + q
  <2>1. \A j \in 1..n : j \in 1..v \/ (j - v \in 1..k /\ j = v + (j - v))
    BY <1>1, <1>5
  <2>2. \A j \in 1..v : j \in 1..n /\ j <= v
    BY <1>1, <1>5
  <2>3. \A q \in 1..k : v + q \in 1..n /\ ~(v + q <= v) /\ (v + q) - v = q
    BY <1>1, <1>5
  <2> HIDE DEF n
  <2> QED BY <2>1, <2>2, <2>3
<1>7. g \in [1..n -> Int]
  BY <1>1, <1>2a, <1>5
<1>8. \A i, j \in 1..n : i < j => g[i] < g[j]
  <2> SUFFICES ASSUME NEW i \in 1..n, NEW j \in 1..n, i < j PROVE g[i] < g[j]
    OBVIOUS
  <2>1. CASE j <= v
    <3>1. i \in 1..v /\ j \in 1..v
      BY <1>1, <1>5, <2>1
    <3>2. g[i] = f[i] /\ g[j] = f[j]
      BY <1>6, <3>1
    <3> QED BY <1>2a, <3>1, <3>2 DEF Ascends
  <2>2. CASE ~(j <= v) /\ i <= v
    <3>1. i \in 1..v
      BY <1>1, <2>2
    <3>2. g[i] \in 1..l /\ g[j] = l + (j - v) /\ j - v \in 1..k
      BY <1>1, <1>2a, <1>5, <1>6, <2>2, <3>1
    <3> HIDE DEF g
    <3> QED BY <1>5, <3>2
  <2>3. CASE ~(i <= v)
    <3>1. g[i] = l + (i - v) /\ g[j] = l + (j - v)
      BY <1>1, <1>5, <2>3
    <3> HIDE DEF g
    <3> QED BY <1>1, <1>5, <3>1
  <2> QED BY <1>1, <1>5, <2>1, <2>2, <2>3
<1>9. /\ DOMAIN u = 1..n /\ \A j \in 1..v : u[j] = t[j]
      /\ \A j \in 1..k : u[v + j] = cs[l + j]
  <2>1. \A j \in 1..v : u[j] = cs[f[j]]
    BY <1>6
  <2>2. \A j \in 1..k : u[v + j] = cs[l + j]
    BY <1>6
  <2> HIDE DEF u
  <2>3. \A j \in 1..v : u[j] = t[j]
    BY <1>2a, <2>1
  <2> QED BY <2>2, <2>3 DEF u
<1> HIDE DEF n
<1>10. Sees(a) = {g[j] : j \in 1..n}
  <2>1. ASSUME NEW i \in Sees(a) PROVE \E j \in 1..n : i = g[j]
    <3>1. i \in 1..(l + w) /\ a[i]
      BY <1>4, <2>1 DEF Sees
    <3>2. CASE i <= l
      <4>1. i \in 1..l
        BY <1>5, <3>1, <3>2
      <4>2. i \in Sees(al)
        BY <1>1, <1>4, <3>1, <4>1 DEF Sees, Behind
      <4>3. PICK j \in 1..v : i = f[j]
        BY <1>2a, <4>2 DEF Ascends
      <4> QED BY <1>6, <4>3
    <3>3. CASE ~(i <= l)
      <4>1. i - l \in 1..w /\ i = l + (i - l)
        BY <1>5, <3>1, <3>3
      <4>2. b[i - l]
        BY <1>4, <3>1, <4>1 DEF Behind
      <4>3. i - l \in 1..k
        BY <1>3, <1>5, <4>1, <4>2
      <4> QED BY <1>6, <4>1, <4>3, ZenonT(40)
    <3> QED BY <3>2, <3>3
  <2>2. ASSUME NEW j \in 1..n PROVE g[j] \in Sees(a)
    <3>1. CASE j \in 1..v
      <4>1. g[j] = f[j] /\ f[j] \in Sees(al) /\ f[j] \in 1..l
        BY <1>2a, <1>6, <3>1 DEF Ascends
      <4>2. al[f[j]] /\ f[j] \in 1..(l + w)
        BY <1>5, <4>1 DEF Sees
      <4> QED BY <1>4, <4>1, <4>2 DEF Sees, Behind
    <3>2. ASSUME NEW q \in 1..k, j = v + q PROVE g[j] \in Sees(a)
      <4>1. g[j] = l + q
        BY <1>6, <3>2
      <4>2. q \in 1..w /\ q <= k
        BY <1>5
      <4>3. b[q] /\ l + q \in 1..(l + w)
        BY <1>3, <1>5, <4>2
      <4>4. a[l + q]
        BY <1>4, <4>2, <4>3 DEF Behind
      <4> QED BY <1>4, <4>1, <4>3, <4>4 DEF Sees
    <3> QED BY <1>6, <3>1, <3>2
  <2> QED BY <2>1, <2>2
<1>11. Reads(u, cs, g, n)
  BY DEF Reads
<1> HIDE DEF g, u
<1>12. InPlace(u, 0)
  <2>1. \A j \in 1..v : u[j].tok \in Tokens /\ u[j].pos = j
    BY <1>1, <1>9, SMTT(30) DEF InPlace
  <2>2. \A j \in 1..k : u[v + j].tok \in Tokens /\ u[v + j].pos = v + j
    <3>1. \A j \in 1..k : j \in 1..w
      BY <1>5
    <3> QED BY <1>1, <1>9, <3>1
  <2>3. \A j \in 1..n : u[j].tok \in Tokens /\ u[j].pos = j
    <3> SUFFICES ASSUME NEW j \in 1..n PROVE u[j].tok \in Tokens /\ u[j].pos = j
      OBVIOUS
    <3>1. CASE j \in 1..v
      BY <2>1, <3>1
    <3>2. ASSUME NEW q \in 1..k, j = v + q PROVE u[j].tok \in Tokens /\ u[j].pos = j
      BY <2>2, <3>2
    <3> QED BY <1>6, <3>1, <3>2
  <2> QED BY <1>5, <1>9, <2>3 DEF InPlace
<1>13. Ascends(g, n, Sees(a))
  BY <1>5, <1>7, <1>8, <1>10 DEF Ascends
<1>14. Long(a, cs, l + w, 0) /\ GoesOn(cs, n, l + w, 0)
  <2>1. Len(cs) = l + w + 0
    BY <1>1, <1>5
  <2> QED BY <1>1, <1>4, <2>1 DEF Long, GoesOn, Behind
<1>15. RowSound(a, cs, n, l + w, 0) /\ Seen(a, cs) = u
  BY <1>5, <1>11, <1>12, <1>13, <1>14, RowFrom
<1>16. Len(u) = n
  BY <1>5, <1>15, RowFacts
<1> QED BY <1>9, <1>15, <1>16 DEF a, b, n, t, Longer

(* A prompt fits m columns. *)
Short(p, m) == Len(p) <= m

LEMMA ZeroColumn == Zero \in Column
  BY DEF Zero, Column

(* A row that joins: its prompt at the right end of the columns. *)
LEMMA NewRow ==
  ASSUME NEW p \in Seq(Tokens), NEW m \in Nat, Short(p, m)
  PROVE  /\ RowSound([i \in 1..m |-> i > m - Len(p)], LeftPad(Rotated(p, 0), m, Zero),
                     Len(p), m, 0)
         /\ Seen([i \in 1..m |-> i > m - Len(p)], LeftPad(Rotated(p, 0), m, Zero))
              = Rotated(p, 0)
<1> DEFINE v == Len(p)
           t == Rotated(p, 0)
<1>1. v \in Nat /\ p \in [1..v -> Tokens] /\ v <= m /\ 0 \in Nat
  BY LenProperties DEF Short
<1> HIDE DEF v
<1>2. t \in Seq(Column) /\ Len(t) = v /\ InPlace(t, 0)
  BY <1>1, RotatedFacts
<1> HIDE DEF t
<1>3. Zero \in Column /\ Len(t) <= m
  BY <1>1, <1>2, ZeroColumn
<1>4. /\ RowSound([i \in 1..m |-> i > m - Len(t)], LeftPad(t, m, Zero), Len(t), m, 0)
      /\ Seen([i \in 1..m |-> i > m - Len(t)], LeftPad(t, m, Zero)) = t
  BY <1>2, <1>3, PackRow
<1>5. /\ RowSound([i \in 1..m |-> i > m - v], LeftPad(t, m, Zero), v, m, 0)
      /\ Seen([i \in 1..m |-> i > m - v], LeftPad(t, m, Zero)) = t
  BY <1>2, <1>4
<1> QED BY <1>5 DEF v, t

(* A row of a fresh batch: its prompt at the left end. *)
LEMMA PrefillRow ==
  ASSUME NEW p \in Seq(Tokens), NEW m \in Nat, Short(p, m)
  PROVE  /\ RowSound([i \in 1..m |-> i <= Len(p)],
                     Rotated(p, 0) \o Const(m - Len(p), Zero), Len(p), m, 0)
         /\ Seen([i \in 1..m |-> i <= Len(p)], Rotated(p, 0) \o Const(m - Len(p), Zero))
              = Rotated(p, 0)
<1> DEFINE v == Len(p)
           t == Rotated(p, 0)
           k == m - v
           z == Const(k, Zero)
           c == t \o z
           a == [i \in 1..m |-> i <= v]
           g == [j \in 1..v |-> j]
<1>1. v \in Nat /\ p \in [1..v -> Tokens] /\ v <= m /\ 0 \in Nat
  BY LenProperties DEF Short
<1> HIDE DEF v
<1>2. k \in Nat /\ v + k = m /\ m + 0 = m
  BY <1>1
<1> HIDE DEF k
<1>3. t \in Seq(Column) /\ Len(t) = v /\ InPlace(t, 0) /\ DOMAIN t = 1..v
  BY <1>1, RotatedFacts
<1>4. z \in Seq(Column) /\ Len(z) = k
  <2>1. z \in [1..k -> Column]
    BY ZeroColumn DEF Const
  <2> QED BY <1>2, <2>1
<1>5. a \in Seq(BOOLEAN) /\ Len(a) = m /\ DOMAIN a = 1..m
  <2>1. a \in [1..m -> BOOLEAN]
    OBVIOUS
  <2> HIDE DEF a
  <2> QED BY <2>1
<1>6. \A i \in 1..m : a[i] <=> i <= v
  OBVIOUS
<1> HIDE DEF t, z, a
<1>7. c \in Seq(Column) /\ Behind(c, t, z, v, k)
  BY <1>3, <1>4, BehindFacts
<1> HIDE DEF c
<1>8. g \in [1..v -> Int] /\ (\A i, j \in 1..v : i < j => g[i] < g[j]) /\ {g[j] : j \in 1..v} = 1..v
  BY <1>1
<1>9. Sees(a) = 1..v
  <2>1. \A i : i \in 1..v <=> i \in 1..m /\ i <= v
    BY <1>1
  <2> QED BY <1>5, <1>6, <2>1 DEF Sees
<1>10. Reads(t, c, g, v)
  <2>1. t = [j \in 1..v |-> t[j]]
    BY <1>3
  <2>2. \A j \in 1..v : c[g[j]] = t[j]
    BY <1>7 DEF Behind
  <2> HIDE DEF g
  <2> QED BY <2>1, <2>2 DEF Reads
<1> HIDE DEF g
<1>11. Ascends(g, v, Sees(a))
  BY <1>1, <1>8, <1>9 DEF Ascends
<1>12. Long(a, c, m, 0) /\ GoesOn(c, v, m, 0)
  <2>1. Len(c) = m + 0
    BY <1>2, <1>7 DEF Behind
  <2> QED BY <1>5, <1>7, <2>1 DEF Long, GoesOn
<1>13. RowSound(a, c, v, m, 0) /\ Seen(a, c) = t
  BY <1>1, <1>3, <1>10, <1>11, <1>12, RowFrom
<1> QED BY <1>13 DEF a, c, z, k, t, v

(***************************************************************************)
(* The draft columns of a row                                              *)
(***************************************************************************)

(* n draft columns, the first p of them padding. *)
DraftSound(d, p, n) ==
  /\ d \in Seq(Nat) /\ Len(d) = n /\ p \in Nat /\ p <= n
  /\ \A i \in 1..n : d[i] = IF i > p THEN i - p ELSE 0

LEMMA DraftPrimed ==
  ASSUME NEW w \in Nat
  PROVE  DraftSound(Primed(w), 0, w)
<1>1. Primed(w) \in [1..w -> Nat] /\ \A i \in 1..w : Primed(w)[i] = i
  BY DEF Primed
<1>2. Primed(w) \in Seq(Nat) /\ Len(Primed(w)) = w
  BY <1>1
<1>3. \A i \in 1..w : Primed(w)[i] = IF i > 0 THEN i - 0 ELSE 0
  BY <1>1
<1> QED BY <1>2, <1>3 DEF DraftSound

(* Draft columns padded on the left own what they owned. *)
Wider(q, p, m, n) == q = p + (m - n)

LEMMA DraftPad ==
  ASSUME NEW d, NEW p, NEW n \in Nat, DraftSound(d, p, n),
         NEW m \in Nat, n <= m, NEW q, Wider(q, p, m, n)
  PROVE  DraftSound(LeftPad(d, m, 0), q, m)
<1> DEFINE t == LeftPad(d, m, 0)
           k == m - n
<1>1. /\ d \in Seq(Nat) /\ Len(d) = n /\ p \in Nat /\ p <= n /\ k \in Nat
      /\ q \in Nat /\ q <= m /\ q = p + k /\ m = k + n
      /\ \A i \in 1..n : d[i] = IF i > p THEN i - p ELSE 0
  BY DEF DraftSound, Wider
<1>2. Fits(d, n, m) /\ 0 \in Nat
  BY <1>1 DEF Fits
<1>3. t \in Seq(Nat) /\ Padded(t, d, n, m, 0)
  BY <1>1, <1>2, PadFacts
<1>4. Len(t) = m /\ (\A i \in 1..k : t[i] = 0) /\ \A i \in 1..n : t[k + i] = d[i]
  BY <1>3 DEF Padded
<1> HIDE DEF t, k
<1>5. ASSUME NEW i \in 1..m PROVE t[i] = IF i > q THEN i - q ELSE 0
  <2>1. CASE i <= k
    <3>1. i \in 1..k /\ ~(i > q)
      BY <1>1, <2>1
    <3> QED BY <1>4, <3>1
  <2>2. CASE ~(i <= k)
    <3> DEFINE j == i - k
    <3>1. j \in 1..n /\ i = k + j /\ (i > q <=> j > p) /\ i - q = j - p
      BY <1>1, <2>2
    <3> HIDE DEF j
    <3>2. t[i] = d[j]
      BY <1>4, <3>1
    <3>3. d[j] = IF j > p THEN j - p ELSE 0
      BY <1>1, <3>1
    <3> QED BY <3>1, <3>2, <3>3
  <2> QED BY <2>1, <2>2
<1>6. DraftSound(t, q, m)
  BY <1>1, <1>3, <1>4, <1>5 DEF DraftSound
<1> QED BY <1>6 DEF t

(* The chain of a round keeps a draft column at the next position. *)
LEMMA DraftGrow ==
  ASSUME NEW d, NEW p, NEW n \in Nat, DraftSound(d, p, n)
  PROVE  DraftSound(Append(d, n - p + 1), p, n + 1)
<1> DEFINE e == n - p + 1
           t == Append(d, e)
<1>1. /\ d \in Seq(Nat) /\ Len(d) = n /\ p \in Nat /\ p <= n
      /\ \A i \in 1..n : d[i] = IF i > p THEN i - p ELSE 0
  BY DEF DraftSound
<1>2. e \in Nat /\ p <= n + 1 /\ e = (n + 1) - p /\ n + 1 > p
  BY <1>1
<1> HIDE DEF e
<1>3. /\ t \in Seq(Nat) /\ Len(t) = n + 1 /\ \A i \in 1..n : t[i] = d[i]
      /\ t[n + 1] = e
  BY <1>1, <1>2, AppendProperties
<1> HIDE DEF t
<1>4. ASSUME NEW i \in 1..(n + 1) PROVE t[i] = IF i > p THEN i - p ELSE 0
  <2>1. CASE i \in 1..n
    BY <1>1, <1>3, <2>1
  <2>2. CASE i = n + 1
    BY <1>2, <1>3, <2>2
  <2> QED BY <2>1, <2>2
<1>5. DraftSound(t, p, n + 1)
  BY <1>1, <1>2, <1>3, <1>4 DEF DraftSound
<1> QED BY <1>5 DEF e, t

(***************************************************************************)
(* The rows of a batch                                                     *)
(***************************************************************************)
IsList(s, m) == DOMAIN s = 1..m /\ s = [b \in 1..m |-> s[b]]

(* m rows of l columns, w of a round in flight and n draft columns. *)
Batch(al, cs, vl, pd, dr, l, w, n, m) ==
  /\ IsList(al, m) /\ IsList(cs, m) /\ IsList(vl, m) /\ IsList(pd, m) /\ IsList(dr, m)
  /\ \A b \in 1..m : RowSound(al[b], cs[b], vl[b], l, w)
  /\ \A b \in 1..m : DraftSound(dr[b], pd[b], n)

LEMMA ListSeq ==
  ASSUME NEW m \in Nat, NEW s, IsList(s, m), NEW S, \A b \in 1..m : s[b] \in S
  PROVE  s \in Seq(S) /\ Len(s) = m
<1>1. s \in [1..m -> S]
  BY DEF IsList
<1> QED BY <1>1

LEMMA BatchTypes ==
  ASSUME NEW m \in Nat, NEW l \in Nat, NEW w \in Nat, NEW n,
         NEW al, NEW cs, NEW vl, NEW pd, NEW dr,
         Batch(al, cs, vl, pd, dr, l, w, n, m)
  PROVE  /\ al \in Seq(Seq(BOOLEAN)) /\ Len(al) = m
         /\ cs \in Seq(Seq(Column)) /\ Len(cs) = m
         /\ vl \in Seq(Nat) /\ Len(vl) = m
         /\ pd \in Seq(Nat) /\ Len(pd) = m
         /\ dr \in Seq(Seq(Nat)) /\ Len(dr) = m
<1>1. \A b \in 1..m : al[b] \in Seq(BOOLEAN) /\ cs[b] \in Seq(Column)
  BY DEF Batch, RowSound, Long
<1>2. ASSUME NEW b \in 1..m PROVE vl[b] \in Nat
  <2>1. RowSound(al[b], cs[b], vl[b], l, w)
    BY DEF Batch
  <2> QED BY <2>1, RowFacts
<1>3. \A b \in 1..m : pd[b] \in Nat /\ dr[b] \in Seq(Nat)
  BY DEF Batch, DraftSound
<1>4. IsList(al, m) /\ IsList(cs, m) /\ IsList(vl, m) /\ IsList(pd, m) /\ IsList(dr, m)
  BY DEF Batch
<1>5. al \in Seq(Seq(BOOLEAN)) /\ Len(al) = m
  BY <1>1, <1>4, ListSeq
<1>6. cs \in Seq(Seq(Column)) /\ Len(cs) = m
  BY <1>1, <1>4, ListSeq
<1>7. vl \in Seq(Nat) /\ Len(vl) = m
  BY <1>2, <1>4, ListSeq
<1>8. pd \in Seq(Nat) /\ Len(pd) = m
  BY <1>3, <1>4, ListSeq
<1>9. dr \in Seq(Seq(Nat)) /\ Len(dr) = m
  BY <1>3, <1>4, ListSeq
<1> QED BY <1>5, <1>6, <1>7, <1>8, <1>9

(* An entry behind a list. *)
Joined(t, s, e, m) == IsList(t, m + 1) /\ (\A b \in 1..m : t[b] = s[b]) /\ t[m + 1] = e

LEMMA ListJoin ==
  ASSUME NEW m \in Nat, NEW s, IsList(s, m), NEW e
  PROVE  Joined(Append(s, e), s, e, m)
<1> DEFINE S == {s[b] : b \in 1..m} \cup {e}
           t == Append(s, e)
<1>1. (\A b \in 1..m : s[b] \in S) /\ e \in S
  OBVIOUS
<1> HIDE DEF S
<1>2. s \in Seq(S) /\ Len(s) = m
  BY <1>1, ListSeq
<1>3. t \in Seq(S) /\ Len(t) = m + 1 /\ (\A b \in 1..m : t[b] = s[b]) /\ t[m + 1] = e
  BY <1>1, <1>2, AppendProperties
<1> HIDE DEF t
<1>4. t \in [1..(m + 1) -> S]
  BY <1>3, LenProperties
<1>5. IsList(t, m + 1)
  BY <1>4 DEF IsList
<1>6. Joined(t, s, e, m)
  BY <1>3, <1>5 DEF Joined
<1> QED BY <1>6 DEF t

LEMMA BatchJoin ==
  ASSUME NEW m \in Nat, NEW l, NEW w, NEW n,
         NEW al, NEW cs, NEW vl, NEW pd, NEW dr, Batch(al, cs, vl, pd, dr, l, w, n, m),
         NEW a, NEW c, NEW v, NEW p, NEW d, RowSound(a, c, v, l, w), DraftSound(d, p, n)
  PROVE  Batch(Append(al, a), Append(cs, c), Append(vl, v), Append(pd, p), Append(dr, d),
               l, w, n, m + 1)
<1> DEFINE al2 == Append(al, a)
           cs2 == Append(cs, c)
           vl2 == Append(vl, v)
           pd2 == Append(pd, p)
           dr2 == Append(dr, d)
<1>1. IsList(al, m) /\ IsList(cs, m) /\ IsList(vl, m) /\ IsList(pd, m) /\ IsList(dr, m)
  BY DEF Batch
<1>2. Joined(al2, al, a, m)
  BY <1>1, ListJoin
<1>3. Joined(cs2, cs, c, m)
  BY <1>1, ListJoin
<1>4. Joined(vl2, vl, v, m)
  BY <1>1, ListJoin
<1>5. Joined(pd2, pd, p, m)
  BY <1>1, ListJoin
<1>6. Joined(dr2, dr, d, m)
  BY <1>1, ListJoin
<1> HIDE DEF al2, cs2, vl2, pd2, dr2
<1>7. \A b \in 1..(m + 1) : b \in 1..m \/ b = m + 1
  OBVIOUS
<1>8. ASSUME NEW b \in 1..(m + 1)
      PROVE  RowSound(al2[b], cs2[b], vl2[b], l, w) /\ DraftSound(dr2[b], pd2[b], n)
  <2>1. CASE b \in 1..m
    <3>1. /\ al2[b] = al[b] /\ cs2[b] = cs[b] /\ vl2[b] = vl[b] /\ pd2[b] = pd[b]
          /\ dr2[b] = dr[b]
      BY <1>2, <1>3, <1>4, <1>5, <1>6, <2>1 DEF Joined
    <3>2. RowSound(al[b], cs[b], vl[b], l, w) /\ DraftSound(dr[b], pd[b], n)
      BY <2>1 DEF Batch
    <3> QED BY <3>1, <3>2
  <2>2. CASE b = m + 1
    <3>1. al2[b] = a /\ cs2[b] = c /\ vl2[b] = v /\ pd2[b] = p /\ dr2[b] = d
      BY <1>2, <1>3, <1>4, <1>5, <1>6, <2>2 DEF Joined
    <3> QED BY <3>1
  <2> QED BY <1>7, <2>1, <2>2
<1>9. Batch(al2, cs2, vl2, pd2, dr2, l, w, n, m + 1)
  BY <1>2, <1>3, <1>4, <1>5, <1>6, <1>8 DEF Batch, Joined
<1> QED BY <1>9 DEF al2, cs2, vl2, pd2, dr2

LEMMA BatchSelect ==
  ASSUME NEW m \in Nat, NEW l, NEW w, NEW n,
         NEW al, NEW cs, NEW vl, NEW pd, NEW dr, Batch(al, cs, vl, pd, dr, l, w, n, m),
         NEW S \in SUBSET (1..m)
  PROVE  /\ Cardinality(S) \in Nat
         /\ Batch(Selection(al, S), Selection(cs, S), Selection(vl, S), Selection(pd, S),
                  Selection(dr, S), l, w, n, Cardinality(S))
<1> DEFINE k == Cardinality(S)
<1>1. S \in SUBSET Int /\ IsFiniteSet(S)
  <2>1. IsFiniteSet(1..m)
    BY FS_Interval
  <2>2. IsFiniteSet(S)
    BY <2>1, FS_Subset
  <2> QED BY <2>2
<1>2. k \in Nat /\ \A j \in 1..k : Nth(S, j) \in 1..m
  BY <1>1, NthFacts
<1>3. \A s : Selection(s, S) = [j \in 1..k |-> s[Nth(S, j)]]
  BY DEF Selection
<1> HIDE DEF k
<1>4. \A s : IsList(Selection(s, S), k) /\ \A j \in 1..k : Selection(s, S)[j] = s[Nth(S, j)]
  BY <1>3 DEF IsList
<1>5. ASSUME NEW j \in 1..k
      PROVE  /\ RowSound(Selection(al, S)[j], Selection(cs, S)[j], Selection(vl, S)[j], l, w)
             /\ DraftSound(Selection(dr, S)[j], Selection(pd, S)[j], n)
  <2>1. Nth(S, j) \in 1..m
    BY <1>2
  <2>2. /\ RowSound(al[Nth(S, j)], cs[Nth(S, j)], vl[Nth(S, j)], l, w)
        /\ DraftSound(dr[Nth(S, j)], pd[Nth(S, j)], n)
    BY <2>1 DEF Batch
  <2> QED BY <1>4, <2>2
<1>6. Batch(Selection(al, S), Selection(cs, S), Selection(vl, S), Selection(pd, S),
            Selection(dr, S), l, w, n, k)
  BY <1>4, <1>5 DEF Batch
<1> QED BY <1>2, <1>6 DEF k

(***************************************************************************)
(* The histories                                                           *)
(***************************************************************************)
Toks(s) == [i \in DOMAIN s |-> s[i].tok]

(* What the rows of l columns read, as RowsAlone has it. *)
HistOf(al, cs, l) ==
  [b \in DOMAIN al |-> Toks(Selection(cs[b], {i \in 1..l : al[b][i]}))]

Shows(h, al, cs, m) == IsList(h, m) /\ \A b \in 1..m : h[b] = Toks(Seen(al[b], cs[b]))

LEMMA HistShows ==
  ASSUME NEW m \in Nat, NEW l \in Nat, NEW w \in Nat, NEW n,
         NEW al, NEW cs, NEW vl, NEW pd, NEW dr, Batch(al, cs, vl, pd, dr, l, w, n, m)
  PROVE  Shows(HistOf(al, cs, l), al, cs, m)
<1>1. DOMAIN al = 1..m
  BY DEF Batch, IsList
<1>2. ASSUME NEW b \in 1..m PROVE {i \in 1..l : al[b][i]} = Sees(al[b])
  <2>1. RowSound(al[b], cs[b], vl[b], l, w)
    BY DEF Batch
  <2>2. DOMAIN (al[b]) = 1..l
    BY <2>1, RowFacts
  <2> QED BY <2>2 DEF Sees
<1>3. \A b \in 1..m : HistOf(al, cs, l)[b] = Toks(Seen(al[b], cs[b]))
  BY <1>1, <1>2 DEF HistOf, Seen
<1>4. IsList(HistOf(al, cs, l), m)
  BY <1>1 DEF HistOf, IsList
<1> QED BY <1>3, <1>4 DEF Shows

(* What a sound row reads is made of tokens, one for every column it sees. *)
LEMMA TokensRead ==
  ASSUME NEW al, NEW cs, NEW v, NEW l \in Nat, NEW w \in Nat, RowSound(al, cs, v, l, w)
  PROVE  /\ Toks(Seen(al, cs)) \in Seq(Tokens) /\ Len(Toks(Seen(al, cs))) = v
         /\ \A j \in 1..v : Toks(Seen(al, cs))[j] = Seen(al, cs)[j].tok
<1> DEFINE t == Seen(al, cs)
<1>1. v \in Nat /\ DOMAIN t = 1..v
  BY RowFacts
<1>2. \A j \in 1..v : t[j].tok \in Tokens
  BY <1>1 DEF RowSound, InPlace
<1> HIDE DEF t
<1>3. Toks(t) \in [1..v -> Tokens] /\ \A j \in 1..v : Toks(t)[j] = t[j].tok
  BY <1>1, <1>2 DEF Toks
<1>4. Toks(t) \in Seq(Tokens) /\ Len(Toks(t)) = v
  BY <1>1, <1>3
<1> QED BY <1>3, <1>4 DEF t

LEMMA SameShown ==
  ASSUME NEW m, NEW h, NEW al, NEW cs, Shows(h, al, cs, m),
         NEW g, NEW al2, NEW cs2, Shows(g, al2, cs2, m),
         \A b \in 1..m : Seen(al2[b], cs2[b]) = Seen(al[b], cs[b])
  PROVE  g = h
<1>1. \A b \in 1..m : g[b] = h[b]
  BY DEF Shows
<1> QED BY <1>1 DEF Shows, IsList

(***************************************************************************)
(* The invariant                                                           *)
(***************************************************************************)
Sizes ==
  /\ L \in Nat /\ dsize \in Nat /\ rounds \in Nat
  /\ width \in 0..Width /\ phys = L + width

RowsHeld == \E m \in Nat : Batch(alive, cols, valid, pads, drafted, L, width, dsize, m)

IInv == Sizes /\ RowsHeld /\ IsFiniteSet(memo) /\ MasksFresh

Hist == HistOf(alive, cols, L)

LEMMA MostFacts ==
  ASSUME NEW S \in SUBSET Nat, IsFiniteSet(S)
  PROVE  /\ Most(S) \in Nat /\ (\A y \in S : y <= Most(S))
         /\ (S # {} => Most(S) \in S) /\ (S = {} => Most(S) = 0)
<1>1. CASE S = {}
  BY <1>1 DEF Most
<1>2. CASE S # {}
  <2>1. S \in SUBSET Int
    OBVIOUS
  <2>2. \E x \in S : \A y \in S : y <= x
    BY <1>2, <2>1, GreatestExists
  <2>3. Most(S) = CHOOSE x \in S : \A y \in S : y <= x
    BY <1>2 DEF Most
  <2>4. Most(S) \in S /\ \A y \in S : y <= Most(S)
    BY <2>2, <2>3
  <2> QED BY <1>2, <2>4
<1> QED BY <1>1, <1>2

LEMMA IndexedFinite ==
  ASSUME NEW m \in Nat, NEW s, IsList(s, m)
  PROVE  IsFiniteSet({s[b] : b \in 1..m})
<1>1. IsFiniteSet(1..m)
  BY FS_Interval
<1> QED BY <1>1, FiniteValues DEF IsList

LEMMA RowsAre ==
  ASSUME NEW m \in Nat, Batch(alive, cols, valid, pads, drafted, L, width, dsize, m), Sizes
  PROVE  /\ Rows = 1..m /\ Len(alive) = m
         /\ \A b \in 1..m : AliveAt(b) = Sees(alive[b])
         /\ MaxValid \in Nat /\ \A b \in 1..m : valid[b] <= MaxValid
<1>1. Rows = 1..m /\ width \in Nat /\ L \in Nat
  BY SizeAssumption DEF Batch, IsList, Rows, Sizes
<1>2. \A b \in 1..m : AliveAt(b) = Sees(alive[b])
  <2> SUFFICES ASSUME NEW b \in 1..m PROVE AliveAt(b) = Sees(alive[b])
    OBVIOUS
  <2>1. RowSound(alive[b], cols[b], valid[b], L, width)
    BY DEF Batch
  <2>2. DOMAIN (alive[b]) = 1..L
    BY <1>1, <2>1, RowFacts
  <2> QED BY <2>2 DEF Sees, AliveAt
<1>3. Len(alive) = m
  BY <1>1, BatchTypes
<1>4. MaxValid \in Nat /\ \A b \in 1..m : valid[b] <= MaxValid
  <2> DEFINE S == {valid[b] : b \in 1..m}
  <2>1. \A b \in 1..m : valid[b] \in Nat
    <3> SUFFICES ASSUME NEW b \in 1..m PROVE valid[b] \in Nat
      OBVIOUS
    <3>1. RowSound(alive[b], cols[b], valid[b], L, width)
      BY DEF Batch
    <3> QED BY <1>1, <3>1, RowFacts
  <2>2. S \in SUBSET Nat
    BY <2>1
  <2>3. IsFiniteSet(S)
    <3>1. IsList(valid, m)
      BY DEF Batch
    <3> QED BY <3>1, IndexedFinite
  <2>4. \A b \in 1..m : valid[b] \in S
    OBVIOUS
  <2>5. MaxValid = Most(S)
    BY <1>1 DEF MaxValid
  <2> HIDE DEF S
  <2> QED BY <2>2, <2>3, <2>4, <2>5, MostFacts
<1> QED BY <1>1, <1>2, <1>3, <1>4

(* Compacting shows in every row what was seen. *)
LEMMA PackedSound ==
  ASSUME NEW m \in Nat, Batch(alive, cols, valid, pads, drafted, L, width, dsize, m), Sizes,
         width = 0, L # 0, NEW b \in 1..m
  PROVE  /\ RowSound(PackedAlive(b), Packed(b), valid[b], MaxValid, 0)
         /\ Seen(PackedAlive(b), Packed(b)) = Seen(alive[b], cols[b])
<1> DEFINE t == Seen(alive[b], cols[b])
           x == cols[b][1]
           v == valid[b]
           k == MaxValid
<1>1. L \in Nat /\ 1 \in 1..L /\ L + 0 = L /\ 0 \in Nat
  BY DEF Sizes
<1>2. RowSound(alive[b], cols[b], v, L, 0)
  BY DEF Batch
<1>3. t \in Seq(Column) /\ Len(t) = v /\ InPlace(t, 0) /\ v \in Nat
  <2>1. t \in Seq(Column) /\ Len(t) = v /\ v \in Nat
    BY <1>1, <1>2, RowFacts
  <2>2. InPlace(t, 0)
    BY <1>2 DEF RowSound
  <2> QED BY <2>1, <2>2
<1>4. x \in Column
  <2>1. cols[b] \in Seq(Column) /\ Len(cols[b]) = L + 0
    BY <1>2 DEF RowSound, Long
  <2> QED BY <1>1, <2>1, ElementOfSeq
<1>5. /\ k \in Nat /\ v <= k /\ AliveAt(b) = Sees(alive[b])
  BY RowsAre
<1>6. Packed(b) = LeftPad(t, k, x)
  BY <1>5 DEF Packed, LeftPad, Seen
<1>7. PackedAlive(b) = [i \in 1..k |-> i > k - v]
  BY DEF PackedAlive
<1> HIDE DEF t, x, v, k
<1>8. /\ RowSound([i \in 1..k |-> i > k - Len(t)], LeftPad(t, k, x), Len(t), k, 0)
      /\ Seen([i \in 1..k |-> i > k - Len(t)], LeftPad(t, k, x)) = t
  BY <1>3, <1>4, <1>5, PackRow
<1>9. RowSound(PackedAlive(b), Packed(b), v, k, 0) /\ Seen(PackedAlive(b), Packed(b)) = t
  BY <1>3, <1>6, <1>7, <1>8
<1> QED BY <1>9 DEF t, v, k

(***************************************************************************)
(* The steps                                                               *)
(***************************************************************************)
LEMMA InitHolds ==
  ASSUME LedgerInit
  PROVE  IInv /\ Hist = <<>>
<1>1. Sizes
  BY SizeAssumption DEF LedgerInit, Sizes
<1>2. Batch(alive, cols, valid, pads, drafted, L, width, dsize, 0)
  <2>1. IsList(<<>>, 0) /\ \A b \in 1..0 : FALSE
    BY DEF IsList
  <2> QED BY <2>1 DEF LedgerInit, Batch
<1>3. IsFiniteSet(memo) /\ MasksFresh
  BY FS_EmptySet DEF LedgerInit, MasksFresh
<1>4. Hist = <<>>
  BY DEF LedgerInit, Hist, HistOf
<1> QED BY <1>1, <1>2, <1>3, <1>4 DEF IInv, RowsHeld

(* A step that drops the masks keeps the invariant if rows and sizes do. *)
LEMMA MasksDropped ==
  ASSUME memo' = {}
  PROVE  IsFiniteSet(memo)' /\ MasksFresh'
  BY FS_EmptySet DEF MasksFresh

LEMMA CompactKeeps ==
  ASSUME IInv, Compact
  PROVE  IInv' /\ Hist' = Hist
<1>1. PICK m \in Nat : Batch(alive, cols, valid, pads, drafted, L, width, dsize, m)
  BY DEF IInv, RowsHeld
<1>2. Sizes /\ width = 0 /\ MaxValid > 0 /\ 2 * L > 3 * MaxValid
  BY DEF IInv, Compact
<1>3. Rows = 1..m /\ MaxValid \in Nat
  BY <1>1, <1>2, RowsAre
<1>4. L # 0
  BY <1>2, <1>3
<1>5. \A b \in 1..m : /\ RowSound(PackedAlive(b), Packed(b), valid[b], MaxValid, 0)
                      /\ Seen(PackedAlive(b), Packed(b)) = Seen(alive[b], cols[b])
  BY <1>1, <1>2, <1>4, PackedSound
<1>6. /\ alive' = [b \in 1..m |-> PackedAlive(b)]
      /\ cols' = [b \in 1..m |-> Packed(b)]
      /\ valid' = valid /\ pads' = pads /\ drafted' = drafted
      /\ L' = MaxValid /\ width' = 0 /\ dsize' = dsize
  BY <1>2, <1>3 DEF Compact, drafts
<1>7. Batch(alive', cols', valid', pads', drafted', L', width', dsize', m)
  <2>1. IsList(alive', m) /\ IsList(cols', m)
    BY <1>6 DEF IsList
  <2>2. \A b \in 1..m : RowSound(alive'[b], cols'[b], valid'[b], L', width')
    BY <1>5, <1>6
  <2> QED BY <1>1, <1>6, <2>1, <2>2 DEF Batch
<1>8. Sizes'
  <2>1. L' = MaxValid /\ phys' = MaxValid /\ width' = 0 /\ dsize' = dsize /\ rounds' = rounds
    BY <1>2 DEF Compact, drafts
  <2>2. 0 \in 0..Width /\ MaxValid + 0 = MaxValid
    BY <1>3, SizeAssumption
  <2> QED BY <1>2, <1>3, <2>1, <2>2 DEF Sizes
<1>9. Hist' = Hist
  <2>1. L \in Nat /\ L' \in Nat /\ width \in Nat /\ width' \in Nat
    BY <1>2, <1>3, <1>6 DEF Sizes
  <2>2. Shows(Hist, alive, cols, m)
    BY <1>1, <2>1, HistShows DEF Hist
  <2>3. Shows(Hist', alive', cols', m)
    BY <1>7, <2>1, HistShows DEF Hist
  <2>4. \A b \in 1..m : Seen(alive'[b], cols'[b]) = Seen(alive[b], cols[b])
    BY <1>5, <1>6
  <2> QED BY <2>2, <2>3, <2>4, SameShown
<1>10. IsFiniteSet(memo)' /\ MasksFresh'
  BY MasksDropped DEF Compact, Invalidate
<1> QED BY <1>7, <1>8, <1>9, <1>10 DEF IInv, RowsHeld

LEMMA DiscardKeeps ==
  ASSUME IInv, Discard
  PROVE  IInv' /\ Hist' = Hist
<1>1. PICK m \in Nat : Batch(alive, cols, valid, pads, drafted, L, width, dsize, m)
  BY DEF IInv, RowsHeld
<1>2. 1..m = {} /\ UNCHANGED <<alive, cols, valid, pads, drafted>>
  BY <1>1, RowsAre DEF IInv, Discard
<1>3. \A b \in 1..m : FALSE
  BY <1>2
<1>4. Batch(alive', cols', valid', pads', drafted', L', width', dsize', m)
  BY <1>1, <1>2, <1>3 DEF Batch
<1>5. Sizes'
  BY DEF IInv, Discard, Sizes
<1>6. Hist' = Hist
  <2>1. DOMAIN alive = {} /\ alive' = alive
    BY DEF Discard, Rows
  <2> QED BY <2>1 DEF Hist, HistOf
<1>7. IsFiniteSet(memo)' /\ MasksFresh'
  BY MasksDropped DEF Discard, Invalidate
<1> QED BY <1>4, <1>5, <1>6, <1>7 DEF IInv, RowsHeld

LEMMA RetireKeeps ==
  ASSUME IInv, NEW S \in SUBSET Rows, Retire(S)
  PROVE  IInv' /\ S \in SUBSET DOMAIN Hist /\ Hist' = Selection(Hist, S)
<1>1. PICK m \in Nat : Batch(alive, cols, valid, pads, drafted, L, width, dsize, m)
  BY DEF IInv, RowsHeld
<1>2. Sizes /\ Rows = 1..m
  BY <1>1, RowsAre DEF IInv
<1>3. S \in SUBSET (1..m)
  BY <1>2
<1>4. /\ alive' = Selection(alive, S) /\ valid' = Selection(valid, S)
      /\ cols' = Selection(cols, S) /\ pads' = Selection(pads, S)
      /\ drafted' = Selection(drafted, S)
      /\ L' = L /\ width' = width /\ dsize' = dsize /\ phys' = phys /\ rounds' = rounds
  BY DEF Retire
<1> DEFINE k == Cardinality(S)
<1>5. k \in Nat /\ Batch(alive', cols', valid', pads', drafted', L', width', dsize', k)
  BY <1>1, <1>3, <1>4, BatchSelect
<1>6. Sizes'
  BY <1>2, <1>4 DEF Sizes
<1>7. L \in Nat /\ width \in Nat
  BY <1>2, SizeAssumption DEF Sizes
<1>8. Shows(Hist, alive, cols, m)
  BY <1>1, <1>7, HistShows DEF Hist
<1>9. S \in SUBSET DOMAIN Hist
  BY <1>3, <1>8 DEF Shows, IsList
<1>10. Hist' = Selection(Hist, S)
  <2> DEFINE g == Selection(Hist, S)
  <2>1. \A j \in 1..k : Nth(S, j) \in 1..m
    <3>1. S \in SUBSET Int /\ IsFiniteSet(S)
      <4>1. IsFiniteSet(1..m)
        BY FS_Interval
      <4>2. IsFiniteSet(S)
        BY <1>3, <4>1, FS_Subset
      <4> QED BY <1>3, <4>2
    <3> QED BY <1>3, <3>1, NthFacts
  <2>2. \A s : DOMAIN Selection(s, S) = 1..k /\ \A j \in 1..k : Selection(s, S)[j] = s[Nth(S, j)]
    BY DEF Selection
  <2>3. g = [j \in 1..k |-> Hist[Nth(S, j)]]
    BY DEF Selection
  <2>4. Shows(Hist', alive', cols', k)
    BY <1>4, <1>5, <1>7, HistShows DEF Hist
  <2> HIDE DEF k, g
  <2>5. IsList(Hist', k) /\ \A j \in 1..k : Hist'[j] = Toks(Seen(alive'[j], cols'[j]))
    BY <2>4 DEF Shows
  <2>6. ASSUME NEW j \in 1..k PROVE Hist'[j] = Hist[Nth(S, j)]
    <3>1. Nth(S, j) \in 1..m
      BY <2>1
    <3>2. alive'[j] = alive[Nth(S, j)] /\ cols'[j] = cols[Nth(S, j)]
      BY <1>4, <2>2
    <3>3. Hist[Nth(S, j)] = Toks(Seen(alive[Nth(S, j)], cols[Nth(S, j)]))
      BY <1>8, <3>1 DEF Shows
    <3> QED BY <2>5, <3>2, <3>3
  <2>7. Hist' = [j \in 1..k |-> Hist'[j]]
    BY <2>5 DEF IsList
  <2>8. Hist' = g
    BY <2>3, <2>6, <2>7
  <2> QED BY <2>8 DEF g
<1>11. IsFiniteSet(memo)' /\ MasksFresh'
  BY MasksDropped DEF Retire, Invalidate
<1> QED BY <1>5, <1>6, <1>9, <1>10, <1>11 DEF IInv, RowsHeld

(* Every history is followed by one token at least and Width at most. *)
Grows(h, g, m) ==
  /\ IsList(h, m) /\ IsList(g, m)
  /\ \A b \in 1..m :
       \E v \in Nat, k \in 1..Width :
         /\ h[b] \in Seq(Tokens) /\ Len(h[b]) = v
         /\ g[b] \in Seq(Tokens) /\ Longer(g[b], h[b], v, k)

LEMMA TokensLonger ==
  ASSUME NEW al, NEW cs, NEW v, NEW l \in Nat, NEW w \in Nat, RowSound(al, cs, v, l, w),
         NEW al2, NEW k \in Nat, RowSound(al2, cs, v + k, l + w, 0),
         Longer(Seen(al2, cs), Seen(al, cs), v, k)
  PROVE  /\ v \in Nat
         /\ Toks(Seen(al, cs)) \in Seq(Tokens) /\ Len(Toks(Seen(al, cs))) = v
         /\ Toks(Seen(al2, cs)) \in Seq(Tokens)
         /\ Longer(Toks(Seen(al2, cs)), Toks(Seen(al, cs)), v, k)
<1> DEFINE s == Toks(Seen(al, cs))
           t == Toks(Seen(al2, cs))
           n == v + k
           q == l + w
<1>1. v \in Nat
  BY RowFacts
<1>2. q \in Nat /\ 0 \in Nat /\ \A j \in 1..v : j \in 1..n
  BY <1>1
<1>3. /\ s \in Seq(Tokens) /\ Len(s) = v
      /\ \A j \in 1..v : s[j] = Seen(al, cs)[j].tok
  BY TokensRead
<1>4. RowSound(al2, cs, n, q, 0)
  OBVIOUS
<1> HIDE DEF n, q
<1>5. /\ t \in Seq(Tokens) /\ Len(t) = n
      /\ \A j \in 1..n : t[j] = Seen(al2, cs)[j].tok
  BY <1>2, <1>4, TokensRead
<1>6. \A j \in 1..v : t[j] = s[j]
  BY <1>2, <1>3, <1>5 DEF Longer
<1> QED BY <1>1, <1>3, <1>5, <1>6 DEF Longer, n

LEMMA CommitKeeps ==
  ASSUME IInv, NEW keeps \in [Rows -> 1..width], CommitRound(keeps)
  PROVE  IInv' /\ \E m \in Nat : Grows(Hist, Hist', m)
<1>1. PICK m \in Nat : Batch(alive, cols, valid, pads, drafted, L, width, dsize, m)
  BY DEF IInv, RowsHeld
<1>2. Sizes /\ Rows = 1..m /\ width > 0
  BY <1>1, RowsAre DEF IInv, CommitRound
<1>3. L \in Nat /\ width \in Nat /\ width <= Width /\ Width \in Nat /\ dsize \in Nat
  BY <1>2, SizeAssumption DEF Sizes
<1>4. /\ alive' = [b \in 1..m |-> Committed(b, keeps[b])]
      /\ valid' = [b \in 1..m |-> valid[b] + keeps[b]]
      /\ L' = L + width /\ width' = 0
      /\ cols' = cols /\ phys' = phys /\ pads' = pads /\ drafted' = drafted /\ dsize' = dsize
  BY <1>2 DEF CommitRound, drafts
<1>5. ASSUME NEW b \in 1..m
      PROVE  /\ RowSound(alive'[b], cols'[b], valid'[b], L', 0)
             /\ Longer(Seen(alive'[b], cols'[b]), Seen(alive[b], cols[b]), valid[b], keeps[b])
             /\ keeps[b] \in 1..width
  <2>1. RowSound(alive[b], cols[b], valid[b], L, width)
    BY <1>1 DEF Batch
  <2>2. keeps[b] \in 1..width
    BY <1>2
  <2>3. keeps[b] \in 0..width
    BY <1>3, <2>2
  <2>4. alive'[b] = alive[b] \o [i \in 1..width |-> i <= keeps[b]]
    BY <1>4 DEF Committed
  <2> DEFINE k == keeps[b]
             a == alive[b] \o [i \in 1..width |-> i <= k]
  <2>5. /\ RowSound(a, cols[b], valid[b] + k, L + width, 0)
        /\ Longer(Seen(a, cols[b]), Seen(alive[b], cols[b]), valid[b], k)
    <3> HIDE DEF k
    <3>1. k \in 0..width
      BY <2>3 DEF k
    <3> QED BY <1>3, <2>1, <3>1, CommitRow
  <2> QED BY <1>4, <2>2, <2>4, <2>5
<1>6. Batch(alive', cols', valid', pads', drafted', L', width', dsize', m)
  <2>1. IsList(alive', m) /\ IsList(valid', m)
    BY <1>4 DEF IsList
  <2>2. \A b \in 1..m : RowSound(alive'[b], cols'[b], valid'[b], L', width')
    BY <1>4, <1>5
  <2> QED BY <1>1, <1>4, <2>1, <2>2 DEF Batch
<1>7. Sizes'
  <2>1. rounds' \in Nat
    BY <1>2 DEF Sizes, CommitRound
  <2>2. L' \in Nat /\ width' \in 0..Width /\ phys' = L' + width'
    BY <1>2, <1>3, <1>4 DEF Sizes
  <2> QED BY <1>3, <1>4, <2>1, <2>2 DEF Sizes
<1>8. Grows(Hist, Hist', m)
  <2>1. Shows(Hist, alive, cols, m)
    BY <1>1, <1>3, HistShows DEF Hist
  <2>2. L' \in Nat /\ width' \in Nat
    BY <1>3, <1>4
  <2>3. Shows(Hist', alive', cols', m)
    BY <1>6, <2>2, HistShows DEF Hist
  <2>4. ASSUME NEW b \in 1..m
        PROVE  \E v \in Nat, k \in 1..Width :
                 /\ Hist[b] \in Seq(Tokens) /\ Len(Hist[b]) = v
                 /\ Hist'[b] \in Seq(Tokens) /\ Longer(Hist'[b], Hist[b], v, k)
    <3> DEFINE v == valid[b]
               k == keeps[b]
    <3>1. RowSound(alive[b], cols[b], v, L, width)
      BY <1>1 DEF Batch
    <3>2. k \in 1..Width /\ k \in Nat
      BY <1>3, <1>5
    <3>3. RowSound(alive'[b], cols[b], v + k, L + width, 0)
      BY <1>4, <1>5
    <3>4. Longer(Seen(alive'[b], cols[b]), Seen(alive[b], cols[b]), v, k)
      BY <1>4, <1>5
    <3> HIDE DEF v, k
    <3>5. /\ v \in Nat
          /\ Toks(Seen(alive[b], cols[b])) \in Seq(Tokens)
          /\ Len(Toks(Seen(alive[b], cols[b]))) = v
          /\ Toks(Seen(alive'[b], cols[b])) \in Seq(Tokens)
          /\ Longer(Toks(Seen(alive'[b], cols[b])), Toks(Seen(alive[b], cols[b])), v, k)
      BY <1>3, <3>1, <3>2, <3>3, <3>4, TokensLonger
    <3>6. Hist[b] = Toks(Seen(alive[b], cols[b])) /\ Hist'[b] = Toks(Seen(alive'[b], cols[b]))
      BY <1>4, <2>1, <2>3 DEF Shows
    <3> QED BY <3>2, <3>5, <3>6
  <2> QED BY <2>1, <2>3, <2>4 DEF Grows, Shows
<1>9. IsFiniteSet(memo)' /\ MasksFresh'
  BY MasksDropped DEF CommitRound, Invalidate
<1> QED BY <1>6, <1>7, <1>8, <1>9 DEF IInv, RowsHeld

(* The mask of a round is the one of the ledger as it is, kept or not. *)
LEMMA MaskIs ==
  ASSUME MasksFresh, NEW T
  PROVE  RoundMask(T) = Mask(T)
<1>1. CASE \E m \in memo : m.T = T
  <2> DEFINE c == CHOOSE m \in memo : m.T = T
  <2>1. c \in memo /\ c.T = T
    BY <1>1
  <2> HIDE DEF c
  <2>2. c = Mask(T)
    BY <2>1 DEF MasksFresh
  <2> QED BY <1>1, <2>2 DEF RoundMask, c
<1>2. CASE ~ \E m \in memo : m.T = T
  BY <1>2 DEF RoundMask
<1> QED BY <1>1, <1>2

LEMMA ForwardKeeps ==
  ASSUME IInv, NEW T \in 1..Width, NEW ts \in [Rows -> Pieces(T)], Forward(T, ts)
  PROVE  IInv' /\ Hist' = Hist
<1>1. PICK m \in Nat : Batch(alive, cols, valid, pads, drafted, L, width, dsize, m)
  BY DEF IInv, RowsHeld
<1>2. Sizes /\ Rows = 1..m /\ width = 0 /\ MasksFresh /\ IsFiniteSet(memo)
  BY <1>1, RowsAre DEF IInv, Forward
<1>3. L \in Nat /\ T \in Nat /\ dsize \in Nat /\ 0 \in Nat /\ L + 0 = L
  BY <1>2, SizeAssumption DEF Sizes
<1>4. /\ cols' = [b \in 1..m |-> cols[b] \o Rotated(ts[b], valid[b])]
      /\ phys' = phys + T /\ width' = T
      /\ L' = L /\ alive' = alive /\ valid' = valid /\ pads' = pads /\ rounds' = rounds
      /\ dsize' = IF T > 1 THEN dsize + 1 ELSE dsize
      /\ drafted' = [b \in 1..m |-> IF T > 1 THEN Append(drafted[b], DraftOffset(b) + 1)
                                    ELSE drafted[b]]
      /\ memo' = memo \cup {RoundMask(T)}
  BY <1>2 DEF Forward, ledger, Offset
<1>5. ASSUME NEW b \in 1..m
      PROVE  /\ RowSound(alive'[b], cols'[b], valid'[b], L', T)
             /\ Seen(alive'[b], cols'[b]) = Seen(alive[b], cols[b])
  <2>1. RowSound(alive[b], cols[b], valid[b], L, 0)
    BY <1>1, <1>2 DEF Batch
  <2>2. ts[b] \in [1..T -> Tokens]
    BY <1>2 DEF Pieces
  <2>3. /\ RowSound(alive[b], cols[b] \o Rotated(ts[b], valid[b]), valid[b], L, T)
        /\ Seen(alive[b], cols[b] \o Rotated(ts[b], valid[b])) = Seen(alive[b], cols[b])
    BY <1>3, <2>1, <2>2, WriteRow
  <2> QED BY <1>4, <2>3
<1>6. ASSUME NEW b \in 1..m PROVE DraftSound(drafted'[b], pads'[b], dsize')
  <2>1. DraftSound(drafted[b], pads[b], dsize)
    BY <1>1 DEF Batch
  <2>2. CASE T > 1
    <3>1. DraftSound(Append(drafted[b], dsize - pads[b] + 1), pads[b], dsize + 1)
      BY <1>3, <2>1, DraftGrow
    <3>2. drafted'[b] = Append(drafted[b], dsize - pads[b] + 1) /\ dsize' = dsize + 1
      BY <1>4, <2>2 DEF DraftOffset
    <3> QED BY <1>4, <3>1, <3>2
  <2>3. CASE ~(T > 1)
    <3>1. drafted'[b] = drafted[b] /\ dsize' = dsize
      BY <1>4, <2>3
    <3> QED BY <1>4, <2>1, <3>1
  <2> QED BY <2>2, <2>3
<1>7. Batch(alive', cols', valid', pads', drafted', L', width', dsize', m)
  <2>1. IsList(cols', m) /\ IsList(drafted', m)
    BY <1>4 DEF IsList
  <2>2. IsList(alive', m) /\ IsList(valid', m) /\ IsList(pads', m)
    BY <1>1, <1>4 DEF Batch
  <2>3. \A b \in 1..m : RowSound(alive'[b], cols'[b], valid'[b], L', width')
    BY <1>4, <1>5
  <2> QED BY <1>6, <2>1, <2>2, <2>3 DEF Batch
<1>8. Sizes'
  <2>1. dsize' \in Nat
    BY <1>3, <1>4
  <2>2. phys' = L' + width' /\ width' \in 0..Width
    BY <1>2, <1>3, <1>4, SizeAssumption DEF Sizes
  <2> QED BY <1>2, <1>4, <2>1, <2>2 DEF Sizes
<1>9. Hist' = Hist
  <2>1. width \in Nat /\ L' \in Nat /\ width' \in Nat
    BY <1>2, <1>3, <1>4
  <2>2. Shows(Hist, alive, cols, m)
    BY <1>1, <1>3, <2>1, HistShows DEF Hist
  <2>3. Shows(Hist', alive', cols', m)
    BY <1>7, <2>1, HistShows DEF Hist
  <2> QED BY <1>5, <2>2, <2>3, SameShown
<1>10. IsFiniteSet(memo)' /\ MasksFresh'
  <2>1. IsFiniteSet(memo')
    BY <1>2, <1>4, FS_AddElement
  <2>2. RoundMask(T) = Mask(T)
    BY <1>2, MaskIs
  <2>3. \A U : Mask(U)' = Mask(U)
    BY <1>4 DEF Mask, AliveAt, Rows
  <2>4. Mask(T).T = T
    BY DEF Mask
  <2>5. \A u \in memo' : u = Mask(u.T)
    BY <1>2, <1>4, <2>2, <2>4 DEF MasksFresh
  <2> QED BY <2>1, <2>3, <2>5 DEF MasksFresh
<1> QED BY <1>7, <1>8, <1>9, <1>10 DEF IInv, RowsHeld

LEMMA PromptFacts ==
  ASSUME NEW p \in Prompts
  PROVE  /\ p \in Seq(Tokens) /\ Len(p) \in Nat /\ Len(p) > 1
         /\ Toks(Rotated(p, 0)) = p
<1>1. PICK n \in PromptLens : p \in [1..n -> Tokens]
  BY DEF Prompts, Pieces
<1>2. n \in Nat /\ n > 1 /\ 0 \in Nat
  BY SizeAssumption
<1>3. p \in Seq(Tokens) /\ Len(p) = n
  BY <1>1, <1>2
<1>4. DOMAIN Rotated(p, 0) = 1..n /\ \A i \in 1..n : Rotated(p, 0)[i].tok = p[i]
  BY <1>1, <1>2, RotatedFacts
<1>5. Toks(Rotated(p, 0)) = [i \in 1..n |-> p[i]]
  BY <1>4 DEF Toks
<1> QED BY <1>1, <1>2, <1>3, <1>5

(* Rows that are new stand behind the ones there are, which read the same. *)
Enters(h, g, m, n) ==
  /\ IsList(h, m) /\ IsList(g, n) /\ m < n
  /\ \A b \in 1..m : g[b] = h[b]
  /\ \A b \in 1..n : g[b] \in Seq(Tokens)

LEMMA TokensShown ==
  ASSUME NEW m \in Nat, NEW l \in Nat, NEW w \in Nat, NEW n,
         NEW al, NEW cs, NEW vl, NEW pd, NEW dr, Batch(al, cs, vl, pd, dr, l, w, n, m)
  PROVE  \A b \in 1..m : HistOf(al, cs, l)[b] \in Seq(Tokens)
<1> SUFFICES ASSUME NEW b \in 1..m PROVE HistOf(al, cs, l)[b] \in Seq(Tokens)
  OBVIOUS
<1>1. HistOf(al, cs, l)[b] = Toks(Seen(al[b], cs[b]))
  BY HistShows DEF Shows
<1>2. RowSound(al[b], cs[b], vl[b], l, w)
  BY DEF Batch
<1>3. Toks(Seen(al[b], cs[b])) \in Seq(Tokens)
  BY <1>2, TokensRead
<1> QED BY <1>1, <1>3

LEMMA PrefillKeeps ==
  ASSUME IInv, NEW m \in Nat, m > 0, NEW ps \in [1..m -> Prompts], Prefill(ps)
  PROVE  IInv' /\ Enters(Hist, Hist', 0, m)
<1> DEFINE n == Most({Len(ps[b]) : b \in DOMAIN ps})
           w == Most({k \in 1..Window : \A b \in DOMAIN ps : k <= Len(ps[b]) - 1})
<1>1. /\ L' = n /\ phys' = n /\ width' = width /\ width = 0 /\ rounds' = rounds /\ alive = <<>>
      /\ alive' = [b \in 1..m |-> [i \in 1..n |-> i <= Len(ps[b])]]
      /\ cols' = [b \in 1..m |-> Rotated(ps[b], 0) \o Const(n - Len(ps[b]), Zero)]
      /\ valid' = [b \in 1..m |-> Len(ps[b])]
      /\ pads' = [b \in 1..m |-> 0]
      /\ dsize' = w
      /\ drafted' = [b \in 1..m |-> Primed(w)]
  BY DEF Prefill
<1>2. ASSUME NEW b \in 1..m PROVE ps[b] \in Seq(Tokens) /\ Len(ps[b]) \in Nat
  BY PromptFacts
<1>3. n \in Nat /\ \A b \in 1..m : Len(ps[b]) <= n
  <2> DEFINE ls == [b \in 1..m |-> Len(ps[b])]
             S == {ls[b] : b \in 1..m}
  <2>1. IsFiniteSet(S)
    <3>1. IsList(ls, m)
      BY DEF IsList
    <3> HIDE DEF ls
    <3> QED BY <3>1, IndexedFinite
  <2>2. S \in SUBSET Nat
    BY <1>2
  <2>3. n = Most(S)
    <3>1. {Len(ps[b]) : b \in DOMAIN ps} = S
      OBVIOUS
    <3> QED BY <3>1
  <2>4. \A b \in 1..m : Len(ps[b]) \in S
    OBVIOUS
  <2> HIDE DEF S, n
  <2>5. Most(S) \in Nat /\ \A y \in S : y <= Most(S)
    BY <2>1, <2>2, MostFacts
  <2> QED BY <2>3, <2>4, <2>5
<1>4. w \in Nat
  <2> DEFINE S == {k \in 1..Window : \A b \in DOMAIN ps : k <= Len(ps[b]) - 1}
  <2>1. Window \in Nat /\ S \in SUBSET (1..Window)
    BY SizeAssumption
  <2> HIDE DEF S
  <2>2. IsFiniteSet(1..Window)
    BY <2>1, FS_Interval
  <2>3. IsFiniteSet(S)
    BY <2>1, <2>2, FS_Subset
  <2>4. S \in SUBSET Nat
    BY <2>1
  <2>5. Most(S) \in Nat
    BY <2>3, <2>4, MostFacts
  <2> QED BY <2>5 DEF S
<1> HIDE DEF n, w
<1>5. Batch(alive', cols', valid', pads', drafted', L', width', dsize', m)
  <2>1. /\ IsList(alive', m) /\ IsList(cols', m) /\ IsList(valid', m) /\ IsList(pads', m)
        /\ IsList(drafted', m)
    BY <1>1 DEF IsList
  <2>2. ASSUME NEW b \in 1..m PROVE RowSound(alive'[b], cols'[b], valid'[b], L', width')
    <3> DEFINE p == ps[b]
    <3>1. p \in Seq(Tokens) /\ Short(p, n)
      BY <1>2, <1>3 DEF Short
    <3>2. /\ alive'[b] = [i \in 1..n |-> i <= Len(p)]
          /\ cols'[b] = Rotated(p, 0) \o Const(n - Len(p), Zero)
          /\ valid'[b] = Len(p)
      BY <1>1
    <3> HIDE DEF p
    <3>3. RowSound([i \in 1..n |-> i <= Len(p)], Rotated(p, 0) \o Const(n - Len(p), Zero),
                   Len(p), n, 0)
      BY <1>3, <3>1, PrefillRow
    <3> QED BY <1>1, <3>2, <3>3
  <2>3. \A b \in 1..m : DraftSound(drafted'[b], pads'[b], dsize')
    <3>1. DraftSound(Primed(w), 0, w)
      BY <1>4, DraftPrimed
    <3> QED BY <1>1, <3>1
  <2> QED BY <2>1, <2>2, <2>3 DEF Batch
<1>6. Sizes'
  <2>1. n + 0 = n /\ width \in 0..Width /\ rounds \in Nat
    BY <1>3 DEF IInv, Sizes
  <2> QED BY <1>1, <1>3, <1>4, <2>1 DEF Sizes
<1>7. Enters(Hist, Hist', 0, m)
  <2>1. L' \in Nat /\ width' \in Nat
    BY <1>1, <1>3
  <2>2. Shows(Hist', alive', cols', m) /\ \A b \in 1..m : Hist'[b] \in Seq(Tokens)
    BY <1>5, <2>1, HistShows, TokensShown DEF Hist
  <2>3. IsList(Hist, 0)
    BY <1>1 DEF IsList, Hist, HistOf
  <2>4. 0 < m /\ \A b \in 1..0 : FALSE
    OBVIOUS
  <2> QED BY <2>2, <2>3, <2>4 DEF Enters, Shows
<1>8. IsFiniteSet(memo)' /\ MasksFresh'
  BY MasksDropped DEF Prefill, Invalidate
<1> QED BY <1>5, <1>6, <1>7, <1>8 DEF IInv, RowsHeld

LEMMA JoinKeeps ==
  ASSUME IInv, NEW p \in Prompts, Join(p)
  PROVE  IInv' /\ \E m \in Nat : Enters(Hist, Hist', m, m + 1)
<1>1. PICK m \in Nat : Batch(alive, cols, valid, pads, drafted, L, width, dsize, m)
  BY DEF IInv, RowsHeld
<1>2. Sizes /\ Rows = 1..m /\ width = 0 /\ MaxValid \in Nat /\ L \in Nat /\ dsize \in Nat
  BY <1>1, RowsAre DEF IInv, Join, Sizes
<1>3. p \in Seq(Tokens) /\ Len(p) \in Nat /\ Len(p) > 1 /\ Window \in Nat
  BY PromptFacts, SizeAssumption
<1> DEFINE dense == L > MaxValid
           oldL == IF dense THEN MaxValid ELSE L
           newL == IF Len(p) > oldL THEN Len(p) ELSE oldL
           shown(b) == IF dense THEN PackedAlive(b) ELSE alive[b]
           data(b) == IF dense THEN Packed(b) ELSE cols[b]
           w == IF Len(p) - 1 < Window THEN Len(p) - 1 ELSE Window
           n == IF w > dsize THEN w ELSE dsize
           al == [b \in 1..m |-> LeftPad(shown(b), newL, FALSE)]
           cs == [b \in 1..m |-> LeftPad(data(b), newL, Zero)]
           pd == [b \in 1..m |-> pads[b] + (n - dsize)]
           dr == [b \in 1..m |-> LeftPad(drafted[b], n, 0)]
           a == [i \in 1..newL |-> i > newL - Len(p)]
           c == LeftPad(Rotated(p, 0), newL, Zero)
           d == LeftPad(Primed(w), n, 0)
<1>4. /\ L' = newL /\ phys' = newL /\ dsize' = n /\ width' = 0 /\ rounds' = rounds
      /\ alive' = Append(al, a) /\ cols' = Append(cs, c) /\ valid' = Append(valid, Len(p))
      /\ pads' = Append(pd, n - w) /\ drafted' = Append(dr, d)
  BY <1>2 DEF Join, NewPads
<1>5. oldL \in Nat /\ newL \in Nat /\ oldL <= newL /\ Len(p) <= newL
  BY <1>2, <1>3
<1>6. w \in Nat /\ n \in Nat /\ w <= n /\ dsize <= n
  BY <1>2, <1>3
<1>7. ASSUME NEW b \in 1..m
      PROVE  RowSound(shown(b), data(b), valid[b], oldL, 0) /\ Seen(shown(b), data(b)) = Seen(alive[b], cols[b])
  <2>1. CASE dense
    <3>1. L # 0
      BY <1>2, <2>1
    <3>2. /\ RowSound(PackedAlive(b), Packed(b), valid[b], MaxValid, 0)
          /\ Seen(PackedAlive(b), Packed(b)) = Seen(alive[b], cols[b])
      BY <1>1, <1>2, <3>1, PackedSound
    <3> QED BY <2>1, <3>2
  <2>2. CASE ~dense
    <3>1. RowSound(alive[b], cols[b], valid[b], L, 0)
      BY <1>1, <1>2 DEF Batch
    <3> QED BY <2>2, <3>1
  <2> QED BY <2>1, <2>2
<1> HIDE DEF shown, data, newL, oldL, w, n
<1>8. ASSUME NEW b \in 1..m
      PROVE  RowSound(al[b], cs[b], valid[b], newL, 0) /\ Seen(al[b], cs[b]) = Seen(alive[b], cols[b])
  <2> DEFINE x == shown(b)
             y == data(b)
             v == valid[b]
  <2>1. Zero \in Column /\ RowSound(x, y, v, oldL, 0) /\ Seen(x, y) = Seen(alive[b], cols[b])
    BY <1>7, ZeroColumn
  <2>2. al[b] = LeftPad(x, newL, FALSE) /\ cs[b] = LeftPad(y, newL, Zero)
    OBVIOUS
  <2> HIDE DEF x, y, v, al, cs
  <2>3. SameRow(LeftPad(x, newL, FALSE), LeftPad(y, newL, Zero), x, y, v, newL)
    <3>1. oldL \in Nat /\ newL \in Nat /\ Narrow(oldL, newL)
      BY <1>5 DEF Narrow
    <3>2. Zero \in Column /\ RowSound(x, y, v, oldL, 0)
      BY <2>1
    <3> QED BY <3>1, <3>2, PadRow
  <2> QED BY <2>1, <2>2, <2>3 DEF v, SameRow
<1>9. ASSUME NEW b \in 1..m PROVE DraftSound(dr[b], pd[b], n)
  <2>1. DraftSound(drafted[b], pads[b], dsize)
    BY <1>1 DEF Batch
  <2>2. Wider(pd[b], pads[b], n, dsize)
    BY DEF Wider
  <2> DEFINE q == pd[b]
  <2> HIDE DEF q
  <2>3. DraftSound(LeftPad(drafted[b], n, 0), q, n)
    BY <1>2, <1>6, <2>1, <2>2, DraftPad DEF q
  <2> QED BY <2>3 DEF q
<1> HIDE DEF al, cs, pd, dr
<1>10. Batch(al, cs, valid, pd, dr, newL, 0, n, m)
  <2>1. IsList(al, m) /\ IsList(cs, m) /\ IsList(pd, m) /\ IsList(dr, m)
    BY DEF IsList, al, cs, pd, dr
  <2>2. IsList(valid, m)
    BY <1>1 DEF Batch
  <2> QED BY <1>8, <1>9, <2>1, <2>2 DEF Batch
<1>11. RowSound(a, c, Len(p), newL, 0) /\ DraftSound(d, n - w, n)
  <2>1. Short(p, newL)
    BY <1>5 DEF Short
  <2>2. RowSound(a, c, Len(p), newL, 0)
    BY <1>3, <1>5, <2>1, NewRow
  <2>3. DraftSound(Primed(w), 0, w) /\ Wider(n - w, 0, n, w)
    BY <1>6, DraftPrimed DEF Wider
  <2>4. DraftSound(d, n - w, n)
    BY <1>6, <2>3, DraftPad
  <2> QED BY <2>2, <2>4
<1> HIDE DEF a, c, d
<1>12. Batch(alive', cols', valid', pads', drafted', L', width', dsize', m + 1)
  <2> DEFINE e == n - w
             v == Len(p)
  <2>1. RowSound(a, c, v, newL, 0) /\ DraftSound(d, e, n)
    BY <1>11
  <2> HIDE DEF e, v
  <2>2. Batch(Append(al, a), Append(cs, c), Append(valid, v), Append(pd, e), Append(dr, d),
              newL, 0, n, m + 1)
    BY <1>10, <2>1, BatchJoin
  <2> QED BY <1>4, <2>2 DEF e, v
<1>13. Sizes'
  <2>1. 0 \in 0..Width /\ newL + 0 = newL /\ rounds \in Nat
    BY <1>2, <1>5, SizeAssumption DEF Sizes
  <2> QED BY <1>4, <1>5, <1>6, <2>1 DEF Sizes
<1>14. Enters(Hist, Hist', m, m + 1)
  <2>1. L' \in Nat /\ width \in Nat /\ width' \in Nat /\ m + 1 \in Nat
    BY <1>2, <1>4, <1>5
  <2>2. Shows(Hist, alive, cols, m)
    BY <1>1, <1>2, <2>1, HistShows DEF Hist
  <2> DEFINE k == m + 1
  <2>3. k \in Nat /\ Batch(alive', cols', valid', pads', drafted', L', width', dsize', k)
    BY <1>12
  <2> HIDE DEF k
  <2>4. Shows(Hist', alive', cols', k) /\ \A b \in 1..k : Hist'[b] \in Seq(Tokens)
    BY <2>1, <2>3, HistShows, TokensShown DEF Hist
  <2>5. ASSUME NEW b \in 1..m PROVE Hist'[b] = Hist[b]
    <3>1. b \in 1..k
      BY DEF k
    <3>2. IsList(al, m) /\ IsList(cs, m)
      BY <1>10 DEF Batch
    <3>3. Joined(alive', al, a, m)
      BY <1>4, <3>2, ListJoin
    <3>4. Joined(cols', cs, c, m)
      BY <1>4, <3>2, ListJoin
    <3>5. alive'[b] = al[b] /\ cols'[b] = cs[b]
      BY <3>3, <3>4 DEF Joined
    <3>6. Seen(alive'[b], cols'[b]) = Seen(alive[b], cols[b])
      BY <1>8, <3>5
    <3> QED BY <2>2, <2>4, <3>1, <3>6 DEF Shows
  <2>6. m < k
    BY DEF k
  <2>7. Enters(Hist, Hist', m, k)
    BY <2>2, <2>4, <2>5, <2>6 DEF Enters, Shows
  <2> QED BY <2>7 DEF k
<1>15. IsFiniteSet(memo)' /\ MasksFresh'
  BY MasksDropped DEF Join, Invalidate
<1>16. RowsHeld'
  <2>1. m + 1 \in Nat
    OBVIOUS
  <2> QED BY <1>12, <2>1 DEF RowsHeld
<1> QED BY <1>13, <1>14, <1>15, <1>16 DEF IInv

(***************************************************************************)
(* The theorems                                                            *)
(***************************************************************************)

(* What a step does to the histories: nothing, rows enter, rows grow, or     *)
(* rows leave.                                                              *)
Moved ==
  \/ Hist' = Hist
  \/ \E m, n \in Nat : Enters(Hist, Hist', m, n)
  \/ \E m \in Nat : Grows(Hist, Hist', m)
  \/ \E S \in SUBSET DOMAIN Hist : Hist' = Selection(Hist, S)

LEMMA StepKeeps ==
  ASSUME IInv, [LedgerNext]_ledgerVars
  PROVE  IInv' /\ Moved
<1>1. ASSUME NEW n \in 1..MaxRows, NEW ps \in [1..n -> Prompts], Prefill(ps)
      PROVE  IInv' /\ Moved
  <2>1. n \in Nat /\ n > 0 /\ 0 \in Nat
    BY SizeAssumption
  <2> QED BY <1>1, <2>1, PrefillKeeps DEF Moved
<1>2. ASSUME NEW p \in Prompts, Join(p)
      PROVE  IInv' /\ Moved
  <2>1. IInv' /\ \E m \in Nat : Enters(Hist, Hist', m, m + 1)
    BY <1>2, JoinKeeps
  <2>2. \A m \in Nat : m + 1 \in Nat
    OBVIOUS
  <2> QED BY <2>1, <2>2 DEF Moved
<1>3. ASSUME NEW T \in 1..Width, NEW ts \in [Rows -> Pieces(T)], Forward(T, ts)
      PROVE  IInv' /\ Moved
  BY <1>3, ForwardKeeps DEF Moved
<1>4. ASSUME NEW keeps \in [Rows -> 1..width], CommitRound(keeps)
      PROVE  IInv' /\ Moved
  BY <1>4, CommitKeeps DEF Moved
<1>5. ASSUME NEW S \in SUBSET Rows, Retire(S)
      PROVE  IInv' /\ Moved
  BY <1>5, RetireKeeps DEF Moved
<1>6. CASE Discard
  BY <1>6, DiscardKeeps DEF Moved
<1>7. CASE Compact
  BY <1>7, CompactKeeps DEF Moved
<1>8. CASE UNCHANGED ledgerVars
  <2>1. /\ L' = L /\ alive' = alive /\ valid' = valid /\ cols' = cols /\ phys' = phys
        /\ memo' = memo /\ width' = width /\ pads' = pads /\ dsize' = dsize
        /\ drafted' = drafted /\ rounds' = rounds
    BY <1>8 DEF ledgerVars, ledger, drafts
  <2>2. Sizes' /\ RowsHeld'
    BY <2>1 DEF IInv, Sizes, RowsHeld
  <2>3. IsFiniteSet(memo)' /\ MasksFresh'
    <3>1. \A T : Mask(T)' = Mask(T)
      BY <2>1 DEF Mask, AliveAt, Rows
    <3> QED BY <2>1, <3>1 DEF IInv, MasksFresh
  <2>4. Hist' = Hist
    BY <2>1 DEF Hist
  <2> QED BY <2>2, <2>3, <2>4 DEF IInv, Moved
<1> QED BY <1>1, <1>2, <1>3, <1>4, <1>5, <1>6, <1>7, <1>8 DEF LedgerNext

LEMMA Inductive == LedgerSpec => []IInv
<1>1. LedgerInit => IInv
  BY InitHolds
<1>2. IInv /\ [LedgerNext]_ledgerVars => IInv'
  BY StepKeeps
<1> QED BY <1>1, <1>2, PTL DEF LedgerSpec

LEMMA AlignedHere ==
  ASSUME IInv
  PROVE  Aligned
<1>1. PICK m \in Nat : Batch(alive, cols, valid, pads, drafted, L, width, dsize, m)
  BY DEF IInv, RowsHeld
<1>2. /\ Sizes /\ L \in Nat /\ width \in Nat /\ dsize \in Nat /\ rounds \in Nat
      /\ width \in 0..Width /\ phys = L + width /\ phys \in Nat
  BY SizeAssumption DEF IInv, Sizes
<1>3. /\ Rows = 1..m /\ Len(alive) = m
      /\ \A b \in 1..m : AliveAt(b) = Sees(alive[b])
  BY <1>1, <1>2, RowsAre
<1>4. /\ alive \in Seq(Seq(BOOLEAN)) /\ cols \in Seq(Seq(Column)) /\ Len(cols) = m
      /\ valid \in Seq(Nat) /\ Len(valid) = m /\ pads \in Seq(Nat) /\ Len(pads) = m
      /\ drafted \in Seq(Seq(Nat)) /\ Len(drafted) = m
  BY <1>1, <1>2, BatchTypes
<1>5. LedgerTypeOK
  BY <1>2, <1>4 DEF LedgerTypeOK, IInv
<1>6. ASSUME NEW b \in 1..m
      PROVE  /\ Len(alive[b]) = L /\ Len(cols[b]) = phys
             /\ Cardinality(AliveAt(b)) = valid[b]
             /\ LET shown == Selection(cols[b], AliveAt(b))
                IN  \A i \in DOMAIN shown : shown[i].pos = i
  <2>1. RowSound(alive[b], cols[b], valid[b], L, width)
    BY <1>1 DEF Batch
  <2>2. Len(alive[b]) = L /\ Len(cols[b]) = phys
    BY <1>2, <2>1 DEF RowSound, Long
  <2>3. Cardinality(AliveAt(b)) = valid[b]
    BY <1>3, <2>1 DEF RowSound
  <2> DEFINE t == Selection(cols[b], AliveAt(b))
  <2>4. t = Seen(alive[b], cols[b])
    BY <1>3 DEF Seen
  <2>5. \A i \in DOMAIN t : i \in Nat /\ t[i].pos = 0 + i
    <3>1. InPlace(t, 0)
      BY <2>1, <2>4 DEF RowSound
    <3>2. valid[b] \in Nat /\ DOMAIN t = 1..valid[b]
      <4>1. valid[b] \in Nat /\ DOMAIN Seen(alive[b], cols[b]) = 1..valid[b]
        BY <1>2, <2>1, RowFacts
      <4> QED BY <2>4, <4>1
    <3> HIDE DEF t
    <3> QED BY <3>1, <3>2 DEF InPlace
  <2> HIDE DEF t
  <2>6. \A i \in DOMAIN t : t[i].pos = i
    BY <2>5
  <2> QED BY <2>2, <2>3, <2>6 DEF t
<1>7. Counted
  BY <1>2, <1>3, <1>4, <1>6 DEF Counted
<1>8. RotationsHold
  <2>1. ASSUME NEW b \in 1..m
        PROVE  /\ Len(drafted[b]) = dsize /\ pads[b] <= dsize
               /\ \A i \in 1..dsize : drafted[b][i] = IF i > pads[b] THEN i - pads[b] ELSE 0
    BY <1>1 DEF Batch, DraftSound
  <2> QED BY <1>3, <1>4, <1>6, <2>1 DEF RotationsHold
<1> QED BY <1>5, <1>7, <1>8 DEF Aligned, IInv

(* Ledger, columns, draft columns and kept masks never part, whatever the    *)
(* calls on a batch are and in whatever order they come.                     *)
THEOREM AlignedHolds == LedgerSpec => []Aligned
  BY Inductive, AlignedHere, PTL

(* A history that goes on from another begins with it. *)
LEMMA PrefixIs ==
  ASSUME NEW S, NEW s \in Seq(S), NEW t \in Seq(S), NEW v \in Nat, NEW k \in Nat,
         Len(s) = v, Longer(t, s, v, k)
  PROVE  Alone!IsPrefix(s, t)
<1>1. Len(t) = v + k /\ (\A j \in 1..v : t[j] = s[j]) /\ v \in 0..Len(s) /\ v \in 0..Len(t)
  BY DEF Longer
<1>2. /\ SubSeq(s, 1, v) \in Seq(S) /\ Len(SubSeq(s, 1, v)) = v
      /\ \A i \in 1..v : SubSeq(s, 1, v)[i] = s[i]
  BY <1>1, FirstPart
<1>3. /\ SubSeq(t, 1, v) \in Seq(S) /\ Len(SubSeq(t, 1, v)) = v
      /\ \A i \in 1..v : SubSeq(t, 1, v)[i] = t[i]
  BY <1>1, FirstPart
<1>4. SubSeq(s, 1, v) = SubSeq(t, 1, v)
  BY <1>1, <1>2, <1>3, SeqEqual
<1>5. Len(s) <= Len(t)
  BY <1>1
<1> QED BY <1>4, <1>5 DEF Alone!IsPrefix

LEMMA HistIs ==
  /\ [b \in Rows |-> History(b)] = Hist
  /\ [b \in Rows |-> History(b)]' = Hist'
  BY DEF History, Hist, HistOf, Toks, AliveAt, Rows

LEMMA StepRefines ==
  ASSUME Moved
  PROVE  [Alone!Next]_([b \in Rows |-> History(b)])
<1> DEFINE h == Hist
<1>1. CASE Hist' = Hist
  BY <1>1, HistIs
<1>2. ASSUME NEW m \in Nat, NEW n \in Nat, Enters(Hist, Hist', m, n)
      PROVE  Alone!Enter
  <2> DEFINE S == Seq(Tokens)
             k == n - m
  <2>1. IsList(Hist, m) /\ IsList(Hist', n) /\ m < n /\ k \in Nat /\ n = m + k
    BY <1>2 DEF Enters
  <2>2. (\A b \in 1..m : Hist'[b] = Hist[b]) /\ \A b \in 1..n : Hist'[b] \in S
    BY <1>2 DEF Enters
  <2>3. \A b \in 1..m : b \in 1..n
    BY <2>1
  <2>4. \A b \in 1..m : Hist[b] \in S
    BY <2>2, <2>3
  <2> HIDE DEF S, k
  <2>5. Hist \in Seq(S) /\ Len(Hist) = m
    BY <2>1, <2>4, ListSeq
  <2>6. Hist' \in Seq(S) /\ Len(Hist') = n
    BY <2>1, <2>2, ListSeq
  <2>7. Alone!IsPrefix(Hist, Hist')
    <3>1. Longer(Hist', Hist, m, k)
      BY <2>1, <2>2, <2>6 DEF Longer
    <3> QED BY <2>1, <2>5, <2>6, <3>1, PrefixIs
  <2>8. Len(Hist') > Len(Hist) /\ \A i \in DOMAIN Hist' : Hist'[i] \in S
    BY <2>1, <2>2, <2>5, <2>6 DEF IsList
  <2> QED BY <2>7, <2>8, HistIs DEF Alone!Enter, S
<1>3. ASSUME NEW m \in Nat, Grows(Hist, Hist', m)
      PROVE  Alone!Grow
  <2> DEFINE S == Seq(Tokens)
  <2>1. IsList(Hist, m) /\ IsList(Hist', m)
    BY <1>3 DEF Grows
  <2>2. ASSUME NEW b \in 1..m
        PROVE  /\ Alone!IsPrefix(Hist[b], Hist'[b]) /\ Hist[b] \in S /\ Hist'[b] \in S
               /\ Len(Hist'[b]) - Len(Hist[b]) \in 1..Width
    <3>1. PICK v \in Nat, k \in 1..Width :
            /\ Hist[b] \in Seq(Tokens) /\ Len(Hist[b]) = v
            /\ Hist'[b] \in Seq(Tokens) /\ Longer(Hist'[b], Hist[b], v, k)
      BY <1>3 DEF Grows
    <3>2. k \in Nat
      BY SizeAssumption
    <3>3. Alone!IsPrefix(Hist[b], Hist'[b])
      BY <3>1, <3>2, PrefixIs
    <3>4. Len(Hist'[b]) = v + k
      BY <3>1 DEF Longer
    <3>5. (v + k) - v = k
      BY <3>2
    <3> QED BY <3>1, <3>3, <3>4, <3>5
  <2> HIDE DEF S
  <2>3. Len(Hist) = m /\ Len(Hist') = m /\ DOMAIN Hist = 1..m
    BY <2>1, <2>2, ListSeq DEF IsList
  <2> QED BY <2>2, <2>3, HistIs DEF Alone!Grow, S
<1>4. ASSUME NEW S \in SUBSET DOMAIN Hist, Hist' = Selection(Hist, S)
      PROVE  Alone!Leave
  <2>1. \A s : Alone!Selection(s, S) = Selection(s, S)
    <3>1. \A T : Alone!Cardinality(T) = Cardinality(T)
      BY DEF Alone!Cardinality, Cardinality
    <3>2. \A x : Alone!Below(S, x) = Below(S, x)
      BY DEF Alone!Below, Below
    <3>3. \A j : Alone!Nth(S, j) = Nth(S, j)
      BY <3>1, <3>2 DEF Alone!Nth, Nth
    <3> QED BY <3>1, <3>3 DEF Alone!Selection, Selection
  <2> QED BY <1>4, <2>1, HistIs DEF Alone!Leave
<1> QED BY <1>1, <1>2, <1>3, <1>4 DEF Moved, Alone!Next

(* Padding, rejecting, packing and retiring are steps of their own in the    *)
(* batch and none of them is seen by a row: every history grows as if the    *)
(* row were alone.                                                          *)
THEOREM RowsAloneHolds == LedgerSpec => RowsAlone
<1>1. LedgerInit => Alone!Init
  BY InitHolds, HistIs DEF Alone!Init
<1>2. IInv /\ [LedgerNext]_ledgerVars => [Alone!Next]_([b \in Rows |-> History(b)])
  BY StepKeeps, StepRefines
<1> QED BY <1>1, <1>2, Inductive, PTL DEF LedgerSpec, RowsAlone, Alone!Spec
=============================================================================
