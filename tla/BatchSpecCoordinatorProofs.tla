---------------------- MODULE BatchSpecCoordinatorProofs ----------------------
(***************************************************************************)
(* BatchSpecCoordinator for every number of requests, every batch, budget    *)
(* and depth.  The invariant says, between any two steps of the drive loop,  *)
(* who is where, what each row of the generator still owes its admission,    *)
(* what each answer consists of, which settings the batch samples with, and  *)
(* in which order requests wait.                                           *)
(***************************************************************************)
EXTENDS BatchSpecCoordinator, ListFacts

Yields == [toks : Seq(Tokens), eos : BOOLEAN]

Typed == TypeOK /\ fresh \in Seq(Yields) /\ budget \in Int

(* Where _drive stands between two drive loops. *)
Resting == {"off", "recheck", "restart"}

(* What is certain at each place of _drive. *)
Control ==
  /\ pc \in Resting => queued = IF active THEN 1 ELSE 0
  /\ pc \notin Resting => active /\ queued = 0
  /\ pc # "deliver" => fresh = <<>> /\ staying = {}
  /\ pc \in Resting \cup {"close"} => waiting = <<>> /\ rows = <<>> /\ lane = None
  /\ pc \in {"fetch", "head"} => lane = None
  /\ pc \in {"advance", "join"} => lane # None
  /\ pc = "alone" => waiting # <<>>
  /\ solo # None <=> pc = "solo"
  /\ Len(fresh) <= Len(rows) /\ \A b \in staying : b < Turn

(* The rows that are still answered: all but those whose turn ended them. *)
Answering == {b \in DOMAIN rows : pc = "deliver" => b >= Turn \/ b \in staying}
Here     == {rows[b] : b \in Answering}
InLane   == IF lane = None THEN {} ELSE {lane.req}
OnEngine == IF solo = None THEN {} ELSE {solo.req}
Known    == Elements(inbox) \cup Elements(waiting) \cup Here \cup InLane \cup OnEngine

Apart ==
  /\ Distinct(inbox) /\ Distinct(waiting) /\ Distinct(rows)
  /\ Elements(inbox) \cap (Elements(waiting) \cup Elements(rows) \cup InLane \cup OnEngine) = {}
  /\ Elements(waiting) \cap (Elements(rows) \cup InLane \cup OnEngine) = {}
  /\ Elements(rows) \cap (InLane \cup OnEngine) = {}
  /\ InLane \cap OnEngine = {}

(* A request is pending while a place knows it, and no longer. *)
Accounted ==
  /\ \A r \in Known : outcome[r] = "pending"
  /\ \A r \in Requests : outcome[r] = "pending" => r \in Known \cup dropped
  /\ \A r \in Elements(rows) : outcome[r] # "none"

(* What the b-th row has generated and its admission has not been given. *)
Due(b) == IF b >= Turn THEN fresh[b - Turn + 1].toks ELSE <<>>

RowSound(b) ==
  /\ gen[b] = [of |-> rows[b], at |-> Len(kept[rows[b]]) + Len(Due(b))]
  /\ Due(b) = Following(rows[b], Len(kept[rows[b]]), Len(Due(b)))
  /\ Len(kept[rows[b]]) + Len(Due(b)) >= 1
  /\ Len(kept[rows[b]]) + Len(Due(b)) <= MaxTokens[rows[b]]

Aligned ==
  /\ Len(gen) = Len(rows)
  /\ \A b \in DOMAIN rows : RowSound(b)
  /\ lane # None => lane.at = Len(kept[lane.req])

(* The tokens of r so far, with those of the serial engine. *)
Said(r) == Len(kept[r]) + (IF solo # None /\ solo.req = r THEN Len(solo.got) ELSE 0)

Told(r) ==
  /\ heard[r] = Following(r, 0, Len(heard[r])) /\ Len(heard[r]) <= MaxTokens[r]
  /\ kept[r] = Following(r, 0, Len(kept[r])) /\ Len(kept[r]) <= MaxTokens[r]
  /\ outcome[r] \notin Ended =>
       /\ Len(kept[r]) < MaxTokens[r]
       /\ r \in Streaming => Len(heard[r]) = Said(r)
  /\ outcome[r] = "done" =>
       /\ result[r] # <<>> /\ result[r] = Following(r, 0, Len(result[r]))
       /\ r \in Streaming => result[r] = heard[r]

SoloSound ==
  solo # None =>
    /\ solo.got = Following(solo.req, Len(kept[solo.req]), Len(solo.got))
    /\ Len(kept[solo.req]) + Len(solo.got) <= MaxTokens[solo.req]

(* The batch and the row that will join it have one setting, never a seed. *)
Sampling ==
  /\ \A b \in DOMAIN rows : Key[rows[b]] = genKey
  /\ rows # <<>> => genKey # None /\ sampler = genKey
  /\ lane # None => sampler # None /\ Key[lane.req] = sampler
  /\ Len(rows) + (IF lane = None THEN 0 ELSE 1) <= MaxBatch

(* Whoever has not run waits in front of all that came after it. *)
Arrived ==
  /\ IsFiniteSet({r \in Requests : seq[r] > 0})
  /\ \A r \in Requests : seq[r] <= Drained
  /\ \A r \in Requests : outcome[r] = "none" \/ r \in Elements(inbox) => seq[r] = 0
  /\ \A i, j \in DOMAIN waiting :
       i < j /\ kept[waiting[i]] = <<>> => seq[waiting[i]] < seq[waiting[j]]

IInv ==
  /\ Typed /\ Control /\ Apart /\ Accounted /\ Aligned
  /\ \A r \in Requests : Told(r)
  /\ SoloSound /\ Sampling /\ Arrived

(***************************************************************************)
(* What the operators return                                               *)
(***************************************************************************)
LEMMA SpecConstants ==
  /\ None \notin Requests /\ None \notin Lanes /\ None \notin Solos
  /\ \A r \in Requests : MaxTokens[r] \in Nat \ {0} /\ PromptLen[r] \in Nat
  /\ MaxBatch \in Nat \ {0} /\ Depth \in Nat /\ PrefillChunk \in Nat \ {0}
  /\ TokenBudget \in Nat \ {0} /\ RectLimit \in Nat /\ Streaming \subseteq Requests
  BY RequestAssumption, SizeAssumption

(* A record is not the value that stands for no record. *)
LEMMA TypedFacts ==
  ASSUME Typed
  PROVE  /\ inbox \in Seq(Requests) /\ waiting \in Seq(Requests) /\ rows \in Seq(Requests)
         /\ kept \in [Requests -> Seq(Tokens)] /\ heard \in [Requests -> Seq(Tokens)]
         /\ result \in [Requests -> Seq(Tokens)]
         /\ gen \in Seq([of : Requests, at : Nat]) /\ fresh \in Seq(Yields)
         /\ outcome \in [Requests -> {"none", "pending"} \cup Ended]
         /\ seq \in [Requests -> Nat] /\ budget \in Int
         /\ lane # None => /\ lane \in Lanes
                          /\ lane.req \in Requests /\ lane.at \in Nat /\ lane.left \in Nat
         /\ solo # None => /\ solo \in Solos
                          /\ solo.req \in Requests /\ solo.got \in Seq(Tokens)
         /\ staying \subseteq DOMAIN rows /\ dropped \subseteq Requests
         /\ cancelled \subseteq Streaming
  BY DEF Typed, TypeOK, Lanes, Solos

LEMMA FollowingFacts ==
  ASSUME NEW r \in Requests, NEW at \in Nat, NEW n \in Nat
  PROVE  /\ Following(r, at, n) \in Seq(Tokens) /\ Len(Following(r, at, n)) = n
         /\ DOMAIN Following(r, at, n) = 1..n
         /\ \A i \in 1..n : Following(r, at, n)[i] = [of |-> r, i |-> at + i]
<1>1. \A i \in 1..n : [of |-> r, i |-> at + i] \in Tokens
  BY DEF Tokens
<1> QED BY <1>1 DEF Following

(* A history continues where it stands. *)
LEMMA FollowingJoins ==
  ASSUME NEW r \in Requests, NEW at \in Nat, NEW m \in Nat, NEW n \in Nat
  PROVE  Following(r, at, m) \o Following(r, at + m, n) = Following(r, at, m + n)
<1> DEFINE a == Following(r, at, m)
           b == Following(r, at + m, n)
           c == Following(r, at, m + n)
<1>1. /\ a \in Seq(Tokens) /\ Len(a) = m /\ \A i \in 1..m : a[i] = [of |-> r, i |-> at + i]
      /\ b \in Seq(Tokens) /\ Len(b) = n
      /\ \A i \in 1..n : b[i] = [of |-> r, i |-> at + m + i]
      /\ c \in Seq(Tokens) /\ Len(c) = m + n
      /\ \A i \in 1..(m + n) : c[i] = [of |-> r, i |-> at + i]
  <2>1. at + m \in Nat /\ m + n \in Nat
    OBVIOUS
  <2> QED BY <2>1, FollowingFacts, ZenonT(40)
<1> HIDE DEF a, b, c
<1>2. /\ a \o b \in Seq(Tokens) /\ Len(a \o b) = m + n
      /\ \A i \in 1..(m + n) : (a \o b)[i] = IF i <= m THEN a[i] ELSE b[i - m]
  BY <1>1, ConcatProperties, ZenonT(40)
<1>3. \A i \in 1..(m + n) : (a \o b)[i] = c[i]
  <2> SUFFICES ASSUME NEW i \in 1..(m + n) PROVE (a \o b)[i] = c[i]
    OBVIOUS
  <2>1. CASE i <= m
    <3>1. i \in 1..m
      BY <2>1
    <3> QED BY <1>1, <1>2, <2>1, <3>1
  <2>2. CASE i > m
    <3>1. i - m \in 1..n /\ at + m + (i - m) = at + i /\ ~(i <= m)
      BY <2>2
    <3>2. b[i - m] = [of |-> r, i |-> at + m + (i - m)]
      BY <1>1, <3>1
    <3>3. b[i - m] = [of |-> r, i |-> at + i]
      BY <3>1, <3>2
    <3>4. (a \o b)[i] = b[i - m]
      BY <1>2, <3>1
    <3>5. c[i] = [of |-> r, i |-> at + i]
      BY <1>1
    <3> QED BY <3>3, <3>4, <3>5
  <2>3. i <= m \/ i > m
    OBVIOUS
  <2> QED BY <2>1, <2>2, <2>3
<1> QED BY <1>1, <1>2, <1>3, SeqEqual, ZenonT(40) DEF a, b, c

(* h is the piece of r's history of n tokens after the first at. *)
Piece(h, r, at, n) ==
  /\ r \in Requests /\ at \in Nat /\ n \in Nat
  /\ h \in Seq(Tokens) /\ Len(h) = n /\ h = Following(r, at, n)

LEMMA NextPiece ==
  ASSUME NEW r \in Requests, NEW at \in Nat, NEW n \in Nat
  PROVE  Piece(Following(r, at, n), r, at, n)
  BY FollowingFacts DEF Piece

LEMMA PiecesJoin ==
  ASSUME NEW r, NEW h, NEW c, NEW at, NEW from, NEW m, NEW n,
         Piece(h, r, at, m), Piece(c, r, from, n), from = at + m
  PROVE  Piece(h \o c, r, at, m + n)
<1>1. /\ r \in Requests /\ at \in Nat /\ m \in Nat /\ n \in Nat
      /\ h = Following(r, at, m) /\ c = Following(r, at + m, n)
  BY DEF Piece
<1>2. Following(r, at, m) \o Following(r, at + m, n) = Following(r, at, m + n)
  BY <1>1, FollowingJoins
<1>3. Piece(Following(r, at, m + n), r, at, m + n)
  <2>1. m + n \in Nat
    BY <1>1
  <2> QED BY <1>1, <2>1, NextPiece
<1>4. h \o c = Following(r, at, m + n)
  BY <1>1, <1>2
<1> QED BY <1>3, <1>4

LEMMA CompletedFacts ==
  ASSUME Typed, NEW S, NEW how \in Ended
  PROVE  /\ Completed(S, how) \in [Requests -> {"none", "pending"} \cup Ended]
         /\ \A r \in Requests :
              Completed(S, how)[r] =
                IF r \in S /\ outcome[r] = "pending" THEN how ELSE outcome[r]
  BY TypedFacts DEF Completed

(* The entries of a list at all places but one. *)
LEMMA OthersFacts ==
  ASSUME NEW s \in Seq(Requests), Distinct(s), NEW k \in DOMAIN s
  PROVE  /\ Selection(s, DOMAIN s \ {k}) \in Seq(Requests)
         /\ Distinct(Selection(s, DOMAIN s \ {k}))
         /\ Elements(Selection(s, DOMAIN s \ {k})) = Elements(s) \ {s[k]}
         /\ Len(Selection(s, DOMAIN s \ {k})) = Len(s) - 1
<1> DEFINE S == DOMAIN s \ {k}
           t == Selection(s, S)
<1>1. S \in SUBSET DOMAIN s
  OBVIOUS
<1>2. /\ t \in Seq(Requests) /\ Distinct(t) /\ Elements(t) = {s[i] : i \in S}
      /\ Len(t) = Cardinality(S)
  <2> HIDE DEF S
  <2> QED BY <1>1, SelectionFacts, SelectionElements
<1>4. {s[i] : i \in S} = Elements(s) \ {s[k]}
  BY DEF Elements, Distinct
<1>5. Cardinality(S) = Len(s) - 1
  <2>1. IsFiniteSet(DOMAIN s) /\ Cardinality(DOMAIN s) = Len(s)
    BY PlacesCounted
  <2>2. Cardinality(DOMAIN s \ {k}) = Cardinality(DOMAIN s) - 1
    BY <2>1, FS_RemoveElement
  <2> QED BY <2>1, <2>2
<1> QED BY <1>2, <1>4, <1>5

(***************************************************************************)
(* What a step that leaves a part's variables alone keeps                  *)
(***************************************************************************)
LEMMA ApartFrame ==
  ASSUME Apart, UNCHANGED <<inbox, waiting, rows, lane, solo>>
  PROVE  Apart'
  BY DEF Apart, InLane, OnEngine

LEMMA AccountedFrame ==
  ASSUME Accounted, pc' = pc \/ (pc # "deliver" /\ pc' # "deliver"),
         UNCHANGED <<outcome, dropped, inbox, waiting, rows, lane, solo, fresh, staying>>
  PROVE  Accounted'
<1>1. Turn' = Turn
  BY DEF Turn
<1>2. Answering' = Answering
  BY <1>1 DEF Answering
<1>3. Here' = Here
  BY <1>2 DEF Here
<1>4. Known' = Known
  BY <1>3 DEF Known, InLane, OnEngine
<1> QED BY <1>4 DEF Accounted

LEMMA AlignedFrame ==
  ASSUME Aligned, UNCHANGED <<rows, gen, kept, fresh, lane>>
  PROVE  Aligned'
<1>1. Turn' = Turn
  BY DEF Turn
<1>2. \A b : Due(b)' = Due(b)
  BY <1>1 DEF Due
<1>3. \A b : RowSound(b)' <=> RowSound(b)
  BY <1>2 DEF RowSound
<1> QED BY <1>3 DEF Aligned

LEMMA ToldFrame ==
  ASSUME \A r \in Requests : Told(r), UNCHANGED <<heard, kept, result, outcome, solo>>
  PROVE  \A r \in Requests : Told(r)'
  BY DEF Told, Said

LEMMA SamplingFrame ==
  ASSUME Sampling, UNCHANGED <<rows, genKey, sampler, lane>>
  PROVE  Sampling'
  BY DEF Sampling

LEMMA ArrivedFrame ==
  ASSUME Arrived, UNCHANGED <<seq, inbox, outcome, kept, waiting>>
  PROVE  Arrived'
  BY DEF Arrived, Drained

Quiet ==
  /\ UNCHANGED <<outcome, answers, inbox, waiting, seq, batch, sampler, lane, round, others>>
  /\ pc' = pc \/ (pc # "deliver" /\ pc' # "deliver")

LEMMA QuietKeeps ==
  ASSUME IInv, Quiet, Typed', Control'
  PROVE  IInv'
<1>1. /\ UNCHANGED <<outcome, heard, kept, result, inbox, waiting, seq, rows, gen, genKey>>
      /\ UNCHANGED <<sampler, lane, fresh, staying, solo, dropped>>
      /\ pc' = pc \/ (pc # "deliver" /\ pc' # "deliver")
  BY DEF Quiet, answers, batch, round, others
<1>2. SoloSound'
  BY <1>1 DEF IInv, SoloSound
<1>3. Apart' /\ Accounted' /\ Aligned' /\ Sampling' /\ Arrived'
  BY <1>1, ApartFrame, AccountedFrame, AlignedFrame, SamplingFrame, ArrivedFrame DEF IInv
<1>4. \A r \in Requests : Told(r)'
  BY <1>1, ToldFrame DEF IInv
<1> QED BY <1>2, <1>3, <1>4 DEF IInv

(* The steps that only move the drive loop on, and the event loop's kick.   *)
Onward ==
  \/ TakenAll \/ CompanyOver \/ BeginStep \/ NoRound \/ LaneOver \/ NoAdmit
  \/ EndStep \/ RoundRaises \/ PrefillRaises \/ Close \/ Recheck \/ Restart

LEMMA OnwardKeeps == ASSUME IInv, Onward PROVE IInv'
<1>1. Quiet
  BY DEF Onward, TakenAll, CompanyOver, BeginStep, NoRound, LaneOver, NoAdmit, EndStep,
         RoundRaises, PrefillRaises, Close, Recheck, Restart, Quiet, requests, answers,
         intake, batch, step, round, others
<1>2. /\ UNCHANGED <<cancelled, putting>>
      /\ active' \in BOOLEAN /\ queued' \in 0..1 /\ moved' \in BOOLEAN /\ budget' \in Int
  <2>1. /\ active \in BOOLEAN /\ queued \in 0..1 /\ moved \in BOOLEAN /\ budget \in Int
        /\ pc \in Resting => queued = IF active THEN 1 ELSE 0
    BY DEF IInv, Typed, TypeOK, Control
  <2>2. CASE BeginStep
    <3>1. budget' = TokenBudget /\ moved' = FALSE /\ UNCHANGED <<requests, intake>>
      BY <2>2 DEF BeginStep
    <3>2. TokenBudget \in Int
      BY SpecConstants
    <3>3. budget' \in Int
      BY <3>1, <3>2
    <3> QED BY <2>1, <3>1, <3>3 DEF requests, intake
  <2>3. CASE Restart
    BY <2>1, <2>3 DEF Restart, Resting, requests, step
  <2>4. CASE Close
    BY <2>1, <2>4 DEF Close, requests, step
  <2>5. CASE TakenAll \/ CompanyOver \/ NoRound \/ LaneOver \/ NoAdmit \/ EndStep
               \/ RoundRaises \/ PrefillRaises \/ Recheck
    BY <2>1, <2>5 DEF TakenAll, CompanyOver, NoRound, LaneOver, NoAdmit, EndStep,
       RoundRaises, PrefillRaises, Recheck, requests, intake, step
  <2> QED BY <2>2, <2>3, <2>4, <2>5 DEF Onward
<1>3. Typed'
  BY <1>1, <1>2 DEF IInv, Typed, TypeOK, Quiet, answers, batch, round, others
<1>4. Control'
  <2>1. /\ UNCHANGED <<waiting, rows, lane, fresh, staying, solo>>
        /\ pc # "deliver" /\ Turn' = Turn
    BY <1>1 DEF Quiet, batch, round, others, Turn, Onward, TakenAll, CompanyOver, BeginStep,
       NoRound, LaneOver, NoAdmit, EndStep, RoundRaises, PrefillRaises, Close, Recheck, Restart
  <2>2. Control
    BY DEF IInv
  <2>3. CASE TakenAll
    BY <2>1, <2>2, <2>3 DEF Control, Resting, TakenAll, intake
  <2>4. CASE CompanyOver
    BY <2>1, <2>2, <2>4 DEF Control, Resting, CompanyOver, intake
  <2>5. CASE BeginStep
    BY <2>1, <2>2, <2>5 DEF Control, Resting, BeginStep, intake
  <2>6. CASE NoRound
    BY <2>1, <2>2, <2>6 DEF Control, Resting, NoRound, intake
  <2>7. CASE LaneOver
    BY <2>1, <2>2, <2>7 DEF Control, Resting, LaneOver, intake
  <2>8. CASE NoAdmit
    BY <2>1, <2>2, <2>8 DEF Control, Resting, NoAdmit, intake
  <2>9. CASE EndStep
    BY <2>1, <2>2, <2>9 DEF Control, Resting, EndStep, intake
  <2>10. CASE RoundRaises
    BY <2>1, <2>2, <2>10 DEF Control, Resting, RoundRaises, intake
  <2>11. CASE PrefillRaises
    BY <2>1, <2>2, <2>11 DEF Control, Resting, PrefillRaises, intake
  <2>12. CASE Close
    BY <2>1, <2>2, <2>12 DEF Control, Resting, Close
  <2>13. CASE Recheck
    BY <2>1, <2>2, <2>13 DEF Control, Resting, Recheck, intake
  <2>14. CASE Restart
    BY <2>1, <2>2, <2>14 DEF Control, Resting, Restart
  <2> QED BY <2>3, <2>4, <2>5, <2>6, <2>7, <2>8, <2>9, <2>10, <2>11, <2>12, <2>13, <2>14
          DEF Onward
<1> QED BY <1>1, <1>3, <1>4, QuietKeeps

(* The places know requests. *)
LEMMA KnownType ==
  ASSUME Typed
  PROVE  Known \subseteq Requests /\ Here \subseteq Elements(rows)
<1>1. Elements(inbox) \subseteq Requests /\ Elements(waiting) \subseteq Requests
      /\ Elements(rows) \subseteq Requests
  BY TypedFacts, ElementsType
<1>2. InLane \subseteq Requests /\ OnEngine \subseteq Requests
  BY TypedFacts DEF InLane, OnEngine
<1>3. Here \subseteq Elements(rows)
  BY DEF Here, Elements, Answering
<1> QED BY <1>1, <1>2, <1>3 DEF Known

(* Answers, when a step only ends some of the requests without one. *)
LEMMA ToldUnder ==
  ASSUME \A r \in Requests : Told(r), UNCHANGED <<heard, kept, result>>,
         \A r \in Requests :
           /\ outcome'[r] \in Ended => outcome'[r] = outcome[r] \/ outcome'[r] # "done"
           /\ outcome'[r] \notin Ended => outcome[r] \notin Ended /\ Said(r)' = Said(r)
  PROVE  \A r \in Requests : Told(r)'
<1> SUFFICES ASSUME NEW r \in Requests PROVE Told(r)'
  OBVIOUS
<1>1. Told(r)
  OBVIOUS
<1>2. outcome'[r] = "done" => outcome[r] = "done"
  BY DEF Ended
<1>3. outcome'[r] \notin Ended => outcome[r] \notin Ended /\ Said(r)' = Said(r)
  OBVIOUS
<1> QED BY <1>1, <1>2, <1>3 DEF Told

(***************************************************************************)
(* The event loop and the intake of the drive loop                         *)
(***************************************************************************)
LEMMA PutKeeps == ASSUME IInv, NEW r \in Requests, Put(r) PROVE IInv'
<1>1. /\ outcome[r] = "none" /\ outcome' = [outcome EXCEPT ![r] = "pending"]
      /\ inbox' = Append(inbox, r) /\ putting' = putting \cup {r}
      /\ UNCHANGED <<cancelled, heard, kept, result, active, queued, pc, waiting, seq, rows>>
      /\ UNCHANGED <<gen, genKey, sampler, lane, budget, moved, fresh, staying, solo, dropped>>
  BY DEF Put, answers, batch, step, round, others
<1>2. Typed /\ inbox \in Seq(Requests) /\ outcome \in [Requests -> {"none", "pending"} \cup Ended]
  BY TypedFacts DEF IInv
<1>3. /\ inbox' \in Seq(Requests) /\ Elements(inbox') = Elements(inbox) \cup {r}
      /\ Distinct(inbox) /\ r \notin Elements(inbox) => Distinct(inbox')
  BY <1>1, <1>2, AppendFacts
<1>4. /\ r \notin Known /\ r \notin Elements(rows)
      /\ r \notin Elements(inbox) /\ r \notin Elements(waiting)
      /\ r \notin InLane /\ r \notin OnEngine
  <2>1. Accounted
    BY DEF IInv
  <2>2. r \notin Known /\ r \notin Elements(rows)
    BY <1>1, <2>1 DEF Accounted
  <2> QED BY <2>2 DEF Known
<1>5. outcome' \in [Requests -> {"none", "pending"} \cup Ended]
  BY <1>1, <1>2
<1>6. Typed'
  BY <1>1, <1>2, <1>3, <1>5 DEF Typed, TypeOK
<1>7. Control'
  BY <1>1 DEF IInv, Control, Turn
<1>8. Apart'
  <2>1. InLane' = InLane /\ OnEngine' = OnEngine
    BY <1>1 DEF InLane, OnEngine
  <2> QED BY <1>1, <1>3, <1>4, <2>1 DEF IInv, Apart
<1>9. Accounted'
  <2>1. Answering' = Answering
    BY <1>1 DEF Answering, Turn
  <2>2. Known' = Known \cup {r}
    BY <1>1, <1>3, <2>1 DEF Known, Here, InLane, OnEngine
  <2>3. \A q \in Requests : outcome'[q] = IF q = r THEN "pending" ELSE outcome[q]
    BY <1>1, <1>2
  <2>4. Known \subseteq Requests
    BY <1>2, KnownType
  <2>5. Elements(rows) \subseteq Requests
    BY <1>2, TypedFacts, ElementsType
  <2> QED BY <1>1, <1>4, <2>2, <2>3, <2>4, <2>5 DEF IInv, Accounted
<1>10. Aligned' /\ Sampling' /\ SoloSound'
  <2>1. SoloSound'
    BY <1>1 DEF IInv, SoloSound
  <2> QED BY <1>1, <2>1, AlignedFrame, SamplingFrame DEF IInv
<1>11. \A q \in Requests : Told(q)'
  <2>1. \A q \in Requests :
          /\ outcome'[q] \in Ended => outcome'[q] = outcome[q]
          /\ outcome'[q] \notin Ended => outcome[q] \notin Ended
    BY <1>1, <1>2 DEF Ended
  <2>2. \A q \in Requests : Said(q)' = Said(q)
    BY <1>1 DEF Said
  <2> QED BY <1>1, <2>1, <2>2, ToldUnder DEF IInv
<1>12. Arrived'
  <2>1. \A q \in Requests : outcome'[q] = "none" \/ q \in Elements(inbox') =>
          outcome[q] = "none" \/ q \in Elements(inbox)
    BY <1>1, <1>2, <1>3
  <2> QED BY <1>1, <2>1 DEF IInv, Arrived, Drained
<1> QED BY <1>6, <1>7, <1>8, <1>9, <1>10, <1>11, <1>12 DEF IInv

LEMMA KickKeeps == ASSUME IInv, NEW r \in Requests, Kick(r) PROVE IInv'
<1>1. Quiet /\ UNCHANGED <<cancelled, moved, budget>> /\ putting' \subseteq putting
  BY DEF Kick, Quiet, requests, answers, step, batch, round, others
<1>2. /\ active' = TRUE /\ queued' = IF active THEN queued ELSE queued + 1
      /\ active \in BOOLEAN /\ queued \in 0..1
      /\ pc \in Resting => queued = IF active THEN 1 ELSE 0
      /\ pc \notin Resting => active /\ queued = 0
  BY DEF Kick, IInv, Typed, TypeOK, Control
<1>3. queued' \in 0..1 /\ active' \in BOOLEAN
  BY <1>2
<1>4. Typed'
  BY <1>1, <1>3 DEF IInv, Typed, TypeOK, Quiet, answers, batch, round, others
<1>5. Control'
  <2>1. UNCHANGED <<pc, waiting, rows, lane, fresh, staying, solo>>
    BY DEF Kick, batch, round, others
  <2>2. /\ pc \in Resting => queued' = IF active' THEN 1 ELSE 0
        /\ pc \notin Resting => active' /\ queued' = 0
    BY <1>2
  <2> QED BY <2>1, <2>2 DEF IInv, Control, Turn
<1> QED BY <1>1, <1>4, <1>5, QuietKeeps

LEMMA CancelKeeps == ASSUME IInv, NEW r \in Requests, Cancel(r) PROVE IInv'
<1>1. Quiet /\ UNCHANGED <<putting, active, queued, moved, budget>> /\ pc' = pc
  BY DEF Cancel, Quiet, intake, answers, step, batch, round, others
<1>2. cancelled' \subseteq Streaming
  BY DEF Cancel, IInv, Typed, TypeOK
<1>3. Typed'
  BY <1>1, <1>2 DEF IInv, Typed, TypeOK, Quiet, answers, batch, round, others
<1>4. Control'
  BY <1>1 DEF IInv, Control, Turn, Quiet, batch, round, others
<1> QED BY <1>1, <1>3, <1>4, QuietKeeps

LEMMA StartKeeps == ASSUME IInv, Start PROVE IInv'
<1>1. gen = <<>>
  <2>1. pc = "off" /\ rows = <<>> /\ Len(gen) = Len(rows) /\ gen \in Seq([of : Requests, at : Nat])
    BY TypedFacts DEF Start, IInv, Control, Resting, Aligned
  <2>2. Len(gen) = 0
    BY <2>1
  <2> QED BY <2>1, <2>2, EmptySeq
<1>2. waiting = <<>> /\ rows = <<>> /\ lane = None /\ pc = "off"
  BY DEF Start, IInv, Control, Resting
<1>3. Quiet /\ UNCHANGED <<cancelled, putting, active, moved, budget>>
  BY <1>1, <1>2 DEF Start, Quiet, requests, answers, step, batch, round, others
<1>4. /\ queued' = 0 /\ active
  <2>1. queued = IF active THEN 1 ELSE 0
    BY <1>2 DEF IInv, Control, Resting
  <2>2. queued > 0 /\ queued' = queued - 1
    BY DEF Start
  <2>3. active
    BY <2>1, <2>2
  <2> QED BY <2>1, <2>2, <2>3
<1>5. Typed'
  BY <1>3, <1>4 DEF IInv, Typed, TypeOK, Quiet, answers, batch, round, others
<1>6. Control'
  <2>1. /\ UNCHANGED <<waiting, rows, lane, fresh, staying, solo, active>> /\ pc' = "drain"
        /\ pc # "deliver"
    BY <1>2, <1>3 DEF Start, Quiet, batch, round, others
  <2> QED BY <1>2, <1>4, <2>1 DEF IInv, Control, Resting, Turn
<1> QED BY <1>3, <1>5, <1>6, QuietKeeps

LEMMA TakeKeeps == ASSUME IInv, Take PROVE IInv'
<1> DEFINE r == Head(inbox)
<1>1. /\ inbox # <<>> /\ inbox' = Tail(inbox) /\ waiting' = Append(waiting, r)
      /\ seq' = [seq EXCEPT ![r] = Drained + 1] /\ pc \in {"drain", "company", "fetch"}
      /\ UNCHANGED <<outcome, cancelled, heard, kept, result, putting, active, queued, pc, rows>>
      /\ UNCHANGED <<gen, genKey, sampler, lane, budget, moved, fresh, staying, solo, dropped>>
  BY DEF Take, requests, answers, batch, step, round, others
<1>2. /\ Typed /\ inbox \in Seq(Requests) /\ waiting \in Seq(Requests)
      /\ seq \in [Requests -> Nat]
  BY TypedFacts DEF IInv
<1>3. Apart /\ Accounted /\ Arrived
  BY DEF IInv
<1>4. /\ r \in Requests /\ r \in Elements(inbox) /\ inbox' \in Seq(Requests)
      /\ Elements(inbox') = Elements(inbox) \ {r} /\ Distinct(inbox')
  <2>1. Distinct(inbox)
    BY <1>3 DEF Apart
  <2>2. r \in Requests /\ Tail(inbox) \in Seq(Requests)
    BY <1>1, <1>2, ListParts
  <2>3. Elements(inbox) = Elements(Tail(inbox)) \cup {r}
    BY <1>1, <1>2, TailFacts
  <2>4. Distinct(Tail(inbox)) /\ Elements(Tail(inbox)) = Elements(inbox) \ {r}
    BY <1>1, <1>2, <2>1, TailFacts
  <2> QED BY <1>1, <2>2, <2>3, <2>4
<1>5. /\ r \notin Elements(waiting) /\ r \notin Elements(rows)
      /\ r \notin InLane /\ r \notin OnEngine /\ seq[r] = 0
  BY <1>3, <1>4 DEF Apart, Arrived
<1> HIDE DEF r
<1>6. /\ waiting' \in Seq(Requests) /\ Elements(waiting') = Elements(waiting) \cup {r}
      /\ Distinct(waiting')
  <2>1. Distinct(waiting)
    BY <1>3 DEF Apart
  <2> QED BY <1>1, <1>2, <1>4, <1>5, <2>1, AppendFacts
<1>7. InLane' = InLane /\ OnEngine' = OnEngine /\ Answering' = Answering
  BY <1>1 DEF InLane, OnEngine, Answering, Turn
<1>8. Drained \in Nat /\ Drained' = Drained + 1 /\ IsFiniteSet({q \in Requests : seq'[q] > 0})
  <2> DEFINE N == {q \in Requests : seq[q] > 0}
             M == {q \in Requests : seq'[q] > 0}
  <2>1. IsFiniteSet(N) /\ r \notin N
    BY <1>3, <1>5 DEF Arrived
  <2>2. Cardinality(N) \in Nat
    BY <2>1, FS_CardinalityType
  <2>3. seq'[r] > 0 /\ \A q \in Requests \ {r} : seq'[q] = seq[q]
    BY <1>1, <1>2, <1>4, <2>2 DEF Drained
  <2>4. M = N \cup {r}
    BY <1>4, <2>3
  <2>5. IsFiniteSet(M) /\ Cardinality(M) = Cardinality(N) + 1
    BY <2>1, <2>4, FS_AddElement
  <2> QED BY <2>2, <2>5 DEF Drained
<1>9. seq' \in [Requests -> Nat] /\ seq'[r] = Drained + 1
      /\ \A q \in Requests \ {r} : seq'[q] = seq[q]
  BY <1>1, <1>2, <1>4, <1>8
<1>10. Typed'
  BY <1>1, <1>2, <1>4, <1>6, <1>9 DEF Typed, TypeOK
<1>11. Control'
  BY <1>1 DEF IInv, Control, Turn, Resting
<1>12. Apart'
  BY <1>1, <1>3, <1>4, <1>5, <1>6, <1>7 DEF Apart
<1>13. Accounted'
  <2>1. Known' = Known
    BY <1>1, <1>4, <1>6, <1>7 DEF Known, Here
  <2> QED BY <1>1, <1>3, <2>1 DEF Accounted
<1>14. Aligned' /\ Sampling' /\ SoloSound' /\ \A q \in Requests : Told(q)'
  <2>1. SoloSound'
    BY <1>1 DEF IInv, SoloSound
  <2> QED BY <1>1, <2>1, AlignedFrame, SamplingFrame, ToldFrame DEF IInv
<1>15. Arrived'
  <2>1. ASSUME NEW q \in Requests PROVE seq'[q] <= Drained'
    <3>1. seq[q] <= Drained /\ seq[q] \in Nat
      BY <1>2, <1>3 DEF Arrived
    <3>2. seq'[q] = IF q = r THEN Drained + 1 ELSE seq[q]
      BY <1>9
    <3> QED BY <1>8, <3>1, <3>2
  <2>2. \A q \in Requests : outcome'[q] = "none" \/ q \in Elements(inbox') => seq'[q] = 0
    <3>1. outcome[r] = "pending"
      BY <1>3, <1>4 DEF Accounted, Known
    <3> QED BY <1>1, <1>3, <1>4, <1>9, <3>1 DEF Arrived
  <2>3. ASSUME NEW i \in DOMAIN waiting', NEW j \in DOMAIN waiting', i < j,
               kept'[waiting'[i]] = <<>>
        PROVE  seq'[waiting'[i]] < seq'[waiting'[j]]
    <3>1. /\ Len(waiting) \in Nat /\ DOMAIN waiting = 1..Len(waiting)
          /\ DOMAIN waiting' = 1..(Len(waiting) + 1) /\ waiting'[Len(waiting) + 1] = r
          /\ \A k \in 1..Len(waiting) : waiting'[k] = waiting[k]
      BY <1>1, <1>2, <1>4, AppendFacts
    <3>2. i \in DOMAIN waiting /\ waiting'[i] = waiting[i]
      BY <2>3, <3>1
    <3>3. waiting[i] \in Requests \ {r}
      BY <1>2, <1>5, <3>2, ElementOfSeq DEF Elements
    <3>4. CASE j = Len(waiting) + 1
      <4>1. seq'[waiting'[j]] = Drained + 1
        BY <1>9, <3>1, <3>4
      <4>2. seq'[waiting'[i]] \in Nat /\ seq'[waiting'[i]] <= Drained
        BY <1>2, <1>3, <1>9, <3>2, <3>3 DEF Arrived
      <4> QED BY <1>8, <4>1, <4>2
    <3>5. CASE j # Len(waiting) + 1
      <4>1. j \in DOMAIN waiting /\ waiting'[j] = waiting[j]
        BY <2>3, <3>1, <3>5
      <4>2. waiting[j] \in Requests \ {r}
        BY <1>2, <1>5, <4>1, ElementOfSeq DEF Elements
      <4>3. seq[waiting[i]] < seq[waiting[j]]
        BY <1>1, <1>3, <2>3, <3>2, <4>1 DEF Arrived
      <4> QED BY <1>9, <3>2, <3>3, <4>1, <4>2, <4>3
    <3> QED BY <3>4, <3>5
  <2> QED BY <1>8, <2>1, <2>2, <2>3 DEF Arrived
<1> QED BY <1>10, <1>11, <1>12, <1>13, <1>14, <1>15 DEF IInv

(***************************************************************************)
(* The waiting list gets shorter                                           *)
(***************************************************************************)
LEMMA ArrivedThinned ==
  ASSUME Typed, Arrived, UNCHANGED <<seq, inbox>>, waiting' \in Seq(Requests),
         Thinned(waiting', waiting),
         \A r \in Requests : outcome'[r] = "none" => outcome[r] = "none",
         \A r \in Requests : kept'[r] = <<>> => kept[r] = <<>>
  PROVE  Arrived'
<1>1. ASSUME NEW i \in DOMAIN waiting', NEW j \in DOMAIN waiting', i < j,
             kept'[waiting'[i]] = <<>>
      PROVE  seq[waiting'[i]] < seq[waiting'[j]]
  <2>1. waiting'[i] \in Requests
    BY ElementOfSeq
  <2>2. PICK k \in DOMAIN waiting, l \in DOMAIN waiting :
          k < l /\ waiting'[i] = waiting[k] /\ waiting'[j] = waiting[l]
    BY <1>1 DEF Thinned
  <2>3. kept[waiting[k]] = <<>>
    BY <1>1, <2>1, <2>2
  <2>4. seq[waiting[k]] < seq[waiting[l]]
    BY <2>2, <2>3 DEF Arrived
  <2> QED BY <2>2, <2>4
<1> QED BY <1>1 DEF Arrived, Drained

(* Whoever leaves the places is completed. *)
LEMMA CompletedAccounted ==
  ASSUME Typed, Accounted, NEW S, NEW how \in Ended, outcome' = Completed(S, how),
         Known' = Known \ S, Elements(rows') \subseteq Elements(rows), dropped' = dropped
  PROVE  Accounted'
<1>1. \A r \in Requests :
        outcome'[r] = IF r \in S /\ outcome[r] = "pending" THEN how ELSE outcome[r]
  BY CompletedFacts
<1>2. Known \subseteq Requests /\ Elements(rows) \subseteq Requests
  BY KnownType, TypedFacts, ElementsType
<1>3. how # "pending" /\ how # "none"
  BY DEF Ended
<1>4. \A r \in Known' : outcome'[r] = "pending"
  BY <1>1, <1>2 DEF Accounted
<1>5. \A r \in Requests : outcome'[r] = "pending" => r \in Known' \cup dropped'
  BY <1>1, <1>3 DEF Accounted
<1>6. \A r \in Elements(rows') : outcome'[r] # "none"
  BY <1>1, <1>2, <1>3 DEF Accounted
<1> QED BY <1>4, <1>5, <1>6 DEF Accounted

(* ... without an answer; the answers of the others are what they were. *)
LEMMA CompletedTold ==
  ASSUME Typed, \A r \in Requests : Told(r), UNCHANGED <<heard, kept, result>>,
         NEW S, NEW how \in Ended, how # "done", outcome' = Completed(S, how),
         solo' = solo \/ (solo' = None /\ solo.req \in S /\ outcome[solo.req] = "pending")
  PROVE  /\ \A r \in Requests : Told(r)'
         /\ \A r \in Requests : outcome'[r] = "none" => outcome[r] = "none"
<1>1. \A r \in Requests :
        outcome'[r] = IF r \in S /\ outcome[r] = "pending" THEN how ELSE outcome[r]
  BY CompletedFacts
<1>2. \A r \in Requests :
        /\ outcome'[r] \in Ended => outcome'[r] = outcome[r] \/ outcome'[r] # "done"
        /\ outcome'[r] \notin Ended => outcome[r] \notin Ended /\ outcome'[r] = outcome[r]
        /\ outcome'[r] = "none" => outcome[r] = "none"
  BY <1>1 DEF Ended
<1>3. ASSUME NEW r \in Requests, outcome'[r] \notin Ended PROVE Said(r)' = Said(r)
  <2>1. ~(r \in S /\ outcome[r] = "pending")
    BY <1>1, <1>3
  <2>2. CASE solo' = solo
    BY <2>2 DEF Said
  <2>3. CASE solo' = None /\ solo.req \in S /\ outcome[solo.req] = "pending"
    BY <2>1, <2>3 DEF Said
  <2> QED BY <2>2, <2>3
<1> QED BY <1>2, <1>3, ToldUnder

LEMMA LookKeeps == ASSUME IInv, Look PROVE IInv'
<1> DEFINE S == cancelled \cap ToSet(waiting)
           d == Decision(waiting', pc = "look")
<1>1. /\ pc \in {"look", "relook"} /\ outcome' = Completed(S, "cancelled")
      /\ waiting' = Among(waiting, Requests \ cancelled) /\ pc' = d
      /\ UNCHANGED <<cancelled, heard, kept, result, putting, inbox, active, queued, seq, rows>>
      /\ UNCHANGED <<gen, genKey, sampler, lane, budget, moved, fresh, staying, solo, dropped>>
  BY DEF Look, intake, answers, batch, step, round, others
<1>2. /\ Typed /\ waiting \in Seq(Requests) /\ cancelled \subseteq Requests
  BY TypedFacts, SpecConstants DEF IInv
<1>3. Apart /\ Accounted /\ Arrived /\ Aligned /\ Control /\ "cancelled" \in Ended
  BY DEF IInv, Ended
<1>4. S = cancelled \cap Elements(waiting)
  BY DEF ToSet, Elements
<1>5. d \in {"step", "close", "drain", "company", "alone"}
  BY DEF Decision
<1>6. d = "close" => waiting' = <<>> /\ Idle
  BY DEF Decision
<1>7. d = "alone" => waiting' # <<>>
  BY DEF Decision
<1> HIDE DEF S, d
<1>8. /\ waiting' \in Seq(Requests) /\ Thinned(waiting', waiting) /\ Distinct(waiting')
      /\ Elements(waiting') = Elements(waiting) \ cancelled
  <2>1. Elements(waiting) \subseteq Requests /\ Distinct(waiting)
    BY <1>2, <1>3, ElementsType DEF Apart
  <2> QED BY <1>1, <1>2, <2>1, AmongFacts
<1>9. Typed'
  <2>1. outcome' \in [Requests -> {"none", "pending"} \cup Ended]
    BY <1>1, <1>2, <1>3, CompletedFacts
  <2> QED BY <1>1, <1>2, <1>8, <2>1 DEF Typed, TypeOK
<1>10. Control'
  <2>1. Idle => rows = <<>> /\ lane = None
    <3>1. rows \in Seq(Requests) /\ Len(gen) = Len(rows)
      BY <1>2, <1>3, TypedFacts DEF Aligned
    <3>2. gen = <<>> => Len(rows) = 0
      BY <3>1
    <3> QED BY <3>1, <3>2, EmptySeq DEF Idle
  <2> QED BY <1>1, <1>3, <1>5, <1>6, <1>7, <2>1 DEF Control, Resting, Turn
<1>11. Apart'
  BY <1>1, <1>3, <1>8 DEF Apart, InLane, OnEngine
<1>12. Accounted'
  <2>1. Here' = Here /\ InLane' = InLane /\ OnEngine' = OnEngine
    BY <1>1, <1>5 DEF Here, Answering, Turn, InLane, OnEngine
  <2>2. Here \cap S = {}
    BY <1>2, <1>3, <1>4, KnownType DEF Apart
  <2>3. Known' = Known \ S
    BY <1>1, <1>3, <1>4, <1>8, <2>1, <2>2 DEF Apart, Known
  <2> QED BY <1>1, <1>2, <1>3, <2>3, CompletedAccounted
<1>13. Aligned' /\ Sampling' /\ SoloSound'
  <2>1. SoloSound'
    BY <1>1 DEF IInv, SoloSound
  <2> QED BY <1>1, <2>1, AlignedFrame, SamplingFrame DEF IInv
<1>14. /\ \A r \in Requests : Told(r)'
       /\ \A r \in Requests : outcome'[r] = "none" => outcome[r] = "none"
  BY <1>1, <1>2, <1>3, CompletedTold DEF IInv
<1>15. Arrived'
  BY <1>1, <1>2, <1>3, <1>8, <1>14, ArrivedThinned
<1> QED BY <1>9, <1>10, <1>11, <1>12, <1>13, <1>14, <1>15 DEF IInv

(* The head of the waiting list leaves it. *)
LEMMA HeadLeaves ==
  ASSUME Typed, Apart, waiting # <<>>
  PROVE  /\ Head(waiting) \in Requests /\ Head(waiting) \in Elements(waiting)
         /\ Tail(waiting) \in Seq(Requests) /\ Distinct(Tail(waiting))
         /\ Elements(Tail(waiting)) = Elements(waiting) \ {Head(waiting)}
         /\ Thinned(Tail(waiting), waiting)
         /\ Head(waiting) \notin Elements(inbox) /\ Head(waiting) \notin Elements(rows)
         /\ Head(waiting) \notin InLane /\ Head(waiting) \notin OnEngine
<1>1. waiting \in Seq(Requests) /\ Distinct(waiting)
  BY TypedFacts DEF Apart
<1>2. Head(waiting) \in Requests /\ Tail(waiting) \in Seq(Requests)
  BY <1>1, ListParts
<1>3. Elements(waiting) = Elements(Tail(waiting)) \cup {Head(waiting)}
  BY <1>1, TailFacts
<1>4. Distinct(Tail(waiting)) /\ Elements(Tail(waiting)) = Elements(waiting) \ {Head(waiting)}
  BY <1>1, TailFacts
<1>5. Thinned(Tail(waiting), waiting)
  BY <1>1, TailThins
<1>6. Head(waiting) \in Elements(waiting)
  BY <1>3
<1> QED BY <1>2, <1>4, <1>5, <1>6 DEF Apart

LEMMA HeadDeadKeeps == ASSUME IInv, HeadDead PROVE IInv'
<1> DEFINE r == Head(waiting)
<1>1. /\ pc = "head" /\ waiting # <<>> /\ outcome' = Completed({r}, "cancelled")
      /\ waiting' = Tail(waiting)
      /\ UNCHANGED <<cancelled, heard, kept, result, putting, inbox, active, queued, pc, seq>>
      /\ UNCHANGED <<rows, gen, genKey, sampler, lane, budget, moved, fresh, staying, solo, dropped>>
  BY DEF HeadDead, intake, answers, batch, step, round, others
<1>2. Typed /\ Apart /\ Accounted /\ Arrived /\ Control /\ "cancelled" \in Ended
  BY DEF IInv, Ended
<1>3. /\ r \in Requests /\ r \in Elements(waiting)
      /\ waiting' \in Seq(Requests) /\ Distinct(waiting')
      /\ Elements(waiting') = Elements(waiting) \ {r} /\ Thinned(waiting', waiting)
      /\ r \notin Elements(inbox) /\ r \notin Elements(rows)
      /\ r \notin InLane /\ r \notin OnEngine
  BY <1>1, <1>2, HeadLeaves
<1> HIDE DEF r
<1>4. Typed'
  <2>1. outcome' \in [Requests -> {"none", "pending"} \cup Ended]
    BY <1>1, <1>2, CompletedFacts
  <2> QED BY <1>1, <1>2, <1>3, <2>1 DEF Typed, TypeOK
<1>5. Control'
  BY <1>1, <1>2 DEF Control, Resting, Turn
<1>6. Apart'
  BY <1>1, <1>2, <1>3 DEF Apart, InLane, OnEngine
<1>7. Accounted'
  <2>1. Here' = Here /\ InLane' = InLane /\ OnEngine' = OnEngine
    BY <1>1 DEF Here, Answering, Turn, InLane, OnEngine
  <2>2. r \notin Here
    BY <1>2, <1>3, KnownType
  <2>3. Known' = Known \ {r}
    BY <1>1, <1>3, <2>1, <2>2 DEF Known
  <2> QED BY <1>1, <1>2, <2>3, CompletedAccounted
<1>8. Aligned' /\ Sampling' /\ SoloSound'
  <2>1. SoloSound'
    BY <1>1 DEF IInv, SoloSound
  <2> QED BY <1>1, <2>1, AlignedFrame, SamplingFrame DEF IInv
<1>9. /\ \A q \in Requests : Told(q)'
      /\ \A q \in Requests : outcome'[q] = "none" => outcome[q] = "none"
  BY <1>1, <1>2, CompletedTold DEF IInv
<1>10. Arrived'
  BY <1>1, <1>2, <1>3, <1>9, ArrivedThinned
<1> QED BY <1>4, <1>5, <1>6, <1>7, <1>8, <1>9, <1>10 DEF IInv

LEMMA LaneNextKeeps == ASSUME IInv, LaneNext PROVE IInv'
<1>1. CASE lane # None /\ lane.req \in cancelled
  <2>1. /\ pc = "lane" /\ outcome' = Completed({lane.req}, "cancelled")
        /\ lane' = None /\ pc' = "fetch"
        /\ UNCHANGED <<cancelled, heard, kept, result, putting, inbox, active, queued, waiting>>
        /\ UNCHANGED <<seq, rows, gen, genKey, sampler, budget, moved, fresh, staying, solo, dropped>>
    BY <1>1 DEF LaneNext, intake, answers, batch, step, round, others
  <2>2. /\ Typed /\ Apart /\ Accounted /\ Arrived /\ Control /\ Aligned /\ Sampling
        /\ "cancelled" \in Ended
    BY DEF IInv, Ended
  <2>3. lane.req \in Requests /\ InLane = {lane.req} /\ InLane' = {} /\ OnEngine' = OnEngine
    BY <1>1, <2>1, <2>2, TypedFacts DEF InLane, OnEngine
  <2>4. Typed'
    <3>1. outcome' \in [Requests -> {"none", "pending"} \cup Ended]
      BY <2>1, <2>2, CompletedFacts
    <3> QED BY <2>1, <2>2, <3>1 DEF Typed, TypeOK
  <2>5. Control'
    BY <2>1, <2>2 DEF Control, Resting, Turn
  <2>6. Apart'
    BY <2>1, <2>2, <2>3 DEF Apart
  <2>7. Accounted'
    <3>1. Here' = Here
      BY <2>1 DEF Here, Answering, Turn
    <3>2. lane.req \notin Here
      BY <2>2, <2>3, KnownType DEF Apart
    <3>3. Known' = Known \ {lane.req}
      BY <2>1, <2>2, <2>3, <3>1, <3>2 DEF Apart, Known
    <3> QED BY <2>1, <2>2, <3>3, CompletedAccounted
  <2>8. Aligned'
    <3>1. Turn' = Turn
      BY <2>1 DEF Turn
    <3> QED BY <2>1, <2>2, <3>1 DEF Aligned, RowSound, Due
  <2>9. Sampling' /\ SoloSound'
    <3>1. SoloSound'
      BY <2>1 DEF IInv, SoloSound
    <3>2. Len(rows) \in Nat
      BY <2>2, TypedFacts, LenProperties
    <3>3. Len(rows) + 0 <= MaxBatch
      BY <1>1, <2>2, <3>2, SpecConstants DEF Sampling
    <3> QED BY <2>1, <2>2, <3>1, <3>3 DEF Sampling
  <2>10. /\ \A q \in Requests : Told(q)'
         /\ \A q \in Requests : outcome'[q] = "none" => outcome[q] = "none"
    BY <2>1, <2>2, CompletedTold DEF IInv
  <2>11. Arrived'
    BY <2>1, <2>2, <2>10 DEF Arrived, Drained
  <2> QED BY <2>4, <2>5, <2>6, <2>7, <2>8, <2>9, <2>10, <2>11 DEF IInv
<1>2. CASE ~(lane # None /\ lane.req \in cancelled)
  <2>1. /\ Quiet /\ UNCHANGED <<cancelled, putting, active, queued, moved, budget>>
        /\ pc = "lane" /\ pc' = IF lane = None THEN "fetch" ELSE "advance"
    BY <1>2 DEF LaneNext, Quiet, intake, answers, step, batch, round, others
  <2>2. Typed'
    BY <2>1 DEF IInv, Typed, TypeOK, Quiet, answers, batch, round, others
  <2>3. Control'
    BY <2>1 DEF IInv, Control, Resting, Turn, Quiet, batch, round, others
  <2> QED BY <2>1, <2>2, <2>3, QuietKeeps
<1> QED BY <1>1, <1>2

LEMMA FollowingNone ==
  ASSUME NEW r \in Requests, NEW at \in Nat PROVE Following(r, at, 0) = <<>>
<1>1. Following(r, at, 0) \in Seq(Tokens) /\ Len(Following(r, at, 0)) = 0
  BY FollowingFacts
<1> QED BY <1>1, EmptySeq

LEMMA AloneKeeps == ASSUME IInv, Alone PROVE IInv'
<1> DEFINE r == Head(waiting)
<1>1. /\ pc = "alone" /\ solo' = [req |-> r, got |-> <<>>] /\ waiting' = Tail(waiting)
      /\ pc' = "solo"
      /\ UNCHANGED <<outcome, cancelled, heard, kept, result, putting, inbox, active, queued, seq>>
      /\ UNCHANGED <<rows, gen, genKey, sampler, lane, budget, moved, fresh, staying, dropped>>
  BY DEF Alone, intake, requests, answers, batch, step, round
<1>2. /\ Typed /\ Apart /\ Accounted /\ Arrived /\ Control /\ \A q \in Requests : Told(q)
      /\ waiting # <<>> /\ solo = None
  BY <1>1 DEF IInv, Control
<1>3. /\ r \in Requests /\ r \in Elements(waiting)
      /\ waiting' \in Seq(Requests) /\ Distinct(waiting')
      /\ Elements(waiting') = Elements(waiting) \ {r} /\ Thinned(waiting', waiting)
      /\ r \notin Elements(inbox) /\ r \notin Elements(rows) /\ r \notin InLane
  BY <1>1, <1>2, HeadLeaves
<1> HIDE DEF r
<1>4. /\ solo' \in Solos /\ solo' # None /\ solo'.req = r /\ solo'.got = <<>>
      /\ Len(solo'.got) = 0
  <2>1. <<>> \in Seq(Tokens) /\ Len(<<>>) = 0
    BY EmptyList
  <2>2. [req |-> r, got |-> <<>>] \in Solos
    BY <1>3, <2>1 DEF Solos
  <2> QED BY <1>1, <2>1, <2>2, SpecConstants
<1>5. /\ kept \in [Requests -> Seq(Tokens)] /\ Len(kept[r]) \in Nat
      /\ MaxTokens[r] \in Nat
  BY <1>2, <1>3, TypedFacts, LenProperties, SpecConstants
<1>6. Typed'
  BY <1>1, <1>2, <1>3, <1>4 DEF Typed, TypeOK
<1>7. Control'
  BY <1>1, <1>2, <1>4 DEF Control, Resting, Turn
<1>8. Apart'
  <2>1. InLane' = InLane /\ OnEngine' = {r}
    BY <1>1, <1>4 DEF InLane, OnEngine
  <2> QED BY <1>1, <1>2, <1>3, <2>1 DEF Apart
<1>9. Accounted'
  <2>1. Here' = Here /\ InLane' = InLane /\ OnEngine' = {r} /\ OnEngine = {}
    BY <1>1, <1>2, <1>4 DEF Here, Answering, Turn, InLane, OnEngine
  <2>2. Known' = Known
    BY <1>1, <1>3, <2>1 DEF Known
  <2> QED BY <1>1, <1>2, <2>2 DEF Accounted
<1>10. Aligned' /\ Sampling'
  BY <1>1, AlignedFrame, SamplingFrame DEF IInv
<1>11. SoloSound'
  <2>1. Following(r, Len(kept[r]), 0) = <<>>
    BY <1>3, <1>5, FollowingNone
  <2>2. Len(kept[r]) + 0 <= MaxTokens[r]
    BY <1>2, <1>3, <1>5 DEF Told
  <2> QED BY <1>1, <1>4, <2>1, <2>2 DEF SoloSound
<1>12. \A q \in Requests : Told(q)'
  <2>1. ASSUME NEW q \in Requests PROVE Said(q)' = Said(q)
    <3>1. Said(q) = Len(kept[q]) + 0
      BY <1>2 DEF Said
    <3>2. Said(q)' = Len(kept[q]) + 0
      BY <1>1, <1>4 DEF Said
    <3> QED BY <3>1, <3>2
  <2> QED BY <1>1, <1>2, <2>1, ToldUnder
<1>13. Arrived'
  BY <1>1, <1>2, <1>3, ArrivedThinned
<1> QED BY <1>6, <1>7, <1>8, <1>9, <1>10, <1>11, <1>12, <1>13 DEF IInv

LEMMA AdmitKeeps == ASSUME IInv, NEW k \in DOMAIN waiting, Admit(k) PROVE IInv'
<1> DEFINE r == waiting[k]
<1>1. /\ pc = "head" /\ k = 1 /\ Len(rows) < MaxBatch
      /\ Key[r] # None /\ BatchKey \in {None, Key[r]}
      /\ waiting' = Selection(waiting, DOMAIN waiting \ {k})
      /\ sampler' = IF BatchKey = None THEN Key[r] ELSE sampler
      /\ lane' = [req |-> r, at |-> Len(kept[r]), left |-> PromptLen[r] + Len(kept[r])]
      /\ pc' = "advance"
      /\ UNCHANGED <<outcome, cancelled, heard, kept, result, putting, inbox, active, queued, seq>>
      /\ UNCHANGED <<rows, gen, genKey, budget, moved, fresh, staying, solo, dropped>>
  BY DEF Admit, MayAdmit, intake, requests, answers, batch, step, round, others
<1>2. /\ Typed /\ Apart /\ Accounted /\ Arrived /\ Control /\ Aligned /\ Sampling
      /\ lane = None /\ waiting \in Seq(Requests) /\ Distinct(waiting)
  BY <1>1, TypedFacts DEF IInv, Control, Apart
<1>3. /\ r \in Requests /\ r \in Elements(waiting)
      /\ waiting' \in Seq(Requests) /\ Distinct(waiting')
      /\ Elements(waiting') = Elements(waiting) \ {r} /\ Thinned(waiting', waiting)
  <2>1. r \in Requests /\ r \in Elements(waiting)
    BY <1>2, ElementOfSeq DEF Elements
  <2>2. DOMAIN waiting \ {k} \in SUBSET DOMAIN waiting
    OBVIOUS
  <2> QED BY <1>1, <1>2, <2>1, <2>2, OthersFacts, SelectionThins
<1>4. /\ r \notin Elements(inbox) /\ r \notin Elements(rows) /\ r \notin OnEngine
  BY <1>2, <1>3 DEF Apart
<1> HIDE DEF r
<1>5. lane' \in Lanes /\ lane' # None /\ lane'.req = r /\ lane'.at = Len(kept[r])
  <2>1. Len(kept[r]) \in Nat /\ PromptLen[r] \in Nat
    BY <1>2, <1>3, TypedFacts, LenProperties, SpecConstants
  <2>2. PromptLen[r] + Len(kept[r]) \in Nat
    BY <2>1
  <2> QED BY <1>1, <1>3, <2>1, <2>2, SpecConstants DEF Lanes
<1>6. Typed'
  BY <1>1, <1>2, <1>3, <1>5 DEF Typed, TypeOK
<1>7. Control'
  BY <1>1, <1>2, <1>5 DEF Control, Resting, Turn
<1>8. InLane' = {r} /\ InLane = {} /\ OnEngine' = OnEngine
  BY <1>1, <1>2, <1>5 DEF InLane, OnEngine
<1>9. Apart'
  <2>1. UNCHANGED <<inbox, rows>>
    BY <1>1
  <2> QED BY <1>2, <1>3, <1>4, <1>8, <2>1 DEF Apart
<1>10. Accounted'
  <2>1. Here' = Here
    BY <1>1 DEF Here, Answering, Turn
  <2>2. Known' = Known
    BY <1>1, <1>3, <1>8, <2>1 DEF Known
  <2> QED BY <1>1, <1>2, <2>2 DEF Accounted
<1>11. Aligned'
  <2>1. Turn' = Turn
    BY <1>1 DEF Turn
  <2> QED BY <1>1, <1>2, <1>5, <2>1 DEF Aligned, RowSound, Due
<1>12. Sampling'
  <2>1. rows \in Seq(Requests) /\ Len(rows) \in Nat /\ MaxBatch \in Nat
    BY <1>2, TypedFacts, LenProperties, SpecConstants
  <2>2. Len(rows) + 1 <= MaxBatch
    BY <1>1, <2>1
  <2>3. CASE rows = <<>>
    <3>1. sampler' = Key[r]
      BY <1>1, <2>3 DEF BatchKey
    <3> QED BY <1>1, <1>2, <1>5, <2>2, <2>3, <3>1 DEF Sampling
  <2>4. CASE rows # <<>>
    <3>1. 1 \in DOMAIN rows
      BY <2>1, <2>4, ListParts
    <3>2. BatchKey = genKey /\ genKey # None /\ sampler = genKey
      BY <1>2, <2>4, <3>1 DEF BatchKey, Sampling
    <3>3. sampler' = sampler /\ Key[r] = sampler
      BY <1>1, <3>2
    <3> QED BY <1>1, <1>2, <1>5, <2>2, <2>4, <3>2, <3>3 DEF Sampling
  <2> QED BY <2>3, <2>4
<1>13. SoloSound' /\ \A q \in Requests : Told(q)'
  BY <1>1, ToldFrame DEF IInv, SoloSound
<1>14. Arrived'
  BY <1>1, <1>2, <1>3, ArrivedThinned
<1> QED BY <1>6, <1>7, <1>9, <1>10, <1>11, <1>12, <1>13, <1>14 DEF IInv

(***************************************************************************)
(* Rows leave the batch                                                    *)
(***************************************************************************)
LEMMA RowType ==
  ASSUME Typed, NEW b \in DOMAIN rows
  PROVE  /\ rows[b] \in Requests /\ Len(kept[rows[b]]) \in Nat /\ kept[rows[b]] \in Seq(Tokens)
         /\ MaxTokens[rows[b]] \in Nat \ {0} /\ b \in Nat \ {0} /\ Len(rows) \in Nat
         /\ DOMAIN rows = 1..Len(rows) /\ rows[b] \in Elements(rows)
<1>1. rows \in Seq(Requests) /\ kept \in [Requests -> Seq(Tokens)]
  BY TypedFacts
<1>2. rows[b] \in Requests /\ Len(rows) \in Nat /\ DOMAIN rows = 1..Len(rows)
  BY <1>1, ElementOfSeq, LenProperties
<1>3. kept[rows[b]] \in Seq(Tokens)
  BY <1>1, <1>2
<1> QED BY <1>2, <1>3, LenProperties, SpecConstants DEF Elements

(* Between rounds a row owes nothing, and has said something. *)
LEMMA RowSettled ==
  ASSUME Typed, fresh = <<>>, Aligned, NEW b \in DOMAIN rows
  PROVE  /\ gen[b] = [of |-> rows[b], at |-> Len(kept[rows[b]])]
         /\ Len(kept[rows[b]]) >= 1 /\ Len(kept[rows[b]]) <= MaxTokens[rows[b]]
<1>1. Len(fresh) = 0
  BY EmptyList
<1>2. Due(b) = <<>> /\ Len(Due(b)) = 0
  <2>1. ~(b >= Turn)
    BY <1>1, RowType DEF Turn
  <2> QED BY <2>1, EmptyList DEF Due
<1>3. RowSound(b)
  BY DEF Aligned
<1>4. Len(kept[rows[b]]) + 0 = Len(kept[rows[b]])
  BY RowType
<1> QED BY <1>2, <1>3, <1>4 DEF RowSound

LEMMA SettledAligned ==
  ASSUME Typed', fresh' = <<>>, Len(gen') = Len(rows'),
         lane' # None => lane'.at = Len(kept'[lane'.req]),
         \A b \in DOMAIN rows' :
           /\ gen'[b] = [of |-> rows'[b], at |-> Len(kept'[rows'[b]])]
           /\ Len(kept'[rows'[b]]) >= 1 /\ Len(kept'[rows'[b]]) <= MaxTokens[rows'[b]]
  PROVE  Aligned'
<1>1. Len(fresh') = 0
  BY EmptyList
<1>2. ASSUME NEW b \in DOMAIN rows' PROVE RowSound(b)'
  <2>1. /\ rows'[b] \in Requests /\ Len(kept'[rows'[b]]) \in Nat /\ b \in Nat
        /\ Len(rows') \in Nat /\ DOMAIN rows' = 1..Len(rows')
    <3>1. rows' \in Seq(Requests) /\ kept' \in [Requests -> Seq(Tokens)]
      BY DEF Typed, TypeOK
    <3>2. rows'[b] \in Requests /\ Len(rows') \in Nat /\ DOMAIN rows' = 1..Len(rows')
      BY <3>1, ElementOfSeq, LenProperties
    <3>3. kept'[rows'[b]] \in Seq(Tokens)
      BY <3>1, <3>2
    <3> QED BY <3>2, <3>3, LenProperties
  <2>2. ~(b >= Turn')
    BY <1>1, <2>1 DEF Turn
  <2>3. Due(b)' = <<>> /\ Len(<<>>) = 0
    BY <2>2, EmptyList DEF Due
  <2>4. Following(rows'[b], Len(kept'[rows'[b]]), 0) = <<>>
    BY <2>1, FollowingNone
  <2>5. Len(kept'[rows'[b]]) + 0 = Len(kept'[rows'[b]])
    BY <2>1
  <2> QED BY <2>3, <2>4, <2>5 DEF RowSound
<1> QED BY <1>2 DEF Aligned

LEMMA RowsThinned ==
  ASSUME Typed, Typed', Aligned, Sampling, fresh = <<>>, fresh' = <<>>,
         NEW S \in SUBSET DOMAIN rows,
         rows' = Selection(rows, S), gen' = Selection(gen, S),
         UNCHANGED <<kept, lane, genKey, sampler>>
  PROVE  Aligned' /\ Sampling'
<1>1. /\ rows \in Seq(Requests) /\ gen \in Seq([of : Requests, at : Nat])
      /\ Len(gen) = Len(rows) /\ DOMAIN gen = DOMAIN rows
      /\ Len(rows) \in Nat /\ DOMAIN rows = 1..Len(rows)
  BY TypedFacts, LenProperties DEF Aligned
<1>2. /\ Len(rows') = Cardinality(S) /\ DOMAIN rows' = 1..Cardinality(S)
      /\ Cardinality(S) \in Nat
      /\ \A j \in 1..Cardinality(S) : Nth(S, j) \in S /\ rows'[j] = rows[Nth(S, j)]
  BY <1>1, SelectionFacts
<1>3. /\ Len(gen') = Cardinality(S)
      /\ \A j \in 1..Cardinality(S) : gen'[j] = gen[Nth(S, j)]
  BY <1>1, SelectionFacts
<1>4. Cardinality(S) <= Len(rows) /\ (rows' # <<>> => rows # <<>>)
  <2>1. IsFiniteSet(DOMAIN rows) /\ Cardinality(DOMAIN rows) = Len(rows)
    BY <1>1, PlacesCounted
  <2>3. Cardinality(S) <= Len(rows)
    BY <2>1, FS_Subset
  <2>4. rows = <<>> => Len(rows') = 0
    BY <1>2, <2>3, EmptyList
  <2>5. rows' \in Seq(Requests)
    BY <1>1, SelectionFacts
  <2> QED BY <2>3, <2>4, <2>5, EmptySeq
<1>5. Aligned'
  <2>1. ASSUME NEW b \in DOMAIN rows'
        PROVE  /\ gen'[b] = [of |-> rows'[b], at |-> Len(kept'[rows'[b]])]
               /\ Len(kept'[rows'[b]]) >= 1 /\ Len(kept'[rows'[b]]) <= MaxTokens[rows'[b]]
    <3>1. PICK c \in DOMAIN rows : rows'[b] = rows[c] /\ gen'[b] = gen[c]
      BY <1>2, <1>3
    <3> QED BY <3>1, RowSettled
  <2>2. lane' # None => lane'.at = Len(kept'[lane'.req])
    BY DEF Aligned
  <2> QED BY <1>2, <1>3, <2>1, <2>2, SettledAligned
<1>6. Sampling'
  <2>1. \A b \in DOMAIN rows' : Key[rows'[b]] = genKey'
    BY <1>2 DEF Sampling
  <2>2. Len(rows') + (IF lane = None THEN 0 ELSE 1) <= MaxBatch
    BY <1>1, <1>2, <1>4, SpecConstants DEF Sampling
  <2> QED BY <1>4, <2>1, <2>2 DEF Sampling
<1> QED BY <1>5, <1>6

LEMMA PreemptKeeps == ASSUME IInv, NEW b \in DOMAIN rows, Preempt(b) PROVE IInv'
<1> DEFINE r == rows[b]
           S == DOMAIN rows \ {b}
<1>1. /\ pc = "room" /\ rows' = Selection(rows, S)
      /\ gen' = Selection(gen, DOMAIN gen \ {b})
      /\ waiting' = <<r>> \o waiting
      /\ UNCHANGED <<outcome, cancelled, heard, kept, result, putting, inbox, active, queued, pc>>
      /\ UNCHANGED <<seq, genKey, sampler, lane, budget, moved, fresh, staying, solo, dropped>>
  BY DEF Preempt, Resumed, intake, requests, answers, step, round, others
<1>2. /\ Typed /\ Apart /\ Accounted /\ Arrived /\ Control /\ Aligned /\ Sampling
      /\ fresh = <<>> /\ staying = {} /\ waiting \in Seq(Requests) /\ rows \in Seq(Requests)
      /\ gen \in Seq([of : Requests, at : Nat])
  BY <1>1, TypedFacts DEF IInv, Control
<1>3. r \in Requests /\ r \in Elements(rows)
  BY <1>2, RowType
<1>4. S \in SUBSET DOMAIN rows /\ DOMAIN gen = DOMAIN rows
  BY <1>2, LenProperties DEF Aligned
<1>5. /\ rows' \in Seq(Requests) /\ Distinct(rows')
      /\ Elements(rows') = Elements(rows) \ {r} /\ gen' \in Seq([of : Requests, at : Nat])
  <2>1. Distinct(rows)
    BY <1>2 DEF Apart
  <2>2. /\ rows' \in Seq(Requests) /\ Distinct(rows') /\ Elements(rows') = Elements(rows) \ {r}
    BY <1>1, <1>2, <2>1, OthersFacts
  <2>3. gen' = Selection(gen, S) /\ S \in SUBSET DOMAIN gen
    BY <1>1, <1>4
  <2> HIDE DEF S
  <2>4. gen' \in Seq([of : Requests, at : Nat])
    BY <1>2, <2>3, SelectionFacts
  <2> QED BY <2>2, <2>4
<1>6. r \notin Elements(inbox) /\ r \notin Elements(waiting) /\ r \notin InLane /\ r \notin OnEngine
  BY <1>2, <1>3 DEF Apart
<1>7. /\ waiting' \in Seq(Requests) /\ Elements(waiting') = Elements(waiting) \cup {r}
      /\ Distinct(waiting') /\ waiting'[1] = r /\ Len(waiting) \in Nat
      /\ DOMAIN waiting' = 1..(Len(waiting) + 1) /\ DOMAIN waiting = 1..Len(waiting)
      /\ \A i \in 2..(Len(waiting) + 1) : waiting'[i] = waiting[i - 1]
  <2>1. Distinct(waiting)
    BY <1>2 DEF Apart
  <2> HIDE DEF r
  <2> QED BY <1>1, <1>2, <1>3, <1>6, <2>1, FrontFacts
<1>8. Len(kept[r]) >= 1
  BY <1>2, RowSettled
<1>9. gen' = Selection(gen, S)
  BY <1>1, <1>4
<1> HIDE DEF r, S
<1>10. Typed'
  <2>1. staying' \subseteq DOMAIN rows'
    BY <1>1, <1>2
  <2> QED BY <1>1, <1>2, <1>5, <1>7, <2>1 DEF Typed, TypeOK
<1>11. Control'
  <2>1. Len(fresh') <= Len(rows')
    <3>1. Len(fresh') = 0 /\ Len(rows') \in Nat
      BY <1>1, <1>2, <1>5, EmptyList, LenProperties
    <3> QED BY <3>1
  <2>2. staying' = {} /\ fresh' = <<>>
    BY <1>1, <1>2
  <2> QED BY <1>1, <1>2, <2>1, <2>2 DEF Control, Resting
<1>12. InLane' = InLane /\ OnEngine' = OnEngine
  BY <1>1 DEF InLane, OnEngine
<1>13. Apart'
  <2>1. inbox' = inbox
    BY <1>1
  <2> QED BY <1>2, <1>3, <1>5, <1>6, <1>7, <1>12, <2>1 DEF Apart
<1>14. Accounted'
  <2>1. Here = Elements(rows) /\ Here' = Elements(rows')
    BY <1>1 DEF Here, Answering, Elements
  <2>2. Known' = Known
    BY <1>1, <1>3, <1>5, <1>7, <1>12, <2>1 DEF Known
  <2> QED BY <1>1, <1>2, <1>5, <2>2 DEF Accounted
<1>15. Aligned' /\ Sampling'
  <2>1. fresh' = <<>>
    BY <1>1, <1>2
  <2> QED BY <1>1, <1>2, <1>4, <1>9, <1>10, <2>1, RowsThinned
<1>16. SoloSound' /\ \A q \in Requests : Told(q)'
  BY <1>1, ToldFrame DEF IInv, SoloSound
<1>17. Arrived'
  <2>1. ASSUME NEW i \in DOMAIN waiting', NEW j \in DOMAIN waiting', i < j,
               kept[waiting'[i]] = <<>>
        PROVE  seq[waiting'[i]] < seq[waiting'[j]]
    <3>1. i # 1
      <4>1. Len(<<>>) = 0
        BY EmptyList
      <4>2. kept[r] # <<>>
        BY <1>8, <4>1
      <4> QED BY <1>7, <2>1, <4>2
    <3>2. /\ i \in 2..(Len(waiting) + 1) /\ j \in 2..(Len(waiting) + 1)
          /\ i - 1 \in DOMAIN waiting /\ j - 1 \in DOMAIN waiting /\ i - 1 < j - 1
      BY <1>7, <2>1, <3>1
    <3>3. waiting'[i] = waiting[i - 1] /\ waiting'[j] = waiting[j - 1]
      BY <1>7, <3>2
    <3> QED BY <1>2, <2>1, <3>2, <3>3 DEF Arrived
  <2> QED BY <1>1, <1>2, <2>1 DEF Arrived, Drained
<1> QED BY <1>10, <1>11, <1>13, <1>14, <1>15, <1>16, <1>17 DEF IInv

LEMMA SettleKeeps == ASSUME IInv, Settle PROVE IInv'
<1>1. /\ pc = "deliver" /\ fresh = <<>> /\ rows' = Selection(rows, staying)
      /\ gen' = Selection(gen, staying) /\ staying' = {} /\ pc' = "lane"
      /\ UNCHANGED <<outcome, cancelled, heard, kept, result, putting, inbox, active, queued>>
      /\ UNCHANGED <<waiting, seq, genKey, sampler, lane, budget, moved, fresh, solo, dropped>>
  BY DEF Settle, Remaining, intake, requests, answers, step, others
<1>2. /\ Typed /\ Apart /\ Accounted /\ Arrived /\ Control /\ Aligned /\ Sampling
      /\ rows \in Seq(Requests) /\ gen \in Seq([of : Requests, at : Nat])
      /\ staying \in SUBSET DOMAIN rows /\ staying \in SUBSET DOMAIN gen
  BY TypedFacts, LenProperties DEF IInv, Aligned
<1>3. /\ rows' \in Seq(Requests) /\ Distinct(rows')
      /\ Elements(rows') = {rows[b] : b \in staying}
      /\ gen' \in Seq([of : Requests, at : Nat])
  <2>1. Distinct(rows)
    BY <1>2 DEF Apart
  <2>2. rows' \in Seq(Requests) /\ Distinct(rows')
    BY <1>1, <1>2, <2>1, SelectionFacts
  <2>3. Elements(rows') = {rows[b] : b \in staying}
    BY <1>1, <1>2, SelectionElements
  <2>4. gen' \in Seq([of : Requests, at : Nat])
    BY <1>1, <1>2, SelectionFacts
  <2> QED BY <2>2, <2>3, <2>4
<1>4. Elements(rows') \subseteq Elements(rows)
  BY <1>2, <1>3 DEF Elements
<1>5. Typed'
  <2>1. staying' \subseteq DOMAIN rows'
    BY <1>1
  <2> QED BY <1>1, <1>2, <1>3, <2>1 DEF Typed, TypeOK
<1>6. Control'
  <2>1. Len(fresh') <= Len(rows')
    <3>1. Len(fresh') = 0 /\ Len(rows') \in Nat
      BY <1>1, <1>3, EmptyList, LenProperties
    <3> QED BY <3>1
  <2> QED BY <1>1, <1>2, <2>1 DEF Control, Resting
<1>7. InLane' = InLane /\ OnEngine' = OnEngine
  BY <1>1 DEF InLane, OnEngine
<1>8. Apart'
  <2>1. inbox' = inbox /\ waiting' = waiting
    BY <1>1
  <2> QED BY <1>2, <1>3, <1>4, <1>7, <2>1 DEF Apart
<1>9. Accounted'
  <2>1. Here' = Elements(rows')
    BY <1>1 DEF Here, Answering, Elements
  <2>2. Here = Elements(rows')
    <3>1. \A b \in DOMAIN rows : ~(b >= Turn)
      <4>1. Len(fresh) = 0 /\ Len(rows) \in Nat /\ DOMAIN rows = 1..Len(rows)
        BY <1>1, <1>2, EmptyList, LenProperties
      <4> QED BY <4>1 DEF Turn
    <3>2. Answering = staying
      BY <1>1, <1>2, <3>1 DEF Answering
    <3> QED BY <1>3, <3>2 DEF Here
  <2>3. Known' = Known
    BY <1>1, <1>7, <2>1, <2>2 DEF Known
  <2> QED BY <1>1, <1>2, <1>4, <2>3 DEF Accounted
<1>10. Aligned' /\ Sampling'
  BY <1>1, <1>2, <1>5, RowsThinned
<1>11. SoloSound' /\ \A q \in Requests : Told(q)'
  BY <1>1, ToldFrame DEF IInv, SoloSound
<1>12. Arrived'
  BY <1>1, ArrivedFrame DEF IInv
<1> QED BY <1>5, <1>6, <1>8, <1>9, <1>10, <1>11, <1>12 DEF IInv

(***************************************************************************)
(* The lane                                                                *)
(***************************************************************************)
LEMMA AdvanceKeeps == ASSUME IInv, Advance PROVE IInv'
<1> DEFINE n == Smaller(lane.left, Smaller(PrefillChunk, budget))
<1>1. /\ pc = "advance" /\ budget' = budget - n /\ lane' = [lane EXCEPT !.left = @ - n]
      /\ pc' \in {"join", "endstep"} /\ moved' = TRUE
      /\ UNCHANGED <<outcome, cancelled, heard, kept, result, putting, inbox, active, queued>>
      /\ UNCHANGED <<waiting, seq, rows, gen, genKey, sampler, fresh, staying, solo, dropped>>
  BY DEF Advance, intake, requests, answers, batch, round, others
<1>2. /\ Typed /\ Apart /\ Accounted /\ Arrived /\ Control /\ Aligned /\ Sampling
      /\ lane # None /\ lane \in Lanes /\ budget \in Int /\ lane.left \in Nat
  BY <1>1, TypedFacts DEF IInv, Control
<1>3. n \in Int /\ lane.left - n \in Nat
  <2>1. PrefillChunk \in Int
    BY SpecConstants
  <2> DEFINE m == Smaller(PrefillChunk, budget)
  <2>2. m \in Int
    BY <1>2, <2>1 DEF Smaller
  <2>3. n = Smaller(lane.left, m)
    OBVIOUS
  <2> HIDE DEF m, n
  <2>4. n = IF lane.left < m THEN lane.left ELSE m
    BY <2>3 DEF Smaller
  <2> QED BY <1>2, <2>2, <2>4
<1> HIDE DEF n
<1>4. /\ lane' \in Lanes /\ lane' # None /\ lane'.req = lane.req /\ lane'.at = lane.at
  BY <1>1, <1>2, <1>3, SpecConstants DEF Lanes
<1>5. Typed'
  <2>1. budget' \in Int
    BY <1>1, <1>2, <1>3
  <2> QED BY <1>1, <1>2, <1>4, <2>1 DEF Typed, TypeOK
<1>6. Control'
  BY <1>1, <1>2, <1>4 DEF Control, Resting, Turn
<1>7. InLane' = InLane /\ OnEngine' = OnEngine
  BY <1>1, <1>2, <1>4 DEF InLane, OnEngine
<1>8. Apart'
  <2>1. UNCHANGED <<inbox, waiting, rows>>
    BY <1>1
  <2> QED BY <1>2, <1>7, <2>1 DEF Apart
<1>9. Accounted'
  <2>1. Here' = Here
    BY <1>1 DEF Here, Answering, Turn
  <2>2. Known' = Known
    BY <1>1, <1>7, <2>1 DEF Known
  <2> QED BY <1>1, <1>2, <2>2 DEF Accounted
<1>10. Aligned'
  <2>1. Turn' = Turn
    BY <1>1 DEF Turn
  <2> QED BY <1>1, <1>2, <1>4, <2>1 DEF Aligned, RowSound, Due
<1>11. Sampling'
  BY <1>1, <1>2, <1>4 DEF Sampling
<1>12. SoloSound' /\ \A q \in Requests : Told(q)'
  BY <1>1, ToldFrame DEF IInv, SoloSound
<1>13. Arrived'
  BY <1>1, ArrivedFrame DEF IInv
<1> QED BY <1>5, <1>6, <1>8, <1>9, <1>10, <1>11, <1>12, <1>13 DEF IInv

(* Without the lane there is more room in the batch. *)
LEMMA LaneGone ==
  ASSUME Typed, Aligned, Sampling, lane' = None, UNCHANGED <<rows, gen, genKey, sampler, kept, fresh>>
  PROVE  Aligned' /\ Sampling'
<1>1. Turn' = Turn
  BY DEF Turn
<1>2. Len(rows) \in Nat /\ MaxBatch \in Nat
  BY TypedFacts, LenProperties, SpecConstants
<1>3. Len(rows) + 0 <= MaxBatch
  BY <1>2 DEF Sampling
<1> QED BY <1>1, <1>3 DEF Aligned, RowSound, Due, Sampling

LEMMA JoinRaisesKeeps == ASSUME IInv, JoinRaises PROVE IInv'
<1>1. /\ pc = "join" /\ lane' = None /\ dropped' = dropped \cup {lane.req} /\ pc' = "fail"
      /\ UNCHANGED <<outcome, cancelled, heard, kept, result, putting, inbox, active, queued>>
      /\ UNCHANGED <<waiting, seq, rows, gen, genKey, sampler, budget, moved, fresh, staying, solo>>
  BY DEF JoinRaises, intake, requests, answers, batch, step, round
<1>2. /\ Typed /\ Apart /\ Accounted /\ Arrived /\ Control /\ Aligned /\ Sampling
      /\ lane # None /\ lane.req \in Requests
  BY <1>1, TypedFacts DEF IInv, Control
<1>3. Typed'
  BY <1>1, <1>2 DEF Typed, TypeOK
<1>4. Control'
  BY <1>1, <1>2 DEF Control, Resting, Turn
<1>5. InLane' = {} /\ InLane = {lane.req} /\ OnEngine' = OnEngine
  BY <1>1, <1>2 DEF InLane, OnEngine
<1>6. Apart'
  <2>1. UNCHANGED <<inbox, waiting, rows>>
    BY <1>1
  <2> QED BY <1>2, <1>5, <2>1 DEF Apart
<1>7. Accounted'
  <2>1. Here' = Here
    BY <1>1 DEF Here, Answering, Turn
  <2>2. Known' \subseteq Known /\ Known \cup dropped = Known' \cup dropped'
    BY <1>1, <1>5, <2>1 DEF Known
  <2> QED BY <1>1, <1>2, <2>2 DEF Accounted
<1>8. Aligned' /\ Sampling'
  BY <1>1, <1>2, LaneGone
<1>9. SoloSound' /\ \A q \in Requests : Told(q)'
  BY <1>1, ToldFrame DEF IInv, SoloSound
<1>10. Arrived'
  BY <1>1, ArrivedFrame DEF IInv
<1> QED BY <1>3, <1>4, <1>6, <1>7, <1>8, <1>9, <1>10 DEF IInv

LEMMA FailKeeps == ASSUME IInv, Fail PROVE IInv'
<1>1. /\ pc = "fail" /\ outcome' = Completed(Live, "error")
      /\ waiting' = <<>> /\ rows' = <<>> /\ gen' = <<>> /\ lane' = None /\ pc' = "close"
      /\ UNCHANGED <<cancelled, heard, kept, result, putting, inbox, active, queued, seq>>
      /\ UNCHANGED <<genKey, sampler, budget, moved, fresh, staying, solo, dropped>>
  BY DEF Fail, intake, answers, step, round, others
<1>2. /\ Typed /\ Apart /\ Accounted /\ Arrived /\ Control /\ Aligned /\ Sampling
      /\ fresh = <<>> /\ staying = {} /\ "error" \in Ended
  BY <1>1 DEF IInv, Control, Ended
<1>3. /\ <<>> \in Seq(Requests) /\ <<>> \in Seq([of : Requests, at : Nat]) /\ Len(<<>>) = 0
      /\ Elements(<<>>) = {} /\ Distinct(<<>>) /\ DOMAIN <<>> = {}
  BY EmptyList DEF Elements, Distinct
<1>4. Typed'
  <2>1. outcome' \in [Requests -> {"none", "pending"} \cup Ended]
    BY <1>1, <1>2, CompletedFacts
  <2> QED BY <1>1, <1>2, <1>3, <2>1 DEF Typed, TypeOK
<1>5. Control'
  BY <1>1, <1>2, <1>3 DEF Control, Resting
<1>6. InLane' = {} /\ OnEngine' = OnEngine
  BY <1>1 DEF InLane, OnEngine
<1>7. Apart'
  <2>1. inbox' = inbox /\ Elements(waiting') = {} /\ Elements(rows') = {}
        /\ Distinct(waiting') /\ Distinct(rows')
    BY <1>1, <1>3
  <2> QED BY <1>2, <1>6, <2>1 DEF Apart
<1>8. Accounted'
  <2>1. Live = Elements(rows) \cup Elements(waiting) \cup InLane
    BY DEF Live, ToSet, Elements, InLane
  <2>2. Here = Elements(rows) /\ Here' = {}
    BY <1>1, <1>3 DEF Here, Answering, Elements
  <2>3. Known' = Elements(inbox) \cup OnEngine
    BY <1>1, <1>3, <1>6, <2>2 DEF Known
  <2>4. Known \ Live = Elements(inbox) \cup OnEngine
    BY <1>2, <2>1, <2>2 DEF Known, Apart
  <2>5. Elements(rows') \subseteq Elements(rows) /\ dropped' = dropped
    BY <1>1, <1>3
  <2> QED BY <1>1, <1>2, <2>3, <2>4, <2>5, CompletedAccounted
<1>9. Aligned'
  <2>1. fresh' = <<>> /\ Len(gen') = Len(rows') /\ DOMAIN rows' = {} /\ lane' = None
    BY <1>1, <1>2, <1>3
  <2> QED BY <1>4, <2>1, SettledAligned
<1>10. Sampling'
  <2>1. Len(rows') + 0 <= MaxBatch
    BY <1>1, <1>3, SpecConstants
  <2> QED BY <1>1, <1>3, <2>1 DEF Sampling
<1>11. SoloSound'
  BY <1>1 DEF IInv, SoloSound
<1>12. /\ \A q \in Requests : Told(q)'
       /\ \A q \in Requests : outcome'[q] = "none" => outcome[q] = "none"
  BY <1>1, <1>2, CompletedTold DEF IInv
<1>13. Arrived'
  <2>1. Thinned(waiting', waiting) /\ waiting' \in Seq(Requests)
    BY <1>1, <1>3 DEF Thinned
  <2> QED BY <1>1, <1>2, <1>12, <2>1, ArrivedThinned
<1> QED BY <1>4, <1>5, <1>7, <1>8, <1>9, <1>10, <1>11, <1>12, <1>13 DEF IInv

(***************************************************************************)
(* The serial engine                                                       *)
(***************************************************************************)
LEMMA SoloFacts ==
  ASSUME IInv, pc = "solo"
  PROVE  /\ solo # None /\ solo \in Solos /\ solo.req \in Requests /\ solo.got \in Seq(Tokens)
         /\ OnEngine = {solo.req} /\ outcome[solo.req] = "pending"
         /\ kept[solo.req] \in Seq(Tokens) /\ heard[solo.req] \in Seq(Tokens)
         /\ Len(kept[solo.req]) \in Nat /\ Len(solo.got) \in Nat /\ MaxTokens[solo.req] \in Nat
         /\ solo.got = Following(solo.req, Len(kept[solo.req]), Len(solo.got))
         /\ Len(kept[solo.req]) + Len(solo.got) <= MaxTokens[solo.req]
         /\ solo.req \in Streaming => Len(heard[solo.req]) = Len(kept[solo.req]) + Len(solo.got)
<1>1. Typed /\ Control /\ Accounted /\ SoloSound
  BY DEF IInv
<1>2. solo # None
  BY <1>1 DEF Control
<1>3. solo \in Solos /\ solo.req \in Requests /\ solo.got \in Seq(Tokens)
  BY <1>1, <1>2, TypedFacts
<1>4. OnEngine = {solo.req} /\ outcome[solo.req] = "pending"
  BY <1>1, <1>2 DEF OnEngine, Accounted, Known
<1>5. /\ kept[solo.req] \in Seq(Tokens) /\ heard[solo.req] \in Seq(Tokens)
      /\ Len(kept[solo.req]) \in Nat /\ Len(solo.got) \in Nat /\ MaxTokens[solo.req] \in Nat
  BY <1>1, <1>3, TypedFacts, LenProperties, SpecConstants
<1>6. solo.req \in Streaming => Len(heard[solo.req]) = Len(kept[solo.req]) + Len(solo.got)
  <2>1. Told(solo.req) /\ outcome[solo.req] \notin Ended
    BY <1>3, <1>4 DEF IInv, Ended
  <2> QED BY <1>2, <2>1 DEF Told, Said
<1> QED BY <1>1, <1>2, <1>3, <1>4, <1>5, <1>6 DEF SoloSound

LEMMA SoloTokenKeeps == ASSUME IInv, SoloToken PROVE IInv'
<1> DEFINE r == solo.req
<1>1. PICK n \in 1..(Depth + 1) :
        /\ Len(solo.got) + n <= Room(r)
        /\ heard' = [heard EXCEPT ![r] = IF r \in Streaming THEN @ \o Continuation(n) ELSE @]
        /\ solo' = [solo EXCEPT !.got = @ \o Continuation(n)]
  BY DEF SoloToken
<1>2. /\ pc = "solo"
      /\ UNCHANGED <<outcome, cancelled, kept, result, putting, inbox, active, queued, pc, waiting>>
      /\ UNCHANGED <<seq, rows, gen, genKey, sampler, lane, budget, moved, fresh, staying, dropped>>
  BY DEF SoloToken, intake, batch, step, round
<1>3. /\ Typed /\ Apart /\ Accounted /\ Arrived /\ Control /\ \A q \in Requests : Told(q)
      /\ heard \in [Requests -> Seq(Tokens)]
  BY TypedFacts DEF IInv
<1>4. /\ solo # None /\ solo \in Solos /\ r \in Requests /\ solo.got \in Seq(Tokens)
      /\ OnEngine = {r} /\ outcome[r] = "pending"
      /\ heard[r] \in Seq(Tokens)
      /\ Len(kept[r]) \in Nat /\ Len(solo.got) \in Nat /\ MaxTokens[r] \in Nat
      /\ solo.got = Following(r, Len(kept[r]), Len(solo.got))
      /\ r \in Streaming => Len(heard[r]) = Len(kept[r]) + Len(solo.got)
  BY <1>2, SoloFacts
<1> DEFINE k == Len(kept[r])
           l == Len(solo.got)
           m == MaxTokens[r]
           o == k + l
           C == Following(r, o, n)
           g == solo.got \o C
           h == heard[r] \o C
<1>5. l + n <= m - k
  BY <1>1 DEF Room
<1>6. Continuation(n) = C
  BY DEF Continuation
<1> HIDE DEF r, k, l, m
<1>7. k \in Nat /\ l \in Nat /\ n \in Nat /\ o \in Nat /\ k + (l + n) <= m /\ o + n = k + (l + n)
  <2>1. k \in Nat /\ l \in Nat /\ m \in Nat
    BY <1>4 DEF k, l, m
  <2>2. n \in Nat
    BY SpecConstants
  <2> QED BY <1>5, <2>1, <2>2
<1> HIDE DEF o
<1>a. Piece(C, r, o, n)
  BY <1>4, <1>7, NextPiece
<1> HIDE DEF C
<1>8. /\ g \in Seq(Tokens) /\ g = Following(r, k, Len(g)) /\ Len(g) = l + n
  <2>1. Piece(solo.got, r, k, l)
    BY <1>4, <1>7 DEF k, l, Piece
  <2>2. o = k + l
    BY DEF o
  <2>3. Piece(g, r, k, l + n)
    BY <1>a, <2>1, <2>2, PiecesJoin
  <2> HIDE DEF g
  <2> QED BY <2>3 DEF Piece
<1>9. r \in Streaming => /\ h \in Seq(Tokens) /\ h = Following(r, 0, Len(h))
                         /\ Len(h) = k + (l + n)
  <2> SUFFICES ASSUME r \in Streaming
               PROVE  h \in Seq(Tokens) /\ h = Following(r, 0, Len(h)) /\ Len(h) = k + (l + n)
    OBVIOUS
  <2>1. Piece(heard[r], r, 0, o)
    BY <1>3, <1>4, <1>7 DEF Told, k, l, o, Piece
  <2>2. o = 0 + o
    BY <1>7
  <2>3. Piece(h, r, 0, o + n)
    BY <1>a, <2>1, <2>2, PiecesJoin
  <2> HIDE DEF h
  <2> QED BY <1>7, <2>3 DEF Piece
<1>10. /\ solo' \in Solos /\ solo' # None /\ solo'.req = r /\ solo'.got = g
  <2>1. solo' = [solo EXCEPT !.got = g]
    BY <1>1, <1>4, <1>6 DEF Solos, r
  <2> HIDE DEF g
  <2>2. solo' \in Solos /\ solo'.req = r /\ solo'.got = g
    BY <1>4, <1>8, <2>1 DEF Solos, r
  <2> QED BY <2>2, SpecConstants
<1>11. /\ heard' \in [Requests -> Seq(Tokens)]
       /\ \A q \in Requests : q # r => heard'[q] = heard[q]
       /\ heard'[r] = IF r \in Streaming THEN h ELSE heard[r]
  <2>1. heard' = [heard EXCEPT ![r] = IF r \in Streaming THEN h ELSE heard[r]]
    BY <1>1, <1>3, <1>4, <1>6
  <2>2. (IF r \in Streaming THEN h ELSE heard[r]) \in Seq(Tokens)
    BY <1>4, <1>9
  <2> HIDE DEF h
  <2> QED BY <1>3, <1>4, <2>1, <2>2
<1> HIDE DEF g, h
<1>13. Typed'
  BY <1>2, <1>3, <1>10, <1>11 DEF Typed, TypeOK
<1>14. Control'
  BY <1>2, <1>3, <1>10 DEF Control, Resting, Turn
<1>15. InLane' = InLane /\ OnEngine' = OnEngine
  BY <1>2, <1>4, <1>10 DEF InLane, OnEngine
<1>16. Apart'
  <2>1. UNCHANGED <<inbox, waiting, rows>>
    BY <1>2
  <2> QED BY <1>3, <1>15, <2>1 DEF Apart
<1>17. Accounted'
  <2>1. Here' = Here
    BY <1>2 DEF Here, Answering, Turn
  <2>2. Known' = Known
    BY <1>2, <1>15, <2>1 DEF Known
  <2> QED BY <1>2, <1>3, <2>2 DEF Accounted
<1>18. Aligned' /\ Sampling'
  BY <1>2, AlignedFrame, SamplingFrame DEF IInv
<1>19. SoloSound'
  <2>1. kept' = kept /\ Len(kept[r]) = k /\ k + Len(g) <= MaxTokens[r]
    BY <1>2, <1>7, <1>8 DEF k, m
  <2> QED BY <1>8, <1>10, <2>1 DEF SoloSound
<1>20. ASSUME NEW q \in Requests PROVE Told(q)'
  <2>1. Told(q)
    BY <1>3
  <2>2. CASE q = r
    <3>1. Said(q)' = k + (l + n)
      <4>1. Said(q)' = Len(kept[r]) + Len(g)
        BY <1>2, <1>10, <2>2 DEF Said
      <4> QED BY <1>8, <4>1 DEF k
    <3>2. heard'[q] = Following(q, 0, Len(heard'[q])) /\ Len(heard'[q]) <= MaxTokens[q]
      BY <1>7, <1>9, <1>11, <2>1, <2>2 DEF Told, m
    <3>3. q \in Streaming => Len(heard'[q]) = Said(q)'
      BY <1>9, <1>11, <2>2, <3>1
    <3>4. outcome[q] # "done" /\ outcome[q] \notin Ended
      BY <1>4, <2>2 DEF Ended
    <3>5. /\ kept[q] = Following(q, 0, Len(kept[q])) /\ Len(kept[q]) <= MaxTokens[q]
          /\ Len(kept[q]) < MaxTokens[q]
      BY <2>1, <3>4 DEF Told
    <3>6. UNCHANGED <<kept, outcome>>
      BY <1>2
    <3> QED BY <3>2, <3>3, <3>4, <3>5, <3>6 DEF Told
  <2>3. CASE q # r
    <3>1. Said(q)' = Said(q)
      <4>1. Said(q) = Len(kept[q]) + 0
        BY <1>4, <2>3 DEF Said, r
      <4>2. Said(q)' = Len(kept[q]) + 0
        BY <1>2, <1>10, <2>3 DEF Said
      <4> QED BY <4>1, <4>2
    <3> QED BY <1>2, <1>11, <2>1, <2>3, <3>1 DEF Told
  <2> QED BY <2>2, <2>3
<1>21. Arrived'
  BY <1>2, ArrivedFrame DEF IInv
<1> QED BY <1>13, <1>14, <1>16, <1>17, <1>18, <1>19, <1>20, <1>21 DEF IInv

(* The row leaves the serial engine, however it ended. *)
LEMMA SoloLeaves ==
  ASSUME IInv, pc = "solo", solo' = None, pc' = "drain",
         NEW how \in Ended, outcome' = Completed({solo.req}, how),
         UNCHANGED <<cancelled, heard, kept, putting, inbox, active, queued, waiting>>,
         UNCHANGED <<seq, rows, gen, genKey, sampler, lane, budget, moved, fresh, staying, dropped>>,
         result' \in [Requests -> Seq(Tokens)], \A q \in Requests : Told(q)'
  PROVE  IInv'
<1>1. /\ Typed /\ Apart /\ Accounted /\ Arrived /\ Control /\ solo.req \in Requests
      /\ OnEngine = {solo.req} /\ OnEngine' = {} /\ InLane' = InLane
  BY SoloFacts DEF IInv, OnEngine, InLane
<1>2. Typed'
  <2>1. outcome' \in [Requests -> {"none", "pending"} \cup Ended]
    BY <1>1, CompletedFacts
  <2> QED BY <1>1, <2>1 DEF Typed, TypeOK
<1>3. Control'
  BY <1>1 DEF Control, Resting, Turn
<1>4. Apart'
  BY <1>1 DEF Apart
<1>5. Accounted'
  <2>1. Here' = Here
    BY DEF Here, Answering, Turn
  <2>2. Here \subseteq Elements(rows)
    BY <1>1, KnownType
  <2>3. Known' = Known \ {solo.req}
    BY <1>1, <2>1, <2>2 DEF Known, Apart
  <2> QED BY <1>1, <2>3, CompletedAccounted
<1>6. Aligned' /\ Sampling' /\ SoloSound'
  BY AlignedFrame, SamplingFrame DEF IInv, SoloSound
<1>7. Arrived'
  <2>1. \A q \in Requests : outcome'[q] = "none" => outcome[q] = "none"
    <3>1. \A q \in Requests : outcome'[q] = how \/ outcome'[q] = outcome[q]
      BY <1>1, CompletedFacts
    <3> QED BY <3>1 DEF Ended
  <2> QED BY <1>1, <2>1 DEF Arrived, Drained
<1> QED BY <1>2, <1>3, <1>4, <1>5, <1>6, <1>7 DEF IInv

LEMMA SoloRaisesKeeps == ASSUME IInv, SoloRaises PROVE IInv'
<1> DEFINE how == IF solo.req \in cancelled THEN "cancelled" ELSE "error"
<1>1. /\ pc = "solo" /\ outcome' = Completed({solo.req}, how) /\ solo' = None /\ pc' = "drain"
      /\ UNCHANGED <<cancelled, heard, kept, result, putting, inbox, active, queued, waiting>>
      /\ UNCHANGED <<seq, rows, gen, genKey, sampler, lane, budget, moved, fresh, staying, dropped>>
  BY DEF SoloRaises, intake, answers, batch, step, round
<1>2. how \in Ended /\ how # "done"
  BY DEF Ended
<1>3. Typed /\ solo.req \in {solo.req} /\ outcome[solo.req] = "pending"
  BY <1>1, SoloFacts DEF IInv
<1> HIDE DEF how
<1>4. \A q \in Requests : Told(q)'
  BY <1>1, <1>2, <1>3, CompletedTold DEF IInv
<1>5. result' \in [Requests -> Seq(Tokens)]
  BY <1>1, <1>3, TypedFacts
<1> QED BY <1>1, <1>2, <1>4, <1>5, SoloLeaves

LEMMA SoloEndsKeeps == ASSUME IInv, SoloEnds PROVE IInv'
<1> DEFINE r == solo.req
           w == kept[r] \o solo.got
<1>1. /\ pc = "solo" /\ solo.got # <<>> /\ outcome' = Completed({r}, "done")
      /\ result' = [result EXCEPT ![r] = w] /\ solo' = None /\ pc' = "drain"
      /\ UNCHANGED <<cancelled, heard, kept, putting, inbox, active, queued, waiting>>
      /\ UNCHANGED <<seq, rows, gen, genKey, sampler, lane, budget, moved, fresh, staying, dropped>>
  BY DEF SoloEnds, SoloResult, intake, batch, step, round
<1>2. /\ solo # None /\ solo \in Solos /\ r \in Requests /\ solo.got \in Seq(Tokens)
      /\ outcome[r] = "pending" /\ kept[r] \in Seq(Tokens)
      /\ Len(kept[r]) \in Nat /\ Len(solo.got) \in Nat
      /\ solo.got = Following(r, Len(kept[r]), Len(solo.got))
      /\ r \in Streaming => Len(heard[r]) = Len(kept[r]) + Len(solo.got)
  BY <1>1, SoloFacts
<1>3. Typed /\ "done" \in Ended /\ \A q \in Requests : Told(q)
  BY DEF IInv, Ended
<1>4. /\ w \in Seq(Tokens) /\ w = Following(r, 0, Len(w))
      /\ Len(w) = Len(kept[r]) + Len(solo.got) /\ w # <<>>
  <2> DEFINE k == Len(kept[r])
             m == Len(solo.got)
  <2>1. k \in Nat /\ m \in Nat /\ m # 0
    BY <1>1, <1>2, EmptySeq
  <2>2. kept[r] = Following(r, 0, Len(kept[r]))
    BY <1>2, <1>3 DEF Told
  <2> HIDE DEF r
  <2>3. Piece(kept[r], r, 0, k) /\ Piece(solo.got, r, k, m)
    BY <1>2, <2>1, <2>2 DEF Piece
  <2>4. k = 0 + k
    BY <2>1
  <2>5. Piece(w, r, 0, k + m)
    BY <2>3, <2>4, PiecesJoin
  <2> HIDE DEF k, m
  <2>6. k + m # 0 /\ Len(<<>>) = 0
    BY <2>1, EmptyList
  <2> HIDE DEF w
  <2>7. w \in Seq(Tokens) /\ w = Following(r, 0, Len(w)) /\ Len(w) = k + m
    BY <2>5 DEF Piece
  <2>8. w # <<>>
    BY <2>6, <2>7
  <2> QED BY <2>7, <2>8 DEF k, m
<1> HIDE DEF w
<1>5. /\ result \in [Requests -> Seq(Tokens)] /\ result' \in [Requests -> Seq(Tokens)]
      /\ result'[r] = w /\ \A q \in Requests : q # r => result'[q] = result[q]
  BY <1>1, <1>2, <1>3, <1>4, TypedFacts
<1>6. /\ outcome'[r] = "done" /\ \A q \in Requests : q # r => outcome'[q] = outcome[q]
  BY <1>1, <1>2, <1>3, CompletedFacts
<1>7. ASSUME NEW q \in Requests PROVE Told(q)'
  <2>1. Told(q)
    BY <1>3
  <2>2. CASE q = r
    <3>1. r \in Streaming => w = heard[r]
      <4>1. heard[r] = Following(r, 0, Len(heard[r]))
        BY <2>1, <2>2 DEF Told
      <4> QED BY <1>2, <1>4, <4>1
    <3>2. outcome'[r] \in Ended
      BY <1>6 DEF Ended
    <3> QED BY <1>1, <1>4, <1>5, <1>6, <2>1, <2>2, <3>1, <3>2 DEF Told
  <2>3. CASE q # r
    <3>1. Said(q)' = Said(q)
      <4>1. Said(q) = Len(kept[q]) + 0
        BY <2>3 DEF Said
      <4>2. Said(q)' = Len(kept[q]) + 0
        BY <1>1 DEF Said
      <4> QED BY <4>1, <4>2
    <3> QED BY <1>1, <1>5, <1>6, <2>1, <2>3, <3>1 DEF Told
  <2> QED BY <2>2, <2>3
<1> QED BY <1>1, <1>3, <1>5, <1>7, SoloLeaves

(***************************************************************************)
(* A round and its delivery                                                *)
(***************************************************************************)
(* The depth of a round is one that the batch allows, or none. *)
LEMMA DepthFacts ==
  ASSUME NEW n \in Nat, budget \in Int
  PROVE  RoundDepth(n) \in Nat
<1> DEFINE may == {d \in 0..Depth : d = 0 \/ (n * (1 + d) <= RectLimit /\ n * (1 + d) <= budget)}
<1>1. Depth \in Nat
  BY SpecConstants
<1>2. 0 \in may /\ may \subseteq 0..Depth
  BY <1>1
<1>3. may \in SUBSET Int /\ IsFiniteSet(may) /\ may # {}
  <2>1. IsFiniteSet(0..Depth)
    BY <1>1, FS_Interval
  <2> HIDE DEF may
  <2>2. IsFiniteSet(may)
    BY <1>2, <2>1, FS_Subset
  <2> QED BY <1>1, <1>2, <2>2
<1>4. RoundDepth(n) = CHOOSE d \in may : \A e \in may : e <= d
  BY DEF RoundDepth
<1> HIDE DEF may
<1>5. \E d \in may : \A e \in may : e <= d
  BY <1>3, GreatestExists
<1>6. RoundDepth(n) \in may
  BY <1>4, <1>5
<1>7. \A d \in may : d \in Nat
  BY <1>1, <1>2
<1> QED BY <1>6, <1>7

(* Before a round, every row is answered and has room for a token. *)
LEMMA RowOpen ==
  ASSUME IInv, pc # "deliver", NEW b \in DOMAIN rows
  PROVE  /\ gen[b] = [of |-> rows[b], at |-> Len(kept[rows[b]])]
         /\ Len(kept[rows[b]]) < MaxTokens[rows[b]]
         /\ outcome[rows[b]] = "pending" /\ Len(kept[rows[b]]) >= 1
<1>1. Typed /\ Aligned /\ Accounted /\ Control /\ \A r \in Requests : Told(r)
  BY DEF IInv
<1>2. fresh = <<>>
  BY <1>1 DEF Control
<1>3. rows[b] \in Known
  BY DEF Known, Here, Answering
<1>4. outcome[rows[b]] = "pending"
  BY <1>1, <1>3 DEF Accounted
<1>5. rows[b] \in Requests /\ outcome[rows[b]] \notin Ended
  BY <1>1, <1>4, RowType DEF Ended
<1>6. Len(kept[rows[b]]) < MaxTokens[rows[b]]
  BY <1>1, <1>5 DEF Told
<1> QED BY <1>1, <1>2, <1>4, <1>6, RowSettled

LEMMA RoundKeeps == ASSUME IInv, Round PROVE IInv'
<1> DEFINE d == RoundDepth(Len(rows))
<1>1. PICK n \in [DOMAIN rows -> 1..(d + 1)], last \in [DOMAIN rows -> BOOLEAN] :
        /\ \A b \in DOMAIN rows : n[b] <= IF Room(rows[b]) > 1 THEN Room(rows[b]) ELSE 1
        /\ fresh' = [b \in DOMAIN rows |->
                       [toks |-> Following(gen[b].of, gen[b].at, n[b]), eos |-> last[b]]]
        /\ gen' = [b \in DOMAIN rows |-> [gen[b] EXCEPT !.at = @ + n[b]]]
        /\ budget' = budget - Len(rows) * (1 + d)
  BY DEF Round
<1>2. /\ pc = "room" /\ rows # <<>> /\ moved' = TRUE /\ staying' = {} /\ pc' = "deliver"
      /\ UNCHANGED <<outcome, cancelled, heard, kept, result, putting, inbox, active, queued>>
      /\ UNCHANGED <<waiting, seq, rows, genKey, sampler, lane, solo, dropped>>
  BY DEF Round, intake, requests, answers, others
<1>3. /\ Typed /\ Apart /\ Accounted /\ Arrived /\ Control /\ Aligned /\ Sampling
      /\ \A q \in Requests : Told(q)
  BY DEF IInv
<1>4. /\ rows \in Seq(Requests) /\ Len(rows) \in Nat /\ DOMAIN rows = 1..Len(rows)
      /\ d \in Nat /\ budget \in Int
  <2>1. rows \in Seq(Requests) /\ Len(rows) \in Nat /\ DOMAIN rows = 1..Len(rows) /\ budget \in Int
    BY <1>3, TypedFacts, LenProperties
  <2> QED BY <2>1, DepthFacts
<1> HIDE DEF d
<1>5. ASSUME NEW b \in DOMAIN rows
      PROVE  /\ rows[b] \in Requests /\ n[b] \in Nat /\ n[b] >= 1 /\ Len(kept[rows[b]]) \in Nat
             /\ Len(kept[rows[b]]) + n[b] \in Nat
             /\ Len(kept[rows[b]]) + n[b] <= MaxTokens[rows[b]] /\ Len(kept[rows[b]]) + n[b] >= 1
             /\ fresh'[b].toks = Following(rows[b], Len(kept[rows[b]]), n[b])
             /\ fresh'[b] \in Yields
             /\ gen'[b] = [of |-> rows[b], at |-> Len(kept[rows[b]]) + n[b]]
             /\ gen'[b] \in [of : Requests, at : Nat]
  <2> DEFINE k == Len(kept[rows[b]])
             m == MaxTokens[rows[b]]
             x == n[b]
  <2>1. k \in Nat /\ m \in Nat /\ k < m /\ rows[b] \in Requests
    BY <1>2, <1>3, RowOpen, RowType
  <2>2. x \in Nat /\ x >= 1
    <3>1. x \in 1..(d + 1)
      BY <1>1
    <3> HIDE DEF x
    <3> QED BY <1>4, <3>1
  <2>3. x <= IF m - k > 1 THEN m - k ELSE 1
    BY <1>1 DEF Room
  <2>4. gen[b] = [of |-> rows[b], at |-> k]
    BY <1>2, RowOpen
  <2>5. gen'[b] = [of |-> rows[b], at |-> k + x]
    <3>1. gen'[b] = [gen[b] EXCEPT !.at = gen[b].at + n[b]]
      BY <1>1
    <3>2. gen[b].at = k
      BY <2>4
    <3> HIDE DEF k
    <3> QED BY <2>4, <3>1, <3>2
  <2>6. fresh'[b] = [toks |-> Following(rows[b], k, x), eos |-> last[b]]
    BY <1>1, <2>4
  <2>7. fresh'[b] \in Yields
    <3>1. Following(rows[b], k, x) \in Seq(Tokens) /\ last[b] \in BOOLEAN
      BY <1>1, <2>1, <2>2, FollowingFacts
    <3> QED BY <2>6, <3>1 DEF Yields
  <2> HIDE DEF k, m, x
  <2>8. k + x \in Nat /\ k + x <= m /\ k + x >= 1
    BY <2>1, <2>2, <2>3
  <2>9. gen'[b] \in [of : Requests, at : Nat]
    BY <2>1, <2>5, <2>8
  <2> QED BY <2>1, <2>2, <2>5, <2>6, <2>7, <2>8, <2>9 DEF k, m, x
<1>6. /\ fresh' \in Seq(Yields) /\ Len(fresh') = Len(rows)
      /\ gen' \in Seq([of : Requests, at : Nat]) /\ Len(gen') = Len(rows)
  <2>1. fresh' \in [1..Len(rows) -> Yields]
    BY <1>1, <1>4, <1>5
  <2>2. gen' \in [1..Len(rows) -> [of : Requests, at : Nat]]
    <3>1. \A b \in DOMAIN rows : gen'[b] \in [of : Requests, at : Nat]
      BY <1>5
    <3> DEFINE R == [of : Requests, at : Nat]
    <3>2. gen' = [b \in DOMAIN rows |-> gen'[b]]
      BY <1>1
    <3>3. DOMAIN rows = 1..Len(rows)
      BY <1>4
    <3>4. \A b \in DOMAIN rows : gen'[b] \in R
      BY <3>1
    <3> HIDE DEF R
    <3>5. gen' \in [DOMAIN rows -> R]
      BY <3>2, <3>4
    <3> QED BY <3>3, <3>5 DEF R
  <2>3. fresh' \in Seq(Yields) /\ Len(fresh') = Len(rows)
    BY <1>4, <2>1
  <2> DEFINE R == [of : Requests, at : Nat]
  <2>4. gen' \in [1..Len(rows) -> R]
    BY <2>2
  <2> HIDE DEF R
  <2>5. gen' \in Seq(R) /\ Len(gen') = Len(rows)
    BY <1>4, <2>4
  <2> QED BY <2>3, <2>5 DEF R
<1>7. Turn' = 1
  BY <1>2, <1>4, <1>6 DEF Turn
<1>8. Typed'
  <2>1. budget' \in Int
    BY <1>1, <1>4
  <2> QED BY <1>2, <1>3, <1>6, <2>1 DEF Typed, TypeOK
<1>9. Control'
  <2>1. Len(fresh') <= Len(rows')
    BY <1>2, <1>4, <1>6
  <2> QED BY <1>2, <1>3, <2>1 DEF Control, Resting
<1>10. Apart'
  BY <1>2, ApartFrame DEF IInv
<1>11. Accounted'
  <2>1. Answering = DOMAIN rows
    BY <1>2 DEF Answering
  <2>2. Answering' = DOMAIN rows
    <3>1. \A b \in DOMAIN rows : b >= 1
      BY <1>4
    <3> QED BY <1>2, <1>7, <3>1 DEF Answering
  <2>3. Known' = Known
    BY <1>2, <2>1, <2>2 DEF Known, Here, InLane, OnEngine
  <2> QED BY <1>2, <1>3, <2>3 DEF Accounted
<1>12. Aligned'
  <2>1. ASSUME NEW b \in DOMAIN rows PROVE RowSound(b)'
    <3> DEFINE k == Len(kept[rows[b]])
    <3>1. Due(b)' = fresh'[b].toks
      <4>1. b \in Nat /\ b >= 1 /\ b - 1 + 1 = b
        BY <1>4
      <4> QED BY <1>7, <4>1 DEF Due
    <3> HIDE DEF k
    <3>2. Due(b)' = Following(rows[b], k, n[b])
      BY <1>5, <3>1 DEF k
    <3>3. Len(Due(b)') = n[b]
      <4>1. k \in Nat /\ n[b] \in Nat /\ rows[b] \in Requests
        BY <1>5 DEF k
      <4> QED BY <3>2, <4>1, FollowingFacts, SMTT(30)
    <3> QED BY <1>2, <1>5, <3>2, <3>3 DEF RowSound, k
  <2> QED BY <1>2, <1>3, <1>6, <2>1 DEF Aligned
<1>13. Sampling'
  BY <1>2, SamplingFrame DEF IInv
<1>14. SoloSound' /\ \A q \in Requests : Told(q)'
  BY <1>2, ToldFrame DEF IInv, SoloSound
<1>15. Arrived'
  BY <1>2, ArrivedFrame DEF IInv
<1> QED BY <1>8, <1>9, <1>10, <1>11, <1>12, <1>13, <1>14, <1>15 DEF IInv

(* The row that joins is owed its first token; the others are owed nothing. *)
LEMMA JoinKeeps == ASSUME IInv, Join PROVE IInv'
<1> DEFINE r == lane.req
           L == Len(rows)
           none == [b \in DOMAIN rows |-> [toks |-> <<>>, eos |-> FALSE]]
<1>1. PICK last \in BOOLEAN :
        fresh' = Append(none, [toks |-> Following(r, lane.at, 1), eos |-> last])
  BY DEF Join
<1>2. /\ pc = "join" /\ rows' = Append(rows, r)
      /\ gen' = Append(gen, [of |-> r, at |-> lane.at + 1])
      /\ genKey' = IF gen = <<>> THEN sampler ELSE genKey
      /\ lane' = None /\ staying' = {} /\ pc' = "deliver"
      /\ UNCHANGED <<outcome, cancelled, heard, kept, result, putting, inbox, active, queued>>
      /\ UNCHANGED <<waiting, seq, sampler, budget, moved, solo, dropped>>
  BY DEF Join, intake, requests, answers, step, others
<1>3. /\ Typed /\ Apart /\ Accounted /\ Arrived /\ Control /\ Aligned /\ Sampling
      /\ \A q \in Requests : Told(q)
      /\ lane # None /\ r \in Requests /\ lane.at \in Nat /\ lane.at = Len(kept[r])
      /\ rows \in Seq(Requests) /\ gen \in Seq([of : Requests, at : Nat]) /\ fresh = <<>>
  BY <1>2, TypedFacts DEF IInv, Control, Aligned
<1>4. r \in Known /\ InLane = {r} /\ outcome[r] = "pending"
  BY <1>3 DEF Known, InLane, Accounted
<1> DEFINE k == Len(kept[r])
<1>5. lane.at = k /\ k \in Nat /\ k < MaxTokens[r] /\ MaxTokens[r] \in Nat
  <2>1. kept[r] \in Seq(Tokens)
    BY <1>3, TypedFacts
  <2>2. outcome[r] \notin Ended
    BY <1>4 DEF Ended
  <2> QED BY <1>3, <2>1, <2>2, LenProperties, SpecConstants DEF Told
<1> HIDE DEF r, k
<1>6. /\ L \in Nat /\ DOMAIN rows = 1..L /\ Len(gen) = L
      /\ rows' \in Seq(Requests) /\ Len(rows') = L + 1 /\ DOMAIN rows' = 1..(L + 1)
      /\ rows'[L + 1] = r /\ \A b \in 1..L : rows'[b] = rows[b]
      /\ Elements(rows') = Elements(rows) \cup {r}
      /\ Distinct(rows) /\ r \notin Elements(rows) => Distinct(rows')
  BY <1>2, <1>3, AppendFacts DEF Aligned
<1> DEFINE e == [of |-> r, at |-> k + 1]
<1>7. /\ gen' \in Seq([of : Requests, at : Nat]) /\ Len(gen') = L + 1
      /\ gen'[L + 1] = e /\ \A b \in 1..L : gen'[b] = gen[b]
  <2>1. gen' = Append(gen, e)
    BY <1>2, <1>5
  <2>2. e \in [of : Requests, at : Nat]
    BY <1>3, <1>5
  <2> HIDE DEF e
  <2> QED BY <1>3, <1>6, <2>1, <2>2, AppendFacts
<1> DEFINE y == [toks |-> Following(r, k, 1), eos |-> last]
<1>8. /\ fresh' \in Seq(Yields) /\ Len(fresh') = L + 1
      /\ fresh'[L + 1] = y /\ \A b \in 1..L : fresh'[b].toks = <<>>
  <2>1. fresh' = Append(none, y)
    BY <1>1, <1>5
  <2>2. y \in Yields
    BY <1>3, <1>5, FollowingFacts DEF Yields
  <2>3. none \in Seq(Yields) /\ Len(none) = L /\ \A b \in 1..L : none[b].toks = <<>>
    <3>1. [toks |-> <<>>, eos |-> FALSE] \in Yields
      BY EmptyList DEF Yields
    <3>2. none \in [1..L -> Yields]
      BY <1>6, <3>1
    <3> QED BY <1>6, <3>2
  <2> HIDE DEF y, none
  <2> QED BY <2>1, <2>2, <2>3, AppendFacts
<1> HIDE DEF none, e, y
<1>9. Turn' = 1
  <2>1. Turn' = (L + 1) - (L + 1) + 1
    BY <1>6, <1>8 DEF Turn
  <2> HIDE DEF L
  <2> QED BY <1>6, <2>1
<1>10. Typed'
  <2>1. lane' = None /\ staying' \subseteq DOMAIN rows'
    BY <1>2
  <2> QED BY <1>2, <1>3, <1>6, <1>7, <1>8, <2>1 DEF Typed, TypeOK
<1>11. Control'
  <2>1. Len(fresh') <= Len(rows')
    BY <1>6, <1>8
  <2> QED BY <1>2, <1>3, <2>1 DEF Control, Resting
<1>12. InLane' = {} /\ OnEngine' = OnEngine
  BY <1>2 DEF InLane, OnEngine
<1>13. Apart'
  <2>1. UNCHANGED <<inbox, waiting>> /\ Distinct(rows')
    BY <1>2, <1>3, <1>4, <1>6 DEF Apart
  <2> QED BY <1>3, <1>4, <1>6, <1>12, <2>1 DEF Apart
<1>14. Accounted'
  <2>1. Here = Elements(rows)
    BY <1>2 DEF Here, Answering, Elements
  <2>2. Answering' = DOMAIN rows'
    <3>1. \A b \in DOMAIN rows' : b >= 1
      BY <1>6
    <3> QED BY <1>9, <3>1 DEF Answering
  <2>3. Here' = Elements(rows) \cup {r}
    BY <1>6, <2>2 DEF Here, Elements
  <2>4. Known' = Known
    BY <1>2, <1>4, <1>12, <2>1, <2>3 DEF Known
  <2> QED BY <1>2, <1>3, <1>4, <1>6, <2>4 DEF Accounted
<1>15. Aligned'
  <2>1. ASSUME NEW b \in 1..L PROVE RowSound(b)'
    <3> DEFINE q == rows[b]
               l == Len(kept[q])
    <3>1. gen[b] = [of |-> q, at |-> l] /\ l >= 1 /\ l < MaxTokens[q] /\ q \in Requests
          /\ l \in Nat /\ MaxTokens[q] \in Nat
      BY <1>2, <1>3, <1>6, RowOpen, RowType
    <3>2. Due(b)' = <<>> /\ Len(<<>>) = 0
      <4>1. b \in Nat /\ b >= 1 /\ b - 1 + 1 = b
        OBVIOUS
      <4> QED BY <1>8, <1>9, <4>1, EmptyList DEF Due
    <3>3. rows'[b] = q /\ gen'[b] = gen[b] /\ kept' = kept
      BY <1>2, <1>6, <1>7
    <3>4. Following(q, l, 0) = <<>>
      BY <3>1, FollowingNone
    <3> HIDE DEF q
    <3>5. RowSound(b)' = /\ gen[b] = [of |-> q, at |-> l + 0] /\ <<>> = Following(q, l, 0)
                         /\ l + 0 >= 1 /\ l + 0 <= MaxTokens[q]
      BY <3>2, <3>3 DEF RowSound
    <3> HIDE DEF l
    <3>6. l + 0 = l /\ l <= MaxTokens[q]
      BY <3>1
    <3> QED BY <3>1, <3>4, <3>5, <3>6
  <2>2. ASSUME NEW b, b = L + 1 PROVE RowSound(b)'
    <3>1. Due(b)' = Following(r, k, 1)
      <4>1. b >= 1 /\ b - 1 + 1 = b
        BY <1>6, <2>2
      <4>2. Due(b)' = fresh'[b].toks
        BY <1>9, <4>1 DEF Due
      <4> QED BY <1>8, <2>2, <4>2 DEF y
    <3>2. Len(Following(r, k, 1)) = 1
      <4>1. r \in Requests /\ k \in Nat /\ 1 \in Nat
        BY <1>3, <1>5
      <4> QED BY <4>1, FollowingFacts, ZenonT(40)
    <3>3. rows'[b] = r /\ gen'[b] = [of |-> r, at |-> k + 1] /\ Len(kept'[r]) = k
      <4>1. kept' = kept
        BY <1>2
      <4> QED BY <1>6, <1>7, <2>2, <4>1 DEF k, e
    <3>4. k + 1 >= 1 /\ k + 1 <= MaxTokens[r]
      BY <1>5
    <3> QED BY <3>1, <3>2, <3>3, <3>4 DEF RowSound
  <2>3. \A b \in DOMAIN rows' : b \in 1..L \/ b = L + 1
    BY <1>6
  <2>4. Len(gen') = Len(rows') /\ lane' = None
    BY <1>2, <1>6, <1>7
  <2> QED BY <2>1, <2>2, <2>3, <2>4 DEF Aligned
<1>16. Sampling'
  <2>1. Key[r] = sampler /\ sampler # None /\ MaxBatch \in Nat /\ L + 1 <= MaxBatch
    BY <1>3, SpecConstants DEF Sampling, r
  <2>2. genKey' = sampler /\ \A b \in 1..L : Key[rows[b]] = sampler
    <3>1. CASE gen = <<>>
      <4>1. L = 0
        BY <1>6, <3>1, EmptyList
      <4> QED BY <1>2, <3>1, <4>1
    <3>2. CASE gen # <<>>
      <4>1. rows # <<>>
        BY <1>3, <1>6, <3>2, EmptySeq
      <4> QED BY <1>2, <1>3, <1>6, <3>2, <4>1 DEF Sampling
    <3> QED BY <3>1, <3>2
  <2>3. \A b \in DOMAIN rows' : Key[rows'[b]] = sampler
    <3>1. \A b \in DOMAIN rows' : b \in 1..L \/ b = L + 1
      BY <1>6
    <3> QED BY <1>6, <2>1, <2>2, <3>1
  <2>4. Len(rows') + 0 <= MaxBatch
    <3> HIDE DEF L
    <3> QED BY <1>6, <2>1
  <2> QED BY <1>2, <2>1, <2>2, <2>3, <2>4 DEF Sampling
<1>17. SoloSound' /\ \A q \in Requests : Told(q)'
  BY <1>2, ToldFrame DEF IInv, SoloSound
<1>18. Arrived'
  BY <1>2, ArrivedFrame DEF IInv
<1> QED BY <1>10, <1>11, <1>13, <1>14, <1>15, <1>16, <1>17, <1>18 DEF IInv

(* The next of a round to be delivered: its row, and what the row is owed. *)
LEMMA TurnFacts ==
  ASSUME IInv, pc = "deliver", fresh # <<>>
  PROVE  /\ Turn \in DOMAIN rows /\ Turn \in Nat /\ Turn - 1 + Len(fresh) = Len(rows)
         /\ rows[Turn] \in Requests /\ rows[Turn] \in Here /\ outcome[rows[Turn]] = "pending"
         /\ rows[Turn] \notin OnEngine /\ rows[Turn] \notin InLane
         /\ rows[Turn] \notin Elements(inbox) /\ rows[Turn] \notin Elements(waiting)
         /\ kept[rows[Turn]] \in Seq(Tokens) /\ Len(kept[rows[Turn]]) \in Nat
         /\ Len(Head(fresh).toks) \in Nat /\ RowSound(Turn) /\ Due(Turn) = Head(fresh).toks
         /\ Piece(Head(fresh).toks, rows[Turn], Len(kept[rows[Turn]]), Len(Head(fresh).toks))
         /\ Turn \notin staying
<1>1. /\ Typed /\ Control /\ Apart /\ Accounted /\ Aligned
      /\ rows \in Seq(Requests) /\ fresh \in Seq(Yields) /\ staying \subseteq DOMAIN rows
  BY TypedFacts DEF IInv
<1> DEFINE L == Len(rows)
           F == Len(fresh)
           t == Turn
           r == rows[t]
           toks == Head(fresh).toks
<1>2. L \in Nat /\ DOMAIN rows = 1..L /\ F \in Nat \ {0} /\ F <= L /\ t = L - F + 1
  BY <1>1, LenProperties, EmptySeq DEF Control, Turn
<1>3. Head(fresh) = fresh[1] /\ Head(fresh) \in Yields
  BY <1>1, ListParts
<1> HIDE DEF L, F, t
<1>4. t \in DOMAIN rows /\ t \in Nat /\ t - 1 + F = L /\ t >= t /\ t - t + 1 = 1
  BY <1>2
<1>5. r \in Requests /\ r \in Elements(rows)
  BY <1>1, <1>4, ElementOfSeq DEF Elements
<1>6. r \in Here
  BY <1>4 DEF Here, Answering, t
<1>7. outcome[r] = "pending"
  BY <1>1, <1>6 DEF Accounted, Known
<1>8. kept[r] \in Seq(Tokens) /\ Len(kept[r]) \in Nat
  BY <1>1, <1>5, TypedFacts, LenProperties
<1>9. Due(t) = toks
  BY <1>3, <1>4 DEF Due, t
<1>10. toks \in Seq(Tokens) /\ Len(toks) \in Nat
  BY <1>3, LenProperties DEF Yields
<1>11. RowSound(t)
  BY <1>1, <1>4 DEF Aligned
<1>12. Piece(toks, r, Len(kept[r]), Len(toks))
  BY <1>5, <1>8, <1>9, <1>10, <1>11 DEF RowSound, Piece
<1>13. t \notin staying
  <2>1. \A b \in staying : b < t
    BY <1>1 DEF Control, t
  <2> QED BY <1>4, <2>1
<1>14. r \notin OnEngine /\ r \notin InLane /\ r \notin Elements(inbox) /\ r \notin Elements(waiting)
  BY <1>1, <1>5 DEF Apart
<1> HIDE DEF r, toks
<1> QED BY <1>4, <1>5, <1>6, <1>7, <1>8, <1>9, <1>10, <1>11, <1>12, <1>13, <1>14
        DEF L, F, t, r, toks

(* What both deliveries do. *)
HandsOver ==
  /\ pc = "deliver" /\ fresh # <<>> /\ fresh' = Tail(fresh)
  /\ Delivered(rows[Turn], Head(fresh).toks)
  /\ UNCHANGED <<cancelled, putting, inbox, active, queued, pc, waiting, seq, rows>>
  /\ UNCHANGED <<gen, genKey, sampler, lane, budget, moved, solo, dropped>>

(* The admission whose turn it is has one piece more, and no other changes. *)
LEMMA HandedFacts ==
  ASSUME IInv, HandsOver
  PROVE  /\ kept' \in [Requests -> Seq(Tokens)]
         /\ kept'[rows[Turn]] = kept[rows[Turn]] \o Head(fresh).toks
         /\ \A q \in Requests : q # rows[Turn] => kept'[q] = kept[q]
         /\ Piece(kept'[rows[Turn]], rows[Turn], 0,
                  Len(kept[rows[Turn]]) + Len(Head(fresh).toks))
         /\ Len(kept[rows[Turn]]) + Len(Head(fresh).toks) >= 1
         /\ Len(kept[rows[Turn]]) + Len(Head(fresh).toks) <= MaxTokens[rows[Turn]]
         /\ kept'[rows[Turn]] # <<>>
         /\ fresh' \in Seq(Yields) /\ Len(fresh') = Len(fresh) - 1 /\ Turn' = Turn + 1
<1> DEFINE t == Turn
           r == rows[t]
           toks == Head(fresh).toks
           k == Len(kept[r])
           n == Len(toks)
           h == kept[r] \o toks
<1>1. /\ r \in Requests /\ kept[r] \in Seq(Tokens) /\ k \in Nat /\ n \in Nat
      /\ t \in Nat /\ t - 1 + Len(fresh) = Len(rows)
      /\ Piece(toks, r, k, n) /\ RowSound(t) /\ Due(t) = toks
  BY TurnFacts DEF HandsOver
<1>2. /\ Typed /\ kept \in [Requests -> Seq(Tokens)] /\ fresh \in Seq(Yields)
      /\ \A q \in Requests : Told(q)
      /\ fresh # <<>> /\ fresh' = Tail(fresh) /\ rows' = rows /\ rows \in Seq(Requests)
      /\ kept' = [kept EXCEPT ![r] = kept[r] \o toks]
  BY TypedFacts DEF IInv, HandsOver, Delivered
<1>3. k + n >= 1 /\ k + n <= MaxTokens[r]
  BY <1>1 DEF RowSound
<1>4. Piece(kept[r], r, 0, k)
  BY <1>1, <1>2 DEF Told, Piece
<1> HIDE DEF t, r, toks, k, n
<1>5. Piece(h, r, 0, k + n)
  <2>1. k = 0 + k
    BY <1>1
  <2> QED BY <1>1, <1>4, <2>1, PiecesJoin
<1>6. h \in Seq(Tokens) /\ h # <<>>
  <2>1. h \in Seq(Tokens) /\ Len(h) = k + n
    BY <1>5 DEF Piece
  <2>2. Len(h) # 0
    <3> HIDE DEF h
    <3> QED BY <1>3, <2>1
  <2> HIDE DEF h
  <2> QED BY <2>1, <2>2, EmptyList
<1>7. kept' = [kept EXCEPT ![r] = h]
  BY <1>2
<1> HIDE DEF h
<1>8. kept' \in [Requests -> Seq(Tokens)] /\ kept'[r] = h
      /\ \A q \in Requests : q # r => kept'[q] = kept[q]
  BY <1>1, <1>2, <1>6, <1>7
<1>9. fresh' \in Seq(Yields) /\ Len(fresh') = Len(fresh) - 1 /\ Len(fresh) \in Nat /\ Len(rows) \in Nat
  BY <1>2, ListParts, TailLength, LenProperties
<1>10. Turn' = t + 1
  <2>1. Turn' = Len(rows) - Len(fresh') + 1
    BY <1>2 DEF Turn
  <2>2. t = Len(rows) - Len(fresh) + 1
    BY DEF t, Turn
  <2> QED BY <1>9, <2>1, <2>2
<1> QED BY <1>3, <1>5, <1>6, <1>8, <1>9, <1>10 DEF t, r, toks, k, n, h

(* What the other rows are owed stays; the one that was served is owed nothing. *)
LEMMA HandedAligned ==
  ASSUME IInv, HandsOver
  PROVE  Aligned'
<1> DEFINE t == Turn
           r == rows[t]
           n == Len(Head(fresh).toks)
           k == Len(kept[r])
           L == Len(rows)
           F == Len(fresh)
<1>1. /\ t \in DOMAIN rows /\ t \in Nat /\ t - 1 + F = L /\ r \in Requests
      /\ r \notin InLane /\ k \in Nat /\ n \in Nat
      /\ RowSound(t) /\ Due(t) = Head(fresh).toks
  BY TurnFacts DEF HandsOver
<1>2. /\ kept' \in [Requests -> Seq(Tokens)]
      /\ \A q \in Requests : q # r => kept'[q] = kept[q]
      /\ Len(kept'[r]) = k + n /\ k + n >= 1 /\ k + n <= MaxTokens[r] /\ Turn' = t + 1
  BY HandedFacts DEF Piece
<1>3. /\ fresh' = Tail(fresh) /\ rows' = rows /\ gen' = gen /\ lane' = lane
      /\ fresh \in Seq(Yields) /\ fresh # <<>> /\ rows \in Seq(Requests)
      /\ Typed /\ Aligned /\ Distinct(rows)
  BY TypedFacts DEF HandsOver, IInv, Apart
<1>4. /\ L \in Nat /\ DOMAIN rows = 1..L /\ F \in Nat /\ DOMAIN Tail(fresh) = 1..(F - 1)
      /\ \A i \in DOMAIN Tail(fresh) : Tail(fresh)[i] = fresh[i + 1]
  BY <1>3, LenProperties, ListParts, TailLength
<1>5. gen[t] = [of |-> r, at |-> k + n]
  BY <1>1 DEF RowSound
<1> HIDE DEF t, r, n, k, L, F
<1>6. ASSUME NEW b \in DOMAIN rows, b = t PROVE RowSound(b)'
  <2>1. ~(b >= t + 1)
    BY <1>1, <1>6
  <2>2. Due(b)' = <<>> /\ Len(<<>>) = 0
    BY <1>2, <2>1, EmptyList DEF Due
  <2>3. Following(r, k + n, 0) = <<>>
    BY <1>1, FollowingNone
  <2>4. k + n + 0 = k + n
    BY <1>1
  <2>5. rows'[b] = r /\ gen'[b] = [of |-> r, at |-> k + n]
    BY <1>3, <1>5, <1>6 DEF r
  <2> QED BY <1>2, <2>2, <2>3, <2>4, <2>5 DEF RowSound
<1>7. ASSUME NEW b \in DOMAIN rows, b # t PROVE RowSound(b)'
  <2>1. rows[b] \in Requests /\ rows[b] # r
    BY <1>1, <1>3, <1>7, ElementOfSeq DEF Distinct, r
  <2>2. Due(b)' = Due(b)
    <3>1. b \in Nat /\ b <= L
      BY <1>4
    <3>2. CASE b < t
      <4>1. ~(b >= t) /\ ~(b >= t + 1)
        BY <1>1, <3>1, <3>2
      <4> QED BY <1>2, <4>1 DEF Due, t
    <3>3. CASE b > t
      <4>1. b >= t /\ b >= t + 1 /\ b - (t + 1) + 1 = b - t /\ b - t \in 1..(F - 1)
        BY <1>1, <1>4, <3>1, <3>3, SMTT(30)
      <4>2. fresh'[b - t] = fresh[b - t + 1]
        BY <1>3, <1>4, <4>1
      <4>3. Due(b)' = fresh'[b - t].toks
        BY <1>2, <4>1 DEF Due
      <4>4. Due(b) = fresh[b - t + 1].toks
        BY <4>1 DEF Due, t
      <4> QED BY <4>2, <4>3, <4>4
    <3> QED BY <1>1, <1>7, <3>1, <3>2, <3>3
  <2>3. kept'[rows[b]] = kept[rows[b]]
    BY <1>2, <2>1
  <2>4. RowSound(b)
    BY <1>3 DEF Aligned
  <2> QED BY <1>3, <2>2, <2>3, <2>4 DEF RowSound
<1>8. lane # None => lane.at = Len(kept'[lane.req])
  <2> SUFFICES ASSUME lane # None PROVE lane.at = Len(kept'[lane.req])
    OBVIOUS
  <2>1. lane.req \in Requests /\ lane.req # r
    BY <1>1, <1>3, TypedFacts DEF InLane
  <2> QED BY <1>2, <1>3, <2>1 DEF Aligned
<1>9. \A b \in DOMAIN rows' : RowSound(b)'
  BY <1>3, <1>6, <1>7
<1>10. Len(gen') = Len(rows')
  BY <1>3 DEF Aligned
<1> QED BY <1>3, <1>8, <1>9, <1>10 DEF Aligned

(* A delivery, once the answers are known to be in order: the row stays, or   *)
(* its request is completed and it does not.                                *)
LEMMA HandedKeeps ==
  ASSUME IInv, HandsOver,
         heard' \in [Requests -> Seq(Tokens)], result' \in [Requests -> Seq(Tokens)],
         \A q \in Requests : Told(q)',
         \/ outcome' = outcome /\ staying' = staying \cup {Turn}
         \/ /\ \E how \in Ended : outcome' = Completed({rows[Turn]}, how)
            /\ staying' = staying
  PROVE  IInv'
<1> DEFINE t == Turn
           r == rows[t]
<1>1. /\ t \in DOMAIN rows /\ t \in Nat /\ t \notin staying /\ r \in Requests /\ r \in Here
      /\ r \notin OnEngine /\ r \notin InLane
      /\ r \notin Elements(inbox) /\ r \notin Elements(waiting)
  BY TurnFacts DEF HandsOver
<1>2. /\ kept' \in [Requests -> Seq(Tokens)] /\ kept'[r] # <<>>
      /\ \A q \in Requests : q # r => kept'[q] = kept[q]
      /\ fresh' \in Seq(Yields) /\ Len(fresh') = Len(fresh) - 1 /\ Turn' = t + 1
  BY HandedFacts
<1>3. /\ Typed /\ Control /\ Apart /\ Accounted /\ Sampling /\ SoloSound /\ Arrived
      /\ rows \in Seq(Requests) /\ staying \subseteq DOMAIN rows /\ fresh \in Seq(Yields)
  BY TypedFacts DEF IInv
<1>4. /\ pc = "deliver" /\ pc' = "deliver" /\ fresh # <<>>
      /\ UNCHANGED <<cancelled, putting, inbox, active, queued, pc, waiting, seq, rows>>
      /\ UNCHANGED <<gen, genKey, sampler, lane, budget, moved, solo, dropped>>
  BY DEF HandsOver
<1>5. outcome' \in [Requests -> {"none", "pending"} \cup Ended]
  BY <1>3, CompletedFacts, TypedFacts
<1>6. staying' \subseteq DOMAIN rows /\ staying' \subseteq staying \cup {t}
  BY <1>1, <1>3
<1>7. Typed'
  BY <1>2, <1>3, <1>4, <1>5, <1>6 DEF Typed, TypeOK
<1>8. Len(rows) \in Nat /\ DOMAIN rows = 1..Len(rows) /\ Len(fresh) \in Nat
  BY <1>3, LenProperties
<1>9. InLane' = InLane /\ OnEngine' = OnEngine
  BY <1>4 DEF InLane, OnEngine
<1>10. Apart'
  <2>1. UNCHANGED <<inbox, waiting, rows>>
    BY <1>4
  <2> QED BY <1>3, <1>9, <2>1 DEF Apart
<1>11. Control'
  <2>1. Len(fresh') <= Len(rows')
    BY <1>2, <1>3, <1>4, <1>8 DEF Control
  <2>2. \A b \in staying' : b < Turn'
    <3>1. \A b \in staying : b < t
      BY <1>3 DEF Control
    <3> HIDE DEF t
    <3>2. ASSUME NEW b \in staying' PROVE b < t + 1
      <4>1. b \in Nat /\ (b < t \/ b = t)
        BY <1>3, <1>6, <1>8, <3>1
      <4> QED BY <1>1, <4>1
    <3> QED BY <1>2, <3>2
  <2> QED BY <1>3, <1>4, <2>1, <2>2 DEF Control, Resting
<1>12. Answering' = IF t \in staying' THEN Answering ELSE Answering \ {t}
  <2>1. Answering = {b \in DOMAIN rows : b >= t \/ b \in staying}
    BY <1>4 DEF Answering
  <2>2. Answering' = {b \in DOMAIN rows : b >= t + 1 \/ b \in staying'}
    BY <1>2, <1>4 DEF Answering
  <2> HIDE DEF t
  <2>3. \A b \in DOMAIN rows : b >= t + 1 <=> b >= t /\ b # t
    BY <1>1, <1>8
  <2>4. t >= t
    BY <1>1
  <2>5. staying' = staying \/ staying' = staying \cup {t}
    BY DEF t
  <2>6. CASE staying' = staying
    BY <1>1, <2>1, <2>2, <2>3, <2>6
  <2>7. CASE staying' = staying \cup {t}
    BY <1>1, <2>1, <2>2, <2>3, <2>4, <2>7
  <2> QED BY <2>5, <2>6, <2>7
<1>13. Accounted'
  <2>1. Here' = {rows[b] : b \in Answering'}
    BY <1>4 DEF Here
  <2>2. Answering \subseteq DOMAIN rows /\ Distinct(rows)
    BY <1>3 DEF Answering, Apart
  <2>3. CASE outcome' = outcome /\ staying' = staying \cup {Turn}
    <3>1. Here' = Here
      BY <1>12, <2>1, <2>3 DEF Here
    <3>2. Known' = Known
      BY <1>4, <1>9, <3>1 DEF Known
    <3> QED BY <1>3, <1>4, <2>3, <3>2 DEF Accounted
  <2>4. CASE (\E how \in Ended : outcome' = Completed({rows[Turn]}, how)) /\ staying' = staying
    <3>1. Answering' = Answering \ {t}
      BY <1>1, <1>12, <2>4
    <3>2. Here' = Here \ {r}
      <4> HIDE DEF t
      <4> QED BY <1>1, <2>1, <2>2, <3>1 DEF Here, Distinct
    <3>3. Known' = Known \ {r}
      BY <1>1, <1>4, <1>9, <3>2 DEF Known
    <3>4. Elements(rows') \subseteq Elements(rows) /\ dropped' = dropped
      BY <1>4
    <3>5. PICK how \in Ended : outcome' = Completed({r}, how)
      BY <2>4
    <3> HIDE DEF r
    <3> QED BY <1>3, <3>3, <3>4, <3>5, CompletedAccounted
  <2> QED BY <2>3, <2>4
<1>14. Aligned'
  BY HandedAligned
<1>15. Sampling'
  BY <1>3, <1>4, SamplingFrame
<1>16. SoloSound'
  <2> SUFFICES ASSUME solo # None
               PROVE  /\ solo.got = Following(solo.req, Len(kept'[solo.req]), Len(solo.got))
                      /\ Len(kept'[solo.req]) + Len(solo.got) <= MaxTokens[solo.req]
    BY <1>4 DEF SoloSound
  <2>1. solo.req \in Requests /\ solo.req # r
    BY <1>1, <1>3, TypedFacts DEF OnEngine
  <2>2. kept'[solo.req] = kept[solo.req]
    BY <1>2, <2>1
  <2> QED BY <1>3, <2>2 DEF SoloSound
<1>17. Arrived'
  <2>1. \A q \in Requests : outcome'[q] = "none" => outcome[q] = "none"
    <3>1. \A q \in Requests : outcome'[q] \in Ended \/ outcome'[q] = outcome[q]
      BY <1>3, CompletedFacts
    <3> QED BY <3>1 DEF Ended
  <2>2. \A q \in Requests : kept'[q] = <<>> => kept[q] = <<>>
    BY <1>2
  <2>3. waiting' \in Seq(Requests) /\ Thinned(waiting', waiting)
    <3>1. waiting \in Seq(Requests)
      BY <1>3, TypedFacts
    <3> QED BY <1>4, <3>1 DEF Thinned
  <2> QED BY <1>3, <1>4, <2>1, <2>2, <2>3, ArrivedThinned
<1> QED BY <1>7, <1>10, <1>11, <1>13, <1>14, <1>15, <1>16, <1>17 DEF IInv

(* While its row is in the batch, a request has said what its admission kept. *)
LEMMA SaidInBatch ==
  ASSUME NEW q \in Requests, q \notin OnEngine
  PROVE  Said(q) = Len(kept[q]) + 0
  BY DEF Said, OnEngine

LEMMA DeliverRaisesKeeps == ASSUME IInv, DeliverRaises PROVE IInv'
<1> DEFINE r == rows[Turn]
           how == IF r \in cancelled THEN "cancelled" ELSE "error"
<1>1. HandsOver
  BY DEF DeliverRaises, HandsOver, intake, batch, step, others
<1>2. outcome' = Completed({r}, how) /\ UNCHANGED <<heard, result, staying, solo>>
  BY DEF DeliverRaises, others
<1>3. how \in Ended /\ how # "done"
  BY DEF Ended
<1>4. /\ r \in Requests /\ outcome[r] = "pending" /\ r \notin OnEngine
      /\ Len(kept[r]) \in Nat /\ Len(Head(fresh).toks) \in Nat
  BY <1>1, TurnFacts DEF HandsOver
<1>5. /\ Typed /\ heard \in [Requests -> Seq(Tokens)] /\ result \in [Requests -> Seq(Tokens)]
      /\ \A q \in Requests : Told(q)
  BY TypedFacts DEF IInv
<1> DEFINE m == Len(kept[r]) + Len(Head(fresh).toks)
<1>6. /\ Piece(kept'[r], r, 0, m) /\ m <= MaxTokens[r]
      /\ \A q \in Requests : q # r => kept'[q] = kept[q]
  BY <1>1, HandedFacts
<1> HIDE DEF r, how, m
<1>7. \A q \in Requests : outcome'[q] = IF q = r THEN how ELSE outcome[q]
  BY <1>2, <1>3, <1>4, <1>5, CompletedFacts
<1>8. ASSUME NEW q \in Requests PROVE Told(q)'
  <2>1. Told(q)
    BY <1>5
  <2>2. CASE q = r
    <3>1. outcome'[q] \in Ended /\ outcome'[q] # "done"
      BY <1>3, <1>7, <2>2
    <3>2. kept'[q] = Following(q, 0, Len(kept'[q])) /\ Len(kept'[q]) <= MaxTokens[q]
      BY <1>6, <2>2 DEF Piece
    <3> QED BY <1>2, <2>1, <3>1, <3>2 DEF Told
  <2>3. CASE q # r
    <3>1. kept'[q] = kept[q] /\ outcome'[q] = outcome[q]
      BY <1>6, <1>7, <2>3
    <3>2. Said(q)' = Said(q)
      BY <1>2, <3>1 DEF Said
    <3> QED BY <1>2, <2>1, <3>1, <3>2 DEF Told
  <2> QED BY <2>2, <2>3
<1> QED BY <1>1, <1>2, <1>3, <1>5, <1>8, HandedKeeps DEF r

LEMMA DeliverKeeps == ASSUME IInv, Deliver PROVE IInv'
<1> DEFINE r    == rows[Turn]
           toks == Head(fresh).toks
           k    == Len(kept[r])
           n    == Len(toks)
           full == k + n >= MaxTokens[r] \/ (toks # <<>> /\ Head(fresh).eos)
           dead == r \in cancelled
<1>1. HandsOver
  BY DEF Deliver, HandsOver, intake, batch, step, others
<1>2. /\ r \in Streaming \cap cancelled => toks = <<>>
      /\ heard' = [heard EXCEPT ![r] = IF r \in Streaming THEN heard[r] \o toks ELSE heard[r]]
      /\ IF dead \/ full
           THEN /\ outcome' = Completed({r}, IF dead THEN "cancelled" ELSE "done")
                /\ result' = IF dead THEN result ELSE [result EXCEPT ![r] = kept'[r]]
                /\ staying' = staying
           ELSE staying' = staying \cup {Turn} /\ UNCHANGED <<outcome, result>>
      /\ UNCHANGED <<solo, cancelled>>
  BY DEF Deliver, others
<1>3. /\ r \in Requests /\ outcome[r] = "pending" /\ r \notin OnEngine
      /\ k \in Nat /\ n \in Nat /\ Piece(toks, r, k, n) /\ kept[r] \in Seq(Tokens)
  BY <1>1, TurnFacts DEF HandsOver
<1>4. /\ Typed /\ heard \in [Requests -> Seq(Tokens)] /\ result \in [Requests -> Seq(Tokens)]
      /\ \A q \in Requests : Told(q)
      /\ cancelled \subseteq Streaming /\ MaxTokens[r] \in Nat
  BY <1>3, TypedFacts, SpecConstants DEF IInv
<1>5. /\ Piece(kept'[r], r, 0, k + n) /\ k + n <= MaxTokens[r] /\ k + n >= 1
      /\ kept' \in [Requests -> Seq(Tokens)] /\ kept'[r] # <<>>
      /\ \A q \in Requests : q # r => kept'[q] = kept[q]
  BY <1>1, HandedFacts
<1>6. Said(r) = k
  BY <1>3, SaidInBatch
<1>7. r \in Streaming => Piece(heard[r], r, 0, k)
  <2>1. Told(r) /\ outcome[r] \notin Ended
    BY <1>3, <1>4 DEF Ended
  <2>2. r \in Streaming => Len(heard[r]) = k
    BY <1>6, <2>1 DEF Told
  <2> QED BY <1>3, <1>4, <2>1, <2>2 DEF Told, Piece
<1> DEFINE hr == IF r \in Streaming THEN heard[r] \o toks ELSE heard[r]
<1>8. hr \in Seq(Tokens) /\ (r \in Streaming => Piece(hr, r, 0, k + n))
  <2>1. CASE r \in Streaming
    <3>1. Piece(heard[r], r, 0, k) /\ Piece(toks, r, k, n)
      BY <1>3, <1>7, <2>1
    <3> HIDE DEF r, toks, k, n
    <3>2. k = 0 + k
      BY <1>3
    <3>3. Piece(heard[r] \o toks, r, 0, k + n)
      BY <3>1, <3>2, PiecesJoin
    <3>4. Piece(hr, r, 0, k + n)
      BY <2>1, <3>3
    <3> HIDE DEF hr
    <3> QED BY <3>4 DEF Piece
  <2>2. CASE r \notin Streaming
    BY <1>3, <1>4, <2>2
  <2> QED BY <2>1, <2>2
<1>9. heard' = [heard EXCEPT ![r] = hr]
  BY <1>2
<1> HIDE DEF r, toks, k, n, hr
<1>10. /\ heard' \in [Requests -> Seq(Tokens)] /\ heard'[r] = hr
       /\ \A q \in Requests : q # r => heard'[q] = heard[q]
  BY <1>3, <1>4, <1>8, <1>9
<1>11. Len(hr) <= MaxTokens[r] /\ hr = Following(r, 0, Len(hr))
  <2>1. CASE r \in Streaming
    BY <1>5, <1>8, <2>1 DEF Piece
  <2>2. CASE r \notin Streaming
    BY <1>3, <1>4, <2>2 DEF hr, Told
  <2> QED BY <2>1, <2>2
<1>12. Len(kept'[r]) = k + n /\ kept'[r] = Following(r, 0, Len(kept'[r]))
  BY <1>5 DEF Piece
<1>13. r \in Streaming => hr = kept'[r] /\ Len(hr) = k + n
  BY <1>5, <1>8 DEF Piece
<1>14. CASE ~(dead \/ full)
  <2>1. staying' = staying \cup {Turn} /\ outcome' = outcome /\ result' = result
    BY <1>2, <1>14
  <2>2. k + n < MaxTokens[r]
    BY <1>3, <1>4, <1>14
  <2>3. ASSUME NEW q \in Requests PROVE Told(q)'
    <3>1. Told(q)
      BY <1>4
    <3>2. CASE q = r
      <4>1. Said(q)' = k + n
        <5>1. solo' = solo /\ q \notin OnEngine
          BY <1>2, <1>3, <3>2
        <5>2. Said(q)' = Len(kept'[q]) + 0
          BY <5>1 DEF Said, OnEngine
        <5>3. k + n + 0 = k + n
          BY <1>3
        <5> QED BY <1>12, <3>2, <5>2, <5>3
      <4>2. heard'[q] = hr /\ (q \in Streaming => Len(heard'[q]) = k + n)
        BY <1>10, <1>13, <3>2
      <4>3. Len(kept'[q]) < MaxTokens[q] /\ Len(kept'[q]) <= MaxTokens[q]
        BY <1>5, <1>12, <2>2, <3>2
      <4>4. outcome[q] # "done"
        BY <1>3, <3>2
      <4> QED BY <1>11, <1>12, <2>1, <3>2, <4>1, <4>2, <4>3, <4>4 DEF Told
    <3>3. CASE q # r
      <4>1. kept'[q] = kept[q] /\ heard'[q] = heard[q]
        BY <1>5, <1>10, <3>3
      <4>2. Said(q)' = Said(q)
        BY <1>2, <4>1 DEF Said
      <4> QED BY <2>1, <3>1, <4>1, <4>2 DEF Told
    <3> QED BY <3>2, <3>3
  <2>4. result' \in [Requests -> Seq(Tokens)]
    BY <1>4, <2>1
  <2> QED BY <1>1, <1>10, <2>1, <2>3, <2>4, HandedKeeps
<1>15. CASE dead \/ full
  <2> DEFINE how == IF dead THEN "cancelled" ELSE "done"
  <2>1. /\ outcome' = Completed({r}, how) /\ staying' = staying
        /\ result' = IF dead THEN result ELSE [result EXCEPT ![r] = kept'[r]]
    BY <1>2, <1>15
  <2>2. how \in Ended
    BY DEF Ended
  <2>3. \A q \in Requests : outcome'[q] = IF q = r THEN how ELSE outcome[q]
    <3> HIDE DEF how
    <3> QED BY <1>3, <1>4, <2>1, <2>2, CompletedFacts
  <2>4. /\ result' \in [Requests -> Seq(Tokens)]
        /\ \A q \in Requests : q # r => result'[q] = result[q]
        /\ ~dead => result'[r] = kept'[r]
    <3>1. kept'[r] \in Seq(Tokens)
      BY <1>3, <1>5
    <3> QED BY <1>3, <1>4, <2>1, <3>1
  <2>5. ASSUME NEW q \in Requests PROVE Told(q)'
    <3>1. Told(q)
      BY <1>4
    <3>2. CASE q = r
      <4>1. outcome'[q] \in Ended /\ (outcome'[q] = "done" => ~dead)
        BY <2>2, <2>3, <3>2
      <4>2. /\ heard'[q] = Following(q, 0, Len(heard'[q])) /\ Len(heard'[q]) <= MaxTokens[q]
            /\ kept'[q] = Following(q, 0, Len(kept'[q])) /\ Len(kept'[q]) <= MaxTokens[q]
        BY <1>5, <1>10, <1>11, <1>12, <3>2
      <4>3. ~dead => /\ result'[q] # <<>> /\ result'[q] = Following(q, 0, Len(result'[q]))
                     /\ q \in Streaming => result'[q] = heard'[q]
        BY <1>5, <1>10, <1>12, <1>13, <2>4, <3>2
      <4> QED BY <4>1, <4>2, <4>3 DEF Told
    <3>3. CASE q # r
      <4>1. kept'[q] = kept[q] /\ heard'[q] = heard[q] /\ result'[q] = result[q]
            /\ outcome'[q] = outcome[q]
        BY <1>5, <1>10, <2>3, <2>4, <3>3
      <4>2. Said(q)' = Said(q)
        BY <1>2, <4>1 DEF Said
      <4> QED BY <3>1, <4>1, <4>2 DEF Told
    <3> QED BY <3>2, <3>3
  <2> QED BY <1>1, <1>10, <2>1, <2>2, <2>4, <2>5, HandedKeeps DEF r
<1> QED BY <1>14, <1>15

(***************************************************************************)
(* The invariant                                                           *)
(***************************************************************************)
LEMMA InitHolds == Init => IInv
<1> SUFFICES ASSUME Init PROVE IInv
  OBVIOUS
<1>1. /\ outcome = [r \in Requests |-> "none"] /\ cancelled = {} /\ putting = {}
      /\ kept = [r \in Requests |-> <<>>] /\ heard = kept /\ result = kept
      /\ inbox = <<>> /\ active = FALSE /\ queued = 0 /\ pc = "off" /\ waiting = <<>>
      /\ seq = [r \in Requests |-> 0] /\ rows = <<>> /\ gen = <<>> /\ lane = None
      /\ budget = 0 /\ moved = FALSE /\ fresh = <<>> /\ staying = {} /\ solo = None
      /\ dropped = {}
  BY DEF Init
<1>2. /\ \A S : <<>> \in Seq(S)
      /\ Len(<<>>) = 0 /\ DOMAIN <<>> = {} /\ Elements(<<>>) = {} /\ Distinct(<<>>)
  BY EmptyList DEF Elements, Distinct
<1>3. ASSUME NEW r \in Requests
      PROVE  kept[r] = <<>> /\ heard[r] = <<>> /\ outcome[r] = "none" /\ seq[r] = 0
             /\ <<>> = Following(r, 0, 0) /\ MaxTokens[r] \in Nat \ {0}
  BY <1>1, FollowingNone, SpecConstants
<1>4. Typed
  <2>1. /\ kept \in [Requests -> Seq(Tokens)] /\ heard = kept /\ result = kept
        /\ outcome \in [Requests -> {"none", "pending"} \cup Ended]
        /\ seq \in [Requests -> Nat]
    <3>1. <<>> \in Seq(Tokens)
      BY EmptyList
    <3> QED BY <1>1, <3>1
  <2>2. inbox \in Seq(Requests) /\ waiting \in Seq(Requests) /\ rows \in Seq(Requests)
    BY <1>1, EmptyList
  <2>3. gen \in Seq([of : Requests, at : Nat]) /\ fresh \in Seq(Yields)
    BY <1>1, EmptyList
  <2>4. queued \in 0..1 /\ budget \in Int
    BY <1>1
  <2> QED BY <1>1, <2>1, <2>2, <2>3, <2>4 DEF Typed, TypeOK
<1>5. Control
  BY <1>1, <1>2 DEF Control, Resting
<1>6. Apart
  BY <1>1, <1>2 DEF Apart, InLane, OnEngine
<1>7. Accounted
  <2>1. Known = {}
    BY <1>1, <1>2 DEF Known, Here, Answering, InLane, OnEngine
  <2> QED BY <1>1, <1>2, <2>1 DEF Accounted
<1>8. Aligned
  BY <1>1, <1>2 DEF Aligned
<1>9. ASSUME NEW r \in Requests PROVE Told(r)
  <2>1. Said(r) = 0
    BY <1>1, <1>2, <1>3 DEF Said
  <2>2. 0 <= MaxTokens[r] /\ 0 < MaxTokens[r]
    BY <1>3
  <2>3. outcome[r] # "done"
    BY <1>3
  <2> QED BY <1>2, <1>3, <2>1, <2>2, <2>3 DEF Told
<1>10. SoloSound
  BY <1>1 DEF SoloSound
<1>11. Sampling
  <2>1. 0 + 0 <= MaxBatch
    BY SpecConstants
  <2> QED BY <1>1, <1>2, <2>1 DEF Sampling
<1>12. Arrived
  <2>1. {r \in Requests : seq[r] > 0} = {}
    BY <1>3
  <2>2. IsFiniteSet({r \in Requests : seq[r] > 0}) /\ Drained = 0
    BY <2>1, FS_EmptySet DEF Drained
  <2> QED BY <1>1, <1>2, <1>3, <2>2 DEF Arrived
<1> QED BY <1>4, <1>5, <1>6, <1>7, <1>8, <1>9, <1>10, <1>11, <1>12 DEF IInv

LEMMA NextKeeps == ASSUME IInv, [Next]_vars PROVE IInv'
<1>1. CASE Drive
  BY <1>1, StartKeeps, TakeKeeps, OnwardKeeps, LookKeeps, PreemptKeeps, RoundKeeps,
     DeliverRaisesKeeps, DeliverKeeps, SettleKeeps, LaneNextKeeps, HeadDeadKeeps,
     AdmitKeeps, AdvanceKeeps, JoinKeeps, AloneKeeps, SoloTokenKeeps, SoloEndsKeeps,
     SoloRaisesKeeps, JoinRaisesKeeps, FailKeeps
  DEF Drive, Onward
<1>2. ASSUME NEW r \in Requests, Put(r) \/ Kick(r) \/ Cancel(r) PROVE IInv'
  BY <1>2, PutKeeps, KickKeeps, CancelKeeps
<1>3. CASE UNCHANGED vars
  <2>1. /\ Quiet /\ UNCHANGED <<cancelled, putting, active, queued, moved, budget, pc>>
    BY <1>3 DEF vars, Quiet, requests, answers, intake, batch, step, round, others
  <2>2. Typed'
    BY <2>1 DEF IInv, Typed, TypeOK, Quiet, answers, batch, round, others
  <2>3. Control'
    BY <2>1 DEF IInv, Control, Turn, Quiet, batch, round, others
  <2> QED BY <2>1, <2>2, <2>3, QuietKeeps
<1> QED BY <1>1, <1>2, <1>3 DEF Next

LEMMA InvariantHolds == Spec => []IInv
  BY InitHolds, NextKeeps, PTL DEF Spec

(***************************************************************************)
(* What it shows                                                           *)
(***************************************************************************)
(* How often a list without repetitions holds r. *)
LEMMA CountFacts ==
  ASSUME NEW s, Distinct(s), NEW r
  PROVE  Count(r, s) = IF r \in Elements(s) THEN 1 ELSE 0
<1>1. CASE r \in Elements(s)
  <2>1. PICK k \in DOMAIN s : s[k] = r
    BY <1>1 DEF Elements
  <2>2. {i \in DOMAIN s : s[i] = r} = {k}
    BY <2>1 DEF Distinct
  <2> QED BY <1>1, <2>2, FS_Singleton DEF Count
<1>2. CASE r \notin Elements(s)
  <2>1. {i \in DOMAIN s : s[i] = r} = {}
    BY <1>2 DEF Elements
  <2> QED BY <1>2, <2>1, FS_EmptySet DEF Count
<1> QED BY <1>1, <1>2

LEMMA PlacesFacts ==
  ASSUME IInv, NEW r \in Requests
  PROVE  Places(r) = IF r \in Known THEN 1 ELSE 0
<1> DEFINE still == IF pc = "deliver"
                      THEN Selection(rows, {i \in DOMAIN rows : i >= Turn \/ i \in staying})
                      ELSE rows
           a == Count(r, inbox)
           b == Count(r, waiting)
           c == Count(r, still)
           d == IF lane # None /\ lane.req = r THEN 1 ELSE 0
           e == IF solo # None /\ solo.req = r THEN 1 ELSE 0
<1>1. Typed /\ Apart /\ rows \in Seq(Requests) /\ Distinct(rows)
  BY TypedFacts DEF IInv, Apart
<1>2. Elements(still) = Here /\ Distinct(still)
  <2>1. CASE pc = "deliver"
    <3>1. still = Selection(rows, Answering) /\ Answering \in SUBSET DOMAIN rows
      BY <2>1 DEF Answering
    <3> HIDE DEF still
    <3> QED BY <1>1, <3>1, SelectionFacts, SelectionElements DEF Here
  <2>2. CASE pc # "deliver"
    BY <1>1, <2>2 DEF Here, Answering, Elements
  <2> QED BY <2>1, <2>2
<1>3. Here \subseteq Elements(rows)
  BY <1>1, KnownType
<1>4. Places(r) = a + b + c + d + e
  BY DEF Places
<1> HIDE DEF still
<1>5. /\ a = IF r \in Elements(inbox) THEN 1 ELSE 0
      /\ b = IF r \in Elements(waiting) THEN 1 ELSE 0
      /\ c = IF r \in Here THEN 1 ELSE 0
  BY <1>1, <1>2, CountFacts DEF Apart
<1>6. /\ d = IF r \in InLane THEN 1 ELSE 0
      /\ e = IF r \in OnEngine THEN 1 ELSE 0
  BY DEF InLane, OnEngine
<1> HIDE DEF a, b, c, d, e
<1>7. /\ r \in Elements(inbox) =>
           r \notin Elements(waiting) /\ r \notin Here /\ r \notin InLane /\ r \notin OnEngine
      /\ r \in Elements(waiting) => r \notin Here /\ r \notin InLane /\ r \notin OnEngine
      /\ r \in Here => r \notin InLane /\ r \notin OnEngine
      /\ r \in InLane => r \notin OnEngine
  BY <1>1, <1>3 DEF Apart
<1>8. r \in Known <=> \/ r \in Elements(inbox) \/ r \in Elements(waiting) \/ r \in Here
                      \/ r \in InLane \/ r \in OnEngine
  BY DEF Known
<1>9. CASE r \notin Known
  <2>1. a = 0 /\ b = 0 /\ c = 0 /\ d = 0 /\ e = 0
    BY <1>5, <1>6, <1>8, <1>9
  <2> QED BY <1>4, <1>9, <2>1
<1>10. CASE r \in Elements(inbox)
  <2>1. a = 1 /\ b = 0 /\ c = 0 /\ d = 0 /\ e = 0
    BY <1>5, <1>6, <1>7, <1>10
  <2> QED BY <1>4, <1>8, <1>10, <2>1
<1>11. CASE r \in Elements(waiting)
  <2>1. a = 0 /\ b = 1 /\ c = 0 /\ d = 0 /\ e = 0
    BY <1>5, <1>6, <1>7, <1>11
  <2> QED BY <1>4, <1>8, <1>11, <2>1
<1>12. CASE r \in Here
  <2>1. a = 0 /\ b = 0 /\ c = 1 /\ d = 0 /\ e = 0
    BY <1>5, <1>6, <1>7, <1>12
  <2> QED BY <1>4, <1>8, <1>12, <2>1
<1>13. CASE r \in InLane
  <2>1. a = 0 /\ b = 0 /\ c = 0 /\ d = 1 /\ e = 0
    BY <1>5, <1>6, <1>7, <1>13
  <2> QED BY <1>4, <1>8, <1>13, <2>1
<1>14. CASE r \in OnEngine
  <2>1. a = 0 /\ b = 0 /\ c = 0 /\ d = 0 /\ e = 1
    BY <1>5, <1>6, <1>7, <1>14
  <2> QED BY <1>4, <1>8, <1>14, <2>1
<1> QED BY <1>8, <1>9, <1>10, <1>11, <1>12, <1>13, <1>14

(* Through preemption, resumption, joins and the serial fallback no request  *)
(* is lost and none is in two places: but for a row that a failing join       *)
(* dropped, it is pending exactly while one place of the scheduler has it.   *)
THEOREM OnePlaceHolds == Spec => []OnePlace
<1>1. IInv => OnePlace
  <2> SUFFICES ASSUME IInv PROVE OnePlace
    OBVIOUS
  <2>1. TypeOK
    BY DEF IInv, Typed
  <2>2. ASSUME NEW r \in Requests \ dropped
        PROVE  Places(r) = IF outcome[r] = "pending" THEN 1 ELSE 0
    <3>1. outcome[r] = "pending" <=> r \in Known
      BY DEF IInv, Accounted
    <3> QED BY <3>1, PlacesFacts
  <2> QED BY <2>1, <2>2 DEF OnePlace
<1> QED BY <1>1, InvariantHolds, PTL

(* However often a request is preempted, resumed and moved to the serial      *)
(* engine, its answer has every token once, in order and of no other request, *)
(* within its limit; and the result is what its stream has heard.            *)
THEOREM AnswersWholeHolds == Spec => []AnswersWhole
<1>1. IInv => AnswersWhole
  BY DEF IInv, Told, AnswersWhole
<1> QED BY <1>1, InvariantHolds, PTL

(* Row by row the generator holds the history of the admission at that place, *)
(* exactly as far as that admission was given it.                           *)
THEOREM RowsAlignedHolds == Spec => []RowsAligned
<1>1. IInv => RowsAligned
  <2> SUFFICES ASSUME IInv, pc # "deliver"
               PROVE  /\ Len(gen) = Len(rows)
                      /\ \A b \in DOMAIN rows :
                           gen[b] = [of |-> rows[b], at |-> Len(kept[rows[b]])]
    BY DEF RowsAligned
  <2> QED BY RowOpen DEF IInv, Aligned
<1> QED BY <1>1, InvariantHolds, PTL

(* The rows of a batch and the row that will join it share one sampler and no *)
(* seed, and the room for the joining row is reserved.                       *)
THEOREM JoinSoundHolds == Spec => []JoinSound
<1>1. IInv => JoinSound
  BY DEF IInv, Sampling, JoinSound
<1> QED BY <1>1, InvariantHolds, PTL

(* Whoever leaves the waiting list without ending was its head. *)
LEMMA BeginnerLeads ==
  ASSUME IInv, Next, NEW r \in Requests, Begins(r)
  PROVE  /\ waiting # <<>> /\ r = Head(waiting) /\ seq' = seq
         /\ Elements(waiting') = Elements(waiting) \ {r}
<1>1. r \in Elements(waiting) /\ r \notin Elements(waiting') /\ outcome'[r] = "pending"
  BY DEF Begins, ToSet, Elements
<1>2. /\ Typed /\ Apart /\ Accounted /\ Control
      /\ waiting \in Seq(Requests) /\ inbox \in Seq(Requests) /\ rows \in Seq(Requests)
  BY TypedFacts DEF IInv
<1>3. outcome[r] = "pending" /\ waiting' # waiting
  BY <1>1, <1>2 DEF Accounted, Known
<1>4. ASSUME NEW S, NEW how \in Ended, outcome' = Completed(S, how) PROVE r \notin S
  BY <1>1, <1>2, <1>3, <1>4, CompletedFacts DEF Ended
<1>5. /\ ~Start /\ ~Take
  <2>1. ~Start
    BY <1>2, <1>3 DEF Start, Control, Resting
  <2>2. ~Take
    <3> SUFFICES ASSUME Take PROVE FALSE
      OBVIOUS
    <3>1. waiting' = Append(waiting, Head(inbox)) /\ Head(inbox) \in Requests
      BY <1>2, ListParts DEF Take
    <3>2. Elements(waiting') = Elements(waiting) \cup {Head(inbox)}
      BY <1>2, <3>1, AppendFacts
    <3> QED BY <1>1, <3>2
  <2> QED BY <2>1, <2>2
<1>6. ~Look /\ ~HeadDead /\ ~Fail
  <2>1. ~Look
    <3> SUFFICES ASSUME Look PROVE FALSE
      OBVIOUS
    <3>1. /\ waiting' = Among(waiting, Requests \ cancelled)
          /\ outcome' = Completed(cancelled \cap ToSet(waiting), "cancelled")
      BY DEF Look
    <3>2. r \in cancelled
      BY <1>1, <1>2, <3>1, AmongFacts
    <3>3. r \in cancelled \cap ToSet(waiting) /\ "cancelled" \in Ended
      BY <1>1, <3>2 DEF ToSet, Elements, Ended
    <3> QED BY <1>4, <3>1, <3>3
  <2>2. ~HeadDead
    <3> SUFFICES ASSUME HeadDead PROVE FALSE
      OBVIOUS
    <3>1. /\ waiting # <<>> /\ waiting' = Tail(waiting)
          /\ outcome' = Completed({Head(waiting)}, "cancelled")
      BY DEF HeadDead
    <3>2. r = Head(waiting) /\ "cancelled" \in Ended
      BY <1>1, <1>2, <3>1, HeadLeaves DEF Ended
    <3> QED BY <1>4, <3>1, <3>2
  <2>3. ~Fail
    <3> SUFFICES ASSUME Fail PROVE FALSE
      OBVIOUS
    <3>1. outcome' = Completed(Live, "error") /\ "error" \in Ended
      BY DEF Fail, Ended
    <3>2. r \in Live
      BY <1>1 DEF Live, ToSet, Elements
    <3> QED BY <1>4, <3>1, <3>2
  <2> QED BY <2>1, <2>2, <2>3
<1>7. \A b \in DOMAIN rows : ~Preempt(b)
  <2> SUFFICES ASSUME NEW b \in DOMAIN rows, Preempt(b) PROVE FALSE
    OBVIOUS
  <2>1. waiting' = <<rows[b]>> \o waiting /\ rows[b] \in Requests
    BY <1>2, RowType DEF Preempt, Resumed
  <2>2. Elements(waiting') = Elements(waiting) \cup {rows[b]}
    BY <1>2, <2>1, FrontFacts
  <2> QED BY <1>1, <2>2
<1>8. Alone \/ \E k \in DOMAIN waiting : Admit(k)
  <2>1. CASE \/ TakenAll \/ CompanyOver \/ BeginStep \/ Round \/ NoRound
             \/ DeliverRaises \/ Deliver \/ Settle \/ LaneOver \/ LaneNext
             \/ NoAdmit \/ Advance \/ Join \/ EndStep
             \/ SoloToken \/ SoloEnds \/ SoloRaises
             \/ RoundRaises \/ PrefillRaises \/ JoinRaises
             \/ Close \/ Recheck \/ Restart
             \/ \E q \in Requests : Put(q) \/ Kick(q) \/ Cancel(q)
    BY <1>3, <2>1
    DEF TakenAll, CompanyOver, BeginStep, Round, NoRound, DeliverRaises, Deliver, Settle,
        LaneOver, LaneNext, NoAdmit, Advance, Join, EndStep, SoloToken, SoloEnds,
        SoloRaises, RoundRaises, PrefillRaises, JoinRaises, Close, Recheck, Restart,
        Put, Kick, Cancel
  <2> QED BY <1>5, <1>6, <1>7, <2>1 DEF Next, Drive
<1>9. CASE Alone
  <2>1. waiting' = Tail(waiting) /\ seq' = seq /\ waiting # <<>>
    BY <1>2, <1>9 DEF Alone, Control
  <2> QED BY <1>1, <1>2, <2>1, HeadLeaves
<1>10. ASSUME NEW k \in DOMAIN waiting, Admit(k)
       PROVE  /\ waiting # <<>> /\ r = Head(waiting) /\ seq' = seq
              /\ Elements(waiting') = Elements(waiting) \ {r}
  <2>1. k = 1 /\ waiting' = Selection(waiting, DOMAIN waiting \ {k}) /\ seq' = seq
    BY <1>10 DEF Admit, MayAdmit
  <2>2. waiting # <<>>
    BY <1>10, EmptyList
  <2>3. Head(waiting) = waiting[k]
    BY <1>2, <2>1, <2>2, ListParts
  <2>4. Elements(waiting') = Elements(waiting) \ {waiting[k]}
    BY <1>2, <2>1, OthersFacts DEF Apart
  <2> QED BY <1>1, <2>1, <2>2, <2>3, <2>4
<1> QED BY <1>8, <1>9, <1>10

(* Among the requests that have not run, the one that gets to run arrived     *)
(* first: no step starts another before it, however long it has waited.      *)
THEOREM ArrivalOrderHolds == Spec => ArrivalOrder
<1> DEFINE InTurn == \A r \in Requests : Begins(r) =>
                       \A q \in ToSet(waiting') : seq[q] > seq[r]
<1>1. ASSUME IInv, Next PROVE InTurn
  <2> SUFFICES ASSUME NEW r \in Requests, Begins(r), NEW q \in ToSet(waiting')
               PROVE  seq[q] > seq[r]
    OBVIOUS
  <2>1. /\ waiting # <<>> /\ r = Head(waiting) /\ q \in Elements(waiting) /\ q # r
    BY <1>1, BeginnerLeads DEF ToSet, Elements
  <2>2. waiting \in Seq(Requests) /\ Arrived /\ seq \in [Requests -> Nat]
    BY <1>1, TypedFacts DEF IInv
  <2>3. kept[r] = <<>> /\ r = waiting[1] /\ 1 \in DOMAIN waiting
    BY <2>1, <2>2, ListParts DEF Begins
  <2>4. PICK j \in DOMAIN waiting : waiting[j] = q
    BY <2>1 DEF Elements
  <2>5. 1 < j
    <3>1. j \in Nat \ {0} /\ j # 1
      BY <2>1, <2>2, <2>3, <2>4, LenProperties
    <3> QED BY <3>1
  <2>6. seq[r] < seq[q]
    BY <2>2, <2>3, <2>4, <2>5 DEF Arrived
  <2>7. r \in Requests /\ q \in Requests
    BY <2>2, <2>4, ElementOfSeq
  <2> QED BY <2>2, <2>6, <2>7
<1>2. ASSUME UNCHANGED vars PROVE InTurn
  BY <1>2 DEF vars, Begins
<1>3. IInv /\ [Next]_vars => [InTurn]_vars
  BY <1>1, <1>2
<1> QED BY <1>3, InvariantHolds, PTL DEF Spec, ArrivalOrder
===============================================================================
