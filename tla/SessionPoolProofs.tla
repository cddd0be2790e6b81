-------------------------- MODULE SessionPoolProofs ---------------------------
(***************************************************************************)
(* Proofs about SessionPool: the pool keeps its limit and every session has *)
(* one owner, and every cache, published, claimed or generated on, has      *)
(* absorbed exactly the tokens its session or its request says.             *)
(*                                                                         *)
(* The data part of the inductive invariant says of the layers that always  *)
(* trim what CacheIsHistory wants, for every model; of the others it says so *)
(* for recurrent ones, and only how much they have absorbed for rotating     *)
(* ones, which is all that holds there (the run SessionRotating).            *)
(***************************************************************************)
EXTENDS SessionPool, ListFacts

(***************************************************************************)
(* The inductive invariant                                                 *)
(***************************************************************************)
TokensOf(m) == UNION {ToSet(p) : p \in Prompts[m] \cup Answers[m]}
HistoriesOf(m) == Seq(TokensOf(m))
CheckpointOf(m) == [pos : Nat, deep : BOOLEAN, snap : HistoriesOf(m)]
CheckpointsOf(m) == Seq(CheckpointOf(m))
SessionsOf(m) ==
  [has : BOOLEAN, processed : HistoriesOf(m), kv : HistoriesOf(m), oth : HistoriesOf(m),
   cps : CheckpointsOf(m), tail : [pos : Nat, hist : HistoriesOf(m)]]
OwnersOf(m) ==
  [st : States, slot : Slots \cup {0}, prompt : HistoriesOf(m), reused : Nat,
   kv : HistoriesOf(m), oth : HistoriesOf(m), cps : CheckpointsOf(m)]

(* What the layers beside kv have absorbed. *)
Follows(m, oth, hist) ==
  /\ m.other # "none" => Len(oth) = Len(hist)
  /\ m.other = "recurrent" => oth = hist

(* A snapshot is as long as its position says, and of this history. *)
Lasting(m, cp, hist) ==
  cp.deep => /\ m.other # "none"
             /\ Len(cp.snap) = cp.pos
             /\ m.other = "recurrent" => /\ cp.pos <= Len(hist)
                                         /\ cp.snap = First(hist, cp.pos)

SnapsSound(m, cps, hist) == \A i \in DOMAIN cps : Lasting(m, cps[i], hist)

TailSound(x) ==
  x.tail.pos <= Len(x.processed) /\ x.tail.hist = First(x.processed, x.tail.pos)

SessionSound(m, x) ==
  /\ x \in SessionsOf(m)
  /\ x.processed = <<>> => ~x.has
  /\ ~x.has => x = Invalid
  /\ x.kv = x.processed
  /\ Follows(m, x.oth, x.processed)
  /\ SnapsSound(m, x.cps, x.processed)
  /\ TailSound(x)

(* A request holds no cache before it generates. *)
Empty(r) == r.kv = <<>> /\ r.oth = <<>> /\ r.cps = <<>>

RequestSound(m, r) ==
  /\ r \in OwnersOf(m)
  /\ r.st = "idle" => r = Idle
  /\ r.st = "locked" => r.slot = 0
  /\ r.st \notin {"idle", "locked"} => r.slot \in Slots
  /\ r.st \in {"locked", "selected", "claimed"} => Empty(r)
  /\ r.st \in {"locked", "selected"} => r.reused = 0
  /\ r.st # "idle" => r.prompt \in Prompts[m]
  /\ r.reused <= Len(r.prompt)
  /\ r.st = "running" => /\ r.kv = First(r.prompt, r.reused)
                         /\ Follows(m, r.oth, First(r.prompt, r.reused))
                         /\ SnapsSound(m, r.cps, First(r.prompt, r.reused))

(* A prompt that a selected session covers whole ends where its tail does. *)
SelectedSound(x, r) ==
  r.st = "selected" /\ x.has /\ Len(x.processed) = Len(r.prompt)
    => x.tail.pos = Len(r.prompt)

Typed ==
  /\ model \in Models /\ pool \in Seq(Slots) /\ claimed \subseteq Slots
  /\ DOMAIN sess = Slots /\ sess = [s \in Slots |-> sess[s]]
  /\ DOMAIN batch = Batch /\ batch = [b \in Batch |-> batch[b]]

SessionsSound == \A s \in Slots : SessionSound(model, sess[s])
BatchSound == \A b \in Batch : RequestSound(model, batch[b])
SerialSound ==
  /\ RequestSound(model, serial)
  /\ serial.st = "selected" => SelectedSound(sess[serial.slot], serial)

(* A cancelled request's selection waits only while no other request is      *)
(* past its own.                                                            *)
Control ==
  /\ serial.st \in {"idle", "locked", "selected", "running"}
  /\ \A b \in Batch : batch[b].st \in {"idle", "claimed", "running", "over"}
  /\ orphan # <<>> => serial.st \in {"idle", "locked"} /\ orphan \in Prompts[model]

PoolBounded == Distinct(pool) /\ Len(pool) <= MaxSessions

(* Whose a session is, by slot: Exclusive, in a form that is easier to use. *)
Owning ==
  /\ \A b \in Batch : batch[b].slot # 0 =>
       /\ batch[b].slot \in claimed /\ batch[b].slot # serial.slot
       /\ \A c \in Batch : c # b => batch[c].slot # batch[b].slot
  /\ \A s \in claimed : \E b \in Batch : batch[b].slot = s
  /\ claimed \subseteq Elements(pool)

IInv ==
  /\ Typed /\ SessionsSound /\ BatchSound /\ SerialSound /\ Control
  /\ PoolBounded /\ Owning /\ ClaimKept

(***************************************************************************)
(* Tokens, prompts and the empty values                                    *)
(***************************************************************************)
LEMMA PromptTypes ==
  ASSUME NEW m \in Models
  PROVE  /\ \A p \in Prompts[m] : p \in HistoriesOf(m) /\ p # <<>>
         /\ \A p \in Answers[m] : p \in HistoriesOf(m)
<1>1. ASSUME NEW p \in Prompts[m] \cup Answers[m] PROVE p \in HistoriesOf(m)
  <2>1. p \in Seq(Nat)
    BY PromptAssumption
  <2>2. Len(p) \in Nat /\ DOMAIN p = 1..Len(p) /\ p = [i \in 1..Len(p) |-> p[i]]
    BY <2>1, LenProperties
  <2>3. \A i \in 1..Len(p) : p[i] \in TokensOf(m)
    BY <2>2 DEF TokensOf, ToSet
  <2>4. p \in [1..Len(p) -> TokensOf(m)]
    BY <2>2, <2>3
  <2> QED BY <2>2, <2>4, SeqDef DEF HistoriesOf
<1> QED BY <1>1, PromptAssumption

LEMMA EmptyHistory ==
  ASSUME NEW m
  PROVE  /\ <<>> \in HistoriesOf(m) /\ <<>> \in CheckpointsOf(m) /\ Len(<<>>) = 0
         /\ DOMAIN <<>> = {}
         /\ \A s : First(s, 0) = <<>>
<1>1. <<>> \in HistoriesOf(m)
  BY EmptyList DEF HistoriesOf
<1>2. <<>> \in CheckpointsOf(m)
  BY EmptyList DEF CheckpointsOf
<1>3. \A s : SubSeq(s, 1, 0) = <<>>
  BY SubSeqEmpty
<1> QED BY <1>1, <1>2, <1>3, EmptySeq DEF First

LEMMA InvalidSound == ASSUME NEW m \in Models PROVE SessionSound(m, Invalid)
<1>1. /\ <<>> \in HistoriesOf(m) /\ <<>> \in CheckpointsOf(m) /\ Len(<<>>) = 0
      /\ DOMAIN <<>> = {} /\ First(<<>>, 0) = <<>>
  BY EmptyHistory
<1>2. Invalid \in SessionsOf(m)
  BY <1>1 DEF Invalid, NoTail, SessionsOf
<1>3. TailSound(Invalid)
  BY <1>1 DEF Invalid, NoTail, TailSound
<1>4. Follows(m, Invalid.oth, Invalid.processed) /\ SnapsSound(m, Invalid.cps, Invalid.processed)
  BY <1>1 DEF Invalid, Follows, SnapsSound
<1> QED BY <1>2, <1>3, <1>4 DEF SessionSound, Invalid

LEMMA IdleSound == ASSUME NEW m \in Models PROVE RequestSound(m, Idle)
<1>1. <<>> \in HistoriesOf(m) /\ <<>> \in CheckpointsOf(m) /\ Len(<<>>) = 0
  BY EmptyHistory
<1>2. Idle \in OwnersOf(m)
  BY <1>1 DEF Idle, Waiting, OwnersOf, States
<1>3. Idle.reused <= Len(Idle.prompt)
  BY <1>1 DEF Idle, Waiting
<1>4. Idle.st = "idle"
  BY DEF Idle, Waiting
<1> QED BY <1>2, <1>3, <1>4 DEF RequestSound

(* A request that has a session or a place, and nothing absorbed. *)
LEMMA WaitingSound ==
  ASSUME NEW m \in Models, NEW r \in OwnersOf(m), Empty(r), r.prompt \in Prompts[m],
         \/ r.st = "locked" /\ r.slot = 0 /\ r.reused = 0
         \/ r.st = "selected" /\ r.slot \in Slots /\ r.reused = 0
         \/ r.st = "claimed" /\ r.slot \in Slots /\ r.reused <= Len(r.prompt)
  PROVE  RequestSound(m, r)
<1>1. 0 <= Len(r.prompt)
  <2>1. r.prompt \in HistoriesOf(m)
    BY PromptTypes
  <2> QED BY <2>1, LenProperties DEF HistoriesOf
<1>2. r.reused <= Len(r.prompt)
  BY <1>1
<1> QED BY <1>2 DEF RequestSound

LEMMA FirstFacts ==
  ASSUME NEW m, NEW s \in HistoriesOf(m), NEW n \in Nat, n <= Len(s)
  PROVE  /\ First(s, n) \in HistoriesOf(m) /\ Len(First(s, n)) = n
         /\ \A k \in Nat : k <= n => First(First(s, n), k) = First(s, k)
         /\ First(s, Len(s)) = s /\ Len(s) \in Nat
<1>1. Len(s) \in Nat /\ n \in 0..Len(s)
  BY LenProperties DEF HistoriesOf
<1>2. First(s, n) \in HistoriesOf(m) /\ Len(First(s, n)) = n
  BY <1>1, FirstPart DEF First, HistoriesOf
<1>3. ASSUME NEW k \in Nat, k <= n PROVE First(First(s, n), k) = First(s, k)
  <2>1. k \in 0..n
    BY <1>3
  <2> QED BY <1>1, <2>1, FirstOfFirst DEF First, HistoriesOf
<1>4. First(s, Len(s)) = s
  BY SubSeqFull DEF First, HistoriesOf
<1> QED BY <1>1, <1>2, <1>3, <1>4

(***************************************************************************)
(* Rewinding a session                                                     *)
(***************************************************************************)

(* What a rewind to n leaves of a session, for the requests that follow. *)
Rewinds(x, y, n) ==
  /\ y.has /\ Len(y.processed) <= n
  /\ Len(y.processed) = n /\ x.tail.pos = n => y.tail.pos = n

LEMMA TailKept ==
  ASSUME NEW m, NEW p \in HistoriesOf(m), NEW x \in SessionsOf(m), TailSound(x),
         x.processed = p, NEW n \in Nat, n <= Len(p)
  PROVE  /\ KeepTail(x, n) \in [pos : Nat, hist : HistoriesOf(m)]
         /\ KeepTail(x, n).pos <= n
         /\ KeepTail(x, n).hist = First(First(p, n), KeepTail(x, n).pos)
         /\ x.tail.pos = n => KeepTail(x, n).pos = n
<1>1. First(p, n) \in HistoriesOf(m) /\ \A k \in Nat : k <= n => First(First(p, n), k) = First(p, k)
  BY FirstFacts
<1>2. CASE x.tail.pos = n
  <2>1. KeepTail(x, n) = x.tail /\ x.tail \in [pos : Nat, hist : HistoriesOf(m)]
    BY <1>2 DEF KeepTail, SessionsOf
  <2>2. x.tail.hist = First(p, n)
    BY <1>2 DEF TailSound
  <2>3. n <= n /\ First(First(p, n), n) = First(p, n)
    BY <1>1
  <2> QED BY <1>2, <2>1, <2>2, <2>3
<1>3. CASE x.tail.pos # n
  <2>1. KeepTail(x, n) = NoTail
    BY <1>3 DEF KeepTail
  <2>2. <<>> \in HistoriesOf(m) /\ First(First(p, n), 0) = <<>>
    BY EmptyHistory
  <2> QED BY <1>3, <2>1, <2>2 DEF NoTail
<1> QED BY <1>2, <1>3

(* What a session says of its own lists. *)
LEMMA Inside ==
  ASSUME NEW m, NEW x, SessionSound(m, x)
  PROVE  /\ x \in SessionsOf(m) /\ x.processed \in HistoriesOf(m) /\ x.oth \in HistoriesOf(m)
         /\ x.cps \in CheckpointsOf(m) /\ x.tail \in [pos : Nat, hist : HistoriesOf(m)]
         /\ x.has \in BOOLEAN /\ x.kv = x.processed /\ TailSound(x)
         /\ Follows(m, x.oth, x.processed) /\ SnapsSound(m, x.cps, x.processed)
         /\ Len(x.processed) \in Nat /\ Len(x.oth) \in Nat
         /\ x.processed = <<>> => ~x.has
<1>1. /\ x.processed \in HistoriesOf(m) /\ x.oth \in HistoriesOf(m)
      /\ x.cps \in CheckpointsOf(m) /\ x.tail \in [pos : Nat, hist : HistoriesOf(m)]
      /\ x.has \in BOOLEAN
  BY DEF SessionSound, SessionsOf
<1>2. Len(x.processed) \in Nat /\ Len(x.oth) \in Nat
  BY <1>1, LenProperties DEF HistoriesOf
<1> QED BY <1>1, <1>2 DEF SessionSound

LEMMA RolledFacts ==
  ASSUME NEW m, NEW x, Len(x.processed) \in Nat, NEW s \in HistoriesOf(m),
         Len(s) = Len(x.processed), NEW n \in Nat, n < Len(x.processed)
  PROVE  Rolled(x, s, n) = First(s, n) /\ First(s, n) \in HistoriesOf(m)
         /\ Len(First(s, n)) = n
<1>1. Len(s) - (Len(x.processed) - n) = n /\ n <= Len(s)
  OBVIOUS
<1>2. Rolled(x, s, n) = First(s, n)
  BY <1>1 DEF Rolled
<1>3. First(s, n) \in HistoriesOf(m) /\ Len(First(s, n)) = n
  BY <1>1, FirstFacts
<1> QED BY <1>2, <1>3

LEMMA CutSound ==
  ASSUME NEW m, NEW x, SessionSound(m, x), x.has, NEW n \in Nat \ {0},
         n < Len(x.processed), NEW oth \in HistoriesOf(m), NEW cps \in CheckpointsOf(m),
         Follows(m, oth, First(x.processed, n)), SnapsSound(m, cps, First(x.processed, n))
  PROVE  SessionSound(m, Cut(x, n, oth, cps)) /\ Rewinds(x, Cut(x, n, oth, cps), n)
<1> DEFINE p == x.processed
           H == HistoriesOf(m)
           y == Cut(x, n, oth, cps)
           t == KeepTail(x, n)
           q == First(p, n)
<1>1. x \in SessionsOf(m) /\ p \in H /\ Len(p) \in Nat /\ TailSound(x) /\ x.kv = p
  BY Inside
<1>2. Rolled(x, x.kv, n) = q /\ q \in H /\ Len(q) = n /\ n <= Len(p)
  BY <1>1, RolledFacts
<1>3. t \in [pos : Nat, hist : H] /\ t.pos <= n /\ t.hist = First(q, t.pos)
      /\ (x.tail.pos = n => t.pos = n)
  BY <1>1, <1>2, TailKept
<1>4. y = [has |-> x.has, processed |-> q, kv |-> q, oth |-> oth, cps |-> cps, tail |-> t]
  BY <1>2 DEF Cut
<1>5. x.has = TRUE
  BY <1>1 DEF SessionsOf
<1>6. q # <<>>
  BY <1>2, EmptyHistory
<1> HIDE DEF y, t, q
<1>7. /\ y.has = TRUE /\ y.processed = q /\ y.kv = q /\ y.oth = oth /\ y.cps = cps
      /\ y.tail = t
  BY <1>4, <1>5
<1>8. y \in SessionsOf(m)
  BY <1>2, <1>3, <1>4, <1>5 DEF SessionsOf
<1>9. TailSound(y)
  BY <1>2, <1>3, <1>7 DEF TailSound
<1>10. SessionSound(m, y)
  BY <1>6, <1>7, <1>8, <1>9 DEF SessionSound, q
<1>11. Rewinds(x, y, n)
  <2>1. n <= n
    OBVIOUS
  <2> QED BY <1>2, <1>3, <1>7, <2>1 DEF Rewinds
<1> QED BY <1>10, <1>11 DEF y

LEMMA TrimmedSound ==
  ASSUME model \in Models, NEW x, SessionSound(model, x), CanTrim(x),
         NEW n \in Nat \ {0}, n < Len(x.processed)
  PROVE  SessionSound(model, Trimmed(x, n)) /\ Rewinds(x, Trimmed(x, n), n)
<1> DEFINE p == x.processed
           H == HistoriesOf(model)
           oth == IF Other = "none" THEN <<>> ELSE Rolled(x, x.oth, n)
<1>1. /\ p \in H /\ Len(p) \in Nat /\ x.oth \in H /\ x.cps \in CheckpointsOf(model)
      /\ Follows(model, x.oth, p) /\ SnapsSound(model, x.cps, p)
  BY Inside
<1>2. x.has /\ Other # "recurrent" /\ Other = model.other
  BY DEF CanTrim, OtherTrims, Other
<1>3. First(p, n) \in H /\ Len(First(p, n)) = n /\ n \in Nat /\ n <= Len(p)
  <2>1. n \in Nat /\ n <= Len(p)
    BY <1>1
  <2> QED BY <1>1, <2>1, FirstFacts
<1>4. oth \in H /\ Follows(model, oth, First(p, n))
  <2>1. CASE Other = "none"
    <3>1. oth = <<>>
      BY <2>1
    <3> QED BY <1>2, <2>1, <3>1, EmptyHistory DEF Follows
  <2>2. CASE Other # "none"
    <3>1. Len(x.oth) = Len(p)
      BY <1>1, <1>2, <2>2 DEF Follows
    <3>2. Rolled(x, x.oth, n) = First(x.oth, n) /\ First(x.oth, n) \in H
          /\ Len(First(x.oth, n)) = n
      <4>1. Len(p) \in Nat /\ x.oth \in HistoriesOf(model) /\ n \in Nat
        BY <1>1
      <4> QED BY <3>1, <4>1, RolledFacts
    <3> QED BY <1>2, <1>3, <2>2, <3>2 DEF Follows
  <2> QED BY <2>1, <2>2
<1>5. SnapsSound(model, x.cps, First(p, n))
  BY <1>1, <1>2 DEF SnapsSound, Lasting
<1> HIDE DEF oth
<1>6. Trimmed(x, n) = Cut(x, n, oth, x.cps)
  BY DEF Trimmed, oth
<1>7. SessionSound(model, Cut(x, n, oth, x.cps)) /\ Rewinds(x, Cut(x, n, oth, x.cps), n)
  BY <1>1, <1>2, <1>4, <1>5, CutSound
<1> QED BY <1>6, <1>7

LEMMA NearestFacts ==
  ASSUME NEW x \in SessionsOf(model), NEW n, Usable(x, n) # {}
  PROVE  Nearest(x, n) \in Usable(x, n)
<1> DEFINE U == Usable(x, n)
           f == [i \in U |-> x.cps[i].pos]
           g == [i \in U |-> i]
<1>1. /\ x.cps \in CheckpointsOf(model) /\ DOMAIN x.cps = 1..Len(x.cps)
      /\ IsFiniteSet(DOMAIN x.cps) /\ \A i \in DOMAIN x.cps : x.cps[i] \in CheckpointOf(model)
  <2>1. x.cps \in Seq(CheckpointOf(model))
    BY DEF SessionsOf, CheckpointsOf
  <2> QED BY <2>1, PlacesCounted, LenProperties, ElementOfSeq DEF CheckpointsOf
<1>2. U \subseteq DOMAIN x.cps /\ DOMAIN x.cps \subseteq Int
  BY <1>1 DEF Usable
<1>3. IsFiniteSet(U) /\ U # {}
  BY <1>1, <1>2, FS_Subset
<1>4. f \in [U -> Int] /\ g \in [U -> Int]
  BY <1>1, <1>2 DEF CheckpointOf
<1> HIDE DEF U, f, g
<1>5. \E i \in U : \A j \in U : f[j] < f[i] \/ (f[j] = f[i] /\ g[i] <= g[j])
  BY <1>3, <1>4, BestExists
<1>6. \E i \in U : \A j \in U :
        \/ x.cps[j].pos < x.cps[i].pos
        \/ x.cps[j].pos = x.cps[i].pos /\ i <= j
  BY <1>5 DEF f, g
<1> QED BY <1>6 DEF U, Nearest

(* The checkpoints up to a position are checkpoints of the session. *)
LEMMA UpToFacts ==
  ASSUME NEW m, NEW cps \in CheckpointsOf(m), NEW pos \in Nat
  PROVE  /\ UpTo(cps, pos) \in CheckpointsOf(m)
         /\ \A j \in DOMAIN UpTo(cps, pos) :
              \E i \in DOMAIN cps : UpTo(cps, pos)[j] = cps[i] /\ cps[i].pos <= pos
<1> DEFINE P == {i \in DOMAIN cps : cps[i].pos <= pos}
<1>1. cps \in Seq(CheckpointOf(m)) /\ P \in SUBSET DOMAIN cps /\ UpTo(cps, pos) = Selection(cps, P)
  BY DEF CheckpointsOf, UpTo
<1>2. \A i \in P : i \in DOMAIN cps /\ cps[i].pos <= pos
  OBVIOUS
<1> HIDE DEF P
<1>3. /\ Selection(cps, P) \in Seq(CheckpointOf(m))
      /\ DOMAIN Selection(cps, P) = 1..Cardinality(P)
      /\ \A j \in 1..Cardinality(P) : Nth(P, j) \in P /\ Selection(cps, P)[j] = cps[Nth(P, j)]
  BY <1>1, SelectionFacts
<1> QED BY <1>1, <1>2, <1>3 DEF CheckpointsOf

LEMMA RestoredSound ==
  ASSUME model \in Models, NEW x, SessionSound(model, x), ~CanTrim(x),
         NEW n \in Nat \ {0}, n < Len(x.processed), CanRestore(x, n)
  PROVE  SessionSound(model, Restored(x, n)) /\ Rewinds(x, Restored(x, n), n)
<1> DEFINE p == x.processed
           H == HistoriesOf(model)
           i == Nearest(x, n)
           cp == x.cps[i]
           rest == UpTo(x.cps, cp.pos)
           q == First(p, cp.pos)
<1>1. /\ x \in SessionsOf(model) /\ p \in H /\ Len(p) \in Nat
      /\ x.cps \in CheckpointsOf(model) /\ SnapsSound(model, x.cps, p)
  BY Inside
<1>2. x.has /\ ~OtherTrims(x) /\ Other # "none" /\ Other = model.other /\ cp.deep
  BY DEF CanRestore, CanTrim, OtherTrims, Other
<1>3. i \in DOMAIN x.cps /\ cp.pos <= n /\ cp.pos > 0
  <2>1. i \in Usable(x, n)
    BY <1>1, NearestFacts DEF CanRestore
  <2> QED BY <2>1 DEF Usable
<1>4. \A k \in DOMAIN x.cps : x.cps[k] \in CheckpointOf(model)
  BY <1>1, ElementOfSeq, LenProperties DEF CheckpointsOf
<1>5. cp.pos \in Nat /\ cp.snap \in H
  BY <1>3, <1>4 DEF CheckpointOf
<1>6. cp.pos \in Nat \ {0} /\ cp.pos < Len(p) /\ cp.pos <= Len(p)
  BY <1>1, <1>3, <1>5
<1>7. q \in H /\ Len(q) = cp.pos /\ \A k \in Nat : k <= cp.pos => First(q, k) = First(p, k)
  BY <1>1, <1>6, FirstFacts
<1>8. Follows(model, cp.snap, q)
  BY <1>1, <1>2, <1>3, <1>7 DEF SnapsSound, Lasting, Follows
<1>9. /\ rest \in CheckpointsOf(model)
      /\ \A j \in DOMAIN rest :
           \E k \in DOMAIN x.cps : rest[j] = x.cps[k] /\ x.cps[k].pos <= cp.pos
  BY <1>1, <1>5, UpToFacts
<1> HIDE DEF rest, q, cp, i
<1>10. SnapsSound(model, rest, q)
  <2> SUFFICES ASSUME NEW j \in DOMAIN rest PROVE Lasting(model, rest[j], q)
    BY DEF SnapsSound
  <2>1. PICK k \in DOMAIN x.cps : rest[j] = x.cps[k] /\ x.cps[k].pos <= cp.pos
    BY <1>9
  <2>2. Lasting(model, x.cps[k], p) /\ x.cps[k].pos \in Nat
    BY <1>1, <1>4 DEF SnapsSound, CheckpointOf
  <2>3. First(q, x.cps[k].pos) = First(p, x.cps[k].pos)
    BY <1>7, <2>1, <2>2
  <2>4. Lasting(model, x.cps[k], q)
    BY <1>7, <2>1, <2>2, <2>3 DEF Lasting
  <2> QED BY <2>1, <2>4
<1> DEFINE y == Cut(x, cp.pos, cp.snap, rest)
<1>11. SessionSound(model, y) /\ Rewinds(x, y, cp.pos)
  BY <1>2, <1>5, <1>6, <1>8, <1>9, <1>10, CutSound DEF q
<1>12. Restored(x, n) = y
  BY <1>2 DEF Restored, Snapped, rest, cp, i
<1>13. Rewinds(x, y, n)
  <2>1. Len(y.processed) \in Nat
    BY <1>11, Inside
  <2> HIDE DEF y
  <2>2. Len(y.processed) <= n /\ (Len(y.processed) = n => cp.pos = n)
    BY <1>3, <1>5, <1>11, <2>1 DEF Rewinds
  <2> QED BY <1>11, <2>2 DEF Rewinds
<1> QED BY <1>11, <1>12, <1>13

(***************************************************************************)
(* What a session shares with a prompt                                     *)
(***************************************************************************)
LEMMA CommonFacts ==
  ASSUME NEW m, NEW s \in HistoriesOf(m), NEW t \in HistoriesOf(m)
  PROVE  /\ Common(s, t) \in Nat /\ Common(s, t) <= Len(s) /\ Common(s, t) <= Len(t)
         /\ First(s, Common(s, t)) = First(t, Common(s, t))
<1> DEFINE D == {i \in DOMAIN s \cap DOMAIN t : First(s, i) = First(t, i)}
           c == Common(s, t)
<1>1. /\ Len(s) \in Nat /\ DOMAIN s = 1..Len(s) /\ Len(t) \in Nat /\ DOMAIN t = 1..Len(t)
      /\ IsFiniteSet(DOMAIN s)
  BY LenProperties, PlacesCounted DEF HistoriesOf
<1>2. D \in SUBSET (Nat \ {0}) /\ D \in SUBSET DOMAIN s /\ IsFiniteSet(D)
  <2>1. D \in SUBSET (Nat \ {0}) /\ D \in SUBSET DOMAIN s
    BY <1>1
  <2> HIDE DEF D
  <2> QED BY <1>1, <2>1, FS_Subset
<1>3. ASSUME NEW i \in D, NEW j \in 1..i PROVE j \in D
  <2>1. i \in 1..Len(s) /\ i \in 1..Len(t) /\ First(s, i) = First(t, i)
    BY <1>1
  <2>2. i \in Nat /\ i <= Len(s) /\ i <= Len(t) /\ j \in Nat /\ j <= i
    BY <1>1, <2>1
  <2>3. First(First(s, i), j) = First(s, j) /\ First(First(t, i), j) = First(t, j)
    BY <2>2, FirstFacts
  <2>4. j \in 1..Len(s) /\ j \in 1..Len(t)
    BY <1>1, <2>1
  <2> QED BY <1>1, <2>1, <2>3, <2>4
<1>4. c = Cardinality(D)
  BY DEF Common
<1>5. c \in Nat /\ D = 1..c
  BY <1>2, <1>3, <1>4, NoGaps
<1>6. c = 0 \/ c \in D
  BY <1>5
<1>7. CASE c = 0
  BY <1>1, <1>5, <1>7, EmptyHistory
<1>8. CASE c \in D
  <2>1. c \in 1..Len(s) /\ c \in 1..Len(t) /\ First(s, c) = First(t, c)
    BY <1>1, <1>8
  <2> QED BY <1>1, <1>5, <2>1
<1> QED BY <1>6, <1>7, <1>8

(* A match that covers the prompt ends at the session's tail. *)
LEMMA LcpFacts ==
  ASSUME NEW m, NEW x, SessionSound(m, x), NEW t \in HistoriesOf(m), t # <<>>
  PROVE  /\ Lcp(x, t) \in Nat /\ Lcp(x, t) <= Len(x.processed) /\ Lcp(x, t) <= Len(t)
         /\ Lcp(x, t) = Len(t) => x.tail.pos = Len(t)
<1> DEFINE c == Common(x.processed, t)
           cap == ReuseCap(x, t)
           n == Len(t)
           l == Lcp(x, t)
<1>1. c \in Nat /\ c <= Len(x.processed) /\ c <= n
  BY Inside, CommonFacts
<1>2. n \in Nat \ {0} /\ Len(x.processed) \in Nat
  BY Inside, LenProperties, EmptySeq DEF HistoriesOf
<1>3. /\ cap = n \/ cap = n - 1
      /\ x.tail.pos # n => cap = n - 1
  BY DEF ReuseCap
<1>4. l = IF c < cap THEN c ELSE cap
  BY DEF Lcp
<1> HIDE DEF c, cap, n, l
<1>5. l \in Nat /\ l <= c /\ l <= n /\ (l = n => cap = n)
  BY <1>1, <1>2, <1>3, <1>4
<1>6. l <= Len(x.processed)
  BY <1>1, <1>2, <1>5
<1>7. l = n => x.tail.pos = n
  BY <1>2, <1>3, <1>5
<1> QED BY <1>5, <1>6, <1>7 DEF l, n

(***************************************************************************)
(* Requests that generate                                                  *)
(***************************************************************************)
LEMMA RunningSound ==
  ASSUME NEW m \in Models, NEW r, r.slot \in Slots, r.prompt \in Prompts[m],
         NEW n \in Nat, n <= Len(r.prompt), NEW kv, kv = First(r.prompt, n),
         NEW oth \in HistoriesOf(m), Follows(m, oth, kv),
         NEW cps \in CheckpointsOf(m), SnapsSound(m, cps, kv)
  PROVE  RequestSound(m, Running(r, n, kv, oth, cps))
<1> DEFINE y == Running(r, n, kv, oth, cps)
<1>1. r.prompt \in HistoriesOf(m)
  BY PromptTypes
<1>2. kv \in HistoriesOf(m)
  BY <1>1, FirstFacts
<1>3. /\ y.st = "running" /\ y.slot = r.slot /\ y.prompt = r.prompt /\ y.reused = n
      /\ y.kv = kv /\ y.oth = oth /\ y.cps = cps
  BY DEF Running
<1>4. y \in OwnersOf(m)
  BY <1>1, <1>2 DEF Running, OwnersOf, States
<1> HIDE DEF y
<1>5. RequestSound(m, y)
  BY <1>3, <1>4 DEF RequestSound
<1> QED BY <1>5 DEF y

(* A request that starts with a fresh cache. *)
LEMMA AfreshSound ==
  ASSUME NEW m \in Models, NEW r, r.slot \in Slots, r.prompt \in Prompts[m]
  PROVE  RequestSound(m, Running(r, 0, <<>>, <<>>, <<>>))
<1>1. r.prompt \in HistoriesOf(m)
  BY PromptTypes
<1>2. 0 \in Nat /\ 0 <= Len(r.prompt)
  BY <1>1, LenProperties DEF HistoriesOf
<1>3. /\ <<>> = First(r.prompt, 0) /\ <<>> \in HistoriesOf(m) /\ <<>> \in CheckpointsOf(m)
      /\ DOMAIN <<>> = {}
  BY EmptyHistory
<1>4. Follows(m, <<>>, <<>>) /\ SnapsSound(m, <<>>, <<>>)
  BY <1>3 DEF Follows, SnapsSound
<1> QED BY <1>2, <1>3, <1>4, RunningSound

LEMMA OwnerSound ==
  ASSUME model \in Models, NEW r, RequestSound(model, r), r.st = "selected",
         NEW x, SessionSound(model, x), SelectedSound(x, r)
  PROVE  RequestSound(model, Owner(r, x))
<1> DEFINE p == x.processed
           n == Len(p)
<1>1. r.slot \in Slots /\ r.prompt \in Prompts[model] /\ r.prompt \in HistoriesOf(model)
  BY PromptTypes DEF RequestSound
<1>2. CASE ~Reusable(x, r.prompt)
  BY <1>1, <1>2, AfreshSound DEF Owner
<1>3. CASE Reusable(x, r.prompt)
  <2>1. /\ p \in HistoriesOf(model) /\ x.kv = p /\ n \in Nat /\ x.oth \in HistoriesOf(model)
        /\ x.cps \in CheckpointsOf(model)
        /\ Follows(model, x.oth, p) /\ SnapsSound(model, x.cps, p)
    BY Inside
  <2>2. x.has /\ Common(p, r.prompt) = n
    BY <1>3 DEF Reusable
  <2>3. n <= Len(r.prompt) /\ First(p, n) = First(r.prompt, n)
    BY <1>1, <2>1, <2>2, CommonFacts
  <2>4. n <= n
    BY <2>1
  <2>5. p = First(r.prompt, n)
    BY <2>1, <2>3, <2>4, FirstFacts
  <2>6. Resumed(x, r.prompt) = n
    BY <2>2 DEF Resumed, SelectedSound
  <2>7. RequestSound(model, Running(r, n, p, x.oth, x.cps))
    <3> HIDE DEF n
    <3>1. r.slot \in Slots /\ r.prompt \in Prompts[model] /\ n \in Nat /\ n <= Len(r.prompt)
      BY <1>1, <2>1, <2>3
    <3> QED BY <2>1, <2>5, <3>1, RunningSound
  <2>8. Owner(r, x) = Running(r, n, p, x.oth, x.cps)
    BY <1>3, <2>1, <2>6 DEF Owner
  <2> QED BY <2>7, <2>8
<1> QED BY <1>2, <1>3

(***************************************************************************)
(* What a generation publishes                                             *)
(***************************************************************************)

(* The histories a snapshot is still of. *)
LEMMA LastingLonger ==
  ASSUME NEW m, NEW cp \in CheckpointOf(m), NEW s \in HistoriesOf(m),
         NEW t \in HistoriesOf(m), NEW n \in Nat, n <= Len(s)
  PROVE  /\ Lasting(m, cp, First(s, n)) => Lasting(m, cp, s)
         /\ Lasting(m, cp, s) => Lasting(m, cp, s \o t)
<1>1. /\ Len(s) \in Nat /\ Len(t) \in Nat /\ Len(s \o t) = Len(s) + Len(t) /\ cp.pos \in Nat
      /\ Len(First(s, n)) = n /\ \A k \in Nat : k <= n => First(First(s, n), k) = First(s, k)
  <2>1. Len(s) \in Nat /\ Len(t) \in Nat /\ Len(s \o t) = Len(s) + Len(t)
    BY LenProperties, ConcatProperties DEF HistoriesOf
  <2>2. Len(First(s, n)) = n /\ \A k \in Nat : k <= n => First(First(s, n), k) = First(s, k)
    BY FirstFacts
  <2>3. cp.pos \in Nat
    BY DEF CheckpointOf
  <2> QED BY <2>1, <2>2, <2>3
<1>2. cp.pos <= Len(s) => First(s \o t, cp.pos) = First(s, cp.pos) /\ cp.pos <= Len(s \o t)
  <2> SUFFICES ASSUME cp.pos <= Len(s)
               PROVE  First(s \o t, cp.pos) = First(s, cp.pos) /\ cp.pos <= Len(s \o t)
    OBVIOUS
  <2>1. cp.pos \in 0..Len(s) /\ cp.pos <= Len(s \o t)
    BY <1>1
  <2> QED BY <2>1, FirstOfConcat DEF First, HistoriesOf
<1>3. cp.pos <= n => First(First(s, n), cp.pos) = First(s, cp.pos) /\ cp.pos <= Len(s)
  BY <1>1
<1>4. Lasting(m, cp, First(s, n)) => Lasting(m, cp, s)
  BY <1>1, <1>3 DEF Lasting
<1>5. Lasting(m, cp, s) => Lasting(m, cp, s \o t)
  BY <1>2 DEF Lasting
<1> QED BY <1>4, <1>5

(* Checkpoints are left inside the prompt. *)
LEMMA MarksFacts ==
  ASSUME model \in Models, NEW r, NEW n, n = Len(r.prompt), n \in Nat,
         r.reused \in Nat, r.reused <= n
  PROVE  Marks(r) \in Seq(0..n)
<1> DEFINE d == n - r.reused
           k == n - CheckpointTail
           before == IF d > CheckpointTail THEN <<k>> ELSE <<>>
<1>1. CheckpointTail \in Nat \ {0}
  BY SizeAssumption DEF CheckpointTail
<1>2. d > CheckpointTail => k \in 0..n
  BY <1>1
<1>3. d > 1 => n - 1 \in 0..n
  OBVIOUS
<1>4. n \in 0..n
  OBVIOUS
<1>5. \A e \in 0..n : <<e>> \in Seq(0..n)
  OBVIOUS
<1>6. <<>> \in Seq(0..n)
  BY EmptyList
<1>7. before \in Seq(0..n)
  BY <1>2, <1>5, <1>6
<1>8. (IF d > 0 THEN <<n>> ELSE <<>>) \in Seq(0..n)
  BY <1>4, <1>5, <1>6
<1>9. (IF d > 1 THEN <<n - 1>> ELSE <<>>) \in Seq(0..n)
  BY <1>3, <1>5, <1>6
<1>10. Marks(r) = IF KeepsTail THEN before \o (IF d > 0 THEN <<n>> ELSE <<>>)
                  ELSE IF before # <<>> THEN before
                  ELSE IF d > 1 THEN <<n - 1>> ELSE <<>>
  BY DEF Marks
<1> HIDE DEF before, d
<1>11. before \o (IF d > 0 THEN <<n>> ELSE <<>>) \in Seq(0..n)
  BY <1>7, <1>8, ConcatProperties
<1> QED BY <1>7, <1>9, <1>10, <1>11

LEMMA LastNFacts ==
  ASSUME NEW S, NEW s \in Seq(S), NEW n \in Nat
  PROVE  /\ LastN(s, n) \in Seq(S)
         /\ \A i \in DOMAIN LastN(s, n) : \E j \in DOMAIN s : LastN(s, n)[i] = s[j]
<1> DEFINE k == IF Len(s) > n THEN Len(s) - n + 1 ELSE 1
           l == Len(s)
           t == SubSeq(s, k, l)
<1>1. /\ l \in Nat /\ DOMAIN s = 1..l /\ \A i \in 1..l : s[i] \in S
  BY LenProperties, ElementOfSeq
<1>2. k \in Nat \ {0} /\ k <= l + 1
  <2> HIDE DEF l
  <2> QED BY <1>1 DEF l
<1> HIDE DEF k, l
<1>3. \A i \in k..l : s[i] \in S
  BY <1>1, <1>2
<1>4. /\ t \in Seq(S) /\ Len(t) = IF k <= l THEN l - k + 1 ELSE 0
      /\ \A i \in 1..(l - k + 1) : t[i] = s[k + i - 1]
  BY <1>1, <1>2, <1>3, SubSeqProperties
<1>5. DOMAIN t = 1..Len(t) /\ Len(t) = l - k + 1
  BY <1>1, <1>2, <1>4, LenProperties
<1>6. \A i \in 1..(l - k + 1) : k + i - 1 \in 1..l
  BY <1>1, <1>2
<1>7. \A i \in DOMAIN t : \E j \in DOMAIN s : t[i] = s[j]
  BY <1>1, <1>4, <1>5, <1>6
<1> QED BY <1>4, <1>7 DEF LastN, k, l

(* The checkpoints a generation keeps are of the prompt. *)
LEMMA SnapsPublished ==
  ASSUME model \in Models, NEW r, RequestSound(model, r), r.st = "running",
         NEW oth \in HistoriesOf(model), Follows(model, oth, r.prompt)
  PROVE  /\ WithCheckpoints(r, oth) \in CheckpointsOf(model)
         /\ SnapsSound(model, WithCheckpoints(r, oth), r.prompt)
<1> DEFINE p == r.prompt
           n == Len(p)
           C == CheckpointOf(model)
           marks == Marks(r)
           new == [i \in DOMAIN marks |->
                     [pos |-> marks[i], deep |-> Other # "none",
                      snap |-> First(oth, IF Other = "none" THEN 0 ELSE marks[i])]]
           all == r.cps \o new
           kept == LastN(all, Retention)
           OK(e) == e \in C /\ Lasting(model, e, p)
<1>1. /\ r \in OwnersOf(model) /\ p \in Prompts[model] /\ r.reused <= n
      /\ SnapsSound(model, r.cps, First(p, r.reused))
  BY DEF RequestSound
<1>2. p \in HistoriesOf(model) /\ n \in Nat /\ r.reused \in Nat /\ r.cps \in Seq(C)
  BY <1>1, PromptTypes, LenProperties DEF OwnersOf, HistoriesOf, CheckpointsOf
<1>3. /\ marks \in Seq(0..n) /\ Len(marks) \in Nat /\ DOMAIN marks = 1..Len(marks)
      /\ \A i \in DOMAIN marks : marks[i] \in 0..n
  <2>1. marks \in Seq(0..n)
    <3> HIDE DEF marks
    <3>1. n = Len(r.prompt) /\ n \in Nat /\ r.reused \in Nat /\ r.reused <= n
      BY <1>1, <1>2
    <3> QED BY <3>1, MarksFacts DEF marks
  <2> QED BY <2>1, LenProperties, ElementOfSeq
<1> HIDE DEF marks
<1>4. ASSUME NEW i \in DOMAIN marks PROVE OK(new[i])
  <2>1. marks[i] \in Nat /\ marks[i] <= n
    BY <1>2, <1>3
  <2>2. /\ new[i].pos = marks[i] /\ new[i].deep = (Other # "none")
        /\ new[i].snap = First(oth, IF Other = "none" THEN 0 ELSE marks[i])
        /\ new[i] = [pos |-> new[i].pos, deep |-> new[i].deep, snap |-> new[i].snap]
    OBVIOUS
  <2> HIDE DEF new
  <2>3. CASE Other = "none"
    <3>1. new[i].snap = <<>> /\ <<>> \in HistoriesOf(model) /\ new[i].deep = FALSE
      BY <2>2, <2>3, EmptyHistory
    <3>2. new[i] \in C
      BY <2>1, <2>2, <3>1 DEF CheckpointOf
    <3> QED BY <3>1, <3>2 DEF Lasting
  <2>4. CASE Other # "none"
    <3>1. Len(oth) = n /\ model.other # "none" /\ (model.other = "recurrent" => oth = p)
      BY <2>4 DEF Follows, Other
    <3>2. marks[i] <= Len(oth)
      BY <2>1, <3>1
    <3>3. First(oth, marks[i]) \in HistoriesOf(model) /\ Len(First(oth, marks[i])) = marks[i]
      BY <2>1, <3>2, FirstFacts
    <3>4. new[i].snap = First(oth, marks[i]) /\ new[i].deep = TRUE
      BY <2>2, <2>4
    <3>5. new[i] \in C
      BY <2>1, <2>2, <3>3, <3>4 DEF CheckpointOf
    <3>6. Lasting(model, new[i], p)
      BY <2>1, <2>2, <3>1, <3>3, <3>4 DEF Lasting
    <3> QED BY <3>5, <3>6
  <2> QED BY <2>3, <2>4
<1>5. ASSUME NEW i \in DOMAIN r.cps PROVE OK(r.cps[i])
  <2>1. r.cps[i] \in C /\ Lasting(model, r.cps[i], First(p, r.reused))
    BY <1>1, <1>2, ElementOfSeq, LenProperties DEF SnapsSound
  <2>2. <<>> \in HistoriesOf(model)
    BY EmptyHistory
  <2> QED BY <1>1, <1>2, <2>1, <2>2, LastingLonger
<1>6. new \in Seq(C) /\ DOMAIN new = DOMAIN marks
  <2>1. new = [i \in 1..Len(marks) |-> new[i]] /\ DOMAIN new = DOMAIN marks
    BY <1>3
  <2>2. \A i \in 1..Len(marks) : new[i] \in C
    BY <1>3, <1>4
  <2> HIDE DEF new
  <2>3. new \in [1..Len(marks) -> C]
    BY <2>1, <2>2
  <2> QED BY <1>3, <2>1, <2>3, SeqDef
<1> HIDE DEF new, C
<1>7. /\ all \in Seq(C) /\ Len(all) = Len(r.cps) + Len(new)
      /\ Len(r.cps) \in Nat /\ Len(new) \in Nat
      /\ DOMAIN all = 1..Len(all) /\ DOMAIN r.cps = 1..Len(r.cps) /\ DOMAIN new = 1..Len(new)
      /\ \A i \in 1..Len(all) : all[i] = IF i <= Len(r.cps) THEN r.cps[i]
                                         ELSE new[i - Len(r.cps)]
  BY <1>2, <1>6, ConcatProperties, LenProperties
<1> HIDE DEF OK
<1>8. ASSUME NEW i \in DOMAIN all PROVE OK(all[i])
  <2> DEFINE a == Len(r.cps)
             b == Len(new)
  <2>1. i \in 1..(a + b) /\ a \in Nat /\ b \in Nat
    BY <1>7
  <2> HIDE DEF a, b
  <2>2. i \in 1..a \/ (~(i <= a) /\ i - a \in 1..b)
    BY <2>1
  <2>3. CASE i \in 1..a
    <3>1. i <= a
      BY <2>1, <2>3
    <3>2. all[i] = r.cps[i] /\ i \in DOMAIN r.cps
      BY <1>7, <2>3, <3>1 DEF a
    <3> QED BY <1>5, <3>2
  <2>4. CASE ~(i <= a) /\ i - a \in 1..b
    <3>1. all[i] = new[i - a] /\ i - a \in DOMAIN new
      BY <1>7, <2>4 DEF a, b
    <3> QED BY <1>4, <1>6, <3>1
  <2> QED BY <2>2, <2>3, <2>4
<1> HIDE DEF all
<1>9. Retention \in Nat
  BY SizeAssumption DEF Retention
<1>10. kept \in Seq(C) /\ \A i \in DOMAIN kept : \E j \in DOMAIN all : kept[i] = all[j]
  BY <1>7, <1>9, LastNFacts, ZenonT(40)
<1>11. SnapsSound(model, kept, p)
  BY <1>8, <1>10 DEF OK, SnapsSound
<1> QED BY <1>10, <1>11 DEF WithCheckpoints, kept, all, new, marks, CheckpointsOf, C

(* What a prompt still feeds after its first n tokens. *)
Fed(p, n) == SubSeq(p, n + 1, Len(p))

(* A layer that held s and absorbs the rest of the prompt and the answer. *)
Completes(m, s, p, n, a) ==
  /\ s \o Fed(p, n) \in HistoriesOf(m) /\ Len(s \o Fed(p, n)) = Len(p)
  /\ s \o Fed(p, n) \o a \in HistoriesOf(m)
  /\ Len(s \o Fed(p, n) \o a) = Len(p \o a)
  /\ s = First(p, n) => s \o Fed(p, n) = p
  /\ p \o a \in HistoriesOf(m) /\ Len(p \o a) = Len(p) + Len(a)
  /\ Len(p) \in Nat /\ Len(a) \in Nat

(* What the caches of a generation have absorbed when it ends. *)
LEMMA Completed ==
  ASSUME NEW m, NEW p \in HistoriesOf(m), NEW n \in Nat, n <= Len(p),
         NEW s \in HistoriesOf(m), Len(s) = n, NEW a \in HistoriesOf(m)
  PROVE  Completes(m, s, p, n, a)
<1> DEFINE H == TokensOf(m)
           fed == Fed(p, n)
<1>1. p \in Seq(H) /\ s \in Seq(H) /\ a \in Seq(H) /\ Len(p) \in Nat /\ Len(a) \in Nat
  BY LenProperties DEF HistoriesOf
<1>2. n \in 0..Len(p)
  BY <1>1
<1>3. fed \in Seq(H) /\ Len(fed) = Len(p) - n /\ SubSeq(p, 1, n) \o fed = p
  BY <1>1, <1>2, FirstAndRest DEF Fed
<1> HIDE DEF H, fed
<1>4. s \o fed \in Seq(H) /\ Len(s \o fed) = Len(s) + Len(fed)
  BY <1>1, <1>3, ConcatProperties, ZenonT(40)
<1>5. Len(s \o fed) = Len(p)
  BY <1>1, <1>2, <1>3, <1>4
<1>6. (s \o fed) \o a \in Seq(H) /\ Len((s \o fed) \o a) = Len(s \o fed) + Len(a)
  BY <1>1, <1>4, ConcatProperties
<1>7. p \o a \in Seq(H) /\ Len(p \o a) = Len(p) + Len(a)
  BY <1>1, ConcatProperties
<1> QED BY <1>1, <1>3, <1>4, <1>5, <1>6, <1>7 DEF H, fed, HistoriesOf, First, Completes

(* A session published with given checkpoints of the prompt. *)
LEMMA EntrySound ==
  ASSUME model \in Models, NEW r, RequestSound(model, r), r.st = "running",
         NEW a \in HistoriesOf(model), NEW tails \in BOOLEAN,
         NEW cps \in CheckpointsOf(model), SnapsSound(model, cps, r.prompt)
  PROVE  SessionSound(model, [Published(r, a, tails) EXCEPT !.cps = cps])
<1> DEFINE p == r.prompt
           H == HistoriesOf(model)
           n == r.reused
           fed == Fed(p, n)
           oth == IF Other = "none" THEN <<>> ELSE r.oth \o fed \o a
           tail == IF tails THEN [pos |-> Len(p), hist |-> p] ELSE NoTail
           q == p \o a
           y == [has |-> TRUE, processed |-> q, kv |-> q, oth |-> oth, cps |-> cps,
                 tail |-> tail]
<1>1. /\ r \in OwnersOf(model) /\ p \in Prompts[model] /\ n <= Len(p) /\ r.kv = First(p, n)
      /\ Follows(model, r.oth, First(p, n))
  BY DEF RequestSound
<1>2. p \in H /\ p # <<>> /\ n \in Nat /\ r.kv \in H /\ r.oth \in H
  BY <1>1, PromptTypes DEF OwnersOf
<1>3. Len(First(p, n)) = n
  BY <1>1, <1>2, FirstFacts
<1>4. /\ r.kv \o fed = p /\ r.kv \o fed \o a = q /\ q \in H /\ Len(q) = Len(p) + Len(a)
      /\ Len(p) \in Nat /\ Len(a) \in Nat
  <2>1. Len(r.kv) = n
    BY <1>1, <1>3
  <2>2. Completes(model, r.kv, p, n, a)
    BY <1>1, <1>2, <2>1, Completed
  <2> QED BY <1>1, <2>2 DEF Completes
<1>5. oth \in H /\ Follows(model, oth, q)
  <2>1. CASE Other = "none"
    <3>1. oth = <<>>
      BY <2>1
    <3> QED BY <2>1, <3>1, EmptyHistory DEF Follows, Other
  <2>2. CASE Other # "none"
    <3>1. Len(r.oth) = n /\ (model.other = "recurrent" => r.oth = First(p, n))
      BY <1>1, <1>3, <2>2 DEF Follows, Other
    <3>2. /\ r.oth \o fed \o a \in H /\ Len(r.oth \o fed \o a) = Len(q)
          /\ r.oth = First(p, n) => r.oth \o fed = p
      <4>1. Completes(model, r.oth, p, n, a)
        BY <1>1, <1>2, <3>1, Completed
      <4> QED BY <4>1 DEF Completes
    <3>3. oth = r.oth \o fed \o a
      BY <2>2
    <3>4. model.other = "recurrent" => oth = q
      BY <3>1, <3>2, <3>3
    <3> HIDE DEF oth
    <3> QED BY <3>2, <3>3, <3>4 DEF Follows
  <2> QED BY <2>1, <2>2
<1>6. [Published(r, a, tails) EXCEPT !.cps = cps] = y
  <2> DEFINE c == WithCheckpoints(r, IF Other = "none" THEN <<>> ELSE r.oth \o fed)
  <2>1. Published(r, a, tails)
          = [has |-> TRUE, processed |-> q, kv |-> r.kv \o fed \o a, oth |-> oth,
             cps |-> c,
             tail |-> IF tails THEN [pos |-> Len(p), hist |-> r.kv \o fed] ELSE NoTail]
    BY DEF Published, Fed
  <2> HIDE DEF fed, oth, q, c
  <2>2. Published(r, a, tails)
          = [has |-> TRUE, processed |-> q, kv |-> q, oth |-> oth, cps |-> c, tail |-> tail]
    BY <1>4, <2>1
  <2> HIDE DEF tail
  <2>3. \A has : [[has |-> has, processed |-> q, kv |-> q, oth |-> oth, cps |-> c,
                   tail |-> tail] EXCEPT !.cps = cps]
                 = [has |-> has, processed |-> q, kv |-> q, oth |-> oth, cps |-> cps,
                    tail |-> tail]
    OBVIOUS
  <2> QED BY <2>2, <2>3, Zenon
<1>7. SnapsSound(model, cps, q)
  <2> SUFFICES ASSUME NEW i \in DOMAIN cps PROVE Lasting(model, cps[i], q)
    BY DEF SnapsSound
  <2>1. cps[i] \in CheckpointOf(model)
    BY ElementOfSeq, LenProperties DEF CheckpointsOf
  <2>2. Lasting(model, cps[i], p)
    BY DEF SnapsSound
  <2> QED BY <1>1, <1>2, <2>1, <2>2, LastingLonger
<1>8. tail \in [pos : Nat, hist : H] /\ tail.pos <= Len(q) /\ tail.hist = First(q, tail.pos)
  <2>1. CASE tails
    <3>1. First(q, Len(p)) = p
      <4>1. Len(p) \in 0..Len(p)
        BY <1>4
      <4>2. First(q, Len(p)) = First(p, Len(p))
        BY <1>2, <4>1, FirstOfConcat DEF First, HistoriesOf
      <4>3. First(p, Len(p)) = p
        BY <1>1, <1>2, FirstFacts
      <4> QED BY <4>2, <4>3
    <3>2. tail = [pos |-> Len(p), hist |-> p] /\ Len(p) <= Len(q)
      BY <1>4, <2>1
    <3> HIDE DEF q
    <3> QED BY <1>2, <1>4, <3>1, <3>2
  <2>2. CASE ~tails
    <3>1. tail = NoTail
      BY <2>2
    <3> HIDE DEF q, tail
    <3>2. First(q, 0) = <<>> /\ <<>> \in H /\ 0 <= Len(q)
      BY <1>4, EmptyHistory
    <3> QED BY <3>1, <3>2 DEF NoTail
  <2> QED BY <2>1, <2>2
<1>9. q # <<>>
  <2>1. Len(p) # 0
    BY <1>2, EmptySeq DEF HistoriesOf
  <2>2. Len(q) # 0
    BY <1>4, <2>1
  <2> QED BY <2>2, EmptyHistory
<1> HIDE DEF q, oth, tail
<1>10. y \in SessionsOf(model)
  BY <1>4, <1>5, <1>8 DEF SessionsOf
<1>11. TailSound(y)
  BY <1>8 DEF TailSound
<1>12. SessionSound(model, y)
  BY <1>5, <1>7, <1>9, <1>10, <1>11 DEF SessionSound
<1> QED BY <1>6, <1>12

LEMMA PublishedSound ==
  ASSUME model \in Models, NEW r, RequestSound(model, r), r.st = "running",
         NEW a \in HistoriesOf(model), NEW tails \in BOOLEAN
  PROVE  /\ SessionSound(model, Published(r, a, tails))
         /\ SessionSound(model, [Published(r, a, tails) EXCEPT !.cps = r.cps])
<1> DEFINE p == r.prompt
           H == HistoriesOf(model)
           n == r.reused
           fed == Fed(p, n)
           oth == IF Other = "none" THEN <<>> ELSE r.oth \o fed
           c == WithCheckpoints(r, oth)
<1>1. /\ r \in OwnersOf(model) /\ p \in Prompts[model] /\ n <= Len(p)
      /\ Follows(model, r.oth, First(p, n)) /\ SnapsSound(model, r.cps, First(p, n))
  BY DEF RequestSound
<1>2. p \in H /\ n \in Nat /\ r.oth \in H /\ r.cps \in CheckpointsOf(model)
  BY <1>1, PromptTypes DEF OwnersOf
<1>3. Len(First(p, n)) = n /\ <<>> \in H
  BY <1>1, <1>2, FirstFacts, EmptyHistory
<1>4. oth \in H /\ Follows(model, oth, p)
  <2>1. CASE Other = "none"
    <3>1. oth = <<>>
      BY <2>1
    <3> QED BY <1>3, <2>1, <3>1 DEF Follows, Other
  <2>2. CASE Other # "none"
    <3>1. Len(r.oth) = n /\ (model.other = "recurrent" => r.oth = First(p, n))
      BY <1>1, <1>3, <2>2 DEF Follows, Other
    <3>2. /\ r.oth \o fed \in H /\ Len(r.oth \o fed) = Len(p)
          /\ r.oth = First(p, n) => r.oth \o fed = p
      <4>1. Completes(model, r.oth, p, n, a)
        BY <1>1, <1>2, <3>1, Completed
      <4> QED BY <4>1 DEF Completes
    <3>3. oth = r.oth \o fed
      BY <2>2
    <3> HIDE DEF oth
    <3> QED BY <3>1, <3>2, <3>3 DEF Follows
  <2> QED BY <2>1, <2>2
<1> HIDE DEF oth
<1>5. c \in CheckpointsOf(model) /\ SnapsSound(model, c, p)
  BY <1>4, SnapsPublished
<1>6. SnapsSound(model, r.cps, p)
  <2> SUFFICES ASSUME NEW i \in DOMAIN r.cps PROVE Lasting(model, r.cps[i], p)
    BY DEF SnapsSound
  <2>1. r.cps[i] \in CheckpointOf(model)
    BY <1>2, ElementOfSeq, LenProperties DEF CheckpointsOf
  <2>2. Lasting(model, r.cps[i], First(p, n))
    BY <1>1 DEF SnapsSound
  <2> QED BY <1>1, <1>2, <1>3, <2>1, <2>2, LastingLonger
<1>7. [Published(r, a, tails) EXCEPT !.cps = c] = Published(r, a, tails)
  <2> DEFINE kv == r.kv \o fed \o a
             others == IF Other = "none" THEN <<>> ELSE oth \o a
             tail == IF tails THEN [pos |-> Len(p), hist |-> r.kv \o fed] ELSE NoTail
             q == p \o a
             has == TRUE
             y == [has |-> has, processed |-> q, kv |-> kv, oth |-> others, cps |-> c,
                   tail |-> tail]
  <2>1. Published(r, a, tails) = y
    BY DEF Published, Fed, oth
  <2> HIDE DEF kv, others, tail, q, c, has
  <2>2. [y EXCEPT !.cps = c] = y
    OBVIOUS
  <2> HIDE DEF y
  <2> QED BY <2>1, <2>2, Zenon
<1> HIDE DEF c
<1>8. SessionSound(model, [Published(r, a, tails) EXCEPT !.cps = c])
  BY <1>5, EntrySound
<1>9. SessionSound(model, [Published(r, a, tails) EXCEPT !.cps = r.cps])
  BY <1>2, <1>6, EntrySound
<1> QED BY <1>7, <1>8, <1>9

(***************************************************************************)
(* The pool                                                                *)
(***************************************************************************)
LEMMA SlotsFacts ==
  /\ MaxSessions \in Nat \ {0} /\ Slots = 1..(MaxSessions + 1)
  /\ Slots \in SUBSET Int /\ 0 \notin Slots
  /\ IsFiniteSet(Slots) /\ Cardinality(Slots) = MaxSessions + 1
<1>1. MaxSessions \in Nat \ {0} /\ Slots = 1..(MaxSessions + 1)
  BY SizeAssumption
<1>2. MaxSessions + 1 \in Int /\ ~(1 > MaxSessions + 1)
  BY <1>1
<1>3. IsFiniteSet(Slots) /\ Cardinality(Slots) = MaxSessions + 1 - 1 + 1
  BY <1>1, <1>2, FS_Interval
<1>4. Cardinality(Slots) = MaxSessions + 1
  BY <1>1, <1>3
<1> QED BY <1>1, <1>3, <1>4

LEMMA ElementsCounted ==
  ASSUME NEW S, NEW p \in Seq(S)
  PROVE  /\ IsFiniteSet(Elements(p)) /\ Cardinality(Elements(p)) \in Nat
         /\ Cardinality(Elements(p)) <= Len(p) /\ Elements(p) = ToSet(p)
<1>1. IsFiniteSet(DOMAIN p) /\ Cardinality(DOMAIN p) = Len(p)
  BY PlacesCounted
<1>2. p \in Surjection(DOMAIN p, Elements(p))
  <2>1. p = [i \in DOMAIN p |-> p[i]]
    BY LenProperties
  <2> QED BY <2>1 DEF Surjection, Elements
<1>3. IsFiniteSet(Elements(p)) /\ Cardinality(Elements(p)) <= Cardinality(DOMAIN p)
  BY <1>1, <1>2, FS_Surjection
<1>4. Cardinality(Elements(p)) \in Nat
  BY <1>3, FS_CardinalityType
<1>5. Elements(p) = ToSet(p)
  BY DEF Elements, ToSet
<1> QED BY <1>1, <1>3, <1>4, <1>5

LEMMA NewestFacts ==
  ASSUME NEW p \in Seq(Slots), Distinct(p), NEW s \in Slots
  PROVE  /\ Newest(p, s) \in Seq(Slots) /\ Distinct(Newest(p, s))
         /\ Elements(Newest(p, s)) = Elements(p) \cup {s} /\ Len(p) \in Nat
         /\ s \in Elements(p) => Len(Newest(p, s)) = Len(p)
         /\ s \notin Elements(p) => Len(Newest(p, s)) = Len(p) + 1
<1> DEFINE q == RemoveFirst(p, s)
<1>1. q \in Seq(Slots) /\ Distinct(q) /\ Elements(q) = Elements(p) \ {s}
  BY RemoveFacts
<1>2. Len(p) \in Nat
  BY LenProperties
<1>3. s \in Elements(p) => Len(q) = Len(p) - 1
  <2> SUFFICES ASSUME s \in Elements(p) PROVE Len(q) = Len(p) - 1
    OBVIOUS
  <2>1. PICK k \in DOMAIN p : p[k] = s
    BY DEF Elements
  <2> QED BY <2>1, RemovePlace
<1>4. s \notin Elements(p) => q = p
  BY RemoveAbsent
<1> HIDE DEF q
<1>5. /\ Append(q, s) \in Seq(Slots) /\ Len(Append(q, s)) = Len(q) + 1 /\ Len(q) \in Nat
      /\ Elements(Append(q, s)) = Elements(q) \cup {s} /\ Distinct(Append(q, s))
  BY <1>1, AppendFacts
<1>6. Newest(p, s) = Append(q, s)
  BY DEF Newest, q
<1>7. (s \in Elements(p) => Len(q) + 1 = Len(p)) /\ (s \notin Elements(p) => Len(q) = Len(p))
  BY <1>2, <1>3, <1>4, <1>5
<1> QED BY <1>1, <1>2, <1>5, <1>6, <1>7

LEMMA UnclaimedFacts ==
  ASSUME Typed, Unclaimed # <<>>
  PROVE  Head(Unclaimed) \in Elements(pool) /\ Head(Unclaimed) \notin claimed
<1>1. Unclaimed \in Seq(Slots) /\ Elements(Unclaimed) = Elements(pool) \cap (Slots \ claimed)
  BY AmongFacts DEF Typed, Unclaimed
<1>2. Head(Unclaimed) \in Elements(Unclaimed)
  BY <1>1, TailFacts
<1> QED BY <1>1, <1>2

LEMMA MissFacts ==
  ASSUME Typed, PoolBounded, Owning, NEW s \in Slots, s \notin Elements(pool)
  PROVE  /\ PoolAfterMiss(s) \in Seq(Slots) /\ Distinct(PoolAfterMiss(s))
         /\ Len(PoolAfterMiss(s)) <= MaxSessions
         /\ claimed \subseteq Elements(PoolAfterMiss(s))
<1>1. pool \in Seq(Slots) /\ Distinct(pool) /\ Len(pool) \in Nat /\ Len(pool) <= MaxSessions
  BY LenProperties DEF Typed, PoolBounded
<1>2. MaxSessions \in Nat /\ claimed \subseteq Elements(pool)
  BY SizeAssumption DEF Owning
<1>3. CASE Len(pool) >= MaxSessions /\ Unclaimed # <<>>
  <2> DEFINE h == Head(Unclaimed)
             q == RemoveFirst(pool, h)
  <2>1. h \in Elements(pool) /\ h \notin claimed
    BY <1>3, UnclaimedFacts
  <2> HIDE DEF h
  <2>2. q \in Seq(Slots) /\ Distinct(q) /\ Elements(q) = Elements(pool) \ {h}
    BY <1>1, RemoveFacts
  <2>3. Len(q) = Len(pool) - 1
    <3>1. PICK k \in DOMAIN pool : pool[k] = h
      BY <2>1 DEF Elements
    <3> QED BY <1>1, <3>1, RemovePlace
  <2> HIDE DEF q
  <2>4. /\ Append(q, s) \in Seq(Slots) /\ Len(Append(q, s)) = Len(q) + 1
        /\ Elements(Append(q, s)) = Elements(q) \cup {s} /\ Distinct(Append(q, s))
    BY <2>2, AppendFacts
  <2>5. PoolAfterMiss(s) = Append(q, s)
    BY <1>3 DEF PoolAfterMiss, q, h
  <2>6. Len(Append(q, s)) <= MaxSessions
    BY <1>1, <1>2, <2>3, <2>4
  <2> QED BY <1>2, <2>1, <2>2, <2>4, <2>5, <2>6
<1>4. CASE ~(Len(pool) >= MaxSessions /\ Unclaimed # <<>>) /\ Len(pool) < MaxSessions
  <2>1. PoolAfterMiss(s) = Append(pool, s)
    BY <1>4 DEF PoolAfterMiss
  <2>2. /\ Append(pool, s) \in Seq(Slots) /\ Len(Append(pool, s)) = Len(pool) + 1
        /\ Elements(Append(pool, s)) = Elements(pool) \cup {s} /\ Distinct(Append(pool, s))
    BY <1>1, AppendFacts
  <2>3. Len(Append(pool, s)) <= MaxSessions
    BY <1>1, <1>2, <1>4, <2>2
  <2> QED BY <1>2, <2>1, <2>2, <2>3
<1>5. CASE ~(Len(pool) >= MaxSessions /\ Unclaimed # <<>>) /\ ~(Len(pool) < MaxSessions)
  <2>1. PoolAfterMiss(s) = pool
    BY <1>5 DEF PoolAfterMiss
  <2> QED BY <1>1, <1>2, <2>1
<1> QED BY <1>3, <1>4, <1>5

(* A session object is free when the serial path owns none. *)
LEMMA FreshFacts ==
  ASSUME Typed, PoolBounded, Owning, serial.slot = 0
  PROVE  Fresh \in Slots /\ Fresh \notin Elements(pool) /\ Fresh \notin claimed
<1>1. pool \in Seq(Slots) /\ Len(pool) \in Nat /\ Len(pool) <= MaxSessions
  BY LenProperties DEF Typed, PoolBounded
<1>2. /\ IsFiniteSet(Elements(pool)) /\ Cardinality(Elements(pool)) \in Nat
      /\ Cardinality(Elements(pool)) <= Len(pool) /\ Elements(pool) = InPool
  BY <1>1, ElementsCounted DEF InPool
<1>3. Used \subseteq Elements(pool) \cup {0} /\ Elements(pool) \subseteq Used
  BY <1>2 DEF Used, Owning
<1>4. Slots \ Used # {}
  <2> SUFFICES ASSUME Slots \ Used = {} PROVE FALSE
    OBVIOUS
  <2>1. Slots \subseteq Elements(pool)
    BY <1>3, SlotsFacts
  <2>2. Cardinality(Slots) <= Cardinality(Elements(pool))
    BY <1>2, <2>1, FS_Subset
  <2> QED BY <1>1, <1>2, <2>2, SlotsFacts
<1>5. \E s \in Slots \ Used : \A t \in Slots \ Used : s <= t
  <2> DEFINE F == Slots \ Used
  <2>1. F \in SUBSET Slots
    OBVIOUS
  <2>2. F # {}
    BY <1>4
  <2> HIDE DEF F
  <2>3. IsFiniteSet(F) /\ F \in SUBSET Int
    BY <2>1, SlotsFacts, FS_Subset
  <2>4. \E s \in F : \A t \in F : s <= t
    BY <2>2, <2>3, LeastExists
  <2> QED BY <2>4 DEF F
<1>6. Fresh \in Slots \ Used
  BY <1>5 DEF Fresh
<1> QED BY <1>3, <1>6 DEF Owning

LEMMA PositionFacts ==
  ASSUME Typed
  PROVE  /\ InPool = Elements(pool) /\ InPool \subseteq Slots /\ IsFiniteSet(InPool)
         /\ \A s \in InPool : Position(s) \in Int
<1>1. pool \in Seq(Slots) /\ DOMAIN pool \subseteq Int
  BY LenProperties DEF Typed
<1>2. InPool = Elements(pool) /\ IsFiniteSet(InPool) /\ InPool \subseteq Slots
  BY <1>1, ElementsCounted, ElementsType DEF InPool
<1>3. ASSUME NEW s \in InPool PROVE Position(s) \in Int
  <2>1. \E i \in DOMAIN pool : pool[i] = s
    BY <1>2 DEF Elements
  <2>2. Position(s) \in DOMAIN pool
    BY <2>1 DEF Position
  <2> QED BY <1>1, <2>2
<1> QED BY <1>2, <1>3

LEMMA BestFacts ==
  ASSUME Typed, NEW S \in SUBSET InPool, S # {}, NEW prompt,
         \A s \in S : Lcp(sess[s], prompt) \in Int
  PROVE  Best(S, prompt) \in S
<1> DEFINE f == [s \in S |-> Lcp(sess[s], prompt)]
           g == [s \in S |-> Position(s)]
<1>1. IsFiniteSet(S) /\ f \in [S -> Int] /\ g \in [S -> Int]
  <2>1. IsFiniteSet(S)
    BY PositionFacts, FS_Subset
  <2>2. \A s \in S : Position(s) \in Int
    BY PositionFacts
  <2> QED BY <2>1, <2>2
<1>2. \A s \in S : f[s] = Lcp(sess[s], prompt) /\ g[s] = Position(s)
  OBVIOUS
<1> HIDE DEF f, g
<1>3. \E s \in S : \A t \in S : f[t] < f[s] \/ (f[t] = f[s] /\ g[s] <= g[t])
  BY <1>1, BestExists
<1>4. \E s \in S : \A t \in S :
        \/ Lcp(sess[t], prompt) < Lcp(sess[s], prompt)
        \/ Lcp(sess[t], prompt) = Lcp(sess[s], prompt) /\ Position(s) <= Position(t)
  BY <1>2, <1>3
<1> QED BY <1>4 DEF Best

(***************************************************************************)
(* Steps                                                                   *)
(***************************************************************************)

(* The request of every place, and that it owns a session. *)
LEMMA BatchFacts ==
  ASSUME IInv, NEW b \in Batch
  PROVE  /\ RequestSound(model, batch[b]) /\ batch[b] \in OwnersOf(model)
         /\ batch[b].st \in {"idle", "claimed", "running", "over"}
         /\ batch[b].st = "idle" => batch[b].slot = 0
         /\ batch[b].st # "idle" => /\ batch[b].slot \in Slots /\ batch[b].slot # 0
                                    /\ batch[b].slot \in claimed
                                    /\ batch[b].slot # serial.slot
                                    /\ batch[b].prompt \in Prompts[model]
<1>1. RequestSound(model, batch[b]) /\ batch[b].st \in {"idle", "claimed", "running", "over"}
  BY DEF IInv, BatchSound, Control
<1>2. batch[b] \in OwnersOf(model)
  BY <1>1 DEF RequestSound
<1>3. batch[b].st = "idle" => batch[b].slot = 0
  BY <1>1 DEF RequestSound, Idle, Waiting
<1>4. batch[b].st # "idle" => batch[b].slot \in Slots /\ batch[b].prompt \in Prompts[model]
  BY <1>1 DEF RequestSound
<1>5. batch[b].slot # 0 => batch[b].slot \in claimed /\ batch[b].slot # serial.slot
  BY DEF IInv, Owning
<1> QED BY <1>1, <1>2, <1>3, <1>4, <1>5, SlotsFacts

LEMMA SerialFacts ==
  ASSUME IInv
  PROVE  /\ RequestSound(model, serial) /\ serial \in OwnersOf(model)
         /\ serial.st \in {"idle", "locked", "selected", "running"}
         /\ serial.st \in {"idle", "locked"} => serial.slot = 0
         /\ serial.st \notin {"idle", "locked"} => /\ serial.slot \in Slots
                                                   /\ serial.slot \notin claimed
         /\ serial.st # "idle" => serial.prompt \in Prompts[model]
<1>1. RequestSound(model, serial) /\ serial.st \in {"idle", "locked", "selected", "running"}
  BY DEF IInv, SerialSound, Control
<1>2. serial \in OwnersOf(model)
  BY <1>1 DEF RequestSound
<1>3. serial.st \in {"idle", "locked"} => serial.slot = 0
  BY <1>1 DEF RequestSound, Idle, Waiting
<1>4. serial.st \notin {"idle", "locked"} => serial.slot \in Slots
  BY <1>1 DEF RequestSound
<1>5. serial.st # "idle" => serial.prompt \in Prompts[model]
  BY <1>1 DEF RequestSound
<1>6. serial.slot \in Slots => serial.slot \notin claimed
  BY SlotsFacts DEF IInv, Owning
<1> QED BY <1>1, <1>2, <1>3, <1>4, <1>5, <1>6

LEMMA SessionPut ==
  ASSUME IInv, UNCHANGED model, NEW k \in Slots, NEW v, SessionSound(model, v),
         sess' = [sess EXCEPT ![k] = v]
  PROVE  /\ SessionsSound' /\ DOMAIN sess' = Slots /\ sess' = [s \in Slots |-> sess'[s]]
         /\ sess'[k] = v /\ \A s \in Slots : s # k => sess'[s] = sess[s]
<1>1. DOMAIN sess = Slots
  BY DEF IInv, Typed
<1>2. /\ DOMAIN sess' = Slots /\ sess' = [s \in Slots |-> sess'[s]]
      /\ sess'[k] = v /\ \A s \in Slots : s # k => sess'[s] = sess[s]
  BY <1>1
<1>3. \A s \in Slots : SessionSound(model, sess'[s])
  BY <1>2 DEF IInv, SessionsSound
<1> QED BY <1>2, <1>3 DEF SessionsSound

LEMMA BatchPut ==
  ASSUME IInv, UNCHANGED model, NEW b \in Batch, NEW v, RequestSound(model, v),
         batch' = [batch EXCEPT ![b] = v]
  PROVE  /\ BatchSound' /\ DOMAIN batch' = Batch /\ batch' = [c \in Batch |-> batch'[c]]
         /\ batch'[b] = v /\ \A c \in Batch : c # b => batch'[c] = batch[c]
<1>1. DOMAIN batch = Batch
  BY DEF IInv, Typed
<1>2. /\ DOMAIN batch' = Batch /\ batch' = [c \in Batch |-> batch'[c]]
      /\ batch'[b] = v /\ \A c \in Batch : c # b => batch'[c] = batch[c]
  BY <1>1
<1>3. \A c \in Batch : RequestSound(model, batch'[c])
  BY <1>2 DEF IInv, BatchSound
<1> QED BY <1>2, <1>3 DEF BatchSound

(* What the selection of a session for a prompt leaves. *)
LEMMA SelectingKeeps ==
  ASSUME IInv, NEW prompt \in Prompts[model], NEW s \in Slots, serial.slot = 0,
         Selecting(prompt, s), UNCHANGED <<model, claimed, batch>>
  PROVE  /\ pool' \in Seq(Slots) /\ PoolBounded' /\ claimed \subseteq Elements(pool')
         /\ SessionsSound' /\ DOMAIN sess' = Slots /\ sess' = [q \in Slots |-> sess'[q]]
         /\ s \notin claimed /\ \A q \in claimed : sess'[q] = sess[q]
         /\ sess'[s].has /\ Len(sess'[s].processed) = Len(prompt)
              => sess'[s].tail.pos = Len(prompt)
<1>1. /\ Typed /\ PoolBounded /\ Owning /\ pool \in Seq(Slots) /\ Distinct(pool)
      /\ Len(pool) <= MaxSessions /\ claimed \subseteq Elements(pool)
      /\ \A q \in Slots : SessionSound(model, sess[q])
      /\ DOMAIN sess = Slots /\ sess = [q \in Slots |-> sess[q]] /\ claimed \subseteq Slots
      /\ model \in Models
  BY DEF IInv, Typed, PoolBounded, Owning, SessionsSound
<1>2. prompt \in HistoriesOf(model) /\ prompt # <<>> /\ Len(prompt) \in Nat
  <2>1. prompt \in HistoriesOf(model) /\ prompt # <<>>
    BY <1>1, PromptTypes
  <2> QED BY <2>1, LenProperties DEF HistoriesOf
<1>3. \A q \in Slots : /\ Lcp(sess[q], prompt) \in Nat
                       /\ Lcp(sess[q], prompt) <= Len(sess[q].processed)
                       /\ Lcp(sess[q], prompt) = Len(prompt) => sess[q].tail.pos = Len(prompt)
  BY <1>1, <1>2, LcpFacts
<1>4. InPool = Elements(pool) /\ InPool \subseteq Slots
  BY <1>1, PositionFacts
<1>5. ASSUME NEW k \in Elements(pool), pool' = Newest(pool, k)
      PROVE  pool' \in Seq(Slots) /\ PoolBounded' /\ claimed \subseteq Elements(pool')
  <2>1. k \in Slots
    BY <1>4, <1>5
  <2>2. /\ pool' \in Seq(Slots) /\ Distinct(pool') /\ Elements(pool') = Elements(pool) \cup {k}
        /\ Len(pool') = Len(pool)
    BY <1>1, <1>5, <2>1, NewestFacts, ZenonT(40)
  <2> QED BY <1>1, <2>2 DEF PoolBounded
<1>6. CASE /\ Whole(prompt) # {} /\ s = Best(Whole(prompt), prompt)
           /\ pool' = Newest(pool, s) /\ UNCHANGED sess
  <2>1. Whole(prompt) \in SUBSET InPool /\ \A q \in Whole(prompt) : Lcp(sess[q], prompt) \in Int
    <3>1. Whole(prompt) \in SUBSET InPool
      BY DEF Whole
    <3> QED BY <1>3, <1>4, <3>1
  <2>2. s \in Whole(prompt)
    BY <1>1, <1>6, <2>1, BestFacts
  <2>3. s \in Elements(pool) /\ s \notin claimed /\ Lcp(sess[s], prompt) = Len(sess[s].processed)
    BY <1>4, <2>2 DEF Whole, Held
  <2>4. Len(sess[s].processed) = Len(prompt) => sess[s].tail.pos = Len(prompt)
    BY <1>3, <2>3
  <2>5. SessionsSound'
    BY <1>1, <1>6 DEF SessionsSound
  <2>6. pool' \in Seq(Slots) /\ PoolBounded' /\ claimed \subseteq Elements(pool')
    BY <1>5, <1>6, <2>3
  <2> QED BY <1>1, <1>6, <2>3, <2>4, <2>5, <2>6
<1>7. CASE /\ Partial(prompt) # {} /\ s = Best(Partial(prompt), prompt)
           /\ pool' = Newest(pool, s)
           /\ sess' = [sess EXCEPT ![s] = Rewound(@, Lcp(@, prompt))]
  <2> DEFINE x == sess[s]
             n == Lcp(x, prompt)
             y == Rewound(x, n)
  <2>1. /\ Partial(prompt) \in SUBSET InPool
        /\ \A q \in Partial(prompt) : Lcp(sess[q], prompt) \in Int
    <3>1. Partial(prompt) \in SUBSET InPool
      BY DEF Partial
    <3> QED BY <1>3, <1>4, <3>1
  <2>2. s \in Partial(prompt)
    BY <1>1, <1>7, <2>1, BestFacts
  <2>3. /\ s \in Elements(pool) /\ s \notin claimed /\ 0 < n /\ n < Len(x.processed)
        /\ CanRewind(x, n)
    BY <1>4, <2>2 DEF Partial, Held
  <2>4. SessionSound(model, x) /\ n \in Nat \ {0} /\ (n = Len(prompt) => x.tail.pos = n)
    BY <1>1, <1>3, <2>3
  <2> HIDE DEF x, n
  <2>5. SessionSound(model, y) /\ Rewinds(x, y, n)
    <3>1. CASE CanTrim(x)
      BY <1>1, <2>3, <2>4, <3>1, TrimmedSound DEF Rewound
    <3>2. CASE ~CanTrim(x)
      <4>1. CanRestore(x, n)
        BY <2>3, <3>2 DEF CanRewind
      <4> QED BY <1>1, <2>3, <2>4, <3>2, <4>1, RestoredSound DEF Rewound
    <3> QED BY <3>1, <3>2
  <2>6. sess' = [sess EXCEPT ![s] = y]
    BY <1>7 DEF x, n
  <2> HIDE DEF y
  <2>7. /\ SessionsSound' /\ DOMAIN sess' = Slots /\ sess' = [q \in Slots |-> sess'[q]]
        /\ sess'[s] = y /\ \A q \in Slots : q # s => sess'[q] = sess[q]
    BY <2>5, <2>6, SessionPut
  <2>8. Len(y.processed) = Len(prompt) => y.tail.pos = Len(prompt)
    <3> SUFFICES ASSUME Len(y.processed) = Len(prompt) PROVE y.tail.pos = Len(prompt)
      OBVIOUS
    <3>1. Len(prompt) <= n
      BY <2>5 DEF Rewinds
    <3>2. n <= Len(prompt)
      BY <1>1, <1>2, LcpFacts DEF n, x
    <3>3. n = Len(prompt)
      BY <1>2, <2>4, <3>1, <3>2
    <3> QED BY <2>4, <2>5, <3>3 DEF Rewinds
  <2>9. pool' \in Seq(Slots) /\ PoolBounded' /\ claimed \subseteq Elements(pool')
    BY <1>5, <1>7, <2>3
  <2>10. \A q \in claimed : sess'[q] = sess[q]
    BY <1>1, <2>3, <2>7
  <2> QED BY <2>3, <2>7, <2>8, <2>9, <2>10
<1>8. CASE /\ s = Fresh /\ pool' = PoolAfterMiss(s)
           /\ sess' = [q \in Slots |-> IF q \in ToSet(pool') \ {s} THEN sess[q] ELSE Invalid]
  <2>1. s \notin Elements(pool) /\ s \notin claimed
    BY <1>1, <1>8, FreshFacts
  <2>2. /\ pool' \in Seq(Slots) /\ Distinct(pool') /\ Len(pool') <= MaxSessions
        /\ claimed \subseteq Elements(pool')
    BY <1>1, <1>8, <2>1, MissFacts
  <2>3. Elements(pool') = ToSet(pool')
    BY DEF Elements, ToSet
  <2>4. \A q \in Slots : SessionSound(model, sess'[q])
    BY <1>1, <1>8, InvalidSound
  <2>5. \A q \in claimed : sess'[q] = sess[q]
    BY <1>1, <1>8, <2>1, <2>2, <2>3
  <2>6. ~sess'[s].has
    BY <1>8 DEF Invalid
  <2>7. DOMAIN sess' = Slots /\ sess' = [q \in Slots |-> sess'[q]]
    BY <1>8
  <2>8. SessionsSound' /\ PoolBounded'
    BY <2>2, <2>4 DEF SessionsSound, PoolBounded
  <2> QED BY <2>1, <2>2, <2>5, <2>6, <2>7, <2>8
<1> QED BY <1>6, <1>7, <1>8 DEF Selecting

(* A step of the serial path, or of a selection left behind. *)
LEMMA SerialStep ==
  ASSUME IInv, UNCHANGED <<model, claimed, batch>>,
         pool' \in Seq(Slots), PoolBounded', claimed \subseteq Elements(pool'),
         SessionsSound', DOMAIN sess' = Slots, sess' = [q \in Slots |-> sess'[q]],
         \A q \in claimed : sess'[q] = sess[q],
         RequestSound(model, serial'), serial'.slot \notin claimed,
         serial'.st \in {"idle", "locked", "selected", "running"},
         serial'.st = "selected" => SelectedSound(sess'[serial'.slot], serial'),
         orphan' # <<>> => serial'.st \in {"idle", "locked"} /\ orphan' \in Prompts[model]
  PROVE  IInv'
<1>1. Typed'
  BY DEF IInv, Typed
<1>2. BatchSound' /\ SerialSound'
  BY DEF IInv, BatchSound, SerialSound
<1>3. Control'
  BY DEF IInv, Control
<1>4. Owning'
  <2>1. \A b \in Batch : batch[b].slot # 0 => /\ batch[b].slot \in claimed
                            /\ \A c \in Batch : c # b => batch[c].slot # batch[b].slot
    BY DEF IInv, Owning
  <2>2. \A s \in claimed : \E b \in Batch : batch[b].slot = s
    BY DEF IInv, Owning
  <2> QED BY <2>1, <2>2 DEF Owning
<1>5. ClaimKept'
  <2> SUFFICES ASSUME NEW b \in Batch, batch[b].st = "claimed", batch[b].reused > 0
               PROVE  /\ sess'[batch[b].slot].has
                      /\ sess'[batch[b].slot].processed = First(batch[b].prompt, batch[b].reused)
    BY DEF ClaimKept
  <2>1. batch[b].slot \in claimed
    BY BatchFacts
  <2> QED BY <2>1 DEF IInv, ClaimKept
<1> QED BY <1>1, <1>2, <1>3, <1>4, <1>5 DEF IInv

(* What a step of a batch admission does to sessions, pool and claims: it    *)
(* writes at most to one session, and all that changes in the claims is that *)
(* the request of b becomes v.                                              *)
SessionsStay(k) ==
  /\ SessionsSound' /\ DOMAIN sess' = Slots /\ sess' = [q \in Slots |-> sess'[q]]
  /\ \A q \in Slots : q # k => sess'[q] = sess[q]

PoolStays ==
  /\ pool' \in Seq(Slots) /\ PoolBounded'
  /\ claimed' \subseteq Elements(pool') /\ claimed' \subseteq Slots

Exchanged(b, v) ==
  /\ v.slot # 0 => /\ v.slot \in claimed' /\ v.slot # serial.slot
                   /\ \A c \in Batch : c # b => batch[c].slot # v.slot
  /\ \A q \in claimed' : q # v.slot => q \in claimed /\ q # batch[b].slot
  /\ \A c \in Batch : c # b /\ batch[c].slot # 0 => batch[c].slot \in claimed'

Promised(v) ==
  v.st = "claimed" /\ v.reused > 0 =>
    sess'[v.slot].has /\ sess'[v.slot].processed = First(v.prompt, v.reused)

LEMMA BatchStep ==
  ASSUME IInv, UNCHANGED <<model, serial, orphan>>, NEW b \in Batch, NEW v,
         batch' = [batch EXCEPT ![b] = v], RequestSound(model, v),
         v.st \in {"idle", "claimed", "running", "over"},
         PoolStays, SessionsStay(v.slot), Exchanged(b, v), Promised(v)
  PROVE  IInv'
<1> USE DEF PoolStays, SessionsStay, Exchanged, Promised
<1>1. /\ BatchSound' /\ DOMAIN batch' = Batch /\ batch' = [c \in Batch |-> batch'[c]]
      /\ batch'[b] = v /\ \A c \in Batch : c # b => batch'[c] = batch[c]
  BY BatchPut
<1>2. Typed'
  BY <1>1 DEF IInv, Typed
<1>3. SerialSound'
  <2>1. RequestSound(model, serial)
    BY SerialFacts
  <2>2. ASSUME serial.st = "selected" PROVE SelectedSound(sess'[serial.slot], serial)
    <3>1. serial.slot \in Slots /\ serial.slot # v.slot
      BY <2>2, SerialFacts, SlotsFacts
    <3> QED BY <2>2, <3>1 DEF IInv, SerialSound
  <2> QED BY <2>1, <2>2 DEF SerialSound
<1>4. Control'
  BY <1>1 DEF IInv, Control
<1>5. Owning'
  <2>1. ASSUME NEW c \in Batch, batch'[c].slot # 0
        PROVE  /\ batch'[c].slot \in claimed' /\ batch'[c].slot # serial'.slot
               /\ \A d \in Batch : d # c => batch'[d].slot # batch'[c].slot
    <3>1. CASE c = b
      BY <1>1, <2>1, <3>1
    <3>2. CASE c # b
      <4>1. batch'[c] = batch[c] /\ batch[c].slot \in claimed'
        BY <1>1, <2>1, <3>2
      <4>2. /\ batch[c].slot # serial.slot
            /\ \A d \in Batch : d # c => batch[d].slot # batch[c].slot
        BY <2>1, <4>1 DEF IInv, Owning
      <4>3. v.slot # batch[c].slot
        BY <2>1, <3>2, <4>1
      <4> QED BY <1>1, <4>1, <4>2, <4>3
    <3> QED BY <3>1, <3>2
  <2>2. ASSUME NEW q \in claimed' PROVE \E c \in Batch : batch'[c].slot = q
    <3>1. CASE q = v.slot
      BY <1>1, <3>1
    <3>2. CASE q # v.slot
      <4>1. q \in claimed /\ q # batch[b].slot
        BY <3>2
      <4>2. PICK c \in Batch : batch[c].slot = q
        BY <4>1 DEF IInv, Owning
      <4> QED BY <1>1, <4>1, <4>2
    <3> QED BY <3>1, <3>2
  <2> QED BY <2>1, <2>2 DEF Owning
<1>6. ClaimKept'
  <2> SUFFICES ASSUME NEW c \in Batch, batch'[c].st = "claimed", batch'[c].reused > 0
               PROVE  /\ sess'[batch'[c].slot].has
                      /\ sess'[batch'[c].slot].processed
                           = First(batch'[c].prompt, batch'[c].reused)
    BY DEF ClaimKept
  <2>1. CASE c = b
    BY <1>1, <2>1
  <2>2. CASE c # b
    <3>1. batch'[c] = batch[c]
      BY <1>1, <2>2
    <3>2. batch[c].slot \in Slots /\ batch[c].slot # 0
      BY <3>1, BatchFacts
    <3>3. sess'[batch[c].slot] = sess[batch[c].slot]
      BY <2>2, <3>2
    <3> QED BY <3>1, <3>3 DEF IInv, ClaimKept
  <2> QED BY <2>1, <2>2
<1> QED BY <1>2, <1>1, <1>3, <1>4, <1>5, <1>6 DEF IInv

(* A step that leaves sessions and pool alone satisfies what SerialStep and  *)
(* BatchStep ask of them.                                                   *)
LEMMA Untouched ==
  ASSUME IInv, UNCHANGED <<model, pool, sess>>
  PROVE  /\ pool' \in Seq(Slots) /\ PoolBounded' /\ claimed \subseteq Elements(pool')
         /\ SessionsSound' /\ DOMAIN sess' = Slots /\ sess' = [q \in Slots |-> sess'[q]]
  BY DEF IInv, Typed, PoolBounded, Owning, SessionsSound

(* A request that waits, however far it got. *)
LEMMA WaitSound ==
  ASSUME NEW m \in Models, NEW prompt \in Prompts[m], NEW st, NEW slot, NEW reused \in Nat,
         \/ st = "locked" /\ slot = 0 /\ reused = 0
         \/ st = "selected" /\ slot \in Slots /\ reused = 0
         \/ st = "claimed" /\ slot \in Slots /\ reused <= Len(prompt)
  PROVE  RequestSound(m, Waiting(st, slot, prompt, reused))
<1> DEFINE w == Waiting(st, slot, prompt, reused)
<1>1. prompt \in HistoriesOf(m) /\ <<>> \in HistoriesOf(m) /\ <<>> \in CheckpointsOf(m)
  BY PromptTypes, EmptyHistory
<1>2. w \in OwnersOf(m)
  BY <1>1 DEF Waiting, OwnersOf, States
<1>3. Empty(w) /\ w.st = st /\ w.slot = slot /\ w.prompt = prompt /\ w.reused = reused
  BY DEF Waiting, Empty
<1> HIDE DEF w
<1>4. RequestSound(m, w)
  BY <1>2, <1>3, WaitingSound
<1> QED BY <1>4 DEF w

(***************************************************************************)
(* The serial path                                                         *)
(***************************************************************************)
LEMMA LockKeeps ==
  ASSUME IInv, UNCHANGED model, NEW p \in Prompts[model], Lock(p)
  PROVE  IInv'
<1> DEFINE w == Waiting("locked", 0, p, 0)
<1>1. /\ serial.st = "idle" /\ serial' = w /\ UNCHANGED <<pool, sess, claimed, orphan, batch>>
      /\ model \in Models
  BY DEF Lock, IInv, Typed
<1>2. RequestSound(model, w)
  BY <1>1, WaitSound
<1>3. w.st = "locked" /\ w.slot = 0
  BY DEF Waiting
<1>4. 0 \notin claimed
  BY SlotsFacts DEF IInv, Typed
<1>5. orphan # <<>> => orphan \in Prompts[model]
  BY DEF IInv, Control
<1> HIDE DEF w
<1> QED BY <1>1, <1>2, <1>3, <1>4, <1>5, Untouched, SerialStep

LEMMA SelectKeeps ==
  ASSUME IInv, UNCHANGED model, Select
  PROVE  IInv'
<1>1. /\ serial.st = "locked" /\ orphan = <<>> /\ UNCHANGED <<claimed, orphan, batch>>
      /\ serial.slot = 0 /\ serial.prompt \in Prompts[model] /\ model \in Models
  BY SerialFacts DEF Select, IInv, Typed
<1>2. PICK s \in Slots : /\ Selecting(serial.prompt, s)
                         /\ serial' = Waiting("selected", s, serial.prompt, 0)
  BY DEF Select
<1> DEFINE w == Waiting("selected", s, serial.prompt, 0)
<1>3. /\ pool' \in Seq(Slots) /\ PoolBounded' /\ claimed \subseteq Elements(pool')
      /\ SessionsSound' /\ DOMAIN sess' = Slots /\ sess' = [q \in Slots |-> sess'[q]]
      /\ s \notin claimed /\ \A q \in claimed : sess'[q] = sess[q]
      /\ sess'[s].has /\ Len(sess'[s].processed) = Len(serial.prompt)
           => sess'[s].tail.pos = Len(serial.prompt)
  BY <1>1, <1>2, SelectingKeeps
<1>4. RequestSound(model, w)
  BY <1>1, WaitSound
<1>5. w.st = "selected" /\ w.slot = s /\ w.prompt = serial.prompt
  BY DEF Waiting
<1>6. serial' = w
  BY <1>2
<1> HIDE DEF w
<1>7. SelectedSound(sess'[w.slot], w)
  BY <1>3, <1>5 DEF SelectedSound
<1> QED BY <1>1, <1>3, <1>4, <1>5, <1>6, <1>7, SerialStep

LEMMA AbandonKeeps ==
  ASSUME IInv, UNCHANGED model, Abandon
  PROVE  IInv'
<1>1. /\ serial.st \in {"locked", "selected"} /\ serial' = Idle
      /\ UNCHANGED <<pool, sess, claimed, batch>> /\ model \in Models
      /\ orphan' \in IF serial.st = "locked" /\ orphan = <<>>
                       THEN {<<>>, serial.prompt} ELSE {orphan}
  BY DEF Abandon, IInv, Typed
<1>2. RequestSound(model, Idle) /\ Idle.st = "idle" /\ Idle.slot = 0
  BY <1>1, IdleSound DEF Idle, Waiting
<1>3. 0 \notin claimed
  BY SlotsFacts DEF IInv, Typed
<1>4. orphan' # <<>> => orphan' \in Prompts[model]
  BY <1>1, SerialFacts DEF IInv, Control
<1> QED BY <1>1, <1>2, <1>3, <1>4, Untouched, SerialStep

LEMMA SelectOrphanKeeps ==
  ASSUME IInv, UNCHANGED model, SelectOrphan
  PROVE  IInv'
<1>1. /\ orphan # <<>> /\ orphan' = <<>> /\ UNCHANGED <<claimed, serial, batch>>
      /\ serial.st \in {"idle", "locked"} /\ orphan \in Prompts[model] /\ serial.slot = 0
  BY SerialFacts DEF SelectOrphan, IInv, Control
<1>2. PICK s \in Slots : Selecting(orphan, s)
  BY DEF SelectOrphan
<1>3. /\ pool' \in Seq(Slots) /\ PoolBounded' /\ claimed \subseteq Elements(pool')
      /\ SessionsSound' /\ DOMAIN sess' = Slots /\ sess' = [q \in Slots |-> sess'[q]]
      /\ \A q \in claimed : sess'[q] = sess[q]
  BY <1>1, <1>2, SelectingKeeps
<1>4. RequestSound(model, serial) /\ 0 \notin claimed
  BY SerialFacts, SlotsFacts DEF IInv, Typed
<1> QED BY <1>1, <1>3, <1>4, SerialStep

LEMMA GenerateKeeps ==
  ASSUME IInv, UNCHANGED model, Generate
  PROVE  IInv'
<1> DEFINE x == sess[serial.slot]
           k == serial.slot
<1>1. /\ serial.st = "selected" /\ serial' = Owner(serial, x)
      /\ sess' = IF Reusable(x, serial.prompt) THEN [sess EXCEPT ![k] = Invalid] ELSE sess
      /\ UNCHANGED <<pool, claimed, orphan, batch>>
      /\ model \in Models
  BY DEF Generate, IInv, Typed
<1>2. k \in Slots /\ k \notin claimed /\ RequestSound(model, serial)
  BY <1>1, SerialFacts
<1>3. SessionSound(model, x) /\ SelectedSound(x, serial)
  BY <1>1, <1>2 DEF IInv, SessionsSound, SerialSound
<1>4. RequestSound(model, Owner(serial, x))
  BY <1>1, <1>2, <1>3, OwnerSound
<1>5. Owner(serial, x).st = "running" /\ Owner(serial, x).slot = k
  BY DEF Owner, Running
<1>6. orphan = <<>>
  BY <1>1 DEF IInv, Control
<1>7. pool' \in Seq(Slots) /\ PoolBounded' /\ claimed \subseteq Elements(pool')
  BY <1>1 DEF IInv, Typed, PoolBounded, Owning
<1> HIDE DEF x
<1>8. /\ SessionsSound' /\ DOMAIN sess' = Slots /\ sess' = [q \in Slots |-> sess'[q]]
      /\ \A q \in claimed : sess'[q] = sess[q]
  <2>1. CASE Reusable(x, serial.prompt)
    <3>1. SessionSound(model, Invalid) /\ sess' = [sess EXCEPT ![k] = Invalid]
      BY <1>1, <2>1, InvalidSound
    <3> HIDE DEF k
    <3>2. /\ SessionsSound' /\ DOMAIN sess' = Slots /\ sess' = [q \in Slots |-> sess'[q]]
          /\ \A q \in Slots : q # k => sess'[q] = sess[q]
      BY <1>2, <3>1, SessionPut
    <3>3. claimed \subseteq Slots
      BY DEF IInv, Typed
    <3> QED BY <1>2, <3>2, <3>3
  <2>2. CASE ~Reusable(x, serial.prompt)
    <3>1. UNCHANGED sess
      BY <1>1, <2>2
    <3> QED BY <1>1, <3>1, Untouched
  <2> QED BY <2>1, <2>2
<1> QED BY <1>1, <1>2, <1>4, <1>5, <1>6, <1>7, <1>8, SerialStep

LEMMA FailKeeps ==
  ASSUME IInv, UNCHANGED model, Fail
  PROVE  IInv'
<1>1. /\ serial' = Idle /\ UNCHANGED <<pool, sess, claimed, orphan, batch>>
      /\ model \in Models
  BY DEF Fail, IInv, Typed
<1>2. RequestSound(model, Idle) /\ Idle.st = "idle" /\ Idle.slot = 0
  BY <1>1, IdleSound DEF Idle, Waiting
<1>3. 0 \notin claimed
  BY SlotsFacts DEF IInv, Typed
<1>4. orphan' # <<>> => orphan' \in Prompts[model]
  BY <1>1 DEF IInv, Control
<1> QED BY <1>1, <1>2, <1>3, <1>4, Untouched, SerialStep

LEMMA SucceedKeeps ==
  ASSUME IInv, UNCHANGED model, NEW a \in Answers[model], Succeed(a)
  PROVE  IInv'
<1> DEFINE k == serial.slot
           y == Published(serial, a, KeepsTail)
<1>1. /\ serial.st = "running" /\ serial' = Idle /\ sess' = [sess EXCEPT ![k] = y]
      /\ UNCHANGED <<pool, claimed, orphan, batch>> /\ model \in Models
  BY DEF Succeed, IInv, Typed
<1>2. k \in Slots /\ k \notin claimed /\ RequestSound(model, serial)
  BY <1>1, SerialFacts
<1>3. a \in HistoriesOf(model) /\ KeepsTail \in BOOLEAN
  BY <1>1, PromptTypes, SizeAssumption DEF KeepsTail
<1>4. SessionSound(model, y)
  BY <1>1, <1>2, <1>3, PublishedSound
<1> HIDE DEF y, k
<1>5. /\ SessionsSound' /\ DOMAIN sess' = Slots /\ sess' = [q \in Slots |-> sess'[q]]
      /\ \A q \in Slots : q # k => sess'[q] = sess[q]
  BY <1>1, <1>2, <1>4, SessionPut
<1>6. RequestSound(model, Idle) /\ Idle.st = "idle" /\ Idle.slot = 0
  BY <1>1, IdleSound DEF Idle, Waiting
<1>7. 0 \notin claimed /\ claimed \subseteq Slots
  BY SlotsFacts DEF IInv, Typed
<1>8. orphan' # <<>> => orphan' \in Prompts[model]
  BY <1>1 DEF IInv, Control
<1>9. pool' \in Seq(Slots) /\ PoolBounded' /\ claimed \subseteq Elements(pool')
  BY <1>1 DEF IInv, Typed, PoolBounded, Owning
<1>10. \A q \in claimed : sess'[q] = sess[q]
  BY <1>2, <1>5, <1>7
<1> QED BY <1>1, <1>5, <1>6, <1>7, <1>8, <1>9, <1>10, SerialStep

(***************************************************************************)
(* The batch path                                                          *)
(***************************************************************************)

(* A claim of an unclaimed session for an idle place. *)
LEMMA MarkKeeps ==
  ASSUME IInv, UNCHANGED <<model, serial, orphan>>, NEW b \in Batch,
         NEW prompt \in Prompts[model], NEW s \in Slots, NEW n \in Nat, n <= Len(prompt),
         batch[b].st = "idle", serial.slot = 0, s \notin claimed, Mark(b, s, prompt, n, pool),
         s \in Elements(pool) \/ Len(pool) < MaxSessions,
         SessionsSound', DOMAIN sess' = Slots, sess' = [q \in Slots |-> sess'[q]],
         \A q \in Slots : q # s => sess'[q] = sess[q],
         n > 0 => sess'[s].has /\ sess'[s].processed = First(prompt, n)
  PROVE  IInv'
<1> DEFINE v == Waiting("claimed", s, prompt, n)
<1>1. /\ claimed' = claimed \cup {s} /\ pool' = Newest(pool, s)
      /\ batch' = [batch EXCEPT ![b] = v]
  BY DEF Mark
<1>2. /\ pool \in Seq(Slots) /\ Distinct(pool) /\ Len(pool) <= MaxSessions /\ Len(pool) \in Nat
      /\ claimed \subseteq Elements(pool) /\ claimed \subseteq Slots /\ model \in Models
      /\ MaxSessions \in Nat
  BY LenProperties, SizeAssumption DEF IInv, Typed, PoolBounded, Owning
<1>3. RequestSound(model, v)
  BY <1>2, WaitSound
<1>4. v.st = "claimed" /\ v.slot = s /\ v.prompt = prompt /\ v.reused = n
  BY DEF Waiting
<1>5. /\ pool' \in Seq(Slots) /\ Distinct(pool') /\ Elements(pool') = Elements(pool) \cup {s}
      /\ s \in Elements(pool) => Len(pool') = Len(pool)
      /\ s \notin Elements(pool) => Len(pool') = Len(pool) + 1
  BY <1>1, <1>2, NewestFacts
<1>6. Len(pool') <= MaxSessions
  BY <1>2, <1>5
<1>7. PoolBounded' /\ claimed' \subseteq Elements(pool') /\ claimed' \subseteq Slots
  BY <1>1, <1>2, <1>5, <1>6 DEF PoolBounded
<1>8. batch[b].slot = 0 /\ s # 0 /\ 0 \notin claimed
  BY <1>2, BatchFacts, SlotsFacts
<1>9. \A c \in Batch : batch[c].slot # 0 => batch[c].slot \in claimed
  BY DEF IInv, Owning
<1> HIDE DEF v
<1>10. v.slot # 0 => /\ v.slot \in claimed' /\ v.slot # serial.slot
                     /\ \A c \in Batch : c # b => batch[c].slot # v.slot
  BY <1>1, <1>4, <1>8, <1>9
<1>11. \A q \in claimed' : q # v.slot => q \in claimed /\ q # batch[b].slot
  BY <1>1, <1>4, <1>8
<1>12. \A c \in Batch : c # b /\ batch[c].slot # 0 => batch[c].slot \in claimed'
  BY <1>1, <1>9
<1>13. \A q \in Slots : q # v.slot => sess'[q] = sess[q]
  BY <1>4
<1>14. v.st = "claimed" /\ v.reused > 0 =>
         /\ sess'[v.slot].has /\ sess'[v.slot].processed = First(v.prompt, v.reused)
  BY <1>4
<1>15. batch' = [batch EXCEPT ![b] = v] /\ v.st \in {"idle", "claimed", "running", "over"}
  BY <1>1, <1>4
<1>16. PoolStays
  BY <1>5, <1>7 DEF PoolStays
<1>17. SessionsStay(v.slot)
  BY <1>13 DEF SessionsStay
<1>18. Exchanged(b, v)
  BY <1>10, <1>11, <1>12 DEF Exchanged
<1>19. Promised(v)
  BY <1>14 DEF Promised
<1> QED BY <1>3, <1>15, <1>16, <1>17, <1>18, <1>19, BatchStep

LEMMA LongestFacts ==
  ASSUME IInv, NEW S \in SUBSET InPool, S # {}
  PROVE  (CHOOSE s \in S : \A t \in S :
            \/ Len(sess[t].processed) < Len(sess[s].processed)
            \/ /\ Len(sess[t].processed) = Len(sess[s].processed)
               /\ Position(s) <= Position(t)) \in S
<1> DEFINE f == [s \in S |-> Len(sess[s].processed)]
           g == [s \in S |-> Position(s)]
<1>1. Typed
  BY DEF IInv
<1>2. IsFiniteSet(S) /\ \A s \in S : Position(s) \in Int
  BY <1>1, PositionFacts, FS_Subset
<1>3. \A s \in S : Len(sess[s].processed) \in Int
  <2> SUFFICES ASSUME NEW s \in S PROVE Len(sess[s].processed) \in Int
    OBVIOUS
  <2>1. SessionSound(model, sess[s])
    BY <1>1, PositionFacts DEF IInv, SessionsSound
  <2>2. Len(sess[s].processed) \in Nat
    BY <2>1, Inside
  <2> QED BY <2>2
<1>4. f \in [S -> Int] /\ g \in [S -> Int]
  BY <1>2, <1>3
<1>5. \A s \in S : f[s] = Len(sess[s].processed) /\ g[s] = Position(s)
  OBVIOUS
<1> HIDE DEF f, g
<1>6. \E s \in S : \A t \in S : f[t] < f[s] \/ (f[t] = f[s] /\ g[s] <= g[t])
  BY <1>2, <1>4, BestExists
<1>7. \E s \in S : \A t \in S :
        \/ Len(sess[t].processed) < Len(sess[s].processed)
        \/ /\ Len(sess[t].processed) = Len(sess[s].processed)
           /\ Position(s) <= Position(t)
  BY <1>5, <1>6
<1> QED BY <1>7

LEMMA ClaimKeeps ==
  ASSUME IInv, UNCHANGED model, NEW b \in Batch, NEW prompt \in Prompts[model],
         Claim(b, prompt)
  PROVE  IInv'
<1>1. /\ batch[b].st = "idle" /\ serial.st = "idle" /\ UNCHANGED <<serial, orphan>>
      /\ serial.slot = 0
  BY SerialFacts DEF Claim
<1>2. /\ Typed /\ PoolBounded /\ Owning /\ model \in Models
      /\ \A q \in Slots : SessionSound(model, sess[q])
  BY DEF IInv, Typed, SessionsSound
<1>3. InPool = Elements(pool) /\ InPool \subseteq Slots
  BY <1>2, PositionFacts
<1>4. prompt \in HistoriesOf(model) /\ Len(prompt) \in Nat
  <2>1. prompt \in HistoriesOf(model)
    BY <1>2, PromptTypes
  <2> QED BY <2>1, LenProperties DEF HistoriesOf
<1>5. 0 \in Nat /\ 0 <= Len(prompt)
  BY <1>4
<1>6. UNCHANGED sess => /\ SessionsSound' /\ DOMAIN sess' = Slots
                        /\ sess' = [q \in Slots |-> sess'[q]]
  BY DEF IInv, Typed, SessionsSound
<1>7. CASE Appendable(prompt) # {} /\ UNCHANGED sess
  <2> DEFINE s == CHOOSE s \in Appendable(prompt) : \A t \in Appendable(prompt) :
                    \/ Len(sess[t].processed) < Len(sess[s].processed)
                    \/ /\ Len(sess[t].processed) = Len(sess[s].processed)
                       /\ Position(s) <= Position(t)
             n == Len(sess[s].processed)
  <2>1. s \in Appendable(prompt)
    <3>1. Appendable(prompt) \in SUBSET InPool
      BY DEF Appendable
    <3> QED BY <1>7, <3>1, LongestFacts
  <2>2. CASE Mark(b, s, prompt, n, pool)
    <3> HIDE DEF s
    <3>1. /\ s \in InPool /\ s \notin claimed /\ sess[s].has
          /\ Len(sess[s].processed) < Len(prompt) /\ IsPrefix(sess[s].processed, prompt)
      BY <2>1 DEF Appendable, Held
    <3>2. s \in Slots /\ s \in Elements(pool) /\ SessionSound(model, sess[s])
      BY <1>2, <1>3, <3>1
    <3>3. sess[s].processed \in HistoriesOf(model) /\ n \in Nat
      BY <3>2, Inside
    <3>4. n <= Len(prompt) /\ n <= n
      BY <1>4, <3>1, <3>3
    <3>5. First(sess[s].processed, n) = sess[s].processed
      BY <3>3, <3>4, FirstFacts
    <3>6. sess[s].processed = First(prompt, n)
      BY <3>1, <3>5 DEF IsPrefix, First
    <3> HIDE DEF n
    <3> QED BY <1>1, <1>6, <1>7, <2>2, <3>1, <3>2, <3>3, <3>4, <3>6, MarkKeeps
  <2> QED BY <1>7, <2>2 DEF Claim
<1>8. CASE /\ Len(pool) < MaxSessions /\ sess' = [sess EXCEPT ![Fresh] = Invalid]
           /\ Mark(b, Fresh, prompt, 0, pool)
  <2> DEFINE s == Fresh
  <2>1. s \in Slots /\ s \notin claimed
    BY <1>1, <1>2, FreshFacts
  <2>2. SessionSound(model, Invalid) /\ sess' = [sess EXCEPT ![s] = Invalid]
    BY <1>2, <1>8, InvalidSound
  <2>3. Mark(b, s, prompt, 0, pool)
    BY <1>8
  <2> HIDE DEF s
  <2>4. /\ SessionsSound' /\ DOMAIN sess' = Slots /\ sess' = [q \in Slots |-> sess'[q]]
        /\ \A q \in Slots : q # s => sess'[q] = sess[q]
    BY <2>1, <2>2, SessionPut
  <2>5. s \in Elements(pool) \/ Len(pool) < MaxSessions
    BY <1>8
  <2>6. 0 > 0 => sess'[s].has /\ sess'[s].processed = First(prompt, 0)
    OBVIOUS
  <2>7. UNCHANGED <<model, serial, orphan>> /\ batch[b].st = "idle" /\ serial.slot = 0
    BY <1>1
  <2> QED BY <1>5, <2>1, <2>3, <2>4, <2>5, <2>6, <2>7, MarkKeeps
<1>9. CASE Unclaimed # <<>> /\ Mark(b, Head(Unclaimed), prompt, 0, pool) /\ UNCHANGED sess
  <2> DEFINE s == Head(Unclaimed)
  <2>1. s \in Elements(pool) /\ s \notin claimed /\ s \in Slots
    BY <1>2, <1>3, <1>9, UnclaimedFacts
  <2>2. Mark(b, s, prompt, 0, pool)
    BY <1>9
  <2> HIDE DEF s
  <2> QED BY <1>1, <1>5, <1>6, <1>9, <2>1, <2>2, MarkKeeps
<1> QED BY <1>7, <1>8, <1>9 DEF Claim

(* A step of an admission that keeps its session. *)
LEMMA OwnerStep ==
  ASSUME IInv, UNCHANGED <<model, pool, claimed, serial, orphan>>, NEW b \in Batch, NEW v,
         batch' = [batch EXCEPT ![b] = v], RequestSound(model, v), v.st \in {"running", "over"},
         batch[b].st # "idle", v.slot = batch[b].slot,
         SessionsSound', DOMAIN sess' = Slots, sess' = [q \in Slots |-> sess'[q]],
         \A q \in Slots : q # v.slot => sess'[q] = sess[q]
  PROVE  IInv'
<1>1. /\ v.slot \in claimed /\ v.slot # serial.slot /\ v.slot # 0
      /\ \A c \in Batch : c # b => batch[c].slot # v.slot
  BY BatchFacts DEF IInv, Owning
<1>2. \A c \in Batch : batch[c].slot # 0 => batch[c].slot \in claimed
  BY DEF IInv, Owning
<1>3. pool' \in Seq(Slots) /\ PoolBounded' /\ claimed' \subseteq Elements(pool')
      /\ claimed' \subseteq Slots
  BY DEF IInv, Typed, PoolBounded, Owning
<1>4. v.st # "claimed" /\ v.st \in {"idle", "claimed", "running", "over"}
  OBVIOUS
<1>5. PoolStays /\ SessionsStay(v.slot) /\ Promised(v)
  BY <1>3, <1>4 DEF PoolStays, SessionsStay, Promised
<1>6. Exchanged(b, v)
  BY <1>1, <1>2 DEF Exchanged
<1> QED BY <1>4, <1>5, <1>6, BatchStep

(* _prepare_session. *)
LEMMA PrepareKeeps ==
  ASSUME IInv, UNCHANGED model, NEW b \in Batch, Prepare(b)
  PROVE  IInv'
<1> DEFINE r == batch[b]
           k == r.slot
           x == sess[k]
           kept == /\ r.reused > 0 /\ x.has /\ Len(x.processed) = r.reused
                   /\ r.reused < Len(r.prompt) /\ IsPrefix(x.processed, r.prompt)
           v == IF kept THEN Running(r, r.reused, x.kv, x.oth, x.cps)
                ELSE Running(r, 0, <<>>, <<>>, <<>>)
<1>1. /\ r.st = "claimed" /\ batch' = [batch EXCEPT ![b] = v]
      /\ sess' = [sess EXCEPT ![k] = Invalid]
      /\ UNCHANGED <<pool, claimed, serial, orphan>> /\ model \in Models
  BY DEF Prepare, IInv, Typed
<1>2. k \in Slots /\ r.prompt \in Prompts[model] /\ r \in OwnersOf(model)
  BY <1>1, BatchFacts
<1>3. SessionSound(model, x)
  BY <1>2 DEF IInv, SessionsSound
<1>4. RequestSound(model, v)
  <2>1. CASE ~kept
    BY <1>1, <1>2, <2>1, AfreshSound
  <2>2. CASE kept
    <3> DEFINE p == x.processed
               n == r.reused
    <3>1. /\ p \in HistoriesOf(model) /\ x.kv = p /\ x.oth \in HistoriesOf(model)
          /\ x.cps \in CheckpointsOf(model)
          /\ Follows(model, x.oth, p) /\ SnapsSound(model, x.cps, p)
      BY <1>3, Inside
    <3>2. Len(p) = n /\ IsPrefix(p, r.prompt) /\ n < Len(r.prompt)
      BY <2>2
    <3>3. n \in Nat /\ r.prompt \in HistoriesOf(model)
      BY <1>2 DEF OwnersOf
    <3>4. Len(r.prompt) \in Nat
      BY <3>3, LenProperties DEF HistoriesOf
    <3>5. n <= Len(r.prompt)
      BY <3>2, <3>3, <3>4
    <3>6. p = First(r.prompt, n)
      <4>1. First(p, Len(p)) = p
        BY <3>1, SubSeqFull DEF First, HistoriesOf
      <4> QED BY <3>2, <4>1 DEF IsPrefix, First
    <3>7. v = Running(r, n, p, x.oth, x.cps)
      BY <2>2, <3>1
    <3> HIDE DEF v, n, p, kept
    <3>8. RequestSound(model, Running(r, n, p, x.oth, x.cps))
      BY <1>1, <1>2, <3>1, <3>3, <3>5, <3>6, RunningSound
    <3> QED BY <3>7, <3>8
  <2> QED BY <2>1, <2>2
<1>5. v.st = "running" /\ v.slot = k
  BY DEF Running
<1>6. SessionSound(model, Invalid) /\ r.st # "idle"
  BY <1>1, InvalidSound
<1> HIDE DEF v, k
<1>7. /\ SessionsSound' /\ DOMAIN sess' = Slots /\ sess' = [q \in Slots |-> sess'[q]]
      /\ \A q \in Slots : q # k => sess'[q] = sess[q]
  BY <1>1, <1>2, <1>6, SessionPut
<1>8. \A q \in Slots : q # v.slot => sess'[q] = sess[q]
  BY <1>5, <1>7
<1>9. v.slot = batch[b].slot /\ batch[b].st # "idle" /\ v.st \in {"running", "over"}
  BY <1>5, <1>6 DEF k
<1> QED BY <1>1, <1>4, <1>7, <1>8, <1>9, OwnerStep

(* An admission that is over keeps its session until it is released. *)
LEMMA OverSound ==
  ASSUME NEW m, NEW r, RequestSound(m, r), r.st \in {"claimed", "running"}
  PROVE  LET v == [r EXCEPT !.st = "over"] IN
         RequestSound(m, v) /\ v.st = "over" /\ v.slot = r.slot
<1> DEFINE v == [r EXCEPT !.st = "over"]
<1>1. r \in OwnersOf(m)
  BY DEF RequestSound
<1>2. v \in OwnersOf(m)
  BY <1>1 DEF OwnersOf, States
<1>3. /\ v.st = "over" /\ v.slot = r.slot /\ v.prompt = r.prompt /\ v.reused = r.reused
  BY <1>1 DEF OwnersOf
<1> HIDE DEF v
<1>4. /\ v.slot \in Slots /\ v.prompt \in Prompts[m] /\ v.reused <= Len(v.prompt)
  BY <1>3 DEF RequestSound
<1>5. RequestSound(m, v)
  BY <1>2, <1>3, <1>4 DEF RequestSound
<1> QED BY <1>3, <1>5 DEF v

LEMMA DropBatchKeeps ==
  ASSUME IInv, UNCHANGED model, NEW b \in Batch, DropBatch(b)
  PROVE  IInv'
<1> DEFINE v == [batch[b] EXCEPT !.st = "over"]
<1>1. /\ batch[b].st \in {"claimed", "running"} /\ batch' = [batch EXCEPT ![b] = v]
      /\ UNCHANGED <<pool, sess, claimed, serial, orphan>>
  BY DEF DropBatch
<1>2. RequestSound(model, v) /\ v.st = "over" /\ v.slot = batch[b].slot
  BY <1>1, BatchFacts, OverSound
<1> HIDE DEF v
<1>3. /\ SessionsSound' /\ DOMAIN sess' = Slots /\ sess' = [q \in Slots |-> sess'[q]]
      /\ \A q \in Slots : q # v.slot => sess'[q] = sess[q]
  BY <1>1, Untouched
<1> QED BY <1>1, <1>2, <1>3, OwnerStep

LEMMA PublishBatchKeeps ==
  ASSUME IInv, UNCHANGED model, NEW b \in Batch, NEW a \in Answers[model],
         PublishBatch(b, a)
  PROVE  IInv'
<1> DEFINE v == [batch[b] EXCEPT !.st = "over"]
           k == batch[b].slot
           y == [Published(batch[b], a, FALSE) EXCEPT !.cps = batch[b].cps]
<1>1. /\ batch[b].st = "running" /\ batch' = [batch EXCEPT ![b] = v]
      /\ sess' = [sess EXCEPT ![k] = y]
      /\ UNCHANGED <<pool, claimed, serial, orphan>> /\ model \in Models
  BY DEF PublishBatch, IInv, Typed
<1>2. k \in Slots /\ RequestSound(model, batch[b])
  BY <1>1, BatchFacts
<1>3. RequestSound(model, v) /\ v.st = "over" /\ v.slot = batch[b].slot
  BY <1>1, <1>2, OverSound
<1>4. SessionSound(model, y)
  BY <1>1, <1>2, PromptTypes, PublishedSound
<1> HIDE DEF v, y, k
<1>5. /\ SessionsSound' /\ DOMAIN sess' = Slots /\ sess' = [q \in Slots |-> sess'[q]]
      /\ \A q \in Slots : q # k => sess'[q] = sess[q]
  BY <1>1, <1>2, <1>4, SessionPut
<1>6. /\ \A q \in Slots : q # v.slot => sess'[q] = sess[q]
      /\ batch[b].st # "idle" /\ v.st \in {"running", "over"}
  BY <1>1, <1>3, <1>5 DEF k
<1> QED BY <1>1, <1>3, <1>5, <1>6, OwnerStep

(* _release_batch_session. *)
LEMMA ReleaseClaimKeeps ==
  ASSUME IInv, UNCHANGED model, NEW b \in Batch, ReleaseClaim(b)
  PROVE  IInv'
<1>1. /\ batch[b].st = "over" /\ claimed' = claimed \ {batch[b].slot}
      /\ batch' = [batch EXCEPT ![b] = Idle]
      /\ UNCHANGED <<pool, sess, serial, orphan>> /\ model \in Models
  BY DEF ReleaseClaim, IInv, Typed
<1>2. RequestSound(model, Idle) /\ Idle.st = "idle" /\ Idle.slot = 0
  BY <1>1, IdleSound DEF Idle, Waiting
<1>3. /\ pool' \in Seq(Slots) /\ PoolBounded' /\ claimed' \subseteq Elements(pool')
      /\ claimed' \subseteq Slots
  BY <1>1 DEF IInv, Typed, PoolBounded, Owning
<1>4. /\ SessionsSound' /\ DOMAIN sess' = Slots /\ sess' = [q \in Slots |-> sess'[q]]
      /\ \A q \in Slots : q # Idle.slot => sess'[q] = sess[q]
  BY <1>1, Untouched
<1>5. \A c \in Batch : c # b /\ batch[c].slot # 0 => batch[c].slot \in claimed'
  <2>1. batch[b].slot # 0
    BY <1>1, BatchFacts
  <2>2. \A c \in Batch : c # b => batch[c].slot # batch[b].slot
    BY <2>1 DEF IInv, Owning
  <2>3. \A c \in Batch : batch[c].slot # 0 => batch[c].slot \in claimed
    BY DEF IInv, Owning
  <2> QED BY <1>1, <2>2, <2>3
<1>6. \A q \in claimed' : q # Idle.slot => q \in claimed /\ q # batch[b].slot
  BY <1>1
<1> DEFINE v == Idle
<1>7. PoolStays /\ SessionsStay(v.slot) /\ Promised(v)
  BY <1>2, <1>3, <1>4 DEF PoolStays, SessionsStay, Promised
<1>8. Exchanged(b, v)
  BY <1>2, <1>5, <1>6 DEF Exchanged
<1> QED BY <1>1, <1>2, <1>7, <1>8, BatchStep

(***************************************************************************)
(* The inductive invariant holds                                           *)
(***************************************************************************)
LEMMA InitSound == Init => IInv
<1> SUFFICES ASSUME Init PROVE IInv
  OBVIOUS
<1>1. /\ model \in Models /\ pool = <<>> /\ sess = [s \in Slots |-> Invalid] /\ claimed = {}
      /\ serial = Idle /\ orphan = <<>> /\ batch = [b \in Batch |-> Idle]
  BY DEF Init
<1>2. SessionSound(model, Invalid) /\ RequestSound(model, Idle)
  BY <1>1, InvalidSound, IdleSound
<1>3. Idle.st = "idle" /\ Idle.slot = 0
  BY DEF Idle, Waiting
<1>4. <<>> \in Seq(Slots) /\ Len(<<>>) = 0 /\ DOMAIN <<>> = {}
  BY EmptySeq, EmptyList
<1>5. Typed
  BY <1>1, <1>4 DEF Typed
<1>6. SessionsSound /\ BatchSound
  BY <1>1, <1>2 DEF SessionsSound, BatchSound
<1>7. SerialSound /\ Control
  BY <1>1, <1>2, <1>3 DEF SerialSound, Control
<1>8. PoolBounded
  <2>1. 0 <= MaxSessions
    BY SizeAssumption
  <2>2. Distinct(<<>>)
    BY <1>4 DEF Distinct
  <2> QED BY <1>1, <1>4, <2>1, <2>2 DEF PoolBounded
<1>9. Owning /\ ClaimKept
  BY <1>1, <1>3 DEF Owning, ClaimKept
<1> QED BY <1>5, <1>6, <1>7, <1>8, <1>9 DEF IInv

LEMMA NextKeeps == IInv /\ [Next]_vars => IInv'
<1> SUFFICES ASSUME IInv, [Next]_vars PROVE IInv'
  OBVIOUS
<1>1. CASE UNCHANGED vars
  BY <1>1 DEF vars, IInv, Typed, SessionsSound, BatchSound, SerialSound, Control, PoolBounded,
              Owning, ClaimKept
<1>2. CASE Serial /\ UNCHANGED model
  <2>1. CASE \E p \in Prompts[model] : Lock(p)
    BY <1>2, <2>1, LockKeeps
  <2>2. CASE Select
    BY <1>2, <2>2, SelectKeeps
  <2>3. CASE Abandon
    BY <1>2, <2>3, AbandonKeeps
  <2>4. CASE SelectOrphan
    BY <1>2, <2>4, SelectOrphanKeeps
  <2>5. CASE Generate
    BY <1>2, <2>5, GenerateKeeps
  <2>6. CASE Fail
    BY <1>2, <2>6, FailKeeps
  <2>7. CASE \E a \in Answers[model] : Succeed(a)
    BY <1>2, <2>7, SucceedKeeps
  <2> QED BY <1>2, <2>1, <2>2, <2>3, <2>4, <2>5, <2>6, <2>7 DEF Serial
<1>3. ASSUME NEW b \in Batch, Admitted(b), UNCHANGED model PROVE IInv'
  <2>1. CASE \E p \in Prompts[model] : Claim(b, p)
    BY <1>3, <2>1, ClaimKeeps
  <2>2. CASE Prepare(b)
    BY <1>3, <2>2, PrepareKeeps
  <2>3. CASE DropBatch(b)
    BY <1>3, <2>3, DropBatchKeeps
  <2>4. CASE ReleaseClaim(b)
    BY <1>3, <2>4, ReleaseClaimKeeps
  <2>5. CASE \E a \in Answers[model] : PublishBatch(b, a)
    BY <1>3, <2>5, PublishBatchKeeps
  <2> QED BY <1>3, <2>1, <2>2, <2>3, <2>4, <2>5 DEF Admitted
<1> QED BY <1>1, <1>2, <1>3 DEF Next

LEMMA Invariance == Spec => []IInv
<1> QED BY InitSound, NextKeeps, PTL DEF Spec

(***************************************************************************)
(* The theorems                                                            *)
(***************************************************************************)

(* Type correctness: pool, sessions and requests keep their shape, and the   *)
(* tokens in every cache are tokens of the prompts and answers of the model. *)
THEOREM TypeCorrect == Spec => []TypeOK
<1>1. IInv => TypeOK
  <2> SUFFICES ASSUME IInv PROVE TypeOK
    OBVIOUS
  <2>1. Histories = HistoriesOf(model) /\ Checkpoints = CheckpointsOf(model)
    BY DEF Histories, HistoriesOf, Tokens, TokensOf, Checkpoints, CheckpointsOf, CheckpointOf
  <2>2. Owners = OwnersOf(model)
    BY <2>1 DEF Owners, OwnersOf
  <2>3. /\ model \in Models /\ pool \in Seq(Slots) /\ claimed \subseteq Slots
        /\ sess = [s \in Slots |-> sess[s]] /\ batch = [b \in Batch |-> batch[b]]
    BY DEF IInv, Typed
  <2>4. serial \in Owners
    BY <2>2, SerialFacts
  <2>5. batch \in [Batch -> Owners]
    <3>1. \A b \in Batch : batch[b] \in Owners
      BY <2>2, BatchFacts
    <3> QED BY <2>3, <3>1
  <2>6. sess \in [Slots -> SessionsOf(model)]
    <3>1. \A s \in Slots : sess[s] \in SessionsOf(model)
      BY DEF IInv, SessionsSound, SessionSound
    <3> QED BY <2>3, <3>1
  <2>7. orphan \in Histories
    <3>1. orphan = <<>> \/ orphan \in Prompts[model]
      BY DEF IInv, Control
    <3>2. <<>> \in HistoriesOf(model)
      BY EmptyHistory
    <3> QED BY <2>1, <2>3, <3>1, <3>2, PromptTypes
  <2> QED BY <2>1, <2>3, <2>4, <2>5, <2>6, <2>7 DEF TypeOK, SessionsOf
<1> QED BY <1>1, Invariance, PTL

(* A session has one owner, in a pool that keeps --max-sessions, and a batch *)
(* admission finds at _prepare_session what _claim_batch_session promised    *)
(* it, whatever the serial path and the selections of cancelled requests did *)
(* in between (server.py:1137-1168, 3407-3498).                             *)
THEOREM PoolSoundHolds == Spec => []PoolSound
<1>1. IInv => PoolSound
  <2> SUFFICES ASSUME IInv PROVE PoolSound
    OBVIOUS
  <2>1. Bounded
    BY DEF IInv, PoolBounded, Bounded, Distinct, IsInjective
  <2>2. Exclusive
    <3>1. claimed \subseteq InPool
      BY DEF IInv, Owning, InPool, ToSet, Elements
    <3>2. \A b \in Batch : batch[b].slot # 0 => batch[b].slot \in claimed
      BY DEF IInv, Owning
    <3>3. claimed = UNION {Owned(batch[b]) : b \in Batch}
      <4>1. ASSUME NEW s \in claimed PROVE s \in UNION {Owned(batch[b]) : b \in Batch}
        <5>1. PICK b \in Batch : batch[b].slot = s
          BY <4>1 DEF IInv, Owning
        <5>2. s # 0
          BY <4>1, SlotsFacts DEF IInv, Typed
        <5>3. s \in Owned(batch[b])
          BY <5>1, <5>2 DEF Owned
        <5> QED BY <5>3
      <4>2. ASSUME NEW b \in Batch, NEW s \in Owned(batch[b]) PROVE s \in claimed
        BY <3>2 DEF Owned
      <4> QED BY <4>1, <4>2
    <3>4. \A b \in Batch : Owned(batch[b]) \cap Owned(serial) = {}
      BY DEF IInv, Owning, Owned
    <3>5. \A b, c \in Batch : b # c => Owned(batch[b]) \cap Owned(batch[c]) = {}
      BY DEF IInv, Owning, Owned
    <3> QED BY <3>1, <3>3, <3>4, <3>5 DEF Exclusive
  <2> QED BY <2>1, <2>2 DEF PoolSound, IInv
<1> QED BY <1>1, Invariance, PTL

(* No model has a rotating cache, whose layers do not always follow the      *)
(* history (the run SessionRotating).                                       *)
Unrotated == \A m \in Models : m.other # "rotating"

LEMMA AbsorbedFacts ==
  ASSUME Unrotated, model \in Models, NEW oth, NEW hist, Follows(model, oth, hist)
  PROVE  Other = "none" \/ oth = hist
<1>1. Other \in {"none", "recurrent"}
  BY SizeAssumption DEF Unrotated, Other
<1> QED BY <1>1 DEF Follows, Other

(* Every published cache has absorbed exactly the tokens its session says it *)
(* has processed, through rewinds, checkpoint restores, aborted and finished *)
(* generations of both paths, in any order.                                  *)
THEOREM CacheIsHistoryHolds ==
  ASSUME Unrotated
  PROVE  Spec => []CacheIsHistory
<1>1. IInv => CacheIsHistory
  <2> SUFFICES ASSUME IInv, NEW s \in Slots, sess[s].has
               PROVE  Absorbed(sess[s].kv, sess[s].oth, sess[s].processed)
    BY DEF CacheIsHistory
  <2>1. SessionSound(model, sess[s]) /\ model \in Models
    BY DEF IInv, SessionsSound, Typed
  <2>2. sess[s].kv = sess[s].processed /\ Follows(model, sess[s].oth, sess[s].processed)
    BY <2>1, Inside
  <2> QED BY <2>1, <2>2, AbsorbedFacts DEF Absorbed
<1> QED BY <1>1, Invariance, PTL

(* What a request resumes from is of its own prompt, and a snapshot is of    *)
(* the history of the session that keeps it: rewinding, regenerating and     *)
(* branching turns never serve another conversation's state.                 *)
THEOREM ReuseSoundHolds ==
  ASSUME Unrotated
  PROVE  Spec => []ReuseSound
<1>1. IInv => ReuseSound
  <2> SUFFICES ASSUME IInv PROVE ReuseSound
    OBVIOUS
  <2>1. model \in Models
    BY DEF IInv, Typed
  <2>2. ASSUME NEW r \in {serial} \cup {batch[b] : b \in Batch}, r.st = "running"
        PROVE  Absorbed(r.kv, r.oth, First(r.prompt, r.reused))
    <3>1. RequestSound(model, r)
      BY SerialFacts, BatchFacts
    <3>2. /\ r.kv = First(r.prompt, r.reused)
          /\ Follows(model, r.oth, First(r.prompt, r.reused))
      BY <2>2, <3>1 DEF RequestSound
    <3> QED BY <2>1, <3>2, AbsorbedFacts DEF Absorbed
  <2>3. ASSUME serial.st = "selected", Reusable(sess[serial.slot], serial.prompt),
               Len(sess[serial.slot].processed) = Len(serial.prompt)
        PROVE  sess[serial.slot].tail = [pos |-> Len(serial.prompt), hist |-> serial.prompt]
    <3> DEFINE x == sess[serial.slot]
               p == serial.prompt
    <3>1. serial.slot \in Slots /\ p \in Prompts[model]
      BY <2>3, SerialFacts
    <3>2. SessionSound(model, x) /\ SelectedSound(x, serial) /\ x.has
      BY <2>3, <3>1 DEF IInv, SessionsSound, SerialSound, Reusable
    <3>3. p \in HistoriesOf(model)
      BY <2>1, <3>1, PromptTypes
    <3>4. /\ x.processed \in HistoriesOf(model) /\ TailSound(x)
          /\ x.tail \in [pos : Nat, hist : HistoriesOf(model)]
      BY <3>2, Inside
    <3>5. x.tail.pos = Len(p)
      BY <2>3, <3>2 DEF SelectedSound
    <3>6. Common(x.processed, p) = Len(p)
      BY <2>3 DEF Reusable
    <3>7. First(x.processed, Len(p)) = First(p, Len(p))
      BY <3>3, <3>4, <3>6, CommonFacts
    <3>8. First(p, Len(p)) = p
      BY <3>3, SubSeqFull DEF First, HistoriesOf
    <3>9. x.tail.hist = p
      BY <3>4, <3>5, <3>7, <3>8 DEF TailSound
    <3> HIDE DEF x, p
    <3>10. x.tail = [pos |-> Len(p), hist |-> p]
      BY <3>4, <3>5, <3>9
    <3> QED BY <3>10 DEF x, p
  <2>4. ReuseIsPrefix
    BY <2>2, <2>3 DEF ReuseIsPrefix
  <2>5. ASSUME NEW s \in Slots, NEW i \in DOMAIN sess[s].cps, sess[s].cps[i].deep
        PROVE  /\ sess[s].cps[i].pos <= Len(sess[s].processed)
               /\ sess[s].cps[i].snap = First(sess[s].processed, sess[s].cps[i].pos)
    <3>1. SnapsSound(model, sess[s].cps, sess[s].processed)
      BY Inside DEF IInv, SessionsSound
    <3>2. Lasting(model, sess[s].cps[i], sess[s].processed)
      BY <3>1 DEF SnapsSound
    <3>3. model.other = "recurrent"
      BY <2>1, <2>5, <3>2, SizeAssumption DEF Unrotated, Lasting
    <3> QED BY <2>5, <3>2, <3>3 DEF Lasting
  <2>6. CheckpointsMatch
    BY <2>5 DEF CheckpointsMatch
  <2> QED BY <2>4, <2>6 DEF ReuseSound
<1> QED BY <1>1, Invariance, PTL
===============================================================================
