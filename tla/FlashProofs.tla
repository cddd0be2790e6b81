----------------------------- MODULE FlashProofs -----------------------------
(***************************************************************************)
(* Proofs about the Flash-Next engine and what it runs on, built on        *)
(* RunnersProofs:                                                          *)
(*                                                                         *)
(* - the engine itself: FlashInv relates its four kinds of cache, its      *)
(*   checkpoints and the tokens drafted ahead to what has been said; every *)
(*   step keeps FlashInv and is a step of PlainDecode. CutsInv says where  *)
(*   the prompt has been cut so far;                                       *)
(* - with the other three runners, whose part is in RunnersProofs, the     *)
(*   inductive invariant RunnersInv and the theorems about Runners;        *)
(* - NgramStream, from which the engine looks up its n-gram embeddings:    *)
(*   whatever the capacity, the number of prefetching threads and the rows *)
(*   they ask for, the cache keeps its types, and a lookup returns what is *)
(*   on disk.                                                              *)
(***************************************************************************)
EXTENDS RunnersProofs, NgramStream

(***************************************************************************)
(* The Flash-Next speculative engine                                       *)
(***************************************************************************)
FlashCaches == [kv : Context, idx : Context, rec : Context, ctx : Context]

Grams(s) == W!Final(s, ContextLen)

(* The four kinds of cache of a context.                                   *)
CachesOf(s) == [kv |-> s, idx |-> s, rec |-> s, ctx |-> Grams(s)]

AnyMarksF == [pos : Nat, rec : Context, ctx : Context]
AnyTailsF == [pos : Nat, h : Context, mtp : Seq(Pairs)]

MarkOf(c, n) == [pos |-> n, rec |-> SubSeq(c, 1, n), ctx |-> Grams(SubSeq(c, 1, n))]
MarksF(c) == {MarkOf(c, n) : n \in 1..Len(c)}

(* Rows that the context c gives, in order, with gaps or without.          *)
RowsIn(m, c) ==
  /\ m \in Seq(Pairs) /\ c \in Context
  /\ \A i \in 1..Len(m) : Len(m[i][2]) < Len(c) /\ m[i] = RowAt(c, Len(m[i][2]) + 1)
  /\ \A i, j \in 1..Len(m) : i < j => Len(m[i][2]) < Len(m[j][2])

RowsF(m, c, k) == RowsIn(m, c) /\ (k.pipeline # 1 => RowsOf(m, c))

(* The tail of a context, stamped at its position.                         *)
TailF(t, c, k) ==
  /\ t \in AnyTailsF /\ t.pos \in 0..Len(c) /\ t.h = SubSeq(c, 1, t.pos)
  /\ t.pos # 0 => RowsF(t.mtp, SubSeq(c, 1, t.pos), k)

FlashSessions == [has : BOOLEAN, processed : Context, c : FlashCaches, cps : Seq(AnyMarksF),
                  tail : AnyTailsF]

FlashSession(x, k) ==
  /\ x \in FlashSessions
  /\ ~x.has => x = F!Invalid
  /\ x.has => /\ x.processed # <<>> /\ x.c = CachesOf(x.processed)
              /\ Ladder(x.cps, MarksF(x.processed)) /\ TailF(x.tail, x.processed, k)

Rounds == [pair : Context, hs : Seq(Context),
           pre : [idxLen : Nat, ctx : Context, rec : Context]]

FlashCalls == [c : FlashCaches, cps : Seq(AnyMarksF), tail : AnyTailsF, reused : Nat,
               shared : BOOLEAN, cuts : Seq(Int), kept : Seq(Int), h : Context, mtp : Seq(Pairs),
               drafts : Context, round : Rounds,
               next : [round : Rounds, c : FlashCaches, mtp : Seq(Pairs)], off : Nat]

FlashType ==
  /\ prompt \in Context /\ budget \in Nat /\ mode \in BOOLEAN /\ out \in Context /\ knobs \in Knobs
  /\ st \in {"idle", "prefill", "first", "decode", "verify", "end"}
  /\ gen \in FlashCalls /\ FlashSession(sess, knobs)
  /\ gen.shared => ~sess.has

FlashPrefilling ==
  st = "prefill" =>
    /\ prompt # <<>> /\ out = <<>> /\ gen.drafts = <<>> /\ gen.next = F!NoNext
    /\ gen.c = CachesOf(SubSeq(prompt, 1, F!Done)) /\ F!Done < Len(prompt)
    /\ gen.reused <= F!Done
    /\ Ladder(gen.cps, MarksF(SubSeq(prompt, 1, F!Done)))

FlashMarked ==
  /\ prompt # <<>> /\ Ladder(gen.cps, MarksF(prompt)) /\ TailF(gen.tail, prompt, knobs)

FlashFirst ==
  st = "first" =>
    /\ FlashMarked /\ gen.c = CachesOf(prompt) /\ gen.h = prompt /\ RowsF(gen.mtp, prompt, knobs)
    /\ out = <<>> /\ gen.drafts = <<>> /\ gen.next = F!NoNext

(* The round of the drafts d after the context s: its forward.             *)
RoundAfter(r, s, z, d) == r \in Rounds /\ r = F!RoundOf(CachesOf(s), <<z>> \o d)

(* Between two rounds the last token of the answer is still to be fed,     *)
(* unless a guessed round that was taken has fed it already.               *)
FlashDecoding ==
  st = "decode" =>
    /\ FlashMarked /\ out # <<>> /\ GoesOn(out) /\ gen.h = Said
    /\ gen.next = F!NoNext =>
         /\ gen.c = CachesOf(Said)
         /\ RowsF(gen.mtp, IF gen.drafts = <<>> THEN Said ELSE prompt \o out, knobs)
         /\ gen.drafts # <<>> => Len(out) < budget
    /\ gen.next # F!NoNext =>
         /\ gen.drafts = <<>> /\ Len(out) < budget
         /\ \E d \in Context : RoundAfter(gen.next.round, Said, out[Len(out)], d)
         /\ gen.c = CachesOf(Said \o gen.next.round.pair)
         /\ RowsF(gen.mtp, prompt \o out, knobs)

(* The round in flight alone: its rows are there, if they were guessed.    *)
RoundAlone ==
  /\ gen.c = CachesOf(Said \o gen.round.pair)
  /\ gen.off <= Len(gen.mtp) /\ RowsF(SubSeq(gen.mtp, 1, gen.off), prompt \o out, knobs)
  /\ IF F!Presync
     THEN /\ Len(gen.mtp) = gen.off + Len(gen.round.pair)
          /\ \A j \in 1..Len(gen.round.pair) :
               gen.mtp[gen.off + j] = <<F!Top(gen.round.hs[j]), gen.round.hs[j]>>
     ELSE gen.off = Len(gen.mtp)

(* The round in flight and the one guessed after it.                       *)
RoundAhead ==
  LET said == Said \o gen.round.pair
      guess == F!Top(F!Last(gen.round.hs))
  IN  /\ mode /\ knobs.pipeline # 0 /\ Len(out) + Len(gen.round.pair) < budget
      /\ gen.next.c = CachesOf(said)
      /\ RowsF(gen.next.mtp, prompt \o out, knobs)
      /\ gen.mtp = gen.next.mtp \o <<<<guess, F!Last(gen.round.hs)>>>>
      /\ \E d \in Context : RoundAfter(gen.next.round, said, guess, d)
      /\ gen.c = CachesOf(said \o gen.next.round.pair)

FlashVerifying ==
  st = "verify" =>
    /\ FlashMarked /\ out # <<>> /\ GoesOn(out) /\ Len(out) < budget /\ gen.drafts = <<>>
    /\ \E d \in Context : RoundAfter(gen.round, Said, out[Len(out)], d)
    /\ gen.next = F!NoNext => RoundAlone
    /\ gen.next # F!NoNext => RoundAhead

FlashEnded ==
  st = "end" =>
    /\ FlashMarked /\ out # <<>> /\ gen.next = F!NoNext /\ gen.c = CachesOf(Said) /\ gen.h = Said

FlashInv ==
  /\ FlashType /\ FlashPrefilling /\ FlashFirst /\ FlashDecoding /\ FlashVerifying /\ FlashEnded

LEMMA FlashSizes ==
  /\ ContextLen \in Nat \ {0} /\ Retention \in Nat /\ FlashTail \in Nat \ {0} /\ PrefillStep \in Nat \ {0}
  /\ Group \in Nat \ {0} /\ Depth \in Nat \ {0} /\ PrimeWindow \in Nat \ {0} /\ FlashTail < PrefillStep
BY FlashAssumption DEF F!SizesAssumption

LEMMA FlashOps ==
  /\ \A s, n : F!First(s, n) = SubSeq(s, 1, n)
  /\ \A s, n : F!Drop(s, n) = SubSeq(s, 1, Len(s) - n)
  /\ \A s, n : F!Final(s, n) = W!Final(s, n)
  /\ \A s : F!Last(s) = s[Len(s)]
  /\ \A s, t : F!IsPrefix(s, t) = IsPrefix(s, t)
  /\ \A cps, n : F!UpTo(cps, n) = Selection(cps, {k \in DOMAIN cps : cps[k].pos <= n})
  /\ \A m, n : F!AtMost(m, n) = W!AtMost(m, n)
  /\ F!Unknown = <<>>
<1>1. \A s, n : F!First(s, n) = SubSeq(s, 1, n)
  BY DEF F!First
<1>2. \A s, n : F!Drop(s, n) = SubSeq(s, 1, Len(s) - n)
  BY <1>1 DEF F!Drop
<1>3. \A m, n : F!AtMost(m, n) = W!AtMost(m, n)
  BY DEF F!AtMost, W!AtMost
<1>4. \A s, n : F!Final(s, n) = W!Final(s, n)
  BY <1>3 DEF F!Final, W!Final
<1>5. \A s : F!Last(s) = s[Len(s)]
  BY DEF F!Last
<1>6. \A s, t : F!IsPrefix(s, t) = IsPrefix(s, t)
  BY DEF F!IsPrefix, IsPrefix
<1>7. \A cps, n : F!UpTo(cps, n) = Selection(cps, {k \in DOMAIN cps : cps[k].pos <= n})
  BY DEF F!UpTo, F!Selection, Selection, F!Nth, Nth, F!Below, Below, F!Cardinality, Cardinality
<1>8. F!Unknown = <<>>
  BY DEF F!Unknown
<1> QED BY <1>1, <1>2, <1>3, <1>4, <1>5, <1>6, <1>7, <1>8

(* The last tokens of a context and of what follows.                       *)
LEMMA FinalGrows ==
  ASSUME NEW s \in Context, NEW w \in Context, NEW n \in Nat \ {0}
  PROVE  W!Final(W!Final(s, n) \o w, n) = W!Final(s \o w, n)
<1> DEFINE f == W!Final(s, n)
           v == f \o w
<1>1. f \in Context /\ Len(f) = W!AtMost(n, Len(s)) /\ n \in Nat
  BY FinalFacts
<1>2. PICK b \in Context : s = b \o f /\ (n < Len(s) \/ b = <<>>)
  BY FinalFacts
<1> HIDE DEF f
<1>3. v \in Context /\ Len(v) = Len(f) + Len(w) /\ Len(w) \in Nat /\ Len(s) \in Nat
  BY <1>1, Joined, Nothing
<1>4. s \o w = b \o v
  BY <1>1, <1>2, Regrouped
<1>5. CASE b = <<>>
  BY <1>3, <1>4, <1>5, Nothing DEF f, v
<1>6. CASE b # <<>>
  <2> DEFINE l == Len(v)
             k == Len(b)
  <2>1. Len(f) = n
    BY <1>1, <1>2, <1>6 DEF W!AtMost
  <2>2. l \in Nat /\ k \in Nat /\ n <= l /\ Len(b \o v) = k + l
    <3>1. Len(b \o v) = k + l /\ k \in Nat /\ l \in Nat
      BY <1>3, Joined
    <3>2. l = n + Len(w) /\ Len(w) \in Nat
      BY <1>3, <2>1
    <3> HIDE DEF k, l, v
    <3>3. n <= l
      BY <3>2
    <3> QED BY <3>1, <3>3
  <2> HIDE DEF l, k, v
  <2>3. /\ k + l - n + 1 \in (k + 1)..(k + l) /\ k + l \in (k + 1)..(k + l)
        /\ (k + l - n + 1) - k = l - n + 1 /\ (k + l) - k = l
    <3>1. l \in Nat /\ k \in Nat /\ n <= l
      BY <2>2
    <3> QED BY <3>1
  <2>4. SubSeq(b \o v, k + l - n + 1, k + l) = SubSeq(v, l - n + 1, l)
    <3> DEFINE x == k + l - n + 1
               y == k + l
    <3>1. x \in (k + 1)..(k + l) /\ y \in (k + 1)..(k + l) /\ x - k = l - n + 1 /\ y - k = l
      BY <2>3
    <3> HIDE DEF x, y
    <3>2. SubSeq(b \o v, x, y) = SubSeq(v, x - k, y - k)
      <4>1. b \in Seq(Token) /\ v \in Seq(Token)
        BY <1>3 DEF Context
      <4>2. x \in (Len(b) + 1)..(Len(b) + Len(v)) /\ y \in (Len(b) + 1)..(Len(b) + Len(v))
        BY <3>1 DEF k, l
      <4> QED BY <4>1, <4>2, SubSeqOfConcat2 DEF k
    <3> QED BY <3>1, <3>2 DEF x, y
  <2>5. W!AtMost(n, k + l) = n /\ W!AtMost(n, l) = n
    BY <2>2 DEF W!AtMost
  <2>6. W!Final(b \o v, n) = SubSeq(b \o v, k + l - n + 1, k + l)
    <3> DEFINE u == b \o v
               x == Len(u)
    <3>1. W!Final(u, n) = SubSeq(u, x - W!AtMost(n, x) + 1, x)
      BY DEF W!Final
    <3>2. x = k + l
      BY <2>2
    <3> HIDE DEF u, x
    <3>3. W!AtMost(n, x) = n
      BY <2>5, <3>2
    <3>4. W!Final(u, n) = SubSeq(u, x - n + 1, x)
      BY <3>1, <3>3
    <3>5. x - n + 1 = k + l - n + 1
      BY <2>2, <3>2
    <3> QED BY <3>2, <3>4, <3>5, Zenon DEF u
  <2>7. W!Final(v, n) = SubSeq(v, l - n + 1, l)
    BY <2>5 DEF W!Final, l
  <2> QED BY <1>4, <2>4, <2>6, <2>7 DEF v, f
<1> QED BY <1>5, <1>6

LEMMA CachesType ==
  ASSUME NEW s \in Context
  PROVE  CachesOf(s) \in FlashCaches /\ Grams(s) \in Context
<1>1. Grams(s) \in Context
  BY FlashSizes, FinalFacts DEF Grams
<1> QED BY <1>1 DEF CachesOf, FlashCaches

LEMMA FedCaches ==
  ASSUME NEW s \in Context, NEW w \in Context
  PROVE  F!Fed(CachesOf(s), w) = CachesOf(s \o w)
<1>1. F!Final(Grams(s) \o w, ContextLen) = Grams(s \o w)
  BY FinalGrows, FlashSizes, FlashOps DEF Grams
<1> QED BY <1>1 DEF F!Fed, CachesOf

LEMMA HiddenCaches ==
  ASSUME NEW s \in Context, NEW n
  PROVE  F!Hidden(CachesOf(s), n) = SubSeq(s, 1, Len(s) - n)
<1>1. F!Agree(CachesOf(s))
  <2>1. F!Final(s, ContextLen) = Grams(s)
    BY FlashOps DEF Grams
  <2> QED BY <2>1 DEF F!Agree, CachesOf
<1>2. CachesOf(s).kv = s
  BY DEF CachesOf
<1> QED BY <1>1, <1>2, FlashOps DEF F!Hidden

LEMMA HiddenAfter ==
  ASSUME NEW s \in Context, NEW w \in Context
  PROVE  LET hs == F!HiddenOver(CachesOf(s), w)
         IN  hs \in Seq(Context) /\ Len(hs) = Len(w) /\ \A j \in 1..Len(w) : hs[j] = s \o SubSeq(w, 1, j)
<1> DEFINE hs == F!HiddenOver(CachesOf(s), w)
           l == Len(w)
<1>1. l \in Nat /\ s \o w \in Context
  BY Joined
<1>2. hs = [j \in 1..l |-> F!Hidden(CachesOf(s \o w), l - j)]
  BY FedCaches DEF F!HiddenOver
<1>3. ASSUME NEW j \in 1..l PROVE hs[j] = s \o SubSeq(w, 1, j) /\ s \o SubSeq(w, 1, j) \in Context
  <2>1. l - j \in 0..l /\ l - (l - j) = j /\ j \in 0..l
    BY <1>1
  <2>2. hs[j] = F!Hidden(CachesOf(s \o w), l - j)
    BY <1>2
  <2>3. F!Hidden(CachesOf(s \o w), l - j) = SubSeq(s \o w, 1, Len(s \o w) - (l - j))
    BY <1>1, HiddenCaches
  <2>4. SubSeq(s \o w, 1, Len(s \o w) - (l - j)) = s \o SubSeq(w, 1, l - (l - j))
    BY <2>1, DropOfBoth
  <2>5. SubSeq(w, 1, j) \in Context
    BY <2>1, FirstPart DEF Context
  <2>6. s \o SubSeq(w, 1, j) \in Context
    BY <2>5, Joined
  <2> HIDE DEF hs
  <2> QED BY <2>1, <2>2, <2>3, <2>4, <2>6
<1>4. hs \in Seq(Context) /\ Len(hs) = l
  <2>1. \A j \in 1..l : hs[j] \in Context
    BY <1>3
  <2>2. hs \in [1..l -> Context]
    <3>1. hs = [j \in 1..l |-> hs[j]]
      BY <1>2
    <3> HIDE DEF hs, l
    <3> QED BY <2>1, <3>1
  <2> HIDE DEF hs, l
  <2> QED BY <1>1, <2>2
<1> QED BY <1>3, <1>4

(* What a round that was cut short leaves of its forward.                  *)
LEMMA RolledCaches ==
  ASSUME NEW s \in Context, NEW w \in Context, NEW k \in 0..Len(w)
  PROVE  F!Rollback(CachesOf(s \o w), F!Pre(CachesOf(s)), w, k) = CachesOf(s \o SubSeq(w, 1, k))
<1> DEFINE v == SubSeq(w, 1, k)
<1>1. v \in Context /\ Len(w) \in Nat /\ Len(w) - k \in 0..Len(w) /\ Len(w) - (Len(w) - k) = k
  <2>1. Len(w) \in Nat
    BY Nothing
  <2>2. Len(w) - k \in 0..Len(w) /\ Len(w) - (Len(w) - k) = k
    BY <2>1
  <2> QED BY <2>1, <2>2, FirstPart DEF Context
<1>2. CASE k = Len(w)
  <2>1. v = w
    BY <1>2, SubSeqFull DEF Context
  <2> QED BY <1>2, <2>1 DEF F!Rollback
<1>3. CASE k # Len(w)
  <2>1. SubSeq(s \o w, 1, Len(s \o w) - (Len(w) - k)) = s \o v
    <3> DEFINE n == Len(w) - k
    <3>1. n \in 0..Len(w) /\ Len(w) - n = k
      BY <1>1
    <3> HIDE DEF n
    <3>2. SubSeq(s \o w, 1, Len(s \o w) - n) = s \o SubSeq(w, 1, Len(w) - n)
      BY <3>1, DropOfBoth
    <3> QED BY <3>1, <3>2 DEF n
  <2>2. SubSeq(s \o w, 1, Len(s) + k) = s \o v
    BY FirstOfBoth DEF Context
  <2> HIDE DEF v
  <2>3. F!Final(Grams(s) \o v, ContextLen) = Grams(s \o v)
    BY <1>1, FinalGrows, FlashSizes, FlashOps DEF Grams
  <2>4. F!First(w, k) = v /\ F!Drop(s \o w, Len(w) - k) = s \o v /\ F!First(s \o w, Len(s) + k) = s \o v
    BY <2>1, <2>2, FlashOps DEF v
  <2>5. F!Rollback(CachesOf(s \o w), F!Pre(CachesOf(s)), w, k)
          = [kv |-> F!Drop(s \o w, Len(w) - k), idx |-> F!First(s \o w, Len(s) + k),
             rec |-> s \o F!First(w, k), ctx |-> F!Final(Grams(s) \o F!First(w, k), ContextLen)]
    BY <1>3 DEF F!Rollback, F!Pre, CachesOf
  <2>6. F!Rollback(CachesOf(s \o w), F!Pre(CachesOf(s)), w, k) = CachesOf(s \o v)
    BY <2>3, <2>4, <2>5 DEF CachesOf
  <2> QED BY <2>6 DEF v
<1> QED BY <1>2, <1>3

(* The model's own words after a context that is not empty.                *)
LEMMA FlashDraws ==
  ASSUME Speaks, NEW s \in Context, s # <<>>
  PROVE  /\ F!Top(s) \in Support(s) /\ Support(s) \subseteq Token /\ Drawn(s) = Support(s)
         /\ F!Draw(s) \subseteq Support(s)
         /\ mode => F!Draw(s) = {F!Top(s)}
<1>1. Support(s) \subseteq Token /\ Support(s) # {}
  BY DEF Speaks, Context
<1>2. F!Top(s) = CHOOSE y \in Support(s) : TRUE
  BY DEF F!Top, F!Unknown
<1>3. F!Top(s) \in Support(s)
  BY <1>1, <1>2
<1>4. F!Draw(s) = IF mode THEN {F!Top(s)} ELSE Support(s)
  BY DEF F!Draw, F!Unknown
<1> QED BY <1>1, <1>3, <1>4 DEF Drawn

(***************************************************************************)
(* The rows of its draft head                                              *)
(***************************************************************************)
LEMMA RowsOfIn ==
  ASSUME NEW m, NEW c, RowsOf(m, c)
  PROVE  RowsIn(m, c)
<1> DEFINE a == Len(m)
           b == Len(c)
<1>1. m \in Seq(Pairs) /\ c \in Context /\ a \in Nat /\ b \in Nat /\ a < b
  BY LenProperties DEF RowsOf, Context
<1>2. \A i \in 1..a : m[i] = RowAt(c, b - a + i)
  BY DEF RowsOf
<1> HIDE DEF a, b
<1>3. ASSUME NEW i \in 1..a
      PROVE  Len(m[i][2]) = b - a + i - 1
  <2> DEFINE n == b - a + i
  <2>1. n - 1 \in 0..b
    BY <1>1
  <2>2. Len(SubSeq(c, 1, n - 1)) = n - 1
    BY <1>1, <2>1, FirstPart DEF Context, b
  <2>3. m[i][2] = SubSeq(c, 1, n - 1)
    BY <1>2 DEF RowAt
  <2>4. n - 1 = b - a + i - 1
    BY <1>1
  <2> HIDE DEF n
  <2> QED BY <2>2, <2>3, <2>4
<1>4. ASSUME NEW i \in 1..a
      PROVE  Len(m[i][2]) < b /\ m[i] = RowAt(c, Len(m[i][2]) + 1)
  <2> DEFINE k == Len(m[i][2])
  <2>1. k = b - a + i - 1
    BY <1>3
  <2> HIDE DEF k
  <2>2. k < b /\ k + 1 = b - a + i
    BY <1>1, <2>1
  <2> QED BY <1>2, <2>2 DEF k
<1>5. ASSUME NEW i \in 1..a, NEW j \in 1..a, i < j
      PROVE  Len(m[i][2]) < Len(m[j][2])
  <2>1. Len(m[i][2]) = b - a + i - 1 /\ Len(m[j][2]) = b - a + j - 1
    BY <1>3
  <2> QED BY <1>1, <1>5, <2>1
<1> QED BY <1>1, <1>4, <1>5 DEF RowsIn, a, b

LEMMA RowsInMore ==
  ASSUME NEW m, NEW c, RowsIn(m, c), NEW s \in Context
  PROVE  RowsIn(m, c \o s)
<1> DEFINE u == c \o s
           a == Len(m)
           b == Len(c)
<1>1. m \in Seq(Pairs) /\ c \in Context /\ a \in Nat /\ b \in Nat
  BY LenProperties DEF RowsIn, Context
<1>2. u \in Context /\ Len(u) = b + Len(s) /\ Len(s) \in Nat
      /\ \A i \in 1..(b + Len(s)) : u[i] = IF i <= b THEN c[i] ELSE s[i - b]
  BY <1>1, ConcatProperties, LenProperties DEF Context
<1>3. \A n \in 0..b : SubSeq(u, 1, n) = SubSeq(c, 1, n)
  BY <1>1, FirstOfConcat DEF Context
<1> HIDE DEF u
<1>4. ASSUME NEW i \in 1..a
      PROVE  Len(m[i][2]) < Len(u) /\ m[i] = RowAt(u, Len(m[i][2]) + 1)
  <2> DEFINE k == Len(m[i][2])
  <2>1. k < b /\ m[i] = RowAt(c, k + 1)
    BY DEF RowsIn
  <2>2. k \in Nat
    <3>1. m[i] \in Token \X Context
      BY <1>1, ElementOfSeq DEF Pairs
    <3>2. m[i][2] \in Context
      BY <3>1
    <3> QED BY <3>2, Nothing
  <2> HIDE DEF k, a, b
  <2>3. k + 1 \in 1..(b + Len(s)) /\ k + 1 <= b /\ (k + 1) - 1 \in 0..b /\ k < Len(u)
    BY <1>1, <1>2, <2>1, <2>2
  <2>4. u[k + 1] = c[k + 1] /\ SubSeq(u, 1, (k + 1) - 1) = SubSeq(c, 1, (k + 1) - 1)
    BY <1>2, <1>3, <2>3
  <2>5. RowAt(u, k + 1) = RowAt(c, k + 1)
    BY <2>4 DEF RowAt
  <2> QED BY <2>1, <2>3, <2>5 DEF k
<1> QED BY <1>1, <1>2, <1>4 DEF RowsIn, u, a

LEMMA NoRowsIn ==
  ASSUME NEW c \in Context, c # <<>>, NEW k
  PROVE  RowsF(<<>>, c, k)
BY NoRows, RowsOfIn DEF RowsF

LEMMA RowsInType ==
  ASSUME NEW m, NEW c, RowsIn(m, c)
  PROVE  /\ m \in Seq(Pairs) /\ c \in Context /\ Len(m) \in Nat /\ Len(c) \in Nat
         /\ \A i \in 1..Len(m) : Len(m[i][2]) \in Nat
<1>1. m \in Seq(Pairs) /\ c \in Context /\ Len(m) \in Nat
  BY LenProperties DEF RowsIn
<1>2. ASSUME NEW i \in 1..Len(m)
      PROVE  Len(m[i][2]) \in Nat
  <2>1. m[i] \in Token \X Context
    BY <1>1, ElementOfSeq DEF Pairs
  <2>2. m[i][2] \in Context
    BY <2>1
  <2> QED BY <2>2, Nothing
<1> QED BY <1>1, <1>2, Nothing

LEMMA RowsInJoin ==
  ASSUME NEW m, NEW r, NEW c, RowsIn(m, c), RowsIn(r, c),
         \A i \in 1..Len(m), j \in 1..Len(r) : Len(m[i][2]) < Len(r[j][2])
  PROVE  RowsIn(m \o r, c)
<1> DEFINE t == m \o r
           a == Len(m)
           l == Len(r)
<1>1. m \in Seq(Pairs) /\ r \in Seq(Pairs) /\ c \in Context /\ a \in Nat /\ l \in Nat
  BY RowsInType
<1>2. t \in Seq(Pairs) /\ Len(t) = a + l /\ \A i \in 1..(a + l) : t[i] = IF i <= a THEN m[i] ELSE r[i - a]
  BY <1>1, ConcatProperties
<1>3. /\ \A i \in 1..a : Len(m[i][2]) < Len(c) /\ m[i] = RowAt(c, Len(m[i][2]) + 1)
      /\ \A i, j \in 1..a : i < j => Len(m[i][2]) < Len(m[j][2])
  BY DEF RowsIn
<1>4. /\ \A i \in 1..l : Len(r[i][2]) < Len(c) /\ r[i] = RowAt(c, Len(r[i][2]) + 1)
      /\ \A i, j \in 1..l : i < j => Len(r[i][2]) < Len(r[j][2])
  BY DEF RowsIn
<1>5. \A i \in 1..a, j \in 1..l : Len(m[i][2]) < Len(r[j][2])
  OBVIOUS
<1> HIDE DEF t, a, l
<1>6. ASSUME NEW i \in 1..(a + l)
      PROVE  \/ i \in 1..a /\ t[i] = m[i]
             \/ ~(i <= a) /\ i - a \in 1..l /\ t[i] = r[i - a]
  <2>1. CASE i <= a
    BY <1>1, <1>2, <2>1
  <2>2. CASE ~(i <= a)
    <3>1. i - a \in 1..l
      BY <1>1, <2>2
    <3> QED BY <1>2, <2>2, <3>1
  <2> QED BY <2>1, <2>2
<1>7. \A i \in 1..(a + l) : Len(t[i][2]) < Len(c) /\ t[i] = RowAt(c, Len(t[i][2]) + 1)
  BY <1>3, <1>4, <1>6
<1>8. ASSUME NEW i \in 1..(a + l), NEW j \in 1..(a + l), i < j
      PROVE  Len(t[i][2]) < Len(t[j][2])
  <2>1. CASE j \in 1..a /\ t[j] = m[j]
    <3>1. i \in 1..a /\ i <= a
      BY <1>1, <1>8, <2>1
    <3>2. t[i] = m[i]
      BY <1>6, <3>1
    <3> QED BY <1>3, <1>8, <2>1, <3>1, <3>2
  <2>2. CASE ~(j <= a) /\ j - a \in 1..l /\ t[j] = r[j - a]
    <3>1. CASE i \in 1..a /\ t[i] = m[i]
      BY <1>5, <2>2, <3>1
    <3>2. CASE ~(i <= a) /\ i - a \in 1..l /\ t[i] = r[i - a]
      <4>1. i - a < j - a
        BY <1>1, <1>8
      <4> QED BY <1>4, <2>2, <3>2, <4>1
    <3> QED BY <1>6, <3>1, <3>2
  <2> QED BY <1>6, <2>1, <2>2
<1> QED BY <1>1, <1>2, <1>7, <1>8 DEF RowsIn, t

LEMMA RowsInGrow ==
  ASSUME NEW m, NEW c, RowsIn(m, c), c # <<>>, NEW v, NEW new, NewRows(new, v, c)
  PROVE  RowsIn(m \o new, c \o v)
<1>1. m \in Seq(Pairs) /\ c \in Context /\ v \in Context /\ new \in Seq(Pairs) /\ Len(new) = Len(v)
      /\ Len(m) \in Nat /\ Len(c) \in Nat /\ Len(v) \in Nat
  BY RowsInType, Nothing DEF NewRows
<1>2. RowsIn(m, c \o v)
  BY <1>1, RowsInMore
<1>3. RowsIn(new, c \o v)
  <2>1. RowsOf(<<>>, c)
    BY <1>1, NoRows
  <2>2. RowsOf(<<>> \o new, c \o v)
    BY <2>1, RowsGrow
  <2>3. <<>> \o new = new
    BY <1>1, ConcatEmptySeq
  <2> QED BY <2>2, <2>3, RowsOfIn
<1>4. ASSUME NEW i \in 1..Len(m), NEW j \in 1..Len(new)
      PROVE  Len(m[i][2]) < Len(new[j][2])
  <2>1. Len(m[i][2]) < Len(c) /\ Len(m[i][2]) \in Nat
    BY RowsInType DEF RowsIn
  <2>2. new[j][2] = c \o SubSeq(v, 1, j - 1)
    <3>1. new[j] = RowAfter(v, c, j)
      BY <1>1 DEF NewRows
    <3> QED BY <3>1 DEF RowAfter
  <2>3. j - 1 \in 0..Len(v)
    BY <1>1
  <2>4. SubSeq(v, 1, j - 1) \in Context
    BY <1>1, <2>3, FirstPart DEF Context
  <2>5. Len(new[j][2]) = Len(c) + Len(SubSeq(v, 1, j - 1)) /\ Len(SubSeq(v, 1, j - 1)) \in Nat
    BY <1>1, <2>2, <2>4, Joined
  <2> QED BY <1>1, <2>1, <2>5
<1> QED BY <1>2, <1>3, <1>4, RowsInJoin

LEMMA RowsFGrow ==
  ASSUME NEW m, NEW c, NEW k, RowsF(m, c, k), c # <<>>, NEW v, NEW new, NewRows(new, v, c)
  PROVE  RowsF(m \o new, c \o v, k)
BY RowsInGrow, RowsGrow DEF RowsF

(* One row more.                                                           *)
LEMMA RowsFOne ==
  ASSUME NEW m, NEW c, NEW k, RowsF(m, c, k), c # <<>>, NEW z \in Token
  PROVE  /\ RowsF(m \o <<<<z, c>>>>, c \o <<z>>, k) /\ Append(m, <<z, c>>) = m \o <<<<z, c>>>>
         /\ m \o <<<<z, c>>>> \in Seq(Pairs)
<1> DEFINE new == <<<<z, c>>>>
           v == <<z>>
<1>1. m \in Seq(Pairs) /\ c \in Context
  BY RowsInType DEF RowsF
<1>2. <<z, c>> \in Pairs
  BY <1>1 DEF Pairs
<1>3. NewRows(new, v, c)
  <2>1. new \in Seq(Pairs) /\ Len(new) = 1 /\ new[1] = <<z, c>>
    BY <1>2
  <2>2. v \in Context /\ Len(v) = 1 /\ v[1] = z /\ SubSeq(v, 1, 0) = <<>>
    BY DEF Context
  <2>3. c \o <<>> = c
    BY <1>1, Nothing
  <2>4. RowAfter(v, c, 1) = <<z, c>>
    <3>1. RowAfter(v, c, 1) = <<v[1], c \o SubSeq(v, 1, 0)>>
      BY DEF RowAfter
    <3> QED BY <2>2, <2>3, <3>1
  <2> HIDE DEF new, v
  <2> QED BY <2>1, <2>2, <2>4 DEF NewRows
<1>4. RowsF(m \o new, c \o v, k)
  <2> HIDE DEF new, v
  <2> QED BY <1>3, RowsFGrow
<1>5. Append(m, <<z, c>>) = m \o new
  BY <1>1, <1>2, AppendIsConcat
<1>6. m \o new \in Seq(Pairs)
  BY <1>4, RowsInType DEF RowsF
<1> QED BY <1>4, <1>5, <1>6

LEMMA RowsFTrue ==
  ASSUME NEW m, NEW c, RowsF(m, c, knobs)
  PROVE  F!TrueRows(m, c)
<1> DEFINE a == Len(m)
           n(i) == Len(m[i][2])
<1>1. m \in Seq(Pairs) /\ c \in Context /\ a \in Nat /\ Len(c) \in Nat /\ DOMAIN m = 1..a
      /\ \A i \in 1..a : n(i) \in Nat
  BY RowsInType, LenProperties DEF RowsF
<1>2. /\ \A i \in 1..a : n(i) < Len(c) /\ m[i] = RowAt(c, n(i) + 1)
      /\ \A i, j \in 1..a : i < j => n(i) < n(j)
  BY DEF RowsF, RowsIn
<1>3. ASSUME NEW i \in DOMAIN m
      PROVE  m[i] = <<c[n(i) + 1], F!First(c, n(i))>>
  <2>1. m[i] = <<c[n(i) + 1], SubSeq(c, 1, (n(i) + 1) - 1)>> /\ n(i) \in Nat
    BY <1>1, <1>2 DEF RowAt
  <2>2. (n(i) + 1) - 1 = n(i)
    BY <2>1
  <2> HIDE DEF n
  <2> QED BY <2>1, <2>2, FlashOps
<1>4. ASSUME knobs.pipeline # 1, NEW i \in 1..a
      PROVE  n(i) = Len(c) - a + i - 1
  <2>1. RowsOf(m, c)
    BY <1>4 DEF RowsF
  <2>2. a < Len(c) /\ m[i] = RowAt(c, Len(c) - a + i)
    BY <2>1 DEF RowsOf
  <2>3. Len(c) - a + i - 1 \in 0..Len(c)
    BY <1>1, <2>2
  <2>4. Len(SubSeq(c, 1, Len(c) - a + i - 1)) = Len(c) - a + i - 1
    BY <1>1, <2>3, FirstPart DEF Context
  <2> QED BY <2>2, <2>4 DEF RowAt
<1>5. ASSUME NEW i \in 2..a
      PROVE  IF knobs.pipeline = 1 THEN n(i) - n(i - 1) > 0 ELSE n(i) - n(i - 1) = 1
  <2>1. i \in 1..a /\ i - 1 \in 1..a /\ i - 1 < i
    BY <1>1
  <2>2. CASE knobs.pipeline = 1
    <3>1. n(i - 1) < n(i) /\ n(i) \in Nat /\ n(i - 1) \in Nat
      BY <1>1, <1>2, <2>1
    <3> HIDE DEF n
    <3>2. n(i) - n(i - 1) > 0
      BY <3>1
    <3> QED BY <2>2, <3>2
  <2>3. CASE knobs.pipeline # 1
    <3>1. n(i) = Len(c) - a + i - 1 /\ n(i - 1) = Len(c) - a + (i - 1) - 1
      BY <1>4, <2>1, <2>3
    <3> HIDE DEF n
    <3>2. n(i) - n(i - 1) = 1
      BY <1>1, <2>1, <3>1
    <3> QED BY <2>3, <3>2
  <2> QED BY <2>2, <2>3
<1>6. ASSUME knobs.pipeline # 1, m # <<>>
      PROVE  n(a) + 1 = Len(c)
  <2>1. a \in 1..a
    BY <1>1, <1>6, EmptySeq
  <2>2. n(a) = Len(c) - a + a - 1
    BY <1>4, <1>6, <2>1
  <2> HIDE DEF n
  <2> QED BY <1>1, <2>2
<1>7. F!Last(m) = m[a]
  BY FlashOps
<1> QED BY <1>3, <1>5, <1>6, <1>7 DEF F!TrueRows

(***************************************************************************)
(* Its checkpoints                                                         *)
(***************************************************************************)
LEMMA MarkOfType ==
  ASSUME NEW c \in Context, NEW n \in 0..Len(c)
  PROVE  MarkOf(c, n) \in AnyMarksF
<1>1. SubSeq(c, 1, n) \in Context /\ n \in Nat
  BY FirstPart, Nothing DEF Context
<1>2. Grams(SubSeq(c, 1, n)) \in Context
  BY <1>1, CachesType
<1> QED BY <1>1, <1>2 DEF MarkOf, AnyMarksF

LEMMA MarksFType ==
  ASSUME NEW c \in Context
  PROVE  /\ MarksF(c) \subseteq AnyMarksF
         /\ \A g \in MarksF(c) : /\ g.pos \in 1..Len(c) /\ g.pos \in Nat /\ g.rec = SubSeq(c, 1, g.pos)
                                 /\ g.ctx = Grams(SubSeq(c, 1, g.pos))
<1>1. \A n \in 1..Len(c) : n \in 0..Len(c) /\ n \in Nat
  BY Nothing
<1>2. MarksF(c) \subseteq AnyMarksF
  BY <1>1, MarkOfType DEF MarksF
<1>3. ASSUME NEW g \in MarksF(c)
      PROVE  /\ g.pos \in 1..Len(c) /\ g.pos \in Nat /\ g.rec = SubSeq(c, 1, g.pos)
             /\ g.ctx = Grams(SubSeq(c, 1, g.pos))
  <2>1. PICK n \in 1..Len(c) : g = MarkOf(c, n)
    BY DEF MarksF
  <2> QED BY <1>1, <2>1 DEF MarkOf
<1> QED BY <1>2, <1>3

(* The same checkpoint is one of any context that agrees so far.           *)
LEMMA MarksFOfMore ==
  ASSUME NEW c \in Context, NEW s \in Context
  PROVE  MarksF(c) \subseteq MarksF(c \o s)
<1> DEFINE u == c \o s
           b == Len(c)
           l == Len(u)
<1>1. b \in Nat /\ l \in Nat /\ b <= l
  <2>1. Len(u) = Len(c) + Len(s) /\ Len(c) \in Nat /\ Len(s) \in Nat
    BY Joined
  <2> QED BY <2>1
<1>2. \A n \in 0..b : SubSeq(u, 1, n) = SubSeq(c, 1, n)
  BY FirstOfConcat DEF Context
<1> HIDE DEF u, b, l
<1>3. ASSUME NEW n \in 1..b PROVE n \in 0..b /\ n \in 1..l
  BY <1>1
<1>4. \A n \in 1..b : MarkOf(c, n) = MarkOf(u, n)
  BY <1>2, <1>3 DEF MarkOf
<1> QED BY <1>3, <1>4 DEF MarksF, b, l, u

LEMMA MarksFOfFirst ==
  ASSUME NEW c \in Context, NEW n \in 0..Len(c)
  PROVE  {g \in MarksF(c) : g.pos <= n} \subseteq MarksF(SubSeq(c, 1, n))
<1> DEFINE f == SubSeq(c, 1, n)
           l == Len(c)
<1>1. Len(f) = n /\ l \in Nat /\ \A k \in 0..n : SubSeq(f, 1, k) = SubSeq(c, 1, k)
  BY FirstPart, FirstOfFirst, Nothing DEF Context
<1> HIDE DEF f
<1>2. ASSUME NEW k \in 1..l, k <= n PROVE k \in 1..n /\ k \in 0..n
  BY <1>1, <1>2 DEF l
<1>3. ASSUME NEW g \in MarksF(c), g.pos <= n
      PROVE  g \in MarksF(f)
  <2>1. PICK k \in 1..l : g = MarkOf(c, k)
    BY DEF MarksF, l
  <2>2. k <= n
    BY <1>3, <2>1 DEF MarkOf
  <2>3. MarkOf(c, k) = MarkOf(f, k) /\ k \in 1..n
    BY <1>1, <1>2, <2>2 DEF MarkOf
  <2> QED BY <1>1, <2>1, <2>3 DEF MarksF
<1> QED BY <1>3 DEF f

LEMMA MarksFOfPart ==
  ASSUME NEW c \in Context, NEW k \in 0..Len(c), NEW n \in k..Len(c)
  PROVE  MarksF(SubSeq(c, 1, k)) \subseteq MarksF(SubSeq(c, 1, n))
<1> DEFINE l == Len(c)
           f == SubSeq(c, 1, n)
           e == SubSeq(c, 1, k)
<1>1. l \in Nat /\ n \in 0..l /\ k \in 0..n
  BY Nothing
<1>2. f \in Context /\ Len(f) = n /\ SubSeq(f, 1, k) = e
  BY <1>1, FirstPart, FirstOfFirst DEF Context
<1>3. PICK s \in Context : f = e \o s
  <2>1. SubSeq(f, k + 1, Len(f)) \in Context /\ SubSeq(f, 1, k) \o SubSeq(f, k + 1, Len(f)) = f
    BY <1>1, <1>2, FirstAndRest DEF Context
  <2> HIDE DEF f, e
  <2> QED BY <1>2, <2>1
<1>4. e \in Context
  BY FirstPart DEF Context
<1> HIDE DEF e, f
<1>5. MarksF(e) \subseteq MarksF(f)
  BY <1>3, <1>4, MarksFOfMore
<1> QED BY <1>5 DEF e, f

(* One more checkpoint, further on in the prompt.                          *)
LEMMA MarkFAdded ==
  ASSUME NEW p \in Context, NEW k \in 0..Len(p), NEW e \in 0..Len(p), k < e,
         NEW cps, Ladder(cps, MarksF(SubSeq(p, 1, k)))
  PROVE  Ladder(F!Checkpointed(cps, CachesOf(SubSeq(p, 1, e))), MarksF(SubSeq(p, 1, e)))
<1> DEFINE x == MarkOf(SubSeq(p, 1, e), e)
           f == SubSeq(p, 1, k)
           t == SubSeq(p, 1, e)
<1>1. Len(p) \in Nat /\ k \in Nat /\ e \in Nat /\ e \in k..Len(p) /\ e \in 1..e
  <2>1. Len(p) \in Nat
    BY Nothing
  <2> DEFINE l == Len(p)
  <2>2. l \in Nat /\ k \in 0..l /\ e \in 0..l /\ k < e
    BY <2>1
  <2> HIDE DEF l
  <2>3. k \in Nat /\ e \in Nat /\ e \in k..l /\ e \in 1..e
    BY <2>2
  <2> QED BY <2>1, <2>3 DEF l
<1>2. f \in Context /\ Len(f) = k /\ t \in Context /\ Len(t) = e
  BY FirstPart DEF Context
<1>3. SubSeq(t, 1, e) = t
  BY <1>2, SubSeqFull DEF Context
<1>4. MarksF(f) \subseteq MarksF(t)
  BY <1>1, MarksFOfPart
<1>5. \A g \in MarksF(f) : g.pos \in 1..Len(f)
  BY <1>2, MarksFType
<1>6. x \in MarksF(t) /\ x.pos = e
  <2> HIDE DEF t
  <2> QED BY <1>1, <1>2 DEF MarksF, MarkOf, t
<1>7. F!Checkpointed(cps, CachesOf(t)) = W!Final(Append(cps, x), Retention)
  <2> HIDE DEF t
  <2>1. CachesOf(t).kv = t /\ CachesOf(t).rec = t /\ CachesOf(t).ctx = Grams(t)
    BY DEF CachesOf
  <2>2. MarkOf(t, e) = [pos |-> Len(t), rec |-> t, ctx |-> Grams(t)]
    BY <1>2, <1>3 DEF MarkOf
  <2>3. F!Checkpointed(cps, CachesOf(t)) = F!Final(Append(cps, [pos |-> Len(t), rec |-> t, ctx |-> Grams(t)]), Retention)
    BY <2>1 DEF F!Checkpointed
  <2> QED BY <2>2, <2>3, FlashOps DEF t
<1> HIDE DEF f, t, x
<1>8. Ladder(cps, MarksF(f)) /\ cps \in Seq(MarksF(f))
  BY DEF Ladder, f
<1>9. \A i \in 1..Len(cps) : cps[i] \in MarksF(f)
  BY <1>8, LenProperties, ElementOfSeq
<1>10. \A i \in 1..Len(cps) : cps[i].pos < x.pos
  BY <1>1, <1>2, <1>5, <1>6, <1>9
<1>11. Ladder(cps, MarksF(t))
  BY <1>4, <1>8, LadderWidens
<1>12. Ladder(W!Final(Append(cps, x), Retention), MarksF(t))
  BY <1>6, <1>10, <1>11, FlashSizes, LadderGrows
<1> QED BY <1>7, <1>12 DEF t

LEMMA TailMore ==
  ASSUME NEW c \in Context, NEW s \in Context, NEW k, NEW t, TailF(t, c, k)
  PROVE  TailF(t, c \o s, k)
<1>1. t \in AnyTailsF /\ t.pos \in 0..Len(c) /\ t.h = SubSeq(c, 1, t.pos)
      /\ (t.pos # 0 => RowsF(t.mtp, SubSeq(c, 1, t.pos), k))
  BY DEF TailF
<1>2. SubSeq(c \o s, 1, t.pos) = SubSeq(c, 1, t.pos)
  BY <1>1, FirstOfConcat DEF Context
<1>3. t.pos \in 0..Len(c \o s)
  <2>1. Len(c \o s) = Len(c) + Len(s) /\ Len(c) \in Nat /\ Len(s) \in Nat
    BY Joined
  <2> QED BY <1>1, <2>1
<1> QED BY <1>1, <1>2, <1>3 DEF TailF

LEMMA TailCut ==
  ASSUME NEW c \in Context, NEW n \in 0..Len(c), NEW k, NEW t, TailF(t, c, k), t.pos = n
  PROVE  TailF(t, SubSeq(c, 1, n), k)
<1> DEFINE f == SubSeq(c, 1, n)
<1>1. f \in Context /\ Len(f) = n /\ n \in 0..n
  BY FirstPart DEF Context
<1>2. SubSeq(f, 1, n) = f
  BY <1>1, SubSeqFull DEF Context
<1>3. t \in AnyTailsF /\ t.h = f /\ (n # 0 => RowsF(t.mtp, f, k))
  BY DEF TailF
<1> HIDE DEF f
<1>4. TailF(t, f, k)
  BY <1>1, <1>2, <1>3 DEF TailF
<1> QED BY <1>4 DEF f

LEMMA FreshFlash ==
  /\ F!Fresh \in FlashCalls /\ F!Fresh.shared = FALSE
  /\ \A k : FlashSession(F!Invalid, k)
  /\ F!Invalid.has = FALSE
  /\ \A c \in Context : \A k : TailF(F!NoTail, c, k)
  /\ F!NoTail \in AnyTailsF
  /\ F!Fresh.c = CachesOf(<<>>) /\ F!Fresh.cps = <<>> /\ F!Fresh.reused = 0 /\ F!Fresh.drafts = <<>>
  /\ F!Fresh.next = F!NoNext
  /\ F!NoNext.round = F!NoRound /\ F!NoRound.pair = <<>> /\ F!NoRound \in Rounds
<1>1. <<>> \in Context /\ <<>> \in Seq(Pairs) /\ <<>> \in Seq(AnyMarksF) /\ <<>> \in Seq(Int) /\ 0 \in Nat
      /\ <<>> \in Seq(Context) /\ Len(<<>>) = 0
  BY Nothing, EmptyList
<1>2. F!NoTail = [pos |-> 0, h |-> <<>>, mtp |-> <<>>]
  BY DEF F!NoTail, F!Unknown
<1>3. F!NoTail \in AnyTailsF
  BY <1>1, <1>2 DEF AnyTailsF
<1>4. ASSUME NEW c \in Context, NEW k PROVE TailF(F!NoTail, c, k)
  <2>1. 0 \in 0..Len(c) /\ SubSeq(c, 1, 0) = <<>>
    BY Nothing, SubSeqEmpty DEF Context
  <2> QED BY <1>2, <1>3, <2>1 DEF TailF
<1>5. F!NoCache = CachesOf(<<>>)
  <2>1. Grams(<<>>) = <<>>
    <3>1. Grams(<<>>) \in Context /\ Len(Grams(<<>>)) = W!AtMost(ContextLen, 0)
      BY <1>1, FinalFacts, FlashSizes DEF Grams
    <3>2. W!AtMost(ContextLen, 0) = 0
      BY FlashSizes DEF W!AtMost
    <3> QED BY <3>1, <3>2, Nothing
  <2> QED BY <2>1 DEF F!NoCache, CachesOf
<1>6. CachesOf(<<>>) \in FlashCaches
  BY <1>1, CachesType
<1>7. F!NoRound \in Rounds /\ F!NoRound.pair = <<>>
  <2>1. F!Pre(F!NoCache) = [idxLen |-> 0, ctx |-> <<>>, rec |-> <<>>]
    BY <1>1 DEF F!Pre, F!NoCache
  <2> QED BY <1>1, <2>1 DEF F!NoRound, Rounds
<1>8. F!NoNext \in [round : Rounds, c : FlashCaches, mtp : Seq(Pairs)] /\ F!NoNext.round = F!NoRound
  BY <1>1, <1>5, <1>6, <1>7 DEF F!NoNext
<1>9. F!Fresh \in FlashCalls
  <2>1. F!Unknown = <<>>
    BY FlashOps
  <2> QED BY <1>1, <1>3, <1>5, <1>6, <1>7, <1>8, <2>1 DEF F!Fresh, FlashCalls
<1>10. F!Fresh.c = CachesOf(<<>>) /\ F!Fresh.cps = <<>> /\ F!Fresh.reused = 0 /\ F!Fresh.drafts = <<>>
       /\ F!Fresh.next = F!NoNext /\ F!Fresh.shared = FALSE
  BY <1>5 DEF F!Fresh
<1>11. F!Invalid \in FlashSessions /\ F!Invalid.has = FALSE
  BY <1>1, <1>3, <1>5, <1>6 DEF F!Invalid, FlashSessions
<1> QED BY <1>3, <1>4, <1>7, <1>8, <1>9, <1>10, <1>11 DEF FlashSession

LEMMA FlashInit ==
  ASSUME F!Init, mode = TRUE
  PROVE  FlashInv /\ Plain!Init
<1>1. /\ knobs \in Knobs /\ sess = F!Invalid /\ st = "idle" /\ prompt = <<>> /\ budget = 0
      /\ out = <<>> /\ gen = F!Fresh
  BY DEF F!Init
<1>2. FlashType
  BY <1>1, FreshFlash, Nothing DEF FlashType
<1>3. Plain!Init
  BY <1>1 DEF Plain!Init
<1> QED BY <1>1, <1>2, <1>3
        DEF FlashInv, FlashPrefilling, FlashFirst, FlashDecoding, FlashVerifying, FlashEnded

(***************************************************************************)
(* Between two calls of it                                                 *)
(***************************************************************************)
(* What Rewind makes of a session.                                         *)
RewoundF(x, i) ==
  LET cp == x.cps[i]  n == Len(x.processed) - cp.pos
  IN  [x EXCEPT !.processed = F!Drop(@, n),
                !.c = [kv |-> F!Drop(@.kv, n), idx |-> F!Drop(@.idx, n),
                       rec |-> cp.rec, ctx |-> cp.ctx],
                !.cps = F!UpTo(@, cp.pos),
                !.tail = IF @.pos = cp.pos THEN @ ELSE F!NoTail]

LEMMA RewoundFlash ==
  ASSUME FlashSession(sess, knobs), NEW i \in DOMAIN sess.cps,
         Len(sess.processed) - sess.cps[i].pos > 0
  PROVE  FlashSession(RewoundF(sess, i), knobs) /\ sess.has
<1> DEFINE c == sess.processed
           n == sess.cps[i].pos
           f == SubSeq(c, 1, n)
           x == RewoundF(sess, i)
           up == Selection(sess.cps, {k \in DOMAIN sess.cps : sess.cps[k].pos <= n})
           tail == IF sess.tail.pos = n THEN sess.tail ELSE F!NoTail
<1>1. sess.has
  <2>1. CASE ~sess.has
    <3>1. sess.cps = <<>>
      BY <2>1 DEF FlashSession, F!Invalid
    <3> QED BY <3>1
  <2> QED BY <2>1
<1>2. /\ sess \in FlashSessions /\ c # <<>> /\ sess.c = CachesOf(c) /\ c \in Context
      /\ Ladder(sess.cps, MarksF(c)) /\ TailF(sess.tail, c, knobs)
  BY <1>1 DEF FlashSession, FlashSessions
<1>3. sess.cps[i] \in MarksF(c)
  BY <1>2, ElementOfSeq, LenProperties DEF Ladder
<1>4. n \in 1..Len(c) /\ n \in Nat /\ sess.cps[i].rec = f /\ sess.cps[i].ctx = Grams(f) /\ Len(c) \in Nat
  BY <1>2, <1>3, MarksFType, Nothing
<1>5. n \in 0..Len(c) /\ Len(c) - (Len(c) - n) = n
  <2> DEFINE l == Len(c)
  <2>1. n \in 1..l /\ l \in Nat
    BY <1>4
  <2> HIDE DEF l, n
  <2>2. n \in 0..l /\ l - (l - n) = n
    BY <2>1
  <2> QED BY <2>2 DEF l
<1>6. f \in Context /\ Len(f) = n /\ f # <<>>
  <2>1. f \in Context /\ Len(f) = n
    BY <1>2, <1>5, FirstPart DEF Context
  <2>2. n # 0
    BY <1>4
  <2> HIDE DEF f, n
  <2> QED BY <2>1, <2>2, Nothing
<1>7. x = [sess EXCEPT !.processed = f, !.c = CachesOf(f), !.cps = up, !.tail = tail]
  <2>1. SubSeq(c, 1, Len(c) - (Len(c) - n)) = f
    BY <1>5
  <2>2. F!Drop(c, Len(c) - n) = f /\ F!UpTo(sess.cps, n) = up
    BY <2>1, FlashOps
  <2>3. sess.c.kv = c /\ sess.c.idx = c
    BY <1>2 DEF CachesOf
  <2>4. CachesOf(f) = [kv |-> f, idx |-> f, rec |-> f, ctx |-> Grams(f)]
    BY DEF CachesOf
  <2> HIDE DEF f, up
  <2> QED BY <1>4, <2>2, <2>3, <2>4 DEF RewoundF
<1>8. Ladder(up, {g \in MarksF(c) : g.pos <= n})
  <2>1. Retention \in Nat
    BY FlashSizes
  <2>2. \A g \in MarksF(c) : g.pos \in Nat
    BY <1>2, MarksFType
  <2> DEFINE cps == sess.cps
  <2>3. n \in Nat /\ Ladder(cps, MarksF(c))
    BY <1>2, <1>4
  <2> HIDE DEF n, cps
  <2> QED BY <2>1, <2>2, <2>3, LadderUpTo DEF cps
<1>9. Ladder(up, MarksF(f))
  <2>1. {g \in MarksF(c) : g.pos <= n} \subseteq MarksF(f)
    BY <1>2, <1>5, MarksFOfFirst
  <2> QED BY <1>8, <2>1, LadderWidens
<1>10. TailF(tail, f, knobs) /\ tail \in AnyTailsF
  <2>1. CASE sess.tail.pos = n
    <3>1. TailF(sess.tail, f, knobs)
      BY <1>2, <1>5, <2>1, TailCut
    <3>2. sess.tail \in AnyTailsF
      BY <1>2 DEF TailF
    <3> QED BY <2>1, <3>1, <3>2
  <2>2. CASE sess.tail.pos # n
    BY <1>6, <2>2, FreshFlash
  <2> QED BY <2>1, <2>2
<1>11. up \in Seq(AnyMarksF) /\ CachesOf(f) \in FlashCaches
  <2>1. Ladder(up, AnyMarksF)
    BY <1>6, <1>9, MarksFType, LadderWidens
  <2> QED BY <1>6, <2>1, CachesType DEF Ladder
<1> HIDE DEF f, up, tail, x
<1>12. /\ x \in FlashSessions /\ x.has = sess.has /\ x.processed = f /\ x.c = CachesOf(f)
       /\ x.cps = up /\ x.tail = tail
  BY <1>2, <1>6, <1>7, <1>10, <1>11 DEF FlashSessions
<1> QED BY <1>1, <1>6, <1>9, <1>10, <1>12 DEF FlashSession, x

LEMMA FlashRewind ==
  ASSUME FlashInv, F!Rewind
  PROVE  FlashInv' /\ UNCHANGED <<prompt, budget, out>>
<1>1. PICK i \in DOMAIN sess.cps : Len(sess.processed) - sess.cps[i].pos > 0 /\ sess' = RewoundF(sess, i)
  BY DEF F!Rewind, RewoundF
<1>2. st = "idle" /\ UNCHANGED <<knobs, st, prompt, budget, mode, out, gen>>
  BY DEF F!Rewind
<1>3. FlashSession(sess', knobs) /\ sess.has
  BY <1>1, RewoundFlash DEF FlashInv, FlashType
<1>4. FlashType'
  BY <1>2, <1>3 DEF FlashInv, FlashType
<1> QED BY <1>2, <1>4 DEF FlashInv, FlashPrefilling, FlashFirst, FlashDecoding, FlashVerifying, FlashEnded

LEMMA FlashAsks ==
  ASSUME F!Begin
  PROVE  /\ prompt' \in Context /\ prompt' # <<>> /\ budget' \in Nat /\ mode' \in BOOLEAN /\ out' = <<>>
         /\ knobs' = knobs /\ (sess.processed = prompt' => sess.tail.pos = Len(prompt'))
         /\ Plain!Ask
<1>1. prompt' \in FlashPrompts /\ budget' \in Budgets /\ mode' \in BOOLEAN /\ out' = <<>> /\ knobs' = knobs
      /\ (sess.processed = prompt' => sess.tail.pos = Len(prompt'))
  BY DEF F!Begin
<1>2. prompt' \in Context /\ prompt' # <<>> /\ budget' \in Nat
  BY <1>1, FlashAssumption DEF F!PromptsAssumption, Context
<1> QED BY <1>1, <1>2, PlainAsk

LEMMA FlashBeginFresh ==
  ASSUME FlashInv, F!Begin, ~(sess.has /\ IsPrefix(sess.processed, prompt'))
  PROVE  FlashInv'
<1>1. /\ gen' = F!Fresh /\ st' = "prefill" /\ sess' = sess /\ knobs' = knobs
      /\ prompt' \in Context /\ prompt' # <<>> /\ budget' \in Nat /\ mode' \in BOOLEAN /\ out' = <<>>
  BY FlashAsks, FlashOps DEF F!Begin
<1>2. FlashType'
  BY <1>1, FreshFlash, Nothing DEF FlashType, FlashInv
<1>3. F!Done' = 0
  <2>1. gen'.c.kv = <<>>
    BY <1>1, FreshFlash DEF CachesOf
  <2> QED BY <2>1, Nothing DEF F!Done
<1>4. 0 < Len(prompt') /\ SubSeq(prompt', 1, 0) = <<>>
  <2>1. Len(prompt') \in Nat /\ Len(prompt') # 0
    BY <1>1, Nothing
  <2> QED BY <1>1, <2>1, SubSeqEmpty DEF Context
<1>5. FlashPrefilling'
  <2>1. Ladder(<<>>, MarksF(SubSeq(prompt', 1, 0)))
    BY NoMarks
  <2>2. gen'.reused <= 0
    BY <1>1, FreshFlash
  <2> QED BY <1>1, <1>3, <1>4, <2>1, <2>2, FreshFlash DEF FlashPrefilling
<1> QED BY <1>1, <1>2, <1>5 DEF FlashInv, FlashFirst, FlashDecoding, FlashVerifying, FlashEnded

LEMMA FlashBeginTaken ==
  ASSUME FlashInv, F!Begin, sess.has, IsPrefix(sess.processed, prompt')
  PROVE  FlashInv'
<1> DEFINE p == prompt'
           c == sess.processed
           n == Len(c)
           tail == IF c = p THEN sess.tail ELSE F!NoTail
           h == IF c = p THEN sess.tail.h ELSE <<>>
           mtp == IF c = p THEN sess.tail.mtp ELSE <<>>
<1>1. /\ st' = (IF c = p THEN "first" ELSE "prefill") /\ sess' = F!SessionTaken(sess) /\ knobs' = knobs
      /\ (c = p => sess.tail.pos = Len(p))
      /\ p \in Context /\ p # <<>> /\ budget' \in Nat /\ mode' \in BOOLEAN /\ out' = <<>>
  BY FlashAsks, FlashOps DEF F!Begin
<1>2. /\ sess \in FlashSessions /\ c # <<>> /\ sess.c = CachesOf(c) /\ c \in Context
      /\ Ladder(sess.cps, MarksF(c)) /\ TailF(sess.tail, c, knobs)
  BY DEF FlashInv, FlashType, FlashSession, FlashSessions
<1>3. sess' = F!Invalid
  BY <1>1 DEF F!SessionTaken
<1>4. n \in Nat /\ Len(p) \in Nat /\ n <= Len(p) /\ SubSeq(p, 1, n) = c
  <2>1. SubSeq(c, 1, n) = c
    BY <1>2, SubSeqFull DEF Context
  <2> HIDE DEF p, c
  <2> QED BY <1>1, <1>2, <2>1, Nothing DEF IsPrefix, p, c
<1>5. c # p => n < Len(p)
  <2> SUFFICES ASSUME n = Len(p) PROVE c = p
    BY <1>4
  <2>1. SubSeq(p, 1, Len(p)) = p
    BY <1>1, SubSeqFull DEF Context
  <2> QED BY <1>4, <2>1
<1>6. gen' = [F!Fresh EXCEPT !.c = sess.c, !.cps = sess.cps, !.shared = TRUE, !.reused = n,
                             !.tail = tail, !.h = h, !.mtp = mtp]
  <2>1. F!Fresh.tail = F!NoTail /\ F!Fresh.h = <<>> /\ F!Fresh.mtp = <<>>
    BY FlashOps DEF F!Fresh
  <2>2. F!Fresh \in FlashCalls
    BY FreshFlash
  <2>3. gen' = IF c = p THEN [F!Fresh EXCEPT !.c = sess.c, !.cps = sess.cps, !.shared = TRUE,
                                !.reused = n, !.tail = sess.tail, !.h = sess.tail.h, !.mtp = sess.tail.mtp]
               ELSE [F!Fresh EXCEPT !.c = sess.c, !.cps = sess.cps, !.shared = TRUE, !.reused = n]
    BY FlashOps DEF F!Begin
  <2> HIDE DEF p, c, n
  <2>4. CASE c = p
    BY <2>3, <2>4
  <2>5. CASE c # p
    BY <2>1, <2>2, <2>3, <2>5 DEF FlashCalls
  <2> QED BY <2>4, <2>5
<1>7. mtp \in Seq(Pairs) /\ h \in Context /\ tail \in AnyTailsF /\ sess.c \in FlashCaches
      /\ sess.cps \in Seq(AnyMarksF)
  <2>1. /\ sess.tail \in AnyTailsF /\ sess.tail.h \in Context /\ sess.tail.mtp \in Seq(Pairs)
        /\ <<>> \in Context /\ <<>> \in Seq(Pairs) /\ sess.c \in FlashCaches /\ sess.cps \in Seq(AnyMarksF)
    BY <1>2, Nothing, EmptyList DEF FlashSessions, AnyTailsF
  <2> HIDE DEF p, c
  <2> QED BY <2>1, FreshFlash
<1> HIDE DEF mtp, h, tail
<1>8. /\ gen' \in FlashCalls /\ gen'.c = CachesOf(c) /\ gen'.cps = sess.cps /\ gen'.reused = n
      /\ gen'.mtp = mtp /\ gen'.h = h /\ gen'.tail = tail /\ gen'.drafts = <<>> /\ gen'.next = F!NoNext
  <2>1. F!Fresh.drafts = <<>> /\ F!Fresh.next = F!NoNext /\ F!Fresh \in FlashCalls
    BY FreshFlash
  <2> HIDE DEF c, n
  <2> QED BY <1>2, <1>4, <1>6, <1>7, <2>1 DEF FlashCalls
<1>9. FlashType'
  BY <1>1, <1>3, <1>8, FreshFlash, Nothing DEF FlashType, FlashInv
<1>10. CASE c = p
  <2>1. st' = "first" /\ h = sess.tail.h /\ tail = sess.tail /\ mtp = sess.tail.mtp
    BY <1>1, <1>10 DEF h, tail, mtp
  <2>2. sess.tail.pos = n /\ n # 0
    BY <1>1, <1>2, <1>10, Nothing
  <2>3. h = p /\ RowsF(mtp, p, knobs)
    BY <1>2, <1>4, <1>10, <2>1, <2>2 DEF TailF
  <2>4. FlashMarked'
    BY <1>1, <1>2, <1>8, <1>10, <2>1 DEF FlashMarked
  <2>5. FlashFirst'
    BY <1>1, <1>8, <1>10, <2>3, <2>4 DEF FlashFirst
  <2> QED BY <1>9, <2>1, <2>5 DEF FlashInv, FlashPrefilling, FlashDecoding, FlashVerifying, FlashEnded
<1>11. CASE c # p
  <2>1. st' = "prefill"
    BY <1>1, <1>11
  <2>2. F!Done' = n
    BY <1>8 DEF F!Done, CachesOf
  <2>3. FlashPrefilling'
    <3>1. n <= n /\ n < Len(p)
      <4> HIDE DEF n, c, p
      <4> QED BY <1>4, <1>5, <1>11
    <3>2. gen'.c = CachesOf(SubSeq(p, 1, n)) /\ Ladder(gen'.cps, MarksF(SubSeq(p, 1, n)))
      BY <1>2, <1>4, <1>8
    <3> HIDE DEF n, c
    <3>3. gen'.drafts = <<>> /\ gen'.next = F!NoNext /\ gen'.reused = n
      BY <1>8
    <3> QED BY <1>1, <2>2, <3>1, <3>2, <3>3 DEF FlashPrefilling
  <2> QED BY <1>9, <2>1, <2>3 DEF FlashInv, FlashFirst, FlashDecoding, FlashVerifying, FlashEnded
<1> QED BY <1>10, <1>11

LEMMA FlashBegin ==
  ASSUME FlashInv, F!Begin
  PROVE  FlashInv' /\ Plain!Ask
BY FlashBeginFresh, FlashBeginTaken, FlashAsks

(***************************************************************************)
(* Its prefill                                                             *)
(***************************************************************************)
(* The widths w add up to t.                                               *)
Sums(w, t) ==
  /\ w \in Seq(Nat \ {0})
  /\ \E b \in [0..Len(w) -> Nat] :
       b[0] = 0 /\ b[Len(w)] = t /\ \A k \in 1..Len(w) : b[k] = b[k - 1] + w[k]

(* The ends of chunks, when u goes up by their widths.                     *)
LEMMA EndsAre ==
  ASSUME NEW n \in Nat, NEW w \in Seq(Nat \ {0}), NEW u \in [0..Len(w) -> Nat], u[0] = n,
         \A k \in 1..Len(w) : u[k] = u[k - 1] + w[k]
  PROVE  F!Ends(n, w) = [k \in 1..Len(w) |-> u[k]]
<1> DEFINE N == Len(w)
           Is(v) == v = [k \in 0..N |-> IF k = 0 THEN n ELSE v[k - 1] + w[k]]
           end == CHOOSE v : Is(v)
           ends == [k \in 1..N |-> end[k]]
<1>1. N \in Nat /\ \A k \in 1..N : w[k] \in Nat \ {0}
  BY LenProperties, ElementOfSeq
<1>2. u \in [0..N -> Nat] /\ u[0] = n /\ \A k \in 1..N : u[k] = u[k - 1] + w[k]
  OBVIOUS
<1>3. F!Ends(n, w) = ends
  BY DEF F!Ends, ends, end, Is
<1> HIDE DEF N
<1>4. Is(u)
  <2>1. ASSUME NEW k \in 0..N PROVE u[k] = IF k = 0 THEN n ELSE u[k - 1] + w[k]
    <3>1. k # 0 => k \in 1..N
      BY <1>1
    <3> QED BY <1>2, <3>1
  <2> QED BY <1>2, <2>1
<1>5. Is(end)
  <2> HIDE DEF Is
  <2> QED BY <1>4
<1> HIDE DEF end
<1>6. \A k \in 0..N : end[k] = IF k = 0 THEN n ELSE end[k - 1] + w[k]
  BY <1>5
<1> HIDE DEF Is
<1> DEFINE Bad == {k \in 0..N : end[k] # u[k]}
<1>6a. Bad \subseteq 0..N
  OBVIOUS
<1>7. end[0] = u[0]
  BY <1>1, <1>2, <1>6
<1>8. ASSUME NEW k \in 1..N, end[k - 1] = u[k - 1] PROVE end[k] = u[k]
  <2>1. k \in 0..N /\ k # 0
    BY <1>1
  <2> QED BY <1>2, <1>6, <1>8, <2>1
<1>9. Bad \in SUBSET Int /\ IsFiniteSet(Bad)
  <2> HIDE DEF Bad
  <2>1. 0 \in Int /\ N \in Int /\ 0..N \subseteq Int
    BY <1>1
  <2>2. IsFiniteSet(0..N)
    BY <2>1, FS_Interval
  <2> QED BY <1>6a, <2>1, <2>2, FS_Subset
<1>10. Bad = {}
  <2> SUFFICES ASSUME Bad # {} PROVE FALSE
    OBVIOUS
  <2>1. PICK m \in Bad : \A k \in Bad : m <= k
    <3> HIDE DEF Bad
    <3> QED BY <1>9, LeastExists
  <2>2. m \in 0..N /\ end[m] # u[m]
    BY <2>1
  <2>3. m # 0
    BY <1>7, <2>2
  <2>4. m \in 1..N /\ m - 1 \in 0..N /\ ~(m <= m - 1)
    BY <1>1, <2>2, <2>3
  <2>5. end[m - 1] = u[m - 1]
    BY <2>1, <2>4
  <2> QED BY <1>8, <2>2, <2>4, <2>5
<1>11. \A k \in 1..N : k \in 0..N /\ end[k] = u[k]
  <2>1. \A k \in 1..N : k \in 0..N
    BY <1>1
  <2> QED BY <1>10, <2>1
<1> HIDE DEF Bad
<1>12. ends = [k \in 1..N |-> u[k]]
  BY <1>11
<1> HIDE DEF ends
<1> QED BY <1>3, <1>12 DEF N

LEMMA EndsFacts ==
  ASSUME NEW n \in Nat, NEW w, NEW t, Sums(w, t), w # <<>>
  PROVE  F!Ends(n, w) \in Seq(Int) /\ F!Last(F!Ends(n, w)) = n + t /\ t \in Nat \ {0}
<1> DEFINE N == Len(w)
<1>1. w \in Seq(Nat \ {0}) /\ N \in Nat \ {0} /\ \A k \in 1..N : w[k] \in Nat \ {0}
  BY LenProperties, ElementOfSeq, EmptySeq DEF Sums
<1>2. PICK b \in [0..N -> Nat] : b[0] = 0 /\ b[N] = t /\ \A k \in 1..N : b[k] = b[k - 1] + w[k]
  BY DEF Sums
<1> DEFINE u == [k \in 0..N |-> n + b[k]]
           ends == [k \in 1..N |-> u[k]]
<1> HIDE DEF N
<1>3. u \in [0..N -> Nat] /\ u[0] = n /\ u[N] = n + t
  BY <1>1, <1>2
<1>4. ASSUME NEW k \in 1..N PROVE u[k] = u[k - 1] + w[k]
  <2>1. k \in 0..N /\ k - 1 \in 0..N
    BY <1>1
  <2>2. b[k] = b[k - 1] + w[k] /\ b[k - 1] \in Nat /\ w[k] \in Nat
    BY <1>1, <1>2, <2>1
  <2>3. u[k] = n + b[k] /\ u[k - 1] = n + b[k - 1]
    BY <2>1
  <2> HIDE DEF u
  <2> QED BY <2>2, <2>3
<1> HIDE DEF u
<1>5. F!Ends(n, w) = ends
  BY <1>1, <1>3, <1>4, EndsAre DEF N
<1>6. ends \in Seq(Int) /\ Len(ends) = N /\ ends[N] = n + t
  <2>1. \A k \in 1..N : u[k] \in Int
    BY <1>1, <1>3
  <2>2. ends \in [1..N -> Int] /\ ends[N] = u[N]
    BY <1>1, <2>1
  <2> HIDE DEF ends
  <2> QED BY <1>1, <1>3, <2>2
<1>7. t \in Nat \ {0}
  <2>1. N \in 1..N /\ N - 1 \in 0..N
    BY <1>1
  <2>2. b[N] = b[N - 1] + w[N] /\ b[N - 1] \in Nat /\ w[N] \in Nat \ {0}
    BY <1>1, <1>2, <2>1
  <2> QED BY <1>2, <2>2
<1> HIDE DEF ends
<1> QED BY <1>5, <1>6, <1>7, FlashOps

(* The chunks of a run, and where they end behind the first r tokens.      *)
LEMMA WalkSums ==
  ASSUME NEW w, NEW s, NEW t, NEW n, NEW m \in Nat, NEW e, Walk(w, s, t, n, m, e)
  PROVE  e \in Nat /\ m <= e /\ Sums(w, e - m)
<1> DEFINE N == Len(w)
<1>1. w \in Seq(Nat \ {0}) /\ N \in Nat /\ \A k \in 1..N : w[k] \in Nat \ {0}
  BY LenProperties, ElementOfSeq DEF Walk
<1>2. PICK b : /\ Strides(b, N, s, t, n) /\ b[0] = m /\ b[N] = e
               /\ \A k \in 1..N : b[k] = b[k - 1] + w[k]
  BY DEF Walk
<1> HIDE DEF N
<1>3. ASSUME NEW k \in 0..N PROVE b[k] \in Nat /\ m <= b[k]
  <2>1. b[k] \in Nat /\ 0 \in 0..N
    BY <1>1, <1>2 DEF Strides
  <2>2. k # 0 => 0 < k
    BY <1>1
  <2>3. k # 0 => b[0] < b[k]
    BY <1>2, <2>1, <2>2, StridesAscend
  <2> QED BY <1>2, <2>1, <2>3
<1> DEFINE u == [k \in 0..N |-> b[k] - m]
<1>4. u \in [0..N -> Nat] /\ u[0] = 0 /\ u[N] = e - m
  <2>1. \A k \in 0..N : b[k] - m \in Nat
    BY <1>3
  <2> QED BY <1>1, <1>2, <2>1
<1>5. ASSUME NEW k \in 1..N PROVE u[k] = u[k - 1] + w[k]
  <2>1. k \in 0..N /\ k - 1 \in 0..N
    BY <1>1
  <2>2. b[k] = b[k - 1] + w[k] /\ b[k - 1] \in Nat /\ w[k] \in Nat
    BY <1>1, <1>2, <1>3, <2>1
  <2>3. u[k] = b[k] - m /\ u[k - 1] = b[k - 1] - m
    BY <2>1
  <2> HIDE DEF u
  <2> QED BY <2>2, <2>3
<1> HIDE DEF u
<1>6. Sums(w, e - m)
  BY <1>1, <1>4, <1>5 DEF Sums, N
<1>7. N \in 0..N
  BY <1>1
<1> QED BY <1>2, <1>3, <1>6, <1>7

WalkFrom(w, s, t, n, m, e, r) ==
  \E b : /\ Strides(b, Len(w), s, t, n) /\ b[0] = m /\ b[Len(w)] = e
         /\ F!Ends(r + m, w) = [k \in 1..Len(w) |-> r + b[k]]

LEMMA WalkEnds ==
  ASSUME NEW w, NEW s, NEW t, NEW n, NEW m \in Nat, NEW e, Walk(w, s, t, n, m, e), NEW r \in Nat
  PROVE  WalkFrom(w, s, t, n, m, e, r)
<1> DEFINE N == Len(w)
<1>1. w \in Seq(Nat \ {0}) /\ N \in Nat /\ \A k \in 1..N : w[k] \in Nat \ {0}
  BY LenProperties, ElementOfSeq DEF Walk
<1>2. PICK b : /\ Strides(b, N, s, t, n) /\ b[0] = m /\ b[N] = e
               /\ \A k \in 1..N : b[k] = b[k - 1] + w[k]
  BY DEF Walk
<1> DEFINE u == [k \in 0..N |-> r + b[k]]
<1> HIDE DEF N
<1>3. \A k \in 0..N : b[k] \in Nat
  BY <1>2 DEF Strides
<1>4. u \in [0..N -> Nat] /\ u[0] = r + m
  BY <1>1, <1>2, <1>3
<1>5. ASSUME NEW k \in 1..N PROVE u[k] = u[k - 1] + w[k] /\ u[k] = r + b[k]
  <2>1. k \in 0..N /\ k - 1 \in 0..N
    BY <1>1
  <2>2. b[k] = b[k - 1] + w[k] /\ b[k - 1] \in Nat /\ w[k] \in Nat
    BY <1>1, <1>2, <1>3, <2>1
  <2>3. u[k] = r + b[k] /\ u[k - 1] = r + b[k - 1]
    BY <2>1
  <2> HIDE DEF u
  <2> QED BY <2>2, <2>3
<1> HIDE DEF u
<1>6. F!Ends(r + m, w) = [k \in 1..N |-> u[k]]
  <2> DEFINE d == r + m
  <2>1. d \in Nat /\ u[0] = d
    BY <1>4
  <2> HIDE DEF d
  <2>2. F!Ends(d, w) = [k \in 1..N |-> u[k]]
    BY <1>1, <1>4, <1>5, <2>1, EndsAre DEF N
  <2> QED BY <2>2 DEF d
<1>7. [k \in 1..N |-> u[k]] = [k \in 1..N |-> r + b[k]]
  BY <1>5
<1> QED BY <1>2, <1>6, <1>7 DEF WalkFrom, N

(* Whole chunks before the last one.                                       *)
LEMMA WholeChunks ==
  ASSUME NEW l \in Nat, NEW s \in Nat \ {0}, NEW g \in Nat, s <= l
  PROVE  LET q == W!AtMost(g, (l - s) \div s)
         IN  q \in Nat /\ q * s \in Nat /\ l - q * s \in Nat /\ s <= l - q * s
<1> DEFINE d == (l - s) \div s
           q == W!AtMost(g, d)
<1>1. d \in Nat /\ d * s <= l - s
  OBVIOUS
<1> HIDE DEF d
<1>2. q \in Nat /\ q <= d
  BY <1>1 DEF W!AtMost
<1> HIDE DEF q
<1>3. q * s <= d * s /\ q * s \in Nat
  BY <1>1, <1>2
<1> DEFINE x == q * s
           y == d * s
<1>4. x \in Nat /\ y \in Int /\ x <= y /\ y <= l - s
  BY <1>1, <1>3
<1> HIDE DEF x, y
<1>5. l - x \in Nat /\ s <= l - x
  BY <1>4
<1> QED BY <1>2, <1>4, <1>5 DEF x, q, d

(* A prompt with one chunk left makes no group.                            *)
LEMMA GroupLong ==
  ASSUME NEW left \in Nat, left <= PrefillStep
  PROVE  F!GroupWidths(left) = <<>>
<1> DEFINE s == PrefillStep
           whole == IF left < s THEN 0 ELSE F!AtMost(Group, (left - s) \div s)
           after == left - whole * s
           odd   == IF whole < Group /\ s < after /\ after < 2 * s THEN <<after - s>> ELSE <<>>
           even  == [k \in 1..whole |-> s]
           most  == even \o odd
           rest  == IF odd = <<>> THEN after ELSE s
           tail  == rest - FlashTail
           group == IF most # <<>> /\ FlashTail < rest /\ rest <= s THEN Append(most, tail)
                    ELSE IF Len(most) = 1 /\ odd = <<>> THEN <<>> ELSE most
<1>1. F!GroupWidths(left) = group
  BY DEF F!GroupWidths, F!BeforeTail
<1>2. s \in Nat \ {0} /\ Group \in Nat /\ left <= s
  BY FlashSizes
<1> HIDE DEF s
<1>3. whole = 0
  <2>1. CASE left < s
    BY <2>1
  <2>2. CASE ~(left < s)
    <3>1. left - s = 0
      BY <1>2, <2>2
    <3>2. whole = W!AtMost(Group, 0 \div s)
      BY <2>2, <3>1, FlashOps
    <3>3. 0 \div s = 0
      BY <1>2
    <3> HIDE DEF whole
    <3> QED BY <1>2, <3>2, <3>3 DEF W!AtMost
  <2> QED BY <2>1, <2>2
<1> HIDE DEF whole
<1>4. after = left
  BY <1>2, <1>3
<1> HIDE DEF after
<1>5. odd = <<>>
  BY <1>2, <1>4
<1> HIDE DEF odd
<1>6. even = <<>>
  <2>1. even = [k \in 1..0 |-> s]
    BY <1>3
  <2> QED BY <2>1
<1> HIDE DEF even
<1>7. most = <<>>
  BY <1>5, <1>6
<1> HIDE DEF most, rest, tail
<1>8. group = <<>>
  BY <1>7
<1> QED BY <1>1, <1>8

LEMMA TailApart ==
  \A n, e \in Nat, t, s \in Nat \ {0} :
    t < s /\ t < n - e =>
      /\ n - e - t \in Nat \ {0} /\ e + (n - e - t) = n - t /\ e + (n - e - t) \in Nat
      /\ e + (n - e - t) < n /\ ~(s < n - (e + (n - e - t)))
OBVIOUS

(* The chunks of a group run from a whole chunk's end to a mark, and what  *)
(* is left behind them is cut as before.                                   *)
LEMMA GroupWalk ==
  ASSUME NEW left \in Nat, NEW n \in Nat, NEW j \in Nat, n = j * PrefillStep + left,
         F!GroupWidths(left) # <<>>
  PROVE  \E e \in Nat : /\ Walk(F!GroupWidths(left), PrefillStep, FlashTail, n, j * PrefillStep, e)
                        /\ e < n
                        /\ PrefillStep < n - e => \E i \in Nat : e = i * PrefillStep
<1> DEFINE s == PrefillStep
           whole == IF left < s THEN 0 ELSE F!AtMost(Group, (left - s) \div s)
           after == left - whole * s
           odd   == IF whole < Group /\ s < after /\ after < 2 * s THEN <<after - s>> ELSE <<>>
           even  == [k \in 1..whole |-> s]
           most  == even \o odd
           rest  == IF odd = <<>> THEN after ELSE s
           tail  == rest - FlashTail
           group == IF most # <<>> /\ FlashTail < rest /\ rest <= s THEN Append(most, tail)
                    ELSE IF Len(most) = 1 /\ odd = <<>> THEN <<>> ELSE most
<1>1. F!GroupWidths(left) = group
  BY DEF F!GroupWidths, F!BeforeTail
<1>2. s \in Nat \ {0} /\ FlashTail \in Nat \ {0} /\ Group \in Nat /\ FlashTail < s
  BY FlashSizes
<1>3. s < left
  <2>1. ~(left <= PrefillStep)
    BY GroupLong
  <2> QED BY <1>2, <2>1
<1> HIDE DEF s
<1>4. whole \in Nat /\ whole * s \in Nat /\ after \in Nat /\ s <= after
  <2>1. s <= left /\ ~(left < s)
    BY <1>2, <1>3
  <2>2. whole = W!AtMost(Group, (left - s) \div s)
    BY <2>1, FlashOps
  <2> HIDE DEF whole
  <2> QED BY <1>2, <2>1, <2>2, WholeChunks
<1> DEFINE q == j + whole
           z == q * s
<1>5. q \in Nat /\ z \in Nat /\ n - z = after /\ z + s <= n
  <2> DEFINE x == whole * s
             m == j * s
  <2>1. after = left - x
    OBVIOUS
  <2> HIDE DEF whole, after
  <2>2. q \in Nat /\ z = m + x /\ m \in Nat /\ x \in Nat /\ after \in Nat /\ s <= after
    BY <1>2, <1>4
  <2>3. n = m + left
    BY DEF s
  <2> HIDE DEF x, m, z, q
  <2> QED BY <1>2, <2>1, <2>2, <2>3
<1> HIDE DEF whole, after
<1>6. Walk(even, s, FlashTail, n, j * s, z)
  <2> HIDE DEF z
  <2> QED BY <1>2, <1>4, <1>5, WalkEven DEF z, q
<1> HIDE DEF even
<1>7. \/ odd = <<>> /\ most = even /\ rest = after
      \/ odd = <<after - s>> /\ odd # <<>> /\ s < after /\ after < 2 * s
         /\ most = Append(even, after - s) /\ rest = s
  <2>1. even \in Seq(Nat \ {0})
    BY <1>6 DEF Walk
  <2>2. CASE whole < Group /\ s < after /\ after < 2 * s
    <3> DEFINE y == after - s
    <3>1. odd = <<y>>
      BY <2>2
    <3>2. y \in Nat \ {0} /\ odd # <<>>
      BY <1>2, <1>4, <2>2
    <3> HIDE DEF odd, y
    <3>3. even \o <<y>> = Append(even, y)
      BY <2>1, <3>2, AppendIsConcat
    <3> QED BY <2>2, <3>1, <3>2, <3>3 DEF y
  <2>3. CASE ~(whole < Group /\ s < after /\ after < 2 * s)
    <3>1. odd = <<>>
      BY <2>3
    <3> HIDE DEF odd
    <3>2. even \o <<>> = even
      BY <2>1, ConcatEmptySeq
    <3> QED BY <3>1, <3>2
  <2> QED BY <2>2, <2>3
<1> HIDE DEF odd, most, rest, z
<1>8. PICK e \in Nat : /\ Walk(most, s, FlashTail, n, j * s, e) /\ rest = n - e /\ e < n
                       /\ s < n - e => \E i \in Nat : e = i * s
  <2>1. CASE odd = <<>> /\ most = even /\ rest = after
    <3>1. rest = n - z /\ z < n
      BY <1>2, <1>5, <2>1
    <3>2. \E i \in Nat : z = i * s
      BY <1>5 DEF z
    <3> QED BY <1>5, <1>6, <2>1, <3>1, <3>2
  <2>2. CASE odd = <<after - s>> /\ odd # <<>> /\ s < after /\ after < 2 * s
             /\ most = Append(even, after - s) /\ rest = s
    <3> DEFINE y == after - s
    <3>0. s \in Nat \ {0} /\ z \in Nat /\ n - z = after /\ after \in Nat /\ s < after /\ after < 2 * s
      BY <1>2, <1>4, <1>5, <2>2
    <3>1. y \in Nat \ {0} /\ z + y = n - s /\ n - s \in Nat /\ n - (n - s) = s /\ n - s < n
      BY <3>0
    <3>2. NextBoundary(s, FlashTail, n, z, n - s)
      <4>1. s < n - q * s /\ n - q * s < 2 * s
        BY <3>0 DEF z
      <4>2. NextBoundary(s, FlashTail, n, q * s, n - s)
        <5> HIDE DEF q
        <5> QED BY <1>2, <1>5, <4>1, NextOdd
      <4> QED BY <4>2 DEF z
    <3>3. most = Append(even, y)
      BY <2>2
    <3> HIDE DEF y
    <3>4. Walk(most, s, FlashTail, n, j * s, z + y)
      BY <1>6, <3>1, <3>2, <3>3, WalkAppend
    <3> QED BY <1>2, <2>2, <3>1, <3>4
  <2> QED BY <1>7, <2>1, <2>2
<1>9. CASE most # <<>> /\ FlashTail < rest /\ rest <= s
  <2>1. group = Append(most, tail)
    BY <1>9
  <2>2. tail \in Nat \ {0} /\ e + tail = n - FlashTail /\ e + tail \in Nat /\ e + tail < n
        /\ ~(s < n - (e + tail)) /\ FlashTail < n - e /\ n - e <= s
    <3>1. rest = n - e /\ FlashTail < n - e /\ n - e <= s
      BY <1>8, <1>9
    <3> QED BY <1>2, <3>1, TailApart, SMTT(30)
  <2> HIDE DEF tail, group
  <2>3. NextBoundary(s, FlashTail, n, e, n - FlashTail)
    BY <1>2, <1>8, <2>2, NextTail
  <2>4. Walk(group, s, FlashTail, n, j * s, e + tail)
    BY <1>8, <2>1, <2>2, <2>3, WalkAppend
  <2> QED BY <1>1, <2>2, <2>4 DEF s
<1>10. CASE ~(most # <<>> /\ FlashTail < rest /\ rest <= s)
  <2>1. group = (IF Len(most) = 1 /\ odd = <<>> THEN <<>> ELSE most)
    BY <1>10
  <2> HIDE DEF group
  <2>2. group = most
    BY <1>1, <2>1
  <2> QED BY <1>1, <1>8, <2>2 DEF s
<1> QED BY <1>9, <1>10

LEMMA GroupFacts ==
  ASSUME NEW left \in Nat, F!GroupWidths(left) # <<>>
  PROVE  \E t \in Nat : Sums(F!GroupWidths(left), t) /\ t < left
<1>1. left = 0 * PrefillStep + left /\ 0 * PrefillStep = 0
  BY FlashSizes
<1>2. PICK e \in Nat : Walk(F!GroupWidths(left), PrefillStep, FlashTail, left, 0 * PrefillStep, e) /\ e < left
  BY <1>1, GroupWalk
<1>3. Walk(F!GroupWidths(left), PrefillStep, FlashTail, left, 0, e)
  BY <1>1, <1>2
<1>4. Sums(F!GroupWidths(left), e - 0)
  BY <1>3, WalkSums
<1>5. e - 0 = e
  OBVIOUS
<1> QED BY <1>2, <1>4, <1>5

LEMMA FinalOf ==
  ASSUME NEW Q, NEW s \in Seq(Q), NEW n \in Nat
  PROVE  W!Final(s, n) \in Seq(Q) /\ Len(W!Final(s, n)) = W!AtMost(n, Len(s))
<1>1. W!Final(s, n) \in Seq(Q) /\ Len(W!Final(s, n)) = IF n < Len(s) THEN n ELSE Len(s)
  BY LastPart DEF W!Final, W!AtMost
<1> QED BY <1>1 DEF W!AtMost

LEMMA PrefillState ==
  ASSUME FlashInv, st = "prefill"
  PROVE  /\ prompt \in Context /\ F!Done \in Nat /\ Len(prompt) \in Nat /\ F!Done < Len(prompt)
         /\ F!Done \in 0..Len(prompt) /\ F!Left = Len(prompt) - F!Done /\ F!Left \in Nat \ {0}
         /\ gen.c = CachesOf(SubSeq(prompt, 1, F!Done)) /\ gen \in FlashCalls
<1>1. prompt \in Context /\ F!Done < Len(prompt) /\ gen \in FlashCalls
      /\ gen.c = CachesOf(SubSeq(prompt, 1, F!Done))
  BY DEF FlashInv, FlashType, FlashPrefilling
<1>2. F!Done \in Nat
  <2>1. gen.c.kv \in Context
    BY <1>1 DEF FlashCalls, FlashCaches
  <2> QED BY <2>1, Nothing DEF F!Done
<1>3. Len(prompt) \in Nat
  BY <1>1, Nothing
<1>4. F!Left = Len(prompt) - F!Done
  BY DEF F!Left
<1> QED BY <1>1, <1>2, <1>3, <1>4

(* A run of the next chunks.                                               *)
LEMMA RunFacts ==
  ASSUME FlashInv, st = "prefill", NEW w, NEW t \in Nat, Sums(w, t), w # <<>>, t <= F!Left,
         NEW hypers \in Seq(Int)
  PROVE  LET g == F!Run(gen, w, hypers)
             n == F!Done + t
         IN  /\ g \in FlashCalls /\ n \in 0..Len(prompt) /\ F!Done < n
             /\ g.c = CachesOf(SubSeq(prompt, 1, n))
             /\ g = [gen EXCEPT !.c = g.c, !.cuts = g.cuts, !.kept = g.kept]
<1> DEFINE d == F!Done
           n == d + t
           g == F!Run(gen, w, hypers)
           c == F!Fed(gen.c, SubSeq(prompt, d + 1, d + t))
           cuts == gen.cuts \o F!Ends(d, w)
           kept == W!Final(gen.kept \o hypers, 2)
<1>1. /\ prompt \in Context /\ d \in Nat /\ Len(prompt) \in Nat /\ t <= Len(prompt) - d
      /\ gen.c = CachesOf(SubSeq(prompt, 1, d)) /\ gen \in FlashCalls /\ d \in 0..Len(prompt)
  BY PrefillState
<1>2. F!Ends(d, w) \in Seq(Int) /\ F!Last(F!Ends(d, w)) = d + t /\ t \in Nat \ {0}
  BY <1>1, EndsFacts
<1> DEFINE l == Len(prompt)
<1>3. l \in Nat /\ n \in 0..l /\ d < n /\ t \in 1..(l - d) /\ d \in 0..l /\ n - d = t
  <2> HIDE DEF d, l
  <2> QED BY <1>1, <1>2 DEF l
<1>4. c = CachesOf(SubSeq(prompt, 1, n))
  <2> DEFINE e == SubSeq(prompt, d + 1, d + t)
             f == SubSeq(prompt, 1, d)
  <2>1. e \in Context /\ f \o e = SubSeq(prompt, 1, n)
    BY <1>1, <1>3, NextPart
  <2>2. f \in Context
    BY <1>1, FirstPart DEF Context
  <2> HIDE DEF e, f
  <2>3. F!Fed(CachesOf(f), e) = CachesOf(f \o e)
    BY <2>1, <2>2, FedCaches
  <2> QED BY <1>1, <2>1, <2>3 DEF e, f
<1>5. c \in FlashCaches
  <2>1. SubSeq(prompt, 1, n) \in Context
    BY <1>1, <1>3, FirstPart DEF Context
  <2> QED BY <1>4, <2>1, CachesType
<1>6. cuts \in Seq(Int) /\ kept \in Seq(Int)
  <2>1. gen.cuts \in Seq(Int) /\ gen.kept \in Seq(Int)
    BY <1>1 DEF FlashCalls
  <2>2. cuts \in Seq(Int) /\ gen.kept \o hypers \in Seq(Int)
    BY <1>2, <2>1, ConcatProperties
  <2>3. kept \in Seq(Int)
    BY <2>2, FinalOf
  <2> QED BY <2>2, <2>3
<1>7. g = [gen EXCEPT !.c = c, !.cuts = cuts, !.kept = kept]
  <2>1. F!Last(F!Ends(d, w)) - d = t
    BY <1>2, <1>3
  <2>2. F!NextOf(t) = SubSeq(prompt, d + 1, d + t)
    BY DEF F!NextOf
  <2>3. g = [gen EXCEPT !.c = F!Fed(gen.c, F!NextOf(F!Last(F!Ends(d, w)) - d)), !.cuts = cuts,
                        !.kept = F!Final(gen.kept \o hypers, 2)]
    BY DEF F!Run
  <2> QED BY <2>1, <2>2, <2>3, FlashOps
<1> HIDE DEF g, c, cuts, kept
<1>8. g \in FlashCalls /\ g.c = c /\ g.cuts = cuts /\ g.kept = kept
  BY <1>1, <1>5, <1>6, <1>7 DEF FlashCalls
<1> QED BY <1>3, <1>4, <1>7, <1>8 DEF g, n

(* Chunks before the last one, and their checkpoint.                       *)
LEMMA FlashChunks ==
  ASSUME FlashInv, st = "prefill", NEW w, NEW t \in Nat, Sums(w, t), w # <<>>, t < F!Left,
         gen' = [F!Run(gen, w, w) EXCEPT !.cps = F!Checkpointed(@, F!Run(gen, w, w).c)],
         UNCHANGED <<knobs, sess, st, prompt, budget, mode, out>>
  PROVE  FlashInv' /\ UNCHANGED <<prompt, budget, out>>
<1> DEFINE g == F!Run(gen, w, w)
           d == F!Done
           n == d + t
           cps == F!Checkpointed(gen.cps, g.c)
<1>1. /\ prompt \in Context /\ d \in Nat /\ Len(prompt) \in Nat /\ d \in 0..Len(prompt)
      /\ F!Left = Len(prompt) - d /\ gen \in FlashCalls
  BY PrefillState
<1>2. w \in Seq(Int)
  <2>1. \A i \in 1..Len(w) : w[i] \in Int
    BY LenProperties, ElementOfSeq DEF Sums
  <2> QED BY <2>1, IsASeq DEF Sums
<1>3. /\ g \in FlashCalls /\ n \in 0..Len(prompt) /\ d < n /\ g.c = CachesOf(SubSeq(prompt, 1, n))
      /\ g = [gen EXCEPT !.c = g.c, !.cuts = g.cuts, !.kept = g.kept]
  <2>1. t <= F!Left
    BY <1>1
  <2> HIDE DEF g, d
  <2> QED BY <1>2, <2>1, RunFacts DEF g, d
<1>4. n < Len(prompt)
  <2>1. t < Len(prompt) - d
    BY <1>1
  <2> HIDE DEF d
  <2> QED BY <1>1, <2>1
<1>5. Ladder(cps, MarksF(SubSeq(prompt, 1, n)))
  <2>1. Ladder(gen.cps, MarksF(SubSeq(prompt, 1, d)))
    BY DEF FlashInv, FlashPrefilling
  <2>2. Ladder(F!Checkpointed(gen.cps, CachesOf(SubSeq(prompt, 1, n))), MarksF(SubSeq(prompt, 1, n)))
    <3> HIDE DEF n, d, g
    <3> QED BY <1>1, <1>3, <2>1, MarkFAdded
  <2> QED BY <1>3, <2>2
<1>6. cps \in Seq(AnyMarksF)
  <2>1. SubSeq(prompt, 1, n) \in Context
    BY <1>1, <1>3, FirstPart DEF Context
  <2>2. Ladder(cps, AnyMarksF)
    <3> HIDE DEF cps
    <3> QED BY <1>5, <2>1, MarksFType, LadderWidens
  <2> QED BY <2>2 DEF Ladder
<1>7. g.cps = gen.cps /\ g.drafts = gen.drafts /\ g.next = gen.next /\ g.reused = gen.reused
      /\ g.shared = gen.shared
  <2> HIDE DEF g
  <2> QED BY <1>1, <1>3 DEF FlashCalls
<1>8. gen' = [g EXCEPT !.cps = cps]
  BY <1>7
<1> HIDE DEF g, cps
<1>9. /\ gen' \in FlashCalls /\ gen'.c = CachesOf(SubSeq(prompt, 1, n)) /\ gen'.cps = cps
      /\ gen'.drafts = gen.drafts /\ gen'.next = gen.next /\ gen'.reused = gen.reused
      /\ gen'.shared = gen.shared
  BY <1>3, <1>6, <1>7, <1>8 DEF FlashCalls
<1>10. F!Done' = n
  <2>1. gen'.c.kv = SubSeq(prompt, 1, n)
    BY <1>9 DEF CachesOf
  <2>2. Len(SubSeq(prompt, 1, n)) = n
    BY <1>1, <1>3, FirstPart DEF Context
  <2> QED BY <2>1, <2>2 DEF F!Done
<1>11. FlashType'
  BY <1>9 DEF FlashInv, FlashType
<1>12. FlashPrefilling'
  <2>1. /\ prompt # <<>> /\ out = <<>> /\ gen.drafts = <<>> /\ gen.next = F!NoNext /\ gen.reused <= d
        /\ gen.reused \in Nat
    BY <1>1 DEF FlashInv, FlashPrefilling, FlashCalls
  <2>2. gen.reused <= n
    <3> HIDE DEF d
    <3>1. d < n /\ n \in Int
      BY <1>1, <1>3
    <3> HIDE DEF n
    <3> QED BY <1>1, <2>1, <3>1
  <2> HIDE DEF n
  <2> QED BY <1>4, <1>5, <1>9, <1>10, <2>1, <2>2 DEF FlashPrefilling
<1> QED BY <1>11, <1>12 DEF FlashInv, FlashFirst, FlashDecoding, FlashVerifying, FlashEnded

LEMMA FlashPrefillGroup ==
  ASSUME FlashInv, F!PrefillGroup
  PROVE  FlashInv' /\ UNCHANGED <<prompt, budget, out>>
<1> DEFINE w == F!GroupWidths(F!Left)
<1>1. /\ st = "prefill" /\ w # <<>> /\ UNCHANGED <<knobs, sess, st, prompt, budget, mode, out>>
      /\ gen' = [F!Run(gen, w, w) EXCEPT !.cps = F!Checkpointed(@, F!Run(gen, w, w).c)]
  BY DEF F!PrefillGroup
<1>2. F!Left \in Nat
  BY <1>1, PrefillState
<1>3. PICK t \in Nat : Sums(w, t) /\ t < F!Left
  BY <1>1, <1>2, GroupFacts
<1> HIDE DEF w
<1> QED BY <1>1, <1>3, FlashChunks

(* One chunk.                                                              *)
LEMMA SumsOne ==
  ASSUME NEW x \in Nat \ {0}
  PROVE  Sums(<<x>>, x) /\ <<x>> # <<>>
<1> DEFINE b == [k \in 0..1 |-> IF k = 0 THEN 0 ELSE x]
<1>1. b \in [0..1 -> Nat] /\ b[0] = 0 /\ b[1] = x
  OBVIOUS
<1>2. ASSUME NEW k \in 1..1 PROVE b[k] = b[k - 1] + <<x>>[k]
  BY <1>1
<1> HIDE DEF b
<1>3. Len(<<x>>) = 1 /\ <<x>> \in Seq(Nat \ {0})
  OBVIOUS
<1> QED BY <1>1, <1>2, <1>3 DEF Sums

LEMMA FlashPrefillChunk ==
  ASSUME FlashInv, F!PrefillChunk
  PROVE  FlashInv' /\ UNCHANGED <<prompt, budget, out>>
<1> DEFINE x == F!AtMost(PrefillStep, F!Left - PrefillStep)
           w == <<x>>
<1>1. /\ st = "prefill" /\ F!Left > PrefillStep /\ UNCHANGED <<knobs, sess, st, prompt, budget, mode, out>>
      /\ gen' = [F!Run(gen, w, w) EXCEPT !.cps = F!Checkpointed(@, F!Run(gen, w, w).c)]
  BY DEF F!PrefillChunk, F!ByChunk
<1>2. F!Left \in Nat /\ PrefillStep \in Nat \ {0}
  BY <1>1, PrefillState, FlashSizes
<1>3. x \in Nat \ {0} /\ x < F!Left
  <2> DEFINE l == F!Left
  <2>1. x = W!AtMost(PrefillStep, l - PrefillStep)
    BY FlashOps
  <2>2. l \in Nat /\ l > PrefillStep
    BY <1>1, <1>2
  <2> HIDE DEF x, l
  <2> QED BY <1>2, <2>1, <2>2 DEF W!AtMost, l
<1> HIDE DEF x
<1>4. Sums(w, x) /\ w # <<>>
  BY <1>3, SumsOne
<1> HIDE DEF w
<1> QED BY <1>1, <1>3, <1>4, FlashChunks

(* The rows of the last positions of a prompt.                             *)
LEMMA PrimedFacts ==
  ASSUME NEW p \in Context, p # <<>>, NEW span \in Int, span <= Len(p)
  PROVE  RowsOf(F!PrimedRows(CachesOf(p), span), p)
<1> DEFINE l == Len(p)
           n == IF span > 0 THEN span - 1 ELSE 0
           m == F!PrimedRows(CachesOf(p), span)
           row(i) == RowAt(p, l - n + i)
<1>1. l \in Nat /\ l # 0
  BY Nothing
<1> HIDE DEF l
<1>2. n \in Nat /\ n < l /\ 1..(span - 1) = 1..n
  <2>1. CASE span > 0
    BY <1>1, <2>1 DEF l
  <2>2. CASE ~(span > 0)
    <3>1. 1..(span - 1) = {} /\ 1..0 = {}
      BY <2>2
    <3> QED BY <1>1, <2>2, <3>1
  <2> QED BY <2>1, <2>2
<1>3. ASSUME NEW i \in 1..(span - 1)
      PROVE  LET k == l - span + i IN <<p[k + 1], F!Hidden(CachesOf(p), l - k)>> = row(i) /\ row(i) \in Pairs
  <2> DEFINE k == l - span + i
             e == SubSeq(p, 1, k)
  <2>1. k \in 1..l /\ k + 1 \in 1..l /\ l - (l - k) = k /\ k + 1 = l - n + i /\ (k + 1) - 1 = k
        /\ k \in 0..l
    <3>1. span > 0 /\ n = span - 1 /\ span <= l
      BY <1>1 DEF l
    <3> HIDE DEF n
    <3> QED BY <1>1, <3>1
  <2>2. F!Hidden(CachesOf(p), l - k) = SubSeq(p, 1, l - (l - k))
    BY HiddenCaches DEF l
  <2>3. F!Hidden(CachesOf(p), l - k) = e
    BY <2>1, <2>2
  <2>4. e \in Context
    BY <2>1, FirstPart DEF Context, l
  <2>5. p[k + 1] \in Token
    BY <2>1, ElementOfSeq DEF Context, l
  <2>6. row(i) = <<p[k + 1], e>>
    <3>1. row(i) = <<p[l - n + i], SubSeq(p, 1, (l - n + i) - 1)>>
      BY DEF RowAt
    <3> HIDE DEF row, n
    <3> QED BY <2>1, <3>1
  <2> HIDE DEF k, e, row
  <2>7. row(i) \in Pairs
    BY <2>4, <2>5, <2>6 DEF Pairs
  <2> QED BY <2>3, <2>6, <2>7 DEF k
<1>4. m = [i \in 1..(span - 1) |-> LET k == l - span + i IN <<p[k + 1], F!Hidden(CachesOf(p), l - k)>>]
  <2>1. CachesOf(p).kv = p
    BY DEF CachesOf
  <2> QED BY <2>1 DEF F!PrimedRows, l
<1>5. \A i \in 1..n : m[i] = row(i) /\ row(i) \in Pairs
  <2> HIDE DEF n, row
  <2> QED BY <1>2, <1>3, <1>4
<1>6. m \in Seq(Pairs) /\ Len(m) = n
  <2>1. m = [i \in 1..n |-> m[i]]
    <3> HIDE DEF n
    <3> QED BY <1>2, <1>4
  <2> HIDE DEF m, n, row
  <2>2. m \in [1..n -> Pairs]
    BY <1>5, <2>1
  <2> HIDE DEF m
  <2> QED BY <1>2, <2>2
<1> HIDE DEF m, n
<1>7. RowsOf(m, p)
  BY <1>2, <1>5, <1>6 DEF RowsOf, l
<1> QED BY <1>7 DEF m

LEMMA SpanFacts ==
  ASSUME NEW kept \in Seq(Int), kept # <<>>, NEW new \in Nat
  PROVE  F!PrimeSpan(kept, new) \in Int /\ F!PrimeSpan(kept, new) <= new
<1> DEFINE wanted == F!AtMost(PrimeWindow + 1, new)
           here == F!Last(kept)
<1>1. Len(kept) \in Nat /\ 1 \in 1..Len(kept) /\ Len(kept) \in 1..Len(kept)
  BY LenProperties, EmptySeq
<1>2. here \in Int /\ kept[1] \in Int
  BY <1>1, FlashOps, ElementOfSeq
<1>3. wanted \in Int /\ wanted <= new
  BY FlashSizes DEF F!AtMost
<1> HIDE DEF wanted, here
<1>4. F!PrimeSpan(kept, new) = IF here >= wanted \/ Len(kept) = 1 THEN F!AtMost(here, wanted)
                               ELSE F!AtMost(wanted, here + kept[1])
  BY DEF F!PrimeSpan, wanted, here
<1>5. /\ F!AtMost(here, wanted) \in Int /\ F!AtMost(here, wanted) <= new
      /\ F!AtMost(wanted, here + kept[1]) \in Int /\ F!AtMost(wanted, here + kept[1]) <= new
  BY <1>2, <1>3 DEF F!AtMost
<1> QED BY <1>4, <1>5

(* The head of the last chunk is run apart, and has a checkpoint.          *)
LEMMA SplitFacts ==
  ASSUME FlashInv, st = "prefill"
  PROVE  LET head == IF F!Left > FlashTail THEN F!Left - FlashTail ELSE 0
             split == IF head = 0 THEN gen
                      ELSE LET g == F!Run(gen, <<head>>, <<>>)
                           IN  [g EXCEPT !.cps = F!Checkpointed(@, g.c)]
         IN  /\ split \in FlashCalls
             /\ split.shared = gen.shared /\ split.drafts = gen.drafts /\ split.next = gen.next
             /\ \E k \in 0..Len(prompt) : k < Len(prompt) /\ Ladder(split.cps, MarksF(SubSeq(prompt, 1, k)))
<1> DEFINE head == IF F!Left > FlashTail THEN F!Left - FlashTail ELSE 0
           g == F!Run(gen, <<head>>, <<>>)
           cps == F!Checkpointed(gen.cps, g.c)
           split == IF head = 0 THEN gen ELSE [g EXCEPT !.cps = F!Checkpointed(@, g.c)]
           d == F!Done
           n == d + head
<1>1. /\ prompt \in Context /\ d \in Nat /\ Len(prompt) \in Nat /\ d \in 0..Len(prompt) /\ d < Len(prompt)
      /\ F!Left = Len(prompt) - d /\ F!Left \in Nat \ {0} /\ gen \in FlashCalls
  BY PrefillState
<1>2. Ladder(gen.cps, MarksF(SubSeq(prompt, 1, d)))
  BY DEF FlashInv, FlashPrefilling
<1>3. head \in Nat /\ head < F!Left
  <2> DEFINE l == F!Left
  <2>1. l \in Nat \ {0} /\ FlashTail \in Nat \ {0}
    BY <1>1, FlashSizes
  <2> HIDE DEF l
  <2>2. head = (IF l > FlashTail THEN l - FlashTail ELSE 0)
    BY DEF l
  <2> HIDE DEF head
  <2>3. head \in Nat /\ head < l
    BY <2>1, <2>2
  <2> QED BY <2>3 DEF l
<1>4. CASE head = 0
  <2>1. split = gen
    BY <1>4
  <2> HIDE DEF d, split
  <2>2. \E k \in 0..Len(prompt) : k < Len(prompt) /\ Ladder(split.cps, MarksF(SubSeq(prompt, 1, k)))
    BY <1>1, <1>2, <2>1
  <2> QED BY <1>1, <2>1, <2>2 DEF split
<1>5. CASE head # 0
  <2> HIDE DEF head
  <2>1. Sums(<<head>>, head) /\ <<head>> # <<>>
    BY <1>3, <1>5, SumsOne
  <2>2. /\ g \in FlashCalls /\ n \in 0..Len(prompt) /\ d < n /\ g.c = CachesOf(SubSeq(prompt, 1, n))
        /\ g = [gen EXCEPT !.c = g.c, !.cuts = g.cuts, !.kept = g.kept]
    <3> DEFINE w == <<head>>
    <3>1. Sums(w, head) /\ w # <<>> /\ <<>> \in Seq(Int) /\ head \in Nat /\ head <= F!Left
      BY <1>1, <1>3, <2>1, EmptyList
    <3> HIDE DEF w, d
    <3> QED BY <3>1, RunFacts DEF w, d
  <2>3. n < Len(prompt)
    <3>1. head < Len(prompt) - d
      BY <1>1, <1>3
    <3> HIDE DEF d
    <3> QED BY <1>1, <1>3, <3>1
  <2>4. Ladder(F!Checkpointed(gen.cps, CachesOf(SubSeq(prompt, 1, n))), MarksF(SubSeq(prompt, 1, n)))
    <3> HIDE DEF n, d, g
    <3> QED BY <1>1, <1>2, <2>2, MarkFAdded
  <2>5. Ladder(cps, MarksF(SubSeq(prompt, 1, n)))
    BY <2>2, <2>4
  <2>6. cps \in Seq(AnyMarksF)
    <3>1. SubSeq(prompt, 1, n) \in Context
      BY <1>1, <2>2, FirstPart DEF Context
    <3>2. Ladder(cps, AnyMarksF)
      <4> HIDE DEF cps
      <4> QED BY <2>5, <3>1, MarksFType, LadderWidens
    <3> QED BY <3>2 DEF Ladder
  <2>7. g.cps = gen.cps /\ g.drafts = gen.drafts /\ g.next = gen.next /\ g.shared = gen.shared
    <3> HIDE DEF g
    <3> QED BY <1>1, <2>2 DEF FlashCalls
  <2>8. split = [g EXCEPT !.cps = cps]
    BY <1>5, <2>7
  <2> HIDE DEF g, cps, split
  <2>9. /\ split \in FlashCalls /\ split.cps = cps
        /\ split.drafts = gen.drafts /\ split.next = gen.next /\ split.shared = gen.shared
    BY <2>2, <2>6, <2>7, <2>8 DEF FlashCalls
  <2> HIDE DEF n
  <2>10. \E k \in 0..Len(prompt) : k < Len(prompt) /\ Ladder(split.cps, MarksF(SubSeq(prompt, 1, k)))
    BY <2>2, <2>3, <2>5, <2>9
  <2> QED BY <2>9, <2>10 DEF split, g, head
<1> QED BY <1>4, <1>5

LEMMA FlashPrefillLast ==
  ASSUME FlashInv, F!PrefillLast
  PROVE  FlashInv' /\ UNCHANGED <<prompt, budget, out>>
<1> DEFINE head == IF F!Left > FlashTail THEN F!Left - FlashTail ELSE 0
           split == IF head = 0 THEN gen
                    ELSE LET g == F!Run(gen, <<head>>, <<>>)
                         IN  [g EXCEPT !.cps = F!Checkpointed(@, g.c)]
           c == F!Fed(gen.c, F!NextOf(F!Left))
           h == F!Hidden(c, 0)
           kept == F!Final(Append(gen.kept, F!Left), 2)
           span == F!PrimeSpan(kept, Len(prompt) - gen.reused)
           mtp == IF budget = 0 THEN <<>> ELSE F!PrimedRows(c, span)
           tail == [pos |-> Len(prompt), h |-> h, mtp |-> mtp]
           cps == F!Checkpointed(split.cps, c)
           cuts == Append(split.cuts, Len(prompt))
           d == F!Done
<1>1. /\ st = "prefill" /\ st' = "first" /\ UNCHANGED <<knobs, sess, prompt, budget, mode, out>>
  BY DEF F!PrefillLast, F!ByChunk
<1>2. gen' = [split EXCEPT !.c = c, !.cps = cps, !.kept = <<>>, !.cuts = cuts, !.h = h, !.mtp = mtp,
                           !.tail = tail]
  BY DEF F!PrefillLast
<1>3. /\ prompt \in Context /\ d \in Nat /\ Len(prompt) \in Nat /\ d \in 0..Len(prompt) /\ d < Len(prompt)
      /\ F!Left = Len(prompt) - d /\ F!Left \in Nat \ {0} /\ gen \in FlashCalls
      /\ gen.c = CachesOf(SubSeq(prompt, 1, d))
  BY <1>1, PrefillState
<1>4. /\ split \in FlashCalls
      /\ split.shared = gen.shared /\ split.drafts = gen.drafts /\ split.next = gen.next
      /\ \E k \in 0..Len(prompt) : k < Len(prompt) /\ Ladder(split.cps, MarksF(SubSeq(prompt, 1, k)))
  BY <1>1, SplitFacts
<1> HIDE DEF split
<1>5. SubSeq(prompt, 1, Len(prompt)) = prompt /\ Len(prompt) \in 0..Len(prompt)
  <2>1. SubSeq(prompt, 1, Len(prompt)) = prompt
    BY <1>3, SubSeqFull DEF Context
  <2> QED BY <1>3, <2>1
<1>6. c = CachesOf(prompt) /\ c \in FlashCaches
  <2> DEFINE l == Len(prompt)
             n == l - d
             e == SubSeq(prompt, d + 1, d + n)
             f == SubSeq(prompt, 1, d)
  <2>1. n \in 1..(l - d) /\ d + n = l /\ d \in 0..l
    <3>1. d \in Nat /\ l \in Nat /\ d < l
      BY <1>3
    <3> HIDE DEF d, l
    <3> QED BY <3>1
  <2>2. e \in Context /\ f \o e = SubSeq(prompt, 1, d + n)
    <3> HIDE DEF n, d
    <3> QED BY <1>3, <2>1, NextPart
  <2>3. f \in Context
    BY <1>3, FirstPart DEF Context
  <2>4. c = F!Fed(CachesOf(f), e)
    <3>1. F!NextOf(F!Left) = e
      BY <1>3 DEF F!NextOf
    <3> QED BY <1>3, <3>1
  <2>5. f \o e = prompt
    BY <1>5, <2>1, <2>2
  <2> HIDE DEF e, f
  <2>6. F!Fed(CachesOf(f), e) = CachesOf(f \o e)
    BY <2>2, <2>3, FedCaches
  <2> HIDE DEF c
  <2> QED BY <1>3, <2>4, <2>5, <2>6, CachesType
<1> HIDE DEF c
<1>7. h = prompt
  <2>1. F!Hidden(CachesOf(prompt), 0) = SubSeq(prompt, 1, Len(prompt) - 0)
    BY <1>3, HiddenCaches
  <2>2. Len(prompt) - 0 = Len(prompt)
    BY <1>3
  <2> QED BY <1>5, <1>6, <2>1, <2>2
<1>8. prompt # <<>> /\ out = <<>> /\ gen.drafts = <<>> /\ gen.next = F!NoNext /\ gen.reused <= d
      /\ gen.reused \in Nat
  BY <1>1, <1>3 DEF FlashInv, FlashPrefilling, FlashCalls
<1>9. span \in Int /\ span <= Len(prompt)
  <2> DEFINE all == Append(gen.kept, F!Left)
  <2>1. all \in Seq(Int) /\ Len(all) = Len(gen.kept) + 1 /\ Len(gen.kept) \in Nat
    BY <1>3, AppendFacts DEF FlashCalls
  <2>2. kept = W!Final(all, 2)
    BY FlashOps
  <2> HIDE DEF all, kept
  <2>3. kept \in Seq(Int) /\ Len(kept) = W!AtMost(2, Len(all))
    BY <2>1, <2>2, FinalOf
  <2>4. kept # <<>>
    <3>1. W!AtMost(2, Len(all)) # 0
      BY <2>1 DEF W!AtMost
    <3> QED BY <2>3, <3>1, EmptySeq
  <2> DEFINE new == Len(prompt) - gen.reused
  <2>5. new \in Nat /\ new <= Len(prompt)
    <3> HIDE DEF d
    <3> QED BY <1>3, <1>8
  <2> HIDE DEF new
  <2>6. F!PrimeSpan(kept, new) \in Int /\ F!PrimeSpan(kept, new) <= new
    BY <2>3, <2>4, <2>5, SpanFacts
  <2>7. span = F!PrimeSpan(kept, new)
    BY DEF new
  <2> HIDE DEF span
  <2> QED BY <1>3, <2>5, <2>6, <2>7
<1> HIDE DEF span, h
<1>10. RowsF(mtp, prompt, knobs) /\ mtp \in Seq(Pairs)
  <2>1. RowsF(mtp, prompt, knobs)
    <3>1. CASE budget = 0
      BY <1>3, <1>8, <3>1, NoRowsIn
    <3>2. CASE budget # 0
      <4>1. RowsOf(F!PrimedRows(CachesOf(prompt), span), prompt)
        BY <1>3, <1>8, <1>9, PrimedFacts
      <4> QED BY <1>6, <3>2, <4>1, RowsOfIn DEF RowsF
    <3> QED BY <3>1, <3>2
  <2> HIDE DEF mtp
  <2> QED BY <2>1, RowsInType DEF RowsF
<1> HIDE DEF mtp
<1>11. TailF(tail, prompt, knobs) /\ tail \in AnyTailsF
  <2>1. tail \in AnyTailsF /\ tail.pos = Len(prompt) /\ tail.h = prompt /\ tail.mtp = mtp
    BY <1>3, <1>7, <1>10 DEF AnyTailsF
  <2> HIDE DEF tail
  <2> QED BY <1>5, <1>10, <2>1 DEF TailF
<1> HIDE DEF tail
<1>12. Ladder(cps, MarksF(prompt)) /\ cps \in Seq(AnyMarksF)
  <2>1. PICK k \in 0..Len(prompt) : k < Len(prompt) /\ Ladder(split.cps, MarksF(SubSeq(prompt, 1, k)))
    BY <1>4
  <2> DEFINE e == Len(prompt)
             old == split.cps
  <2>2. e \in 0..Len(prompt) /\ k < e /\ SubSeq(prompt, 1, e) = prompt
    BY <1>5, <2>1
  <2>3. Ladder(old, MarksF(SubSeq(prompt, 1, k)))
    BY <2>1
  <2> HIDE DEF e, old
  <2>4. Ladder(F!Checkpointed(old, CachesOf(SubSeq(prompt, 1, e))), MarksF(SubSeq(prompt, 1, e)))
    BY <1>3, <2>2, <2>3, MarkFAdded
  <2>5. Ladder(cps, MarksF(prompt))
    BY <1>6, <2>2, <2>4 DEF old
  <2> HIDE DEF cps
  <2>6. Ladder(cps, AnyMarksF)
    BY <1>3, <2>5, MarksFType, LadderWidens
  <2> QED BY <2>5, <2>6 DEF Ladder
<1> HIDE DEF cps
<1>13. cuts \in Seq(Int)
  <2>1. split.cuts \in Seq(Int)
    BY <1>4 DEF FlashCalls
  <2> QED BY <1>3, <2>1, AppendFacts
<1> HIDE DEF cuts
<1>14. /\ gen' \in FlashCalls /\ gen'.c = c /\ gen'.cps = cps /\ gen'.h = h /\ gen'.mtp = mtp
       /\ gen'.tail = tail /\ gen'.drafts = gen.drafts /\ gen'.next = gen.next /\ gen'.shared = gen.shared
  <2>1. <<>> \in Seq(Int) /\ h \in Context
    BY <1>3, <1>7, EmptyList
  <2> QED BY <1>2, <1>4, <1>6, <1>10, <1>11, <1>12, <1>13, <2>1 DEF FlashCalls
<1>15. FlashType'
  BY <1>1, <1>14 DEF FlashInv, FlashType
<1>16. FlashMarked'
  BY <1>1, <1>8, <1>11, <1>12, <1>14 DEF FlashMarked
<1>17. FlashFirst'
  BY <1>1, <1>6, <1>7, <1>8, <1>10, <1>14, <1>16 DEF FlashFirst
<1> QED BY <1>1, <1>15, <1>17 DEF FlashInv, FlashPrefilling, FlashDecoding, FlashVerifying, FlashEnded

(***************************************************************************)
(* Its first token, and a round of it                                      *)
(***************************************************************************)
LEMMA FlashFirstToken ==
  ASSUME Speaks, FlashInv, F!FirstToken
  PROVE  FlashInv' /\ Plain!Emit
<1>1. /\ st = "first" /\ budget > 0 /\ (\E y \in F!Draw(gen.h) : out' = <<y>>)
      /\ st' = (IF out'[1] \in Eos THEN "end" ELSE "decode")
      /\ UNCHANGED <<knobs, sess, prompt, budget, mode, gen>>
  BY DEF F!FirstToken
<1>2. /\ FlashMarked /\ gen.c = CachesOf(prompt) /\ gen.h = prompt /\ RowsF(gen.mtp, prompt, knobs)
      /\ out = <<>> /\ gen.drafts = <<>> /\ gen.next = F!NoNext
      /\ prompt \in Context /\ prompt # <<>> /\ budget \in Nat
  BY <1>1 DEF FlashInv, FlashFirst, FlashType, FlashMarked
<1>3. PICK y \in Support(prompt) : out' = <<y>> /\ y \in Drawn(prompt)
  BY <1>1, <1>2, FlashDraws
<1>4. <<y>> \in Context /\ y \in Token /\ EmitOf(prompt, budget, <<>>, <<y>>)
  <2>1. budget \in Nat \ {0}
    BY <1>1, <1>2
  <2> QED BY <1>2, <1>3, <2>1, FirstEmits
<1>5. /\ out' \in Context /\ out' # <<>> /\ Len(out') = 1 /\ out'[Len(out')] = y /\ out'[1] = y
  <2>1. Len(<<y>>) = 1 /\ <<y>> # <<>> /\ <<y>>[1] = y
    OBVIOUS
  <2> QED BY <1>3, <1>4, <2>1
<1>6. Said' = prompt
  <2>1. SubSeq(out', 1, Len(out') - 1) = <<>>
    <3>1. Len(out') - 1 = 0
      BY <1>5
    <3>2. SubSeq(out', 1, 0) = <<>>
      BY <1>5, SubSeqEmpty DEF Context
    <3> QED BY <3>1, <3>2
  <2>2. prompt \o <<>> = prompt
    BY <1>2, Nothing
  <2> QED BY <1>1, <2>1, <2>2 DEF Said
<1>7. FlashType'
  BY <1>1, <1>5 DEF FlashInv, FlashType
<1>8. FlashMarked'
  BY <1>1, <1>2 DEF FlashMarked
<1>9. Plain!Emit
  BY <1>1, <1>2, <1>3, <1>4, PlainEmit
<1>10. CASE y \in Eos
  <2>1. st' = "end"
    BY <1>1, <1>5, <1>10
  <2>2. FlashEnded'
    BY <1>1, <1>2, <1>5, <1>6, <1>8, <2>1 DEF FlashEnded
  <2> QED BY <1>7, <1>9, <2>1, <2>2 DEF FlashInv, FlashPrefilling, FlashFirst, FlashDecoding, FlashVerifying
<1>11. CASE y \notin Eos
  <2>1. st' = "decode"
    BY <1>1, <1>5, <1>11
  <2>2. FlashDecoding'
    <3>1. GoesOn(out')
      BY <1>5, <1>11 DEF GoesOn
    <3> QED BY <1>1, <1>2, <1>5, <1>6, <1>8, <2>1, <3>1 DEF FlashDecoding
  <2> QED BY <1>7, <1>9, <2>1, <2>2 DEF FlashInv, FlashPrefilling, FlashFirst, FlashEnded, FlashVerifying
<1> QED BY <1>10, <1>11

LEMMA DraftsType ==
  ASSUME NEW d \in F!Drafts
  PROVE  d \in Context /\ d # <<>>
<1>1. PICK n \in 1..Depth : d \in [1..n -> Token]
  BY DEF F!Drafts
<1>2. n \in Nat /\ n # 0
  BY <1>1, FlashSizes
<1>3. d \in Context /\ Len(d) = n
  BY <1>1, <1>2 DEF Context
<1> QED BY <1>2, <1>3, Nothing

(* Where a call is between two rounds of it.                               *)
LEMMA SpokenFacts ==
  ASSUME FlashInv, st \in {"decode", "verify"}
  PROVE  /\ FlashMarked /\ prompt \in Context /\ prompt # <<>> /\ out \in Context /\ out # <<>>
         /\ budget \in Nat /\ gen \in FlashCalls
         /\ out[Len(out)] \in Token /\ Said \in Context /\ Said # <<>>
         /\ Said \o <<out[Len(out)]>> = prompt \o out /\ prompt \o out \in Context /\ prompt \o out # <<>>
<1>1. FlashMarked /\ out # <<>> /\ prompt \in Context /\ out \in Context /\ budget \in Nat /\ gen \in FlashCalls
  BY DEF FlashInv, FlashDecoding, FlashVerifying, FlashType
<1>2. prompt # <<>>
  BY <1>1 DEF FlashMarked
<1>3. out[Len(out)] \in Token /\ Said \in Context /\ Said \o <<out[Len(out)]>> = prompt \o out
  BY <1>1, SaidFacts
<1>4. ASSUME NEW s \in Context PROVE prompt \o s # <<>>
  <2>1. Len(prompt \o s) = Len(prompt) + Len(s) /\ Len(prompt) \in Nat /\ Len(s) \in Nat /\ Len(prompt) # 0
    BY <1>1, <1>2, Joined, Nothing
  <2>2. Len(prompt \o s) # 0
    BY <2>1
  <2> QED BY <2>2, Nothing
<1>5. Said # <<>> /\ prompt \o out # <<>>
  <2>1. SubSeq(out, 1, Len(out) - 1) \in Context
    BY <1>1, LastApart
  <2> QED BY <1>1, <1>4, <2>1 DEF Said
<1> QED BY <1>1, <1>2, <1>3, <1>5, Joined

LEMMA FlashDraft ==
  ASSUME FlashInv, F!Draft
  PROVE  FlashInv' /\ UNCHANGED <<prompt, budget, out>>
<1> DEFINE z == out[Len(out)]
           m == gen.mtp \o <<<<z, Said>>>>
<1>1. /\ st = "decode" /\ st' = "decode" /\ Len(out) < budget /\ gen.drafts = <<>> /\ gen.next = F!NoNext
      /\ UNCHANGED <<knobs, sess, prompt, budget, mode, out>>
  BY DEF F!Draft
<1>2. PICK d \in F!Drafts : gen' = [gen EXCEPT !.drafts = d, !.mtp = F!DraftedRows(@, F!Last(out), gen.h)]
  BY DEF F!Draft
<1>3. /\ FlashMarked /\ prompt \in Context /\ out \in Context /\ out # <<>> /\ GoesOn(out)
      /\ gen \in FlashCalls /\ gen.h = Said /\ gen.c = CachesOf(Said) /\ RowsF(gen.mtp, Said, knobs)
  BY <1>1, SpokenFacts DEF FlashInv, FlashDecoding
<1>4. z \in Token /\ Said # <<>> /\ Said \o <<z>> = prompt \o out
  BY <1>1, SpokenFacts
<1>5. RowsF(m, prompt \o out, knobs) /\ Append(gen.mtp, <<z, Said>>) = m /\ m \in Seq(Pairs)
  <2> HIDE DEF z
  <2> QED BY <1>3, <1>4, RowsFOne
<1>6. F!DraftedRows(gen.mtp, F!Last(out), gen.h) = m
  BY <1>3, <1>5, FlashOps DEF F!DraftedRows
<1> HIDE DEF m, z
<1>7. d \in Context /\ d # <<>>
  BY DraftsType
<1>8. /\ gen' \in FlashCalls /\ gen'.drafts = d /\ gen'.mtp = m /\ gen'.c = gen.c /\ gen'.h = gen.h
      /\ gen'.next = gen.next /\ gen'.shared = gen.shared /\ gen'.cps = gen.cps /\ gen'.tail = gen.tail
  BY <1>2, <1>3, <1>5, <1>6, <1>7 DEF FlashCalls
<1>9. FlashType'
  BY <1>1, <1>8 DEF FlashInv, FlashType
<1>10. FlashMarked'
  BY <1>1, <1>3, <1>8 DEF FlashMarked
<1>11. Said' = Said
  BY <1>1 DEF Said
<1>12. FlashDecoding'
  BY <1>1, <1>3, <1>5, <1>7, <1>8, <1>10, <1>11 DEF FlashDecoding
<1> QED BY <1>1, <1>9, <1>12 DEF FlashInv, FlashPrefilling, FlashFirst, FlashVerifying, FlashEnded

(* The round of the drafts d, as it is after s.                            *)
RoundSays(r, s, z, d) ==
  /\ r \in Rounds /\ r.pair = <<z>> \o d /\ r.pre = F!Pre(CachesOf(s))
  /\ r.pair \in Context /\ r.pair # <<>> /\ r.pair[1] = z /\ Len(r.pair) = Len(d) + 1 /\ Len(d) \in Nat
  /\ r.hs \in Seq(Context) /\ Len(r.hs) = Len(d) + 1
  /\ s \o <<z>> \in Context
  /\ \A j \in 1..(Len(d) + 1) : /\ r.hs[j] = s \o SubSeq(r.pair, 1, j)
                                /\ r.hs[j] = (s \o <<z>>) \o SubSeq(d, 1, j - 1)
  /\ F!Last(r.hs) = s \o r.pair /\ s \o r.pair \in Context
  /\ F!Fed(CachesOf(s), r.pair) = CachesOf(s \o r.pair)

LEMMA RoundFacts ==
  ASSUME NEW s \in Context, NEW z \in Token, NEW d \in Context
  PROVE  LET r == F!RoundOf(CachesOf(s), <<z>> \o d) IN RoundAfter(r, s, z, d) /\ RoundSays(r, s, z, d)
<1> DEFINE w == <<z>> \o d
           hs == F!HiddenOver(CachesOf(s), w)
           pre == F!Pre(CachesOf(s))
           r == F!RoundOf(CachesOf(s), w)
<1>1. r = [pair |-> w, hs |-> hs, pre |-> pre]
  BY DEF F!RoundOf
<1>2. /\ w \in Context /\ w # <<>> /\ Len(w) = Len(d) + 1 /\ Len(d) \in Nat /\ s \o <<z>> \in Context
      /\ \A j \in 1..(Len(d) + 1) : s \o SubSeq(w, 1, j) = (s \o <<z>>) \o SubSeq(d, 1, j - 1)
  BY DraftFollows DEF Follows
<1>3. w[1] = z
  BY WindowParts
<1> HIDE DEF w
<1>4. hs \in Seq(Context) /\ Len(hs) = Len(w) /\ \A j \in 1..Len(w) : hs[j] = s \o SubSeq(w, 1, j)
  BY <1>2, HiddenAfter
<1>5. F!Last(hs) = s \o w
  <2>1. Len(w) \in 1..Len(w)
    BY <1>2
  <2>2. SubSeq(w, 1, Len(w)) = w
    BY <1>2, SubSeqFull DEF Context
  <2>3. F!Last(hs) = hs[Len(w)]
    BY <1>4, FlashOps
  <2> QED BY <1>4, <2>1, <2>2, <2>3
<1>6. F!Fed(CachesOf(s), w) = CachesOf(s \o w) /\ s \o w \in Context
  BY <1>2, FedCaches, Joined
<1>7. pre \in [idxLen : Nat, ctx : Context, rec : Context]
  <2>1. Len(s) \in Nat /\ Grams(s) \in Context
    BY CachesType, Nothing
  <2> QED BY <2>1 DEF F!Pre, CachesOf
<1> HIDE DEF hs, pre, r
<1>8. r \in Rounds /\ r.pair = w /\ r.hs = hs /\ r.pre = pre
  BY <1>1, <1>2, <1>4, <1>7 DEF Rounds
<1>9. RoundSays(r, s, z, d)
  <2>1. \A j \in 1..(Len(d) + 1) : hs[j] = s \o SubSeq(w, 1, j) /\ hs[j] = (s \o <<z>>) \o SubSeq(d, 1, j - 1)
    BY <1>2, <1>4
  <2>2. r.pair = <<z>> \o d
    BY <1>8 DEF w
  <2>3. r.pre = F!Pre(CachesOf(s))
    BY <1>8 DEF pre
  <2> QED BY <1>2, <1>3, <1>4, <1>5, <1>6, <1>8, <2>1, <2>2, <2>3 DEF RoundSays
<1> QED BY <1>8, <1>9 DEF RoundAfter, r, w

LEMMA RoundTold ==
  ASSUME NEW r, NEW s \in Context, NEW z \in Token, NEW d \in Context, RoundAfter(r, s, z, d)
  PROVE  RoundSays(r, s, z, d)
BY RoundFacts DEF RoundAfter

(* What is verified, and the caches after its forward: the round that was  *)
(* guessed and taken, or a new one of the drafts.                          *)
LEMMA SubmitRound ==
  ASSUME FlashInv, st = "decode", gen.drafts # <<>> \/ gen.next # F!NoNext
  PROVE  LET adopted == gen.next # F!NoNext
             round == IF adopted THEN gen.next.round
                      ELSE F!RoundOf(gen.c, <<F!Last(out)>> \o gen.drafts)
             c == IF adopted THEN gen.c ELSE F!Fed(gen.c, round.pair)
         IN  /\ Len(out) < budget /\ c = CachesOf(Said \o round.pair)
             /\ RowsF(gen.mtp, prompt \o out, knobs)
             /\ \E d \in Context : RoundAfter(round, Said, out[Len(out)], d)
<1> DEFINE z == out[Len(out)]
           r == F!RoundOf(gen.c, <<z>> \o gen.drafts)
<1>1. gen \in FlashCalls /\ z \in Token /\ Said \in Context /\ F!Last(out) = z
  BY SpokenFacts, FlashOps
<1>2. CASE gen.next # F!NoNext
  <2>1. /\ Len(out) < budget /\ (\E d \in Context : RoundAfter(gen.next.round, Said, z, d))
        /\ gen.c = CachesOf(Said \o gen.next.round.pair) /\ RowsF(gen.mtp, prompt \o out, knobs)
    BY <1>2 DEF FlashInv, FlashDecoding
  <2> QED BY <1>2, <2>1
<1>3. CASE gen.next = F!NoNext
  <2>1. /\ gen.drafts # <<>> /\ gen.c = CachesOf(Said) /\ Len(out) < budget
        /\ RowsF(gen.mtp, prompt \o out, knobs)
    BY <1>3 DEF FlashInv, FlashDecoding
  <2>2. gen.drafts \in Context
    BY <1>1 DEF FlashCalls
  <2> HIDE DEF z
  <2>3. RoundAfter(r, Said, z, gen.drafts) /\ RoundSays(r, Said, z, gen.drafts)
    BY <1>1, <2>1, <2>2, RoundFacts
  <2>4. F!Fed(gen.c, r.pair) = CachesOf(Said \o r.pair)
    BY <2>1, <2>3 DEF RoundSays
  <2> HIDE DEF r
  <2>5. \E d \in Context : RoundAfter(r, Said, z, d)
    BY <2>2, <2>3
  <2> QED BY <1>1, <1>3, <2>1, <2>4, <2>5 DEF r, z
<1> QED BY <1>2, <1>3

(* A round in flight: what does not depend on what goes with it.           *)
LEMMA SubmittedRound ==
  ASSUME FlashInv, st = "decode", Len(out) < budget, NEW d \in Context,
         RoundAfter(gen'.round, Said, out[Len(out)], d),
         UNCHANGED <<knobs, sess, prompt, budget, mode, out>>, st' = "verify",
         gen' \in FlashCalls, gen'.cps = gen.cps, gen'.tail = gen.tail, gen'.shared = gen.shared,
         gen'.drafts = <<>>,
         gen'.next = F!NoNext => RoundAlone', gen'.next # F!NoNext => RoundAhead'
  PROVE  FlashInv'
<1>1. FlashType'
  BY DEF FlashInv, FlashType
<1>2. FlashMarked'
  BY SpokenFacts DEF FlashMarked
<1>3. out # <<>> /\ GoesOn(out)
  BY DEF FlashInv, FlashDecoding
<1>4. Said' = Said
  BY DEF Said
<1>5. FlashVerifying'
  BY <1>2, <1>3, <1>4 DEF FlashVerifying
<1> QED BY <1>1, <1>5 DEF FlashInv, FlashPrefilling, FlashFirst, FlashDecoding, FlashEnded

(* A list that another one follows.                                        *)
LEMMA ListJoined ==
  ASSUME NEW Q, NEW m \in Seq(Q), NEW new \in Seq(Q)
  PROVE  /\ m \o new \in Seq(Q) /\ Len(m \o new) = Len(m) + Len(new) /\ Len(m) \in Nat /\ Len(new) \in Nat
         /\ SubSeq(m \o new, 1, Len(m)) = m
         /\ \A j \in 1..Len(new) : (m \o new)[Len(m) + j] = new[j]
<1>1. m \o new \in Seq(Q) /\ Len(m \o new) = Len(m) + Len(new) /\ Len(m) \in Nat /\ Len(new) \in Nat
  OBVIOUS
<1>2. \A j \in 1..Len(new) : (m \o new)[Len(m) + j] = new[j]
  OBVIOUS
<1>3. SubSeq(m \o new, 1, Len(m)) = m
  <2> DEFINE t == SubSeq(m \o new, 1, Len(m))
  <2>1. t \in Seq(Q) /\ Len(t) = Len(m) /\ \A i \in 1..Len(m) : t[i] = (m \o new)[i]
    BY <1>1, SubSeqProperties
  <2>2. \A i \in 1..Len(m) : (m \o new)[i] = m[i]
    BY <1>1
  <2> HIDE DEF t
  <2>3. t = m
    BY <2>1, <2>2, SeqEqual
  <2> QED BY <2>3 DEF t
<1> QED BY <1>1, <1>2, <1>3

(* The rows of the first draft step after every position of a round.       *)
LEMMA GuessedRows ==
  ASSUME Speaks, NEW s \in Context, NEW z \in Token, NEW d \in Context, NEW r, RoundSays(r, s, z, d)
  PROVE  LET new == [j \in 1..Len(r.pair) |-> <<F!Top(r.hs[j]), r.hs[j]>>]
         IN  new \in Seq(Pairs) /\ Len(new) = Len(r.pair)
<1> DEFINE n == Len(r.pair)
           new == [j \in 1..n |-> <<F!Top(r.hs[j]), r.hs[j]>>]
<1>1. n \in Nat /\ n = Len(r.hs) /\ r.hs \in Seq(Context)
  BY DEF RoundSays
<1>2. \A j \in 1..n : r.hs[j] = (s \o <<z>>) \o SubSeq(d, 1, j - 1) /\ s \o <<z>> \in Context
  BY DEF RoundSays
<1> HIDE DEF n
<1>3. ASSUME NEW j \in 1..n PROVE <<F!Top(r.hs[j]), r.hs[j]>> \in Pairs
  <2>1. r.hs[j] \in Context
    BY <1>1
  <2>2. r.hs[j] # <<>>
    <3>1. r.hs[j] = s \o SubSeq(r.pair, 1, j) /\ r.pair \in Context /\ j \in 1..Len(r.pair)
      BY DEF RoundSays, n
    <3> DEFINE w == SubSeq(r.pair, 1, j)
    <3>2. w \in Context /\ Len(w) = j
      BY <3>1, SubSeqProperties DEF Context
    <3> HIDE DEF w
    <3>3. r.hs[j] = s \o w
      BY <3>1 DEF w
    <3>4. Len(s \o w) = Len(s) + j /\ Len(s) \in Nat
      BY <3>2, Joined
    <3>5. j \in Nat /\ j >= 1
      BY <1>1
    <3>6. Len(s \o w) # 0
      BY <3>4, <3>5
    <3> QED BY <3>3, <3>6, Nothing
  <2>3. F!Top(r.hs[j]) \in Token
    BY <2>1, <2>2, FlashDraws
  <2> QED BY <2>1, <2>3 DEF Pairs
<1>4. new \in [1..n -> Pairs]
  BY <1>3
<1> HIDE DEF new
<1>5. new \in Seq(Pairs) /\ Len(new) = n
  BY <1>1, <1>4
<1> QED BY <1>5 DEF new, n

LEMMA SubmittedAlone ==
  ASSUME Speaks, FlashInv, st = "decode", Len(out) < budget, NEW r, NEW d \in Context,
         RoundAfter(r, Said, out[Len(out)], d), RowsF(gen.mtp, prompt \o out, knobs),
         UNCHANGED <<knobs, sess, prompt, budget, mode, out>>, st' = "verify",
         gen' = [gen EXCEPT !.drafts = <<>>, !.next = F!NoNext, !.round = r,
                            !.c = CachesOf(Said \o r.pair), !.off = Len(gen.mtp),
                            !.mtp = IF F!Presync
                                    THEN @ \o [j \in 1..Len(r.pair) |-> <<F!Top(r.hs[j]), r.hs[j]>>]
                                    ELSE @]
  PROVE  FlashInv'
<1> DEFINE z == out[Len(out)]
           new == [j \in 1..Len(r.pair) |-> <<F!Top(r.hs[j]), r.hs[j]>>]
           m == IF F!Presync THEN gen.mtp \o new ELSE gen.mtp
           off == Len(gen.mtp)
           c == CachesOf(Said \o r.pair)
<1>1. gen \in FlashCalls /\ gen.mtp \in Seq(Pairs) /\ z \in Token /\ Said \in Context
  BY SpokenFacts DEF FlashCalls
<1>2. RoundSays(r, Said, z, d) /\ r \in Rounds
  <2> HIDE DEF z
  <2>1. RoundAfter(r, Said, z, d)
    BY DEF z
  <2> QED BY <1>1, <2>1, RoundTold DEF RoundAfter
<1>3. r.pair \in Context /\ r.pair # <<>> /\ Said \o r.pair \in Context
  BY <1>2 DEF RoundSays
<1>4. new \in Seq(Pairs) /\ Len(new) = Len(r.pair) /\ \A j \in 1..Len(r.pair) : new[j] = <<F!Top(r.hs[j]), r.hs[j]>>
  <2>1. new \in Seq(Pairs) /\ Len(new) = Len(r.pair)
    <3> HIDE DEF z
    <3> QED BY <1>1, <1>2, GuessedRows
  <2> QED BY <2>1
<1> HIDE DEF new
<1>5. /\ gen.mtp \o new \in Seq(Pairs) /\ Len(gen.mtp \o new) = off + Len(new) /\ off \in Nat
      /\ SubSeq(gen.mtp \o new, 1, off) = gen.mtp
      /\ \A j \in 1..Len(new) : (gen.mtp \o new)[off + j] = new[j]
  <2> DEFINE q == gen.mtp
  <2>1. q \in Seq(Pairs) /\ new \in Seq(Pairs)
    BY <1>1, <1>4
  <2> HIDE DEF q
  <2>2. /\ q \o new \in Seq(Pairs) /\ Len(q \o new) = Len(q) + Len(new) /\ Len(q) \in Nat /\ Len(new) \in Nat
        /\ SubSeq(q \o new, 1, Len(q)) = q
        /\ \A j \in 1..Len(new) : (q \o new)[Len(q) + j] = new[j]
    BY <2>1, ListJoined
  <2> QED BY <2>2 DEF q
<1>6. c \in FlashCaches
  BY <1>3, CachesType
<1>7. m \in Seq(Pairs)
  BY <1>1, <1>5
<1>8. F!NoNext \in [round : Rounds, c : FlashCaches, mtp : Seq(Pairs)]
  BY FreshFlash DEF FlashCalls, F!Fresh
<1>9. gen' = [gen EXCEPT !.drafts = <<>>, !.next = F!NoNext, !.round = r, !.c = c, !.off = off, !.mtp = m]
  BY DEF new
<1> HIDE DEF m, c
<1>10. /\ gen' \in FlashCalls /\ gen'.cps = gen.cps /\ gen'.tail = gen.tail /\ gen'.shared = gen.shared
       /\ gen'.drafts = <<>> /\ gen'.round = r /\ gen'.next = F!NoNext /\ gen'.c = c /\ gen'.mtp = m
       /\ gen'.off = off
  <2> DEFINE e == <<>>
             none == F!NoNext
             g == [gen EXCEPT !.drafts = e, !.next = none, !.round = r, !.c = c, !.off = off, !.mtp = m]
  <2>1. e \in Context /\ off \in Nat /\ none \in [round : Rounds, c : FlashCaches, mtp : Seq(Pairs)]
    BY <1>5, <1>8, Nothing
  <2>2. gen' = g
    BY <1>9
  <2> HIDE DEF off, e, none
  <2>3. g \in FlashCalls /\ g.cps = gen.cps /\ g.tail = gen.tail /\ g.shared = gen.shared
    BY <1>1, <1>2, <1>6, <1>7, <2>1 DEF FlashCalls
  <2>4. g.drafts = e /\ g.round = r /\ g.next = none /\ g.c = c /\ g.mtp = m /\ g.off = off
    BY <1>1 DEF FlashCalls
  <2> HIDE DEF g
  <2> QED BY <2>2, <2>3, <2>4 DEF e, none
<1>11. F!Presync' = F!Presync
  BY DEF F!Presync
<1>12. (gen.c)' = CachesOf(Said' \o (gen.round.pair)')
  <2>1. Said' = Said
    BY DEF Said
  <2> QED BY <1>10, <2>1 DEF c
<1>13. CASE F!Presync
  <2>1. m = gen.mtp \o new
    BY <1>13 DEF m
  <2>2. RoundAlone'
    <3>1. off <= Len(m) /\ SubSeq(m, 1, off) = gen.mtp /\ Len(m) = off + Len(r.pair)
      <4>1. Len(new) \in Nat
        BY <1>4, ListJoined, <1>1
      <4> HIDE DEF off
      <4> QED BY <1>4, <1>5, <2>1, <4>1
    <3>2. \A j \in 1..Len(r.pair) : m[off + j] = <<F!Top(r.hs[j]), r.hs[j]>>
      BY <1>4, <1>5, <2>1
    <3>3. \A h : (F!Top(h))' = F!Top(h)
      BY DEF F!Top
    <3> HIDE DEF off
    <3> QED BY <1>10, <1>11, <1>12, <1>13, <3>1, <3>2, ZenonT(40) DEF RoundAlone, F!Top, F!Unknown
  <2> QED BY <1>2, <1>10, <2>2, SubmittedRound
<1>14. CASE ~F!Presync
  <2>1. m = gen.mtp
    BY <1>14 DEF m
  <2>2. SubSeq(gen.mtp, 1, off) = gen.mtp
    BY <1>1, SubSeqFull
  <2>3. off <= Len(gen.mtp) /\ off = Len(gen.mtp)
    BY <1>5
  <2>4. RoundAlone'
    <3> HIDE DEF off
    <3> QED BY <1>10, <1>11, <1>12, <1>14, <2>1, <2>2, <2>3 DEF RoundAlone
  <2> QED BY <1>2, <1>10, <2>4, SubmittedRound
<1> QED BY <1>13, <1>14

LEMMA SubmittedAhead ==
  ASSUME Speaks, FlashInv, st = "decode", mode, knobs.pipeline # 0, NEW r, NEW d \in Context,
         RoundAfter(r, Said, out[Len(out)], d), RowsF(gen.mtp, prompt \o out, knobs),
         Len(out) + Len(r.pair) < budget, NEW guesses \in F!Drafts,
         UNCHANGED <<knobs, sess, prompt, budget, mode, out>>, st' = "verify",
         LET c == CachesOf(Said \o r.pair)
             next == F!Guessed(c, r, gen.mtp, guesses)
         IN  gen' = [gen EXCEPT !.drafts = <<>>, !.round = r, !.off = Len(gen.mtp),
                                !.next = next, !.c = F!Fed(c, next.round.pair),
                                !.mtp = F!DraftedRows(@, next.round.pair[1], F!Last(r.hs))]
  PROVE  FlashInv'
<1> DEFINE z == out[Len(out)]
           said == Said \o r.pair
           c == CachesOf(said)
           guess == F!Top(F!Last(r.hs))
           n == F!RoundOf(c, <<guess>> \o guesses)
           next == F!Guessed(c, r, gen.mtp, guesses)
           m == gen.mtp \o <<<<guess, F!Last(r.hs)>>>>
           off == Len(gen.mtp)
           c2 == CachesOf(said \o n.pair)
<1>1. /\ gen \in FlashCalls /\ gen.mtp \in Seq(Pairs) /\ z \in Token /\ Said \in Context /\ Said # <<>>
      /\ out \in Context /\ budget \in Nat
  BY SpokenFacts DEF FlashCalls
<1>2. RoundSays(r, Said, z, d) /\ r \in Rounds
  <2> HIDE DEF z
  <2>1. RoundAfter(r, Said, z, d)
    BY DEF z
  <2> QED BY <1>1, <2>1, RoundTold DEF RoundAfter
<1>3. /\ r.pair \in Context /\ said \in Context /\ F!Last(r.hs) = said /\ Len(r.pair) = Len(d) + 1
      /\ Len(d) \in Nat
  BY <1>2 DEF RoundSays
<1>4. said # <<>>
  <2>1. Len(said) = Len(Said) + Len(r.pair) /\ Len(Said) \in Nat /\ Len(r.pair) \in Nat
    BY <1>1, <1>3, Joined
  <2>2. Len(said) # 0
    <3> HIDE DEF said
    <3> QED BY <1>3, <2>1
  <2> QED BY <1>3, <2>2, Nothing
<1>5. guess \in Token /\ guesses \in Context
  <2>1. F!Top(said) \in Token
    BY <1>3, <1>4, FlashDraws
  <2> QED BY <1>3, <2>1, DraftsType
<1>6. next = [round |-> n, c |-> c, mtp |-> gen.mtp]
  BY DEF F!Guessed
<1>7. m \in Seq(Pairs) /\ Append(gen.mtp, <<guess, said>>) = m
  <2> DEFINE row == <<guess, said>>
  <2>1. row \in Pairs
    BY <1>3, <1>5 DEF Pairs
  <2>2. gen.mtp \o <<row>> \in Seq(Pairs) /\ Append(gen.mtp, row) = gen.mtp \o <<row>>
    <3> HIDE DEF row
    <3> QED BY <1>1, <2>1, AppendFacts
  <2> QED BY <1>3, <2>2
<1> HIDE DEF guess
<1>8. RoundAfter(n, said, guess, guesses) /\ RoundSays(n, said, guess, guesses)
  <2> HIDE DEF said
  <2> QED BY <1>3, <1>5, RoundFacts
<1>9. n.pair[1] = guess /\ F!Fed(c, n.pair) = c2 /\ n \in Rounds /\ n.pair # <<>> /\ said \o n.pair \in Context
  BY <1>8 DEF RoundSays
<1> HIDE DEF n, c, said
<1>10. next.round = n /\ next.c = c /\ next.mtp = gen.mtp
  BY <1>6
<1>11. /\ gen' = [gen EXCEPT !.drafts = <<>>, !.round = r, !.off = off, !.next = next, !.c = c2, !.mtp = m]
  <2>1. F!DraftedRows(gen.mtp, next.round.pair[1], F!Last(r.hs)) = m
    BY <1>3, <1>7, <1>9, <1>10 DEF F!DraftedRows
  <2>2. F!Fed(c, next.round.pair) = c2
    BY <1>9, <1>10
  <2> HIDE DEF m, c2
  <2> QED BY <2>1, <2>2 DEF c, said
<1>12. next \in [round : Rounds, c : FlashCaches, mtp : Seq(Pairs)] /\ c2 \in FlashCaches
  <2>1. c \in FlashCaches /\ c2 \in FlashCaches
    BY <1>3, <1>9, CachesType DEF c
  <2> HIDE DEF next
  <2> QED BY <1>1, <1>6, <1>9, <2>1
<1>13. next # F!NoNext
  <2>1. F!NoNext.round.pair = <<>>
    BY DEF F!NoNext, F!NoRound
  <2> HIDE DEF next
  <2> QED BY <1>9, <1>10, <2>1
<1> HIDE DEF next, c2, m, off
<1>14. /\ gen' \in FlashCalls /\ gen'.cps = gen.cps /\ gen'.tail = gen.tail /\ gen'.shared = gen.shared
       /\ gen'.drafts = <<>> /\ gen'.round = r /\ gen'.next = next /\ gen'.c = c2 /\ gen'.mtp = m
  <2> DEFINE e == <<>>
             g == [gen EXCEPT !.drafts = e, !.round = r, !.off = off, !.next = next, !.c = c2, !.mtp = m]
  <2>1. e \in Context /\ off \in Nat
    BY <1>1, Nothing DEF off
  <2>2. gen' = g
    BY <1>11
  <2> HIDE DEF e
  <2>3. g \in FlashCalls /\ g.cps = gen.cps /\ g.tail = gen.tail /\ g.shared = gen.shared
    BY <1>1, <1>2, <1>7, <1>12, <2>1 DEF FlashCalls
  <2>4. g.drafts = e /\ g.round = r /\ g.next = next /\ g.c = c2 /\ g.mtp = m
    BY <1>1, SMTT(30) DEF FlashCalls
  <2> HIDE DEF g
  <2> QED BY <2>2, <2>3, <2>4 DEF e
<1>15. RoundAhead'
  <2>1. Said' = Said
    BY DEF Said
  <2>2. (Said \o gen.round.pair)' = said /\ (F!Top(F!Last(gen.round.hs)))' = guess /\ (F!Last(gen.round.hs))' = said
    BY <1>3, <1>14, <2>1 DEF said, guess, F!Top, F!Last, F!Unknown
  <2>3. (gen.next.c)' = CachesOf(said)
    BY <1>10, <1>14, SMTT(30) DEF c
  <2>4. (gen.mtp)' = (gen.next.mtp)' \o <<<<guess, said>>>>
    <3>1. (gen.mtp)' = m /\ (gen.next.mtp)' = gen.mtp
      BY <1>10, <1>14
    <3> QED BY <1>3, <3>1 DEF m
  <2>5. RowsF((gen.next.mtp)', prompt \o out, knobs)
    BY <1>10, <1>14
  <2>6. (gen.c)' = CachesOf(said \o (gen.next.round.pair)')
    BY <1>10, <1>14 DEF c2
  <2>7. \E x \in Context : RoundAfter((gen.next.round)', said, guess, x)
    <3>1. (gen.next.round)' = n
      BY <1>10, <1>14
    <3> QED BY <1>5, <1>8, <3>1
  <2>8. Len(out') + Len((gen.round.pair)') < budget'
    BY <1>14
  <2>9. mode' /\ knobs'.pipeline # 0 /\ (prompt \o out)' = prompt \o out /\ knobs' = knobs
    OBVIOUS
  <2> QED BY <2>9, <2>2, <2>3, <2>4, <2>5, <2>6, <2>7, <2>8 DEF RoundAhead
<1>16. Len(out) < budget
  <2> DEFINE k == Len(out)
             l == Len(d)
             w == Len(r.pair)
  <2>1. k \in Nat /\ l \in Nat /\ w = l + 1 /\ k + w < budget /\ budget \in Nat
    BY <1>1, <1>3, Nothing
  <2> HIDE DEF k, l, w
  <2>2. k < budget
    BY <2>1
  <2> QED BY <2>2 DEF k
<1> QED BY <1>2, <1>13, <1>14, <1>15, <1>16, SubmittedRound

LEMMA FlashSubmit ==
  ASSUME Speaks, FlashInv, F!Submit
  PROVE  FlashInv' /\ UNCHANGED <<prompt, budget, out>>
<1> DEFINE adopted == gen.next # F!NoNext
           r == IF adopted THEN gen.next.round ELSE F!RoundOf(gen.c, <<F!Last(out)>> \o gen.drafts)
           c == IF adopted THEN gen.c ELSE F!Fed(gen.c, r.pair)
           z == out[Len(out)]
<1>1. st = "decode" /\ (gen.drafts # <<>> \/ gen.next # F!NoNext)
  BY DEF F!Submit
<1>2. /\ Len(out) < budget /\ c = CachesOf(Said \o r.pair) /\ RowsF(gen.mtp, prompt \o out, knobs)
      /\ \E d \in Context : RoundAfter(r, Said, z, d)
  BY <1>1, SubmitRound, SMTT(30)
<1> DEFINE base == [gen EXCEPT !.drafts = <<>>, !.next = F!NoNext, !.round = r, !.c = c, !.off = Len(gen.mtp)]
<1>3. /\ st' = "verify" /\ UNCHANGED <<knobs, sess, prompt, budget, mode, out>>
      /\ IF F!Ahead(Len(r.pair))
         THEN \E d \in F!Drafts :
                LET next == F!Guessed(c, r, gen.mtp, d)
                IN  gen' = [base EXCEPT !.next = next, !.c = F!Fed(c, next.round.pair),
                                        !.mtp = F!DraftedRows(@, next.round.pair[1], F!Last(r.hs))]
         ELSE gen' = [base EXCEPT !.mtp = IF F!Presync
                                          THEN @ \o [j \in 1..Len(r.pair) |-> <<F!Top(r.hs[j]), r.hs[j]>>]
                                          ELSE @]
  BY DEF F!Submit
<1> HIDE DEF r, c, adopted
<1>4. PICK d \in Context : RoundAfter(r, Said, z, d)
  BY <1>2
<1>5. CASE F!Ahead(Len(r.pair))
  <2>1. PICK x \in F!Drafts :
          LET next == F!Guessed(c, r, gen.mtp, x)
          IN  gen' = [base EXCEPT !.next = next, !.c = F!Fed(c, next.round.pair),
                                  !.mtp = F!DraftedRows(@, next.round.pair[1], F!Last(r.hs))]
    BY <1>3, <1>5
  <2>2. mode /\ knobs.pipeline # 0 /\ Len(out) + Len(r.pair) < budget
    <3>1. mode /\ knobs.pipeline > 0 /\ Len(out) + Len(r.pair) < budget
      BY <1>5 DEF F!Ahead
    <3> QED BY <3>1
  <2> DEFINE next == F!Guessed(c, r, gen.mtp, x)
             c2 == F!Fed(c, next.round.pair)
             m == F!DraftedRows(gen.mtp, next.round.pair[1], F!Last(r.hs))
  <2>3. gen' = [base EXCEPT !.next = next, !.c = c2, !.mtp = m]
    <3>1. gen \in FlashCalls
      BY <1>1, SpokenFacts
    <3> QED BY <2>1, <3>1 DEF FlashCalls
  <2>4. gen \in FlashCalls
    BY <1>1, SpokenFacts
  <2> HIDE DEF next, c2, m
  <2>5. gen' = [gen EXCEPT !.drafts = <<>>, !.round = r, !.off = Len(gen.mtp), !.next = next, !.c = c2, !.mtp = m]
    BY <2>3, <2>4 DEF FlashCalls
  <2>6. LET k == CachesOf(Said \o r.pair)
            new == F!Guessed(k, r, gen.mtp, x)
        IN  gen' = [gen EXCEPT !.drafts = <<>>, !.round = r, !.off = Len(gen.mtp),
                               !.next = new, !.c = F!Fed(k, new.round.pair),
                               !.mtp = F!DraftedRows(@, new.round.pair[1], F!Last(r.hs))]
    BY <1>2, <2>5 DEF next, c2, m
  <2> QED BY <1>1, <1>2, <1>3, <1>4, <2>2, <2>6, SubmittedAhead
<1>6. CASE ~F!Ahead(Len(r.pair))
  <2>1. gen' = [base EXCEPT !.mtp = IF F!Presync
                                    THEN @ \o [j \in 1..Len(r.pair) |-> <<F!Top(r.hs[j]), r.hs[j]>>]
                                    ELSE @]
    BY <1>3, <1>6
  <2> QED BY <1>1, <1>2, <1>3, <1>4, <2>1, SubmittedAlone
<1> QED BY <1>5, <1>6, SMTT(30)

(* Stopping at the first end of a block or where the answer is full is     *)
(* stopping at the first end of what fits.                                 *)
LEMMA CutFacts ==
  ASSUME NEW ts \in Context, ts # <<>>, budget - Len(out) \in Nat \ {0}
  PROVE  F!Cut(ts) = Emission(ts, budget - Len(out))
<1> DEFINE n == budget - Len(out)
           l == Len(ts)
           ends == {k \in DOMAIN ts : ts[k] \in Eos}
           u == IF ends = {} THEN l ELSE CHOOSE k \in ends : \A o \in ends : k <= o
           m == F!AtMost(u, n)
<1>1. F!Cut(ts) = SubSeq(ts, 1, m)
  BY FlashOps DEF F!Cut
<1>2. n \in Nat \ {0} /\ l \in Nat /\ DOMAIN ts = 1..l
  BY Nothing DEF Context
<1> HIDE DEF n
<1>3. PICK k \in 1..l :
        /\ Emission(ts, n) = SubSeq(ts, 1, k) /\ k <= n
        /\ SubSeq(ts, 1, k) \in Context /\ Len(SubSeq(ts, 1, k)) = k
        /\ SubSeq(ts, 1, k)[k] = ts[k]
        /\ NoEnd(SubSeq(ts, 1, k))
        /\ k < l => k = n \/ ts[k] \in Eos
  BY <1>2, EmissionFacts
<1>4. \A i \in 1..(k - 1) : ts[i] \notin Eos
  <2> DEFINE e == SubSeq(ts, 1, k)
  <2>1. Len(e) = k /\ NoEnd(e)
    BY <1>3
  <2>2. \A i \in 1..k : e[i] = ts[i]
    <3>1. k \in 0..l
      BY <1>2
    <3> QED BY <3>1, SubSeqProperties DEF Context
  <2> HIDE DEF e
  <2>3. ASSUME NEW i \in 1..(k - 1) PROVE ts[i] \notin Eos
    <3>1. e[i] \notin Eos
      BY <2>1 DEF NoEnd
    <3>2. i \in 1..k
      BY <1>2
    <3> QED BY <2>2, <3>1, <3>2
  <2> QED BY <2>3
<1> HIDE DEF m, l
<1>5. m = k
  <2>1. m = IF u < n THEN u ELSE n
    BY DEF m, F!AtMost
  <2> HIDE DEF m
  <2>2. CASE ends = {}
    <3>1. u = l
      BY <2>2
    <3>2. ts[k] \notin Eos
      BY <1>2, <2>2
    <3> HIDE DEF u, ends
    <3>3. k = l \/ k = n
      <4>1. k < l => k = n
        BY <1>3, <3>2
      <4> QED BY <1>2, <4>1
    <3>4. k <= n /\ k <= l
      BY <1>2, <1>3
    <3>5. m = IF l < n THEN l ELSE n
      BY <2>1, <3>1
    <3> QED BY <1>2, <3>3, <3>4, <3>5
  <2>3. CASE ends # {}
    <3>1. u \in ends /\ \A o \in ends : u <= o
      <4>1. ends \in SUBSET Int /\ IsFiniteSet(ends)
        <5>1. ends \subseteq 1..l
          BY <1>2
        <5>2. IsFiniteSet(1..l)
          BY <1>2, FS_Interval
        <5>3. 1..l \subseteq Int
          BY <1>2
        <5> HIDE DEF ends
        <5> QED BY <5>1, <5>2, <5>3, FS_Subset
      <4>2. \E x \in ends : \A o \in ends : x <= o
        <5> HIDE DEF ends
        <5> QED BY <2>3, <4>1, LeastExists
      <4>3. u = CHOOSE x \in ends : \A o \in ends : x <= o
        BY <2>3
      <4> HIDE DEF u, ends
      <4> QED BY <4>2, <4>3, Zenon
    <3>2. u \in 1..l /\ ts[u] \in Eos
      BY <1>2, <3>1
    <3>3. ts[k] \in Eos => u <= k
      <4>1. ts[k] \in Eos => k \in ends
        BY <1>2
      <4> QED BY <3>1, <4>1
    <3> HIDE DEF u, ends
    <3>4. k <= u
      <4>1. u \notin 1..(k - 1)
        BY <1>4, <3>2
      <4> QED BY <1>2, <3>2, <4>1
    <3>5. k = u \/ k = n
      <4>1. k < u => k < l
        BY <1>2, <3>2
      <4>2. k < u => ts[k] \notin Eos
        BY <1>2, <3>2, <3>3
      <4>3. k < u => k = n
        BY <1>3, <4>1, <4>2
      <4> QED BY <1>2, <3>2, <3>4, <4>3
    <3>6. k <= n
      BY <1>3
    <3> QED BY <1>2, <2>1, <3>2, <3>4, <3>5, <3>6
  <2> QED BY <2>2, <2>3
<1> QED BY <1>1, <1>3, <1>5 DEF n

(* What a round adds to the answer: e, the first k of what the model says  *)
(* after the positions of the round, each as long as the one before it is  *)
(* the draft.                                                              *)
Settled(r, e, k) ==
  /\ k \in 1..Len(r.pair) /\ e \in Context /\ Len(e) = k
  /\ out \o e \in Context /\ Len(out \o e) = Len(out) + k /\ (out \o e)[Len(out \o e)] = e[k]
  /\ EmitOf(prompt, budget, out, out \o e)
  /\ \A j \in 1..k : r.hs[j] = (prompt \o out) \o SubSeq(e, 1, j - 1)
  /\ mode => \A j \in 1..k : e[j] = F!Top(r.hs[j])
  /\ Said \o SubSeq(r.pair, 1, k) = r.hs[k]

LEMMA TailOfRound ==
  ASSUME NEW z \in Token, NEW d \in Context
  PROVE  Tail(<<z>> \o d) = d
<1> DEFINE w == <<z>> \o d
           t == Tail(w)
<1>1. w \in Context /\ Len(w) = Len(d) + 1 /\ Len(d) \in Nat /\ \A i \in 1..Len(d) : w[i + 1] = d[i]
  BY WindowParts
<1> HIDE DEF w
<1>2. w # <<>>
  <2>1. Len(w) # 0
    BY <1>1
  <2> QED BY <1>1, <2>1, Nothing
<1>3. t \in Seq(Token) /\ Len(t) = Len(w) - 1 /\ \A i \in 1..Len(t) : t[i] = w[i + 1]
  BY <1>1, <1>2, HeadTailProperties DEF Context
<1> HIDE DEF t
<1>4. Len(t) = Len(d)
  BY <1>1, <1>3
<1>5. \A i \in 1..Len(d) : t[i] = d[i]
  BY <1>1, <1>3, <1>4
<1>6. t = d
  BY <1>3, <1>4, <1>5, SeqEqual DEF Context
<1> QED BY <1>6 DEF t, w

(* A verdict: some drafts that the model may say too, and what it says     *)
(* after them.                                                             *)
LEMMA VerdictFacts ==
  ASSUME NEW s \in Context, NEW z \in Token, NEW d \in Context, NEW r, RoundSays(r, s, z, d),
         NEW said \in F!Verdicts(r)
  PROVE  \E a \in 0..Len(d) : \E y \in F!Draw(r.hs[a + 1]) :
           said = SubSeq(d, 1, a) \o <<y>> /\ \A j \in 1..a : d[j] \in F!Draw(r.hs[j])
<1>1. Tail(r.pair) = d
  BY TailOfRound DEF RoundSays
<1>2. \E a \in {x \in 0..Len(d) : \A j \in 1..x : d[j] \in F!Draw(r.hs[j])} :
        said \in {F!First(d, a) \o <<y>> :
                    y \in F!Draw(r.hs[a + 1]) \ (IF a < Len(d) THEN {d[a + 1]} ELSE {})}
  <2> DEFINE agreed == {x \in 0..Len(d) : \A j \in 1..x : d[j] \in F!Draw(r.hs[j])}
             Of(a) == {F!First(d, a) \o <<y>> :
                         y \in F!Draw(r.hs[a + 1]) \ (IF a < Len(d) THEN {d[a + 1]} ELSE {})}
             t == Tail(r.pair)
             agrees == {x \in 0..Len(t) : \A j \in 1..x : t[j] \in F!Draw(r.hs[j])}
             From(a) == {F!First(t, a) \o <<y>> :
                           y \in F!Draw(r.hs[a + 1]) \ (IF a < Len(t) THEN {t[a + 1]} ELSE {})}
  <2>1. F!Verdicts(r) = UNION {From(a) : a \in agrees}
    BY DEF F!Verdicts
  <2>2. t = d
    BY <1>1
  <2> HIDE DEF t
  <2>3. F!Verdicts(r) = UNION {Of(a) : a \in agreed}
    BY <2>1, <2>2
  <2> HIDE DEF Of, agreed
  <2>4. \E a \in agreed : said \in Of(a)
    BY <2>3
  <2> QED BY <2>4 DEF Of, agreed
<1>3. PICK a \in 0..Len(d) : /\ \A j \in 1..a : d[j] \in F!Draw(r.hs[j])
                             /\ \E y \in F!Draw(r.hs[a + 1]) : said = F!First(d, a) \o <<y>>
  BY <1>2
<1> QED BY <1>3, FlashOps

(* What is drawn after a context.                                          *)
DrawsAt(h) == F!Draw(h) \subseteq Drawn(h) /\ (mode => F!Draw(h) = {F!Top(h)})

(* The contexts of a round are not empty, and what it draws after them.    *)
LEMMA RoundDraws ==
  ASSUME Speaks, NEW s \in Context, NEW z \in Token, NEW d \in Context, NEW r, RoundSays(r, s, z, d),
         NEW j \in 1..(Len(d) + 1)
  PROVE  DrawsAt(r.hs[j])
<1> DEFINE w == SubSeq(r.pair, 1, j)
           h == r.hs[j]
<1>1. Len(d) \in Nat /\ r.pair \in Context /\ Len(r.pair) = Len(d) + 1 /\ h = s \o w
  BY DEF RoundSays
<1>2. w \in Context /\ Len(w) = j /\ j \in Nat /\ j >= 1
  <2>1. j \in 0..Len(r.pair) /\ j \in Nat /\ j >= 1
    BY <1>1
  <2> QED BY <1>1, <2>1, SubSeqProperties DEF Context
<1> HIDE DEF w
<1>3. h \in Context /\ Len(h) = Len(s) + j /\ Len(s) \in Nat
  BY <1>1, <1>2, Joined
<1> HIDE DEF h
<1>4. h # <<>>
  <2>1. Len(h) # 0
    BY <1>2, <1>3
  <2> QED BY <1>3, <2>1, Nothing
<1>5. F!Draw(h) \subseteq Drawn(h) /\ (mode => F!Draw(h) = {F!Top(h)})
  BY <1>3, <1>4, FlashDraws
<1> QED BY <1>5 DEF h, DrawsAt

(* The answer that a round gives, in terms of its verdict: the first k of  *)
(* it.                                                                     *)
LEMMA VerdictCut ==
  ASSUME Speaks, NEW p \in Context, NEW o \in Context, NEW b \in Nat, Len(o) < b, GoesOn(o),
         p \o o # <<>>, NEW s \in Context, NEW z \in Token, NEW d \in Context, NEW r,
         RoundSays(r, s, z, d), s \o <<z>> = p \o o, NEW a \in 0..Len(d),
         NEW y \in F!Draw(r.hs[a + 1]), \A j \in 1..a : d[j] \in F!Draw(r.hs[j])
  PROVE  BlockTaken(p, o, b, d, a, y)
<1> DEFINE h == r.hs
<1>1. Len(d) \in Nat /\ a + 1 \in 1..(Len(d) + 1) /\ \A j \in 1..(a + 1) : j \in 1..(Len(d) + 1)
  BY DEF RoundSays
<1>2. \A i \in 1..(a + 1) : h[i] = (p \o o) \o SubSeq(d, 1, i - 1)
  BY <1>1 DEF RoundSays
<1>3. y \in Drawn(h[a + 1])
  <2>1. DrawsAt(r.hs[a + 1])
    BY <1>1, RoundDraws
  <2> QED BY <2>1 DEF DrawsAt
<1>4. ASSUME NEW i \in 1..a PROVE d[i] \in Drawn(h[i])
  <2>1. i \in 1..(Len(d) + 1)
    BY <1>1
  <2>2. DrawsAt(r.hs[i])
    BY <2>1, RoundDraws
  <2> QED BY <2>2 DEF DrawsAt
<1> HIDE DEF h
<1> QED BY <1>2, <1>3, <1>4, AnswerBlock

(* The first k tokens of a verdict: drafts, and what the model says.       *)
OfVerdict(e, d, a, y, k) ==
  /\ \A j \in 1..k : SubSeq(e, 1, j - 1) = SubSeq(d, 1, j - 1)
  /\ \A j \in 1..k : j <= a => e[j] = d[j]
  /\ \A j \in 1..k : j = a + 1 => e[j] = y

LEMMA VerdictDrafts ==
  ASSUME NEW d \in Context, NEW a \in 0..Len(d), NEW y \in Token,
         NEW k \in 1..(a + 1)
  PROVE  OfVerdict(SubSeq(SubSeq(d, 1, a) \o <<y>>, 1, k), d, a, y, k)
<1> DEFINE f == SubSeq(d, 1, a)
           ts == f \o <<y>>
           e == SubSeq(ts, 1, k)
<1>1. Len(d) \in Nat /\ a \in Nat /\ a <= Len(d)
  BY Nothing
<1>2. f \in Context /\ Len(f) = a /\ \A i \in 1..a : f[i] = d[i]
  BY <1>1, SubSeqProperties DEF Context
<1>3. <<y>> \in Context /\ Len(<<y>>) = 1 /\ <<y>>[1] = y
  BY DEF Context
<1> HIDE DEF f
<1>4. ts \in Context /\ Len(ts) = a + 1
  BY <1>2, <1>3, Joined
<1>5. \A i \in 1..a : ts[i] = d[i]
  BY <1>1, <1>2, <1>3 DEF Context
<1>6. ts[a + 1] = y
  BY <1>1, <1>2, <1>3 DEF Context
<1> HIDE DEF ts
<1>7. k \in 0..Len(ts)
  BY <1>1, <1>4
<1>8. e \in Context /\ Len(e) = k /\ \A i \in 1..k : e[i] = ts[i]
  BY <1>4, <1>7, SubSeqProperties DEF Context
<1> HIDE DEF e
<1>9. \A j \in 1..k : j <= a => e[j] = d[j]
  BY <1>1, <1>5, <1>8
<1>10. \A j \in 1..k : j = a + 1 => e[j] = y
  BY <1>6, <1>8
<1>11. ASSUME NEW j \in 1..k PROVE SubSeq(e, 1, j - 1) = SubSeq(d, 1, j - 1)
  <2> DEFINE n == j - 1
             v == SubSeq(e, 1, n)
             w == SubSeq(d, 1, n)
  <2>1. n \in 0..Len(e) /\ n \in 0..Len(d) /\ n <= a /\ n \in Nat /\ n < k /\ k \in Nat
    BY <1>1, <1>8
  <2> HIDE DEF n
  <2>2. v \in Context /\ Len(v) = n /\ \A i \in 1..n : v[i] = e[i]
    BY <1>8, <2>1, SubSeqProperties DEF Context
  <2>3. w \in Context /\ Len(w) = n /\ \A i \in 1..n : w[i] = d[i]
    BY <2>1, SubSeqProperties DEF Context
  <2>4. \A i \in 1..n : e[i] = d[i]
    <3>1. \A i \in 1..n : i \in 1..k /\ i <= a
      BY <1>1, <2>1
    <3> QED BY <1>9, <3>1
  <2> HIDE DEF v, w
  <2>5. v = w
    BY <2>2, <2>3, <2>4, SeqEqual DEF Context
  <2> QED BY <2>5 DEF v, w, n
<1> QED BY <1>9, <1>10, <1>11 DEF e, ts, f, OfVerdict

LEMMA SettledFacts ==
  ASSUME Speaks, FlashInv, st = "verify", NEW said \in F!Verdicts(gen.round)
  PROVE  \E k \in 1..Len(gen.round.pair) : Settled(gen.round, F!Cut(said), k)
<1> DEFINE z == out[Len(out)]
           r == gen.round
           b == budget - Len(out)
           e == F!Cut(said)
<1>1. /\ prompt \in Context /\ out \in Context /\ budget \in Nat /\ z \in Token /\ Said \in Context
      /\ Said \o <<z>> = prompt \o out /\ prompt \o out # <<>>
  BY SpokenFacts
<1>2. Len(out) < budget /\ GoesOn(out) /\ \E d \in Context : RoundAfter(r, Said, z, d)
  BY DEF FlashInv, FlashVerifying
<1>3. PICK d \in Context : RoundAfter(r, Said, z, d)
  BY <1>2
<1> HIDE DEF z
<1>4. RoundSays(r, Said, z, d)
  <2> HIDE DEF r
  <2> QED BY <1>1, <1>3, RoundTold
<1> HIDE DEF r
<1>5. PICK a \in 0..Len(d) : \E y \in F!Draw(r.hs[a + 1]) :
           said = SubSeq(d, 1, a) \o <<y>> /\ \A j \in 1..a : d[j] \in F!Draw(r.hs[j])
  BY <1>1, <1>4, VerdictFacts DEF r
<1>6. PICK y \in F!Draw(r.hs[a + 1]) :
           said = SubSeq(d, 1, a) \o <<y>> /\ \A j \in 1..a : d[j] \in F!Draw(r.hs[j])
  BY <1>5
<1> DEFINE ts == SubSeq(d, 1, a) \o <<y>>
           f == Emission(ts, b)
<1>7. /\ y \in Token /\ ts \in Context /\ Len(ts) = a + 1 /\ ts[a + 1] = y
      /\ \E k \in 1..(a + 1) :
           LET x == Emission(ts, budget - Len(out))
           IN  /\ x = SubSeq(ts, 1, k) /\ k <= budget - Len(out) /\ x \in Context /\ Len(x) = k
               /\ out \o x \in Context /\ Len(out \o x) = Len(out) + k
               /\ (out \o x)[Len(out \o x)] = ts[k]
               /\ EmitOf(prompt, budget, out, out \o x)
               /\ k < a + 1 => k = budget - Len(out) \/ ts[k] \in Eos
  <2>1. y \in F!Draw(r.hs[a + 1]) /\ \A j \in 1..a : d[j] \in F!Draw(r.hs[j])
    BY <1>6
  <2> HIDE DEF e, f, b, ts
  <2>2. BlockTaken(prompt, out, budget, d, a, y)
    BY <1>1, <1>2, <1>4, <2>1, VerdictCut
  <2> QED BY <2>2 DEF BlockTaken, ts
<1>8. PICK k \in 1..(a + 1) :
        /\ f = SubSeq(ts, 1, k) /\ f \in Context /\ Len(f) = k
        /\ out \o f \in Context /\ Len(out \o f) = Len(out) + k
        /\ (out \o f)[Len(out \o f)] = ts[k]
        /\ EmitOf(prompt, budget, out, out \o f)
  BY <1>7
<1>9. b \in Nat \ {0} /\ Len(d) \in Nat /\ Len(r.pair) = Len(d) + 1
  <2> DEFINE l == Len(out)
  <2>1. l \in Nat /\ l < budget
    BY <1>1, <1>2, Nothing
  <2> HIDE DEF l
  <2>2. budget - l \in Nat \ {0}
    BY <1>1, <2>1
  <2> QED BY <1>4, <2>2 DEF l, RoundSays
<1>10. e = f
  <2>1. ts # <<>>
    <3> HIDE DEF ts
    <3>1. Len(ts) # 0
      BY <1>7, <1>9
    <3> QED BY <3>1, Nothing
  <2>2. F!Cut(ts) = f
    <3> HIDE DEF ts
    <3> QED BY <1>7, <1>9, <2>1, CutFacts
  <2> QED BY <1>6, <2>2
<1>11. /\ \A j \in 1..k : SubSeq(f, 1, j - 1) = SubSeq(d, 1, j - 1)
       /\ \A j \in 1..k : j <= a => f[j] = d[j]
       /\ \A j \in 1..k : j = a + 1 => f[j] = y
  <2> DEFINE g == SubSeq(SubSeq(d, 1, a) \o <<y>>, 1, k)
  <2>1. y \in Token
    BY <1>7
  <2>2. OfVerdict(g, d, a, y, k)
    BY <2>1, VerdictDrafts
  <2>3. f = g
    BY <1>8
  <2> HIDE DEF f, g
  <2> QED BY <2>2, <2>3 DEF OfVerdict
<1> HIDE DEF f, e, ts, b
<1>12. k \in 1..Len(r.pair) /\ k \in 1..k /\ \A j \in 1..k : j \in 1..(Len(d) + 1)
  BY <1>9
<1>13. \A j \in 1..k : r.hs[j] = (prompt \o out) \o SubSeq(f, 1, j - 1)
  BY <1>1, <1>4, <1>11, <1>12 DEF RoundSays
<1>14. ASSUME mode, NEW j \in 1..k PROVE f[j] = F!Top(r.hs[j])
  <2>1. F!Draw(r.hs[j]) = {F!Top(r.hs[j])}
    <3>1. j \in 1..(Len(d) + 1)
      BY <1>12
    <3>2. DrawsAt(r.hs[j])
      BY <1>1, <1>4, <3>1, RoundDraws
    <3> QED BY <1>14, <3>2 DEF DrawsAt
  <2>2. CASE j <= a
    <3>1. j \in 1..a
      BY <2>2
    <3>2. f[j] = d[j] /\ d[j] \in F!Draw(r.hs[j])
      BY <1>6, <1>11, <2>2, <3>1
    <3> QED BY <2>1, <3>2
  <2>3. CASE ~(j <= a)
    <3>1. j = a + 1
      BY <2>3
    <3>2. f[j] = y /\ y \in F!Draw(r.hs[j])
      BY <1>6, <1>11, <3>1
    <3> QED BY <2>1, <3>2
  <2> QED BY <2>2, <2>3
<1>15. Said \o SubSeq(r.pair, 1, k) = r.hs[k]
  BY <1>4, <1>12 DEF RoundSays
<1>16. (out \o f)[Len(out \o f)] = f[k]
  <2>1. f[k] = ts[k]
    <3>1. ts \in Context /\ k \in 0..Len(ts) /\ f = SubSeq(ts, 1, k)
      BY <1>7, <1>8
    <3>2. \A i \in 1..k : SubSeq(ts, 1, k)[i] = ts[i]
      BY <3>1, SubSeqProperties DEF Context
    <3> QED BY <1>12, <3>1, <3>2
  <2> QED BY <1>8, <2>1
<1>17. Settled(r, f, k)
  BY <1>8, <1>12, <1>13, <1>14, <1>15, <1>16 DEF Settled
<1> QED BY <1>10, <1>12, <1>17 DEF e, r

(* The call after a round, whatever becomes of the guessed one.            *)
SettledCall(h, e, k) ==
  /\ h \in Context /\ h # <<>> /\ h = (prompt \o out) \o SubSeq(e, 1, k - 1) /\ SubSeq(e, 1, k - 1) \in Context
  /\ e[k] \in Token /\ F!Last(e) = e[k] /\ Len(e) = k
  /\ out \o e \in Context /\ out \o e # <<>> /\ (out \o e)[Len(out \o e)] = e[k]
  /\ Len(out \o e) = Len(out) + k /\ k \in Nat
  /\ prompt \o SubSeq(out \o e, 1, Len(out \o e) - 1) = h /\ prompt \o (out \o e) = h \o <<e[k]>>

LEMMA SettledState ==
  ASSUME FlashInv, st = "verify", NEW e, NEW k, Settled(gen.round, e, k)
  PROVE  SettledCall(gen.round.hs[k], e, k)
<1> DEFINE h == gen.round.hs[k]
           f == SubSeq(e, 1, k - 1)
           o == out \o e
<1>1. prompt \in Context /\ out \in Context /\ prompt \o out \in Context /\ prompt \o out # <<>> /\ gen.round.pair \in Context
  <2>1. gen \in FlashCalls
    BY SpokenFacts
  <2> QED BY <2>1, SpokenFacts DEF FlashCalls, Rounds
<1>2. /\ k \in 1..Len(gen.round.pair) /\ e \in Context /\ Len(e) = k
      /\ o \in Context /\ Len(o) = Len(out) + k /\ o[Len(o)] = e[k]
      /\ \A j \in 1..k : gen.round.hs[j] = (prompt \o out) \o SubSeq(e, 1, j - 1)
  BY DEF Settled
<1>3. k \in Nat /\ k # 0 /\ k \in 1..k
  <2>1. Len(gen.round.pair) \in Nat
    BY <1>1, Nothing
  <2> QED BY <1>2, <2>1
<1>4. e # <<>>
  BY <1>2, <1>3, Nothing
<1>5. f \in Context /\ f \o <<e[k]>> = e /\ e[k] \in Token /\ F!Last(e) = e[k]
  <2>1. /\ e[Len(e)] \in Token /\ SubSeq(e, 1, Len(e) - 1) \in Context
        /\ SubSeq(e, 1, Len(e) - 1) \o <<e[Len(e)]>> = e
    BY <1>2, <1>4, LastApart
  <2>2. F!Last(e) = e[Len(e)]
    BY FlashOps
  <2> QED BY <1>2, <2>1, <2>2
<1>6. h = (prompt \o out) \o f
  BY <1>2, <1>3
<1>7. o # <<>>
  <2>1. Len(out) \in Nat
    BY <1>1, Nothing
  <2>2. Len(o) # 0
    BY <1>2, <1>3, <2>1
  <2> QED BY <2>2, Nothing
<1> HIDE DEF f
<1>8. h \in Context /\ h # <<>>
  <2>1. h \in Context /\ Len(h) = Len(prompt \o out) + Len(f) /\ Len(f) \in Nat
    BY <1>1, <1>5, <1>6, Joined
  <2>2. Len(prompt \o out) \in Nat /\ Len(prompt \o out) # 0
    BY <1>1, Nothing
  <2>3. Len(h) # 0
    BY <2>1, <2>2
  <2> QED BY <2>1, <2>3, Nothing
<1>9. SubSeq(o, 1, Len(o) - 1) = out \o f
  <2>1. SubSeq(out \o (f \o <<e[k]>>), 1, Len(out \o (f \o <<e[k]>>)) - 1) = out \o f
    BY <1>1, <1>5, BeforeLast
  <2> QED BY <1>5, <2>1
<1>10. prompt \o (out \o f) = h
  BY <1>1, <1>5, <1>6, Regrouped
<1>11. prompt \o o = h \o <<e[k]>>
  <2> DEFINE t == <<e[k]>>
             c == prompt \o out
  <2>1. t \in Context
    BY <1>5 DEF Context
  <2> HIDE DEF t, c
  <2>2. c \o (f \o t) = (c \o f) \o t
    BY <1>1, <1>5, <2>1, Regrouped DEF c
  <2>3. c \o e = prompt \o o
    BY <1>1, <1>2, Regrouped DEF c
  <2>4. f \o t = e
    BY <1>5 DEF t
  <2> QED BY <1>6, <2>2, <2>3, <2>4 DEF c, t
<1> HIDE DEF h, o
<1> QED BY <1>2, <1>3, <1>5, <1>6, <1>7, <1>8, <1>9, <1>10, <1>11 DEF SettledCall, f, o, h

(* The rows of the confirmed tokens but the last, after those that were    *)
(* there before the round.                                                 *)
LEMMA GapRowsFacts ==
  ASSUME FlashInv, st = "verify", NEW e, NEW k, Settled(gen.round, e, k)
  PROVE  NewRows(F!GapRows(e, gen.round.hs), SubSeq(e, 1, k - 1), prompt \o out)
<1> DEFINE c == prompt \o out
           f == SubSeq(e, 1, k - 1)
           hs == gen.round.hs
           gap == F!GapRows(e, hs)
           n == k - 1
<1>1. /\ k \in 1..Len(gen.round.pair) /\ e \in Context /\ Len(e) = k
      /\ \A j \in 1..k : hs[j] = c \o SubSeq(e, 1, j - 1)
  BY DEF Settled
<1>2. c \in Context /\ gen.round.pair \in Context
  <2>1. gen \in FlashCalls
    BY SpokenFacts
  <2> QED BY <2>1, SpokenFacts DEF FlashCalls, Rounds
<1>3. k \in Nat /\ k # 0 /\ n \in Nat /\ n \in 0..Len(e)
  <2>1. Len(gen.round.pair) \in Nat
    BY <1>2, Nothing
  <2> QED BY <1>1, <2>1
<1>4. gap = [i \in 1..n |-> <<e[i], hs[i]>>]
  BY <1>1 DEF F!GapRows
<1>5. f \in Context /\ Len(f) = n /\ \A i \in 1..n : f[i] = e[i]
  BY <1>1, <1>3, SubSeqProperties DEF Context
<1> HIDE DEF c, hs
<1>6. ASSUME NEW i \in 1..n
      PROVE  <<e[i], hs[i]>> \in Pairs /\ <<e[i], hs[i]>> = RowAfter(f, c, i)
  <2>1. i \in 1..k /\ i \in 1..Len(e) /\ i - 1 \in 0..Len(e) /\ i - 1 \in 0..Len(f)
    BY <1>1, <1>3, <1>5
  <2>2. e[i] \in Token /\ hs[i] = c \o SubSeq(e, 1, i - 1)
    BY <1>1, <2>1 DEF Context
  <2>3. SubSeq(e, 1, i - 1) \in Context /\ SubSeq(e, 1, i - 1) = SubSeq(f, 1, i - 1)
    <3> DEFINE m == i - 1
               v == SubSeq(e, 1, m)
               w == SubSeq(f, 1, m)
    <3>1. m \in Nat /\ m \in 0..Len(e) /\ m \in 0..Len(f) /\ m <= n
      BY <1>3, <2>1
    <3> HIDE DEF m
    <3>2. v \in Context /\ Len(v) = m /\ \A j \in 1..m : v[j] = e[j]
      BY <1>1, <3>1, SubSeqProperties DEF Context
    <3> HIDE DEF f
    <3>3. w \in Context /\ Len(w) = m /\ \A j \in 1..m : w[j] = f[j]
      BY <1>5, <3>1, SubSeqProperties DEF Context
    <3>4. \A j \in 1..m : f[j] = e[j]
      BY <1>3, <1>5, <3>1
    <3> HIDE DEF v, w
    <3>5. v = w
      BY <3>2, <3>3, <3>4, SeqEqual DEF Context
    <3> QED BY <3>2, <3>5 DEF v, w, m
  <2>4. hs[i] \in Context
    BY <1>2, <2>2, <2>3, Joined
  <2>5. f[i] = e[i]
    BY <1>5
  <2> HIDE DEF f
  <2> QED BY <2>2, <2>3, <2>4, <2>5 DEF Pairs, RowAfter
<1> HIDE DEF gap, f, n
<1>7. gap \in Seq(Pairs) /\ Len(gap) = n
  <2>1. gap \in [1..n -> Pairs]
    BY <1>4, <1>6
  <2> QED BY <1>3, <2>1
<1>8. \A i \in 1..n : gap[i] = RowAfter(f, c, i)
  BY <1>4, <1>6
<1>9. NewRows(gap, f, c)
  BY <1>5, <1>7, <1>8 DEF NewRows
<1> QED BY <1>9 DEF gap, f, c, hs

(* The draft cache once a round is settled, when no row was put in ahead   *)
(* of it.                                                                  *)
LEMMA ConfirmedRows ==
  ASSUME FlashInv, st = "verify", NEW e, NEW k, Settled(gen.round, e, k), NEW full \in BOOLEAN,
         NEW m, RowsF(m, prompt \o out, knobs), ~F!Presync
  PROVE  RowsF(F!Confirmed(m, e, full), gen.round.hs[k], knobs)
<1> DEFINE c == prompt \o out
           h == gen.round.hs[k]
           f == SubSeq(e, 1, k - 1)
           gap == F!GapRows(e, gen.round.hs)
<1>1. c # <<>> /\ h = c \o f /\ f \in Context
  <2>1. c # <<>>
    BY SpokenFacts
  <2>2. SettledCall(gen.round.hs[k], e, k)
    BY SettledState
  <2> QED BY <2>1, <2>2 DEF SettledCall
<1>2. NewRows(gap, f, c)
  BY GapRowsFacts
<1>3. CASE full /\ knobs.pipeline = 1
  <2>1. F!Confirmed(m, e, full) = m
    BY <1>3 DEF F!Confirmed
  <2>2. RowsIn(m, c)
    BY DEF RowsF
  <2> HIDE DEF c, f, h
  <2>3. RowsIn(m, c \o f)
    BY <1>1, <2>2, RowsInMore
  <2>4. RowsF(m, h, knobs)
    BY <1>1, <1>3, <2>3 DEF RowsF
  <2> QED BY <2>1, <2>4 DEF h
<1>4. CASE ~(full /\ knobs.pipeline = 1)
  <2>1. F!Confirmed(m, e, full) = m \o gap
    BY <1>4 DEF F!Confirmed
  <2>2. RowsF(m, c, knobs)
    OBVIOUS
  <2> HIDE DEF c, f, h, gap
  <2>3. RowsF(m \o gap, c \o f, knobs)
    BY <1>1, <1>2, <2>2, RowsFGrow
  <2> QED BY <1>1, <2>1, <2>3 DEF h
<1> QED BY <1>3, <1>4

(* The draft cache once a round is settled, when the rows of the first     *)
(* draft step were put in ahead of it.                                     *)
LEMMA PresyncRows ==
  ASSUME FlashInv, st = "verify", NEW e, NEW k, Settled(gen.round, e, k), NEW full \in BOOLEAN,
         RoundAlone, F!Presync
  PROVE  RowsF(F!Confirmed(gen.mtp, e, full), gen.round.hs[k] \o <<e[k]>>, knobs)
<1> DEFINE c == prompt \o out
           h == gen.round.hs[k]
           hs == gen.round.hs
           m == gen.mtp
           off == gen.off
           l == Len(gen.round.pair)
           head == SubSeq(m, 1, off)
           rest == SubSeq(m, off + 1, Len(m))
           new == SubSeq(rest, 1, k)
<1>1. m \in Seq(Pairs) /\ off \in Nat /\ gen.round.pair \in Context /\ hs \in Seq(Context)
  <2>1. gen \in FlashCalls
    BY SpokenFacts
  <2> QED BY <2>1 DEF FlashCalls, Rounds
<1>2. c # <<>> /\ c \in Context
  BY SpokenFacts
<1>3. /\ RowsF(head, c, knobs) /\ Len(m) = off + l /\ l \in Nat
      /\ \A j \in 1..l : m[off + j] = <<F!Top(hs[j]), hs[j]>>
  <2>1. l \in Nat
    BY <1>1, Nothing
  <2> QED BY <2>1 DEF RoundAlone
<1>4. /\ k \in 1..l /\ e \in Context /\ Len(e) = k
      /\ \A j \in 1..k : hs[j] = c \o SubSeq(e, 1, j - 1) /\ e[j] = F!Top(hs[j])
  BY DEF Settled, F!Presync
<1>5. F!Confirmed(m, e, full) = SubSeq(m, 1, off + k)
  BY <1>4, FlashOps DEF F!Confirmed
<1> HIDE DEF m, off, l, c, hs
<1>6. off \in 0..Len(m) /\ k \in Nat /\ k \in 0..l /\ k # 0
  BY <1>1, <1>3, <1>4
<1>7. head \in Seq(Pairs) /\ Len(head) = off
  BY <1>1, <1>6, FirstPart
<1>8. rest \in Seq(Pairs) /\ Len(rest) = l /\ head \o rest = m
  <2>1. rest \in Seq(Pairs) /\ Len(rest) = Len(m) - off /\ head \o rest = m
    BY <1>1, <1>6, FirstAndRest
  <2> HIDE DEF rest, head
  <2>2. Len(m) - off = l
    BY <1>1, <1>3
  <2> QED BY <2>1, <2>2
<1> HIDE DEF head, rest
<1>9. SubSeq(m, 1, off + k) = head \o new
  <2>1. k \in 0..Len(rest)
    BY <1>6, <1>8
  <2>2. SubSeq(head \o rest, 1, Len(head) + k) = head \o SubSeq(rest, 1, k)
    BY <1>7, <1>8, <2>1, FirstOfBoth
  <2> QED BY <1>7, <1>8, <2>2
<1>10. new \in Seq(Pairs) /\ Len(new) = k /\ \A j \in 1..k : new[j] = rest[j]
  <2>1. k \in 0..Len(rest)
    BY <1>6, <1>8
  <2> QED BY <1>8, <2>1, FirstPart
<1> HIDE DEF new
<1>11. \A j \in 1..k : new[j] = m[off + j]
  <2>1. \A j \in 1..l : (head \o rest)[off + j] = rest[j]
    <3>1. \A j \in 1..Len(rest) : (head \o rest)[Len(head) + j] = rest[j]
      BY <1>7, <1>8, ListJoined
    <3> QED BY <1>7, <1>8, <3>1
  <2>2. \A j \in 1..k : j \in 1..l
    BY <1>3, <1>6
  <2> QED BY <1>8, <1>10, <2>1, <2>2
<1>12. \A j \in 1..k : new[j] = RowAfter(e, c, j)
  <2>1. \A j \in 1..k : j \in 1..l
    BY <1>3, <1>6
  <2> QED BY <1>3, <1>4, <1>11, <2>1 DEF RowAfter
<1>13. NewRows(new, e, c)
  BY <1>4, <1>10, <1>12 DEF NewRows
<1>14. RowsF(head \o new, c \o e, knobs)
  BY <1>2, <1>3, <1>13, RowsFGrow
<1>15. c \o e = h \o <<e[k]>>
  <2>1. SettledCall(h, e, k)
    BY SettledState
  <2>2. prompt \o (out \o e) = h \o <<e[k]>>
    BY <2>1 DEF SettledCall
  <2>3. (prompt \o out) \o e = prompt \o (out \o e)
    <3>1. prompt \in Context /\ out \in Context
      BY SpokenFacts
    <3> QED BY <1>4, <3>1, Regrouped
  <2> QED BY <2>2, <2>3 DEF c
<1> QED BY <1>5, <1>9, <1>14, <1>15 DEF m

(* The caches once the rejected tokens of a round are rolled back.         *)
LEMMA SettledCaches ==
  ASSUME FlashInv, st = "verify", NEW e, NEW k, Settled(gen.round, e, k)
  PROVE  F!Rollback(CachesOf(Said \o gen.round.pair), gen.round.pre, gen.round.pair, k) = CachesOf(gen.round.hs[k])
<1> DEFINE r == gen.round
           z == out[Len(out)]
<1>1. z \in Token /\ Said \in Context
  BY SpokenFacts
<1>2. PICK d \in Context : RoundAfter(r, Said, z, d)
  BY DEF FlashInv, FlashVerifying
<1>3. k \in 1..Len(r.pair) /\ Said \o SubSeq(r.pair, 1, k) = r.hs[k]
  BY DEF Settled
<1> HIDE DEF r, z
<1>4. RoundSays(r, Said, z, d)
  BY <1>1, <1>2, RoundTold
<1>5. r.pair \in Context /\ r.pre = F!Pre(CachesOf(Said))
  BY <1>4 DEF RoundSays
<1>6. k \in 0..Len(r.pair)
  <2>1. Len(r.pair) \in Nat
    BY <1>5, Nothing
  <2> QED BY <1>3, <2>1
<1>7. F!Rollback(CachesOf(Said \o r.pair), F!Pre(CachesOf(Said)), r.pair, k) = CachesOf(Said \o SubSeq(r.pair, 1, k))
  BY <1>1, <1>5, <1>6, RolledCaches
<1> QED BY <1>3, <1>5, <1>7 DEF r

(* A round that is settled without the guessed one.                        *)
LEMMA SettledAlone ==
  ASSUME FlashInv, st = "verify", NEW e, NEW k, Settled(gen.round, e, k), out' = out \o e,
         UNCHANGED <<knobs, sess, prompt, budget, mode>>, gen' \in FlashCalls,
         gen'.cps = gen.cps, gen'.tail = gen.tail, gen'.shared = gen.shared,
         gen'.c = CachesOf(gen.round.hs[k]), gen'.h = gen.round.hs[k], gen'.next = F!NoNext,
         \/ st' = "end"
         \/ /\ st' = "decode" /\ e[k] \notin Eos /\ Len(out') < budget /\ gen'.drafts # <<>>
            /\ RowsF(gen'.mtp, gen.round.hs[k] \o <<e[k]>>, knobs)
  PROVE  FlashInv' /\ Plain!Emit
<1> DEFINE h == gen.round.hs[k]
<1>1. SettledCall(h, e, k)
  BY SettledState
<1>2. gen'.c = CachesOf(h) /\ gen'.h = h
  OBVIOUS
<1> HIDE DEF h
<1>3. /\ out' \in Context /\ out' # <<>> /\ out'[Len(out')] = e[k]
      /\ Said' = h /\ (prompt \o out)' = h \o <<e[k]>>
  <2>1. /\ out \o e \in Context /\ out \o e # <<>> /\ (out \o e)[Len(out \o e)] = e[k]
        /\ prompt \o SubSeq(out \o e, 1, Len(out \o e) - 1) = h /\ prompt \o (out \o e) = h \o <<e[k]>>
    BY <1>1 DEF SettledCall
  <2> QED BY <2>1 DEF Said
<1>4. Plain!Emit
  <2>1. EmitOf(prompt, budget, out, out')
    BY DEF Settled
  <2> QED BY <2>1, PlainEmit
<1>5. FlashType'
  BY <1>3 DEF FlashInv, FlashType
<1>6. FlashMarked'
  BY SpokenFacts DEF FlashMarked
<1>7. CASE st' = "end"
  <2>1. FlashEnded'
    BY <1>2, <1>3, <1>6, <1>7 DEF FlashEnded
  <2> QED BY <1>4, <1>5, <1>7, <2>1 DEF FlashInv, FlashPrefilling, FlashFirst, FlashDecoding, FlashVerifying
<1>8. CASE /\ st' = "decode" /\ e[k] \notin Eos /\ Len(out') < budget /\ gen'.drafts # <<>>
           /\ RowsF(gen'.mtp, gen.round.hs[k] \o <<e[k]>>, knobs)
  <2>1. GoesOn(out')
    BY <1>3, <1>8 DEF GoesOn
  <2>2. RowsF(gen'.mtp, (prompt \o out)', knobs)
    BY <1>3, <1>8 DEF h
  <2>3. FlashDecoding'
    BY <1>2, <1>3, <1>6, <1>8, <2>1, <2>2 DEF FlashDecoding
  <2> QED BY <1>4, <1>5, <1>8, <2>3 DEF FlashInv, FlashPrefilling, FlashFirst, FlashEnded, FlashVerifying
<1> QED BY <1>7, <1>8

(* A round that is settled with the guessed one taken: the answer is what  *)
(* was guessed, and the caches are those of the guessed round.             *)
LEMMA SettledTaken ==
  ASSUME FlashInv, st = "verify", NEW e, NEW k, Settled(gen.round, e, k), out' = out \o e,
         UNCHANGED <<knobs, sess, prompt, budget, mode>>, gen' \in FlashCalls,
         gen'.cps = gen.cps, gen'.tail = gen.tail, gen'.shared = gen.shared,
         gen.next # F!NoNext, k = Len(gen.round.pair), knobs.pipeline = 1, e[k] \notin Eos,
         gen'.c = gen.c, gen'.h = gen.round.hs[k], gen'.next = gen.next, gen'.drafts = gen.drafts,
         gen'.mtp = gen.mtp, st' = "decode"
  PROVE  FlashInv' /\ Plain!Emit
<1> DEFINE h == gen.round.hs[k]
           z == out[Len(out)]
           y == e[k]
           r == gen.round
           n == gen.next.round
<1>1. SettledCall(h, e, k)
  BY SettledState
<1>2. /\ out \o e \in Context /\ out \o e # <<>> /\ (out \o e)[Len(out \o e)] = y
      /\ prompt \o SubSeq(out \o e, 1, Len(out \o e) - 1) = h /\ prompt \o (out \o e) = h \o <<y>>
      /\ h \in Context /\ h # <<>> /\ h = (prompt \o out) \o SubSeq(e, 1, k - 1)
      /\ SubSeq(e, 1, k - 1) \in Context /\ y \in Token /\ Len(out \o e) = Len(out) + k
  BY <1>1 DEF SettledCall
<1>3. /\ out' \in Context /\ out' # <<>> /\ out'[Len(out')] = y
      /\ Said' = h /\ (prompt \o out)' = h \o <<y>> /\ Len(out') = Len(out) + k
  BY <1>2 DEF Said
<1>4. Plain!Emit
  <2>1. EmitOf(prompt, budget, out, out')
    BY SMTT(30) DEF Settled
  <2> QED BY <2>1, PlainEmit
<1>5. FlashType'
  BY <1>3 DEF FlashInv, FlashType
<1>6. FlashMarked'
  BY SpokenFacts DEF FlashMarked
<1>7. RoundAhead /\ gen.drafts = <<>> /\ \E d \in Context : RoundAfter(r, Said, z, d)
  BY DEF FlashInv, FlashVerifying
<1>8. F!Last(r.hs) = h /\ Said \o r.pair = h
  <2>1. PICK d \in Context : RoundAfter(r, Said, z, d)
    BY <1>7
  <2>2. z \in Token /\ Said \in Context
    BY SpokenFacts
  <2>3. Said \o SubSeq(r.pair, 1, k) = h /\ k = Len(r.pair)
    BY DEF Settled
  <2> HIDE DEF r, z, h
  <2>4. RoundSays(r, Said, z, d)
    BY <2>1, <2>2, RoundTold
  <2>5. F!Last(r.hs) = Said \o r.pair /\ r.pair \in Context
    BY <2>4 DEF RoundSays
  <2>6. SubSeq(r.pair, 1, Len(r.pair)) = r.pair
    BY <2>5, SubSeqFull, SMTT(30) DEF Context
  <2> QED BY <2>3, <2>5, <2>6
<1>9. /\ mode /\ Len(out) + Len(r.pair) < budget /\ RowsF(gen.next.mtp, prompt \o out, knobs)
      /\ gen.mtp = gen.next.mtp \o <<<<F!Top(h), h>>>>
      /\ gen.c = CachesOf(h \o n.pair)
      /\ \E d \in Context : RoundAfter(n, h, F!Top(h), d)
  BY <1>7, <1>8 DEF RoundAhead
<1>10. F!Top(h) = y
  <2>1. k \in 1..k /\ mode => \A j \in 1..k : e[j] = F!Top(r.hs[j])
    BY DEF Settled
  <2>2. k \in 1..k
    <3>1. k \in 1..Len(r.pair)
      BY DEF Settled
    <3> QED BY <3>1
  <2> QED BY <1>9, <2>1, <2>2
<1>11. RowsF(gen.mtp, h \o <<y>>, knobs)
  <2> DEFINE m == gen.next.mtp
             c == prompt \o out
             f == SubSeq(e, 1, k - 1)
  <2>1. RowsIn(m, c) /\ h = c \o f /\ f \in Context
    BY <1>2, <1>9 DEF RowsF
  <2>2. gen.mtp = m \o <<<<y, h>>>>
    BY <1>9, <1>10
  <2> HIDE DEF m, c, f, h, y
  <2>3. RowsIn(m, h)
    BY <2>1, RowsInMore
  <2>4. RowsF(m, h, knobs)
    BY <2>3 DEF RowsF
  <2>5. RowsF(m \o <<<<y, h>>>>, h \o <<y>>, knobs)
    BY <1>2, <2>4, RowsFOne
  <2> QED BY <2>2, <2>5, SMTT(30)
<1> HIDE DEF h, z, y, r, n
<1>12. Len(out') < budget
  BY <1>3, <1>9 DEF r
<1>13. GoesOn(out')
  BY <1>3 DEF GoesOn, y
<1>14. (gen.next.round)' = n /\ (gen.c)' = CachesOf(h \o n.pair) /\ (gen.h)' = h /\ (gen.mtp)' = gen.mtp
  BY <1>9 DEF n, h
<1>15. \E d \in Context : RoundAfter((gen.next.round)', Said', out'[Len(out')], d)
  BY <1>3, <1>9, <1>10, <1>14
<1>16. (gen.c)' = CachesOf(Said' \o (gen.next.round.pair)') /\ RowsF((gen.mtp)', (prompt \o out)', knobs')
  BY <1>3, <1>11, <1>14
<1>17. FlashDecoding'
  BY <1>3, <1>6, <1>7, <1>12, <1>13, <1>14, <1>15, <1>16 DEF FlashDecoding
<1> QED BY <1>4, <1>5, <1>17 DEF FlashInv, FlashPrefilling, FlashFirst, FlashEnded, FlashVerifying

(* The settled call as a record: g is the call with the guessed round kept *)
(* or put back.                                                            *)
SettledAs(x, g, h, next, c, d, m) ==
  /\ x \in FlashCalls /\ x.drafts = d /\ x.mtp = m /\ x.h = h /\ x.next = next /\ x.c = c
  /\ x.cps = g.cps /\ x.tail = g.tail /\ x.shared = g.shared

LEMMA SettledRecord ==
  ASSUME NEW g \in FlashCalls, NEW h \in Context, NEW next \in [round : Rounds, c : FlashCaches, mtp : Seq(Pairs)],
         NEW c \in FlashCaches, NEW d \in Context, NEW m \in Seq(Pairs)
  PROVE  LET base == [g EXCEPT !.round = F!NoRound, !.off = 0, !.h = h, !.next = next, !.c = c]
         IN  /\ SettledAs([base EXCEPT !.drafts = d, !.mtp = m], g, h, next, c, d, m)
             /\ SettledAs([base EXCEPT !.mtp = m], g, h, next, c, g.drafts, m)
<1> DEFINE none == F!NoRound
           zero == 0
           base == [g EXCEPT !.round = none, !.off = zero, !.h = h, !.next = next, !.c = c]
           new == [base EXCEPT !.drafts = d, !.mtp = m]
           old == [base EXCEPT !.mtp = m]
<1>1. none \in Rounds /\ zero \in Nat
  BY FreshFlash DEF FlashCalls, F!Fresh
<1> HIDE DEF none, zero
<1>2. base \in FlashCalls /\ base.cps = g.cps /\ base.tail = g.tail /\ base.shared = g.shared
  BY <1>1 DEF FlashCalls
<1>3. base.h = h /\ base.next = next /\ base.c = c /\ base.drafts = g.drafts
  BY DEF FlashCalls
<1> HIDE DEF base
<1>4. /\ new \in FlashCalls /\ new.drafts = d /\ new.mtp = m /\ new.h = base.h /\ new.next = base.next /\ new.c = base.c
      /\ new.cps = base.cps /\ new.tail = base.tail /\ new.shared = base.shared
  BY <1>2 DEF FlashCalls
<1>5. /\ old \in FlashCalls /\ old.drafts = base.drafts /\ old.mtp = m /\ old.h = base.h /\ old.next = base.next
      /\ old.c = base.c /\ old.cps = base.cps /\ old.tail = base.tail /\ old.shared = base.shared
  BY <1>2 DEF FlashCalls
<1> HIDE DEF new, old
<1>6. /\ new \in FlashCalls /\ new.drafts = d /\ new.mtp = m /\ new.h = h /\ new.next = next /\ new.c = c
      /\ new.cps = g.cps /\ new.tail = g.tail /\ new.shared = g.shared
      /\ old \in FlashCalls /\ old.drafts = g.drafts /\ old.mtp = m /\ old.h = h /\ old.next = next /\ old.c = c
      /\ old.cps = g.cps /\ old.tail = g.tail /\ old.shared = g.shared
  BY <1>2, <1>3, <1>4, <1>5
<1> QED BY <1>6 DEF new, old, base, none, zero, SettledAs

(* What is left of a round whose guessed one, if any, is not taken.        *)
LEMMA PutBack ==
  ASSUME FlashInv, st = "verify", NEW e, NEW k, Settled(gen.round, e, k), NEW full \in BOOLEAN
  PROVE  LET g == IF gen.next = F!NoNext THEN gen ELSE F!Unpipelined(gen)
             rows == F!Confirmed(g.mtp, e, full)
         IN  /\ g \in FlashCalls /\ g.c = CachesOf(Said \o gen.round.pair)
             /\ g.cps = gen.cps /\ g.tail = gen.tail /\ g.shared = gen.shared
             /\ F!Presync => RowsF(rows, gen.round.hs[k] \o <<e[k]>>, knobs)
             /\ ~F!Presync => RowsF(rows, gen.round.hs[k], knobs)
<1>1. gen \in FlashCalls /\ knobs \in Knobs
  BY DEF FlashInv, FlashType
<1>2. CASE gen.next = F!NoNext
  <2>1. RoundAlone
    BY <1>2 DEF FlashInv, FlashVerifying
  <2>2. gen.c = CachesOf(Said \o gen.round.pair)
    BY <2>1 DEF RoundAlone
  <2>3. F!Presync => RowsF(F!Confirmed(gen.mtp, e, full), gen.round.hs[k] \o <<e[k]>>, knobs)
    BY <2>1, PresyncRows
  <2>4. ASSUME ~F!Presync PROVE RowsF(F!Confirmed(gen.mtp, e, full), gen.round.hs[k], knobs)
    <3>1. gen.off = Len(gen.mtp) /\ RowsF(SubSeq(gen.mtp, 1, gen.off), prompt \o out, knobs)
      BY <2>1, <2>4 DEF RoundAlone
    <3>2. gen.mtp \in Seq(Pairs)
      BY <1>1 DEF FlashCalls
    <3>3. RowsF(gen.mtp, prompt \o out, knobs)
      BY <3>1, <3>2, SubSeqFull
    <3> QED BY <2>4, <3>3, ConfirmedRows
  <2> QED BY <1>1, <1>2, <2>2, <2>3, <2>4
<1>3. CASE gen.next # F!NoNext
  <2> DEFINE g == F!Unpipelined(gen)
  <2>1. RoundAhead
    BY <1>3 DEF FlashInv, FlashVerifying
  <2>2. /\ knobs.pipeline # 0 /\ gen.next.c = CachesOf(Said \o gen.round.pair)
        /\ RowsF(gen.next.mtp, prompt \o out, knobs)
    BY <2>1 DEF RoundAhead
  <2>3. gen.next \in [round : Rounds, c : FlashCaches, mtp : Seq(Pairs)]
    BY <1>1 DEF FlashCalls
  <2>4. g = [gen EXCEPT !.c = gen.next.c, !.mtp = gen.next.mtp]
    BY DEF F!Unpipelined
  <2> HIDE DEF g
  <2>5. /\ g \in FlashCalls /\ g.c = gen.next.c /\ g.mtp = gen.next.mtp
        /\ g.cps = gen.cps /\ g.tail = gen.tail /\ g.shared = gen.shared
    <3> DEFINE c == gen.next.c
               m == gen.next.mtp
    <3>1. c \in FlashCaches /\ m \in Seq(Pairs) /\ g = [gen EXCEPT !.c = c, !.mtp = m]
      BY <2>3, <2>4
    <3> HIDE DEF c, m
    <3>2. g \in FlashCalls /\ g.c = c /\ g.mtp = m /\ g.cps = gen.cps /\ g.tail = gen.tail /\ g.shared = gen.shared
      BY <1>1, <3>1 DEF FlashCalls
    <3> QED BY <3>2 DEF c, m
  <2>6. ~F!Presync
    BY <2>2 DEF F!Presync
  <2>7. RowsF(F!Confirmed(g.mtp, e, full), gen.round.hs[k], knobs)
    <3>1. RowsF(g.mtp, prompt \o out, knobs)
      BY <2>2, <2>5
    <3> QED BY <2>6, <3>1, ConfirmedRows
  <2> QED BY <1>3, <2>2, <2>5, <2>6, <2>7 DEF g
<1> QED BY <1>2, <1>3

LEMMA FlashSettle ==
  ASSUME Speaks, FlashInv, F!Settle
  PROVE  FlashInv' /\ Plain!Emit
<1>1. st = "verify" /\ UNCHANGED <<knobs, sess, prompt, budget, mode>>
  BY ZenonT(40) DEF F!Settle
<1>2. PICK said \in F!Verdicts(gen.round) :
       LET vals == F!Cut(said)
           ended == F!Last(vals) \in Eos
           full == Len(vals) = Len(gen.round.pair) /\ ~ended
           taken == gen.next # F!NoNext /\ full /\ knobs.pipeline = 1
           g == IF gen.next = F!NoNext \/ taken THEN gen ELSE F!Unpipelined(gen)
           more == Len(out) + Len(vals) < budget /\ ~ended
           h == gen.round.hs[Len(vals)]
           rows == F!Confirmed(g.mtp, vals, full)
           base == [g EXCEPT !.round = F!NoRound, !.off = 0, !.h = h,
                             !.next = IF taken THEN gen.next ELSE F!NoNext,
                             !.c = F!Rollback(@, gen.round.pre, gen.round.pair, Len(vals))]
       IN  /\ out' = out \o vals
           /\ st' = IF more THEN "decode" ELSE "end"
           /\ IF more /\ ~taken
              THEN \E d \in F!Drafts :
                     gen' = [base EXCEPT !.drafts = d,
                                         !.mtp = IF F!Presync THEN rows
                                                 ELSE F!DraftedRows(rows, F!Last(vals), h)]
              ELSE gen' = [base EXCEPT !.mtp = rows]
  BY DEF F!Settle
<1> DEFINE e == F!Cut(said)
           ended == F!Last(e) \in Eos
           full == Len(e) = Len(gen.round.pair) /\ ~ended
           taken == gen.next # F!NoNext /\ full /\ knobs.pipeline = 1
           g == IF gen.next = F!NoNext \/ taken THEN gen ELSE F!Unpipelined(gen)
           more == Len(out) + Len(e) < budget /\ ~ended
           h == gen.round.hs[Len(e)]
           rows == F!Confirmed(g.mtp, e, full)
           next == IF taken THEN gen.next ELSE F!NoNext
           c == F!Rollback(g.c, gen.round.pre, gen.round.pair, Len(e))
           base == [g EXCEPT !.round = F!NoRound, !.off = 0, !.h = h, !.next = next, !.c = c]
           drafted == IF F!Presync THEN rows ELSE F!DraftedRows(rows, F!Last(e), h)
<1>3. /\ out' = out \o e /\ st' = IF more THEN "decode" ELSE "end"
      /\ IF more /\ ~taken
         THEN \E d \in F!Drafts : gen' = [base EXCEPT !.drafts = d, !.mtp = drafted]
         ELSE gen' = [base EXCEPT !.mtp = rows]
  <2>1. drafted = IF F!Presync THEN rows ELSE F!DraftedRows(rows, F!Last(e), h)
    OBVIOUS
  <2>2. c = F!Rollback(g.c, gen.round.pre, gen.round.pair, Len(e))
    OBVIOUS
  <2> QED BY <1>2
<1>4. PICK k \in 1..Len(gen.round.pair) : Settled(gen.round, e, k)
  BY <1>1, SettledFacts
<1> HIDE DEF e
<1>5. Len(e) = k /\ SettledCall(h, e, k) /\ h = gen.round.hs[k]
  <2>1. Len(e) = k
    BY <1>4 DEF Settled
  <2> QED BY <1>1, <1>4, <2>1, SettledState
<1>6. h \in Context /\ h # <<>> /\ F!Last(e) = e[k] /\ e[k] \in Token /\ Len(out \o e) = Len(out) + k
  BY <1>5 DEF SettledCall
<1>7. full \in BOOLEAN /\ gen \in FlashCalls
  BY DEF FlashInv, FlashType
<1>8. CASE taken
  <2>1. RoundAhead /\ gen.next # F!NoNext /\ full /\ knobs.pipeline = 1
    BY <1>1, <1>8 DEF FlashInv, FlashVerifying
  <2>2. Len(out) + Len(gen.round.pair) < budget
    BY <2>1 DEF RoundAhead
  <2>3. g = gen /\ next = gen.next /\ more /\ rows = gen.mtp /\ Len(e) = Len(gen.round.pair)
    <3>1. ~F!Presync
      BY <2>1 DEF F!Presync
    <3>2. g = gen /\ next = gen.next /\ more /\ Len(e) = Len(gen.round.pair)
      BY <1>8, <2>1, <2>2
    <3>3. F!Confirmed(gen.mtp, e, full) = gen.mtp
      <4> HIDE DEF full
      <4> QED BY <2>1, <3>1 DEF F!Confirmed
    <3> QED BY <3>2, <3>3
  <2>4. c = gen.c
    BY <2>3 DEF F!Rollback
  <2>5. gen' = [base EXCEPT !.mtp = gen.mtp] /\ st' = "decode"
    BY <1>3, <1>8, <2>3
  <2>6. base = [gen EXCEPT !.round = F!NoRound, !.off = 0, !.h = h, !.next = gen.next, !.c = gen.c]
    BY <2>3, <2>4
  <2>7. /\ gen.next \in [round : Rounds, c : FlashCaches, mtp : Seq(Pairs)] /\ gen.c \in FlashCaches
        /\ gen.drafts \in Context /\ gen.mtp \in Seq(Pairs)
    BY <1>7 DEF FlashCalls
  <2> DEFINE old == [[gen EXCEPT !.round = F!NoRound, !.off = 0, !.h = h, !.next = gen.next, !.c = gen.c]
                       EXCEPT !.mtp = gen.mtp]
  <2> HIDE DEF h, base
  <2>8. SettledAs(old, gen, h, gen.next, gen.c, gen.drafts, gen.mtp)
    <3> DEFINE nx == gen.next
               cc == gen.c
               dd == gen.drafts
               mm == gen.mtp
    <3>1. /\ nx \in [round : Rounds, c : FlashCaches, mtp : Seq(Pairs)] /\ cc \in FlashCaches
          /\ dd \in Context /\ mm \in Seq(Pairs)
      BY <2>7
    <3> HIDE DEF nx, cc, dd, mm, old
    <3>2. LET b == [gen EXCEPT !.round = F!NoRound, !.off = 0, !.h = h, !.next = nx, !.c = cc]
          IN  /\ SettledAs([b EXCEPT !.drafts = dd, !.mtp = mm], gen, h, nx, cc, dd, mm)
              /\ SettledAs([b EXCEPT !.mtp = mm], gen, h, nx, cc, gen.drafts, mm)
      BY <1>6, <1>7, <3>1, SettledRecord
    <3> QED BY <3>2 DEF nx, cc, dd, mm, old
  <2>9. gen' = old
    BY <2>5, <2>6
  <2> HIDE DEF old
  <2>10. e[k] \notin Eos /\ k = Len(gen.round.pair)
    BY <1>5, <1>6, <2>1, <2>3
  <2>11. gen'.h = gen.round.hs[k]
    BY <1>5, <2>8, <2>9 DEF SettledAs
  <2>12. /\ gen' \in FlashCalls /\ gen'.drafts = gen.drafts /\ gen'.mtp = gen.mtp
         /\ gen'.next = gen.next /\ gen'.c = gen.c
         /\ gen'.cps = gen.cps /\ gen'.tail = gen.tail /\ gen'.shared = gen.shared
    BY <2>8, <2>9 DEF SettledAs
  <2> HIDE DEF taken, full, g, more, rows, next, c
  <2> QED BY <1>1, <1>3, <1>4, <2>1, <2>5, <2>10, <2>11, <2>12, SettledTaken
<1>9. CASE ~taken
  <2>1. g = IF gen.next = F!NoNext THEN gen ELSE F!Unpipelined(gen)
    BY <1>9
  <2>2. /\ g \in FlashCalls /\ g.c = CachesOf(Said \o gen.round.pair)
        /\ g.cps = gen.cps /\ g.tail = gen.tail /\ g.shared = gen.shared
        /\ F!Presync => RowsF(rows, h \o <<e[k]>>, knobs)
        /\ ~F!Presync => RowsF(rows, h, knobs)
    <3> DEFINE x == IF gen.next = F!NoNext THEN gen ELSE F!Unpipelined(gen)
               y == F!Confirmed(x.mtp, e, full)
    <3>1. /\ x \in FlashCalls /\ x.c = CachesOf(Said \o gen.round.pair)
          /\ x.cps = gen.cps /\ x.tail = gen.tail /\ x.shared = gen.shared
          /\ F!Presync => RowsF(y, gen.round.hs[k] \o <<e[k]>>, knobs)
          /\ ~F!Presync => RowsF(y, gen.round.hs[k], knobs)
      <4> HIDE DEF full
      <4> QED BY <1>1, <1>4, <1>7, PutBack
    <3>2. x = g
      BY <2>1
    <3> HIDE DEF x, g, h, full
    <3> QED BY <1>5, <3>1, <3>2
  <2>3. c = CachesOf(h) /\ next = F!NoNext
    <3>1. F!Rollback(CachesOf(Said \o gen.round.pair), gen.round.pre, gen.round.pair, k) = CachesOf(gen.round.hs[k])
      BY <1>1, <1>4, SettledCaches
    <3>2. next = F!NoNext
      BY <1>9
    <3> HIDE DEF g, next
    <3> QED BY <1>5, <2>2, <3>1, <3>2
  <2>4. c \in FlashCaches /\ next \in [round : Rounds, c : FlashCaches, mtp : Seq(Pairs)]
    <3>1. F!NoNext \in [round : Rounds, c : FlashCaches, mtp : Seq(Pairs)]
      BY FreshFlash DEF FlashCalls, F!Fresh
    <3> HIDE DEF c, next, h
    <3> QED BY <1>6, <2>3, <3>1, CachesType
  <2>5. rows \in Seq(Pairs) /\ drafted \in Seq(Pairs) /\ RowsF(drafted, h \o <<e[k]>>, knobs)
    <3>1. CASE F!Presync
      <4>1. RowsF(rows, h \o <<e[k]>>, knobs) /\ drafted = rows
        BY <2>2, <3>1
      <4> HIDE DEF rows, drafted, h
      <4> QED BY <4>1 DEF RowsF, RowsIn
    <3>2. CASE ~F!Presync
      <4>1. RowsF(rows, h, knobs) /\ drafted = F!DraftedRows(rows, F!Last(e), h)
        BY <2>2, <3>2
      <4> HIDE DEF rows, drafted, h
      <4>2. RowsF(rows \o <<<<e[k], h>>>>, h \o <<e[k]>>, knobs) /\ Append(rows, <<e[k], h>>) = rows \o <<<<e[k], h>>>>
        <5> DEFINE y == e[k]
        <5>1. y \in Token
          BY <1>6
        <5> HIDE DEF y
        <5>2. /\ RowsF(rows \o <<<<y, h>>>>, h \o <<y>>, knobs) /\ Append(rows, <<y, h>>) = rows \o <<<<y, h>>>>
              /\ rows \o <<<<y, h>>>> \in Seq(Pairs)
          BY <1>6, <4>1, <5>1, RowsFOne
        <5> QED BY <5>2 DEF y
      <4>3. RowsF(drafted, h \o <<e[k]>>, knobs)
        BY <1>6, <4>1, <4>2 DEF F!DraftedRows
      <4> QED BY <4>1, <4>3 DEF RowsF, RowsIn
    <3> QED BY <3>1, <3>2
  <2> HIDE DEF g, rows, drafted, h, c, next
  <2>6. CASE more
    <3>1. PICK d \in F!Drafts : gen' = [base EXCEPT !.drafts = d, !.mtp = drafted]
      BY <1>3, <1>9, <2>6
    <3>2. d \in Context /\ d # <<>>
      BY DraftsType
    <3> DEFINE new == [base EXCEPT !.drafts = d, !.mtp = drafted]
    <3>3. /\ new \in FlashCalls /\ new.drafts = d /\ new.mtp = drafted /\ new.h = h /\ new.next = next /\ new.c = c
          /\ new.cps = g.cps /\ new.tail = g.tail /\ new.shared = g.shared
      <4>1. LET b == [g EXCEPT !.round = F!NoRound, !.off = 0, !.h = h, !.next = next, !.c = c]
            IN  /\ SettledAs([b EXCEPT !.drafts = d, !.mtp = drafted], g, h, next, c, d, drafted)
                /\ SettledAs([b EXCEPT !.mtp = drafted], g, h, next, c, g.drafts, drafted)
        <5>1. g \in FlashCalls /\ drafted \in Seq(Pairs)
          BY <2>2, <2>5
        <5> QED BY <1>6, <2>4, <3>2, <5>1, SettledRecord
      <4>2. SettledAs(new, g, h, next, c, d, drafted)
        BY <4>1
      <4> HIDE DEF new
      <4> QED BY <4>2 DEF SettledAs
    <3>4. gen' = new
      BY <3>1
    <3> HIDE DEF new, base
    <3>5. /\ gen' \in FlashCalls /\ gen'.cps = gen.cps /\ gen'.tail = gen.tail /\ gen'.shared = gen.shared
          /\ gen'.c = CachesOf(gen.round.hs[k]) /\ gen'.h = gen.round.hs[k] /\ gen'.next = F!NoNext
      BY <1>5, <2>2, <2>3, <3>3, <3>4
    <3>6. st' = "decode" /\ e[k] \notin Eos /\ Len(out') < budget
      BY <1>3, <1>5, <1>6, <2>6
    <3>7. gen'.drafts # <<>> /\ RowsF(gen'.mtp, gen.round.hs[k] \o <<e[k]>>, knobs)
      BY <1>5, <2>5, <3>2, <3>3, <3>4
    <3>8. out' = out \o e
      BY <1>3
    <3> HIDE DEF full, taken, more
    <3> QED BY <1>1, <1>4, <3>5, <3>6, <3>7, <3>8, SettledAlone
  <2>7. CASE ~more
    <3>1. gen' = [base EXCEPT !.mtp = rows] /\ st' = "end" /\ out' = out \o e
      BY <1>3, <2>7
    <3> DEFINE old == [base EXCEPT !.mtp = rows]
    <3>2. /\ old \in FlashCalls /\ old.drafts = g.drafts /\ old.mtp = rows /\ old.h = h /\ old.next = next /\ old.c = c
          /\ old.cps = g.cps /\ old.tail = g.tail /\ old.shared = g.shared
      <4> DEFINE d == <<>>
      <4>1. d \in Context /\ g \in FlashCalls /\ rows \in Seq(Pairs)
        BY <2>2, <2>5, Nothing
      <4> HIDE DEF d, old
      <4>2. LET b == [g EXCEPT !.round = F!NoRound, !.off = 0, !.h = h, !.next = next, !.c = c]
            IN  /\ SettledAs([b EXCEPT !.drafts = d, !.mtp = rows], g, h, next, c, d, rows)
                /\ SettledAs([b EXCEPT !.mtp = rows], g, h, next, c, g.drafts, rows)
        BY <1>6, <2>4, <4>1, SettledRecord
      <4>3. SettledAs(old, g, h, next, c, g.drafts, rows)
        BY <4>2 DEF old
      <4> QED BY <4>3 DEF SettledAs
    <3>3. gen' = old
      BY <3>1
    <3> HIDE DEF old, base
    <3>4. /\ gen' \in FlashCalls /\ gen'.cps = gen.cps /\ gen'.tail = gen.tail /\ gen'.shared = gen.shared
          /\ gen'.c = CachesOf(gen.round.hs[k]) /\ gen'.h = gen.round.hs[k] /\ gen'.next = F!NoNext
      BY <1>5, <2>2, <2>3, <3>2, <3>3
    <3> HIDE DEF full, taken, more
    <3> QED BY <1>1, <1>4, <3>1, <3>4, SettledAlone
  <2> QED BY <2>6, <2>7
<1> QED BY <1>8, <1>9

(***************************************************************************)
(* The end of a call of it                                                 *)
(***************************************************************************)
LEMMA ProcessedFacts ==
  ASSUME prompt \in Context, out \in Context
  PROVE  /\ out = <<>> => F!Processed = prompt
         /\ out # <<>> => F!Processed = Said
<1>1. F!Processed = prompt \o SubSeq(out, 1, Len(out) - W!AtMost(1, Len(out)))
  BY FlashOps DEF F!Processed
<1>2. ASSUME out = <<>> PROVE F!Processed = prompt
  <2> DEFINE n == Len(out) - W!AtMost(1, Len(out))
  <2>1. n = 0
    <3>1. Len(out) = 0
      BY <1>2, Nothing
    <3> QED BY <3>1 DEF W!AtMost
  <2> HIDE DEF n
  <2>2. SubSeq(out, 1, n) = <<>>
    BY <2>1, SubSeqEmpty
  <2> QED BY <1>1, <2>2, Nothing DEF n
<1>3. ASSUME out # <<>> PROVE F!Processed = Said
  <2> DEFINE l == Len(out)
  <2>1. l \in Nat /\ l # 0
    BY <1>3, Nothing
  <2> HIDE DEF l
  <2>2. W!AtMost(1, l) = 1
    BY <2>1 DEF W!AtMost
  <2> QED BY <1>1, <2>2 DEF l, Said
<1> QED BY <1>2, <1>3

LEMMA FlashPublish ==
  ASSUME FlashInv, F!Publish
  PROVE  FlashInv' /\ UNCHANGED <<prompt, budget, out>>
<1> DEFINE c == F!Processed
           x == [has |-> TRUE, processed |-> c, c |-> gen.c, cps |-> gen.cps, tail |-> gen.tail]
<1>1. /\ F!Finished /\ st' = "idle" /\ gen' = F!Fresh /\ sess' = x
      /\ UNCHANGED <<knobs, prompt, budget, mode, out>>
  BY DEF F!Publish
<1>2. /\ FlashType /\ gen \in FlashCalls /\ prompt \in Context /\ out \in Context /\ budget \in Nat
      /\ gen.cps \in Seq(AnyMarksF) /\ gen.tail \in AnyTailsF
  BY DEF FlashInv, FlashType, FlashCalls
<1>3. FlashMarked /\ gen.c = CachesOf(c)
  <2>1. CASE st = "end"
    BY <1>2, <2>1, ProcessedFacts DEF FlashInv, FlashEnded
  <2>2. CASE st = "first" /\ budget = 0
    BY <1>2, <2>2, ProcessedFacts DEF FlashInv, FlashFirst
  <2>3. CASE st = "decode" /\ Len(out) >= budget
    <3>1. /\ FlashMarked /\ out # <<>> /\ (gen.next = F!NoNext => gen.c = CachesOf(Said))
          /\ (gen.next # F!NoNext => Len(out) < budget)
      BY <2>3 DEF FlashInv, FlashDecoding
    <3>2. ~(Len(out) < budget)
      <4> DEFINE l == Len(out)
      <4>1. l \in Nat /\ l >= budget
        BY <1>2, <2>3, Nothing
      <4> HIDE DEF l
      <4>2. ~(l < budget)
        BY <1>2, <4>1
      <4> QED BY <4>2 DEF l
    <3> QED BY <1>2, <3>1, <3>2, ProcessedFacts
  <2> QED BY <1>1, <2>1, <2>2, <2>3 DEF F!Finished
<1>4. prompt # <<>> /\ Ladder(gen.cps, MarksF(prompt)) /\ TailF(gen.tail, prompt, knobs)
  BY <1>3 DEF FlashMarked
<1>5. PICK s \in Context : c = prompt \o s
  <2>1. CASE out = <<>>
    <3>1. c = prompt \o <<>> /\ <<>> \in Context
      BY <1>2, <2>1, ProcessedFacts, Nothing
    <3> QED BY <3>1
  <2>2. CASE out # <<>>
    <3>1. c = prompt \o SubSeq(out, 1, Len(out) - 1) /\ SubSeq(out, 1, Len(out) - 1) \in Context
      BY <1>2, <2>2, ProcessedFacts, LastApart DEF Said
    <3> QED BY <3>1
  <2> QED BY <2>1, <2>2
<1> HIDE DEF c
<1>6. c \in Context /\ c # <<>>
  <2>1. c \in Context /\ Len(c) = Len(prompt) + Len(s) /\ Len(prompt) \in Nat /\ Len(s) \in Nat
    BY <1>2, <1>5, Joined
  <2>2. Len(prompt) # 0
    BY <1>2, <1>4, Nothing
  <2>3. Len(c) # 0
    BY <2>1, <2>2
  <2> QED BY <2>1, <2>3, Nothing
<1>7. Ladder(gen.cps, MarksF(c)) /\ TailF(gen.tail, c, knobs)
  <2>1. MarksF(prompt) \subseteq MarksF(c) /\ TailF(gen.tail, c, knobs)
    <3>1. MarksF(prompt) \subseteq MarksF(prompt \o s)
      BY <1>2, MarksFOfMore
    <3>2. TailF(gen.tail, prompt \o s, knobs)
      BY <1>2, <1>4, TailMore
    <3> QED BY <1>5, <3>1, <3>2
  <2> QED BY <1>4, <2>1, LadderWidens
<1>8. x \in FlashSessions
  <2>1. gen.c \in FlashCaches
    BY <1>2 DEF FlashCalls
  <2> QED BY <1>2, <1>6, <2>1 DEF FlashSessions
<1>9. FlashSession(x, knobs)
  <2>1. x.has = TRUE /\ x.processed = c /\ x.c = gen.c /\ x.cps = gen.cps /\ x.tail = gen.tail
    OBVIOUS
  <2> HIDE DEF x
  <2> QED BY <1>3, <1>6, <1>7, <1>8, <2>1 DEF FlashSession
<1> HIDE DEF x
<1>10. FlashSession(sess', knobs')
  BY <1>1, <1>9
<1>11. FlashType'
  BY <1>1, <1>2, <1>10, FreshFlash DEF FlashType
<1> QED BY <1>1, <1>11 DEF FlashInv, FlashPrefilling, FlashFirst, FlashDecoding, FlashVerifying, FlashEnded

LEMMA FlashFail ==
  ASSUME FlashInv, F!Fail
  PROVE  FlashInv' /\ UNCHANGED <<prompt, budget, out>>
<1>1. /\ st' = "idle" /\ gen' = F!Fresh
      /\ sess' = IF gen.shared /\ sess.has THEN [sess EXCEPT !.c = gen.c] ELSE sess
      /\ UNCHANGED <<knobs, prompt, budget, mode, out>>
  BY DEF F!Fail
<1>2. FlashType /\ (gen.shared => ~sess.has)
  BY DEF FlashInv, FlashType
<1>3. sess' = sess
  BY <1>1, <1>2
<1>4. FlashType'
  BY <1>1, <1>2, <1>3, FreshFlash DEF FlashType
<1> QED BY <1>1, <1>4 DEF FlashInv, FlashPrefilling, FlashFirst, FlashDecoding, FlashVerifying, FlashEnded

LEMMA FlashStep ==
  ASSUME Speaks, FlashInv, F!Next
  PROVE  FlashInv' /\ (Plain!Next \/ UNCHANGED <<prompt, budget, out>>)
<1>1. CASE F!Rewind
  BY <1>1, FlashRewind
<1>2. CASE F!Begin
  BY <1>2, FlashBegin DEF Plain!Next
<1>3. CASE F!PrefillGroup
  BY <1>3, FlashPrefillGroup
<1>4. CASE F!PrefillChunk
  BY <1>4, FlashPrefillChunk
<1>5. CASE F!PrefillLast
  BY <1>5, FlashPrefillLast
<1>6. CASE F!FirstToken
  BY <1>6, FlashFirstToken DEF Plain!Next
<1>7. CASE F!Draft
  BY <1>7, FlashDraft
<1>8. CASE F!Submit
  BY <1>8, FlashSubmit
<1>9. CASE F!Settle
  BY <1>9, FlashSettle DEF Plain!Next
<1>10. CASE F!Publish
  BY <1>10, FlashPublish
<1>11. CASE F!Fail
  BY <1>11, FlashFail
<1> QED BY <1>1, <1>2, <1>3, <1>4, <1>5, <1>6, <1>7, <1>8, <1>9, <1>10, <1>11 DEF F!Next

(***************************************************************************)
(* What it promises                                                        *)
(***************************************************************************)
LEMMA StandsFor ==
  ASSUME NEW s \in Context
  PROVE  F!StandFor(CachesOf(s), s)
BY FlashOps DEF F!StandFor, F!Agree, CachesOf, Grams

(* Checkpoints and a tail of a context.                                    *)
LEMMA MarksTrue ==
  ASSUME NEW x, NEW c \in Context, Ladder(x.cps, MarksF(c)), TailF(x.tail, c, knobs)
  PROVE  F!MarksOf(x, c)
<1> DEFINE cps == x.cps
<1>1. cps \in Seq(MarksF(c)) /\ Len(cps) <= Retention /\ Rises(cps) /\ Len(cps) \in Nat /\ DOMAIN cps = 1..Len(cps)
  BY LenProperties DEF Ladder
<1> HIDE DEF cps
<1>2. ASSUME NEW i \in DOMAIN cps
      PROVE  /\ cps[i].rec = F!First(c, cps[i].pos)
             /\ cps[i].ctx = F!Final(F!First(c, cps[i].pos), ContextLen)
             /\ i > 1 => cps[i - 1].pos < cps[i].pos
  <2>1. cps[i] \in MarksF(c) /\ i \in 1..Len(cps)
    BY <1>1, ElementOfSeq
  <2>2. PICK n \in 1..Len(c) : cps[i] = MarkOf(c, n)
    BY <2>1 DEF MarksF
  <2>3. cps[i].pos = n /\ cps[i].rec = SubSeq(c, 1, n) /\ cps[i].ctx = Grams(SubSeq(c, 1, n))
    BY <2>2 DEF MarkOf
  <2>4. i > 1 => i - 1 \in 1..Len(cps) /\ i - 1 < i
    BY <1>1, <2>1
  <2>5. i > 1 => cps[i - 1].pos < cps[i].pos
    BY <1>1, <2>1, <2>4 DEF Rises
  <2> QED BY <2>3, <2>5, FlashOps DEF Grams
<1>3. x.tail.h = F!First(c, x.tail.pos)
  BY FlashOps DEF TailF
<1> QED BY <1>1, <1>2, <1>3 DEF F!MarksOf, cps

LEMMA FlashGood ==
  ASSUME FlashInv
  PROVE  F!CachesFollow
<1>1. FlashSession(sess, knobs) /\ prompt \in Context /\ out \in Context /\ gen \in FlashCalls
  BY DEF FlashInv, FlashType
<1>2. ASSUME sess.has
      PROVE  F!StandFor(sess.c, sess.processed) /\ F!MarksOf(sess, sess.processed)
  <2>1. /\ sess.processed \in Context /\ sess.c = CachesOf(sess.processed)
        /\ Ladder(sess.cps, MarksF(sess.processed)) /\ TailF(sess.tail, sess.processed, knobs)
    BY <1>1, <1>2 DEF FlashSession, FlashSessions
  <2> QED BY <2>1, StandsFor, MarksTrue
<1>3. ASSUME st = "first" PROVE F!StandFor(gen.c, prompt) /\ gen.h = prompt
  BY <1>1, <1>3, StandsFor DEF FlashInv, FlashFirst
<1>4. ASSUME st \in {"first", "decode", "end"} PROVE F!MarksOf(gen, prompt)
  <2>1. FlashMarked
    BY <1>4 DEF FlashInv, FlashFirst, FlashDecoding, FlashEnded
  <2> QED BY <1>1, <2>1, MarksTrue DEF FlashMarked
<1>5. ASSUME st \in {"decode", "end"}
      PROVE  F!StandFor(gen.c, F!Processed \o gen.next.round.pair) /\ gen.h = F!Processed
  <2>1. out # <<>> /\ gen.h = Said /\ (gen.next = F!NoNext => gen.c = CachesOf(Said))
    BY <1>5 DEF FlashInv, FlashDecoding, FlashEnded
  <2>2. F!Processed = Said /\ Said \in Context
    BY <1>1, <2>1, ProcessedFacts, SaidFacts
  <2>3. CASE gen.next = F!NoNext
    <3>1. Said \o gen.next.round.pair = Said
      <4>1. gen.next.round.pair = <<>>
        BY <2>3, FreshFlash
      <4> QED BY <2>2, <4>1, Nothing
    <3> QED BY <2>1, <2>2, <2>3, <3>1, StandsFor
  <2>4. CASE gen.next # F!NoNext
    <3>1. gen.c = CachesOf(Said \o gen.next.round.pair)
      BY <1>5, <2>4 DEF FlashInv, FlashDecoding, FlashEnded
    <3>2. gen.next.round.pair \in Context
      BY <1>1 DEF FlashCalls, Rounds
    <3>3. Said \o gen.next.round.pair \in Context
      BY <2>2, <3>2, Joined
    <3> QED BY <2>1, <2>2, <3>1, <3>3, StandsFor
  <2> QED BY <2>3, <2>4
<1>6. ASSUME st = "decode", gen.next = F!NoNext
      PROVE  F!TrueRows(gen.mtp, IF gen.drafts # <<>> THEN prompt \o out ELSE F!Processed)
  <2>1. out # <<>> /\ RowsF(gen.mtp, IF gen.drafts = <<>> THEN Said ELSE prompt \o out, knobs)
    BY <1>6 DEF FlashInv, FlashDecoding
  <2>2. F!Processed = Said
    BY <1>1, <2>1, ProcessedFacts
  <2>3. RowsF(gen.mtp, IF gen.drafts # <<>> THEN prompt \o out ELSE F!Processed, knobs)
    BY <2>1, <2>2
  <2> QED BY <2>3, RowsFTrue
<1> QED BY <1>2, <1>3, <1>4, <1>5, <1>6 DEF F!CachesFollow

(***************************************************************************)
(* Where it cuts the prompt                                                *)
(***************************************************************************)
(* What follows the first g.reused tokens of the prompt p is cut at the    *)
(* boundaries of its length. In the middle of a prefill they are those of  *)
(* what has been run, which ends behind a whole chunk unless one chunk is  *)
(* left at most.                                                           *)
CutsOf(x, g, p) ==
  LET n == Len(p) - g.reused
      m == Len(g.c.kv) - g.reused
  IN  /\ x = "prefill" =>
           /\ CutTo(g.cuts, PrefillStep, FlashTail, n, m, g.reused)
           /\ PrefillStep < n - m => \E i \in Nat : m = i * PrefillStep
      /\ x = "first" /\ g.cuts # <<>> =>
           n \in Nat /\ CutTo(g.cuts, PrefillStep, FlashTail, n, n, g.reused)

CutsInv == CutsOf(st, gen, prompt)

LEMMA CutsElsewhere ==
  ASSUME st' \notin {"prefill", "first"}
  PROVE  CutsInv'
BY DEF CutsInv, CutsOf

LEMMA CutsBegin ==
  ASSUME FlashInv, F!Begin
  PROVE  CutsInv'
<1> DEFINE p == prompt'
           g == gen'
<1>1. FlashInv' /\ p \in Context /\ p # <<>>
  BY FlashBegin, FlashAsks
<1>2. g.cuts = <<>> /\ Len(g.c.kv) = g.reused /\ g.reused \in Nat
  <2>1. CASE ~(sess.has /\ IsPrefix(sess.processed, p))
    <3>1. gen' = F!Fresh
      BY <2>1, FlashOps DEF F!Begin
    <3>2. F!Fresh.cuts = <<>> /\ F!Fresh.reused = 0 /\ F!Fresh.c.kv = <<>>
      BY DEF F!Fresh, F!NoCache
    <3> QED BY <3>1, <3>2, Nothing
  <2>2. CASE sess.has /\ IsPrefix(sess.processed, p)
    <3> DEFINE n == Len(sess.processed)
               base == [F!Fresh EXCEPT !.c = sess.c, !.cps = sess.cps, !.shared = TRUE, !.reused = n]
    <3>1. g = IF sess.processed = p
              THEN [base EXCEPT !.tail = sess.tail, !.h = sess.tail.h, !.mtp = sess.tail.mtp]
              ELSE base
      BY <2>2, FlashOps DEF F!Begin
    <3>2. base.cuts = <<>> /\ base.reused = n /\ base.c = sess.c
      BY DEF F!Fresh
    <3>3. g.cuts = <<>> /\ g.reused = n /\ g.c = sess.c
      <4>1. CASE sess.processed = p
        <5>1. g = [base EXCEPT !.tail = sess.tail, !.h = sess.tail.h, !.mtp = sess.tail.mtp]
          BY <3>1, <4>1
        <5> QED BY <5>1 DEF F!Fresh
      <4>2. CASE sess.processed # p
        <5>1. g = base
          BY <3>1, <4>2
        <5> HIDE DEF base
        <5> QED BY <3>2, <5>1
      <4> QED BY <4>1, <4>2
    <3>4. sess.c.kv = sess.processed /\ sess.processed \in Context
      BY <2>2 DEF FlashInv, FlashType, FlashSession, FlashSessions, CachesOf
    <3> QED BY <3>3, <3>4, Nothing
  <2> QED BY <2>1, <2>2
<1> DEFINE r == g.reused
           n == Len(p) - r
<1>3. CASE st' = "prefill"
  <2>1. r < Len(p) /\ Len(p) \in Nat
    <3>1. F!Done' < Len(p)
      BY <1>1, <1>3 DEF FlashInv, FlashPrefilling
    <3>2. F!Done' = r
      BY <1>2 DEF F!Done
    <3> QED BY <1>1, <3>1, <3>2, Nothing
  <2>2. n \in Nat \ {0} /\ Len(g.c.kv) - r = 0 /\ 0 = 0 * PrefillStep
    <3>1. r \in Nat
      BY <1>2
    <3> HIDE DEF r, p
    <3>2. n \in Nat \ {0} /\ r - r = 0
      BY <2>1, <3>1
    <3> QED BY <1>2, <3>2, FlashSizes DEF r
  <2>3. CutTo(<<>>, PrefillStep, FlashTail, n, 0, r)
    <3> HIDE DEF n, r
    <3> QED BY <2>2, FlashSizes, NoCut
  <2>4. \E i \in Nat : 0 = i * PrefillStep
    BY <2>2
  <2>5. CutsOf("prefill", g, p)
    <3> HIDE DEF p, g
    <3> QED BY <1>2, <2>2, <2>3, <2>4 DEF CutsOf
  <2> QED BY <1>3, <2>5 DEF CutsInv
<1>4. CASE st' # "prefill"
  BY <1>2, <1>4 DEF CutsInv, CutsOf
<1> QED BY <1>3, <1>4

LEMMA CutsState ==
  ASSUME FlashInv, CutsInv, st = "prefill"
  PROVE  LET r == gen.reused
             n == Len(prompt) - r
             m == F!Done - r
         IN  /\ r \in Nat /\ n \in Nat /\ m \in Nat /\ m < n
             /\ F!Done = r + m /\ F!Left = n - m /\ Len(prompt) = r + n
             /\ gen.cuts \in Seq(Int)
             /\ CutTo(gen.cuts, PrefillStep, FlashTail, n, m, r)
             /\ PrefillStep < F!Left => \E i \in Nat : m = i * PrefillStep
<1> DEFINE r == gen.reused
           l == Len(prompt)
           d == F!Done
<1>1. l \in Nat /\ d \in Nat /\ d < l /\ F!Left = l - d /\ gen \in FlashCalls
  BY PrefillState
<1>2. r \in Nat /\ r <= d /\ gen.cuts \in Seq(Int)
  BY <1>1 DEF FlashInv, FlashPrefilling, FlashCalls
<1>3. CutTo(gen.cuts, PrefillStep, FlashTail, l - r, d - r, r)
      /\ (PrefillStep < (l - r) - (d - r) => \E i \in Nat : d - r = i * PrefillStep)
  BY DEF CutsInv, CutsOf, F!Done
<1> HIDE DEF r, l, d
<1>4. l - r \in Nat /\ d - r \in Nat /\ d - r < l - r /\ d = r + (d - r) /\ l - d = (l - r) - (d - r)
      /\ l = r + (l - r)
  BY <1>1, <1>2
<1> QED BY <1>1, <1>2, <1>3, <1>4 DEF r, l, d

(* A run of chunks adds its boundaries.                                    *)
LEMMA CutsRun ==
  ASSUME FlashInv, CutsInv, st = "prefill", NEW w, w # <<>>, NEW e \in Nat,
         Walk(w, PrefillStep, FlashTail, Len(prompt) - gen.reused, F!Done - gen.reused, e),
         e <= Len(prompt) - gen.reused, NEW hypers \in Seq(Int)
  PROVE  LET g == F!Run(gen, w, hypers)
         IN  /\ g \in FlashCalls /\ g.reused = gen.reused /\ Len(g.c.kv) = gen.reused + e
             /\ CutTo(g.cuts, PrefillStep, FlashTail, Len(prompt) - gen.reused, e, gen.reused)
<1> DEFINE r == gen.reused
           n == Len(prompt) - r
           m == F!Done - r
           d == F!Done
           g == F!Run(gen, w, hypers)
           t == e - m
<1>1. /\ r \in Nat /\ n \in Nat /\ m \in Nat /\ d = r + m /\ F!Left = n - m /\ gen.cuts \in Seq(Int)
      /\ CutTo(gen.cuts, PrefillStep, FlashTail, n, m, r)
  BY CutsState
<1> DEFINE walk == Walk(w, PrefillStep, FlashTail, n, m, e)
<1>2. walk /\ e <= n
  OBVIOUS
<1> HIDE DEF r, n, m, d, g
<1>3. m <= e /\ Sums(w, t)
  BY <1>1, <1>2, WalkSums
<1> HIDE DEF walk
<1>4. t \in Nat /\ t <= F!Left /\ d + t = r + e
  BY <1>1, <1>2, <1>3
<1> HIDE DEF t
<1>5. /\ g \in FlashCalls /\ d + t \in 0..Len(prompt) /\ g.c = CachesOf(SubSeq(prompt, 1, d + t))
      /\ g = [gen EXCEPT !.c = g.c, !.cuts = g.cuts, !.kept = g.kept]
  BY <1>3, <1>4, RunFacts DEF g, d
<1>6. g.reused = r
  <2>1. gen \in FlashCalls
    BY PrefillState
  <2> HIDE DEF g
  <2> QED BY <1>5, <2>1 DEF FlashCalls, r
<1>7. Len(g.c.kv) = r + e
  <2>1. prompt \in Context
    BY PrefillState
  <2>2. Len(SubSeq(prompt, 1, d + t)) = d + t
    BY <1>5, <2>1, FirstPart DEF Context
  <2> QED BY <1>4, <1>5, <2>2 DEF CachesOf
<1>8. g.cuts = gen.cuts \o F!Ends(d, w)
  <2>1. gen \in FlashCalls
    BY PrefillState
  <2> QED BY <2>1 DEF g, d, F!Run, FlashCalls
<1>9. PICK b : /\ Strides(b, Len(w), PrefillStep, FlashTail, n) /\ b[0] = m /\ b[Len(w)] = e
               /\ F!Ends(r + m, w) = [k \in 1..Len(w) |-> r + b[k]]
  <2>1. Walk(w, PrefillStep, FlashTail, n, m, e)
    BY <1>2 DEF walk
  <2>2. r \in Nat /\ m \in Nat
    BY <1>1
  <2>3. WalkFrom(w, PrefillStep, FlashTail, n, m, e, r)
    BY <2>1, <2>2, WalkEnds
  <2> QED BY <2>3 DEF WalkFrom
<1>10. CutTo(gen.cuts, PrefillStep, FlashTail, n, b[0], r) /\ r \in Int
  BY <1>1, <1>9
<1>11. CutTo(gen.cuts \o [k \in 1..Len(w) |-> r + b[k]], PrefillStep, FlashTail, n, b[Len(w)], r)
  BY <1>1, <1>9, <1>10, CutWalks
<1>12. CutTo(g.cuts, PrefillStep, FlashTail, n, e, r)
  BY <1>1, <1>8, <1>9, <1>11
<1> QED BY <1>5, <1>6, <1>7, <1>12 DEF g, r, n

LEMMA CutsChunks ==
  ASSUME FlashInv, CutsInv, st = "prefill", NEW w, w # <<>>, NEW e \in Nat,
         Walk(w, PrefillStep, FlashTail, Len(prompt) - gen.reused, F!Done - gen.reused, e),
         e <= Len(prompt) - gen.reused,
         PrefillStep < (Len(prompt) - gen.reused) - e => \E i \in Nat : e = i * PrefillStep,
         gen' = [F!Run(gen, w, w) EXCEPT !.cps = F!Checkpointed(@, F!Run(gen, w, w).c)],
         st' = st, prompt' = prompt
  PROVE  CutsInv'
<1> DEFINE g == F!Run(gen, w, w)
           r == gen.reused
           n == Len(prompt) - r
<1>1. w \in Seq(Int)
  <2>1. \A i \in 1..Len(w) : w[i] \in Int
    BY LenProperties, ElementOfSeq DEF Walk
  <2> QED BY <2>1, IsASeq DEF Walk
<1>2. /\ g \in FlashCalls /\ g.reused = r /\ Len(g.c.kv) = r + e
      /\ CutTo(g.cuts, PrefillStep, FlashTail, n, e, r)
  BY <1>1, CutsRun
<1>3. r \in Nat
  BY CutsState
<1> HIDE DEF g, n, r
<1>4. gen'.cuts = g.cuts /\ gen'.reused = r /\ gen'.c = g.c
  BY <1>2 DEF FlashCalls, g
<1>5. Len(gen'.c.kv) - r = e
  <2>1. (r + e) - r = e
    BY <1>3
  <2>2. gen'.c.kv = g.c.kv
    BY <1>4
  <2> DEFINE z == Len(gen'.c.kv)
  <2>3. z = r + e
    BY <1>2, <2>2
  <2> HIDE DEF z
  <2>4. z - r = e
    BY <2>1, <2>3
  <2> QED BY <2>4 DEF z
<1>6. Len(prompt') - gen'.reused = n
  BY <1>4 DEF n
<1>7. PrefillStep < n - e => \E i \in Nat : e = i * PrefillStep
  BY DEF n, r
<1>8. st' = "prefill"
  OBVIOUS
<1> QED BY <1>2, <1>4, <1>5, <1>6, <1>7, <1>8 DEF CutsInv, CutsOf

LEMMA CutsGroup ==
  ASSUME FlashInv, CutsInv, F!PrefillGroup
  PROVE  CutsInv'
<1> DEFINE w == F!GroupWidths(F!Left)
           n == Len(prompt) - gen.reused
           m == F!Done - gen.reused
<1>1. /\ st = "prefill" /\ w # <<>> /\ st' = st /\ prompt' = prompt
      /\ gen' = [F!Run(gen, w, w) EXCEPT !.cps = F!Checkpointed(@, F!Run(gen, w, w).c)]
  BY DEF F!PrefillGroup
<1>2. F!Left \in Nat
  BY <1>1, PrefillState
<1>3. /\ n \in Nat /\ m \in Nat /\ F!Left = n - m
      /\ PrefillStep < F!Left => \E i \in Nat : m = i * PrefillStep
  BY <1>1, CutsState
<1>4. PrefillStep < F!Left
  <2>1. ~(F!Left <= PrefillStep)
    BY <1>1, <1>2, GroupLong
  <2> QED BY <1>2, <2>1, FlashSizes
<1>5. PICK j \in Nat : m = j * PrefillStep
  BY <1>3, <1>4
<1> HIDE DEF n, m
<1>6. n = j * PrefillStep + F!Left
  <2>1. n = m + F!Left
    BY <1>2, <1>3
  <2> QED BY <1>5, <2>1
<1>7. PICK e \in Nat : /\ Walk(w, PrefillStep, FlashTail, n, j * PrefillStep, e) /\ e < n
                       /\ PrefillStep < n - e => \E i \in Nat : e = i * PrefillStep
  BY <1>1, <1>2, <1>3, <1>6, GroupWalk
<1> HIDE DEF w
<1>8. Walk(w, PrefillStep, FlashTail, n, m, e) /\ e <= n
  BY <1>3, <1>5, <1>7
<1> QED BY <1>1, <1>7, <1>8, CutsChunks DEF n, m

LEMMA CutsChunk ==
  ASSUME FlashInv, CutsInv, F!PrefillChunk
  PROVE  CutsInv'
<1> DEFINE x == F!AtMost(PrefillStep, F!Left - PrefillStep)
           w == <<x>>
           n == Len(prompt) - gen.reused
           m == F!Done - gen.reused
           s == PrefillStep
<1>1. /\ st = "prefill" /\ F!Left > s /\ st' = st /\ prompt' = prompt
      /\ gen' = [F!Run(gen, w, w) EXCEPT !.cps = F!Checkpointed(@, F!Run(gen, w, w).c)]
  BY DEF F!PrefillChunk, F!ByChunk
<1>2. s \in Nat \ {0} /\ FlashTail \in Nat /\ FlashTail < s
  BY FlashSizes
<1>3. n \in Nat /\ m \in Nat /\ F!Left = n - m /\ (s < F!Left => \E i \in Nat : m = i * s)
  BY <1>1, CutsState
<1> HIDE DEF n, m, s
<1>4. s < n - m
  BY <1>1, <1>2, <1>3
<1>5. PICK j \in Nat : m = j * s
  BY <1>3, <1>4
<1>6. x = IF s < n - m - s THEN s ELSE n - m - s
  <2>1. x = W!AtMost(s, n - m - s)
    BY <1>3, FlashOps DEF s
  <2> QED BY <2>1 DEF W!AtMost
<1> HIDE DEF x
<1> DEFINE e == m + x
<1>7. /\ x \in Nat \ {0} /\ e \in Nat /\ e <= n /\ NextBoundary(s, FlashTail, n, m, e)
      /\ s < n - e => \E i \in Nat : e = i * s
  <2>1. CASE s < n - m - s
    <3>1. x = s /\ e = m + s /\ e \in Nat /\ e <= n /\ m + 2 * s <= n
      BY <1>2, <1>3, <1>6, <2>1
    <3>2. NextBoundary(s, FlashTail, n, j * s, j * s + s)
      <4>1. j * s + 2 * s <= n
        BY <1>5, <3>1
      <4> QED BY <1>2, <1>3, <4>1, NextWhole
    <3>3. e = (j + 1) * s /\ j + 1 \in Nat
      BY <1>2, <1>5, <3>1
    <3>4. NextBoundary(s, FlashTail, n, m, e)
      BY <1>5, <3>1, <3>2
    <3> HIDE DEF e
    <3> QED BY <1>2, <3>1, <3>3, <3>4
  <2>2. CASE ~(s < n - m - s)
    <3>1. x = n - m - s /\ x \in Nat \ {0} /\ e = n - s /\ e \in Nat /\ e <= n /\ ~(s < n - e)
      BY <1>2, <1>3, <1>4, <1>6, <2>2
    <3>2. CASE n - m < 2 * s
      <4>1. s < n - j * s /\ n - j * s < 2 * s
        BY <1>4, <1>5, <3>2
      <4>2. NextBoundary(s, FlashTail, n, j * s, n - s)
        BY <1>2, <1>3, <4>1, NextOdd
      <4>3. NextBoundary(s, FlashTail, n, m, e)
        BY <1>5, <3>1, <4>2
      <4> QED BY <3>1, <4>3
    <3>3. CASE ~(n - m < 2 * s)
      <4>1. m + 2 * s <= n /\ e = m + s
        BY <1>2, <1>3, <2>2, <3>1, <3>3
      <4>2. j * s + 2 * s <= n
        BY <1>5, <4>1
      <4>3. NextBoundary(s, FlashTail, n, j * s, j * s + s)
        BY <1>2, <1>3, <4>2, NextWhole
      <4>4. NextBoundary(s, FlashTail, n, m, e)
        BY <1>5, <4>1, <4>3
      <4> QED BY <3>1, <4>4
    <3> QED BY <3>2, <3>3
  <2> QED BY <2>1, <2>2
<1>8. Walk(w, s, FlashTail, n, m, e) /\ w # <<>>
  <2>1. Walk(<<>>, s, FlashTail, n, m, m)
    BY <1>3, WalkNone
  <2>2. Append(<<>>, x) = w
    OBVIOUS
  <2> HIDE DEF w
  <2>3. Walk(Append(<<>>, x), s, FlashTail, n, m, m + x) /\ Append(<<>>, x) # <<>>
    BY <1>7, <2>1, WalkAppend
  <2> QED BY <2>2, <2>3
<1> HIDE DEF w, e
<1> QED BY <1>1, <1>7, <1>8, CutsChunks DEF n, m, s

(* One more boundary.                                                      *)
LEMMA CutOnce ==
  ASSUME NEW c \in Seq(Int), NEW s, NEW t, NEW n, NEW r \in Nat, NEW m \in Nat, NEW y \in Nat,
         CutTo(c, s, t, n, m, r), NextBoundary(s, t, n, m, y)
  PROVE  CutTo(Append(c, r + y), s, t, n, y, r) /\ Append(c, r + y) \in Seq(Int)
<1> DEFINE b == [k \in 0..1 |-> IF k = 0 THEN m ELSE y]
           e == [k \in 1..1 |-> r + b[k]]
<1>1. b \in [0..1 -> Nat] /\ b[0] = m /\ b[1] = y
  OBVIOUS
<1>2. e = <<r + y>>
  BY <1>1
<1> HIDE DEF b
<1>3. Strides(b, 1, s, t, n)
  BY <1>1 DEF Strides
<1>4. CutTo(c, s, t, n, b[0], r) /\ r \in Int
  BY <1>1
<1>5. CutTo(c \o e, s, t, n, b[1], r)
  BY <1>3, <1>4, CutWalks
<1> HIDE DEF e
<1>6. r + y \in Int
  OBVIOUS
<1>7. c \o <<r + y>> = Append(c, r + y) /\ Append(c, r + y) \in Seq(Int)
  BY <1>6, AppendIsConcat, AppendFacts
<1> QED BY <1>1, <1>2, <1>5, <1>7

LEMMA CutsLast ==
  ASSUME FlashInv, CutsInv, F!PrefillLast
  PROVE  CutsInv'
<1> DEFINE s == PrefillStep
           l == F!Left
           head == IF l > FlashTail THEN l - FlashTail ELSE 0
           run == F!Run(gen, <<head>>, <<>>)
           split == IF head = 0 THEN gen ELSE [run EXCEPT !.cps = F!Checkpointed(@, run.c)]
           n == Len(prompt) - gen.reused
           m == F!Done - gen.reused
           r == gen.reused
<1>1. st = "prefill" /\ l <= s /\ st' = "first" /\ prompt' = prompt
  BY DEF F!PrefillLast, F!ByChunk
<1>2. /\ r \in Nat /\ n \in Nat /\ m \in Nat /\ m < n /\ l = n - m /\ Len(prompt) = r + n
      /\ gen.cuts \in Seq(Int) /\ CutTo(gen.cuts, s, FlashTail, n, m, r)
  BY <1>1, CutsState
<1>3. s \in Nat \ {0} /\ FlashTail \in Nat \ {0} /\ FlashTail < s
  BY FlashSizes
<1>4. gen \in FlashCalls
  BY <1>1, PrefillState
<1> DEFINE y == IF head = 0 THEN m ELSE n - FlashTail
<1>5. /\ split \in FlashCalls /\ split.reused = r /\ y \in Nat
      /\ CutTo(split.cuts, s, FlashTail, n, y, r) /\ NextBoundary(s, FlashTail, n, y, n)
  <2>1. CASE l > FlashTail
    <3>1. head = l - FlashTail /\ head # 0
      BY <1>2, <1>3, <2>1
    <3>2. y = n - FlashTail
      BY <3>1
    <3>3. split = [run EXCEPT !.cps = F!Checkpointed(@, run.c)]
      BY <3>1
    <3> HIDE DEF split, run, y, head, n, m, r, l
    <3> DEFINE e == m + head
    <3>4. /\ head \in Nat \ {0} /\ e = n - FlashTail /\ e \in Nat /\ e <= n
          /\ FlashTail < n - m /\ n - m <= s /\ e < n /\ n - e <= FlashTail
      <4>1. l = n - m /\ m < n /\ l <= s /\ FlashTail < l /\ head = l - FlashTail
        BY <1>1, <1>2, <1>3, <2>1, <3>1
      <4> QED BY <1>2, <1>3, <4>1
    <3>5. NextBoundary(s, FlashTail, n, m, n - FlashTail)
      BY <1>2, <1>3, <3>4, NextTail
    <3>6. NextBoundary(s, FlashTail, n, e, n)
      BY <1>2, <1>3, <3>4, NextEnd
    <3>7. Walk(<<head>>, s, FlashTail, n, m, e) /\ <<head>> # <<>>
      <4>1. Walk(<<>>, s, FlashTail, n, m, m)
        BY <1>2, WalkNone
      <4>2. NextBoundary(s, FlashTail, n, m, m + head)
        BY <3>4, <3>5
      <4>3. Walk(Append(<<>>, head), s, FlashTail, n, m, m + head)
        BY <3>4, <4>1, <4>2, WalkAppend
      <4>4. Append(<<>>, head) = <<head>> /\ <<head>> # <<>>
        OBVIOUS
      <4> QED BY <4>3, <4>4
    <3> HIDE DEF e
    <3>8. <<>> \in Seq(Int)
      BY EmptyList
    <3>9. run \in FlashCalls /\ run.reused = r /\ CutTo(run.cuts, s, FlashTail, n, e, r)
      BY <1>1, <3>4, <3>7, <3>8, CutsRun DEF run, n, m, r, s
    <3>10. split.cuts = run.cuts /\ split.reused = r
      BY <3>3, <3>9 DEF FlashCalls
    <3>11. split \in FlashCalls
      BY <1>1, SplitFacts DEF split, run, head, l
    <3> QED BY <3>2, <3>4, <3>6, <3>9, <3>10, <3>11
  <2>2. CASE ~(l > FlashTail)
    <3>1. head = 0
      BY <2>2
    <3> HIDE DEF head
    <3>2. split = gen /\ y = m
      BY <3>1
    <3>3. n - m <= FlashTail
      BY <1>2, <1>3, <2>2
    <3> HIDE DEF split, y, n, m
    <3>4. NextBoundary(s, FlashTail, n, m, n)
      BY <1>2, <1>3, <3>3, NextEnd
    <3> QED BY <1>2, <1>4, <3>2, <3>4
  <2> QED BY <2>1, <2>2
<1>6. gen'.cuts = Append(split.cuts, Len(prompt)) /\ gen'.reused = split.reused
  <2>1. \E c, cps, h, mtp, tail :
          gen' = [split EXCEPT !.c = c, !.cps = cps, !.kept = <<>>, !.cuts = Append(@, Len(prompt)),
                               !.h = h, !.mtp = mtp, !.tail = tail]
    BY DEF F!PrefillLast
  <2> HIDE DEF split
  <2> QED BY <1>5, <2>1 DEF FlashCalls
<1>7. split.cuts \in Seq(Int)
  BY <1>5 DEF FlashCalls
<1> HIDE DEF split, y
<1>8. CutTo(Append(split.cuts, r + n), s, FlashTail, n, n, r)
  BY <1>2, <1>5, <1>7, CutOnce
<1> HIDE DEF n, r, s, l
<1>9. n \in Nat /\ CutTo(gen'.cuts, s, FlashTail, n, n, r) /\ gen'.reused = r
  BY <1>2, <1>5, <1>6, <1>8
<1>10. Len(prompt') - gen'.reused = n
  BY <1>1, <1>9 DEF n, r
<1> QED BY <1>1, <1>9, <1>10 DEF CutsInv, CutsOf, s

LEMMA CutsStep ==
  ASSUME FlashInv, CutsInv, F!Next
  PROVE  CutsInv'
<1>1. CASE F!Begin
  BY <1>1, CutsBegin
<1>2. CASE F!PrefillGroup
  BY <1>2, CutsGroup
<1>3. CASE F!PrefillChunk
  BY <1>3, CutsChunk
<1>4. CASE F!PrefillLast
  BY <1>4, CutsLast
<1>5. CASE F!Rewind \/ F!FirstToken \/ F!Draft \/ F!Submit \/ F!Settle \/ F!Publish \/ F!Fail
  <2>1. st' \notin {"prefill", "first"}
    BY <1>5 DEF F!Rewind, F!FirstToken, F!Draft, F!Submit, F!Settle, F!Publish, F!Fail
  <2> QED BY <2>1, CutsElsewhere
<1> QED BY <1>1, <1>2, <1>3, <1>4, <1>5 DEF F!Next

LEMMA FlashOrders ==
  \A T : F!InOrder(T) = InOrder(T)
BY DEF F!InOrder, InOrder, F!Nth, Nth, F!Below, Below, F!Cardinality, Cardinality

LEMMA CutsGood ==
  ASSUME FlashInv, CutsInv
  PROVE  F!GridKept
<1> SUFFICES ASSUME st = "first", gen.cuts # <<>>
             PROVE  F!GridKept
  BY DEF F!GridKept
<1> DEFINE r == gen.reused
           n == Len(prompt) - r
           s == PrefillStep
           t == FlashTail
           m == F!AtMost(n, s)
           grid == {k * s : k \in 1..((n - s) \div s)} \union {n} \union (IF n > s THEN {n - s} ELSE {})
           tail == IF m > t THEN {n - t} ELSE {}
<1>1. n \in Nat /\ CutTo(gen.cuts, s, t, n, n, r)
  BY DEF CutsInv, CutsOf
<1>2. gen.cuts \in Seq(Int)
  BY DEF FlashInv, FlashType, FlashCalls
<1>3. s \in Nat \ {0} /\ t \in Nat /\ t < s
  BY FlashSizes
<1> HIDE DEF n, s, t, r
<1>4. m \in Nat /\ m = IF s < n THEN s ELSE n
  <2>1. m = W!AtMost(n, s)
    BY FlashOps
  <2> QED BY <1>1, <1>3, <2>1 DEF W!AtMost
<1> HIDE DEF m
<1>5. grid \union tail = ByChunks(s, t, n, m)
  BY DEF ByChunks
<1> HIDE DEF grid, tail
<1>6. Boundaries(s, t, n, n) = grid \union tail
  <2>1. n \in Nat /\ s \in Nat \ {0} /\ t \in Nat /\ t < s
    BY <1>1, <1>3
  <2>2. Boundaries(s, t, n, n) = ByChunks(s, t, n, m)
    BY <1>4, <2>1, BoundariesCounted
  <2> QED BY <1>5, <2>2
<1>7. gen.cuts = InOrder({r + k : k \in Boundaries(s, t, n, n)})
  BY <1>1, <1>2, CutInOrder
<1>8. gen.cuts = F!InOrder({r + k : k \in grid \union tail})
  <2> DEFINE all == grid \union tail
             ends == {r + k : k \in all}
  <2>1. gen.cuts = InOrder(ends)
    BY <1>6, <1>7
  <2> HIDE DEF ends
  <2>2. F!InOrder(ends) = InOrder(ends)
    BY FlashOrders
  <2>3. gen.cuts = F!InOrder(ends)
    BY <2>1, <2>2
  <2> QED BY <2>3 DEF ends
<1> QED BY <1>8 DEF F!GridKept, n, s, t, r, m, grid, tail

(***************************************************************************)
(* Whichever runner serves                                                 *)
(***************************************************************************)
RunnersInv ==
  /\ runner \in {"spec", "flash", "lookup", "gemma"}
  /\ runner = "spec" => SpecInv
  /\ runner = "flash" => FlashInv
  /\ runner = "lookup" => LookupInv
  /\ runner = "gemma" => GemmaInv

(* A runner keeps the size of its windows.                                 *)
LEMMA WindowKept == (L!Next => knobs' = knobs) /\ (G!Next => knobs' = knobs)
<1>1. L!Next => knobs' = knobs
  BY DEF L!Next, L!Rewind, L!Begin, L!PrefillChunk, L!PrefillDone, L!Round, L!Publish, L!Fail
<1>2. G!Next => knobs' = knobs
  BY DEF G!Next, G!Rewind, G!Begin, G!PrefillChunk, G!FirstToken, G!Round, G!Publish, G!Fail
<1> QED BY <1>1, <1>2

LEMMA NothingHappens ==
  ASSUME RunnersInv, UNCHANGED vars
  PROVE  RunnersInv'
<1>1. UNCHANGED <<runner, knobs, mode, sess, st, prompt, budget, out, gen>>
  BY DEF vars
<1>2. Said' = Said /\ SpecFed' = SpecFed /\ SpecDone' = SpecDone /\ SpecMore' = SpecMore
      /\ GemmaMore' = GemmaMore /\ LookupMore' = LookupMore /\ F!Done' = F!Done
  BY <1>1 DEF Said, SpecFed, SpecDone, SpecMore, GemmaMore, LookupMore, F!Done
<1>3. SpecInv => SpecInv'
  <2>1. SpecType => SpecType'
    BY <1>1 DEF SpecType, SpecSession
  <2>2. SpecCaches' = SpecCaches /\ SpecSaid' = SpecSaid
    BY <1>1, <1>2 DEF SpecCaches, SpecSaid
  <2>3. SpecPrefilling => SpecPrefilling'
    BY <1>1, <1>2 DEF SpecPrefilling
  <2>4. SpecDecoding => SpecDecoding'
    BY <1>1, <1>2, <2>2 DEF SpecDecoding
  <2>5. SpecVerifying => SpecVerifying'
    BY <1>1, <1>2, <2>2 DEF SpecVerifying, SpecRows
  <2> QED BY <2>1, <2>3, <2>4, <2>5 DEF SpecInv
<1>4. FlashInv => FlashInv'
  <2>1. FlashType => FlashType'
    BY <1>1 DEF FlashType
  <2>2. FlashMarked' = FlashMarked
    BY <1>1 DEF FlashMarked
  <2>3. FlashPrefilling => FlashPrefilling'
    BY <1>1, <1>2 DEF FlashPrefilling
  <2>4. FlashFirst => FlashFirst'
    BY <1>1, <2>2 DEF FlashFirst
  <2>5. FlashDecoding => FlashDecoding'
    BY <1>1, <1>2, <2>2 DEF FlashDecoding
  <2>6. RoundAlone => RoundAlone'
    BY <1>1, <1>2 DEF RoundAlone, F!Presync, F!Top
  <2>7. RoundAhead => RoundAhead'
    BY <1>1, <1>2 DEF RoundAhead, F!Top
  <2>8. FlashVerifying => FlashVerifying'
    BY <1>1, <1>2, <2>2, <2>6, <2>7 DEF FlashVerifying
  <2>9. FlashEnded => FlashEnded'
    BY <1>1, <1>2, <2>2 DEF FlashEnded
  <2> QED BY <2>1, <2>3, <2>4, <2>5, <2>8, <2>9 DEF FlashInv
<1>5. LookupInv => LookupInv'
  BY <1>1, <1>2 DEF LookupInv, WindowType, LookupPrefilling, LookupDecoding
<1>6. GemmaInv => GemmaInv'
  BY <1>1, <1>2 DEF GemmaInv, WindowType, GemmaPrefilling, GemmaDecoding
<1> QED BY <1>1, <1>3, <1>4, <1>5, <1>6 DEF RunnersInv

LEMMA RunnersInit == Init => RunnersInv /\ Plain!Init
<1> SUFFICES ASSUME Init PROVE RunnersInv /\ Plain!Init
  OBVIOUS
<1>1. CASE runner = "spec" /\ knobs = 0 /\ S!Init
  BY <1>1, SpecInit DEF RunnersInv
<1>2. CASE runner = "flash" /\ mode = TRUE /\ F!Init
  BY <1>2, FlashInit DEF RunnersInv
<1>3. CASE runner = "lookup" /\ mode = TRUE /\ knobs \in Windows /\ L!Init
  <2>1. knobs \in Nat \ {0, 1}
    BY <1>3, WindowsAssumption
  <2>2. LookupInv
    BY <1>3, <2>1, LookupInit
  <2>3. Plain!Init
    BY <1>3 DEF L!Init, Plain!Init
  <2> QED BY <1>3, <2>2, <2>3 DEF RunnersInv
<1>4. CASE runner = "gemma" /\ mode = TRUE /\ knobs \in Windows /\ G!Init
  <2>1. knobs \in Nat \ {0, 1}
    BY <1>4, WindowsAssumption
  <2>2. GemmaInv
    BY <1>4, <2>1, GemmaInit
  <2>3. Plain!Init
    BY <1>4 DEF G!Init, Plain!Init
  <2> QED BY <1>4, <2>2, <2>3 DEF RunnersInv
<1> QED BY <1>1, <1>2, <1>3, <1>4 DEF Init

LEMMA RunnersStep ==
  ASSUME Speaks, RunnersInv, [Next]_vars
  PROVE  RunnersInv' /\ (Plain!Next \/ UNCHANGED <<prompt, budget, out>>)
<1>1. CASE Generic
  BY <1>1, SpecStep DEF Generic, RunnersInv
<1>2. CASE Flash
  BY <1>2, FlashStep DEF Flash, RunnersInv
<1>3. CASE Lookup
  <2>1. LookupInv /\ L!Next /\ knobs' = knobs /\ runner' = "lookup"
    BY <1>3, WindowKept DEF Lookup, RunnersInv
  <2>2. LookupInv' /\ (Plain!Next \/ UNCHANGED <<prompt, budget, out>>)
    BY <2>1, LookupStep
  <2> QED BY <2>1, <2>2 DEF RunnersInv
<1>4. CASE Gemma
  <2>1. GemmaInv /\ G!Next /\ knobs' = knobs /\ runner' = "gemma"
    BY <1>4, WindowKept DEF Gemma, RunnersInv
  <2>2. GemmaInv' /\ (Plain!Next \/ UNCHANGED <<prompt, budget, out>>)
    BY <2>1, GemmaStep
  <2> QED BY <2>1, <2>2 DEF RunnersInv
<1>5. CASE UNCHANGED vars
  <2>1. RunnersInv'
    BY <1>5, NothingHappens
  <2> QED BY <1>5, <2>1 DEF vars
<1> QED BY <1>1, <1>2, <1>3, <1>4, <1>5 DEF Next

(* Whichever runner serves, and whatever is drafted, guessed ahead, reused,*)
(* restored, rolled back or given up, between two rounds every cache of a  *)
(* call, and of the session a call leaves, stands for exactly the tokens   *)
(* it is said to stand for (spec_flash.py:1294-1296 and 1640-1643), for    *)
(* any prompts, sizes and settings, and any model that always has a next   *)
(* token to say.                                                           *)
THEOREM CachesFollowHolds == ASSUME Speaks PROVE Spec => []CachesFollow
<1>1. Init => RunnersInv
  BY RunnersInit
<1>2. RunnersInv /\ [Next]_vars => RunnersInv'
  BY RunnersStep
<1>3. RunnersInv => CachesFollow
  <2> SUFFICES ASSUME RunnersInv PROVE CachesFollow
    OBVIOUS
  <2>1. CASE runner = "spec"
    <3>1. S!CachesFollow
      BY <2>1, SpecGood DEF RunnersInv
    <3> QED BY <2>1, <3>1 DEF CachesFollow
  <2>2. CASE runner = "flash"
    <3>1. F!CachesFollow
      BY <2>2, FlashGood DEF RunnersInv
    <3> QED BY <2>2, <3>1 DEF CachesFollow
  <2>3. CASE runner = "lookup"
    <3>1. L!LookupFollows
      BY <2>3, LookupGood DEF RunnersInv
    <3> QED BY <2>3, <3>1 DEF CachesFollow
  <2>4. CASE runner = "gemma"
    <3>1. G!GemmaFollows
      BY <2>4, GemmaGood DEF RunnersInv
    <3> QED BY <2>4, <3>1 DEF CachesFollow
  <2> QED BY <2>1, <2>2, <2>3, <2>4 DEF RunnersInv
<1> QED BY <1>1, <1>2, <1>3, PTL DEF Spec

(* Speculation is lossless: every behaviour of every runner is one of      *)
(* PlainDecode, which adds to the answer only tokens the model may say     *)
(* next, up to max_tokens and the first end (spec.py:1132-1164,            *)
(* spec_flash.py:1963-1967).                                               *)
THEOREM LosslessHolds == ASSUME Speaks PROVE Spec => Lossless
<1>1. Init => RunnersInv /\ Plain!Init
  BY RunnersInit
<1>2. RunnersInv /\ [Next]_vars => RunnersInv' /\ [Plain!Next]_<<prompt, budget, out>>
  BY RunnersStep
<1> QED BY <1>1, <1>2, PTL DEF Spec, Lossless, Plain!Spec

(* The suffix automaton of the lookup runner is that of what was said and  *)
(* knows the longest repeat of it, where it occurred, and the one any next *)
(* token would make, whatever states were split under the cursor           *)
(* (sam.py:73-80, 160-172), for any tokens and any history.                *)
THEOREM MatchesGenuineHolds == ASSUME Speaks PROVE Spec => []MatchesGenuine
<1>1. Init => RunnersInv
  BY RunnersInit
<1>2. RunnersInv /\ [Next]_vars => RunnersInv'
  BY RunnersStep
<1>3. RunnersInv => MatchesGenuine
  BY LookupMatches DEF RunnersInv, MatchesGenuine
<1> QED BY <1>1, <1>2, <1>3, PTL DEF Spec

(* The chunks of a Flash-Next prefill are those of the plain one, whether  *)
(* or not groups of them are run layer by layer and wherever a reused      *)
(* session stops: no prompt length moves a boundary, and with it the       *)
(* rounding of an answer (spec_flash.py:2268-2269).                        *)
THEOREM GridKeptHolds == ASSUME Speaks PROVE Spec => []GridKept
<1> DEFINE Inv == RunnersInv /\ (runner = "flash" => CutsInv)
<1>1. Init => Inv
  <2> SUFFICES ASSUME Init PROVE Inv
    OBVIOUS
  <2>1. runner = "flash" => st = "idle"
    BY DEF Init, F!Init
  <2> QED BY <2>1, RunnersInit DEF CutsInv, CutsOf
<1>2. Inv /\ [Next]_vars => Inv'
  <2> SUFFICES ASSUME Inv, [Next]_vars PROVE Inv'
    OBVIOUS
  <2>1. RunnersInv'
    BY RunnersStep
  <2>2. runner' = "flash" => CutsInv'
    <3>1. CASE Flash
      BY <3>1, CutsStep DEF Flash, RunnersInv
    <3>2. CASE Generic \/ Lookup \/ Gemma
      BY <3>2 DEF Generic, Lookup, Gemma
    <3>3. CASE UNCHANGED vars
      BY <3>3 DEF vars, CutsInv
    <3> QED BY <3>1, <3>2, <3>3 DEF Next
  <2> QED BY <2>1, <2>2
<1>3. Inv => GridKept
  BY CutsGood DEF RunnersInv, GridKept
<1> QED BY <1>1, <1>2, <1>3, PTL DEF Spec

(***************************************************************************)
(***************************************************************************)
(* The row cache of the streamed n-gram embeddings                         *)
(***************************************************************************)
(***************************************************************************)

(* A slot that the index names holds its row, in every generation.           *)
IndexSound(x) ==
  \A r \in Rows : x.idx[r] # None => x.idx[r] <= x.n /\ x.buf[x.idx[r]] = r

Indexed(g) == IndexSound(heap[g])

(* Who writes has the lock, and the slot after the last one has the row that *)
(* is to be published.                                                       *)
WriterSound(t) ==
  /\ th[t].pc \in {"fill", "publish"} => lock = t
  /\ th[t].pc \in {"select", "fill", "publish"} => th[t].gen \in Gens
  /\ th[t].pc = "publish" =>
       /\ th[t].put # <<>> /\ heap[th[t].gen].n < Cap
       /\ heap[th[t].gen].buf[heap[th[t].gen].n + 1] = Head(th[t].put)

Answer(x) == x.op = "call"
Reading(x) == x.pc \in {"look", "copy", "pread"}

(* Of the rows looked up so far each one is in its place or noted as missing. *)
LookedUp(x) ==
  /\ Answer(x) /\ DOMAIN x.out = DOMAIN x.rows
  /\ \A i \in DOMAIN x.miss : x.miss[i] \in DOMAIN x.rows
  /\ \A i \in DOMAIN x.rows :
       x.pc = "pread" \/ i < x.at => (\E j \in DOMAIN x.miss : x.miss[j] = i) \/ x.out[i] = x.rows[i]

(* The slot to be copied has the row.                                        *)
SlotSound(x) ==
  /\ x.at \in DOMAIN x.rows
  /\ x.slot \in 1..heap[x.gen].n
  /\ heap[x.gen].buf[x.slot] = x.rows[x.at]

ReaderSound ==
  LET x == th[Mlx]
  IN  /\ Reading(x) => LookedUp(x)
      /\ x.pc \in {"look", "copy"} => x.gen \in Gens
      /\ x.pc = "copy" => SlotSound(x)
      /\ Answer(x) /\ ~Reading(x) => x.out = x.rows
      /\ x.pc = "lock" => cur # None
      /\ x.op # "raised"

IInv ==
  /\ TypeOK
  /\ \A g \in Gens : Indexed(g)
  /\ \A t \in Threads : WriterSound(t)
  /\ ReaderSound

(***************************************************************************)
(* Generations                                                             *)
(***************************************************************************)
LEMMA Names ==
  /\ Mlx \in Threads /\ NoLock \notin Threads /\ Cap \in Nat \ {0} /\ Junk \notin Rows
  /\ IsFiniteSet(Threads) /\ Cardinality(Threads) \in Nat
  /\ Gens = 1..(Cardinality(Threads) + 2) /\ None \notin Gens /\ None \in 0..Cap
<1>1. Mlx \in Threads /\ NoLock \notin Threads /\ Cap \in Nat \ {0} /\ Junk \notin Rows
  BY NamesAssumption, CapAssumption DEF Threads
<1>2. IsFiniteSet(Threads) /\ Cardinality(Threads) \in Nat
  BY ThreadsAssumption, FS_AddElement, FS_CardinalityType DEF Threads
<1> QED BY <1>1, <1>2 DEF Gens, None

LEMMA BlankSound == Blank \in Generation /\ IndexSound(Blank)
<1>1. Blank \in Generation
  BY Names DEF Blank, Generation
<1>2. IndexSound(Blank)
  BY DEF Blank, IndexSound
<1> QED BY <1>1, <1>2

(* There is always a name for a new generation: one more than what the       *)
(* threads and _cache_gen can refer to.                                     *)
LEMMA FreeGenFacts ==
  ASSUME TypeOK
  PROVE  FreeGen \in Gens /\ FreeGen # None /\ FreeGen # cur /\ \A t \in Threads : th[t].gen # FreeGen
<1> DEFINE used == {th[t].gen : t \in Threads}
           names == used \cup {cur}
<1>1. IsFiniteSet(used) /\ Cardinality(used) <= Cardinality(Threads)
  <2> DEFINE f == [t \in Threads |-> th[t].gen]
  <2>1. f \in Surjection(Threads, used)
    BY DEF Surjection
  <2> QED BY <2>1, Names, FS_Surjection
<1>2. /\ IsFiniteSet(names) /\ Cardinality(names) \in Nat
      /\ Cardinality(names) <= Cardinality(Threads) + 1
  <2>1. Cardinality(used) \in Nat
    BY <1>1, FS_CardinalityType
  <2> HIDE DEF used
  <2>2. /\ IsFiniteSet(names)
        /\ Cardinality(names) = IF cur \in used THEN Cardinality(used) ELSE Cardinality(used) + 1
    BY <1>1, FS_AddElement
  <2>3. Cardinality(Threads) \in Nat
    BY Names
  <2> HIDE DEF names
  <2> QED BY <1>1, <2>1, <2>2, <2>3
<1>3. Cardinality(Gens) = Cardinality(Threads) + 2
  <2> DEFINE n == Cardinality(Threads) + 2
  <2>1. n \in Nat /\ 1 \in Int /\ n \in Int /\ n >= 2
    BY Names
  <2> HIDE DEF n
  <2>2. Cardinality(1..n) = IF 1 > n THEN 0 ELSE n - 1 + 1
    BY <2>1, FS_Interval
  <2>3. Cardinality(1..n) = n
    BY <2>1, <2>2
  <2> QED BY <2>3, Names DEF n
<1>4. ~(Gens \subseteq names)
  <2> HIDE DEF names
  <2> SUFFICES ASSUME Gens \in SUBSET names PROVE FALSE
    OBVIOUS
  <2>1. Cardinality(Gens) <= Cardinality(names)
    BY <1>2, FS_Subset
  <2> QED BY <1>2, <1>3, <2>1, Names
<1>5. \E g \in Gens : g # cur /\ \A t \in Threads : th[t].gen # g
  BY <1>4
<1> QED BY <1>5, Names DEF FreeGen

LEMMA CollectedFacts ==
  ASSUME NEW h \in [Gens -> Generation], heap' = Collected(h)
  PROVE  /\ heap' \in [Gens -> Generation]
         /\ \A g \in Gens : heap'[g] = h[g] \/ heap'[g] = Blank
         /\ \A g \in Gens : g = cur' => heap'[g] = h[g]
         /\ \A t \in Threads : th'[t].gen \in Gens => heap'[th'[t].gen] = h[th'[t].gen]
BY BlankSound DEF Collected

(***************************************************************************)
(* What a step leaves alone                                                *)
(***************************************************************************)
LEMMA WriterStays ==
  ASSUME IInv, NEW t \in Threads, th'[t] = th[t], lock = t => lock' = t,
         lock = t /\ th[t].gen \in Gens => heap'[th[t].gen] = heap[th[t].gen]
  PROVE  WriterSound(t)'
BY DEF IInv, WriterSound

(* The slots a generation has published keep their rows.                    *)
Keeps(x, y) == y.n >= x.n /\ \A s \in 1..x.n : y.buf[s] = x.buf[s]

LEMMA ReaderStays ==
  ASSUME IInv, th'[Mlx] = th[Mlx], th[Mlx].pc = "lock" => cur' # None,
         th[Mlx].gen \in Gens => heap'[th[Mlx].gen] \in Generation,
         th[Mlx].gen \in Gens => Keeps(heap[th[Mlx].gen], heap'[th[Mlx].gen])
  PROVE  ReaderSound'
<1> DEFINE x == th[Mlx]
<1>1. ReaderSound /\ x.gen \in Gens \cup {None} /\ heap \in [Gens -> Generation]
  BY Names DEF IInv, TypeOK, Locals
<1>2. x.pc = "copy" => SlotSound(x)'
  <2> SUFFICES ASSUME x.pc = "copy" PROVE SlotSound(x)'
    OBVIOUS
  <2>1. SlotSound(x) /\ x.gen \in Gens
    BY <1>1 DEF ReaderSound
  <2>2. heap[x.gen].n \in Nat /\ heap'[x.gen].n \in Nat
    BY <1>1, <2>1 DEF Generation
  <2>3. x' = x
    OBVIOUS
  <2> HIDE DEF x
  <2> QED BY <2>1, <2>2, <2>3 DEF SlotSound, Keeps, x
<1>3. /\ LookedUp(x) => LookedUp(x)'
      /\ x' = x
  BY DEF LookedUp, Answer
<1> QED BY <1>1, <1>2, <1>3 DEF ReaderSound, Reading, Answer

(* A step of one thread that writes no row.                                 *)
LEMMA ThreadMoves ==
  ASSUME IInv, NEW t \in Threads, NEW x \in Locals, th' = [th EXCEPT ![t] = x],
         enabled' = enabled, cur' \in Gens \cup {None}, lock' \in Threads \cup {NoLock},
         heap' = heap \/ heap' = Collected(heap),
         \A u \in Threads \ {t} : lock = u => lock' = u,
         t # Mlx /\ cur # None => cur' # None,
         TypeOK' => WriterSound(t)',
         t = Mlx /\ TypeOK' => ReaderSound'
  PROVE  IInv'
<1>1. heap \in [Gens -> Generation] /\ th \in [Threads -> Locals]
  BY DEF IInv, TypeOK
<1>2. /\ heap' \in [Gens -> Generation]
      /\ \A g \in Gens : heap'[g] = heap[g] \/ heap'[g] = Blank
      /\ \A u \in Threads : th'[u].gen \in Gens => heap'[th'[u].gen] = heap[th'[u].gen]
  BY <1>1, CollectedFacts
<1>3. TypeOK'
  BY <1>1, <1>2 DEF IInv, TypeOK
<1>4. ASSUME NEW g \in Gens PROVE Indexed(g)'
  BY <1>2, BlankSound DEF IInv, Indexed, IndexSound
<1>5. \A u \in Threads \ {t} : th'[u] = th[u]
  BY <1>1
<1>6. ASSUME NEW u \in Threads PROVE WriterSound(u)'
  <2>1. CASE u = t
    BY <1>3, <2>1
  <2>2. CASE u # t
    BY <1>2, <1>5, <2>2, WriterStays
  <2> QED BY <2>1, <2>2
<1>7. ReaderSound'
  <2>1. CASE t = Mlx
    BY <1>3, <2>1
  <2>2. CASE t # Mlx
    <3>1. th'[Mlx] = th[Mlx] /\ Mlx \in Threads
      BY <1>5, <2>2, Names
    <3>2. th[Mlx].pc = "lock" => cur' # None
      BY <2>2 DEF IInv, ReaderSound
    <3>3. th[Mlx].gen \in Gens => heap'[th[Mlx].gen] = heap[th[Mlx].gen]
      BY <1>2, <3>1
    <3>4. th[Mlx].gen \in Gens => Keeps(heap[th[Mlx].gen], heap'[th[Mlx].gen])
      BY <1>1, <3>3 DEF Keeps, Generation
    <3>5. th[Mlx].gen \in Gens => heap'[th[Mlx].gen] \in Generation
      BY <1>2
    <3> QED BY <3>1, <3>2, <3>4, <3>5, ReaderStays
  <2> QED BY <2>1, <2>2
<1> QED BY <1>3, <1>4, <1>6, <1>7 DEF IInv

(***************************************************************************)
(* A lookup                                                                *)
(***************************************************************************)
LEMMA IdleType == Idle \in Locals
  BY Names, EmptyList DEF Idle, Locals

LEMMA CallStep ==
  ASSUME IInv, NEW batch \in Batches, Call(batch) PROVE IInv'
<1> DEFINE allMiss == cur = None \/ heap[cur].n = 0
           p == IF allMiss THEN "pread" ELSE "look"
           o == [i \in DOMAIN batch |-> Junk]
           m == IF allMiss THEN [i \in DOMAIN batch |-> i] ELSE <<>>
           x == [Idle EXCEPT !.op = "call", !.rows = batch, !.gen = cur, !.out = o, !.pc = p,
                             !.miss = m]
<1>1. /\ UNCHANGED <<enabled, cur, heap, lock>> /\ th' = [th EXCEPT ![Mlx] = x]
  BY DEF Call
<1>2. batch \in Seq(Rows) /\ Len(batch) \in Nat /\ DOMAIN batch = 1..Len(batch)
  BY RowsAssumption, LenProperties
<1>3. /\ o \in Seq(Rows \cup {Junk}) /\ DOMAIN o = DOMAIN batch
      /\ m \in Seq(Nat \ {0}) /\ \A i \in DOMAIN m : m[i] \in DOMAIN batch
      /\ p = "pread" => \A i \in DOMAIN batch : i \in DOMAIN m /\ m[i] = i
      /\ p \in {"pread", "look"} /\ (p = "look" => cur \in Gens)
      /\ cur \in Gens \cup {None} /\ <<>> \in Seq(Rows) /\ None \in 0..Cap /\ 1 \in Nat \ {0}
  <2>1. o \in Seq(Rows \cup {Junk}) /\ DOMAIN o = DOMAIN batch
    BY <1>2
  <2>2. /\ m \in Seq(Nat \ {0}) /\ \A i \in DOMAIN m : m[i] \in DOMAIN batch
        /\ p = "pread" => \A i \in DOMAIN batch : i \in DOMAIN m /\ m[i] = i
    <3>1. CASE allMiss
      <4>1. m = [i \in DOMAIN batch |-> i]
        BY <3>1
      <4> HIDE DEF m
      <4> QED BY <1>2, <4>1
    <3>2. CASE ~allMiss
      <4>1. m = <<>> /\ p = "look"
        BY <3>2
      <4> HIDE DEF m
      <4> QED BY <4>1, EmptyList
    <3> QED BY <3>1, <3>2
  <2> QED BY <2>1, <2>2, Names DEF IInv, TypeOK
<1> HIDE DEF p, o, m
<1>4. /\ x.pc = p /\ x.op = "call" /\ x.gen = cur /\ x.rows = batch /\ x.out = o
      /\ x.at = 1 /\ x.miss = m
  BY DEF Idle
<1>5. x \in Locals
  BY <1>2, <1>3, IdleType DEF Locals
<1> HIDE DEF x
<1>6. th'[Mlx] = x
  BY <1>1, Names DEF IInv, TypeOK
<1>7. WriterSound(Mlx)'
  BY <1>3, <1>4, <1>6 DEF WriterSound
<1>8. ReaderSound'
  <2>1. LookedUp(x)
    <3>1. p = "look" => \A i \in DOMAIN batch : ~(i < 1)
      BY <1>2, SMTT(30)
    <3> QED BY <1>3, <1>4, <3>1 DEF LookedUp, Answer
  <2> QED BY <1>1, <1>3, <1>4, <1>6, <2>1 DEF ReaderSound, Reading, LookedUp, Answer
<1> QED BY <1>1, <1>5, <1>7, <1>8, Names, ThreadMoves DEF IInv, TypeOK

(* slot = idx.get(row) *)
LEMMA LookStep ==
  ASSUME IInv, Look PROVE IInv'
<1> DEFINE x == th[Mlx]
           slot == heap[x.gen].idx[x.rows[x.at]]
           y == IF x.at > Len(x.rows) THEN [x EXCEPT !.pc = "pread"]
                ELSE IF slot # None THEN [x EXCEPT !.pc = "copy", !.slot = slot]
                ELSE [x EXCEPT !.at = x.at + 1, !.miss = Append(x.miss, x.at)]
<1>1. /\ UNCHANGED <<enabled, cur, heap, lock>> /\ th' = [th EXCEPT ![Mlx] = y]
      /\ x.pc = "look"
  BY DEF Look, At
<1>2. /\ x \in Locals /\ LookedUp(x) /\ x.gen \in Gens /\ heap[x.gen] \in Generation
      /\ Indexed(x.gen) /\ x.op # "raised"
  BY <1>1, Names DEF IInv, TypeOK, ReaderSound, Reading
<1>3. /\ x.rows \in Seq(Rows) /\ Len(x.rows) \in Nat /\ DOMAIN x.rows = 1..Len(x.rows)
      /\ x.at \in Nat \ {0} /\ x.miss \in Seq(Nat \ {0}) /\ x.op = "call"
  BY <1>2, LenProperties DEF Locals, LookedUp, Answer
<1> SUFFICES /\ y \in Locals /\ LookedUp(y) /\ y.gen = x.gen /\ y.op = "call"
             /\ y.pc \in {"look", "copy", "pread"}
             /\ y.pc = "copy" => SlotSound(y)
  <2>1. th'[Mlx] = y
    BY <1>1, Names DEF IInv, TypeOK
  <2> HIDE DEF y
  <2>2. WriterSound(Mlx)'
    BY <2>1 DEF WriterSound
  <2>3. ReaderSound'
    BY <1>1, <1>2, <2>1 DEF ReaderSound, Reading, LookedUp, SlotSound, Answer
  <2> QED BY <1>1, <2>2, <2>3, Names, ThreadMoves DEF IInv, TypeOK
<1>4. CASE x.at > Len(x.rows)
  <2>1. y = [x EXCEPT !.pc = "pread"]
    BY <1>4
  <2> HIDE DEF y
  <2>2. /\ y \in Locals /\ y.pc = "pread" /\ y.gen = x.gen /\ y.op = x.op /\ y.rows = x.rows
        /\ y.out = x.out /\ y.miss = x.miss /\ y.at = x.at
    BY <1>2, <2>1 DEF Locals
  <2>3. \A i \in DOMAIN x.rows : i < x.at
    BY <1>3, <1>4
  <2>4. LookedUp(y)
    BY <1>2, <2>2, <2>3 DEF LookedUp, Answer
  <2> QED BY <1>3, <2>2, <2>4
<1>5. CASE ~(x.at > Len(x.rows)) /\ slot # None
  <2>1. y = [x EXCEPT !.pc = "copy", !.slot = slot]
    BY <1>5
  <2> HIDE DEF y
  <2>2. x.at \in DOMAIN x.rows /\ x.rows[x.at] \in Rows
    BY <1>3, <1>5, ElementOfSeq, SMTT(30)
  <2>3. /\ slot \in 0..Cap /\ slot # 0 /\ slot <= heap[x.gen].n
        /\ heap[x.gen].buf[slot] = x.rows[x.at] /\ heap[x.gen].n \in 0..Cap
    BY <1>2, <1>5, <2>2 DEF Indexed, IndexSound, Generation, None
  <2> HIDE DEF slot
  <2>4. /\ y \in Locals /\ y.pc = "copy" /\ y.gen = x.gen /\ y.op = x.op /\ y.rows = x.rows
        /\ y.out = x.out /\ y.miss = x.miss /\ y.at = x.at /\ y.slot = slot
    BY <1>2, <2>1, <2>3 DEF Locals
  <2>5. LookedUp(y)
    BY <1>1, <1>2, <2>4 DEF LookedUp, Answer
  <2>6. slot \in 1..heap[x.gen].n
    BY <2>3, Names
  <2>7. SlotSound(y)
    BY <2>2, <2>3, <2>4, <2>6 DEF SlotSound
  <2> QED BY <1>3, <2>4, <2>5, <2>7
<1>6. CASE ~(x.at > Len(x.rows)) /\ slot = None
  <2>1. y = [x EXCEPT !.at = x.at + 1, !.miss = Append(x.miss, x.at)]
    BY <1>6
  <2> HIDE DEF y, slot
  <2>2. x.at \in DOMAIN x.rows
    BY <1>3, <1>6
  <2> DEFINE m == Append(x.miss, x.at)
  <2>3. /\ m \in Seq(Nat \ {0}) /\ Len(x.miss) \in Nat /\ DOMAIN x.miss = 1..Len(x.miss)
        /\ DOMAIN m = 1..(Len(x.miss) + 1) /\ m[Len(x.miss) + 1] = x.at
        /\ \A j \in 1..Len(x.miss) : m[j] = x.miss[j]
    BY <1>3, AppendFacts
  <2> HIDE DEF m
  <2>4. x.at + 1 \in Nat \ {0}
    BY <1>3
  <2>5. /\ y \in Locals /\ y.pc = "look" /\ y.gen = x.gen /\ y.op = x.op /\ y.rows = x.rows
        /\ y.out = x.out /\ y.miss = m /\ y.at = x.at + 1
    BY <1>1, <1>2, <2>1, <2>3, <2>4 DEF Locals, m
  <2>6. \A j \in DOMAIN m : m[j] \in DOMAIN x.rows
    BY <1>2, <2>2, <2>3, SMTT(30) DEF LookedUp
  <2>7. ASSUME NEW i \in DOMAIN x.rows, i < x.at + 1
        PROVE  (\E j \in DOMAIN m : m[j] = i) \/ x.out[i] = x.rows[i]
    <3>1. CASE i = x.at
      BY <2>3, <3>1
    <3>2. CASE i # x.at
      <4>1. i < x.at
        BY <1>3, <2>7, <3>2
      <4>2. (\E j \in DOMAIN x.miss : x.miss[j] = i) \/ x.out[i] = x.rows[i]
        BY <1>2, <4>1 DEF LookedUp
      <4>3. DOMAIN x.miss \subseteq DOMAIN m
        BY <2>3
      <4> QED BY <2>3, <4>2, <4>3
    <3> QED BY <3>1, <3>2
  <2>8. LookedUp(y)
    BY <1>2, <2>5, <2>6, <2>7 DEF LookedUp, Answer
  <2> QED BY <1>3, <2>5, <2>8
<1> QED BY <1>4, <1>5, <1>6

(* out[i] = buf[slot] *)
LEMMA CopyStep ==
  ASSUME IInv, Copy PROVE IInv'
<1> DEFINE x == th[Mlx]
           row == heap[x.gen].buf[x.slot]
           o == [x.out EXCEPT ![x.at] = row]
           y == [x EXCEPT !.out = o, !.at = x.at + 1, !.slot = None, !.pc = "look"]
<1>1. /\ UNCHANGED <<enabled, cur, heap, lock>>
      /\ th' = [th EXCEPT ![Mlx].out[x.at] = row, ![Mlx].at = x.at + 1, ![Mlx].slot = None,
                          ![Mlx].pc = "look"]
      /\ x.pc = "copy"
  BY DEF Copy, At
<1>2. /\ x \in Locals /\ th \in [Threads -> Locals] /\ LookedUp(x) /\ x.gen \in Gens
      /\ SlotSound(x) /\ x.op # "raised"
  BY <1>1, Names, SMTT(30) DEF IInv, TypeOK, ReaderSound, Reading
<1>3. th' = [th EXCEPT ![Mlx] = y]
  BY <1>1, <1>2 DEF Locals
<1>4. /\ x.rows \in Seq(Rows) /\ Len(x.rows) \in Nat /\ DOMAIN x.rows = 1..Len(x.rows)
      /\ x.at \in DOMAIN x.rows /\ x.at \in Nat \ {0} /\ x.op = "call"
      /\ x.out \in Seq(Rows \cup {Junk}) /\ DOMAIN x.out = DOMAIN x.rows
      /\ row = x.rows[x.at] /\ row \in Rows
  BY <1>2, LenProperties, ElementOfSeq DEF Locals, LookedUp, Answer, SlotSound
<1> HIDE DEF row
<1>5. /\ o \in Seq(Rows \cup {Junk}) /\ DOMAIN o = DOMAIN x.rows
      /\ o[x.at] = row /\ \A i \in DOMAIN x.rows : i # x.at => o[i] = x.out[i]
  BY <1>4
<1> HIDE DEF o
<1>6. y \in Locals
  <2>1. x.at + 1 \in Nat \ {0} /\ None \in 0..Cap
    BY <1>4, Names
  <2> QED BY <1>2, <1>5, <2>1 DEF Locals
<1>7. /\ y.pc = "look" /\ y.gen = x.gen /\ y.op = "call" /\ y.rows = x.rows
      /\ y.out = o /\ y.miss = x.miss /\ y.at = x.at + 1
  BY <1>2, <1>4 DEF Locals
<1> HIDE DEF y
<1>8. LookedUp(y)
  <2>1. ASSUME NEW i \in DOMAIN x.rows, i < x.at + 1
        PROVE  (\E j \in DOMAIN x.miss : x.miss[j] = i) \/ o[i] = x.rows[i]
    <3>1. CASE i = x.at
      BY <1>4, <1>5, <3>1
    <3>2. CASE i # x.at
      <4>1. i < x.at
        BY <1>4, <2>1, <3>2
      <4> QED BY <1>2, <1>5, <3>2, <4>1 DEF LookedUp
    <3> QED BY <3>1, <3>2
  <2> QED BY <1>2, <1>5, <1>7, <2>1 DEF LookedUp, Answer
<1>9. th'[Mlx] = y
  BY <1>2, <1>3, Names
<1>10. WriterSound(Mlx)'
  BY <1>7, <1>9 DEF WriterSound
<1>11. ReaderSound'
  <2>1. y.pc = "look" /\ y.op = "call" /\ y.gen \in Gens
    BY <1>2, <1>7
  <2> HIDE DEF x
  <2> QED BY <1>8, <1>9, <2>1 DEF ReaderSound, Reading, LookedUp, Answer
<1> QED BY <1>1, <1>3, <1>6, <1>10, <1>11, Names, ThreadMoves DEF IInv, TypeOK

(* A thread goes where it neither looks up nor writes.                      *)
Quiet == {"idle", "ensure", "create", "select", "lock"}

LEMMA QuietMove ==
  ASSUME IInv, NEW t \in Threads, NEW x \in Locals, th' = [th EXCEPT ![t] = x],
         enabled' = enabled, cur' \in Gens \cup {None}, lock' \in Threads \cup {NoLock},
         heap' = heap \/ heap' = Collected(heap),
         \A u \in Threads \ {t} : lock = u => lock' = u,
         t # Mlx /\ cur # None => cur' # None,
         x.pc \in Quiet, x.pc = "select" => x.gen \in Gens,
         t = Mlx => /\ x.op = "call" => x.out = x.rows
                    /\ x.pc = "lock" => cur' # None
                    /\ x.op # "raised"
  PROVE  IInv'
<1>1. th'[t] = x
  BY DEF IInv, TypeOK
<1>2. WriterSound(t)'
  BY <1>1 DEF WriterSound, Quiet
<1>3. t = Mlx => ReaderSound'
  BY <1>1 DEF ReaderSound, Quiet, Reading, Answer
<1> QED BY <1>2, <1>3, ThreadMoves

(* The rows that were not there. *)
LEMMA PreadStep ==
  ASSUME IInv, Pread PROVE IInv'
<1> DEFINE x == th[Mlx]
           o == Scatter(x)
           q == [j \in DOMAIN x.miss |-> x.rows[x.miss[j]]]
           p == IF x.miss = <<>> THEN "idle" ELSE "ensure"
           y == [x EXCEPT !.out = o, !.gen = None, !.put = q, !.miss = <<>>, !.at = 1, !.pc = p]
<1>1. /\ UNCHANGED <<enabled, cur, lock>> /\ th' = [th EXCEPT ![Mlx] = y]
      /\ heap' = Collected(heap) /\ x.pc = "pread"
  BY DEF Pread, At
<1>2. x \in Locals /\ LookedUp(x) /\ x.op # "raised"
  BY <1>1, Names DEF IInv, TypeOK, ReaderSound, Reading
<1>3. /\ x.rows \in Seq(Rows) /\ Len(x.rows) \in Nat /\ DOMAIN x.rows = 1..Len(x.rows)
      /\ x.miss \in Seq(Nat \ {0}) /\ Len(x.miss) \in Nat /\ DOMAIN x.miss = 1..Len(x.miss)
      /\ \A i \in DOMAIN x.rows : x.rows[i] \in Rows
      /\ DOMAIN x.out = DOMAIN x.rows /\ \A j \in DOMAIN x.miss : x.miss[j] \in DOMAIN x.rows
  BY <1>2, LenProperties, ElementOfSeq DEF Locals, LookedUp
<1>4. o = x.rows
  <2>1. ASSUME NEW i \in DOMAIN x.rows PROVE o[i] = x.rows[i]
    <3>1. (\E j \in DOMAIN x.miss : x.miss[j] = i) \/ x.out[i] = x.rows[i]
      BY <1>1, <1>2 DEF LookedUp
    <3>2. (\E j \in DOMAIN x.miss : x.miss[j] = i) => i \in Range(x.miss)
      BY DEF Range
    <3> QED BY <1>3, <3>1, <3>2 DEF Scatter
  <2>2. DOMAIN o = DOMAIN x.rows /\ o = [i \in DOMAIN o |-> o[i]]
    BY <1>3 DEF Scatter
  <2>3. x.rows = [i \in DOMAIN x.rows |-> x.rows[i]]
    BY <1>3, SMTT(30)
  <2> HIDE DEF o, x
  <2> QED BY <2>1, <2>2, <2>3
<1>5. o \in Seq(Rows \cup {Junk}) /\ q \in Seq(Rows) /\ p \in {"idle", "ensure"}
  BY <1>3, <1>4
<1> HIDE DEF o, q, p
<1>6. y \in Locals /\ y.pc = p /\ y.op = x.op /\ y.out = o /\ y.rows = x.rows
  <2>1. <<>> \in Seq(Nat \ {0}) /\ 1 \in Nat \ {0}
    BY EmptyList
  <2>2. y \in Locals
    BY <1>2, <1>5, <2>1 DEF Locals
  <2> QED BY <1>2, <2>2 DEF Locals
<1> HIDE DEF y
<1> QED BY <1>1, <1>2, <1>4, <1>5, <1>6, Names, QuietMove DEF IInv, TypeOK, Quiet

(***************************************************************************)
(* Prefetching, and making a generation                                    *)
(***************************************************************************)
LEMMA FetchStep ==
  ASSUME IInv, NEW batch \in Batches,
         PrefetchHere(batch) \/ \E t \in Daemons : PrefetchBehind(t, batch)
  PROVE  IInv'
<1>1. batch \in Seq(Rows)
  BY RowsAssumption
<1> DEFINE x == [Idle EXCEPT !.pc = "ensure", !.op = "fetch", !.rows = batch]
<1>2. x \in Locals /\ x.pc = "ensure" /\ x.op = "fetch"
  <2>1. x \in Locals
    BY <1>1, IdleType DEF Locals
  <2> QED BY <2>1 DEF Idle
<1>3. CASE PrefetchHere(batch)
  <2>1. /\ cur' = None /\ UNCHANGED <<enabled, lock>> /\ th' = [th EXCEPT ![Mlx] = x]
        /\ heap' = Collected(heap)
    BY <1>3 DEF PrefetchHere, Fetch
  <2> HIDE DEF x
  <2> QED BY <1>2, <2>1, Names, QuietMove DEF IInv, TypeOK, Quiet
<1>4. ASSUME NEW t \in Daemons, PrefetchBehind(t, batch) PROVE IInv'
  <2>1. UNCHANGED <<enabled, cur, heap, lock>> /\ th' = [th EXCEPT ![t] = x]
    BY <1>4 DEF PrefetchBehind, Fetch
  <2>2. t \in Threads /\ t # Mlx
    BY ThreadsAssumption DEF Threads
  <2> HIDE DEF x
  <2> QED BY <1>2, <2>1, <2>2, QuietMove DEF IInv, TypeOK, Quiet
<1> QED BY <1>3, <1>4

LEMMA SelectStep ==
  ASSUME IInv, NEW t \in Threads, Select(t) PROVE IInv'
<1> DEFINE Q == {r \in Range(th[t].rows) : heap[th[t].gen].idx[r] = None}
           rows == InOrder(Q)
           y == [th[t] EXCEPT !.op = "put", !.put = rows, !.gen = None, !.pc = "ensure"]
           x == IF rows = <<>> THEN Idle ELSE y
<1>1. /\ UNCHANGED <<enabled, cur, lock>> /\ th' = [th EXCEPT ![t] = x] /\ heap' = Collected(heap)
      /\ th[t] \in Locals
  BY DEF Select, Missing, IInv, TypeOK
<1>2. rows \in Seq(Rows)
  <2>1. /\ th[t].rows \in Seq(Rows) /\ Len(th[t].rows) \in Nat
        /\ DOMAIN th[t].rows = 1..Len(th[t].rows)
    BY <1>1, LenProperties DEF Locals
  <2>2. Range(th[t].rows) \in SUBSET Rows
    BY <2>1, ElementOfSeq DEF Range
  <2>3. IsFiniteSet(Range(th[t].rows))
    <3> DEFINE f == [i \in 1..Len(th[t].rows) |-> th[t].rows[i]]
    <3>1. f \in Surjection(1..Len(th[t].rows), Range(th[t].rows))
      BY <2>1 DEF Surjection, Range
    <3>2. IsFiniteSet(1..Len(th[t].rows))
      <4> DEFINE n == Len(th[t].rows)
      <4>1. n \in Int
        BY <2>1
      <4> HIDE DEF n
      <4>2. IsFiniteSet(1..n)
        BY <4>1, FS_Interval
      <4> QED BY <4>2 DEF n
    <3> HIDE DEF f
    <3> QED BY <3>1, <3>2, FS_Surjection
  <2>4. Q \in SUBSET Range(th[t].rows)
    OBVIOUS
  <2> HIDE DEF Q
  <2>5. IsFiniteSet(Q) /\ Q \in SUBSET Int /\ Q \in SUBSET Rows
    <3>1. IsFiniteSet(Q)
      BY <2>3, <2>4, FS_Subset
    <3>2. Q \in SUBSET Rows /\ Rows \in SUBSET Int
      BY <2>2, <2>4, RowsAssumption
    <3> QED BY <3>1, <3>2
  <2>6. rows \in Seq(Q)
    BY <2>5, InOrderFacts
  <2> HIDE DEF rows
  <2>7. /\ Len(rows) \in Nat /\ rows \in [1..Len(rows) -> Q]
    BY <2>6, LenProperties
  <2>8. rows \in [1..Len(rows) -> Rows]
    BY <2>5, <2>7
  <2> QED BY <2>7, <2>8, SeqDef
<1> HIDE DEF rows
<1>3. y \in Locals /\ y.pc = "ensure" /\ y.op = "put"
  BY <1>1, <1>2 DEF Locals
<1>4. x \in Locals /\ x.pc \in {"idle", "ensure"} /\ x.op \in {"none", "put"}
  <2>1. CASE rows = <<>>
    BY <2>1, IdleType DEF Idle
  <2>2. CASE rows # <<>>
    <3>1. x = y
      BY <2>2
    <3> HIDE DEF x, y
    <3> QED BY <1>3, <3>1
  <2> QED BY <2>1, <2>2
<1> HIDE DEF x
<1> QED BY <1>1, <1>4, Names, QuietMove DEF IInv, TypeOK, Quiet

(* Whoever finds a generation goes on with it. *)
LEMMA EnsuredMove ==
  ASSUME IInv, NEW t \in Threads, ~Reading(th[t]), NEW g \in Gens \cup {None}, Ensured(t, g),
         UNCHANGED <<enabled, heap, lock>>, cur' \in Gens \cup {None}, cur # None => cur' # None,
         g # None => cur' # None
  PROVE  IInv'
<1> DEFINE z == th[t]
           x == IF g = None THEN [z EXCEPT !.pc = "idle", !.put = <<>>]
                ELSE IF z.op = "fetch" THEN [z EXCEPT !.gen = g, !.pc = "select"]
                ELSE [z EXCEPT !.pc = "lock"]
<1>1. th' = [th EXCEPT ![t] = x] /\ z \in Locals
  BY DEF Ensured, IInv, TypeOK
<1>2. /\ x \in Locals /\ x.op = z.op /\ x.out = z.out /\ x.rows = z.rows /\ x.pc \in Quiet
      /\ x.pc = "select" => x.gen \in Gens
      /\ x.pc = "lock" => g # None
  <2>1. CASE g = None
    <3>1. x = [z EXCEPT !.pc = "idle", !.put = <<>>]
      BY <2>1
    <3> HIDE DEF x
    <3> QED BY <1>1, <3>1, EmptyList DEF Locals, Quiet
  <2>2. CASE g # None /\ z.op = "fetch"
    <3>1. x = [z EXCEPT !.gen = g, !.pc = "select"]
      BY <2>2
    <3> HIDE DEF x
    <3> QED BY <1>1, <2>2, <3>1 DEF Locals, Quiet
  <2>3. CASE g # None /\ z.op # "fetch"
    <3>1. x = [z EXCEPT !.pc = "lock"]
      BY <2>3
    <3> HIDE DEF x
    <3> QED BY <1>1, <2>3, <3>1 DEF Locals, Quiet
  <2> QED BY <2>1, <2>2, <2>3
<1> HIDE DEF x
<1>3. t = Mlx => (z.op = "call" => z.out = z.rows) /\ z.op # "raised"
  BY DEF IInv, ReaderSound, Answer
<1>4. lock' \in Threads \cup {NoLock} /\ \A u \in Threads : lock = u => lock' = u
  BY DEF IInv, TypeOK
<1> QED BY <1>1, <1>2, <1>3, <1>4, QuietMove

LEMMA EnsureStep ==
  ASSUME IInv, NEW t \in Threads, Ensure(t) PROVE IInv'
<1>1. UNCHANGED <<enabled, cur, heap, lock>> /\ th[t].pc = "ensure" /\ ~Reading(th[t])
  BY DEF Ensure, At, Reading
<1>2. cur \in Gens \cup {None} /\ th[t] \in Locals
  BY DEF IInv, TypeOK
<1>3. CASE cur # None \/ ~enabled
  <2>1. Ensured(t, cur)
    BY <1>3 DEF Ensure
  <2> QED BY <1>1, <1>2, <2>1, EnsuredMove
<1>4. CASE ~(cur # None \/ ~enabled)
  <2> DEFINE x == [th[t] EXCEPT !.pc = "create"]
  <2>1. th' = [th EXCEPT ![t] = x]
    BY <1>4 DEF Ensure
  <2>2. x \in Locals /\ x.pc = "create" /\ x.op = th[t].op /\ x.out = th[t].out /\ x.rows = th[t].rows
    BY <1>2 DEF Locals
  <2>3. t = Mlx => (th[t].op = "call" => th[t].out = th[t].rows) /\ th[t].op # "raised"
    BY <1>1 DEF IInv, ReaderSound, Answer
  <2> HIDE DEF x
  <2> QED BY <1>1, <1>2, <2>1, <2>2, <2>3, QuietMove DEF IInv, TypeOK, Quiet
<1> QED BY <1>3, <1>4

LEMMA CreateStep ==
  ASSUME IInv, NEW t \in Threads, Create(t) PROVE IInv'
<1>1. UNCHANGED <<enabled, heap, lock>> /\ th[t].pc = "create" /\ ~Reading(th[t])
  BY DEF Create, At, Reading
<1>2. CASE cur # None
  <2>1. Ensured(t, cur) /\ cur' = cur
    BY <1>2 DEF Create
  <2>2. cur \in Gens \cup {None}
    BY DEF IInv, TypeOK
  <2> QED BY <1>1, <1>2, <2>1, <2>2, EnsuredMove
<1>3. CASE cur = None
  <2>1. Ensured(t, cur') /\ cur' = FreeGen
    BY <1>3 DEF Create
  <2>2. FreeGen \in Gens /\ FreeGen # None
    BY FreeGenFacts DEF IInv
  <2> QED BY <1>1, <2>1, <2>2, EnsuredMove
<1> QED BY <1>2, <1>3

(***************************************************************************)
(* _cache_put                                                              *)
(***************************************************************************)
(* Under the lock: prefetch() drops a generation in the MLX thread only, so  *)
(* that thread finds the one it has seen.                                   *)
LEMMA LockStep ==
  ASSUME IInv, NEW t \in Threads, Lock(t) PROVE IInv'
<1>1. /\ UNCHANGED <<enabled, cur, heap>> /\ th[t].pc = "lock" /\ lock = NoLock
      /\ th[t] \in Locals /\ th \in [Threads -> Locals] /\ cur \in Gens \cup {None}
  BY DEF Lock, At, IInv, TypeOK
<1>2. t = Mlx => (th[t].op = "call" => th[t].out = th[t].rows) /\ cur # None /\ th[t].op # "raised"
  BY <1>1 DEF IInv, ReaderSound, Reading, Answer
<1>3. CASE cur = None
  <2> DEFINE x == [Idle EXCEPT !.op = "raised"]
  <2>1. lock' = NoLock /\ th' = [th EXCEPT ![t] = x]
    BY <1>3 DEF Lock, FailureReleases
  <2>2. x \in Locals /\ x.pc = "idle"
    <3>1. x \in Locals
      BY IdleType DEF Locals
    <3> QED BY <3>1 DEF Idle
  <2> HIDE DEF x
  <2> QED BY <1>1, <1>2, <1>3, <2>1, <2>2, Names, QuietMove DEF Quiet
<1>4. CASE cur # None
  <2> DEFINE x == [th[t] EXCEPT !.gen = cur, !.pc = "fill"]
  <2>1. lock' = t /\ th' = [th EXCEPT ![t].gen = cur, ![t].pc = "fill"]
    BY <1>4 DEF Lock
  <2>2. th' = [th EXCEPT ![t] = x]
    BY <1>1, <2>1
  <2>3. /\ x \in Locals /\ x.pc = "fill" /\ x.gen \in Gens /\ x.op = th[t].op
        /\ x.out = th[t].out /\ x.rows = th[t].rows
    BY <1>1, <1>4 DEF Locals
  <2> HIDE DEF x
  <2>4. th'[t] = x
    BY <1>1, <2>2
  <2>5. WriterSound(t)'
    BY <2>1, <2>3, <2>4 DEF WriterSound
  <2>6. t = Mlx => ReaderSound'
    BY <1>2, <2>3, <2>4 DEF ReaderSound, Reading, Answer
  <2>7. \A u \in Threads : lock # u
    BY <1>1, Names
  <2> QED BY <1>1, <2>1, <2>2, <2>3, <2>5, <2>6, <2>7, Names, ThreadMoves
<1> QED BY <1>3, <1>4

(* A step of the thread that has the lock. *)
LEMMA WriterMoves ==
  ASSUME IInv, NEW t \in Threads, th[t].pc \in {"fill", "publish"},
         NEW x \in Locals, th' = [th EXCEPT ![t] = x],
         x.pc \in {"fill", "publish"}, x.op = th[t].op, x.out = th[t].out, x.rows = th[t].rows,
         UNCHANGED <<enabled, lock>>, cur' \in Gens \cup {None}, cur # None => cur' # None,
         heap' \in [Gens -> Generation], \A g \in Gens : IndexSound(heap'[g]),
         \A u \in Threads \ {t} : th[u].gen \in Gens => Keeps(heap[th[u].gen], heap'[th[u].gen]),
         WriterSound(t)'
  PROVE  IInv'
<1>1. lock = t /\ th \in [Threads -> Locals]
  BY DEF IInv, WriterSound, TypeOK
<1>2. TypeOK'
  BY <1>1 DEF IInv, TypeOK
<1>3. \A g \in Gens : Indexed(g)'
  BY DEF Indexed
<1>4. th'[t] = x /\ \A u \in Threads \ {t} : th'[u] = th[u]
  BY <1>1
<1>5. ASSUME NEW u \in Threads PROVE WriterSound(u)'
  <2>1. CASE u # t
    BY <1>1, <1>4, <2>1, WriterStays
  <2> QED BY <2>1
<1>6. ReaderSound'
  <2>1. CASE t = Mlx
    <3>1. (x.op = "call" => x.out = x.rows) /\ x.op # "raised"
      BY <2>1 DEF IInv, ReaderSound, Reading, Answer
    <3> QED BY <1>4, <2>1, <3>1 DEF ReaderSound, Reading, Answer
  <2>2. CASE t # Mlx
    <3>1. Mlx \in Threads /\ th'[Mlx] = th[Mlx]
      BY <1>4, <2>2, Names
    <3>2. th[Mlx].pc = "lock" => cur' # None
      BY DEF IInv, ReaderSound
    <3> QED BY <2>2, <3>1, <3>2, ReaderStays
  <2> QED BY <2>1, <2>2
<1> QED BY <1>2, <1>3, <1>5, <1>6 DEF IInv

(* A row put into the first free slot: what is published keeps its place. *)
LEMMA FilledFacts ==
  ASSUME NEW x \in Generation, NEW r \in Rows, x.n < Cap, IndexSound(x)
  PROVE  /\ Filled(x, r) \in Generation /\ IndexSound(Filled(x, r)) /\ Keeps(x, Filled(x, r))
         /\ Filled(x, r).n = x.n /\ Filled(x, r).buf[x.n + 1] = r
<1>1. x.n \in Nat /\ x.n + 1 \in 1..Cap /\ x.idx \in [Rows -> 0..Cap] /\ x.buf \in [1..Cap -> Rows \cup {Junk}]
  BY Names DEF Generation
<1> DEFINE y == Filled(x, r)
<1>2. /\ y \in Generation /\ y.idx = x.idx /\ y.n = x.n /\ y.buf[x.n + 1] = r
      /\ \A s \in 1..Cap : s # x.n + 1 => y.buf[s] = x.buf[s]
  <2>1. y.buf = [x.buf EXCEPT ![x.n + 1] = r] /\ y.idx = x.idx /\ y.n = x.n
    BY DEF Filled, Generation
  <2>2. y \in Generation
    BY <1>1 DEF Filled, Generation
  <2> QED BY <1>1, <2>1, <2>2
<1> HIDE DEF y
<1>3. \A s \in 1..x.n : s \in 1..Cap /\ s # x.n + 1
  BY <1>1, Names
<1>4. IndexSound(y)
  <2> SUFFICES ASSUME NEW q \in Rows, x.idx[q] # None
               PROVE  x.idx[q] <= x.n /\ y.buf[x.idx[q]] = q
    BY <1>2 DEF IndexSound
  <2>1. x.idx[q] <= x.n /\ x.buf[x.idx[q]] = q /\ x.idx[q] \in 0..Cap
    BY <1>1 DEF IndexSound
  <2>2. x.idx[q] \in 1..x.n
    BY <1>1, <2>1, Names DEF None
  <2> QED BY <1>2, <1>3, <2>1, <2>2
<1>5. Keeps(x, y)
  BY <1>1, <1>2, <1>3 DEF Keeps
<1> QED BY <1>2, <1>4, <1>5 DEF y

LEMMA FillStep ==
  ASSUME IInv, NEW t \in Threads, Fill(t) PROVE IInv'
<1> DEFINE z == th[t]
           g == z.gen
           r == Head(z.put)
<1>1. /\ z.pc = "fill" /\ z.put # <<>> /\ UNCHANGED <<enabled, lock>>
      /\ z \in Locals /\ th \in [Threads -> Locals] /\ heap \in [Gens -> Generation]
      /\ cur \in Gens \cup {None} /\ lock \in Threads \cup {NoLock}
  BY DEF Fill, At, IInv, TypeOK
<1>2. WriterSound(t) /\ lock = t /\ g \in Gens /\ heap[g] \in Generation /\ IndexSound(heap[g])
  BY <1>1 DEF IInv, WriterSound, Indexed
<1>3. z.put \in Seq(Rows) /\ r \in Rows /\ Tail(z.put) \in Seq(Rows)
  BY <1>1, ListParts DEF Locals
<1>4. t = Mlx => (z.op = "call" => z.out = z.rows) /\ z.op # "raised"
  BY <1>1 DEF IInv, ReaderSound, Reading, Answer
<1>5. \A h \in Gens : Keeps(heap[h], heap[h])
  BY <1>1 DEF Keeps, Generation
<1>6. CASE heap[g].idx[r] # None
  <2> DEFINE x == [z EXCEPT !.put = Tail(z.put)]
  <2>1. UNCHANGED <<cur, heap>> /\ th' = [th EXCEPT ![t].put = Tail(z.put)]
    BY <1>6 DEF Fill
  <2>2. th' = [th EXCEPT ![t] = x]
    BY <1>1, <2>1
  <2>3. /\ x \in Locals /\ x.pc = "fill" /\ x.op = z.op /\ x.out = z.out /\ x.rows = z.rows
        /\ x.gen = g
    BY <1>1, <1>3 DEF Locals
  <2> HIDE DEF x
  <2>4. th'[t] = x
    BY <1>1, <2>2
  <2>5. WriterSound(t)'
    BY <1>1, <1>2, <2>3, <2>4 DEF WriterSound
  <2> QED BY <1>1, <1>5, <2>1, <2>2, <2>3, <2>5, WriterMoves DEF IInv, Indexed
<1>7. CASE heap[g].idx[r] = None /\ ~Full(heap[g])
  <2> DEFINE x == [z EXCEPT !.pc = "publish"]
  <2>1. /\ heap' = [heap EXCEPT ![g] = Filled(heap[g], r)]
        /\ th' = [th EXCEPT ![t].pc = "publish"] /\ cur' = cur
    BY <1>7 DEF Fill
  <2>2. th' = [th EXCEPT ![t] = x]
    BY <1>1, <2>1
  <2>3. /\ x \in Locals /\ x.pc = "publish" /\ x.op = z.op /\ x.out = z.out /\ x.rows = z.rows
        /\ x.gen = g /\ x.put = z.put
    BY <1>1 DEF Locals
  <2> HIDE DEF x
  <2>4. th'[t] = x
    BY <1>1, <2>2
  <2>5. heap[g].n < Cap
    BY <1>2, <1>7, Names DEF Full, Generation
  <2> DEFINE y == Filled(heap[g], r)
  <2>6. /\ y \in Generation /\ IndexSound(y) /\ Keeps(heap[g], y)
        /\ y.n = heap[g].n /\ y.buf[heap[g].n + 1] = r
    BY <1>2, <1>3, <2>5, FilledFacts
  <2>7. heap' = [heap EXCEPT ![g] = y]
    BY <2>1
  <2> HIDE DEF y
  <2>8. heap'[g] = y /\ (\A h \in Gens : h # g => heap'[h] = heap[h]) /\ heap' \in [Gens -> Generation]
    BY <1>1, <1>2, <2>6, <2>7
  <2>9. \A h \in Gens : Keeps(heap[h], heap'[h]) /\ IndexSound(heap'[h])
    BY <1>5, <2>6, <2>8 DEF IInv, Indexed
  <2>10. WriterSound(t)'
    BY <1>1, <1>2, <2>3, <2>4, <2>5, <2>6, <2>8 DEF WriterSound
  <2> QED BY <1>1, <2>1, <2>2, <2>3, <2>8, <2>9, <2>10, WriterMoves
<1>8. CASE heap[g].idx[r] = None /\ Full(heap[g])
  <2> DEFINE f == FreeGen
             x == [z EXCEPT !.gen = f, !.pc = "publish"]
             y == Filled(Blank, r)
             h == [heap EXCEPT ![f] = y]
  <2>1. /\ cur' = FreeGen /\ th' = [th EXCEPT ![t].gen = cur', ![t].pc = "publish"]
        /\ heap' = Collected([heap EXCEPT ![cur'] = Filled(Blank, r)])
    BY <1>8 DEF Fill, Renewed
  <2>2. f \in Gens /\ f # None /\ \A u \in Threads : th[u].gen # f
    BY FreeGenFacts DEF IInv
  <2>3. th' = [th EXCEPT ![t].gen = f, ![t].pc = "publish"] /\ heap' = Collected(h) /\ cur' = f
    BY <2>1
  <2> HIDE DEF f
  <2>4. th' = [th EXCEPT ![t] = x]
    BY <1>1, <2>3
  <2>5. /\ x \in Locals /\ x.pc = "publish" /\ x.op = z.op /\ x.out = z.out /\ x.rows = z.rows
        /\ x.gen = f /\ x.put = z.put
    BY <1>1, <2>2 DEF Locals
  <2> HIDE DEF x
  <2>6. th'[t] = x /\ \A u \in Threads \ {t} : th'[u] = th[u]
    BY <1>1, <2>4
  <2>7. Blank.n = 0 /\ Blank.n < Cap
    BY Names DEF Blank
  <2>8. y \in Generation /\ IndexSound(y) /\ y.n = 0 /\ y.buf[1] = r
    BY <1>3, <2>7, BlankSound, FilledFacts
  <2> HIDE DEF y
  <2>9. h \in [Gens -> Generation] /\ h[f] = y /\ \A k \in Gens : k # f => h[k] = heap[k]
    BY <1>1, <2>2, <2>8
  <2> HIDE DEF h
  <2>10. /\ heap' \in [Gens -> Generation] /\ heap'[f] = y
         /\ \A k \in Gens : heap'[k] = h[k] \/ heap'[k] = Blank
         /\ \A u \in Threads : th'[u].gen \in Gens => heap'[th'[u].gen] = h[th'[u].gen]
    BY <2>2, <2>3, <2>9, CollectedFacts
  <2>11. \A k \in Gens : IndexSound(heap'[k])
    <3>1. \A k \in Gens : IndexSound(h[k])
      BY <2>8, <2>9 DEF IInv, Indexed
    <3> QED BY <2>10, <3>1, BlankSound
  <2>12. \A u \in Threads \ {t} : th[u].gen \in Gens => Keeps(heap[th[u].gen], heap'[th[u].gen])
    BY <1>5, <2>2, <2>6, <2>9, <2>10
  <2>13. WriterSound(t)'
    BY <1>1, <1>2, <2>2, <2>5, <2>6, <2>8, <2>10, Names DEF WriterSound
  <2> QED BY <1>1, <2>2, <2>3, <2>4, <2>5, <2>10, <2>11, <2>12, <2>13, WriterMoves
<1> QED BY <1>6, <1>7, <1>8

(* gen.idx[row] = gen.n; gen.n += 1 *)
LEMMA PublishStep ==
  ASSUME IInv, NEW t \in Threads, Publish(t) PROVE IInv'
<1> DEFINE z == th[t]
           g == z.gen
           r == Head(z.put)
           old == heap[g]
           y == [old EXCEPT !.idx[r] = old.n + 1, !.n = old.n + 1]
           x == [z EXCEPT !.pc = "fill", !.put = Tail(z.put)]
<1>1. /\ z.pc = "publish" /\ UNCHANGED <<enabled, lock, cur>>
      /\ z \in Locals /\ th \in [Threads -> Locals] /\ heap \in [Gens -> Generation]
      /\ cur \in Gens \cup {None}
      /\ heap' = [heap EXCEPT ![g] = y]
      /\ th' = [th EXCEPT ![t].pc = "fill", ![t].put = Tail(z.put)]
  <2>1. /\ z.pc = "publish" /\ UNCHANGED <<enabled, lock, cur>>
        /\ z \in Locals /\ th \in [Threads -> Locals] /\ heap \in [Gens -> Generation]
        /\ cur \in Gens \cup {None}
    BY DEF Publish, At, IInv, TypeOK
  <2>2. heap' = [heap EXCEPT ![g] = y]
    BY DEF Publish, Published
  <2>3. th' = [th EXCEPT ![t].pc = "fill", ![t].put = Tail(z.put)]
    BY DEF Publish
  <2> QED BY <2>1, <2>2, <2>3
<1>2. /\ lock = t /\ g \in Gens /\ old \in Generation /\ IndexSound(old) /\ z.put # <<>>
      /\ old.n < Cap /\ old.buf[old.n + 1] = r
  BY <1>1 DEF IInv, WriterSound, Indexed
<1>3. z.put \in Seq(Rows) /\ r \in Rows /\ Tail(z.put) \in Seq(Rows)
  BY <1>1, <1>2, ListParts DEF Locals
<1>4. th' = [th EXCEPT ![t] = x]
  BY <1>1
<1>5. /\ x \in Locals /\ x.pc = "fill" /\ x.op = z.op /\ x.out = z.out /\ x.rows = z.rows
      /\ x.gen = g
  BY <1>1, <1>3 DEF Locals
<1> HIDE DEF x
<1>6. th'[t] = x
  BY <1>1, <1>4
<1>7. /\ old.n \in Nat /\ old.n + 1 \in 0..Cap /\ old.n + 1 \in 1..Cap
      /\ old.idx \in [Rows -> 0..Cap] /\ old.buf \in [1..Cap -> Rows \cup {Junk}]
  BY <1>2, Names, SMTT(30) DEF Generation
<1> HIDE DEF r
<1>8. /\ y \in Generation /\ y.n = old.n + 1 /\ y.buf = old.buf /\ y.idx[r] = old.n + 1
      /\ \A q \in Rows : q # r => y.idx[q] = old.idx[q]
  BY <1>2, <1>3, <1>7 DEF Generation
<1> HIDE DEF y, old
<1>9. IndexSound(y)
  <2> SUFFICES ASSUME NEW q \in Rows, y.idx[q] # None
               PROVE  y.idx[q] <= y.n /\ y.buf[y.idx[q]] = q
    BY DEF IndexSound
  <2>1. CASE q = r
    BY <1>2, <1>7, <1>8, <2>1
  <2>2. CASE q # r
    <3>1. y.idx[q] = old.idx[q] /\ old.idx[q] \in 0..Cap
      BY <1>7, <1>8, <2>2
    <3>2. old.idx[q] <= old.n /\ old.buf[old.idx[q]] = q
      BY <1>2, <3>1 DEF IndexSound
    <3>3. old.idx[q] <= old.n + 1
      BY <1>7, <3>1, <3>2
    <3> QED BY <1>8, <3>1, <3>2, <3>3
  <2> QED BY <2>1, <2>2
<1>10. Keeps(old, y)
  <2>1. old.n + 1 >= old.n
    BY <1>7
  <2> QED BY <1>8, <2>1 DEF Keeps
<1>11. /\ heap' \in [Gens -> Generation] /\ heap'[g] = y
       /\ \A k \in Gens : k # g => heap'[k] = heap[k]
  BY <1>1, <1>2, <1>8
<1>12. \A k \in Gens : IndexSound(heap'[k]) /\ Keeps(heap[k], heap'[k])
  <2>1. \A k \in Gens : IndexSound(heap[k]) /\ Keeps(heap[k], heap[k])
    BY <1>1 DEF IInv, Indexed, Keeps, Generation
  <2> QED BY <1>9, <1>10, <1>11, <2>1 DEF old
<1>13. WriterSound(t)'
  BY <1>1, <1>2, <1>5, <1>6 DEF WriterSound
<1> QED BY <1>1, <1>4, <1>5, <1>11, <1>12, <1>13, WriterMoves

LEMMA PutDoneStep ==
  ASSUME IInv, NEW t \in Threads, PutDone(t) PROVE IInv'
<1> DEFINE y == [th[t] EXCEPT !.pc = "idle", !.gen = None]
           x == IF t = Mlx THEN y ELSE Idle
<1>1. /\ UNCHANGED <<enabled, cur>> /\ lock' = NoLock /\ th[t].pc = "fill"
      /\ th[t] \in Locals /\ cur \in Gens \cup {None} /\ heap' = Collected(heap)
      /\ th' = [th EXCEPT ![t] = x]
  BY DEF PutDone, At, IInv, TypeOK
<1>2. lock = t
  BY <1>1 DEF IInv, WriterSound
<1>3. /\ y \in Locals /\ y.pc = "idle" /\ y.op = th[t].op /\ y.out = th[t].out
      /\ y.rows = th[t].rows
  BY <1>1 DEF Locals
<1>4. t = Mlx => (th[t].op = "call" => th[t].out = th[t].rows) /\ th[t].op # "raised"
  BY <1>1 DEF IInv, ReaderSound, Reading, Answer
<1> HIDE DEF y
<1>5. /\ x \in Locals /\ x.pc = "idle"
      /\ t = Mlx => (x.op = "call" => x.out = x.rows) /\ x.op # "raised"
  BY <1>3, <1>4, IdleType DEF Idle
<1> HIDE DEF x
<1> QED BY <1>1, <1>2, <1>5, QuietMove DEF Quiet

(***************************************************************************)
(* The theorems                                                            *)
(***************************************************************************)
LEMMA InitSound == StreamInit => IInv
<1> SUFFICES ASSUME StreamInit PROVE IInv
  OBVIOUS
<1>1. TypeOK
  BY Names, BlankSound, IdleType DEF StreamInit, TypeOK
<1>2. \A g \in Gens : Indexed(g)
  BY BlankSound DEF StreamInit, Indexed
<1>3. \A t \in Threads : WriterSound(t)
  BY DEF StreamInit, WriterSound, Idle
<1>4. ReaderSound
  BY Names DEF StreamInit, ReaderSound, Idle, Reading, Answer
<1> QED BY <1>1, <1>2, <1>3, <1>4 DEF IInv

LEMMA StepSound == IInv /\ [StreamNext]_streamVars => IInv'
<1> SUFFICES ASSUME IInv, [StreamNext]_streamVars PROVE IInv'
  OBVIOUS
<1>1. ASSUME NEW batch \in Batches,
             \/ Call(batch) \/ PrefetchHere(batch)
             \/ \E t \in Daemons : PrefetchBehind(t, batch)
      PROVE  IInv'
  BY <1>1, CallStep, FetchStep
<1>2. CASE Look \/ Copy \/ Pread
  BY <1>2, LookStep, CopyStep, PreadStep
<1>3. ASSUME NEW t \in Threads, Work(t) PROVE IInv'
  BY <1>3, EnsureStep, CreateStep, SelectStep, LockStep, FillStep, PublishStep, PutDoneStep
     DEF Work
<1>4. CASE UNCHANGED streamVars
  BY <1>4 DEF streamVars, IInv, TypeOK, Indexed, WriterSound, ReaderSound, LookedUp, SlotSound
<1> QED BY <1>1, <1>2, <1>3, <1>4 DEF StreamNext

(* Generations, slots and locals keep their types: in particular the writers  *)
(* never put a row past the last slot.                                       *)
THEOREM TypeCorrect == StreamSpec => []TypeOK
<1>1. IInv => TypeOK
  BY DEF IInv
<1> QED BY <1>1, InitSound, StepSound, PTL DEF StreamSpec

(* A lookup returns row for row what is on disk, whichever generations its    *)
(* prefetchers replace, drop or fill under it, and it never fails on one that *)
(* is gone.                                                                  *)
THEOREM RowsFromDiskHolds == StreamSpec => []RowsFromDisk
<1>1. IInv => RowsFromDisk
  BY DEF IInv, ReaderSound, RowsFromDisk, At, Reading, Answer
<1> QED BY <1>1, InitSound, StepSound, PTL DEF StreamSpec
===============================================================================
