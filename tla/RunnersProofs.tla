---------------------------- MODULE RunnersProofs ----------------------------
(***************************************************************************)
(* Proofs about Runners, for every vocabulary, model, prompts and sizes:   *)
(* whichever runner serves, every cache stands for what it is said to, and *)
(* speculation is lossless. The model is any that says something after     *)
(* every context, in its vocabulary (Speaks).                              *)
(***************************************************************************)
EXTENDS Runners, ListFacts

Speaks == \A c \in Seq(Token) : Support(c) \subseteq Token /\ Support(c) # {}

(***************************************************************************)
(* Lists                                                                   *)
(***************************************************************************)
LEMMA Joined ==
  ASSUME NEW s \in Context, NEW t \in Context
  PROVE  s \o t \in Context /\ Len(s \o t) = Len(s) + Len(t) /\ Len(s) \in Nat /\ Len(t) \in Nat
BY ConcatProperties, LenProperties DEF Context

LEMMA Regrouped ==
  ASSUME NEW s \in Context, NEW t \in Context, NEW u \in Context
  PROVE  (s \o t) \o u = s \o (t \o u)
BY ConcatAssociative DEF Context

LEMMA Nothing ==
  /\ <<>> \in Context /\ Len(<<>>) = 0
  /\ \A s \in Context : s \o <<>> = s /\ <<>> \o s = s /\ (Len(s) = 0 <=> s = <<>>) /\ Len(s) \in Nat
BY EmptyList, ConcatEmptySeq, EmptySeq, LenProperties DEF Context

(* All but some of the last entries, as the first ones.                    *)
LEMMA DropFacts ==
  ASSUME NEW Q, NEW s \in Seq(Q), NEW n \in 0..Len(s)
  PROVE  /\ SubSeq(s, 1, Len(s) - n) \in Seq(Q)
         /\ Len(SubSeq(s, 1, Len(s) - n)) = Len(s) - n
<1> DEFINE k == Len(s) - n
<1>1. k \in 0..Len(s)
  BY LenProperties
<1> HIDE DEF k
<1>2. SubSeq(s, 1, k) \in Seq(Q) /\ Len(SubSeq(s, 1, k)) = k
  BY <1>1, FirstPart
<1> QED BY <1>2 DEF k

(* Dropping from the second of two lists.                                  *)
LEMMA DropOfBoth ==
  ASSUME NEW s \in Context, NEW t \in Context, NEW n \in 0..Len(t)
  PROVE  SubSeq(s \o t, 1, Len(s \o t) - n) = s \o SubSeq(t, 1, Len(t) - n)
<1> DEFINE k == Len(t) - n
           m == Len(s \o t) - n
<1>1. k \in 0..Len(t) /\ m = Len(s) + k
  BY Joined
<1> HIDE DEF k, m
<1>2. SubSeq(s \o t, 1, Len(s) + k) = s \o SubSeq(t, 1, k)
  BY <1>1, FirstOfBoth DEF Context
<1> QED BY <1>1, <1>2 DEF k, m

(***************************************************************************)
(* The caches of a windowed model                                          *)
(***************************************************************************)
W == INSTANCE WindowedSession

Caches == [kv : Context, ring : Context]

(* The full layers are s, and the ring is the end of it, all of it or      *)
(* enough.                                                                 *)
Stands(c, s, m) ==
  /\ c \in Caches /\ s \in Context
  /\ c.kv = s
  /\ \E a \in Context : s = a \o c.ring /\ (a = <<>> \/ Len(c.ring) >= m)

LEMMA StandsIsStandFor ==
  ASSUME NEW c \in Caches, NEW s \in Context, NEW m \in Nat
  PROVE  W!StandFor(c, s, m) <=> Stands(c, s, m)
<1> DEFINE r == c.ring
<1>1. r \in Context /\ Len(r) \in Nat /\ Len(s) \in Nat
  BY LenProperties DEF Caches, Context
<1>2. IsSuffix(r, s) <=> \E a \in Context : s = a \o r
  BY <1>1, SuffixFacts DEF Context
<1>3. W!StandFor(c, s, m) <=> c.kv = s /\ IsSuffix(r, s) /\ Len(r) >= W!AtMost(Len(s), m)
  BY DEF W!StandFor, W!IsSuffix, IsSuffix, W!IsPrefix, IsPrefix, W!Reverse, Reverse
<1> HIDE DEF r
<1>4. ASSUME NEW a \in Context, s = a \o r
      PROVE  (Len(r) >= W!AtMost(Len(s), m)) <=> (a = <<>> \/ Len(r) >= m)
  <2>1. Len(a) \in Nat /\ Len(s) = Len(a) + Len(r) /\ (Len(a) = 0 <=> a = <<>>)
    BY <1>1, <1>4, LenProperties, ConcatProperties, EmptySeq DEF Context
  <2>2. (Len(r) >= W!AtMost(Len(s), m)) <=> (Len(a) = 0 \/ Len(r) >= m)
    <3> DEFINE x == Len(r)
               y == Len(a)
               z == Len(s)
    <3>1. x \in Nat /\ y \in Nat /\ z = y + x
      BY <1>1, <2>1
    <3> HIDE DEF x, y, z
    <3>2. (x >= (IF z < m THEN z ELSE m)) <=> (y = 0 \/ x >= m)
      BY <3>1
    <3> QED BY <3>2 DEF x, y, z, W!AtMost
  <2> QED BY <2>1, <2>2
<1>5. W!StandFor(c, s, m) <=> c.kv = s /\ \E a \in Context : s = a \o r /\ (a = <<>> \/ Len(r) >= m)
  BY <1>2, <1>3, <1>4
<1> QED BY <1>5 DEF Stands, r

LEMMA StandsType ==
  ASSUME NEW c, NEW s, NEW m, Stands(c, s, m)
  PROVE  c \in Caches /\ s \in Context /\ c.kv = s /\ c.kv \in Context /\ c.ring \in Context
BY DEF Stands, Caches

(* The last n of a list, in the words of the module.                       *)
LEMMA FinalFacts ==
  ASSUME NEW s \in Context, NEW n \in Nat
  PROVE  /\ W!Final(s, n) \in Context
         /\ Len(W!Final(s, n)) = W!AtMost(n, Len(s))
         /\ \E b \in Context : s = b \o W!Final(s, n) /\ (n < Len(s) \/ b = <<>>)
BY LastPart DEF Context, W!Final, W!AtMost

LEMMA EmptyStands ==
  ASSUME NEW m
  PROVE  W!NoCache \in Caches /\ Stands(W!NoCache, <<>>, m)
<1>1. <<>> \in Context /\ <<>> = <<>> \o <<>>
  BY EmptyList, ConcatEmptySeq DEF Context
<1> QED BY <1>1 DEF W!NoCache, Caches, Stands

(* A forward of some tokens on a cache that stands for s.                  *)
LEMMA FedStands ==
  ASSUME NEW c, NEW s, NEW m \in Nat \ {0, 1}, Stands(c, s, m),
         NEW w \in Context, w # <<>>
  PROVE  Stands(W!Fed(c, w, m), s \o w, m)
<1> DEFINE r == c.ring
           new == W!Fed(c, w, m).ring
<1>1. c \in Caches /\ s \in Context /\ c.kv = s /\ r \in Context
  BY StandsType
<1>2. PICK a \in Context : s = a \o r /\ (a = <<>> \/ Len(r) >= m)
  BY DEF Stands
<1>3. Len(r) \in Nat /\ Len(w) \in Nat /\ Len(w) # 0
  BY <1>1, LenProperties, EmptySeq DEF Context
<1>4. r \o w \in Context /\ Len(r \o w) = Len(r) + Len(w) /\ s \o w \in Context
      /\ s \o w = a \o (r \o w)
  <2>1. (a \o r) \o w = a \o (r \o w)
    BY <1>1, Regrouped
  <2>2. s \o w = (a \o r) \o w
    BY <1>2
  <2>3. s \o w \in Context
    BY <1>1, Joined
  <2>4. r \o w \in Context /\ Len(r \o w) = Len(r) + Len(w)
    BY <1>1, Joined
  <2> QED BY <2>1, <2>2, <2>3, <2>4
<1>5. new = IF Len(w) = 1 THEN W!Final(r \o w, m) ELSE W!Final(r, m - 1) \o w
  BY DEF W!Fed
<1> HIDE DEF r, new
<1>6. new \in Context /\ \E b \in Context : s \o w = b \o new /\ (b = <<>> \/ Len(new) >= m)
  <2>1. CASE Len(w) = 1
    <3>1. new = W!Final(r \o w, m)
      BY <1>5, <2>1
    <3>2. new \in Context /\ Len(new) = W!AtMost(m, Len(r \o w))
      BY <1>4, <3>1, FinalFacts
    <3>3. PICK b \in Context : r \o w = b \o new /\ (m < Len(r \o w) \/ b = <<>>)
      BY <1>4, <3>1, FinalFacts
    <3>4. a \o b \in Context /\ s \o w = (a \o b) \o new
      <4>1. (a \o b) \o new = a \o (b \o new)
        BY <3>2, Regrouped
      <4>2. s \o w = a \o (b \o new)
        BY <1>4, <3>3
      <4>3. a \o b \in Context
        BY Joined
      <4> QED BY <4>1, <4>2, <4>3
    <3>5. Len(new) >= m \/ (a = <<>> /\ b = <<>>)
      <4> DEFINE x == Len(r)
                 y == Len(r \o w)
                 z == Len(new)
      <4>1. x \in Nat /\ y = x + 1 /\ z = W!AtMost(m, y) /\ (a = <<>> \/ x >= m) /\ (m < y \/ b = <<>>)
        BY <1>2, <1>3, <1>4, <2>1, <3>2, <3>3
      <4> HIDE DEF x, y, z
      <4>2. x \in Nat /\ y = x + 1 /\ z = (IF m < y THEN m ELSE y) /\ (a = <<>> \/ x >= m) /\ (m < y \/ b = <<>>)
        BY <4>1 DEF W!AtMost
      <4>3. CASE m < y
        <5>1. z = m
          BY <4>2, <4>3
        <5>2. z >= m
          BY <5>1
        <5> QED BY <5>2 DEF z
      <4>4. CASE ~(m < y)
        <5>1. b = <<>> /\ z = y
          BY <4>2, <4>4
        <5>2. CASE a = <<>>
          BY <5>1, <5>2
        <5>3. CASE x >= m
          <6>1. m < y
            BY <4>2, <5>3
          <6> QED BY <4>4, <6>1
        <5> QED BY <4>2, <5>2, <5>3
      <4>5. z >= m \/ (a = <<>> /\ b = <<>>)
        BY <4>2, <4>3, <4>4
      <4> QED BY <4>5 DEF z
    <3>6. a = <<>> /\ b = <<>> => a \o b = <<>>
      BY <1>4, <1>1, <3>3, ConcatEmptySeq
    <3> QED BY <3>2, <3>4, <3>5, <3>6
  <2>2. CASE Len(w) # 1
    <3> DEFINE f == W!Final(r, m - 1)
    <3>0. m - 1 \in Nat
      OBVIOUS
    <3>1. f \in Context /\ Len(f) = W!AtMost(m - 1, Len(r))
      BY <1>1, <3>0, FinalFacts DEF r
    <3>2. PICK b \in Context : r = b \o f /\ (m - 1 < Len(r) \/ b = <<>>)
      BY <1>1, <3>0, FinalFacts DEF r
    <3> HIDE DEF f
    <3>3. new = f \o w
      BY <1>5, <2>2 DEF f
    <3>4. new \in Context /\ Len(new) = Len(f) + Len(w)
      BY <3>1, <3>3, Joined
    <3>5. a \o b \in Context /\ s \o w = (a \o b) \o new
      <4>1. r \o w = b \o new
        BY <3>1, <3>2, <3>3, Regrouped
      <4>2. (a \o b) \o new = a \o (b \o new)
        BY <3>4, Regrouped
      <4>3. s \o w = a \o (b \o new)
        BY <1>4, <4>1
      <4>4. a \o b \in Context
        BY Joined
      <4> QED BY <4>2, <4>3, <4>4
    <3>6. Len(new) >= m \/ (a = <<>> /\ b = <<>>)
      <4> DEFINE x == Len(r)
                 y == Len(w)
                 z == Len(new)
                 u == Len(f)
      <4>1. x \in Nat /\ y \in Nat /\ y # 0 /\ y # 1 /\ z = u + y /\ u = W!AtMost(m - 1, x)
            /\ (a = <<>> \/ x >= m) /\ (m - 1 < x \/ b = <<>>)
        BY <1>2, <1>3, <2>2, <3>1, <3>2, <3>4
      <4> HIDE DEF x, y, z, u
      <4>2. u = (IF m - 1 < x THEN m - 1 ELSE x)
        BY <4>1 DEF W!AtMost
      <4>3. CASE m - 1 < x
        BY <4>1, <4>2, <4>3 DEF z
      <4>4. CASE ~(m - 1 < x)
        <5>1. b = <<>> /\ ~(x >= m)
          BY <4>1, <4>4
        <5> QED BY <4>1, <5>1
      <4> QED BY <4>3, <4>4
    <3>7. a = <<>> /\ b = <<>> => a \o b = <<>>
      BY <3>2, <1>2, ConcatEmptySeq
    <3> QED BY <3>4, <3>5, <3>6, <3>7
  <2> QED BY <2>1, <2>2
<1>7. W!Fed(c, w, m) \in Caches /\ W!Fed(c, w, m).kv = s \o w
  <2>1. W!Fed(c, w, m) = [kv |-> s \o w, ring |-> new]
    BY <1>1 DEF W!Fed, new
  <2> QED BY <1>4, <1>6, <2>1 DEF Caches
<1> QED BY <1>4, <1>6, <1>7 DEF Stands, new

(* What such a forward says: after every token, what it stands for.        *)
LEMMA HiddenStands ==
  ASSUME NEW c, NEW s, NEW m \in Nat \ {0, 1}, Stands(c, s, m),
         NEW w \in Context, w # <<>>
  PROVE  /\ DOMAIN W!HiddenOver(c, w, m) = 1..Len(w)
         /\ \A j \in 1..Len(w) : W!HiddenOver(c, w, m)[j] = s \o SubSeq(w, 1, j)
<1> DEFINE after == W!Fed(c, w, m)
<1>1. Stands(after, s \o w, m) /\ after.kv = s \o w /\ after \in Caches /\ s \o w \in Context
  BY FedStands, StandsType
<1>2. W!StandFor(after, after.kv, m)
  BY <1>1, StandsIsStandFor
<1>3. W!HiddenOver(c, w, m) = [j \in DOMAIN w |-> IF W!StandFor(after, after.kv, m)
                                   THEN W!Drop(after.kv, Len(w) - j) ELSE W!Unknown]
  BY DEF W!HiddenOver
<1>4. DOMAIN w = 1..Len(w) /\ Len(w) \in Nat /\ s \in Context
  BY LenProperties, StandsType DEF Context
<1> HIDE DEF after
<1>5. W!HiddenOver(c, w, m) = [j \in 1..Len(w) |-> W!Drop(s \o w, Len(w) - j)]
  BY <1>1, <1>2, <1>3, <1>4
<1>6. ASSUME NEW j \in 1..Len(w) PROVE W!Drop(s \o w, Len(w) - j) = s \o SubSeq(w, 1, j)
  <2> DEFINE n == Len(w) - j
  <2>1. n \in 0..Len(w) /\ Len(w) - n = j
    BY <1>4
  <2> HIDE DEF n
  <2>2. SubSeq(s \o w, 1, Len(s \o w) - n) = s \o SubSeq(w, 1, Len(w) - n)
    BY <1>4, <2>1, DropOfBoth
  <2> QED BY <2>1, <2>2 DEF n, W!Drop, W!First
<1> QED BY <1>5, <1>6

(* A ring that was never full is all of the tokens.                        *)
LEMMA NotFull ==
  ASSUME NEW c, NEW s, NEW m \in Nat, Stands(c, s, m), W!CanTrim(c, m)
  PROVE  c.ring = s
<1>1. PICK a \in Context : s = a \o c.ring /\ (a = <<>> \/ Len(c.ring) >= m)
  BY DEF Stands
<1>2. c.ring \in Context /\ s \in Context /\ Len(s) < m
  BY StandsType DEF W!CanTrim
<1>3. Len(s) = Len(a) + Len(c.ring) /\ Len(a) \in Nat /\ Len(c.ring) \in Nat
  BY <1>1, <1>2, Joined
<1>4. ~(Len(c.ring) >= m)
  BY <1>2, <1>3
<1>5. a = <<>>
  BY <1>1, <1>4
<1> QED BY <1>1, <1>2, <1>5, Nothing

LEMMA WholeStands ==
  ASSUME NEW s \in Context, NEW m
  PROVE  Stands([kv |-> s, ring |-> s], s, m)
<1>1. <<>> \in Context /\ s = <<>> \o s
  BY Nothing
<1> QED BY <1>1 DEF Stands, Caches

LEMMA TrimmedStands ==
  ASSUME NEW c, NEW s, NEW m \in Nat, Stands(c, s, m), NEW n \in 0..Len(s),
         n = 0 \/ W!CanTrim(c, m)
  PROVE  Stands(W!Trimmed(c, n, m), W!Drop(s, n), m)
<1>1. s \in Context /\ c.kv = s /\ Len(s) \in Nat
  BY StandsType, Nothing
<1>2. CASE n = 0
  <2>1. W!Drop(s, n) = s
    <3>1. SubSeq(s, 1, Len(s)) = s /\ Len(s) - n = Len(s)
      BY <1>1, <1>2, SubSeqFull DEF Context
    <3> QED BY <3>1 DEF W!Drop, W!First
  <2>2. W!Trimmed(c, n, m) = c
    BY <1>2 DEF W!Trimmed
  <2> QED BY <2>1, <2>2
<1>3. CASE n # 0
  <2>1. c.ring = s /\ n > 0 /\ W!CanTrim(c, m)
    BY <1>3, NotFull
  <2>2. W!Trimmed(c, n, m) = [kv |-> W!Drop(s, n), ring |-> W!Drop(s, n)]
    BY <1>1, <2>1 DEF W!Trimmed
  <2>3. W!Drop(s, n) \in Context
    BY <1>1, DropFacts DEF W!Drop, W!First, Context
  <2> QED BY <2>2, <2>3, WholeStands
<1> QED BY <1>2, <1>3

(* A list cut into three, and one part of it cut again.                    *)
Lists(a, b, c) == a \in Context /\ b \in Context /\ c \in Context

LEMMA CutBefore ==
  ASSUME NEW a, NEW b, NEW f, Lists(a, b, f)
  PROVE  a \o b \in Context /\ a \o (b \o f) = (a \o b) \o f
BY Joined, Regrouped, ZenonT(40) DEF Lists

(* What _rollback of the Gemma runner leaves of a forward of w: its first  *)
(* k tokens, however full the ring.                                        *)
LEMMA CutStands ==
  ASSUME NEW c, NEW s, NEW m \in Nat \ {0, 1}, Stands(c, s, m),
         NEW w \in Context, NEW k \in 1..(Len(w) - 1)
  PROVE  Stands([kv   |-> W!Drop(W!Fed(c, w, m).kv, Len(w) - k),
                 ring |-> W!Final(W!Drop(W!Fed(c, w, m).ring, Len(w) - k), m)],
                s \o SubSeq(w, 1, k), m)
<1> DEFINE r == c.ring
           f == W!Final(r, m - 1)
           v == SubSeq(w, 1, k)
           n == Len(w) - k
           g == f \o v
           e == W!Final(g, m)
<1>1. s \in Context /\ c.kv = s /\ r \in Context /\ Len(w) \in Nat /\ Len(r) \in Nat
  BY StandsType, Nothing
<1>2. PICK a \in Context : s = a \o r /\ (a = <<>> \/ Len(r) >= m)
  BY DEF Stands
<1>3. n \in 0..Len(w) /\ Len(w) - n = k /\ Len(w) # 1 /\ k \in 0..Len(w) /\ m - 1 \in Nat
  <2> DEFINE l == Len(w)
  <2>1. l \in Nat /\ k \in 1..(l - 1) /\ n = l - k
    BY <1>1
  <2> HIDE DEF l, n
  <2>2. n \in 0..l /\ l - n = k /\ l # 1 /\ k \in 0..l
    BY <2>1
  <2>3. m - 1 \in Nat
    OBVIOUS
  <2> QED BY <2>2, <2>3 DEF l
<1> HIDE DEF r, n
<1>4. v \in Context /\ Len(v) = k
  BY <1>3, FirstPart DEF Context
<1>5. /\ f \in Context /\ Len(f) = W!AtMost(m - 1, Len(r))
      /\ \E b \in Context : r = b \o f /\ (m - 1 < Len(r) \/ b = <<>>)
  BY <1>1, <1>3, FinalFacts
<1> HIDE DEF f
<1>6. W!Drop(s \o w, n) = s \o v
  <2>1. SubSeq(s \o w, 1, Len(s \o w) - n) = s \o SubSeq(w, 1, Len(w) - n)
    BY <1>1, <1>3, DropOfBoth
  <2> QED BY <2>1, <1>3 DEF W!Drop, W!First
<1>7. W!Drop(f \o w, n) = g
  <2>1. SubSeq(f \o w, 1, Len(f \o w) - n) = f \o SubSeq(w, 1, Len(w) - n)
    BY <1>3, <1>5, DropOfBoth
  <2> QED BY <2>1, <1>3 DEF W!Drop, W!First
<1>8. W!Fed(c, w, m).kv = s \o w /\ W!Fed(c, w, m).ring = f \o w
  BY <1>1, <1>3 DEF W!Fed, r, f
<1> HIDE DEF v
<1>9. g \in Context /\ Len(g) = Len(f) + Len(v)
  BY <1>4, <1>5, Joined
<1> HIDE DEF g
<1>10. /\ e \in Context /\ Len(e) = W!AtMost(m, Len(g))
       /\ \E d \in Context : g = d \o e /\ (m < Len(g) \/ d = <<>>)
  BY <1>9, FinalFacts
<1> HIDE DEF e
<1>11. PICK b \in Context : r = b \o f /\ (m - 1 < Len(r) \/ b = <<>>)
  BY <1>5
<1>12. PICK d \in Context : g = d \o e /\ (m < Len(g) \/ d = <<>>)
  BY <1>10
<1> DEFINE x == (a \o b) \o d
<1>13. x \in Context /\ s \o v \in Context /\ s \o v = x \o e
  <2> DEFINE ab == a \o b
  <2>0. f \in Context /\ v \in Context /\ e \in Context
    BY <1>4, <1>5, <1>10
  <2>1. ab \in Context /\ a \o (b \o f) = ab \o f
    <3>1. Lists(a, b, f)
      BY <2>0 DEF Lists
    <3> QED BY <3>1, CutBefore
  <2>2. f \o v = d \o e
    BY <1>12 DEF g
  <2>3. s = ab \o f
    BY <1>2, <1>11, <2>1
  <2> HIDE DEF ab
  <2>4. ab \o d \in Context /\ (ab \o f) \o v \in Context /\ (ab \o f) \o v = (ab \o d) \o e
    <3>1. Lists(ab, f, v) /\ Lists(ab, d, e)
      BY <2>0, <2>1 DEF Lists
    <3>2. ab \o f \in Context /\ ab \o (f \o v) = (ab \o f) \o v
      BY <3>1, CutBefore
    <3>3. ab \o d \in Context /\ ab \o (d \o e) = (ab \o d) \o e
      BY <3>1, CutBefore
    <3>4. (ab \o f) \o v \in Context
      BY <2>0, <3>2, Joined
    <3> QED BY <2>2, <3>2, <3>3, <3>4
  <2> QED BY <2>3, <2>4 DEF ab
<1>14. (a = <<>> /\ b = <<>> /\ d = <<>>) \/ Len(e) >= m
  <2> DEFINE p == Len(r)
             q == Len(f)
             u == Len(g)
             z == Len(e)
  <2>1. /\ p \in Nat /\ u = q + k /\ q = W!AtMost(m - 1, p) /\ z = W!AtMost(m, u)
        /\ (a = <<>> \/ p >= m) /\ (m - 1 < p \/ b = <<>>) /\ (m < u \/ d = <<>>)
    BY <1>1, <1>2, <1>4, <1>5, <1>9, <1>10, <1>11, <1>12
  <2> HIDE DEF p, q, u, z
  <2>2. q = (IF m - 1 < p THEN m - 1 ELSE p) /\ z = (IF m < u THEN m ELSE u) /\ k >= 1 /\ k \in Nat
    BY <1>1, <2>1 DEF W!AtMost
  <2>3. CASE m - 1 < p
    <3>1. q = m - 1 /\ u >= m /\ u \in Nat
      BY <2>1, <2>2, <2>3
    <3>2. z >= m
      BY <2>2, <3>1
    <3> QED BY <3>2 DEF z
  <2>4. CASE ~(m - 1 < p)
    <3>1. a = <<>> /\ b = <<>>
      BY <2>1, <2>4
    <3>2. CASE m < u
      <4>1. z >= m
        BY <2>2, <3>2
      <4> QED BY <4>1 DEF z
    <3> QED BY <2>1, <3>1, <3>2
  <2> QED BY <2>3, <2>4
<1>15. x = <<>> \/ Len(e) >= m
  BY <1>14, Nothing
<1> HIDE DEF x
<1>16. Stands([kv |-> s \o v, ring |-> e], s \o v, m)
  BY <1>10, <1>13, <1>15 DEF Stands, Caches
<1> QED BY <1>6, <1>7, <1>8, <1>16 DEF n, v, e

(***************************************************************************)
(* Blocks of an answer                                                     *)
(***************************************************************************)
(* Each of the tokens is one the model may say after c and the ones before.*)
Answerable(c, ts) == \A i \in 1..Len(ts) : ts[i] \in Support(c \o SubSeq(ts, 1, i - 1))

(* Nothing follows an end-of-sequence token.                               *)
NoEnd(ts) == \A i \in 1..(Len(ts) - 1) : ts[i] \notin Eos

GoesOn(o) == o # <<>> => o[Len(o)] \notin Eos

(* What PlainDecode lets the answer o to p become, b tokens at most.       *)
EmitOf(p, b, o, new) ==
  /\ Len(o) < Len(new)
  /\ Len(new) <= b
  /\ SubSeq(new, 1, Len(o)) = o
  /\ \A i \in (Len(o) + 1)..Len(new) :
       /\ new[i] \in Support(p \o SubSeq(new, 1, i - 1))
       /\ i > 1 => new[i - 1] \notin Eos

LEMMA PlainEmit ==
  ASSUME prompt' = prompt, budget' = budget, EmitOf(prompt, budget, out, out')
  PROVE  Plain!Emit
BY DEF Plain!Emit, EmitOf

LEMMA BlockEmits ==
  ASSUME NEW p \in Context, NEW o \in Context, NEW b \in Nat, NEW ts \in Context, ts # <<>>,
         Answerable(p \o o, ts), NoEnd(ts), GoesOn(o), Len(o) + Len(ts) <= b
  PROVE  o \o ts \in Context /\ EmitOf(p, b, o, o \o ts)
<1> DEFINE new == o \o ts
           m == Len(o)
           n == Len(ts)
<1>1. /\ new \in Context /\ Len(new) = m + n /\ m \in Nat /\ n \in Nat /\ n # 0
      /\ \A i \in 1..(m + n) : new[i] = IF i <= m THEN o[i] ELSE ts[i - m]
  BY ConcatProperties, LenProperties, EmptySeq DEF Context
<1>2. SubSeq(new, 1, m) = o
  <2>1. 0 \in 0..n /\ SubSeq(ts, 1, 0) = <<>> /\ m + 0 = m
    BY <1>1, SubSeqEmpty
  <2>2. SubSeq(new, 1, m + 0) = o \o SubSeq(ts, 1, 0)
    BY <2>1, FirstOfBoth DEF Context
  <2> QED BY <2>1, <2>2, Nothing
<1>3. ASSUME NEW i \in (m + 1)..(m + n)
      PROVE  /\ new[i] \in Support(p \o SubSeq(new, 1, i - 1))
             /\ i > 1 => new[i - 1] \notin Eos
  <2> DEFINE j == i - m
  <2>1. j \in 1..n /\ i \in 1..(m + n) /\ ~(i <= m) /\ j - 1 \in 0..n /\ m + (j - 1) = i - 1
    BY <1>1
  <2> HIDE DEF j
  <2>2. new[i] = ts[j]
    BY <1>1, <2>1 DEF j
  <2>3. ts[j] \in Support((p \o o) \o SubSeq(ts, 1, j - 1))
    BY <2>1 DEF Answerable
  <2>4. SubSeq(new, 1, i - 1) = o \o SubSeq(ts, 1, j - 1) /\ SubSeq(ts, 1, j - 1) \in Context
    <3>1. SubSeq(new, 1, m + (j - 1)) = o \o SubSeq(ts, 1, j - 1)
      BY <2>1, FirstOfBoth DEF Context
    <3>2. SubSeq(ts, 1, j - 1) \in Context
      BY <2>1, FirstPart DEF Context
    <3> QED BY <2>1, <3>1, <3>2
  <2>5. (p \o o) \o SubSeq(ts, 1, j - 1) = p \o SubSeq(new, 1, i - 1)
    <3> DEFINE x == SubSeq(ts, 1, j - 1)
    <3>1. x \in Context
      BY <2>4
    <3> HIDE DEF x
    <3>2. Lists(p, o, x)
      BY <3>1 DEF Lists
    <3>3. p \o (o \o x) = (p \o o) \o x
      BY <3>2, CutBefore
    <3> QED BY <2>4, <3>3 DEF x
  <2>6. ASSUME i > 1 PROVE new[i - 1] \notin Eos
    <3>1. CASE j = 1
      <4>1. i - 1 = m /\ m \in 1..(m + n) /\ m <= m
        BY <1>1, <2>1, <2>6, <3>1 DEF j
      <4>2. new[m] = o[m] /\ o # <<>>
        BY <1>1, <4>1, Nothing
      <4> QED BY <4>1, <4>2 DEF GoesOn
    <3>2. CASE j # 1
      <4>1. j - 1 \in 1..(n - 1) /\ i - 1 \in 1..(m + n) /\ ~(i - 1 <= m) /\ (i - 1) - m = j - 1
        BY <1>1, <2>1, <3>2 DEF j
      <4>2. new[i - 1] = ts[j - 1]
        BY <1>1, <4>1
      <4> QED BY <4>1, <4>2 DEF NoEnd
    <3> QED BY <3>1, <3>2
  <2> QED BY <2>2, <2>3, <2>5, <2>6
<1>4. m < m + n /\ m + n <= b
  BY <1>1
<1> QED BY <1>1, <1>2, <1>3, <1>4 DEF EmitOf

LEMMA FirstAnswerable ==
  ASSUME NEW c, NEW ts \in Context, Answerable(c, ts), NEW k \in 0..Len(ts)
  PROVE  Answerable(c, SubSeq(ts, 1, k))
<1> DEFINE f == SubSeq(ts, 1, k)
<1>1. f \in Context /\ Len(f) = k /\ \A i \in 1..k : f[i] = ts[i]
  BY FirstPart DEF Context
<1>2. Len(ts) \in Nat
  BY Nothing
<1>3. ASSUME NEW i \in 1..k PROVE f[i] \in Support(c \o SubSeq(f, 1, i - 1))
  <2>1. i \in 1..Len(ts) /\ i - 1 \in 0..k
    BY <1>2
  <2>2. SubSeq(f, 1, i - 1) = SubSeq(ts, 1, i - 1)
    BY <2>1, FirstOfFirst DEF Context
  <2>3. ts[i] \in Support(c \o SubSeq(ts, 1, i - 1))
    BY <2>1 DEF Answerable
  <2> QED BY <1>1, <2>2, <2>3
<1> QED BY <1>1, <1>3 DEF Answerable

(* The draws of the runners from a hidden state that is a context.         *)
Drawn(h) == IF h = <<>> THEN Token ELSE Support(h)

LEMMA DrawnIsSupport ==
  ASSUME Speaks, NEW c \in Context, NEW s \in Context, c # <<>>
  PROVE  c \o s \in Context /\ c \o s # <<>> /\ Drawn(c \o s) = Support(c \o s) /\ Drawn(c \o s) \subseteq Token
<1>1. c \o s \in Context /\ Len(c \o s) = Len(c) + Len(s) /\ Len(c) \in Nat /\ Len(s) \in Nat
  BY Joined
<1>2. Len(c) # 0
  BY Nothing
<1>3. Len(c \o s) # 0
  BY <1>1, <1>2
<1>4. c \o s # <<>>
  BY <1>1, <1>3, Nothing
<1> QED BY <1>1, <1>4 DEF Drawn, Speaks, Context

(* Drafts the model agrees with, and what it says after them.              *)
LEMMA VerifiedBlock ==
  ASSUME Speaks, NEW c \in Context, c # <<>>, NEW d \in Context, NEW a \in 0..Len(d), NEW h,
         \A i \in 1..(a + 1) : h[i] = c \o SubSeq(d, 1, i - 1),
         \A i \in 1..a : d[i] \in Drawn(h[i]),
         NEW y \in Drawn(h[a + 1])
  PROVE  LET ts == SubSeq(d, 1, a) \o <<y>>
         IN  y \in Token /\ ts \in Context /\ Len(ts) = a + 1 /\ ts[a + 1] = y /\ Answerable(c, ts)
<1> DEFINE f == SubSeq(d, 1, a)
           ts == f \o <<y>>
<1>1. f \in Context /\ Len(f) = a /\ \A i \in 1..a : f[i] = d[i]
  BY FirstPart DEF Context
<1>2. Len(d) \in Nat /\ a \in Nat
  BY Nothing
<1>3. ASSUME NEW i \in 1..(a + 1)
      PROVE  /\ i - 1 \in 0..a /\ i - 1 \in 0..Len(d) /\ SubSeq(d, 1, i - 1) \in Context
             /\ Drawn(h[i]) = Support(c \o SubSeq(d, 1, i - 1)) /\ Drawn(h[i]) \subseteq Token
  <2>1. i - 1 \in 0..a /\ i - 1 \in 0..Len(d)
    BY <1>2
  <2>2. SubSeq(d, 1, i - 1) \in Context
    BY <2>1, FirstPart DEF Context
  <2> DEFINE s == SubSeq(d, 1, i - 1)
  <2>3. h[i] = c \o s
    OBVIOUS
  <2> HIDE DEF s
  <2>4. Drawn(c \o s) = Support(c \o s) /\ Drawn(c \o s) \subseteq Token
    BY <2>2, DrawnIsSupport DEF s
  <2> QED BY <2>1, <2>2, <2>3, <2>4 DEF s
<1>4. a + 1 \in 1..(a + 1)
  BY <1>2
<1>5. y \in Token /\ y \in Support(c \o SubSeq(d, 1, (a + 1) - 1))
  BY <1>3, <1>4
<1> HIDE DEF f
<1>6. /\ ts \in Context /\ Len(ts) = a + 1 /\ ts[a + 1] = y
      /\ \A i \in 1..a : ts[i] = f[i]
  <2>1. ts = Append(f, y)
    BY <1>1, <1>5, AppendIsConcat DEF Context
  <2>2. Append(f, y) \in Context /\ Len(Append(f, y)) = Len(f) + 1
        /\ (\A i \in 1..Len(f) : Append(f, y)[i] = f[i]) /\ Append(f, y)[Len(f) + 1] = y
    BY <1>1, <1>5, AppendProperties DEF Context
  <2> QED BY <1>1, <2>1, <2>2
<1> HIDE DEF ts
<1>7. ASSUME NEW i \in 1..(a + 1) PROVE ts[i] \in Support(c \o SubSeq(ts, 1, i - 1))
  <2>1. i - 1 \in 0..a /\ i - 1 \in 0..Len(d)
    BY <1>3
  <2>2. SubSeq(ts, 1, i - 1) = SubSeq(d, 1, i - 1)
    <3>1. i - 1 \in 0..Len(f)
      BY <1>1, <2>1
    <3>2. SubSeq(f, 1, i - 1) = SubSeq(ts, 1, i - 1)
      <4>1. f \in Seq(Token) /\ <<y>> \in Seq(Token)
        BY <1>1, <1>5 DEF Context
      <4> QED BY <3>1, <4>1, FirstOfConcat DEF ts
    <3>3. SubSeq(f, 1, i - 1) = SubSeq(d, 1, i - 1)
      BY <2>1, FirstOfFirst DEF Context, f
    <3> QED BY <3>2, <3>3
  <2>3. CASE i = a + 1
    BY <1>5, <1>6, <2>2, <2>3
  <2>4. CASE i # a + 1
    <3>1. i \in 1..a
      BY <1>2, <2>4
    <3>2. ts[i] = d[i] /\ d[i] \in Drawn(h[i])
      BY <1>1, <1>6, <3>1
    <3>3. Drawn(h[i]) = Support(c \o SubSeq(d, 1, i - 1))
      BY <1>3
    <3> QED BY <2>2, <3>2, <3>3
  <2> QED BY <2>3, <2>4
<1> QED BY <1>5, <1>6, <1>7 DEF Answerable, ts, f

LEMMA OneMore ==
  ASSUME NEW Q, NEW s \in Seq(Q), NEW k \in 0..Len(s), k < Len(s)
  PROVE  SubSeq(s, 1, k + 1) = SubSeq(s, 1, k) \o <<s[k + 1]>> /\ s[k + 1] \in Q
<1> DEFINE l == Len(s)
<1>1. l \in Nat
  BY LenProperties
<1> HIDE DEF l
<1>2. 1 \in 1..l /\ k + 1 \in 1..l /\ (k + 1) - 1 = k
  BY <1>1 DEF l
<1>3. SubSeq(s, 1, k + 1) = SubSeq(s, 1, (k + 1) - 1) \o <<s[k + 1]>>
  BY <1>2, SubSeqRecursiveSecond DEF l
<1> QED BY <1>2, <1>3, ElementOfSeq DEF l

(* As many drafts as the model agrees with.                                *)
LEMMA VerifiedDrafts ==
  ASSUME Speaks, NEW c \in Context, c # <<>>, NEW d \in Context, NEW k \in 1..Len(d), NEW h,
         \A i \in 1..k : h[i] = c \o SubSeq(d, 1, i - 1),
         \A i \in 1..k : d[i] \in Drawn(h[i])
  PROVE  LET ts == SubSeq(d, 1, k)
         IN  ts \in Context /\ Len(ts) = k /\ ts[k] = d[k] /\ Answerable(c, ts)
<1> DEFINE a == k - 1
           y == d[k]
           t == SubSeq(d, 1, a) \o <<y>>
<1>1. a \in 0..Len(d) /\ a < Len(d) /\ a + 1 = k /\ a \in Nat /\ Len(d) \in Nat
  <2>1. Len(d) \in Nat
    BY Nothing
  <2> QED BY <2>1
<1>2. \A i \in 1..a : i \in 1..k
  BY <1>1
<1> HIDE DEF a
<1>3. t = SubSeq(d, 1, k)
  BY <1>1, OneMore DEF Context
<1>4. a + 1 \in 1..(a + 1)
  BY <1>1
<1>5. y \in Drawn(h[a + 1]) /\ (\A i \in 1..(a + 1) : h[i] = c \o SubSeq(d, 1, i - 1))
      /\ \A i \in 1..a : d[i] \in Drawn(h[i])
  BY <1>1, <1>2, <1>4
<1> HIDE DEF y
<1>6. y \in Token /\ t \in Context /\ Len(t) = a + 1 /\ t[a + 1] = y /\ Answerable(c, t)
  <2>1. a \in 0..Len(d)
    BY <1>1
  <2> QED BY <1>5, <2>1, VerifiedBlock
<1> QED BY <1>1, <1>3, <1>6 DEF y

(* The part of a block that an answer with room for n more takes.          *)
Emission(tokens, n) ==
  LET room == W!First(tokens, W!AtMost(Len(tokens), n))
      ends == {i \in DOMAIN room : room[i] \in Eos}
  IN  IF ends = {} THEN room
      ELSE W!First(room, CHOOSE i \in ends : \A j \in ends : i <= j)

LEMMA EmissionFacts ==
  ASSUME NEW ts \in Context, ts # <<>>, NEW n \in Nat \ {0}
  PROVE  \E k \in 1..Len(ts) :
           /\ Emission(ts, n) = SubSeq(ts, 1, k) /\ k <= n
           /\ SubSeq(ts, 1, k) \in Context /\ Len(SubSeq(ts, 1, k)) = k
           /\ SubSeq(ts, 1, k)[k] = ts[k]
           /\ NoEnd(SubSeq(ts, 1, k))
           /\ k < Len(ts) => k = n \/ ts[k] \in Eos
<1> DEFINE l == Len(ts)
           m == W!AtMost(l, n)
           room == W!First(ts, m)
           ends == {i \in DOMAIN room : room[i] \in Eos}
<1>1. l \in Nat /\ l # 0
  BY Nothing
<1>2. m \in 1..l /\ m \in 0..l /\ m <= n /\ (m < l => m = n)
  <2> HIDE DEF l
  <2> QED BY <1>1 DEF W!AtMost
<1> HIDE DEF m
<1>3. room \in Context /\ Len(room) = m /\ \A i \in 1..m : room[i] = ts[i]
  BY <1>2, FirstPart DEF Context, W!First
<1>4. DOMAIN room = 1..m
  BY <1>3, LenProperties DEF Context
<1>5. ends \in SUBSET (1..m) /\ Emission(ts, n) = IF ends = {} THEN room
        ELSE W!First(room, CHOOSE i \in ends : \A j \in ends : i <= j)
  BY <1>4 DEF Emission, m
<1>6. ASSUME NEW k \in 1..m
      PROVE  /\ k \in 1..l /\ k <= n /\ SubSeq(ts, 1, k) \in Context /\ Len(SubSeq(ts, 1, k)) = k
             /\ \A i \in 1..k : SubSeq(ts, 1, k)[i] = ts[i]
  <2>1. k \in 1..l /\ k \in 0..l /\ k <= n
    BY <1>1, <1>2
  <2>2. SubSeq(ts, 1, k) \in Context /\ Len(SubSeq(ts, 1, k)) = k
        /\ \A i \in 1..k : SubSeq(ts, 1, k)[i] = ts[i]
    BY <2>1, FirstPart DEF Context
  <2> QED BY <2>1, <2>2
<1>7. CASE ends = {}
  <2>1. Emission(ts, n) = SubSeq(ts, 1, m) /\ m \in 1..m /\ m \in Nat
    BY <1>2, <1>5, <1>7 DEF W!First
  <2>2. SubSeq(ts, 1, m) \in Context /\ Len(SubSeq(ts, 1, m)) = m
        /\ (\A i \in 1..m : SubSeq(ts, 1, m)[i] = ts[i]) /\ m \in 1..l /\ m <= n
    BY <1>6, <2>1
  <2>3. NoEnd(SubSeq(ts, 1, m))
    <3>1. \A i \in 1..(m - 1) : i \in 1..m
      BY <2>1
    <3>2. \A i \in 1..m : ts[i] \notin Eos
      BY <1>3, <1>4, <1>7
    <3> QED BY <2>2, <3>1, <3>2 DEF NoEnd
  <2> QED BY <1>2, <2>1, <2>2, <2>3
<1>8. CASE ends # {}
  <2>1. ends \in SUBSET Int /\ IsFiniteSet(ends)
    <3>1. IsFiniteSet(1..m) /\ 1..m \subseteq Int
      BY <1>2, FS_Interval
    <3> HIDE DEF ends
    <3> QED BY <1>5, <3>1, FS_Subset
  <2> DEFINE k == CHOOSE i \in ends : \A j \in ends : i <= j
  <2>2. k \in ends /\ \A j \in ends : k <= j
    <3> HIDE DEF ends
    <3> QED BY <1>8, <2>1, LeastExists
  <2>3. Emission(ts, n) = SubSeq(room, 1, k)
    BY <1>5, <1>8 DEF W!First
  <2> HIDE DEF k
  <2>4. k \in 1..m /\ room[k] \in Eos
    BY <1>4, <2>2
  <2>5. SubSeq(ts, 1, k) \in Context /\ Len(SubSeq(ts, 1, k)) = k
        /\ (\A i \in 1..k : SubSeq(ts, 1, k)[i] = ts[i]) /\ k \in 1..l /\ k <= n
    BY <1>6, <2>4
  <2>6. k \in 0..m
    BY <2>4
  <2>7. SubSeq(room, 1, k) = SubSeq(ts, 1, k)
    BY <1>2, <2>6, FirstOfFirst DEF Context, W!First
  <2>8. ts[k] \in Eos
    BY <1>3, <2>4
  <2>9. NoEnd(SubSeq(ts, 1, k))
    <3> SUFFICES ASSUME NEW i \in 1..(k - 1) PROVE ts[i] \notin Eos
      <4>1. \A i \in 1..(k - 1) : i \in 1..k
        BY <2>4
      <4> QED BY <2>5, <4>1 DEF NoEnd
    <3>1. i \in 1..m /\ ~(k <= i)
      BY <1>2, <2>4
    <3>2. i \notin ends
      BY <2>2, <3>1
    <3> QED BY <1>3, <1>4, <3>1, <3>2
  <2>10. SubSeq(ts, 1, k)[k] = ts[k]
    <3>1. k \in 1..k
      BY <2>4
    <3> QED BY <2>5, <3>1
  <2> QED BY <2>3, <2>5, <2>7, <2>8, <2>9, <2>10
<1> QED BY <1>7, <1>8

(* The next n entries of a list, after the first k.                        *)
LEMMA NextPart ==
  ASSUME NEW p \in Context, NEW k \in 0..Len(p), NEW n \in 1..(Len(p) - k)
  PROVE  /\ SubSeq(p, k + 1, k + n) \in Context /\ Len(SubSeq(p, k + 1, k + n)) = n
         /\ SubSeq(p, k + 1, k + n) # <<>> /\ k + n \in 0..Len(p)
         /\ SubSeq(p, 1, k) \o SubSeq(p, k + 1, k + n) = SubSeq(p, 1, k + n)
<1> DEFINE c == SubSeq(p, k + 1, k + n)
           l == Len(p)
           e == k + n
<1>1. l \in Nat /\ \A i \in 1..l : p[i] \in Token
  BY LenProperties, ElementOfSeq DEF Context
<1> HIDE DEF l
<1>2. e \in 0..l /\ k + 1 \in 1..(l + 1) /\ k \in (k + 1 - 1)..l /\ e \in k..l /\ k + 1 <= e
      /\ e - (k + 1) + 1 = n /\ k \in Nat /\ n # 0
  BY <1>1 DEF l
<1> HIDE DEF e
<1>3. \A i \in (k + 1)..e : p[i] \in Token
  BY <1>1, <1>2
<1>4. c \in Seq(Token) /\ Len(c) = IF k + 1 <= e THEN e - (k + 1) + 1 ELSE 0
  <2>1. k + 1 \in Int /\ e \in Int
    BY <1>2
  <2> QED BY <1>3, <2>1, SubSeqProperties DEF e
<1>5. Len(c) = n /\ c \in Context
  BY <1>2, <1>4 DEF Context
<1>6. c # <<>>
  BY <1>2, <1>5, Nothing
<1>7. SubSeq(p, 1, k) \o SubSeq(p, k + 1, e) = SubSeq(p, 1, e)
  <2>1. 1 \in 1..(Len(p) + 1) /\ k \in (1 - 1)..Len(p) /\ e \in k..Len(p)
    BY <1>1, <1>2, SMTT(30) DEF l
  <2> QED BY <2>1, ConcatAdjacentSubSeq DEF Context
<1> QED BY <1>2, <1>5, <1>6, <1>7 DEF c, l, e

(* A list but its last entry, and the last entry.                          *)
LEMMA LastApart ==
  ASSUME NEW p \in Context, p # <<>>
  PROVE  /\ Len(p) \in Nat \ {0} /\ Len(p) - 1 \in 0..Len(p) /\ p[Len(p)] \in Token
         /\ SubSeq(p, 1, Len(p) - 1) \in Context /\ Len(SubSeq(p, 1, Len(p) - 1)) = Len(p) - 1
         /\ SubSeq(p, 1, Len(p) - 1) \o <<p[Len(p)]>> = p
         /\ <<p[Len(p)]>> \in Context
<1> DEFINE l == Len(p)
           k == l - 1
<1>1. l \in Nat /\ l # 0 /\ k \in 0..l /\ l \in 1..l
  BY Nothing
<1>2. p[l] \in Token
  BY <1>1, ElementOfSeq DEF Context
<1>3. <<p[l]>> \in Context
  BY <1>2 DEF Context
<1> HIDE DEF k
<1>4. SubSeq(p, 1, k) \in Context /\ Len(SubSeq(p, 1, k)) = k
  BY <1>1, FirstPart DEF Context
<1>5. SubSeq(p, 1, k) \o <<p[l]>> = p
  <2>1. 1 \in 1..(l - k) /\ k + 1 = l
    BY <1>1 DEF k
  <2>2. SubSeq(p, 1, k) \o SubSeq(p, k + 1, k + 1) = SubSeq(p, 1, k + 1)
    BY <1>1, <2>1, NextPart
  <2>3. SubSeq(p, 1, l) = p
    BY SubSeqFull DEF Context
  <2>4. SubSeq(p, l, l) = <<p[l]>>
    <3>1. /\ SubSeq(p, k + 1, k + 1) \in Context /\ Len(SubSeq(p, k + 1, k + 1)) = 1
      BY <1>1, <2>1, NextPart
    <3>2. SubSeq(p, l, l)[1] = p[l]
      <4>1. l \in Int /\ \A i \in l..l : p[i] \in Token
        BY <1>1, <1>2
      <4>2. \A i \in 1..(l - l + 1) : SubSeq(p, l, l)[i] = p[l + i - 1]
        <5> HIDE DEF l
        <5> QED BY <4>1, SubSeqProperties
      <4>3. 1 \in 1..(l - l + 1) /\ l + 1 - 1 = l
        <5> HIDE DEF l
        <5> QED BY <1>1
      <4> QED BY <4>2, <4>3
    <3> DEFINE x == SubSeq(p, l, l)
               y == <<p[l]>>
    <3>3. x \in Context /\ Len(x) = 1 /\ x[1] = y[1] /\ y \in Context /\ Len(y) = 1
      BY <1>3, <2>1, <3>1, <3>2
    <3> HIDE DEF x, y
    <3>4. Len(x) = Len(y) /\ \A i \in 1..Len(x) : x[i] = y[i]
      BY <3>3
    <3>5. x = y
      BY <3>3, <3>4, SeqEqual DEF Context
    <3> QED BY <3>5 DEF x, y
  <2> QED BY <2>1, <2>2, <2>3, <2>4
<1> QED BY <1>1, <1>2, <1>3, <1>4, <1>5 DEF k

LEMMA ChunkStands ==
  ASSUME NEW p \in Context, NEW k \in 0..Len(p), NEW n \in 1..(Len(p) - k),
         NEW c, NEW m \in Nat \ {0, 1}, Stands(c, SubSeq(p, 1, k), m)
  PROVE  Stands(W!Fed(c, SubSeq(p, k + 1, k + n), m), SubSeq(p, 1, k + n), m)
<1> DEFINE w == SubSeq(p, k + 1, k + n)
<1>1. w \in Context /\ w # <<>> /\ SubSeq(p, 1, k) \o w = SubSeq(p, 1, k + n)
  BY NextPart
<1> HIDE DEF w
<1>2. Stands(W!Fed(c, w, m), SubSeq(p, 1, k) \o w, m)
  BY <1>1, FedStands
<1> QED BY <1>1, <1>2 DEF w

(***************************************************************************)
(* The Gemma 4 assistant runner                                            *)
(***************************************************************************)
LEMMA GemmaOps ==
  /\ \A c, w, m : G!Fed(c, w, m) = W!Fed(c, w, m)
  /\ \A c, s, m : G!StandFor(c, s, m) = W!StandFor(c, s, m)
  /\ \A c, w, m : G!HiddenOver(c, w, m) = W!HiddenOver(c, w, m)
  /\ \A c, m : G!CanTrim(c, m) = W!CanTrim(c, m)
  /\ \A s, n : G!First(s, n) = SubSeq(s, 1, n)
  /\ \A s, n : G!Drop(s, n) = W!Drop(s, n)
  /\ \A s, n : G!Final(s, n) = W!Final(s, n)
  /\ \A x, n, m : G!Rewound(x, n, m) = W!Rewound(x, n, m)
  /\ \A x, p : G!Extends(x, p) = W!Extends(x, p)
  /\ \A h : G!Draw(h) = Drawn(h)
  /\ \A s : G!Last(s) = s[Len(s)]
  /\ G!NoCache = W!NoCache
  /\ G!Invalid = W!Invalid
  /\ \A c, s : G!Published(c, s) = W!Published(c, s)
  /\ \A ts : G!Emitted(ts) = Emission(ts, budget - Len(out))
  /\ \A x, p : G!SessionTaken(x, p) = W!SessionTaken(x, p)
  /\ \A x, p : G!CacheTaken(x, p) = W!CacheTaken(x, p)
  /\ \A x, b, c : G!AfterFailure(x, b, c) = W!AfterFailure(x, b, c)
  /\ \A m, n : G!AtMost(m, n) = W!AtMost(m, n)
<1>1. \A s, n : G!First(s, n) = W!First(s, n) /\ G!First(s, n) = SubSeq(s, 1, n)
  BY DEF G!First, W!First
<1>2. \A m, n : G!AtMost(m, n) = W!AtMost(m, n)
  BY DEF G!AtMost, W!AtMost
<1>3. \A s, n : G!Drop(s, n) = W!Drop(s, n)
  BY <1>1 DEF G!Drop, W!Drop
<1>4. \A s, n : G!Final(s, n) = W!Final(s, n)
  BY <1>2 DEF G!Final, W!Final
<1>5. \A c, w, m : G!Fed(c, w, m) = W!Fed(c, w, m)
  BY <1>4 DEF G!Fed, W!Fed
<1>6. \A s, t : G!IsSuffix(s, t) = W!IsSuffix(s, t) /\ G!IsPrefix(s, t) = W!IsPrefix(s, t)
  BY DEF G!IsSuffix, W!IsSuffix, G!IsPrefix, W!IsPrefix, G!Reverse, W!Reverse
<1>7. \A c, s, m : G!StandFor(c, s, m) = W!StandFor(c, s, m)
  BY <1>2, <1>6 DEF G!StandFor, W!StandFor
<1>8. \A c, w, m : G!HiddenOver(c, w, m) = W!HiddenOver(c, w, m)
  BY <1>3, <1>5, <1>7 DEF G!HiddenOver, W!HiddenOver, G!Unknown, W!Unknown
<1>9. \A c, m : G!CanTrim(c, m) = W!CanTrim(c, m)
  BY DEF G!CanTrim, W!CanTrim
<1>10. \A c, n, m : G!Trimmed(c, n, m) = W!Trimmed(c, n, m)
  BY <1>3, <1>9 DEF G!Trimmed, W!Trimmed
<1>11. \A c, s : G!Published(c, s) = W!Published(c, s)
  BY DEF G!Published, W!Published
<1>12. \A x, n, m : G!Rewound(x, n, m) = W!Rewound(x, n, m)
  BY <1>3, <1>10, <1>11 DEF G!Rewound, W!Rewound
<1>13. G!NoCache = W!NoCache /\ G!Invalid = W!Invalid
  BY DEF G!NoCache, W!NoCache, G!Invalid, W!Invalid
<1>14. \A x, p : G!Extends(x, p) = W!Extends(x, p)
  BY <1>6 DEF G!Extends, W!Extends
<1>15. \A h : G!Draw(h) = Drawn(h)
  BY DEF G!Draw, Drawn, G!Unknown
<1>16. \A s : G!Last(s) = s[Len(s)]
  BY DEF G!Last
<1>17. \A ts : G!Emitted(ts) = Emission(ts, budget - Len(out))
  BY DEF G!Emitted, Emission, G!First, W!First, G!AtMost, W!AtMost
<1>18. \A x, p : G!SessionTaken(x, p) = W!SessionTaken(x, p)
  BY <1>13, <1>14 DEF G!SessionTaken, W!SessionTaken
<1>19. \A x, p : G!CacheTaken(x, p) = W!CacheTaken(x, p)
  BY <1>13, <1>14 DEF G!CacheTaken, W!CacheTaken
<1>20. \A x, b, c : G!AfterFailure(x, b, c) = W!AfterFailure(x, b, c)
  BY DEF G!AfterFailure, W!AfterFailure
<1> QED BY <1>1, <1>2, <1>3, <1>4, <1>5, <1>7, <1>8, <1>9, <1>11, <1>12, <1>13, <1>14, <1>15, <1>16,
           <1>17, <1>18, <1>19, <1>20

(* The calls of a windowed runner, between two of them.                    *)
WindowSessions == [has : BOOLEAN, processed : Context, c : Caches]

WindowType ==
  /\ knobs \in Nat \ {0, 1}
  /\ prompt \in Context /\ budget \in Nat /\ out \in Context
  /\ sess \in WindowSessions
  /\ sess.has => Stands(sess.c, sess.processed, knobs)

GemmaCalls == [c : Caches, shared : BOOLEAN, h : Context, boundary : Caches]

GemmaMore == Len(out) < budget /\ out[Len(out)] \notin Eos

(* What was said but the last token.                                       *)
Said == prompt \o SubSeq(out, 1, Len(out) - 1)

GemmaPrefilling ==
  st = "prefill" =>
    /\ prompt # <<>> /\ budget # 0 /\ out = <<>>
    /\ Len(gen.c.kv) < Len(prompt)
    /\ Stands(gen.c, SubSeq(prompt, 1, Len(gen.c.kv)), knobs)

GemmaDecoding ==
  st = "decode" =>
    /\ prompt # <<>> /\ out # <<>> /\ Len(out) <= budget
    /\ SubSeq(gen.c.kv, 1, Len(prompt)) = prompt
    /\ Stands(gen.boundary, prompt, knobs)
    /\ GemmaMore => Stands(gen.c, Said, knobs) /\ gen.h = Said

GemmaInv ==
  /\ WindowType
  /\ gen \in GemmaCalls
  /\ gen.shared => ~sess.has
  /\ GemmaPrefilling
  /\ GemmaDecoding

LEMMA FreshGemma ==
  /\ G!Fresh \in GemmaCalls /\ G!Fresh.shared = FALSE
  /\ W!Invalid \in WindowSessions /\ W!Invalid.has = FALSE
<1>1. W!NoCache \in Caches /\ <<>> \in Context
  BY EmptyStands, Nothing
<1> QED BY <1>1, GemmaOps DEF G!Fresh, GemmaCalls, W!Invalid, WindowSessions, G!Unknown

LEMMA GemmaInit ==
  ASSUME G!Init, knobs \in Nat \ {0, 1}
  PROVE  GemmaInv
<1>1. sess = W!Invalid /\ st = "idle" /\ prompt = <<>> /\ budget = 0 /\ out = <<>> /\ gen = G!Fresh
  BY GemmaOps DEF G!Init
<1>2. <<>> \in Context
  BY Nothing
<1> QED BY <1>1, <1>2, FreshGemma DEF GemmaInv, WindowType, GemmaPrefilling, GemmaDecoding

LEMMA RewoundSession ==
  ASSUME WindowType, sess.has, W!CanTrim(sess.c, knobs), NEW n \in 1..Len(sess.processed)
  PROVE  LET x == W!Rewound(sess, n, knobs)
         IN  x \in WindowSessions /\ x.has = TRUE /\ Stands(x.c, x.processed, knobs)
<1>1. knobs \in Nat /\ Stands(sess.c, sess.processed, knobs) /\ n \in 0..Len(sess.processed)
  BY DEF WindowType
<1>2. Stands(W!Trimmed(sess.c, n, knobs), W!Drop(sess.processed, n), knobs)
  BY <1>1, TrimmedStands
<1>3. W!Rewound(sess, n, knobs)
        = [has |-> TRUE, processed |-> W!Drop(sess.processed, n), c |-> W!Trimmed(sess.c, n, knobs)]
  BY DEF W!Rewound, W!Published
<1>4. W!Trimmed(sess.c, n, knobs) \in Caches /\ W!Drop(sess.processed, n) \in Context
  BY <1>2, StandsType
<1> QED BY <1>2, <1>3, <1>4 DEF WindowSessions

LEMMA GemmaRewind ==
  ASSUME GemmaInv, G!Rewind, UNCHANGED knobs
  PROVE  GemmaInv' /\ UNCHANGED <<prompt, budget, out>>
<1>1. PICK n \in 1..Len(sess.processed) :
        /\ st = "idle" /\ sess.has /\ W!CanTrim(sess.c, knobs) /\ sess' = W!Rewound(sess, n, knobs)
        /\ UNCHANGED <<st, prompt, budget, out, gen>>
  BY GemmaOps DEF G!Rewind
<1>2. sess' \in WindowSessions /\ sess'.has = TRUE /\ Stands(sess'.c, sess'.processed, knobs)
  BY <1>1, RewoundSession DEF GemmaInv
<1>3. ~gen.shared
  BY <1>1 DEF GemmaInv, GemmaCalls
<1> QED BY <1>1, <1>2, <1>3 DEF GemmaInv, WindowType, GemmaPrefilling, GemmaDecoding

(* A call takes the session over if its prompt extends it.                 *)
LEMMA SessionTakenFacts ==
  ASSUME WindowType, NEW p \in Context, p # <<>>
  PROVE  LET t == W!SessionTaken(sess, p)
             c == W!CacheTaken(sess, p)
         IN  /\ t \in WindowSessions /\ W!Extends(sess, p) \in BOOLEAN
             /\ t.has => Stands(t.c, t.processed, knobs)
             /\ W!Extends(sess, p) => t.has = FALSE
             /\ c \in Caches /\ Len(c.kv) \in Nat /\ Len(c.kv) < Len(p)
             /\ Stands(c, SubSeq(p, 1, Len(c.kv)), knobs)
<1>1. sess \in WindowSessions /\ (sess.has => Stands(sess.c, sess.processed, knobs))
      /\ knobs \in Nat \ {0, 1}
  BY DEF WindowType
<1>2. Len(p) \in Nat /\ Len(p) # 0
  BY Nothing
<1>3. CASE W!Extends(sess, p)
  <2>1. W!SessionTaken(sess, p) = W!Invalid /\ W!CacheTaken(sess, p) = sess.c
    BY <1>3 DEF W!SessionTaken, W!CacheTaken
  <2> DEFINE s == sess.processed
             n == Len(s)
  <2>2. s \in Context /\ n \in Nat /\ n < Len(p) /\ Stands(sess.c, s, knobs)
        /\ SubSeq(s, 1, n) = SubSeq(p, 1, n)
    BY <1>1, <1>3, Nothing DEF W!Extends, W!IsPrefix, WindowSessions
  <2>3. SubSeq(s, 1, n) = s
    BY <2>2, SubSeqFull DEF Context
  <2>4. sess.c \in Caches /\ sess.c.kv = s
    BY <2>2, StandsType
  <2> HIDE DEF s
  <2> QED BY <1>3, <2>1, <2>2, <2>3, <2>4, FreshGemma DEF W!Extends
<1>4. CASE ~W!Extends(sess, p)
  <2>1. W!SessionTaken(sess, p) = sess /\ W!CacheTaken(sess, p) = W!NoCache
    BY <1>4 DEF W!SessionTaken, W!CacheTaken
  <2>2. W!NoCache \in Caches /\ Stands(W!NoCache, <<>>, knobs)
    BY EmptyStands
  <2>3. W!NoCache.kv = <<>> /\ Len(<<>>) = 0 /\ SubSeq(p, 1, 0) = <<>>
    BY Nothing, SubSeqEmpty DEF W!NoCache
  <2>4. W!Extends(sess, p) \in BOOLEAN
    BY DEF W!Extends
  <2> HIDE DEF W!Extends
  <2>5. Len(W!NoCache.kv) = 0 /\ SubSeq(p, 1, Len(W!NoCache.kv)) = <<>>
    BY <2>3
  <2>6. 0 < Len(p) /\ 0 \in Nat
    BY <1>2
  <2>7. Stands(W!NoCache, SubSeq(p, 1, Len(W!NoCache.kv)), knobs)
    BY <2>2, <2>5
  <2> QED BY <1>1, <1>4, <2>1, <2>2, <2>4, <2>5, <2>6, <2>7
<1> QED BY <1>3, <1>4

LEMMA PlainAsk ==
  ASSUME prompt' \in Context, prompt' # <<>>, budget' \in Nat, out' = <<>>
  PROVE  Plain!Ask
BY DEF Plain!Ask, Context

LEMMA GemmaBegin ==
  ASSUME GemmaInv, G!Begin, UNCHANGED knobs
  PROVE  GemmaInv' /\ Plain!Ask
<1>1. /\ prompt' \in GemmaPrompts /\ budget' \in Budgets /\ out' = <<>>
      /\ sess' = W!SessionTaken(sess, prompt')
  BY GemmaOps DEF G!Begin
<1>2. prompt' \in Context /\ prompt' # <<>> /\ budget' \in Nat
  BY <1>1, GemmaAssumption DEF G!PromptsAssumption, Context
<1> DEFINE c == W!CacheTaken(sess, prompt')
<1>3. /\ sess' \in WindowSessions /\ W!Extends(sess, prompt') \in BOOLEAN
      /\ sess'.has => Stands(sess'.c, sess'.processed, knobs)
      /\ W!Extends(sess, prompt') => sess'.has = FALSE
      /\ c \in Caches /\ Len(c.kv) \in Nat /\ Len(c.kv) < Len(prompt')
      /\ Stands(c, SubSeq(prompt', 1, Len(c.kv)), knobs)
  BY <1>1, <1>2, SessionTakenFacts DEF GemmaInv
<1>4. WindowType'
  BY <1>1, <1>2, <1>3, Nothing DEF WindowType, GemmaInv
<1>5. CASE budget' = 0
  <2>1. st' = "idle" /\ gen' = gen
    BY <1>5 DEF G!Begin
  <2>2. gen.shared => ~sess'.has
    <3>1. sess' = sess \/ sess' = W!Invalid
      BY <1>1 DEF W!SessionTaken
    <3> QED BY <3>1, FreshGemma DEF GemmaInv
  <2> QED BY <1>1, <1>2, <1>4, <2>1, <2>2, PlainAsk DEF GemmaInv, GemmaPrefilling, GemmaDecoding
<1>6. CASE budget' # 0
  <2>1. st' = "prefill" /\ gen' = [G!Fresh EXCEPT !.c = c, !.shared = W!Extends(sess, prompt')]
    BY <1>6, GemmaOps DEF G!Begin
  <2> HIDE DEF c
  <2>2. gen' \in GemmaCalls /\ gen'.c = c /\ gen'.shared = W!Extends(sess, prompt')
    BY <1>3, <2>1, FreshGemma DEF GemmaCalls
  <2>3. GemmaPrefilling' /\ GemmaDecoding'
    BY <1>1, <1>2, <1>3, <1>4, <1>6, <2>1, <2>2 DEF GemmaPrefilling, GemmaDecoding, GemmaInv, WindowType
  <2> QED BY <1>1, <1>2, <1>3, <1>4, <2>2, <2>3, PlainAsk DEF GemmaInv
<1> QED BY <1>5, <1>6

LEMMA GemmaPrefillChunk ==
  ASSUME GemmaInv, G!PrefillChunk, UNCHANGED knobs
  PROVE  GemmaInv' /\ UNCHANGED <<prompt, budget, out>>
<1> DEFINE k == Len(gen.c.kv)
           n == W!AtMost(PrefillStep, G!Left - 1)
           c == W!Fed(gen.c, SubSeq(prompt, k + 1, k + n), knobs)
<1>1. /\ st = "prefill" /\ G!Left > 1 /\ gen' = [gen EXCEPT !.c = c]
      /\ UNCHANGED <<sess, st, prompt, budget, out>>
  BY GemmaOps DEF G!PrefillChunk, G!Absorb
<1>2. /\ WindowType /\ gen \in GemmaCalls /\ (gen.shared => ~sess.has)
      /\ prompt # <<>> /\ budget # 0 /\ out = <<>> /\ k < Len(prompt)
      /\ Stands(gen.c, SubSeq(prompt, 1, k), knobs)
  BY <1>1 DEF GemmaInv, GemmaPrefilling
<1>3. PrefillStep \in Nat \ {0} /\ knobs \in Nat \ {0, 1} /\ prompt \in Context
  BY <1>2, GemmaAssumption DEF G!SizesAssumption, WindowType
<1>4. k \in 0..Len(prompt) /\ n \in 1..(Len(prompt) - k) /\ k + n < Len(prompt)
  <2> DEFINE l == Len(prompt)
  <2>1. k \in Nat /\ l \in Nat
    <3>1. gen.c.kv \in Context
      BY <1>2, StandsType
    <3> QED BY <1>3, <3>1, Nothing
  <2>2. G!Left = l - k
    BY DEF G!Left
  <2>3. n = W!AtMost(PrefillStep, (l - k) - 1) /\ l - k > 1
    BY <1>1, <2>2
  <2> HIDE DEF k, l, n
  <2>4. n \in 1..((l - k) - 1)
    BY <1>3, <2>1, <2>3 DEF W!AtMost
  <2>5. k \in 0..l /\ n \in 1..(l - k) /\ k + n < l
    BY <2>1, <2>3, <2>4
  <2> QED BY <2>5 DEF l
<1> HIDE DEF n, k
<1>5. Stands(c, SubSeq(prompt, 1, k + n), knobs)
  BY <1>2, <1>3, <1>4, ChunkStands
<1>6. c \in Caches /\ c.kv = SubSeq(prompt, 1, k + n) /\ Len(c.kv) = k + n
  <2>1. k + n \in 0..Len(prompt)
    BY <1>3, <1>4, NextPart
  <2>2. Len(SubSeq(prompt, 1, k + n)) = k + n
    BY <1>3, <2>1, FirstPart DEF Context
  <2> QED BY <1>5, <2>2, StandsType
<1> HIDE DEF c
<1>7. gen' \in GemmaCalls /\ gen'.c = c /\ gen'.shared = gen.shared
  BY <1>1, <1>2, <1>6 DEF GemmaCalls
<1>8. WindowType'
  BY <1>1, <1>2 DEF WindowType
<1>9. GemmaPrefilling' /\ GemmaDecoding'
  BY <1>1, <1>2, <1>4, <1>5, <1>6, <1>7 DEF GemmaPrefilling, GemmaDecoding
<1> QED BY <1>1, <1>2, <1>7, <1>8, <1>9 DEF GemmaInv

(* An answer of one token, drawn from the end of the prompt.               *)
LEMMA FirstEmits ==
  ASSUME Speaks, NEW p \in Context, p # <<>>, NEW b \in Nat \ {0}, NEW y \in Drawn(p)
  PROVE  <<y>> \in Context /\ y \in Token /\ EmitOf(p, b, <<>>, <<y>>)
<1>1. p \o <<>> = p /\ <<>> \in Context /\ Len(<<>>) = 0
  BY Nothing
<1>2. Drawn(p) = Support(p) /\ Drawn(p) \subseteq Token
  BY <1>1, DrawnIsSupport
<1>3. y \in Token /\ <<y>> \in Context /\ Len(<<y>>) = 1 /\ <<y>>[1] = y
  BY <1>2 DEF Context
<1> DEFINE ts == <<y>>
<1>4. SubSeq(ts, 1, 0) = <<>>
  BY SubSeqEmpty
<1>5. ts \in Context /\ Len(ts) = 1 /\ ts[1] = y /\ ts # <<>>
  BY <1>1, <1>3
<1> HIDE DEF ts
<1>6. Answerable(p \o <<>>, ts)
  <2>1. ts[1] \in Support((p \o <<>>) \o SubSeq(ts, 1, 1 - 1))
    <3>1. SubSeq(ts, 1, 1 - 1) = <<>>
      BY <1>4
    <3>2. (p \o <<>>) \o <<>> = p
      BY <1>1
    <3>3. (p \o <<>>) \o SubSeq(ts, 1, 1 - 1) = p
      BY <3>1, <3>2
    <3>4. ts[1] \in Support(p)
      BY <1>2, <1>5
    <3> QED BY <3>3, <3>4
  <2>2. \A i \in 1..Len(ts) : i = 1
    BY <1>5
  <2> QED BY <2>1, <2>2 DEF Answerable
<1>7. NoEnd(ts) /\ GoesOn(<<>>)
  BY <1>5 DEF NoEnd, GoesOn
<1>8. Len(<<>>) + Len(ts) <= b
  BY <1>1, <1>5
<1>9. EmitOf(p, b, <<>>, <<>> \o ts)
  BY <1>1, <1>5, <1>6, <1>7, <1>8, BlockEmits
<1>10. <<>> \o ts = ts
  BY <1>5, Nothing
<1> QED BY <1>3, <1>9, <1>10 DEF ts

LEMMA GemmaFirstToken ==
  ASSUME Speaks, GemmaInv, G!FirstToken, UNCHANGED knobs
  PROVE  GemmaInv' /\ Plain!Emit
<1> DEFINE k == Len(gen.c.kv)
           w == <<G!Last(prompt)>>
           c == W!Fed(gen.c, SubSeq(prompt, k + 1, k + 1), knobs)
           h == W!HiddenOver(gen.c, <<prompt[Len(prompt)]>>, knobs)[1]
<1>1. /\ st = "prefill" /\ G!Left = 1 /\ gen' = [gen EXCEPT !.c = c, !.h = h, !.boundary = c]
      /\ (\E y \in Drawn(h) : out' = <<y>>) /\ st' = "decode" /\ UNCHANGED <<sess, prompt, budget>>
  BY GemmaOps DEF G!FirstToken, G!Absorb, G!Boundary
<1>2. /\ WindowType /\ gen \in GemmaCalls /\ (gen.shared => ~sess.has)
      /\ prompt # <<>> /\ budget # 0 /\ out = <<>> /\ k < Len(prompt)
      /\ Stands(gen.c, SubSeq(prompt, 1, k), knobs)
  BY <1>1 DEF GemmaInv, GemmaPrefilling
<1>3. knobs \in Nat \ {0, 1} /\ prompt \in Context /\ budget \in Nat
  BY <1>2 DEF WindowType
<1>4. k + 1 = Len(prompt) /\ k \in 0..Len(prompt) /\ 1 \in 1..(Len(prompt) - k) /\ k = Len(prompt) - 1
  <2> DEFINE l == Len(prompt)
  <2>1. k \in Nat /\ l \in Nat
    <3>1. gen.c.kv \in Context
      BY <1>2, StandsType
    <3> QED BY <1>3, <3>1, Nothing
  <2>2. l - k = 1
    BY <1>1 DEF G!Left
  <2> HIDE DEF k, l
  <2>3. k + 1 = l /\ k \in 0..l /\ 1 \in 1..(l - k) /\ k = l - 1
    BY <2>1, <2>2
  <2> QED BY <2>3 DEF l
<1>5. SubSeq(prompt, 1, Len(prompt)) = prompt
  BY <1>3, SubSeqFull DEF Context
<1> HIDE DEF k
<1>6. Stands(c, prompt, knobs)
  <2>1. Stands(c, SubSeq(prompt, 1, k + 1), knobs)
    BY <1>2, <1>3, <1>4, ChunkStands
  <2> QED BY <1>4, <1>5, <2>1
<1>7. h = prompt
  <2> DEFINE v == <<prompt[Len(prompt)]>>
             s == SubSeq(prompt, 1, Len(prompt) - 1)
  <2>1. v \in Context /\ s \in Context /\ s \o v = prompt /\ v # <<>> /\ Len(v) = 1 /\ Stands(gen.c, s, knobs)
    <3>1. Stands(gen.c, s, knobs)
      BY <1>2, <1>4
    <3> QED BY <1>2, <1>3, <3>1, LastApart
  <2> HIDE DEF v, s
  <2>2. 1 \in 1..Len(v) /\ SubSeq(v, 1, 1) = v
    <3>1. SubSeq(v, 1, Len(v)) = v
      BY <2>1, SubSeqFull DEF Context
    <3> QED BY <2>1, <3>1
  <2>3. W!HiddenOver(gen.c, v, knobs)[1] = s \o SubSeq(v, 1, 1)
    BY <1>3, <2>1, <2>2, HiddenStands
  <2> QED BY <2>1, <2>2, <2>3 DEF v
<1> HIDE DEF c, h
<1>8. c \in Caches /\ c.kv = prompt
  BY <1>6, StandsType
<1>9. PICK y \in Drawn(prompt) : out' = <<y>>
  BY <1>1, <1>7
<1>10. <<y>> \in Context /\ EmitOf(prompt, budget, <<>>, <<y>>)
  BY <1>2, <1>3, FirstEmits
<1>11. gen' \in GemmaCalls /\ gen'.c = c /\ gen'.shared = gen.shared /\ gen'.boundary = c /\ gen'.h = prompt
  BY <1>1, <1>2, <1>3, <1>7, <1>8 DEF GemmaCalls
<1>12. WindowType'
  BY <1>1, <1>2, <1>9, <1>10 DEF WindowType
<1>13. GemmaPrefilling'
  BY <1>1 DEF GemmaPrefilling
<1>14. Len(out') = 1 /\ out' # <<>> /\ Len(out') <= budget' /\ out' \in Context
  <2>1. Len(<<y>>) = 1 /\ <<y>> # <<>>
    OBVIOUS
  <2>2. 1 <= budget
    BY <1>2, <1>3
  <2> QED BY <1>1, <1>9, <1>10, <2>1, <2>2
<1>15. Said' = prompt
  <2>1. SubSeq(out', 1, Len(out') - 1) = <<>>
    <3>1. Len(out') - 1 = 0
      BY <1>14
    <3>2. SubSeq(out', 1, 0) = <<>>
      BY <1>14, SubSeqEmpty DEF Context
    <3> QED BY <3>1, <3>2
  <2>2. prompt \o <<>> = prompt
    BY <1>3, Nothing
  <2> QED BY <1>1, <2>1, <2>2 DEF Said
<1>16. GemmaDecoding'
  BY <1>1, <1>2, <1>5, <1>6, <1>8, <1>11, <1>14, <1>15 DEF GemmaDecoding
<1>17. Plain!Emit
  BY <1>1, <1>2, <1>9, <1>10, PlainEmit
<1> QED BY <1>1, <1>2, <1>11, <1>12, <1>13, <1>16, <1>17 DEF GemmaInv

(* A forward of the token to feed next and of a draft.                     *)
Follows(s, z, d) ==
  LET fed == <<z>> \o d
  IN  /\ fed \in Context /\ fed # <<>> /\ Len(fed) = Len(d) + 1 /\ Len(d) \in Nat
      /\ s \o <<z>> \in Context
      /\ \A j \in 1..(Len(d) + 1) : s \o SubSeq(fed, 1, j) = (s \o <<z>>) \o SubSeq(d, 1, j - 1)

LEMMA DraftFollows ==
  ASSUME NEW s \in Context, NEW z \in Token, NEW d \in Context
  PROVE  Follows(s, z, d)
<1> DEFINE v == <<z>>
           fed == v \o d
<1>1. v \in Context /\ Len(v) = 1
  BY DEF Context
<1> HIDE DEF v
<1>2. fed \in Context /\ Len(fed) = 1 + Len(d) /\ Len(d) \in Nat /\ s \o v \in Context
  BY <1>1, Joined
<1>3. fed # <<>>
  <2>1. Len(fed) # 0
    BY <1>2
  <2> QED BY <1>2, <2>1, Nothing
<1>4. ASSUME NEW j \in 1..(Len(d) + 1)
      PROVE  s \o SubSeq(fed, 1, j) = (s \o v) \o SubSeq(d, 1, j - 1)
  <2>1. j - 1 \in 0..Len(d) /\ Len(v) + (j - 1) = j
    BY <1>1, <1>2
  <2> DEFINE x == SubSeq(d, 1, j - 1)
  <2>2. SubSeq(fed, 1, Len(v) + (j - 1)) = v \o x
    BY <1>1, <2>1, FirstOfBoth DEF Context
  <2>3. x \in Context
    BY <2>1, FirstPart DEF Context
  <2> HIDE DEF x
  <2>4. Lists(s, v, x)
    BY <1>1, <2>3 DEF Lists
  <2>5. s \o (v \o x) = (s \o v) \o x
    BY <2>4, CutBefore
  <2> QED BY <2>1, <2>2, <2>5 DEF x
<1> HIDE DEF fed
<1>5. Len(fed) = Len(d) + 1
  BY <1>2
<1> QED BY <1>2, <1>3, <1>4, <1>5 DEF Follows, fed, v

(* What the forward of the token to feed next and of a draft says.         *)
SaysAfter(c, s, z, d, m) ==
  LET fed == <<z>> \o d
  IN  /\ fed \in Context /\ fed # <<>> /\ Len(fed) = Len(d) + 1 /\ Len(d) \in Nat
      /\ s \o <<z>> \in Context
      /\ \A j \in 1..(Len(d) + 1) :
           /\ s \o SubSeq(fed, 1, j) = (s \o <<z>>) \o SubSeq(d, 1, j - 1)
           /\ W!HiddenOver(c, fed, m)[j] = (s \o <<z>>) \o SubSeq(d, 1, j - 1)

LEMMA DraftHidden ==
  ASSUME NEW m \in Nat \ {0, 1}, NEW c, NEW s, Stands(c, s, m), NEW z \in Token, NEW d \in Context
  PROVE  SaysAfter(c, s, z, d, m)
<1> DEFINE fed == <<z>> \o d
<1>1. s \in Context
  BY StandsType
<1>2. Follows(s, z, d)
  BY <1>1, DraftFollows
<1>3. /\ fed \in Context /\ fed # <<>> /\ Len(fed) = Len(d) + 1 /\ Len(d) \in Nat
      /\ s \o <<z>> \in Context
      /\ \A j \in 1..(Len(d) + 1) : s \o SubSeq(fed, 1, j) = (s \o <<z>>) \o SubSeq(d, 1, j - 1)
  BY <1>2 DEF Follows
<1> HIDE DEF fed
<1>4. ASSUME NEW j \in 1..(Len(d) + 1)
      PROVE  W!HiddenOver(c, fed, m)[j] = s \o SubSeq(fed, 1, j)
  <2>1. j \in 1..Len(fed)
    BY <1>3
  <2> QED BY <1>3, <2>1, HiddenStands, SMTT(30)
<1>5. ASSUME NEW j \in 1..(Len(d) + 1)
      PROVE  /\ s \o SubSeq(fed, 1, j) = (s \o <<z>>) \o SubSeq(d, 1, j - 1)
             /\ W!HiddenOver(c, fed, m)[j] = (s \o <<z>>) \o SubSeq(d, 1, j - 1)
  <2>1. s \o SubSeq(fed, 1, j) = (s \o <<z>>) \o SubSeq(d, 1, j - 1)
    BY <1>3
  <2> QED BY <1>4, <2>1
<1> QED BY <1>3, <1>5 DEF SaysAfter, fed

(* All but the last of an answer that ends with a block.                   *)
LEMMA BeforeLast ==
  ASSUME NEW o \in Context, NEW f \in Context, NEW y \in Token
  PROVE  /\ o \o (f \o <<y>>) \in Context /\ Len(o \o (f \o <<y>>)) = Len(o) + Len(f) + 1
         /\ SubSeq(o \o (f \o <<y>>), 1, Len(o \o (f \o <<y>>)) - 1) = o \o f
<1> DEFINE v == <<y>>
           of == o \o f
           u == of \o v
<1>1. v \in Context /\ Len(v) = 1
  BY DEF Context
<1> HIDE DEF v
<1>2. Lists(o, f, v)
  BY <1>1 DEF Lists
<1>3. of \in Context /\ o \o (f \o v) = u
  BY <1>2, CutBefore
<1>4. Len(of) = Len(o) + Len(f) /\ Len(o) \in Nat /\ Len(f) \in Nat
  BY Joined
<1> HIDE DEF of
<1>5. u \in Context /\ Len(u) = Len(of) + 1
  BY <1>1, <1>3, Joined
<1>6. SubSeq(u, 1, Len(of)) = of
  <2>1. Len(of) \in 0..Len(of)
    BY <1>4
  <2>2. SubSeq(of \o v, 1, Len(of)) = SubSeq(of, 1, Len(of))
    BY <1>1, <1>3, <2>1, FirstOfConcat DEF Context
  <2>3. SubSeq(of, 1, Len(of)) = of
    BY <1>3, SubSeqFull DEF Context
  <2> QED BY <2>2, <2>3
<1> HIDE DEF u
<1>7. Len(u) - 1 = Len(of) /\ Len(u) = Len(o) + Len(f) + 1
  BY <1>4, <1>5
<1> QED BY <1>3, <1>5, <1>6, <1>7 DEF of, v

(* Of the block of the first a drafts d and of y, the first tokens go to   *)
(* the answer, up to max_tokens and the first end.                         *)
BlockTaken(p, o, b, d, a, y) ==
  LET ts == SubSeq(d, 1, a) \o <<y>>
      e == Emission(ts, b - Len(o))
  IN  /\ y \in Token /\ ts \in Context /\ Len(ts) = a + 1 /\ ts[a + 1] = y
      /\ \E k \in 1..(a + 1) :
           /\ e = SubSeq(ts, 1, k) /\ k <= b - Len(o) /\ e \in Context /\ Len(e) = k
           /\ o \o e \in Context /\ Len(o \o e) = Len(o) + k
           /\ (o \o e)[Len(o \o e)] = ts[k]
           /\ EmitOf(p, b, o, o \o e)
           /\ k < a + 1 => k = b - Len(o) \/ ts[k] \in Eos

(* A block of drafts that were agreed with and of the model's own word, as *)
(* far as the answer takes it.                                             *)
LEMMA AnswerBlock ==
  ASSUME Speaks, NEW p \in Context, NEW o \in Context, NEW b \in Nat, Len(o) < b, GoesOn(o),
         p \o o # <<>>, NEW d \in Context, NEW a \in 0..Len(d), NEW h,
         \A i \in 1..(a + 1) : h[i] = (p \o o) \o SubSeq(d, 1, i - 1),
         \A i \in 1..a : d[i] \in Drawn(h[i]),
         NEW y \in Drawn(h[a + 1])
  PROVE  BlockTaken(p, o, b, d, a, y)
<1> DEFINE c == p \o o
           ts == SubSeq(d, 1, a) \o <<y>>
           n == b - Len(o)
           e == Emission(ts, n)
<1>1. c \in Context /\ Len(o) \in Nat /\ n \in Nat \ {0}
  <2>1. c \in Context /\ Len(o) \in Nat
    BY Joined
  <2> DEFINE l == Len(o)
  <2>2. l \in Nat /\ l < b
    BY <2>1
  <2> HIDE DEF l
  <2>3. b - l \in Nat \ {0}
    BY <2>2
  <2> QED BY <2>1, <2>3 DEF l
<1> HIDE DEF c, n
<1>2. y \in Token /\ ts \in Context /\ Len(ts) = a + 1 /\ ts[a + 1] = y /\ Answerable(c, ts)
  BY <1>1, VerifiedBlock DEF c
<1> HIDE DEF ts
<1>3. ts # <<>>
  <2>1. Len(d) \in Nat
    BY Nothing
  <2>2. Len(ts) # 0
    BY <1>2, <2>1
  <2> QED BY <1>2, <2>2, Nothing
<1>4. PICK k \in 1..Len(ts) :
        /\ e = SubSeq(ts, 1, k) /\ k <= n
        /\ SubSeq(ts, 1, k) \in Context /\ Len(SubSeq(ts, 1, k)) = k
        /\ SubSeq(ts, 1, k)[k] = ts[k]
        /\ NoEnd(SubSeq(ts, 1, k))
        /\ k < Len(ts) => k = n \/ ts[k] \in Eos
  BY <1>1, <1>2, <1>3, EmissionFacts
<1> HIDE DEF e
<1>5. k \in 0..Len(ts) /\ k \in 1..(a + 1)
  BY <1>2
<1>6. Answerable(c, e)
  BY <1>2, <1>4, <1>5, FirstAnswerable
<1>7. e # <<>> /\ NoEnd(e) /\ e \in Context /\ Len(e) = k /\ e[k] = ts[k]
  <2>1. Len(e) # 0 /\ e \in Context
    BY <1>4, <1>5
  <2> QED BY <1>4, <2>1, Nothing
<1>8. Len(o) + Len(e) <= b
  <2>1. Len(o) + k <= b
    <3> DEFINE l == Len(o)
    <3>1. l \in Nat /\ k <= b - l /\ k \in 1..(a + 1)
      BY <1>1, <1>4, <1>5 DEF n
    <3> HIDE DEF l
    <3>2. l + k <= b
      <4>1. k \in Int
        BY <3>1
      <4> QED BY <3>1, <4>1
    <3> QED BY <3>2 DEF l
  <2> QED BY <1>7, <2>1
<1>9. o \o e \in Context /\ EmitOf(p, b, o, o \o e)
  BY <1>6, <1>7, <1>8, BlockEmits DEF c
<1>10. Len(o \o e) = Len(o) + k /\ (o \o e)[Len(o \o e)] = ts[k]
  <2> DEFINE l == Len(o)
             m == Len(o \o e)
  <2>1. m = l + k /\ l \in Nat /\ \A i \in 1..(l + k) : (o \o e)[i] = IF i <= l THEN o[i] ELSE e[i - l]
    BY <1>1, <1>7, ConcatProperties DEF Context
  <2> HIDE DEF l, m
  <2>2. m \in 1..(l + k) /\ ~(m <= l) /\ m - l = k
    BY <1>5, <2>1
  <2>3. (o \o e)[m] = e[k]
    BY <2>1, <2>2
  <2> QED BY <1>7, <2>1, <2>3 DEF l, m
<1> QED BY <1>2, <1>4, <1>5, <1>7, <1>9, <1>10 DEF n, e, ts, BlockTaken

(* A step of an answer that goes on from what was said but the last token. *)
LEMMA SaidFacts ==
  ASSUME prompt \in Context, out \in Context, out # <<>>
  PROVE  /\ out[Len(out)] \in Token /\ Said \in Context
         /\ Said \o <<out[Len(out)]>> = prompt \o out
<1> DEFINE f == SubSeq(out, 1, Len(out) - 1)
           v == <<out[Len(out)]>>
<1>1. f \in Context /\ v \in Context /\ f \o v = out /\ out[Len(out)] \in Token
  BY LastApart
<1> HIDE DEF f, v
<1>2. Lists(prompt, f, v)
  BY <1>1 DEF Lists
<1>3. prompt \o f \in Context /\ prompt \o (f \o v) = (prompt \o f) \o v
  BY <1>2, CutBefore
<1> QED BY <1>1, <1>3 DEF Said, f, v

LEMMA GemmaRound ==
  ASSUME Speaks, GemmaInv, G!Round, UNCHANGED knobs
  PROVE  GemmaInv' /\ Plain!Emit
<1> DEFINE z == out[Len(out)]
           c == prompt \o out
<1>1. PICK d \in [1..G!DraftCount -> Token] :
        \E ans \in G!Answers(d, W!HiddenOver(gen.c, <<z>> \o d, knobs)) :
          /\ out' = out \o Emission(SubSeq(d, 1, ans.accepted) \o <<ans.bonus>>, budget - Len(out))
          /\ gen' = [gen EXCEPT
               !.c = G!RolledBack(W!Fed(gen.c, <<z>> \o d, knobs), Len(d) - ans.accepted),
               !.h = W!HiddenOver(gen.c, <<z>> \o d, knobs)[ans.accepted + 1]]
  BY GemmaOps DEF G!Round
<1>2. st = "decode" /\ GemmaMore /\ UNCHANGED <<sess, st, prompt, budget>>
  BY GemmaOps DEF G!Round, G!More, GemmaMore
<1>3. /\ WindowType /\ gen \in GemmaCalls /\ (gen.shared => ~sess.has)
      /\ prompt # <<>> /\ out # <<>> /\ Stands(gen.boundary, prompt, knobs)
      /\ Stands(gen.c, Said, knobs)
  BY <1>2 DEF GemmaInv, GemmaDecoding
<1>4. knobs \in Nat \ {0, 1} /\ prompt \in Context /\ out \in Context /\ budget \in Nat
  BY <1>3 DEF WindowType
<1>5. z \in Token /\ Said \in Context /\ Said \o <<z>> = c /\ Len(out) < budget /\ GoesOn(out)
  BY <1>2, <1>3, <1>4, SaidFacts DEF GemmaMore, GoesOn
<1>6. d \in Context
  <2>1. G!DraftCount \in Nat
    <3> DEFINE l == Len(out)
    <3>1. l \in Nat /\ l < budget /\ BlockSize \in Nat \ {0}
      BY <1>4, <1>5, Nothing, GemmaAssumption DEF G!SizesAssumption
    <3>2. G!DraftCount = W!AtMost(BlockSize - 1, budget - l - 1)
      BY GemmaOps DEF G!DraftCount
    <3> HIDE DEF l
    <3>3. budget - l - 1 \in Nat /\ BlockSize - 1 \in Nat
      BY <1>4, <3>1
    <3> QED BY <3>2, <3>3 DEF W!AtMost
  <2> QED BY <2>1 DEF Context
<1> DEFINE fed == <<z>> \o d
           h == W!HiddenOver(gen.c, fed, knobs)
<1>7. PICK ans \in G!Answers(d, h) :
        /\ out' = out \o Emission(SubSeq(d, 1, ans.accepted) \o <<ans.bonus>>, budget - Len(out))
        /\ gen' = [gen EXCEPT !.c = G!RolledBack(W!Fed(gen.c, fed, knobs), Len(d) - ans.accepted),
                              !.h = h[ans.accepted + 1]]
  BY <1>1
<1> DEFINE a == ans.accepted
           y == ans.bonus
           f == SubSeq(d, 1, a)
           ts == f \o <<y>>
           e == Emission(ts, budget - Len(out))
           cache == G!RolledBack(W!Fed(gen.c, fed, knobs), Len(d) - a)
<1>8. a \in 0..Len(d) /\ (\A i \in 1..a : d[i] \in Drawn(h[i])) /\ y \in Drawn(h[a + 1])
  <2>1. \E a0 \in {b \in 0..Len(d) : \A i \in 1..b : d[i] \in G!Draw(h[i])} :
          \E y0 \in G!Draw(h[a0 + 1]) \ (IF a0 < Len(d) THEN {d[a0 + 1]} ELSE {}) :
            ans = [accepted |-> a0, bonus |-> y0]
    <3> HIDE DEF h
    <3> QED BY <1>7 DEF G!Answers
  <2>2. PICK a0 \in 0..Len(d) :
          /\ \A i \in 1..a0 : d[i] \in G!Draw(h[i])
          /\ \E y0 \in G!Draw(h[a0 + 1]) : ans = [accepted |-> a0, bonus |-> y0]
    BY <2>1
  <2>3. a = a0 /\ y \in G!Draw(h[a0 + 1])
    BY <2>2
  <2> HIDE DEF h, a, y
  <2> QED BY <2>2, <2>3, GemmaOps
<1> HIDE DEF z, a, y
<1>9. /\ fed \in Context /\ fed # <<>> /\ Len(fed) = Len(d) + 1 /\ Len(d) \in Nat /\ c \in Context
      /\ \A j \in 1..(Len(d) + 1) : /\ Said \o SubSeq(fed, 1, j) = c \o SubSeq(d, 1, j - 1)
                                    /\ h[j] = c \o SubSeq(d, 1, j - 1)
  <2>0. knobs \in Nat \ {0, 1} /\ Stands(gen.c, Said, knobs) /\ z \in Token /\ d \in Context
    BY <1>3, <1>4, <1>5, <1>6
  <2> HIDE DEF c
  <2>1. /\ fed \in Context /\ fed # <<>> /\ Len(fed) = Len(d) + 1 /\ Len(d) \in Nat
        /\ Said \o <<z>> \in Context
        /\ \A j \in 1..(Len(d) + 1) :
             /\ Said \o SubSeq(fed, 1, j) = (Said \o <<z>>) \o SubSeq(d, 1, j - 1)
             /\ h[j] = (Said \o <<z>>) \o SubSeq(d, 1, j - 1)
    <3>1. SaysAfter(gen.c, Said, z, d, knobs)
      BY <2>0, DraftHidden
    <3> QED BY <3>1 DEF SaysAfter
  <2> HIDE DEF fed, h
  <2>2. Said \o <<z>> = c
    BY <1>5 DEF c
  <2> QED BY <2>1, <2>2
<1> HIDE DEF fed, h
<1>10. /\ a + 1 \in 1..(Len(d) + 1) /\ (a + 1) - 1 = a
       /\ \A i \in 1..(a + 1) : i \in 1..(Len(d) + 1)
  BY <1>8, <1>9
<1>11. h[a + 1] = c \o f /\ Said \o SubSeq(fed, 1, a + 1) = c \o f /\ f \in Context /\ Len(f) = a
  BY <1>6, <1>8, <1>9, <1>10, FirstPart DEF Context
<1> HIDE DEF c
<1>12. c # <<>>
  <2>1. Len(c) = Len(prompt) + Len(out) /\ Len(prompt) \in Nat /\ Len(out) \in Nat
    BY <1>4, Joined DEF c
  <2>2. Len(out) # 0
    BY <1>3, <1>4, Nothing
  <2>3. Len(c) # 0
    BY <2>1, <2>2
  <2> QED BY <1>9, <2>3, Nothing
<1>13. Stands(cache, c \o f, knobs)
  <2>1. CASE a = Len(d)
    <3>1. cache = W!Fed(gen.c, fed, knobs)
      <4>1. Len(d) - a = 0
        BY <1>9, <2>1
      <4> QED BY <4>1 DEF G!RolledBack
    <3>2. SubSeq(fed, 1, a + 1) = fed
      BY <1>9, <2>1, SubSeqFull DEF Context
    <3>3. Stands(cache, Said \o fed, knobs)
      BY <1>3, <1>4, <1>9, <3>1, FedStands
    <3> QED BY <1>11, <3>2, <3>3
  <2>2. CASE a # Len(d)
    <3> DEFINE k == a + 1
    <3>1. k \in 1..(Len(fed) - 1) /\ Len(fed) - k = Len(d) - a /\ Len(d) - a # 0
      BY <1>8, <1>9, <2>2
    <3> HIDE DEF k
    <3>2. cache = [kv   |-> W!Drop(W!Fed(gen.c, fed, knobs).kv, Len(fed) - k),
                   ring |-> W!Final(W!Drop(W!Fed(gen.c, fed, knobs).ring, Len(fed) - k), knobs)]
      BY <3>1, GemmaOps DEF G!RolledBack
    <3>3. Stands(cache, Said \o SubSeq(fed, 1, k), knobs)
      BY <1>3, <1>4, <1>9, <3>1, <3>2, CutStands
    <3> QED BY <1>11, <3>3 DEF k
  <2> QED BY <2>1, <2>2
<1> HIDE DEF cache
<1>14. /\ y \in Token /\ ts \in Context /\ Len(ts) = a + 1 /\ ts[a + 1] = y
       /\ \E k \in 1..(a + 1) :
            /\ e = SubSeq(ts, 1, k) /\ k <= budget - Len(out) /\ e \in Context /\ Len(e) = k
            /\ out \o e \in Context /\ Len(out \o e) = Len(out) + k
            /\ (out \o e)[Len(out \o e)] = ts[k]
            /\ EmitOf(prompt, budget, out, out \o e)
            /\ k < a + 1 => k = budget - Len(out) \/ ts[k] \in Eos
  <2>1. \A i \in 1..(a + 1) : h[i] = (prompt \o out) \o SubSeq(d, 1, i - 1)
    BY <1>9, <1>10 DEF c
  <2>2. BlockTaken(prompt, out, budget, d, a, y)
    BY <1>4, <1>5, <1>6, <1>8, <1>12, <2>1, AnswerBlock DEF c
  <2> QED BY <2>2 DEF BlockTaken
<1>15. PICK k \in 1..(a + 1) :
            /\ e = SubSeq(ts, 1, k) /\ k <= budget - Len(out) /\ e \in Context /\ Len(e) = k
            /\ out \o e \in Context /\ Len(out \o e) = Len(out) + k
            /\ (out \o e)[Len(out \o e)] = ts[k]
            /\ EmitOf(prompt, budget, out, out \o e)
            /\ k < a + 1 => k = budget - Len(out) \/ ts[k] \in Eos
  BY <1>14
<1>16. out' = out \o e
  BY <1>7 DEF a, y
<1>17. gen' \in GemmaCalls /\ gen'.c = cache /\ gen'.shared = gen.shared /\ gen'.boundary = gen.boundary
       /\ gen'.h = c \o f
  <2>1. gen' = [gen EXCEPT !.c = cache, !.h = c \o f]
    BY <1>7, <1>11 DEF a, cache
  <2>2. c \o f \in Context
    BY <1>9, <1>11, Joined
  <2>3. cache \in Caches
    BY <1>13, StandsType
  <2> QED BY <1>3, <2>1, <2>2, <2>3 DEF GemmaCalls
<1> HIDE DEF f
<1>18. GemmaMore' => Said' = c \o f
  <2> SUFFICES ASSUME GemmaMore' PROVE Said' = c \o f
    OBVIOUS
  <2>1. k = a + 1
    <3> DEFINE l == Len(out)
               m == Len(out')
    <3>1. m < budget /\ out'[m] \notin Eos /\ l \in Nat /\ m = l + k /\ out'[m] = ts[k]
      BY <1>2, <1>4, <1>15, <1>16, Nothing DEF GemmaMore
    <3>2. k < a + 1 => k = budget - l
      BY <1>15, <3>1
    <3> HIDE DEF l, m
    <3>3. ~(k = budget - l) /\ k <= a + 1
      BY <1>4, <1>8, <3>1
    <3> QED BY <1>8, <3>2, <3>3
  <2>2. e = ts
    <3>1. SubSeq(ts, 1, Len(ts)) = ts
      BY <1>14, SubSeqFull DEF Context
    <3> HIDE DEF e, ts
    <3> QED BY <1>14, <1>15, <2>1, <3>1
  <2>3. out' = out \o (f \o <<y>>)
    BY <1>16, <2>2
  <2>4. SubSeq(out', 1, Len(out') - 1) = out \o f
    BY <1>4, <1>11, <1>14, <2>3, BeforeLast DEF f
  <2>5. prompt \o (out \o f) = c \o f
    <3>1. Lists(prompt, out, f)
      BY <1>4, <1>11 DEF Lists, f
    <3> QED BY <3>1, CutBefore DEF c
  <2> QED BY <1>2, <2>4, <2>5 DEF Said
<1>19. SubSeq(gen'.c.kv, 1, Len(prompt)) = prompt
  <2>1. gen'.c.kv = c \o f
    BY <1>13, <1>17, StandsType
  <2>2. c \o f = prompt \o (out \o f) /\ out \o f \in Context
    <3>1. Lists(prompt, out, f) /\ f \in Context
      BY <1>4, <1>11 DEF Lists, f
    <3>2. (prompt \o out) \o f = prompt \o (out \o f)
      BY <3>1, CutBefore
    <3>3. out \o f \in Context
      BY <1>4, <3>1, Joined
    <3> QED BY <3>2, <3>3 DEF c
  <2>3. SubSeq(prompt, 1, Len(prompt)) = prompt /\ Len(prompt) \in 0..Len(prompt)
    BY <1>4, SubSeqFull, Nothing DEF Context
  <2> DEFINE x == out \o f
  <2> HIDE DEF x
  <2>4. SubSeq(prompt \o x, 1, Len(prompt)) = SubSeq(prompt, 1, Len(prompt))
    BY <1>4, <2>2, <2>3, FirstOfConcat DEF Context, x
  <2> QED BY <2>1, <2>2, <2>3, <2>4 DEF x
<1>20. out' # <<>> /\ Len(out') <= budget /\ out' \in Context
  <2> DEFINE m == Len(out')
             l == Len(out)
  <2>1. m = l + k /\ l \in Nat /\ k <= budget - l /\ out' \in Context
    BY <1>4, <1>15, <1>16, Nothing
  <2> HIDE DEF l
  <2> HIDE DEF m
  <2>2. m # 0 /\ m <= budget
    BY <1>4, <1>8, <2>1
  <2> QED BY <2>1, <2>2, Nothing DEF m
<1>21. GemmaDecoding' /\ GemmaPrefilling'
  BY <1>2, <1>3, <1>13, <1>17, <1>18, <1>19, <1>20 DEF GemmaDecoding, GemmaPrefilling
<1>22. WindowType'
  BY <1>2, <1>3, <1>20 DEF WindowType
<1>23. Plain!Emit
  BY <1>2, <1>15, <1>16, PlainEmit
<1> QED BY <1>2, <1>3, <1>17, <1>21, <1>22, <1>23 DEF GemmaInv

LEMMA GemmaPublish ==
  ASSUME GemmaInv, G!Publish, UNCHANGED knobs
  PROVE  GemmaInv' /\ UNCHANGED <<prompt, budget, out>>
<1> DEFINE b == gen.boundary
           c == [kv |-> prompt, ring |-> b.ring]
<1>1. /\ st = "decode" /\ sess' = W!Published(G!AtBoundary, prompt) /\ st' = "idle"
      /\ gen' = G!Fresh /\ UNCHANGED <<prompt, budget, out>>
  BY GemmaOps DEF G!Publish
<1>2. /\ WindowType /\ SubSeq(gen.c.kv, 1, Len(prompt)) = prompt /\ Stands(b, prompt, knobs)
  BY <1>1 DEF GemmaInv, GemmaDecoding
<1>3. b.kv = prompt /\ b.ring \in Context /\ prompt \in Context
  BY <1>2, StandsType
<1>4. G!AtBoundary = c
  BY <1>2, <1>3, GemmaOps DEF G!AtBoundary
<1>5. Stands(c, prompt, knobs)
  <2>1. c \in Caches
    BY <1>3 DEF Caches
  <2> QED BY <1>2, <2>1 DEF Stands
<1> HIDE DEF c
<1>6. sess' = [has |-> TRUE, processed |-> prompt, c |-> c]
  BY <1>1, <1>4 DEF W!Published
<1>7. sess' \in WindowSessions /\ Stands(sess'.c, sess'.processed, knobs)
  BY <1>3, <1>5, <1>6, StandsType DEF WindowSessions
<1> QED BY <1>1, <1>2, <1>7, FreshGemma DEF GemmaInv, WindowType, GemmaPrefilling, GemmaDecoding

LEMMA GemmaFail ==
  ASSUME GemmaInv, G!Fail, UNCHANGED knobs
  PROVE  GemmaInv' /\ UNCHANGED <<prompt, budget, out>>
<1>1. /\ sess' = W!AfterFailure(sess, gen.shared, gen.c) /\ st' = "idle"
      /\ gen' = G!Fresh /\ UNCHANGED <<prompt, budget, out>>
  BY GemmaOps DEF G!Fail
<1>2. sess' = sess
  BY <1>1 DEF GemmaInv, W!AfterFailure
<1> QED BY <1>1, <1>2, FreshGemma DEF GemmaInv, WindowType, GemmaPrefilling, GemmaDecoding

LEMMA GemmaStep ==
  ASSUME Speaks, GemmaInv, G!Next, UNCHANGED knobs
  PROVE  GemmaInv' /\ (Plain!Next \/ UNCHANGED <<prompt, budget, out>>)
<1>1. CASE G!Rewind
  BY <1>1, GemmaRewind
<1>2. CASE G!Begin
  BY <1>2, GemmaBegin DEF Plain!Next
<1>3. CASE G!PrefillChunk
  BY <1>3, GemmaPrefillChunk
<1>4. CASE G!FirstToken
  BY <1>4, GemmaFirstToken DEF Plain!Next
<1>5. CASE G!Round
  BY <1>5, GemmaRound DEF Plain!Next
<1>6. CASE G!Publish
  BY <1>6, GemmaPublish
<1>7. CASE G!Fail
  BY <1>7, GemmaFail
<1> QED BY <1>1, <1>2, <1>3, <1>4, <1>5, <1>6, <1>7 DEF G!Next

LEMMA GemmaGood ==
  ASSUME GemmaInv
  PROVE  G!GemmaFollows
<1>1. /\ WindowType /\ knobs \in Nat /\ prompt \in Context /\ out \in Context /\ sess \in WindowSessions
      /\ gen \in GemmaCalls
  BY DEF GemmaInv, WindowType
<1>2. ASSUME sess.has PROVE W!StandFor(sess.c, sess.processed, knobs)
  <2>1. Stands(sess.c, sess.processed, knobs)
    BY <1>1, <1>2 DEF WindowType
  <2> QED BY <1>1, <2>1, StandsIsStandFor DEF WindowSessions
<1>3. ASSUME st = "decode", GemmaMore PROVE W!StandFor(gen.c, Said, knobs) /\ gen.h = Said
  <2>1. Stands(gen.c, Said, knobs) /\ gen.h = Said
    BY <1>3 DEF GemmaInv, GemmaDecoding
  <2> QED BY <1>1, <2>1, StandsType, StandsIsStandFor
<1> QED BY <1>2, <1>3, GemmaOps DEF G!GemmaFollows, Said, G!More, GemmaMore

(***************************************************************************)
(* The suffix automaton: how Extended makes what the lemmas on automata    *)
(* speak of, and what the cursor reports                                   *)
(***************************************************************************)
LEMMA ChainFacts ==
  ASSUME NEW n \in Nat \ {0}, NEW Q \in [1..n -> Nodes(n)], NEW s \in 1..n
  PROVE  /\ L!Chain(Q, s) \in Seq(1..n) /\ Len(L!Chain(Q, s)) \in Nat \ {0}
         /\ Climbs(L!Chain(Q, s), Q, n, s)
<1> DEFINE f == [m \in 1..n |-> [x \in 0..n |-> IF x = 0 THEN 0 ELSE Q[x].link]]
           Is(u) == u = [m \in 0..Len(Q) |-> IF m = 0 THEN s
                                             ELSE IF u[m - 1] = 0 THEN 0 ELSE Q[u[m - 1]].link]
           up == CHOOSE u : Is(u)
<1>1. Q \in Seq(Nodes(n)) /\ Len(Q) = n
  BY LenProperties
<1>2. \A x \in 0..n : x # 0 => Q[x].link \in 0..n
  <2> SUFFICES ASSUME NEW x \in 0..n, x # 0 PROVE Q[x].link \in 0..n
    OBVIOUS
  <2>1. Q[x] \in Nodes(n)
    OBVIOUS
  <2> QED BY <2>1 DEF Nodes
<1>3. f \in [1..n -> [0..n -> 0..n]] /\ s \in 0..n
  BY <1>2
<1> HIDE DEF f
<1>4. PICK u \in [0..n -> 0..n] : u[0] = s /\ \A m \in 1..n : u[m] = f[m][u[m - 1]]
  <2> DEFINE V == 0..n
  <2>1. s \in V /\ f \in [1..n -> [V -> V]] /\ n \in Nat
    BY <1>3
  <2> HIDE DEF V
  <2>2. IsSteps(f, n, V)
    BY <2>1 DEF IsSteps
  <2>3. Leads(s, f, n, V)
    BY <2>1, <2>2, Iterated
  <2> QED BY <2>3 DEF V, Leads
<1>5. ASSUME NEW m \in 0..n
      PROVE  u[m] = IF m = 0 THEN s ELSE IF u[m - 1] = 0 THEN 0 ELSE Q[u[m - 1]].link
  <2>1. u[m] = IF m = 0 THEN s ELSE f[m][u[m - 1]]
    <3>1. m # 0 => m \in 1..n
      OBVIOUS
    <3> QED BY <1>4, <3>1
  <2>2. ASSUME m # 0 PROVE f[m][u[m - 1]] = IF u[m - 1] = 0 THEN 0 ELSE Q[u[m - 1]].link
    <3>1. m \in 1..n /\ m - 1 \in 0..n
      BY <2>2
    <3>2. u[m - 1] \in 0..n
      BY <3>1
    <3> QED BY <3>1, <3>2 DEF f
  <2> QED BY <2>1, <2>2
<1>6. Is(u)
  BY <1>1, <1>4, <1>5
<1>7. Is(up)
  <2> HIDE DEF Is
  <2> QED BY <1>6
<1> HIDE DEF up
<1>8. ASSUME NEW m \in 0..n
      PROVE  up[m] = IF m = 0 THEN s ELSE IF up[m - 1] = 0 THEN 0 ELSE Q[up[m - 1]].link
  BY <1>1, <1>7
<1> DEFINE T == {m \in 1..Len(Q) : up[m - 1] # 0}
           Typ(m) == up[m] \in 0..n
           Bad == {m \in 0..n : ~Typ(m)}
<1>9. \A m \in 0..n : up[m] \in 0..n
  <2>1. Bad \in SUBSET Int /\ IsFiniteSet(Bad)
    <3>1. IsFiniteSet(0..n) /\ Bad \subseteq 0..n /\ 0..n \subseteq Int
      BY FS_Interval
    <3> HIDE DEF Bad
    <3> QED BY <3>1, FS_Subset
  <2>2. ASSUME Bad # {} PROVE FALSE
    <3>1. PICK m \in Bad : \A k \in Bad : m <= k
      <4> HIDE DEF Bad
      <4> QED BY <2>1, <2>2, LeastExists
    <3>2. m \in 0..n /\ up[m] \notin 0..n
      BY <3>1
    <3>3. CASE m = 0
      <4>1. up[m] = s
        BY <1>8, <3>2, <3>3
      <4> QED BY <1>3, <3>2, <4>1
    <3>4. CASE m # 0
      <4>1. m - 1 \in 0..n /\ ~(m <= m - 1)
        BY <3>2, <3>4
      <4>2. up[m - 1] \in 0..n
        BY <3>1, <4>1
      <4>3. up[m] = IF up[m - 1] = 0 THEN 0 ELSE Q[up[m - 1]].link
        BY <1>8, <3>2, <3>4
      <4> QED BY <1>2, <3>2, <4>2, <4>3
    <3> QED BY <3>3, <3>4
  <2> QED BY <2>2
<1>10. T \in SUBSET (Nat \ {0}) /\ IsFiniteSet(T) /\ 1 \in T
  <2>1. IsFiniteSet(1..n) /\ T \subseteq 1..n /\ 1..n \subseteq Nat \ {0}
    <3>1. IsFiniteSet(1..n)
      BY FS_Interval
    <3>2. T \subseteq 1..n
      BY <1>1
    <3>3. 1..n \subseteq Nat \ {0}
      OBVIOUS
    <3> QED BY <3>1, <3>2, <3>3
  <2>2. 1 \in 1..n /\ 1 - 1 = 0 /\ 0 \in 0..n
    OBVIOUS
  <2>3. up[0] = s /\ s # 0
    <3>1. up[0] = s
      BY <1>8, <2>2
    <3> QED BY <3>1
  <2>4. 1 \in T
    BY <1>1, <2>2, <2>3
  <2> HIDE DEF T
  <2> QED BY <2>1, <2>4, FS_Subset
<1>11. \A i \in T : \A j \in 1..i : j \in T
  <2> SUFFICES ASSUME NEW i \in T, NEW j0 \in 1..i, j0 \notin T PROVE FALSE
    OBVIOUS
  <2> DEFINE Out == {m \in j0..i : m \in T}
  <2>1. i \in 1..n /\ up[i - 1] # 0 /\ j0 \in 1..n
    BY <1>1
  <2>2. Out \in SUBSET Int /\ IsFiniteSet(Out) /\ i \in Out
    <3>1. IsFiniteSet(j0..i) /\ Out \subseteq j0..i /\ j0..i \subseteq Int
      <4>1. j0 \in Int /\ i \in Int
        BY <2>1
      <4>2. IsFiniteSet(j0..i)
        BY <4>1, FS_Interval
      <4>3. Out \subseteq j0..i
        OBVIOUS
      <4>4. j0..i \subseteq Int
        BY <4>1
      <4> QED BY <4>2, <4>3, <4>4
    <3>2. i \in Out
      BY <2>1
    <3> HIDE DEF Out
    <3> QED BY <3>1, <3>2, FS_Subset
  <2>3. PICK m \in Out : \A k \in Out : m <= k
    <3> HIDE DEF Out
    <3> QED BY <2>2, LeastExists
  <2>4. m \in j0..i /\ m \in T /\ m # j0
    BY <2>3
  <2>5. m - 1 \in j0..i /\ ~(m <= m - 1) /\ m - 1 \in 1..n /\ m - 1 \in 0..n /\ m - 1 # 0
    BY <2>1, <2>4
  <2>6. m - 1 \notin T
    BY <2>3, <2>5
  <2>7. up[(m - 1) - 1] = 0
    BY <1>1, <2>5, <2>6
  <2>8. up[m - 1] = 0
    BY <1>8, <2>5, <2>7
  <2> QED BY <2>4, <2>8
<1> DEFINE top == Cardinality(T)
<1>12. top \in Nat /\ T = 1..top
  <2> HIDE DEF T
  <2> QED BY <1>10, <1>11, NoGaps
<1>13. L!Chain(Q, s) = [m \in 1..top |-> up[m - 1]]
  BY DEF L!Chain, up, Is, T, L!Cardinality, Cardinality
<1>14. top # 0
  <2> HIDE DEF top
  <2>1. 1 \in 1..top
    BY <1>10, <1>12
  <2> QED BY <1>12, <2>1
<1> HIDE DEF top
<1>15. ASSUME NEW m \in 1..top PROVE up[m - 1] \in 1..n
  <2>1. m \in 1..n /\ up[m - 1] # 0
    BY <1>1, <1>12
  <2>2. m - 1 \in 0..n
    BY <2>1
  <2>3. up[m - 1] \in 0..n
    BY <1>9, <2>2
  <2>4. \A x \in 0..n : x # 0 => x \in 1..n
    OBVIOUS
  <2> QED BY <2>1, <2>3, <2>4
<1>16. [m \in 1..top |-> up[m - 1]] \in [1..top -> 1..n]
  BY <1>15
<1>17. L!Chain(Q, s) \in Seq(1..n) /\ Len(L!Chain(Q, s)) = top
  BY <1>12, <1>13, <1>16
<1> DEFINE ch == L!Chain(Q, s)
<1>18. \A m \in 1..top : ch[m] = up[m - 1]
  BY <1>13
<1> HIDE DEF ch, T
<1>19. top <= n /\ 1 \in 1..top
  <2>1. top \in 1..top /\ 1 \in 1..top
    BY <1>12, <1>14
  <2>2. top \in T
    BY <1>12, <2>1
  <2>3. top \in 1..n
    BY <1>1, <2>2 DEF T
  <2> QED BY <2>1, <2>3
<1>20. ch[1] = s
  <2>1. 1 - 1 = 0 /\ 0 \in 0..n
    OBVIOUS
  <2>2. ch[1] = up[0]
    BY <1>18, <1>19, <2>1
  <2> QED BY <1>8, <2>1, <2>2
<1>21. ASSUME NEW i \in 1..top
       PROVE  up[i] = Q[ch[i]].link
  <2>1. i \in 0..n /\ i # 0 /\ i \in T
    BY <1>12, <1>19
  <2>2. up[i - 1] # 0
    BY <2>1 DEF T
  <2>3. up[i] = Q[up[i - 1]].link
    BY <1>8, <2>1, <2>2
  <2> QED BY <1>18, <2>3
<1>22. ASSUME NEW i \in 1..(top - 1)
       PROVE  ch[i + 1] = Q[ch[i]].link
  <2>1. i \in 1..top /\ i + 1 \in 1..top /\ (i + 1) - 1 = i
    BY <1>12
  <2>2. ch[i + 1] = up[i]
    BY <1>18, <2>1
  <2> QED BY <1>21, <2>1, <2>2
<1>23. ASSUME top # n
       PROVE  Q[ch[top]].link = 0
  <2>1. top \in 1..top /\ top + 1 \in 1..n /\ top + 1 \notin 1..top /\ (top + 1) - 1 = top
    BY <1>12, <1>14, <1>19, <1>23
  <2>2. top + 1 \notin T
    BY <1>12, <2>1
  <2>3. up[top] = 0
    BY <1>1, <2>1, <2>2 DEF T
  <2> QED BY <1>21, <2>1, <2>3
<1>24. Climbs(ch, Q, n, s)
  <2>1. Len(ch) = top
    BY <1>17 DEF ch
  <2> QED BY <1>19, <1>20, <1>22, <1>23, <2>1 DEF Climbs
<1> QED BY <1>12, <1>14, <1>17, <1>24 DEF ch

LEMMA FirstWithFacts ==
  ASSUME NEW n \in Nat \ {0}, NEW Q \in [1..n -> Nodes(n)], NEW chain \in Seq(1..n), NEW t \in Token
  PROVE  LET k == L!FirstWith(Q, chain, t)
         IN  /\ k \in 0..Len(chain)
             /\ k # 0 => k \in 1..Len(chain) /\ chain[k] \in 1..n /\ Q[chain[k]].trans[t] \in 1..n
             /\ \A i \in 1..Len(chain) : k = 0 \/ i < k => Q[chain[i]].trans[t] = 0
<1> DEFINE k == L!FirstWith(Q, chain, t)
           I == {i \in 1..Len(chain) : Q[chain[i]].trans[t] # 0}
<1>1. k = IF I # {} THEN CHOOSE x \in I : \A y \in I : x <= y ELSE 0
  BY DEF L!FirstWith, L!SelectInSeq, L!Min
<1> HIDE DEF k
<1>2. Len(chain) \in Nat /\ \A i \in 1..Len(chain) : chain[i] \in 1..n
  BY LenProperties, ElementOfSeq
<1>3. I \in SUBSET Int /\ IsFiniteSet(I)
  <2>1. IsFiniteSet(1..Len(chain))
    BY <1>2, FS_Interval
  <2>2. I \subseteq 1..Len(chain) /\ 1..Len(chain) \subseteq Int
    BY <1>2
  <2> HIDE DEF I
  <2> QED BY <2>1, <2>2, FS_Subset
<1>4. CASE I = {}
  <2>1. k = 0
    BY <1>1, <1>4
  <2>2. 0 \in 0..Len(chain)
    BY <1>2
  <2>3. \A i \in 1..Len(chain) : Q[chain[i]].trans[t] = 0
    BY <1>4
  <2> QED BY <2>1, <2>2, <2>3 DEF k
<1>5. CASE I # {}
  <2>1. k \in I /\ \A y \in I : k <= y
    <3> HIDE DEF I
    <3> QED BY <1>1, <1>3, <1>5, LeastExists
  <2>8. \A i \in 1..Len(chain) : i < k => Q[chain[i]].trans[t] = 0
    <3> SUFFICES ASSUME NEW i \in 1..Len(chain), i < k, i \in I PROVE FALSE
      OBVIOUS
    <3>1. k <= i /\ k \in Int
      BY <1>3, <2>1
    <3> QED BY <3>1
  <2>9. k # 0
    BY <1>2, <2>1
  <2>2. k \in 1..Len(chain) /\ Q[chain[k]].trans[t] # 0
    BY <2>1
  <2>3. chain[k] \in 1..n
    BY <1>2, <2>2
  <2>4. Q[chain[k]] \in Nodes(n)
    BY <2>3
  <2>5. Q[chain[k]].trans[t] \in 0..n
    BY <2>4 DEF Nodes
  <2>6. \A x \in 0..n : x # 0 => x \in 1..n
    OBVIOUS
  <2>7. k \in 0..Len(chain)
    BY <1>2, <2>2
  <2> QED BY <2>2, <2>3, <2>5, <2>6, <2>7, <2>8, <2>9 DEF k
<1> QED BY <1>4, <1>5 DEF k

LEMMA StepFacts ==
  ASSUME NEW n \in Nat \ {0}, NEW a, SamTyped(a, n), NEW t \in Token
  PROVE  L!Step(a, t).at \in 1..n /\ L!Step(a, t).matched \in Nat
<1> DEFINE chain == L!Chain(a.states, a.at)
           k == L!FirstWith(a.states, chain, t)
           s == IF k = 0 THEN L!Last(chain) ELSE chain[k]
           len == IF s = a.at THEN a.matched ELSE a.states[s].len
<1>1. a.states \in [1..n -> Nodes(n)] /\ a.at \in 1..n /\ a.matched \in Nat
  BY DEF SamTyped
<1>2. chain \in Seq(1..n) /\ Len(chain) \in Nat \ {0}
  BY <1>1, ChainFacts
<1> HIDE DEF chain
<1>3. k \in 0..Len(chain)
      /\ (k # 0 => k \in 1..Len(chain) /\ chain[k] \in 1..n /\ a.states[chain[k]].trans[t] \in 1..n)
  BY <1>1, <1>2, FirstWithFacts
<1> HIDE DEF k
<1>4. s \in 1..n
  <2>1. Len(chain) \in 1..Len(chain)
    BY <1>2
  <2>2. chain[Len(chain)] \in 1..n
    BY <1>2, <2>1, ElementOfSeq
  <2>3. L!Last(chain) = chain[Len(chain)]
    BY DEF L!Last
  <2> QED BY <1>3, <2>2, <2>3
<1>5. len \in Nat
  <2>1. a.states[s].len \in Nat
    <3> HIDE DEF s
    <3>1. a.states[s] \in Nodes(n)
      BY <1>1, <1>4
    <3> QED BY <3>1 DEF Nodes
  <2> QED BY <1>1, <2>1
<1>6. /\ L!Step(a, t).at = IF k = 0 THEN 1 ELSE a.states[s].trans[t]
      /\ L!Step(a, t).matched = IF k = 0 THEN 0 ELSE len + 1
  BY DEF L!Step, chain, k
<1> HIDE DEF len
<1>7. k # 0 => a.states[s].trans[t] \in 1..n
  BY <1>3
<1> HIDE DEF s
<1>8. 1 \in 1..n /\ len + 1 \in Nat
  BY <1>5
<1> QED BY <1>6, <1>7, <1>8

LEMMA AdvancedTyped ==
  ASSUME NEW n \in Nat \ {0}, NEW a, SamTyped(a, n), NEW t \in Token
  PROVE  SamTyped(L!Advanced(a, t), n) /\ L!Advanced(a, t).seq = a.seq
<1> DEFINE step == L!Step(a, t)
           full == IF a.matched > 0 /\ a.matched = a.states[a.at].len THEN {a.at} ELSE {}
           states == [s \in DOMAIN a.states |->
                        IF s \in step.passed \cup full
                        THEN [a.states[s] EXCEPT !.end = Len(a.seq)] ELSE a.states[s]]
<1>1. step.at \in 1..n /\ step.matched \in Nat
  BY StepFacts
<1>2. L!Advanced(a, t) = [a EXCEPT !.states = states, !.at = step.at, !.matched = step.matched]
  BY DEF L!Advanced
<1> HIDE DEF step, full
<1>3. a.states \in [1..n -> Nodes(n)] /\ DOMAIN a.states = 1..n /\ Len(a.seq) \in Nat
  BY Nothing DEF SamTyped
<1>4. states \in [1..n -> Nodes(n)]
  <2> SUFFICES ASSUME NEW s \in 1..n
               PROVE  a.states[s] \in Nodes(n) /\ [a.states[s] EXCEPT !.end = Len(a.seq)] \in Nodes(n)
    BY <1>3
  <2>1. a.states[s] \in Nodes(n)
    BY <1>3
  <2> QED BY <1>3, <2>1 DEF Nodes
<1> HIDE DEF states
<1> QED BY <1>1, <1>2, <1>4 DEF SamTyped

LEMMA RedirectedFacts ==
  ASSUME NEW n \in Nat, NEW m \in Nat, NEW Q \in [1..m -> Nodes(n)], NEW those, NEW t \in Token,
         NEW s \in 0..n
  PROVE  L!Redirected(Q, those, t, s) \in [1..m -> Nodes(n)]
<1> SUFFICES ASSUME NEW q \in 1..m
             PROVE  Q[q] \in Nodes(n) /\ [Q[q] EXCEPT !.trans[t] = s] \in Nodes(n)
  BY DEF L!Redirected
<1>1. Q[q] \in Nodes(n)
  OBVIOUS
<1> DEFINE x == Q[q]
<1>2. x \in Nodes(n)
  BY <1>1
<1> HIDE DEF x
<1>3. [x EXCEPT !.trans[t] = s] \in Nodes(n)
  BY <1>2 DEF Nodes
<1> QED BY <1>2, <1>3 DEF x

LEMMA GrownTyped ==
  ASSUME NEW n \in Nat \ {0}, NEW a, SamTyped(a, n), NEW t \in Token
  PROVE  /\ \E m \in Nat \ {0} : SamTyped(L!Grown(a, t), m)
         /\ L!Grown(a, t).seq = a.seq
<1> DEFINE Q == a.states
           chain == L!Chain(Q, a.last)
           k == L!FirstWith(Q, chain, t)
           cur == Len(Q) + 1
           above == L!ToSet(IF k = 0 THEN chain ELSE SubSeq(chain, 1, k - 1))
           leaf(link) == [len |-> Q[a.last].len + 1, link |-> link,
                          trans |-> L!Blank, end |-> Len(a.seq) + 1]
           grown(link) == Append(L!Redirected(Q, above, t, cur), leaf(link))
           p == chain[k]
           q == Q[p].trans[t]
           clone == cur + 1
           leading == {s \in L!ToSet(SubSeq(chain, k, Len(chain))) : Q[s].trans[t] = q}
           copy == [grown(clone)[q] EXCEPT !.len = Q[p].len + 1]
           split == Append(L!Redirected(grown(clone), leading, t, clone), copy)
           states == IF k = 0 THEN grown(1)
                     ELSE IF Q[p].len + 1 = Q[q].len THEN grown(q)
                     ELSE [split EXCEPT ![q].link = clone]
<1>1. L!Grown(a, t) = [a EXCEPT !.last = cur, !.states = states]
  BY DEF L!Grown
<1> HIDE DEF above, leading
<1>2. Q \in [1..n -> Nodes(n)] /\ a.last \in 1..n /\ a.seq \in Context /\ a.at \in 1..n
      /\ a.matched \in Nat
  BY DEF SamTyped
<1> HIDE DEF Q
<1>3. chain \in Seq(1..n) /\ Len(chain) \in Nat \ {0}
  BY <1>2, ChainFacts
<1> HIDE DEF chain
<1>4. k # 0 => p \in 1..n /\ q \in 1..n
  BY <1>2, <1>3, FirstWithFacts
<1> HIDE DEF k, p, q
<1>5. cur = n + 1 /\ clone = n + 2
  <2>1. Len(Q) = n
    BY <1>2, LenProperties
  <2> QED BY <2>1
<1> HIDE DEF cur, clone
<1>6. ASSUME NEW m \in Nat, n < m, NEW link \in 0..m
      PROVE  leaf(link) \in Nodes(m)
  <2>1. Q[a.last] \in Nodes(n) /\ Len(a.seq) \in Nat
    BY <1>2, Nothing
  <2>2. Q[a.last].len + 1 \in Nat /\ Len(a.seq) + 1 \in Nat
    BY <2>1 DEF Nodes
  <2>3. L!Blank \in [Token -> 0..m]
    BY <1>6 DEF L!Blank
  <2> QED BY <1>6, <2>2, <2>3 DEF Nodes
<1> HIDE DEF leaf
<1>7. ASSUME NEW m \in Nat, n < m, NEW link \in 0..m
      PROVE  grown(link) \in [1..(n + 1) -> Nodes(m)]
  <2>1. Q \in [1..n -> Nodes(m)]
    <3>1. \A x \in Nodes(n) : x \in Nodes(m)
      BY <1>7, MoreStates
    <3> QED BY <1>2, <3>1
  <2>2. cur \in 0..m
    BY <1>5, <1>7
  <2>3. L!Redirected(Q, above, t, cur) \in [1..n -> Nodes(m)]
    BY <2>1, <2>2, RedirectedFacts
  <2> DEFINE r == L!Redirected(Q, above, t, cur)
             x == leaf(link)
  <2>4. r \in [1..n -> Nodes(m)] /\ x \in Nodes(m)
    BY <1>6, <1>7, <2>3
  <2> HIDE DEF r, x
  <2>5. Append(r, x) \in [1..(n + 1) -> Nodes(m)]
    BY <2>4, AppendedStates
  <2> QED BY <2>5 DEF r, x
<1> HIDE DEF grown
<1>8. \E m \in Nat \ {0} : n < m /\ states \in [1..m -> Nodes(m)]
  <2>1. n + 1 \in Nat /\ n + 2 \in Nat /\ n < n + 1 /\ n < n + 2 /\ 1 \in 0..(n + 1) /\ n + 2 \in 0..(n + 2)
        /\ n + 1 # 0 /\ n + 2 # 0
    OBVIOUS
  <2>2. CASE k = 0
    <3>1. grown(1) \in [1..(n + 1) -> Nodes(n + 1)]
      BY <1>7, <2>1
    <3> QED BY <2>1, <2>2, <3>1
  <2>3. CASE k # 0 /\ Q[p].len + 1 = Q[q].len
    <3>1. q \in 0..(n + 1)
      BY <1>4, <2>3
    <3>2. grown(q) \in [1..(n + 1) -> Nodes(n + 1)]
      BY <1>7, <2>1, <3>1
    <3> QED BY <2>1, <2>3, <3>2
  <2>4. CASE k # 0 /\ Q[p].len + 1 # Q[q].len
    <3>1. clone \in 0..(n + 2) /\ q \in 1..(n + 1) /\ q \in 1..(n + 2)
      BY <1>4, <1>5, <2>4
    <3>2. grown(clone) \in [1..(n + 1) -> Nodes(n + 2)]
      BY <1>7, <2>1, <3>1
    <3> DEFINE g == grown(clone)
               r == L!Redirected(g, leading, t, clone)
    <3>3. g \in [1..(n + 1) -> Nodes(n + 2)]
      BY <3>2
    <3> HIDE DEF g
    <3>4. r \in [1..(n + 1) -> Nodes(n + 2)]
      BY <2>1, <3>1, <3>3, RedirectedFacts
    <3> HIDE DEF r
    <3>5. copy \in Nodes(n + 2)
      <4>1. g[q] \in Nodes(n + 2)
        BY <3>1, <3>3
      <4>2. Q[p] \in Nodes(n)
        BY <1>2, <1>4, <2>4
      <4>3. Q[p].len + 1 \in Nat
        BY <4>2 DEF Nodes
      <4> DEFINE x == g[q]
                 l == Q[p].len + 1
      <4>4. x \in Nodes(n + 2) /\ l \in Nat
        BY <4>1, <4>3
      <4> HIDE DEF x, l
      <4>5. [x EXCEPT !.len = l] \in Nodes(n + 2)
        BY <4>4 DEF Nodes
      <4> QED BY <4>5 DEF x, l, g
    <3> HIDE DEF copy
    <3>6. split \in [1..(n + 2) -> Nodes(n + 2)]
      <4>1. Append(r, copy) \in [1..((n + 1) + 1) -> Nodes(n + 2)]
        BY <2>1, <3>4, <3>5, AppendedStates
      <4>2. (n + 1) + 1 = n + 2
        OBVIOUS
      <4> QED BY <4>1, <4>2 DEF r, g
    <3> HIDE DEF split
    <3>7. [split EXCEPT ![q].link = clone] \in [1..(n + 2) -> Nodes(n + 2)]
      <4>1. split[q] \in Nodes(n + 2)
        BY <3>1, <3>6
      <4> DEFINE x == split[q]
      <4>2. x \in Nodes(n + 2)
        BY <4>1
      <4> HIDE DEF x
      <4>3. [x EXCEPT !.link = clone] \in Nodes(n + 2)
        BY <3>1, <4>2 DEF Nodes
      <4> DEFINE y == [x EXCEPT !.link = clone]
      <4>4. [split EXCEPT ![q] = y] \in [1..(n + 2) -> Nodes(n + 2)]
        <5> HIDE DEF y
        <5>1. y \in Nodes(n + 2)
          BY <4>3 DEF y
        <5> QED BY <3>6, <5>1
      <4> QED BY <4>4 DEF x, y
    <3> QED BY <2>1, <2>4, <3>7
  <2> QED BY <2>2, <2>3, <2>4
<1> HIDE DEF states
<1>9. PICK m \in Nat \ {0} : n < m /\ states \in [1..m -> Nodes(m)]
  BY <1>8
<1>10. 1..n \subseteq 1..m /\ n + 1 \in 1..m
  BY <1>9
<1>11. L!Grown(a, t) = [a EXCEPT !.last = cur, !.states = states]
  BY <1>1
<1>12. SamTyped(L!Grown(a, t), m)
  BY <1>2, <1>5, <1>9, <1>10, <1>11 DEF SamTyped
<1>13. L!Grown(a, t).seq = a.seq
  BY <1>11 DEF SamTyped
<1> QED BY <1>12, <1>13

(* The end of a text that ends alike is a suffix, in the words of the      *)
(* module.                                                                 *)
LEMMA AlikeEnds ==
  ASSUME NEW s \in Context, NEW e \in Nat, NEW n \in Nat, n <= e, e <= Len(s)
  PROVE  L!Ends(s, n, e) <=> Alike(s, e, Len(s), n)
<1> DEFINE l == Len(s)
           u == SubSeq(s, e - n + 1, e)
           v == SubSeq(s, l - n + 1, l)
<1>1. l \in Nat /\ e <= l /\ \A i \in 1..l : s[i] \in Token
  BY LenProperties, ElementOfSeq DEF Context
<1>2. L!Ends(s, n, e) <=> u = v
  BY DEF L!Ends, L!Suffix
<1> HIDE DEF l
<1>3. e - n + 1 \in Int /\ l - n + 1 \in Int /\ e \in Int /\ l \in Int
  BY <1>1
<1>4. u \in Seq(Token) /\ Len(u) = n /\ \A i \in 1..n : u[i] = s[(e - n + 1) + i - 1]
  <2>1. \A i \in (e - n + 1)..e : s[i] \in Token
    BY <1>1
  <2>2. /\ u \in Seq(Token)
        /\ Len(u) = IF e - n + 1 <= e THEN e - (e - n + 1) + 1 ELSE 0
        /\ \A i \in 1..(e - (e - n + 1) + 1) : u[i] = s[(e - n + 1) + i - 1]
    BY <1>3, <2>1, SubSeqProperties
  <2>3. e - (e - n + 1) + 1 = n /\ (e - n + 1 <= e <=> n # 0)
    OBVIOUS
  <2> HIDE DEF u
  <2> QED BY <2>2, <2>3
<1>5. v \in Seq(Token) /\ Len(v) = n /\ \A i \in 1..n : v[i] = s[(l - n + 1) + i - 1]
  <2>1. \A i \in (l - n + 1)..l : s[i] \in Token
    BY <1>1
  <2>2. /\ v \in Seq(Token)
        /\ Len(v) = IF l - n + 1 <= l THEN l - (l - n + 1) + 1 ELSE 0
        /\ \A i \in 1..(l - (l - n + 1) + 1) : v[i] = s[(l - n + 1) + i - 1]
    BY <1>3, <2>1, SubSeqProperties
  <2>3. l - (l - n + 1) + 1 = n /\ (l - n + 1 <= l <=> n # 0)
    BY <1>1
  <2> HIDE DEF v
  <2> QED BY <2>2, <2>3
<1> HIDE DEF u, v
<1>6. u = v <=> \A i \in 1..n : u[i] = v[i]
  BY <1>4, <1>5, SeqEqual
<1>7. (\A i \in 1..n : u[i] = v[i]) => \A i \in 0..(n - 1) : s[e - i] = s[l - i]
  <2> SUFFICES ASSUME \A i \in 1..n : u[i] = v[i], NEW i \in 0..(n - 1) PROVE s[e - i] = s[l - i]
    OBVIOUS
  <2>1. n - i \in 1..n /\ (e - n + 1) + (n - i) - 1 = e - i /\ (l - n + 1) + (n - i) - 1 = l - i
    BY <1>1
  <2> QED BY <1>4, <1>5, <2>1
<1>8. (\A i \in 0..(n - 1) : s[e - i] = s[l - i]) => \A i \in 1..n : u[i] = v[i]
  <2> SUFFICES ASSUME \A i \in 0..(n - 1) : s[e - i] = s[l - i], NEW i \in 1..n PROVE u[i] = v[i]
    OBVIOUS
  <2>1. n - i \in 0..(n - 1) /\ (e - n + 1) + i - 1 = e - (n - i) /\ (l - n + 1) + i - 1 = l - (n - i)
    BY <1>1
  <2> QED BY <1>4, <1>5, <2>1
<1>9. n <= e /\ n <= l
  BY <1>1
<1> QED BY <1>2, <1>6, <1>7, <1>8, <1>9 DEF Alike, l

LEMMA ChainGoes ==
  ASSUME NEW n, NEW Q, NEW s, OfText(Q, n, s), NEW c \in 1..n
  PROVE  Goes(L!Chain(Q, c), Q, n, c) /\ Falls(L!Chain(Q, c), Q)
<1> DEFINE ch == L!Chain(Q, c)
<1>1. n \in Nat \ {0} /\ Q \in [1..n -> Nodes(n)]
  BY DEF OfText
<1>2. ch \in Seq(1..n) /\ Len(ch) \in Nat \ {0} /\ Climbs(ch, Q, n, c)
  BY <1>1, ChainFacts
<1> HIDE DEF ch
<1>3. \A i \in 1..Len(ch) : ch[i] \in 1..n
  BY <1>2, ElementOfSeq
<1>4. ASSUME NEW i \in 1..(Len(ch) - 1) PROVE ch[i] # 1 /\ ch[i + 1] = Q[ch[i]].link
  <2>1. i + 1 \in 1..Len(ch)
    BY <1>2
  <2>2. ch[i + 1] = Q[ch[i]].link
    BY <1>2 DEF Climbs
  <2>3. ch[i + 1] # 0
    BY <1>3, <2>1
  <2> QED BY <2>2, <2>3, RootFacts
<1>5. Falls(ch, Q)
  BY <1>2, <1>4, ChainFalls
<1> DEFINE N == Len(ch)
<1>6. N \in Nat \ {0} /\ N \in 1..N /\ N <= n
  BY <1>2 DEF Climbs
<1>7. ch[N] = 1
  <2> SUFFICES ASSUME ch[N] # 1 PROVE FALSE
    OBVIOUS
  <2>1. Q[ch[N]].link \in 1..n
    BY <1>3, <1>6, LinkFacts
  <2>2. N = n
    <3>1. Q[ch[N]].link # 0
      BY <2>1
    <3> QED BY <1>2, <3>1 DEF Climbs
  <2>3. ch \in [1..n -> 2..n]
    <3>1. ch \in [1..n -> 1..n]
      BY <1>2, <2>2, LenProperties
    <3>2. ASSUME NEW i \in 1..n PROVE ch[i] # 1
      <4>1. i = n \/ i \in 1..(n - 1)
        BY <1>1
      <4> QED BY <1>4, <2>2, <4>1
    <3>3. \A x \in 1..n : x # 1 => x \in 2..n
      BY <1>1
    <3>4. \A i \in 1..n : ch[i] \in 2..n
      BY <3>1, <3>2, <3>3
    <3> QED BY <3>1, <3>4
  <2>4. PICK i \in 1..n, j \in 1..n : i # j /\ ch[i] = ch[j]
    <3>1. IsFiniteSet(1..n) /\ IsFiniteSet(2..n) /\ Cardinality(1..n) = n /\ Cardinality(2..n) = n - 1
      <4>1. n \in Int /\ 1 \in Int /\ 2 \in Int /\ ~(1 > n) /\ n - 1 + 1 = n
            /\ (IF 2 > n THEN 0 ELSE n - 2 + 1) = n - 1
        BY <1>1
      <4>2. IsFiniteSet(1..n) /\ Cardinality(1..n) = IF 1 > n THEN 0 ELSE n - 1 + 1
        BY <4>1, FS_Interval
      <4>3. IsFiniteSet(2..n) /\ Cardinality(2..n) = IF 2 > n THEN 0 ELSE n - 2 + 1
        BY <4>1, FS_Interval
      <4> QED BY <4>1, <4>2, <4>3
    <3>2. n - 1 < n
      BY <1>1
    <3>3. Cardinality(2..n) < Cardinality(1..n)
      BY <3>1, <3>2
    <3> QED BY <2>3, <3>1, <3>3, FS_PigeonHole
  <2>5. \A k \in 1..n : Shortest(Q, ch[k]) \in Nat /\ Q[ch[k]].len \in Nat /\ Shortest(Q, ch[k]) <= Q[ch[k]].len
    BY <1>3, <2>2, StateFacts
  <2>6. \A k, l \in 1..n : k < l => Q[ch[l]].len < Q[ch[k]].len
    <3> SUFFICES ASSUME NEW k \in 1..n, NEW l \in 1..n, k < l PROVE Q[ch[l]].len < Q[ch[k]].len
      OBVIOUS
    <3>1. Q[ch[l]].len < Shortest(Q, ch[k])
      BY <1>5, <2>2 DEF Falls
    <3> QED BY <2>5, <3>1
  <2>7. i < j \/ j < i
    BY <1>1, <2>4
  <2>8. ~(Q[ch[i]].len < Q[ch[i]].len)
    BY <2>5
  <2> QED BY <2>4, <2>6, <2>7, <2>8
<1>8. ch[1] = c
  BY <1>2 DEF Climbs
<1>9. Goes(ch, Q, n, c)
  BY <1>2, <1>3, <1>4, <1>7, <1>8 DEF Goes
<1> QED BY <1>5, <1>9 DEF ch

LEMMA FirstIs ==
  ASSUME NEW n, NEW Q, NEW s, OfText(Q, n, s), NEW ch \in Seq(1..n), NEW t \in Token
  PROVE  FirstOn(L!FirstWith(Q, ch, t), Q, ch, t)
<1>1. n \in Nat \ {0} /\ Q \in [1..n -> Nodes(n)]
  BY DEF OfText
<1> DEFINE k == L!FirstWith(Q, ch, t)
<1>2. /\ k \in 0..Len(ch)
      /\ k # 0 => k \in 1..Len(ch) /\ ch[k] \in 1..n /\ Q[ch[k]].trans[t] \in 1..n
      /\ \A i \in 1..Len(ch) : k = 0 \/ i < k => Q[ch[i]].trans[t] = 0
  BY <1>1, FirstWithFacts
<1> HIDE DEF k
<1>3. k # 0 => Q[ch[k]].trans[t] # 0
  BY <1>1, <1>2
<1>4. FirstOn(k, Q, ch, t)
  BY <1>2, <1>3 DEF FirstOn
<1> QED BY <1>4 DEF k

LEMMA RedirectedIs ==
  ASSUME NEW n \in Nat, NEW m \in Nat, NEW Q \in [1..m -> Nodes(n)], NEW those, NEW t \in Token,
         NEW z, NEW x \in 1..m
  PROVE  Bends(L!Redirected(Q, those, t, z)[x], Q[x], x \in those, t, z)
<1> DEFINE q == Q[x]
           r == L!Redirected(Q, those, t, z)[x]
<1>1. q \in Nodes(n)
  OBVIOUS
<1>2. r = IF x \in those THEN [q EXCEPT !.trans[t] = z] ELSE q
  BY DEF L!Redirected
<1> HIDE DEF r, q
<1> DEFINE Is == /\ r.len = q.len /\ r.end = q.end /\ r.link = q.link
                 /\ \A u \in Token : r.trans[u] = IF u = t /\ x \in those THEN z ELSE q.trans[u]
<1>3. ASSUME x \notin those PROVE Is
  <2>1. r = q
    BY <1>2, <1>3
  <2> QED BY <1>3, <2>1
<1>4. ASSUME x \in those PROVE Is
  <2>1. r = [q EXCEPT !.trans[t] = z]
    BY <1>2, <1>4
  <2>2. r.len = q.len /\ r.end = q.end /\ r.link = q.link /\ r.trans = [q.trans EXCEPT ![t] = z]
    BY <1>1, <2>1 DEF Nodes
  <2>3. q.trans \in [Token -> 0..n]
    BY <1>1 DEF Nodes
  <2> DEFINE f == q.trans
  <2>4. f \in [Token -> 0..n] /\ r.trans = [f EXCEPT ![t] = z]
    BY <2>2, <2>3
  <2> HIDE DEF f
  <2>5. \A u \in Token : r.trans[u] = IF u = t THEN z ELSE f[u]
    BY <2>4
  <2>6. \A u \in Token : r.trans[u] = IF u = t /\ x \in those THEN z ELSE q.trans[u]
    BY <1>4, <2>5 DEF f
  <2> QED BY <2>2, <2>6
<1>5. Is
  BY <1>3, <1>4
<1> QED BY <1>5 DEF r, q, Bends

LEMMA Above ==
  ASSUME NEW Q, NEW n, NEW s, NEW t, NEW c, NEW ch, NEW k, Ready(Q, n, s, t, c, ch, k), NEW x
  PROVE  x \in L!ToSet(IF k = 0 THEN ch ELSE SubSeq(ch, 1, k - 1)) <=> Gains(x, Q, ch, t)
<1> DEFINE w == IF k = 0 THEN ch ELSE SubSeq(ch, 1, k - 1)
           l == IF k = 0 THEN Len(ch) ELSE k - 1
<1>1. ch \in Seq(1..n) /\ Len(ch) \in Nat /\ k \in 0..Len(ch) /\ FirstOn(k, Q, ch, t)
  BY ReadyFacts DEF Ready, FirstOn, Goes
<1>2. l \in 0..Len(ch) /\ \A i \in 1..Len(ch) : (k = 0 \/ i < k) <=> i <= l
  BY <1>1
<1>3. Len(w) = l /\ \A i \in 1..l : w[i] = ch[i]
  <2>1. CASE k = 0
    BY <2>1
  <2>2. CASE k # 0
    <3>1. 1 \in Int /\ k - 1 \in 0..Len(ch) /\ k - 1 \in Int
      BY <1>1, <2>2
    <3>2. \A i \in 1..(k - 1) : ch[i] \in 1..n
      <4>1. \A i \in 1..(k - 1) : i \in 1..Len(ch)
        BY <1>1
      <4> QED BY <1>1, <4>1, ElementOfSeq
    <3> DEFINE b == k - 1
    <3>3. b \in Int /\ 1 \in Int /\ 0 <= b /\ \A i \in 1..b : ch[i] \in 1..n
      BY <3>1, <3>2
    <3> HIDE DEF b
    <3>4. /\ Len(SubSeq(ch, 1, b)) = IF 1 <= b THEN b - 1 + 1 ELSE 0
          /\ \A i \in 1..(b - 1 + 1) : SubSeq(ch, 1, b)[i] = ch[1 + i - 1]
      BY <3>3, SubSeqProperties
    <3>5. (IF 1 <= b THEN b - 1 + 1 ELSE 0) = b /\ b - 1 + 1 = b /\ \A i \in 1..b : 1 + i - 1 = i
      BY <3>3
    <3>6. Len(SubSeq(ch, 1, b)) = b /\ \A i \in 1..b : SubSeq(ch, 1, b)[i] = ch[i]
      BY <3>4, <3>5
    <3> QED BY <2>2, <3>6 DEF b
  <2> QED BY <2>1, <2>2
<1> HIDE DEF w, l
<1>4. x \in L!ToSet(w) <=> \E i \in 1..l : ch[i] = x
  <2>1. L!ToSet(w) = {w[i] : i \in 1..l}
    <3>1. L!ToSet(w) = {w[i] : i \in DOMAIN w}
      BY DEF L!ToSet
    <3>2. w \in Seq(1..n)
      <4>1. CASE k = 0
        BY <1>1, <4>1 DEF w
      <4>2. CASE k # 0
        <5>1. \A i \in 1..(k - 1) : ch[i] \in 1..n
          <6>1. \A i \in 1..(k - 1) : i \in 1..Len(ch)
            BY <1>1
          <6> QED BY <1>1, <6>1, ElementOfSeq
        <5>2. k - 1 \in Int /\ 1 \in Int
          BY <1>1
        <5>3. SubSeq(ch, 1, k - 1) \in Seq(1..n)
          BY <5>1, <5>2, SubSeqProperties
        <5> QED BY <4>2, <5>3 DEF w
      <4> QED BY <4>1, <4>2
    <3>3. DOMAIN w = 1..l
      BY <1>3, <3>2, LenProperties
    <3> QED BY <3>1, <3>3
  <2> QED BY <1>3, <2>1
<1>5. ASSUME NEW i \in 1..l, ch[i] = x PROVE Gains(x, Q, ch, t)
  <2>1. i \in 1..Len(ch) /\ (k = 0 \/ i < k)
    BY <1>1, <1>2
  <2>2. Q[ch[i]].trans[t] = 0
    BY <1>1, <2>1 DEF FirstOn
  <2> QED BY <1>5, <2>1, <2>2 DEF Gains
<1>6. ASSUME Gains(x, Q, ch, t) PROVE \E i \in 1..l : ch[i] = x
  <2>1. PICK i \in 1..Len(ch) : ch[i] = x
    BY <1>6 DEF Gains
  <2>2. k = 0 \/ i < k
    <3>1. Q[ch[i]].trans[t] = 0
      BY <1>6, <2>1 DEF Gains
    <3> QED BY <3>1, BeforeFirst
  <2>3. i \in 1..l
    BY <1>1, <1>2, <2>2
  <2> QED BY <2>1, <2>3
<1> QED BY <1>4, <1>5, <1>6 DEF w

LEMMA Behind ==
  ASSUME NEW Q, NEW n, NEW s, NEW t, NEW c, NEW ch, NEW k, Ready(Q, n, s, t, c, ch, k), k # 0,
         NEW q, NEW x
  PROVE  x \in {y \in L!ToSet(SubSeq(ch, k, Len(ch))) : Q[y].trans[t] = q} <=> Diverted(x, Q, ch, k, t, q)
<1> DEFINE l == Len(ch)
           w == SubSeq(ch, k, l)
<1>1. ch \in Seq(1..n) /\ l \in Nat /\ k \in 1..l
  BY ReadyFacts DEF Ready, FirstOn, Goes
<1>2. \A i \in k..l : ch[i] \in 1..n
  <2>1. \A i \in k..l : i \in 1..l
    BY <1>1
  <2> QED BY <1>1, <2>1, ElementOfSeq
<1> HIDE DEF l
<1>3. k \in Int /\ l \in Int /\ k <= l
  BY <1>1
<1>4. /\ w \in Seq(1..n) /\ Len(w) = IF k <= l THEN l - k + 1 ELSE 0
      /\ \A i \in 1..(l - k + 1) : w[i] = ch[k + i - 1]
  BY <1>2, <1>3, SubSeqProperties
<1> HIDE DEF w
<1>5. DOMAIN w = 1..(l - k + 1)
  BY <1>3, <1>4, LenProperties
<1>6. x \in L!ToSet(w) <=> \E i \in k..l : ch[i] = x
  <2>1. x \in L!ToSet(w) <=> \E i \in 1..(l - k + 1) : w[i] = x
    BY <1>5 DEF L!ToSet
  <2>2. ASSUME NEW i \in 1..(l - k + 1), w[i] = x PROVE \E j \in k..l : ch[j] = x
    <3>1. k + i - 1 \in k..l
      BY <1>3
    <3>2. ch[k + i - 1] = x
      BY <1>4, <2>2
    <3> QED BY <3>1, <3>2
  <2>3. ASSUME NEW j \in k..l, ch[j] = x PROVE \E i \in 1..(l - k + 1) : w[i] = x
    <3> DEFINE i == j - k + 1
    <3>1. i \in 1..(l - k + 1) /\ k + i - 1 = j
      BY <1>3
    <3> HIDE DEF i
    <3>2. w[i] = x
      BY <1>4, <2>3, <3>1
    <3> QED BY <3>1, <3>2
  <2> QED BY <2>1, <2>2, <2>3
<1> QED BY <1>6 DEF Diverted, w, l

LEMMA BegunIs ==
  ASSUME NEW Q, NEW n, NEW s, NEW t, NEW c, NEW ch, NEW k, Ready(Q, n, s, t, c, ch, k),
         NEW m \in Nat, n < m, NEW z \in 0..m
  PROVE  LET g == Append(L!Redirected(Q, L!ToSet(IF k = 0 THEN ch ELSE SubSeq(ch, 1, k - 1)), t, n + 1),
                         [len |-> Q[c].len + 1, link |-> z, trans |-> L!Blank, end |-> Len(s) + 1])
         IN  g \in [1..(n + 1) -> Nodes(m)] /\ Begun(g, Q, n, s, t, ch, z)
<1> DEFINE above == L!ToSet(IF k = 0 THEN ch ELSE SubSeq(ch, 1, k - 1))
           r == L!Redirected(Q, above, t, n + 1)
           leaf == [len |-> Q[c].len + 1, link |-> z, trans |-> L!Blank, end |-> Len(s) + 1]
           g == Append(r, leaf)
<1>1. n \in Nat \ {0} /\ Q \in [1..n -> Nodes(n)] /\ t \in Token /\ Len(s) \in Nat /\ Q[c].len = Len(s)
  BY ReadyFacts DEF OfText, Ready
<1>2. \A x : x \in above <=> Gains(x, Q, ch, t)
  BY Above
<1> HIDE DEF above
<1>3. n \in Nat /\ n <= m /\ n + 1 \in 0..m
  BY <1>1
<1>4. Q \in [1..n -> Nodes(m)]
  <2>1. \A q \in Nodes(n) : q \in Nodes(m)
    BY <1>3, MoreStates
  <2> QED BY <1>1, <2>1
<1>5. r \in [1..n -> Nodes(m)]
  BY <1>1, <1>3, <1>4, RedirectedFacts
<1>6. leaf \in Nodes(m)
  <2>1. L!Blank \in [Token -> 0..m]
    BY DEF L!Blank
  <2>2. Q[c].len + 1 \in Nat /\ Len(s) + 1 \in Nat
    BY <1>1
  <2> QED BY <2>1, <2>2 DEF Nodes
<1>7. leaf.len = Len(s) + 1 /\ leaf.end = Len(s) + 1 /\ leaf.link = z /\ \A u \in Token : leaf.trans[u] = 0
  BY <1>1 DEF L!Blank
<1>8. ASSUME NEW x \in 1..n
      PROVE  /\ r[x].len = Q[x].len /\ r[x].end = Q[x].end /\ r[x].link = Q[x].link
             /\ \A u \in Token : r[x].trans[u] = IF u = t /\ Gains(x, Q, ch, t) THEN n + 1 ELSE Q[x].trans[u]
  <2>1. /\ r[x].len = Q[x].len /\ r[x].end = Q[x].end /\ r[x].link = Q[x].link
        /\ \A u \in Token : r[x].trans[u] = IF u = t /\ x \in above THEN n + 1 ELSE Q[x].trans[u]
    <3> DEFINE z0 == n + 1
    <3>1. n \in Nat /\ Q \in [1..n -> Nodes(n)] /\ t \in Token /\ x \in 1..n
      BY <1>1, <1>3
    <3> HIDE DEF z0
    <3>2. Bends(L!Redirected(Q, above, t, z0)[x], Q[x], x \in above, t, z0)
      BY <3>1, RedirectedIs
    <3> QED BY <3>2 DEF z0, Bends
  <2> QED BY <1>2, <2>1
<1> HIDE DEF r, leaf
<1>9. g \in [1..(n + 1) -> Nodes(m)]
  BY <1>3, <1>5, <1>6, AppendedStates
<1>10. g[n + 1] = leaf /\ \A x \in 1..n : g[x] = r[x]
  BY <1>3, <1>5, <1>6, AppendedAt
<1> HIDE DEF g
<1>11. Begun(g, Q, n, s, t, ch, z)
  BY <1>7, <1>8, <1>10 DEF Begun, NewOne
<1> QED BY <1>9, <1>11 DEF g, r, leaf, above

(* g with q cut to its strings of more than l tokens, the others in w, to  *)
(* which those that went to q with t turn.                                 *)
Halved(g, those, t, q, l, w) ==
  LET p == Append(L!Redirected(g, those, t, w), [g[q] EXCEPT !.len = l])
  IN  [p EXCEPT ![q].link = w]

LEMMA SplitIs ==
  ASSUME NEW Q, NEW n, NEW s, NEW t, NEW c, NEW ch, NEW k, Ready(Q, n, s, t, c, ch, k), k # 0,
         NEW q \in 1..n, NEW l \in Nat,
         NEW g \in [1..(n + 1) -> Nodes(n + 2)], Begun(g, Q, n, s, t, ch, n + 2),
         NEW leading, \A x : x \in leading <=> Diverted(x, Q, ch, k, t, q)
  PROVE  SamSplit(Halved(g, leading, t, q, l, n + 2), Q, n, s, t, ch, k, q, l)
<1> DEFINE r == L!Redirected(g, leading, t, n + 2)
           copy == [g[q] EXCEPT !.len = l]
           p == Append(r, copy)
           R == [p EXCEPT ![q].link = n + 2]
<1>1. /\ n \in Nat \ {0} /\ Q \in [1..n -> Nodes(n)] /\ t \in Token
      /\ \A i \in 1..Len(ch) : ch[i] \in 1..n
      /\ Len(ch) \in Nat /\ k \in 1..Len(ch)
  BY ReadyFacts DEF OfText, Ready, Goes, FirstOn
<1>2. \A x : x \in leading <=> Diverted(x, Q, ch, k, t, q)
  OBVIOUS
<1>3. n + 1 \notin leading
  <2> SUFFICES ASSUME Diverted(n + 1, Q, ch, k, t, q) PROVE FALSE
    BY <1>2
  <2>1. PICK i \in k..Len(ch) : ch[i] = n + 1
    BY DEF Diverted
  <2>2. i \in 1..Len(ch)
    BY <1>1
  <2>3. n + 1 \in 1..n
    BY <1>1, <2>1, <2>2
  <2> QED BY <1>1, <2>3
<1>4. /\ n + 1 \in Nat /\ n + 2 \in Nat /\ n + 2 \in 0..(n + 2) /\ n + 1 \in 1..(n + 1)
      /\ (n + 1) + 1 = n + 2 /\ n + 1 \in 1..(n + 2) /\ n + 2 \in 1..(n + 2)
      /\ n + 1 # q /\ n + 2 # q /\ q \in 1..(n + 1) /\ q \in 1..(n + 2)
      /\ \A x \in 1..n : x \in 1..(n + 1) /\ x \in 1..(n + 2)
  BY <1>1
<1>5. /\ NewOne(g, n, s, n + 2)
      /\ \A x \in 1..n :
           /\ g[x].len = Q[x].len /\ g[x].end = Q[x].end /\ g[x].link = Q[x].link
           /\ \A u \in Token :
                g[x].trans[u] = IF u = t /\ Gains(x, Q, ch, t) THEN n + 1 ELSE Q[x].trans[u]
  BY DEF Begun
<1>6. r \in [1..(n + 1) -> Nodes(n + 2)]
  BY <1>1, <1>4, RedirectedFacts
<1>7. ASSUME NEW x \in 1..(n + 1)
      PROVE  /\ r[x].len = g[x].len /\ r[x].end = g[x].end /\ r[x].link = g[x].link
             /\ \A u \in Token : r[x].trans[u] = IF u = t /\ x \in leading THEN n + 2 ELSE g[x].trans[u]
  <2> DEFINE z0 == n + 2
             m0 == n + 1
  <2>1. z0 \in Nat /\ m0 \in Nat /\ g \in [1..m0 -> Nodes(z0)] /\ t \in Token /\ x \in 1..m0
    BY <1>1, <1>4
  <2> HIDE DEF z0, m0
  <2>2. Bends(L!Redirected(g, leading, t, z0)[x], g[x], x \in leading, t, z0)
    BY <2>1, RedirectedIs
  <2> QED BY <2>2 DEF z0, Bends
<1> HIDE DEF r
<1>8. /\ copy \in Nodes(n + 2) /\ copy.len = l /\ copy.end = g[q].end /\ copy.link = g[q].link
      /\ copy.trans = g[q].trans
  <2> DEFINE x == g[q]
  <2>1. x \in Nodes(n + 2)
    BY <1>4
  <2> HIDE DEF x
  <2>2. LET y == [x EXCEPT !.len = l]
        IN  y \in Nodes(n + 2) /\ y.len = l /\ y.end = x.end /\ y.link = x.link /\ y.trans = x.trans
    BY <2>1 DEF Nodes
  <2> QED BY <2>2 DEF x
<1> HIDE DEF copy
<1>9. p \in [1..(n + 2) -> Nodes(n + 2)] /\ p[n + 2] = copy /\ \A x \in 1..(n + 1) : p[x] = r[x]
  <2>1. Append(r, copy) \in [1..((n + 1) + 1) -> Nodes(n + 2)]
    BY <1>4, <1>6, <1>8, AppendedStates
  <2>2. Append(r, copy)[(n + 1) + 1] = copy /\ \A x \in 1..(n + 1) : Append(r, copy)[x] = r[x]
    BY <1>4, <1>6, <1>8, AppendedAt
  <2> QED BY <1>4, <2>1, <2>2
<1> HIDE DEF p
<1>10. /\ R \in [1..(n + 2) -> Nodes(n + 2)] /\ \A x \in 1..(n + 2) : x # q => R[x] = p[x]
       /\ R[q].len = p[q].len /\ R[q].end = p[q].end /\ R[q].link = n + 2 /\ R[q].trans = p[q].trans
  <2> DEFINE x == p[q]
             y == [x EXCEPT !.link = n + 2]
  <2>1. x \in Nodes(n + 2)
    BY <1>4, <1>9
  <2> HIDE DEF x
  <2>2. y \in Nodes(n + 2) /\ y.len = x.len /\ y.end = x.end /\ y.link = n + 2 /\ y.trans = x.trans
    BY <1>4, <2>1 DEF Nodes
  <2>3. R = [p EXCEPT ![q] = y]
    BY DEF x
  <2> HIDE DEF y
  <2>4. R \in [1..(n + 2) -> Nodes(n + 2)] /\ R[q] = y /\ \A i \in 1..(n + 2) : i # q => R[i] = p[i]
    BY <1>4, <1>9, <2>2, <2>3
  <2> QED BY <2>2, <2>4 DEF x
<1> HIDE DEF R
<1>11. NewOne(R, n, s, n + 2)
  <2>1. R[n + 1] = r[n + 1]
    BY <1>4, <1>9, <1>10
  <2>2. /\ r[n + 1].len = g[n + 1].len /\ r[n + 1].end = g[n + 1].end /\ r[n + 1].link = g[n + 1].link
        /\ \A u \in Token : r[n + 1].trans[u] = g[n + 1].trans[u]
    BY <1>3, <1>4, <1>7
  <2> QED BY <1>5, <2>1, <2>2 DEF NewOne
<1>12. ASSUME NEW x \in 1..n
       PROVE  /\ R[x].len = Q[x].len /\ R[x].end = Q[x].end
              /\ R[x].link = IF x = q THEN n + 2 ELSE Q[x].link
              /\ \A u \in Token :
                   R[x].trans[u] = IF u = t /\ Gains(x, Q, ch, t) THEN n + 1
                                   ELSE IF u = t /\ Diverted(x, Q, ch, k, t, q) THEN n + 2 ELSE Q[x].trans[u]
  <2>1. R[x].len = r[x].len /\ R[x].end = r[x].end /\ R[x].trans = r[x].trans
        /\ R[x].link = IF x = q THEN n + 2 ELSE r[x].link
    BY <1>4, <1>9, <1>10
  <2>2. r[x].len = Q[x].len /\ r[x].end = Q[x].end /\ r[x].link = Q[x].link
    BY <1>4, <1>5, <1>7
  <2>3. ASSUME NEW u \in Token
        PROVE  r[x].trans[u] = IF u = t /\ Gains(x, Q, ch, t) THEN n + 1
                               ELSE IF u = t /\ Diverted(x, Q, ch, k, t, q) THEN n + 2 ELSE Q[x].trans[u]
    <3>1. r[x].trans[u] = IF u = t /\ x \in leading THEN n + 2 ELSE g[x].trans[u]
      BY <1>4, <1>7
    <3>2. g[x].trans[u] = IF u = t /\ Gains(x, Q, ch, t) THEN n + 1 ELSE Q[x].trans[u]
      BY <1>5
    <3>3. ~(Gains(x, Q, ch, t) /\ Diverted(x, Q, ch, k, t, q))
      <4>1. q # 0
        BY <1>4
      <4> QED BY <4>1 DEF Gains, Diverted
    <3> QED BY <1>2, <3>1, <3>2, <3>3
  <2> QED BY <2>1, <2>2, <2>3
<1>13. /\ R[n + 2].len = l /\ R[n + 2].end = Q[q].end /\ R[n + 2].link = Q[q].link
       /\ \A u \in Token :
            R[n + 2].trans[u] = IF u = t /\ Gains(q, Q, ch, t) THEN n + 1 ELSE Q[q].trans[u]
  <2>1. R[n + 2] = copy
    BY <1>4, <1>9, <1>10
  <2> QED BY <1>5, <1>8, <2>1
<1>14. SamSplit(R, Q, n, s, t, ch, k, q, l)
  BY <1>10, <1>11, <1>12, <1>13 DEF SamSplit
<1> QED BY <1>14 DEF R, p, r, copy, Halved

LEMMA GrownTo ==
  ASSUME NEW n \in Nat \ {0}, NEW a, SamTyped(a, n), NEW t \in Token, OfText(a.states, n, a.seq),
         a.states[a.last].len = Len(a.seq)
  PROVE  LET ch == L!Chain(a.states, a.last)
             k == L!FirstWith(a.states, ch, t)
             b == L!Grown(a, t)
         IN  /\ Ready(a.states, n, a.seq, t, a.last, ch, k)
             /\ \E d : GrewTo(b.states, d, a.states, n, a.seq, t, ch, k)
             /\ b.last = n + 1 /\ b.at = a.at /\ b.matched = a.matched /\ b.seq = a.seq
<1> DEFINE Q == a.states
           s == a.seq
           ch == L!Chain(Q, a.last)
           k == L!FirstWith(Q, ch, t)
           c == a.last
           above == L!ToSet(IF k = 0 THEN ch ELSE SubSeq(ch, 1, k - 1))
           v == Len(Q) + 1
           leaf(z) == [len |-> Q[c].len + 1, link |-> z, trans |-> L!Blank, end |-> Len(s) + 1]
           grown(z) == Append(L!Redirected(Q, above, t, v), leaf(z))
           q == Q[ch[k]].trans[t]
           l == Q[ch[k]].len + 1
           w == v + 1
           leading == {x \in L!ToSet(SubSeq(ch, k, Len(ch))) : Q[x].trans[t] = q}
           copy == [grown(w)[q] EXCEPT !.len = l]
           split == Append(L!Redirected(grown(w), leading, t, w), copy)
           R == IF k = 0 THEN grown(1)
                ELSE IF l = Q[q].len THEN grown(q)
                ELSE [split EXCEPT ![q].link = w]
<1>1. L!Grown(a, t) = [a EXCEPT !.last = v, !.states = R]
  BY DEF L!Grown
<1>2. /\ Q \in [1..n -> Nodes(n)] /\ c \in 1..n /\ s \in Context /\ OfText(Q, n, s) /\ Q[c].len = Len(s)
  BY DEF SamTyped
<1>3. Goes(ch, Q, n, c) /\ Falls(ch, Q)
  BY <1>2, ChainGoes
<1>4. FirstOn(k, Q, ch, t)
  <2>1. ch \in Seq(1..n)
    BY <1>3 DEF Goes
  <2> HIDE DEF ch
  <2> QED BY <1>2, <2>1, FirstIs
<1>5. v = n + 1 /\ w = n + 2
  <2>1. Len(Q) = n
    BY <1>2, LenProperties
  <2> QED BY <2>1
<1> HIDE DEF ch, k
<1>6. Ready(Q, n, s, t, c, ch, k)
  BY <1>2, <1>3, <1>4 DEF Ready
<1> HIDE DEF Q, s, c
<1>7. ASSUME NEW m \in Nat, n < m, NEW z \in 0..m
      PROVE  grown(z) \in [1..(n + 1) -> Nodes(m)] /\ Begun(grown(z), Q, n, s, t, ch, z)
  <2>1. LET g == Append(L!Redirected(Q, L!ToSet(IF k = 0 THEN ch ELSE SubSeq(ch, 1, k - 1)), t, n + 1),
                        [len |-> Q[c].len + 1, link |-> z, trans |-> L!Blank, end |-> Len(s) + 1])
        IN  g \in [1..(n + 1) -> Nodes(m)] /\ Begun(g, Q, n, s, t, ch, z)
    BY <1>6, <1>7, BegunIs
  <2> QED BY <1>5, <2>1
<1> HIDE DEF grown, v, w
<1>8. /\ 1 \in 1..n /\ n + 1 \in Nat /\ n < n + 1 /\ n + 2 \in Nat /\ n < n + 2 /\ n + 2 \in 0..(n + 2)
      /\ \A x \in 1..n : x \in 0..(n + 1)
  OBVIOUS
<1>9. ASSUME NEW z \in 1..n, k = 0 => z = 1, k # 0 => z = q /\ Q[z].len = l
      PROVE  GrewTo(grown(z), n + 1, Q, n, s, t, ch, k)
  <2>1. grown(z) \in [1..(n + 1) -> Nodes(n + 1)] /\ Begun(grown(z), Q, n, s, t, ch, z)
    BY <1>7, <1>8
  <2>2. Lengthened(grown(z), Q, n, s, t, ch, z)
    BY <2>1 DEF Lengthened, Begun
  <2> QED BY <1>6, <1>9, <2>2, LengthenedTo
<1>10. ASSUME k # 0 PROVE q \in 1..n /\ l \in Nat
  <2>1. ch[k] \in 1..n /\ q \in 1..n
    BY <1>6, <1>10, RecursThere
  <2>2. Q[ch[k]].len \in Nat
    BY <1>2, <2>1, StateFacts DEF Q, s
  <2> QED BY <2>1, <2>2
<1>11. \E d : GrewTo(R, d, Q, n, s, t, ch, k)
  <2>1. CASE k = 0
    <3>1. GrewTo(grown(1), n + 1, Q, n, s, t, ch, k)
      BY <1>8, <1>9, <2>1
    <3> QED BY <2>1, <3>1
  <2>2. CASE k # 0 /\ l = Q[q].len
    <3>1. GrewTo(grown(q), n + 1, Q, n, s, t, ch, k)
      BY <1>9, <1>10, <2>2
    <3> QED BY <2>2, <3>1
  <2>3. CASE k # 0 /\ l # Q[q].len
    <3> DEFINE g == grown(n + 2)
               q0 == q
               l0 == l
               those == {x \in L!ToSet(SubSeq(ch, k, Len(ch))) : Q[x].trans[t] = q0}
               R2 == Halved(g, those, t, q0, l0, n + 2)
    <3>1. g \in [1..(n + 1) -> Nodes(n + 2)] /\ Begun(g, Q, n, s, t, ch, n + 2)
      BY <1>7, <1>8
    <3>2. R = R2
      BY <1>5, <2>3 DEF Halved
    <3>7. \A x : x \in those <=> Diverted(x, Q, ch, k, t, q0)
      BY <1>6, <2>3, Behind
    <3>4. /\ q0 = Q[ch[k]].trans[t] /\ l0 = Q[ch[k]].len + 1 /\ l0 # Q[q0].len /\ k # 0
          /\ q0 \in 1..n /\ l0 \in Nat
      BY <1>10, <2>3
    <3> HIDE DEF g, q0, l0, those
    <3>6. q0 \in 1..n /\ l0 \in Nat /\ k # 0
      BY <3>4
    <3>3. SamSplit(R2, Q, n, s, t, ch, k, q0, l0)
      BY <1>6, <3>1, <3>6, <3>7, SplitIs
    <3> HIDE DEF R2
    <3>5. GrewTo(R2, n + 2, Q, n, s, t, ch, k)
      BY <1>6, <3>3, <3>4, SplitTo
    <3> QED BY <3>2, <3>5
  <2> QED BY <2>1, <2>2, <2>3
<1> HIDE DEF R
<1>12. L!Grown(a, t).states = R /\ L!Grown(a, t).last = n + 1 /\ L!Grown(a, t).at = a.at
       /\ L!Grown(a, t).matched = a.matched /\ L!Grown(a, t).seq = a.seq
  BY <1>1, <1>5 DEF SamTyped
<1> QED BY <1>6, <1>11, <1>12 DEF ch, k, Q, s, c

LEMMA StepIs ==
  ASSUME NEW n \in Nat \ {0}, NEW a, SamTyped(a, n), NEW t \in Token, OfText(a.states, n, a.seq),
         Cursor(a.states, n, a.seq, a.at, a.matched)
  PROVE  Stepped(a.states, n, a.seq, t, L!Step(a, t).at, L!Step(a, t).matched)
<1> DEFINE Q == a.states
           s == a.seq
           N == Len(s)
           ch == L!Chain(Q, a.at)
           k == L!FirstWith(Q, ch, t)
           x == IF k = 0 THEN L!Last(ch) ELSE ch[k]
           l == IF x = a.at THEN a.matched ELSE Q[x].len
           y == L!Step(a, t).at
           M == L!Step(a, t).matched
<1>1. y = (IF k = 0 THEN 1 ELSE Q[x].trans[t]) /\ M = (IF k = 0 THEN 0 ELSE l + 1)
  BY DEF L!Step
<1>2. Q \in [1..n -> Nodes(n)] /\ a.at \in 1..n /\ s \in Context /\ N \in Nat
      /\ OfText(Q, n, s) /\ Cursor(Q, n, s, a.at, a.matched)
  BY Nothing DEF SamTyped
<1> DEFINE at == a.at
           P == a.matched
<1>3. Goes(ch, Q, n, at) /\ Falls(ch, Q)
  BY <1>2, ChainGoes
<1>4. FirstOn(k, Q, ch, t)
  <2>1. ch \in Seq(1..n)
    BY <1>3 DEF Goes
  <2> HIDE DEF ch
  <2> QED BY <1>2, <2>1, FirstIs
<1> HIDE DEF ch, k, y, M, Q, s, at, P
<1>5. ASSUME NEW e \in 0..N, NEW m \in Nat \ {0}, Alike(Append(s, t), e, N + 1, m)
      PROVE  k # 0 /\ m - 1 <= (IF ch[k] = at THEN P ELSE Q[ch[k]].len)
  <2>1. Cursor(Q, n, s, at, P)
    BY <1>2 DEF at, P
  <2> QED BY <1>2, <1>3, <1>4, <1>5, <2>1, StepBound
<1>6. CASE k = 0
  <2>1. y = 1 /\ M = 0
    BY <1>1, <1>6
  <2>2. 1 \in 1..n /\ Q[1].len = 0 /\ Shortest(Q, 1) = 0 /\ Q[1].end \in Nat /\ Q[1].end <= N
    BY <1>2, RootFacts, StateFacts
  <2>3. N + 1 \in Nat
    BY <1>2
  <2>4. Alike(Append(s, t), Q[1].end, N + 1, 0)
    BY <2>2, <2>3, AlikeNone
  <2>5. ASSUME NEW e \in 0..N, NEW m \in Nat, Alike(Append(s, t), e, N + 1, m) PROVE m <= 0
    <3> SUFFICES ASSUME m # 0 PROVE FALSE
      OBVIOUS
    <3>1. k # 0
      BY <1>5, <2>5
    <3> QED BY <1>6, <3>1
  <2>6. 0 \in Nat /\ 0 <= 0
    OBVIOUS
  <2>7. Stepped(Q, n, s, t, 1, 0)
    BY <2>2, <2>4, <2>5, <2>6 DEF Stepped
  <2> QED BY <2>1, <2>7 DEF Q, s, y, M
<1>7. CASE k # 0
  <2> DEFINE x0 == ch[k]
             y0 == Q[x0].trans[t]
             l0 == IF x0 = at THEN P ELSE Q[x0].len
  <2>1. y = y0 /\ M = l0 + 1
    BY <1>1, <1>7 DEF at, P
  <2>2. /\ x0 \in 1..n /\ y0 \in 1..n /\ l0 \in Nat /\ l0 + 1 <= Q[y0].len /\ Shortest(Q, y0) <= l0 + 1
        /\ Q[y0].end <= N /\ Alike(Append(s, t), Q[y0].end, N + 1, l0 + 1)
    <3>1. Cursor(Q, n, s, at, P)
      BY <1>2 DEF at, P
    <3> QED BY <1>2, <1>3, <1>4, <1>7, <3>1, StepThere
  <2>3. ASSUME NEW e \in 0..N, NEW m \in Nat, Alike(Append(s, t), e, N + 1, m) PROVE m <= l0 + 1
    <3>1. CASE m = 0
      BY <2>2, <3>1
    <3>2. CASE m # 0
      <4>1. m - 1 <= l0
        BY <1>5, <2>3, <3>2
      <4> HIDE DEF l0
      <4> QED BY <2>2, <4>1
    <3> QED BY <3>1, <3>2
  <2> HIDE DEF x0, y0, l0
  <2>4. l0 + 1 \in Nat
    BY <2>2
  <2>5. Stepped(Q, n, s, t, y0, l0 + 1)
    BY <2>2, <2>3, <2>4 DEF Stepped
  <2> QED BY <2>1, <2>5 DEF Q, s, y, M
<1> QED BY <1>6, <1>7

(* The states the cursor passes are those of suffixes.                     *)
LEMMA PassedEnd ==
  ASSUME NEW n \in Nat \ {0}, NEW a, SamTyped(a, n), NEW t \in Token, OfText(a.states, n, a.seq),
         Cursor(a.states, n, a.seq, a.at, a.matched), NEW x \in L!Step(a, t).passed
  PROVE  x \in 1..n /\ Alike(a.seq, a.states[x].end, Len(a.seq), a.states[x].len)
<1> DEFINE Q == a.states
           s == a.seq
           ch == L!Chain(Q, a.at)
           k == L!FirstWith(Q, ch, t)
           j == IF k = 0 THEN Len(ch) ELSE k
<1>1. x \in L!ToSet(SubSeq(ch, 2, j))
  BY DEF L!Step
<1>2. Q \in [1..n -> Nodes(n)] /\ a.at \in 1..n /\ OfText(Q, n, s) /\ Cursor(Q, n, s, a.at, a.matched)
  BY DEF SamTyped
<1>3. Goes(ch, Q, n, a.at) /\ Falls(ch, Q)
  BY <1>2, ChainGoes
<1>4. ch \in Seq(1..n) /\ Len(ch) \in Nat \ {0}
  BY <1>3 DEF Goes
<1>5. j \in 1..Len(ch)
  <2>1. k \in 0..Len(ch)
    <3> HIDE DEF ch
    <3>1. FirstOn(L!FirstWith(Q, ch, t), Q, ch, t)
      BY <1>2, <1>4, FirstIs
    <3> QED BY <3>1 DEF FirstOn
  <2> HIDE DEF k, ch
  <2> QED BY <1>4, <2>1
<1> HIDE DEF ch, j
<1>6. PICK i \in 2..j : ch[i] = x
  <2> DEFINE w == SubSeq(ch, 2, j)
  <2>1. \A i \in 2..j : ch[i] \in 1..n
    <3>1. \A i \in 2..j : i \in 1..Len(ch)
      BY <1>4, <1>5
    <3> QED BY <1>4, <3>1, ElementOfSeq
  <2>2. 2 \in Int /\ j \in Int
    BY <1>5
  <2>3. /\ w \in Seq(1..n) /\ Len(w) = IF 2 <= j THEN j - 2 + 1 ELSE 0
        /\ \A i \in 1..(j - 2 + 1) : w[i] = ch[2 + i - 1]
    BY <2>1, <2>2, SubSeqProperties
  <2> HIDE DEF w
  <2>4. DOMAIN w = 1..Len(w) /\ Len(w) \in Nat
    BY <2>3, LenProperties
  <2>5. PICK i \in 1..Len(w) : w[i] = x
    BY <1>1, <2>4 DEF L!ToSet, w
  <2>6. i \in 1..(j - 2 + 1) /\ 2 + i - 1 \in 2..j
    BY <2>2, <2>3, <2>5
  <2> QED BY <2>3, <2>5, <2>6
<1>7. i \in 1..Len(ch) /\ 1 < i /\ 1 \in 1..Len(ch)
  BY <1>4, <1>5
<1>8. x \in 1..n /\ (x = a.at \/ Alike(s, Q[x].end, Len(s), Q[x].len))
  <2> DEFINE at == a.at
             M == a.matched
  <2>1. Cursor(Q, n, s, at, M) /\ Goes(ch, Q, n, at) /\ Falls(ch, Q) /\ OfText(Q, n, s)
    BY <1>2, <1>3
  <2> HIDE DEF at, M, Q, s
  <2>2. ch[i] \in 1..n /\ (ch[i] = at \/ Alike(s, Q[ch[i]].end, Len(s), Q[ch[i]].len))
    BY <1>7, <2>1, CursorFacts
  <2> QED BY <1>6, <2>2 DEF at
<1>9. x # a.at
  <2> SUFFICES ASSUME x = a.at PROVE FALSE
    OBVIOUS
  <2>1. ch[1] = x /\ ch[i] = x
    BY <1>3, <1>6 DEF Goes
  <2>2. Q[x].len < Shortest(Q, x)
    BY <1>3, <1>7, <2>1 DEF Falls
  <2>3. Q[x].len \in Nat /\ Shortest(Q, x) \in Nat /\ Shortest(Q, x) <= Q[x].len
    BY <1>2, <1>8, StateFacts
  <2> QED BY <2>2, <2>3
<1> QED BY <1>8, <1>9

(* _advance_match: the states still stand for the same, and the cursor is  *)
(* where it gets to.                                                       *)
LEMMA AdvancedIs ==
  ASSUME NEW n \in Nat \ {0}, NEW a, SamTyped(a, n), NEW t \in Token, OfText(a.states, n, a.seq),
         Cursor(a.states, n, a.seq, a.at, a.matched)
  PROVE  LET b == L!Advanced(a, t)
         IN  /\ SamMoved(b.states, a.states, n, a.seq)
             /\ Stepped(a.states, n, a.seq, t, b.at, b.matched)
             /\ b.last = a.last /\ b.seq = a.seq
<1> DEFINE step == L!Step(a, t)
           full == IF a.matched > 0 /\ a.matched = a.states[a.at].len THEN {a.at} ELSE {}
           those == step.passed \cup full
           states == [s \in DOMAIN a.states |->
                        IF s \in step.passed \cup full
                        THEN [a.states[s] EXCEPT !.end = Len(a.seq)] ELSE a.states[s]]
           Q == a.states
           s == a.seq
<1>1. Stepped(Q, n, s, t, step.at, step.matched)
  BY StepIs
<1>2. L!Advanced(a, t) = [a EXCEPT !.states = states, !.at = step.at, !.matched = step.matched]
  BY DEF L!Advanced
<1>3. Q \in [1..n -> Nodes(n)] /\ DOMAIN Q = 1..n /\ Len(s) \in Nat /\ OfText(Q, n, s) /\ a.at \in 1..n
  BY Nothing DEF SamTyped
<1>4. ASSUME NEW x \in those PROVE x \in 1..n /\ Alike(s, Q[x].end, Len(s), Q[x].len)
  <2>1. CASE x \in step.passed
    BY <2>1, PassedEnd
  <2>2. CASE x \in full
    <3>1. x = a.at /\ a.matched = Q[a.at].len
      BY <2>2
    <3> DEFINE at == a.at
               M == a.matched
               ch == L!Chain(Q, at)
    <3>2. Goes(ch, Q, n, at) /\ Falls(ch, Q) /\ Cursor(Q, n, s, at, M)
      BY <1>3, ChainGoes
    <3> HIDE DEF at, M, ch, Q, s
    <3>3. Alike(s, Q[at].end, Len(s), M)
      BY <1>3, <3>2, CursorFacts
    <3> QED BY <1>3, <3>1, <3>3 DEF at, M
  <2> QED BY <2>1, <2>2
<1>5. DOMAIN a.states = 1..n /\ states = [x \in 1..n |-> IF x \in those THEN [Q[x] EXCEPT !.end = Len(s)] ELSE Q[x]]
  BY <1>3
<1> HIDE DEF step, full, states
<1>6. ASSUME NEW x \in 1..n
      PROVE  /\ states[x] \in Nodes(n)
             /\ states[x].len = Q[x].len /\ states[x].link = Q[x].link /\ states[x].trans = Q[x].trans
             /\ states[x].end = IF x \in those THEN Len(s) ELSE Q[x].end
  <2> DEFINE z == Q[x]
             v == Len(s)
  <2>1. z \in Nodes(n) /\ v \in Nat /\ states[x] = IF x \in those THEN [z EXCEPT !.end = v] ELSE z
    BY <1>3, <1>5
  <2> HIDE DEF z, v, those
  <2>2. [z EXCEPT !.end = v] \in Nodes(n)
    BY <2>1 DEF Nodes
  <2>3. /\ [z EXCEPT !.end = v].len = z.len /\ [z EXCEPT !.end = v].link = z.link
        /\ [z EXCEPT !.end = v].trans = z.trans /\ [z EXCEPT !.end = v].end = v
    BY <2>1 DEF Nodes
  <2> QED BY <2>1, <2>2, <2>3 DEF z, v
<1>7. states \in [1..n -> Nodes(n)]
  <2> DEFINE h(x) == IF x \in those THEN [Q[x] EXCEPT !.end = Len(s)] ELSE Q[x]
  <2>1. states = [x \in 1..n |-> h(x)]
    BY <1>5
  <2>2. \A x \in 1..n : h(x) \in Nodes(n)
    <3>1. \A x \in 1..n : states[x] = h(x)
      BY <2>1
    <3> HIDE DEF h
    <3> QED BY <1>6, <3>1
  <2> HIDE DEF h
  <2> QED BY <2>1, <2>2
<1>8. SamMoved(states, Q, n, s)
  <2>1. ASSUME NEW x \in 1..n
        PROVE  states[x].end = Q[x].end \/ (states[x].end = Len(s) /\ Alike(s, Q[x].end, Len(s), Q[x].len))
    BY <1>4, <1>6
  <2> HIDE DEF those, Q, s
  <2> QED BY <1>6, <1>7, <2>1 DEF SamMoved
<1>9. LET b == L!Advanced(a, t)
      IN  b.states = states /\ b.at = step.at /\ b.matched = step.matched /\ b.last = a.last /\ b.seq = a.seq
  BY <1>2 DEF SamTyped
<1> QED BY <1>1, <1>8, <1>9

LEMMA ExtendedIs ==
  ASSUME NEW a, IsAutomaton(a), NEW t \in Token
  PROVE  IsAutomaton(L!Extended(a, t)) /\ L!Extended(a, t).seq = Append(a.seq, t)
<1>1. PICK n \in Nat \ {0} : IsSam(a, n)
  BY DEF IsAutomaton
<1> DEFINE b == L!Advanced(a, t)
           s == a.seq
           Q == b.states
           e == L!Grown(b, t)
           R == e.states
           ch == L!Chain(Q, b.last)
           k == L!FirstWith(Q, ch, t)
           u == Append(s, t)
           r == L!Extended(a, t)
<1>2. SamTyped(a, n) /\ OfText(a.states, n, s) /\ a.states[a.last].len = Len(s)
      /\ Cursor(a.states, n, s, a.at, a.matched)
  BY <1>1 DEF IsSam
<1>3. /\ SamMoved(Q, a.states, n, s) /\ Stepped(a.states, n, s, t, b.at, b.matched)
      /\ b.last = a.last /\ b.seq = s
  BY <1>2, AdvancedIs
<1>4. SamTyped(b, n) /\ a.last \in 1..n
  BY <1>2, AdvancedTyped DEF SamTyped
<1> HIDE DEF b
<1>5. OfText(Q, n, s) /\ Stepped(Q, n, s, t, b.at, b.matched)
  BY <1>2, <1>3, MovedSuffixes, MovedStepped
<1>6. Q[b.last].len = Len(s)
  BY <1>2, <1>3, <1>4 DEF SamMoved
<1>7. /\ Ready(Q, n, s, t, b.last, ch, k) /\ \E d : GrewTo(R, d, Q, n, s, t, ch, k)
      /\ e.last = n + 1 /\ e.at = b.at /\ e.matched = b.matched /\ e.seq = s
  <2>1. /\ Ready(b.states, n, b.seq, t, b.last, ch, k) /\ \E d : GrewTo(R, d, b.states, n, b.seq, t, ch, k)
        /\ e.last = n + 1 /\ e.at = b.at /\ e.matched = b.matched /\ e.seq = b.seq
    BY <1>3, <1>4, <1>5, <1>6, GrownTo
  <2> QED BY <1>3, <2>1
<1>8. PICK m \in Nat \ {0} : SamTyped(e, m)
  BY <1>4, GrownTyped
<1>9. r = [e EXCEPT !.seq = Append(@, t)]
  BY DEF L!Extended, b
<1> HIDE DEF e, ch, k, r, R, Q
<1>10. PICK d : GrewTo(R, d, Q, n, s, t, ch, k)
  BY <1>7
<1>11. /\ d \in Nat /\ n + 1 \in 1..d /\ OfText(R, d, u) /\ R[n + 1].len = Len(s) + 1
  BY <1>10 DEF GrewTo
<1>12. Cursor(R, d, u, b.at, b.matched)
  BY <1>5, <1>7, <1>10, CursorGrows
<1>13. m = d
  <2>1. R \in [1..d -> Nodes(d)] /\ R \in [1..m -> Nodes(m)]
    BY <1>8, <1>11 DEF OfText, SamTyped, R
  <2>2. 1..d = 1..m
    BY <2>1
  <2>3. d \in 1..m /\ m \in 1..d
    BY <1>8, <1>11, <2>2
  <2> QED BY <1>8, <1>11, <2>3
<1>14. s \in Context /\ u \in Context /\ Len(u) = Len(s) + 1
  BY <1>7, ReadyFacts
<1> HIDE DEF u
<1>15. /\ r.states = R /\ r.last = n + 1 /\ r.seq = u /\ r.at = b.at /\ r.matched = b.matched
       /\ SamTyped(r, d)
  <2>1. r = [e EXCEPT !.seq = u]
    BY <1>7, <1>8, <1>9 DEF u
  <2>2. SamTyped(e, d)
    BY <1>8, <1>13
  <2>3. /\ r.states = e.states /\ r.last = e.last /\ r.seq = u /\ r.at = e.at /\ r.matched = e.matched
        /\ SamTyped(r, d)
    BY <1>14, <2>1, <2>2 DEF SamTyped
  <2> QED BY <1>7, <2>3 DEF R
<1>16. IsSam(r, d)
  <2>1. r.states[r.last].len = Len(r.seq)
    BY <1>11, <1>14, <1>15
  <2> QED BY <1>11, <1>12, <1>15, <2>1 DEF IsSam
<1>17. d # 0
  BY <1>11
<1> QED BY <1>11, <1>15, <1>16, <1>17 DEF IsAutomaton, r, u

LEMMA EmptyIs == IsAutomaton(L!Empty)
<1> DEFINE q == [len |-> 0, link |-> 0, trans |-> L!Blank, end |-> 0]
           Q == <<q>>
           s == <<>>
<1>1. q \in Nodes(1) /\ q.len = 0 /\ q.link = 0 /\ q.end = 0 /\ \A t \in Token : q.trans[t] = 0
  BY DEF Nodes, L!Blank
<1>2. L!Empty = [states |-> Q, last |-> 1, seq |-> s, at |-> 1, matched |-> 0]
  BY DEF L!Empty
<1> HIDE DEF q
<1>3. Q \in [1..1 -> Nodes(1)] /\ Q[1] = q /\ 1..1 = {1} /\ s \in Context /\ Len(s) = 0
  BY <1>1 DEF Context
<1> HIDE DEF Q, s
<1>4. SamTyped(L!Empty, 1) /\ L!Empty.states = Q /\ L!Empty.seq = s /\ L!Empty.at = 1 /\ L!Empty.matched = 0
      /\ L!Empty.last = 1
  BY <1>2, <1>3 DEF SamTyped
<1>5. Shortest(Q, 1) = 0 /\ ClassLengths(Q, 1) = {0}
  <2>1. Shortest(Q, 1) = 0
    BY DEF Shortest
  <2> QED BY <1>1, <1>3, <2>1 DEF ClassLengths
<1>6. Alike(s, 0, 0, 0) /\ 0..0 = {0} /\ 0..(0 - 1) = {}
  BY AlikeNone
<1>7. OfText(Q, 1, s)
  <2>1. Shaped(Q, 1, s)
    BY <1>1, <1>3, <1>5 DEF Shaped
  <2>2. LinksTrue(Q, 1, s)
    BY <1>3 DEF LinksTrue
  <2>3. EdgesTrue(Q, 1, s)
    BY <1>1, <1>3 DEF EdgesTrue
  <2>4. EdgesFull(Q, 1, s)
    BY <1>3, <1>6 DEF EdgesFull
  <2>5. EndsWhole(Q, 1, s)
    BY <1>1, <1>3, <1>5, <1>6 DEF EndsWhole
  <2>6. StatesDiffer(Q, 1, s)
    BY <1>3 DEF StatesDiffer
  <2> QED BY <1>3, <2>1, <2>2, <2>3, <2>4, <2>5, <2>6 DEF OfText
<1>8. Cursor(Q, 1, s, 1, 0)
  <2>1. LongestAt(s, Q[1].end, 0)
    BY <1>3, <1>6 DEF LongestAt
  <2>2. 1 \in 1..1 /\ 0 <= Q[1].len /\ Shortest(Q, 1) <= 0
    BY <1>1, <1>3, <1>5
  <2> QED BY <2>1, <2>2 DEF Cursor
<1>9. IsSam(L!Empty, 1)
  <2>1. Q[1].len = Len(s)
    BY <1>1, <1>3
  <2> QED BY <1>4, <1>7, <1>8, <2>1 DEF IsSam
<1> QED BY <1>9 DEF IsAutomaton

LEMMA GenuineIs ==
  ASSUME NEW s \in Context, NEW f \in Nat, f <= Len(s), NEW M, LongestAt(s, f, M), NEW m, Says(m, f, M)
  PROVE  L!Genuine(m, s)
<1> DEFINE N == Len(s)
<1>1. M \in Nat /\ N \in Nat
  BY Nothing DEF LongestAt
<1>2. M # 0 => f < N /\ Alike(s, f, N, M)
  BY DEF LongestAt
<1>3. ASSUME NEW e \in 0..(N - 1), NEW j \in Nat, Alike(s, e, N, j) PROVE j <= M
  BY <1>3 DEF LongestAt
<1>4. ASSUME NEW j \in L!Repeats(s) PROVE j \in Nat \ {0} /\ j <= M
  <2>1. j \in 1..N /\ \E e \in j..(N - 1) : L!Ends(s, j, e)
    BY DEF L!Repeats
  <2> HIDE DEF N
  <2>2. PICK e \in j..(N - 1) : L!Ends(s, j, e)
    BY <2>1
  <2>3. j \in Nat \ {0} /\ e \in Nat /\ j <= e /\ e <= N /\ e \in 0..(N - 1)
    BY <1>1, <2>1, <2>2
  <2>4. Alike(s, e, N, j)
    BY <2>2, <2>3, AlikeEnds DEF N
  <2> QED BY <1>3, <2>3, <2>4
<1>5. ASSUME M # 0 PROVE M \in L!Repeats(s) /\ L!Ends(s, M, f) /\ f < N
  <2>1. M <= f /\ f < N /\ Alike(s, f, N, M)
    BY <1>2, <1>5 DEF Alike
  <2>2. L!Ends(s, M, f)
    BY <1>1, <2>1, AlikeEnds
  <2> HIDE DEF N
  <2>3. M \in 1..N /\ f \in M..(N - 1)
    BY <1>1, <1>5, <2>1
  <2> QED BY <2>1, <2>2, <2>3 DEF L!Repeats, N
<1>6. L!Longest(s) = M
  <2>1. CASE M = 0
    <3>1. L!Repeats(s) = {}
      BY <1>4, <2>1
    <3> QED BY <2>1, <3>1 DEF L!Longest
  <2>2. CASE M # 0
    <3> DEFINE T == L!Repeats(s)
               x == CHOOSE n \in T : \A j \in T : j <= n
    <3>1. M \in T /\ \A j \in T : j \in Nat \ {0} /\ j <= M
      BY <1>4, <1>5, <2>2
    <3> HIDE DEF T
    <3>2. x \in T /\ \A j \in T : j <= x
      BY <3>1
    <3>3. x = M
      <4> HIDE DEF x
      <4>1. M <= x /\ x <= M /\ x \in Nat
        BY <3>1, <3>2
      <4> QED BY <1>1, <4>1
    <3>4. T # {}
      BY <3>1
    <3> QED BY <3>3, <3>4 DEF L!Longest, T
  <2> QED BY <2>1, <2>2
<1>7. CASE M = 0
  BY <1>6, <1>7 DEF L!Genuine, Says
<1>8. CASE M # 0
  BY <1>5, <1>6, <1>8 DEF L!Genuine, Says
<1> QED BY <1>7, <1>8

(* What the automaton of a text says of it is so, now and after any token. *)
LEMMA SamGenuine ==
  ASSUME NEW a, IsAutomaton(a)
  PROVE  /\ L!Genuine(L!LongestMatch(a), a.seq)
         /\ \A t \in Token : L!Genuine(L!Peek(a, t), Append(a.seq, t))
<1>1. PICK n \in Nat \ {0} : IsSam(a, n)
  BY DEF IsAutomaton
<1> DEFINE s == a.seq
           Q == a.states
           at == a.at
           M == a.matched
           N == Len(s)
<1>2. SamTyped(a, n) /\ OfText(Q, n, s) /\ Cursor(Q, n, s, at, M)
  BY <1>1 DEF IsSam
<1>3. s \in Context /\ N \in Nat /\ \A y \in 1..n : Q[y].end \in Nat /\ Q[y].end <= N
  <2>1. s \in Context
    BY <1>2 DEF OfText
  <2>2. \A y \in 1..n : Q[y].end \in Nat /\ Q[y].end <= N
    BY <1>2, StateFacts
  <2> QED BY <2>1, <2>2, Nothing
<1>4. L!Genuine(L!LongestMatch(a), s)
  <2> DEFINE m == L!LongestMatch(a)
             f == Q[at].end
  <2>1. Says(m, f, M)
    BY DEF L!LongestMatch, Says
  <2>2. at \in 1..n /\ LongestAt(s, f, M)
    BY <1>2 DEF Cursor
  <2>3. f \in Nat /\ f <= Len(s)
    BY <1>3, <2>2
  <2> HIDE DEF m, f, M, s
  <2>4. L!Genuine(m, s)
    BY <1>3, <2>1, <2>2, <2>3, GenuineIs
  <2> QED BY <2>4 DEF m
<1>5. ASSUME NEW t \in Token PROVE L!Genuine(L!Peek(a, t), Append(s, t))
  <2> DEFINE y == L!Step(a, t).at
             P == L!Step(a, t).matched
             f == Q[y].end
             m == L!Peek(a, t)
             u == Append(s, t)
  <2>1. Stepped(Q, n, s, t, y, P)
    BY <1>2, StepIs
  <2>2. Says(m, f, P)
    BY DEF L!Peek, Says
  <2> HIDE DEF y, P, m
  <2>3. /\ y \in 1..n /\ P \in Nat /\ Q[y].end <= N /\ Alike(u, f, N + 1, P)
        /\ \A e \in 0..N : \A j \in Nat : Alike(u, e, N + 1, j) => j <= P
    BY <2>1 DEF Stepped
  <2>4. u \in Context /\ Len(u) = N + 1
    BY <1>3, AppendProperties DEF Context
  <2>5. f \in Nat /\ f < N + 1 /\ f <= N + 1 /\ (N + 1) - 1 = N
    <3> DEFINE x == Q[y].end
    <3>1. x \in Nat /\ x <= N
      BY <1>3, <2>3
    <3> HIDE DEF x, N
    <3>2. x < N + 1 /\ x <= N + 1 /\ (N + 1) - 1 = N
      BY <1>3, <3>1
    <3> QED BY <3>1, <3>2 DEF x
  <2> HIDE DEF f, u, N
  <2>6. LongestAt(u, f, P)
    BY <2>3, <2>4, <2>5 DEF LongestAt
  <2>7. f <= Len(u)
    BY <2>4, <2>5
  <2>8. L!Genuine(m, u)
    BY <2>2, <2>4, <2>5, <2>6, <2>7, GenuineIs
  <2> QED BY <2>8 DEF u, m
<1> QED BY <1>4, <1>5

Automata ==
  {a \in UNION {[states : [1..n -> Nodes(n)], last : 1..n, seq : Context, at : 1..n,
                  matched : Nat] : n \in Nat \ {0}} : IsAutomaton(a)}

LEMMA AutomataAre == \A a : a \in Automata <=> IsAutomaton(a)
BY DEF Automata, IsAutomaton, IsSam, SamTyped

LEMMA ExtendedFacts ==
  ASSUME NEW a \in Automata, NEW t \in Token
  PROVE  L!Extended(a, t) \in Automata /\ L!Extended(a, t).seq = Append(a.seq, t)
BY AutomataAre, ExtendedIs

(* An automaton that has been told s and is told ts now.                   *)
LEMMA ExtendedByFacts ==
  ASSUME NEW a \in Automata, a.seq \in Context, NEW ts \in Context
  PROVE  L!ExtendedBy(a, ts) \in Automata /\ L!ExtendedBy(a, ts).seq = a.seq \o ts
<1> DEFINE N == Len(ts)
           f == [n \in 1..N |-> [x \in Automata |-> L!Extended(x, ts[n])]]
           Is(u) == u = [n \in 0..N |-> IF n = 0 THEN a ELSE L!Extended(u[n - 1], ts[n])]
           after == CHOOSE u : Is(u)
<1>1. N \in Nat /\ \A n \in 1..N : ts[n] \in Token
  BY LenProperties, ElementOfSeq DEF Context
<1>2. L!ExtendedBy(a, ts) = after[N]
  BY DEF L!ExtendedBy, after, Is
<1>3. PICK u \in [0..N -> Automata] : u[0] = a /\ \A n \in 1..N : u[n] = f[n][u[n - 1]]
  <2>1. IsSteps(f, N, Automata)
    <3>1. \A n \in 1..N : \A x \in Automata : L!Extended(x, ts[n]) \in Automata
      BY <1>1, ExtendedFacts
    <3> HIDE DEF N
    <3>2. f \in [1..N -> [Automata -> Automata]]
      BY <3>1
    <3> QED BY <1>1, <3>2 DEF IsSteps
  <2> HIDE DEF f, N
  <2>2. Leads(a, f, N, Automata)
    BY <2>1, Iterated
  <2> QED BY <2>2 DEF Leads
<1> HIDE DEF N
<1>4. Is(u)
  <2>1. ASSUME NEW n \in 0..N PROVE u[n] = IF n = 0 THEN a ELSE L!Extended(u[n - 1], ts[n])
    <3>1. CASE n = 0
      BY <1>3, <3>1
    <3>2. CASE n # 0
      <4>1. n \in 1..N /\ n - 1 \in 0..N
        BY <1>1, <3>2
      <4>2. u[n - 1] \in Automata
        BY <4>1
      <4>3. u[n] = f[n][u[n - 1]]
        BY <1>3, <4>1
      <4>4. f[n][u[n - 1]] = L!Extended(u[n - 1], ts[n])
        BY <4>1, <4>2
      <4> QED BY <3>2, <4>3, <4>4
    <3> QED BY <3>1, <3>2
  <2> QED BY <2>1
<1> HIDE DEF f
<1>5. Is(after)
  <2> HIDE DEF Is
  <2> QED BY <1>4
<1> HIDE DEF after
<1>6. \A n \in 0..N : after[n] = IF n = 0 THEN a ELSE L!Extended(after[n - 1], ts[n])
  BY <1>5
<1> HIDE DEF Is
<1> DEFINE Good(n) == after[n] \in Automata /\ after[n].seq = a.seq \o SubSeq(ts, 1, n)
           Bad == {n \in 0..N : ~Good(n)}
<1>7. Good(0)
  <2>1. after[0] = a
    BY <1>1, <1>6
  <2>2. SubSeq(ts, 1, 0) = <<>> /\ a.seq \o <<>> = a.seq
    BY SubSeqEmpty, Nothing
  <2> QED BY <2>1, <2>2
<1>8. ASSUME NEW n \in 1..N, Good(n - 1) PROVE Good(n)
  <2> DEFINE k == n - 1
             x == after[k]
             t == ts[n]
             s == SubSeq(ts, 1, k)
  <2>1. k \in 0..N /\ n \in 0..N /\ n # 0 /\ k + 1 = n /\ t \in Token /\ k \in 0..Len(ts)
    BY <1>1 DEF N
  <2>2. x \in Automata /\ x.seq = a.seq \o s
    BY <1>8
  <2>3. after[n] = L!Extended(x, t)
    BY <1>6, <2>1
  <2> HIDE DEF k, x, t
  <2>4. after[n] \in Automata /\ after[n].seq = Append(x.seq, t)
    BY <2>1, <2>2, <2>3, ExtendedFacts
  <2>5. s \in Context /\ SubSeq(ts, 1, n) = s \o <<t>> /\ <<t>> \in Context
    <3>1. n \in 1..Len(ts) /\ 1 \in 1..n /\ 1 \in 1..(Len(ts) + 1)
      BY <1>1 DEF N
    <3>2. SubSeq(ts, 1, n) = SubSeq(ts, 1, n - 1) \o <<ts[n]>>
      BY <3>1, SubSeqRecursiveSecond DEF Context
    <3>3. SubSeq(ts, 1, n) = s \o <<t>>
      BY <3>2 DEF k, t
    <3>4. s \in Context
      BY <2>1, FirstPart DEF Context
    <3>5. <<t>> \in Context
      BY <2>1 DEF Context
    <3> QED BY <3>3, <3>4, <3>5
  <2> HIDE DEF s
  <2>6. Append(x.seq, t) = (a.seq \o s) \o <<t>>
    <3>1. a.seq \o s \in Context
      BY <2>5, Joined
    <3> QED BY <2>1, <2>2, <3>1, AppendIsConcat DEF Context
  <2>7. (a.seq \o s) \o <<t>> = a.seq \o (s \o <<t>>)
    BY <2>5, Regrouped
  <2> QED BY <2>4, <2>5, <2>6, <2>7
<1> HIDE DEF Good
<1>9. Bad \in SUBSET Int /\ IsFiniteSet(Bad)
  <2>1. IsFiniteSet(0..N) /\ Bad \subseteq 0..N /\ 0..N \subseteq Int
    BY <1>1, FS_Interval
  <2> HIDE DEF Bad
  <2> QED BY <2>1, FS_Subset
<1>10. Bad = {}
  <2> SUFFICES ASSUME Bad # {} PROVE FALSE
    OBVIOUS
  <2>1. PICK m \in Bad : \A k \in Bad : m <= k
    <3> HIDE DEF Bad
    <3> QED BY <1>9, LeastExists
  <2>2. m \in 0..N /\ ~Good(m)
    BY <2>1
  <2>3. m # 0
    BY <1>7, <2>2
  <2>4. m \in 1..N /\ m - 1 \in 0..N /\ ~(m <= m - 1)
    BY <1>1, <2>2, <2>3
  <2>5. Good(m - 1)
    BY <2>1, <2>4
  <2> QED BY <1>8, <2>2, <2>4, <2>5
<1>11. Good(N)
  BY <1>1, <1>10
<1>12. SubSeq(ts, 1, N) = ts
  BY SubSeqFull DEF Context, N
<1> QED BY <1>2, <1>11, <1>12 DEF Good

(* A draft is some of the history, no longer than asked for.               *)
LEMMA DraftFacts ==
  ASSUME NEW a \in Automata, NEW max \in Int, NEW min
  PROVE  /\ L!Draft(a, max, min) \in Context /\ Len(L!Draft(a, max, min)) \in Nat
         /\ Len(L!Draft(a, max, min)) = 0 \/ Len(L!Draft(a, max, min)) <= max
<1> DEFINE e == L!LongestMatch(a).end
           l == Len(a.seq)
           to == IF e + max < l THEN e + max ELSE l
           s == SubSeq(a.seq, e + 1, to)
<1>1. PICK n \in Nat \ {0} : SamTyped(a, n)
  BY AutomataAre DEF IsAutomaton, IsSam
<1>2. a.seq \in Context /\ l \in Nat /\ \A i \in 1..l : a.seq[i] \in Token
  BY <1>1, LenProperties, ElementOfSeq DEF SamTyped, Context
<1>3. e \in Nat
  <2>1. a.states[a.at] \in Nodes(n)
    BY <1>1 DEF SamTyped
  <2>2. a.states[a.at].end \in Nat
    BY <2>1 DEF Nodes
  <2> QED BY <2>2 DEF L!LongestMatch
<1>4. L!Draft(a, max, min) = <<>> \/ (max > 0 /\ L!Draft(a, max, min) = s)
  <2> DEFINE none == max <= 0 \/ L!LongestMatch(a).len < min \/ e = 0
  <2>1. L!Draft(a, max, min) = IF none THEN <<>> ELSE s
    BY DEF L!Draft
  <2>2. ~none => max > 0
    OBVIOUS
  <2> HIDE DEF none, s
  <2> QED BY <2>1, <2>2
<1> HIDE DEF e, l
<1>5. CASE L!Draft(a, max, min) = <<>>
  BY <1>5, Nothing
<1>6. CASE max > 0 /\ L!Draft(a, max, min) = s
  <2>1. to \in Int /\ e + 1 \in Int /\ to <= l /\ to <= e + max /\ max \in Nat
    BY <1>2, <1>3, <1>6
  <2> HIDE DEF to
  <2>2. \A i \in (e + 1)..to : a.seq[i] \in Token
    BY <1>2, <1>3, <2>1
  <2>3. s \in Seq(Token) /\ Len(s) = IF e + 1 <= to THEN to - (e + 1) + 1 ELSE 0
    BY <2>1, <2>2, SubSeqProperties
  <2>4. Len(s) \in Nat /\ Len(s) <= max
    <3> DEFINE k == Len(s)
    <3>1. k = IF e + 1 <= to THEN to - (e + 1) + 1 ELSE 0
      BY <2>3
    <3> HIDE DEF k
    <3>2. k \in Nat /\ k <= max
      BY <1>3, <2>1, <3>1
    <3> QED BY <3>2 DEF k
  <2> QED BY <1>6, <2>3, <2>4 DEF Context
<1> QED BY <1>4, <1>5, <1>6

(***************************************************************************)
(* The lookup-only runner                                                  *)
(***************************************************************************)
LEMMA LookupOps ==
  /\ \A c, w, m : L!Fed(c, w, m) = W!Fed(c, w, m)
  /\ \A c, s, m : L!StandFor(c, s, m) = W!StandFor(c, s, m)
  /\ \A c, w, m : L!HiddenOver(c, w, m) = W!HiddenOver(c, w, m)
  /\ \A c, m : L!CanTrim(c, m) = W!CanTrim(c, m)
  /\ \A c, n, m : L!Trimmed(c, n, m) = W!Trimmed(c, n, m)
  /\ \A s, n : L!First(s, n) = SubSeq(s, 1, n)
  /\ \A x, n, m : L!Rewound(x, n, m) = W!Rewound(x, n, m)
  /\ \A x, p : L!Extends(x, p) = W!Extends(x, p)
  /\ \A h : L!Draw(h) = Drawn(h)
  /\ \A s : L!Last(s) = s[Len(s)]
  /\ L!NoCache = W!NoCache
  /\ L!Invalid = W!Invalid
  /\ \A c, s : L!Published(c, s) = W!Published(c, s)
  /\ \A ts : L!Emitted(ts) = Emission(ts, budget - Len(out))
  /\ \A x, p : L!SessionTaken(x, p) = W!SessionTaken(x, p)
  /\ \A x, p : L!CacheTaken(x, p) = W!CacheTaken(x, p)
  /\ \A x, b, c : L!AfterFailure(x, b, c) = W!AfterFailure(x, b, c)
  /\ \A m, n : L!AtMost(m, n) = W!AtMost(m, n)
<1>1. \A s, n : L!First(s, n) = W!First(s, n) /\ L!First(s, n) = SubSeq(s, 1, n)
  BY DEF L!First, W!First
<1>2. \A m, n : L!AtMost(m, n) = W!AtMost(m, n)
  BY DEF L!AtMost, W!AtMost
<1>3. \A s, n : L!Drop(s, n) = W!Drop(s, n)
  BY <1>1 DEF L!Drop, W!Drop
<1>4. \A s, n : L!Final(s, n) = W!Final(s, n)
  BY <1>2 DEF L!Final, W!Final
<1>5. \A c, w, m : L!Fed(c, w, m) = W!Fed(c, w, m)
  BY <1>4 DEF L!Fed, W!Fed
<1>6. \A s, t : L!IsSuffix(s, t) = W!IsSuffix(s, t) /\ L!IsPrefix(s, t) = W!IsPrefix(s, t)
  BY DEF L!IsSuffix, W!IsSuffix, L!IsPrefix, W!IsPrefix, L!Reverse, W!Reverse
<1>7. \A c, s, m : L!StandFor(c, s, m) = W!StandFor(c, s, m)
  BY <1>2, <1>6 DEF L!StandFor, W!StandFor
<1>8. \A c, w, m : L!HiddenOver(c, w, m) = W!HiddenOver(c, w, m)
  BY <1>3, <1>5, <1>7 DEF L!HiddenOver, W!HiddenOver, L!Unknown, W!Unknown
<1>9. \A c, m : L!CanTrim(c, m) = W!CanTrim(c, m)
  BY DEF L!CanTrim, W!CanTrim
<1>10. \A c, n, m : L!Trimmed(c, n, m) = W!Trimmed(c, n, m)
  BY <1>3, <1>9 DEF L!Trimmed, W!Trimmed
<1>11. \A c, s : L!Published(c, s) = W!Published(c, s)
  BY DEF L!Published, W!Published
<1>12. \A x, n, m : L!Rewound(x, n, m) = W!Rewound(x, n, m)
  BY <1>3, <1>10, <1>11 DEF L!Rewound, W!Rewound
<1>13. L!NoCache = W!NoCache /\ L!Invalid = W!Invalid
  BY DEF L!NoCache, W!NoCache, L!Invalid, W!Invalid
<1>14. \A x, p : L!Extends(x, p) = W!Extends(x, p)
  BY <1>6 DEF L!Extends, W!Extends
<1>15. \A h : L!Draw(h) = Drawn(h)
  BY DEF L!Draw, Drawn, L!Unknown
<1>16. \A s : L!Last(s) = s[Len(s)]
  BY DEF L!Last
<1>17. \A ts : L!Emitted(ts) = Emission(ts, budget - Len(out))
  BY DEF L!Emitted, Emission, L!First, W!First, L!AtMost, W!AtMost
<1>18. \A x, p : L!SessionTaken(x, p) = W!SessionTaken(x, p)
  BY <1>13, <1>14 DEF L!SessionTaken, W!SessionTaken
<1>19. \A x, p : L!CacheTaken(x, p) = W!CacheTaken(x, p)
  BY <1>13, <1>14 DEF L!CacheTaken, W!CacheTaken
<1>20. \A x, b, c : L!AfterFailure(x, b, c) = W!AfterFailure(x, b, c)
  BY DEF L!AfterFailure, W!AfterFailure
<1> QED BY <1>1, <1>2, <1>3, <1>4, <1>5, <1>7, <1>8, <1>9, <1>10, <1>11, <1>12, <1>13, <1>14, <1>15, <1>16,
           <1>17, <1>18, <1>19, <1>20

LookupCalls == [c : Caches, shared : BOOLEAN, done : Nat, next : Context, sam : Automata]

LookupMore == Len(out) < budget /\ GoesOn(out)

LookupPrefilling ==
  st = "prefill" =>
    /\ prompt # <<>> /\ out = <<>>
    /\ Len(gen.c.kv) < Len(prompt)
    /\ Stands(gen.c, SubSeq(prompt, 1, Len(gen.c.kv)), knobs)

LookupDecoding ==
  st = "decode" =>
    /\ prompt # <<>> /\ Len(out) <= budget
    /\ gen.done \in 0..Len(prompt \o out)
    /\ Stands(gen.c, SubSeq(prompt \o out, 1, gen.done), knobs)
    /\ LookupMore => /\ gen.done = Len(prompt \o out) - 1
                     /\ gen.next = <<(prompt \o out)[Len(prompt \o out)]>>

LookupInv ==
  /\ WindowType
  /\ gen \in LookupCalls
  /\ gen.shared => ~sess.has
  /\ st # "idle" => gen.sam.seq = prompt \o out
  /\ LookupPrefilling
  /\ LookupDecoding

LEMMA FreshLookup ==
  /\ L!Fresh \in LookupCalls /\ L!Fresh.shared = FALSE /\ L!Fresh.sam = L!Empty
  /\ L!Empty \in Automata /\ L!Empty.seq = <<>>
<1>1. W!NoCache \in Caches /\ <<>> \in Context
  BY EmptyStands, Nothing
<1>2. L!Empty \in Automata
  BY EmptyIs, AutomataAre
<1>3. L!Empty.seq = <<>>
  BY DEF L!Empty
<1> QED BY <1>1, <1>2, <1>3, LookupOps DEF L!Fresh, LookupCalls

LEMMA LookupInit ==
  ASSUME L!Init, knobs \in Nat \ {0, 1}
  PROVE  LookupInv
<1>1. sess = W!Invalid /\ st = "idle" /\ prompt = <<>> /\ budget = 0 /\ out = <<>> /\ gen = L!Fresh
  BY LookupOps DEF L!Init
<1>2. <<>> \in Context
  BY Nothing
<1> QED BY <1>1, <1>2, FreshGemma, FreshLookup DEF LookupInv, WindowType, LookupPrefilling, LookupDecoding

LEMMA LookupRewind ==
  ASSUME LookupInv, L!Rewind, UNCHANGED knobs
  PROVE  LookupInv' /\ UNCHANGED <<prompt, budget, out>>
<1>1. PICK n \in 1..Len(sess.processed) :
        /\ st = "idle" /\ sess.has /\ W!CanTrim(sess.c, knobs) /\ sess' = W!Rewound(sess, n, knobs)
        /\ UNCHANGED <<st, prompt, budget, out, gen>>
  BY LookupOps DEF L!Rewind
<1>2. sess' \in WindowSessions /\ sess'.has = TRUE /\ Stands(sess'.c, sess'.processed, knobs)
  BY <1>1, RewoundSession DEF LookupInv
<1>3. ~gen.shared
  BY <1>1 DEF LookupInv, LookupCalls
<1> QED BY <1>1, <1>2, <1>3 DEF LookupInv, WindowType, LookupPrefilling, LookupDecoding

LEMMA LookupBegin ==
  ASSUME LookupInv, L!Begin, UNCHANGED knobs
  PROVE  LookupInv' /\ Plain!Ask
<1> DEFINE c == W!CacheTaken(sess, prompt')
           a == L!ExtendedBy(L!Empty, prompt')
<1>1. /\ prompt' \in LookupPrompts /\ budget' \in Budgets /\ out' = <<>> /\ st' = "prefill"
      /\ sess' = W!SessionTaken(sess, prompt')
      /\ gen' = [L!Fresh EXCEPT !.c = c, !.shared = W!Extends(sess, prompt'), !.sam = a]
  BY LookupOps DEF L!Begin
<1>2. prompt' \in Context /\ prompt' # <<>> /\ budget' \in Nat
  BY <1>1, LookupAssumption DEF L!PromptsAssumption, Context
<1>3. /\ sess' \in WindowSessions /\ W!Extends(sess, prompt') \in BOOLEAN
      /\ sess'.has => Stands(sess'.c, sess'.processed, knobs)
      /\ W!Extends(sess, prompt') => sess'.has = FALSE
      /\ c \in Caches /\ Len(c.kv) \in Nat /\ Len(c.kv) < Len(prompt')
      /\ Stands(c, SubSeq(prompt', 1, Len(c.kv)), knobs)
  BY <1>1, <1>2, SessionTakenFacts DEF LookupInv
<1>4. WindowType'
  BY <1>1, <1>2, <1>3, Nothing DEF WindowType, LookupInv
<1>5. a \in Automata /\ a.seq = prompt' \o out'
  <2>1. a \in Automata /\ a.seq = L!Empty.seq \o prompt'
    BY <1>2, FreshLookup, Nothing, ExtendedByFacts
  <2>2. <<>> \o prompt' = prompt' /\ prompt' \o <<>> = prompt'
    BY <1>2, Nothing
  <2> QED BY <1>1, <2>1, <2>2, FreshLookup
<1> HIDE DEF c, a
<1>6. gen' \in LookupCalls /\ gen'.c = c /\ gen'.shared = W!Extends(sess, prompt') /\ gen'.sam = a
  BY <1>1, <1>3, <1>5, FreshLookup DEF LookupCalls
<1>7. LookupPrefilling' /\ LookupDecoding'
  BY <1>1, <1>2, <1>3, <1>4, <1>6 DEF LookupPrefilling, LookupDecoding, LookupInv, WindowType
<1> QED BY <1>1, <1>2, <1>3, <1>4, <1>5, <1>6, <1>7, PlainAsk DEF LookupInv

LEMMA LookupPrefillChunk ==
  ASSUME LookupInv, L!PrefillChunk, UNCHANGED knobs
  PROVE  LookupInv' /\ UNCHANGED <<prompt, budget, out>>
<1> DEFINE k == Len(gen.c.kv)
           n == W!AtMost(PrefillStep, L!Left - 1)
           c == W!Fed(gen.c, SubSeq(prompt, k + 1, k + n), knobs)
<1>1. /\ st = "prefill" /\ L!Left > 1 /\ gen' = [gen EXCEPT !.c = c]
      /\ UNCHANGED <<sess, st, prompt, budget, out>>
  BY LookupOps DEF L!PrefillChunk
<1>2. /\ WindowType /\ gen \in LookupCalls /\ (gen.shared => ~sess.has)
      /\ prompt # <<>> /\ out = <<>> /\ k < Len(prompt) /\ gen.sam.seq = prompt \o out
      /\ Stands(gen.c, SubSeq(prompt, 1, k), knobs)
  BY <1>1 DEF LookupInv, LookupPrefilling
<1>3. PrefillStep \in Nat \ {0} /\ knobs \in Nat \ {0, 1} /\ prompt \in Context
  BY <1>2, LookupAssumption DEF L!SizesAssumption, WindowType
<1>4. k \in 0..Len(prompt) /\ n \in 1..(Len(prompt) - k) /\ k + n < Len(prompt)
  <2> DEFINE l == Len(prompt)
  <2>1. k \in Nat /\ l \in Nat
    <3>1. gen.c.kv \in Context
      BY <1>2, StandsType
    <3> QED BY <1>3, <3>1, Nothing
  <2>2. L!Left = l - k
    BY DEF L!Left
  <2>3. n = W!AtMost(PrefillStep, (l - k) - 1) /\ l - k > 1
    BY <1>1, <2>2
  <2> HIDE DEF k, l, n
  <2>4. n \in 1..((l - k) - 1)
    BY <1>3, <2>1, <2>3 DEF W!AtMost
  <2>5. k \in 0..l /\ n \in 1..(l - k) /\ k + n < l
    BY <2>1, <2>3, <2>4
  <2> QED BY <2>5 DEF l
<1> HIDE DEF n, k
<1>5. Stands(c, SubSeq(prompt, 1, k + n), knobs)
  BY <1>2, <1>3, <1>4, ChunkStands
<1>6. c \in Caches /\ c.kv = SubSeq(prompt, 1, k + n) /\ Len(c.kv) = k + n
  <2>1. k + n \in 0..Len(prompt)
    BY <1>3, <1>4, NextPart
  <2>2. Len(SubSeq(prompt, 1, k + n)) = k + n
    BY <1>3, <2>1, FirstPart DEF Context
  <2> QED BY <1>5, <2>2, StandsType
<1> HIDE DEF c
<1>7. gen' \in LookupCalls /\ gen'.c = c /\ gen'.shared = gen.shared /\ gen'.sam = gen.sam
  BY <1>1, <1>2, <1>6 DEF LookupCalls
<1>8. WindowType'
  BY <1>1, <1>2 DEF WindowType
<1>9. LookupPrefilling' /\ LookupDecoding'
  BY <1>1, <1>2, <1>4, <1>5, <1>6, <1>7 DEF LookupPrefilling, LookupDecoding
<1> QED BY <1>1, <1>2, <1>7, <1>8, <1>9 DEF LookupInv

LEMMA LookupPrefillDone ==
  ASSUME LookupInv, L!PrefillDone, UNCHANGED knobs
  PROVE  LookupInv' /\ UNCHANGED <<prompt, budget, out>>
<1> DEFINE k == Len(gen.c.kv)
           z == prompt[Len(prompt)]
<1>1. /\ st = "prefill" /\ L!Left = 1 /\ st' = "decode"
      /\ gen' = [gen EXCEPT !.next = <<z>>, !.done = Len(prompt) - 1]
      /\ UNCHANGED <<sess, prompt, budget, out>>
  BY LookupOps DEF L!PrefillDone
<1>2. /\ WindowType /\ gen \in LookupCalls /\ (gen.shared => ~sess.has)
      /\ prompt # <<>> /\ out = <<>> /\ k < Len(prompt) /\ gen.sam.seq = prompt \o out
      /\ Stands(gen.c, SubSeq(prompt, 1, k), knobs)
  BY <1>1 DEF LookupInv, LookupPrefilling
<1>3. prompt \in Context /\ budget \in Nat
  BY <1>2 DEF WindowType
<1>4. k = Len(prompt) - 1 /\ k \in Nat /\ k \in 0..Len(prompt)
  <2> DEFINE l == Len(prompt)
  <2>1. k \in Nat /\ l \in Nat
    <3>1. gen.c.kv \in Context
      BY <1>2, StandsType
    <3> QED BY <1>3, <3>1, Nothing
  <2>2. l - k = 1
    BY <1>1 DEF L!Left
  <2> HIDE DEF k, l
  <2>3. k = l - 1 /\ k \in Nat /\ k \in 0..l
    BY <2>1, <2>2
  <2> QED BY <2>3 DEF l
<1>5. <<z>> \in Context /\ prompt \o out = prompt /\ Len(out) <= budget
  <2>1. <<z>> \in Context
    BY <1>2, <1>3, LastApart
  <2>2. prompt \o out = prompt /\ Len(out) = 0
    BY <1>2, <1>3, Nothing
  <2> QED BY <1>3, <2>1, <2>2
<1> HIDE DEF k
<1>6. gen' \in LookupCalls /\ gen'.c = gen.c /\ gen'.shared = gen.shared /\ gen'.sam = gen.sam
      /\ gen'.next = <<z>> /\ gen'.done = k
  <2> DEFINE y == <<z>>
  <2>1. y \in Context /\ gen' = [gen EXCEPT !.next = y, !.done = k]
    BY <1>1, <1>4, <1>5
  <2> HIDE DEF y
  <2>2. gen' \in LookupCalls /\ gen'.c = gen.c /\ gen'.shared = gen.shared /\ gen'.sam = gen.sam
        /\ gen'.next = y /\ gen'.done = k
    BY <1>2, <1>4, <2>1 DEF LookupCalls
  <2> QED BY <2>2 DEF y
<1>7. WindowType'
  BY <1>1, <1>2 DEF WindowType
<1>8. LookupPrefilling' /\ LookupDecoding'
  BY <1>1, <1>2, <1>4, <1>5, <1>6 DEF LookupPrefilling, LookupDecoding
<1> QED BY <1>1, <1>2, <1>6, <1>7, <1>8 DEF LookupInv

LEMMA LookupPublish ==
  ASSUME LookupInv, L!Publish, UNCHANGED knobs
  PROVE  LookupInv' /\ UNCHANGED <<prompt, budget, out>>
<1> DEFINE s == SubSeq(prompt \o out, 1, gen.done)
<1>1. /\ st = "decode" /\ sess' = W!Published(gen.c, s) /\ st' = "idle"
      /\ gen' = L!Fresh /\ UNCHANGED <<prompt, budget, out>>
  BY LookupOps DEF L!Publish
<1>2. /\ WindowType /\ Stands(gen.c, s, knobs)
  BY <1>1 DEF LookupInv, LookupDecoding
<1> HIDE DEF s
<1>3. sess' = [has |-> TRUE, processed |-> s, c |-> gen.c]
  BY <1>1 DEF W!Published
<1>4. sess' \in WindowSessions /\ Stands(sess'.c, sess'.processed, knobs)
  BY <1>2, <1>3, StandsType DEF WindowSessions
<1> QED BY <1>1, <1>2, <1>4, FreshLookup DEF LookupInv, WindowType, LookupPrefilling, LookupDecoding

LEMMA LookupFail ==
  ASSUME LookupInv, L!Fail, UNCHANGED knobs
  PROVE  LookupInv' /\ UNCHANGED <<prompt, budget, out>>
<1>1. /\ sess' = W!AfterFailure(sess, gen.shared, gen.c) /\ st' = "idle"
      /\ gen' = L!Fresh /\ UNCHANGED <<prompt, budget, out>>
  BY LookupOps DEF L!Fail
<1>2. sess' = sess
  BY <1>1 DEF LookupInv, W!AfterFailure
<1> QED BY <1>1, <1>2, FreshLookup DEF LookupInv, WindowType, LookupPrefilling, LookupDecoding

(* What stays in the caches of a block: what was agreed with and emitted.  *)
LEMMA KeptOfBlock ==
  ASSUME NEW c \in Context, NEW d \in Context, NEW a \in 0..Len(d), NEW y \in Token,
         NEW k \in 1..(a + 1), NEW j, j = IF k < a THEN k ELSE a
  PROVE  LET e == SubSeq(SubSeq(d, 1, a) \o <<y>>, 1, k)
         IN  /\ Len(c) + j \in 0..Len(c \o e)
             /\ SubSeq(c \o e, 1, Len(c) + j) = c \o SubSeq(d, 1, j)
<1> DEFINE f == SubSeq(d, 1, a)
           v == <<y>>
           ts == f \o v
           e == SubSeq(ts, 1, k)
<1>1. Len(d) \in Nat /\ a \in Nat /\ k \in Nat /\ j \in 0..a /\ j \in 0..k
  BY Nothing
<1>2. f \in Context /\ Len(f) = a /\ v \in Context /\ Len(v) = 1
  BY <1>1, FirstPart DEF Context
<1> HIDE DEF v
<1>3. ts \in Context /\ Len(ts) = a + 1
  <2>1. ts \in Context /\ Len(ts) = Len(f) + Len(v)
    <3> HIDE DEF f
    <3> QED BY <1>2, Joined
  <2> QED BY <1>2, <2>1
<1>4. k \in 0..Len(ts) /\ j \in 0..Len(f)
  BY <1>1, <1>2, <1>3
<1>5. SubSeq(f, 1, j) = SubSeq(d, 1, j)
  BY <1>1, FirstOfFirst DEF Context
<1> HIDE DEF f
<1>6. SubSeq(ts, 1, j) = SubSeq(f, 1, j)
  BY <1>2, <1>4, FirstOfConcat DEF Context
<1> HIDE DEF ts
<1>7. e \in Context /\ Len(e) = k
  BY <1>3, <1>4, FirstPart DEF Context
<1>8. SubSeq(e, 1, j) = SubSeq(ts, 1, j)
  BY <1>1, <1>3, <1>4, FirstOfFirst DEF Context
<1> HIDE DEF e
<1>9. SubSeq(c \o e, 1, Len(c) + j) = c \o SubSeq(e, 1, j)
  BY <1>1, <1>7, FirstOfBoth DEF Context
<1>10. Len(c \o e) = Len(c) + k /\ Len(c) \in Nat
  BY <1>7, Joined
<1>11. Len(c) + j \in 0..Len(c \o e)
  BY <1>1, <1>10
<1> QED BY <1>5, <1>6, <1>8, <1>9, <1>11 DEF e, ts, f, v

(* A forward of the token to feed and of a draft, trimmed of what was not  *)
(* agreed with and again of what was not emitted.                          *)
LEMMA TwiceTrimmed ==
  ASSUME NEW m \in Nat \ {0, 1}, NEW c, NEW s, Stands(c, s, m), NEW z \in Token, NEW d \in Context,
         NEW a \in 0..Len(d), NEW j \in 0..a,
         d = <<>> \/ Len(s) + 1 + Len(d) < m
  PROVE  Stands(W!Trimmed(W!Trimmed(W!Fed(c, <<z>> \o d, m), Len(d) - a, m), a - j, m),
                (s \o <<z>>) \o SubSeq(d, 1, j), m)
<1> DEFINE fed == <<z>> \o d
           after == W!Fed(c, fed, m)
           n == Len(d) - a
           agreed == W!Trimmed(after, n, m)
           p == s \o <<z>>
           g == SubSeq(d, 1, a)
<1>1. SaysAfter(c, s, z, d, m)
  BY DraftHidden
<1>2. /\ fed \in Context /\ fed # <<>> /\ Len(fed) = Len(d) + 1 /\ Len(d) \in Nat
      /\ p \in Context
      /\ \A i \in 1..(Len(d) + 1) : s \o SubSeq(fed, 1, i) = p \o SubSeq(d, 1, i - 1)
  BY <1>1 DEF SaysAfter
<1>3. s \in Context /\ Len(s) \in Nat
  BY StandsType, Nothing
<1>4. Len(p) = Len(s) + 1
  <2>1. <<z>> \in Context /\ Len(<<z>>) = 1
    BY DEF Context
  <2> QED BY <1>3, <2>1, Joined
<1> HIDE DEF fed, p
<1>5. Stands(after, s \o fed, m) /\ Len(s \o fed) = Len(s) + Len(fed)
  BY <1>2, <1>3, FedStands, Joined
<1> HIDE DEF after
<1>6. n \in 0..Len(fed) /\ n \in 0..Len(s \o fed) /\ Len(fed) - n = a + 1 /\ a + 1 \in 1..(Len(d) + 1)
      /\ (a + 1) - 1 = a /\ (n # 0 => Len(d) # 0) /\ (a - j # 0 => Len(d) # 0)
  <2> DEFINE l == Len(d)
             x == Len(fed)
             w == Len(s)
             q == Len(s \o fed)
  <2>1. x = l + 1 /\ l \in Nat /\ a \in 0..l /\ j \in 0..a /\ n = l - a /\ q = w + x /\ w \in Nat
    BY <1>2, <1>3, <1>5
  <2> HIDE DEF l, x, n, w, q
  <2>2. n \in 0..x /\ n \in 0..q /\ x - n = a + 1 /\ a + 1 \in 1..(l + 1) /\ (a + 1) - 1 = a
        /\ (n # 0 => l # 0) /\ (a - j # 0 => l # 0)
    BY <2>1
  <2> QED BY <2>2 DEF l, x, q
<1>7. Len(d) # 0 => Len(s \o fed) < m /\ Len(s) + 1 + Len(d) < m
  <2> SUFFICES ASSUME Len(d) # 0 PROVE Len(s \o fed) < m /\ Len(s) + 1 + Len(d) < m
    OBVIOUS
  <2>1. d # <<>>
    BY Nothing
  <2>2. Len(s) + 1 + Len(d) < m
    BY <2>1
  <2> QED BY <1>2, <1>3, <1>5, <2>2
<1>8. Stands(agreed, W!Drop(s \o fed, n), m)
  <2>1. n = 0 \/ W!CanTrim(after, m)
    <3>1. after.kv = s \o fed
      BY <1>5, StandsType
    <3> QED BY <1>6, <1>7, <3>1 DEF W!CanTrim
  <2> HIDE DEF n
  <2> QED BY <1>5, <1>6, <2>1, TrimmedStands
<1>9. W!Drop(s \o fed, n) = p \o g
  <2>1. SubSeq(s \o fed, 1, Len(s \o fed) - n) = s \o SubSeq(fed, 1, Len(fed) - n)
    <3> HIDE DEF n
    <3> QED BY <1>2, <1>3, <1>6, DropOfBoth
  <2> QED BY <1>2, <1>6, <2>1 DEF W!Drop, W!First
<1>10. g \in Context /\ Len(g) = a /\ Len(p \o g) = Len(p) + a /\ p \o g \in Context
  <2>1. g \in Context /\ Len(g) = a
    BY FirstPart DEF Context
  <2> QED BY <1>2, <2>1, Joined, ZenonT(40)
<1> HIDE DEF agreed, n
<1> DEFINE r == a - j
<1>11. r \in 0..Len(g) /\ r \in 0..Len(p \o g) /\ Len(g) - r = j
  BY <1>3, <1>4, <1>10
<1>12. Stands(W!Trimmed(agreed, r, m), W!Drop(p \o g, r), m)
  <2>1. r = 0 \/ W!CanTrim(agreed, m)
    <3>1. agreed.kv = p \o g
      BY <1>8, <1>9, StandsType
    <3>2. r # 0 => Len(p \o g) < m
      BY <1>2, <1>3, <1>4, <1>6, <1>7, <1>10
    <3> QED BY <3>1, <3>2 DEF W!CanTrim
  <2> HIDE DEF r, g
  <2> QED BY <1>8, <1>9, <1>11, <2>1, TrimmedStands
<1>13. W!Drop(p \o g, r) = p \o SubSeq(d, 1, j)
  <2>1. SubSeq(p \o g, 1, Len(p \o g) - r) = p \o SubSeq(g, 1, Len(g) - r)
    <3> HIDE DEF r, g
    <3> QED BY <1>2, <1>10, <1>11, DropOfBoth
  <2>2. SubSeq(g, 1, j) = SubSeq(d, 1, j)
    BY FirstOfFirst DEF Context
  <2> QED BY <1>11, <2>1, <2>2 DEF W!Drop, W!First
<1> QED BY <1>12, <1>13 DEF agreed, after, n, p, fed

LEMMA LookupRound ==
  ASSUME Speaks, LookupInv, L!Round, UNCHANGED knobs
  PROVE  LookupInv' /\ Plain!Emit
<1> DEFINE d == L!Proposal
           c == prompt \o out
           fed == gen.next \o d
           h == W!HiddenOver(gen.c, fed, knobs)
<1>1. PICK ans \in L!Answers(d, h) :
        LET tokens == Emission(SubSeq(d, 1, ans.accepted) \o <<ans.bonus>>, budget - Len(out))
            surplus == L!Surplus(ans.accepted, Len(tokens))
            agreed == W!Trimmed(W!Fed(gen.c, fed, knobs), Len(d) - ans.accepted, knobs)
        IN  /\ out' = out \o tokens
            /\ gen' = [gen EXCEPT !.c = W!Trimmed(agreed, surplus, knobs),
                                  !.done = @ + 1 + ans.accepted - surplus,
                                  !.next = <<ans.bonus>>,
                                  !.sam = L!ExtendedBy(@, tokens)]
  BY LookupOps DEF L!Round
<1>2. st = "decode" /\ LookupMore /\ UNCHANGED <<sess, st, prompt, budget>>
  BY LookupOps DEF L!Round, L!More, LookupMore, GoesOn
<1>3. /\ WindowType /\ gen \in LookupCalls /\ (gen.shared => ~sess.has)
      /\ prompt # <<>> /\ gen.sam.seq = c
      /\ gen.done = Len(c) - 1 /\ gen.next = <<c[Len(c)]>>
      /\ Stands(gen.c, SubSeq(c, 1, Len(c) - 1), knobs)
  BY <1>2 DEF LookupInv, LookupDecoding
<1>4. /\ knobs \in Nat \ {0, 1} /\ prompt \in Context /\ out \in Context /\ budget \in Nat
      /\ gen.sam \in Automata
  BY <1>3 DEF WindowType, LookupCalls
<1>5. c \in Context /\ c # <<>> /\ Len(out) < budget /\ GoesOn(out) /\ Len(out) \in Nat
  <2>1. c \in Context /\ Len(c) = Len(prompt) + Len(out) /\ Len(prompt) \in Nat /\ Len(out) \in Nat
    BY <1>4, Joined
  <2>2. Len(prompt) # 0
    BY <1>3, <1>4, Nothing
  <2>3. Len(c) # 0
    BY <2>1, <2>2
  <2> QED BY <1>2, <2>1, <2>3, Nothing DEF LookupMore
<1> DEFINE z == c[Len(c)]
           s == SubSeq(c, 1, Len(c) - 1)
<1>6. z \in Token /\ s \in Context /\ s \o <<z>> = c /\ Len(s) = Len(c) - 1 /\ Len(c) \in Nat \ {0}
  <2> HIDE DEF c
  <2> QED BY <1>5, LastApart
<1>7. d \in Context /\ (d = <<>> \/ Len(s) + 1 + Len(d) < knobs)
  <2> DEFINE cap == L!SafeDraftCap(gen.c, L!AtMost(MaxDraft, budget - Len(out) - 1))
  <2>1. d = L!Draft(gen.sam, cap, MinMatch)
    BY DEF L!Proposal
  <2>2. cap = W!AtMost(W!AtMost(MaxDraft, budget - Len(out) - 1), knobs - Len(s) - 2)
    <3>1. Len(gen.c.kv) = Len(s)
      BY <1>3, StandsType
    <3> QED BY <3>1, LookupOps DEF L!SafeDraftCap
  <2> HIDE DEF cap, d, s
  <2>3. cap \in Int /\ cap <= knobs - Len(s) - 2
    <3> DEFINE l == Len(out)
               x == Len(s)
    <3>1. l \in Nat /\ l < budget /\ MaxDraft \in Nat /\ x \in Nat /\ knobs \in Nat /\ budget \in Nat
      BY <1>4, <1>5, <1>6, Nothing, LookupAssumption DEF L!SizesAssumption
    <3>2. cap = W!AtMost(W!AtMost(MaxDraft, budget - l - 1), knobs - x - 2)
      BY <2>2
    <3> HIDE DEF l, x
    <3>3. cap \in Int /\ cap <= knobs - x - 2
      BY <3>1, <3>2 DEF W!AtMost
    <3> QED BY <3>3 DEF x
  <2>4. d \in Context /\ Len(d) \in Nat /\ (Len(d) = 0 \/ Len(d) <= cap)
    BY <1>4, <2>1, <2>3, DraftFacts
  <2>5. Len(d) # 0 => Len(s) + 1 + Len(d) < knobs
    <3> DEFINE l == Len(d)
               x == Len(s)
    <3>1. l \in Nat /\ x \in Nat /\ knobs \in Nat /\ (l # 0 => l <= cap) /\ cap <= knobs - x - 2 /\ cap \in Int
      BY <1>4, <1>6, <2>3, <2>4, Nothing
    <3> HIDE DEF l, x
    <3>2. l # 0 => x + 1 + l < knobs
      BY <3>1
    <3> QED BY <3>2 DEF l, x
  <2> QED BY <2>4, <2>5, Nothing
<1> DEFINE a == ans.accepted
           y == ans.bonus
           f == SubSeq(d, 1, a)
           ts == f \o <<y>>
           e == Emission(ts, budget - Len(out))
           k == Len(e)
           j == IF k < a THEN k ELSE a
           cache == W!Trimmed(W!Trimmed(W!Fed(gen.c, <<z>> \o d, knobs), Len(d) - a, knobs), a - j, knobs)
<1>8. a \in 0..Len(d) /\ (\A i \in 1..a : d[i] \in Drawn(h[i])) /\ y \in Drawn(h[a + 1])
  <2>1. \E a0 \in {b \in 0..Len(d) : \A i \in 1..b : d[i] \in L!Draw(h[i])} :
          \E y0 \in L!Draw(h[a0 + 1]) \ (IF a0 < Len(d) THEN {d[a0 + 1]} ELSE {}) :
            ans = [accepted |-> a0, bonus |-> y0]
    <3> HIDE DEF h, d
    <3> QED BY DEF L!Answers
  <2> HIDE DEF d, h
  <2>2. PICK a0 \in 0..Len(d) :
          /\ \A i \in 1..a0 : d[i] \in L!Draw(h[i])
          /\ \E y0 \in L!Draw(h[a0 + 1]) : ans = [accepted |-> a0, bonus |-> y0]
    BY <2>1
  <2>3. a = a0 /\ y \in L!Draw(h[a0 + 1])
    BY <2>2
  <2> HIDE DEF a, y
  <2> QED BY <2>2, <2>3, LookupOps
<1>9. gen' = [gen EXCEPT !.c = W!Trimmed(W!Trimmed(W!Fed(gen.c, fed, knobs), Len(d) - a, knobs),
                                         L!Surplus(a, k), knobs),
                         !.done = @ + 1 + a - L!Surplus(a, k), !.next = <<y>>, !.sam = L!ExtendedBy(@, e)]
      /\ out' = out \o e
  <2> HIDE DEF d, h, fed
  <2> QED BY <1>1
<1> HIDE DEF d, a, y
<1>10. fed = <<z>> \o d
  BY <1>3
<1> HIDE DEF fed
<1>11. /\ Len(d) \in Nat
       /\ \A i \in 1..(Len(d) + 1) : h[i] = c \o SubSeq(d, 1, i - 1)
  <2> HIDE DEF c, z, s
  <2>1. SaysAfter(gen.c, s, z, d, knobs)
    <3>1. Stands(gen.c, s, knobs)
      BY <1>3 DEF s
    <3> QED BY <1>4, <1>6, <1>7, <3>1, DraftHidden
  <2>2. Len(d) \in Nat /\ \A i \in 1..(Len(d) + 1) : h[i] = (s \o <<z>>) \o SubSeq(d, 1, i - 1)
    <3> HIDE DEF h
    <3>1. Len(d) \in Nat /\ \A i \in 1..(Len(d) + 1) :
            W!HiddenOver(gen.c, <<z>> \o d, knobs)[i] = (s \o <<z>>) \o SubSeq(d, 1, i - 1)
      BY <2>1 DEF SaysAfter
    <3>2. h = W!HiddenOver(gen.c, <<z>> \o d, knobs)
      BY <1>10 DEF h
    <3> QED BY <3>1, <3>2
  <2> HIDE DEF h
  <2> QED BY <1>6, <2>2
<1> HIDE DEF h
<1>12. /\ y \in Token /\ ts \in Context /\ Len(ts) = a + 1 /\ ts[a + 1] = y
       /\ \E n \in 1..(a + 1) :
            /\ e = SubSeq(ts, 1, n) /\ n <= budget - Len(out) /\ e \in Context /\ Len(e) = n
            /\ out \o e \in Context /\ Len(out \o e) = Len(out) + n
            /\ (out \o e)[Len(out \o e)] = ts[n]
            /\ EmitOf(prompt, budget, out, out \o e)
            /\ n < a + 1 => n = budget - Len(out) \/ ts[n] \in Eos
  <2>1. \A i \in 1..(a + 1) : i \in 1..(Len(d) + 1)
    BY <1>8, <1>11
  <2>2. \A i \in 1..(a + 1) : h[i] = (prompt \o out) \o SubSeq(d, 1, i - 1)
    BY <1>11, <2>1
  <2>3. prompt \o out # <<>>
    BY <1>5
  <2>4. d \in Context /\ Len(out) < budget /\ GoesOn(out)
    BY <1>5, <1>7
  <2>5. prompt \in Context /\ out \in Context /\ budget \in Nat
    BY <1>4
  <2>6. BlockTaken(prompt, out, budget, d, a, y)
    <3> HIDE DEF e, ts
    <3> QED BY <1>8, <2>2, <2>3, <2>4, <2>5, AnswerBlock
  <2> QED BY <2>6 DEF BlockTaken
<1>13. PICK n \in 1..(a + 1) :
            /\ e = SubSeq(ts, 1, n) /\ n <= budget - Len(out) /\ e \in Context /\ Len(e) = n
            /\ out \o e \in Context /\ Len(out \o e) = Len(out) + n
            /\ (out \o e)[Len(out \o e)] = ts[n]
            /\ EmitOf(prompt, budget, out, out \o e)
            /\ n < a + 1 => n = budget - Len(out) \/ ts[n] \in Eos
  BY <1>12
<1>14. a \in Nat /\ n \in Nat /\ k = n /\ k \in 1..(a + 1) /\ j \in 0..a /\ L!Surplus(a, k) = a - j
  <2>1. a \in Nat /\ n \in Nat /\ k = n
    BY <1>8, <1>11, <1>13
  <2> HIDE DEF k
  <2>2. L!Surplus(a, k) = IF k < a THEN a - k ELSE 0
    BY DEF L!Surplus
  <2> QED BY <2>1, <2>2
<1> HIDE DEF k, j
<1>15. Stands(cache, c \o SubSeq(d, 1, j), knobs)
  <2> HIDE DEF c, z, s
  <2>1. Stands(gen.c, s, knobs)
    BY <1>3 DEF s
  <2>2. Stands(cache, (s \o <<z>>) \o SubSeq(d, 1, j), knobs)
    BY <1>4, <1>6, <1>7, <1>8, <1>14, <2>1, TwiceTrimmed
  <2> HIDE DEF cache
  <2> QED BY <1>6, <2>2
<1>16. /\ Len(c) + j \in 0..Len(c \o e)
       /\ SubSeq(c \o e, 1, Len(c) + j) = c \o SubSeq(d, 1, j)
  <2>1. e = SubSeq(SubSeq(d, 1, a) \o <<y>>, 1, k)
    BY <1>13, <1>14
  <2>2. j = IF k < a THEN k ELSE a
    BY DEF j
  <2> HIDE DEF c, e, ts, f
  <2>3. c \in Context /\ d \in Context /\ a \in 0..Len(d) /\ y \in Token /\ k \in 1..(a + 1)
    BY <1>5, <1>7, <1>8, <1>12, <1>14
  <2>4. /\ Len(c) + j \in 0..Len(c \o SubSeq(SubSeq(d, 1, a) \o <<y>>, 1, k))
        /\ SubSeq(c \o SubSeq(SubSeq(d, 1, a) \o <<y>>, 1, k), 1, Len(c) + j) = c \o SubSeq(d, 1, j)
    BY <2>2, <2>3, KeptOfBlock, ZenonT(60)
  <2> QED BY <2>1, <2>4
<1>17. prompt \o out' = c \o e /\ out' = out \o e /\ out' \in Context
  <2>1. Lists(prompt, out, e)
    BY <1>4, <1>13 DEF Lists
  <2> HIDE DEF e
  <2>2. prompt \o (out \o e) = (prompt \o out) \o e
    BY <2>1, CutBefore
  <2> QED BY <1>9, <1>13, <2>2
<1>18. L!ExtendedBy(gen.sam, e) \in Automata /\ L!ExtendedBy(gen.sam, e).seq = c \o e
  <2>1. gen.sam.seq \in Context /\ e \in Context
    BY <1>3, <1>5, <1>13
  <2> HIDE DEF e
  <2>2. L!ExtendedBy(gen.sam, e) \in Automata /\ L!ExtendedBy(gen.sam, e).seq = gen.sam.seq \o e
    BY <1>4, <2>1, ExtendedByFacts
  <2> QED BY <1>3, <2>2
<1> DEFINE a2 == L!ExtendedBy(gen.sam, e)
           n2 == Len(c) + j
           v == <<y>>
<1>19. gen' \in LookupCalls /\ gen'.c = cache /\ gen'.shared = gen.shared
       /\ gen'.done = n2 /\ gen'.next = v /\ gen'.sam = a2
  <2>1. gen.done + 1 + a - L!Surplus(a, k) = n2 /\ n2 \in Nat
    <3> DEFINE l == Len(c)
    <3>1. gen.done = l - 1 /\ l \in Nat /\ L!Surplus(a, k) = a - j /\ j \in Nat /\ a \in Nat
      BY <1>3, <1>6, <1>14
    <3> HIDE DEF l
    <3>2. gen.done + 1 + a - L!Surplus(a, k) = l + j /\ l + j \in Nat
      BY <3>1
    <3> QED BY <3>2 DEF l
  <2>2. cache \in Caches /\ a2 \in Automata /\ v \in Context
    <3>1. v \in Context
      BY <1>12 DEF Context
    <3>2. a2 \in Automata
      BY <1>18
    <3> HIDE DEF cache, v
    <3>3. cache \in Caches
      BY <1>15, StandsType
    <3> QED BY <3>1, <3>2, <3>3
  <2>3. W!Trimmed(W!Trimmed(W!Fed(gen.c, fed, knobs), Len(d) - a, knobs), L!Surplus(a, k), knobs) = cache
    BY <1>10, <1>14
  <2> HIDE DEF cache, a2, n2, v
  <2>4. gen' = [gen EXCEPT !.c = cache, !.done = n2, !.next = v, !.sam = a2]
    BY <1>9, <2>1, <2>3 DEF a2, v
  <2> QED BY <1>3, <2>1, <2>2, <2>4 DEF LookupCalls
<1>20. LookupMore' => /\ n2 = Len(prompt \o out') - 1
                      /\ v = <<(prompt \o out')[Len(prompt \o out')]>>
  <2> SUFFICES ASSUME LookupMore'
               PROVE  /\ n2 = Len(prompt \o out') - 1
                      /\ y = (prompt \o out')[Len(prompt \o out')]
    OBVIOUS
  <2>1. n = a + 1
    <3> DEFINE l == Len(out)
               m == Len(out')
    <3>1. m < budget /\ l \in Nat /\ m = l + n
      BY <1>2, <1>5, <1>13, <1>17 DEF LookupMore
    <3>2. out' # <<>> /\ out'[m] = ts[n]
      <4>1. m # 0
        <5> HIDE DEF l, m
        <5> QED BY <1>14, <3>1
      <4> QED BY <1>13, <1>17, <4>1, Nothing
    <3>3. ts[n] \notin Eos
      BY <3>2 DEF LookupMore, GoesOn
    <3>4. n < a + 1 => n = budget - l
      BY <1>13, <3>3
    <3> HIDE DEF l, m
    <3>5. ~(n = budget - l) /\ n <= a + 1
      BY <1>4, <1>14, <3>1
    <3> QED BY <1>14, <3>4, <3>5
  <2>2. j = a
    BY <1>14, <2>1 DEF j
  <2>3. Len(c \o e) = Len(c) + n /\ (c \o e)[Len(c) + n] = e[n]
    <3>1. Len(c \o e) = Len(c) + Len(e) /\ \A i \in 1..(Len(c) + Len(e)) :
                 (c \o e)[i] = IF i <= Len(c) THEN c[i] ELSE e[i - Len(c)]
      <4> HIDE DEF c, e
      <4> QED BY <1>5, <1>13, ConcatProperties DEF Context
    <3> DEFINE l == Len(c)
    <3>2. l + n \in 1..(l + n) /\ ~(l + n <= l) /\ (l + n) - l = n /\ l \in Nat
      BY <1>6, <1>14
    <3>3. Len(e) = n
      BY <1>13
    <3> HIDE DEF l, e
    <3> QED BY <3>1, <3>2, <3>3 DEF l
  <2>4. e[n] = y
    <3>1. e[n] = ts[n]
      <4>1. out' = out \o e /\ (out \o e)[Len(out \o e)] = ts[n] /\ Len(out \o e) = Len(out) + n
        BY <1>13, <1>17
      <4>2. \A i \in 1..(Len(out) + Len(e)) : (out \o e)[i] = IF i <= Len(out) THEN out[i] ELSE e[i - Len(out)]
        BY <1>4, <1>13, ConcatProperties DEF Context
      <4> DEFINE l == Len(out)
      <4>3. l + n \in 1..(l + n) /\ ~(l + n <= l) /\ (l + n) - l = n
        BY <1>5, <1>14
      <4>4. Len(e) = n
        BY <1>13
      <4> HIDE DEF l, e
      <4> QED BY <4>1, <4>2, <4>3, <4>4 DEF l
    <3> QED BY <1>12, <2>1, <3>1
  <2>5. n2 = Len(c \o e) - 1
    BY <1>6, <1>14, <2>1, <2>2, <2>3
  <2> QED BY <1>17, <2>3, <2>4, <2>5
<1>21. Len(out') <= budget
  <2> DEFINE l == Len(out)
             m == Len(out')
  <2>1. l \in Nat /\ m = l + n /\ n <= budget - l
    BY <1>5, <1>13, <1>17
  <2> HIDE DEF l, m
  <2>2. m <= budget
    BY <1>4, <1>14, <2>1
  <2> QED BY <2>2 DEF m
<1>22. Stands(cache, SubSeq(prompt \o out', 1, n2), knobs) /\ n2 \in 0..Len(prompt \o out')
  BY <1>15, <1>16, <1>17
<1> HIDE DEF cache, n2, v, a2, c, e
<1>23. LookupDecoding' /\ LookupPrefilling'
  BY <1>2, <1>3, <1>19, <1>20, <1>21, <1>22 DEF LookupDecoding, LookupPrefilling
<1>24. WindowType'
  BY <1>2, <1>3, <1>17 DEF WindowType
<1>25. Plain!Emit
  BY <1>2, <1>13, <1>17, PlainEmit
<1>26. gen'.sam.seq = prompt' \o out'
  BY <1>2, <1>17, <1>18, <1>19 DEF a2
<1> QED BY <1>2, <1>3, <1>19, <1>23, <1>24, <1>25, <1>26 DEF LookupInv

LEMMA LookupStep ==
  ASSUME Speaks, LookupInv, L!Next, UNCHANGED knobs
  PROVE  LookupInv' /\ (Plain!Next \/ UNCHANGED <<prompt, budget, out>>)
<1>1. CASE L!Rewind
  BY <1>1, LookupRewind
<1>2. CASE L!Begin
  BY <1>2, LookupBegin DEF Plain!Next
<1>3. CASE L!PrefillChunk
  BY <1>3, LookupPrefillChunk
<1>4. CASE L!PrefillDone
  BY <1>4, LookupPrefillDone
<1>5. CASE L!Round
  BY <1>5, LookupRound DEF Plain!Next
<1>6. CASE L!Publish
  BY <1>6, LookupPublish
<1>7. CASE L!Fail
  BY <1>7, LookupFail
<1> QED BY <1>1, <1>2, <1>3, <1>4, <1>5, <1>6, <1>7 DEF L!Next

LEMMA LookupMatches ==
  ASSUME LookupInv
  PROVE  L!MatchesGenuine
<1> SUFFICES ASSUME st # "idle"
             PROVE  /\ gen.sam.seq = prompt \o out
                    /\ L!Genuine(L!LongestMatch(gen.sam), gen.sam.seq)
                    /\ \A t \in Token : L!Genuine(L!Peek(gen.sam, t), Append(gen.sam.seq, t))
  BY DEF L!MatchesGenuine
<1>1. gen.sam \in Automata /\ gen.sam.seq = prompt \o out
  BY DEF LookupInv, LookupCalls
<1>2. IsAutomaton(gen.sam)
  BY <1>1, AutomataAre
<1> QED BY <1>1, <1>2, SamGenuine

LEMMA LookupGood ==
  ASSUME LookupInv
  PROVE  L!LookupFollows
<1>1. /\ WindowType /\ knobs \in Nat /\ prompt \in Context /\ out \in Context /\ sess \in WindowSessions
      /\ gen \in LookupCalls
  BY DEF LookupInv, WindowType
<1>2. ASSUME sess.has PROVE W!StandFor(sess.c, sess.processed, knobs)
  <2>1. Stands(sess.c, sess.processed, knobs)
    BY <1>1, <1>2 DEF WindowType
  <2> QED BY <1>1, <2>1, StandsIsStandFor DEF WindowSessions
<1>3. ASSUME st = "decode"
      PROVE  /\ gen.done <= Len(prompt \o out)
             /\ W!StandFor(gen.c, SubSeq(prompt \o out, 1, gen.done), knobs)
             /\ LookupMore => gen.done = Len(prompt \o out) - 1
  <2>1. Stands(gen.c, SubSeq(prompt \o out, 1, gen.done), knobs)
    BY <1>3 DEF LookupInv, LookupDecoding
  <2>2. W!StandFor(gen.c, SubSeq(prompt \o out, 1, gen.done), knobs)
    BY <1>1, <2>1, StandsType, StandsIsStandFor
  <2> QED BY <1>3, <2>2 DEF LookupInv, LookupDecoding
<1> QED BY <1>2, <1>3, LookupOps DEF L!LookupFollows, L!More, LookupMore, GoesOn

(***************************************************************************)
(* Checkpoints                                                             *)
(***************************************************************************)
(* In ascending order of their positions.                                  *)
Rises(cps) == \A i, j \in 1..Len(cps) : i < j => cps[i].pos < cps[j].pos

(* As many as are kept, each of them one of K.                             *)
Ladder(cps, K) == cps \in Seq(K) /\ Len(cps) <= Retention /\ Rises(cps)

LEMMA LastsRise ==
  ASSUME NEW K, NEW s \in Seq(K), NEW r \in Nat, Rises(s)
  PROVE  W!Final(s, r) \in Seq(K) /\ Len(W!Final(s, r)) <= r /\ Rises(W!Final(s, r))
<1> DEFINE l == Len(s)
           k == IF r < l THEN r ELSE l
           m == l - k
           f == SubSeq(s, m + 1, l)
<1>1. W!Final(s, r) = f
  BY DEF W!Final, W!AtMost
<1>2. l \in Nat /\ \A i \in 1..l : s[i] \in K
  BY LenProperties, ElementOfSeq
<1> HIDE DEF l
<1>3. k \in 0..l /\ m \in 0..l /\ k <= r /\ l - m = k
  BY <1>2
<1> HIDE DEF k
<1>4. f \in Seq(K) /\ Len(f) = k
  BY <1>3, FirstAndRest DEF l
<1>5. \A i \in 1..k : f[i] = s[m + i] /\ m + i \in 1..l
  <2>1. m + 1 \in Int /\ l \in Int /\ l - (m + 1) + 1 = k /\ (\A i \in (m + 1)..l : s[i] \in K)
    BY <1>2, <1>3
  <2>2. \A i \in 1..k : (m + 1) + i - 1 = m + i /\ m + i \in 1..l
    BY <1>2, <1>3
  <2> HIDE DEF m
  <2>3. \A i \in 1..(l - (m + 1) + 1) : f[i] = s[(m + 1) + i - 1]
    BY <2>1, SubSeqProperties
  <2> QED BY <2>1, <2>2, <2>3
<1>6. ASSUME NEW i \in 1..k, NEW j \in 1..k, i < j PROVE f[i].pos < f[j].pos
  <2>1. m + i < m + j
    BY <1>3, <1>6
  <2>2. s[m + i].pos < s[m + j].pos
    BY <1>5, <2>1 DEF Rises, l
  <2> HIDE DEF f, m
  <2> QED BY <1>5, <2>2
<1> HIDE DEF f
<1> QED BY <1>1, <1>3, <1>4, <1>6 DEF Rises

LEMMA LadderGrows ==
  ASSUME Retention \in Nat, NEW K, NEW cps, Ladder(cps, K), NEW x \in K,
         \A i \in 1..Len(cps) : cps[i].pos < x.pos
  PROVE  Ladder(W!Final(Append(cps, x), Retention), K)
<1> DEFINE t == Append(cps, x)
           l == Len(cps)
<1>1. /\ t \in Seq(K) /\ Len(t) = l + 1 /\ l \in Nat /\ t[l + 1] = x
      /\ \A i \in 1..l : t[i] = cps[i]
  BY AppendFacts DEF Ladder
<1> HIDE DEF t
<1>2. ASSUME NEW i \in 1..(l + 1), NEW j \in 1..(l + 1), i < j PROVE t[i].pos < t[j].pos
  <2> HIDE DEF l
  <2>1. i \in 1..l
    BY <1>1, <1>2
  <2>2. CASE j = l + 1
    BY <1>1, <2>1, <2>2 DEF l
  <2>3. CASE j # l + 1
    <3>1. j \in 1..l
      BY <1>1, <2>3
    <3> QED BY <1>1, <1>2, <2>1, <3>1 DEF Ladder, Rises, l
  <2> QED BY <2>2, <2>3
<1>3. Rises(t)
  BY <1>1, <1>2 DEF Rises
<1> QED BY <1>1, <1>3, LastsRise DEF Ladder, t

(* The ones up to a position, as a rewind keeps them.                      *)
LEMMA LadderUpTo ==
  ASSUME NEW K, \A g \in K : g.pos \in Nat, Retention \in Nat, NEW cps, Ladder(cps, K), NEW n \in Nat
  PROVE  Ladder(Selection(cps, {k \in DOMAIN cps : cps[k].pos <= n}), {g \in K : g.pos <= n})
<1> DEFINE P == {k \in DOMAIN cps : cps[k].pos <= n}
           H == {g \in K : g.pos <= n}
           c == Cardinality(P)
           t == Selection(cps, P)
<1>1. cps \in Seq(K) /\ P \in SUBSET DOMAIN cps /\ DOMAIN cps = 1..Len(cps) /\ Len(cps) \in Nat
  BY LenProperties DEF Ladder
<1>2. \A k \in DOMAIN cps : cps[k] \in K
  BY <1>1, ElementOfSeq
<1>3. \A k \in P : cps[k] \in H /\ k \in 1..Len(cps)
  BY <1>1, <1>2
<1> HIDE DEF P, H
<1>4. /\ t \in Seq(K) /\ Len(t) = c /\ c \in Nat
      /\ \A j \in 1..c : Nth(P, j) \in P /\ t[j] = cps[Nth(P, j)]
      /\ \A i, j \in 1..c : i < j <=> Nth(P, i) < Nth(P, j)
  BY <1>1, SelectionFacts
<1> HIDE DEF t
<1>5. \A j \in 1..c : t[j] \in H
  BY <1>3, <1>4
<1>6. t \in Seq(H)
  BY <1>4, <1>5, IsASeq
<1>7. Rises(t)
  BY <1>3, <1>4 DEF Rises, Ladder
<1>8. c <= Len(cps)
  <2>1. IsFiniteSet(1..Len(cps)) /\ Cardinality(1..Len(cps)) = Len(cps) /\ P \subseteq 1..Len(cps)
    BY <1>1, FS_Interval
  <2> QED BY <2>1, FS_Subset
<1>9. Len(t) <= Retention
  <2>1. Len(cps) <= Retention
    BY DEF Ladder
  <2> DEFINE l == Len(cps)
  <2>2. l \in Nat /\ l <= Retention /\ c <= l
    BY <1>1, <1>8, <2>1
  <2> HIDE DEF l, c
  <2>3. c <= Retention
    BY <1>4, <2>2
  <2> QED BY <1>4, <2>3
<1> QED BY <1>6, <1>7, <1>9 DEF Ladder, t, P, H

LEMMA LadderWidens ==
  ASSUME NEW K, NEW H, NEW cps, Ladder(cps, K), K \subseteq H
  PROVE  Ladder(cps, H)
<1>1. cps \in Seq(K) /\ Len(cps) \in Nat /\ \A i \in 1..Len(cps) : cps[i] \in K
  BY LenProperties, ElementOfSeq DEF Ladder
<1>2. cps \in Seq(H)
  BY <1>1, IsASeq
<1> QED BY <1>2 DEF Ladder

(***************************************************************************)
(* The rows of a draft head                                                *)
(***************************************************************************)
Pairs == Token \X Context

(* The row of a token of c: the token, and what precedes it.               *)
RowAt(c, n) == <<c[n], SubSeq(c, 1, n - 1)>>

(* The last rows that the context c gives, in order and up to the last one.*)
RowsOf(m, c) ==
  /\ m \in Seq(Pairs) /\ c \in Context /\ Len(m) < Len(c)
  /\ \A i \in 1..Len(m) : m[i] = RowAt(c, Len(c) - Len(m) + i)

LEMMA NoRows ==
  ASSUME NEW c \in Context, c # <<>>
  PROVE  RowsOf(<<>>, c)
<1>1. Len(c) \in Nat /\ Len(c) # 0 /\ Len(<<>>) = 0 /\ <<>> \in Seq(Pairs)
  BY Nothing, EmptyList
<1>2. Len(<<>>) < Len(c)
  BY <1>1
<1>3. \A i \in 1..0 : FALSE
  OBVIOUS
<1> QED BY <1>1, <1>2, <1>3 DEF RowsOf

(* The rows of tokens v that follow c.                                     *)
RowAfter(v, c, k) == <<v[k], c \o SubSeq(v, 1, k - 1)>>

NewRows(new, v, c) ==
  /\ new \in Seq(Pairs) /\ v \in Context /\ Len(new) = Len(v)
  /\ \A k \in 1..Len(v) : new[k] = RowAfter(v, c, k)

LEMMA RowsGrow ==
  ASSUME NEW m, NEW c, RowsOf(m, c), NEW v, NEW new, NewRows(new, v, c)
  PROVE  RowsOf(m \o new, c \o v)
<1> DEFINE a == Len(m)
           b == Len(c)
           l == Len(v)
           t == m \o new
           u == c \o v
<1>1. /\ m \in Seq(Pairs) /\ c \in Context /\ new \in Seq(Pairs) /\ v \in Context
      /\ a \in Nat /\ b \in Nat /\ l \in Nat /\ Len(new) = l /\ a < b
  BY LenProperties DEF RowsOf, NewRows, Context
<1>2. t \in Seq(Pairs) /\ Len(t) = a + l /\ \A i \in 1..(a + l) : t[i] = IF i <= a THEN m[i] ELSE new[i - a]
  <2>1. Len(t) = Len(m) + Len(new) /\ t \in Seq(Pairs)
        /\ \A i \in 1..(Len(m) + Len(new)) : t[i] = IF i <= Len(m) THEN m[i] ELSE new[i - Len(m)]
    BY <1>1, ConcatProperties
  <2> QED BY <1>1, <2>1
<1>3. u \in Context /\ Len(u) = b + l /\ \A i \in 1..(b + l) : u[i] = IF i <= b THEN c[i] ELSE v[i - b]
  BY <1>1, ConcatProperties DEF Context
<1>4. \A n \in 0..b : SubSeq(u, 1, n) = SubSeq(c, 1, n)
  BY <1>1, FirstOfConcat DEF Context
<1>5. \A n \in 0..l : SubSeq(u, 1, b + n) = c \o SubSeq(v, 1, n)
  BY <1>1, FirstOfBoth DEF Context
<1> HIDE DEF t, u
<1>6. \A i \in 1..a : m[i] = RowAt(c, b - a + i)
  BY DEF RowsOf
<1>7. \A k \in 1..l : new[k] = RowAfter(v, c, k)
  BY DEF NewRows
<1> HIDE DEF a, b, l
<1>8. ASSUME NEW i \in 1..(a + l)
      PROVE  t[i] = RowAt(u, b + l - (a + l) + i)
  <2> DEFINE n == b - a + i
  <2>1. b + l - (a + l) + i = n /\ n \in 1..(b + l)
    BY <1>1
  <2>2. CASE i <= a
    <3>1. i \in 1..a /\ n <= b /\ n - 1 \in 0..b
      BY <1>1, <2>2
    <3>2. t[i] = m[i] /\ m[i] = RowAt(c, n)
      BY <1>2, <1>6, <2>2, <3>1
    <3> HIDE DEF n
    <3>3. u[n] = c[n] /\ SubSeq(u, 1, n - 1) = SubSeq(c, 1, n - 1)
      BY <1>3, <1>4, <2>1, <3>1
    <3>4. RowAt(c, n) = RowAt(u, n)
      BY <3>3 DEF RowAt
    <3> QED BY <2>1, <3>2, <3>4
  <2>3. CASE ~(i <= a)
    <3> DEFINE k == i - a
    <3>1. k \in 1..l /\ k - 1 \in 0..l /\ n = b + k /\ n - 1 = b + (k - 1) /\ ~(n <= b) /\ n - b = k
      BY <1>1, <2>3
    <3>2. t[i] = new[k] /\ u[n] = v[k]
      <4> HIDE DEF n, k
      <4>1. u[n] = v[k]
        BY <1>3, <2>1, <3>1
      <4>2. t[i] = new[k]
        BY <1>2, <2>3 DEF k
      <4> QED BY <4>1, <4>2
    <3> HIDE DEF n, k
    <3>3. SubSeq(u, 1, n - 1) = c \o SubSeq(v, 1, k - 1)
      BY <1>5, <3>1
    <3>4. new[k] = RowAfter(v, c, k)
      BY <1>7, <3>1
    <3>5. RowAfter(v, c, k) = RowAt(u, n)
      BY <3>2, <3>3 DEF RowAt, RowAfter
    <3> QED BY <2>1, <3>2, <3>4, <3>5
  <2> QED BY <2>2, <2>3
<1>9. Len(t) < Len(u)
  BY <1>1, <1>2, <1>3
<1>10. Len(u) = b + l /\ Len(t) = a + l
  BY <1>2, <1>3
<1>11. ASSUME NEW i \in 1..Len(t)
       PROVE  t[i] = RowAt(u, Len(u) - Len(t) + i)
  <2> DEFINE x == Len(u)
             y == Len(t)
  <2>0. i \in 1..y /\ x = b + l /\ y = a + l /\ a \in Nat /\ b \in Nat /\ l \in Nat
    BY <1>1, <1>10
  <2> HIDE DEF x, y
  <2>1. i \in 1..(a + l) /\ x - y + i = b + l - (a + l) + i
    BY <2>0
  <2>2. t[i] = RowAt(u, b + l - (a + l) + i)
    BY <1>8, <2>1
  <2> QED BY <2>1, <2>2 DEF x, y
<1> QED BY <1>2, <1>3, <1>9, <1>11 DEF RowsOf, t, u

LEMMA RowsSuffix ==
  ASSUME NEW m, NEW c, RowsOf(m, c)
  PROVE  IsSuffix(m, [i \in 1..(Len(c) - 1) |-> <<c[i + 1], SubSeq(c, 1, i)>>])
<1> DEFINE a == Len(m)
           b == Len(c)
           t == [i \in 1..(b - 1) |-> <<c[i + 1], SubSeq(c, 1, i)>>]
           k == b - 1 - a
           f == SubSeq(t, 1, k)
           u == f \o m
<1>1. m \in Seq(Pairs) /\ c \in Context /\ a \in Nat /\ b \in Nat /\ a < b
  BY LenProperties DEF RowsOf, Context
<1>2. b - 1 \in Nat /\ k \in Nat /\ k + a = b - 1
  BY <1>1
<1>3. ASSUME NEW i \in 1..(b - 1)
      PROVE  t[i] = RowAt(c, i + 1) /\ t[i] \in Pairs
  <2>1. i + 1 \in 1..b /\ i \in 0..b /\ (i + 1) - 1 = i
    BY <1>1
  <2>2. c[i + 1] \in Token /\ SubSeq(c, 1, i) \in Context
    BY <1>1, <2>1, ElementOfSeq, FirstPart DEF Context
  <2>3. t[i] = <<c[i + 1], SubSeq(c, 1, i)>>
    OBVIOUS
  <2> HIDE DEF t
  <2>4. RowAt(c, i + 1) = <<c[i + 1], SubSeq(c, 1, i)>>
    BY <2>1 DEF RowAt
  <2> DEFINE y == c[i + 1]
             z == SubSeq(c, 1, i)
  <2>5. <<y, z>> \in Pairs
    <3>1. y \in Token /\ z \in Context
      BY <2>2
    <3> HIDE DEF y, z
    <3> QED BY <3>1 DEF Pairs
  <2> QED BY <2>3, <2>4, <2>5
<1>4. t \in [1..(b - 1) -> Pairs]
  BY <1>3
<1> HIDE DEF t, k
<1>5. t \in Seq(Pairs) /\ Len(t) = b - 1
  <2> DEFINE n == b - 1
  <2> HIDE DEF n
  <2>1. n \in Nat /\ t \in [1..n -> Pairs]
    BY <1>2, <1>4 DEF n
  <2> QED BY <2>1 DEF n
<1>6. k \in 0..Len(t)
  BY <1>1, <1>2, <1>5
<1>7. f \in Seq(Pairs) /\ Len(f) = k /\ \A i \in 1..k : f[i] = t[i]
  BY <1>5, <1>6, FirstPart
<1> HIDE DEF f
<1>8. u \in Seq(Pairs) /\ Len(u) = k + a /\ \A i \in 1..(k + a) : u[i] = IF i <= k THEN f[i] ELSE m[i - k]
  <2>1. u \in Seq(Pairs) /\ Len(u) = Len(f) + Len(m)
        /\ \A i \in 1..(Len(f) + Len(m)) : u[i] = IF i <= Len(f) THEN f[i] ELSE m[i - Len(f)]
    BY <1>1, <1>7, ConcatProperties
  <2> QED BY <1>7, <2>1
<1> HIDE DEF u
<1>9. ASSUME NEW i \in 1..(k + a) PROVE u[i] = t[i]
  <2>1. CASE i <= k
    <3>1. i \in 1..k
      BY <1>2, <2>1
    <3> QED BY <1>7, <1>8, <2>1, <3>1
  <2>2. CASE ~(i <= k)
    <3>1. i - k \in 1..a /\ b - a + (i - k) = i + 1 /\ i \in 1..(b - 1)
      BY <1>1, <1>2, <2>2 DEF k
    <3>2. m[i - k] = RowAt(c, b - a + (i - k))
      BY <3>1 DEF RowsOf
    <3>3. u[i] = m[i - k]
      BY <1>8, <2>2
    <3>4. t[i] = RowAt(c, i + 1)
      BY <1>3, <3>1
    <3> QED BY <3>1, <3>2, <3>3, <3>4
  <2> QED BY <2>1, <2>2
<1>10. u = t
  <2> HIDE DEF a, b
  <2>1. Len(u) = Len(t) /\ \A i \in 1..Len(u) : u[i] = t[i]
    BY <1>2, <1>5, <1>8, <1>9
  <2> QED BY <1>5, <1>8, <2>1, SeqEqual
<1>11. \E x \in Seq(Pairs) : t = x \o m
  BY <1>7, <1>10 DEF u
<1>12. IsSuffix(m, t)
  BY <1>1, <1>5, <1>11, SuffixFacts
<1> QED BY <1>12 DEF t, b

(***************************************************************************)
(* The generic speculative engine                                          *)
(***************************************************************************)
(* The checkpoints and the tails of a context.                             *)
Marks(c) == {[pos |-> n, snap |-> SubSeq(c, 1, n)] : n \in 1..Len(c)}
Tails(c) == {[pos |-> n, h |-> SubSeq(c, 1, n)] : n \in 0..Len(c)}

AnyMarks == [pos : Nat, snap : Context]
AnyTails == [pos : Nat, h : Context]

LEMMA MarksType ==
  ASSUME NEW c \in Context
  PROVE  /\ Marks(c) \subseteq AnyMarks /\ Tails(c) \subseteq AnyTails
         /\ \A g \in Marks(c) : g.pos \in 1..Len(c) /\ g.pos \in Nat /\ g.snap = SubSeq(c, 1, g.pos)
         /\ \A t \in Tails(c) : t.pos \in 0..Len(c) /\ t.pos \in Nat /\ t.h = SubSeq(c, 1, t.pos)
<1>1. Len(c) \in Nat /\ \A n \in 0..Len(c) : SubSeq(c, 1, n) \in Context /\ n \in Nat
  BY Nothing, FirstPart DEF Context
<1>2. \A n \in 1..Len(c) : n \in 0..Len(c)
  BY <1>1
<1>3. Marks(c) \subseteq AnyMarks
  <2>1. ASSUME NEW n \in 1..Len(c) PROVE [pos |-> n, snap |-> SubSeq(c, 1, n)] \in AnyMarks
    BY <1>1, <1>2 DEF AnyMarks
  <2> QED BY <2>1 DEF Marks
<1>4. Tails(c) \subseteq AnyTails
  <2>1. ASSUME NEW n \in 0..Len(c) PROVE [pos |-> n, h |-> SubSeq(c, 1, n)] \in AnyTails
    BY <1>1 DEF AnyTails
  <2> QED BY <2>1 DEF Tails
<1>5. \A g \in Marks(c) : g.pos \in 1..Len(c) /\ g.snap = SubSeq(c, 1, g.pos)
  BY DEF Marks
<1>6. \A t \in Tails(c) : t.pos \in 0..Len(c) /\ t.h = SubSeq(c, 1, t.pos)
  BY DEF Tails
<1> QED BY <1>1, <1>2, <1>3, <1>4, <1>5, <1>6

LEMMA MarksOfMore ==
  ASSUME NEW c \in Context, NEW s \in Context
  PROVE  Marks(c) \subseteq Marks(c \o s) /\ Tails(c) \subseteq Tails(c \o s)
<1> DEFINE u == c \o s
           b == Len(c)
           l == Len(u)
<1>1. b \in Nat /\ l \in Nat /\ b <= l
  <2>1. Len(u) = Len(c) + Len(s) /\ Len(c) \in Nat /\ Len(s) \in Nat
    BY Joined
  <2> QED BY <2>1
<1>2. \A n \in 0..b : SubSeq(u, 1, n) = SubSeq(c, 1, n)
  BY FirstOfConcat DEF Context
<1> HIDE DEF u, b, l
<1>3. \A n \in 1..b : n \in 0..b /\ n \in 1..l
  BY <1>1
<1>4. \A n \in 0..b : n \in 0..l
  BY <1>1
<1>5. Marks(c) \subseteq Marks(u)
  BY <1>2, <1>3 DEF Marks, b, l
<1>6. Tails(c) \subseteq Tails(u)
  BY <1>2, <1>4 DEF Tails, b, l
<1> QED BY <1>5, <1>6 DEF u

LEMMA MarksOfFirst ==
  ASSUME NEW c \in Context, NEW n \in 0..Len(c)
  PROVE  /\ {g \in Marks(c) : g.pos <= n} \subseteq Marks(SubSeq(c, 1, n))
         /\ \A t \in Tails(c) : t.pos = n => t \in Tails(SubSeq(c, 1, n))
<1> DEFINE f == SubSeq(c, 1, n)
           l == Len(c)
<1>1. Len(f) = n /\ l \in Nat /\ \A k \in 0..n : SubSeq(f, 1, k) = SubSeq(c, 1, k)
  BY FirstPart, FirstOfFirst, Nothing DEF Context
<1> HIDE DEF f
<1>2. \A k \in 1..l : k <= n => k \in 1..n /\ k \in 0..n
  BY <1>1 DEF l
<1>3. {g \in Marks(c) : g.pos <= n} \subseteq Marks(f)
  BY <1>1, <1>2 DEF Marks, l
<1>4. n \in 0..n
  BY <1>1
<1>5. \A t \in Tails(c) : t.pos = n => t \in Tails(f)
  BY <1>1, <1>4 DEF Tails
<1> QED BY <1>3, <1>5 DEF f

LEMMA MarksOfPart ==
  ASSUME NEW c \in Context, NEW k \in 0..Len(c), NEW n \in k..Len(c)
  PROVE  Marks(SubSeq(c, 1, k)) \subseteq Marks(SubSeq(c, 1, n))
<1> DEFINE l == Len(c)
           f == SubSeq(c, 1, n)
           e == SubSeq(c, 1, k)
<1>1. l \in Nat /\ n \in 0..l /\ k \in 0..n
  BY Nothing
<1>2. Len(f) = n /\ Len(e) = k /\ (\A i \in 0..n : SubSeq(f, 1, i) = SubSeq(c, 1, i))
      /\ (\A i \in 0..k : SubSeq(e, 1, i) = SubSeq(c, 1, i))
  BY <1>1, FirstPart, FirstOfFirst DEF Context
<1> HIDE DEF e, f
<1>3. \A i \in 1..k : i \in 0..k /\ i \in 0..n /\ i \in 1..n
  BY <1>1
<1>4. \A i \in 1..k : SubSeq(e, 1, i) = SubSeq(f, 1, i)
  BY <1>2, <1>3
<1>5. Marks(e) \subseteq Marks(f)
  BY <1>2, <1>3, <1>4 DEF Marks
<1> QED BY <1>5 DEF e, f

LEMMA SpecOps ==
  /\ \A s, n : S!First(s, n) = SubSeq(s, 1, n)
  /\ \A s, n : S!Drop(s, n) = SubSeq(s, 1, Len(s) - n)
  /\ \A s, n : S!Hidden(s, s, n) = SubSeq(s, 1, Len(s) - n)
  /\ \A h : S!Draw(h) = Drawn(h)
  /\ \A s : S!Last(s) = s[Len(s)]
  /\ \A s, t : S!IsPrefix(s, t) = IsPrefix(s, t)
  /\ \A s, t : S!IsSuffix(s, t) = IsSuffix(s, t)
  /\ \A cps, n : S!UpTo(cps, n) = Selection(cps, {k \in DOMAIN cps : cps[k].pos <= n})
  /\ \A m, n : S!AtMost(m, n) = W!AtMost(m, n)
  /\ S!Unknown = <<>>
<1>1. \A s, n : S!First(s, n) = SubSeq(s, 1, n)
  BY DEF S!First
<1>2. \A s, n : S!Drop(s, n) = SubSeq(s, 1, Len(s) - n)
  BY <1>1 DEF S!Drop
<1>3. \A s, n : S!Hidden(s, s, n) = SubSeq(s, 1, Len(s) - n)
  BY <1>2 DEF S!Hidden
<1>4. \A h : S!Draw(h) = Drawn(h)
  BY DEF S!Draw, S!Unknown, Drawn
<1>5. \A s : S!Last(s) = s[Len(s)]
  BY DEF S!Last
<1>6. \A s, t : S!IsPrefix(s, t) = IsPrefix(s, t)
  BY DEF S!IsPrefix, IsPrefix
<1>7. \A s, t : S!IsSuffix(s, t) = IsSuffix(s, t)
  BY <1>6 DEF S!IsSuffix, IsSuffix, S!Reverse, Reverse
<1>8. \A cps, n : S!UpTo(cps, n) = Selection(cps, {k \in DOMAIN cps : cps[k].pos <= n})
  BY DEF S!UpTo, S!Selection, Selection, S!Nth, Nth, S!Below, Below, S!Cardinality, Cardinality
<1>9. \A m, n : S!AtMost(m, n) = W!AtMost(m, n)
  BY DEF S!AtMost, W!AtMost
<1>10. S!Unknown = <<>>
  BY DEF S!Unknown
<1> QED BY <1>1, <1>2, <1>3, <1>4, <1>5, <1>6, <1>7, <1>8, <1>9, <1>10

SpecSessions == [has : BOOLEAN, processed : Context, kv : Context, rec : Context,
                 mtp : Seq(Pairs), mtpValid : BOOLEAN, h : Context,
                 cps : Seq(AnyMarks), tail : AnyTails]

(* A session of x.processed: what a later call may take.                   *)
SpecSession(x) ==
  /\ x \in SpecSessions
  /\ ~x.has => x = S!Invalid
  /\ x.has => /\ x.processed # <<>> /\ x.kv = x.processed /\ x.rec = x.processed
              /\ Ladder(x.cps, Marks(x.processed)) /\ x.tail \in Tails(x.processed)
              /\ x.h \in {<<>>, x.processed}
              /\ x.mtpValid => x.h = x.processed /\ RowsOf(x.mtp, x.processed)

SpecCalls == [kv : Context, rec : Context, mtp : Seq(Pairs), h : Context, cps : Seq(AnyMarks),
              tail : AnyTails, shared : BOOLEAN, reused : Nat, fed : Context, window : Context,
              off : Nat]

SpecType ==
  /\ prompt \in Context /\ budget \in Nat /\ mode \in BOOLEAN /\ out \in Context
  /\ st \in {"idle", "prefill", "first", "decode", "verify"}
  /\ gen \in SpecCalls /\ SpecSession(sess)
  /\ gen.shared => ~sess.has

SpecMore == Len(out) < budget /\ out[Len(out)] \notin Eos

SpecDone == gen.reused + Len(gen.window)

(* What the caches stand for between two rounds.                           *)
SpecFed == prompt \o gen.fed

SpecPrefilling ==
  st = "prefill" =>
    /\ prompt # <<>> /\ out = <<>> /\ gen.fed = <<>> /\ SpecDone < Len(prompt)
    /\ gen.kv = SubSeq(prompt, 1, SpecDone) /\ gen.rec = gen.kv
    /\ Ladder(gen.cps, Marks(SubSeq(prompt, 1, SpecDone)))
    /\ mode => \/ gen.h = <<>> /\ gen.mtp = <<>>
               \/ /\ gen.h = SubSeq(prompt, 1, gen.reused) /\ gen.h # <<>>
                  /\ RowsOf(gen.mtp, gen.h)

SpecCaches ==
  /\ prompt # <<>> /\ gen.kv = SpecFed /\ gen.rec = SpecFed /\ gen.h = SpecFed
  /\ Ladder(gen.cps, Marks(prompt)) /\ gen.tail \in Tails(prompt)

(* Between two rounds the last token of the answer is still to be fed.     *)
SpecSaid == /\ out # <<>> /\ Len(out) <= budget
            /\ SpecMore => out = gen.fed \o <<out[Len(out)]>>

SpecDecoding ==
  /\ st = "first" => SpecCaches /\ out = <<>> /\ gen.fed = <<>>
  /\ st = "decode" => SpecCaches /\ SpecSaid
  /\ st \in {"first", "decode"} /\ mode => RowsOf(gen.mtp, SpecFed)

(* In the middle of a round: what is drafted fits the budget, and the rows *)
(* of the draft come after the true ones, the first of them true as well.  *)
SpecRows(z) ==
  /\ gen.off <= Len(gen.mtp)
  /\ RowsOf(SubSeq(gen.mtp, 1, gen.off), SpecFed)
  /\ gen.off < Len(gen.mtp) => gen.mtp[gen.off + 1] = <<z, gen.h>>

SpecVerifying ==
  st = "verify" =>
    /\ SpecCaches /\ SpecSaid /\ SpecMore
    /\ \E d \in Context : /\ gen.window = <<out[Len(out)]>> \o d
                          /\ Len(d) <= budget - Len(out) - 1
    /\ mode => SpecRows(out[Len(out)])

SpecInv == SpecType /\ SpecPrefilling /\ SpecDecoding /\ SpecVerifying

LEMMA FreshSpec ==
  /\ S!Fresh \in SpecCalls /\ S!Fresh.shared = FALSE
  /\ SpecSession(S!Invalid) /\ S!Invalid.has = FALSE
  /\ \A c \in Context : S!NoTail \in Tails(c)
  /\ S!NoTail \in AnyTails
<1>1. <<>> \in Context /\ <<>> \in Seq(Pairs) /\ <<>> \in Seq(AnyMarks) /\ 0 \in Nat
  BY Nothing, EmptyList
<1>2. S!NoTail = [pos |-> 0, h |-> <<>>]
  BY DEF S!NoTail, S!Unknown
<1>3. S!NoTail \in AnyTails
  BY <1>1, <1>2 DEF AnyTails
<1>4. ASSUME NEW c \in Context PROVE S!NoTail \in Tails(c)
  <2>1. 0 \in 0..Len(c) /\ SubSeq(c, 1, 0) = <<>>
    BY Nothing, SubSeqEmpty DEF Context
  <2> QED BY <1>2, <2>1 DEF Tails
<1>5. S!Fresh \in SpecCalls
  BY <1>1, <1>3 DEF S!Fresh, SpecCalls, S!Unknown
<1>6. S!Invalid \in SpecSessions /\ S!Invalid.has = FALSE
  BY <1>1, <1>3 DEF S!Invalid, SpecSessions, S!Unknown
<1>7. S!Fresh.shared = FALSE
  BY DEF S!Fresh
<1> QED BY <1>3, <1>4, <1>5, <1>6, <1>7 DEF SpecSession

LEMMA SpecInit ==
  ASSUME S!Init
  PROVE  SpecInv /\ Plain!Init
<1>1. /\ sess = S!Invalid /\ st = "idle" /\ prompt = <<>> /\ budget = 0 /\ mode = FALSE
      /\ out = <<>> /\ gen = S!Fresh
  BY DEF S!Init
<1>2. SpecType
  BY <1>1, FreshSpec, Nothing DEF SpecType
<1>3. Plain!Init
  BY <1>1 DEF Plain!Init
<1> QED BY <1>1, <1>2, <1>3 DEF SpecInv, SpecPrefilling, SpecDecoding, SpecVerifying

LEMMA RewoundSpec ==
  ASSUME SpecSession(sess), NEW i \in DOMAIN sess.cps, sess.cps[i].pos < Len(sess.processed)
  PROVE  SpecSession(S!Rewound(sess, sess.cps[i])) /\ sess.has
<1> DEFINE c == sess.processed
           n == sess.cps[i].pos
           f == SubSeq(c, 1, n)
           x == S!Rewound(sess, sess.cps[i])
           up == Selection(sess.cps, {k \in DOMAIN sess.cps : sess.cps[k].pos <= n})
           tail == IF sess.tail.pos = n THEN sess.tail ELSE S!NoTail
<1>1. sess.has
  <2>1. CASE ~sess.has
    <3>1. sess.cps = <<>>
      BY <2>1 DEF SpecSession, S!Invalid
    <3> QED BY <3>1
  <2> QED BY <2>1
<1>2. /\ sess \in SpecSessions /\ c # <<>> /\ sess.kv = c /\ sess.rec = c /\ c \in Context
      /\ Ladder(sess.cps, Marks(c)) /\ sess.tail \in Tails(c)
  BY <1>1 DEF SpecSession, SpecSessions
<1>3. sess.cps[i] \in Marks(c)
  BY <1>2, ElementOfSeq, LenProperties DEF Ladder
<1>4. n \in 1..Len(c) /\ n \in Nat /\ sess.cps[i].snap = f /\ Len(c) \in Nat
  BY <1>2, <1>3, MarksType, Nothing
<1>5. n \in 0..Len(c) /\ Len(c) - (Len(c) - n) = n
  <2> DEFINE l == Len(c)
  <2>1. n \in 1..l /\ l \in Nat
    BY <1>4
  <2> HIDE DEF l, n
  <2>2. n \in 0..l /\ l - (l - n) = n
    BY <2>1
  <2> QED BY <2>2 DEF l
<1>6. f \in Context /\ Len(f) = n /\ f # <<>>
  <2>1. f \in Context /\ Len(f) = n
    BY <1>2, <1>5, FirstPart DEF Context
  <2>2. n # 0
    BY <1>4
  <2> HIDE DEF f, n
  <2> QED BY <2>1, <2>2, Nothing
<1>7. /\ x = [sess EXCEPT !.processed = f, !.kv = f, !.rec = f, !.mtp = <<>>, !.mtpValid = FALSE,
                         !.h = <<>>, !.cps = up, !.tail = tail]
  <2>1. SubSeq(sess.kv, 1, Len(sess.kv) - (Len(c) - n)) = f
    BY <1>2, <1>5
  <2>2. /\ sess.processed = c /\ S!First(c, n) = f /\ S!UpTo(sess.cps, n) = up
        /\ S!Drop(sess.kv, Len(c) - n) = f /\ S!Unknown = <<>>
    BY <2>1, SpecOps
  <2> HIDE DEF f, up
  <2> QED BY <1>2, <1>4, <2>2 DEF S!Rewound
<1>8. Ladder(up, {g \in Marks(c) : g.pos <= n})
  <2>1. Retention \in Nat
    BY SpecAssumption DEF S!SizesAssumption
  <2>2. \A g \in Marks(c) : g.pos \in Nat
    BY <1>2, MarksType
  <2> DEFINE cps == sess.cps
  <2>3. n \in Nat /\ Ladder(cps, Marks(c))
    BY <1>2, <1>4
  <2> HIDE DEF n, cps
  <2> QED BY <2>1, <2>2, <2>3, LadderUpTo DEF cps
<1>9. Ladder(up, Marks(f))
  <2>1. {g \in Marks(c) : g.pos <= n} \subseteq Marks(f)
    BY <1>2, <1>5, MarksOfFirst
  <2> QED BY <1>8, <2>1, LadderWidens
<1>10. tail \in Tails(f) /\ tail \in AnyTails
  <2>1. CASE sess.tail.pos = n
    <3>1. sess.tail \in Tails(f)
      BY <1>2, <1>5, <2>1, MarksOfFirst
    <3>2. sess.tail \in AnyTails
      BY <1>2, MarksType
    <3> QED BY <2>1, <3>1, <3>2
  <2>2. CASE sess.tail.pos # n
    BY <1>6, <2>2, FreshSpec
  <2> QED BY <2>1, <2>2
<1>11. up \in Seq(AnyMarks)
  <2>1. Ladder(up, AnyMarks)
    BY <1>6, <1>9, MarksType, LadderWidens
  <2> QED BY <2>1 DEF Ladder
<1> HIDE DEF f, up, tail, x
<1>12. /\ x \in SpecSessions /\ x.has = sess.has /\ x.processed = f /\ x.kv = f /\ x.rec = f
       /\ x.h = <<>> /\ x.cps = up /\ x.tail = tail /\ x.mtpValid = FALSE
  <2>1. <<>> \in Context /\ <<>> \in Seq(Pairs)
    BY Nothing, EmptyList
  <2> QED BY <1>2, <1>6, <1>7, <1>10, <1>11, <2>1 DEF SpecSessions
<1> QED BY <1>1, <1>6, <1>9, <1>10, <1>12 DEF SpecSession, x

LEMMA SpecRewind ==
  ASSUME SpecInv, S!Rewind
  PROVE  SpecInv' /\ UNCHANGED <<prompt, budget, out>>
<1>1. PICK i \in DOMAIN sess.cps :
        sess.cps[i].pos < Len(sess.processed) /\ sess' = S!Rewound(sess, sess.cps[i])
  BY DEF S!Rewind
<1>2. st = "idle" /\ UNCHANGED <<st, prompt, budget, mode, out, gen>>
  BY DEF S!Rewind
<1>3. SpecSession(sess') /\ sess.has
  BY <1>1, RewoundSpec DEF SpecInv, SpecType
<1>4. SpecType'
  BY <1>2, <1>3 DEF SpecInv, SpecType, SpecSession
<1> QED BY <1>2, <1>4 DEF SpecInv, SpecPrefilling, SpecDecoding, SpecVerifying

LEMMA NoMarks ==
  ASSUME NEW Q
  PROVE  Ladder(<<>>, Q)
<1>1. <<>> \in Seq(Q) /\ Len(<<>>) = 0 /\ Retention \in Nat
  BY EmptyList, SpecAssumption DEF S!SizesAssumption
<1>2. Rises(<<>>)
  BY DEF Rises
<1>3. Len(<<>>) <= Retention
  BY <1>1
<1> QED BY <1>1, <1>2, <1>3 DEF Ladder

LEMMA SpecAsks ==
  ASSUME S!Begin
  PROVE  /\ prompt' \in Context /\ prompt' # <<>> /\ budget' \in Nat /\ mode' \in BOOLEAN /\ out' = <<>>
         /\ Plain!Ask
<1>1. prompt' \in SpecPrompts /\ budget' \in Budgets /\ mode' \in {FALSE, DraftCap > 0} /\ out' = <<>>
  BY DEF S!Begin
<1>2. prompt' \in Context /\ prompt' # <<>> /\ budget' \in Nat
  BY <1>1, SpecAssumption DEF S!PromptsAssumption, Context
<1>3. mode' \in BOOLEAN
  <2>1. (DraftCap > 0) \in BOOLEAN
    OBVIOUS
  <2> DEFINE x == DraftCap > 0
  <2> HIDE DEF x
  <2>2. mode' \in {FALSE, x} /\ x \in BOOLEAN
    BY <1>1, <2>1 DEF x
  <2> QED BY <2>2, Zenon
<1> QED BY <1>1, <1>2, <1>3, PlainAsk

LEMMA SpecBeginFresh ==
  ASSUME SpecInv, S!Begin, ~S!Reusable(sess, prompt', mode')
  PROVE  SpecInv'
<1>1. /\ gen' = S!Fresh /\ st' = "prefill" /\ sess' = S!SessionAfterTaking(sess, prompt')
      /\ prompt' \in Context /\ prompt' # <<>> /\ budget' \in Nat /\ mode' \in BOOLEAN /\ out' = <<>>
  BY SpecAsks DEF S!Begin
<1>2. SpecSession(sess')
  BY <1>1, FreshSpec DEF S!SessionAfterTaking, SpecInv, SpecType
<1>3. gen' \in SpecCalls /\ gen'.shared = FALSE
  BY <1>1, FreshSpec
<1>4. SpecType'
  BY <1>1, <1>2, <1>3, Nothing DEF SpecType, SpecSession
<1>5. /\ gen'.fed = <<>> /\ gen'.kv = <<>> /\ gen'.rec = <<>> /\ gen'.cps = <<>> /\ gen'.h = <<>>
      /\ gen'.mtp = <<>> /\ gen'.reused = 0 /\ gen'.window = <<>>
  BY <1>1 DEF S!Fresh, S!Unknown
<1>6. SpecDone' = 0
  <2>1. Len(<<>>) = 0
    BY Nothing
  <2>2. gen'.reused + Len(gen'.window) = 0
    BY <1>5, <2>1
  <2> QED BY <2>2 DEF SpecDone
<1>7. 0 < Len(prompt') /\ SubSeq(prompt', 1, 0) = <<>>
  <2>1. Len(prompt') \in Nat /\ Len(prompt') # 0
    BY <1>1, Nothing
  <2> QED BY <1>1, <2>1, SubSeqEmpty DEF Context
<1>8. SpecPrefilling'
  <2>1. Ladder(<<>>, Marks(SubSeq(prompt', 1, 0)))
    BY NoMarks
  <2> QED BY <1>1, <1>5, <1>6, <1>7, <2>1 DEF SpecPrefilling
<1> QED BY <1>1, <1>4, <1>8 DEF SpecInv, SpecDecoding, SpecVerifying

LEMMA SpecBeginTaken ==
  ASSUME SpecInv, S!Begin, S!Reusable(sess, prompt', mode')
  PROVE  SpecInv'
<1> DEFINE p == prompt'
           c == sess.processed
           n == Len(c)
           mtp == IF sess.mtpValid THEN sess.mtp ELSE <<>>
           h == IF c = p THEN sess.tail.h ELSE IF sess.mtpValid THEN sess.h ELSE <<>>
           tail == IF c = p THEN sess.tail ELSE S!NoTail
<1>1. /\ gen' = S!Taken(sess, p) /\ st' = (IF c = p THEN "first" ELSE "prefill")
      /\ sess' = S!SessionAfterTaking(sess, p) /\ (c = p => sess.tail.pos = Len(p))
      /\ p \in Context /\ p # <<>> /\ budget' \in Nat /\ mode' \in BOOLEAN /\ out' = <<>>
  BY SpecAsks DEF S!Begin, S!Coverable
<1>2. sess.has /\ IsPrefix(c, p) /\ (mode' => sess.mtpValid \/ sess.h = <<>>)
  BY SpecOps DEF S!Reusable
<1>3. /\ sess \in SpecSessions /\ c # <<>> /\ sess.kv = c /\ sess.rec = c /\ c \in Context
      /\ Ladder(sess.cps, Marks(c)) /\ sess.tail \in Tails(c) /\ sess.h \in {<<>>, c}
      /\ (sess.mtpValid => sess.h = c /\ RowsOf(sess.mtp, c))
  BY <1>2 DEF SpecInv, SpecType, SpecSession, SpecSessions
<1>4. sess' = S!Invalid
  BY <1>1, <1>2, SpecOps DEF S!SessionAfterTaking
<1>5. n \in Nat /\ Len(p) \in Nat /\ n <= Len(p) /\ SubSeq(p, 1, n) = c
  <2>1. SubSeq(c, 1, n) = c
    BY <1>3, SubSeqFull DEF Context
  <2> HIDE DEF p, c
  <2> QED BY <1>1, <1>2, <1>3, <2>1, Nothing DEF IsPrefix
<1>6. c # p => n < Len(p)
  <2> SUFFICES ASSUME n = Len(p) PROVE c = p
    BY <1>5
  <2>1. SubSeq(p, 1, Len(p)) = p
    BY <1>1, SubSeqFull DEF Context
  <2> QED BY <1>5, <2>1
<1>7. /\ gen' = [S!Fresh EXCEPT !.shared = TRUE, !.kv = sess.kv, !.rec = sess.rec, !.cps = sess.cps,
                                !.reused = n, !.mtp = mtp, !.h = h, !.tail = tail]
  <2> HIDE DEF p
  <2> QED BY <1>1, SpecOps DEF S!Taken
<1>8. mtp \in Seq(Pairs) /\ h \in Context /\ tail \in AnyTails
  <2>1. /\ sess.mtp \in Seq(Pairs) /\ sess.h \in Context /\ sess.tail \in AnyTails /\ sess.tail.h \in Context
        /\ <<>> \in Context /\ <<>> \in Seq(Pairs)
    BY <1>3, Nothing, EmptyList DEF SpecSessions, AnyTails
  <2> HIDE DEF p, c
  <2> QED BY <2>1, FreshSpec
<1> HIDE DEF mtp, h, tail
<1>9. /\ gen' \in SpecCalls /\ gen'.kv = c /\ gen'.rec = c /\ gen'.cps = sess.cps /\ gen'.reused = n
      /\ gen'.mtp = mtp /\ gen'.h = h /\ gen'.tail = tail /\ gen'.fed = <<>> /\ gen'.window = <<>>
  <2>1. sess.cps \in Seq(AnyMarks)
    BY <1>3 DEF SpecSessions
  <2>2. S!Fresh.fed = <<>> /\ S!Fresh.window = <<>>
    BY DEF S!Fresh
  <2> HIDE DEF c
  <2> QED BY <1>3, <1>5, <1>7, <1>8, <2>1, <2>2, FreshSpec DEF SpecCalls
<1>10. SpecType'
  BY <1>1, <1>4, <1>9, FreshSpec, Nothing DEF SpecType, SpecSession
<1>11. CASE c = p
  <2>1. st' = "first" /\ h = sess.tail.h /\ tail = sess.tail
    BY <1>1, <1>11 DEF h, tail
  <2>2. h = p
    <3>1. sess.tail.h = SubSeq(c, 1, sess.tail.pos) /\ sess.tail.pos = Len(p)
      BY <1>1, <1>3, <1>11, MarksType
    <3> QED BY <1>5, <1>11, <2>1, <3>1
  <2>3. SpecFed' = p
    BY <1>1, <1>9, Nothing DEF SpecFed
  <2>4. SpecCaches'
    BY <1>1, <1>3, <1>9, <1>11, <2>1, <2>2, <2>3 DEF SpecCaches
  <2>5. mode' => RowsOf(mtp, p)
    BY <1>1, <1>3, <1>11, NoRows DEF mtp
  <2>6. SpecDecoding'
    BY <1>1, <1>9, <2>1, <2>3, <2>4, <2>5 DEF SpecDecoding
  <2> QED BY <1>10, <2>1, <2>6 DEF SpecInv, SpecPrefilling, SpecVerifying
<1>12. CASE c # p
  <2>1. st' = "prefill" /\ h = (IF sess.mtpValid THEN sess.h ELSE <<>>)
    BY <1>1, <1>12 DEF h
  <2>2. SpecDone' = n
    <3>1. Len(<<>>) = 0
      BY Nothing
    <3>2. gen'.reused + Len(gen'.window) = n
      BY <1>5, <1>9, <3>1
    <3> QED BY <3>2 DEF SpecDone
  <2>3. mode' => \/ h = <<>> /\ mtp = <<>>
                 \/ h = SubSeq(p, 1, n) /\ h # <<>> /\ RowsOf(mtp, h)
    BY <1>2, <1>3, <1>5, <2>1 DEF mtp
  <2>4. SpecPrefilling'
    <3> HIDE DEF n
    <3> QED BY <1>1, <1>3, <1>5, <1>6, <1>9, <1>12, <2>2, <2>3 DEF SpecPrefilling
  <2> QED BY <1>10, <2>1, <2>4 DEF SpecInv, SpecDecoding, SpecVerifying
<1> QED BY <1>11, <1>12

LEMMA SpecBegin ==
  ASSUME SpecInv, S!Begin
  PROVE  SpecInv' /\ Plain!Ask
BY SpecBeginFresh, SpecBeginTaken, SpecAsks

(* One more checkpoint, further on in the prompt.                          *)
LEMMA MarkAdded ==
  ASSUME NEW p \in Context, NEW k \in 0..Len(p), NEW e \in 0..Len(p), k < e,
         NEW cps, Ladder(cps, Marks(SubSeq(p, 1, k)))
  PROVE  Ladder(W!Final(Append(cps, [pos |-> e, snap |-> SubSeq(p, 1, e)]), Retention),
                Marks(SubSeq(p, 1, e)))
<1> DEFINE x == [pos |-> e, snap |-> SubSeq(p, 1, e)]
           f == SubSeq(p, 1, k)
           t == SubSeq(p, 1, e)
<1>1. /\ Len(p) \in Nat /\ k \in Nat /\ e \in Nat /\ e \in k..Len(p) /\ e \in 1..e
      /\ \A i \in 1..k : i < e
  <2>1. Len(p) \in Nat
    BY Nothing
  <2> DEFINE l == Len(p)
  <2>2. l \in Nat /\ k \in 0..l /\ e \in 0..l /\ k < e
    BY <2>1
  <2> HIDE DEF l
  <2>3. k \in Nat /\ e \in Nat /\ e \in k..l /\ e \in 1..e /\ \A i \in 1..k : i < e
    BY <2>2
  <2> QED BY <2>1, <2>3 DEF l
<1>2. f \in Context /\ Len(f) = k /\ t \in Context /\ Len(t) = e
  BY FirstPart DEF Context
<1>3. SubSeq(t, 1, e) = t
  BY <1>2, SubSeqFull DEF Context
<1>4. Marks(f) \subseteq Marks(t)
  BY <1>1, MarksOfPart
<1>5. \A g \in Marks(f) : g.pos \in 1..Len(f)
  BY <1>2, MarksType
<1> HIDE DEF f, t
<1>6. x \in Marks(t) /\ x.pos = e
  BY <1>1, <1>2, <1>3 DEF Marks, t
<1> HIDE DEF x
<1>7. Ladder(cps, Marks(f)) /\ cps \in Seq(Marks(f))
  BY DEF Ladder, f
<1>8. \A i \in 1..Len(cps) : cps[i] \in Marks(f)
  BY <1>7, LenProperties, ElementOfSeq
<1>9. \A i \in 1..Len(cps) : cps[i].pos < x.pos
  BY <1>1, <1>2, <1>5, <1>6, <1>8
<1>10. Ladder(cps, Marks(t))
  BY <1>4, <1>7, LadderWidens
<1>11. Retention \in Nat
  BY SpecAssumption DEF S!SizesAssumption
<1>12. Ladder(W!Final(Append(cps, x), Retention), Marks(t))
  BY <1>6, <1>9, <1>10, <1>11, LadderGrows
<1> QED BY <1>12 DEF x, t

(* A chunk of the prompt, with or without a checkpoint before its tail.    *)
LEMMA ChunkMarks ==
  ASSUME NEW p \in Context, NEW k \in 0..Len(p), NEW n \in 1..(Len(p) - k),
         NEW cps, Ladder(cps, Marks(SubSeq(p, 1, k))), NEW last
  PROVE  Ladder(S!ChunkCheckpoints(cps, k, SubSeq(p, k + 1, k + n), SubSeq(p, 1, k), last),
                Marks(SubSeq(p, 1, k + n)))
<1> DEFINE f == SubSeq(p, 1, k)
           w == SubSeq(p, k + 1, k + n)
           e == k + n
           t == SubSeq(p, 1, e)
<1>1. /\ w \in Context /\ Len(w) = n /\ e \in 0..Len(p) /\ f \o w = t /\ f \in Context /\ Len(f) = k
      /\ n \in Nat /\ k \in Nat /\ k < e
  <2>1. w \in Context /\ Len(w) = n /\ e \in 0..Len(p) /\ f \o w = t
    BY NextPart
  <2>2. f \in Context /\ Len(f) = k
    BY FirstPart DEF Context
  <2>3. Len(p) \in Nat
    BY Nothing
  <2> DEFINE l == Len(p)
  <2>4. l \in Nat /\ k \in 0..l /\ n \in 1..(l - k)
    BY <2>3
  <2> HIDE DEF l
  <2>5. n \in Nat /\ k \in Nat /\ k < k + n
    BY <2>4
  <2> QED BY <2>1, <2>2, <2>5
<1>2. ASSUME NEW x, NEW pos, NEW snap
      PROVE  Len(Append(x, [pos |-> pos, snap |-> snap])) \in Nat =>
               S!Checkpointed(x, pos, snap) = W!Final(Append(x, [pos |-> pos, snap |-> snap]), Retention)
  <2> DEFINE y == Append(x, [pos |-> pos, snap |-> snap])
             l == Len(y)
  <2>1. Retention \in Nat
    BY SpecAssumption DEF S!SizesAssumption
  <2>2. S!Checkpointed(x, pos, snap) = SubSeq(y, l - S!AtMost(l, Retention) + 1, l)
    BY DEF S!Checkpointed, S!Retained
  <2>3. W!Final(y, Retention) = SubSeq(y, l - W!AtMost(Retention, l) + 1, l)
    BY DEF W!Final
  <2> HIDE DEF l, y
  <2>4. l \in Nat => S!AtMost(l, Retention) = W!AtMost(Retention, l)
    BY <2>1 DEF S!AtMost, W!AtMost
  <2> QED BY <2>2, <2>3, <2>4 DEF y, l
<1>3. ASSUME NEW x, NEW i \in 0..Len(p), NEW j \in 0..Len(p), i < j, Ladder(x, Marks(SubSeq(p, 1, i)))
      PROVE  Ladder(S!Checkpointed(x, j, SubSeq(p, 1, j)), Marks(SubSeq(p, 1, j)))
  <2> DEFINE y == [pos |-> j, snap |-> SubSeq(p, 1, j)]
             M == Marks(SubSeq(p, 1, i))
  <2>1. Ladder(W!Final(Append(x, y), Retention), Marks(SubSeq(p, 1, j)))
    BY <1>3, MarkAdded
  <2>2. Len(Append(x, y)) \in Nat
    <3>1. x \in Seq(M)
      BY <1>3 DEF Ladder
    <3> HIDE DEF M, y
    <3>2. x \in Seq(M \cup {y}) /\ y \in M \cup {y}
      <4>1. Len(x) \in Nat /\ \A m \in 1..Len(x) : x[m] \in M \cup {y}
        BY <3>1, LenProperties, ElementOfSeq
      <4>2. x = [m \in 1..Len(x) |-> x[m]]
        BY <3>1, LenProperties
      <4> QED BY <4>1, <4>2, IsASeq
    <3>3. Append(x, y) \in Seq(M \cup {y})
      BY <3>2, AppendProperties
    <3> QED BY <3>3, LenProperties
  <2> HIDE DEF y
  <2> QED BY <1>2, <2>1, <2>2 DEF y
<1>4. CASE last /\ Len(w) > SpecTail
  <2> DEFINE m == n - SpecTail
             i == k + m
             head == SubSeq(w, 1, m)
  <2>1. m \in 0..n /\ i \in 0..e /\ i \in 0..Len(p) /\ k < i /\ i < e
    <3>1. SpecTail \in Nat \ {0} /\ n > SpecTail
      BY <1>1, <1>4, SpecAssumption DEF S!SizesAssumption
    <3> DEFINE l == Len(p)
    <3>2. l \in Nat /\ e \in 0..l
      BY <1>1, Nothing
    <3> HIDE DEF l
    <3>3. m \in 0..n /\ i \in 0..e /\ i \in 0..l /\ k < i /\ i < e
      BY <1>1, <3>1, <3>2
    <3> QED BY <3>3 DEF l
  <2>2. head \in Context /\ Len(head) = m
    BY <1>1, <2>1, FirstPart DEF Context
  <2>3. f \o head = SubSeq(p, 1, i)
    <3>1. SubSeq(f \o w, 1, Len(f) + m) = f \o head
      <4>1. m \in 0..Len(w)
        BY <1>1, <2>1
      <4> HIDE DEF f, w, m
      <4> QED BY <1>1, <4>1, FirstOfBoth DEF Context
    <3>2. SubSeq(t, 1, i) = SubSeq(p, 1, i)
      <4> HIDE DEF e, i
      <4> QED BY <1>1, <2>1, FirstOfFirst DEF Context
    <3> QED BY <1>1, <3>1, <3>2
  <2>4. S!Drop(w, SpecTail) = head
    BY <1>1, SpecOps
  <2>5. S!ChunkCheckpoints(cps, k, w, f, last) = S!Checkpointed(S!Checkpointed(cps, i, SubSeq(p, 1, i)), e, t)
    <3> HIDE DEF w, f, head, m, e, t
    <3>1. k + Len(head) = i /\ k + Len(w) = e
      BY <1>1, <2>2 DEF e
    <3> HIDE DEF i
    <3>2. S!ChunkCheckpoints(cps, k, w, f, last)
            = S!Checkpointed(S!Checkpointed(cps, k + Len(head), f \o head), k + Len(w), f \o w)
      BY <1>4, <2>4 DEF S!ChunkCheckpoints
    <3>3. f \o head = SubSeq(p, 1, i) /\ f \o w = t
      BY <1>1, <2>3
    <3> QED BY <3>1, <3>2, <3>3
  <2> HIDE DEF i, e
  <2>6. Ladder(S!Checkpointed(cps, i, SubSeq(p, 1, i)), Marks(SubSeq(p, 1, i)))
    BY <1>3, <2>1
  <2>7. Ladder(S!Checkpointed(S!Checkpointed(cps, i, SubSeq(p, 1, i)), e, SubSeq(p, 1, e)), Marks(SubSeq(p, 1, e)))
    BY <1>1, <1>3, <2>1, <2>6
  <2> QED BY <2>5, <2>7 DEF e
<1>5. CASE ~(last /\ Len(w) > SpecTail)
  <2>1. S!ChunkCheckpoints(cps, k, w, f, last) = S!Checkpointed(cps, e, t)
    <3>1. k + Len(w) = e
      BY <1>1
    <3> HIDE DEF w, f, e, t
    <3>2. S!ChunkCheckpoints(cps, k, w, f, last) = S!Checkpointed(cps, k + Len(w), f \o w)
      BY <1>5 DEF S!ChunkCheckpoints
    <3> QED BY <1>1, <3>1, <3>2
  <2> HIDE DEF e
  <2>2. Ladder(S!Checkpointed(cps, e, SubSeq(p, 1, e)), Marks(SubSeq(p, 1, e)))
    BY <1>1, <1>3
  <2> QED BY <2>1, <2>2 DEF e
<1> QED BY <1>4, <1>5

(* The rows of the rest of a context.                                      *)
LEMMA RowsReach ==
  ASSUME NEW p \in Context, NEW r \in 0..Len(p), NEW m, RowsOf(m, SubSeq(p, 1, r)),
         NEW rows, rows = [i \in 1..(Len(p) - r) |-> RowAt(p, r + i)]
  PROVE  RowsOf(m \o rows, p)
<1> DEFINE l == Len(p)
           c == SubSeq(p, 1, r)
           v == SubSeq(p, r + 1, l)
           n == l - r
<1>1. /\ v \in Context /\ Len(v) = n /\ c \o v = p /\ c \in Context /\ Len(c) = r
      /\ l \in Nat /\ n \in Nat /\ r \in Nat
  <2>1. v \in Context /\ Len(v) = n /\ c \o v = p /\ c \in Context /\ Len(c) = r
    BY FirstAndRest, FirstPart DEF Context
  <2>2. l \in Nat
    BY Nothing
  <2> HIDE DEF l
  <2>3. r \in 0..l
    BY DEF l
  <2> QED BY <2>1, <2>2, <2>3
<1>2. \A i \in 1..l : p[i] = IF i <= r THEN c[i] ELSE v[i - r]
  <2>1. \A i \in 1..(Len(c) + Len(v)) : (c \o v)[i] = IF i <= Len(c) THEN c[i] ELSE v[i - Len(c)]
    BY <1>1, ConcatProperties DEF Context
  <2> HIDE DEF c, v, l
  <2>2. Len(c) + Len(v) = l
    BY <1>1
  <2> QED BY <1>1, <2>1, <2>2
<1>3. \A k \in 0..n : SubSeq(p, 1, r + k) = c \o SubSeq(v, 1, k)
  <2> HIDE DEF c, v, n
  <2>1. \A k \in 0..Len(v) : SubSeq(c \o v, 1, Len(c) + k) = c \o SubSeq(v, 1, k)
    BY <1>1, FirstOfBoth DEF Context
  <2> QED BY <1>1, <2>1
<1> HIDE DEF c, v
<1>4. ASSUME NEW k \in 1..n
      PROVE  rows[k] = RowAfter(v, c, k) /\ rows[k] \in Pairs
  <2>1. r + k \in 1..l /\ k - 1 \in 0..n /\ r + (k - 1) = r + k - 1 /\ ~(r + k <= r) /\ (r + k) - r = k
    <3> HIDE DEF l
    <3> QED BY <1>1
  <2>2. rows[k] = RowAt(p, r + k)
    OBVIOUS
  <2>3. p[r + k] = v[k] /\ SubSeq(p, 1, r + k - 1) = c \o SubSeq(v, 1, k - 1)
    <3>1. p[r + k] = v[k]
      BY <1>2, <2>1
    <3>2. SubSeq(p, 1, r + (k - 1)) = c \o SubSeq(v, 1, k - 1)
      BY <1>3, <2>1
    <3> QED BY <2>1, <3>1, <3>2
  <2>4. RowAt(p, r + k) = RowAfter(v, c, k)
    BY <2>3 DEF RowAt, RowAfter
  <2>5. RowAt(p, r + k) \in Pairs
    <3> DEFINE j == r + k
    <3>1. p[j] \in Token
      BY <2>1, ElementOfSeq DEF Context
    <3>2. j - 1 \in 0..Len(p)
      <4> HIDE DEF j
      <4>1. j \in 1..l
        BY <2>1 DEF j
      <4>2. j - 1 \in 0..l
        BY <1>1, <4>1
      <4> QED BY <4>2 DEF l
    <3>3. SubSeq(p, 1, j - 1) \in Context
      BY <3>2, FirstPart DEF Context
    <3> DEFINE y == p[j]
               z == SubSeq(p, 1, j - 1)
    <3>4. y \in Token /\ z \in Context
      BY <3>1, <3>3
    <3>5. RowAt(p, j) = <<y, z>>
      BY DEF RowAt
    <3> HIDE DEF y, z, j
    <3>6. <<y, z>> \in Pairs
      BY <3>4 DEF Pairs
    <3> QED BY <3>5, <3>6 DEF j
  <2> QED BY <2>2, <2>4, <2>5
<1>5. rows \in Seq(Pairs) /\ Len(rows) = n
  <2>1. rows = [k \in 1..n |-> RowAt(p, r + k)]
    OBVIOUS
  <2>2. rows \in [1..n -> Pairs]
    BY <1>4, <2>1
  <2> DEFINE z == rows
  <2> HIDE DEF n, z
  <2>3. n \in Nat /\ z \in [1..n -> Pairs]
    BY <1>1, <2>2 DEF z
  <2>4. z \in Seq(Pairs) /\ Len(z) = n
    BY <2>3
  <2> QED BY <2>4 DEF z
<1>6. NewRows(rows, v, c)
  BY <1>1, <1>4, <1>5 DEF NewRows
<1>7. RowsOf(m \o rows, c \o v)
  BY <1>6, RowsGrow DEF c
<1> QED BY <1>1, <1>7

LEMMA PrefilledRows ==
  ASSUME prompt \in Context, NEW g, g.reused \in Nat, g.reused < Len(prompt),
         g.kv = prompt, g.rec = prompt,
         \/ g.h = <<>> /\ g.mtp = <<>>
         \/ g.h = SubSeq(prompt, 1, g.reused) /\ g.h # <<>> /\ RowsOf(g.mtp, g.h)
  PROVE  RowsOf(g.mtp \o S!PrefillRows(g), prompt)
<1> DEFINE l == Len(prompt)
           r == g.reused
           from == IF g.h = <<>> THEN r + 2 ELSE r + 1
           n == l - from + 1
           rows == S!PrefillRows(g)
<1>1. l \in Nat /\ r \in Nat /\ r < l
  BY Nothing
<1>2. n \in Nat /\ from \in Nat /\ from - 1 + n = l /\ from >= r + 1 /\ (g.h = <<>> => from = r + 2)
  <2> HIDE DEF l, r
  <2> QED BY <1>1
<1>3. rows = [i \in 1..n |-> <<prompt[from + i - 1],
                               IF from + i - 1 = r + 1 THEN g.h
                               ELSE S!Hidden(g.kv, g.rec, l - ((from + i - 1) - 1))>>]
  BY SpecOps DEF S!PrefillRows
<1> HIDE DEF l, r, n, rows
<1>4. ASSUME NEW i \in 1..n
      PROVE  rows[i] = RowAt(prompt, (from - 1) + i)
  <2> DEFINE j == from + i - 1
  <2>1. j \in (r + 1)..l /\ j = (from - 1) + i /\ l - (l - (j - 1)) = j - 1
    BY <1>1, <1>2
  <2>2. rows[i] = <<prompt[j], IF j = r + 1 THEN g.h ELSE S!Hidden(g.kv, g.rec, l - (j - 1))>>
    BY <1>3
  <2> HIDE DEF j
  <2>3. CASE j = r + 1
    <3>1. from = r + 1 /\ j - 1 = r
      BY <1>1, <1>2, <2>1, <2>3 DEF j
    <3>2. g.h # <<>>
      BY <1>1, <1>2, <3>1
    <3>3. g.h = SubSeq(prompt, 1, j - 1)
      BY <3>1, <3>2 DEF r
    <3>4. RowAt(prompt, j) = <<prompt[j], g.h>>
      BY <3>3 DEF RowAt
    <3> QED BY <2>1, <2>2, <2>3, <3>4
  <2>4. CASE j # r + 1
    <3>1. S!Hidden(g.kv, g.rec, l - (j - 1)) = SubSeq(prompt, 1, l - (l - (j - 1)))
      BY SpecOps DEF l
    <3>2. RowAt(prompt, j) = <<prompt[j], S!Hidden(g.kv, g.rec, l - (j - 1))>>
      BY <2>1, <3>1 DEF RowAt
    <3> QED BY <2>1, <2>2, <2>4, <3>2
  <2> QED BY <2>3, <2>4
<1>5. CASE g.h # <<>>
  <2>1. from = r + 1 /\ from - 1 = r /\ n = l - r /\ r \in 0..l
    BY <1>1, <1>2, <1>5 DEF n
  <2>2. rows = [i \in 1..(l - r) |-> RowAt(prompt, r + i)]
    <3>1. rows = [i \in 1..n |-> rows[i]]
      BY <1>3
    <3>2. \A i \in 1..(l - r) : rows[i] = RowAt(prompt, r + i)
      BY <1>4, <2>1
    <3> QED BY <2>1, <3>1, <3>2
  <2>3. RowsOf(g.mtp, SubSeq(prompt, 1, r))
    BY <1>5 DEF r
  <2>4. RowsOf(g.mtp \o rows, prompt)
    BY <2>1, <2>2, <2>3, RowsReach DEF l
  <2> QED BY <2>4 DEF rows
<1>6. CASE g.h = <<>>
  <2>1. from = r + 2 /\ from - 1 = r + 1 /\ n = l - (r + 1) /\ r + 1 \in 0..l /\ r + 1 # 0
    BY <1>1, <1>2, <1>6 DEF n
  <2> DEFINE k == r + 1
             c == SubSeq(prompt, 1, k)
  <2>2. rows = [i \in 1..(l - k) |-> RowAt(prompt, k + i)]
    <3>1. rows = [i \in 1..n |-> rows[i]]
      BY <1>3
    <3>2. \A i \in 1..(l - k) : rows[i] = RowAt(prompt, k + i)
      BY <1>4, <2>1
    <3> QED BY <2>1, <3>1, <3>2
  <2> HIDE DEF k
  <2>3. c \in Context /\ Len(c) = k
    BY <2>1, FirstPart DEF Context, k, l
  <2>4. c # <<>>
    BY <2>1, <2>3, Nothing DEF k
  <2>5. RowsOf(<<>>, c)
    BY <2>3, <2>4, NoRows
  <2>6. RowsOf(<<>> \o rows, prompt)
    BY <2>1, <2>2, <2>5, RowsReach DEF k, l
  <2>7. g.mtp = <<>>
    BY <1>6
  <2> QED BY <2>6, <2>7 DEF rows
<1> QED BY <1>5, <1>6

LEMMA SpecPrefill ==
  ASSUME SpecInv, S!Prefill
  PROVE  SpecInv' /\ UNCHANGED <<prompt, budget, out>>
<1> DEFINE k == SpecDone
           l == Len(prompt)
           n == S!AtMost(k + PrefillStep, l) - k
           chunk == SubSeq(prompt, k + 1, k + n)
           f == SubSeq(prompt, 1, k)
           t == SubSeq(prompt, 1, k + n)
           last == k + Len(chunk) = l
           cps == S!ChunkCheckpoints(gen.cps, k, chunk, gen.rec, last)
           g == [gen EXCEPT !.kv = @ \o chunk, !.rec = @ \o chunk, !.cps = cps]
           h == S!Hidden(g.kv, g.rec, 0)
           mtp == IF mode THEN g.mtp \o S!PrefillRows(g) ELSE g.mtp
<1>1. /\ SpecType /\ st = "prefill" /\ UNCHANGED <<sess, prompt, budget, mode, out>>
      /\ prompt # <<>> /\ out = <<>> /\ gen.fed = <<>> /\ k < l
      /\ gen.kv = f /\ gen.rec = f /\ Ladder(gen.cps, Marks(f))
      /\ mode => \/ gen.h = <<>> /\ gen.mtp = <<>>
                 \/ gen.h = SubSeq(prompt, 1, gen.reused) /\ gen.h # <<>> /\ RowsOf(gen.mtp, gen.h)
  BY DEF S!Prefill, SpecInv, SpecPrefilling
<1>2. gen \in SpecCalls /\ prompt \in Context /\ mode \in BOOLEAN
  BY <1>1 DEF SpecType
<1>3. /\ gen.reused \in Nat /\ gen.window \in Context /\ Len(gen.window) \in Nat
      /\ k = gen.reused + Len(gen.window) /\ l \in Nat /\ PrefillStep \in Nat \ {0}
  BY <1>2, Nothing, SpecAssumption DEF SpecCalls, SpecDone, S!SizesAssumption
<1>4. k \in 0..l /\ n \in 1..(l - k) /\ k + n = S!AtMost(k + PrefillStep, l) /\ k \in Nat /\ gen.reused < l
  <2> DEFINE r == gen.reused
             w == Len(gen.window)
  <2>1. k < l /\ k = r + w /\ r \in Nat /\ w \in Nat /\ l \in Nat /\ PrefillStep \in Nat \ {0}
    BY <1>1, <1>3
  <2> HIDE DEF k, l, r, w
  <2>2. k \in 0..l /\ n \in 1..(l - k) /\ k + n = S!AtMost(k + PrefillStep, l) /\ k \in Nat /\ r < l
    BY <2>1 DEF S!AtMost
  <2> QED BY <2>2 DEF r
<1>5. chunk = SubSeq(prompt, (gen.reused + Len(gen.window)) + 1,
                     S!AtMost((gen.reused + Len(gen.window)) + PrefillStep, Len(prompt)))
  BY <1>3, <1>4
<1>6. /\ IF last THEN /\ gen' = [g EXCEPT !.mtp = mtp, !.h = h, !.tail = [pos |-> l, h |-> h],
                                          !.window = <<>>]
                      /\ st' = "first"
                 ELSE /\ gen' = [g EXCEPT !.window = @ \o chunk]
                      /\ st' = "prefill"
  <2>1. gen.reused + Len(gen.window) = k
    BY <1>3
  <2> HIDE DEF k, n
  <2>2. SubSeq(prompt, k + 1, S!AtMost(k + PrefillStep, Len(prompt))) = chunk
    BY <1>5, <2>1
  <2> HIDE DEF chunk
  <2> QED BY <2>1, <2>2 DEF S!Prefill
<1> HIDE DEF k, n
<1>7. /\ chunk \in Context /\ Len(chunk) = n /\ chunk # <<>> /\ k + n \in 0..l /\ f \o chunk = t
      /\ f \in Context /\ Len(f) = k /\ t \in Context /\ Len(t) = k + n
  <2>1. chunk \in Context /\ Len(chunk) = n /\ chunk # <<>> /\ k + n \in 0..l /\ f \o chunk = t
    BY <1>2, <1>4, NextPart
  <2>2. f \in Context /\ Len(f) = k /\ t \in Context /\ Len(t) = k + n
    BY <1>2, <1>4, <2>1, FirstPart DEF Context
  <2> QED BY <2>1, <2>2
<1>8. Ladder(cps, Marks(t)) /\ cps \in Seq(AnyMarks)
  <2>1. gen.rec = f
    BY <1>1
  <2> HIDE DEF last
  <2>2. Ladder(cps, Marks(t))
    BY <1>1, <1>2, <1>4, <2>1, ChunkMarks
  <2>3. Ladder(cps, AnyMarks)
    BY <1>7, <2>2, LadderWidens, MarksType
  <2> QED BY <2>2, <2>3 DEF Ladder
<1> HIDE DEF chunk, f, t, cps
<1>9. /\ g \in SpecCalls /\ g.kv = t /\ g.rec = t /\ g.cps = cps /\ g.reused = gen.reused /\ g.fed = <<>>
      /\ g.mtp = gen.mtp /\ g.h = gen.h /\ g.window = gen.window /\ g.shared = gen.shared
  <2>1. g = [gen EXCEPT !.kv = t, !.rec = t, !.cps = cps]
    BY <1>1, <1>7
  <2> HIDE DEF g
  <2> QED BY <1>1, <1>2, <1>7, <1>8, <2>1 DEF SpecCalls
<1> HIDE DEF g
<1>10. CASE last
  <2>1. k + n = l /\ t = prompt
    <3>1. SubSeq(prompt, 1, Len(prompt)) = prompt
      BY <1>2, SubSeqFull DEF Context
    <3>2. k + n = l
      BY <1>7, <1>10
    <3> QED BY <3>1, <3>2 DEF t
  <2>2. h = prompt
    <3>1. h = SubSeq(prompt, 1, Len(prompt) - 0)
      BY <1>9, <2>1, SpecOps
    <3>2. Len(prompt) - 0 = Len(prompt)
      BY <1>3
    <3> QED BY <1>2, <3>1, <3>2, SubSeqFull DEF Context
  <2>3. mode => RowsOf(mtp, prompt)
    <3> SUFFICES ASSUME mode PROVE RowsOf(mtp, prompt)
      OBVIOUS
    <3>1. g.reused \in Nat /\ g.reused < Len(prompt) /\ g.kv = prompt /\ g.rec = prompt
      BY <1>3, <1>4, <1>9, <2>1
    <3>2. \/ g.h = <<>> /\ g.mtp = <<>>
          \/ g.h = SubSeq(prompt, 1, g.reused) /\ g.h # <<>> /\ RowsOf(g.mtp, g.h)
      BY <1>1, <1>9
    <3>3. RowsOf(g.mtp \o S!PrefillRows(g), prompt)
      BY <1>2, <3>1, <3>2, PrefilledRows
    <3> QED BY <3>3
  <2> DEFINE tail == [pos |-> l, h |-> prompt]
  <2>4. tail \in Tails(prompt) /\ tail \in AnyTails
    <3>1. l \in 0..Len(prompt) /\ SubSeq(prompt, 1, l) = prompt
      BY <1>2, <1>3, SubSeqFull DEF Context
    <3>2. tail \in Tails(prompt)
      <4>1. [pos |-> l, h |-> SubSeq(prompt, 1, l)] \in Tails(prompt)
        BY <3>1 DEF Tails
      <4> QED BY <3>1, <4>1
    <3> QED BY <1>2, <3>2, MarksType
  <2>5. mtp \in Seq(Pairs)
    <3>1. gen.mtp \in Seq(Pairs)
      BY <1>2 DEF SpecCalls
    <3> QED BY <1>9, <2>3, <3>1 DEF RowsOf
  <2> HIDE DEF mtp, tail
  <2>6. gen' = [g EXCEPT !.mtp = mtp, !.h = prompt, !.tail = tail, !.window = <<>>] /\ st' = "first"
    BY <1>6, <1>10, <2>2 DEF tail
  <2>7. /\ gen' \in SpecCalls /\ gen'.kv = prompt /\ gen'.rec = prompt /\ gen'.cps = cps /\ gen'.fed = <<>>
        /\ gen'.mtp = mtp /\ gen'.h = prompt /\ gen'.tail = tail /\ gen'.shared = gen.shared
    BY <1>2, <1>9, <2>1, <2>4, <2>5, <2>6, Nothing DEF SpecCalls
  <2>8. SpecType'
    BY <1>1, <2>6, <2>7 DEF SpecType, SpecSession
  <2>9. SpecFed' = prompt
    BY <1>1, <1>2, <2>7, Nothing DEF SpecFed
  <2>10. SpecCaches'
    BY <1>1, <1>8, <2>1, <2>4, <2>7, <2>9 DEF SpecCaches
  <2>11. SpecDecoding'
    BY <1>1, <2>3, <2>6, <2>7, <2>9, <2>10 DEF SpecDecoding
  <2> QED BY <1>1, <2>6, <2>8, <2>11 DEF SpecInv, SpecPrefilling, SpecVerifying
<1>11. CASE ~last
  <2> DEFINE w == gen.window \o chunk
  <2>1. gen' = [g EXCEPT !.window = w] /\ st' = "prefill"
    BY <1>6, <1>9, <1>11
  <2>2. w \in Context /\ Len(w) = Len(gen.window) + n
    BY <1>3, <1>7, Joined
  <2> HIDE DEF w
  <2>3. /\ gen' \in SpecCalls /\ gen'.kv = t /\ gen'.rec = t /\ gen'.cps = cps /\ gen'.fed = <<>>
        /\ gen'.mtp = gen.mtp /\ gen'.h = gen.h /\ gen'.reused = gen.reused /\ gen'.window = w
        /\ gen'.shared = gen.shared
    BY <1>9, <2>1, <2>2 DEF SpecCalls
  <2>4. SpecDone' = k + n
    <3>1. SpecDone' = gen.reused + Len(w)
      BY <2>3 DEF SpecDone
    <3>2. gen.reused + (Len(gen.window) + n) = (gen.reused + Len(gen.window)) + n
      BY <1>3, <1>4
    <3> QED BY <1>3, <2>2, <3>1, <3>2
  <2>5. k + n < l
    <3>1. k + n # l
      BY <1>7, <1>11
    <3>2. k + n \in 0..l /\ l \in Nat
      BY <1>3, <1>7
    <3> HIDE DEF l
    <3> QED BY <3>1, <3>2
  <2>6. SpecType'
    BY <1>1, <2>1, <2>3 DEF SpecType, SpecSession
  <2>7. SpecPrefilling'
    BY <1>1, <1>8, <2>3, <2>4, <2>5 DEF SpecPrefilling, t
  <2> QED BY <1>1, <2>1, <2>6, <2>7 DEF SpecInv, SpecDecoding, SpecVerifying
<1> QED BY <1>10, <1>11

LEMMA SpecFirstToken ==
  ASSUME Speaks, SpecInv, S!FirstToken
  PROVE  SpecInv' /\ Plain!Emit
<1>1. /\ st = "first" /\ st' = "decode" /\ budget > 0 /\ (\E y \in Drawn(gen.h) : out' = <<y>>)
      /\ UNCHANGED <<sess, prompt, budget, mode, gen>>
  BY SpecOps DEF S!FirstToken
<1>2. /\ SpecType /\ SpecCaches /\ out = <<>> /\ gen.fed = <<>> /\ (mode => RowsOf(gen.mtp, SpecFed))
      /\ prompt \in Context /\ prompt # <<>> /\ budget \in Nat
  BY <1>1 DEF SpecInv, SpecDecoding, SpecType, SpecCaches
<1>3. SpecFed = prompt /\ SpecFed' = prompt /\ gen.h = prompt
  BY <1>1, <1>2, Nothing DEF SpecFed, SpecCaches
<1>4. PICK y \in Drawn(prompt) : out' = <<y>>
  BY <1>1, <1>3
<1>5. <<y>> \in Context /\ y \in Token /\ EmitOf(prompt, budget, <<>>, <<y>>)
  <2>1. budget \in Nat \ {0}
    BY <1>1, <1>2
  <2> QED BY <1>2, <2>1, FirstEmits
<1>6. /\ out' \in Context /\ out' # <<>> /\ Len(out') = 1 /\ Len(out') <= budget /\ out'[Len(out')] = y
      /\ <<>> \o <<y>> = <<y>>
  <2>1. Len(<<y>>) = 1 /\ <<y>> # <<>> /\ <<y>>[1] = y
    OBVIOUS
  <2>2. 1 <= budget
    BY <1>1, <1>2
  <2>3. <<>> \o <<y>> = <<y>>
    BY <1>5, Nothing
  <2> QED BY <1>4, <1>5, <2>1, <2>2, <2>3
<1>7. SpecSaid'
  BY <1>1, <1>2, <1>4, <1>6 DEF SpecSaid
<1>8. SpecCaches'
  BY <1>1, <1>2, <1>3 DEF SpecCaches
<1>9. SpecType'
  BY <1>1, <1>2, <1>6 DEF SpecType, SpecSession
<1>10. Plain!Emit
  BY <1>1, <1>2, <1>4, <1>5, PlainEmit
<1>11. SpecDecoding'
  BY <1>1, <1>2, <1>3, <1>7, <1>8 DEF SpecDecoding
<1> QED BY <1>1, <1>9, <1>10, <1>11 DEF SpecInv, SpecPrefilling, SpecVerifying

(***************************************************************************)
(* A round of it: propose                                                  *)
(***************************************************************************)
LEMMA SpecProposed ==
  ASSUME SpecInv, NEW drafts \in Context, NEW rows \in Seq(Pairs), S!Proposed(drafts, rows),
         Len(drafts) <= budget - Len(out) - 1,
         rows # <<>> => rows[1] = <<out[Len(out)], gen.h>>
  PROVE  SpecInv' /\ UNCHANGED <<prompt, budget, out>>
<1> DEFINE z == out[Len(out)]
           w == <<z>> \o drafts
           m == gen.mtp \o rows
           n == Len(gen.mtp)
<1>1. /\ st = "decode" /\ SpecMore /\ st' = "verify"
      /\ gen' = [gen EXCEPT !.window = w, !.off = n, !.mtp = m]
      /\ UNCHANGED <<sess, prompt, budget, mode, out>>
  BY SpecOps DEF S!Proposed, S!More, SpecMore
<1>2. SpecType /\ SpecCaches /\ SpecSaid /\ (mode => RowsOf(gen.mtp, SpecFed))
  BY <1>1 DEF SpecInv, SpecDecoding
<1>3. gen \in SpecCalls /\ gen.mtp \in Seq(Pairs) /\ out \in Context /\ out # <<>>
  BY <1>2 DEF SpecType, SpecCalls, SpecSaid
<1>4. w \in Context
  <2>1. z \in Token
    BY <1>3, LastApart
  <2>2. <<z>> \in Context
    BY <2>1 DEF Context
  <2> HIDE DEF z
  <2> QED BY <2>2, Joined
<1>5. /\ m \in Seq(Pairs) /\ Len(m) = n + Len(rows) /\ n \in Nat /\ Len(rows) \in Nat
      /\ \A i \in 1..(n + Len(rows)) : m[i] = IF i <= n THEN gen.mtp[i] ELSE rows[i - n]
  BY <1>3, ConcatProperties, LenProperties
<1>6. SubSeq(m, 1, n) = gen.mtp
  <2>1. n \in 0..n
    BY <1>5
  <2>2. SubSeq(m, 1, n) = SubSeq(gen.mtp, 1, n)
    BY <1>3, <2>1, FirstOfConcat
  <2> QED BY <1>3, <2>2, SubSeqFull
<1>7. n < Len(m) => m[n + 1] = <<z, gen.h>>
  <2> SUFFICES ASSUME n < Len(m) PROVE m[n + 1] = <<z, gen.h>>
    OBVIOUS
  <2> DEFINE k == Len(rows)
  <2>1. k # 0 /\ k \in Nat
    BY <1>5
  <2>2. rows # <<>>
    <3> SUFFICES ASSUME rows = <<>> PROVE FALSE
      OBVIOUS
    <3> QED BY <2>1
  <2>3. n \in Nat /\ \A i \in 1..(n + k) : m[i] = IF i <= n THEN gen.mtp[i] ELSE rows[i - n]
    BY <1>5
  <2> HIDE DEF n, m, k
  <2>4. n + 1 \in 1..(n + k) /\ ~(n + 1 <= n) /\ (n + 1) - n = 1
    BY <2>1, <2>3
  <2>5. m[n + 1] = rows[1]
    BY <2>3, <2>4
  <2> QED BY <2>2, <2>5
<1> HIDE DEF w, m, n
<1>8. /\ gen' \in SpecCalls /\ gen'.window = w /\ gen'.off = n /\ gen'.mtp = m /\ gen'.kv = gen.kv
      /\ gen'.rec = gen.rec /\ gen'.h = gen.h /\ gen'.cps = gen.cps /\ gen'.tail = gen.tail
      /\ gen'.fed = gen.fed /\ gen'.shared = gen.shared
  BY <1>1, <1>3, <1>4, <1>5 DEF SpecCalls
<1>9. SpecFed' = SpecFed
  BY <1>1, <1>8 DEF SpecFed
<1>10. SpecCaches'
  BY <1>1, <1>2, <1>8, <1>9 DEF SpecCaches
<1>11. SpecSaid' /\ SpecMore'
  BY <1>1, <1>2, <1>8 DEF SpecSaid, SpecMore
<1>12. SpecType'
  BY <1>1, <1>2, <1>8 DEF SpecType, SpecSession
<1>13. mode' => /\ gen'.off <= Len(gen'.mtp)
                /\ RowsOf(SubSeq(gen'.mtp, 1, gen'.off), SpecFed')
                /\ gen'.off < Len(gen'.mtp) => gen'.mtp[gen'.off + 1] = <<z, gen'.h>>
  <2>1. n <= Len(m)
    BY <1>5 DEF n, m
  <2> HIDE DEF z
  <2> QED BY <1>1, <1>2, <1>6, <1>7, <1>8, <1>9, <2>1
<1>14. SpecVerifying'
  <2>1. /\ gen'.window = <<out'[Len(out')]>> \o drafts
        /\ Len(drafts) <= budget' - Len(out') - 1
    BY <1>1, <1>8 DEF w
  <2>2. out'[Len(out')] = z
    BY <1>1
  <2> QED BY <1>10, <1>11, <1>13, <2>1, <2>2 DEF SpecVerifying, SpecRows
<1> QED BY <1>1, <1>12, <1>14 DEF SpecInv, SpecPrefilling, SpecDecoding

LEMMA GuessFacts ==
  ASSUME NEW lo \in Nat, NEW hi \in Int, NEW d \in S!Guesses(lo, hi)
  PROVE  d \in Context /\ Len(d) \in Nat /\ Len(d) >= lo /\ Len(d) <= hi
<1>1. PICK n \in lo..hi : d \in [1..n -> Token]
  BY DEF S!Guesses
<1>2. n \in Nat /\ n >= lo /\ n <= hi
  OBVIOUS
<1>3. d \in Seq(Token) /\ Len(d) = n
  BY <1>1, <1>2
<1> QED BY <1>2, <1>3 DEF Context

LEMMA SpecRoom ==
  ASSUME SpecInv, S!More
  PROVE  /\ S!ProposalCap \in Nat /\ S!ProposalCap = budget - Len(out) - 1 /\ LookupLen \in Nat
         /\ S!Cap \in Nat /\ S!Cap <= S!ProposalCap
<1>1. Len(out) < budget /\ budget \in Nat /\ Len(out) \in Nat /\ LookupLen \in Nat /\ DraftCap \in Nat
  BY Nothing, SpecAssumption DEF S!More, SpecInv, SpecType, S!SizesAssumption
<1> DEFINE l == Len(out)
           c == S!ProposalCap
<1>2. c = budget - l - 1
  BY DEF S!ProposalCap
<1> HIDE DEF l
<1> HIDE DEF c
<1>3. c \in Nat
  BY <1>1, <1>2 DEF l
<1>4. S!Cap = IF mode THEN S!AtMost(DraftCap, c) ELSE 0
  BY DEF S!Cap, c
<1>5. S!Cap \in Nat /\ S!Cap <= c
  BY <1>1, <1>3, <1>4 DEF S!AtMost
<1> QED BY <1>1, <1>2, <1>3, <1>5 DEF c, l

LEMMA SpecPropose ==
  ASSUME SpecInv, S!ProposeLookup \/ S!ProposeExtended \/ S!ProposeChain
  PROVE  SpecInv' /\ UNCHANGED <<prompt, budget, out>>
<1> DEFINE z == out[Len(out)]
<1>1. S!More /\ st = "decode"
  BY DEF S!ProposeLookup, S!ProposeExtended, S!ProposeChain, S!Proposed
<1>2. /\ S!ProposalCap \in Nat /\ S!ProposalCap = budget - Len(out) - 1 /\ LookupLen \in Nat
      /\ S!Cap \in Nat /\ S!Cap <= S!ProposalCap
  BY <1>1, SpecRoom
<1>3. z \in Token /\ gen.h \in Context
  <2>1. out # <<>> /\ out \in Context
    BY <1>1 DEF SpecInv, SpecDecoding, SpecSaid, SpecType
  <2> QED BY <2>1, LastApart DEF SpecInv, SpecType, SpecCalls
<1>4. S!Last(out) = z
  BY SpecOps
<1> HIDE DEF z
<1>5. CASE S!ProposeLookup
  <2>1. PICK d \in S!Guesses(1, S!AtMost(LookupLen, S!ProposalCap)) : S!Proposed(d, <<>>)
    BY <1>5 DEF S!ProposeLookup
  <2>2. S!AtMost(LookupLen, S!ProposalCap) \in Int /\ S!AtMost(LookupLen, S!ProposalCap) <= S!ProposalCap
    BY <1>2 DEF S!AtMost
  <2>3. d \in Context /\ Len(d) \in Nat /\ Len(d) <= S!AtMost(LookupLen, S!ProposalCap)
    <3> HIDE DEF S!AtMost
    <3> QED BY <2>2, GuessFacts
  <2>4. Len(d) <= budget - Len(out) - 1
    BY <1>2, <2>2, <2>3
  <2>5. <<>> \in Seq(Pairs)
    BY EmptyList
  <2> QED BY <2>1, <2>3, <2>4, <2>5, SpecProposed
<1>6. CASE S!ProposeExtended
  <2> DEFINE hi == S!AtMost(LookupLen, S!ProposalCap - 1) + 1
             rows == <<<<z, gen.h>>>>
  <2>1. PICK d \in S!Guesses(2, hi) : S!Proposed(d, rows)
    BY <1>4, <1>6 DEF S!ProposeExtended
  <2>2. hi \in Int /\ hi <= S!ProposalCap
    BY <1>2 DEF S!AtMost
  <2> HIDE DEF hi
  <2>3. d \in Context /\ Len(d) \in Nat /\ Len(d) <= hi
    BY <2>2, GuessFacts
  <2>4. Len(d) <= budget - Len(out) - 1
    BY <1>2, <2>2, <2>3
  <2>5. rows \in Seq(Pairs) /\ rows[1] = <<z, gen.h>>
    <3> DEFINE x == <<z, gen.h>>
    <3>1. x \in Pairs
      BY <1>3 DEF Pairs
    <3> HIDE DEF x
    <3>2. <<x>> \in Seq(Pairs) /\ <<x>>[1] = x
      BY <3>1
    <3> QED BY <3>2 DEF x
  <2> HIDE DEF rows
  <2> QED BY <2>1, <2>3, <2>4, <2>5, SpecProposed DEF z
<1>7. CASE S!ProposeChain
  <2>1. PICK links \in S!Guesses(0, S!Cap), drawn \in {0, S!Cap} :
          LET n == IF drawn < Len(links) THEN Len(links) ELSE drawn
          IN  S!Proposed(links, [i \in 1..n |->
                           IF i = 1 THEN <<z, gen.h>>
                           ELSE <<IF i - 1 <= Len(links) THEN links[i - 1] ELSE z, <<>>>>])
    BY <1>4, <1>7, SpecOps DEF S!ProposeChain
  <2> DEFINE n == IF drawn < Len(links) THEN Len(links) ELSE drawn
             rows == [i \in 1..n |->
                       IF i = 1 THEN <<z, gen.h>>
                       ELSE <<IF i - 1 <= Len(links) THEN links[i - 1] ELSE z, <<>>>>]
  <2>2. S!Proposed(links, rows)
    BY <2>1
  <2>3. links \in Context /\ Len(links) \in Nat /\ Len(links) <= S!Cap
    BY <1>2, GuessFacts
  <2>4. n \in Nat
    BY <1>2, <2>3
  <2> HIDE DEF n
  <2>5. \A i \in 1..n : rows[i] \in Pairs
    <3> SUFFICES ASSUME NEW i \in 1..n PROVE rows[i] \in Pairs
      OBVIOUS
    <3> DEFINE t == IF i - 1 <= Len(links) THEN links[i - 1] ELSE z
    <3>1. CASE i = 1
      <4>1. rows[i] = <<z, gen.h>>
        BY <3>1
      <4>2. <<z, gen.h>> \in Pairs
        BY <1>3 DEF Pairs
      <4> QED BY <4>1, <4>2
    <3>2. CASE i # 1
      <4>1. rows[i] = <<t, <<>>>>
        BY <3>2
      <4>2. t \in Token
        <5>1. i - 1 \in Nat \ {0}
          BY <2>4, <3>2
        <5>2. i - 1 <= Len(links) => i - 1 \in 1..Len(links)
          BY <2>3, <5>1
        <5>3. \A j \in 1..Len(links) : links[j] \in Token
          BY <2>3, ElementOfSeq DEF Context
        <5> QED BY <1>3, <5>2, <5>3
      <4>3. <<>> \in Context
        BY Nothing
      <4> HIDE DEF t
      <4>4. <<t, <<>>>> \in Pairs
        BY <4>2, <4>3 DEF Pairs
      <4> QED BY <4>1, <4>4
    <3> QED BY <3>1, <3>2
  <2>6. rows \in Seq(Pairs) /\ (rows # <<>> => rows[1] = <<z, gen.h>>)
    <3>1. rows \in [1..n -> Pairs]
      BY <2>5
    <3>2. 1 \in 1..n => rows[1] = <<z, gen.h>>
      OBVIOUS
    <3> HIDE DEF rows
    <3>3. rows \in Seq(Pairs) /\ Len(rows) = n
      BY <2>4, <3>1
    <3>4. rows # <<>> => n # 0
      BY <3>3, EmptySeq
    <3>5. n # 0 => 1 \in 1..n
      BY <2>4
    <3> QED BY <3>2, <3>3, <3>4, <3>5
  <2> HIDE DEF rows
  <2>7. Len(links) <= budget - Len(out) - 1
    <3> DEFINE c == S!ProposalCap
               x == Len(links)
               y == S!Cap
    <3>1. c \in Nat /\ x \in Nat /\ y \in Nat /\ x <= y /\ y <= c /\ c = budget - Len(out) - 1
      BY <1>2, <2>3
    <3> HIDE DEF c, x, y
    <3>2. x <= c
      BY <3>1
    <3> QED BY <3>1, <3>2 DEF x
  <2> QED BY <2>2, <2>3, <2>6, <2>7, SpecProposed DEF z
<1> QED BY <1>5, <1>6, <1>7, SMTT(30)

(***************************************************************************)
(* A round of it: verify                                                   *)
(***************************************************************************)
(* The drafts of a window, after the token to feed next.                   *)
LEMMA WindowParts ==
  ASSUME NEW z \in Token, NEW d \in Context
  PROVE  /\ <<z>> \o d \in Context /\ Len(<<z>> \o d) = Len(d) + 1 /\ Len(d) \in Nat
         /\ (<<z>> \o d)[1] = z
         /\ \A i \in 1..Len(d) : (<<z>> \o d)[i + 1] = d[i]
         /\ \A k \in 0..Len(d) : SubSeq(<<z>> \o d, 2, k + 1) = SubSeq(d, 1, k)
<1> DEFINE v == <<z>>
           w == v \o d
           l == Len(d)
<1>1. v \in Context /\ Len(v) = 1 /\ v[1] = z /\ l \in Nat
  BY Nothing DEF Context
<1> HIDE DEF v
<1>2. w \in Context /\ Len(w) = 1 + l /\ \A i \in 1..(1 + l) : w[i] = IF i <= 1 THEN v[i] ELSE d[i - 1]
  <2>1. w \in Context /\ Len(w) = Len(v) + Len(d)
        /\ \A i \in 1..(Len(v) + Len(d)) : w[i] = IF i <= Len(v) THEN v[i] ELSE d[i - Len(v)]
    BY <1>1, ConcatProperties DEF Context
  <2> QED BY <1>1, <2>1
<1> HIDE DEF w, l
<1>3. w[1] = z /\ Len(w) = l + 1
  BY <1>1, <1>2
<1>4. ASSUME NEW i \in 1..l PROVE w[i + 1] = d[i]
  <2>1. i + 1 \in 1..(1 + l) /\ ~(i + 1 <= 1) /\ (i + 1) - 1 = i
    BY <1>1
  <2>2. w[i + 1] = d[(i + 1) - 1]
    BY <1>2, <2>1
  <2> QED BY <2>1, <2>2
<1>5. ASSUME NEW k \in 0..l PROVE SubSeq(w, 2, k + 1) = SubSeq(d, 1, k)
  <2>1. CASE k = 0
    BY <2>1, SubSeqEmpty
  <2>2. CASE k # 0
    <3>1. /\ 2 \in (Len(v) + 1)..(Len(v) + Len(d)) /\ k + 1 \in (Len(v) + 1)..(Len(v) + Len(d))
          /\ 2 - Len(v) = 1 /\ (k + 1) - Len(v) = k
      BY <1>1, <2>2 DEF l
    <3>2. SubSeq(v \o d, 2, k + 1) = SubSeq(d, 2 - Len(v), (k + 1) - Len(v))
      BY <1>1, <3>1, SubSeqOfConcat2 DEF Context
    <3> QED BY <3>1, <3>2 DEF w
  <2> QED BY <2>1, <2>2
<1> QED BY <1>1, <1>2, <1>3, <1>4, <1>5 DEF w, v, l

(* The rows of the tokens consumed, each with what precedes it.            *)
LEMMA RepairedRows ==
  ASSUME gen \in SpecCalls, NEW c \in Context, gen.h = c, gen.off <= Len(gen.mtp),
         RowsOf(SubSeq(gen.mtp, 1, gen.off), c),
         gen.off < Len(gen.mtp) => gen.mtp[gen.off + 1] = <<gen.window[1], gen.h>>,
         NEW n \in 1..Len(gen.window), NEW h,
         \A i \in 1..Len(gen.window) : h[i] = c \o SubSeq(gen.window, 1, i)
  PROVE  RowsOf(S!Repaired(gen, n, h), c \o SubSeq(gen.window, 1, n))
<1> DEFINE w == gen.window
           m == gen.mtp
           k == gen.off
           base == SubSeq(m, 1, k)
           v == SubSeq(w, 1, n)
<1>1. w \in Context /\ m \in Seq(Pairs) /\ k \in Nat /\ Len(w) \in Nat /\ k \in 0..Len(m)
  <2>1. w \in Context /\ m \in Seq(Pairs) /\ k \in Nat /\ Len(m) \in Nat
    BY LenProperties DEF SpecCalls
  <2> QED BY <2>1, Nothing
<1>2. n \in 0..Len(w) /\ \A i \in 1..n : i \in 1..Len(w)
  BY <1>1
<1>3. /\ v \in Context /\ Len(v) = n /\ (\A i \in 1..n : v[i] = w[i])
      /\ \A i \in 0..n : SubSeq(v, 1, i) = SubSeq(w, 1, i)
  BY <1>1, <1>2, FirstPart, FirstOfFirst DEF Context
<1>4. CASE k < Len(m) /\ n = 1
  <2> DEFINE x == m[k + 1]
  <2>1. S!Repaired(gen, n, h) = base \o <<x>> /\ x \in Pairs
    <3>1. S!Repaired(gen, n, h) = SubSeq(m, 1, k + 1)
      BY <1>4, SpecOps DEF S!Repaired
    <3>2. SubSeq(m, 1, k + 1) = SubSeq(m, 1, k) \o <<m[k + 1]>> /\ m[k + 1] \in Pairs
      BY <1>1, <1>4, OneMore
    <3> QED BY <3>1, <3>2
  <2>2. x = <<w[1], c>>
    BY <1>4
  <2>3. c \o SubSeq(v, 1, 0) = c /\ v[1] = w[1]
    <3>1. SubSeq(v, 1, 0) = <<>>
      BY SubSeqEmpty
    <3>2. 1 \in 1..n
      BY <1>4
    <3> QED BY <1>3, <3>1, <3>2, Nothing
  <2> HIDE DEF x, v, w
  <2>4. <<x>> \in Seq(Pairs) /\ Len(<<x>>) = 1 /\ <<x>>[1] = x
    BY <2>1
  <2>5. x = RowAfter(v, c, 1)
    <3>1. RowAfter(v, c, 1) = <<v[1], c \o SubSeq(v, 1, 0)>>
      BY DEF RowAfter
    <3> QED BY <2>2, <2>3, <3>1
  <2> DEFINE new == <<x>>
  <2>6. new \in Seq(Pairs) /\ Len(new) = Len(v) /\ new[1] = RowAfter(v, c, 1) /\ Len(v) = 1
    BY <1>3, <1>4, <2>4, <2>5
  <2> HIDE DEF new
  <2>7. NewRows(new, v, c)
    <3>1. \A i \in 1..Len(v) : i = 1
      BY <2>6
    <3> QED BY <1>3, <2>6, <3>1 DEF NewRows
  <2>8. RowsOf(base \o new, c \o v)
    BY <2>7, RowsGrow
  <2> QED BY <2>1, <2>8 DEF new, v, w
<1>5. CASE ~(k < Len(m) /\ n = 1)
  <2> DEFINE new == [i \in 1..n |-> <<w[i], IF i = 1 THEN gen.h ELSE h[i - 1]>>]
  <2>1. S!Repaired(gen, n, h) = base \o new
    <3>1. S!First(gen.mtp, gen.off) = base
      BY SpecOps
    <3> HIDE DEF base
    <3> QED BY <1>5, <3>1 DEF S!Repaired
  <2>2. \A i \in 1..Len(w) : h[i] = c \o SubSeq(w, 1, i)
    OBVIOUS
  <2>3. ASSUME NEW i \in 1..n PROVE new[i] = RowAfter(v, c, i) /\ new[i] \in Pairs
    <3>1. i - 1 \in 0..n /\ (i # 1 => i - 1 \in 1..Len(w)) /\ i \in 1..Len(w)
      BY <1>1
    <3>2. w[i] \in Token /\ v[i] = w[i] /\ SubSeq(v, 1, i - 1) = SubSeq(w, 1, i - 1)
      BY <1>1, <1>3, <3>1, ElementOfSeq DEF Context
    <3> DEFINE u == c \o SubSeq(v, 1, i - 1)
    <3>3. (IF i = 1 THEN gen.h ELSE h[i - 1]) = u
      <4>1. CASE i = 1
        <5>1. SubSeq(v, 1, i - 1) = <<>>
          BY <4>1, SubSeqEmpty
        <5> QED BY <4>1, <5>1, Nothing
      <4>2. CASE i # 1
        BY <2>2, <3>1, <3>2, <4>2
      <4> QED BY <4>1, <4>2
    <3>4. u \in Context
      <4>1. SubSeq(v, 1, i - 1) \in Context
        BY <1>3, <3>1, FirstPart DEF Context
      <4> QED BY <4>1, Joined
    <3>5. new[i] = <<w[i], IF i = 1 THEN gen.h ELSE h[i - 1]>>
      OBVIOUS
    <3>6. RowAfter(v, c, i) = <<v[i], u>>
      BY DEF RowAfter
    <3> DEFINE y == w[i]
    <3> HIDE DEF u, y, new, v
    <3>7. new[i] = <<y, u>> /\ RowAfter(v, c, i) = <<y, u>> /\ y \in Token
      BY <3>2, <3>3, <3>5, <3>6 DEF y
    <3>8. <<y, u>> \in Pairs
      BY <3>4, <3>7 DEF Pairs
    <3> QED BY <3>7, <3>8
  <2>4. new \in Seq(Pairs) /\ Len(new) = n
    <3>1. new \in [1..n -> Pairs]
      BY <2>3
    <3>2. n \in Nat
      BY <1>2
    <3> HIDE DEF new
    <3> QED BY <3>1, <3>2
  <2> HIDE DEF new, v
  <2>5. NewRows(new, v, c)
    BY <1>3, <2>3, <2>4 DEF NewRows
  <2>6. RowsOf(base \o new, c \o v)
    BY <2>5, RowsGrow
  <2> QED BY <2>1, <2>6 DEF v
<1> QED BY <1>4, <1>5

(* A round that is about to be verified, of the drafts d.                  *)
SpecRound(d) ==
  /\ SpecType /\ SpecCaches /\ SpecSaid /\ SpecMore
  /\ d \in Context /\ gen.window = <<out[Len(out)]>> \o d /\ Len(d) <= budget - Len(out) - 1
  /\ mode => SpecRows(out[Len(out)])

(* What the forward of the window says.                                    *)
SpecSays(d) ==
  /\ out[Len(out)] \in Token
  /\ prompt \o out \in Context /\ prompt \o out # <<>> /\ Len(d) \in Nat
  /\ gen.window \in Context /\ Len(gen.window) = Len(d) + 1
  /\ \A i \in 1..(Len(d) + 1) :
       /\ S!WindowHidden[i] = SpecFed \o SubSeq(gen.window, 1, i)
       /\ S!WindowHidden[i] = (prompt \o out) \o SubSeq(d, 1, i - 1)

LEMMA SpecHidden ==
  ASSUME NEW d, SpecRound(d)
  PROVE  SpecSays(d)
<1> DEFINE z == out[Len(out)]
           c == SpecFed
           w == gen.window
           hs == S!WindowHidden
<1>1. /\ prompt \in Context /\ prompt # <<>> /\ out \in Context /\ out # <<>> /\ gen \in SpecCalls
      /\ gen.fed \in Context /\ d \in Context /\ w = <<z>> \o d /\ gen.kv = c /\ gen.rec = c
      /\ out = gen.fed \o <<z>> /\ c = prompt \o gen.fed
  BY DEF SpecRound, SpecType, SpecCalls, SpecCaches, SpecSaid, SpecFed
<1>2. z \in Token
  BY <1>1, LastApart
<1>3. c \in Context
  BY <1>1, Joined
<1> HIDE DEF z, c, w
<1>4. w \in Context /\ Len(w) = Len(d) + 1 /\ Len(d) \in Nat
  BY <1>1, <1>2, WindowParts
<1>5. prompt \o out = c \o <<z>>
  <2> DEFINE v == <<z>>
  <2>1. v \in Context /\ out = gen.fed \o v /\ c = prompt \o gen.fed
    BY <1>1, <1>2 DEF Context
  <2> HIDE DEF v
  <2>2. (prompt \o gen.fed) \o v = prompt \o (gen.fed \o v)
    BY <1>1, <2>1, Regrouped
  <2>3. prompt \o out = c \o v
    BY <2>1, <2>2
  <2> QED BY <2>3 DEF v
<1>6. Follows(c, z, d)
  BY <1>1, <1>2, <1>3, DraftFollows
<1>7. c \o <<z>> \in Context /\ \A j \in 1..(Len(d) + 1) :
        c \o SubSeq(w, 1, j) = (c \o <<z>>) \o SubSeq(d, 1, j - 1)
  BY <1>1, <1>6 DEF Follows
<1>8. c \o <<z>> # <<>>
  <2> DEFINE v == <<z>>
  <2>1. v \in Context /\ Len(v) = 1
    BY <1>2 DEF Context
  <2> HIDE DEF v
  <2>2. Len(c \o v) = Len(c) + 1 /\ Len(c) \in Nat
    BY <1>3, <2>1, Joined
  <2>3. Len(c \o v) # 0
    BY <2>2
  <2> QED BY <2>3, Nothing DEF v
<1>9. ASSUME NEW i \in 1..(Len(d) + 1)
      PROVE  hs[i] = c \o SubSeq(w, 1, i)
  <2>1. i \in 1..Len(w) /\ Len(w) - i \in 0..Len(w) /\ Len(w) - (Len(w) - i) = i
    BY <1>4
  <2>2. hs[i] = S!Hidden(gen.kv \o w, gen.rec \o w, Len(w) - i)
    BY <2>1 DEF S!WindowHidden, w
  <2>3. S!Hidden(c \o w, c \o w, Len(w) - i) = SubSeq(c \o w, 1, Len(c \o w) - (Len(w) - i))
    BY SpecOps
  <2>4. SubSeq(c \o w, 1, Len(c \o w) - (Len(w) - i)) = c \o SubSeq(w, 1, Len(w) - (Len(w) - i))
    BY <1>3, <1>4, <2>1, DropOfBoth
  <2> QED BY <1>1, <2>1, <2>2, <2>3, <2>4
<1>10. ASSUME NEW i \in 1..(Len(d) + 1)
       PROVE  hs[i] = (prompt \o out) \o SubSeq(d, 1, i - 1)
  <2>1. hs[i] = c \o SubSeq(w, 1, i)
    BY <1>9
  <2>2. c \o SubSeq(w, 1, i) = (c \o <<z>>) \o SubSeq(d, 1, i - 1)
    BY <1>7
  <2> QED BY <1>5, <2>1, <2>2
<1> HIDE DEF hs
<1> QED BY <1>2, <1>4, <1>5, <1>7, <1>8, <1>9, <1>10 DEF SpecSays, hs, w, c, z

(* What n of the window consumed leave.                                    *)
LEMMA SpecCommitted ==
  ASSUME NEW d, SpecRound(d), SpecSays(d), NEW n \in 1..(Len(d) + 1), NEW ts,
         S!Committed(ts, n, S!WindowHidden), UNCHANGED <<sess, prompt, budget, mode>>
  PROVE  /\ out' = out \o ts /\ gen' \in SpecCalls /\ gen'.shared = gen.shared
         /\ gen'.fed = gen.fed \o SubSeq(gen.window, 1, n)
         /\ SpecCaches' /\ (mode' => RowsOf(gen'.mtp, SpecFed'))
<1> DEFINE c == SpecFed
           w == gen.window
           v == SubSeq(w, 1, n)
           hs == S!WindowHidden
           u == c \o v
           m == IF mode THEN S!Repaired(gen, n, hs) ELSE gen.mtp
           fed == gen.fed \o v
<1>1. /\ SpecType /\ gen \in SpecCalls /\ prompt \in Context /\ prompt # <<>> /\ gen.fed \in Context
      /\ gen.kv = c /\ gen.rec = c /\ gen.h = c /\ c = prompt \o gen.fed /\ w \in Context
      /\ Ladder(gen.cps, Marks(prompt)) /\ gen.tail \in Tails(prompt)
      /\ Len(w) = Len(d) + 1 /\ Len(d) \in Nat /\ mode \in BOOLEAN
  BY DEF SpecRound, SpecSays, SpecType, SpecCalls, SpecCaches, SpecFed
<1>2. c \in Context
  BY <1>1, Joined
<1>3. v \in Context /\ n \in 1..Len(w) /\ n \in 0..Len(w) /\ Len(w) - n \in 0..Len(w) /\ Len(w) - (Len(w) - n) = n
  <2>1. n \in 1..Len(w) /\ n \in 0..Len(w) /\ Len(w) - n \in 0..Len(w) /\ Len(w) - (Len(w) - n) = n
    BY <1>1
  <2> QED BY <1>1, <2>1, FirstPart DEF Context
<1>4. u \in Context /\ fed \in Context /\ u = prompt \o fed
  <2>1. v \in Context
    BY <1>3
  <2> HIDE DEF v
  <2>2. u \in Context /\ fed \in Context
    BY <1>1, <1>2, <2>1, Joined
  <2>3. (prompt \o gen.fed) \o v = prompt \o (gen.fed \o v)
    BY <1>1, <2>1, Regrouped
  <2> QED BY <1>1, <2>2, <2>3
<1>5. \A i \in 1..Len(w) : hs[i] = c \o SubSeq(w, 1, i)
  BY <1>1 DEF SpecSays
<1>6. hs[n] = u
  BY <1>3, <1>5
<1>7. S!Drop(gen.kv \o w, Len(w) - n) = u
  <2>1. S!Drop(c \o w, Len(w) - n) = SubSeq(c \o w, 1, Len(c \o w) - (Len(w) - n))
    BY SpecOps
  <2>2. SubSeq(c \o w, 1, Len(c \o w) - (Len(w) - n)) = c \o SubSeq(w, 1, Len(w) - (Len(w) - n))
    BY <1>1, <1>2, <1>3, DropOfBoth
  <2> QED BY <1>1, <1>3, <2>1, <2>2
<1>8. mode => RowsOf(m, u)
  <2> SUFFICES ASSUME mode PROVE RowsOf(S!Repaired(gen, n, hs), u)
    OBVIOUS
  <2>1. SpecRows(out[Len(out)])
    BY DEF SpecRound
  <2>2. gen.window[1] = out[Len(out)]
    BY WindowParts DEF SpecRound, SpecSays
  <2>3. /\ gen.off <= Len(gen.mtp) /\ RowsOf(SubSeq(gen.mtp, 1, gen.off), c)
        /\ gen.off < Len(gen.mtp) => gen.mtp[gen.off + 1] = <<gen.window[1], gen.h>>
    BY <2>1, <2>2 DEF SpecRows
  <2> HIDE DEF c, hs
  <2> QED BY <1>1, <1>2, <1>3, <1>5, <2>3, RepairedRows
<1>9. m \in Seq(Pairs)
  BY <1>1, <1>8 DEF RowsOf, SpecCalls
<1>10. gen' = [S!RolledBack(gen, n) EXCEPT !.mtp = m, !.h = u, !.fed = fed, !.window = <<>>, !.off = 0]
  <2>1. S!RolledBack(gen, n).mtp = gen.mtp /\ S!RolledBack(gen, n).fed = gen.fed
    BY <1>1 DEF S!RolledBack, SpecCalls
  <2>2. S!First(gen.window, n) = v
    BY SpecOps
  <2> HIDE DEF u, v, m, hs
  <2> QED BY <1>6, <2>1, <2>2 DEF S!Committed, m, hs
<1>11. S!RolledBack(gen, n) = [gen EXCEPT !.kv = u, !.rec = u]
  <2>1. S!First(gen.window, n) = v /\ gen.rec \o v = u
    BY <1>1, SpecOps
  <2> HIDE DEF u, v
  <2> QED BY <1>1, <1>7, <2>1 DEF S!RolledBack, SpecCalls
<1> HIDE DEF u, v, m, fed
<1>12. /\ gen' \in SpecCalls /\ gen'.shared = gen.shared /\ gen'.fed = fed /\ gen'.kv = u /\ gen'.rec = u
       /\ gen'.h = u /\ gen'.mtp = m /\ gen'.cps = gen.cps /\ gen'.tail = gen.tail
  BY <1>1, <1>4, <1>9, <1>10, <1>11, Nothing DEF SpecCalls
<1>13. SpecFed' = u
  BY <1>4, <1>12 DEF SpecFed
<1>14. SpecCaches'
  BY <1>1, <1>12, <1>13 DEF SpecCaches
<1>15. mode' => RowsOf(gen'.mtp, SpecFed')
  BY <1>8, <1>12, <1>13
<1>16. out' = out \o ts
  BY DEF S!Committed
<1> QED BY <1>12, <1>14, <1>15, <1>16 DEF fed, v

(* The drafts end the answer: the tokens up to the first that ends it.     *)
LEMMA SpecEnds ==
  ASSUME Speaks, NEW d, SpecRound(d), SpecSays(d), NEW k \in 1..Len(d), d[k] \in Eos,
         \A i \in 1..(k - 1) : d[i] \notin Eos,
         \A i \in 1..k : d[i] \in Drawn(S!WindowHidden[i]),
         S!Committed(SubSeq(d, 1, k), k, S!WindowHidden),
         st' = "decode", UNCHANGED <<sess, prompt, budget, mode>>
  PROVE  SpecInv' /\ Plain!Emit
<1> DEFINE ts == SubSeq(d, 1, k)
           hs == S!WindowHidden
           q == prompt \o out
           l == Len(out)
<1>1. /\ SpecType /\ prompt \in Context /\ out \in Context /\ budget \in Nat /\ SpecMore /\ SpecSaid
      /\ d \in Context /\ Len(d) <= budget - l - 1 /\ q \in Context /\ q # <<>> /\ Len(d) \in Nat
      /\ l \in Nat /\ out # <<>>
      /\ \A i \in 1..(Len(d) + 1) : hs[i] = q \o SubSeq(d, 1, i - 1)
  BY Nothing DEF SpecRound, SpecSays, SpecType, SpecSaid
<1>2. k \in 1..(Len(d) + 1)
  BY <1>1
<1>3. /\ out' = out \o ts /\ gen' \in SpecCalls /\ gen'.shared = gen.shared
      /\ SpecCaches' /\ (mode' => RowsOf(gen'.mtp, SpecFed'))
  BY <1>2, SpecCommitted
<1>4. \A i \in 1..k : i \in 1..(Len(d) + 1)
  BY <1>1
<1> HIDE DEF hs, q, l
<1>6. ts \in Context /\ Len(ts) = k /\ ts[k] = d[k] /\ Answerable(q, ts)
  <2>1. q \in Context /\ q # <<>> /\ d \in Context
    BY <1>1
  <2>2. (\A i \in 1..k : d[i] \in Drawn(hs[i])) /\ \A i \in 1..k : hs[i] = q \o SubSeq(d, 1, i - 1)
    BY <1>1, <1>4 DEF hs
  <2> QED BY <2>1, <2>2, VerifiedDrafts
<1>7. ts # <<>> /\ NoEnd(ts)
  <2>1. \A i \in 1..k : ts[i] = d[i]
    BY <1>1, FirstPart DEF Context
  <2>2. k # 0 /\ \A i \in 1..(k - 1) : i \in 1..k
    BY <1>1
  <2> HIDE DEF ts
  <2>3. NoEnd(ts)
    BY <1>6, <2>1, <2>2 DEF NoEnd
  <2> QED BY <1>6, <2>2, <2>3, Nothing
<1> HIDE DEF ts
<1>8. l + k <= budget /\ l + k \in Nat \ {0} /\ k \in 1..(l + k) /\ (l + k) - l = k /\ ~(l + k <= l)
  BY <1>1
<1>9. out \o ts \in Context /\ EmitOf(prompt, budget, out, out \o ts)
  <2>1. GoesOn(out) /\ Len(out) + Len(ts) <= budget
    BY <1>1, <1>6, <1>8 DEF SpecMore, GoesOn, l
  <2>2. prompt \in Context /\ out \in Context /\ budget \in Nat /\ ts \in Context /\ Answerable(prompt \o out, ts)
    BY <1>1, <1>6 DEF q
  <2> QED BY <1>7, <2>1, <2>2, BlockEmits
<1>10. Len(out \o ts) = l + k /\ (out \o ts)[l + k] = d[k]
  <2>1. Len(out \o ts) = l + k /\ \A i \in 1..(l + k) : (out \o ts)[i] = IF i <= l THEN out[i] ELSE ts[i - l]
    BY <1>1, <1>6, ConcatProperties, ZenonT(40) DEF Context, l
  <2>2. l + k \in 1..(l + k)
    BY <1>8
  <2> QED BY <1>6, <1>8, <2>1, <2>2
<1>11. /\ out' \in Context /\ out' # <<>> /\ Len(out') <= budget /\ out'[Len(out')] \in Eos
  <2>1. Len(out \o ts) # 0
    BY <1>8, <1>10
  <2> QED BY <1>3, <1>8, <1>9, <1>10, <2>1, Nothing
<1>12. SpecSaid'
  BY <1>11 DEF SpecSaid, SpecMore
<1>13. SpecType'
  BY <1>1, <1>3, <1>11 DEF SpecType, SpecSession
<1>14. SpecDecoding'
  BY <1>3, <1>12 DEF SpecDecoding
<1>15. Plain!Emit
  BY <1>3, <1>9, PlainEmit
<1> QED BY <1>13, <1>14, <1>15 DEF SpecInv, SpecPrefilling, SpecVerifying

(* The answer goes on: the drafts that were accepted and the next token.   *)
LEMMA SpecContinues ==
  ASSUME Speaks, NEW d, SpecRound(d), SpecSays(d), NEW a \in 0..Len(d),
         \A i \in 1..a : d[i] \notin Eos,
         \A i \in 1..a : d[i] \in Drawn(S!WindowHidden[i]),
         NEW y \in Drawn(S!WindowHidden[a + 1]),
         S!Committed(SubSeq(d, 1, a) \o <<y>>, a + 1, S!WindowHidden),
         st' = "decode", UNCHANGED <<sess, prompt, budget, mode>>
  PROVE  SpecInv' /\ Plain!Emit
<1> DEFINE f == SubSeq(d, 1, a)
           ts == f \o <<y>>
           hs == S!WindowHidden
           q == prompt \o out
           l == Len(out)
           z == out[Len(out)]
<1>1. /\ SpecType /\ prompt \in Context /\ out \in Context /\ budget \in Nat /\ SpecMore /\ SpecSaid
      /\ d \in Context /\ Len(d) <= budget - l - 1 /\ q \in Context /\ q # <<>> /\ Len(d) \in Nat
      /\ l \in Nat /\ out # <<>> /\ gen.fed \in Context /\ z \in Token
      /\ gen.window = <<z>> \o d /\ out = gen.fed \o <<z>>
      /\ \A i \in 1..(Len(d) + 1) : hs[i] = q \o SubSeq(d, 1, i - 1)
  BY Nothing DEF SpecRound, SpecSays, SpecType, SpecSaid, SpecCalls
<1>2. a + 1 \in 1..(Len(d) + 1) /\ a \in Nat /\ \A i \in 1..(a + 1) : i \in 1..(Len(d) + 1)
  BY <1>1
<1>3. /\ out' = out \o ts /\ gen' \in SpecCalls /\ gen'.shared = gen.shared
      /\ gen'.fed = gen.fed \o SubSeq(gen.window, 1, a + 1)
      /\ SpecCaches' /\ (mode' => RowsOf(gen'.mtp, SpecFed'))
  BY <1>2, SpecCommitted
<1>4. f \in Context /\ Len(f) = a /\ \A i \in 1..a : f[i] = d[i]
  BY <1>1, FirstPart DEF Context
<1>5. y \in Token /\ ts \in Context /\ Len(ts) = a + 1 /\ ts[a + 1] = y /\ Answerable(q, ts)
  <2> HIDE DEF hs, q, f
  <2>1. y \in Drawn(hs[a + 1]) /\ (\A i \in 1..a : d[i] \in Drawn(hs[i]))
        /\ \A i \in 1..(a + 1) : hs[i] = q \o SubSeq(d, 1, i - 1)
    BY <1>1, <1>2 DEF hs
  <2> QED BY <1>1, <2>1, VerifiedBlock DEF f
<1>6. gen'.fed = out \o f
  <2>1. Follows(gen.fed, z, d)
    BY <1>1, DraftFollows
  <2>2. gen.fed \o SubSeq(<<z>> \o d, 1, a + 1) = (gen.fed \o <<z>>) \o SubSeq(d, 1, (a + 1) - 1)
    BY <1>2, <2>1 DEF Follows
  <2>3. (a + 1) - 1 = a
    BY <1>2
  <2> QED BY <1>1, <1>3, <2>2, <2>3
<1> HIDE DEF hs, q, l, f, z
<1>7. ts # <<>> /\ NoEnd(ts)
  <2>1. \A i \in 1..a : ts[i] = f[i]
    <3> DEFINE v == <<y>>
    <3>1. v \in Context
      BY <1>5 DEF Context
    <3> HIDE DEF v
    <3>2. \A i \in 1..(Len(f) + Len(v)) : (f \o v)[i] = IF i <= Len(f) THEN f[i] ELSE v[i - Len(f)]
      BY <1>4, <3>1, ConcatProperties DEF Context
    <3>3. Len(v) = 1
      BY DEF v
    <3>4. \A i \in 1..a : i \in 1..(a + 1) /\ i <= a
      BY <1>2
    <3> QED BY <1>4, <3>2, <3>3, <3>4 DEF v
  <2>2. a + 1 # 0 /\ (a + 1) - 1 = a
    BY <1>2
  <2> HIDE DEF ts
  <2>3. NoEnd(ts)
    BY <1>4, <1>5, <2>1, <2>2 DEF NoEnd
  <2> QED BY <1>5, <2>2, <2>3, Nothing
<1>8. Len(out) + Len(ts) <= budget
  <2>1. l + (a + 1) <= budget
    BY <1>1, <1>2
  <2> HIDE DEF ts
  <2> QED BY <1>5, <2>1 DEF l
<1>9. out \o ts \in Context /\ EmitOf(prompt, budget, out, out \o ts)
  <2>1. GoesOn(out)
    BY <1>1 DEF SpecMore, GoesOn
  <2> HIDE DEF ts
  <2> QED BY <1>1, <1>5, <1>7, <1>8, <2>1, BlockEmits DEF q
<1>10. out \o ts = gen'.fed \o <<y>> /\ gen'.fed \in Context
  <2> DEFINE v == <<y>>
  <2>1. v \in Context
    BY <1>5 DEF Context
  <2> HIDE DEF v
  <2>2. (out \o f) \o v = out \o (f \o v) /\ out \o f \in Context
    <3>1. out \in Context /\ f \in Context
      BY <1>1, <1>4
    <3> QED BY <2>1, <3>1, Regrouped, Joined, ZenonT(40)
  <2>3. out \o f = gen'.fed
    BY <1>6
  <2> QED BY <2>2, <2>3 DEF v
<1>11. out'[Len(out')] = y /\ Len(out') <= budget /\ out' # <<>> /\ out' \in Context
  <2> DEFINE v == <<y>>
             t == gen'.fed
  <2>1. v \in Context /\ Len(v) = 1 /\ v[1] = y /\ t \in Context
    BY <1>5, <1>10 DEF Context
  <2>2. out' = t \o v
    BY <1>3, <1>10
  <2> HIDE DEF v, t
  <2>3. Len(t \o v) = Len(t) + 1 /\ Len(t) \in Nat /\ \A i \in 1..(Len(t) + 1) : (t \o v)[i] = IF i <= Len(t) THEN t[i] ELSE v[i - Len(t)]
    <3>1. t \in Context /\ v \in Context
      BY <2>1
    <3>2. /\ Len(t \o v) = Len(t) + Len(v) /\ Len(t) \in Nat
          /\ \A i \in 1..(Len(t) + Len(v)) : (t \o v)[i] = IF i <= Len(t) THEN t[i] ELSE v[i - Len(t)]
      BY <3>1, ConcatProperties, Nothing DEF Context
    <3> QED BY <2>1, <3>2
  <2>4. Len(t) + 1 \in 1..(Len(t) + 1) /\ ~(Len(t) + 1 <= Len(t)) /\ (Len(t) + 1) - Len(t) = 1 /\ Len(t) + 1 # 0
    BY <2>3
  <2>5. (t \o v)[Len(t) + 1] = y /\ t \o v # <<>>
    BY <2>1, <2>3, <2>4, Nothing
  <2>6. Len(out') <= budget
    BY <1>3, <1>9 DEF EmitOf
  <2> QED BY <1>3, <1>9, <2>2, <2>3, <2>5, <2>6
<1> HIDE DEF ts
<1>12. SpecSaid'
  BY <1>3, <1>10, <1>11 DEF SpecSaid
<1>13. SpecType'
  BY <1>1, <1>3, <1>11 DEF SpecType, SpecSession
<1>14. SpecDecoding'
  BY <1>3, <1>12 DEF SpecDecoding
<1>15. Plain!Emit
  BY <1>3, <1>9, PlainEmit
<1> QED BY <1>13, <1>14, <1>15 DEF SpecInv, SpecPrefilling, SpecVerifying

LEMMA SpecVerify ==
  ASSUME Speaks, SpecInv, S!Verify
  PROVE  SpecInv' /\ Plain!Emit
<1> DEFINE w == gen.window
           hs == S!WindowHidden
<1>1. st = "verify" /\ st' = "decode" /\ UNCHANGED <<sess, prompt, budget, mode>>
  BY DEF S!Verify
<1>2. PICK d \in Context : SpecRound(d)
  BY <1>1 DEF SpecInv, SpecVerifying, SpecRound
<1>3. SpecSays(d)
  BY <1>2, SpecHidden
<1>4. /\ w = <<out[Len(out)]>> \o d /\ out[Len(out)] \in Token /\ Len(w) = Len(d) + 1 /\ Len(d) \in Nat
      /\ Len(w) - 1 = Len(d)
  BY <1>2, <1>3 DEF SpecRound, SpecSays
<1>5. (\A i \in 1..Len(d) : w[i + 1] = d[i]) /\ \A k \in 0..Len(d) : SubSeq(w, 2, k + 1) = SubSeq(d, 1, k)
  BY <1>4, WindowParts
<1>6. PICK a \in S!Acceptable(w, hs) :
        \/ /\ S!EosAt(w, a) # {}
           /\ S!Committed(SubSeq(w, 2, S!Cut(w, a) + 1), S!Cut(w, a), hs)
        \/ /\ S!EosAt(w, a) = {}
           /\ \E y \in S!Draw(hs[a + 1]) \ S!Refused(w, a) :
                S!Committed(SubSeq(w, 2, a + 1) \o <<y>>, 1 + a, hs)
  BY DEF S!Verify
<1> HIDE DEF w, hs
<1>7. a \in 0..Len(d) /\ \A i \in 1..a : w[i + 1] \in Drawn(hs[i])
  <2>1. a \in 0..(Len(w) - 1) /\ \A i \in 1..a : w[i + 1] \in S!Draw(hs[i])
    BY DEF S!Acceptable
  <2> QED BY <1>4, <2>1, SpecOps
<1>8. a \in Nat /\ \A i \in 1..a : i \in 1..Len(d) /\ i \in 0..Len(d)
  BY <1>4, <1>7
<1>9. \A i \in 1..a : d[i] \in Drawn(hs[i])
  BY <1>5, <1>7, <1>8
<1>10. S!EosAt(w, a) = {i \in 1..a : d[i] \in Eos}
  BY <1>5, <1>8 DEF S!EosAt
<1> DEFINE P == {i \in 1..a : d[i] \in Eos}
<1>11. CASE P # {}
  <2> DEFINE k == CHOOSE i \in P : \A j \in P : i <= j
  <2>1. S!Cut(w, a) = k
    BY <1>10 DEF S!Cut
  <2>2. P \subseteq Int /\ IsFiniteSet(P)
    <3>1. P \subseteq 1..a /\ IsFiniteSet(1..a)
      BY <1>8, FS_Interval
    <3> QED BY <1>8, <3>1, FS_Subset
  <2>3. k \in P /\ \A j \in P : k <= j
    <3> HIDE DEF P
    <3>1. P \in SUBSET Int /\ P # {} /\ IsFiniteSet(P)
      BY <1>11, <2>2
    <3>2. \E i \in P : \A j \in P : i <= j
      BY <3>1, LeastExists
    <3> QED BY <3>2
  <2> HIDE DEF k
  <2>4. k \in 1..Len(d) /\ d[k] \in Eos /\ k \in 0..Len(d) /\ k \in Nat /\ k <= a
    BY <1>8, <2>3
  <2>5. \A i \in 1..(k - 1) : i \in 1..a /\ ~(k <= i)
    BY <1>8, <2>4
  <2>6. \A i \in 1..(k - 1) : d[i] \notin Eos
    BY <2>3, <2>5
  <2>7. \A i \in 1..k : i \in 1..a
    BY <1>8, <2>4
  <2>8. \A i \in 1..k : d[i] \in Drawn(hs[i])
    BY <1>9, <2>7
  <2>9. S!Committed(SubSeq(d, 1, k), k, hs)
    BY <1>5, <1>6, <1>10, <1>11, <2>1, <2>4
  <2> QED BY <1>1, <1>2, <1>3, <2>4, <2>6, <2>8, <2>9, SpecEnds DEF hs
<1>12. CASE P = {}
  <2>1. PICK y \in Drawn(hs[a + 1]) : S!Committed(SubSeq(w, 2, a + 1) \o <<y>>, 1 + a, hs)
    BY <1>6, <1>10, <1>12, SpecOps
  <2>2. SubSeq(w, 2, a + 1) = SubSeq(d, 1, a) /\ 1 + a = a + 1
    BY <1>5, <1>7, <1>8
  <2>3. S!Committed(SubSeq(d, 1, a) \o <<y>>, a + 1, hs)
    BY <2>1, <2>2
  <2>4. \A i \in 1..a : d[i] \notin Eos
    BY <1>12
  <2> QED BY <1>1, <1>2, <1>3, <1>7, <1>9, <2>3, <2>4, SpecContinues DEF hs
<1> QED BY <1>11, <1>12

(***************************************************************************)
(* The end of a call of it                                                 *)
(***************************************************************************)
LEMMA SpecPublish ==
  ASSUME SpecInv, S!Publish
  PROVE  SpecInv' /\ UNCHANGED <<prompt, budget, out>>
<1> DEFINE c == SpecFed
           x == [has |-> TRUE, processed |-> prompt \o gen.fed, kv |-> gen.kv, rec |-> gen.rec,
                 mtp |-> gen.mtp, mtpValid |-> mode, h |-> gen.h, cps |-> gen.cps, tail |-> gen.tail]
<1>1. /\ st \in {"first", "decode"} /\ st' = "idle" /\ gen' = S!Fresh /\ sess' = x
      /\ UNCHANGED <<prompt, budget, mode, out>>
  BY DEF S!Publish, S!Finished
<1>2. /\ SpecType /\ SpecCaches /\ (mode => RowsOf(gen.mtp, c)) /\ gen \in SpecCalls /\ mode \in BOOLEAN
      /\ prompt \in Context /\ prompt # <<>> /\ gen.fed \in Context /\ gen.kv = c /\ gen.rec = c /\ gen.h = c
      /\ Ladder(gen.cps, Marks(prompt)) /\ gen.tail \in Tails(prompt) /\ c = prompt \o gen.fed
  BY <1>1 DEF SpecInv, SpecDecoding, SpecType, SpecCalls, SpecCaches, SpecFed
<1>3. c \in Context /\ c # <<>>
  <2>1. c \in Context /\ Len(c) = Len(prompt) + Len(gen.fed) /\ Len(prompt) \in Nat /\ Len(gen.fed) \in Nat
    BY <1>2, Joined
  <2>2. Len(prompt) # 0
    BY <1>2, Nothing
  <2>3. Len(c) # 0
    BY <2>1, <2>2
  <2> QED BY <2>1, <2>3, Nothing
<1>4. Ladder(gen.cps, Marks(c)) /\ gen.tail \in Tails(c)
  <2>1. Marks(prompt) \subseteq Marks(c) /\ Tails(prompt) \subseteq Tails(c)
    BY <1>2, MarksOfMore
  <2> QED BY <1>2, <2>1, LadderWidens
<1> HIDE DEF c
<1>5. x \in SpecSessions
  BY <1>2, <1>3 DEF SpecCalls, SpecSessions
<1>6. SpecSession(x)
  <2>1. /\ x.has = TRUE /\ x.processed = c /\ x.kv = c /\ x.rec = c /\ x.h = c /\ x.cps = gen.cps
        /\ x.tail = gen.tail /\ x.mtpValid = mode /\ x.mtp = gen.mtp
    BY <1>2
  <2> HIDE DEF x
  <2> QED BY <1>2, <1>3, <1>4, <1>5, <2>1 DEF SpecSession
<1> HIDE DEF x
<1>7. SpecSession(sess')
  BY <1>1, <1>6
<1>8. SpecType'
  BY <1>1, <1>2, <1>7, FreshSpec DEF SpecType, SpecSession
<1> QED BY <1>1, <1>8 DEF SpecInv, SpecPrefilling, SpecDecoding, SpecVerifying

LEMMA SpecFail ==
  ASSUME SpecInv, S!Fail
  PROVE  SpecInv' /\ UNCHANGED <<prompt, budget, out>>
<1>1. /\ st' = "idle" /\ gen' = S!Fresh /\ sess' = S!SessionAfterFailure(sess)
      /\ UNCHANGED <<prompt, budget, mode, out>>
  BY DEF S!Fail
<1>2. SpecType /\ (gen.shared => ~sess.has)
  BY DEF SpecInv, SpecType
<1>3. sess' = sess
  BY <1>1, <1>2 DEF S!SessionAfterFailure
<1>4. SpecType'
  BY <1>1, <1>2, <1>3, FreshSpec DEF SpecType, SpecSession
<1> QED BY <1>1, <1>4 DEF SpecInv, SpecPrefilling, SpecDecoding, SpecVerifying

LEMMA SpecStep ==
  ASSUME Speaks, SpecInv, S!Next
  PROVE  SpecInv' /\ (Plain!Next \/ UNCHANGED <<prompt, budget, out>>)
<1>1. CASE S!Rewind
  BY <1>1, SpecRewind
<1>2. CASE S!Begin
  BY <1>2, SpecBegin DEF Plain!Next
<1>3. CASE S!Prefill
  BY <1>3, SpecPrefill
<1>4. CASE S!FirstToken
  BY <1>4, SpecFirstToken DEF Plain!Next
<1>5. CASE S!ProposeLookup \/ S!ProposeExtended \/ S!ProposeChain
  BY <1>5, SpecPropose
<1>6. CASE S!Verify
  BY <1>6, SpecVerify DEF Plain!Next
<1>7. CASE S!Publish
  BY <1>7, SpecPublish
<1>8. CASE S!Fail
  BY <1>8, SpecFail
<1> QED BY <1>1, <1>2, <1>3, <1>4, <1>5, <1>6, <1>7, <1>8 DEF S!Next

(* Checkpoints and a tail of a context, or of a part of it.                *)
LEMMA MarksFollow ==
  ASSUME NEW c \in Context, NEW x, x.kv = c, x.rec = c, Ladder(x.cps, Marks(c)), x.tail \in Tails(c)
  PROVE  S!Follow(x, c)
<1> DEFINE cps == x.cps
<1>1. cps \in Seq(Marks(c)) /\ Len(cps) <= Retention /\ Rises(cps) /\ Len(cps) \in Nat /\ DOMAIN cps = 1..Len(cps)
  BY LenProperties DEF Ladder
<1> HIDE DEF cps
<1>2. ASSUME NEW i \in DOMAIN cps
      PROVE  cps[i].snap = SubSeq(c, 1, cps[i].pos) /\ (i > 1 => cps[i - 1].pos < cps[i].pos)
  <2>1. cps[i] \in Marks(c) /\ i \in 1..Len(cps)
    BY <1>1, ElementOfSeq
  <2>2. cps[i].snap = SubSeq(c, 1, cps[i].pos)
    BY <2>1, MarksType
  <2>3. i > 1 => i - 1 \in 1..Len(cps) /\ i - 1 < i
    BY <1>1, <2>1
  <2> QED BY <1>1, <2>1, <2>2, <2>3 DEF Rises
<1>3. x.tail.h = SubSeq(c, 1, x.tail.pos)
  BY MarksType
<1> QED BY <1>1, <1>2, <1>3, SpecOps DEF S!Follow, cps

LEMMA SpecGood ==
  ASSUME SpecInv
  PROVE  S!CachesFollow
<1>1. SpecType /\ SpecSession(sess) /\ prompt \in Context /\ gen \in SpecCalls /\ gen.fed \in Context
  BY DEF SpecInv, SpecType, SpecCalls
<1>2. \A m, c : RowsOf(m, c) => S!IsSuffix(m, S!TrueRows(c))
  <2> SUFFICES ASSUME NEW m, NEW c, RowsOf(m, c) PROVE S!IsSuffix(m, S!TrueRows(c))
    OBVIOUS
  <2>1. S!TrueRows(c) = [i \in 1..(Len(c) - 1) |-> <<c[i + 1], SubSeq(c, 1, i)>>]
    BY SpecOps DEF S!TrueRows
  <2> QED BY <2>1, RowsSuffix, SpecOps
<1>3. ASSUME sess.has
      PROVE  /\ S!Follow(sess, sess.processed)
             /\ sess.h \in {<<>>, sess.processed}
             /\ sess.mtpValid => /\ sess.h = sess.processed
                                 /\ S!IsSuffix(sess.mtp, S!TrueRows(sess.processed))
  <2>1. /\ sess.processed \in Context /\ sess.kv = sess.processed /\ sess.rec = sess.processed
        /\ Ladder(sess.cps, Marks(sess.processed)) /\ sess.tail \in Tails(sess.processed)
        /\ sess.h \in {<<>>, sess.processed}
        /\ (sess.mtpValid => sess.h = sess.processed /\ RowsOf(sess.mtp, sess.processed))
    BY <1>1, <1>3 DEF SpecSession, SpecSessions
  <2>2. S!Follow(sess, sess.processed)
    BY <2>1, MarksFollow
  <2> QED BY <1>2, <2>1, <2>2
<1>4. ASSUME st \in {"first", "decode"}
      PROVE  /\ S!Follow(gen, SpecFed) /\ gen.h = SpecFed
             /\ mode => S!IsSuffix(gen.mtp, S!TrueRows(SpecFed))
  <2>1. SpecCaches /\ (mode => RowsOf(gen.mtp, SpecFed))
    BY <1>4 DEF SpecInv, SpecDecoding
  <2>2. SpecFed \in Context /\ Marks(prompt) \subseteq Marks(SpecFed) /\ Tails(prompt) \subseteq Tails(SpecFed)
    BY <1>1, Joined, MarksOfMore DEF SpecFed
  <2>3. /\ gen.kv = SpecFed /\ gen.rec = SpecFed /\ gen.h = SpecFed
        /\ Ladder(gen.cps, Marks(SpecFed)) /\ gen.tail \in Tails(SpecFed)
    BY <2>1, <2>2, LadderWidens DEF SpecCaches
  <2>4. S!Follow(gen, SpecFed)
    BY <2>2, <2>3, MarksFollow
  <2> QED BY <1>2, <2>1, <2>3, <2>4
<1> QED BY <1>3, <1>4, SpecOps DEF S!CachesFollow, SpecFed
===============================================================================
