---------------------------- MODULE FrameProofs ----------------------------
(***************************************************************************)
(* Proofs about the machines of Structures that read or write frames, each *)
(* by an inductive invariant of its own: the decoders of Bitstamp and of   *)
(* Binance, the pacers of control frames, and the frame of a book.         *)
(*                                                                         *)
(* What these machines make of a sequence they make step by step, and the  *)
(* modules write that as recursive functions.  The first section has what  *)
(* their proofs share: such a function exists, and there is only one.      *)
(***************************************************************************)
EXTENDS Structures, FiniteSetTheorems, FunctionTheorems, SequenceTheorems, WellFoundedInduction, TLAPS

(* A step is one of one machine, and a stutter of the others.              *)
LEMMA StepsOfParts ==
  Next => [BnNext]_bnVars /\ [BsNext]_bsVars /\ [PacingNext]_pacingVars /\ [FrameNext]_frameVars
BY DEF Next, FeedsNext, ClientsNext

(* Each starts as its own, or is parked.                                   *)
LEMMA InitOfParts ==
  Init => BnInit /\ BsInit /\ PacingInit /\ (FrameInit \/ ParkedFrame)
BY DEF Init

-----------------------------------------------------------------------------
(* Recursion over numbers, and parts of sequences *)

(* A set of naturals that is not empty has a least one.                    *)
LEMMA LeastNatural ==
  ASSUME NEW T, T \subseteq Nat, T # {}
  PROVE  \E x \in T : \A y \in T : x <= y
<1>1. PICK x \in T : \A y \in T : ~(<<y, x>> \in OpToRel(<, Nat))
  BY NatLessThanWellFounded, WFMin
<1>2. \A y \in T : ~(y < x)
  BY <1>1 DEF OpToRel
<1>. QED
  BY <1>2

(* Where f starts with base and goes on by step.                           *)
GoesOn(f, a, b, base, step) ==
  f[a] = base /\ \A n \in a .. b : n # a => f[n] = step[n][f[n - 1]]

(* Such a function exists: those that do so up to n are there for the      *)
(* first n and for the next.                                               *)
LEMMA Recursion ==
  ASSUME NEW a \in Int, NEW b \in Int, a <= b,
         NEW X, NEW base \in X, NEW step \in [a .. b -> [X -> X]]
  PROVE  \E f \in [a .. b -> X] : GoesOn(f, a, b, base, step)
<1>. DEFINE Upto(n, f) == f[a] = base /\ \A i \in a .. n : i # a => f[i] = step[i][f[i - 1]]
            T == {d \in 0 .. b - a : ~\E f \in [a .. a + d -> X] : Upto(a + d, f)}
<1>1. T = {}
  <2>. SUFFICES ASSUME T # {} PROVE FALSE
    OBVIOUS
  <2>1. T \subseteq Nat
    OBVIOUS
  <2>2. PICK d \in T : \A e \in T : d <= e
    BY <2>1, LeastNatural
  <2>3. d \in 0 .. b - a /\ ~\E f \in [a .. a + d -> X] : Upto(a + d, f)
    BY <2>2
  <2>. DEFINE m == a + d
  <2>4. CASE d = 0
    <3>. DEFINE f == [i \in a .. a |-> base]
    <3>1. f \in [a .. a -> X] /\ Upto(a, f)
      OBVIOUS
    <3>2. a + d = a
      BY <2>4
    <3>. QED
      BY <2>3, <3>1, <3>2
  <2>5. CASE d # 0
    <3>1. d - 1 \in 0 .. b - a /\ ~(d <= d - 1) /\ a + (d - 1) = m - 1 /\ m \in a .. b /\ m # a
          /\ m - 1 \in a .. b
      BY <2>3, <2>5
    <3>2. d - 1 \notin T
      BY <2>2, <3>1
    <3>3. \E f \in [a .. a + (d - 1) -> X] : Upto(a + (d - 1), f)
      BY <3>1, <3>2
    <3>. HIDE DEF m
    <3>4. PICK f \in [a .. m - 1 -> X] : Upto(m - 1, f)
      BY <3>1, <3>3
    <3>. DEFINE g == [i \in a .. m |-> IF i = m THEN step[m][f[m - 1]] ELSE f[i]]
    <3>5. f[m - 1] \in X /\ step[m][f[m - 1]] \in X
      BY <3>1, <3>4
    <3>6. g \in [a .. m -> X]
      BY <3>1, <3>4, <3>5
    <3>7. g[a] = base
      BY <3>1, <3>4
    <3>8. ASSUME NEW i \in a .. m, i # a PROVE g[i] = step[i][g[i - 1]]
      <4>1. i - 1 \in a .. m - 1 /\ i - 1 \in a .. m /\ i - 1 # m
        BY <3>1, <3>8
      <4>2. g[i - 1] = f[i - 1]
        BY <4>1
      <4>3. CASE i = m
        BY <4>2, <4>3
      <4>4. CASE i # m
        <5>1. i \in a .. m - 1
          BY <3>1, <3>8, <4>4
        <5>2. f[i] = step[i][f[i - 1]]
          BY <3>4, <3>8, <5>1
        <5>3. g[i] = f[i]
          BY <4>4
        <5>. QED
          BY <4>2, <5>2, <5>3
      <4>. QED
        BY <4>3, <4>4
    <3>. HIDE DEF g
    <3>9. Upto(m, g)
      BY <3>7, <3>8
    <3>. HIDE DEF Upto
    <3>. QED
      BY <2>3, <3>6, <3>9 DEF m
  <2>. QED
    BY <2>4, <2>5
<1>2. b - a \in 0 .. b - a /\ a + (b - a) = b
  OBVIOUS
<1>3. b - a \notin T
  BY <1>1
<1>. HIDE DEF Upto
<1>4. \E f \in [a .. b -> X] : Upto(b, f)
  BY <1>2, <1>3
<1>. QED
  BY <1>4 DEF Upto, GoesOn

(* Where f goes on from n - 1 as p does, ...                               *)
Follows(a, b, f, p) == \A n \in a .. b : (n = a \/ f[n - 1] = p[n - 1]) => f[n] = p[n]

(* ... f is p, by the least n where they would differ.                     *)
LEMMA Followed ==
  ASSUME NEW a \in Nat, NEW b \in Nat, NEW f, NEW p, Follows(a, b, f, p)
  PROVE  \A n \in a .. b : f[n] = p[n]
<1>. USE DEF Follows
<1>. DEFINE T == {n \in a .. b : f[n] # p[n]}
<1>. SUFFICES ASSUME T # {} PROVE FALSE
  OBVIOUS
<1>1. T \subseteq Nat
  OBVIOUS
<1>2. PICK m \in T : \A n \in T : m <= n
  BY <1>1, LeastNatural
<1>3. m \in a .. b /\ f[m] # p[m] /\ m # a
  BY <1>2
<1>4. m - 1 \in a .. b /\ ~(m <= m - 1)
  BY <1>3
<1>5. f[m - 1] = p[m - 1]
  BY <1>2, <1>4
<1>. QED
  BY <1>3, <1>5

(* A part of a sequence.                                                   *)
LEMMA SliceFacts ==
  ASSUME NEW S, NEW s \in Seq(S), NEW m \in 1 .. Len(s) + 1, NEW n \in m - 1 .. Len(s)
  PROVE  /\ SubSeq(s, m, n) \in Seq(S) /\ Len(SubSeq(s, m, n)) = n - m + 1
         /\ \A i \in 1 .. n - m + 1 : SubSeq(s, m, n)[i] = s[m + i - 1]
<1>1. /\ Len(s) \in Nat /\ m \in Int /\ n \in Int /\ \A i \in 1 .. Len(s) : s[i] \in S
      /\ 1 <= m /\ m <= n + 1 /\ n <= Len(s)
  OBVIOUS
<1>. DEFINE l == Len(s)
            t == SubSeq(s, m, n)
<1>. HIDE DEF l
<1>2. \A i \in m .. n : s[i] \in S
  BY <1>1 DEF l
<1>3. /\ t \in Seq(S) /\ Len(t) = (IF m <= n THEN n - m + 1 ELSE 0)
      /\ \A i \in 1 .. n - m + 1 : t[i] = s[m + i - 1]
  BY <1>1, <1>2, SubSeqProperties
<1>4. (IF m <= n THEN n - m + 1 ELSE 0) = n - m + 1
  BY <1>1
<1>. HIDE DEF t
<1>5. t \in Seq(S) /\ Len(t) = n - m + 1 /\ \A i \in 1 .. n - m + 1 : t[i] = s[m + i - 1]
  BY <1>3, <1>4
<1>. QED
  BY <1>5 DEF t

-----------------------------------------------------------------------------
(* What a venue sends *)

(* A set of bounded naturals that is not empty has its latest, ...         *)
LEMMA LatestFacts ==
  ASSUME NEW n \in Nat, NEW S \in SUBSET (0 .. n), S # {}
  PROVE  Latest(S) \in S /\ \A j \in S : j <= Latest(S)
<1>. DEFINE T == {t \in 0 .. n : n - t \in S}
<1>1. T \subseteq Nat /\ T # {}
  <2>1. PICK k \in S : TRUE
    OBVIOUS
  <2>2. n - k \in 0 .. n /\ n - (n - k) = k
    BY <2>1
  <2>3. n - k \in T
    BY <2>1, <2>2
  <2>4. T \subseteq Nat
    OBVIOUS
  <2>. HIDE DEF T
  <2>. QED
    BY <2>3, <2>4
<1>2. PICK t \in T : \A u \in T : t <= u
  <2>. HIDE DEF T
  <2>. QED
    BY <1>1, LeastNatural
<1>3. t \in 0 .. n /\ n - t \in S
  BY <1>2
<1>4. \A j \in S : j <= n - t
  <2>. SUFFICES ASSUME NEW j \in S PROVE j <= n - t
    OBVIOUS
  <2>1. j \in 0 .. n /\ n - j \in 0 .. n /\ n - (n - j) = j
    OBVIOUS
  <2>2. n - j \in T
    BY <2>1
  <2>3. t <= n - j
    BY <1>2, <2>2
  <2>. QED
    BY <1>3, <2>1, <2>3
<1>5. \E k \in S : \A j \in S : j <= k
  BY <1>3, <1>4
<1>. QED
  BY <1>5, Zenon DEF Latest

(* The updates of a side before n, but those missed, and 0 for none.       *)
SetsOf(n, missed, s) == {0} \cup {k \in (1 .. n) \ missed : s \in Touched(k)}

(* ... which is what a book has.                                           *)
LEMMA LevelFacts ==
  ASSUME NEW n \in Nat, NEW missed, NEW s \in Sides
  PROVE  /\ BookWithout(n, missed)[s] \in SetsOf(n, missed, s)
         /\ \A j \in SetsOf(n, missed, s) : j <= BookWithout(n, missed)[s]
<1>. DEFINE S == SetsOf(n, missed, s)
<1>1. S \in SUBSET (0 .. n) /\ S # {}
  BY DEF SetsOf
<1>2. BookWithout(n, missed)[s] = Latest(S)
  BY DEF BookWithout, SetsOf
<1>. HIDE DEF S
<1>3. Latest(S) \in S /\ \A j \in S : j <= Latest(S)
  BY <1>1, LatestFacts
<1>. QED
  BY <1>2, <1>3 DEF S

(* It is the only one.                                                     *)
LEMMA LevelIs ==
  ASSUME NEW n \in Nat, NEW missed, NEW s \in Sides, NEW x \in SetsOf(n, missed, s),
         \A j \in SetsOf(n, missed, s) : j <= x
  PROVE  BookWithout(n, missed)[s] = x
<1>. DEFINE y == BookWithout(n, missed)[s]
<1>1. SetsOf(n, missed, s) \subseteq Int
  BY DEF SetsOf
<1>2. y \in SetsOf(n, missed, s) /\ x <= y
  BY LevelFacts
<1>. HIDE DEF y
<1>3. y <= x /\ x <= y /\ x \in Int /\ y \in Int
  BY <1>1, <1>2
<1>. QED
  BY <1>3 DEF y

(* Books are of naturals.                                                  *)
LEMMA BookTyped ==
  ASSUME NEW n \in Nat, NEW missed
  PROVE  BookWithout(n, missed) \in [Sides -> Nat]
<1>1. \A s \in Sides : BookWithout(n, missed)[s] \in Nat
  BY LevelFacts DEF SetsOf
<1>. QED
  BY <1>1 DEF BookWithout

(* An event's levels of a side: none, or the last is the last of those.    *)
Speaks(levels, first, last, s) ==
  /\ levels \in Seq(Nat)
  /\ levels = <<>> => \A j \in first .. last : s \notin Touched(j)
  /\ levels # <<>> => /\ levels[Len(levels)] \in first .. last /\ s \in Touched(levels[Len(levels)])
                      /\ \A j \in first .. last : s \in Touched(j) => j <= levels[Len(levels)]

(* The levels up to some update.                                           *)
LevelsUpTo(first, last, s) ==
  CHOOSE upTo : upTo = [k \in first - 1 .. last |->
    IF k < first THEN <<>>
    ELSE IF s \in Touched(k) THEN Append(upTo[k - 1], k) ELSE upTo[k - 1]]

(* They are those of LevelsOf.                                             *)
LEMMA EventSteps ==
  ASSUME NEW first, NEW last, NEW s
  PROVE  LevelsOf(first, last, s) = LevelsUpTo(first, last, s)[last]
BY DEF LevelsOf, LevelsUpTo

(* And they say just that.                                                 *)
LEMMA EventSpeaks ==
  ASSUME NEW first \in Nat \ {0}, NEW last \in Nat, first <= last, NEW s \in Sides
  PROVE  Speaks(LevelsOf(first, last, s), first, last, s)
<1>. DEFINE a == first - 1
            X == Seq(Nat)
            step == [k \in a .. last |-> [q \in X |-> IF s \in Touched(k) THEN Append(q, k) ELSE q]]
            U == LevelsUpTo(first, last, s)
            E(f) == f = [k \in a .. last |->
                          IF k < first THEN <<>>
                          ELSE IF s \in Touched(k) THEN Append(f[k - 1], k) ELSE f[k - 1]]
<1>0. <<>> \in X
  OBVIOUS
<1>1. a \in Nat /\ a <= last /\ \A k \in a .. last : k \in Nat /\ (k < first <=> k = a)
  OBVIOUS
<1>2. step \in [a .. last -> [X -> X]]
  BY <1>1
<1>3. PICK f \in [a .. last -> X] : /\ f[a] = <<>>
                                    /\ \A k \in a .. last : k # a => f[k] = step[k][f[k - 1]]
  <2>. DEFINE base == <<>>
  <2>1. a \in Int /\ last \in Int /\ a <= last /\ base \in X
    BY <1>0, <1>1
  <2>. HIDE DEF a, X, step, base
  <2>2. \E f \in [a .. last -> X] : GoesOn(f, a, last, base, step)
    BY <1>2, <2>1, Recursion
  <2>. QED
    BY <2>2 DEF base, GoesOn
<1>4. E(f)
  <2>1. ASSUME NEW k \in a .. last
        PROVE  f[k] = IF k < first THEN <<>>
                      ELSE IF s \in Touched(k) THEN Append(f[k - 1], k) ELSE f[k - 1]
    <3>1. CASE k = a
      BY <1>1, <1>3, <3>1
    <3>2. CASE k # a
      <4>1. k - 1 \in a .. last /\ ~(k < first)
        BY <1>1, <3>2
      <4>2. f[k - 1] \in X /\ f[k] = step[k][f[k - 1]]
        BY <1>3, <3>2, <4>1
      <4>. QED
        BY <4>1, <4>2
    <3>. QED
      BY <3>1, <3>2
  <2>. HIDE DEF a
  <2>. QED
    BY <1>3, <2>1
<1>5. E(U)
  <2>. HIDE DEF E
  <2>1. U = CHOOSE g : E(g)
    BY DEF LevelsUpTo, E
  <2>. QED
    BY <1>4, <2>1
<1>. HIDE DEF U
<1>6. U[a] = <<>>
  BY <1>1, <1>5
<1>7. \A k \in a .. last : k # a =>
        U[k] = IF s \in Touched(k) THEN Append(U[k - 1], k) ELSE U[k - 1]
  BY <1>1, <1>5
<1>. HIDE DEF E
<1>. DEFINE T == {k \in a .. last : ~Speaks(U[k], first, k, s)}
<1>8. T = {}
  <2>. SUFFICES ASSUME T # {} PROVE FALSE
    OBVIOUS
  <2>1. T \subseteq Nat
    BY <1>1
  <2>2. PICK k \in T : \A j \in T : k <= j
    BY <2>1, LeastNatural
  <2>3. k \in a .. last /\ ~Speaks(U[k], first, k, s)
    BY <2>2
  <2>4. k # a
    <3>1. Speaks(<<>>, first, a, s)
      BY DEF Speaks
    <3>. QED
      BY <1>6, <2>3, <3>1
  <2>5. k - 1 \in a .. last /\ ~(k <= k - 1) /\ k \in Nat /\ first <= k /\ k - 1 \in Nat
        /\ first .. k = (first .. k - 1) \cup {k} /\ \A j \in first .. k - 1 : j <= k
    BY <1>1, <2>3, <2>4
  <2>6. k - 1 \notin T
    BY <2>2, <2>5
  <2>. DEFINE h == k - 1
              q == U[h]
              r == U[k]
  <2>7. h \in a .. last /\ Speaks(q, first, h, s)
    BY <2>5, <2>6
  <2>8. r = IF s \in Touched(k) THEN Append(q, k) ELSE q
    BY <1>7, <2>3, <2>4
  <2>9. first .. k = (first .. h) \cup {k} /\ \A j \in first .. h : j <= k
    BY <2>5
  <2>. HIDE DEF h, q, r
  <2>10. CASE s \in Touched(k)
    <3>1. q \in Seq(Nat) /\ r = Append(q, k)
      BY <2>7, <2>8, <2>10 DEF Speaks
    <3>2. r \in Seq(Nat) /\ r # <<>> /\ r[Len(r)] = k
      <4>1. r \in Seq(Nat) /\ Len(r) = Len(q) + 1 /\ r[Len(q) + 1] = k /\ Len(q) \in Nat
        BY <2>5, <3>1, AppendProperties
      <4>2. r # <<>>
        BY <4>1
      <4>. QED
        BY <4>1, <4>2
    <3>3. k \in first .. k /\ \A j \in first .. k : j <= k
      BY <2>5
    <3>4. Speaks(r, first, k, s)
      BY <2>10, <3>2, <3>3 DEF Speaks
    <3>. QED
      BY <2>3, <3>4 DEF r
  <2>11. CASE s \notin Touched(k)
    <3>1. r = q
      BY <2>8, <2>11
    <3>2. Speaks(r, first, k, s)
      BY <2>7, <2>9, <2>11, <3>1 DEF Speaks
    <3>. QED
      BY <2>3, <3>2 DEF r
  <2>. QED
    BY <2>10, <2>11
<1>9. last \in a .. last
  BY <1>1
<1>10. Speaks(U[last], first, last, s)
  BY <1>8, <1>9
<1>. QED
  BY <1>10, EventSteps DEF U

(* An event that is applied to a book makes it the book of one who missed  *)
(* what was missed before, and what lies in between.                       *)
LEMMA BookMoves ==
  ASSUME NEW first \in Nat \ {0}, NEW n \in Nat, first <= n, NEW c \in Nat, c <= n,
         NEW missed, NEW still, NEW s \in Sides,
         NEW levels, Speaks(levels, first, n, s),
         \A k \in first .. n : k \notin still,
         \A k \in 1 .. c : k < first => (k \in missed <=> k \in still),
         \A k \in c + 1 .. n : k < first => k \in still
  PROVE  Settled(BookWithout(c, missed)[s], levels) = BookWithout(n, still)[s]
<1>. DEFINE x == BookWithout(c, missed)[s]
            y == levels[Len(levels)]
<1>1. x \in SetsOf(c, missed, s) /\ \A j \in SetsOf(c, missed, s) : j <= x
  BY LevelFacts
<1>. HIDE DEF x, y
<1>2. CASE levels = <<>>
  <2>1. \A j \in first .. n : s \notin Touched(j)
    BY <1>2 DEF Speaks
  <2>2. x \in SetsOf(n, still, s)
    <3>1. CASE x = 0
      BY <3>1 DEF SetsOf
    <3>2. CASE x # 0
      <4>1. x \in 1 .. c /\ x \notin missed /\ s \in Touched(x)
        BY <1>1, <3>2 DEF SetsOf
      <4>2. x < first /\ x \in 1 .. n
        BY <2>1, <4>1
      <4>. QED
        BY <4>1, <4>2 DEF SetsOf
    <3>. QED
      BY <3>1, <3>2
  <2>3. ASSUME NEW j \in SetsOf(n, still, s) PROVE j <= x
    <3>0. x \in Nat
      BY <1>1 DEF SetsOf
    <3>1. CASE j = 0
      BY <3>0, <3>1
    <3>2. CASE j # 0
      <4>1. j \in 1 .. n /\ j \notin still /\ s \in Touched(j)
        BY <2>3, <3>2 DEF SetsOf
      <4>2. j < first
        BY <2>1, <4>1
      <4>3. j \in 1 .. c
        BY <4>1, <4>2
      <4>4. j \in SetsOf(c, missed, s)
        BY <4>1, <4>2, <4>3 DEF SetsOf
      <4>. QED
        BY <1>1, <4>4
    <3>. QED
      BY <3>1, <3>2
  <2>4. BookWithout(n, still)[s] = x
    BY <2>2, <2>3, LevelIs
  <2>. QED
    BY <1>2, <2>4 DEF Settled, x
<1>3. CASE levels # <<>>
  <2>1. y \in first .. n /\ s \in Touched(y) /\ \A j \in first .. n : s \in Touched(j) => j <= y
    BY <1>3 DEF Speaks, y
  <2>2. y \in SetsOf(n, still, s)
    BY <2>1 DEF SetsOf
  <2>3. ASSUME NEW j \in SetsOf(n, still, s) PROVE j <= y
    <3>1. CASE j < first
      BY <2>1, <2>3, <3>1 DEF SetsOf
    <3>2. CASE ~(j < first)
      <4>1. j \in first .. n /\ s \in Touched(j)
        BY <2>3, <3>2 DEF SetsOf
      <4>. QED
        BY <2>1, <4>1
    <3>. QED
      BY <3>1, <3>2
  <2>4. BookWithout(n, still)[s] = y
    BY <2>2, <2>3, LevelIs
  <2>. QED
    BY <1>3, <2>4 DEF Settled, y
<1>. QED
  BY <1>2, <1>3

(* Levels are settled one by one.                                          *)
LEMMA SettledOn ==
  ASSUME NEW levels \in Seq(Nat), levels # <<>>, NEW x
  PROVE  /\ Settled(Head(levels), Tail(levels)) = Settled(x, levels)
         /\ Head(levels) \in Nat /\ Tail(levels) \in Seq(Nat)
<1>. DEFINE l == Len(levels)
            t == Tail(levels)
<1>1. l \in Nat /\ l # 0 /\ Head(levels) = levels[1] /\ t \in Seq(Nat) /\ Len(t) = l - 1
      /\ Head(levels) \in Nat
      /\ \A i \in 1 .. l - 1 : t[i] = levels[i + 1]
  BY HeadTailProperties
<1>. HIDE DEF t
<1>2. t = <<>> <=> l = 1
  BY <1>1
<1>3. CASE l = 1
  BY <1>1, <1>2, <1>3 DEF Settled, t
<1>4. CASE l # 1
  <2>1. t # <<>> /\ Len(t) = l - 1 /\ l - 1 \in 1 .. l - 1 /\ l - 1 + 1 = l
    BY <1>1, <1>2, <1>4
  <2>2. t[Len(t)] = levels[l]
    BY <1>1, <2>1
  <2>. QED
    BY <1>1, <2>1, <2>2 DEF Settled, t
<1>. QED
  BY <1>1, <1>3, <1>4 DEF t
-----------------------------------------------------------------------------
(* The decoder of Bitstamp *)

BsMeta == [micro : Nat, start : Nat, bidEnd : Nat, end : Nat]
BsParses ==
  [at : {"top", "data"}, kind : FrameKinds, micro : Nat \ {0}, todo : SUBSET FrameKeys,
   body : SUBSET {"micro", "bid", "ask"}, side : Sides \cup {"none"}, left : Seq(Nat)]
BsReads == [at : {"snapshot"}, id : Nat, todo : SUBSET {"micro", "bid", "ask"}]

(* The types of a decoder.                                                 *)
BsTyped ==
  /\ bsNow \in Nat /\ bsMissed \subseteq 1 .. bsNow
  /\ bsSlot \in [phase : {"bootstrapping", "ready"}, micro : Nat, book : [Sides -> Nat],
                 levels : Seq(Nat), meta : Seq(BsMeta), first : Nat]
  /\ bsStage \in [levels : Seq(Nat), split : Nat]
  /\ bsParse = BsIdle \/ bsParse \in BsParses \/ bsParse \in BsReads

BsFraming == bsParse.at \in {"top", "data"}

(* The update a frame under way is the first to bring.                     *)
Arriving(k) == BsFraming /\ bsParse.kind = "diff" /\ k = bsParse.micro

Bids(k) == LevelsOf(k, k, "bid")
Asks(k) == LevelsOf(k, k, "ask")

(* The arrays still to come, the bids first, and what the stage has of     *)
(* them and of none before.                                                *)
StageFills ==
  \/ /\ {"bid", "ask"} \subseteq bsParse.body /\ bsParse.side = "none"
     /\ bsStage = EmptyStage
  \/ /\ "bid" \notin bsParse.body /\ "ask" \in bsParse.body /\ bsParse.side = "bid"
     /\ bsStage.split = 0 /\ bsStage.levels \o bsParse.left = Bids(bsParse.micro)
  \/ /\ "bid" \notin bsParse.body /\ "ask" \in bsParse.body /\ bsParse.side = "none"
     /\ bsStage.levels = Bids(bsParse.micro) /\ bsStage.split = Len(Bids(bsParse.micro))
  \/ /\ "bid" \notin bsParse.body /\ "ask" \notin bsParse.body /\ bsParse.side = "ask"
     /\ bsStage.split = Len(Bids(bsParse.micro))
     /\ bsStage.levels \o bsParse.left = Bids(bsParse.micro) \o Asks(bsParse.micro)
  \/ /\ "bid" \notin bsParse.body /\ "ask" \notin bsParse.body /\ bsParse.side = "none"
     /\ bsStage.split = Len(Bids(bsParse.micro))
     /\ bsStage.levels = Bids(bsParse.micro) \o Asks(bsParse.micro)

(* A frame of the symbol is of the last update, and staged so far.         *)
FrameSound ==
  BsFraming /\ bsParse.kind \in {"diff", "again"} =>
    /\ bsParse.micro = bsNow /\ bsNow # 0
    /\ bsParse.side = "none" => bsParse.left = <<>>
    /\ "data" \in bsParse.todo => bsParse.at = "top" /\ bsParse.body = {"micro", "bid", "ask"}
    /\ bsParse.at = "top" => /\ bsParse.side = "none"
                             /\ "data" \notin bsParse.todo => bsParse.body = {}
    /\ StageFills

(* The snapshot being read is of an update the diffs reach back to, and    *)
(* the book has the sides that were read.                                  *)
ReadSound ==
  bsParse.at = "snapshot" =>
    /\ bsSlot.phase = "bootstrapping" /\ bsSlot.first # 0 /\ bsParse.id <= bsNow
    /\ \A s \in Sides :
         bsSlot.book[s] = IF s \in bsParse.todo THEN 0 ELSE VenueBook(bsParse.id)[s]

(* A buffered diff has its levels in the arena.                            *)
Buffered(m) ==
  /\ m.start <= m.bidEnd /\ m.bidEnd <= m.end /\ m.end <= Len(bsSlot.levels)
  /\ BsBidsOf(m) = Bids(m.micro) /\ BsAsksOf(m) = Asks(m.micro)
  /\ m.micro \in 1 .. bsNow /\ m.micro \notin bsMissed /\ ~Arriving(m.micro)

(* While bootstrapping nothing is shown, and every update since the first  *)
(* is buffered, in order, missed or on its way.                            *)
ArenaSound ==
  bsSlot.phase = "bootstrapping" =>
    /\ bsShown = NoBook
    /\ \A i \in 1 .. Len(bsSlot.meta) : Buffered(bsSlot.meta[i])
    /\ \A i, j \in 1 .. Len(bsSlot.meta) : i < j => bsSlot.meta[i].micro <= bsSlot.meta[j].micro
    /\ bsSlot.first # 0 =>
         \A k \in bsSlot.first .. bsNow :
           \/ k \in bsMissed \/ Arriving(k)
           \/ \E i \in 1 .. Len(bsSlot.meta) : bsSlot.meta[i].micro = k

(* A live book is that of its last update without those missed, which are  *)
(* all those since.                                                        *)
LiveSound ==
  bsSlot.phase = "ready" =>
    /\ bsSlot.micro <= bsNow
    /\ bsSlot.book = BookWithout(bsSlot.micro, bsMissed) /\ bsShown = bsSlot.book
    /\ \A k \in bsSlot.micro + 1 .. bsNow : k \in bsMissed \/ Arriving(k)
    /\ \A k \in 1 .. bsSlot.micro : ~Arriving(k)

BsSound == BsTyped /\ FrameSound /\ ReadSound /\ ArenaSound /\ LiveSound

(* Where a parse is tells what it is.                                      *)
LEMMA BsParseKinds ==
  ASSUME BsTyped
  PROVE  /\ bsParse.at \in {"top", "data"} => bsParse \in BsParses
         /\ bsParse.at = "snapshot" => bsParse \in BsReads
         /\ bsParse = BsIdle => bsParse.at = "idle"
BY DEF BsTyped, BsIdle, BsParses, BsReads

(* A book does not depend on what was missed later.                        *)
LEMMA SameBook ==
  ASSUME NEW n, NEW m1, NEW m2, \A k \in 1 .. n : k \in m1 <=> k \in m2
  PROVE  BookWithout(n, m1) = BookWithout(n, m2)
<1>1. (1 .. n) \ m1 = (1 .. n) \ m2
  OBVIOUS
<1>. QED
  BY <1>1 DEF BookWithout

(* Nobody has a book before the first update.                              *)
LEMMA NoBookFacts == NoBook = [s \in Sides |-> 0]
<1>1. ASSUME NEW s \in Sides PROVE VenueBook(0)[s] = 0
  <2>1. BookWithout(0, {})[s] \in SetsOf(0, {}, s)
    BY LevelFacts
  <2>. QED
    BY <2>1 DEF SetsOf, VenueBook
<1>. QED
  BY <1>1 DEF NoBook, VenueBook, BookWithout

(* What a decoder starts with is sound, ...                                *)
LEMMA BsBegins == BsInit => BsSound
<1>. SUFFICES ASSUME BsInit PROVE BsSound
  OBVIOUS
<1>1. bsNow = 0 /\ bsSlot = Blank /\ bsShown = NoBook /\ bsStage = EmptyStage /\ bsParse = BsIdle
      /\ bsMissed = {}
  BY DEF BsInit
<1>2. BsTyped
  BY <1>1, NoBookFacts DEF BsTyped, Blank, EmptyStage
<1>3. bsParse.at = "idle"
  BY <1>1 DEF BsIdle
<1>4. FrameSound /\ ReadSound
  BY <1>3 DEF FrameSound, ReadSound, BsFraming
<1>5. ArenaSound /\ LiveSound
  BY <1>1 DEF ArenaSound, LiveSound, Blank
<1>. QED
  BY <1>2, <1>4, <1>5 DEF BsSound

(* ... and what it starts over with.                                       *)
LEMMA BsStartsOver ==
  ASSUME BsTyped, BsReset, bsParse' = BsIdle, UNCHANGED <<bsNow, bsStage>>
  PROVE  BsSound'
<1>1. bsNow' = bsNow /\ bsSlot' = Blank /\ bsShown' = NoBook /\ bsStage' = bsStage /\ bsMissed' = {}
  BY DEF BsReset
<1>2. BsTyped'
  BY <1>1, NoBookFacts DEF BsTyped, Blank
<1>3. bsParse'.at = "idle"
  BY DEF BsIdle
<1>4. FrameSound' /\ ReadSound'
  BY <1>3 DEF FrameSound, ReadSound, BsFraming
<1>5. ArenaSound' /\ LiveSound'
  BY <1>1 DEF ArenaSound, LiveSound, Blank
<1>. QED
  BY <1>2, <1>4, <1>5 DEF BsSound

(* A step that leaves the slot alone and brings nothing keeps it sound.    *)
LEMMA BsSlotStays ==
  ASSUME BsSound, BsKeep, bsNow' = bsNow, \A k : Arriving(k)' <=> Arriving(k)
  PROVE  ArenaSound' /\ LiveSound'
<1>1. bsNow' = bsNow /\ bsSlot' = bsSlot /\ bsShown' = bsShown /\ bsMissed' = bsMissed
  BY DEF BsKeep
<1>2. \A m : Buffered(m) => Buffered(m)'
  BY <1>1 DEF Buffered, BsBidsOf, BsAsksOf
<1>3. ArenaSound'
  BY <1>1, <1>2 DEF BsSound, ArenaSound
<1>4. LiveSound'
  BY <1>1 DEF BsSound, LiveSound
<1>. QED
  BY <1>3, <1>4

(* A frame comes.                                                          *)
LEMMA BsFrameStep ==
  ASSUME BsSound, NEW kind \in FrameKinds, BsFrame(kind)
  PROVE  BsSound'
<1>1. /\ bsParse = BsIdle /\ Stamp(kind) \in 1 .. MaxUpdates /\ MaxUpdates \in Nat
      /\ bsNow' = IF kind = "diff" THEN bsNow + 1 ELSE bsNow
      /\ bsParse' = [at |-> "top", kind |-> kind, micro |-> Stamp(kind), todo |-> FrameKeys,
                     body |-> IF kind \in Diffs THEN {"micro", "bid", "ask"} ELSE {},
                     side |-> "none", left |-> <<>>]
      /\ bsStage' = EmptyStage
      /\ bsSlot' = bsSlot /\ bsShown' = bsShown /\ bsMissed' = bsMissed
  BY FeedAssumption DEF BsFrame, BsKeep
<1>2. bsNow \in Nat /\ bsMissed \subseteq 1 .. bsNow
  BY DEF BsSound, BsTyped
<1>3. bsNow' \in Nat /\ bsNow <= bsNow' /\ (kind = "diff" => bsNow' = bsNow + 1)
      /\ (kind # "diff" => bsNow' = bsNow) /\ bsMissed' \subseteq 1 .. bsNow'
  BY <1>1, <1>2
<1>4. /\ bsParse'.at = "top" /\ bsParse'.kind = kind /\ bsParse'.micro = Stamp(kind)
      /\ bsParse'.todo = FrameKeys /\ bsParse'.side = "none" /\ bsParse'.left = <<>>
      /\ kind \in Diffs => bsParse'.body = {"micro", "bid", "ask"}
  BY <1>1
<1>5. kind \in {"diff", "again"} => Stamp(kind) = bsNow'
  BY <1>3 DEF Stamp
<1>6. BsTyped'
  <2>1. bsParse' \in BsParses
    <3>1. Stamp(kind) \in Nat \ {0}
      BY <1>1
    <3>2. (IF kind \in Diffs THEN {"micro", "bid", "ask"} ELSE {}) \in SUBSET {"micro", "bid", "ask"}
      OBVIOUS
    <3>. QED
      BY <1>1, <3>1, <3>2 DEF BsParses
  <2>2. bsStage' \in [levels : Seq(Nat), split : Nat]
    BY <1>1 DEF EmptyStage
  <2>. QED
    BY <1>1, <1>3, <2>1, <2>2 DEF BsSound, BsTyped
<1>7. FrameSound'
  <2>. SUFFICES ASSUME kind \in {"diff", "again"}
                PROVE  /\ bsParse'.micro = bsNow' /\ bsNow' # 0
                       /\ bsParse'.left = <<>> /\ bsParse'.body = {"micro", "bid", "ask"}
                       /\ "data" \in bsParse'.todo /\ StageFills'
    BY <1>4 DEF FrameSound
  <2>1. bsParse'.body = {"micro", "bid", "ask"}
    BY <1>4 DEF Diffs
  <2>2. StageFills'
    BY <1>1, <1>4, <2>1 DEF StageFills
  <2>. QED
    BY <1>1, <1>4, <1>5, <2>1, <2>2 DEF FrameKeys
<1>8. ReadSound'
  BY <1>4 DEF ReadSound
<1>9. ~BsFraming /\ \A k : ~Arriving(k)
  BY <1>1 DEF BsFraming, BsIdle, Arriving
<1>10. \A k : Arriving(k)' <=> kind = "diff" /\ k = bsNow'
  BY <1>4, <1>5 DEF Arriving, BsFraming
<1>11. ArenaSound'
  <2>1. ASSUME NEW m, Buffered(m) PROVE Buffered(m)'
    <3>1. m.micro \in 1 .. bsNow' /\ (kind = "diff" => m.micro # bsNow')
      BY <1>2, <1>3, <2>1 DEF Buffered
    <3>. QED
      BY <1>1, <1>10, <2>1, <3>1 DEF Buffered, BsBidsOf, BsAsksOf
  <2>2. ASSUME NEW f \in Nat, NEW k \in f .. bsNow' PROVE k \in f .. bsNow \/ Arriving(k)'
    BY <1>2, <1>3, <1>10
  <2>3. bsSlot.first \in Nat
    BY DEF BsSound, BsTyped
  <2>. QED
    BY <1>1, <1>9, <2>1, <2>2, <2>3 DEF BsSound, ArenaSound
<1>12. LiveSound'
  <2>1. CASE bsSlot.phase = "ready"
    <3>1. bsSlot.micro \in Nat /\ bsSlot.micro <= bsNow
          /\ \A k \in bsSlot.micro + 1 .. bsNow : k \in bsMissed
      BY <1>9, <2>1 DEF BsSound, BsTyped, LiveSound
    <3>2. \A k \in bsSlot.micro + 1 .. bsNow' : k \in bsMissed \/ Arriving(k)'
      BY <1>2, <1>3, <1>10, <3>1
    <3>3. \A k \in 1 .. bsSlot.micro : ~Arriving(k)'
      BY <1>2, <1>3, <1>10, <3>1
    <3>4. bsSlot.micro <= bsNow'
      BY <1>2, <1>3, <3>1
    <3>. QED
      BY <1>1, <2>1, <3>2, <3>3, <3>4 DEF BsSound, LiveSound
  <2>2. CASE bsSlot.phase # "ready"
    BY <1>1, <2>2 DEF LiveSound
  <2>. QED
    BY <2>1, <2>2
<1>. QED
  BY <1>6, <1>7, <1>8, <1>11, <1>12 DEF BsSound

(* A step within a frame: what is staged is all there is to see.           *)
LEMMA BsWithinFrame ==
  ASSUME BsSound, BsFraming, bsParse' \in BsParses,
         bsParse'.kind = bsParse.kind, bsParse'.micro = bsParse.micro,
         BsKeep, bsNow' = bsNow, bsStage' \in [levels : Seq(Nat), split : Nat], FrameSound'
  PROVE  BsSound'
<1>1. bsParse'.at \in {"top", "data"}
  BY DEF BsParses
<1>2. \A k : Arriving(k)' <=> Arriving(k)
  BY <1>1 DEF Arriving, BsFraming
<1>3. ArenaSound' /\ LiveSound'
  BY <1>2, BsSlotStays
<1>4. ReadSound'
  BY <1>1 DEF ReadSound
<1>5. BsTyped'
  BY DEF BsSound, BsTyped, BsKeep
<1>. QED
  BY <1>3, <1>4, <1>5 DEF BsSound

(* A key of the envelope is read, or one of the data but the arrays.       *)
LEMMA BsKeySteps ==
  ASSUME BsSound, (\E k \in FrameKeys : TopKey(k)) \/ ReadMicro \/ EndData
  PROVE  BsSound'
<1>1. BsFraming /\ bsParse \in BsParses /\ bsStage \in [levels : Seq(Nat), split : Nat]
  BY BsParseKinds DEF BsSound, BsTyped, BsFraming, TopKey, ReadMicro, EndData, BetweenDataKeys
<1>2. BsKeep /\ bsNow' = bsNow /\ bsStage' = bsStage
  BY DEF TopKey, ReadMicro, EndData
<1>3. /\ bsParse' \in BsParses /\ bsParse'.kind = bsParse.kind /\ bsParse'.micro = bsParse.micro
      /\ bsParse'.side = bsParse.side /\ bsParse'.left = bsParse.left
      /\ \A s \in Sides : s \in bsParse'.body <=> s \in bsParse.body
  <2>1. ASSUME NEW k \in FrameKeys, TopKey(k)
        PROVE  <1>3!:
    BY <1>1, <2>1 DEF TopKey, BsParses
  <2>2. CASE ReadMicro
    BY <1>1, <2>2 DEF ReadMicro, BetweenDataKeys, BsParses, Sides
  <2>3. CASE EndData
    BY <1>1, <2>3 DEF EndData, BetweenDataKeys, BsParses
  <2>. QED
    BY <2>1, <2>2, <2>3
<1>4. FrameSound'
  <2>. SUFFICES ASSUME bsParse'.kind \in {"diff", "again"} PROVE FrameSound'
    BY DEF FrameSound
  <2>1. /\ bsParse.micro = bsNow /\ bsNow # 0 /\ (bsParse.side = "none" => bsParse.left = <<>>)
        /\ ("data" \in bsParse.todo => bsParse.at = "top" /\ bsParse.body = {"micro", "bid", "ask"})
        /\ (bsParse.at = "top" => /\ bsParse.side = "none"
                                  /\ "data" \notin bsParse.todo => bsParse.body = {})
        /\ StageFills
    BY <1>1, <1>3 DEF BsSound, FrameSound
  <2>2. StageFills'
    BY <1>2, <1>3, <2>1 DEF StageFills, Sides
  <2>3. /\ "data" \in bsParse'.todo =>
             bsParse'.at = "top" /\ bsParse'.body = {"micro", "bid", "ask"}
        /\ bsParse'.at = "top" => /\ bsParse'.side = "none"
                                  /\ "data" \notin bsParse'.todo => bsParse'.body = {}
    <3>1. ASSUME NEW k \in FrameKeys, TopKey(k) PROVE <2>3!:
      BY <1>1, <2>1, <3>1 DEF TopKey, BsParses
    <3>2. CASE ReadMicro
      BY <1>1, <2>1, <3>2 DEF ReadMicro, BetweenDataKeys, BsParses
    <3>3. CASE EndData
      BY <1>1, <2>1, <3>3 DEF EndData, BetweenDataKeys, BsParses
    <3>. QED
      BY <3>1, <3>2, <3>3
  <2>. QED
    BY <1>2, <1>3, <2>1, <2>2, <2>3 DEF FrameSound
<1>. QED
  BY <1>1, <1>2, <1>3, <1>4, BsWithinFrame

(* An update says what it sets.                                            *)
LEMMA UpdateSpeaks ==
  ASSUME NEW k \in Nat \ {0}
  PROVE  /\ \A s \in Sides : Speaks(LevelsOf(k, k, s), k, k, s)
         /\ Speaks(Bids(k), k, k, "bid") /\ Speaks(Asks(k), k, k, "ask")
<1>1. \A s \in Sides : Speaks(LevelsOf(k, k, s), k, k, s)
  <2>1. k \in Nat /\ k <= k
    OBVIOUS
  <2>. QED
    BY <2>1, EventSpeaks
<1>. QED
  BY <1>1 DEF Bids, Asks, Sides

(* A level goes from the head of one sequence to the end of another.       *)
LEMMA MovedOver ==
  ASSUME NEW l \in Seq(Nat), NEW q \in Seq(Nat), q # <<>>
  PROVE  /\ Append(l, Head(q)) \in Seq(Nat) /\ Tail(q) \in Seq(Nat)
         /\ Append(l, Head(q)) \o Tail(q) = l \o q
<1>. DEFINE a == Append(l, Head(q))
            t == Tail(q)
            n == Len(l)
            k == Len(q)
            x == a \o t
            y == l \o q
<1>1. n \in Nat /\ k \in Nat /\ k # 0 /\ Head(q) = q[1] /\ t \in Seq(Nat) /\ Len(t) = k - 1
      /\ Head(q) \in Nat /\ \A i \in 1 .. k - 1 : t[i] = q[i + 1]
  BY HeadTailProperties
<1>2. a \in Seq(Nat) /\ Len(a) = n + 1 /\ a[n + 1] = q[1] /\ \A i \in 1 .. n : a[i] = l[i]
  BY <1>1, AppendProperties
<1>3. y \in Seq(Nat) /\ Len(y) = n + k
      /\ \A i \in 1 .. n + k : y[i] = IF i <= n THEN l[i] ELSE q[i - n]
  BY ConcatProperties
<1>. HIDE DEF a, t
<1>4. x \in Seq(Nat) /\ Len(x) = Len(a) + Len(t)
      /\ \A i \in 1 .. Len(a) + Len(t) : x[i] = IF i <= Len(a) THEN a[i] ELSE t[i - Len(a)]
  BY <1>1, <1>2, ConcatProperties
<1>. HIDE DEF x, y, n, k
<1>5. Len(x) = n + k /\ \A i \in 1 .. n + k : x[i] = IF i <= n + 1 THEN a[i] ELSE t[i - (n + 1)]
  BY <1>1, <1>2, <1>4
<1>6. ASSUME NEW i \in 1 .. n + k PROVE x[i] = y[i]
  <2>1. x[i] = IF i <= n + 1 THEN a[i] ELSE t[i - (n + 1)]
    BY <1>5
  <2>2. y[i] = IF i <= n THEN l[i] ELSE q[i - n]
    BY <1>3
  <2>3. CASE i <= n
    <3>1. i \in 1 .. n /\ i <= n + 1
      BY <1>1, <2>3
    <3>. QED
      BY <1>2, <2>1, <2>2, <2>3, <3>1
  <2>4. CASE i = n + 1
    <3>1. i - n = 1 /\ ~(i <= n) /\ i <= n + 1
      BY <1>1, <2>4
    <3>. QED
      BY <1>2, <2>1, <2>2, <2>4, <3>1
  <2>5. CASE n + 1 < i
    <3>1. i - (n + 1) \in 1 .. k - 1 /\ i - (n + 1) + 1 = i - n /\ ~(i <= n) /\ ~(i <= n + 1)
      BY <1>1, <2>5
    <3>2. t[i - (n + 1)] = q[i - n]
      BY <1>1, <3>1
    <3>. QED
      BY <2>1, <2>2, <3>1, <3>2
  <2>. QED
    BY <1>1, <2>3, <2>4, <2>5
<1>7. x = y
  BY <1>3, <1>4, <1>5, <1>6, SeqEqual
<1>. QED
  BY <1>1, <1>2, <1>7 DEF a, t, x, y

(* A sequence and nothing.                                                 *)
LEMMA AndNothing ==
  ASSUME NEW q \in Seq(Nat)
  PROVE  q \o <<>> = q /\ <<>> \o q = q
OBVIOUS

(* The stage gets an array of a frame, level by level.                     *)
LEMMA BsStageSteps ==
  ASSUME BsSound, (\E s \in Sides : StageArray(s)) \/ StageLevel \/ StageClosed
  PROVE  BsSound'
<1>1. /\ bsParse.at = "data" /\ BsFraming /\ bsParse \in BsParses
      /\ bsStage \in [levels : Seq(Nat), split : Nat]
  BY BsParseKinds
  DEF BsSound, BsTyped, BsFraming, StageArray, StageLevel, StageClosed, BetweenDataKeys
<1>2. BsKeep /\ bsNow' = bsNow
  BY DEF StageArray, StageLevel, StageClosed
<1>. DEFINE p == bsParse.micro
            B == Bids(p)
            A == Asks(p)
<1>3. SUFFICES /\ bsParse' \in BsParses /\ bsStage' \in [levels : Seq(Nat), split : Nat]
               /\ bsParse'.kind = bsParse.kind /\ bsParse'.micro = p
               /\ bsParse'.at = "data" /\ bsParse'.todo = bsParse.todo
               /\ (bsParse.kind \in {"diff", "again"} /\ FrameSound =>
                     (bsParse'.side = "none" => bsParse'.left = <<>>) /\ StageFills')
  <2>1. FrameSound'
    BY <1>1, <1>2, <1>3 DEF BsSound, FrameSound, BsFraming
  <2>. QED
    BY <1>1, <1>2, <1>3, <2>1, BsWithinFrame
<1>4. /\ p \in Nat \ {0} /\ bsParse.kind \in FrameKinds /\ bsParse.todo \in SUBSET FrameKeys
      /\ bsParse.body \in SUBSET {"micro", "bid", "ask"} /\ bsParse.side \in Sides \cup {"none"}
      /\ bsParse.left \in Seq(Nat) /\ bsStage.levels \in Seq(Nat) /\ bsStage.split \in Nat
  BY <1>1 DEF BsParses
<1>5. B \in Seq(Nat) /\ A \in Seq(Nat)
  BY <1>4, UpdateSpeaks DEF Speaks
<1>. HIDE DEF B, A
<1>6. ASSUME NEW s \in Sides, StageArray(s) PROVE <1>3!1
  <2>1. /\ bsParse.side = "none" /\ s \in bsParse.body /\ (s = "ask" => "bid" \notin bsParse.body)
        /\ bsStage' = bsStage
        /\ bsParse' = [bsParse EXCEPT !.body = @ \ {s}, !.side = s, !.left = LevelsOf(p, p, s)]
    BY <1>6 DEF StageArray, BetweenDataKeys
  <2>2. LevelsOf(p, p, s) \in Seq(Nat)
    BY <1>4, UpdateSpeaks DEF Speaks
  <2>3. /\ bsParse'.body = bsParse.body \ {s} /\ bsParse'.side = s /\ bsParse'.left = LevelsOf(p, p, s)
        /\ bsParse'.kind = bsParse.kind /\ bsParse'.micro = p
        /\ bsParse'.at = "data" /\ bsParse'.todo = bsParse.todo /\ bsParse' \in BsParses
    BY <1>1, <2>1, <2>2 DEF BsParses
  <2>4. ASSUME StageFills PROVE StageFills'
    <3>1. CASE s = "bid"
      <4>1. "ask" \in bsParse.body /\ bsStage = EmptyStage
        BY <2>1, <2>4, <3>1 DEF StageFills
      <4>2. bsParse'.left = B /\ <<>> \o B = B
        BY <1>5, <2>3, <3>1, AndNothing DEF B, Bids
      <4>3. bsStage'.split = 0 /\ bsStage'.levels \o bsParse'.left = B
        BY <2>1, <4>1, <4>2 DEF EmptyStage
      <4>. QED
        BY <2>3, <3>1, <4>1, <4>3 DEF StageFills, B
    <3>2. CASE s = "ask"
      <4>1. bsStage.levels = B /\ bsStage.split = Len(B)
        BY <2>1, <2>4, <3>2 DEF StageFills, B
      <4>2. bsParse'.left = A
        BY <2>3, <3>2 DEF A, Asks
      <4>. QED
        BY <2>1, <2>3, <3>2, <4>1, <4>2 DEF StageFills, A, B
    <3>. QED
      BY <3>1, <3>2 DEF Sides
  <2>5. s # "none"
    BY DEF Sides
  <2>. QED
    BY <1>1, <2>1, <2>3, <2>4, <2>5 DEF FrameSound
<1>7. CASE StageLevel
  <2>1. /\ bsParse.left # <<>>
        /\ bsStage' = [bsStage EXCEPT !.levels = Append(@, Head(bsParse.left))]
        /\ bsParse' = [bsParse EXCEPT !.left = Tail(@)]
    BY <1>7 DEF StageLevel
  <2>2. /\ Append(bsStage.levels, Head(bsParse.left)) \in Seq(Nat) /\ Tail(bsParse.left) \in Seq(Nat)
        /\ Append(bsStage.levels, Head(bsParse.left)) \o Tail(bsParse.left)
             = bsStage.levels \o bsParse.left
    BY <1>4, <2>1, MovedOver
  <2>3. /\ bsParse'.body = bsParse.body /\ bsParse'.side = bsParse.side
        /\ bsParse'.left = Tail(bsParse.left)
        /\ bsParse'.kind = bsParse.kind /\ bsParse'.micro = p
        /\ bsParse'.at = "data" /\ bsParse'.todo = bsParse.todo /\ bsParse' \in BsParses
    BY <1>1, <2>1, <2>2 DEF BsParses
  <2>4. /\ bsStage'.levels = Append(bsStage.levels, Head(bsParse.left)) /\ bsStage'.split = bsStage.split
        /\ bsStage' \in [levels : Seq(Nat), split : Nat]
    BY <1>1, <2>1, <2>2
  <2>5. bsStage'.levels \o bsParse'.left = bsStage.levels \o bsParse.left
    BY <2>2, <2>3, <2>4
  <2>6. ASSUME FrameSound, bsParse.kind \in {"diff", "again"}
        PROVE  bsParse'.side # "none" /\ StageFills'
    <3>1. StageFills /\ bsParse.side # "none"
      BY <1>1, <2>1, <2>6 DEF FrameSound
    <3>. QED
      BY <2>3, <2>4, <2>5, <3>1 DEF StageFills
  <2>. QED
    BY <2>3, <2>4, <2>6
<1>8. CASE StageClosed
  <2>1. /\ bsParse.side # "none" /\ bsParse.left = <<>> /\ bsParse' = [bsParse EXCEPT !.side = "none"]
        /\ bsStage' = IF bsParse.side = "bid" THEN [bsStage EXCEPT !.split = Len(bsStage.levels)]
                      ELSE bsStage
    BY <1>8 DEF StageClosed
  <2>2. /\ bsParse'.body = bsParse.body /\ bsParse'.side = "none" /\ bsParse'.left = <<>>
        /\ bsParse'.kind = bsParse.kind /\ bsParse'.micro = p
        /\ bsParse'.at = "data" /\ bsParse'.todo = bsParse.todo /\ bsParse' \in BsParses
    BY <1>1, <2>1 DEF BsParses
  <2>3. /\ bsStage'.levels = bsStage.levels /\ bsStage' \in [levels : Seq(Nat), split : Nat]
        /\ bsStage'.split = IF bsParse.side = "bid" THEN Len(bsStage.levels) ELSE bsStage.split
    BY <1>1, <1>4, <2>1
  <2>4. bsStage.levels \o bsParse.left = bsStage.levels
    BY <1>4, <2>1, AndNothing
  <2>5. ASSUME StageFills PROVE StageFills'
    <3>1. CASE bsParse.side = "bid"
      <4>1. "bid" \notin bsParse.body /\ "ask" \in bsParse.body /\ bsStage.levels = B
        BY <2>4, <2>5, <3>1 DEF StageFills, B
      <4>. QED
        BY <2>2, <2>3, <3>1, <4>1 DEF StageFills, B
    <3>2. CASE bsParse.side # "bid"
      <4>1. "bid" \notin bsParse.body /\ "ask" \notin bsParse.body /\ bsStage.levels = B \o A
            /\ bsStage.split = Len(B)
        BY <2>1, <2>4, <2>5, <3>2 DEF StageFills, A, B
      <4>. QED
        BY <2>2, <2>3, <3>2, <4>1 DEF StageFills, A, B
    <3>. QED
      BY <3>1, <3>2
  <2>. QED
    BY <1>1, <2>2, <2>3, <2>5 DEF FrameSound
<1>. QED
  BY <1>6, <1>7, <1>8

(* The parts of two sequences joined.                                      *)
LEMMA JoinedParts ==
  ASSUME NEW l \in Seq(Nat), NEW q \in Seq(Nat)
  PROVE  /\ l \o q \in Seq(Nat) /\ Len(l \o q) = Len(l) + Len(q)
         /\ \A m \in 1 .. Len(l) + 1 : \A n \in m - 1 .. Len(l) : SubSeq(l \o q, m, n) = SubSeq(l, m, n)
         /\ SubSeq(l \o q, Len(l) + 1, Len(l) + Len(q)) = q
<1>. DEFINE a == Len(l)
            b == Len(q)
            j == l \o q
<1>1. a \in Nat /\ b \in Nat
  OBVIOUS
<1>2. j \in Seq(Nat) /\ Len(j) = a + b
      /\ \A i \in 1 .. a + b : j[i] = IF i <= a THEN l[i] ELSE q[i - a]
  BY ConcatProperties
<1>. HIDE DEF a, b, j
<1>3. ASSUME NEW m \in 1 .. a + 1, NEW n \in m - 1 .. a
      PROVE  SubSeq(j, m, n) = SubSeq(l, m, n)
  <2>. DEFINE x == SubSeq(j, m, n)
              y == SubSeq(l, m, n)
  <2>1. n - m + 1 \in Nat /\ m \in 1 .. (a + b) + 1 /\ n \in m - 1 .. a + b
        /\ \A i \in 1 .. n - m + 1 : m + i - 1 \in 1 .. a + b /\ m + i - 1 <= a
    BY <1>1
  <2>2. x \in Seq(Nat) /\ Len(x) = n - m + 1 /\ \A i \in 1 .. n - m + 1 : x[i] = j[m + i - 1]
    <3>1. m \in 1 .. Len(j) + 1 /\ n \in m - 1 .. Len(j)
      BY <1>2, <2>1
    <3>. QED
      BY <1>2, <3>1, SliceFacts
  <2>3. y \in Seq(Nat) /\ Len(y) = n - m + 1 /\ \A i \in 1 .. n - m + 1 : y[i] = l[m + i - 1]
    BY SliceFacts DEF a
  <2>. HIDE DEF x, y
  <2>4. \A i \in 1 .. n - m + 1 : x[i] = y[i]
    BY <1>2, <2>1, <2>2, <2>3
  <2>5. x = y
    BY <2>2, <2>3, <2>4, SeqEqual
  <2>. QED
    BY <2>5 DEF x, y
<1>4. SubSeq(j, a + 1, a + b) = q
  <2>. DEFINE m == a + 1
              n == a + b
              x == SubSeq(j, m, n)
  <2>1. m \in 1 .. Len(j) + 1 /\ n \in m - 1 .. Len(j) /\ n - m + 1 = b
        /\ \A i \in 1 .. b : m + i - 1 \in 1 .. a + b /\ ~(m + i - 1 <= a) /\ m + i - 1 - a = i
    BY <1>1, <1>2
  <2>. HIDE DEF m, n
  <2>2. x \in Seq(Nat) /\ Len(x) = b /\ \A i \in 1 .. b : x[i] = j[m + i - 1]
    BY <1>2, <2>1, SliceFacts
  <2>. HIDE DEF x
  <2>3. ASSUME NEW i \in 1 .. b PROVE x[i] = q[i]
    <3>. DEFINE k == m + i - 1
    <3>1. k \in 1 .. a + b /\ ~(k <= a) /\ k - a = i
      BY <1>1, <2>3 DEF m
    <3>2. x[i] = j[k]
      BY <2>2, <2>3
    <3>. HIDE DEF k
    <3>. QED
      BY <1>2, <3>1, <3>2
  <2>4. x = q
    BY <2>2, <2>3, SeqEqual DEF b
  <2>. QED
    BY <2>4 DEF x, m, n
<1>. QED
  BY <1>2, <1>3, <1>4 DEF a, b, j

(* A frame of the symbol, once it is read, is staged.                      *)
LEMMA FrameStaged ==
  ASSUME BsSound, FrameRead, Ours
  PROVE  /\ bsParse \in BsParses /\ bsParse.micro = bsNow /\ bsNow \in Nat \ {0}
         /\ StagedBids = Bids(bsNow) /\ StagedAsks = Asks(bsNow)
         /\ Bids(bsNow) \in Seq(Nat) /\ Asks(bsNow) \in Seq(Nat)
         /\ bsStage.levels = Bids(bsNow) \o Asks(bsNow)
<1>. DEFINE B == Bids(bsNow)
            A == Asks(bsNow)
<1>1. BsFraming /\ bsParse \in BsParses /\ bsParse.at = "top" /\ bsParse.todo = {}
      /\ bsParse.kind \in {"diff", "again"} /\ bsNow \in Nat
  BY BsParseKinds DEF BsSound, BsTyped, BsFraming, FrameRead, Ours
<1>2. bsParse.micro = bsNow /\ bsNow # 0 /\ bsParse.body = {} /\ bsParse.side = "none" /\ StageFills
  BY <1>1 DEF BsSound, FrameSound
<1>3. bsStage.split = Len(B) /\ bsStage.levels = B \o A
  BY <1>2 DEF StageFills
<1>4. B \in Seq(Nat) /\ A \in Seq(Nat)
  BY <1>1, <1>2, UpdateSpeaks DEF Speaks
<1>. HIDE DEF A, B
<1>5. /\ Len(B \o A) = Len(B) + Len(A) /\ SubSeq(B \o A, Len(B) + 1, Len(B) + Len(A)) = A
      /\ \A m \in 1 .. Len(B) + 1 : \A n \in m - 1 .. Len(B) : SubSeq(B \o A, m, n) = SubSeq(B, m, n)
  BY <1>4, JoinedParts
<1>6. SubSeq(B \o A, 1, Len(B)) = B
  <2>1. 1 \in 1 .. Len(B) + 1 /\ Len(B) \in 1 - 1 .. Len(B)
    BY <1>4
  <2>2. SubSeq(B, 1, Len(B)) = B
    BY <1>4
  <2>. QED
    BY <1>5, <2>1, <2>2
<1>7. StagedBids = B /\ StagedAsks = A
  BY <1>3, <1>5, <1>6 DEF StagedBids, StagedAsks
<1>. QED
  BY <1>1, <1>2, <1>3, <1>4, <1>7 DEF A, B

(* A frame that fails is missed.                                           *)
LEMMA BsFailStep ==
  ASSUME BsSound, FrameFails
  PROVE  BsSound'
<1>1. BsFraming /\ bsParse \in BsParses /\ bsNow \in Nat /\ bsMissed \subseteq 1 .. bsNow
  BY BsParseKinds DEF BsSound, BsTyped, BsFraming, FrameFails
<1>2. /\ bsParse' = BsIdle /\ bsNow' = bsNow /\ bsSlot' = bsSlot /\ bsShown' = bsShown
      /\ bsStage' = bsStage
      /\ bsMissed' = IF bsParse.kind = "diff" THEN bsMissed \cup {bsParse.micro} ELSE bsMissed
  BY DEF FrameFails
<1>3. bsParse'.at = "idle"
  BY <1>2 DEF BsIdle
<1>4. \A k : ~Arriving(k)'
  BY <1>3 DEF Arriving, BsFraming
<1>5. \A k : k \in bsMissed' <=> (k \in bsMissed \/ Arriving(k))
  BY <1>1, <1>2 DEF Arriving
<1>6. \A k : Arriving(k) => k \in 1 .. bsNow
  <2>. SUFFICES ASSUME NEW k, Arriving(k) PROVE k \in 1 .. bsNow
    OBVIOUS
  <2>1. k = bsNow /\ bsNow # 0
    BY DEF BsSound, FrameSound, Arriving
  <2>. QED
    BY <1>1, <2>1
<1>7. BsTyped'
  <2>1. bsMissed' \subseteq 1 .. bsNow
    BY <1>1, <1>5, <1>6
  <2>. QED
    BY <1>2, <2>1 DEF BsSound, BsTyped
<1>8. FrameSound' /\ ReadSound'
  BY <1>3 DEF FrameSound, ReadSound, BsFraming
<1>9. ArenaSound'
  <2>1. ASSUME NEW m, Buffered(m) PROVE Buffered(m)'
    BY <1>2, <1>4, <1>5, <2>1 DEF Buffered, BsBidsOf, BsAsksOf
  <2>. QED
    BY <1>2, <1>5, <2>1 DEF BsSound, ArenaSound
<1>10. LiveSound'
  <2>1. CASE bsSlot.phase = "ready"
    <3>1. /\ bsSlot.micro <= bsNow /\ bsSlot.book = BookWithout(bsSlot.micro, bsMissed)
          /\ bsShown = bsSlot.book
          /\ \A k \in bsSlot.micro + 1 .. bsNow : k \in bsMissed \/ Arriving(k)
          /\ \A k \in 1 .. bsSlot.micro : ~Arriving(k)
      BY <2>1 DEF BsSound, LiveSound
    <3>2. BookWithout(bsSlot.micro, bsMissed) = BookWithout(bsSlot.micro, bsMissed')
      BY <1>5, <3>1, SameBook
    <3>. QED
      BY <1>2, <1>4, <1>5, <3>1, <3>2 DEF LiveSound
  <2>2. CASE bsSlot.phase # "ready"
    BY <1>2, <2>2 DEF LiveSound
  <2>. QED
    BY <2>1, <2>2
<1>. QED
  BY <1>7, <1>8, <1>9, <1>10 DEF BsSound

(* A frame that is none of the symbol's, or that is old, leaves no trace.  *)
LEMMA BsTracelessStep ==
  ASSUME BsSound, BsKeep, bsParse' = BsIdle, UNCHANGED <<bsNow, bsStage>>,
         \A k : ~Arriving(k)
  PROVE  BsSound'
<1>1. bsParse'.at = "idle"
  BY DEF BsIdle
<1>2. FrameSound' /\ ReadSound'
  BY <1>1 DEF FrameSound, ReadSound, BsFraming
<1>3. \A k : ~Arriving(k)'
  BY <1>1 DEF Arriving, BsFraming
<1>4. ArenaSound' /\ LiveSound'
  BY <1>3, BsSlotStays
<1>5. BsTyped'
  BY DEF BsSound, BsTyped, BsKeep
<1>. QED
  BY <1>2, <1>4, <1>5 DEF BsSound

(* A book to which an update is applied.                                   *)
LEMMA AppliedUpdate ==
  ASSUME NEW n \in Nat \ {0}, NEW c \in Nat, c <= n, NEW missed, NEW still,
         \A k \in c + 1 .. n - 1 : k \in still, n \notin still,
         \A k \in 1 .. c : k # n => (k \in missed <=> k \in still)
  PROVE  ApplyLevels(ApplyLevels(BookWithout(c, missed), "bid", Bids(n)), "ask", Asks(n))
           = BookWithout(n, still)
<1>. DEFINE b == BookWithout(c, missed)
            d == BookWithout(n, still)
<1>1. /\ n \in Nat /\ n <= n /\ \A k \in n .. n : k \notin still
      /\ \A k \in 1 .. c : k < n => (k \in missed <=> k \in still)
      /\ \A k \in c + 1 .. n : k < n => k \in still
  OBVIOUS
<1>2. "bid" \in Sides /\ "ask" \in Sides /\ "bid" # "ask" /\ Sides = {"bid", "ask"}
  BY DEF Sides
<1>3. Settled(b["bid"], Bids(n)) = d["bid"]
  <2>1. Speaks(Bids(n), n, n, "bid")
    BY UpdateSpeaks
  <2>. QED
    BY <1>1, <1>2, <2>1, BookMoves
<1>4. Settled(b["ask"], Asks(n)) = d["ask"]
  <2>1. Speaks(Asks(n), n, n, "ask")
    BY UpdateSpeaks
  <2>. QED
    BY <1>1, <1>2, <2>1, BookMoves
<1>5. b \in [Sides -> Nat] /\ d \in [Sides -> Nat]
  BY <1>1, BookTyped
<1>. HIDE DEF b, d
<1>. DEFINE x == ApplyLevels(b, "bid", Bids(n))
            y == ApplyLevels(x, "ask", Asks(n))
<1>6. x = [b EXCEPT !["bid"] = d["bid"]]
  BY <1>3 DEF ApplyLevels
<1>7. x["ask"] = b["ask"]
  BY <1>2, <1>5, <1>6
<1>8. y = [x EXCEPT !["ask"] = d["ask"]]
  BY <1>4, <1>7 DEF ApplyLevels
<1>9. y = d
  BY <1>2, <1>5, <1>6, <1>8
<1>. QED
  BY <1>9 DEF b, d

(* A live book gets a frame.                                               *)
LEMMA BsApplyStep ==
  ASSUME BsSound, ApplyStage
  PROVE  BsSound'
<1>1. FrameRead /\ Ours /\ bsSlot.phase = "ready" /\ bsParse' = BsIdle
      /\ bsNow' = bsNow /\ bsStage' = bsStage
  BY DEF ApplyStage, BsReady
<1>2. /\ bsParse \in BsParses /\ bsParse.micro = bsNow /\ bsNow \in Nat \ {0}
      /\ StagedBids = Bids(bsNow) /\ StagedAsks = Asks(bsNow)
      /\ Bids(bsNow) \in Seq(Nat) /\ Asks(bsNow) \in Seq(Nat)
      /\ bsStage.levels = Bids(bsNow) \o Asks(bsNow)
  BY <1>1, FrameStaged
<1>. DEFINE c == bsSlot.micro
            still == bsMissed \ {bsNow}
            new == BookWithout(bsNow, still)
<1>3. /\ c \in Nat /\ c <= bsNow /\ bsSlot.book = BookWithout(c, bsMissed) /\ bsShown = bsSlot.book
      /\ \A k \in c + 1 .. bsNow : k \in bsMissed \/ Arriving(k)
      /\ \A k \in 1 .. c : ~Arriving(k)
      /\ bsMissed \subseteq 1 .. bsNow
  BY <1>1 DEF BsSound, BsTyped, LiveSound
<1>4. \A k : Arriving(k) => k = bsNow
  BY <1>2 DEF Arriving
<1>5. bsParse'.at = "idle"
  BY <1>1 DEF BsIdle
<1>6. CASE bsParse.micro <= c
  <2>1. \A k : ~Arriving(k)
    BY <1>2, <1>3, <1>4, <1>6
  <2>2. BsKeep
    BY <1>6 DEF ApplyStage
  <2>. QED
    BY <1>1, <2>1, <2>2, BsTracelessStep
<1>7. CASE ~(bsParse.micro <= c)
  <2>1. /\ bsSlot' = [bsSlot EXCEPT !.book = Staged(bsSlot.book), !.micro = bsNow]
        /\ bsShown' = IF bsStage.levels = <<>> THEN bsShown ELSE Staged(bsSlot.book)
        /\ bsMissed' = still
    BY <1>2, <1>7 DEF ApplyStage
  <2>2. Staged(bsSlot.book) = new
    <3>1. c <= bsNow /\ bsNow \notin still
          /\ (\A k \in c + 1 .. bsNow - 1 : k \in still)
          /\ \A k \in 1 .. c : k # bsNow => (k \in bsMissed <=> k \in still)
      BY <1>2, <1>3, <1>4
    <3>. HIDE DEF c, still
    <3>2. c \in Nat /\ bsSlot.book = BookWithout(c, bsMissed)
      BY <1>3
    <3>3. ApplyLevels(ApplyLevels(BookWithout(c, bsMissed), "bid", Bids(bsNow)), "ask", Asks(bsNow))
            = BookWithout(bsNow, still)
      BY <1>2, <3>1, <3>2, AppliedUpdate
    <3>. QED
      BY <1>2, <3>2, <3>3 DEF Staged
  <2>3. new \in [Sides -> Nat] /\ bsSlot.book \in [Sides -> Nat]
    BY <1>2, <1>3, BookTyped
  <2>. HIDE DEF new
  <2>4. bsShown' = new
    <3>1. CASE bsStage.levels = <<>>
      <4>1. Bids(bsNow) = <<>> /\ Asks(bsNow) = <<>>
        <5>. DEFINE B == Bids(bsNow)
                    A == Asks(bsNow)
        <5>1. B \in Seq(Nat) /\ A \in Seq(Nat) /\ B \o A = <<>>
          BY <1>2, <3>1
        <5>. HIDE DEF A, B
        <5>2. Len(B \o A) = Len(B) + Len(A)
          BY <5>1, JoinedParts
        <5>3. Len(B) = 0 /\ Len(A) = 0
          BY <5>1, <5>2
        <5>4. B = <<>> /\ A = <<>>
          BY <5>1, <5>3
        <5>. QED
          BY <5>4 DEF A, B
      <4>2. new = bsSlot.book
        BY <1>2, <2>2, <2>3, <4>1 DEF Staged, ApplyLevels, Settled
      <4>. QED
        BY <1>3, <2>1, <3>1, <4>2
    <3>2. CASE bsStage.levels # <<>>
      BY <2>1, <2>2, <3>2
    <3>. QED
      BY <3>1, <3>2
  <2>5. bsSlot' = [bsSlot EXCEPT !.book = new, !.micro = bsNow]
    BY <2>1, <2>2
  <2>6. BsTyped'
    BY <1>1, <1>2, <1>3, <2>1, <2>3, <2>5 DEF BsSound, BsTyped
  <2>7. bsSlot'.phase = "ready" /\ bsSlot'.micro = bsNow /\ bsSlot'.book = new
    BY <1>1, <2>5 DEF BsSound, BsTyped
  <2>8. FrameSound' /\ ReadSound' /\ ArenaSound'
    BY <1>5, <2>7 DEF FrameSound, ReadSound, ArenaSound, BsFraming
  <2>9. LiveSound'
    <3>1. \A k : ~Arriving(k)'
      BY <1>5 DEF Arriving, BsFraming
    <3>2. bsNow <= bsNow /\ \A k \in bsNow + 1 .. bsNow : FALSE
      BY <1>2
    <3>3. bsSlot'.book = BookWithout(bsSlot'.micro, bsMissed')
      BY <2>1, <2>7 DEF new
    <3>. QED
      BY <1>1, <2>4, <2>7, <3>1, <3>2, <3>3 DEF LiveSound
  <2>. QED
    BY <2>6, <2>8, <2>9 DEF BsSound
<1>. QED
  BY <1>6, <1>7

(* A symbol without a book keeps a frame in its arena.                     *)
LEMMA BsBufferStep ==
  ASSUME BsSound, BufferStage
  PROVE  BsSound'
<1>1. FrameRead /\ Ours /\ bsSlot.phase # "ready" /\ bsParse' = BsIdle
      /\ bsNow' = bsNow /\ bsStage' = bsStage
  BY DEF BufferStage, BsReady
<1>2. /\ bsParse \in BsParses /\ bsParse.micro = bsNow /\ bsNow \in Nat \ {0}
      /\ StagedBids = Bids(bsNow) /\ StagedAsks = Asks(bsNow)
      /\ Bids(bsNow) \in Seq(Nat) /\ Asks(bsNow) \in Seq(Nat)
      /\ bsStage.levels = Bids(bsNow) \o Asks(bsNow)
  BY <1>1, FrameStaged
<1>. DEFINE B == Bids(bsNow)
            A == Asks(bsNow)
            l == bsSlot.levels
            meta == bsSlot.meta
            from == Len(l)
            grown == (l \o B) \o A
            m == [micro |-> bsNow, start |-> from, bidEnd |-> from + Len(B), end |-> Len(grown)]
            s == [bsSlot EXCEPT !.levels = grown, !.meta = Append(meta, m)]
            still == bsMissed \ {bsNow}
<1>3. /\ bsSlot.phase = "bootstrapping" /\ bsSlot.micro \in Nat /\ bsSlot.book \in [Sides -> Nat]
      /\ l \in Seq(Nat) /\ meta \in Seq(BsMeta) /\ bsSlot.first \in Nat
      /\ bsMissed \subseteq 1 .. bsNow
      /\ bsSlot \in [phase : {"bootstrapping", "ready"}, micro : Nat, book : [Sides -> Nat],
                     levels : Seq(Nat), meta : Seq(BsMeta), first : Nat]
  BY <1>1 DEF BsSound, BsTyped
<1>4. B \in Seq(Nat) /\ A \in Seq(Nat)
  BY <1>2
<1>. HIDE DEF B, A
<1>5. /\ l \o B \in Seq(Nat) /\ Len(l \o B) = from + Len(B)
      /\ grown \in Seq(Nat) /\ Len(grown) = from + Len(B) + Len(A) /\ from \in Nat
      /\ Len(B) \in Nat /\ Len(A) \in Nat
  <2>1. l \o B \in Seq(Nat) /\ Len(l \o B) = from + Len(B)
    BY <1>3, <1>4, JoinedParts
  <2>. DEFINE lb == l \o B
  <2>. HIDE DEF lb
  <2>2. lb \o A \in Seq(Nat) /\ Len(lb \o A) = Len(lb) + Len(A)
    BY <1>4, <2>1, JoinedParts DEF lb
  <2>. QED
    BY <1>3, <1>4, <2>1, <2>2 DEF lb
<1>6. ASSUME NEW a \in 1 .. from + 1, NEW b \in a - 1 .. from
      PROVE  SubSeq(grown, a, b) = SubSeq(l, a, b)
  <2>. DEFINE lb == l \o B
  <2>1. SubSeq(lb, a, b) = SubSeq(l, a, b)
    BY <1>3, <1>4, <1>6, JoinedParts
  <2>2. lb \in Seq(Nat) /\ a \in 1 .. Len(lb) + 1 /\ b \in a - 1 .. Len(lb)
    BY <1>5, <1>6
  <2>. HIDE DEF lb
  <2>3. SubSeq(lb \o A, a, b) = SubSeq(lb, a, b)
    BY <1>4, <2>2, JoinedParts
  <2>. QED
    BY <2>1, <2>3 DEF lb
<1>7. SubSeq(grown, from + 1, from + Len(B)) = B
      /\ SubSeq(grown, from + Len(B) + 1, Len(grown)) = A
  <2>. DEFINE lb == l \o B
  <2>1. SubSeq(lb, from + 1, from + Len(B)) = B
    BY <1>3, <1>4, JoinedParts
  <2>2. lb \in Seq(Nat) /\ Len(lb) = from + Len(B)
        /\ from + 1 \in 1 .. Len(lb) + 1 /\ from + Len(B) \in from + 1 - 1 .. Len(lb)
    BY <1>5
  <2>. HIDE DEF lb
  <2>. DEFINE x == from + 1
              y == from + Len(B)
  <2>3. x \in 1 .. Len(lb) + 1 /\ y \in x - 1 .. Len(lb)
    BY <2>2
  <2>. HIDE DEF x, y
  <2>4. SubSeq(lb \o A, x, y) = SubSeq(lb, x, y)
    BY <1>4, <2>2, <2>3, JoinedParts
  <2>5. SubSeq(lb \o A, Len(lb) + 1, Len(lb) + Len(A)) = A /\ Len(lb \o A) = Len(lb) + Len(A)
    BY <1>4, <2>2, JoinedParts
  <2>. QED
    BY <2>1, <2>2, <2>4, <2>5 DEF lb, x, y
<1>. HIDE DEF grown
<1>8. m \in BsMeta /\ m.micro = bsNow /\ m.start = from /\ m.bidEnd = from + Len(B)
      /\ m.end = Len(grown) /\ Append(meta, m) \in Seq(BsMeta)
  BY <1>2, <1>3, <1>5 DEF BsMeta
<1>. DEFINE metas == Append(meta, m)
<1>9. /\ Len(metas) = Len(meta) + 1 /\ Len(meta) \in Nat /\ metas[Len(meta) + 1] = m
      /\ \A i \in 1 .. Len(meta) : metas[i] = meta[i] /\ meta[i] \in BsMeta
  BY <1>3, <1>8, AppendProperties
<1>10. bsStage.levels = B \o A /\ Len(bsStage.levels) = Len(B) + Len(A)
       /\ StagedBids = B /\ StagedAsks = A
  <2>1. Len(B \o A) = Len(B) + Len(A)
    BY <1>4, JoinedParts
  <2>. QED
    BY <1>2, <2>1 DEF B, A
<1>11. /\ \/ BsReset
          \/ /\ bsSlot' = IF s.first = 0 THEN [s EXCEPT !.first = bsNow] ELSE s
             /\ bsMissed' = still /\ bsShown' = bsShown
  <2>1. from + Len(bsStage.levels) = Len(grown) /\ from + Len(StagedBids) = from + Len(B)
        /\ l \o StagedBids \o StagedAsks = grown
    <3>1. from + (Len(B) + Len(A)) = from + Len(B) + Len(A)
      <4>1. from \in Nat /\ Len(B) \in Nat /\ Len(A) \in Nat
        BY <1>5
      <4>. DEFINE b == Len(B)
                  a == Len(A)
      <4>. HIDE DEF from, a, b
      <4>2. from + (b + a) = from + b + a
        BY <4>1 DEF a, b
      <4>. QED
        BY <4>2 DEF a, b
    <3>2. from + Len(bsStage.levels) = Len(grown)
      BY <1>5, <1>10, <3>1
    <3>3. l \o StagedBids \o StagedAsks = grown
      BY <1>10 DEF grown
    <3>. QED
      BY <1>10, <3>2, <3>3
  <2>2. [micro |-> bsParse.micro, start |-> from, bidEnd |-> from + Len(StagedBids),
         end |-> from + Len(bsStage.levels)] = m
    BY <1>2, <2>1
  <2>3. [bsSlot EXCEPT !.levels = @ \o StagedBids \o StagedAsks, !.meta = Append(@, m)] = s
    BY <2>1
  <2>. HIDE DEF m, s, from
  <2>. QED
    BY <1>2, <2>2, <2>3 DEF BufferStage, from
<1>12. CASE BsReset
  BY <1>1, <1>12, BsStartsOver DEF BsSound
<1>13. CASE /\ bsSlot' = IF s.first = 0 THEN [s EXCEPT !.first = bsNow] ELSE s
            /\ bsMissed' = still /\ bsShown' = bsShown
  <2>1. /\ bsSlot'.phase = "bootstrapping" /\ bsSlot'.levels = grown /\ bsSlot'.meta = metas
        /\ bsSlot'.first = IF bsSlot.first = 0 THEN bsNow ELSE bsSlot.first
        /\ bsSlot' \in [phase : {"bootstrapping", "ready"}, micro : Nat, book : [Sides -> Nat],
                        levels : Seq(Nat), meta : Seq(BsMeta), first : Nat]
    BY <1>2, <1>3, <1>5, <1>8, <1>13
  <2>2. bsParse'.at = "idle"
    BY <1>1 DEF BsIdle
  <2>3. \A k : ~Arriving(k)'
    BY <2>2 DEF Arriving, BsFraming
  <2>4. BsTyped'
    BY <1>1, <1>3, <1>13, <2>1 DEF BsSound, BsTyped
  <2>5. FrameSound' /\ ReadSound' /\ LiveSound'
    BY <2>1, <2>2 DEF FrameSound, ReadSound, LiveSound, BsFraming
  <2>6. /\ bsShown = NoBook
        /\ \A i \in 1 .. Len(meta) : Buffered(meta[i])
        /\ \A i, j \in 1 .. Len(meta) : i < j => meta[i].micro <= meta[j].micro
        /\ bsSlot.first # 0 =>
             \A k \in bsSlot.first .. bsNow :
               k \in bsMissed \/ Arriving(k) \/ \E i \in 1 .. Len(meta) : meta[i].micro = k
    BY <1>3 DEF BsSound, ArenaSound
  <2>. HIDE DEF still, metas, m
  <2>7. ASSUME NEW x \in BsMeta, Buffered(x) PROVE Buffered(x)'
    <3>. DEFINE a == x.start
                b == x.bidEnd
                e == x.end
    <3>1. /\ a <= b /\ b <= e /\ e <= from /\ a \in Nat /\ b \in Nat /\ e \in Nat
          /\ SubSeq(l, a + 1, b) = Bids(x.micro) /\ SubSeq(l, b + 1, e) = Asks(x.micro)
          /\ x.micro \in 1 .. bsNow /\ x.micro \notin bsMissed
      BY <2>7 DEF Buffered, BsMeta, BsBidsOf, BsAsksOf
    <3>. HIDE DEF a, b, e, from, l
    <3>2. /\ a + 1 \in 1 .. from + 1 /\ b \in a + 1 - 1 .. from
          /\ b + 1 \in 1 .. from + 1 /\ e \in b + 1 - 1 .. from /\ e <= Len(grown)
      BY <1>5, <3>1
    <3>3. SubSeq(grown, a + 1, b) = SubSeq(l, a + 1, b) /\ SubSeq(grown, b + 1, e) = SubSeq(l, b + 1, e)
      BY <1>6, <3>2
    <3>4. x.micro \notin bsMissed'
      BY <1>13, <3>1 DEF still
    <3>. QED
      BY <1>1, <2>1, <2>3, <3>1, <3>2, <3>3, <3>4 DEF Buffered, BsBidsOf, BsAsksOf, a, b, e
  <2>8. ASSUME NEW x, x = m PROVE Buffered(x)'
    <3>1. m.start <= m.bidEnd /\ m.bidEnd <= m.end /\ m.end <= Len(grown)
      BY <1>5, <1>8
    <3>2. m.micro \in 1 .. bsNow /\ m.micro \notin bsMissed'
      BY <1>2, <1>8, <1>13 DEF still
    <3>3. SubSeq(grown, m.start + 1, m.bidEnd) = Bids(m.micro)
          /\ SubSeq(grown, m.bidEnd + 1, m.end) = Asks(m.micro)
      BY <1>7, <1>8 DEF A, B
    <3>. QED
      BY <1>1, <2>1, <2>3, <2>8, <3>1, <3>2, <3>3 DEF Buffered, BsBidsOf, BsAsksOf
  <2>9. ASSUME NEW i \in 1 .. Len(metas), NEW x, x = metas[i] PROVE Buffered(x)'
    <3>1. i \in 1 .. Len(meta) \/ i = Len(meta) + 1
      BY <1>9, <2>9 DEF metas
    <3>2. CASE i \in 1 .. Len(meta)
      <4>1. x = meta[i] /\ meta[i] \in BsMeta /\ Buffered(meta[i])
        BY <1>9, <2>6, <2>9, <3>2 DEF metas
      <4>2. x \in BsMeta /\ Buffered(x)
        BY <4>1
      <4>. QED
        BY <2>7, <4>2
    <3>3. CASE i = Len(meta) + 1
      <4>1. x = m
        BY <1>9, <2>9, <3>3 DEF metas
      <4>. QED
        BY <2>8, <4>1
    <3>. QED
      BY <3>1, <3>2, <3>3
  <2>10. \A i, j \in 1 .. Len(metas) : i < j => metas[i].micro <= metas[j].micro
    <3>1. ASSUME NEW i \in 1 .. Len(metas), NEW j \in 1 .. Len(metas), i < j
          PROVE  metas[i].micro <= metas[j].micro
      <4>1. i \in 1 .. Len(meta) /\ (j \in 1 .. Len(meta) \/ j = Len(meta) + 1)
            /\ metas[i] = meta[i] /\ metas[i].micro \in 1 .. bsNow
        <5>1. i \in 1 .. Len(meta) /\ (j \in 1 .. Len(meta) \/ j = Len(meta) + 1)
          BY <1>9, <3>1 DEF metas
        <5>2. metas[i] = meta[i] /\ Buffered(meta[i])
          BY <1>9, <2>6, <5>1 DEF metas
        <5>. QED
          BY <5>1, <5>2 DEF Buffered
      <4>2. CASE j \in 1 .. Len(meta)
        BY <1>9, <2>6, <3>1, <4>1, <4>2 DEF metas
      <4>3. CASE j = Len(meta) + 1
        BY <1>2, <1>8, <1>9, <4>1, <4>3 DEF metas
      <4>. QED
        BY <4>1, <4>2, <4>3
    <3>. QED
      BY <3>1
  <2>11. ASSUME NEW k \in bsSlot'.first .. bsNow
         PROVE  k \in bsMissed' \/ \E i \in 1 .. Len(metas) : metas[i].micro = k
    <3>1. CASE k = bsNow
      <4>1. Len(meta) + 1 \in 1 .. Len(metas) /\ metas[Len(meta) + 1].micro = bsNow
        BY <1>8, <1>9 DEF metas
      <4>. QED
        BY <3>1, <4>1
    <3>2. CASE k # bsNow
      <4>1. bsSlot.first # 0 /\ k \in bsSlot.first .. bsNow
        BY <1>2, <2>1, <2>11, <3>2
      <4>2. ~Arriving(k)
        BY <1>2, <3>2 DEF Arriving
      <4>3. CASE k \in bsMissed
        BY <1>13, <3>2, <4>3 DEF still
      <4>4. CASE k \notin bsMissed
        <5>1. PICK i \in 1 .. Len(meta) : meta[i].micro = k
          BY <2>6, <4>1, <4>2, <4>4
        <5>2. i \in 1 .. Len(metas) /\ metas[i] = meta[i]
          BY <1>9, <5>1 DEF metas
        <5>. QED
          BY <5>1, <5>2
      <4>. QED
        BY <4>3, <4>4
    <3>. QED
      BY <3>1, <3>2
  <2>12. ArenaSound'
    <3>1. \A i \in 1 .. Len(bsSlot'.meta) : \A x : x = bsSlot'.meta[i] => Buffered(x)'
      BY <2>1, <2>9
    <3>2. (\A i \in 1 .. Len(bsSlot.meta) : Buffered(bsSlot.meta[i]))'
      BY <3>1
    <3>3. bsShown' = NoBook
      BY <1>13, <2>6
    <3>. QED
      BY <1>1, <2>1, <2>10, <2>11, <3>2, <3>3 DEF ArenaSound
  <2>. QED
    BY <2>4, <2>5, <2>12 DEF BsSound
<1>. QED
  BY <1>11, <1>12, <1>13

(* A snapshot begins, or one of its keys is read: the book is the slot's   *)
(* own until the end.                                                      *)
LEMMA BsReadSteps ==
  ASSUME BsSound,
         (\E at \in 0 .. MaxUpdates : BsSnapshot(at)) \/ (\E k \in {"micro", "bid", "ask"} : BsSnapshotKey(k))
  PROVE  BsSound'
<1>1. bsSlot.phase = "bootstrapping" /\ \A k : ~Arriving(k)
  <2>1. bsSlot.phase \in {"bootstrapping", "ready"}
    BY DEF BsSound, BsTyped
  <2>2. CASE \E at \in 0 .. MaxUpdates : BsSnapshot(at)
    BY <2>1, <2>2 DEF BsSnapshot, BsReady, Arriving, BsFraming, BsIdle
  <2>3. CASE \E k \in {"micro", "bid", "ask"} : BsSnapshotKey(k)
    BY <2>3 DEF BsSnapshotKey, BsSound, ReadSound, Arriving, BsFraming
  <2>. QED
    BY <2>2, <2>3
<1>2. bsNow' = bsNow /\ bsShown' = bsShown /\ bsStage' = bsStage /\ bsMissed' = bsMissed
      /\ bsNow \in Nat
  BY DEF BsSnapshot, BsSnapshotKey, BsSound, BsTyped
<1>3. SUFFICES /\ bsParse' \in BsReads /\ bsParse'.id <= bsNow /\ bsSlot.first # 0
               /\ \E b \in [Sides -> Nat] :
                    /\ bsSlot' = [bsSlot EXCEPT !.book = b]
                    /\ \A s \in Sides : b[s] = IF s \in bsParse'.todo THEN 0 ELSE VenueBook(bsParse'.id)[s]
  <2>1. PICK b \in [Sides -> Nat] :
               /\ bsSlot' = [bsSlot EXCEPT !.book = b]
               /\ \A s \in Sides : b[s] = IF s \in bsParse'.todo THEN 0 ELSE VenueBook(bsParse'.id)[s]
    BY <1>3
  <2>2. /\ bsSlot'.phase = "bootstrapping" /\ bsSlot'.first = bsSlot.first /\ bsSlot'.book = b
        /\ bsSlot'.levels = bsSlot.levels /\ bsSlot'.meta = bsSlot.meta
    BY <1>1, <2>1 DEF BsSound, BsTyped
  <2>3. bsParse'.at = "snapshot"
    BY <1>3 DEF BsReads
  <2>4. BsTyped'
    BY <1>2, <1>3, <2>1 DEF BsSound, BsTyped
  <2>5. FrameSound' /\ LiveSound'
    BY <2>2, <2>3 DEF FrameSound, LiveSound, BsFraming
  <2>6. ReadSound'
    BY <1>2, <1>3, <2>1, <2>2 DEF ReadSound
  <2>7. \A k : ~Arriving(k)'
    BY <2>3 DEF Arriving, BsFraming
  <2>8. \A m : Buffered(m) => Buffered(m)'
    BY <1>2, <2>2, <2>7 DEF Buffered, BsBidsOf, BsAsksOf
  <2>9. ArenaSound'
    BY <1>1, <1>2, <2>2, <2>8 DEF BsSound, ArenaSound
  <2>. QED
    BY <2>4, <2>5, <2>6, <2>9 DEF BsSound
<1>4. ASSUME NEW at \in 0 .. MaxUpdates, BsSnapshot(at) PROVE <1>3!1
  <2>1. /\ bsParse' = [at |-> "snapshot", id |-> at, todo |-> {"micro", "bid", "ask"}]
        /\ bsSlot' = [bsSlot EXCEPT !.book = NoBook] /\ bsSlot.first # 0 /\ at <= bsNow
    BY <1>4 DEF BsSnapshot
  <2>2. NoBook \in [Sides -> Nat] /\ \A s \in Sides : NoBook[s] = 0
    BY NoBookFacts
  <2>3. bsParse' \in BsReads /\ bsParse'.id = at /\ Sides \subseteq bsParse'.todo
    BY <2>1, FeedAssumption DEF BsReads, Sides
  <2>. QED
    BY <2>1, <2>2, <2>3
<1>5. ASSUME NEW k \in {"micro", "bid", "ask"}, BsSnapshotKey(k) PROVE <1>3!1
  <2>1. /\ bsParse.at = "snapshot" /\ k \in bsParse.todo
        /\ bsParse' = [bsParse EXCEPT !.todo = @ \ {k}]
        /\ bsSlot' = IF k = "micro" THEN bsSlot
                     ELSE [bsSlot EXCEPT !.book = ApplyLevels(@, k, SnapshotOf(bsParse.id, k))]
    BY <1>5 DEF BsSnapshotKey
  <2>2. /\ bsParse \in BsReads /\ bsSlot.first # 0 /\ bsParse.id <= bsNow
        /\ \A s \in Sides : bsSlot.book[s] = IF s \in bsParse.todo THEN 0 ELSE VenueBook(bsParse.id)[s]
        /\ bsSlot.book \in [Sides -> Nat]
    BY <2>1, BsParseKinds DEF BsSound, BsTyped, ReadSound
  <2>3. bsParse' \in BsReads /\ bsParse'.id = bsParse.id /\ bsParse'.todo = bsParse.todo \ {k}
        /\ bsParse.id \in Nat
    BY <2>1, <2>2 DEF BsReads
  <2>4. CASE k = "micro"
    <3>1. bsSlot' = [bsSlot EXCEPT !.book = bsSlot.book]
      BY <2>1, <2>4 DEF BsSound, BsTyped
    <3>2. \A s \in Sides : s \in bsParse'.todo <=> s \in bsParse.todo
      BY <2>3, <2>4 DEF Sides
    <3>. QED
      BY <2>2, <2>3, <3>1, <3>2
  <2>5. CASE k # "micro"
    <3>. DEFINE v == VenueBook(bsParse.id)
                b == ApplyLevels(bsSlot.book, k, SnapshotOf(bsParse.id, k))
    <3>1. k \in Sides /\ v \in [Sides -> Nat]
      BY <2>3, <2>5, BookTyped DEF Sides, VenueBook
    <3>2. bsSlot.book[k] = 0
      BY <2>1, <2>2, <3>1
    <3>3. Settled(bsSlot.book[k], SnapshotOf(bsParse.id, k)) = v[k]
      BY <3>2 DEF Settled, SnapshotOf
    <3>. HIDE DEF v
    <3>4. b = [bsSlot.book EXCEPT ![k] = v[k]]
      BY <3>3 DEF ApplyLevels
    <3>5. b \in [Sides -> Nat] /\ \A s \in Sides : b[s] = IF s = k THEN v[k] ELSE bsSlot.book[s]
      BY <2>2, <3>1, <3>4
    <3>6. \A s \in Sides : b[s] = IF s \in bsParse'.todo THEN 0 ELSE v[s]
      BY <2>2, <2>3, <3>5 DEF v
    <3>. HIDE DEF b
    <3>7. bsSlot' = [bsSlot EXCEPT !.book = b]
      BY <2>1, <2>5 DEF b
    <3>. QED
      BY <2>2, <2>3, <3>5, <3>6, <3>7 DEF v
  <2>. QED
    BY <2>4, <2>5
<1>. QED
  BY <1>4, <1>5

(* What is not the symbol's, and what starts it over.                      *)
LEMMA BsOtherSteps ==
  ASSUME BsSound, Ignore \/ RequestReconnect \/ BsResync \/ BsSnapshotFails
  PROVE  BsSound'
<1>1. BsTyped
  BY DEF BsSound
<1>2. CASE Ignore
  <2>1. \A k : ~Arriving(k)
    BY <1>2 DEF Ignore, Arriving
  <2>. QED
    BY <1>2, <2>1, BsTracelessStep DEF Ignore
<1>3. CASE RequestReconnect \/ BsResync
  BY <1>1, <1>3, BsStartsOver DEF RequestReconnect, BsResync
<1>4. CASE BsSnapshotFails
  <2>1. \A k : ~Arriving(k)
    BY <1>4 DEF BsSnapshotFails, Arriving, BsFraming
  <2>2. bsParse' = BsIdle /\ UNCHANGED <<bsNow, bsStage>> /\ (BsKeep \/ BsReset)
    BY <1>4 DEF BsSnapshotFails
  <2>. QED
    BY <1>1, <2>1, <2>2, BsTracelessStep, BsStartsOver
<1>. QED
  BY <1>2, <1>3, <1>4

(* Levels that are applied leave a book.                                   *)
LEMMA AppliedTyped ==
  ASSUME NEW b \in [Sides -> Nat], NEW s \in Sides, NEW levels \in Seq(Nat)
  PROVE  ApplyLevels(b, s, levels) \in [Sides -> Nat]
<1>1. Settled(b[s], levels) \in Nat
  BY DEF Settled
<1>. QED
  BY <1>1 DEF ApplyLevels

(* The replay, diff by diff.                                               *)
BsSteps ==
  CHOOSE after : after = [i \in 0 .. Len(bsSlot.meta) |->
    IF i = 0 THEN [book |-> bsSlot.book, micro |-> bsParse.id]
    ELSE BsReplayed(after[i - 1], bsSlot.meta[i])]

(* They exist, and the last is what the replay makes.                      *)
LEMMA BsReplaySteps ==
  ASSUME BsSound, bsParse.at = "snapshot"
  PROVE  /\ BsReplay = BsSteps[Len(bsSlot.meta)]
         /\ BsSteps[0] = [book |-> bsSlot.book, micro |-> bsParse.id]
         /\ \A i \in 1 .. Len(bsSlot.meta) : BsSteps[i] = BsReplayed(BsSteps[i - 1], bsSlot.meta[i])
<1>. DEFINE n == Len(bsSlot.meta)
            X == [book : [Sides -> Nat], micro : Nat]
            base == [book |-> bsSlot.book, micro |-> bsParse.id]
            step == [i \in 0 .. n |-> [r \in X |-> IF i = 0 THEN r ELSE BsReplayed(r, bsSlot.meta[i])]]
            E(f) == f = [i \in 0 .. n |-> IF i = 0 THEN base ELSE BsReplayed(f[i - 1], bsSlot.meta[i])]
            U == BsSteps
<1>1. /\ n \in Nat /\ bsSlot.book \in [Sides -> Nat] /\ bsParse.id \in Nat
      /\ \A i \in 1 .. n : Buffered(bsSlot.meta[i])
  BY BsParseKinds DEF BsSound, BsTyped, ReadSound, ArenaSound, BsReads
<1>2. base \in X
  BY <1>1
<1>3. ASSUME NEW i \in 1 .. n, NEW r \in X PROVE BsReplayed(r, bsSlot.meta[i]) \in X
  <2>. DEFINE m == bsSlot.meta[i]
              B == Bids(m.micro)
              A == Asks(m.micro)
  <2>1. BsBidsOf(m) = B /\ BsAsksOf(m) = A /\ m.micro \in Nat \ {0}
    BY <1>1 DEF Buffered
  <2>2. B \in Seq(Nat) /\ A \in Seq(Nat)
    BY <2>1, UpdateSpeaks DEF Speaks
  <2>3. r.book \in [Sides -> Nat] /\ "bid" \in Sides /\ "ask" \in Sides
    BY <1>3 DEF Sides
  <2>. HIDE DEF m, B, A
  <2>4. ApplyLevels(r.book, "bid", B) \in [Sides -> Nat]
    BY <2>2, <2>3, AppliedTyped
  <2>5. ApplyLevels(ApplyLevels(r.book, "bid", B), "ask", A) \in [Sides -> Nat]
    BY <2>2, <2>3, <2>4, AppliedTyped
  <2>6. BsReplayed(r, m) \in X
    BY <1>3, <2>1, <2>5 DEF BsReplayed
  <2>. QED
    BY <2>6 DEF m
<1>4. step \in [0 .. n -> [X -> X]]
  <2>1. ASSUME NEW i \in 0 .. n, NEW r \in X
        PROVE  (IF i = 0 THEN r ELSE BsReplayed(r, bsSlot.meta[i])) \in X
    <3>1. i = 0 \/ i \in 1 .. n
      BY <1>1
    <3>. QED
      BY <1>3, <3>1
  <2>. HIDE DEF X, n
  <2>. QED
    BY <2>1
<1>5. PICK f \in [0 .. n -> X] : /\ f[0] = base
                                 /\ \A i \in 0 .. n : i # 0 => f[i] = step[i][f[i - 1]]
  <2>1. 0 \in Int /\ n \in Int /\ 0 <= n
    BY <1>1
  <2>. HIDE DEF n, X, step, base
  <2>2. \E f \in [0 .. n -> X] : GoesOn(f, 0, n, base, step)
    BY <1>2, <1>4, <2>1, Recursion
  <2>. QED
    BY <2>2 DEF GoesOn
<1>6. E(f)
  <2>1. ASSUME NEW i \in 0 .. n
        PROVE  f[i] = IF i = 0 THEN base ELSE BsReplayed(f[i - 1], bsSlot.meta[i])
    <3>1. CASE i = 0
      BY <1>5, <3>1
    <3>2. CASE i # 0
      <4>1. i - 1 \in 0 .. n
        BY <1>1, <3>2
      <4>2. f[i - 1] \in X /\ f[i] = step[i][f[i - 1]]
        BY <1>5, <3>2, <4>1
      <4>. HIDE DEF X
      <4>. QED
        BY <3>2, <4>2
    <3>. QED
      BY <3>1, <3>2
  <2>. HIDE DEF X, n, base
  <2>. QED
    BY <1>5, <2>1
<1>7. E(U)
  <2>1. U = CHOOSE g : E(g)
    BY DEF BsSteps
  <2>. HIDE DEF E, U
  <2>. QED
    BY <1>6, <2>1
<1>8. BsReplay = U[n]
  BY DEF BsReplay, BsSteps
<1>. HIDE DEF U, n, base
<1>9. U[0] = base /\ \A i \in 1 .. n : U[i] = BsReplayed(U[i - 1], bsSlot.meta[i])
  <2>1. 0 \in 0 .. n /\ \A i \in 1 .. n : i \in 0 .. n /\ i # 0
    BY <1>1
  <2>. QED
    BY <1>7, <2>1
<1>. QED
  BY <1>8, <1>9 DEF U, n, base

(* A snapshot with the diffs after it: the book of the last one.           *)
LEMMA BsReplayMakes ==
  ASSUME BsSound, bsParse.at = "snapshot", bsParse.todo = {}, bsParse.id >= bsSlot.first
  PROVE  /\ BsReplay.micro \in bsParse.id .. bsNow
         /\ BsReplay.book = BookWithout(BsReplay.micro, {k \in bsMissed : k > bsParse.id})
         /\ \A i \in 1 .. Len(bsSlot.meta) : bsSlot.meta[i].micro <= BsReplay.micro
<1>. DEFINE meta == bsSlot.meta
            n == Len(meta)
            id == bsParse.id
            later == {k \in bsMissed : k > id}
            after == BsSteps
            Made(i) == /\ after[i].micro \in id .. bsNow
                       /\ after[i].book = BookWithout(after[i].micro, later)
                       /\ \A j \in 1 .. i : meta[j].micro <= after[i].micro
                       /\ after[i].micro = id \/ \E j \in 1 .. i : after[i].micro = meta[j].micro
<1>1. /\ BsReplay = after[n] /\ after[0] = [book |-> bsSlot.book, micro |-> id]
      /\ \A i \in 1 .. n : after[i] = BsReplayed(after[i - 1], meta[i])
  BY BsReplaySteps
<1>2. /\ n \in Nat /\ id \in Nat /\ bsNow \in Nat /\ id <= bsNow /\ bsSlot.first \in Nat
      /\ bsSlot.first # 0 /\ bsSlot.first <= id /\ bsSlot.book \in [Sides -> Nat]
      /\ \A s \in Sides : bsSlot.book[s] = VenueBook(id)[s]
      /\ bsSlot.phase = "bootstrapping"
  BY BsParseKinds DEF BsSound, BsTyped, ReadSound, BsReads
<1>3. /\ \A i \in 1 .. n : Buffered(meta[i])
      /\ \A i, j \in 1 .. n : i < j => meta[i].micro <= meta[j].micro
      /\ \A k \in bsSlot.first .. bsNow : k \in bsMissed \/ \E i \in 1 .. n : meta[i].micro = k
  <2>1. \A k : ~Arriving(k)
    BY DEF Arriving, BsFraming
  <2>. QED
    BY <1>2, <2>1 DEF BsSound, ArenaSound
<1>. HIDE DEF after
<1>4. Made(0)
  <2>1. BookWithout(id, later) = BookWithout(id, {})
    <3>1. \A k \in 1 .. id : k \in later <=> k \in {}
      BY <1>2
    <3>. HIDE DEF later, id
    <3>. QED
      BY <3>1, SameBook
  <2>2. VenueBook(id) \in [Sides -> Nat] /\ VenueBook(id) = BookWithout(id, {})
    BY <1>2, BookTyped DEF VenueBook
  <2>3. bsSlot.book = VenueBook(id)
    BY <1>2, <2>2
  <2>4. after[0].micro = id /\ after[0].book = bsSlot.book
    BY <1>1
  <2>5. id \in id .. bsNow
    BY <1>2
  <2>. HIDE DEF id, later
  <2>. QED
    BY <2>1, <2>2, <2>3, <2>4, <2>5
<1>5. ASSUME NEW i \in 1 .. n, Made(i - 1) PROVE Made(i)
  <2>. DEFINE m == meta[i]
              p == m.micro
              r == after[i - 1]
              c == r.micro
              q == after[i]
  <2>1. /\ q = BsReplayed(r, m) /\ c \in id .. bsNow /\ r.book = BookWithout(c, later)
        /\ \A j \in 1 .. i - 1 : meta[j].micro <= c
        /\ c = id \/ \E j \in 1 .. i - 1 : c = meta[j].micro
    BY <1>1, <1>5
  <2>2. BsBidsOf(m) = Bids(p) /\ BsAsksOf(m) = Asks(p) /\ p \in 1 .. bsNow /\ p \notin bsMissed
    BY <1>3, <1>5 DEF Buffered
  <2>3. c = id \/ c <= p
    <3>1. \A j \in 1 .. i - 1 : j \in 1 .. n /\ j < i
      BY <1>2, <1>5
    <3>. QED
      BY <1>3, <1>5, <2>1, <3>1
  <2>4. \A j \in 1 .. i : j \in 1 .. i - 1 \/ j = i
    BY <1>2, <1>5
  <2>5. i - 1 \in 0 .. n /\ 1 .. i - 1 \subseteq 1 .. i /\ i \in 1 .. i
    BY <1>2, <1>5
  <2>. HIDE DEF m, p, r, c, q
  <2>6. CASE p <= id
    <3>1. q = r
      BY <2>1, <2>6 DEF BsReplayed, p
    <3>2. p <= c /\ \A j \in 1 .. i : meta[j].micro <= c
      <4>1. p <= c
        BY <1>2, <2>1, <2>2, <2>6
      <4>. QED
        BY <2>1, <2>4, <4>1 DEF p, m
    <3>. QED
      BY <2>1, <2>5, <3>1, <3>2 DEF c, r, q
  <2>7. CASE ~(p <= id)
    <3>1. q = [book |-> ApplyLevels(ApplyLevels(r.book, "bid", Bids(p)), "ask", Asks(p)), micro |-> p]
      BY <2>1, <2>2, <2>7 DEF BsReplayed, p
    <3>2. c <= p /\ c \in Nat /\ p \in Nat \ {0} /\ id <= c /\ id < p /\ p <= bsNow
      BY <1>2, <2>1, <2>2, <2>3, <2>7
    <3>3. \A k \in c + 1 .. p - 1 : k \in later
      <4>. SUFFICES ASSUME NEW k \in c + 1 .. p - 1 PROVE k \in later
        OBVIOUS
      <4>1. k \in bsSlot.first .. bsNow /\ k > id /\ ~(k <= c) /\ ~(p <= k)
        BY <1>2, <3>2
      <4>2. k \in bsMissed
        <5>1. SUFFICES ASSUME NEW j \in 1 .. n, meta[j].micro = k PROVE FALSE
          BY <1>3, <4>1
        <5>2. CASE j \in 1 .. i - 1
          BY <2>1, <4>1, <5>1, <5>2
        <5>3. CASE j = i
          BY <4>1, <5>1, <5>3, <3>2 DEF p, m
        <5>4. CASE i < j
          BY <1>3, <1>5, <4>1, <5>1, <5>4 DEF p, m
        <5>. QED
          BY <1>2, <1>5, <5>1, <5>2, <5>3, <5>4
      <4>. QED
        BY <4>1, <4>2
    <3>4. p \notin later
      BY <2>2
    <3>. HIDE DEF later
    <3>5. ApplyLevels(ApplyLevels(BookWithout(c, later), "bid", Bids(p)), "ask", Asks(p))
            = BookWithout(p, later)
      BY <3>2, <3>3, <3>4, AppliedUpdate
    <3>6. q.micro = p /\ q.book = BookWithout(p, later)
      BY <2>1, <3>1, <3>5
    <3>7. \A j \in 1 .. i : meta[j].micro <= p
      <4>1. \A j \in 1 .. i - 1 : j \in 1 .. n /\ j < i
        BY <1>2, <1>5
      <4>2. p <= p
        BY <3>2
      <4>. QED
        BY <1>3, <1>5, <2>4, <4>1, <4>2 DEF p, m
    <3>8. p \in id .. bsNow
      BY <1>2, <3>2
    <3>. HIDE DEF id
    <3>9. p = meta[i].micro
      BY DEF p, m
    <3>. QED
      BY <2>5, <3>6, <3>7, <3>8, <3>9 DEF q
  <2>. QED
    BY <2>6, <2>7
<1>. HIDE DEF Made
<1>6. Made(n)
  <2>. DEFINE T == {i \in 0 .. n : ~Made(i)}
  <2>1. SUFFICES ASSUME T # {} PROVE FALSE
    BY <1>2
  <2>2. T \subseteq Nat
    BY <1>2
  <2>3. PICK i \in T : \A j \in T : i <= j
    BY <2>1, <2>2, LeastNatural
  <2>4. i \in 0 .. n /\ ~Made(i)
    BY <2>3
  <2>5. i \in 1 .. n /\ i - 1 \in 0 .. n /\ ~(i <= i - 1)
    BY <1>2, <1>4, <2>4
  <2>6. Made(i - 1)
    BY <2>3, <2>5
  <2>. QED
    BY <1>5, <2>4, <2>5, <2>6
<1>. QED
  BY <1>1, <1>6 DEF Made

(* A snapshot has been read.                                               *)
LEMMA BsEndStep ==
  ASSUME BsSound, BsSnapshotEnds
  PROVE  BsSound'
<1>. DEFINE r == BsReplay
            later == {k \in bsMissed : k > bsParse.id}
<1>1. /\ bsParse.at = "snapshot" /\ bsParse.todo = {} /\ bsParse.id >= bsSlot.first
      /\ bsSlot' = [Blank EXCEPT !.phase = "ready", !.book = r.book, !.micro = r.micro]
      /\ bsShown' = r.book /\ bsMissed' = later /\ bsParse' = BsIdle
      /\ bsNow' = bsNow /\ bsStage' = bsStage
  BY DEF BsSnapshotEnds
<1>2. /\ r.micro \in bsParse.id .. bsNow /\ r.book = BookWithout(r.micro, later)
      /\ \A i \in 1 .. Len(bsSlot.meta) : bsSlot.meta[i].micro <= r.micro
  BY <1>1, BsReplayMakes
<1>3. /\ bsParse.id \in Nat /\ bsNow \in Nat /\ bsMissed \subseteq 1 .. bsNow
      /\ bsSlot.first \in Nat /\ bsSlot.first # 0 /\ bsSlot.phase = "bootstrapping"
      /\ bsSlot.meta \in Seq(BsMeta)
  BY <1>1, BsParseKinds DEF BsSound, BsTyped, ReadSound, BsReads
<1>4. \A k \in bsSlot.first .. bsNow :
        k \in bsMissed \/ \E i \in 1 .. Len(bsSlot.meta) : bsSlot.meta[i].micro = k
  <2>1. \A k : ~Arriving(k)
    BY <1>1 DEF Arriving, BsFraming
  <2>. QED
    BY <1>3, <2>1 DEF BsSound, ArenaSound
<1>. HIDE DEF r
<1>5. r.micro \in Nat /\ r.micro <= bsNow
  BY <1>2, <1>3
<1>. HIDE DEF later
<1>6. r.book \in [Sides -> Nat]
  BY <1>2, <1>5, BookTyped
<1>7. /\ bsSlot'.phase = "ready" /\ bsSlot'.micro = r.micro /\ bsSlot'.book = r.book
      /\ bsSlot' \in [phase : {"bootstrapping", "ready"}, micro : Nat, book : [Sides -> Nat],
                      levels : Seq(Nat), meta : Seq(BsMeta), first : Nat]
  <2>. DEFINE b == r.book
              c == r.micro
  <2>1. b \in [Sides -> Nat] /\ c \in Nat
    BY <1>5, <1>6
  <2>. HIDE DEF b, c
  <2>2. bsSlot' = [Blank EXCEPT !.phase = "ready", !.book = b, !.micro = c]
    BY <1>1 DEF b, c
  <2>3. bsSlot' = [phase |-> "ready", micro |-> c, book |-> b, levels |-> <<>>, meta |-> <<>>, first |-> 0]
    BY <2>2 DEF Blank
  <2>4. <<>> \in Seq(Nat) /\ <<>> \in Seq(BsMeta) /\ 0 \in Nat
    OBVIOUS
  <2>. QED
    BY <2>1, <2>3, <2>4 DEF b, c
<1>8. later \subseteq 1 .. bsNow
  BY <1>3 DEF later
<1>9. BsTyped'
  BY <1>1, <1>7, <1>8 DEF BsSound, BsTyped
<1>10. bsParse'.at = "idle"
  BY <1>1 DEF BsIdle
<1>11. FrameSound' /\ ReadSound' /\ ArenaSound'
  BY <1>7, <1>10 DEF FrameSound, ReadSound, ArenaSound, BsFraming
<1>12. LiveSound'
  <2>1. \A k : ~Arriving(k)'
    BY <1>10 DEF Arriving, BsFraming
  <2>2. ASSUME NEW k \in r.micro + 1 .. bsNow PROVE k \in later
    <3>1. k \in bsSlot.first .. bsNow /\ k > bsParse.id /\ ~(k <= r.micro)
      BY <1>1, <1>2, <1>3, <2>2
    <3>2. k \in bsMissed
      BY <1>2, <1>4, <3>1
    <3>. QED
      BY <3>1, <3>2 DEF later
  <2>. QED
    BY <1>1, <1>2, <1>5, <1>7, <2>1, <2>2 DEF LiveSound
<1>. QED
  BY <1>9, <1>11, <1>12 DEF BsSound

(* Whatever happens, the decoder stays sound.                              *)
LEMMA BsKeeps == BsSound /\ [BsNext]_bsVars => BsSound'
<1>. SUFFICES ASSUME BsSound, [BsNext]_bsVars PROVE BsSound'
  OBVIOUS
<1>1. CASE UNCHANGED bsVars
  BY <1>1
  DEF bsVars, BsSound, BsTyped, FrameSound, ReadSound, ArenaSound, LiveSound, StageFills, Buffered,
      BsBidsOf, BsAsksOf, Arriving, BsFraming
<1>2. CASE BsNext
  <2>1. CASE \E kind \in FrameKinds : BsFrame(kind)
    BY <2>1, BsFrameStep
  <2>2. CASE (\E k \in FrameKeys : TopKey(k)) \/ ReadMicro \/ EndData
    BY <2>2, BsKeySteps
  <2>3. CASE (\E s \in Sides : StageArray(s)) \/ StageLevel \/ StageClosed
    BY <2>3, BsStageSteps
  <2>4. CASE FrameFails
    BY <2>4, BsFailStep
  <2>5. CASE Ignore \/ RequestReconnect \/ BsResync \/ BsSnapshotFails
    BY <2>5, BsOtherSteps
  <2>6. CASE ApplyStage
    BY <2>6, BsApplyStep
  <2>7. CASE BufferStage
    BY <2>7, BsBufferStep
  <2>8. CASE (\E at \in 0 .. MaxUpdates : BsSnapshot(at))
             \/ (\E k \in {"micro", "bid", "ask"} : BsSnapshotKey(k))
    BY <2>8, BsReadSteps
  <2>9. CASE BsSnapshotEnds
    BY <2>9, BsEndStep
  <2>. QED
    BY <1>2, <2>1, <2>2, <2>3, <2>4, <2>5, <2>6, <2>7, <2>8, <2>9 DEF BsNext
<1>. QED
  BY <1>1, <1>2

(* And a sound one has whole books.                                        *)
LEMMA SoundIsWhole == BsSound => BitstampBookIsWhole
<1>. SUFFICES ASSUME BsSound, bsParse = BsIdle PROVE BitstampBookIsWhole
  BY DEF BitstampBookIsWhole
<1>1. bsSlot.phase \in {"bootstrapping", "ready"} /\ bsSlot.meta \in Seq(BsMeta)
  BY DEF BsSound, BsTyped
<1>2. bsSlot.phase = "ready" => bsSlot.book = BookWithout(bsSlot.micro, bsMissed) /\ bsShown = bsSlot.book
  BY DEF BsSound, LiveSound
<1>3. bsSlot.phase # "ready" =>
        /\ bsShown = NoBook
        /\ \A i \in DOMAIN bsSlot.meta :
             LET m == bsSlot.meta[i]
             IN  /\ BsBidsOf(m) = LevelsOf(m.micro, m.micro, "bid")
                 /\ BsAsksOf(m) = LevelsOf(m.micro, m.micro, "ask")
  <2>1. DOMAIN bsSlot.meta = 1 .. Len(bsSlot.meta)
    BY <1>1
  <2>. QED
    BY <1>1, <2>1 DEF BsSound, ArenaSound, Buffered, Bids, Asks
<1>. QED
  BY <1>2, <1>3 DEF BitstampBookIsWhole, BsReady

(* A book is what the frames that were decoded make it.                    *)
THEOREM BitstampBooksAreWhole == Spec => []BitstampBookIsWhole
<1>1. Init => BsSound
  BY InitOfParts, BsBegins
<1>2. BsSound /\ [Next]_structureVars => BsSound'
  <2>. SUFFICES ASSUME BsSound, [Next]_structureVars PROVE BsSound'
    OBVIOUS
  <2>1. [BsNext]_bsVars
    BY StepsOfParts DEF structureVars
  <2>. QED
    BY <2>1, BsKeeps
<1>. QED
  BY <1>1, <1>2, SoundIsWhole, PTL DEF Spec

-----------------------------------------------------------------------------
(* The decoder of Binance *)

BnMeta == [first : Nat, last : Nat, start : Nat, bidEnd : Nat, end : Nat]
BnSlots == [phase : {"bootstrapping", "seeded", "live"}, cursor : Nat, book : [Sides -> Nat],
            levels : Seq(Nat), meta : Seq(BnMeta), first : Nat]
BnEnvelopes == [at : {"envelope"}, first : Nat \ {0}, last : Nat]
BnBodies ==
  [at : {"body", "tail"}, first : Nat \ {0}, last : Nat, applied : BOOLEAN, moved : BOOLEAN,
   todo : SUBSET {"U", "u", "bid", "ask"}, side : Sides \cup {"none"}, left : Seq(Nat),
   start : Nat, bidEnd : Nat]
BnReads == [at : {"snapshot"}, id : Nat, todo : SUBSET {"id", "bid", "ask"}]

(* The types of a decoder of Binance.                                      *)
BnTyped ==
  /\ bnNow \in Nat /\ bnSlot \in BnSlots
  /\ \/ bnParse = BnIdle \/ bnParse = [at |-> "control"]
     \/ bnParse \in BnEnvelopes \/ bnParse \in BnBodies \/ bnParse \in BnReads

InDiff == bnParse.at \in {"body", "tail"}
Wire(s) == LevelsOf(bnParse.first, bnParse.last, s)

(* Where a diff is: an array is open or none, and at the end all is read.  *)
BodySound ==
  /\ bnParse.at \in {"envelope", "body", "tail"} => bnParse.first <= bnParse.last
  /\ InDiff => /\ bnParse.side \notin bnParse.todo
               /\ bnParse.side = "none" => bnParse.left = <<>>
               /\ bnParse.at = "tail" => bnParse.todo = {} /\ bnParse.side = "none"

(* A side of a live book: as it was, about to be what the diff makes it,   *)
(* or that, unless the diff is old.                                        *)
SideApplies(s) ==
  LET was == VenueBook(bnSlot.cursor)[s]
      is == bnSlot.book[s]
  IN  /\ s \in bnParse.todo => is = was
      /\ s = bnParse.side => Settled(is, bnParse.left) = Settled(was, Wire(s))
      /\ s \notin bnParse.todo /\ s # bnParse.side =>
           is = IF bnParse.last > MinId THEN Settled(was, Wire(s)) ELSE was

(* A book, live or seeded, is the venue's, but for what a diff has done to *)
(* it so far; readers see it as it was before.                             *)
BookApplies ==
  BnReady =>
    /\ bnShown = VenueBook(bnSlot.cursor)
    /\ ~InDiff => bnSlot.book = VenueBook(bnSlot.cursor)
    /\ InDiff => /\ \A s \in Sides : SideApplies(s)
                 /\ ~bnParse.moved => bnSlot.book = VenueBook(bnSlot.cursor)
                 /\ bnParse.applied \/ bnParse.side # "none" => bnParse.last > MinId
                 /\ ~bnParse.applied /\ bnParse.last > MinId => Sides \subseteq bnParse.todo
                 /\ bnSlot.phase = "live" /\ "U" \notin bnParse.todo =>
                      bnParse.first = bnSlot.cursor + 1

(* The arrays of a diff still to come, the bids first, and what is in the  *)
(* arena of it.                                                            *)
ArenaFills ==
  LET l == bnSlot.levels
      f == bnParse.start
      b == bnParse.bidEnd
  IN  /\ f <= b /\ b <= Len(l)
      /\ \/ Sides \subseteq bnParse.todo /\ bnParse.side = "none" /\ f = Len(l)
         \/ /\ "bid" \notin bnParse.todo /\ "ask" \in bnParse.todo /\ bnParse.side = "bid"
            /\ SubSeq(l, f + 1, Len(l)) \o bnParse.left = Wire("bid")
         \/ /\ "bid" \notin bnParse.todo /\ "ask" \in bnParse.todo /\ bnParse.side = "none"
            /\ b = Len(l) /\ SubSeq(l, f + 1, b) = Wire("bid")
         \/ /\ "bid" \notin bnParse.todo /\ "ask" \notin bnParse.todo /\ bnParse.side = "ask"
            /\ SubSeq(l, f + 1, b) = Wire("bid")
            /\ SubSeq(l, b + 1, Len(l)) \o bnParse.left = Wire("ask")
         \/ /\ "bid" \notin bnParse.todo /\ "ask" \notin bnParse.todo /\ bnParse.side = "none"
            /\ SubSeq(l, f + 1, b) = Wire("bid") /\ SubSeq(l, b + 1, Len(l)) = Wire("ask")

(* A diff in the arena lies behind the one before, and has its levels.     *)
Arrived(i) ==
  LET m == bnSlot.meta[i]
  IN  /\ m.first # 0 /\ m.first <= m.last
      /\ m.start = EndOf(i - 1)
      /\ m.start <= m.bidEnd /\ m.bidEnd <= m.end /\ m.end <= Len(bnSlot.levels)
      /\ BidsOf(m) = LevelsOf(m.first, m.last, "bid")
      /\ AsksOf(m) = LevelsOf(m.first, m.last, "ask")

(* While there is no book nothing is shown, and the arena holds the diffs  *)
(* and what has come of another.                                           *)
DiffsArrive ==
  ~BnReady =>
    /\ bnShown = NoBook
    /\ \A i \in 1 .. Len(bnSlot.meta) : Arrived(i)
    /\ bnParse.at # "body" => EndOf(Len(bnSlot.meta)) = Len(bnSlot.levels)
    /\ bnParse.at = "body" => bnParse.start = EndOf(Len(bnSlot.meta)) /\ ArenaFills

(* The book has the sides of the snapshot that were read.                  *)
SnapshotRead ==
  bnParse.at = "snapshot" =>
    /\ ~BnReady
    /\ \A s \in Sides :
         bnSlot.book[s] = IF s \in bnParse.todo THEN 0 ELSE VenueBook(bnParse.id)[s]

BnSound == BnTyped /\ BodySound /\ BookApplies /\ DiffsArrive /\ SnapshotRead

(* Where a parse is tells what it is.                                      *)
LEMMA BnParseKinds ==
  ASSUME BnTyped
  PROVE  /\ bnParse.at = "envelope" => bnParse \in BnEnvelopes
         /\ InDiff => bnParse \in BnBodies
         /\ bnParse.at = "snapshot" => bnParse \in BnReads
         /\ bnParse = BnIdle => bnParse.at = "idle"
         /\ bnParse.at \in {"idle", "control", "envelope", "body", "tail", "snapshot"}
BY DEF BnTyped, BnIdle, BnEnvelopes, BnBodies, BnReads, InDiff

(* A slot is bootstrapping or has a book.                                  *)
LEMMA BnPhases ==
  ASSUME BnTyped
  PROVE  /\ bnSlot.phase \in {"bootstrapping", "seeded", "live"}
         /\ BnReady <=> bnSlot.phase # "bootstrapping"
BY DEF BnTyped, BnSlots, BnReady

(* What a decoder of Binance starts with is sound, ...                     *)
LEMMA BnBegins == BnInit => BnSound
<1>. SUFFICES ASSUME BnInit PROVE BnSound
  OBVIOUS
<1>1. bnNow = 0 /\ bnSlot = Fresh /\ bnShown = NoBook /\ bnParse = BnIdle
  BY DEF BnInit
<1>2. BnTyped
  BY <1>1, NoBookFacts DEF BnTyped, Fresh, BnSlots
<1>3. bnParse.at = "idle" /\ ~BnReady /\ Len(bnSlot.meta) = 0 /\ Len(bnSlot.levels) = 0
  BY <1>1 DEF BnIdle, Fresh, BnReady
<1>4. BodySound /\ BookApplies /\ SnapshotRead
  BY <1>3 DEF BodySound, BookApplies, SnapshotRead, InDiff
<1>5. DiffsArrive
  BY <1>1, <1>3 DEF DiffsArrive, EndOf
<1>. QED
  BY <1>2, <1>4, <1>5 DEF BnSound

(* ... and what it starts over with.                                       *)
LEMMA BnStartsOver ==
  ASSUME BnTyped, BnReset, bnParse' = BnIdle, bnNow' = bnNow
  PROVE  BnSound'
<1>1. bnSlot' = Fresh /\ bnShown' = NoBook
  BY DEF BnReset
<1>2. BnTyped'
  BY <1>1, NoBookFacts DEF BnTyped, Fresh, BnSlots
<1>3. bnParse'.at = "idle" /\ ~BnReady' /\ Len(bnSlot'.meta) = 0 /\ Len(bnSlot'.levels) = 0
  BY <1>1 DEF BnIdle, Fresh, BnReady
<1>4. BodySound' /\ BookApplies' /\ SnapshotRead'
  BY <1>3 DEF BodySound, BookApplies, SnapshotRead, InDiff
<1>5. DiffsArrive'
  BY <1>1, <1>3 DEF DiffsArrive, EndOf
<1>. QED
  BY <1>2, <1>4, <1>5 DEF BnSound

(* The diffs in the arena of a slot that is left alone.                    *)
LEMMA BnArenaStays ==
  ASSUME bnSlot' = bnSlot
  PROVE  (BnReady' <=> BnReady) /\ \A i : (Arrived(i)' <=> Arrived(i)) /\ EndOf(i)' = EndOf(i)
BY DEF BnReady, Arrived, EndOf, BidsOf, AsksOf

(* A step between diffs that leaves the slot alone.                        *)
LEMMA BnOutsideStep ==
  ASSUME BnSound, BnKeep, bnNow' \in Nat, ~InDiff, bnParse.at # "snapshot" \/ bnParse' = BnIdle,
         \/ bnParse' = BnIdle \/ bnParse' = [at |-> "control"]
         \/ bnParse' \in BnEnvelopes /\ bnParse'.first <= bnParse'.last
  PROVE  BnSound'
<1>1. bnParse'.at \in {"idle", "control", "envelope"} /\ ~InDiff' /\ BnTyped'
      /\ (bnParse'.at = "envelope" => bnParse'.first <= bnParse'.last)
  BY DEF BnSound, BnTyped, BnKeep, BnIdle, BnEnvelopes, InDiff
<1>2. bnSlot' = bnSlot /\ bnShown' = bnShown /\ bnParse.at # "body"
  BY DEF BnKeep, InDiff
<1>3. BodySound' /\ SnapshotRead'
  BY <1>1 DEF BodySound, SnapshotRead, InDiff
<1>4. BookApplies'
  BY <1>1, <1>2, BnArenaStays DEF BnSound, BookApplies
<1>5. DiffsArrive'
  <2>1. bnParse'.at # "body"
    BY <1>1
  <2>. QED
    BY <1>2, <2>1, BnArenaStays DEF BnSound, DiffsArrive
<1>. QED
  BY <1>1, <1>3, <1>4, <1>5 DEF BnSound

(* What is no event, or none of a slot that anybody knows.                 *)
LEMMA BnOtherSteps ==
  ASSUME BnSound,
         \/ \E n \in 1 .. 2 : BnMiss(n) \/ BnFrame(n)
         \/ EnvelopeFails \/ BodyFails \/ BnResync \/ SnapshotFails \/ EndReply
         \/ \E v \in Found, key \in ReplyKeys : Say(key, v)
  PROVE  BnSound'
<1>1. BnTyped /\ bnNow \in Nat
  BY DEF BnSound, BnTyped
<1>2. ASSUME NEW n \in 1 .. 2, BnMiss(n) \/ BnFrame(n) PROVE BnSound'
  <2>1. bnParse = BnIdle /\ bnNow' = bnNow + n /\ BnKeep
    BY <1>2 DEF BnMiss, BnFrame
  <2>2. bnParse.at = "idle" /\ ~InDiff
    BY <2>1 DEF BnIdle, InDiff
  <2>3. bnNow' \in Nat
    BY <1>1, <2>1
  <2>4. CASE BnMiss(n)
    <3>1. bnParse' = BnIdle
      BY <2>1, <2>4 DEF BnMiss
    <3>. QED
      BY <2>1, <2>2, <2>3, <3>1, BnOutsideStep
  <2>5. CASE BnFrame(n)
    <3>1. bnParse' = [at |-> "envelope", first |-> bnNow + 1, last |-> bnNow + n]
      BY <2>5 DEF BnFrame
    <3>2. bnNow + 1 \in Nat \ {0} /\ bnNow + n \in Nat /\ bnNow + 1 <= bnNow + n
      BY <1>1
    <3>3. bnParse' \in BnEnvelopes /\ bnParse'.first <= bnParse'.last
      BY <3>1, <3>2 DEF BnEnvelopes
    <3>. QED
      BY <2>1, <2>2, <2>3, <3>3, BnOutsideStep
  <2>. QED
    BY <1>2, <2>4, <2>5
<1>3. CASE EnvelopeFails
  <2>1. bnParse.at = "envelope" /\ bnParse' = BnIdle /\ BnKeep /\ bnNow' = bnNow
    BY <1>3 DEF EnvelopeFails
  <2>. QED
    BY <1>1, <2>1, BnOutsideStep DEF InDiff
<1>4. CASE BodyFails
  BY <1>1, <1>4, BnStartsOver DEF BodyFails
<1>5. CASE BnResync
  BY <1>1, <1>5, BnStartsOver DEF BnResync
<1>6. CASE SnapshotFails
  <2>1. bnParse.at = "snapshot" /\ bnParse' = BnIdle /\ bnNow' = bnNow /\ (BnKeep \/ BnReset)
    BY <1>6 DEF SnapshotFails, Refetched
  <2>. QED
    BY <1>1, <2>1, BnOutsideStep, BnStartsOver DEF InDiff
<1>7. CASE EndReply
  <2>1. bnParse.at = "control" /\ bnParse' = BnIdle /\ BnKeep /\ bnNow' = bnNow
    BY <1>7 DEF EndReply
  <2>. QED
    BY <1>1, <2>1, BnOutsideStep DEF InDiff
<1>8. ASSUME NEW v \in Found, NEW key \in ReplyKeys, Say(key, v) PROVE BnSound'
  <2>1. bnParse \in {BnIdle, [at |-> "control"]} /\ bnParse' = [at |-> "control"] /\ BnKeep
        /\ bnNow' = bnNow
    BY <1>8 DEF Say
  <2>2. bnParse.at \in {"idle", "control"}
    BY <2>1 DEF BnIdle
  <2>. QED
    BY <1>1, <2>1, <2>2, BnOutsideStep DEF InDiff
<1>. QED
  BY <1>2, <1>3, <1>4, <1>5, <1>6, <1>7, <1>8

-----------------------------------------------------------------------------
(* What a diff does *)

(* The levels of a diff say what it sets.                                  *)
LEMMA WireSpeaks ==
  ASSUME BnSound, InDiff, NEW s \in Sides
  PROVE  /\ bnParse \in BnBodies /\ bnParse.first <= bnParse.last
         /\ Wire(s) \in Seq(Nat) /\ Speaks(Wire(s), bnParse.first, bnParse.last, s)
<1>1. bnParse \in BnBodies /\ bnParse.first <= bnParse.last
  BY BnParseKinds DEF BnSound, BodySound, InDiff
<1>2. bnParse.first \in Nat \ {0} /\ bnParse.last \in Nat
  BY <1>1 DEF BnBodies
<1>3. Speaks(Wire(s), bnParse.first, bnParse.last, s)
  BY <1>1, <1>2, EventSpeaks DEF Wire
<1>. QED
  BY <1>1, <1>3 DEF Speaks

(* Applied to the book before it, a diff makes the book after it.          *)
LEMMA AppliedEvent ==
  ASSUME NEW c \in Nat, NEW first \in Nat \ {0}, NEW n \in Nat, first <= n, c <= n, first <= c + 1,
         NEW s \in Sides
  PROVE  Settled(VenueBook(c)[s], LevelsOf(first, n, s)) = VenueBook(n)[s]
<1>. DEFINE x == BookWithout(c, {})[s]
            levels == LevelsOf(first, n, s)
            y == levels[Len(levels)]
<1>1. x \in SetsOf(c, {}, s) /\ \A j \in SetsOf(c, {}, s) : j <= x
  BY LevelFacts
<1>2. Speaks(levels, first, n, s)
  BY EventSpeaks
<1>3. x = VenueBook(c)[s] /\ VenueBook(n)[s] = BookWithout(n, {})[s]
  BY DEF VenueBook
<1>4. \A v : v \in SetsOf(n, {}, s) /\ (\A j \in SetsOf(n, {}, s) : j <= v) => VenueBook(n)[s] = v
  BY <1>3, LevelIs
<1>5. Settled(x, levels) = IF levels = <<>> THEN x ELSE y
  BY DEF Settled
<1>. HIDE DEF x, levels, y
<1>6. CASE levels = <<>>
  <2>1. \A j \in first .. n : s \notin Touched(j)
    BY <1>2, <1>6 DEF Speaks
  <2>2. x \in SetsOf(n, {}, s)
    BY <1>1 DEF SetsOf
  <2>3. ASSUME NEW j \in SetsOf(n, {}, s) PROVE j <= x
    <3>1. j = 0 \/ (j \in 1 .. n /\ s \in Touched(j))
      BY <2>3 DEF SetsOf
    <3>2. j \in SetsOf(c, {}, s)
      BY <2>1, <3>1 DEF SetsOf
    <3>. QED
      BY <1>1, <3>2
  <2>. QED
    BY <1>3, <1>4, <1>5, <1>6, <2>2, <2>3 DEF levels
<1>7. CASE levels # <<>>
  <2>1. y \in first .. n /\ s \in Touched(y) /\ \A j \in first .. n : s \in Touched(j) => j <= y
    BY <1>2, <1>7 DEF Speaks, y
  <2>2. y \in SetsOf(n, {}, s)
    BY <2>1 DEF SetsOf
  <2>3. ASSUME NEW j \in SetsOf(n, {}, s) PROVE j <= y
    BY <2>1, <2>3 DEF SetsOf
  <2>. QED
    BY <1>3, <1>4, <1>5, <1>7, <2>2, <2>3 DEF levels
<1>. QED
  BY <1>6, <1>7

(* A diff begins.                                                          *)
LEMMA BnEnterStep ==
  ASSUME BnSound, EnterBody
  PROVE  BnSound'
<1>1. /\ bnParse.at = "envelope" /\ bnParse \in BnEnvelopes /\ bnParse.first <= bnParse.last
      /\ bnParse' = Body(bnParse.first, bnParse.last)
      /\ bnSlot' = bnSlot /\ bnShown' = bnShown /\ bnNow' = bnNow
  BY BnParseKinds DEF EnterBody, BnSound, BodySound, BnKeep
<1>. DEFINE l == bnSlot.levels
<1>2. l \in Seq(Nat) /\ Len(l) \in Nat
  BY DEF BnSound, BnTyped, BnSlots
<1>3. /\ bnParse'.at = "body" /\ bnParse'.first = bnParse.first /\ bnParse'.last = bnParse.last
      /\ bnParse'.applied = FALSE /\ bnParse'.moved = FALSE /\ bnParse'.todo = {"U", "u", "bid", "ask"}
      /\ bnParse'.side = "none" /\ bnParse'.left = <<>>
      /\ bnParse'.start = Len(l) /\ bnParse'.bidEnd = Len(l) /\ bnParse' \in BnBodies
  BY <1>1, <1>2 DEF Body, BnBodies, BnEnvelopes
<1>4. BnTyped'
  BY <1>1, <1>3 DEF BnSound, BnTyped
<1>5. BodySound' /\ SnapshotRead'
  BY <1>1, <1>3 DEF BodySound, SnapshotRead
<1>6. BookApplies'
  <2>1. Sides \subseteq bnParse'.todo /\ bnParse'.side \notin Sides
    BY <1>3 DEF Sides
  <2>2. BnReady => bnShown = VenueBook(bnSlot.cursor) /\ bnSlot.book = VenueBook(bnSlot.cursor)
    BY <1>1 DEF BnSound, BookApplies, InDiff
  <2>3. ASSUME BnReady, NEW s \in Sides PROVE SideApplies(s)'
    BY <1>1, <2>1, <2>2, <2>3 DEF SideApplies
  <2>4. BnReady' <=> BnReady
    BY <1>1, BnArenaStays
  <2>. QED
    BY <1>1, <1>3, <2>1, <2>2, <2>3, <2>4 DEF BookApplies
<1>7. DiffsArrive'
  <2>1. ArenaFills'
    <3>1. Len(l) <= Len(l) /\ Sides \subseteq bnParse'.todo
      BY <1>2, <1>3 DEF Sides
    <3>. QED
      BY <1>1, <1>3, <3>1 DEF ArenaFills
  <2>2. ~BnReady => bnShown = NoBook /\ (\A i \in 1 .. Len(bnSlot.meta) : Arrived(i))
                    /\ EndOf(Len(bnSlot.meta)) = Len(l)
    BY <1>1 DEF BnSound, DiffsArrive
  <2>. QED
    BY <1>1, <1>3, <2>1, <2>2, BnArenaStays DEF DiffsArrive
<1>. QED
  BY <1>4, <1>5, <1>6, <1>7 DEF BnSound

(* A step within a diff that leaves the slot alone.                        *)
LEMMA BnWithinStep ==
  ASSUME BnSound, bnParse.at = "body", BnKeep, bnNow' = bnNow,
         bnParse' \in BnBodies, bnParse'.at = "body", BodySound',
         bnParse'.start = bnParse.start, bnParse'.moved = bnParse.moved,
         BnReady => /\ \A s \in Sides : SideApplies(s)'
                    /\ bnParse'.applied \/ bnParse'.side # "none" => bnParse'.last > MinId
                    /\ ~bnParse'.applied /\ bnParse'.last > MinId => Sides \subseteq bnParse'.todo
                    /\ bnSlot.phase = "live" /\ "U" \notin bnParse'.todo =>
                         bnParse'.first = bnSlot.cursor + 1,
         ~BnReady => ArenaFills'
  PROVE  BnSound'
<1>1. bnSlot' = bnSlot /\ bnShown' = bnShown /\ InDiff /\ InDiff' /\ MinId' = MinId
  BY DEF BnKeep, InDiff, MinId
<1>2. BnTyped'
  BY <1>1 DEF BnSound, BnTyped
<1>3. SnapshotRead'
  BY DEF SnapshotRead
<1>4. BookApplies'
  BY <1>1, BnArenaStays DEF BnSound, BookApplies
<1>5. DiffsArrive'
  BY <1>1, BnArenaStays DEF BnSound, DiffsArrive
<1>. QED
  BY <1>2, <1>3, <1>4, <1>5 DEF BnSound

(* `U` or `u` is read.                                                     *)
LEMMA BnKeySteps ==
  ASSUME BnSound, ReadFirst \/ ReadLast
  PROVE  BnSound'
<1>. DEFINE k == IF ReadFirst THEN "U" ELSE "u"
<1>1. /\ bnParse.at = "body" /\ InDiff /\ bnParse.side = "none" /\ k \in {"U", "u"}
      /\ bnParse' = [bnParse EXCEPT !.todo = @ \ {k}]
      /\ BnKeep /\ bnNow' = bnNow
      /\ (k = "U" => (bnSlot.phase = "live" => bnParse.first = bnSlot.cursor + 1))
  BY DEF ReadFirst, ReadLast, BetweenKeys, InBody, InDiff, Goes
<1>. HIDE DEF k
<1>2. bnParse \in BnBodies /\ bnParse.first <= bnParse.last /\ bnParse.left = <<>>
  BY <1>1, BnParseKinds DEF BnSound, BodySound
<1>3. /\ bnParse' \in BnBodies /\ bnParse'.at = "body" /\ bnParse'.todo = bnParse.todo \ {k}
      /\ bnParse'.first = bnParse.first /\ bnParse'.last = bnParse.last
      /\ bnParse'.applied = bnParse.applied /\ bnParse'.moved = bnParse.moved
      /\ bnParse'.side = "none" /\ bnParse'.left = <<>>
      /\ bnParse'.start = bnParse.start /\ bnParse'.bidEnd = bnParse.bidEnd
  BY <1>1, <1>2 DEF BnBodies
<1>4. /\ \A s \in Sides : s \in bnParse'.todo <=> s \in bnParse.todo
      /\ "bid" \in Sides /\ "ask" \in Sides /\ k \notin Sides /\ "none" \notin bnParse'.todo
  BY <1>1, <1>2, <1>3 DEF Sides, BnBodies
<1>5. BodySound'
  BY <1>2, <1>3, <1>4 DEF BodySound
<1>6. bnSlot' = bnSlot /\ MinId' = MinId
  BY <1>1 DEF BnKeep, MinId
<1>7. ASSUME BnReady
      PROVE  /\ \A s \in Sides : SideApplies(s)'
             /\ bnParse'.applied \/ bnParse'.side # "none" => bnParse'.last > MinId
             /\ ~bnParse'.applied /\ bnParse'.last > MinId => Sides \subseteq bnParse'.todo
             /\ bnSlot.phase = "live" /\ "U" \notin bnParse'.todo =>
                  bnParse'.first = bnSlot.cursor + 1
  <2>1. /\ \A s \in Sides : SideApplies(s)
        /\ bnParse.applied \/ bnParse.side # "none" => bnParse.last > MinId
        /\ ~bnParse.applied /\ bnParse.last > MinId => Sides \subseteq bnParse.todo
        /\ bnSlot.phase = "live" /\ "U" \notin bnParse.todo => bnParse.first = bnSlot.cursor + 1
    BY <1>1, <1>7 DEF BnSound, BookApplies
  <2>2. ASSUME NEW s \in Sides PROVE SideApplies(s)'
    BY <1>1, <1>2, <1>3, <1>4, <1>6, <2>1 DEF SideApplies, Wire
  <2>3. "U" \notin bnParse'.todo => k = "U" \/ "U" \notin bnParse.todo
    BY <1>1, <1>3
  <2>. QED
    BY <1>1, <1>3, <1>4, <2>1, <2>2, <2>3
<1>8. ASSUME ~BnReady PROVE ArenaFills'
  <2>1. ArenaFills
    BY <1>1, <1>8 DEF BnSound, DiffsArrive
  <2>. QED
    BY <1>1, <1>2, <1>3, <1>4, <1>6, <2>1 DEF ArenaFills, Wire, Sides
<1>. QED
  BY <1>1, <1>3, <1>5, <1>7, <1>8, BnWithinStep

(* An array is opened, or skipped.                                         *)
LEMMA BnArrayStep ==
  ASSUME BnSound, NEW s \in Sides, ReadArray(s)
  PROVE  BnSound'
<1>. DEFINE goes == ~BnReady \/ bnParse.last > MinId
<1>1. /\ bnParse.at = "body" /\ InDiff /\ bnParse.side = "none" /\ s \in bnParse.todo
      /\ BnKeep /\ bnNow' = bnNow
      /\ bnParse' = IF ~BnReady
                    THEN [bnParse EXCEPT !.todo = @ \ {s}, !.side = s, !.left = Wire(s)]
                    ELSE IF bnParse.last > MinId
                    THEN [bnParse EXCEPT !.todo = @ \ {s}, !.side = s, !.applied = TRUE, !.left = Wire(s)]
                    ELSE [bnParse EXCEPT !.todo = @ \ {s}]
      /\ ~BnReady => s = "bid" \/ "bid" \notin bnParse.todo
  BY DEF ReadArray, BetweenKeys, InBody, InDiff, Goes, Wire
<1>2. /\ bnParse \in BnBodies /\ bnParse.first <= bnParse.last /\ bnParse.left = <<>>
      /\ Wire(s) \in Seq(Nat) /\ s # "none"
  BY <1>1, WireSpeaks DEF BnSound, BodySound, Sides
<1>. HIDE DEF goes
<1>3. /\ bnParse' \in BnBodies /\ bnParse'.at = "body" /\ bnParse'.todo = bnParse.todo \ {s}
      /\ bnParse'.first = bnParse.first /\ bnParse'.last = bnParse.last
      /\ bnParse'.moved = bnParse.moved
      /\ bnParse'.applied = (bnParse.applied \/ (BnReady /\ bnParse.last > MinId))
      /\ bnParse'.side = IF goes THEN s ELSE "none"
      /\ bnParse'.left = IF goes THEN Wire(s) ELSE <<>>
      /\ bnParse'.start = bnParse.start /\ bnParse'.bidEnd = bnParse.bidEnd
  <2>1. CASE ~BnReady
    BY <1>1, <1>2, <2>1 DEF BnBodies, goes
  <2>2. CASE BnReady /\ bnParse.last > MinId
    BY <1>1, <1>2, <2>2 DEF BnBodies, goes
  <2>3. CASE BnReady /\ ~(bnParse.last > MinId)
    BY <1>1, <1>2, <2>3 DEF BnBodies, goes
  <2>. QED
    BY <2>1, <2>2, <2>3
<1>4. "none" \notin bnParse.todo
  BY <1>2 DEF BnBodies
<1>5. BodySound'
  BY <1>2, <1>3, <1>4 DEF BodySound
<1>6. bnSlot' = bnSlot /\ MinId' = MinId
  BY <1>1 DEF BnKeep, MinId
<1>7. ASSUME BnReady
      PROVE  /\ \A x \in Sides : SideApplies(x)'
             /\ bnParse'.applied \/ bnParse'.side # "none" => bnParse'.last > MinId
             /\ ~bnParse'.applied /\ bnParse'.last > MinId => Sides \subseteq bnParse'.todo
             /\ bnSlot.phase = "live" /\ "U" \notin bnParse'.todo =>
                  bnParse'.first = bnSlot.cursor + 1
  <2>1. /\ \A x \in Sides : SideApplies(x)
        /\ bnParse.applied \/ bnParse.side # "none" => bnParse.last > MinId
        /\ bnSlot.phase = "live" /\ "U" \notin bnParse.todo => bnParse.first = bnSlot.cursor + 1
    BY <1>1, <1>7 DEF BnSound, BookApplies
  <2>2. goes <=> bnParse.last > MinId
    BY <1>7 DEF goes
  <2>3. ASSUME NEW x \in Sides PROVE SideApplies(x)'
    <3>. DEFINE was == VenueBook(bnSlot.cursor)[x]
                is == bnSlot.book[x]
                will == Settled(was, Wire(x))
    <3>1. /\ x \in bnParse.todo => is = was
          /\ x \notin bnParse.todo => is = IF bnParse.last > MinId THEN will ELSE was
      BY <1>1, <2>1, <2>3 DEF SideApplies, Sides
    <3>2. Wire(x)' = Wire(x)
      BY <1>3 DEF Wire
    <3>3. x = s /\ goes => Settled(is, Wire(x)) = will
      BY <1>1, <3>1
    <3>. HIDE DEF was, is, will
    <3>4. /\ x \in bnParse'.todo => is = was
          /\ x = bnParse'.side => Settled(is, bnParse'.left) = will
          /\ x \notin bnParse'.todo /\ x # bnParse'.side =>
               is = IF bnParse'.last > MinId THEN will ELSE was
      <4>1. CASE x = s
        BY <1>1, <1>2, <1>3, <2>2, <3>1, <3>3, <4>1
      <4>2. CASE x # s
        <5>1. x # "none"
          BY <2>3 DEF Sides
        <5>. QED
          BY <1>3, <3>1, <4>2, <5>1
      <4>. QED
        BY <4>1, <4>2
    <3>. QED
      BY <1>6, <3>2, <3>4 DEF SideApplies, was, is, will
  <2>4. "U" \notin Sides
    BY DEF Sides
  <2>. QED
    BY <1>1, <1>3, <1>7, <2>1, <2>2, <2>3, <2>4
<1>8. ASSUME ~BnReady PROVE ArenaFills'
  <2>1. ArenaFills
    BY <1>1, <1>8 DEF BnSound, DiffsArrive
  <2>. DEFINE l == bnSlot.levels
              f == bnParse.start
              b == bnParse.bidEnd
  <2>2. /\ l \in Seq(Nat) /\ f \in Nat /\ b \in Nat /\ Len(l) \in Nat /\ f <= b /\ b <= Len(l)
        /\ bnParse'.side = s /\ bnParse'.left = Wire(s)
    BY <1>2, <1>3, <1>8, <2>1 DEF BnSound, BnTyped, BnSlots, BnBodies, ArenaFills, goes
  <2>3. Wire("bid")' = Wire("bid") /\ Wire("ask")' = Wire("ask")
    BY <1>3 DEF Wire
  <2>4. \A a \in 1 .. Len(l) + 1 : a = Len(l) + 1 => SubSeq(l, a, Len(l)) = <<>>
    BY <2>2
  <2>5. CASE s = "bid"
    <3>1. "ask" \in bnParse.todo /\ f = Len(l)
      BY <1>1, <2>1, <2>5 DEF ArenaFills, Sides
    <3>2. SubSeq(l, f + 1, Len(l)) \o Wire("bid") = Wire("bid")
      BY <1>2, <2>2, <2>4, <2>5, <3>1, AndNothing
    <3>. QED
      BY <1>3, <1>6, <2>2, <2>3, <2>5, <3>1, <3>2 DEF ArenaFills
  <2>6. CASE s = "ask"
    <3>1. "bid" \notin bnParse.todo /\ b = Len(l) /\ SubSeq(l, f + 1, b) = Wire("bid")
      BY <1>1, <1>8, <2>1, <2>6 DEF ArenaFills, Sides
    <3>2. SubSeq(l, b + 1, Len(l)) \o Wire("ask") = Wire("ask")
      BY <1>2, <2>2, <2>4, <2>6, <3>1, AndNothing
    <3>. QED
      BY <1>3, <1>6, <2>2, <2>3, <2>6, <3>1, <3>2 DEF ArenaFills
  <2>. QED
    BY <2>5, <2>6 DEF Sides
<1>. QED
  BY <1>1, <1>3, <1>5, <1>7, <1>8, BnWithinStep

(* An array is closed.                                                     *)
LEMMA BnCloseStep ==
  ASSUME BnSound, CloseArray
  PROVE  BnSound'
<1>. DEFINE l == bnSlot.levels
            end == IF bnParse.side = "bid" THEN Len(l) ELSE bnParse.bidEnd
<1>1. /\ bnParse.at = "body" /\ InDiff /\ bnParse.side # "none" /\ bnParse.left = <<>>
      /\ BnKeep /\ bnNow' = bnNow
      /\ bnParse' = [bnParse EXCEPT !.side = "none", !.bidEnd = end]
  BY DEF CloseArray, InBody, InDiff, Goes
<1>2. bnParse \in BnBodies /\ bnParse.first <= bnParse.last /\ bnParse.side \notin bnParse.todo
      /\ l \in Seq(Nat) /\ Len(l) \in Nat
  BY <1>1, BnParseKinds DEF BnSound, BnTyped, BnSlots, BodySound
<1>3. end \in Nat
  BY <1>2 DEF BnBodies
<1>. HIDE DEF end, l
<1>4. /\ bnParse' \in BnBodies /\ bnParse'.at = "body" /\ bnParse'.todo = bnParse.todo
      /\ bnParse'.first = bnParse.first /\ bnParse'.last = bnParse.last
      /\ bnParse'.moved = bnParse.moved /\ bnParse'.applied = bnParse.applied
      /\ bnParse'.side = "none" /\ bnParse'.left = <<>>
      /\ bnParse'.start = bnParse.start /\ bnParse'.bidEnd = end
  BY <1>1, <1>2, <1>3 DEF BnBodies
<1>5. BodySound'
  BY <1>2, <1>4 DEF BodySound, BnBodies
<1>6. bnSlot' = bnSlot /\ MinId' = MinId
  BY <1>1 DEF BnKeep, MinId
<1>7. ASSUME BnReady
      PROVE  /\ \A s \in Sides : SideApplies(s)'
             /\ bnParse'.applied \/ bnParse'.side # "none" => bnParse'.last > MinId
             /\ ~bnParse'.applied /\ bnParse'.last > MinId => Sides \subseteq bnParse'.todo
             /\ bnSlot.phase = "live" /\ "U" \notin bnParse'.todo =>
                  bnParse'.first = bnSlot.cursor + 1
  <2>1. /\ \A s \in Sides : SideApplies(s)
        /\ bnParse.last > MinId
        /\ ~bnParse.applied /\ bnParse.last > MinId => Sides \subseteq bnParse.todo
        /\ bnSlot.phase = "live" /\ "U" \notin bnParse.todo => bnParse.first = bnSlot.cursor + 1
    BY <1>1, <1>7 DEF BnSound, BookApplies
  <2>2. ASSUME NEW s \in Sides PROVE SideApplies(s)'
    <3>1. Wire(s)' = Wire(s) /\ s # "none"
      BY <1>4, <2>2 DEF Wire, Sides
    <3>2. s = bnParse.side => bnSlot.book[s] = Settled(VenueBook(bnSlot.cursor)[s], Wire(s))
      BY <1>1, <2>1, <2>2 DEF SideApplies, Settled
    <3>. QED
      BY <1>4, <1>6, <2>1, <2>2, <3>1, <3>2 DEF SideApplies
  <2>. QED
    BY <1>4, <2>1, <2>2
<1>8. ASSUME ~BnReady PROVE ArenaFills'
  <2>. DEFINE f == bnParse.start
              b == bnParse.bidEnd
  <2>1. /\ ArenaFills /\ f \in Nat /\ b \in Nat
    BY <1>1, <1>2, <1>8 DEF BnSound, DiffsArrive, BnBodies
  <2>2. Wire("bid")' = Wire("bid") /\ Wire("ask")' = Wire("ask")
    BY <1>4 DEF Wire
  <2>3. \A q \in Seq(Nat) : q \o <<>> = q
    BY AndNothing
  <2>4. CASE bnParse.side = "bid"
    <3>1. /\ f <= b /\ b <= Len(l) /\ "bid" \notin bnParse.todo /\ "ask" \in bnParse.todo
          /\ SubSeq(l, f + 1, Len(l)) \o <<>> = Wire("bid")
      BY <1>1, <2>1, <2>4 DEF ArenaFills, l
    <3>2. SubSeq(l, f + 1, Len(l)) \in Seq(Nat)
      BY <1>2, <2>1
    <3>3. SubSeq(l, f + 1, end) = Wire("bid") /\ end = Len(l) /\ f <= end /\ end <= Len(l)
      BY <1>2, <2>1, <2>3, <2>4, <3>1, <3>2 DEF end
    <3>. QED
      BY <1>4, <1>6, <2>2, <3>1, <3>3 DEF ArenaFills, l
  <2>5. CASE bnParse.side = "ask"
    <3>1. /\ f <= b /\ b <= Len(l) /\ "bid" \notin bnParse.todo /\ "ask" \notin bnParse.todo
          /\ SubSeq(l, f + 1, b) = Wire("bid")
          /\ SubSeq(l, b + 1, Len(l)) \o <<>> = Wire("ask")
      BY <1>1, <2>1, <2>5 DEF ArenaFills, l
    <3>2. SubSeq(l, b + 1, Len(l)) \in Seq(Nat)
      BY <1>2, <2>1
    <3>3. SubSeq(l, b + 1, Len(l)) = Wire("ask") /\ end = b
      BY <2>3, <2>5, <3>1, <3>2 DEF end
    <3>. QED
      BY <1>4, <1>6, <2>2, <3>1, <3>3 DEF ArenaFills, l
  <2>. QED
    BY <1>1, <1>2, <2>4, <2>5 DEF BnBodies, Sides
<1>. QED
  BY <1>1, <1>4, <1>5, <1>7, <1>8, BnWithinStep

(* A level at the end of an arena.                                         *)
LEMMA GrownArena ==
  ASSUME NEW l \in Seq(Nat), NEW x \in Nat
  PROVE  /\ Append(l, x) \in Seq(Nat) /\ Len(Append(l, x)) = Len(l) + 1
         /\ \A a \in 1 .. Len(l) + 1 : \A b \in a - 1 .. Len(l) : SubSeq(Append(l, x), a, b) = SubSeq(l, a, b)
         /\ \A a \in 1 .. Len(l) + 1 : /\ SubSeq(l, a, Len(l)) \in Seq(Nat)
                                       /\ SubSeq(Append(l, x), a, Len(l) + 1) = Append(SubSeq(l, a, Len(l)), x)
<1>. DEFINE g == Append(l, x)
            n == Len(l)
<1>1. /\ g \in Seq(Nat) /\ Len(g) = n + 1 /\ n \in Nat /\ g[n + 1] = x
      /\ \A i \in 1 .. n : g[i] = l[i]
  BY AppendProperties
<1>. HIDE DEF g, n
<1>2. ASSUME NEW a \in 1 .. n + 1, NEW b \in a - 1 .. n PROVE SubSeq(g, a, b) = SubSeq(l, a, b)
  <2>1. a \in 1 .. Len(g) + 1 /\ b \in a - 1 .. Len(g) /\ a \in 1 .. Len(l) + 1 /\ b \in a - 1 .. Len(l)
    BY <1>1, <1>2 DEF n
  <2>2. /\ SubSeq(g, a, b) \in Seq(Nat) /\ Len(SubSeq(g, a, b)) = b - a + 1
        /\ \A i \in 1 .. b - a + 1 : SubSeq(g, a, b)[i] = g[a + i - 1]
    BY <1>1, <2>1, SliceFacts
  <2>3. /\ SubSeq(l, a, b) \in Seq(Nat) /\ Len(SubSeq(l, a, b)) = b - a + 1
        /\ \A i \in 1 .. b - a + 1 : SubSeq(l, a, b)[i] = l[a + i - 1]
    BY <2>1, SliceFacts
  <2>4. \A i \in 1 .. b - a + 1 : a + i - 1 \in 1 .. n
    BY <1>1, <1>2
  <2>. DEFINE u == SubSeq(g, a, b)
              v == SubSeq(l, a, b)
  <2>5. Len(u) = Len(v) /\ \A i \in 1 .. Len(u) : u[i] = v[i]
    BY <1>1, <2>2, <2>3, <2>4
  <2>6. u \in Seq(Nat) /\ v \in Seq(Nat)
    BY <2>2, <2>3
  <2>. HIDE DEF u, v
  <2>7. u = v
    BY <2>5, <2>6, SeqEqual
  <2>. QED
    BY <2>7 DEF u, v
<1>3. ASSUME NEW a \in 1 .. n + 1
      PROVE  SubSeq(l, a, n) \in Seq(Nat) /\ SubSeq(g, a, n + 1) = Append(SubSeq(l, a, n), x)
  <2>. DEFINE m == n + 1
              v == SubSeq(l, a, n)
              u == SubSeq(g, a, m)
              w == Append(v, x)
  <2>1. a \in 1 .. Len(g) + 1 /\ m \in a - 1 .. Len(g) /\ a \in 1 .. Len(l) + 1 /\ n \in a - 1 .. Len(l)
    BY <1>1, <1>3 DEF n
  <2>2. v \in Seq(Nat) /\ Len(v) = n - a + 1 /\ \A i \in 1 .. n - a + 1 : v[i] = l[a + i - 1]
    BY <2>1, SliceFacts
  <2>3. m = n + 1 /\ m \in Nat
    BY <1>1
  <2>. HIDE DEF m
  <2>4. u \in Seq(Nat) /\ Len(u) = m - a + 1 /\ \A i \in 1 .. m - a + 1 : u[i] = g[a + i - 1]
    BY <1>1, <2>1, SliceFacts
  <2>. HIDE DEF v
  <2>5. w \in Seq(Nat) /\ Len(w) = Len(v) + 1 /\ w[Len(v) + 1] = x
        /\ \A i \in 1 .. Len(v) : w[i] = v[i]
    BY <2>2, AppendProperties
  <2>. HIDE DEF u, w
  <2>6. Len(u) = Len(w) /\ Len(u) = n - a + 2
    BY <1>1, <1>3, <2>2, <2>3, <2>4, <2>5
  <2>7. ASSUME NEW i \in 1 .. Len(u) PROVE u[i] = w[i]
    <3>1. u[i] = g[a + i - 1]
      BY <2>4, <2>7
    <3>2. CASE i = n - a + 2
      <4>1. a + i - 1 = n + 1 /\ i = Len(v) + 1
        BY <1>1, <1>3, <2>2, <3>2
      <4>. QED
        BY <1>1, <2>5, <3>1, <4>1
    <3>3. CASE i # n - a + 2
      <4>1. i \in 1 .. n - a + 1 /\ a + i - 1 \in 1 .. n
        BY <1>1, <1>3, <2>6, <2>7, <3>3
      <4>. QED
        BY <1>1, <2>2, <2>5, <3>1, <4>1
    <3>. QED
      BY <3>2, <3>3
  <2>8. u = w
    BY <2>4, <2>5, <2>6, <2>7, SeqEqual
  <2>. QED
    BY <2>2, <2>3, <2>8 DEF u, v, w
<1>. QED
  BY <1>1, <1>2, <1>3 DEF g, n

(* A diff in the arena stays when the arena grows.                         *)
LEMMA ArenaGrows ==
  ASSUME BnTyped, NEW x \in Nat, bnSlot' = [bnSlot EXCEPT !.levels = Append(@, x)],
         NEW i \in 1 .. Len(bnSlot.meta), Arrived(i)
  PROVE  Arrived(i)'
<1>. DEFINE l == bnSlot.levels
            g == Append(l, x)
            m == bnSlot.meta[i]
            f == m.start
            b == m.bidEnd
            e == m.end
<1>1. l \in Seq(Nat) /\ Len(l) \in Nat /\ bnSlot.meta \in Seq(BnMeta) /\ m \in BnMeta
  BY DEF BnTyped, BnSlots
<1>2. bnSlot'.levels = g /\ bnSlot'.meta = bnSlot.meta
  BY DEF BnTyped, BnSlots
<1>3. /\ f \in Nat /\ b \in Nat /\ e \in Nat /\ f <= b /\ b <= e /\ e <= Len(l)
      /\ m.first # 0 /\ m.first <= m.last /\ f = EndOf(i - 1)
      /\ SubSeq(l, f + 1, b) = LevelsOf(m.first, m.last, "bid")
      /\ SubSeq(l, b + 1, e) = LevelsOf(m.first, m.last, "ask")
  BY <1>1 DEF Arrived, BnMeta, BidsOf, AsksOf
<1>4. /\ Len(g) = Len(l) + 1
      /\ \A y \in 1 .. Len(l) + 1 : \A z \in y - 1 .. Len(l) : SubSeq(g, y, z) = SubSeq(l, y, z)
  BY <1>1, GrownArena
<1>. DEFINE n == Len(l)
            x1 == f + 1
            x2 == b + 1
<1>. HIDE DEF l, g, f, b, e, n
<1>5. /\ x1 \in 1 .. n + 1 /\ b \in x1 - 1 .. n
      /\ x2 \in 1 .. n + 1 /\ e \in x2 - 1 .. n /\ e <= Len(g)
  <2>1. n \in Nat /\ f \in Nat /\ b \in Nat /\ e \in Nat /\ f <= b /\ b <= e /\ e <= n
        /\ Len(g) = n + 1
    BY <1>1, <1>3, <1>4 DEF n
  <2>. QED
    BY <2>1
<1>. HIDE DEF x1, x2
<1>6. SubSeq(g, x1, b) = SubSeq(l, x1, b) /\ SubSeq(g, x2, e) = SubSeq(l, x2, e)
  BY <1>4, <1>5 DEF n
<1>7. EndOf(i - 1)' = EndOf(i - 1)
  BY <1>2 DEF EndOf
<1>. QED
  BY <1>2, <1>3, <1>5, <1>6, <1>7 DEF Arrived, BidsOf, AsksOf, f, b, e, x1, x2

(* A level goes into a book ...                                            *)
LEMMA BnLevelStep ==
  ASSUME BnSound, BnReady, ReadLevel
  PROVE  BnSound'
<1>. DEFINE array == bnParse.side
            head == Head(bnParse.left)
            tail == Tail(bnParse.left)
            c == bnSlot.cursor
<1>1. /\ bnParse.at = "body" /\ InDiff /\ bnParse.left # <<>>
      /\ bnParse' = [bnParse EXCEPT !.left = tail, !.moved = TRUE]
      /\ bnSlot' = [bnSlot EXCEPT !.book[array] = head]
      /\ bnNow' = bnNow /\ bnShown' = bnShown
  BY DEF ReadLevel, InBody, InDiff
<1>2. /\ bnParse \in BnBodies /\ bnParse.first <= bnParse.last /\ array \in Sides
      /\ array \notin bnParse.todo /\ bnParse.left \in Seq(Nat) /\ bnSlot \in BnSlots
      /\ bnSlot.book \in [Sides -> Nat]
  BY <1>1, BnParseKinds DEF BnSound, BnTyped, BnSlots, BodySound, BnBodies
<1>3. /\ head \in Nat /\ tail \in Seq(Nat)
      /\ \A x : Settled(head, tail) = Settled(x, bnParse.left)
  BY <1>1, <1>2, SettledOn
<1>. HIDE DEF head, tail, array
<1>4. /\ bnParse' \in BnBodies /\ bnParse'.at = "body" /\ bnParse'.todo = bnParse.todo
      /\ bnParse'.first = bnParse.first /\ bnParse'.last = bnParse.last
      /\ bnParse'.moved = TRUE /\ bnParse'.applied = bnParse.applied
      /\ bnParse'.side = array /\ bnParse'.left = tail
  BY <1>1, <1>2, <1>3 DEF BnBodies, array
<1>5. /\ bnSlot' \in BnSlots /\ bnSlot'.phase = bnSlot.phase /\ bnSlot'.cursor = c
      /\ bnSlot'.book = [bnSlot.book EXCEPT ![array] = head]
      /\ \A s \in Sides : bnSlot'.book[s] = IF s = array THEN head ELSE bnSlot.book[s]
  <2>. DEFINE book == [bnSlot.book EXCEPT ![array] = head]
  <2>1. book \in [Sides -> Nat] /\ \A s \in Sides : book[s] = IF s = array THEN head ELSE bnSlot.book[s]
    BY <1>2, <1>3
  <2>2. bnSlot' = [bnSlot EXCEPT !.book = book]
    BY <1>1, <1>2 DEF BnSlots
  <2>. HIDE DEF book
  <2>3. bnSlot' \in BnSlots /\ bnSlot'.phase = bnSlot.phase /\ bnSlot'.cursor = c /\ bnSlot'.book = book
    BY <1>2, <2>1, <2>2 DEF BnSlots
  <2>. QED
    BY <2>1, <2>3 DEF book
<1>6. BnTyped'
  BY <1>1, <1>4, <1>5 DEF BnSound, BnTyped
<1>7. BodySound' /\ SnapshotRead'
  <2>1. array # "none"
    BY <1>2 DEF Sides
  <2>. QED
    BY <1>2, <1>4, <2>1 DEF BodySound, SnapshotRead, InDiff
<1>8. BnReady' /\ MinId' = MinId
  BY <1>5 DEF BnReady, MinId
<1>9. BookApplies'
  <2>1. /\ \A s \in Sides : SideApplies(s)
        /\ bnShown = VenueBook(c) /\ bnParse.last > MinId
        /\ ~bnParse.applied /\ bnParse.last > MinId => Sides \subseteq bnParse.todo
        /\ bnSlot.phase = "live" /\ "U" \notin bnParse.todo => bnParse.first = c + 1
    <3>1. array # "none"
      BY <1>2 DEF Sides
    <3>. QED
      BY <1>1, <3>1 DEF BnSound, BookApplies, array
  <2>2. ASSUME NEW s \in Sides PROVE SideApplies(s)'
    <3>. DEFINE was == VenueBook(c)[s]
                is == bnSlot.book[s]
                will == Settled(was, Wire(s))
    <3>1. /\ s \in bnParse.todo => is = was
          /\ s = array => Settled(is, bnParse.left) = will
          /\ s \notin bnParse.todo /\ s # array => is = IF bnParse.last > MinId THEN will ELSE was
      BY <2>1 DEF SideApplies, array
    <3>2. Wire(s)' = Wire(s)
      BY <1>4 DEF Wire
    <3>3. bnSlot'.book[s] = IF s = array THEN head ELSE is
      BY <1>5
    <3>4. Settled(head, tail) = Settled(is, bnParse.left)
      BY <1>3
    <3>. HIDE DEF was, is, will
    <3>. QED
      BY <1>2, <1>4, <1>5, <1>8, <3>1, <3>2, <3>3, <3>4 DEF SideApplies, was, is, will
  <2>3. InDiff'
    BY <1>4 DEF InDiff
  <2>. QED
    BY <1>1, <1>4, <1>5, <1>8, <2>1, <2>2, <2>3 DEF BookApplies
<1>10. DiffsArrive'
  BY <1>8 DEF DiffsArrive
<1>. QED
  BY <1>6, <1>7, <1>9, <1>10 DEF BnSound

(* ... or into the arena.                                                  *)
LEMMA BnStageStep ==
  ASSUME BnSound, ~BnReady, ReadLevel
  PROVE  BnSound'
<1>. DEFINE array == bnParse.side
            head == Head(bnParse.left)
            tail == Tail(bnParse.left)
            l == bnSlot.levels
            g == Append(l, head)
<1>1. /\ bnParse.at = "body" /\ InDiff /\ bnParse.left # <<>>
      /\ bnParse' = [bnParse EXCEPT !.left = tail, !.moved = TRUE]
      /\ bnSlot' = [bnSlot EXCEPT !.levels = Append(@, head)]
      /\ bnNow' = bnNow /\ bnShown' = bnShown
  BY DEF ReadLevel, InBody, InDiff
<1>2. /\ bnParse \in BnBodies /\ bnParse.first <= bnParse.last /\ array \in Sides
      /\ array \notin bnParse.todo /\ bnParse.left \in Seq(Nat) /\ bnSlot \in BnSlots
      /\ l \in Seq(Nat) /\ Len(l) \in Nat
  BY <1>1, BnParseKinds DEF BnSound, BnTyped, BnSlots, BodySound, BnBodies
<1>3. head \in Nat /\ tail \in Seq(Nat)
  BY <1>1, <1>2, SettledOn
<1>4. \A q \in Seq(Nat) : Append(q, head) \o tail = q \o bnParse.left
  BY <1>1, <1>2, MovedOver
<1>. HIDE DEF head, tail, array
<1>5. /\ g \in Seq(Nat) /\ Len(g) = Len(l) + 1
      /\ \A a \in 1 .. Len(l) + 1 : \A b \in a - 1 .. Len(l) : SubSeq(g, a, b) = SubSeq(l, a, b)
      /\ \A a \in 1 .. Len(l) + 1 : /\ SubSeq(l, a, Len(l)) \in Seq(Nat)
                                    /\ SubSeq(g, a, Len(l) + 1) = Append(SubSeq(l, a, Len(l)), head)
  BY <1>2, <1>3, GrownArena
<1>. HIDE DEF g
<1>6. /\ bnParse' \in BnBodies /\ bnParse'.at = "body" /\ bnParse'.todo = bnParse.todo
      /\ bnParse'.first = bnParse.first /\ bnParse'.last = bnParse.last
      /\ bnParse'.side = array /\ bnParse'.left = tail
      /\ bnParse'.start = bnParse.start /\ bnParse'.bidEnd = bnParse.bidEnd
  BY <1>1, <1>2, <1>3 DEF BnBodies, array
<1>7. /\ bnSlot' \in BnSlots /\ bnSlot'.phase = bnSlot.phase /\ bnSlot'.levels = g
      /\ bnSlot'.meta = bnSlot.meta
  <2>1. bnSlot' = [bnSlot EXCEPT !.levels = g]
    BY <1>1, <1>2 DEF g, BnSlots
  <2>. QED
    BY <1>2, <1>5, <2>1 DEF BnSlots
<1>8. BnTyped'
  BY <1>1, <1>6, <1>7 DEF BnSound, BnTyped
<1>9. BodySound' /\ SnapshotRead'
  <2>1. array # "none"
    BY <1>2 DEF Sides
  <2>. QED
    BY <1>2, <1>6, <2>1 DEF BodySound, SnapshotRead, InDiff
<1>10. ~BnReady'
  BY <1>7 DEF BnReady
<1>11. BookApplies'
  BY <1>10 DEF BookApplies
<1>12. /\ bnShown = NoBook /\ bnParse.start = EndOf(Len(bnSlot.meta)) /\ ArenaFills
       /\ \A i \in 1 .. Len(bnSlot.meta) : Arrived(i)
  BY <1>1 DEF BnSound, DiffsArrive
<1>13. \A i \in 1 .. Len(bnSlot.meta) : Arrived(i)'
  <2>. SUFFICES ASSUME NEW i \in 1 .. Len(bnSlot.meta) PROVE Arrived(i)'
    OBVIOUS
  <2>1. BnTyped /\ Arrived(i)
    BY <1>12 DEF BnSound
  <2>. QED
    BY <1>1, <1>3, <2>1, ArenaGrows
<1>14. ArenaFills'
  <2>. DEFINE f == bnParse.start
              b == bnParse.bidEnd
              n == Len(l)
  <2>1. f \in Nat /\ b \in Nat /\ f <= b /\ b <= n /\ n \in Nat /\ n + 1 = Len(g)
    BY <1>2, <1>5, <1>12 DEF ArenaFills, BnBodies
  <2>2. Wire("bid")' = Wire("bid") /\ Wire("ask")' = Wire("ask")
    BY <1>6 DEF Wire
  <2>3. CASE array = "bid"
    <3>1. /\ "bid" \notin bnParse.todo /\ "ask" \in bnParse.todo
          /\ SubSeq(l, f + 1, n) \o bnParse.left = Wire("bid")
      BY <1>12, <2>3 DEF ArenaFills, array
    <3>2. f + 1 \in 1 .. n + 1
      BY <2>1
    <3>3. SubSeq(g, f + 1, n + 1) \o tail = Wire("bid")
      BY <1>4, <1>5, <3>1, <3>2
    <3>. HIDE DEF f, b, n
    <3>4. f <= b /\ b <= Len(g)
      BY <2>1
    <3>. QED
      BY <1>6, <1>7, <2>1, <2>2, <2>3, <3>1, <3>3, <3>4 DEF ArenaFills, f, b
  <2>4. CASE array = "ask"
    <3>1. /\ "bid" \notin bnParse.todo /\ "ask" \notin bnParse.todo
          /\ SubSeq(l, f + 1, b) = Wire("bid")
          /\ SubSeq(l, b + 1, n) \o bnParse.left = Wire("ask")
      BY <1>12, <2>4 DEF ArenaFills, array
    <3>. DEFINE x1 == f + 1
                x2 == b + 1
    <3>2. x1 \in 1 .. n + 1 /\ b \in x1 - 1 .. n /\ x2 \in 1 .. n + 1
      BY <2>1
    <3>. HIDE DEF x1, x2
    <3>3. SubSeq(g, f + 1, b) = Wire("bid") /\ SubSeq(g, b + 1, n + 1) \o tail = Wire("ask")
      <4>1. SubSeq(g, x1, b) = SubSeq(l, x1, b)
        BY <1>5, <3>2
      <4>2. /\ SubSeq(l, x2, n) \in Seq(Nat)
            /\ SubSeq(g, x2, n + 1) = Append(SubSeq(l, x2, n), head)
        BY <1>5, <3>2
      <4>. QED
        BY <1>4, <3>1, <4>1, <4>2 DEF x1, x2
    <3>. HIDE DEF f, b, n
    <3>4. f <= b /\ b <= Len(g)
      BY <2>1
    <3>. QED
      BY <1>6, <1>7, <2>1, <2>2, <2>4, <3>1, <3>3, <3>4 DEF ArenaFills, f, b
  <2>. QED
    BY <1>2, <2>3, <2>4 DEF Sides
<1>15. DiffsArrive'
  <2>1. EndOf(Len(bnSlot.meta))' = EndOf(Len(bnSlot.meta))
    BY <1>7 DEF EndOf
  <2>. QED
    BY <1>1, <1>6, <1>7, <1>12, <1>13, <1>14, <2>1 DEF DiffsArrive
<1>. QED
  BY <1>8, <1>9, <1>11, <1>15 DEF BnSound

(* The last key of a diff was read: the arena has one more.                *)
LEMMA BnEndBodyStep ==
  ASSUME BnSound, EndBody
  PROVE  BnSound'
<1>. DEFINE l == bnSlot.levels
            meta == bnSlot.meta
            m == [first |-> bnParse.first, last |-> bnParse.last, start |-> bnParse.start,
                  bidEnd |-> bnParse.bidEnd, end |-> Len(l)]
            metas == Append(meta, m)
<1>1. /\ bnParse.at = "body" /\ InDiff /\ bnParse.side = "none" /\ bnParse.todo = {}
      /\ bnParse' = [bnParse EXCEPT !.at = "tail"]
      /\ bnSlot' = IF BnReady THEN bnSlot ELSE [bnSlot EXCEPT !.meta = metas]
      /\ bnNow' = bnNow /\ bnShown' = bnShown
  BY DEF EndBody, BetweenKeys, InBody, InDiff
<1>2. /\ bnParse \in BnBodies /\ bnParse.first <= bnParse.last /\ bnSlot \in BnSlots
      /\ l \in Seq(Nat) /\ Len(l) \in Nat /\ meta \in Seq(BnMeta) /\ Len(meta) \in Nat
  BY <1>1, BnParseKinds DEF BnSound, BnTyped, BnSlots, BodySound
<1>3. /\ bnParse' \in BnBodies /\ bnParse'.at = "tail" /\ bnParse'.todo = {} /\ bnParse'.side = "none"
      /\ bnParse'.first = bnParse.first /\ bnParse'.last = bnParse.last
      /\ bnParse'.left = bnParse.left /\ bnParse'.moved = bnParse.moved
      /\ bnParse'.applied = bnParse.applied
  BY <1>1, <1>2 DEF BnBodies
<1>4. m \in BnMeta /\ m.first # 0
  BY <1>2 DEF BnMeta, BnBodies
<1>5. BodySound' /\ SnapshotRead'
  BY <1>1, <1>2, <1>3 DEF BnSound, BodySound, SnapshotRead, InDiff
<1>6. CASE BnReady
  <2>1. bnSlot' = bnSlot /\ InDiff' /\ MinId' = MinId
    BY <1>1, <1>3, <1>6 DEF InDiff, MinId
  <2>2. BnTyped'
    BY <1>1, <1>3, <2>1 DEF BnSound, BnTyped
  <2>3. ASSUME NEW s \in Sides PROVE SideApplies(s)'
    BY <1>1, <1>3, <1>6, <2>1 DEF BnSound, BookApplies, SideApplies, Wire
  <2>4. BookApplies'
    BY <1>1, <1>3, <1>6, <2>1, <2>3, BnArenaStays DEF BnSound, BookApplies
  <2>5. DiffsArrive'
    BY <1>6, <2>1, BnArenaStays DEF DiffsArrive
  <2>. QED
    BY <1>5, <2>2, <2>4, <2>5 DEF BnSound
<1>7. CASE ~BnReady
  <2>1. /\ bnShown = NoBook /\ bnParse.start = EndOf(Len(meta)) /\ ArenaFills
        /\ \A i \in 1 .. Len(meta) : Arrived(i)
    BY <1>1, <1>7 DEF BnSound, DiffsArrive
  <2>2. /\ m.start = EndOf(Len(meta)) /\ m.start <= m.bidEnd /\ m.bidEnd <= m.end /\ m.end = Len(l)
        /\ SubSeq(l, m.start + 1, m.bidEnd) = Wire("bid")
        /\ SubSeq(l, m.bidEnd + 1, m.end) = Wire("ask")
        /\ m.first = bnParse.first /\ m.last = bnParse.last
    BY <1>1, <2>1 DEF ArenaFills, Sides
  <2>. HIDE DEF m
  <2>3. /\ metas \in Seq(BnMeta) /\ Len(metas) = Len(meta) + 1 /\ metas[Len(meta) + 1] = m
        /\ \A i \in 1 .. Len(meta) : metas[i] = meta[i]
    BY <1>2, <1>4, AppendProperties
  <2>. HIDE DEF metas
  <2>4. /\ bnSlot' \in BnSlots /\ bnSlot'.phase = bnSlot.phase /\ bnSlot'.levels = l
        /\ bnSlot'.meta = metas
    BY <1>1, <1>2, <1>7, <2>3 DEF BnSlots
  <2>5. ~BnReady'
    BY <1>7, <2>4 DEF BnReady
  <2>6. BnTyped'
    BY <1>1, <1>3, <2>4 DEF BnSound, BnTyped
  <2>7. ASSUME NEW i \in 0 .. Len(meta) PROVE EndOf(i)' = EndOf(i)
    BY <1>2, <2>3, <2>4 DEF EndOf
  <2>8. ASSUME NEW i \in 1 .. Len(metas) PROVE Arrived(i)'
    <3>1. i - 1 \in 0 .. Len(meta) /\ (i \in 1 .. Len(meta) \/ i = Len(meta) + 1)
      BY <1>2, <2>3
    <3>2. EndOf(i - 1)' = EndOf(i - 1)
      <4>. DEFINE h == i - 1
      <4>1. h \in 0 .. Len(meta)
        BY <3>1
      <4>. HIDE DEF h
      <4>2. EndOf(h)' = EndOf(h)
        BY <2>7, <4>1
      <4>. QED
        BY <4>2 DEF h
    <3>3. CASE i \in 1 .. Len(meta)
      <4>1. Arrived(i) /\ metas[i] = meta[i]
        BY <2>1, <2>3, <3>3
      <4>. QED
        BY <2>4, <3>2, <4>1 DEF Arrived, BidsOf, AsksOf
    <3>4. CASE i = Len(meta) + 1
      <4>1. metas[i] = m /\ i - 1 = Len(meta)
        BY <1>2, <2>3, <3>4
      <4>2. m.first <= m.last /\ m.end <= Len(l)
        BY <1>2, <2>2
      <4>. QED
        BY <1>4, <2>2, <2>4, <3>2, <4>1, <4>2 DEF Arrived, BidsOf, AsksOf, Wire
    <3>. QED
      BY <3>1, <3>3, <3>4
  <2>9. EndOf(Len(bnSlot.meta))' = Len(l)
    BY <1>2, <2>2, <2>3, <2>4 DEF EndOf
  <2>10. DiffsArrive'
    BY <1>1, <1>3, <2>1, <2>4, <2>8, <2>9 DEF DiffsArrive
  <2>11. BookApplies'
    BY <2>5 DEF BookApplies
  <2>. QED
    BY <1>5, <2>6, <2>10, <2>11 DEF BnSound
<1>. QED
  BY <1>6, <1>7

(* A step to a book with nothing under way.                                *)
LEMMA BnBookStands ==
  ASSUME NEW s \in BnSlots, s.phase \in {"seeded", "live"}, s.book = VenueBook(s.cursor),
         bnSlot' = s, bnShown' = s.book, bnParse' = BnIdle, bnNow' = bnNow, bnNow \in Nat
  PROVE  BnSound'
<1>1. bnParse'.at = "idle" /\ ~InDiff' /\ BnTyped' /\ BnReady'
  BY DEF BnTyped, BnIdle, InDiff, BnReady
<1>2. BodySound' /\ SnapshotRead' /\ DiffsArrive'
  BY <1>1 DEF BodySound, SnapshotRead, DiffsArrive
<1>3. BookApplies'
  BY <1>1 DEF BookApplies
<1>. QED
  BY <1>1, <1>2, <1>3 DEF BnSound

(* A diff has been read to its end.                                        *)
LEMMA BnEndFrameStep ==
  ASSUME BnSound, EndFrame
  PROVE  BnSound'
<1>. DEFINE c == bnSlot.cursor
            n == bnParse.last
<1>1. /\ bnParse.at = "tail" /\ InDiff /\ bnParse.side = "none" /\ bnParse.todo = {}
      /\ bnParse' = BnIdle /\ bnNow' = bnNow /\ bnNow \in Nat
  BY DEF EndFrame, InDiff, BnSound, BnTyped, BodySound
<1>2. /\ bnParse \in BnBodies /\ bnParse.first \in Nat \ {0} /\ n \in Nat /\ bnParse.first <= n
      /\ bnSlot \in BnSlots /\ c \in Nat /\ bnSlot.book \in [Sides -> Nat] /\ BnTyped
  BY <1>1, BnParseKinds DEF BnSound, BnTyped, BnSlots, BodySound, BnBodies
<1>3. ASSUME BnReady
      PROVE  /\ bnShown = VenueBook(c) /\ (~bnParse.moved => bnSlot.book = VenueBook(c))
             /\ bnParse.applied <=> n > MinId
             /\ \A s \in Sides :
                  bnSlot.book[s] = IF n > MinId THEN Settled(VenueBook(c)[s], Wire(s)) ELSE VenueBook(c)[s]
             /\ bnSlot.phase = "live" => bnParse.first = c + 1
  <2>1. /\ bnShown = VenueBook(c) /\ (~bnParse.moved => bnSlot.book = VenueBook(c))
        /\ (bnParse.applied => n > MinId)
        /\ (~bnParse.applied /\ n > MinId => Sides \subseteq bnParse.todo)
        /\ \A s \in Sides : SideApplies(s)
        /\ bnSlot.phase = "live" => bnParse.first = c + 1
    BY <1>1, <1>3 DEF BnSound, BookApplies
  <2>2. ~(Sides \subseteq bnParse.todo) /\ "none" \notin Sides /\ bnParse.applied \in BOOLEAN
    BY <1>1, <1>2 DEF Sides, BnBodies
  <2>3. ASSUME NEW s \in Sides
        PROVE  bnSlot.book[s] = IF n > MinId THEN Settled(VenueBook(c)[s], Wire(s)) ELSE VenueBook(c)[s]
    BY <1>1, <2>1, <2>2, <2>3 DEF SideApplies
  <2>. QED
    BY <2>1, <2>2, <2>3
<1>4. ASSUME BnReady, n > MinId, c <= n, bnParse.first <= c + 1 PROVE bnSlot.book = VenueBook(n)
  <2>1. \A s \in Sides : bnSlot.book[s] = VenueBook(n)[s]
    BY <1>2, <1>3, <1>4, AppliedEvent DEF Wire
  <2>2. VenueBook(n) \in [Sides -> Nat]
    BY <1>2, BookTyped DEF VenueBook
  <2>. QED
    BY <1>2, <2>1, <2>2
<1>5. ASSUME BnReady, n > MinId, c <= n, bnParse.first <= c + 1, GoesLive, bnShown' = bnSlot.book
      PROVE  BnSound'
  <2>. DEFINE s == [bnSlot EXCEPT !.phase = "live", !.cursor = n]
  <2>1. /\ s \in BnSlots /\ s.phase = "live" /\ s.book = bnSlot.book /\ s.cursor = n
    BY <1>2 DEF BnSlots
  <2>2. bnSlot' = s
    BY <1>5 DEF GoesLive
  <2>3. bnSlot.book = VenueBook(n)
    BY <1>4, <1>5
  <2>. HIDE DEF s
  <2>4. s.book = VenueBook(s.cursor) /\ bnShown' = s.book /\ s.phase \in {"seeded", "live"}
    BY <1>5, <2>1, <2>3
  <2>. QED
    BY <1>1, <2>1, <2>2, <2>4, BnBookStands
<1>6. CASE /\ bnSlot.phase = "live" /\ GoesLive
           /\ bnShown' = IF bnParse.moved THEN bnSlot.book ELSE bnShown
  <2>1. BnReady /\ MinId = 0
    BY <1>6 DEF BnReady, MinId
  <2>2. bnParse.first = c + 1 /\ bnShown' = bnSlot.book
    BY <1>3, <1>6, <2>1
  <2>3. n > MinId /\ c <= n /\ bnParse.first <= c + 1
    BY <1>2, <2>1, <2>2
  <2>. QED
    BY <1>5, <1>6, <2>1, <2>2, <2>3
<1>7. CASE bnSlot.phase = "seeded" /\ ~bnParse.applied /\ BnKeep
  <2>1. BnReady /\ bnSlot' = bnSlot /\ bnShown' = bnShown
    BY <1>7 DEF BnReady, BnKeep
  <2>2. bnShown = VenueBook(c) /\ \A s \in Sides : bnSlot.book[s] = VenueBook(c)[s]
    BY <1>3, <1>7, <2>1
  <2>3. VenueBook(c) \in [Sides -> Nat]
    BY <1>2, BookTyped DEF VenueBook
  <2>4. bnSlot.book = VenueBook(c)
    BY <1>2, <2>2, <2>3
  <2>. QED
    BY <1>1, <1>2, <1>7, <2>1, <2>2, <2>4, BnBookStands
<1>8. CASE /\ bnSlot.phase = "seeded" /\ bnParse.applied
           /\ IF SpansBoundary(bnParse.first, bnParse.last, c)
              THEN GoesLive /\ bnShown' = bnSlot.book ELSE BnReset
  <2>1. BnReady /\ MinId = c
    BY <1>8 DEF BnReady, MinId
  <2>2. CASE BnReset
    BY <1>1, <1>2, <2>2, BnStartsOver
  <2>3. CASE SpansBoundary(bnParse.first, n, c) /\ GoesLive /\ bnShown' = bnSlot.book
    <3>1. n > MinId /\ c <= n /\ bnParse.first <= c + 1
      BY <1>2, <2>1, <2>3 DEF SpansBoundary
    <3>. QED
      BY <1>5, <2>1, <2>3, <3>1
  <2>. QED
    BY <1>8, <2>2, <2>3
<1>9. CASE BnReset
  BY <1>1, <1>2, <1>9, BnStartsOver
<1>10. CASE /\ ~BnReady /\ bnShown' = bnShown
            /\ bnSlot' = IF bnSlot.first = 0 THEN [bnSlot EXCEPT !.first = bnParse.first] ELSE bnSlot
  <2>1. /\ bnSlot' \in BnSlots /\ bnSlot'.phase = bnSlot.phase /\ bnSlot'.levels = bnSlot.levels
        /\ bnSlot'.meta = bnSlot.meta
    BY <1>2, <1>10 DEF BnSlots
  <2>2. ~BnReady' /\ bnParse'.at = "idle"
    BY <1>1, <1>10, <2>1 DEF BnReady, BnIdle
  <2>3. /\ bnShown = NoBook /\ EndOf(Len(bnSlot.meta)) = Len(bnSlot.levels)
        /\ \A i \in 1 .. Len(bnSlot.meta) : Arrived(i)
    BY <1>1, <1>10 DEF BnSound, DiffsArrive
  <2>4. \A i : Arrived(i) => Arrived(i)'
    BY <2>1 DEF Arrived, BidsOf, AsksOf, EndOf
  <2>5. EndOf(Len(bnSlot.meta))' = EndOf(Len(bnSlot.meta))
    BY <2>1 DEF EndOf
  <2>6. DiffsArrive'
    BY <1>10, <2>1, <2>2, <2>3, <2>4, <2>5 DEF DiffsArrive
  <2>7. BnTyped' /\ BodySound' /\ SnapshotRead' /\ BookApplies'
    BY <1>1, <2>1, <2>2 DEF BnTyped, BodySound, SnapshotRead, BookApplies, InDiff
  <2>. QED
    BY <2>6, <2>7 DEF BnSound
<1>. QED
  BY <1>6, <1>7, <1>8, <1>9, <1>10 DEF EndFrame

-----------------------------------------------------------------------------
(* What a snapshot does *)

(* The book of a slot that has none yet is its own.                        *)
LEMMA BnBookOnly ==
  ASSUME BnSound, ~BnReady, bnParse.at # "body", NEW b \in [Sides -> Nat],
         bnSlot' = [bnSlot EXCEPT !.book = b], bnShown' = bnShown, bnNow' = bnNow,
         bnParse' = BnIdle \/ bnParse' \in BnReads
  PROVE  /\ BnTyped' /\ BodySound' /\ BookApplies' /\ DiffsArrive'
         /\ ~BnReady' /\ bnSlot'.book = b
<1>1. /\ bnSlot' \in BnSlots /\ bnSlot'.phase = bnSlot.phase /\ bnSlot'.levels = bnSlot.levels
      /\ bnSlot'.meta = bnSlot.meta /\ bnSlot'.book = b
  BY DEF BnSound, BnTyped, BnSlots
<1>2. ~BnReady' /\ bnParse'.at \in {"idle", "snapshot"}
  BY <1>1 DEF BnReady, BnIdle, BnReads
<1>3. /\ bnShown = NoBook /\ EndOf(Len(bnSlot.meta)) = Len(bnSlot.levels)
      /\ \A i \in 1 .. Len(bnSlot.meta) : Arrived(i)
  BY DEF BnSound, DiffsArrive
<1>4. \A i : Arrived(i) => Arrived(i)'
  BY <1>1 DEF Arrived, BidsOf, AsksOf, EndOf
<1>5. EndOf(Len(bnSlot.meta))' = EndOf(Len(bnSlot.meta))
  BY <1>1 DEF EndOf
<1>6. DiffsArrive'
  BY <1>1, <1>2, <1>3, <1>4, <1>5 DEF DiffsArrive
<1>7. BnTyped' /\ BodySound' /\ BookApplies'
  BY <1>1, <1>2 DEF BnSound, BnTyped, BodySound, BookApplies, InDiff
<1>. QED
  BY <1>1, <1>2, <1>6, <1>7

(* A snapshot begins, or one of its keys is read.                          *)
LEMMA BnReadSteps ==
  ASSUME BnSound,
         (\E at \in 0 .. MaxUpdates : BnSnapshot(at)) \/ (\E k \in {"id", "bid", "ask"} : SnapshotKey(k))
  PROVE  BnSound'
<1>1. ~BnReady /\ bnParse.at # "body" /\ bnShown' = bnShown /\ bnNow' = bnNow
  BY DEF BnSound, SnapshotRead, BnSnapshot, SnapshotKey, BnIdle
<1>2. SUFFICES /\ bnParse' \in BnReads
               /\ \E b \in [Sides -> Nat] :
                    /\ bnSlot' = [bnSlot EXCEPT !.book = b]
                    /\ \A s \in Sides : b[s] = IF s \in bnParse'.todo THEN 0 ELSE VenueBook(bnParse'.id)[s]
  <2>1. PICK b \in [Sides -> Nat] :
               /\ bnSlot' = [bnSlot EXCEPT !.book = b]
               /\ \A s \in Sides : b[s] = IF s \in bnParse'.todo THEN 0 ELSE VenueBook(bnParse'.id)[s]
    BY <1>2
  <2>2. /\ BnTyped' /\ BodySound' /\ BookApplies' /\ DiffsArrive' /\ ~BnReady' /\ bnSlot'.book = b
    BY <1>1, <1>2, <2>1, BnBookOnly
  <2>3. SnapshotRead'
    BY <2>1, <2>2 DEF SnapshotRead
  <2>. QED
    BY <2>2, <2>3 DEF BnSound
<1>3. ASSUME NEW at \in 0 .. MaxUpdates, BnSnapshot(at) PROVE <1>2!1
  <2>1. /\ bnParse' = [at |-> "snapshot", id |-> at, todo |-> {"id", "bid", "ask"}]
        /\ bnSlot' = [bnSlot EXCEPT !.book = NoBook]
    BY <1>3 DEF BnSnapshot
  <2>2. NoBook \in [Sides -> Nat] /\ \A s \in Sides : NoBook[s] = 0
    BY NoBookFacts
  <2>3. bnParse' \in BnReads /\ bnParse'.id = at /\ Sides \subseteq bnParse'.todo
    BY <2>1, FeedAssumption DEF BnReads, Sides
  <2>. QED
    BY <2>1, <2>2, <2>3
<1>4. ASSUME NEW k \in {"id", "bid", "ask"}, SnapshotKey(k) PROVE <1>2!1
  <2>1. /\ bnParse.at = "snapshot" /\ k \in bnParse.todo
        /\ bnParse' = [bnParse EXCEPT !.todo = @ \ {k}]
        /\ bnSlot' = IF k = "id" THEN bnSlot
                     ELSE [bnSlot EXCEPT !.book = ApplyLevels(@, k, SnapshotOf(bnParse.id, k))]
    BY <1>4 DEF SnapshotKey
  <2>2. /\ bnParse \in BnReads
        /\ \A s \in Sides : bnSlot.book[s] = IF s \in bnParse.todo THEN 0 ELSE VenueBook(bnParse.id)[s]
        /\ bnSlot \in BnSlots /\ bnSlot.book \in [Sides -> Nat]
    BY <2>1, BnParseKinds DEF BnSound, BnTyped, BnSlots, SnapshotRead
  <2>3. bnParse' \in BnReads /\ bnParse'.id = bnParse.id /\ bnParse'.todo = bnParse.todo \ {k}
        /\ bnParse.id \in Nat
    BY <2>1, <2>2 DEF BnReads
  <2>4. CASE k = "id"
    <3>1. bnSlot' = [bnSlot EXCEPT !.book = bnSlot.book]
      BY <2>1, <2>2, <2>4 DEF BnSlots
    <3>2. \A s \in Sides : s \in bnParse'.todo <=> s \in bnParse.todo
      BY <2>3, <2>4 DEF Sides
    <3>. QED
      BY <2>2, <2>3, <3>1, <3>2
  <2>5. CASE k # "id"
    <3>. DEFINE v == VenueBook(bnParse.id)
                b == ApplyLevels(bnSlot.book, k, SnapshotOf(bnParse.id, k))
    <3>1. k \in Sides /\ v \in [Sides -> Nat]
      BY <2>3, <2>5, BookTyped DEF Sides, VenueBook
    <3>2. bnSlot.book[k] = 0
      BY <2>1, <2>2, <3>1
    <3>3. Settled(bnSlot.book[k], SnapshotOf(bnParse.id, k)) = v[k]
      BY <3>2 DEF Settled, SnapshotOf
    <3>. HIDE DEF v
    <3>4. b = [bnSlot.book EXCEPT ![k] = v[k]]
      BY <3>3 DEF ApplyLevels
    <3>5. b \in [Sides -> Nat] /\ \A s \in Sides : b[s] = IF s = k THEN v[k] ELSE bnSlot.book[s]
      BY <2>2, <3>1, <3>4
    <3>6. \A s \in Sides : b[s] = IF s \in bnParse'.todo THEN 0 ELSE v[s]
      BY <2>2, <2>3, <3>5 DEF v
    <3>. HIDE DEF b
    <3>7. bnSlot' = [bnSlot EXCEPT !.book = b]
      BY <2>1, <2>5 DEF b
    <3>. QED
      BY <2>3, <3>5, <3>6, <3>7 DEF v
  <2>. QED
    BY <2>4, <2>5
<1>. QED
  BY <1>3, <1>4

(* What a replay has made so far.                                          *)
Replays == [book : [Sides -> Nat], prev : Nat, fresh : BOOLEAN, err : {"none", "SnapshotGap", "Gap"}]

(* Two arrays that are applied leave a book.                               *)
LEMMA AppliedBoth ==
  ASSUME NEW b \in [Sides -> Nat], NEW B \in Seq(Nat), NEW A \in Seq(Nat)
  PROVE  ApplyLevels(ApplyLevels(b, "bid", B), "ask", A) \in [Sides -> Nat]
<1>1. ApplyLevels(b, "bid", B) \in [Sides -> Nat] /\ "bid" \in Sides /\ "ask" \in Sides
  BY AppliedTyped DEF Sides
<1>. QED
  BY <1>1, AppliedTyped

(* One diff of the replay.                                                 *)
LEMMA ReplayedStep ==
  ASSUME BnTyped, NEW i \in 1 .. Len(bnSlot.meta), Arrived(i), NEW at \in Nat, NEW r \in Replays
  PROVE  /\ Replayed(r, bnSlot.meta[i], at) \in Replays
         /\ LET q == Replayed(r, bnSlot.meta[i], at)
            IN  /\ r.book = VenueBook(r.prev) /\ (r.fresh => r.prev = at)
                /\ q.err = "none"
                => q.book = VenueBook(q.prev) /\ (q.fresh => q.prev = at)
<1>. DEFINE m == bnSlot.meta[i]
            B == LevelsOf(m.first, m.last, "bid")
            A == LevelsOf(m.first, m.last, "ask")
            b == ApplyLevels(ApplyLevels(r.book, "bid", BidsOf(m)), "ask", AsksOf(m))
            q == Replayed(r, m, at)
<1>1. bnSlot.meta \in Seq(BnMeta) /\ m \in BnMeta
  BY DEF BnTyped, BnSlots
<1>2. /\ m.first \in Nat \ {0} /\ m.last \in Nat /\ m.first <= m.last
      /\ BidsOf(m) = B /\ AsksOf(m) = A
  BY <1>1 DEF Arrived, BnMeta
<1>3. B \in Seq(Nat) /\ A \in Seq(Nat) /\ "bid" \in Sides /\ "ask" \in Sides
  BY <1>2, EventSpeaks DEF Speaks, Sides
<1>4. /\ r.book \in [Sides -> Nat] /\ r.prev \in Nat /\ r.fresh \in BOOLEAN
      /\ r.err \in {"none", "SnapshotGap", "Gap"}
  BY DEF Replays
<1>. HIDE DEF m, B, A
<1>5. b \in [Sides -> Nat]
  BY <1>2, <1>3, <1>4, AppliedBoth
<1>6. CASE r.err # "none" \/ m.last <= at
  <2>1. q = r
    BY <1>6 DEF Replayed
  <2>. HIDE DEF q
  <2>. QED
    BY <2>1 DEF q, m
<1>7. CASE /\ ~(r.err # "none" \/ m.last <= at)
           /\ r.fresh /\ ~SpansBoundary(m.first, m.last, at)
  <2>1. q = [r EXCEPT !.err = "SnapshotGap"]
    BY <1>7 DEF Replayed
  <2>2. q \in Replays /\ q.err # "none"
    BY <2>1 DEF Replays
  <2>. HIDE DEF q
  <2>. QED
    BY <2>2 DEF q, m
<1>8. CASE ~(r.err # "none" \/ m.last <= at) /\ ~r.fresh /\ m.first # r.prev + 1
  <2>1. q = [r EXCEPT !.err = "Gap"]
    BY <1>8 DEF Replayed
  <2>2. q \in Replays /\ q.err # "none"
    BY <2>1 DEF Replays
  <2>. HIDE DEF q
  <2>. QED
    BY <2>2 DEF q, m
<1>9. CASE /\ ~(r.err # "none" \/ m.last <= at)
           /\ r.fresh => SpansBoundary(m.first, m.last, at)
           /\ ~r.fresh => m.first = r.prev + 1
  <2>1. q = [book |-> b, prev |-> m.last, fresh |-> FALSE, err |-> "none"]
    BY <1>9 DEF Replayed
  <2>2. q \in Replays /\ q.book = b /\ q.prev = m.last /\ q.fresh = FALSE
    BY <1>2, <1>5, <2>1 DEF Replays
  <2>3. ASSUME r.book = VenueBook(r.prev), r.fresh => r.prev = at PROVE b = VenueBook(m.last)
    <3>. DEFINE v == VenueBook(m.last)
                u == VenueBook(r.prev)
                x == ApplyLevels(u, "bid", B)
                y == ApplyLevels(x, "ask", A)
    <3>1. m.first <= r.prev + 1 /\ r.prev <= m.last
      <4>1. CASE r.fresh
        BY <1>2, <1>4, <1>9, <2>3, <4>1 DEF SpansBoundary
      <4>2. CASE ~r.fresh
        BY <1>2, <1>4, <1>9, <4>2
      <4>. QED
        BY <4>1, <4>2
    <3>2. Settled(u["bid"], B) = v["bid"] /\ Settled(u["ask"], A) = v["ask"]
      BY <1>2, <1>3, <1>4, <3>1, AppliedEvent DEF B, A
    <3>3. u \in [Sides -> Nat] /\ v \in [Sides -> Nat]
      BY <1>2, <1>4, BookTyped DEF VenueBook
    <3>4. b = y
      BY <1>2, <2>3
    <3>. HIDE DEF u, v
    <3>5. x = [u EXCEPT !["bid"] = v["bid"]]
      BY <3>2 DEF ApplyLevels
    <3>6. x["ask"] = u["ask"]
      BY <3>3, <3>5 DEF Sides
    <3>7. y = [x EXCEPT !["ask"] = v["ask"]]
      BY <3>2, <3>6 DEF ApplyLevels
    <3>8. y = v
      BY <3>3, <3>5, <3>7 DEF Sides
    <3>. QED
      BY <3>4, <3>8 DEF v
  <2>. HIDE DEF q, b
  <2>4. r.book = VenueBook(r.prev) /\ (r.fresh => r.prev = at) /\ q.err = "none" =>
          q.book = VenueBook(q.prev) /\ (q.fresh => q.prev = at)
    BY <2>2, <2>3
  <2>. QED
    BY <2>2, <2>4 DEF q, m
<1>. QED
  BY <1>4, <1>6, <1>7, <1>8, <1>9

(* What the replay begins with, and goes through.                          *)
ReplayFrom(at) ==
  [book |-> bnSlot.book, prev |-> at, fresh |-> TRUE,
   err |-> IF bnSlot.first > at + 1 THEN "SnapshotGap" ELSE "none"]
ReplaySteps(at) ==
  CHOOSE after : after = [i \in 0 .. Len(bnSlot.meta) |->
    IF i = 0 THEN ReplayFrom(at) ELSE Replayed(after[i - 1], bnSlot.meta[i], at)]

(* It does go through them, and ends with the last.                        *)
LEMMA ReplayGoes ==
  ASSUME BnTyped, \A i \in 1 .. Len(bnSlot.meta) : Arrived(i), NEW at \in Nat
  PROVE  /\ Replay(at) = ReplaySteps(at)[Len(bnSlot.meta)]
         /\ ReplaySteps(at)[0] = ReplayFrom(at) /\ ReplayFrom(at) \in Replays
         /\ \A i \in 1 .. Len(bnSlot.meta) :
              ReplaySteps(at)[i] = Replayed(ReplaySteps(at)[i - 1], bnSlot.meta[i], at)
<1>. DEFINE n == Len(bnSlot.meta)
            X == Replays
            base == ReplayFrom(at)
            step == [i \in 0 .. n |-> [r \in X |-> IF i = 0 THEN r ELSE Replayed(r, bnSlot.meta[i], at)]]
            E(f) == f = [i \in 0 .. n |-> IF i = 0 THEN base ELSE Replayed(f[i - 1], bnSlot.meta[i], at)]
            U == ReplaySteps(at)
<1>1. n \in Nat /\ bnSlot.book \in [Sides -> Nat]
  BY DEF BnTyped, BnSlots
<1>2. base \in X
  BY <1>1 DEF ReplayFrom, Replays
<1>3. \A i \in 1 .. n : \A r \in X : Replayed(r, bnSlot.meta[i], at) \in X
  BY ReplayedStep
<1>4. step \in [0 .. n -> [X -> X]]
  <2>1. ASSUME NEW i \in 0 .. n, NEW r \in X
        PROVE  (IF i = 0 THEN r ELSE Replayed(r, bnSlot.meta[i], at)) \in X
    <3>1. i = 0 \/ i \in 1 .. n
      BY <1>1
    <3>. QED
      BY <1>3, <3>1
  <2>. HIDE DEF X, n
  <2>. QED
    BY <2>1
<1>5. PICK f \in [0 .. n -> X] : /\ f[0] = base
                                 /\ \A i \in 0 .. n : i # 0 => f[i] = step[i][f[i - 1]]
  <2>1. 0 \in Int /\ n \in Int /\ 0 <= n
    BY <1>1
  <2>. HIDE DEF n, X, step, base
  <2>2. \E f \in [0 .. n -> X] : GoesOn(f, 0, n, base, step)
    BY <1>2, <1>4, <2>1, Recursion
  <2>. QED
    BY <2>2 DEF GoesOn
<1>6. E(f)
  <2>1. ASSUME NEW i \in 0 .. n
        PROVE  f[i] = IF i = 0 THEN base ELSE Replayed(f[i - 1], bnSlot.meta[i], at)
    <3>1. CASE i = 0
      BY <1>5, <3>1
    <3>2. CASE i # 0
      <4>1. i - 1 \in 0 .. n
        BY <1>1, <3>2
      <4>2. f[i - 1] \in X /\ f[i] = step[i][f[i - 1]]
        BY <1>5, <3>2, <4>1
      <4>. HIDE DEF X
      <4>. QED
        BY <3>2, <4>2
    <3>. QED
      BY <3>1, <3>2
  <2>. HIDE DEF X, n, base
  <2>. QED
    BY <1>5, <2>1
<1>7. E(U)
  <2>1. U = CHOOSE g : E(g)
    BY DEF ReplaySteps
  <2>. HIDE DEF E, U
  <2>. QED
    BY <1>6, <2>1
<1>8. Replay(at) = U[n]
  BY DEF Replay, ReplaySteps, ReplayFrom
<1>. HIDE DEF U, n, base
<1>9. U[0] = base /\ \A i \in 1 .. n : U[i] = Replayed(U[i - 1], bnSlot.meta[i], at)
  <2>1. 0 \in 0 .. n /\ \A i \in 1 .. n : i \in 0 .. n /\ i # 0
    BY <1>1
  <2>. QED
    BY <1>7, <2>1
<1>. QED
  BY <1>2, <1>8, <1>9 DEF U, n, base

(* A replay without a hole gives the venue's book.                         *)
LEMMA ReplayMakes ==
  ASSUME BnTyped, \A i \in 1 .. Len(bnSlot.meta) : Arrived(i), NEW at \in Nat,
         bnSlot.book = VenueBook(at)
  PROVE  /\ Replay(at) \in Replays
         /\ Replay(at).err = "none" => Replay(at).book = VenueBook(Replay(at).prev)
<1>. DEFINE n == Len(bnSlot.meta)
            U == ReplaySteps(at)
            Made(i) == /\ U[i] \in Replays
                       /\ U[i].err = "none" =>
                            U[i].book = VenueBook(U[i].prev) /\ (U[i].fresh => U[i].prev = at)
            T == {i \in 0 .. n : ~Made(i)}
<1>1. n \in Nat
  BY DEF BnTyped, BnSlots
<1>2. /\ Replay(at) = U[n] /\ U[0] = ReplayFrom(at) /\ U[0] \in Replays
      /\ \A i \in 1 .. n : U[i] = Replayed(U[i - 1], bnSlot.meta[i], at)
  BY ReplayGoes
<1>. HIDE DEF U
<1>3. Made(0)
  <2>1. U[0].book = bnSlot.book /\ U[0].prev = at
    BY <1>2 DEF ReplayFrom
  <2>. QED
    BY <1>2, <2>1
<1>4. ASSUME NEW i \in 1 .. n, Made(i - 1) PROVE Made(i)
  <2>. DEFINE r == U[i - 1]
              q == U[i]
              m == bnSlot.meta[i]
  <2>1. q = Replayed(r, m, at) /\ r \in Replays
    BY <1>2, <1>4
  <2>2. r.err = "none" => r.book = VenueBook(r.prev) /\ (r.fresh => r.prev = at)
    BY <1>4
  <2>. HIDE DEF r
  <2>3. /\ Replayed(r, m, at) \in Replays
        /\ LET x == Replayed(r, m, at)
           IN  /\ r.book = VenueBook(r.prev) /\ (r.fresh => r.prev = at)
               /\ x.err = "none"
               => x.book = VenueBook(x.prev) /\ (x.fresh => x.prev = at)
    BY <1>4, <2>1, ReplayedStep
  <2>. HIDE DEF q, m
  <2>4. q \in Replays /\ (r.err = "none" /\ q.err = "none" =>
                            q.book = VenueBook(q.prev) /\ (q.fresh => q.prev = at))
    BY <2>1, <2>2, <2>3
  <2>5. r.err # "none" => q = r
    BY <2>1 DEF Replayed
  <2>. QED
    BY <2>4, <2>5 DEF q
<1>. HIDE DEF Made
<1>5. T = {}
  <2>. SUFFICES ASSUME T # {} PROVE FALSE
    OBVIOUS
  <2>1. T \subseteq Nat
    OBVIOUS
  <2>2. PICK i \in T : \A j \in T : i <= j
    BY <2>1, LeastNatural
  <2>3. i \in 0 .. n /\ ~Made(i)
    BY <2>2
  <2>4. i \in 1 .. n /\ i - 1 \in 0 .. n /\ ~(i <= i - 1)
    BY <1>1, <1>3, <2>3
  <2>5. Made(i - 1)
    BY <2>2, <2>4
  <2>. QED
    BY <1>4, <2>3, <2>4, <2>5
<1>6. Made(n)
  BY <1>1, <1>5
<1>. QED
  BY <1>2, <1>6 DEF Made

(* A snapshot has been read.                                               *)
LEMMA BnEndStep ==
  ASSUME BnSound, SnapshotEnds
  PROVE  BnSound'
<1>. DEFINE at == bnParse.id
            r == Replay(at)
<1>1. bnParse.at = "snapshot" /\ bnParse.todo = {} /\ bnParse' = BnIdle /\ bnNow' = bnNow
  BY DEF SnapshotEnds
<1>2. /\ BnTyped /\ bnNow \in Nat /\ at \in Nat /\ ~BnReady /\ bnSlot \in BnSlots
      /\ bnSlot.book \in [Sides -> Nat]
      /\ \A s \in Sides : bnSlot.book[s] = VenueBook(at)[s]
      /\ \A i \in 1 .. Len(bnSlot.meta) : Arrived(i)
  BY <1>1, BnParseKinds DEF BnSound, BnTyped, BnSlots, SnapshotRead, DiffsArrive, BnReads
<1>3. bnSlot.book = VenueBook(at)
  <2>1. VenueBook(at) \in [Sides -> Nat]
    BY <1>2, BookTyped DEF VenueBook
  <2>. QED
    BY <1>2, <2>1
<1>. HIDE DEF at
<1>4. r \in Replays /\ (r.err = "none" => r.book = VenueBook(r.prev))
  BY <1>2, <1>3, ReplayMakes
<1>5. \/ bnSlot' = [bnSlot EXCEPT !.book = r.book] /\ bnShown' = bnShown
      \/ BnReset
      \/ /\ r.err = "none"
         /\ bnSlot' = [Fresh EXCEPT !.phase = IF r.fresh THEN "seeded" ELSE "live",
                                    !.cursor = r.prev, !.book = r.book]
         /\ bnShown' = r.book
  BY DEF SnapshotEnds, at
<1>. HIDE DEF r
<1>6. CASE bnSlot' = [bnSlot EXCEPT !.book = r.book] /\ bnShown' = bnShown
  <2>. DEFINE b == r.book
  <2>1. b \in [Sides -> Nat]
    BY <1>4 DEF Replays
  <2>2. bnSlot' = [bnSlot EXCEPT !.book = b]
    BY <1>6
  <2>. HIDE DEF b
  <2>3. bnParse.at # "body" /\ bnParse' = BnIdle /\ bnShown' = bnShown
    BY <1>1, <1>6
  <2>4. BnTyped' /\ BodySound' /\ BookApplies' /\ DiffsArrive'
    BY <1>1, <1>2, <2>1, <2>2, <2>3, BnBookOnly
  <2>5. SnapshotRead'
    BY <1>1 DEF SnapshotRead, BnIdle
  <2>. QED
    BY <2>4, <2>5 DEF BnSound
<1>7. CASE BnReset
  BY <1>1, <1>2, <1>7, BnStartsOver
<1>8. CASE /\ r.err = "none"
           /\ bnSlot' = [Fresh EXCEPT !.phase = IF r.fresh THEN "seeded" ELSE "live",
                                      !.cursor = r.prev, !.book = r.book]
           /\ bnShown' = r.book
  <2>. DEFINE b == r.book
              c == r.prev
              p == IF r.fresh THEN "seeded" ELSE "live"
              s == [phase |-> p, cursor |-> c, book |-> b, levels |-> <<>>, meta |-> <<>>, first |-> 0]
  <2>1. b \in [Sides -> Nat] /\ c \in Nat /\ p \in {"seeded", "live"} /\ b = VenueBook(c)
    BY <1>4, <1>8 DEF Replays
  <2>2. bnSlot' = [Fresh EXCEPT !.phase = p, !.cursor = c, !.book = b] /\ bnShown' = b
    BY <1>8
  <2>. HIDE DEF b, c, p
  <2>3. bnSlot' = s
    BY <2>2 DEF Fresh
  <2>4. <<>> \in Seq(Nat) /\ <<>> \in Seq(BnMeta) /\ 0 \in Nat
    OBVIOUS
  <2>5. s \in BnSlots /\ s.phase = p /\ s.book = b /\ s.cursor = c
    BY <2>1, <2>4 DEF BnSlots
  <2>. HIDE DEF s
  <2>. QED
    BY <1>1, <1>2, <2>1, <2>2, <2>3, <2>5, BnBookStands
<1>. QED
  BY <1>5, <1>6, <1>7, <1>8

-----------------------------------------------------------------------------
(* The books of Binance *)

(* Whatever happens, the decoder of Binance stays sound.                   *)
LEMMA BnKeeps == BnSound /\ [BnNext]_bnVars => BnSound'
<1>. SUFFICES ASSUME BnSound, [BnNext]_bnVars PROVE BnSound'
  OBVIOUS
<1>1. CASE UNCHANGED bnVars
  <2>1. bnNow' = bnNow /\ bnSlot' = bnSlot /\ bnShown' = bnShown /\ bnParse' = bnParse
    BY <1>1 DEF bnVars
  <2>2. BnTyped' /\ BodySound' /\ SnapshotRead' /\ DiffsArrive'
    BY <2>1, BnArenaStays DEF BnSound, BnTyped, BodySound, SnapshotRead, DiffsArrive, ArenaFills, Wire, InDiff
  <2>3. BookApplies'
    BY <2>1, BnArenaStays DEF BnSound, BookApplies, SideApplies, MinId, Wire, InDiff
  <2>. QED
    BY <2>2, <2>3 DEF BnSound
<1>2. CASE BnNext
  <2>1. CASE \/ \E n \in 1 .. 2 : BnMiss(n) \/ BnFrame(n)
             \/ EnvelopeFails \/ BodyFails \/ BnResync \/ SnapshotFails \/ EndReply
             \/ \E v \in Found, key \in ReplyKeys : Say(key, v)
    BY <2>1, BnOtherSteps
  <2>2. CASE EnterBody
    BY <2>2, BnEnterStep
  <2>3. CASE ReadFirst \/ ReadLast
    BY <2>3, BnKeySteps
  <2>4. CASE ReadLevel
    BY <2>4, BnLevelStep, BnStageStep
  <2>5. CASE CloseArray
    BY <2>5, BnCloseStep
  <2>6. CASE EndBody
    BY <2>6, BnEndBodyStep
  <2>7. CASE EndFrame
    BY <2>7, BnEndFrameStep
  <2>8. CASE \E s \in Sides : ReadArray(s)
    BY <2>8, BnArrayStep
  <2>9. CASE (\E at \in 0 .. MaxUpdates : BnSnapshot(at))
             \/ (\E k \in {"id", "bid", "ask"} : SnapshotKey(k))
    BY <2>9, BnReadSteps
  <2>10. CASE SnapshotEnds
    BY <2>10, BnEndStep
  <2>. QED
    BY <1>2, <2>1, <2>2, <2>3, <2>4, <2>5, <2>6, <2>7, <2>8, <2>9, <2>10 DEF BnNext
<1>. QED
  BY <1>1, <1>2

(* A sound one has the venue's books.                                      *)
LEMMA SoundIsVenues == BnSound => BinanceBookIsVenues
<1>. SUFFICES ASSUME BnSound, bnParse.at \in {"idle", "control"} PROVE BinanceBookIsVenues
  BY DEF BinanceBookIsVenues
<1>1. ~InDiff /\ bnParse.at # "body" /\ bnSlot.meta \in Seq(BnMeta)
  BY DEF InDiff, BnSound, BnTyped, BnSlots
<1>2. BnReady => bnSlot.book = VenueBook(bnSlot.cursor) /\ bnShown = bnSlot.book
  BY <1>1 DEF BnSound, BookApplies
<1>3. DOMAIN bnSlot.meta = 1 .. Len(bnSlot.meta)
  BY <1>1
<1>4. ~BnReady => /\ bnShown = NoBook /\ Len(bnSlot.levels) = EndOf(Len(bnSlot.meta))
                  /\ \A i \in 1 .. Len(bnSlot.meta) : Arrived(i)
  BY <1>1 DEF BnSound, DiffsArrive
<1>. QED
  BY <1>2, <1>3, <1>4 DEF BinanceBookIsVenues, Arrived

(* Between frames a book of Binance is the venue's as of its cursor, what  *)
(* a frame that failed had done to it is gone, and the arena of a symbol   *)
(* without a book holds whole diffs (DiffSeed, MuxSeed::processed_slot).   *)
THEOREM BinanceBooksAreVenues == Spec => []BinanceBookIsVenues
<1>1. Init => BnSound
  BY InitOfParts, BnBegins
<1>2. BnSound /\ [Next]_structureVars => BnSound'
  <2>. SUFFICES ASSUME BnSound, [Next]_structureVars PROVE BnSound'
    OBVIOUS
  <2>1. [BnNext]_bnVars
    BY StepsOfParts DEF structureVars
  <2>. QED
    BY <2>1, BnKeeps
<1>. QED
  BY <1>1, <1>2, SoundIsVenues, PTL DEF Spec

-----------------------------------------------------------------------------
(* Frames that are obeyed *)

Verbs == {"Subscribe", "Unsubscribe"}
Commands == [method : Verbs, name : Streams]
ControlFrames == [method : Verbs, names : Seq(Streams)]
WireFrames == [method : Verbs, names : Seq(Streams), at : Nat]
AnyFrames == ControlFrames \cup WireFrames

(* A frame makes of some streams others.                                   *)
LEMMA ObeyingTyped ==
  ASSUME NEW f \in AnyFrames, NEW S \in SUBSET Streams
  PROVE  Obeying(S, f) \in SUBSET Streams
<1>1. f.names \in Seq(Streams)
  BY DEF AnyFrames, ControlFrames, WireFrames
<1>2. Names(f) \subseteq Streams
  BY <1>1, LenProperties DEF Names
<1>. QED
  BY <1>2 DEF Obeying

(* What is subscribed after the first frames of a sequence.                *)
Obeys(g, S, frames) ==
  g[0] = S /\ \A n \in 1 .. Len(frames) : g[n] = Obeying(g[n - 1], frames[n])

AfterEach(S, frames) ==
  CHOOSE after : after = [n \in 0 .. Len(frames) |-> IF n = 0 THEN S ELSE Obeying(after[n - 1], frames[n])]

(* There is such a function, ...                                           *)
LEMMA ObeyedSteps ==
  ASSUME NEW frames \in Seq(AnyFrames), NEW S \in SUBSET Streams
  PROVE  \E g \in [0 .. Len(frames) -> SUBSET Streams] :
           Obeys(g, S, frames) /\ Obeyed(S, frames) = g[Len(frames)]
<1>. DEFINE b == Len(frames)
            X == SUBSET Streams
            step == [k \in 0 .. b |-> [T \in X |-> IF k = 0 THEN T ELSE Obeying(T, frames[k])]]
            E(f) == f = [n \in 0 .. b |-> IF n = 0 THEN S ELSE Obeying(f[n - 1], frames[n])]
            A == AfterEach(S, frames)
<1>1. b \in Nat
  BY LenProperties
<1>2. step \in [0 .. b -> [X -> X]]
  <2>1. ASSUME NEW k \in 0 .. b, k # 0, NEW T \in X PROVE Obeying(T, frames[k]) \in X
    <3>1. frames[k] \in AnyFrames
      BY <1>1, <2>1, ElementOfSeq
    <3>. QED
      BY <2>1, <3>1, ObeyingTyped
  <2>. QED
    BY <2>1
<1>3. PICK f \in [0 .. b -> X] : GoesOn(f, 0, b, S, step)
  <2>1. S \in X /\ 0 \in Int /\ b \in Int /\ 0 <= b
    BY <1>1
  <2>. HIDE DEF X, b, step
  <2>. QED
    BY <1>2, <2>1, Recursion
<1>4. E(f)
  <2>1. ASSUME NEW k \in 0 .. b
        PROVE  f[k] = IF k = 0 THEN S ELSE Obeying(f[k - 1], frames[k])
    <3>1. CASE k = 0
      BY <1>3, <3>1 DEF GoesOn
    <3>2. CASE k # 0
      <4>1. k - 1 \in 0 .. b
        BY <1>1, <3>2
      <4>2. f[k - 1] \in X /\ f[k] = step[k][f[k - 1]]
        BY <1>3, <3>2, <4>1 DEF GoesOn
      <4>. QED
        BY <3>2, <4>2
    <3>. QED
      BY <3>1, <3>2
  <2>. HIDE DEF X, b
  <2>. QED
    BY <1>3, <2>1
<1>5. E(A)
  <2>. HIDE DEF E
  <2>1. A = CHOOSE g : E(g)
    BY DEF AfterEach, E
  <2>. QED
    BY <1>4, <2>1
<1>6. A \in [0 .. b -> X]
  <2>. HIDE DEF X, A
  <2>1. \A n \in 0 .. b : (n = 0 \/ A[n - 1] = f[n - 1]) => A[n] = f[n]
    BY <1>4, <1>5
  <2>2. \A n \in 0 .. b : A[n] = f[n]
    <3>1. 0 \in Nat /\ Follows(0, b, A, f)
      BY <2>1 DEF Follows
    <3>. HIDE DEF b, E
    <3>. QED
      BY <1>1, <3>1, Followed
  <2>3. DOMAIN A = 0 .. b /\ A = [n \in 0 .. b |-> A[n]]
    BY <1>5
  <2>. HIDE DEF b
  <2>. QED
    BY <1>3, <2>2, <2>3
<1>7. Obeys(A, S, frames)
  <2>. HIDE DEF A
  <2>1. A[0] = S
    BY <1>1, <1>5
  <2>2. ASSUME NEW n \in 1 .. b PROVE A[n] = Obeying(A[n - 1], frames[n])
    BY <1>1, <1>5
  <2>. QED
    BY <2>1, <2>2 DEF Obeys
<1>8. Obeyed(S, frames) = A[b]
  BY DEF Obeyed, AfterEach
<1>. QED
  BY <1>6, <1>7, <1>8

(* ... and no other.                                                       *)
LEMMA ObeyedIs ==
  ASSUME NEW frames \in Seq(AnyFrames), NEW S \in SUBSET Streams, NEW g, Obeys(g, S, frames)
  PROVE  Obeyed(S, frames) = g[Len(frames)]
<1>. DEFINE b == Len(frames)
<1>1. PICK h : Obeys(h, S, frames) /\ Obeyed(S, frames) = h[b]
  BY ObeyedSteps
<1>2. b \in Nat /\ 0 \in Nat
  BY LenProperties
<1>3. \A n \in 0 .. b : (n = 0 \/ h[n - 1] = g[n - 1]) => h[n] = g[n]
  BY <1>1, <1>2 DEF Obeys
<1>4. Follows(0, b, h, g)
  BY <1>3 DEF Follows
<1>. HIDE DEF b
<1>5. \A n \in 0 .. b : h[n] = g[n]
  BY <1>2, <1>4, Followed
<1>. QED
  BY <1>1, <1>2, <1>5 DEF b

(* One frame more.                                                         *)
LEMMA ObeyedAppend ==
  ASSUME NEW frames \in Seq(AnyFrames), NEW f \in AnyFrames, NEW S \in SUBSET Streams
  PROVE  /\ Obeyed(S, frames) \in SUBSET Streams
         /\ Obeyed(S, Append(frames, f)) = Obeying(Obeyed(S, frames), f)
<1>. DEFINE more == Append(frames, f)
            b == Len(frames)
<1>1. /\ more \in Seq(AnyFrames) /\ Len(more) = b + 1 /\ b \in Nat
      /\ (\A i \in 1 .. b : more[i] = frames[i]) /\ more[b + 1] = f
  BY AppendProperties, LenProperties
<1>. HIDE DEF more
<1>2. PICK g \in [0 .. Len(more) -> SUBSET Streams] :
        Obeys(g, S, more) /\ Obeyed(S, more) = g[Len(more)]
  BY <1>1, ObeyedSteps
<1>3. Obeys(g, S, frames)
  BY <1>1, <1>2 DEF Obeys
<1>4. Obeyed(S, frames) = g[b]
  BY <1>3, ObeyedIs
<1>5. g[b + 1] = Obeying(g[b], f) /\ g[b] \in SUBSET Streams
  BY <1>1, <1>2 DEF Obeys
<1>. QED
  BY <1>1, <1>2, <1>4, <1>5 DEF more

(* Frames behind others.                                                   *)
LEMMA ObeyedJoined ==
  ASSUME NEW a \in Seq(AnyFrames), NEW c \in Seq(AnyFrames), NEW S \in SUBSET Streams
  PROVE  /\ Obeyed(S, a) \in SUBSET Streams
         /\ Obeyed(S, a \o c) = Obeyed(Obeyed(S, a), c)
<1>. DEFINE all == a \o c
            m == Len(a)
            n == Len(c)
<1>1. /\ all \in Seq(AnyFrames) /\ Len(all) = m + n /\ m \in Nat /\ n \in Nat
      /\ \A i \in 1 .. m + n : all[i] = IF i <= m THEN a[i] ELSE c[i - m]
  BY ConcatProperties, LenProperties
<1>. HIDE DEF all
<1>2. PICK g \in [0 .. Len(all) -> SUBSET Streams] :
        Obeys(g, S, all) /\ Obeyed(S, all) = g[Len(all)]
  BY <1>1, ObeyedSteps
<1>3. Obeys(g, S, a)
  BY <1>1, <1>2 DEF Obeys
<1>4. Obeyed(S, a) = g[m] /\ g[m] \in SUBSET Streams
  BY <1>1, <1>2, <1>3, ObeyedIs
<1>. DEFINE h == [i \in 0 .. n |-> g[m + i]]
<1>5. h[0] = g[m] /\ h[n] = g[m + n]
  BY <1>1
<1>6. ASSUME NEW i \in 1 .. n PROVE h[i] = Obeying(h[i - 1], c[i])
  <2>. DEFINE k == m + i
  <2>1. /\ k \in 1 .. Len(all) /\ k \in 1 .. m + n /\ ~(k <= m) /\ k - m = i
        /\ i - 1 \in 0 .. n /\ m + (i - 1) = k - 1 /\ i \in 0 .. n
    BY <1>1
  <2>2. h[i] = g[k] /\ h[i - 1] = g[k - 1]
    BY <2>1
  <2>. HIDE DEF k, h
  <2>3. all[k] = c[i] /\ g[k] = Obeying(g[k - 1], all[k])
    BY <1>1, <1>2, <2>1 DEF Obeys
  <2>. QED
    BY <2>2, <2>3
<1>. HIDE DEF h
<1>7. Obeys(h, g[m], c)
  BY <1>5, <1>6 DEF Obeys
<1>8. Obeyed(g[m], c) = h[n]
  BY <1>4, <1>7, ObeyedIs
<1>. QED
  BY <1>1, <1>2, <1>4, <1>5, <1>8 DEF all

(* Frames that say the same.                                               *)
LEMMA ObeyedAlike ==
  ASSUME NEW a \in Seq(AnyFrames), NEW c \in Seq(AnyFrames), NEW S \in SUBSET Streams,
         Len(a) = Len(c),
         \A i \in 1 .. Len(a) : a[i].method = c[i].method /\ a[i].names = c[i].names
  PROVE  Obeyed(S, a) = Obeyed(S, c)
<1>1. PICK g : Obeys(g, S, a) /\ Obeyed(S, a) = g[Len(a)]
  BY ObeyedSteps
<1>2. ASSUME NEW T, NEW i \in 1 .. Len(a) PROVE Obeying(T, a[i]) = Obeying(T, c[i])
  BY DEF Obeying, Names
<1>3. Obeys(g, S, c)
  BY <1>1, <1>2 DEF Obeys
<1>. QED
  BY <1>1, <1>3, ObeyedIs

-----------------------------------------------------------------------------
(* Commands in frames *)

(* A command as a frame of its own.                                        *)
Lone(item) == [method |-> item.method, names |-> <<item.name>>]

(* Commands, each a frame of its own.                                      *)
LEMMA SingleFacts ==
  ASSUME NEW items \in Seq(Commands)
  PROVE  /\ Single(items) \in Seq(ControlFrames) /\ Len(Single(items)) = Len(items)
         /\ Single(items) \in Seq(AnyFrames)
         /\ \A i \in 1 .. Len(items) : Single(items)[i] = Lone(items[i]) /\ Lone(items[i]) \in ControlFrames
<1>1. /\ DOMAIN items = 1 .. Len(items) /\ Len(items) \in Nat
      /\ \A i \in 1 .. Len(items) : items[i] \in Commands
  BY LenProperties, ElementOfSeq
<1>2. ASSUME NEW i \in 1 .. Len(items) PROVE Lone(items[i]) \in ControlFrames
  <2>1. items[i].method \in Verbs /\ items[i].name \in Streams
    BY <1>1 DEF Commands
  <2>2. <<items[i].name>> \in Seq(Streams)
    BY <2>1
  <2>. QED
    BY <2>1, <2>2 DEF Lone, ControlFrames
<1>3. Single(items) = [i \in 1 .. Len(items) |-> Lone(items[i])]
  BY <1>1 DEF Single, Lone
<1>4. Single(items) \in [1 .. Len(items) -> ControlFrames]
  BY <1>2, <1>3
<1>5. Single(items) \in Seq(ControlFrames) /\ Len(Single(items)) = Len(items)
  BY <1>1, <1>4
<1>6. Single(items) \in Seq(AnyFrames)
  BY <1>1, <1>4 DEF AnyFrames
<1>. QED
  BY <1>2, <1>3, <1>5, <1>6

(* Commands behind others.                                                 *)
LEMMA SingleJoined ==
  ASSUME NEW a \in Seq(Commands), NEW c \in Seq(Commands)
  PROVE  Single(a \o c) = Single(a) \o Single(c)
<1>. DEFINE x == Single(a \o c)
            y == Single(a) \o Single(c)
            m == Len(a)
            n == Len(c)
<1>1. /\ a \o c \in Seq(Commands) /\ Len(a \o c) = m + n /\ m \in Nat /\ n \in Nat
      /\ \A i \in 1 .. m + n : (a \o c)[i] = IF i <= m THEN a[i] ELSE c[i - m]
  BY ConcatProperties, LenProperties
<1>2. /\ Single(a) \in Seq(ControlFrames) /\ Len(Single(a)) = m
      /\ Single(c) \in Seq(ControlFrames) /\ Len(Single(c)) = n
      /\ \A i \in 1 .. m : Single(a)[i] = Lone(a[i])
      /\ \A i \in 1 .. n : Single(c)[i] = Lone(c[i])
  BY SingleFacts
<1>3. /\ x \in Seq(ControlFrames) /\ Len(x) = m + n
      /\ \A i \in 1 .. m + n : x[i] = Lone((a \o c)[i])
  BY <1>1, SingleFacts
<1>4. /\ y \in Seq(ControlFrames) /\ Len(y) = m + n
      /\ \A i \in 1 .. m + n : y[i] = IF i <= m THEN Single(a)[i] ELSE Single(c)[i - m]
  <2>. DEFINE p == Single(a)
              q == Single(c)
  <2>1. /\ p \o q \in Seq(ControlFrames) /\ Len(p \o q) = Len(p) + Len(q)
        /\ \A i \in 1 .. Len(p) + Len(q) : (p \o q)[i] = IF i <= Len(p) THEN p[i] ELSE q[i - Len(p)]
    <3>1. p \in Seq(ControlFrames) /\ q \in Seq(ControlFrames)
      BY <1>2
    <3>. HIDE DEF p, q
    <3>. QED
      BY <3>1, ConcatProperties
  <2>2. Len(p) = m /\ Len(q) = n
    BY <1>2
  <2>. QED
    BY <2>1, <2>2
<1>5. ASSUME NEW i \in 1 .. m + n PROVE x[i] = y[i]
  <2>1. i <= m => i \in 1 .. m
    BY <1>1
  <2>2. ~(i <= m) => i - m \in 1 .. n
    BY <1>1
  <2>. HIDE DEF x, y, m, n
  <2>. QED
    BY <1>1, <1>2, <1>3, <1>4, <2>1, <2>2
<1>. HIDE DEF x, y
<1>6. x = y
  BY <1>3, <1>4, <1>5, SeqEqual
<1>. QED
  BY <1>6 DEF x, y

(* Whatever frame a command goes into, it is obeyed last.                  *)
LEMMA FramedObeyed ==
  ASSUME NEW frames \in Seq(ControlFrames), NEW item \in Commands, NEW S \in SUBSET Streams
  PROVE  /\ Framed(frames, item) \in Seq(ControlFrames)
         /\ Obeyed(S, Framed(frames, item)) = Obeying(Obeyed(S, frames), Lone(item))
<1>1. item.method \in Verbs /\ item.name \in Streams
  BY DEF Commands
<1>2. Lone(item) \in ControlFrames /\ Lone(item) \in AnyFrames
  <2>1. <<item.name>> \in Seq(Streams)
    BY <1>1
  <2>. QED
    BY <1>1, <2>1 DEF Lone, ControlFrames, AnyFrames
<1>. DEFINE n == Len(frames)
            joins == frames # <<>> /\ frames[n].method = item.method /\ Len(frames[n].names) < CHUNK
<1>3. CASE ~joins
  <2>1. Framed(frames, item) = Append(frames, Lone(item))
    BY <1>3 DEF Framed, Lone
  <2>2. frames \in Seq(AnyFrames)
    BY SeqMonotonic DEF AnyFrames
  <2>3. Append(frames, Lone(item)) \in Seq(ControlFrames)
    BY <1>2, AppendProperties
  <2>. QED
    BY <1>2, <2>1, <2>2, <2>3, ObeyedAppend
<1>4. CASE joins
  <2>1. PICK front \in Seq(ControlFrames), last \in ControlFrames : frames = Append(front, last)
    BY <1>4, SequenceEmptyOrAppend
  <2>2. /\ n = Len(front) + 1 /\ Len(front) \in Nat /\ frames[n] = last
        /\ \A i \in 1 .. Len(front) : frames[i] = front[i]
    BY <2>1, AppendProperties, LenProperties
  <2>. DEFINE grown == [last EXCEPT !.names = Append(@, item.name)]
              longer == Append(front, grown)
              new == [frames EXCEPT ![n] = grown]
  <2>3. last.method \in Verbs /\ last.names \in Seq(Streams) /\ last.method = item.method
    BY <1>4, <2>2 DEF ControlFrames
  <2>4. /\ Append(last.names, item.name) \in Seq(Streams)
        /\ Len(Append(last.names, item.name)) = Len(last.names) + 1 /\ Len(last.names) \in Nat
        /\ \A i \in 1 .. Len(last.names) : Append(last.names, item.name)[i] = last.names[i]
        /\ Append(last.names, item.name)[Len(last.names) + 1] = item.name
    BY <1>1, <2>3, AppendProperties, LenProperties
  <2>5. grown \in ControlFrames /\ grown.method = item.method /\ grown.names = Append(last.names, item.name)
    BY <2>3, <2>4 DEF ControlFrames
  <2>6. Framed(frames, item) = new
    BY <1>4, <2>2 DEF Framed
  <2>. HIDE DEF grown
  <2>7. new = longer
    <3>1. n \in 1 .. n
      BY <2>2
    <3>2. /\ new \in Seq(ControlFrames) /\ Len(new) = n
          /\ \A i \in 1 .. n : new[i] = IF i = n THEN grown ELSE frames[i]
      BY <2>5, <3>1, ExceptSeq
    <3>3. /\ longer \in Seq(ControlFrames) /\ Len(longer) = n /\ longer[n] = grown
          /\ \A i \in 1 .. Len(front) : longer[i] = front[i]
      BY <2>2, <2>5, AppendProperties
    <3>4. ASSUME NEW i \in 1 .. n PROVE new[i] = longer[i]
      <4>1. i = n \/ i \in 1 .. Len(front)
        BY <2>2
      <4>2. i # n => new[i] = front[i]
        BY <2>2, <3>2, <4>1
      <4>. HIDE DEF new, longer
      <4>. QED
        BY <3>2, <3>3, <4>1, <4>2
    <3>. HIDE DEF new, longer, n
    <3>. QED
      BY <3>2, <3>3, <3>4, SeqEqual
  <2>8. front \in Seq(AnyFrames) /\ last \in AnyFrames /\ grown \in AnyFrames
    BY <2>5, SeqMonotonic DEF AnyFrames
  <2>. DEFINE T == Obeyed(S, front)
  <2>9. /\ Obeyed(S, frames) = Obeying(T, last)
        /\ Obeyed(S, longer) = Obeying(T, grown)
    BY <2>1, <2>8, ObeyedAppend
  <2>10. Names(grown) = Names(last) \cup {item.name}
    <3>1. DOMAIN last.names = 1 .. Len(last.names)
          /\ DOMAIN grown.names = 1 .. Len(last.names) + 1
      BY <2>3, <2>4, <2>5, LenProperties
    <3>2. 1 .. Len(last.names) + 1 = (1 .. Len(last.names)) \cup {Len(last.names) + 1}
      BY <2>4
    <3>. QED
      BY <2>4, <2>5, <3>1, <3>2 DEF Names
  <2>11. Lone(item).method = item.method /\ Names(Lone(item)) = {item.name}
    BY DEF Lone, Names
  <2>. HIDE DEF T
  <2>12. Obeying(T, grown) = Obeying(Obeying(T, last), Lone(item))
    BY <2>3, <2>5, <2>10, <2>11 DEF Obeying
  <2>13. longer \in Seq(ControlFrames)
    BY <2>5, AppendProperties
  <2>. QED
    BY <2>6, <2>7, <2>9, <2>12, <2>13
<1>. QED
  BY <1>3, <1>4

(* What is framed of the first commands of a sequence.                     *)
FramesOfFirst(items) ==
  CHOOSE first : first = [n \in 0 .. Len(items) |-> IF n = 0 THEN <<>> ELSE Framed(first[n - 1], items[n])]

(* Frames do what the commands in them would do one by one.                *)
LEMMA FramesObeyed ==
  ASSUME NEW items \in Seq(Commands), NEW S \in SUBSET Streams
  PROVE  /\ Frames(items) \in Seq(ControlFrames)
         /\ Obeyed(S, Frames(items)) = Obeyed(S, Single(items))
<1>. DEFINE b == Len(items)
            X == Seq(ControlFrames)
            step == [k \in 0 .. b |-> [q \in X |-> IF k = 0 THEN q ELSE Framed(q, items[k])]]
            E(f) == f = [n \in 0 .. b |-> IF n = 0 THEN <<>> ELSE Framed(f[n - 1], items[n])]
            A == FramesOfFirst(items)
            g == [n \in 0 .. b |-> Obeyed(S, A[n])]
<1>1. b \in Nat /\ \A k \in 1 .. b : items[k] \in Commands
  BY LenProperties, ElementOfSeq
<1>2. step \in [0 .. b -> [X -> X]]
  <2>1. ASSUME NEW k \in 0 .. b, k # 0, NEW q \in X PROVE Framed(q, items[k]) \in X
    <3>1. k \in 1 .. b
      BY <1>1, <2>1
    <3>2. items[k] \in Commands
      BY <1>1, <3>1
    <3>. QED
      BY <3>2, FramedObeyed
  <2>. QED
    BY <2>1
<1>3. PICK f \in [0 .. b -> X] : GoesOn(f, 0, b, <<>>, step)
  <2>1. <<>> \in X /\ 0 \in Int /\ b \in Int /\ 0 <= b
    BY <1>1
  <2>. HIDE DEF X, b, step
  <2>. QED
    BY <1>2, <2>1, Recursion
<1>4. E(f)
  <2>1. ASSUME NEW k \in 0 .. b
        PROVE  f[k] = IF k = 0 THEN <<>> ELSE Framed(f[k - 1], items[k])
    <3>1. CASE k = 0
      BY <1>3, <3>1 DEF GoesOn
    <3>2. CASE k # 0
      <4>1. k - 1 \in 0 .. b
        BY <1>1, <3>2
      <4>2. f[k - 1] \in X /\ f[k] = step[k][f[k - 1]]
        BY <1>3, <3>2, <4>1 DEF GoesOn
      <4>. QED
        BY <3>2, <4>2
    <3>. QED
      BY <3>1, <3>2
  <2>. HIDE DEF X, b
  <2>. QED
    BY <1>3, <2>1
<1>5. E(A)
  <2>. HIDE DEF E
  <2>1. A = CHOOSE h : E(h)
    BY DEF FramesOfFirst, E
  <2>. QED
    BY <1>4, <2>1
<1>6. \A n \in 0 .. b : A[n] \in X
  <2>. HIDE DEF X, A
  <2>1. \A n \in 0 .. b : (n = 0 \/ A[n - 1] = f[n - 1]) => A[n] = f[n]
    BY <1>4, <1>5
  <2>2. \A n \in 0 .. b : A[n] = f[n]
    <3>1. 0 \in Nat /\ Follows(0, b, A, f)
      BY <2>1 DEF Follows
    <3>. HIDE DEF b, E
    <3>. QED
      BY <1>1, <3>1, Followed
  <2>. HIDE DEF b
  <2>. QED
    BY <1>3, <2>2
<1>. HIDE DEF A
<1>7. /\ Single(items) \in Seq(AnyFrames) /\ Len(Single(items)) = b
      /\ \A i \in 1 .. b : Single(items)[i] = Lone(items[i])
  BY SingleFacts
<1>8. g[0] = S
  <2>1. A[0] = <<>> /\ 0 \in 0 .. b
    BY <1>1, <1>5
  <2>2. Obeyed(S, <<>>) = S
    <3>1. <<>> \in Seq(AnyFrames) /\ Len(<<>>) = 0
      OBVIOUS
    <3>2. Obeys([n \in {0} |-> S], S, <<>>)
      BY DEF Obeys
    <3>3. Obeyed(S, <<>>) = [n \in {0} |-> S][0]
      BY <3>1, <3>2, ObeyedIs
    <3>. QED
      BY <3>3
  <2>. QED
    BY <2>1, <2>2
<1>9. ASSUME NEW n \in 1 .. b PROVE g[n] = Obeying(g[n - 1], Single(items)[n])
  <2>1. n - 1 \in 0 .. b /\ n \in 0 .. b /\ n # 0
    BY <1>1
  <2>2. A[n] = Framed(A[n - 1], items[n]) /\ A[n - 1] \in X
    BY <1>5, <1>6, <2>1
  <2>3. Obeyed(S, A[n]) = Obeying(Obeyed(S, A[n - 1]), Lone(items[n]))
    BY <1>1, <2>2, FramedObeyed
  <2>. QED
    BY <1>7, <2>1, <2>3
<1>. HIDE DEF g
<1>10. Obeys(g, S, Single(items))
  BY <1>7, <1>8, <1>9 DEF Obeys
<1>11. Obeyed(S, Single(items)) = g[b]
  BY <1>7, <1>10, ObeyedIs
<1>12. Frames(items) = A[b] /\ b \in 0 .. b
  BY <1>1 DEF Frames, FramesOfFirst, A
<1>. QED
  BY <1>6, <1>11, <1>12 DEF g

-----------------------------------------------------------------------------
(* The waits *)

Doubles(n) == CHOOSE doubled : doubled = [k \in 1 .. n |-> IF k = 1 THEN BASE ELSE 2 * doubled[k - 1]]

(* BASE and its doubles.                                                   *)
LEMMA DoublesSteps ==
  ASSUME NEW n \in Nat \ {0}
  PROVE  /\ \A k \in 1 .. n : Doubles(n)[k] \in Nat
         /\ Doubles(n)[1] = BASE /\ \A k \in 2 .. n : Doubles(n)[k] = 2 * Doubles(n)[k - 1]
<1>. DEFINE X == Nat
            step == [k \in 1 .. n |-> [x \in X |-> 2 * x]]
            E(f) == f = [k \in 1 .. n |-> IF k = 1 THEN BASE ELSE 2 * f[k - 1]]
            D == Doubles(n)
<1>1. step \in [1 .. n -> [X -> X]] /\ BASE \in X /\ 1 <= n /\ 1 \in Int /\ n \in Int /\ 1 \in Nat
  BY PacingAssumption
<1>2. PICK f \in [1 .. n -> X] : GoesOn(f, 1, n, BASE, step)
  <2>. HIDE DEF X, step
  <2>. QED
    BY <1>1, Recursion
<1>3. E(f)
  <2>1. ASSUME NEW k \in 1 .. n PROVE f[k] = IF k = 1 THEN BASE ELSE 2 * f[k - 1]
    <3>1. CASE k = 1
      BY <1>2, <3>1 DEF GoesOn
    <3>2. CASE k # 1
      <4>1. k - 1 \in 1 .. n
        BY <3>2
      <4>2. f[k - 1] \in X /\ f[k] = step[k][f[k - 1]]
        BY <1>2, <3>2, <4>1 DEF GoesOn
      <4>. QED
        BY <3>2, <4>2
    <3>. QED
      BY <3>1, <3>2
  <2>. HIDE DEF X
  <2>. QED
    BY <1>2, <2>1
<1>4. E(D)
  <2>. HIDE DEF E
  <2>1. D = CHOOSE g : E(g)
    BY DEF Doubles, E
  <2>. QED
    BY <1>3, <2>1
<1>. HIDE DEF D
<1>5. \A k \in 1 .. n : (k = 1 \/ D[k - 1] = f[k - 1]) => D[k] = f[k]
  BY <1>3, <1>4
<1>6. Follows(1, n, D, f)
  BY <1>5 DEF Follows
<1>7. \A k \in 1 .. n : D[k] = f[k]
  BY <1>1, <1>6, Followed
<1>8. \A k \in 1 .. n : D[k] \in Nat
  BY <1>2, <1>7
<1>9. D[1] = BASE /\ \A k \in 2 .. n : D[k] = 2 * D[k - 1]
  BY <1>4
<1>. QED
  BY <1>8, <1>9 DEF D

(* The wait doubles until it reaches the cap.                              *)
LEMMA WaitFacts ==
  ASSUME NEW n \in Nat \ {0}
  PROVE  /\ ShortestWait(n) \in Nat /\ ShortestWait(1) = BASE
         /\ ShortestWait(n + 1) = Lesser(2 * ShortestWait(n), MAX_BACKOFF)
<1>. DEFINE c == Doubles(n)
            d == Doubles(n + 1)
<1>1. \A m : ShortestWait(m) = IF m = 1 THEN BASE ELSE Lesser(Doubles(m)[m], MAX_BACKOFF)
  BY DEF ShortestWait, Doubles
<1>2. n \in Nat /\ 1 <= n /\ 1 \in Nat \ {0} /\ n + 1 \in Nat \ {0}
  OBVIOUS
<1>3. /\ \A k \in 1 .. n : c[k] \in Nat
      /\ c[1] = BASE /\ \A k \in 2 .. n : c[k] = 2 * c[k - 1]
  BY DoublesSteps
<1>4. d[1] = BASE /\ \A k \in 2 .. n + 1 : d[k] = 2 * d[k - 1]
  BY <1>2, DoublesSteps
<1>. HIDE DEF c, d
<1>6. \A k \in 1 .. n : (k = 1 \/ d[k - 1] = c[k - 1]) => d[k] = c[k]
  <2>. SUFFICES ASSUME NEW k \in 1 .. n, k = 1 \/ d[k - 1] = c[k - 1] PROVE d[k] = c[k]
    OBVIOUS
  <2>1. k # 1 => k \in 2 .. n /\ k \in 2 .. n + 1
    BY <1>2
  <2>. QED
    BY <1>3, <1>4, <2>1
<1>7. d[n] = c[n]
  <2>1. Follows(1, n, d, c)
    BY <1>6 DEF Follows
  <2>2. \A k \in 1 .. n : d[k] = c[k]
    BY <1>2, <2>1, Followed
  <2>. QED
    BY <1>2, <2>2
<1>8. d[n + 1] = 2 * c[n] /\ c[n] \in Nat
  <2>1. n + 1 \in 2 .. n + 1 /\ n + 1 - 1 = n /\ n \in 1 .. n
    BY <1>2
  <2>. QED
    BY <1>3, <1>4, <1>7, <2>1
<1>9. /\ ShortestWait(n) = IF n = 1 THEN BASE ELSE Lesser(c[n], MAX_BACKOFF)
      /\ ShortestWait(n + 1) = Lesser(2 * c[n], MAX_BACKOFF)
  <2>1. n + 1 # 1
    OBVIOUS
  <2>. QED
    BY <1>1, <1>8, <2>1 DEF c, d
<1>10. ShortestWait(1) = BASE
  BY <1>1
<1>11. n = 1 => c[n] = BASE
  BY <1>3
<1>. QED
  BY <1>8, <1>9, <1>10, <1>11, PacingAssumption DEF Lesser

-----------------------------------------------------------------------------
(* The pacers *)

(* The types of a connection against the clock.                            *)
PacingTyped ==
  /\ pacer \in {"batch", "queue"} /\ phase \in {"connecting", "up", "down", "over"}
  /\ clock \in Nat /\ ready \in Nat /\ started \in Nat /\ wakeAt \in Nat /\ ended \in Nat
  /\ backoff \in Nat /\ streak \in Nat /\ carries \in SUBSET Streams
  /\ outbox \in Seq(Commands) /\ batch \in Seq(ControlFrames) /\ wire \in Seq(WireFrames)

(* A pacer holds commands or frames, and a new one neither; what it holds  *)
(* and has sent makes of a new socket what the table has.                  *)
PacerSound ==
  /\ pacer = "batch" => outbox = <<>>
  /\ pacer = "queue" => batch = <<>>
  /\ phase = "connecting" => outbox = <<>> /\ batch = <<>> /\ wire = <<>>
  /\ phase = "up" => Obeyed({}, wire \o batch \o Single(outbox)) = carries

(* Frames come a gap apart, and the next is due a gap after the last.      *)
GapsKept ==
  /\ wire # <<>> => ready = wire[Len(wire)].at + GAP
  /\ \A i \in 1 .. Len(wire) : i > 1 => wire[i].at >= wire[i - 1].at + GAP

(* A batching pacer remembers its last frames.                             *)
IdsRemembered ==
  pacer = "batch" =>
    /\ ids \in Seq([id : Nat, names : Seq(Streams)]) /\ Len(ids) = Lesser(Len(wire), INFLIGHT_IDS)
    /\ \A k \in 1 .. Len(ids) :
         ids[k] = [id |-> Len(wire) - Len(ids) + k, names |-> wire[Len(wire) - Len(ids) + k].names]

(* The wait is that of one more failure, and the last was kept.            *)
BackoffSound ==
  /\ backoff = ShortestWait(streak + 1)
  /\ phase \in {"connecting", "up"} /\ streak > 0 => started >= ended + ShortestWait(streak)
  /\ phase = "down" => /\ streak > 0 /\ wakeAt >= ended + ShortestWait(streak)
                       /\ wakeAt <= ended + ShortestWait(streak) + ShortestWait(streak) \div 2

PacingSound == PacingTyped /\ PacerSound /\ GapsKept /\ IdsRemembered /\ BackoffSound

(* What a pacer holds and has sent, as frames.                             *)
LEMMA HeldTyped ==
  ASSUME PacingTyped
  PROVE  /\ wire \in Seq(AnyFrames) /\ batch \in Seq(AnyFrames) /\ Single(outbox) \in Seq(AnyFrames)
         /\ wire \o batch \in Seq(AnyFrames) /\ {} \in SUBSET Streams
<1>1. wire \in Seq(AnyFrames) /\ batch \in Seq(AnyFrames)
  BY SeqMonotonic DEF PacingTyped, AnyFrames
<1>2. Single(outbox) \in Seq(AnyFrames)
  BY SingleFacts DEF PacingTyped
<1>. QED
  BY <1>1, <1>2, ConcatProperties

(* A connection starts sound.                                              *)
LEMMA PacingBegins == PacingInit => PacingSound
<1>. SUFFICES ASSUME PacingInit PROVE PacingSound
  OBVIOUS
<1>1. /\ pacer \in {"batch", "queue"} /\ clock = 0 /\ phase = "connecting" /\ carries = {}
      /\ outbox = <<>> /\ batch = <<>> /\ ready = 0 /\ ids = <<>> /\ wire = <<>>
      /\ started = 0 /\ backoff = BASE /\ wakeAt = 0 /\ streak = 0 /\ ended = 0
  BY DEF PacingInit
<1>2. PacingTyped
  BY <1>1, PacingAssumption DEF PacingTyped
<1>3. PacerSound /\ GapsKept
  BY <1>1 DEF PacerSound, GapsKept
<1>4. IdsRemembered
  BY <1>1, PacingAssumption DEF IdsRemembered, Lesser
<1>5. BackoffSound
  <2>1. streak + 1 = 1 /\ ShortestWait(1) = BASE
    BY <1>1, WaitFacts, 1 \in Nat \ {0}
  <2>. QED
    BY <1>1, <2>1 DEF BackoffSound
<1>. QED
  BY <1>2, <1>3, <1>4, <1>5 DEF PacingSound

(* A step that sends nothing and leaves the backoff alone.                 *)
LEMMA QuietStep ==
  ASSUME PacingSound, pacer' = pacer, wire' = wire, ids' = ids, ready' = ready,
         UNCHANGED <<started, backoff, wakeAt, streak, ended>>,
         phase' = phase \/ (phase = "connecting" /\ phase' = "up") \/ phase' = "over",
         PacingTyped', PacerSound'
  PROVE  PacingSound'
<1>1. GapsKept' /\ IdsRemembered'
  BY DEF PacingSound, GapsKept, IdsRemembered
<1>2. BackoffSound'
  BY DEF PacingSound, BackoffSound
<1>. QED
  BY <1>1, <1>2 DEF PacingSound

(* A frame that was held goes out.                                         *)
LEMMA SentStep ==
  ASSUME PacingSound, NEW frame, frame.method \in Verbs, frame.names \in Seq(Streams), Sent(frame),
         pacer' = pacer, phase = "up", phase' = "up", carries' = carries, clock' = clock,
         UNCHANGED <<started, backoff, wakeAt, streak, ended>>,
         outbox' \in Seq(Commands), batch' \in Seq(ControlFrames),
         pacer = "batch" => outbox' = <<>>, pacer = "queue" => batch' = <<>>,
         Obeyed({}, wire' \o batch' \o Single(outbox')) = Obeyed({}, wire \o batch \o Single(outbox)),
         IdsRemembered'
  PROVE  PacingSound'
<1>. DEFINE went == [method |-> frame.method, names |-> frame.names, at |-> clock]
            n == Len(wire)
<1>1. /\ PacingTyped /\ clock \in Nat /\ wire \in Seq(WireFrames) /\ n \in Nat
      /\ ready <= clock /\ wire' = Append(wire, went) /\ ready' = clock + GAP
  BY LenProperties DEF PacingSound, PacingTyped, Sent
<1>2. went \in WireFrames /\ went.at = clock
  BY <1>1 DEF WireFrames
<1>. HIDE DEF went
<1>3. /\ wire' \in Seq(WireFrames) /\ Len(wire') = n + 1 /\ wire' # <<>> /\ wire'[n + 1] = went
      /\ \A i \in 1 .. n : wire'[i] = wire[i]
  BY <1>1, <1>2, AppendProperties
<1>4. PacingTyped'
  BY <1>1, <1>3, PacingAssumption DEF PacingTyped
<1>5. PacerSound'
  BY DEF PacingSound, PacerSound
<1>6. GapsKept'
  <2>1. ready' = wire'[Len(wire')].at + GAP
    BY <1>1, <1>2, <1>3
  <2>2. ASSUME NEW i \in 1 .. Len(wire'), i > 1 PROVE wire'[i].at >= wire'[i - 1].at + GAP
    <3>1. i - 1 \in 1 .. n
      BY <1>1, <1>3, <2>2
    <3>2. CASE i = n + 1
      <4>1. wire # <<>> /\ i - 1 = n
        BY <1>1, <3>1, <3>2
      <4>2. ready = wire[n].at + GAP
        BY <4>1 DEF PacingSound, GapsKept
      <4>. QED
        BY <1>1, <1>2, <1>3, <3>1, <3>2, <4>1, <4>2
    <3>3. CASE i # n + 1
      <4>1. i \in 1 .. n
        BY <1>1, <1>3, <2>2, <3>3
      <4>2. wire[i].at >= wire[i - 1].at + GAP
        BY <2>2, <4>1 DEF PacingSound, GapsKept
      <4>. QED
        BY <1>3, <3>1, <4>1, <4>2
    <3>. QED
      BY <3>2, <3>3
  <2>. QED
    BY <2>1, <2>2 DEF GapsKept
<1>7. BackoffSound'
  BY DEF PacingSound, BackoffSound
<1>. QED
  BY <1>4, <1>5, <1>6, <1>7 DEF PacingSound

(* send_control.                                                           *)
LEMMA SendControlStep ==
  ASSUME PacingSound, SendControl
  PROVE  PacingSound'
<1>. DEFINE head == Head(batch)
            rest == Tail(batch)
            n == Len(wire)
            went == [method |-> head.method, names |-> head.names, at |-> clock]
<1>1. /\ phase = "up" /\ batch # <<>> /\ Sent(head) /\ batch' = rest
      /\ ids' = LET grown == Append(ids, [id |-> Len(wire'), names |-> head.names])
                IN IF Len(grown) > INFLIGHT_IDS THEN Tail(grown) ELSE grown
      /\ UNCHANGED <<pacer, clock, phase, carries, outbox, started, backoff, wakeAt, historyVars, orders>>
  BY DEF SendControl
<1>2. /\ PacingTyped /\ clock \in Nat /\ wire \in Seq(WireFrames) /\ batch \in Seq(ControlFrames)
      /\ outbox \in Seq(Commands) /\ n \in Nat /\ Len(batch) \in Nat
  BY LenProperties DEF PacingSound, PacingTyped
<1>3. pacer = "batch" /\ outbox = <<>>
  BY <1>1, <1>2 DEF PacingSound, PacerSound, PacingTyped
<1>4. /\ head \in ControlFrames /\ head.method \in Verbs /\ head.names \in Seq(Streams)
      /\ rest \in Seq(ControlFrames) /\ Len(rest) = Len(batch) - 1 /\ head = batch[1]
      /\ \A i \in 1 .. Len(rest) : rest[i] = batch[i + 1]
  <2>1. /\ head \in ControlFrames /\ rest \in Seq(ControlFrames) /\ Len(rest) = Len(batch) - 1
        /\ \A i \in 1 .. Len(rest) : rest[i] = batch[i + 1]
    BY <1>1, <1>2, HeadTailProperties
  <2>2. head = batch[1]
    BY <1>1, <1>2
  <2>. HIDE DEF head, rest
  <2>. QED
    BY <2>1, <2>2 DEF ControlFrames
<1>5. wire' = Append(wire, went) /\ went \in WireFrames
  BY <1>1, <1>2, <1>4 DEF Sent, WireFrames
<1>6. went.method = head.method /\ went.names = head.names
  OBVIOUS
<1>. HIDE DEF went
<1>7. /\ wire' \in Seq(WireFrames) /\ Len(wire') = n + 1 /\ wire'[n + 1] = went
      /\ \A i \in 1 .. n : wire'[i] = wire[i]
  BY <1>2, <1>5, AppendProperties
<1>. HIDE DEF head, rest
<1>8. Obeyed({}, wire' \o batch' \o Single(outbox')) = Obeyed({}, wire \o batch \o Single(outbox))
  <2>. DEFINE new == wire'
              a == new \o rest
              c == wire \o batch
              m == Len(batch)
  <2>1. /\ new \in Seq(AnyFrames) /\ rest \in Seq(AnyFrames)
        /\ wire \in Seq(AnyFrames) /\ batch \in Seq(AnyFrames)
    BY <1>2, <1>4, <1>7, SeqMonotonic DEF AnyFrames
  <2>2. Len(new) = n + 1 /\ new[n + 1] = went /\ (\A i \in 1 .. n : new[i] = wire[i]) /\ m \in Nat \ {0}
    BY <1>1, <1>2, <1>7
  <2>. HIDE DEF new
  <2>3. /\ a \in Seq(AnyFrames) /\ Len(a) = n + m
        /\ \A i \in 1 .. n + m : a[i] = IF i <= n + 1 THEN new[i] ELSE rest[i - (n + 1)]
    <3>1. Len(rest) = m - 1 /\ (n + 1) + (m - 1) = n + m
      BY <1>2, <1>4, <2>2
    <3>2. /\ a \in Seq(AnyFrames) /\ Len(a) = Len(new) + Len(rest)
          /\ \A i \in 1 .. Len(new) + Len(rest) :
               a[i] = IF i <= Len(new) THEN new[i] ELSE rest[i - Len(new)]
      BY <2>1, ConcatProperties
    <3>. HIDE DEF a
    <3>. QED
      BY <2>2, <3>1, <3>2
  <2>4. /\ c \in Seq(AnyFrames) /\ Len(c) = n + m
        /\ \A i \in 1 .. n + m : c[i] = IF i <= n THEN wire[i] ELSE batch[i - n]
    BY <2>1, ConcatProperties
  <2>5. ASSUME NEW i \in 1 .. n + m PROVE a[i].method = c[i].method /\ a[i].names = c[i].names
    <3>. HIDE DEF a, c, m
    <3>1. CASE i <= n
      <4>1. i \in 1 .. n /\ i <= n + 1
        BY <1>2, <3>1
      <4>. QED
        BY <2>2, <2>3, <2>4, <3>1, <4>1
    <3>2. CASE i = n + 1
      <4>1. i <= n + 1 /\ ~(i <= n) /\ i - n = 1
        BY <1>2, <3>2
      <4>2. a[i] = went /\ c[i] = head
        BY <1>4, <2>2, <2>3, <2>4, <3>2, <4>1
      <4>. QED
        BY <1>6, <4>2
    <3>3. CASE i > n + 1
      <4>. DEFINE j == i - (n + 1)
      <4>1. j \in 1 .. m - 1 /\ ~(i <= n + 1) /\ ~(i <= n) /\ j + 1 = i - n
        BY <1>2, <2>2, <3>3
      <4>2. Len(rest) = m - 1
        BY <1>4 DEF m
      <4>. HIDE DEF j
      <4>3. rest[j] = batch[j + 1]
        BY <1>4, <4>1, <4>2
      <4>4. a[i] = rest[j] /\ c[i] = batch[j + 1]
        BY <2>3, <2>4, <4>1 DEF j
      <4>. QED
        BY <4>3, <4>4
    <3>. QED
      BY <1>2, <3>1, <3>2, <3>3
  <2>6. Single(outbox) = <<>> /\ outbox' = outbox
    BY <1>1, <1>3 DEF Single
  <2>7. a \o <<>> = a /\ c \o <<>> = c
    BY <2>3, <2>4, ConcatEmptySeq
  <2>8. {} \in SUBSET Streams
    OBVIOUS
  <2>9. Obeyed({}, a) = Obeyed({}, c)
    <3>. HIDE DEF a, c
    <3>. QED
      BY <2>3, <2>4, <2>5, <2>8, ObeyedAlike
  <2>10. Single(outbox') = Single(outbox)
    BY <2>6
  <2>. QED
    BY <1>1, <2>6, <2>7, <2>9, <2>10 DEF new
<1>9. IdsRemembered'
  <2>. DEFINE IdType == [id : Nat, names : Seq(Streams)]
              new == [id |-> n + 1, names |-> head.names]
              grown == Append(ids, new)
              k == Len(ids)
              sent == wire'
  <2>1. /\ ids \in Seq(IdType) /\ k = Lesser(n, INFLIGHT_IDS) /\ k \in Nat
        /\ \A i \in 1 .. k : ids[i] = [id |-> n - k + i, names |-> wire[n - k + i].names]
    BY <1>3, LenProperties DEF PacingSound, IdsRemembered
  <2>2. new \in IdType /\ INFLIGHT_IDS \in Nat \ {0}
    BY <1>2, <1>4, PacingAssumption
  <2>3. sent[n + 1].names = head.names /\ (\A i \in 1 .. n : sent[i] = wire[i]) /\ Len(sent) = n + 1
    BY <1>6, <1>7
  <2>. HIDE DEF IdType, sent
  <2>4. /\ grown \in Seq(IdType) /\ grown # <<>> /\ Len(grown) = k + 1 /\ grown[k + 1] = new
        /\ \A i \in 1 .. k : grown[i] = ids[i]
    BY <2>1, <2>2, AppendProperties
  <2>5. ASSUME NEW i \in 1 .. k + 1
        PROVE  grown[i] = [id |-> n - k + i, names |-> sent[n - k + i].names]
    <3>1. CASE i = k + 1
      <4>1. n - k + i = n + 1
        BY <1>2, <2>1, <3>1
      <4>. QED
        BY <2>3, <2>4, <3>1, <4>1
    <3>2. CASE i # k + 1
      <4>1. i \in 1 .. k /\ n - k + i \in 1 .. n
        BY <1>2, <2>1, <2>2, <3>2 DEF Lesser
      <4>. HIDE DEF k, n
      <4>2. sent[n - k + i] = wire[n - k + i]
        BY <2>3, <4>1
      <4>3. ids[i] = [id |-> n - k + i, names |-> wire[n - k + i].names]
        BY <2>1, <4>1
      <4>. QED
        BY <2>4, <4>1, <4>2, <4>3
    <3>. QED
      BY <3>1, <3>2
  <2>6. ids' = IF k + 1 > INFLIGHT_IDS THEN Tail(grown) ELSE grown
    BY <1>1, <1>7, <2>4
  <2>. HIDE DEF grown, new
  <2>7. CASE k + 1 > INFLIGHT_IDS
    <3>1. k = INFLIGHT_IDS /\ k <= n /\ Lesser(n + 1, INFLIGHT_IDS) = k
      BY <1>2, <2>1, <2>2, <2>7 DEF Lesser
    <3>2. /\ Tail(grown) \in Seq(IdType) /\ Len(Tail(grown)) = k
          /\ \A i \in 1 .. k : Tail(grown)[i] = grown[i + 1]
      BY <2>1, <2>4, HeadTailProperties
    <3>3. ASSUME NEW i \in 1 .. k
          PROVE  Tail(grown)[i] = [id |-> (n + 1) - k + i, names |-> sent[(n + 1) - k + i].names]
      <4>1. i + 1 \in 1 .. k + 1 /\ n - k + (i + 1) = (n + 1) - k + i
        BY <1>2, <2>1
      <4>. HIDE DEF k, n
      <4>. QED
        BY <2>5, <3>2, <4>1
    <3>4. ids' = Tail(grown)
      BY <2>6, <2>7
    <3>. QED
      BY <2>3, <3>1, <3>2, <3>3, <3>4 DEF IdsRemembered, IdType, sent
  <2>8. CASE ~(k + 1 > INFLIGHT_IDS)
    <3>1. k = n /\ Lesser(n + 1, INFLIGHT_IDS) = k + 1 /\ n - k = (n + 1) - (k + 1)
      BY <1>2, <2>1, <2>2, <2>8 DEF Lesser
    <3>2. ids' = grown
      BY <2>6, <2>8
    <3>. QED
      BY <2>3, <2>4, <2>5, <3>1, <3>2 DEF IdsRemembered, IdType, sent
  <2>. QED
    BY <2>7, <2>8
<1>10. batch' \in Seq(ControlFrames) /\ outbox' \in Seq(Commands) /\ outbox' = <<>>
  BY <1>1, <1>2, <1>3, <1>4
<1>. QED
  BY <1>1, <1>3, <1>4, <1>8, <1>9, <1>10, SentStep DEF historyVars

(* No frame, and one.                                                      *)
LEMMA ObeyedFew ==
  ASSUME NEW S \in SUBSET Streams
  PROVE  Obeyed(S, <<>>) = S /\ \A f \in AnyFrames : Obeyed(S, <<f>>) = Obeying(S, f)
<1>1. <<>> \in Seq(AnyFrames) /\ Len(<<>>) = 0
  OBVIOUS
<1>2. Obeyed(S, <<>>) = S
  <2>1. Obeys([n \in {0} |-> S], S, <<>>)
    BY DEF Obeys
  <2>2. Obeyed(S, <<>>) = [n \in {0} |-> S][0]
    BY <1>1, <2>1, ObeyedIs
  <2>. QED
    BY <2>2
<1>3. ASSUME NEW f \in AnyFrames PROVE Obeyed(S, <<f>>) = Obeying(S, f)
  <2>1. Obeyed(S, Append(<<>>, f)) = Obeying(Obeyed(S, <<>>), f)
    BY <1>1, ObeyedAppend
  <2>2. Append(<<>>, f) = <<f>>
    OBVIOUS
  <2>. QED
    BY <1>2, <2>1, <2>2
<1>. QED
  BY <1>2, <1>3

(* on_deadline.                                                            *)
LEMMA OnDeadlineStep ==
  ASSUME PacingSound, OnDeadline
  PROVE  PacingSound'
<1>. DEFINE head == Head(outbox)
            rest == Tail(outbox)
            T == Obeyed({}, wire)
            went == [method |-> head.method, names |-> <<head.name>>, at |-> clock]
<1>1. /\ phase = "up" /\ pacer = "queue" /\ outbox # <<>> /\ outbox' = rest
      /\ Sent([method |-> head.method, names |-> <<head.name>>])
      /\ UNCHANGED <<pacer, clock, phase, carries, batch, started, backoff, wakeAt, historyVars, orders>>
  BY DEF OnDeadline
<1>2. /\ PacingTyped /\ clock \in Nat /\ wire \in Seq(WireFrames) /\ outbox \in Seq(Commands)
      /\ batch = <<>>
  BY <1>1 DEF PacingSound, PacingTyped, PacerSound
<1>3. /\ head \in Commands /\ rest \in Seq(Commands) /\ outbox = <<head>> \o rest
      /\ <<head>> \in Seq(Commands)
  BY <1>1, <1>2, HeadTailProperties
<1>. HIDE DEF head, rest
<1>4. head.method \in Verbs /\ head.name \in Streams /\ <<head.name>> \in Seq(Streams)
  BY <1>3 DEF Commands
<1>5. Sent(Lone(head)) /\ Lone(head).method = head.method /\ Lone(head).names = <<head.name>>
  BY <1>1 DEF Lone
<1>6. wire' = Append(wire, went)
  BY <1>1 DEF Sent
<1>7. went \in WireFrames /\ went \in AnyFrames /\ Lone(head) \in AnyFrames
      /\ went.method = head.method /\ went.names = <<head.name>>
  BY <1>2, <1>4 DEF WireFrames, AnyFrames, ControlFrames, Lone
<1>. HIDE DEF went
<1>8. Obeyed({}, wire' \o batch' \o Single(outbox')) = Obeyed({}, wire \o batch \o Single(outbox))
  <2>. DEFINE longer == Append(wire, went)
              s == Single(rest)
              one == <<Lone(head)>>
  <2>1. /\ wire \in Seq(AnyFrames) /\ {} \in SUBSET Streams /\ one \in Seq(AnyFrames)
        /\ longer \in Seq(WireFrames) /\ longer \in Seq(AnyFrames) /\ s \in Seq(AnyFrames)
    <3>1. wire \in Seq(AnyFrames) /\ {} \in SUBSET Streams /\ s \in Seq(AnyFrames)
      BY <1>2, <1>3, HeldTyped, SingleFacts
    <3>2. longer \in Seq(WireFrames) /\ longer \in Seq(AnyFrames)
      BY <1>2, <1>7, <3>1, AppendProperties
    <3>. QED
      BY <1>7, <3>1, <3>2
  <2>2. Single(outbox) = one \o s
    <3>1. Single(outbox) = Single(<<head>>) \o s
      BY <1>3, SingleJoined
    <3>2. Single(<<head>>) = one
      BY DEF Single, Lone
    <3>. QED
      BY <3>1, <3>2
  <2>. HIDE DEF longer, s, one
  <2>3. wire \o <<>> = wire /\ longer \o <<>> = longer
    BY <2>1, ConcatEmptySeq
  <2>4. T \in SUBSET Streams /\ Obeyed({}, longer) = Obeying(T, went)
    BY <1>7, <2>1, ObeyedAppend DEF longer
  <2>5. Obeyed({}, longer \o s) = Obeyed(Obeying(T, went), s)
    BY <2>1, <2>4, ObeyedJoined
  <2>6. Obeyed({}, wire \o (one \o s)) = Obeyed(T, one \o s)
    BY <2>1, ConcatProperties, ObeyedJoined
  <2>7. Obeyed(T, one) = Obeying(T, Lone(head))
    BY <1>7, <2>4, ObeyedFew DEF one
  <2>8. Obeyed(T, one \o s) = Obeyed(Obeying(T, Lone(head)), s)
    BY <2>1, <2>4, <2>7, ObeyedJoined
  <2>9. Obeying(T, went) = Obeying(T, Lone(head))
    BY <1>5, <1>7 DEF Obeying, Names
  <2>10. wire' \o batch' \o Single(outbox') = longer \o s
    <3>1. wire' = longer /\ batch' = <<>> /\ Single(outbox') = s
      BY <1>1, <1>2, <1>6 DEF longer, s
    <3>. QED
      BY <2>3, <3>1
  <2>11. wire \o batch \o Single(outbox) = wire \o (one \o s)
    BY <1>2, <2>2, <2>3
  <2>. QED
    BY <2>5, <2>6, <2>8, <2>9, <2>10, <2>11
<1>9. IdsRemembered'
  BY <1>1 DEF IdsRemembered
<1>10. /\ outbox' \in Seq(Commands) /\ batch' = <<>> /\ batch' \in Seq(ControlFrames)
       /\ Lone(head).method \in Verbs /\ Lone(head).names \in Seq(Streams)
  BY <1>1, <1>2, <1>3, <1>4, <1>5
<1>. QED
  BY <1>1, <1>5, <1>8, <1>9, <1>10, SentStep DEF historyVars

(* Commands that are admitted are obeyed behind what is held.              *)
LEMMA AdmittedObeyed ==
  ASSUME PacingTyped, PacerSound, batch = <<>>, NEW items \in Seq(Commands), Admitted(items)
  PROVE  /\ outbox' \in Seq(Commands) /\ batch' \in Seq(ControlFrames)
         /\ pacer = "batch" => outbox' = <<>>
         /\ pacer = "queue" => batch' = <<>>
         /\ Obeyed({}, wire \o batch' \o Single(outbox'))
              = Obeyed(Obeyed({}, wire \o batch \o Single(outbox)), Single(items))
<1>. DEFINE q == Single(outbox)
            s == Single(items)
<1>1. /\ wire \in Seq(AnyFrames) /\ wire \o batch \in Seq(AnyFrames) /\ q \in Seq(AnyFrames)
      /\ {} \in SUBSET Streams /\ s \in Seq(AnyFrames) /\ outbox \in Seq(Commands)
      /\ wire \o <<>> = wire
  BY HeldTyped, SingleFacts, ConcatEmptySeq DEF PacingTyped
<1>2. CASE pacer = "batch"
  <2>. DEFINE f == Frames(items)
  <2>1. outbox = <<>> /\ outbox' = <<>> /\ batch' = f
    <3>1. outbox = <<>>
      BY <1>2 DEF PacerSound
    <3>2. <<>> \o items = items
      BY ConcatEmptySeq
    <3>. QED
      BY <1>2, <3>1, <3>2 DEF Admitted
  <2>2. Single(<<>>) = <<>>
    BY DEF Single
  <2>3. f \in Seq(ControlFrames) /\ f \in Seq(AnyFrames)
    BY <1>1, FramesObeyed, SeqMonotonic DEF AnyFrames
  <2>4. /\ Obeyed(Obeyed({}, wire), f) = Obeyed(Obeyed({}, wire), s)
        /\ Obeyed({}, wire \o f) = Obeyed(Obeyed({}, wire), f)
    <3>1. Obeyed({}, wire) \in SUBSET Streams
      BY <1>1, ObeyedJoined
    <3>. QED
      BY <1>1, <2>3, <3>1, ObeyedJoined, FramesObeyed
  <2>. HIDE DEF f, s
  <2>5. wire \o batch' \o Single(outbox') = wire \o f
    <3>1. wire \o f \in Seq(AnyFrames)
      BY <1>1, <2>3, ConcatProperties
    <3>2. (wire \o f) \o <<>> = wire \o f
      BY <3>1, ConcatEmptySeq
    <3>. QED
      BY <2>1, <2>2, <3>2
  <2>6. wire \o batch \o Single(outbox) = wire
    BY <1>1, <2>1, <2>2
  <2>7. Obeyed({}, wire \o batch' \o Single(outbox')) = Obeyed({}, wire \o f)
    BY <2>5
  <2>8. Obeyed({}, wire \o batch \o Single(outbox)) = Obeyed({}, wire)
    BY <2>6
  <2>9. outbox' \in Seq(Commands) /\ batch' \in Seq(ControlFrames)
    BY <2>1, <2>3
  <2>. QED
    BY <1>2, <2>1, <2>4, <2>7, <2>8, <2>9 DEF s
<1>3. CASE pacer # "batch"
  <2>1. outbox' = outbox \o items /\ batch' = <<>>
    BY <1>3 DEF Admitted
  <2>2. outbox' \in Seq(Commands)
    BY <1>1, <2>1, ConcatProperties
  <2>3. Single(outbox') = q \o s
    <3>1. Single(outbox \o items) = q \o s
      BY <1>1, SingleJoined
    <3>2. Single(outbox') = Single(outbox \o items)
      BY <2>1
    <3>. QED
      BY <3>1, <3>2
  <2>. HIDE DEF q, s
  <2>4. wire \o (q \o s) = (wire \o q) \o s /\ wire \o q \in Seq(AnyFrames)
    <3>. HIDE DEF AnyFrames
    <3>1. wire \in Seq(AnyFrames) /\ q \in Seq(AnyFrames) /\ s \in Seq(AnyFrames)
      BY <1>1 DEF q, s
    <3>. QED
      BY <3>1, ConcatProperties, ConcatAssociative
  <2>5. Obeyed({}, (wire \o q) \o s) = Obeyed(Obeyed({}, wire \o q), s)
    BY <1>1, <2>4, ObeyedJoined
  <2>6. wire \o batch' \o Single(outbox') = (wire \o q) \o s
    BY <1>1, <2>1, <2>3, <2>4
  <2>7. wire \o batch \o Single(outbox) = wire \o q
    BY <1>1 DEF q
  <2>8. Obeyed({}, wire \o batch' \o Single(outbox')) = Obeyed({}, (wire \o q) \o s)
    BY <2>6
  <2>9. Obeyed({}, wire \o batch \o Single(outbox)) = Obeyed({}, wire \o q)
    BY <2>7
  <2>10. batch' \in Seq(ControlFrames)
    BY <2>1
  <2>. QED
    BY <1>3, <2>1, <2>2, <2>5, <2>8, <2>9, <2>10 DEF s
<1>. QED
  BY <1>2, <1>3

(* Commands for a stream are commands.                                     *)
LEMMA BurstsAreCommands ==
  ASSUME NEW name \in Streams, NEW items \in Bursts(name) \cup {<<Toggle(name)>>}
  PROVE  items \in Seq(Commands)
<1>1. ASSUME NEW s \in Streams PROVE Toggle(s) \in Commands /\ Undo(s) \in Commands
  BY DEF Toggle, Undo, Order, Commands, Verbs
<1>2. ASSUME NEW a \in Commands, NEW b \in Commands PROVE <<a>> \in Seq(Commands) /\ <<a, b>> \in Seq(Commands)
  OBVIOUS
<1>. HIDE DEF Commands
<1>3. items = <<Toggle(name)>> \/ items = <<Toggle(name), Undo(name)>>
      \/ \E also \in Streams : items = <<Toggle(name), Toggle(also)>>
  BY DEF Bursts
<1>. QED
  BY <1>1, <1>2, <1>3

(* What apply leaves alone, and the table it leaves.                       *)
LEMMA ApplyTyped ==
  ASSUME PacingTyped, NEW items \in Seq(Commands), Apply(items)
  PROVE  /\ carries' = Obeyed(carries, Single(items)) /\ carries' \in SUBSET Streams
         /\ pacer' = pacer /\ wire' = wire /\ ids' = ids /\ ready' = ready /\ phase' = phase
         /\ UNCHANGED <<clock, started, backoff, wakeAt, streak, ended>>
<1>1. Single(items) \in Seq(AnyFrames) /\ carries \in SUBSET Streams
  BY SingleFacts DEF PacingTyped
<1>2. Obeyed(carries, Single(items)) \in SUBSET Streams
  BY <1>1, ObeyedJoined
<1>. QED
  BY <1>2 DEF Apply, historyVars

(* admit, with a socket ...                                                *)
LEMMA AdmitStep ==
  ASSUME PacingSound, NEW name \in Streams, NEW items \in Bursts(name), Admit(items)
  PROVE  PacingSound'
<1>1. items \in Seq(Commands) /\ phase = "up" /\ batch = <<>> /\ Apply(items) /\ Admitted(items)
  BY BurstsAreCommands DEF Admit
<1>2. PacingTyped /\ PacerSound /\ Obeyed({}, wire \o batch \o Single(outbox)) = carries
  BY <1>1 DEF PacingSound, PacerSound
<1>3. /\ carries' = Obeyed(carries, Single(items)) /\ carries' \in SUBSET Streams
      /\ pacer' = pacer /\ wire' = wire /\ ids' = ids /\ ready' = ready /\ phase' = phase
      /\ UNCHANGED <<clock, started, backoff, wakeAt, streak, ended>>
  BY <1>1, <1>2, ApplyTyped
<1>4. /\ outbox' \in Seq(Commands) /\ batch' \in Seq(ControlFrames)
      /\ pacer = "batch" => outbox' = <<>>
      /\ pacer = "queue" => batch' = <<>>
      /\ Obeyed({}, wire \o batch' \o Single(outbox')) = Obeyed(carries, Single(items))
  BY <1>1, <1>2, AdmittedObeyed
<1>5. PacingTyped'
  BY <1>2, <1>3, <1>4 DEF PacingTyped
<1>6. PacerSound'
  <2>1. wire' \o batch' \o Single(outbox') = wire \o batch' \o Single(outbox')
    BY <1>3
  <2>. QED
    BY <1>1, <1>3, <1>4, <2>1 DEF PacerSound
<1>. QED
  BY <1>3, <1>5, <1>6, QuietStep

(* ... and without one.                                                    *)
LEMMA AdmitOfflineStep ==
  ASSUME PacingSound, NEW name \in Streams, AdmitOffline(name)
  PROVE  PacingSound'
<1>1. <<Toggle(name)>> \in Seq(Commands) /\ phase = "down" /\ Apply(<<Toggle(name)>>)
      /\ outbox' = outbox /\ batch' = batch
  BY BurstsAreCommands DEF AdmitOffline
<1>2. /\ carries' \in SUBSET Streams
      /\ pacer' = pacer /\ wire' = wire /\ ids' = ids /\ ready' = ready /\ phase' = phase
      /\ UNCHANGED <<clock, started, backoff, wakeAt, streak, ended>>
  BY <1>1, ApplyTyped DEF PacingSound
<1>3. PacingTyped' /\ PacerSound'
  BY <1>1, <1>2 DEF PacingSound, PacingTyped, PacerSound
<1>. QED
  BY <1>2, <1>3, QuietStep

(* A new socket subscribes the streams of the table, in any order.         *)
LEMMA ConnectedStep ==
  ASSUME PacingSound, Connected
  PROVE  PacingSound'
<1>. DEFINE n == Cardinality(carries)
<1>1. PICK order \in [1 .. n -> carries] :
        /\ \A name \in carries : \E i \in DOMAIN order : order[i] = name
        /\ Admitted([i \in DOMAIN order |-> [method |-> "Subscribe", name |-> order[i]]])
  BY DEF Connected
<1>. DEFINE items == [i \in 1 .. n |-> [method |-> "Subscribe", name |-> order[i]]]
            g == [i \in 0 .. n |-> {order[j] : j \in 1 .. i}]
<1>2. /\ phase = "connecting" /\ phase' = "up"
      /\ UNCHANGED <<pacer, clock, carries, ready, ids, wire, started, backoff, wakeAt, historyVars, orders>>
  BY DEF Connected
<1>3. /\ PacingTyped /\ PacerSound /\ carries \in SUBSET Streams
      /\ batch = <<>> /\ wire = <<>> /\ outbox = <<>>
  BY <1>2 DEF PacingSound, PacingTyped, PacerSound
<1>4. n \in Nat
  <2>1. IsFiniteSet(carries)
    BY <1>3, PacingAssumption, FS_Subset
  <2>. QED
    BY <2>1, FS_CardinalityType
<1>. HIDE DEF n
<1>5. DOMAIN order = 1 .. n /\ Admitted(items)
  BY <1>1
<1>6. /\ items \in Seq(Commands) /\ Len(items) = n
      /\ \A i \in 1 .. n : Lone(items[i]) = [method |-> "Subscribe", names |-> <<order[i]>>]
  <2>1. items \in [1 .. n -> Commands]
    BY <1>1, <1>3 DEF Commands, Verbs
  <2>2. items \in Seq(Commands) /\ Len(items) = n
    BY <1>4, <2>1
  <2>. QED
    BY <2>2 DEF Lone
<1>. HIDE DEF items
<1>7. Obeyed({}, Single(items)) = carries
  <2>1. /\ Single(items) \in Seq(AnyFrames) /\ Len(Single(items)) = n /\ {} \in SUBSET Streams
        /\ \A i \in 1 .. n : Single(items)[i] = [method |-> "Subscribe", names |-> <<order[i]>>]
    BY <1>6, SingleFacts
  <2>2. g[0] = {} /\ g[n] = carries
    <3>1. 0 \in 0 .. n /\ n \in 0 .. n /\ 1 .. 0 = {}
      BY <1>4
    <3>2. {order[j] : j \in 1 .. n} = carries
      BY <1>1, <1>5
    <3>. QED
      BY <3>1, <3>2
  <2>3. ASSUME NEW i \in 1 .. n PROVE g[i] = Obeying(g[i - 1], Single(items)[i])
    <3>. DEFINE f == [method |-> "Subscribe", names |-> <<order[i]>>]
    <3>1. Names(f) = {order[i]}
      BY DEF Names
    <3>2. i \in 0 .. n /\ i - 1 \in 0 .. n /\ 1 .. i = (1 .. i - 1) \cup {i}
      BY <1>4
    <3>3. {order[j] : j \in 1 .. i} = {order[j] : j \in 1 .. i - 1} \cup {order[i]}
      BY <3>2
    <3>4. g[i] = g[i - 1] \cup {order[i]}
      BY <3>2, <3>3
    <3>. HIDE DEF g
    <3>5. Obeying(g[i - 1], f) = g[i - 1] \cup Names(f)
      BY DEF Obeying
    <3>. QED
      BY <2>1, <3>1, <3>4, <3>5
  <2>. HIDE DEF g
  <2>4. Obeys(g, {}, Single(items))
    BY <2>1, <2>2, <2>3 DEF Obeys
  <2>. QED
    BY <2>1, <2>2, <2>4, ObeyedIs
<1>8. Obeyed({}, wire \o batch \o Single(outbox)) = {}
  <2>1. wire \o batch \o Single(outbox) = <<>>
    BY <1>3 DEF Single
  <2>2. {} \in SUBSET Streams
    OBVIOUS
  <2>. QED
    BY <2>1, <2>2, ObeyedFew
<1>9. /\ outbox' \in Seq(Commands) /\ batch' \in Seq(ControlFrames)
      /\ pacer = "batch" => outbox' = <<>>
      /\ pacer = "queue" => batch' = <<>>
      /\ Obeyed({}, wire \o batch' \o Single(outbox')) = carries
  BY <1>3, <1>5, <1>6, <1>7, <1>8, AdmittedObeyed
<1>10. PacingTyped'
  BY <1>2, <1>3, <1>9 DEF PacingTyped, historyVars
<1>11. PacerSound'
  <2>1. wire' \o batch' \o Single(outbox') = wire \o batch' \o Single(outbox')
    BY <1>2
  <2>. QED
    BY <1>2, <1>9, <2>1 DEF PacerSound
<1>. QED
  BY <1>2, <1>10, <1>11, QuietStep DEF historyVars

(* A time between a wait and that with its jitter.                         *)
LEMMA JitterAdds ==
  ASSUME NEW e \in Int, NEW w \in Int, NEW h \in Int, NEW j \in Int, 0 <= j, j <= h
  PROVE  e + w + j >= e + w /\ e + w + j <= e + w + h
OBVIOUS

(* The session is over, for good or until the backoff has passed.          *)
LEMMA SessionEndsStep ==
  ASSUME PacingSound, SessionEnds
  PROVE  PacingSound'
<1>. DEFINE healthy == clock - started >= HEALTHY
            wait == IF healthy THEN BASE ELSE backoff
<1>0. PICK jitter \in 0 .. wait \div 2 : wakeAt' = clock + wait + jitter
  BY DEF SessionEnds, NextDelay
<1>1. /\ phase \in {"connecting", "up"} /\ phase' = "down" /\ backoff' = Lesser(2 * wait, MAX_BACKOFF)
      /\ streak' = (IF healthy THEN 1 ELSE streak + 1) /\ ended' = clock
      /\ UNCHANGED <<pacer, clock, carries, outbox, batch, ready, ids, wire, started, orders>>
  BY DEF SessionEnds, NextDelay
<1>2. PacingTyped /\ clock \in Nat /\ streak \in Nat /\ backoff \in Nat /\ backoff = ShortestWait(streak + 1)
  BY DEF PacingSound, PacingTyped, BackoffSound
<1>. DEFINE m == IF healthy THEN 1 ELSE streak + 1
<1>3. m \in Nat \ {0} /\ streak' = m
  BY <1>1, <1>2
<1>4. wait = ShortestWait(m)
  <2>1. ShortestWait(1) = BASE
    BY <1>3, WaitFacts
  <2>. QED
    BY <1>2, <2>1
<1>. HIDE DEF m, wait
<1>5. wait \in Nat /\ ShortestWait(m + 1) = Lesser(2 * wait, MAX_BACKOFF)
  BY <1>3, <1>4, WaitFacts
<1>6. BackoffSound'
  <2>1. backoff' = ShortestWait(streak' + 1)
    BY <1>1, <1>3, <1>5
  <2>2. /\ streak' > 0 /\ wakeAt' >= ended' + ShortestWait(streak')
        /\ wakeAt' <= ended' + ShortestWait(streak') + ShortestWait(streak') \div 2
    <3>1. ShortestWait(streak') = wait
      BY <1>3, <1>4
    <3>2. wait \div 2 \in Int
      BY <1>5
    <3>3. /\ wakeAt' = ended' + wait + jitter /\ ended' \in Int
          /\ jitter \in Int /\ jitter >= 0 /\ jitter <= wait \div 2
      BY <1>0, <1>1, <1>2, <3>2
    <3>4. wakeAt' >= ended' + wait /\ wakeAt' <= ended' + wait + wait \div 2
      <4>. DEFINE half == wait \div 2
      <4>. HIDE DEF half
      <4>1. wait \in Int /\ half \in Int /\ jitter <= half
        BY <1>5, <3>2, <3>3 DEF half
      <4>2. wakeAt' >= ended' + wait /\ wakeAt' <= ended' + wait + half
        BY <3>3, <4>1, JitterAdds
      <4>. QED
        BY <4>2 DEF half
    <3>5. streak' > 0
      BY <1>3
    <3>. QED
      BY <3>1, <3>4, <3>5
  <2>. QED
    BY <1>1, <2>1, <2>2 DEF BackoffSound
<1>7. PacingTyped'
  <2>1. wakeAt' \in Nat /\ backoff' \in Nat /\ streak' \in Nat /\ ended' \in Nat
    BY <1>0, <1>1, <1>2, <1>3, <1>5, PacingAssumption DEF Lesser
  <2>. QED
    BY <1>1, <1>2, <2>1 DEF PacingTyped
<1>8. PacerSound' /\ GapsKept' /\ IdsRemembered'
  BY <1>1 DEF PacingSound, PacerSound, GapsKept, IdsRemembered
<1>. QED
  BY <1>6, <1>7, <1>8 DEF PacingSound

(* The next one begins.                                                    *)
LEMMA ReconnectStep ==
  ASSUME PacingSound, Reconnect
  PROVE  PacingSound'
<1>1. /\ phase = "down" /\ clock >= wakeAt /\ phase' = "connecting" /\ started' = clock
      /\ ready' = clock /\ outbox' = <<>> /\ batch' = <<>> /\ ids' = <<>> /\ wire' = <<>>
      /\ UNCHANGED <<pacer, clock, carries, backoff, wakeAt, streak, ended, orders>>
  BY DEF Reconnect, NewPacer, historyVars
<1>2. PacingTyped'
  BY <1>1 DEF PacingSound, PacingTyped
<1>3. PacerSound' /\ GapsKept'
  BY <1>1 DEF PacerSound, GapsKept
<1>4. IdsRemembered'
  BY <1>1, PacingAssumption DEF IdsRemembered, Lesser
<1>5. BackoffSound'
  <2>1. /\ streak \in Nat /\ streak > 0 /\ wakeAt >= ended + ShortestWait(streak)
        /\ clock \in Nat /\ wakeAt \in Nat /\ ended \in Nat /\ backoff = ShortestWait(streak + 1)
    BY <1>1 DEF PacingSound, PacingTyped, BackoffSound
  <2>2. ShortestWait(streak) \in Nat
    BY <2>1, WaitFacts
  <2>3. clock >= ended + ShortestWait(streak)
    BY <1>1, <2>1, <2>2
  <2>. QED
    BY <1>1, <2>1, <2>3 DEF BackoffSound
<1>. QED
  BY <1>2, <1>3, <1>4, <1>5 DEF PacingSound

(* Whatever happens, a connection against the clock stays sound.           *)
LEMMA PacingKeeps == PacingSound /\ [PacingNext]_pacingVars => PacingSound'
<1>. SUFFICES ASSUME PacingSound, [PacingNext]_pacingVars PROVE PacingSound'
  OBVIOUS
<1>1. CASE UNCHANGED pacingVars
  <2>1. PacingTyped' /\ PacerSound' /\ GapsKept' /\ IdsRemembered' /\ BackoffSound'
    BY <1>1 DEF pacingVars, historyVars, PacingSound, PacingTyped, PacerSound, GapsKept, IdsRemembered,
                BackoffSound
  <2>. QED
    BY <2>1 DEF PacingSound
<1>2. CASE LaneClosed
  <2>1. /\ phase' = "over"
        /\ UNCHANGED <<pacer, clock, carries, outbox, batch, ready, ids, wire, started, backoff, wakeAt,
                       streak, ended, orders>>
    BY <1>2 DEF LaneClosed, historyVars
  <2>2. PacingTyped' /\ PacerSound'
    BY <2>1 DEF PacingSound, PacingTyped, PacerSound
  <2>. QED
    BY <2>1, <2>2, QuietStep
<1>3. CASE Tick
  <2>1. /\ clock' = clock + 1
        /\ UNCHANGED <<pacer, phase, carries, outbox, batch, ready, ids, wire, started, backoff, wakeAt,
                       streak, ended, orders>>
    BY <1>3 DEF Tick, historyVars
  <2>2. PacingTyped' /\ PacerSound'
    BY <2>1 DEF PacingSound, PacingTyped, PacerSound
  <2>. QED
    BY <2>1, <2>2, QuietStep
<1>. QED
  BY <1>1, <1>2, <1>3, SendControlStep, OnDeadlineStep, ConnectedStep, ReconnectStep, AdmitOfflineStep,
     AdmitStep, SessionEndsStep DEF PacingNext

(* A sound one paces in order.                                             *)
LEMMA SoundIsPaced == PacingSound => PacedInOrder
<1>. SUFFICES ASSUME PacingSound PROVE PacedInOrder
  OBVIOUS
<1>. DEFINE n == Len(wire)
            k == Len(ids)
<1>1. PacingTyped /\ wire \in Seq(WireFrames) /\ n \in Nat /\ DOMAIN wire = 1 .. n
      /\ INFLIGHT_IDS \in Nat \ {0}
  BY LenProperties, PacingAssumption DEF PacingSound, PacingTyped
<1>2. ASSUME NEW i \in 1 .. n, pacer = "batch"
      PROVE  NamesFor(i) = IF i > n - INFLIGHT_IDS THEN wire[i].names ELSE <<>>
  <2>1. /\ ids \in Seq([id : Nat, names : Seq(Streams)]) /\ k = Lesser(n, INFLIGHT_IDS) /\ k \in Nat
        /\ DOMAIN ids = 1 .. k
        /\ \A j \in 1 .. k : ids[j] = [id |-> n - k + j, names |-> wire[n - k + j].names]
    BY <1>2, LenProperties DEF PacingSound, IdsRemembered
  <2>2. \A j \in 1 .. k : ids[j].id = n - k + j /\ ids[j].names = wire[n - k + j].names
    BY <2>1
  <2>3. NamesFor(i) = IF \E j \in DOMAIN ids : ids[j].id = i
                      THEN ids[CHOOSE j \in DOMAIN ids : ids[j].id = i].names ELSE <<>>
    BY <1>2 DEF NamesFor
  <2>. HIDE DEF n, k
  <2>4. CASE i > n - INFLIGHT_IDS
    <3>. DEFINE m == CHOOSE j \in DOMAIN ids : ids[j].id = i
    <3>1. i - (n - k) \in 1 .. k /\ n - k + (i - (n - k)) = i
      BY <1>1, <2>1, <2>4 DEF Lesser
    <3>2. \E j \in DOMAIN ids : ids[j].id = i
      BY <2>1, <2>2, <3>1
    <3>3. m \in 1 .. k /\ ids[m].id = i
      BY <2>1, <3>2
    <3>. HIDE DEF m
    <3>4. ids[m].names = wire[i].names
      BY <2>2, <3>3
    <3>. QED
      BY <2>3, <2>4, <3>2, <3>4 DEF m
  <2>5. CASE ~(i > n - INFLIGHT_IDS)
    <3>1. ASSUME NEW j \in DOMAIN ids PROVE ids[j].id # i
      <4>1. j \in 1 .. k /\ ids[j].id = n - k + j
        BY <2>1, <2>2
      <4>. QED
        BY <1>1, <2>1, <2>5, <4>1 DEF Lesser
    <3>. QED
      BY <2>3, <2>5, <3>1
  <2>. QED
    BY <2>4, <2>5
<1>3. ASSUME NEW i \in 1 .. n, i > 1 PROVE wire[i].at >= wire[i - 1].at + GAP
  BY <1>3 DEF PacingSound, GapsKept
<1>4. phase = "up" => Obeyed({}, wire \o batch \o Single(outbox)) = carries
  BY DEF PacingSound, PacerSound
<1>5. /\ phase \in {"connecting", "up"} /\ streak > 0 => started >= ended + ShortestWait(streak)
      /\ phase = "down" => wakeAt <= ended + ShortestWait(streak) + ShortestWait(streak) \div 2
  BY DEF PacingSound, BackoffSound
<1>. QED
  BY <1>1, <1>2, <1>3, <1>4, <1>5 DEF PacedInOrder

(* However commands were batched, chunked and interrupted, a venue ends up *)
(* with the streams of the table and is never sent frames closer than the  *)
(* gap; a rejection is put down to its own request; a next socket comes    *)
(* after BASE first and then after twice as long each time up to the cap,  *)
(* whatever the cap (BatchPacer, ChannelPacer, Backoff::next_delay).       *)
THEOREM FramesArePaced == Spec => []PacedInOrder
<1>1. Init => PacingSound
  BY InitOfParts, PacingBegins
<1>2. PacingSound /\ [Next]_structureVars => PacingSound'
  <2>. SUFFICES ASSUME PacingSound, [Next]_structureVars PROVE PacingSound'
    OBVIOUS
  <2>1. [PacingNext]_pacingVars
    BY StepsOfParts DEF structureVars
  <2>. QED
    BY <2>1, PacingKeeps
<1>. QED
  BY <1>1, <1>2, SoundIsPaced, PTL DEF Spec

-----------------------------------------------------------------------------
(* The frame of a book *)

Level == [price : Nat, size : Nat]
LevelFields == [key : BookSides, len : {LEVEL_BODY}, price : Nat, size : Nat, venue_idx : Nat]
Catalogued == {<<"binance_spot">>, <<"binance_spot", "bitstamp">>, <<"bitstamp", "binance_spot">>}

(* Levels of a side of each venue, best first.                             *)
Runs(s, levels) ==
  /\ DOMAIN levels = DOMAIN pairs
  /\ \A i \in DOMAIN pairs : levels[i] \in Seq(Level) /\ Sorted(s, levels[i])

(* What is on the wire of a level.                                         *)
Tells(f, l) == f.price = l.price /\ f.size = l.size /\ f.venue_idx = l.venue_idx

Ahead(s, l) == {m \in Quoted(s) : Before(s, m, l)}
Rank(s, l) == Cardinality(Ahead(s, l)) + 1
IsBest(s, l) == l \in Quoted(s) /\ \A m \in Quoted(s) : ~Before(s, m, l)
Depth(s) == Fewest(LEVELS, Cardinality(Quoted(s)))

(* What is gone from the heads of a side was written in its place, and     *)
(* comes before what is left.                                              *)
SideGoesOn(s) ==
  LET read == Written(fields, s)
      left == Quotes(heads)
      gone == Quoted(s) \ left
  IN  /\ Runs(s, heads) /\ left \subseteq Quoted(s)
      /\ remaining \in Nat /\ Len(read) + remaining = Depth(s)
      /\ Cardinality(gone) = Len(read)
      /\ \A l \in gone, m \in left : Before(s, l, m)
      /\ \A l \in gone : Rank(s, l) \in 1 .. Len(read) /\ Tells(read[Rank(s, l)], l)
      /\ read # <<>> => \E l \in gone : IsBest(s, l) /\ Tells(read[1], l)

(* A side is written.                                                      *)
SideIsWhole(s) ==
  LET read == Written(fields, s)
  IN  /\ Len(read) = Depth(s)
      /\ \A l \in Quoted(s) : Rank(s, l) <= Len(read) => Tells(read[Rank(s, l)], l)
      /\ read # <<>> => \E l \in Quoted(s) : IsBest(s, l) /\ Tells(read[1], l)

(* The asks are written, then the bids.                                    *)
WalkSound ==
  \/ writing = "parked"
  \/ writing = "done" /\ FrameIsMergedBook
  \/ /\ writing \in BookSides /\ pairs \in Catalogued /\ fields \in Seq(LevelFields)
     /\ \A s \in BookSides : Runs(s, OfSide(s)) /\ \A i \in DOMAIN pairs : Len(OfSide(s)[i]) <= LEVELS
     /\ writing = "asks" => SideGoesOn("asks") /\ Written(fields, "bids") = <<>>
     /\ writing = "bids" => SideIsWhole("asks") /\ SideGoesOn("bids")

(* The levels of a side in the first fields of a body.                     *)
Keeps(g, frame, s) ==
  /\ g[0] = <<>>
  /\ \A n \in 1 .. Len(frame) : g[n] = IF frame[n].key = s THEN Append(g[n - 1], frame[n]) ELSE g[n - 1]

KeptOf(frame, s) ==
  CHOOSE upTo : upTo = [n \in 0 .. Len(frame) |->
    IF n = 0 THEN <<>>
    ELSE IF frame[n].key = s THEN Append(upTo[n - 1], frame[n]) ELSE upTo[n - 1]]

(* They are there, ...                                                     *)
LEMMA WrittenSteps ==
  ASSUME NEW F, NEW frame \in Seq(F), NEW s
  PROVE  \E g \in [0 .. Len(frame) -> Seq(F)] : Keeps(g, frame, s) /\ Written(frame, s) = g[Len(frame)]
<1>. DEFINE b == Len(frame)
            X == Seq(F)
            step == [k \in 0 .. b |-> [q \in X |->
                       IF k # 0 /\ frame[k].key = s THEN Append(q, frame[k]) ELSE q]]
            E(f) == f = [n \in 0 .. b |->
                      IF n = 0 THEN <<>>
                      ELSE IF frame[n].key = s THEN Append(f[n - 1], frame[n]) ELSE f[n - 1]]
            A == KeptOf(frame, s)
<1>1. b \in Nat /\ \A k \in 1 .. b : frame[k] \in F
  BY LenProperties, ElementOfSeq
<1>2. step \in [0 .. b -> [X -> X]]
  <2>1. ASSUME NEW k \in 0 .. b, k # 0, NEW q \in X PROVE Append(q, frame[k]) \in X
    BY <1>1, <2>1, AppendProperties
  <2>. QED
    BY <2>1
<1>3. PICK f \in [0 .. b -> X] : GoesOn(f, 0, b, <<>>, step)
  <2>1. <<>> \in X /\ 0 \in Int /\ b \in Int /\ 0 <= b
    BY <1>1
  <2>. HIDE DEF X, b, step
  <2>. QED
    BY <1>2, <2>1, Recursion
<1>4. E(f)
  <2>1. ASSUME NEW k \in 0 .. b
        PROVE  f[k] = IF k = 0 THEN <<>>
                      ELSE IF frame[k].key = s THEN Append(f[k - 1], frame[k]) ELSE f[k - 1]
    <3>1. CASE k = 0
      BY <1>3, <3>1 DEF GoesOn
    <3>2. CASE k # 0
      <4>1. k - 1 \in 0 .. b
        BY <1>1, <3>2
      <4>2. f[k - 1] \in X /\ f[k] = step[k][f[k - 1]]
        BY <1>3, <3>2, <4>1 DEF GoesOn
      <4>. QED
        BY <3>2, <4>2
    <3>. QED
      BY <3>1, <3>2
  <2>. HIDE DEF X, b
  <2>. QED
    BY <1>3, <2>1
<1>5. E(A)
  <2>. HIDE DEF E
  <2>1. A = CHOOSE h : E(h)
    BY DEF KeptOf, E
  <2>. QED
    BY <1>4, <2>1
<1>6. A \in [0 .. b -> X]
  <2>. HIDE DEF X, A
  <2>1. \A n \in 0 .. b : (n = 0 \/ A[n - 1] = f[n - 1]) => A[n] = f[n]
    BY <1>4, <1>5
  <2>2. \A n \in 0 .. b : A[n] = f[n]
    <3>1. 0 \in Nat /\ Follows(0, b, A, f)
      BY <2>1 DEF Follows
    <3>. HIDE DEF b, E
    <3>. QED
      BY <1>1, <3>1, Followed
  <2>3. DOMAIN A = 0 .. b /\ A = [n \in 0 .. b |-> A[n]]
    BY <1>5
  <2>. HIDE DEF b
  <2>. QED
    BY <1>3, <2>2, <2>3
<1>7. Keeps(A, frame, s)
  <2>. HIDE DEF A
  <2>1. A[0] = <<>>
    BY <1>1, <1>5
  <2>2. ASSUME NEW n \in 1 .. b
        PROVE  A[n] = IF frame[n].key = s THEN Append(A[n - 1], frame[n]) ELSE A[n - 1]
    <3>1. n \in 0 .. b /\ n # 0
      BY <1>1, <2>2
    <3>. HIDE DEF b
    <3>. QED
      BY <1>5, <3>1
  <2>. QED
    BY <2>1, <2>2 DEF Keeps
<1>8. Written(frame, s) = A[b]
  BY DEF Written, KeptOf
<1>. QED
  BY <1>6, <1>7, <1>8

(* ... and a field behind them comes behind those of its side.             *)
LEMMA WrittenGrows ==
  ASSUME NEW F, NEW frame \in Seq(F), NEW new \in F, NEW s
  PROVE  /\ Written(frame, s) \in Seq(F)
         /\ Written(Append(frame, new), s)
              = IF new.key = s THEN Append(Written(frame, s), new) ELSE Written(frame, s)
<1>. DEFINE more == Append(frame, new)
            b == Len(frame)
<1>1. /\ more \in Seq(F) /\ Len(more) = b + 1 /\ b \in Nat /\ 0 \in Nat
      /\ (\A i \in 1 .. b : more[i] = frame[i]) /\ more[b + 1] = new
  BY AppendProperties, LenProperties
<1>. HIDE DEF more
<1>2. PICK g \in [0 .. Len(more) -> Seq(F)] :
        Keeps(g, more, s) /\ Written(more, s) = g[Len(more)]
  BY <1>1, WrittenSteps
<1>3. PICK h \in [0 .. b -> Seq(F)] : Keeps(h, frame, s) /\ Written(frame, s) = h[b]
  BY WrittenSteps
<1>4. ASSUME NEW n \in 0 .. b, n = 0 \/ g[n - 1] = h[n - 1] PROVE g[n] = h[n]
  <2>1. CASE n = 0
    BY <1>2, <1>3, <2>1 DEF Keeps
  <2>2. CASE n # 0
    <3>1. n \in 1 .. b /\ n \in 1 .. Len(more) /\ more[n] = frame[n] /\ g[n - 1] = h[n - 1]
      BY <1>1, <1>4, <2>2
    <3>. QED
      BY <1>2, <1>3, <3>1 DEF Keeps
  <2>. QED
    BY <2>1, <2>2
<1>5. Follows(0, b, g, h)
  BY <1>4 DEF Follows
<1>6. \A n \in 0 .. b : g[n] = h[n]
  <2>1. 0 \in Nat /\ b \in Nat
    BY <1>1
  <2>. HIDE DEF b
  <2>2. \A x, y : Follows(0, b, x, y) => \A n \in 0 .. b : x[n] = y[n]
    BY <2>1, Followed
  <2>. QED
    BY <1>5, <2>2
<1>7. b \in 0 .. b /\ b + 1 \in 1 .. Len(more) /\ b + 1 - 1 = b
  BY <1>1
<1>8. g[b + 1] = IF new.key = s THEN Append(g[b], new) ELSE g[b]
  BY <1>1, <1>2, <1>7 DEF Keeps
<1>. QED
  BY <1>1, <1>2, <1>3, <1>6, <1>7, <1>8 DEF more

(* Nothing is written in an empty frame.                                    *)
LEMMA WrittenNone ==
  ASSUME NEW s
  PROVE  Written(<<>>, s) = <<>>
<1>1. <<>> \in Seq({}) /\ Len(<<>>) = 0
  OBVIOUS
<1>2. PICK g : Keeps(g, <<>>, s) /\ Written(<<>>, s) = g[0]
  BY <1>1, WrittenSteps
<1>. QED
  BY <1>2 DEF Keeps

(* The venues of a book.                                                   *)
LEMMA CataloguedFacts ==
  ASSUME pairs \in Catalogued
  PROVE  /\ DOMAIN pairs = 1 .. Len(pairs) /\ Len(pairs) \in {1, 2}
         /\ \A i \in DOMAIN pairs : pairs[i] \in {"binance_spot", "bitstamp"} /\ VenueIdx[pairs[i]] \in Nat
<1>1. \/ pairs = <<"binance_spot">>
      \/ pairs = <<"binance_spot", "bitstamp">> \/ pairs = <<"bitstamp", "binance_spot">>
  BY DEF Catalogued
<1>2. DOMAIN pairs = 1 .. Len(pairs) /\ Len(pairs) \in {1, 2}
  BY <1>1
<1>3. ASSUME NEW i \in DOMAIN pairs PROVE pairs[i] \in {"binance_spot", "bitstamp"}
  <2>1. i = 1 \/ (i = 2 /\ Len(pairs) = 2)
    BY <1>2
  <2>. QED
    BY <1>1, <2>1
<1>4. \A v \in {"binance_spot", "bitstamp"} : VenueIdx[v] \in Nat
  BY DEF VenueIdx
<1>. QED
  BY <1>2, <1>3, <1>4

QuoteType == [venue_idx : Nat, price : Nat, size : Nat, at : Nat]

(* The levels of runs: no two of a venue have the same price.              *)
LEMMA QuotesFacts ==
  ASSUME pairs \in Catalogued, NEW s \in BookSides, NEW levels, Runs(s, levels)
  PROVE  /\ \A l \in Quotes(levels) :
              /\ l \in QuoteType
              /\ \E i \in DOMAIN pairs : \E n \in 1 .. Len(levels[i]) : l = Quote(i, levels[i][n])
         /\ \A i \in DOMAIN pairs : \A n \in 1 .. Len(levels[i]) :
              levels[i][n] \in Level /\ Quote(i, levels[i][n]) \in Quotes(levels)
         /\ \A l, m \in Quotes(levels) : l.at = m.at /\ l.price = m.price => l = m
<1>1. /\ DOMAIN pairs = 1 .. Len(pairs) /\ Len(pairs) \in {1, 2}
      /\ \A i \in DOMAIN pairs : VenueIdx[pairs[i]] \in Nat
      /\ DOMAIN levels = DOMAIN pairs
      /\ \A i \in DOMAIN pairs : levels[i] \in Seq(Level) /\ DOMAIN levels[i] = 1 .. Len(levels[i])
                                 /\ Len(levels[i]) \in Nat /\ Sorted(s, levels[i])
  BY CataloguedFacts, LenProperties DEF Runs
<1>2. ASSUME NEW i \in DOMAIN pairs, NEW n \in 1 .. Len(levels[i])
      PROVE  levels[i][n] \in Level /\ Quote(i, levels[i][n]) \in Quotes(levels)
  <2>1. levels[i][n] \in Level
    BY <1>1, ElementOfSeq
  <2>. QED
    BY <1>1, <2>1 DEF Quotes
<1>3. ASSUME NEW l \in Quotes(levels)
      PROVE  /\ l \in QuoteType
             /\ \E i \in DOMAIN pairs : \E n \in 1 .. Len(levels[i]) : l = Quote(i, levels[i][n])
  <2>1. PICK i \in DOMAIN pairs : \E n \in 1 .. Len(levels[i]) : l = Quote(i, levels[i][n])
    BY <1>1 DEF Quotes
  <2>. PICK n \in 1 .. Len(levels[i]) : l = Quote(i, levels[i][n])
    BY <2>1
  <2>2. levels[i][n].price \in Nat /\ levels[i][n].size \in Nat
    BY <1>2 DEF Level
  <2>3. i \in Nat /\ VenueIdx[pairs[i]] \in Nat
    BY <1>1
  <2>. QED
    BY <2>2, <2>3 DEF Quote, QuoteType
<1>4. ASSUME NEW l \in Quotes(levels), NEW m \in Quotes(levels), l.at = m.at, l.price = m.price
      PROVE  l = m
  <2>1. PICK i \in DOMAIN pairs : \E n \in 1 .. Len(levels[i]) : l = Quote(i, levels[i][n])
    BY <1>3
  <2>. PICK n \in 1 .. Len(levels[i]) : l = Quote(i, levels[i][n])
    BY <2>1
  <2>2. PICK j \in DOMAIN pairs : \E k \in 1 .. Len(levels[j]) : m = Quote(j, levels[j][k])
    BY <1>3
  <2>. PICK k \in 1 .. Len(levels[j]) : m = Quote(j, levels[j][k])
    BY <2>2
  <2>3. i = j /\ levels[i][n].price = levels[i][k].price
    BY <1>4, <2>1, <2>2 DEF Quote
  <2>4. levels[i][n].price \in Nat /\ levels[i][k].price \in Nat
    BY <1>2, <2>2, <2>3 DEF Level
  <2>5. n = k
    <3>1. n \in DOMAIN levels[i] /\ k \in DOMAIN levels[i] /\ n \in Nat /\ k \in Nat /\ Sorted(s, levels[i])
      BY <1>1, <2>2, <2>3
    <3>. QED
      BY <2>3, <2>4, <3>1 DEF Sorted, Beats
  <2>. QED
    BY <2>1, <2>2, <2>3, <2>5
<1>. QED
  BY <1>2, <1>3, <1>4

(* The order of the merge.                                                 *)
LEMMA BeforeFacts ==
  ASSUME NEW s \in BookSides, NEW l \in QuoteType, NEW m \in QuoteType
  PROVE  /\ Before(s, l, m) => ~Before(s, m, l)
         /\ Before(s, l, m) \/ Before(s, m, l) \/ (l.at = m.at /\ l.price = m.price)
         /\ ~Before(s, l, l)
BY DEF Before, Beats, QuoteType, BookSides

(* A side of the venues is as deep as its walk is long.                    *)
LEMMA QuotedCount ==
  ASSUME pairs \in Catalogued, NEW s \in BookSides, Runs(s, OfSide(s)),
         \A i \in DOMAIN pairs : Len(OfSide(s)[i]) <= LEVELS
  PROVE  IsFiniteSet(Quoted(s)) /\ Bound(OfSide(s)) = Depth(s) /\ Depth(s) \in Nat
<1>. DEFINE L == OfSide(s)
            E == Quotes(L)
            P == UNION {{i} \X DOMAIN L[i] : i \in DOMAIN L}
            f == [c \in P |-> Quote(c[1], L[c[1]][c[2]])]
<1>1. /\ DOMAIN pairs = 1 .. Len(pairs) /\ Len(pairs) \in {1, 2} /\ DOMAIN L = 1 .. Len(pairs)
      /\ Len(L) = Len(pairs)
  BY CataloguedFacts DEF OfSide
<1>2. ASSUME NEW i \in 1 .. Len(pairs)
      PROVE  /\ L[i] \in Seq(Level) /\ DOMAIN L[i] = 1 .. Len(L[i]) /\ Len(L[i]) \in Nat
             /\ Len(L[i]) <= LEVELS /\ Sorted(s, L[i])
  BY <1>1, <1>2, LenProperties DEF Runs
<1>3. /\ \A l \in E : \E i \in DOMAIN pairs : \E n \in 1 .. Len(L[i]) : l = Quote(i, L[i][n])
      /\ \A i \in DOMAIN pairs : \A n \in 1 .. Len(L[i]) : L[i][n] \in Level /\ Quote(i, L[i][n]) \in E
  <2>. HIDE DEF L
  <2>1. Runs(s, L)
    BY DEF L
  <2>. QED
    BY <2>1, QuotesFacts
<1>. HIDE DEF L, E
<1>4. \A c \in P : /\ c = <<c[1], c[2]>> /\ c[1] \in 1 .. Len(pairs)
                   /\ c[2] \in 1 .. Len(L[c[1]]) /\ c[2] \in 1 .. LEVELS
  BY <1>1, <1>2, LevelsAssumption
<1>5. \A i \in 1 .. Len(pairs) : \A n \in 1 .. Len(L[i]) : <<i, n>> \in P
  BY <1>1, <1>2
<1>6. IsFiniteSet(P)
  <2>1. IsFiniteSet(1 .. Len(pairs)) /\ IsFiniteSet(1 .. LEVELS)
    BY <1>1, FS_Interval, LevelsAssumption
  <2>2. IsFiniteSet((1 .. Len(pairs)) \X (1 .. LEVELS))
    BY <2>1, FS_Product
  <2>3. P \subseteq (1 .. Len(pairs)) \X (1 .. LEVELS)
    BY <1>4
  <2>. HIDE DEF P
  <2>. QED
    BY <2>2, <2>3, FS_Subset
<1>. HIDE DEF P
<1>7. f \in [P -> E] /\ \A c \in P : f[c] = Quote(c[1], L[c[1]][c[2]])
  BY <1>1, <1>3, <1>4
<1>8. ASSUME NEW c \in P, NEW d \in P, f[c] = f[d] PROVE c = d
  <2>. DEFINE i == c[1]
              n == c[2]
              k == d[2]
  <2>1. i = d[1] /\ L[i][n].price = L[i][k].price
    BY <1>7, <1>8 DEF Quote
  <2>2. n \in 1 .. Len(L[i]) /\ k \in 1 .. Len(L[i]) /\ i \in 1 .. Len(pairs)
    BY <1>4, <2>1
  <2>3. L[i][n].price \in Nat /\ L[i][k].price \in Nat
    BY <1>1, <1>3, <2>2 DEF Level
  <2>4. n \in DOMAIN L[i] /\ k \in DOMAIN L[i] /\ Sorted(s, L[i]) /\ n \in Nat /\ k \in Nat
    BY <1>2, <2>2
  <2>5. c = <<i, n>> /\ d = <<d[1], k>>
    BY <1>4
  <2>. HIDE DEF i, n, k
  <2>6. n = k
    BY <2>1, <2>3, <2>4 DEF Sorted, Beats
  <2>. QED
    BY <2>1, <2>5, <2>6
<1>9. ASSUME NEW l \in E PROVE \E c \in P : f[c] = l
  <2>1. PICK i \in DOMAIN pairs : \E n \in 1 .. Len(L[i]) : l = Quote(i, L[i][n])
    BY <1>3
  <2>2. PICK n \in 1 .. Len(L[i]) : l = Quote(i, L[i][n])
    BY <2>1
  <2>3. <<i, n>> \in P
    BY <1>1, <1>5
  <2>4. f[<<i, n>>] = Quote(i, L[i][n])
    BY <1>7, <2>3
  <2>. QED
    BY <2>2, <2>3, <2>4
<1>10. IsFiniteSet(E) /\ Cardinality(E) = Cardinality(P) /\ Cardinality(E) \in Nat
  <2>. HIDE DEF f
  <2>1. f \in Bijection(P, E)
    BY <1>7, <1>8, <1>9, Fun_IsBij
  <2>2. ExistsBijection(P, E)
    BY <2>1 DEF ExistsBijection
  <2>. QED
    BY <1>6, <2>2, FS_Bijection, FS_CardinalityType
<1>11. E = Quoted(s) /\ Together(L) = Cardinality(P)
  BY DEF E, Quoted, L, Together, P
<1>12. Len(pairs) = 1 => Cardinality(P) = Len(L[1])
  <2>. SUFFICES ASSUME Len(pairs) = 1 PROVE Cardinality(P) = Len(L[1])
    OBVIOUS
  <2>1. Len(L[1]) \in Nat /\ DOMAIN L[1] = 1 .. Len(L[1])
    BY <1>2
  <2>2. P = {1} \X (1 .. Len(L[1]))
    BY <1>1, <2>1 DEF P
  <2>3. IsFiniteSet({1}) /\ Cardinality({1}) = 1
    BY FS_Singleton
  <2>4. IsFiniteSet(1 .. Len(L[1])) /\ Cardinality(1 .. Len(L[1])) = Len(L[1])
    BY <2>1, FS_Interval
  <2>5. Cardinality(P) = Cardinality({1}) * Cardinality(1 .. Len(L[1]))
    BY <2>2, <2>3, <2>4, FS_Product
  <2>. QED
    BY <2>1, <2>3, <2>4, <2>5
<1>13. Bound(L) = Depth(s)
  BY <1>1, <1>2, <1>10, <1>11, <1>12, LevelsAssumption DEF Bound, Depth, Fewest
<1>. QED
  BY <1>10, <1>11, <1>13, LevelsAssumption DEF L, Depth, Fewest

(* A book is what it is while it is written.                               *)
LEMMA BookStays ==
  ASSUME UNCHANGED <<pairs, small>>, NEW s
  PROVE  /\ OfSide(s)' = OfSide(s) /\ Quoted(s)' = Quoted(s) /\ Depth(s)' = Depth(s)
         /\ \A l : Ahead(s, l)' = Ahead(s, l) /\ Rank(s, l)' = Rank(s, l) /\ IsBest(s, l)' = IsBest(s, l)
<1>1. OfSide(s)' = OfSide(s)
  BY DEF OfSide
<1>2. Quoted(s)' = Quoted(s)
  BY <1>1 DEF Quoted, Quotes, Quote
<1>. QED
  BY <1>1, <1>2 DEF Depth, Ahead, Rank, IsBest

(* The best head is there, and comes before all that is left.              *)
LEMMA BestHeadFacts ==
  ASSUME pairs \in Catalogued, NEW s \in BookSides, Runs(s, heads), Quotes(heads) # {}
  PROVE  LET b == BestHead(s)
             e == Quote(b, heads[b][1])
         IN  /\ b \in DOMAIN pairs /\ heads[b] # <<>> /\ heads[b][1] \in Level /\ e \in Quotes(heads)
             /\ \A m \in Quotes(heads) : m # e => Before(s, e, m)
<1>. DEFINE b == BestHead(s)
            e == Quote(b, heads[b][1])
            Best(i) == /\ heads[i] # <<>>
                       /\ \A j \in DOMAIN heads : heads[j] # <<>> =>
                            /\ ~Beats(s, heads[j][1].price, heads[i][1].price)
                            /\ j < i => heads[j][1].price # heads[i][1].price
<1>1. /\ DOMAIN pairs = 1 .. Len(pairs) /\ Len(pairs) \in {1, 2} /\ DOMAIN heads = DOMAIN pairs
      /\ \A i \in DOMAIN pairs : heads[i] \in Seq(Level) /\ DOMAIN heads[i] = 1 .. Len(heads[i])
                                 /\ Len(heads[i]) \in Nat /\ Sorted(s, heads[i])
  BY CataloguedFacts, LenProperties DEF Runs
<1>2. /\ \A l \in Quotes(heads) :
           \E i \in DOMAIN pairs : \E n \in 1 .. Len(heads[i]) : l = Quote(i, heads[i][n])
      /\ \A i \in DOMAIN pairs : \A n \in 1 .. Len(heads[i]) :
           heads[i][n] \in Level /\ Quote(i, heads[i][n]) \in Quotes(heads)
  BY QuotesFacts
<1>3. \A i \in DOMAIN pairs : heads[i] # <<>> => 1 \in 1 .. Len(heads[i]) /\ heads[i][1].price \in Nat
  <2>1. ASSUME NEW i \in DOMAIN pairs, heads[i] # <<>> PROVE 1 \in 1 .. Len(heads[i])
    BY <1>1, <2>1, EmptySeq
  <2>. QED
    BY <1>2, <2>1 DEF Level
<1>4. \E i \in DOMAIN heads : Best(i)
  <2>1. PICK i \in DOMAIN pairs : heads[i] # <<>>
    <3>1. PICK l \in Quotes(heads) : TRUE
      OBVIOUS
    <3>2. PICK i \in DOMAIN pairs : \E n \in 1 .. Len(heads[i]) : l = Quote(i, heads[i][n])
      BY <1>2
    <3>3. Len(heads[i]) # 0
      BY <1>1, <3>2
    <3>. QED
      BY <1>1, <3>2, <3>3
  <2>2. CASE \A j \in DOMAIN pairs : heads[j] # <<>> => j = i
    <3>1. ASSUME NEW j \in DOMAIN heads, heads[j] # <<>> PROVE j = i
      BY <1>1, <2>2, <3>1
    <3>2. ~Beats(s, heads[i][1].price, heads[i][1].price) /\ ~(i < i)
      BY <1>1, <1>3, <2>1 DEF Beats
    <3>. QED
      BY <1>1, <2>1, <3>1, <3>2
  <2>3. CASE ~(\A j \in DOMAIN pairs : heads[j] # <<>> => j = i)
    <3>1. /\ DOMAIN heads = {1, 2} /\ heads[1] # <<>> /\ heads[2] # <<>>
          /\ heads[1][1].price \in Nat /\ heads[2][1].price \in Nat
      <4>1. PICK j \in DOMAIN pairs : heads[j] # <<>> /\ j # i
        BY <2>3
      <4>2. /\ 1 \in DOMAIN pairs /\ 2 \in DOMAIN pairs
            /\ DOMAIN heads = {1, 2} /\ heads[1] # <<>> /\ heads[2] # <<>>
        BY <1>1, <2>1, <4>1
      <4>. QED
        BY <1>3, <4>2
    <3>2. CASE Beats(s, heads[2][1].price, heads[1][1].price)
      <4>1. Best(2)
        BY <3>1, <3>2 DEF Beats
      <4>. QED
        BY <3>1, <4>1
    <3>3. CASE ~Beats(s, heads[2][1].price, heads[1][1].price)
      <4>1. Best(1)
        BY <3>1, <3>3 DEF Beats
      <4>. QED
        BY <3>1, <4>1
    <3>. QED
      BY <3>2, <3>3
  <2>. QED
    BY <2>2, <2>3
<1>5. b \in DOMAIN heads /\ Best(b)
  <2>. HIDE DEF Best
  <2>1. b = CHOOSE i \in DOMAIN heads : Best(i)
    BY DEF BestHead, Best
  <2>. QED
    BY <1>4, <2>1
<1>. HIDE DEF b
<1>6. /\ b \in DOMAIN pairs /\ heads[b] # <<>> /\ 1 \in 1 .. Len(heads[b]) /\ heads[b][1] \in Level
      /\ e \in Quotes(heads) /\ heads[b][1].price \in Nat
  BY <1>1, <1>2, <1>3, <1>5
<1>7. ASSUME NEW m \in Quotes(heads), m # e PROVE Before(s, e, m)
  <2>1. PICK j \in DOMAIN pairs : \E n \in 1 .. Len(heads[j]) : m = Quote(j, heads[j][n])
    BY <1>2
  <2>2. PICK n \in 1 .. Len(heads[j]) : m = Quote(j, heads[j][n])
    BY <2>1
  <2>3. heads[j] # <<>> /\ heads[j][n].price \in Nat /\ heads[j][1].price \in Nat /\ j \in Int /\ b \in Int
    <3>1. Len(heads[j]) # 0
      BY <1>1, <2>2
    <3>2. heads[j] # <<>>
      BY <3>1
    <3>3. heads[j][n] \in Level
      BY <1>2
    <3>4. heads[j][n].price \in Nat
      BY <3>3 DEF Level
    <3>. QED
      BY <1>1, <1>3, <1>6, <3>2, <3>4
  <2>4. n = 1 \/ Beats(s, heads[j][1].price, heads[j][n].price)
    <3>1. 1 \in DOMAIN heads[j] /\ n \in DOMAIN heads[j] /\ (n = 1 \/ 1 < n) /\ Sorted(s, heads[j])
      BY <1>1, <2>2
    <3>. QED
      BY <3>1 DEF Sorted
  <2>5. /\ ~Beats(s, heads[j][1].price, heads[b][1].price)
        /\ j < b => heads[j][1].price # heads[b][1].price
    BY <1>1, <1>5, <2>3
  <2>6. j # b \/ n # 1
    BY <1>7, <2>2
  <2>7. e.price = heads[b][1].price /\ e.at = b /\ m.price = heads[j][n].price /\ m.at = j
    BY <2>2 DEF Quote
  <2>. HIDE DEF e
  <2>. QED
    BY <1>6, <2>3, <2>4, <2>5, <2>6, <2>7 DEF Before, Beats
<1>. QED
  BY <1>6, <1>7 DEF b

(* A run without its first level.                                          *)
WithoutFirst(b, rest) == rest = [heads EXCEPT ![b] = Tail(@)]

LEMMA RestFacts ==
  ASSUME pairs \in Catalogued, NEW s \in BookSides, Runs(s, heads),
         NEW b \in DOMAIN pairs, heads[b] # <<>>, NEW rest, WithoutFirst(b, rest)
  PROVE  Runs(s, rest) /\ Quotes(rest) = Quotes(heads) \ {Quote(b, heads[b][1])}
<1>. DEFINE e == Quote(b, heads[b][1])
<1>1. /\ DOMAIN heads = DOMAIN pairs /\ DOMAIN rest = DOMAIN pairs
      /\ \A i \in DOMAIN pairs : heads[i] \in Seq(Level) /\ DOMAIN heads[i] = 1 .. Len(heads[i])
                                 /\ Len(heads[i]) \in Nat /\ Sorted(s, heads[i])
  BY LenProperties DEF Runs, WithoutFirst
<1>2. /\ \A l \in Quotes(heads) :
           \E i \in DOMAIN pairs : \E n \in 1 .. Len(heads[i]) : l = Quote(i, heads[i][n])
      /\ \A i \in DOMAIN pairs : \A n \in 1 .. Len(heads[i]) :
           heads[i][n] \in Level /\ Quote(i, heads[i][n]) \in Quotes(heads)
  BY QuotesFacts
<1>3. \A i \in DOMAIN pairs : i # b => rest[i] = heads[i]
  BY <1>1 DEF WithoutFirst
<1>4. /\ rest[b] \in Seq(Level) /\ Len(rest[b]) = Len(heads[b]) - 1 /\ Len(rest[b]) \in Nat
      /\ DOMAIN rest[b] = 1 .. Len(rest[b])
      /\ \A n \in 1 .. Len(rest[b]) : rest[b][n] = heads[b][n + 1]
  <2>1. rest[b] = Tail(heads[b]) /\ heads[b] \in Seq(Level) /\ Len(heads[b]) \in Nat
    BY <1>1 DEF WithoutFirst
  <2>2. Tail(heads[b]) \in Seq(Level)
    BY <2>1, HeadTailProperties
  <2>3. /\ Len(Tail(heads[b])) = Len(heads[b]) - 1
        /\ \A n \in 1 .. Len(Tail(heads[b])) : Tail(heads[b])[n] = heads[b][n + 1]
    BY <2>1, HeadTailProperties
  <2>. QED
    BY <2>1, <2>2, <2>3, LenProperties
<1>5. Runs(s, rest)
  <2>1. ASSUME NEW m \in DOMAIN rest[b], NEW n \in DOMAIN rest[b], m < n
        PROVE  Beats(s, rest[b][m].price, rest[b][n].price)
    <3>1. m + 1 \in DOMAIN heads[b] /\ n + 1 \in DOMAIN heads[b] /\ m + 1 < n + 1 /\ Sorted(s, heads[b])
      BY <1>1, <1>4, <2>1
    <3>2. rest[b][m] = heads[b][m + 1] /\ rest[b][n] = heads[b][n + 1]
      BY <1>4
    <3>. QED
      BY <3>1, <3>2 DEF Sorted
  <2>2. Sorted(s, rest[b])
    BY <2>1 DEF Sorted
  <2>3. ASSUME NEW i \in DOMAIN pairs PROVE rest[i] \in Seq(Level) /\ Sorted(s, rest[i])
    <3>1. CASE i = b
      BY <1>4, <2>2, <3>1
    <3>2. CASE i # b
      BY <1>1, <1>3, <3>2
    <3>. QED
      BY <3>1, <3>2
  <2>. QED
    BY <1>1, <2>3 DEF Runs
<1>6. /\ \A l \in Quotes(rest) : \E i \in DOMAIN pairs : \E n \in 1 .. Len(rest[i]) : l = Quote(i, rest[i][n])
      /\ \A i \in DOMAIN pairs : \A n \in 1 .. Len(rest[i]) :
           rest[i][n] \in Level /\ Quote(i, rest[i][n]) \in Quotes(rest)
  BY <1>5, QuotesFacts
<1>7. Len(heads[b]) # 0 /\ 1 \in 1 .. Len(heads[b])
  <2>1. Len(heads[b]) # 0
    BY <1>1, EmptySeq
  <2>. QED
    BY <1>1, <2>1
<1>8. ASSUME NEW m \in Quotes(rest) PROVE m \in Quotes(heads) /\ m # e
  <2>1. PICK j \in DOMAIN pairs : \E n \in 1 .. Len(rest[j]) : m = Quote(j, rest[j][n])
    BY <1>6
  <2>2. PICK n \in 1 .. Len(rest[j]) : m = Quote(j, rest[j][n])
    BY <2>1
  <2>3. CASE j = b
    <3>1. n + 1 \in 1 .. Len(heads[b]) /\ rest[b][n] = heads[b][n + 1] /\ 1 < n + 1
      BY <1>1, <1>4, <2>2, <2>3
    <3>2. heads[b][n + 1] \in Level /\ heads[b][1] \in Level /\ m \in Quotes(heads)
      BY <1>2, <1>7, <2>2, <2>3, <3>1
    <3>3. Beats(s, heads[b][1].price, heads[b][n + 1].price)
      <4>1. 1 \in DOMAIN heads[b] /\ n + 1 \in DOMAIN heads[b] /\ Sorted(s, heads[b])
        BY <1>1, <1>7, <3>1
      <4>. QED
        BY <3>1, <4>1 DEF Sorted
    <3>4. heads[b][1].price # heads[b][n + 1].price
      BY <3>2, <3>3 DEF Beats, Level
    <3>. QED
      BY <2>2, <2>3, <3>1, <3>2, <3>4 DEF Quote
  <2>4. CASE j # b
    <3>1. rest[j] = heads[j]
      BY <1>3, <2>4
    <3>2. m \in Quotes(heads)
      BY <1>2, <2>2, <3>1
    <3>. QED
      BY <2>2, <2>4, <3>2 DEF Quote
  <2>. QED
    BY <2>3, <2>4
<1>9. ASSUME NEW m \in Quotes(heads), m # e PROVE m \in Quotes(rest)
  <2>1. PICK j \in DOMAIN pairs : \E n \in 1 .. Len(heads[j]) : m = Quote(j, heads[j][n])
    BY <1>2
  <2>2. PICK n \in 1 .. Len(heads[j]) : m = Quote(j, heads[j][n])
    BY <2>1
  <2>3. CASE j = b
    <3>1. n # 1
      BY <1>9, <2>2, <2>3
    <3>2. n - 1 \in 1 .. Len(rest[b]) /\ n - 1 + 1 = n
      BY <1>1, <1>4, <2>2, <2>3, <3>1
    <3>3. rest[b][n - 1] = heads[b][n]
      BY <1>4, <3>2
    <3>4. Quote(b, rest[b][n - 1]) \in Quotes(rest)
      BY <1>6, <3>2
    <3>. QED
      BY <2>2, <2>3, <3>3, <3>4
  <2>4. CASE j # b
    BY <1>3, <1>6, <2>2, <2>4
  <2>. QED
    BY <2>3, <2>4
<1>. QED
  BY <1>5, <1>8, <1>9

(* Before the walk, all of a side is left.                                 *)
LEMMA SideBegins ==
  ASSUME NEW s \in BookSides, Runs(s, heads), Written(fields, s) = <<>>,
         Quotes(heads) = Quoted(s), remaining = Depth(s), Depth(s) \in Nat
  PROVE  SideGoesOn(s)
<1>. DEFINE read == Written(fields, s)
            left == Quotes(heads)
            gone == Quoted(s) \ left
<1>1. gone = {} /\ Len(read) = 0 /\ read = <<>> /\ left \subseteq Quoted(s)
  OBVIOUS
<1>2. Cardinality(gone) = Len(read)
  BY <1>1, FS_EmptySet
<1>3. remaining \in Nat /\ Len(read) + remaining = Depth(s)
  BY <1>1
<1>. HIDE DEF gone, read, left
<1>4. /\ \A l \in gone, m \in left : Before(s, l, m)
      /\ \A l \in gone : Rank(s, l) \in 1 .. Len(read) /\ Tells(read[Rank(s, l)], l)
      /\ read # <<>> => \E l \in gone : IsBest(s, l) /\ Tells(read[1], l)
  BY <1>1
<1>. QED
  BY <1>1, <1>2, <1>3, <1>4 DEF SideGoesOn, gone, read, left

(* After it, what is left of the side is behind as many as there are.      *)
LEMMA SideEnds ==
  ASSUME NEW s \in BookSides, SideGoesOn(s), remaining = 0, IsFiniteSet(Quoted(s)),
         Len(Written(fields, s)) \in Nat
  PROVE  SideIsWhole(s)
<1>. DEFINE read == Written(fields, s)
            left == Quotes(heads)
            gone == Quoted(s) \ left
<1>1. /\ Len(read) = Depth(s) /\ Cardinality(gone) = Len(read) /\ Len(read) \in Nat
      /\ \A l \in gone, m \in left : Before(s, l, m)
      /\ \A l \in gone : Rank(s, l) \in 1 .. Len(read) /\ Tells(read[Rank(s, l)], l)
      /\ read # <<>> => \E l \in gone : IsBest(s, l) /\ Tells(read[1], l)
  BY DEF SideGoesOn
<1>2. ASSUME NEW l \in Quoted(s), Rank(s, l) <= Len(read) PROVE Tells(read[Rank(s, l)], l)
  <2>1. CASE l \in gone
    BY <1>1, <2>1
  <2>2. CASE l \notin gone
    <3>1. gone \subseteq Ahead(s, l) /\ Ahead(s, l) \subseteq Quoted(s)
      BY <1>1, <2>2 DEF Ahead
    <3>2. IsFiniteSet(Ahead(s, l))
      BY <3>1, FS_Subset
    <3>3. Cardinality(gone) <= Cardinality(Ahead(s, l)) /\ Cardinality(Ahead(s, l)) \in Nat
      <4>. HIDE DEF gone
      <4>. QED
        BY <3>1, <3>2, FS_Subset, FS_CardinalityType
    <3>. HIDE DEF gone, read
    <3>. QED
      BY <1>1, <1>2, <3>3 DEF Rank
  <2>. QED
    BY <2>1, <2>2
<1>. QED
  BY <1>1, <1>2 DEF SideIsWhole

(* A level is written in its place.                                        *)
LEMMA SideStep ==
  ASSUME NEW s \in BookSides, writing = s, pairs \in Catalogued, fields \in Seq(LevelFields),
         IsFiniteSet(Quoted(s)), SideGoesOn(s), PutLevel
  PROVE  /\ SideGoesOn(s)' /\ fields' \in Seq(LevelFields)
         /\ \A r \in BookSides \ {s} : Written(fields, r)' = Written(fields, r)
<1>. DEFINE read == Written(fields, s)
            Q == Quoted(s)
            left == Quotes(heads)
            gone == Q \ left
            b == BestHead(s)
            e == Quote(b, heads[b][1])
            new == [key |-> s, len |-> LEVEL_BODY, price |-> heads[b][1].price,
                    size |-> heads[b][1].size, venue_idx |-> VenueIdx[pairs[b]]]
<1>1. /\ Runs(s, heads) /\ left \subseteq Q
      /\ remaining \in Nat /\ Len(read) + remaining = Depth(s)
      /\ Cardinality(gone) = Len(read)
      /\ \A l \in gone, m \in left : Before(s, l, m)
      /\ \A l \in gone : Rank(s, l) \in 1 .. Len(read) /\ Tells(read[Rank(s, l)], l)
      /\ read # <<>> => \E l \in gone : IsBest(s, l) /\ Tells(read[1], l)
  BY DEF SideGoesOn
<1>2. /\ remaining > 0 /\ remaining' = remaining - 1 /\ UNCHANGED <<pairs, small>>
      /\ fields' = Append(fields, new) /\ WithoutFirst(b, heads')
  BY DEF PutLevel, NextLevel, WithoutFirst
<1>3. /\ read \in Seq(LevelFields) /\ Len(read) \in Nat
  <2>1. read \in Seq(LevelFields)
    BY WrittenSteps, LenProperties
  <2>. QED
    BY <2>1, LenProperties
<1>4. left # {}
  <2>. SUFFICES ASSUME left = {} PROVE FALSE
    OBVIOUS
  <2>1. gone = Q
    OBVIOUS
  <2>2. Cardinality(Q) \in Nat
    BY FS_CardinalityType
  <2>3. Cardinality(Q) = Len(read)
    BY <1>1, <2>1
  <2>. HIDE DEF read, Q
  <2>4. Depth(s) = Fewest(LEVELS, Cardinality(Q))
    BY DEF Depth, Q
  <2>. QED
    BY <1>1, <1>2, <1>3, <2>2, <2>3, <2>4, LevelsAssumption DEF Fewest
<1>5. /\ b \in DOMAIN pairs /\ heads[b] # <<>> /\ heads[b][1] \in Level /\ e \in left
      /\ \A m \in left : m # e => Before(s, e, m)
  BY <1>1, <1>4, BestHeadFacts
<1>6. new \in LevelFields /\ new.key = s /\ Tells(new, e) /\ e \in QuoteType
  <2>1. VenueIdx[pairs[b]] \in Nat
    BY <1>5, CataloguedFacts
  <2>2. new \in LevelFields /\ new.key = s /\ Tells(new, e)
    BY <1>5, <2>1 DEF LevelFields, Level, Tells, Quote
  <2>3. e \in QuoteType
    BY <1>1, <1>5, QuotesFacts
  <2>. QED
    BY <2>2, <2>3
<1>7. Runs(s, heads') /\ Quotes(heads') = left \ {e}
  BY <1>1, <1>2, <1>5, RestFacts
<1>8. Runs(s, heads)' /\ Quotes(heads)' = left \ {e} /\ Q' = Q /\ Depth(s)' = Depth(s)
  <2>1. Runs(s, heads)'
    BY <1>2, <1>7 DEF Runs
  <2>2. Quotes(heads)' = Quotes(heads')
    BY <1>2 DEF Quotes, Quote
  <2>. QED
    BY <1>2, <1>7, <2>1, <2>2, BookStays
<1>9. \A l : Rank(s, l)' = Rank(s, l) /\ IsBest(s, l)' = IsBest(s, l)
  BY <1>2, BookStays
<1>. HIDE DEF b, new, e
<1>10. /\ fields' \in Seq(LevelFields) /\ Written(fields', s) = Append(read, new)
       /\ \A r \in BookSides \ {s} : Written(fields', r) = Written(fields, r)
  <2>1. fields' \in Seq(LevelFields)
    BY <1>2, <1>6, AppendProperties
  <2>2. \A r : Written(Append(fields, new), r)
                 = IF new.key = r THEN Append(Written(fields, r), new) ELSE Written(fields, r)
    BY <1>6, WrittenGrows
  <2>. QED
    BY <1>2, <1>6, <2>1, <2>2
<1>11. /\ read' = Append(read, new) /\ Len(read') = Len(read) + 1 /\ read' # <<>>
       /\ (\A n \in 1 .. Len(read) : read'[n] = read[n]) /\ read'[Len(read) + 1] = new
  <2>1. read' = Append(read, new)
    BY <1>10 DEF Written
  <2>. HIDE DEF read
  <2>. QED
    BY <1>3, <1>6, <2>1, AppendProperties
<1>12. /\ gone' = gone \cup {e} /\ e \notin gone /\ e \in Q /\ IsFiniteSet(gone)
  <2>1. gone \subseteq Q
    OBVIOUS
  <2>2. IsFiniteSet(gone)
    BY <2>1, FS_Subset
  <2>3. gone' = Q \ (left \ {e})
    BY <1>8
  <2>. HIDE DEF Q
  <2>. QED
    BY <1>1, <1>5, <2>2, <2>3
<1>13. Cardinality(gone)' = Len(read) + 1
  <2>1. Cardinality(gone)' = Cardinality(gone \cup {e})
    BY <1>12
  <2>. HIDE DEF gone
  <2>. QED
    BY <1>1, <1>12, <2>1, FS_AddElement
<1>14. Ahead(s, e) = gone
  <2>1. ASSUME NEW m \in Q PROVE Before(s, m, e) <=> m \in gone
    <3>1. CASE m \in gone
      BY <1>1, <1>5, <3>1
    <3>2. CASE m = e
      BY <1>6, <1>12, <3>2, BeforeFacts
    <3>3. CASE m \in left /\ m # e
      <4>1. m \in QuoteType /\ Before(s, e, m)
        BY <1>1, <1>5, <3>3, QuotesFacts
      <4>. QED
        BY <1>6, <3>3, <4>1, BeforeFacts
    <3>. QED
      BY <3>1, <3>2, <3>3
  <2>. QED
    BY <2>1 DEF Ahead
<1>15. Rank(s, e) = Len(read) + 1
  BY <1>1, <1>14 DEF Rank
<1>16. ASSUME NEW l \in gone'
       PROVE  Rank(s, l) \in 1 .. Len(read') /\ Tells(read'[Rank(s, l)], l)
  <2>. HIDE DEF read, gone
  <2>1. CASE l \in gone
    BY <1>1, <1>3, <1>11, <2>1
  <2>2. CASE l = e
    BY <1>3, <1>6, <1>11, <1>15, <2>2
  <2>. QED
    BY <1>12, <1>16, <2>1, <2>2
<1>17. \E l \in gone' : IsBest(s, l) /\ Tells(read'[1], l)
  <2>1. CASE read # <<>>
    <3>. HIDE DEF read, gone
    <3>1. 1 \in 1 .. Len(read)
      BY <1>3, <2>1, EmptySeq
    <3>. QED
      BY <1>1, <1>11, <1>12, <2>1, <3>1
  <2>2. CASE read = <<>>
    <3>1. Len(read) = 0
      BY <2>2
    <3>2. gone = {}
      <4>. HIDE DEF read, gone
      <4>. QED
        BY <1>1, <1>12, <3>1, FS_EmptySet
    <3>3. Ahead(s, e) = {}
      BY <1>14, <3>2
    <3>4. IsBest(s, e)
      BY <1>12, <3>3 DEF IsBest, Ahead
    <3>. HIDE DEF read, gone
    <3>. QED
      BY <1>6, <1>11, <1>12, <3>1, <3>4
  <2>. QED
    BY <2>1, <2>2
<1>18. \A l \in gone', m \in Quotes(heads)' : Before(s, l, m)
  <2>. HIDE DEF gone
  <2>1. \A m \in Quotes(heads)' : m \in left /\ m # e
    BY <1>8
  <2>. QED
    BY <1>1, <1>5, <1>12, <2>1
<1>19. /\ (left \subseteq Q)' /\ remaining' \in Nat /\ (Len(read) + remaining)' = Depth(s)'
  <2>1. (left \subseteq Q)'
    BY <1>1, <1>8
  <2>. HIDE DEF read
  <2>. QED
    BY <1>1, <1>2, <1>3, <1>8, <1>11, <2>1
<1>20. SideGoesOn(s)'
  BY <1>8, <1>9, <1>11, <1>13, <1>16, <1>17, <1>18, <1>19 DEF SideGoesOn
<1>. QED
  BY <1>10, <1>20

(* A book has the levels of its venues.                                    *)
LEMMA FrameBegins ==
  FrameInit => WalkSound
<1>. SUFFICES ASSUME FrameInit PROVE WalkSound
  OBVIOUS
<1>1. PICK asks1 \in Ladders("asks", "binance_spot"), bids1 \in Ladders("bids", "binance_spot"),
           asks2 \in Ladders("asks", "bitstamp"), bids2 \in Ladders("bids", "bitstamp") :
        small = [binance_spot |-> [asks |-> asks1, bids |-> bids1],
                 bitstamp |-> [asks |-> asks2, bids |-> bids2]]
  BY DEF FrameInit
<1>2. /\ pairs \in Catalogued /\ writing = "asks" /\ heads = OfSide("asks")
      /\ remaining = Bound(heads) /\ fields = <<>>
  BY DEF FrameInit, Catalogued
<1>3. /\ DOMAIN pairs = 1 .. Len(pairs)
      /\ \A i \in DOMAIN pairs : pairs[i] \in {"binance_spot", "bitstamp"}
  BY <1>2, CataloguedFacts
<1>4. ASSUME NEW s \in BookSides, NEW v \in {"binance_spot", "bitstamp"}, NEW q \in Ladders(s, v)
      PROVE  q \in Seq(Level) /\ Sorted(s, q) /\ Len(q) <= LEVELS
  <2>1. PICK depth \in 0 .. LEVELS : q \in [1 .. depth -> {LevelAt(v, p) : p \in Ticks}]
    BY <1>4 DEF Ladders
  <2>2. {LevelAt(v, p) : p \in Ticks} \subseteq Level
    BY LevelsAssumption DEF LevelAt, Level, VenueIdx
  <2>3. depth \in Nat /\ depth <= LEVELS
    BY LevelsAssumption
  <2>4. q \in [1 .. depth -> Level] /\ q \in Seq(Level) /\ Len(q) = depth
    BY <2>1, <2>2, <2>3
  <2>. QED
    BY <1>4, <2>3, <2>4 DEF Ladders
<1>5. ASSUME NEW s \in BookSides, NEW v \in {"binance_spot", "bitstamp"}
      PROVE  small[v][s] \in Ladders(s, v)
  BY <1>1 DEF BookSides
<1>6. ASSUME NEW s \in BookSides
      PROVE  Runs(s, OfSide(s)) /\ \A i \in DOMAIN pairs : Len(OfSide(s)[i]) <= LEVELS
  <2>1. DOMAIN OfSide(s) = DOMAIN pairs
    BY DEF OfSide
  <2>2. ASSUME NEW i \in DOMAIN pairs
        PROVE  OfSide(s)[i] \in Seq(Level) /\ Sorted(s, OfSide(s)[i]) /\ Len(OfSide(s)[i]) <= LEVELS
    <3>1. OfSide(s)[i] = small[pairs[i]][s]
      BY DEF OfSide
    <3>. QED
      BY <1>3, <1>4, <1>5, <3>1
  <2>. QED
    BY <2>1, <2>2 DEF Runs
<1>7. fields \in Seq(LevelFields) /\ \A s : Written(fields, s) = <<>>
  BY <1>2, WrittenNone
<1>8. SideGoesOn("asks")
  <2>1. "asks" \in BookSides
    BY DEF BookSides
  <2>2. Bound(OfSide("asks")) = Depth("asks") /\ Depth("asks") \in Nat
    BY <1>2, <1>6, <2>1, QuotedCount
  <2>. QED
    BY <1>2, <1>6, <1>7, <2>1, <2>2, SideBegins DEF Quoted
<1>. QED
  BY <1>2, <1>6, <1>7, <1>8 DEF WalkSound, BookSides

(* What is known while a side is written.                                  *)
FrameOpen ==
  /\ pairs \in Catalogued /\ fields \in Seq(LevelFields)
  /\ \A s \in BookSides : Runs(s, OfSide(s)) /\ \A i \in DOMAIN pairs : Len(OfSide(s)[i]) <= LEVELS

LEMMA PutLevelStep ==
  ASSUME WalkSound, PutLevel
  PROVE  WalkSound'
<1>1. /\ writing \in BookSides /\ writing' = writing /\ UNCHANGED <<pairs, small>>
  BY DEF PutLevel
<1>2. /\ FrameOpen
      /\ writing = "asks" => SideGoesOn("asks") /\ Written(fields, "bids") = <<>>
      /\ writing = "bids" => SideIsWhole("asks") /\ SideGoesOn("bids")
  BY <1>1 DEF WalkSound, FrameOpen, BookSides
<1>3. \A s : OfSide(s)' = OfSide(s) /\ Quoted(s)' = Quoted(s) /\ Depth(s)' = Depth(s)
  BY <1>1, BookStays
<1>4. \A s, l : Rank(s, l)' = Rank(s, l) /\ IsBest(s, l)' = IsBest(s, l)
  BY <1>1, BookStays
<1>5. \A s \in BookSides : IsFiniteSet(Quoted(s))
  BY <1>2, QuotedCount DEF FrameOpen
<1>6. ASSUME NEW s \in BookSides, writing = s
      PROVE  /\ SideGoesOn(s)' /\ fields' \in Seq(LevelFields)
             /\ \A r \in BookSides \ {s} : Written(fields, r)' = Written(fields, r)
  <2>1. SideGoesOn(s)
    BY <1>2, <1>6 DEF BookSides
  <2>. QED
    BY <1>2, <1>5, <1>6, <2>1, SideStep DEF FrameOpen
<1>7. fields' \in Seq(LevelFields)
  BY <1>1, <1>6
<1>8. FrameOpen'
  <2>1. \A s \in BookSides : Runs(s, OfSide(s))'
    BY <1>1, <1>2, <1>3 DEF FrameOpen, Runs
  <2>2. \A s \in BookSides : \A i \in DOMAIN pairs : Len(OfSide(s)[i])' <= LEVELS
    BY <1>2, <1>3 DEF FrameOpen
  <2>. QED
    BY <1>1, <1>2, <1>7, <2>1, <2>2 DEF FrameOpen
<1>9. CASE writing = "asks"
  <2>1. SideGoesOn("asks")' /\ Written(fields, "bids")' = <<>>
    BY <1>2, <1>6, <1>9 DEF BookSides
  <2>. QED
    BY <1>1, <1>8, <1>9, <2>1 DEF WalkSound, FrameOpen
<1>10. CASE writing = "bids"
  <2>1. SideGoesOn("bids")' /\ Written(fields, "asks")' = Written(fields, "asks")
    BY <1>6, <1>10 DEF BookSides
  <2>2. SideIsWhole("asks")'
    BY <1>2, <1>3, <1>4, <1>10, <2>1 DEF SideIsWhole
  <2>. QED
    BY <1>1, <1>8, <1>10, <2>1, <2>2 DEF WalkSound, FrameOpen
<1>. QED
  BY <1>1, <1>9, <1>10 DEF BookSides

LEMMA AsksDoneStep ==
  ASSUME WalkSound, AsksDone
  PROVE  WalkSound'
<1>1. /\ writing = "asks" /\ remaining = 0 /\ writing' = "bids" /\ heads' = OfSide("bids")
      /\ remaining' = Bound(OfSide("bids")) /\ UNCHANGED <<pairs, small, fields>>
  BY DEF AsksDone, StartSide
<1>2. FrameOpen /\ SideGoesOn("asks") /\ Written(fields, "bids") = <<>>
  BY <1>1 DEF WalkSound, FrameOpen
<1>3. \A s : OfSide(s)' = OfSide(s) /\ Quoted(s)' = Quoted(s) /\ Depth(s)' = Depth(s)
  BY <1>1, BookStays
<1>4. \A s, l : Rank(s, l)' = Rank(s, l) /\ IsBest(s, l)' = IsBest(s, l)
  BY <1>1, BookStays
<1>5. \A s \in BookSides : IsFiniteSet(Quoted(s)) /\ Bound(OfSide(s)) = Depth(s) /\ Depth(s) \in Nat
  BY <1>2, QuotedCount DEF FrameOpen
<1>6. \A s : Written(fields, s)' = Written(fields, s)
  BY <1>1
<1>7. FrameOpen'
  <2>1. \A s \in BookSides : Runs(s, OfSide(s))'
    BY <1>1, <1>2, <1>3 DEF FrameOpen, Runs
  <2>2. \A s \in BookSides : \A i \in DOMAIN pairs : Len(OfSide(s)[i])' <= LEVELS
    BY <1>2, <1>3 DEF FrameOpen
  <2>. QED
    BY <1>1, <1>2, <2>1, <2>2 DEF FrameOpen
<1>8. SideIsWhole("asks")'
  <2>1. "asks" \in BookSides /\ Len(Written(fields, "asks")) \in Nat
    BY <1>2, WrittenSteps, LenProperties DEF FrameOpen, BookSides
  <2>2. SideIsWhole("asks")
    BY <1>1, <1>2, <1>5, <2>1, SideEnds
  <2>. QED
    BY <1>3, <1>4, <1>6, <2>2 DEF SideIsWhole
<1>9. SideGoesOn("bids")'
  <2>. DEFINE read == Written(fields, "bids")
              left == Quotes(heads)
              gone == Quoted("bids") \ left
  <2>1. Runs("bids", heads)'
    <3>1. Runs("bids", OfSide("bids"))'
      BY <1>7 DEF FrameOpen, BookSides
    <3>2. heads' = OfSide("bids")'
      BY <1>1, <1>3
    <3>. QED
      BY <3>1, <3>2 DEF Runs
  <2>2. left' = Quoted("bids")'
    BY <1>1, <1>3 DEF Quoted, Quotes, Quote
  <2>3. gone' = {} /\ read' = <<>> /\ Len(read') = 0 /\ (left \subseteq Quoted("bids"))'
    BY <1>2, <1>6, <2>2
  <2>4. Cardinality(gone)' = Len(read)'
    BY <2>3, FS_EmptySet
  <2>5. remaining' \in Nat /\ (Len(read) + remaining)' = Depth("bids")'
    BY <1>1, <1>3, <1>5, <2>3 DEF BookSides
  <2>. HIDE DEF gone, read, left
  <2>6. /\ \A l \in gone', m \in left' : Before("bids", l, m)
        /\ \A l \in gone' : Rank("bids", l)' \in 1 .. Len(read)' /\ Tells(read'[Rank("bids", l)'], l)
        /\ read' # <<>> => \E l \in gone' : IsBest("bids", l)' /\ Tells(read'[1], l)
    BY <2>3
  <2>. QED
    BY <2>1, <2>3, <2>4, <2>5, <2>6 DEF SideGoesOn, gone, read, left
<1>. QED
  BY <1>1, <1>7, <1>8, <1>9 DEF WalkSound, FrameOpen, BookSides

(* What the frame is to tell of a side, of the two best, and of a book     *)
(* without levels.                                                         *)
Best(s) == CHOOSE l \in Quoted(s) : \A m \in Quoted(s) : ~Before(s, m, l)

SideTold(s) ==
  LET read == Written(fields, s)
  IN  /\ Len(read) = Fewest(LEVELS, Cardinality(Quoted(s)))
      /\ \A l \in Quoted(s) : Rank(s, l) <= Len(read) =>
           /\ read[Rank(s, l)].price = l.price /\ read[Rank(s, l)].size = l.size
           /\ read[Rank(s, l)].venue_idx = l.venue_idx

SpreadTold ==
  LET tail == fields[Len(fields)]
  IN  IF Quoted("asks") = {} \/ Quoted("bids") = {} THEN tail.key = "spread" /\ tail.nan
      ELSE IF Best("asks").price = Best("bids").price THEN tail.key # "spread"
      ELSE tail.key = "spread" /\ ~tail.nan /\ tail.wide = Best("asks").price - Best("bids").price

NoneTold ==
  (Written(fields, "asks") \o Written(fields, "bids") = <<>>)
    <=> \A i \in DOMAIN pairs : \A s \in BookSides : small[pairs[i]][s] = <<>>

(* The first level of a side that is written is its best, and there is one *)
(* when a venue quotes any.                                                *)
LEMMA FirstIsBest ==
  ASSUME pairs \in Catalogued, NEW s \in BookSides, Runs(s, OfSide(s)), SideIsWhole(s),
         IsFiniteSet(Quoted(s)), fields \in Seq(LevelFields)
  PROVE  /\ Written(fields, s) = <<>> <=> Quoted(s) = {}
         /\ Quoted(s) = {} <=> \A i \in DOMAIN pairs : small[pairs[i]][s] = <<>>
         /\ Quoted(s) # {} => Written(fields, s)[1].price = Best(s).price /\ Best(s).price \in Nat
<1>. DEFINE read == Written(fields, s)
            Q == Quoted(s)
<1>1. /\ Len(read) = Depth(s) /\ read \in Seq(LevelFields) /\ Len(read) \in Nat
      /\ read # <<>> => \E l \in Q : IsBest(s, l) /\ Tells(read[1], l)
  BY WrittenSteps, LenProperties DEF SideIsWhole
<1>2. Cardinality(Q) \in Nat /\ (Cardinality(Q) = 0 <=> Q = {})
  BY FS_CardinalityType, FS_EmptySet
<1>3. read = <<>> <=> Q = {}
  <2>1. read = <<>> <=> Len(read) = 0
    BY <1>1, EmptySeq
  <2>2. Depth(s) = Fewest(LEVELS, Cardinality(Q))
    BY DEF Depth
  <2>. HIDE DEF read, Q
  <2>. QED
    BY <1>1, <1>2, <2>1, <2>2, LevelsAssumption DEF Fewest
<1>4. /\ \A l \in Q : /\ l \in QuoteType
                      /\ \E i \in DOMAIN pairs :
                           \E n \in 1 .. Len(OfSide(s)[i]) : l = Quote(i, OfSide(s)[i][n])
      /\ \A i \in DOMAIN pairs : \A n \in 1 .. Len(OfSide(s)[i]) : Quote(i, OfSide(s)[i][n]) \in Q
      /\ \A l, m \in Q : l.at = m.at /\ l.price = m.price => l = m
  BY QuotesFacts DEF Quoted
<1>5. Q = {} <=> \A i \in DOMAIN pairs : small[pairs[i]][s] = <<>>
  <2>1. ASSUME NEW i \in DOMAIN pairs
        PROVE  /\ OfSide(s)[i] = small[pairs[i]][s] /\ Len(OfSide(s)[i]) \in Nat
               /\ OfSide(s)[i] = <<>> <=> Len(OfSide(s)[i]) = 0
    <3>1. OfSide(s)[i] \in Seq(Level)
      BY DEF Runs
    <3>. QED
      BY <3>1, LenProperties, EmptySeq DEF OfSide
  <2>2. ASSUME Q = {}, NEW i \in DOMAIN pairs PROVE small[pairs[i]][s] = <<>>
    <3>1. ~(1 \in 1 .. Len(OfSide(s)[i]))
      BY <1>4, <2>2
    <3>. QED
      BY <2>1, <3>1
  <2>3. ASSUME \A i \in DOMAIN pairs : small[pairs[i]][s] = <<>>, NEW l \in Q PROVE FALSE
    <3>1. PICK i \in DOMAIN pairs : \E n \in 1 .. Len(OfSide(s)[i]) : l = Quote(i, OfSide(s)[i][n])
      BY <1>4
    <3>2. Len(OfSide(s)[i]) = 0
      BY <2>1, <2>3
    <3>. QED
      BY <3>1, <3>2
  <2>. HIDE DEF Q
  <2>. QED
    BY <2>2, <2>3
<1>6. ASSUME Q # {} PROVE read[1].price = Best(s).price /\ Best(s).price \in Nat
  <2>1. PICK l \in Q : IsBest(s, l) /\ Tells(read[1], l)
    BY <1>1, <1>3, <1>6
  <2>2. Best(s) \in Q /\ \A m \in Q : ~Before(s, m, Best(s))
    BY <2>1 DEF IsBest, Best
  <2>3. ~Before(s, l, Best(s)) /\ ~Before(s, Best(s), l) /\ l \in QuoteType /\ Best(s) \in QuoteType
    BY <1>4, <2>1, <2>2 DEF IsBest
  <2>4. l.price = Best(s).price
    BY <2>3, BeforeFacts
  <2>. QED
    BY <2>1, <2>3, <2>4 DEF Tells, QuoteType
<1>. QED
  BY <1>3, <1>5, <1>6

(* The spread is behind the levels, when there is any to speak of.         *)
LEMMA FinishStep ==
  ASSUME WalkSound, Finish
  PROVE  WalkSound'
<1>1. /\ writing = "bids" /\ remaining = 0 /\ writing' = "done" /\ fields' = fields \o Spread
      /\ announced' = Bytes(fields') /\ UNCHANGED <<pairs, small>>
  BY DEF Finish
<1>2. FrameOpen /\ SideIsWhole("asks") /\ SideGoesOn("bids")
  BY <1>1 DEF WalkSound, FrameOpen
<1>3. \A s : OfSide(s)' = OfSide(s) /\ Quoted(s)' = Quoted(s)
  BY <1>1, BookStays
<1>4. \A s, l : Rank(s, l)' = Rank(s, l)
  BY <1>1, BookStays
<1>5. \A s \in BookSides : IsFiniteSet(Quoted(s)) /\ Runs(s, OfSide(s)) /\ Len(Written(fields, s)) \in Nat
  BY <1>2, QuotedCount, WrittenSteps, LenProperties DEF FrameOpen
<1>6. \A s \in BookSides : SideIsWhole(s)
  <2>1. SideIsWhole("bids")
    BY <1>1, <1>2, <1>5, SideEnds DEF BookSides
  <2>. QED
    BY <1>2, <2>1 DEF BookSides
<1>. DEFINE wide == Written(fields, "asks")[1].price - Written(fields, "bids")[1].price
            nan == [key |-> "spread", nan |-> TRUE]
            said == [key |-> "spread", nan |-> FALSE, wide |-> wide]
            empty == Written(fields, "asks") = <<>> \/ Written(fields, "bids") = <<>>
            none == ~empty /\ wide = 0
            last == IF empty THEN nan ELSE said
<1>7. /\ none => fields' = fields
      /\ ~none => fields' = Append(fields, last)
  <2>1. fields \in Seq(LevelFields)
    BY <1>2 DEF FrameOpen
  <2>2. Spread = IF none THEN <<>> ELSE <<last>>
    BY DEF Spread
  <2>. HIDE DEF none, last
  <2>3. fields \o <<>> = fields /\ fields \o <<last>> = Append(fields, last)
    BY <2>1
  <2>. QED
    BY <1>1, <2>2, <2>3
<1>8. last.key = "spread"
  OBVIOUS
<1>9. \A s \in BookSides : Written(fields', s) = Written(fields, s)
  <2>1. CASE none
    BY <1>7, <2>1
  <2>2. CASE ~none
    <3>. DEFINE F == LevelFields \cup {last}
    <3>1. fields \in Seq(F) /\ last \in F
      BY <1>2 DEF FrameOpen
    <3>. HIDE DEF F, last
    <3>2. \A s : Written(Append(fields, last), s)
                   = IF last.key = s THEN Append(Written(fields, s), last) ELSE Written(fields, s)
      BY <3>1, WrittenGrows
    <3>. QED
      BY <1>7, <1>8, <2>2, <3>2 DEF BookSides
  <2>. QED
    BY <2>1, <2>2
<1>10. ASSUME NEW s \in BookSides
       PROVE  /\ Written(fields, s) = <<>> <=> Quoted(s) = {}
              /\ Quoted(s) = {} <=> \A i \in DOMAIN pairs : small[pairs[i]][s] = <<>>
              /\ Quoted(s) # {} => Written(fields, s)[1].price = Best(s).price /\ Best(s).price \in Nat
  BY <1>2, <1>5, <1>6, FirstIsBest DEF FrameOpen
<1>11. \A s \in BookSides : SideTold(s)'
  <2>1. ASSUME NEW s \in BookSides PROVE SideTold(s)
    BY <1>6 DEF SideTold, SideIsWhole, Depth, Tells
  <2>2. ASSUME NEW s \in BookSides PROVE SideTold(s)'
    <3>1. Written(fields, s)' = Written(fields, s)
      BY <1>9
    <3>. QED
      BY <1>3, <1>4, <2>1, <3>1 DEF SideTold
  <2>. QED
    BY <2>2
<1>12. SpreadTold'
  <2>1. Best("asks")' = Best("asks") /\ Best("bids")' = Best("bids")
    BY <1>3 DEF Best
  <2>2. /\ empty <=> Quoted("asks") = {} \/ Quoted("bids") = {}
        /\ ~empty => /\ wide = Best("asks").price - Best("bids").price
                     /\ Best("asks").price \in Nat /\ Best("bids").price \in Nat
    BY <1>10 DEF BookSides
  <2>3. CASE none
    <3>1. fields # <<>> /\ fields \in Seq(LevelFields)
      BY <1>2, <2>3, WrittenNone DEF FrameOpen
    <3>2. fields[Len(fields)] \in LevelFields
      BY <3>1, LenProperties, ElementOfSeq, EmptySeq
    <3>3. fields[Len(fields)].key # "spread"
      BY <3>2 DEF LevelFields, BookSides
    <3>4. ~empty /\ wide = 0
      BY <2>3
    <3>. HIDE DEF wide, empty
    <3>5. Best("asks").price = Best("bids").price
      BY <2>2, <3>4
    <3>. QED
      BY <1>3, <1>7, <2>1, <2>2, <2>3, <3>3, <3>4, <3>5 DEF SpreadTold
  <2>4. CASE ~none
    <3>1. fields'[Len(fields')] = last
      <4>. DEFINE F == LevelFields \cup {last}
      <4>1. fields \in Seq(F) /\ last \in F
        BY <1>2 DEF FrameOpen
      <4>. HIDE DEF F, last
      <4>2. Len(Append(fields, last)) = Len(fields) + 1 /\ Append(fields, last)[Len(fields) + 1] = last
        BY <4>1, AppendProperties
      <4>. QED
        BY <1>7, <2>4, <4>2
    <3>2. CASE empty
      <4>1. last = nan
        BY <3>2
      <4>2. last.key = "spread" /\ last.nan
        BY <4>1
      <4>. HIDE DEF last, empty
      <4>. QED
        BY <1>3, <2>1, <2>2, <3>1, <3>2, <4>2 DEF SpreadTold
    <3>3. CASE ~empty
      <4>1. last = said /\ wide # 0
        BY <2>4, <3>3
      <4>. HIDE DEF wide
      <4>2. last.key = "spread" /\ ~last.nan /\ last.wide = wide
        BY <4>1
      <4>. HIDE DEF last, empty
      <4>3. Best("asks").price # Best("bids").price
        BY <2>2, <3>3, <4>1
      <4>. QED
        BY <1>3, <2>1, <2>2, <3>1, <3>3, <4>2, <4>3 DEF SpreadTold
    <3>. QED
      BY <3>2, <3>3
  <2>. QED
    BY <2>3, <2>4
<1>13. NoneTold'
  <2>. DEFINE asks == Written(fields, "asks")
              bids == Written(fields, "bids")
  <2>1. asks' = asks /\ bids' = bids
    BY <1>9 DEF BookSides
  <2>2. asks \in Seq(LevelFields) /\ bids \in Seq(LevelFields)
    BY <1>2, WrittenSteps, LenProperties DEF FrameOpen
  <2>3. (asks = <<>> /\ bids = <<>>)
          <=> \A i \in DOMAIN pairs : \A s \in BookSides : small[pairs[i]][s] = <<>>
    BY <1>10 DEF BookSides
  <2>. HIDE DEF asks, bids
  <2>4. (asks \o bids = <<>>) <=> (asks = <<>> /\ bids = <<>>)
    BY <2>2, ConcatProperties, EmptySeq, LenProperties
  <2>. QED
    BY <1>1, <2>1, <2>3, <2>4 DEF NoneTold, asks, bids
<1>14. FrameIsMergedBook'
  BY <1>1, <1>11, <1>12, <1>13 DEF FrameIsMergedBook, SideTold, SpreadTold, NoneTold, Best, Rank, Ahead
<1>. QED
  BY <1>1, <1>14 DEF WalkSound

(* Every step of the walk keeps the frame sound.                           *)
LEMMA FrameKeeps ==
  ASSUME WalkSound, [FrameNext]_frameVars
  PROVE  WalkSound'
<1>1. CASE PutLevel
  BY <1>1, PutLevelStep
<1>2. CASE AsksDone
  BY <1>2, AsksDoneStep
<1>3. CASE Finish
  BY <1>3, FinishStep
<1>4. CASE UNCHANGED frameVars
  <2>1. UNCHANGED <<pairs, small, heads, remaining, writing, fields, announced>>
    BY <1>4 DEF frameVars
  <2>2. \A s : OfSide(s)' = OfSide(s) /\ Quoted(s)' = Quoted(s) /\ Depth(s)' = Depth(s)
    BY <2>1, BookStays
  <2>3. \A s, l : Rank(s, l)' = Rank(s, l) /\ IsBest(s, l)' = IsBest(s, l)
    BY <2>1, BookStays
  <2>4. Quotes(heads)' = Quotes(heads)
    BY <2>1 DEF Quotes, Quote
  <2>5. \A s : SideGoesOn(s)' = SideGoesOn(s)
    BY <2>1, <2>2, <2>3, <2>4 DEF SideGoesOn, Runs
  <2>6. \A s : SideIsWhole(s)' = SideIsWhole(s)
    BY <2>1, <2>2, <2>3 DEF SideIsWhole
  <2>7. \A s : Runs(s, OfSide(s))' = Runs(s, OfSide(s))
    BY <2>1, <2>2 DEF Runs
  <2>8. FrameIsMergedBook' = FrameIsMergedBook
    BY <2>1, <2>2 DEF FrameIsMergedBook
  <2>. QED
    BY <2>1, <2>2, <2>5, <2>6, <2>7, <2>8 DEF WalkSound
<1>. QED
  BY <1>1, <1>2, <1>3, <1>4 DEF FrameNext

(* What a client reads off the wire is the best levels of all venues, each *)
(* with its own, best first, and the spread and the length that go with    *)
(* them; none at all exactly when every venue resyncs (MergedSide,         *)
(* encode_book_into).                                                      *)
THEOREM FramesAreMergedBooks == Spec => []FrameIsMergedBook
<1>1. Init => WalkSound
  BY InitOfParts, FrameBegins DEF ParkedFrame, WalkSound
<1>2. WalkSound /\ [Next]_structureVars => WalkSound'
  <2>. SUFFICES ASSUME WalkSound, [Next]_structureVars PROVE WalkSound'
    OBVIOUS
  <2>1. [FrameNext]_frameVars
    BY StepsOfParts DEF structureVars
  <2>. QED
    BY <2>1, FrameKeeps
<1>3. WalkSound => FrameIsMergedBook
  BY DEF WalkSound, FrameIsMergedBook, BookSides
<1>. QED
  BY <1>1, <1>2, <1>3, PTL DEF Spec
=============================================================================
