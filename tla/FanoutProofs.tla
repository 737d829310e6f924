---------------------------- MODULE FanoutProofs ----------------------------
(***************************************************************************)
(* Proofs about Fanout, for any venues, clients and sizes: no frame a      *)
(* client has yet to read is overwritten, what it reads rises, and the     *)
(* current frame has the newest book of every venue that is at rest.       *)
(***************************************************************************)
EXTENDS Fanout, FiniteSetTheorems, SequenceTheorems, WellFoundedInduction, TLAPS

(* A frame of a book of each venue; -1 is before the first.                *)
Frame == [epoch : Int, books : [Venues -> Nat]]

(* A client's session, and the frames queued in its sink.                  *)
Session == [epoch : Nat, ended : BOOLEAN, finishing : BOOLEAN, queue : Seq(Buffers)]

(* The two a poll works on: Of(c).                                         *)
Client == [s : Session, got : Frame]

(* What a client's poll meets.                                             *)
Poll == [seen : BOOLEAN, takes : 0 .. Credit]

(* The broadcaster has a current frame.                                    *)
Serving == bpc \in {"run", "asking", "close", "closing"}

(* The types of the book channels ...                                      *)
ChannelTyped ==
  /\ started \in [Venues -> Nat] /\ published \in [Venues -> Nat] /\ parting \in [Venues -> Nat]
  /\ vpc \in [Venues -> {"idle", "update", "notify", "depart", "gone"}]
  /\ pending \in [Venues -> BOOLEAN] /\ updates \subseteq Venues

(* ... of the broadcaster and its buffers ...                              *)
CtxTyped ==
  /\ bpc \in {"start", "run", "asking", "close", "closing", "drain", "done"}
  /\ epoch \in Nat /\ payload \in Buffers \cup {0} /\ pool \subseteq Buffers /\ cooling \in Seq(Buffers)
  /\ content \in [Buffers -> Frame]

(* ... and of the clients and the registry.                                *)
ClientsTyped ==
  /\ sessions \subseteq Clients /\ session \in [Clients -> Session] /\ got \in [Clients -> Frame]
  /\ joins \in Seq(Clients) /\ asked \subseteq Clients /\ hungup \subseteq Clients /\ filed \in BOOLEAN

(* The type invariant.                                                     *)
Typed == ChannelTyped /\ CtxTyped /\ ClientsTyped

(* A publisher between publishes has finished what it began, its drop is   *)
(* the last of them, and the broadcaster stops polling it only when it has *)
(* gone and nothing of it is unreported.                                   *)
PublishersAreSound ==
  \A v \in Venues :
    /\ vpc[v] # "update" => started[v] = published[v]
    /\ vpc[v] = "idle" => parting[v] = 0
    /\ vpc[v] \in {"depart", "gone"} => parting[v] # 0
    /\ parting[v] # 0 => parting[v] = started[v]
    /\ v \notin updates => vpc[v] = "gone" /\ ~pending[v]

(* The current frame is the one numbered by the epoch; without one there   *)
(* are no buffers and no sessions.                                         *)
ServingIsSound ==
  IF Serving THEN payload \in Buffers /\ content[payload].epoch = epoch
  ELSE payload = 0 /\ pool = {} /\ cooling = <<>> /\ sessions = {} /\ epoch = 0

(* FrameIsNewest, and for a publisher between its last notify and the drop *)
(* of its notifier too: what the drop of a notifier needs to keep it.      *)
FrameIsFresh ==
  Serving =>
    \A v \in Venues :
      vpc[v] \in {"idle", "depart", "gone"} /\ ~pending[v] => content[payload].books[v] = published[v]

(* No buffer is in two places, none in the pool is held by a client, and   *)
(* neither list outgrows its capacity.                                     *)
BuffersApart ==
  /\ payload \notin pool /\ payload \notin InCooling /\ pool \cap InCooling = {}
  /\ \A i, j \in DOMAIN cooling : cooling[i] = cooling[j] => i = j
  /\ \A b \in pool : ~Pinned(b)
  /\ Cardinality(pool) <= POOL /\ Len(cooling) <= COOLING

(* What x has been sent and is yet to write, in buffers with the frames    *)
(* `store`, when frame n in buffer p is current: the frames rise, the last *)
(* is the one before the session's epoch, and of a session that needs no   *)
(* book it is the current one.                                             *)
Intact(x, store, n, p) ==
  LET q == x.s.queue
  IN  /\ Len(q) <= Credit
      /\ \A i \in DOMAIN q : x.got.epoch < store[q[i]].epoch
      /\ \A i, j \in DOMAIN q : i < j => store[q[i]].epoch < store[q[j]].epoch
      /\ q # <<>> => store[q[Len(q)]].epoch = x.s.epoch - 1
      /\ q = <<>> => x.got.epoch <= x.s.epoch - 1
      /\ x.s.epoch <= n + 1
      /\ x.s.epoch > n => IF q = <<>> THEN x.got = store[p] ELSE store[q[Len(q)]] = store[p]

(* So it is of every client that is attached ...                           *)
SessionsAreIntact == \A c \in sessions : Intact(Of(c), content, epoch, payload)

(* ... and of the others nothing is kept.                                  *)
AbsentAreDetached == \A c \in Clients \ sessions : session[c] = Detached /\ got[c] = NoFrame

-----------------------------------------------------------------------------
(* Sequences, and the sizes *)

(* The sizes are positive and the buffers numbered from 1.                 *)
LEMMA Sizes ==
  /\ POOL \in Nat \ {0} /\ COOLING \in Nat \ {0} /\ Credit \in Nat \ {0} /\ MaxPublished \in Nat \ {0}
  /\ Cardinality(Clients) \in Nat /\ Buffers \subseteq Nat \ {0} /\ 0 \notin Buffers
<1>1. Cardinality(Clients) \in Nat
  BY FS_CardinalityType, FanoutAssumption
<1>. QED
  BY <1>1, FanoutAssumption DEF Buffers

(* The absent frame and the detached session are of their types.           *)
LEMMA NoneIsTyped ==
  NoFrame \in Frame /\ Detached \in Session
BY DEF NoFrame, Detached, Frame, Session

(* Append puts one after the others ...                                    *)
LEMMA AppendFacts ==
  ASSUME NEW S, NEW s \in Seq(S), NEW e \in S
  PROVE  /\ Append(s, e) \in Seq(S) /\ Len(Append(s, e)) = Len(s) + 1 /\ Len(s) \in Nat
         /\ \A i \in DOMAIN Append(s, e) : /\ i \in 1 .. Len(s) + 1
                                           /\ \/ i \in DOMAIN s /\ Append(s, e)[i] = s[i]
                                              \/ i = Len(s) + 1 /\ Append(s, e)[i] = e
         /\ \A i \in DOMAIN s : i \in DOMAIN Append(s, e) /\ Append(s, e)[i] = s[i] /\ i < Len(s) + 1
         /\ Len(s) + 1 \in DOMAIN Append(s, e) /\ Append(s, e)[Len(s) + 1] = e
<1>1. Append(s, e) \in Seq(S) /\ Len(Append(s, e)) = Len(s) + 1 /\ Append(s, e)[Len(s) + 1] = e
  OBVIOUS
<1>2. \A i \in 1 .. Len(s) : Append(s, e)[i] = s[i]
  OBVIOUS
<1>3. DOMAIN s = 1 .. Len(s) /\ DOMAIN Append(s, e) = 1 .. Len(s) + 1 /\ Len(s) \in Nat
  BY <1>1
<1>. QED
  BY <1>1, <1>2, <1>3

(* ... and the first n go, which moves the others up.                      *)
LEMMA DropFacts ==
  ASSUME NEW S, NEW s \in Seq(S), NEW n \in 0 .. Len(s)
  PROVE  LET t == SubSeq(s, n + 1, Len(s))
         IN  /\ t \in Seq(S) /\ Len(t) = Len(s) - n
             /\ \A i \in DOMAIN t : i \in Nat /\ i + n \in DOMAIN s /\ t[i] = s[i + n]
             /\ n < Len(s) => t[Len(t)] = s[Len(s)]
<1>. DEFINE t == SubSeq(s, n + 1, Len(s))
<1>1. Len(s) \in Nat /\ n \in Nat /\ n <= Len(s) /\ DOMAIN s = 1 .. Len(s) /\ \A i \in n + 1 .. Len(s) : s[i] \in S
  OBVIOUS
<1>2. /\ t \in Seq(S) /\ Len(t) = IF n + 1 <= Len(s) THEN Len(s) - (n + 1) + 1 ELSE 0
      /\ \A i \in 1 .. Len(s) - (n + 1) + 1 : t[i] = s[(n + 1) + i - 1]
  BY <1>1, SubSeqProperties
<1>. HIDE DEF t
<1>3. Len(t) = Len(s) - n /\ DOMAIN t = 1 .. Len(s) - n
  <2>1. Len(t) = Len(s) - n
    <3>1. \A a, m \in Nat : m <= a => (IF m + 1 <= a THEN a - (m + 1) + 1 ELSE 0) = a - m
      OBVIOUS
    <3>. QED
      BY <1>1, <1>2, <3>1
  <2>2. DOMAIN t = 1 .. Len(t)
    BY <1>2
  <2>. QED
    BY <2>1, <2>2
<1>4. \A i \in DOMAIN t : i \in Nat /\ i + n \in DOMAIN s /\ t[i] = s[i + n]
  <2>. SUFFICES ASSUME NEW i \in DOMAIN t
                PROVE  i \in Nat /\ i + n \in DOMAIN s /\ t[i] = s[i + n]
    OBVIOUS
  <2>1. i \in 1 .. Len(s) - (n + 1) + 1 /\ (n + 1) + i - 1 = i + n /\ i + n \in 1 .. Len(s) /\ i \in Nat
    BY <1>1, <1>3
  <2>. QED
    BY <1>1, <1>2, <2>1
<1>5. n < Len(s) => t[Len(t)] = s[Len(s)]
  <2>1. n < Len(s) => Len(t) \in DOMAIN t /\ Len(t) + n = Len(s)
    BY <1>1, <1>3
  <2>. QED
    BY <1>4, <2>1
<1>. QED
  BY <1>2, <1>3, <1>4, <1>5 DEF t

(* swap_remove of a list without repeats: one shorter, without repeats,    *)
(* without the one removed.                                                *)
LEMMA SwapRemoveFacts ==
  ASSUME NEW S, NEW s \in Seq(S), NEW k \in DOMAIN s, \A i, j \in DOMAIN s : s[i] = s[j] => i = j
  PROVE  LET t == SwapRemove(s, k)
         IN  /\ t \in Seq(S) /\ Len(t) + 1 = Len(s)
             /\ \A i \in DOMAIN t : t[i] # s[k] /\ \E j \in DOMAIN s : t[i] = s[j]
             /\ \A i, j \in DOMAIN t : t[i] = t[j] => i = j
<1>. DEFINE u == [s EXCEPT ![k] = s[Len(s)]]
            t == SwapRemove(s, k)
<1>1. Len(s) \in Nat \ {0} /\ DOMAIN s = 1 .. Len(s) /\ k \in 1 .. Len(s) /\ s[Len(s)] \in S
  OBVIOUS
<1>2. u \in Seq(S) /\ Len(u) = Len(s) /\ \A i \in 1 .. Len(s) : u[i] = IF i = k THEN s[Len(s)] ELSE s[i]
  BY <1>1, ExceptSeq
<1>3. t = SubSeq(u, 1, Len(s) - 1)
  BY DEF SwapRemove
<1>. HIDE DEF u, t
<1>4. \A i \in 1 .. Len(s) - 1 : u[i] \in S
  BY <1>1, <1>2
<1>5. /\ t \in Seq(S) /\ Len(t) = IF 1 <= Len(s) - 1 THEN Len(s) - 1 - 1 + 1 ELSE 0
      /\ \A i \in 1 .. Len(s) - 1 - 1 + 1 : t[i] = u[1 + i - 1]
  BY <1>1, <1>3, <1>4, SubSeqProperties
<1>6. Len(t) + 1 = Len(s) /\ DOMAIN t = 1 .. Len(s) - 1
  <2>1. Len(t) = Len(s) - 1
    <3>1. PICK L \in Nat \ {0} : L = Len(s)
      BY <1>1
    <3>2. (IF 1 <= L - 1 THEN L - 1 - 1 + 1 ELSE 0) = L - 1
      BY <3>1
    <3>. QED
      BY <1>5, <3>1, <3>2
  <2>2. DOMAIN t = 1 .. Len(t)
    BY <1>5
  <2>. QED
    BY <1>1, <2>1, <2>2
<1>7. \A i \in DOMAIN t : i \in 1 .. Len(s) - 1 /\ t[i] = IF i = k THEN s[Len(s)] ELSE s[i]
  <2>. SUFFICES ASSUME NEW i \in DOMAIN t
                PROVE  i \in 1 .. Len(s) - 1 /\ t[i] = IF i = k THEN s[Len(s)] ELSE s[i]
    OBVIOUS
  <2>1. i \in 1 .. Len(s) - 1 - 1 + 1 /\ 1 + i - 1 = i /\ i \in 1 .. Len(s) /\ i \in 1 .. Len(s) - 1
    BY <1>1, <1>6
  <2>. QED
    BY <1>2, <1>5, <2>1
<1>8. \A i \in DOMAIN t : t[i] # s[k] /\ \E j \in DOMAIN s : t[i] = s[j]
  BY <1>1, <1>7
<1>9. \A i, j \in DOMAIN t : t[i] = t[j] => i = j
  BY <1>1, <1>7
<1>. QED
  BY <1>5, <1>6, <1>8, <1>9 DEF t

(* A set of naturals has a least element.                                  *)
LEMMA LeastNatural ==
  ASSUME NEW T, T \subseteq Nat, T # {}
  PROVE  \E x \in T : \A y \in T : x <= y
<1>1. PICK x \in T : \A y \in T : ~(<<y, x>> \in OpToRel(<, Nat))
  BY NatLessThanWellFounded, WFMin
<1>2. \A y \in T : ~(y < x)
  BY <1>1 DEF OpToRel
<1>. QED
  BY <1>2

-----------------------------------------------------------------------------
(* Ctx::cool *)

(* One look of Ctx::cool ...                                               *)
Look(s) ==
  LET b == s.list[s.next]
      rest == SwapRemove(s.list, s.next)
  IN  IF s.next > Len(s.list) THEN s
      ELSE IF Pinned(b) THEN [s EXCEPT !.next = @ + 1, !.list = Append(rest, b)]
      ELSE [s EXCEPT !.list = rest, !.pool = Returned(@, b)]

(* ... from here ...                                                       *)
Begun(left) == [next |-> 1, list |-> cooling, pool |-> left]

(* ... and what is left after each of them.                                *)
Looks(left) ==
  CHOOSE at : at = [i \in 1 .. Len(cooling) + 1 |-> IF i = 1 THEN Begun(left) ELSE Look(at[i - 1])]

(* Cool is as many looks as there are buffers cooling.                     *)
LEMMA CoolLooks ==
  ASSUME NEW left, NEW b
  PROVE  LET looked == Looks(left)[Len(cooling) + 1]
         IN  Cool(left, b) = [pool |-> looked.pool, cooling |-> PushBounded(looked.list, b, COOLING)]
BY DEF Cool, Looks, Look, Begun

(* The looks exist: if they did not for some number of them, they would    *)
(* not for a least one.                                                    *)
LEMMA LooksAreLooks ==
  ASSUME NEW left, Len(cooling) \in Nat
  PROVE  Looks(left) = [i \in 1 .. Len(cooling) + 1 |->
                          IF i = 1 THEN Begun(left) ELSE Look(Looks(left)[i - 1])]
<1>. DEFINE Works(g, n) == g = [i \in 1 .. n |-> IF i = 1 THEN Begun(left) ELSE Look(g[i - 1])]
            T == {n \in Nat \ {0} : ~\E g : Works(g, n)}
<1>1. T = {}
  <2>. SUFFICES ASSUME T # {}
                PROVE  FALSE
    OBVIOUS
  <2>1. PICK m \in T : \A n \in T : m <= n
    BY LeastNatural
  <2>2. m \in Nat \ {0} /\ ~\E g : Works(g, m)
    BY <2>1
  <2>3. CASE m = 1
    <3>. DEFINE h == [i \in 1 .. m |-> Begun(left)]
    <3>1. Works(h, m)
      BY <2>3
    <3>. QED
      BY <2>2, <3>1
  <2>4. CASE m # 1
    <3>1. m - 1 \in Nat \ {0} /\ m - 1 \notin T
      <4>1. m - 1 \in Nat \ {0} /\ ~(m <= m - 1)
        BY <2>2, <2>4
      <4>. QED
        BY <2>1, <4>1
    <3>2. PICK g : Works(g, m - 1)
      BY <3>1
    <3>. DEFINE h == [i \in 1 .. m |-> IF i = 1 THEN Begun(left) ELSE Look(g[i - 1])]
    <3>3. \A i \in 1 .. m : i # 1 => i - 1 \in 1 .. m - 1 /\ i - 1 \in 1 .. m
      BY <2>2
    <3>4. \A i \in 1 .. m - 1 : g[i] = h[i]
      <4>1. \A i \in 1 .. m - 1 : i \in 1 .. m
        BY <2>2
      <4>2. \A i \in 1 .. m - 1 : g[i] = IF i = 1 THEN Begun(left) ELSE Look(g[i - 1])
        BY <3>2
      <4>. QED
        BY <4>1, <4>2
    <3>5. Works(h, m)
      BY <3>3, <3>4
    <3>. QED
      BY <2>2, <3>5
  <2>. QED
    BY <2>3, <2>4
<1>2. Len(cooling) + 1 \in Nat \ {0}
  OBVIOUS
<1>3. PICK g : Works(g, Len(cooling) + 1)
  BY <1>1, <1>2
<1>. QED
  BY <1>3 DEF Looks

(* After any number of looks: what was cooling is in the list or, if no    *)
(* client held it, in the pool, and nothing is in both.                    *)
Looked(left, s) ==
  /\ s.next \in Nat \ {0} /\ s.list \in Seq(InCooling) /\ Len(s.list) <= Len(cooling)
  /\ \A i, j \in DOMAIN s.list : s.list[i] = s.list[j] => i = j
  /\ s.pool \subseteq left \cup {b \in InCooling : ~Pinned(b)}
  /\ \A i \in DOMAIN s.list : s.list[i] \notin s.pool
  /\ IsFiniteSet(s.pool) /\ Cardinality(s.pool) <= POOL

(* The type of a look.                                                     *)
State == [next : Nat \ {0}, list : Seq(InCooling), pool : SUBSET Buffers]

(* The type of the list that cools.                                        *)
LEMMA CoolingFacts ==
  ASSUME CtxTyped
  PROVE  /\ InCooling \subseteq Buffers /\ cooling \in Seq(InCooling) /\ Len(cooling) \in Nat
         /\ \A i \in DOMAIN cooling : cooling[i] \in InCooling
         /\ IsFiniteSet(pool)
<1>1. cooling \in Seq(Buffers) /\ Len(cooling) \in Nat /\ DOMAIN cooling = 1 .. Len(cooling)
  BY DEF CtxTyped
<1>2. \A i \in DOMAIN cooling : cooling[i] \in InCooling /\ cooling[i] \in Buffers
  BY <1>1 DEF InCooling
<1>3. cooling \in Seq(InCooling)
  BY <1>1, <1>2
<1>4. IsFiniteSet(Buffers)
  <2>1. 2 + POOL + COOLING + Credit * Cardinality(Clients) \in Int
    BY Sizes
  <2>. QED
    BY <2>1, FS_Interval DEF Buffers
<1>5. IsFiniteSet(pool)
  BY <1>4, FS_Subset DEF CtxTyped
<1>. QED
  BY <1>1, <1>2, <1>3, <1>5 DEF InCooling

(* BufferPool::put keeps the pool within its capacity.                     *)
LEMMA ReturnedFacts ==
  ASSUME NEW p, IsFiniteSet(p), Cardinality(p) <= POOL, NEW b
  PROVE  /\ IsFiniteSet(Returned(p, b)) /\ Cardinality(Returned(p, b)) <= POOL
         /\ Returned(p, b) \subseteq p \cup {b}
<1>1. Cardinality(p) \in Nat
  BY FS_CardinalityType
<1>2. IsFiniteSet(p \cup {b}) /\ Cardinality(p \cup {b}) = IF b \in p THEN Cardinality(p) ELSE Cardinality(p) + 1
  BY FS_AddElement
<1>. QED
  BY <1>1, <1>2, Sizes DEF Returned

(* A look keeps that ...                                                   *)
LEMMA LookFacts ==
  ASSUME CtxTyped, NEW left \in SUBSET Buffers, left \cap InCooling = {}, NEW s \in State, Looked(left, s)
  PROVE  Look(s) \in State /\ Looked(left, Look(s))
<1>. DEFINE b == s.list[s.next]
            rest == SwapRemove(s.list, s.next)
<1>1. /\ s.next \in Nat \ {0} /\ s.list \in Seq(InCooling) /\ Len(s.list) \in Nat /\ Len(s.list) <= Len(cooling)
      /\ \A i, j \in DOMAIN s.list : s.list[i] = s.list[j] => i = j
      /\ Len(cooling) \in Nat
  BY CoolingFacts DEF Looked
<1>2. CASE s.next > Len(s.list)
  BY <1>2 DEF Look
<1>3. CASE ~(s.next > Len(s.list))
  <2>1. s.next \in DOMAIN s.list /\ b \in InCooling
    BY <1>1, <1>3
  <2>2. /\ rest \in Seq(InCooling) /\ Len(rest) + 1 = Len(s.list) /\ Len(rest) \in Nat
        /\ \A i \in DOMAIN rest : rest[i] # b /\ \E j \in DOMAIN s.list : rest[i] = s.list[j]
        /\ \A i, j \in DOMAIN rest : rest[i] = rest[j] => i = j
    <3>1. PICK q : q = s.list
      OBVIOUS
    <3>2. q \in Seq(InCooling) /\ s.next \in DOMAIN q /\ \A i, j \in DOMAIN q : q[i] = q[j] => i = j
      BY <1>1, <2>1, <3>1
    <3>3. /\ SwapRemove(q, s.next) \in Seq(InCooling) /\ Len(SwapRemove(q, s.next)) + 1 = Len(q)
          /\ \A i \in DOMAIN SwapRemove(q, s.next) :
               SwapRemove(q, s.next)[i] # q[s.next] /\ \E j \in DOMAIN q : SwapRemove(q, s.next)[i] = q[j]
          /\ \A i, j \in DOMAIN SwapRemove(q, s.next) :
               SwapRemove(q, s.next)[i] = SwapRemove(q, s.next)[j] => i = j
      BY <3>2, SwapRemoveFacts
    <3>4. Len(SwapRemove(q, s.next)) \in Nat
      BY <3>3
    <3>. QED
      BY <3>1, <3>3, <3>4
  <2>. HIDE DEF rest
  <2>3. CASE Pinned(b)
    <3>. DEFINE l == Append(rest, b)
    <3>1. /\ l \in Seq(InCooling) /\ Len(l) = Len(s.list)
          /\ \A i \in DOMAIN l : \/ i \in DOMAIN rest /\ l[i] = rest[i]
                                 \/ i = Len(rest) + 1 /\ l[i] = b
      BY <2>1, <2>2, AppendFacts
    <3>. HIDE DEF l
    <3>2. \A i \in DOMAIN l : \E j \in DOMAIN s.list : l[i] = s.list[j]
      BY <2>1, <2>2, <3>1
    <3>3. \A i, j \in DOMAIN l : l[i] = l[j] => i = j
      BY <2>2, <3>1
    <3>4. Look(s) = [s EXCEPT !.next = s.next + 1, !.list = l]
      BY <1>3, <2>3 DEF Look, rest, l
    <3>5. Look(s) \in State /\ Look(s).next = s.next + 1 /\ Look(s).list = l /\ Look(s).pool = s.pool
      <4>1. Look(s) = [next |-> s.next + 1, list |-> l, pool |-> s.pool]
        BY <3>4 DEF State
      <4>2. s.next + 1 \in Nat \ {0} /\ s.pool \in SUBSET Buffers
        BY <1>1 DEF State
      <4>. QED
        BY <3>1, <4>1, <4>2 DEF State
    <3>. QED
      BY <1>1, <3>1, <3>2, <3>3, <3>5 DEF Looked
  <2>4. CASE ~Pinned(b)
    <3>1. Look(s) = [s EXCEPT !.list = rest, !.pool = Returned(s.pool, b)]
      BY <1>3, <2>4 DEF Look, rest
    <3>2. /\ IsFiniteSet(Returned(s.pool, b)) /\ Cardinality(Returned(s.pool, b)) <= POOL
          /\ Returned(s.pool, b) \subseteq s.pool \cup {b}
      BY ReturnedFacts DEF Looked
    <3>3. s.pool \subseteq Buffers /\ b \in Buffers
      BY <2>1, CoolingFacts DEF State
    <3>4. Look(s) \in State /\ Look(s).next = s.next /\ Look(s).list = rest
          /\ Look(s).pool = Returned(s.pool, b)
      <4>1. Look(s) = [next |-> s.next, list |-> rest, pool |-> Returned(s.pool, b)]
        BY <3>1 DEF State
      <4>2. Returned(s.pool, b) \in SUBSET Buffers
        BY <3>2, <3>3
      <4>. QED
        BY <1>1, <2>2, <4>1, <4>2 DEF State
    <3>5. \A i \in DOMAIN rest : rest[i] \notin Returned(s.pool, b)
      BY <2>2, <3>2 DEF Looked
    <3>6. Returned(s.pool, b) \subseteq left \cup {c \in InCooling : ~Pinned(c)}
      BY <2>1, <2>4, <3>2 DEF Looked
    <3>7. Len(rest) <= Len(cooling)
      BY <1>1, <2>2
    <3>. QED
      BY <1>1, <2>2, <3>2, <3>4, <3>5, <3>6, <3>7 DEF Looked
  <2>. QED
    BY <2>3, <2>4
<1>. QED
  BY <1>2, <1>3

(* ... so that the last one has it, by the least number of looks that      *)
(* would not.                                                              *)
LEMMA LooksKeep ==
  ASSUME CtxTyped, NEW left \in SUBSET Buffers, left \cap InCooling = {},
         IsFiniteSet(left), Cardinality(left) <= POOL,
         \A i, j \in DOMAIN cooling : cooling[i] = cooling[j] => i = j
  PROVE  LET s == Looks(left)[Len(cooling) + 1] IN s \in State /\ Looked(left, s)
<1>. DEFINE at == Looks(left)
            T == {n \in 1 .. Len(cooling) + 1 : ~(at[n] \in State /\ Looked(left, at[n]))}
<1>1. Len(cooling) \in Nat
  BY CoolingFacts
<1>2. \A n \in 1 .. Len(cooling) + 1 : at[n] = IF n = 1 THEN Begun(left) ELSE Look(at[n - 1])
  <2>1. at = [n \in 1 .. Len(cooling) + 1 |-> IF n = 1 THEN Begun(left) ELSE Look(at[n - 1])]
    BY <1>1, LooksAreLooks
  <2>. HIDE DEF at
  <2>. QED
    BY <2>1
<1>3. Begun(left) \in State /\ Looked(left, Begun(left))
  BY <1>1, CoolingFacts DEF Begun, State, Looked
<1>. HIDE DEF at
<1>4. T = {}
  <2>. SUFFICES ASSUME T # {}
                PROVE  FALSE
    OBVIOUS
  <2>0. T \subseteq Nat
    BY <1>1
  <2>1. PICK m \in T : \A n \in T : m <= n
    BY <2>0, LeastNatural
  <2>2. m \in 1 .. Len(cooling) + 1 /\ ~(at[m] \in State /\ Looked(left, at[m])) /\ m # 1
    BY <2>1, <1>2, <1>3
  <2>3. m - 1 \in 1 .. Len(cooling) + 1 /\ ~(m <= m - 1)
    BY <1>1, <2>2
  <2>4. at[m - 1] \in State /\ Looked(left, at[m - 1])
    BY <2>1, <2>3
  <2>5. at[m] = Look(at[m - 1])
    BY <1>2, <2>2
  <2>6. Look(at[m - 1]) \in State /\ Looked(left, Look(at[m - 1]))
    <3>1. PICK s : s = at[m - 1]
      OBVIOUS
    <3>2. s \in State /\ Looked(left, s)
      BY <2>4, <3>1
    <3>3. Look(s) \in State /\ Looked(left, Look(s))
      BY <3>2, LookFacts
    <3>. QED
      BY <3>1, <3>3
  <2>. QED
    BY <2>2, <2>5, <2>6
<1>5. Len(cooling) + 1 \in 1 .. Len(cooling) + 1
  BY <1>1
<1>6. at[Len(cooling) + 1] \in State /\ Looked(left, at[Len(cooling) + 1])
  BY <1>4, <1>5
<1>. QED
  BY <1>6 DEF at

(* Ctx::cool: to the pool go buffers no client holds, the superseded one   *)
(* cools if there is room, and no buffer comes to be in two places.        *)
LEMMA CoolFacts ==
  ASSUME CtxTyped, BuffersApart, payload \in Buffers, NEW left \in SUBSET pool
  PROVE  LET r == Cool(left, payload)
         IN  /\ r.pool \subseteq left \cup {b \in InCooling : ~Pinned(b)}
             /\ Cardinality(r.pool) <= POOL
             /\ r.cooling \in Seq(Buffers) /\ Len(r.cooling) <= COOLING
             /\ \A i \in DOMAIN r.cooling : /\ r.cooling[i] \in InCooling \cup {payload}
                                            /\ r.cooling[i] \notin r.pool
             /\ \A i, j \in DOMAIN r.cooling : r.cooling[i] = r.cooling[j] => i = j
<1>. DEFINE s == Looks(left)[Len(cooling) + 1]
            r == Cool(left, payload)
<1>1. r = [pool |-> s.pool, cooling |-> PushBounded(s.list, payload, COOLING)]
  BY CoolLooks
<1>2. s \in State /\ Looked(left, s)
  <2>1. IsFiniteSet(left) /\ Cardinality(left) <= POOL
    <3>1. IsFiniteSet(pool) /\ Cardinality(pool) <= POOL
      BY CoolingFacts DEF BuffersApart
    <3>2. IsFiniteSet(left) /\ Cardinality(left) <= Cardinality(pool)
      BY <3>1, FS_Subset
    <3>3. Cardinality(left) \in Nat /\ Cardinality(pool) \in Nat
      BY <3>1, <3>2, FS_CardinalityType
    <3>. QED
      BY <3>1, <3>2, <3>3, Sizes
  <2>2. left \in SUBSET Buffers /\ left \cap InCooling = {}
    BY DEF CtxTyped, BuffersApart
  <2>3. \A i, j \in DOMAIN cooling : cooling[i] = cooling[j] => i = j
    BY DEF BuffersApart
  <2>. QED
    BY <2>1, <2>2, <2>3, LooksKeep
<1>. HIDE DEF s, r
<1>3. /\ s.list \in Seq(InCooling) /\ Len(s.list) <= Len(cooling)
      /\ \A i, j \in DOMAIN s.list : s.list[i] = s.list[j] => i = j
      /\ s.pool \subseteq left \cup {b \in InCooling : ~Pinned(b)}
      /\ \A i \in DOMAIN s.list : s.list[i] \notin s.pool
      /\ Cardinality(s.pool) <= POOL
  BY <1>2 DEF Looked
<1>4. /\ payload \notin InCooling /\ payload \notin s.pool /\ InCooling \subseteq Buffers /\ Len(cooling) <= COOLING
      /\ Len(cooling) \in Nat
  BY <1>3, CoolingFacts DEF BuffersApart
<1>5. PICK q : q = s.list
  OBVIOUS
<1>6. /\ q \in Seq(InCooling) /\ q \in Seq(InCooling \cup {payload}) /\ Len(q) \in Nat
      /\ \A i \in DOMAIN q : q[i] \in InCooling
  BY <1>3, <1>5
<1>7. CASE Len(q) < COOLING
  <2>1. r.cooling = Append(q, payload)
    BY <1>1, <1>5, <1>7 DEF PushBounded
  <2>. DEFINE a == Append(q, payload)
  <2>2. /\ a \in Seq(InCooling \cup {payload}) /\ Len(a) = Len(q) + 1
        /\ \A i \in DOMAIN a : /\ i \in 1 .. Len(q) + 1
                               /\ \/ i \in DOMAIN q /\ a[i] = q[i]
                                  \/ i = Len(q) + 1 /\ a[i] = payload
    BY <1>6, AppendFacts
  <2>. HIDE DEF a
  <2>3. a \in Seq(Buffers)
    BY <1>4, <2>2
  <2>4. \A i \in DOMAIN a : a[i] \in InCooling \cup {payload} /\ a[i] \notin s.pool
    BY <1>3, <1>4, <1>5, <1>6, <2>2
  <2>5. \A i, j \in DOMAIN a : a[i] = a[j] => i = j
    BY <1>3, <1>4, <1>5, <1>6, <2>2
  <2>6. Len(a) <= COOLING
    BY <1>6, <1>7, <2>2, Sizes
  <2>7. r.pool = s.pool
    BY <1>1
  <2>8. r.cooling = a
    BY <2>1 DEF a
  <2>. QED
    BY <1>3, <2>3, <2>4, <2>5, <2>6, <2>7, <2>8 DEF r
<1>8. CASE ~(Len(q) < COOLING)
  <2>1. r.cooling = q /\ r.pool = s.pool
    BY <1>1, <1>5, <1>8 DEF PushBounded
  <2>2. q \in Seq(Buffers) /\ Len(q) <= COOLING
    <3>1. q \in Seq(Buffers)
      BY <1>4, <1>6
    <3>2. Len(q) <= COOLING
      BY <1>3, <1>4, <1>5, <1>6, Sizes
    <3>. QED
      BY <3>1, <3>2
  <2>. QED
    BY <1>3, <1>5, <1>6, <2>1, <2>2 DEF r
<1>. QED
  BY <1>7, <1>8

-----------------------------------------------------------------------------
(* BufferPool::get *)

(* There is always a buffer that is used for nothing, as there are more of *)
(* them than the current frame, the pool, the cooling list and the queues  *)
(* of the clients take: the number of buffers bounds nothing.              *)
LEMMA SpareExists ==
  ASSUME Typed, BuffersApart, SessionsAreIntact
  PROVE  Spare # {}
<1>. DEFINE f == [x \in Clients \X (1 .. Credit) |-> session[x[1]].queue[x[2]]]
            P == {f[x] : x \in Clients \X (1 .. Credit)}
            Taken == {payload} \cup pool \cup InCooling \cup P
            g == [i \in DOMAIN cooling |-> cooling[i]]
<1>1. IsFiniteSet(P) /\ Cardinality(P) <= Credit * Cardinality(Clients) /\ Cardinality(P) \in Nat
  <2>1. IsFiniteSet(1 .. Credit) /\ Cardinality(1 .. Credit) = Credit
    <3>1. 1 \in Int /\ Credit \in Int /\ (IF 1 > Credit THEN 0 ELSE Credit - 1 + 1) = Credit
      BY Sizes
    <3>. QED
      BY <3>1, FS_Interval
  <2>2. IsFiniteSet(Clients) /\ Cardinality(Clients) \in Nat
    BY Sizes, FanoutAssumption
  <2>3. /\ IsFiniteSet(Clients \X (1 .. Credit))
        /\ Cardinality(Clients \X (1 .. Credit)) = Cardinality(Clients) * Credit
    BY <2>1, <2>2, FS_Product
  <2>4. f \in Surjection(Clients \X (1 .. Credit), P)
    <3>1. f \in [Clients \X (1 .. Credit) -> P] /\ \A t \in P : \E x \in Clients \X (1 .. Credit) : f[x] = t
      OBVIOUS
    <3>. QED
      BY <3>1 DEF Surjection
  <2>5. IsFiniteSet(P) /\ Cardinality(P) <= Cardinality(Clients) * Credit
    <3>. HIDE DEF P, f
    <3>1. IsFiniteSet(P) /\ Cardinality(P) <= Cardinality(Clients \X (1 .. Credit))
      BY <2>3, <2>4, FS_Surjection
    <3>. QED
      BY <2>3, <3>1
  <2>6. Cardinality(P) \in Nat
    BY <2>5, FS_CardinalityType
  <2>7. Cardinality(Clients) * Credit = Credit * Cardinality(Clients)
    BY <2>2, Sizes
  <2>. QED
    BY <2>5, <2>6, <2>7
<1>2. IsFiniteSet(InCooling) /\ Cardinality(InCooling) <= COOLING /\ Cardinality(InCooling) \in Nat
  <2>1. Len(cooling) \in Nat /\ DOMAIN cooling = 1 .. Len(cooling) /\ Len(cooling) <= COOLING
    BY DEF Typed, CtxTyped, BuffersApart
  <2>2. IsFiniteSet(DOMAIN cooling) /\ Cardinality(DOMAIN cooling) = Len(cooling)
    <3>1. 1 \in Int /\ Len(cooling) \in Int /\ (IF 1 > Len(cooling) THEN 0 ELSE Len(cooling) - 1 + 1) = Len(cooling)
      BY <2>1
    <3>2. IsFiniteSet(1 .. Len(cooling)) /\ Cardinality(1 .. Len(cooling)) = Len(cooling)
      BY <3>1, FS_Interval
    <3>. QED
      BY <2>1, <3>2
  <2>3. g \in Surjection(DOMAIN cooling, InCooling)
    <3>1. g \in [DOMAIN cooling -> InCooling] /\ \A t \in InCooling : \E i \in DOMAIN cooling : g[i] = t
      BY DEF InCooling
    <3>. QED
      BY <3>1 DEF Surjection
  <2>4. IsFiniteSet(InCooling) /\ Cardinality(InCooling) <= Len(cooling)
    <3>. HIDE DEF g
    <3>1. IsFiniteSet(InCooling) /\ Cardinality(InCooling) <= Cardinality(DOMAIN cooling)
      BY <2>2, <2>3, FS_Surjection
    <3>. QED
      BY <2>2, <3>1
  <2>5. Cardinality(InCooling) \in Nat
    BY <2>4, FS_CardinalityType
  <2>. QED
    BY <2>1, <2>4, <2>5, Sizes
<1>3. IsFiniteSet(pool) /\ Cardinality(pool) <= POOL /\ Cardinality(pool) \in Nat
  BY CoolingFacts, FS_CardinalityType DEF Typed, BuffersApart
<1>4. IsFiniteSet({payload}) /\ Cardinality({payload}) = 1
  BY FS_Singleton
<1>5. Spare = Buffers \ Taken \/ Buffers \ Taken \subseteq Spare
  <2>. SUFFICES ASSUME NEW b \in Buffers \ Taken
                PROVE  b \in Spare
    OBVIOUS
  <2>1. ~Pinned(b)
    <3>. SUFFICES ASSUME NEW c \in sessions, b \in HeldBy(c)
                  PROVE  FALSE
      BY DEF Pinned
    <3>1. PICK i \in DOMAIN session[c].queue : b = session[c].queue[i]
      BY DEF HeldBy
    <3>2. c \in Clients /\ i \in 1 .. Credit
      <4>1. session[c].queue \in Seq(Buffers) /\ c \in Clients
        BY DEF Typed, ClientsTyped, Session
      <4>2. Len(session[c].queue) <= Credit
        BY DEF SessionsAreIntact, Intact, Of
      <4>3. Len(session[c].queue) \in Nat /\ DOMAIN session[c].queue = 1 .. Len(session[c].queue)
        BY <4>1
      <4>. QED
        BY <4>1, <4>2, <4>3, Sizes
    <3>3. b = f[<<c, i>>] /\ <<c, i>> \in Clients \X (1 .. Credit)
      BY <3>1, <3>2
    <3>. QED
      BY <3>3
  <2>. QED
    BY <2>1 DEF Spare
<1>. HIDE DEF P, f, g
<1>6. IsFiniteSet(Taken) /\ Cardinality(Taken) <= 1 + POOL + COOLING + Credit * Cardinality(Clients)
      /\ Cardinality(Taken) \in Nat
  <2>. DEFINE A == {payload} \cup pool
              B == A \cup InCooling
  <2>1. IsFiniteSet(A) /\ Cardinality(A) <= 1 + POOL /\ Cardinality(A) \in Nat
    <3>1. IsFiniteSet(A)
          /\ Cardinality(A) = Cardinality({payload}) + Cardinality(pool) - Cardinality({payload} \cap pool)
      BY <1>3, <1>4, FS_Union
    <3>2. Cardinality(A) \in Nat /\ Cardinality({payload} \cap pool) \in Nat
      <4>1. IsFiniteSet({payload} \cap pool)
        BY <1>3, FS_Subset
      <4>. QED
        BY <3>1, <4>1, FS_CardinalityType
    <3>. QED
      BY <1>3, <1>4, <3>1, <3>2, Sizes
  <2>. HIDE DEF A
  <2>2. IsFiniteSet(B) /\ Cardinality(B) <= 1 + POOL + COOLING /\ Cardinality(B) \in Nat
    <3>1. IsFiniteSet(B)
          /\ Cardinality(B) = Cardinality(A) + Cardinality(InCooling) - Cardinality(A \cap InCooling)
      BY <2>1, <1>2, FS_Union
    <3>2. Cardinality(B) \in Nat /\ Cardinality(A \cap InCooling) \in Nat
      <4>1. IsFiniteSet(A \cap InCooling)
        BY <2>1, FS_Subset
      <4>. QED
        BY <3>1, <4>1, FS_CardinalityType
    <3>. QED
      BY <1>2, <2>1, <3>1, <3>2, Sizes
  <2>. HIDE DEF B
  <2>3. IsFiniteSet(B \cup P)
        /\ Cardinality(B \cup P) <= 1 + POOL + COOLING + Credit * Cardinality(Clients)
        /\ Cardinality(B \cup P) \in Nat
    <3>1. IsFiniteSet(B \cup P)
          /\ Cardinality(B \cup P) = Cardinality(B) + Cardinality(P) - Cardinality(B \cap P)
      BY <2>2, <1>1, FS_Union
    <3>2. Cardinality(B \cup P) \in Nat /\ Cardinality(B \cap P) \in Nat
      <4>1. IsFiniteSet(B \cap P)
        BY <2>2, FS_Subset
      <4>. QED
        BY <3>1, <4>1, FS_CardinalityType
    <3>3. PICK k \in Nat : k = Credit * Cardinality(Clients)
      BY Sizes
    <3>. QED
      BY <1>1, <2>2, <3>1, <3>2, <3>3, Sizes
  <2>. QED
    BY <2>3 DEF A, B
<1>7. Cardinality(Buffers) = 2 + POOL + COOLING + Credit * Cardinality(Clients) /\ IsFiniteSet(Buffers)
  <2>1. PICK k \in Nat : k = Credit * Cardinality(Clients)
    BY Sizes
  <2>2. 1 \in Int /\ 2 + POOL + COOLING + k \in Int /\ ~(1 > 2 + POOL + COOLING + k)
        /\ 2 + POOL + COOLING + k - 1 + 1 = 2 + POOL + COOLING + k
    BY <2>1, Sizes
  <2>3. /\ IsFiniteSet(1 .. 2 + POOL + COOLING + k)
        /\ Cardinality(1 .. 2 + POOL + COOLING + k) = 2 + POOL + COOLING + k
    BY <2>2, FS_Interval
  <2>. QED
    BY <2>1, <2>3 DEF Buffers
<1>. HIDE DEF Taken
<1>8. Buffers \ Taken # {}
  <2>. SUFFICES ASSUME Buffers \subseteq Taken
                PROVE  FALSE
    OBVIOUS
  <2>1. Cardinality(Buffers) <= Cardinality(Taken)
    BY <1>6, FS_Subset
  <2>2. PICK k \in Nat : k = Credit * Cardinality(Clients)
    BY Sizes
  <2>. QED
    BY <1>6, <1>7, <2>1, <2>2, Sizes
<1>. QED
  BY <1>5, <1>8

(* So the allocator has one to give ...                                    *)
LEMMA FreshFacts ==
  ASSUME Typed, BuffersApart, SessionsAreIntact
  PROVE  /\ Fresh \in Buffers /\ Fresh # payload /\ Fresh \notin pool /\ Fresh \notin InCooling
         /\ ~Pinned(Fresh)
<1>1. Spare # {} /\ Spare \subseteq Nat
  BY SpareExists, Sizes DEF Spare
<1>2. \E b \in Spare : \A o \in Spare : b <= o
  BY <1>1, LeastNatural
<1>3. Fresh \in Spare
  BY <1>2 DEF Fresh
<1>. QED
  BY <1>3 DEF Spare

(* ... and BufferPool::get gives one that nobody reads and that is nowhere *)
(* else.                                                                   *)
LEMMA GetFacts ==
  ASSUME Typed, BuffersApart, SessionsAreIntact, NEW b, NEW left, Get(b, left)
  PROVE  /\ left \in SUBSET pool
         /\ b \in Buffers /\ b # payload /\ b \notin left /\ b \notin InCooling /\ ~Pinned(b)
<1>1. CASE b \in pool /\ left = pool \ {b}
  BY <1>1 DEF BuffersApart, Typed, CtxTyped
<1>2. CASE b = Fresh /\ left \subseteq pool
  BY <1>2, FreshFacts
<1>. QED
  BY <1>1, <1>2 DEF Get

-----------------------------------------------------------------------------
(* Session and H2Sink *)

(* y has of the queue of x, and perhaps p: a poll's ...                    *)
Within(y, x, p) ==
  \A i \in DOMAIN y.s.queue :
    y.s.queue[i] = p \/ \E j \in DOMAIN x.s.queue : y.s.queue[i] = x.s.queue[j]

(* ... whole outcome.                                                      *)
Reached(y, x, store, n, p) == y \in Client /\ Intact(y, store, n, p) /\ Within(y, x, p)

(* What is in a client.                                                    *)
LEMMA ClientFacts ==
  ASSUME NEW x \in Client
  PROVE  /\ x.s \in Session /\ x.got \in Frame /\ x.got.epoch \in Int
         /\ x.s.queue \in Seq(Buffers) /\ Len(x.s.queue) \in Nat /\ DOMAIN x.s.queue = 1 .. Len(x.s.queue)
         /\ \A i \in DOMAIN x.s.queue : x.s.queue[i] \in Buffers
         /\ x.s.epoch \in Nat /\ x.s.ended \in BOOLEAN /\ x.s.finishing \in BOOLEAN
         /\ x.s.queue = <<>> <=> Len(x.s.queue) = 0
<1>1. x.s \in Session /\ x.got \in Frame
  BY DEF Client
<1>2. x.s.queue \in Seq(Buffers)
  BY <1>1 DEF Session
<1>. QED
  BY <1>1, <1>2 DEF Session, Frame

(* To end a session changes nothing of its frames.                         *)
LEMMA EndFacts ==
  ASSUME NEW x \in Client
  PROVE  /\ End(x) \in Client
         /\ End(x).s.queue = x.s.queue /\ End(x).s.epoch = x.s.epoch /\ End(x).got = x.got
BY DEF End, Client, Session

(* To queue a frame makes it the newest of the session.                    *)
LEMMA QueuedFacts ==
  ASSUME NEW x \in Client, NEW n \in Nat, NEW b \in Buffers
  PROVE  LET z == [x EXCEPT !.s.queue = Append(@, b), !.s.epoch = n]
         IN  z \in Client /\ z.s.queue = Append(x.s.queue, b) /\ z.s.epoch = n /\ z.got = x.got
<1>. DEFINE q == Append(x.s.queue, b)
            z == [x EXCEPT !.s.queue = q, !.s.epoch = n]
<1>1. q \in Seq(Buffers)
  BY DEF Client, Session
<1>. HIDE DEF q
<1>2. z \in Client /\ z.s.queue = q /\ z.s.epoch = n /\ z.got = x.got
  BY <1>1 DEF Session, Client
<1>3. [x EXCEPT !.s.queue = Append(@, b), !.s.epoch = n] = z
  BY DEF q
<1>. QED
  BY <1>2, <1>3 DEF q

(* Intact by its parts ...                                                 *)
LEMMA IntactBy ==
  ASSUME NEW y, NEW a, NEW e, NEW g, NEW store, NEW n, NEW p, y.s.queue = a, y.s.epoch = e, y.got = g,
         Len(a) <= Credit,
         \A i \in DOMAIN a : g.epoch < store[a[i]].epoch,
         \A i, j \in DOMAIN a : i < j => store[a[i]].epoch < store[a[j]].epoch,
         a # <<>> => store[a[Len(a)]].epoch = e - 1,
         a = <<>> => g.epoch <= e - 1,
         e <= n + 1,
         e > n => IF a = <<>> THEN g = store[p] ELSE store[a[Len(a)]] = store[p]
  PROVE  Intact(y, store, n, p)
BY DEF Intact

(* ... which are the queue, the epoch and the last frame sent ...          *)
LEMMA IntactAlike ==
  ASSUME NEW x, NEW y, NEW store, NEW n, NEW p, Intact(x, store, n, p),
         y.s.queue = x.s.queue, y.s.epoch = x.s.epoch, y.got = x.got
  PROVE  Intact(y, store, n, p)
BY DEF Intact

(* ... and the frames in the buffers it refers to.                         *)
LEMMA IntactSame ==
  ASSUME NEW x \in Client, NEW store, NEW other, NEW n, NEW p, Intact(x, store, n, p),
         other[p] = store[p], \A i \in DOMAIN x.s.queue : other[x.s.queue[i]] = store[x.s.queue[i]]
  PROVE  Intact(x, other, n, p)
<1>1. x.s.queue # <<>> => Len(x.s.queue) \in DOMAIN x.s.queue
  BY ClientFacts
<1>. QED
  BY <1>1 DEF Intact

(* When the epoch moves on, into a buffer the client does not refer to, it *)
(* is only that it lags.                                                   *)
LEMMA IntactNext ==
  ASSUME NEW x \in Client, NEW store, NEW other, NEW n \in Nat, NEW p, NEW b, Intact(x, store, n, p),
         \A i \in DOMAIN x.s.queue : other[x.s.queue[i]] = store[x.s.queue[i]]
  PROVE  Intact(x, other, n + 1, b)
<1>1. x.s.queue # <<>> => Len(x.s.queue) \in DOMAIN x.s.queue
  BY ClientFacts
<1>2. x.s.epoch <= n + 1 /\ x.s.epoch \in Nat
  BY ClientFacts DEF Intact
<1>3. x.s.epoch <= n + 1 + 1 /\ ~(x.s.epoch > n + 1)
  BY <1>2
<1>. QED
  BY <1>1, <1>3 DEF Intact

(* Session::deliver of the current frame keeps a client intact: it is      *)
(* offered what is newer than all it has ...                               *)
LEMMA DeliverReaches ==
  ASSUME NEW x \in Client, NEW store \in [Buffers -> Frame], NEW n \in Nat, NEW b \in Buffers,
         store[b].epoch = n, Intact(x, store, n, b), NEW io
  PROVE  Reached(Deliver(x, n, b, io), x, store, n, b)
<1>. DEFINE y == Deliver(x, n, b, io)
            q == x.s.queue
<1>1. CASE y = x
  BY <1>1 DEF Reached, Within
<1>2. CASE y = End(x)
  <2>1. /\ y \in Client /\ y.s.queue = x.s.queue /\ y.s.epoch = x.s.epoch /\ y.got = x.got
    BY <1>2, EndFacts
  <2>2. Intact(y, store, n, b)
    BY <2>1, IntactAlike
  <2>. QED
    BY <2>1, <2>2 DEF Reached, Within
<1>3. CASE ~Deaf(x, n) /\ Room(x) /\ y = [x EXCEPT !.s.queue = Append(@, b), !.s.epoch = n + 1]
  <2>1. /\ q \in Seq(Buffers) /\ Len(q) \in Nat /\ DOMAIN q = 1 .. Len(q) /\ \A i \in DOMAIN q : q[i] \in Buffers
        /\ x.s.epoch \in Nat /\ x.s \in Session /\ x.got \in Frame /\ x.got.epoch \in Int
        /\ q = <<>> <=> Len(q) = 0
    BY ClientFacts
  <2>2. x.s.epoch <= n /\ Len(q) < Credit
    BY <1>3, <2>1 DEF Deaf, Room
  <2>3. y \in Client /\ y.s.queue = Append(q, b) /\ y.s.epoch = n + 1 /\ y.got = x.got
    <3>1. n + 1 \in Nat
      OBVIOUS
    <3>2. \A m \in Nat : LET z == [x EXCEPT !.s.queue = Append(@, b), !.s.epoch = m]
                          IN  z \in Client /\ z.s.queue = Append(x.s.queue, b) /\ z.s.epoch = m /\ z.got = x.got
      BY QueuedFacts
    <3>. HIDE DEF y
    <3>. QED
      BY <1>3, <3>1, <3>2
  <2>. HIDE DEF y
  <2>. DEFINE a == Append(q, b)
  <2>4. /\ a \in Seq(Buffers) /\ Len(a) = Len(q) + 1 /\ a # <<>>
        /\ \A i \in DOMAIN a : /\ i \in 1 .. Len(q) + 1
                               /\ \/ i \in DOMAIN q /\ a[i] = q[i]
                                  \/ i = Len(q) + 1 /\ a[i] = b
        /\ a[Len(q) + 1] = b
    <3>1. /\ a \in Seq(Buffers) /\ Len(a) = Len(q) + 1
          /\ \A i \in DOMAIN a : /\ i \in 1 .. Len(q) + 1
                                 /\ \/ i \in DOMAIN q /\ a[i] = q[i]
                                    \/ i = Len(q) + 1 /\ a[i] = b
          /\ a[Len(q) + 1] = b
      BY <2>1, AppendFacts
    <3>. HIDE DEF a
    <3>2. Len(a) # 0
      BY <2>1, <3>1
    <3>3. a # <<>>
      BY <3>2
    <3>. QED
      BY <3>1, <3>3
  <2>. HIDE DEF a
  <2>5. y.s.queue = a /\ y.s.epoch = n + 1 /\ y.got = x.got
    BY <2>3 DEF a
  <2>6. y \in Client
    BY <2>3
  <2>7. \A i \in DOMAIN q : store[q[i]].epoch \in Int /\ store[q[i]].epoch <= x.s.epoch - 1
    <3>. SUFFICES ASSUME NEW i \in DOMAIN q
                  PROVE  store[q[i]].epoch \in Int /\ store[q[i]].epoch <= x.s.epoch - 1
      OBVIOUS
    <3>1. Len(q) \in DOMAIN q /\ q # <<>> /\ i \in Nat /\ (i = Len(q) \/ i < Len(q))
      BY <2>1
    <3>2. store[q[Len(q)]].epoch = x.s.epoch - 1
          /\ (i < Len(q) => store[q[i]].epoch < store[q[Len(q)]].epoch)
      BY <3>1 DEF Intact
    <3>3. store[q[i]].epoch \in Int
      BY <2>1 DEF Frame
    <3>. QED
      BY <2>1, <3>1, <3>2, <3>3
  <2>8. x.got.epoch < n
    <3>1. CASE q = <<>>
      <4>1. x.got.epoch <= x.s.epoch - 1
        BY <3>1 DEF Intact
      <4>. QED
        BY <4>1, <2>1, <2>2
    <3>2. CASE q # <<>>
      <4>1. 1 \in DOMAIN q
        BY <2>1, <3>2
      <4>2. x.got.epoch < store[q[1]].epoch
        BY <4>1 DEF Intact
      <4>. QED
        BY <2>1, <2>2, <2>7, <4>1, <4>2
    <3>. QED
      BY <3>1, <3>2
  <2>9. Len(a) <= Credit
    BY <2>1, <2>2, <2>4, Sizes
  <2>10. \A i \in DOMAIN a : x.got.epoch < store[a[i]].epoch
    <3>1. \A i \in DOMAIN q : x.got.epoch < store[q[i]].epoch
      BY DEF Intact
    <3>. QED
      BY <2>4, <2>8, <3>1
  <2>11. \A i, j \in DOMAIN a : i < j => store[a[i]].epoch < store[a[j]].epoch
    <3>. SUFFICES ASSUME NEW i \in DOMAIN a, NEW j \in DOMAIN a, i < j
                  PROVE  store[a[i]].epoch < store[a[j]].epoch
      OBVIOUS
    <3>1. i \in DOMAIN q /\ a[i] = q[i]
      BY <2>1, <2>4
    <3>2. CASE j \in DOMAIN q /\ a[j] = q[j]
      BY <3>1, <3>2 DEF Intact
    <3>3. CASE a[j] = b
      BY <3>1, <3>3, <2>1, <2>2, <2>7
    <3>. QED
      BY <2>4, <3>2, <3>3
  <2>12. store[a[Len(a)]].epoch = n + 1 - 1 /\ a[Len(a)] = b
    BY <2>4
  <2>13. Intact(y, store, n, b)
    <3>1. n + 1 <= n + 1 /\ a # <<>> /\ store[a[Len(a)]].epoch = n + 1 - 1
          /\ store[a[Len(a)]] = store[b]
      BY <2>4, <2>12
    <3>2. /\ a # <<>> => store[a[Len(a)]].epoch = n + 1 - 1
          /\ a = <<>> => x.got.epoch <= n + 1 - 1
          /\ n + 1 > n => IF a = <<>> THEN x.got = store[b] ELSE store[a[Len(a)]] = store[b]
      BY <3>1
    <3>. QED
      BY <2>5, <2>9, <2>10, <2>11, <3>1, <3>2, IntactBy
  <2>14. Within(y, x, b)
    BY <2>4, <2>5 DEF Within
  <2>. QED
    BY <2>6, <2>13, <2>14 DEF Reached, y
<1>4. y = x \/ y = End(x) \/ (~Deaf(x, n) /\ Room(x)
      /\ y = [x EXCEPT !.s.queue = Append(@, b), !.s.epoch = n + 1])
  BY DEF Deliver
<1>. QED
  BY <1>1, <1>2, <1>3, <1>4

(* ... and so does poll_progress, which takes from the front ...           *)
LEMMA ProgressReaches ==
  ASSUME NEW x \in Client, NEW store \in [Buffers -> Frame], NEW n \in Nat, NEW b \in Buffers,
         Intact(x, store, n, b), NEW io \in Poll
  PROVE  Reached(Progress(x, store, io), x, store, n, b)
<1>. DEFINE q == x.s.queue
            k == IF io.takes < Len(q) THEN io.takes ELSE Len(q)
            t == SubSeq(q, k + 1, Len(q))
            y == [s |-> [x.s EXCEPT !.queue = t], got |-> IF k = 0 THEN x.got ELSE store[q[k]]]
<1>1. /\ q \in Seq(Buffers) /\ Len(q) \in Nat /\ DOMAIN q = 1 .. Len(q) /\ \A i \in DOMAIN q : q[i] \in Buffers
      /\ x.s.epoch \in Nat /\ x.s \in Session /\ x.got \in Frame /\ x.got.epoch \in Int
      /\ q = <<>> <=> Len(q) = 0
  BY ClientFacts
<1>2. k \in 0 .. Len(q)
  BY <1>1, Sizes DEF Poll
<1>3. Progress(x, store, io) \in {x, End(x), y, End(y)}
  BY DEF Progress
<1>. HIDE DEF k
<1>4. /\ t \in Seq(Buffers) /\ Len(t) = Len(q) - k
      /\ \A i \in DOMAIN t : i \in Nat /\ i + k \in DOMAIN q /\ t[i] = q[i + k]
      /\ k < Len(q) => t[Len(t)] = q[Len(q)]
  <2>1. \A s \in Seq(Buffers) : \A m \in 0 .. Len(s) :
          LET r == SubSeq(s, m + 1, Len(s))
          IN  /\ r \in Seq(Buffers) /\ Len(r) = Len(s) - m
              /\ \A i \in DOMAIN r : i \in Nat /\ i + m \in DOMAIN s /\ r[i] = s[i + m]
              /\ m < Len(s) => r[Len(r)] = s[Len(s)]
    BY DropFacts
  <2>. HIDE DEF q
  <2>. QED
    BY <1>1, <1>2, <2>1
<1>. HIDE DEF t
<1>5. (IF k = 0 THEN x.got ELSE store[q[k]]) \in Frame
  BY <1>1, <1>2
<1>6. [x.s EXCEPT !.queue = t] \in Session /\ [x.s EXCEPT !.queue = t].queue = t
      /\ [x.s EXCEPT !.queue = t].epoch = x.s.epoch
  BY <1>1, <1>4 DEF Session
<1>7. y.s.queue = t /\ y.s.epoch = x.s.epoch /\ y.got = (IF k = 0 THEN x.got ELSE store[q[k]]) /\ y \in Client
  BY <1>5, <1>6 DEF Client
<1>. HIDE DEF y
<1>8. Within(y, x, b)
  BY <1>4, <1>7 DEF Within
<1>9. (t = <<>> <=> k = Len(q)) /\ Len(t) \in Nat
  BY <1>1, <1>2, <1>4
<1>10. Intact(y, store, n, b)
  <2>1. Len(t) <= Credit
    <3>1. Len(q) <= Credit
      BY DEF Intact
    <3>. QED
      BY <3>1, <1>1, <1>2, <1>4, Sizes
  <2>2. \A i \in DOMAIN t : y.got.epoch < store[t[i]].epoch
    <3>. SUFFICES ASSUME NEW i \in DOMAIN t
                  PROVE  y.got.epoch < store[t[i]].epoch
      OBVIOUS
    <3>1. i \in Nat /\ i + k \in DOMAIN q /\ t[i] = q[i + k] /\ i \in 1 .. Len(t)
      BY <1>4
    <3>2. CASE k = 0
      BY <3>1, <3>2, <1>7 DEF Intact
    <3>3. CASE k # 0
      <4>1. k \in DOMAIN q /\ k < i + k
        BY <1>1, <1>2, <3>1, <3>3
      <4>. QED
        BY <3>1, <3>3, <4>1, <1>7 DEF Intact
    <3>. QED
      BY <3>2, <3>3
  <2>3. \A i, j \in DOMAIN t : i < j => store[t[i]].epoch < store[t[j]].epoch
    <3>. SUFFICES ASSUME NEW i \in DOMAIN t, NEW j \in DOMAIN t, i < j
                  PROVE  store[t[i]].epoch < store[t[j]].epoch
      OBVIOUS
    <3>1. i + k \in DOMAIN q /\ j + k \in DOMAIN q /\ i + k < j + k /\ t[i] = q[i + k]
          /\ t[j] = q[j + k]
      BY <1>2, <1>4
    <3>. QED
      BY <3>1 DEF Intact
  <2>4. t # <<>> => q # <<>> /\ t[Len(t)] = q[Len(q)]
    BY <1>1, <1>2, <1>4, <1>9
  <2>5. t # <<>> => store[t[Len(t)]].epoch = x.s.epoch - 1
    BY <2>4 DEF Intact
  <2>6. t = <<>> => y.got.epoch <= x.s.epoch - 1
    <3>1. CASE t = <<>> /\ q = <<>>
      BY <3>1, <1>1, <1>7, <1>9 DEF Intact
    <3>2. CASE t = <<>> /\ q # <<>>
      <4>1. y.got = store[q[Len(q)]] /\ store[q[Len(q)]].epoch = x.s.epoch - 1
        BY <3>2, <1>1, <1>7, <1>9 DEF Intact
      <4>. QED
        BY <4>1, <1>1
    <3>. QED
      BY <3>1, <3>2
  <2>7. x.s.epoch <= n + 1
    BY DEF Intact
  <2>8. x.s.epoch > n => IF t = <<>> THEN y.got = store[b] ELSE store[t[Len(t)]] = store[b]
    <3>1. CASE t # <<>>
      BY <3>1, <2>4 DEF Intact
    <3>2. CASE t = <<>> /\ q = <<>>
      BY <3>2, <1>1, <1>7, <1>9 DEF Intact
    <3>3. CASE t = <<>> /\ q # <<>>
      BY <3>3, <1>1, <1>7, <1>9 DEF Intact
    <3>. QED
      BY <3>1, <3>2, <3>3
  <2>. QED
    BY <2>1, <2>2, <2>3, <2>5, <2>6, <2>7, <2>8, <1>7, IntactBy
<1>11. \A z \in {x, y} : /\ z \in Client /\ Intact(z, store, n, b) /\ Within(z, x, b)
  BY <1>7, <1>8, <1>10 DEF Within
<1>12. \A z \in {x, y} : Reached(z, x, store, n, b) /\ Reached(End(z), x, store, n, b)
  <2>. SUFFICES ASSUME NEW z \in {x, y}
                PROVE  Reached(z, x, store, n, b) /\ Reached(End(z), x, store, n, b)
    OBVIOUS
  <2>1. z \in Client /\ Intact(z, store, n, b) /\ Within(z, x, b)
    BY <1>11
  <2>2. End(z) \in Client /\ End(z).s.queue = z.s.queue /\ End(z).s.epoch = z.s.epoch
        /\ End(z).got = z.got
    BY <2>1, EndFacts
  <2>3. Intact(End(z), store, n, b)
    BY <2>1, <2>2, IntactAlike
  <2>. QED
    BY <2>1, <2>2, <2>3 DEF Reached, Within
<1>. QED
  BY <1>3, <1>12

(* ... and so do the two in the order of a delivery and of a poll.         *)
LEMMA PolledReaches ==
  ASSUME NEW x \in Client, NEW store \in [Buffers -> Frame], NEW n \in Nat, NEW b \in Buffers,
         store[b].epoch = n, Intact(x, store, n, b), NEW io \in Poll
  PROVE  /\ Reached(DeliverAndFlush(x, n, b, store, io), x, store, n, b)
         /\ Reached(PollProgress(x, n, b, store, io), x, store, n, b)
<1>1. Reached(DeliverAndFlush(x, n, b, store, io), x, store, n, b)
  <2>1. PICK y : y = Deliver(x, n, b, io)
    OBVIOUS
  <2>2. y \in Client /\ Intact(y, store, n, b) /\ Within(y, x, b)
    BY <2>1, DeliverReaches DEF Reached
  <2>3. PICK z : z = Progress(y, store, io)
    OBVIOUS
  <2>4. z \in Client /\ Intact(z, store, n, b) /\ Within(z, y, b)
    BY <2>2, <2>3, ProgressReaches DEF Reached
  <2>5. Within(z, x, b)
    BY <2>2, <2>4 DEF Within
  <2>. QED
    BY <2>1, <2>3, <2>4, <2>5 DEF Reached, DeliverAndFlush
<1>2. Reached(PollProgress(x, n, b, store, io), x, store, n, b)
  <2>1. PICK y : y = Progress(x, store, io)
    OBVIOUS
  <2>2. y \in Client /\ Intact(y, store, n, b) /\ Within(y, x, b)
    BY <2>1, ProgressReaches DEF Reached
  <2>3. PICK z : z = Deliver(y, n, b, io)
    OBVIOUS
  <2>4. z \in Client /\ Intact(z, store, n, b) /\ Within(z, y, b)
    BY <2>2, <2>3, DeliverReaches DEF Reached
  <2>5. Within(z, x, b)
    BY <2>2, <2>4 DEF Within
  <2>. QED
    BY <2>1, <2>3, <2>4, <2>5 DEF Reached, PollProgress
<1>. QED
  BY <1>1, <1>2

-----------------------------------------------------------------------------
(* The steps *)

(* The inductive invariant.                                                *)
Inv ==
  /\ Typed /\ PublishersAreSound /\ ServingIsSound /\ FrameIsFresh
  /\ BuffersApart /\ SessionsAreIntact /\ AbsentAreDetached

(* The clients that stay are `who`, and y is what the polls made of them.  *)
Outcome(who, y) ==
  /\ sessions' = who
  /\ session' = [c \in Clients |-> IF c \in who THEN y[c].s ELSE Detached]
  /\ got' = [c \in Clients |-> IF c \in who THEN y[c].got ELSE NoFrame]

(* What is referred to keeps its content.                                  *)
LEMMA StoredFacts ==
  ASSUME NEW store \in [Buffers -> Frame], Stored(store), payload' \in Buffers,
         \A c \in sessions' : /\ DOMAIN session'[c].queue \subseteq 1 .. Credit
                              /\ \A i \in DOMAIN session'[c].queue : session'[c].queue[i] \in Buffers
  PROVE  /\ content' \in [Buffers -> Frame] /\ content'[payload'] = store[payload']
         /\ \A c \in sessions' : \A i \in DOMAIN session'[c].queue :
              content'[session'[c].queue[i]] = store[session'[c].queue[i]]
<1>. DEFINE Used(b) == \/ b = payload' \/ \E i \in DOMAIN cooling' : cooling'[i] = b
                       \/ \E c \in sessions', i \in 1 .. Credit :
                            i \in DOMAIN session'[c].queue /\ session'[c].queue[i] = b
<1>1. content' = [b \in Buffers |-> IF Used(b) THEN store[b] ELSE NoFrame]
  BY DEF Stored
<1>2. Used(payload') /\ \A c \in sessions' : \A i \in DOMAIN session'[c].queue : Used(session'[c].queue[i])
  OBVIOUS
<1>. HIDE DEF Used
<1>3. content' \in [Buffers -> Frame]
  BY <1>1, NoneIsTyped
<1>. QED
  BY <1>1, <1>2, <1>3

(* A lap whose polls reach every client that stays, in a store the buffers *)
(* then have, leaves all of them intact.                                   *)
LEMMA Settled ==
  ASSUME NEW store \in [Buffers -> Frame], NEW who \in SUBSET Clients, NEW y, Outcome(who, y),
         payload' \in Buffers, Stored(store) \/ content' = store,
         \A c \in who : y[c] \in Client /\ Intact(y[c], store, epoch', payload'),
         \A c \in who : \A i \in DOMAIN y[c].s.queue :
           y[c].s.queue[i] = payload' \/ Pinned(y[c].s.queue[i])
  PROVE  /\ sessions' \subseteq Clients /\ session' \in [Clients -> Session] /\ got' \in [Clients -> Frame]
         /\ content' \in [Buffers -> Frame] /\ content'[payload'] = store[payload']
         /\ SessionsAreIntact' /\ AbsentAreDetached'
         /\ \A b : Pinned(b)' => b = payload' \/ Pinned(b)
<1>1. \A c \in who : /\ session'[c] = y[c].s /\ got'[c] = y[c].got
                     /\ session'[c] \in Session /\ got'[c] \in Frame
  BY DEF Outcome, Client
<1>2. sessions' \subseteq Clients /\ session' \in [Clients -> Session] /\ got' \in [Clients -> Frame]
  BY <1>1, NoneIsTyped DEF Outcome
<1>3. AbsentAreDetached'
  BY DEF AbsentAreDetached, Outcome
<1>4. \A c \in sessions' : /\ DOMAIN session'[c].queue \subseteq 1 .. Credit
                           /\ \A i \in DOMAIN session'[c].queue : session'[c].queue[i] \in Buffers
  <2>. SUFFICES ASSUME NEW c \in sessions'
                PROVE  /\ DOMAIN session'[c].queue \subseteq 1 .. Credit
                       /\ \A i \in DOMAIN session'[c].queue : session'[c].queue[i] \in Buffers
    OBVIOUS
  <2>1. c \in who /\ session'[c] = y[c].s
    BY <1>1 DEF Outcome
  <2>2. PICK x \in Client : x = y[c]
    BY <2>1
  <2>3. /\ DOMAIN x.s.queue = 1 .. Len(x.s.queue) /\ Len(x.s.queue) \in Nat /\ Len(x.s.queue) <= Credit
        /\ \A i \in DOMAIN x.s.queue : x.s.queue[i] \in Buffers
    BY <2>1, <2>2, ClientFacts DEF Intact
  <2>4. DOMAIN x.s.queue \subseteq 1 .. Credit
    BY <2>3, Sizes
  <2>. QED
    BY <2>1, <2>2, <2>3, <2>4
<1>5. /\ content' \in [Buffers -> Frame] /\ content'[payload'] = store[payload']
      /\ \A c \in sessions' : \A i \in DOMAIN session'[c].queue :
           content'[session'[c].queue[i]] = store[session'[c].queue[i]]
  BY <1>4, StoredFacts
<1>6. SessionsAreIntact'
  <2>. SUFFICES ASSUME NEW c \in sessions'
                PROVE  Intact(Of(c), content, epoch, payload)'
    BY DEF SessionsAreIntact
  <2>1. c \in who /\ session'[c] = y[c].s /\ got'[c] = y[c].got
    BY <1>1 DEF Outcome
  <2>2. PICK x \in Client : x = y[c]
    BY <2>1
  <2>3. Intact(x, content', epoch', payload')
    BY <1>5, <2>1, <2>2, IntactSame
  <2>4. Of(c)'.s.queue = x.s.queue /\ Of(c)'.s.epoch = x.s.epoch /\ Of(c)'.got = x.got
    BY <2>1, <2>2 DEF Of
  <2>. QED
    BY <2>3, <2>4, IntactAlike
<1>7. \A b : Pinned(b)' => b = payload' \/ Pinned(b)
  <2>. SUFFICES ASSUME NEW b, NEW c \in sessions', b \in HeldBy(c)'
                PROVE  b = payload' \/ Pinned(b)
    BY DEF Pinned
  <2>1. c \in who /\ session'[c] = y[c].s
    BY <1>1 DEF Outcome
  <2>2. PICK i \in DOMAIN session'[c].queue : b = session'[c].queue[i]
    BY DEF HeldBy
  <2>. QED
    BY <2>1, <2>2
<1>. QED
  BY <1>2, <1>3, <1>5, <1>6, <1>7

(* An attached client pins what is queued for it.                          *)
LEMMA AttachedFacts ==
  ASSUME Typed, NEW c \in sessions
  PROVE  /\ c \in Clients /\ Of(c) \in Client
         /\ \A i \in DOMAIN Of(c).s.queue : Pinned(Of(c).s.queue[i])
<1>1. c \in Clients /\ Of(c) \in Client
  BY DEF Typed, ClientsTyped, Of, Client
<1>2. \A i \in DOMAIN Of(c).s.queue : Pinned(Of(c).s.queue[i])
  BY DEF Of, Pinned, HeldBy
<1>. QED
  BY <1>1, <1>2

(* What a lap meets, it meets of every client.                             *)
LEMMA MetFacts ==
  ASSUME NEW io \in Meetings(sessions), NEW c \in sessions
  PROVE  io[c] \in Poll
BY DEF Meetings, Met, Poll

(* A frame is written into one buffer.                                     *)
LEMMA StoreFacts ==
  ASSUME Typed, NEW f \in Readable, NEW b \in Buffers, NEW n \in Int
  PROVE  LET store == [content EXCEPT ![b] = [epoch |-> n, books |-> f]]
         IN  /\ store \in [Buffers -> Frame] /\ store[b] = [epoch |-> n, books |-> f]
             /\ \A o \in Buffers : o # b => store[o] = content[o]
<1>1. f \in [Venues -> Nat]
  BY Sizes DEF Readable
<1>2. [epoch |-> n, books |-> f] \in Frame
  BY <1>1 DEF Frame
<1>. QED
  BY <1>2 DEF Typed, CtxTyped

(* A step that leaves the buffers and the clients alone keeps what is said *)
(* of them.                                                                *)
LEMMA FramesAlike ==
  ASSUME Inv, UNCHANGED <<bufferVars, sessions, session, got>>, Serving' = Serving
  PROVE  ServingIsSound' /\ BuffersApart' /\ SessionsAreIntact' /\ AbsentAreDetached'
<1>1. UNCHANGED <<epoch, payload, pool, cooling, content>>
  BY DEF bufferVars, ctxVars
<1>2. InCooling' = InCooling /\ \A b : Pinned(b)' <=> Pinned(b)
  BY <1>1 DEF InCooling, Pinned, HeldBy
<1>3. ServingIsSound'
  BY <1>1 DEF Inv, ServingIsSound
<1>4. BuffersApart'
  BY <1>1, <1>2 DEF Inv, BuffersApart
<1>5. SessionsAreIntact'
  BY <1>1 DEF Inv, SessionsAreIntact, Of
<1>6. AbsentAreDetached'
  BY DEF Inv, AbsentAreDetached
<1>. QED
  BY <1>3, <1>4, <1>5, <1>6

(* The steps of a venue's publisher keep the invariant.                    *)
LEMMA PublisherStep ==
  ASSUME Inv, NEW v \in Venues,
         PublishStart(v) \/ DropStart(v) \/ UpdateReturns(v) \/ NotifyReader(v) \/ NotifierDrop(v)
  PROVE  Inv'
<1>1. /\ UNCHANGED <<updates, bpc, bufferVars, sessions, session, got, hungup, joins, filed, asked>>
      /\ Serving' = Serving
  BY DEF PublishStart, DropStart, UpdateReturns, NotifyReader, NotifierDrop, Publisher,
         clientVars, registryVars, Serving
<1>2. UNCHANGED <<epoch, payload, pool, cooling, content>>
  BY <1>1 DEF bufferVars, ctxVars
<1>3. CtxTyped' /\ ClientsTyped'
  BY <1>1, <1>2 DEF Inv, Typed, CtxTyped, ClientsTyped
<1>4. ServingIsSound' /\ BuffersApart' /\ SessionsAreIntact' /\ AbsentAreDetached'
  BY <1>1, FramesAlike
<1>5. ChannelTyped /\ PublishersAreSound /\ FrameIsFresh
  BY DEF Inv, Typed
<1>6. ChannelTyped' /\ PublishersAreSound' /\ FrameIsFresh'
  <2>1. CASE PublishStart(v)
    <3>1. /\ vpc[v] = "idle" /\ started' = [started EXCEPT ![v] = started[v] + 1]
          /\ vpc' = [vpc EXCEPT ![v] = "update"] /\ UNCHANGED <<published, parting, pending>>
      BY <2>1 DEF PublishStart
    <3>2. ChannelTyped'
      BY <1>1, <1>5, <3>1 DEF ChannelTyped
    <3>3. PublishersAreSound'
      BY <1>1, <1>5, <3>1 DEF ChannelTyped, PublishersAreSound
    <3>4. FrameIsFresh'
      BY <1>1, <1>2, <1>5, <3>1 DEF ChannelTyped, FrameIsFresh
    <3>. QED
      BY <3>2, <3>3, <3>4
  <2>2. CASE DropStart(v)
    <3>1. /\ vpc[v] = "idle" /\ started' = [started EXCEPT ![v] = started[v] + 1]
          /\ parting' = [parting EXCEPT ![v] = started[v] + 1]
          /\ vpc' = [vpc EXCEPT ![v] = "update"] /\ UNCHANGED <<published, pending>>
      BY <2>2 DEF DropStart
    <3>2. ChannelTyped'
      BY <1>1, <1>5, <3>1 DEF ChannelTyped
    <3>3. PublishersAreSound'
      BY <1>1, <1>5, <3>1 DEF ChannelTyped, PublishersAreSound
    <3>4. FrameIsFresh'
      BY <1>1, <1>2, <1>5, <3>1 DEF ChannelTyped, FrameIsFresh
    <3>. QED
      BY <3>2, <3>3, <3>4
  <2>3. CASE UpdateReturns(v)
    <3>1. /\ vpc[v] = "update" /\ published' = [published EXCEPT ![v] = started[v]]
          /\ vpc' = [vpc EXCEPT ![v] = "notify"] /\ UNCHANGED <<started, parting, pending>>
      BY <2>3 DEF UpdateReturns
    <3>2. ChannelTyped'
      BY <1>1, <1>5, <3>1 DEF ChannelTyped
    <3>3. PublishersAreSound'
      BY <1>1, <1>5, <3>1 DEF ChannelTyped, PublishersAreSound
    <3>4. FrameIsFresh'
      BY <1>1, <1>2, <1>5, <3>1 DEF ChannelTyped, FrameIsFresh
    <3>. QED
      BY <3>2, <3>3, <3>4
  <2>4. CASE NotifyReader(v)
    <3>1. /\ vpc[v] = "notify" /\ pending' = [pending EXCEPT ![v] = TRUE]
          /\ vpc' = [vpc EXCEPT ![v] = IF parting[v] # 0 THEN "depart" ELSE "idle"]
          /\ UNCHANGED <<started, published, parting>>
      BY <2>4 DEF NotifyReader
    <3>2. ChannelTyped'
      <4>1. (IF parting[v] # 0 THEN "depart" ELSE "idle") \in {"idle", "update", "notify", "depart", "gone"}
        OBVIOUS
      <4>. QED
        BY <1>1, <1>5, <3>1, <4>1 DEF ChannelTyped
    <3>3. /\ \A w \in Venues : w # v => vpc'[w] = vpc[w] /\ pending'[w] = pending[w]
          /\ pending'[v] /\ vpc'[v] = IF parting[v] # 0 THEN "depart" ELSE "idle"
      <4>1. pending'[v] = TRUE
        BY <1>5, <3>1 DEF ChannelTyped
      <4>. QED
        BY <1>5, <3>1, <4>1 DEF ChannelTyped
    <3>4. v \in updates
      BY <1>5, <3>1 DEF PublishersAreSound
    <3>5. PublishersAreSound'
      <4>. SUFFICES ASSUME NEW w \in Venues
                    PROVE  /\ vpc'[w] # "update" => started'[w] = published'[w]
                           /\ vpc'[w] = "idle" => parting'[w] = 0
                           /\ vpc'[w] \in {"depart", "gone"} => parting'[w] # 0
                           /\ parting'[w] # 0 => parting'[w] = started'[w]
                           /\ w \notin updates' => vpc'[w] = "gone" /\ ~pending'[w]
        BY DEF PublishersAreSound
      <4>1. CASE w = v
        BY <1>1, <1>5, <3>1, <3>3, <3>4, <4>1 DEF PublishersAreSound
      <4>2. CASE w # v
        BY <1>1, <1>5, <3>1, <3>3, <4>2 DEF PublishersAreSound
      <4>. QED
        BY <4>1, <4>2
    <3>6. FrameIsFresh'
      BY <1>1, <1>2, <1>5, <3>1, <3>3 DEF FrameIsFresh
    <3>. QED
      BY <3>2, <3>5, <3>6
  <2>5. CASE NotifierDrop(v)
    <3>1. /\ vpc[v] = "depart" /\ vpc' = [vpc EXCEPT ![v] = "gone"]
          /\ UNCHANGED <<started, published, parting, pending>>
      BY <2>5 DEF NotifierDrop
    <3>2. ChannelTyped'
      BY <1>1, <1>5, <3>1 DEF ChannelTyped
    <3>3. PublishersAreSound'
      BY <1>1, <1>5, <3>1 DEF ChannelTyped, PublishersAreSound
    <3>4. FrameIsFresh'
      BY <1>1, <1>2, <1>5, <3>1 DEF ChannelTyped, FrameIsFresh
    <3>. QED
      BY <3>2, <3>3, <3>4
  <2>. QED
    BY <2>1, <2>2, <2>3, <2>4, <2>5
<1>. QED
  BY <1>3, <1>4, <1>6 DEF Inv, Typed

(* Tail and Head of a sequence.                                            *)
LEMMA TailFacts ==
  ASSUME NEW S, NEW s \in Seq(S), s # <<>>
  PROVE  Head(s) \in S /\ Tail(s) \in Seq(S)
OBVIOUS

(* The steps that leave the frame and the clients alone ...                *)
QuietStep ==
  \/ Departure \/ JoinsClosed \/ Sweep \/ RegistryAnswers \/ Reject \/ Drained \/ EntryRemoved
  \/ \E c \in Clients : QueueJoin(c) \/ HangUp(c)
  \/ UNCHANGED vars

(* ... change where the broadcaster is, the joins, or which venues it      *)
(* polls ...                                                               *)
LEMMA QuietFacts ==
  ASSUME Inv, QuietStep
  PROVE  /\ UNCHANGED <<channelVars, pending, bufferVars, sessions, session, got>> /\ Serving' = Serving
         /\ bpc' \in {"start", "run", "asking", "close", "closing", "drain", "done"}
         /\ updates' \in {updates, updates \ Departed}
         /\ joins' \in Seq(Clients) /\ asked' \subseteq Clients /\ hungup' \subseteq Clients /\ filed' \in BOOLEAN
<1>0. /\ bpc \in {"start", "run", "asking", "close", "closing", "drain", "done"}
      /\ joins \in Seq(Clients) /\ asked \subseteq Clients /\ hungup \subseteq Clients /\ filed \in BOOLEAN
  BY DEF Inv, Typed, CtxTyped, ClientsTyped
<1>1. CASE Departure \/ JoinsClosed \/ Sweep \/ Drained
  BY <1>0, <1>1 DEF Departure, JoinsClosed, Sweep, Drained, BookReady, Serving, Env, clientVars
<1>2. CASE RegistryAnswers
  <2>1. /\ bpc = "asking" /\ UNCHANGED <<channelVars, asked, pending, updates, bufferVars, clientVars, joins>>
        /\ (bpc' = "close" /\ filed' = FALSE) \/ (bpc' = "run" /\ filed' = filed)
    BY <1>2, Zenon DEF RegistryAnswers, Env
  <2>2. bpc' \in {"close", "run"} /\ filed' \in BOOLEAN
    BY <1>0, <2>1
  <2>. QED
    BY <1>0, <2>1, <2>2 DEF Serving, clientVars
<1>3. CASE Reject
  <2>1. Tail(joins) \in Seq(Clients)
    BY <1>0, <1>3, TailFacts DEF Reject
  <2>. QED
    BY <1>0, <1>3, <2>1 DEF Reject, Serving, Env
<1>4. CASE EntryRemoved
  BY <1>0, <1>4 DEF EntryRemoved, Task, Serving
<1>5. CASE \E c \in Clients : QueueJoin(c) \/ HangUp(c)
  <2>1. PICK c \in Clients : QueueJoin(c) \/ HangUp(c)
    BY <1>5
  <2>2. Append(joins, c) \in Seq(Clients)
    BY <1>0
  <2>. QED
    BY <1>0, <2>1, <2>2 DEF QueueJoin, HangUp, Task, Serving, registryVars
<1>6. CASE UNCHANGED vars
  BY <1>0, <1>6 DEF vars, clientVars, registryVars, Serving
<1>. QED
  BY <1>1, <1>2, <1>3, <1>4, <1>5, <1>6 DEF QuietStep

(* ... and keep the invariant.                                             *)
LEMMA QuietKeeps ==
  ASSUME Inv, QuietStep
  PROVE  Inv'
<1>1. /\ UNCHANGED <<channelVars, pending, bufferVars, sessions, session, got>> /\ Serving' = Serving
      /\ bpc' \in {"start", "run", "asking", "close", "closing", "drain", "done"}
      /\ updates' \in {updates, updates \ Departed}
      /\ joins' \in Seq(Clients) /\ asked' \subseteq Clients /\ hungup' \subseteq Clients /\ filed' \in BOOLEAN
  BY QuietFacts
<1>2. UNCHANGED <<started, published, vpc, parting, pending, epoch, payload, pool, cooling, content>>
  BY <1>1 DEF channelVars, bufferVars, ctxVars
<1>3. ServingIsSound' /\ BuffersApart' /\ SessionsAreIntact' /\ AbsentAreDetached'
  BY <1>1, FramesAlike
<1>4. ChannelTyped'
  BY <1>1, <1>2 DEF Inv, Typed, ChannelTyped, Departed
<1>5. CtxTyped'
  BY <1>1, <1>2 DEF Inv, Typed, CtxTyped
<1>6. ClientsTyped'
  BY <1>1 DEF Inv, Typed, ClientsTyped
<1>7. PublishersAreSound'
  BY <1>1, <1>2 DEF Inv, PublishersAreSound, Departed
<1>8. FrameIsFresh'
  BY <1>1, <1>2 DEF Inv, FrameIsFresh
<1>. QED
  BY <1>3, <1>4, <1>5, <1>6, <1>7, <1>8 DEF Inv, Typed

(* The first frame keeps it.                                               *)
LEMMA StartKeeps ==
  ASSUME Inv, Start
  PROVE  Inv'
<1>1. /\ bpc = "start" /\ bpc' = "run" /\ payload' = Fresh
      /\ UNCHANGED <<channelVars, asked, pending, updates, epoch, pool, cooling, clientVars, joins, filed>>
  BY DEF Start, Env
<1>2. UNCHANGED <<started, published, vpc, parting, asked, pending, updates, epoch, pool, cooling,
                  sessions, session, got, hungup, joins, filed>>
  BY <1>1 DEF channelVars, clientVars
<1>3. PICK f \in Readable : content' = [content EXCEPT ![Fresh] = [epoch |-> 0, books |-> f]]
  BY DEF Start
<1>4. Typed /\ BuffersApart /\ SessionsAreIntact /\ AbsentAreDetached /\ PublishersAreSound
  BY DEF Inv
<1>5. Fresh \in Buffers
  BY <1>4, FreshFacts
<1>6. content' \in [Buffers -> Frame] /\ content'[payload'] = [epoch |-> 0, books |-> f]
  <2>1. \A b \in Buffers, n \in Int :
          LET store == [content EXCEPT ![b] = [epoch |-> n, books |-> f]]
          IN  store \in [Buffers -> Frame] /\ store[b] = [epoch |-> n, books |-> f]
    BY <1>4, StoreFacts
  <2>2. PICK b \in Buffers : b = Fresh
    BY <1>5
  <2>. QED
    BY <1>1, <1>3, <2>1, <2>2
<1>7. pool = {} /\ cooling = <<>> /\ sessions = {} /\ epoch = 0
  BY <1>1 DEF Inv, ServingIsSound, Serving
<1>8. Typed'
  BY <1>1, <1>2, <1>4, <1>5, <1>6 DEF Typed, ChannelTyped, CtxTyped, ClientsTyped
<1>9. PublishersAreSound'
  BY <1>2, <1>4 DEF PublishersAreSound
<1>10. ServingIsSound'
  BY <1>1, <1>2, <1>5, <1>6, <1>7 DEF ServingIsSound, Serving
<1>11. FrameIsFresh'
  <2>1. \A v \in Venues : f[v] \in {published[v], started[v]}
    BY DEF Readable
  <2>2. content'[payload'].books = f
    BY <1>6
  <2>. QED
    BY <1>2, <1>4, <2>1, <2>2 DEF FrameIsFresh, PublishersAreSound
<1>12. BuffersApart'
  <2>1. InCooling' = {} /\ pool' = {} /\ cooling' = <<>>
    BY <1>2, <1>7 DEF InCooling
  <2>2. Cardinality(pool') <= POOL /\ Len(cooling') <= COOLING
    BY <1>2, <1>4 DEF BuffersApart
  <2>. QED
    BY <2>1, <2>2 DEF BuffersApart
<1>13. SessionsAreIntact'
  BY <1>2, <1>7 DEF SessionsAreIntact
<1>14. AbsentAreDetached'
  BY <1>2, <1>4 DEF AbsentAreDetached
<1>. QED
  BY <1>8, <1>9, <1>10, <1>11, <1>12, <1>13, <1>14 DEF Inv

(* So does a publish: the frame is written where nobody reads, the one it  *)
(* supersedes cools, and every client is offered it.                       *)
LEMMA BookKeeps ==
  ASSUME Inv, Book
  PROVE  Inv'
<1>1. PICK f \in Readable, b \in pool \cup {Fresh}, left \in SUBSET pool, io \in Meetings(sessions) :
        LET store == [content EXCEPT ![b] = [epoch |-> epoch + 1, books |-> f]]
            cooled == Cool(left, payload)
        IN  /\ Get(b, left) /\ payload' = b
            /\ pool' = cooled.pool /\ cooling' = cooled.cooling
            /\ Polled(LAMBDA c : DeliverAndFlush(Of(c), epoch + 1, b, store, io[c]), updates' # {})
            /\ Stored(store)
  BY DEF Book
<1>. DEFINE store == [content EXCEPT ![b] = [epoch |-> epoch + 1, books |-> f]]
            r == Cool(left, payload)
            y == [c \in Clients |-> DeliverAndFlush(Of(c), epoch + 1, b, store, io[c])]
            who == {c \in sessions : updates' # {} => ~y[c].s.ended}
<1>2. /\ Typed /\ BuffersApart /\ SessionsAreIntact /\ PublishersAreSound
      /\ epoch \in Nat /\ epoch + 1 \in Nat /\ epoch + 1 \in Int
  BY DEF Inv, Typed, CtxTyped
<1>3. bpc = "run" /\ payload \in Buffers /\ content[payload].epoch = epoch
  BY DEF Book, BookReady, Inv, ServingIsSound, Serving
<1>4. /\ left \in SUBSET pool
      /\ b \in Buffers /\ b # payload /\ b \notin left /\ b \notin InCooling /\ ~Pinned(b)
  <2>1. Get(b, left)
    BY <1>1
  <2>. QED
    BY <1>2, <2>1, GetFacts
<1>5. /\ store \in [Buffers -> Frame] /\ store[b] = [epoch |-> epoch + 1, books |-> f]
      /\ \A o \in Buffers : o # b => store[o] = content[o]
  BY <1>2, <1>4, StoreFacts
<1>6. /\ r.pool \subseteq left \cup {o \in InCooling : ~Pinned(o)}
      /\ Cardinality(r.pool) <= POOL
      /\ r.cooling \in Seq(Buffers) /\ Len(r.cooling) <= COOLING
      /\ \A i \in DOMAIN r.cooling : r.cooling[i] \in InCooling \cup {payload} /\ r.cooling[i] \notin r.pool
      /\ \A i, j \in DOMAIN r.cooling : r.cooling[i] = r.cooling[j] => i = j
  BY <1>2, <1>3, <1>4, CoolFacts DEF Typed
<1>7. /\ payload' = b /\ pool' = r.pool /\ cooling' = r.cooling
      /\ Outcome(who, y) /\ Stored(store)
      /\ \A c \in who : c \in sessions /\ y[c] = DeliverAndFlush(Of(c), epoch + 1, b, store, io[c])
  <2>1. sessions \subseteq Clients
    BY <1>2 DEF Typed, ClientsTyped
  <2>2. /\ sessions' = {c \in sessions : updates' # {} => ~DeliverAndFlush(Of(c), epoch + 1, b, store, io[c]).s.ended}
        /\ session' = [c \in Clients |-> IF c \in sessions' THEN DeliverAndFlush(Of(c), epoch + 1, b, store, io[c]).s
                                                            ELSE Detached]
        /\ got' = [c \in Clients |-> IF c \in sessions' THEN DeliverAndFlush(Of(c), epoch + 1, b, store, io[c]).got
                                                        ELSE NoFrame]
    BY <1>1 DEF Polled, Kept
  <2>3. payload' = b /\ Stored(store) /\ pool' = r.pool /\ cooling' = r.cooling
    BY <1>1
  <2>. HIDE DEF store, r
  <2>4. \A c \in Clients : y[c] = DeliverAndFlush(Of(c), epoch + 1, b, store, io[c])
    OBVIOUS
  <2>5. who \subseteq Clients /\ sessions' = who
    BY <2>1, <2>2, <2>4
  <2>6. Outcome(who, y)
    BY <2>2, <2>4, <2>5 DEF Outcome
  <2>. QED
    BY <2>1, <2>3, <2>4, <2>6
<1>. HIDE DEF store, r, y
<1>8. /\ bpc' \in {"run", "asking", "close"} /\ epoch' = epoch + 1
      /\ pending' = [v \in Venues |-> pending[v] /\ v \notin Updated] /\ updates' = updates \ Departed
      /\ UNCHANGED <<started, published, vpc, parting, asked, joins, filed>>
      /\ hungup' \subseteq hungup
  <2>1. hungup' \subseteq hungup
    BY DEF Book, Polled, Kept
  <2>2. bpc' \in {"run", "asking", "close"}
    BY DEF Book, NextLap
  <2>. QED
    BY <2>1, <2>2 DEF Book, Env, channelVars
<1>9. \A c \in who : Reached(y[c], Of(c), store, epoch + 1, b)
  <2>. SUFFICES ASSUME NEW c \in who
                PROVE  Reached(y[c], Of(c), store, epoch + 1, b)
    OBVIOUS
  <2>1. c \in sessions /\ io[c] \in Poll
    BY <1>7, MetFacts
  <2>2. PICK o \in Poll : o = io[c] /\ y[c] = DeliverAndFlush(Of(c), epoch + 1, b, store, o)
    BY <1>7, <2>1
  <2>3. PICK x \in Client : x = Of(c) /\ \A i \in DOMAIN x.s.queue : Pinned(x.s.queue[i])
    BY <1>2, <2>1, AttachedFacts
  <2>4. Intact(x, content, epoch, payload)
    BY <1>2, <2>1, <2>3 DEF SessionsAreIntact
  <2>5. \A i \in DOMAIN x.s.queue : store[x.s.queue[i]] = content[x.s.queue[i]]
    BY <1>4, <1>5, <2>3, ClientFacts
  <2>6. Intact(x, store, epoch + 1, b)
    BY <1>2, <2>4, <2>5, IntactNext
  <2>7. store[b].epoch = epoch + 1
    BY <1>5
  <2>8. Reached(DeliverAndFlush(x, epoch + 1, b, store, o), x, store, epoch + 1, b)
    BY <1>2, <1>4, <1>5, <2>6, <2>7, PolledReaches
  <2>. QED
    BY <2>2, <2>3, <2>8
<1>10. /\ sessions' \subseteq Clients /\ session' \in [Clients -> Session] /\ got' \in [Clients -> Frame]
       /\ content' \in [Buffers -> Frame] /\ content'[payload'] = store[payload']
       /\ SessionsAreIntact' /\ AbsentAreDetached'
       /\ \A o : Pinned(o)' => o = payload' \/ Pinned(o)
  <2>1. \A c \in who : y[c] \in Client /\ Intact(y[c], store, epoch', payload')
    BY <1>7, <1>8, <1>9 DEF Reached
  <2>2. \A c \in who : \A i \in DOMAIN y[c].s.queue :
          y[c].s.queue[i] = payload' \/ Pinned(y[c].s.queue[i])
    <3>. SUFFICES ASSUME NEW c \in who, NEW i \in DOMAIN y[c].s.queue
                  PROVE  y[c].s.queue[i] = payload' \/ Pinned(y[c].s.queue[i])
      OBVIOUS
    <3>1. y[c].s.queue[i] = b \/ \E j \in DOMAIN Of(c).s.queue : y[c].s.queue[i] = Of(c).s.queue[j]
      BY <1>9 DEF Reached, Within
    <3>2. \A j \in DOMAIN Of(c).s.queue : Pinned(Of(c).s.queue[j])
      BY <1>2, <1>7, AttachedFacts
    <3>. QED
      BY <1>7, <3>1, <3>2
  <2>3. who \in SUBSET Clients
    BY <1>2 DEF Typed, ClientsTyped
  <2>. HIDE DEF who
  <2>. QED
    BY <1>4, <1>5, <1>7, <2>1, <2>2, <2>3, Settled
<1>11. content'[payload'] = [epoch |-> epoch + 1, books |-> f]
  BY <1>5, <1>7, <1>10
<1>12. ChannelTyped'
  BY <1>2, <1>8 DEF Typed, ChannelTyped
<1>13. CtxTyped'
  <2>1. pool' \subseteq Buffers
    BY <1>2, <1>4, <1>6, <1>7, CoolingFacts DEF Typed, CtxTyped
  <2>. QED
    BY <1>2, <1>4, <1>6, <1>7, <1>8, <1>10, <2>1 DEF CtxTyped
<1>14. ClientsTyped'
  BY <1>2, <1>8, <1>10 DEF Typed, ClientsTyped
<1>15. PublishersAreSound'
  <2>1. \A v \in Venues : v \notin updates' => vpc[v] = "gone" /\ ~pending[v]
    BY <1>2, <1>8 DEF PublishersAreSound, Departed
  <2>2. \A v \in Venues : pending'[v] => pending[v]
    BY <1>8
  <2>. QED
    BY <1>2, <1>8, <2>1, <2>2 DEF PublishersAreSound
<1>16. ServingIsSound'
  BY <1>4, <1>7, <1>8, <1>11 DEF ServingIsSound, Serving
<1>17. FrameIsFresh'
  <2>1. \A v \in Venues : f[v] \in {published[v], started[v]}
    BY DEF Readable
  <2>2. content'[payload'].books = f
    BY <1>11
  <2>. QED
    BY <1>2, <1>8, <2>1, <2>2 DEF FrameIsFresh, PublishersAreSound
<1>18. BuffersApart'
  <2>1. InCooling' \subseteq InCooling \cup {payload} /\ InCooling' \cap pool' = {}
    <3>1. InCooling' = {r.cooling[i] : i \in DOMAIN r.cooling}
      BY <1>7 DEF InCooling
    <3>. QED
      BY <1>6, <1>7, <3>1
  <2>2. payload' \notin pool' /\ payload' \notin InCooling'
    BY <1>4, <1>6, <1>7, <2>1
  <2>3. \A o \in pool' : ~Pinned(o)'
    BY <1>2, <1>4, <1>6, <1>7, <1>10, <2>2 DEF BuffersApart
  <2>4. \A i, j \in DOMAIN cooling' : cooling'[i] = cooling'[j] => i = j
    BY <1>6, <1>7
  <2>5. Cardinality(pool') <= POOL /\ Len(cooling') <= COOLING
    BY <1>6, <1>7
  <2>. QED
    BY <2>1, <2>2, <2>3, <2>4, <2>5 DEF BuffersApart
<1>. QED
  BY <1>10, <1>12, <1>13, <1>14, <1>15, <1>16, <1>17, <1>18 DEF Inv, Typed

(* A lap that serves clients the current frame keeps it ...                *)
LEMMA ClientsServed ==
  ASSUME Inv, Serving, Serving', NEW who \in SUBSET Clients, NEW y, Outcome(who, y),
         UNCHANGED <<channelVars, asked, pending, updates, ctxVars, filed>>,
         Stored(content) \/ content' = content,
         bpc' \in {"start", "run", "asking", "close", "closing", "drain", "done"},
         joins' \in Seq(Clients), hungup' \subseteq Clients,
         \A c \in who : /\ y[c] \in Client /\ Intact(y[c], content, epoch, payload)
                        /\ \A i \in DOMAIN y[c].s.queue :
                             y[c].s.queue[i] = payload \/ Pinned(y[c].s.queue[i])
  PROVE  Inv'
<1>1. UNCHANGED <<started, published, vpc, parting, pending, updates, asked, filed, epoch, payload, pool, cooling>>
  BY DEF channelVars, ctxVars
<1>2. Typed /\ BuffersApart /\ PublishersAreSound /\ FrameIsFresh /\ payload \in Buffers
      /\ content[payload].epoch = epoch
      /\ content \in [Buffers -> Frame]
  BY DEF Inv, ServingIsSound, Typed, CtxTyped
<1>3. /\ sessions' \subseteq Clients /\ session' \in [Clients -> Session] /\ got' \in [Clients -> Frame]
      /\ content' \in [Buffers -> Frame] /\ content'[payload] = content[payload]
      /\ SessionsAreIntact' /\ AbsentAreDetached'
      /\ \A b : Pinned(b)' => b = payload \/ Pinned(b)
  BY <1>1, <1>2, Settled
<1>4. Typed'
  BY <1>1, <1>2, <1>3 DEF Typed, ChannelTyped, CtxTyped, ClientsTyped
<1>5. PublishersAreSound'
  BY <1>1, <1>2 DEF PublishersAreSound
<1>6. ServingIsSound'
  BY <1>1, <1>2, <1>3 DEF ServingIsSound
<1>7. FrameIsFresh'
  BY <1>1, <1>2, <1>3 DEF FrameIsFresh
<1>8. BuffersApart'
  <2>1. InCooling' = InCooling
    BY <1>1 DEF InCooling
  <2>2. \A b \in pool' : ~Pinned(b)'
    BY <1>1, <1>2, <1>3 DEF BuffersApart
  <2>. QED
    BY <1>1, <1>2, <2>1, <2>2 DEF BuffersApart
<1>. QED
  BY <1>3, <1>4, <1>5, <1>6, <1>7, <1>8 DEF Inv

(* ... as every poll keeps its client, attached or new, intact: ...        *)
LEMMA ServedFacts ==
  ASSUME Inv, Serving, NEW c \in Clients, NEW io \in Poll,
         NEW y, \/ y = DeliverAndFlush(Of(c), epoch, payload, content, io)
                \/ y = PollProgress(Of(c), epoch, payload, content, io)
                \/ c \in sessions /\ y = Of(c)
  PROVE  /\ y \in Client /\ Intact(y, content, epoch, payload)
         /\ \A i \in DOMAIN y.s.queue : y.s.queue[i] = payload \/ Pinned(y.s.queue[i])
<1>1. /\ Typed /\ SessionsAreIntact /\ AbsentAreDetached /\ payload \in Buffers /\ content[payload].epoch = epoch
      /\ content \in [Buffers -> Frame] /\ epoch \in Nat
  BY DEF Inv, ServingIsSound, Typed, CtxTyped
<1>2. PICK x : x = Of(c)
  OBVIOUS
<1>3. /\ x \in Client /\ Intact(x, content, epoch, payload)
      /\ \A i \in DOMAIN x.s.queue : Pinned(x.s.queue[i])
  <2>1. CASE c \in sessions
    BY <1>1, <1>2, <2>1, AttachedFacts DEF SessionsAreIntact
  <2>2. CASE c \notin sessions
    <3>1. x = [s |-> Detached, got |-> NoFrame]
      BY <1>1, <1>2, <2>2 DEF Of, AbsentAreDetached
    <3>2. x \in Client
      BY <3>1, NoneIsTyped DEF Client
    <3>3. x.s.queue = <<>> /\ x.s.epoch = 0 /\ x.got = NoFrame
      BY <3>1 DEF Detached
    <3>4. Intact(x, content, epoch, payload)
      <4>1. Len(<<>>) <= Credit /\ 0 <= epoch + 1 /\ ~(0 > epoch)
        BY <1>1, Sizes
      <4>2. NoFrame.epoch <= 0 - 1
        BY DEF NoFrame
      <4>. QED
        BY <3>3, <4>1, <4>2 DEF Intact
    <3>. QED
      BY <3>2, <3>3, <3>4
  <2>. QED
    BY <2>1, <2>2
<1>4. CASE y = x
  BY <1>3, <1>4
<1>5. CASE \/ y = DeliverAndFlush(x, epoch, payload, content, io)
           \/ y = PollProgress(x, epoch, payload, content, io)
  <2>1. Reached(y, x, content, epoch, payload)
    BY <1>1, <1>3, <1>5, PolledReaches
  <2>. QED
    BY <1>3, <2>1 DEF Reached, Within
<1>. QED
  BY <1>2, <1>4, <1>5

(* ... a join, ...                                                         *)
LEMMA AttachKeeps ==
  ASSUME Inv, Attach
  PROVE  Inv'
<1>. DEFINE c == Head(joins)
<1>1. PICK io \in Met(c) :
        LET x == DeliverAndFlush(Of(c), epoch, payload, content, io)
        IN  Kept(IF x.s.ended THEN sessions ELSE sessions \cup {c},
                 LAMBDA o : IF o = c THEN x ELSE Of(o))
  BY DEF Attach
<1>. DEFINE x == DeliverAndFlush(Of(c), epoch, payload, content, io)
            who == IF x.s.ended THEN sessions ELSE sessions \cup {c}
            y == [o \in Clients |-> IF o = c THEN x ELSE Of(o)]
<1>2. /\ bpc = "run" /\ joins # <<>> /\ joins' = Tail(joins) /\ bpc' \in {"run", "asking"}
      /\ UNCHANGED <<channelVars, asked, pending, updates, bufferVars, filed>>
  BY DEF Attach, Env, NextLap
<1>3. UNCHANGED <<ctxVars, content>> /\ Serving /\ Serving'
  BY <1>2 DEF bufferVars, Serving
<1>4. joins \in Seq(Clients) /\ sessions \subseteq Clients /\ hungup \subseteq Clients
  BY DEF Inv, Typed, ClientsTyped
<1>5. c \in Clients /\ joins' \in Seq(Clients)
  BY <1>2, <1>4, TailFacts
<1>6. /\ sessions' = who
      /\ session' = [o \in Clients |-> IF o \in who THEN (IF o = c THEN x ELSE Of(o)).s ELSE Detached]
      /\ got' = [o \in Clients |-> IF o \in who THEN (IF o = c THEN x ELSE Of(o)).got ELSE NoFrame]
      /\ hungup' \subseteq hungup
  BY <1>1 DEF Kept
<1>. HIDE DEF c, x
<1>7. who \in SUBSET Clients
  BY <1>4, <1>5
<1>8. \A o \in Clients : y[o] = IF o = c THEN x ELSE Of(o)
  OBVIOUS
<1>9. Outcome(who, y)
  BY <1>6, <1>8 DEF Outcome
<1>10. io \in Poll
  BY DEF Met, Poll
<1>11. \A o \in who : /\ y[o] \in Client /\ Intact(y[o], content, epoch, payload)
                      /\ \A i \in DOMAIN y[o].s.queue :
                           y[o].s.queue[i] = payload \/ Pinned(y[o].s.queue[i])
  <2>. SUFFICES ASSUME NEW o \in who
                PROVE  /\ y[o] \in Client /\ Intact(y[o], content, epoch, payload)
                       /\ \A i \in DOMAIN y[o].s.queue :
                            y[o].s.queue[i] = payload \/ Pinned(y[o].s.queue[i])
    OBVIOUS
  <2>1. o \in Clients
    BY <1>7
  <2>2. \/ y[o] = DeliverAndFlush(Of(o), epoch, payload, content, io)
        \/ o \in sessions /\ y[o] = Of(o)
    BY <1>8, <2>1 DEF x
  <2>. QED
    BY <1>3, <1>10, <2>1, <2>2, ServedFacts
<1>12. hungup' \subseteq Clients
       /\ bpc' \in {"start", "run", "asking", "close", "closing", "drain", "done"}
       /\ UNCHANGED <<channelVars, asked, pending, updates, ctxVars, filed>>
  BY <1>2, <1>3, <1>4, <1>6
<1>. HIDE DEF who, y
<1>. QED
  BY <1>3, <1>5, <1>7, <1>9, <1>11, <1>12, ClientsServed

(* ... poll_sessions, and the polls of the way out.                        *)
LEMMA PollKeeps ==
  ASSUME Inv, NEW io \in Meetings(sessions), PollSessions(io) \/ PollClosing(io)
  PROVE  Inv'
<1>1. PICK prune \in BOOLEAN : Polled(LAMBDA c : PollProgress(Of(c), epoch, payload, content, io[c]), prune)
  BY DEF PollSessions, PollClosing
<1>2. /\ Serving /\ bpc' \in {"run", "asking", "closing"} /\ Stored(content)
      /\ UNCHANGED <<channelVars, asked, pending, updates, ctxVars, joins, filed>>
  BY DEF PollSessions, PollClosing, Env, NextLap, Serving
<1>3. Serving'
  BY <1>2 DEF Serving
<1>. DEFINE y == [c \in Clients |-> PollProgress(Of(c), epoch, payload, content, io[c])]
            who == {c \in sessions : prune => ~y[c].s.ended}
<1>4. joins \in Seq(Clients) /\ sessions \subseteq Clients /\ hungup \subseteq Clients
  BY DEF Inv, Typed, ClientsTyped
<1>5. /\ sessions' = {c \in sessions : prune => ~PollProgress(Of(c), epoch, payload, content, io[c]).s.ended}
      /\ session' = [c \in Clients |-> IF c \in sessions' THEN PollProgress(Of(c), epoch, payload, content, io[c]).s
                                                          ELSE Detached]
      /\ got' = [c \in Clients |-> IF c \in sessions' THEN PollProgress(Of(c), epoch, payload, content, io[c]).got
                                                      ELSE NoFrame]
      /\ hungup' \subseteq hungup
  BY <1>1 DEF Polled, Kept
<1>6. \A c \in Clients : y[c] = PollProgress(Of(c), epoch, payload, content, io[c])
  OBVIOUS
<1>7. who \in SUBSET Clients /\ sessions' = who
  BY <1>4, <1>5, <1>6
<1>8. Outcome(who, y)
  BY <1>5, <1>6, <1>7 DEF Outcome
<1>9. \A c \in who : /\ y[c] \in Client /\ Intact(y[c], content, epoch, payload)
                     /\ \A i \in DOMAIN y[c].s.queue :
                          y[c].s.queue[i] = payload \/ Pinned(y[c].s.queue[i])
  <2>. SUFFICES ASSUME NEW c \in who
                PROVE  /\ y[c] \in Client /\ Intact(y[c], content, epoch, payload)
                       /\ \A i \in DOMAIN y[c].s.queue :
                            y[c].s.queue[i] = payload \/ Pinned(y[c].s.queue[i])
    OBVIOUS
  <2>1. c \in Clients /\ io[c] \in Poll
    BY <1>4, MetFacts
  <2>2. y[c] = PollProgress(Of(c), epoch, payload, content, io[c])
    BY <1>6, <2>1
  <2>. QED
    BY <1>2, <2>1, <2>2, ServedFacts
<1>10. /\ hungup' \subseteq Clients /\ bpc' \in {"start", "run", "asking", "close", "closing", "drain", "done"}
       /\ UNCHANGED <<channelVars, asked, pending, updates, ctxVars, filed>> /\ joins' \in Seq(Clients)
  BY <1>2, <1>4, <1>5
<1>. HIDE DEF who, y
<1>. QED
  BY <1>2, <1>3, <1>7, <1>8, <1>9, <1>10, ClientsServed

(* The end of the streams begins, ...                                      *)
LEMMA BeginFinishKeeps ==
  ASSUME Inv, BeginFinish
  PROVE  Inv'
<1>1. /\ bpc = "close" /\ bpc' = "closing"
      /\ session' = [c \in Clients |-> IF c \in sessions /\ ~session[c].ended
                                       THEN [session[c] EXCEPT !.finishing = TRUE] ELSE session[c]]
      /\ UNCHANGED <<channelVars, asked, pending, updates, bufferVars, sessions, got, hungup, joins, filed>>
  BY DEF BeginFinish, Env
<1>2. UNCHANGED <<started, published, vpc, parting, epoch, payload, pool, cooling, content>>
      /\ Serving /\ Serving'
  BY <1>1 DEF channelVars, bufferVars, ctxVars, Serving
<1>3. /\ Typed /\ PublishersAreSound /\ ServingIsSound /\ FrameIsFresh
      /\ BuffersApart /\ SessionsAreIntact /\ AbsentAreDetached
  BY DEF Inv
<1>4. sessions \subseteq Clients /\ session \in [Clients -> Session]
  BY <1>3 DEF Typed, ClientsTyped
<1>5. \A c \in Clients : /\ session'[c] \in Session /\ session'[c].queue = session[c].queue
                         /\ session'[c].epoch = session[c].epoch
                         /\ c \notin sessions => session'[c] = session[c]
  <2>. SUFFICES ASSUME NEW c \in Clients
                PROVE  /\ session'[c] \in Session /\ session'[c].queue = session[c].queue
                       /\ session'[c].epoch = session[c].epoch
                       /\ c \notin sessions => session'[c] = session[c]
    OBVIOUS
  <2>1. PICK s \in Session : s = session[c]
    BY <1>4
  <2>2. /\ [s EXCEPT !.finishing = TRUE] \in Session /\ [s EXCEPT !.finishing = TRUE].queue = s.queue
        /\ [s EXCEPT !.finishing = TRUE].epoch = s.epoch
    BY DEF Session
  <2>3. session'[c] \in {s, [s EXCEPT !.finishing = TRUE]} /\ (c \notin sessions => session'[c] = s)
    BY <1>1, <2>1
  <2>. QED
    BY <2>1, <2>2, <2>3
<1>6. session' \in [Clients -> Session]
  BY <1>1, <1>5
<1>7. InCooling' = InCooling /\ \A b : Pinned(b)' <=> Pinned(b)
  <2>1. \A c \in sessions : session'[c].queue = session[c].queue
    BY <1>4, <1>5
  <2>2. \A c \in sessions : HeldBy(c)' = HeldBy(c)
    BY <2>1 DEF HeldBy
  <2>3. InCooling' = InCooling
    BY <1>2 DEF InCooling
  <2>. QED
    BY <1>1, <2>2, <2>3 DEF Pinned
<1>8. Typed'
  BY <1>1, <1>2, <1>3, <1>6 DEF Typed, ChannelTyped, CtxTyped, ClientsTyped
<1>9. PublishersAreSound' /\ ServingIsSound' /\ FrameIsFresh'
  <2>1. PublishersAreSound'
    BY <1>1, <1>2, <1>3 DEF PublishersAreSound
  <2>2. ServingIsSound'
    BY <1>1, <1>2, <1>3 DEF ServingIsSound
  <2>3. FrameIsFresh'
    BY <1>1, <1>2, <1>3 DEF FrameIsFresh
  <2>. QED
    BY <2>1, <2>2, <2>3
<1>10. BuffersApart'
  BY <1>1, <1>2, <1>3, <1>7 DEF BuffersApart
<1>11. SessionsAreIntact'
  <2>. SUFFICES ASSUME NEW c \in sessions
                PROVE  Intact(Of(c), content, epoch, payload)'
    BY <1>1 DEF SessionsAreIntact
  <2>1. Of(c)'.s.queue = Of(c).s.queue /\ Of(c)'.s.epoch = Of(c).s.epoch /\ Of(c)'.got = Of(c).got
    BY <1>1, <1>4, <1>5 DEF Of
  <2>2. Intact(Of(c), content, epoch, payload)
    BY <1>3 DEF SessionsAreIntact
  <2>3. Intact(Of(c)', content, epoch, payload)
    BY <2>1, <2>2, IntactAlike
  <2>. QED
    BY <1>2, <2>3
<1>12. AbsentAreDetached'
  BY <1>1, <1>3, <1>5 DEF AbsentAreDetached
<1>. QED
  BY <1>8, <1>9, <1>10, <1>11, <1>12 DEF Inv

(* ... and the sessions are dropped.                                       *)
LEMMA DropKeeps ==
  ASSUME Inv, SessionsDropped
  PROVE  Inv'
<1>1. /\ bpc' = "drain" /\ payload' = 0 /\ pool' = {} /\ cooling' = <<>> /\ epoch' = 0
      /\ content' = [b \in Buffers |-> NoFrame]
      /\ UNCHANGED <<channelVars, asked, pending, updates, joins, filed>>
      /\ sessions' = {} /\ session' = [c \in Clients |-> Detached] /\ got' = [c \in Clients |-> NoFrame]
      /\ hungup' \subseteq hungup
  BY DEF SessionsDropped, Drain, Env, Kept
<1>2. UNCHANGED <<started, published, vpc, parting>> /\ ~Serving'
  BY <1>1 DEF channelVars, Serving
<1>3. Typed /\ PublishersAreSound
  BY DEF Inv
<1>4. Typed'
  BY <1>1, <1>2, <1>3, NoneIsTyped DEF Typed, ChannelTyped, CtxTyped, ClientsTyped
<1>5. PublishersAreSound'
  BY <1>1, <1>2, <1>3 DEF PublishersAreSound
<1>6. ServingIsSound' /\ FrameIsFresh' /\ SessionsAreIntact' /\ AbsentAreDetached'
  BY <1>1, <1>2 DEF ServingIsSound, FrameIsFresh, SessionsAreIntact, AbsentAreDetached
<1>7. BuffersApart'
  <2>1. InCooling' = {}
    BY <1>1 DEF InCooling
  <2>2. Cardinality({}) = 0 /\ Len(<<>>) = 0 /\ 0 <= POOL /\ 0 <= COOLING
    BY FS_EmptySet, Sizes
  <2>. QED
    BY <1>1, <2>1, <2>2 DEF BuffersApart
<1>. QED
  BY <1>4, <1>5, <1>6, <1>7 DEF Inv

-----------------------------------------------------------------------------
(* The theorems *)

(* The invariant holds at the start.                                       *)
LEMMA InitHolds ==
  Init => Inv
<1>. SUFFICES ASSUME Init
              PROVE  Inv
  OBVIOUS
<1>1. Typed
  BY NoneIsTyped DEF Init, Typed, ChannelTyped, CtxTyped, ClientsTyped
<1>2. PublishersAreSound
  BY DEF Init, PublishersAreSound
<1>3. ServingIsSound /\ FrameIsFresh /\ SessionsAreIntact /\ AbsentAreDetached
  BY DEF Init, ServingIsSound, FrameIsFresh, SessionsAreIntact, AbsentAreDetached, Serving
<1>4. BuffersApart
  <2>1. InCooling = {}
    BY DEF InCooling, Init
  <2>2. Cardinality({}) = 0 /\ Len(<<>>) = 0 /\ 0 <= POOL /\ 0 <= COOLING
    BY FS_EmptySet, Sizes
  <2>. QED
    BY <2>1, <2>2 DEF BuffersApart, Init
<1>. QED
  BY <1>1, <1>2, <1>3, <1>4 DEF Inv

(* It holds of every behaviour, for any venues and clients, any bound on   *)
(* the updates, and any capacity of the pool, the cooling list and the     *)
(* queues.                                                                 *)
THEOREM FanoutInvariant ==
  Spec => []Inv
<1>1. Inv /\ [Next]_vars => Inv'
  <2>. SUFFICES ASSUME Inv, [Next]_vars
                PROVE  Inv'
    OBVIOUS
  <2>1. CASE \E v \in Venues : PublishStart(v) \/ DropStart(v) \/ Publishing(v)
    BY <2>1, PublisherStep DEF Publishing
  <2>2. CASE Start
    BY <2>2, StartKeeps
  <2>3. CASE Book
    BY <2>3, BookKeeps
  <2>4. CASE Attach
    BY <2>4, AttachKeeps
  <2>5. CASE Polls
    BY <2>5, PollKeeps DEF Polls
  <2>6. CASE BeginFinish
    BY <2>6, BeginFinishKeeps
  <2>7. CASE SessionsDropped
    BY <2>7, DropKeeps
  <2>8. CASE QuietStep
    BY <2>8, QuietKeeps
  <2>. QED
    BY <2>1, <2>2, <2>3, <2>4, <2>5, <2>6, <2>7, <2>8 DEF Next, Running, Ending, QuietStep
<1>. QED
  BY InitHolds, <1>1, PTL DEF Spec

(* A client reads whole books, in the order they were merged in and none   *)
(* twice: no buffer is written while a connection holds a frame in it. A   *)
(* client that needs no book has been given the newest.                    *)
THEOREM FramesStayIntact ==
  Spec => []FramesAreIntact
<1>1. Inv => FramesAreIntact
  <2>. SUFFICES ASSUME Inv
                PROVE  FramesAreIntact
    OBVIOUS
  <2>1. /\ {payload} \cap pool = {} /\ {payload} \cap InCooling = {} /\ pool \cap InCooling = {}
        /\ \A i, j \in DOMAIN cooling : cooling[i] = cooling[j] => i = j
        /\ \A b \in pool : ~Pinned(b)
    BY DEF Inv, BuffersApart
  <2>2. ASSUME NEW c \in sessions
        PROVE  LET q == session[c].queue
                   sent == <<got[c]>> \o [i \in DOMAIN q |-> content[q[i]]]
               IN  /\ \A i, j \in DOMAIN sent : i < j => sent[i].epoch < sent[j].epoch
                   /\ q # <<>> => sent[Len(sent)].epoch = session[c].epoch - 1
                   /\ session[c].epoch > epoch => sent[Len(sent)] = content[payload]
    <3>. DEFINE q == session[c].queue
                w == [i \in DOMAIN q |-> content[q[i]]]
                sent == <<got[c]>> \o w
    <3>1. /\ q \in Seq(Buffers) /\ Len(q) \in Nat /\ DOMAIN q = 1 .. Len(q) /\ \A i \in DOMAIN q : q[i] \in Buffers
          /\ got[c] \in Frame /\ content \in [Buffers -> Frame]
          /\ q = <<>> <=> Len(q) = 0
      BY ClientFacts, AttachedFacts DEF Inv, Typed, CtxTyped, ClientsTyped, Of
    <3>2. /\ \A i \in DOMAIN q : got[c].epoch < content[q[i]].epoch
          /\ \A i, j \in DOMAIN q : i < j => content[q[i]].epoch < content[q[j]].epoch
          /\ q # <<>> => content[q[Len(q)]].epoch = session[c].epoch - 1
          /\ session[c].epoch > epoch => IF q = <<>> THEN got[c] = content[payload]
                                                     ELSE content[q[Len(q)]] = content[payload]
      BY DEF Inv, SessionsAreIntact, Intact, Of
    <3>. HIDE DEF q
    <3>3. w \in Seq(Frame) /\ Len(w) = Len(q) /\ \A i \in 1 .. Len(q) : w[i] = content[q[i]]
      BY <3>1
    <3>. HIDE DEF w
    <3>4. /\ sent \in Seq(Frame) /\ Len(sent) = Len(q) + 1 /\ sent[1] = got[c]
          /\ \A i \in 2 .. Len(q) + 1 : i - 1 \in 1 .. Len(q) /\ sent[i] = w[i - 1]
      <4>1. <<got[c]>> \in Seq(Frame) /\ Len(<<got[c]>>) = 1 /\ <<got[c]>>[1] = got[c]
        BY <3>1
      <4>2. PICK g \in Seq(Frame) : g = <<got[c]>> /\ Len(g) = 1 /\ g[1] = got[c]
        BY <4>1
      <4>3. /\ g \o w \in Seq(Frame) /\ Len(g \o w) = 1 + Len(w)
            /\ \A i \in 1 .. 1 + Len(w) : (g \o w)[i] = IF i <= 1 THEN g[i] ELSE w[i - 1]
        BY <3>3, <4>2, ConcatProperties
      <4>4. 1 + Len(w) = Len(q) + 1 /\ 1 \in 1 .. 1 + Len(w)
        BY <3>1, <3>3
      <4>5. \A i \in 2 .. Len(q) + 1 : i - 1 \in 1 .. Len(q) /\ i \in 1 .. 1 + Len(w) /\ ~(i <= 1)
        BY <3>1, <3>3
      <4>. QED
        BY <4>2, <4>3, <4>4, <4>5
    <3>. HIDE DEF sent
    <3>5. DOMAIN sent = 1 .. Len(q) + 1
      BY <3>4
    <3>6. \A i, j \in DOMAIN sent : i < j => sent[i].epoch < sent[j].epoch
      <4>. SUFFICES ASSUME NEW i \in DOMAIN sent, NEW j \in DOMAIN sent, i < j
                    PROVE  sent[i].epoch < sent[j].epoch
        OBVIOUS
      <4>1. j \in 2 .. Len(q) + 1 /\ j - 1 \in DOMAIN q /\ sent[j] = content[q[j - 1]]
        BY <3>1, <3>3, <3>4, <3>5
      <4>2. CASE i = 1
        BY <3>2, <3>4, <4>1, <4>2
      <4>3. CASE i # 1
        <5>1. i \in 2 .. Len(q) + 1 /\ i - 1 \in DOMAIN q /\ sent[i] = content[q[i - 1]]
              /\ i - 1 < j - 1
          BY <3>1, <3>3, <3>4, <3>5, <4>3
        <5>. QED
          BY <3>2, <4>1, <5>1
      <4>. QED
        BY <4>2, <4>3
    <3>7. sent[Len(sent)] = IF q = <<>> THEN got[c] ELSE content[q[Len(q)]]
      <4>1. CASE q = <<>>
        BY <3>1, <3>4, <4>1
      <4>2. CASE q # <<>>
        <5>1. Len(q) + 1 \in 2 .. Len(q) + 1 /\ Len(q) + 1 - 1 = Len(q) /\ Len(q) \in 1 .. Len(q)
          BY <3>1, <4>2
        <5>. QED
          BY <3>3, <3>4, <4>2, <5>1
      <4>. QED
        BY <4>1, <4>2
    <3>. QED
      BY <3>2, <3>6, <3>7 DEF sent, w, q
  <2>. QED
    BY <2>1, <2>2 DEF FramesAreIntact
<1>. QED
  BY FanoutInvariant, <1>1, PTL

(* A broadcaster with nothing to be woken for has the newest book of every *)
(* venue that is between publishes in its frame, and of a venue it stopped *)
(* polling the empty book.                                                 *)
THEOREM FramesAreNewest ==
  Spec => []FrameIsNewest
<1>1. Inv => FrameIsNewest
  <2>. SUFFICES ASSUME Inv, Serving, NEW v \in Venues
                PROVE  /\ vpc[v] \in {"idle", "gone"} /\ ~pending[v] => content[payload].books[v] = published[v]
                       /\ v \notin updates => parting[v] # 0 /\ content[payload].books[v] = parting[v]
    BY DEF FrameIsNewest, Serving
  <2>. QED
    BY DEF Inv, FrameIsFresh, PublishersAreSound
<1>. QED
  BY FanoutInvariant, <1>1, PTL
=============================================================================
