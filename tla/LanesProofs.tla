---------------------------- MODULE LanesProofs ----------------------------
(***************************************************************************)
(* Proofs about Lanes, for any symbols and sizes: the lanes' tables follow *)
(* the router's, a symbol has one slot, and a subscribe has one answer.    *)
(***************************************************************************)
EXTENDS Lanes, FiniteSetTheorems, WellFoundedInduction, TLAPS

(* A command or request that subscribes.                                   *)
IsSub(c) == c.op = "Subscribe"

(* What the supervisor sends to a lane.                                    *)
Command ==
  [op : {"Subscribe"}, sym : Symbols, id : Ids] \cup [op : {"Unsubscribe"}, sym : Symbols]

(* What callers send to the supervisor.                                    *)
Request == [op : {"Subscribe", "Unsubscribe"}, sym : Symbols, id : Ids] \cup {ShutDown}

(* The supervisor on its way through a new listing ...                     *)
Retiring == [at : {"retiring"}, gone : Seq(Symbols), fresh : SUBSET Symbols]

(* ... with a subscribe in hand ...                                        *)
Subscribing == [at : {"subscribing"}, sym : Symbols, id : Ids, lane : Lane, attempt : {0, 1}]

(* ... with an unsubscribe in hand ...                                     *)
Unsubscribing == [at : {"unsubscribing"}, sym : Symbols, lane : Lane]

(* ... and after a shutdown.                                               *)
Ended == sup.at \in {"stopping", "stopped"}

(* The types of the listings ...                                           *)
ListingTyped == channel \in Seq(SUBSET Symbols) /\ listed \subseteq Symbols

(* ... of the requests and their answers ...                               *)
RequestsTyped ==
  /\ requests \in Seq(Request) /\ sent \in 0 .. MaxRequests
  /\ answer \in [Ids -> {"none", "asked", "refused", "reader", "dropped"}]

(* ... of the router's two tables: a binding is to a lane it holds ...     *)
RouterTyped ==
  /\ opened \in Nat
  /\ DOMAIN lanes \subseteq 1 .. opened /\ DOMAIN lanes \subseteq Lane
  /\ lanes \in [DOMAIN lanes -> Nat]
  /\ Routed \subseteq Symbols /\ bySymbol \in [Routed -> DOMAIN lanes]

(* ... of the lanes' tasks ...                                             *)
LanesTyped ==
  /\ task \in [Lane -> {"none", "running", "ended"}]
  /\ queue \in [Lane -> Seq(Command)]
  /\ slots \in [Lane -> SUBSET Symbols]

(* ... and of the supervisor.                                              *)
SupTyped == sup \in {Idle, Stopping, Stopped} \cup Retiring \cup Subscribing \cup Unsubscribing

(* The type invariant.                                                     *)
Typed == ListingTyped /\ RequestsTyped /\ RouterTyped /\ LanesTyped /\ SupTyped

(* What the supervisor has in hand fits the router: it retires what the    *)
(* new listing lacks, each once; it subscribes what is listed and unbound, *)
(* on a lane with room; it unsubscribes what is unbound; and it has ended  *)
(* with nothing bound.                                                     *)
HandFits ==
  /\ sup.at = "retiring" =>
       /\ {sup.gone[k] : k \in DOMAIN sup.gone} = Routed \ sup.fresh
       /\ \A j, k \in DOMAIN sup.gone : sup.gone[j] = sup.gone[k] => j = k
  /\ sup.at = "subscribing" =>
       sup.sym \in listed \ Routed /\ Held(sup.lane) /\ lanes[sup.lane] < Capacity
  /\ sup.at = "unsubscribing" => sup.sym \notin Routed /\ Held(sup.lane)
  /\ Ended => Routed = {} /\ DOMAIN lanes = {}

(* Between listings, only what is listed is bound.                         *)
ListingHolds == sup.at \in {"idle", "subscribing", "unsubscribing"} => Routed \subseteq listed

(* A lane has a task once it is opened; one that has ended left nothing.   *)
TasksMatch ==
  \A l \in Lane : /\ task[l] = "none" <=> opened < l
                  /\ task[l] # "running" => queue[l] = <<>> /\ slots[l] = {}

(* A lane's count is the number of its bindings.                           *)
LoadsAreRight == \A l \in DOMAIN lanes : lanes[l] = Cardinality(Bound(l))

(* A lane's table, once it has worked off its queue, is what the router    *)
(* has bound to it and what the supervisor is about to.                    *)
TablesFollow == ~Ended => \A l \in Running : AfterQueue(l) = Bound(l) \cup InHand(l)

(* No symbol comes to be in two tables.                                    *)
TablesApart == \A k, l \in Lane : k # l => AfterQueue(k) \cap AfterQueue(l) = {}

(* No table outgrows its capacity, at any point of its queue ...           *)
TablesFit == \A l \in Lane : \A n \in 0 .. Len(queue[l]) : Cardinality(After(l, n)) <= Capacity

(* ... nor subscribes what it has.                                         *)
SubscribesAreNew ==
  \A l \in Lane : \A n \in DOMAIN queue[l] :
    IsSub(queue[l][n]) => queue[l][n].sym \notin After(l, n - 1)

(* A request that carries a symbol waits at place k.                       *)
Asks(k) == k \in DOMAIN requests /\ requests[k] # ShutDown

(* A subscribe waits at place n of lane l's queue.                         *)
Queued(l, n) == n \in DOMAIN queue[l] /\ IsSub(queue[l][n])

(* A request is in one place: among the requests, in hand, or in a queue.  *)
OneToken ==
  /\ \A j, k : Asks(j) /\ Asks(k) /\ requests[j].id = requests[k].id => j = k
  /\ sup.at = "subscribing" => \A k : Asks(k) => requests[k].id # sup.id
  /\ \A l \in Lane : \A n : Queued(l, n) =>
       /\ \A k : Asks(k) => requests[k].id # queue[l][n].id
       /\ sup.at = "subscribing" => sup.id # queue[l][n].id
       /\ \A m \in Lane : \A k : Queued(m, k) /\ queue[m][k].id = queue[l][n].id => m = l /\ k = n

(* Where there is one it is answered nowhere yet, and it is one of those   *)
(* sent.                                                                   *)
TokensAnswered ==
  /\ \A k : Asks(k) => /\ requests[k].id <= sent
                       /\ answer[requests[k].id] = IF IsSub(requests[k]) THEN "asked" ELSE "none"
  /\ sup.at = "subscribing" => sup.id <= sent /\ answer[sup.id] = "asked"
  /\ \A l \in Lane : \A n : Queued(l, n) =>
       queue[l][n].id <= sent /\ answer[queue[l][n].id] = "asked"
  /\ \A i \in Ids : sent < i => answer[i] = "none"

(* And one that waits for its answer is somewhere.                         *)
AskedAreSomewhere ==
  \A i \in Ids : answer[i] = "asked" =>
    \/ \E k : Asks(k) /\ IsSub(requests[k]) /\ requests[k].id = i
    \/ sup.at = "subscribing" /\ sup.id = i
    \/ \E l \in Lane : \E n : Queued(l, n) /\ queue[l][n].id = i

-----------------------------------------------------------------------------
(* Sequences *)

(* Tail takes the first element away and moves the others up.              *)
LEMMA TailFacts ==
  ASSUME NEW S, NEW s \in Seq(S), s # <<>>
  PROVE  /\ Tail(s) \in Seq(S) /\ Len(Tail(s)) + 1 = Len(s) /\ Head(s) = s[1] /\ Head(s) \in S
         /\ 1 \in DOMAIN s
         /\ \A i \in DOMAIN Tail(s) : i + 1 \in DOMAIN s /\ Tail(s)[i] = s[i + 1] /\ i \in Nat \ {0}
         /\ \A i \in DOMAIN s : i # 1 => i - 1 \in DOMAIN Tail(s) /\ Tail(s)[i - 1] = s[i]
OBVIOUS

(* Append puts one after them.                                             *)
LEMMA AppendFacts ==
  ASSUME NEW S, NEW s \in Seq(S), NEW e \in S
  PROVE  /\ Append(s, e) \in Seq(S) /\ Len(Append(s, e)) = Len(s) + 1 /\ Len(s) \in Nat
         /\ \A i \in DOMAIN Append(s, e) : /\ i \in Nat
                                           /\ \/ i \in DOMAIN s /\ Append(s, e)[i] = s[i]
                                              \/ i = Len(s) + 1 /\ Append(s, e)[i] = e
         /\ \A i \in DOMAIN s : i \in DOMAIN Append(s, e) /\ Append(s, e)[i] = s[i] /\ i < Len(s) + 1
         /\ Len(s) + 1 \in DOMAIN Append(s, e) /\ Append(s, e)[Len(s) + 1] = e
<1>1. Append(s, e) \in Seq(S) /\ Len(Append(s, e)) = Len(s) + 1 /\ Append(s, e)[Len(s) + 1] = e
  OBVIOUS
<1>2. \A i \in 1 .. Len(s) : Append(s, e)[i] = s[i]
  OBVIOUS
<1>3. DOMAIN s = 1 .. Len(s) /\ DOMAIN Append(s, e) = 1 .. Len(s) + 1 /\ Len(s) \in Nat
  BY <1>1
<1>. QED
  BY <1>1, <1>2, <1>3

-----------------------------------------------------------------------------
(* Where a table ends up *)

(* The table S after the first n commands of q: of a symbol that is named  *)
(* the last command decides.                                               *)
Through(q, S, n) ==
  LET naming(s) == {k \in 1 .. n : q[k].sym = s}
  IN  {s \in Symbols :
         \/ naming(s) = {} /\ s \in S
         \/ \E k \in naming(s) : /\ q[k].op = "Subscribe"
                                 /\ \A j \in naming(s) : j <= k}

(* It is what After says of a lane.                                        *)
LEMMA AfterIsThrough ==
  ASSUME NEW l, NEW n
  PROVE  /\ After(l, n) = Through(queue[l], slots[l], n)
         /\ After(l, n)' = Through(queue'[l], slots'[l], n)
         /\ AfterQueue(l) = Through(queue[l], slots[l], Len(queue[l]))
         /\ AfterQueue(l)' = Through(queue'[l], slots'[l], Len(queue'[l]))
BY DEF After, AfterQueue, Through

(* No command changes nothing.                                             *)
LEMMA ThroughNone ==
  ASSUME NEW q, NEW S \in SUBSET Symbols
  PROVE  Through(q, S, 0) = S
BY DEF Through

(* The first commands do not see one that is appended ...                  *)
LEMMA ThroughPrefix ==
  ASSUME NEW q \in Seq(Command), NEW c \in Command, NEW S, NEW n \in 0 .. Len(q)
  PROVE  Through(Append(q, c), S, n) = Through(q, S, n)
<1>. DEFINE p == Append(q, c)
<1>1. Len(q) \in Nat /\ \A k \in 1 .. Len(q) : p[k] = q[k]
  BY AppendFacts
<1>. HIDE DEF p
<1>2. \A k \in 1 .. n : p[k] = q[k]
  BY <1>1
<1>3. \A s : {k \in 1 .. n : p[k].sym = s} = {k \in 1 .. n : q[k].sym = s}
  BY <1>2
<1>4. Through(p, S, n) = Through(q, S, n)
  BY <1>2, <1>3 DEF Through
<1>. QED
  BY <1>4 DEF p

(* ... which comes to bear on what they leave.                             *)
LEMMA ThroughAppend ==
  ASSUME NEW q \in Seq(Command), NEW c \in Command, NEW S
  PROVE  Through(Append(q, c), S, Len(q) + 1)
           = IF IsSub(c) THEN Through(q, S, Len(q)) \cup {c.sym} ELSE Through(q, S, Len(q)) \ {c.sym}
<1>. DEFINE p == Append(q, c)
            m == Len(q)
<1>1. m \in Nat /\ p[m + 1] = c /\ \A k \in 1 .. m : p[k] = q[k]
  BY AppendFacts
<1>2. c.sym \in Symbols
  BY DEF Command
<1>. HIDE DEF p, m
<1>4. ASSUME NEW s \in Symbols, s # c.sym
      PROVE  s \in Through(p, S, m + 1) <=> s \in Through(q, S, m)
  <2>1. {k \in 1 .. m + 1 : p[k].sym = s} = {k \in 1 .. m : q[k].sym = s}
    BY <1>1, <1>4
  <2>2. \A k \in {k \in 1 .. m : q[k].sym = s} : p[k] = q[k]
    BY <1>1
  <2>. QED
    BY <2>1, <2>2 DEF Through
<1>5. c.sym \in Through(p, S, m + 1) <=> IsSub(c)
  <2>. DEFINE K == {k \in 1 .. m + 1 : p[k].sym = c.sym}
  <2>1. m + 1 \in K /\ \A j \in K : j \in Nat /\ j <= m + 1
    BY <1>1
  <2>2. \A k \in K : (\A j \in K : j <= k) <=> k = m + 1
    BY <1>1, <2>1
  <2>3. c.sym \in Through(p, S, m + 1) <=>
          (K = {} /\ c.sym \in S) \/ \E k \in K : p[k].op = "Subscribe" /\ \A j \in K : j <= k
    BY <1>2 DEF Through
  <2>. HIDE DEF K
  <2>. QED
    BY <1>1, <2>1, <2>3 DEF IsSub
<1>6. Through(p, S, m + 1) \subseteq Symbols /\ Through(q, S, m) \subseteq Symbols
  BY DEF Through
<1>7. Through(p, S, m + 1) = IF IsSub(c) THEN Through(q, S, m) \cup {c.sym} ELSE Through(q, S, m) \ {c.sym}
  BY <1>2, <1>4, <1>5, <1>6
<1>. QED
  BY <1>7 DEF p, m

(* To work off the first command and then the others is to work them all   *)
(* off.                                                                    *)
LEMMA ThroughTail ==
  ASSUME NEW q \in Seq(Command), q # <<>>, NEW S \in SUBSET Symbols, NEW n \in Nat, n < Len(q)
  PROVE  Through(Tail(q), IF IsSub(q[1]) THEN S \cup {q[1].sym} ELSE S \ {q[1].sym}, n)
           = Through(q, S, n + 1)
<1>. DEFINE p == Tail(q)
            T == IF IsSub(q[1]) THEN S \cup {q[1].sym} ELSE S \ {q[1].sym}
<1>1. \A k \in 1 .. n : p[k] = q[k + 1] /\ k + 1 \in 1 .. n + 1
  BY TailFacts
<1>2. ASSUME NEW s \in Symbols
      PROVE  s \in Through(p, T, n) <=> s \in Through(q, S, n + 1)
  <2>. DEFINE P == {k \in 1 .. n : p[k].sym = s}
              Q == {k \in 1 .. n + 1 : q[k].sym = s}
  <2>1. /\ s \in Through(p, T, n) <=>
             (P = {} /\ s \in T) \/ \E k \in P : p[k].op = "Subscribe" /\ \A j \in P : j <= k
        /\ s \in Through(q, S, n + 1) <=>
             (Q = {} /\ s \in S) \/ \E k \in Q : q[k].op = "Subscribe" /\ \A j \in Q : j <= k
    BY <1>2 DEF Through
  <2>2. \A k \in P : k + 1 \in Q /\ p[k] = q[k + 1] /\ k \in Nat /\ k >= 1
    BY <1>1
  <2>3. \A k \in Q : k \in Nat /\ (k = 1 \/ k - 1 \in P)
    <3>1. \A k \in 1 .. n + 1 : k = 1 \/ (k - 1 \in 1 .. n /\ p[k - 1] = q[k])
      BY <1>1
    <3>. QED
      BY <3>1
  <2>4. 1 \in Q <=> q[1].sym = s
    OBVIOUS
  <2>. HIDE DEF P, Q, p
  <2>5. CASE P = {}
    <3>1. \A k \in Q : k = 1
      BY <2>3, <2>5
    <3>. QED
      BY <2>1, <2>4, <2>5, <3>1 DEF IsSub
  <2>6. CASE P # {}
    <3>1. Q # {} /\ \E j \in Q : j >= 2
      BY <2>2, <2>6
    <3>2. ASSUME NEW k \in P, \A j \in P : j <= k
          PROVE  \A j \in Q : j <= k + 1
      BY <2>2, <2>3, <3>2
    <3>3. ASSUME NEW k \in Q, \A j \in Q : j <= k
          PROVE  k - 1 \in P /\ p[k - 1] = q[k] /\ \A j \in P : j <= k - 1
      <4>1. k \in Nat /\ k # 1
        BY <2>3, <3>1, <3>3
      <4>2. k - 1 \in P
        BY <2>3, <4>1
      <4>3. p[k - 1] = q[k]
        BY <2>2, <4>1, <4>2
      <4>4. \A j \in P : j <= k - 1
        BY <2>2, <3>3, <4>1
      <4>. QED
        BY <4>2, <4>3, <4>4
    <3>. QED
      BY <2>1, <2>2, <2>6, <3>2, <3>3
  <2>. QED
    BY <2>5, <2>6
<1>. QED
  BY <1>2 DEF Through

-----------------------------------------------------------------------------
(* The state *)

(* A set of naturals has a least element ...                               *)
LEMMA LeastNatural ==
  ASSUME NEW T, T \subseteq Nat, T # {}
  PROVE  \E x \in T : \A y \in T : x <= y
<1>1. PICK x \in T : \A y \in T : ~(<<y, x>> \in OpToRel(<, Nat))
  BY NatLessThanWellFounded, WFMin
<1>2. \A y \in T : ~(y < x)
  BY <1>1 DEF OpToRel
<1>. QED
  BY <1>2

(* ... which is what the search for a lane finds.                          *)
LEMMA LowestFacts ==
  ASSUME NEW T, T \subseteq Nat, T # {}
  PROVE  Lowest(T) \in T
BY LeastNatural DEF Lowest

(* The supervisor's state by its tag.                                      *)
LEMMA HandFacts ==
  ASSUME SupTyped
  PROVE  /\ sup.at \in {"idle", "retiring", "subscribing", "unsubscribing", "stopping", "stopped"}
         /\ sup.at = "idle" => sup = Idle
         /\ sup.at = "stopping" => sup = Stopping
         /\ sup.at = "stopped" => sup = Stopped
         /\ sup.at = "retiring" => sup \in Retiring
         /\ sup.at = "subscribing" => sup \in Subscribing
         /\ sup.at = "unsubscribing" => sup \in Unsubscribing
BY DEF SupTyped, Idle, Stopping, Stopped, Retiring, Subscribing, Unsubscribing

(* The two commands.                                                       *)
LEMMA CommandFacts ==
  ASSUME NEW s \in Symbols
  PROVE  /\ \A i \in Ids : /\ SubscribeCmd(s, i) \in Command /\ IsSub(SubscribeCmd(s, i))
                           /\ SubscribeCmd(s, i).sym = s /\ SubscribeCmd(s, i).id = i
         /\ UnsubscribeCmd(s) \in Command /\ ~IsSub(UnsubscribeCmd(s)) /\ UnsubscribeCmd(s).sym = s
BY DEF Command, SubscribeCmd, UnsubscribeCmd, IsSub

(* The type of a lane's queue and table.                                   *)
LEMMA QueueFacts ==
  ASSUME LanesTyped, NEW l \in Lane
  PROVE  /\ queue[l] \in Seq(Command) /\ slots[l] \in SUBSET Symbols /\ Len(queue[l]) \in Nat
         /\ \A n \in DOMAIN queue[l] : /\ queue[l][n] \in Command /\ queue[l][n].sym \in Symbols
                                       /\ n \in 1 .. Len(queue[l])
                                       /\ IsSub(queue[l][n]) => queue[l][n].id \in Ids
<1>1. queue[l] \in Seq(Command) /\ slots[l] \in SUBSET Symbols
  BY DEF LanesTyped
<1>2. \A n \in DOMAIN queue[l] : queue[l][n] \in Command /\ n \in 1 .. Len(queue[l])
  BY <1>1
<1>3. \A c \in Command : c.sym \in Symbols /\ (IsSub(c) => c.id \in Ids)
  BY DEF Command, IsSub
<1>. QED
  BY <1>1, <1>2, <1>3

(* Tables are finite ...                                                   *)
LEMMA TablesAreFinite ==
  ASSUME NEW l, NEW n
  PROVE  After(l, n) \subseteq Symbols /\ IsFiniteSet(After(l, n)) /\ Cardinality(After(l, n)) \in Nat
<1>1. After(l, n) \subseteq Symbols
  BY DEF After
<1>. QED
  BY <1>1, FS_Subset, FS_CardinalityType, SymbolsAssumption

(* ... and so are the bindings of a lane.                                  *)
LEMMA BoundIsFinite ==
  ASSUME RouterTyped, NEW l
  PROVE  Bound(l) \subseteq Routed /\ Bound(l) \subseteq Symbols /\ IsFiniteSet(Bound(l))
         /\ Cardinality(Bound(l)) \in Nat
<1>1. Bound(l) \subseteq Routed /\ Bound(l) \subseteq Symbols
  BY DEF Bound, RouterTyped
<1>. QED
  BY <1>1, FS_Subset, FS_CardinalityType, SymbolsAssumption

(* A bound symbol is bound to a lane the router holds.                     *)
LEMMA BindingsAreHeld ==
  ASSUME RouterTyped, NEW s \in Routed
  PROVE  /\ bySymbol[s] \in DOMAIN lanes /\ Held(bySymbol[s]) /\ s \in Bound(bySymbol[s])
         /\ s \in Symbols /\ bySymbol[s] \in Lane
BY DEF RouterTyped, Bound, Held

-----------------------------------------------------------------------------
(* What the helpers do *)

(* A binding is taken back and its lane counts one less ...                *)
LEMMA TakeFacts ==
  ASSUME RouterTyped, LoadsAreRight, NEW s \in Routed, Take(s), UNCHANGED opened
  PROVE  /\ RouterTyped' /\ LoadsAreRight'
         /\ DOMAIN lanes' = DOMAIN lanes /\ Routed' = Routed \ {s}
         /\ \A l : Bound(l)' = Bound(l) \ {s}
<1>. DEFINE h == bySymbol[s]
<1>1. h \in DOMAIN lanes /\ s \in Bound(h)
  BY BindingsAreHeld
<1>2. bySymbol' = [x \in Routed \ {s} |-> bySymbol[x]]
  BY DEF Take, Without, Routed
<1>3. lanes' = [k \in DOMAIN lanes |-> IF k = h /\ lanes[k] > 0 THEN lanes[k] - 1 ELSE lanes[k]]
  BY DEF Take, Unloaded
<1>4. DOMAIN lanes' = DOMAIN lanes /\ Routed' = Routed \ {s}
  BY <1>2, <1>3 DEF Routed
<1>5. \A l : Bound(l)' = Bound(l) \ {s}
  BY <1>2, <1>4 DEF Bound
<1>6. RouterTyped'
  <2>1. \A k \in DOMAIN lanes : lanes'[k] \in Nat
    BY <1>3 DEF RouterTyped
  <2>. QED
    BY <1>2, <1>3, <1>4 DEF RouterTyped
<1>7. ASSUME NEW l \in DOMAIN lanes
      PROVE  lanes'[l] = Cardinality(Bound(l)')
  <2>1. IsFiniteSet(Bound(l)) /\ Cardinality(Bound(l)) \in Nat /\ lanes[l] = Cardinality(Bound(l))
    BY <1>7, BoundIsFinite DEF LoadsAreRight
  <2>2. CASE l = h
    <3>1. Cardinality(Bound(l) \ {s}) = Cardinality(Bound(l)) - 1
      BY <1>1, <2>1, <2>2, FS_RemoveElement
    <3>2. Cardinality(Bound(l)) # 0
      BY <1>1, <2>1, <2>2, FS_EmptySet
    <3>. QED
      BY <1>3, <1>5, <1>7, <2>1, <2>2, <3>1, <3>2
  <2>3. CASE l # h
    <3>1. Bound(l) \ {s} = Bound(l)
      BY <2>3 DEF Bound
    <3>. QED
      BY <1>3, <1>5, <1>7, <2>1, <2>3, <3>1
  <2>. QED
    BY <2>2, <2>3
<1>. QED
  BY <1>4, <1>5, <1>6, <1>7 DEF LoadsAreRight

(* ... one is made, and it counts one more ...                             *)
LEMMA BindFacts ==
  ASSUME RouterTyped, LoadsAreRight, NEW s \in Symbols, s \notin Routed, NEW h \in DOMAIN lanes,
         Bind(s, h), UNCHANGED opened
  PROVE  /\ RouterTyped' /\ LoadsAreRight'
         /\ DOMAIN lanes' = DOMAIN lanes /\ Routed' = Routed \cup {s}
         /\ \A l : Bound(l)' = IF l = h THEN Bound(l) \cup {s} ELSE Bound(l)
<1>1. bySymbol' = [k \in Routed \cup {s} |-> IF k = s THEN h ELSE bySymbol[k]]
      /\ lanes' = [k \in DOMAIN lanes |-> lanes[k] + (IF k = h THEN 1 ELSE 0)]
  BY DEF Bind
<1>2. DOMAIN lanes' = DOMAIN lanes /\ Routed' = Routed \cup {s}
  BY <1>1 DEF Routed
<1>3. \A l : Bound(l)' = IF l = h THEN Bound(l) \cup {s} ELSE Bound(l)
  BY <1>1, <1>2 DEF Bound
<1>4. RouterTyped'
  BY <1>1, <1>2 DEF RouterTyped
<1>5. ASSUME NEW l \in DOMAIN lanes
      PROVE  lanes'[l] = Cardinality(Bound(l)')
  <2>1. IsFiniteSet(Bound(l)) /\ Cardinality(Bound(l)) \in Nat /\ lanes[l] = Cardinality(Bound(l))
        /\ s \notin Bound(l)
    BY <1>5, BoundIsFinite DEF LoadsAreRight
  <2>2. Cardinality(Bound(l) \cup {s}) = Cardinality(Bound(l)) + 1
    BY <2>1, FS_AddElement
  <2>3. lanes'[l] = IF l = h THEN lanes[l] + 1 ELSE lanes[l]
    BY <1>1, <2>1
  <2>4. Bound(l)' = IF l = h THEN Bound(l) \cup {s} ELSE Bound(l)
    BY <1>3
  <2>. QED
    BY <2>1, <2>2, <2>3, <2>4
<1>. QED
  BY <1>2, <1>3, <1>4, <1>5 DEF LoadsAreRight

(* ... and those of some lanes go with the lanes.                          *)
LEMMA DropFacts ==
  ASSUME RouterTyped, NEW L, bySymbol' = Without(bySymbol, UNION {Bound(l) : l \in L})
  PROVE  /\ Routed' \subseteq Routed
         /\ \A s \in Routed' : s \in Routed /\ bySymbol'[s] = bySymbol[s] /\ bySymbol[s] \notin L
         /\ \A l : Bound(l)' = IF l \in L THEN {} ELSE Bound(l)
<1>1. bySymbol' = [x \in {s \in Routed : bySymbol[s] \notin L} |-> bySymbol[x]]
  <2>1. Routed \ UNION {Bound(l) : l \in L} = {s \in Routed : bySymbol[s] \notin L}
    BY DEF Bound
  <2>. QED
    BY <2>1 DEF Without, Routed
<1>2. Routed' = {s \in Routed : bySymbol[s] \notin L} /\ \A s \in Routed' : bySymbol'[s] = bySymbol[s]
  BY <1>1 DEF Routed
<1>. QED
  BY <1>2 DEF Bound

(* A command put on a queue bears on where the lane ends up.               *)
LEMMA SendFacts ==
  ASSUME LanesTyped, NEW l \in Lane, NEW c \in Command, Send(l, c), UNCHANGED <<task, slots>>
  PROVE  /\ LanesTyped'
         /\ queue'[l] = Append(queue[l], c) /\ Len(queue'[l]) = Len(queue[l]) + 1
         /\ \A m \in Lane : m # l => queue'[m] = queue[m] /\ \A n : After(m, n)' = After(m, n)
         /\ \A n \in 0 .. Len(queue[l]) : After(l, n)' = After(l, n)
         /\ \A m \in Lane : m # l => AfterQueue(m)' = AfterQueue(m)
         /\ AfterQueue(l)' = IF IsSub(c) THEN AfterQueue(l) \cup {c.sym} ELSE AfterQueue(l) \ {c.sym}
<1>1. queue[l] \in Seq(Command) /\ slots[l] \in SUBSET Symbols
  BY QueueFacts
<1>2. queue' = [queue EXCEPT ![l] = Append(queue[l], c)]
  BY DEF Send
<1>3. queue'[l] = Append(queue[l], c) /\ \A m \in Lane : m # l => queue'[m] = queue[m]
  BY <1>2 DEF LanesTyped
<1>4. LanesTyped'
  BY <1>1, <1>2, AppendFacts DEF LanesTyped
<1>5. Len(queue'[l]) = Len(queue[l]) + 1
  BY <1>1, <1>3
<1>6. \A m \in Lane : m # l => \A n : After(m, n)' = After(m, n)
  BY <1>3, AfterIsThrough
<1>7. ASSUME NEW n \in 0 .. Len(queue[l])
      PROVE  After(l, n)' = After(l, n)
  <2>1. Through(Append(queue[l], c), slots[l], n) = Through(queue[l], slots[l], n)
    BY <1>1, ThroughPrefix
  <2>. QED
    BY <1>3, <2>1, AfterIsThrough
<1>8. AfterQueue(l)' = IF IsSub(c) THEN AfterQueue(l) \cup {c.sym} ELSE AfterQueue(l) \ {c.sym}
  <2>1. Through(queue'[l], slots'[l], Len(queue'[l]))
          = IF IsSub(c) THEN Through(queue[l], slots[l], Len(queue[l])) \cup {c.sym}
            ELSE Through(queue[l], slots[l], Len(queue[l])) \ {c.sym}
    BY <1>1, <1>3, <1>5, ThroughAppend
  <2>. QED
    BY <2>1, AfterIsThrough
<1>9. \A m \in Lane : m # l => AfterQueue(m)' = AfterQueue(m)
  BY <1>3, <1>6 DEF AfterQueue
<1>. QED
  BY <1>3, <1>4, <1>5, <1>6, <1>7, <1>8, <1>9

(* A command that is worked off does not: the lane was to end up there.    *)
LEMMA AdmitFacts ==
  ASSUME LanesTyped, SubscribesAreNew, NEW l \in Lane, Admit(l)
  PROVE  /\ LanesTyped' /\ queue[l] \in Seq(Command) /\ queue[l] # <<>> /\ queue'[l] = Tail(queue[l])
         /\ \A m \in Lane : m # l => queue'[m] = queue[m] /\ slots'[m] = slots[m]
         /\ \A m \in Lane : m # l => \A n : After(m, n)' = After(m, n)
         /\ \A n \in Nat : n < Len(queue[l]) => After(l, n)' = After(l, n + 1)
         /\ \A m \in Lane : AfterQueue(m)' = AfterQueue(m)
         /\ IF IsSub(queue[l][1]) THEN answer' = [answer EXCEPT ![queue[l][1].id] = "reader"]
                                  ELSE answer' = answer
<1>1. queue[l] \in Seq(Command) /\ slots[l] \in SUBSET Symbols /\ queue[l] # <<>>
      /\ queue' = [queue EXCEPT ![l] = Tail(queue[l])]
  BY QueueFacts DEF Admit
<1>2. Head(queue[l]) = queue[l][1] /\ queue[l][1] \in Command /\ 1 \in DOMAIN queue[l]
      /\ Tail(queue[l]) \in Seq(Command) /\ Len(Tail(queue[l])) + 1 = Len(queue[l])
  BY <1>1, TailFacts
<1>. DEFINE c == queue[l][1]
<1>3. c.sym \in Symbols /\ c.op \in {"Subscribe", "Unsubscribe"}
  BY <1>2 DEF Command
<1>4. IsSub(c) => c.sym \notin slots[l]
  <2>1. IsSub(c) => c.sym \notin After(l, 1 - 1)
    BY <1>2 DEF SubscribesAreNew
  <2>2. After(l, 0) = slots[l]
    BY <1>1, AfterIsThrough, ThroughNone
  <2>. QED
    BY <2>1, <2>2
<1>5. /\ slots' = [slots EXCEPT ![l] = IF IsSub(c) THEN slots[l] \cup {c.sym} ELSE slots[l] \ {c.sym}]
      /\ IF IsSub(c) THEN answer' = [answer EXCEPT ![c.id] = "reader"] ELSE answer' = answer
      /\ UNCHANGED task
  BY <1>2, <1>4 DEF Admit, IsSub
<1>6. queue'[l] = Tail(queue[l]) /\ slots'[l] = (IF IsSub(c) THEN slots[l] \cup {c.sym} ELSE slots[l] \ {c.sym})
      /\ \A m \in Lane : m # l => queue'[m] = queue[m] /\ slots'[m] = slots[m]
  BY <1>1, <1>5 DEF LanesTyped
<1>7. LanesTyped'
  BY <1>1, <1>2, <1>3, <1>5 DEF LanesTyped
<1>8. \A m \in Lane : m # l => \A n : After(m, n)' = After(m, n)
  BY <1>6, AfterIsThrough
<1>9. ASSUME NEW n \in Nat, n < Len(queue[l])
      PROVE  After(l, n)' = After(l, n + 1)
  <2>. DEFINE q == queue[l]
              S == slots[l]
              T == IF IsSub(q[1]) THEN S \cup {q[1].sym} ELSE S \ {q[1].sym}
  <2>1. Through(Tail(q), T, n) = Through(q, S, n + 1)
    BY <1>1, <1>9, ThroughTail
  <2>2. After(l, n)' = Through(queue'[l], slots'[l], n) /\ After(l, n + 1) = Through(q, S, n + 1)
    BY AfterIsThrough
  <2>. QED
    BY <1>6, <2>1, <2>2
<1>10. \A m \in Lane : m # l => AfterQueue(m)' = AfterQueue(m)
  BY <1>6, <1>8 DEF AfterQueue
<1>11. AfterQueue(l)' = AfterQueue(l)
  <2>1. PICK n \in Nat : n = Len(Tail(queue[l]))
    <3>1. \A p \in Seq(Command) : Len(p) \in Nat
      OBVIOUS
    <3>. QED
      BY <1>2, <3>1
  <2>2. n < Len(queue[l]) /\ n + 1 = Len(queue[l])
    BY <1>1, <1>2, <2>1
  <2>3. After(l, n)' = After(l, n + 1)
    BY <1>9, <2>2
  <2>4. AfterQueue(l)' = Through(queue'[l], slots'[l], n)
    BY <1>6, <2>1, AfterIsThrough
  <2>5. After(l, n)' = Through(queue'[l], slots'[l], n)
    BY AfterIsThrough
  <2>. QED
    BY <2>2, <2>3, <2>4, <2>5 DEF AfterQueue
<1>. QED
  BY <1>1, <1>5, <1>6, <1>7, <1>8, <1>9, <1>10, <1>11

(* Lanes that end leave nothing, and their subscribes are dropped.         *)
LEMMA EndFacts ==
  ASSUME LanesTyped, RequestsTyped, NEW L \in SUBSET Lane, End(L)
  PROVE  /\ LanesTyped'
         /\ \A l \in L : task'[l] = "ended" /\ queue'[l] = <<>> /\ slots'[l] = {}
         /\ \A l \in Lane : l \notin L => task'[l] = task[l] /\ queue'[l] = queue[l] /\ slots'[l] = slots[l]
         /\ \A l \in L : After(l, 0)' = {}
         /\ \A l \in L : AfterQueue(l)' = {}
         /\ \A l \in Lane : l \notin L => AfterQueue(l)' = AfterQueue(l) /\ \A n : After(l, n)' = After(l, n)
         /\ answer' \in [Ids -> {"none", "asked", "refused", "reader", "dropped"}]
         /\ \A i \in Ids : \/ answer'[i] = answer[i] /\ \A l \in L : \A n : ~(Queued(l, n) /\ queue[l][n].id = i)
                           \/ answer'[i] = "dropped" /\ \E l \in L : \E n : Queued(l, n) /\ queue[l][n].id = i
<1>1. /\ task' = [l \in Lane |-> IF l \in L THEN "ended" ELSE task[l]]
      /\ queue' = [l \in Lane |-> IF l \in L THEN <<>> ELSE queue[l]]
      /\ slots' = [l \in Lane |-> IF l \in L THEN {} ELSE slots[l]]
      /\ answer' = [i \in Ids |-> IF i \in UNION {Left(l) : l \in L} THEN "dropped" ELSE answer[i]]
  BY DEF End
<1>2. /\ \A l \in L : task'[l] = "ended" /\ queue'[l] = <<>> /\ slots'[l] = {}
      /\ \A l \in Lane : l \notin L => task'[l] = task[l] /\ queue'[l] = queue[l] /\ slots'[l] = slots[l]
  BY <1>1
<1>3. LanesTyped'
  <2>1. <<>> \in Seq(Command)
    OBVIOUS
  <2>. QED
    BY <1>1, <2>1 DEF LanesTyped
<1>4. \A l \in L : After(l, 0)' = {}
  BY <1>2, AfterIsThrough, ThroughNone
<1>5. \A l \in L : AfterQueue(l)' = {}
  <2>1. Len(<<>>) = 0
    OBVIOUS
  <2>. QED
    BY <1>2, <1>4, <2>1 DEF AfterQueue
<1>6. \A l \in Lane : l \notin L => \A n : After(l, n)' = After(l, n)
  BY <1>2, AfterIsThrough
<1>7. \A l \in Lane : l \notin L => AfterQueue(l)' = AfterQueue(l)
  BY <1>2, <1>6 DEF AfterQueue
<1>8. \A i : i \in UNION {Left(l) : l \in L} <=> \E l \in L : \E n : Queued(l, n) /\ queue[l][n].id = i
  BY DEF Left, Queued, IsSub
<1>9. \A i \in Ids : answer'[i] = IF i \in UNION {Left(l) : l \in L} THEN "dropped" ELSE answer[i]
  BY <1>1
<1>10. answer' \in [Ids -> {"none", "asked", "refused", "reader", "dropped"}]
  BY <1>1 DEF RequestsTyped
<1>. QED
  BY <1>2, <1>3, <1>4, <1>5, <1>6, <1>7, <1>8, <1>9, <1>10

-----------------------------------------------------------------------------
(* What the steps do *)

(* The subscribe at the head of the requests, with a lane chosen for it.   *)
Chosen(l, n) == [at |-> "subscribing", sym |-> Head(requests).sym, id |-> Head(requests).id,
                 lane |-> l, attempt |-> n]

(* take_subscribe: it refuses ...                                          *)
Refuses ==
  /\ Next_("Subscribe")
  /\ answer' = [answer EXCEPT ![Head(requests).id] = "refused"]
  /\ UNCHANGED <<refreshVars, sent, listed, routerVars, sup, laneVars>>

(* ... it chooses a lane with room ...                                     *)
Chooses ==
  /\ Next_("Subscribe") /\ Head(requests).sym \in listed \ Routed
  /\ \E l \in DOMAIN lanes : lanes[l] < Capacity /\ sup' = Chosen(l, 0)
  /\ UNCHANGED <<refreshVars, sent, answer, listed, routerVars, laneVars>>

(* ... or opens one.                                                       *)
Opens ==
  /\ Next_("Subscribe") /\ Head(requests).sym \in listed \ Routed
  /\ Open(lanes) /\ sup' = Chosen(opened + 1, 0)
  /\ UNCHANGED <<refreshVars, sent, answer, listed, bySymbol, queue, slots, unjoined, deaths>>

(* The lane has gone: it opens another ...                                 *)
Retries ==
  /\ sup.at = "subscribing" /\ Gone(sup.lane)
  /\ bySymbol' = Without(bySymbol, Bound(sup.lane)) /\ Open(Without(lanes, {sup.lane}))
  /\ sup' = [sup EXCEPT !.lane = opened + 1, !.attempt = 1]
  /\ UNCHANGED <<refreshVars, requestVars, answer, listed, queue, slots, unjoined, deaths>>

(* ... or gives up.                                                        *)
GivesUp ==
  /\ sup.at = "subscribing" /\ Gone(sup.lane)
  /\ DropLanes({sup.lane})
  /\ answer' = [answer EXCEPT ![sup.id] = "refused"] /\ sup' = Idle
  /\ UNCHANGED <<refreshVars, requestVars, listed, opened, laneVars>>

(* Lanes end: aborted, closed or dead.                                     *)
Ends ==
  /\ \E L \in SUBSET Running : End(L)
  /\ UNCHANGED <<refreshVars, requestVars, listed, routerVars, sup>>

(* A caller asks; ...                                                      *)
Asked == \E s \in Symbols, op \in {"Subscribe", "Unsubscribe"} : Ask(s, op)

(* ... a listing is published; ...                                         *)
Refreshes == \E S \in SUBSET Symbols : Refreshed(S)

(* ... a lane admits a command.                                            *)
Admits == \E l \in Lane : Admit(l)

(* A step is one of these.                                                 *)
LEMMA NextCases ==
  ASSUME Typed, [Next]_vars
  PROVE  \/ Asked \/ AskShutDown \/ Refreshes
         \/ TakeListing \/ RetireNext \/ RetireDone
         \/ Refuses \/ Chooses \/ Opens \/ SendSubscribe \/ Retries \/ GivesUp
         \/ UnsubscribeUnknown \/ TakeUnsubscribe \/ SendUnsubscribe
         \/ Join \/ TakeShutDown \/ Finish \/ Ends
         \/ Admits \/ UNCHANGED vars
<1>1. TakeSubscribe => Refuses \/ Chooses \/ Opens
  <2>1. WithRoom # {} => Lowest(WithRoom) \in WithRoom
    <3>1. WithRoom \subseteq Nat
      BY DEF WithRoom, Typed, RouterTyped
    <3>. QED
      BY <3>1, LowestFacts
  <2>2. \A l \in WithRoom : l \in DOMAIN lanes /\ lanes[l] < Capacity
    BY DEF WithRoom
  <2>. QED
    BY <2>1, <2>2 DEF TakeSubscribe, Refuses, Chooses, Opens, Chosen, laneVars, routerVars
<1>2. SubscribeLaneGone => Retries \/ GivesUp
  <2>1. UNION {Bound(l) : l \in {sup.lane}} = Bound(sup.lane)
    OBVIOUS
  <2>. QED
    BY <2>1 DEF SubscribeLaneGone, Retries, GivesUp, DropLanes, laneVars
<1>3. AbortLanes \/ (\E l \in Lane : Closes(l) \/ Dies(l)) => Ends
  <2>1. Running \in SUBSET Running /\ \A l \in Running : {l} \in SUBSET Running
    OBVIOUS
  <2>. QED
    BY <2>1 DEF AbortLanes, Closes, Dies, Ends
<1>. QED
  BY <1>1, <1>2, <1>3 DEF Next, Supervise, Asked, Refreshes, Admits

(* A request is taken from the head ...                                    *)
LEMMA RequestFacts ==
  ASSUME Typed, NEW op, Next_(op), op # "ShutDown"
  PROVE  /\ sup = Idle /\ requests' \in Seq(Request) /\ 1 \in DOMAIN requests
         /\ Head(requests) = requests[1] /\ Asks(1) /\ requests[1].op = op
         /\ requests[1].sym \in Symbols /\ requests[1].id \in Ids
         /\ \A k : Asks(k)' => /\ Asks(k + 1) /\ requests'[k] = requests[k + 1] /\ k \in Nat /\ k + 1 # 1
         /\ \A k : Asks(k) /\ k # 1 => Asks(k - 1)' /\ requests'[k - 1] = requests[k]
<1>1. requests \in Seq(Request) /\ requests # <<>> /\ requests' = Tail(requests) /\ sup = Idle
      /\ Head(requests).op = op
  BY DEF Typed, RequestsTyped, Next_
<1>2. /\ requests' \in Seq(Request) /\ 1 \in DOMAIN requests
      /\ Head(requests) = requests[1] /\ requests[1] \in Request /\ requests[1].op = op
  BY <1>1, TailFacts
<1>3. requests[1] # ShutDown /\ requests[1].sym \in Symbols /\ requests[1].id \in Ids
  BY <1>2 DEF Request, ShutDown
<1>4. /\ \A k \in DOMAIN requests' : k + 1 \in DOMAIN requests /\ requests'[k] = requests[k + 1] /\ k \in Nat \ {0}
      /\ \A k \in DOMAIN requests : k # 1 => k - 1 \in DOMAIN requests' /\ requests'[k - 1] = requests[k]
  BY <1>1, TailFacts
<1>5. \A k : Asks(k)' => Asks(k + 1) /\ requests'[k] = requests[k + 1] /\ k \in Nat /\ k + 1 # 1
  BY <1>4 DEF Asks
<1>6. \A k : Asks(k) /\ k # 1 => Asks(k - 1)' /\ requests'[k - 1] = requests[k]
  BY <1>4 DEF Asks
<1>. QED
  BY <1>1, <1>2, <1>3 DEF Asks

(* ... and put at the end.                                                 *)
LEMMA AskFacts ==
  ASSUME Typed, NEW r \in Request, requests' = Append(requests, r)
  PROVE  /\ requests' \in Seq(Request)
         /\ \A k : Asks(k)' => \/ Asks(k) /\ requests'[k] = requests[k]
                               \/ k = Len(requests) + 1 /\ requests'[k] = r /\ r # ShutDown
         /\ \A k : Asks(k) => Asks(k)' /\ requests'[k] = requests[k]
         /\ r # ShutDown => \E k : Asks(k)' /\ requests'[k] = r
<1>1. requests \in Seq(Request)
  BY DEF Typed, RequestsTyped
<1>2. /\ Append(requests, r) \in Seq(Request)
      /\ \A i \in DOMAIN Append(requests, r) :
           \/ i \in DOMAIN requests /\ Append(requests, r)[i] = requests[i]
           \/ i = Len(requests) + 1 /\ Append(requests, r)[i] = r
      /\ \A i \in DOMAIN requests : i \in DOMAIN Append(requests, r) /\ Append(requests, r)[i] = requests[i]
      /\ Len(requests) + 1 \in DOMAIN Append(requests, r) /\ Append(requests, r)[Len(requests) + 1] = r
  BY <1>1, AppendFacts
<1>3. r # ShutDown => \E k : Asks(k)' /\ requests'[k] = r
  BY <1>2 DEF Asks
<1>. QED
  BY <1>2, <1>3 DEF Asks

(* A lane that takes a command has a running task ...                      *)
LEMMA RoomRuns ==
  ASSUME Typed, TasksMatch, NEW l, Room(l)
  PROVE  l \in Lane /\ l \in Running
<1>1. l \in DOMAIN lanes /\ l \in Lane /\ l \in Nat /\ l <= opened /\ opened \in Nat
  BY DEF Room, Held, Typed, RouterTyped
<1>2. task[l] # "none"
  BY <1>1 DEF TasksMatch
<1>. QED
  BY <1>1, <1>2 DEF Room, Closed, Running, Typed, LanesTyped

(* ... and one that is gone has none.                                      *)
LEMMA GoneHasEnded ==
  ASSUME NEW l, Held(l), Gone(l)
  PROVE  l \notin Running
BY DEF Gone, Closed, Running

(* Idle lanes that are let go had no bindings.                             *)
LEMMA ReapFacts ==
  ASSUME RouterTyped, LoadsAreRight, lanes' = Reaped, UNCHANGED <<bySymbol, opened>>
  PROVE  /\ RouterTyped' /\ LoadsAreRight' /\ DOMAIN lanes' \subseteq DOMAIN lanes
         /\ \A l : Bound(l)' = Bound(l)
<1>1. /\ DOMAIN lanes' \subseteq DOMAIN lanes
      /\ \A l \in DOMAIN lanes' : lanes'[l] = lanes[l]
      /\ \A l \in DOMAIN lanes : l \notin DOMAIN lanes' => lanes[l] = 0
      /\ lanes' = [l \in DOMAIN lanes' |-> lanes'[l]]
  BY DEF Reaped, Without, RouterTyped
<1>2. \A l : Bound(l)' = Bound(l)
  BY DEF Bound, Routed
<1>3. \A s \in Routed : bySymbol[s] \in DOMAIN lanes'
  <2>. SUFFICES ASSUME NEW s \in Routed, bySymbol[s] \notin DOMAIN lanes'
                PROVE  FALSE
    OBVIOUS
  <2>1. bySymbol[s] \in DOMAIN lanes /\ s \in Bound(bySymbol[s])
    BY BindingsAreHeld
  <2>2. Cardinality(Bound(bySymbol[s])) = 0
    BY <1>1, <2>1 DEF LoadsAreRight
  <2>. QED
    BY <2>1, <2>2, BoundIsFinite, FS_EmptySet
<1>4. RouterTyped'
  BY <1>1, <1>3 DEF RouterTyped, Routed
<1>. QED
  BY <1>1, <1>2, <1>4 DEF LoadsAreRight

(* Lanes that are dropped take their bindings along.                       *)
LEMMA DropLanesFacts ==
  ASSUME RouterTyped, LoadsAreRight, NEW L, DropLanes(L), UNCHANGED opened
  PROVE  /\ RouterTyped' /\ LoadsAreRight' /\ DOMAIN lanes' = DOMAIN lanes \ L /\ Routed' \subseteq Routed
         /\ \A l : Bound(l)' = IF l \in L THEN {} ELSE Bound(l)
<1>1. lanes' = [l \in DOMAIN lanes \ L |-> lanes[l]]
      /\ bySymbol' = Without(bySymbol, UNION {Bound(l) : l \in L})
  BY DEF DropLanes, Without
<1>2. /\ Routed' \subseteq Routed
      /\ \A s \in Routed' : s \in Routed /\ bySymbol'[s] = bySymbol[s] /\ bySymbol[s] \notin L
      /\ \A l : Bound(l)' = IF l \in L THEN {} ELSE Bound(l)
  BY <1>1, DropFacts
<1>3. bySymbol' = [s \in Routed' |-> bySymbol'[s]]
  BY <1>1 DEF Without, Routed
<1>4. RouterTyped'
  BY <1>1, <1>2, <1>3 DEF RouterTyped
<1>. QED
  BY <1>1, <1>2, <1>4 DEF LoadsAreRight

(* A lane is opened, of a number never used, without bindings ...          *)
LEMMA OpenFacts ==
  ASSUME Typed, LoadsAreRight, NEW L, NEW held,
         DOMAIN held = DOMAIN lanes \ L, \A l \in DOMAIN held : held[l] = lanes[l],
         Routed' \subseteq Routed,
         \A s \in Routed' : bySymbol'[s] = bySymbol[s] /\ bySymbol[s] \notin L,
         bySymbol' = [s \in Routed' |-> bySymbol'[s]],
         \A l : Bound(l)' = IF l \in L THEN {} ELSE Bound(l),
         Open(held), UNCHANGED <<queue, slots>>
  PROVE  /\ RouterTyped' /\ LoadsAreRight' /\ LanesTyped'
         /\ opened \in Nat /\ opened' = opened + 1 /\ opened' \in Lane
         /\ DOMAIN lanes' = (DOMAIN lanes \ L) \cup {opened'} /\ lanes'[opened'] = 0
         /\ (\A l : l = opened + 1 => Bound(l)' = {}) /\ task'[opened'] = "running"
         /\ \A l \in Lane : l # opened' => task'[l] = task[l]
<1>1. /\ opened' = opened + 1 /\ opened' \in Lane
      /\ lanes' = [k \in (DOMAIN lanes \ L) \cup {opened + 1} |-> IF k = opened + 1 THEN 0 ELSE held[k]]
      /\ task' = [task EXCEPT ![opened + 1] = "running"]
  BY DEF Open
<1>2. opened \in Nat /\ \A l \in DOMAIN lanes : l \in Nat /\ l # opened + 1 /\ 1 <= l /\ l <= opened + 1
  BY DEF Typed, RouterTyped
<1>3. /\ DOMAIN lanes' = (DOMAIN lanes \ L) \cup {opened'} /\ lanes'[opened'] = 0
      /\ \A l \in DOMAIN lanes \ L : lanes'[l] = lanes[l]
  BY <1>1, <1>2
<1>4. \A l : l = opened + 1 => Bound(l) = {} /\ Bound(l)' = {}
  <2>1. \A s \in Routed : bySymbol[s] \in DOMAIN lanes
    BY DEF Typed, RouterTyped
  <2>2. Bound(opened + 1) = {}
    BY <1>2, <2>1 DEF Bound
  <2>. QED
    BY <2>2
<1>5. RouterTyped'
  <2>1. DOMAIN lanes' \subseteq 1 .. opened' /\ DOMAIN lanes' \subseteq Lane
    BY <1>1, <1>2 DEF Typed, RouterTyped
  <2>2. lanes' \in [DOMAIN lanes' -> Nat]
    BY <1>1, <1>2 DEF Typed, RouterTyped
  <2>3. \A s \in Routed' : bySymbol'[s] \in DOMAIN lanes'
    BY <1>3 DEF Typed, RouterTyped
  <2>. QED
    BY <1>1, <1>2, <2>1, <2>2 DEF Typed, RouterTyped
<1>6. LoadsAreRight'
  <2>1. Cardinality({}) = 0
    BY FS_EmptySet
  <2>. QED
    BY <1>1, <1>3, <1>4, <2>1 DEF LoadsAreRight
<1>7. LanesTyped'
  BY <1>1 DEF Typed, LanesTyped
<1>8. task'[opened'] = "running" /\ \A l \in Lane : l # opened' => task'[l] = task[l]
  BY <1>1 DEF Typed, LanesTyped
<1>. QED
  BY <1>1, <1>2, <1>3, <1>4, <1>5, <1>6, <1>7, <1>8

(* ... for a symbol no lane has room for ...                               *)
LEMMA OpensFacts ==
  ASSUME Typed, LoadsAreRight, Opens
  PROVE  /\ RouterTyped' /\ LoadsAreRight' /\ LanesTyped'
         /\ opened \in Nat /\ opened' = opened + 1 /\ opened' \in Lane
         /\ DOMAIN lanes' = DOMAIN lanes \cup {opened'} /\ lanes'[opened'] = 0
         /\ (\A l : l = opened + 1 => Bound(l)' = {}) /\ \A l : Bound(l)' = Bound(l)
         /\ task'[opened'] = "running" /\ \A l \in Lane : l # opened' => task'[l] = task[l]
<1>1. Open(lanes) /\ UNCHANGED <<bySymbol, queue, slots>>
  BY DEF Opens
<1>2. \A l : Bound(l)' = Bound(l)
  BY <1>1 DEF Bound, Routed
<1>3. bySymbol' = [s \in Routed' |-> bySymbol'[s]] /\ Routed' = Routed
  BY <1>1 DEF Typed, RouterTyped, Routed
<1>. DEFINE none == {}
<1>4. /\ DOMAIN lanes = DOMAIN lanes \ none
      /\ \A s \in Routed' : bySymbol'[s] = bySymbol[s] /\ bySymbol[s] \notin none
      /\ \A l : Bound(l)' = IF l \in none THEN {} ELSE Bound(l)
  BY <1>1, <1>2
<1>. HIDE DEF none
<1>5. /\ RouterTyped' /\ LoadsAreRight' /\ LanesTyped'
      /\ opened \in Nat /\ opened' = opened + 1 /\ opened' \in Lane
      /\ DOMAIN lanes' = (DOMAIN lanes \ none) \cup {opened'} /\ lanes'[opened'] = 0
      /\ (\A l : l = opened + 1 => Bound(l)' = {}) /\ task'[opened'] = "running"
      /\ \A l \in Lane : l # opened' => task'[l] = task[l]
  BY <1>1, <1>3, <1>4, OpenFacts
<1>. QED
  BY <1>2, <1>4, <1>5

(* ... or in place of one that has gone.                                   *)
LEMMA RetriesFacts ==
  ASSUME Typed, LoadsAreRight, Retries
  PROVE  /\ RouterTyped' /\ LoadsAreRight' /\ LanesTyped'
         /\ opened \in Nat /\ opened' = opened + 1 /\ opened' \in Lane
         /\ DOMAIN lanes' = (DOMAIN lanes \ {sup.lane}) \cup {opened'} /\ lanes'[opened'] = 0
         /\ Routed' \subseteq Routed
         /\ (\A l : l = opened + 1 => Bound(l)' = {}) /\ \A l : Bound(l)' = IF l = sup.lane THEN {} ELSE Bound(l)
         /\ task'[opened'] = "running" /\ \A l \in Lane : l # opened' => task'[l] = task[l]
<1>. DEFINE L == {sup.lane}
            held == Without(lanes, L)
<1>1. /\ bySymbol' = Without(bySymbol, UNION {Bound(l) : l \in L})
      /\ Open(held) /\ UNCHANGED <<queue, slots>>
  <2>1. UNION {Bound(l) : l \in L} = Bound(sup.lane)
    OBVIOUS
  <2>. QED
    BY <2>1 DEF Retries
<1>2. DOMAIN held = DOMAIN lanes \ L /\ \A l \in DOMAIN held : held[l] = lanes[l]
  BY DEF Without
<1>3. bySymbol' = [s \in Routed' |-> bySymbol'[s]]
  BY <1>1 DEF Without, Routed
<1>. HIDE DEF held
<1>4. /\ Routed' \subseteq Routed
      /\ \A s \in Routed' : bySymbol'[s] = bySymbol[s] /\ bySymbol[s] \notin L
      /\ \A l : Bound(l)' = IF l \in L THEN {} ELSE Bound(l)
  BY <1>1, DropFacts DEF Typed
<1>. HIDE DEF L
<1>5. /\ RouterTyped' /\ LoadsAreRight' /\ LanesTyped'
      /\ opened \in Nat /\ opened' = opened + 1 /\ opened' \in Lane
      /\ DOMAIN lanes' = (DOMAIN lanes \ L) \cup {opened'} /\ lanes'[opened'] = 0
      /\ (\A l : l = opened + 1 => Bound(l)' = {}) /\ task'[opened'] = "running"
      /\ \A l \in Lane : l # opened' => task'[l] = task[l]
  BY <1>1, <1>2, <1>3, <1>4, OpenFacts
<1>. QED
  BY <1>4, <1>5 DEF L

(* A command is sent to a lane, or falls away with it.                     *)
Tells(l, c) ==
  /\ l \in Lane /\ c \in Command /\ UNCHANGED <<task, slots>>
  /\ \/ l \notin Running /\ UNCHANGED queue
     \/ l \in Running /\ Send(l, c)

(* RetireNext takes the next symbol that is not listed any more.           *)
LEMMA RetireFacts ==
  ASSUME Typed, LoadsAreRight, HandFits, TasksMatch, RetireNext
  PROVE  /\ sup \in Retiring /\ sup' \in Retiring /\ sup.gone # <<>> /\ sup'.gone = Tail(sup.gone)
         /\ sup'.fresh = sup.fresh /\ sup.gone[1] \in Routed \ sup.fresh /\ sup.gone[1] \in Symbols
         /\ Take(sup.gone[1]) /\ UNCHANGED opened
         /\ Tells(bySymbol[sup.gone[1]], UnsubscribeCmd(sup.gone[1]))
<1>1. sup \in Retiring /\ sup.gone \in Seq(Symbols) /\ sup.gone # <<>>
  BY HandFacts DEF RetireNext, Typed, Retiring
<1>2. Head(sup.gone) = sup.gone[1] /\ sup.gone[1] \in Symbols /\ 1 \in DOMAIN sup.gone
      /\ Tail(sup.gone) \in Seq(Symbols)
  BY <1>1, TailFacts
<1>3. sup.gone[1] \in Routed \ sup.fresh
  BY <1>1, <1>2 DEF HandFits, Retiring
<1>4. sup' = [sup EXCEPT !.gone = Tail(sup.gone)]
  BY DEF RetireNext
<1>5. sup' \in Retiring /\ sup'.gone = Tail(sup.gone) /\ sup'.fresh = sup.fresh
  BY <1>1, <1>2, <1>4 DEF Retiring
<1>6. Take(sup.gone[1]) /\ UNCHANGED <<opened, task, slots>>
      /\ \/ Gone(bySymbol[sup.gone[1]]) /\ UNCHANGED queue
         \/ Room(bySymbol[sup.gone[1]]) /\ Send(bySymbol[sup.gone[1]], UnsubscribeCmd(sup.gone[1]))
  BY <1>2 DEF RetireNext
<1>7. Held(bySymbol[sup.gone[1]]) /\ bySymbol[sup.gone[1]] \in Lane
  BY <1>3, BindingsAreHeld DEF Typed
<1>8. Tells(bySymbol[sup.gone[1]], UnsubscribeCmd(sup.gone[1]))
  BY <1>2, <1>6, <1>7, GoneHasEnded, RoomRuns, CommandFacts DEF Tells
<1>. QED
  BY <1>1, <1>2, <1>3, <1>5, <1>6, <1>8

(* SendSubscribe binds and sends at once.                                  *)
LEMMA SubscribeFacts ==
  ASSUME Typed, HandFits, TasksMatch, SendSubscribe
  PROVE  /\ sup \in Subscribing /\ sup.sym \in Symbols /\ sup.sym \in listed \ Routed /\ sup.id \in Ids
         /\ sup.lane \in Lane /\ sup.lane \in Running /\ sup.lane \in DOMAIN lanes
         /\ lanes[sup.lane] < Capacity /\ Bind(sup.sym, sup.lane) /\ sup' = Idle
         /\ Send(sup.lane, SubscribeCmd(sup.sym, sup.id)) /\ UNCHANGED <<opened, task, slots>>
         /\ SubscribeCmd(sup.sym, sup.id) \in Command /\ IsSub(SubscribeCmd(sup.sym, sup.id))
         /\ SubscribeCmd(sup.sym, sup.id).sym = sup.sym /\ SubscribeCmd(sup.sym, sup.id).id = sup.id
<1>1. sup.at = "subscribing" /\ sup \in Subscribing
  BY HandFacts DEF SendSubscribe, Typed
<1>2. sup.sym \in Symbols /\ sup.id \in Ids
  BY <1>1 DEF Subscribing
<1>3. sup.lane \in Lane /\ sup.lane \in Running
  BY RoomRuns DEF SendSubscribe
<1>. QED
  BY <1>1, <1>2, <1>3, CommandFacts DEF SendSubscribe, HandFits, Held

(* SendUnsubscribe sends, the binding was taken before.                    *)
LEMMA UnsubscribeFacts ==
  ASSUME Typed, HandFits, TasksMatch, SendUnsubscribe
  PROVE  /\ sup \in Unsubscribing /\ sup.sym \in Symbols /\ sup.sym \notin Routed
         /\ lanes' = Reaped /\ UNCHANGED <<bySymbol, opened>> /\ sup' = Idle
         /\ Tells(sup.lane, UnsubscribeCmd(sup.sym))
<1>1. sup.at = "unsubscribing" /\ sup \in Unsubscribing
  BY HandFacts DEF SendUnsubscribe, Typed
<1>2. sup.sym \in Symbols /\ sup.lane \in Lane /\ Held(sup.lane) /\ sup.sym \notin Routed
  BY <1>1 DEF Unsubscribing, HandFits
<1>3. Tells(sup.lane, UnsubscribeCmd(sup.sym))
  BY <1>2, GoneHasEnded, RoomRuns, CommandFacts DEF Tells, SendUnsubscribe
<1>. QED
  BY <1>1, <1>2, <1>3 DEF SendUnsubscribe

(* An unsubscribe takes its symbol from where the lane ends up.            *)
LEMMA TellFacts ==
  ASSUME LanesTyped, NEW l \in Lane, NEW s \in Symbols, Tells(l, UnsubscribeCmd(s))
  PROVE  /\ LanesTyped' /\ UNCHANGED task
         /\ \A m \in Lane : AfterQueue(m)' = IF m = l /\ l \in Running THEN AfterQueue(m) \ {s} ELSE AfterQueue(m)
<1>1. UnsubscribeCmd(s) \in Command /\ ~IsSub(UnsubscribeCmd(s)) /\ UnsubscribeCmd(s).sym = s
  BY CommandFacts
<1>2. CASE l \notin Running /\ UNCHANGED queue
  BY <1>2 DEF Tells, LanesTyped, AfterQueue, After
<1>3. CASE l \in Running /\ Send(l, UnsubscribeCmd(s))
  BY <1>1, <1>3, SendFacts DEF Tells
<1>. QED
  BY <1>2, <1>3 DEF Tells

(* A subscribe that gives up takes its lane along ...                      *)
LEMMA CloseFacts ==
  ASSUME RouterTyped, LoadsAreRight, GivesUp
  PROVE  /\ RouterTyped' /\ LoadsAreRight' /\ DOMAIN lanes' = DOMAIN lanes \ {sup.lane}
         /\ Routed' \subseteq Routed
         /\ \A l : Bound(l)' = IF l = sup.lane THEN {} ELSE Bound(l)
<1>. DEFINE L == {sup.lane}
<1>1. DropLanes(L) /\ UNCHANGED opened
  BY DEF GivesUp
<1>. HIDE DEF L
<1>2. /\ RouterTyped' /\ LoadsAreRight' /\ DOMAIN lanes' = DOMAIN lanes \ L /\ Routed' \subseteq Routed
      /\ \A l : Bound(l)' = IF l \in L THEN {} ELSE Bound(l)
  BY <1>1, DropLanesFacts
<1>. QED
  BY <1>2 DEF L

(* ... and so does the join of ended tasks: no running lane loses a        *)
(* binding.                                                                *)
LEMMA JoinFacts ==
  ASSUME RouterTyped, LoadsAreRight, Join
  PROVE  /\ RouterTyped' /\ LoadsAreRight' /\ Routed' \subseteq Routed
         /\ \A l \in Running : Bound(l)' = Bound(l)
<1>. DEFINE L == {l \in DOMAIN lanes : Closed(l)}
<1>1. DropLanes(L) /\ UNCHANGED opened
  BY DEF Join, PurgeClosed
<1>2. \A l \in Running : l \notin L
  BY DEF Running, Closed
<1>. HIDE DEF L
<1>3. /\ RouterTyped' /\ LoadsAreRight' /\ Routed' \subseteq Routed
      /\ \A l : Bound(l)' = IF l \in L THEN {} ELSE Bound(l)
  BY <1>1, DropLanesFacts
<1>. QED
  BY <1>2, <1>3

-----------------------------------------------------------------------------
(* The types and the hand *)

(* Each step keeps the types of the listings,                              *)
LEMMA ListingStep ==
  ASSUME Typed, [Next]_vars
  PROVE  ListingTyped'
<1>. \A S \in SUBSET Symbols : <<S>> \in Seq(SUBSET Symbols)
  OBVIOUS
<1>. <<>> \in Seq(SUBSET Symbols)
  OBVIOUS
<1>1. CASE Refreshes
  BY <1>1 DEF Refreshes, Refreshed, Typed, ListingTyped, refreshVars
<1>2. CASE RetireDone
  BY <1>2, HandFacts DEF RetireDone, Typed, ListingTyped, Retiring, refreshVars
<1>3. CASE Asked \/ AskShutDown \/ TakeListing \/ RetireNext \/ Refuses \/ Chooses \/ Opens
            \/ SendSubscribe \/ Retries \/ GivesUp \/ UnsubscribeUnknown \/ TakeUnsubscribe
            \/ SendUnsubscribe \/ Join \/ TakeShutDown \/ Finish \/ Ends \/ Admits
            \/ UNCHANGED vars
  BY <1>3
     DEF Asked, Ask, AskShutDown, TakeListing, RetireNext, Refuses, Next_, Chooses, Opens,
     SendSubscribe, Retries, GivesUp, UnsubscribeUnknown, TakeUnsubscribe, SendUnsubscribe,
     Join, TakeShutDown, Finish, Ends, Admits, Admit, vars, Typed, ListingTyped, refreshVars
<1>. QED
  BY <1>1, <1>2, <1>3, NextCases

(* ... of the requests,                                                    *)
LEMMA RequestsStep ==
  ASSUME Typed, SubscribesAreNew, [Next]_vars
  PROVE  RequestsTyped'
<1>1. CASE Asked
  <2>1. PICK s \in Symbols, op \in {"Subscribe", "Unsubscribe"} : Ask(s, op)
    BY <1>1 DEF Asked
  <2>2. sent + 1 \in Ids /\ sent' \in 0 .. MaxRequests
    BY <2>1, BoundsAssumption DEF Ask, Ids, Typed, RequestsTyped
  <2>3. [op |-> op, sym |-> s, id |-> sent + 1] \in Request
    BY <2>1, <2>2 DEF Request
  <2>4. requests' \in Seq(Request)
    BY <2>1, <2>3, AskFacts DEF Ask
  <2>. QED
    BY <2>1, <2>2, <2>4 DEF Ask, Typed, RequestsTyped
<1>2. CASE AskShutDown
  BY <1>2, AskFacts DEF AskShutDown, Request, Typed, RequestsTyped, refreshVars
<1>3. CASE Refuses \/ Chooses \/ Opens \/ UnsubscribeUnknown \/ TakeUnsubscribe
  BY <1>3, RequestFacts
     DEF Refuses, Next_, Chooses, Opens, UnsubscribeUnknown, TakeUnsubscribe, Typed,
     RequestsTyped, refreshVars
<1>4. CASE TakeShutDown
  BY <1>4, TailFacts DEF TakeShutDown, Next_, Typed, RequestsTyped, refreshVars
<1>5. CASE Ends
  BY <1>5, EndFacts DEF Ends, Typed, RequestsTyped, Running, refreshVars, requestVars
<1>6. CASE Admits
  BY <1>6, AdmitFacts DEF Admits, Admit, Typed, RequestsTyped, refreshVars, requestVars
<1>7. CASE Refreshes \/ TakeListing \/ RetireNext \/ RetireDone \/ SendSubscribe \/ Retries
            \/ GivesUp \/ SendUnsubscribe \/ Join \/ Finish \/ UNCHANGED vars
  BY <1>7
     DEF Refreshes, Refreshed, TakeListing, RetireNext, RetireDone, SendSubscribe, Retries,
     GivesUp, SendUnsubscribe, Join, Finish, vars, Typed, RequestsTyped, refreshVars,
     requestVars
<1>. QED
  BY <1>1, <1>2, <1>3, <1>4, <1>5, <1>6, <1>7, NextCases

(* ... of the router, and its counts,                                      *)
LEMMA RouterStep ==
  ASSUME Typed, LoadsAreRight, HandFits, TasksMatch, [Next]_vars
  PROVE  RouterTyped' /\ LoadsAreRight'
<1>. RouterTyped
  BY DEF Typed
<1>1. CASE RetireNext
  BY <1>1, RetireFacts, TakeFacts
<1>2. CASE Opens \/ Retries
  BY <1>2, OpensFacts, RetriesFacts
<1>3. CASE SendSubscribe
  BY <1>3, SubscribeFacts, BindFacts
<1>4. CASE GivesUp \/ Join
  BY <1>4, CloseFacts, JoinFacts
<1>5. CASE TakeUnsubscribe
  BY <1>5, RequestFacts, TakeFacts DEF TakeUnsubscribe
<1>6. CASE SendUnsubscribe
  BY <1>6, UnsubscribeFacts, ReapFacts
<1>7. CASE TakeShutDown
  BY <1>7 DEF TakeShutDown, Next_, RouterTyped, LoadsAreRight, Routed, refreshVars
<1>8. CASE Asked \/ AskShutDown \/ Refreshes \/ TakeListing \/ RetireDone \/ Refuses
            \/ Chooses \/ UnsubscribeUnknown \/ Finish \/ Ends \/ Admits \/ UNCHANGED vars
  BY <1>8
     DEF Asked, Ask, AskShutDown, Refreshes, Refreshed, TakeListing, RetireDone, Refuses,
     Next_, Chooses, UnsubscribeUnknown, Finish, Ends, Admits, Admit, vars, RouterTyped,
     LoadsAreRight, Bound, Routed, refreshVars, routerVars
<1>. QED
  BY <1>1, <1>2, <1>3, <1>4, <1>5, <1>6, <1>7, <1>8, NextCases

(* ... of the lanes,                                                       *)
LEMMA LanesStep ==
  ASSUME Typed, LoadsAreRight, HandFits, TasksMatch, SubscribesAreNew, [Next]_vars
  PROVE  LanesTyped'
<1>. LanesTyped
  BY DEF Typed
<1>1. CASE RetireNext \/ SendUnsubscribe
  BY <1>1, RetireFacts, UnsubscribeFacts, TellFacts DEF Tells
<1>2. CASE Opens \/ Retries
  BY <1>2, OpensFacts, RetriesFacts
<1>3. CASE SendSubscribe
  BY <1>3, SubscribeFacts, SendFacts
<1>4. CASE Ends
  BY <1>4, EndFacts DEF Ends, Typed, Running
<1>5. CASE Admits
  BY <1>5, AdmitFacts DEF Admits
<1>6. CASE Asked \/ AskShutDown \/ Refreshes \/ TakeListing \/ RetireDone \/ Refuses
            \/ Chooses \/ GivesUp \/ UnsubscribeUnknown \/ TakeUnsubscribe \/ Join
            \/ TakeShutDown \/ Finish \/ UNCHANGED vars
  BY <1>6
     DEF Asked, Ask, AskShutDown, Refreshes, Refreshed, TakeListing, RetireDone, Refuses,
     Next_, Chooses, GivesUp, UnsubscribeUnknown, TakeUnsubscribe, Join, TakeShutDown,
     Finish, vars, LanesTyped, refreshVars, laneVars
<1>. QED
  BY <1>1, <1>2, <1>3, <1>4, <1>5, <1>6, NextCases

(* ... of the supervisor,                                                  *)
LEMMA SupStep ==
  ASSUME Typed, LoadsAreRight, HandFits, TasksMatch, [Next]_vars
  PROVE  SupTyped'
<1>1. CASE RetireNext \/ SendSubscribe \/ SendUnsubscribe
  BY <1>1, RetireFacts, SubscribeFacts, UnsubscribeFacts DEF SupTyped
<1>2. CASE Opens \/ Chooses \/ TakeUnsubscribe
  BY <1>2, RequestFacts, OpensFacts
     DEF Opens, Next_, Chooses, TakeUnsubscribe, Typed, RouterTyped, SupTyped, Chosen,
     Subscribing, Unsubscribing
<1>3. CASE TakeListing
  <2>1. channel[1] \subseteq Symbols
    BY <1>3 DEF TakeListing, Typed, ListingTyped
  <2>2. PICK order \in [1 .. Cardinality(Routed \ channel[1]) -> Routed \ channel[1]] :
          sup' = [at |-> "retiring", gone |-> order, fresh |-> channel[1]]
    BY <1>3 DEF TakeListing
  <2>3. IsFiniteSet(Routed \ channel[1]) /\ Routed \subseteq Symbols
    BY FS_Subset, SymbolsAssumption DEF Typed, RouterTyped
  <2>4. order \in Seq(Symbols)
    <3>1. PICK n \in Nat : n = Cardinality(Routed \ channel[1])
      BY <2>3, FS_CardinalityType
    <3>2. order \in [1 .. n -> Symbols]
      BY <2>3, <3>1
    <3>. QED
      BY <3>2
  <2>. QED
    BY <2>1, <2>2, <2>4 DEF SupTyped, Retiring
<1>4. CASE Retries
  BY <1>4, HandFacts, RetriesFacts DEF Retries, Typed, SupTyped, Subscribing
<1>5. CASE Asked \/ AskShutDown \/ Refreshes \/ RetireDone \/ Refuses \/ GivesUp
            \/ UnsubscribeUnknown \/ Join \/ TakeShutDown \/ Finish \/ Ends \/ Admits
            \/ UNCHANGED vars
  BY <1>5
     DEF Asked, Ask, AskShutDown, Refreshes, Refreshed, RetireDone, Refuses, Next_, GivesUp,
     UnsubscribeUnknown, Join, TakeShutDown, Finish, Ends, Admits, Admit, vars, Typed,
     SupTyped, refreshVars
<1>. QED
  BY <1>1, <1>2, <1>3, <1>4, <1>5, NextCases

(* ... what it has in hand,                                                *)
LEMMA HandStep ==
  ASSUME Typed, LoadsAreRight, HandFits, TasksMatch, RouterTyped', [Next]_vars
  PROVE  HandFits'
<1>. Capacity \in Nat \ {0}
  BY SizesAssumption
<1>1. CASE TakeListing
  <2>. DEFINE G == Routed \ channel[1]
  <2>1. IsFiniteSet(G)
    BY FS_Subset, SymbolsAssumption DEF Typed, RouterTyped
  <2>2. PICK n \in Nat : n = Cardinality(G)
    BY <2>1, FS_CardinalityType
  <2>3. PICK order \in [1 .. n -> G] :
          /\ \A i, j \in DOMAIN order : order[i] = order[j] => i = j
          /\ sup' = [at |-> "retiring", gone |-> order, fresh |-> channel[1]]
    BY <1>1, <2>2 DEF TakeListing
  <2>4. order \in Injection(1 .. n, G)
    BY <2>3 DEF Injection, IsInjective
  <2>5. Cardinality(1 .. n) = Cardinality(G)
    BY <2>2, FS_Interval
  <2>6. order \in Surjection(1 .. n, G)
    BY <2>1, <2>4, <2>5, FS_Injection
  <2>7. \A s \in G : \E k \in 1 .. n : order[k] = s
    BY <2>6 DEF Surjection
  <2>8. {order[k] : k \in DOMAIN order} = G
    BY <2>3, <2>7
  <2>9. UNCHANGED <<bySymbol, lanes>>
    BY <1>1 DEF TakeListing, routerVars
  <2>10. sup'.at = "retiring" /\ sup'.gone = order /\ sup'.fresh = channel[1]
    BY <2>3
  <2>. QED
    BY <2>3, <2>8, <2>9, <2>10 DEF HandFits, Routed, Ended
<1>2. CASE RetireNext
  <2>1. /\ sup \in Retiring /\ sup' \in Retiring /\ sup.gone # <<>> /\ sup'.gone = Tail(sup.gone)
        /\ sup'.fresh = sup.fresh /\ sup.gone[1] \in Routed /\ Take(sup.gone[1]) /\ UNCHANGED opened
    BY <1>2, RetireFacts
  <2>2. Routed' = Routed \ {sup.gone[1]}
    BY <2>1, TakeFacts DEF Typed
  <2>3. sup.gone \in Seq(Symbols) /\ sup'.at = "retiring"
    BY <2>1 DEF Retiring
  <2>4. /\ {sup.gone[k] : k \in DOMAIN sup.gone} = Routed \ sup.fresh
        /\ \A j, k \in DOMAIN sup.gone : sup.gone[j] = sup.gone[k] => j = k
    BY <2>1 DEF HandFits, Retiring
  <2>5. /\ 1 \in DOMAIN sup.gone
        /\ \A i \in DOMAIN Tail(sup.gone) :
             i + 1 \in DOMAIN sup.gone /\ Tail(sup.gone)[i] = sup.gone[i + 1] /\ i \in Nat \ {0}
        /\ \A i \in DOMAIN sup.gone :
             i # 1 => i - 1 \in DOMAIN Tail(sup.gone) /\ Tail(sup.gone)[i - 1] = sup.gone[i]
    BY <2>1, <2>3, TailFacts
  <2>6. {Tail(sup.gone)[k] : k \in DOMAIN Tail(sup.gone)} = (Routed \ sup.fresh) \ {sup.gone[1]}
    <3>1. ASSUME NEW k \in DOMAIN Tail(sup.gone)
          PROVE  Tail(sup.gone)[k] \in (Routed \ sup.fresh) \ {sup.gone[1]}
      <4>1. k + 1 \in DOMAIN sup.gone /\ Tail(sup.gone)[k] = sup.gone[k + 1] /\ k \in Nat \ {0}
        BY <2>5
      <4>2. k + 1 # 1
        BY <4>1
      <4>. QED
        BY <2>4, <2>5, <4>1, <4>2
    <3>2. ASSUME NEW s \in (Routed \ sup.fresh) \ {sup.gone[1]}
          PROVE  \E k \in DOMAIN Tail(sup.gone) : Tail(sup.gone)[k] = s
      <4>1. PICK i \in DOMAIN sup.gone : sup.gone[i] = s
        BY <2>4
      <4>. QED
        BY <2>5, <4>1
    <3>. QED
      BY <3>1, <3>2
  <2>7. \A j, k \in DOMAIN Tail(sup.gone) : Tail(sup.gone)[j] = Tail(sup.gone)[k] => j = k
    <3>. SUFFICES ASSUME NEW j \in DOMAIN Tail(sup.gone), NEW k \in DOMAIN Tail(sup.gone),
                         Tail(sup.gone)[j] = Tail(sup.gone)[k]
                  PROVE  j = k
      OBVIOUS
    <3>1. j + 1 = k + 1 /\ j \in Nat /\ k \in Nat
      BY <2>4, <2>5
    <3>. QED
      BY <3>1
  <2>. QED
    BY <2>1, <2>2, <2>3, <2>6, <2>7 DEF HandFits, Ended
<1>3. CASE RetireDone \/ SendSubscribe \/ GivesUp \/ SendUnsubscribe \/ Join
  BY <1>3 DEF RetireDone, SendSubscribe, GivesUp, SendUnsubscribe, Join, HandFits, Idle, Ended
<1>4. CASE Chooses
  BY <1>4, RequestFacts
     DEF Chooses, Next_, HandFits, Routed, Ended, Held, Chosen, refreshVars, routerVars
<1>5. CASE Opens
  <2>1. /\ sup' = Chosen(opened', 0) /\ UNCHANGED <<listed, bySymbol>>
        /\ Head(requests).sym \in listed \ Routed
    BY <1>5, OpensFacts DEF Opens
  <2>2. opened' \in DOMAIN lanes' /\ lanes'[opened'] = 0
    BY <1>5, OpensFacts
  <2>. QED
    BY <2>1, <2>2 DEF HandFits, Chosen, Routed, Ended, Held
<1>6. CASE Retries
  <2>1. sup' = [sup EXCEPT !.lane = opened', !.attempt = 1] /\ UNCHANGED listed
    BY <1>6, RetriesFacts DEF Retries
  <2>2. opened' \in DOMAIN lanes' /\ lanes'[opened'] = 0 /\ Routed' \subseteq Routed
    BY <1>6, RetriesFacts
  <2>3. sup \in Subscribing /\ sup.sym \in listed \ Routed
    BY <1>6, HandFacts DEF Typed, Retries, HandFits
  <2>4. sup'.at = "subscribing" /\ sup'.sym = sup.sym /\ sup'.lane = opened'
    BY <2>1, <2>3 DEF Subscribing
  <2>. QED
    BY <2>1, <2>2, <2>3, <2>4 DEF HandFits, Ended, Held
<1>7. CASE TakeUnsubscribe
  <2>1. /\ Head(requests).sym \in Routed /\ Take(Head(requests).sym) /\ UNCHANGED opened
        /\ sup' = [at |-> "unsubscribing", sym |-> Head(requests).sym, lane |-> bySymbol[Head(requests).sym]]
    BY <1>7 DEF TakeUnsubscribe
  <2>2. Routed' = Routed \ {Head(requests).sym} /\ DOMAIN lanes' = DOMAIN lanes
    BY <2>1, TakeFacts DEF Typed
  <2>. QED
    BY <2>1, <2>2, BindingsAreHeld DEF HandFits, Ended, Held, Typed
<1>8. CASE TakeShutDown
  BY <1>8 DEF TakeShutDown, Next_, HandFits, Stopping, Ended, Routed, refreshVars
<1>9. CASE Finish
  BY <1>9 DEF Finish, HandFits, Stopping, Stopped, Ended, Routed, refreshVars, routerVars
<1>10. CASE Asked \/ AskShutDown \/ Refreshes \/ Refuses \/ UnsubscribeUnknown \/ Ends
            \/ Admits \/ UNCHANGED vars
  BY <1>10
     DEF Asked, Ask, AskShutDown, Refreshes, Refreshed, Refuses, Next_, UnsubscribeUnknown,
     Ends, Admits, Admit, vars, HandFits, Routed, Ended, Held, refreshVars, routerVars
<1>. QED
  BY <1>1, <1>2, <1>3, <1>4, <1>5, <1>6, <1>7, <1>8, <1>9, <1>10, NextCases

(* ... the listing,                                                        *)
LEMMA ListingHoldsStep ==
  ASSUME Typed, LoadsAreRight, HandFits, TasksMatch, ListingHolds, [Next]_vars
  PROVE  ListingHolds'
<1>1. CASE RetireDone
  BY <1>1, HandFacts
     DEF RetireDone, Typed, HandFits, ListingHolds, Idle, Retiring, Routed, refreshVars,
     routerVars
<1>2. CASE RetireNext \/ TakeListing
  BY <1>2, RetireFacts DEF RetireNext, TakeListing, Retiring, ListingHolds
<1>3. CASE SendSubscribe
  <2>1. Routed' = Routed \cup {sup.sym}
    BY <1>3, SubscribeFacts, BindFacts DEF Typed
  <2>. QED
    BY <1>3, <2>1, SubscribeFacts DEF ListingHolds, SendSubscribe
<1>4. CASE Chooses \/ Opens
  BY <1>4 DEF Chooses, Next_, Opens, Chosen, ListingHolds, Idle, Routed, refreshVars, routerVars
<1>5. CASE Retries \/ GivesUp
  BY <1>5, RetriesFacts, CloseFacts DEF Retries, GivesUp, Typed, ListingHolds
<1>6. CASE TakeUnsubscribe
  <2>1. /\ Head(requests).sym \in Routed /\ Take(Head(requests).sym) /\ UNCHANGED <<opened, listed>>
        /\ sup = Idle
    BY <1>6 DEF TakeUnsubscribe, Next_
  <2>2. Routed' = Routed \ {Head(requests).sym}
    BY <2>1, TakeFacts DEF Typed
  <2>. QED
    BY <2>1, <2>2 DEF ListingHolds, Idle
<1>7. CASE SendUnsubscribe \/ Join
  BY <1>7, JoinFacts DEF SendUnsubscribe, Join, Typed, ListingHolds, Routed
<1>8. CASE TakeShutDown \/ Finish
  BY <1>8 DEF TakeShutDown, Next_, Finish, ListingHolds, Stopping, Stopped, refreshVars
<1>9. CASE Asked \/ AskShutDown \/ Refreshes \/ Refuses \/ UnsubscribeUnknown \/ Ends
            \/ Admits \/ UNCHANGED vars
  BY <1>9
     DEF Asked, Ask, AskShutDown, Refreshes, Refreshed, Refuses, Next_, UnsubscribeUnknown,
     Ends, Admits, Admit, vars, ListingHolds, Routed, refreshVars, routerVars
<1>. QED
  BY <1>1, <1>2, <1>3, <1>4, <1>5, <1>6, <1>7, <1>8, <1>9, NextCases

(* ... and the tasks.                                                      *)
LEMMA TasksStep ==
  ASSUME Typed, LoadsAreRight, HandFits, TasksMatch, SubscribesAreNew, [Next]_vars
  PROVE  TasksMatch'
<1>. LanesTyped
  BY DEF Typed
<1>1. CASE Opens \/ Retries
  <2>1. /\ opened \in Nat /\ opened' = opened + 1 /\ opened' \in Lane /\ task'[opened'] = "running"
        /\ \A l \in Lane : l # opened' => task'[l] = task[l]
    BY <1>1, OpensFacts, RetriesFacts
  <2>2. UNCHANGED <<queue, slots>>
    BY <1>1 DEF Opens, Retries
  <2>. QED
    BY <2>1, <2>2 DEF TasksMatch, Lane
<1>2. CASE RetireNext \/ SendUnsubscribe
  <2>1. PICK l, c : Tells(l, c) /\ UNCHANGED opened
    BY <1>2, RetireFacts, UnsubscribeFacts
  <2>2. \A m \in Lane : m \notin Running => queue'[m] = queue[m]
    BY <2>1, SendFacts DEF Tells
  <2>. QED
    BY <2>1, <2>2 DEF Tells, TasksMatch, Running
<1>3. CASE SendSubscribe
  <2>1. \A m \in Lane : m \notin Running => queue'[m] = queue[m]
    BY <1>3, SubscribeFacts, SendFacts
  <2>. QED
    BY <1>3, <2>1, SubscribeFacts DEF TasksMatch, Running
<1>4. CASE Ends
  <2>1. PICK L \in SUBSET Running : End(L)
    BY <1>4 DEF Ends
  <2>2. L \in SUBSET Lane /\ \A l \in L : task[l] = "running"
    BY DEF Running
  <2>3. /\ \A l \in L : task'[l] = "ended" /\ queue'[l] = <<>> /\ slots'[l] = {}
        /\ \A l \in Lane : l \notin L => task'[l] = task[l] /\ queue'[l] = queue[l] /\ slots'[l] = slots[l]
    BY <2>1, <2>2, EndFacts DEF Typed
  <2>. QED
    BY <1>4, <2>2, <2>3 DEF Ends, TasksMatch, routerVars
<1>5. CASE Admits
  <2>1. PICK l \in Lane : Admit(l)
    BY <1>5 DEF Admits
  <2>2. task[l] = "running" /\ UNCHANGED <<task, opened>>
    BY <2>1 DEF Admit, Running, routerVars
  <2>3. \A m \in Lane : m # l => queue'[m] = queue[m] /\ slots'[m] = slots[m]
    BY <2>1, AdmitFacts
  <2>. QED
    BY <2>2, <2>3 DEF TasksMatch
<1>6. CASE Asked \/ AskShutDown \/ Refreshes \/ TakeListing \/ RetireDone \/ Refuses
            \/ Chooses \/ GivesUp \/ UnsubscribeUnknown \/ TakeUnsubscribe \/ Join
            \/ TakeShutDown \/ Finish \/ UNCHANGED vars
  BY <1>6
     DEF Asked, Ask, AskShutDown, Refreshes, Refreshed, TakeListing, RetireDone, Refuses,
     Next_, Chooses, GivesUp, UnsubscribeUnknown, TakeUnsubscribe, Join, TakeShutDown,
     Finish, vars, TasksMatch, refreshVars, routerVars, laneVars
<1>. QED
  BY <1>1, <1>2, <1>3, <1>4, <1>5, <1>6, NextCases

-----------------------------------------------------------------------------
(* The tables *)

(* A step that leaves queues and tables alone ends up where it did.        *)
LEMMA SameTables ==
  ASSUME UNCHANGED <<queue, slots>>
  PROVE  \A l : AfterQueue(l)' = AfterQueue(l) /\ \A n : After(l, n)' = After(l, n)
BY DEF AfterQueue, After

(* A lane that does not run ends up with nothing.                          *)
LEMMA IdleTables ==
  ASSUME Typed, TasksMatch, NEW l \in Lane, l \notin Running
  PROVE  AfterQueue(l) = {}
<1>1. queue[l] = <<>> /\ slots[l] = {}
  BY DEF TasksMatch, Running
<1>2. Len(queue[l]) = 0
  BY <1>1
<1>3. Through(queue[l], slots[l], 0) = {}
  BY <1>1, ThroughNone
<1>. QED
  BY <1>2, <1>3, AfterIsThrough

(* A lane that is opened starts with nothing, and leaves the others alone. *)
LEMMA OwnLane ==
  ASSUME Typed, HandFits, LoadsAreRight, TasksMatch, Opens \/ Retries
  PROVE  /\ opened' \in Lane /\ Running' = Running \cup {opened'} /\ opened' \notin Running
         /\ \A l : l = opened' => AfterQueue(l)' = {} /\ Bound(l)' = {}
         /\ \A l \in Running : Bound(l)' = Bound(l)
         /\ \A l \in Lane : AfterQueue(l)' = AfterQueue(l)
<1>1. PICK h \in Lane : /\ h = opened + 1 /\ opened' = h /\ task'[h] = "running" /\ Bound(h)' = {}
                        /\ \A l \in Lane : l # h => task'[l] = task[l]
  BY OpensFacts, RetriesFacts
<1>2. opened < h
  BY <1>1 DEF Typed, RouterTyped
<1>3. h \notin Running
  BY <1>2 DEF TasksMatch, Running
<1>4. UNCHANGED <<queue, slots>>
  BY DEF Opens, Retries
<1>5. \A l : AfterQueue(l)' = AfterQueue(l)
  BY <1>4, SameTables
<1>6. AfterQueue(h) = {}
  BY <1>3, IdleTables
<1>7. ASSUME NEW l \in Running
      PROVE  Bound(l)' = Bound(l)
  <2>1. CASE Opens
    BY <2>1, OpensFacts
  <2>2. CASE Retries
    <3>1. sup.lane \notin Running
      BY <2>2, GoneHasEnded DEF Retries, HandFits
    <3>. QED
      BY <2>2, <3>1, RetriesFacts
  <2>. QED
    BY <2>1, <2>2
<1>8. Running' = Running \cup {h}
  BY <1>1 DEF Running
<1>9. \A l : l = h => AfterQueue(l)' = {} /\ Bound(l)' = {}
  BY <1>1, <1>5, <1>6
<1>. QED
  BY <1>1, <1>3, <1>5, <1>7, <1>8, <1>9

(* Each step keeps the tables after the router's,                          *)
LEMMA FollowStep ==
  ASSUME Typed, LoadsAreRight, HandFits, TasksMatch, SubscribesAreNew, TablesFollow, [Next]_vars
  PROVE  TablesFollow'
<1>. LanesTyped /\ RouterTyped /\ SupTyped
  BY DEF Typed
<1>1. CASE RetireNext
  <2>. DEFINE s == sup.gone[1]
              h == bySymbol[s]
  <2>1. /\ sup.at = "retiring" /\ sup'.at = "retiring" /\ s \in Routed /\ s \in Symbols
        /\ Take(s) /\ UNCHANGED opened /\ Tells(h, UnsubscribeCmd(s))
    BY <1>1, RetireFacts DEF Retiring
  <2>2. h \in Lane /\ \A l : Bound(l)' = Bound(l) \ {s}
    BY <2>1, TakeFacts DEF Tells
  <2>3. /\ UNCHANGED task
        /\ \A l \in Lane : AfterQueue(l)' = IF l = h /\ h \in Running THEN AfterQueue(l) \ {s} ELSE AfterQueue(l)
    BY <2>1, <2>2, TellFacts
  <2>4. \A l : l # h => s \notin Bound(l)
    BY DEF Bound
  <2>. HIDE DEF s, h
  <2>. QED
    BY <2>1, <2>2, <2>3, <2>4 DEF TablesFollow, Running, Ended, InHand
<1>2. CASE SendUnsubscribe
  <2>1. /\ sup \in Unsubscribing /\ sup.sym \in Symbols /\ sup.sym \notin Routed
        /\ UNCHANGED bySymbol /\ sup' = Idle /\ Tells(sup.lane, UnsubscribeCmd(sup.sym))
    BY <1>2, UnsubscribeFacts
  <2>2. sup.lane \in Lane /\ sup.at = "unsubscribing" /\ \A l : sup.sym \notin Bound(l)
    BY <2>1 DEF Unsubscribing, Bound
  <2>3. /\ UNCHANGED task
        /\ \A l \in Lane : AfterQueue(l)' = IF l = sup.lane /\ sup.lane \in Running
                                            THEN AfterQueue(l) \ {sup.sym} ELSE AfterQueue(l)
    BY <2>1, <2>2, TellFacts
  <2>4. \A l : Bound(l)' = Bound(l)
    BY <2>1 DEF Bound, Routed
  <2>. QED
    BY <2>1, <2>2, <2>3, <2>4 DEF TablesFollow, Running, Ended, InHand, Idle
<1>3. CASE SendSubscribe
  <2>. DEFINE h == sup.lane
              s == sup.sym
  <2>1. /\ h \in Lane /\ h \in DOMAIN lanes /\ s \in Symbols /\ s \notin Routed /\ sup.at = "subscribing"
        /\ Bind(s, h) /\ UNCHANGED <<opened, task, slots>> /\ sup' = Idle
    BY <1>3, SubscribeFacts DEF Subscribing
  <2>2. \A l : Bound(l)' = IF l = h THEN Bound(l) \cup {s} ELSE Bound(l)
    BY <2>1, BindFacts
  <2>3. PICK c \in Command : Send(h, c) /\ IsSub(c) /\ c.sym = s
    BY <1>3, SubscribeFacts
  <2>4. \A l \in Lane : AfterQueue(l)' = IF l = h THEN AfterQueue(l) \cup {s} ELSE AfterQueue(l)
    BY <2>1, <2>3, SendFacts
  <2>. HIDE DEF s, h
  <2>. QED
    BY <2>1, <2>2, <2>4 DEF TablesFollow, Running, Ended, InHand, Idle
<1>4. CASE Opens \/ Retries
  <2>1. sup.at \in {"idle", "subscribing"} /\ sup'.at = "subscribing"
    <3>1. CASE Opens
      BY <3>1 DEF Opens, Next_, Idle, Chosen
    <3>2. CASE Retries
      <4>1. sup \in Subscribing
        BY <3>2, HandFacts DEF Retries
      <4>. QED
        BY <3>2, <4>1 DEF Retries, Subscribing
    <3>. QED
      BY <1>4, <3>1, <3>2
  <2>2. /\ opened' \in Lane /\ Running' = Running \cup {opened'}
        /\ \A l : l = opened' => AfterQueue(l)' = {} /\ Bound(l)' = {}
        /\ \A l \in Running : Bound(l)' = Bound(l)
        /\ \A l \in Lane : AfterQueue(l)' = AfterQueue(l)
    BY <1>4, OwnLane
  <2>3. \A l : InHand(l) = {} /\ InHand(l)' = {}
    BY <2>1 DEF InHand
  <2>4. \A l \in Running : AfterQueue(l) = Bound(l)
    BY <2>1, <2>3 DEF TablesFollow, Ended
  <2>5. Running \subseteq Lane
    BY DEF Running
  <2>6. \A l \in Running' : AfterQueue(l)' = Bound(l)' \cup InHand(l)'
    BY <2>2, <2>3, <2>4, <2>5
  <2>. QED
    BY <2>6 DEF TablesFollow
<1>5. CASE GivesUp \/ Join
  <2>1. \A l \in Running : Bound(l)' = Bound(l)
    <3>1. CASE GivesUp
      <4>1. sup.lane \notin Running
        BY <3>1, GoneHasEnded DEF GivesUp, HandFits
      <4>. QED
        BY <3>1, <4>1, CloseFacts
    <3>. QED
      BY <1>5, <3>1, JoinFacts
  <2>2. UNCHANGED <<queue, slots, task>> /\ sup' = Idle /\ sup.at \in {"idle", "subscribing"}
    BY <1>5 DEF GivesUp, Join, laneVars, Idle
  <2>. QED
    BY <2>1, <2>2, SameTables DEF TablesFollow, Running, Ended, InHand, Idle
<1>6. CASE TakeUnsubscribe
  <2>. DEFINE s == Head(requests).sym
              h == bySymbol[s]
  <2>1. /\ s \in Routed /\ Take(s) /\ UNCHANGED <<opened, queue, slots, task>> /\ sup = Idle
        /\ sup' = [at |-> "unsubscribing", sym |-> s, lane |-> h]
    BY <1>6 DEF TakeUnsubscribe, laneVars, Next_
  <2>2. \A l : Bound(l)' = Bound(l) \ {s}
    BY <2>1, TakeFacts
  <2>3. \A l : s \in Bound(l) <=> l = h
    BY <2>1 DEF Bound
  <2>4. \A l : InHand(l) = {} /\ InHand(l)' = IF l = h THEN {s} ELSE {}
    BY <2>1 DEF InHand, Idle
  <2>. HIDE DEF s, h
  <2>. QED
    BY <2>1, <2>2, <2>3, <2>4, SameTables DEF TablesFollow, Running, Ended, Idle
<1>7. CASE TakeShutDown \/ Finish
  BY <1>7 DEF TakeShutDown, Next_, Finish, TablesFollow, Ended, Stopping, Stopped
<1>8. CASE Ends
  <2>1. PICK L \in SUBSET Running : End(L)
    BY <1>8 DEF Ends
  <2>2. L \in SUBSET Lane
    BY DEF Running
  <2>3. /\ \A l \in L : task'[l] = "ended"
        /\ \A l \in Lane : l \notin L => task'[l] = task[l] /\ AfterQueue(l)' = AfterQueue(l)
    BY <2>1, <2>2, EndFacts DEF Typed
  <2>. QED
    BY <1>8, <2>2, <2>3
       DEF Ends, TablesFollow, Running, Ended, InHand, Bound, Routed, routerVars
<1>9. CASE Admits
  <2>1. PICK l \in Lane : Admit(l)
    BY <1>9 DEF Admits
  <2>2. UNCHANGED <<task, bySymbol, sup>>
    BY <2>1 DEF Admit, routerVars
  <2>3. \A m \in Lane : AfterQueue(m)' = AfterQueue(m)
    BY <2>1, AdmitFacts
  <2>. QED
    BY <2>2, <2>3 DEF TablesFollow, Running, Ended, InHand, Bound, Routed
<1>10. CASE TakeListing \/ RetireDone \/ Chooses
  BY <1>10, SameTables
     DEF TakeListing, RetireDone, Chooses, Next_, TablesFollow, Running, Ended, InHand,
     Bound, Routed, Idle, Chosen, refreshVars, routerVars, laneVars
<1>11. CASE Asked \/ AskShutDown \/ Refreshes \/ Refuses \/ UnsubscribeUnknown
            \/ UNCHANGED vars
  <2>1. UNCHANGED <<queue, slots, task, bySymbol, sup>>
    BY <1>11
       DEF Asked, Ask, AskShutDown, Refreshes, Refreshed, Refuses, UnsubscribeUnknown, vars,
       routerVars, laneVars
  <2>. QED
    BY <2>1, SameTables DEF TablesFollow, Running, Ended, InHand, Bound, Routed
<1>. QED
  BY <1>1, <1>2, <1>3, <1>4, <1>5, <1>6, <1>7, <1>8, <1>9, <1>10, <1>11, NextCases

(* What is about to be subscribed is in no table.                          *)
LEMMA SubscribedNowhere ==
  ASSUME Typed, HandFits, TasksMatch, TablesFollow, sup.at = "subscribing"
  PROVE  \A l \in Lane : /\ sup.sym \notin AfterQueue(l)
                         /\ l \in Running => AfterQueue(l) = Bound(l)
<1>1. \A l \in Running : AfterQueue(l) = Bound(l) /\ Bound(l) \subseteq Routed
  BY DEF TablesFollow, Ended, InHand, Bound
<1>. QED
  BY <1>1, IdleTables DEF HandFits

(* ... apart,                                                              *)
LEMMA ApartStep ==
  ASSUME Typed, LoadsAreRight, HandFits, TasksMatch, SubscribesAreNew, TablesFollow, TablesApart,
         [Next]_vars
  PROVE  TablesApart'
<1>. LanesTyped
  BY DEF Typed
<1>0. (\A l \in Lane : AfterQueue(l)' \subseteq AfterQueue(l)) => TablesApart'
  BY DEF TablesApart
<1>1. CASE RetireNext \/ SendUnsubscribe
  <2>1. PICK l \in Lane, s \in Symbols : Tells(l, UnsubscribeCmd(s))
    BY <1>1, RetireFacts, UnsubscribeFacts DEF Tells
  <2>. QED
    BY <1>0, <2>1, TellFacts
<1>2. CASE SendSubscribe
  <2>1. /\ sup.lane \in Lane /\ UNCHANGED <<task, slots>> /\ sup.at = "subscribing"
        /\ \E c \in Command : Send(sup.lane, c) /\ IsSub(c) /\ c.sym = sup.sym
    BY <1>2, SubscribeFacts DEF SendSubscribe
  <2>2. \A l \in Lane : AfterQueue(l)' = IF l = sup.lane THEN AfterQueue(l) \cup {sup.sym} ELSE AfterQueue(l)
    BY <2>1, SendFacts
  <2>. QED
    BY <2>1, <2>2, SubscribedNowhere DEF TablesApart
<1>3. CASE Ends
  <2>1. PICK L \in SUBSET Running : End(L)
    BY <1>3 DEF Ends
  <2>2. L \in SUBSET Lane
    BY DEF Running
  <2>. QED
    BY <1>0, <2>1, <2>2, EndFacts DEF Typed
<1>4. CASE Admits
  BY <1>4, <1>0, AdmitFacts DEF Admits
<1>5. CASE Asked \/ AskShutDown \/ Refreshes \/ TakeListing \/ RetireDone \/ Refuses
            \/ Chooses \/ Opens \/ Retries \/ GivesUp \/ UnsubscribeUnknown
            \/ TakeUnsubscribe \/ Join \/ TakeShutDown \/ Finish \/ UNCHANGED vars
  BY <1>5, <1>0, SameTables
     DEF Asked, Ask, AskShutDown, Refreshes, Refreshed, TakeListing, RetireDone, Refuses,
     Next_, Chooses, Opens, Retries, GivesUp, UnsubscribeUnknown, TakeUnsubscribe, Join,
     TakeShutDown, Finish, vars, refreshVars, laneVars
<1>. QED
  BY <1>1, <1>2, <1>3, <1>4, <1>5, NextCases

(* A command that fits at the end fits everywhere.                         *)
LEMMA FitAfterSend ==
  ASSUME LanesTyped, TablesFit, NEW l \in Lane, NEW c \in Command, Send(l, c), UNCHANGED <<task, slots>>,
         Cardinality(AfterQueue(l)') <= Capacity
  PROVE  TablesFit'
<1>1. Len(queue[l]) \in Nat
  BY QueueFacts
<1>2. /\ Len(queue'[l]) = Len(queue[l]) + 1
      /\ \A m \in Lane : m # l => queue'[m] = queue[m] /\ \A n : After(m, n)' = After(m, n)
      /\ \A n \in 0 .. Len(queue[l]) : After(l, n)' = After(l, n)
  BY SendFacts
<1>3. \A n : n = Len(queue[l]) + 1 => After(l, n)' = AfterQueue(l)'
  BY <1>2 DEF AfterQueue, After
<1>4. \A n \in 0 .. Len(queue'[l]) : n \in 0 .. Len(queue[l]) \/ n = Len(queue[l]) + 1
  BY <1>1, <1>2
<1>5. \A n \in 0 .. Len(queue'[l]) : Cardinality(After(l, n)') <= Capacity
  BY <1>2, <1>3, <1>4 DEF TablesFit
<1>. QED
  BY <1>2, <1>5 DEF TablesFit

(* ... within their capacity,                                              *)
LEMMA FitStep ==
  ASSUME Typed, LoadsAreRight, HandFits, TasksMatch, SubscribesAreNew, TablesFollow, TablesFit, [Next]_vars
  PROVE  TablesFit'
<1>. LanesTyped /\ RouterTyped
  BY DEF Typed
<1>. Capacity \in Nat \ {0}
  BY SizesAssumption
<1>1. CASE RetireNext \/ SendUnsubscribe
  <2>1. PICK l \in Lane, s \in Symbols : Tells(l, UnsubscribeCmd(s))
    BY <1>1, RetireFacts, UnsubscribeFacts DEF Tells
  <2>2. CASE UNCHANGED queue
    BY <2>1, <2>2, SameTables DEF Tells, TablesFit
  <2>3. CASE Send(l, UnsubscribeCmd(s))
    <3>1. AfterQueue(l)' \subseteq AfterQueue(l)
      BY <2>1, TellFacts
    <3>2. /\ IsFiniteSet(AfterQueue(l)) /\ Cardinality(AfterQueue(l)) \in Nat
          /\ Cardinality(AfterQueue(l)) <= Capacity
      BY TablesAreFinite, QueueFacts DEF TablesFit, AfterQueue
    <3>3. Cardinality(AfterQueue(l)') <= Cardinality(AfterQueue(l)) /\ Cardinality(AfterQueue(l)') \in Nat
      BY <3>1, <3>2, FS_Subset, FS_CardinalityType
    <3>4. Cardinality(AfterQueue(l)') <= Capacity
      BY <3>2, <3>3
    <3>. QED
      BY <2>1, <2>3, <3>4, FitAfterSend DEF Tells
  <2>. QED
    BY <2>1, <2>2, <2>3 DEF Tells
<1>2. CASE SendSubscribe
  <2>1. PICK l \in Lane :
          /\ l = sup.lane /\ l \in Running /\ l \in DOMAIN lanes /\ lanes[l] < Capacity
          /\ UNCHANGED <<task, slots>> /\ sup.at = "subscribing"
    BY <1>2, SubscribeFacts DEF SendSubscribe
  <2>2. PICK c \in Command : Send(l, c) /\ IsSub(c) /\ c.sym = sup.sym
    BY <1>2, <2>1, SubscribeFacts
  <2>3. AfterQueue(l)' = Bound(l) \cup {sup.sym} /\ sup.sym \notin Bound(l)
    <3>1. AfterQueue(l)' = AfterQueue(l) \cup {c.sym}
      BY <2>1, <2>2, SendFacts
    <3>2. AfterQueue(l) = Bound(l) /\ sup.sym \notin AfterQueue(l)
      BY <2>1, SubscribedNowhere
    <3>. QED
      BY <2>2, <3>1, <3>2
  <2>4. IsFiniteSet(Bound(l)) /\ Cardinality(Bound(l)) \in Nat /\ Cardinality(Bound(l)) < Capacity
    BY <2>1, BoundIsFinite DEF LoadsAreRight
  <2>5. Cardinality(Bound(l) \cup {sup.sym}) = Cardinality(Bound(l)) + 1
    BY <2>3, <2>4, FS_AddElement
  <2>6. Cardinality(AfterQueue(l)') <= Capacity
    BY <2>3, <2>4, <2>5
  <2>. QED
    BY <2>1, <2>2, <2>6, FitAfterSend
<1>3. CASE Ends
  <2>1. PICK L \in SUBSET Running : End(L)
    BY <1>3 DEF Ends
  <2>2. L \in SUBSET Lane
    BY DEF Running
  <2>3. /\ \A l \in L : queue'[l] = <<>> /\ After(l, 0)' = {}
        /\ \A l \in Lane : l \notin L => queue'[l] = queue[l] /\ \A n : After(l, n)' = After(l, n)
    BY <2>1, <2>2, EndFacts DEF Typed
  <2>4. Cardinality({}) = 0 /\ Len(<<>>) = 0 /\ 0 .. 0 = {0}
    BY FS_EmptySet
  <2>5. ASSUME NEW l \in L
        PROVE  \A n \in 0 .. Len(queue'[l]) : Cardinality(After(l, n)') <= Capacity
    <3>1. queue'[l] = <<>> /\ After(l, 0)' = {} /\ Len(queue'[l]) = 0
      BY <2>3, <2>4
    <3>2. \A n \in 0 .. Len(queue'[l]) : n = 0
      BY <3>1
    <3>. QED
      BY <2>4, <3>1, <3>2
  <2>. QED
    BY <2>3, <2>5 DEF TablesFit
<1>4. CASE Admits
  <2>1. PICK l \in Lane : Admit(l)
    BY <1>4 DEF Admits
  <2>2. /\ queue[l] \in Seq(Command) /\ queue[l] # <<>> /\ queue'[l] = Tail(queue[l])
        /\ \A m \in Lane : m # l => queue'[m] = queue[m] /\ \A n : After(m, n)' = After(m, n)
        /\ \A n \in Nat : n < Len(queue[l]) => After(l, n)' = After(l, n + 1)
    BY <2>1, AdmitFacts
  <2>3. Len(queue'[l]) + 1 = Len(queue[l]) /\ Len(queue'[l]) \in Nat
    BY <2>2, TailFacts
  <2>4. ASSUME NEW n \in 0 .. Len(queue'[l])
        PROVE  Cardinality(After(l, n)') <= Capacity
    <3>1. n \in Nat /\ n < Len(queue[l]) /\ n + 1 \in 0 .. Len(queue[l])
      BY <2>3
    <3>. QED
      BY <2>2, <3>1 DEF TablesFit
  <2>. QED
    BY <2>2, <2>4 DEF TablesFit
<1>5. CASE Asked \/ AskShutDown \/ Refreshes \/ TakeListing \/ RetireDone \/ Refuses
            \/ Chooses \/ Opens \/ Retries \/ GivesUp \/ UnsubscribeUnknown
            \/ TakeUnsubscribe \/ Join \/ TakeShutDown \/ Finish \/ UNCHANGED vars
  BY <1>5, SameTables
     DEF Asked, Ask, AskShutDown, Refreshes, Refreshed, TakeListing, RetireDone, Refuses,
     Next_, Chooses, Opens, Retries, GivesUp, UnsubscribeUnknown, TakeUnsubscribe, Join,
     TakeShutDown, Finish, vars, TablesFit, refreshVars, laneVars
<1>. QED
  BY <1>1, <1>2, <1>3, <1>4, <1>5, NextCases

(* A command that is new at the end is new.                                *)
LEMMA NewAfterSend ==
  ASSUME LanesTyped, SubscribesAreNew, NEW l \in Lane, NEW c \in Command, Send(l, c),
         UNCHANGED <<task, slots>>, IsSub(c) => c.sym \notin AfterQueue(l)
  PROVE  SubscribesAreNew'
<1>1. queue[l] \in Seq(Command) /\ Len(queue[l]) \in Nat
  BY QueueFacts
<1>2. /\ queue'[l] = Append(queue[l], c)
      /\ \A m \in Lane : m # l => queue'[m] = queue[m] /\ \A n : After(m, n)' = After(m, n)
      /\ \A n \in 0 .. Len(queue[l]) : After(l, n)' = After(l, n)
  BY SendFacts
<1>3. ASSUME NEW n \in DOMAIN queue'[l], IsSub(queue'[l][n])
      PROVE  queue'[l][n].sym \notin After(l, n - 1)'
  <2>1. \/ n \in DOMAIN queue[l] /\ queue'[l][n] = queue[l][n]
        \/ n = Len(queue[l]) + 1 /\ queue'[l][n] = c
    BY <1>1, <1>2, <1>3, AppendFacts
  <2>2. CASE n \in DOMAIN queue[l] /\ queue'[l][n] = queue[l][n]
    <3>1. n - 1 \in 0 .. Len(queue[l])
      BY <1>1, <2>2
    <3>. QED
      BY <1>2, <1>3, <2>2 DEF SubscribesAreNew
  <2>3. CASE n = Len(queue[l]) + 1 /\ queue'[l][n] = c
    <3>1. n - 1 = Len(queue[l]) /\ Len(queue[l]) \in 0 .. Len(queue[l])
      BY <1>1, <2>3
    <3>2. \A m : m = Len(queue[l]) => After(l, m)' = After(l, m)
      BY <1>2, <3>1
    <3>3. After(l, n - 1)' = AfterQueue(l)
      BY <3>1, <3>2 DEF AfterQueue
    <3>. QED
      BY <1>3, <2>3, <3>3
  <2>. QED
    BY <2>1, <2>2, <2>3
<1>. QED
  BY <1>2, <1>3 DEF SubscribesAreNew

(* ... and free of repeats.                                                *)
LEMMA NewStep ==
  ASSUME Typed, HandFits, LoadsAreRight, TasksMatch, TablesFollow, SubscribesAreNew, [Next]_vars
  PROVE  SubscribesAreNew'
<1>. LanesTyped /\ RouterTyped
  BY DEF Typed
<1>1. CASE RetireNext \/ SendUnsubscribe
  <2>1. PICK l \in Lane, s \in Symbols : Tells(l, UnsubscribeCmd(s))
    BY <1>1, RetireFacts, UnsubscribeFacts DEF Tells
  <2>2. CASE UNCHANGED queue
    BY <2>1, <2>2, SameTables DEF Tells, SubscribesAreNew
  <2>3. CASE Send(l, UnsubscribeCmd(s))
    BY <2>1, <2>3, CommandFacts, NewAfterSend DEF Tells
  <2>. QED
    BY <2>1, <2>2, <2>3 DEF Tells
<1>2. CASE SendSubscribe
  BY <1>2, SubscribeFacts, SubscribedNowhere, NewAfterSend DEF SendSubscribe
<1>3. CASE Ends
  <2>1. PICK L \in SUBSET Running : End(L)
    BY <1>3 DEF Ends
  <2>2. L \in SUBSET Lane
    BY DEF Running
  <2>3. /\ \A l \in L : queue'[l] = <<>>
        /\ \A l \in Lane : l \notin L => queue'[l] = queue[l] /\ \A n : After(l, n)' = After(l, n)
    BY <2>1, <2>2, EndFacts DEF Typed
  <2>. QED
    BY <2>3 DEF SubscribesAreNew
<1>4. CASE Admits
  <2>1. PICK l \in Lane : Admit(l)
    BY <1>4 DEF Admits
  <2>2. /\ queue[l] \in Seq(Command) /\ queue[l] # <<>> /\ queue'[l] = Tail(queue[l])
        /\ \A m \in Lane : m # l => queue'[m] = queue[m] /\ \A n : After(m, n)' = After(m, n)
        /\ \A n \in Nat : n < Len(queue[l]) => After(l, n)' = After(l, n + 1)
    BY <2>1, AdmitFacts
  <2>3. ASSUME NEW n \in DOMAIN queue'[l], IsSub(queue'[l][n])
        PROVE  queue'[l][n].sym \notin After(l, n - 1)'
    <3>1. n \in Nat \ {0} /\ n + 1 \in DOMAIN queue[l] /\ queue'[l][n] = queue[l][n + 1]
      BY <2>2, TailFacts
    <3>2. Len(queue[l]) \in Nat /\ n + 1 <= Len(queue[l])
      BY <2>2, <3>1
    <3>3. n - 1 \in Nat /\ n - 1 < Len(queue[l]) /\ (n - 1) + 1 = n /\ (n + 1) - 1 = n
      BY <3>1, <3>2
    <3>4. After(l, n - 1)' = After(l, n)
      BY <2>2, <3>3
    <3>. QED
      BY <2>3, <3>1, <3>4 DEF SubscribesAreNew
  <2>. QED
    BY <2>2, <2>3 DEF SubscribesAreNew
<1>5. CASE Asked \/ AskShutDown \/ Refreshes \/ TakeListing \/ RetireDone \/ Refuses
            \/ Chooses \/ Opens \/ Retries \/ GivesUp \/ UnsubscribeUnknown
            \/ TakeUnsubscribe \/ Join \/ TakeShutDown \/ Finish \/ UNCHANGED vars
  BY <1>5, SameTables
     DEF Asked, Ask, AskShutDown, Refreshes, Refreshed, TakeListing, RetireDone, Refuses,
     Next_, Chooses, Opens, Retries, GivesUp, UnsubscribeUnknown, TakeUnsubscribe, Join,
     TakeShutDown, Finish, vars, SubscribesAreNew, refreshVars, laneVars
<1>. QED
  BY <1>1, <1>2, <1>3, <1>4, <1>5, NextCases

-----------------------------------------------------------------------------
(* The life of a request *)

(* The requests are what they were ...                                     *)
RequestsStay == \A k : (Asks(k)' <=> Asks(k)) /\ (Asks(k) => requests'[k] = requests[k])

(* ... but for the first ...                                               *)
RequestsShift ==
  /\ \A k : Asks(k)' => Asks(k + 1) /\ requests'[k] = requests[k + 1] /\ k \in Nat /\ k + 1 # 1
  /\ \A k : Asks(k) /\ k # 1 => k \in Nat /\ Asks(k - 1)' /\ requests'[k - 1] = requests[k]

(* ... the queued subscribes are ...                                       *)
QueuesStay ==
  \A l \in Lane : \A n : /\ Queued(l, n)' <=> Queued(l, n)
                         /\ Queued(l, n) => queue'[l][n] = queue[l][n]

(* ... and so is the one in hand.                                          *)
HandStays ==
  /\ (sup'.at = "subscribing") <=> (sup.at = "subscribing")
  /\ sup.at = "subscribing" => sup'.id = sup.id

(* No request moves; ...                                                   *)
NoneMoves == RequestsStay /\ QueuesStay /\ HandStays /\ UNCHANGED <<sent, answer>>

(* ... one is asked; ...                                                   *)
IsAsked ==
  \E r \in Request :
    /\ r # ShutDown /\ r.id = sent + 1 /\ sent + 1 \in Ids /\ sent' = sent + 1 /\ QueuesStay /\ HandStays
    /\ \A k : Asks(k)' => \/ Asks(k) /\ requests'[k] = requests[k]
                          \/ k = Len(requests) + 1 /\ requests'[k] = r
    /\ \A k : Asks(k) => Asks(k)' /\ requests'[k] = requests[k]
    /\ \E k : Asks(k)' /\ requests'[k] = r
    /\ answer' = IF IsSub(r) THEN [answer EXCEPT ![sent + 1] = "asked"] ELSE answer

(* ... one is taken and ends there; ...                                    *)
IsPutAside ==
  /\ RequestsShift /\ QueuesStay /\ sup.at # "subscribing" /\ sup'.at # "subscribing" /\ UNCHANGED sent
  /\ \/ Asks(1) /\ answer' = [answer EXCEPT ![requests[1].id] = "refused"]
     \/ (Asks(1) => ~IsSub(requests[1])) /\ UNCHANGED answer

(* ... one is taken in hand; ...                                           *)
IsTaken ==
  /\ RequestsShift /\ QueuesStay /\ Asks(1) /\ IsSub(requests[1])
  /\ sup.at # "subscribing" /\ sup'.at = "subscribing" /\ sup'.id = requests[1].id
  /\ UNCHANGED <<sent, answer>>

(* ... one is sent to a lane; ...                                          *)
IsSent ==
  /\ RequestsStay /\ sup.at = "subscribing" /\ sup'.at # "subscribing" /\ UNCHANGED <<sent, answer>>
  /\ \E h \in Lane : \E m :
       /\ Queued(h, m)' /\ queue'[h][m].id = sup.id
       /\ \A l \in Lane : \A n : Queued(l, n) => Queued(l, n)' /\ queue'[l][n] = queue[l][n]
       /\ \A l \in Lane : \A n : Queued(l, n)' => \/ Queued(l, n) /\ queue'[l][n] = queue[l][n]
                                                  \/ l = h /\ n = m

(* ... one is given up; ...                                                *)
IsGivenUp ==
  /\ RequestsStay /\ QueuesStay /\ sup.at = "subscribing" /\ sup'.at # "subscribing"
  /\ UNCHANGED sent /\ answer' = [answer EXCEPT ![sup.id] = "refused"]

(* ... those of lanes that end are dropped; ...                            *)
IsLost ==
  /\ RequestsStay /\ HandStays /\ UNCHANGED sent
  /\ \E L \in SUBSET Lane :
       /\ \A l \in Lane : \A n : Queued(l, n)' <=> l \notin L /\ Queued(l, n)
       /\ \A l \in Lane : \A n : Queued(l, n)' => queue'[l][n] = queue[l][n]
       /\ \A i \in Ids : \/ answer'[i] = answer[i] /\ \A l \in L : \A n : ~(Queued(l, n) /\ queue[l][n].id = i)
                         \/ answer'[i] = "dropped" /\ \E l \in L : \E n : Queued(l, n) /\ queue[l][n].id = i

(* ... or a lane answers one with a reader.                                *)
IsAdmitted ==
  /\ RequestsStay /\ HandStays /\ UNCHANGED sent
  /\ \E h \in Lane :
       /\ \A l \in Lane : l # h => \A n : /\ Queued(l, n)' <=> Queued(l, n)
                                          /\ Queued(l, n) => queue'[l][n] = queue[l][n]
       /\ \A n : Queued(h, n)' => n \in Nat /\ n + 1 # 1 /\ Queued(h, n + 1) /\ queue'[h][n] = queue[h][n + 1]
       /\ \A n : Queued(h, n) /\ n # 1 => n \in Nat /\ Queued(h, n - 1)' /\ queue'[h][n - 1] = queue[h][n]
       /\ \/ Queued(h, 1) /\ answer' = [answer EXCEPT ![queue[h][1].id] = "reader"]
          \/ ~Queued(h, 1) /\ UNCHANGED answer

(* Of the queued subscribes, a send adds its own ...                       *)
LEMMA QueuedAfterSend ==
  ASSUME LanesTyped, NEW h \in Lane, NEW c \in Command, Send(h, c), UNCHANGED <<task, slots>>
  PROVE  /\ \A l \in Lane : \A n : Queued(l, n) => Queued(l, n)' /\ queue'[l][n] = queue[l][n]
         /\ \A l \in Lane : \A n : Queued(l, n)' =>
              \/ Queued(l, n) /\ queue'[l][n] = queue[l][n]
              \/ IsSub(c) /\ l = h /\ n = Len(queue[h]) + 1 /\ queue'[l][n] = c
         /\ IsSub(c) => \E n : n = Len(queue[h]) + 1 /\ Queued(h, n)' /\ queue'[h][n] = c
<1>1. queue[h] \in Seq(Command)
  BY QueueFacts
<1>2. queue'[h] = Append(queue[h], c) /\ \A l \in Lane : l # h => queue'[l] = queue[l]
  BY SendFacts
<1>3. /\ \A i \in DOMAIN queue'[h] : \/ i \in DOMAIN queue[h] /\ queue'[h][i] = queue[h][i]
                                     \/ i = Len(queue[h]) + 1 /\ queue'[h][i] = c
      /\ \A i \in DOMAIN queue[h] : i \in DOMAIN queue'[h] /\ queue'[h][i] = queue[h][i]
      /\ Len(queue[h]) + 1 \in DOMAIN queue'[h] /\ queue'[h][Len(queue[h]) + 1] = c
  BY <1>1, <1>2, AppendFacts
<1>4. \A n : n = Len(queue[h]) + 1 => n \in DOMAIN queue'[h] /\ queue'[h][n] = c
  BY <1>3
<1>. QED
  BY <1>2, <1>3, <1>4 DEF Queued

(* ... and an unsubscribe none.                                            *)
LEMMA ToldQueues ==
  ASSUME LanesTyped, NEW h \in Lane, NEW s \in Symbols, Tells(h, UnsubscribeCmd(s))
  PROVE  QueuesStay
<1>1. CASE UNCHANGED queue
  BY <1>1 DEF QueuesStay, Queued
<1>2. CASE Send(h, UnsubscribeCmd(s))
  BY <1>2, CommandFacts, QueuedAfterSend DEF QueuesStay, Tells
<1>. QED
  BY <1>1, <1>2 DEF Tells

(* What is unchanged stays.                                                *)
LEMMA SameRequests ==
  /\ UNCHANGED requests => RequestsStay
  /\ UNCHANGED queue => QueuesStay
  /\ UNCHANGED sup => HandStays
BY DEF RequestsStay, QueuesStay, HandStays, Asks, Queued

(* Taking the first request shifts the others ...                          *)
LEMMA ShiftFacts ==
  ASSUME Typed, NEW op, Next_(op), op # "ShutDown"
  PROVE  RequestsShift
<1>1. \A k : Asks(k) => k \in Nat
  BY DEF Asks, Typed, RequestsTyped
<1>. QED
  BY <1>1, RequestFacts DEF RequestsShift

(* ... and a shutdown carries no symbol.                                   *)
LEMMA ShutDownShifts ==
  ASSUME Typed, Next_("ShutDown")
  PROVE  RequestsShift /\ ~Asks(1)
<1>1. requests \in Seq(Request) /\ requests # <<>> /\ requests' = Tail(requests)
      /\ Head(requests).op = "ShutDown"
  BY DEF Typed, RequestsTyped, Next_
<1>2. /\ Head(requests) = requests[1] /\ requests[1] \in Request
      /\ \A i \in DOMAIN requests' : i + 1 \in DOMAIN requests /\ requests'[i] = requests[i + 1] /\ i \in Nat \ {0}
      /\ \A i \in DOMAIN requests : i # 1 => i - 1 \in DOMAIN requests' /\ requests'[i - 1] = requests[i]
  BY <1>1, TailFacts
<1>3. requests[1] = ShutDown
  BY <1>1, <1>2 DEF Request, ShutDown
<1>4. \A k : Asks(k)' => Asks(k + 1) /\ requests'[k] = requests[k + 1] /\ k \in Nat /\ k + 1 # 1
  BY <1>2 DEF Asks
<1>5. \A k : Asks(k) => k \in Nat
  BY <1>1 DEF Asks
<1>6. \A k : Asks(k) /\ k # 1 => Asks(k - 1)' /\ requests'[k - 1] = requests[k]
  BY <1>2 DEF Asks
<1>. QED
  BY <1>3, <1>4, <1>5, <1>6 DEF RequestsShift, Asks

(* Every step moves requests in one of these ways.                         *)
LEMMA TokenCases ==
  ASSUME Typed, LoadsAreRight, HandFits, TasksMatch, SubscribesAreNew, [Next]_vars
  PROVE  \/ NoneMoves \/ IsAsked \/ IsPutAside \/ IsTaken \/ IsSent \/ IsGivenUp \/ IsLost \/ IsAdmitted
<1>. LanesTyped
  BY DEF Typed
<1>1. CASE Asked
  <2>1. PICK s \in Symbols, op \in {"Subscribe", "Unsubscribe"} : Ask(s, op)
    BY <1>1 DEF Asked
  <2>. DEFINE r == [op |-> op, sym |-> s, id |-> sent + 1]
  <2>2. /\ requests' = Append(requests, r) /\ sent' = sent + 1 /\ UNCHANGED <<queue, sup>>
        /\ answer' = IF op = "Subscribe" THEN [answer EXCEPT ![sent + 1] = "asked"] ELSE answer
    BY <2>1 DEF Ask, laneVars
  <2>3. sent + 1 \in Ids
    BY <2>1, BoundsAssumption DEF Ask, Ids, Typed, RequestsTyped
  <2>4. r \in Request /\ r # ShutDown /\ r.id = sent + 1 /\ (IsSub(r) <=> op = "Subscribe")
    BY <2>3 DEF Request, ShutDown, IsSub
  <2>5. /\ \A k : Asks(k)' => \/ Asks(k) /\ requests'[k] = requests[k]
                              \/ k = Len(requests) + 1 /\ requests'[k] = r
        /\ \A k : Asks(k) => Asks(k)' /\ requests'[k] = requests[k]
        /\ \E k : Asks(k)' /\ requests'[k] = r
    BY <2>2, <2>4, AskFacts
  <2>6. IsAsked
    <3>. HIDE DEF r
    <3>. QED
      BY <2>2, <2>3, <2>4, <2>5, SameRequests DEF IsAsked
  <2>. QED
    BY <2>6
<1>2. CASE AskShutDown
  <2>1. requests' = Append(requests, ShutDown) /\ UNCHANGED <<sent, answer, queue, sup>>
    BY <1>2 DEF AskShutDown, laneVars
  <2>2. RequestsStay
    BY <2>1, AskFacts DEF Request, RequestsStay
  <2>. QED
    BY <2>1, <2>2, SameRequests DEF NoneMoves
<1>3. CASE Refuses \/ UnsubscribeUnknown \/ TakeUnsubscribe
  <2>1. RequestsShift /\ sup = Idle /\ UNCHANGED <<sent, queue>>
    BY <1>3, ShiftFacts DEF Refuses, UnsubscribeUnknown, TakeUnsubscribe, Next_, laneVars
  <2>2. sup'.at # "subscribing"
    BY <1>3 DEF Refuses, UnsubscribeUnknown, TakeUnsubscribe, Next_, Idle
  <2>3. \/ Asks(1) /\ answer' = [answer EXCEPT ![requests[1].id] = "refused"]
        \/ (Asks(1) => ~IsSub(requests[1])) /\ UNCHANGED answer
    BY <1>3, RequestFacts DEF Refuses, UnsubscribeUnknown, TakeUnsubscribe, IsSub
  <2>4. IsPutAside
    BY <2>1, <2>2, <2>3, SameRequests DEF IsPutAside, Idle
  <2>. QED
    BY <2>4
<1>4. CASE Chooses \/ Opens
  <2>1. /\ RequestsShift /\ sup = Idle /\ Asks(1) /\ IsSub(requests[1]) /\ requests[1] = Head(requests)
        /\ UNCHANGED <<sent, answer, queue>> /\ \E l : sup' = Chosen(l, 0)
    BY <1>4, ShiftFacts, RequestFacts DEF Chooses, Opens, IsSub, laneVars
  <2>2. sup'.at = "subscribing" /\ sup'.id = requests[1].id
    BY <2>1 DEF Chosen
  <2>3. IsTaken
    BY <2>1, <2>2, SameRequests DEF IsTaken, Idle
  <2>. QED
    BY <2>3
<1>5. CASE SendSubscribe
  <2>1. PICK h \in Lane, c \in Command :
          /\ Send(h, c) /\ IsSub(c) /\ c.id = sup.id /\ UNCHANGED <<task, slots>> /\ sup.at = "subscribing"
    BY <1>5, SubscribeFacts DEF SendSubscribe
  <2>2. sup'.at # "subscribing" /\ UNCHANGED <<sent, answer, requests>>
    BY <1>5 DEF SendSubscribe, Idle, requestVars
  <2>3. IsSent
    BY <2>1, <2>2, QueuedAfterSend, SameRequests DEF IsSent
  <2>. QED
    BY <2>3
<1>6. CASE GivesUp
  <2>1. IsGivenUp
    BY <1>6, SameRequests DEF GivesUp, IsGivenUp, Idle, requestVars, laneVars
  <2>. QED
    BY <2>1
<1>7. CASE Ends
  <2>1. PICK L \in SUBSET Lane : End(L)
    BY <1>7 DEF Ends, Running
  <2>2. /\ \A l \in L : queue'[l] = <<>>
        /\ \A l \in Lane : l \notin L => queue'[l] = queue[l]
        /\ \A i \in Ids : \/ answer'[i] = answer[i] /\ \A l \in L : \A n : ~(Queued(l, n) /\ queue[l][n].id = i)
                          \/ answer'[i] = "dropped" /\ \E l \in L : \E n : Queued(l, n) /\ queue[l][n].id = i
    BY <2>1, EndFacts DEF Typed
  <2>3. \A l \in Lane : \A n : /\ Queued(l, n)' <=> l \notin L /\ Queued(l, n)
                               /\ Queued(l, n)' => queue'[l][n] = queue[l][n]
    BY <2>2 DEF Queued
  <2>4. IsLost
    BY <1>7, <2>2, <2>3, SameRequests DEF IsLost, Ends, requestVars
  <2>. QED
    BY <2>4
<1>8. CASE Admits
  <2>1. PICK h \in Lane : Admit(h)
    BY <1>8 DEF Admits
  <2>2. /\ queue[h] \in Seq(Command) /\ queue[h] # <<>> /\ queue'[h] = Tail(queue[h])
        /\ \A l \in Lane : l # h => queue'[l] = queue[l]
        /\ IF IsSub(queue[h][1]) THEN answer' = [answer EXCEPT ![queue[h][1].id] = "reader"]
                                 ELSE answer' = answer
    BY <2>1, AdmitFacts
  <2>3. /\ 1 \in DOMAIN queue[h]
        /\ \A i \in DOMAIN queue'[h] : i + 1 \in DOMAIN queue[h] /\ queue'[h][i] = queue[h][i + 1] /\ i \in Nat \ {0}
        /\ \A i \in DOMAIN queue[h] : i # 1 => i - 1 \in DOMAIN queue'[h] /\ queue'[h][i - 1] = queue[h][i]
    BY <2>2, TailFacts
  <2>4. \A n : Queued(h, n)' => n \in Nat /\ n + 1 # 1 /\ Queued(h, n + 1) /\ queue'[h][n] = queue[h][n + 1]
    BY <2>3 DEF Queued
  <2>5. \A n : Queued(h, n) => n \in Nat
    BY <2>2 DEF Queued
  <2>6. \A n : Queued(h, n) /\ n # 1 => Queued(h, n - 1)' /\ queue'[h][n - 1] = queue[h][n]
    BY <2>3 DEF Queued
  <2>7. \A l \in Lane : l # h => \A n : /\ Queued(l, n)' <=> Queued(l, n)
                                        /\ Queued(l, n) => queue'[l][n] = queue[l][n]
    BY <2>2 DEF Queued
  <2>8. Queued(h, 1) <=> IsSub(queue[h][1])
    BY <2>3 DEF Queued
  <2>9. RequestsStay /\ HandStays /\ UNCHANGED sent
    BY <2>1, SameRequests DEF Admit, requestVars
  <2>10. IsAdmitted
    BY <2>2, <2>4, <2>5, <2>6, <2>7, <2>8, <2>9 DEF IsAdmitted
  <2>. QED
    BY <2>10
<1>9. CASE RetireNext \/ SendUnsubscribe
  <2>1. PICK h \in Lane, s \in Symbols : Tells(h, UnsubscribeCmd(s))
    BY <1>9, RetireFacts, UnsubscribeFacts DEF Tells
  <2>2. QueuesStay
    BY <2>1, ToldQueues
  <2>3. sup.at # "subscribing" /\ sup'.at # "subscribing" /\ UNCHANGED <<requests, sent, answer>>
    BY <1>9, RetireFacts, UnsubscribeFacts
       DEF Retiring, Unsubscribing, Idle, RetireNext, SendUnsubscribe, requestVars
  <2>. QED
    BY <2>2, <2>3, SameRequests DEF NoneMoves, HandStays
<1>10. CASE Retries
  <2>1. sup \in Subscribing
    BY <1>10, HandFacts DEF Retries, Typed
  <2>2. sup.at = "subscribing" /\ sup'.at = "subscribing" /\ sup'.id = sup.id
    BY <1>10, <2>1 DEF Retries, Subscribing
  <2>. QED
    BY <1>10, <2>2, SameRequests DEF Retries, NoneMoves, HandStays, requestVars
<1>11. CASE TakeShutDown
  <2>1. RequestsShift /\ ~Asks(1) /\ sup = Idle /\ sup' = Stopping /\ UNCHANGED <<sent, answer, queue>>
    BY <1>11, ShutDownShifts DEF TakeShutDown, Next_, laneVars
  <2>2. IsPutAside
    BY <2>1, SameRequests DEF IsPutAside, Idle, Stopping
  <2>. QED
    BY <2>2
<1>12. CASE TakeListing \/ RetireDone \/ Join \/ Finish
  BY <1>12, SameRequests
     DEF TakeListing, RetireDone, Join, Finish, NoneMoves, HandStays, Idle, Stopping,
     Stopped, refreshVars, requestVars, laneVars
<1>13. CASE Refreshes \/ UNCHANGED vars
  BY <1>13, SameRequests
     DEF Refreshes, Refreshed, vars, NoneMoves, refreshVars, requestVars, laneVars
<1>. QED
  BY <1>1, <1>2, <1>3, <1>4, <1>5, <1>6, <1>7, <1>8, <1>9, <1>10, <1>11, <1>12, <1>13,
     NextCases

(* The numbers of the requests, wherever they are.                         *)
LEMMA IdsAreIds ==
  ASSUME Typed
  PROVE  /\ \A k : Asks(k) => requests[k].id \in Ids /\ k \in Nat
         /\ sup.at = "subscribing" => sup.id \in Ids
         /\ \A l \in Lane : \A n : Queued(l, n) => queue[l][n].id \in Ids /\ n \in Nat
<1>1. \A k : Asks(k) => requests[k].id \in Ids /\ k \in Nat
  BY DEF Typed, RequestsTyped, Asks, Request
<1>2. sup.at = "subscribing" => sup.id \in Ids
  BY HandFacts DEF Typed, Subscribing
<1>3. \A l \in Lane : \A n : Queued(l, n) => queue[l][n].id \in Ids /\ n \in Nat
  BY QueueFacts DEF Typed, Queued
<1>. QED
  BY <1>1, <1>2, <1>3

(* Each step keeps a request in one place,                                 *)
LEMMA OneTokenStep ==
  ASSUME Typed, LoadsAreRight, HandFits, TasksMatch, SubscribesAreNew, OneToken, TokensAnswered,
         [Next]_vars
  PROVE  OneToken'
<1>1. CASE NoneMoves
  BY <1>1 DEF NoneMoves, RequestsStay, QueuesStay, HandStays, OneToken
<1>2. CASE IsAsked
  <2>1. /\ \A k : Asks(k) => requests[k].id # sent + 1
        /\ sup.at = "subscribing" => sup.id # sent + 1
        /\ \A l \in Lane : \A n : Queued(l, n) => queue[l][n].id # sent + 1
    BY IdsAreIds DEF TokensAnswered, Typed, RequestsTyped
  <2>. QED
    BY <1>2, <2>1 DEF IsAsked, QueuesStay, HandStays, OneToken
<1>3. CASE IsPutAside
  BY <1>3 DEF IsPutAside, RequestsShift, QueuesStay, OneToken
<1>4. CASE IsTaken
  BY <1>4 DEF IsTaken, RequestsShift, QueuesStay, OneToken
<1>5. CASE IsSent
  BY <1>5 DEF IsSent, RequestsStay, OneToken
<1>6. CASE IsGivenUp
  BY <1>6 DEF IsGivenUp, RequestsStay, QueuesStay, OneToken
<1>7. CASE IsLost
  BY <1>7 DEF IsLost, RequestsStay, HandStays, OneToken
<1>8. CASE IsAdmitted
  <2>1. PICK h \in Lane :
          /\ \A l \in Lane : l # h =>
               \A n : Queued(l, n)' => Queued(l, n) /\ queue'[l][n] = queue[l][n]
          /\ \A n : Queued(h, n)' =>
               n \in Nat /\ Queued(h, n + 1) /\ queue'[h][n] = queue[h][n + 1]
    BY <1>8 DEF IsAdmitted
  <2>2. \A l \in Lane : \A n : Queued(l, n)' =>
          \E k : Queued(l, k) /\ queue'[l][n] = queue[l][k] /\ k = IF l = h THEN n + 1 ELSE n
    <3>. SUFFICES ASSUME NEW l \in Lane, NEW n, Queued(l, n)'
                  PROVE  \E k : /\ Queued(l, k) /\ queue'[l][n] = queue[l][k]
                               /\ k = IF l = h THEN n + 1 ELSE n
      OBVIOUS
    <3>1. CASE l = h
      BY <2>1, <3>1
    <3>2. CASE l # h
      BY <2>1, <3>2
    <3>. QED
      BY <3>1, <3>2
  <2>3. /\ \A j, k : Asks(j)' /\ Asks(k)' /\ requests'[j].id = requests'[k].id => j = k
        /\ sup'.at = "subscribing" => \A k : Asks(k)' => requests'[k].id # sup'.id
    BY <1>8 DEF IsAdmitted, RequestsStay, HandStays, OneToken
  <2>4. ASSUME NEW l \in Lane, NEW n, Queued(l, n)'
        PROVE  /\ \A k : Asks(k)' => requests'[k].id # queue'[l][n].id
               /\ sup'.at = "subscribing" => sup'.id # queue'[l][n].id
    BY <1>8, <2>2, <2>4 DEF IsAdmitted, RequestsStay, HandStays, OneToken
  <2>5. ASSUME NEW l \in Lane, NEW n, Queued(l, n)', NEW m \in Lane, NEW k, Queued(m, k)',
               queue'[m][k].id = queue'[l][n].id
        PROVE  m = l /\ k = n
    <3>1. PICK a : Queued(l, a) /\ queue'[l][n] = queue[l][a] /\ a = IF l = h THEN n + 1 ELSE n
      BY <2>2, <2>5
    <3>2. PICK b : Queued(m, b) /\ queue'[m][k] = queue[m][b] /\ b = IF m = h THEN k + 1 ELSE k
      BY <2>2, <2>5
    <3>3. m = l /\ b = a
      BY <2>5, <3>1, <3>2 DEF OneToken
    <3>4. l = h => n \in Nat /\ k \in Nat
      BY <2>1, <2>5, <3>3
    <3>. QED
      BY <3>1, <3>2, <3>3, <3>4
  <2>. QED
    BY <2>3, <2>4, <2>5 DEF OneToken
<1>. QED
  BY <1>1, <1>2, <1>3, <1>4, <1>5, <1>6, <1>7, <1>8, TokenCases

(* ... unanswered as long as it is there,                                  *)
LEMMA AnsweredStep ==
  ASSUME Typed, LoadsAreRight, HandFits, TasksMatch, SubscribesAreNew, OneToken, TokensAnswered,
         [Next]_vars
  PROVE  TokensAnswered'
<1>. answer \in [Ids -> {"none", "asked", "refused", "reader", "dropped"}] /\ sent \in Nat
  BY DEF Typed, RequestsTyped
<1>1. CASE NoneMoves
  BY <1>1 DEF NoneMoves, RequestsStay, QueuesStay, HandStays, TokensAnswered
<1>2. CASE IsAsked
  BY <1>2, IdsAreIds DEF IsAsked, QueuesStay, HandStays, TokensAnswered, Ids
<1>3. CASE IsPutAside
  <2>1. /\ \A k : Asks(k)' => Asks(k + 1) /\ requests'[k] = requests[k + 1] /\ k \in Nat /\ k + 1 # 1
        /\ QueuesStay /\ sup.at # "subscribing" /\ sup'.at # "subscribing" /\ UNCHANGED sent
    BY <1>3 DEF IsPutAside, RequestsShift
  <2>2. CASE UNCHANGED answer
    BY <2>1, <2>2 DEF QueuesStay, TokensAnswered
  <2>3. CASE Asks(1) /\ answer' = [answer EXCEPT ![requests[1].id] = "refused"]
    <3>1. requests[1].id \in Ids /\ requests[1].id <= sent
      BY <2>3, IdsAreIds DEF TokensAnswered
    <3>2. \A i \in Ids : i # requests[1].id => answer'[i] = answer[i]
      BY <2>3
    <3>3. \A k : Asks(k)' => requests'[k].id \in Ids /\ requests'[k].id # requests[1].id
      BY <2>1, <2>3, IdsAreIds DEF OneToken
    <3>4. \A l \in Lane : \A n : Queued(l, n) => queue[l][n].id \in Ids /\ queue[l][n].id # requests[1].id
      BY <2>3, IdsAreIds DEF OneToken
    <3>5. \A i \in Ids : sent < i => i # requests[1].id
      BY <3>1 DEF Ids
    <3>. QED
      BY <2>1, <3>2, <3>3, <3>4, <3>5 DEF QueuesStay, TokensAnswered
  <2>. QED
    BY <1>3, <2>2, <2>3 DEF IsPutAside
<1>4. CASE IsTaken
  BY <1>4 DEF IsTaken, RequestsShift, QueuesStay, TokensAnswered
<1>5. CASE IsSent
  BY <1>5 DEF IsSent, RequestsStay, TokensAnswered
<1>6. CASE IsGivenUp
  BY <1>6, IdsAreIds DEF IsGivenUp, RequestsStay, QueuesStay, TokensAnswered, OneToken
<1>7. CASE IsLost
  BY <1>7, IdsAreIds DEF IsLost, RequestsStay, HandStays, TokensAnswered, OneToken, Ids
<1>8. CASE IsAdmitted
  <2>1. PICK h \in Lane :
          /\ \A l \in Lane : l # h => \A n : /\ Queued(l, n)' <=> Queued(l, n)
                                             /\ Queued(l, n) => queue'[l][n] = queue[l][n]
          /\ \A n : Queued(h, n)' => n + 1 # 1 /\ Queued(h, n + 1) /\ queue'[h][n] = queue[h][n + 1]
          /\ \/ Queued(h, 1) /\ answer' = [answer EXCEPT ![queue[h][1].id] = "reader"]
             \/ ~Queued(h, 1) /\ UNCHANGED answer
    BY <1>8 DEF IsAdmitted
  <2>2. RequestsStay /\ HandStays /\ UNCHANGED sent
    BY <1>8 DEF IsAdmitted
  <2>3. CASE UNCHANGED answer
    BY <2>1, <2>2, <2>3 DEF RequestsStay, HandStays, TokensAnswered
  <2>4. CASE Queued(h, 1) /\ answer' = [answer EXCEPT ![queue[h][1].id] = "reader"]
    <3>1. queue[h][1].id \in Ids /\ queue[h][1].id <= sent
      BY <2>4, IdsAreIds DEF TokensAnswered
    <3>2. \A i \in Ids : i # queue[h][1].id => answer'[i] = answer[i]
      BY <2>4
    <3>3. \A k : Asks(k) => requests[k].id \in Ids /\ requests[k].id # queue[h][1].id
      BY <2>4, IdsAreIds DEF OneToken
    <3>4. sup.at = "subscribing" => sup.id \in Ids /\ sup.id # queue[h][1].id
      BY <2>4, IdsAreIds DEF OneToken
    <3>5. \A l \in Lane : \A n : Queued(l, n)' =>
            queue'[l][n].id \in Ids /\ queue'[l][n].id # queue[h][1].id /\ queue'[l][n].id <= sent
              /\ answer[queue'[l][n].id] = "asked"
      BY <2>1, <2>4, IdsAreIds DEF OneToken, TokensAnswered
    <3>6. \A i \in Ids : sent < i => i # queue[h][1].id
      BY <3>1 DEF Ids
    <3>. QED
      BY <2>2, <3>2, <3>3, <3>4, <3>5, <3>6 DEF RequestsStay, HandStays, TokensAnswered
  <2>. QED
    BY <2>1, <2>3, <2>4
<1>. QED
  BY <1>1, <1>2, <1>3, <1>4, <1>5, <1>6, <1>7, <1>8, TokenCases

(* ... and there as long as it is unanswered.                              *)
LEMMA SomewhereStep ==
  ASSUME Typed, LoadsAreRight, HandFits, TasksMatch, SubscribesAreNew, OneToken, TokensAnswered,
         AskedAreSomewhere, [Next]_vars
  PROVE  AskedAreSomewhere'
<1>. answer \in [Ids -> {"none", "asked", "refused", "reader", "dropped"}] /\ sent \in Nat
  BY DEF Typed, RequestsTyped
<1>1. CASE NoneMoves
  BY <1>1 DEF NoneMoves, RequestsStay, QueuesStay, HandStays, AskedAreSomewhere
<1>2. CASE IsAsked
  BY <1>2 DEF IsAsked, QueuesStay, HandStays, AskedAreSomewhere
<1>3. CASE IsPutAside
  BY <1>3, IdsAreIds DEF IsPutAside, RequestsShift, QueuesStay, AskedAreSomewhere
<1>4. CASE IsTaken
  BY <1>4 DEF IsTaken, RequestsShift, QueuesStay, AskedAreSomewhere
<1>5. CASE IsSent
  BY <1>5 DEF IsSent, RequestsStay, AskedAreSomewhere
<1>6. CASE IsGivenUp
  BY <1>6, IdsAreIds DEF IsGivenUp, RequestsStay, QueuesStay, AskedAreSomewhere
<1>7. CASE IsLost
  BY <1>7 DEF IsLost, RequestsStay, HandStays, AskedAreSomewhere
<1>8. CASE IsAdmitted
  BY <1>8, IdsAreIds DEF IsAdmitted, RequestsStay, HandStays, AskedAreSomewhere
<1>. QED
  BY <1>1, <1>2, <1>3, <1>4, <1>5, <1>6, <1>7, <1>8, TokenCases

(* Where a request is, as the property counts it.                          *)
LEMMA PlacesOfAsked ==
  ASSUME Typed, NEW i, NEW p
  PROVE  p \in Places(i) <=> \/ \E k : Asks(k) /\ requests[k].id = i /\ p = <<"requests", k>>
                             \/ sup.at = "subscribing" /\ sup.id = i /\ p = <<"sup", 0>>
                             \/ \E l \in Lane : p = <<"lane", l>> /\ \E n : Queued(l, n) /\ queue[l][n].id = i
<1>1. \A l \in Lane : i \in Left(l) <=> \E n : Queued(l, n) /\ queue[l][n].id = i
  BY DEF Left, Queued, IsSub
<1>2. p \in {<<"requests", k>> : k \in {k \in DOMAIN requests : requests[k] # ShutDown /\ requests[k].id = i}}
        <=> \E k : Asks(k) /\ requests[k].id = i /\ p = <<"requests", k>>
  BY DEF Asks
<1>3. p \in {<<"sup", 0>> : x \in {x \in {1} : sup.at = "subscribing" /\ sup.id = i}}
        <=> sup.at = "subscribing" /\ sup.id = i /\ p = <<"sup", 0>>
  OBVIOUS
<1>4. p \in {<<"lane", l>> : l \in {l \in Lane : i \in Left(l)}}
        <=> \E l \in Lane : p = <<"lane", l>> /\ \E n : Queued(l, n) /\ queue[l][n].id = i
  BY <1>1
<1>. QED
  BY <1>2, <1>3, <1>4 DEF Places

-----------------------------------------------------------------------------
(* The theorems *)

(* The inductive invariant.                                                *)
Invariant ==
  /\ Typed
  /\ LoadsAreRight
  /\ HandFits
  /\ ListingHolds
  /\ TasksMatch
  /\ TablesFollow
  /\ TablesApart
  /\ TablesFit
  /\ SubscribesAreNew
  /\ OneToken
  /\ TokensAnswered
  /\ AskedAreSomewhere

(* It holds at the start ...                                               *)
LEMMA InitInvariant ==
  ASSUME Init
  PROVE  Invariant
<1>. DEFINE Start == [l \in Lane |-> <<>>]
<1>1. <<>> \in Seq(SUBSET Symbols) /\ <<>> \in Seq(Request) /\ Start \in [Lane -> Seq(Command)]
  OBVIOUS
<1>2. Typed
  BY <1>1, BoundsAssumption
     DEF Init, Typed, ListingTyped, RequestsTyped, RouterTyped, LanesTyped, SupTyped, Routed
<1>3. Routed = {} /\ DOMAIN lanes = {} /\ sup.at = "idle" /\ Running = {}
  BY DEF Init, Routed, Idle, Running
<1>4. \A l \in Lane : queue[l] = <<>> /\ slots[l] = {} /\ task[l] = "none" /\ opened < l
  BY DEF Init, Lane
<1>5. \A l \in Lane : Len(queue[l]) = 0 /\ \A n : ~Queued(l, n)
  BY <1>4 DEF Queued
<1>6. \A k : ~Asks(k)
  BY DEF Init, Asks
<1>7. LoadsAreRight /\ HandFits /\ ListingHolds /\ TasksMatch
  BY <1>3, <1>4 DEF LoadsAreRight, HandFits, ListingHolds, TasksMatch
<1>8. \A l \in Lane : AfterQueue(l) = {} /\ After(l, 0) = {}
  BY <1>2, <1>3, <1>5, <1>7, IdleTables DEF AfterQueue
<1>9. TablesFit
  <2>1. Cardinality({}) = 0 /\ 0 <= Capacity /\ 0 .. 0 = {0}
    BY FS_EmptySet, SizesAssumption
  <2>. QED
    BY <1>5, <1>8, <2>1 DEF TablesFit
<1>10. TablesFollow /\ TablesApart /\ SubscribesAreNew
  BY <1>3, <1>4, <1>8 DEF TablesFollow, TablesApart, SubscribesAreNew
<1>11. OneToken
  BY <1>3, <1>5, <1>6 DEF OneToken
<1>12. TokensAnswered /\ AskedAreSomewhere
  BY <1>3, <1>5, <1>6 DEF TokensAnswered, AskedAreSomewhere, Init
<1>. QED
  BY <1>2, <1>7, <1>9, <1>10, <1>11, <1>12 DEF Invariant

(* ... and no step leaves it.                                              *)
LEMMA NextInvariant ==
  ASSUME Invariant, [Next]_vars
  PROVE  Invariant'
<1>. /\ Typed /\ LoadsAreRight /\ HandFits /\ ListingHolds /\ TasksMatch /\ TablesFollow /\ TablesApart
     /\ TablesFit /\ SubscribesAreNew /\ OneToken /\ TokensAnswered /\ AskedAreSomewhere
  BY DEF Invariant
<1>1. ListingTyped' /\ RequestsTyped' /\ LanesTyped' /\ SupTyped'
  BY ListingStep, RequestsStep, LanesStep, SupStep
<1>2. RouterTyped' /\ LoadsAreRight'
  BY RouterStep
<1>3. Typed'
  BY <1>1, <1>2 DEF Typed
<1>4. HandFits' /\ ListingHolds' /\ TasksMatch'
  BY <1>2, HandStep, ListingHoldsStep, TasksStep
<1>5. TablesFollow' /\ TablesApart' /\ TablesFit' /\ SubscribesAreNew'
  BY FollowStep, ApartStep, FitStep, NewStep
<1>6. OneToken' /\ TokensAnswered' /\ AskedAreSomewhere'
  BY OneTokenStep, AnsweredStep, SomewhereStep
<1>. QED
  BY <1>2, <1>3, <1>4, <1>5, <1>6 DEF Invariant

(* The invariant holds of every behaviour, for any symbols, capacity,      *)
(* queues and numbers of requests, listings and deaths.                    *)
THEOREM LanesInvariant == Spec => []Invariant
<1>1. Init => Invariant
  BY InitInvariant
<1>2. Invariant /\ [Next]_vars => Invariant'
  BY NextInvariant
<1>. QED
  BY <1>1, <1>2, PTL DEF Spec

(* Before its first command, a lane has its table.                         *)
LEMMA FirstTables ==
  ASSUME Invariant, NEW l \in Lane
  PROVE  After(l, 0) = slots[l]
<1>1. slots[l] \in SUBSET Symbols
  BY QueueFacts DEF Invariant, Typed
<1>. QED
  BY <1>1, ThroughNone, AfterIsThrough

(* The router's counts are its bindings and every lane is on its way to    *)
(* what is bound to it, over subscribes, retirements, shutdowns, retries   *)
(* on new lanes and lanes that die.                                        *)
THEOREM TablesFollowRouter == Spec => []TableFollowsRouter
<1>1. Invariant => TableFollowsRouter
  <2>. SUFFICES ASSUME Invariant
                PROVE  TableFollowsRouter
    OBVIOUS
  <2>1. \A l \in Running : l \in Lane
    BY DEF Running
  <2>2. \A l \in Lane : Held(l) => lanes[l] = Cardinality(Bound(l))
    BY DEF Invariant, LoadsAreRight, Held
  <2>3. ASSUME NEW l \in Lane
        PROVE  Cardinality(slots[l]) <= Capacity
    <3>1. Len(queue[l]) \in Nat
      BY QueueFacts DEF Invariant, Typed
    <3>. QED
      BY <3>1, FirstTables DEF Invariant, TablesFit
  <2>4. ~Ended => \A l \in Running : AfterQueue(l) = Bound(l) \cup InHand(l)
    BY DEF Invariant, TablesFollow
  <2>5. sup = Idle => Routed \subseteq listed
    BY DEF Invariant, ListingHolds, Idle
  <2>. QED
    BY <2>1, <2>2, <2>3, <2>4, <2>5 DEF TableFollowsRouter, Ended
<1>. QED
  BY <1>1, LanesInvariant, PTL

(* A symbol never has two slots, in one table or in two, and no table ever *)
(* holds more than its capacity.                                           *)
THEOREM SlotsAreOne == Spec => []OneSlotPerSymbol
<1>1. Invariant => OneSlotPerSymbol
  <2>. SUFFICES ASSUME Invariant
                PROVE  OneSlotPerSymbol
    OBVIOUS
  <2>1. ASSUME NEW l \in Lane, queue[l] # <<>>, Head(queue[l]).op = "Subscribe"
        PROVE  Head(queue[l]).sym \notin slots[l]
    <3>1. queue[l] \in Seq(Command)
      BY QueueFacts DEF Invariant, Typed
    <3>2. Head(queue[l]) = queue[l][1] /\ 1 \in DOMAIN queue[l]
      BY <2>1, <3>1, TailFacts
    <3>3. queue[l][1].sym \notin After(l, 0)
      BY <2>1, <3>2 DEF Invariant, SubscribesAreNew, IsSub
    <3>. QED
      BY <3>2, <3>3, FirstTables
  <2>. QED
    BY <2>1 DEF Invariant, TablesApart, OneSlotPerSymbol
<1>. QED
  BY <1>1, LanesInvariant, PTL

(* A subscribe that waits is in one place, and answered once: with a       *)
(* reader, a refusal, or by a drop.                                        *)
THEOREM SubscribesAreAnsweredOnce == Spec => []AnsweredOnce
<1>1. Invariant => AnsweredOnce
  <2>. SUFFICES ASSUME Invariant, NEW i \in Ids
                PROVE  Cardinality({p \in Places(i) : answer[i] # "none"}) = IF answer[i] = "asked" THEN 1 ELSE 0
    BY DEF AnsweredOnce
  <2>1. Typed /\ OneToken /\ TokensAnswered /\ AskedAreSomewhere
    BY DEF Invariant
  <2>2. \A p \in Places(i) : answer[i] \in {"asked", "none"}
    BY <2>1, PlacesOfAsked DEF TokensAnswered
  <2>3. CASE answer[i] = "asked"
    <3>1. \E p : p \in Places(i)
      BY <2>1, <2>3, PlacesOfAsked DEF AskedAreSomewhere
    <3>2. \A p, r \in Places(i) : p = r
      BY <2>1, PlacesOfAsked DEF OneToken
    <3>3. PICK p : Places(i) = {p}
      BY <3>1, <3>2
    <3>4. {q \in Places(i) : answer[i] # "none"} = {p}
      BY <2>3, <3>3
    <3>. QED
      BY <2>3, <3>4, FS_Singleton
  <2>4. CASE answer[i] # "asked"
    <3>1. {p \in Places(i) : answer[i] # "none"} = {}
      BY <2>2, <2>4
    <3>. QED
      BY <2>4, <3>1, FS_EmptySet
  <2>. QED
    BY <2>3, <2>4
<1>. QED
  BY <1>1, LanesInvariant, PTL
====
