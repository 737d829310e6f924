--------------------------- MODULE ChannelProofs ---------------------------
(***************************************************************************)
(* Proofs about the two halves of the book channel.                        *)
(*                                                                         *)
(* SharedBuffer, for any number of readers, slots and updates: the         *)
(* protocol of the slot states keeps every guard's slot still, and no get  *)
(* is stale; and the slots implement LatestValue.                          *)
(*                                                                         *)
(* The argument: WRITE_FLAG is set on the slot the publisher has claimed   *)
(* and on no other (FlagIsWriter), a claim needs a count of zero, and the  *)
(* count is the number of readers that pin the slot (CountIsPins), so no   *)
(* guard is over a flagged slot (GuardsUnflagged).  The slot published     *)
(* last is never claimed (ClaimNotHeader), so its data is the newest       *)
(* (HeaderIsNewest), and whatever slot a reader loaded from header can     *)
(* only have been rewritten by a later update (NotOlder).                  *)
(*                                                                         *)
(* The refinement takes, beyond that invariant, that no slot runs ahead of *)
(* the update under way (NotAhead): a get between the write of a slot and  *)
(* the store of the header may return the value of an update that has only *)
(* begun, and none beyond.                                                 *)
(*                                                                         *)
(* AtomicWaker, for every set of wakers and every number of notifications: *)
(* the two halves never meet in the cell, no wake-up is lost, and every    *)
(* step is one of Notification or invisible to its user.  None of these    *)
(* properties is inductive.  CellInv adds which half a flag belongs to at  *)
(* each of its steps; WakeInv adds that a waiter which has registered is   *)
(* armed or about to be called (Registered), and that whatever there is to *)
(* tell has reached it or is on its way (Told).                            *)
(***************************************************************************)
EXTENDS MCChannel, Sequences, FiniteSetTheorems, TLAPS

-----------------------------------------------------------------------------
(* The shared buffer *)

CountIsPins == \A s \in Slots : count[s] = Cardinality(Pinning(s))

FlagIsWriter ==
  \A s \in Slots : flag[s] <=> (wpc \in {"write", "unflag"} /\ s = widx)

ClaimNotHeader == wpc # "idle" => widx # header /\ published < MaxUpdates

GuardsUnflagged == \A r \in Readers : rpc[r] = "reading" => ~flag[ridx[r]]

TornIsWriting == \A s \in Slots : data[s] = Torn => wpc = "write" /\ s = widx

HeaderIsNewest == data[header] = published

ClaimIsNext == wpc \in {"unflag", "store"} => data[widx] = published + 1

InGet(r) == rpc[r] \in {"loaded", "spin", "reading"}

NotOlder ==
  \A r \in Readers : InGet(r) => data[ridx[r]] = Torn \/ data[ridx[r]] >= floor[r]

FloorOfHeader ==
  \A r \in Readers :
    /\ floor[r] <= published
    /\ InGet(r) /\ floor[r] = published => ridx[r] = header

SeenIsData == \A r \in Readers : rpc[r] = "reading" => seen[r] = data[ridx[r]]

(* The invariant of every step.                                            *)
IInv ==
  /\ TypeOK
  /\ CountIsPins
  /\ FlagIsWriter
  /\ ClaimNotHeader
  /\ GuardsUnflagged
  /\ TornIsWriting
  /\ HeaderIsNewest
  /\ ClaimIsNext
  /\ NotOlder
  /\ FloorOfHeader
  /\ SeenIsData
  /\ SpinMeansLapped

-----------------------------------------------------------------------------
(* There are at least three slots, and header 0 is one of them.            *)
LEMMA SlotFacts == BufferLen \in Nat /\ BufferLen >= 3 /\ Slots = 0 .. (BufferLen - 1) /\ 0 \in Slots
BY MaxReadersAssumption DEF BufferLen, Slots

(* The index turns up by one and wraps at the end.                         *)
LEMMA UpOne ==
  ASSUME NEW i \in Slots
  PROVE  (i + 1) % BufferLen = IF i = BufferLen - 1 THEN 0 ELSE i + 1
<1>1. BufferLen \in Nat /\ BufferLen > 0 /\ i \in 0 .. (BufferLen - 1)
  BY SlotFacts
<1>2. CASE i = BufferLen - 1
  BY <1>1, <1>2
<1>3. CASE i # BufferLen - 1
  BY <1>1, <1>3
<1>4. QED BY <1>2, <1>3

(* claim_slot only ever turns to a slot, and never to the one published    *)
(* last.                                                                   *)
LEMMA NextIndexFree ==
  ASSUME NEW i \in Slots, header \in Slots
  PROVE  NextIndex(i) \in Slots /\ NextIndex(i) # header
<1>1. \A j \in Slots : (j + 1) % BufferLen \in Slots /\ (j + 1) % BufferLen # j
  BY UpOne, SlotFacts
<1>2. QED BY <1>1 DEF NextIndex

(* The pins on a slot are finitely many.                                   *)
LEMMA PinningFinite ==
  ASSUME NEW s
  PROVE  IsFiniteSet(Pinning(s)) /\ Cardinality(Pinning(s)) \in Nat
<1>1. Pinning(s) \in SUBSET Readers
  BY DEF Pinning
<1>2. IsFiniteSet(Pinning(s))
  BY <1>1, ReadersAssumption, FS_Subset
<1>3. QED BY <1>2, FS_CardinalityType

(* A slot whose count is zero has no guard over it.                        *)
LEMMA NoPins ==
  ASSUME CountIsPins, NEW s \in Slots, count[s] = 0
  PROVE  Pinning(s) = {}
BY PinningFinite, FS_EmptySet DEF CountIsPins

-----------------------------------------------------------------------------
LEMMA InitIInv == Init => IInv
<1> SUFFICES ASSUME Init PROVE IInv
  OBVIOUS
<1>1. TypeOK
  BY SlotFacts, MaxUpdatesAssumption
     DEF Init, TypeOK, Values, WriterSteps, ReaderSteps
<1>2. CountIsPins
  <2>1. \A s \in Slots : Pinning(s) = {}
    BY DEF Init, Pinning
  <2>2. QED BY <2>1, FS_EmptySet DEF Init, CountIsPins
<1>3. QED
  BY <1>1, <1>2, SlotFacts, TornAssumption
     DEF Init, IInv, FlagIsWriter, ClaimNotHeader, GuardsUnflagged, TornIsWriting,
         HeaderIsNewest, ClaimIsNext, NotOlder, InGet, FloorOfHeader, SeenIsData,
         SpinMeansLapped

(* A scan begins next to the header.                                       *)
LEMMA UpdateStartStep ==
  ASSUME IInv, UpdateStart
  PROVE  IInv'
<1> USE SlotFacts, TornAssumption, MaxUpdatesAssumption DEF IInv, UpdateStart, bufferVars, writerVars, readerVars
<1>1. TypeOK'
  BY NextIndexFree DEF TypeOK, WriterSteps, ReaderSteps, Values, ClaimNotHeader
<1>2. CountIsPins'
  BY DEF CountIsPins, Pinning, Slots
<1>3. FlagIsWriter' /\ ClaimNotHeader' /\ TornIsWriting'
  BY NextIndexFree DEF TypeOK, Values, FlagIsWriter, ClaimNotHeader, TornIsWriting
<1>4. GuardsUnflagged'
  BY DEF TypeOK, GuardsUnflagged
<1>5. HeaderIsNewest' /\ ClaimIsNext'
  BY DEF TypeOK, Values, HeaderIsNewest, ClaimIsNext, ClaimNotHeader
<1>6. NotOlder' /\ FloorOfHeader'
  BY DEF TypeOK, Values, NotOlder, InGet, FloorOfHeader, HeaderIsNewest, ClaimNotHeader
<1>7. SeenIsData' /\ SpinMeansLapped'
  BY DEF TypeOK, Values, SeenIsData, SpinMeansLapped, GuardsUnflagged, FlagIsWriter
<1>8. QED BY <1>1, <1>2, <1>3, <1>4, <1>5, <1>6, <1>7

(* A scan goes on.                                                         *)
LEMMA ScanSkipStep ==
  ASSUME IInv, ScanSkip
  PROVE  IInv'
<1> USE SlotFacts, TornAssumption, MaxUpdatesAssumption DEF IInv, ScanSkip, bufferVars, writerVars, readerVars
<1>1. TypeOK'
  BY NextIndexFree DEF TypeOK, WriterSteps, ReaderSteps, Values, ClaimNotHeader
<1>2. CountIsPins'
  BY DEF CountIsPins, Pinning, Slots
<1>3. FlagIsWriter' /\ ClaimNotHeader' /\ TornIsWriting'
  BY NextIndexFree DEF TypeOK, Values, FlagIsWriter, ClaimNotHeader, TornIsWriting
<1>4. GuardsUnflagged'
  BY DEF TypeOK, GuardsUnflagged
<1>5. HeaderIsNewest' /\ ClaimIsNext'
  BY DEF TypeOK, Values, HeaderIsNewest, ClaimIsNext, ClaimNotHeader
<1>6. NotOlder' /\ FloorOfHeader'
  BY DEF TypeOK, Values, NotOlder, InGet, FloorOfHeader, HeaderIsNewest, ClaimNotHeader
<1>7. SeenIsData' /\ SpinMeansLapped'
  BY DEF TypeOK, Values, SeenIsData, SpinMeansLapped, GuardsUnflagged, FlagIsWriter
<1>8. QED BY <1>1, <1>2, <1>3, <1>4, <1>5, <1>6, <1>7

(* A claim finds nobody over the slot.                                     *)
LEMMA ScanClaimStep ==
  ASSUME IInv, ScanClaim
  PROVE  IInv'
<1> USE SlotFacts, TornAssumption, MaxUpdatesAssumption DEF IInv, ScanClaim, bufferVars, writerVars, readerVars
<1>1. TypeOK'
  BY NextIndexFree DEF TypeOK, WriterSteps, ReaderSteps, Values, ClaimNotHeader
<1>2. CountIsPins'
  BY DEF CountIsPins, Pinning, Slots
<1>3. FlagIsWriter' /\ ClaimNotHeader' /\ TornIsWriting'
  BY NextIndexFree DEF TypeOK, Values, FlagIsWriter, ClaimNotHeader, TornIsWriting
<1>4. GuardsUnflagged'
  <2>1. Pinning(widx) = {}
    BY NoPins DEF TypeOK
  <2>2. QED BY <2>1 DEF TypeOK, GuardsUnflagged, Pinning
<1>5. HeaderIsNewest' /\ ClaimIsNext'
  BY DEF TypeOK, Values, HeaderIsNewest, ClaimIsNext, ClaimNotHeader
<1>6. NotOlder' /\ FloorOfHeader'
  BY DEF TypeOK, Values, NotOlder, InGet, FloorOfHeader, HeaderIsNewest, ClaimNotHeader
<1>7. SeenIsData' /\ SpinMeansLapped'
  <2>1. Pinning(widx) = {}
    BY NoPins DEF TypeOK
  <2>2. QED BY <2>1 DEF TypeOK, SeenIsData, SpinMeansLapped, Pinning
<1>8. QED BY <1>1, <1>2, <1>3, <1>4, <1>5, <1>6, <1>7

(* The write ends with the slot still flagged.                             *)
LEMMA WriteDoneStep ==
  ASSUME IInv, WriteDone
  PROVE  IInv'
<1> USE SlotFacts, TornAssumption, MaxUpdatesAssumption DEF IInv, WriteDone, bufferVars, writerVars, readerVars
<1>1. TypeOK'
  <2>1. published + 1 \in Values
    BY DEF TypeOK, Values, ClaimNotHeader
  <2>2. QED BY <2>1 DEF TypeOK, WriterSteps
<1>2. CountIsPins'
  BY DEF CountIsPins, Pinning, Slots
<1>3. FlagIsWriter' /\ ClaimNotHeader' /\ TornIsWriting'
  <2>1. FlagIsWriter'
    BY DEF TypeOK, FlagIsWriter
  <2>2. ClaimNotHeader'
    BY DEF TypeOK, ClaimNotHeader
  <2>3. TornIsWriting'
    BY DEF TypeOK, Values, TornIsWriting
  <2>. QED
    BY <2>1, <2>2, <2>3
<1>4. GuardsUnflagged'
  BY DEF TypeOK, GuardsUnflagged
<1>5. HeaderIsNewest' /\ ClaimIsNext'
  BY DEF TypeOK, Values, HeaderIsNewest, ClaimIsNext, ClaimNotHeader
<1>6. NotOlder' /\ FloorOfHeader'
  BY DEF TypeOK, Values, NotOlder, InGet, FloorOfHeader, HeaderIsNewest, ClaimNotHeader
<1>7. SeenIsData' /\ SpinMeansLapped'
  BY DEF TypeOK, Values, SeenIsData, SpinMeansLapped, GuardsUnflagged, FlagIsWriter
<1>8. QED BY <1>1, <1>2, <1>3, <1>4, <1>5, <1>6, <1>7

(* The slot is whole before its flag goes.                                 *)
LEMMA ClearFlagStep ==
  ASSUME IInv, ClearFlag
  PROVE  IInv'
<1> USE SlotFacts, TornAssumption, MaxUpdatesAssumption DEF IInv, ClearFlag, bufferVars, writerVars, readerVars
<1>1. TypeOK'
  BY NextIndexFree DEF TypeOK, WriterSteps, ReaderSteps, Values, ClaimNotHeader
<1>2. CountIsPins'
  BY DEF CountIsPins, Pinning, Slots
<1>3. FlagIsWriter' /\ ClaimNotHeader' /\ TornIsWriting'
  BY NextIndexFree DEF TypeOK, Values, FlagIsWriter, ClaimNotHeader, TornIsWriting
<1>4. GuardsUnflagged'
  BY DEF TypeOK, GuardsUnflagged
<1>5. HeaderIsNewest' /\ ClaimIsNext'
  BY DEF TypeOK, Values, HeaderIsNewest, ClaimIsNext, ClaimNotHeader
<1>6. NotOlder' /\ FloorOfHeader'
  BY DEF TypeOK, Values, NotOlder, InGet, FloorOfHeader, HeaderIsNewest, ClaimNotHeader
<1>7. SeenIsData' /\ SpinMeansLapped'
  BY DEF TypeOK, Values, SeenIsData, SpinMeansLapped, GuardsUnflagged, FlagIsWriter
<1>8. QED BY <1>1, <1>2, <1>3, <1>4, <1>5, <1>6, <1>7

(* The new header is the slot just written.                                *)
LEMMA StoreHeaderStep ==
  ASSUME IInv, StoreHeader
  PROVE  IInv'
<1> USE SlotFacts, TornAssumption, MaxUpdatesAssumption DEF IInv, StoreHeader, bufferVars, writerVars, readerVars
<1>1. TypeOK'
  BY NextIndexFree DEF TypeOK, WriterSteps, ReaderSteps, Values, ClaimNotHeader
<1>2. CountIsPins'
  BY DEF CountIsPins, Pinning, Slots
<1>3. FlagIsWriter' /\ ClaimNotHeader' /\ TornIsWriting'
  BY NextIndexFree DEF TypeOK, Values, FlagIsWriter, ClaimNotHeader, TornIsWriting
<1>4. GuardsUnflagged'
  BY DEF TypeOK, GuardsUnflagged
<1>5. HeaderIsNewest' /\ ClaimIsNext'
  BY DEF TypeOK, Values, HeaderIsNewest, ClaimIsNext, ClaimNotHeader
<1>6. NotOlder' /\ FloorOfHeader'
  BY DEF TypeOK, Values, NotOlder, InGet, FloorOfHeader, HeaderIsNewest, ClaimNotHeader
<1>7. SeenIsData' /\ SpinMeansLapped'
  BY DEF TypeOK, Values, SeenIsData, SpinMeansLapped, GuardsUnflagged, FlagIsWriter
<1>8. QED BY <1>1, <1>2, <1>3, <1>4, <1>5, <1>6, <1>7

(* A handle appears; it is in no get.                                      *)
LEMMA NewReaderStep ==
  ASSUME IInv, NEW r \in Readers, NewReader(r)
  PROVE  IInv'
<1> USE SlotFacts, TornAssumption DEF IInv, NewReader, bufferVars, writerVars, readerVars
<1>1. TypeOK'
  BY DEF TypeOK, ReaderSteps, Values
<1>2. CountIsPins'
  <2>1. \A s \in Slots : Pinning(s)' = Pinning(s)
    BY DEF TypeOK, ReaderSteps, Pinning
  <2>2. QED BY <2>1 DEF CountIsPins
<1>3. FlagIsWriter' /\ ClaimNotHeader' /\ TornIsWriting' /\ HeaderIsNewest' /\ ClaimIsNext'
  BY DEF FlagIsWriter, ClaimNotHeader, TornIsWriting, HeaderIsNewest, ClaimIsNext
<1>4. GuardsUnflagged' /\ SeenIsData'
  BY DEF TypeOK, GuardsUnflagged, SeenIsData
<1>5. NotOlder' /\ FloorOfHeader'
  BY DEF TypeOK, Values, NotOlder, InGet, FloorOfHeader, HeaderIsNewest
<1>6. SpinMeansLapped'
  BY DEF TypeOK, Values, SpinMeansLapped, FloorOfHeader, InGet, FlagIsWriter, ClaimNotHeader
<1>7. QED BY <1>1, <1>2, <1>3, <1>4, <1>5, <1>6

(* A handle goes; it was in no get.                                        *)
LEMMA DropReaderStep ==
  ASSUME IInv, NEW r \in Readers, DropReader(r)
  PROVE  IInv'
<1> USE SlotFacts, TornAssumption DEF IInv, DropReader, bufferVars, writerVars, readerVars
<1>1. TypeOK'
  BY DEF TypeOK, ReaderSteps, Values
<1>2. CountIsPins'
  <2>1. \A s \in Slots : Pinning(s)' = Pinning(s)
    BY DEF TypeOK, ReaderSteps, Pinning
  <2>2. QED BY <2>1 DEF CountIsPins
<1>3. FlagIsWriter' /\ ClaimNotHeader' /\ TornIsWriting' /\ HeaderIsNewest' /\ ClaimIsNext'
  BY DEF FlagIsWriter, ClaimNotHeader, TornIsWriting, HeaderIsNewest, ClaimIsNext
<1>4. GuardsUnflagged' /\ SeenIsData'
  BY DEF TypeOK, GuardsUnflagged, SeenIsData
<1>5. NotOlder' /\ FloorOfHeader'
  BY DEF TypeOK, Values, NotOlder, InGet, FloorOfHeader, HeaderIsNewest
<1>6. SpinMeansLapped'
  BY DEF TypeOK, Values, SpinMeansLapped, FloorOfHeader, InGet, FlagIsWriter, ClaimNotHeader
<1>7. QED BY <1>1, <1>2, <1>3, <1>4, <1>5, <1>6

(* What header names is the newest value.                                  *)
LEMMA LoadHeaderStep ==
  ASSUME IInv, NEW r \in Readers, LoadHeader(r)
  PROVE  IInv'
<1> USE SlotFacts, TornAssumption DEF IInv, LoadHeader, bufferVars, writerVars, readerVars
<1>1. TypeOK'
  BY DEF TypeOK, ReaderSteps, Values
<1>2. CountIsPins'
  <2>1. \A s \in Slots : Pinning(s)' = Pinning(s)
    BY DEF TypeOK, ReaderSteps, Pinning
  <2>2. QED BY <2>1 DEF CountIsPins
<1>3. FlagIsWriter' /\ ClaimNotHeader' /\ TornIsWriting' /\ HeaderIsNewest' /\ ClaimIsNext'
  BY DEF FlagIsWriter, ClaimNotHeader, TornIsWriting, HeaderIsNewest, ClaimIsNext
<1>4. GuardsUnflagged' /\ SeenIsData'
  BY DEF TypeOK, GuardsUnflagged, SeenIsData
<1>5. NotOlder' /\ FloorOfHeader'
  BY DEF TypeOK, Values, NotOlder, InGet, FloorOfHeader, HeaderIsNewest
<1>6. SpinMeansLapped'
  BY DEF TypeOK, Values, SpinMeansLapped, FloorOfHeader, InGet, FlagIsWriter, ClaimNotHeader
<1>7. QED BY <1>1, <1>2, <1>3, <1>4, <1>5, <1>6

(* A pin of an unflagged slot is a guard over a whole value; a flagged     *)
(* slot is not the header any more.                                        *)
LEMMA PinStep ==
  ASSUME IInv, NEW r \in Readers, Pin(r)
  PROVE  IInv'
<1> USE SlotFacts, TornAssumption DEF IInv, Pin, TakeGuard, bufferVars, writerVars, readerVars
<1>1. TypeOK'
  <2>1. ridx[r] \in Slots /\ count[ridx[r]] + 1 \in Nat /\ data[ridx[r]] \in Values \cup {Torn}
    BY DEF TypeOK
  <2>2. rpc' \in [Readers -> ReaderSteps] /\ seen' \in [Readers -> Values \cup {Torn}]
    BY <2>1 DEF TypeOK, ReaderSteps
  <2>3. QED BY <2>1, <2>2 DEF TypeOK
<1>2. CountIsPins'
  <2>1. /\ Pinning(ridx[r])' = Pinning(ridx[r]) \cup {r}
        /\ r \notin Pinning(ridx[r])
        /\ \A s \in Slots : s # ridx[r] => Pinning(s)' = Pinning(s)
    BY DEF TypeOK, ReaderSteps, Pinning
  <2>2. Cardinality(Pinning(ridx[r]) \cup {r}) = Cardinality(Pinning(ridx[r])) + 1
    BY <2>1, PinningFinite, FS_AddElement
  <2>3. QED BY <2>1, <2>2 DEF TypeOK, CountIsPins
<1>3. FlagIsWriter' /\ ClaimNotHeader' /\ TornIsWriting' /\ HeaderIsNewest' /\ ClaimIsNext'
  BY DEF FlagIsWriter, ClaimNotHeader, TornIsWriting, HeaderIsNewest, ClaimIsNext
<1>4. GuardsUnflagged' /\ SeenIsData'
  BY DEF TypeOK, GuardsUnflagged, SeenIsData
<1>5. NotOlder' /\ FloorOfHeader'
  BY DEF TypeOK, Values, NotOlder, InGet, FloorOfHeader, HeaderIsNewest
<1>6. SpinMeansLapped'
  <2>1. flag[ridx[r]] => ridx[r] # header
    BY DEF TypeOK, FlagIsWriter, ClaimNotHeader
  <2>2. flag[ridx[r]] => published > floor[r]
    BY <2>1 DEF TypeOK, Values, FloorOfHeader, InGet
  <2>3. QED BY <2>2 DEF TypeOK, SpinMeansLapped
<1>7. QED BY <1>1, <1>2, <1>3, <1>4, <1>5, <1>6

(* The spin ends over a whole value.                                       *)
LEMMA SpinDoneStep ==
  ASSUME IInv, NEW r \in Readers, SpinDone(r)
  PROVE  IInv'
<1> USE SlotFacts, TornAssumption DEF IInv, SpinDone, TakeGuard, bufferVars, writerVars, readerVars
<1>1. TypeOK'
  BY DEF TypeOK, ReaderSteps, Values
<1>2. CountIsPins'
  <2>1. \A s \in Slots : Pinning(s)' = Pinning(s)
    BY DEF TypeOK, ReaderSteps, Pinning
  <2>2. QED BY <2>1 DEF CountIsPins
<1>3. FlagIsWriter' /\ ClaimNotHeader' /\ TornIsWriting' /\ HeaderIsNewest' /\ ClaimIsNext'
  BY DEF FlagIsWriter, ClaimNotHeader, TornIsWriting, HeaderIsNewest, ClaimIsNext
<1>4. GuardsUnflagged' /\ SeenIsData'
  BY DEF TypeOK, GuardsUnflagged, SeenIsData
<1>5. NotOlder' /\ FloorOfHeader'
  BY DEF TypeOK, Values, NotOlder, InGet, FloorOfHeader, HeaderIsNewest
<1>6. SpinMeansLapped'
  BY DEF TypeOK, Values, SpinMeansLapped, FloorOfHeader, InGet, FlagIsWriter, ClaimNotHeader
<1>7. QED BY <1>1, <1>2, <1>3, <1>4, <1>5, <1>6

(* A guard that goes takes its pin along.                                  *)
LEMMA DropGuardStep ==
  ASSUME IInv, NEW r \in Readers, DropGuard(r)
  PROVE  IInv'
<1> USE SlotFacts, TornAssumption DEF IInv, DropGuard, bufferVars, writerVars, readerVars
<1>1. TypeOK'
  <2>1. count[ridx[r]] - 1 \in Nat
    <3>1. r \in Pinning(ridx[r])
      BY DEF TypeOK, Pinning
    <3>2. count[ridx[r]] # 0
      BY <3>1, NoPins DEF TypeOK
    <3>3. QED BY <3>2 DEF TypeOK
  <2>2. QED BY <2>1 DEF TypeOK, ReaderSteps, Values
<1>2. CountIsPins'
  <2>1. /\ Pinning(ridx[r])' = Pinning(ridx[r]) \ {r}
        /\ r \in Pinning(ridx[r])
        /\ \A s \in Slots : s # ridx[r] => Pinning(s)' = Pinning(s)
    BY DEF TypeOK, ReaderSteps, Pinning
  <2>2. Cardinality(Pinning(ridx[r]) \ {r}) = Cardinality(Pinning(ridx[r])) - 1
    BY <2>1, PinningFinite, FS_RemoveElement
  <2>3. QED BY <2>1, <2>2 DEF TypeOK, CountIsPins
<1>3. FlagIsWriter' /\ ClaimNotHeader' /\ TornIsWriting' /\ HeaderIsNewest' /\ ClaimIsNext'
  BY DEF FlagIsWriter, ClaimNotHeader, TornIsWriting, HeaderIsNewest, ClaimIsNext
<1>4. GuardsUnflagged' /\ SeenIsData'
  BY DEF TypeOK, GuardsUnflagged, SeenIsData
<1>5. NotOlder' /\ FloorOfHeader'
  BY DEF TypeOK, Values, NotOlder, InGet, FloorOfHeader, HeaderIsNewest
<1>6. SpinMeansLapped'
  BY DEF TypeOK, Values, SpinMeansLapped, FloorOfHeader, InGet, FlagIsWriter, ClaimNotHeader
<1>7. QED BY <1>1, <1>2, <1>3, <1>4, <1>5, <1>6

-----------------------------------------------------------------------------
(* Every step preserves the invariant.                                     *)
LEMMA NextIInv == IInv /\ [Next]_vars => IInv'
<1> SUFFICES ASSUME IInv, [Next]_vars PROVE IInv'
  OBVIOUS
<1>1. CASE Writer
  BY <1>1, UpdateStartStep, ScanSkipStep, ScanClaimStep, WriteDoneStep, ClearFlagStep,
     StoreHeaderStep DEF Writer
<1>2. ASSUME NEW r \in Readers, Reader(r) PROVE IInv'
  BY <1>2, NewReaderStep, DropReaderStep, LoadHeaderStep, PinStep, SpinDoneStep,
     DropGuardStep DEF Reader
<1>3. CASE UNCHANGED vars
  BY <1>3 DEF vars, IInv, TypeOK, CountIsPins, Pinning, FlagIsWriter, ClaimNotHeader,
     GuardsUnflagged, TornIsWriting, HeaderIsNewest, ClaimIsNext, NotOlder, InGet,
     FloorOfHeader, SeenIsData, SpinMeansLapped
<1>4. QED BY <1>1, <1>2, <1>3 DEF Next

(* The invariant holds throughout.                                         *)
THEOREM Invariance == Spec => []IInv
<1>1. Init => IInv
  BY InitIInv
<1>2. IInv /\ [Next]_vars => IInv'
  BY NextIInv
<1>3. QED BY <1>1, <1>2, PTL DEF Spec

(* Every variable keeps its type; no count goes below zero.                *)
THEOREM TypeCorrect == Spec => []TypeOK
<1>1. IInv => TypeOK
  BY DEF IInv
<1>2. QED BY <1>1, Invariance, PTL

(* No guard ever sees its slot change or half written, for any number of   *)
(* readers.                                                                *)
THEOREM GuardsAreStable == Spec => []GuardIsStable
<1>1. IInv => GuardIsStable
  BY DEF IInv, TypeOK, GuardIsStable, SeenIsData, GuardsUnflagged, TornIsWriting,
         FlagIsWriter
<1>2. QED BY <1>1, Invariance, PTL

(* No get returns a value older than the newest published when it began.   *)
THEOREM GetsAreFresh == Spec => []NeverStale
<1>1. IInv => NeverStale
  BY DEF IInv, TypeOK, NeverStale, SeenIsData, GuardsUnflagged, TornIsWriting,
         FlagIsWriter, NotOlder, InGet
<1>2. QED BY <1>1, Invariance, PTL

(* A reader spins only when it was lapped by a whole update.               *)
THEOREM SpinsAreRare == Spec => []SpinMeansLapped
<1>1. IInv => SpinMeansLapped
  BY DEF IInv
<1>2. QED BY <1>1, Invariance, PTL

-----------------------------------------------------------------------------
(* The bound Publisher::reader keeps on the handles in existence.          *)
LiveBound == Cardinality(Live) <= MaxReaders

(* One more element makes a finite set at most one larger.                 *)
LEMMA AtMostOneMore ==
  ASSUME NEW S, NEW x, IsFiniteSet(S)
  PROVE  /\ IsFiniteSet(S \cup {x})
         /\ Cardinality(S) \in Nat
         /\ Cardinality(S \cup {x}) \in Nat
         /\ Cardinality(S \cup {x}) <= Cardinality(S) + 1
<1>1. IsFiniteSet(S \cup {x})
  BY FS_AddElement
<1>2. Cardinality(S) \in Nat /\ Cardinality(S \cup {x}) \in Nat
  BY <1>1, FS_CardinalityType
<1>3. CASE x \in S
  <2>1. Cardinality(S \cup {x}) = Cardinality(S)
    BY <1>3, FS_AddElement
  <2>2. QED BY <1>1, <1>2, <2>1
<1>4. CASE x \notin S
  <2>1. Cardinality(S \cup {x}) = Cardinality(S) + 1
    BY <1>4, FS_AddElement
  <2>2. QED BY <1>1, <1>2, <2>1
<1>5. QED BY <1>3, <1>4

LEMMA LiveFinite == IsFiniteSet(Live) /\ Cardinality(Live) \in Nat
<1>1. Live \in SUBSET Readers
  BY DEF Live
<1>2. IsFiniteSet(Live)
  BY <1>1, ReadersAssumption, FS_Subset
<1>3. QED BY <1>2, FS_CardinalityType

(* A step that starts or ends no handle leaves Live as it is.              *)
LEMMA LiveSame ==
  ASSUME TypeOK, [Next]_vars,
         \A r \in Readers : ~NewReader(r) /\ ~DropReader(r)
  PROVE  Live' = Live
<1>1. CASE Writer \/ UNCHANGED vars
  BY <1>1 DEF Live, Writer, UpdateStart, ScanSkip, ScanClaim, WriteDone, ClearFlag,
              StoreHeader, readerVars, vars
<1>2. ASSUME NEW r \in Readers,
             LoadHeader(r) \/ Pin(r) \/ SpinDone(r) \/ DropGuard(r)
      PROVE  Live' = Live
  <2>1. rpc[r] # "none" /\ \E p \in ReaderSteps : p # "none" /\ rpc' = [rpc EXCEPT ![r] = p]
    BY <1>2 DEF LoadHeader, Pin, SpinDone, DropGuard, TakeGuard, ReaderSteps
  <2>2. QED BY <2>1 DEF TypeOK, Live
<1>3. QED BY <1>1, <1>2 DEF Next, Reader

LEMMA NextLiveBound == TypeOK /\ LiveBound /\ [Next]_vars => LiveBound'
<1> SUFFICES ASSUME TypeOK, LiveBound, [Next]_vars PROVE LiveBound'
  OBVIOUS
<1>1. ASSUME NEW r \in Readers, NewReader(r) PROVE LiveBound'
  <2>1. Live' = Live \cup {r}
    BY <1>1 DEF NewReader, TypeOK, Live
  <2>2. Cardinality(Live) + 1 + 1 < MaxReaders + 2
    BY <1>1 DEF NewReader, BufferLen
  <2>3. Cardinality(Live \cup {r}) <= Cardinality(Live) + 1
    BY LiveFinite, AtMostOneMore
  <2>4. Cardinality(Live \cup {r}) \in Nat
    BY LiveFinite, AtMostOneMore
  <2>5. QED BY <2>1, <2>2, <2>3, <2>4, LiveFinite, MaxReadersAssumption DEF LiveBound
<1>2. ASSUME NEW r \in Readers, DropReader(r) PROVE LiveBound'
  <2>1. Live' = Live \ {r} /\ r \in Live
    BY <1>2 DEF DropReader, TypeOK, Live
  <2>2. Cardinality(Live \ {r}) = Cardinality(Live) - 1
    BY <2>1, LiveFinite, FS_RemoveElement
  <2>3. QED BY <2>1, <2>2, LiveFinite, MaxReadersAssumption DEF LiveBound
<1>3. QED BY <1>1, <1>2, LiveSame DEF LiveBound

(* The slots some reader pins are no more than the handles.                *)
LEMMA PinnedFew ==
  ASSUME LiveBound
  PROVE  LET P == {s \in Slots : Pinning(s) # {}}
         IN  IsFiniteSet(P) /\ Cardinality(P) <= MaxReaders
<1> DEFINE P == {s \in Slots : Pinning(s) # {}}
           pinners == {r \in Live : rpc[r] \in {"spin", "reading"} /\ ridx[r] \in Slots}
           f == [r \in pinners |-> ridx[r]]
<1>1. IsFiniteSet(pinners) /\ Cardinality(pinners) <= Cardinality(Live)
  BY LiveFinite, FS_Subset
<1>2. f \in Surjection(pinners, P)
  <2>1. \A r \in pinners : ridx[r] \in P
    BY DEF Pinning, Live
  <2>2. \A s \in P : \E r \in pinners : ridx[r] = s
    BY DEF Pinning, Live
  <2>3. QED BY <2>1, <2>2 DEF Surjection
<1>3. IsFiniteSet(P) /\ Cardinality(P) <= Cardinality(pinners)
  BY <1>1, <1>2, FS_Surjection
<1>4. Cardinality(P) \in Nat /\ Cardinality(pinners) \in Nat
  BY <1>1, <1>3, FS_CardinalityType
<1>5. QED BY <1>1, <1>3, <1>4, LiveFinite, MaxReadersAssumption DEF LiveBound

(* Pigeonhole: two more slots than handles, one of them the header.        *)
LEMMA FreeSlot == IInv /\ LiveBound => ClaimableSlot
<1> SUFFICES ASSUME IInv, LiveBound, wpc = "scan"
             PROVE  \E s \in Slots : s # header /\ ~flag[s] /\ count[s] = 0
  BY DEF ClaimableSlot
<1> DEFINE P == {s \in Slots : Pinning(s) # {}}
<1>1. IsFiniteSet(P) /\ Cardinality(P) <= MaxReaders
  BY PinnedFew
<1>2. /\ IsFiniteSet(P \cup {header})
      /\ Cardinality(P \cup {header}) <= MaxReaders + 1
      /\ Cardinality(P \cup {header}) \in Nat
  <2>1. Cardinality(P) \in Nat
    BY <1>1, FS_CardinalityType
  <2>2. /\ IsFiniteSet(P \cup {header})
        /\ Cardinality(P \cup {header}) \in Nat
        /\ Cardinality(P \cup {header}) <= Cardinality(P) + 1
    BY <1>1, AtMostOneMore
  <2>3. QED BY <1>1, <2>1, <2>2, MaxReadersAssumption
<1>3. Cardinality(Slots) = MaxReaders + 2
  BY FS_Interval, MaxReadersAssumption DEF Slots, BufferLen
<1>4. P \cup {header} # Slots
  BY <1>2, <1>3, MaxReadersAssumption
<1>5. PICK s \in Slots : s \notin P \cup {header}
  BY <1>4 DEF IInv, TypeOK
<1>6. count[s] = 0
  BY <1>5, FS_EmptySet DEF IInv, CountIsPins
<1>7. ~flag[s]
  BY DEF IInv, FlagIsWriter
<1>8. QED BY <1>5, <1>6, <1>7

(* Whatever the readers hold, a scan has a slot to find: the loop of       *)
(* claim_slot, which has no other exit, is never without one.              *)
THEOREM ScansCanEnd == Spec => []ClaimableSlot
<1>1. Init => LiveBound
  <2>1. Init => Live = {}
    BY DEF Init, Live
  <2>2. QED BY <2>1, FS_EmptySet, MaxReadersAssumption DEF LiveBound
<1>2. IInv => TypeOK
  BY DEF IInv
<1>3. QED BY <1>1, <1>2, NextLiveBound, FreeSlot, Invariance, PTL DEF Spec

-----------------------------------------------------------------------------
(* No slot runs ahead of the update under way.                             *)
NotAhead ==
  \A s \in Slots :
    data[s] # Torn => data[s] <= published \/ (data[s] = published + 1 /\ wpc \in {"unflag", "store"})

(* The mapping of MCSharedBuffer, by name.                                 *)
Started == IF wpc = "idle" THEN published ELSE published + 1
Phase == [r \in Readers |-> IF rpc[r] \in {"none", "idle"} THEN "idle"
                            ELSE IF rpc[r] = "reading" THEN "reading" ELSE "getting"]

-----------------------------------------------------------------------------
LEMMA NotAheadInit == Init => NotAhead
BY MaxUpdatesAssumption DEF Init, NotAhead

LEMMA NotAheadStep == IInv /\ NotAhead /\ [Next]_vars => NotAhead'
<1> SUFFICES ASSUME IInv, NotAhead, [Next]_vars PROVE NotAhead'
  OBVIOUS
<1> USE DEF NotAhead
<1>0. TypeOK
  BY DEF IInv
<1>1. CASE UpdateStart \/ ScanSkip
  BY <1>1 DEF UpdateStart, ScanSkip, bufferVars
<1>2. CASE ScanClaim
  BY <1>0, <1>2 DEF ScanClaim, TypeOK
<1>3. CASE WriteDone
  BY <1>0, <1>3 DEF WriteDone, TypeOK
<1>4. CASE ClearFlag
  BY <1>4 DEF ClearFlag
<1>5. CASE StoreHeader
  BY <1>0, <1>5, TornAssumption DEF StoreHeader, TypeOK, Values
<1>6. CASE UNCHANGED vars \/ \E r \in Readers : Reader(r)
  BY <1>6 DEF Reader, NewReader, DropReader, LoadHeader, Pin, SpinDone, DropGuard, TakeGuard,
              bufferVars, writerVars, vars
<1>7. QED BY <1>1, <1>2, <1>3, <1>4, <1>5, <1>6 DEF Next, Writer

-----------------------------------------------------------------------------
(* A reader that leaves phase p for q changes its own phase and no other.  *)
LEMMA PhaseMoves ==
  ASSUME rpc \in [Readers -> ReaderSteps], NEW r \in Readers, NEW p \in ReaderSteps,
         rpc' = [rpc EXCEPT ![r] = p]
  PROVE  Phase' = [Phase EXCEPT ![r] = IF p \in {"none", "idle"} THEN "idle"
                                       ELSE IF p = "reading" THEN "reading" ELSE "getting"]
BY DEF Phase

(* What a guard is handed is whole, no older than the get, and no newer    *)
(* than the update under way.                                              *)
LEMMA HandedInRange ==
  ASSUME IInv, NotAhead, NEW r \in Readers, rpc[r] \in {"loaded", "spin"}, ~flag[ridx[r]]
  PROVE  data[ridx[r]] \in floor[r] .. Started
<1>1. ridx[r] \in Slots /\ floor[r] \in Nat /\ published \in Nat
  BY DEF IInv, TypeOK, Values
<1>2. data[ridx[r]] # Torn
  BY <1>1 DEF IInv, TornIsWriting, FlagIsWriter
<1>3. data[ridx[r]] \in Nat
  BY <1>1, <1>2 DEF IInv, TypeOK, Values
<1>4. data[ridx[r]] >= floor[r]
  BY <1>2 DEF IInv, NotOlder, InGet
<1>5. data[ridx[r]] <= Started
  BY <1>1, <1>2, <1>3 DEF NotAhead, Started
<1>6. QED BY <1>1, <1>3, <1>4, <1>5 DEF Started

(* The return of a guard is the abstract EndGet.                           *)
LEMMA GuardIsEndGet ==
  ASSUME IInv, NotAhead, NEW r \in Readers, rpc[r] \in {"loaded", "spin"}, ~flag[ridx[r]],
         TakeGuard(r), UNCHANGED <<wpc, published, floor>>
  PROVE  Latest!EndGet(r)
<1>1. rpc \in [Readers -> ReaderSteps]
  BY DEF IInv, TypeOK
<1>2. Phase[r] = "getting"
  BY <1>1 DEF Phase
<1>3. Phase' = [Phase EXCEPT ![r] = "reading"]
  BY <1>1, PhaseMoves DEF TakeGuard, ReaderSteps
<1>4. \E v \in floor[r] .. Started : seen' = [seen EXCEPT ![r] = v]
  BY HandedInRange DEF TakeGuard
<1>5. UNCHANGED <<Started, published, floor>>
  BY DEF Started
<1>6. QED BY <1>2, <1>3, <1>4, <1>5 DEF Latest!EndGet, Started, Phase

LEMMA InitMaps == Init => Latest!Init
BY DEF Init, Latest!Init

(* The steps of the writer: an update begins with its scan and returns     *)
(* with the store of the header.                                           *)
LEMMA WriterMaps ==
  ASSUME IInv, Writer
  PROVE  [Latest!Next]_Latest!vars
<1>0. published \in Nat
  BY DEF IInv, TypeOK, Values
<1>1. CASE UpdateStart
  <2>1. Latest!Begin
    BY <1>0, <1>1 DEF UpdateStart, Latest!Begin, readerVars
  <2>2. QED BY <2>1 DEF Latest!Next
<1>2. CASE ScanSkip \/ ScanClaim \/ WriteDone \/ ClearFlag
  BY <1>2 DEF ScanSkip, ScanClaim, WriteDone, ClearFlag, bufferVars, readerVars, Latest!vars
<1>3. CASE StoreHeader
  <2>1. Latest!Publish
    BY <1>0, <1>3 DEF StoreHeader, Latest!Publish, readerVars
  <2>2. QED BY <2>1 DEF Latest!Next
<1>4. QED BY <1>1, <1>2, <1>3 DEF Writer

(* The steps of a reader: a get begins with its load of the header and     *)
(* ends with its guard, be it at the pin or after a spin.                  *)
LEMMA ReaderMaps ==
  ASSUME IInv, NotAhead, NEW r \in Readers, Reader(r)
  PROVE  [Latest!Next]_Latest!vars
<1>0. rpc \in [Readers -> ReaderSteps]
  BY DEF IInv, TypeOK
<1>1. CASE NewReader(r) \/ DropReader(r)
  <2>1. \E p \in {"none", "idle"} : rpc[r] \in {"none", "idle"} /\ rpc' = [rpc EXCEPT ![r] = p]
    BY <1>1 DEF NewReader, DropReader
  <2>2. Phase' = Phase
    BY <1>0, <2>1 DEF Phase
  <2>3. QED BY <1>1, <2>2 DEF NewReader, DropReader, writerVars, Phase, Latest!vars
<1>2. CASE LoadHeader(r)
  <2>1. Phase[r] = "idle" /\ Phase' = [Phase EXCEPT ![r] = "getting"]
    BY <1>0, <1>2, PhaseMoves DEF LoadHeader, Phase, ReaderSteps
  <2>2. Latest!BeginGet(r)
    BY <1>2, <2>1 DEF LoadHeader, Latest!BeginGet, Phase, writerVars
  <2>3. QED BY <2>2 DEF Latest!Next
<1>3. CASE Pin(r) /\ ~flag[ridx[r]]
  <2>1. Latest!EndGet(r)
    BY <1>3, GuardIsEndGet DEF Pin, writerVars
  <2>2. QED BY <2>1 DEF Latest!Next
<1>4. CASE Pin(r) /\ flag[ridx[r]]
  <2>1. Phase' = Phase
    BY <1>0, <1>4 DEF Pin, Phase
  <2>2. QED BY <1>4, <2>1 DEF Pin, writerVars, Phase, Latest!vars
<1>5. CASE SpinDone(r)
  <2>1. Latest!EndGet(r)
    BY <1>5, GuardIsEndGet DEF SpinDone, writerVars
  <2>2. QED BY <2>1 DEF Latest!Next
<1>6. CASE DropGuard(r)
  <2>1. Phase[r] = "reading" /\ Phase' = [Phase EXCEPT ![r] = "idle"]
    BY <1>0, <1>6, PhaseMoves DEF DropGuard, Phase, ReaderSteps
  <2>2. Latest!Release(r)
    BY <1>6, <2>1 DEF DropGuard, Latest!Release, Phase, writerVars
  <2>3. QED BY <2>2 DEF Latest!Next
<1>7. QED BY <1>1, <1>2, <1>3, <1>4, <1>5, <1>6 DEF Reader

LEMMA StepMaps == IInv /\ NotAhead /\ [Next]_vars => [Latest!Next]_Latest!vars
<1> SUFFICES ASSUME IInv, NotAhead, [Next]_vars PROVE [Latest!Next]_Latest!vars
  OBVIOUS
<1>1. CASE UNCHANGED vars
  BY <1>1 DEF vars, Latest!vars
<1>2. QED BY <1>1, WriterMaps, ReaderMaps DEF Next

(* Whatever the number of readers, slots and updates, a user of the buffer *)
(* cannot tell its slots, flags and counts from one register that hands    *)
(* out whole values no older than the get and no newer than the update     *)
(* under way (Publisher::update_with, Reader::get).                        *)
THEOREM BufferIsLatestValue == Spec => ImplementsLatestValue
<1>1. Spec => []NotAhead
  BY NotAheadInit, NotAheadStep, Invariance, PTL DEF Spec
<1>2. QED BY <1>1, InitMaps, StepMaps, Invariance, PTL DEF Spec, ImplementsLatestValue, Latest!Spec

-----------------------------------------------------------------------------
(* The waker *)

(* The variables keep their types.                                         *)
WakerTypes ==
  /\ bits \subseteq Flags
  /\ cell \in Wakers \cup {Uninit} /\ held \in Wakers \cup {Uninit}
  /\ npc \in NotifierSteps /\ ppc \in WaiterSteps
  /\ waker \in Wakers /\ woken \subseteq Wakers

(* The two reference flags say who is still there.                         *)
ReferencesCount ==
  /\ "NOTIFIER_REF" \in bits <=> npc # "done"
  /\ "WAITER_REF" \in bits <=> ppc # "done"
  /\ freed <=> (npc = "done" /\ ppc = "done")

(* REGISTERING is set from register's first RMW to its second.             *)
RegisteringIsRegister ==
  "REGISTERING" \in bits <=> ppc \in {"early", "write", "publish"}

(* Whoever works on the cell after a wake has cleared NOT_WAKING, and the  *)
(* notifier never does while the waiter does.                              *)
Claims ==
  /\ npc \in {"restore", "read"} =>
       "NOT_WAKING" \notin bits /\ ppc \notin {"write", "publish", "take", "settle"}
  /\ ppc \in {"take", "settle"} => "NOT_WAKING" \notin bits

(* The cell was emptied and its flags do not say so yet.                   *)
Empties == (npc = "read" /\ held # Uninit) \/ ppc = "settle"

(* NOT_WAITING tells what the cell holds, but for these moments, and the   *)
(* notifier holds a waker exactly from the read to the call.               *)
CellFollowsFlags ==
  /\ npc = "read" \/ ppc \in {"take", "settle"} => "NOT_WAITING" \notin bits
  /\ Empties => cell = Uninit
  /\ ppc = "publish" => cell # Uninit
  /\ ~Empties /\ ppc # "publish" /\ ~freed
       => ((cell = Uninit) <=> ("NOT_WAITING" \in bits))
  /\ freed => cell = Uninit
  /\ npc \notin {"read", "wake"} => held = Uninit
  /\ npc = "wake" => held # Uninit

(* The inductive invariant of CellIsSafe.                                  *)
CellInv ==
  WakerTypes /\ ReferencesCount /\ RegisteringIsRegister /\ Claims /\ CellFollowsFlags

(* The flags Shared is created with fit the empty cell.                    *)
LEMMA CellInit == WakerInit => CellInv
BY WakersAssumption DEF WakerInit, CellInv, WakerTypes, ReferencesCount,
   RegisteringIsRegister, Claims, Empties, CellFollowsFlags,
   Flags, NotifierSteps, WaiterSteps

(* Each atomic step of either half keeps the cell and its flags in step.   *)
LEMMA CellStep == CellInv /\ [WakerNext]_wakerVars => CellInv'
<1> SUFFICES ASSUME CellInv, [WakerNext]_wakerVars PROVE CellInv'
  OBVIOUS
<1> USE WakersAssumption DEF CellInv, WakerTypes, ReferencesCount,
      RegisteringIsRegister, Claims, Empties, CellFollowsFlags,
   Flags, NotifierSteps, WaiterSteps, notifierVars, waiterVars
<1>1. CASE UNCHANGED wakerVars
  BY <1>1 DEF wakerVars
<1>2. CASE Notify
  BY <1>2 DEF Notify, WakeWith, NotifierSets
<1>3. CASE DropNotifier
  BY <1>3 DEF DropNotifier, NotifierSets
<1>4. CASE DropWake
  BY <1>4 DEF DropWake, WakeWith, NotifierSets
<1>5. CASE RestoreNotWaking
  BY <1>5 DEF RestoreNotWaking, NotifierSets, AfterWake
<1>6. CASE NotifierTakes
  BY <1>6 DEF NotifierTakes
<1>7. CASE NotifierSettles
  BY <1>7 DEF NotifierSettles, NotifierSets
<1>8. CASE NotifierWakes
  BY <1>8 DEF NotifierWakes, AfterWake
<1>9. CASE ReleaseNotifier
  BY <1>9 DEF ReleaseNotifier, NotifierSets, Release
<1>10. ASSUME NEW w \in Wakers, Poll(w) PROVE CellInv'
  BY <1>10 DEF Poll
<1>11. CASE TryResolve1
  <2>1. CASE PeekPending("register")
    <3>1. /\ UNCHANGED <<bits, cell, freed, notifierVars, waker, woken>>
          /\ ppc' = "register"
      BY <2>1 DEF PeekPending
    <3>2. QED
      BY <1>11, <3>1 DEF TryResolve1
  <2>2. CASE TakePending("register")
    <3>1. /\ bits' = bits \cup {"NOT_PENDING"}
          /\ ppc' \in {"idle", "register"}
          /\ UNCHANGED <<cell, freed, notifierVars, waker, woken>>
      BY <2>2 DEF TakePending, WaiterSets
    <3>2. QED
      BY <1>11, <3>1 DEF TryResolve1
  <2>3. QED
    BY <1>11, <2>1, <2>2 DEF TryResolve1
<1>12. CASE TryResolve2
  <2>1. CASE PeekPending("parked")
    <3>1. UNCHANGED <<bits, cell, freed, notifierVars, waker, woken>> /\ ppc' = "parked"
      BY <2>1 DEF PeekPending
    <3>2. QED
      BY <1>12, <3>1 DEF TryResolve2
  <2>2. CASE TakePending("parked")
    <3>1. /\ bits' = bits \cup {"NOT_PENDING"}
          /\ ppc' \in {"idle", "parked"}
          /\ UNCHANGED <<cell, freed, notifierVars, waker, woken>>
      BY <2>2 DEF TakePending, WaiterSets
    <3>2. QED
      BY <1>12, <3>1 DEF TryResolve2
  <2>3. QED
    BY <1>12, <2>1, <2>2 DEF TryResolve2
<1>13. CASE RegisterEnter
  BY <1>13 DEF RegisterEnter, WaiterSets
<1>14. CASE RegisterBackOut
  BY <1>14 DEF RegisterBackOut, WaiterSets
<1>15. CASE RegisterWakesSelf
  BY <1>15 DEF RegisterWakesSelf
<1>16. CASE RegisterWrite
  BY <1>16 DEF RegisterWrite
<1>17. CASE RegisterPublish
  BY <1>17 DEF RegisterPublish, WaiterSets
<1>18. CASE WaiterTakes
  BY <1>18 DEF WaiterTakes
<1>19. CASE WaiterSettles
  BY <1>19 DEF WaiterSettles, WaiterSets
<1>20. CASE WaiterWakes
  BY <1>20 DEF WaiterWakes
<1>21. CASE DropWaiter
  BY <1>21 DEF DropWaiter, WaiterSets, Release
<1>22. QED
  BY <1>1, <1>2, <1>3, <1>4, <1>5, <1>6, <1>7, <1>8, <1>9, <1>10, <1>11, <1>12,
     <1>13, <1>14,
     <1>15, <1>16, <1>17, <1>18, <1>19, <1>20, <1>21 DEF WakerNext, NotifierWork,
     WaiterWork

(* The waker cell is safe: never used by both halves, never read or        *)
(* dropped uninitialised, freed once and by the last one.                  *)
THEOREM CellIsNeverShared == WakerSpec => []CellIsSafe
<1>1. CellInv => CellIsSafe
  BY DEF CellInv, CellIsSafe, NotifierInCell, WaiterInCell, ReferencesCount, Claims,
     Empties, CellFollowsFlags
<1>2. QED BY <1>1, CellInit, CellStep, PTL DEF WakerSpec


(* Nothing to tell: neither a notification nor a departure.                *)
Quiet(b) == {"NOT_PENDING", "NOTIFIER_ACTIVE"} \subseteq b

(* A Relaxed load may still return a byte with nothing to tell.            *)
SeesNothing == \E i \in DOMAIN unseen : Quiet(unseen[i])

(* The waker of the last poll waits in the cell for a notify to claim it.  *)
Armed == cell = waker /\ "NOT_WAITING" \notin bits /\ "NOT_WAKING" \in bits

(* A wake that has claimed that waker is on its way to call it.            *)
BeingWoken ==
  \/ npc = "read" /\ (IF held = Uninit THEN cell = waker ELSE held = waker)
  \/ npc = "wake" /\ held = waker

(* The waker of the last poll was not called yet.                          *)
Unwoken == waker \notin woken

(* The history variables say what the flags say, and a departed notifier   *)
(* sends nothing more.                                                     *)
History ==
  /\ unseen \in Seq(SUBSET Flags)
  /\ owed \in BOOLEAN /\ dropping \in BOOLEAN /\ gone \in BOOLEAN
  /\ owed <=> "NOT_PENDING" \notin bits
  /\ dropping <=> "NOTIFIER_ACTIVE" \notin bits
  /\ dropping => npc # "idle"
  /\ gone => dropping /\ "NOT_PENDING" \in bits

(* A registration leaves a waker that can be found, until it is called.    *)
Registered ==
  /\ ppc = "publish" => cell = waker
  /\ ppc \in {"resolve2", "parked"} /\ Unwoken => Armed \/ BeingWoken

(* What there is to tell is being told.  In the second attempt it may also *)
(* be seen, unless a Relaxed load can miss it.                             *)
Told ==
  /\ ppc = "parked" /\ Unwoken /\ ~Quiet(bits) => npc = "claimed" \/ BeingWoken
  /\ ppc = "resolve2" /\ Unwoken /\ ~Quiet(bits) /\ SeesNothing
       => npc = "claimed" \/ BeingWoken

(* The inductive invariant of NoLostWakeup.                                *)
WakeInv == CellInv /\ History /\ Registered /\ Told

(* What a load may return after the notifier changed the byte ...          *)
LEMMA Appended ==
  ASSUME NEW b \in SUBSET Flags, unseen \in Seq(SUBSET Flags),
         unseen' = Append(unseen, b)
  PROVE  /\ unseen' \in Seq(SUBSET Flags)
         /\ SeesNothing' => SeesNothing \/ Quiet(b)
BY DEF SeesNothing

(* ... after nobody did ...                                                *)
LEMMA Unchanged ==
  ASSUME unseen \in Seq(SUBSET Flags), unseen' = unseen
  PROVE  unseen' \in Seq(SUBSET Flags) /\ (SeesNothing' <=> SeesNothing)
BY DEF SeesNothing

(* ... and after the waiter did, who then knows the byte.                  *)
LEMMA Looked ==
  ASSUME NEW b \in SUBSET Flags, unseen' = <<b>>
  PROVE  unseen' \in Seq(SUBSET Flags) /\ (SeesNothing' <=> Quiet(b))
BY DEF SeesNothing

(* At the start nothing is pending, and nobody is registered.              *)
LEMMA HistoryInit == WakerInit => History /\ Registered /\ Told
<1> SUFFICES ASSUME WakerInit PROVE History /\ Registered /\ Told
  OBVIOUS
<1>1. bits \in SUBSET Flags /\ unseen = <<bits>>
  BY DEF WakerInit
<1>2. unseen \in Seq(SUBSET Flags)
  BY <1>1
<1>3. QED
  BY <1>2 DEF WakerInit, History, Registered, Told, Flags

(* Each step keeps the history and the flags in agreement.                 *)
LEMMA HistoryStep == CellInv /\ History /\ [WakerNext]_wakerVars => History'
<1> SUFFICES ASSUME CellInv, History, [WakerNext]_wakerVars PROVE History'
  OBVIOUS
<1> USE DEF History, CellInv, WakerTypes, Flags, notifierVars, waiterVars
<1>1. CASE UNCHANGED wakerVars
  BY <1>1, Unchanged DEF wakerVars
<1>2. CASE Notify
  BY <1>2, Appended DEF Notify, WakeWith, NotifierSets
<1>3. CASE DropNotifier
  BY <1>3, Appended DEF DropNotifier, NotifierSets
<1>4. CASE DropWake
  BY <1>4, Appended DEF DropWake, WakeWith, NotifierSets
<1>5. CASE RestoreNotWaking
  BY <1>5, Appended DEF RestoreNotWaking, NotifierSets, AfterWake
<1>6. CASE NotifierTakes
  BY <1>6, Unchanged DEF NotifierTakes
<1>7. CASE NotifierSettles
  BY <1>7, Appended DEF NotifierSettles, NotifierSets
<1>8. CASE NotifierWakes
  BY <1>8, Unchanged DEF NotifierWakes, AfterWake
<1>9. CASE ReleaseNotifier
  BY <1>9, Appended DEF ReleaseNotifier, NotifierSets, Release
<1>10. ASSUME NEW w \in Wakers, Poll(w) PROVE History'
  BY <1>10, Unchanged DEF Poll
<1>11. CASE TryResolve1
  <2>1. CASE PeekPending("register")
    <3>1. PICK i \in DOMAIN unseen : unseen' = SubSeq(unseen, i, Len(unseen))
      BY <2>1 DEF PeekPending
    <3>2. unseen' \in Seq(SUBSET Flags)
      BY <3>1
    <3>3. UNCHANGED <<bits, npc, dropping, owed, gone>>
      BY <2>1 DEF PeekPending
    <3>4. QED
      BY <3>2, <3>3
  <2>2. CASE TakePending("register")
    <3>1. unseen' \in Seq(SUBSET Flags)
      BY <2>2, Looked DEF TakePending, WaiterSets
    <3>2. bits' = bits \cup {"NOT_PENDING"} /\ UNCHANGED <<npc, dropping>>
      BY <2>2 DEF TakePending, WaiterSets
    <3>3. CASE "NOT_PENDING" \notin bits /\ owed' = FALSE /\ UNCHANGED gone
      BY <3>1, <3>2, <3>3
    <3>4. CASE "NOT_PENDING" \in bits /\ "NOTIFIER_ACTIVE" \notin bits
               /\ gone' = TRUE /\ UNCHANGED owed
      BY <3>1, <3>2, <3>4
    <3>5. CASE "NOT_PENDING" \in bits /\ UNCHANGED <<owed, gone>>
      BY <3>1, <3>2, <3>5
    <3>6. QED
      BY <2>2, <3>3, <3>4, <3>5 DEF TakePending
  <2>3. QED
    BY <1>11, <2>1, <2>2 DEF TryResolve1
<1>12. CASE TryResolve2
  <2>1. CASE PeekPending("parked")
    <3>1. PICK i \in DOMAIN unseen : unseen' = SubSeq(unseen, i, Len(unseen))
      BY <2>1 DEF PeekPending
    <3>2. unseen' \in Seq(SUBSET Flags)
      BY <3>1
    <3>3. UNCHANGED <<bits, npc, dropping, owed, gone>>
      BY <2>1 DEF PeekPending
    <3>4. QED
      BY <3>2, <3>3
  <2>2. CASE TakePending("parked")
    <3>1. unseen' \in Seq(SUBSET Flags)
      BY <2>2, Looked DEF TakePending, WaiterSets
    <3>2. bits' = bits \cup {"NOT_PENDING"} /\ UNCHANGED <<npc, dropping>>
      BY <2>2 DEF TakePending, WaiterSets
    <3>3. CASE "NOT_PENDING" \notin bits /\ owed' = FALSE /\ UNCHANGED gone
      BY <3>1, <3>2, <3>3
    <3>4. CASE "NOT_PENDING" \in bits /\ "NOTIFIER_ACTIVE" \notin bits
               /\ gone' = TRUE /\ UNCHANGED owed
      BY <3>1, <3>2, <3>4
    <3>5. CASE "NOT_PENDING" \in bits /\ UNCHANGED <<owed, gone>>
      BY <3>1, <3>2, <3>5
    <3>6. QED
      BY <2>2, <3>3, <3>4, <3>5 DEF TakePending
  <2>3. QED
    BY <1>12, <2>1, <2>2 DEF TryResolve2
<1>13. CASE RegisterEnter
  BY <1>13, Looked DEF RegisterEnter, WaiterSets
<1>14. CASE RegisterBackOut
  BY <1>14, Looked DEF RegisterBackOut, WaiterSets
<1>15. CASE RegisterWakesSelf
  BY <1>15, Unchanged DEF RegisterWakesSelf
<1>16. CASE RegisterWrite
  BY <1>16, Unchanged DEF RegisterWrite
<1>17. CASE RegisterPublish
  BY <1>17, Looked DEF RegisterPublish, WaiterSets
<1>18. CASE WaiterTakes
  BY <1>18, Unchanged DEF WaiterTakes
<1>19. CASE WaiterSettles
  BY <1>19, Looked DEF WaiterSettles, WaiterSets
<1>20. CASE WaiterWakes
  BY <1>20, Unchanged DEF WaiterWakes
<1>21. CASE DropWaiter
  BY <1>21, Looked DEF DropWaiter, WaiterSets, Release
<1>22. QED
  BY <1>1, <1>2, <1>3, <1>4, <1>5, <1>6, <1>7, <1>8, <1>9, <1>10, <1>11, <1>12,
     <1>13, <1>14, <1>15, <1>16, <1>17, <1>18, <1>19, <1>20, <1>21 DEF WakerNext,
     NotifierWork, WaiterWork


(* Each step keeps a registered waker in reach: a notify that empties the  *)
(* cell goes on to call what it took.                                      *)
LEMMA RegisteredStep ==
  CellInv /\ History /\ Registered /\ [WakerNext]_wakerVars => Registered'
<1> SUFFICES ASSUME CellInv, History, Registered, [WakerNext]_wakerVars
             PROVE  Registered'
  OBVIOUS
<1> USE WakersAssumption DEF CellInv, WakerTypes, RegisteringIsRegister, Claims,
      CellFollowsFlags, Registered,
      Unwoken, Armed, BeingWoken, notifierVars, waiterVars, Flags
<1>1. CASE UNCHANGED wakerVars
  BY <1>1 DEF wakerVars
<1>2. CASE Notify
  BY <1>2 DEF Notify, WakeWith, NotifierSets
<1>3. CASE DropNotifier
  BY <1>3 DEF DropNotifier, NotifierSets
<1>4. CASE DropWake
  BY <1>4 DEF DropWake, WakeWith, NotifierSets
<1>5. CASE RestoreNotWaking
  BY <1>5 DEF RestoreNotWaking, NotifierSets, AfterWake
<1>6. CASE NotifierTakes
  BY <1>6 DEF NotifierTakes
<1>7. CASE NotifierSettles
  BY <1>7 DEF NotifierSettles, NotifierSets
<1>8. CASE NotifierWakes
  BY <1>8 DEF NotifierWakes, AfterWake
<1>9. CASE ReleaseNotifier
  BY <1>9 DEF ReleaseNotifier, NotifierSets, Release, ReferencesCount
<1>10. ASSUME NEW w \in Wakers, Poll(w) PROVE Registered'
  BY <1>10 DEF Poll
<1>11. CASE TryResolve1
  <2>1. ppc' \in {"idle", "register"}
    BY <1>11 DEF TryResolve1, PeekPending, TakePending
  <2>2. QED
    BY <2>1
<1>12. CASE TryResolve2
  <2>1. CASE PeekPending("parked")
    BY <1>12, <2>1 DEF TryResolve2, PeekPending
  <2>2. CASE TakePending("parked")
    <3>1. /\ bits' = bits \cup {"NOT_PENDING"}
          /\ ppc' \in {"idle", "parked"}
          /\ UNCHANGED <<cell, npc, held, waker, woken>>
      BY <2>2 DEF TakePending, WaiterSets
    <3>2. QED
      BY <1>12, <3>1 DEF TryResolve2
  <2>3. QED
    BY <1>12, <2>1, <2>2 DEF TryResolve2
<1>13. CASE RegisterEnter
  BY <1>13 DEF RegisterEnter, WaiterSets
<1>14. CASE RegisterBackOut
  BY <1>14 DEF RegisterBackOut, WaiterSets
<1>15. CASE RegisterWakesSelf
  BY <1>15 DEF RegisterWakesSelf
<1>16. CASE RegisterWrite
  BY <1>16 DEF RegisterWrite
<1>17. CASE RegisterPublish
  BY <1>17 DEF RegisterPublish, WaiterSets
<1>18. CASE WaiterTakes
  BY <1>18 DEF WaiterTakes
<1>19. CASE WaiterSettles
  BY <1>19 DEF WaiterSettles, WaiterSets
<1>20. CASE WaiterWakes
  BY <1>20 DEF WaiterWakes
<1>21. CASE DropWaiter
  BY <1>21 DEF DropWaiter, WaiterSets, Release
<1>22. QED
  BY <1>1, <1>2, <1>3, <1>4, <1>5, <1>6, <1>7, <1>8, <1>9, <1>10, <1>11, <1>12,
     <1>13, <1>14, <1>15, <1>16, <1>17, <1>18, <1>19, <1>20, <1>21 DEF WakerNext,
     NotifierWork, WaiterWork

(* Each step keeps the waiter told: a notification finds the waker armed,  *)
(* and a registration that came after it sees the flag.                    *)
LEMMA ToldStep ==
  CellInv /\ History /\ Registered /\ Told /\ [WakerNext]_wakerVars => Told'
<1> SUFFICES ASSUME CellInv, History, Registered, Told, [WakerNext]_wakerVars
             PROVE  Told'
  OBVIOUS
<1>0. unseen \in Seq(SUBSET Flags)
  BY DEF History
<1> USE <1>0, WakersAssumption DEF CellInv, WakerTypes, RegisteringIsRegister,
      Claims, CellFollowsFlags, Registered, Told, Quiet,
      Unwoken, Armed, BeingWoken, notifierVars, waiterVars, Flags
<1>1. CASE UNCHANGED wakerVars
  BY <1>1, Unchanged DEF wakerVars
<1>2. CASE Notify
  BY <1>2, Appended DEF Notify, WakeWith, NotifierSets
<1>3. CASE DropNotifier
  BY <1>3, Appended DEF DropNotifier, NotifierSets
<1>4. CASE DropWake
  BY <1>4, Appended DEF DropWake, WakeWith, NotifierSets
<1>5. CASE RestoreNotWaking
  BY <1>5, Appended DEF RestoreNotWaking, NotifierSets, AfterWake
<1>6. CASE NotifierTakes
  BY <1>6, Unchanged DEF NotifierTakes
<1>7. CASE NotifierSettles
  BY <1>7, Appended DEF NotifierSettles, NotifierSets
<1>8. CASE NotifierWakes
  BY <1>8, Unchanged DEF NotifierWakes, AfterWake
<1>9. CASE ReleaseNotifier
  BY <1>9, Appended DEF ReleaseNotifier, NotifierSets, Release
<1>10. ASSUME NEW w \in Wakers, Poll(w) PROVE Told'
  BY <1>10 DEF Poll
<1>11. CASE TryResolve1
  <2>1. ppc' \in {"idle", "register"}
    BY <1>11 DEF TryResolve1, PeekPending, TakePending
  <2>2. QED
    BY <2>1
<1>12. CASE TryResolve2
  <2>1. CASE PeekPending("parked")
    <3>1. SeesNothing
      BY <2>1 DEF PeekPending, SeesNothing
    <3>2. UNCHANGED <<bits, cell, npc, held, waker, woken>> /\ ppc' = "parked"
      BY <2>1 DEF PeekPending
    <3>3. QED
      BY <1>12, <3>1, <3>2 DEF TryResolve2
  <2>2. CASE TakePending("parked")
    <3>1. ppc' = "parked" => Quiet(bits')
      BY <2>2 DEF TakePending, WaiterSets
    <3>2. ppc' \in {"idle", "parked"}
      BY <2>2 DEF TakePending
    <3>3. QED
      BY <3>1, <3>2
  <2>3. QED
    BY <1>12, <2>1, <2>2 DEF TryResolve2
<1>13. CASE RegisterEnter
  BY <1>13, Looked DEF RegisterEnter, WaiterSets
<1>14. CASE RegisterBackOut
  BY <1>14, Looked DEF RegisterBackOut, WaiterSets
<1>15. CASE RegisterWakesSelf
  BY <1>15, Unchanged DEF RegisterWakesSelf
<1>16. CASE RegisterWrite
  BY <1>16, Unchanged DEF RegisterWrite
<1>17. CASE RegisterPublish
  BY <1>17, Looked DEF RegisterPublish, WaiterSets
<1>18. CASE WaiterTakes
  BY <1>18, Unchanged DEF WaiterTakes
<1>19. CASE WaiterSettles
  BY <1>19, Looked DEF WaiterSettles, WaiterSets
<1>20. CASE WaiterWakes
  BY <1>20, Unchanged DEF WaiterWakes
<1>21. CASE DropWaiter
  BY <1>21, Looked DEF DropWaiter, WaiterSets, Release
<1>22. QED
  BY <1>1, <1>2, <1>3, <1>4, <1>5, <1>6, <1>7, <1>8, <1>9, <1>10, <1>11, <1>12,
     <1>13, <1>14, <1>15, <1>16, <1>17, <1>18, <1>19, <1>20, <1>21 DEF WakerNext,
     NotifierWork, WaiterWork

(* A waiter that stays parked has nothing to be told, and None comes last. *)
THEOREM NothingIsLost == WakerSpec => []NoLostWakeup
<1>1. WakerInit => WakeInv
  BY CellInit, HistoryInit DEF WakeInv
<1>2. WakeInv /\ [WakerNext]_wakerVars => WakeInv'
  BY CellStep, HistoryStep, RegisteredStep, ToldStep DEF WakeInv
<1>3. WakeInv => NoLostWakeup
  <2> SUFFICES ASSUME WakeInv PROVE NoLostWakeup
    OBVIOUS
  <2>1. ASSUME ppc = "parked", waker \notin woken, npc \in {"idle", "done"}
        PROVE  Quiet(bits)
    BY <2>1 DEF WakeInv, Told, Unwoken, BeingWoken
  <2>2. gone => dropping /\ ~owed
    BY DEF WakeInv, History
  <2>3. QED
    BY <2>1, <2>2 DEF NoLostWakeup, Quiet
<1>4. QED
  BY <1>1, <1>2, <1>3, PTL DEF WakerSpec
(* Each atomic step of the flags is a step of the notification, or one its *)
(* user does not see.                                                      *)
LEMMA StepIsNotification == History /\ [WakerNext]_wakerVars => [Flag!Next]_(Flag!vars)
<1> SUFFICES ASSUME History, [WakerNext]_wakerVars PROVE [Flag!Next]_(Flag!vars)
  OBVIOUS
<1> USE DEF notifierVars, waiterVars, Flag!vars
<1>1. CASE UNCHANGED wakerVars
  BY <1>1 DEF wakerVars
<1>2. CASE Notify
  <2>1. Flag!Notify
    BY <1>2 DEF Notify, WakeWith, NotifierSets, Flag!Notify, History
  <2>2. QED
    BY <2>1 DEF Flag!Next
<1>3. CASE DropNotifier
  <2>1. Flag!Depart
    BY <1>3 DEF DropNotifier, NotifierSets, Flag!Depart, History
  <2>2. QED
    BY <2>1 DEF Flag!Next
<1>4. ASSUME NEW w \in Wakers, Poll(w) PROVE Flag!Begin \/ UNCHANGED Flag!vars
  BY <1>4 DEF Poll, Flag!Begin
<1>5. ASSUME NEW next \in {"register", "parked"}, ppc \in {"resolve1", "resolve2"},
             PeekPending(next)
      PROVE  UNCHANGED Flag!vars
  BY <1>5 DEF PeekPending
<1>6. ASSUME NEW next \in {"register", "parked"}, ppc \in {"resolve1", "resolve2"},
             TakePending(next)
      PROVE  [Flag!Next]_(Flag!vars)
  <2>0. bits' = bits \cup {"NOT_PENDING"} /\ UNCHANGED dropping
    BY <1>6 DEF TakePending, WaiterSets
  <2>1. CASE "NOT_PENDING" \notin bits /\ ppc' = "idle" /\ UNCHANGED gone
    <3>1. Flag!ReportSome
      BY <1>6, <2>0, <2>1 DEF Flag!ReportSome
    <3>2. QED
      BY <3>1 DEF Flag!Next
  <2>2. CASE /\ "NOT_PENDING" \in bits /\ "NOTIFIER_ACTIVE" \notin bits
             /\ ppc' = "idle" /\ gone' = TRUE
    <3>1. Flag!ReportNone
      BY <1>6, <2>0, <2>2 DEF Flag!ReportNone, History
    <3>2. QED
      BY <3>1 DEF Flag!Next
  <2>3. CASE "NOT_PENDING" \in bits /\ ppc' = next /\ UNCHANGED gone
    BY <1>6, <2>0, <2>3
  <2>4. QED
    BY <1>6, <2>1, <2>2, <2>3 DEF TakePending
<1>7. CASE TryResolve1 \/ TryResolve2
  BY <1>5, <1>6, <1>7 DEF TryResolve1, TryResolve2
<1>8. CASE DropWaiter
  <2>1. Flag!GiveUp \/ UNCHANGED Flag!vars
    BY <1>8 DEF DropWaiter, WaiterSets, Flag!GiveUp
  <2>2. QED
    BY <2>1 DEF Flag!Next
<1>9. CASE DropWake
  BY <1>9 DEF DropWake, WakeWith, NotifierSets
<1>10. CASE RestoreNotWaking
  BY <1>10 DEF RestoreNotWaking, NotifierSets, AfterWake
<1>11. CASE NotifierTakes
  BY <1>11 DEF NotifierTakes
<1>12. CASE NotifierSettles
  BY <1>12 DEF NotifierSettles, NotifierSets
<1>13. CASE NotifierWakes
  BY <1>13 DEF NotifierWakes, AfterWake
<1>14. CASE ReleaseNotifier
  BY <1>14 DEF ReleaseNotifier, NotifierSets, Release
<1>15. CASE RegisterEnter
  BY <1>15 DEF RegisterEnter, WaiterSets
<1>16. CASE RegisterBackOut
  BY <1>16 DEF RegisterBackOut, WaiterSets
<1>17. CASE RegisterWakesSelf
  BY <1>17 DEF RegisterWakesSelf
<1>18. CASE RegisterWrite
  BY <1>18 DEF RegisterWrite
<1>19. CASE RegisterPublish
  BY <1>19 DEF RegisterPublish, WaiterSets
<1>20. CASE WaiterTakes
  BY <1>20 DEF WaiterTakes
<1>21. CASE WaiterSettles
  BY <1>21 DEF WaiterSettles, WaiterSets
<1>22. CASE WaiterWakes
  BY <1>22 DEF WaiterWakes
<1>23. QED
  BY <1>1, <1>2, <1>3, <1>4, <1>7, <1>8, <1>9, <1>10, <1>11, <1>12, <1>13, <1>14,
     <1>15, <1>16, <1>17, <1>18, <1>19, <1>20, <1>21, <1>22 DEF WakerNext,
     NotifierWork, WaiterWork, Flag!Next

(* The safety half of ImplementsNotification: what notify, wait and the    *)
(* drops do is what Notification allows.                                   *)
THEOREM WaitsAreNotifications == WakerSpec => Flag!Init /\ [][Flag!Next]_(Flag!vars)
<1>1. WakerInit => Flag!Init
  BY DEF WakerInit, Flag!Init, Flags
<1>2. QED
  BY <1>1, CellInit, CellStep, HistoryInit, HistoryStep, StepIsNotification,
     PTL DEF WakerSpec

=============================================================================
