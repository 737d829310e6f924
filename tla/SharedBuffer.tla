---------------------------- MODULE SharedBuffer ----------------------------
(***************************************************************************)
(* The lock-free newest-value buffer of core_lib/src/shared_buffer.rs: one *)
(* Publisher, up to MaxReaders Readers, MaxReaders + 2 slots.  A slot has  *)
(* its data and an atomic word `state` whose top bit is WRITE_FLAG and     *)
(* whose low bits count the guards on it; `header` is the slot published   *)
(* last.  Each atomic operation, and each end of the in-place write, is a  *)
(* step of its own.                                                        *)
(*                                                                         *)
(* Data is abstracted to the number of the update that wrote it: update k  *)
(* writes k, the default value of a slot is 0, and a slot somebody is      *)
(* writing holds Torn.                                                     *)
(*                                                                         *)
(* Memory is sequentially consistent here.  The two Relaxed loads of the   *)
(* code are covered: `header` is written by the publisher alone, and a     *)
(* stale or spuriously failing look at a slot only ever skips it, which    *)
(* ScanSkip allows at any slot.                                            *)
(***************************************************************************)
EXTENDS Naturals, FiniteSets

CONSTANTS Readers,      \* the Reader handles that may ever exist
          MaxReaders,   \* the argument of Publisher::new
          MaxUpdates,   \* bound: the updates the publisher makes
          Torn          \* the content of a slot that is being written

ASSUME MaxReadersAssumption == MaxReaders \in Nat \ {0}
ASSUME MaxUpdatesAssumption == MaxUpdates \in Nat
ASSUME ReadersAssumption == IsFiniteSet(Readers)
ASSUME TornAssumption == Torn \notin Nat

VARIABLES header,     \* index of the slot published last
          flag,       \* flag[s]: WRITE_FLAG of the slot's state
          count,      \* count[s]: the guards counted in the slot's state
          data,       \* data[s]: the slot's content
          wpc,        \* where the publisher is in update_with
          widx,       \* the slot it looks at or has claimed
          published,  \* history: updates whose header store is done
          rpc,        \* rpc[r]: where reader r is in get
          ridx,       \* ridx[r]: the slot it loaded from header
          floor,      \* history: value of published when r's get began
          seen        \* the value behind r's last guard

bufferVars == <<header, flag, count, data>>
writerVars == <<wpc, widx, published>>
readerVars == <<rpc, ridx, floor, seen>>
vars == <<header, flag, count, data, wpc, widx, published, rpc, ridx, floor, seen>>

BufferLen == MaxReaders + 2
Slots == 0 .. BufferLen - 1
Values == 0 .. MaxUpdates

WriterSteps == {"idle", "scan", "write", "unflag", "store"}
ReaderSteps == {"none", "idle", "loaded", "spin", "reading"}

Live == {r \in Readers : rpc[r] # "none"}

(* What the fetch_add of get has counted and the fetch_sub of the guard's  *)
(* drop has not: the readers pinning slot s.                               *)
Pinning(s) == {r \in Readers : rpc[r] \in {"spin", "reading"} /\ ridx[r] = s}

Init ==
  /\ header = 0
  /\ flag = [s \in Slots |-> FALSE]
  /\ count = [s \in Slots |-> 0]
  /\ data = [s \in Slots |-> 0]
  /\ wpc = "idle"
  /\ widx = 0
  /\ published = 0
  /\ rpc = [r \in Readers |-> "none"]
  /\ ridx = [r \in Readers |-> 0]
  /\ floor = [r \in Readers |-> 0]
  /\ seen = [r \in Readers |-> 0]

-----------------------------------------------------------------------------
(* The publisher *)

(* Slip: the slot published last is not passed over.                       *)
NextIndexOverLast(i) == (i + 1) % BufferLen

(* The index claim_slot turns to after i: one up, wrapping at the end and  *)
(* never the slot published last.                                          *)
NextIndex(i) ==
  LET up == (i + 1) % BufferLen
  IN  IF up = header THEN (up + 1) % BufferLen ELSE up

UpdateStart ==
  /\ wpc = "idle"
  /\ published < MaxUpdates
  /\ wpc' = "scan"
  /\ widx' = NextIndex(header)
  /\ UNCHANGED <<bufferVars, published, readerVars>>

(* The pre-check reads a nonzero state (maybe a stale one), or the weak    *)
(* compare-exchange fails (maybe spuriously).                              *)
ScanSkip ==
  /\ wpc = "scan"
  /\ widx' = NextIndex(widx)
  /\ UNCHANGED <<bufferVars, wpc, published, readerVars>>

(* Slip: only WRITE_FLAG is tested, a pinned slot is claimed.              *)
ScanClaimPinned ==
  /\ wpc = "scan"
  /\ ~flag[widx]
  /\ flag' = [flag EXCEPT ![widx] = TRUE]
  /\ data' = [data EXCEPT ![widx] = Torn]
  /\ wpc' = "write"
  /\ UNCHANGED <<header, count, widx, published, readerVars>>

(* The compare-exchange takes the slot's state from 0 to WRITE_FLAG; the   *)
(* in-place write begins.                                                  *)
ScanClaim ==
  /\ wpc = "scan"
  /\ ~flag[widx] /\ count[widx] = 0
  /\ flag' = [flag EXCEPT ![widx] = TRUE]
  /\ data' = [data EXCEPT ![widx] = Torn]
  /\ wpc' = "write"
  /\ UNCHANGED <<header, count, widx, published, readerVars>>

WriteDone ==
  /\ wpc = "write"
  /\ data' = [data EXCEPT ![widx] = published + 1]
  /\ wpc' = "unflag"
  /\ UNCHANGED <<header, flag, count, widx, published, readerVars>>

(* Slip: WRITE_FLAG stays set, as it would if the write unwound.           *)
ClearFlagForgotten ==
  /\ wpc = "unflag"
  /\ wpc' = "store"
  /\ UNCHANGED <<bufferVars, widx, published, readerVars>>

ClearFlag ==
  /\ wpc = "unflag"
  /\ flag' = [flag EXCEPT ![widx] = FALSE]
  /\ wpc' = "store"
  /\ UNCHANGED <<header, count, data, widx, published, readerVars>>

(* Slip: the update returns without publishing its slot.                   *)
StoreHeaderForgotten ==
  /\ wpc = "store"
  /\ published' = published + 1
  /\ wpc' = "idle"
  /\ UNCHANGED <<bufferVars, widx, readerVars>>

StoreHeader ==
  /\ wpc = "store"
  /\ header' = widx
  /\ published' = published + 1
  /\ wpc' = "idle"
  /\ UNCHANGED <<flag, count, data, widx, readerVars>>

(* Publisher::reader: the strong count is the publisher and every live     *)
(* reader.  It takes &mut self, so no update is under way.                 *)
NewReader(r) ==
  /\ wpc = "idle"
  /\ rpc[r] = "none"
  /\ (Cardinality(Live) + 1) + 1 < BufferLen
  /\ rpc' = [rpc EXCEPT ![r] = "idle"]
  /\ UNCHANGED <<bufferVars, writerVars, ridx, floor, seen>>

-----------------------------------------------------------------------------
(* A reader *)

DropReader(r) ==
  /\ rpc[r] = "idle"
  /\ rpc' = [rpc EXCEPT ![r] = "none"]
  /\ UNCHANGED <<bufferVars, writerVars, ridx, floor, seen>>

LoadHeader(r) ==
  /\ rpc[r] = "idle"
  /\ rpc' = [rpc EXCEPT ![r] = "loaded"]
  /\ ridx' = [ridx EXCEPT ![r] = header]
  /\ floor' = [floor EXCEPT ![r] = published]
  /\ UNCHANGED <<bufferVars, writerVars, seen>>

(* The guard is handed out over the slot as it is at this step.            *)
TakeGuard(r) ==
  /\ rpc' = [rpc EXCEPT ![r] = "reading"]
  /\ seen' = [seen EXCEPT ![r] = data[ridx[r]]]

(* Slip: the guard is handed out without looking at WRITE_FLAG.            *)
PinWithoutSpin(r) ==
  /\ rpc[r] = "loaded"
  /\ count' = [count EXCEPT ![ridx[r]] = @ + 1]
  /\ TakeGuard(r)
  /\ UNCHANGED <<header, flag, data, writerVars, ridx, floor>>

(* fetch_add(1): the old state says whether a write is under way.          *)
Pin(r) ==
  /\ rpc[r] = "loaded"
  /\ count' = [count EXCEPT ![ridx[r]] = @ + 1]
  /\ \/ flag[ridx[r]] /\ rpc' = [rpc EXCEPT ![r] = "spin"] /\ UNCHANGED seen
     \/ ~flag[ridx[r]] /\ TakeGuard(r)
  /\ UNCHANGED <<header, flag, data, writerVars, ridx, floor>>

(* A lap of the spin loop that finds WRITE_FLAG clear.                     *)
SpinDone(r) ==
  /\ rpc[r] = "spin"
  /\ ~flag[ridx[r]]
  /\ TakeGuard(r)
  /\ UNCHANGED <<bufferVars, writerVars, ridx, floor>>

DropGuard(r) ==
  /\ rpc[r] = "reading"
  /\ count' = [count EXCEPT ![ridx[r]] = @ - 1]
  /\ rpc' = [rpc EXCEPT ![r] = "idle"]
  /\ UNCHANGED <<header, flag, data, writerVars, ridx, floor, seen>>

-----------------------------------------------------------------------------
Writer == \/ UpdateStart \/ ScanSkip \/ ScanClaim
          \/ WriteDone \/ ClearFlag \/ StoreHeader

Reader(r) == \/ NewReader(r) \/ DropReader(r) \/ LoadHeader(r)
             \/ Pin(r) \/ SpinDone(r) \/ DropGuard(r)

Next == Writer \/ \E r \in Readers : Reader(r)

Spec == Init /\ [][Next]_vars

(* Both threads run on.  An update that was begun is carried through and   *)
(* the weak compare-exchange does not fail for ever on a free slot.  A     *)
(* reader that began a get runs to its guard; nothing makes it begin       *)
(* another one, or ever let go of a guard.                                 *)
Fairness ==
  /\ WF_vars(ScanSkip \/ ScanClaim)
  /\ SF_vars(ScanClaim)
  /\ WF_vars(WriteDone \/ ClearFlag \/ StoreHeader)
  /\ \A r \in Readers : WF_vars(Pin(r) \/ SpinDone(r))

LiveSpec == Spec /\ Fairness

-----------------------------------------------------------------------------
(* Properties *)

(* Every variable has its type.                                            *)
TypeOK ==
  /\ header \in Slots
  /\ flag \in [Slots -> BOOLEAN]
  /\ count \in [Slots -> Nat]
  /\ data \in [Slots -> Values \cup {Torn}]
  /\ wpc \in WriterSteps
  /\ widx \in Slots
  /\ published \in Values
  /\ rpc \in [Readers -> ReaderSteps]
  /\ ridx \in [Readers -> Slots]
  /\ floor \in [Readers -> Values]
  /\ seen \in [Readers -> Values \cup {Torn}]

(* A live guard pins its slot: what it reads is a whole value and stays    *)
(* the value it was handed, however often the publisher comes round        *)
(* (the SAFETY comments of Slot and ReaderGuard::deref).                   *)
GuardIsStable ==
  \A r \in Readers : rpc[r] = "reading" =>
    /\ data[ridx[r]] = seen[r]
    /\ seen[r] # Torn

(* A get never returns a value older than the newest one whose update had  *)
(* returned when the get began.                                            *)
NeverStale ==
  \A r \in Readers : rpc[r] = "reading" => seen[r] >= floor[r]

(* While the publisher looks for a slot there is one it can take, whatever *)
(* the readers hold: MaxReaders + 2 slots, one of them the last published  *)
(* and each reader pinning at most one (claim_slot has no other exit).     *)
ClaimableSlot ==
  wpc = "scan" =>
    \E s \in Slots : s # header /\ ~flag[s] /\ count[s] = 0

(* A reader spins only when a whole update went by after its load of       *)
(* header and another is being written (the comment in Reader::get).       *)
SpinMeansLapped ==
  \A r \in Readers : rpc[r] = "spin" => published > floor[r]

(* An update that has begun is published, even if every guard is held for  *)
(* ever, and a get that has begun returns its guard, even if it has to     *)
(* wait for a slot the writer came round to.                               *)
CallsReturn ==
  /\ []<>(wpc # "scan")
  /\ \A r \in Readers : []<>(rpc[r] \notin {"loaded", "spin"})

(* Two gets of one handle never go back in time ("once 1 is seen it cannot *)
(* revert", loom_shared_buffer.rs).                                        *)
ReadsNeverGoBack ==
  [][\A r \in Readers :
       rpc'[r] = "reading" /\ rpc[r] # "reading" => seen'[r] >= seen[r]]_vars
=============================================================================
