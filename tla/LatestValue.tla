----------------------------- MODULE LatestValue -----------------------------
(***************************************************************************)
(* What the buffer of core_lib/src/shared_buffer.rs promises its users,    *)
(* without slots, flags or counts: one writer, any number of readers, and  *)
(* a get that returns some whole value between the newest published when   *)
(* it began and the newest begun when it returns.  Two gets of one reader  *)
(* that overlap an update may see its value and then, once, the one        *)
(* before it.                                                              *)
(***************************************************************************)
EXTENDS Naturals

CONSTANTS Readers, MaxUpdates

VARIABLES started,    \* updates begun
          published,  \* updates returned
          phase,      \* phase[r]: "idle", "getting" or "reading"
          floor,      \* floor[r]: published when r's last get began
          seen        \* seen[r]: the value behind r's last guard

vars == <<started, published, phase, floor, seen>>

Init ==
  /\ started = 0
  /\ published = 0
  /\ phase = [r \in Readers |-> "idle"]
  /\ floor = [r \in Readers |-> 0]
  /\ seen = [r \in Readers |-> 0]

Begin ==
  /\ started = published
  /\ started < MaxUpdates
  /\ started' = started + 1
  /\ UNCHANGED <<published, phase, floor, seen>>

Publish ==
  /\ published < started
  /\ published' = started
  /\ UNCHANGED <<started, phase, floor, seen>>

BeginGet(r) ==
  /\ phase[r] = "idle"
  /\ phase' = [phase EXCEPT ![r] = "getting"]
  /\ floor' = [floor EXCEPT ![r] = published]
  /\ UNCHANGED <<started, published, seen>>

EndGet(r) ==
  /\ phase[r] = "getting"
  /\ phase' = [phase EXCEPT ![r] = "reading"]
  /\ \E v \in floor[r] .. started : seen' = [seen EXCEPT ![r] = v]
  /\ UNCHANGED <<started, published, floor>>

Release(r) ==
  /\ phase[r] = "reading"
  /\ phase' = [phase EXCEPT ![r] = "idle"]
  /\ UNCHANGED <<started, published, floor, seen>>

Next == \/ Begin \/ Publish
        \/ \E r \in Readers : BeginGet(r) \/ EndGet(r) \/ Release(r)

Spec == Init /\ [][Next]_vars
=============================================================================
