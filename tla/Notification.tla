---------------------------- MODULE Notification ----------------------------
(***************************************************************************)
(* What core_lib/src/atomic_waker.rs promises: a flag that remembers one   *)
(* notification, a wait that takes it, and None once the notifier has gone *)
(* and nothing is pending.  A wait may be given up and begun again without *)
(* losing anything, and one that stays resolves.                           *)
(***************************************************************************)
VARIABLES pending,  \* is a notification to be reported?
          active,   \* is the notifier still there?
          waiting,  \* is the waiter in a wait it has not given up?
          ended     \* has a wait reported None?

vars == <<pending, active, waiting, ended>>

Init == pending = FALSE /\ active = TRUE /\ waiting = FALSE /\ ended = FALSE

Notify == active /\ pending' = TRUE /\ UNCHANGED <<active, waiting, ended>>

Depart == active /\ active' = FALSE /\ UNCHANGED <<pending, waiting, ended>>

Begin == ~waiting /\ waiting' = TRUE /\ UNCHANGED <<pending, active, ended>>

GiveUp == waiting /\ waiting' = FALSE /\ UNCHANGED <<pending, active, ended>>

ReportSome ==
  /\ waiting /\ pending
  /\ pending' = FALSE
  /\ waiting' = FALSE
  /\ UNCHANGED <<active, ended>>

ReportNone ==
  /\ waiting /\ ~pending /\ ~active
  /\ waiting' = FALSE
  /\ ended' = TRUE
  /\ UNCHANGED <<pending, active>>

Next == Notify \/ Depart \/ Begin \/ GiveUp \/ ReportSome \/ ReportNone

Spec == Init /\ [][Next]_vars /\ WF_vars(ReportSome \/ ReportNone)
=============================================================================
