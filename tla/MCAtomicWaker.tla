---------------------------- MODULE MCAtomicWaker ----------------------------
(* Small instances of AtomicWaker, and its refinement of Notification.     *)
EXTENDS AtomicWaker

(* The pending flag, the departure and the wait, as a user sees them.      *)
Flag == INSTANCE Notification WITH
  pending <- "NOT_PENDING" \notin bits,
  active <- ~dropping,
  waiting <- ppc \notin {"idle", "done"},
  ended <- gone

(* Every behaviour of the flags is one of the notification, and a wait     *)
(* that is not given up resolves whenever there is something to report.    *)
ImplementsNotification == Flag!Spec
=============================================================================
