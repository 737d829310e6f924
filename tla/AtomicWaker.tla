----------------------------- MODULE AtomicWaker -----------------------------
(***************************************************************************)
(* The single-notifier, single-waiter notification of                      *)
(* core_lib/src/atomic_waker.rs: one byte of flags both halves change with *)
(* read-modify-writes, and a cell holding the waiter's Waker whose         *)
(* ownership the flags pass around.  Each atomic operation, each access to *)
(* the cell and each call of a waker is a step of its own.                 *)
(*                                                                         *)
(* The waiter is a task: it polls `wait`, parks when the poll is Pending   *)
(* and polls again once the waker of that poll was woken - or sooner, when *)
(* another branch of its select wakes it or the future is dropped for a    *)
(* fresh one.  The polls of different futures may carry different wakers.  *)
(*                                                                         *)
(* Read-modify-writes see the latest byte.  The Relaxed load of            *)
(* try_resolve may see any value the byte had since the waiter last looked *)
(* at it (unseen).                                                         *)
(***************************************************************************)
EXTENDS Naturals
LOCAL INSTANCE Sequences

CONSTANTS Wakers,       \* the wakers the waiter's polls carry
          Uninit,       \* the content of an uninitialised cell
          MaxNotify     \* bound: the notifications sent

ASSUME WakersAssumption == Uninit \notin Wakers /\ Wakers # {}
ASSUME MaxNotifyAssumption == MaxNotify \in Nat

VARIABLES bits,     \* the flags that are set in Shared::state
          unseen,   \* the values of bits since the waiter last looked, oldest first
          cell,     \* the waker cell
          freed,    \* has Shared been deallocated?
          npc,      \* where the notifier is
          held,     \* the waker the notifier took out of the cell
          dropping, \* is the notifier in its drop?
          sent,     \* history: notifications sent
          ppc,      \* where the waiter is
          waker,    \* the waker of the current poll
          woken,    \* the wakers called since the current poll began
          owed,     \* history: a notification no wait has reported yet
          gone      \* history: a wait has reported None

wakerVars == <<bits, unseen, cell, freed, npc, held, dropping, sent,
          ppc, waker, woken, owed, gone>>
notifierVars == <<npc, held, dropping, sent>>
waiterVars == <<ppc, waker>>

Flags == {"NOTIFIER_REF", "WAITER_REF", "NOTIFIER_ACTIVE", "NOT_WAITING",
          "REGISTERING", "NOT_WAKING", "NOT_PENDING"}

NotifierSteps == {"idle", "claimed", "restore", "read", "wake", "release", "done"}
WaiterSteps == {"idle", "resolve1", "register", "early", "earlywake", "write", "publish",
                "take", "settle", "latewake", "resolve2", "parked", "done"}

WakerInit ==
  /\ bits = Flags \ {"REGISTERING"}
  /\ unseen = <<bits>>
  /\ cell = Uninit
  /\ freed = FALSE
  /\ npc = "idle"
  /\ held = Uninit
  /\ dropping = FALSE
  /\ sent = 0
  /\ ppc = "idle"
  /\ waker \in Wakers
  /\ woken = {}
  /\ owed = FALSE
  /\ gone = FALSE

(* A change of the byte by the notifier, and by the waiter, who then knows *)
(* the latest value.                                                       *)
NotifierSets(b) == bits' = b /\ unseen' = Append(unseen, b)
WaiterSets(b) == bits' = b /\ unseen' = <<b>>

(* Giving up one half's reference: the last one drops Shared, and with it  *)
(* the waker of a cell NOT_WAITING says is initialised.                    *)
Release(own, other) ==
  IF other \in bits THEN UNCHANGED <<cell, freed>>
  ELSE /\ freed' = TRUE
       /\ cell' = IF "NOT_WAITING" \in bits THEN cell ELSE Uninit

-----------------------------------------------------------------------------
(* The notifier *)

(* Slip: REGISTERING is not looked at.                                     *)
WakeWithBlind(clear, returned) ==
  /\ NotifierSets(bits \ clear)
  /\ npc' = IF "NOT_WAKING" \notin bits THEN returned
            ELSE IF "NOT_WAITING" \in bits THEN "restore" ELSE "read"

(* wake_with: the claiming fetch_and and what its old value decides.  A    *)
(* return with NOT_WAKING left clear hands the wake to the registration.   *)
WakeWith(clear, returned) ==
  /\ NotifierSets(bits \ clear)
  /\ npc' = IF "NOT_WAKING" \notin bits \/ "REGISTERING" \in bits THEN returned
            ELSE IF "NOT_WAITING" \in bits THEN "restore" ELSE "read"

AfterWake == IF dropping THEN "release" ELSE "idle"

Notify ==
  /\ npc = "idle"
  /\ sent < MaxNotify
  /\ WakeWith({"NOT_WAKING", "NOT_PENDING"}, "idle")
  /\ sent' = sent + 1
  /\ owed' = TRUE
  /\ UNCHANGED <<cell, freed, held, dropping, waiterVars, woken, gone>>

(* Notifier::drop, step 1 of its comment: announce the departure.          *)
DropNotifier ==
  /\ npc = "idle"
  /\ dropping' = TRUE
  /\ npc' = "claimed"
  /\ NotifierSets(bits \ {"NOTIFIER_ACTIVE"})
  /\ UNCHANGED <<cell, freed, held, sent, waiterVars, woken, owed, gone>>

(* Slip: nobody is woken for the departure.                                *)
DropWakeSkipped ==
  /\ npc = "claimed"
  /\ npc' = "release"
  /\ UNCHANGED <<bits, unseen, cell, freed, held, dropping, sent, waiterVars, woken,
                 owed, gone>>

(* Step 2: the final wake records no notification.                         *)
DropWake ==
  /\ npc = "claimed"
  /\ WakeWith({"NOT_WAKING"}, "release")
  /\ UNCHANGED <<cell, freed, held, dropping, sent, waiterVars, woken, owed, gone>>

(* Nobody is parked: give NOT_WAKING back.                                 *)
RestoreNotWaking ==
  /\ npc = "restore"
  /\ NotifierSets(bits \cup {"NOT_WAKING"})
  /\ npc' = AfterWake
  /\ UNCHANGED <<cell, freed, held, dropping, sent, waiterVars, woken, owed, gone>>

(* assume_init_read moves the waker out of the cell ...                    *)
NotifierTakes ==
  /\ npc = "read" /\ held = Uninit
  /\ held' = cell
  /\ cell' = Uninit
  /\ UNCHANGED <<bits, unseen, freed, npc, dropping, sent, waiterVars, woken, owed, gone>>

(* ... and the flags say so before the waker is called.                    *)
NotifierSettles ==
  /\ npc = "read" /\ held # Uninit
  /\ NotifierSets(bits \cup {"NOT_WAITING", "NOT_WAKING"})
  /\ npc' = "wake"
  /\ UNCHANGED <<cell, freed, held, dropping, sent, waiterVars, woken, owed, gone>>

NotifierWakes ==
  /\ npc = "wake"
  /\ woken' = woken \cup {held}
  /\ held' = Uninit
  /\ npc' = AfterWake
  /\ UNCHANGED <<bits, unseen, cell, freed, dropping, sent, waiterVars, owed, gone>>

(* Step 3 of the drop: give up the reference.                              *)
ReleaseNotifier ==
  /\ npc = "release"
  /\ NotifierSets(bits \ {"NOTIFIER_REF"})
  /\ Release("NOTIFIER_REF", "WAITER_REF")
  /\ npc' = "done"
  /\ UNCHANGED <<held, dropping, sent, waiterVars, woken, owed, gone>>

-----------------------------------------------------------------------------
(* The waiter *)

(* A poll of a future of Waiter::wait: the first one, one the waker asked  *)
(* for, one nobody asked for, or the first of a fresh future after a       *)
(* parked one was dropped.  Any poll may carry another waker.              *)
Poll(w) ==
  /\ ppc \in {"idle", "parked"}
  /\ ppc' = "resolve1"
  /\ waker' = w
  /\ woken' = {}
  /\ UNCHANGED <<bits, unseen, cell, freed, notifierVars, owed, gone>>

(* try_resolve: the peek answers Pending when it sees nothing to do ...    *)
PeekPending(next) ==
  \E i \in DOMAIN unseen :
    /\ {"NOT_PENDING", "NOTIFIER_ACTIVE"} \subseteq unseen[i]
    /\ unseen' = SubSeq(unseen, i, Len(unseen))
    /\ ppc' = next
    /\ UNCHANGED <<bits, cell, freed, notifierVars, waker, woken, owed, gone>>

(* ... otherwise one fetch_or takes the notification and reads whether the *)
(* notifier is still there.                                                *)
TakePending(next) ==
  /\ \E i \in DOMAIN unseen : ~({"NOT_PENDING", "NOTIFIER_ACTIVE"} \subseteq unseen[i])
  /\ WaiterSets(bits \cup {"NOT_PENDING"})
  /\ \/ /\ "NOT_PENDING" \notin bits            \* Ready(Some(()))
        /\ ppc' = "idle"
        /\ owed' = FALSE
        /\ UNCHANGED gone
     \/ /\ "NOT_PENDING" \in bits
        /\ "NOTIFIER_ACTIVE" \notin bits        \* Ready(None)
        /\ ppc' = "idle"
        /\ gone' = TRUE
        /\ UNCHANGED owed
     \/ /\ {"NOT_PENDING", "NOTIFIER_ACTIVE"} \subseteq bits
        /\ ppc' = next
        /\ UNCHANGED <<owed, gone>>
  /\ UNCHANGED <<cell, freed, notifierVars, waker, woken>>

TryResolve1 == ppc = "resolve1" /\ (PeekPending("register") \/ TakePending("register"))

(* Slip: register is trusted, nothing is looked at after it.               *)
TryResolve2Skipped ==
  /\ ppc = "resolve2"
  /\ ppc' = "parked"
  /\ UNCHANGED <<bits, unseen, cell, freed, notifierVars, waker, woken, owed, gone>>

(* The second attempt, after registering: Pending parks.                   *)
TryResolve2 == ppc = "resolve2" /\ (PeekPending("parked") \/ TakePending("parked"))

(* register: the RMW that enters the critical section, unless a wake is in *)
(* flight or owed.                                                         *)
RegisterEnter ==
  /\ ppc = "register"
  /\ WaiterSets(bits \cup {"REGISTERING"})
  /\ ppc' = IF "NOT_WAKING" \in bits THEN "write" ELSE "early"
  /\ UNCHANGED <<cell, freed, notifierVars, waker, woken, owed, gone>>

RegisterBackOut ==
  /\ ppc = "early"
  /\ WaiterSets(bits \ {"REGISTERING"})
  /\ ppc' = "earlywake"
  /\ UNCHANGED <<cell, freed, notifierVars, waker, woken, owed, gone>>

RegisterWakesSelf ==
  /\ ppc = "earlywake"
  /\ woken' = woken \cup {waker}
  /\ ppc' = "resolve2"
  /\ UNCHANGED <<bits, unseen, cell, freed, notifierVars, waker, owed, gone>>

(* The cell gets the waker of this poll; one that is already there and     *)
(* wakes the same task stays, any other is dropped by clone_from.          *)
RegisterWrite ==
  /\ ppc = "write"
  /\ cell' = waker
  /\ ppc' = "publish"
  /\ UNCHANGED <<bits, unseen, freed, notifierVars, waker, woken, owed, gone>>

RegisterPublish ==
  /\ ppc = "publish"
  /\ WaiterSets(bits \ {"NOT_WAITING", "REGISTERING"})
  /\ ppc' = IF "NOT_WAKING" \in bits THEN "resolve2" ELSE "take"
  /\ UNCHANGED <<cell, freed, notifierVars, waker, woken, owed, gone>>

(* wake_after_register: the wake a notify handed over.                     *)
WaiterTakes ==
  /\ ppc = "take"
  /\ cell' = Uninit
  /\ ppc' = "settle"
  /\ UNCHANGED <<bits, unseen, freed, notifierVars, waker, woken, owed, gone>>

WaiterSettles ==
  /\ ppc = "settle"
  /\ WaiterSets(bits \cup {"NOT_WAITING", "NOT_WAKING"})
  /\ ppc' = "latewake"
  /\ UNCHANGED <<cell, freed, notifierVars, waker, woken, owed, gone>>

WaiterWakes ==
  /\ ppc = "latewake"
  /\ woken' = woken \cup {waker}
  /\ ppc' = "resolve2"
  /\ UNCHANGED <<bits, unseen, cell, freed, notifierVars, waker, owed, gone>>

DropWaiter ==
  /\ ppc \in {"idle", "parked"}
  /\ WaiterSets(bits \ {"WAITER_REF"})
  /\ Release("WAITER_REF", "NOTIFIER_REF")
  /\ ppc' = "done"
  /\ UNCHANGED <<notifierVars, waker, woken, owed, gone>>

-----------------------------------------------------------------------------
NotifierWork == \/ DropWake \/ RestoreNotWaking \/ NotifierTakes
                \/ NotifierSettles \/ NotifierWakes \/ ReleaseNotifier

WaiterWork == \/ TryResolve1 \/ RegisterEnter \/ RegisterBackOut \/ RegisterWakesSelf
              \/ RegisterWrite \/ RegisterPublish
              \/ WaiterTakes \/ WaiterSettles \/ WaiterWakes \/ TryResolve2

WakerNext == \/ Notify \/ DropNotifier \/ NotifierWork
        \/ \E w \in Wakers : Poll(w)
        \/ WaiterWork \/ DropWaiter

WakerSpec == WakerInit /\ [][WakerNext]_wakerVars

(* A call that was begun is carried through, and a task whose waker was    *)
(* called is polled again.  No poll that nobody asked for is relied upon.  *)
WakerFairness ==
  /\ WF_wakerVars(NotifierWork)
  /\ WF_wakerVars(WaiterWork)
  /\ WF_wakerVars(ppc = "parked" /\ waker \in woken /\ Poll(waker))

WakerLiveSpec == WakerSpec /\ WakerFairness

-----------------------------------------------------------------------------
(* Properties *)

NotifierInCell == npc = "read" /\ held = Uninit
WaiterInCell == ppc \in {"write", "take"}

(* The two halves are never in the waker cell at once: the three ways in   *)
(* listed under "Invariants" in the module docs exclude one another.  The  *)
(* cell holds a waker exactly when NOT_WAITING is clear, but for the       *)
(* moments between an access and the flags that tell of it: nobody reads   *)
(* or drops an uninitialised cell, and no waker is overwritten unseen.     *)
(* The allocation goes away once both halves are done with it, not before, *)
(* and takes the last waker with it.                                       *)
CellIsSafe ==
  /\ ~(NotifierInCell /\ WaiterInCell)
  /\ NotifierInCell \/ ppc = "take" => cell # Uninit
  /\ ~(npc = "read" /\ held # Uninit) /\ ppc \notin {"publish", "settle"} /\ ~freed
       => ((cell = Uninit) <=> ("NOT_WAITING" \in bits))
  /\ freed <=> (npc = "done" /\ ppc = "done")
  /\ freed => cell = Uninit

(* A waiter that stays parked has nothing to be told: once the notifier's  *)
(* call returned, a pending notification or a departure has woken the      *)
(* waker of its last poll.  None is reported only by a wait of a notifier  *)
(* that is dropping, and never while a notification it sent before is      *)
(* still to be reported ("drain before close", loom_atomic_waker.rs).      *)
NoLostWakeup ==
  /\ ppc = "parked" /\ waker \notin woken /\ npc \in {"idle", "done"}
       => {"NOT_PENDING", "NOTIFIER_ACTIVE"} \subseteq bits
  /\ gone => dropping /\ ~owed

(* Leaving NOT_WAKING clear across a return means that a registration in   *)
(* progress is to deliver the wake; every other path restores the flag     *)
(* (the third invariant of the module docs).                               *)
NotWakingComesBack ==
  npc \in {"idle", "done"} /\ ppc \in {"idle", "parked"} => "NOT_WAKING" \in bits
=============================================================================
