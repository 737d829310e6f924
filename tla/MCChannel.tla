----------------------------- MODULE MCChannel -----------------------------
(* The two lock-free halves of a book channel, core_lib/src/connector/     *)
(* book_publisher.rs: the buffer the books are read from and the waker     *)
(* that tells of them.  They share no state, so a behaviour of this module *)
(* is one of either, with the other at rest, where its fairness asks       *)
(* nothing of it.                                                          *)
EXTENDS MCSharedBuffer, MCAtomicWaker

VARIABLE half  \* the half that runs

ChannelVars == <<half, vars, wakerVars>>

ChannelInit ==
  /\ half \in {"buffer", "waker"} /\ Init /\ WakerInit
  /\ half = "buffer" => waker = CHOOSE w \in Wakers : TRUE

BufferRuns == half = "buffer" /\ Next /\ UNCHANGED <<half, wakerVars>>
WakerRuns == half = "waker" /\ WakerNext /\ UNCHANGED <<half, vars>>

ChannelSpec ==
  /\ ChannelInit /\ [][BufferRuns \/ WakerRuns]_ChannelVars
  /\ Fairness /\ WakerFairness
=============================================================================
