--------------------------- MODULE MCSharedBuffer ---------------------------
(* Small instances of SharedBuffer, and its refinement of LatestValue.     *)
EXTENDS SharedBuffer

(* The buffer as its users see it: an update has begun once it looks for   *)
(* its slot, and a reader that pins or waits is inside get.                *)
Latest == INSTANCE LatestValue WITH
  started <- IF wpc = "idle" THEN published ELSE published + 1,
  phase <- [r \in Readers |-> IF rpc[r] \in {"none", "idle"} THEN "idle"
                              ELSE IF rpc[r] = "reading" THEN "reading" ELSE "getting"]

(* Every behaviour of the slots is one of the newest-value buffer.         *)
ImplementsLatestValue == Latest!Spec
=============================================================================
