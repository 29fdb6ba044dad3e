----------------------------- MODULE MCBalloon -----------------------------
(***************************************************************************)
(* A large page is two small ones, a chunk has four entries and a batch    *)
(* three: as in the driver, two full batches do not fit into one chunk.    *)
(***************************************************************************)
EXTENDS Balloon
MCMemory == [s \in Sizes |-> IF s = "small" THEN 8 ELSE 3]
=============================================================================
