--------------------------- MODULE MCThreadPool ---------------------------
(* Small instances of the thread pool for TLC.                              *)
EXTENDS ThreadPool, TLC

\* The pool's workers are interchangeable; only safety is checked with it, and
\* only where all of them or none of them call cancel.
WorkerSymmetry == Permutations(Workers)

=============================================================================
