--------------------------- MODULE MCSyncDriver ---------------------------
(* A small instance of the sync driver for TLC: two filesystems that can be *)
(* frozen, one that cannot be opened and one that cannot be frozen.         *)
EXTENDS SyncDriver, TLC

\* Filesystems of one kind are interchangeable.
FilesystemSymmetry == Permutations(Filesystems \ (Denied \cup Unsupported))

=============================================================================
