--------------------------- MODULE MCFileTransfer ---------------------------
(* FileTransfer with model values for objects, paths and inodes.           *)
EXTENDS FileTransfer, TLC

MCSymmetry == Permutations(Files) \cup Permutations(Paths)
                \cup Permutations(Inodes)

=============================================================================
