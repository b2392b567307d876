---------------------------- MODULE MCFileCommit ----------------------------
(***************************************************************************)
(* Small instances of FileCommit for TLC.                                  *)
(***************************************************************************)
EXTENDS FileCommit, TLC

\* Calls whose failure leaves nothing for the journal to miss.
Recoverable == Calls \ {"backup", "replace", "restore", "undo", "stat"}

\* Runs with the same flags are interchangeable.
Symmetry == Permutations(Forced)
=============================================================================
