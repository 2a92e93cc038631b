------------------------------ MODULE MCForum -------------------------------
(***************************************************************************)
(* Small instances of Forum for TLC.  Identifiers, slugs and goroutines    *)
(* are only ever compared, so permuting each set is a symmetry.            *)
(***************************************************************************)
EXTENDS Forum, TLC

Symmetry ==
    Permutations(BoardIds) \cup Permutations(ThreadIds) \cup
    Permutations(CommentIds) \cup Permutations(Slugs) \cup Permutations(Requests)

=============================================================================
