--------------------------- MODULE MCIsolatedForum --------------------------
(***************************************************************************)
(* Small instances of IsolatedForum for TLC.  Identifiers, slugs and       *)
(* goroutines are only ever compared, so permuting each set is a symmetry. *)
(***************************************************************************)
EXTENDS IsolatedForum, TLC

Symmetry ==
    Permutations(BoardIds) \cup Permutations(ThreadIds) \cup
    Permutations(CommentIds) \cup Permutations(Slugs) \cup Permutations(Requests)

=============================================================================
