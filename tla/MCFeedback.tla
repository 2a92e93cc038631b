----------------------------- MODULE MCFeedback -----------------------------
(***************************************************************************)
(* Small instances of Feedback for TLC.  Identifiers, users, subjects and  *)
(* goroutines are only ever compared, so permuting each is a symmetry.     *)
(***************************************************************************)
EXTENDS Feedback, TLC

Symmetry ==
    Permutations(BoardIds) \cup Permutations(ThreadIds) \cup
    Permutations(CommentIds) \cup Permutations(Slugs) \cup Permutations(Requests) \cup
    Permutations(Users) \cup Permutations(ReportIds) \cup Permutations(Subjects)

=============================================================================
