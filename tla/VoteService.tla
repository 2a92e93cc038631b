----------------------------- MODULE VoteService ----------------------------
(***************************************************************************)
(* VoteService over MemoryVoteStore: Vote looks for its target in the      *)
(* thread or the comment store, and stores the vote in a later call, under *)
(* a key made of the target's type, its identifier and the user.  Keys are *)
(* triples here: an identifier newID made holds no colon, so no two        *)
(* triples of stored targets make one key.  The identifier and the time of *)
(* a vote are never read.                                                  *)
(***************************************************************************)
EXTENDS ThreadStore, CommentStore

CONSTANT Users  \* the users who vote

VARIABLE votes  \* items: the value stored under each key

VoteKeys == ({"thread"} \X ThreadIds \X Users) \cup ({"comment"} \X CommentIds \X Users)

VoteValues == {1, -1}

ASSUME VoteAssumption == Absent \notin VoteValues

VoteStoreInit == votes = [k \in VoteKeys |-> Absent]

\* An Upsert that adds a user's votes up.
Upsert_Adds(key, value) ==
    votes' = [votes EXCEPT ![key] = IF @ = Absent THEN value ELSE @ + value]

\* Upsert replaces the vote of the same user on the same target.
Upsert(key, value) == votes' = [votes EXCEPT ![key] = value]

\* The check of the target, by its type; a soft-deleted comment passes it.
TargetStored(key) ==
    IF key[1] = "thread" THEN threads[key[2]] # Absent ELSE comments[key[2]] # Absent

\* A Vote that does not look for its target.
VoteCheck_Skips(r) ==
    /\ req[r] = Idle
    /\ \E key \in VoteKeys, value \in VoteValues :
          Continue(r, [op |-> "vote.checked", key |-> key, value |-> value])
    /\ UNCHANGED <<votes, threadVars, commentVars, issued>>

\* Vote, up to the check that its target exists.
VoteCheck(r) ==
    /\ req[r] = Idle
    /\ \E key \in VoteKeys, value \in VoteValues :
          /\ TargetStored(key)
          /\ Continue(r, [op |-> "vote.checked", key |-> key, value |-> value])
    /\ UNCHANGED <<votes, threadVars, commentVars, issued>>

\* A Vote that counts itself among the replies of its thread.
VoteStore_CountsReply(r) ==
    /\ req[r].op = "vote.checked"
    /\ Upsert(req[r].key, req[r].value)
    /\ IF req[r].key[1] = "thread" /\ threads[req[r].key[2]] # Absent
       THEN threads' = [threads EXCEPT ![req[r].key[2]].replyCount = @ + 1]
       ELSE UNCHANGED threads
    /\ Return(r)
    /\ UNCHANGED <<boardIdx, commentVars, issued>>

\* Vote, the store call; the target is not looked at again.
VoteStore(r) ==
    /\ req[r].op = "vote.checked"
    /\ Upsert(req[r].key, req[r].value)
    /\ Return(r)
    /\ UNCHANGED <<threadVars, commentVars, issued>>

VoteStep(r) == VoteCheck(r) \/ VoteStore(r)

VoteRequest == [op : {"vote.checked"}, key : VoteKeys, value : VoteValues]

=============================================================================
