---------------------------- MODULE FeedbackProofs --------------------------
(***************************************************************************)
(* Proofs about Feedback for any number of goroutines, users, reports and  *)
(* records of the forum: what holds of votes and reports however they      *)
(* interleave with each other and with the forum.                          *)
(***************************************************************************)
EXTENDS ForumProofs, Feedback

-----------------------------------------------------------------------------
(* What a step of the forum leaves to votes and reports                    *)

OwnOps == {"vote.checked", "report.resolve"}

\* What a goroutine at work on a comment holds.
CommentFields(q) ==
    /\ q.op = "comment.checked" => q.id \in ThreadIds
    /\ q.op = "comment.update" => q.id \in CommentIds /\ q.comment \in Comment

\* A stored thread has an identifier that was issued.
ThreadsIssued ==
    /\ threads = [t \in ThreadIds |-> threads[t]]
    /\ \A t \in ThreadIds : threads[t] # Absent => t \in issued

\* req is a function, stored threads were issued, and what is, or is about to
\* be, stored as a comment is one.
ForumSide ==
    /\ req = [r \in Requests |-> req[r]]
    /\ ThreadsIssued
    /\ comments \in [CommentIds -> Comment \cup {Absent}]
    /\ \A r \in Requests : CommentFields(req[r])

\* The part of every step of the forum that votes and reports rely on: it
\* starts and ends none of them, reissues nothing and removes no comment.
ForumLeaves ==
    /\ \A r \in Requests : req'[r] # req[r] => {req[r].op, req'[r].op} \cap OwnOps = {}
    /\ issued \subseteq issued'
    /\ \A c \in CommentIds : comments[c] # Absent => comments'[c] # Absent

\* A goroutine goes on with another state of its own, and the others wait.
LEMMA OneGoesOn ==
    ASSUME ForumSide, NEW r \in Requests, NEW q, Continue(r, q)
    PROVE  /\ req' = [x \in Requests |-> req'[x]]
           /\ req'[r] = q
           /\ \A x \in Requests : x # r => req'[x] = req[x]
BY DEF ForumSide, Continue

\* What has to be shown of a step for it to be one of the forum.
LEMMA StepLeaves ==
    ASSUME ForumSide, NEW r \in Requests, NEW q, Continue(r, q),
           req[r].op \notin OwnOps, q.op \notin OwnOps,
           CommentFields(q), ThreadsIssued',
           issued \subseteq issued',
           comments' \in [CommentIds -> Comment \cup {Absent}],
           \A c \in CommentIds : comments[c] # Absent => comments'[c] # Absent
    PROVE  ForumLeaves /\ ForumSide'
<1>1. /\ req' = [x \in Requests |-> req'[x]]
      /\ req'[r] = q
      /\ \A x \in Requests : x # r => req'[x] = req[x]
  BY OneGoesOn
<1>2. ASSUME NEW x \in Requests
      PROVE  /\ req'[x] # req[x] => {req[x].op, req'[x].op} \cap OwnOps = {}
             /\ CommentFields(req[x])'
  <2>1. CASE x = r
    BY <1>1, <2>1 DEF CommentFields
  <2>2. CASE x # r
    BY <1>1, <2>2 DEF ForumSide, CommentFields
  <2> QED
    BY <2>1, <2>2
<1>3. ForumLeaves
  BY <1>2 DEF ForumLeaves
<1>4. ForumSide'
  BY <1>1, <1>2 DEF ForumSide
<1> QED
  BY <1>3, <1>4

\* The same for a step that serves its request in one go.
LEMMA ShortStepLeaves ==
    ASSUME ForumSide, UNCHANGED req, ThreadsIssued', issued \subseteq issued',
           comments' \in [CommentIds -> Comment \cup {Absent}],
           \A c \in CommentIds : comments[c] # Absent => comments'[c] # Absent
    PROVE  ForumLeaves /\ ForumSide'
<1>1. ForumLeaves
  BY DEF ForumLeaves
<1>2. ForumSide'
  BY DEF ForumSide, CommentFields
<1> QED
  BY <1>1, <1>2

\* The writes of the thread store put nothing under an identifier not issued.
LEMMA ThreadWritesIssued ==
    ASSUME ThreadsIssued, issued \subseteq issued', NEW id,
           \/ UNCHANGED threads
           \/ id \in issued' /\ \E thread : threads' = [threads EXCEPT ![id] = thread]
           \/ \E thread : threads' = ReplacePresent(threads, id, thread)
           \/ IncrementViewCount(id)
           \/ threads' = [threads EXCEPT ![id] = Absent]
    PROVE  ThreadsIssued'
BY DEF ThreadsIssued, ReplacePresent, IncrementViewCount

\* No board request works on a comment, a vote or a report.
LEMMA BoardStepLeaves ==
    ASSUME ForumSide, NEW r \in Requests, BoardStep(r), UNCHANGED <<threadVars, commentVars>>
    PROVE  ForumLeaves /\ ForumSide'
<1> USE DEF OwnOps, Idle, CommentFields
<1>0. comments' \in [CommentIds -> Comment \cup {Absent}] /\ comments' = comments
  BY DEF ForumSide, commentVars
<1>t. issued \subseteq issued' => ThreadsIssued'
  BY ThreadWritesIssued DEF ForumSide, threadVars
<1>1. CASE BoardCreate(r)
  BY <1>0, <1>t, <1>1, ShortStepLeaves DEF BoardCreate, NewID
<1>2. CASE BoardUpdateRead(r)
  <2>1. PICK id \in BoardIds :
          \E slug \in SlugChoices(id), locked \in BOOLEAN :
             Continue(r, [op |-> "board.update", id |-> id,
                          board |-> [slug |-> slug, isLocked |-> locked]])
    BY <1>2 DEF BoardUpdateRead
  <2>2. PICK slug \in SlugChoices(id), locked \in BOOLEAN :
          Continue(r, [op |-> "board.update", id |-> id,
                       board |-> [slug |-> slug, isLocked |-> locked]])
    BY <2>1
  <2> QED
    BY <1>0, <1>t, <1>2, <2>2, StepLeaves DEF BoardUpdateRead
<1>3. CASE BoardUpdateWrite(r)
  BY <1>0, <1>t, <1>3, StepLeaves DEF BoardUpdateWrite, Return
<1>4. CASE BoardDelete(r)
  BY <1>0, <1>t, <1>4, ShortStepLeaves DEF BoardDelete, handlerVars
<1> QED
  BY <1>1, <1>2, <1>3, <1>4 DEF BoardStep

\* Nor does a thread request.
LEMMA ThreadStepLeaves ==
    ASSUME ForumSide, NEW r \in Requests, ThreadStep(r), UNCHANGED commentVars
    PROVE  ForumLeaves /\ ForumSide'
<1> USE DEF OwnOps, Idle, CommentFields
<1>0. comments' \in [CommentIds -> Comment \cup {Absent}] /\ comments' = comments
  BY DEF ForumSide, commentVars
<1>t. ASSUME UNCHANGED threadVars, UNCHANGED issued PROVE ThreadsIssued'
  BY <1>t, ThreadWritesIssued DEF ForumSide, threadVars
<1>1. CASE ThreadCreateCheck(r)
  <2>1. PICK b \in BoardIds : Continue(r, [op |-> "thread.create", board |-> b])
    BY <1>1 DEF ThreadCreateCheck
  <2> QED
    BY <1>0, <1>t, <1>1, <2>1, StepLeaves DEF ThreadCreateCheck
<1>2. CASE ThreadCreateStore(r)
  <2>1. ThreadsIssued'
    BY <1>2, ThreadWritesIssued
       DEF ThreadCreateStore, ThreadStoreCreate, NewID, ForumSide
  <2> QED
    BY <1>0, <1>2, <2>1, StepLeaves DEF ThreadCreateStore, NewID, Return
<1>3. CASE ThreadGetRead(r)
  <2>1. PICK t \in ThreadIds : Continue(r, [op |-> "thread.get", id |-> t])
    BY <1>3 DEF ThreadGetRead
  <2> QED
    BY <1>0, <1>t, <1>3, <2>1, StepLeaves DEF ThreadGetRead
<1>4. CASE ThreadGetCount(r)
  <2>1. ThreadsIssued'
    BY <1>4, ThreadWritesIssued DEF ThreadGetCount, ForumSide
  <2> QED
    BY <1>0, <1>4, <2>1, StepLeaves DEF ThreadGetCount, Return
<1>5. CASE ThreadUpdateRead(r)
  <2>1. PICK t \in ThreadIds, lock \in {Unset, "locked", "open"} :
          Continue(r, [op |-> "thread.update", id |-> t, lock |-> lock,
                       thread |-> ApplyLock(threads[t], lock)])
    BY <1>5 DEF ThreadUpdateRead
  <2> QED
    BY <1>0, <1>t, <1>5, <2>1, StepLeaves DEF ThreadUpdateRead
<1>6. CASE ThreadUpdateWrite(r)
  <2>1. ThreadsIssued'
    BY <1>6, ThreadWritesIssued DEF ThreadUpdateWrite, ThreadStoreUpdate, ForumSide
  <2> QED
    BY <1>0, <1>6, <2>1, StepLeaves DEF ThreadUpdateWrite, Return
<1>7. CASE ThreadDelete(r)
  <2>1. ThreadsIssued'
    BY <1>7, ThreadWritesIssued DEF ThreadDelete, ThreadStoreDelete, handlerVars, ForumSide
  <2> QED
    BY <1>0, <1>7, <2>1, ShortStepLeaves DEF ThreadDelete, handlerVars
<1> QED
  BY <1>1, <1>2, <1>3, <1>4, <1>5, <1>6, <1>7 DEF ThreadStep

\* A comment request creates, replaces and marks comments, and removes none.
LEMMA CommentStepLeaves ==
    ASSUME ForumSide, NEW r \in Requests, CommentStep(r)
    PROVE  ForumLeaves /\ ForumSide'
<1> USE DEF OwnOps, Idle, CommentFields
<1>0. comments \in [CommentIds -> Comment \cup {Absent}]
  BY DEF ForumSide
<1>t. ASSUME UNCHANGED threadVars, issued \subseteq issued' PROVE ThreadsIssued'
  BY <1>t, ThreadWritesIssued DEF ForumSide, threadVars
<1>1. CASE CommentCreateCheck(r)
  <2>1. PICK t \in ThreadIds :
          Continue(r, [op |-> "comment.checked", id |-> t, thread |-> threads[t]])
    BY <1>1 DEF CommentCreateCheck
  <2> QED
    BY <1>0, <1>t, <1>1, <2>1, StepLeaves DEF CommentCreateCheck, commentVars
<1>2. CASE CommentCreateStore(r)
  <2>1. PICK id \in CommentIds :
          /\ NewID(id)
          /\ CommentStoreCreate(id, [threadId |-> req[r].id, isDeleted |-> FALSE])
    BY <1>2 DEF CommentCreateStore
  <2>2. req[r].id \in ThreadIds
    BY <1>2 DEF CommentCreateStore, ForumSide
  <2>3. PICK comment \in Comment : comment = [threadId |-> req[r].id, isDeleted |-> FALSE]
    BY <2>2 DEF Comment
  <2>4. /\ comments' \in [CommentIds -> Comment \cup {Absent}]
        /\ \A c \in CommentIds : comments[c] # Absent => comments'[c] # Absent
    BY <1>0, <2>1, <2>3, CommentAssumption DEF CommentStoreCreate
  <2>5. Continue(r, [op |-> "comment.stored", id |-> req[r].id, thread |-> req[r].thread])
    BY <1>2 DEF CommentCreateStore
  <2> QED
    BY <1>t, <1>2, <2>1, <2>4, <2>5, StepLeaves DEF CommentCreateStore, NewID
<1>3. CASE CommentCreateCount(r)
  <2>1. ThreadsIssued'
    BY <1>3, ThreadWritesIssued DEF CommentCreateCount, ThreadStoreUpdate, ForumSide
  <2> QED
    BY <1>0, <1>3, <2>1, StepLeaves DEF CommentCreateCount, commentVars, Return
<1>4. CASE CommentUpdateRead(r)
  <2>1. PICK c \in CommentIds :
          /\ comments[c] # Absent
          /\ Continue(r, [op |-> "comment.update", id |-> c, comment |-> comments[c]])
    BY <1>4 DEF CommentUpdateRead
  <2> QED
    BY <1>0, <1>t, <1>4, <2>1, StepLeaves DEF CommentUpdateRead, commentVars
<1>5. CASE CommentUpdateWrite(r)
  <2>1. req[r].id \in CommentIds /\ req[r].comment \in Comment
    BY <1>5 DEF CommentUpdateWrite, ForumSide
  <2>2. /\ comments' \in [CommentIds -> Comment \cup {Absent}]
        /\ \A c \in CommentIds : comments[c] # Absent => comments'[c] # Absent
    BY <1>0, <1>5, <2>1, CommentAssumption
       DEF CommentUpdateWrite, CommentStoreUpdate, ReplacePresent
  <2> QED
    BY <1>t, <1>5, <2>2, StepLeaves DEF CommentUpdateWrite, Return
<1>6. CASE CommentDelete(r)
  <2>1. PICK c \in CommentIds : SoftDelete(c)
    BY <1>6 DEF CommentDelete
  <2> QED
    BY <1>0, <1>t, <1>6, <2>1, SoftDeleteComment, ShortStepLeaves DEF CommentDelete, handlerVars
<1> QED
  BY <1>1, <1>2, <1>3, <1>4, <1>5, <1>6 DEF CommentStep

-----------------------------------------------------------------------------
(* The invariant                                                           *)

\* A stored report was issued, and has a time of closing if it is closed; the
\* clone of a Resolve in flight is closed and about what the report is about.
ReportsInv ==
    /\ \A p \in ReportIds :
          reports[p] # Absent =>
             p \in issued /\ (reports[p].status # "open" => reports[p].resolvedAt)
    /\ \A r \in Requests :
          req[r].op = "report.resolve" =>
             /\ reports[req[r].id] # Absent
             /\ req[r].report.subject = reports[req[r].id].subject
             /\ req[r].report.status # "open" /\ req[r].report.resolvedAt

\* What ReportsStayClosed says of one step.
ReportsKeep ==
    \A p \in ReportIds :
        reports[p] # Absent =>
            /\ reports'[p] # Absent
            /\ reports'[p].subject = reports[p].subject
            /\ reports[p].status # "open" =>
                  reports'[p].status # "open" /\ reports'[p].resolvedAt

FeedbackInv == ForumSide /\ FeedbackTypeOK /\ VoteTargetsWereStored /\ ReportsInv

\* The target of a vote key, as VoteTargetsWereStored has it.
OnTarget(key) ==
    IF key[1] = "thread" THEN key[2] \in issued ELSE comments[key[2]] # Absent

\* A key has a type and an identifier of that type.
LEMMA VoteKeyParts ==
    ASSUME NEW key \in VoteKeys
    PROVE  \/ key[1] = "thread" /\ key[2] \in ThreadIds
           \/ key[1] = "comment" /\ key[2] \in CommentIds
BY DEF VoteKeys

\* What was on a target stays on it while identifiers and comments only grow.
LEMMA TargetsStay ==
    ASSUME ForumLeaves, NEW key \in VoteKeys, OnTarget(key)
    PROVE  OnTarget(key)'
BY VoteKeyParts DEF ForumLeaves, OnTarget

\* A step of the forum leaves votes, reports and who works on them alone.
LEMMA ForumStepInv ==
    ASSUME FeedbackInv, ForumSide', ForumLeaves, UNCHANGED <<votes, reports>>
    PROVE  FeedbackInv'
<1>1. FeedbackTypeOK'
  BY DEF FeedbackInv, FeedbackTypeOK, ForumLeaves, OwnOps
<1>2. VoteTargetsWereStored'
  <2>1. ASSUME NEW k \in VoteKeys, votes'[k] # Absent PROVE OnTarget(k)'
    BY <2>1, TargetsStay DEF FeedbackInv, VoteTargetsWereStored, OnTarget
  <2>2. ASSUME NEW r \in Requests, req'[r].op = "vote.checked" PROVE OnTarget(req[r].key)'
    <3>1. req[r] \in VoteRequest /\ OnTarget(req[r].key) /\ req'[r] = req[r]
      BY <2>2 DEF FeedbackInv, FeedbackTypeOK, VoteTargetsWereStored, OnTarget,
         ForumLeaves, OwnOps
    <3>2. PICK key \in VoteKeys : key = req[r].key
      BY <3>1 DEF VoteRequest
    <3>3. OnTarget(key)'
      BY <3>1, <3>2, TargetsStay
    <3> QED
      BY <3>1, <3>2, <3>3 DEF OnTarget
  <2> QED
    BY <2>1, <2>2 DEF VoteTargetsWereStored, OnTarget
<1>3. ReportsInv'
  BY DEF FeedbackInv, ReportsInv, ForumLeaves, OwnOps
<1> QED
  BY <1>1, <1>2, <1>3 DEF FeedbackInv

\* A vote is stored for a target that was there at the check.
LEMMA VoteStepInv ==
    ASSUME FeedbackInv, NEW r \in Requests, VoteStep(r), UNCHANGED reports
    PROVE  FeedbackInv'
<1> USE DEF FeedbackInv
<1>0. /\ issued' = issued /\ comments' = comments
      /\ \A k : OnTarget(k)' = OnTarget(k)
      /\ ThreadsIssued'
  <2>1. issued' = issued /\ comments' = comments /\ threads' = threads
    BY DEF VoteStep, VoteCheck, VoteStore, commentVars, threadVars
  <2> QED
    BY <2>1 DEF OnTarget, ForumSide, ThreadsIssued
<1>1. CASE VoteCheck(r)
  <2>1. PICK key \in VoteKeys, value \in VoteValues :
          /\ TargetStored(key)
          /\ Continue(r, [op |-> "vote.checked", key |-> key, value |-> value])
    BY <1>1 DEF VoteCheck
  <2>2. /\ req' = [x \in Requests |-> req'[x]]
        /\ req'[r] = [op |-> "vote.checked", key |-> key, value |-> value]
        /\ \A x \in Requests : x # r => req'[x] = req[x]
    BY <2>1, OneGoesOn
  <2>3. ForumSide'
    BY <1>0, <2>2 DEF ForumSide, CommentFields
  <2>4. votes' = votes
    BY <1>1 DEF VoteCheck
  <2>5. FeedbackTypeOK'
    BY <2>2, <2>4 DEF FeedbackTypeOK, VoteRequest
  <2>6. ReportsInv'
    BY <1>0, <2>2 DEF ReportsInv
  <2>7. OnTarget(key)
    BY <2>1, VoteKeyParts DEF TargetStored, OnTarget, ForumSide, ThreadsIssued
  <2>8. VoteTargetsWereStored'
    <3>1. ASSUME NEW k \in VoteKeys, votes'[k] # Absent PROVE OnTarget(k)
      BY <2>4, <3>1 DEF VoteTargetsWereStored, OnTarget
    <3>2. ASSUME NEW x \in Requests, req'[x].op = "vote.checked"
          PROVE  OnTarget(req'[x].key)
      <4>1. CASE x = r
        BY <2>2, <2>7, <4>1
      <4>2. CASE x # r
        BY <2>2, <3>2, <4>2 DEF VoteTargetsWereStored, OnTarget
      <4> QED
        BY <4>1, <4>2
    <3> QED
      BY <1>0, <3>1, <3>2 DEF VoteTargetsWereStored, OnTarget
  <2> QED
    BY <2>3, <2>5, <2>6, <2>8
<1>2. CASE VoteStore(r)
  <2>1. /\ req' = [x \in Requests |-> req'[x]]
        /\ req'[r] = Idle
        /\ \A x \in Requests : x # r => req'[x] = req[x]
    BY <1>2, OneGoesOn DEF VoteStore, Return
  <2>2. /\ req[r] \in VoteRequest /\ OnTarget(req[r].key)
        /\ votes' = [votes EXCEPT ![req[r].key] = req[r].value]
    BY <1>2 DEF VoteStore, Upsert, FeedbackTypeOK, VoteTargetsWereStored, OnTarget
  <2>3. PICK key \in VoteKeys, value \in VoteValues : key = req[r].key /\ value = req[r].value
    BY <2>2 DEF VoteRequest
  <2>4. ForumSide'
    BY <1>0, <2>1 DEF ForumSide, CommentFields, Idle
  <2>5. FeedbackTypeOK'
    BY <2>1, <2>2, <2>3 DEF FeedbackTypeOK, Idle
  <2>6. VoteTargetsWereStored'
    <3>1. ASSUME NEW k \in VoteKeys, votes'[k] # Absent PROVE OnTarget(k)
      BY <2>2, <2>3, <3>1 DEF FeedbackTypeOK, VoteTargetsWereStored, OnTarget
    <3>2. ASSUME NEW x \in Requests, req'[x].op = "vote.checked"
          PROVE  OnTarget(req'[x].key)
      BY <2>1, <3>2 DEF VoteTargetsWereStored, OnTarget, Idle
    <3> QED
      BY <1>0, <3>1, <3>2 DEF VoteTargetsWereStored, OnTarget
  <2>7. ReportsInv'
    BY <1>0, <2>1 DEF ReportsInv, Idle
  <2> QED
    BY <2>4, <2>5, <2>6, <2>7
<1> QED
  BY <1>1, <1>2 DEF VoteStep

\* A report is created open, and a Resolve writes back what it was made about.
LEMMA ReportStepInv ==
    ASSUME FeedbackInv, NEW r \in Requests, ReportStep(r),
           UNCHANGED <<threadVars, commentVars, votes>>
    PROVE  FeedbackInv' /\ ReportsKeep
<1> USE DEF FeedbackInv, ReportsKeep
<1>0. /\ issued \subseteq issued'
      /\ UNCHANGED <<threads, comments, votes>>
      /\ ThreadsIssued'
      /\ \A k : OnTarget(k) => OnTarget(k)'
  <2>1. issued \subseteq issued' /\ UNCHANGED <<threads, comments, votes>>
    BY DEF ReportStep, ReportCreate, ResolveRead, ResolveWrite, NewID, threadVars, commentVars
  <2> QED
    BY <2>1 DEF OnTarget, ForumSide, ThreadsIssued
<1>1. \A k \in VoteKeys : votes'[k] # Absent => OnTarget(k)'
  BY <1>0 DEF VoteTargetsWereStored, OnTarget
<1>2. CASE ReportCreate(r)
  <2>1. PICK p \in ReportIds, subject \in Subjects :
          /\ NewID(p)
          /\ reports' = [reports EXCEPT ![p] =
                [subject |-> subject, status |-> "open", resolvedAt |-> FALSE]]
    BY <1>2 DEF ReportCreate, ReportStoreCreate
  <2>2. PICK report \in Report :
          /\ report = [subject |-> subject, status |-> "open", resolvedAt |-> FALSE]
          /\ report.status = "open" /\ reports' = [reports EXCEPT ![p] = report]
    BY <2>1 DEF Report
  <2>3. /\ req' = req
        /\ reports[p] = Absent /\ p \in issued'
    BY <1>2, <2>1 DEF ReportCreate, NewID, ReportsInv
  <2>4. ForumSide'
    BY <1>0, <2>3 DEF ForumSide, CommentFields
  <2>5. FeedbackTypeOK'
    BY <1>0, <2>2, <2>3 DEF FeedbackTypeOK
  <2>6. VoteTargetsWereStored'
    BY <1>0, <1>1, <2>3 DEF VoteTargetsWereStored, OnTarget
  <2>7. \A q \in ReportIds : reports'[q] = IF q = p THEN report ELSE reports[q]
    BY <2>2 DEF FeedbackTypeOK
  <2>8. ReportsInv'
    <3>1. \A x \in Requests : req[x].op = "report.resolve" => req[x].id \in ReportIds
      BY DEF FeedbackTypeOK, ReportRequest
    <3> QED
      BY <1>0, <2>2, <2>3, <2>7, <3>1 DEF ReportsInv
  <2>9. ReportsKeep
    BY <2>3, <2>7 DEF ReportsInv
  <2> QED
    BY <2>4, <2>5, <2>6, <2>8, <2>9
<1>3. CASE ResolveRead(r)
  <2>1. PICK p \in ReportIds, status \in {"resolved", "dismissed"} :
          /\ reports[p] # Absent
          /\ Continue(r, [op |-> "report.resolve", id |-> p,
                          report |-> [reports[p] EXCEPT !.status = status,
                                                        !.resolvedAt = TRUE]])
    BY <1>3 DEF ResolveRead
  <2>2. PICK old \in Report : old = reports[p]
    BY <2>1 DEF FeedbackTypeOK
  <2>3. PICK report \in Report :
          /\ report = [old EXCEPT !.status = status, !.resolvedAt = TRUE]
          /\ report.subject = old.subject
          /\ report.status # "open" /\ report.resolvedAt
    <3> DEFINE closed == [old EXCEPT !.status = status, !.resolvedAt = TRUE]
    <3>1. /\ closed.subject = old.subject
          /\ closed.status # "open" /\ closed.resolvedAt
      BY DEF Report
    <3>2. closed \in Report
      BY DEF Report
    <3> QED
      BY <3>1, <3>2
  <2>4. PICK q : q = [op |-> "report.resolve", id |-> p, report |-> report]
    OBVIOUS
  <2>5. q \in ReportRequest /\ q.op = "report.resolve" /\ q.id = p /\ q.report = report
    BY <2>4 DEF ReportRequest
  <2>6. /\ req' = [x \in Requests |-> req'[x]]
        /\ req'[r] = q
        /\ \A x \in Requests : x # r => req'[x] = req[x]
    BY <2>1, <2>2, <2>3, <2>4, OneGoesOn
  <2>7. reports' = reports /\ issued' = issued
    BY <1>3 DEF ResolveRead
  <2>8. ForumSide'
    BY <1>0, <2>5, <2>6 DEF ForumSide, CommentFields
  <2>9. FeedbackTypeOK'
    BY <1>0, <2>5, <2>6, <2>7 DEF FeedbackTypeOK
  <2>10. VoteTargetsWereStored'
    BY <1>0, <1>1, <2>5, <2>6 DEF VoteTargetsWereStored, OnTarget
  <2>11. ReportsInv'
    <3>1. ASSUME NEW x \in Requests, req'[x].op = "report.resolve"
          PROVE  /\ reports[req'[x].id] # Absent
                 /\ req'[x].report.subject = reports[req'[x].id].subject
                 /\ req'[x].report.status # "open" /\ req'[x].report.resolvedAt
      <4>1. CASE x = r
        BY <2>1, <2>2, <2>3, <2>5, <2>6, <4>1
      <4>2. CASE x # r
        BY <2>6, <3>1, <4>2 DEF ReportsInv
      <4> QED
        BY <4>1, <4>2
    <3> QED
      BY <2>7, <3>1 DEF ReportsInv
  <2>12. ReportsKeep
    BY <2>7 DEF ReportsInv
  <2> QED
    BY <2>8, <2>9, <2>10, <2>11, <2>12
<1>4. CASE ResolveWrite(r)
  <2>1. /\ req' = [x \in Requests |-> req'[x]]
        /\ req'[r] = Idle
        /\ \A x \in Requests : x # r => req'[x] = req[x]
    BY <1>4, OneGoesOn DEF ResolveWrite, Return
  <2>2. PICK p \in ReportIds, report \in Report : p = req[r].id /\ report = req[r].report
    BY <1>4 DEF ResolveWrite, FeedbackTypeOK, ReportRequest
  <2>3. /\ reports[p] # Absent /\ report.subject = reports[p].subject
        /\ report.status # "open" /\ report.resolvedAt
    BY <1>4, <2>2 DEF ResolveWrite, ReportsInv
  <2>4. reports' = [reports EXCEPT ![p] = report] /\ issued' = issued
    BY <1>4, <2>2, <2>3 DEF ResolveWrite, ReportStoreUpdate, ReplacePresent
  <2>5. \A q \in ReportIds : reports'[q] = IF q = p THEN report ELSE reports[q]
    BY <2>4 DEF FeedbackTypeOK
  <2>6. ForumSide'
    BY <1>0, <2>1 DEF ForumSide, CommentFields, Idle
  <2>7. FeedbackTypeOK'
    BY <1>0, <2>1, <2>4 DEF FeedbackTypeOK, Idle
  <2>8. VoteTargetsWereStored'
    BY <1>0, <1>1, <2>1 DEF VoteTargetsWereStored, OnTarget, Idle
  <2>9. report # Absent
    BY ReportAssumption
  <2>10. ReportsInv'
    <3>1. \A x \in Requests : req[x].op = "report.resolve" => req[x].id \in ReportIds
      BY DEF FeedbackTypeOK, ReportRequest
    <3> QED
      BY <2>1, <2>3, <2>4, <2>5, <2>9, <3>1 DEF ReportsInv, Idle
  <2>11. ReportsKeep
    BY <2>3, <2>5, <2>9 DEF ReportsInv
  <2> QED
    BY <2>6, <2>7, <2>8, <2>10, <2>11
<1> QED
  BY <1>2, <1>3, <1>4 DEF ReportStep

\* Every step of the forum is one that leaves votes and reports alone.
LEMMA ForumNextLeaves ==
    ASSUME ForumSide, ForumNext
    PROVE  ForumLeaves /\ ForumSide'
BY BoardStepLeaves, ThreadStepLeaves, CommentStepLeaves DEF ForumNext

\* Before the first request nothing is stored and nobody holds anything.
LEMMA FeedbackInvInit == FeedbackInit => FeedbackInv
<1> SUFFICES ASSUME FeedbackInit PROVE FeedbackInv
  OBVIOUS
<1> USE DEF FeedbackInit, ForumInit, HandlersInit, ThreadStoreInit, CommentStoreInit,
        VoteStoreInit, ReportStoreInit, Idle
<1>1. ForumSide
  BY DEF ForumSide, ThreadsIssued, CommentFields
<1>2. FeedbackTypeOK
  BY DEF FeedbackTypeOK
<1>3. VoteTargetsWereStored
  BY DEF VoteTargetsWereStored
<1>4. ReportsInv
  BY DEF ReportsInv
<1> QED
  BY <1>1, <1>2, <1>3, <1>4 DEF FeedbackInv

\* Every step keeps the invariant, and every report what it must keep.
LEMMA FeedbackNextInv ==
    ASSUME FeedbackInv, [FeedbackNext]_feedbackVars
    PROVE  FeedbackInv' /\ ReportsKeep
<1>0. UNCHANGED reports => ReportsKeep
  BY DEF ReportsKeep, FeedbackInv, ReportsInv
<1>1. CASE ForumNext /\ UNCHANGED <<votes, reports>>
  BY <1>0, <1>1, ForumNextLeaves, ForumStepInv DEF FeedbackInv
<1>2. ASSUME NEW r \in Requests, VoteStep(r), UNCHANGED <<boardVars, reports>>
      PROVE  FeedbackInv' /\ ReportsKeep
  BY <1>0, <1>2, VoteStepInv
<1>3. ASSUME NEW r \in Requests, ReportStep(r),
             UNCHANGED <<boardVars, threadVars, commentVars, votes>>
      PROVE  FeedbackInv' /\ ReportsKeep
  BY <1>3, ReportStepInv
<1>4. CASE UNCHANGED feedbackVars
  <2>1. UNCHANGED <<req, issued, threads, comments, votes, reports>>
    BY <1>4 DEF feedbackVars, forumVars, threadVars, commentVars, handlerVars
  <2>2. ForumSide'
    BY <2>1 DEF FeedbackInv, ForumSide, ThreadsIssued, CommentFields
  <2>3. ForumLeaves
    BY <2>1 DEF ForumLeaves
  <2> QED
    BY <1>0, <2>1, <2>2, <2>3, ForumStepInv
<1> QED
  BY <1>1, <1>2, <1>3, <1>4 DEF FeedbackNext

-----------------------------------------------------------------------------
(* The theorems                                                            *)

\* The invariant holds of every behaviour.
THEOREM FeedbackInvariant == FeedbackSpec => []FeedbackInv
<1>1. FeedbackInv /\ [FeedbackNext]_feedbackVars => FeedbackInv'
  BY FeedbackNextInv
<1> QED
  BY FeedbackInvInit, <1>1, PTL DEF FeedbackSpec

\* Votes, reports and the goroutines that work on them keep their types.
THEOREM FeedbackTypeCorrect == FeedbackSpec => []FeedbackTypeOK
<1>1. FeedbackInv => FeedbackTypeOK
  BY DEF FeedbackInv
<1> QED
  BY FeedbackInvariant, <1>1, PTL

\* However deletions interleave with it, no vote is stored for a target that
\* never was.
THEOREM VoteTargetsSound == FeedbackSpec => []VoteTargetsWereStored
<1>1. FeedbackInv => VoteTargetsWereStored
  BY DEF FeedbackInv
<1> QED
  BY FeedbackInvariant, <1>1, PTL

\* Concurrent Resolves never reopen a report nor change what it is about.
THEOREM ReportsSound == FeedbackSpec => ReportsStayClosed
<1>1. FeedbackInv /\ [FeedbackNext]_feedbackVars => ReportsKeep
  BY FeedbackNextInv
<1>2. ReportsKeep =>
        \A p \in ReportIds :
          reports[p] # Absent =>
              /\ reports'[p] # Absent
              /\ reports'[p].subject = reports[p].subject
              /\ reports[p].status # "open" =>
                    reports'[p].status # "open" /\ reports'[p].resolvedAt
  BY DEF ReportsKeep
<1> QED
  BY FeedbackInvariant, <1>1, <1>2, PTL DEF FeedbackSpec, ReportsStayClosed

-----------------------------------------------------------------------------
(* The forum seen without votes and reports                                *)

\* A goroutine that neither votes nor resolves is seen as it is.
LEMMA ViewRequest ==
    ASSUME NEW r \in Requests, req[r].op \notin OwnOps
    PROVE  [x \in Requests |->
              IF req[x].op \in {"vote.checked", "report.resolve"} THEN Idle ELSE req[x]][r] = req[r]
BY DEF OwnOps

\* It is seen to go on as it does.
LEMMA ViewContinue ==
    ASSUME ForumSide, NEW r \in Requests, NEW q, Continue(r, q),
           req[r].op \notin OwnOps, q.op \notin OwnOps
    PROVE  ForumView!Continue(r, q)
<1>1. /\ req' = [x \in Requests |-> req'[x]]
      /\ req'[r] = q
      /\ \A x \in Requests : x # r => req'[x] = req[x]
  BY OneGoesOn
<1> QED
  BY <1>1 DEF ForumView!Continue, ForumView!Idle, Idle, OwnOps

\* It is seen to end.
LEMMA ViewReturn ==
    ASSUME ForumSide, NEW r \in Requests, Return(r), req[r].op \notin OwnOps
    PROVE  ForumView!Return(r)
<1>1. ForumView!Continue(r, Idle)
  BY ViewContinue DEF Return, Idle, OwnOps
<1> QED
  BY <1>1 DEF ForumView!Return, ForumView!Idle, Idle

\* An identifier of the forum is as fresh as it is for the forum alone.
LEMMA ViewNewID ==
    ASSUME NEW id \in BoardIds \cup ThreadIds \cup CommentIds, NewID(id)
    PROVE  ForumView!NewID(id)
BY ReportIdsAssumption DEF NewID, ForumView!NewID


\* Every board request is seen as one.
LEMMA ViewBoardStep ==
    ASSUME ForumSide, NEW r \in Requests, BoardStep(r)
    PROVE  ForumView!BoardStep(r)
<1> USE ViewRequest DEF OwnOps, Idle, ForumView!Idle
<1>1. CASE BoardCreate(r)
  <2>1. PICK id \in BoardIds, slug \in Slugs \cup {NoSlug} :
          NewID(id) /\ BoardStoreCreate(id, [slug |-> slug, isLocked |-> FALSE])
    BY <1>1 DEF BoardCreate
  <2>2. ForumView!NewID(id)
    BY <2>1, ViewNewID
  <2>3. ForumView!BoardStoreCreate(id, [slug |-> slug, isLocked |-> FALSE])
    BY <2>1 DEF BoardStoreCreate, ForumView!BoardStoreCreate
  <2>4. ForumView!BoardCreate(r)
    BY <1>1, <2>2, <2>3 DEF BoardCreate, ForumView!BoardCreate
  <2> QED
    BY <2>4 DEF ForumView!BoardStep
<1>2. CASE BoardUpdateRead(r)
  <2>1. PICK id \in BoardIds :
          /\ boards[id] # Absent
          /\ \E slug \in SlugChoices(id), locked \in BOOLEAN :
                Continue(r, [op |-> "board.update", id |-> id,
                             board |-> [slug |-> slug, isLocked |-> locked]])
    BY <1>2 DEF BoardUpdateRead
  <2>2. PICK slug \in SlugChoices(id), locked \in BOOLEAN :
          Continue(r, [op |-> "board.update", id |-> id,
                       board |-> [slug |-> slug, isLocked |-> locked]])
    BY <2>1
  <2>3. ForumView!Continue(r, [op |-> "board.update", id |-> id,
                               board |-> [slug |-> slug, isLocked |-> locked]])
    BY <1>2, <2>2, ViewContinue DEF BoardUpdateRead
  <2>4. slug \in ForumView!SlugChoices(id)
    BY <2>2 DEF SlugChoices, ForumView!SlugChoices
  <2>5. ForumView!BoardUpdateRead(r)
    BY <1>2, <2>1, <2>3, <2>4
       DEF BoardUpdateRead, ForumView!BoardUpdateRead, boardVars, ForumView!boardVars
  <2> QED
    BY <2>5 DEF ForumView!BoardStep
<1>3. CASE BoardUpdateWrite(r)
  <2>1. ForumView!Return(r)
    BY <1>3, ViewReturn DEF BoardUpdateWrite
  <2>2. ForumView!BoardStoreUpdate(req[r].id, req[r].board)
    BY <1>3 DEF BoardUpdateWrite, BoardStoreUpdate, ReplacePresent, Unindex,
       ForumView!BoardStoreUpdate, ForumView!ReplacePresent, ForumView!Unindex
  <2>3. ForumView!BoardUpdateWrite(r)
    BY <1>3, <2>1, <2>2 DEF BoardUpdateWrite, ForumView!BoardUpdateWrite
  <2> QED
    BY <2>3 DEF ForumView!BoardStep
<1>4. CASE BoardDelete(r)
  <2>1. ForumView!BoardDelete(r)
    BY <1>4 DEF BoardDelete, BoardStoreDelete, Unindex, handlerVars, ForumView!BoardDelete,
       ForumView!BoardStoreDelete, ForumView!Unindex, ForumView!handlerVars
  <2> QED
    BY <2>1 DEF ForumView!BoardStep
<1> QED
  BY <1>1, <1>2, <1>3, <1>4 DEF BoardStep

\* Every thread request is seen as one.
LEMMA ViewThreadStep ==
    ASSUME ForumSide, NEW r \in Requests, ThreadStep(r)
    PROVE  ForumView!ThreadStep(r)
<1> USE ViewRequest
    DEF OwnOps, Idle, ForumView!Idle, boardVars, ForumView!boardVars, threadVars, ForumView!threadVars
<1>1. CASE ThreadCreateCheck(r)
  <2>1. PICK b \in BoardIds :
          /\ boards[b] # Absent
          /\ ~boards[b].isLocked
          /\ Continue(r, [op |-> "thread.create", board |-> b])
    BY <1>1 DEF ThreadCreateCheck
  <2>2. ForumView!Continue(r, [op |-> "thread.create", board |-> b])
    BY <1>1, <2>1, ViewContinue DEF ThreadCreateCheck
  <2>3. ForumView!ThreadCreateCheck(r)
    BY <1>1, <2>1, <2>2 DEF ThreadCreateCheck, ForumView!ThreadCreateCheck
  <2> QED
    BY <2>3 DEF ForumView!ThreadStep
<1>2. CASE ThreadCreateStore(r)
  <2>1. PICK id \in ThreadIds : NewID(id) /\ ThreadStoreCreate(id, NewThread(req[r].board))
    BY <1>2 DEF ThreadCreateStore
  <2>2. ForumView!NewID(id) /\ ForumView!Return(r)
    BY <1>2, <2>1, ViewNewID, ViewReturn DEF ThreadCreateStore
  <2>3. ForumView!ThreadStoreCreate(id, ForumView!NewThread(req[r].board))
    BY <2>1 DEF ThreadStoreCreate, NewThread, ForumView!ThreadStoreCreate, ForumView!NewThread
  <2>4. ForumView!ThreadCreateStore(r)
    BY <1>2, <2>2, <2>3 DEF ThreadCreateStore, ForumView!ThreadCreateStore
  <2> QED
    BY <2>4 DEF ForumView!ThreadStep
<1>3. CASE ThreadGetRead(r)
  <2>1. PICK t \in ThreadIds :
          /\ threads[t] # Absent
          /\ threads[t].viewCount < MaxViews
          /\ Continue(r, [op |-> "thread.get", id |-> t])
    BY <1>3 DEF ThreadGetRead
  <2>2. ForumView!Continue(r, [op |-> "thread.get", id |-> t])
    BY <1>3, <2>1, ViewContinue DEF ThreadGetRead
  <2>3. ForumView!ThreadGetRead(r)
    BY <1>3, <2>1, <2>2 DEF ThreadGetRead, ForumView!ThreadGetRead
  <2> QED
    BY <2>3 DEF ForumView!ThreadStep
<1>4. CASE ThreadGetCount(r)
  <2>1. ForumView!Return(r)
    BY <1>4, ViewReturn DEF ThreadGetCount
  <2>2. ForumView!IncrementViewCount(req[r].id)
    BY <1>4 DEF ThreadGetCount, IncrementViewCount, ForumView!IncrementViewCount
  <2>3. ForumView!ThreadGetCount(r)
    BY <1>4, <2>1, <2>2 DEF ThreadGetCount, ForumView!ThreadGetCount
  <2> QED
    BY <2>3 DEF ForumView!ThreadStep
<1>5. CASE ThreadUpdateRead(r)
  <2>1. PICK t \in ThreadIds, lock \in {Unset, "locked", "open"} :
          /\ threads[t] # Absent
          /\ Continue(r, [op |-> "thread.update", id |-> t, lock |-> lock,
                          thread |-> ApplyLock(threads[t], lock)])
    BY <1>5 DEF ThreadUpdateRead
  <2>2. /\ ForumView!ApplyLock(threads[t], lock) = ApplyLock(threads[t], lock)
        /\ ForumView!Unset = Unset
    BY DEF ApplyLock, Unset, ForumView!ApplyLock, ForumView!Unset
  <2>3. PICK q : q = [op |-> "thread.update", id |-> t, lock |-> lock,
                      thread |-> ApplyLock(threads[t], lock)]
    OBVIOUS
  <2>4. Continue(r, q) /\ q.op = "thread.update"
    BY <2>1, <2>3
  <2>5. ForumView!Continue(r, q)
    BY <1>5, <2>4, ViewContinue DEF ThreadUpdateRead
  <2>6. q = [op |-> "thread.update", id |-> t, lock |-> lock,
             thread |-> ForumView!ApplyLock(threads[t], lock)]
    BY <2>2, <2>3
  <2>7. ForumView!Continue(r, [op |-> "thread.update", id |-> t, lock |-> lock,
                               thread |-> ForumView!ApplyLock(threads[t], lock)])
    BY <2>5, <2>6 DEF ForumView!Continue
  <2>8. ForumView!ThreadUpdateRead(r)
    BY <1>5, <2>1, <2>2, <2>7 DEF ThreadUpdateRead, ForumView!ThreadUpdateRead
  <2> QED
    BY <2>8 DEF ForumView!ThreadStep
<1>6. CASE ThreadUpdateWrite(r)
  <2>1. ForumView!Return(r)
    BY <1>6, ViewReturn DEF ThreadUpdateWrite
  <2>2. ForumView!ThreadStoreUpdate(req[r].id, req[r].thread)
    BY <1>6 DEF ThreadUpdateWrite, ThreadStoreUpdate, ReplacePresent,
       ForumView!ThreadStoreUpdate, ForumView!ReplacePresent
  <2>3. ForumView!ThreadUpdateWrite(r)
    BY <1>6, <2>1, <2>2 DEF ThreadUpdateWrite, ForumView!ThreadUpdateWrite
  <2> QED
    BY <2>3 DEF ForumView!ThreadStep
<1>7. CASE ThreadDelete(r)
  <2>1. ForumView!ThreadDelete(r)
    BY <1>7 DEF ThreadDelete, ThreadStoreDelete, WithoutFirst, WithoutIndex, handlerVars,
       ForumView!ThreadDelete, ForumView!ThreadStoreDelete, ForumView!WithoutFirst,
       ForumView!WithoutIndex, ForumView!handlerVars
  <2> QED
    BY <2>1 DEF ForumView!ThreadStep
<1> QED
  BY <1>1, <1>2, <1>3, <1>4, <1>5, <1>6, <1>7 DEF ThreadStep

\* Every comment request is seen as one.
LEMMA ViewCommentStep ==
    ASSUME ForumSide, NEW r \in Requests, CommentStep(r)
    PROVE  ForumView!CommentStep(r)
<1> USE ViewRequest
    DEF OwnOps, Idle, ForumView!Idle, threadVars, ForumView!threadVars,
        commentVars, ForumView!commentVars
<1>1. CASE CommentCreateCheck(r)
  <2>1. PICK t \in ThreadIds :
          /\ threads[t] # Absent
          /\ ~threads[t].isLocked
          /\ Continue(r, [op |-> "comment.checked", id |-> t, thread |-> threads[t]])
    BY <1>1 DEF CommentCreateCheck
  <2>2. PICK q : q = [op |-> "comment.checked", id |-> t, thread |-> threads[t]]
    OBVIOUS
  <2>3. Continue(r, q) /\ q.op = "comment.checked"
    BY <2>1, <2>2
  <2>4. ForumView!Continue(r, q)
    BY <1>1, <2>3, ViewContinue DEF CommentCreateCheck
  <2>5. ForumView!Continue(r, [op |-> "comment.checked", id |-> t, thread |-> threads[t]])
    BY <2>2, <2>4 DEF ForumView!Continue
  <2>6. ForumView!CommentCreateCheck(r)
    BY <1>1, <2>1, <2>5 DEF CommentCreateCheck, ForumView!CommentCreateCheck
  <2> QED
    BY <2>6 DEF ForumView!CommentStep
<1>2. CASE CommentCreateStore(r)
  <2>1. PICK id \in CommentIds :
          /\ NewID(id)
          /\ CommentStoreCreate(id, [threadId |-> req[r].id, isDeleted |-> FALSE])
    BY <1>2 DEF CommentCreateStore
  <2>2. ForumView!NewID(id)
    BY <2>1, ViewNewID
  <2>3. ForumView!CommentStoreCreate(id, [threadId |-> req[r].id, isDeleted |-> FALSE])
    BY <2>1 DEF CommentStoreCreate, ForumView!CommentStoreCreate
  <2>4. PICK q : q = [op |-> "comment.stored", id |-> req[r].id, thread |-> req[r].thread]
    OBVIOUS
  <2>5. Continue(r, q) /\ q.op = "comment.stored"
    BY <1>2, <2>4 DEF CommentCreateStore
  <2>6. ForumView!Continue(r, q)
    BY <1>2, <2>5, ViewContinue DEF CommentCreateStore
  <2> DEFINE seen == [x \in Requests |->
                        IF req[x].op \in {"vote.checked", "report.resolve"} THEN Idle ELSE req[x]]
  <2>7. seen[r] = req[r]
    BY <1>2, ViewRequest DEF CommentCreateStore
  <2>8. q = [op |-> "comment.stored", id |-> seen[r].id, thread |-> seen[r].thread]
    BY <2>4, <2>7
  <2>9. ForumView!Continue(r, [op |-> "comment.stored", id |-> seen[r].id, thread |-> seen[r].thread])
    BY <2>6, <2>8 DEF ForumView!Continue
  <2>10. ForumView!CommentStoreCreate(id, [threadId |-> seen[r].id, isDeleted |-> FALSE])
    BY <2>3, <2>7 DEF ForumView!CommentStoreCreate
  <2>11. seen[r].op = "comment.checked" /\ UNCHANGED ForumView!threadVars
    BY <1>2, <2>7 DEF CommentCreateStore
  <2>12. \E x \in CommentIds :
            /\ ForumView!NewID(x)
            /\ ForumView!CommentStoreCreate(x, [threadId |-> seen[r].id, isDeleted |-> FALSE])
    BY <2>2, <2>10
  <2> HIDE DEF ForumView!Idle, Idle, OwnOps, ForumView!threadVars
  <2>13. ForumView!CommentCreateStore(r)
    BY <2>9, <2>11, <2>12 DEF ForumView!CommentCreateStore, ForumView!Continue, ForumView!CommentStoreCreate
  <2> QED
    BY <2>13 DEF ForumView!CommentStep
<1>3. CASE CommentCreateCount(r)
  <2>1. ForumView!Return(r)
    BY <1>3, ViewReturn DEF CommentCreateCount
  <2>2. ForumView!ThreadStoreUpdate(req[r].id, ForumView!IncrementReply(req[r].thread))
    BY <1>3 DEF CommentCreateCount, ThreadStoreUpdate, ReplacePresent, IncrementReply,
       ForumView!ThreadStoreUpdate, ForumView!ReplacePresent, ForumView!IncrementReply
  <2>3. ForumView!CommentCreateCount(r)
    BY <1>3, <2>1, <2>2 DEF CommentCreateCount, ForumView!CommentCreateCount
  <2> QED
    BY <2>3 DEF ForumView!CommentStep
<1>4. CASE CommentUpdateRead(r)
  <2>1. PICK c \in CommentIds :
          /\ comments[c] # Absent
          /\ ~comments[c].isDeleted
          /\ Continue(r, [op |-> "comment.update", id |-> c, comment |-> comments[c]])
    BY <1>4 DEF CommentUpdateRead
  <2>2. PICK q : q = [op |-> "comment.update", id |-> c, comment |-> comments[c]]
    OBVIOUS
  <2>3. Continue(r, q) /\ q.op = "comment.update"
    BY <2>1, <2>2
  <2>4. ForumView!Continue(r, q)
    BY <1>4, <2>3, ViewContinue DEF CommentUpdateRead
  <2>5. ForumView!Continue(r, [op |-> "comment.update", id |-> c, comment |-> comments[c]])
    BY <2>2, <2>4 DEF ForumView!Continue
  <2>6. ForumView!CommentUpdateRead(r)
    BY <1>4, <2>1, <2>5 DEF CommentUpdateRead, ForumView!CommentUpdateRead
  <2> QED
    BY <2>6 DEF ForumView!CommentStep
<1>5. CASE CommentUpdateWrite(r)
  <2>1. ForumView!Return(r)
    BY <1>5, ViewReturn DEF CommentUpdateWrite
  <2>2. ForumView!CommentStoreUpdate(req[r].id, req[r].comment)
    BY <1>5 DEF CommentUpdateWrite, CommentStoreUpdate, ReplacePresent,
       ForumView!CommentStoreUpdate, ForumView!ReplacePresent
  <2>3. ForumView!CommentUpdateWrite(r)
    BY <1>5, <2>1, <2>2 DEF CommentUpdateWrite, ForumView!CommentUpdateWrite
  <2> QED
    BY <2>3 DEF ForumView!CommentStep
<1>6. CASE CommentDelete(r)
  <2>1. ForumView!CommentDelete(r)
    BY <1>6 DEF CommentDelete, SoftDelete, handlerVars,
       ForumView!CommentDelete, ForumView!SoftDelete, ForumView!handlerVars
  <2> QED
    BY <2>1 DEF ForumView!CommentStep
<1> QED
  BY <1>1, <1>2, <1>3, <1>4, <1>5, <1>6 DEF CommentStep

\* A step of a vote or a report is not seen at all.
LEMMA ViewStutters ==
    ASSUME ForumSide, NEW r \in Requests,
           \/ VoteStep(r) /\ UNCHANGED boardVars
           \/ ReportStep(r) /\ UNCHANGED <<boardVars, threadVars, commentVars>>
    PROVE  UNCHANGED ForumView!forumVars
<1> USE DEF OwnOps, Idle, ForumView!Idle
<1> DEFINE Seen(x) == IF req[x].op \in {"vote.checked", "report.resolve"} THEN Idle ELSE req[x]
<1>1. UNCHANGED <<boardVars, threadVars, commentVars>>
  BY DEF VoteStep, VoteCheck, VoteStore
<1>2. (issued \ ReportIds)' = issued \ ReportIds
  BY DEF VoteStep, VoteCheck, VoteStore, ReportStep, ReportCreate, ResolveRead, ResolveWrite, NewID
<1>3. \A x \in Requests : Seen(x)' = Seen(x)
  <2>1. CASE VoteCheck(r)
    <3>1. PICK q : /\ Continue(r, q) /\ q.op = "vote.checked"
      BY <2>1 DEF VoteCheck
    <3> QED
      BY <2>1, <3>1, OneGoesOn DEF VoteCheck
  <2>2. CASE VoteStore(r)
    BY <2>2, OneGoesOn DEF VoteStore, Return
  <2>3. CASE ReportCreate(r)
    BY <2>3 DEF ReportCreate
  <2>4. CASE ResolveRead(r)
    <3>1. PICK q : /\ Continue(r, q) /\ q.op = "report.resolve"
      BY <2>4 DEF ResolveRead
    <3> QED
      BY <2>4, <3>1, OneGoesOn DEF ResolveRead
  <2>5. CASE ResolveWrite(r)
    BY <2>5, OneGoesOn DEF ResolveWrite, Return
  <2> QED
    BY <2>1, <2>2, <2>3, <2>4, <2>5 DEF VoteStep, ReportStep
<1>4. [x \in Requests |-> Seen(x)]' = [x \in Requests |-> Seen(x)]
  BY <1>3
<1> QED
  BY <1>1, <1>2, <1>4 DEF ForumView!forumVars, ForumView!boardVars, ForumView!threadVars,
     ForumView!commentVars, ForumView!handlerVars, boardVars, threadVars, commentVars

\* With votes and reports around, the forum is the forum: whatever holds of
\* every behaviour of ForumSpec holds of what Feedback does to its variables.
THEOREM ForumUndisturbed == FeedbackSpec => ImplementsForum
<1>1. FeedbackInit => ForumView!ForumInit
  <2> SUFFICES ASSUME FeedbackInit PROVE ForumView!ForumInit
    OBVIOUS
  <2>1. ForumView!BoardStoreInit /\ ForumView!ThreadStoreInit /\ ForumView!CommentStoreInit
    BY DEF FeedbackInit, ForumInit, BoardStoreInit, ThreadStoreInit, CommentStoreInit,
       ForumView!BoardStoreInit, ForumView!ThreadStoreInit, ForumView!CommentStoreInit
  <2>2. ForumView!HandlersInit
    BY DEF FeedbackInit, ForumInit, HandlersInit, Idle, ForumView!HandlersInit, ForumView!Idle
  <2> QED
    BY <2>1, <2>2 DEF ForumView!ForumInit
<1>2. FeedbackInv /\ [FeedbackNext]_feedbackVars
        => [ForumView!ForumNext]_(ForumView!forumVars)
  <2> SUFFICES ASSUME FeedbackInv, [FeedbackNext]_feedbackVars
               PROVE  [ForumView!ForumNext]_(ForumView!forumVars)
    OBVIOUS
  <2>0. ForumSide
    BY DEF FeedbackInv
  <2>1. CASE ForumNext
    <3>1. PICK r \in Requests :
            \/ BoardStep(r) /\ UNCHANGED <<threadVars, commentVars>>
            \/ ThreadStep(r) /\ UNCHANGED commentVars
            \/ CommentStep(r) /\ UNCHANGED boardVars
      BY <2>1 DEF ForumNext
    <3> QED
      BY <2>0, <3>1, ViewBoardStep, ViewThreadStep, ViewCommentStep
         DEF ForumView!ForumNext, threadVars, commentVars, boardVars,
             ForumView!threadVars, ForumView!commentVars, ForumView!boardVars
  <2>2. ASSUME NEW r \in Requests,
               \/ VoteStep(r) /\ UNCHANGED <<boardVars, reports>>
               \/ ReportStep(r) /\ UNCHANGED <<boardVars, threadVars, commentVars, votes>>
        PROVE  UNCHANGED ForumView!forumVars
    BY <2>0, <2>2, ViewStutters
  <2>3. CASE UNCHANGED feedbackVars
    BY <2>3 DEF feedbackVars, forumVars, boardVars, threadVars, commentVars, handlerVars,
       ForumView!forumVars, ForumView!boardVars, ForumView!threadVars,
       ForumView!commentVars, ForumView!handlerVars, Idle, ForumView!Idle
  <2> QED
    BY <2>1, <2>2, <2>3 DEF FeedbackNext
<1> QED
  BY <1>1, <1>2, FeedbackInvariant, PTL DEF FeedbackSpec, ImplementsForum, ForumView!ForumSpec

=============================================================================
