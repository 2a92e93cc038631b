------------------------------ MODULE Feedback ------------------------------
(***************************************************************************)
(* Votes and reports beside the forum: goroutines that vote, report and    *)
(* resolve run among those that create, change and delete what is voted    *)
(* on and reported.                                                        *)
(***************************************************************************)
EXTENDS Forum, VoteService, ReportService

feedbackVars == <<forumVars, votes, reports>>

FeedbackInit == ForumInit /\ VoteStoreInit /\ ReportStoreInit

FeedbackNext ==
    \/ ForumNext /\ UNCHANGED <<votes, reports>>
    \/ \E r \in Requests :
          \/ VoteStep(r) /\ UNCHANGED <<boardVars, reports>>
          \/ ReportStep(r) /\ UNCHANGED <<boardVars, threadVars, commentVars, votes>>

FeedbackSpec == FeedbackInit /\ [][FeedbackNext]_feedbackVars

-----------------------------------------------------------------------------

\* The vote and the report store, and the goroutines that work on them, hold
\* values of their Go types; ImplementsForum says it of the rest.
FeedbackTypeOK ==
    /\ votes \in [VoteKeys -> VoteValues \cup {Absent}]
    /\ reports \in [ReportIds -> Report \cup {Absent}]
    /\ \A r \in Requests :
          /\ req[r].op = "vote.checked" => req[r] \in VoteRequest
          /\ req[r].op = "report.resolve" => req[r] \in ReportRequest

\* Whatever is deleted while votes are cast, a vote is only ever stored, or
\* about to be stored, for a thread that once was or a comment that is there:
\* comments are never removed, and the check comes before the store.
VoteTargetsWereStored ==
    LET OnTarget(key) == IF key[1] = "thread" THEN key[2] \in issued
                                              ELSE comments[key[2]] # Absent
    IN  /\ \A k \in VoteKeys : votes[k] # Absent => OnTarget(k)
        /\ \A r \in Requests : req[r].op = "vote.checked" => OnTarget(req[r].key)

\* The workflow of a report under concurrent Resolves, each of which writes a
\* whole clone back: a verdict may replace another, but a report that was
\* closed is never open again, is never left without the time it was closed
\* at, and is always about what it was made about.
ReportsStayClosed ==
    [][\A p \in ReportIds :
          reports[p] # Absent =>
              /\ reports'[p] # Absent
              /\ reports'[p].subject = reports[p].subject
              /\ reports[p].status # "open" =>
                    reports'[p].status # "open" /\ reports'[p].resolvedAt]_feedbackVars

\* Seen without its votes and reports, the forum behaves as the forum alone:
\* voting and reporting disturb no thread, no comment and no other request,
\* so that all that holds of ForumSpec holds here.
ForumView ==
    INSTANCE Forum WITH
        req <- [r \in Requests |->
                  IF req[r].op \in {"vote.checked", "report.resolve"} THEN Idle ELSE req[r]],
        issued <- issued \ ReportIds

ImplementsForum == ForumView!ForumSpec

=============================================================================
