---------------------------- MODULE ReportService ---------------------------
(***************************************************************************)
(* ReportService over MemoryReportStore.  Create never looks whether what  *)
(* is reported exists; Resolve reads a clone and writes it back with its   *)
(* verdict, and does not ask whether the report still is open.             *)
(***************************************************************************)
EXTENDS Handlers

CONSTANTS
    ReportIds,  \* the identifiers newID may return for a report
    Subjects    \* what is reported, by whom and why

ASSUME ReportIdsAssumption ==
    /\ Absent \notin ReportIds
    /\ ReportIds \cap (BoardIds \cup ThreadIds \cup CommentIds) = {}

VARIABLE reports    \* items: the report stored under each identifier

Report ==
    [subject : Subjects, status : {"open", "resolved", "dismissed"}, resolvedAt : BOOLEAN]

ASSUME ReportAssumption == Absent \notin Report

ReportStoreInit == reports = [p \in ReportIds |-> Absent]

ReportStoreCreate(p, report) == reports' = [reports EXCEPT ![p] = report]

\* Update: a report that is not there is not stored (ErrNotFound).
ReportStoreUpdate(p, report) == reports' = ReplacePresent(reports, p, report)

\* Create makes the report open; resolvedAt says whether ResolvedAt is set.
ReportCreate(r) ==
    /\ req[r] = Idle
    /\ \E p \in ReportIds, subject \in Subjects :
          /\ NewID(p)
          /\ ReportStoreCreate(p,
                [subject |-> subject, status |-> "open", resolvedAt |-> FALSE])
    /\ UNCHANGED req

\* A Resolve that lets a request open a report again.
ResolveRead_AnyStatus(r) ==
    /\ req[r] = Idle
    /\ \E p \in ReportIds, status \in {"open", "resolved", "dismissed"} :
          /\ reports[p] # Absent
          /\ Continue(r, [op |-> "report.resolve", id |-> p,
                          report |-> [reports[p] EXCEPT !.status = status,
                                                        !.resolvedAt = TRUE]])
    /\ UNCHANGED <<reports, issued>>

\* Resolve, up to the clone that has the verdict.
ResolveRead(r) ==
    /\ req[r] = Idle
    /\ \E p \in ReportIds, status \in {"resolved", "dismissed"} :
          /\ reports[p] # Absent
          /\ Continue(r, [op |-> "report.resolve", id |-> p,
                          report |-> [reports[p] EXCEPT !.status = status,
                                                        !.resolvedAt = TRUE]])
    /\ UNCHANGED <<reports, issued>>

\* Resolve, the write of the whole clone.
ResolveWrite(r) ==
    /\ req[r].op = "report.resolve"
    /\ ReportStoreUpdate(req[r].id, req[r].report)
    /\ Return(r)
    /\ UNCHANGED issued

ReportStep(r) ==
    \/ ReportCreate(r)
    \/ ResolveRead(r)
    \/ ResolveWrite(r)

ReportRequest == [op : {"report.resolve"}, id : ReportIds, report : Report]

=============================================================================
