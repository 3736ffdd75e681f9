------------------------------- MODULE Reports -------------------------------
(***************************************************************************)
(* The generation of reports in services/report.service.ts, with the Map   *)
(* of pending reports that stands in for BullMQ: onModuleInit runs before  *)
(* Redis is looked for, so the Map is what is used.                        *)
(*                                                                         *)
(* The schema that is injected, schemas/report.schema.ts, has no metadata: *)
(* Mongoose drops it when a report is created and from every update. So    *)
(* processReport, which writes report.metadata.completedAt, throws for     *)
(* every report that it generated; the notification of the failure throws  *)
(* as well; and the count of attempts is read from where nothing is.       *)
(* cancelReport and getReport look for metadata.requestedBy and find no    *)
(* report; they change nothing and are left out.                           *)
(***************************************************************************)
EXTENDS Integers, FiniteSets, FiniteSetsExt

CONSTANTS
    Requests,    \* request slots
    Ticks,       \* callbacks of the interval that may run side by side
    MaxReports,  \* bound: reports created over time
    MaxRuns      \* bound: times one report is processed

VARIABLES
    count,    \* reports created so far
    status,   \* status[i]: the stored status of report i
    pending,  \* pendingReports: the reports in the Map
    runs,     \* history: how often processReport was called for report i
    uploads,  \* files of report i in S3
    req,      \* req[r]: what request slot r is doing
    tick      \* tick[k]: what callback k is doing, and at which report

vars == <<count, status, pending, runs, uploads, req, tick>>

-----------------------------------------------------------------------------
ReportIds == 1 .. MaxReports

Idle == [phase |-> "idle"]

At(phase, i) == [phase |-> phase, at |-> i]

\* metadata.attempts as stored: what the schema does not have is not there,
\* and (undefined || 0) is 0.
StoredAttempts == 0

MaxAttempts == 3

GoOn(k, work) == tick' = [tick EXCEPT ![k] = work]

\* processReport is called for the next report of the walk.
Walk(k, i, map) ==
    LET ahead == {j \in map : j > i}
        next == Min(ahead)
    IN  IF ahead = {} THEN GoOn(k, Idle) /\ UNCHANGED runs
        ELSE /\ runs[next] < MaxRuns
             /\ GoOn(k, At("starting", next))
             /\ runs' = [runs EXCEPT ![next] = @ + 1]

-----------------------------------------------------------------------------
\* requestReport creates the report ...
Create(r) ==
    /\ req[r] = Idle
    /\ count < MaxReports
    /\ count' = count + 1
    /\ status' = [status EXCEPT ![count + 1] = "QUEUED"]
    /\ req' = [req EXCEPT ![r] = At("queueing", count + 1)]
    /\ UNCHANGED <<pending, runs, uploads, tick>>

\* ... and queueReportGeneration puts it into the Map.
QueueGeneration(r) ==
    /\ req[r].phase = "queueing"
    /\ pending' = pending \cup {req[r].at}
    /\ req' = [req EXCEPT ![r] = Idle]
    /\ UNCHANGED <<count, status, runs, uploads, tick>>

\* The interval fires.
Fire(k) ==
    /\ tick[k] = Idle
    /\ pending # {}
    /\ Walk(k, 0, pending)
    /\ UNCHANGED <<count, status, pending, uploads, req>>

\* processReport saves the status GENERATING. The save fails if the database does
\* or if another callback is saving this report, for they share the document.
SaveGenerating(k) ==
    /\ tick[k].phase = "starting"
    /\ \/ /\ status' = [status EXCEPT ![tick[k].at] = "GENERATING"]
          /\ GoOn(k, At("generating", tick[k].at))
       \/ /\ GoOn(k, At("failing", tick[k].at))
          /\ UNCHANGED status
    /\ UNCHANGED <<count, pending, runs, uploads, req>>

\* The file is generated and uploaded, or that fails. If it went well, setting
\* metadata.completedAt throws.
Generate(k) ==
    /\ tick[k].phase = "generating"
    /\ \E files \in {0, 1} : uploads' = [uploads EXCEPT ![tick[k].at] = @ + files]
    /\ GoOn(k, At("failing", tick[k].at))
    /\ UNCHANGED <<count, status, pending, runs, req>>

\* The handler saves the status FAILED; it throws at the save or at the
\* notification, so that processReport rejects.
SaveFailed(k) ==
    /\ tick[k].phase = "failing"
    /\ status' \in {status, [status EXCEPT ![tick[k].at] = "FAILED"]}
    /\ GoOn(k, At("rejected", tick[k].at))
    /\ UNCHANGED <<count, pending, runs, uploads, req>>

\* The callback reads the report again and counts the attempt; the third deletes
\* it from the Map. An error of the database ends the walk.
CountAttempt(k) ==
    /\ tick[k].phase = "rejected"
    /\ LET i == tick[k].at
       IN  \/ /\ StoredAttempts + 1 >= MaxAttempts
              /\ status' = [status EXCEPT ![i] = "FAILED"]
              /\ pending' = pending \ {i}
              /\ Walk(k, i, pending')
           \/ /\ StoredAttempts + 1 < MaxAttempts
              /\ Walk(k, i, pending)
              /\ UNCHANGED <<status, pending>>
           \/ /\ GoOn(k, Idle)
              /\ UNCHANGED <<status, pending, runs>>
    /\ UNCHANGED <<count, uploads, req>>

\* The process ends and another one starts: the Map is empty.
Restart ==
    /\ pending' = {}
    /\ req' = [r \in Requests |-> Idle]
    /\ tick' = [k \in Ticks |-> Idle]
    /\ UNCHANGED <<count, status, runs, uploads>>

-----------------------------------------------------------------------------
Init == /\ count = 0
        /\ status = [i \in ReportIds |-> "none"]
        /\ pending = {}
        /\ runs = [i \in ReportIds |-> 0]
        /\ uploads = [i \in ReportIds |-> 0]
        /\ req = [r \in Requests |-> Idle]
        /\ tick = [k \in Ticks |-> Idle]

Next == \/ \E r \in Requests : Create(r) \/ QueueGeneration(r)
        \/ \E k \in Ticks : \/ Fire(k)
                            \/ SaveGenerating(k)
                            \/ Generate(k)
                            \/ SaveFailed(k)
                            \/ CountAttempt(k)
        \/ Restart

Spec == Init /\ [][Next]_vars

-----------------------------------------------------------------------------
\* "Update report status to failed after 3 attempts": no report is processed more
\* than three times.
ThreeAttempts == \A i \in ReportIds : runs[i] <= MaxAttempts
=============================================================================
