---------------------------- MODULE HostedService ----------------------------
(***************************************************************************)
(* The Node hosted service, src/hosted/service.ts: webhook handlers that   *)
(* post scan jobs and workers that run them, over one queue record per     *)
(* scan key.                                                               *)
(*                                                                         *)
(* A webhook is handled without an await, so it is one step.  A call of    *)
(* runNextQueuedScan suspends at the scan runner, at the report store and  *)
(* at the check-run publisher; anything may run meanwhile, other workers   *)
(* included (docs/hosted-deployment-model.md:47 allows "bounded            *)
(* concurrency").  The queue record is shared and mutated in place: it is  *)
(* not read again, nor compared, before its final status is stored.        *)
(***************************************************************************)
EXTENDS Naturals, Sequences, FiniteSets

CONSTANTS
  Deliveries,          \* X-GitHub-Delivery ids
  Keys,                \* installation:repository:pull request:head:scanner version
  Repos,
  KeyRepo,             \* the repository a key names
  Event,               \* what each delivery says
  Workers,             \* concurrent callers of runNextQueuedScan
  InitialScope,        \* repositories selected and not removed at the start
  ScopeChanges,        \* whether the host changes its repository lists
  RerunsWhileRunning   \* whether a manual rerun may meet a running job

Events == [kind : {"unsigned", "unusable", "pull_request"}, key : Keys, manualRerun : BOOLEAN]

ASSUME ConstantsAssumption ==
  /\ KeyRepo \in [Keys -> Repos]
  /\ Event \in [Deliveries -> Events]
  /\ InitialScope \subseteq Repos
  /\ ScopeChanges \in BOOLEAN
  /\ RerunsWhileRunning \in BOOLEAN
ASSUME FiniteAssumption == IsFiniteSet(Deliveries) /\ IsFiniteSet(Workers)

VARIABLES
  seen,        \* seenDeliveryIds
  queue,       \* keys of queue.records in insertion order
  status,      \* of the queue record of each key, "absent" without one
  attempt,     \* of the queue record
  deliveryIds, \* of the queue record
  reportId,    \* of the queue record: the attempt its report id names, 0 without one
  scope,       \* repositories selected and not removed, as the host lists them
  run,         \* the call of runNextQueuedScan each worker is in
  reports,     \* attempts in the ids of the reports saved for each key, in order
  checkRuns,   \* number of check runs GitHub holds for each key
  claims       \* history: attempts of each key that workers took up, in order

record == <<status, attempt, deliveryIds, reportId>>
store == <<reports, checkRuns>>
vars == <<seen, queue, record, scope, run, store, claims>>

Statuses == {"queued", "running", "completed", "failed"}
Idle == [at |-> "idle"]
Calls == [at : {"scan", "save", "publish"}, key : Keys, scope : SUBSET Repos, reportId : Nat]

Init ==
  /\ seen = {} /\ queue = <<>>
  /\ status = [k \in Keys |-> "absent"]
  /\ attempt = [k \in Keys |-> 0]
  /\ deliveryIds = [k \in Keys |-> {}]
  /\ reportId = [k \in Keys |-> 0]
  /\ scope = InitialScope
  /\ run = [w \in Workers |-> Idle]
  /\ reports = [k \in Keys |-> <<>>]
  /\ checkRuns = [k \in Keys |-> 0]
  /\ claims = [k \in Keys |-> <<>>]

-----------------------------------------------------------------------------
(* handlePullRequestWebhook                                                *)

Becomes(k, s) == status' = [status EXCEPT ![k] = s]

\* planHostedScanQueueUpsert: a new record, a manual rerun, or a reused record.
UpsertInPlace(d, k) ==  \* mutant: a missing record is updated like an existing one
  /\ deliveryIds' = [deliveryIds EXCEPT ![k] = @ \cup {d}]
  /\ IF Event[d].manualRerun
     THEN attempt' = [attempt EXCEPT ![k] = @ + 1] /\ Becomes(k, "queued")
     ELSE UNCHANGED <<attempt, status>>
  /\ UNCHANGED <<queue, reportId>>
UpsertRequeueing(d, k) ==  \* mutant: a duplicate delivery retries a failed job
  /\ deliveryIds' = [deliveryIds EXCEPT ![k] = @ \cup {d}]
  /\ IF Event[d].manualRerun \/ status[k] = "absent"
     THEN attempt' = [attempt EXCEPT ![k] = @ + 1]
     ELSE UNCHANGED attempt
  /\ IF Event[d].manualRerun \/ status[k] \in {"absent", "failed"}
     THEN Becomes(k, "queued")
     ELSE UNCHANGED status
  /\ queue' = IF status[k] = "absent" THEN Append(queue, k) ELSE queue
  /\ UNCHANGED reportId
Upsert(d, k) ==
  /\ deliveryIds' = [deliveryIds EXCEPT ![k] = @ \cup {d}]
  /\ IF Event[d].manualRerun \/ status[k] = "absent"
     THEN attempt' = [attempt EXCEPT ![k] = @ + 1] /\ Becomes(k, "queued")
     ELSE UNCHANGED <<attempt, status>>
  /\ queue' = IF status[k] = "absent" THEN Append(queue, k) ELSE queue
  /\ UNCHANGED reportId

\* parseHostedPullRequestEvent and authorizeInstallationTokenScope.
Queueable(d) == Event[d].kind = "pull_request" /\ KeyRepo[Event[d].key] \in scope

\* An unsigned request and a replayed delivery id change nothing.  The id of a
\* signed delivery is remembered before its payload is looked at.
HandleWebhook(d) ==
  LET k == Event[d].key
  IN  /\ Event[d].kind # "unsigned" /\ d \notin seen
      /\ RerunsWhileRunning \/ ~ (Event[d].manualRerun /\ status[k] = "running")
      /\ seen' = seen \cup {d}
      /\ IF Queueable(d) THEN Upsert(d, k) ELSE UNCHANGED <<record, queue>>
      /\ UNCHANGED <<scope, run, store, claims>>

-----------------------------------------------------------------------------
(* runNextQueuedScan                                                       *)

\* nextQueuedRecord: the first queued record in insertion order.
IsNextUnfinished(k) ==  \* mutant: a running record is picked as well
  \E i \in DOMAIN queue :
    /\ queue[i] = k /\ status[k] \in {"queued", "running"}
    /\ \A j \in 1..(i - 1) : status[queue[j]] \notin {"queued", "running"}
IsNextQueued(k) ==
  \E i \in DOMAIN queue :
    /\ queue[i] = k /\ status[k] = "queued"
    /\ \A j \in 1..(i - 1) : status[queue[j]] # "queued"

\* The call of worker w continues at the await "at".
Suspend(w, at, id) == run' = [run EXCEPT ![w] =
  [at |-> at, key |-> run[w].key, scope |-> run[w].scope, reportId |-> id]]

\* The record is set running and the worker plan is made against the repository
\* lists of that moment; a refused plan fails the job at once.
Claim(w) ==
  /\ run[w] = Idle
  /\ \E k \in Keys :
       /\ IsNextQueued(k)
       /\ claims' = [claims EXCEPT ![k] = Append(@, attempt[k])]
       /\ IF KeyRepo[k] \in scope
          THEN /\ Becomes(k, "running")
               /\ run' = [run EXCEPT ![w] = [at |-> "scan", key |-> k, scope |-> scope, reportId |-> 0]]
          ELSE Becomes(k, "failed") /\ UNCHANGED run
  /\ UNCHANGED <<seen, queue, attempt, deliveryIds, reportId, scope, store>>

\* The catch block and the refused publication.
FailSilently(w) ==  \* mutant: no status is stored
  /\ run' = [run EXCEPT ![w] = Idle]
  /\ UNCHANGED status
Fail(w) ==
  /\ run' = [run EXCEPT ![w] = Idle]
  /\ Becomes(run[w].key, "failed")

\* The runner answered: the report id is built from the attempt of that moment.
ScanReturns(w) ==
  /\ run[w].at = "scan"
  /\ Suspend(w, "save", attempt[run[w].key])
  /\ UNCHANGED <<seen, queue, record, scope, store, claims>>

ScanThrows(w) ==
  /\ run[w].at = "scan"
  /\ Fail(w)
  /\ UNCHANGED <<seen, queue, attempt, deliveryIds, reportId, scope, store, claims>>

SaveReturnsCompleted(w) ==  \* mutant: completed with the report, before it is published
  LET k == run[w].key
  IN  /\ run[w].at = "save"
      /\ reports' = [reports EXCEPT ![k] = Append(@, run[w].reportId)]
      /\ reportId' = [reportId EXCEPT ![k] = run[w].reportId]
      /\ Becomes(k, "completed")
      /\ Suspend(w, "publish", run[w].reportId)
      /\ UNCHANGED <<seen, queue, attempt, deliveryIds, scope, checkRuns, claims>>
\* The report is stored and the publication planned against the lists read by
\* Claim: they show later edits if the host edits them in place.
SaveReturns(w) ==
  LET k == run[w].key
  IN  /\ run[w].at = "save"
      /\ reports' = [reports EXCEPT ![k] = Append(@, run[w].reportId)]
      /\ \E listed \in {run[w].scope, scope} :
           IF KeyRepo[k] \in listed
           THEN Suspend(w, "publish", run[w].reportId) /\ UNCHANGED status
           ELSE Fail(w)
      /\ UNCHANGED <<seen, queue, attempt, deliveryIds, reportId, scope, checkRuns, claims>>

\* The store fails, before or after it kept the report.
SaveThrows(w) ==
  LET k == run[w].key
  IN  /\ run[w].at = "save"
      /\ \/ UNCHANGED reports
         \/ reports' = [reports EXCEPT ![k] = Append(@, run[w].reportId)]
      /\ Fail(w)
      /\ UNCHANGED <<seen, queue, attempt, deliveryIds, reportId, scope, checkRuns, claims>>

PublishReturnsUnnamed(w) ==  \* mutant: the record names the attempt of this moment
  LET k == run[w].key
  IN  /\ run[w].at = "publish"
      /\ checkRuns' = [checkRuns EXCEPT ![k] = @ + 1]
      /\ Becomes(k, "completed")
      /\ reportId' = [reportId EXCEPT ![k] = attempt[k]]
      /\ run' = [run EXCEPT ![w] = Idle]
      /\ UNCHANGED <<seen, queue, attempt, deliveryIds, scope, reports, claims>>
PublishReturns(w) ==
  LET k == run[w].key
  IN  /\ run[w].at = "publish"
      /\ checkRuns' = [checkRuns EXCEPT ![k] = @ + 1]
      /\ Becomes(k, "completed")
      /\ reportId' = [reportId EXCEPT ![k] = run[w].reportId]
      /\ run' = [run EXCEPT ![w] = Idle]
      /\ UNCHANGED <<seen, queue, attempt, deliveryIds, scope, reports, claims>>

\* The publisher fails, before or after GitHub created the check run.
PublishThrows(w) ==
  LET k == run[w].key
  IN  /\ run[w].at = "publish"
      /\ \/ UNCHANGED checkRuns
         \/ checkRuns' = [checkRuns EXCEPT ![k] = @ + 1]
      /\ Fail(w)
      /\ UNCHANGED <<seen, queue, attempt, deliveryIds, reportId, scope, reports, claims>>

-----------------------------------------------------------------------------
\* The host selects or removes a repository.
ChangeScope(r) ==
  /\ ScopeChanges
  /\ scope' = IF r \in scope THEN scope \ {r} ELSE scope \cup {r}
  /\ UNCHANGED <<seen, queue, record, run, store, claims>>

Settle(w) == \/ ScanReturns(w) \/ ScanThrows(w) \/ SaveReturns(w) \/ SaveThrows(w)
             \/ PublishReturns(w) \/ PublishThrows(w)

Next == \/ \E d \in Deliveries : HandleWebhook(d)
        \/ \E r \in Repos : ChangeScope(r)
        \/ \E w \in Workers : Claim(w) \/ Settle(w)

Spec == Init /\ [][Next]_vars

\* The host keeps calling runNextQueuedScan, and its adapters answer or fail.
FairSpec == Spec /\ \A w \in Workers : WF_vars(Claim(w)) /\ WF_vars(Settle(w))

-----------------------------------------------------------------------------
(* Properties.                                                             *)

\* Queue records, calls and stored ids have the shape the code gives them.
TypeOK ==
  /\ seen \subseteq Deliveries
  /\ queue \in Seq(Keys)
  /\ status \in [Keys -> Statuses \cup {"absent"}]
  /\ \A k \in Keys : status[k] # "absent" => attempt[k] > 0 /\ \E i \in DOMAIN queue : queue[i] = k
  /\ attempt \in [Keys -> Nat]
  /\ deliveryIds \in [Keys -> SUBSET Deliveries]
  /\ reportId \in [Keys -> Nat]
  /\ scope \subseteq Repos
  /\ run \in [Workers -> Calls \cup {Idle}]
  /\ reports \in [Keys -> Seq(Nat)]
  /\ checkRuns \in [Keys -> Nat]
  /\ claims \in [Keys -> Seq(Nat)]

\* However webhooks and workers interleave, an attempt of a job is taken up at most
\* once: two workers never claim the same attempt, and a duplicate delivery never
\* makes one run again.
AttemptClaimedOnce ==
  \A k \in Keys : \A i, j \in DOMAIN claims[k] : i < j => claims[k][i] < claims[k][j]

\* A record says "running" only while some worker is in a scan of that job: workers
\* that overwrite each other's status never leave a job running for ever.
RunningJobHasAWorker ==
  \A k \in Keys :
    status[k] = "running" => \E w \in Workers : run[w].at # "idle" /\ run[w].key = k

\* A completed job names a report that was saved and has a check run at GitHub, even
\* when reruns and other workers changed the record during its three awaits.
CompletedJobIsPublished ==
  \A k \in Keys :
    status[k] = "completed" =>
      /\ \E i \in DOMAIN reports[k] : reports[k][i] = reportId[k]
      /\ checkRuns[k] > 0

\* Duplicate deliveries and failed publications create no check run: there is at most
\* one for the job, and one more for every manual rerun that was accepted.
CheckRunsWereAskedFor ==
  \A k \in Keys :
    checkRuns[k] <= 1 + Cardinality({d \in deliveryIds[k] : Event[d].manualRerun})

\* When no rerun meets a running job, the service keeps the promises of the job board:
\* a claim and its end are exclusive, every queued job is taken up and every scan ends.
Board == INSTANCE HostedJobBoard WITH Keys <- Keys, status <- status, attempt <- attempt
KeepsTheBoard == Board!Spec

\* When no rerun meets a running job, no two saved reports have the same id, although
\* the id is built from the record after the scan and failed attempts save reports too.
ReportIdsAreUnique ==
  \A k \in Keys : \A i, j \in DOMAIN reports[k] : reports[k][i] = reports[k][j] => i = j

-----------------------------------------------------------------------------
\* tests/hosted-contracts.test.mjs:574-578: a manual rerun leaves the record "queued"
\* and says shouldEnqueueWorker and shouldCreateCheckRun.  So a queued job leaves the
\* queue only by being taken up by a worker.
QueuedJobIsTakenUp ==
  [][\A k \in Keys :
       status[k] = "queued" /\ status'[k] # "queued" => claims'[k] # claims[k]]_vars
=============================================================================
