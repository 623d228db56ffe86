---------------------------- MODULE RetentionPlans ----------------------------
(***************************************************************************)
(* Retention and deletion cleanup of the hosted service,                   *)
(* src/hosted/contracts.ts: planHostedRetentionAndDeletionCleanup and the  *)
(* queue cleanup plan it is composed with.  The planner is a pure          *)
(* function; here a host stores compact reports, queue jobs and worker     *)
(* checkouts, days pass, and the host carries out the plan of one cleanup  *)
(* request after another.  Dates are days, requestedAt is the current one. *)
(***************************************************************************)
EXTENDS Integers

CONSTANTS
  Installations, Repositories,
  ReportIds, Jobs, Checkouts,
  Of,              \* whose each of these is: an installation and a repository
  RetentionDays,   \* HOSTED_PRIVACY_DEFAULTS.retentionDays
  TeamDays,        \* values of a report's own retentionDays
  CleanupRequests,        \* cleanup requests: trigger, installation, repository or Unset
  LastDay,         \* bound: the clock stops here
  Unset,           \* an optional field that is not there
  Unreadable       \* a date that Date.parse rejects

Triggers == {"repository_removed", "installation_deleted", "repeated_cleanup", "retention_expired"}
AllRequests == [trigger : Triggers, installation : Installations, repository : Repositories \cup {Unset}]
Identities == [installation : Installations, repository : Repositories]
Items == ReportIds \cup Jobs \cup Checkouts

ASSUME RetentionAssumption ==
  /\ Of \in [Items -> Identities] /\ CleanupRequests \subseteq AllRequests
  /\ RetentionDays \in Nat \ {0}
  /\ TeamDays \subseteq Int
  /\ LastDay \in Nat
  /\ Unset \notin Int \cup Repositories /\ Unreadable \notin Int /\ Unset # Unreadable

VARIABLES
  today,
  reports,    \* HostedCompactReportRetentionRecord of each id
  jobs,       \* HostedQueueCleanupJobState of each key
  checkouts,  \* HostedWorkerCheckoutCleanupState of each key
  removed,    \* history: the repositories and installations removed
  sweptOn,    \* history: day of the last retention run over a whole installation
  last        \* history: the removal request just carried out, Unset after another step

retentionVars == <<today, reports, jobs, checkouts, removed, sweptOn, last>>

Dates == Nat \cup {Unreadable}
Reports == [state : {"absent", "kept", "deleted"}, createdAt : Dates,
            retentionDays : TeamDays \cup {Unset}, expiresAt : Dates \cup {Unset}]
JobStatuses == {"absent", "queued", "running", "completed", "failed", "cancelled"}
JobRecords == [status : JobStatuses, cancelAsked : BOOLEAN]
CheckoutStatuses == {"absent", "active", "deletion_pending", "deleted"}

\* A removed repository of an installation, or an installation removed with all its repositories.
Scopes == [installation : Installations, repository : Repositories \cup {Unset}, whole : BOOLEAN]

RetentionInit ==
  /\ today = 0
  /\ reports = [r \in ReportIds |-> [state |-> "absent", createdAt |-> 0,
                                     retentionDays |-> Unset, expiresAt |-> Unset]]
  /\ jobs = [j \in Jobs |-> [status |-> "absent", cancelAsked |-> FALSE]]
  /\ checkouts = [c \in Checkouts |-> "absent"]
  /\ removed = {} /\ last = Unset
  /\ sweptOn = [i \in Installations |-> -1]

-----------------------------------------------------------------------------
(* The planner.                                                            *)

\* resolveRetentionAndDeletionCleanupScope
ScopeIsInstallation(q) ==
  \/ q.trigger = "installation_deleted"
  \/ q.trigger = "retention_expired" /\ q.repository = Unset

\* queueCleanupMatches, retentionCleanupMatchesReport, retentionCleanupMatchesIdentity
Matches(x, q) ==
  /\ Of[x].installation = q.installation
  /\ ScopeIsInstallation(q) \/ Of[x].repository = q.repository

Least(a, b) == IF a <= b THEN a ELSE b
Greatest(a, b) == IF a >= b THEN a ELSE b

\* resolveHostedRetentionDays
DaysAsTheTeamAsks(days) ==  \* mutant: the hosted default does not cap the team's days
  IF days = Unset THEN RetentionDays ELSE Greatest(1, days)
RetentionOf(days) ==
  IF days = Unset THEN RetentionDays ELSE Least(RetentionDays, Greatest(1, days))

\* isCompactReportExpired
ExpiredOnItsLastDay(r, at) ==  \* mutant: the date of creation does not matter
  IF r.expiresAt # Unset
  THEN r.expiresAt # Unreadable /\ r.expiresAt <= at
  ELSE r.createdAt # Unreadable /\ RetentionOf(r.retentionDays) <= at
Expired(r, at) ==
  IF r.expiresAt # Unset
  THEN r.expiresAt # Unreadable /\ r.expiresAt <= at
  ELSE r.createdAt # Unreadable /\ r.createdAt + RetentionOf(r.retentionDays) <= at

RemovalOnly(q) == q.trigger # "retention_expired"

\* planHostedCompactReportCleanup; every other report is preserved.
DeleteExpiredReports(q, at) ==  \* mutant: a removal too waits for the reports to expire
  {r \in ReportIds : reports[r].state = "kept" /\ Matches(r, q) /\ Expired(reports[r], at)}
DeleteReports(q, at) ==
  {r \in ReportIds : /\ reports[r].state = "kept"
                     /\ Matches(r, q)
                     /\ RemovalOnly(q) \/ Expired(reports[r], at)}

\* createHostedQueueCleanupPlan, emptyHostedQueueCleanupActions
CancelQueued(q) ==
  {j \in Jobs : RemovalOnly(q) /\ Matches(j, q) /\ jobs[j].status = "queued"}
RequestCancellation(q) ==
  {j \in Jobs : RemovalOnly(q) /\ Matches(j, q) /\ jobs[j].status = "running"}

\* planHostedWorkerCheckoutCleanup, emptyHostedWorkerCheckoutCleanupActions
DeleteActiveOfInstallation(q) ==  \* mutant: a repository's removal deletes the installation's
  {c \in Checkouts : /\ RemovalOnly(q) /\ Of[c].installation = q.installation
                     /\ checkouts[c] \in {"active", "deletion_pending"}}
DeleteCheckouts(q) ==
  {c \in Checkouts : /\ RemovalOnly(q) /\ Matches(c, q)
                     /\ checkouts[c] \in {"active", "deletion_pending"}}

-----------------------------------------------------------------------------
(* The host.                                                               *)

SaveReport(r) ==
  /\ reports[r].state = "absent"
  /\ \E created \in {today, Unreadable}, days \in TeamDays \cup {Unset},
        expires \in {Unset, Unreadable, today + 1} :
       /\ created = Unreadable => days = Unset  \* no days are counted from it
       /\ reports' = [reports EXCEPT ![r] = [state |-> "kept", createdAt |-> created,
                                             retentionDays |-> days, expiresAt |-> expires]]
  /\ last' = Unset
  /\ UNCHANGED <<today, jobs, checkouts, removed, sweptOn>>

JobStepRequeued ==  \* mutant: a cancelled job gets a status of its own
  {<<"absent", "queued">>, <<"queued", "running">>, <<"cancelled", "requeued">>}
JobStep == {<<"absent", "queued">>, <<"queued", "running">>,
            <<"running", "completed">>, <<"running", "failed">>, <<"running", "cancelled">>}
MoveJob(j) ==
  /\ \E s \in JobStep :
       /\ jobs[j].status = s[1]
       /\ s[2] = "cancelled" => jobs[j].cancelAsked
       /\ jobs' = [jobs EXCEPT ![j].status = s[2]]
  /\ last' = Unset
  /\ UNCHANGED <<today, reports, checkouts, removed, sweptOn>>

MoveCheckout(c) ==
  /\ \E s \in {<<"absent", "active">>, <<"active", "deleted">>, <<"deletion_pending", "deleted">>} :
       checkouts[c] = s[1] /\ checkouts' = [checkouts EXCEPT ![c] = s[2]]
  /\ last' = Unset
  /\ UNCHANGED <<today, reports, jobs, removed, sweptOn>>

NextDay ==
  /\ today < LastDay
  /\ today' = today + 1
  /\ last' = Unset
  /\ UNCHANGED <<reports, jobs, checkouts, removed, sweptOn>>

\* What a removal request removes; without a repository it names none.
RemovedBy(q) == [installation |-> q.installation,
                 repository |-> IF ScopeIsInstallation(q) THEN Unset ELSE q.repository,
                 whole |-> ScopeIsInstallation(q)]

\* The host carries out planHostedRetentionAndDeletionCleanup(q) at once.
CleanUp(q) ==
  /\ reports' = [r \in ReportIds |->
       IF r \in DeleteReports(q, today) THEN [reports[r] EXCEPT !.state = "deleted"] ELSE reports[r]]
  /\ jobs' = [j \in Jobs |->
       IF j \in CancelQueued(q) THEN [jobs[j] EXCEPT !.status = "cancelled"]
       ELSE IF j \in RequestCancellation(q) THEN [jobs[j] EXCEPT !.cancelAsked = TRUE] ELSE jobs[j]]
  /\ checkouts' = [c \in Checkouts |->
       IF c \in DeleteCheckouts(q) THEN "deletion_pending" ELSE checkouts[c]]
  /\ removed' = IF RemovalOnly(q) THEN removed \cup {RemovedBy(q)} ELSE removed
  /\ sweptOn' = IF ~ RemovalOnly(q) /\ ScopeIsInstallation(q)
                THEN [sweptOn EXCEPT ![q.installation] = today] ELSE sweptOn
  /\ last' = IF RemovalOnly(q) THEN q ELSE Unset
  /\ UNCHANGED today

RetentionNext ==
  \/ \E r \in ReportIds : SaveReport(r)
  \/ \E j \in Jobs : MoveJob(j)
  \/ \E c \in Checkouts : MoveCheckout(c)
  \/ NextDay
  \/ \E q \in CleanupRequests : CleanUp(q)

RetentionSpec == RetentionInit /\ [][RetentionNext]_retentionVars

-----------------------------------------------------------------------------
(* Properties.                                                             *)

\* The records the planner reads and the requests it gets are those of its interfaces.
RetentionTypeOK ==
  /\ today \in Nat
  /\ reports \in [ReportIds -> Reports]
  /\ jobs \in [Jobs -> JobRecords]
  /\ checkouts \in [Checkouts -> CheckoutStatuses]
  /\ removed \subseteq Scopes
  /\ sweptOn \in [Installations -> Int]
  /\ last \in CleanupRequests \cup {Unset}

\* The repository of x was removed, or the app uninstalled from its installation.
Within(x, s) ==
  s.installation = Of[x].installation /\ (s.whole \/ s.repository = Of[x].repository)
Removed(x) == \E s \in removed : Within(x, s)

\* Whatever the order of requests, jobs of an installation or repository nobody removed
\* are never cancelled nor asked to stop, and their checkouts never marked for deletion:
\* neither a neighbour's removal nor the retention of reports reaches them.
OnlyRemovedScopesLoseWork ==
  /\ \A j \in Jobs : jobs[j].status = "cancelled" \/ jobs[j].cancelAsked => Removed(j)
  /\ \A c \in Checkouts : checkouts[c] = "deletion_pending" => Removed(c)

\* After an installation's retention run no report of it is kept that was created
\* RetentionDays or more before the run, however long the team asked to keep it (a report
\* with an expiry of its own, or a date nobody can read, is not covered).
KeptReportsAreWithinRetention ==
  \A r \in ReportIds :
    LET report == reports[r] IN
    report.state = "kept" /\ report.expiresAt = Unset /\ report.createdAt # Unreadable =>
      report.createdAt + RetentionDays > sweptOn[Of[r].installation]

\* A report goes either with its repository or installation, or when it is a day old at
\* least and, where it has an expiry or no days of its own, not before that expiry or the
\* hosted default.
NoReportIsDeletedEarly ==
  [][\A r \in ReportIds :
       LET report == reports[r] IN
       report.state = "kept" /\ reports'[r].state = "deleted" =>
         \/ Removed(r)'
         \/ report.expiresAt \notin {Unset, Unreadable} /\ report.expiresAt <= today
         \/ /\ report.expiresAt = Unset /\ report.createdAt # Unreadable /\ report.createdAt < today
            /\ report.retentionDays = Unset => report.createdAt + RetentionDays <= today]_retentionVars

\* Once a removal is carried out nothing of its scope is left to delete or to cancel: no
\* report, no queued job, no running job not asked to stop, no checkout not marked.
RemovalIsComplete ==
  last # Unset =>
    \A x \in Items : Within(x, RemovedBy(last)) =>
      /\ x \in ReportIds => reports[x].state # "kept"
      /\ x \in Jobs => jobs[x].status # "queued" /\ (jobs[x].status = "running" => jobs[x].cancelAsked)
      /\ x \in Checkouts => checkouts[x] # "active"
=============================================================================
