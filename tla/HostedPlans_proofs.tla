-------------------------- MODULE HostedPlans_proofs --------------------------
(***************************************************************************)
(* What holds of the retention plans and of the release gates for every    *)
(* set of reports, jobs, requests, requirements and rehearsals, and every  *)
(* retention and age.                                                      *)
(***************************************************************************)
EXTENDS RetentionPlans, ReleaseGates, TLAPS

-----------------------------------------------------------------------------
(* Retention.                                                              *)

\* A team's days count from one up to the hosted default.
LEMMA RetentionBounds ==
  ASSUME NEW days \in TeamDays \cup {Unset}
  PROVE  RetentionOf(days) \in 1..RetentionDays /\ (days = Unset => RetentionOf(days) = RetentionDays)
BY RetentionAssumption DEF RetentionOf, Least, Greatest

\* What a request matches is within what it removes, and the other way round.
LEMMA MatchesIsWithin ==
  ASSUME NEW x \in Items, NEW q \in CleanupRequests
  PROVE  Matches(x, q) <=> Within(x, RemovedBy(q))
<1>1. q \in AllRequests /\ Of[x] \in Identities
  BY RetentionAssumption
<1>2. Of[x].repository # Unset
  BY <1>1, RetentionAssumption DEF Identities
<1> QED BY <1>1, <1>2 DEF Matches, Within, RemovedBy

LEMMA RemovedByIs ==
  ASSUME NEW q \in CleanupRequests PROVE RemovedBy(q) \in Scopes
<1>1. q \in AllRequests
  BY RetentionAssumption
<1>2. ScopeIsInstallation(q) \in BOOLEAN
  BY DEF ScopeIsInstallation
<1> QED BY <1>1, <1>2 DEF RemovedBy, Scopes, AllRequests

\* One step per action.
LEMMA SaveReportType ==
  ASSUME RetentionTypeOK, NEW r \in ReportIds, SaveReport(r) PROVE RetentionTypeOK'
<1>1. PICK created \in {today, Unreadable}, days \in TeamDays \cup {Unset},
           expires \in {Unset, Unreadable, today + 1} :
        reports' = [reports EXCEPT ![r] = [state |-> "kept", createdAt |-> created,
                                           retentionDays |-> days, expiresAt |-> expires]]
  BY DEF SaveReport
<1>2. [state |-> "kept", createdAt |-> created, retentionDays |-> days, expiresAt |-> expires] \in Reports
  BY DEF Reports, Dates, RetentionTypeOK
<1> QED BY <1>1, <1>2 DEF SaveReport, RetentionTypeOK

LEMMA MoveJobType ==
  ASSUME RetentionTypeOK, NEW j \in Jobs, MoveJob(j) PROVE RetentionTypeOK'
<1>1. PICK s \in JobStep : jobs' = [jobs EXCEPT ![j].status = s[2]]
  BY DEF MoveJob
<1>2. s[2] \in JobStatuses
  BY DEF JobStep, JobStatuses
<1>3. jobs' \in [Jobs -> JobRecords]
  BY <1>1, <1>2 DEF JobRecords, RetentionTypeOK
<1> QED BY <1>3 DEF MoveJob, RetentionTypeOK

LEMMA MoveCheckoutType ==
  ASSUME RetentionTypeOK, NEW c \in Checkouts, MoveCheckout(c) PROVE RetentionTypeOK'
BY DEF MoveCheckout, RetentionTypeOK, CheckoutStatuses

LEMMA CleanUpType ==
  ASSUME RetentionTypeOK, NEW q \in CleanupRequests, CleanUp(q) PROVE RetentionTypeOK'
<1>1. reports' \in [ReportIds -> Reports]
  <2>1. \A r \in ReportIds : [reports[r] EXCEPT !.state = "deleted"] \in Reports /\ reports[r] \in Reports
    BY DEF RetentionTypeOK, Reports
  <2> QED BY <2>1 DEF CleanUp
<1>2. jobs' \in [Jobs -> JobRecords]
  <2>1. \A j \in Jobs : /\ [jobs[j] EXCEPT !.status = "cancelled"] \in JobRecords
                        /\ [jobs[j] EXCEPT !.cancelAsked = TRUE] \in JobRecords /\ jobs[j] \in JobRecords
    BY DEF RetentionTypeOK, JobRecords, JobStatuses
  <2> QED BY <2>1 DEF CleanUp
<1>3. checkouts' \in [Checkouts -> CheckoutStatuses]
  BY DEF CleanUp, RetentionTypeOK, CheckoutStatuses
<1>4. removed' \subseteq Scopes
  BY RemovedByIs DEF CleanUp, RetentionTypeOK
<1>5. sweptOn' \in [Installations -> Int]
  <2>1. sweptOn' \in {sweptOn, [sweptOn EXCEPT ![q.installation] = today]}
    BY DEF CleanUp
  <2> QED BY <2>1 DEF RetentionTypeOK
<1>6. last' \in CleanupRequests \cup {Unset} /\ today' \in Nat
  BY DEF CleanUp, RetentionTypeOK
<1> QED BY <1>1, <1>2, <1>3, <1>4, <1>5, <1>6 DEF RetentionTypeOK

LEMMA RetentionTypeStep == RetentionTypeOK /\ [RetentionNext]_retentionVars => RetentionTypeOK'
<1> SUFFICES ASSUME RetentionTypeOK, [RetentionNext]_retentionVars PROVE RetentionTypeOK'
  OBVIOUS
<1>1. CASE NextDay
  BY <1>1 DEF NextDay, RetentionTypeOK
<1>2. CASE UNCHANGED retentionVars
  BY <1>2 DEF retentionVars, RetentionTypeOK
<1> QED BY <1>1, <1>2, SaveReportType, MoveJobType, MoveCheckoutType, CleanUpType DEF RetentionNext

\* Records, removals and requests keep their shape.
THEOREM RetentionTypeCorrect == RetentionSpec => []RetentionTypeOK
<1>1. RetentionInit => RetentionTypeOK
  BY DEF RetentionInit, RetentionTypeOK, Reports, Dates, JobRecords, JobStatuses, CheckoutStatuses
<1> QED BY <1>1, RetentionTypeStep, PTL DEF RetentionSpec

\* No step but a cleanup removes anything, and removals are never taken back.
LEMMA RemovedGrows ==
  ASSUME [RetentionNext]_retentionVars PROVE removed \subseteq removed'
BY DEF RetentionNext, retentionVars, SaveReport, MoveJob, MoveCheckout, NextDay, CleanUp

LEMMA WorkStep == RetentionTypeOK /\ OnlyRemovedScopesLoseWork /\ [RetentionNext]_retentionVars
                    => OnlyRemovedScopesLoseWork'
<1> SUFFICES ASSUME RetentionTypeOK, OnlyRemovedScopesLoseWork, [RetentionNext]_retentionVars
             PROVE  OnlyRemovedScopesLoseWork'
  OBVIOUS
<1>1. \A x \in Items : Removed(x) => Removed(x)'
  BY RemovedGrows DEF Removed, Within
<1>2. CASE UNCHANGED <<jobs, checkouts>>
  BY <1>1, <1>2 DEF OnlyRemovedScopesLoseWork, Items
<1>3. ASSUME NEW j \in Jobs, MoveJob(j) PROVE OnlyRemovedScopesLoseWork'
  <2>1. PICK s \in JobStep : /\ s[2] = "cancelled" => jobs[j].cancelAsked
                             /\ jobs' = [jobs EXCEPT ![j].status = s[2]]
    BY <1>3 DEF MoveJob
  <2>2. UNCHANGED checkouts
    BY <1>3 DEF MoveJob
  <2>3. jobs \in [Jobs -> JobRecords]
    BY DEF RetentionTypeOK
  <2>4. ASSUME NEW k \in Jobs, jobs'[k].status = "cancelled" \/ jobs'[k].cancelAsked
        PROVE  jobs[k].status = "cancelled" \/ jobs[k].cancelAsked
    BY <2>1, <2>3, <2>4 DEF JobRecords
  <2> QED BY <1>1, <2>2, <2>4 DEF OnlyRemovedScopesLoseWork, Items
<1>4. ASSUME NEW c \in Checkouts, MoveCheckout(c) PROVE OnlyRemovedScopesLoseWork'
  <2>1. \A d \in Checkouts : checkouts'[d] = "deletion_pending" => checkouts[d] = "deletion_pending"
    BY <1>4 DEF MoveCheckout, RetentionTypeOK
  <2>2. UNCHANGED jobs
    BY <1>4 DEF MoveCheckout
  <2> QED BY <1>1, <2>1, <2>2 DEF OnlyRemovedScopesLoseWork, Items
<1>5. ASSUME NEW q \in CleanupRequests, CleanUp(q) PROVE OnlyRemovedScopesLoseWork'
  <2>1. ASSUME NEW x \in Items, Matches(x, q), RemovalOnly(q) PROVE Removed(x)'
    <3>1. RemovedBy(q) \in removed'
      BY <1>5, <2>1 DEF CleanUp
    <3>2. Within(x, RemovedBy(q))
      BY <2>1, MatchesIsWithin
    <3> QED BY <3>1, <3>2 DEF Removed, Within
  <2>2. ASSUME NEW j \in Jobs, jobs'[j].status = "cancelled" \/ jobs'[j].cancelAsked
        PROVE  Removed(j)'
    <3>1. j \in Items /\ jobs[j] \in JobRecords
      BY DEF Items, RetentionTypeOK
    <3>2. CASE j \in CancelQueued(q) \cup RequestCancellation(q)
      BY <2>1, <3>1, <3>2 DEF CancelQueued, RequestCancellation
    <3>3. CASE j \notin CancelQueued(q) \cup RequestCancellation(q)
      <4>1. jobs'[j] = jobs[j]
        BY <1>5, <3>3 DEF CleanUp
      <4>2. jobs[j].status = "cancelled" \/ jobs[j].cancelAsked
        BY <2>2, <4>1
      <4> QED BY <1>1, <3>1, <4>2 DEF OnlyRemovedScopesLoseWork
    <3> QED BY <3>2, <3>3
  <2>3. ASSUME NEW c \in Checkouts, checkouts'[c] = "deletion_pending" PROVE Removed(c)'
    <3>1. c \in Items
      BY DEF Items
    <3>2. c \in DeleteCheckouts(q) \/ checkouts[c] = "deletion_pending"
      BY <1>5, <2>3 DEF CleanUp
    <3> QED BY <1>1, <2>1, <3>1, <3>2 DEF OnlyRemovedScopesLoseWork, DeleteCheckouts
  <2> QED BY <2>2, <2>3 DEF OnlyRemovedScopesLoseWork
<1>6. CASE NextDay \/ (\E r \in ReportIds : SaveReport(r)) \/ UNCHANGED retentionVars
  BY <1>2, <1>6 DEF NextDay, SaveReport, retentionVars
<1> QED BY <1>3, <1>4, <1>5, <1>6 DEF RetentionNext

\* Work is lost only in scopes somebody removed.
THEOREM WorkIsLostToRemovalsOnly == RetentionSpec => []OnlyRemovedScopesLoseWork
<1>1. RetentionInit => OnlyRemovedScopesLoseWork
  BY DEF RetentionInit, OnlyRemovedScopesLoseWork
<1> QED BY <1>1, WorkStep, RetentionTypeCorrect, PTL DEF RetentionSpec

\* What a cleanup deletes.
LEMMA CleanUpDeletes ==
  ASSUME RetentionTypeOK, NEW q \in CleanupRequests, CleanUp(q), NEW r \in ReportIds
  PROVE  IF r \in DeleteReports(q, today)
         THEN reports'[r].state = "deleted"
         ELSE reports'[r] = reports[r]
<1>1. reports[r] \in Reports
  BY DEF RetentionTypeOK
<1>2. [reports[r] EXCEPT !.state = "deleted"].state = "deleted"
  BY <1>1 DEF Reports
<1> QED BY <1>2 DEF CleanUp

\* A day of the past is not after the current one.
SweptInThePast == \A i \in Installations : sweptOn[i] <= today

KeptInv == SweptInThePast /\ KeptReportsAreWithinRetention

LEMMA KeptStep == RetentionTypeOK /\ KeptInv /\ [RetentionNext]_retentionVars => KeptInv'
<1> SUFFICES ASSUME RetentionTypeOK, KeptInv, [RetentionNext]_retentionVars PROVE KeptInv'
  OBVIOUS
<1> USE DEF KeptInv, SweptInThePast, KeptReportsAreWithinRetention
<1>0. /\ today \in Nat /\ sweptOn \in [Installations -> Int] /\ reports \in [ReportIds -> Reports]
      /\ RetentionDays \in Nat \ {0}
      /\ \A r \in ReportIds : Of[r].installation \in Installations
  BY RetentionAssumption DEF RetentionTypeOK, Items, Identities
<1>1. CASE UNCHANGED <<reports, sweptOn>> /\ (today' = today \/ today' = today + 1)
  BY <1>0, <1>1
<1>2. ASSUME NEW r \in ReportIds, SaveReport(r) PROVE KeptInv'
  <2>1. PICK created \in {today, Unreadable}, days \in TeamDays \cup {Unset},
             expires \in {Unset, Unreadable, today + 1} :
          reports' = [reports EXCEPT ![r] = [state |-> "kept", createdAt |-> created,
                                             retentionDays |-> days, expiresAt |-> expires]]
    BY <1>2 DEF SaveReport
  <2>2. UNCHANGED <<today, sweptOn>>
    BY <1>2 DEF SaveReport
  <2>3. reports'[r].createdAt = created /\ \A o \in ReportIds : o # r => reports'[o] = reports[o]
    BY <1>0, <2>1
  <2>4. created # Unreadable => created + RetentionDays > sweptOn[Of[r].installation]
    BY <1>0
  <2> QED BY <2>2, <2>3, <2>4
<1>3. ASSUME NEW q \in CleanupRequests, CleanUp(q) PROVE KeptInv'
  <2>1. today' = today /\ \A r \in ReportIds : reports'[r].state = "kept" =>
          reports'[r] = reports[r] /\ r \notin DeleteReports(q, today)
    BY <1>3, CleanUpDeletes DEF CleanUp
  <2>2. CASE RemovalOnly(q) \/ ~ ScopeIsInstallation(q)
    <3>1. sweptOn' = sweptOn
      BY <1>3, <2>2 DEF CleanUp
    <3> QED BY <2>1, <3>1
  <2>3. CASE ~ RemovalOnly(q) /\ ScopeIsInstallation(q)
    <3>1. sweptOn' = [sweptOn EXCEPT ![q.installation] = today]
      BY <1>3, <2>3 DEF CleanUp
    <3>2. q.installation \in Installations
      BY RetentionAssumption DEF AllRequests
    <3>3. SweptInThePast'
      BY <1>0, <2>1, <3>1, <3>2
    <3>4. ASSUME NEW r \in ReportIds, reports'[r].state = "kept", reports'[r].expiresAt = Unset,
                 reports'[r].createdAt # Unreadable
          PROVE  reports'[r].createdAt + RetentionDays > sweptOn'[Of[r].installation]
      <4>1. /\ reports'[r] = reports[r] /\ r \notin DeleteReports(q, today)
            /\ reports[r].state = "kept" /\ reports[r].createdAt + RetentionDays > sweptOn[Of[r].installation]
        BY <2>1, <3>4
      <4>2. CASE Of[r].installation # q.installation
        BY <1>0, <3>1, <4>1, <4>2
      <4>3. CASE Of[r].installation = q.installation
        <5>1. ~ Expired(reports[r], today)
          BY <2>3, <4>1, <4>3 DEF DeleteReports, Matches
        <5>2. /\ reports[r].createdAt \in Nat /\ reports[r].retentionDays \in TeamDays \cup {Unset}
              /\ RetentionOf(reports[r].retentionDays) \in 1..RetentionDays
          BY <1>0, <3>4, <4>1, RetentionBounds DEF Reports, Dates
        <5>3. reports[r].createdAt + RetentionOf(reports[r].retentionDays) > today
          BY <1>0, <3>4, <4>1, <5>1, <5>2 DEF Expired
        <5> QED BY <1>0, <3>1, <3>2, <4>1, <4>3, <5>2, <5>3
      <4> QED BY <4>2, <4>3
    <3> QED BY <3>3, <3>4
  <2> QED BY <2>2, <2>3
<1>4. CASE NextDay
  BY <1>1, <1>4 DEF NextDay
<1>5. CASE (\E j \in Jobs : MoveJob(j)) \/ (\E c \in Checkouts : MoveCheckout(c)) \/ UNCHANGED retentionVars
  BY <1>1, <1>5 DEF MoveJob, MoveCheckout, retentionVars
<1> QED BY <1>2, <1>3, <1>4, <1>5 DEF RetentionNext

\* A retention run leaves no report that is past the hosted default.
THEOREM RetentionIsKept == RetentionSpec => []KeptReportsAreWithinRetention
<1>1. RetentionInit => KeptInv
  BY DEF RetentionInit, KeptInv, SweptInThePast, KeptReportsAreWithinRetention
<1>2. KeptInv => KeptReportsAreWithinRetention
  BY DEF KeptInv
<1> QED BY <1>1, <1>2, KeptStep, RetentionTypeCorrect, PTL DEF RetentionSpec

LEMMA DeletionStep ==
  ASSUME RetentionTypeOK, [RetentionNext]_retentionVars, NEW r \in ReportIds,
         reports[r].state = "kept", reports'[r].state = "deleted"
  PROVE  \/ Removed(r)'
         \/ reports[r].expiresAt \notin {Unset, Unreadable} /\ reports[r].expiresAt <= today
         \/ /\ reports[r].expiresAt = Unset /\ reports[r].createdAt # Unreadable
            /\ reports[r].createdAt < today
            /\ reports[r].retentionDays = Unset => reports[r].createdAt + RetentionDays <= today
<1>0. reports \in [ReportIds -> Reports] /\ today \in Nat
  BY DEF RetentionTypeOK
<1>1. PICK q \in CleanupRequests : CleanUp(q)
  <2>1. reports' # reports
    OBVIOUS
  <2>2. ASSUME NEW s \in ReportIds, SaveReport(s) PROVE FALSE
    <3>1. PICK new : reports' = [reports EXCEPT ![s] = new] /\ new.state = "kept"
      BY <2>2 DEF SaveReport
    <3> QED BY <1>0, <3>1
  <2> QED BY <2>1, <2>2 DEF RetentionNext, retentionVars, MoveJob, MoveCheckout, NextDay
<1>2. r \in DeleteReports(q, today)
  BY <1>1, CleanUpDeletes
<1>3. CASE RemovalOnly(q)
  <2>1. RemovedBy(q) \in removed' /\ Within(r, RemovedBy(q))
    BY <1>1, <1>2, <1>3, MatchesIsWithin DEF CleanUp, DeleteReports, Items
  <2> QED BY <2>1 DEF Removed, Within
<1>4. CASE ~ RemovalOnly(q)
  <2>1. Expired(reports[r], today)
    BY <1>2, <1>4 DEF DeleteReports
  <2>2. /\ reports[r].createdAt \in Nat \cup {Unreadable}
        /\ reports[r].retentionDays \in TeamDays \cup {Unset}
        /\ RetentionOf(reports[r].retentionDays) \in 1..RetentionDays
        /\ reports[r].retentionDays = Unset => RetentionOf(reports[r].retentionDays) = RetentionDays
    BY <1>0, RetentionBounds DEF Reports, Dates
  <2> QED BY <1>0, <2>1, <2>2, RetentionAssumption DEF Expired
<1> QED BY <1>3, <1>4

\* A report goes with its scope, or when it is due.
THEOREM NoReportGoesEarly == RetentionSpec => NoReportIsDeletedEarly
<1>1. RetentionTypeOK /\ [RetentionNext]_retentionVars =>
        [\A r \in ReportIds :
           LET report == reports[r] IN
           report.state = "kept" /\ reports'[r].state = "deleted" =>
             \/ Removed(r)'
             \/ report.expiresAt \notin {Unset, Unreadable} /\ report.expiresAt <= today
             \/ /\ report.expiresAt = Unset /\ report.createdAt # Unreadable /\ report.createdAt < today
                /\ report.retentionDays = Unset => report.createdAt + RetentionDays <= today]_retentionVars
  BY DeletionStep
<1> QED BY <1>1, RetentionTypeCorrect, PTL DEF RetentionSpec, NoReportIsDeletedEarly

LEMMA RemovalStep ==
  RetentionTypeOK /\ RemovalIsComplete /\ [RetentionNext]_retentionVars => RemovalIsComplete'
<1> SUFFICES ASSUME RetentionTypeOK, RemovalIsComplete, [RetentionNext]_retentionVars, last' # Unset,
                    NEW x \in Items, Within(x, RemovedBy(last'))
             PROVE  /\ x \in ReportIds => reports'[x].state # "kept"
                    /\ x \in Jobs => /\ jobs'[x].status # "queued"
                                     /\ jobs'[x].status = "running" => jobs'[x].cancelAsked
                    /\ x \in Checkouts => checkouts'[x] # "active"
  BY DEF RemovalIsComplete, Within, RemovedBy, ScopeIsInstallation
<1>1. CASE UNCHANGED retentionVars
  BY <1>1 DEF retentionVars, RemovalIsComplete
<1>2. CASE ~ UNCHANGED retentionVars
  <2>1. PICK q \in CleanupRequests : CleanUp(q)
    BY <1>2 DEF RetentionNext, SaveReport, MoveJob, MoveCheckout, NextDay
  <2>2. last' = q /\ RemovalOnly(q) /\ Matches(x, q)
    BY <2>1, MatchesIsWithin DEF CleanUp
  <2>3. ASSUME x \in ReportIds PROVE reports'[x].state # "kept"
    <3>1. CASE x \in DeleteReports(q, today)
      BY <2>1, <2>3, <3>1, CleanUpDeletes
    <3>2. CASE x \notin DeleteReports(q, today)
      BY <2>1, <2>2, <2>3, <3>2, CleanUpDeletes DEF DeleteReports
    <3> QED BY <3>1, <3>2
  <2>4. ASSUME x \in Jobs
        PROVE  jobs'[x].status # "queued" /\ (jobs'[x].status = "running" => jobs'[x].cancelAsked)
    <3>1. jobs[x] \in JobRecords
      BY <2>4 DEF RetentionTypeOK
    <3>2. CASE jobs[x].status = "queued"
      <4>1. jobs'[x] = [jobs[x] EXCEPT !.status = "cancelled"]
        BY <2>1, <2>2, <2>4, <3>2 DEF CleanUp, CancelQueued
      <4>2. jobs'[x].status = "cancelled"
        BY <3>1, <4>1 DEF JobRecords
      <4> QED BY <4>2
    <3>3. CASE jobs[x].status = "running"
      <4>1. jobs'[x] = [jobs[x] EXCEPT !.cancelAsked = TRUE]
        BY <2>1, <2>2, <2>4, <3>3 DEF CleanUp, CancelQueued, RequestCancellation
      <4>2. jobs'[x].status = "running" /\ jobs'[x].cancelAsked
        BY <3>1, <3>3, <4>1 DEF JobRecords
      <4> QED BY <4>2
    <3>4. CASE jobs[x].status \notin {"queued", "running"}
      BY <2>1, <2>4, <3>4 DEF CleanUp, CancelQueued, RequestCancellation
    <3> QED BY <3>2, <3>3, <3>4
  <2>5. ASSUME x \in Checkouts PROVE checkouts'[x] # "active"
    BY <2>1, <2>2, <2>5 DEF CleanUp, DeleteCheckouts
  <2> QED BY <2>3, <2>4, <2>5
<1> QED BY <1>1, <1>2

\* A removal that was carried out left nothing of its scope.
THEOREM RemovalCompletes == RetentionSpec => []RemovalIsComplete
<1>1. RetentionInit => RemovalIsComplete
  BY DEF RetentionInit, RemovalIsComplete
<1> QED BY <1>1, RemovalStep, RetentionTypeCorrect, PTL DEF RetentionSpec

-----------------------------------------------------------------------------
(* The release gate.                                                       *)

\* What a row has to be for the gate to count it as passed.
LEMMA VerdictPasses ==
  ASSUME NEW row \in Rows \cup {NoRow}, NEW at, Verdict(row, at) = "passed"
  PROVE  row \in Rows /\ row # NoRow /\ row.status = "passed" /\ Fresh(row, at)
<1>1. row # NoRow
  <2> SUFFICES ASSUME row = NoRow PROVE Verdict(row, at) = "missing"
    OBVIOUS
  <2> QED BY DEF Verdict
<1>2. row \in Rows
  BY <1>1
<1>3. row.status # "missing" /\ row.reference
  <2> SUFFICES ASSUME row.status = "missing" \/ ~ row.reference PROVE Verdict(row, at) = "missing"
    OBVIOUS
  <2> QED BY <1>1 DEF Verdict
<1>4. row.status \notin {"failed", "exception"}
  <2> SUFFICES ASSUME row.status \in {"failed", "exception"} PROVE Verdict(row, at) = row.status
    OBVIOUS
  <2> QED BY <1>1, <1>3 DEF Verdict
<1>5. row.status = "passed"
  BY <1>2, <1>3, <1>4 DEF Rows, RowStatuses
<1>6. Fresh(row, at)
  <2>1. Verdict(row, at) = IF Fresh(row, at) THEN "passed" ELSE "stale"
    BY <1>1, <1>3, <1>5 DEF Verdict
  <2> QED BY <2>1
<1> QED BY <1>1, <1>2, <1>5, <1>6

\* The row a bundle takes over from elsewhere.
LEMMA ExternalIs ==
  ASSUME NEW row \in Rows \cup {NoRow}, NEW at \in Nat
  PROVE  /\ External(row, at) \in Rows
         /\ External(row, at).status = "passed" =>
              /\ row # NoRow /\ row.status = "passed"
              /\ External(row, at).at = IF row.at = Undated THEN at ELSE row.at
<1>1. CASE row = NoRow
  BY <1>1 DEF External, Missing, Rows, RowStatuses
<1>2. CASE row # NoRow
  <2>1. row \in Rows /\ External(row, at) = Sanitize(row, at)
    BY <1>2 DEF External
  <2>2. Sanitize(row, at) = [status |-> row.status, reference |-> TRUE,
                             at |-> IF row.at = Undated THEN at ELSE row.at]
    BY <2>1 DEF Sanitize, Rows
  <2>3. Sanitize(row, at) \in Rows
    BY <2>1, <2>2 DEF Rows
  <2> QED BY <1>2, <2>1, <2>2, <2>3
<1> QED BY <1>1, <1>2

LEMMA ShownIs ==
  ASSUME NEW at \in Nat, NEW proved \in BOOLEAN
  PROVE  /\ Shown(proved, at) \in Rows
         /\ Shown(proved, at).status = "passed" => proved
BY DEF Shown, Passed, Missing, Rows, RowStatuses

\* What each kind of bundle makes of a requirement.
LEMMA BundleRows ==
  ASSUME NEW from \in Evidence, NEW r, NEW at \in Nat, NEW id \in Requirements
  PROVE  /\ LocalRow(id, from[id], r, at) \in Rows
         /\ DeployedRow(id, from[id], r, at) \in Rows
         /\ id \notin Generated => /\ LocalRow(id, from[id], r, at) = External(from[id], at)
                                   /\ DeployedRow(id, from[id], r, at) = External(from[id], at)
         /\ ~ DeployedProven(r) => DeployedRow(id, from[id], r, at) = External(from[id], at)
         /\ LocalRow("queue_worker_cleanup", from[id], r, at).status = "passed" =>
              CompletedProbe(r) /\ FailureProbe(r) /\ AllDeleted(r)
<1>1. External(from[id], at) \in Rows
  BY ExternalIs DEF Evidence
<1>2. \A proved \in BOOLEAN : Shown(proved, at) \in Rows /\ (Shown(proved, at).status = "passed" => proved)
  BY ShownIs
<1> DEFINE completed == CompletedProbe(r) /\ FailureProbe(r) /\ AllDeleted(r)
<1> DEFINE private == LogsAccepted(r) /\ r.privacySafe
<1>3. /\ LocalRow("queue_worker_cleanup", from[id], r, at) = Shown(completed, at)
      /\ LocalRow("privacy_retention", from[id], r, at) = Shown(private, at)
      /\ LocalRow("release_cleanup", from[id], r, at) = Shown(AllDeleted(r), at)
      /\ LocalRow("webhook_replay", from[id], r, at) = Shown(r.replay, at)
  BY DEF LocalRow
<1>4. completed \in BOOLEAN /\ private \in BOOLEAN /\ AllDeleted(r) \in BOOLEAN
  BY DEF AllDeleted
<1>5. Shown(r.replay, at) \in Rows
  BY DEF Shown, Passed, Missing, Rows, RowStatuses
<1>6. id \notin Generated => LocalRow(id, from[id], r, at) = External(from[id], at)
  BY DEF LocalRow, Generated
<1>7. LocalRow(id, from[id], r, at) \in Rows
  <2>1. CASE id \in Generated
    <3> HIDE DEF completed, private
    <3> QED BY <2>1, <1>2, <1>3, <1>4, <1>5 DEF Generated
  <2> QED BY <2>1, <1>1, <1>6
<1>8. /\ DeployedRow(id, from[id], r, at) \in Rows
      /\ id \notin Generated \/ ~ DeployedProven(r) => DeployedRow(id, from[id], r, at) = External(from[id], at)
  BY <1>1 DEF DeployedRow, Shown, Passed, Missing, Rows, RowStatuses
<1>9. LocalRow("queue_worker_cleanup", from[id], r, at).status = "passed" => completed
  <2> HIDE DEF completed
  <2> QED BY <1>2, <1>3, <1>4
<1> QED BY <1>6, <1>7, <1>8, <1>9

\* A bundle was made of recorded rows and a rehearsal, today or before.
Made(kind, from, r, at) == bundle = BundleOf(kind, from, r, at)
GatesInv ==
  /\ day \in Nat /\ recorded \in Nat
  /\ rows \in Evidence
  /\ bundle # NoBundle =>
       \E kind \in {"local", "deployed"}, from \in Evidence, r \in Rehearsals, at \in 0..day :
         Made(kind, from, r, at)

LEMMA GatesInitial == GatesInit => GatesInv
BY DEF GatesInit, GatesInv, Evidence

LEMMA GatesStep == GatesInv /\ [GatesNext]_gateVars => GatesInv'
<1> SUFFICES ASSUME GatesInv, [GatesNext]_gateVars PROVE GatesInv'
  OBVIOUS
<1> USE DEF GatesInv
<1>1. ASSUME NEW id \in Requirements, Record(id) PROVE GatesInv'
  <2>1. PICK kind \in RowKinds :
          rows' = [rows EXCEPT ![id] =
                     [kind EXCEPT !.at = IF kind.at = Undated THEN Undated ELSE day + kind.at]]
    BY <1>1 DEF Record
  <2>2. kind \in Rows
    BY GatesAssumption
  <2>3. [kind EXCEPT !.at = IF kind.at = Undated THEN Undated ELSE day + kind.at] \in Rows
    BY <2>2 DEF Rows
  <2>4. rows' \in Evidence
    BY <2>1, <2>3 DEF Evidence
  <2> QED BY <1>1, <2>4 DEF Record, Made
<1>2. CASE NextGateDay
  BY <1>2 DEF NextGateDay, Made
<1>3. ASSUME NEW kind \in {"local", "deployed"}, Collect(kind) PROVE GatesInv'
  <2>1. PICK r \in Rehearsals : bundle' = BundleOf(kind, rows, r, day)
    BY <1>3 DEF Collect
  <2>2. UNCHANGED <<day, rows, recorded>> /\ day \in 0..day'
    BY <1>3 DEF Collect
  <2> QED BY <2>1, <2>2 DEF Made
<1>4. CASE UNCHANGED gateVars
  BY <1>4 DEF gateVars, Made
<1> QED BY <1>1, <1>2, <1>3, <1>4 DEF GatesNext

LEMMA GatesAlways == GatesSpec => []GatesInv
<1> QED BY GatesInitial, GatesStep, PTL DEF GatesSpec

LEMMA BundleIs ==
  ASSUME GatesInv, NEW kind \in {"local", "deployed"}, NEW from \in Evidence, NEW r \in Rehearsals,
         NEW at \in 0..day, Made(kind, from, r, at)
  PROVE  /\ bundle.kind = kind /\ bundle.from = from /\ bundle.rehearsal = r /\ bundle.at = at
         /\ bundle.evidence \in [Requirements -> Rows]
         /\ \A id \in Requirements :
              /\ kind = "local" => bundle.evidence[id] = LocalRow(id, from[id], r, at)
              /\ kind = "deployed" => bundle.evidence[id] = DeployedRow(id, from[id], r, at)
<1>1. at \in Nat
  BY DEF GatesInv
<1>2. \A id \in Requirements : /\ LocalRow(id, from[id], r, at) \in Rows
                               /\ DeployedRow(id, from[id], r, at) \in Rows
  BY <1>1, BundleRows
<1> QED BY <1>2 DEF Made, BundleOf

\* Rows and bundles keep the shape of their interfaces.
THEOREM GatesTypeCorrect == GatesSpec => []GatesTypeOK
<1>1. GatesInv => GatesTypeOK
  BY BundleIs DEF GatesInv, GatesTypeOK
<1> QED BY <1>1, GatesAlways, PTL

\* The gate open: every row passed and is fresh.
LEMMA OpenIs ==
  ASSUME NEW evidence \in Evidence, NEW at, NEW req, GateOpen(evidence, at, req)
  PROVE  \A id \in Requirements : /\ evidence[id] \in Rows /\ evidence[id] # NoRow
                                  /\ evidence[id].status = "passed" /\ Fresh(evidence[id], at)
BY VerdictPasses DEF GateOpen, Evidence

LEMMA BundleOpenIs ==
  ASSUME NEW evidence \in [Requirements -> Rows], NEW at, NEW req, GateOpen(evidence, at, req)
  PROVE  \A id \in Requirements : evidence[id].status = "passed" /\ Fresh(evidence[id], at)
BY OpenIs DEF Evidence

\* Only foreign rows open the gate for a bundle that is not ready.
THEOREM UnreadyNeedsProof == GatesSpec => []UnreadyBundleNeedsForeignProof
<1>1. GatesInv => UnreadyBundleNeedsForeignProof
  <2> SUFFICES ASSUME GatesInv, bundle # NoBundle, GateOpen(bundle.evidence, day, {}),
                      ~ ReadyForReleaseGate(bundle)
               PROVE  /\ bundle.kind = "deployed"
                      /\ \A id \in Generated \cap Requirements :
                           bundle.from[id] # NoRow /\ bundle.from[id].status = "passed"
    BY DEF UnreadyBundleNeedsForeignProof
  <2>1. PICK kind \in {"local", "deployed"}, from \in Evidence, r \in Rehearsals, at \in 0..day :
          Made(kind, from, r, at)
    BY DEF GatesInv
  <2>2. /\ bundle.kind = kind /\ bundle.from = from /\ bundle.rehearsal = r /\ at \in Nat
        /\ bundle.evidence \in [Requirements -> Rows]
    BY <2>1, BundleIs DEF GatesInv
  <2>3. \A id \in Requirements : bundle.evidence[id].status = "passed"
    BY <2>2, BundleOpenIs
  <2>4. kind = "deployed" /\ ~ DeployedProven(r)
    BY <2>2, <2>3 DEF ReadyForReleaseGate
  <2>5. \A id \in Requirements : bundle.evidence[id] = External(from[id], at)
    BY <2>1, <2>2, <2>4, BundleIs, BundleRows
  <2>6. \A id \in Requirements : from[id] \in Rows \cup {NoRow}
    BY DEF Evidence
  <2> QED BY <2>2, <2>3, <2>4, <2>5, <2>6, ExternalIs
<1> QED BY <1>1, GatesAlways, PTL

\* A ready bundle had its rehearsal.
THEOREM ReadyWasRehearsed == GatesSpec => []ReadyBundleWasRehearsed
<1>1. GatesInv => ReadyBundleWasRehearsed
  <2> SUFFICES ASSUME GatesInv, bundle # NoBundle, ReadyForReleaseGate(bundle),
                      "queue_worker_cleanup" \in Requirements
               PROVE  LET seen == bundle.rehearsal.ticks IN
                      /\ \A t \in seen : t.clean
                      /\ \E t \in seen : t.status = "completed"
                      /\ \E t \in seen : t.status = "failed"
                      /\ \A reason \in RequiredReasons :
                           \E t \in seen : t.status = "failed" /\ t.reason = reason
    BY DEF ReadyBundleWasRehearsed
  <2>1. PICK kind \in {"local", "deployed"}, from \in Evidence, r \in Rehearsals, at \in 0..day :
          Made(kind, from, r, at)
    BY DEF GatesInv
  <2>2. bundle.kind = kind /\ bundle.rehearsal = r /\ at \in Nat
    BY <2>1, BundleIs DEF GatesInv
  <2>3. (CompletedProbe(r) \/ PublishedProbe(r)) /\ FailureProbe(r) /\ AllDeleted(r)
    <3>1. CASE kind = "deployed"
      BY <2>2, <3>1 DEF ReadyForReleaseGate, DeployedProven
    <3>2. CASE kind = "local"
      <4>1. bundle.evidence["queue_worker_cleanup"] =
              LocalRow("queue_worker_cleanup", from["queue_worker_cleanup"], r, at)
        BY <2>1, <3>2, BundleIs
      <4>2. bundle.evidence["queue_worker_cleanup"].status = "passed"
        BY DEF ReadyForReleaseGate
      <4> QED BY <2>2, <4>1, <4>2, BundleRows
    <3> QED BY <3>1, <3>2
  <2>4. \A t \in r.ticks : t.clean
    BY <2>3 DEF AllDeleted
  <2>5. \E t \in r.ticks : t.status = "completed"
    BY <2>3 DEF CompletedProbe, PublishedProbe
  <2>6. \A reason \in RequiredReasons : \E t \in r.ticks : t.status = "failed" /\ t.reason = reason
    BY <2>3 DEF FailureProbe, FailureReasons
  <2>7. \E t \in r.ticks : t.status = "failed"
    BY <2>3, <2>6 DEF FailureProbe
  <2> QED BY <2>2, <2>4, <2>5, <2>6, <2>7
<1> QED BY <1>1, GatesAlways, PTL

\* A bundle does not make the rows it takes over younger.
THEOREM CollectingKeepsAges == GatesSpec => []CollectingDoesNotRefreshEvidence
<1>1. GatesInv => CollectingDoesNotRefreshEvidence
  <2> SUFFICES ASSUME GatesInv, bundle # NoBundle, GateOpen(bundle.evidence, day, {})
               PROVE  /\ day - bundle.at <= MaxAge \/ \A id \in Requirements \ Generated :
                                                        bundle.from[id].at # Undated
                      /\ \A id \in Requirements \ Generated :
                           /\ bundle.from[id] # NoRow /\ bundle.from[id].status = "passed"
                           /\ bundle.from[id].at # Undated => day - bundle.from[id].at <= MaxAge
    BY DEF CollectingDoesNotRefreshEvidence
  <2>1. PICK kind \in {"local", "deployed"}, from \in Evidence, r \in Rehearsals, at \in 0..day :
          Made(kind, from, r, at)
    BY DEF GatesInv
  <2>2. /\ bundle.kind = kind /\ bundle.from = from /\ bundle.at = at /\ at \in Nat
        /\ bundle.evidence \in [Requirements -> Rows]
    BY <2>1, BundleIs DEF GatesInv
  <2>3. \A id \in Requirements : bundle.evidence[id].status = "passed" /\ Fresh(bundle.evidence[id], day)
    BY <2>2, BundleOpenIs
  <2>4. ASSUME NEW id \in Requirements \ Generated
        PROVE  /\ from[id] # NoRow /\ from[id].status = "passed"
               /\ from[id].at # Undated => day - from[id].at <= MaxAge
               /\ from[id].at = Undated => day - at <= MaxAge
    <3>1. bundle.evidence[id] = External(from[id], at)
      BY <2>1, <2>2, BundleIs, BundleRows
    <3>2. from[id] \in Rows \cup {NoRow}
      BY DEF Evidence
    <3>3. /\ from[id] # NoRow /\ from[id].status = "passed"
          /\ bundle.evidence[id].at = IF from[id].at = Undated THEN at ELSE from[id].at
      BY <2>2, <2>3, <3>1, <3>2, ExternalIs
    <3>4. day - bundle.evidence[id].at <= MaxAge
      BY <2>3 DEF Fresh
    <3> QED BY <3>3, <3>4
  <2> QED BY <2>2, <2>4
<1> QED BY <1>1, GatesAlways, PTL

\* A row that is fresh a day later is fresh today, unless it is dated tomorrow.
LEMMA FreshBefore ==
  ASSUME GatesInv, NEW row \in Rows, Fresh(row, day + 1)
  PROVE  row.at # Undated /\ (Fresh(row, day) \/ row.at > day)
BY GatesAssumption DEF GatesInv, Fresh, Rows

LEMMA PassesBefore ==
  ASSUME GatesInv, NEW evidence \in Evidence, GateOpen(evidence, day + 1, {}),
         \A id \in Requirements : ~ (evidence[id] # NoRow /\ evidence[id].at # Undated /\ evidence[id].at > day)
  PROVE  GateOpen(evidence, day, {})
<1>1. \A id \in Requirements : /\ evidence[id] \in Rows /\ evidence[id] # NoRow
                               /\ Fresh(evidence[id], day + 1)
  BY OpenIs
<1>2. ASSUME NEW id \in Requirements PROVE Verdict(evidence[id], day) = "passed"
  <2>1. Fresh(evidence[id], day)
    BY <1>1, FreshBefore
  <2>2. Verdict(evidence[id], day) = Verdict(evidence[id], day + 1)
    BY <1>1, <2>1 DEF Verdict
  <2> QED BY <2>2 DEF GateOpen
<1> QED BY <1>2 DEF GateOpen

\* Time alone opens no gate.
THEOREM TimeCloses == GatesSpec => TimeOnlyCloses
<1>1. ASSUME GatesInv, [GatesNext]_gateVars, day' # day
      PROVE  /\ GateOpen(rows, day', {}) => GateOpen(rows, day, {})
                  \/ \E id \in Requirements : rows[id] # NoRow /\ rows[id].at # Undated /\ rows[id].at > day
             /\ bundle # NoBundle /\ GateOpen(bundle.evidence, day', {}) =>
                  GateOpen(bundle.evidence, day, {})
                  \/ \E id \in Requirements : bundle.evidence[id].at > day
  <2>1. day' = day + 1
    BY <1>1 DEF GatesNext, Record, Collect, NextGateDay, gateVars
  <2>2. rows \in Evidence
    BY <1>1 DEF GatesInv
  <2>3. bundle # NoBundle => bundle.evidence \in Evidence
    BY <1>1, BundleIs DEF GatesInv, Evidence
  <2> QED BY <1>1, <2>1, <2>2, <2>3, PassesBefore
<1>2. GatesInv /\ [GatesNext]_gateVars =>
        [day' # day =>
           /\ GateOpen(rows, day', {}) => GateOpen(rows, day, {})
                \/ \E id \in Requirements : rows[id] # NoRow /\ rows[id].at # Undated /\ rows[id].at > day
           /\ bundle # NoBundle /\ GateOpen(bundle.evidence, day', {}) =>
                GateOpen(bundle.evidence, day, {})
                \/ \E id \in Requirements : bundle.evidence[id].at > day]_gateVars
  BY <1>1
<1> QED BY <1>2, GatesAlways, PTL DEF GatesSpec, TimeOnlyCloses

\* Promotion rests on fresh passed rows and on all staging proofs.
THEOREM PromotionEarned == GatesSpec => []PromotionIsEarned
<1>1. GatesInv => PromotionIsEarned
  <2> SUFFICES ASSUME GatesInv, NEW proofs \in SUBSET StagingProofs, NEW req \in DeploymentInputs
               PROVE  /\ PromotionReady(rows, proofs, day, req) =>
                           /\ proofs = StagingProofs /\ "claims" \notin req
                           /\ \A id \in Requirements :
                                /\ rows[id] # NoRow /\ rows[id].status = "passed"
                                /\ rows[id].at # Undated /\ rows[id].at \in (day - MaxAge)..day
                      /\ StagingReady(rows, day, req) => PromotionReady(rows, StagingProofs, day, req)
    BY DEF PromotionIsEarned
  <2>1. ASSUME PromotionReady(rows, proofs, day, req)
        PROVE  /\ proofs = StagingProofs /\ "claims" \notin req
               /\ \A id \in Requirements :
                    /\ rows[id] # NoRow /\ rows[id].status = "passed"
                    /\ rows[id].at # Undated /\ rows[id].at \in (day - MaxAge)..day
    <3>1. proofs = StagingProofs /\ GateOpen(rows, day, req)
      BY <2>1 DEF PromotionReady, ProductionEvidence, GitHubAppReasons
    <3>2. "claims" \notin req
      BY <3>1 DEF GateOpen, CandidatePasses
    <3>3. ASSUME NEW id \in Requirements
          PROVE  /\ rows[id] # NoRow /\ rows[id].status = "passed"
                 /\ rows[id].at # Undated /\ rows[id].at \in (day - MaxAge)..day
      <4>1. /\ rows[id] \in Rows /\ rows[id] # NoRow /\ rows[id].status = "passed"
            /\ Fresh(rows[id], day)
        BY <3>1, OpenIs DEF GatesInv
      <4> QED BY <4>1, GatesAssumption DEF GatesInv, Fresh, Rows
    <3> QED BY <3>1, <3>2, <3>3
  <2>2. StagingReady(rows, day, req) => PromotionReady(rows, StagingProofs, day, req)
    BY DEF StagingReady, PromotionReady, ProductionEvidence
  <2> QED BY <2>1, <2>2
<1> QED BY <1>1, GatesAlways, PTL
=============================================================================
