------------------------ MODULE HostedIngress_proofs ------------------------
(***************************************************************************)
(* What holds of the hosted ingress for every set of deliveries, scan keys *)
(* and repositories, any number of copies of each delivery, any page size  *)
(* and any number of lost requests.                                        *)
(***************************************************************************)
EXTENDS HostedIngress, TLAPS

\* An attempt belongs to one delivery of the constants.
LEMMA AttemptDelivery ==
  ASSUME NEW a \in Attempts
  PROVE  DeliveryOf(a) \in Deliveries /\ KeyOf(a) \in ScanKeys
  BY EventAssumption DEF Attempts, DeliveryOf, KeyOf, EventOf, Events

\* The two ways a record is written keep the stores well-typed.
LEMMA PutReceiptType ==
  ASSUME TypeOK, NEW a \in Attempts, PutReceipt(a)
  PROVE  /\ receipts' \subseteq Deliveries
         /\ leftover' \in [Attempts -> SUBSET (ScanKeys \cup Deliveries)]
  BY AttemptDelivery DEF TypeOK, PutReceipt, Touch

LEMMA PutScanType ==
  ASSUME TypeOK, NEW a \in Attempts, NEW status \in ScanStatuses, PutScan(a, status)
  PROVE  /\ scan' \in [ScanKeys -> ScanStatuses \cup {"absent"}]
         /\ leftover' \in [Attempts -> SUBSET (ScanKeys \cup Deliveries)]
  BY AttemptDelivery DEF TypeOK, PutScan, Touch

\* The prefixes a cleanup lists are sets of keys.
LEMMA ScanPrefixesType ==
  ASSUME NEW d \in Deliveries
  PROVE  ScanPrefixes(d) \subseteq SUBSET ScanKeys
  BY DEF ScanPrefixes

LEMMA IdempotencyScopesType ==
  ASSUME NEW d \in Deliveries
  PROVE  IdempotencyScopes(d) \subseteq IdempotencyKeys
  BY EventAssumption DEF IdempotencyScopes, IdempotencyKeys, Events

\* Typing of the intake, scan and cleanup steps.
LEMMA IntakeType == TypeOK /\ (\E a \in Attempts : Intake(a)) => TypeOK'
<1> SUFFICES ASSUME TypeOK, NEW a \in Attempts, Intake(a) PROVE TypeOK'
  OBVIOUS
<1> USE DEF TypeOK, Goto, kv, sweep, history, Stages, IntakeStages, ScanStages, FinalStages
<1>1. CASE Dedupe(a)
  BY <1>1 DEF Dedupe
<1>2. CASE NoteIgnored(a)
  BY <1>2, PutReceiptType DEF NoteIgnored
<1>3. CASE Gate(a)
  BY <1>3 DEF Gate
<1>4. CASE Admit(a)
  BY <1>4, PutReceiptType DEF Admit
<1>5. CASE Enqueue(a)
  <2>1. "queued" \in ScanStatuses
    BY DEF ScanStatuses
  <2> QED BY <1>5, <2>1, PutScanType DEF Enqueue
<1> QED BY <1>1, <1>2, <1>3, <1>4, <1>5 DEF Intake

LEMMA RunScanType == TypeOK /\ (\E a \in Attempts : RunScan(a)) => TypeOK'
<1> SUFFICES ASSUME TypeOK, NEW a \in Attempts, RunScan(a) PROVE TypeOK'
  OBVIOUS
<1>0. {"running", "completed", "failed"} \subseteq ScanStatuses
  BY DEF ScanStatuses
<1> USE DEF TypeOK, Goto, kv, sweep, history, Stages, IntakeStages, ScanStages, FinalStages
<1>1. CASE StartScan(a)
  BY <1>0, <1>1, PutScanType DEF StartScan
<1>2. CASE FetchFiles(a)
  BY <1>2 DEF FetchFiles
<1>3. CASE CreateCheckRun(a)
  BY <1>3 DEF CreateCheckRun
<1>4. CASE CompleteScan(a)
  BY <1>0, <1>4, PutScanType DEF CompleteScan
<1>5. CASE ScanThrows(a)
  BY <1>5 DEF ScanThrows
<1>6. CASE FailScan(a)
  BY <1>0, <1>6, PutScanType DEF FailScan
<1> QED BY <1>1, <1>2, <1>3, <1>4, <1>5, <1>6 DEF RunScan

LEMMA CleanupType == TypeOK /\ (\E a \in Attempts : Cleanup(a)) => TypeOK'
<1> SUFFICES ASSUME TypeOK, NEW a \in Attempts, Cleanup(a) PROVE TypeOK'
  OBVIOUS
<1> USE DEF TypeOK, Goto, kv, sweep, history, Stages, IntakeStages, ScanStages, FinalStages
<1>0. Stored \subseteq ScanKeys \cup Deliveries
  BY DEF Stored
<1>1. CASE NoteCleanup(a)
  BY <1>1, PutReceiptType DEF NoteCleanup
<1>2. CASE RepeatCheck(a)
  <2>1. Owed(a) \subseteq ScanKeys \cup Deliveries
    BY <1>0 DEF Owed
  <2>2. ScanPrefixes(DeliveryOf(a)) \cup {Deliveries} \subseteq SUBSET (ScanKeys \cup Deliveries)
    BY ScanPrefixesType, AttemptDelivery
  <2>3. leftover' \in [Attempts -> SUBSET (ScanKeys \cup Deliveries)]
    BY <1>2, <2>1 DEF RepeatCheck
  <2>4. todo' \in [Attempts -> SUBSET SUBSET (ScanKeys \cup Deliveries)]
    BY <1>2, <2>2 DEF RepeatCheck
  <2>5. pc' \in [Attempts -> Stages]
    BY <1>2 DEF RepeatCheck
  <2> QED BY <1>2, <2>3, <2>4, <2>5 DEF RepeatCheck
<1>3. CASE ListPage(a)
  <2>1. PICK prefix \in {ahead[a]} \cup todo[a] :
          /\ todo' = todo \/ todo' = [todo EXCEPT ![a] = @ \ {prefix}]
          /\ \E P \in SUBSET (prefix \cap Stored) :
               /\ page' = [page EXCEPT ![a] = P]
               /\ ahead' = [ahead EXCEPT ![a] = PastPage(prefix, prefix \cap Stored, P)]
    BY <1>3 DEF ListPage
  <2>2. prefix \subseteq ScanKeys \cup Deliveries
    BY <2>1
  <2>3. PICK P \in SUBSET (prefix \cap Stored) :
               /\ page' = [page EXCEPT ![a] = P]
               /\ ahead' = [ahead EXCEPT ![a] = PastPage(prefix, prefix \cap Stored, P)]
    BY <2>1
  <2>4. PastPage(prefix, prefix \cap Stored, P) \subseteq ScanKeys \cup Deliveries
    BY <2>2 DEF PastPage
  <2>5. todo' \in [Attempts -> SUBSET SUBSET (ScanKeys \cup Deliveries)]
    BY <2>1
  <2>6. page' \in [Attempts -> SUBSET (ScanKeys \cup Deliveries)]
    BY <2>2, <2>3
  <2>7. ahead' \in [Attempts -> SUBSET (ScanKeys \cup Deliveries)]
    BY <2>3, <2>4
  <2> QED BY <1>3, <2>5, <2>6, <2>7 DEF ListPage
<1>4. CASE VisitKey(a)
  BY <1>4 DEF VisitKey, Touch
<1>5. CASE SweepDone(a)
  BY <1>5 DEF SweepDone
<1>6. CASE SweepThrows(a)
  BY <1>6 DEF SweepThrows
<1>7. CASE PutAudit(a)
  BY <1>7, AttemptDelivery DEF PutAudit
<1>8. CASE Remember(a)
  BY <1>8, AttemptDelivery, IdempotencyScopesType DEF Remember
<1>9. CASE CleanupDone(a)
  BY <1>9 DEF CleanupDone
<1> QED BY <1>1, <1>2, <1>3, <1>4, <1>5, <1>6, <1>7, <1>8, <1>9 DEF Cleanup

LEMMA TypeInit == Init => TypeOK
<1> SUFFICES ASSUME Init PROVE TypeOK
  OBVIOUS
<1>1. receipts \subseteq Deliveries /\ remembered \subseteq IdempotencyKeys /\ checkRuns \subseteq Attempts
  BY DEF Init
<1>2. admitted \subseteq Attempts /\ erased \subseteq Deliveries /\ paused \in BOOLEAN
  BY DEF Init
<1>3. /\ scan \in [ScanKeys -> ScanStatuses \cup {"absent"}]
      /\ audit \in [Deliveries -> {"none", "completed", "failed"}]
      /\ pc \in [Attempts -> Stages]
  BY DEF Init, Stages
<1>4. /\ todo \in [Attempts -> SUBSET SUBSET (ScanKeys \cup Deliveries)]
      /\ ahead \in [Attempts -> SUBSET (ScanKeys \cup Deliveries)]
      /\ page \in [Attempts -> SUBSET (ScanKeys \cup Deliveries)]
      /\ leftover \in [Attempts -> SUBSET (ScanKeys \cup Deliveries)]
  BY DEF Init
<1> QED BY <1>1, <1>2, <1>3, <1>4 DEF TypeOK

LEMMA TypeStep == TypeOK /\ [Next]_vars => TypeOK'
<1> SUFFICES ASSUME TypeOK, [Next]_vars PROVE TypeOK'
  OBVIOUS
<1>1. CASE UNCHANGED vars
  BY <1>1 DEF TypeOK, vars, kv, sweep, history
<1>2. CASE TogglePause
  BY <1>2 DEF TypeOK, TogglePause, sweep, history
<1>3. ASSUME NEW a \in Attempts, Send(a) \/ Lose(a) PROVE TypeOK'
  BY <1>3 DEF TypeOK, Send, Lose, Goto, kv, sweep, history, Stages, IntakeStages, FinalStages
<1>4. ASSUME NEW a \in Attempts, Handle(a) PROVE TypeOK'
  BY <1>4, IntakeType, RunScanType, CleanupType DEF Handle
<1> QED BY <1>1, <1>2, <1>3, <1>4 DEF Next

\* Every reachable state is well-typed: TypeOK.
THEOREM TypeCorrect == Spec => []TypeOK
  BY TypeInit, TypeStep, PTL DEF Spec

-----------------------------------------------------------------------------
(* Scan records.                                                           *)

\* Only an accepted pull request reaches the stages that write scan records.
PullRequestStages ==
  \A a \in Attempts :
    pc[a] \in {"gate", "admit", "enqueue"} \cup ScanStages => EventOf(a).kind = "pull_request"

PublishedBeforeComplete ==
  \A a \in Attempts : pc[a] = "complete" => a \in checkRuns

ScanInv ==
  /\ TypeOK
  /\ PullRequestStages
  /\ PublishedBeforeComplete
  /\ CompletedScanWasPublished
  /\ InProgressScanHasARunner

LEMMA ScanInvInit == Init => ScanInv
<1> SUFFICES ASSUME Init PROVE ScanInv
  OBVIOUS
<1>1. TypeOK
  BY TypeInit
<1>2. \A a \in Attempts : pc[a] = "unsent"
  BY DEF Init
<1>3. \A k \in ScanKeys : scan[k] = "absent"
  BY DEF Init
<1> QED BY <1>1, <1>2, <1>3 DEF ScanInv, PullRequestStages, PublishedBeforeComplete, ScanStages,
             CompletedScanWasPublished, InProgressScanHasARunner

\* A step that leaves the records and the check runs alone, and keeps every running
\* request running or loses it, keeps the invariant.
LEMMA ScanInvFrame ==
  ASSUME ScanInv, TypeOK', UNCHANGED scan, UNCHANGED checkRuns,
         \A a \in Attempts :
           \/ pc'[a] = pc[a]
           \/ /\ pc[a] \notin ScanStages \cup {"lost", "unconfigured"}
              /\ pc'[a] \notin ScanStages
              /\ pc'[a] \in {"gate", "admit", "enqueue"} => EventOf(a).kind = "pull_request"
           \/ pc[a] \in ScanStages /\ pc'[a] \in (ScanStages \ {"complete"}) \cup {"lost"}
  PROVE  ScanInv'
<1>1. PullRequestStages'
  BY DEF ScanInv, PullRequestStages, EventOf, ScanStages, DeliveryOf
<1>2. PublishedBeforeComplete'
  BY DEF ScanInv, PublishedBeforeComplete, ScanStages
<1>3. CompletedScanWasPublished'
  BY DEF ScanInv, CompletedScanWasPublished, EventOf, KeyOf, DeliveryOf
<1>4. InProgressScanHasARunner'
  BY DEF ScanInv, InProgressScanHasARunner, EventOf, KeyOf, DeliveryOf
<1> QED BY <1>1, <1>2, <1>3, <1>4 DEF ScanInv

\* A request that puts the scan record keeps the invariant when it stays at work
\* after "queued" and "running" and has published before "completed".
LEMMA ScanInvPut ==
  ASSUME ScanInv, TypeOK', NEW a \in Attempts, NEW status \in ScanStatuses,
         NEW s \in Stages, UNCHANGED checkRuns,
         pc[a] \in {"enqueue"} \cup ScanStages,
         scan' = [scan EXCEPT ![KeyOf(a)] = status],
         pc' = [pc EXCEPT ![a] = s],
         s \notin {"gate", "admit", "enqueue", "complete"},
         status \in {"queued", "running"} => s \in ScanStages \cup {"unconfigured"},
         status = "completed" => pc[a] = "complete"
  PROVE  ScanInv'
<1>0. /\ EventOf(a).kind = "pull_request" /\ KeyOf(a) \in ScanKeys
      /\ scan \in [ScanKeys -> ScanStatuses \cup {"absent"}] /\ pc \in [Attempts -> Stages]
  BY AttemptDelivery DEF ScanInv, PullRequestStages, TypeOK
<1>1. PullRequestStages'
  BY <1>0 DEF ScanInv, PullRequestStages, EventOf, DeliveryOf
<1>2. PublishedBeforeComplete'
  BY <1>0 DEF ScanInv, PublishedBeforeComplete
<1>3. CompletedScanWasPublished'
  BY <1>0 DEF ScanInv, CompletedScanWasPublished, PublishedBeforeComplete, EventOf, KeyOf, DeliveryOf
<1>4. InProgressScanHasARunner'
  <2> SUFFICES ASSUME NEW k \in ScanKeys, scan'[k] \in {"queued", "running"}
               PROVE  \E b \in Attempts :
                        /\ EventOf(b).kind = "pull_request" /\ KeyOf(b) = k
                        /\ pc'[b] \in ScanStages \cup {"lost", "unconfigured"}
    BY DEF InProgressScanHasARunner, EventOf, KeyOf, DeliveryOf
  <2>1. CASE k = KeyOf(a)
    BY <1>0, <2>1
  <2>2. CASE k # KeyOf(a)
    <3>1. PICK b \in Attempts : /\ EventOf(b).kind = "pull_request" /\ KeyOf(b) = k
                                /\ pc[b] \in ScanStages \cup {"lost", "unconfigured"}
      BY <1>0, <2>2 DEF ScanInv, InProgressScanHasARunner
    <3>2. b # a
      BY <2>2, <3>1
    <3> QED BY <1>0, <3>1, <3>2
  <2> QED BY <2>1, <2>2
<1> QED BY <1>1, <1>2, <1>3, <1>4 DEF ScanInv

LEMMA ScanInvStep == ScanInv /\ [Next]_vars => ScanInv'
<1> SUFFICES ASSUME ScanInv, [Next]_vars PROVE ScanInv'
  OBVIOUS
<1>0. TypeOK /\ TypeOK'
  BY TypeStep DEF ScanInv
<1>t. /\ pc \in [Attempts -> Stages]
      /\ scan \in [ScanKeys -> ScanStatuses \cup {"absent"}]
  BY <1>0 DEF TypeOK
<1>1. CASE UNCHANGED vars
  BY <1>0, <1>1, ScanInvFrame DEF vars, kv
<1>2. CASE TogglePause
  BY <1>0, <1>2, ScanInvFrame DEF TogglePause
<1>3. ASSUME NEW a \in Attempts, Send(a) \/ Lose(a) PROVE ScanInv'
  <2>1. \A b \in Attempts \ {a} : pc'[b] = pc[b]
    BY <1>3, <1>t DEF Send, Lose, Goto
  <2>2. \/ pc[a] = "unsent" /\ pc'[a] = "dedupe"
        \/ pc[a] \in IntakeStages \cup ScanStages /\ pc'[a] = "lost"
    BY <1>3, <1>t DEF Send, Lose, Goto, Active
  <2>3. UNCHANGED scan /\ UNCHANGED checkRuns
    BY <1>3 DEF Send, Lose, kv
  <2> QED BY <1>0, <2>1, <2>2, <2>3, ScanInvFrame DEF ScanStages, IntakeStages
<1>4. ASSUME NEW a \in Attempts, Intake(a) \/ Cleanup(a) PROVE ScanInv'
  <2>1. CASE Enqueue(a)
    BY <1>0, <2>1, ScanInvPut DEF Enqueue, PutScan, Goto, ScanStages, ScanStatuses, Stages, FinalStages
  <2>2. CASE VisitKey(a)
    <3>1. CASE UNCHANGED scan
      BY <1>0, <2>2, <3>1, ScanInvFrame DEF VisitKey
    <3>2. CASE \E k : scan' = [x \in ScanKeys |-> IF x = k THEN "absent" ELSE scan[x]]
      <4>1. \A k \in ScanKeys : scan'[k] = scan[k] \/ scan'[k] = "absent"
        BY <3>2
      <4>2. UNCHANGED pc /\ UNCHANGED checkRuns
        BY <2>2 DEF VisitKey
      <4> QED BY <1>0, <4>1, <4>2 DEF ScanInv, PullRequestStages, PublishedBeforeComplete,
                CompletedScanWasPublished, InProgressScanHasARunner, EventOf, KeyOf, DeliveryOf
    <3> QED BY <2>2, <3>1, <3>2 DEF VisitKey
  <2>3. ASSUME ~Enqueue(a), ~VisitKey(a) PROVE ScanInv'
    <3>1. UNCHANGED scan /\ UNCHANGED checkRuns
      BY <1>4, <2>3 DEF Intake, Cleanup, Dedupe, NoteIgnored, Gate, Admit, NoteCleanup, RepeatCheck,
           ListPage, SweepDone, SweepThrows, PutAudit, Remember, CleanupDone, kv
    <3>2. \A b \in Attempts \ {a} : pc'[b] = pc[b]
      BY <1>4, <2>3, <1>t DEF Intake, Cleanup, Dedupe, NoteIgnored, Gate, Admit, NoteCleanup, RepeatCheck,
           ListPage, SweepDone, SweepThrows, PutAudit, Remember, CleanupDone, Goto
    <3>3. \/ pc'[a] = pc[a]
          \/ pc[a] = "dedupe" /\ pc'[a] = "gate" /\ EventOf(a).kind = "pull_request"
          \/ pc[a] = "dedupe" /\ pc'[a] \in {"rejected", "duplicate", "note", "note_cleanup"}
          \/ pc[a] = "gate" /\ pc'[a] \in {"paused", "limited", "admit"}
          \/ pc[a] = "admit" /\ pc'[a] = "enqueue"
          \/ /\ pc[a] \in {"note", "note_cleanup", "repeat_check", "sweep", "audit", "remember",
                            "audit_failure"}
             /\ pc'[a] \in {"ignored", "repeat_check", "sweep", "repeated", "audit", "remember",
                             "audit_failure", "cleanup_failed", "cleaned"}
      BY <1>4, <2>3, <1>t DEF Intake, Cleanup, Dedupe, NoteIgnored, Gate, Admit, NoteCleanup, RepeatCheck,
           ListPage, SweepDone, SweepThrows, PutAudit, Remember, CleanupDone, Goto
    <3>4. pc[a] \in {"gate", "admit"} => EventOf(a).kind = "pull_request"
      BY DEF ScanInv, PullRequestStages
    <3> QED BY <1>0, <3>1, <3>2, <3>3, <3>4, ScanInvFrame DEF ScanStages
  <2> QED BY <2>1, <2>2, <2>3
<1>5. ASSUME NEW a \in Attempts, RunScan(a) PROVE ScanInv'
  <2>1. CASE StartScan(a)
    BY <1>0, <2>1, ScanInvPut DEF StartScan, PutScan, Goto, ScanStages, ScanStatuses, Stages
  <2>2. CASE FetchFiles(a) \/ ScanThrows(a)
    BY <1>0, <1>t, <2>2, ScanInvFrame DEF FetchFiles, ScanThrows, Goto, ScanStages, kv
  <2>3. CASE CreateCheckRun(a)
    <3>1. /\ UNCHANGED scan /\ checkRuns' = checkRuns \cup {a} /\ pc[a] = "publish"
          /\ pc'[a] \in {"complete", "fail"} /\ \A b \in Attempts \ {a} : pc'[b] = pc[b]
      BY <2>3, <1>t DEF CreateCheckRun, Goto, kv
    <3>2. PullRequestStages'
      BY <3>1 DEF ScanInv, PullRequestStages, ScanStages, EventOf, DeliveryOf
    <3>3. PublishedBeforeComplete'
      BY <3>1 DEF ScanInv, PublishedBeforeComplete
    <3>4. CompletedScanWasPublished'
      BY <3>1 DEF ScanInv, CompletedScanWasPublished, EventOf, KeyOf, DeliveryOf
    <3>5. InProgressScanHasARunner'
      BY <3>1 DEF ScanInv, InProgressScanHasARunner, ScanStages, EventOf, KeyOf, DeliveryOf
    <3> QED BY <1>0, <3>2, <3>3, <3>4, <3>5 DEF ScanInv
  <2>4. CASE CompleteScan(a)
    BY <1>0, <2>4, ScanInvPut DEF CompleteScan, PutScan, Goto, ScanStages, ScanStatuses, Stages, FinalStages
  <2>5. CASE FailScan(a)
    BY <1>0, <2>5, ScanInvPut DEF FailScan, PutScan, Goto, ScanStages, ScanStatuses, Stages, FinalStages
  <2> QED BY <1>5, <2>1, <2>2, <2>3, <2>4, <2>5 DEF RunScan
<1> QED BY <1>1, <1>2, <1>3, <1>4, <1>5 DEF Next, Handle

\* A record says "completed" only when a check run for its key exists at GitHub.
THEOREM CompletedPublished == Spec => []CompletedScanWasPublished
<1>1. ScanInv => CompletedScanWasPublished
  BY DEF ScanInv
<1> QED BY <1>1, ScanInvInit, ScanInvStep, PTL DEF Spec

\* No interleaving of requests strands a record in progress: some request for its key
\* is still at work, was lost, or had no check-run configuration.
THEOREM NoStrandedRecord == Spec => []InProgressScanHasARunner
<1>1. ScanInv => InProgressScanHasARunner
  BY DEF ScanInv
<1> QED BY <1>1, ScanInvInit, ScanInvStep, PTL DEF Spec

-----------------------------------------------------------------------------
(* Cleanup.                                                                *)

\* The keys a sweep has still to visit or to list.
Remaining(a) == page[a] \cup ahead[a] \cup UNION todo[a]

InScope(d, k) == k \in ScanKeys => KeyRepo[k] \in CleanupScope(d)

\* Only a cleanup event reaches the cleanup stages.
CleanupStagesInv ==
  \A a \in Attempts :
    pc[a] \in {"repeat_check", "sweep", "audit", "remember", "audit_failure"}
      => EventOf(a).kind \in CleanupKinds

\* A sweep looks at keys of its own scope only.
SweepInScope ==
  \A a \in Attempts : pc[a] = "sweep" => \A k \in Remaining(a) : InScope(DeliveryOf(a), k)

\* A request that has not started to sweep has listed nothing.
NothingListed ==
  \A a \in Attempts :
    pc[a] \in {"unsent", "dedupe", "note_cleanup", "repeat_check"} => page[a] = {} /\ ahead[a] = {}

\* What is left of what the sweep found is still stored, is erasable, and is ahead of it.
LeftoverAhead ==
  \A a \in Attempts :
    /\ leftover[a] \subseteq Stored
    /\ \A k \in leftover[a] : Erasable(a, k)
    /\ pc[a] = "sweep" => leftover[a] \subseteq Remaining(a)

CleanupInv ==
  /\ TypeOK
  /\ CleanupStagesInv
  /\ NothingListed
  /\ SweepInScope
  /\ LeftoverAhead
  /\ CleanupLeavesNothingBehind

LEMMA CleanupInvInit == Init => CleanupInv
<1> SUFFICES ASSUME Init PROVE CleanupInv
  OBVIOUS
<1>1. TypeOK
  BY TypeInit
<1>2. \A a \in Attempts : pc[a] = "unsent" /\ leftover[a] = {}
  BY DEF Init
<1>3. \A a \in Attempts : page[a] = {} /\ ahead[a] = {}
  BY DEF Init
<1> QED BY <1>1, <1>2, <1>3 DEF CleanupInv, CleanupStagesInv, NothingListed, SweepInScope, LeftoverAhead,
             CleanupLeavesNothingBehind

\* One list call loses no key that was stored: what it does not return is behind no cursor.
LEMMA PageLosesNothing ==
  ASSUME NEW prefix, NEW found, found \subseteq prefix, NEW P \in SUBSET found, IsPage(P, found)
  PROVE  found \subseteq P \cup PastPage(prefix, found, P) /\ PastPage(prefix, found, P) \subseteq prefix
  BY DEF IsPage, PastPage

\* The prefixes of a cleanup are the scan keys of its scope, and all of them.
LEMMA PrefixesCoverScope ==
  ASSUME NEW d \in Deliveries, Event[d].kind \in CleanupKinds
  PROVE  \A k \in ScanKeys : k \in UNION ScanPrefixes(d) <=> KeyRepo[k] \in CleanupScope(d)
<1>1. \A k \in ScanKeys : KeyRepo[k] \in Repos
  BY ScopesAssumption
<1> QED BY <1>1 DEF ScanPrefixes, CleanupScope

\* A step of other requests that only shrinks what a cleanup left over keeps the invariant.
LEMMA CleanupInvFrame ==
  ASSUME CleanupInv, TypeOK', UNCHANGED <<todo, ahead, page>>,
         \A a \in Attempts :
           /\ leftover'[a] \subseteq leftover[a]
           /\ leftover'[a] \subseteq Stored'
           /\ \/ pc'[a] = pc[a]
              \/ pc[a] \in {"unsent", "dedupe"} /\ pc'[a] \in {"dedupe", "note_cleanup"}
              \/ pc'[a] \notin {"unsent", "dedupe", "note_cleanup", "repeat_check", "sweep",
                               "audit", "remember", "audit_failure", "cleaned"}
  PROVE  CleanupInv'
<1>1. CleanupStagesInv'
  BY DEF CleanupInv, CleanupStagesInv, EventOf, DeliveryOf
<1>n. NothingListed'
  BY DEF CleanupInv, NothingListed
<1>2. SweepInScope'
  BY DEF CleanupInv, SweepInScope, Remaining, InScope, CleanupScope, DeliveryOf
<1>3. LeftoverAhead'
  BY DEF CleanupInv, LeftoverAhead, Remaining, Erasable, DeliveryRecordMatches, DeliveryOf
<1>4. CleanupLeavesNothingBehind'
  BY DEF CleanupInv, CleanupLeavesNothingBehind
<1> QED BY <1>1, <1>n, <1>2, <1>3, <1>4 DEF CleanupInv

LEMMA CleanupInvStep == CleanupInv /\ [Next]_vars => CleanupInv'
<1> SUFFICES ASSUME CleanupInv, [Next]_vars PROVE CleanupInv'
  OBVIOUS
<1>0. TypeOK /\ TypeOK'
  BY TypeStep DEF CleanupInv
<1>t. /\ pc \in [Attempts -> Stages]
      /\ scan \in [ScanKeys -> ScanStatuses \cup {"absent"}]
      /\ todo \in [Attempts -> SUBSET SUBSET (ScanKeys \cup Deliveries)]
      /\ ahead \in [Attempts -> SUBSET (ScanKeys \cup Deliveries)]
      /\ page \in [Attempts -> SUBSET (ScanKeys \cup Deliveries)]
      /\ leftover \in [Attempts -> SUBSET (ScanKeys \cup Deliveries)]
      /\ receipts \subseteq Deliveries
  BY <1>0 DEF TypeOK
<1>s. \A a \in Attempts : leftover[a] \subseteq Stored
  BY DEF CleanupInv, LeftoverAhead
<1>1. CASE UNCHANGED vars
  BY <1>0, <1>1, <1>s, CleanupInvFrame DEF vars, kv, sweep, history, Stored
<1>2. CASE TogglePause
  BY <1>0, <1>2, <1>s, CleanupInvFrame DEF TogglePause, sweep, history, Stored
<1>3. ASSUME NEW a \in Attempts, Send(a) \/ Lose(a) PROVE CleanupInv'
  <2>1. UNCHANGED <<kv, sweep, history>>
    BY <1>3 DEF Send, Lose
  <2>2. \A b \in Attempts : \/ pc'[b] = pc[b]
                            \/ pc[b] = "unsent" /\ pc'[b] = "dedupe"
                            \/ pc'[b] = "lost"
    BY <1>3, <1>t DEF Send, Lose, Goto
  <2> QED BY <1>0, <1>s, <2>1, <2>2, CleanupInvFrame DEF kv, sweep, history, Stored
<1>4. ASSUME NEW a \in Attempts, Dedupe(a) \/ Gate(a) \/ FetchFiles(a) \/ CreateCheckRun(a) \/ ScanThrows(a)
      PROVE  CleanupInv'
  <2>1. UNCHANGED <<kv, sweep, history>>
    BY <1>4 DEF Dedupe, Gate, FetchFiles, CreateCheckRun, ScanThrows
  <2>2. \A b \in Attempts : \/ pc'[b] = pc[b]
                            \/ pc[b] = "dedupe" /\ pc'[b] = "note_cleanup"
                            \/ pc'[b] \notin {"unsent", "dedupe", "note_cleanup", "repeat_check", "sweep",
                                              "audit", "remember", "audit_failure", "cleaned"}
    BY <1>4, <1>t DEF Dedupe, Gate, FetchFiles, CreateCheckRun, ScanThrows, Goto
  <2> QED BY <1>0, <1>s, <2>1, <2>2, CleanupInvFrame DEF kv, sweep, history, Stored
<1>5. ASSUME NEW a \in Attempts, NoteIgnored(a) \/ Admit(a) PROVE CleanupInv'
  <2>1. /\ PutReceipt(a) /\ UNCHANGED scan /\ UNCHANGED sweep
    BY <1>5 DEF NoteIgnored, Admit
  <2>2. \A b \in Attempts : leftover'[b] \subseteq leftover[b] /\ leftover'[b] \subseteq Stored'
    BY <1>s, <2>1 DEF PutReceipt, Touch, Stored
  <2>3. \A b \in Attempts : pc'[b] = pc[b] \/ pc'[b] \in {"ignored", "enqueue"}
    BY <1>5, <1>t DEF NoteIgnored, Admit, Goto
  <2> QED BY <1>0, <2>1, <2>2, <2>3, CleanupInvFrame DEF sweep
<1>6. ASSUME NEW a \in Attempts, Enqueue(a) \/ StartScan(a) \/ CompleteScan(a) \/ FailScan(a)
      PROVE  CleanupInv'
  <2>1. /\ \E status \in ScanStatuses : PutScan(a, status)
        /\ UNCHANGED receipts /\ UNCHANGED sweep
    BY <1>6 DEF Enqueue, StartScan, CompleteScan, FailScan, ScanStatuses
  <2>2. \A k \in ScanKeys : scan[k] # "absent" => scan'[k] # "absent"
    BY <2>1, <1>t DEF PutScan, ScanStatuses
  <2>3. \A b \in Attempts : leftover'[b] \subseteq leftover[b]
    BY <2>1 DEF PutScan, Touch
  <2>4. \A b \in Attempts : leftover'[b] \subseteq Stored'
    BY <1>s, <2>1, <2>2, <2>3 DEF Stored
  <2>5. \A b \in Attempts : pc'[b] = pc[b] \/ pc'[b] \in {"start", "unconfigured", "fetch", "done", "failed"}
    BY <1>6, <1>t DEF Enqueue, StartScan, CompleteScan, FailScan, Goto
  <2> QED BY <1>0, <2>1, <2>3, <2>4, <2>5, CleanupInvFrame DEF sweep
<1>7. ASSUME NEW a \in Attempts, Cleanup(a) PROVE CleanupInv'
  <2>0. a \in Attempts /\ DeliveryOf(a) \in Deliveries
    BY AttemptDelivery
  <2>1. CASE NoteCleanup(a)
    <3>1. \A b \in Attempts : leftover'[b] \subseteq leftover[b] /\ leftover'[b] \subseteq Stored'
      BY <1>s, <2>1 DEF NoteCleanup, PutReceipt, Touch, Stored
    <3>2. \A b \in Attempts \ {a} : pc'[b] = pc[b]
      BY <2>1, <1>t DEF NoteCleanup, Goto
    <3>3. \/ pc'[a] = "ignored"
          \/ pc'[a] = "repeat_check" /\ EventOf(a).kind \in CleanupKinds
      BY <2>1, <1>t DEF NoteCleanup, Goto
    <3>4. UNCHANGED <<todo, ahead, page>>
      BY <2>1 DEF NoteCleanup, sweep
    <3>5. CleanupStagesInv'
      BY <3>2, <3>3 DEF CleanupInv, CleanupStagesInv, EventOf, DeliveryOf
    <3>n. NothingListed'
      <4>1. pc[a] = "note_cleanup"
        BY <2>1 DEF NoteCleanup
      <4> QED BY <3>2, <3>3, <3>4, <4>1 DEF CleanupInv, NothingListed
    <3>6. SweepInScope'
      BY <3>2, <3>3, <3>4 DEF CleanupInv, SweepInScope, Remaining, InScope, CleanupScope, DeliveryOf
    <3>7. LeftoverAhead'
      BY <3>1, <3>2, <3>3, <3>4 DEF CleanupInv, LeftoverAhead, Remaining, Erasable,
           DeliveryRecordMatches, DeliveryOf
    <3>8. CleanupLeavesNothingBehind'
      BY <3>1, <3>2, <3>3 DEF CleanupInv, CleanupLeavesNothingBehind
    <3> QED BY <1>0, <3>5, <3>n, <3>6, <3>7, <3>8 DEF CleanupInv
  <2>2. CASE RepeatCheck(a)
    <3>1. /\ leftover' = [leftover EXCEPT ![a] = Owed(a)]
          /\ UNCHANGED <<receipts, scan, ahead, page>>
          /\ \A b \in Attempts \ {a} : pc'[b] = pc[b] /\ todo'[b] = todo[b]
          /\ \/ pc'[a] = "repeated"
             \/ pc'[a] = "sweep" /\ todo'[a] = ScanPrefixes(DeliveryOf(a)) \cup {Deliveries}
      BY <2>2, <1>t DEF RepeatCheck, Goto, kv
    <3>2. EventOf(a).kind \in CleanupKinds /\ page[a] = {} /\ ahead[a] = {}
      BY <2>2 DEF RepeatCheck, CleanupInv, CleanupStagesInv, NothingListed
    <3>3. Stored' = Stored /\ Owed(a) \subseteq Stored
      BY <3>1 DEF Stored, Owed
    <3>4. \A k \in Owed(a) : Erasable(a, k)
      BY DEF Owed, Erasable
    <3>5. /\ Owed(a) \subseteq UNION (ScanPrefixes(DeliveryOf(a)) \cup {Deliveries})
          /\ \A k \in UNION (ScanPrefixes(DeliveryOf(a)) \cup {Deliveries}) : InScope(DeliveryOf(a), k)
      <4>1. \A k \in Deliveries : InScope(DeliveryOf(a), k)
        BY KeysAssumption DEF InScope
      <4> QED BY <2>0, <3>2, <4>1, PrefixesCoverScope DEF Owed, EventOf, InScope
    <3>6. CleanupStagesInv'
      BY <3>1, <3>2 DEF CleanupInv, CleanupStagesInv, EventOf, DeliveryOf
    <3>7. NothingListed'
      BY <3>1 DEF CleanupInv, NothingListed
    <3>8. SweepInScope'
      BY <3>1, <3>2, <3>5 DEF CleanupInv, SweepInScope, Remaining, InScope, CleanupScope, DeliveryOf
    <3>9. LeftoverAhead'
      <4> SUFFICES ASSUME NEW b \in Attempts
                   PROVE  /\ leftover'[b] \subseteq Stored'
                          /\ \A k \in leftover'[b] : Erasable(b, k)
                          /\ pc'[b] = "sweep" => leftover'[b] \subseteq Remaining(b)'
        BY DEF LeftoverAhead, Erasable, DeliveryRecordMatches, DeliveryOf
      <4>1. CASE b = a
        BY <1>t, <3>1, <3>3, <3>4, <3>5, <4>1 DEF Remaining
      <4>2. CASE b # a
        BY <1>t, <3>1, <3>3, <4>2 DEF CleanupInv, LeftoverAhead, Remaining
      <4> QED BY <4>1, <4>2
    <3>10. CleanupLeavesNothingBehind'
      BY <1>t, <3>1 DEF CleanupInv, CleanupLeavesNothingBehind
    <3> QED BY <1>0, <3>6, <3>7, <3>8, <3>9, <3>10 DEF CleanupInv
  <2>3. CASE ListPage(a)
    <3>1. PICK prefix \in {ahead[a]} \cup todo[a] :
            /\ IF ahead[a] # {} THEN prefix = ahead[a] /\ UNCHANGED todo
               ELSE prefix \in todo[a] /\ todo' = [todo EXCEPT ![a] = @ \ {prefix}]
            /\ \E P \in SUBSET (prefix \cap Stored) :
                 /\ IsPage(P, prefix \cap Stored)
                 /\ page' = [page EXCEPT ![a] = P]
                 /\ ahead' = [ahead EXCEPT ![a] = PastPage(prefix, prefix \cap Stored, P)]
      BY <2>3 DEF ListPage
    <3>2. PICK P \in SUBSET (prefix \cap Stored) :
                 /\ IsPage(P, prefix \cap Stored)
                 /\ page' = [page EXCEPT ![a] = P]
                 /\ ahead' = [ahead EXCEPT ![a] = PastPage(prefix, prefix \cap Stored, P)]
      BY <3>1
    <3>3. /\ prefix \cap Stored \subseteq P \cup PastPage(prefix, prefix \cap Stored, P)
          /\ PastPage(prefix, prefix \cap Stored, P) \subseteq prefix
      BY <3>2, PageLosesNothing
    <3>4. /\ UNCHANGED <<pc, receipts, scan, leftover>> /\ pc[a] = "sweep" /\ page[a] = {}
          /\ Stored' = Stored
      BY <2>3 DEF ListPage, kv, history, Stored
    <3>5. \A b \in Attempts \ {a} : Remaining(b)' = Remaining(b)
      BY <1>t, <3>1, <3>2 DEF Remaining
    <3>6. Remaining(a) = prefix \cup UNION todo'[a]
      BY <1>t, <3>1, <3>4 DEF Remaining
    <3>7. Remaining(a)' = P \cup PastPage(prefix, prefix \cap Stored, P) \cup UNION todo'[a]
      BY <1>t, <3>2 DEF Remaining
    <3>8. Remaining(a)' \subseteq Remaining(a) /\ Remaining(a) \cap Stored \subseteq Remaining(a)'
      BY <3>3, <3>6, <3>7
    <3>9. CleanupStagesInv'
      BY <3>4 DEF CleanupInv, CleanupStagesInv, EventOf, DeliveryOf
    <3>10. NothingListed'
      BY <1>t, <3>2, <3>4 DEF CleanupInv, NothingListed
    <3>11. SweepInScope'
      BY <3>4, <3>5, <3>8 DEF CleanupInv, SweepInScope, InScope, CleanupScope, DeliveryOf
    <3>12. LeftoverAhead'
      BY <3>4, <3>5, <3>8 DEF CleanupInv, LeftoverAhead, Erasable, DeliveryRecordMatches, DeliveryOf
    <3>13. CleanupLeavesNothingBehind'
      BY <3>4 DEF CleanupInv, CleanupLeavesNothingBehind
    <3> QED BY <1>0, <3>9, <3>10, <3>11, <3>12, <3>13 DEF CleanupInv
  <2>4. CASE VisitKey(a)
    <3>1. PICK k \in page[a] :
            /\ page' = [page EXCEPT ![a] = @ \ {k}]
            /\ IF Erasable(a, k)
               THEN /\ scan' = [x \in ScanKeys |-> IF x = k THEN "absent" ELSE scan[x]]
                    /\ receipts' = receipts \ {k}
                    /\ leftover' = [c \in Attempts |-> leftover[c] \ {k}]
               ELSE UNCHANGED <<scan, receipts, leftover>>
      BY <2>4 DEF VisitKey, Touch
    <3>2. UNCHANGED <<pc, todo, ahead>> /\ pc[a] = "sweep"
      BY <2>4 DEF VisitKey
    <3>3. \A b \in Attempts : leftover'[b] \subseteq leftover[b] /\ leftover'[b] \subseteq Stored'
      BY <1>s, <3>1 DEF Stored
    <3>4. k \notin leftover'[a]
      BY <3>1 DEF CleanupInv, LeftoverAhead
    <3>5. \A b \in Attempts \ {a} : Remaining(b)' = Remaining(b)
      BY <1>t, <3>1, <3>2 DEF Remaining
    <3>6. Remaining(a)' \subseteq Remaining(a) /\ Remaining(a) \subseteq Remaining(a)' \cup {k}
      BY <1>t, <3>1, <3>2 DEF Remaining
    <3>7. CleanupStagesInv'
      BY <3>2 DEF CleanupInv, CleanupStagesInv, EventOf, DeliveryOf
    <3>8. NothingListed'
      BY <1>t, <3>1, <3>2 DEF CleanupInv, NothingListed
    <3>9. SweepInScope'
      BY <3>2, <3>5, <3>6 DEF CleanupInv, SweepInScope, InScope, CleanupScope, DeliveryOf
    <3>10. LeftoverAhead'
      <4> SUFFICES ASSUME NEW b \in Attempts
                   PROVE  /\ leftover'[b] \subseteq Stored'
                          /\ \A x \in leftover'[b] : Erasable(b, x)
                          /\ pc'[b] = "sweep" => leftover'[b] \subseteq Remaining(b)'
        BY DEF LeftoverAhead, Erasable, DeliveryRecordMatches, DeliveryOf
      <4>1. pc[b] = "sweep" => leftover'[b] \subseteq Remaining(b)'
        BY <3>3, <3>4, <3>5, <3>6 DEF CleanupInv, LeftoverAhead
      <4> QED BY <3>2, <3>3, <4>1 DEF CleanupInv, LeftoverAhead
    <3>11. CleanupLeavesNothingBehind'
      BY <3>2, <3>3 DEF CleanupInv, CleanupLeavesNothingBehind
    <3> QED BY <1>0, <3>7, <3>8, <3>9, <3>10, <3>11 DEF CleanupInv
  <2>5. ASSUME SweepDone(a) \/ SweepThrows(a) \/ PutAudit(a) \/ Remember(a) \/ CleanupDone(a)
        PROVE  CleanupInv'
    <3>1. /\ UNCHANGED <<receipts, scan, todo, ahead, page, leftover>>
          /\ \A b \in Attempts \ {a} : pc'[b] = pc[b]
      BY <2>5, <1>t DEF SweepDone, SweepThrows, PutAudit, Remember, CleanupDone, Goto, kv, sweep, history
    <3>2. \/ pc[a] = "sweep" /\ pc'[a] = "audit" /\ Remaining(a) = {}
          \/ pc[a] = "sweep" /\ pc'[a] = "audit_failure"
          \/ pc[a] = "audit" /\ pc'[a] = "remember"
          \/ pc[a] = "audit_failure" /\ pc'[a] = "cleanup_failed"
          \/ pc[a] = "remember" /\ pc'[a] \in {"remember", "cleaned"}
      BY <2>5, <1>t DEF SweepDone, SweepThrows, PutAudit, Remember, CleanupDone, Goto, Remaining
    <3>3. leftover[a] \subseteq Remaining(a) \/ pc[a] # "sweep"
      BY DEF CleanupInv, LeftoverAhead
    <3>4. CleanupStagesInv'
      BY <3>1, <3>2 DEF CleanupInv, CleanupStagesInv, EventOf, DeliveryOf
    <3>5. NothingListed'
      BY <3>1, <3>2 DEF CleanupInv, NothingListed
    <3>6. SweepInScope'
      BY <3>1, <3>2 DEF CleanupInv, SweepInScope, Remaining, InScope, CleanupScope, DeliveryOf
    <3>7. LeftoverAhead'
      BY <3>1, <3>2 DEF CleanupInv, LeftoverAhead, Stored, Remaining, Erasable, DeliveryRecordMatches, DeliveryOf
    <3>8. CleanupLeavesNothingBehind'
      BY <3>1, <3>2, <3>3 DEF CleanupInv, CleanupLeavesNothingBehind
    <3> QED BY <1>0, <3>4, <3>5, <3>6, <3>7, <3>8 DEF CleanupInv
  <2> QED BY <1>7, <2>1, <2>2, <2>3, <2>4, <2>5 DEF Cleanup
<1> QED BY <1>1, <1>2, <1>3, <1>4, <1>5, <1>6, <1>7 DEF Next, Handle, Intake, RunScan

\* A finished sweep has deleted everything it found stored in its scope, except what
\* other requests have written again since.
THEOREM CleanupIsComplete == Spec => []CleanupLeavesNothingBehind
<1>1. CleanupInv => CleanupLeavesNothingBehind
  BY DEF CleanupInv
<1> QED BY <1>1, CleanupInvInit, CleanupInvStep, PTL DEF Spec

\* A record disappears only in a sweep whose scope covers it.
THEOREM CleanupInScope == Spec => CleanupStaysInScope
<1>1. CleanupInv /\ [Next]_vars =>
        [\A k \in Stored \ Stored' : \E a \in Attempts : pc[a] = "sweep" /\ k \in Owed(a)]_vars
  <2> SUFFICES ASSUME CleanupInv, Next, NEW k \in Stored, k \notin Stored'
               PROVE  \E a \in Attempts : pc[a] = "sweep" /\ k \in Owed(a)
    OBVIOUS
  <2>1. scan \in [ScanKeys -> ScanStatuses \cup {"absent"}]
    BY DEF CleanupInv, TypeOK
  <2>2. PICK a \in Attempts : VisitKey(a)
    <3>1. ASSUME NEW a \in Attempts, Enqueue(a) \/ StartScan(a) \/ CompleteScan(a) \/ FailScan(a)
          PROVE  FALSE
      BY <2>1, <3>1 DEF Enqueue, StartScan, CompleteScan, FailScan, PutScan, Stored, ScanStatuses
    <3>2. ASSUME NEW a \in Attempts, NoteIgnored(a) \/ Admit(a) \/ NoteCleanup(a)
          PROVE  FALSE
      BY <3>2 DEF NoteIgnored, Admit, NoteCleanup, PutReceipt, Stored
    <3>3. ASSUME NEW a \in Attempts,
                 \/ Send(a) \/ Lose(a) \/ Dedupe(a) \/ Gate(a) \/ FetchFiles(a) \/ CreateCheckRun(a)
                 \/ ScanThrows(a) \/ RepeatCheck(a) \/ ListPage(a) \/ SweepDone(a) \/ SweepThrows(a)
                 \/ PutAudit(a) \/ Remember(a) \/ CleanupDone(a)
          PROVE  FALSE
      BY <3>3 DEF Send, Lose, Dedupe, Gate, FetchFiles, CreateCheckRun, ScanThrows, RepeatCheck, ListPage,
           SweepDone, SweepThrows, PutAudit, Remember, CleanupDone, Stored, kv
    <3>4. ~TogglePause
      BY DEF TogglePause, Stored
    <3> QED BY <3>1, <3>2, <3>3, <3>4 DEF Next, Handle, Intake, RunScan, Cleanup
  <2>3. pc[a] = "sweep" /\ k \in page[a] /\ Erasable(a, k)
    BY <2>1, <2>2 DEF VisitKey, Stored
  <2>4. InScope(DeliveryOf(a), k)
    BY <2>3 DEF CleanupInv, SweepInScope, Remaining
  <2> QED BY <2>3, <2>4 DEF Owed, Erasable, InScope
<1> QED BY <1>1, CleanupInvInit, CleanupInvStep, PTL DEF Spec, CleanupStaysInScope

-----------------------------------------------------------------------------
(***************************************************************************)
(* What more holds when GitHub repeats a delivery only after the previous  *)
(* copy was answered (SerialRedelivery).                                   *)
(***************************************************************************)

SameDelivery(a, b) == DeliveryOf(a) = DeliveryOf(b)

\* A copy is sent only once every earlier copy was answered.
SerialInv ==
  \A a, b \in Attempts : SameDelivery(a, b) /\ a[2] < b[2] /\ pc[b] # "unsent" => Answered(a)

LEMMA CopiesOrdered ==
  ASSUME NEW a \in Attempts, NEW b \in Attempts, SameDelivery(a, b), a # b
  PROVE  /\ a[2] \in Nat /\ b[2] \in Nat
         /\ a[2] < b[2] \/ b[2] < a[2]
  BY BoundsAssumption DEF Attempts, SameDelivery, DeliveryOf

\* Of two copies of a delivery, one is unsent or answered.
LEMMA OneUnanswered ==
  ASSUME TypeOK, SerialInv, NEW a \in Attempts, NEW b \in Attempts, SameDelivery(a, b), a # b
  PROVE  pc[a] = "unsent" \/ pc[b] = "unsent" \/ Answered(a) \/ Answered(b)
  BY CopiesOrdered DEF SerialInv, SameDelivery

\* How a step moves the requests.
LEMMA HandleMoves ==
  ASSUME TypeOK, NEW a \in Attempts, Handle(a) \/ Lose(a)
  PROVE  /\ \A b \in Attempts \ {a} : pc'[b] = pc[b]
         /\ pc[a] \in IntakeStages \cup ScanStages
         /\ pc'[a] \in IntakeStages \cup ScanStages \cup FinalStages
         /\ pc[a] \in ScanStages => pc'[a] \in ScanStages \cup FinalStages
<1> USE DEF TypeOK, Goto, IntakeStages, ScanStages, FinalStages
<1>1. CASE Lose(a)
  BY <1>1 DEF Lose, Active
<1>2. CASE Intake(a)
  BY <1>2 DEF Intake, Dedupe, NoteIgnored, Gate, Admit, Enqueue
<1>3. CASE RunScan(a)
  BY <1>3 DEF RunScan, StartScan, FetchFiles, CreateCheckRun, CompleteScan, ScanThrows, FailScan
<1>4. CASE Cleanup(a)
  BY <1>4 DEF Cleanup, NoteCleanup, RepeatCheck, ListPage, VisitKey, SweepDone, SweepThrows,
       PutAudit, Remember, CleanupDone
<1> QED BY <1>1, <1>2, <1>3, <1>4 DEF Handle

LEMMA SerialStep ==
  ASSUME SerialRedelivery
  PROVE  TypeOK /\ SerialInv /\ [Next]_vars => SerialInv'
<1> SUFFICES ASSUME TypeOK, SerialInv, [Next]_vars PROVE SerialInv'
  OBVIOUS
<1>1. CASE UNCHANGED vars \/ TogglePause
  BY <1>1 DEF SerialInv, SameDelivery, Answered, DeliveryOf, vars, TogglePause
<1>2. ASSUME NEW c \in Attempts, Handle(c) \/ Lose(c) PROVE SerialInv'
  <2>1. /\ \A b \in Attempts \ {c} : pc'[b] = pc[b]
        /\ pc[c] # "unsent"
        /\ Answered(c) => Answered(c)'
    BY <1>2, HandleMoves DEF Answered, IntakeStages, ScanStages, FinalStages
  <2> QED BY <2>1 DEF SerialInv, SameDelivery, Answered, DeliveryOf
<1>3. ASSUME NEW b \in Attempts, Send(b) PROVE SerialInv'
  <2>1. /\ \A c \in Attempts \ {b} : pc'[c] = pc[c]
        /\ pc[b] = "unsent" /\ pc'[b] = "dedupe"
    BY <1>3 DEF Send, Goto, TypeOK
  <2>2. ASSUME NEW a \in Attempts, SameDelivery(a, b), a[2] < b[2] PROVE Answered(a)
    <3> DEFINE previous == <<b[1], b[2] - 1>>
    <3>1. /\ a[2] \in Nat /\ b[2] \in Nat /\ a[2] >= 1 /\ a[1] = b[1]
          /\ b[1] \in Deliveries /\ b[2] \in 1..Copies[b[1]] /\ Copies[b[1]] \in Nat
          /\ a = <<a[1], a[2]>>
      BY <2>2, BoundsAssumption DEF Attempts, SameDelivery, DeliveryOf
    <3>2. previous[1] = b[1] /\ previous[2] = b[2] - 1 /\ b[2] > 1 /\ previous[2] \in 1..Copies[b[1]]
      BY <2>2, <3>1
    <3>3. previous \in Attempts
      BY <3>1, <3>2 DEF Attempts
    <3>4. pc[previous] # "unsent" /\ Answered(previous)
      BY <1>3, <3>2 DEF Send
    <3>5. CASE a[2] = b[2] - 1
      BY <3>1, <3>4, <3>5
    <3>6. CASE a[2] # b[2] - 1
      <4>1. a[2] < previous[2]
        BY <2>2, <3>1, <3>2, <3>6
      <4> QED BY <3>1, <3>2, <3>3, <3>4, <4>1 DEF SerialInv, SameDelivery, DeliveryOf
    <3> QED BY <3>5, <3>6
  <2>3. ~Answered(b)
    BY <2>1 DEF Answered, ScanStages, FinalStages
  <2> QED BY <2>1, <2>2, <2>3 DEF SerialInv, SameDelivery, Answered, DeliveryOf
<1> QED BY <1>1, <1>2, <1>3 DEF Next

-----------------------------------------------------------------------------
(* Repeated deliveries.                                                    *)

\* An accepted delivery has its receipt unless a cleanup deleted it, and a second copy
\* gets past the duplicate check only then.
ReplayInv ==
  /\ TypeOK
  /\ SerialInv
  /\ \A a \in admitted : DeliveryOf(a) \in receipts \cup erased
  /\ \A a \in Attempts, b \in admitted :
       SameDelivery(a, b) /\ pc[a] \in {"gate", "admit"} => DeliveryOf(a) \in erased
  /\ ReplayOnlyAfterErasure

LEMMA ReplayInvInit == Init => ReplayInv
<1> SUFFICES ASSUME Init PROVE ReplayInv
  OBVIOUS
<1>1. TypeOK
  BY TypeInit
<1>2. admitted = {} /\ \A a \in Attempts : pc[a] = "unsent"
  BY DEF Init
<1> QED BY <1>1, <1>2 DEF ReplayInv, SerialInv, ReplayOnlyAfterErasure

LEMMA ReplayInvStep ==
  ASSUME SerialRedelivery
  PROVE  ReplayInv /\ [Next]_vars => ReplayInv'
<1> SUFFICES ASSUME ReplayInv, [Next]_vars PROVE ReplayInv'
  OBVIOUS
<1>0. TypeOK /\ TypeOK' /\ SerialInv /\ SerialInv'
  BY TypeStep, SerialStep DEF ReplayInv
<1>t. pc \in [Attempts -> Stages] /\ admitted \subseteq Attempts
  BY <1>0 DEF TypeOK
<1>1. ASSUME admitted' = admitted, erased \subseteq erased', receipts \subseteq receipts' \cup erased',
             \A a \in Attempts :
               pc'[a] \in {"gate", "admit"} => \/ pc[a] \in {"gate", "admit"}
                                               \/ DeliveryOf(a) \notin receipts
      PROVE  ReplayInv'
  <2>1. \A a \in admitted' : DeliveryOf(a) \in receipts' \cup erased'
    BY <1>1 DEF ReplayInv
  <2>2. \A a \in Attempts, b \in admitted' :
          SameDelivery(a, b) /\ pc'[a] \in {"gate", "admit"} => DeliveryOf(a) \in erased'
    BY <1>1 DEF ReplayInv, SameDelivery
  <2>3. ReplayOnlyAfterErasure'
    BY <1>1 DEF ReplayInv, ReplayOnlyAfterErasure, DeliveryOf
  <2> QED BY <1>0, <2>1, <2>2, <2>3 DEF ReplayInv, SameDelivery, DeliveryOf
<1>2. CASE UNCHANGED vars \/ TogglePause
  BY <1>1, <1>2 DEF vars, TogglePause, kv, history
<1>3. ASSUME NEW a \in Attempts, Send(a) \/ Lose(a) PROVE ReplayInv'
  <2>1. UNCHANGED <<receipts, admitted, erased>>
    BY <1>3 DEF Send, Lose, kv, history
  <2>2. \A b \in Attempts : pc'[b] = pc[b] \/ pc'[b] \in {"dedupe", "lost"}
    BY <1>3, <1>t DEF Send, Lose, Goto
  <2> QED BY <1>1, <2>1, <2>2
<1>4. ASSUME NEW a \in Attempts, Intake(a) PROVE ReplayInv'
  <2>1. CASE Admit(a)
    <3>1. /\ pc[a] = "admit" /\ receipts' = receipts \cup {DeliveryOf(a)}
          /\ admitted' = admitted \cup {a} /\ erased' = erased
          /\ pc'[a] = "enqueue" /\ \A b \in Attempts \ {a} : pc'[b] = pc[b]
      BY <2>1, <1>t DEF Admit, PutReceipt, Goto
    <3>2. \A b \in Attempts \ {a} : SameDelivery(a, b) => pc[b] \notin {"gate", "admit"}
      <4> SUFFICES ASSUME NEW b \in Attempts \ {a}, SameDelivery(a, b)
                   PROVE  pc[b] \notin {"gate", "admit"}
        OBVIOUS
      <4>1. pc[a] = "unsent" \/ pc[b] = "unsent" \/ Answered(a) \/ Answered(b)
        BY <1>0, OneUnanswered
      <4> QED BY <3>1, <4>1 DEF Answered, ScanStages, FinalStages
    <3>3. \A b \in admitted : SameDelivery(a, b) => DeliveryOf(a) \in erased
      BY <3>1 DEF ReplayInv
    <3>4. \A b \in admitted' : DeliveryOf(b) \in receipts' \cup erased'
      BY <3>1 DEF ReplayInv
    <3>5. \A b \in Attempts, c \in admitted' :
            SameDelivery(b, c) /\ pc'[b] \in {"gate", "admit"} => DeliveryOf(b) \in erased'
      BY <3>1, <3>2 DEF ReplayInv, SameDelivery
    <3>6. ReplayOnlyAfterErasure'
      BY <3>1, <3>3 DEF ReplayInv, ReplayOnlyAfterErasure, SameDelivery, DeliveryOf
    <3> QED BY <1>0, <3>4, <3>5, <3>6 DEF ReplayInv, SameDelivery, DeliveryOf
  <2>2. CASE Dedupe(a) \/ Gate(a) \/ Enqueue(a) \/ NoteIgnored(a)
    <3>1. admitted' = admitted /\ erased' = erased /\ receipts \subseteq receipts'
      BY <2>2 DEF Dedupe, Gate, Enqueue, NoteIgnored, PutReceipt, kv, history
    <3>2. \A b \in Attempts \ {a} : pc'[b] = pc[b]
      BY <2>2, <1>t DEF Dedupe, Gate, Enqueue, NoteIgnored, Goto
    <3>3. \/ pc'[a] \notin {"gate", "admit"}
          \/ pc[a] = "gate"
          \/ DeliveryOf(a) \notin receipts
      BY <2>2, <1>t DEF Dedupe, Gate, Enqueue, NoteIgnored, Goto
    <3> QED BY <1>1, <3>1, <3>2, <3>3
  <2> QED BY <1>4, <2>1, <2>2 DEF Intake
<1>5. ASSUME NEW a \in Attempts, RunScan(a) PROVE ReplayInv'
  <2>1. UNCHANGED <<receipts, admitted, erased>>
    BY <1>5 DEF RunScan, StartScan, FetchFiles, CreateCheckRun, CompleteScan, ScanThrows, FailScan, kv, history
  <2>2. \A b \in Attempts : pc'[b] = pc[b] \/ pc'[b] \in ScanStages \cup FinalStages
    BY <1>0, <1>5, HandleMoves DEF Handle, RunScan, StartScan, FetchFiles, CreateCheckRun, CompleteScan,
       ScanThrows, FailScan, ScanStages
  <2> QED BY <1>1, <2>1, <2>2 DEF ScanStages, FinalStages
<1>6. ASSUME NEW a \in Attempts, Cleanup(a) PROVE ReplayInv'
  <2>1. admitted' = admitted /\ erased \subseteq erased' /\ receipts \subseteq receipts' \cup erased'
    <3>1. CASE VisitKey(a)
      BY <3>1 DEF VisitKey
    <3>2. CASE NoteCleanup(a)
      BY <3>2 DEF NoteCleanup, PutReceipt
    <3> QED BY <1>6, <3>1, <3>2 DEF Cleanup, RepeatCheck, ListPage, SweepDone, SweepThrows, PutAudit,
         Remember, CleanupDone, kv, history
  <2>2. \A b \in Attempts : pc'[b] = pc[b] \/ pc'[b] \notin {"gate", "admit"}
    BY <1>6, <1>t DEF Cleanup, NoteCleanup, RepeatCheck, ListPage, VisitKey, SweepDone, SweepThrows,
       PutAudit, Remember, CleanupDone, Goto
  <2> QED BY <1>1, <2>1, <2>2
<1> QED BY <1>2, <1>3, <1>4, <1>5, <1>6 DEF Next, Handle

\* When copies of a delivery do not overlap, a delivery is accepted twice only if a
\* cleanup deleted its receipt in between.
THEOREM ReplayNeedsErasure ==
  ASSUME SerialRedelivery
  PROVE  Spec => []ReplayOnlyAfterErasure
<1>1. ReplayInv => ReplayOnlyAfterErasure
  BY DEF ReplayInv
<1>2. ReplayInv /\ [Next]_vars => ReplayInv'
  BY ReplayInvStep
<1> QED BY <1>1, <1>2, ReplayInvInit, PTL DEF Spec

\* Scan work is done for accepted requests only.
AdmittedInv ==
  /\ TypeOK
  /\ checkRuns \subseteq admitted
  /\ \A a \in Attempts : pc[a] \in ScanStages \cup {"enqueue"} => a \in admitted

LEMMA AdmittedInvInit == Init => AdmittedInv
<1> SUFFICES ASSUME Init PROVE AdmittedInv
  OBVIOUS
<1>1. TypeOK /\ checkRuns = {} /\ \A a \in Attempts : pc[a] = "unsent"
  BY TypeInit DEF Init
<1> QED BY <1>1 DEF AdmittedInv, ScanStages

LEMMA AdmittedInvStep == AdmittedInv /\ [Next]_vars => AdmittedInv'
<1> SUFFICES ASSUME AdmittedInv, [Next]_vars PROVE AdmittedInv'
  OBVIOUS
<1>0. TypeOK /\ TypeOK'
  BY TypeStep DEF AdmittedInv
<1>t. pc \in [Attempts -> Stages]
  BY <1>0 DEF TypeOK
<1>1. ASSUME admitted \subseteq admitted', checkRuns' \subseteq admitted',
             \A a \in Attempts :
               pc'[a] \in ScanStages \cup {"enqueue"} =>
                 pc[a] \in ScanStages \cup {"enqueue"} \/ a \in admitted'
      PROVE  AdmittedInv'
  BY <1>0, <1>1 DEF AdmittedInv
<1>2. CASE UNCHANGED vars \/ TogglePause
  BY <1>1, <1>2 DEF vars, TogglePause, kv, history, AdmittedInv
<1>3. ASSUME NEW a \in Attempts, Send(a) \/ Lose(a) \/ Cleanup(a) PROVE AdmittedInv'
  <2>1. UNCHANGED <<checkRuns, admitted>>
    BY <1>3 DEF Send, Lose, Cleanup, NoteCleanup, RepeatCheck, ListPage, VisitKey, SweepDone, SweepThrows,
       PutAudit, Remember, CleanupDone, kv, history
  <2>2. \A b \in Attempts : pc'[b] = pc[b] \/ pc'[b] \notin ScanStages \cup {"enqueue"}
    BY <1>3, <1>t DEF Send, Lose, Cleanup, NoteCleanup, RepeatCheck, ListPage, VisitKey, SweepDone,
       SweepThrows, PutAudit, Remember, CleanupDone, Goto, ScanStages
  <2> QED BY <1>1, <2>1, <2>2 DEF AdmittedInv
<1>4. ASSUME NEW a \in Attempts, Intake(a) PROVE AdmittedInv'
  <2>1. \A b \in Attempts \ {a} : pc'[b] = pc[b]
    BY <1>0, <1>4, HandleMoves DEF Handle
  <2>2. checkRuns' = checkRuns /\ admitted \subseteq admitted'
    BY <1>4 DEF Intake, Dedupe, NoteIgnored, Gate, Admit, Enqueue, kv, history
  <2>3. pc'[a] \in ScanStages \cup {"enqueue"} => pc[a] = "enqueue" \/ a \in admitted'
    BY <1>4, <1>t DEF Intake, Dedupe, NoteIgnored, Gate, Admit, Enqueue, Goto, ScanStages
  <2> QED BY <1>1, <2>1, <2>2, <2>3 DEF AdmittedInv
<1>5. ASSUME NEW a \in Attempts, RunScan(a) PROVE AdmittedInv'
  <2>1. \A b \in Attempts \ {a} : pc'[b] = pc[b]
    BY <1>0, <1>5, HandleMoves DEF Handle
  <2>2. pc[a] \in ScanStages
    BY <1>5 DEF RunScan, StartScan, FetchFiles, CreateCheckRun, CompleteScan, ScanThrows, FailScan, ScanStages
  <2>3. admitted' = admitted /\ checkRuns' \subseteq checkRuns \cup {a}
    BY <1>5 DEF RunScan, StartScan, FetchFiles, CreateCheckRun, CompleteScan, ScanThrows, FailScan, kv, history
  <2> QED BY <1>1, <2>1, <2>2, <2>3 DEF AdmittedInv
<1> QED BY <1>2, <1>3, <1>4, <1>5 DEF Next, Handle

\* Two check runs of one delivery, which the code does create when copies overlap, have no
\* other cause but a cleanup: when they do not overlap, the receipt was deleted in between.
CheckRunsRepeatOnlyAfterErasure ==
  \A a, b \in checkRuns : DeliveryOf(a) = DeliveryOf(b) /\ a # b => DeliveryOf(a) \in erased
THEOREM SecondCheckRunNeedsErasure ==
  ASSUME SerialRedelivery
  PROVE  Spec => []CheckRunsRepeatOnlyAfterErasure
<1>1. AdmittedInv /\ ReplayOnlyAfterErasure => CheckRunsRepeatOnlyAfterErasure
  BY DEF AdmittedInv, ReplayOnlyAfterErasure, CheckRunsRepeatOnlyAfterErasure
<1>2. Spec => []ReplayOnlyAfterErasure
  BY ReplayNeedsErasure
<1> QED BY <1>1, <1>2, AdmittedInvInit, AdmittedInvStep, PTL DEF Spec

-----------------------------------------------------------------------------
(* Repeated cleanups.                                                      *)

Sweeping == {"sweep", "audit", "audit_failure"}

\* A remembered scope is backed by a completed audit that no copy of its delivery can
\* overwrite any more.
BackedInv ==
  /\ TypeOK
  /\ SerialInv
  /\ \A a \in Attempts : pc[a] = "remember" => audit[DeliveryOf(a)] = "completed"
  /\ \A s \in remembered :
       \E d \in Deliveries :
         /\ audit[d] = "completed" /\ s \in IdempotencyScopes(d)
         /\ \A a \in Attempts : DeliveryOf(a) = d => pc[a] \notin Sweeping

LEMMA BackedInvInit == Init => BackedInv
<1> SUFFICES ASSUME Init PROVE BackedInv
  OBVIOUS
<1>1. TypeOK
  BY TypeInit
<1>2. remembered = {} /\ \A a \in Attempts : pc[a] = "unsent"
  BY DEF Init
<1> QED BY <1>1, <1>2 DEF BackedInv, SerialInv

LEMMA BackedInvStep ==
  ASSUME SerialRedelivery
  PROVE  BackedInv /\ [Next]_vars => BackedInv'
<1> SUFFICES ASSUME BackedInv, [Next]_vars PROVE BackedInv'
  OBVIOUS
<1>0. TypeOK /\ TypeOK' /\ SerialInv /\ SerialInv'
  BY TypeStep, SerialStep DEF BackedInv
<1>t. pc \in [Attempts -> Stages] /\ audit \in [Deliveries -> {"none", "completed", "failed"}]
  BY <1>0 DEF TypeOK
<1> USE DEF Sweeping
<1>1. ASSUME UNCHANGED audit, UNCHANGED remembered,
             \A a \in Attempts :
               /\ pc'[a] = "remember" => pc[a] = "remember"
               /\ pc'[a] \in Sweeping => pc[a] \in Sweeping
      PROVE  BackedInv'
  <2>1. \A a \in Attempts : pc'[a] = "remember" => audit'[DeliveryOf(a)] = "completed"
    BY <1>1 DEF BackedInv
  <2>2. ASSUME NEW s \in remembered'
        PROVE  \E d \in Deliveries :
                 /\ audit'[d] = "completed" /\ s \in IdempotencyScopes(d)
                 /\ \A a \in Attempts : DeliveryOf(a) = d => pc'[a] \notin Sweeping
    BY <1>1 DEF BackedInv
  <2> QED BY <1>0, <2>1, <2>2 DEF BackedInv, DeliveryOf, IdempotencyScopes
<1>2. CASE UNCHANGED vars \/ TogglePause
  BY <1>1, <1>2 DEF vars, TogglePause, kv
<1>3. ASSUME NEW a \in Attempts, Send(a) \/ Lose(a) \/ Intake(a) \/ RunScan(a) PROVE BackedInv'
  <2>1. UNCHANGED audit /\ UNCHANGED remembered
    BY <1>3 DEF Send, Lose, Intake, Dedupe, NoteIgnored, Gate, Admit, Enqueue, RunScan, StartScan, FetchFiles,
       CreateCheckRun, CompleteScan, ScanThrows, FailScan, kv
  <2>2. \A b \in Attempts : pc'[b] = pc[b] \/ pc'[b] \notin Sweeping \cup {"remember"}
    BY <1>3, <1>t DEF Send, Lose, Intake, Dedupe, NoteIgnored, Gate, Admit, Enqueue, RunScan, StartScan,
       FetchFiles, CreateCheckRun, CompleteScan, ScanThrows, FailScan, Goto
  <2> QED BY <1>1, <2>1, <2>2
<1>4. ASSUME NEW a \in Attempts,
             NoteCleanup(a) \/ ListPage(a) \/ VisitKey(a) \/ SweepDone(a) \/ SweepThrows(a) \/ CleanupDone(a)
      PROVE  BackedInv'
  <2>1. UNCHANGED audit /\ UNCHANGED remembered
    BY <1>4 DEF NoteCleanup, ListPage, VisitKey, SweepDone, SweepThrows, CleanupDone, kv
  <2>2. \A b \in Attempts : \/ pc'[b] = pc[b]
                            \/ pc[b] = "sweep" /\ pc'[b] \in {"audit", "audit_failure"}
                            \/ pc'[b] \notin Sweeping \cup {"remember"}
    BY <1>4, <1>t DEF NoteCleanup, ListPage, VisitKey, SweepDone, SweepThrows, CleanupDone, Goto
  <2> QED BY <1>1, <2>1, <2>2
<1>5. ASSUME NEW a \in Attempts, RepeatCheck(a) PROVE BackedInv'
  <2>1. UNCHANGED audit /\ UNCHANGED remembered
    BY <1>5 DEF RepeatCheck, kv
  <2>2. \A b \in Attempts \ {a} : pc'[b] = pc[b]
    BY <1>5, <1>t DEF RepeatCheck, Goto
  <2>3. \/ pc'[a] = "repeated"
        \/ pc'[a] = "sweep" /\ IdempotencyScopes(DeliveryOf(a)) \cap remembered = {}
    BY <1>5, <1>t DEF RepeatCheck, Goto
  <2>4. \A b \in Attempts : pc'[b] = "remember" => audit'[DeliveryOf(b)] = "completed"
    BY <2>1, <2>2, <2>3 DEF BackedInv
  <2>5. ASSUME NEW s \in remembered'
        PROVE  \E d \in Deliveries :
                 /\ audit'[d] = "completed" /\ s \in IdempotencyScopes(d)
                 /\ \A b \in Attempts : DeliveryOf(b) = d => pc'[b] \notin Sweeping
    BY <2>1, <2>2, <2>3 DEF BackedInv
  <2> QED BY <1>0, <2>4, <2>5 DEF BackedInv, DeliveryOf, IdempotencyScopes
<1>6. ASSUME NEW a \in Attempts, PutAudit(a) PROVE BackedInv'
  <2>1. /\ pc[a] \in {"audit", "audit_failure"} /\ UNCHANGED remembered
        /\ \A b \in Attempts \ {a} : pc'[b] = pc[b]
        /\ \A d \in Deliveries : d # DeliveryOf(a) => audit'[d] = audit[d]
        /\ \/ pc'[a] = "remember" /\ audit'[DeliveryOf(a)] = "completed"
           \/ pc'[a] = "cleanup_failed"
    BY <1>6, <1>t, AttemptDelivery DEF PutAudit, Goto
  <2>2. \A b \in Attempts : pc'[b] = "remember" => audit'[DeliveryOf(b)] = "completed"
    <3> SUFFICES ASSUME NEW b \in Attempts, pc'[b] = "remember"
                 PROVE  audit'[DeliveryOf(b)] = "completed"
      OBVIOUS
    <3>1. CASE b = a
      BY <2>1, <3>1
    <3>2. CASE b # a
      <4>1. pc[b] = "remember" /\ DeliveryOf(b) \in Deliveries
        BY <2>1, <3>2, AttemptDelivery
      <4>2. ~SameDelivery(a, b)
        BY <1>0, <2>1, <3>2, <4>1, OneUnanswered DEF Answered, ScanStages, FinalStages
      <4> QED BY <2>1, <4>1, <4>2 DEF BackedInv, SameDelivery
    <3> QED BY <3>1, <3>2
  <2>3. ASSUME NEW s \in remembered'
        PROVE  \E d \in Deliveries :
                 /\ audit'[d] = "completed" /\ s \in IdempotencyScopes(d)
                 /\ \A b \in Attempts : DeliveryOf(b) = d => pc'[b] \notin Sweeping
    BY <2>1 DEF BackedInv
  <2> QED BY <1>0, <2>2, <2>3 DEF BackedInv, DeliveryOf, IdempotencyScopes
<1>7. ASSUME NEW a \in Attempts, Remember(a) PROVE BackedInv'
  <2>1. PICK s \in IdempotencyScopes(DeliveryOf(a)) : remembered' = remembered \cup {s}
    BY <1>7 DEF Remember
  <2>2. pc[a] = "remember" /\ UNCHANGED pc /\ UNCHANGED audit
    BY <1>7 DEF Remember
  <2>3. \A b \in Attempts : DeliveryOf(b) = DeliveryOf(a) => pc[b] \notin Sweeping
    <3> SUFFICES ASSUME NEW b \in Attempts, DeliveryOf(b) = DeliveryOf(a) PROVE pc[b] \notin Sweeping
      OBVIOUS
    <3>1. CASE b = a
      BY <2>2, <3>1
    <3>2. CASE b # a
      BY <1>0, <2>2, <3>2, OneUnanswered DEF SameDelivery, Answered, ScanStages, FinalStages
    <3> QED BY <3>1, <3>2
  <2>4. audit[DeliveryOf(a)] = "completed" /\ DeliveryOf(a) \in Deliveries
    BY <2>2, AttemptDelivery DEF BackedInv
  <2>5. ASSUME NEW r \in remembered'
        PROVE  \E d \in Deliveries :
                 /\ audit'[d] = "completed" /\ r \in IdempotencyScopes(d)
                 /\ \A b \in Attempts : DeliveryOf(b) = d => pc'[b] \notin Sweeping
    BY <2>1, <2>2, <2>3, <2>4 DEF BackedInv
  <2> QED BY <1>0, <2>2, <2>5 DEF BackedInv, DeliveryOf, IdempotencyScopes
<1> QED BY <1>2, <1>3, <1>4, <1>5, <1>6, <1>7 DEF Next, Handle, Cleanup

\* When copies of a delivery do not overlap, a cleanup is answered "repeated" only for
\* a scope whose cleanup is on record as completed.
THEOREM RepeatedIsBacked ==
  ASSUME SerialRedelivery
  PROVE  Spec => []RepeatedAnswersAreBacked
<1>1. BackedInv => RepeatedAnswersAreBacked
  BY DEF BackedInv, RepeatedAnswersAreBacked
<1>2. BackedInv /\ [Next]_vars => BackedInv'
  BY BackedInvStep
<1> QED BY <1>1, <1>2, BackedInvInit, PTL DEF Spec
=============================================================================
