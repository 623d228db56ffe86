---------------------------- MODULE HostedIngress ----------------------------
(***************************************************************************)
(* The hosted webhook ingress, hosted/cloudflare-worker/src/index.js.      *)
(*                                                                         *)
(* Every webhook request is a process of its own.  The requests share      *)
(* nothing but one key-value namespace (env.HOSTED_EVENTS), whose get,     *)
(* put, delete and list are atomic one at a time, and they interleave at   *)
(* every await.  A request may be lost at any await: the runtime evicts    *)
(* it, its waitUntil budget ends, or a key-value call outside a try throws.*)
(*                                                                         *)
(* GitHub may send a delivery more than once: an attempt is a pair         *)
(* <<delivery, copy>>.  What a delivery says never changes, so it is the   *)
(* constant Event[d]; the receipt and scan records are reduced to their    *)
(* presence and status, because everything else in them is a function of   *)
(* the key.  Names of keys are natural numbers, in the order in which the  *)
(* namespace lists them.                                                   *)
(***************************************************************************)
EXTENDS Naturals, FiniteSets

CONSTANTS
  Deliveries,           \* GitHub delivery ids: the keys delivery:<id>
  ScanKeys,             \* the keys scan:<installation>:<repository>:<pr>:<head>:<version>
  Repos,                \* repositories, each within one installation
  Installations,
  KeyRepo,              \* the repository a scan key names
  RepoInstallation,     \* the installation a repository id is used in
  Event,                \* what each delivery says
  Copies,               \* how many times GitHub may send each delivery
  PageSize,             \* keys returned by one list call
  MaxLost,              \* bound on requests lost half-way
  OperatorPauses,       \* whether the operator uses the pause switch
  CheckRunsConfigured,  \* hasGitHubCheckRunConfig(env)
  SerialRedelivery      \* a copy is sent only after the previous one was answered

PullKinds == {"pull_request", "inactive_pull_request"}
CleanupKinds == {"uninstall", "repos_removed"}
EventKinds == PullKinds \cup CleanupKinds \cup
              {"installation_noop", "unsupported_event", "invalid"}

Events == [kind : EventKinds, key : ScanKeys, repos : SUBSET Repos, installation : Installations]

ASSUME KeysAssumption ==
  /\ Deliveries \subseteq Nat
  /\ ScanKeys \subseteq Nat
  /\ Deliveries \cap ScanKeys = {}
ASSUME ScopesAssumption ==
  /\ KeyRepo \in [ScanKeys -> Repos]
  /\ RepoInstallation \in [Repos -> Installations]
ASSUME EventAssumption ==
  /\ Event \in [Deliveries -> Events]
  /\ \A d \in Deliveries :
       /\ Event[d].kind \in PullKinds =>
            Event[d].installation = RepoInstallation[KeyRepo[Event[d].key]]
       /\ Event[d].kind = "repos_removed" =>
            /\ Event[d].repos # {}
            /\ \A r \in Event[d].repos : RepoInstallation[r] = Event[d].installation
ASSUME BoundsAssumption ==
  /\ Copies \in [Deliveries -> Nat]
  /\ PageSize \in Nat \ {0}
  /\ MaxLost \in Nat
  /\ OperatorPauses \in BOOLEAN
  /\ CheckRunsConfigured \in BOOLEAN
  /\ SerialRedelivery \in BOOLEAN

VARIABLES
  receipts,   \* deliveries whose delivery:<id> record is stored
  scan,       \* status of each scan:... record, "absent" when there is none
  remembered, \* scopes whose idempotency records (repeated cleanup) are stored
  audit,      \* the cleanup audit record of each delivery
  paused,     \* control:hosted_processing_paused, set by an operator
  checkRuns,  \* attempts whose check run exists at GitHub
  pc,         \* the await each attempt is at
  todo,       \* key prefixes a cleanup has not listed yet
  ahead,      \* keys of the listed prefix that are past the list cursor
  page,       \* listed keys the cleanup has not visited yet
  admitted,   \* history: attempts that stored an accepted receipt
  erased,     \* history: deliveries whose receipt a cleanup deleted
  leftover    \* history: what a cleanup found stored and nobody has rewritten or deleted

kv == <<receipts, scan, remembered, audit, paused>>
sweep == <<todo, ahead, page>>
history == <<admitted, erased, leftover>>
vars == <<kv, checkRuns, pc, sweep, history>>

Attempts == UNION {{d} \X (1..Copies[d]) : d \in Deliveries}
DeliveryOf(a) == a[1]
EventOf(a) == Event[DeliveryOf(a)]
KeyOf(a) == EventOf(a).key

ScanStatuses == {"queued", "running", "completed", "failed"}
ScanStages == {"start", "fetch", "publish", "complete", "fail"}
IntakeStages == {"dedupe", "gate", "note", "admit", "enqueue", "note_cleanup",
                 "repeat_check", "sweep", "audit", "remember", "audit_failure"}
FinalStages == {"rejected", "duplicate", "ignored", "paused", "limited", "unconfigured",
                "done", "failed", "repeated", "cleaned", "cleanup_failed", "lost"}
Stages == {"unsent"} \cup IntakeStages \cup ScanStages \cup FinalStages

Active(a) == pc[a] \in IntakeStages \cup ScanStages
\* ctx.waitUntil: the response is sent before the scan stages run.
Answered(a) == pc[a] \in ScanStages \cup FinalStages

-----------------------------------------------------------------------------
(* Scopes of a cleanup event, as the worker derives them.                  *)

\* resolveInstallationCleanup: the repositories the event takes away.
CleanupScope(d) ==
  IF Event[d].kind = "uninstall"
  THEN {r \in Repos : RepoInstallation[r] = Event[d].installation}
  ELSE Event[d].repos

\* The prefixes scan:<installation>: or scan:<installation>:<repository>:.
ScanPrefixes(d) ==
  IF Event[d].kind = "uninstall"
  THEN {{k \in ScanKeys : RepoInstallation[KeyRepo[k]] = Event[d].installation}}
  ELSE {{k \in ScanKeys : KeyRepo[k] = r} : r \in Event[d].repos}

\* installationCleanupIdempotencyKeys: the scope each pair of keys names.
IdempotencyScopes(d) ==
  IF Event[d].kind = "uninstall"
  THEN {<<"installation", Event[d].installation>>}
  ELSE {<<"repository", r>> : r \in Event[d].repos}

IdempotencyKeys == ({"installation"} \X Installations) \cup ({"repository"} \X Repos)

\* A receipt carries an installation id (top level or in identity) unless its
\* event was unsupported, and a repository id only for pull requests.
DeliveryRecordMatches(e, d) ==
  /\ Event[e].kind \notin {"unsupported_event", "invalid"}
  /\ Event[e].installation = Event[d].installation
  /\ \/ Event[d].kind = "uninstall"
     \/ Event[e].kind \in PullKinds /\ KeyRepo[Event[e].key] \in Event[d].repos

Stored == receipts \cup {k \in ScanKeys : scan[k] # "absent"}

-----------------------------------------------------------------------------
Init ==
  /\ receipts = {} /\ remembered = {} /\ checkRuns = {}
  /\ scan = [k \in ScanKeys |-> "absent"]
  /\ audit = [d \in Deliveries |-> "none"]
  /\ paused = FALSE
  /\ pc = [a \in Attempts |-> "unsent"]
  /\ todo = [a \in Attempts |-> {}]
  /\ ahead = [a \in Attempts |-> {}]
  /\ page = [a \in Attempts |-> {}]
  /\ admitted = {} /\ erased = {}
  /\ leftover = [a \in Attempts |-> {}]

Goto(a, s) == pc' = [pc EXCEPT ![a] = s]

\* History: key k is written or deleted, so no cleanup is to blame for it any more.
Touch(k) == leftover' = [c \in Attempts |-> leftover[c] \ {k}]

PutReceipt(a) ==
  /\ receipts' = receipts \cup {DeliveryOf(a)}
  /\ Touch(DeliveryOf(a))

PutScan(a, status) ==
  /\ scan' = [scan EXCEPT ![KeyOf(a)] = status]
  /\ Touch(KeyOf(a))

\* GitHub sends a delivery, or sends it again.
Send(a) ==
  /\ pc[a] = "unsent"
  /\ a[2] > 1 => LET previous == <<a[1], a[2] - 1>>
                 IN  /\ pc[previous] # "unsent"
                     /\ SerialRedelivery => Answered(previous)
  /\ Goto(a, "dedupe")
  /\ UNCHANGED <<kv, checkRuns, sweep, history>>

\* get delivery:<id>, then everything up to the next await: the duplicate answer,
\* the rejections that store nothing, and the branch on the event.
Dedupe(a) ==
  /\ pc[a] = "dedupe"
  /\ Goto(a, IF EventOf(a).kind = "invalid" THEN "rejected"
             ELSE IF DeliveryOf(a) \in receipts THEN "duplicate"
             ELSE CASE EventOf(a).kind = "pull_request" -> "gate"
                    [] EventOf(a).kind \in {"inactive_pull_request", "unsupported_event"} -> "note"
                    [] OTHER -> "note_cleanup")
  /\ UNCHANGED <<kv, checkRuns, sweep, history>>

\* Drafts, other pull request actions and other events leave a receipt only.
NoteIgnored(a) ==
  /\ pc[a] = "note"
  /\ PutReceipt(a)
  /\ Goto(a, "ignored")
  /\ UNCHANGED <<scan, remembered, audit, paused, checkRuns, sweep, admitted, erased>>

\* isHostedProcessingPaused and checkRepositoryRateLimit.  Whether the counter
\* allows the event is RateLimit's subject: here it may say either.
Gate(a) ==
  /\ pc[a] = "gate"
  /\ \/ paused /\ Goto(a, "paused")
     \/ ~paused /\ \E verdict \in {"limited", "admit"} : Goto(a, verdict)
  /\ UNCHANGED <<kv, checkRuns, sweep, history>>

\* The accepted receipt is stored before the scan record.
AdmitUnrecorded(a) ==  \* mutant: the receipt is not stored
  /\ pc[a] = "admit"
  /\ admitted' = admitted \cup {a}
  /\ Goto(a, "enqueue")
  /\ UNCHANGED <<kv, checkRuns, sweep, erased, leftover>>
Admit(a) ==
  /\ pc[a] = "admit"
  /\ PutReceipt(a)
  /\ admitted' = admitted \cup {a}
  /\ Goto(a, "enqueue")
  /\ UNCHANGED <<scan, remembered, audit, paused, checkRuns, sweep, erased>>

\* The scan record is put unconditionally, whatever the key held.
EnqueuePending(a) ==  \* mutant: a status no reader of the record knows
  /\ pc[a] = "enqueue"
  /\ PutScan(a, "pending")
  /\ Goto(a, IF CheckRunsConfigured THEN "start" ELSE "unconfigured")
  /\ UNCHANGED <<receipts, remembered, audit, paused, checkRuns, sweep, admitted, erased>>
Enqueue(a) ==
  /\ pc[a] = "enqueue"
  /\ PutScan(a, "queued")
  /\ Goto(a, IF CheckRunsConfigured THEN "start" ELSE "unconfigured")
  /\ UNCHANGED <<receipts, remembered, audit, paused, checkRuns, sweep, admitted, erased>>

-----------------------------------------------------------------------------
(* runHostedPrRiskCheck, run by ctx.waitUntil after the response.          *)

StartScan(a) ==
  /\ pc[a] = "start"
  /\ PutScan(a, "running")
  /\ Goto(a, "fetch")
  /\ UNCHANGED <<receipts, remembered, audit, paused, checkRuns, sweep, admitted, erased>>

\* requestGitHubInstallationToken and fetchPullRequestFiles.
FetchFiles(a) ==
  /\ pc[a] = "fetch"
  /\ Goto(a, "publish")
  /\ UNCHANGED <<kv, checkRuns, sweep, history>>

\* createGitHubCheckRun: the check run may exist although its reply is lost.
CreateCheckRunUnchecked(a) ==  \* mutant: response.ok is not looked at
  /\ pc[a] = "publish"
  /\ checkRuns' \in {checkRuns, checkRuns \cup {a}}
  /\ Goto(a, "complete")
  /\ UNCHANGED <<kv, sweep, history>>
CreateCheckRun(a) ==
  /\ pc[a] = "publish"
  /\ checkRuns' = checkRuns \cup {a}
  /\ \E next \in {"complete", "fail"} : Goto(a, next)
  /\ UNCHANGED <<kv, sweep, history>>

CompleteScan(a) ==
  /\ pc[a] = "complete"
  /\ PutScan(a, "completed")
  /\ Goto(a, "done")
  /\ UNCHANGED <<receipts, remembered, audit, paused, checkRuns, sweep, admitted, erased>>

\* Any call of the try block throws before it takes effect.
ScanThrows(a) ==
  /\ pc[a] \in ScanStages \ {"fail"}
  /\ Goto(a, "fail")
  /\ UNCHANGED <<kv, checkRuns, sweep, history>>

FailScanSilently(a) ==  \* mutant: the catch block stores nothing
  /\ pc[a] = "fail"
  /\ Goto(a, "failed")
  /\ UNCHANGED <<kv, checkRuns, sweep, history>>
FailScan(a) ==
  /\ pc[a] = "fail"
  /\ PutScan(a, "failed")
  /\ Goto(a, "failed")
  /\ UNCHANGED <<receipts, remembered, audit, paused, checkRuns, sweep, admitted, erased>>

-----------------------------------------------------------------------------
(* handleInstallationCleanupEvent.                                         *)

NoteCleanup(a) ==
  /\ pc[a] = "note_cleanup"
  /\ PutReceipt(a)
  /\ Goto(a, IF EventOf(a).kind \in CleanupKinds THEN "repeat_check" ELSE "ignored")
  /\ UNCHANGED <<scan, remembered, audit, paused, checkRuns, sweep, admitted, erased>>

\* What a cleanup request is asked to delete, of what is stored now.
Owed(a) ==
  LET d == DeliveryOf(a)
  IN  {k \in Stored :
         \/ k \in ScanKeys /\ KeyRepo[k] \in CleanupScope(d)
         \/ k \in Deliveries \ {d} /\ DeliveryRecordMatches(k, d)}

\* readRepeatedCleanupResult returns the first stored key of any of the scopes;
\* otherwise deleteCompactRecordsForInstallation starts.
RepeatCheck(a) ==
  LET d == DeliveryOf(a)
  IN  /\ pc[a] = "repeat_check"
      /\ leftover' = [leftover EXCEPT ![a] = Owed(a)]
      /\ IF IdempotencyScopes(d) \cap remembered # {}
         THEN Goto(a, "repeated") /\ UNCHANGED todo
         ELSE Goto(a, "sweep") /\ todo' = [todo EXCEPT ![a] = ScanPrefixes(d) \cup {Deliveries}]
      /\ UNCHANGED <<kv, checkRuns, ahead, page, admitted, erased>>

\* One list call: the first keys of the prefix, after the cursor when there is one.
IsPage(P, found) ==
  /\ \A x \in P, y \in found \ P : x < y
  /\ Cardinality(P) <= PageSize
  /\ P # found => Cardinality(P) = PageSize

\* Where the next list call continues: behind the last listed key.
PastNothing(prefix, found, P) == {}  \* mutant: list_complete is not looked at
PastInclusive(prefix, found, P) ==   \* mutant: the cursor names the last listed key itself
  IF P = found THEN {} ELSE {k \in prefix : \A x \in P : x <= k}
PastPage(prefix, found, P) ==
  IF P = found THEN {} ELSE {k \in prefix : \A x \in P : x < k}

ListPage(a) ==
  /\ pc[a] = "sweep" /\ page[a] = {}
  /\ \E prefix \in {ahead[a]} \cup todo[a] :
       /\ IF ahead[a] # {}
          THEN prefix = ahead[a] /\ UNCHANGED todo
          ELSE /\ prefix \in todo[a]
               /\ prefix = Deliveries => todo[a] = {Deliveries}
               /\ todo' = [todo EXCEPT ![a] = @ \ {prefix}]
       /\ LET found == prefix \cap Stored
          IN  \E P \in SUBSET found :
                /\ IsPage(P, found)
                /\ page' = [page EXCEPT ![a] = P]
                /\ ahead' = [ahead EXCEPT ![a] = PastPage(prefix, found, P)]
  /\ UNCHANGED <<kv, checkRuns, pc, history>>

\* The get and the delete of one listed key: scan records go unconditionally,
\* receipts when they match the scope and are not the request's own.
ErasableUnmatched(a, k) ==  \* mutant: receipts are not matched against the scope
  k \in ScanKeys \cup (Deliveries \ {DeliveryOf(a)})
Erasable(a, k) ==
  \/ k \in ScanKeys
  \/ k \in Deliveries \ {DeliveryOf(a)} /\ DeliveryRecordMatches(k, DeliveryOf(a))

VisitKey(a) ==
  /\ pc[a] = "sweep"
  /\ \E k \in page[a] :
       /\ \A x \in page[a] : k <= x
       /\ page' = [page EXCEPT ![a] = @ \ {k}]
       /\ IF Erasable(a, k)
          THEN /\ scan' = [x \in ScanKeys |-> IF x = k THEN "absent" ELSE scan[x]]
               /\ receipts' = receipts \ {k}
               /\ erased' = erased \cup (receipts \cap {k})
               /\ Touch(k)
          ELSE UNCHANGED <<scan, receipts, erased, leftover>>
  /\ UNCHANGED <<remembered, audit, paused, checkRuns, pc, todo, ahead, admitted>>

SweepDone(a) ==
  /\ pc[a] = "sweep" /\ page[a] = {} /\ ahead[a] = {} /\ todo[a] = {}
  /\ Goto(a, "audit")
  /\ UNCHANGED <<kv, checkRuns, sweep, history>>

\* A list, get or delete throws (or the namespace cannot list): caught.
SweepThrows(a) ==
  /\ pc[a] = "sweep"
  /\ Goto(a, "audit_failure")
  /\ UNCHANGED <<kv, checkRuns, sweep, history>>

\* storeCleanupAuditRecord, with status completed or failed.
PutAuditAndGoOn(a) ==  \* mutant: the failure path does not return
  /\ pc[a] \in {"audit", "audit_failure"}
  /\ audit' = [audit EXCEPT ![DeliveryOf(a)] = IF pc[a] = "audit" THEN "completed" ELSE "failed"]
  /\ Goto(a, "remember")
  /\ UNCHANGED <<receipts, scan, remembered, paused, checkRuns, sweep, history>>
PutAudit(a) ==
  /\ pc[a] \in {"audit", "audit_failure"}
  /\ audit' = [audit EXCEPT ![DeliveryOf(a)] = IF pc[a] = "audit" THEN "completed" ELSE "failed"]
  /\ Goto(a, IF pc[a] = "audit" THEN "remember" ELSE "cleanup_failed")
  /\ UNCHANGED <<receipts, scan, remembered, paused, checkRuns, sweep, history>>

\* storeRepeatedCleanupResult, one scope at a time.
Remember(a) ==
  /\ pc[a] = "remember"
  /\ \E s \in IdempotencyScopes(DeliveryOf(a)) \ remembered : remembered' = remembered \cup {s}
  /\ UNCHANGED <<receipts, scan, audit, paused, checkRuns, pc, sweep, history>>

CleanupDone(a) ==
  /\ pc[a] = "remember"
  /\ IdempotencyScopes(DeliveryOf(a)) \subseteq remembered
  /\ Goto(a, "cleaned")
  /\ UNCHANGED <<kv, checkRuns, sweep, history>>

-----------------------------------------------------------------------------
\* The request ends at an await with nothing more done.
Lose(a) ==
  /\ Active(a)
  /\ Cardinality({b \in Attempts : pc[b] = "lost"}) < MaxLost
  /\ Goto(a, "lost")
  /\ UNCHANGED <<kv, checkRuns, sweep, history>>

\* An operator sets or clears control:hosted_processing_paused.
TogglePause ==
  /\ OperatorPauses
  /\ paused' = ~paused
  /\ UNCHANGED <<receipts, scan, remembered, audit, checkRuns, pc, sweep, history>>

Intake(a) == Dedupe(a) \/ NoteIgnored(a) \/ Gate(a) \/ Admit(a) \/ Enqueue(a)
RunScan(a) == \/ StartScan(a) \/ FetchFiles(a) \/ CreateCheckRun(a)
              \/ CompleteScan(a) \/ ScanThrows(a) \/ FailScan(a)
Cleanup(a) == \/ NoteCleanup(a) \/ RepeatCheck(a) \/ ListPage(a) \/ VisitKey(a)
              \/ SweepDone(a) \/ SweepThrows(a) \/ PutAudit(a) \/ Remember(a) \/ CleanupDone(a)

Handle(a) == Intake(a) \/ RunScan(a) \/ Cleanup(a)

Next == \/ TogglePause
        \/ \E a \in Attempts : Send(a) \/ Handle(a) \/ Lose(a)

Spec == Init /\ [][Next]_vars

\* The event loop resumes a request whose await has settled.
FairSpec == Spec /\ \A a \in Attempts : WF_vars(Handle(a))

-----------------------------------------------------------------------------
(* Properties.                                                             *)

\* The stores hold what their writers put there and every request is at a known await.
TypeOK ==
  /\ receipts \subseteq Deliveries
  /\ scan \in [ScanKeys -> ScanStatuses \cup {"absent"}]
  /\ remembered \subseteq IdempotencyKeys
  /\ audit \in [Deliveries -> {"none", "completed", "failed"}]
  /\ paused \in BOOLEAN
  /\ checkRuns \subseteq Attempts
  /\ pc \in [Attempts -> Stages]
  /\ todo \in [Attempts -> SUBSET SUBSET (ScanKeys \cup Deliveries)]
  /\ ahead \in [Attempts -> SUBSET (ScanKeys \cup Deliveries)]
  /\ page \in [Attempts -> SUBSET (ScanKeys \cup Deliveries)]
  /\ admitted \subseteq Attempts
  /\ erased \subseteq Deliveries
  /\ leftover \in [Attempts -> SUBSET (ScanKeys \cup Deliveries)]

\* A record says "completed" only when a check run for that key exists at GitHub,
\* although other requests overwrite the record and the run's steps may throw.
CompletedScanWasPublished ==
  \A k \in ScanKeys :
    scan[k] = "completed" => \E a \in checkRuns : EventOf(a).kind = "pull_request" /\ KeyOf(a) = k

\* A record is "queued" or "running" only while some request for its key is still at
\* work on it, was lost, or found no check-run configuration: two requests that
\* overwrite each other's record never strand it between them.
InProgressScanHasARunner ==
  \A k \in ScanKeys :
    scan[k] \in {"queued", "running"} =>
      \E a \in Attempts :
        /\ EventOf(a).kind = "pull_request" /\ KeyOf(a) = k
        /\ pc[a] \in ScanStages \cup {"lost", "unconfigured"}

\* When GitHub repeats a delivery only after it was answered, the delivery is
\* accepted a second time only if a cleanup deleted its receipt in between.
ReplayOnlyAfterErasure ==
  \A a, b \in admitted : DeliveryOf(a) = DeliveryOf(b) /\ a # b => DeliveryOf(a) \in erased

\* When a cleanup has swept the namespace, nothing is left of what was stored in its
\* scope when it started, except what another request has written again since:
\* the list pages miss nothing, whatever is written and deleted around them.
CleanupLeavesNothingBehind ==
  \A a \in Attempts : pc[a] \in {"audit", "remember", "cleaned"} => leftover[a] = {}

\* A scan record or a receipt disappears only in a cleanup whose scope covers it.
CleanupStaysInScope ==
  [][\A k \in Stored \ Stored' :
       \E a \in Attempts : pc[a] = "sweep" /\ k \in Owed(a)]_vars

\* An idempotency record, which makes every later cleanup of its scope answer
\* "repeated" and delete nothing, exists only for a cleanup audited as completed.
RepeatedAnswersAreBacked ==
  \A s \in remembered :
    \E d \in Deliveries : audit[d] = "completed" /\ s \in IdempotencyScopes(d)

\* Without lost requests, a record in progress settles: its run completes, fails, or
\* a cleanup deletes the record.
ScanSettles ==
  \A k \in ScanKeys :
    scan[k] \in {"queued", "running"} ~> scan[k] \in {"absent", "completed", "failed"}

\* Without lost requests, every cleanup ends although other requests keep storing
\* keys while it pages through the namespace.
CleanupEnds ==
  \A a \in Attempts : pc[a] = "sweep" ~> pc[a] \in {"cleaned", "cleanup_failed"}

-----------------------------------------------------------------------------
(* What the documents say and the code does not do; each has a run that     *)
(* refutes it.                                                             *)

\* docs/hosted-deployment-model.md:78: a duplicate message should "not create
\* duplicate check runs".
OneCheckRunPerDelivery ==
  \A a, b \in checkRuns : DeliveryOf(a) = DeliveryOf(b) => a = b

\* docs/hosted-uninstall-data-deletion.md:99: workers "must check installation and
\* repository scope before source fetch and before writing check runs".
NoCheckRunAfterCleanup ==
  [][\A a \in checkRuns' \ checkRuns, d \in Deliveries :
       Event[d].kind \in CleanupKinds /\ audit[d] = "completed"
         => KeyRepo[KeyOf(a)] \notin CleanupScope(d)]_vars

\* hosted/cloudflare-worker/README.md: an installation_repositories event with action
\* removed "deletes compact scan: records for the removed repository IDs".
AnsweredCleanupLeavesNothingBehind ==
  \A a \in Attempts : pc[a] \in {"cleaned", "repeated"} => leftover[a] \cap ScanKeys = {}
=============================================================================
