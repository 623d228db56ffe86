--------------------------- MODULE MCHostedPolicies ---------------------------
(***************************************************************************)
(* The rate limit, the retention plans and the release gates for TLC.      *)
(* They share no state: each is explored while the two others stay at      *)
(* their start, so the reachable states are those of the three alone.      *)
(***************************************************************************)
EXTENDS RateLimit, RetentionPlans, ReleaseGates, TLC

CONSTANTS r1, r2, r3, r4, i1, i2, p1, p2, n1, j1, c1

FourRequests == {r1, r2, r3, r4}
RequestSymmetry == Permutations(FourRequests)

\* A report and a job of one repository, a checkout of another.
Identity == (n1 :> [installation |-> i1, repository |-> p1])
         @@ (j1 :> [installation |-> i1, repository |-> p1])
         @@ (c1 :> [installation |-> i1, repository |-> p2])
NoDaysOrMore == {0, 9}
Cleanup(trigger, i, p) == [trigger |-> trigger, installation |-> i, repository |-> p]
FiveCleanups ==
  {Cleanup("repository_removed", i2, p1), Cleanup("repeated_cleanup", i1, p1),
   Cleanup("installation_deleted", i1, Unset),
   Cleanup("retention_expired", i1, Unset), Cleanup("retention_expired", i1, p1)}

\* One requirement the bundles prove, one only the local bundle shows apart, one from CI.
ThreeRequirements == {"clean_ci", "queue_worker_cleanup", "release_cleanup"}
Row(status, at, reference) == [status |-> status, at |-> at, reference |-> reference]
FourRows == {Row("passed", 0, TRUE), Row("passed", 1, TRUE),
             Row("passed", Undated, FALSE), Row("failed", 0, TRUE)}
Good == [status |-> "completed", clean |-> TRUE, reason |-> "", published |-> TRUE]
TimedOut == [status |-> "failed", clean |-> TRUE, reason |-> "timeout", published |-> FALSE]
Crashed == [status |-> "failed", clean |-> TRUE, reason |-> "scan_failed", published |-> FALSE]
Leaking == [status |-> "completed", clean |-> FALSE, reason |-> "", published |-> TRUE]
Rehearsed(ticks, ingress) ==
  [replay |-> TRUE, ticks |-> ticks, logs |-> "clean", privacySafe |-> TRUE, ingress |-> ingress]
FourRehearsals == {Rehearsed({Good, TimedOut}, TRUE), Rehearsed({Good, Crashed}, TRUE),
                   Rehearsed({Good, TimedOut, Leaking}, TRUE), Rehearsed({Good, TimedOut}, FALSE)}
FourDeployments == {{}, {"adapter_ref"}, {"claims"}, {"raw_key"}}
TimeoutProbe == {"timeout"}

PoliciesInit == Init /\ RetentionInit /\ GatesInit
PoliciesNext ==
  \/ RetentionInit /\ GatesInit /\ Next /\ UNCHANGED <<retentionVars, gateVars>>
  \/ Init /\ GatesInit /\ RetentionNext /\ UNCHANGED <<vars, gateVars>>
  \/ Init /\ RetentionInit /\ GatesNext /\ UNCHANGED <<vars, retentionVars>>
PoliciesSpec == PoliciesInit /\ [][PoliciesNext]_<<vars, retentionVars, gateVars>>
=============================================================================
