------------------------ MODULE HostedStaging_proofs ------------------------
(***************************************************************************)
(* What holds of the staging harness for every number of ticks, replays,   *)
(* workers and jobs, on top of what holds of the hosted service.           *)
(***************************************************************************)
EXTENDS HostedStaging, HostedService_proofs

Ats == {"idle", "mkdir", "write", "sandbox", "run", "remove", "count"}

HarnessType ==
  /\ replay \in [Deliveries -> HarnessCalls] /\ tick \in [Workers -> HarnessCalls]
  /\ registered \subseteq Keys /\ sandboxes \subseteq Keys
  /\ snapshot \in Snapshots
  /\ ticks \in Nat /\ lastClean \in BOOLEAN /\ overlapped \in BOOLEAN
  /\ stray \in [Keys -> Nat] /\ late \subseteq Keys

\* A tick and the call of the service it is around.
Around(w) ==
  /\ tick[w].at = "sandbox" => run[w].at = "scan"
  /\ tick[w].at = "run" => Active(w)
  /\ tick[w].at \notin {"sandbox", "run"} => run[w] = Idle

StagingInv == TypeInv /\ HarnessType /\ \A w \in Workers : Around(w)

\* The harness does nothing to the service but call it.
LEMMA Projects == [StagingNext]_stagingVars => [Next]_vars
<1> SUFFICES ASSUME [StagingNext]_stagingVars PROVE [Next]_vars
  OBVIOUS
<1>1. ASSUME NEW d \in Deliveries, Replay(d) \/ ReplayReads(d) \/ ReplayWrites(d)
      PROVE  [Next]_vars
  BY <1>1 DEF Replay, ReplayReads, ReplayWrites, Next
<1>2. ASSUME NEW w \in Workers, TickEnds(w) PROVE UNCHANGED vars
  BY <1>2 DEF TickEnds, RemoveSandbox, ForgetSandboxes, RemovalFails, TickReads, TickWrites, CountSandboxes
<1>3. ASSUME NEW w \in Workers, TickClaims(w) \/ TickFindsNothing(w) \/ MakeSandbox(w)
      PROVE  [Next]_vars
  BY <1>3 DEF TickClaims, TickFindsNothing, MakeSandbox, Next
<1>4. ASSUME NEW w \in Workers, TickRuns(w) PROVE Next
  BY <1>4 DEF TickRuns, Settle, Next
<1>5. ASSUME NEW k \in Keys, StrayEnds(k) PROVE UNCHANGED vars
  BY <1>5 DEF StrayEnds
<1> QED BY <1>1, <1>2, <1>3, <1>4, <1>5 DEF StagingNext, stagingVars

\* Every behaviour of the harness is one of the service (staging-harness.ts makes its
\* runtime with createHostedServiceRuntime and only calls it): all that is proved of the
\* service holds in the harness too.
THEOREM HarnessRunsTheService == StagingSpec => Spec
<1>1. StagingInit => Init
  BY DEF StagingInit
<1> QED BY <1>1, Projects, PTL DEF StagingSpec, Spec

\* So the harness, too, keeps what the job board promises: whatever ticks and replays
\* overlap, an attempt is handed to one worker, which alone ends it.
THEOREM HarnessKeepsTheBoard ==
  ASSUME ~ RerunsWhileRunning
  PROVE  StagingSpec => Board!Safety
<1>1. Spec => Board!Safety
  BY ImplementsTheBoard
<1> QED BY <1>1, HarnessRunsTheService, PTL

-----------------------------------------------------------------------------
(* Types.                                                                  *)

LEMMA CallIs ==
  ASSUME NEW at \in Ats, NEW todo \in SUBSET Keys, NEW value \in Snapshots
  PROVE  /\ Call(at, todo, value) \in HarnessCalls
         /\ Call(at, todo, value).at = at
         /\ Call(at, todo, value).todo = todo
         /\ Call(at, todo, value).value = value
BY DEF Call, HarnessCalls, Ats

LEMMA NoJobsIs == NoJobs \in Snapshots /\ Resting \in HarnessCalls /\ Resting.at = "idle"
<1>1. NoJobs \in Snapshots
  BY DEF NoJobs, Snapshots
<1> QED BY <1>1, CallIs DEF Resting, Ats

LEMMA QueueIs == TypeInv => QueueNow \in Snapshots
BY DEF TypeInv, TypeOK, QueueNow, Snapshots

LEMMA StagingInitial == StagingInit => StagingInv
<1> SUFFICES ASSUME StagingInit PROVE StagingInv
  OBVIOUS
<1>1. TypeInv
  BY TypeInit DEF StagingInit
<1>2. HarnessType
  BY NoJobsIs DEF StagingInit, HarnessType
<1>3. \A w \in Workers : Around(w)
  BY NoJobsIs DEF StagingInit, Init, Around
<1> QED BY <1>1, <1>2, <1>3 DEF StagingInv

\* A replay leaves the calls of the service and the ticks alone.
LEMMA ReplayType ==
  ASSUME StagingInv, NEW d \in Deliveries, Replay(d) \/ ReplayReads(d) \/ ReplayWrites(d)
  PROVE  HarnessType' /\ \A w \in Workers : Around(w)'
<1>1. UNCHANGED <<run, tick, registered, sandboxes, ticks, lastClean, strays>>
  BY DEF Replay, ReplayReads, ReplayWrites, HandleWebhook, vars
<1>2. replay' \in [Deliveries -> HarnessCalls] /\ snapshot' \in Snapshots
  <2>1. CASE Replay(d)
    BY <2>1, CallIs, NoJobsIs DEF Replay, StagingInv, HarnessType, Ats
  <2>2. CASE ReplayReads(d)
    <3>1. Call("write", {}, QueueNow) \in HarnessCalls
      BY CallIs, QueueIs DEF StagingInv, Ats
    <3> QED BY <2>2, <3>1 DEF ReplayReads, StagingInv, HarnessType
  <2>3. CASE ReplayWrites(d)
    <3>1. replay[d].value \in Snapshots
      BY DEF StagingInv, HarnessType, HarnessCalls
    <3> QED BY <2>3, <3>1, NoJobsIs DEF ReplayWrites, StagingInv, HarnessType
  <2> QED BY <2>1, <2>2, <2>3
<1>3. overlapped' \in BOOLEAN
  <2>1. CASE Replay(d)
    BY <2>1, Zenon DEF Replay, Begins
  <2>2. CASE ReplayReads(d) \/ ReplayWrites(d)
    BY <2>2 DEF ReplayReads, ReplayWrites, StagingInv, HarnessType
  <2> QED BY <2>1, <2>2
<1>4. \A w \in Workers : Around(w)'
  BY <1>1 DEF StagingInv, Around, Active
<1> QED BY <1>1, <1>2, <1>3, <1>4 DEF StagingInv, HarnessType, strays

\* What a tick does to itself, to the call it is around and to the paths.
LEMMA TickEffect ==
  ASSUME StagingInv, NEW w \in Workers,
         TickClaims(w) \/ TickFindsNothing(w) \/ MakeSandbox(w) \/ TickRuns(w) \/ TickEnds(w)
  PROVE  \E c \in HarnessCalls :
           /\ tick' = [tick EXCEPT ![w] = c]
           /\ \A v \in Workers : v # w => run'[v] = run[v]
           /\ c.at = "sandbox" => run'[w].at = "scan"
           /\ c.at = "run" => Active(w)'
           /\ c.at \notin {"sandbox", "run"} => run'[w] = Idle
<1>1. /\ HarnessType /\ TypeInv /\ Around(w)
      /\ NoJobs \in Snapshots /\ Resting \in HarnessCalls /\ Resting.at = "idle"
  BY NoJobsIs DEF StagingInv
<1>2. Removing(w) \in HarnessCalls /\ Removing(w).at = "remove"
  BY <1>1, CallIs DEF Removing, HarnessType, Ats
<1>3. CASE TickClaims(w)
  <2>0. Claim(w) /\ tick[w].at = "idle"
    BY <1>3 DEF TickClaims
  <2>1. run[w] = Idle
    BY <1>1, <2>0 DEF Around
  <2>a. PICK k \in Keys :
           /\ \A v \in Workers : v # w => run'[v] = run[v]
           /\ \/ run'[w] = [at |-> "scan", key |-> k, scope |-> scope, reportId |-> 0]
              \/ run' = run
    BY <1>1, <2>0, ClaimEffect
  <2>b. run'[w] = Idle \/ run'[w].at = "scan"
    BY <2>1, <2>a
  <2>2. Call("sandbox", {}, NoJobs) \in HarnessCalls /\ Call("sandbox", {}, NoJobs).at = "sandbox"
    BY <1>1, CallIs DEF Ats
  <2> QED BY <1>2, <1>3, <2>a, <2>b, <2>2 DEF TickClaims, TickAt
<1>4. CASE TickFindsNothing(w)
  <2>1. run' = run /\ run[w] = Idle
    BY <1>1, <1>4 DEF TickFindsNothing, vars, Around
  <2> QED BY <1>2, <1>4, <2>1 DEF TickFindsNothing, TickAt
<1>5. CASE MakeSandbox(w)
  <2>1. run' = run /\ run[w].at = "scan"
    BY <1>1, <1>5 DEF MakeSandbox, vars, Around
  <2>2. Call("run", {}, NoJobs) \in HarnessCalls /\ Call("run", {}, NoJobs).at = "run"
    BY <1>1, CallIs DEF Ats
  <2> QED BY <1>5, <2>1, <2>2 DEF MakeSandbox, TickAt, Active
<1>6. CASE TickRuns(w)
  <2>1. Settle(w) /\ (tick[w].at = "sandbox" => run'[w] = Idle)
    BY <1>6 DEF TickRuns, Settle, ScanThrows, Fail, StagingInv, TypeInv, TypeOK
  <2>2. /\ run' \in [Workers -> Calls \cup {Idle}]
        /\ \A v \in Workers : v # w => run'[v] = run[v]
    BY <1>1, <2>1, SettleFrame
  <2>3. CASE run'[w] = Idle
    BY <1>2, <1>6, <2>2, <2>3 DEF TickRuns, TickAt
  <2>4. CASE run'[w] # Idle
    <3>1. tick[w].at = "run" /\ tick' = tick /\ tick[w] \in HarnessCalls /\ tick' = [tick EXCEPT ![w] = tick[w]]
      BY <1>1, <1>6, <2>1, <2>4 DEF TickRuns, HarnessType
    <3>2. Active(w)'
      BY <2>2, <2>4 DEF Active, Calls
    <3> QED BY <2>2, <3>1, <3>2
  <2> QED BY <2>3, <2>4
<1>7. CASE TickEnds(w)
  <2>1. run' = run /\ run[w] = Idle
    BY <1>1, <1>7 DEF TickEnds, RemoveSandbox, ForgetSandboxes, RemovalFails, TickReads, TickWrites,
           CountSandboxes, vars, Around
  <2>2. \E c \in HarnessCalls : tick' = [tick EXCEPT ![w] = c] /\ c.at \notin {"sandbox", "run"}
    <3>1. ASSUME NEW k \in Keys, RemoveSandbox(w, k)
          PROVE  \E c \in HarnessCalls : tick' = [tick EXCEPT ![w] = c] /\ c.at \notin {"sandbox", "run"}
      <4>1. tick[w].todo \ {k} \in SUBSET Keys
        BY <1>1 DEF HarnessType, HarnessCalls
      <4> DEFINE c == Call("remove", tick[w].todo \ {k}, NoJobs)
      <4>2. c \in HarnessCalls /\ c.at = "remove"
        BY <1>1, <4>1, CallIs DEF Ats
      <4>3. tick' = [tick EXCEPT ![w] = c]
        BY <3>1 DEF RemoveSandbox, TickAt
      <4> QED BY <4>2, <4>3
    <3>2. CASE ForgetSandboxes(w)
      <4>1. Call("mkdir", {}, NoJobs) \in HarnessCalls /\ Call("mkdir", {}, NoJobs).at = "mkdir"
        BY <1>1, CallIs DEF Ats
      <4> QED BY <3>2, <4>1 DEF ForgetSandboxes, TickAt
    <3>3. CASE RemovalFails(w) \/ CountSandboxes(w)
      BY <1>1, <3>3 DEF RemovalFails, CountSandboxes, TickAt
    <3>4. CASE TickReads(w)
      <4>1. Call("write", {}, QueueNow) \in HarnessCalls /\ Call("write", {}, QueueNow).at = "write"
        BY <1>1, CallIs, QueueIs DEF Ats
      <4> QED BY <3>4, <4>1 DEF TickReads, TickAt
    <3>5. CASE TickWrites(w)
      <4>1. Call("count", {}, NoJobs) \in HarnessCalls /\ Call("count", {}, NoJobs).at = "count"
        BY <1>1, CallIs DEF Ats
      <4> QED BY <3>5, <4>1 DEF TickWrites, TickAt
    <3> QED BY <1>7, <3>1, <3>2, <3>3, <3>4, <3>5 DEF TickEnds
  <2> QED BY <2>1, <2>2
<1> QED BY <1>3, <1>4, <1>5, <1>6, <1>7

LEMMA TickType ==
  ASSUME StagingInv, TypeInv', NEW w \in Workers,
         TickClaims(w) \/ TickFindsNothing(w) \/ MakeSandbox(w) \/ TickRuns(w) \/ TickEnds(w)
  PROVE  HarnessType' /\ \A v \in Workers : Around(v)'
<1>0. HarnessType /\ \A v \in Workers : Around(v)
  BY DEF StagingInv
<1>1. PICK c \in HarnessCalls :
           /\ tick' = [tick EXCEPT ![w] = c]
           /\ \A v \in Workers : v # w => run'[v] = run[v]
           /\ c.at = "sandbox" => run'[w].at = "scan"
           /\ c.at = "run" => Active(w)'
           /\ c.at \notin {"sandbox", "run"} => run'[w] = Idle
  BY TickEffect
<1>2. tick' \in [Workers -> HarnessCalls]
      /\ tick'[w] = c /\ \A v \in Workers : v # w => tick'[v] = tick[v]
  BY <1>0, <1>1 DEF HarnessType
<1>3. \A v \in Workers : Around(v)'
  BY <1>0, <1>1, <1>2 DEF Around, Active
<1>4. replay' = replay
  BY DEF TickClaims, TickFindsNothing, MakeSandbox, TickRuns, TickEnds, RemoveSandbox,
         ForgetSandboxes, RemovalFails, TickReads, TickWrites, CountSandboxes
<1>5. registered' \subseteq Keys
  <2>1. CASE TickClaims(w)
    <3>1. registered' = registered \/ (run'[w] # Idle /\ registered' = registered \cup {run'[w].key})
      BY <2>1 DEF TickClaims
    <3>2. run'[w] # Idle => run'[w].key \in Keys
      BY DEF TypeInv, TypeOK, Calls
    <3> QED BY <1>0, <3>1, <3>2 DEF HarnessType
  <2>2. CASE ~ TickClaims(w)
    <3>1. registered' \in {registered, {}}
      BY <2>2 DEF TickFindsNothing, MakeSandbox, TickRuns, TickEnds, RemoveSandbox,
             ForgetSandboxes, RemovalFails, TickReads, TickWrites, CountSandboxes
    <3> QED BY <1>0, <3>1 DEF HarnessType
  <2> QED BY <2>1, <2>2
<1>6. sandboxes' \subseteq Keys
  <2>1. CASE MakeSandbox(w)
    <3>1. run[w].key \in Keys
      BY <1>0, <2>1, ActiveCall DEF MakeSandbox, Around, Active, StagingInv, TypeInv
    <3> QED BY <1>0, <2>1, <3>1 DEF MakeSandbox, HarnessType
  <2>2. CASE ~ MakeSandbox(w)
    <3>1. sandboxes' \subseteq sandboxes
      BY <2>2 DEF TickClaims, TickFindsNothing, TickRuns, TickEnds, RemoveSandbox,
             ForgetSandboxes, RemovalFails, TickReads, TickWrites, CountSandboxes
    <3> QED BY <1>0, <3>1 DEF HarnessType
  <2> QED BY <2>1, <2>2
<1>7. snapshot' \in Snapshots
  <2>1. snapshot' \in {snapshot, tick[w].value}
    BY DEF TickClaims, TickFindsNothing, MakeSandbox, TickRuns, TickEnds, RemoveSandbox,
           ForgetSandboxes, RemovalFails, TickReads, TickWrites, CountSandboxes
  <2> QED BY <1>0, <2>1 DEF HarnessType, HarnessCalls
<1>8. ticks' \in Nat
  <2>1. ticks' \in {ticks, ticks + 1}
    BY DEF TickClaims, TickFindsNothing, TickBegins, MakeSandbox, TickRuns, TickEnds, RemoveSandbox,
           ForgetSandboxes, RemovalFails, TickReads, TickWrites, CountSandboxes
  <2> QED BY <1>0, <2>1 DEF HarnessType
<1>9. lastClean' \in BOOLEAN
  <2>1. CASE RemovalFails(w) \/ CountSandboxes(w)
    BY <2>1, Zenon DEF RemovalFails, CountSandboxes
  <2>2. CASE ~ (RemovalFails(w) \/ CountSandboxes(w))
    <3>1. lastClean' = lastClean
      BY <2>2 DEF TickClaims, TickFindsNothing, MakeSandbox, TickRuns, TickEnds, RemoveSandbox,
             ForgetSandboxes, TickReads, TickWrites
    <3> QED BY <1>0, <3>1 DEF HarnessType
  <2> QED BY <2>1, <2>2
<1>10. overlapped' \in BOOLEAN
  <2>1. CASE TickClaims(w) \/ TickFindsNothing(w)
    <3>1. Begins
      BY <2>1 DEF TickClaims, TickFindsNothing, TickBegins
    <3> QED BY <3>1, Zenon DEF Begins
  <2>2. CASE ~ (TickClaims(w) \/ TickFindsNothing(w))
    <3>1. overlapped' = overlapped
      BY <2>2 DEF MakeSandbox, TickRuns, TickEnds, RemoveSandbox,
             ForgetSandboxes, RemovalFails, TickReads, TickWrites, CountSandboxes
    <3> QED BY <1>0, <3>1 DEF HarnessType
  <2> QED BY <2>1, <2>2
<1>11. stray' \in [Keys -> Nat]
  <2>1. CASE RemovalFails(w)
    BY <1>0, <2>1 DEF RemovalFails, LeaveRunning, HarnessType
  <2>2. CASE ~ RemovalFails(w)
    <3>1. stray' = stray
      BY <2>2 DEF TickClaims, TickFindsNothing, MakeSandbox, TickRuns, TickEnds, RemoveSandbox,
             ForgetSandboxes, TickReads, TickWrites, CountSandboxes, strays
    <3> QED BY <1>0, <3>1 DEF HarnessType
  <2> QED BY <2>1, <2>2
<1>12. late' \subseteq Keys
  <2>1. late' \subseteq late
    BY DEF TickClaims, TickFindsNothing, MakeSandbox, TickRuns, TickEnds, RemoveSandbox,
           ForgetSandboxes, RemovalFails, TickReads, TickWrites, CountSandboxes, strays
  <2> QED BY <1>0, <2>1 DEF HarnessType
<1> QED BY <1>0, <1>2, <1>3, <1>4, <1>5, <1>6, <1>7, <1>8, <1>9, <1>10, <1>11, <1>12 DEF HarnessType

\* A stray removal takes a directory and leaves calls alone.
LEMMA StrayType ==
  ASSUME StagingInv, NEW k \in Keys, StrayEnds(k)
  PROVE  HarnessType' /\ \A w \in Workers : Around(w)'
<1>1. HarnessType /\ UNCHANGED <<run, replay, tick, registered, snapshot, ticks, lastClean, overlapped>>
  BY DEF StagingInv, StrayEnds, vars
<1>2. sandboxes' \subseteq Keys /\ late' \subseteq Keys
  BY <1>1 DEF StrayEnds, HarnessType
<1>3. stray' \in [Keys -> Nat]
  BY <1>1 DEF StrayEnds, HarnessType
<1>4. \A w \in Workers : Around(w)'
  BY <1>1 DEF StagingInv, Around, Active
<1> QED BY <1>1, <1>2, <1>3, <1>4 DEF HarnessType

LEMMA StagingStep == StagingInv /\ [StagingNext]_stagingVars => StagingInv'
<1> SUFFICES ASSUME StagingInv, [StagingNext]_stagingVars PROVE StagingInv'
  OBVIOUS
<1>1. TypeInv'
  BY Projects, TypeStep DEF StagingInv
<1>2. ASSUME NEW d \in Deliveries, Replay(d) \/ ReplayReads(d) \/ ReplayWrites(d) PROVE StagingInv'
  BY <1>1, <1>2, ReplayType DEF StagingInv
<1>3. ASSUME NEW w \in Workers,
             TickClaims(w) \/ TickFindsNothing(w) \/ MakeSandbox(w) \/ TickRuns(w) \/ TickEnds(w)
      PROVE  StagingInv'
  BY <1>1, <1>3, TickType DEF StagingInv
<1>4. CASE UNCHANGED stagingVars
  <2>1. UNCHANGED <<run, harness>>
    BY <1>4 DEF stagingVars, vars
  <2> QED BY <1>1, <2>1 DEF harness, strays, StagingInv, HarnessType, Around, Active
<1>5. ASSUME NEW k \in Keys, StrayEnds(k) PROVE StagingInv'
  BY <1>1, <1>5, StrayType DEF StagingInv
<1> QED BY <1>2, <1>3, <1>4, <1>5 DEF StagingNext

LEMMA StagingAlways == StagingSpec => []StagingInv
<1> QED BY StagingInitial, StagingStep, PTL DEF StagingSpec

\* Calls of the harness, paths and snapshots keep their shape.
THEOREM StagingTypeCorrect == StagingSpec => []StagingTypeOK
<1>1. StagingInv => StagingTypeOK
  BY DEF StagingInv, TypeInv, HarnessType, StagingTypeOK
<1> QED BY <1>1, StagingAlways, PTL

-----------------------------------------------------------------------------
(* Cleanup.                                                                *)

\* With no tick under way, what the last one counted is what there is.
CleanInv == lastClean /\ (\A w \in Workers : tick[w].at = "idle") => sandboxes = {}

LEMMA CleanStep == StagingInv /\ CleanInv /\ [StagingNext]_stagingVars => CleanInv'
<1> SUFFICES ASSUME StagingInv, CleanInv, [StagingNext]_stagingVars,
                    lastClean', \A w \in Workers : tick'[w].at = "idle"
             PROVE  sandboxes' = {}
  BY DEF CleanInv
<1>1. CASE UNCHANGED <<tick, sandboxes, lastClean>>
  BY <1>1 DEF CleanInv
<1>2. ASSUME NEW d \in Deliveries, Replay(d) \/ ReplayReads(d) \/ ReplayWrites(d)
      PROVE  UNCHANGED <<tick, sandboxes, lastClean>>
  BY <1>2 DEF Replay, ReplayReads, ReplayWrites
<1>3. ASSUME NEW w \in Workers,
             TickClaims(w) \/ TickFindsNothing(w) \/ MakeSandbox(w) \/ TickRuns(w) \/ TickEnds(w)
      PROVE  sandboxes' = {}
  <2>1. tick \in [Workers -> HarnessCalls] /\ tick'[w].at = "idle"
    BY DEF StagingInv, HarnessType
  <2>2. /\ Removing(w).at = "remove" /\ Call("sandbox", {}, NoJobs).at = "sandbox"
        /\ Call("run", {}, NoJobs).at = "run" /\ Call("mkdir", {}, NoJobs).at = "mkdir"
        /\ Call("write", {}, QueueNow).at = "write" /\ Call("count", {}, NoJobs).at = "count"
        /\ \A k \in Keys : Call("remove", tick[w].todo \ {k}, NoJobs).at = "remove"
    BY DEF Call, Removing
  <2>3. CountSandboxes(w) \/ RemovalFails(w)
    <3>1. ~ TickClaims(w) /\ ~ TickFindsNothing(w) /\ ~ MakeSandbox(w)
      BY <2>1, <2>2 DEF TickClaims, TickFindsNothing, MakeSandbox, TickAt
    <3>2. ~ TickRuns(w)
      BY <2>1, <2>2 DEF TickRuns, TickAt
    <3>3. ~ (\E k \in Keys : RemoveSandbox(w, k)) /\ ~ ForgetSandboxes(w)
      BY <2>1, <2>2 DEF RemoveSandbox, ForgetSandboxes, TickAt
    <3>4. ~ TickReads(w) /\ ~ TickWrites(w)
      BY <2>1, <2>2 DEF TickReads, TickWrites, TickAt
    <3> QED BY <1>3, <3>1, <3>2, <3>3, <3>4 DEF TickEnds
  <2>4. CASE CountSandboxes(w)
    BY <2>4 DEF CountSandboxes
  <2>5. CASE RemovalFails(w)
    BY <2>5 DEF RemovalFails
  <2> QED BY <2>3, <2>4, <2>5
<1>4. CASE UNCHANGED stagingVars
  BY <1>1, <1>4 DEF stagingVars, harness
<1>5. ASSUME NEW k \in Keys, StrayEnds(k) PROVE sandboxes' = {}
  <2>1. sandboxes' \subseteq sandboxes /\ UNCHANGED <<tick, lastClean>>
    BY <1>5 DEF StrayEnds
  <2> QED BY <2>1 DEF CleanInv
<1> QED BY <1>1, <1>2, <1>3, <1>4, <1>5 DEF StagingNext

\* However ticks overlap, a sandbox is left only if the last tick to end said so.
THEOREM VerifiedCleanup == StagingSpec => []VerifiedCleanupLeavesNothing
<1>1. StagingInit => CleanInv
  BY DEF StagingInit, CleanInv
<1>2. CleanInv => VerifiedCleanupLeavesNothing
  BY DEF CleanInv, Quiet, VerifiedCleanupLeavesNothing
<1> QED BY <1>1, <1>2, CleanStep, StagingAlways, PTL DEF StagingSpec

-----------------------------------------------------------------------------
(* The snapshot.                                                           *)

\* What a value of jobs.json shows as completed is on disk and has a check run.
Backed(v) == \A k \in Keys :
  v[k].status = "completed" => Saved(k, v[k].reportId) /\ checkRuns[k] > 0

\* The values a step of the harness can write or hold.
Values == {snapshot, QueueNow, NoJobs} \cup {replay[d].value : d \in Deliveries}
          \cup {tick[w].value : w \in Workers}

BackedInv ==
  /\ Backed(snapshot)
  /\ \A d \in Deliveries : Backed(replay[d].value)
  /\ \A w \in Workers : Backed(tick[w].value)

LEMMA BackedStays ==
  ASSUME TypeInv, [Next]_vars, NEW v \in Snapshots, Backed(v)
  PROVE  Backed(v)'
<1>1. /\ \A k \in Keys, id \in Nat : Saved(k, id) => Saved(k, id)'
      /\ \A k \in Keys : checkRuns'[k] >= checkRuns[k]
  <2>1. CASE UNCHANGED store
    BY <2>1 DEF store, Saved, TypeInv, TypeOK
  <2>2. ASSUME NEW w \in Workers, Claim(w) PROVE UNCHANGED store
    BY <2>2 DEF Claim
  <2>3. ASSUME NEW d \in Deliveries, HandleWebhook(d) PROVE UNCHANGED store
    BY <2>3 DEF HandleWebhook
  <2>4. ASSUME NEW r \in Repos, ChangeScope(r) PROVE UNCHANGED store
    BY <2>4 DEF ChangeScope
  <2>5. CASE UNCHANGED vars
    BY <2>1, <2>5 DEF vars
  <2>6. ASSUME NEW w \in Workers, Settle(w)
        PROVE  /\ \A k \in Keys, id \in Nat : Saved(k, id) => Saved(k, id)'
               /\ \A k \in Keys : checkRuns'[k] >= checkRuns[k]
    BY <2>6, StoresGrow
  <2> QED BY <2>1, <2>2, <2>3, <2>4, <2>5, <2>6 DEF Next
<1>2. \A k \in Keys : checkRuns[k] \in Nat /\ checkRuns'[k] \in Nat /\ v[k].reportId \in Nat
  BY TypeStep DEF TypeInv, TypeOK, Snapshots
<1>3. ASSUME NEW k \in Keys, v[k].status = "completed"
      PROVE  Saved(k, v[k].reportId)' /\ checkRuns'[k] > 0
  <2>1. Saved(k, v[k].reportId) /\ checkRuns[k] > 0
    BY <1>3 DEF Backed
  <2> QED BY <1>1, <1>2, <2>1
<1> QED BY <1>3 DEF Backed

LEMMA ReplayValues ==
  ASSUME StagingInv, NEW d \in Deliveries, Replay(d) \/ ReplayReads(d) \/ ReplayWrites(d)
  PROVE  snapshot' \in Values /\ \A e \in Deliveries : replay'[e].value \in Values
<1>1. replay \in [Deliveries -> HarnessCalls]
  BY DEF StagingInv, HarnessType
<1>2. Resting.value = NoJobs /\ Call("mkdir", {}, NoJobs).value = NoJobs
      /\ Call("write", {}, QueueNow).value = QueueNow
  BY DEF Resting, Call
<1>3. replay'[d].value \in {NoJobs, QueueNow} /\ \A e \in Deliveries : e # d => replay'[e] = replay[e]
  BY <1>1, <1>2 DEF Replay, ReplayReads, ReplayWrites
<1>4. snapshot' \in {snapshot, replay[d].value}
  BY DEF Replay, ReplayReads, ReplayWrites
<1> QED BY <1>3, <1>4 DEF Values

LEMMA TickValues ==
  ASSUME StagingInv, NEW w \in Workers,
         TickClaims(w) \/ TickFindsNothing(w) \/ MakeSandbox(w) \/ TickRuns(w) \/ TickEnds(w)
  PROVE  snapshot' \in Values /\ \A v \in Workers : tick'[v].value \in Values
<1>1. tick \in [Workers -> HarnessCalls]
  BY DEF StagingInv, HarnessType
<1>2. /\ Resting.value = NoJobs /\ Removing(w).value = NoJobs
      /\ Call("write", {}, QueueNow).value = QueueNow
      /\ Call("sandbox", {}, NoJobs).value = NoJobs /\ Call("run", {}, NoJobs).value = NoJobs
      /\ Call("mkdir", {}, NoJobs).value = NoJobs /\ Call("count", {}, NoJobs).value = NoJobs
      /\ \A k \in Keys : Call("remove", tick[w].todo \ {k}, NoJobs).value = NoJobs
  BY DEF Resting, Removing, Call
<1>3. \/ tick' = tick
      \/ /\ \A v \in Workers : v # w => tick'[v] = tick[v]
         /\ tick'[w].value \in {NoJobs, QueueNow}
  <2>1. CASE TickClaims(w) \/ TickFindsNothing(w) \/ MakeSandbox(w)
    BY <1>1, <1>2, <2>1 DEF TickClaims, TickFindsNothing, MakeSandbox, TickAt
  <2>2. CASE TickRuns(w)
    BY <1>1, <1>2, <2>2 DEF TickRuns, TickAt
  <2>3. CASE TickEnds(w)
    <3>1. \/ tick' = [tick EXCEPT ![w] = Resting]
          \/ tick' = [tick EXCEPT ![w] = Call("mkdir", {}, NoJobs)]
          \/ tick' = [tick EXCEPT ![w] = Call("count", {}, NoJobs)]
          \/ tick' = [tick EXCEPT ![w] = Call("write", {}, QueueNow)]
          \/ \E k \in Keys : tick' = [tick EXCEPT ![w] = Call("remove", tick[w].todo \ {k}, NoJobs)]
      BY <2>3 DEF TickEnds, RemoveSandbox, ForgetSandboxes, RemovalFails, TickReads, TickWrites,
                  CountSandboxes, TickAt
    <3> QED BY <1>1, <1>2, <3>1
  <2> QED BY <2>1, <2>2, <2>3
<1>4. snapshot' \in {snapshot, tick[w].value}
  BY DEF TickClaims, TickFindsNothing, MakeSandbox, TickRuns, TickEnds, RemoveSandbox,
         ForgetSandboxes, RemovalFails, TickReads, TickWrites, CountSandboxes
<1> QED BY <1>3, <1>4 DEF Values

LEMMA BackedStep ==
  StagingInv /\ CompletedJobIsPublished /\ BackedInv /\ [StagingNext]_stagingVars => BackedInv'
<1> SUFFICES ASSUME StagingInv, CompletedJobIsPublished, BackedInv, [StagingNext]_stagingVars
             PROVE  BackedInv'
  OBVIOUS
<1>1. Backed(QueueNow) /\ Backed(NoJobs)
  BY DEF Backed, QueueNow, NoJobs, CompletedJobIsPublished, Saved
<1>2. Values \subseteq Snapshots
  BY NoJobsIs, QueueIs DEF Values, StagingInv, HarnessType, HarnessCalls
<1>3. ASSUME NEW v \in Values PROVE Backed(v)'
  <2>1. Backed(v)
    BY <1>1, <1>3 DEF Values, BackedInv
  <2> QED BY <1>2, <1>3, <2>1, Projects, BackedStays DEF StagingInv
<1>4. /\ snapshot' \in Values
      /\ \A d \in Deliveries : replay'[d].value \in Values
      /\ \A w \in Workers : tick'[w].value \in Values
  <2>1. /\ snapshot \in Values
        /\ \A d \in Deliveries : replay[d].value \in Values
        /\ \A w \in Workers : tick[w].value \in Values
    BY DEF Values
  <2>2. ASSUME NEW d \in Deliveries, Replay(d) \/ ReplayReads(d) \/ ReplayWrites(d) PROVE tick' = tick
    BY <2>2 DEF Replay, ReplayReads, ReplayWrites
  <2>3. ASSUME NEW w \in Workers,
               TickClaims(w) \/ TickFindsNothing(w) \/ MakeSandbox(w) \/ TickRuns(w) \/ TickEnds(w)
        PROVE  replay' = replay
    BY <2>3 DEF TickClaims, TickFindsNothing, MakeSandbox, TickRuns, TickEnds, RemoveSandbox,
                ForgetSandboxes, RemovalFails, TickReads, TickWrites, CountSandboxes
  <2>4. CASE UNCHANGED stagingVars
    BY <2>1, <2>4 DEF stagingVars, harness
  <2>5. ASSUME NEW k \in Keys, StrayEnds(k) PROVE UNCHANGED <<snapshot, replay, tick>>
    BY <2>5 DEF StrayEnds
  <2> QED BY <2>1, <2>2, <2>3, <2>4, <2>5, ReplayValues, TickValues DEF StagingNext
<1> QED BY <1>3, <1>4 DEF BackedInv, Backed

\* jobs.json never runs ahead of the disk, whichever overlapping write landed last.
THEOREM SnapshotBacked == StagingSpec => []SnapshotIsBacked
<1>1. StagingInit => BackedInv
  BY NoJobsIs DEF StagingInit, BackedInv, Backed, Resting, Call, NoJobs
<1>2. BackedInv => SnapshotIsBacked
  BY DEF BackedInv, Backed, Saved, SnapshotIsBacked
<1>3. StagingSpec => []CompletedJobIsPublished
  BY HarnessRunsTheService, CompletedIsPublished, PTL
<1> QED BY <1>1, <1>2, <1>3, BackedStep, StagingAlways, PTL DEF StagingSpec

-----------------------------------------------------------------------------
(* One tick at a time.                                                     *)

\* At most one tick is under way; its sandbox is registered before it is made, made before
\* the scan goes on, there until a stray removal takes it, and among the paths to remove.
Serial ==
  /\ \A w, v \in Workers : tick[w].at # "idle" /\ tick[v].at # "idle" => w = v
  /\ sandboxes \subseteq registered
  /\ \A w \in Workers :
       /\ tick[w].at = "sandbox" => run[w].key \in registered
       /\ tick[w].at = "run" => run[w].key \in sandboxes \cup late
       /\ tick[w].at = "remove" => sandboxes \subseteq tick[w].todo

SerialInv == overlapped \/ Serial

LEMMA OverlapStays ==
  StagingInv /\ [StagingNext]_stagingVars /\ ~ overlapped' => ~ overlapped
<1> SUFFICES ASSUME StagingInv, [StagingNext]_stagingVars PROVE overlapped => overlapped'
  OBVIOUS
<1>1. Begins \/ overlapped' = overlapped
  BY DEF StagingNext, stagingVars, harness, Replay, ReplayReads, ReplayWrites, TickClaims,
         TickFindsNothing, TickBegins, MakeSandbox, TickRuns, TickEnds, RemoveSandbox,
         ForgetSandboxes, RemovalFails, TickReads, TickWrites, CountSandboxes, StrayEnds
<1> QED BY <1>1, Zenon DEF Begins

\* Without overlap, a call that begins finds every other one at rest.
LEMMA BeginsQuiet == Begins /\ ~ overlapped' => Quiet
BY Zenon DEF Begins

LEMMA SerialTick ==
  ASSUME StagingInv, TypeInv', Serial, NEW w \in Workers, ~ overlapped',
         TickClaims(w) \/ TickFindsNothing(w) \/ MakeSandbox(w) \/ TickRuns(w) \/ TickEnds(w)
  PROVE  Serial'
<1>0. /\ tick \in [Workers -> HarnessCalls] /\ registered \subseteq Keys
      /\ Around(w) /\ TypeInv
  BY DEF StagingInv, HarnessType
<1>a. \A v \in Workers : v # w => tick[v].at = "idle"
  <2>1. CASE TickClaims(w) \/ TickFindsNothing(w)
    <3>1. Begins
      BY <2>1 DEF TickClaims, TickFindsNothing, TickBegins
    <3> QED BY <3>1, BeginsQuiet DEF Quiet
  <2>2. CASE MakeSandbox(w) \/ TickRuns(w) \/ TickEnds(w)
    <3>1. tick[w].at # "idle"
      BY <2>2 DEF MakeSandbox, TickRuns, TickEnds, RemoveSandbox, ForgetSandboxes, RemovalFails,
                  TickReads, TickWrites, CountSandboxes
    <3> QED BY <3>1 DEF Serial
  <2> QED BY <2>1, <2>2
<1>b. PICK c \in HarnessCalls : tick' = [tick EXCEPT ![w] = c]
  BY TickEffect
<1>c. tick'[w] = c /\ \A v \in Workers : v # w => tick'[v].at = "idle"
  BY <1>0, <1>a, <1>b
\* It is enough to look at the tick that steps.
<1>d. SUFFICES /\ sandboxes' \subseteq registered'
               /\ c.at = "sandbox" => run'[w].key \in registered'
               /\ c.at = "run" => run'[w].key \in sandboxes' \cup late'
               /\ c.at = "remove" => sandboxes' \subseteq c.todo
  BY <1>c DEF Serial
<1>e. /\ Removing(w).at = "remove" /\ Removing(w).todo = registered
      /\ Call("sandbox", {}, NoJobs).at = "sandbox" /\ Call("run", {}, NoJobs).at = "run"
      /\ Call("mkdir", {}, NoJobs).at = "mkdir" /\ Call("count", {}, NoJobs).at = "count"
      /\ Call("write", {}, QueueNow).at = "write" /\ Resting.at = "idle"
      /\ \A k \in Keys : /\ Call("remove", tick[w].todo \ {k}, NoJobs).at = "remove"
                         /\ Call("remove", tick[w].todo \ {k}, NoJobs).todo = tick[w].todo \ {k}
  BY DEF Call, Removing, Resting
<1>1. CASE TickClaims(w)
  BY <1>0, <1>1, <1>c, <1>e DEF TickClaims, TickAt, Serial
<1>2. CASE TickFindsNothing(w)
  BY <1>0, <1>2, <1>c, <1>e DEF TickFindsNothing, TickAt, Serial
<1>3. CASE MakeSandbox(w)
  <2>1. run' = run /\ c = Call("run", {}, NoJobs)
    BY <1>0, <1>3, <1>c DEF MakeSandbox, TickAt, vars
  <2> QED BY <1>3, <1>e, <2>1 DEF MakeSandbox, Serial
<1>4. CASE TickRuns(w)
  <2>1. UNCHANGED <<registered, sandboxes, late>>
    BY <1>4 DEF TickRuns, strays
  <2>2. CASE run'[w] = Idle
    <3>1. c = Removing(w)
      BY <1>0, <1>4, <1>c, <2>2 DEF TickRuns, TickAt
    <3> QED BY <1>e, <2>1, <3>1 DEF Serial
  <2>3. CASE run'[w] # Idle
    <3>1. tick' = tick /\ ~ ScanThrows(w)
      BY <1>0, <1>4, <2>3 DEF TickRuns, ScanThrows, Fail, TypeInv, TypeOK
    <3>2. tick[w].at = "run" /\ c = tick[w] /\ Settle(w)
      BY <1>4, <1>c, <3>1 DEF TickRuns
    <3>3. run'[w].key = run[w].key
      BY <1>0, <2>3, <3>2, SettleFrame
    <3> QED BY <2>1, <3>2, <3>3 DEF Serial
  <2> QED BY <2>2, <2>3
<1>5. CASE TickEnds(w)
  <2>1. ASSUME NEW k \in Keys, RemoveSandbox(w, k) PROVE c.at = "remove" /\ sandboxes' \subseteq c.todo
                                                        /\ sandboxes' \subseteq registered'
    <3>1. c = Call("remove", tick[w].todo \ {k}, NoJobs)
      BY <1>0, <1>c, <2>1 DEF RemoveSandbox, TickAt
    <3> QED BY <1>e, <2>1, <3>1 DEF RemoveSandbox, Serial
  <2>2. CASE ForgetSandboxes(w)
    <3>1. c = Call("mkdir", {}, NoJobs)
      BY <1>0, <1>c, <2>2 DEF ForgetSandboxes, TickAt
    <3> QED BY <1>e, <2>2, <3>1 DEF ForgetSandboxes, Serial
  <2>3. CASE RemovalFails(w) \/ CountSandboxes(w) \/ TickReads(w) \/ TickWrites(w)
    <3>1. c \in {Resting, Call("write", {}, QueueNow), Call("count", {}, NoJobs)}
      BY <1>0, <1>c, <2>3 DEF RemovalFails, CountSandboxes, TickReads, TickWrites, TickAt
    <3>2. UNCHANGED <<registered, sandboxes>>
      BY <2>3 DEF RemovalFails, CountSandboxes, TickReads, TickWrites
    <3> QED BY <1>e, <3>1, <3>2 DEF Serial
  <2> QED BY <1>5, <2>1, <2>2, <2>3 DEF TickEnds
<1> QED BY <1>1, <1>2, <1>3, <1>4, <1>5

LEMMA SerialStep == StagingInv /\ SerialInv /\ [StagingNext]_stagingVars => SerialInv'
<1> SUFFICES ASSUME StagingInv, SerialInv, [StagingNext]_stagingVars, ~ overlapped'
             PROVE  Serial'
  BY DEF SerialInv
<1>1. Serial /\ TypeInv'
  BY OverlapStays, Projects, TypeStep DEF SerialInv, StagingInv
<1>2. CASE UNCHANGED <<run, tick, registered, sandboxes, late>>
  BY <1>1, <1>2 DEF Serial
<1>3. ASSUME NEW d \in Deliveries, Replay(d) \/ ReplayReads(d) \/ ReplayWrites(d)
      PROVE  UNCHANGED <<run, tick, registered, sandboxes, late>>
  BY <1>3 DEF Replay, ReplayReads, ReplayWrites, HandleWebhook, vars, strays
<1>4. CASE UNCHANGED stagingVars
  BY <1>2, <1>4 DEF stagingVars, harness, strays, vars
<1>5. ASSUME NEW k \in Keys, StrayEnds(k) PROVE Serial'
  <2>1. /\ UNCHANGED <<run, tick, registered>>
        /\ sandboxes' \subseteq sandboxes /\ sandboxes \cup late \subseteq sandboxes' \cup late'
    BY <1>5 DEF StrayEnds, vars
  <2> QED BY <1>1, <2>1 DEF Serial
<1> QED BY <1>1, <1>2, <1>3, <1>4, <1>5, SerialTick DEF StagingNext

\* One call at a time, a scan has its sandbox to the end, unless a removal that a tick which
\* threw left running takes it.
THEOREM SerialScanHasItsSandbox == StagingSpec => []SerialScanKeepsItsSandbox
<1>1. StagingInit => SerialInv
  BY NoJobsIs DEF StagingInit, SerialInv, Serial
<1>2. SerialInv => SerialScanKeepsItsSandbox
  BY DEF SerialInv, Serial, SerialScanKeepsItsSandbox
<1> QED BY <1>1, <1>2, SerialStep, StagingAlways, PTL DEF StagingSpec
=============================================================================
