---------------------------- MODULE HostedStaging ----------------------------
(***************************************************************************)
(* The file-backed staging harness, src/hosted/staging-harness.ts, around  *)
(* the hosted service: webhook replays and worker ticks that may overlap.  *)
(* A tick gives its scan a sandbox directory named after the job, and when *)
(* the service is done removes every sandbox the harness knows of, writes  *)
(* the queue to jobs.json and counts the sandboxes left.  The reports and  *)
(* check runs on disk are those of HostedService.                          *)
(***************************************************************************)
EXTENDS HostedService

CONSTANT MaxTicks   \* bound: calls of runWorkerTick

ASSUME TicksAssumption == MaxTicks \in Nat

VARIABLES
  replay,      \* of each delivery: the await runWebhookReplay is at
  tick,        \* of each worker: the await runWorkerTick is at
  registered,  \* workerSandboxPaths, by job
  sandboxes,   \* directories below worker-sandbox, by job
  snapshot,    \* jobs.json: status and report of each job
  stray,       \* of each job: removals of its sandbox left running by ticks that threw
  ticks,       \* number of calls of runWorkerTick
  lastClean,   \* history: the last tick to end counted no sandbox
  overlapped,  \* history: some harness call began before another one ended
  late         \* history: sandboxes a stray removal took since they were last made

strays == <<stray, late>>
harness == <<replay, tick, registered, sandboxes, snapshot, ticks, lastClean, overlapped, strays>>
stagingVars == <<vars, harness>>

Snapshots == [Keys -> [status : Statuses \cup {"absent"}, reportId : Nat]]
NoJobs == [k \in Keys |-> [status |-> "absent", reportId |-> 0]]
QueueNow == [k \in Keys |-> [status |-> status[k], reportId |-> reportId[k]]]

\* A call: its await, the paths it has still to remove, the snapshot it is to write.
Call(at, todo, value) == [at |-> at, todo |-> todo, value |-> value]
Resting == Call("idle", {}, NoJobs)
HarnessCalls == [at : {"idle", "mkdir", "write", "sandbox", "run", "remove", "count"},
                 todo : SUBSET Keys, value : Snapshots]

StagingInit ==
  /\ Init
  /\ replay = [d \in Deliveries |-> Resting] /\ tick = [w \in Workers |-> Resting]
  /\ registered = {} /\ sandboxes = {}
  /\ snapshot = NoJobs
  /\ ticks = 0 /\ lastClean = TRUE /\ overlapped = FALSE
  /\ stray = [k \in Keys |-> 0] /\ late = {}

Quiet == (\A d \in Deliveries : replay[d].at = "idle") /\ \A w \in Workers : tick[w].at = "idle"
Begins == overlapped' = (overlapped \/ ~ Quiet)
TickAt(w, call) == tick' = [tick EXCEPT ![w] = call]

-----------------------------------------------------------------------------
(* runWebhookReplay                                                        *)

Replay(d) ==
  /\ replay[d].at = "idle" /\ HandleWebhook(d)
  /\ replay' = [replay EXCEPT ![d] = Call("mkdir", {}, NoJobs)]
  /\ Begins
  /\ UNCHANGED <<tick, registered, sandboxes, snapshot, lastClean, ticks, strays>>

\* writeQueueSnapshot: the queue is read after one await and written with another.
ReplayReads(d) ==
  /\ replay[d].at = "mkdir"
  /\ replay' = [replay EXCEPT ![d] = Call("write", {}, QueueNow)]
  /\ UNCHANGED <<vars, tick, registered, sandboxes, snapshot, lastClean, ticks, overlapped, strays>>
ReplayWrites(d) ==
  /\ replay[d].at = "write"
  /\ snapshot' = replay[d].value
  /\ replay' = [replay EXCEPT ![d] = Resting]
  /\ UNCHANGED <<vars, tick, registered, sandboxes, lastClean, ticks, overlapped, strays>>

-----------------------------------------------------------------------------
(* runWorkerTick                                                           *)

TickBegins == ticks < MaxTicks /\ ticks' = ticks + 1 /\ Begins

Removing(w) == Call("remove", registered, NoJobs)

\* The scan runner notes the job's sandbox before it returns control; a refused job
\* has none.
TickClaims(w) ==
  /\ tick[w].at = "idle" /\ TickBegins /\ Claim(w)
  /\ IF run'[w] = Idle
     THEN TickAt(w, Removing(w)) /\ UNCHANGED registered
     ELSE TickAt(w, Call("sandbox", {}, NoJobs)) /\ registered' = registered \cup {run'[w].key}
  /\ UNCHANGED <<replay, sandboxes, snapshot, lastClean, strays>>

TickFindsNothing(w) ==
  /\ tick[w].at = "idle" /\ TickBegins /\ \A k \in Keys : ~ IsNextQueued(k)
  /\ TickAt(w, Removing(w))
  /\ UNCHANGED <<vars, replay, registered, sandboxes, snapshot, lastClean, strays>>

MakeSandbox(w) ==
  /\ tick[w].at = "sandbox"
  /\ sandboxes' = sandboxes \cup {run[w].key} /\ late' = late \ {run[w].key}
  /\ TickAt(w, Call("run", {}, NoJobs))
  /\ UNCHANGED <<vars, replay, registered, snapshot, lastClean, ticks, overlapped, stray>>

\* The service goes on; a sandbox that cannot be made fails the scan.
TickRuns(w) ==
  /\ \/ tick[w].at = "run" /\ Settle(w)
     \/ tick[w].at = "sandbox" /\ ScanThrows(w)
  /\ IF run'[w] = Idle THEN TickAt(w, Removing(w)) ELSE UNCHANGED tick
  /\ UNCHANGED <<replay, registered, sandboxes, snapshot, lastClean, ticks, overlapped, strays>>

\* removeWorkerSandboxes: a removal of each path known at its start, all at once; when the
\* last is done all paths are forgotten.
RemoveSandbox(w, k) ==
  /\ tick[w].at = "remove" /\ k \in tick[w].todo
  /\ sandboxes' = sandboxes \ {k}
  /\ TickAt(w, Call("remove", tick[w].todo \ {k}, NoJobs))
  /\ UNCHANGED <<vars, replay, registered, snapshot, lastClean, ticks, overlapped, strays>>
ForgetSandboxes(w) ==
  /\ tick[w].at = "remove" /\ tick[w].todo = {}
  /\ registered' = {}
  /\ TickAt(w, Call("mkdir", {}, NoJobs))
  /\ UNCHANGED <<vars, replay, sandboxes, snapshot, lastClean, ticks, overlapped, strays>>

\* One removal fails: Promise.all rejects and the tick throws, but the other removals
\* go on.
LeaveRunning(ks) == stray' = [k \in Keys |-> IF k \in ks THEN stray[k] + 1 ELSE stray[k]]
RemovalForgets(w) ==  \* mutant: the paths are forgotten whether they are removed or not
  /\ tick[w].at = "remove"
  /\ \E k \in tick[w].todo : LeaveRunning(tick[w].todo \ {k})
  /\ TickAt(w, Resting)
  /\ registered' = {} /\ lastClean' = FALSE
  /\ UNCHANGED <<vars, replay, sandboxes, snapshot, ticks, overlapped, late>>
RemovalFails(w) ==
  /\ tick[w].at = "remove"
  /\ \E k \in tick[w].todo : LeaveRunning(tick[w].todo \ {k})
  /\ TickAt(w, Resting)
  /\ lastClean' = FALSE
  /\ UNCHANGED <<vars, replay, registered, sandboxes, snapshot, ticks, overlapped, late>>

\* A removal nobody waits for any more ends, whatever the harness does by then.
StrayEndsAgain(k) ==  \* mutant: a removal that has ended takes the directory once more
  /\ stray' = [stray EXCEPT ![k] = @ - 1]
  /\ sandboxes' = sandboxes \ {k} /\ late' = late \cup {k}
  /\ UNCHANGED <<vars, replay, tick, registered, snapshot, ticks, lastClean, overlapped>>
StrayEnds(k) ==
  /\ stray[k] > 0
  /\ stray' = [stray EXCEPT ![k] = @ - 1]
  /\ \/ sandboxes' = sandboxes \ {k} /\ late' = late \cup {k}
     \/ UNCHANGED <<sandboxes, late>>  \* it fails, too
  /\ UNCHANGED <<vars, replay, tick, registered, snapshot, ticks, lastClean, overlapped>>

TickReads(w) ==
  /\ tick[w].at = "mkdir"
  /\ TickAt(w, Call("write", {}, QueueNow))
  /\ UNCHANGED <<vars, replay, registered, sandboxes, snapshot, lastClean, ticks, overlapped, strays>>
TickWrites(w) ==
  /\ tick[w].at = "write"
  /\ snapshot' = tick[w].value
  /\ TickAt(w, Call("count", {}, NoJobs))
  /\ UNCHANGED <<vars, replay, registered, sandboxes, lastClean, ticks, overlapped, strays>>

\* countDirectoryEntries: workerSandboxDeleted and cleanupVerified.
CountRegistered(w) ==  \* mutant: the sandboxes the harness knows of are counted
  /\ tick[w].at = "count"
  /\ lastClean' = (registered = {})
  /\ TickAt(w, Resting)
  /\ UNCHANGED <<vars, replay, registered, sandboxes, snapshot, ticks, overlapped, strays>>
CountSandboxes(w) ==
  /\ tick[w].at = "count"
  /\ lastClean' = (sandboxes = {})
  /\ TickAt(w, Resting)
  /\ UNCHANGED <<vars, replay, registered, sandboxes, snapshot, ticks, overlapped, strays>>

TickEnds(w) == \/ \E k \in Keys : RemoveSandbox(w, k)
               \/ ForgetSandboxes(w) \/ RemovalFails(w)
               \/ TickReads(w) \/ TickWrites(w) \/ CountSandboxes(w)

StagingNext ==
  \/ \E d \in Deliveries : Replay(d) \/ ReplayReads(d) \/ ReplayWrites(d)
  \/ \E w \in Workers : TickClaims(w) \/ TickFindsNothing(w) \/ MakeSandbox(w) \/ TickRuns(w) \/ TickEnds(w)
  \/ \E k \in Keys : StrayEnds(k)

StagingSpec == StagingInit /\ [][StagingNext]_stagingVars

-----------------------------------------------------------------------------
(* Properties.                                                             *)

\* The harness's calls, paths and snapshots have the shape the code gives them.
StagingTypeOK ==
  /\ TypeOK
  /\ replay \in [Deliveries -> HarnessCalls] /\ tick \in [Workers -> HarnessCalls]
  /\ registered \subseteq Keys /\ sandboxes \subseteq Keys
  /\ snapshot \in Snapshots
  /\ ticks \in Nat /\ lastClean \in BOOLEAN /\ overlapped \in BOOLEAN
  /\ stray \in [Keys -> Nat] /\ late \subseteq Keys

\* However ticks overlap, remove each other's sandboxes and forget each other's paths, a
\* sandbox is left behind only if the last tick to end said so: ticks that all report
\* a verified cleanup leave nothing.
VerifiedCleanupLeavesNothing == Quiet /\ lastClean => sandboxes = {}

\* One tick at a time, a scan has its sandbox from the first to the last moment, unless
\* a removal of that very sandbox, left running by an earlier tick that threw, lands in it;
\* and a sandbox the harness has forgotten is on disk no more.
SerialScanKeepsItsSandbox ==
  ~ overlapped =>
    /\ \A w \in Workers : tick[w].at = "run" => run[w].key \in sandboxes \cup late
    /\ sandboxes \subseteq registered

\* jobs.json never runs ahead of the disk: whichever of the overlapping writes landed
\* last, a job it shows as completed names a report that was saved and has a check run.
SnapshotIsBacked ==
  \A k \in Keys :
    snapshot[k].status = "completed" =>
      /\ \E i \in DOMAIN reports[k] : reports[k][i] = snapshot[k].reportId
      /\ checkRuns[k] > 0
=============================================================================
