------------------------ MODULE HostedService_proofs ------------------------
(***************************************************************************)
(* What holds of the hosted service for every set of deliveries, keys and  *)
(* workers.                                                                *)
(***************************************************************************)
EXTENDS HostedService, SequenceTheorems, FiniteSetTheorems, TLAPS

Active(w) == run[w].at # "idle"

\* A worker's job has a queue record: records are never deleted.
RunsArePosted == \A w \in Workers : Active(w) => status[run[w].key] # "absent"

TypeInv == TypeOK /\ RunsArePosted

\* A worker that is not idle is in a call.
LEMMA ActiveCall ==
  ASSUME TypeOK, NEW w \in Workers, Active(w)
  PROVE  run[w] \in Calls /\ run[w].key \in Keys /\ run[w].reportId \in Nat
<1>1. run[w] # Idle
  BY DEF Active, Idle
<1> QED BY <1>1 DEF TypeOK, Calls

\* The effect of one more element on a function to sequences.
LEMMA AppendAt ==
  ASSUME NEW S, NEW T, NEW f \in [S -> Seq(T)], NEW s \in S, NEW x \in T,
         NEW g, g = [f EXCEPT ![s] = Append(@, x)]
  PROVE  /\ g \in [S -> Seq(T)]
         /\ DOMAIN g[s] = 1..(Len(f[s]) + 1)
         /\ \A i \in 1..Len(f[s]) : g[s][i] = f[s][i]
         /\ g[s][Len(f[s]) + 1] = x
         /\ \A r \in S : r # s => g[r] = f[r]
<1>1. f[s] \in Seq(T)
  OBVIOUS
<1>2. /\ Append(f[s], x) \in Seq(T)
      /\ Len(Append(f[s], x)) = Len(f[s]) + 1
      /\ \A i \in 1..Len(f[s]) : Append(f[s], x)[i] = f[s][i]
      /\ Append(f[s], x)[Len(f[s]) + 1] = x
  BY <1>1, AppendProperties
<1>3. g[s] = Append(f[s], x)
  OBVIOUS
<1>4. DOMAIN g[s] = 1..(Len(f[s]) + 1)
  BY <1>2, <1>3, LenProperties
<1>5. g \in [S -> Seq(T)]
  BY <1>2
<1> QED BY <1>2, <1>3, <1>4, <1>5

\* What every step of a call leaves alone, and what it may do to the rest.
LEMMA SettleFrame ==
  ASSUME TypeInv, NEW w \in Workers, Settle(w)
  PROVE  /\ Active(w) /\ run[w].key \in Keys
         /\ UNCHANGED <<seen, queue, attempt, deliveryIds, scope, claims>>
         /\ run' \in [Workers -> Calls \cup {Idle}]
         /\ \A v \in Workers : v # w => run'[v] = run[v]
         /\ \/ /\ run'[w] = Idle
               /\ status' \in {[status EXCEPT ![run[w].key] = s] : s \in {"failed", "completed"}}
            \/ /\ run'[w] \in Calls /\ run'[w].key = run[w].key
               /\ status' = status
<1> DEFINE k == run[w].key
<1> USE DEF TypeInv
<1>1. Active(w)
  BY DEF Settle, ScanReturns, ScanThrows, SaveReturns, SaveThrows, PublishReturns, PublishThrows,
         Active
<1>2. run[w] \in Calls /\ k \in Keys
  BY <1>1, ActiveCall
<1>3. UNCHANGED <<seen, queue, attempt, deliveryIds, scope, claims>>
  BY DEF Settle, ScanReturns, ScanThrows, SaveReturns, SaveThrows, PublishReturns, PublishThrows,
         store, record
<1>4. \/ /\ run' = [run EXCEPT ![w] = Idle]
         /\ status' \in {[status EXCEPT ![k] = s] : s \in {"failed", "completed"}}
      \/ status' = status /\ Suspend(w, "save", attempt[k])
      \/ status' = status /\ Suspend(w, "publish", run[w].reportId)
  BY DEF Settle, ScanReturns, ScanThrows, SaveReturns, SaveThrows, PublishReturns, PublishThrows,
         store, record, Fail, Becomes
<1>5. CASE run' = [run EXCEPT ![w] = Idle] /\ status' \in {[status EXCEPT ![k] = s] : s \in {"failed", "completed"}}
  BY <1>1, <1>2, <1>3, <1>5 DEF TypeOK
<1>6. ASSUME NEW at \in {"save", "publish"}, NEW id \in Nat, Suspend(w, at, id)
      PROVE  /\ run' \in [Workers -> Calls \cup {Idle}]
             /\ \A v \in Workers : v # w => run'[v] = run[v]
             /\ run'[w] \in Calls /\ run'[w].key = k
  <2>1. [at |-> at, key |-> k, scope |-> run[w].scope, reportId |-> id] \in Calls
    BY <1>2 DEF Calls
  <2> QED BY <1>6, <2>1 DEF Suspend, TypeOK
<1>7. attempt[k] \in Nat /\ run[w].reportId \in Nat
  BY <1>2, <1>1, ActiveCall DEF TypeOK
<1> QED BY <1>1, <1>2, <1>3, <1>4, <1>5, <1>6, <1>7

LEMMA TypeInit == Init => TypeInv
<1> SUFFICES ASSUME Init PROVE TypeInv
  OBVIOUS
<1>1. RunsArePosted
  BY DEF Init, RunsArePosted, Active, Idle
<1>2. queue \in Seq(Keys) /\ reports \in [Keys -> Seq(Nat)] /\ claims \in [Keys -> Seq(Nat)]
  BY DEF Init
<1>3. status \in [Keys -> Statuses \cup {"absent"}] /\ \A k \in Keys : status[k] = "absent"
  BY DEF Init
<1> QED BY <1>1, <1>2, <1>3, ConstantsAssumption DEF Init, TypeInv, TypeOK

\* One step per action.
LEMMA HandleWebhookType ==
  ASSUME TypeInv, NEW d \in Deliveries, HandleWebhook(d)
  PROVE  TypeInv'
<1> DEFINE k == Event[d].key
<1> USE DEF TypeInv
<1>0. k \in Keys
  BY ConstantsAssumption DEF Events
<1>1. seen' \subseteq Deliveries /\ UNCHANGED <<scope, run, reports, checkRuns, claims>>
  BY DEF HandleWebhook, store, TypeOK
<1>2. CASE UNCHANGED <<record, queue>>
  BY <1>1, <1>2 DEF record, TypeOK, RunsArePosted, Active
<1>3. CASE Upsert(d, k)
  <2>1. /\ attempt' \in [Keys -> Nat]
        /\ deliveryIds' \in [Keys -> SUBSET Deliveries]
        /\ reportId' \in [Keys -> Nat]
        /\ status' \in [Keys -> Statuses \cup {"absent"}]
    <3>1. /\ attempt' \in {attempt, [attempt EXCEPT ![k] = @ + 1]}
          /\ status' \in {status, [status EXCEPT ![k] = "queued"]}
          /\ deliveryIds' = [deliveryIds EXCEPT ![k] = @ \cup {d}]
          /\ reportId' = reportId
      BY <1>3 DEF Upsert, Becomes
    <3>2. "queued" \in Statuses
      BY DEF Statuses
    <3>3. [attempt EXCEPT ![k] = @ + 1] \in [Keys -> Nat]
      BY <1>0 DEF TypeOK
    <3>4. [status EXCEPT ![k] = "queued"] \in [Keys -> Statuses \cup {"absent"}]
      BY <1>0, <3>2 DEF TypeOK
    <3>5. [deliveryIds EXCEPT ![k] = @ \cup {d}] \in [Keys -> SUBSET Deliveries]
      BY <1>0 DEF TypeOK
    <3> QED BY <3>1, <3>3, <3>4, <3>5 DEF TypeOK
  <2>2. /\ queue' \in Seq(Keys)
        /\ \A i \in DOMAIN queue : i \in DOMAIN queue' /\ queue'[i] = queue[i]
        /\ status[k] = "absent" => \E i \in DOMAIN queue' : queue'[i] = k
    <3>1. CASE queue' = queue /\ status[k] # "absent"
      BY <3>1 DEF TypeOK
    <3>2. CASE queue' = Append(queue, k) /\ status[k] = "absent"
      <4>1. queue \in Seq(Keys)
        BY DEF TypeOK
      <4>2. /\ queue' \in Seq(Keys)
            /\ Len(queue') = Len(queue) + 1
            /\ \A i \in 1..Len(queue) : queue'[i] = queue[i]
            /\ queue'[Len(queue) + 1] = k
        BY <1>0, <3>2, <4>1, AppendProperties
      <4>3. DOMAIN queue = 1..Len(queue) /\ DOMAIN queue' = 1..Len(queue') /\ Len(queue) \in Nat
        BY <4>1, <4>2, LenProperties
      <4> QED BY <4>2, <4>3
    <3> QED BY <1>3, <3>1, <3>2 DEF Upsert
  <2>3. \A j \in Keys : /\ j # k => status'[j] = status[j] /\ attempt'[j] = attempt[j]
                        /\ status[j] # "absent" => status'[j] # "absent"
    BY <1>0, <1>3 DEF Upsert, Becomes, TypeOK
  <2>4. attempt'[k] > 0
    BY <1>0, <1>3 DEF Upsert, TypeOK
  <2>5. \A j \in Keys : status'[j] # "absent" =>
          attempt'[j] > 0 /\ \E i \in DOMAIN queue' : queue'[i] = j
    BY <1>0, <2>2, <2>3, <2>4 DEF TypeOK
  <2>6. RunsArePosted'
    BY <1>1, <2>3, ActiveCall DEF RunsArePosted, Active
  <2> QED BY <1>1, <2>1, <2>2, <2>5, <2>6 DEF TypeOK
<1> QED BY <1>2, <1>3 DEF HandleWebhook

\* What a claim does: job k is set running in a call of w, or set failed.
LEMMA ClaimEffect ==
  ASSUME TypeInv, NEW w \in Workers, Claim(w)
  PROVE  \E k \in Keys :
           /\ status[k] = "queued"
           /\ claims' = [claims EXCEPT ![k] = Append(@, attempt[k])]
           /\ UNCHANGED <<seen, queue, attempt, deliveryIds, reportId, scope, reports, checkRuns>>
           /\ ~ Active(w)
           /\ \A v \in Workers : v # w => run'[v] = run[v]
           /\ run' \in [Workers -> Calls \cup {Idle}]
           /\ \/ /\ status' = [status EXCEPT ![k] = "running"]
                 /\ run'[w] = [at |-> "scan", key |-> k, scope |-> scope, reportId |-> 0]
              \/ status' = [status EXCEPT ![k] = "failed"] /\ run' = run
<1>1. PICK k \in Keys :
        /\ IsNextQueued(k)
        /\ claims' = [claims EXCEPT ![k] = Append(@, attempt[k])]
        /\ IF KeyRepo[k] \in scope
           THEN /\ Becomes(k, "running")
                /\ run' = [run EXCEPT ![w] = [at |-> "scan", key |-> k, scope |-> scope, reportId |-> 0]]
           ELSE Becomes(k, "failed") /\ UNCHANGED run
  BY DEF Claim
<1>2. status[k] = "queued"
  BY <1>1 DEF IsNextQueued
<1>3. ~ Active(w) /\ UNCHANGED <<seen, queue, attempt, deliveryIds, reportId, scope, reports, checkRuns>>
  BY DEF Claim, Active, Idle, store
<1>4. [at |-> "scan", key |-> k, scope |-> scope, reportId |-> 0] \in Calls
  BY DEF TypeInv, TypeOK, Calls
<1>5. run \in [Workers -> Calls \cup {Idle}]
  BY DEF TypeInv, TypeOK
<1>6. CASE KeyRepo[k] \in scope
  <2>1. run' = [run EXCEPT ![w] = [at |-> "scan", key |-> k, scope |-> scope, reportId |-> 0]]
    BY <1>1, <1>6
  <2>2. /\ run' \in [Workers -> Calls \cup {Idle}]
        /\ run'[w] = [at |-> "scan", key |-> k, scope |-> scope, reportId |-> 0]
        /\ \A v \in Workers : v # w => run'[v] = run[v]
    BY <1>4, <1>5, <2>1
  <2> QED BY <1>1, <1>2, <1>3, <1>6, <2>2 DEF Becomes
<1>7. CASE KeyRepo[k] \notin scope
  BY <1>1, <1>2, <1>3, <1>5, <1>7 DEF Becomes
<1> QED BY <1>6, <1>7

LEMMA ClaimType ==
  ASSUME TypeInv, NEW w \in Workers, Claim(w)
  PROVE  TypeInv'
<1> USE DEF TypeInv
<1>1. PICK k \in Keys :
           /\ status[k] = "queued"
           /\ claims' = [claims EXCEPT ![k] = Append(@, attempt[k])]
           /\ UNCHANGED <<seen, queue, attempt, deliveryIds, reportId, scope, reports, checkRuns>>
           /\ ~ Active(w)
           /\ \A v \in Workers : v # w => run'[v] = run[v]
           /\ run' \in [Workers -> Calls \cup {Idle}]
           /\ \/ /\ status' = [status EXCEPT ![k] = "running"]
                 /\ run'[w] = [at |-> "scan", key |-> k, scope |-> scope, reportId |-> 0]
              \/ status' = [status EXCEPT ![k] = "failed"] /\ run' = run
  BY ClaimEffect
<1>2. claims' \in [Keys -> Seq(Nat)]
  <2>1. attempt[k] \in Nat /\ claims \in [Keys -> Seq(Nat)]
    BY DEF TypeOK
  <2> QED BY <1>1, <2>1, AppendAt
<1>3. /\ status' \in [Keys -> Statuses \cup {"absent"}]
      /\ \A j \in Keys : status'[j] # "absent" <=> status[j] # "absent"
  BY <1>1 DEF TypeOK, Statuses
<1>4. RunsArePosted'
  BY <1>1, <1>3, ActiveCall DEF RunsArePosted, Active
<1> QED BY <1>1, <1>2, <1>3, <1>4 DEF TypeOK

LEMMA SettleType ==
  ASSUME TypeInv, NEW w \in Workers, Settle(w)
  PROVE  TypeInv'
<1> DEFINE k == run[w].key
<1> USE DEF TypeInv
<1>1. /\ Active(w) /\ k \in Keys
      /\ UNCHANGED <<seen, queue, attempt, deliveryIds, scope, claims>>
      /\ status' \in {status, [status EXCEPT ![k] = "failed"], [status EXCEPT ![k] = "completed"]}
      /\ run' \in [Workers -> Calls \cup {Idle}]
      /\ \A v \in Workers : v # w => run'[v] = run[v]
      /\ run'[w] = Idle \/ run'[w].key = k
  BY SettleFrame
<1>2. run[w].reportId \in Nat
  BY <1>1, ActiveCall
<1>3. reports' \in [Keys -> Seq(Nat)]
  <2>1. reports \in [Keys -> Seq(Nat)]
    BY DEF TypeOK
  <2>2. reports' = reports \/ reports' = [reports EXCEPT ![k] = Append(@, run[w].reportId)]
    BY DEF Settle, ScanReturns, ScanThrows, SaveReturns, SaveThrows, PublishReturns,
           PublishThrows, store
  <2>3. CASE reports' = [reports EXCEPT ![k] = Append(@, run[w].reportId)]
    BY <1>1, <1>2, <2>1, <2>3, AppendAt
  <2> QED BY <2>1, <2>2, <2>3
<1>4. checkRuns' \in [Keys -> Nat] /\ reportId' \in [Keys -> Nat]
  <2>1. \/ checkRuns' = checkRuns
        \/ checkRuns' = [checkRuns EXCEPT ![k] = @ + 1]
    BY DEF Settle, ScanReturns, ScanThrows, SaveReturns, SaveThrows, PublishReturns,
           PublishThrows, store
  <2>2. reportId' = reportId \/ reportId' = [reportId EXCEPT ![k] = run[w].reportId]
    BY DEF Settle, ScanReturns, ScanThrows, SaveReturns, SaveThrows, PublishReturns,
           PublishThrows, record
  <2>3. [checkRuns EXCEPT ![k] = @ + 1] \in [Keys -> Nat]
    BY <1>1 DEF TypeOK
  <2>4. [reportId EXCEPT ![k] = run[w].reportId] \in [Keys -> Nat]
    BY <1>1, <1>2 DEF TypeOK
  <2> QED BY <2>1, <2>2, <2>3, <2>4 DEF TypeOK
<1>5. status[k] # "absent"
  BY <1>1 DEF RunsArePosted
<1>6. /\ status' \in [Keys -> Statuses \cup {"absent"}]
      /\ \A j \in Keys : status'[j] # "absent" <=> status[j] # "absent"
  BY <1>1, <1>5 DEF TypeOK, Statuses
<1>7. RunsArePosted'
  BY <1>1, <1>6, ActiveCall DEF RunsArePosted, Active, Idle
<1> QED BY <1>1, <1>3, <1>4, <1>6, <1>7 DEF TypeOK

LEMMA TypeStep == TypeInv /\ [Next]_vars => TypeInv'
<1> SUFFICES ASSUME TypeInv, [Next]_vars PROVE TypeInv'
  OBVIOUS
<1>1. ASSUME NEW r \in Repos, ChangeScope(r) PROVE TypeInv'
  BY <1>1 DEF ChangeScope, store, record, TypeInv, TypeOK, RunsArePosted, Active
<1>2. CASE UNCHANGED vars
  BY <1>2 DEF vars, store, record, TypeInv, TypeOK, RunsArePosted, Active
<1> QED BY <1>1, <1>2, HandleWebhookType, ClaimType, SettleType DEF Next

LEMMA TypeAlways == Spec => []TypeInv
<1> QED BY TypeInit, TypeStep, PTL DEF Spec

\* Queue records, calls and stored ids keep their shape.
THEOREM TypeCorrect == Spec => []TypeOK
<1>1. TypeInv => TypeOK
  BY DEF TypeInv
<1> QED BY <1>1, TypeAlways, PTL

-----------------------------------------------------------------------------
(* A running job has a worker.                                             *)

LEMMA RunningStep == TypeInv /\ RunningJobHasAWorker /\ [Next]_vars => RunningJobHasAWorker'
<1> SUFFICES ASSUME TypeInv, RunningJobHasAWorker, [Next]_vars,
                    NEW j \in Keys, status'[j] = "running"
             PROVE  \E v \in Workers : run'[v].at # "idle" /\ run'[v].key = j
  BY DEF RunningJobHasAWorker
<1> USE DEF Active
<1>0. ASSUME status[j] = "running", UNCHANGED run
      PROVE  \E v \in Workers : run'[v].at # "idle" /\ run'[v].key = j
  BY <1>0 DEF RunningJobHasAWorker
<1>1. ASSUME NEW d \in Deliveries, HandleWebhook(d)
      PROVE  \E v \in Workers : run'[v].at # "idle" /\ run'[v].key = j
  <2>1. UNCHANGED run
    BY <1>1 DEF HandleWebhook
  <2>2. Event[d].key \in Keys
    BY ConstantsAssumption DEF Events
  <2>3. status' = status \/ status' = [status EXCEPT ![Event[d].key] = "queued"]
    BY <1>1 DEF HandleWebhook, Upsert, Becomes, record
  <2>4. status[j] = "running"
    BY <2>2, <2>3 DEF TypeInv, TypeOK
  <2> QED BY <1>0, <2>1, <2>4
<1>2. ASSUME NEW r \in Repos, ChangeScope(r)
      PROVE  \E v \in Workers : run'[v].at # "idle" /\ run'[v].key = j
  BY <1>0, <1>2 DEF ChangeScope, record
<1>3. ASSUME NEW w \in Workers, Claim(w)
      PROVE  \E v \in Workers : run'[v].at # "idle" /\ run'[v].key = j
  <2>1. PICK k \in Keys :
          /\ ~ Active(w)
          /\ \A v \in Workers : v # w => run'[v] = run[v]
          /\ \/ /\ status' = [status EXCEPT ![k] = "running"]
                /\ run'[w] = [at |-> "scan", key |-> k, scope |-> scope, reportId |-> 0]
             \/ status' = [status EXCEPT ![k] = "failed"] /\ run' = run
    BY <1>3, ClaimEffect
  <2>2. CASE status[j] = "running"
    BY <2>1, <2>2 DEF RunningJobHasAWorker
  <2>3. CASE status[j] # "running"
    <3>1. j = k /\ run'[w] = [at |-> "scan", key |-> k, scope |-> scope, reportId |-> 0]
      BY <2>1, <2>3 DEF TypeInv, TypeOK
    <3> QED BY <3>1
  <2> QED BY <2>2, <2>3
<1>4. ASSUME NEW w \in Workers, Settle(w)
      PROVE  \E v \in Workers : run'[v].at # "idle" /\ run'[v].key = j
  <2> DEFINE k == run[w].key
  <2>1. /\ Active(w) /\ k \in Keys
        /\ \A v \in Workers : v # w => run'[v] = run[v]
        /\ \/ /\ run'[w] = Idle
              /\ status' \in {[status EXCEPT ![k] = s] : s \in {"failed", "completed"}}
           \/ /\ run'[w] \in Calls /\ run'[w].key = k
              /\ status' = status
    BY <1>4, SettleFrame
  <2>2. CASE status' = status /\ run'[w] \in Calls /\ run'[w].key = k
    <3>1. run'[w].at # "idle"
      BY <2>2 DEF Calls
    <3>2. PICK v \in Workers : run[v].at # "idle" /\ run[v].key = j
      BY <2>2 DEF RunningJobHasAWorker
    <3> QED BY <2>1, <2>2, <3>1, <3>2
  <2>3. CASE status' \in {[status EXCEPT ![k] = s] : s \in {"failed", "completed"}}
    <3>1. j # k /\ status[j] = "running"
      BY <2>1, <2>3 DEF TypeInv, TypeOK
    <3>2. PICK v \in Workers : run[v].at # "idle" /\ run[v].key = j
      BY <3>1 DEF RunningJobHasAWorker
    <3> QED BY <2>1, <3>1, <3>2
  <2> QED BY <2>1, <2>2, <2>3
<1>5. CASE UNCHANGED vars
  BY <1>0, <1>5 DEF vars, record
<1> QED BY <1>1, <1>2, <1>3, <1>4, <1>5 DEF Next

\* A job that says "running" has a worker in a scan of it.
THEOREM RunningHasAWorker == Spec => []RunningJobHasAWorker
<1>1. Init => RunningJobHasAWorker
  BY DEF Init, RunningJobHasAWorker
<1> QED BY <1>1, RunningStep, TypeAlways, PTL DEF Spec

-----------------------------------------------------------------------------
(* Every attempt is claimed once.                                          *)

\* The attempts taken up so far lie behind the record's attempt, strictly when the
\* job waits in the queue.
ClaimsAreBehind ==
  \A k \in Keys : \A i \in DOMAIN claims[k] :
    /\ claims[k][i] <= attempt[k]
    /\ status[k] = "queued" => claims[k][i] < attempt[k]

ClaimInv == ClaimsAreBehind /\ AttemptClaimedOnce

LEMMA ClaimInit == Init => ClaimInv
<1> SUFFICES ASSUME Init PROVE ClaimInv
  OBVIOUS
<1>1. \A k \in Keys : claims[k] = <<>>
  BY DEF Init
<1>2. \A k \in Keys : DOMAIN claims[k] = {}
  BY <1>1
<1> QED BY <1>2 DEF ClaimInv, ClaimsAreBehind, AttemptClaimedOnce

LEMMA ClaimStep == TypeInv /\ ClaimInv /\ [Next]_vars => ClaimInv'
<1> SUFFICES ASSUME TypeInv, ClaimInv, [Next]_vars PROVE ClaimInv'
  OBVIOUS
<1> USE DEF ClaimInv, ClaimsAreBehind, AttemptClaimedOnce
<1>0. \A k \in Keys : attempt[k] \in Nat /\ claims[k] \in Seq(Nat) /\ DOMAIN claims[k] = 1..Len(claims[k])
  BY LenProperties DEF TypeInv, TypeOK
<1>t. \A k \in Keys : \A i \in DOMAIN claims[k] : claims[k][i] \in Nat
  BY <1>0, ElementOfSeq
<1>1. ASSUME NEW d \in Deliveries, HandleWebhook(d) PROVE ClaimInv'
  <2> DEFINE k == Event[d].key
  <2>1. k \in Keys /\ UNCHANGED claims
    BY <1>1, ConstantsAssumption DEF Events, HandleWebhook
  <2>2. \/ UNCHANGED <<status, attempt>>
        \/ /\ status' = [status EXCEPT ![k] = "queued"]
           /\ attempt' = [attempt EXCEPT ![k] = @ + 1]
    BY <1>1 DEF HandleWebhook, Upsert, Becomes, record
  <2>3. CASE UNCHANGED <<status, attempt>>
    BY <2>1, <2>3
  <2>4. CASE /\ status' = [status EXCEPT ![k] = "queued"]
             /\ attempt' = [attempt EXCEPT ![k] = @ + 1]
    <3>1. attempt'[k] = attempt[k] + 1 /\ \A j \in Keys : j # k => attempt'[j] = attempt[j] /\ status'[j] = status[j]
      BY <2>1, <2>4 DEF TypeInv, TypeOK
    <3> QED BY <2>1, <3>1, <1>0, <1>t
  <2> QED BY <2>2, <2>3, <2>4
<1>2. ASSUME NEW r \in Repos, ChangeScope(r) PROVE ClaimInv'
  BY <1>2 DEF ChangeScope, record
<1>3. ASSUME NEW w \in Workers, Claim(w) PROVE ClaimInv'
  <2>1. PICK k \in Keys :
          /\ status[k] = "queued"
          /\ claims' = [claims EXCEPT ![k] = Append(@, attempt[k])]
          /\ UNCHANGED attempt
          /\ \/ status' = [status EXCEPT ![k] = "running"]
             \/ status' = [status EXCEPT ![k] = "failed"]
    BY <1>3, ClaimEffect
  <2>2. /\ DOMAIN claims'[k] = 1..(Len(claims[k]) + 1)
        /\ \A i \in 1..Len(claims[k]) : claims'[k][i] = claims[k][i]
        /\ claims'[k][Len(claims[k]) + 1] = attempt[k]
        /\ \A j \in Keys : j # k => claims'[j] = claims[j]
    BY <1>0, <2>1, AppendAt DEF TypeInv, TypeOK
  <2>3. status'[k] # "queued" /\ \A j \in Keys : j # k => status'[j] = status[j]
    BY <2>1 DEF TypeInv, TypeOK
  <2>4. Len(claims[k]) \in Nat
    BY <1>0, LenProperties
  <2>5. \A i \in DOMAIN claims[k] : claims[k][i] < attempt[k]
    BY <2>1
  <2>6. ClaimsAreBehind'
    <3> SUFFICES ASSUME NEW j \in Keys, NEW i \in DOMAIN claims'[j]
                 PROVE  claims'[j][i] <= attempt'[j] /\ (status'[j] = "queued" => claims'[j][i] < attempt'[j])
      OBVIOUS
    <3>1. CASE j = k
      <4>1. i \in 1..Len(claims[k]) \/ i = Len(claims[k]) + 1
        BY <2>2, <2>4, <3>1
      <4>2. claims'[k][i] <= attempt[k]
        BY <4>1, <2>2, <2>5, <1>0, <1>t
      <4> QED BY <3>1, <4>2, <2>1, <2>3
    <3>2. CASE j # k
      BY <3>2, <2>1, <2>2, <2>3
    <3> QED BY <3>1, <3>2
  <2>7. AttemptClaimedOnce'
    <3> SUFFICES ASSUME NEW j \in Keys, NEW i \in DOMAIN claims'[j], NEW m \in DOMAIN claims'[j], i < m
                 PROVE  claims'[j][i] < claims'[j][m]
      OBVIOUS
    <3>1. CASE j = k
      <4>1. i \in 1..Len(claims[k])
        BY <2>2, <2>4, <3>1
      <4>2. m \in 1..Len(claims[k]) \/ m = Len(claims[k]) + 1
        BY <2>2, <2>4, <3>1
      <4>3. i \in DOMAIN claims[k] /\ claims'[k][i] = claims[k][i] /\ claims[k][i] < attempt[k]
        BY <4>1, <2>2, <2>5, <1>0
      <4>4. CASE m = Len(claims[k]) + 1
        BY <3>1, <4>3, <4>4, <2>2
      <4>5. CASE m \in 1..Len(claims[k])
        BY <3>1, <4>3, <4>5, <2>2, <1>0
      <4> QED BY <4>2, <4>4, <4>5
    <3>2. CASE j # k
      BY <3>2, <2>2
    <3> QED BY <3>1, <3>2
  <2> QED BY <2>6, <2>7
<1>4. ASSUME NEW w \in Workers, Settle(w) PROVE ClaimInv'
  <2>1. /\ run[w].key \in Keys /\ UNCHANGED <<attempt, claims>>
        /\ \/ status' \in {[status EXCEPT ![run[w].key] = s] : s \in {"failed", "completed"}}
           \/ status' = status
    BY <1>4, SettleFrame
  <2>2. \A j \in Keys : status'[j] = "queued" => status[j] = "queued"
    BY <2>1 DEF TypeInv, TypeOK
  <2> QED BY <2>1, <2>2
<1>5. CASE UNCHANGED vars
  BY <1>5 DEF vars, record
<1> QED BY <1>1, <1>2, <1>3, <1>4, <1>5 DEF Next

\* An attempt of a job is taken up at most once, whatever the webhooks and workers do.
THEOREM ClaimedOnce == Spec => []AttemptClaimedOnce
<1>1. ClaimInv => AttemptClaimedOnce
  BY DEF ClaimInv
<1> QED BY <1>1, ClaimInit, ClaimStep, TypeAlways, PTL DEF Spec

-----------------------------------------------------------------------------
(* A completed job is published.                                           *)

Saved(k, id) == \E i \in DOMAIN reports[k] : reports[k][i] = id

\* A call that is publishing has saved the report it is about to name.
PublishesSaved == \A w \in Workers : run[w].at = "publish" => Saved(run[w].key, run[w].reportId)

PublishedInv == PublishesSaved /\ CompletedJobIsPublished

LEMMA PublishedInit == Init => PublishedInv
  BY DEF Init, PublishedInv, PublishesSaved, CompletedJobIsPublished, Idle

LEMMA ChecksGrow ==
  ASSUME TypeInv, NEW w \in Workers, Settle(w)
  PROVE  \A k \in Keys : checkRuns'[k] >= checkRuns[k]
<1> DEFINE k == run[w].key
<1>1. k \in Keys
  BY SettleFrame
<1>2. checkRuns' = checkRuns \/ checkRuns' = [checkRuns EXCEPT ![k] = @ + 1]
  BY DEF Settle, ScanReturns, ScanThrows, SaveReturns, SaveThrows, PublishReturns,
         PublishThrows, store
<1>3. checkRuns \in [Keys -> Nat]
  BY DEF TypeInv, TypeOK
<1>4. CASE checkRuns' = [checkRuns EXCEPT ![k] = @ + 1]
  <2>1. checkRuns'[k] = checkRuns[k] + 1 /\ \A j \in Keys : j # k => checkRuns'[j] = checkRuns[j]
    BY <1>1, <1>3, <1>4
  <2> QED BY <1>3, <2>1
<1>5. CASE checkRuns' = checkRuns
  BY <1>3, <1>5
<1> QED BY <1>2, <1>4, <1>5

\* What the stores hold only grows, at the key of the call that settles.
LEMMA StoresGrow ==
  ASSUME TypeInv, NEW w \in Workers, Settle(w)
  PROVE  /\ \A k \in Keys, id \in Nat : Saved(k, id) => Saved(k, id)'
         /\ \A k \in Keys : checkRuns'[k] >= checkRuns[k]
<1> DEFINE k == run[w].key
<1>1. k \in Keys /\ run[w].reportId \in Nat
  BY SettleFrame, ActiveCall DEF TypeInv
<1>2. reports' = reports \/ reports' = [reports EXCEPT ![k] = Append(@, run[w].reportId)]
  BY DEF Settle, ScanReturns, ScanThrows, SaveReturns, SaveThrows, PublishReturns,
         PublishThrows, store
<1>3. CASE reports' = [reports EXCEPT ![k] = Append(@, run[w].reportId)]
  <2>1. /\ DOMAIN reports'[k] = 1..(Len(reports[k]) + 1)
        /\ \A i \in 1..Len(reports[k]) : reports'[k][i] = reports[k][i]
        /\ \A j \in Keys : j # k => reports'[j] = reports[j]
    BY <1>1, <1>3, AppendAt DEF TypeInv, TypeOK
  <2>2. Len(reports[k]) \in Nat /\ DOMAIN reports[k] = 1..Len(reports[k])
    BY <1>1, LenProperties DEF TypeInv, TypeOK
  <2>3. \A i \in DOMAIN reports[k] : i \in DOMAIN reports'[k] /\ reports'[k][i] = reports[k][i]
    BY <2>1, <2>2
  <2> QED BY <2>1, <2>3, ChecksGrow DEF Saved
<1> QED BY <1>2, <1>3, ChecksGrow DEF Saved

LEMMA PublishedStep == TypeInv /\ PublishedInv /\ [Next]_vars => PublishedInv'
<1> SUFFICES ASSUME TypeInv, PublishedInv, [Next]_vars PROVE PublishedInv'
  OBVIOUS
<1> USE DEF PublishedInv
<1>1. ASSUME NEW d \in Deliveries, HandleWebhook(d) PROVE PublishedInv'
  <2> DEFINE k == Event[d].key
  <2>1. k \in Keys /\ UNCHANGED <<run, reports, checkRuns, reportId>>
    BY <1>1, ConstantsAssumption DEF Events, HandleWebhook, Upsert, record, store
  <2>2. status' = status \/ status' = [status EXCEPT ![k] = "queued"]
    BY <1>1 DEF HandleWebhook, Upsert, Becomes, record
  <2>3. \A j \in Keys : status'[j] = "completed" => status[j] = "completed"
    BY <2>1, <2>2 DEF TypeInv, TypeOK
  <2> QED BY <2>1, <2>3 DEF PublishesSaved, CompletedJobIsPublished, Saved
<1>2. ASSUME NEW r \in Repos, ChangeScope(r) PROVE PublishedInv'
  BY <1>2 DEF ChangeScope, record, store, PublishesSaved, CompletedJobIsPublished, Saved
<1>3. ASSUME NEW w \in Workers, Claim(w) PROVE PublishedInv'
  <2>1. PICK k \in Keys :
          /\ UNCHANGED <<reports, checkRuns, reportId>>
          /\ \A v \in Workers : v # w => run'[v] = run[v]
          /\ \/ /\ status' = [status EXCEPT ![k] = "running"]
                /\ run'[w] = [at |-> "scan", key |-> k, scope |-> scope, reportId |-> 0]
             \/ status' = [status EXCEPT ![k] = "failed"] /\ run' = run
    BY <1>3, ClaimEffect
  <2>2. \A j \in Keys : status'[j] = "completed" => status[j] = "completed"
    BY <2>1 DEF TypeInv, TypeOK
  <2>3. \A v \in Workers : run'[v].at = "publish" => run'[v] = run[v]
    BY <2>1
  <2> QED BY <2>1, <2>2, <2>3 DEF PublishesSaved, CompletedJobIsPublished, Saved
<1>4. ASSUME NEW w \in Workers, Settle(w) PROVE PublishedInv'
  <2> DEFINE k == run[w].key
  <2> DEFINE id == run[w].reportId
  <2>1. /\ k \in Keys /\ id \in Nat
        /\ \A v \in Workers : v # w => run'[v] = run[v]
        /\ run'[w] = Idle \/ run'[w].key = k
    BY <1>4, SettleFrame, ActiveCall DEF TypeInv
  <2>2. /\ \A j \in Keys, i \in Nat : Saved(j, i) => Saved(j, i)'
        /\ \A j \in Keys : checkRuns'[j] >= checkRuns[j]
    BY <1>4, StoresGrow
  <2>3. PublishesSaved'
    <3> SUFFICES ASSUME NEW v \in Workers, run'[v].at = "publish"
                 PROVE  Saved(run[v].key, run[v].reportId)' 
      BY DEF PublishesSaved
    <3>1. CASE v # w
      <4>1. run'[v] = run[v] /\ run[v].at = "publish" /\ run[v].key \in Keys /\ run[v].reportId \in Nat
        BY <2>1, <3>1, ActiveCall DEF TypeInv, Active
      <4>2. Saved(run[v].key, run[v].reportId)
        BY <4>1 DEF PublishesSaved
      <4>3. \E i \in DOMAIN reports'[run[v].key] : reports'[run[v].key][i] = run[v].reportId
        BY <4>1, <4>2, <2>2 DEF Saved
      <4> QED BY <4>1, <4>3 DEF Saved
    <3>2. CASE v = w
      <4>1. reports' = [reports EXCEPT ![k] = Append(@, id)] /\ run'[w].key = k /\ run'[w].reportId = id
        BY <1>4, <3>2, <2>1
           DEF Settle, ScanReturns, ScanThrows, SaveReturns, SaveThrows, PublishReturns,
               PublishThrows, Fail, Suspend, Idle, TypeInv, TypeOK
      <4>2. /\ DOMAIN reports'[k] = 1..(Len(reports[k]) + 1)
            /\ reports'[k][Len(reports[k]) + 1] = id
        BY <2>1, <4>1, AppendAt DEF TypeInv, TypeOK
      <4>3. Len(reports[k]) + 1 \in DOMAIN reports'[k]
        BY <2>1, <4>2, LenProperties DEF TypeInv, TypeOK
      <4> QED BY <3>2, <4>1, <4>2, <4>3 DEF Saved
    <3> QED BY <3>1, <3>2
  <2>4. CompletedJobIsPublished'
    <3> SUFFICES ASSUME NEW j \in Keys, status'[j] = "completed"
                 PROVE  (\E i \in DOMAIN reports'[j] : reports'[j][i] = reportId'[j]) /\ checkRuns'[j] > 0
      BY DEF CompletedJobIsPublished
    <3>1. CASE PublishReturns(w) /\ j = k
      <4>1. Saved(k, id)
        BY <3>1 DEF PublishReturns, PublishesSaved
      <4>2. reportId'[k] = id /\ checkRuns'[k] = checkRuns[k] + 1 /\ checkRuns[k] \in Nat
        BY <2>1, <3>1 DEF PublishReturns, TypeInv, TypeOK
      <4>3. \E i \in DOMAIN reports'[k] : reports'[k][i] = id
        BY <2>1, <2>2, <4>1 DEF Saved
      <4> QED BY <3>1, <4>2, <4>3
    <3>2. CASE ~ (PublishReturns(w) /\ j = k)
      <4>1. CASE PublishReturns(w)
        BY <4>1, <3>2, <2>1 DEF PublishReturns, Becomes, TypeInv, TypeOK, CompletedJobIsPublished
      <4>2. CASE ~ PublishReturns(w)
        <5>1. reportId' = reportId /\ (status' = status \/ status' = [status EXCEPT ![k] = "failed"])
          BY <1>4, <4>2 DEF Settle, ScanReturns, ScanThrows, SaveReturns, SaveThrows, PublishThrows,
                            Fail, Becomes, record
        <5>2. status[j] = "completed" /\ reportId'[j] = reportId[j]
          BY <5>1, <2>1 DEF TypeInv, TypeOK
        <5>3. Saved(j, reportId[j]) /\ checkRuns[j] > 0
          BY <5>2 DEF CompletedJobIsPublished, Saved
        <5>4. reportId[j] \in Nat /\ checkRuns[j] \in Nat /\ checkRuns'[j] \in Nat
          BY <1>4, SettleType DEF TypeInv, TypeOK
        <5>5. \E i \in DOMAIN reports'[j] : reports'[j][i] = reportId[j]
          BY <2>2, <5>3, <5>4 DEF Saved
        <5> QED BY <2>2, <5>2, <5>3, <5>4, <5>5
      <4> QED BY <4>1, <4>2
    <3> QED BY <3>1, <3>2
  <2> QED BY <2>3, <2>4
<1>5. CASE UNCHANGED vars
  BY <1>5 DEF vars, record, store, PublishesSaved, CompletedJobIsPublished, Saved
<1> QED BY <1>1, <1>2, <1>3, <1>4, <1>5 DEF Next

\* A completed job names a saved report and has a check run.
THEOREM CompletedIsPublished == Spec => []CompletedJobIsPublished
<1>1. PublishedInv => CompletedJobIsPublished
  BY DEF PublishedInv
<1> QED BY <1>1, PublishedInit, PublishedStep, TypeAlways, PTL DEF Spec
-----------------------------------------------------------------------------
(* No check run that nobody asked for.                                     *)

ScansOf(k) == {w \in Workers : Active(w) /\ run[w].key = k}
Waiting(k) == IF status[k] = "queued" THEN 1 ELSE 0
RerunsOf(k) == {d \in deliveryIds[k] : Event[d].manualRerun}

\* An attempt is waiting, in a scan, or spent on at most one check run; the first one
\* is for the record, every further one for a manual rerun of its own.
AskedFor(k) ==
  /\ checkRuns[k] + Cardinality(ScansOf(k)) + Waiting(k) <= attempt[k]
  /\ attempt[k] <= 1 + Cardinality(RerunsOf(k))
  /\ deliveryIds[k] \subseteq seen
  /\ status[k] = "absent" => attempt[k] = 0
AskedInv == \A k \in Keys : AskedFor(k)

\* All counts of a key are natural numbers.
LEMMA CountsAreNat ==
  ASSUME TypeOK, NEW k \in Keys
  PROVE  /\ IsFiniteSet(ScansOf(k)) /\ Cardinality(ScansOf(k)) \in Nat
         /\ IsFiniteSet(RerunsOf(k)) /\ Cardinality(RerunsOf(k)) \in Nat
         /\ checkRuns[k] \in Nat /\ attempt[k] \in Nat /\ Waiting(k) \in 0..1
<1>1. ScansOf(k) \subseteq Workers /\ RerunsOf(k) \subseteq Deliveries
  BY DEF ScansOf, RerunsOf, TypeOK
<1>2. checkRuns[k] \in Nat /\ attempt[k] \in Nat
  BY DEF TypeOK
<1>3. Waiting(k) \in 0..1
  BY DEF Waiting
<1> QED BY <1>1, <1>2, <1>3, FiniteAssumption, FS_Subset, FS_CardinalityType

\* A key that a step does not touch keeps its account.
LEMMA SameAccount ==
  ASSUME NEW k \in Keys, AskedFor(k), seen \subseteq seen',
         checkRuns'[k] = checkRuns[k], attempt'[k] = attempt[k], status'[k] = status[k],
         deliveryIds'[k] = deliveryIds[k], ScansOf(k)' = ScansOf(k)
  PROVE  AskedFor(k)'
<1>1. Waiting(k)' = Waiting(k)
  BY DEF Waiting
<1>2. RerunsOf(k)' = RerunsOf(k)
  BY DEF RerunsOf
<1> QED BY <1>1, <1>2 DEF AskedFor

LEMMA HandleWebhookAsks ==
  ASSUME TypeInv, AskedInv, NEW d \in Deliveries, HandleWebhook(d)
  PROVE  AskedInv'
<1> DEFINE k == Event[d].key
<1>0. k \in Keys /\ TypeOK /\ \A j \in Keys : AskedFor(j)
  BY ConstantsAssumption DEF Events, TypeInv, AskedInv
<1>1. /\ seen' = seen \cup {d} /\ d \notin seen
      /\ UNCHANGED <<run, checkRuns>>
      /\ Upsert(d, k) \/ UNCHANGED record
  BY DEF HandleWebhook, store
<1>2. \A j \in Keys : ScansOf(j)' = ScansOf(j)
  BY <1>1 DEF ScansOf, Active
<1>3. CASE UNCHANGED record
  BY <1>0, <1>1, <1>2, <1>3, SameAccount DEF AskedInv, record
<1>4. CASE Upsert(d, k)
  <2>1. deliveryIds' = [deliveryIds EXCEPT ![k] = deliveryIds[k] \cup {d}]
    BY <1>0, <1>4 DEF Upsert, TypeOK
  <2>2. \/ /\ Event[d].manualRerun \/ status[k] = "absent"
           /\ attempt' = [attempt EXCEPT ![k] = attempt[k] + 1]
           /\ status' = [status EXCEPT ![k] = "queued"]
        \/ /\ ~ Event[d].manualRerun /\ status[k] # "absent"
           /\ UNCHANGED <<attempt, status>>
    BY <1>0, <1>4 DEF Upsert, Becomes, TypeOK
  <2>3. \A j \in Keys : j # k => /\ deliveryIds'[j] = deliveryIds[j] /\ attempt'[j] = attempt[j]
                                 /\ status'[j] = status[j]
    BY <1>0, <2>1, <2>2 DEF TypeOK
  <2>4. deliveryIds'[k] = deliveryIds[k] \cup {d} /\ d \notin deliveryIds[k]
    BY <1>0, <1>1, <2>1 DEF AskedFor, TypeOK
  <2>5. Cardinality(RerunsOf(k)') = Cardinality(RerunsOf(k)) + (IF Event[d].manualRerun THEN 1 ELSE 0)
    <3>1. CASE Event[d].manualRerun
      <4>1. RerunsOf(k)' = RerunsOf(k) \cup {d} /\ d \notin RerunsOf(k)
        BY <2>4, <3>1 DEF RerunsOf
      <4> QED BY <1>0, <3>1, <4>1, CountsAreNat, FS_AddElement
    <3>2. CASE ~ Event[d].manualRerun
      <4>1. RerunsOf(k)' = RerunsOf(k)
        BY <2>4, <3>2 DEF RerunsOf
      <4> QED BY <1>0, <3>2, <4>1, CountsAreNat
    <3> QED BY <3>1, <3>2
  <2>6. AskedFor(k)'
    <3>1. /\ checkRuns[k] + Cardinality(ScansOf(k)) + Waiting(k) <= attempt[k]
          /\ attempt[k] <= 1 + Cardinality(RerunsOf(k))
          /\ status[k] = "absent" => attempt[k] = 0
      BY <1>0 DEF AskedFor
    <3>2. deliveryIds'[k] \subseteq seen'
      BY <1>0, <1>1, <2>4 DEF AskedFor
    <3>3. /\ Cardinality(ScansOf(k)) \in Nat /\ Cardinality(RerunsOf(k)) \in Nat
          /\ checkRuns[k] \in Nat /\ attempt[k] \in Nat /\ Waiting(k) \in 0..1
      BY <1>0, CountsAreNat
    <3>4. CASE /\ Event[d].manualRerun \/ status[k] = "absent"
               /\ attempt' = [attempt EXCEPT ![k] = attempt[k] + 1]
               /\ status' = [status EXCEPT ![k] = "queued"]
      <4>1. attempt'[k] = attempt[k] + 1 /\ status'[k] = "queued" /\ Waiting(k)' = 1
        BY <1>0, <3>4 DEF TypeOK, Waiting
      <4>2. attempt'[k] <= 1 + Cardinality(RerunsOf(k)')
        BY <2>5, <3>1, <3>3, <3>4, <4>1
      <4>3. checkRuns'[k] + Cardinality(ScansOf(k)') + Waiting(k)' <= attempt'[k]
        BY <1>0, <1>1, <1>2, <3>1, <3>3, <4>1
      <4> QED BY <3>2, <4>1, <4>2, <4>3 DEF AskedFor
    <3>5. CASE ~ Event[d].manualRerun /\ UNCHANGED <<attempt, status>>
      <4>1. attempt'[k] = attempt[k] /\ status'[k] = status[k] /\ Waiting(k)' = Waiting(k)
        BY <3>5 DEF Waiting
      <4>2. attempt'[k] <= 1 + Cardinality(RerunsOf(k)')
        BY <2>5, <3>1, <3>3, <3>5, <4>1
      <4>3. checkRuns'[k] + Cardinality(ScansOf(k)') + Waiting(k)' <= attempt'[k]
        BY <1>0, <1>1, <1>2, <3>1, <4>1
      <4> QED BY <3>1, <3>2, <4>1, <4>2, <4>3 DEF AskedFor
    <3> QED BY <2>2, <3>4, <3>5
  <2>7. ASSUME NEW j \in Keys, j # k PROVE AskedFor(j)'
    BY <1>0, <1>1, <1>2, <2>3, <2>7, SameAccount
  <2> QED BY <2>6, <2>7 DEF AskedInv
<1> QED BY <1>1, <1>3, <1>4

LEMMA ClaimAsks ==
  ASSUME TypeInv, AskedInv, NEW w \in Workers, Claim(w)
  PROVE  AskedInv'
<1>0. TypeOK /\ \A j \in Keys : AskedFor(j)
  BY DEF TypeInv, AskedInv
<1>1. PICK k \in Keys :
        /\ status[k] = "queued"
        /\ UNCHANGED <<seen, attempt, deliveryIds, checkRuns>>
        /\ ~ Active(w)
        /\ \A v \in Workers : v # w => run'[v] = run[v]
        /\ \/ /\ status' = [status EXCEPT ![k] = "running"]
              /\ run'[w] = [at |-> "scan", key |-> k, scope |-> scope, reportId |-> 0]
           \/ status' = [status EXCEPT ![k] = "failed"] /\ run' = run
  BY ClaimEffect
<1>2. Waiting(k) = 1 /\ Waiting(k)' = 0 /\ \A j \in Keys : j # k => status'[j] = status[j]
  BY <1>0, <1>1 DEF Waiting, TypeOK
<1>3. ScansOf(k)' \subseteq ScansOf(k) \cup {w} /\ \A j \in Keys : j # k => ScansOf(j)' = ScansOf(j)
  BY <1>1 DEF ScansOf, Active
<1>4. Cardinality(ScansOf(k)') <= Cardinality(ScansOf(k)) + 1 /\ Cardinality(ScansOf(k)') \in Nat
  <2>1. IsFiniteSet(ScansOf(k)) /\ Cardinality(ScansOf(k)) \in Nat
    BY <1>0, CountsAreNat
  <2>2. /\ IsFiniteSet(ScansOf(k) \cup {w})
        /\ Cardinality(ScansOf(k) \cup {w}) <= Cardinality(ScansOf(k)) + 1
        /\ Cardinality(ScansOf(k) \cup {w}) \in Nat
    <3>1. PICK S : S = ScansOf(k)
      OBVIOUS
    <3>2. IsFiniteSet(S) /\ Cardinality(S) \in Nat
      BY <2>1, <3>1
    <3>3. IsFiniteSet(S \cup {w})
      BY <3>2, FS_AddElement, Zenon
    <3>4. Cardinality(S \cup {w}) = IF w \in S THEN Cardinality(S) ELSE Cardinality(S) + 1
      BY <3>2, FS_AddElement, Zenon
    <3> QED BY <3>1, <3>2, <3>3, <3>4
  <2>3. /\ IsFiniteSet(ScansOf(k)') /\ Cardinality(ScansOf(k)') <= Cardinality(ScansOf(k) \cup {w})
        /\ Cardinality(ScansOf(k)') \in Nat
    BY <1>3, <2>2, FS_Subset, FS_CardinalityType
  <2> QED BY <2>1, <2>2, <2>3
<1>5. AskedFor(k)'
  <2>1. /\ Cardinality(ScansOf(k)) \in Nat /\ checkRuns[k] \in Nat /\ attempt[k] \in Nat
    BY <1>0, CountsAreNat
  <2>2. /\ checkRuns[k] + Cardinality(ScansOf(k)) + Waiting(k) <= attempt[k]
        /\ attempt[k] <= 1 + Cardinality(RerunsOf(k))
        /\ deliveryIds[k] \subseteq seen
    BY <1>0 DEF AskedFor
  <2>3. checkRuns'[k] + Cardinality(ScansOf(k)') + Waiting(k)' <= attempt'[k]
    BY <1>1, <1>2, <1>4, <2>1, <2>2
  <2>4. attempt'[k] <= 1 + Cardinality(RerunsOf(k)') /\ deliveryIds'[k] \subseteq seen'
    BY <1>1, <2>2 DEF RerunsOf
  <2>5. status'[k] # "absent"
    BY <1>0, <1>1 DEF TypeOK
  <2> QED BY <2>3, <2>4, <2>5 DEF AskedFor
<1>6. ASSUME NEW j \in Keys, j # k PROVE AskedFor(j)'
  BY <1>0, <1>1, <1>2, <1>3, <1>6, SameAccount
<1> QED BY <1>5, <1>6 DEF AskedInv

\* A step of a call creates a check run only when it ends the call.
LEMMA ChecksEndTheCall ==
  ASSUME TypeInv, NEW w \in Workers, Settle(w)
  PROVE  /\ \A j \in Keys : j # run[w].key => checkRuns'[j] = checkRuns[j]
         /\ \/ checkRuns' = checkRuns
            \/ run'[w] = Idle /\ checkRuns'[run[w].key] = checkRuns[run[w].key] + 1
<1>1. run[w].key \in Keys /\ run \in [Workers -> Calls \cup {Idle}] /\ checkRuns \in [Keys -> Nat]
  BY SettleFrame DEF TypeInv, TypeOK
<1>2. \/ checkRuns' = checkRuns
      \/ run' = [run EXCEPT ![w] = Idle] /\ checkRuns' = [checkRuns EXCEPT ![run[w].key] = @ + 1]
  BY DEF Settle, ScanReturns, ScanThrows, SaveReturns, SaveThrows, PublishReturns, PublishThrows,
         Fail, store
<1> QED BY <1>1, <1>2

LEMMA SettleAsks ==
  ASSUME TypeInv, AskedInv, NEW w \in Workers, Settle(w)
  PROVE  AskedInv'
<1>k. PICK k \in Keys : k = run[w].key
  BY SettleFrame
<1>0. TypeOK /\ \A j \in Keys : AskedFor(j)
  BY DEF TypeInv, AskedInv
<1>1. /\ Active(w) /\ k \in Keys
      /\ UNCHANGED <<seen, attempt, deliveryIds>>
      /\ \A v \in Workers : v # w => run'[v] = run[v]
      /\ \/ /\ run'[w] = Idle
            /\ status' \in {[status EXCEPT ![k] = s] : s \in {"failed", "completed"}}
         \/ /\ run'[w] \in Calls /\ run'[w].key = k
            /\ status' = status
  BY <1>k, SettleFrame
<1>2. /\ \A j \in Keys : j # k => checkRuns'[j] = checkRuns[j]
      /\ \/ checkRuns' = checkRuns
         \/ run'[w] = Idle /\ checkRuns'[k] = checkRuns[k] + 1
  BY <1>k, ChecksEndTheCall
<1>3. /\ Cardinality(ScansOf(k)) \in Nat /\ IsFiniteSet(ScansOf(k)) /\ checkRuns[k] \in Nat
      /\ attempt[k] \in Nat /\ Waiting(k) \in 0..1
  BY <1>0, <1>1, CountsAreNat
<1>4. /\ checkRuns[k] + Cardinality(ScansOf(k)) + Waiting(k) <= attempt[k]
      /\ attempt[k] <= 1 + Cardinality(RerunsOf(k))
      /\ deliveryIds[k] \subseteq seen
      /\ status[k] = "absent" => attempt[k] = 0
  BY <1>0, <1>1 DEF AskedFor
<1>5. attempt'[k] <= 1 + Cardinality(RerunsOf(k)') /\ deliveryIds'[k] \subseteq seen'
  BY <1>1, <1>4 DEF RerunsOf
<1>6. ASSUME NEW j \in Keys, j # k PROVE AskedFor(j)'
  <2>1. status'[j] = status[j]
    BY <1>0, <1>1, <1>6 DEF TypeOK
  <2>2. ScansOf(j)' = ScansOf(j)
    BY <1>k, <1>1, <1>6 DEF ScansOf, Active, Idle
  <2> QED BY <1>0, <1>1, <1>2, <1>6, <2>1, <2>2, SameAccount
<1>7. CASE run'[w] = Idle /\ status' \in {[status EXCEPT ![k] = s] : s \in {"failed", "completed"}}
  <2>1. status'[k] \notin {"queued", "absent"} /\ Waiting(k)' = 0
    BY <1>0, <1>1, <1>7 DEF TypeOK, Waiting
  <2>2. ScansOf(k)' = ScansOf(k) \ {w} /\ w \in ScansOf(k)
    BY <1>k, <1>1, <1>7 DEF ScansOf, Active, Idle
  <2>3. Cardinality(ScansOf(k)') = Cardinality(ScansOf(k)) - 1
    BY <1>3, <2>2, FS_RemoveElement
  <2>4. checkRuns'[k] <= checkRuns[k] + 1 /\ checkRuns'[k] \in Nat
    BY <1>2, <1>3
  <2>5. checkRuns'[k] + Cardinality(ScansOf(k)') + Waiting(k)' <= attempt'[k]
    BY <1>1, <1>3, <1>4, <2>1, <2>3, <2>4
  <2>6. AskedFor(k)'
    BY <1>5, <2>1, <2>5 DEF AskedFor
  <2> QED BY <1>6, <2>6 DEF AskedInv
<1>8. CASE run'[w] \in Calls /\ run'[w].key = k /\ status' = status
  <2>1. run'[w].at # "idle"
    BY <1>8 DEF Calls
  <2>2. ScansOf(k)' = ScansOf(k)
    BY <1>k, <1>1, <1>8, <2>1 DEF ScansOf, Active
  <2>3. checkRuns' = checkRuns
    BY <1>2, <2>1 DEF Idle
  <2>4. AskedFor(k)'
    BY <1>0, <1>1, <1>8, <2>2, <2>3, SameAccount
  <2> QED BY <1>6, <2>4 DEF AskedInv
<1> QED BY <1>1, <1>7, <1>8

LEMMA AskedStep == TypeInv /\ AskedInv /\ [Next]_vars => AskedInv'
<1> SUFFICES ASSUME TypeInv, AskedInv, [Next]_vars PROVE AskedInv'
  OBVIOUS
<1>1. CASE UNCHANGED <<seen, record, run, store>>
  <2>1. \A k \in Keys : ScansOf(k)' = ScansOf(k)
    BY <1>1 DEF ScansOf, Active
  <2> QED BY <1>1, <2>1, SameAccount DEF AskedInv, record, store
<1>2. ASSUME NEW r \in Repos, ChangeScope(r) PROVE AskedInv'
  BY <1>1, <1>2 DEF ChangeScope
<1>3. CASE UNCHANGED vars
  BY <1>1, <1>3 DEF vars
<1> QED BY <1>2, <1>3, HandleWebhookAsks, ClaimAsks, SettleAsks DEF Next

\* One check run for a job and one more for every manual rerun, whatever is delivered
\* twice, fails or overlaps.
THEOREM ChecksWereAskedFor == Spec => []CheckRunsWereAskedFor
<1>1. Init => AskedInv
  <2> SUFFICES ASSUME Init, NEW k \in Keys PROVE AskedFor(k)
    BY DEF AskedInv
  <2>1. ScansOf(k) = {} /\ RerunsOf(k) = {}
    BY DEF Init, ScansOf, RerunsOf, Active, Idle
  <2>2. /\ checkRuns[k] = 0 /\ attempt[k] = 0 /\ Waiting(k) = 0
        /\ deliveryIds[k] \subseteq seen
    BY DEF Init, Waiting
  <2> QED BY <2>1, <2>2, FS_EmptySet DEF AskedFor
<1>2. TypeInv /\ AskedInv => CheckRunsWereAskedFor
  <2> SUFFICES ASSUME TypeInv, AskedInv, NEW k \in Keys
               PROVE  checkRuns[k] <= 1 + Cardinality(RerunsOf(k))
    BY DEF CheckRunsWereAskedFor, RerunsOf
  <2> QED BY CountsAreNat DEF TypeInv, AskedInv, AskedFor
<1> QED BY <1>1, <1>2, AskedStep, TypeAlways, PTL DEF Spec

-----------------------------------------------------------------------------
(***************************************************************************)
(* When no manual rerun meets a running job, every step of the hosted      *)
(* service is a step of the job board or leaves it alone.                  *)
(***************************************************************************)

\* A call has its job to itself: the job is running, and in no other call.
CallsAreExclusive ==
  \A w \in Workers : Active(w) =>
    /\ status[run[w].key] = "running"
    /\ \A v \in Workers : Active(v) /\ run[v].key = run[w].key => v = w

LEMMA ExclusiveInit == Init => CallsAreExclusive
  BY DEF Init, CallsAreExclusive, Active, Idle

LEMMA ExclusiveStep ==
  ASSUME ~ RerunsWhileRunning
  PROVE  TypeInv /\ CallsAreExclusive /\ [Next]_vars => CallsAreExclusive'
<1> SUFFICES ASSUME TypeInv, CallsAreExclusive, [Next]_vars PROVE CallsAreExclusive'
  OBVIOUS
<1>1. ASSUME NEW d \in Deliveries, HandleWebhook(d) PROVE CallsAreExclusive'
  <2> DEFINE k == Event[d].key
  <2>1. k \in Keys /\ UNCHANGED run
    BY <1>1, ConstantsAssumption DEF Events, HandleWebhook
  <2>2. \/ status' = status
        \/ status' = [status EXCEPT ![k] = "queued"] /\ status[k] # "running"
    BY <1>1 DEF HandleWebhook, Upsert, Becomes, record
  <2>3. \A j \in Keys : status[j] = "running" => status'[j] = "running"
    BY <2>1, <2>2 DEF TypeInv, TypeOK
  <2>4. \A w \in Workers : Active(w) => run[w].key \in Keys
    BY ActiveCall DEF TypeInv
  <2>5. \A w \in Workers : (Active(w)' <=> Active(w)) /\ run'[w] = run[w]
    BY <2>1 DEF Active
  <2> QED BY <2>3, <2>4, <2>5 DEF CallsAreExclusive
<1>2. ASSUME NEW r \in Repos, ChangeScope(r) PROVE CallsAreExclusive'
  BY <1>2 DEF ChangeScope, record, CallsAreExclusive, Active
<1>3. ASSUME NEW w \in Workers, Claim(w) PROVE CallsAreExclusive'
  <2>1. PICK k \in Keys :
          /\ status[k] = "queued"
          /\ ~ Active(w)
          /\ \A v \in Workers : v # w => run'[v] = run[v]
          /\ \/ /\ status' = [status EXCEPT ![k] = "running"]
                /\ run'[w] = [at |-> "scan", key |-> k, scope |-> scope, reportId |-> 0]
             \/ status' = [status EXCEPT ![k] = "failed"] /\ run' = run
    BY <1>3, ClaimEffect
  <2>2. \A v \in Workers : Active(v) => run[v].key \in Keys /\ run[v].key # k
    BY <2>1, ActiveCall DEF TypeInv, CallsAreExclusive
  <2>3. \A j \in Keys : j # k => status'[j] = status[j]
    BY <2>1 DEF TypeInv, TypeOK
  <2>4. CASE run' = run
    BY <2>2, <2>3, <2>4 DEF CallsAreExclusive, Active
  <2>5. CASE /\ status' = [status EXCEPT ![k] = "running"]
             /\ run'[w] = [at |-> "scan", key |-> k, scope |-> scope, reportId |-> 0]
    <3>1. run'[w].key = k /\ status'[k] = "running"
      BY <2>5 DEF TypeInv, TypeOK
    <3>2. \A v \in Workers : v # w => Active(v)' = Active(v) /\ run'[v].key = run[v].key
      BY <2>1 DEF Active
    <3> QED BY <2>2, <2>3, <3>1, <3>2 DEF CallsAreExclusive
  <2> QED BY <2>1, <2>4, <2>5
<1>4. ASSUME NEW w \in Workers, Settle(w) PROVE CallsAreExclusive'
  <2> DEFINE k == run[w].key
  <2>1. /\ Active(w) /\ k \in Keys
        /\ \A v \in Workers : v # w => run'[v] = run[v]
        /\ \/ /\ run'[w] = Idle
              /\ status' \in {[status EXCEPT ![k] = s] : s \in {"failed", "completed"}}
           \/ /\ run'[w] \in Calls /\ run'[w].key = k
              /\ status' = status
    BY <1>4, SettleFrame
  <2>2. CASE status' = status /\ run'[w].key = k
    BY <2>1, <2>2 DEF CallsAreExclusive, Active
  <2>3. CASE /\ run'[w] = Idle
             /\ status' \in {[status EXCEPT ![k] = s] : s \in {"failed", "completed"}}
    <3>1. \A v \in Workers : Active(v)' => v # w /\ Active(v) /\ run'[v] = run[v]
      BY <2>1, <2>3 DEF Active, Idle
    <3>2. \A v \in Workers : Active(v)' => run[v].key \in Keys /\ run[v].key # k
      BY <2>1, <3>1, ActiveCall DEF TypeInv, CallsAreExclusive
    <3>3. \A j \in Keys : j # k => status'[j] = status[j]
      BY <2>1, <2>3 DEF TypeInv, TypeOK
    <3> QED BY <3>1, <3>2, <3>3 DEF CallsAreExclusive
  <2> QED BY <2>1, <2>2, <2>3
<1>5. CASE UNCHANGED vars
  BY <1>5 DEF vars, record, CallsAreExclusive, Active
<1> QED BY <1>1, <1>2, <1>3, <1>4, <1>5 DEF Next

-----------------------------------------------------------------------------
(* Steps of the service seen from the job board.                           *)

LEMMA BoardInit == Init => Board!Init
  BY DEF Init, Board!Init

\* A job without a record has had no attempt.
AbsentIsNew == \A k \in Keys : status[k] = "absent" => attempt[k] = 0

LEMMA AbsentInit == Init => AbsentIsNew
  BY DEF Init, AbsentIsNew

LEMMA AbsentStep == TypeInv /\ AbsentIsNew /\ [Next]_vars => AbsentIsNew'
<1> SUFFICES ASSUME TypeInv, AbsentIsNew, [Next]_vars PROVE AbsentIsNew'
  OBVIOUS
<1>0. status \in [Keys -> Statuses \cup {"absent"}] /\ attempt \in [Keys -> Nat]
  BY DEF TypeInv, TypeOK
<1>1. ASSUME NEW d \in Deliveries, HandleWebhook(d) PROVE AbsentIsNew'
  <2>1. Event[d].key \in Keys
    BY ConstantsAssumption DEF Events
  <2>2. \/ UNCHANGED <<status, attempt>>
        \/ /\ status' = [status EXCEPT ![Event[d].key] = "queued"]
           /\ attempt' = [attempt EXCEPT ![Event[d].key] = @ + 1]
    BY <1>1 DEF HandleWebhook, Upsert, Becomes, record
  <2> QED BY <1>0, <2>1, <2>2 DEF AbsentIsNew
<1>2. ASSUME NEW r \in Repos, ChangeScope(r) PROVE AbsentIsNew'
  BY <1>2 DEF ChangeScope, record, AbsentIsNew
<1>3. ASSUME NEW w \in Workers, Claim(w) PROVE AbsentIsNew'
  <2>1. PICK k \in Keys :
          /\ UNCHANGED attempt
          /\ \/ status' = [status EXCEPT ![k] = "running"]
             \/ status' = [status EXCEPT ![k] = "failed"]
    BY <1>3, ClaimEffect
  <2> QED BY <1>0, <2>1 DEF AbsentIsNew
<1>4. ASSUME NEW w \in Workers, Settle(w) PROVE AbsentIsNew'
  <2>1. /\ UNCHANGED attempt
        /\ \/ status' \in {[status EXCEPT ![run[w].key] = s] : s \in {"failed", "completed"}}
           \/ status' = status
    BY <1>4, SettleFrame
  <2> QED BY <1>0, <2>1 DEF AbsentIsNew
<1>5. CASE UNCHANGED vars
  BY <1>5 DEF vars, record, AbsentIsNew
<1> QED BY <1>1, <1>2, <1>3, <1>4, <1>5 DEF Next

LEMMA BoardStep ==
  ASSUME ~ RerunsWhileRunning, TypeInv, CallsAreExclusive, AbsentIsNew, [Next]_vars
  PROVE  [Board!Next]_(Board!vars)
<1> USE DEF Board!vars, Board!Next, Board!Becomes
<1>1. ASSUME NEW d \in Deliveries, HandleWebhook(d) PROVE [Board!Next]_(Board!vars)
  <2> DEFINE k == Event[d].key
  <2>1. k \in Keys
    BY ConstantsAssumption DEF Events
  <2>2. CASE UNCHANGED <<status, attempt>>
    BY <2>2
  <2>3. CASE /\ Event[d].manualRerun \/ status[k] = "absent"
             /\ attempt' = [attempt EXCEPT ![k] = @ + 1]
             /\ status' = [status EXCEPT ![k] = "queued"]
    <3>1. status[k] # "running"
      BY <1>1, <2>3 DEF HandleWebhook
    <3>2. CASE status[k] = "absent"
      <4>1. attempt[k] = 0
        BY <2>1, <3>2 DEF AbsentIsNew
      <4>2. attempt' = [attempt EXCEPT ![k] = 1]
        BY <2>1, <2>3, <4>1 DEF TypeInv, TypeOK
      <4>3. Board!Post(k)
        BY <2>3, <3>2, <4>2 DEF Board!Post
      <4> QED BY <2>1, <4>3
    <3>3. CASE status[k] # "absent"
      <4>1. status[k] \in {"queued", "completed", "failed"}
        BY <2>1, <3>1, <3>3 DEF TypeInv, TypeOK, Statuses
      <4> QED BY <2>1, <2>3, <4>1 DEF Board!Rerun
    <3> QED BY <3>2, <3>3
  <2> QED BY <1>1, <2>2, <2>3 DEF HandleWebhook, Upsert, Becomes, record
<1>2. ASSUME NEW r \in Repos, ChangeScope(r) PROVE [Board!Next]_(Board!vars)
  BY <1>2 DEF ChangeScope, record
<1>3. ASSUME NEW w \in Workers, Claim(w) PROVE [Board!Next]_(Board!vars)
  <2>1. PICK k \in Keys :
          /\ status[k] = "queued" /\ UNCHANGED attempt
          /\ \/ status' = [status EXCEPT ![k] = "running"]
             \/ status' = [status EXCEPT ![k] = "failed"]
    BY <1>3, ClaimEffect
  <2> QED BY <2>1 DEF Board!Claim, Board!Refuse
<1>4. ASSUME NEW w \in Workers, Settle(w) PROVE [Board!Next]_(Board!vars)
  <2>1. /\ Active(w) /\ run[w].key \in Keys /\ UNCHANGED attempt
        /\ \/ status' \in {[status EXCEPT ![run[w].key] = s] : s \in {"failed", "completed"}}
           \/ status' = status
    BY <1>4, SettleFrame
  <2>2. status[run[w].key] = "running"
    BY <2>1 DEF CallsAreExclusive
  <2> QED BY <2>1, <2>2 DEF Board!Finish
<1>5. CASE UNCHANGED vars
  BY <1>5 DEF vars, record
<1> QED BY <1>1, <1>2, <1>3, <1>4, <1>5 DEF Next

\* The service implements the safety of the job board.
THEOREM ImplementsTheBoard ==
  ASSUME ~ RerunsWhileRunning
  PROVE  Spec => Board!Safety
<1>1. TypeInv /\ CallsAreExclusive /\ AbsentIsNew /\ [Next]_vars => [Board!Next]_(Board!vars)
  BY BoardStep
<1>2. Spec => []CallsAreExclusive
  BY ExclusiveInit, ExclusiveStep, TypeAlways, PTL DEF Spec
<1>3. Spec => []AbsentIsNew
  BY AbsentInit, AbsentStep, TypeAlways, PTL DEF Spec
<1> QED BY <1>1, <1>2, <1>3, BoardInit, TypeAlways, PTL DEF Spec, Board!Safety

-----------------------------------------------------------------------------
(* Report ids.                                                             *)

\* The saved reports of a job name attempts up to its own, and an earlier one while
\* the job waits, or is in a scan whose report is not saved yet.
NamesAreBehind ==
  /\ \A k \in Keys : \A i \in DOMAIN reports[k] :
       /\ reports[k][i] <= attempt[k]
       /\ status[k] = "queued" => reports[k][i] < attempt[k]
  /\ \A w \in Workers : run[w].at \in {"scan", "save"} =>
       \A i \in DOMAIN reports[run[w].key] : reports[run[w].key][i] < attempt[run[w].key]
  /\ \A w \in Workers : run[w].at = "save" => run[w].reportId = attempt[run[w].key]

NamesInv == NamesAreBehind /\ ReportIdsAreUnique

LEMMA NamesInit == Init => NamesInv
<1> SUFFICES ASSUME Init PROVE NamesInv
  OBVIOUS
<1>1. \A k \in Keys : reports[k] = <<>>
  BY DEF Init
<1>2. \A k \in Keys : DOMAIN reports[k] = {}
  BY <1>1
<1> QED BY <1>2 DEF Init, NamesInv, NamesAreBehind, ReportIdsAreUnique, Idle

LEMMA NamesStep ==
  ASSUME ~ RerunsWhileRunning
  PROVE  TypeInv /\ CallsAreExclusive /\ NamesInv /\ [Next]_vars => NamesInv'
<1> SUFFICES ASSUME TypeInv, CallsAreExclusive, NamesInv, [Next]_vars PROVE NamesInv'
  OBVIOUS
<1> USE DEF NamesInv
<1>0. \A k \in Keys : attempt[k] \in Nat /\ reports[k] \in Seq(Nat) /\ DOMAIN reports[k] = 1..Len(reports[k])
                      /\ Len(reports[k]) \in Nat
  BY LenProperties DEF TypeInv, TypeOK
<1>t. \A k \in Keys : \A i \in DOMAIN reports[k] : reports[k][i] \in Nat
  BY <1>0, ElementOfSeq
<1>a. \A w \in Workers : run[w].at \in {"scan", "save"} =>
        run[w].key \in Keys /\ status[run[w].key] = "running"
  BY ActiveCall DEF TypeInv, CallsAreExclusive, Active
<1>1. ASSUME NEW d \in Deliveries, HandleWebhook(d) PROVE NamesInv'
  <2> DEFINE k == Event[d].key
  <2>1. k \in Keys /\ UNCHANGED <<run, reports>>
    BY <1>1, ConstantsAssumption DEF Events, HandleWebhook, store
  <2>2. \/ UNCHANGED <<status, attempt>>
        \/ /\ status[k] # "running"
           /\ status' = [status EXCEPT ![k] = "queued"]
           /\ attempt' = [attempt EXCEPT ![k] = @ + 1]
    BY <1>1 DEF HandleWebhook, Upsert, Becomes, record
  <2>3. CASE UNCHANGED <<status, attempt>>
    BY <2>1, <2>3 DEF NamesAreBehind, ReportIdsAreUnique
  <2>4. CASE /\ status[k] # "running"
             /\ status' = [status EXCEPT ![k] = "queued"]
             /\ attempt' = [attempt EXCEPT ![k] = @ + 1]
    <3>1. /\ attempt'[k] = attempt[k] + 1
          /\ \A j \in Keys : j # k => attempt'[j] = attempt[j] /\ status'[j] = status[j]
      BY <2>1, <2>4 DEF TypeInv, TypeOK
    <3>2. \A w \in Workers : run[w].at \in {"scan", "save"} => run[w].key # k
      BY <1>a, <2>4
    <3>3. \A j \in Keys : \A i \in DOMAIN reports[j] :
            reports[j][i] <= attempt'[j] /\ (status'[j] = "queued" => reports[j][i] < attempt'[j])
      BY <3>1, <1>0, <1>t, <2>1 DEF NamesAreBehind
    <3>4. NamesAreBehind'
      BY <2>1, <3>1, <3>2, <3>3, <1>a DEF NamesAreBehind
    <3> QED BY <2>1, <3>4 DEF ReportIdsAreUnique
  <2> QED BY <2>2, <2>3, <2>4
<1>2. ASSUME NEW r \in Repos, ChangeScope(r) PROVE NamesInv'
  BY <1>2 DEF ChangeScope, record, store, NamesAreBehind, ReportIdsAreUnique
<1>3. ASSUME NEW w \in Workers, Claim(w) PROVE NamesInv'
  <2>1. PICK k \in Keys :
          /\ status[k] = "queued"
          /\ UNCHANGED <<attempt, reports>>
          /\ \A v \in Workers : v # w => run'[v] = run[v]
          /\ \/ /\ status' = [status EXCEPT ![k] = "running"]
                /\ run'[w] = [at |-> "scan", key |-> k, scope |-> scope, reportId |-> 0]
             \/ status' = [status EXCEPT ![k] = "failed"] /\ run' = run
    BY <1>3, ClaimEffect
  <2>2. \A j \in Keys : status'[j] = "queued" => status[j] = "queued"
    BY <2>1 DEF TypeInv, TypeOK
  <2>3. \A v \in Workers : \/ run'[v] = run[v]
                           \/ run'[v].at = "scan" /\ run'[v].key = k
    BY <2>1
  <2>4. \A i \in DOMAIN reports[k] : reports[k][i] < attempt[k]
    BY <2>1 DEF NamesAreBehind
  <2>5. NamesAreBehind'
    <3> SUFFICES ASSUME NEW v \in Workers
                 PROVE  /\ run'[v].at \in {"scan", "save"} =>
                             \A i \in DOMAIN reports'[run'[v].key] :
                               reports'[run'[v].key][i] < attempt'[run'[v].key]
                        /\ run'[v].at = "save" => run'[v].reportId = attempt'[run'[v].key]
      BY <2>1, <2>2 DEF NamesAreBehind
    <3> QED BY <2>1, <2>3, <2>4 DEF NamesAreBehind
  <2> QED BY <2>1, <2>5 DEF ReportIdsAreUnique
<1>4. ASSUME NEW w \in Workers, Settle(w) PROVE NamesInv'
  <2> DEFINE k == run[w].key
  <2> DEFINE id == run[w].reportId
  <2>1. /\ Active(w) /\ k \in Keys /\ UNCHANGED attempt
        /\ \A v \in Workers : v # w => run'[v] = run[v]
        /\ \/ /\ run'[w] = Idle
              /\ status' \in {[status EXCEPT ![k] = s] : s \in {"failed", "completed"}}
           \/ /\ run'[w] \in Calls /\ run'[w].key = k
              /\ status' = status
    BY <1>4, SettleFrame
  <2>2. \A j \in Keys : status'[j] = "queued" => status[j] = "queued"
    BY <2>1 DEF TypeInv, TypeOK
  <2>3. \A v \in Workers : v # w /\ run[v].at \in {"scan", "save"} => run[v].key \in Keys /\ run[v].key # k
    BY <2>1, <1>a DEF CallsAreExclusive, Active
  <2>4. status[k] = "running"
    BY <2>1 DEF CallsAreExclusive
  <2>5. CASE reports' = reports
    <3>1. \/ run'[w] = Idle
          \/ run[w].at = "scan" /\ run'[w].at = "save" /\ run'[w].key = k /\ run'[w].reportId = attempt[k]
      <4>1. CASE ScanReturns(w)
        BY <4>1 DEF ScanReturns, Suspend, TypeInv, TypeOK
      <4>2. CASE ~ ScanReturns(w)
        <5>1. ~ SaveReturns(w)
          <6>1. SUFFICES ASSUME SaveReturns(w) PROVE FALSE
            OBVIOUS
          <6>2. reports' = [reports EXCEPT ![k] = Append(@, id)] /\ id \in Nat
            BY <6>1, <2>1, ActiveCall DEF SaveReturns, TypeInv
          <6>3. DOMAIN reports'[k] = 1..(Len(reports[k]) + 1)
            BY <6>2, <2>1, AppendAt DEF TypeInv, TypeOK
          <6> QED BY <6>3, <2>1, <2>5, <1>0
        <5> QED BY <1>4, <4>2, <5>1 DEF Settle, ScanThrows, SaveThrows, PublishReturns, PublishThrows,
                                         Fail, TypeInv, TypeOK
      <4> QED BY <4>1, <4>2
    <3>2. \A v \in Workers : \/ run'[v] = run[v] \/ run'[v] = Idle
                             \/ /\ run[v].at = "scan" /\ run'[v].at = "save"
                                /\ run'[v].key = run[v].key /\ run'[v].reportId = attempt[run[v].key]
      BY <2>1, <3>1
    <3>3. NamesAreBehind'
      BY <2>1, <2>2, <2>5, <3>2 DEF NamesAreBehind, Idle
    <3> QED BY <2>5, <3>3 DEF ReportIdsAreUnique
  <2>6. CASE reports' # reports
    <3>1. /\ run[w].at = "save"
          /\ reports' = [reports EXCEPT ![k] = Append(@, id)]
          /\ run'[w] = Idle \/ run'[w].at = "publish"
      BY <1>4, <2>6 DEF Settle, ScanReturns, ScanThrows, SaveReturns, SaveThrows, PublishReturns,
                        PublishThrows, store, Fail, Suspend, TypeInv, TypeOK
    <3>2. id = attempt[k] /\ id \in Nat
      BY <3>1, <2>1, <1>0 DEF NamesAreBehind
    <3>3. /\ DOMAIN reports'[k] = 1..(Len(reports[k]) + 1)
          /\ \A i \in 1..Len(reports[k]) : reports'[k][i] = reports[k][i]
          /\ reports'[k][Len(reports[k]) + 1] = id
          /\ \A j \in Keys : j # k => reports'[j] = reports[j]
      BY <2>1, <3>1, <3>2, AppendAt DEF TypeInv, TypeOK
    <3>4. \A i \in 1..Len(reports[k]) : reports[k][i] < id /\ reports[k][i] \in Nat
      BY <2>1, <3>1, <3>2, <1>0, <1>t DEF NamesAreBehind
    <3>5. \A i \in DOMAIN reports'[k] : i \in 1..Len(reports[k]) \/ i = Len(reports[k]) + 1
      BY <2>1, <3>3, <1>0
    <3>6. \A j \in Keys : \A i \in DOMAIN reports'[j] : reports'[j][i] <= attempt[j]
      <4> SUFFICES ASSUME NEW j \in Keys, NEW i \in DOMAIN reports'[j] PROVE reports'[j][i] <= attempt[j]
        OBVIOUS
      <4>1. CASE j = k /\ i \in 1..Len(reports[k])
        BY <4>1, <3>2, <3>3, <3>4
      <4>2. CASE j = k /\ i = Len(reports[k]) + 1
        BY <4>2, <3>2, <3>3
      <4>3. CASE j # k
        BY <4>3, <3>3 DEF NamesAreBehind
      <4> QED BY <4>1, <4>2, <4>3, <3>5
    <3>7. \A j \in Keys : status'[j] = "queued" => j # k /\ status[j] = "queued"
      BY <2>2, <2>4
    <3>8. \A v \in Workers : run'[v].at \in {"scan", "save"} => v # w /\ run'[v] = run[v]
      BY <2>1, <3>1 DEF Idle
    <3>9. NamesAreBehind'
      <4>1. \A j \in Keys : \A i \in DOMAIN reports'[j] :
              reports'[j][i] <= attempt'[j] /\ (status'[j] = "queued" => reports'[j][i] < attempt'[j])
        <5> SUFFICES ASSUME NEW j \in Keys, NEW i \in DOMAIN reports'[j], status'[j] = "queued"
                     PROVE  reports'[j][i] < attempt[j]
          BY <3>6, <2>1
        <5> QED BY <3>3, <3>7 DEF NamesAreBehind
      <4>2. \A v \in Workers : run'[v].at \in {"scan", "save"} =>
              /\ run[v].at \in {"scan", "save"} /\ run'[v] = run[v]
              /\ reports'[run[v].key] = reports[run[v].key]
        BY <2>3, <3>3, <3>8
      <4>3. \A v \in Workers : run'[v].at \in {"scan", "save"} =>
              \A i \in DOMAIN reports'[run'[v].key] : reports'[run'[v].key][i] < attempt'[run'[v].key]
        BY <4>2, <2>1 DEF NamesAreBehind
      <4>4. \A v \in Workers : run'[v].at = "save" => run'[v].reportId = attempt'[run'[v].key]
        BY <4>2, <2>1 DEF NamesAreBehind
      <4> QED BY <4>1, <4>3, <4>4 DEF NamesAreBehind
    <3>10. ReportIdsAreUnique'
      <4> SUFFICES ASSUME NEW j \in Keys, NEW i \in DOMAIN reports'[j], NEW m \in DOMAIN reports'[j],
                          reports'[j][i] = reports'[j][m]
                   PROVE  i = m
        BY DEF ReportIdsAreUnique
      <4>1. CASE j # k
        BY <4>1, <3>3 DEF ReportIdsAreUnique
      <4>2. CASE j = k /\ i \in 1..Len(reports[k]) /\ m \in 1..Len(reports[k])
        <5>1. reports[k][i] = reports'[k][i] /\ reports[k][m] = reports'[k][m]
          BY <4>2, <3>3
        <5>2. reports[k][i] = reports[k][m]
          BY <5>1, <4>2
        <5>3. i \in DOMAIN reports[k] /\ m \in DOMAIN reports[k] /\ k \in Keys
          BY <4>2, <2>1, <1>0
        <5> QED BY <5>2, <5>3 DEF ReportIdsAreUnique
      <4>3. CASE j = k /\ i = Len(reports[k]) + 1 /\ m \in 1..Len(reports[k])
        BY <4>3, <3>2, <3>3, <3>4
      <4>4. CASE j = k /\ m = Len(reports[k]) + 1 /\ i \in 1..Len(reports[k])
        BY <4>4, <3>2, <3>3, <3>4
      <4> QED BY <4>1, <4>2, <4>3, <4>4, <3>5
    <3> QED BY <3>9, <3>10
  <2> QED BY <2>5, <2>6
<1>5. CASE UNCHANGED vars
  BY <1>5 DEF vars, record, store, NamesAreBehind, ReportIdsAreUnique
<1> QED BY <1>1, <1>2, <1>3, <1>4, <1>5 DEF Next

\* No two saved reports of a job have the same id.
THEOREM ReportIdsUnique ==
  ASSUME ~ RerunsWhileRunning
  PROVE  Spec => []ReportIdsAreUnique
<1>1. NamesInv => ReportIdsAreUnique
  BY DEF NamesInv
<1>2. Spec => []CallsAreExclusive
  BY ExclusiveInit, ExclusiveStep, TypeAlways, PTL DEF Spec
<1> QED BY <1>1, <1>2, NamesInit, NamesStep, TypeAlways, PTL DEF Spec
=============================================================================
