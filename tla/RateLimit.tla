------------------------------ MODULE RateLimit ------------------------------
(***************************************************************************)
(* The per-repository rate limit of the hosted ingress,                    *)
(* hosted/cloudflare-worker/src/index.js, checkRepositoryRateLimit: one    *)
(* counter record in a key-value store, which each pull request webhook    *)
(* reads with one await and writes with another.  Date.now() is taken      *)
(* before the first.  One repository is modelled, the records of others    *)
(* have other keys; and an ingress that has the limit configured.          *)
(***************************************************************************)
EXTENDS Integers, FiniteSets

CONSTANTS
  Requests,    \* webhooks of the repository
  MaxEvents,   \* config.maxEvents
  Window,      \* config.windowSeconds, in ticks
  Horizon,     \* bound: the clock stops here
  MaxDamage    \* bound: how often a stored record becomes unreadable

ASSUME LimitAssumption ==
  /\ MaxEvents \in Nat \ {0} /\ Window \in Nat \ {0}
  /\ Horizon \in Nat /\ MaxDamage \in Nat
ASSUME RequestsAssumption == IsFiniteSet(Requests)

VARIABLES
  now,         \* Date.now()
  counter,     \* the stored record
  call,        \* of each request: the await it is at or its verdict
  overlapped,  \* history: some request started before another was done
  damage       \* number of times the record was damaged

vars == <<now, counter, call, overlapped, damage>>

Verdicts == {"admitted", "limited", "corrupt"}
InFlight == {"get", "put"}
\* The record, with the end of its expirationTtl; nothing is stored at first.
Records == [state : {"counter", "damaged"}, count : Nat, resetAt : Nat, expiresAt : Nat]
\* A call: when it took the time, what it is to store, its verdict after that, and
\* (history) when it stored.
Calls == [at : {"idle", "failed"} \cup InFlight \cup Verdicts, start : Nat,
          count : Nat, resetAt : Nat, verdict : Verdicts, stored : Nat]

Idle == [at |-> "idle", start |-> 0, count |-> 0, resetAt |-> 0, verdict |-> "limited",
         stored |-> 0]

Init ==
  /\ now = 0
  /\ counter = [state |-> "counter", count |-> 0, resetAt |-> 0, expiresAt |-> 0]
  /\ call = [r \in Requests |-> Idle]
  /\ overlapped = FALSE
  /\ damage = 0

-----------------------------------------------------------------------------
(* checkRepositoryRateLimit                                                *)

Start(r) ==
  /\ call[r].at = "idle"
  /\ call' = [call EXCEPT ![r].at = "get", ![r].start = now]
  /\ overlapped' = (overlapped \/ \E q \in Requests : call[q].at \in InFlight)
  /\ UNCHANGED <<now, counter, damage>>

\* The store does not return an expired record.
Stored == counter.expiresAt > now
Damaged == Stored /\ counter.state = "damaged"

\* Whether the window of the record is still open for a call that took time t.
Open(t) == Stored /\ counter.resetAt > t

ResetInThePast(r) ==  \* mutant: the window lies before the event
  call[r].start - Window
ResetForgotten(r) ==  \* mutant: every event opens the window anew
  call[r].start + Window
CurrentReset(r) == IF Open(call[r].start) THEN counter.resetAt ELSE call[r].start + Window
CountForgotten(r) == 0  \* mutant: every event is counted as the first
CurrentCount(r) == IF Open(call[r].start) THEN counter.count ELSE 0

Full(r) == CurrentCount(r) >= MaxEvents

ReturnLimited(r) ==
  /\ ~ Damaged /\ Full(r)
  /\ call' = [call EXCEPT ![r].at = "limited"]

WillStore(r, count, resetAt, verdict) ==
  call' = [call EXCEPT ![r] = [at |-> "put", start |-> call[r].start,
             count |-> count, resetAt |-> resetAt, verdict |-> verdict, stored |-> 0]]

\* The get answers: a damaged record is replaced by a full counter, a full one
\* refuses, any other is counted up.
Read(r) ==
  /\ call[r].at = "get"
  /\ \/ Damaged /\ WillStore(r, MaxEvents, call[r].start + Window, "corrupt")
     \/ ReturnLimited(r)
     \/ ~ Damaged /\ ~ Full(r) /\ WillStore(r, CurrentCount(r) + 1, CurrentReset(r), "admitted")
  /\ UNCHANGED <<now, counter, overlapped, damage>>

\* storeRateLimitCounter
Put(r) ==
  /\ call[r].at = "put"
  /\ counter' = [state |-> "counter", count |-> call[r].count, resetAt |-> call[r].resetAt,
                 expiresAt |-> now + Window]
  /\ call' = [call EXCEPT ![r].at = call[r].verdict, ![r].stored = now, ![r].count = 0, ![r].resetAt = 0]
  /\ UNCHANGED <<now, overlapped, damage>>

\* The store throws and the request is answered with an error.
Fail(r) ==
  /\ call[r].at \in InFlight
  /\ call' = [call EXCEPT ![r] = Idle, ![r].at = "failed"]
  /\ UNCHANGED <<now, counter, overlapped, damage>>

-----------------------------------------------------------------------------
\* The stored record becomes unreadable.
Damage ==
  /\ damage < MaxDamage /\ Stored
  /\ damage' = damage + 1
  /\ counter' = [counter EXCEPT !.state = "damaged"]
  /\ UNCHANGED <<now, call, overlapped>>

Tick ==
  /\ now < Horizon
  /\ now' = now + 1
  /\ UNCHANGED <<counter, call, overlapped, damage>>

Next == \/ \E r \in Requests : Start(r) \/ Read(r) \/ Put(r) \/ Fail(r)
        \/ Damage \/ Tick

Spec == Init /\ [][Next]_vars

-----------------------------------------------------------------------------
(* Properties.                                                             *)

\* The record, the calls and the clock have the shape the code gives them.
TypeOK ==
  /\ now \in Nat
  /\ counter \in Records
  /\ call \in [Requests -> Calls]
  /\ overlapped \in BOOLEAN
  /\ damage \in Nat

Admitted(from, to) ==
  {r \in Requests : call[r].at = "admitted" /\ from <= call[r].start /\ call[r].start < to}

\* Requests that come one after another get at most 2 * MaxEvents - 1 through in any
\* stretch of one window: a full window and what is left of the one before it, whatever
\* the record's expiry, its damage and failing puts do.  One more passes when a get
\* lasts so long that the record it should have seen has expired.
SerialLimitHolds ==
  ~ overlapped =>
    \A t \in 0..now :
      LET some == Admitted(t, t + Window) IN
      /\ Cardinality(some) <= 2 * MaxEvents
      /\ (\A r \in some : call[r].stored = call[r].start) => Cardinality(some) <= 2 * MaxEvents - 1

\* However requests overlap, read late and overwrite each other's counts, the limit
\* refuses nobody for what is a window old: when a request is limited, MaxEvents others
\* were counted, or a damaged record was replaced, less than a window before it took
\* its time, or later.
Since(r) == {q \in Requests : call[r].start < call[q].stored + Window}
RefusalIsEarned ==
  \A r \in Requests :
    call[r].at = "limited" =>
      \/ Cardinality({q \in Since(r) : call[q].at = "admitted"}) >= MaxEvents
      \/ \E q \in Since(r) : call[q].at = "corrupt"
=============================================================================
