--------------------------- MODULE RateLimit_proofs ---------------------------
(***************************************************************************)
(* What holds of the rate limit for every limit, window and set of         *)
(* requests, however they overlap.                                         *)
(***************************************************************************)
EXTENDS RateLimit, FiniteSetTheorems, TLAPS

AllAts == {"idle", "failed"} \cup InFlight \cup Verdicts

\* The record of a call after each of its steps.
LEMMA CallRecord ==
  ASSUME NEW at \in AllAts, NEW start \in Nat, NEW count \in Nat, NEW resetAt \in Nat,
         NEW verdict \in Verdicts, NEW stored \in Nat
  PROVE  [at |-> at, start |-> start, count |-> count, resetAt |-> resetAt,
          verdict |-> verdict, stored |-> stored] \in Calls
BY DEF Calls, AllAts

LEMMA StartIs ==
  ASSUME TypeOK, NEW r \in Requests, Start(r)
  PROVE  call' = [call EXCEPT ![r] =
                    [at |-> "get", start |-> now, count |-> call[r].count, resetAt |-> call[r].resetAt,
                     verdict |-> call[r].verdict, stored |-> call[r].stored]]
<1>1. call[r] \in Calls /\ call \in [Requests -> Calls]
  BY DEF TypeOK
<1>2. PICK c : c = [call[r] EXCEPT !.at = "get"]
  OBVIOUS
<1>3. c = [at |-> "get", start |-> call[r].start, count |-> call[r].count, resetAt |-> call[r].resetAt,
           verdict |-> call[r].verdict, stored |-> call[r].stored]
  BY <1>1, <1>2 DEF Calls
<1>4. call' = [call EXCEPT ![r] = [c EXCEPT !.start = now]]
  BY <1>1, <1>2 DEF Start
<1>5. [c EXCEPT !.start = now] =
        [at |-> "get", start |-> now, count |-> call[r].count, resetAt |-> call[r].resetAt,
         verdict |-> call[r].verdict, stored |-> call[r].stored]
  BY <1>3
<1> QED BY <1>4, <1>5

LEMMA LimitedIs ==
  ASSUME TypeOK, NEW r \in Requests, ReturnLimited(r)
  PROVE  call' = [call EXCEPT ![r] =
                    [at |-> "limited", start |-> call[r].start, count |-> call[r].count,
                     resetAt |-> call[r].resetAt, verdict |-> call[r].verdict, stored |-> call[r].stored]]
<1>1. call[r] \in Calls /\ call \in [Requests -> Calls]
  BY DEF TypeOK
<1>2. call' = [call EXCEPT ![r] = [call[r] EXCEPT !.at = "limited"]]
  BY <1>1 DEF ReturnLimited
<1>3. [call[r] EXCEPT !.at = "limited"] =
        [at |-> "limited", start |-> call[r].start, count |-> call[r].count,
         resetAt |-> call[r].resetAt, verdict |-> call[r].verdict, stored |-> call[r].stored]
  BY <1>1 DEF Calls
<1> QED BY <1>2, <1>3

LEMMA PutIs ==
  ASSUME TypeOK, NEW r \in Requests, Put(r)
  PROVE  call' = [call EXCEPT ![r] =
                    [at |-> call[r].verdict, start |-> call[r].start, count |-> 0,
                     resetAt |-> 0, verdict |-> call[r].verdict, stored |-> now]]
<1>1. call[r] \in Calls /\ call \in [Requests -> Calls]
  BY DEF TypeOK
<1>2. PICK c : c = [call[r] EXCEPT !.at = call[r].verdict]
  OBVIOUS
<1>3. PICK d : d = [c EXCEPT !.stored = now]
  OBVIOUS
<1>4. PICK e : e = [d EXCEPT !.count = 0]
  OBVIOUS
<1>5. c = [at |-> call[r].verdict, start |-> call[r].start, count |-> call[r].count,
           resetAt |-> call[r].resetAt, verdict |-> call[r].verdict, stored |-> call[r].stored]
  BY <1>1, <1>2 DEF Calls
<1>6. d = [at |-> call[r].verdict, start |-> call[r].start, count |-> call[r].count,
           resetAt |-> call[r].resetAt, verdict |-> call[r].verdict, stored |-> now]
  BY <1>3, <1>5
<1>7. e = [at |-> call[r].verdict, start |-> call[r].start, count |-> 0,
           resetAt |-> call[r].resetAt, verdict |-> call[r].verdict, stored |-> now]
  BY <1>4, <1>6
<1>8. call' = [call EXCEPT ![r] = [e EXCEPT !.resetAt = 0]]
  BY <1>1, <1>2, <1>3, <1>4 DEF Put
<1>9. [e EXCEPT !.resetAt = 0] =
        [at |-> call[r].verdict, start |-> call[r].start, count |-> 0,
         resetAt |-> 0, verdict |-> call[r].verdict, stored |-> now]
  BY <1>7
<1> QED BY <1>8, <1>9

LEMMA FailIs ==
  ASSUME TypeOK, NEW r \in Requests, Fail(r)
  PROVE  call' = [call EXCEPT ![r] = [at |-> "failed", start |-> 0, count |-> 0, resetAt |-> 0,
                                      verdict |-> "limited", stored |-> 0]]
<1>1. call \in [Requests -> Calls]
  BY DEF TypeOK
<1>2. call' = [call EXCEPT ![r] = [Idle EXCEPT !.at = "failed"]]
  BY <1>1 DEF Fail
<1>3. [Idle EXCEPT !.at = "failed"] = [at |-> "failed", start |-> 0, count |-> 0, resetAt |-> 0,
                                       verdict |-> "limited", stored |-> 0]
  BY DEF Idle
<1> QED BY <1>2, <1>3

\* A request whose get answered with something to store.
LEMMA WillStoreIs ==
  ASSUME TypeOK, NEW r \in Requests, Read(r), ~ ReturnLimited(r)
  PROVE  \/ /\ Damaged
            /\ call' = [call EXCEPT ![r] = [at |-> "put", start |-> call[r].start, count |-> MaxEvents,
                          resetAt |-> call[r].start + Window, verdict |-> "corrupt", stored |-> 0]]
         \/ /\ ~ Full(r)
            /\ call' = [call EXCEPT ![r] = [at |-> "put", start |-> call[r].start, count |-> CurrentCount(r) + 1,
                          resetAt |-> CurrentReset(r), verdict |-> "admitted", stored |-> 0]]
BY DEF Read, WillStore

LEMMA CurrentIs ==
  ASSUME TypeOK, NEW r \in Requests
  PROVE  /\ CurrentCount(r) \in Nat /\ CurrentReset(r) \in Nat
         /\ \/ /\ Open(call[r].start)
               /\ CurrentCount(r) = counter.count /\ CurrentReset(r) = counter.resetAt
            \/ CurrentCount(r) = 0 /\ CurrentReset(r) = call[r].start + Window
<1>1. counter.count \in Nat /\ counter.resetAt \in Nat /\ call[r].start \in Nat /\ Window \in Nat
  BY LimitAssumption DEF TypeOK, Records, Calls
<1> QED BY <1>1 DEF CurrentCount, CurrentReset

\* A step of a request changes its own record, by a record of the same kind.
LEMMA RequestStep ==
  ASSUME TypeOK, NEW r \in Requests, Start(r) \/ Read(r) \/ Put(r) \/ Fail(r)
  PROVE  /\ \E c \in Calls : call' = [call EXCEPT ![r] = c]
         /\ call[r].at \in {"idle"} \cup InFlight
<1>0. /\ call[r] \in Calls /\ now \in Nat
      /\ call[r].start \in Nat /\ call[r].count \in Nat /\ call[r].resetAt \in Nat
      /\ call[r].verdict \in Verdicts /\ call[r].stored \in Nat
      /\ MaxEvents \in Nat /\ Window \in Nat
  BY LimitAssumption DEF TypeOK, Calls
<1>1. call[r].at \in {"idle"} \cup InFlight
  BY DEF Start, Read, Put, Fail, InFlight
<1>2. ASSUME Start(r) PROVE \E c \in Calls : call' = [call EXCEPT ![r] = c]
  <2>1. [at |-> "get", start |-> now, count |-> call[r].count, resetAt |-> call[r].resetAt,
         verdict |-> call[r].verdict, stored |-> call[r].stored] \in Calls
    BY <1>0, CallRecord DEF AllAts, InFlight
  <2> QED BY <1>2, <2>1, StartIs
<1>3. ASSUME ReturnLimited(r) PROVE \E c \in Calls : call' = [call EXCEPT ![r] = c]
  <2>1. [at |-> "limited", start |-> call[r].start, count |-> call[r].count,
         resetAt |-> call[r].resetAt, verdict |-> call[r].verdict, stored |-> call[r].stored] \in Calls
    BY <1>0, CallRecord DEF AllAts, Verdicts
  <2> QED BY <1>3, <2>1, LimitedIs
<1>4. ASSUME Read(r), ~ ReturnLimited(r) PROVE \E c \in Calls : call' = [call EXCEPT ![r] = c]
  <2>1. CurrentCount(r) + 1 \in Nat /\ CurrentReset(r) \in Nat /\ call[r].start + Window \in Nat
    BY <1>0, CurrentIs
  <2>2. [at |-> "put", start |-> call[r].start, count |-> MaxEvents, resetAt |-> call[r].start + Window,
         verdict |-> "corrupt", stored |-> 0] \in Calls
    BY <1>0, <2>1, CallRecord DEF AllAts, InFlight, Verdicts
  <2>3. [at |-> "put", start |-> call[r].start, count |-> CurrentCount(r) + 1, resetAt |-> CurrentReset(r),
         verdict |-> "admitted", stored |-> 0] \in Calls
    BY <1>0, <2>1, CallRecord DEF AllAts, InFlight, Verdicts
  <2> QED BY <1>4, <2>2, <2>3, WillStoreIs
<1>5. ASSUME Put(r) PROVE \E c \in Calls : call' = [call EXCEPT ![r] = c]
  <2>1. [at |-> call[r].verdict, start |-> call[r].start, count |-> 0,
         resetAt |-> 0, verdict |-> call[r].verdict, stored |-> now] \in Calls
    BY <1>0, CallRecord DEF AllAts
  <2> QED BY <1>5, <2>1, PutIs
<1>6. ASSUME Fail(r) PROVE \E c \in Calls : call' = [call EXCEPT ![r] = c]
  <2>1. [at |-> "failed", start |-> 0, count |-> 0, resetAt |-> 0,
         verdict |-> "limited", stored |-> 0] \in Calls
    BY CallRecord DEF AllAts, Verdicts
  <2> QED BY <1>6, <2>1, FailIs
<1> QED BY <1>1, <1>2, <1>3, <1>4, <1>5, <1>6

LEMMA TypeStep == TypeOK /\ [Next]_vars => TypeOK'
<1> SUFFICES ASSUME TypeOK, [Next]_vars PROVE TypeOK'
  OBVIOUS
<1>1. ASSUME NEW r \in Requests, Start(r) \/ Read(r) \/ Put(r) \/ Fail(r) PROVE TypeOK'
  <2>1. call' \in [Requests -> Calls]
    BY <1>1, RequestStep DEF TypeOK
  <2>2. counter' \in Records
    <3>1. CASE Put(r)
      <4>1. /\ now + Window \in Nat /\ call[r].count \in Nat /\ call[r].resetAt \in Nat
        BY LimitAssumption DEF TypeOK, Calls
      <4> QED BY <3>1, <4>1 DEF Put, Records
    <3>2. CASE ~ Put(r)
      BY <1>1, <3>2 DEF Start, Read, Fail, TypeOK
    <3> QED BY <3>1, <3>2
  <2>3. overlapped' \in BOOLEAN
    <3>1. CASE Start(r)
      BY <3>1, Zenon DEF Start
    <3>2. CASE ~ Start(r)
      <4>1. overlapped' = overlapped
        BY <1>1, <3>2 DEF Read, Put, Fail
      <4> QED BY <4>1 DEF TypeOK
    <3> QED BY <3>1, <3>2
  <2>4. UNCHANGED <<now, damage>>
    BY <1>1 DEF Start, Read, Put, Fail
  <2> QED BY <2>1, <2>2, <2>3, <2>4 DEF TypeOK
<1>2. CASE Damage
  <2>1. counter' \in Records
    BY <1>2 DEF Damage, TypeOK, Records
  <2>2. UNCHANGED <<now, call, overlapped>> /\ damage' = damage + 1
    BY <1>2 DEF Damage
  <2> QED BY <2>1, <2>2 DEF TypeOK
<1>3. CASE Tick
  BY <1>3 DEF Tick, TypeOK
<1>4. CASE UNCHANGED vars
  BY <1>4 DEF vars, TypeOK
<1> QED BY <1>1, <1>2, <1>3, <1>4 DEF Next

LEMMA TypeInit == Init => TypeOK
<1>1. Idle \in Calls
  BY CallRecord DEF Idle, AllAts, Verdicts
<1>2. [state |-> "counter", count |-> 0, resetAt |-> 0, expiresAt |-> 0] \in Records
  BY DEF Records
<1> SUFFICES ASSUME Init PROVE TypeOK
  OBVIOUS
<1>3. call \in [Requests -> Calls]
  BY <1>1 DEF Init
<1>4. counter \in Records /\ now \in Nat /\ damage \in Nat /\ overlapped \in BOOLEAN
  BY <1>2 DEF Init
<1> QED BY <1>3, <1>4 DEF TypeOK

\* The record, the calls and the clock keep their shape.
THEOREM RateTypeCorrect == Spec => []TypeOK
<1> QED BY TypeInit, TypeStep, PTL DEF Spec

-----------------------------------------------------------------------------
(* What the count stands for.                                              *)

\* Requests counted since t, and whether a damaged record was replaced since then.
Counted(t) == {q \in Requests : call[q].at = "admitted" /\ call[q].stored >= t}
Replaced(t) == \E q \in Requests : call[q].at = "corrupt" /\ call[q].stored >= t
Earned(n, t) == Replaced(t) \/ Cardinality(Counted(t)) >= n

\* The counter's window began a window before its reset; a call that is to store its
\* count adds itself to the others.
CallEarned(r) ==
  /\ call[r].start <= now
  /\ call[r].at = "put" =>
       /\ call[r].resetAt <= now + Window
       /\ \/ call[r].verdict = "corrupt"
          \/ call[r].verdict = "admitted" /\ Earned(call[r].count - 1, call[r].resetAt - Window)
  /\ call[r].at = "limited" => Earned(MaxEvents, call[r].start - Window + 1)
CounterEarned ==
  /\ counter.resetAt <= now + Window
  /\ Earned(counter.count, counter.resetAt - Window)
EarnedInv == CounterEarned /\ \A r \in Requests : CallEarned(r)

LEMMA CountedIsFinite ==
  ASSUME NEW t PROVE IsFiniteSet(Counted(t)) /\ Cardinality(Counted(t)) \in Nat
<1>1. Counted(t) \subseteq Requests
  BY DEF Counted
<1> QED BY <1>1, RequestsAssumption, FS_Subset, FS_CardinalityType

\* Less, or further back, is earned as well.
LEMMA EarnedWeaker ==
  ASSUME TypeOK, NEW n \in Int, NEW m \in Int, m <= n, NEW t \in Int, NEW s \in Int, s <= t, Earned(n, t)
  PROVE  Earned(m, s)
<1>1. Counted(t) \subseteq Counted(s)
  BY DEF Counted, TypeOK, Calls
<1>2. Cardinality(Counted(t)) <= Cardinality(Counted(s))
  BY <1>1, CountedIsFinite, FS_Subset
<1>3. Replaced(t) => Replaced(s)
  BY DEF Replaced, TypeOK, Calls
<1> QED BY <1>2, <1>3, CountedIsFinite DEF Earned

\* What was counted stays counted.
LEMMA EarnedStays ==
  ASSUME NEW n \in Int, NEW t \in Int, Earned(n, t),
         \A q \in Requests : call[q].at \in {"admitted", "corrupt"} => call'[q] = call[q]
  PROVE  Earned(n, t)'
<1>1. Counted(t) \subseteq Counted(t)' /\ Counted(t)' \subseteq Requests
  BY DEF Counted
<1>2. IsFiniteSet(Counted(t)')
  BY <1>1, RequestsAssumption, FS_Subset
<1>3. Cardinality(Counted(t)) <= Cardinality(Counted(t)') /\ Cardinality(Counted(t)') \in Nat
  BY <1>1, <1>2, FS_Subset, FS_CardinalityType
<1>4. Replaced(t) => Replaced(t)'
  BY DEF Replaced
<1> QED BY <1>3, <1>4, CountedIsFinite DEF Earned

\* A step of one request takes nothing from the counter and from the others.
LEMMA OthersEarned ==
  ASSUME TypeOK, EarnedInv, NEW r \in Requests, call[r].at \notin {"admitted", "corrupt"}, now' = now,
         \A q \in Requests : q # r => call'[q] = call[q]
  PROVE  /\ \A q \in Requests : q # r => CallEarned(q)'
         /\ \A n \in Int, t \in Int : Earned(n, t) => Earned(n, t)'
<1>1. \A q \in Requests : call[q].at \in {"admitted", "corrupt"} => call'[q] = call[q]
  OBVIOUS
<1>2. \A n \in Int, t \in Int : Earned(n, t) => Earned(n, t)'
  BY <1>1, EarnedStays
<1>3. ASSUME NEW q \in Requests, q # r PROVE CallEarned(q)'
  <2>1. call'[q] = call[q] /\ CallEarned(q)
    BY <1>3 DEF EarnedInv
  <2>2. /\ call[q].count - 1 \in Int /\ call[q].resetAt - Window \in Int
        /\ call[q].start - Window + 1 \in Int /\ MaxEvents \in Int
    BY LimitAssumption DEF TypeOK, Calls
  <2>3. CASE call[q].at = "put"
    <3>1. /\ call'[q].at = "put" /\ call'[q].resetAt <= now' + Window
      BY <2>1, <2>3 DEF CallEarned
    <3>2. \/ call'[q].verdict = "corrupt"
          \/ /\ call'[q].verdict = "admitted"
             /\ Earned(call[q].count - 1, call[q].resetAt - Window)'
      <4>1. CASE call[q].verdict = "corrupt"
        BY <2>1, <4>1
      <4>2. CASE call[q].verdict # "corrupt"
        <5>1. call[q].verdict = "admitted" /\ Earned(call[q].count - 1, call[q].resetAt - Window)
          BY <2>1, <2>3, <4>2 DEF CallEarned
        <5> QED BY <2>1, <2>2, <5>1, <1>2
      <4> QED BY <4>1, <4>2
    <3> QED BY <2>1, <3>1, <3>2 DEF CallEarned
  <2>4. CASE call[q].at = "limited"
    BY <1>2, <2>1, <2>2, <2>4 DEF CallEarned
  <2>5. CASE call[q].at \notin {"put", "limited"}
    BY <2>1, <2>5 DEF CallEarned
  <2> QED BY <2>3, <2>4, <2>5
<1> QED BY <1>2, <1>3

LEMMA ReadEarned ==
  ASSUME TypeOK, EarnedInv, NEW r \in Requests, Read(r)
  PROVE  EarnedInv'
<1>0. /\ call \in [Requests -> Calls] /\ call[r].start \in Nat /\ call[r].at = "get"
      /\ counter.count \in Nat /\ counter.resetAt \in Nat /\ now \in Nat
      /\ MaxEvents \in Nat \ {0} /\ Window \in Nat \ {0}
      /\ UNCHANGED <<now, counter>>
  BY LimitAssumption DEF TypeOK, Calls, Records, Read
<1>1. \A q \in Requests : q # r => call'[q] = call[q]
  BY <1>0, RequestStep
<1>2. /\ \A q \in Requests : q # r => CallEarned(q)'
      /\ \A n \in Int, t \in Int : Earned(n, t) => Earned(n, t)'
  BY <1>0, <1>1, OthersEarned
<1>3. CounterEarned'
  <2>1. Earned(counter.count, counter.resetAt - Window)
    BY DEF EarnedInv, CounterEarned
  <2>2. counter.resetAt - Window \in Int
    BY <1>0
  <2>3. Earned(counter.count, counter.resetAt - Window)'
    BY <1>0, <1>2, <2>1, <2>2
  <2> QED BY <1>0, <2>3 DEF EarnedInv, CounterEarned
<1>4. CallEarned(r)'
  <2>1. ASSUME ReturnLimited(r) PROVE CallEarned(r)'
    <3>1. call'[r].at = "limited" /\ call'[r].start = call[r].start
      BY <1>0, <2>1, LimitedIs
    <3>2. counter.resetAt > call[r].start /\ counter.count >= MaxEvents
      BY <1>0, <2>1, CurrentIs DEF ReturnLimited, Full, Open
    <3>3. Earned(counter.count, counter.resetAt - Window)
      BY DEF EarnedInv, CounterEarned
    <3>4. Earned(MaxEvents, call[r].start - Window + 1)
      <4>1. /\ counter.count \in Int /\ MaxEvents \in Int /\ MaxEvents <= counter.count
            /\ counter.resetAt - Window \in Int /\ call[r].start - Window + 1 \in Int
            /\ call[r].start - Window + 1 <= counter.resetAt - Window
        BY <1>0, <3>2
      <4> QED BY <3>3, <4>1, EarnedWeaker
    <3>5. call[r].start - Window + 1 \in Int /\ MaxEvents \in Int
      BY <1>0
    <3>6. Earned(MaxEvents, call[r].start - Window + 1)'
      BY <1>2, <3>1, <3>4, <3>5
    <3>7. call'[r].start <= now'
      BY <1>0, <3>1 DEF EarnedInv, CallEarned
    <3>9. call'[r].at # "put"
      BY <3>1
    <3> QED BY <3>6, <3>7, <3>9, Zenon DEF CallEarned
  <2>2. ASSUME ~ ReturnLimited(r) PROVE CallEarned(r)'
    <3>1. call[r].start <= now
      BY DEF EarnedInv, CallEarned
    <3>2. CASE call' = [call EXCEPT ![r] = [at |-> "put", start |-> call[r].start, count |-> MaxEvents,
                          resetAt |-> call[r].start + Window, verdict |-> "corrupt", stored |-> 0]]
      <4>1. /\ call'[r].at = "put" /\ call'[r].resetAt = call[r].start + Window
            /\ call'[r].verdict = "corrupt" /\ call'[r].start = call[r].start
        BY <1>0, <3>2
      <4> QED BY <1>0, <3>1, <4>1 DEF CallEarned
    <3>3. CASE call' = [call EXCEPT ![r] = [at |-> "put", start |-> call[r].start, count |-> CurrentCount(r) + 1,
                          resetAt |-> CurrentReset(r), verdict |-> "admitted", stored |-> 0]]
      <4>1. /\ call'[r].at = "put" /\ call'[r].resetAt = CurrentReset(r)
            /\ call'[r].verdict = "admitted" /\ call'[r].count = CurrentCount(r) + 1
            /\ call'[r].start = call[r].start
        BY <1>0, <3>3
      <4>2. /\ CurrentCount(r) \in Int /\ CurrentReset(r) - Window \in Int
            /\ call'[r].count - 1 = CurrentCount(r)
        BY <1>0, <4>1, CurrentIs
      <4>3. Earned(CurrentCount(r), CurrentReset(r) - Window) /\ CurrentReset(r) <= now + Window
        <5>1. CASE CurrentCount(r) = counter.count /\ CurrentReset(r) = counter.resetAt
          BY <5>1 DEF EarnedInv, CounterEarned
        <5>2. CASE CurrentCount(r) = 0 /\ CurrentReset(r) = call[r].start + Window
          BY <1>0, <3>1, <5>2, CountedIsFinite DEF Earned
        <5> QED BY <5>1, <5>2, CurrentIs
      <4>4. PICK n \in Int, t \in Int : n = CurrentCount(r) /\ t = CurrentReset(r) - Window
        BY <4>2
      <4>5. Earned(n, t)'
        BY <1>2, <4>3, <4>4
      <4>6. Earned(call[r].count - 1, call[r].resetAt - Window)'
        BY <4>1, <4>2, <4>4, <4>5
      <4>7. call'[r].start <= now' /\ call'[r].resetAt <= now' + Window
        BY <1>0, <3>1, <4>1, <4>3
      <4>8. call'[r].at # "limited"
        BY <4>1
      <4>9. call'[r].verdict = "admitted" /\ call'[r].at = "put"
        BY <4>1
      <4>10. /\ call'[r].resetAt <= now' + Window
             /\ \/ call'[r].verdict = "corrupt"
                \/ call'[r].verdict = "admitted" /\ Earned(call[r].count - 1, call[r].resetAt - Window)'
        BY <4>6, <4>7, <4>9
      <4> QED BY <4>7, <4>8, <4>10, Zenon DEF CallEarned
    <3> QED BY <2>2, <3>2, <3>3, WillStoreIs
  <2> QED BY <2>1, <2>2
<1> QED BY <1>2, <1>3, <1>4 DEF EarnedInv

LEMMA PutEarned ==
  ASSUME TypeOK, EarnedInv, NEW r \in Requests, Put(r)
  PROVE  EarnedInv'
<1>0. /\ call \in [Requests -> Calls] /\ call[r].start \in Nat /\ call[r].at = "put"
      /\ call[r].count \in Nat /\ call[r].resetAt \in Nat /\ now \in Nat
      /\ MaxEvents \in Nat \ {0} /\ Window \in Nat \ {0} /\ now' = now
      /\ counter'.count = call[r].count /\ counter'.resetAt = call[r].resetAt
  BY LimitAssumption DEF TypeOK, Calls, Records, Put
<1>1. /\ call'[r].at = call[r].verdict /\ call'[r].start = call[r].start /\ call'[r].stored = now
      /\ \A q \in Requests : q # r => call'[q] = call[q]
  BY <1>0, PutIs
<1>2. \A q \in Requests : q # r => CallEarned(q)'
  BY <1>0, <1>1, OthersEarned
<1>3. /\ call[r].resetAt <= now + Window /\ call[r].start <= now
      /\ \/ call[r].verdict = "corrupt"
         \/ call[r].verdict = "admitted" /\ Earned(call[r].count - 1, call[r].resetAt - Window)
  BY <1>0 DEF EarnedInv, CallEarned
<1>4. CallEarned(r)'
  BY <1>0, <1>1, <1>3 DEF CallEarned
<1>5. PICK n \in Int, t \in Int : n = call[r].count /\ t = call[r].resetAt - Window
  BY <1>0
<1>6. Earned(n, t)'
  <2>1. CASE call[r].verdict = "corrupt"
    BY <1>0, <1>1, <1>3, <1>5, <2>1 DEF Earned, Replaced
  <2>2. CASE call[r].verdict = "admitted" /\ Earned(n - 1, t)
    <3>1. \A q \in Requests : call[q].at \in {"admitted", "corrupt"} => call'[q] = call[q]
      BY <1>0, <1>1
    <3>2. Replaced(t) => Replaced(t)'
      BY <3>1 DEF Replaced
    <3>3. Counted(t)' = Counted(t) \cup {r}
      BY <1>0, <1>1, <1>3, <1>5, <2>2 DEF Counted
    <3>4. r \notin Counted(t)
      BY <1>0 DEF Counted
    <3>5. Cardinality(Counted(t)') = Cardinality(Counted(t)) + 1
      BY <3>3, <3>4, CountedIsFinite, FS_AddElement
    <3> QED BY <2>2, <3>2, <3>5, CountedIsFinite DEF Earned
  <2> QED BY <1>3, <1>5, <2>1, <2>2
<1>7. CounterEarned'
  <2>1. counter'.count = n /\ counter'.resetAt - Window = t
    BY <1>0, <1>5
  <2>2. Earned(counter.count, counter.resetAt - Window)'
    BY <1>6, <2>1
  <2> QED BY <1>0, <1>3, <2>2 DEF CounterEarned
<1> QED BY <1>2, <1>4, <1>7 DEF EarnedInv

\* Steps that leave what was counted, the counter's count and its reset alone.
LEMMA QuietEarned ==
  ASSUME TypeOK, EarnedInv, now' \in {now, now + 1},
         counter'.count = counter.count, counter'.resetAt = counter.resetAt,
         \A q \in Requests :
           \/ call'[q] = call[q]
           \/ /\ call[q].at \notin {"admitted", "corrupt"} /\ call'[q].at \notin {"put", "limited"}
              /\ call'[q].start \in 0..now
  PROVE  EarnedInv'
<1>0. /\ counter.count \in Nat /\ counter.resetAt \in Nat /\ now \in Nat
      /\ MaxEvents \in Nat \ {0} /\ Window \in Nat \ {0}
  BY LimitAssumption DEF TypeOK, Records
<1>1. \A q \in Requests : call[q].at \in {"admitted", "corrupt"} => call'[q] = call[q]
  OBVIOUS
<1>2. \A n \in Int, t \in Int : Earned(n, t) => Earned(n, t)'
  BY <1>1, EarnedStays
<1>3. CounterEarned'
  <2>1. Earned(counter.count, counter.resetAt - Window)
    BY DEF EarnedInv, CounterEarned
  <2>2. PICK n \in Int, t \in Int : n = counter.count /\ t = counter.resetAt - Window
    BY <1>0
  <2>3. Earned(n, t)'
    BY <1>2, <2>1, <2>2
  <2> QED BY <1>0, <2>2, <2>3 DEF EarnedInv, CounterEarned
<1>4. ASSUME NEW q \in Requests PROVE CallEarned(q)'
  <2>0. /\ call[q].count \in Nat /\ call[q].resetAt \in Nat /\ call[q].start \in Nat
        /\ CallEarned(q)
    BY DEF TypeOK, Calls, EarnedInv
  <2>1. CASE call'[q] # call[q]
    BY <1>0, <2>1 DEF CallEarned
  <2>2. CASE call'[q] = call[q] /\ call[q].at = "limited"
    <3>1. PICK n \in Int, t \in Int : n = MaxEvents /\ t = call[q].start - Window + 1
      BY <1>0, <2>0
    <3>2. Earned(n, t)'
      BY <1>2, <2>0, <2>2, <3>1 DEF CallEarned
    <3> QED BY <1>0, <2>0, <2>2, <3>1, <3>2 DEF CallEarned
  <2>3. CASE call'[q] = call[q] /\ call[q].at = "put"
    <3>0. call[q].count - 1 \in Int /\ call[q].resetAt - Window \in Int
      BY <1>0, <2>0
    <3>1. PICK n \in Int, t \in Int : n = call[q].count - 1 /\ t = call[q].resetAt - Window
      BY <3>0, Zenon
    <3>2. \/ call[q].verdict = "corrupt"
          \/ call[q].verdict = "admitted" /\ Earned(n, t)'
      BY <1>2, <2>0, <2>3, <3>1 DEF CallEarned
    <3> QED BY <1>0, <2>0, <2>3, <3>1, <3>2 DEF CallEarned
  <2>4. CASE call'[q] = call[q] /\ call[q].at \notin {"limited", "put"}
    BY <1>0, <2>0, <2>4 DEF CallEarned
  <2> QED BY <2>1, <2>2, <2>3, <2>4
<1> QED BY <1>3, <1>4 DEF EarnedInv

LEMMA EarnedStep == TypeOK /\ EarnedInv /\ [Next]_vars => EarnedInv'
<1> SUFFICES ASSUME TypeOK, EarnedInv, [Next]_vars PROVE EarnedInv'
  OBVIOUS
<1>0. call \in [Requests -> Calls] /\ now \in Nat
  BY DEF TypeOK
<1>1. ASSUME NEW r \in Requests, Start(r) PROVE EarnedInv'
  <2>1. /\ call'[r].at = "get" /\ call'[r].start = now
        /\ \A q \in Requests : q # r => call'[q] = call[q]
    BY <1>0, <1>1, StartIs
  <2>2. call[r].at = "idle" /\ UNCHANGED <<now, counter>>
    BY <1>1 DEF Start
  <2> QED BY <1>0, <2>1, <2>2, QuietEarned
<1>2. ASSUME NEW r \in Requests, Fail(r) PROVE EarnedInv'
  <2>1. /\ call'[r].at = "failed" /\ call'[r].start = 0
        /\ \A q \in Requests : q # r => call'[q] = call[q]
    BY <1>0, <1>2, FailIs
  <2>2. call[r].at \in InFlight /\ UNCHANGED <<now, counter>>
    BY <1>2 DEF Fail
  <2> QED BY <1>0, <2>1, <2>2, QuietEarned DEF InFlight
<1>3. CASE Damage
  <2>1. counter'.count = counter.count /\ counter'.resetAt = counter.resetAt
    BY <1>3 DEF Damage, TypeOK, Records
  <2> QED BY <1>3, <2>1, QuietEarned DEF Damage
<1>4. CASE Tick
  BY <1>4, QuietEarned DEF Tick
<1>5. CASE UNCHANGED vars
  BY <1>5, QuietEarned DEF vars
<1> QED BY <1>1, <1>2, <1>3, <1>4, <1>5, ReadEarned, PutEarned DEF Next

\* However requests overlap, a limited one was preceded by a window's worth of others,
\* or by a damaged record.
THEOREM RefusalsAreEarned == Spec => []RefusalIsEarned
<1>1. Init => EarnedInv
  <2> SUFFICES ASSUME Init PROVE EarnedInv
    OBVIOUS
  <2>1. \A r \in Requests : CallEarned(r)
    BY DEF Init, CallEarned, Idle
  <2>2. CounterEarned
    BY LimitAssumption, CountedIsFinite DEF Init, CounterEarned, Earned
  <2> QED BY <2>1, <2>2 DEF EarnedInv
<1>2. TypeOK /\ EarnedInv => RefusalIsEarned
  <2> SUFFICES ASSUME TypeOK, EarnedInv, NEW r \in Requests, call[r].at = "limited"
               PROVE  \/ Cardinality({q \in Since(r) : call[q].at = "admitted"}) >= MaxEvents
                      \/ \E q \in Since(r) : call[q].at = "corrupt"
    BY DEF RefusalIsEarned
  <2> DEFINE t == call[r].start - Window + 1
  <2>1. Earned(MaxEvents, t)
    BY DEF EarnedInv, CallEarned
  <2>2. \A q \in Requests : q \in Since(r) <=> call[q].stored >= t
    BY LimitAssumption DEF Since, TypeOK, Calls
  <2>3. Counted(t) = {q \in Since(r) : call[q].at = "admitted"}
    BY <2>2 DEF Counted, Since
  <2>4. Replaced(t) => \E q \in Since(r) : call[q].at = "corrupt"
    BY <2>2 DEF Replaced
  <2> QED BY <2>1, <2>3, <2>4 DEF Earned
<1> QED BY <1>1, <1>2, EarnedStep, RateTypeCorrect, PTL DEF Spec
-----------------------------------------------------------------------------
(* Requests one after another.                                             *)

\* The admitted requests that started at x or later, and those of a stretch of one window.
Young(x) == {q \in Requests : call[q].at = "admitted" /\ call[q].start >= x}
Stretch(t) == Admitted(t, t + Window)
StretchOk(t) ==
  /\ Cardinality(Stretch(t)) <= 2 * MaxEvents
  /\ (\A q \in Stretch(t) : call[q].stored = call[q].start) => Cardinality(Stretch(t)) <= 2 * MaxEvents - 1

\* The counter: none was admitted after its last put, the window it stands for holds
\* one less than it counts after its first, and a window before its last put holds at
\* most as many as a full window more.
CounterSerial ==
  /\ counter.expiresAt <= now + Window
  /\ counter.count <= MaxEvents
  /\ \A q \in Requests : call[q].at = "admitted" => call[q].start + Window <= counter.expiresAt
  /\ counter.count = 0 => counter.resetAt = 0 /\ Young(0) = {}
  /\ counter.count > 0 =>
       /\ Cardinality(Young(counter.resetAt - Window + 1)) <= counter.count - 1
       /\ Cardinality(Young(counter.expiresAt - 2 * Window + 1)) <= MaxEvents + counter.count - 1
\* What a call is to store: a full count, one more in the same window, or the first of
\* a new one, which starts after the last one's end or its record's.
PutSerial(r) ==
  \/ /\ call[r].verdict = "corrupt" /\ call[r].count = MaxEvents
     /\ call[r].resetAt = call[r].start + Window
  \/ /\ call[r].verdict = "admitted" /\ counter.count > 0 /\ counter.count < MaxEvents
     /\ call[r].count = counter.count + 1 /\ call[r].resetAt = counter.resetAt
  \/ /\ call[r].verdict = "admitted" /\ call[r].count = 1 /\ call[r].resetAt = call[r].start + Window
     /\ counter.resetAt <= call[r].start \/ counter.expiresAt <= now
CallSerial(r) ==
  call[r].at \in InFlight =>
    /\ call[r].start <= now /\ counter.expiresAt <= call[r].start + Window
    /\ \A q \in Requests : call[q].at \in InFlight => q = r
    /\ call[r].at = "put" => PutSerial(r)
Serial ==
  /\ CounterSerial
  /\ \A r \in Requests : CallSerial(r)
  /\ \A t \in Nat : StretchOk(t)
SerialInv == overlapped \/ Serial

LEMMA YoungFinite ==
  ASSUME NEW x PROVE IsFiniteSet(Young(x)) /\ Cardinality(Young(x)) \in Nat
<1>1. Young(x) \subseteq Requests
  BY DEF Young
<1> QED BY <1>1, RequestsAssumption, FS_Subset, FS_CardinalityType

LEMMA OneMore ==
  ASSUME NEW S, IsFiniteSet(S), NEW r, NEW T, T \subseteq S \cup {r}
  PROVE  Cardinality(T) \in Nat /\ Cardinality(T) <= Cardinality(S) + 1
<1>0. Cardinality(S) \in Nat
  BY FS_CardinalityType
<1>1. /\ IsFiniteSet(S \cup {r})
      /\ Cardinality(S \cup {r}) = IF r \in S THEN Cardinality(S) ELSE Cardinality(S) + 1
  BY FS_AddElement, Zenon
<1>2. IsFiniteSet(T) /\ Cardinality(T) <= Cardinality(S \cup {r})
  BY <1>1, FS_Subset
<1>3. Cardinality(T) \in Nat
  BY <1>2, FS_CardinalityType
<1> QED BY <1>0, <1>1, <1>2, <1>3

LEMMA YoungerIsFewer ==
  ASSUME TypeOK, NEW x \in Int, NEW y \in Int, x <= y
  PROVE  Young(y) \subseteq Young(x) /\ Cardinality(Young(y)) <= Cardinality(Young(x))
<1>1. Young(y) \subseteq Young(x)
  BY DEF Young, TypeOK, Calls
<1> QED BY <1>1, YoungFinite, FS_Subset

\* A step that admits nobody leaves the stretches as they are.
LEMMA NobodyAdmitted ==
  ASSUME \A q \in Requests : /\ call'[q].at = "admitted" <=> call[q].at = "admitted"
                             /\ call[q].at = "admitted" => call'[q] = call[q]
  PROVE  /\ \A x \in Int : Young(x)' = Young(x)
         /\ \A t \in Nat : Stretch(t)' = Stretch(t) /\ (StretchOk(t) => StretchOk(t)')
<1>1. \A x \in Int : Young(x)' = Young(x)
  BY DEF Young
<1>2. ASSUME NEW t \in Nat PROVE Stretch(t)' = Stretch(t)
  BY DEF Stretch, Admitted
<1>3. ASSUME NEW t \in Nat, StretchOk(t) PROVE StretchOk(t)'
  <2>1. \A q \in Stretch(t) : call'[q] = call[q]
    BY DEF Stretch, Admitted
  <2> QED BY <1>2, <1>3, <2>1 DEF StretchOk
<1> QED BY <1>1, <1>2, <1>3

\* What a window before the last put may hold.
LEMMA YoungBound ==
  ASSUME TypeOK, CounterSerial
  PROVE  /\ counter.expiresAt - 2 * Window + 1 \in Int /\ counter.resetAt - Window + 1 \in Int
         /\ Cardinality(Young(counter.expiresAt - 2 * Window + 1)) <= 2 * MaxEvents - 1
         /\ Cardinality(Young(counter.resetAt - Window + 1)) <= MaxEvents - 1
<1>1. /\ counter.count \in Nat /\ counter.resetAt \in Nat /\ counter.expiresAt \in Nat
      /\ MaxEvents \in Nat \ {0} /\ Window \in Nat \ {0}
  BY LimitAssumption DEF TypeOK, Records
<1>2. CASE counter.count = 0
  <2>1. ASSUME NEW x PROVE Young(x) = {}
    BY <1>2 DEF Young, CounterSerial, TypeOK, Calls
  <2>2. /\ Young(counter.expiresAt - 2 * Window + 1) = {}
        /\ Young(counter.resetAt - Window + 1) = {}
    BY <2>1
  <2>3. /\ Cardinality(Young(counter.expiresAt - 2 * Window + 1)) = 0
        /\ Cardinality(Young(counter.resetAt - Window + 1)) = 0
    BY <2>2, FS_EmptySet
  <2> QED BY <1>1, <2>3
<1>3. CASE counter.count > 0
  BY <1>1, <1>3, YoungFinite DEF CounterSerial
<1> QED BY <1>1, <1>2, <1>3

\* The put of a call changes the counter and, if it admits, the stretches it lies in.
LEMMA PutSerially ==
  ASSUME TypeOK, Serial, NEW r \in Requests, Put(r)
  PROVE  Serial'
<1> DEFINE s == call[r].start
           y == counter.expiresAt - 2 * Window + 1
           o == counter.resetAt - Window + 1
<1>0. /\ call \in [Requests -> Calls] /\ s \in Nat /\ call[r].at = "put" /\ now \in Nat
      /\ call[r].count \in Nat /\ call[r].resetAt \in Nat
      /\ counter.count \in Nat /\ counter.resetAt \in Nat /\ counter.expiresAt \in Nat
      /\ MaxEvents \in Nat \ {0} /\ Window \in Nat \ {0}
      /\ \A q \in Requests : call[q].start \in Nat
  BY LimitAssumption DEF TypeOK, Calls, Records, Put
<1>1. /\ now' = now /\ counter'.count = call[r].count /\ counter'.resetAt = call[r].resetAt
      /\ counter'.expiresAt = now + Window
  BY DEF Put
<1>2. /\ call'[r].at = call[r].verdict /\ call'[r].start = s /\ call'[r].stored = now
      /\ \A q \in Requests : q # r => call'[q] = call[q]
  BY <1>0, PutIs
<1>3. /\ CounterSerial /\ s <= now /\ counter.expiresAt <= s + Window
      /\ \A q \in Requests : call[q].at \in InFlight => q = r
      /\ PutSerial(r) /\ \A t \in Nat : StretchOk(t)
  BY <1>0 DEF Serial, CallSerial, InFlight
<1>4. /\ counter.expiresAt <= now + Window /\ counter.count <= MaxEvents
      /\ \A q \in Requests : call[q].at = "admitted" => call[q].start + Window <= counter.expiresAt
      /\ y \in Int /\ o \in Int
      /\ Cardinality(Young(y)) <= 2 * MaxEvents - 1 /\ Cardinality(Young(o)) <= MaxEvents - 1
      /\ counter.count > 0 => /\ Cardinality(Young(y)) <= MaxEvents + counter.count - 1
                              /\ Cardinality(Young(o)) <= counter.count - 1
  BY <1>3, YoungBound DEF CounterSerial
<1>5. ASSUME NEW x \in Int PROVE Young(x)' \subseteq Young(x) \cup {r}
  BY <1>2 DEF Young
<1>6. ASSUME NEW x \in Int, call[r].verdict = "corrupt" \/ s < x PROVE Young(x)' \subseteq Young(x)
  BY <1>0, <1>2, <1>6 DEF Young
<1>7. ASSUME NEW x \in Int, counter.expiresAt < x + Window PROVE Young(x) = {}
  BY <1>0, <1>4, <1>7 DEF Young
<1>8. \A q \in Requests : CallSerial(q)'
  <2>1. \A q \in Requests : call'[q].at \notin InFlight
    BY <1>0, <1>2, <1>3 DEF InFlight, PutSerial
  <2> QED BY <2>1 DEF CallSerial
<1>9. CASE call[r].verdict = "corrupt"
  <2>1. call[r].count = MaxEvents /\ call[r].resetAt = s + Window
    BY <1>3, <1>9 DEF PutSerial
  <2>2. \A q \in Requests : /\ call'[q].at = "admitted" <=> call[q].at = "admitted"
                            /\ call[q].at = "admitted" => call'[q] = call[q]
    BY <1>0, <1>2, <1>9
  <2>3. CounterSerial'
    <3>1. \A q \in Requests : call'[q].at = "admitted" => call'[q].start + Window <= counter'.expiresAt
      BY <1>0, <1>1, <1>2, <1>4, <2>2
    <3>2. PICK x \in Int : x = s + 1
      BY <1>0
    <3>3. PICK z \in Int : z = now + Window - 2 * Window + 1
      BY <1>0
    <3>4. Young(x)' = {} /\ Cardinality(Young(x)') = 0
      <4>1. counter.expiresAt < x + Window
        BY <1>0, <1>3, <3>2
      <4>2. Young(x) = {}
        BY <1>7, <4>1
      <4>3. Young(x)' = Young(x)
        BY <2>2, NobodyAdmitted
      <4> QED BY <4>2, <4>3, FS_EmptySet
    <3>5. Cardinality(Young(z)') <= 2 * MaxEvents - 1
      <4>1. Cardinality(Young(z)) <= Cardinality(Young(y)) /\ Cardinality(Young(z)) \in Nat
        BY <1>0, <1>4, <3>3, YoungerIsFewer, YoungFinite
      <4>2. Cardinality(Young(y)) \in Nat
        BY YoungFinite
      <4>3. Young(z)' = Young(z)
        BY <2>2, NobodyAdmitted
      <4> QED BY <1>0, <1>4, <4>1, <4>2, <4>3
    <3>6. counter'.resetAt - Window + 1 = x /\ counter'.expiresAt - 2 * Window + 1 = z
      BY <1>0, <1>1, <2>1, <3>2, <3>3
    <3>7. /\ Cardinality(Young(counter.resetAt - Window + 1)') = 0
          /\ Cardinality(Young(counter.expiresAt - 2 * Window + 1)') <= 2 * MaxEvents - 1
      BY <3>4, <3>5, <3>6
    <3> QED BY <1>0, <1>1, <2>1, <3>1, <3>7 DEF CounterSerial
  <2>4. \A t \in Nat : StretchOk(t)'
    BY <1>3, <2>2, NobodyAdmitted
  <2> QED BY <1>8, <2>3, <2>4 DEF Serial
<1>10. CASE call[r].verdict = "admitted"
  <2> DEFINE more  == /\ counter.count > 0 /\ counter.count < MaxEvents
                      /\ call[r].count = counter.count + 1 /\ call[r].resetAt = counter.resetAt
             first == /\ call[r].count = 1 /\ call[r].resetAt = s + Window
                      /\ counter.resetAt <= s \/ counter.expiresAt <= now
  <2>1. more \/ first
    BY <1>3, <1>10 DEF PutSerial
  \* What is young when the request ends, and what was when it started.
  <2>2. PICK z \in Int : z = now + Window - 2 * Window + 1
    BY <1>0
  <2>3. PICK v \in Int : v = s - Window + 1
    BY <1>0
  <2>4. /\ Cardinality(Young(z)) \in Nat /\ Cardinality(Young(v)) \in Nat
        /\ Cardinality(Young(y)) \in Nat /\ Cardinality(Young(o)) \in Nat
    BY YoungFinite
  <2>5. Cardinality(Young(z)) <= Cardinality(Young(y)) /\ Cardinality(Young(v)) <= Cardinality(Young(y))
    BY <1>0, <1>3, <1>4, <2>2, <2>3, YoungerIsFewer
  <2>6. first => Cardinality(Young(z)) <= MaxEvents - 1
    <3>1. CASE counter.resetAt <= s
      <4>1. Cardinality(Young(z)) <= Cardinality(Young(o))
        BY <1>0, <1>3, <1>4, <2>2, <3>1, YoungerIsFewer
      <4> QED BY <1>0, <1>4, <2>4, <4>1
    <3>2. CASE counter.expiresAt <= now
      <4>1. counter.expiresAt < z + Window
        BY <1>0, <2>2, <3>2
      <4>2. Young(z) = {}
        BY <1>7, <4>1
      <4>3. Cardinality(Young(z)) = 0
        BY <4>2, FS_EmptySet
      <4> QED BY <1>0, <4>3
    <3> QED BY <3>1, <3>2
  <2>7. now = s => Cardinality(Young(v)) <= 2 * MaxEvents - 2
    <3>1. CASE more
      BY <1>0, <1>4, <2>4, <2>5, <3>1
    <3>2. CASE first
      <4>1. now = s => v = z
        BY <1>0, <2>2, <2>3
      <4> QED BY <1>0, <2>4, <2>6, <3>2, <4>1
    <3> QED BY <2>1, <3>1, <3>2
  <2>8. CounterSerial'
    <3>1. \A q \in Requests : call'[q].at = "admitted" => call'[q].start + Window <= counter'.expiresAt
      BY <1>0, <1>1, <1>2, <1>3, <1>4
    <3>2. PICK x \in Int : x = call[r].resetAt - Window + 1
      BY <1>0
    <3>3. Cardinality(Young(x)') <= call[r].count - 1
      <4>1. CASE more
        <5>1. x = o
          BY <3>2, <4>1
        <5>2. Young(x)' \subseteq Young(x) \cup {r}
          BY <1>5
        <5>3. Cardinality(Young(x)') \in Nat /\ Cardinality(Young(x)') <= Cardinality(Young(x)) + 1
          BY <5>2, OneMore, YoungFinite
        <5> QED BY <1>0, <1>4, <2>4, <4>1, <5>1, <5>3
      <4>2. CASE first
        <5>1. s < x /\ counter.expiresAt < x + Window
          BY <1>0, <1>3, <3>2, <4>2
        <5>2. Young(x)' = {}
          BY <1>6, <1>7, <5>1
        <5> QED BY <4>2, <5>2, FS_EmptySet
      <4> QED BY <2>1, <4>1, <4>2
    <3>4. Cardinality(Young(z)') <= MaxEvents + call[r].count - 1
      <4>1. Cardinality(Young(z)') \in Nat /\ Cardinality(Young(z)') <= Cardinality(Young(z)) + 1
        BY <1>5, OneMore, YoungFinite
      <4> QED BY <1>0, <1>4, <2>1, <2>4, <2>5, <2>6, <4>1
    <3>5. counter'.resetAt - Window + 1 = x /\ counter'.expiresAt - 2 * Window + 1 = z
      BY <1>0, <1>1, <2>2, <3>2
    <3>6. /\ Cardinality(Young(counter.resetAt - Window + 1)') <= counter'.count - 1
          /\ Cardinality(Young(counter.expiresAt - 2 * Window + 1)') <= MaxEvents + counter'.count - 1
      BY <1>1, <3>3, <3>4, <3>5
    <3>7. counter'.count > 0 /\ counter'.count <= MaxEvents
      BY <1>0, <1>1, <2>1
    <3> QED BY <1>0, <1>1, <3>1, <3>6, <3>7 DEF CounterSerial
  <2>9. ASSUME NEW t \in Nat PROVE StretchOk(t)'
    <3>1. CASE t <= s /\ s < t + Window
      <4>1. Stretch(t)' \subseteq Young(v) \cup {r}
        BY <1>0, <1>2, <2>3, <3>1 DEF Stretch, Admitted, Young
      <4>2. Cardinality(Stretch(t)') \in Nat /\ Cardinality(Stretch(t)') <= Cardinality(Young(v)) + 1
        BY <4>1, OneMore, YoungFinite
      <4>3. r \in Stretch(t)'
        BY <1>0, <1>2, <1>10, <3>1 DEF Stretch, Admitted
      <4>4. (\A q \in Stretch(t)' : call'[q].stored = call'[q].start) => now = s
        BY <1>2, <4>3
      <4>5. Cardinality(Stretch(t)') <= 2 * MaxEvents
        BY <1>0, <1>4, <2>4, <2>5, <4>2
      <4>6. now = s => Cardinality(Stretch(t)') <= 2 * MaxEvents - 1
        BY <1>0, <2>4, <2>7, <4>2
      <4> QED BY <4>4, <4>5, <4>6 DEF StretchOk
    <3>2. CASE ~ (t <= s /\ s < t + Window)
      <4>1. Stretch(t)' = Stretch(t)
        BY <1>0, <1>2, <3>2 DEF Stretch, Admitted
      <4>2. \A q \in Stretch(t) : call'[q] = call[q]
        BY <1>0, <1>2 DEF Stretch, Admitted
      <4> QED BY <1>3, <4>1, <4>2 DEF StretchOk
    <3> QED BY <3>1, <3>2
  <2> QED BY <1>8, <2>8, <2>9 DEF Serial
<1> QED BY <1>3, <1>9, <1>10 DEF PutSerial

\* No other step admits anybody or moves the counter.
LEMMA NobodyAdmittedSerially ==
  ASSUME TypeOK, Serial,
         \A q \in Requests : /\ call'[q].at = "admitted" <=> call[q].at = "admitted"
                             /\ call[q].at = "admitted" => call'[q] = call[q],
         now' \in Nat, now <= now', counter'.count = counter.count,
         counter'.resetAt = counter.resetAt, counter'.expiresAt = counter.expiresAt
  PROVE  CounterSerial' /\ \A t \in Nat : StretchOk(t)'
<1>0. /\ now \in Nat /\ counter.count \in Nat /\ counter.resetAt \in Nat /\ counter.expiresAt \in Nat
      /\ Window \in Nat
  BY LimitAssumption DEF TypeOK, Records
<1>1. \A t \in Nat : StretchOk(t)'
  BY NobodyAdmitted DEF Serial
<1>2. PICK x \in Int : x = counter.resetAt - Window + 1
  BY <1>0
<1>3. PICK y \in Int : y = counter.expiresAt - 2 * Window + 1
  BY <1>0
<1>4. Young(x)' = Young(x) /\ Young(y)' = Young(y) /\ Young(0)' = Young(0)
  BY NobodyAdmitted
<1>5. counter'.resetAt - Window + 1 = x /\ counter'.expiresAt - 2 * Window + 1 = y
  BY <1>2, <1>3
<1>6. CounterSerial
  BY DEF Serial
<1>7. /\ Cardinality(Young(counter.resetAt - Window + 1)') = Cardinality(Young(x))
      /\ Cardinality(Young(counter.expiresAt - 2 * Window + 1)') = Cardinality(Young(y))
  BY <1>4, <1>5
<1>8. counter.expiresAt <= now' + Window
  BY <1>0, <1>6 DEF CounterSerial
<1>9. \A q \in Requests : call'[q].at = "admitted" => call'[q].start + Window <= counter'.expiresAt
  BY <1>6 DEF CounterSerial
<1>10. counter'.count > 0 => /\ Cardinality(Young(counter.resetAt - Window + 1)') <= counter'.count - 1
                             /\ Cardinality(Young(counter.expiresAt - 2 * Window + 1)') <= MaxEvents + counter'.count - 1
  BY <1>2, <1>3, <1>6, <1>7 DEF CounterSerial
<1>11. counter'.count <= MaxEvents /\ (counter'.count = 0 => counter'.resetAt = 0 /\ Young(0)' = {})
  BY <1>4, <1>6 DEF CounterSerial
<1> QED BY <1>1, <1>8, <1>9, <1>10, <1>11 DEF CounterSerial

LEMMA SerialStep == TypeOK /\ SerialInv /\ [Next]_vars => SerialInv'
<1> SUFFICES ASSUME TypeOK, SerialInv, [Next]_vars, ~ overlapped' PROVE Serial'
  BY DEF SerialInv
<1>0. /\ call \in [Requests -> Calls] /\ now \in Nat /\ counter.expiresAt \in Nat
      /\ counter.count \in Nat /\ counter.resetAt \in Nat
      /\ MaxEvents \in Nat \ {0} /\ Window \in Nat \ {0}
      /\ \A q \in Requests : call[q].start \in Nat
  BY LimitAssumption DEF TypeOK, Calls, Records
<1>1. Serial
  <2>1. ~ overlapped
    BY DEF Next, Start, Read, Put, Fail, Damage, Tick, vars
  <2> QED BY <2>1 DEF SerialInv
<1>2. /\ CounterSerial /\ \A q \in Requests : CallSerial(q)
  BY <1>1 DEF Serial
<1>3. ASSUME NEW r \in Requests, Start(r) PROVE Serial'
  <2>1. call'[r].at = "get" /\ call'[r].start = now /\ \A q \in Requests : q # r => call'[q] = call[q]
    BY <1>0, <1>3, StartIs
  <2>2. /\ call[r].at = "idle" /\ UNCHANGED <<now, counter>>
        /\ \A q \in Requests : call[q].at \notin InFlight
    BY <1>3 DEF Start
  <2>3. CounterSerial' /\ \A t \in Nat : StretchOk(t)'
    BY <1>0, <1>1, <2>1, <2>2, NobodyAdmittedSerially
  <2>4. \A q \in Requests : CallSerial(q)'
    <3>1. \A q \in Requests : q # r => call'[q].at \notin InFlight
      BY <2>1, <2>2
    <3>2. CallSerial(r)'
      BY <1>0, <1>2, <2>1, <2>2, <3>1 DEF CallSerial, CounterSerial
    <3> QED BY <3>1, <3>2 DEF CallSerial
  <2> QED BY <2>3, <2>4 DEF Serial
<1>4. ASSUME NEW r \in Requests, Read(r) PROVE Serial'
  <2>1. /\ call[r].at = "get" /\ UNCHANGED <<now, counter>>
        /\ \A q \in Requests : q # r => call'[q] = call[q]
    <3>1. \A q \in Requests : q # r => call'[q] = call[q]
      BY <1>0, <1>4, RequestStep
    <3> QED BY <1>4, <3>1 DEF Read
  <2>2. /\ call[r].start <= now /\ counter.expiresAt <= call[r].start + Window
        /\ \A q \in Requests : q # r => call[q].at \notin InFlight
    BY <1>2, <2>1 DEF CallSerial, InFlight
  <2>3. call'[r].at \in {"limited", "put"} /\ (call'[r].at = "put" => call'[r].start = call[r].start /\ PutSerial(r)')
    <3>1. CASE ReturnLimited(r)
      BY <1>0, <3>1, LimitedIs
    <3>2. CASE ~ ReturnLimited(r)
      <4>1. CASE call' = [call EXCEPT ![r] = [at |-> "put", start |-> call[r].start, count |-> MaxEvents,
                            resetAt |-> call[r].start + Window, verdict |-> "corrupt", stored |-> 0]]
        <5>1. /\ call'[r].at = "put" /\ call'[r].start = call[r].start /\ call'[r].count = MaxEvents
              /\ call'[r].resetAt = call[r].start + Window /\ call'[r].verdict = "corrupt"
          BY <1>0, <4>1
        <5> QED BY <5>1 DEF PutSerial
      <4>2. CASE /\ ~ Full(r)
                 /\ call' = [call EXCEPT ![r] = [at |-> "put", start |-> call[r].start, count |-> CurrentCount(r) + 1,
                               resetAt |-> CurrentReset(r), verdict |-> "admitted", stored |-> 0]]
        <5>1. /\ call'[r].at = "put" /\ call'[r].start = call[r].start /\ call'[r].count = CurrentCount(r) + 1
              /\ call'[r].resetAt = CurrentReset(r) /\ call'[r].verdict = "admitted"
          BY <1>0, <4>2
        <5>2. CASE Open(call[r].start)
          <6>1. CurrentCount(r) = counter.count /\ CurrentReset(r) = counter.resetAt /\ counter.count < MaxEvents
            BY <1>0, <4>2, <5>2 DEF CurrentCount, CurrentReset, Full
          <6>2. CASE counter.count > 0
            BY <2>1, <5>1, <6>1, <6>2 DEF PutSerial
          <6>3. CASE counter.count = 0
            BY <1>0, <1>2, <5>2, <6>3 DEF CounterSerial, Open
          <6> QED BY <1>0, <6>2, <6>3
        <5>3. CASE ~ Open(call[r].start)
          <6>1. CurrentCount(r) = 0 /\ CurrentReset(r) = call[r].start + Window
            BY <5>3 DEF CurrentCount, CurrentReset
          <6>2. counter.resetAt <= call[r].start \/ counter.expiresAt <= now
            BY <1>0, <5>3 DEF Open, Stored
          <6> QED BY <2>1, <5>1, <6>1, <6>2 DEF PutSerial
        <5> QED BY <5>2, <5>3, <5>1
      <4> QED BY <1>4, <3>2, <4>1, <4>2, WillStoreIs
    <3> QED BY <3>1, <3>2
  <2>4. CounterSerial' /\ \A t \in Nat : StretchOk(t)'
    BY <1>0, <1>1, <2>1, <2>3, NobodyAdmittedSerially
  <2>5. \A q \in Requests : CallSerial(q)'
    <3>1. \A q \in Requests : q # r => call'[q].at \notin InFlight
      BY <2>1, <2>2
    <3>2. CallSerial(r)'
      BY <1>0, <2>1, <2>2, <2>3, <3>1 DEF CallSerial, InFlight
    <3> QED BY <3>1, <3>2 DEF CallSerial
  <2> QED BY <2>4, <2>5 DEF Serial
<1>5. ASSUME NEW r \in Requests, Put(r) PROVE Serial'
  BY <1>1, <1>5, PutSerially
<1>6. ASSUME NEW r \in Requests, Fail(r) PROVE Serial'
  <2>1. call'[r].at = "failed" /\ \A q \in Requests : q # r => call'[q] = call[q]
    BY <1>0, <1>6, FailIs
  <2>2. call[r].at \in InFlight /\ UNCHANGED <<now, counter>>
    BY <1>6 DEF Fail
  <2>3. CounterSerial' /\ \A t \in Nat : StretchOk(t)'
    <3>1. call[r].at # "admitted"
      BY <2>2 DEF InFlight
    <3> QED BY <1>0, <1>1, <2>1, <2>2, <3>1, NobodyAdmittedSerially
  <2>4. \A q \in Requests : call'[q].at \notin InFlight
    BY <1>2, <2>1, <2>2 DEF CallSerial, InFlight
  <2> QED BY <2>3, <2>4 DEF Serial, CallSerial
<1>7. CASE Damage \/ Tick \/ UNCHANGED vars
  <2>1. /\ call' = call /\ now' \in Nat /\ now <= now' /\ counter'.count = counter.count
        /\ counter'.resetAt = counter.resetAt /\ counter'.expiresAt = counter.expiresAt
    BY <1>0, <1>7 DEF Damage, Tick, vars, TypeOK, Records
  <2>2. CounterSerial' /\ \A t \in Nat : StretchOk(t)'
    BY <1>1, <2>1, NobodyAdmittedSerially
  <2>3. ASSUME NEW q \in Requests PROVE CallSerial(q)'
    <3>1. PutSerial(q) => PutSerial(q)'
      BY <1>0, <2>1 DEF PutSerial
    <3> QED BY <1>0, <1>2, <2>1, <3>1 DEF CallSerial
  <2> QED BY <2>2, <2>3 DEF Serial
<1> QED BY <1>3, <1>4, <1>5, <1>6, <1>7 DEF Next

\* Requests one after another: at most two limits in any stretch of a window, and one
\* less when each was answered at once.
THEOREM SerialRequestsAreLimited == Spec => []SerialLimitHolds
<1>1. Init => SerialInv
  <2> SUFFICES ASSUME Init PROVE Serial
    BY DEF SerialInv
  <2>1. \A q \in Requests : call[q].at = "idle"
    BY DEF Init, Idle
  <2>2. \A x : Young(x) = {}
    BY <2>1 DEF Young
  <2>3. \A t : Stretch(t) = {}
    BY <2>1 DEF Stretch, Admitted
  <2>4. \A t \in Nat : StretchOk(t)
    BY <2>3, FS_EmptySet, LimitAssumption DEF StretchOk
  <2>5. \A q \in Requests : CallSerial(q)
    BY <2>1 DEF CallSerial, InFlight
  <2>6. CounterSerial
    BY <2>1, <2>2, LimitAssumption DEF Init, CounterSerial
  <2> QED BY <2>4, <2>5, <2>6 DEF Serial
<1>2. TypeOK /\ SerialInv => SerialLimitHolds
  BY DEF TypeOK, SerialInv, Serial, StretchOk, Stretch, SerialLimitHolds
<1> QED BY <1>1, <1>2, SerialStep, RateTypeCorrect, PTL DEF Spec
=============================================================================
