---------------------------- MODULE ClientProofs ----------------------------
(***************************************************************************)
(* A call of the Devin client ends within its bound, for every number of   *)
(* retries, every timeout and backoff, and any number of callers, however  *)
(* the API answers.                                                        *)
(***************************************************************************)
EXTENDS DevinClient, TLAPS

(***************************************************************************)
(* A call that waits has used up no more than its attempts so far allow,   *)
(* and the clock has not passed the moment it waits for.                   *)
(***************************************************************************)
Earlier(k) == (k.requests - 1) * RequestBound

Round == Timeout + MaxDelay

OnTime(k) ==
    /\ k.method = "POST" => k.requests = 1
    /\ k.pc = "sent" =>
          /\ k.attempt <= max_retries - 1
          /\ now <= k.due
          /\ k.due <= k.began + Earlier(k) + k.attempt * Round + Timeout
    /\ k.pc = "asleep" =>
          /\ k.attempt + 1 <= max_retries - 1
          /\ now <= k.due
          /\ k.due <= k.began + Earlier(k) + (k.attempt + 1) * Round

ClientInv == ClientTypeOK /\ \A c \in Callers : OnTime(call[c])

LEMMA Bounds == RequestBound \in Nat /\ Round \in Nat
  <1>1. max_retries \in Nat /\ max_retries - 1 \in Nat /\ Timeout \in Nat /\ MaxDelay \in Nat
    BY ClientAssumption, DelayAssumption DEF ClientAssumption, DelayAssumption
  <1> QED
    BY <1>1 DEF RequestBound, Round

\* The first attempts cost a round each, the last one its timeout: a request
\* never costs more than its bound.
LEMMA AttemptsCost ==
    ASSUME NEW attempt \in Nat, attempt <= max_retries - 1
    PROVE  /\ attempt * Round \in Nat
           /\ attempt * Round + Timeout <= RequestBound
  <1> DEFINE last == max_retries - 1
  <1>1. last \in Nat /\ attempt <= last /\ Timeout \in Nat /\ MaxDelay \in Nat
    BY ClientAssumption, DelayAssumption DEF ClientAssumption, DelayAssumption
  <1>2. attempt * Round \in Nat /\ last * Round \in Nat
    BY <1>1, Bounds
  <1>3. attempt * Round <= last * Round
    <2>1. Round \in Nat
      BY Bounds
    <2> HIDE DEF last
    <2> QED
      BY <1>1, <2>1
  <1>4. last * Round = last * Timeout + last * MaxDelay
    BY <1>1 DEF Round
  <1>5. max_retries * Timeout = last * Timeout + Timeout
    BY <1>1, ClientAssumption DEF ClientAssumption
  <1> QED
    BY <1>1, <1>2, <1>3, <1>4, <1>5 DEF RequestBound

\* Another round is as long as an attempt and a sleep.
LEMMA NextRound ==
    ASSUME NEW attempt \in Nat
    PROVE  (attempt + 1) * Round = attempt * Round + Timeout + MaxDelay
  <1>1. Timeout \in Nat /\ MaxDelay \in Nat
    BY ClientAssumption, DelayAssumption DEF ClientAssumption, DelayAssumption
  <1> QED
    BY <1>1 DEF Round

\* A sleep is no longer than MaxDelay.
LEMMA DelaysBounded ==
    ASSUME NEW attempt \in Nat, NEW delay \in Delays(attempt)
    PROVE  delay \in 0..MaxDelay
  <1> DEFINE exponential == backoff_base * 2^attempt
             chosen == IF exponential < backoff_cap THEN exponential ELSE backoff_cap
  <1>1. /\ backoff_base \in Nat /\ backoff_cap \in Nat /\ MaxDelay \in Nat
        /\ backoff_cap + backoff_cap \div 4 <= MaxDelay
    BY ClientAssumption, DelayAssumption DEF ClientAssumption, DelayAssumption
  <1>2. exponential \in Int
    BY <1>1
  <1>3. delay \in chosen..(chosen + chosen \div 4)
    BY DEF Delays
  <1> HIDE DEF exponential
  <1>4. chosen \in Int /\ chosen <= backoff_cap
    BY <1>1, <1>2
  <1> QED
    BY <1>1, <1>3, <1>4

-----------------------------------------------------------------------------
\* What an action on one call has to show: the call it leaves is of the right
\* type and on time.
LEMMA OneCall ==
    ASSUME ClientInv, NEW c \in Callers, NEW k \in Call, OnTime(k),
           Become(c, k), UNCHANGED now
    PROVE  ClientInv'
  <1>1. call' = [call EXCEPT ![c] = k] /\ now' = now
    BY DEF Become
  <1>2. ClientTypeOK'
    BY <1>1 DEF ClientInv, ClientTypeOK
  <1>3. ASSUME NEW d \in Callers
        PROVE  OnTime(call[d])'
    <2>1. call'[d] = k \/ call'[d] = call[d]
      BY <1>1 DEF ClientInv, ClientTypeOK
    <2> QED
      BY <2>1, <1>1 DEF ClientInv, OnTime
  <1> QED
    BY <1>2, <1>3 DEF ClientInv

LEMMA CallTyped == ASSUME ClientInv, NEW c \in Callers PROVE call[c] \in Call /\ OnTime(call[c]) /\ now \in Nat
  BY DEF ClientInv, ClientTypeOK

LEMMA EarlierTyped ==
    ASSUME NEW k \in Call PROVE Earlier(k) \in Nat /\ (k.requests = 1 => Earlier(k) = 0)
  <1>1. k.requests \in 1..2
    BY DEF Call
  <1> QED
    BY <1>1, Bounds DEF Earlier

LEMMA NoCallIsIdle == NoCall \in Call /\ OnTime(NoCall)
  BY ClientAssumption DEF NoCall, Call, OnTime

\* Calls with some fields changed are calls.
LEMMA CallChanged ==
    ASSUME NEW k \in Call, NEW due \in Nat, NEW began \in Nat, NEW attempt \in Nat,
           NEW method \in {"POST", "GET"}, NEW pc \in {"sent", "asleep"}
    PROVE  /\ [k EXCEPT !.pc = pc, !.due = due] \in Call
           /\ [k EXCEPT !.pc = pc, !.attempt = attempt, !.due = due] \in Call
           /\ [k EXCEPT !.pc = pc, !.method = method, !.due = due, !.began = began] \in Call
           /\ [k EXCEPT !.method = "GET", !.attempt = 0, !.due = due,
                        !.requests = 2] \in Call
  <1>1. [k EXCEPT !.pc = pc, !.due = due] \in Call
    BY DEF Call
  <1>2. [k EXCEPT !.pc = pc, !.attempt = attempt, !.due = due] \in Call
    BY DEF Call
  <1>3. [k EXCEPT !.pc = pc, !.method = method, !.due = due, !.began = began] \in Call
    BY DEF Call
  <1>4. [k EXCEPT !.method = "GET", !.attempt = 0, !.due = due,
                  !.requests = 2] \in Call
    <2>1. [k EXCEPT !.method = "GET", !.attempt = 0] \in Call
      BY DEF Call
    <2>2. \A j \in Call : [j EXCEPT !.due = due, !.requests = 2] \in Call
      <3>1. 2 \in 1..2
        OBVIOUS
      <3> QED
        BY <3>1 DEF Call
    <2>3. [k EXCEPT !.method = "GET", !.attempt = 0, !.due = due, !.requests = 2]
             = [[k EXCEPT !.method = "GET", !.attempt = 0] EXCEPT !.due = due, !.requests = 2]
      BY DEF Call
    <2> QED
      BY <2>1, <2>2, <2>3
  <1> QED
    BY <1>1, <1>2, <1>3, <1>4

LEMMA SendOnTime ==
    ASSUME ClientInv, NEW c \in Callers, NEW method \in {"POST", "GET"},
           Send(c, method), UNCHANGED now
    PROVE  ClientInv'
  <1> DEFINE k == [NoCall EXCEPT !.pc = "sent", !.method = method,
                                 !.due = now + Timeout, !.began = now]
  <1>1. now \in Nat /\ Timeout \in Nat /\ max_retries - 1 \in Nat /\ Round \in Nat
    BY ClientAssumption, Bounds DEF ClientAssumption, ClientInv, ClientTypeOK
  <1>2. k \in Call
    <2>1. now + Timeout \in Nat
      BY <1>1
    <2> QED
      BY <1>1, <2>1, NoCallIsIdle, CallChanged
  <1>3. /\ k.requests = 1 /\ k.attempt = 0 /\ k.pc = "sent" /\ k.method = method
        /\ k.due = now + Timeout /\ k.began = now
    BY DEF NoCall
  <1>4. Earlier(k) = 0 /\ k.attempt * Round = 0
    <2>1. Earlier(k) = 0
      BY <1>2, <1>3, EarlierTyped
    <2>2. 0 * Round = 0
      BY <1>1
    <2> QED
      BY <1>3, <2>1, <2>2
  <1>5. Become(c, k)
    BY DEF Send
  <1> HIDE DEF k
  <1>6. OnTime(k)
    BY <1>1, <1>3, <1>4 DEF OnTime
  <1> QED
    BY <1>2, <1>5, <1>6, OneCall

LEMMA WakeOnTime ==
    ASSUME ClientInv, NEW c \in Callers, Wake(c), UNCHANGED now
    PROVE  ClientInv'
  <1> DEFINE old == call[c]
             k == [old EXCEPT !.pc = "sent", !.attempt = @ + 1, !.due = now + Timeout]
  <1>1. old \in Call /\ OnTime(old) /\ now \in Nat
    BY CallTyped
  <1>2. old.pc = "asleep" /\ now = old.due /\ Become(c, k)
    BY DEF Wake
  <1>3. Timeout \in Nat /\ max_retries - 1 \in Nat /\ Round \in Nat
    BY ClientAssumption, Bounds DEF ClientAssumption
  <1>4. k \in Call
    <2>1. now + Timeout \in Nat /\ old.attempt + 1 \in Nat
      BY <1>1, <1>3 DEF Call
    <2> QED
      BY <1>1, <2>1, CallChanged
  <1>5. /\ k.requests = old.requests /\ k.attempt = old.attempt + 1 /\ k.pc = "sent"
        /\ k.method = old.method /\ k.due = now + Timeout /\ k.began = old.began
        /\ old.attempt \in Nat /\ old.began \in Nat
    BY <1>1 DEF Call
  <1>6. Earlier(k) = Earlier(old) /\ Earlier(old) \in Nat
    BY <1>1, <1>5, EarlierTyped DEF Earlier
  <1>7. (old.attempt + 1) * Round \in Nat
    BY <1>3, <1>5
  <1> HIDE DEF k, old
  <1>8. OnTime(k)
    BY <1>1, <1>2, <1>3, <1>5, <1>6, <1>7 DEF OnTime
  <1> QED
    BY <1>2, <1>4, <1>8, OneCall

LEMMA RetryOnTime ==
    ASSUME ClientInv, NEW c \in Callers, NEW delays, \A d \in delays : d \in 0..MaxDelay,
           call[c].pc = "sent", Retry(c, delays), UNCHANGED now
    PROVE  ClientInv'
  <1> DEFINE old == call[c]
  <1>1. old \in Call /\ OnTime(old) /\ now \in Nat
    BY CallTyped
  <1>2. CASE old.attempt = max_retries - 1
    <2> DEFINE k == [old EXCEPT !.pc = "failed"]
    <2>1. k \in Call
      BY <1>1 DEF Call
    <2>2. k.pc = "failed" /\ k.method = old.method /\ k.requests = old.requests
      BY <1>1 DEF Call
    <2>3. OnTime(k)
      BY <1>1, <2>2 DEF OnTime
    <2>4. Become(c, k)
      BY <1>2 DEF Retry
    <2> QED
      BY <2>1, <2>3, <2>4, OneCall
  <1>3. CASE old.attempt # max_retries - 1
    <2>1. PICK delay \in delays : Become(c, [old EXCEPT !.pc = "asleep", !.due = now + delay])
      BY <1>3 DEF Retry
    <2> DEFINE k == [old EXCEPT !.pc = "asleep", !.due = now + delay]
    <2>2. delay \in Nat /\ delay <= MaxDelay /\ MaxDelay \in Nat
      BY DelayAssumption DEF DelayAssumption
    <2>3. k \in Call
      <3>1. now + delay \in Nat
        BY <1>1, <2>2
      <3> QED
        BY <1>1, <3>1, CallChanged
    <2>4. /\ k.pc = "asleep" /\ k.method = old.method /\ k.requests = old.requests
          /\ k.attempt = old.attempt /\ k.began = old.began /\ k.due = now + delay
          /\ old.attempt \in Nat /\ old.began \in Nat /\ old.due \in Nat
      BY <1>1 DEF Call
    <2>5. Earlier(k) = Earlier(old) /\ Earlier(old) \in Nat
      BY <1>1, <2>4, EarlierTyped DEF Earlier
    <2>6. Timeout \in Nat /\ Round \in Nat /\ max_retries - 1 \in Nat
      BY ClientAssumption, Bounds DEF ClientAssumption
    <2>7. /\ old.attempt * Round \in Nat
          /\ (old.attempt + 1) * Round = old.attempt * Round + Timeout + MaxDelay
      BY <2>4, <2>6, NextRound
    <2>8. /\ old.attempt <= max_retries - 1 /\ now <= old.due
          /\ old.due <= old.began + Earlier(old) + old.attempt * Round + Timeout
          /\ old.method = "POST" => old.requests = 1
      BY <1>1 DEF OnTime
    <2>9. old.attempt + 1 <= max_retries - 1
      BY <1>3, <2>4, <2>6, <2>8
    <2> HIDE DEF k, old
    <2>10. now + delay <= old.began + Earlier(old) + (old.attempt + 1) * Round
      BY <1>1, <2>2, <2>4, <2>5, <2>6, <2>7, <2>8
    <2>11. OnTime(k)
      BY <1>1, <2>2, <2>4, <2>5, <2>8, <2>9, <2>10 DEF OnTime
    <2> QED
      BY <2>1, <2>3, <2>11, OneCall DEF k, old
  <1> QED
    BY <1>2, <1>3

LEMMA ConflictOnTime ==
    ASSUME ClientInv, NEW c \in Callers, Conflict(c), UNCHANGED now
    PROVE  ClientInv'
  <1> DEFINE old == call[c]
             k == [old EXCEPT !.method = "GET", !.attempt = 0, !.due = now + Timeout,
                              !.requests = 2]
  <1>1. old \in Call /\ OnTime(old) /\ now \in Nat
    BY CallTyped
  <1>2. old.pc = "sent" /\ old.method = "POST" /\ Become(c, k)
    BY DEF Conflict
  <1>3. Timeout \in Nat /\ max_retries - 1 \in Nat /\ Round \in Nat /\ RequestBound \in Nat
    BY ClientAssumption, Bounds DEF ClientAssumption
  <1>4. k \in Call
    <2>1. now + Timeout \in Nat
      BY <1>1, <1>3
    <2> QED
      BY <1>1, <2>1, CallChanged
  <1>5. /\ k.requests = 2 /\ k.attempt = 0 /\ k.pc = "sent" /\ k.method = "GET"
        /\ k.due = now + Timeout /\ k.began = old.began
        /\ old.attempt \in Nat /\ old.began \in Nat /\ old.due \in Nat
    BY <1>1, <1>2 DEF Call
  <1>6. old.attempt <= max_retries - 1 /\ old.requests = 1 /\ now <= old.due
    BY <1>1, <1>2 DEF OnTime
  <1>7. Earlier(old) = 0 /\ Earlier(k) = RequestBound
    BY <1>1, <1>3, <1>5, <1>6, EarlierTyped DEF Earlier
  <1>8. old.due <= old.began + old.attempt * Round + Timeout
    <2>1. old.due <= old.began + Earlier(old) + old.attempt * Round + Timeout
      BY <1>1, <1>2 DEF OnTime
    <2> QED
      BY <2>1, <1>5, <1>7
  <1>9. /\ old.attempt * Round \in Nat
        /\ old.attempt * Round + Timeout <= RequestBound
    BY <1>5, <1>6, AttemptsCost
  <1>10. k.attempt * Round = 0
    BY <1>3, <1>5
  <1> HIDE DEF k, old
  <1>11. OnTime(k)
    BY <1>1, <1>3, <1>5, <1>6, <1>7, <1>8, <1>9, <1>10 DEF OnTime
  <1> QED
    BY <1>2, <1>4, <1>11, OneCall

\* Where a call ends, nothing is waited for.
LEMMA OverOnTime ==
    ASSUME ClientInv, NEW c \in Callers, NEW auth \in BOOLEAN,
           NEW reply \in Answers \cup {None}, UNCHANGED now,
           \/ Rejected(c, auth)
           \/ Answered(c, reply)
           \/ Taken(c)
    PROVE  ClientInv'
  <1> DEFINE old == call[c]
             rejected == [old EXCEPT !.pc = "failed", !.auth = auth]
             answered == [old EXCEPT !.pc = "done", !.reply = reply]
  <1>1. old \in Call /\ OnTime(old)
    BY CallTyped
  <1>2. CASE Rejected(c, auth)
    <2>1. rejected \in Call
      BY <1>1 DEF Call
    <2>2. /\ rejected.pc = "failed" /\ rejected.method = old.method
          /\ rejected.requests = old.requests
      BY <1>1 DEF Call
    <2>3. Become(c, rejected)
      BY <1>2 DEF Rejected
    <2>4. OnTime(rejected)
      BY <1>1, <2>2 DEF OnTime
    <2> HIDE DEF rejected
    <2> QED
      BY <2>1, <2>3, <2>4, OneCall
  <1>3. CASE Answered(c, reply)
    <2>1. answered \in Call
      BY <1>1 DEF Call
    <2>2. /\ answered.pc = "done" /\ answered.method = old.method
          /\ answered.requests = old.requests
      BY <1>1 DEF Call
    <2>3. Become(c, answered)
      BY <1>3 DEF Answered
    <2>4. OnTime(answered)
      BY <1>1, <2>2 DEF OnTime
    <2> HIDE DEF answered
    <2> QED
      BY <2>1, <2>3, <2>4, OneCall
  <1>4. CASE Taken(c)
    BY <1>4, NoCallIsIdle, OneCall DEF Taken
  <1> QED
    BY <1>2, <1>3, <1>4

LEMMA DiesOnTime == ASSUME ClientInv, Dies, UNCHANGED now PROVE ClientInv'
  <1>1. ClientTypeOK'
    BY NoCallIsIdle DEF ClientInv, ClientTypeOK, Dies
  <1>2. \A c \in Callers : OnTime(call[c])'
    BY DEF Dies, OnTime, NoCall
  <1> QED
    BY <1>1, <1>2 DEF ClientInv

LEMMA ClockOnTime == ASSUME ClientInv, TimePasses PROVE ClientInv'
  <1>1. ClientTypeOK'
    BY DEF ClientInv, ClientTypeOK, TimePasses
  <1>2. ASSUME NEW c \in Callers
        PROVE  OnTime(call[c])'
    <2>1. call[c] \in Call /\ OnTime(call[c]) /\ now \in Nat /\ call[c].due \in Nat
      BY CallTyped DEF Call
    <2>2. call'[c] = call[c] /\ now' = now + 1
      BY DEF TimePasses
    <2>3. call[c].pc \in {"sent", "asleep"} => now + 1 <= call[c].due
      BY <2>1 DEF TimePasses, Waiting
    <2> QED
      BY <2>1, <2>2, <2>3 DEF OnTime, Earlier
  <1> QED
    BY <1>1, <1>2 DEF ClientInv

LEMMA AttemptOnTime ==
    ASSUME ClientInv, NEW c \in Callers, Attempted(c), UNCHANGED now
    PROVE  ClientInv'
  <1>1. call[c].attempt \in Nat
    BY CallTyped DEF Call
  <1>2. CASE NetworkError(c)
    BY <1>1, <1>2, DelaysBounded, RetryOnTime DEF NetworkError
  <1>3. ASSUME NEW retry_after \in RetryAfters \cup {None}, TransientError(c, retry_after)
        PROVE  ClientInv'
    <2>1. CASE retry_after = None
      BY <1>1, <1>3, <2>1, DelaysBounded, RetryOnTime DEF TransientError
    <2>2. CASE retry_after # None
      <3>1. \A d \in {retry_after} : d \in 0..MaxDelay
        BY <2>2, ClientAssumption, DelayAssumption DEF ClientAssumption, DelayAssumption
      <3> QED
        BY <1>3, <2>2, <3>1, RetryOnTime DEF TransientError
    <2> QED
      BY <2>1, <2>2
  <1>4. CASE Conflict(c)
    BY <1>4, ConflictOnTime
  <1>5. ASSUME NEW auth \in BOOLEAN, Rejected(c, auth)
        PROVE  ClientInv'
    BY <1>5, OverOnTime
  <1>6. ASSUME NEW reply \in Answers \cup {None}, Answered(c, reply)
        PROVE  ClientInv'
    BY <1>6, OverOnTime
  <1> QED
    BY <1>2, <1>3, <1>4, <1>5, <1>6 DEF Attempted

LEMMA ClientStep == ClientInv /\ [ClientNext]_clientVars => ClientInv'
  <1> SUFFICES ASSUME ClientInv, [ClientNext]_clientVars
               PROVE  ClientInv'
    OBVIOUS
  <1>1. ASSUME NEW c \in Callers, Wake(c) \/ Attempted(c) \/ Uses(c), UNCHANGED now
        PROVE  ClientInv'
    <2>1. CASE Wake(c)
      BY <1>1, <2>1, WakeOnTime
    <2>2. CASE Attempted(c)
      BY <1>1, <2>2, AttemptOnTime
    <2>3. CASE Uses(c)
      <3>1. ASSUME NEW method \in {"POST", "GET"}, Send(c, method)
            PROVE  ClientInv'
        BY <1>1, <3>1, SendOnTime
      <3>2. CASE Taken(c)
        BY <1>1, <3>2, NoCallIsIdle, OneCall DEF Taken
      <3> QED
        BY <2>3, <3>1, <3>2 DEF Uses
    <2> QED
      BY <1>1, <2>1, <2>2, <2>3
  <1>2. CASE Dies /\ UNCHANGED now
    BY <1>2, DiesOnTime
  <1>3. CASE TimePasses
    BY <1>3, ClockOnTime
  <1>4. CASE UNCHANGED clientVars
    <2>1. now' = now /\ call' = call
      BY <1>4 DEF clientVars
    <2> QED
      BY <2>1 DEF ClientInv, ClientTypeOK, OnTime, Earlier
  <1> QED
    BY <1>1, <1>2, <1>3, <1>4 DEF ClientNext

LEMMA InTime == ClientInv => CallEnds
  <1> SUFFICES ASSUME ClientInv, NEW c \in Callers, Waiting(c)
               PROVE  now <= call[c].began + call[c].requests * RequestBound
    BY DEF CallEnds
  <1> DEFINE k == call[c]
  <1>1. k \in Call /\ OnTime(k) /\ now \in Nat
    BY CallTyped
  <1>2. /\ k.due \in Nat /\ k.began \in Nat /\ k.attempt \in Nat
        /\ k.requests \in 1..2 /\ k.pc \in {"sent", "asleep"}
    BY <1>1 DEF Waiting, Call
  <1>3. /\ Timeout \in Nat /\ max_retries - 1 \in Nat /\ RequestBound \in Nat
        /\ Earlier(k) \in Nat
    BY <1>1, ClientAssumption, Bounds, EarlierTyped DEF ClientAssumption
  <1> HIDE DEF k
  <1>4. now <= k.began + Earlier(k) + RequestBound
    <2>1. CASE k.pc = "sent"
      <3>1. k.attempt * Round \in Nat /\ k.attempt * Round + Timeout <= RequestBound
        BY <1>1, <1>2, <2>1, AttemptsCost DEF OnTime
      <3>2. now <= k.due /\ k.due <= k.began + Earlier(k) + k.attempt * Round + Timeout
        BY <1>1, <2>1 DEF OnTime
      <3> QED
        BY <1>1, <1>2, <1>3, <3>1, <3>2
    <2>2. CASE k.pc = "asleep"
      <3>1. k.attempt + 1 \in Nat /\ k.attempt + 1 <= max_retries - 1
        BY <1>1, <1>2, <2>2 DEF OnTime
      <3>2. /\ (k.attempt + 1) * Round \in Nat
            /\ (k.attempt + 1) * Round + Timeout <= RequestBound
        BY <3>1, AttemptsCost
      <3>3. now <= k.due /\ k.due <= k.began + Earlier(k) + (k.attempt + 1) * Round
        BY <1>1, <2>2 DEF OnTime
      <3> QED
        BY <1>1, <1>2, <1>3, <3>2, <3>3
    <2> QED
      BY <1>2, <2>1, <2>2
  <1>5. Earlier(k) + RequestBound = k.requests * RequestBound
    <2>1. k.requests = 1 \/ k.requests = 2
      BY <1>2
    <2> QED
      BY <1>3, <2>1 DEF Earlier
  <1> QED
    BY <1>1, <1>2, <1>3, <1>4, <1>5 DEF k

LEMMA ClientStart == ClientInit => ClientInv
  BY NoCallIsIdle DEF ClientInit, ClientInv, ClientTypeOK, OnTime, NoCall

\* A call ends within max_retries timeouts and the sleeps between them, a
\* create that is answered 409 within twice that (_request, create_session),
\* for every retry policy and whatever the API answers.
THEOREM CallsEnd == ClientSpec => []CallEnds
  <1>1. ClientInit => ClientInv
    BY ClientStart
  <1>2. ClientInv /\ [ClientNext]_clientVars => ClientInv'
    BY ClientStep
  <1>3. ClientInv => CallEnds
    BY InTime
  <1> QED
    BY <1>1, <1>2, <1>3, PTL DEF ClientSpec
=============================================================================
