-------------------------- MODULE SimulationProofs --------------------------
(***************************************************************************)
(* The simulation, for all scenarios, retry policies and poll schedules:   *)
(* its calls end in time, as those of any client do, its records end as    *)
(* scripted and are not polled more often than they may be, and its API is *)
(* one that the other models take the Devin API to be.                     *)
(***************************************************************************)
EXTENDS Simulation, ClientProofs, SumProofs

(***************************************************************************)
(* Invariant: who waits for what.                                          *)
(***************************************************************************)
LoopSound ==
    /\ loop.wake # None => loop.todo = {} /\ loop.polling = None
    /\ call[Poller].pc # "idle" => loop.polling # None /\ call[Poller].method = "GET"

\* A create is under way for a row without a session, a poll for one with it.
RowsSound ==
    /\ \A f \in Findings :
          call[f].pc # "idle" => record[f] # None /\ ~record[f].tracked
    /\ \A f \in Findings :
          f \in loop.todo \/ f = loop.polling => record[f] # None /\ record[f].tracked

Sound == ClientInv /\ SimulationTypeOK /\ LoopSound /\ RowsSound

USE ScheduleAssumption DEF ScheduleAssumption

LEMMA IdsAreFindings == Ids = Findings
  BY SimulationAssumption DEF SimulationAssumption

\* What is typed, for the lemmas below.
LEMMA Typed ==
    ASSUME Sound
    PROVE  /\ now \in Nat
           /\ call \in [Callers -> Call]
           /\ record \in [Findings -> Record \cup {None}]
           /\ loop \in Loop
           /\ scenario \in Scripts /\ scenario \in [Findings -> Scenario]
           /\ sessions \in [Findings -> Payload \cup {None}]
           /\ polls \in [Findings -> 0..MaxPolls]
           /\ create_attempts \in [Findings -> Nat]
           /\ token \in BOOLEAN
           /\ trial \in Trials
  BY IdsAreFindings, FakeAssumption
     DEF Sound, SimulationTypeOK, ClientTypeOK, ScheduleTypeOK, FakeTypeOK, FakeAssumption

\* Whom a waiting call is about.
LEMMA SubjectIsFinding ==
    ASSUME Sound, NEW c \in Callers, call[c].pc # "idle"
    PROVE  Subject(c) \in Findings
  <1>1. CASE c = Poller
    BY <1>1, Typed DEF Subject, Sound, LoopSound, Loop
  <1>2. CASE c # Poller
    BY <1>2 DEF Subject
  <1> QED
    BY <1>1, <1>2

LEMMA ShownIsAnswer ==
    ASSUME Sound, NEW f \in Findings
    PROVE  /\ GetTick(f) \in 1..MaxPolls
           /\ NextPayload(f) \in Answers
           /\ NextPayload(f) \in Payload
  <1>1. polls[f] \in 0..MaxPolls /\ MaxPolls \in Nat \ {0}
    BY Typed, FakeAssumption DEF FakeAssumption
  <1>2. GetTick(f) \in 1..MaxPolls
    BY <1>1 DEF GetTick
  <1>3. NextPayload(f) \in Answers
    BY <1>2, Typed, IdsAreFindings, SimulationAssumption DEF SimulationAssumption, NextPayload
  <1> QED
    BY <1>2, <1>3, ClientAssumption DEF ClientAssumption

(***************************************************************************)
(* What an attempt of a request does to the calls.                         *)
(***************************************************************************)
LEMMA ReplyEffect ==
    ASSUME call \in [Callers -> Call], NEW c \in Callers, NEW status, NEW reply,
           call[c].pc = "sent",
           ReplyTo(c, status, reply) \/ NetworkError(c)
    PROVE  /\ \A d \in Callers : d # c => call'[d] = call[d]
           /\ call'[c].pc = "done" => status = 200 /\ call'[c].reply = reply
           /\ call'[c].auth => status = 401 \/ call[c].auth
           /\ \/ call'[c].method = call[c].method
              \/ status = 409 /\ call'[c].method = "GET"
           /\ call'[c].pc # "idle" /\ call'[c].began = call[c].began
           /\ \/ call'[c].requests = call[c].requests
              \/ call[c].method = "POST" /\ call'[c].pc = "sent"
  <1>1. ASSUME NEW delays, Retry(c, delays)
        PROVE  /\ \A d \in Callers : d # c => call'[d] = call[d]
               /\ call'[c].pc # "done" /\ call'[c].pc # "idle"
               /\ call'[c].auth => call[c].auth
               /\ call'[c].method = call[c].method
               /\ call'[c].began = call[c].began
               /\ call'[c].requests = call[c].requests
    <2>1. CASE call[c].attempt = max_retries - 1
      BY <1>1, <2>1 DEF Retry, Become, Call
    <2>2. CASE call[c].attempt # max_retries - 1
      <3>1. PICK delay \in delays :
               call' = [call EXCEPT ![c] = [call[c] EXCEPT !.pc = "asleep", !.due = now + delay]]
        BY <1>1, <2>2 DEF Retry, Become
      <3>2. call'[c] = [call[c] EXCEPT !.pc = "asleep", !.due = now + delay]
        BY <3>1
      <3>3. \A d \in Callers : d # c => call'[d] = call[d]
        BY <3>1
      <3>4. call[c] \in Call
        OBVIOUS
      <3> QED
        BY <3>2, <3>3, <3>4 DEF Call
    <2> QED
      BY <2>1, <2>2
  <1>2. CASE NetworkError(c)
    BY <1>1, <1>2 DEF NetworkError
  <1>3. CASE status = 200 /\ Answered(c, reply)
    BY <1>3 DEF Answered, Become, Call
  <1>4. CASE status = 401 /\ Rejected(c, TRUE)
    BY <1>4 DEF Rejected, Become, Call
  <1>5. CASE status = 409 /\ Conflict(c)
    BY <1>5 DEF Conflict, Become, Call
  <1>6. CASE TransientError(c, 0) \/ TransientError(c, None)
    BY <1>1, <1>6 DEF TransientError
  <1> QED
    BY <1>2, <1>3, <1>4, <1>5, <1>6 DEF ReplyTo

LEMMA RequestEffect ==
    ASSUME Sound, NEW c \in Callers, Request(c)
    PROVE  /\ call[c].pc = "sent"
           /\ \A d \in Callers : d # c => call'[d] = call[d]
           /\ call'[c].auth => call[c].auth \/ ~token
           /\ call'[c].method = "GET" \/ call'[c].method = call[c].method
           /\ call'[c].pc # "idle" /\ call'[c].began = call[c].began
           /\ \/ call'[c].requests = call[c].requests
              \/ call[c].method = "POST" /\ call'[c].pc = "sent"
           /\ Attempted(c)
           /\ UNCHANGED <<now, record, loop, scenario, token, trial, restarts>>
  <1> DEFINE id == Subject(c)
             reply == IF id \in trial.garbled THEN None ELSE NextPayload(id)
  <1>1. call[c].pc = "sent" /\ call \in [Callers -> Call] /\ id \in Findings
    BY SubjectIsFinding, Typed DEF Request
  <1>2. UNCHANGED <<now, record, loop, trial, restarts>>
    BY DEF Request, scheduleVars
  <1>3. reply \in Answers \cup {None} /\ Fresh \in Answers
    BY <1>1, ShownIsAnswer, SimulationAssumption DEF SimulationAssumption
  <1>4. ASSUME NEW status, NEW answer \in Answers \cup {None}, ReplyTo(c, status, answer)
        PROVE  Attempted(c)
    <2>1. CASE TransientError(c, 0)
      BY <2>1, SimulationAssumption DEF SimulationAssumption, Attempted
    <2>2. CASE TransientError(c, None)
      BY <2>2 DEF Attempted
    <2>3. CASE NetworkError(c) \/ Answered(c, answer) \/ Rejected(c, TRUE) \/ Conflict(c)
      BY <2>3 DEF Attempted
    <2> QED
      BY <1>4, <2>1, <2>2, <2>3 DEF ReplyTo
  <1> HIDE DEF id, reply
  <1>5. CASE RequestLost(c)
    <2>1. UNCHANGED <<scenario, token>> /\ NetworkError(c)
      BY <1>5 DEF RequestLost, fakeVars
    <2>2. Attempted(c)
      BY <2>1 DEF Attempted
    <2> QED
      BY <1>1, <1>2, <2>1, <2>2, ReplyEffect
  <1>6. CASE Post(c)
    <2>1. ReplyTo(c, PostStatus(id), Fresh) /\ UNCHANGED <<scenario, token>>
      BY <1>6 DEF Post, Create, id
    <2>2. PostStatus(id) = 401 => ~token
      BY DEF PostStatus
    <2>3. Attempted(c)
      BY <1>3, <1>4, <2>1
    <2> QED
      BY <1>1, <1>2, <2>1, <2>2, <2>3, ReplyEffect
  <1>7. CASE Fetch(c)
    <2>1. ReplyTo(c, GetStatus(id), reply) /\ UNCHANGED <<scenario, token>>
      BY <1>7 DEF Fetch, Get, id, reply
    <2>2. GetStatus(id) = 401 => ~token
      BY DEF GetStatus
    <2>3. Attempted(c)
      BY <1>3, <1>4, <2>1
    <2> QED
      BY <1>1, <1>2, <2>1, <2>2, <2>3, ReplyEffect
  <1> QED
    BY <1>5, <1>6, <1>7 DEF Request

\* The API's own tables keep their types.
LEMMA RequestTyped ==
    ASSUME Sound, NEW c \in Callers, Request(c)
    PROVE  FakeTypeOK'
  <1> DEFINE id == Subject(c)
  <1>1. id \in Findings
    BY SubjectIsFinding DEF Request
  <1>2. MaxPolls \in Nat \ {0} /\ Fresh \in Payload
    BY FakeAssumption, SimulationAssumption, ClientAssumption
       DEF FakeAssumption, SimulationAssumption, ClientAssumption
  <1> HIDE DEF id
  <1>3. CASE RequestLost(c)
    BY <1>3 DEF RequestLost, fakeVars, Sound, SimulationTypeOK, FakeTypeOK
  <1>4. CASE Post(c)
    <2>1. Create(id)
      BY <1>4 DEF Post, id
    <2>2. create_attempts' \in [Findings -> Nat]
      <3>1. create_attempts[id] + 1 \in Nat
        BY <1>1, Typed
      <3> QED
        BY <2>1, <3>1, Typed DEF Create
    <2>3. sessions' \in [Findings -> Payload \cup {None}]
      BY <1>2, <2>1, Typed DEF Create
    <2> QED
      BY <2>1, <2>2, <2>3, Typed, IdsAreFindings DEF Create, FakeTypeOK
  <1>5. CASE Fetch(c)
    <2>1. Get(id)
      BY <1>5 DEF Fetch, id
    <2>2. GetTick(id) \in 0..MaxPolls /\ Shown(scenario[id], GetTick(id)) \in Payload
      BY <1>1, <1>2, ShownIsAnswer DEF NextPayload
    <2>3. polls' \in [Findings -> 0..MaxPolls]
      BY <2>1, <2>2, Typed DEF Get
    <2>4. sessions' \in [Findings -> Payload \cup {None}]
      BY <2>1, <2>2, Typed DEF Get
    <2> QED
      BY <2>1, <2>3, <2>4, Typed, IdsAreFindings DEF Get, FakeTypeOK
  <1> QED
    BY <1>3, <1>4, <1>5 DEF Request

LEMMA SoundRequest ==
    ASSUME Sound, NEW c \in Callers, Request(c)
    PROVE  Sound'
  <1>1. ClientInv'
    BY RequestEffect, AttemptOnTime DEF Sound
  <1>2. SimulationTypeOK'
    BY <1>1, RequestEffect, RequestTyped
       DEF Sound, ClientInv, SimulationTypeOK, ScheduleTypeOK
  <1>3. LoopSound'
    BY RequestEffect DEF Sound, LoopSound
  <1>4. RowsSound'
    BY RequestEffect DEF Sound, RowsSound
  <1> QED
    BY <1>1, <1>2, <1>3, <1>4 DEF Sound

(***************************************************************************)
(* The other actions keep the invariant.  Each changes one call, or none.  *)
(***************************************************************************)
LEMMA SentCall ==
    ASSUME Sound, NEW c \in Callers, NEW method \in {"POST", "GET"}, Send(c, method)
    PROVE  /\ call[c].pc = "idle"
           /\ \A d \in Callers : d # c => call'[d] = call[d]
           /\ call'[c].pc = "sent" /\ call'[c].method = method /\ ~call'[c].auth
  BY Typed DEF Send, Become, NoCall

LEMMA TakenCall ==
    ASSUME Sound, NEW c \in Callers, Taken(c)
    PROVE  /\ \A d \in Callers : d # c => call'[d] = call[d]
           /\ call'[c].pc = "idle" /\ ~call'[c].auth
  BY Typed DEF Taken, Become, NoCall

LEMMA SoundRetrying ==
    ASSUME Sound, NEW c \in Callers, Retrying(c)
    PROVE  Sound'
  <1>1. UNCHANGED <<now, record, loop, trial, restarts>> /\ FakeTypeOK'
    BY DEF Retrying, Sound, SimulationTypeOK, FakeTypeOK, fakeVars, scheduleVars
  <1>2. ClientInv'
    BY WakeOnTime DEF Retrying, Sound
  <1>3. SimulationTypeOK'
    BY <1>1, <1>2 DEF Sound, ClientInv, SimulationTypeOK, ScheduleTypeOK
  <1>4. /\ call[c].pc = "asleep" /\ call'[c].method = call[c].method
        /\ \A d \in Callers : d # c => call'[d] = call[d]
    BY Typed DEF Retrying, Wake, Become, Call
  <1> QED
    BY <1>1, <1>2, <1>3, <1>4 DEF Sound, LoopSound, RowsSound

LEMMA RowTyped ==
    ASSUME Sound, NEW f \in Findings, NEW row \in Record, Write(f, row)
    PROVE  /\ record' \in [Findings -> Record \cup {None}]
           /\ record'[f] = row /\ row # None
           /\ \A g \in Findings : g # f => record'[g] = record[g]
  BY Typed DEF Write

LEMMA SoundClaim ==
    ASSUME Sound, NEW f \in Findings, Claim(f), UNCHANGED <<now, fakeVars, trial, restarts>>
    PROVE  Sound'
  <1> DEFINE row == [outcome |-> "in_progress", tracked |-> FALSE, created_at |-> now,
                     next_poll_at |-> None, poll_attempts |-> 0]
  <1>1. row \in Record /\ ~row.tracked
    BY Typed DEF Record, Outcomes
  <1>2. Write(f, row) /\ Send(f, "POST") /\ record[f] = None /\ UNCHANGED loop
    BY DEF Claim
  <1> HIDE DEF row
  <1>3. ClientInv'
    BY <1>2, SendOnTime DEF Sound
  <1>4. SimulationTypeOK'
    BY <1>1, <1>2, <1>3, RowTyped
       DEF Sound, ClientInv, SimulationTypeOK, ScheduleTypeOK, FakeTypeOK, fakeVars
  <1>5. LoopSound'
    BY <1>2, SentCall DEF Sound, LoopSound
  <1>6. RowsSound'
    BY <1>1, <1>2, SentCall, RowTyped DEF Sound, RowsSound
  <1> QED
    BY <1>3, <1>4, <1>5, <1>6 DEF Sound

\* When a row is due next, and how often it was polled.
SamePace(old, row) ==
    row.next_poll_at = old.next_poll_at /\ row.poll_attempts = old.poll_attempts

\* What a create, or a poll, writes is a row.
LEMMA RowKept ==
    ASSUME NEW row \in Record, NEW outcome \in Outcomes
    PROVE  /\ [row EXCEPT !.tracked = TRUE] \in Record
           /\ Settle(row, outcome) \in Record
           /\ Settle(row, outcome).tracked = row.tracked
           /\ Settle(row, outcome).created_at = row.created_at
           /\ Settle(row, outcome).outcome = outcome
           /\ SamePace(row, [row EXCEPT !.tracked = TRUE])
           /\ SamePace(row, Settle(row, outcome))
  BY DEF Record, Settle, SamePace

LEMMA SoundCreated ==
    ASSUME Sound, NEW f \in Findings, Created(f), UNCHANGED <<now, fakeVars, trial, restarts>>
    PROVE  Sound'
  <1>1. record[f] \in Record /\ ~record[f].tracked
    BY Typed DEF Created, Sound, RowsSound
  <1>2. Taken(f) /\ UNCHANGED loop
    BY DEF Created
  <1>3. ClientInv'
    BY <1>2, NoCallIsIdle, OneCall DEF Sound, Taken
  <1>4. PICK row \in Record :
           \/ Write(f, row)
           \/ UNCHANGED record /\ row = record[f]
    <2>1. "errored" \in Outcomes
      BY DEF Outcomes, TERMINAL_OUTCOMES
    <2>2. /\ [record[f] EXCEPT !.tracked = TRUE] \in Record
          /\ Settle(record[f], "errored") \in Record
      BY <1>1, <2>1, RowKept
    <2>3. \/ Write(f, [record[f] EXCEPT !.tracked = TRUE])
          \/ UNCHANGED record
          \/ Write(f, Settle(record[f], "errored"))
      BY DEF Created
    <2> QED
      BY <1>1, <2>2, <2>3
  <1>5. /\ record' \in [Findings -> Record \cup {None}] /\ record'[f] = row /\ row # None
        /\ \A g \in Findings : g # f => record'[g] = record[g]
    BY <1>1, <1>4, Typed, RowTyped
  <1>6. SimulationTypeOK'
    BY <1>2, <1>3, <1>5
       DEF Sound, ClientInv, SimulationTypeOK, ScheduleTypeOK, FakeTypeOK, fakeVars
  <1>7. LoopSound'
    BY <1>2, TakenCall DEF Sound, LoopSound
  <1>8. ~(f \in loop.todo) /\ f # loop.polling
    BY <1>1 DEF Sound, RowsSound
  <1>9. RowsSound'
    BY <1>2, <1>5, <1>8, TakenCall DEF Sound, RowsSound
  <1> QED
    BY <1>3, <1>6, <1>7, <1>9 DEF Sound

LEMMA SoundTick ==
    ASSUME Sound, Tick, UNCHANGED <<now, fakeVars, trial, restarts>>
    PROVE  Sound'
  <1>1. loop' = [wake |-> None, todo |-> Due, polling |-> None] /\ UNCHANGED <<record, call>>
    BY DEF Tick
  <1>2. loop.wake # None
    BY Typed DEF Tick
  <1>3. Due \subseteq Findings /\ \A f \in Due : record[f] # None /\ record[f].tracked
    BY DEF Due, Tracked
  <1>4. ClientInv'
    BY <1>1 DEF Sound, ClientInv, ClientTypeOK, OnTime, Earlier
  <1>5. SimulationTypeOK'
    BY <1>1, <1>3, <1>4
       DEF Sound, ClientInv, SimulationTypeOK, ScheduleTypeOK, FakeTypeOK, fakeVars, Loop
  <1>6. LoopSound'
    BY <1>1, <1>2 DEF Sound, LoopSound
  <1>7. RowsSound'
    BY <1>1, <1>3 DEF Sound, RowsSound
  <1> QED
    BY <1>4, <1>5, <1>6, <1>7 DEF Sound

LEMMA SoundPollNext ==
    ASSUME Sound, NEW f \in Findings, PollNext(f), UNCHANGED <<now, fakeVars, trial, restarts>>
    PROVE  Sound'
  <1>1. /\ loop' = [loop EXCEPT !.todo = @ \ {f}, !.polling = f] /\ UNCHANGED record
        /\ Send(Poller, "GET") /\ f \in loop.todo
    BY DEF PollNext
  <1>2. loop.wake = None /\ record[f] # None /\ record[f].tracked
    BY <1>1 DEF Sound, LoopSound, RowsSound
  <1>3. loop'.wake = None /\ loop'.todo = loop.todo \ {f} /\ loop'.polling = f /\ loop' \in Loop
    BY <1>1, <1>2, Typed DEF Loop
  <1>4. ClientInv'
    BY <1>1, SendOnTime DEF Sound
  <1>5. SimulationTypeOK'
    BY <1>1, <1>3, <1>4
       DEF Sound, ClientInv, SimulationTypeOK, ScheduleTypeOK, FakeTypeOK, fakeVars
  <1>6. LoopSound'
    BY <1>1, <1>3, SentCall DEF LoopSound
  <1>7. RowsSound'
    BY <1>1, <1>2, <1>3, SentCall DEF Sound, RowsSound
  <1> QED
    BY <1>4, <1>5, <1>6, <1>7 DEF Sound

LEMMA SoundRest ==
    ASSUME Sound, Rest, UNCHANGED <<now, fakeVars, trial, restarts>>
    PROVE  Sound'
  <1>1. /\ loop' = Resting(now + interval_seconds) /\ UNCHANGED <<record, call>>
        /\ loop.polling = None
    BY DEF Rest
  <1>2. now + interval_seconds \in Nat
    BY Typed
  <1>3. ClientInv'
    BY <1>1 DEF Sound, ClientInv, ClientTypeOK, OnTime, Earlier
  <1>4. SimulationTypeOK'
    BY <1>1, <1>2, <1>3
       DEF Sound, ClientInv, SimulationTypeOK, ScheduleTypeOK, FakeTypeOK, fakeVars, Loop, Resting
  <1>5. LoopSound'
    BY <1>1 DEF Sound, LoopSound, Resting
  <1>6. RowsSound'
    BY <1>1 DEF Sound, RowsSound, Resting
  <1> QED
    BY <1>3, <1>4, <1>5, <1>6 DEF Sound

(***************************************************************************)
(* What _poll_one writes.                                                  *)
(***************************************************************************)
\* It keeps the row's session and age; its outcome is the payload's, or stays,
\* or is a timeout past the limit, or an error for refused credentials.  The next
\* poll is put off by the gap, or is where it was.
Spaces(old, row) ==
    /\ row.next_poll_at = now + NextGap(old.poll_attempts)
    /\ row.poll_attempts = old.poll_attempts + 1

PollWrites(old, row) ==
    /\ row \in Record
    /\ row.tracked = old.tracked
    /\ row.created_at = old.created_at
    /\ \/ row.outcome = old.outcome
       \/ row.outcome = "timed_out" /\ now > old.created_at + max_wait_seconds
       \/ row.outcome = "errored" /\ call[Poller].auth
       \/ /\ call[Poller].pc = "done" /\ call[Poller].reply # None
          /\ row.outcome = classify(call[Poller].reply) /\ row.outcome # "in_progress"
    /\ SamePace(old, row) \/ Spaces(old, row)
    /\ \/ row.outcome # "in_progress"
       \/ now <= old.created_at + max_wait_seconds
       \/ call[Poller].pc = "done" /\ call[Poller].reply = None

LEMMA TimeoutWrites ==
    ASSUME NEW old \in Record, now \in Nat
    PROVE  /\ CheckTimeout(old) \in Record
           /\ CheckTimeout(old).tracked = old.tracked
           /\ CheckTimeout(old).created_at = old.created_at
           /\ SamePace(old, CheckTimeout(old))
           /\ \/ CheckTimeout(old).outcome # "in_progress"
              \/ now <= old.created_at + max_wait_seconds
           /\ \/ CheckTimeout(old).outcome = old.outcome
              \/ /\ CheckTimeout(old).outcome = "timed_out"
                 /\ now > old.created_at + max_wait_seconds
  <1>1. "timed_out" \in Outcomes
    BY DEF Outcomes, TERMINAL_OUTCOMES
  <1>2. old.created_at \in Nat
    BY DEF Record
  <1>3. CASE now - old.created_at > max_wait_seconds
    <2>1. CheckTimeout(old) = Settle(old, "timed_out")
      BY <1>3 DEF CheckTimeout
    <2>2. now > old.created_at + max_wait_seconds
      BY <1>2, <1>3
    <2>3. /\ Settle(old, "timed_out") \in Record
          /\ Settle(old, "timed_out").tracked = old.tracked
          /\ Settle(old, "timed_out").created_at = old.created_at
          /\ Settle(old, "timed_out").outcome = "timed_out"
          /\ SamePace(old, Settle(old, "timed_out"))
      BY <1>1, RowKept
    <2> QED
      BY <2>1, <2>2, <2>3
  <1>4. CASE ~(now - old.created_at > max_wait_seconds)
    <2>1. now <= old.created_at + max_wait_seconds
      BY <1>2, <1>4
    <2> QED
      BY <1>4, <2>1 DEF CheckTimeout, SamePace
  <1> QED
    BY <1>3, <1>4

LEMMA GapIsInt == ASSUME NEW n \in Nat PROVE NextGap(n) \in Int
  <1> DEFINE gap == backoff_base_seconds * 2^n
  <1>1. gap \in Int
    OBVIOUS
  <1> HIDE DEF gap
  <1>2. (IF gap < backoff_cap_seconds THEN gap ELSE backoff_cap_seconds) \in Int
    BY <1>1
  <1> QED
    BY <1>2 DEF NextGap, gap

LEMMA WidenedRow ==
    ASSUME NEW old \in Record, now \in Nat
    PROVE  /\ Widened(old) \in Record
           /\ Widened(old).tracked = old.tracked
           /\ Widened(old).created_at = old.created_at
           /\ Widened(old).outcome = old.outcome
           /\ Spaces(old, Widened(old))
  <1>1. old.poll_attempts \in Nat
    BY DEF Record
  <1>2. now + NextGap(old.poll_attempts) \in Int /\ old.poll_attempts + 1 \in Nat
    BY <1>1, GapIsInt
  <1> QED
    BY <1>2 DEF Widened, Record, Spaces

LEMMA ClassifiedOutcome ==
    ASSUME NEW p, classify(p) # None
    PROVE  classify(p) \in Outcomes /\ classify(p) # "in_progress"
  BY DEF classify, Outcomes, TERMINAL_OUTCOMES

LEMMA AnswerWrites ==
    ASSUME NEW old \in Record, now \in Nat,
           call[Poller].pc = "done", call[Poller].reply # None
    PROVE  PollWrites(old, Answer(old, call[Poller].reply))
  <1> DEFINE p == call[Poller].reply
  <1>1. CASE classify(p) = None
    <2>1. Answer(old, p) = CheckTimeout(Widened(old))
      BY <1>1 DEF Answer
    <2>2. Spaces(old, Answer(old, p))
      BY <2>1, WidenedRow, TimeoutWrites DEF Spaces, SamePace
    <2> QED
      BY <2>1, <2>2, WidenedRow, TimeoutWrites DEF PollWrites
  <1>2. CASE classify(p) # None
    <2>1. Answer(old, p) = Settle(old, classify(p))
      BY <1>2 DEF Answer
    <2>2. /\ Settle(old, classify(p)) \in Record
          /\ Settle(old, classify(p)).tracked = old.tracked
          /\ Settle(old, classify(p)).created_at = old.created_at
          /\ Settle(old, classify(p)).outcome = classify(p)
          /\ SamePace(old, Settle(old, classify(p)))
      BY <1>2, ClassifiedOutcome, RowKept
    <2> QED
      BY <1>2, <2>1, <2>2, ClassifiedOutcome DEF PollWrites
  <1> QED
    BY <1>1, <1>2

LEMMA FailureWrites ==
    ASSUME NEW old \in Record, now \in Nat
    PROVE  PollWrites(old, Failure(old, call[Poller].auth))
  <1>1. "errored" \in Outcomes
    BY DEF Outcomes, TERMINAL_OUTCOMES
  <1>2. CASE call[Poller].auth
    BY <1>1, <1>2, RowKept DEF PollWrites, Failure
  <1>3. CASE ~call[Poller].auth
    BY <1>3, TimeoutWrites DEF PollWrites, Failure
  <1> QED
    BY <1>2, <1>3

LEMMA PolledEffect ==
    ASSUME Sound, Polled, UNCHANGED now
    PROVE  \E f \in Findings, row \in Record :
              /\ f = loop.polling
              /\ record[f] \in Record /\ record[f].tracked
              /\ PollWrites(record[f], row)
              /\ Write(f, row)
              /\ Taken(Poller)
              /\ loop' \in Loop
              /\ loop'.polling = None /\ loop'.todo \subseteq loop.todo
              /\ loop'.wake # None => loop'.todo = {}
              /\ \/ loop'.wake = None /\ loop'.todo = loop.todo
                 \/ /\ loop'.wake = now + interval_seconds
                    /\ call[Poller].pc = "done" /\ call[Poller].reply = None
  <1> DEFINE f == loop.polling
             old == record[f]
  <1>1. f \in Findings /\ old \in Record /\ old.tracked /\ now \in Nat
    BY Typed DEF Polled, Sound, RowsSound, Loop
  <1>2. Taken(Poller) /\ loop.wake = None
    BY <1>1, Typed DEF Polled, Sound, LoopSound
  <1>3. ASSUME loop' = [loop EXCEPT !.polling = None]
        PROVE  /\ loop' \in Loop /\ loop'.polling = None /\ loop'.todo \subseteq loop.todo
               /\ loop'.wake # None => loop'.todo = {}
               /\ loop'.wake = None /\ loop'.todo = loop.todo
    BY <1>2, <1>3, Typed DEF Loop
  <1>4. CASE /\ call[Poller].pc = "done" /\ call[Poller].reply # None
             /\ Write(f, Answer(old, call[Poller].reply))
             /\ loop' = [loop EXCEPT !.polling = None]
    <2>1. PollWrites(old, Answer(old, call[Poller].reply))
      BY <1>1, <1>4, AnswerWrites
    <2> QED
      BY <1>1, <1>2, <1>3, <1>4, <2>1 DEF PollWrites
  <1>5. CASE /\ call[Poller].pc = "failed"
             /\ Write(f, Failure(old, call[Poller].auth))
             /\ loop' = [loop EXCEPT !.polling = None]
    <2>1. PollWrites(old, Failure(old, call[Poller].auth))
      BY <1>1, FailureWrites
    <2> QED
      BY <1>1, <1>2, <1>3, <1>5, <2>1 DEF PollWrites
  <1>6. CASE /\ call[Poller].pc = "done" /\ call[Poller].reply = None
             /\ UNCHANGED record /\ loop' = Resting(now + interval_seconds)
    <2>1. PollWrites(old, old)
      BY <1>1, <1>6 DEF PollWrites, SamePace
    <2>2. Write(f, old)
      BY <1>1, <1>6, Typed DEF Write
    <2>3. now + interval_seconds \in Nat
      BY <1>1
    <2>4. /\ loop' \in Loop /\ loop'.polling = None /\ loop'.todo = {}
          /\ loop'.wake = now + interval_seconds
      BY <1>6, <2>3 DEF Loop, Resting
    <2> QED
      BY <1>1, <1>2, <1>6, <2>1, <2>2, <2>4
  <1> QED
    BY <1>4, <1>5, <1>6 DEF Polled

LEMMA SoundPolled ==
    ASSUME Sound, Polled, UNCHANGED <<now, fakeVars, trial, restarts>>
    PROVE  Sound'
  <1>1. PICK f \in Findings, row \in Record :
              /\ f = loop.polling
              /\ record[f] \in Record /\ record[f].tracked
              /\ PollWrites(record[f], row)
              /\ Write(f, row)
              /\ Taken(Poller)
              /\ loop' \in Loop
              /\ loop'.polling = None /\ loop'.todo \subseteq loop.todo
              /\ loop'.wake # None => loop'.todo = {}
    BY PolledEffect
  <1>2. /\ record' \in [Findings -> Record \cup {None}]
        /\ record'[f] = row /\ row # None /\ row.tracked
        /\ \A g \in Findings : g # f => record'[g] = record[g]
    BY <1>1, RowTyped DEF PollWrites
  <1>3. call[f].pc = "idle"
    BY <1>1 DEF Sound, RowsSound
  <1>4. ClientInv'
    BY <1>1, NoCallIsIdle, OneCall DEF Sound, Taken
  <1>5. SimulationTypeOK'
    BY <1>1, <1>2, <1>4
       DEF Sound, ClientInv, SimulationTypeOK, ScheduleTypeOK, FakeTypeOK, fakeVars
  <1>6. LoopSound'
    BY <1>1, TakenCall DEF LoopSound
  <1>7. RowsSound'
    <2>1. \A g \in Findings : call'[g] = call[g]
      BY <1>1, TakenCall
    <2>2. \A g \in Findings : g # loop'.polling
      BY <1>1
    <2> QED
      BY <1>1, <1>2, <1>3, <2>1, <2>2 DEF Sound, RowsSound
  <1> QED
    BY <1>4, <1>5, <1>6, <1>7 DEF Sound

LEMMA SoundRestarts == ASSUME Sound, Restarts PROVE Sound'
  <1>1. Dies /\ loop' = Resting(now) /\ UNCHANGED <<now, record, trial, fakeVars>>
    BY DEF Restarts, ScheduleRestart
  <1>2. ClientInv'
    BY <1>1, DiesOnTime DEF Sound
  <1>3. restarts' \in 0..trial'.restarts
    <2>1. trial.restarts \in Nat /\ restarts \in 0..trial.restarts
      BY SimulationAssumption DEF SimulationAssumption, Trial, Sound, SimulationTypeOK
    <2> QED
      BY <1>1, <2>1 DEF Restarts
  <1>4. SimulationTypeOK'
    BY <1>1, <1>2, <1>3, Typed
       DEF Sound, ClientInv, SimulationTypeOK, ScheduleTypeOK, FakeTypeOK, fakeVars, Loop, Resting
  <1>5. \A c \in Callers : call'[c].pc = "idle"
    BY <1>1 DEF Dies, NoCall
  <1> QED
    BY <1>1, <1>2, <1>4, <1>5 DEF Sound, LoopSound, RowsSound, Resting

LEMMA SoundClock == ASSUME Sound, ClockMoves PROVE Sound'
  <1>1. TimePasses /\ UNCHANGED <<record, loop, trial, restarts, fakeVars, call>>
    BY DEF ClockMoves, scheduleVars, TimePasses
  <1>2. ClientInv'
    BY <1>1, ClockOnTime DEF Sound
  <1>3. SimulationTypeOK'
    BY <1>1, <1>2
       DEF Sound, ClientInv, SimulationTypeOK, ScheduleTypeOK, FakeTypeOK, fakeVars
  <1> QED
    BY <1>1, <1>2, <1>3 DEF Sound, LoopSound, RowsSound

LEMMA SoundStutter == ASSUME Sound, UNCHANGED simulationVars PROVE Sound'
  <1>1. UNCHANGED <<now, call, record, loop, trial, restarts, fakeVars>>
    BY DEF simulationVars, clientVars, scheduleVars
  <1>2. ClientInv'
    BY <1>1 DEF Sound, ClientInv, ClientTypeOK, OnTime, Earlier
  <1>3. SimulationTypeOK'
    BY <1>1, <1>2
       DEF Sound, ClientInv, SimulationTypeOK, ScheduleTypeOK, FakeTypeOK, fakeVars
  <1> QED
    BY <1>1, <1>2, <1>3 DEF Sound, LoopSound, RowsSound

LEMMA SoundStep == Sound /\ [SimulationNext]_simulationVars => Sound'
  <1> SUFFICES ASSUME Sound, [SimulationNext]_simulationVars
               PROVE  Sound'
    OBVIOUS
  <1>1. ASSUME NEW c \in Callers, Request(c) \/ Retrying(c)
        PROVE  Sound'
    BY <1>1, SoundRequest, SoundRetrying
  <1>2. ASSUME NEW f \in Findings, Filing(f)
        PROVE  Sound'
    BY <1>2, SoundClaim, SoundCreated DEF Filing
  <1>3. CASE Polling
    BY <1>3, SoundTick, SoundPollNext, SoundPolled, SoundRest DEF Polling
  <1>4. CASE Restarts
    BY <1>4, SoundRestarts
  <1>5. CASE ClockMoves
    BY <1>5, SoundClock
  <1>6. CASE UNCHANGED simulationVars
    BY <1>6, SoundStutter
  <1> QED
    BY <1>1, <1>2, <1>3, <1>4, <1>5, <1>6 DEF SimulationNext, ClockEnds

LEMMA SoundInit == SimulationInit => Sound
  <1> SUFFICES ASSUME SimulationInit PROVE Sound
    OBVIOUS
  <1>1. ClientInv
    BY ClientStart DEF SimulationInit
  <1>2. record \in [Findings -> Record \cup {None}] /\ \A f \in Findings : record[f] = None
    BY DEF SimulationInit, ScheduleInit
  <1>3. loop \in Loop /\ loop.todo = {} /\ loop.polling = None
    BY DEF SimulationInit, ScheduleInit, Resting, Loop
  <1>4. \A c \in Callers : call[c].pc = "idle"
    BY DEF SimulationInit, ClientInit, NoCall
  <1>5. FakeTypeOK
    BY FakeAssumption DEF SimulationInit, FakeInit, FakeTypeOK, FakeAssumption
  <1>6. restarts \in 0..trial.restarts
    BY SimulationAssumption DEF SimulationAssumption, SimulationInit, Trial
  <1>7. SimulationTypeOK
    BY <1>1, <1>2, <1>3, <1>5, <1>6
       DEF SimulationInit, SimulationTypeOK, ScheduleTypeOK, ClientInv
  <1> QED
    BY <1>1, <1>2, <1>3, <1>4, <1>7 DEF Sound, LoopSound, RowsSound

LEMMA SoundAlways == SimulationSpec => []Sound
  BY SoundInit, SoundStep, PTL DEF SimulationSpec

(***************************************************************************)
(* Whatever the script, the faults and the schedule, the variables keep    *)
(* their types (the clients', the poller's and the API's tables).          *)
(***************************************************************************)
THEOREM SimulationTyped == SimulationSpec => []SimulationTypeOK
  <1>1. Sound => SimulationTypeOK
    BY DEF Sound
  <1> QED
    BY <1>1, SoundAlways, PTL

(***************************************************************************)
(* In the service as it is composed, no coroutine awaits the client for    *)
(* longer than the retries of _request take (CallEnds).                    *)
(***************************************************************************)
THEOREM SimulationCallsEnd == SimulationSpec => []CallEnds
  <1>1. Sound => CallEnds
    BY InTime DEF Sound
  <1> QED
    BY <1>1, SoundAlways, PTL

(***************************************************************************)
(* Invariant: what the answers the callers hold say of the script.         *)
(***************************************************************************)
\* No session without a token, and no refusal with one.
TokenSound ==
    /\ \A c \in Callers : /\ call[c].pc = "done" => token
                          /\ call[c].auth => ~token
    /\ \A f \in Findings : record[f] # None /\ record[f].tracked => token

\* A poll's answer is a payload of the script, of a session there is.
ScriptedReply(c) ==
    call[c].pc = "done" /\ call[c].reply # None =>
        /\ sessions[loop.polling] # None
        /\ classify(call[c].reply) \in ScriptedOutcomes(scenario[loop.polling])

\* A row is not settled while its create is under way.
OpenWhileCreating ==
    \A f \in Findings : call[f].pc # "idle" => record[f].outcome = "in_progress"

Scripted ==
    TokenSound /\ ScriptedReply(Poller) /\ OpenWhileCreating /\ EndsAsScripted

LEMMA NextIsScripted ==
    ASSUME Sound, NEW f \in Findings
    PROVE  classify(NextPayload(f)) \in ScriptedOutcomes(scenario[f])
  <1> DEFINE s == scenario[f]
             tick == GetTick(f)
  <1>1. tick \in 1..MaxPolls /\ s.ticks_to_terminal \in Nat
    BY ShownIsAnswer, Typed DEF Scenario
  <1>2. MaxPolls \in Nat
    BY FakeAssumption DEF FakeAssumption
  <1>3. CASE tick < s.ticks_to_terminal
    <2>1. tick \in 1..(s.ticks_to_terminal - 1)
      BY <1>1, <1>2, <1>3
    <2>2. NextPayload(f) = Running(s, tick)
      BY <1>3 DEF NextPayload, Shown
    <2> QED
      BY <2>1, <2>2 DEF ScriptedOutcomes
  <1>4. CASE ~(tick < s.ticks_to_terminal)
    <2>1. NextPayload(f) = Terminal(s)
      BY <1>4 DEF NextPayload, Shown
    <2> QED
      BY <2>1 DEF ScriptedOutcomes
  <1> QED
    BY <1>3, <1>4

\* What an attempt tells its caller, and what it leaves at the API.
LEMMA AnswerEffect ==
    ASSUME Sound, NEW c \in Callers, Request(c)
    PROVE  /\ \A f \in Findings : sessions[f] # None => sessions'[f] # None
           /\ call'[c].pc = "done" => token
           /\ c = Poller => ScriptedReply(c)'
           /\ c = Poller /\ call'[c].pc = "done" /\ call'[c].reply = None =>
                 loop.polling \in trial.garbled
  <1> DEFINE id == Subject(c)
             reply == IF id \in trial.garbled THEN None ELSE NextPayload(id)
  <1>1. call[c].pc = "sent" /\ call \in [Callers -> Call] /\ id \in Findings
    BY SubjectIsFinding, Typed DEF Request
  <1>2. None \notin Payload /\ Fresh \in Payload /\ NextPayload(id) \in Payload
    BY <1>1, ShownIsAnswer, ClientAssumption, SimulationAssumption
       DEF ClientAssumption, SimulationAssumption
  <1>3. UNCHANGED <<loop, scenario>>
    BY RequestEffect
  <1>4. /\ reply # None => reply = NextPayload(id)
        /\ reply = None => id \in trial.garbled
    BY <1>2
  <1> HIDE DEF id, reply
  <1>5. CASE RequestLost(c)
    <2>1. UNCHANGED sessions /\ NetworkError(c)
      BY <1>5 DEF RequestLost, fakeVars
    <2>2. call'[c].pc # "done"
      <3>1. ReplyTo(c, 503, None)
        BY <2>1 DEF ReplyTo
      <3> QED
        BY <1>1, <3>1, ReplyEffect
    <2> QED
      BY <2>1, <2>2 DEF ScriptedReply
  <1>6. CASE Post(c)
    <2>1. ReplyTo(c, PostStatus(id), Fresh) /\ call[c].method = "POST" /\ Create(id)
      BY <1>6 DEF Post, id
    <2>2. c # Poller
      BY <1>1, <2>1 DEF Sound, LoopSound
    <2>3. call'[c].pc = "done" => PostStatus(id) = 200
      BY <1>1, <2>1, ReplyEffect
    <2>4. PostStatus(id) = 200 => token
      BY DEF PostStatus
    <2>5. \A f \in Findings : sessions[f] # None => sessions'[f] # None
      BY <1>1, <1>2, <2>1, Typed DEF Create
    <2> QED
      BY <2>2, <2>3, <2>4, <2>5
  <1>7. CASE Fetch(c)
    <2>1. ReplyTo(c, GetStatus(id), reply) /\ Get(id)
      BY <1>7 DEF Fetch, id, reply
    <2>2. call'[c].pc = "done" => GetStatus(id) = 200 /\ call'[c].reply = reply
      BY <1>1, <2>1, ReplyEffect
    <2>3. GetStatus(id) = 200 => token
      BY DEF GetStatus
    <2>4. /\ \A f \in Findings : sessions[f] # None => sessions'[f] # None
          /\ GetStatus(id) = 200 => sessions'[id] # None
      BY <1>1, <1>2, <2>1, Typed DEF Get, NextPayload
    <2>5. classify(NextPayload(id)) \in ScriptedOutcomes(scenario[id])
      BY <1>1, NextIsScripted
    <2>6. c = Poller => id = loop.polling
      BY DEF id, Subject
    <2>7. ASSUME c = Poller, call'[c].pc = "done", call'[c].reply # None
          PROVE  /\ sessions'[loop'.polling] # None
                 /\ classify(call'[c].reply) \in ScriptedOutcomes(scenario[loop.polling])
      BY <1>3, <1>4, <2>2, <2>4, <2>5, <2>6, <2>7
    <2>8. c = Poller /\ call'[c].pc = "done" /\ call'[c].reply = None =>
             loop.polling \in trial.garbled
      BY <1>4, <2>2, <2>6
    <2> QED
      BY <1>3, <2>2, <2>3, <2>4, <2>7, <2>8 DEF ScriptedReply
  <1> QED
    BY <1>5, <1>6, <1>7 DEF Request

LEMMA ScriptedRequest ==
    ASSUME Sound, Scripted, NEW c \in Callers, Request(c)
    PROVE  Scripted'
  <1>1. /\ call[c].pc = "sent"
        /\ \A d \in Callers : d # c => call'[d] = call[d]
        /\ call'[c].auth => call[c].auth \/ ~token
        /\ UNCHANGED <<now, record, loop, scenario, token>>
    BY RequestEffect
  <1>2. /\ \A f \in Findings : sessions[f] # None => sessions'[f] # None
        /\ call'[c].pc = "done" => token
        /\ c = Poller => ScriptedReply(c)'
    BY AnswerEffect
  <1>3. TokenSound'
    BY <1>1, <1>2 DEF Scripted, TokenSound
  <1>4. ScriptedReply(Poller)'
    <2>1. CASE c = Poller
      BY <1>2, <2>1
    <2>2. CASE c # Poller
      <3>1. call'[Poller].pc # "idle" => loop.polling \in Findings
        BY <1>1, <2>2, Typed DEF Sound, LoopSound, Loop
      <3> QED
        BY <1>1, <1>2, <2>2, <3>1 DEF Scripted, ScriptedReply
    <2> QED
      BY <2>1, <2>2
  <1>5. OpenWhileCreating'
    BY <1>1 DEF Scripted, OpenWhileCreating
  <1>6. EndsAsScripted'
    BY <1>1, <1>2 DEF Scripted, EndsAsScripted
  <1> QED
    BY <1>3, <1>4, <1>5, <1>6 DEF Scripted

LEMMA ScriptedRetrying ==
    ASSUME Sound, Scripted, NEW c \in Callers, Retrying(c)
    PROVE  Scripted'
  <1>1. UNCHANGED <<now, record, loop, scenario, sessions, token>>
    BY DEF Retrying, fakeVars, scheduleVars
  <1>2. /\ call[c].pc = "asleep" /\ call'[c].pc = "sent" /\ call'[c].auth = call[c].auth
        /\ \A d \in Callers : d # c => call'[d] = call[d]
    BY Typed DEF Retrying, Wake, Become, Call
  <1> QED
    BY <1>1, <1>2 DEF Scripted, TokenSound, ScriptedReply, OpenWhileCreating, EndsAsScripted

LEMMA ScriptedClaim ==
    ASSUME Sound, Scripted, NEW f \in Findings, Claim(f),
           UNCHANGED <<now, fakeVars, trial, restarts>>
    PROVE  Scripted'
  <1> DEFINE row == [outcome |-> "in_progress", tracked |-> FALSE, created_at |-> now,
                     next_poll_at |-> None, poll_attempts |-> 0]
  <1>1. row \in Record /\ ~row.tracked /\ row.outcome = "in_progress"
    BY Typed DEF Record, Outcomes
  <1>2. Write(f, row) /\ Send(f, "POST") /\ UNCHANGED <<loop, scenario, sessions, token>>
    BY DEF Claim, fakeVars
  <1> HIDE DEF row
  <1>3. /\ \A d \in Callers : d # f => call'[d] = call[d]
        /\ call'[f].pc = "sent" /\ ~call'[f].auth
    BY <1>2, SentCall
  <1>4. record'[f] = row /\ \A g \in Findings : g # f => record'[g] = record[g]
    BY <1>1, <1>2, RowTyped
  <1>5. TokenSound'
    BY <1>1, <1>2, <1>3, <1>4 DEF Scripted, TokenSound
  <1>6. ScriptedReply(Poller)'
    BY <1>2, <1>3 DEF Scripted, ScriptedReply
  <1>7. OpenWhileCreating'
    BY <1>1, <1>3, <1>4 DEF Scripted, OpenWhileCreating
  <1>8. EndsAsScripted'
    BY <1>1, <1>2, <1>4 DEF Scripted, EndsAsScripted
  <1> QED
    BY <1>5, <1>6, <1>7, <1>8 DEF Scripted

LEMMA ScriptedCreated ==
    ASSUME Sound, Scripted, NEW f \in Findings, Created(f),
           UNCHANGED <<now, fakeVars, trial, restarts>>
    PROVE  Scripted'
  <1> DEFINE old == record[f]
  <1>1. old \in Record /\ ~old.tracked /\ old.outcome = "in_progress"
    BY Typed DEF Created, Sound, RowsSound, Scripted, OpenWhileCreating
  <1>2. UNCHANGED <<loop, scenario, sessions, token>> /\ Taken(f)
    BY DEF Created, fakeVars
  <1>3. /\ \A d \in Callers : d # f => call'[d] = call[d]
        /\ call'[f].pc = "idle" /\ ~call'[f].auth
    BY <1>2, TakenCall
  <1>4. PICK row \in Record :
           /\ record'[f] = row /\ row # None
           /\ \A g \in Findings : g # f => record'[g] = record[g]
           /\ row.tracked => token
           /\ \/ row.outcome = "in_progress"
              \/ row.outcome = "errored" /\ ~row.tracked
    <2>1. CASE UNCHANGED record
      BY <1>1, <2>1, Typed
    <2>2. CASE call[f].pc = "done" /\ Write(f, [old EXCEPT !.tracked = TRUE])
      <3>1. token
        BY <2>2 DEF Scripted, TokenSound
      <3>2. /\ [old EXCEPT !.tracked = TRUE] \in Record
            /\ [old EXCEPT !.tracked = TRUE].outcome = "in_progress"
        BY <1>1 DEF Record
      <3> QED
        BY <2>2, <3>1, <3>2, RowTyped
    <2>3. CASE Write(f, Settle(old, "errored"))
      <3>1. "errored" \in Outcomes
        BY DEF Outcomes, TERMINAL_OUTCOMES
      <3>2. /\ Settle(old, "errored") \in Record /\ ~Settle(old, "errored").tracked
            /\ Settle(old, "errored").outcome = "errored"
        <4>1. Settle(old, "errored").tracked = old.tracked
          BY <1>1, <3>1, RowKept
        <4> QED
          BY <1>1, <3>1, <4>1, RowKept
      <3> QED
        BY <2>3, <3>2, RowTyped
    <2> QED
      BY <2>1, <2>2, <2>3 DEF Created
  <1> HIDE DEF old
  <1>5. TokenSound'
    BY <1>2, <1>3, <1>4 DEF Scripted, TokenSound
  <1>6. ScriptedReply(Poller)'
    BY <1>2, <1>3 DEF Scripted, ScriptedReply
  <1>7. OpenWhileCreating'
    BY <1>3, <1>4 DEF Scripted, OpenWhileCreating
  <1>8. EndsAsScripted'
    BY <1>2, <1>4 DEF Scripted, EndsAsScripted
  <1> QED
    BY <1>5, <1>6, <1>7, <1>8 DEF Scripted

LEMMA ScriptedPolled ==
    ASSUME Sound, Scripted, Polled, UNCHANGED <<now, fakeVars, trial, restarts>>
    PROVE  Scripted'
  <1>1. PICK f \in Findings, row \in Record :
              /\ f = loop.polling
              /\ record[f] \in Record /\ record[f].tracked
              /\ PollWrites(record[f], row)
              /\ Write(f, row)
              /\ Taken(Poller)
              /\ loop' \in Loop
              /\ loop'.polling = None /\ loop'.todo \subseteq loop.todo
              /\ loop'.wake # None => loop'.todo = {}
    BY PolledEffect
  <1>2. /\ record'[f] = row /\ row # None
        /\ \A g \in Findings : g # f => record'[g] = record[g]
    BY <1>1, RowTyped
  <1>3. UNCHANGED <<now, scenario, sessions, token>>
    BY DEF fakeVars
  <1>4. /\ \A c \in Callers : c # Poller => call'[c] = call[c]
        /\ call'[Poller].pc = "idle" /\ ~call'[Poller].auth
    BY <1>1, TakenCall
  <1>5. record[f] # None
    BY Typed, <1>1
  <1>6. token
    BY <1>1, <1>5 DEF Scripted, TokenSound
  <1>7. TokenSound'
    BY <1>3, <1>4, <1>6 DEF Scripted, TokenSound
  <1>8. ScriptedReply(Poller)'
    BY <1>4 DEF ScriptedReply
  <1>9. call[f].pc = "idle"
    BY <1>1 DEF Sound, RowsSound
  <1>10. OpenWhileCreating'
    BY <1>2, <1>4, <1>9 DEF Scripted, OpenWhileCreating
  <1>11. \/ row.outcome = "in_progress"
         \/ row.outcome = "timed_out" /\ now > row.created_at + max_wait_seconds
         \/ row.outcome \in ScriptedOutcomes(scenario[f]) /\ sessions[f] # None
    <2>1. row.created_at = record[f].created_at
      BY <1>1 DEF PollWrites
    <2>2. CASE row.outcome = record[f].outcome
      BY <1>1, <1>5, <2>1, <2>2 DEF Scripted, EndsAsScripted
    <2>3. CASE row.outcome = "timed_out" /\ now > record[f].created_at + max_wait_seconds
      BY <2>1, <2>3
    <2>4. ~call[Poller].auth
      BY <1>6 DEF Scripted, TokenSound
    <2>5. CASE /\ call[Poller].pc = "done" /\ call[Poller].reply # None
               /\ row.outcome = classify(call[Poller].reply)
      BY <1>1, <2>5 DEF Scripted, ScriptedReply
    <2> QED
      BY <1>1, <2>2, <2>3, <2>4, <2>5 DEF PollWrites
  <1>12. EndsAsScripted'
    BY <1>2, <1>3, <1>11 DEF Scripted, EndsAsScripted
  <1> QED
    BY <1>7, <1>8, <1>10, <1>12 DEF Scripted

\* The other steps of the loop leave the rows alone; a poll begins, or none is
\* under way.
LEMMA ScriptedLooping ==
    ASSUME Sound, Scripted, Tick \/ Rest \/ \E f \in Findings : PollNext(f),
           UNCHANGED <<now, fakeVars, trial, restarts>>
    PROVE  Scripted'
  <1>1. UNCHANGED <<now, record, scenario, sessions, token>>
    BY DEF Tick, Rest, PollNext, fakeVars
  <1>2. /\ \A c \in Callers : c # Poller => call'[c] = call[c]
        /\ call'[Poller].pc \in {"idle", "sent"}
        /\ call'[Poller].auth => ~token
    <2>1. CASE Tick
      <3>1. loop.wake # None
        BY <2>1, Typed DEF Tick
      <3> QED
        BY <2>1, <3>1 DEF Tick, Sound, LoopSound, Scripted, TokenSound
    <2>2. CASE Rest
      BY <2>2 DEF Rest, Sound, LoopSound, Scripted, TokenSound
    <2>3. ASSUME NEW f \in Findings, PollNext(f)
          PROVE  /\ \A c \in Callers : c # Poller => call'[c] = call[c]
                 /\ call'[Poller].pc = "sent" /\ ~call'[Poller].auth
      BY <2>3, SentCall DEF PollNext
    <2> QED
      BY <2>1, <2>2, <2>3
  <1>3. TokenSound'
    BY <1>1, <1>2 DEF Scripted, TokenSound
  <1>4. ScriptedReply(Poller)'
    BY <1>2 DEF ScriptedReply
  <1>5. OpenWhileCreating'
    BY <1>1, <1>2 DEF Scripted, OpenWhileCreating
  <1>6. EndsAsScripted'
    BY <1>1 DEF Scripted, EndsAsScripted
  <1> QED
    BY <1>3, <1>4, <1>5, <1>6 DEF Scripted

LEMMA ScriptedRestarts == ASSUME Sound, Scripted, Restarts PROVE Scripted'
  <1>1. UNCHANGED <<now, record, scenario, sessions, token>>
    BY DEF Restarts, ScheduleRestart, fakeVars
  <1>2. \A c \in Callers : call'[c].pc = "idle" /\ ~call'[c].auth
    BY DEF Restarts, ScheduleRestart, Dies, NoCall
  <1> QED
    BY <1>1, <1>2 DEF Scripted, TokenSound, ScriptedReply, OpenWhileCreating, EndsAsScripted

LEMMA ScriptedClock == ASSUME Sound, Scripted, ClockMoves PROVE Scripted'
  <1>1. now' = now + 1 /\ UNCHANGED <<call, record, loop, scenario, sessions, token>>
    BY DEF ClockMoves, TimePasses, scheduleVars, fakeVars
  <1>2. \A f \in Findings : record[f] # None => record[f].created_at \in Nat
    BY Typed DEF Record
  <1>3. \A f \in Findings : record[f] # None =>
           (now > record[f].created_at + max_wait_seconds
              => now + 1 > record[f].created_at + max_wait_seconds)
    BY <1>2, Typed
  <1>4. EndsAsScripted'
    BY <1>1, <1>3 DEF Scripted, EndsAsScripted
  <1> QED
    BY <1>1, <1>4 DEF Scripted, TokenSound, ScriptedReply, OpenWhileCreating

LEMMA ScriptedStutter == ASSUME Scripted, UNCHANGED simulationVars PROVE Scripted'
  <1>1. UNCHANGED <<now, call, record, loop, scenario, sessions, token>>
    BY DEF simulationVars, clientVars, scheduleVars, fakeVars
  <1> QED
    BY <1>1 DEF Scripted, TokenSound, ScriptedReply, OpenWhileCreating, EndsAsScripted

LEMMA ScriptedStep == Sound /\ Scripted /\ [SimulationNext]_simulationVars => Scripted'
  <1> SUFFICES ASSUME Sound, Scripted, [SimulationNext]_simulationVars
               PROVE  Scripted'
    OBVIOUS
  <1>1. ASSUME NEW c \in Callers, Request(c) \/ Retrying(c)
        PROVE  Scripted'
    BY <1>1, ScriptedRequest, ScriptedRetrying
  <1>2. ASSUME NEW f \in Findings, Filing(f)
        PROVE  Scripted'
    BY <1>2, ScriptedClaim, ScriptedCreated DEF Filing
  <1>3. CASE Polling
    BY <1>3, ScriptedLooping, ScriptedPolled DEF Polling
  <1>4. CASE Restarts
    BY <1>4, ScriptedRestarts
  <1>5. CASE ClockMoves
    BY <1>5, ScriptedClock
  <1>6. CASE UNCHANGED simulationVars
    BY <1>6, ScriptedStutter
  <1> QED
    BY <1>1, <1>2, <1>3, <1>4, <1>5, <1>6 DEF SimulationNext, ClockEnds

LEMMA ScriptedInit == SimulationInit => Scripted
  <1> SUFFICES ASSUME SimulationInit PROVE Scripted
    OBVIOUS
  <1>1. \A c \in Callers : call[c].pc = "idle" /\ ~call[c].auth
    BY DEF SimulationInit, ClientInit, NoCall
  <1>2. \A f \in Findings : record[f] = None
    BY DEF SimulationInit, ScheduleInit
  <1> QED
    BY <1>1, <1>2 DEF Scripted, TokenSound, ScriptedReply, OpenWhileCreating, EndsAsScripted

(***************************************************************************)
(* Lost requests and replies, retries, 409s, 429s, 503s and restarts never *)
(* show in what a record ends as: its script, or a timeout past the limit, *)
(* or an errored create (_poll_one does not take its own failures for the  *)
(* session's).                                                             *)
(***************************************************************************)
THEOREM EndsScripted == SimulationSpec => []EndsAsScripted
  <1>1. Scripted => EndsAsScripted
    BY DEF Scripted
  <1>2. SimulationSpec => []Scripted
    BY ScriptedInit, ScriptedStep, SoundAlways, PTL DEF SimulationSpec
  <1> QED
    BY <1>1, <1>2, PTL

-----------------------------------------------------------------------------
(***************************************************************************)
(* Polls are spaced.                                                       *)
(***************************************************************************)
\* The sum of the first n + 1 gaps is the sum of the first n, and the next gap.
LEMMA GapsAddUp ==
    /\ GapSum[0] = 0
    /\ \A n \in Nat : GapSum[n] \in Int
    /\ \A n \in Nat : GapSum[n + 1] = GapSum[n] + NextGap(n)
  <1> DEFINE rank == [n \in Nat |-> n]
             prev == [n \in Nat |-> n - 1]
             gain == [n \in Nat |-> IF n = 0 THEN 0 ELSE NextGap(n - 1)]
             Gaps(g) == g = [n \in Nat |-> IF n = 0 THEN 0 ELSE g[n - 1] + NextGap(n - 1)]
  <1>1. Descends(Nat, rank, prev, gain)
    <2>1. \A n \in Nat : n # 0 => n - 1 \in Nat
      OBVIOUS
    <2>2. \A n \in Nat : gain[n] \in Int
      <3> SUFFICES ASSUME NEW n \in Nat, n # 0 PROVE NextGap(n - 1) \in Int
        OBVIOUS
      <3> QED
        BY <2>1, GapIsInt
    <2> HIDE DEF gain
    <2> QED
      BY <2>1, <2>2 DEF Descends
  <1>2. PICK g \in [Nat -> Int] : Adds(g, Nat, rank, prev, gain)
    <2> HIDE DEF rank, prev, gain
    <2> QED
      BY <1>1, SumsExist
  <1>3. Gaps(g)
    <2> SUFFICES ASSUME NEW n \in Nat
                 PROVE  g[n] = IF n = 0 THEN 0 ELSE g[n - 1] + NextGap(n - 1)
      OBVIOUS
    <2>1. n # 0 => g[n - 1] \in Int /\ NextGap(n - 1) \in Int
      <3> SUFFICES ASSUME n # 0 PROVE g[n - 1] \in Int /\ NextGap(n - 1) \in Int
        OBVIOUS
      <3>1. n - 1 \in Nat
        OBVIOUS
      <3> QED
        BY <3>1, GapIsInt
    <2>2. g[n] = IF n = 0 THEN 0 ELSE (IF n = 0 THEN 0 ELSE NextGap(n - 1)) + g[n - 1]
      BY <1>2 DEF Adds
    <2> QED
      BY <2>1, <2>2
  <1>4. Gaps(GapSum)
    <2>1. GapSum = CHOOSE h : Gaps(h)
      BY DEF GapSum
    <2> HIDE DEF Gaps
    <2> QED
      BY <1>3, <2>1
  <1>5. /\ GapSum[0] = 0
        /\ \A n \in Nat : GapSum[n + 1] = GapSum[n] + NextGap(n)
    <2>1. \A n \in Nat : GapSum[n] = IF n = 0 THEN 0 ELSE GapSum[n - 1] + NextGap(n - 1)
      BY <1>4
    <2> SUFFICES ASSUME NEW n \in Nat PROVE GapSum[n + 1] = GapSum[n] + NextGap(n)
      BY <2>1
    <2>2. n + 1 \in Nat /\ n + 1 # 0 /\ (n + 1) - 1 = n
      OBVIOUS
    <2> QED
      BY <2>1, <2>2
  <1> DEFINE P == {n \in Nat : GapSum[n] \in Int}
  <1>6. P = Nat
    <2>1. \A n \in P : n + 1 \in P
      BY <1>5, GapIsInt
    <2>2. 0 \in P /\ P \in SUBSET Nat
      BY <1>5
    <2> HIDE DEF P
    <2> QED
      BY <2>1, <2>2, CountingUp
  <1> QED
    BY <1>5, <1>6

\* A record in hand is due; each of its polls was put off by its gap.
RowSpaced(row) ==
    /\ row.created_at <= now
    /\ row.next_poll_at = None => row.poll_attempts = 0
    /\ row.next_poll_at # None =>
          row.next_poll_at >= row.created_at + GapSum[row.poll_attempts]

IsDue(row) == row.next_poll_at = None \/ row.next_poll_at <= now

Spaced ==
    /\ \A f \in Findings : record[f] # None => RowSpaced(record[f])
    /\ \A f \in Findings : f \in loop.todo \/ f = loop.polling => IsDue(record[f])
    /\ loop.polling \notin loop.todo

LEMMA SpacedRow ==
    ASSUME NEW old \in Record, NEW row \in Record, now \in Nat,
           RowSpaced(old), row.created_at = old.created_at,
           SamePace(old, row) \/ (IsDue(old) /\ Spaces(old, row))
    PROVE  RowSpaced(row)
  <1>1. CASE SamePace(old, row)
    BY <1>1 DEF SamePace, RowSpaced
  <1>2. CASE IsDue(old) /\ Spaces(old, row)
    <2> DEFINE n == old.poll_attempts
               c == old.created_at
    <2>1. /\ n \in Nat /\ c \in Nat /\ old.next_poll_at \in Int \cup {None}
          /\ None \notin Int
      BY DEF Record
    <2>2. /\ row.poll_attempts = n + 1
          /\ row.next_poll_at = now + NextGap(n)
          /\ row.created_at = c
      BY <1>2 DEF Spaces
    <2>3. /\ GapSum[n] \in Int /\ NextGap(n) \in Int
          /\ GapSum[n + 1] = GapSum[n] + NextGap(n)
      BY <2>1, GapsAddUp, GapIsInt
    <2>4. now >= c + GapSum[n]
      <3>1. CASE old.next_poll_at = None
        BY <2>1, <3>1, GapsAddUp DEF RowSpaced
      <3>2. CASE old.next_poll_at # None
        BY <1>2, <2>1, <2>3, <3>2 DEF RowSpaced, IsDue
      <3> QED
        BY <3>1, <3>2
    <2> HIDE DEF n, c
    <2>5. now + NextGap(n) >= c + GapSum[n + 1] /\ now + NextGap(n) \in Int
      BY <2>1, <2>3, <2>4
    <2>6. row.created_at <= now
      BY <2>2 DEF RowSpaced, c
    <2> QED
      BY <2>1, <2>2, <2>5, <2>6 DEF RowSpaced
  <1> QED
    BY <1>1, <1>2

\* One row is written, which nobody has in hand afterwards.
LEMMA SpacedWrite ==
    ASSUME Spaced, NEW f \in Findings, NEW row, RowSpaced(row), UNCHANGED now,
           record'[f] = row, \A g \in Findings : g # f => record'[g] = record[g],
           f \notin loop'.todo, f # loop'.polling, loop'.polling \notin loop'.todo,
           loop'.todo \subseteq loop.todo, loop'.polling \in {loop.polling, None}
    PROVE  Spaced'
  <1>1. None \notin Findings
    OBVIOUS
  <1>2. ASSUME NEW g \in Findings, record'[g] # None
        PROVE  RowSpaced(record[g])'
    <2>1. CASE g = f
      BY <2>1 DEF RowSpaced
    <2>2. CASE g # f
      BY <1>2, <2>2 DEF Spaced, RowSpaced
    <2> QED
      BY <2>1, <2>2
  <1>3. ASSUME NEW g \in Findings, g \in loop'.todo \/ g = loop'.polling
        PROVE  IsDue(record[g])'
    BY <1>1, <1>3 DEF Spaced, IsDue
  <1> QED
    BY <1>2, <1>3 DEF Spaced

LEMMA SpacedInit == SimulationInit => Spaced
  BY DEF SimulationInit, ScheduleInit, Resting, Spaced

LEMMA SpacedClaim ==
    ASSUME Sound, Spaced, NEW f \in Findings, Claim(f),
           UNCHANGED <<now, fakeVars, trial, restarts>>
    PROVE  Spaced'
  <1> DEFINE row == [outcome |-> "in_progress", tracked |-> FALSE, created_at |-> now,
                     next_poll_at |-> None, poll_attempts |-> 0]
  <1>1. row \in Record /\ RowSpaced(row)
    BY Typed DEF Record, Outcomes, RowSpaced
  <1>2. Write(f, row) /\ record[f] = None /\ UNCHANGED <<now, loop>>
    BY DEF Claim
  <1> HIDE DEF row
  <1>3. record'[f] = row /\ \A g \in Findings : g # f => record'[g] = record[g]
    BY <1>1, <1>2, RowTyped
  <1>4. ~(f \in loop.todo) /\ f # loop.polling
    BY <1>2 DEF Sound, RowsSound
  <1>5. loop.polling \notin loop.todo
    BY DEF Spaced
  <1> QED
    BY <1>1, <1>2, <1>3, <1>4, <1>5, SpacedWrite

LEMMA SpacedCreated ==
    ASSUME Sound, Spaced, NEW f \in Findings, Created(f),
           UNCHANGED <<now, fakeVars, trial, restarts>>
    PROVE  Spaced'
  <1>1. record[f] \in Record /\ record[f] # None /\ ~record[f].tracked /\ now \in Nat
    BY Typed DEF Created, Sound, RowsSound
  <1>2. PICK row \in Record :
           /\ \/ Write(f, row)
              \/ UNCHANGED record /\ row = record[f]
           /\ row.created_at = record[f].created_at
           /\ SamePace(record[f], row)
    <2>1. "errored" \in Outcomes
      BY DEF Outcomes, TERMINAL_OUTCOMES
    <2>2. CASE Write(f, [record[f] EXCEPT !.tracked = TRUE])
      <3> DEFINE new == [record[f] EXCEPT !.tracked = TRUE]
      <3>1. new.created_at = record[f].created_at
        BY <1>1 DEF Record
      <3>2. new \in Record /\ SamePace(record[f], new)
        BY <1>1, <2>1, RowKept
      <3>3. Write(f, new)
        BY <2>2
      <3> HIDE DEF new
      <3> QED
        BY <3>1, <3>2, <3>3
    <2>3. CASE UNCHANGED record
      BY <1>1, <2>3 DEF SamePace
    <2>4. CASE Write(f, Settle(record[f], "errored"))
      <3> DEFINE new == Settle(record[f], "errored")
      <3>1. /\ new \in Record /\ new.created_at = record[f].created_at
            /\ SamePace(record[f], new)
        BY <1>1, <2>1, RowKept
      <3>2. Write(f, new)
        BY <2>4
      <3> HIDE DEF new
      <3> QED
        BY <3>1, <3>2
    <2> QED
      BY <2>2, <2>3, <2>4 DEF Created
  <1>3. record'[f] = row /\ \A g \in Findings : g # f => record'[g] = record[g]
    BY <1>1, <1>2, Typed, RowTyped
  <1>4. RowSpaced(row)
    BY <1>1, <1>2, SpacedRow DEF Spaced
  <1>5. ~(f \in loop.todo) /\ f # loop.polling /\ UNCHANGED <<now, loop>>
    BY <1>1 DEF Sound, RowsSound, Created
  <1>6. loop.polling \notin loop.todo
    BY DEF Spaced
  <1> QED
    BY <1>3, <1>4, <1>5, <1>6, SpacedWrite

LEMMA SpacedPolled ==
    ASSUME Sound, Spaced, Polled, UNCHANGED <<now, fakeVars, trial, restarts>>
    PROVE  Spaced'
  <1>1. PICK f \in Findings, row \in Record :
              /\ f = loop.polling
              /\ record[f] \in Record /\ record[f].tracked
              /\ PollWrites(record[f], row)
              /\ Write(f, row)
              /\ Taken(Poller)
              /\ loop' \in Loop
              /\ loop'.polling = None /\ loop'.todo \subseteq loop.todo
              /\ loop'.wake # None => loop'.todo = {}
    BY PolledEffect
  <1>2. record'[f] = row /\ \A g \in Findings : g # f => record'[g] = record[g]
    BY <1>1, RowTyped
  <1>3. RowSpaced(row)
    <2> DEFINE old == record[f]
    <2>1. old \in Record /\ RowSpaced(old) /\ IsDue(old) /\ now \in Nat
      BY <1>1, Typed DEF Spaced
    <2>2. /\ row \in Record /\ row.created_at = old.created_at
          /\ SamePace(old, row) \/ Spaces(old, row)
      BY <1>1 DEF PollWrites
    <2> HIDE DEF old
    <2> QED
      BY <2>1, <2>2, SpacedRow
  <1>4. f \notin loop'.todo /\ f # loop'.polling
    BY <1>1 DEF Spaced
  <1>5. loop'.polling \notin loop'.todo
    BY <1>1, Typed DEF Loop
  <1> QED
    BY <1>1, <1>2, <1>3, <1>4, <1>5, SpacedWrite

LEMMA SpacedLooping ==
    ASSUME Sound, Spaced, Tick \/ Rest \/ \E f \in Findings : PollNext(f),
           UNCHANGED <<now, fakeVars, trial, restarts>>
    PROVE  Spaced'
  <1>1. UNCHANGED <<now, record>> /\ loop \in Loop
    BY Typed DEF Tick, Rest, PollNext, fakeVars
  <1>2. CASE Tick
    <2>1. loop'.todo = Due /\ loop'.polling = None
      BY <1>2 DEF Tick
    <2>2. Due \subseteq Findings /\ \A f \in Due : IsDue(record[f])
      BY DEF Due, Tracked, IsDue
    <2> QED
      BY <1>1, <2>1, <2>2 DEF Spaced, RowSpaced, IsDue
  <1>3. CASE Rest
    <2>1. loop'.todo = {} /\ loop'.polling = None
      BY <1>3 DEF Rest, Resting
    <2> QED
      BY <1>1, <2>1 DEF Spaced, RowSpaced, IsDue
  <1>4. ASSUME NEW f \in Findings, PollNext(f)
        PROVE  Spaced'
    <2>1. f \in loop.todo /\ loop' = [loop EXCEPT !.todo = @ \ {f}, !.polling = f]
      BY <1>4 DEF PollNext, fakeVars
    <2>2. loop'.todo = loop.todo \ {f} /\ loop'.polling = f
      BY <1>1, <2>1 DEF Loop
    <2> QED
      BY <1>1, <2>1, <2>2 DEF Spaced, RowSpaced, IsDue
  <1> QED
    BY <1>2, <1>3, <1>4

\* Requests, sleeps, restarts and the clock leave the rows alone, and take
\* nothing in hand.
LEMMA SpacedElse ==
    ASSUME Sound, Spaced, UNCHANGED record,
           now' \in Nat /\ now <= now',
           UNCHANGED loop \/ loop' = Resting(now)
    PROVE  Spaced'
  <1>1. now \in Nat /\ None \notin Findings
    BY Typed
  <1>2. ASSUME NEW f \in Findings, record[f] # None
        PROVE  /\ RowSpaced(record[f]) => RowSpaced(record[f])'
               /\ IsDue(record[f]) => IsDue(record[f])'
    <2>1. /\ record[f].created_at \in Nat /\ record[f].next_poll_at \in Int \cup {None}
          /\ None \notin Int
      BY <1>2, Typed DEF Record
    <2> QED
      BY <1>1, <2>1 DEF RowSpaced, IsDue
  <1>3. CASE UNCHANGED loop
    <2>1. \A f \in Findings : f \in loop.todo \/ f = loop.polling => record[f] # None
      BY DEF Sound, RowsSound
    <2> QED
      BY <1>2, <1>3, <2>1 DEF Spaced
  <1>4. CASE loop' = Resting(now)
    <2>1. loop'.todo = {} /\ loop'.polling = None
      BY <1>4 DEF Resting
    <2> QED
      BY <1>1, <1>2, <2>1 DEF Spaced
  <1> QED
    BY <1>3, <1>4

LEMMA SpacedStep == Sound /\ Spaced /\ [SimulationNext]_simulationVars => Spaced'
  <1> SUFFICES ASSUME Sound, Spaced, [SimulationNext]_simulationVars
               PROVE  Spaced'
    OBVIOUS
  <1>1. now \in Nat /\ now + 1 \in Nat /\ now <= now /\ now <= now + 1
    BY Typed
  <1>2. ASSUME NEW c \in Callers, Request(c) \/ Retrying(c)
        PROVE  Spaced'
    <2>1. UNCHANGED <<now, record, loop>>
      BY <1>2 DEF Request, Retrying, scheduleVars
    <2> QED
      BY <1>1, <2>1, SpacedElse
  <1>3. ASSUME NEW f \in Findings, Filing(f)
        PROVE  Spaced'
    BY <1>3, SpacedClaim, SpacedCreated DEF Filing
  <1>4. CASE Polling
    BY <1>4, SpacedLooping, SpacedPolled DEF Polling
  <1>5. CASE Restarts
    <2>1. UNCHANGED <<now, record>> /\ loop' = Resting(now)
      BY <1>5 DEF Restarts, ScheduleRestart
    <2> QED
      BY <1>1, <2>1, SpacedElse
  <1>6. CASE ClockMoves
    <2>1. now' = now + 1 /\ UNCHANGED <<record, loop>>
      BY <1>6 DEF ClockMoves, TimePasses, scheduleVars
    <2> QED
      BY <1>1, <2>1, SpacedElse
  <1>7. CASE UNCHANGED simulationVars
    <2>1. UNCHANGED <<now, record, loop>>
      BY <1>7 DEF simulationVars, clientVars, scheduleVars
    <2> QED
      BY <1>1, <2>1, SpacedElse
  <1> QED
    BY <1>2, <1>3, <1>4, <1>5, <1>6, <1>7 DEF SimulationNext, ClockEnds

(***************************************************************************)
(* A session is not asked about more often than its widening gaps allow    *)
(* (_next_gap), for all bases and caps and whatever the restarts: the gap  *)
(* is kept in the row, so that a new process does not poll early.          *)
(***************************************************************************)
THEOREM PollsAreFew == SimulationSpec => []FewPolls
  <1>1. Spaced => FewPolls
    BY DEF Spaced, RowSpaced, FewPolls
  <1>2. SimulationSpec => []Spaced
    BY SpacedInit, SpacedStep, SoundAlways, PTL DEF SimulationSpec
  <1> QED
    BY <1>1, <1>2, PTL

-----------------------------------------------------------------------------
(***************************************************************************)
(* The scripted API is an API as DevinAPI has it.                          *)
(***************************************************************************)
LEMMA DivBounds ==
    ASSUME NEW p \in Nat, NEW n \in Nat \ {0}
    PROVE  p \div n \in Nat /\ n * (p \div n) <= p /\ p < n * (p \div n) + n
  OBVIOUS

LEMMA ProductsGrow ==
    ASSUME NEW a \in Nat, NEW x \in Nat, NEW y \in Nat, x <= y
    PROVE  a * x \in Nat /\ a * y \in Nat /\ a * x <= a * y
  OBVIOUS

LEMMA QuotientsGrow ==
    ASSUME NEW p \in Nat, NEW q \in Nat, p <= q, NEW n \in Nat \ {0}
    PROVE  p \div n <= q \div n
  <1> DEFINE x == p \div n
             y == q \div n
  <1>1. x \in Nat /\ y \in Nat /\ n * x <= p /\ q < n * y + n
    BY DivBounds
  <1> HIDE DEF x, y
  <1>2. ASSUME y < x PROVE FALSE
    <2>1. n * (y + 1) <= n * x
      BY <1>1, <1>2, ProductsGrow
    <2>2. n * (y + 1) = n * y + n
      BY <1>1
    <2> QED
      BY <1>1, <2>1, <2>2
  <1> QED
    BY <1>1, <1>2 DEF x, y

\* The ACUs of a running session grow with its ticks, up to those at its end.
LEMMA AcusGrow ==
    ASSUME NEW acus \in Nat, NEW ticks \in Nat \ {0}, NEW t \in Nat, NEW u \in Nat,
           t <= u, t <= ticks
    PROVE  /\ (acus * t) \div ticks \in Nat
           /\ (acus * t) \div ticks <= (acus * u) \div ticks
           /\ (acus * t) \div ticks <= acus
  <1>1. acus * t \in Nat /\ acus * u \in Nat /\ acus * t <= acus * u
    BY ProductsGrow
  <1>2. acus * t <= acus * ticks /\ acus * ticks \in Nat
    BY ProductsGrow
  <1>3. (acus * t) \div ticks \in Nat /\ ticks * ((acus * t) \div ticks) <= acus * t
    BY <1>1, DivBounds
  <1>4. (acus * t) \div ticks <= (acus * u) \div ticks
    BY <1>1, QuotientsGrow
  <1>5. (acus * t) \div ticks <= acus
    <2> DEFINE x == (acus * t) \div ticks
    <2>1. x \in Nat /\ ticks * x <= acus * ticks
      BY <1>1, <1>2, <1>3
    <2> HIDE DEF x
    <2>2. ASSUME acus < x PROVE FALSE
      <3>1. ticks * (acus + 1) <= ticks * x
        BY <2>1, <2>2, ProductsGrow
      <3>2. ticks * (acus + 1) = acus * ticks + ticks
        OBVIOUS
      <3>3. ticks * x \in Nat /\ ticks > 0
        BY <2>1
      <3> QED
        BY <1>2, <2>1, <3>1, <3>2, <3>3
    <2> QED
      BY <2>1, <2>2 DEF x
  <1> QED
    BY <1>3, <1>4, <1>5

\* A session n GETs after its POST.
Plays(p, s, n) == p = Fresh \/ \E tick \in 1..n : p = Shown(s, tick)

LEMMA PlaysOn ==
    ASSUME NEW s \in Scenario, s.terminal_status # "new",
           NEW n \in Nat, NEW tick \in Nat \ {0}, n <= tick, NEW p, Plays(p, s, n)
    PROVE  p = Shown(s, tick) \/ MayBecome(p, Shown(s, tick))
  <1> DEFINE ticks == s.ticks_to_terminal
             q == Shown(s, tick)
  <1>1. /\ ticks \in Nat /\ s.acus \in Nat
        /\ s.pr_on_tick \in Nat \cup {None}
    BY DEF Scenario
  <1>2. tick < ticks =>
           q = Running(s, tick) /\ ticks \in Nat \ {0}
           /\ (s.acus * tick) \div ticks \in Nat
    BY <1>1, AcusGrow DEF Shown
  <1>3. ~(tick < ticks) => q = Terminal(s)
    BY DEF Shown
  <1>4. CASE p = Fresh
    <2>1. q.status # "new" /\ q.acus \in Nat
      BY <1>1, <1>2, <1>3 DEF Running, Terminal
    <2> HIDE DEF q
    <2>2. MayBecome(p, q)
      BY <1>4, <2>1 DEF MayBecome, Ended, Fresh
    <2> QED
      BY <2>2 DEF q
  <1>5. ASSUME NEW t \in 1..n, p = Shown(s, t)
        PROVE  p = q \/ MayBecome(p, q)
    <2>1. t \in Nat \ {0} /\ t <= tick
      OBVIOUS
    <2>2. CASE ~(t < ticks)
      <3>1. p = Terminal(s) /\ ~(tick < ticks)
        BY <1>1, <1>5, <2>1, <2>2 DEF Shown
      <3> QED
        BY <1>3, <3>1
    <2>3. CASE t < ticks
      <3>1. p = Running(s, t) /\ ticks \in Nat \ {0} /\ t <= ticks
        BY <1>1, <1>5, <2>1, <2>3 DEF Shown
      <3>2. /\ (s.acus * t) \div ticks \in Nat
            /\ (s.acus * t) \div ticks <= (s.acus * tick) \div ticks
            /\ (s.acus * t) \div ticks <= s.acus
        BY <1>1, <2>1, <3>1, AcusGrow
      <3>3. /\ p.status = "running" /\ p.structured = None
            /\ p.acus = (s.acus * t) \div ticks
            /\ p.pulls = (s.pr_on_tick # None /\ t >= s.pr_on_tick /\ NamesPullRequest(s))
        BY <3>1 DEF Running
      <3>4. q.status # "new" /\ q.acus >= p.acus
        <4>1. CASE tick < ticks
          BY <1>2, <3>2, <3>3, <4>1 DEF Running
        <4>2. CASE ~(tick < ticks)
          BY <1>1, <1>3, <3>2, <3>3, <4>2 DEF Terminal
        <4> QED
          BY <4>1, <4>2
      <3>5. p.pulls => q.pulls
        <4>1. CASE tick < ticks
          <5>1. t >= s.pr_on_tick /\ s.pr_on_tick # None => tick >= s.pr_on_tick
            BY <1>1, <2>1
          <5>2. q.pulls = (s.pr_on_tick # None /\ tick >= s.pr_on_tick /\ NamesPullRequest(s))
            BY <1>2, <4>1 DEF Running
          <5> QED
            BY <3>3, <5>1, <5>2
        <4>2. CASE ~(tick < ticks)
          <5>1. q.pulls = NamesPullRequest(s)
            BY <1>3, <4>2 DEF Terminal
          <5> QED
            BY <3>3, <5>1
        <4> QED
          BY <4>1, <4>2
      <3> HIDE DEF q
      <3>6. MayBecome(p, q)
        BY <3>3, <3>4, <3>5 DEF MayBecome, Ended
      <3> QED
        BY <3>6
    <2> QED
      BY <2>2, <2>3
  <1> QED
    BY <1>4, <1>5 DEF Plays

\* Only sessions there are are asked for: by the poll of a tracked row, or by a
\* create that was answered 409; and what they show is their scenario's.
Asking(f) ==
    call[f].pc = "done" \/ (call[f].pc # "idle" /\ call[f].method = "GET")

Played ==
    /\ \A f \in Findings : Asking(f) => sessions[f] # None
    /\ \A f \in Findings : record[f] # None /\ record[f].tracked => sessions[f] # None
    /\ \A f \in Findings : sessions[f] # None => Plays(sessions[f], scenario[f], polls[f])

LEMMA PlayedInit == SimulationInit => Played
  <1> SUFFICES ASSUME SimulationInit PROVE Played
    OBVIOUS
  <1>1. \A f \in Findings : call[f].pc = "idle" /\ record[f] = None /\ sessions[f] = None
    BY IdsAreFindings DEF SimulationInit, ClientInit, ScheduleInit, FakeInit, NoCall
  <1> QED
    BY <1>1 DEF Played, Asking

\* Rows and calls change, sessions do not.
LEMMA PlayedElse ==
    ASSUME Played, UNCHANGED <<sessions, scenario, polls>>,
           \A f \in Findings : Asking(f)' => Asking(f),
           \A f \in Findings :
              record'[f] # None /\ record'[f].tracked =>
                 \/ record[f] # None /\ record[f].tracked
                 \/ Asking(f)
    PROVE  Played'
  BY DEF Played

LEMMA SubjectPlayed ==
    ASSUME Sound, Played, NEW c \in Callers, call[c].pc = "sent", call[c].method = "GET"
    PROVE  sessions[Subject(c)] # None
  <1>1. CASE c = Poller
    BY <1>1, Typed DEF Subject, Sound, LoopSound, RowsSound, Played, Loop
  <1>2. CASE c # Poller
    BY <1>2 DEF Subject, Played, Asking
  <1> QED
    BY <1>1, <1>2

\* What a GET leaves: one more poll, and what it shows.
LEMMA GetPlays ==
    ASSUME Sound, NEW id \in Findings, Get(id)
    PROVE  /\ \A f \in Findings : f # id => sessions'[f] = sessions[f] /\ polls'[f] = polls[f]
           /\ polls'[id] \in Nat /\ polls[id] <= polls'[id]
           /\ \/ UNCHANGED sessions
              \/ /\ sessions' = [sessions EXCEPT ![id] = NextPayload(id)]
                 /\ polls'[id] = GetTick(id)
           /\ UNCHANGED scenario
  <1>1. /\ polls[id] \in 0..MaxPolls /\ MaxPolls \in Nat \ {0}
        /\ GetTick(id) \in 1..MaxPolls
    BY Typed, ShownIsAnswer, FakeAssumption DEF FakeAssumption
  <1>2. polls[id] <= GetTick(id)
    BY <1>1 DEF GetTick
  <1>3. GetStatus(id) = 200 => token
    BY DEF GetStatus
  <1> QED
    BY <1>1, <1>2, <1>3, Typed DEF Get, NextPayload

LEMMA PlaysLater ==
    ASSUME NEW p, NEW s, NEW n \in Nat, NEW m \in Nat, n <= m, Plays(p, s, n)
    PROVE  Plays(p, s, m)
  BY DEF Plays

LEMMA PlayedRequest ==
    ASSUME Sound, Played, NEW c \in Callers, Request(c)
    PROVE  Played'
  <1> DEFINE id == Subject(c)
  <1>1. /\ call[c].pc = "sent" /\ call \in [Callers -> Call] /\ id \in Findings
        /\ UNCHANGED <<record, loop, scenario>>
        /\ \A d \in Callers : d # c => call'[d] = call[d]
        /\ \A f \in Findings : sessions[f] # None => sessions'[f] # None
    BY SubjectIsFinding, Typed, RequestEffect, AnswerEffect DEF Request
  <1>2. /\ None \notin Payload /\ Fresh \in Payload /\ NextPayload(id) \in Payload
        /\ \A f \in Findings : polls[f] \in Nat
    BY <1>1, Typed, ShownIsAnswer, ClientAssumption, SimulationAssumption, FakeAssumption
       DEF ClientAssumption, SimulationAssumption, FakeAssumption
  <1>3. c # Poller => c \in Findings /\ id = c
    BY DEF Subject
  <1> HIDE DEF id
  <1>4. ASSUME NEW f \in Findings, Asking(f)', f # c
        PROVE  sessions'[f] # None
    BY <1>1, <1>4 DEF Played, Asking
  <1>5. CASE RequestLost(c)
    <2>1. UNCHANGED <<sessions, polls>> /\ NetworkError(c)
      BY <1>5 DEF RequestLost, fakeVars
    <2>2. ReplyTo(c, 503, None)
      BY <2>1 DEF ReplyTo
    <2>3. call'[c].pc # "done" /\ call'[c].method = call[c].method
      BY <1>1, <2>2, ReplyEffect
    <2>4. Asking(c)' /\ c # Poller => sessions'[c] # None
      <3> SUFFICES ASSUME Asking(c)', c # Poller PROVE sessions'[c] # None
        OBVIOUS
      <3>1. call[c].method = "GET"
        BY <2>3 DEF Asking
      <3> QED
        BY <1>1, <1>3, <3>1 DEF Played, Asking
    <2> QED
      BY <1>1, <1>3, <1>4, <2>1, <2>4 DEF Played
  <1>6. CASE Post(c)
    <2>1. ReplyTo(c, PostStatus(id), Fresh) /\ call[c].method = "POST" /\ Create(id)
      BY <1>6 DEF Post, id
    <2>2. c # Poller /\ UNCHANGED polls
      BY <1>1, <2>1 DEF Sound, LoopSound, Create
    <2>3. /\ call'[c].pc = "done" => PostStatus(id) = 200
          /\ call'[c].method = call[c].method \/ PostStatus(id) = 409
      BY <1>1, <2>1, ReplyEffect
    <2>4. /\ PostStatus(id) = 200 => sessions'[id] = Fresh
          /\ \A f \in Findings : sessions'[f] = sessions[f] \/ sessions'[f] = Fresh
      BY <1>1, <2>1, Typed DEF Create
    <2>5. PostStatus(id) = 409 => sessions[id] # None
      BY DEF PostStatus
    <2>6. Asking(c)' => sessions'[c] # None
      BY <1>1, <1>2, <1>3, <2>1, <2>2, <2>3, <2>4, <2>5 DEF Asking
    <2>7. \A f \in Findings : sessions'[f] # None => Plays(sessions'[f], scenario[f], polls[f])
      BY <2>4 DEF Played, Plays
    <2> QED
      BY <1>1, <1>3, <1>4, <2>2, <2>6, <2>7 DEF Played
  <1>7. CASE Fetch(c)
    <2>1. call[c].method = "GET" /\ Get(id)
      BY <1>7 DEF Fetch, id
    <2>2. sessions[id] # None
      BY <1>1, <2>1, SubjectPlayed DEF id
    <2>3. Asking(c)' /\ c # Poller => sessions'[c] # None
      BY <1>1, <1>3, <2>2
    <2>4. ASSUME NEW f \in Findings, sessions'[f] # None
          PROVE  Plays(sessions'[f], scenario[f], polls'[f])
      <3>1. CASE f # id
        BY <1>1, <2>1, <2>4, <3>1, GetPlays DEF Played
      <3>2. CASE f = id /\ UNCHANGED sessions
        <4>1. Plays(sessions[id], scenario[id], polls[id])
          BY <1>1, <2>2 DEF Played
        <4> QED
          BY <1>1, <1>2, <2>1, <3>2, <4>1, GetPlays, PlaysLater
      <3>3. CASE /\ f = id
                 /\ sessions' = [sessions EXCEPT ![id] = NextPayload(id)]
                 /\ polls'[id] = GetTick(id)
        <4>1. sessions'[id] = Shown(scenario[id], GetTick(id))
          BY <1>1, <3>3, Typed DEF NextPayload
        <4>2. GetTick(id) \in 1..polls'[id]
          BY <1>1, <3>3, ShownIsAnswer, FakeAssumption DEF FakeAssumption
        <4> QED
          BY <3>3, <4>1, <4>2 DEF Plays
      <3> QED
        BY <1>1, <2>1, <3>1, <3>2, <3>3, GetPlays
    <2> QED
      BY <1>1, <1>3, <1>4, <2>3, <2>4 DEF Played
  <1> QED
    BY <1>5, <1>6, <1>7 DEF Request

LEMMA PlayedStep == Sound /\ Played /\ [SimulationNext]_simulationVars => Played'
  <1> SUFFICES ASSUME Sound, Played, [SimulationNext]_simulationVars
               PROVE  Played'
    OBVIOUS
  <1>1. ASSUME NEW c \in Callers, Request(c)
        PROVE  Played'
    BY <1>1, PlayedRequest
  <1>2. ASSUME NEW c \in Callers, Retrying(c)
        PROVE  Played'
    <2>1. UNCHANGED <<record, sessions, scenario, polls>>
      BY <1>2 DEF Retrying, fakeVars, scheduleVars
    <2>2. /\ call[c].pc = "asleep" /\ call'[c].pc = "sent"
          /\ call'[c].method = call[c].method
          /\ \A d \in Callers : d # c => call'[d] = call[d]
      BY <1>2, Typed DEF Retrying, Wake, Become, Call
    <2>3. \A f \in Findings : Asking(f)' => Asking(f)
      BY <2>2 DEF Asking
    <2> QED
      BY <2>1, <2>3, PlayedElse
  <1>3. ASSUME NEW f \in Findings, Claim(f), UNCHANGED <<now, fakeVars, trial, restarts>>
        PROVE  Played'
    <2> DEFINE row == [outcome |-> "in_progress", tracked |-> FALSE, created_at |-> now,
                       next_poll_at |-> None, poll_attempts |-> 0]
    <2>1. Write(f, row) /\ Send(f, "POST") /\ UNCHANGED <<sessions, scenario, polls>>
      BY <1>3 DEF Claim, fakeVars
    <2>2. row \in Record /\ ~row.tracked
      BY Typed DEF Record, Outcomes
    <2> HIDE DEF row
    <2>3. record'[f] = row /\ \A g \in Findings : g # f => record'[g] = record[g]
      BY <2>1, <2>2, RowTyped
    <2>4. /\ \A d \in Callers : d # f => call'[d] = call[d]
          /\ call'[f].pc = "sent" /\ call'[f].method = "POST"
      BY <2>1, SentCall
    <2>5. \A g \in Findings : Asking(g)' => Asking(g)
      BY <2>4 DEF Asking
    <2> QED
      BY <2>1, <2>2, <2>3, <2>5, PlayedElse
  <1>4. ASSUME NEW f \in Findings, Created(f), UNCHANGED <<now, fakeVars, trial, restarts>>
        PROVE  Played'
    <2>1. UNCHANGED <<sessions, scenario, polls>> /\ Taken(f)
      BY <1>4 DEF Created, fakeVars
    <2>2. /\ \A d \in Callers : d # f => call'[d] = call[d]
          /\ call'[f].pc = "idle"
      BY <2>1, TakenCall
    <2>3. \A g \in Findings : Asking(g)' => Asking(g)
      BY <2>2 DEF Asking
    <2>4. record[f] \in Record
      BY <1>4, Typed DEF Created, Sound, RowsSound
    <2>5. \A g \in Findings : g # f => record'[g] = record[g]
      BY <1>4, Typed DEF Created, Write
    <2>6. record'[f].tracked => record[f].tracked \/ call[f].pc = "done"
      <3>1. CASE UNCHANGED record
        BY <3>1
      <3>2. CASE call[f].pc = "done"
        BY <3>2
      <3>3. CASE Write(f, Settle(record[f], "errored"))
        <4>1. record'[f] = Settle(record[f], "errored")
          BY <3>3, Typed DEF Write
        <4>2. "errored" \in Outcomes
          BY DEF Outcomes, TERMINAL_OUTCOMES
        <4> QED
          BY <2>4, <4>1, <4>2, RowKept
      <3> QED
        BY <1>4, <3>1, <3>2, <3>3 DEF Created
    <2>7. record[f] # None
      BY <2>4
    <2> QED
      BY <2>1, <2>3, <2>5, <2>6, <2>7, PlayedElse DEF Asking
  <1>5. ASSUME Polled, UNCHANGED <<now, fakeVars, trial, restarts>>
        PROVE  Played'
    <2>1. PICK f \in Findings, row \in Record :
              /\ f = loop.polling
              /\ record[f] \in Record /\ record[f].tracked
              /\ PollWrites(record[f], row)
              /\ Write(f, row)
              /\ Taken(Poller)
              /\ loop' \in Loop
              /\ loop'.polling = None /\ loop'.todo \subseteq loop.todo
              /\ loop'.wake # None => loop'.todo = {}
      BY <1>5, PolledEffect
    <2>2. record'[f] = row /\ \A g \in Findings : g # f => record'[g] = record[g]
      BY <2>1, RowTyped
    <2>3. \A g \in Findings : call'[g] = call[g]
      BY <2>1, TakenCall
    <2>4. UNCHANGED <<sessions, scenario, polls>> /\ record[f] # None
      BY <1>5, <2>1 DEF fakeVars
    <2>5. \A g \in Findings : Asking(g)' => Asking(g)
      BY <2>3 DEF Asking
    <2> QED
      BY <2>1, <2>2, <2>4, <2>5, PlayedElse
  <1>6. ASSUME Tick \/ Rest \/ \E f \in Findings : PollNext(f),
               UNCHANGED <<now, fakeVars, trial, restarts>>
        PROVE  Played'
    <2>1. UNCHANGED <<record, sessions, scenario, polls>>
      BY <1>6 DEF Tick, Rest, PollNext, fakeVars
    <2>2. \A g \in Findings : call'[g] = call[g]
      <3>1. CASE Tick \/ Rest
        BY <3>1 DEF Tick, Rest
      <3>2. ASSUME NEW f \in Findings, PollNext(f)
            PROVE  \A g \in Findings : call'[g] = call[g]
        BY <3>2, SentCall DEF PollNext
      <3> QED
        BY <1>6, <3>1, <3>2
    <2>3. \A g \in Findings : Asking(g)' => Asking(g)
      BY <2>2 DEF Asking
    <2> QED
      BY <2>1, <2>3, PlayedElse
  <1>7. CASE Restarts
    <2>1. UNCHANGED <<record, sessions, scenario, polls>>
      BY <1>7 DEF Restarts, ScheduleRestart, fakeVars
    <2>2. \A f \in Findings : ~Asking(f)'
      BY <1>7 DEF Restarts, ScheduleRestart, Dies, NoCall, Asking
    <2> QED
      BY <2>1, <2>2, PlayedElse
  <1>8. CASE ClockMoves \/ UNCHANGED simulationVars
    <2>1. UNCHANGED <<call, record, sessions, scenario, polls>>
      BY <1>8 DEF ClockMoves, TimePasses, simulationVars, clientVars, scheduleVars, fakeVars
    <2>2. \A f \in Findings : Asking(f)' => Asking(f)
      BY <2>1 DEF Asking
    <2> QED
      BY <2>1, <2>2, PlayedElse
  <1> QED
    BY <1>1, <1>2, <1>3, <1>4, <1>5, <1>6, <1>7, <1>8
       DEF SimulationNext, Filing, Polling, ClockEnds

\* A request makes a session, moves it as the API may, or leaves it.
LEMMA RequestMoves ==
    ASSUME Sound, Played, NEW c \in Callers, Request(c),
           \A script \in Scripts : \A id \in Ids : script[id].terminal_status # "new"
    PROVE  API!Next \/ UNCHANGED sessions
  <1> DEFINE id == Subject(c)
             p == sessions[id]
             q == NextPayload(id)
  <1>1. call[c].pc = "sent" /\ id \in Ids /\ id \in Findings
    BY SubjectIsFinding, IdsAreFindings DEF Request
  <1>2. CASE RequestLost(c)
    BY <1>2 DEF RequestLost, fakeVars
  <1>3. CASE Post(c)
    <2>1. Create(id)
      BY <1>3 DEF Post
    <2> HIDE DEF id
    <2>2. CASE PostStatus(id) = 200
      <3>1. sessions[id] = None /\ sessions' = [sessions EXCEPT ![id] = Fresh]
        BY <2>1, <2>2 DEF Create, PostStatus
      <3>2. API!Create(id)
        BY <3>1 DEF API!Create, Fresh, API!Fresh
      <3> QED
        BY <1>1, <3>2 DEF API!Next
    <2>3. CASE PostStatus(id) # 200
      BY <2>1, <2>3 DEF Create
    <2> QED
      BY <2>2, <2>3
  <1>4. CASE Fetch(c)
    <2>1. call[c].method = "GET" /\ Get(id)
      BY <1>4 DEF Fetch
    <2>2. p # None /\ Plays(p, scenario[id], polls[id])
      BY <1>1, <2>1, SubjectPlayed DEF Played
    <2>3. /\ polls[id] \in Nat /\ GetTick(id) \in Nat \ {0} /\ polls[id] <= GetTick(id)
          /\ scenario[id] \in Scenario /\ scenario[id].terminal_status # "new"
      <3>1. /\ polls[id] \in 0..MaxPolls /\ MaxPolls \in Nat \ {0}
            /\ GetTick(id) \in 1..MaxPolls
        BY <1>1, Typed, ShownIsAnswer, FakeAssumption DEF FakeAssumption
      <3>2. polls[id] <= GetTick(id)
        BY <3>1 DEF GetTick
      <3>3. scenario \in Scripts /\ scenario \in [Findings -> Scenario]
        BY Typed
      <3> QED
        BY <1>1, <3>1, <3>2, <3>3
    <2>4. p = q \/ MayBecome(p, q)
      BY <2>2, <2>3, PlaysOn DEF NextPayload
    <2> HIDE DEF id, p, q
    <2>5. sessions \in [Findings -> Payload \cup {None}] /\ p = sessions[id]
      BY Typed DEF p
    <2>6. UNCHANGED sessions \/ sessions' = [sessions EXCEPT ![id] = q]
      BY <1>1, <2>1, GetPlays DEF q
    <2>7. CASE sessions' = [sessions EXCEPT ![id] = q] /\ MayBecome(p, q)
      <3>1. sessions'[id] = q /\ \A other \in Ids \ {id} : sessions'[other] = sessions[other]
        BY <1>1, <2>5, <2>7, IdsAreFindings
      <3>2. API!MayBecome(p, q)
        BY <2>7 DEF MayBecome, Ended, API!MayBecome, API!Ended
      <3>3. API!Move(id)
        BY <2>2, <2>5, <3>1, <3>2 DEF API!Move
      <3> QED
        BY <1>1, <3>3 DEF API!Next
    <2>8. CASE sessions' = [sessions EXCEPT ![id] = q] /\ p = q
      BY <1>1, <2>5, <2>8
    <2> QED
      BY <2>4, <2>6, <2>7, <2>8
  <1> QED
    BY <1>2, <1>3, <1>4 DEF Request

(***************************************************************************)
(* The scripted API the service is demonstrated and tested with does what  *)
(* the models take the Devin API to do, lost requests, retries, 409s and   *)
(* restarts included: for all scenarios that do not end as a session       *)
(* begins (fake_devin.py).                                                 *)
(***************************************************************************)
THEOREM FakeIsAPI ==
    ASSUME \A script \in Scripts : \A id \in Ids : script[id].terminal_status # "new"
    PROVE  SimulationSpec => FollowsAPI
  <1>1. SimulationInit => API!Init
    BY DEF SimulationInit, FakeInit, API!Init
  <1>2. Sound /\ Played /\ [SimulationNext]_simulationVars => [API!Next]_sessions
    <2> SUFFICES ASSUME Sound, Played, [SimulationNext]_simulationVars
                 PROVE  API!Next \/ UNCHANGED sessions
      OBVIOUS
    <2>1. ASSUME NEW c \in Callers, Request(c)
          PROVE  API!Next \/ UNCHANGED sessions
      BY <2>1, RequestMoves
    <2>2. CASE UNCHANGED fakeVars
      BY <2>2 DEF fakeVars
    <2> QED
      BY <2>1, <2>2
         DEF SimulationNext, Retrying, Filing, Polling, Restarts, ClockMoves, ClockEnds,
             simulationVars
  <1>3. SimulationSpec => []Played
    BY PlayedInit, PlayedStep, SoundAlways, PTL DEF SimulationSpec
  <1> QED
    BY <1>1, <1>2, <1>3, SoundAlways, PTL DEF SimulationSpec, FollowsAPI, API!Spec

-----------------------------------------------------------------------------
(***************************************************************************)
(* Who waits how long: for the client, and between two ticks.              *)
(***************************************************************************)
\* Also when it is over, until its caller takes it, a call is within its bound.
CallsOngoing ==
    \A c \in Callers :
        call[c].pc # "idle" =>
            /\ call[c].began <= now
            /\ now <= call[c].began + call[c].requests * RequestBound

\* A poll is one request, of the oldest record in hand; a rest is as long as the
\* interval.
PollsOngoing ==
    /\ loop.polling # None =>
          /\ call[Poller].pc # "idle"
          /\ \A other \in loop.todo :
                record[loop.polling].created_at <= record[other].created_at
    /\ call[Poller].pc # "idle" => call[Poller].requests = 1
    /\ call[Poller].pc = "done" /\ call[Poller].reply = None => loop.polling \in trial.garbled
    /\ loop.wake # None => now <= loop.wake /\ loop.wake <= now + interval_seconds

\* A create begins with its claim, and its row is not polled before.
CreatesOngoing ==
    \A f \in Findings :
        /\ call[f].pc # "idle" => call[f].began = record[f].created_at
        /\ record[f] # None /\ ~record[f].tracked => record[f].next_poll_at = None

Ongoing == CallsOngoing /\ PollsOngoing /\ CreatesOngoing

LEMMA OngoingInit == SimulationInit => Ongoing
  <1> SUFFICES ASSUME SimulationInit PROVE Ongoing
    OBVIOUS
  <1>1. /\ \A c \in Callers : call[c].pc = "idle"
        /\ \A f \in Findings : record[f] = None
        /\ loop = Resting(0) /\ now = 0
    BY DEF SimulationInit, ClientInit, ScheduleInit, NoCall
  <1>2. loop.wake = 0 /\ loop.polling = None /\ Poller \in Callers
    BY <1>1 DEF Resting
  <1> QED
    BY <1>1, <1>2 DEF Ongoing, CallsOngoing, PollsOngoing, CreatesOngoing

LEMMA InTimeLater == ClientInv' => CallEnds'
  BY InTime, PTL

LEMMA OngoingRequest ==
    ASSUME Sound, Sound', Ongoing, NEW c \in Callers, Request(c)
    PROVE  Ongoing'
  <1>1. /\ call[c].pc = "sent"
        /\ \A d \in Callers : d # c => call'[d] = call[d]
        /\ call'[c].pc # "idle" /\ call'[c].began = call[c].began
        /\ \/ call'[c].requests = call[c].requests
           \/ call[c].method = "POST" /\ call'[c].pc = "sent"
        /\ UNCHANGED <<now, record, loop, trial>>
    BY RequestEffect
  <1>2. /\ Poller \in Callers /\ Findings \subseteq Callers /\ Poller \notin Findings
    OBVIOUS
  <1>3. CallsOngoing'
    <2> SUFFICES ASSUME NEW d \in Callers, call'[d].pc # "idle"
                 PROVE  /\ call'[d].began <= now'
                        /\ now' <= call'[d].began + call'[d].requests * RequestBound
      BY DEF CallsOngoing
    <2>1. CASE d # c
      BY <1>1, <2>1 DEF Ongoing, CallsOngoing
    <2>2. CASE d = c /\ call'[c].requests = call[c].requests
      BY <1>1, <2>2 DEF Ongoing, CallsOngoing
    <2>3. CASE d = c /\ call'[c].pc = "sent"
      <3>1. CallEnds'
        BY InTimeLater DEF Sound
      <3> QED
        BY <1>1, <2>3, <3>1 DEF CallEnds, Waiting, Ongoing, CallsOngoing
    <2> QED
      BY <1>1, <2>1, <2>2, <2>3
  <1>4. PollsOngoing'
    <2>1. CASE c # Poller
      BY <1>1, <1>2, <2>1 DEF Ongoing, PollsOngoing
    <2>2. CASE c = Poller
      <3>1. call[c].method = "GET"
        BY <1>1, <2>2 DEF Sound, LoopSound
      <3>2. call'[c].pc = "done" /\ call'[c].reply = None => loop.polling \in trial.garbled
        BY <2>2, AnswerEffect
      <3> QED
        BY <1>1, <2>2, <3>1, <3>2 DEF Ongoing, PollsOngoing
    <2> QED
      BY <2>1, <2>2
  <1>5. CreatesOngoing'
    <2>1. \A f \in Findings : call'[f].began = call[f].began
                              /\ (call'[f].pc # "idle" => call[f].pc # "idle")
      BY <1>1
    <2> QED
      BY <1>1, <2>1 DEF Ongoing, CreatesOngoing
  <1> QED
    BY <1>3, <1>4, <1>5 DEF Ongoing

LEMMA OngoingRetrying ==
    ASSUME Sound, Sound', Ongoing, NEW c \in Callers, Retrying(c)
    PROVE  Ongoing'
  <1>1. UNCHANGED <<now, record, loop, trial>>
    BY DEF Retrying, fakeVars, scheduleVars
  <1>2. /\ call[c].pc = "asleep" /\ call'[c].pc = "sent"
        /\ call'[c].began = call[c].began /\ call'[c].requests = call[c].requests
        /\ \A d \in Callers : d # c => call'[d] = call[d]
    BY Typed DEF Retrying, Wake, Become, Call
  <1>3. Poller \in Callers /\ Findings \subseteq Callers
    OBVIOUS
  <1>4. CallsOngoing'
    BY <1>1, <1>2 DEF Ongoing, CallsOngoing
  <1>5. PollsOngoing'
    BY <1>1, <1>2, <1>3 DEF Ongoing, PollsOngoing
  <1>6. CreatesOngoing'
    BY <1>1, <1>2, <1>3 DEF Ongoing, CreatesOngoing
  <1> QED
    BY <1>4, <1>5, <1>6 DEF Ongoing

\* A call that begins.
LEMMA SentOngoing ==
    ASSUME Sound, NEW c \in Callers, NEW method \in {"POST", "GET"}, Send(c, method)
    PROVE  /\ call'[c].began = now /\ call'[c].requests = 1 /\ call'[c].pc = "sent"
           /\ call'[c].began <= now
           /\ now <= call'[c].began + call'[c].requests * RequestBound
           /\ \A d \in Callers : d # c => call'[d] = call[d]
  <1>1. /\ call'[c].began = now /\ call'[c].requests = 1 /\ call'[c].pc = "sent"
        /\ \A d \in Callers : d # c => call'[d] = call[d]
    BY Typed DEF Send, Become, NoCall
  <1>2. now \in Nat /\ RequestBound \in Nat
    BY Typed, Bounds
  <1> QED
    BY <1>1, <1>2

LEMMA OngoingClaim ==
    ASSUME Sound, Ongoing, NEW f \in Findings, Claim(f),
           UNCHANGED <<now, fakeVars, trial, restarts>>
    PROVE  Ongoing'
  <1> DEFINE row == [outcome |-> "in_progress", tracked |-> FALSE, created_at |-> now,
                     next_poll_at |-> None, poll_attempts |-> 0]
  <1>1. row \in Record /\ row.next_poll_at = None /\ row.created_at = now
    BY Typed DEF Record, Outcomes
  <1>2. Write(f, row) /\ Send(f, "POST") /\ record[f] = None /\ UNCHANGED <<now, loop, trial>>
    BY DEF Claim
  <1> HIDE DEF row
  <1>3. record'[f] = row /\ \A g \in Findings : g # f => record'[g] = record[g]
    BY <1>1, <1>2, RowTyped
  <1>4. /\ call'[f].began = now /\ call'[f].began <= now
        /\ now <= call'[f].began + call'[f].requests * RequestBound
        /\ \A d \in Callers : d # f => call'[d] = call[d]
    BY <1>2, SentOngoing
  <1>5. /\ Poller \in Callers /\ Poller # f /\ Findings \subseteq Callers
    OBVIOUS
  <1>6. CallsOngoing'
    BY <1>2, <1>4 DEF Ongoing, CallsOngoing
  <1>7. PollsOngoing'
    <2>1. \A g \in Findings : g \in loop.todo \/ g = loop.polling => g # f
      BY <1>2 DEF Sound, RowsSound
    <2>2. loop.todo \subseteq Findings /\ loop.polling \in Findings \cup {None}
      BY Typed DEF Loop
    <2> QED
      BY <1>2, <1>3, <1>4, <1>5, <2>1, <2>2 DEF Ongoing, PollsOngoing
  <1>8. CreatesOngoing'
    BY <1>1, <1>3, <1>4, <1>5 DEF Ongoing, CreatesOngoing
  <1> QED
    BY <1>6, <1>7, <1>8 DEF Ongoing

\* What a create leaves of its row.
LEMMA CreatedRow ==
    ASSUME Sound, NEW f \in Findings, Created(f)
    PROVE  /\ record[f] \in Record /\ ~record[f].tracked /\ record'[f] \in Record
           /\ record'[f].created_at = record[f].created_at
           /\ record'[f].next_poll_at = record[f].next_poll_at
           /\ \A g \in Findings : g # f => record'[g] = record[g]
           /\ \A c \in Callers : c # f => call'[c] = call[c]
           /\ call[f].pc # "idle" /\ call'[f].pc = "idle"
           /\ UNCHANGED loop
  <1>1. record[f] \in Record /\ ~record[f].tracked /\ call[f].pc # "idle"
    BY Typed DEF Created, Sound, RowsSound
  <1>2. Taken(f) /\ UNCHANGED loop
    BY DEF Created
  <1>3. \A c \in Callers : c # f => call'[c] = call[c]
    BY <1>2, TakenCall
  <1>4. call'[f].pc = "idle"
    BY <1>2, TakenCall
  <1>5. PICK row \in Record :
           /\ \/ Write(f, row)
              \/ UNCHANGED record /\ row = record[f]
           /\ row.created_at = record[f].created_at
           /\ SamePace(record[f], row)
    <2>1. "errored" \in Outcomes
      BY DEF Outcomes, TERMINAL_OUTCOMES
    <2>2. CASE Write(f, [record[f] EXCEPT !.tracked = TRUE])
      <3> DEFINE new == [record[f] EXCEPT !.tracked = TRUE]
      <3>1. new.created_at = record[f].created_at
        BY <1>1 DEF Record
      <3>2. new \in Record /\ SamePace(record[f], new)
        BY <1>1, <2>1, RowKept
      <3>3. Write(f, new)
        BY <2>2
      <3> HIDE DEF new
      <3> QED
        BY <3>1, <3>2, <3>3
    <2>3. CASE UNCHANGED record
      BY <1>1, <2>3 DEF SamePace
    <2>4. CASE Write(f, Settle(record[f], "errored"))
      <3> DEFINE new == Settle(record[f], "errored")
      <3>1. /\ new \in Record /\ new.created_at = record[f].created_at
            /\ SamePace(record[f], new)
        BY <1>1, <2>1, RowKept
      <3>2. Write(f, new)
        BY <2>4
      <3> HIDE DEF new
      <3> QED
        BY <3>1, <3>2
    <2> QED
      BY <2>2, <2>3, <2>4 DEF Created
  <1>6. record'[f] = row /\ \A g \in Findings : g # f => record'[g] = record[g]
    BY <1>1, <1>5, Typed, RowTyped
  <1> QED
    BY <1>1, <1>2, <1>3, <1>4, <1>5, <1>6 DEF SamePace

LEMMA OngoingCreated ==
    ASSUME Sound, Ongoing, NEW f \in Findings, Created(f),
           UNCHANGED <<now, fakeVars, trial, restarts>>
    PROVE  Ongoing'
  <1>1. /\ record[f] \in Record /\ ~record[f].tracked /\ record'[f] \in Record
        /\ record'[f].created_at = record[f].created_at
        /\ record'[f].next_poll_at = record[f].next_poll_at
        /\ \A g \in Findings : g # f => record'[g] = record[g]
        /\ \A c \in Callers : c # f => call'[c] = call[c]
        /\ call'[f].pc = "idle"
        /\ UNCHANGED <<now, loop, trial>>
    BY CreatedRow
  <1>2. Poller \in Callers /\ Poller # f /\ Findings \subseteq Callers /\ record[f] # None
    BY <1>1
  <1>3. CallsOngoing'
    BY <1>1 DEF Ongoing, CallsOngoing
  <1>4. PollsOngoing'
    <2>1. \A g \in Findings : record'[g].created_at = record[g].created_at
      BY <1>1
    <2>2. loop.todo \subseteq Findings /\ loop.polling \in Findings \cup {None}
      BY Typed DEF Loop
    <2> QED
      BY <1>1, <1>2, <2>1, <2>2 DEF Ongoing, PollsOngoing
  <1>5. CreatesOngoing'
    BY <1>1, <1>2 DEF Ongoing, CreatesOngoing
  <1> QED
    BY <1>3, <1>4, <1>5 DEF Ongoing

LEMMA OngoingLooping ==
    ASSUME Sound, Ongoing, Tick \/ Rest, UNCHANGED <<now, fakeVars, trial, restarts>>
    PROVE  Ongoing'
  <1>1. UNCHANGED <<now, call, record, trial>>
    BY DEF Tick, Rest, fakeVars
  <1>2. /\ loop'.polling = None
        /\ loop'.wake \in {None, now + interval_seconds}
        /\ call[Poller].pc = "idle"
    <2>1. CASE Tick
      <3>1. loop.wake # None /\ loop'.polling = None /\ loop'.wake = None
        BY <2>1, Typed DEF Tick
      <3> QED
        BY <3>1 DEF Sound, LoopSound
    <2>2. CASE Rest
      <3>1. loop.polling = None /\ loop'.polling = None /\ loop'.wake = now + interval_seconds
        BY <2>2 DEF Rest, Resting
      <3> QED
        BY <3>1 DEF Sound, LoopSound
    <2> QED
      BY <2>1, <2>2
  <1>3. now \in Nat /\ now <= now + interval_seconds
    BY Typed
  <1>4. PollsOngoing'
    BY <1>1, <1>2, <1>3 DEF PollsOngoing
  <1> QED
    BY <1>1, <1>4 DEF Ongoing, CallsOngoing, CreatesOngoing

LEMMA OngoingPollNext ==
    ASSUME Sound, Ongoing, NEW f \in Findings, PollNext(f),
           UNCHANGED <<now, fakeVars, trial, restarts>>
    PROVE  Ongoing'
  <1>1. /\ loop \in Loop /\ UNCHANGED <<now, record, trial>> /\ f \in loop.todo
        /\ loop' = [loop EXCEPT !.todo = @ \ {f}, !.polling = f]
        /\ Send(Poller, "GET")
        /\ \A other \in loop.todo : record[f].created_at <= record[other].created_at
    BY Typed DEF PollNext, fakeVars
  <1>2. loop'.wake = loop.wake /\ loop'.todo = loop.todo \ {f} /\ loop'.polling = f
    BY <1>1 DEF Loop
  <1>3. /\ call'[Poller].requests = 1 /\ call'[Poller].pc = "sent"
        /\ call'[Poller].began = now /\ call'[Poller].began <= now
        /\ now <= call'[Poller].began + call'[Poller].requests * RequestBound
        /\ \A c \in Callers : c # Poller => call'[c] = call[c]
    BY <1>1, SentOngoing
  <1>4. \A g \in Findings : g # Poller /\ call'[g] = call[g]
    BY <1>3
  <1>5. loop.wake = None
    BY <1>1 DEF Sound, LoopSound
  <1>6. CallsOngoing'
    BY <1>1, <1>3 DEF Ongoing, CallsOngoing
  <1>7. PollsOngoing'
    BY <1>1, <1>2, <1>3, <1>5 DEF PollsOngoing
  <1>8. CreatesOngoing'
    BY <1>1, <1>4 DEF Ongoing, CreatesOngoing
  <1> QED
    BY <1>6, <1>7, <1>8 DEF Ongoing

LEMMA OngoingPolled ==
    ASSUME Sound, Ongoing, Polled, UNCHANGED <<now, fakeVars, trial, restarts>>
    PROVE  Ongoing'
  <1>1. PICK f \in Findings, row \in Record :
              /\ f = loop.polling
              /\ record[f] \in Record /\ record[f].tracked
              /\ PollWrites(record[f], row)
              /\ Write(f, row)
              /\ Taken(Poller)
              /\ loop' \in Loop
              /\ loop'.polling = None /\ loop'.todo \subseteq loop.todo
              /\ loop'.wake # None => loop'.todo = {}
              /\ \/ loop'.wake = None /\ loop'.todo = loop.todo
                 \/ /\ loop'.wake = now + interval_seconds
                    /\ call[Poller].pc = "done" /\ call[Poller].reply = None
    BY PolledEffect
  <1>2. /\ record'[f] = row /\ \A g \in Findings : g # f => record'[g] = record[g]
        /\ row.tracked
    BY <1>1, RowTyped DEF PollWrites
  <1>3. /\ \A c \in Callers : c # Poller => call'[c] = call[c]
        /\ call'[Poller].pc = "idle"
    BY <1>1, TakenCall
  <1>4. \A g \in Findings : g # Poller /\ call'[g] = call[g]
    BY <1>3
  <1>5. now \in Nat /\ now <= now + interval_seconds /\ UNCHANGED <<now, trial>>
    BY Typed
  <1>6. call[f].pc = "idle"
    BY <1>1 DEF Sound, RowsSound
  <1>7. CallsOngoing'
    BY <1>3, <1>5 DEF Ongoing, CallsOngoing
  <1>8. PollsOngoing'
    BY <1>1, <1>3, <1>5 DEF PollsOngoing
  <1>9. CreatesOngoing'
    BY <1>2, <1>4, <1>6 DEF Ongoing, CreatesOngoing
  <1> QED
    BY <1>7, <1>8, <1>9 DEF Ongoing

LEMMA OngoingRestarts == ASSUME Sound, Ongoing, Restarts PROVE Ongoing'
  <1>1. loop' = Resting(now) /\ UNCHANGED <<now, record, trial>>
    BY DEF Restarts, ScheduleRestart
  <1>2. \A c \in Callers : call'[c].pc = "idle"
    BY DEF Restarts, ScheduleRestart, Dies, NoCall
  <1>3. /\ loop'.wake = now /\ loop'.polling = None
        /\ now \in Nat /\ now <= now + interval_seconds
        /\ Poller \in Callers /\ Findings \subseteq Callers
    BY <1>1, Typed DEF Resting
  <1>4. PollsOngoing'
    BY <1>1, <1>2, <1>3 DEF PollsOngoing
  <1>5. CreatesOngoing'
    BY <1>1, <1>2, <1>3 DEF Ongoing, CreatesOngoing
  <1> QED
    BY <1>2, <1>4, <1>5 DEF Ongoing, CallsOngoing

LEMMA OngoingClock == ASSUME Sound, Sound', Ongoing, ClockMoves PROVE Ongoing'
  <1>1. /\ now' = now + 1 /\ UNCHANGED <<call, record, loop, trial>> /\ Quiet
        /\ \A c \in Callers : call[c].pc # "idle" => Waiting(c)
    BY DEF ClockMoves, TimePasses, scheduleVars
  <1>2. CallEnds'
    BY InTimeLater DEF Sound
  <1>3. CallsOngoing'
    <2>1. now \in Nat /\ call \in [Callers -> Call]
      BY Typed
    <2>2. ASSUME NEW c \in Callers, call[c].pc # "idle"
          PROVE  call[c].began <= now'
      <3>1. call[c].began \in Nat /\ call[c].began <= now
        BY <2>1, <2>2 DEF Call, Ongoing, CallsOngoing
      <3> QED
        BY <1>1, <2>1, <3>1
    <2> QED
      BY <1>1, <1>2, <2>2 DEF CallEnds, CallsOngoing, Waiting
  <1>4. loop.wake # None => now < loop.wake /\ loop.wake \in Nat /\ now \in Nat
    BY <1>1, Typed DEF Quiet, Loop
  <1>5. PollsOngoing'
    BY <1>1, <1>4 DEF Ongoing, PollsOngoing
  <1> QED
    BY <1>1, <1>3, <1>5 DEF Ongoing, CreatesOngoing

LEMMA OngoingStep == Sound /\ Sound' /\ Ongoing /\ [SimulationNext]_simulationVars => Ongoing'
  <1> SUFFICES ASSUME Sound, Sound', Ongoing, [SimulationNext]_simulationVars
               PROVE  Ongoing'
    OBVIOUS
  <1>1. ASSUME NEW c \in Callers, Request(c) \/ Retrying(c)
        PROVE  Ongoing'
    BY <1>1, OngoingRequest, OngoingRetrying
  <1>2. ASSUME NEW f \in Findings, Filing(f)
        PROVE  Ongoing'
    BY <1>2, OngoingClaim, OngoingCreated DEF Filing
  <1>3. CASE Polling
    BY <1>3, OngoingLooping, OngoingPollNext, OngoingPolled DEF Polling
  <1>4. CASE Restarts
    BY <1>4, OngoingRestarts
  <1>5. CASE ClockMoves
    BY <1>5, OngoingClock
  <1>6. CASE UNCHANGED simulationVars
    <2>1. UNCHANGED <<now, call, record, loop, trial>>
      BY <1>6 DEF simulationVars, clientVars, scheduleVars
    <2> QED
      BY <2>1 DEF Ongoing, CallsOngoing, PollsOngoing, CreatesOngoing
  <1> QED
    BY <1>1, <1>2, <1>3, <1>4, <1>5, <1>6 DEF SimulationNext, ClockEnds

-----------------------------------------------------------------------------
(***************************************************************************)
(* Every session is settled by its deadline.                               *)
(***************************************************************************)
\* What n requests take, one after the other.
Cost(n) == n * RequestBound

Size == Cardinality(Findings)

\* A record that still runs comes due by DueBy.  The rest before the tick that
\* finds it due ends by RestBy: a tick that came too early for it polled all
\* others.
DueBy(f) == record[f].created_at + max_wait_seconds + backoff_cap_seconds

RestBy(f) == DueBy(f) + interval_seconds + Cost(Size - 1) + Cost(restarts * Size)

\* When the tick under way is over.
PollBy == IF loop.polling = None THEN now ELSE call[Poller].began + RequestBound
TickBy == PollBy + Cost(Cardinality(loop.todo))

InHand(f) == f \in loop.todo \/ f = loop.polling

OnCourse(f) ==
    /\ record[f].next_poll_at # None => record[f].next_poll_at <= DueBy(f)
    /\ loop.wake # None => loop.wake <= RestBy(f)
    /\ loop.wake = None /\ InHand(f) => TickBy <= RestBy(f) + Cost(Size)
    /\ loop.wake = None /\ ~InHand(f) => TickBy + interval_seconds <= RestBy(f)

\* The records SettledInTime speaks of.
Expected(f) == f \in Tracked \ trial.garbled /\ ~Blocked(f)

Punctual == \A f \in Findings : Expected(f) => OnCourse(f)

LEMMA Costs ==
    /\ \A n \in Nat : Cost(n) \in Nat
    /\ \A n, m \in Nat : Cost(n + m) = Cost(n) + Cost(m)
    /\ \A n, m \in Nat : n <= m => Cost(n) <= Cost(m)
    /\ Cost(0) = 0 /\ Cost(1) = RequestBound
  <1>1. RequestBound \in Nat
    BY Bounds
  <1>2. ASSUME NEW n \in Nat, NEW m \in Nat
        PROVE  /\ Cost(n) \in Nat
               /\ Cost(n + m) = Cost(n) + Cost(m)
               /\ n <= m => Cost(n) <= Cost(m)
    <2>1. n * RequestBound \in Nat /\ m * RequestBound \in Nat
      BY <1>1
    <2>2. (n + m) * RequestBound = n * RequestBound + m * RequestBound
      BY <1>1
    <2>3. n <= m => RequestBound * n <= RequestBound * m
      BY <1>1, ProductsGrow
    <2>4. RequestBound * n = n * RequestBound /\ RequestBound * m = m * RequestBound
      BY <1>1
    <2> QED
      BY <2>1, <2>2, <2>3, <2>4 DEF Cost
  <1>3. Cost(0) = 0 /\ Cost(1) = RequestBound
    BY <1>1 DEF Cost
  <1> QED
    BY <1>2, <1>3

\* What is left over of the findings.
LEMMA Sizes ==
    ASSUME IsFiniteSet(Findings), NEW S \in SUBSET Findings
    PROVE  /\ IsFiniteSet(S) /\ Size \in Nat
           /\ Cardinality(S) \in Nat /\ Cardinality(S) <= Size
           /\ \A f \in Findings \ S : Cardinality(S) + 1 <= Size
           /\ \A f, g \in Findings \ S : f # g => Cardinality(S) + 2 <= Size
           /\ \A f \in S : Cardinality(S) = Cardinality(S \ {f}) + 1
  <1>1. Size \in Nat
    BY FS_CardinalityType DEF Size
  <1>2. ASSUME NEW T \in SUBSET Findings
        PROVE  IsFiniteSet(T) /\ Cardinality(T) \in Nat /\ Cardinality(T) <= Size
    BY FS_Subset, FS_CardinalityType DEF Size
  <1>3. ASSUME NEW T \in SUBSET Findings, NEW f \in Findings \ T
        PROVE  Cardinality(T \cup {f}) = Cardinality(T) + 1
    BY <1>2, FS_AddElement
  <1>4. ASSUME NEW f \in Findings \ S
        PROVE  Cardinality(S) + 1 <= Size
    BY <1>2, <1>3
  <1>5. ASSUME NEW f \in Findings \ S, NEW g \in Findings \ S, f # g
        PROVE  Cardinality(S) + 2 <= Size
    <2>1. g \in Findings \ (S \cup {f}) /\ S \cup {f} \in SUBSET Findings
      BY <1>5
    <2>2. /\ Cardinality((S \cup {f}) \cup {g}) = Cardinality(S \cup {f}) + 1
          /\ Cardinality(S \cup {f}) = Cardinality(S) + 1
      BY <1>3, <2>1
    <2>3. (S \cup {f}) \cup {g} \in SUBSET Findings
      OBVIOUS
    <2>4. Cardinality((S \cup {f}) \cup {g}) <= Size /\ Cardinality(S) \in Nat
      BY <1>2, <2>3
    <2> QED
      BY <1>1, <2>2, <2>4
  <1>6. ASSUME NEW f \in S
        PROVE  Cardinality(S) = Cardinality(S \ {f}) + 1
    <2>1. IsFiniteSet(S) /\ Cardinality(S) \in Nat
      BY <1>2
    <2>2. Cardinality(S \ {f}) = Cardinality(S) - 1
      BY <2>1, FS_RemoveElement
    <2> QED
      BY <2>1, <2>2
  <1> QED
    BY <1>1, <1>2, <1>4, <1>5, <1>6

\* The moments above are natural numbers; the clock has not passed the poll's.
LEMMA CourseTyped ==
    ASSUME Sound, IsFiniteSet(Findings), NEW f \in Findings, record[f] # None
    PROVE  /\ now \in Nat /\ restarts \in Nat /\ Size \in Nat \ {0}
           /\ RequestBound \in Nat /\ interval_seconds \in Nat
           /\ record[f].created_at \in Nat
           /\ Cardinality(loop.todo) \in Nat /\ Cost(Cardinality(loop.todo)) \in Nat
           /\ DueBy(f) \in Nat /\ PollBy \in Nat /\ TickBy \in Nat
           /\ Cost(Size - 1) \in Nat /\ Cost(Size) \in Nat /\ Cost(restarts * Size) \in Nat
           /\ Cost(Size) = Cost(Size - 1) + RequestBound
           /\ RestBy(f) \in Nat
           /\ RestBy(f) = DueBy(f) + interval_seconds + Cost(Size - 1) + Cost(restarts * Size)
           /\ TickBy = PollBy + Cost(Cardinality(loop.todo))
           /\ DueBy(f) = record[f].created_at + max_wait_seconds + backoff_cap_seconds
  <1>1. now \in Nat /\ RequestBound \in Nat /\ record[f].created_at \in Nat
    BY Typed, Bounds DEF Record
  <1>2. restarts \in Nat
    <2>1. trial.restarts \in Nat /\ restarts \in 0..trial.restarts
      BY SimulationAssumption DEF SimulationAssumption, Trial, Sound, SimulationTypeOK
    <2> QED
      BY <2>1
  <1>3. Size \in Nat /\ Size # 0
    <2>1. Findings # {}
      OBVIOUS
    <2> QED
      BY <2>1, FS_EmptySet, FS_CardinalityType DEF Size
  <1>4. Cardinality(loop.todo) \in Nat
    <2>1. loop.todo \in SUBSET Findings
      BY Typed DEF Loop
    <2> QED
      BY <2>1, Sizes
  <1>5. Size - 1 \in Nat /\ restarts * Size \in Nat /\ (Size - 1) + 1 = Size
    BY <1>2, <1>3
  <1>6. /\ Cost(Cardinality(loop.todo)) \in Nat /\ Cost(Size - 1) \in Nat
        /\ Cost(Size) \in Nat /\ Cost(restarts * Size) \in Nat
    BY <1>3, <1>4, <1>5, Costs
  <1>7. Cost(Size) = Cost(Size - 1) + RequestBound
    <2>1. Cost((Size - 1) + 1) = Cost(Size - 1) + Cost(1)
      BY <1>5, Costs
    <2> QED
      BY <1>5, <2>1, Costs
  <1>8. PollBy \in Nat
    <2>1. call[Poller].began \in Nat
      BY Typed DEF Call
    <2>2. call[Poller].began + RequestBound \in Nat
      BY <1>1, <2>1
    <2> QED
      BY <1>1, <2>2 DEF PollBy
  <1> QED
    BY <1>1, <1>2, <1>3, <1>4, <1>6, <1>7, <1>8 DEF DueBy, RestBy, TickBy

LEMMA PollInTime == ASSUME Sound, Ongoing PROVE now <= PollBy
  <1>1. CASE loop.polling = None
    BY <1>1, Typed DEF PollBy
  <1>2. CASE loop.polling # None
    <2>1. /\ call[Poller].requests = 1
          /\ now <= call[Poller].began + call[Poller].requests * RequestBound
      BY <1>2 DEF Ongoing, PollsOngoing, CallsOngoing
    <2>2. 1 * RequestBound = RequestBound
      BY Bounds
    <2> QED
      BY <1>2, <2>1, <2>2 DEF PollBy
  <1> QED
    BY <1>1, <1>2

\* The deadline, and that a record on course is within it.
LEMMA DeadlineIs ==
    ASSUME Sound, IsFiniteSet(Findings), NEW f \in Findings, record[f] # None
    PROVE  Deadline(f) = RestBy(f) + Cost(Size)
  <1> DEFINE n == Size - 1
             c == DueBy(f) + interval_seconds
             r == restarts * Size
  <1>1. /\ Size \in Nat \ {0} /\ restarts \in Nat
        /\ record[f].created_at \in Nat /\ RequestBound \in Nat
    BY CourseTyped
  <1>2. n \in Nat /\ Size = n + 1 /\ r \in Nat /\ c \in Nat
    BY <1>1 DEF DueBy
  <1>3. 2 * Size - 1 = n + Size
    BY <1>1
  <1>4. /\ Cost(n + Size) = Cost(n) + Cost(Size)
        /\ Cost(n) \in Nat /\ Cost(Size) \in Nat /\ Cost(r) \in Nat
    BY <1>1, <1>2, Costs
  <1>5. Deadline(f) = c + Cost(2 * Size - 1) + Cost(r)
    BY DEF Deadline, Cost, Size, DueBy
  <1>6. RestBy(f) = c + Cost(n) + Cost(r)
    BY DEF RestBy
  <1> HIDE DEF n, c, r
  <1> QED
    BY <1>2, <1>3, <1>4, <1>5, <1>6

LEMMA CourseInTime ==
    ASSUME Sound, Ongoing, IsFiniteSet(Findings), NEW f \in Findings, record[f] # None,
           OnCourse(f)
    PROVE  now <= RestBy(f) + Cost(Size)
  <1>1. /\ now \in Nat /\ RestBy(f) \in Nat /\ Cost(Size) \in Nat /\ TickBy \in Nat
        /\ PollBy \in Nat /\ TickBy = PollBy + Cost(Cardinality(loop.todo))
        /\ Cost(Cardinality(loop.todo)) \in Nat /\ interval_seconds \in Nat
    BY CourseTyped
  <1>2. CASE loop.wake # None
    BY <1>1, <1>2, Typed DEF Ongoing, PollsOngoing, OnCourse, Loop
  <1>3. CASE loop.wake = None
    BY <1>1, <1>3, PollInTime DEF OnCourse
  <1> QED
    BY <1>2, <1>3

\* Nobody is blocked by a record that was not there, or was younger.
RowsStay ==
    \A g \in Findings :
        record[g] # None => record'[g] # None /\ record'[g].created_at = record[g].created_at

LEMMA GarbledAreFindings == ASSUME Sound PROVE trial.garbled \subseteq Findings
  BY IdsAreFindings, SimulationAssumption
     DEF SimulationAssumption, Trial, Sound, SimulationTypeOK

LEMMA ExpectedBefore ==
    ASSUME Sound, NEW f \in Findings, RowsStay, UNCHANGED trial, Expected(f)',
           record[f] # None, record[f].tracked, record[f].outcome = "in_progress"
    PROVE  Expected(f)
  <1>1. f \in Tracked \ trial.garbled
    BY DEF Expected, Tracked
  <1>2. ASSUME NEW g \in trial.garbled \ {f},
               record[g] # None, record[g].created_at <= record[f].created_at
        PROVE  FALSE
    <2>1. g \in Findings /\ g \in trial'.garbled \ {f}
      BY GarbledAreFindings
    <2>2. record'[g] # None /\ record'[g].created_at <= record'[f].created_at
      BY <1>2, <2>1 DEF RowsStay
    <2> QED
      BY <2>1, <2>2 DEF Expected, Blocked
  <1> QED
    BY <1>1, <1>2 DEF Expected, Blocked

\* A row that is not written stays on course while the loop does nothing.
LEMMA CourseKept ==
    ASSUME NEW f \in Findings, record'[f] = record[f],
           UNCHANGED <<loop, restarts>>, call'[Poller].began = call[Poller].began,
           now' = now \/ loop.wake # None \/ loop.polling # None,
           OnCourse(f)
    PROVE  OnCourse(f)'
  <1>1. DueBy(f)' = DueBy(f)
    BY DEF DueBy
  <1>2. RestBy(f)' = RestBy(f)
    BY <1>1 DEF RestBy
  <1>3. loop.wake = None => TickBy' = TickBy
    BY DEF TickBy, PollBy
  <1> QED
    BY <1>1, <1>2, <1>3 DEF OnCourse, InHand

LEMMA PunctualElse ==
    ASSUME Sound, Punctual, UNCHANGED <<record, loop, restarts, trial>>,
           call'[Poller].began = call[Poller].began,
           now' = now \/ loop.wake # None \/ loop.polling # None
    PROVE  Punctual'
  <1> SUFFICES ASSUME NEW f \in Findings, Expected(f)'
               PROVE  OnCourse(f)'
    BY DEF Punctual
  <1>1. record[f] # None /\ record[f].tracked /\ record[f].outcome = "in_progress"
    BY DEF Expected, Tracked
  <1>2. RowsStay
    BY DEF RowsStay
  <1>3. OnCourse(f)
    BY <1>1, <1>2, ExpectedBefore DEF Punctual
  <1> QED
    BY <1>3, CourseKept

\* While a record is not in hand, the tick under way is over before Size - 1
\* more requests are.
LEMMA OthersInTime ==
    ASSUME Sound, Ongoing, Spaced, IsFiniteSet(Findings), NEW f \in Findings,
           record[f] # None, ~InHand(f)
    PROVE  TickBy <= now + Cost(Size - 1)
  <1> DEFINE n == Cardinality(loop.todo)
  <1>1. /\ now \in Nat /\ Size \in Nat \ {0} /\ n \in Nat /\ RequestBound \in Nat
        /\ Cost(n) \in Nat /\ Cost(Size - 1) \in Nat /\ PollBy \in Nat
        /\ TickBy = PollBy + Cost(n)
    BY CourseTyped
  <1>2. loop.todo \in SUBSET Findings /\ loop.polling \in Findings \cup {None}
    BY Typed DEF Loop
  <1>3. CASE loop.polling = None
    <2>1. n + 1 <= Size
      BY <1>2, Sizes DEF InHand
    <2>2. n <= Size - 1 /\ Size - 1 \in Nat
      BY <1>1, <2>1
    <2>3. Cost(n) <= Cost(Size - 1)
      BY <1>1, <2>2, Costs
    <2>4. PollBy = now
      BY <1>3 DEF PollBy
    <2> HIDE DEF n
    <2> QED
      BY <1>1, <2>3, <2>4
  <1>4. CASE loop.polling # None
    <2>1. loop.polling \in Findings \ loop.todo /\ f \in Findings \ loop.todo /\ loop.polling # f
      BY <1>2, <1>4 DEF InHand, Spaced
    <2>2. n + 2 <= Size
      BY <1>2, <2>1, Sizes
    <2>3. n + 1 <= Size - 1 /\ Size - 1 \in Nat /\ n + 1 \in Nat
      BY <1>1, <2>2
    <2>4. Cost(n + 1) <= Cost(Size - 1) /\ Cost(n + 1) = Cost(n) + RequestBound
      BY <1>1, <2>3, Costs
    <2>5. call[Poller].began <= now /\ call[Poller].began \in Nat
      BY <1>4, Typed DEF Ongoing, PollsOngoing, CallsOngoing, Call
    <2>6. PollBy = call[Poller].began + RequestBound
      BY <1>4 DEF PollBy
    <2> HIDE DEF n
    <2> QED
      BY <1>1, <2>4, <2>5, <2>6
  <1> QED
    BY <1>3, <1>4

LEMMA PunctualClaim ==
    ASSUME Sound, Punctual, NEW g \in Findings, Claim(g),
           UNCHANGED <<now, fakeVars, trial, restarts>>
    PROVE  Punctual'
  <1> DEFINE row == [outcome |-> "in_progress", tracked |-> FALSE, created_at |-> now,
                     next_poll_at |-> None, poll_attempts |-> 0]
  <1>1. row \in Record /\ ~row.tracked
    BY Typed DEF Record, Outcomes
  <1>2. Write(g, row) /\ Send(g, "POST") /\ record[g] = None /\ UNCHANGED <<now, loop>>
    BY DEF Claim
  <1> HIDE DEF row
  <1>3. record'[g] = row /\ \A f \in Findings : f # g => record'[f] = record[f]
    BY <1>1, <1>2, RowTyped
  <1>4. call'[Poller] = call[Poller]
    BY <1>2, SentCall
  <1>5. RowsStay
    BY <1>2, <1>3 DEF RowsStay
  <1> SUFFICES ASSUME NEW f \in Findings, Expected(f)'
               PROVE  OnCourse(f)'
    BY DEF Punctual
  <1>6. f # g /\ record'[f] = record[f]
    BY <1>1, <1>3 DEF Expected, Tracked
  <1>7. record[f] # None /\ record[f].tracked /\ record[f].outcome = "in_progress"
    BY <1>6 DEF Expected, Tracked
  <1>8. OnCourse(f)
    BY <1>5, <1>7, ExpectedBefore DEF Punctual
  <1> QED
    BY <1>2, <1>4, <1>6, <1>8, CourseKept

\* A session that has been created is on course: its create took two requests at
\* the most, which is not longer than a record may wait to come due.
LEMMA CreatedOnCourse ==
    ASSUME Sound, Ongoing, Spaced, IsFiniteSet(Findings),
           2 * RequestBound <= max_wait_seconds + backoff_cap_seconds,
           NEW f \in Findings, record[f] # None, ~record[f].tracked, call[f].pc # "idle"
    PROVE  OnCourse(f)
  <1>1. record[f].next_poll_at = None /\ ~InHand(f)
    BY DEF Ongoing, CreatesOngoing, InHand, Sound, RowsSound
  <1>2. now <= DueBy(f)
    <2> DEFINE c == record[f].created_at
               n == call[f].requests
    <2>1. call[f].began = c /\ now <= call[f].began + n * RequestBound /\ f \in Callers
      BY DEF Ongoing, CreatesOngoing, CallsOngoing
    <2>2. n \in 1..2 /\ c \in Nat /\ now \in Nat
      BY <2>1, Typed DEF Call, Record
    <2>3. n * RequestBound <= 2 * RequestBound /\ 2 * RequestBound \in Nat
          /\ n * RequestBound \in Nat
      <3>1. n = 1 \/ n = 2
        BY <2>2
      <3> HIDE DEF n
      <3> QED
        BY <3>1, Bounds
    <2> HIDE DEF c, n
    <2>4. now <= c + max_wait_seconds + backoff_cap_seconds
      BY <2>1, <2>2, <2>3
    <2> QED
      BY <2>4 DEF DueBy, c
  <1>3. /\ now \in Nat /\ DueBy(f) \in Nat /\ TickBy \in Nat
        /\ Cost(Size - 1) \in Nat /\ Cost(restarts * Size) \in Nat /\ interval_seconds \in Nat
        /\ RestBy(f) = DueBy(f) + interval_seconds + Cost(Size - 1) + Cost(restarts * Size)
    BY CourseTyped
  <1>4. TickBy + interval_seconds <= RestBy(f)
    <2>1. TickBy <= now + Cost(Size - 1)
      BY <1>1, OthersInTime
    <2> QED
      BY <1>2, <1>3, <2>1
  <1>5. loop.wake # None => loop.wake <= RestBy(f)
    <2>1. loop.wake # None => loop.wake <= now + interval_seconds /\ loop.wake \in Nat
      BY Typed DEF Ongoing, PollsOngoing, Loop
    <2> QED
      BY <1>2, <1>3, <2>1
  <1> QED
    BY <1>1, <1>4, <1>5 DEF OnCourse

LEMMA PunctualCreated ==
    ASSUME Sound, Ongoing, Spaced, Punctual, IsFiniteSet(Findings),
           2 * RequestBound <= max_wait_seconds + backoff_cap_seconds,
           NEW g \in Findings, Created(g), UNCHANGED <<now, fakeVars, trial, restarts>>
    PROVE  Punctual'
  <1>1. /\ record[g] \in Record /\ ~record[g].tracked /\ record'[g] \in Record
        /\ record'[g].created_at = record[g].created_at
        /\ record'[g].next_poll_at = record[g].next_poll_at
        /\ \A f \in Findings : f # g => record'[f] = record[f]
        /\ \A c \in Callers : c # g => call'[c] = call[c]
        /\ call[g].pc # "idle"
        /\ UNCHANGED <<now, loop, restarts, trial>>
    BY CreatedRow
  <1>2. /\ call'[Poller] = call[Poller]
        /\ record[g] # None /\ record'[g] # None
    BY <1>1
  <1>3. RowsStay
    BY <1>1, <1>2 DEF RowsStay
  <1> SUFFICES ASSUME NEW f \in Findings, Expected(f)'
               PROVE  OnCourse(f)'
    BY DEF Punctual
  <1>4. CASE f # g
    <2>1. record'[f] = record[f]
      BY <1>1, <1>4
    <2>2. record[f] # None /\ record[f].tracked /\ record[f].outcome = "in_progress"
      BY <2>1 DEF Expected, Tracked
    <2>3. OnCourse(f)
      BY <1>1, <1>3, <2>2, ExpectedBefore DEF Punctual
    <2> QED
      BY <1>1, <1>2, <2>1, <2>3, CourseKept
  <1>5. CASE f = g
    <2>1. OnCourse(g)
      BY <1>1, <1>2, CreatedOnCourse
    <2>2. DueBy(g)' = DueBy(g)
      BY <1>1 DEF DueBy
    <2>3. RestBy(g)' = RestBy(g)
      BY <1>1, <2>2 DEF RestBy
    <2>4. TickBy' = TickBy
      BY <1>1, <1>2 DEF TickBy, PollBy
    <2> QED
      BY <1>1, <1>5, <2>1, <2>2, <2>3, <2>4 DEF OnCourse, InHand
  <1> QED
    BY <1>4, <1>5

\* A tick takes a record on course in hand, unless it has not come due yet.
LEMMA PunctualTick ==
    ASSUME Sound, Punctual, IsFiniteSet(Findings),
           Tick, UNCHANGED <<now, fakeVars, trial, restarts>>
    PROVE  Punctual'
  <1>1. /\ loop.wake = now /\ loop'.wake = None /\ loop'.todo = Due /\ loop'.polling = None
        /\ UNCHANGED <<record, call, now, trial, restarts>>
    BY DEF Tick
  <1>2. RowsStay
    BY <1>1 DEF RowsStay
  <1> SUFFICES ASSUME NEW f \in Findings, Expected(f)'
               PROVE  OnCourse(f)'
    BY DEF Punctual
  <1> DEFINE n == Cardinality(Due)
  <1>3. f \in Tracked
    BY <1>1 DEF Expected, Tracked
  <1>4. record[f] \in Record /\ now # None
    BY <1>3, Typed DEF Tracked
  <1>5. OnCourse(f)
    BY <1>1, <1>2, <1>3, ExpectedBefore DEF Punctual, Tracked
  <1>6. /\ now \in Nat /\ DueBy(f) \in Nat /\ RestBy(f) \in Nat /\ Size \in Nat \ {0}
        /\ Cost(Size - 1) \in Nat /\ Cost(Size) \in Nat /\ Cost(restarts * Size) \in Nat
        /\ interval_seconds \in Nat
        /\ RestBy(f) = DueBy(f) + interval_seconds + Cost(Size - 1) + Cost(restarts * Size)
    BY <1>4, CourseTyped
  <1>7. DueBy(f)' = DueBy(f)
    BY <1>1 DEF DueBy
  <1>8. RestBy(f)' = RestBy(f)
    BY <1>1, <1>7 DEF RestBy
  <1>9. Due \in SUBSET Findings
    BY DEF Due, Tracked
  <1>10. n \in Nat /\ n <= Size /\ Cost(n) \in Nat /\ Cost(n) <= Cost(Size)
    <2>1. n \in Nat /\ n <= Size
      BY <1>9, Sizes
    <2> QED
      BY <1>6, <2>1, Costs
  <1>11. TickBy' = now + Cost(n)
    BY <1>1 DEF TickBy, PollBy
  <1>12. now <= RestBy(f)
    BY <1>1, <1>4, <1>5 DEF OnCourse
  <1>13. CASE f \in Due
    <2>1. InHand(f)'
      BY <1>1, <1>13 DEF InHand
    <2>2. TickBy' <= RestBy(f) + Cost(Size)
      BY <1>6, <1>10, <1>11, <1>12
    <2> QED
      BY <1>1, <1>5, <1>7, <1>8, <2>1, <2>2 DEF OnCourse
  <1>14. CASE f \notin Due
    <2>1. now < DueBy(f)
      <3>1. /\ record[f].next_poll_at # None /\ ~(record[f].next_poll_at <= now)
            /\ record[f].next_poll_at \in Int
        BY <1>3, <1>4, <1>14 DEF Due, Record
      <3> QED
        BY <1>5, <1>6, <3>1 DEF OnCourse
    <2>2. Cost(n) <= Cost(Size - 1)
      <3>1. n + 1 <= Size
        BY <1>9, <1>14, Sizes
      <3>2. n <= Size - 1 /\ Size - 1 \in Nat
        BY <1>6, <1>10, <3>1
      <3> QED
        BY <1>10, <3>2, Costs
    <2>3. TickBy' + interval_seconds <= RestBy(f)
      BY <1>6, <1>10, <1>11, <2>1, <2>2
    <2>4. ~InHand(f)'
      BY <1>1, <1>14 DEF InHand
    <2> QED
      BY <1>1, <1>5, <1>7, <1>8, <2>3, <2>4 DEF OnCourse
  <1> QED
    BY <1>13, <1>14

\* A poll is one of the requests the tick was known to have left.
LEMMA PunctualPollNext ==
    ASSUME Sound, Punctual, IsFiniteSet(Findings),
           NEW g \in Findings, PollNext(g), UNCHANGED <<now, fakeVars, trial, restarts>>
    PROVE  Punctual'
  <1>1. /\ loop \in Loop /\ g \in loop.todo /\ loop.polling = None
        /\ loop' = [loop EXCEPT !.todo = @ \ {g}, !.polling = g]
        /\ Send(Poller, "GET") /\ UNCHANGED <<record, now, trial, restarts>>
    BY Typed DEF PollNext
  <1>2. /\ loop'.wake = loop.wake /\ loop'.todo = loop.todo \ {g} /\ loop'.polling = g
        /\ loop.todo \in SUBSET Findings
    BY <1>1 DEF Loop
  <1>3. call'[Poller].began = now
    BY <1>1, SentOngoing
  <1>4. RowsStay
    BY <1>1 DEF RowsStay
  <1> SUFFICES ASSUME NEW f \in Findings, Expected(f)'
               PROVE  OnCourse(f)'
    BY DEF Punctual
  <1>5. record[f] # None /\ record[f].tracked /\ record[f].outcome = "in_progress"
    BY <1>1 DEF Expected, Tracked
  <1>6. OnCourse(f)
    BY <1>1, <1>4, <1>5, ExpectedBefore DEF Punctual
  <1>7. DueBy(f)' = DueBy(f)
    BY <1>1 DEF DueBy
  <1>8. RestBy(f)' = RestBy(f)
    BY <1>1, <1>7 DEF RestBy
  <1>9. TickBy' = TickBy
    <2> DEFINE n == Cardinality(loop.todo \ {g})
    <2>1. Cardinality(loop.todo) = n + 1
      BY <1>1, <1>2, Sizes
    <2>2. n \in Nat
      BY <1>2, Sizes
    <2>3. Cost(n + 1) = Cost(n) + RequestBound /\ Cost(n) \in Nat
      BY <2>2, Costs
    <2>4. TickBy = now + Cost(n + 1)
      BY <1>1, <2>1 DEF TickBy, PollBy
    <2>5. TickBy' = (now + RequestBound) + Cost(n)
      BY <1>1, <1>2, <1>3 DEF TickBy, PollBy
    <2> HIDE DEF n
    <2> QED
      BY <2>3, <2>4, <2>5, Typed, Bounds
  <1>10. InHand(f)' <=> InHand(f)
    BY <1>1, <1>2 DEF InHand
  <1> QED
    BY <1>1, <1>2, <1>6, <1>7, <1>8, <1>9, <1>10 DEF OnCourse

LEMMA PunctualRest ==
    ASSUME Sound, Punctual, IsFiniteSet(Findings),
           Rest, UNCHANGED <<now, fakeVars, trial, restarts>>
    PROVE  Punctual'
  <1>1. /\ loop.wake = None /\ loop.polling = None /\ loop.todo = {}
        /\ loop'.wake = now + interval_seconds
        /\ UNCHANGED <<record, call, now, trial, restarts>>
    BY DEF Rest, Resting
  <1>2. RowsStay
    BY <1>1 DEF RowsStay
  <1> SUFFICES ASSUME NEW f \in Findings, Expected(f)'
               PROVE  OnCourse(f)'
    BY DEF Punctual
  <1>3. record[f] # None /\ record[f].tracked /\ record[f].outcome = "in_progress"
    BY <1>1 DEF Expected, Tracked
  <1>4. OnCourse(f)
    BY <1>1, <1>2, <1>3, ExpectedBefore DEF Punctual
  <1>5. DueBy(f)' = DueBy(f)
    BY <1>1 DEF DueBy
  <1>6. RestBy(f)' = RestBy(f)
    BY <1>1, <1>5 DEF RestBy
  <1>7. TickBy = now
    <2>1. Cardinality(loop.todo) = 0
      BY <1>1, FS_EmptySet
    <2>2. PollBy = now /\ now \in Nat /\ Cost(0) = 0
      BY <1>1, Costs, Typed DEF PollBy
    <2> QED
      BY <2>1, <2>2 DEF TickBy
  <1>8. ~InHand(f)
    BY <1>1 DEF InHand
  <1>9. loop'.wake <= RestBy(f) /\ loop'.wake # None
    BY <1>1, <1>4, <1>7, <1>8, Typed DEF OnCourse
  <1> QED
    BY <1>1, <1>4, <1>5, <1>6, <1>9 DEF OnCourse

\* A restart lets the loop start over, at the cost of one tick more.
LEMMA PunctualRestarts ==
    ASSUME Sound, Ongoing, Punctual, IsFiniteSet(Findings), Restarts
    PROVE  Punctual'
  <1>1. /\ restarts' = restarts + 1 /\ loop'.wake = now
        /\ UNCHANGED <<record, now, trial>>
    BY DEF Restarts, ScheduleRestart, Resting
  <1>2. RowsStay
    BY <1>1 DEF RowsStay
  <1> SUFFICES ASSUME NEW f \in Findings, Expected(f)'
               PROVE  OnCourse(f)'
    BY DEF Punctual
  <1>3. record[f] # None /\ record[f].tracked /\ record[f].outcome = "in_progress"
    BY <1>1 DEF Expected, Tracked
  <1>4. OnCourse(f)
    BY <1>1, <1>2, <1>3, ExpectedBefore DEF Punctual
  <1>5. DueBy(f)' = DueBy(f)
    BY <1>1 DEF DueBy
  <1>6. /\ now \in Nat /\ DueBy(f) \in Nat /\ RestBy(f) \in Nat /\ Size \in Nat
        /\ restarts \in Nat /\ interval_seconds \in Nat
        /\ Cost(Size - 1) \in Nat /\ Cost(Size) \in Nat /\ Cost(restarts * Size) \in Nat
        /\ RestBy(f) = DueBy(f) + interval_seconds + Cost(Size - 1) + Cost(restarts * Size)
    BY <1>3, CourseTyped
  <1>7. Cost((restarts + 1) * Size) = Cost(restarts * Size) + Cost(Size)
    <2>1. (restarts + 1) * Size = restarts * Size + Size /\ restarts * Size \in Nat
      BY <1>6
    <2> QED
      BY <1>6, <2>1, Costs
  <1>8. RestBy(f)' = RestBy(f) + Cost(Size)
    <2>1. Size' = Size /\ Cost(Size - 1)' = Cost(Size - 1)
      BY DEF Size, Cost
    <2>2. Cost(restarts * Size)' = Cost((restarts + 1) * Size)
      BY <1>1, <2>1 DEF Cost
    <2>3. RestBy(f)' = DueBy(f)' + interval_seconds + Cost(Size - 1)' + Cost(restarts * Size)'
      BY DEF RestBy
    <2> QED
      BY <1>5, <1>6, <1>7, <2>1, <2>2, <2>3
  <1>9. now <= RestBy(f)'
    BY <1>3, <1>4, <1>8, CourseInTime
  <1>10. loop'.wake # None
    BY <1>1, <1>6
  <1> QED
    BY <1>1, <1>4, <1>5, <1>9, <1>10 DEF OnCourse

LEMMA GapIsCapped ==
    ASSUME NEW n \in Nat
    PROVE  NextGap(n) <= backoff_cap_seconds
  <1> DEFINE gap == backoff_base_seconds * 2^n
  <1>1. gap \in Int
    OBVIOUS
  <1> HIDE DEF gap
  <1>2. (IF gap < backoff_cap_seconds THEN gap ELSE backoff_cap_seconds) <= backoff_cap_seconds
    BY <1>1
  <1> QED
    BY <1>2 DEF NextGap, gap

\* A poll in which the session still runs, and is waited for still, puts it off
\* by no more than the cap.
LEMMA PutOff ==
    ASSUME NEW old \in Record, NEW row \in Record, now \in Nat, PollWrites(old, row),
           row.outcome = "in_progress",
           ~(call[Poller].pc = "done" /\ call[Poller].reply = None),
           old.next_poll_at # None =>
              old.next_poll_at <= old.created_at + max_wait_seconds + backoff_cap_seconds
    PROVE  /\ now <= old.created_at + max_wait_seconds
           /\ row.next_poll_at # None =>
                 row.next_poll_at <= row.created_at + max_wait_seconds + backoff_cap_seconds
  <1> DEFINE n == old.poll_attempts
             c == old.created_at
  <1>1. n \in Nat /\ c \in Nat /\ row.created_at = c
    BY DEF Record, PollWrites
  <1>2. now <= c + max_wait_seconds
    BY DEF PollWrites
  <1>3. NextGap(n) <= backoff_cap_seconds /\ NextGap(n) \in Int
    BY <1>1, GapIsCapped, GapIsInt
  <1>4. CASE SamePace(old, row)
    BY <1>1, <1>2, <1>4 DEF SamePace
  <1>5. CASE Spaces(old, row)
    <2>1. row.next_poll_at = now + NextGap(n)
      BY <1>5 DEF Spaces
    <2> HIDE DEF n, c
    <2>2. row.next_poll_at <= c + max_wait_seconds + backoff_cap_seconds
      BY <1>1, <1>2, <1>3, <2>1
    <2> QED
      BY <1>1, <1>2, <2>2 DEF c
  <1> QED
    BY <1>4, <1>5 DEF PollWrites

LEMMA PunctualPolled ==
    ASSUME Sound, Ongoing, Spaced, Punctual, IsFiniteSet(Findings),
           Polled, UNCHANGED <<now, fakeVars, trial, restarts>>
    PROVE  Punctual'
  <1>1. PICK g \in Findings, row \in Record :
              /\ g = loop.polling
              /\ record[g] \in Record /\ record[g].tracked
              /\ PollWrites(record[g], row)
              /\ Write(g, row)
              /\ Taken(Poller)
              /\ loop' \in Loop
              /\ loop'.polling = None /\ loop'.todo \subseteq loop.todo
              /\ loop'.wake # None => loop'.todo = {}
              /\ \/ loop'.wake = None /\ loop'.todo = loop.todo
                 \/ /\ loop'.wake = now + interval_seconds
                    /\ call[Poller].pc = "done" /\ call[Poller].reply = None
    BY PolledEffect
  <1>2. /\ record'[g] = row /\ \A f \in Findings : f # g => record'[f] = record[f]
        /\ row.tracked /\ row.created_at = record[g].created_at /\ row # None
        /\ record[g] # None /\ g \notin loop.todo /\ loop.polling # None
        /\ now \in Nat /\ UNCHANGED <<now, trial, restarts>>
    BY <1>1, RowTyped, Typed DEF PollWrites, Spaced
  <1>3. loop.wake = None
    BY <1>1, <1>2 DEF Sound, LoopSound
  <1>4. RowsStay
    BY <1>2 DEF RowsStay
  <1>5. call[Poller].pc = "done" /\ call[Poller].reply = None => g \in trial.garbled
    BY <1>1 DEF Ongoing, PollsOngoing
  <1> SUFFICES ASSUME NEW f \in Findings, Expected(f)'
               PROVE  OnCourse(f)'
    BY DEF Punctual
  <1>6. record[f] # None /\ record[f].tracked /\ record[f].outcome = "in_progress"
    <2>1. CASE f # g
      BY <1>2, <2>1 DEF Expected, Tracked
    <2>2. CASE f = g
      <3>1. row.outcome = "in_progress"
        BY <1>2, <2>2 DEF Expected, Tracked
      <3>2. row.outcome = record[g].outcome
        BY <1>1, <3>1 DEF PollWrites
      <3> QED
        BY <1>1, <1>2, <2>2, <3>1, <3>2
    <2> QED
      BY <2>1, <2>2
  <1>7. Expected(f) /\ OnCourse(f) /\ f \notin trial.garbled
    BY <1>2, <1>4, <1>6, ExpectedBefore DEF Punctual, Expected
  <1>8. DueBy(f)' = DueBy(f)
    BY <1>2 DEF DueBy
  <1>9. RestBy(f)' = RestBy(f)
    BY <1>2, <1>8 DEF RestBy
  <1> DEFINE left == Cost(Cardinality(loop.todo))
  <1>10. /\ DueBy(f) \in Nat /\ RestBy(f) \in Nat /\ TickBy \in Nat /\ PollBy \in Nat
         /\ Cost(Size) \in Nat /\ Cost(Size - 1) \in Nat /\ Cost(restarts * Size) \in Nat
         /\ left \in Nat /\ TickBy = PollBy + left
         /\ RestBy(f) = DueBy(f) + interval_seconds + Cost(Size - 1) + Cost(restarts * Size)
         /\ now <= PollBy
    BY <1>6, CourseTyped, PollInTime
  <1>11. CASE loop'.wake = now + interval_seconds /\ g \in trial.garbled
    <2>1. f # g /\ record'[f] = record[f]
      BY <1>2, <1>7, <1>11
    <2>2. f \notin loop.todo
      <3>1. g \in trial.garbled \ {f} /\ record[g] # None
        BY <1>2, <1>11, <2>1
      <3>2. f \in loop.todo => record[g].created_at <= record[f].created_at
        BY <1>1, <1>2 DEF Ongoing, PollsOngoing
      <3> QED
        BY <1>7, <3>1, <3>2 DEF Expected, Blocked
    <2>3. ~InHand(f)
      BY <1>1, <2>1, <2>2 DEF InHand
    <2>4. TickBy + interval_seconds <= RestBy(f)
      BY <1>3, <1>7, <2>3 DEF OnCourse
    <2> HIDE DEF left
    <2>5. loop'.wake <= RestBy(f) /\ loop'.wake # None
      BY <1>2, <1>10, <1>11, <2>4
    <2> QED
      BY <1>7, <1>8, <1>9, <2>1, <2>5 DEF OnCourse
  <1>12. CASE loop'.wake = None /\ loop'.todo = loop.todo
    <2>1. TickBy' = now + left
      BY <1>1, <1>2, <1>12 DEF TickBy, PollBy
    <2>2. CASE f # g
      <3>1. InHand(f)' <=> InHand(f)
        BY <1>1, <1>12, <2>2 DEF InHand
      <3>2. TickBy' <= TickBy /\ TickBy' \in Nat
        <4> HIDE DEF left
        <4> QED
          BY <1>2, <1>10, <2>1
      <3>3. record'[f] = record[f]
        BY <1>2, <2>2
      <3>4. CASE InHand(f)
        <4>1. TickBy' <= RestBy(f) + Cost(Size)
          BY <1>3, <1>7, <1>10, <3>2, <3>4 DEF OnCourse
        <4> QED
          BY <1>7, <1>8, <1>9, <1>12, <3>1, <3>3, <3>4, <4>1 DEF OnCourse
      <3>5. CASE ~InHand(f)
        <4>1. TickBy' + interval_seconds <= RestBy(f)
          BY <1>3, <1>7, <1>10, <3>2, <3>5 DEF OnCourse
        <4> QED
          BY <1>7, <1>8, <1>9, <1>12, <3>1, <3>3, <3>5, <4>1 DEF OnCourse
      <3> QED
        BY <3>4, <3>5
    <2>3. CASE f = g
      <3>1. row.outcome = "in_progress"
        BY <1>2, <2>3 DEF Expected, Tracked
      <3>2. ~(call[Poller].pc = "done" /\ call[Poller].reply = None)
        BY <1>5, <1>7, <2>3
      <3>3. record[g].next_poll_at # None =>
               record[g].next_poll_at <=
                  record[g].created_at + max_wait_seconds + backoff_cap_seconds
        BY <1>7, <2>3 DEF OnCourse, DueBy
      <3>4. /\ now <= record[g].created_at + max_wait_seconds
            /\ row.next_poll_at # None =>
                  row.next_poll_at <= row.created_at + max_wait_seconds + backoff_cap_seconds
        BY <1>1, <1>2, <3>1, <3>2, <3>3, PutOff
      <3>5. DueBy(f) = row.created_at + max_wait_seconds + backoff_cap_seconds
        BY <1>2, <2>3 DEF DueBy
      <3>6. now <= DueBy(f)
        <4>1. row.created_at \in Nat
          BY DEF Record
        <4> QED
          BY <1>2, <3>4, <3>5, <4>1
      <3>7. ~InHand(f)'
        BY <1>1, <1>2, <1>12, <2>3 DEF InHand
      <3>8. left <= Cost(Size - 1)
        <4>1. loop.todo \in SUBSET Findings /\ f \in Findings \ loop.todo
          BY <1>2, <2>3, Typed DEF Loop
        <4>2. Cardinality(loop.todo) + 1 <= Size /\ Cardinality(loop.todo) \in Nat /\ Size \in Nat
          BY <4>1, Sizes
        <4>3. Cardinality(loop.todo) <= Size - 1 /\ Size - 1 \in Nat
          BY <4>2
        <4> QED
          BY <4>2, <4>3, Costs
      <3>9. TickBy' + interval_seconds <= RestBy(f)
        <4> HIDE DEF left
        <4> QED
          BY <1>2, <1>10, <2>1, <3>6, <3>8
      <3> QED
        BY <1>2, <1>8, <1>9, <1>12, <2>3, <3>4, <3>5, <3>7, <3>9 DEF OnCourse
    <2> QED
      BY <2>2, <2>3
  <1> QED
    BY <1>1, <1>5, <1>11, <1>12

LEMMA PunctualStep ==
    ASSUME IsFiniteSet(Findings),
           2 * RequestBound <= max_wait_seconds + backoff_cap_seconds
    PROVE  Sound /\ Ongoing /\ Spaced /\ Punctual /\ [SimulationNext]_simulationVars
              => Punctual'
  <1> SUFFICES ASSUME Sound, Ongoing, Spaced, Punctual, [SimulationNext]_simulationVars
               PROVE  Punctual'
    OBVIOUS
  <1>1. ASSUME NEW c \in Callers, Request(c)
        PROVE  Punctual'
    <2>1. /\ UNCHANGED <<now, record, loop, trial, restarts>>
          /\ call'[c].began = call[c].began
          /\ \A d \in Callers : d # c => call'[d] = call[d]
      BY <1>1, RequestEffect
    <2>2. call'[Poller].began = call[Poller].began
      BY <2>1
    <2> QED
      BY <2>1, <2>2, PunctualElse
  <1>2. ASSUME NEW c \in Callers, Retrying(c)
        PROVE  Punctual'
    <2>1. UNCHANGED <<now, record, loop, trial, restarts>>
      BY <1>2 DEF Retrying, scheduleVars
    <2>2. \A d \in Callers : call'[d].began = call[d].began
      BY <1>2, Typed DEF Retrying, Wake, Become, Call
    <2> QED
      BY <2>1, <2>2, PunctualElse
  <1>3. ASSUME NEW f \in Findings, Filing(f)
        PROVE  Punctual'
    BY <1>3, PunctualClaim, PunctualCreated DEF Filing
  <1>4. CASE Polling
    BY <1>4, PunctualTick, PunctualPollNext, PunctualPolled, PunctualRest DEF Polling
  <1>5. CASE Restarts
    BY <1>5, PunctualRestarts
  <1>6. CASE ClockMoves
    <2>1. UNCHANGED <<record, loop, trial, restarts, call>>
      BY <1>6 DEF ClockMoves, TimePasses, scheduleVars
    <2>2. loop.wake # None \/ loop.polling # None
      BY <1>6 DEF ClockMoves, Quiet
    <2> QED
      BY <2>1, <2>2, PunctualElse
  <1>7. CASE UNCHANGED simulationVars
    <2>1. UNCHANGED <<now, call, record, loop, trial, restarts>>
      BY <1>7 DEF simulationVars, clientVars, scheduleVars
    <2> QED
      BY <2>1, PunctualElse
  <1> QED
    BY <1>1, <1>2, <1>3, <1>4, <1>5, <1>6, <1>7 DEF SimulationNext, ClockEnds

LEMMA PunctualInit == SimulationInit => Punctual
  BY DEF SimulationInit, ScheduleInit, Punctual, Expected, Tracked

(***************************************************************************)
(* Whatever the network loses and however often the service restarts, a    *)
(* session on record is settled by its deadline (_check_timeout, and the   *)
(* ticks that must come to it in time), for any finite number of findings, *)
(* any retry policy and any poll schedule whose limit on the wait is longer*)
(* than a create can take: a row's age counts from its claim.              *)
(***************************************************************************)
THEOREM SettledOnTime ==
    ASSUME IsFiniteSet(Findings),
           2 * RequestBound <= max_wait_seconds + backoff_cap_seconds
    PROVE  SimulationSpec => []SettledInTime
  <1>1. Sound /\ Ongoing /\ Punctual => SettledInTime
    <2> SUFFICES ASSUME Sound, Ongoing, Punctual,
                        NEW f \in Tracked \ trial.garbled, ~Blocked(f)
                 PROVE  now <= Deadline(f)
      BY DEF SettledInTime
    <2>1. f \in Findings /\ record[f] # None /\ Expected(f)
      BY DEF Tracked, Expected
    <2>2. OnCourse(f)
      BY <2>1 DEF Punctual
    <2> QED
      BY <2>1, <2>2, CourseInTime, DeadlineIs
  <1>2. SimulationSpec => []Spaced
    BY SpacedInit, SpacedStep, SoundAlways, PTL DEF SimulationSpec
  <1>3. SimulationSpec => []Ongoing
    BY OngoingInit, OngoingStep, SoundAlways, PTL DEF SimulationSpec
  <1>4. SimulationSpec => []Punctual
    BY <1>2, <1>3, PunctualInit, PunctualStep, SoundAlways, PTL DEF SimulationSpec
  <1> QED
    BY <1>1, <1>3, <1>4, SoundAlways, PTL
=============================================================================
