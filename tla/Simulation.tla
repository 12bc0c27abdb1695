----------------------------- MODULE Simulation -----------------------------
(***************************************************************************)
(* scripts/simulate.py with faults: the client and the poller against the  *)
(* scripted API, over a network that loses requests and replies, and with  *)
(* restarts.                                                               *)
(*                                                                         *)
(* Computing takes no time: the clock moves when everybody waits.          *)
(***************************************************************************)
EXTENDS Schedule, FakeDevin

CONSTANTS
    Trials,     \* the runs to try
    LastClaim,  \* bound: findings are filed up to this moment
    Horizon     \* bound: where the clock ends

VARIABLES
    trial,     \* the run: its script, its token, and its faults
    restarts   \* restarts so far

simulationVars == <<clientVars, scheduleVars, fakeVars, trial, restarts>>

\* garbled: the sessions whose GET the client cannot decode.  restarts: a bound.
Trial == [script : Scripts, token : BOOLEAN, garbled : SUBSET Ids, restarts : Nat]

ASSUME SimulationAssumption ==
    /\ Ids = Findings
    /\ Trials \subseteq Trial
    /\ 0 \in RetryAfters
    /\ Fresh \in Answers
    /\ \A script \in Scripts, id \in Ids, tick \in 1..MaxPolls :
          Shown(script[id], tick) \in Answers
    /\ LastClaim \in Nat
    /\ Horizon \in Nat

SimulationTypeOK ==
    /\ ClientTypeOK
    /\ ScheduleTypeOK
    /\ FakeTypeOK
    /\ trial \in Trials
    /\ restarts \in 0..trial.restarts

SimulationInit ==
    /\ ClientInit
    /\ ScheduleInit
    /\ FakeInit
    /\ trial \in Trials
    /\ scenario = trial.script
    /\ token = trial.token
    /\ restarts = 0

-----------------------------------------------------------------------------
\* The session a call is about.
Subject(c) == IF c = Poller THEN loop.polling ELSE c

(***************************************************************************)
(* An attempt of a request: it never arrives; or the API handles it, and   *)
(* its reply is lost or comes back.                                        *)
(***************************************************************************)
RequestLost(c) ==
    /\ NetworkError(c)
    /\ UNCHANGED fakeVars

ReplyTo(c, status, reply) ==
    \/ NetworkError(c)
    \/ status = 200 /\ Answered(c, reply)
    \/ status = 401 /\ Rejected(c, TRUE)
    \/ status = 409 /\ Conflict(c)
    \/ status = 429 /\ TransientError(c, 0)
    \/ status = 503 /\ TransientError(c, None)

Post(c) ==
    /\ call[c].method = "POST"
    /\ ReplyTo(c, PostStatus(Subject(c)), Fresh)
    /\ Create(Subject(c))

Fetch(c) ==
    /\ call[c].method = "GET"
    /\ ReplyTo(c, GetStatus(Subject(c)),
               IF Subject(c) \in trial.garbled THEN None ELSE NextPayload(Subject(c)))
    /\ Get(Subject(c))

Request(c) ==
    /\ call[c].pc = "sent"
    /\ RequestLost(c) \/ Post(c) \/ Fetch(c)
    /\ UNCHANGED <<now, scheduleVars, trial, restarts>>

Retrying(c) ==
    /\ Wake(c)
    /\ UNCHANGED <<now, scheduleVars, fakeVars, trial, restarts>>

Filing(f) ==
    /\ \/ now <= LastClaim /\ Claim(f)
       \/ Created(f)
    /\ UNCHANGED <<now, fakeVars, trial, restarts>>

Polling ==
    /\ \/ Tick
       \/ \E f \in Findings : PollNext(f)
       \/ Polled
       \/ Rest
    /\ UNCHANGED <<now, fakeVars, trial, restarts>>

Restarts ==
    /\ restarts < trial.restarts
    /\ restarts' = restarts + 1
    /\ ScheduleRestart
    /\ UNCHANGED <<now, fakeVars, trial>>

ClockMoves ==
    /\ now < Horizon
    /\ Quiet
    /\ TimePasses
    /\ UNCHANGED <<scheduleVars, fakeVars, trial, restarts>>

\* The bounded clock has come to its end.  (Deadlock is checked: nothing else
\* may stop the clock.)
ClockEnds == now = Horizon /\ UNCHANGED simulationVars

SimulationNext ==
    \/ \E c \in Callers : Request(c) \/ Retrying(c)
    \/ \E f \in Findings : Filing(f)
    \/ Polling
    \/ Restarts
    \/ ClockMoves
    \/ ClockEnds

SimulationSpec == SimulationInit /\ [][SimulationNext]_simulationVars

-----------------------------------------------------------------------------
(***************************************************************************)
(* Safety.                                                                 *)
(***************************************************************************)
\* Records behind f in a tick, or in its place, that may raise out of it.
Blocked(f) ==
    \E g \in trial.garbled \ {f} : record[g] # None /\ record[g].created_at <= record[f].created_at

\* When a record must be settled.  Just before its wait was over it may have
\* been put off for the longest gap; it comes due just after a tick has looked,
\* which polls all others, and is the last of the next tick.  A restart makes
\* the loop start over.
Deadline(f) ==
    LET size == Cardinality(Findings)
    IN  record[f].created_at + max_wait_seconds + backoff_cap_seconds
          + interval_seconds + (2 * size - 1) * RequestBound
          + restarts * size * RequestBound

\* Whatever the network loses, a session on record is settled by its deadline,
\* unless its own reply, or that of an older one, cannot be decoded: the limit
\* on the wait also holds for an API that is never reached (_check_timeout).
SettledInTime ==
    \A f \in Tracked \ trial.garbled : ~Blocked(f) => now <= Deadline(f)

\* The API is not asked more often than the backoff says, restarts or not: a
\* record polled n times is not due before the sum of n gaps is over.
GapSum[n \in Nat] == IF n = 0 THEN 0 ELSE GapSum[n - 1] + NextGap(n - 1)

FewPolls ==
    \A f \in Findings :
        record[f] # None /\ record[f].next_poll_at # None =>
            record[f].next_poll_at >= record[f].created_at + GapSum[record[f].poll_attempts]

\* What a scenario can end as: its last payload's outcome, or success by the
\* pull request it shows before.
ScriptedOutcomes(s) ==
    {classify(Terminal(s))} \cup
        {classify(Running(s, tick)) : tick \in 1..(s.ticks_to_terminal - 1)}

\* Lost requests, 503s, 409s and restarts do not show in the outcome: it is the
\* scripted one, or a timeout past the limit, or the error of a create that
\* failed ("Could not reach the API: explicitly NOT a session
\* failure").
EndsAsScripted ==
    \A f \in Findings : record[f] # None =>
        LET row == record[f]
        IN  \/ row.outcome = "in_progress"
            \/ row.outcome = "timed_out" /\ now > row.created_at + max_wait_seconds
            \/ row.outcome = "errored" /\ ~row.tracked
            \/ row.outcome \in ScriptedOutcomes(scenario[f]) /\ sessions[f] # None
=============================================================================
