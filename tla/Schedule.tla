------------------------------ MODULE Schedule ------------------------------
(***************************************************************************)
(* app/poller.py on the clock of its client: the rest between two ticks,   *)
(* the backoff of each record, and the limit to how long a session is      *)
(* waited for.  One issue per finding; what webhooks race for is the       *)
(* subject of Service, and no webhook polls here.                          *)
(***************************************************************************)
EXTENDS DevinClient, FiniteSets

CONSTANTS
    Findings,              \* finding keys, each the create of its own claim
    Poller,                \* the poller's loop
    interval_seconds,
    backoff_base_seconds,
    backoff_cap_seconds,
    max_wait_seconds

VARIABLES
    record,   \* finding -> its row, None where there is no row
    loop      \* the poller's loop

scheduleVars == <<record, loop>>

(***************************************************************************)
(* tracked: the row has its devin_id.                                      *)
(***************************************************************************)
Record == [outcome : Outcomes, tracked : BOOLEAN, created_at : Nat,
           next_poll_at : Int \cup {None}, poll_attempts : Nat]

(***************************************************************************)
(* wake is when the rest ends, None during a tick; todo are the due records*)
(* the tick has not come to, polling the one whose session it asks for.    *)
(***************************************************************************)
Loop == [wake : Nat \cup {None}, todo : SUBSET Findings,
         polling : Findings \cup {None}]

ASSUME ScheduleAssumption ==
    /\ Callers = Findings \cup {Poller}
    /\ Poller \notin Findings
    /\ None \notin Findings
    /\ None \notin Int
    /\ None \notin Record
    /\ interval_seconds \in Nat \ {0}
    /\ backoff_base_seconds \in Nat
    /\ backoff_cap_seconds \in Nat
    /\ max_wait_seconds \in Nat

Resting(until) == [wake |-> until, todo |-> {}, polling |-> None]

ScheduleTypeOK ==
    /\ record \in [Findings -> Record \cup {None}]
    /\ loop \in Loop

ScheduleInit ==
    /\ record = [f \in Findings |-> None]
    /\ loop = Resting(0)

Tracked ==
    {f \in Findings : /\ record[f] # None
                      /\ record[f].tracked
                      /\ record[f].outcome = "in_progress"}

Write(f, row) == record' = [record EXCEPT ![f] = row]

Settle(row, outcome) == [row EXCEPT !.outcome = outcome]

(***************************************************************************)
(* A webhook's task claims the finding and creates its session.            *)
(***************************************************************************)
Claim(f) ==
    /\ record[f] = None
    /\ Write(f, [outcome |-> "in_progress", tracked |-> FALSE, created_at |-> now,
                 next_poll_at |-> None, poll_attempts |-> 0])
    /\ Send(f, "POST")
    /\ UNCHANGED loop

\* The session is recorded, or the error; an undecodable reply ends the task.
Created(f) ==
    /\ \/ /\ call[f].pc = "done"
          /\ call[f].reply # None
          /\ Write(f, [record[f] EXCEPT !.tracked = TRUE])
       \/ /\ call[f].pc = "done"
          /\ call[f].reply = None
          /\ UNCHANGED record
       \/ /\ call[f].pc = "failed"
          /\ Write(f, Settle(record[f], "errored"))
    /\ Taken(f)
    /\ UNCHANGED loop

(***************************************************************************)
(* tick: the records whose own gap has elapsed, the oldest first.          *)
(***************************************************************************)
Due_All == Tracked   \* mutant of Due: next_poll_at is not looked at

Due == {f \in Tracked : record[f].next_poll_at = None \/ record[f].next_poll_at <= now}

Tick ==
    /\ loop.wake = now
    /\ loop' = [wake |-> None, todo |-> Due, polling |-> None]
    /\ UNCHANGED <<record, call>>

PollNext(f) ==
    /\ loop.polling = None
    /\ f \in loop.todo
    /\ \A other \in loop.todo : record[f].created_at <= record[other].created_at
    /\ loop' = [loop EXCEPT !.todo = @ \ {f}, !.polling = f]
    /\ Send(Poller, "GET")
    /\ UNCHANGED record

Rest ==
    /\ loop.wake = None
    /\ loop.polling = None
    /\ loop.todo = {}
    /\ loop' = Resting(now + interval_seconds)
    /\ UNCHANGED <<record, call>>

(***************************************************************************)
(* _poll_one, from the client's answer on.                                 *)
(***************************************************************************)
NextGap(poll_attempts) ==
    LET gap == backoff_base_seconds * 2^poll_attempts
    IN  IF gap < backoff_cap_seconds THEN gap ELSE backoff_cap_seconds

CheckTimeout(row) ==
    IF now - row.created_at > max_wait_seconds THEN Settle(row, "timed_out") ELSE row

Widened(row) == [row EXCEPT !.poll_attempts = @ + 1,
                            !.next_poll_at = now + NextGap(row.poll_attempts)]

Answer_Unclassified(row, p) ==   \* mutant of Answer: a running session is settled too
    Settle(row, classify(p))

Answer(row, p) ==
    IF classify(p) = None THEN CheckTimeout(Widened(row))
    ELSE Settle(row, classify(p))

Failure_Ignored(row, auth) ==   \* mutant of Failure: no look at the clock
    IF auth THEN Settle(row, "errored") ELSE row

Failure_Final(row, auth) ==     \* mutant of Failure: it is the session's failure
    Settle(row, IF auth THEN "errored" ELSE "failed")

Failure(row, auth) == IF auth THEN Settle(row, "errored") ELSE CheckTimeout(row)

Polled ==
    LET f == loop.polling
        row == record[f]
    IN  /\ f # None
        /\ \/ /\ call[Poller].pc = "done"
              /\ call[Poller].reply # None
              /\ Write(f, Answer(row, call[Poller].reply))
              /\ loop' = [loop EXCEPT !.polling = None]
           \/ /\ call[Poller].pc = "failed"
              /\ Write(f, Failure(row, call[Poller].auth))
              /\ loop' = [loop EXCEPT !.polling = None]
           \/ /\ call[Poller].pc = "done"                 \* the tick is abandoned
              /\ call[Poller].reply = None
              /\ UNCHANGED record
              /\ loop' = Resting(now + interval_seconds)
        /\ Taken(Poller)

(***************************************************************************)
(* A restart: the rows stay, the coroutines go, the new loop ticks at once.*)
(***************************************************************************)
ScheduleRestart ==
    /\ Dies
    /\ loop' = Resting(now)
    /\ UNCHANGED record

\* The loop rests, or awaits the client.
Quiet == IF loop.wake = None THEN loop.polling # None ELSE now < loop.wake
=============================================================================
