------------------------------ MODULE PollLoop ------------------------------
(***************************************************************************)
(* app/poller.py: the poller's ticks, and the poll of one record, which    *)
(* the poller's loop and a pull request webhook's task both run.           *)
(*                                                                         *)
(* A tick reads the tracked records once and polls them one after another  *)
(* from that snapshot.  The records it skips, because their next_poll_at   *)
(* is still ahead, are an arbitrary subset: the gap is seconds on a clock  *)
(* that is not modelled, and at most POLL_BACKOFF_CAP_SECONDS.             *)
(***************************************************************************)
EXTENDS Runtime

NoTick == [k \in Keys |-> None]

Tick(due) ==
    /\ worker[Poller] = Idle
    /\ tick = NoTick
    /\ due # {}
    /\ due \subseteq NonTerminal
    /\ tick' = [k \in Keys |-> IF k \in due THEN issues[k] ELSE None]
    /\ UNCHANGED <<storeVars, worker, session, merged, overdue, reports>>

\* The tick moves on to a record, as it read it: nothing is read again.
PollNext(k) ==
    /\ worker[Poller] = Idle
    /\ tick[k] # None
    /\ Continue(Poller, [Idle EXCEPT !.pc = "get", !.key = k,
                                     !.issue = tick[k].devin_id, !.copy = tick[k]])
    /\ tick' = [tick EXCEPT ![k] = None]
    /\ UNCHANGED <<storeVars, session, merged, overdue, reports>>

(***************************************************************************)
(* _finalize reads the record again; only an unsettled one is settled and  *)
(* reported.  row is the record at that moment.                            *)
(***************************************************************************)
Finalize_Unread(k, row, outcome) ==   \* mutant of Finalize: the record is not read again
    /\ update(k, [row EXCEPT !.outcome = outcome])
    /\ reports' = [reports EXCEPT ![k] = IF @ = 2 THEN 2 ELSE @ + 1]

Finalize(k, row, outcome) ==
    IF Settled(row)
    THEN update(k, row) /\ UNCHANGED reports
    ELSE /\ update(k, [row EXCEPT !.outcome = outcome])
         /\ reports' = [reports EXCEPT ![k] = IF @ = 2 THEN 2 ELSE @ + 1]

\* _check_timeout: the age of the attempt the worker's copy belongs to.
TimedOut(k, copy) == copy.created_at <= overdue[k]

CheckTimeout_Never(k, row, copy) ==   \* mutant of CheckTimeout: unreachable never times out
    update(k, row) /\ UNCHANGED reports

CheckTimeout(k, row, copy) ==
    IF TimedOut(k, copy) THEN Finalize(k, row, "timed_out")
    ELSE update(k, row) /\ UNCHANGED reports

\* The update that precedes: the pull request of the payload, else the one in
\* the worker's copy, and the ACUs of the payload.
Polled_Sum(k, copy, p) ==   \* mutant of Polled: the ACUs of the polls are added up
    [issues[k] EXCEPT !.acus_consumed = @ + p.acus,
                      !.pr_url = IF HasPullRequest(p) THEN copy.devin_id
                                 ELSE copy.pr_url]

Polled(k, copy, p) ==
    [issues[k] EXCEPT !.acus_consumed = p.acus,
                      !.pr_url = IF HasPullRequest(p) THEN copy.devin_id
                                 ELSE copy.pr_url]

PollAnswered(w) ==
    LET k == worker[w].key
        copy == worker[w].copy
        p == worker[w].reply
    IN  /\ worker[w].pc = "get"
        /\ p # None
        /\ IF classify(p) = None
           THEN CheckTimeout(k, Polled(k, copy, p), copy)
           ELSE Finalize(k, Polled(k, copy, p), classify(p))
        /\ Return(w)
        /\ UNCHANGED <<dedup_events, event_seq, counters, tick, session, merged, overdue>>

\* Out of retries, or an API error: not the session's failure, but the clock runs.
PollUnreachable(w) ==
    /\ worker[w].pc = "get"
    /\ CheckTimeout(worker[w].key, issues[worker[w].key], worker[w].copy)
    /\ Return(w)
    /\ UNCHANGED <<dedup_events, event_seq, counters, tick, session, merged, overdue>>

\* Credentials refused.  A record that is settled already is not even touched.
PollRefused(w) ==
    LET k == worker[w].key
    IN  /\ worker[w].pc = "get"
        /\ IF Settled(issues[k])
           THEN UNCHANGED <<issues, copies, stale, reports>>
           ELSE Finalize(k, issues[k], "errored")
        /\ Return(w)
        /\ UNCHANGED <<dedup_events, event_seq, counters, tick, session, merged, overdue>>

\* A reply that does not decode raises out of _poll_one: _run abandons the tick,
\* _dispatch_pull_request the task.
PollUndecodable(w) ==
    /\ worker[w].pc = "get"
    /\ Return(w)
    /\ tick' = IF w = Poller THEN NoTick ELSE tick
    /\ UNCHANGED <<storeVars, session, merged, overdue, reports>>
=============================================================================
