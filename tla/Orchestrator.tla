---------------------------- MODULE Orchestrator ----------------------------
(***************************************************************************)
(* app/orchestrator.py: what a background task does with an issue event,   *)
(* from the claim to the recorded session, and with a pull request event.  *)
(* A task's comments on GitHub change no state and are left out.           *)
(***************************************************************************)
EXTENDS Runtime

CONSTANTS
    Body,         \* issue -> the finding keys its body may parse to (it can be edited)
    DryRun,       \* DRY_RUN: claim, but create no session
    Undecodable   \* whether a reply of an API may fail to decode

ASSUME OrchestratorAssumption ==
    /\ Body \in [Issues -> SUBSET Keys]
    /\ DryRun \in BOOLEAN
    /\ Undecodable \in BOOLEAN

(***************************************************************************)
(* _create_session up to its first await.  With DRY_RUN it writes tags and *)
(* status, which are not modelled, and returns.                            *)
(***************************************************************************)
CreateSession_Always(t, k, n) ==   \* mutant of CreateSession: dry_run is not looked at
    Continue(t, [Idle EXCEPT !.pc = "post", !.key = k, !.issue = n])

CreateSession(t, k, n) ==
    IF DryRun THEN Return(t)
    ELSE Continue(t, [Idle EXCEPT !.pc = "post", !.key = k, !.issue = n])

\* An acquired attempt has reported nothing yet.
NewAttempt(k) == reports' = [reports EXCEPT ![k] = 0]

(***************************************************************************)
(* handle_issue_event, and _maybe_reclaim up to its first await: a settled *)
(* record is questioned, one in progress stands.                           *)
(***************************************************************************)
Acquire(t, n, k) ==
    /\ \/ ClaimNew(k, n)
       \/ ClaimReclaimed(k, n)
    /\ CreateSession(t, k, n)
    /\ NewAttempt(k)

Resume_Quiet(t, n, k) ==   \* mutant of Resume: the claim is renewed, nothing is created
    /\ ClaimResumed(k, n)
    /\ UNCHANGED <<worker, reports>>

Resume(t, n, k) ==
    /\ ClaimResumed(k, n)
    /\ CreateSession(t, k, n)
    /\ UNCHANGED reports

IgnoreRedelivery(n, k) ==
    /\ ClaimRedelivery(k, n)
    /\ UNCHANGED <<worker, copies, reports>>

SkipLive(n, k) ==
    /\ ClaimDuplicate(k, n)
    /\ ~Settled(issues[k])
    /\ UNCHANGED <<worker, copies, reports>>

\* A record with a pull request is asked about at GitHub, then its issue.
FirstQuestion(row) == IF row.pr_url # None THEN "ask_pr" ELSE "ask_issue"

Question(t, n, k) ==
    /\ ClaimDuplicate(k, n)
    /\ Settled(issues[k])
    /\ Keep(t, k)
    /\ Continue(t, [Idle EXCEPT !.pc = FirstQuestion(issues[k]), !.key = k,
                                !.issue = n, !.copy = issues[k]])
    /\ UNCHANGED reports

HandleIssueEvent(t, n, k) ==
    /\ worker[t] = Idle
    /\ k \in Body[n]
    /\ \/ Acquire(t, n, k)
       \/ Resume(t, n, k)
       \/ IgnoreRedelivery(n, k)
       \/ SkipLive(n, k)
       \/ Question(t, n, k)
    /\ UNCHANGED <<tick, session, merged, overdue>>

(***************************************************************************)
(* The rest of _abandoned_reason and _maybe_reclaim.                       *)
(***************************************************************************)
\* The skip stands: the previous attempt blocks this issue.
Skip(t) ==
    /\ Forget(t)
    /\ Return(t)
    /\ UNCHANGED <<issues, dedup_events, event_seq, counters, stale, reports>>

\* The previous attempt is dead: take the finding over, unless somebody wrote
\* the record since t read it.
Reclaim(t) ==
    LET k == worker[t].key
        n == worker[t].issue
    IN  \/ /\ ReclaimWon(t, k, n)
           /\ CreateSession(t, k, n)
           /\ NewAttempt(k)
       \/ /\ ReclaimLost(t, k)
          /\ Return(t)
          /\ UNCHANGED reports

\* GitHub answers "merged" for a merged pull request; otherwise it is open,
\* closed, or the question fails.
PullRequestAnswered(t) ==
    /\ worker[t].pc = "ask_pr"
    /\ \/ Skip(t)                                        \* merged, unreachable, unreadable
       \/ /\ worker[t].copy.pr_url \notin merged         \* closed unmerged
          /\ Reclaim(t)
       \/ /\ worker[t].copy.pr_url \notin merged         \* still open
          /\ Continue(t, [worker[t] EXCEPT !.pc = "ask_issue"])
          /\ UNCHANGED <<storeVars, reports>>
    /\ UNCHANGED <<tick, session, merged, overdue>>

\* A success without a pull request is dead even while its issue is open.
Unfounded(row) == row.pr_url = None /\ row.outcome = "succeeded"

IssueAnswered(t) ==
    /\ worker[t].pc = "ask_issue"
    /\ \/ Reclaim(t)                                     \* the issue is closed
       \/ ~Unfounded(worker[t].copy) /\ Skip(t)          \* open, or unreachable
       \/ Undecodable /\ Skip(t)                         \* response.json() raises
    /\ UNCHANGED <<tick, session, merged, overdue>>

(***************************************************************************)
(* _create_session from the answer of create_session on.                   *)
(***************************************************************************)
\* The UNIQUE index on devin_id refuses a session another record holds.
HeldElsewhere(k, n) == \E j \in Keys \ {k} : Claimed(j) /\ issues[j].devin_id = n

SessionCreated(t) ==
    LET k == worker[t].key
        n == worker[t].issue
    IN  /\ worker[t].pc \in Creating
        /\ worker[t].reply # None
        /\ counters' = IF worker[t].pc = "adopt"
                       THEN [counters EXCEPT !.sessions_reused_409 = @ + 1]
                       ELSE counters
        /\ IF HeldElsewhere(k, n)
           THEN UNCHANGED <<issues, copies, stale>>      \* IntegrityError: task ends
           ELSE update(k, [issues[k] EXCEPT !.devin_id = n,
                                            !.acus_consumed = worker[t].reply.acus,
                                            !.outcome = "in_progress"])
        /\ Return(t)
        /\ UNCHANGED <<dedup_events, event_seq, tick, session, merged, overdue, reports>>

\* Mutant of CreateFailed: the error is logged but not recorded.
CreateFailed_Unrecorded(t) ==
    /\ worker[t].pc \in Creating
    /\ Return(t)
    /\ UNCHANGED <<storeVars, tick, session, merged, overdue, reports>>

\* DevinAPIError: rejected, or out of retries, whether or not the POST landed.
CreateFailed(t) ==
    LET k == worker[t].key
    IN  /\ worker[t].pc \in Creating
        /\ update(k, [issues[k] EXCEPT !.outcome = "errored"])
        /\ Return(t)
        /\ UNCHANGED <<dedup_events, event_seq, counters, tick, session, merged,
                       overdue, reports>>

\* Any other exception ends the task in _dispatch, with the claim left as it is.
CreateUndecodable(t) ==
    /\ Undecodable
    /\ worker[t].pc \in Creating
    /\ Return(t)
    /\ UNCHANGED <<storeVars, tick, session, merged, overdue, reports>>

(***************************************************************************)
(* handle_pull_request_event: the record of the issue the pull request     *)
(* refers to is polled out of band (poll_now) if it is still tracked.      *)
(***************************************************************************)
\* poll_now: the poll of the record as it is now, up to its first await.
StartPoll(t, k) ==
    /\ Continue(t, [Idle EXCEPT !.pc = "get", !.key = k,
                                !.issue = issues[k].devin_id, !.copy = issues[k]])
    /\ UNCHANGED <<storeVars, tick, session, merged, overdue, reports>>

HandlePullRequestEvent(t, k) ==
    /\ worker[t] = Idle
    /\ k \in NonTerminal
    /\ StartPoll(t, k)
=============================================================================
