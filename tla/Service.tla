------------------------------ MODULE Service ------------------------------
(***************************************************************************)
(* The orchestrator and the poller at work on one store, with the Devin    *)
(* API, GitHub and the clock around them, and with restarts.               *)
(***************************************************************************)
EXTENDS Orchestrator, PollLoop

CONSTANTS
    MaxIssueEvents,      \* bound: issue webhooks that pass the gates
    MaxPullEvents,       \* bound: pull request webhooks that start a poll
    MaxCrashes,          \* bound: restarts
    CreateOutlivesClaim  \* whether a create may take over STALE_CLAIM_SECONDS

VARIABLES
    delivered,  \* issue events so far
    pulled,     \* pull request events so far
    crashes     \* restarts so far

boundVars == <<delivered, pulled, crashes>>
vars == <<storeVars, runtimeVars, boundVars>>

ASSUME ServiceAssumption ==
    /\ MaxIssueEvents \in Nat
    /\ MaxPullEvents \in Nat
    /\ MaxCrashes \in Nat
    /\ CreateOutlivesClaim \in BOOLEAN

TypeOK ==
    /\ StoreTypeOK
    /\ RuntimeTypeOK
    /\ delivered \in Nat
    /\ pulled \in Nat
    /\ crashes \in Nat

Init ==
    /\ StoreInit
    /\ RuntimeInit
    /\ delivered = 0
    /\ pulled = 0
    /\ crashes = 0

-----------------------------------------------------------------------------
(***************************************************************************)
(* Webhooks.  A background task runs from its 200 to its first await.      *)
(***************************************************************************)
IssueEvent(t, n, k) ==
    /\ delivered < MaxIssueEvents
    /\ delivered' = delivered + 1
    /\ HandleIssueEvent(t, n, k)
    /\ UNCHANGED <<pulled, crashes>>

PullRequestEvent(t, k) ==
    /\ pulled < MaxPullEvents
    /\ pulled' = pulled + 1
    /\ HandlePullRequestEvent(t, k)
    /\ UNCHANGED <<delivered, crashes>>

Handler(t) ==
    /\ \/ PullRequestAnswered(t)
       \/ IssueAnswered(t)
       \/ SessionCreated(t)
       \/ CreateFailed(t)
       \/ CreateUndecodable(t)
    /\ UNCHANGED boundVars

Poll(w) ==
    /\ \/ PollAnswered(w)
       \/ PollUnreachable(w)
       \/ PollRefused(w)
       \/ Undecodable /\ PollUndecodable(w)
    /\ UNCHANGED boundVars

PollerLoop ==
    /\ \/ \E due \in SUBSET Keys : Tick(due)
       \/ \E k \in Keys : PollNext(k)
    /\ UNCHANGED boundVars

-----------------------------------------------------------------------------
(***************************************************************************)
(* The Devin API.                                                          *)
(***************************************************************************)
\* POST: a devin_id that is taken answers 409.  The answer to a POST that
\* landed may be lost, and the client's retry then finds the id taken.
ServePost(t) ==
    LET n == worker[t].issue
    IN  /\ worker[t].pc = "post"
        /\ worker[t].reply = None
        /\ \/ /\ ~Started(n)
              /\ session' = [session EXCEPT ![n] = Fresh]
              /\ \/ worker' = [worker EXCEPT ![t].reply = Fresh]
                 \/ UNCHANGED worker
           \/ /\ Started(n)
              /\ worker' = [worker EXCEPT ![t].pc = "adopt"]
              /\ UNCHANGED session
        /\ UNCHANGED <<storeVars, tick, merged, overdue, reports, boundVars>>

ServeGet(w) ==
    /\ worker[w].pc \in {"adopt", "get"}
    /\ worker[w].reply = None
    /\ Started(worker[w].issue)
    /\ worker' = [worker EXCEPT ![w].reply = session[worker[w].issue]]
    /\ UNCHANGED <<storeVars, tick, session, merged, overdue, reports, boundVars>>

SessionMoves(n) ==
    /\ Started(n)
    /\ \E p \in Payloads :
          /\ MayBecome(session[n], p)
          /\ p # session[n]
          /\ session' = [session EXCEPT ![n] = p]
    /\ UNCHANGED <<storeVars, worker, tick, merged, overdue, reports, boundVars>>

(***************************************************************************)
(* GitHub: the pull request of a session is merged.  Issues and pull       *)
(* requests that open and close are in the answers the tasks get.          *)
(***************************************************************************)
Merge(n) ==
    /\ Started(n)
    /\ HasPullRequest(session[n])
    /\ merged' = merged \cup {n}
    /\ UNCHANGED <<storeVars, worker, tick, session, overdue, reports, boundVars>>

(***************************************************************************)
(* The clock.                                                              *)
(***************************************************************************)
\* STALE_CLAIM_SECONDS pass over a claim without a session.
ClaimAges(k) ==
    /\ Claimed(k)
    /\ issues[k].devin_id = None
    /\ k \notin stale
    /\ CreateOutlivesClaim \/ Creators(k) = {}
    /\ stale' = stale \cup {k}
    /\ UNCHANGED <<issues, dedup_events, event_seq, counters, copies, runtimeVars, boundVars>>

\* SESSION_MAX_WAIT_SECONDS pass over the oldest attempt not yet overdue.
AttemptOverdue(k) ==
    /\ Claimed(k)
    /\ overdue[k] < issues[k].created_at
    /\ overdue' = [overdue EXCEPT ![k] = @ + 1]
    /\ UNCHANGED <<storeVars, worker, tick, session, merged, reports, boundVars>>

(***************************************************************************)
(* The process dies and comes back: SQLite keeps its tables, every         *)
(* coroutine is gone.  The new poller reads the records in its first tick. *)
(***************************************************************************)
Restart ==
    /\ crashes < MaxCrashes
    /\ crashes' = crashes + 1
    /\ worker' = [w \in Workers |-> Idle]
    /\ tick' = NoTick
    /\ copies' = [k \in Keys |-> {}]
    /\ UNCHANGED <<issues, dedup_events, event_seq, counters, stale, session, merged,
                   overdue, reports, delivered, pulled>>

-----------------------------------------------------------------------------
\* What goes on without a new webhook and without a restart.
Underway ==
    \/ \E t \in Tasks : Handler(t)
    \/ \E t \in Tasks : ServePost(t)
    \/ \E w \in Workers : Poll(w) \/ ServeGet(w)
    \/ PollerLoop
    \/ \E n \in Issues : SessionMoves(n) \/ Merge(n)
    \/ \E k \in Keys : ClaimAges(k) \/ AttemptOverdue(k)

Next ==
    \/ \E t \in Tasks, n \in Issues, k \in Keys : IssueEvent(t, n, k)
    \/ \E t \in Tasks, k \in Keys : PullRequestEvent(t, k)
    \/ Underway
    \/ Restart

Spec == Init /\ [][Next]_vars

(***************************************************************************)
(* Fairness.  Every request is answered or fails: httpx times out and the  *)
(* client retries a bounded number of times.  The loop runs what is ready: *)
(* answers are handled and a tick goes on to its next record.  The poller  *)
(* ticks for ever, a record that still runs is due again within            *)
(* POLL_BACKOFF_CAP_SECONDS, hence again and again (strong fairness: it is *)
(* not due while a tick runs).  Time passes.  Nothing is assumed of the    *)
(* webhooks, of the sessions, or of what the answers say.                  *)
(***************************************************************************)
Fairness ==
    /\ \A t \in Tasks : WF_vars(Handler(t)) /\ WF_vars(ServePost(t))
    /\ \A w \in Workers : WF_vars(Poll(w)) /\ WF_vars(ServeGet(w))
    /\ \A k \in Keys :
          /\ WF_vars(PollNext(k) /\ UNCHANGED boundVars)
          /\ SF_vars(\E due \in SUBSET Keys :
                        k \in due /\ Tick(due) /\ UNCHANGED boundVars)
          /\ WF_vars(AttemptOverdue(k))

FairSpec == Spec /\ Fairness

-----------------------------------------------------------------------------
(***************************************************************************)
(* Safety.                                                                 *)
(***************************************************************************)
\* The counters tell what dedup_events tells: as many skips as events, and
\* every skip that was taken back is a finding reclaimed.  A provisional skip
\* (handle_issue_event) is written before GitHub is asked and undone after it.
SkipsMatchEvents ==
    /\ counters.dedup_skips = Cardinality(dedup_events)
    /\ event_seq = counters.dedup_skips + counters.findings_reclaimed

\* No two tasks create a session for the same claim, and a task that creates
\* one still holds the claim it creates it for (_create_session writes the
\* record without looking at it again).
CreatorOwnsClaim ==
    \A t \in Tasks : worker[t].pc \in Creating =>
        LET k == worker[t].key
        IN  /\ Creators(k) = {t}
            /\ issues[k].issue = worker[t].issue
            /\ issues[k].devin_id = None
            /\ ~Settled(issues[k])

PendingClaim(k) ==
    Claimed(k) /\ ~Settled(issues[k]) /\ issues[k].devin_id = None

\* Task t creates the session of the attempt on record.
CreatesFor(t, k) ==
    /\ worker[t].pc \in Creating
    /\ worker[t].key = k
    /\ worker[t].issue = issues[k].issue

\* An open claim that no task creates a session for.
Left(k) == PendingClaim(k) /\ ~\E t \in Tasks : CreatesFor(t, k)

\* Every attempt costs at most one session, however many webhooks raced.
\* (For findings whose issues always parse to the same key.)
OneSessionPerAttempt ==
    \A k \in Keys :
        LET paid == {n \in Issues : Body[n] = {k} /\ Started(n)}
        IN  paid # {} => Claimed(k) /\ Cardinality(paid) <= issues[k].created_at

\* The results on a record are those of its own attempt's session: "the
\* abandoned attempt's results must not leak into the new one".
ResultsAreOwn ==
    \A k \in Keys : Claimed(k) =>
        /\ issues[k].devin_id \in {None, issues[k].issue}
        /\ issues[k].pr_url \in {None, issues[k].devin_id}

\* The on_terminal callback runs at most once per attempt.
ReportedOnce == \A k \in Keys : reports[k] <= 1

\* Nothing recorded is ahead of the Devin API: a recorded session exists, has
\* consumed what is recorded, and has opened the recorded pull request.
RecordedHappened ==
    \A k \in Keys : Claimed(k) =>
        /\ issues[k].devin_id # None =>
              /\ Started(issues[k].devin_id)
              /\ issues[k].acus_consumed <= session[issues[k].devin_id].acus
        /\ issues[k].pr_url # None =>
              /\ Started(issues[k].pr_url)
              /\ HasPullRequest(session[issues[k].pr_url])

\* An outcome is one the session gave reason for: "failed" only when the API
\* says so, a success with something to show, a timeout past the limit.  (For
\* payloads whose evidence lasts: Finished and Fixed sessions do not resume.)
OutcomeEvidenced ==
    \A k \in Keys : Claimed(k) /\ issues[k].devin_id # None =>
        LET row == issues[k]
            p == session[row.devin_id]
        IN  /\ row.outcome = "failed" => Erred(p)
            /\ row.outcome = "succeeded" => HasPullRequest(p) \/ Fixed(p)
            /\ row.outcome = "declined" => Finished(p) /\ ~Fixed(p)
            /\ row.outcome = "timed_out" => row.created_at <= overdue[k]

\* DRY_RUN exercises webhooks and dedup "without spending ACUs" and "stays out
\* of the metrics denominator" (records with a session or an outcome).
DryRunSpendsNothing ==
    /\ \A n \in Issues : ~Started(n)
    /\ \A k \in Keys : Claimed(k) => PendingClaim(k)

(***************************************************************************)
(* What a step may never do.                                               *)
(***************************************************************************)
\* "a session running still wins the dedup": an attempt is only ever replaced
\* by another issue's once it is settled.
OnlySettledReplaced ==
    [][\A k \in Keys : Claimed(k) /\ issues'[k].issue # issues[k].issue
          => Settled(issues[k])]_vars

\* Its create ends without an entry on the record: the reply does not decode, or
\* the UNIQUE index on devin_id refuses the session, which another record holds.
GivenUp(k) ==
    \E t \in Tasks :
        /\ CreatesFor(t, k)
        /\ \/ CreateUndecodable(t)
           \/ SessionCreated(t) /\ HeldElsewhere(k, issues[k].issue)

\* The issue of a claim older than STALE_CLAIM_SECONDS is delivered again.
StaleRedelivered(k) ==
    k \in stale /\ \E t \in Tasks : IssueEvent(t, issues[k].issue, k)

\* An open claim keeps a task that creates its session until it has the session
\* or an error.  A step leaves it with none only if the process dies or its create
\* ends in an exception (_dispatch logs it and writes nothing); and no claim is
\* still left after its issue is delivered again once it is stale (claim_finding
\* resumes it).  DRY_RUN leaves every claim it makes.
ClaimKeepsCreator ==
    [][~DryRun => \A k \in Keys : Left(k)' =>
          \/ Left(k) /\ ~StaleRedelivered(k)
          \/ GivenUp(k)
          \/ Restart]_vars

\* A settled record keeps its outcome, its pull request and its ACUs ("the ACUs
\* are snapshotted at that tick") until the finding is claimed again.
SettledIsFinal ==
    [][\A k \in Keys : Claimed(k) /\ Settled(issues[k]) /\ issues'[k] # issues[k]
          => issues'[k].outcome = "in_progress" /\ issues'[k].devin_id = None]_vars

\* The weaker promise of _finalize's second look at the record: a poll that
\* comes late does not change how an attempt ended.
OutcomeIsFinal ==
    [][\A k \in Keys : Claimed(k) /\ Settled(issues[k])
          => issues'[k].outcome \in {issues[k].outcome, "in_progress"}
             /\ (issues'[k].outcome = "in_progress" => issues'[k].devin_id = None)]_vars

(***************************************************************************)
(* What must happen in the end.                                            *)
(***************************************************************************)
\* A session on record is settled in the end, restarts or not, even if the API
\* never answers again: the next process polls it, and the wait has a limit.  For
\* replies that decode: one that does not keeps the poll from looking at the time.
TrackedSettles ==
    ~Undecodable => \A k \in Keys : (k \in NonTerminal) ~> (k \notin NonTerminal)

\* A claim that a task creates the session for gets it or an error, unless the
\* process dies over it, or another record turns out to hold the session (the
\* UNIQUE index on devin_id).  For replies that decode: see GivenUp.
ClaimAnswered ==
    ~Undecodable =>
        \A k \in Keys, c \in 0..MaxCrashes :
            (PendingClaim(k) /\ ~Left(k) /\ crashes = c)
                ~> \/ ~PendingClaim(k)
                   \/ Left(k) /\ HeldElsewhere(k, issues[k].issue)
                   \/ crashes > c

(***************************************************************************)
(* What the documentation says and the code does not always keep: each of  *)
(* these is refuted by a run of its own.  Where pull request webhooks poll *)
(* too, ResultsAreOwn is refuted as well, and ReportedOnce where a create  *)
(* outlives its claim.                                                     *)
(***************************************************************************)
\* README: "the ACUs are snapshotted at that tick" at which the pull request
\* settles the session; what it consumes later does not count.
SnapshotIsFinal ==
    [][\A k \in Keys :
          /\ Claimed(k)
          /\ issues[k].outcome = "succeeded"
          /\ issues'[k].outcome = "succeeded"
          => issues'[k].acus_consumed = issues[k].acus_consumed]_vars

\* README: "A merged PR ... still wins the dedup" when the finding is refiled.
MergedFixWins ==
    [][\A k \in Keys : Claimed(k) /\ issues'[k].issue # issues[k].issue
          => issues[k].pr_url \notin merged]_vars

\* The same of a record that counts as a success, about whose pull request the
\* orchestrator does ask GitHub: "a prior succeeded record only blocks a refile
\* while the fix is still live".
MergedSuccessWins ==
    [][\A k \in Keys :
          /\ Claimed(k)
          /\ issues'[k].issue # issues[k].issue
          /\ issues[k].outcome = "succeeded"
          => issues[k].pr_url \notin merged]_vars

\* README: all state is in SQLite, so a restart "loses nothing": every claim is
\* answered with a session or an error in the end.
RestartLosesNothing == \A k \in Keys : PendingClaim(k) ~> ~PendingClaim(k)

(***************************************************************************)
(* The abstract life of a finding.                                         *)
(***************************************************************************)
Owner == [k \in Keys |-> IF Claimed(k) THEN issues[k].issue ELSE None]

StageOf(row) ==
    IF Settled(row) THEN "settled"
    ELSE IF row.devin_id = None THEN "claimed" ELSE "working"

Stage == [k \in Keys |-> IF Claimed(k) THEN StageOf(issues[k]) ELSE "free"]

Lifecycle == INSTANCE FindingLifecycle WITH owner <- Owner, stage <- Stage

\* Every step is a step of FindingLifecycle, or changes nothing it speaks of.
FollowsLifecycle == Lifecycle!Spec
=============================================================================
