--------------------------- MODULE ServiceProofs ---------------------------
(***************************************************************************)
(* Theorems about Service for all values of its constants: type            *)
(* correctness, the accounting of skips, and that only a settled attempt   *)
(* is replaced.                                                            *)
(***************************************************************************)
EXTENDS Service, FiniteSetTheorems, TLAPS

USE DevinAssumption, StoreAssumption, RuntimeAssumption, OrchestratorAssumption,
    ServiceAssumption

-----------------------------------------------------------------------------
(***************************************************************************)
(* The inductive invariant.  TypeOK alone is not inductive: a worker       *)
(* writes the row of its key, which must be there.                         *)
(***************************************************************************)
\* A worker that waits for an answer works on a row that exists.
OnClaim(x, table) ==
    /\ x.pc # "idle" =>
          x.key \in Keys /\ table[x.key] # None /\ x.issue \in Issues
    /\ x.pc \in {"get"} \cup Asking => x.copy \in Row

WorkersOnClaims == \A w \in Workers : OnClaim(worker[w], issues)

TickOnClaims ==
    \A k \in Keys : tick[k] # None =>
        /\ Claimed(k)
        /\ tick[k] \in Row
        /\ tick[k].devin_id \in Issues

Shape == TypeOK /\ WorkersOnClaims /\ TickOnClaims

-----------------------------------------------------------------------------
(***************************************************************************)
(* Lemmas about the operators.                                             *)
(***************************************************************************)
\* update replaces one row, makes every copy of it outdated, and keeps the types.
LEMMA UpdateRow ==
    ASSUME StoreTypeOK, NEW k \in Keys, NEW row \in Row, update(k, row)
    PROVE  /\ issues' \in [Keys -> Row \cup {None}]
           /\ copies' \in [Keys -> SUBSET Tasks]
           /\ stale' \subseteq Keys
           /\ issues'[k] = row
           /\ \A j \in Keys : j # k => issues'[j] = issues[j]
           /\ copies'[k] = {}
           /\ \A j \in Keys : j # k => copies'[j] = copies[j]
           /\ \A j \in Keys : Claimed(j) => Claimed(j)'
           /\ Claimed(k)'
  BY DEF StoreTypeOK, update, Claimed

LEMMA AttemptIsRow ==
    ASSUME NEW n \in Issues, NEW created \in Nat \ {0}
    PROVE  Attempt(n, created) \in Row
  BY DEF Attempt, Row, Outcomes

LEMMA IdleIsWork == Idle \in Work /\ \A table : OnClaim(Idle, table)
  BY DEF Idle, Work, OnClaim, Asking

LEMMA ClassifyOutcome == ASSUME NEW p PROVE classify(p) \in TERMINAL_OUTCOMES \cup {None}
  BY DEF classify, TERMINAL_OUTCOMES

\* The row of a claim, and what a writer makes of it.
LEMMA ClaimedRow == ASSUME StoreTypeOK, NEW k \in Keys, Claimed(k) PROVE issues[k] \in Row
  BY DEF StoreTypeOK, Claimed

LEMMA RowWithOutcome ==
    ASSUME NEW row \in Row, NEW outcome \in Outcomes
    PROVE  [row EXCEPT !.outcome = outcome] \in Row
  BY DEF Row

\* No step deletes a row: a worker that goes on with well-formed work leaves all
\* workers at work on rows that exist.
LEMMA ContinueOnClaims ==
    ASSUME Shape, NEW w \in Workers, NEW work \in Work, Continue(w, work),
           \A j \in Keys : Claimed(j) => Claimed(j)',
           OnClaim(work, issues')
    PROVE  worker' \in [Workers -> Work] /\ WorkersOnClaims'
  <1>1. worker' \in [Workers -> Work]
    BY DEF Shape, TypeOK, RuntimeTypeOK, Continue
  <1>2. ASSUME NEW v \in Workers PROVE OnClaim(worker[v], issues)'
    <2>1. CASE v = w
      <3>1. worker'[v] = work
        BY <2>1 DEF Shape, TypeOK, RuntimeTypeOK, Continue
      <3> QED
        BY <3>1 DEF OnClaim
    <2>2. CASE v # w
      <3>1. worker'[v] = worker[v]
        BY <2>2 DEF Shape, TypeOK, RuntimeTypeOK, Continue
      <3> QED
        BY <3>1 DEF OnClaim, Shape, WorkersOnClaims, Claimed
    <2> QED
      BY <2>1, <2>2
  <1> QED
    BY <1>1, <1>2 DEF WorkersOnClaims

LEMMA ReturnOnClaims ==
    ASSUME Shape, NEW w \in Workers, Return(w),
           \A j \in Keys : Claimed(j) => Claimed(j)'
    PROVE  worker' \in [Workers -> Work] /\ WorkersOnClaims'
  BY IdleIsWork, ContinueOnClaims DEF Return

\* The initial state.
LEMMA ShapeInit == Init => Shape
  <1> SUFFICES ASSUME Init PROVE Shape
    OBVIOUS
  <1> USE DEF Init, StoreInit, RuntimeInit
  <1>1. StoreTypeOK
    BY DEF StoreTypeOK, Row, Counters
  <1>2. RuntimeTypeOK
    BY IdleIsWork DEF RuntimeTypeOK
  <1>3. WorkersOnClaims
    BY IdleIsWork DEF WorkersOnClaims
  <1>4. TickOnClaims
    BY DEF TickOnClaims
  <1> QED
    BY <1>1, <1>2, <1>3, <1>4 DEF Shape, TypeOK

-----------------------------------------------------------------------------
(***************************************************************************)
(* Shape is preserved, one lemma per group of actions.                     *)
(***************************************************************************)
\* What a claim or a reclaim does to the types, whichever way it goes.
LEMMA LogType ==
    ASSUME StoreTypeOK, NEW k \in Keys, NEW n \in Issues,
           NEW scenario \in {"redelivery", "duplicate_finding"}, Log(k, n, scenario)
    PROVE  dedup_events' \subseteq Event /\ event_seq' \in Nat
  BY DEF StoreTypeOK, Log, Event

\* The two ways in which a transaction moves a pair of counters.
LEMMA CountersMove ==
    ASSUME NEW c \in Counters
    PROVE  /\ [c EXCEPT !.dedup_skips = @ + 1, !.redeliveries_ignored = @ + 1] \in Counters
           /\ [c EXCEPT !.dedup_skips = @ - 1, !.findings_reclaimed = @ + 1] \in Counters
  <1>1. /\ c.dedup_skips + 1 \in Int /\ c.dedup_skips - 1 \in Int
        /\ c.redeliveries_ignored + 1 \in Nat /\ c.findings_reclaimed + 1 \in Nat
    BY DEF Counters
  <1> QED
    BY <1>1 DEF Counters

LEMMA AcquireStore ==
    ASSUME StoreTypeOK, NEW k \in Keys, NEW n \in Issues,
           ClaimNew(k, n) \/ ClaimReclaimed(k, n) \/ ClaimResumed(k, n)
    PROVE  StoreTypeOK' /\ Claimed(k)' /\ \A j \in Keys : Claimed(j) => Claimed(j)'
  <1>1. PICK row \in Row : update(k, row)
    <2>1. CASE ClaimNew(k, n)
      BY <2>1, AttemptIsRow DEF ClaimNew
    <2>2. CASE ClaimReclaimed(k, n)
      <3>1. issues[k].created_at + 1 \in Nat \ {0}
        BY <2>2, ClaimedRow DEF ClaimReclaimed, Row
      <3> QED
        BY <2>2, <3>1, AttemptIsRow DEF ClaimReclaimed
    <2>3. CASE ClaimResumed(k, n)
      BY <2>3, ClaimedRow, RowWithOutcome DEF ClaimResumed, Outcomes
    <2> QED
      BY <2>1, <2>2, <2>3
  <1>2. UNCHANGED <<dedup_events, event_seq, counters>>
    BY DEF ClaimNew, ClaimReclaimed, ClaimResumed
  <1> QED
    BY <1>1, <1>2, UpdateRow DEF StoreTypeOK

LEMMA CreateSessionShape ==
    ASSUME Shape, NEW t \in Tasks, NEW k \in Keys, NEW n \in Issues,
           CreateSession(t, k, n), Claimed(k)',
           \A j \in Keys : Claimed(j) => Claimed(j)'
    PROVE  worker' \in [Workers -> Work] /\ WorkersOnClaims'
  <1>1. CASE DryRun
    BY <1>1, ReturnOnClaims DEF CreateSession, Workers
  <1>2. CASE ~DryRun
    <2> DEFINE work == [Idle EXCEPT !.pc = "post", !.key = k, !.issue = n]
    <2>1. work \in Work
      BY DEF Idle, Work, Creating
    <2>2. OnClaim(work, issues')
      BY DEF Idle, OnClaim, Claimed, Asking
    <2>3. Continue(t, work)
      BY <1>2 DEF CreateSession
    <2> QED
      BY <2>1, <2>2, <2>3, ContinueOnClaims DEF Workers
  <1> QED
    BY <1>1, <1>2

LEMMA TickKept ==
    ASSUME TickOnClaims, UNCHANGED tick, \A j \in Keys : Claimed(j) => Claimed(j)'
    PROVE  TickOnClaims'
  BY DEF TickOnClaims

LEMMA ReportsType ==
    ASSUME RuntimeTypeOK, NEW k \in Keys,
           NewAttempt(k) \/ UNCHANGED reports
    PROVE  reports' \in [Keys -> 0..2]
  BY DEF RuntimeTypeOK, NewAttempt

LEMMA ShapeIssueEvent ==
    ASSUME Shape, NEW t \in Tasks, NEW n \in Issues, NEW k \in Keys, IssueEvent(t, n, k)
    PROVE  Shape'
  <1> USE DEF Shape, TypeOK
  <1>1. HandleIssueEvent(t, n, k) /\ delivered' \in Nat /\ UNCHANGED <<pulled, crashes>>
    BY DEF IssueEvent
  <1>2. UNCHANGED <<tick, session, merged, overdue>>
    BY <1>1 DEF HandleIssueEvent
  <1>3. t \in Workers
    BY DEF Workers
  <1>4. CASE Acquire(t, n, k) \/ Resume(t, n, k)
    <2>1. /\ StoreTypeOK' /\ Claimed(k)' /\ \A j \in Keys : Claimed(j) => Claimed(j)'
          /\ CreateSession(t, k, n)
          /\ NewAttempt(k) \/ UNCHANGED reports
      BY <1>4, AcquireStore DEF Acquire, Resume
    <2>2. worker' \in [Workers -> Work] /\ WorkersOnClaims'
      BY <2>1, CreateSessionShape
    <2> QED
      BY <1>1, <1>2, <2>1, <2>2, TickKept, ReportsType DEF RuntimeTypeOK
  <1>5. CASE IgnoreRedelivery(n, k) \/ SkipLive(n, k)
    <2>1. dedup_events' \subseteq Event /\ event_seq' \in Nat
      BY <1>5, LogType DEF IgnoreRedelivery, SkipLive, ClaimRedelivery, ClaimDuplicate
    <2>2. counters' \in Counters
      <3>1. counters \in Counters
        BY DEF StoreTypeOK
      <3>2. CASE IgnoreRedelivery(n, k)
        BY <3>1, <3>2, CountersMove DEF IgnoreRedelivery, ClaimRedelivery
      <3>3. CASE SkipLive(n, k)
        BY <3>1, <3>3 DEF SkipLive, ClaimDuplicate, Counters
      <3> QED
        BY <1>5, <3>2, <3>3
    <2>3. UNCHANGED <<issues, stale, copies, worker, reports>>
      BY <1>5 DEF IgnoreRedelivery, SkipLive, ClaimRedelivery, ClaimDuplicate
    <2> QED
      BY <1>1, <1>2, <2>1, <2>2, <2>3
         DEF StoreTypeOK, RuntimeTypeOK, WorkersOnClaims, OnClaim, TickOnClaims, Claimed
  <1>6. CASE Question(t, n, k)
    <2>1. dedup_events' \subseteq Event /\ event_seq' \in Nat
      BY <1>6, LogType DEF Question, ClaimDuplicate
    <2>2. counters' \in Counters
      BY <1>6 DEF Question, ClaimDuplicate, StoreTypeOK, Counters
    <2>3. UNCHANGED <<issues, stale, reports>> /\ copies' \in [Keys -> SUBSET Tasks]
      BY <1>6 DEF Question, ClaimDuplicate, Keep, StoreTypeOK
    <2>4. StoreTypeOK' /\ \A j \in Keys : Claimed(j) => Claimed(j)'
      BY <2>1, <2>2, <2>3 DEF StoreTypeOK, Claimed
    <2> DEFINE work == [Idle EXCEPT !.pc = FirstQuestion(issues[k]), !.key = k,
                                    !.issue = n, !.copy = issues[k]]
    <2>5. Claimed(k) /\ issues[k] \in Row /\ Continue(t, work)
      BY <1>6, ClaimedRow DEF Question, ClaimDuplicate
    <2>6. FirstQuestion(issues[k]) \in Asking
      BY DEF FirstQuestion, Asking
    <2>7. work \in Work
      BY <2>5, <2>6 DEF Idle, Work
    <2>8. OnClaim(work, issues')
      BY <2>3, <2>5 DEF Idle, OnClaim, Claimed
    <2> QED
      BY <1>1, <1>2, <1>3, <2>3, <2>4, <2>5, <2>7, <2>8, ContinueOnClaims, TickKept
         DEF RuntimeTypeOK
  <1> QED
    BY <1>1, <1>4, <1>5, <1>6 DEF HandleIssueEvent

LEMMA ReclaimWonStore ==
    ASSUME StoreTypeOK, NEW t \in Tasks, NEW k \in Keys, NEW n \in Issues,
           Claimed(k), ReclaimWon(t, k, n)
    PROVE  StoreTypeOK' /\ Claimed(k)' /\ \A j \in Keys : Claimed(j) => Claimed(j)'
  <1>1. Attempt(n, issues[k].created_at + 1) \in Row
    <2>1. issues[k].created_at + 1 \in Nat \ {0}
      BY ClaimedRow DEF Row
    <2> QED
      BY <2>1, AttemptIsRow
  <1>2. update(k, Attempt(n, issues[k].created_at + 1))
    BY DEF ReclaimWon
  <1>3. dedup_events' \subseteq Event /\ event_seq' \in Nat
    BY DEF ReclaimWon, StoreTypeOK
  <1>4. counters' \in Counters
    <2>1. counters \in Counters
      BY DEF StoreTypeOK
    <2>2. counters' = [counters EXCEPT !.dedup_skips = @ - 1, !.findings_reclaimed = @ + 1]
      BY DEF ReclaimWon
    <2> QED
      BY <2>1, <2>2, CountersMove
  <1> QED
    BY <1>1, <1>2, <1>3, <1>4, UpdateRow DEF StoreTypeOK

\* A task that gives up changes nothing but its own copy.
LEMMA SkipShape ==
    ASSUME Shape, NEW t \in Tasks, Skip(t), UNCHANGED <<tick, session, merged, overdue, boundVars>>
    PROVE  Shape'
  <1> USE DEF Shape, TypeOK
  <1>1. StoreTypeOK' /\ \A j \in Keys : Claimed(j) => Claimed(j)'
    BY DEF Skip, Forget, StoreTypeOK, Claimed
  <1>2. worker' \in [Workers -> Work] /\ WorkersOnClaims'
    BY <1>1, ReturnOnClaims DEF Skip, Workers
  <1> QED
    BY <1>1, <1>2, TickKept DEF Skip, RuntimeTypeOK, boundVars

LEMMA ReclaimShape ==
    ASSUME Shape, NEW t \in Tasks, worker[t].pc \in Asking, Reclaim(t),
           UNCHANGED <<tick, session, merged, overdue, boundVars>>
    PROVE  Shape'
  <1> USE DEF Shape, TypeOK
  <1>1. PICK k \in Keys, n \in Issues : k = worker[t].key /\ n = worker[t].issue
    BY DEF WorkersOnClaims, OnClaim, Workers, Asking
  <1>2. Claimed(k) /\ t \in Workers
    BY <1>1 DEF WorkersOnClaims, OnClaim, Workers, Asking, Claimed
  <1>3. CASE ReclaimWon(t, k, n) /\ CreateSession(t, k, n) /\ NewAttempt(k)
    <2>1. StoreTypeOK' /\ Claimed(k)' /\ \A j \in Keys : Claimed(j) => Claimed(j)'
      BY <1>2, <1>3, ReclaimWonStore
    <2>2. worker' \in [Workers -> Work] /\ WorkersOnClaims'
      BY <1>1, <1>3, <2>1, CreateSessionShape
    <2> QED
      BY <1>1, <1>3, <2>1, <2>2, TickKept, ReportsType DEF RuntimeTypeOK, boundVars
  <1>4. CASE ReclaimLost(t, k) /\ Return(t) /\ UNCHANGED reports
    <2>1. UNCHANGED storeVars
      BY <1>4 DEF ReclaimLost
    <2>2. StoreTypeOK' /\ \A j \in Keys : Claimed(j) => Claimed(j)'
      BY <2>1 DEF storeVars, StoreTypeOK, Claimed
    <2>3. worker' \in [Workers -> Work] /\ WorkersOnClaims'
      BY <1>2, <1>4, <2>2, ReturnOnClaims
    <2> QED
      BY <1>4, <2>2, <2>3, TickKept DEF RuntimeTypeOK, boundVars
  <1> QED
    BY <1>1, <1>3, <1>4 DEF Reclaim

LEMMA ShapeAnswered ==
    ASSUME Shape, NEW t \in Tasks, PullRequestAnswered(t) \/ IssueAnswered(t),
           UNCHANGED boundVars
    PROVE  Shape'
  <1> USE DEF Shape, TypeOK
  <1>1. worker[t].pc \in Asking /\ UNCHANGED <<tick, session, merged, overdue>>
    BY DEF PullRequestAnswered, IssueAnswered, Asking
  <1>2. CASE Skip(t)
    BY <1>1, <1>2, SkipShape
  <1>3. CASE Reclaim(t)
    BY <1>1, <1>3, ReclaimShape
  <1>4. CASE /\ Continue(t, [worker[t] EXCEPT !.pc = "ask_issue"])
             /\ UNCHANGED <<storeVars, reports>>
    <2> DEFINE work == [worker[t] EXCEPT !.pc = "ask_issue"]
    <2>1. t \in Workers /\ worker[t] \in Work /\ OnClaim(worker[t], issues)
      BY DEF Workers, RuntimeTypeOK, WorkersOnClaims
    <2>2. UNCHANGED storeVars /\ UNCHANGED reports
      BY <1>4
    <2>3. StoreTypeOK' /\ UNCHANGED issues /\ \A j \in Keys : Claimed(j) => Claimed(j)'
      BY <2>2 DEF storeVars, StoreTypeOK, Claimed
    <2>4. work \in Work
      BY <2>1 DEF Work, Asking
    <2>5. OnClaim(work, issues')
      BY <1>1, <2>1, <2>3 DEF OnClaim, Work, Asking
    <2> QED
      BY <1>1, <1>4, <2>1, <2>2, <2>3, <2>4, <2>5, ContinueOnClaims, TickKept
         DEF RuntimeTypeOK, boundVars
  <1> QED
    BY <1>2, <1>3, <1>4 DEF PullRequestAnswered, IssueAnswered

LEMMA ShapeCreated ==
    ASSUME Shape, NEW t \in Tasks,
           SessionCreated(t) \/ CreateFailed(t) \/ CreateUndecodable(t), UNCHANGED boundVars
    PROVE  Shape'
  <1> USE DEF Shape, TypeOK
  <1>1. worker[t].pc \in Creating /\ UNCHANGED <<tick, session, merged, overdue, reports>>
        /\ Return(t) /\ UNCHANGED <<dedup_events, event_seq>>
    BY DEF SessionCreated, CreateFailed, CreateUndecodable, storeVars
  <1>2. PICK k \in Keys : k = worker[t].key
    BY <1>1 DEF WorkersOnClaims, OnClaim, Workers, Creating
  <1>3. t \in Workers /\ worker[t] \in Work /\ worker[t].issue \in Issues /\ Claimed(k)
    BY <1>1, <1>2 DEF WorkersOnClaims, OnClaim, Workers, Creating, Claimed, RuntimeTypeOK
  <1>4. issues[k] \in Row
    BY <1>3, ClaimedRow
  <1>5. counters' \in Counters
    BY DEF SessionCreated, CreateFailed, CreateUndecodable, StoreTypeOK, Counters, storeVars
  <1>6. UNCHANGED <<issues, copies, stale>> \/ \E row \in Row : update(k, row)
    <2>1. CASE CreateUndecodable(t)
      BY <2>1 DEF CreateUndecodable, storeVars
    <2>2. CASE CreateFailed(t)
      BY <1>2, <1>4, <2>2, RowWithOutcome DEF CreateFailed, Outcomes, TERMINAL_OUTCOMES
    <2>3. CASE SessionCreated(t)
      <3> DEFINE row == [issues[k] EXCEPT !.devin_id = worker[t].issue,
                                          !.acus_consumed = worker[t].reply.acus,
                                          !.outcome = "in_progress"]
      <3>1. worker[t].reply.acus \in Nat
        BY <1>3, <2>3 DEF SessionCreated, Work, Payload
      <3>2. row \in Row
        BY <1>3, <1>4, <3>1 DEF Row, Outcomes
      <3> QED
        BY <1>2, <2>3, <3>2 DEF SessionCreated
    <2> QED
      BY <2>1, <2>2, <2>3
  <1>7. StoreTypeOK' /\ \A j \in Keys : Claimed(j) => Claimed(j)'
    BY <1>1, <1>3, <1>5, <1>6, UpdateRow DEF StoreTypeOK, Claimed
  <1>8. worker' \in [Workers -> Work] /\ WorkersOnClaims'
    BY <1>1, <1>3, <1>7, ReturnOnClaims
  <1> QED
    BY <1>1, <1>7, <1>8, TickKept DEF RuntimeTypeOK, boundVars

\* A poll writes a row that is well formed.
LEMMA FinalizeShape ==
    ASSUME StoreTypeOK, RuntimeTypeOK, NEW k \in Keys, NEW row \in Row,
           NEW outcome \in Outcomes, Finalize(k, row, outcome)
    PROVE  /\ \E written \in Row : update(k, written)
           /\ reports' \in [Keys -> 0..2]
  BY RowWithOutcome DEF Finalize, RuntimeTypeOK

LEMMA CheckTimeoutShape ==
    ASSUME StoreTypeOK, RuntimeTypeOK, NEW k \in Keys, NEW row \in Row, NEW copy,
           CheckTimeout(k, row, copy)
    PROVE  /\ \E written \in Row : update(k, written)
           /\ reports' \in [Keys -> 0..2]
  <1>1. "timed_out" \in Outcomes
    BY DEF Outcomes, TERMINAL_OUTCOMES
  <1> QED
    BY <1>1, FinalizeShape DEF CheckTimeout, RuntimeTypeOK

LEMMA PolledRow ==
    ASSUME NEW row \in Row, NEW copy \in Row, NEW p \in Payload
    PROVE  [row EXCEPT !.acus_consumed = p.acus,
                       !.pr_url = IF HasPullRequest(p) THEN copy.devin_id
                                  ELSE copy.pr_url] \in Row
  BY DEF Row, Payload

\* What the ways out of _poll_one have in common.
LEMMA ShapePolled ==
    ASSUME Shape, NEW w \in Workers, Return(w), worker[w].pc = "get",
           \/ UNCHANGED <<issues, copies, stale, reports>>
           \/ \E k \in Keys, row \in Row :
                 update(k, row) /\ reports' \in [Keys -> 0..2],
           tick' \in {tick, NoTick},
           UNCHANGED <<dedup_events, event_seq, counters, session, merged, overdue, boundVars>>
    PROVE  Shape'
  <1> USE DEF Shape, TypeOK
  <1>1. StoreTypeOK' /\ \A j \in Keys : Claimed(j) => Claimed(j)'
    BY UpdateRow DEF StoreTypeOK, Claimed
  <1>2. reports' \in [Keys -> 0..2]
    BY DEF RuntimeTypeOK
  <1>3. worker' \in [Workers -> Work] /\ WorkersOnClaims'
    BY <1>1, ReturnOnClaims
  <1>4. TickOnClaims' /\ tick' \in [Keys -> Row \cup {None}]
    BY <1>1, TickKept DEF RuntimeTypeOK, NoTick, TickOnClaims
  <1> QED
    BY <1>1, <1>2, <1>3, <1>4 DEF RuntimeTypeOK, boundVars

LEMMA ShapePoll ==
    ASSUME Shape, NEW w \in Workers, Poll(w)
    PROVE  Shape'
  <1> USE DEF Shape, TypeOK
  <1>1. UNCHANGED boundVars
    BY DEF Poll
  <1>2. CASE PollUndecodable(w)
    BY <1>1, <1>2, ShapePolled DEF PollUndecodable, storeVars
  <1>3. CASE PollAnswered(w) \/ PollUnreachable(w) \/ PollRefused(w)
    <2>1. /\ worker[w].pc = "get" /\ Return(w)
          /\ UNCHANGED <<dedup_events, event_seq, counters, tick, session, merged, overdue>>
      BY <1>3 DEF PollAnswered, PollUnreachable, PollRefused
    <2>2. PICK k \in Keys : k = worker[w].key
      BY <2>1 DEF WorkersOnClaims, OnClaim
    <2>3. Claimed(k) /\ worker[w].copy \in Row
      BY <2>1, <2>2 DEF WorkersOnClaims, OnClaim, Claimed
    <2>4. issues[k] \in Row
      BY <2>3, ClaimedRow
    <2>5. \/ UNCHANGED <<issues, copies, stale, reports>>
          \/ /\ \E row \in Row : update(k, row)
             /\ reports' \in [Keys -> 0..2]
      <3>1. CASE PollAnswered(w)
        <4> DEFINE p == worker[w].reply
                   row == Polled(k, worker[w].copy, p)
        <4>1. p \in Payload
          BY <3>1 DEF PollAnswered, RuntimeTypeOK, Work
        <4>2. row \in Row
          BY <2>3, <2>4, <4>1, PolledRow DEF Polled
        <4>3. CASE CheckTimeout(k, row, worker[w].copy)
          BY <4>2, <4>3, CheckTimeoutShape
        <4>4. CASE classify(p) # None /\ Finalize(k, row, classify(p))
          <5>1. classify(p) \in Outcomes
            BY <4>4, ClassifyOutcome DEF Outcomes
          <5> QED
            BY <4>2, <4>4, <5>1, FinalizeShape
        <4> QED
          BY <2>2, <3>1, <4>3, <4>4 DEF PollAnswered
      <3>2. CASE PollUnreachable(w)
        BY <2>2, <2>4, <3>2, CheckTimeoutShape DEF PollUnreachable
      <3>3. CASE PollRefused(w)
        <4>1. "errored" \in Outcomes
          BY DEF Outcomes, TERMINAL_OUTCOMES
        <4> QED
          BY <2>2, <2>4, <3>3, <4>1, FinalizeShape DEF PollRefused
      <3> QED
        BY <1>3, <3>1, <3>2, <3>3
    <2> QED
      BY <1>1, <2>1, <2>5, ShapePolled
  <1> QED
    BY <1>2, <1>3 DEF Poll

\* A worker that starts a poll has a tracked row, or one the tick read.
LEMMA StartPollShape ==
    ASSUME Shape, NEW w \in Workers, NEW k \in Keys, NEW copy \in Row,
           Claimed(k), copy.devin_id \in Issues,
           Continue(w, [Idle EXCEPT !.pc = "get", !.key = k,
                                    !.issue = copy.devin_id, !.copy = copy]),
           UNCHANGED storeVars
    PROVE  worker' \in [Workers -> Work] /\ WorkersOnClaims'
  <1> DEFINE work == [Idle EXCEPT !.pc = "get", !.key = k,
                                  !.issue = copy.devin_id, !.copy = copy]
  <1>1. UNCHANGED issues
    BY DEF storeVars
  <1>2. work \in Work
    BY DEF Idle, Work
  <1>3. OnClaim(work, issues') /\ \A j \in Keys : Claimed(j) => Claimed(j)'
    BY <1>1 DEF OnClaim, Idle, Claimed
  <1> QED
    BY <1>2, <1>3, ContinueOnClaims

LEMMA ShapePullRequestEvent ==
    ASSUME Shape, NEW t \in Tasks, NEW k \in Keys, PullRequestEvent(t, k)
    PROVE  Shape'
  <1> USE DEF Shape, TypeOK
  <1>1. HandlePullRequestEvent(t, k) /\ pulled' \in Nat /\ UNCHANGED <<delivered, crashes>>
    BY DEF PullRequestEvent
  <1>2. UNCHANGED <<storeVars, tick, session, merged, overdue, reports>>
    BY <1>1 DEF HandlePullRequestEvent, StartPoll
  <1>3. Claimed(k) /\ issues[k] \in Row /\ issues[k].devin_id \in Issues
    BY <1>1, ClaimedRow DEF HandlePullRequestEvent, StartPoll, NonTerminal, Row
  <1>4. worker' \in [Workers -> Work] /\ WorkersOnClaims'
    BY <1>1, <1>2, <1>3, StartPollShape DEF HandlePullRequestEvent, StartPoll, Workers
  <1>5. StoreTypeOK' /\ TickOnClaims'
    BY <1>2, TickKept DEF storeVars, StoreTypeOK, Claimed
  <1> QED
    BY <1>1, <1>2, <1>4, <1>5 DEF RuntimeTypeOK

LEMMA ShapePollerLoop ==
    ASSUME Shape, PollerLoop
    PROVE  Shape'
  <1> USE DEF Shape, TypeOK
  <1>1. UNCHANGED boundVars
    BY DEF PollerLoop
  <1>2. ASSUME NEW due \in SUBSET Keys, Tick(due)
        PROVE  Shape'
    <2>1. UNCHANGED <<storeVars, worker, session, merged, overdue, reports>>
      BY <1>2 DEF Tick
    <2>2. StoreTypeOK' /\ UNCHANGED issues
      BY <2>1 DEF storeVars, StoreTypeOK
    <2>3. \A k \in due : Claimed(k) /\ issues[k] \in Row /\ issues[k].devin_id \in Issues
      BY <1>2, ClaimedRow DEF Tick, NonTerminal, Row
    <2>4. tick' \in [Keys -> Row \cup {None}] /\ TickOnClaims'
      BY <1>2, <2>2, <2>3 DEF Tick, TickOnClaims, Claimed
    <2>5. WorkersOnClaims'
      BY <2>1, <2>2 DEF WorkersOnClaims, OnClaim
    <2> QED
      BY <1>1, <2>1, <2>2, <2>4, <2>5 DEF RuntimeTypeOK, boundVars
  <1>3. ASSUME NEW k \in Keys, PollNext(k)
        PROVE  Shape'
    <2>1. UNCHANGED <<storeVars, session, merged, overdue, reports>>
      BY <1>3 DEF PollNext
    <2>2. StoreTypeOK' /\ UNCHANGED issues
      BY <2>1 DEF storeVars, StoreTypeOK
    <2>3. Claimed(k) /\ tick[k] \in Row /\ tick[k].devin_id \in Issues
      BY <1>3 DEF PollNext, TickOnClaims
    <2>4. worker' \in [Workers -> Work] /\ WorkersOnClaims'
      BY <1>3, <2>1, <2>3, StartPollShape DEF PollNext, Workers
    <2>5. tick' \in [Keys -> Row \cup {None}] /\ TickOnClaims'
      BY <1>3, <2>2 DEF PollNext, TickOnClaims, RuntimeTypeOK, Claimed
    <2> QED
      BY <1>1, <2>1, <2>2, <2>4, <2>5 DEF RuntimeTypeOK, boundVars
  <1> QED
    BY <1>2, <1>3 DEF PollerLoop

\* A worker that gets a reply keeps its key.
LEMMA ReplyShape ==
    ASSUME Shape, NEW w \in Workers, worker[w].pc # "idle",
           NEW work \in Work, Continue(w, work), UNCHANGED storeVars,
           work.key = worker[w].key, work.issue = worker[w].issue,
           work.copy = worker[w].copy, work.pc \in {worker[w].pc} \cup Creating
    PROVE  /\ worker' \in [Workers -> Work] /\ WorkersOnClaims'
           /\ StoreTypeOK' /\ UNCHANGED issues
  <1> USE DEF Shape, TypeOK
  <1>1. StoreTypeOK' /\ UNCHANGED issues /\ \A j \in Keys : Claimed(j) => Claimed(j)'
    BY DEF storeVars, StoreTypeOK, Claimed
  <1>2. OnClaim(work, issues')
    BY <1>1 DEF WorkersOnClaims, OnClaim, Creating, Asking
  <1> QED
    BY <1>1, <1>2, ContinueOnClaims

LEMMA ShapeServe ==
    ASSUME Shape, NEW w \in Workers, ServeGet(w) \/ (w \in Tasks /\ ServePost(w))
    PROVE  Shape'
  <1> USE DEF Shape, TypeOK
  <1>1. UNCHANGED <<storeVars, tick, merged, overdue, reports, boundVars>>
    BY DEF ServeGet, ServePost
  <1>2. worker[w] \in Work /\ worker[w].pc \in {"get"} \cup Creating /\ worker[w].issue \in Issues
    BY DEF ServeGet, ServePost, RuntimeTypeOK, WorkersOnClaims, OnClaim, Creating
  <1>3. session' \in [Issues -> Payloads \cup {None}]
    BY <1>2 DEF ServeGet, ServePost, RuntimeTypeOK
  <1>4. worker' \in [Workers -> Work] /\ WorkersOnClaims' /\ StoreTypeOK' /\ UNCHANGED issues
    <2>1. CASE UNCHANGED worker
      BY <1>1, <2>1 DEF storeVars, StoreTypeOK, RuntimeTypeOK, WorkersOnClaims, OnClaim
    <2>2. ASSUME NEW p \in Payloads, worker' = [worker EXCEPT ![w].reply = p]
          PROVE  worker' \in [Workers -> Work] /\ WorkersOnClaims' /\ StoreTypeOK' /\ UNCHANGED issues
      <3> DEFINE work == [worker[w] EXCEPT !.reply = p]
      <3>1. work \in Work /\ Continue(w, work)
        BY <1>2, <2>2 DEF Continue, Work
      <3> QED
        BY <1>1, <1>2, <3>1, ReplyShape DEF Work, Creating
    <2>3. CASE worker' = [worker EXCEPT ![w].pc = "adopt"]
      <3> DEFINE work == [worker[w] EXCEPT !.pc = "adopt"]
      <3>1. work \in Work /\ Continue(w, work)
        BY <1>2, <2>3 DEF Continue, Work, Creating
      <3> QED
        BY <1>1, <1>2, <3>1, ReplyShape DEF Work, Creating
    <2>4. ServeGet(w) => session[worker[w].issue] \in Payloads
      BY <1>2 DEF ServeGet, RuntimeTypeOK, Started
    <2> QED
      BY <2>1, <2>2, <2>3, <2>4 DEF ServeGet, ServePost
  <1>5. TickOnClaims'
    BY <1>1, <1>4 DEF TickOnClaims, Claimed
  <1> QED
    BY <1>1, <1>3, <1>4, <1>5 DEF RuntimeTypeOK, boundVars

\* The world moves, or the clock: no worker and no row changes.
LEMMA ShapeWorld ==
    ASSUME Shape,
           \/ \E n \in Issues : SessionMoves(n) \/ Merge(n)
           \/ \E k \in Keys : ClaimAges(k) \/ AttemptOverdue(k)
    PROVE  Shape'
  <1> USE DEF Shape, TypeOK
  <1>1. /\ UNCHANGED <<issues, dedup_events, event_seq, counters, copies>>
        /\ UNCHANGED <<worker, tick, reports, boundVars>>
    BY DEF SessionMoves, Merge, ClaimAges, AttemptOverdue, storeVars, runtimeVars
  <1>2. stale' \subseteq Keys
    BY DEF SessionMoves, Merge, ClaimAges, AttemptOverdue, storeVars, StoreTypeOK
  <1>3. session' \in [Issues -> Payloads \cup {None}] /\ merged' \subseteq Issues
    BY DEF SessionMoves, Merge, ClaimAges, AttemptOverdue, runtimeVars, RuntimeTypeOK
  <1>4. overdue' \in [Keys -> Nat]
    BY DEF SessionMoves, Merge, ClaimAges, AttemptOverdue, runtimeVars, RuntimeTypeOK
  <1>5. WorkersOnClaims' /\ TickOnClaims'
    BY <1>1 DEF WorkersOnClaims, OnClaim, TickOnClaims, Claimed
  <1> QED
    BY <1>1, <1>2, <1>3, <1>4, <1>5 DEF StoreTypeOK, RuntimeTypeOK, boundVars

LEMMA ShapeRestart ==
    ASSUME Shape, Restart
    PROVE  Shape'
  BY IdleIsWork
     DEF Shape, TypeOK, StoreTypeOK, RuntimeTypeOK, Restart, NoTick, WorkersOnClaims, TickOnClaims

LEMMA ShapeStep == Shape /\ [Next]_vars => Shape'
  <1> SUFFICES ASSUME Shape, [Next]_vars PROVE Shape'
    OBVIOUS
  <1>1. ASSUME NEW t \in Tasks, NEW n \in Issues, NEW k \in Keys, IssueEvent(t, n, k)
        PROVE  Shape'
    BY <1>1, ShapeIssueEvent
  <1>2. ASSUME NEW t \in Tasks, NEW k \in Keys, PullRequestEvent(t, k)
        PROVE  Shape'
    BY <1>2, ShapePullRequestEvent
  <1>3. ASSUME NEW t \in Tasks, Handler(t)
        PROVE  Shape'
    BY <1>3, ShapeAnswered, ShapeCreated DEF Handler
  <1>4. ASSUME NEW w \in Workers, Poll(w)
        PROVE  Shape'
    BY <1>4, ShapePoll
  <1>5. ASSUME NEW w \in Workers, ServeGet(w) \/ (w \in Tasks /\ ServePost(w))
        PROVE  Shape'
    BY <1>5, ShapeServe
  <1>6. CASE PollerLoop
    BY <1>6, ShapePollerLoop
  <1>7. CASE \/ \E n \in Issues : SessionMoves(n) \/ Merge(n)
             \/ \E k \in Keys : ClaimAges(k) \/ AttemptOverdue(k)
    BY <1>7, ShapeWorld
  <1>8. CASE Restart
    BY <1>8, ShapeRestart
  <1>9. CASE UNCHANGED vars
    BY <1>9 DEF vars, storeVars, runtimeVars, boundVars, Shape, TypeOK, StoreTypeOK,
                RuntimeTypeOK, WorkersOnClaims, OnClaim, TickOnClaims, Claimed
  <1> QED
    BY <1>1, <1>2, <1>3, <1>4, <1>5, <1>6, <1>7, <1>8, <1>9 DEF Next, Underway, Workers

LEMMA ShapeInvariant == Spec => []Shape
  BY ShapeInit, ShapeStep, PTL DEF Spec

-----------------------------------------------------------------------------
\* Every variable keeps its type, whatever the webhooks, the APIs, the clock and
\* restarts do: in particular no step of a task or a poll writes a row that is
\* not there, or makes one with a value its column cannot hold.
THEOREM TypeCorrect == Spec => []TypeOK
  <1>1. Shape => TypeOK
    BY DEF Shape
  <1> QED
    BY <1>1, ShapeInvariant, PTL
=============================================================================
