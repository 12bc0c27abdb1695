---------------------------- MODULE ClaimProofs ----------------------------
(***************************************************************************)
(* Claims, and the books kept of them, for all values of the constants.    *)
(* An attempt is replaced by another issue's only once it is settled:      *)
(* claim_finding sees the row it replaces; reclaim_finding trusts a row    *)
(* read before two questions to GitHub, and the condition on updated_at.   *)
(* That a copy which is still current is a copy of a settled row is the    *)
(* inductive invariant CopiesCurrent.                                      *)
(***************************************************************************)
EXTENDS ServiceProofs

USE DevinAssumption, StoreAssumption, RuntimeAssumption, OrchestratorAssumption,
    ServiceAssumption

\* A task whose copy of a row is current has read that very row, settled, to ask
\* GitHub about it, and its provisional skip is still to be seen.
CopyIsCurrent(t, k, work, table) ==
    /\ table[k] # None
    /\ Settled(table[k])
    /\ work.pc \in Asking
    /\ work.key = k
    /\ work.copy = table[k]

CopiesCurrent ==
    \A k \in Keys : \A t \in copies[k] :
        /\ CopyIsCurrent(t, k, worker[t], issues)
        /\ Provisional(k, worker[t].issue) # {}

-----------------------------------------------------------------------------
\* Copies stay current through a step of w that makes no new copy, empties those
\* of the rows it writes, and takes back events of such rows only.
LEMMA CopiesKept ==
    ASSUME Shape, CopiesCurrent, NEW w \in Workers,
           \A v \in Workers \ {w} : worker'[v] = worker[v],
           \A k \in Keys : w \in copies'[k] =>
               /\ worker'[w].pc \in Asking
               /\ worker'[w].key = worker[w].key
               /\ worker'[w].issue = worker[w].issue
               /\ worker'[w].copy = worker[w].copy,
           \A k \in Keys :
               \/ copies'[k] = {}
               \/ /\ copies'[k] \subseteq copies[k]
                  /\ issues'[k] = issues[k]
                  /\ \A e \in dedup_events : e.key = k => e \in dedup_events'
    PROVE  CopiesCurrent'
  <1> SUFFICES ASSUME NEW k \in Keys, NEW t \in copies'[k]
               PROVE  /\ CopyIsCurrent(t, k, worker'[t], issues')
                      /\ Provisional(k, worker[t].issue)' # {}
    BY DEF CopiesCurrent, CopyIsCurrent
  <1>1. /\ copies'[k] \subseteq copies[k] /\ issues'[k] = issues[k]
        /\ \A e \in dedup_events : e.key = k => e \in dedup_events'
    OBVIOUS
  <1>2. t \in copies[k] /\ t \in Workers
    BY <1>1 DEF Shape, TypeOK, StoreTypeOK, Workers
  <1>3. /\ CopyIsCurrent(t, k, worker[t], issues)
        /\ Provisional(k, worker[t].issue) # {}
    BY <1>2 DEF CopiesCurrent
  <1>4. /\ worker'[t].pc \in Asking /\ worker'[t].key = worker[t].key
        /\ worker'[t].issue = worker[t].issue /\ worker'[t].copy = worker[t].copy
    BY <1>2, <1>3 DEF CopyIsCurrent
  <1>5. CopyIsCurrent(t, k, worker'[t], issues')
    BY <1>1, <1>3, <1>4 DEF CopyIsCurrent
  <1>6. PICK e \in dedup_events : /\ e.key = k /\ e.issue = worker[t].issue
                                  /\ e.scenario = "duplicate_finding"
    BY <1>3 DEF Provisional
  <1>7. e \in Provisional(k, worker[t].issue)'
    BY <1>1, <1>4, <1>6 DEF Provisional
  <1> QED
    BY <1>5, <1>7

\* The row of k is written by a step of a worker that has no current copy of
\* another row.
LEMMA CopiesWritten ==
    ASSUME Shape, CopiesCurrent, NEW w \in Workers, NEW k \in Keys, NEW row,
           update(k, row), NEW work, Continue(w, work),
           worker[w].pc \in Asking => worker[w].key = k,
           \A e \in dedup_events : e.key # k => e \in dedup_events'
    PROVE  CopiesCurrent'
  <1>1. \A v \in Workers \ {w} : worker'[v] = worker[v]
    BY DEF Continue, Shape, TypeOK, RuntimeTypeOK
  <1>2. copies'[k] = {}
    BY DEF update, Shape, TypeOK, StoreTypeOK
  <1>3. \A j \in Keys \ {k} : copies'[j] = copies[j] /\ issues'[j] = issues[j]
    BY DEF update, Shape, TypeOK, StoreTypeOK
  <1>4. \A j \in Keys : w \notin copies'[j]
    BY <1>2, <1>3 DEF CopiesCurrent, CopyIsCurrent
  <1> QED
    BY <1>1, <1>2, <1>3, <1>4, CopiesKept

\* No row and no copy changes, and w does not hold a copy.
LEMMA CopiesUntouched ==
    ASSUME Shape, CopiesCurrent, NEW w \in Workers,
           UNCHANGED <<issues, copies>>, dedup_events \subseteq dedup_events',
           \A v \in Workers \ {w} : worker'[v] = worker[v],
           worker'[w] = worker[w] \/ worker[w].pc \notin Asking
    PROVE  CopiesCurrent'
  <1>1. \A k \in Keys : w \in copies'[k] => worker'[w] = worker[w] /\ worker[w].pc \in Asking
    BY DEF CopiesCurrent, CopyIsCurrent
  <1> QED
    BY <1>1, CopiesKept

LEMMA WorkerChanged ==
    ASSUME Shape, NEW w \in Workers, NEW work, Continue(w, work)
    PROVE  worker'[w] = work /\ \A v \in Workers \ {w} : worker'[v] = worker[v]
  BY DEF Continue, Shape, TypeOK, RuntimeTypeOK

LEMMA IdleAsksNothing == ASSUME NEW w, worker[w] = Idle PROVE worker[w].pc \notin Asking
  BY DEF Idle, Asking

LEMMA CopiesIssueEvent ==
    ASSUME Shape, CopiesCurrent, NEW t \in Tasks, NEW n \in Issues, NEW k \in Keys,
           HandleIssueEvent(t, n, k)
    PROVE  CopiesCurrent'
  <1>1. t \in Workers /\ worker[t].pc \notin Asking
    BY IdleAsksNothing DEF HandleIssueEvent, Workers
  <1>2. \A j \in Keys : t \notin copies[j]
    BY <1>1 DEF CopiesCurrent, CopyIsCurrent
  <1>3. CASE Acquire(t, n, k) \/ Resume(t, n, k)
    <2>1. \E row : update(k, row)
      BY <1>3 DEF Acquire, Resume, ClaimNew, ClaimReclaimed, ClaimResumed
    <2>2. \E work : Continue(t, work)
      BY <1>3 DEF Acquire, Resume, CreateSession, Return
    <2>3. UNCHANGED dedup_events
      BY <1>3 DEF Acquire, Resume, ClaimNew, ClaimReclaimed, ClaimResumed
    <2> QED
      BY <1>1, <2>1, <2>2, <2>3, CopiesWritten
  <1>4. CASE IgnoreRedelivery(n, k) \/ SkipLive(n, k)
    <2>1. UNCHANGED <<issues, copies, worker>> /\ dedup_events \subseteq dedup_events'
      BY <1>4 DEF IgnoreRedelivery, SkipLive, ClaimRedelivery, ClaimDuplicate, Log
    <2> QED
      BY <1>1, <2>1, CopiesUntouched
  <1>5. CASE Question(t, n, k)
    <2> DEFINE work == [Idle EXCEPT !.pc = FirstQuestion(issues[k]), !.key = k,
                                    !.issue = n, !.copy = issues[k]]
    <2>1. Continue(t, work) /\ UNCHANGED issues /\ Claimed(k) /\ Settled(issues[k])
      BY <1>5 DEF Question, ClaimDuplicate
    <2>2. worker'[t] = work /\ \A v \in Workers \ {t} : worker'[v] = worker[v]
      BY <1>1, <2>1, WorkerChanged
    <2>3. CopyIsCurrent(t, k, worker'[t], issues') /\ worker'[t].issue = n
      BY <2>1, <2>2 DEF CopyIsCurrent, Idle, FirstQuestion, Asking, Claimed
    <2>4. /\ copies'[k] = copies[k] \cup {t}
          /\ \A j \in Keys \ {k} : copies'[j] = copies[j]
      BY <1>5 DEF Question, Keep, Shape, TypeOK, StoreTypeOK
    <2>5. dedup_events \subseteq dedup_events'
      BY <1>5 DEF Question, ClaimDuplicate, Log
    <2>6. \E e \in dedup_events' :
              e.key = k /\ e.issue = n /\ e.scenario = "duplicate_finding"
      <3> DEFINE e == [id |-> event_seq + 1, key |-> k, issue |-> n,
                       scenario |-> "duplicate_finding"]
      <3>1. e \in dedup_events'
        BY <1>5 DEF Question, ClaimDuplicate, Log
      <3> QED
        BY <3>1
    <2>7. ASSUME NEW j \in Keys, NEW v \in copies'[j]
          PROVE  /\ CopyIsCurrent(v, j, worker'[v], issues')
                 /\ Provisional(j, worker[v].issue)' # {}
      <3>1. CASE v = t
        <4>1. j = k
          BY <1>2, <2>4, <3>1
        <4> QED
          BY <2>3, <2>6, <3>1, <4>1 DEF Provisional
      <3>2. CASE v # t
        <4>1. v \in copies[j] /\ v \in Workers \ {t}
          BY <2>4, <3>2 DEF Shape, TypeOK, StoreTypeOK, Workers
        <4>2. CopyIsCurrent(v, j, worker[v], issues) /\ Provisional(j, worker[v].issue) # {}
          BY <4>1 DEF CopiesCurrent
        <4> QED
          BY <2>1, <2>2, <2>5, <4>1, <4>2 DEF CopyIsCurrent, Provisional
      <3> QED
        BY <3>1, <3>2
    <2> QED
      BY <2>7 DEF CopiesCurrent, CopyIsCurrent
  <1> QED
    BY <1>3, <1>4, <1>5 DEF HandleIssueEvent

LEMMA CopiesAnswered ==
    ASSUME Shape, CopiesCurrent, NEW t \in Tasks,
           PullRequestAnswered(t) \/ IssueAnswered(t)
    PROVE  CopiesCurrent'
  <1>1. worker[t].pc \in Asking /\ t \in Workers
    BY DEF PullRequestAnswered, IssueAnswered, Asking, Workers
  <1>2. PICK k \in Keys : k = worker[t].key
    BY <1>1 DEF Shape, WorkersOnClaims, OnClaim, Asking
  <1>3. CASE Skip(t)
    <2>1. \A v \in Workers \ {t} : worker'[v] = worker[v]
      BY <1>1, <1>3, WorkerChanged DEF Skip, Return
    <2>2. UNCHANGED <<issues, dedup_events>>
          /\ \A j \in Keys : copies'[j] = copies[j] \ {t}
      BY <1>3 DEF Skip, Forget
    <2> QED
      BY <1>1, <2>1, <2>2, CopiesKept
  <1>4. CASE Reclaim(t)
    <2>1. PICK n \in Issues : n = worker[t].issue
      BY <1>1 DEF Shape, WorkersOnClaims, OnClaim, Asking
    <2>2. CASE ReclaimWon(t, k, n) /\ CreateSession(t, k, n)
      <3>1. \E row : update(k, row)
        BY <2>2 DEF ReclaimWon
      <3>2. \E work : Continue(t, work)
        BY <2>2 DEF CreateSession, Return
      <3>3. \A e \in dedup_events : e.key # k => e \in dedup_events'
        BY <2>2 DEF ReclaimWon, Latest, Provisional
      <3> QED
        BY <1>1, <1>2, <3>1, <3>2, <3>3, CopiesWritten
    <2>3. CASE ReclaimLost(t, k) /\ Return(t)
      <3>1. UNCHANGED <<issues, copies, dedup_events>>
        BY <2>3 DEF ReclaimLost, storeVars
      <3>2. \A j \in Keys : t \notin copies'[j]
        BY <1>2, <2>3, <3>1 DEF ReclaimLost, Unchanged, CopiesCurrent, CopyIsCurrent
      <3>3. \A v \in Workers \ {t} : worker'[v] = worker[v]
        BY <1>1, <2>3, WorkerChanged DEF Return
      <3> QED
        BY <1>1, <3>1, <3>2, <3>3, CopiesKept
    <2> QED
      BY <1>2, <1>4, <2>1, <2>2, <2>3 DEF Reclaim
  <1>5. CASE /\ Continue(t, [worker[t] EXCEPT !.pc = "ask_issue"])
             /\ UNCHANGED <<storeVars, reports>>
    <2>1. worker[t] \in Work
      BY <1>1 DEF Shape, TypeOK, RuntimeTypeOK
    <2>2. /\ worker'[t] = [worker[t] EXCEPT !.pc = "ask_issue"]
          /\ \A v \in Workers \ {t} : worker'[v] = worker[v]
      BY <1>1, <1>5, WorkerChanged
    <2>3. /\ worker'[t].pc \in Asking /\ worker'[t].key = worker[t].key
          /\ worker'[t].issue = worker[t].issue /\ worker'[t].copy = worker[t].copy
      BY <2>1, <2>2 DEF Work, Asking
    <2>4. UNCHANGED <<issues, copies, dedup_events>>
      BY <1>5 DEF storeVars
    <2> QED
      BY <1>1, <2>2, <2>3, <2>4, CopiesKept
  <1> QED
    BY <1>3, <1>4, <1>5 DEF PullRequestAnswered, IssueAnswered

LEMMA CopiesCreated ==
    ASSUME Shape, CopiesCurrent, NEW t \in Tasks,
           SessionCreated(t) \/ CreateFailed(t) \/ CreateUndecodable(t)
    PROVE  CopiesCurrent'
  <1>1. /\ t \in Workers /\ worker[t].pc \notin Asking
        /\ worker[t].key \in Keys
        /\ Return(t) /\ UNCHANGED dedup_events
    BY DEF SessionCreated, CreateFailed, CreateUndecodable, storeVars, Creating, Asking, Workers,
           Shape, WorkersOnClaims, OnClaim
  <1>2. \A v \in Workers \ {t} : worker'[v] = worker[v]
    BY <1>1, WorkerChanged DEF Return
  <1>3. PICK k \in Keys : k = worker[t].key
    BY <1>1
  <1>4. CASE \E row : update(k, row)
    BY <1>1, <1>4, CopiesWritten DEF Return
  <1>5. CASE UNCHANGED <<issues, copies>>
    BY <1>1, <1>2, <1>5, CopiesUntouched
  <1>6. UNCHANGED <<issues, copies>> \/ \E row : update(k, row)
    BY <1>3 DEF SessionCreated, CreateFailed, CreateUndecodable, storeVars
  <1> QED
    BY <1>4, <1>5, <1>6

LEMMA CopiesPoll ==
    ASSUME Shape, CopiesCurrent, NEW w \in Workers, Poll(w)
    PROVE  CopiesCurrent'
  <1>1. /\ worker[w].pc = "get" /\ worker[w].pc \notin Asking
        /\ worker[w].key \in Keys
        /\ Return(w) /\ UNCHANGED dedup_events
    BY DEF Poll, PollAnswered, PollUnreachable, PollRefused, PollUndecodable, storeVars, Asking,
           Shape, WorkersOnClaims, OnClaim
  <1>2. \A v \in Workers \ {w} : worker'[v] = worker[v]
    BY <1>1, WorkerChanged DEF Return
  <1>3. PICK k \in Keys : k = worker[w].key
    BY <1>1
  <1>4. CASE \E row : update(k, row)
    BY <1>1, <1>4, CopiesWritten DEF Return
  <1>5. CASE UNCHANGED <<issues, copies>>
    BY <1>1, <1>2, <1>5, CopiesUntouched
  <1>6. UNCHANGED <<issues, copies>> \/ \E row : update(k, row)
    BY <1>3 DEF Poll, PollAnswered, PollUnreachable, PollRefused, PollUndecodable, storeVars,
                CheckTimeout, Finalize
  <1> QED
    BY <1>4, <1>5, <1>6

LEMMA CopiesOthers ==
    ASSUME Shape, CopiesCurrent,
           \/ \E t \in Tasks, k \in Keys : PullRequestEvent(t, k)
           \/ \E t \in Tasks : ServePost(t)
           \/ \E w \in Workers : ServeGet(w)
           \/ PollerLoop
           \/ \E n \in Issues : SessionMoves(n) \/ Merge(n)
           \/ \E k \in Keys : ClaimAges(k) \/ AttemptOverdue(k)
           \/ UNCHANGED vars
    PROVE  CopiesCurrent'
  <1>1. UNCHANGED <<issues, copies, dedup_events>>
    BY DEF PullRequestEvent, HandlePullRequestEvent, StartPoll, ServePost, ServeGet, PollerLoop, Tick,
           PollNext, SessionMoves, Merge, ClaimAges, AttemptOverdue, vars, storeVars
  <1>2. PICK w \in Workers : /\ worker' = worker \/ worker[w].pc \notin Asking
                             /\ \A v \in Workers \ {w} : worker'[v] = worker[v]
    <2>1. CASE UNCHANGED worker
      BY <2>1 DEF Workers
    <2>2. CASE \E t \in Tasks, k \in Keys : PullRequestEvent(t, k)
      BY <2>2, WorkerChanged, IdleAsksNothing
         DEF PullRequestEvent, HandlePullRequestEvent, StartPoll, Workers
    <2>3. CASE \E t \in Tasks : ServePost(t)
      BY <2>3 DEF ServePost, Workers, Asking, Shape, TypeOK, RuntimeTypeOK
    <2>4. CASE \E w \in Workers : ServeGet(w)
      BY <2>4 DEF ServeGet, Asking, Shape, TypeOK, RuntimeTypeOK
    <2>5. CASE \E k \in Keys : PollNext(k)
      BY <2>5, WorkerChanged, IdleAsksNothing DEF PollNext, Workers
    <2> QED
      BY <2>1, <2>2, <2>3, <2>4, <2>5
         DEF PollerLoop, Tick, SessionMoves, Merge, ClaimAges, AttemptOverdue, vars, runtimeVars
  <1> QED
    BY <1>1, <1>2, CopiesUntouched

LEMMA CopiesStep == Shape /\ CopiesCurrent /\ [Next]_vars => CopiesCurrent'
  <1> SUFFICES ASSUME Shape, CopiesCurrent, [Next]_vars PROVE CopiesCurrent'
    OBVIOUS
  <1>1. CASE \E t \in Tasks, n \in Issues, k \in Keys : IssueEvent(t, n, k)
    BY <1>1, CopiesIssueEvent DEF IssueEvent
  <1>2. CASE \E t \in Tasks : Handler(t)
    BY <1>2, CopiesAnswered, CopiesCreated DEF Handler
  <1>3. CASE \E w \in Workers : Poll(w)
    BY <1>3, CopiesPoll
  <1>4. CASE Restart
    BY <1>4 DEF Restart, CopiesCurrent
  <1> QED
    BY <1>1, <1>2, <1>3, <1>4, CopiesOthers DEF Next, Underway

LEMMA CopiesInvariant == Spec => []CopiesCurrent
  <1>1. Init => CopiesCurrent
    BY DEF Init, StoreInit, CopiesCurrent
  <1> QED
    BY <1>1, CopiesStep, ShapeInvariant, PTL DEF Spec

-----------------------------------------------------------------------------
\* Writing the row of j for the issue it has, or one that is settled, replaces no
\* attempt that still runs.
LEMMA WrittenIsSettled ==
    ASSUME Shape, NEW j \in Keys, NEW row, update(j, row), NEW k \in Keys,
           row.issue = issues[j].issue \/ Settled(issues[j]),
           issues'[k].issue # issues[k].issue
    PROVE  Settled(issues[k])
  BY DEF update, Shape, TypeOK, StoreTypeOK

\* What a failed create, a created session or a poll writes keeps the issue.
LEMMA SameIssue ==
    ASSUME NEW row \in Row
    PROVE  /\ \A outcome : [row EXCEPT !.outcome = outcome].issue = row.issue
           /\ \A n, acus : [row EXCEPT !.devin_id = n, !.acus_consumed = acus,
                                       !.outcome = "in_progress"].issue = row.issue
           /\ \A acus, pr : [row EXCEPT !.acus_consumed = acus, !.pr_url = pr].issue = row.issue
           /\ \A acus, pr, outcome :
                 [[row EXCEPT !.acus_consumed = acus, !.pr_url = pr]
                      EXCEPT !.outcome = outcome].issue = row.issue
  BY DEF Row

\* The steps that write a row for another issue find it settled.
LEMMA ReplacedIsSettled ==
    ASSUME Shape, CopiesCurrent, [Next]_vars, NEW k \in Keys, Claimed(k),
           issues'[k].issue # issues[k].issue
    PROVE  Settled(issues[k])
  <1>1. ASSUME NEW t \in Tasks, NEW n \in Issues, NEW j \in Keys, HandleIssueEvent(t, n, j)
        PROVE  Settled(issues[k])
    <2>1. CASE ClaimNew(j, n)
      BY <2>1 DEF ClaimNew, update, Claimed, Shape, TypeOK, StoreTypeOK
    <2>2. CASE ClaimReclaimed(j, n)
      <3>1. Settled(issues[j])
        BY <2>2 DEF ClaimReclaimed, Settled, RECLAIMABLE_OUTCOMES, TERMINAL_OUTCOMES
      <3> QED
        BY <2>2, <3>1, WrittenIsSettled DEF ClaimReclaimed
    <2>3. CASE ClaimResumed(j, n)
      <3>1. Claimed(j) /\ update(j, [issues[j] EXCEPT !.outcome = "in_progress"])
        BY <2>3 DEF ClaimResumed
      <3>2. [issues[j] EXCEPT !.outcome = "in_progress"].issue = issues[j].issue
        BY <3>1, SameIssue, ClaimedRow DEF Shape, TypeOK
      <3> QED
        BY <3>1, <3>2, WrittenIsSettled
    <2>4. ~UNCHANGED issues
      OBVIOUS
    <2> QED
      BY <1>1, <2>1, <2>2, <2>3, <2>4
         DEF HandleIssueEvent, Acquire, Resume, IgnoreRedelivery, SkipLive, Question,
             ClaimRedelivery, ClaimDuplicate
  <1>2. ASSUME NEW t \in Tasks, PullRequestAnswered(t) \/ IssueAnswered(t)
        PROVE  Settled(issues[k])
    <2>1. worker[t].key \in Keys
      BY <1>2 DEF PullRequestAnswered, IssueAnswered, Asking, Shape, WorkersOnClaims, OnClaim,
                  Workers
    <2>2. PICK j \in Keys : j = worker[t].key
      BY <2>1
    <2>3. ReclaimWon(t, j, worker[t].issue)
      BY <1>2, <2>2 DEF PullRequestAnswered, IssueAnswered, Skip, Reclaim, ReclaimLost, storeVars
    <2>4. Settled(issues[j]) /\ \E row : update(j, row)
      BY <2>3 DEF ReclaimWon, Unchanged, CopiesCurrent, CopyIsCurrent
    <2> QED
      BY <2>4, WrittenIsSettled
  <1>3. ASSUME NEW t \in Tasks, SessionCreated(t) \/ CreateFailed(t) \/ CreateUndecodable(t)
        PROVE  Settled(issues[k])
    <2>1. worker[t].key \in Keys /\ Claimed(worker[t].key)
      BY <1>3 DEF SessionCreated, CreateFailed, CreateUndecodable, Creating, Shape,
                  WorkersOnClaims, OnClaim, Workers, Claimed
    <2>2. PICK j \in Keys : j = worker[t].key /\ issues[j] \in Row
      BY <2>1, ClaimedRow DEF Shape, TypeOK
    <2>3. \E row : update(j, row) /\ row.issue = issues[j].issue
      <3>1. CASE SessionCreated(t)
        <4> DEFINE row == [issues[j] EXCEPT !.devin_id = worker[t].issue,
                                            !.acus_consumed = worker[t].reply.acus,
                                            !.outcome = "in_progress"]
        <4>1. update(j, row)
          BY <2>2, <3>1 DEF SessionCreated
        <4>2. row.issue = issues[j].issue
          BY <2>2, SameIssue
        <4> QED
          BY <4>1, <4>2
      <3>2. CASE CreateFailed(t)
        <4>1. update(j, [issues[j] EXCEPT !.outcome = "errored"])
          BY <2>2, <3>2 DEF CreateFailed
        <4>2. [issues[j] EXCEPT !.outcome = "errored"].issue = issues[j].issue
          BY <2>2, SameIssue
        <4> QED
          BY <4>1, <4>2
      <3> QED
        BY <1>3, <3>1, <3>2 DEF CreateUndecodable, storeVars
    <2> QED
      BY <2>3, WrittenIsSettled
  <1>4. ASSUME NEW w \in Workers, Poll(w)
        PROVE  Settled(issues[k])
    <2>1. worker[w].key \in Keys /\ Claimed(worker[w].key)
      BY <1>4 DEF Poll, PollAnswered, PollUnreachable, PollRefused, PollUndecodable, Shape,
                  WorkersOnClaims, OnClaim, Claimed
    <2>2. PICK j \in Keys : j = worker[w].key /\ issues[j] \in Row
      BY <2>1, ClaimedRow DEF Shape, TypeOK
    <2>3. \E row : update(j, row) /\ row.issue = issues[j].issue
      <3>1. CASE PollAnswered(w)
        <4> DEFINE p == worker[w].reply
                   copy == worker[w].copy
        <4>1. \/ update(j, Polled(j, copy, p))
              \/ \E outcome : update(j, [Polled(j, copy, p) EXCEPT !.outcome = outcome])
          BY <2>2, <3>1 DEF PollAnswered, CheckTimeout, Finalize
        <4>2. /\ Polled(j, copy, p).issue = issues[j].issue
              /\ \A outcome : [Polled(j, copy, p) EXCEPT !.outcome = outcome].issue
                                = issues[j].issue
          BY <2>2, SameIssue DEF Polled
        <4> HIDE DEF p, copy
        <4> QED
          BY <4>1, <4>2
      <3>2. CASE PollUnreachable(w) \/ PollRefused(w)
        <4>1. \/ update(j, issues[j])
              \/ \E outcome : update(j, [issues[j] EXCEPT !.outcome = outcome])
          BY <2>2, <3>2 DEF PollUnreachable, PollRefused, CheckTimeout, Finalize
        <4>2. \A outcome : [issues[j] EXCEPT !.outcome = outcome].issue = issues[j].issue
          BY <2>2, SameIssue
        <4> QED
          BY <4>1, <4>2
      <3> QED
        BY <1>4, <3>1, <3>2 DEF Poll, PollUndecodable, storeVars
    <2> QED
      BY <2>3, WrittenIsSettled
  <1>5. ~UNCHANGED issues
    OBVIOUS
  <1> QED
    BY <1>1, <1>2, <1>3, <1>4, <1>5
       DEF Next, Underway, IssueEvent, Handler, PullRequestEvent, HandlePullRequestEvent, StartPoll, ServePost,
           ServeGet, PollerLoop, Tick, PollNext, SessionMoves, Merge, ClaimAges,
           AttemptOverdue, Restart, vars, storeVars

\* "A session running still wins the dedup": an attempt gives way to another
\* issue's only once it is settled, however the webhooks, the questions to
\* GitHub and the polls interleave (claim_finding and reclaim_finding).
THEOREM SettledBeforeReplaced == Spec => OnlySettledReplaced
  <1>1. Shape /\ CopiesCurrent /\ [Next]_vars =>
            [\A k \in Keys : Claimed(k) /\ issues'[k].issue # issues[k].issue
                => Settled(issues[k])]_vars
    BY ReplacedIsSettled
  <1> QED
    BY <1>1, ShapeInvariant, CopiesInvariant, PTL DEF Spec, OnlySettledReplaced
-----------------------------------------------------------------------------
(***************************************************************************)
(* The counters and dedup_events tell the same story, for all values of    *)
(* the constants.  A skip is logged and counted at once; it is taken back  *)
(* later, by deleting the latest matching event and decrementing the       *)
(* counter without looking: that there is exactly one event to delete      *)
(* follows from CopiesCurrent (whoever reclaims still has its provisional  *)
(* event) and from the ids being unique.                                   *)
(***************************************************************************)
Accounting ==
    /\ IsFiniteSet(dedup_events)
    /\ \A e \in dedup_events : e.id <= event_seq
    /\ \A e, f \in dedup_events : e.id = f.id => e = f
    /\ SkipsMatchEvents

-----------------------------------------------------------------------------
\* Of a finite set of events that is not empty, one has the largest id.
LEMMA LatestExists ==
    ASSUME NEW E \in SUBSET Event, IsFiniteSet(E), E # {}
    PROVE  \E e \in E : e \in Latest(E)
  <1> DEFINE Above(e) == {f \in E : f.id > e.id}
             T == {Above(e) : e \in E}
  <1>1. \A e \in E : e.id \in Nat
    BY DEF Event
  <1>2. IsWellFoundedOn(StrictSubsetOrdering(E), FiniteSubsetsOf(E))
    BY FS_StrictSubsetOrderingWellFounded, Zenon
  <1>3. T \subseteq FiniteSubsetsOf(E) /\ T # {}
    <2>1. FiniteSubsetsOf(E) = SUBSET E
      BY FS_FiniteSubsetsOfFinite, Zenon
    <2>2. \A e \in E : Above(e) \in SUBSET E
      OBVIOUS
    <2>3. T \subseteq SUBSET E /\ T # {}
      <3> HIDE DEF Above
      <3> QED
        BY <2>2
    <2> HIDE DEF T
    <2> QED
      BY <2>1, <2>3
  <1>4. PICK x \in T : \A y \in T : <<y, x>> \notin StrictSubsetOrdering(E)
    <2> HIDE DEF T
    <2> QED
      BY <1>2, <1>3, WFMin, Zenon
  <1>5. PICK e \in E : x = Above(e)
    OBVIOUS
  <1>6. ASSUME NEW f \in E, f.id > e.id
        PROVE  FALSE
    <2>1. Above(f) \subseteq Above(e) /\ f \in Above(e) /\ f \notin Above(f)
      BY <1>1, <1>6
    <2>2. Above(f) \in T /\ Above(f) \in SUBSET E /\ Above(e) \in SUBSET E
      OBVIOUS
    <2>3. <<Above(f), Above(e)>> \in StrictSubsetOrdering(E)
      <3> HIDE DEF Above
      <3> QED
        BY <2>1, <2>2 DEF StrictSubsetOrdering
    <2> QED
      BY <1>4, <1>5, <2>2, <2>3
  <1> QED
    BY <1>1, <1>6 DEF Latest

\* A logged skip is a new event, and it is counted.
LEMMA LogAccounted ==
    ASSUME StoreTypeOK, Accounting, NEW k \in Keys, NEW n \in Issues,
           NEW scenario \in {"redelivery", "duplicate_finding"}, Log(k, n, scenario),
           counters'.dedup_skips = counters.dedup_skips + 1,
           counters'.findings_reclaimed = counters.findings_reclaimed
    PROVE  Accounting'
  <1> DEFINE e == [id |-> event_seq + 1, key |-> k, issue |-> n, scenario |-> scenario]
  <1>1. dedup_events' = dedup_events \cup {e} /\ event_seq' = event_seq + 1
    BY DEF Log
  <1>2. event_seq \in Nat /\ \A f \in dedup_events : f.id \in Nat
    BY DEF StoreTypeOK, Event
  <1>3. e.id = event_seq + 1 /\ e \notin dedup_events
    BY <1>2 DEF Accounting
  <1>4. \A f \in dedup_events' : f.id <= event_seq'
    BY <1>1, <1>2, <1>3 DEF Accounting
  <1>5. \A f, g \in dedup_events' : f.id = g.id => f = g
    BY <1>1, <1>2, <1>3 DEF Accounting
  <1>6. IsFiniteSet(dedup_events')
        /\ Cardinality(dedup_events') = Cardinality(dedup_events) + 1
    <2> HIDE DEF e
    <2> QED
      BY <1>1, <1>3, FS_AddElement DEF Accounting
  <1>7. counters \in Counters
    BY DEF StoreTypeOK
  <1>8. SkipsMatchEvents'
    BY <1>1, <1>2, <1>6, <1>7 DEF Accounting, SkipsMatchEvents, Counters
  <1> QED
    BY <1>4, <1>5, <1>6, <1>8 DEF Accounting

\* A reclaim deletes one event: the latest that matches exists and is unique.
LEMMA LatestIsOne ==
    ASSUME StoreTypeOK, Accounting, NEW k \in Keys, NEW n \in Issues, Provisional(k, n) # {}
    PROVE  \E e \in dedup_events : Latest(Provisional(k, n)) = {e}
  <1> DEFINE E == Provisional(k, n)
  <1>1. E \in SUBSET Event /\ E \in SUBSET dedup_events /\ E # {}
    BY DEF StoreTypeOK, Provisional
  <1>2. IsFiniteSet(E)
    BY <1>1, FS_Subset DEF Accounting
  <1>3. PICK e \in E : e \in Latest(E)
    <2> HIDE DEF E
    <2> QED
      BY <1>1, <1>2, LatestExists
  <1>4. ASSUME NEW f \in Latest(E)
        PROVE  f = e
    <2>1. f \in E /\ f.id <= e.id /\ e.id <= f.id
      <3> HIDE DEF E
      <3> QED
        BY <1>3, <1>4 DEF Latest
    <2>2. f.id = e.id
      BY <1>1, <2>1 DEF Event
    <2> QED
      BY <1>1, <2>1, <2>2 DEF Accounting
  <1> QED
    BY <1>1, <1>3, <1>4

LEMMA ReclaimAccounted ==
    ASSUME StoreTypeOK, Accounting, NEW t \in Tasks, NEW k \in Keys, NEW n \in Issues,
           ReclaimWon(t, k, n), Provisional(k, n) # {}
    PROVE  Accounting'
  <1>1. PICK e \in dedup_events : Latest(Provisional(k, n)) = {e}
    BY LatestIsOne
  <1>2. dedup_events' = dedup_events \ {e} /\ event_seq' = event_seq
    BY <1>1 DEF ReclaimWon
  <1>3. IsFiniteSet(dedup_events')
        /\ Cardinality(dedup_events') = Cardinality(dedup_events) - 1
    BY <1>2, FS_RemoveElement DEF Accounting
  <1>4. counters \in Counters /\ event_seq \in Nat
    BY DEF StoreTypeOK
  <1>5. counters' = [counters EXCEPT !.dedup_skips = @ - 1, !.findings_reclaimed = @ + 1]
    BY DEF ReclaimWon
  <1>6. /\ counters'.dedup_skips = counters.dedup_skips - 1
        /\ counters'.findings_reclaimed = counters.findings_reclaimed + 1
    BY <1>4, <1>5 DEF Counters
  <1>7. SkipsMatchEvents'
    <2>1. counters.dedup_skips \in Int /\ counters.findings_reclaimed \in Nat
      BY <1>4 DEF Counters
    <2> QED
      BY <1>2, <1>3, <1>4, <1>6, <2>1 DEF Accounting, SkipsMatchEvents
  <1> QED
    BY <1>2, <1>3, <1>7 DEF Accounting

LEMMA AccountingKept ==
    ASSUME Accounting, UNCHANGED <<dedup_events, event_seq>>,
           counters'.dedup_skips = counters.dedup_skips,
           counters'.findings_reclaimed = counters.findings_reclaimed
    PROVE  Accounting'
  BY DEF Accounting, SkipsMatchEvents

\* The steps that neither log nor reclaim leave both sides alone.
LEMMA AccountingOthers ==
    ASSUME Shape, Accounting,
           \/ \E t \in Tasks : SessionCreated(t) \/ CreateFailed(t) \/ CreateUndecodable(t)
           \/ \E t \in Tasks, k \in Keys : PullRequestEvent(t, k)
           \/ \E t \in Tasks : ServePost(t)
           \/ \E w \in Workers : Poll(w) \/ ServeGet(w)
           \/ PollerLoop
           \/ \E n \in Issues : SessionMoves(n) \/ Merge(n)
           \/ \E k \in Keys : ClaimAges(k) \/ AttemptOverdue(k)
           \/ Restart
           \/ UNCHANGED vars
    PROVE  Accounting'
  <1>1. UNCHANGED <<dedup_events, event_seq>>
    BY DEF SessionCreated, CreateFailed, CreateUndecodable, PullRequestEvent,
           HandlePullRequestEvent, StartPoll, ServePost, Poll, PollAnswered, PollUnreachable, PollRefused,
           PollUndecodable, ServeGet, PollerLoop, Tick, PollNext, SessionMoves, Merge, ClaimAges,
           AttemptOverdue, Restart, vars, storeVars
  <1>2. \/ UNCHANGED counters
        \/ counters' = [counters EXCEPT !.sessions_reused_409 = @ + 1]
    BY DEF SessionCreated, CreateFailed, CreateUndecodable, PullRequestEvent,
           HandlePullRequestEvent, StartPoll, ServePost, Poll, PollAnswered, PollUnreachable, PollRefused,
           PollUndecodable, ServeGet, PollerLoop, Tick, PollNext, SessionMoves, Merge, ClaimAges,
           AttemptOverdue, Restart, vars, storeVars
  <1>3. counters \in Counters
    BY DEF Shape, TypeOK, StoreTypeOK
  <1> QED
    BY <1>1, <1>2, <1>3, AccountingKept DEF Counters

LEMMA AccountingIssueEvent ==
    ASSUME Shape, Accounting, NEW t \in Tasks, NEW n \in Issues, NEW k \in Keys,
           HandleIssueEvent(t, n, k)
    PROVE  Accounting'
  <1>1. StoreTypeOK /\ counters \in Counters
    BY DEF Shape, TypeOK, StoreTypeOK
  <1>2. CASE Acquire(t, n, k) \/ Resume(t, n, k)
    BY <1>2, AccountingKept DEF Acquire, Resume, ClaimNew, ClaimReclaimed, ClaimResumed
  <1>3. CASE ClaimRedelivery(k, n)
    <2>1. counters' = [counters EXCEPT !.dedup_skips = @ + 1, !.redeliveries_ignored = @ + 1]
      BY <1>3 DEF ClaimRedelivery
    <2>2. /\ counters'.dedup_skips = counters.dedup_skips + 1
          /\ counters'.findings_reclaimed = counters.findings_reclaimed
      BY <1>1, <2>1 DEF Counters
    <2> QED
      BY <1>1, <1>3, <2>2, LogAccounted DEF ClaimRedelivery
  <1>4. CASE ClaimDuplicate(k, n)
    <2>1. counters' = [counters EXCEPT !.dedup_skips = @ + 1]
      BY <1>4 DEF ClaimDuplicate
    <2>2. /\ counters'.dedup_skips = counters.dedup_skips + 1
          /\ counters'.findings_reclaimed = counters.findings_reclaimed
      BY <1>1, <2>1 DEF Counters
    <2> QED
      BY <1>1, <1>4, <2>2, LogAccounted DEF ClaimDuplicate
  <1> QED
    BY <1>2, <1>3, <1>4 DEF HandleIssueEvent, IgnoreRedelivery, SkipLive, Question

LEMMA AccountingAnswered ==
    ASSUME Shape, CopiesCurrent, Accounting, NEW t \in Tasks,
           PullRequestAnswered(t) \/ IssueAnswered(t)
    PROVE  Accounting'
  <1>1. PICK k \in Keys, n \in Issues : k = worker[t].key /\ n = worker[t].issue
    BY DEF PullRequestAnswered, IssueAnswered, Asking, Shape, WorkersOnClaims, OnClaim, Workers
  <1>2. CASE ReclaimWon(t, k, n)
    <2>1. Provisional(k, n) # {}
      BY <1>1, <1>2 DEF ReclaimWon, Unchanged, CopiesCurrent
    <2> QED
      BY <1>2, <2>1, ReclaimAccounted DEF Shape, TypeOK
  <1>3. CASE UNCHANGED <<dedup_events, event_seq, counters>>
    BY <1>3, AccountingKept
  <1> QED
    BY <1>1, <1>2, <1>3
       DEF PullRequestAnswered, IssueAnswered, Skip, Reclaim, ReclaimLost, storeVars

LEMMA AccountingStep == Shape /\ CopiesCurrent /\ Accounting /\ [Next]_vars => Accounting'
  <1> SUFFICES ASSUME Shape, CopiesCurrent, Accounting, [Next]_vars PROVE Accounting'
    OBVIOUS
  <1>1. CASE \E t \in Tasks, n \in Issues, k \in Keys : IssueEvent(t, n, k)
    BY <1>1, AccountingIssueEvent DEF IssueEvent
  <1>2. CASE \E t \in Tasks : PullRequestAnswered(t) \/ IssueAnswered(t)
    BY <1>2, AccountingAnswered
  <1> QED
    BY <1>1, <1>2, AccountingOthers DEF Next, Underway, Handler

LEMMA AccountingInit == Init => Accounting
  <1>1. IsFiniteSet({}) /\ Cardinality({}) = 0
    BY FS_EmptySet
  <1> QED
    BY <1>1 DEF Init, StoreInit, Accounting, SkipsMatchEvents

-----------------------------------------------------------------------------
\* "dedup_skips" (what the report shows) is the number of events logged, and
\* every skip taken back was taken back once, by the task that reclaimed the
\* finding (claim_finding, reclaim_finding).
THEOREM SkipsCounted == Spec => []SkipsMatchEvents
  <1>1. Spec => []Accounting
    BY AccountingInit, AccountingStep, ShapeInvariant, CopiesInvariant, PTL DEF Spec
  <1>2. Accounting => SkipsMatchEvents
    BY DEF Accounting
  <1> QED
    BY <1>1, <1>2, PTL
=============================================================================
