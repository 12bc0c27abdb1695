---------------------------- MODULE IntakeProofs ----------------------------
(***************************************************************************)
(* Behind the webhook server, for any findings, issues, tasks, requests    *)
(* and restarts.  Whatever requests come in, what the tasks do is a        *)
(* behaviour of Service, so that what is proved of Service holds behind    *)
(* the server; the books never show more work than was delivered; a defect *)
(* is one finding however its issues are laid out; and DRY_RUN spends      *)
(* nothing.                                                                *)
(***************************************************************************)
EXTENDS Intake, OutcomeProofs, SumProofs

(***************************************************************************)
(* Invariant: what waits in the inbox is a delivery that was sent.         *)
(***************************************************************************)
InboxTyped == inbox \in [Tasks -> Deliveries \cup {None}]

LEMMA InboxInit == IntakeInit => InboxTyped
  BY DEF IntakeInit, InboxTyped

LEMMA InboxStep == InboxTyped /\ [IntakeNext]_<<vars, intakeVars>> => InboxTyped'
  <1> SUFFICES ASSUME InboxTyped, [IntakeNext]_<<vars, intakeVars>>
               PROVE  InboxTyped'
    OBVIOUS
  <1>1. ASSUME NEW d \in Deliveries, Refuse(d) \/ Fail(d) \/ Ignore(d)
        PROVE  InboxTyped'
    BY <1>1 DEF Refuse, Fail, Ignore, InboxTyped
  <1>2. ASSUME NEW t \in Tasks, NEW d \in Deliveries, Accept(t, d)
        PROVE  InboxTyped'
    BY <1>2 DEF Accept, InboxTyped
  <1>3. ASSUME NEW t \in Tasks, BeginIssue(t) \/ BeginPoll(t) \/ DropPull(t)
        PROVE  InboxTyped'
    <2>1. inbox' = [inbox EXCEPT ![t] = None]
      BY <1>3 DEF BeginIssue, BeginPoll, DropPull, Begin
    <2> QED
      BY <2>1 DEF InboxTyped
  <1>4. CASE UNCHANGED intakeVars
    BY <1>4 DEF intakeVars, InboxTyped
  <1>5. CASE IntakeRestart
    BY <1>5 DEF IntakeRestart, InboxTyped
  <1>6. CASE UNCHANGED <<vars, intakeVars>>
    BY <1>6 DEF intakeVars, InboxTyped
  <1> QED
    BY <1>1, <1>2, <1>3, <1>4, <1>5, <1>6 DEF IntakeNext

(***************************************************************************)
(* What a task begins with is an event of Service.                         *)
(***************************************************************************)
LEMMA IssueBegins ==
    ASSUME InboxTyped, NEW t \in Tasks, BeginIssue(t)
    PROVE  Next
  <1> DEFINE d == inbox[t]
             k == finding_key(parse_finding(d.body))
  <1>1. d \in Deliveries /\ d.event = "issues" /\ IssueEvent(t, d.issue, k)
    BY DEF InboxTyped, BeginIssue
  <1>2. d.issue \in Issues /\ k \in Body[d.issue]
    BY <1>1, IntakeAssumption DEF IntakeAssumption
  <1>3. k \in Keys
    BY <1>2, OrchestratorAssumption DEF OrchestratorAssumption
  <1> HIDE DEF d, k
  <1> QED
    BY <1>1, <1>2, <1>3 DEF Next

LEMMA ReferencedIsKey ==
    ASSUME NEW d, NEW k \in referenced_issue(d), k # None
    PROVE  k \in Keys
  BY DEF referenced_issue, get_by_issue

LEMMA PullBegins ==
    ASSUME InboxTyped, NEW t \in Tasks, BeginPoll(t)
    PROVE  Next
  <1>1. PICK k \in referenced_issue(inbox[t]) : Unresolved(k) /\ StartPoll(t, k)
    BY DEF BeginPoll
  <1>2. k \in Keys /\ k # None
    BY <1>1, ReferencedIsKey DEF Unresolved
  <1>3. Claimed(k)
    BY <1>1, <1>2 DEF Unresolved, referenced_issue, get_by_issue
  <1>4. k \in NonTerminal
    BY <1>1, <1>2, <1>3 DEF Unresolved, NonTerminal
  <1>5. PullRequestEvent(t, k)
    BY <1>1, <1>4 DEF BeginPoll, PullRequestEvent, HandlePullRequestEvent
  <1> QED
    BY <1>2, <1>5 DEF Next

LEMMA IntakeStepImplements ==
    InboxTyped /\ [IntakeNext]_<<vars, intakeVars>> => [Next]_vars
  <1> SUFFICES ASSUME InboxTyped, [IntakeNext]_<<vars, intakeVars>>
               PROVE  [Next]_vars
    OBVIOUS
  <1>1. ASSUME NEW d \in Deliveries, Refuse(d) \/ Fail(d) \/ Ignore(d)
        PROVE  UNCHANGED vars
    BY <1>1 DEF Refuse, Fail, Ignore, Request
  <1>2. ASSUME NEW t \in Tasks, NEW d \in Deliveries, Accept(t, d)
        PROVE  UNCHANGED vars
    BY <1>2 DEF Accept, Request
  <1>3. ASSUME NEW t \in Tasks, BeginIssue(t)
        PROVE  Next
    BY <1>3, IssueBegins
  <1>4. ASSUME NEW t \in Tasks, BeginPoll(t)
        PROVE  Next
    BY <1>4, PullBegins
  <1>5. ASSUME NEW t \in Tasks, DropPull(t)
        PROVE  UNCHANGED vars
    BY <1>5 DEF DropPull
  <1>6. CASE Underway
    BY <1>6 DEF Next
  <1>7. CASE IntakeRestart
    BY <1>7 DEF IntakeRestart, Next
  <1>8. CASE UNCHANGED <<vars, intakeVars>>
    BY <1>8
  <1> QED
    BY <1>1, <1>2, <1>3, <1>4, <1>5, <1>6, <1>7, <1>8 DEF IntakeNext

-----------------------------------------------------------------------------
\* Behind the gates of webhook.py, and with a background task that looks the
\* records up again, the service does what Service does, and nothing else.
THEOREM ServerImplementsService == IntakeSpec => ImplementsService
  <1>1. IntakeInit => Init /\ InboxTyped
    BY InboxInit DEF IntakeInit
  <1>2. InboxTyped /\ [IntakeNext]_<<vars, intakeVars>> => InboxTyped'
    BY InboxStep
  <1>3. InboxTyped /\ [IntakeNext]_<<vars, intakeVars>> => [Next]_vars
    BY IntakeStepImplements
  <1> QED
    BY <1>1, <1>2, <1>3, PTL DEF IntakeSpec, ImplementsService, Spec

\* So what is proved of Service holds behind the server: the skips on the books
\* are the events logged (log_skip and reclaim_finding, store.py).
THEOREM ServedSkipsCounted == IntakeSpec => []SkipsMatchEvents
  BY ServerImplementsService, SkipsCounted, PTL DEF ImplementsService

\* Of what the server lets through, too, only an event for a settled record gets
\* the record a new attempt (claim_finding and reclaim_finding, store.py).
THEOREM ServedSettledBeforeReplaced == IntakeSpec => OnlySettledReplaced
  BY ServerImplementsService, SettledBeforeReplaced, PTL DEF ImplementsService

-----------------------------------------------------------------------------
(***************************************************************************)
(* Attempts and skips on the books, in all.  A claim adds an attempt or a  *)
(* skip, and a reclaim turns a skip into an attempt.                       *)
(***************************************************************************)
Attempts(table) ==
    [k \in Keys |-> IF table[k] # None THEN table[k].created_at ELSE 0]

OnBooks(table, count) == SumFunctionOnSet(Attempts(table), Keys) + count.dedup_skips

LEMMA AttemptsAreNumbers ==
    ASSUME NEW table \in [Keys -> Row \cup {None}]
    PROVE  Numbers(Attempts(table), Keys)
  BY DEF Numbers, Attempts, Row

LEMMA BooksType ==
    ASSUME IsFiniteSet(Keys), NEW table \in [Keys -> Row \cup {None}], NEW count \in Counters
    PROVE  SumFunctionOnSet(Attempts(table), Keys) \in Int /\ OnBooks(table, count) \in Int
  <1>1. SumFunctionOnSet(Attempts(table), Keys) \in Int
    BY AttemptsAreNumbers, SumType
  <1> QED
    BY <1>1 DEF OnBooks, Counters

\* One row is written.
LEMMA AttemptWritten ==
    ASSUME IsFiniteSet(Keys), StoreTypeOK, NEW k \in Keys, NEW row \in Row, update(k, row)
    PROVE  SumFunctionOnSet(Attempts(issues'), Keys)
              = SumFunctionOnSet(Attempts(issues), Keys)
                   + row.created_at - (IF Claimed(k) THEN issues[k].created_at ELSE 0)
  <1> DEFINE F == Attempts(issues)
             G == Attempts(issues')
  <1>1. /\ issues' \in [Keys -> Row \cup {None}] /\ issues'[k] = row
        /\ \A j \in Keys : j # k => issues'[j] = issues[j]
    BY UpdateRow
  <1>2. Numbers(F, Keys) /\ Numbers(G, Keys)
    BY <1>1, AttemptsAreNumbers DEF StoreTypeOK
  <1>3. G[k] = row.created_at /\ F[k] = IF Claimed(k) THEN issues[k].created_at ELSE 0
    BY <1>1, StoreAssumption DEF StoreAssumption, Attempts, Claimed
  <1>4. \A j \in Keys : j # k => G[j] = F[j]
    BY <1>1 DEF Attempts
  <1>5. G[k] \in Int
    BY <1>2 DEF Numbers
  <1> HIDE DEF F, G
  <1>6. SumFunctionOnSet(G, Keys) = SumFunctionOnSet(F, Keys) + G[k] - F[k]
    BY <1>2, <1>4, <1>5, SumChange
  <1> QED
    BY <1>3, <1>6 DEF F, G

\* Creates and polls, and whatever writes no row.
LEMMA AttemptsKept ==
    ASSUME IsFiniteSet(Keys), StoreTypeOK, StoreTypeOK', IssuesKept \/ UNCHANGED issues,
           counters'.dedup_skips = counters.dedup_skips
    PROVE  OnBooks(issues', counters') = OnBooks(issues, counters)
  <1>1. CASE UNCHANGED issues
    BY <1>1 DEF OnBooks
  <1>2. ASSUME NEW k \in Keys, NEW row \in Row, update(k, row), Claimed(k),
               row.created_at = issues[k].created_at
        PROVE  OnBooks(issues', counters') = OnBooks(issues, counters)
    <2>1. issues'[k] = row /\ \A j \in Keys : j # k => issues'[j] = issues[j]
      BY <1>2, UpdateRow
    <2>2. \A j \in Keys : Attempts(issues')[j] = Attempts(issues)[j]
      <3> SUFFICES ASSUME NEW j \in Keys
                   PROVE  (IF issues'[j] # None THEN issues'[j].created_at ELSE 0)
                             = (IF issues[j] # None THEN issues[j].created_at ELSE 0)
        BY DEF Attempts
      <3>1. CASE j # k
        BY <2>1, <3>1
      <3>2. CASE j = k
        <4>1. row # None /\ issues[k] # None
          BY <1>2, StoreAssumption DEF StoreAssumption, Claimed
        <4> QED
          BY <1>2, <2>1, <3>2, <4>1
      <3> QED
        BY <3>1, <3>2
    <2>3. SumFunctionOnSet(Attempts(issues'), Keys) = SumFunctionOnSet(Attempts(issues), Keys)
      BY <2>2, AttemptsAreNumbers, SumsAgree DEF StoreTypeOK
    <2> QED
      BY <2>3 DEF OnBooks
  <1> QED
    BY <1>1, <1>2 DEF IssuesKept

LEMMA EventOnBooks ==
    ASSUME IsFiniteSet(Keys), Shape, NEW t \in Tasks, NEW n \in Issues, NEW k \in Keys,
           HandleIssueEvent(t, n, k)
    PROVE  OnBooks(issues', counters') <= OnBooks(issues, counters) + 1
  <1>1. /\ StoreTypeOK /\ counters \in Counters /\ counters.dedup_skips \in Int
        /\ SumFunctionOnSet(Attempts(issues), Keys) \in Int
    BY BooksType DEF Shape, TypeOK, StoreTypeOK, Counters
  <1>2. CASE UNCHANGED issues /\ counters'.dedup_skips = counters.dedup_skips + 1
    BY <1>1, <1>2 DEF OnBooks
  <1>3. ASSUME NEW created \in Nat \ {0}, update(k, Attempt(n, created)), UNCHANGED counters,
               created = IF Claimed(k) THEN issues[k].created_at + 1 ELSE 1
        PROVE  OnBooks(issues', counters') <= OnBooks(issues, counters) + 1
    <2> DEFINE row == Attempt(n, created)
    <2>1. row \in Row /\ row.created_at = created
      BY AttemptIsRow, AttemptIsFresh
    <2>2. Claimed(k) => issues[k].created_at \in Int
      BY <1>1, ClaimedRow DEF Row
    <2>3. update(k, row)
      BY <1>3
    <2> HIDE DEF row
    <2>4. SumFunctionOnSet(Attempts(issues'), Keys)
              = SumFunctionOnSet(Attempts(issues), Keys)
                   + row.created_at - (IF Claimed(k) THEN issues[k].created_at ELSE 0)
      BY <1>1, <2>1, <2>3, AttemptWritten
    <2>5. SumFunctionOnSet(Attempts(issues'), Keys)
              = SumFunctionOnSet(Attempts(issues), Keys) + 1
      BY <1>1, <1>3, <2>1, <2>2, <2>4
    <2> QED
      BY <1>1, <1>3, <2>5 DEF OnBooks
  <1>4. CASE ClaimNew(k, n)
    BY <1>3, <1>4 DEF ClaimNew
  <1>5. CASE ClaimReclaimed(k, n)
    <2>1. issues[k].created_at + 1 \in Nat \ {0} /\ Claimed(k)
      BY <1>1, <1>5, ClaimedRow DEF ClaimReclaimed, Row
    <2> QED
      BY <1>3, <1>5, <2>1 DEF ClaimReclaimed
  <1>6. CASE ClaimResumed(k, n)
    <2> DEFINE row == [issues[k] EXCEPT !.outcome = "in_progress"]
    <2>1. update(k, row) /\ Claimed(k) /\ issues[k] \in Row /\ UNCHANGED counters
      BY <1>1, <1>6, ClaimedRow DEF ClaimResumed
    <2>2. row \in Row /\ row.created_at = issues[k].created_at /\ row.issue = issues[k].issue
          /\ row.created_at \in Int
      BY <2>1 DEF Row, Outcomes
    <2> HIDE DEF row
    <2>3. IssuesKept
      BY <2>1, <2>2 DEF IssuesKept
    <2>4. SumFunctionOnSet(Attempts(issues'), Keys) = SumFunctionOnSet(Attempts(issues), Keys)
      BY <1>1, <2>1, <2>2, AttemptWritten
    <2> QED
      BY <1>1, <2>1, <2>4 DEF OnBooks
  <1>7. CASE ClaimRedelivery(k, n) \/ ClaimDuplicate(k, n)
    BY <1>1, <1>2, <1>7 DEF ClaimRedelivery, ClaimDuplicate, Counters
  <1> QED
    BY <1>4, <1>5, <1>6, <1>7
       DEF HandleIssueEvent, Acquire, Resume, IgnoreRedelivery, SkipLive, Question

LEMMA AnsweredOnBooks ==
    ASSUME IsFiniteSet(Keys), Shape, Shape', CopiesCurrent, NEW t \in Tasks,
           PullRequestAnswered(t) \/ IssueAnswered(t)
    PROVE  OnBooks(issues', counters') = OnBooks(issues, counters)
  <1>1. PICK k \in Keys, n \in Issues : k = worker[t].key /\ n = worker[t].issue
    BY DEF PullRequestAnswered, IssueAnswered, Asking, Shape, WorkersOnClaims, OnClaim, Workers
  <1>2. CASE ReclaimWon(t, k, n)
    <2> DEFINE row == Attempt(n, issues[k].created_at + 1)
    <2>1. /\ StoreTypeOK /\ counters \in Counters /\ counters.dedup_skips \in Int
          /\ SumFunctionOnSet(Attempts(issues), Keys) \in Int
      BY BooksType DEF Shape, TypeOK, StoreTypeOK, Counters
    <2>2. Claimed(k)
      BY <1>1, <1>2 DEF ReclaimWon, Unchanged, CopiesCurrent, CopyIsCurrent, Claimed
    <2>3. issues[k].created_at \in Nat \ {0}
      BY <2>1, <2>2, ClaimedRow DEF Row
    <2>4. issues[k].created_at + 1 \in Nat \ {0}
      BY <2>3
    <2>5. row \in Row /\ row.created_at = issues[k].created_at + 1
      BY <2>4, AttemptIsRow, AttemptIsFresh
    <2>6. update(k, row) /\ counters'.dedup_skips = counters.dedup_skips - 1
      BY <1>2, <2>1 DEF ReclaimWon, Counters
    <2> HIDE DEF row
    <2>7. SumFunctionOnSet(Attempts(issues'), Keys)
              = SumFunctionOnSet(Attempts(issues), Keys)
                   + row.created_at - issues[k].created_at
      BY <2>1, <2>2, <2>5, <2>6, AttemptWritten
    <2> QED
      BY <2>1, <2>3, <2>5, <2>6, <2>7 DEF OnBooks
  <1>3. CASE UNCHANGED <<issues, counters>>
    BY <1>3
  <1> QED
    BY <1>1, <1>2, <1>3
       DEF PullRequestAnswered, IssueAnswered, Skip, Reclaim, ReclaimLost, storeVars

LEMMA OthersOnBooks ==
    ASSUME IsFiniteSet(Keys), Shape, Shape', CopiesCurrent,
           \/ Underway
           \/ \E t \in Tasks, k \in Keys : PullRequestEvent(t, k)
           \/ Restart
           \/ UNCHANGED vars
    PROVE  OnBooks(issues', counters') = OnBooks(issues, counters)
  <1>1. StoreTypeOK /\ StoreTypeOK' /\ counters \in Counters
    BY DEF Shape, TypeOK, StoreTypeOK
  <1>2. ASSUME NEW t \in Tasks, PullRequestAnswered(t) \/ IssueAnswered(t)
        PROVE  OnBooks(issues', counters') = OnBooks(issues, counters)
    BY <1>2, AnsweredOnBooks
  <1>3. ASSUME NEW t \in Tasks, SessionCreated(t) \/ CreateFailed(t) \/ CreateUndecodable(t)
        PROVE  OnBooks(issues', counters') = OnBooks(issues, counters)
    <2>1. counters'.dedup_skips = counters.dedup_skips
      BY <1>1, <1>3 DEF SessionCreated, CreateFailed, CreateUndecodable, storeVars, Counters
    <2> QED
      BY <1>1, <1>3, <2>1, CreatesKeepIssues, AttemptsKept
  <1>4. ASSUME NEW w \in Workers, Poll(w)
        PROVE  OnBooks(issues', counters') = OnBooks(issues, counters)
    <2>1. UNCHANGED counters
      BY <1>4 DEF Poll, PollAnswered, PollUnreachable, PollRefused, PollUndecodable, storeVars
    <2>2. IssuesKept
      BY <1>4, PollsKeepClaims DEF ClaimsKept, IssuesKept
    <2> QED
      BY <1>1, <2>1, <2>2, AttemptsKept
  <1>5. CASE UNCHANGED <<issues, counters>>
    BY <1>5
  <1> QED
    BY <1>2, <1>3, <1>4, <1>5
       DEF Underway, Handler, PullRequestEvent, HandlePullRequestEvent, StartPoll, ServePost,
           ServeGet, PollerLoop, Tick, PollNext, SessionMoves, Merge, ClaimAges, AttemptOverdue,
           Restart, vars, storeVars

(***************************************************************************)
(* Webhooks.  What is on the books, in the inbox or lost was received, and *)
(* not ignored.                                                            *)
(***************************************************************************)
Waiting == {t \in Tasks : inbox[t] # None}

Received ==
    /\ InboxTyped
    /\ webhooks \in [received : Nat, ignored : Nat]
    /\ lost \in Nat
    /\ WorkIsDelivered

LEMMA DeliveredWork ==
    /\ WorkIsDelivered <=>
          OnBooks(issues, counters) + Cardinality(Waiting) + lost
              <= webhooks.received - webhooks.ignored
    /\ WorkIsDelivered' <=>
          OnBooks(issues', counters') + Cardinality(Waiting') + lost'
              <= webhooks'.received - webhooks'.ignored
  BY DEF WorkIsDelivered, OnBooks, Attempts, Waiting, Claimed

LEMMA ReceivedInit == IsFiniteSet(Keys) /\ IntakeInit => Received
  <1> SUFFICES ASSUME IsFiniteSet(Keys), IntakeInit PROVE Received
    OBVIOUS
  <1>1. Waiting = {} /\ Cardinality(Waiting) = 0
    BY FS_EmptySet DEF IntakeInit, Waiting
  <1>2. SumFunctionOnSet(Attempts(issues), Keys) = 0
    <2> DEFINE F == Attempts(issues)
    <2>1. \A k \in Keys : F[k] = 0
      BY DEF IntakeInit, Init, StoreInit, Attempts
    <2>2. Numbers(F, Keys)
      BY <2>1 DEF Numbers
    <2> HIDE DEF F
    <2>3. SumFunctionOnSet(F, Keys) = 0
      BY <2>1, <2>2, SumOfZeros
    <2> QED
      BY <2>3 DEF F
  <1>3. counters.dedup_skips = 0 /\ lost = 0 /\ webhooks = [received |-> 0, ignored |-> 0]
    BY DEF IntakeInit, Init, StoreInit
  <1>4. OnBooks(issues, counters) = 0
    BY <1>2, <1>3 DEF OnBooks
  <1>5. WorkIsDelivered
    BY <1>1, <1>3, <1>4, DeliveredWork
  <1> QED
    BY <1>3, <1>5, InboxInit DEF Received

LEMMA RequestsReceived ==
    ASSUME IsFiniteSet(Tasks), IsFiniteSet(Keys), Shape, Received, NEW d \in Deliveries,
           Refuse(d) \/ Fail(d) \/ Ignore(d) \/ \E t \in Tasks : Accept(t, d)
    PROVE  Received'
  <1>1. /\ UNCHANGED <<issues, counters, lost>> /\ InboxTyped'
        /\ OnBooks(issues, counters) \in Int /\ Cardinality(Waiting) \in Nat /\ IsFiniteSet(Waiting)
    <2>1. UNCHANGED <<issues, counters, lost>>
      BY DEF Refuse, Fail, Ignore, Accept, Request, vars, storeVars
    <2>2. InboxTyped'
      BY InboxStep DEF IntakeNext, Received
    <2>3. IsFiniteSet(Waiting) /\ Cardinality(Waiting) \in Nat
      BY FS_Subset, FS_CardinalityType DEF Waiting
    <2> QED
      BY <2>1, <2>2, <2>3, BooksType DEF Shape, TypeOK, StoreTypeOK
  <1>2. OnBooks(issues', counters') = OnBooks(issues, counters) /\ lost' = lost
    BY <1>1 DEF OnBooks
  <1>3. CASE UNCHANGED <<inbox, webhooks>>
    BY <1>1, <1>2, <1>3, DeliveredWork DEF Received, WorkIsDelivered, Claimed
  <1>4. CASE Ignore(d)
    <2>1. /\ UNCHANGED inbox /\ webhooks' \in [received : Nat, ignored : Nat]
          /\ webhooks'.received = webhooks.received + 1 /\ webhooks'.ignored = webhooks.ignored + 1
      <3>1. webhooks' = [webhooks EXCEPT !.received = @ + 1, !.ignored = @ + 1]
        BY <1>4 DEF Ignore
      <3>2. webhooks \in [received : Nat, ignored : Nat] /\ UNCHANGED inbox
        BY <1>4 DEF Ignore, Received
      <3>3. webhooks.received + 1 \in Nat /\ webhooks.ignored + 1 \in Nat
        BY <3>2
      <3> QED
        BY <3>1, <3>2, <3>3
    <2>2. Waiting' = Waiting
      BY <2>1 DEF Waiting
    <2>3. /\ WorkIsDelivered /\ webhooks.received \in Nat /\ webhooks.ignored \in Nat
          /\ lost \in Nat
      BY DEF Received
    <2>4. WorkIsDelivered'
      BY <1>1, <1>2, <2>1, <2>2, <2>3, DeliveredWork
    <2> QED
      BY <1>1, <2>1, <2>3, <2>4 DEF Received
  <1>6. CASE Fail(d)
    <2>1. /\ UNCHANGED inbox /\ webhooks' \in [received : Nat, ignored : Nat]
          /\ webhooks'.received = webhooks.received + 1 /\ webhooks'.ignored = webhooks.ignored
      BY <1>6 DEF Fail, Received
    <2>2. Waiting' = Waiting
      BY <2>1 DEF Waiting
    <2>3. /\ WorkIsDelivered /\ webhooks.received \in Nat /\ webhooks.ignored \in Nat
          /\ lost \in Nat
      BY DEF Received
    <2>4. WorkIsDelivered'
      BY <1>1, <1>2, <2>1, <2>2, <2>3, DeliveredWork
    <2> QED
      BY <1>1, <2>1, <2>3, <2>4 DEF Received
  <1>5. ASSUME NEW t \in Tasks, Accept(t, d)
        PROVE  Received'
    <2>1. /\ inbox[t] = None /\ inbox' = [inbox EXCEPT ![t] = d]
          /\ webhooks' \in [received : Nat, ignored : Nat]
          /\ webhooks'.received = webhooks.received + 1 /\ webhooks'.ignored = webhooks.ignored
      BY <1>5 DEF Accept, Received
    <2>2. d # None
      BY IntakeAssumption DEF IntakeAssumption
    <2>3. Waiting' = Waiting \cup {t} /\ t \notin Waiting
      BY <2>1, <2>2 DEF Waiting, Received, InboxTyped
    <2>4. Cardinality(Waiting') = Cardinality(Waiting) + 1
      BY <1>1, <2>3, FS_AddElement
    <2>5. /\ WorkIsDelivered /\ webhooks.received \in Nat /\ webhooks.ignored \in Nat
          /\ lost \in Nat
      BY DEF Received
    <2>6. WorkIsDelivered'
      BY <1>1, <1>2, <2>1, <2>4, <2>5, DeliveredWork
    <2> QED
      BY <1>1, <2>1, <2>5, <2>6 DEF Received
  <1> QED
    BY <1>3, <1>4, <1>5, <1>6 DEF Refuse

LEMMA TasksReceived ==
    ASSUME IsFiniteSet(Tasks), IsFiniteSet(Keys), Shape, Shape', CopiesCurrent, Received,
           NEW t \in Tasks, BeginIssue(t) \/ BeginPoll(t) \/ DropPull(t)
    PROVE  Received'
  <1>1. inbox[t] # None /\ Begin(t)
    BY DEF BeginIssue, BeginPoll, DropPull
  <1>2. /\ inbox' = [inbox EXCEPT ![t] = None] /\ UNCHANGED <<webhooks, lost>>
        /\ InboxTyped /\ InboxTyped'
    BY <1>1 DEF Begin, Received, InboxTyped
  <1>3. IsFiniteSet(Waiting) /\ Cardinality(Waiting) \in Nat
    BY FS_Subset, FS_CardinalityType DEF Waiting
  <1>4. Waiting' = Waiting \ {t} /\ t \in Waiting
    BY <1>1, <1>2 DEF Waiting, InboxTyped
  <1>5. Cardinality(Waiting') = Cardinality(Waiting) - 1
    BY <1>3, <1>4, FS_RemoveElement
  <1>6. OnBooks(issues, counters) \in Int /\ OnBooks(issues', counters') \in Int
    <2>1. StoreTypeOK /\ StoreTypeOK'
      BY DEF Shape, TypeOK
    <2> QED
      BY <2>1, BooksType DEF StoreTypeOK
  <1>7. OnBooks(issues', counters') <= OnBooks(issues, counters) + 1
    <2>1. CASE BeginIssue(t)
      <3> DEFINE d == inbox[t]
                 k == finding_key(parse_finding(d.body))
      <3>1. d \in Deliveries /\ d.event = "issues" /\ HandleIssueEvent(t, d.issue, k)
        BY <2>1 DEF BeginIssue, Received, InboxTyped, IssueEvent
      <3>2. d.issue \in Issues /\ k \in Body[d.issue]
        BY <3>1, IntakeAssumption DEF IntakeAssumption
      <3>3. k \in Keys
        BY <3>2, OrchestratorAssumption DEF OrchestratorAssumption
      <3> HIDE DEF d, k
      <3> QED
        BY <3>1, <3>2, <3>3, EventOnBooks
    <2>2. CASE BeginPoll(t) \/ DropPull(t)
      <3>1. UNCHANGED <<issues, counters>>
        BY <2>2 DEF BeginPoll, DropPull, StartPoll, vars, storeVars
      <3> QED
        BY <1>6, <3>1
    <2> QED
      BY <2>1, <2>2
  <1>8. /\ WorkIsDelivered /\ webhooks.received \in Nat /\ webhooks.ignored \in Nat
        /\ lost \in Nat
    BY DEF Received
  <1>9. WorkIsDelivered'
    BY <1>2, <1>3, <1>5, <1>6, <1>7, <1>8, DeliveredWork
  <1> QED
    BY <1>2, <1>8, <1>9 DEF Received

LEMMA OthersReceived ==
    ASSUME IsFiniteSet(Tasks), IsFiniteSet(Keys), Shape, Shape', CopiesCurrent, Received,
           \/ Underway /\ UNCHANGED intakeVars
           \/ IntakeRestart
           \/ UNCHANGED <<vars, intakeVars>>
    PROVE  Received'
  <1>1. OnBooks(issues', counters') = OnBooks(issues, counters)
    BY OthersOnBooks DEF IntakeRestart
  <1>2. OnBooks(issues, counters) \in Int
    BY BooksType DEF Shape, TypeOK, StoreTypeOK
  <1>3. IsFiniteSet(Waiting) /\ Cardinality(Waiting) \in Nat
    BY FS_Subset, FS_CardinalityType DEF Waiting
  <1>4. /\ WorkIsDelivered /\ webhooks.received \in Nat /\ webhooks.ignored \in Nat
        /\ lost \in Nat /\ InboxTyped
    BY DEF Received
  <1>5. CASE UNCHANGED intakeVars
    <2>1. UNCHANGED <<inbox, webhooks, lost, Waiting>>
      BY <1>5 DEF intakeVars, Waiting
    <2>2. WorkIsDelivered'
      BY <1>1, <1>4, <2>1, DeliveredWork
    <2> QED
      BY <2>1, <2>2 DEF Received, InboxTyped
  <1>6. CASE IntakeRestart
    <2>1. /\ inbox' = [t \in Tasks |-> None] /\ lost' = lost + Cardinality(Waiting)
          /\ UNCHANGED webhooks
      BY <1>6 DEF IntakeRestart, Waiting
    <2>2. Waiting' = {} /\ Cardinality(Waiting') = 0
      BY <2>1, FS_EmptySet DEF Waiting
    <2>3. WorkIsDelivered'
      BY <1>1, <1>2, <1>3, <1>4, <2>1, <2>2, DeliveredWork
    <2> QED
      BY <1>3, <1>4, <2>1, <2>3 DEF Received, InboxTyped
  <1> QED
    BY <1>5, <1>6

\* The report never claims more work, or more duplicates, than came in: every
\* attempt and every skip on the books has a webhook of its own that was
\* accepted and begun, through any reclaims, retries and restarts.
THEOREM WorkWasDelivered ==
    ASSUME IsFiniteSet(Tasks), IsFiniteSet(Keys)
    PROVE  IntakeSpec => []WorkIsDelivered
  <1>1. IntakeInit => Received
    BY ReceivedInit
  <1>2. Shape /\ Shape' /\ CopiesCurrent /\ Received /\ [IntakeNext]_<<vars, intakeVars>>
            => Received'
    BY RequestsReceived, TasksReceived, OthersReceived DEF IntakeNext
  <1>3. Spec => [](Shape /\ CopiesCurrent)
    BY ShapeInvariant, CopiesInvariant, PTL
  <1>4. IntakeSpec => [](Shape /\ CopiesCurrent)
    BY <1>3, ServerImplementsService, PTL DEF ImplementsService
  <1>5. Received => WorkIsDelivered
    BY DEF Received
  <1> QED
    BY <1>1, <1>2, <1>4, <1>5, PTL DEF IntakeSpec
-----------------------------------------------------------------------------
(***************************************************************************)
(* Findings.  A field that has a text, wherever its line is and whatever   *)
(* marks are on it, is extracted as that text.                             *)
(***************************************************************************)
IssueDeliveries == {d \in Deliveries : d.event = "issues"}

\* The field is left out, or the first line that is labelled with it has a text.
Says(body, field, value) ==
    LET labelled == {i \in DOMAIN body : body[i].label = field}
    IN  \/ labelled = {} /\ value = Empty
        \/ \E i \in labelled :
              /\ \A j \in labelled : i <= j
              /\ body[i].text \in Texts /\ Unmarked[body[i].text] \in Texts
              /\ value = Unticked[Unmarked[body[i].text]]

Naming == {"issue_key", "file", "rule"}

\* What a delivery may ask of the finding it is about.
Stated == \A d \in IssueDeliveries : \A field \in Naming : \E value : Says(d.body, field, value)

SameTerms(d, e) ==
    \A field \in Naming : \E value : Says(d.body, field, value) /\ Says(e.body, field, value)

SameName(d, e) ==
    \/ \E name : /\ name # Empty
                 /\ Says(d.body, "issue_key", name) /\ Says(e.body, "issue_key", name)
    \/ /\ Says(d.body, "issue_key", Empty) /\ Says(e.body, "issue_key", Empty)
       /\ \E file, rule :
             /\ Says(d.body, "file", file) /\ Says(e.body, "file", file)
             /\ Says(d.body, "rule", rule) /\ Says(e.body, "rule", rule)

LEMMA ExtractsWhatIsSaid ==
    ASSUME NEW body \in Seq(Line), NEW field, NEW value, Says(body, field, value)
    PROVE  extract(normalize(body), field) = value
  <1> DEFINE plain == normalize(body)
             labelled == {i \in DOMAIN body : body[i].label = field}
  <1>1. /\ DOMAIN body \in SUBSET Nat
        /\ \A i \in DOMAIN body : body[i] \in Line
    OBVIOUS
  <1>2. /\ DOMAIN plain = DOMAIN body
        /\ \A i \in DOMAIN body :
              /\ plain[i].label = body[i].label
              /\ plain[i].text = IF body[i].text = Empty THEN Empty ELSE Unmarked[body[i].text]
    BY <1>1 DEF normalize, Line
  <1>3. {i \in DOMAIN plain : plain[i].label = field} = labelled
    BY <1>2
  <1> HIDE DEF plain
  <1>4. CASE labelled = {}
    <2>1. value = Empty
      BY <1>4 DEF Says
    <2>2. extract(plain, field) = Empty
      BY <1>3, <1>4 DEF extract
    <2> QED
      BY <2>1, <2>2 DEF plain
  <1>5. ASSUME NEW i \in labelled, \A j \in labelled : i <= j,
               body[i].text \in Texts, Unmarked[body[i].text] \in Texts,
               value = Unticked[Unmarked[body[i].text]]
        PROVE  extract(plain, field) = value
    <2>1. Min(labelled) = i
      <3>1. \A j \in labelled : j \in Nat
        BY <1>1
      <3> HIDE DEF labelled
      <3>2. \A m \in labelled : (\A j \in labelled : m <= j) => m = i
        BY <1>5, <3>1
      <3> QED
        BY <1>5, <3>2 DEF Min
    <2>2. plain[i].text = Unmarked[body[i].text] /\ plain[i].text # Empty
      BY <1>2, <1>5, FindingsAssumption DEF FindingsAssumption
    <2>3. labelled # {}
      BY <1>5
    <2>4. extract(plain, field) = Strip(plain[i].text)
      BY <1>3, <2>1, <2>2, <2>3 DEF extract
    <2> QED
      BY <1>5, <2>2, <2>4 DEF Strip
  <1> QED
    BY <1>4, <1>5 DEF Says, plain

\* Bodies in the same terms, however they are laid out, name one finding.
LEMMA SameTermsSameKey ==
    ASSUME NEW d \in IssueDeliveries, NEW e \in IssueDeliveries, SameTerms(d, e)
    PROVE  finding_key(parse_finding(d.body)) = finding_key(parse_finding(e.body))
  <1>1. d.body \in Seq(Line) /\ e.body \in Seq(Line)
    BY IntakeAssumption DEF IntakeAssumption, IssueDeliveries, Delivery
  <1>2. ASSUME NEW field \in Naming
        PROVE  parse_finding(d.body)[field] = parse_finding(e.body)[field]
    <2>1. PICK value : Says(d.body, field, value) /\ Says(e.body, field, value)
      BY DEF SameTerms
    <2> QED
      BY <1>1, <2>1, ExtractsWhatIsSaid DEF parse_finding, FieldNames, Naming
  <1> QED
    BY <1>2 DEF finding_key, Naming

LEMMA SameKeySameName ==
    ASSUME Stated, NEW d \in IssueDeliveries, NEW e \in IssueDeliveries,
           finding_key(parse_finding(d.body)) = finding_key(parse_finding(e.body))
    PROVE  SameName(d, e)
  <1> DEFINE f == parse_finding(d.body)
             g == parse_finding(e.body)
  <1>1. d.body \in Seq(Line) /\ e.body \in Seq(Line)
    BY IntakeAssumption DEF IntakeAssumption, IssueDeliveries, Delivery
  <1>2. ASSUME NEW field \in Naming
        PROVE  Says(d.body, field, f[field]) /\ Says(e.body, field, g[field])
    BY <1>1, ExtractsWhatIsSaid DEF Stated, parse_finding, FieldNames, Naming
  <1> HIDE DEF f, g
  <1>3. \/ /\ f.issue_key # Empty /\ f.issue_key = g.issue_key
        \/ /\ f.issue_key = Empty /\ g.issue_key = Empty
           /\ f.file = g.file /\ f.rule = g.rule
    BY DEF finding_key, f, g
  <1> QED
    BY <1>2, <1>3 DEF SameName, Naming

(***************************************************************************)
(* The skips logged are of issues that were parsed to the finding.         *)
(***************************************************************************)
EventsParsed == \A e \in dedup_events : Claimed(e.key) /\ e.key \in Body[e.issue]

LEMMA EventsKept ==
    ASSUME EventsParsed, dedup_events' \subseteq dedup_events,
           \A j \in Keys : Claimed(j) => Claimed(j)', StoreTypeOK
    PROVE  EventsParsed'
  BY DEF EventsParsed, StoreTypeOK, Event

LEMMA EventsStep == Shape /\ CopiesCurrent /\ EventsParsed /\ [Next]_vars => EventsParsed'
  <1> SUFFICES ASSUME Shape, CopiesCurrent, EventsParsed, [Next]_vars
               PROVE  EventsParsed'
    OBVIOUS
  <1>1. StoreTypeOK
    BY DEF Shape, TypeOK
  <1>2. ASSUME IssuesKept, UNCHANGED dedup_events
        PROVE  EventsParsed'
    <2>1. \A j \in Keys : Claimed(j) => Claimed(j)'
      BY <1>1, <1>2, UpdateRow, StoreAssumption DEF IssuesKept, Claimed, StoreAssumption
    <2> QED
      BY <1>1, <1>2, <2>1, EventsKept
  <1>3. ASSUME NEW t \in Tasks, NEW n \in Issues, NEW k \in Keys, HandleIssueEvent(t, n, k)
        PROVE  EventsParsed'
    <2>1. k \in Body[n]
      BY <1>3 DEF HandleIssueEvent
    <2>2. CASE ClaimNew(k, n) \/ ClaimReclaimed(k, n) \/ ClaimResumed(k, n)
      BY <1>1, <2>2, AcquireStore, EventsKept DEF ClaimNew, ClaimReclaimed, ClaimResumed
    <2>3. CASE ClaimRedelivery(k, n) \/ ClaimDuplicate(k, n)
      <3>1. PICK e : /\ e.key = k /\ e.issue = n
                     /\ dedup_events' = dedup_events \cup {e}
        BY <2>3 DEF ClaimRedelivery, ClaimDuplicate, Log
      <3>2. Claimed(k) /\ UNCHANGED issues
        BY <2>3 DEF ClaimRedelivery, ClaimDuplicate
      <3> QED
        BY <2>1, <3>1, <3>2 DEF EventsParsed, Claimed
    <2> QED
      BY <1>3, <2>2, <2>3
         DEF HandleIssueEvent, Acquire, Resume, IgnoreRedelivery, SkipLive, Question
  <1>4. ASSUME NEW t \in Tasks, PullRequestAnswered(t) \/ IssueAnswered(t)
        PROVE  EventsParsed'
    <2>1. PICK k \in Keys, n \in Issues : k = worker[t].key /\ n = worker[t].issue
      BY <1>4 DEF PullRequestAnswered, IssueAnswered, Asking, Shape, WorkersOnClaims, OnClaim, Workers
    <2>2. CASE ReclaimWon(t, k, n)
      <3>1. Claimed(k)
        BY <2>1, <2>2 DEF ReclaimWon, Unchanged, CopiesCurrent, CopyIsCurrent, Claimed
      <3>2. \A j \in Keys : Claimed(j) => Claimed(j)'
        BY <1>1, <2>2, <3>1, ReclaimWonStore
      <3> QED
        BY <1>1, <2>2, <3>2, EventsKept DEF ReclaimWon
    <2>3. CASE UNCHANGED <<issues, dedup_events>>
      BY <1>2, <2>3 DEF IssuesKept
    <2> QED
      BY <1>4, <2>1, <2>2, <2>3
         DEF PullRequestAnswered, IssueAnswered, Skip, Reclaim, ReclaimLost, storeVars
  <1>5. ASSUME NEW t \in Tasks, SessionCreated(t) \/ CreateFailed(t) \/ CreateUndecodable(t)
        PROVE  EventsParsed'
    BY <1>2, <1>5, CreatesKeepIssues DEF SessionCreated, CreateFailed, CreateUndecodable, storeVars
  <1>6. ASSUME NEW w \in Workers, Poll(w)
        PROVE  EventsParsed'
    <2>1. IssuesKept
      BY <1>6, PollsKeepClaims DEF ClaimsKept, IssuesKept
    <2>2. UNCHANGED dedup_events
      BY <1>6 DEF Poll, PollAnswered, PollUnreachable, PollRefused, PollUndecodable, storeVars
    <2> QED
      BY <1>2, <2>1, <2>2
  <1>7. CASE UNCHANGED <<issues, dedup_events>>
    BY <1>2, <1>7 DEF IssuesKept
  <1> QED
    BY <1>3, <1>4, <1>5, <1>6, <1>7
       DEF Next, IssueEvent, Underway, Handler, PullRequestEvent, HandlePullRequestEvent, StartPoll,
           ServePost, ServeGet, PollerLoop, Tick, PollNext, SessionMoves, Merge, ClaimAges,
           AttemptOverdue, Restart, vars, storeVars

LEMMA EventsInvariant == Spec => []EventsParsed
  <1>1. Init => EventsParsed
    BY DEF Init, StoreInit, EventsParsed
  <1> QED
    BY <1>1, EventsStep, ShapeInvariant, CopiesInvariant, PTL DEF Spec

-----------------------------------------------------------------------------
\* Bodies are edited, if at all, to what some delivery brings.
BodyIsDelivered ==
    \A n \in Issues : \A k \in Body[n] :
        \E d \in IssueDeliveries : d.issue = n /\ k = finding_key(parse_finding(d.body))

\* A defect filed as several issues, laid out differently but in the same terms,
\* has one live attempt (findings.py: the key is the "Stable identity of the
\* underlying defect, independent of GitHub issue number").
THEOREM DefectsHaveOneAttempt ==
    ASSUME BodyIsDelivered,
           \A d, e \in IssueDeliveries : Defect[d.issue] = Defect[e.issue] => SameTerms(d, e)
    PROVE  IntakeSpec => []OneLiveAttemptPerDefect
  <1>1. Shape /\ Parsed => OneLiveAttemptPerDefect
    <2> SUFFICES ASSUME Shape, Parsed, NEW j \in Keys, NEW k \in Keys, Claimed(j), Claimed(k),
                        Defect[issues[j].issue] = Defect[issues[k].issue]
                 PROVE  j = k
      BY DEF OneLiveAttemptPerDefect
    <2>1. issues[j].issue \in Issues /\ issues[k].issue \in Issues
      BY ClaimedRow DEF Shape, TypeOK, Row
    <2>2. PICK d \in IssueDeliveries :
                  d.issue = issues[j].issue /\ j = finding_key(parse_finding(d.body))
      BY <2>1 DEF Parsed, BodyIsDelivered
    <2>3. PICK e \in IssueDeliveries :
                  e.issue = issues[k].issue /\ k = finding_key(parse_finding(e.body))
      BY <2>1 DEF Parsed, BodyIsDelivered
    <2> QED
      BY <2>2, <2>3, SameTermsSameKey
  <1>2. Spec => [](Shape /\ Parsed)
    BY ShapeInvariant, ParsedInvariant, PTL
  <1> QED
    BY <1>1, <1>2, ServerImplementsService, PTL DEF ImplementsService

\* An issue is called a duplicate only of one about the same defect: what is
\* named the same in the bodies, by the SonarQube key or else by file and rule,
\* being the same.
THEOREM DuplicatesAreOfDefect ==
    ASSUME BodyIsDelivered, Stated,
           \A d, e \in IssueDeliveries : SameName(d, e) => Defect[d.issue] = Defect[e.issue]
    PROVE  IntakeSpec => []DuplicatesShareDefect
  <1>1. Shape /\ Parsed /\ EventsParsed => DuplicatesShareDefect
    <2> SUFFICES ASSUME Shape, Parsed, EventsParsed, NEW event \in dedup_events
                 PROVE  Defect[event.issue] = Defect[issues[event.key].issue]
      BY DEF DuplicatesShareDefect
    <2> DEFINE k == event.key
    <2>1. k \in Keys /\ event.issue \in Issues /\ Claimed(k) /\ k \in Body[event.issue]
      BY DEF EventsParsed, Shape, TypeOK, StoreTypeOK, Event
    <2>2. issues[k].issue \in Issues /\ k \in Body[issues[k].issue]
      BY <2>1, ClaimedRow DEF Shape, TypeOK, Row, Parsed
    <2>3. PICK d \in IssueDeliveries :
                  d.issue = event.issue /\ k = finding_key(parse_finding(d.body))
      BY <2>1 DEF BodyIsDelivered
    <2>4. PICK e \in IssueDeliveries :
                  e.issue = issues[k].issue /\ k = finding_key(parse_finding(e.body))
      BY <2>2 DEF BodyIsDelivered
    <2>5. SameName(d, e)
      BY <2>3, <2>4, SameKeySameName
    <2> QED
      BY <2>3, <2>4, <2>5
  <1>2. Spec => [](Shape /\ Parsed /\ EventsParsed)
    BY ShapeInvariant, ParsedInvariant, EventsInvariant, PTL
  <1> QED
    BY <1>1, <1>2, ServerImplementsService, PTL DEF ImplementsService


-----------------------------------------------------------------------------
(***************************************************************************)
(* DRY_RUN spends nothing: nobody ever waits for an answer, so that        *)
(* nothing but claims and skips is ever written.                           *)
(***************************************************************************)
AllIdle == \A w \in Workers : worker[w].pc = "idle"

Dry == DryRunSpendsNothing /\ AllIdle /\ \A k \in Keys : tick[k] = None

LEMMA DryInit == Init => Dry
  BY DEF Init, StoreInit, RuntimeInit, Dry, DryRunSpendsNothing, AllIdle, Idle, Started,
         Claimed

\* With DRY_RUN a claim leaves its task idle.
LEMMA DryCreate ==
    ASSUME DryRun, Shape, AllIdle, NEW t \in Tasks, NEW k, NEW n, CreateSession(t, k, n)
    PROVE  AllIdle'
  BY DEF CreateSession, Return, Continue, Idle, AllIdle, Shape, TypeOK, RuntimeTypeOK,
         Workers

LEMMA DryIssueEvent ==
    ASSUME DryRun, Shape, Dry, NEW t \in Tasks, NEW n \in Issues, NEW k \in Keys,
           IssueEvent(t, n, k)
    PROVE  Dry'
  <1>1. UNCHANGED <<tick, session>> /\ StoreTypeOK
    BY DEF IssueEvent, HandleIssueEvent, Shape, TypeOK
  <1>2. \A j \in Keys : tick'[j] = None
    BY <1>1 DEF Dry
  <1>3. \A m \in Issues : ~Started(m)'
    BY <1>1 DEF Dry, DryRunSpendsNothing, Started
  <1>4. \A j \in Keys : Claimed(j) => PendingClaim(j)
    BY DEF Dry, DryRunSpendsNothing
  <1>5. CASE Acquire(t, n, k)
    <2>1. PICK created \in Nat \ {0} : update(k, Attempt(n, created))
      <3>1. CASE ClaimNew(k, n)
        BY <3>1 DEF ClaimNew
      <3>2. CASE ClaimReclaimed(k, n)
        <4>1. issues[k] \in Row
          BY <1>1, <3>2, ClaimedRow DEF ClaimReclaimed
        <4>2. issues[k].created_at + 1 \in Nat \ {0}
          BY <4>1 DEF Row
        <4> QED
          BY <3>2, <4>2 DEF ClaimReclaimed
      <3> QED
        BY <1>5, <3>1, <3>2 DEF Acquire
    <2>2. Attempt(n, created) \in Row
      BY AttemptIsRow
    <2>3. /\ issues'[k] = Attempt(n, created)
          /\ \A j \in Keys : j # k => issues'[j] = issues[j]
      BY <1>1, <2>1, <2>2, UpdateRow
    <2>4. \A j \in Keys : Claimed(j)' => PendingClaim(j)'
      <3>1. ASSUME NEW j \in Keys, Claimed(j)', j # k
            PROVE  PendingClaim(j)'
        BY <1>4, <2>3, <3>1 DEF PendingClaim, Claimed, Settled
      <3>2. PendingClaim(k)'
        BY <2>2, <2>3, StoreAssumption
           DEF PendingClaim, Claimed, Settled, Attempt, TERMINAL_OUTCOMES
      <3> QED
        BY <3>1, <3>2
    <2>5. AllIdle'
      BY <1>5, DryCreate DEF Acquire, Dry
    <2> QED
      BY <1>2, <1>3, <2>4, <2>5 DEF Dry, DryRunSpendsNothing
  <1>6. CASE Resume(t, n, k)
    <2>1. /\ Claimed(k) /\ issues[k] \in Row /\ issues[k].devin_id = None
          /\ update(k, [issues[k] EXCEPT !.outcome = "in_progress"])
      BY <1>1, <1>6, ClaimedRow DEF Resume, ClaimResumed, Abandoned
    <2> DEFINE row == [issues[k] EXCEPT !.outcome = "in_progress"]
    <2>2. row \in Row /\ row.devin_id = None /\ row.outcome = "in_progress"
      BY <2>1 DEF Row, Outcomes
    <2>3. update(k, row)
      BY <2>1
    <2> HIDE DEF row
    <2>4. issues'[k] = row /\ \A j \in Keys : j # k => issues'[j] = issues[j]
      BY <1>1, <2>2, <2>3, UpdateRow
    <2>5. \A j \in Keys : Claimed(j)' => PendingClaim(j)'
      <3>1. ASSUME NEW j \in Keys, Claimed(j)', j # k
            PROVE  PendingClaim(j)'
        BY <1>4, <2>4, <3>1 DEF PendingClaim, Claimed, Settled
      <3>2. PendingClaim(k)'
        BY <2>2, <2>4, StoreAssumption DEF PendingClaim, Claimed, Settled, TERMINAL_OUTCOMES
      <3> QED
        BY <3>1, <3>2
    <2>6. AllIdle'
      BY <1>6, DryCreate DEF Resume, Dry
    <2> QED
      BY <1>2, <1>3, <2>5, <2>6 DEF Dry, DryRunSpendsNothing
  <1>7. CASE IgnoreRedelivery(n, k) \/ SkipLive(n, k)
    <2>1. UNCHANGED <<worker, issues>>
      BY <1>7 DEF IgnoreRedelivery, SkipLive, ClaimRedelivery, ClaimDuplicate
    <2> QED
      BY <1>2, <1>3, <1>4, <2>1
         DEF Dry, DryRunSpendsNothing, AllIdle, PendingClaim, Claimed, Settled
  <1>8. CASE Question(t, n, k)
    <2>1. Claimed(k) /\ Settled(issues[k])
      BY <1>8 DEF Question, ClaimDuplicate
    <2> QED
      BY <1>4, <2>1 DEF PendingClaim
  <1> QED
    BY <1>5, <1>6, <1>7, <1>8 DEF IssueEvent, HandleIssueEvent

\* Nobody waits, nothing is tracked, no session exists: only a claim can age.
LEMMA DryUnderway == ASSUME Shape, Dry, Underway PROVE Dry'
  <1>1. \A w \in Workers : worker[w].pc = "idle"
    BY DEF Dry, AllIdle
  <1>2. \A k \in Keys : k \notin NonTerminal
    BY DEF Dry, DryRunSpendsNothing, NonTerminal, PendingClaim
  <1>3. \A t \in Tasks : ~Handler(t)
    BY <1>1 DEF Handler, PullRequestAnswered, IssueAnswered, SessionCreated,
                CreateFailed, CreateUndecodable, Creating, Workers
  <1>4. \A t \in Tasks : ~ServePost(t)
    BY <1>1 DEF ServePost, Workers
  <1>5. \A w \in Workers : ~Poll(w) /\ ~ServeGet(w)
    BY <1>1 DEF Poll, PollAnswered, PollUnreachable, PollRefused, PollUndecodable, ServeGet
  <1>6. ~PollerLoop
    <2>1. \A due \in SUBSET Keys : ~Tick(due)
      BY <1>2 DEF Tick
    <2>2. \A k \in Keys : ~PollNext(k)
      BY DEF PollNext, Dry
    <2> QED
      BY <2>1, <2>2 DEF PollerLoop
  <1>7. \A n \in Issues : ~SessionMoves(n) /\ ~Merge(n)
    BY DEF SessionMoves, Merge, Dry, DryRunSpendsNothing
  <1>8. PICK k \in Keys : ClaimAges(k) \/ AttemptOverdue(k)
    BY <1>3, <1>4, <1>5, <1>6, <1>7 DEF Underway
  <1>9. UNCHANGED <<issues, session, worker, tick>>
    BY <1>8 DEF ClaimAges, AttemptOverdue, runtimeVars, storeVars
  <1> QED
    BY <1>9 DEF Dry, DryRunSpendsNothing, AllIdle, PendingClaim, Claimed, Settled, Started

LEMMA DryStep == ASSUME DryRun PROVE Shape /\ Dry /\ [Next]_vars => Dry'
  <1> SUFFICES ASSUME Shape, Dry, [Next]_vars
               PROVE  Dry'
    OBVIOUS
  <1>1. ASSUME NEW t \in Tasks, NEW n \in Issues, NEW k \in Keys, IssueEvent(t, n, k)
        PROVE  Dry'
    BY <1>1, DryIssueEvent
  <1>2. ASSUME NEW t \in Tasks, NEW k \in Keys, PullRequestEvent(t, k)
        PROVE  FALSE
    BY <1>2 DEF PullRequestEvent, HandlePullRequestEvent, NonTerminal, Dry,
                DryRunSpendsNothing, PendingClaim
  <1>3. CASE Underway
    BY <1>3, DryUnderway
  <1>4. CASE Restart
    BY <1>4 DEF Restart, NoTick, Idle, Dry, DryRunSpendsNothing, AllIdle, PendingClaim,
                Claimed, Settled, Started
  <1>5. CASE UNCHANGED vars
    BY <1>5 DEF vars, storeVars, runtimeVars, Dry, DryRunSpendsNothing, AllIdle,
                PendingClaim, Claimed, Settled, Started
  <1> QED
    BY <1>1, <1>2, <1>3, <1>4, <1>5 DEF Next

-----------------------------------------------------------------------------
\* "DRY_RUN=true runs the whole live path" without spending ACUs: no session is
\* created, and no claim gets a session or an outcome (_create_session), for
\* any webhooks, stale claims and restarts.
THEOREM DryRunFree == ASSUME DryRun PROVE Spec => []DryRunSpendsNothing
  <1>1. Init => Dry
    BY DryInit
  <1>2. Shape /\ Dry /\ [Next]_vars => Dry'
    BY DryStep
  <1>3. Dry => DryRunSpendsNothing
    BY DEF Dry
  <1> QED
    BY <1>1, <1>2, <1>3, ShapeInvariant, PTL DEF Spec

\* And the same behind the server: DRY_RUN is read by the task, not by the gates
\* of webhook.py, and none of them lets anything past it.
THEOREM ServedDryRunFree == ASSUME DryRun PROVE IntakeSpec => []DryRunSpendsNothing
  BY DryRunFree, ServerImplementsService, PTL DEF ImplementsService
=============================================================================
