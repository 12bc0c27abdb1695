--------------------------- MODULE OwnershipProofs ---------------------------
(***************************************************************************)
(* Where no create outlives its claim, and a session is polled by the      *)
(* poller alone or belongs to the one issue that files its finding, for    *)
(* all other values of the constants: a create holds the claim it creates  *)
(* for and every claim has one, results are those of the attempt's own     *)
(* session, an attempt costs at most one session, an outcome is final, and *)
(* every finding lives by FindingLifecycle.                                *)
(*                                                                         *)
(* The invariant Owned says who may write which row: its creator, the only *)
(* one, while it has no session; polls of that very attempt while it has   *)
(* one; a claim when it is settled and not polled.  RowsMove says what     *)
(* comes of it.                                                            *)
(***************************************************************************)
EXTENDS ClaimProofs

USE DevinAssumption, StoreAssumption, RuntimeAssumption, OrchestratorAssumption,
    ServiceAssumption

-----------------------------------------------------------------------------
(***************************************************************************)
(* Issues and the findings they are parsed to.  A step that goes on with a *)
(* row leaves it to its issue.                                             *)
(***************************************************************************)
ParsedKey(work) == work.pc \in Asking \cup Creating => work.key \in Body[work.issue]

Parsed ==
    /\ \A w \in Workers : ParsedKey(worker[w])
    /\ \A k \in Keys : Claimed(k) => k \in Body[issues[k].issue]

IssuesKept ==
    \/ UNCHANGED issues
    \/ \E k \in Keys : \E row \in Row :
          /\ update(k, row)
          /\ Claimed(k) /\ row.issue = issues[k].issue /\ row.created_at = issues[k].created_at

\* The same of polls, which leave the session on a row too and unsettle none.
ClaimsKept ==
    \/ UNCHANGED issues
    \/ \E k \in Keys : \E row \in Row :
          /\ update(k, row)
          /\ Claimed(k) /\ row.issue = issues[k].issue /\ row.created_at = issues[k].created_at
          /\ row.devin_id = issues[k].devin_id
          /\ Settled(issues[k]) => Settled(row)

LEMMA ParsedKept ==
    ASSUME Shape, Parsed, NEW w \in Workers,
           \A v \in Workers \ {w} : worker'[v] = worker[v],
           ParsedKey(worker'[w]),
           \/ UNCHANGED issues
           \/ \E k \in Keys : \E row : update(k, row) /\ k \in Body[row.issue]
    PROVE  Parsed'
  <1>1. \A v \in Workers : ParsedKey(worker'[v])
    BY DEF Parsed
  <1>2. \A k \in Keys : issues'[k] # None => k \in Body[issues'[k].issue]
    BY DEF Parsed, Claimed, update, Shape, TypeOK, StoreTypeOK
  <1> QED
    BY <1>1, <1>2 DEF Parsed, ParsedKey, Claimed

LEMMA AttemptIsFresh ==
    ASSUME NEW n, NEW created
    PROVE  LET row == Attempt(n, created)
           IN  /\ row.issue = n /\ row.devin_id = None /\ row.pr_url = None /\ ~Settled(row)
               /\ row.created_at = created
  BY DEF Attempt, Settled, TERMINAL_OUTCOMES

LEMMA ParsedCreate ==
    ASSUME Shape, NEW t \in Tasks, NEW k \in Keys, NEW n \in Issues, k \in Body[n],
           CreateSession(t, k, n)
    PROVE  ParsedKey(worker'[t]) /\ \A v \in Workers \ {t} : worker'[v] = worker[v]
  <1> DEFINE posting == [Idle EXCEPT !.pc = "post", !.key = k, !.issue = n]
  <1>1. ParsedKey(Idle) /\ ParsedKey(posting)
    BY DEF ParsedKey, Idle, Asking, Creating
  <1>2. Continue(t, Idle) \/ Continue(t, posting)
    BY DEF CreateSession, Return
  <1> HIDE DEF posting
  <1> QED
    BY <1>1, <1>2, WorkerChanged DEF Workers

LEMMA ParsedHandled ==
    ASSUME Shape, Parsed, NEW t \in Tasks,
           \/ PullRequestAnswered(t) \/ IssueAnswered(t)
           \/ \E n \in Issues, k \in Keys : HandleIssueEvent(t, n, k)
    PROVE  Parsed'
  <1>1. t \in Workers /\ worker[t] \in Work
    BY DEF Workers, Shape, TypeOK, RuntimeTypeOK
  <1>2. CASE UNCHANGED issues /\ \E work : Continue(t, work) /\ ParsedKey(work)
    BY <1>1, <1>2, WorkerChanged, ParsedKept
  <1>3. CASE \E n \in Issues, k \in Keys : \E row :
                 k \in Body[n] /\ update(k, row) /\ row.issue = n /\ CreateSession(t, k, n)
    BY <1>1, <1>3, ParsedCreate, ParsedKept
  <1>4. CASE PullRequestAnswered(t) \/ IssueAnswered(t)
    <2>1. worker[t].pc \in Asking
      BY <1>4 DEF PullRequestAnswered, IssueAnswered, Asking
    <2>2. PICK k \in Keys, n \in Issues : k = worker[t].key /\ n = worker[t].issue /\ k \in Body[n]
      BY <1>1, <2>1 DEF Shape, WorkersOnClaims, OnClaim, Parsed, ParsedKey, Asking
    <2>3. ParsedKey(Idle)
      BY DEF ParsedKey, Idle, Asking, Creating
    <2>4. ParsedKey([worker[t] EXCEPT !.pc = "ask_issue"])
      BY <1>1, <2>2 DEF ParsedKey, Work
    <2>5. CASE Skip(t) \/ (ReclaimLost(t, k) /\ Return(t))
      BY <1>2, <2>3, <2>5 DEF Skip, ReclaimLost, Return, storeVars
    <2>6. CASE ReclaimWon(t, k, n) /\ CreateSession(t, k, n)
      BY <1>3, <2>2, <2>6, AttemptIsFresh DEF ReclaimWon
    <2>7. CASE UNCHANGED issues /\ Continue(t, [worker[t] EXCEPT !.pc = "ask_issue"])
      BY <1>2, <2>4, <2>7
    <2> QED
      BY <1>4, <2>2, <2>5, <2>6, <2>7 DEF PullRequestAnswered, IssueAnswered, Reclaim, storeVars
  <1>5. ASSUME NEW n \in Issues, NEW k \in Keys, HandleIssueEvent(t, n, k)
        PROVE  Parsed'
    <2>1. k \in Body[n]
      BY <1>5 DEF HandleIssueEvent
    <2>2. CASE Acquire(t, n, k)
      BY <1>3, <2>1, <2>2, AttemptIsFresh DEF Acquire, ClaimNew, ClaimReclaimed
    <2>3. CASE Resume(t, n, k)
      <3> DEFINE row == [issues[k] EXCEPT !.outcome = "in_progress"]
      <3>1. issues[k] \in Row /\ issues[k].issue = n /\ update(k, row) /\ CreateSession(t, k, n)
        BY <2>3, ClaimedRow DEF Resume, ClaimResumed, Shape, TypeOK
      <3>2. row.issue = n
        BY <3>1 DEF Row
      <3> QED
        BY <1>3, <2>1, <3>1, <3>2
    <2>4. CASE IgnoreRedelivery(n, k) \/ SkipLive(n, k)
      <3>1. UNCHANGED <<issues, worker>>
        BY <2>4 DEF IgnoreRedelivery, SkipLive, ClaimRedelivery, ClaimDuplicate
      <3> QED
        BY <1>1, <3>1, ParsedKept DEF Parsed
    <2>5. CASE Question(t, n, k)
      <3> DEFINE work == [Idle EXCEPT !.pc = FirstQuestion(issues[k]), !.key = k,
                                      !.issue = n, !.copy = issues[k]]
      <3>1. ParsedKey(work)
        BY <2>1 DEF ParsedKey, Idle
      <3>2. UNCHANGED issues /\ Continue(t, work)
        BY <2>5 DEF Question, ClaimDuplicate
      <3> QED
        BY <1>2, <3>1, <3>2
    <2> QED
      BY <1>5, <2>2, <2>3, <2>4, <2>5 DEF HandleIssueEvent
  <1> QED
    BY <1>4, <1>5

\* Creates and polls write rows that exist, and leave them to their issues.
LEMMA CreatesKeepIssues ==
    ASSUME Shape, NEW t \in Tasks,
           SessionCreated(t) \/ CreateFailed(t) \/ CreateUndecodable(t)
    PROVE  Return(t) /\ IssuesKept
  <1>1. t \in Workers /\ worker[t].pc \in Creating /\ Return(t)
    BY DEF Workers, SessionCreated, CreateFailed, CreateUndecodable
  <1>2. PICK k \in Keys : k = worker[t].key /\ Claimed(k)
    BY <1>1 DEF Shape, WorkersOnClaims, OnClaim, Creating, Claimed
  <1>3. issues[k] \in Row
    BY <1>2, ClaimedRow DEF Shape, TypeOK
  <1>4. \A outcome \in Outcomes : \A n \in Issues : \A acus \in Nat :
            \A row \in {[issues[k] EXCEPT !.outcome = outcome],
                       [issues[k] EXCEPT !.devin_id = n, !.acus_consumed = acus,
                                         !.outcome = outcome]} :
               /\ row \in Row
               /\ row.issue = issues[k].issue /\ row.created_at = issues[k].created_at
    BY <1>3 DEF Row
  <1>5. CASE UNCHANGED issues
    BY <1>1, <1>5 DEF IssuesKept
  <1>6. ASSUME NEW row \in Row, update(k, row), row.issue = issues[k].issue,
               row.created_at = issues[k].created_at
        PROVE  Return(t) /\ IssuesKept
    BY <1>1, <1>2, <1>6 DEF IssuesKept
  <1>7. CASE SessionCreated(t)
    <2> DEFINE row == [issues[k] EXCEPT !.devin_id = worker[t].issue,
                                        !.acus_consumed = worker[t].reply.acus,
                                        !.outcome = "in_progress"]
    <2>1. UNCHANGED issues \/ update(k, row)
      BY <1>2, <1>7 DEF SessionCreated
    <2>2. worker[t].issue \in Issues /\ worker[t].reply.acus \in Nat /\ "in_progress" \in Outcomes
      BY <1>1, <1>7 DEF SessionCreated, Shape, TypeOK, RuntimeTypeOK, Work, Payload, WorkersOnClaims,
                        OnClaim, Creating, Outcomes
    <2>3. row \in Row /\ row.issue = issues[k].issue /\ row.created_at = issues[k].created_at
      BY <1>4, <2>2
    <2> HIDE DEF row
    <2> QED
      BY <1>5, <1>6, <2>1, <2>3
  <1>8. CASE CreateFailed(t)
    <2>1. update(k, [issues[k] EXCEPT !.outcome = "errored"])
      BY <1>2, <1>8 DEF CreateFailed
    <2>2. issues[k].issue \in Issues /\ issues[k].acus_consumed \in Nat /\ "errored" \in Outcomes
      BY <1>3 DEF Row, Outcomes, TERMINAL_OUTCOMES
    <2> QED
      BY <1>4, <1>6, <2>1, <2>2
  <1> QED
    BY <1>5, <1>7, <1>8 DEF CreateUndecodable, storeVars

LEMMA PollsKeepClaims ==
    ASSUME Shape, NEW w \in Workers, Poll(w)
    PROVE  Return(w) /\ ClaimsKept
  <1>1. worker[w].pc = "get" /\ Return(w)
    BY DEF Poll, PollAnswered, PollUnreachable, PollRefused, PollUndecodable
  <1>2. PICK k \in Keys : k = worker[w].key /\ Claimed(k)
    BY <1>1 DEF Shape, WorkersOnClaims, OnClaim, Claimed
  <1>3. issues[k] \in Row
    BY <1>2, ClaimedRow DEF Shape, TypeOK
  <1>4. \A copy \in Row : \A p \in Payload :
                LET row == Polled(k, copy, p)
                IN  /\ row \in Row
                    /\ row.issue = issues[k].issue /\ row.devin_id = issues[k].devin_id
                    /\ row.created_at = issues[k].created_at
                    /\ row.outcome = issues[k].outcome
    BY <1>3, PolledRow DEF Row, Polled
  <1>5. ASSUME NEW row \in Row, NEW outcome \in Outcomes, row.issue = issues[k].issue,
               row.created_at = issues[k].created_at, row.devin_id = issues[k].devin_id,
               row.outcome = issues[k].outcome,
               update(k, row) \/ Finalize(k, row, outcome)
        PROVE  ClaimsKept
    <2> DEFINE settled == [row EXCEPT !.outcome = outcome]
    <2>1. /\ settled \in Row /\ settled.issue = row.issue
          /\ settled.devin_id = row.devin_id /\ settled.created_at = row.created_at
      BY <1>5 DEF Row
    <2>2. \/ update(k, row)
          \/ ~Settled(row) /\ update(k, settled)
      BY <1>5 DEF Finalize
    <2> HIDE DEF settled
    <2> QED
      BY <1>2, <1>5, <2>1, <2>2 DEF ClaimsKept, Settled
  <1>6. "timed_out" \in Outcomes /\ "errored" \in Outcomes
        /\ \A p : classify(p) # None => classify(p) \in Outcomes
    BY ClassifyOutcome DEF Outcomes, TERMINAL_OUTCOMES
  <1>7. CASE PollAnswered(w)
    <2> DEFINE p == worker[w].reply
               row == Polled(k, worker[w].copy, p)
    <2>1. worker[w].copy \in Row /\ p \in Payload
      BY <1>1, <1>7 DEF PollAnswered, Shape, TypeOK, RuntimeTypeOK, Work, WorkersOnClaims, OnClaim
    <2>2. \E outcome \in Outcomes : update(k, row) \/ Finalize(k, row, outcome)
      BY <1>2, <1>6, <1>7 DEF PollAnswered, CheckTimeout
    <2>3. /\ row \in Row /\ row.issue = issues[k].issue /\ row.devin_id = issues[k].devin_id
          /\ row.created_at = issues[k].created_at /\ row.outcome = issues[k].outcome
      BY <1>4, <2>1
    <2> HIDE DEF row
    <2> QED
      BY <1>1, <1>5, <2>2, <2>3
  <1>8. CASE PollUnreachable(w) \/ PollRefused(w)
    BY <1>2, <1>3, <1>5, <1>6, <1>8 DEF PollUnreachable, PollRefused, CheckTimeout, ClaimsKept
  <1>9. CASE PollUndecodable(w)
    BY <1>9 DEF PollUndecodable, ClaimsKept, storeVars
  <1> QED
    BY <1>1, <1>7, <1>8, <1>9 DEF Poll

LEMMA ParsedWritten ==
    ASSUME Shape, Parsed, IssuesKept, NEW w \in Workers, Return(w)
    PROVE  Parsed'
  <1>1. worker'[w] = Idle /\ \A v \in Workers \ {w} : worker'[v] = worker[v]
    BY WorkerChanged DEF Return
  <1>2. ParsedKey(worker'[w])
    BY <1>1 DEF ParsedKey, Idle, Asking, Creating
  <1> QED
    BY <1>1, <1>2, ParsedKept DEF IssuesKept, Parsed

LEMMA ParsedOthers ==
    ASSUME Shape, Parsed,
           \/ \E t \in Tasks, k \in Keys : PullRequestEvent(t, k)
           \/ \E t \in Tasks : ServePost(t)
           \/ \E w \in Workers : ServeGet(w)
           \/ PollerLoop
           \/ \E n \in Issues : SessionMoves(n) \/ Merge(n)
           \/ \E k \in Keys : ClaimAges(k) \/ AttemptOverdue(k)
           \/ Restart
           \/ UNCHANGED vars
    PROVE  Parsed'
  <1>1. UNCHANGED issues
    BY DEF PullRequestEvent, HandlePullRequestEvent, StartPoll, ServePost, ServeGet, PollerLoop, Tick,
           PollNext, SessionMoves, Merge, ClaimAges, AttemptOverdue, Restart, vars, storeVars
  <1>2. CASE \A v \in Workers : ParsedKey(worker'[v])
    BY <1>1, <1>2 DEF Parsed, ParsedKey, Claimed
  <1>3. CASE UNCHANGED worker
    BY <1>2, <1>3 DEF Parsed
  <1>4. CASE Restart
    <2>1. ParsedKey(Idle)
      BY DEF ParsedKey, Idle, Asking, Creating
    <2> QED
      BY <1>2, <1>4, <2>1 DEF Restart
  <1>5. ASSUME NEW w \in Workers, NEW k, NEW issue, NEW copy,
               Continue(w, [Idle EXCEPT !.pc = "get", !.key = k, !.issue = issue, !.copy = copy])
        PROVE  Parsed'
    <2> DEFINE work == [Idle EXCEPT !.pc = "get", !.key = k, !.issue = issue, !.copy = copy]
    <2>1. ParsedKey(work)
      BY DEF ParsedKey, Idle, Asking, Creating
    <2> HIDE DEF work
    <2> QED
      BY <1>1, <1>5, <2>1, WorkerChanged, ParsedKept DEF work
  <1>6. CASE \/ \E t \in Tasks, k \in Keys : PullRequestEvent(t, k)
             \/ \E k \in Keys : PollNext(k)
    BY <1>5, <1>6 DEF PullRequestEvent, HandlePullRequestEvent, StartPoll, PollNext, Workers
  <1>7. ASSUME NEW w \in Workers, ServeGet(w) \/ (w \in Tasks /\ ServePost(w))
        PROVE  Parsed'
    <2>1. worker[w] \in Work /\ worker \in [Workers -> Work]
      BY DEF Shape, TypeOK, RuntimeTypeOK
    <2>2. \A v \in Workers \ {w} : worker'[v] = worker[v]
      BY <1>7, <2>1 DEF ServeGet, ServePost
    <2>3. ParsedKey(worker'[w])
      <3>1. /\ worker'[w].key = worker[w].key /\ worker'[w].issue = worker[w].issue
            /\ worker'[w].pc = worker[w].pc \/ worker[w].pc \in Creating
        BY <1>7, <2>1 DEF ServeGet, ServePost, Work, Creating
      <3> QED
        BY <3>1 DEF Parsed, ParsedKey
    <2> QED
      BY <1>1, <2>2, <2>3, ParsedKept
  <1> QED
    BY <1>3, <1>4, <1>6, <1>7
       DEF PollerLoop, Tick, SessionMoves, Merge, ClaimAges, AttemptOverdue, vars, runtimeVars, Workers

LEMMA ParsedStep == Shape /\ Parsed /\ [Next]_vars => Parsed'
  <1> SUFFICES ASSUME Shape, Parsed, [Next]_vars PROVE Parsed'
    OBVIOUS
  <1>1. CASE \E t \in Tasks, n \in Issues, k \in Keys : IssueEvent(t, n, k)
    BY <1>1, ParsedHandled DEF IssueEvent
  <1>2. ASSUME NEW t \in Tasks, Handler(t)
        PROVE  Parsed'
    BY <1>2, ParsedHandled, CreatesKeepIssues, ParsedWritten DEF Handler, Workers
  <1>3. ASSUME NEW w \in Workers, Poll(w)
        PROVE  Parsed'
    BY <1>3, PollsKeepClaims, ParsedWritten DEF ClaimsKept, IssuesKept
  <1> QED
    BY <1>1, <1>2, <1>3, ParsedOthers DEF Next, Underway

\* Whatever an issue's row says, its body was once parsed to that finding.
LEMMA ParsedInvariant == Spec => []Parsed
  <1>1. Init => Parsed
    BY DEF Init, StoreInit, RuntimeInit, Parsed, ParsedKey, Claimed, Idle, Asking, Creating, Workers
  <1> QED
    BY <1>1, ParsedStep, ShapeInvariant, PTL DEF Spec

-----------------------------------------------------------------------------
(***************************************************************************)
(* Who may write which row.                                                *)
(***************************************************************************)
OnlyThePollerPolls == MaxPullEvents = 0

OneIssuePerFinding == \A m, n \in Issues : Body[m] \cap Body[n] # {} => m = n

\* httpx gives a create up before its claim is stale; and the poll a webhook
\* starts is not in flight over a claim of another issue.
Orderly == ~CreateOutlivesClaim /\ (OnlyThePollerPolls \/ OneIssuePerFinding)

CreatorHolds(work, table, old) ==
    work.pc \in Creating =>
        /\ table[work.key] # None
        /\ table[work.key].issue = work.issue
        /\ table[work.key].devin_id = None
        /\ ~Settled(table[work.key])
        /\ work.key \notin old

TasksOwn ==
    \A t \in Tasks :
        /\ CreatorHolds(worker[t], issues, stale)
        /\ \A u \in Tasks :
              worker[t].pc \in Creating /\ worker[u].pc \in Creating
                /\ worker[t].key = worker[u].key => t = u

\* A copy that is polled from is of the attempt on record, and is the very record
\* where nobody else polls.
Tied(row, copy) ==
    /\ row # None /\ row.devin_id # None
    /\ copy.devin_id = row.devin_id /\ copy.created_at = row.created_at
    /\ copy.pr_url \in {None, row.devin_id}
    /\ OnlyThePollerPolls => ~Settled(row) /\ copy = row

TickOwns == \A k \in Keys : tick[k] # None => Tied(issues[k], tick[k])

PollTied(work, table) ==
    work.pc = "get" =>
        work.issue = work.copy.devin_id /\ Tied(table[work.key], work.copy)

PollsOwn == \A w \in Workers : PollTied(worker[w], issues)

PollerAlone ==
    /\ \A t \in Tasks : worker[t].pc # "get"
    /\ worker[Poller].pc = "get" => tick[worker[Poller].key] = None

NobodyAsks == \A t \in Tasks : worker[t].pc \notin Asking

WhoPolls ==
    /\ worker[Poller].pc \in {"idle", "get"}
    /\ IF OnlyThePollerPolls THEN PollerAlone ELSE NobodyAsks

Owned == TasksOwn /\ TickOwns /\ PollsOwn /\ WhoPolls

(***************************************************************************)
(* What a step may make of a row.                                          *)
(***************************************************************************)
Opens(k, row) ==
    /\ ~Claimed(k)
    /\ ~Settled(row) /\ row.devin_id = None /\ row.pr_url = None /\ row.created_at = 1

Reopens(k, row) ==
    /\ Claimed(k) /\ Settled(issues[k])
    /\ ~Settled(row) /\ row.devin_id = None
    /\ \/ /\ row.pr_url = None
          /\ row.created_at = issues[k].created_at + 1
       \/ /\ issues[k].devin_id = None
          /\ row.pr_url = issues[k].pr_url
          /\ row.issue = issues[k].issue /\ row.created_at = issues[k].created_at

Answers(k, row) ==
    /\ Claimed(k) /\ ~Settled(issues[k]) /\ issues[k].devin_id = None
    /\ row.issue = issues[k].issue /\ row.pr_url = issues[k].pr_url
    /\ row.devin_id \in {None, issues[k].issue}
    /\ row.created_at = issues[k].created_at

Records(k, row) ==
    /\ Claimed(k) /\ issues[k].devin_id # None
    /\ row.issue = issues[k].issue /\ row.devin_id = issues[k].devin_id
    /\ row.pr_url \in {None, issues[k].devin_id, issues[k].pr_url}
    /\ row.created_at = issues[k].created_at
    /\ Settled(issues[k]) => ~OnlyThePollerPolls /\ row.outcome = issues[k].outcome

Moves(k, row) == Opens(k, row) \/ Reopens(k, row) \/ Answers(k, row) \/ Records(k, row)

RowsMove ==
    \/ UNCHANGED issues
    \/ \E k \in Keys, row \in Row : update(k, row) /\ Moves(k, row)

\* The same for creates and polls.
RowsAnswered ==
    \/ UNCHANGED issues
    \/ \E k \in Keys, row \in Row : update(k, row) /\ (Answers(k, row) \/ Records(k, row))

-----------------------------------------------------------------------------
LEMMA Parts ==
    ASSUME Shape
    PROVE  /\ issues \in [Keys -> Row \cup {None}]
           /\ worker \in [Workers -> Work]
           /\ tick \in [Keys -> Row \cup {None}]
           /\ Poller \in Workers /\ Poller \notin Tasks
           /\ Workers = Tasks \cup {Poller}
           /\ None \notin Row
  BY DEF Shape, TypeOK, StoreTypeOK, RuntimeTypeOK, Workers

LEMMA IdleOwns ==
    ASSUME NEW table, NEW old
    PROVE  /\ Idle.pc = "idle" /\ Idle.pc \notin Creating /\ Idle.pc \notin Asking
           /\ CreatorHolds(Idle, table, old) /\ PollTied(Idle, table)
  BY DEF Idle, Creating, Asking, CreatorHolds, PollTied

\* Where webhooks poll, a finding is claimed by the one issue that files it.
LEMMA SameFiler ==
    ASSUME Shape, Parsed, Orderly, ~OnlyThePollerPolls, NEW k \in Keys, NEW n \in Issues,
           k \in Body[n], Claimed(k)
    PROVE  issues[k].issue = n
  <1>1. issues[k].issue \in Issues
    BY ClaimedRow DEF Shape, TypeOK, Row
  <1> QED
    BY <1>1 DEF Orderly, OneIssuePerFinding, Parsed

\* No row is written.  w keeps what it is about, or awaits no session any more.
LEMMA OwnedUntouched ==
    ASSUME Shape, Owned, UNCHANGED <<issues, tick>>, stale' \subseteq stale,
           NEW w \in Workers,
           \A v \in Workers \ {w} : worker'[v] = worker[v],
           \/ /\ worker'[w].key = worker[w].key
              /\ worker'[w].issue = worker[w].issue
              /\ worker'[w].copy = worker[w].copy
              /\ worker'[w].pc \in Creating <=> worker[w].pc \in Creating
              /\ worker'[w].pc \in Asking => worker[w].pc \in Asking
              /\ worker[w].pc \in {"idle", "get"} => worker'[w].pc = worker[w].pc
              /\ worker'[w].pc \in {"idle", "get"} => worker'[w].pc = worker[w].pc
           \/ worker'[w].pc = "idle"
           \/ w \in Tasks /\ worker'[w].pc \in Asking /\ OnlyThePollerPolls
    PROVE  Owned'
  <1>1. Workers = Tasks \cup {Poller} /\ Poller \notin Tasks
    BY Parts
  <1>2. \A t \in Tasks : worker'[t].pc \in Creating =>
            /\ worker[t].pc \in Creating
            /\ worker'[t].key = worker[t].key /\ worker'[t].issue = worker[t].issue
    BY <1>1 DEF Creating, Asking
  <1>3. TasksOwn'
    BY <1>2 DEF Owned, TasksOwn, CreatorHolds
  <1>4. TickOwns'
    BY DEF Owned, TickOwns
  <1>5. \A v \in Workers : worker'[v].pc = "get" =>
            /\ worker[v].pc = "get" /\ worker'[v].key = worker[v].key
            /\ worker'[v].issue = worker[v].issue /\ worker'[v].copy = worker[v].copy
    BY DEF Asking
  <1>6. PollsOwn'
    BY <1>5 DEF Owned, PollsOwn, PollTied
  <1>7. worker'[Poller].pc \in {"idle", "get"}
    BY <1>1 DEF Owned, WhoPolls
  <1>8. CASE OnlyThePollerPolls
    BY <1>1, <1>3, <1>4, <1>5, <1>6, <1>7, <1>8 DEF Owned, WhoPolls, PollerAlone
  <1>9. CASE ~OnlyThePollerPolls
    <2>1. NobodyAsks'
      BY <1>1, <1>9 DEF Owned, WhoPolls, NobodyAsks, Asking
    <2> QED
      BY <1>3, <1>4, <1>6, <1>7, <1>9, <2>1 DEF Owned, WhoPolls
  <1> QED
    BY <1>3, <1>4, <1>6, <1>8, <1>9 DEF Owned, WhoPolls

\* Nobody but w is about to poll k.
Untied(k, w) ==
    /\ tick[k] = None
    /\ \A v \in Workers \ {w} : worker[v].pc = "get" => worker[v].key # k

\* The attempt goes on, and others may be about to poll it.
GoesOn(k, row) ==
    /\ ~OnlyThePollerPolls
    /\ row.devin_id = issues[k].devin_id /\ row.created_at = issues[k].created_at

\* The row of k is written by w: only w may have had a session on its mind for it,
\* or the attempt goes on.
LEMMA OwnedWritten ==
    ASSUME Shape, Owned, NEW w \in Workers, NEW k \in Keys, NEW row \in Row, update(k, row),
           NEW work \in Work, Continue(w, work), UNCHANGED tick,
           Untied(k, w) \/ GoesOn(k, row),
           \A t \in Tasks \ {w} : worker[t].pc \in Creating => worker[t].key # k,
           \/ work = Idle
           \/ /\ w \in Tasks
              /\ work.pc = "post" /\ work.key = k
              /\ row.issue = work.issue /\ row.devin_id = None /\ ~Settled(row)
    PROVE  Owned'
  <1>1. Workers = Tasks \cup {Poller} /\ Poller \notin Tasks /\ None \notin Row
    BY Parts
  <1>2. worker'[w] = work /\ \A v \in Workers \ {w} : worker'[v] = worker[v]
    BY WorkerChanged
  <1>3. /\ issues'[k] = row /\ k \notin stale'
        /\ \A j \in Keys \ {k} : issues'[j] = issues[j]
        /\ stale' \subseteq stale
    BY UpdateRow DEF update, Shape, TypeOK
  <1>4. /\ work.pc \in {"idle", "post"} /\ work.pc # "get" /\ work.pc \notin Asking
        /\ w = Poller => work.pc = "idle"
    BY <1>1, IdleOwns DEF Asking
  <1>5. ASSUME NEW t \in Tasks
        PROVE  CreatorHolds(worker'[t], issues', stale')
    <2>1. CASE t = w
      BY <1>1, <1>2, <1>3, <1>4, <2>1, IdleOwns DEF CreatorHolds
    <2>2. CASE t # w
      <3>1. worker'[t] = worker[t] /\ CreatorHolds(worker[t], issues, stale)
        BY <1>1, <1>2, <2>2 DEF Owned, TasksOwn
      <3>2. worker[t].pc \in Creating => worker[t].key \in Keys \ {k}
        BY <1>1, <2>2 DEF Shape, WorkersOnClaims, OnClaim, Creating
      <3> QED
        BY <1>3, <3>1, <3>2 DEF CreatorHolds
    <2> QED
      BY <2>1, <2>2
  <1>6. ASSUME NEW t \in Tasks, NEW u \in Tasks,
               worker'[t].pc \in Creating, worker'[u].pc \in Creating,
               worker'[t].key = worker'[u].key
        PROVE  t = u
    <2>1. \A v \in Tasks \ {w} : worker'[v] = worker[v]
      BY <1>1, <1>2
    <2>2. worker'[w].pc \in Creating => worker'[w].key = k
      BY <1>2, IdleOwns
    <2> QED
      BY <1>6, <2>1, <2>2 DEF Owned, TasksOwn
  <1>7. ASSUME NEW copy, Tied(issues[k], copy), ~Untied(k, w)
        PROVE  Tied(row, copy)
    BY <1>1, <1>7 DEF GoesOn, Tied
  <1>8. TickOwns'
    BY <1>3, <1>7 DEF Owned, TickOwns, Untied
  <1>9. ASSUME NEW v \in Workers
        PROVE  PollTied(worker'[v], issues')
    <2>1. CASE v = w
      BY <1>2, <1>4, <2>1 DEF PollTied
    <2>2. CASE v # w
      <3>1. worker'[v] = worker[v] /\ PollTied(worker[v], issues)
        BY <1>2, <2>2 DEF Owned, PollsOwn
      <3>2. worker[v].pc = "get" => worker[v].key \in Keys
        BY DEF Shape, WorkersOnClaims, OnClaim
      <3> QED
        BY <1>3, <1>7, <2>2, <3>1, <3>2 DEF PollTied, Untied
    <2> QED
      BY <2>1, <2>2
  <1>10. WhoPolls'
    <2>1. worker'[Poller].pc \in {"idle", "get"}
      BY <1>1, <1>2, <1>4 DEF Owned, WhoPolls
    <2>2. OnlyThePollerPolls => PollerAlone'
      BY <1>1, <1>2, <1>4 DEF Owned, WhoPolls, PollerAlone
    <2>3. ~OnlyThePollerPolls => NobodyAsks'
      BY <1>1, <1>2, <1>4 DEF Owned, WhoPolls, NobodyAsks
    <2> QED
      BY <2>1, <2>2, <2>3 DEF WhoPolls
  <1> QED
    BY <1>5, <1>6, <1>8, <1>9, <1>10 DEF Owned, TasksOwn, PollsOwn

-----------------------------------------------------------------------------
(***************************************************************************)
(* Claims.                                                                 *)
(***************************************************************************)
Free(k) == ~Claimed(k) \/ Abandoned(k) \/ (OnlyThePollerPolls /\ Settled(issues[k]))

\* Nobody is about to write a row that can be claimed.
LEMMA FreeIsUnattended ==
    ASSUME Owned, NEW k \in Keys, NEW w \in Workers, Free(k)
    PROVE  /\ Untied(k, w)
           /\ \A t \in Tasks : worker[t].pc \in Creating => worker[t].key # k
  BY DEF Owned, TickOwns, PollsOwn, PollTied, Tied, Untied, TasksOwn, CreatorHolds, Claimed, Free,
         Abandoned

\* Whoever claims a row that can be claimed is its creator, or leaves at once.
LEMMA ClaimOwned ==
    ASSUME Shape, Owned, NEW t \in Tasks, NEW k \in Keys, NEW n \in Issues, NEW row \in Row,
           Free(k), update(k, row), CreateSession(t, k, n), UNCHANGED tick,
           row.issue = n, row.devin_id = None, ~Settled(row)
    PROVE  Owned'
  <1>1. t \in Workers
    BY DEF Workers
  <1>2. CASE DryRun
    BY <1>1, <1>2, FreeIsUnattended, OwnedWritten, IdleIsWork DEF CreateSession, Return
  <1>3. CASE ~DryRun
    <2> DEFINE work == [Idle EXCEPT !.pc = "post", !.key = k, !.issue = n]
    <2>1. work \in Work /\ work.pc = "post" /\ work.key = k /\ work.issue = n
      BY DEF Idle, Work, Creating
    <2>2. Continue(t, work)
      BY <1>3 DEF CreateSession
    <2> HIDE DEF work
    <2> QED
      BY <1>1, <2>1, <2>2, FreeIsUnattended, OwnedWritten
  <1> QED
    BY <1>2, <1>3

LEMMA OwnedIssueEvent ==
    ASSUME Orderly, Shape, Parsed, Owned, NEW t \in Tasks, NEW n \in Issues, NEW k \in Keys,
           HandleIssueEvent(t, n, k)
    PROVE  Owned' /\ RowsMove
  <1>1. t \in Workers /\ StoreTypeOK /\ UNCHANGED tick /\ worker[t] = Idle /\ k \in Body[n]
    BY DEF Workers, Shape, TypeOK, HandleIssueEvent
  <1>2. CASE ClaimNew(k, n) /\ CreateSession(t, k, n)
    <2> DEFINE row == Attempt(n, 1)
    <2>1. row \in Row /\ update(k, row) /\ ~Claimed(k)
      BY <1>2, AttemptIsRow DEF ClaimNew
    <2>2. /\ row.issue = n /\ row.devin_id = None /\ row.pr_url = None /\ ~Settled(row)
          /\ row.created_at = 1
      BY AttemptIsFresh
    <2> HIDE DEF row
    <2> QED
      BY <1>1, <1>2, <2>1, <2>2, ClaimOwned DEF Free, RowsMove, Moves, Opens
  <1>3. CASE ClaimReclaimed(k, n) /\ CreateSession(t, k, n)
    <2> DEFINE row == Attempt(n, issues[k].created_at + 1)
    <2>1. /\ Claimed(k) /\ Settled(issues[k]) /\ update(k, row)
          /\ OnlyThePollerPolls
      BY <1>1, <1>3, SameFiler
         DEF ClaimReclaimed, Settled, TERMINAL_OUTCOMES, RECLAIMABLE_OUTCOMES
    <2>2. row \in Row
      <3>1. issues[k].created_at + 1 \in Nat \ {0}
        BY <1>1, <2>1, ClaimedRow DEF Row
      <3> QED
        BY <3>1, AttemptIsRow
    <2>3. /\ row.issue = n /\ row.devin_id = None /\ row.pr_url = None /\ ~Settled(row)
          /\ row.created_at = issues[k].created_at + 1
      BY AttemptIsFresh
    <2> HIDE DEF row
    <2> QED
      BY <1>1, <1>3, <2>1, <2>2, <2>3, ClaimOwned DEF Free, RowsMove, Moves, Reopens
  <1>4. CASE Resume(t, n, k)
    <2> DEFINE row == [issues[k] EXCEPT !.outcome = "in_progress"]
    <2>1. /\ Claimed(k) /\ issues[k].issue = n /\ Abandoned(k) /\ update(k, row)
          /\ CreateSession(t, k, n)
      BY <1>4 DEF Resume, ClaimResumed
    <2>2. issues[k] \in Row
      BY <1>1, <2>1, ClaimedRow
    <2>3. row \in Row
      BY <2>2, RowWithOutcome DEF Outcomes
    <2>4. /\ row.issue = n /\ row.devin_id = None /\ row.pr_url = issues[k].pr_url
          /\ ~Settled(row) /\ row.created_at = issues[k].created_at
      BY <2>1, <2>2 DEF Row, Abandoned, Settled, TERMINAL_OUTCOMES
    <2> HIDE DEF row
    <2>5. Owned'
      BY <1>1, <2>1, <2>3, <2>4, ClaimOwned DEF Free
    <2>6. Answers(k, row) \/ Reopens(k, row)
      BY <2>1, <2>4 DEF Answers, Reopens, Abandoned
    <2> QED
      BY <2>1, <2>3, <2>5, <2>6 DEF RowsMove, Moves
  <1>5. CASE IgnoreRedelivery(n, k) \/ SkipLive(n, k)
    <2>1. UNCHANGED <<issues, worker, stale>>
      BY <1>5 DEF IgnoreRedelivery, SkipLive, ClaimRedelivery, ClaimDuplicate
    <2> QED
      BY <1>1, <2>1, OwnedUntouched DEF RowsMove
  <1>6. CASE Question(t, n, k)
    <2> DEFINE work == [Idle EXCEPT !.pc = FirstQuestion(issues[k]), !.key = k,
                                    !.issue = n, !.copy = issues[k]]
    <2>1. UNCHANGED <<issues, stale>> /\ Continue(t, work)
      BY <1>6 DEF Question, ClaimDuplicate
    <2>2. work.pc \in Asking
      BY DEF Idle, FirstQuestion, Asking
    <2> HIDE DEF work
    <2>3. worker'[t] = work /\ \A v \in Workers \ {t} : worker'[v] = worker[v]
      BY <1>1, <2>1, WorkerChanged
    <2>4. OnlyThePollerPolls
      BY <1>1, <1>6, SameFiler DEF Question, ClaimDuplicate
    <2> QED
      BY <1>1, <2>1, <2>2, <2>3, <2>4, OwnedUntouched DEF RowsMove
  <1> QED
    BY <1>2, <1>3, <1>4, <1>5, <1>6 DEF HandleIssueEvent, Acquire

\* reclaim_finding trusts a row read before two questions to GitHub; a copy that
\* is still current is one of a settled row (CopiesCurrent).
LEMMA OwnedAnswered ==
    ASSUME Shape, Owned, CopiesCurrent, NEW t \in Tasks,
           PullRequestAnswered(t) \/ IssueAnswered(t)
    PROVE  Owned' /\ RowsMove
  <1>1. /\ t \in Workers /\ StoreTypeOK /\ UNCHANGED tick
        /\ worker[t] \in Work /\ worker[t].pc \in Asking
    BY DEF Workers, Shape, TypeOK, RuntimeTypeOK, PullRequestAnswered, IssueAnswered, Asking
  <1>2. PICK k \in Keys, n \in Issues : k = worker[t].key /\ n = worker[t].issue
    BY <1>1 DEF Shape, WorkersOnClaims, OnClaim, Asking
  <1> OnlyThePollerPolls
    BY <1>1 DEF Owned, WhoPolls, NobodyAsks
  <1>3. CASE UNCHANGED <<issues, stale>> /\ Return(t)
    <2>1. worker'[t] = Idle /\ \A v \in Workers \ {t} : worker'[v] = worker[v]
      BY <1>1, <1>3, WorkerChanged DEF Return
    <2> QED
      BY <1>1, <1>3, <2>1, OwnedUntouched DEF RowsMove, Idle
  <1>4. CASE ReclaimWon(t, k, n) /\ CreateSession(t, k, n)
    <2> DEFINE row == Attempt(n, issues[k].created_at + 1)
    <2>1. t \in copies[k] /\ update(k, row)
      BY <1>4 DEF ReclaimWon, Unchanged
    <2>2. Claimed(k) /\ Settled(issues[k])
      BY <2>1 DEF CopiesCurrent, CopyIsCurrent, Claimed
    <2>3. row \in Row
      <3>1. issues[k].created_at + 1 \in Nat \ {0}
        BY <1>1, <2>2, ClaimedRow DEF Row
      <3> QED
        BY <3>1, AttemptIsRow
    <2>4. /\ row.issue = n /\ row.devin_id = None /\ row.pr_url = None /\ ~Settled(row)
          /\ row.created_at = issues[k].created_at + 1
      BY AttemptIsFresh
    <2> HIDE DEF row
    <2> QED
      BY <1>1, <1>4, <2>1, <2>2, <2>3, <2>4, ClaimOwned DEF Free, RowsMove, Moves, Reopens
  <1>5. CASE Continue(t, [worker[t] EXCEPT !.pc = "ask_issue"]) /\ UNCHANGED <<issues, stale>>
    <2>1. /\ worker'[t] = [worker[t] EXCEPT !.pc = "ask_issue"]
          /\ \A v \in Workers \ {t} : worker'[v] = worker[v]
      BY <1>1, <1>5, WorkerChanged
    <2>2. worker'[t].pc \in Asking
      BY <1>1, <2>1 DEF Work, Asking
    <2> QED
      BY <1>1, <1>5, <2>1, <2>2, OwnedUntouched DEF RowsMove
  <1> QED
    BY <1>2, <1>3, <1>4, <1>5
       DEF PullRequestAnswered, IssueAnswered, Skip, Reclaim, ReclaimLost, storeVars

-----------------------------------------------------------------------------
(***************************************************************************)
(* Creates and polls.                                                      *)
(***************************************************************************)
\* The only creator of a row writes it and is done.
LEMMA CreatorWrites ==
    ASSUME Shape, Owned, NEW t \in Tasks, worker[t].pc \in Creating,
           NEW k \in Keys, k = worker[t].key,
           NEW row \in Row, update(k, row), Return(t), UNCHANGED tick
    PROVE  Owned'
  <1>1. t \in Workers /\ issues[k].devin_id = None
        /\ \A u \in Tasks \ {t} : worker[u].pc \in Creating => worker[u].key # k
    BY DEF Workers, Owned, TasksOwn, CreatorHolds
  <1>2. Untied(k, t)
    BY <1>1 DEF Untied, Owned, TickOwns, PollsOwn, PollTied, Tied
  <1> QED
    BY <1>1, <1>2, OwnedWritten, IdleIsWork DEF Return

LEMMA OwnedCreated ==
    ASSUME Shape, Owned, NEW t \in Tasks,
           SessionCreated(t) \/ CreateFailed(t) \/ CreateUndecodable(t)
    PROVE  Owned' /\ RowsAnswered
  <1>1. t \in Workers /\ StoreTypeOK /\ UNCHANGED tick /\ Return(t)
        /\ worker[t] \in Work /\ worker[t].pc \in Creating
    BY DEF Workers, Shape, TypeOK, RuntimeTypeOK, SessionCreated, CreateFailed, CreateUndecodable
  <1>2. PICK k \in Keys, n \in Issues : k = worker[t].key /\ n = worker[t].issue
    BY <1>1 DEF Shape, WorkersOnClaims, OnClaim, Creating
  <1>3. /\ Claimed(k) /\ issues[k].issue = n /\ issues[k].devin_id = None /\ ~Settled(issues[k])
    BY <1>1, <1>2 DEF Owned, TasksOwn, CreatorHolds, Claimed
  <1>4. issues[k] \in Row
    BY <1>1, <1>3, ClaimedRow
  <1>5. CASE UNCHANGED <<issues, stale>>
    <2>1. worker'[t] = Idle /\ \A v \in Workers \ {t} : worker'[v] = worker[v]
      BY <1>1, WorkerChanged DEF Return
    <2> QED
      BY <1>1, <1>5, <2>1, OwnedUntouched DEF RowsAnswered, Idle
  <1>6. CASE CreateFailed(t)
    <2> DEFINE row == [issues[k] EXCEPT !.outcome = "errored"]
    <2>1. row \in Row
      BY <1>4, RowWithOutcome DEF Outcomes, TERMINAL_OUTCOMES
    <2>2. update(k, row)
      BY <1>2, <1>6 DEF CreateFailed
    <2>3. /\ row.issue = n /\ row.devin_id = None /\ row.pr_url = issues[k].pr_url
          /\ row.created_at = issues[k].created_at
      BY <1>3, <1>4 DEF Row
    <2> HIDE DEF row
    <2> QED
      BY <1>1, <1>2, <1>3, <2>1, <2>2, <2>3, CreatorWrites DEF RowsAnswered, Answers
  <1>7. ASSUME SessionCreated(t), ~HeldElsewhere(k, n)
        PROVE  Owned' /\ RowsAnswered
    <2> DEFINE row == [issues[k] EXCEPT !.devin_id = n,
                                        !.acus_consumed = worker[t].reply.acus,
                                        !.outcome = "in_progress"]
    <2>1. worker[t].reply.acus \in Nat
      BY <1>1, <1>7 DEF SessionCreated, Work, Payload
    <2>2. row \in Row
      BY <1>2, <1>4, <2>1 DEF Row, Outcomes
    <2>3. update(k, row)
      BY <1>2, <1>7 DEF SessionCreated
    <2>4. /\ row.issue = n /\ row.devin_id = n /\ row.pr_url = issues[k].pr_url
          /\ row.created_at = issues[k].created_at
      BY <1>3, <1>4 DEF Row
    <2> HIDE DEF row
    <2> QED
      BY <1>1, <1>2, <1>3, <2>2, <2>3, <2>4, CreatorWrites DEF RowsAnswered, Answers
  <1> QED
    BY <1>2, <1>5, <1>6, <1>7 DEF SessionCreated, CreateUndecodable, storeVars

\* A poll of w is tied to the row it writes; where the poller is alone, nobody
\* else is about to poll it.
LEMMA PollIsTied ==
    ASSUME Shape, Owned, NEW w \in Workers, worker[w].pc = "get",
           NEW k \in Keys, k = worker[w].key
    PROVE  /\ Claimed(k) /\ issues[k] \in Row
           /\ worker[w].issue = issues[k].devin_id
           /\ Tied(issues[k], worker[w].copy)
           /\ OnlyThePollerPolls => w = Poller /\ Untied(k, w)
           /\ \A t \in Tasks : worker[t].pc \in Creating => worker[t].key # k
  <1>1. worker[w].issue = worker[w].copy.devin_id /\ Tied(issues[k], worker[w].copy)
    BY DEF Owned, PollsOwn, PollTied
  <1>2. Claimed(k) /\ issues[k] \in Row
    BY <1>1, ClaimedRow DEF Tied, Claimed, Shape, TypeOK
  <1>3. ASSUME OnlyThePollerPolls
        PROVE  w = Poller /\ Untied(k, w)
    BY <1>3 DEF Owned, WhoPolls, PollerAlone, Untied, Workers
  <1>4. \A t \in Tasks : worker[t].pc \in Creating => worker[t].key # k
    BY <1>1 DEF Tied, Owned, TasksOwn, CreatorHolds
  <1> QED
    BY <1>1, <1>2, <1>3, <1>4 DEF Tied

LEMMA OwnedPoll ==
    ASSUME Shape, Owned, NEW w \in Workers, Poll(w)
    PROVE  Owned' /\ RowsAnswered
  <1>1. /\ worker[w].pc = "get" /\ Return(w) /\ worker[w] \in Work /\ StoreTypeOK
    BY DEF Poll, PollAnswered, PollUnreachable, PollRefused, PollUndecodable,
           Shape, TypeOK, RuntimeTypeOK
  <1>2. PICK k \in Keys : k = worker[w].key
    BY <1>1 DEF Shape, WorkersOnClaims, OnClaim
  <1> DEFINE copy == worker[w].copy
  <1>3. /\ Claimed(k) /\ issues[k] \in Row /\ Tied(issues[k], copy)
        /\ OnlyThePollerPolls => w = Poller /\ Untied(k, w)
        /\ \A t \in Tasks : worker[t].pc \in Creating => worker[t].key # k
    BY <1>1, <1>2, PollIsTied
  <1>4. issues[k].devin_id # None /\ (OnlyThePollerPolls => ~Settled(issues[k]))
        /\ copy.devin_id = issues[k].devin_id /\ copy.pr_url \in {None, issues[k].devin_id}
    BY <1>3 DEF Tied
  <1>5. worker'[w] = Idle /\ \A v \in Workers \ {w} : worker'[v] = worker[v]
    BY <1>1, WorkerChanged DEF Return
  <1> HIDE DEF copy
  <1>6. CASE UNCHANGED <<issues, stale, tick>>
    BY <1>5, <1>6, OwnedUntouched DEF RowsAnswered, Idle
  <1>7. CASE PollUndecodable(w)
    <2>1. UNCHANGED <<issues, stale>> /\ (tick' = NoTick \/ UNCHANGED tick)
      BY <1>7 DEF PollUndecodable, storeVars
    <2>2. CASE UNCHANGED tick
      BY <1>6, <2>1, <2>2
    <2>3. CASE tick' = NoTick
      <3>1. \A j \in Keys : tick'[j] = None
        BY <2>3 DEF NoTick
      <3>2. TickOwns'
        BY <3>1 DEF TickOwns
      <3>3. TasksOwn'
        BY <1>5, <2>1, IdleOwns DEF Owned, TasksOwn, CreatorHolds, Workers
      <3>4. PollsOwn'
        BY <1>5, <2>1, IdleOwns DEF Owned, PollsOwn, PollTied
      <3>5. \A v \in Workers : worker'[v].pc = "get" => worker[v].pc = "get" /\ worker'[v] = worker[v]
        BY <1>5, IdleOwns
      <3>6. PollerAlone => PollerAlone'
        BY <3>1, <3>5, Parts DEF PollerAlone, Shape, WorkersOnClaims, OnClaim
      <3>7. NobodyAsks => NobodyAsks'
        BY <1>5, Parts, IdleOwns DEF NobodyAsks
      <3>8. worker'[Poller].pc \in {"idle", "get"}
        BY <1>5, Parts, IdleOwns DEF Owned, WhoPolls
      <3> QED
        BY <2>1, <3>2, <3>3, <3>4, <3>6, <3>7, <3>8 DEF Owned, WhoPolls, RowsAnswered
    <2> QED
      BY <2>1, <2>2, <2>3
  <1>8. ASSUME NEW row \in Row, update(k, row), Records(k, row), UNCHANGED tick
        PROVE  Owned' /\ RowsAnswered
    <2>1. ~OnlyThePollerPolls => GoesOn(k, row)
      BY <1>8 DEF Records, GoesOn
    <2>2. Owned'
      BY <1>1, <1>3, <1>8, <2>1, OwnedWritten, IdleIsWork DEF Return
    <2> QED
      BY <1>8, <2>2 DEF RowsAnswered
  <1>9. ASSUME NEW row \in Row, NEW outcome \in Outcomes,
               Records(k, row), row.outcome = issues[k].outcome, UNCHANGED tick,
               update(k, row) \/ Finalize(k, row, outcome)
        PROVE  Owned' /\ RowsAnswered
    <2> DEFINE settled == [row EXCEPT !.outcome = outcome]
    <2>1. settled \in Row
      BY RowWithOutcome
    <2>2. Settled(row) <=> Settled(issues[k])
      BY <1>9 DEF Settled
    <2>3. ~Settled(row) => Records(k, settled)
      BY <1>9, <2>2 DEF Row, Records
    <2>4. update(k, row) \/ (~Settled(row) /\ update(k, settled))
      BY <1>9 DEF Finalize
    <2> HIDE DEF settled
    <2> QED
      BY <1>8, <1>9, <2>1, <2>3, <2>4
  <1>10. "timed_out" \in Outcomes /\ "errored" \in Outcomes
    BY DEF Outcomes, TERMINAL_OUTCOMES
  <1>11. CASE PollAnswered(w)
    <2> DEFINE p == worker[w].reply
               row == Polled(k, copy, p)
    <2>1. p \in Payload /\ UNCHANGED tick
      BY <1>1, <1>11 DEF PollAnswered, Work, RuntimeAssumption
    <2>2. copy \in Row
      BY <1>1 DEF Shape, WorkersOnClaims, OnClaim, copy
    <2>3. row \in Row
      BY <1>3, <2>1, <2>2, PolledRow DEF Polled
    <2>4. Records(k, row) /\ row.outcome = issues[k].outcome
      BY <1>3, <1>4 DEF Polled, Row, Records
    <2>5. \/ update(k, row)
          \/ Finalize(k, row, "timed_out")
          \/ classify(p) \in Outcomes /\ Finalize(k, row, classify(p))
      BY <1>2, <1>11, ClassifyOutcome DEF PollAnswered, CheckTimeout, Outcomes, copy
    <2> HIDE DEF row, p
    <2> QED
      BY <1>9, <1>10, <2>1, <2>3, <2>4, <2>5
  <1>12. CASE PollUnreachable(w) \/ PollRefused(w)
    <2>1. \/ UNCHANGED <<issues, stale, tick>>
          \/ update(k, issues[k])
          \/ Finalize(k, issues[k], "timed_out")
          \/ Finalize(k, issues[k], "errored")
      BY <1>2, <1>12 DEF PollUnreachable, PollRefused, CheckTimeout
    <2>2. UNCHANGED tick
      BY <1>12 DEF PollUnreachable, PollRefused
    <2>3. Records(k, issues[k])
      BY <1>3, <1>4 DEF Records
    <2> QED
      BY <1>3, <1>6, <1>9, <1>10, <2>1, <2>2, <2>3
  <1> QED
    BY <1>7, <1>11, <1>12 DEF Poll

\* A worker that begins to poll a record as it is, or as the tick read it.
LEMMA PollBegins ==
    ASSUME Shape, Owned, UNCHANGED <<issues, stale>>, NEW w \in Workers, NEW k \in Keys,
           NEW copy, Tied(issues[k], copy),
           Continue(w, [Idle EXCEPT !.pc = "get", !.key = k,
                                    !.issue = copy.devin_id, !.copy = copy]),
           \A j \in Keys : tick'[j] \in {None, tick[j]},
           IF w = Poller THEN tick'[k] = None ELSE ~OnlyThePollerPolls
    PROVE  Owned'
  <1> DEFINE work == [Idle EXCEPT !.pc = "get", !.key = k,
                                  !.issue = copy.devin_id, !.copy = copy]
  <1>1. work.pc = "get" /\ work.key = k /\ work.copy = copy /\ work.issue = copy.devin_id
    BY DEF Idle
  <1>2. worker'[w] = work /\ \A v \in Workers \ {w} : worker'[v] = worker[v]
    BY WorkerChanged
  <1> HIDE DEF work
  <1>3. TasksOwn'
    <2>1. \A t \in Tasks : worker'[t].pc \in Creating => worker'[t] = worker[t]
      BY <1>1, <1>2 DEF Workers, Creating
    <2> QED
      BY <2>1 DEF Owned, TasksOwn, CreatorHolds
  <1>4. TickOwns'
    BY DEF Owned, TickOwns
  <1>5. PollsOwn'
    BY <1>1, <1>2 DEF Owned, PollsOwn, PollTied
  <1>6. worker'[Poller].pc \in {"idle", "get"}
    BY <1>1, <1>2, Parts DEF Owned, WhoPolls
  <1>7. OnlyThePollerPolls => PollerAlone'
    BY <1>1, <1>2, Parts DEF Owned, WhoPolls, PollerAlone
  <1>8. ~OnlyThePollerPolls => NobodyAsks'
    BY <1>1, <1>2, Parts DEF Owned, WhoPolls, NobodyAsks, Asking
  <1> QED
    BY <1>3, <1>4, <1>5, <1>6, <1>7, <1>8 DEF Owned, WhoPolls

LEMMA TrackedIsTied ==
    ASSUME Shape, ResultsAreOwn, NEW k \in NonTerminal
    PROVE  Tied(issues[k], issues[k])
  BY DEF NonTerminal, ResultsAreOwn, Tied, Claimed

LEMMA OwnedPollerLoop ==
    ASSUME Shape, Owned, ResultsAreOwn, PollerLoop
    PROVE  Owned' /\ UNCHANGED issues
  <1>1. UNCHANGED <<issues, stale>>
    BY DEF PollerLoop, Tick, PollNext, storeVars
  <1>2. ASSUME NEW due \in SUBSET Keys, Tick(due)
        PROVE  Owned'
    <2>1. worker' = worker /\ worker[Poller] = Idle
      BY <1>2 DEF Tick
    <2>2. TickOwns'
      BY <1>1, <1>2, TrackedIsTied DEF Tick, TickOwns
    <2>3. WhoPolls'
      BY <2>1, IdleOwns DEF Owned, WhoPolls, PollerAlone, NobodyAsks
    <2> QED
      BY <1>1, <2>1, <2>2, <2>3 DEF Owned, TasksOwn, CreatorHolds, PollsOwn, PollTied
  <1>3. ASSUME NEW k \in Keys, PollNext(k)
        PROVE  Owned'
    <2>1. tick'[k] = None /\ \A j \in Keys \ {k} : tick'[j] = tick[j]
      BY <1>3 DEF PollNext, Shape, TypeOK, RuntimeTypeOK
    <2>2. Tied(issues[k], tick[k])
      BY <1>3 DEF PollNext, Owned, TickOwns
    <2>3. Continue(Poller, [Idle EXCEPT !.pc = "get", !.key = k,
                                        !.issue = tick[k].devin_id, !.copy = tick[k]])
      BY <1>3 DEF PollNext
    <2> QED
      BY <1>1, <2>1, <2>2, <2>3, Parts, PollBegins
  <1> QED
    BY <1>1, <1>2, <1>3 DEF PollerLoop

\* The record of a pull request's issue is polled at once.
LEMMA OwnedPullRequestEvent ==
    ASSUME Shape, Owned, ResultsAreOwn, NEW t \in Tasks, NEW k \in Keys, PullRequestEvent(t, k)
    PROVE  Owned' /\ UNCHANGED issues
  <1>1. /\ UNCHANGED <<issues, stale, tick>> /\ k \in NonTerminal
        /\ t \in Workers /\ t # Poller
    BY Parts DEF PullRequestEvent, HandlePullRequestEvent, StartPoll, storeVars
  <1>2. ~OnlyThePollerPolls
    BY DEF PullRequestEvent, OnlyThePollerPolls, Shape, TypeOK
  <1>3. Continue(t, [Idle EXCEPT !.pc = "get", !.key = k,
                                 !.issue = issues[k].devin_id, !.copy = issues[k]])
    BY DEF PullRequestEvent, HandlePullRequestEvent, StartPoll
  <1> QED
    BY <1>1, <1>2, <1>3, TrackedIsTied, PollBegins

LEMMA OwnedServe ==
    ASSUME Shape, Owned, NEW w \in Workers, ServeGet(w) \/ (w \in Tasks /\ ServePost(w))
    PROVE  Owned' /\ UNCHANGED issues
  <1>1. UNCHANGED <<issues, stale, tick>>
    BY DEF ServeGet, ServePost, storeVars
  <1>2. worker[w] \in Work /\ worker \in [Workers -> Work]
    BY DEF Shape, TypeOK, RuntimeTypeOK
  <1>3. CASE \E p : worker' = [worker EXCEPT ![w].reply = p]
    <2>1. /\ worker'[w].pc = worker[w].pc /\ worker'[w].key = worker[w].key
          /\ worker'[w].issue = worker[w].issue /\ worker'[w].copy = worker[w].copy
          /\ \A v \in Workers \ {w} : worker'[v] = worker[v]
      BY <1>2, <1>3 DEF Work
    <2> QED
      BY <1>1, <2>1, OwnedUntouched
  <1>4. CASE worker' = worker
    BY <1>1, <1>4, OwnedUntouched
  <1>5. CASE worker[w].pc = "post" /\ worker' = [worker EXCEPT ![w].pc = "adopt"]
    <2>1. /\ worker'[w].pc = "adopt" /\ worker'[w].key = worker[w].key
          /\ worker'[w].issue = worker[w].issue /\ worker'[w].copy = worker[w].copy
          /\ \A v \in Workers \ {w} : worker'[v] = worker[v]
      BY <1>2, <1>5 DEF Work
    <2> QED
      BY <1>1, <1>5, <2>1, OwnedUntouched DEF Creating, Asking
  <1> QED
    BY <1>1, <1>3, <1>4, <1>5 DEF ServeGet, ServePost

\* A claim ages while nobody creates a session for it.
LEMMA OwnedOthers ==
    ASSUME Shape, Owned, Orderly,
           \/ \E n \in Issues : SessionMoves(n) \/ Merge(n)
           \/ \E k \in Keys : ClaimAges(k) \/ AttemptOverdue(k)
           \/ Restart
           \/ UNCHANGED vars
    PROVE  Owned' /\ UNCHANGED issues
  <1>1. CASE UNCHANGED <<issues, stale, worker, tick>>
    BY <1>1 DEF Owned, TasksOwn, CreatorHolds, TickOwns, PollsOwn, PollTied, WhoPolls, PollerAlone,
                NobodyAsks
  <1>2. ASSUME NEW k \in Keys, ClaimAges(k)
        PROVE  Owned' /\ UNCHANGED issues
    <2>1. /\ UNCHANGED <<issues, worker, tick>> /\ stale' = stale \cup {k} /\ Creators(k) = {}
      BY <1>2 DEF ClaimAges, runtimeVars, Orderly
    <2>2. \A t \in Tasks : worker[t].pc \in Creating => worker[t].key # k
      BY <2>1 DEF Creators
    <2>3. TasksOwn'
      BY <2>1, <2>2 DEF Owned, TasksOwn, CreatorHolds
    <2> QED
      BY <2>1, <2>3 DEF Owned, TickOwns, PollsOwn, PollTied, WhoPolls, PollerAlone, NobodyAsks
  <1>3. CASE Restart
    <2>1. UNCHANGED <<issues, stale>> /\ tick' = NoTick /\ \A w \in Workers : worker'[w] = Idle
      BY <1>3 DEF Restart
    <2>2. TasksOwn' /\ PollsOwn' /\ WhoPolls'
      BY <2>1, IdleOwns DEF TasksOwn, PollsOwn, WhoPolls, PollerAlone, NobodyAsks, Workers
    <2> QED
      BY <2>1, <2>2 DEF Owned, TickOwns, NoTick
  <1> QED
    BY <1>1, <1>2, <1>3 DEF SessionMoves, Merge, AttemptOverdue, vars, storeVars, runtimeVars

LEMMA OwnedStep ==
    ASSUME Orderly, Shape, Owned, Parsed, ResultsAreOwn, CopiesCurrent, [Next]_vars
    PROVE  Owned' /\ RowsMove
  <1>1. CASE \E t \in Tasks, n \in Issues, k \in Keys : IssueEvent(t, n, k)
    BY <1>1, OwnedIssueEvent DEF IssueEvent
  <1>2. CASE \E t \in Tasks : Handler(t)
    BY <1>2, OwnedAnswered, OwnedCreated DEF Handler, RowsAnswered, RowsMove, Moves
  <1>3. CASE \E w \in Workers : Poll(w)
    BY <1>3, OwnedPoll DEF RowsAnswered, RowsMove, Moves
  <1>4. CASE \/ \E t \in Tasks : ServePost(t)
             \/ \E w \in Workers : ServeGet(w)
    BY <1>4, OwnedServe DEF RowsMove, Workers
  <1>5. CASE \/ \E t \in Tasks, k \in Keys : PullRequestEvent(t, k)
             \/ PollerLoop
    BY <1>5, OwnedPullRequestEvent, OwnedPollerLoop DEF RowsMove
  <1>6. CASE \/ \E n \in Issues : SessionMoves(n) \/ Merge(n)
             \/ \E k \in Keys : ClaimAges(k) \/ AttemptOverdue(k)
             \/ Restart
             \/ UNCHANGED vars
    BY <1>6, OwnedOthers DEF RowsMove
  <1> QED
    BY <1>1, <1>2, <1>3, <1>4, <1>5, <1>6 DEF Next, Underway

\* A step that writes a row leaves the others as they are.
LEMMA OneRowMoves ==
    ASSUME Shape, RowsMove, NEW k \in Keys
    PROVE  \/ issues'[k] = issues[k]
           \/ issues'[k] \in Row /\ Moves(k, issues'[k])
  <1>1. ASSUME NEW j \in Keys, NEW row \in Row, update(j, row), Moves(j, row)
        PROVE  issues'[k] = issues[k] \/ (issues'[k] \in Row /\ Moves(k, issues'[k]))
    BY <1>1, UpdateRow DEF Shape, TypeOK
  <1> QED
    BY <1>1 DEF RowsMove

LEMMA ResultsOfMoves ==
    ASSUME Shape, ResultsAreOwn, RowsMove
    PROVE  ResultsAreOwn'
  <1> SUFFICES ASSUME NEW k \in Keys, Claimed(k)'
               PROVE  /\ issues'[k].devin_id \in {None, issues'[k].issue}
                      /\ issues'[k].pr_url \in {None, issues'[k].devin_id}
    BY DEF ResultsAreOwn
  <1>1. CASE issues'[k] = issues[k]
    BY <1>1 DEF ResultsAreOwn, Claimed
  <1>2. CASE Moves(k, issues'[k])
    BY <1>2 DEF ResultsAreOwn, Moves, Opens, Reopens, Answers, Records
  <1> QED
    BY <1>1, <1>2, OneRowMoves

LEMMA OwnedInvariant == ASSUME Orderly PROVE Spec => [](Owned /\ ResultsAreOwn)
  <1>1. Init => Owned /\ ResultsAreOwn
    BY IdleOwns DEF Init, StoreInit, RuntimeInit, Owned, TasksOwn, TickOwns, PollsOwn, WhoPolls,
                    PollerAlone, NobodyAsks, ResultsAreOwn, Claimed, Workers
  <1>2. Shape /\ Parsed /\ CopiesCurrent /\ (Owned /\ ResultsAreOwn) /\ [Next]_vars
            => (Owned /\ ResultsAreOwn)'
    BY OwnedStep, ResultsOfMoves
  <1> QED
    BY <1>1, <1>2, ShapeInvariant, ParsedInvariant, CopiesInvariant, PTL DEF Spec

\* A task that creates a session is the only one to do so for its claim, and the
\* claim is still the one it made when _create_session writes the record without
\* looking at it again: no webhook takes a claim over that has a creator.
THEOREM CreatesHoldTheirClaims == ASSUME Orderly PROVE Spec => []CreatorOwnsClaim
  <1>1. Owned => CreatorOwnsClaim
    <2> SUFFICES ASSUME Owned, NEW t \in Tasks, worker[t].pc \in Creating
                 PROVE  LET k == worker[t].key
                        IN  /\ Creators(k) = {t}
                            /\ issues[k].issue = worker[t].issue
                            /\ issues[k].devin_id = None
                            /\ ~Settled(issues[k])
      BY DEF CreatorOwnsClaim
    <2>1. CreatorHolds(worker[t], issues, stale)
      BY DEF Owned, TasksOwn
    <2>2. Creators(worker[t].key) = {t}
      BY DEF Owned, TasksOwn, Creators
    <2> QED
      BY <2>1, <2>2 DEF CreatorHolds
  <1> QED
    BY <1>1, OwnedInvariant, PTL

-----------------------------------------------------------------------------
(***************************************************************************)
(* What follows from the moves.                                            *)
(***************************************************************************)
LEMMA MovesInvariant ==
    ASSUME Orderly
    PROVE  Spec => [][RowsMove]_vars
  <1>1. Shape /\ Parsed /\ CopiesCurrent /\ (Owned /\ ResultsAreOwn) /\ [Next]_vars
            => [RowsMove]_vars
    BY OwnedStep
  <1> QED
    BY <1>1, ShapeInvariant, ParsedInvariant, CopiesInvariant, OwnedInvariant, PTL DEF Spec

\* The session and the pull request on a record are those of its own attempt:
\* "the abandoned attempt's results must not leak into the new one"
\* (claim_finding, reclaim_finding, and the polls that write them).
THEOREM ResultsStayOwn == ASSUME Orderly PROVE Spec => []ResultsAreOwn
  BY OwnedInvariant, PTL

\* A settled record keeps its outcome, its pull request and its ACUs until the
\* finding is claimed again: no poll comes after the one that settled it.
THEOREM SettledStays == ASSUME Orderly, OnlyThePollerPolls PROVE Spec => SettledIsFinal
  <1>1. ASSUME Shape, RowsMove, NEW k \in Keys,
               Claimed(k), Settled(issues[k]), issues'[k] # issues[k]
        PROVE  issues'[k].outcome = "in_progress" /\ issues'[k].devin_id = None
    <2>1. issues'[k] \in Row /\ Reopens(k, issues'[k])
      BY <1>1, OneRowMoves DEF Moves, Opens, Answers, Records
    <2> QED
      BY <2>1 DEF Reopens, Row, Outcomes, Settled
  <1>2. Shape /\ [RowsMove]_vars =>
            [\A k \in Keys : Claimed(k) /\ Settled(issues[k]) /\ issues'[k] # issues[k]
                => issues'[k].outcome = "in_progress" /\ issues'[k].devin_id = None]_vars
    BY <1>1
  <1> QED
    BY <1>2, ShapeInvariant, MovesInvariant, PTL DEF SettledIsFinal

\* The outcome of an attempt is final wherever else polls may come from: one that
\* comes late finds the record settled when it reads it again (_finalize), and may
\* write the ACUs and the pull request, but not how the attempt ended.
THEOREM OutcomeStays == ASSUME Orderly PROVE Spec => OutcomeIsFinal
  <1>1. ASSUME Shape, RowsMove, NEW k \in Keys, Claimed(k), Settled(issues[k])
        PROVE  /\ issues'[k].outcome \in {issues[k].outcome, "in_progress"}
               /\ issues'[k].outcome = "in_progress" => issues'[k].devin_id = None
    <2>1. CASE issues'[k] = issues[k]
      BY <1>1, <2>1 DEF Settled, TERMINAL_OUTCOMES
    <2>2. CASE issues'[k] \in Row /\ Reopens(k, issues'[k])
      BY <2>2 DEF Reopens, Row, Outcomes, Settled
    <2>3. CASE Records(k, issues'[k])
      BY <1>1, <2>3 DEF Records, Settled, TERMINAL_OUTCOMES
    <2> QED
      BY <1>1, <2>1, <2>2, <2>3, OneRowMoves DEF Moves, Opens, Answers
  <1>2. Shape /\ [RowsMove]_vars =>
            [\A k \in Keys : Claimed(k) /\ Settled(issues[k])
                => issues'[k].outcome \in {issues[k].outcome, "in_progress"}
                   /\ (issues'[k].outcome = "in_progress" => issues'[k].devin_id = None)]_vars
    BY <1>1
  <1> QED
    BY <1>2, ShapeInvariant, MovesInvariant, PTL DEF OutcomeIsFinal

\* The detailed service implements the life of a finding: claimed, worked on,
\* settled, and only then tried again; for every interleaving of the webhooks,
\* the polls, the clock and restarts.
THEOREM ServiceFollowsLifecycle == ASSUME Orderly PROVE Spec => FollowsLifecycle
  <1>1. Init => Lifecycle!Init
    BY DEF Init, StoreInit, Lifecycle!Init, Owner, Stage, Claimed
  <1>2. ASSUME Shape, RowsMove
        PROVE  [Lifecycle!Next]_<<Owner, Stage>>
    <2>1. CASE UNCHANGED issues
      BY <2>1 DEF Owner, Stage, Claimed
    <2>2. ASSUME NEW k \in Keys, NEW row \in Row, update(k, row), Moves(k, row)
          PROVE  [Lifecycle!Next]_<<Owner, Stage>>
      <3>1. /\ issues'[k] = row /\ row # None /\ row.issue \in Issues
            /\ \A j \in Keys \ {k} : issues'[j] = issues[j]
        BY <1>2, <2>2, UpdateRow, Parts DEF Shape, TypeOK, Row
      <3>2. /\ Owner' = [Owner EXCEPT ![k] = row.issue]
            /\ Stage' = [Stage EXCEPT ![k] = StageOf(row)]
        BY <3>1 DEF Owner, Stage, Claimed
      <3>3. Owner[k] = (IF Claimed(k) THEN issues[k].issue ELSE None)
            /\ Stage[k] = (IF Claimed(k) THEN StageOf(issues[k]) ELSE "free")
        BY DEF Owner, Stage
      <3>4. /\ Owner = [Owner EXCEPT ![k] = Owner[k]]
            /\ Stage = [Stage EXCEPT ![k] = Stage[k]]
        BY DEF Owner, Stage
      <3>5. CASE Opens(k, row)
        <4>1. Lifecycle!Claim(k, row.issue)
          BY <3>2, <3>3, <3>5 DEF Lifecycle!Claim, Opens, StageOf
        <4> QED
          BY <3>1, <4>1 DEF Lifecycle!Next
      <3>6. CASE Reopens(k, row)
        <4>1. Lifecycle!TryAgain(k, row.issue)
          BY <3>2, <3>3, <3>6 DEF Lifecycle!TryAgain, Reopens, StageOf
        <4> QED
          BY <3>1, <4>1 DEF Lifecycle!Next
      <3>7. CASE Records(k, row) /\ Settled(issues[k])
        <4>1. UNCHANGED <<Owner, Stage>>
          BY <3>2, <3>3, <3>4, <3>7 DEF Records, StageOf, Settled
        <4> QED
          BY <4>1
      <3>8. CASE Answers(k, row) \/ (Records(k, row) /\ ~Settled(issues[k]))
        <4>1. UNCHANGED Owner
          BY <3>2, <3>3, <3>4, <3>8 DEF Answers, Records
        <4>2. CASE Settled(row)
          <5>1. Lifecycle!Settle(k)
            BY <3>2, <3>3, <3>8, <4>1, <4>2 DEF Lifecycle!Settle, Answers, Records, StageOf
          <5> QED
            BY <5>1 DEF Lifecycle!Next
        <4>3. CASE ~Settled(row) /\ row.devin_id = issues[k].devin_id
          BY <3>2, <3>3, <3>4, <3>8, <4>1, <4>3 DEF Answers, Records, StageOf
        <4>4. CASE ~Settled(row) /\ row.devin_id # issues[k].devin_id
          <5>1. Lifecycle!StartWork(k)
            BY <3>2, <3>3, <3>8, <4>1, <4>4 DEF Lifecycle!StartWork, Answers, Records, StageOf
          <5> QED
            BY <5>1 DEF Lifecycle!Next
        <4> QED
          BY <4>2, <4>3, <4>4
      <3> QED
        BY <2>2, <3>5, <3>6, <3>7, <3>8 DEF Moves
    <2> QED
      BY <1>2, <2>1, <2>2 DEF RowsMove
  <1>3. UNCHANGED vars => UNCHANGED <<Owner, Stage>>
    BY DEF vars, storeVars, Owner, Stage, Claimed
  <1>4. Shape /\ [RowsMove]_vars => [Lifecycle!Next]_<<Owner, Stage>>
    BY <1>2, <1>3
  <1> QED
    BY <1>1, <1>4, ShapeInvariant, MovesInvariant, PTL
       DEF Spec, FollowsLifecycle, Lifecycle!Spec, Lifecycle!vars

-----------------------------------------------------------------------------
(***************************************************************************)
(* What an attempt costs.                                                  *)
(***************************************************************************)
Paid(k) == {n \in Issues : Body[n] = {k} /\ Started(n)}

\* The issue of the running attempt counts, whether or not its session is
\* started yet.
AttemptsCover ==
    \A k \in Keys :
        /\ IsFiniteSet(Paid(k))
        /\ ~Claimed(k) => Paid(k) = {}
        /\ Claimed(k) => Cardinality(Paid(k) \cup {issues[k].issue}) <= issues[k].created_at

\* Sessions are started by POSTs only, and those are for the attempt on record.
LEMMA Starting ==
    ASSUME Shape, Owned, Parsed, [Next]_vars
    PROVE  \/ \A n \in Issues : Started(n)' <=> Started(n)
           \/ /\ UNCHANGED issues
              /\ \E k \in Keys :
                    /\ Claimed(k) /\ k \in Body[issues[k].issue]
                    /\ \A n \in Issues : Started(n)' <=> Started(n) \/ n = issues[k].issue
  <1>1. CASE UNCHANGED session
    BY <1>1 DEF Started
  <1>2. ASSUME NEW t \in Tasks, ServePost(t), session' # session
        PROVE  \E k \in Keys :
                  /\ Claimed(k) /\ k \in Body[issues[k].issue]
                  /\ \A n \in Issues : Started(n)' <=> Started(n) \/ n = issues[k].issue
    <2>1. t \in Workers /\ worker[t].pc \in Creating
      BY <1>2 DEF ServePost, Workers, Creating
    <2>2. worker[t].key \in Keys /\ worker[t].issue \in Issues
      BY <2>1 DEF Shape, WorkersOnClaims, OnClaim, Creating
    <2>3. Claimed(worker[t].key) /\ issues[worker[t].key].issue = worker[t].issue
      BY <2>1 DEF Owned, TasksOwn, CreatorHolds, Claimed
    <2>4. worker[t].key \in Body[worker[t].issue]
      BY <2>1 DEF Parsed, ParsedKey
    <2>5. session' = [session EXCEPT ![worker[t].issue] = Fresh] /\ Fresh # None
      BY <1>2 DEF ServePost
    <2>6. \A n \in Issues : Started(n)' <=> Started(n) \/ n = worker[t].issue
      BY <2>2, <2>5 DEF Started, Shape, TypeOK, RuntimeTypeOK
    <2> QED
      BY <2>2, <2>3, <2>4, <2>6
  <1>3. ASSUME NEW t \in Tasks, ServePost(t)
        PROVE  UNCHANGED issues
    BY <1>3 DEF ServePost, storeVars
  <1>4. ASSUME NEW n \in Issues, SessionMoves(n)
        PROVE  \A m \in Issues : Started(m)' <=> Started(m)
    BY <1>4 DEF SessionMoves, Started, Shape, TypeOK, RuntimeTypeOK
  <1>5. CASE \/ \E t \in Tasks, n \in Issues, k \in Keys : IssueEvent(t, n, k)
             \/ \E t \in Tasks, k \in Keys : PullRequestEvent(t, k)
             \/ \E t \in Tasks : Handler(t)
             \/ \E w \in Workers : Poll(w)
    BY <1>1, <1>5
       DEF IssueEvent, HandleIssueEvent, PullRequestEvent, HandlePullRequestEvent, StartPoll, Handler,
           PullRequestAnswered, IssueAnswered, SessionCreated, CreateFailed, CreateUndecodable,
           Poll, PollAnswered, PollUnreachable, PollRefused, PollUndecodable
  <1>6. CASE \/ \E w \in Workers : ServeGet(w)
             \/ PollerLoop
             \/ \E n \in Issues : Merge(n)
             \/ \E k \in Keys : ClaimAges(k) \/ AttemptOverdue(k)
             \/ Restart
             \/ UNCHANGED vars
    BY <1>1, <1>6
       DEF ServeGet, PollerLoop, Tick, PollNext, Merge, ClaimAges, AttemptOverdue, Restart, vars,
           runtimeVars
  <1> QED
    BY <1>1, <1>2, <1>3, <1>4, <1>5, <1>6 DEF Next, Underway

LEMMA CoverOne ==
    ASSUME NEW S, IsFiniteSet(S), NEW x
    PROVE  /\ IsFiniteSet(S \cup {x})
           /\ Cardinality(S \cup {x}) \in Nat
           /\ Cardinality(S) \in Nat /\ Cardinality(S) <= Cardinality(S \cup {x})
           /\ Cardinality(S \cup {x}) <= Cardinality(S) + 1
  <1>1. /\ IsFiniteSet(S \cup {x})
        /\ Cardinality(S \cup {x}) = IF x \in S THEN Cardinality(S) ELSE Cardinality(S) + 1
    BY FS_AddElement
  <1>2. Cardinality(S) \in Nat
    BY FS_CardinalityType
  <1> QED
    BY <1>1, <1>2

\* A new attempt may add one session to those its finding has cost.
LEMMA CoverMoves ==
    ASSUME Shape, AttemptsCover, RowsMove, \A n \in Issues : Started(n)' <=> Started(n)
    PROVE  AttemptsCover'
  <1> SUFFICES ASSUME NEW k \in Keys
               PROVE  /\ IsFiniteSet(Paid(k))'
                      /\ ~Claimed(k)' => Paid(k)' = {}
                      /\ Claimed(k)' =>
                            Cardinality(Paid(k)' \cup {issues'[k].issue}) <= issues'[k].created_at
    BY DEF AttemptsCover
  <1>1. Paid(k)' = Paid(k) /\ IsFiniteSet(Paid(k))
    BY DEF Paid, AttemptsCover
  <1>2. CASE issues'[k] = issues[k]
    BY <1>1, <1>2 DEF AttemptsCover, Claimed
  <1>3. ASSUME issues'[k] \in Row, Moves(k, issues'[k])
        PROVE  /\ Claimed(k)'
               /\ Cardinality(Paid(k) \cup {issues'[k].issue}) <= issues'[k].created_at
    <2>1. Claimed(k)'
      BY <1>3, Parts DEF Claimed
    <2>2. CASE Opens(k, issues'[k])
      <3>1. Paid(k) = {} /\ issues'[k].created_at = 1
        BY <2>2 DEF Opens, AttemptsCover
      <3>2. Cardinality(Paid(k) \cup {issues'[k].issue}) <= 0 + 1
        BY <3>1, CoverOne, FS_EmptySet
      <3> QED
        BY <2>1, <3>1, <3>2
    <2>3. CASE Claimed(k) /\ issues'[k].created_at = issues[k].created_at + 1
      <3>1. issues[k].created_at \in Nat
        BY <2>3, ClaimedRow DEF Row, Shape, TypeOK
      <3>2. Cardinality(Paid(k) \cup {issues[k].issue}) <= issues[k].created_at
        BY <2>3 DEF AttemptsCover
      <3>3. /\ Cardinality(Paid(k)) \in Nat
            /\ Cardinality(Paid(k) \cup {issues[k].issue}) \in Nat
            /\ Cardinality(Paid(k)) <= Cardinality(Paid(k) \cup {issues[k].issue})
        BY <1>1, CoverOne
      <3>4. /\ Cardinality(Paid(k) \cup {issues'[k].issue}) \in Nat
            /\ Cardinality(Paid(k) \cup {issues'[k].issue}) <= Cardinality(Paid(k)) + 1
        BY <1>1, CoverOne
      <3> QED
        BY <2>1, <2>3, <3>1, <3>2, <3>3, <3>4
    <2>4. CASE /\ Claimed(k) /\ issues'[k].issue = issues[k].issue
               /\ issues'[k].created_at = issues[k].created_at
      BY <2>1, <2>4 DEF AttemptsCover
    <2> QED
      BY <1>3, <2>2, <2>3, <2>4 DEF Moves, Reopens, Answers, Records
  <1> QED
    BY <1>1, <1>2, <1>3, OneRowMoves

\* A session that starts is that of the running attempt, which counts already.
LEMMA CoverStarts ==
    ASSUME AttemptsCover, UNCHANGED issues, NEW j \in Keys,
           Claimed(j), j \in Body[issues[j].issue],
           \A n \in Issues : Started(n)' <=> Started(n) \/ n = issues[j].issue
    PROVE  AttemptsCover'
  <1> SUFFICES ASSUME NEW k \in Keys
               PROVE  /\ IsFiniteSet(Paid(k))'
                      /\ ~Claimed(k)' => Paid(k)' = {}
                      /\ Claimed(k)' =>
                            Cardinality(Paid(k)' \cup {issues'[k].issue}) <= issues'[k].created_at
    BY DEF AttemptsCover
  <1>1. CASE Paid(k)' = Paid(k)
    BY <1>1 DEF AttemptsCover, Claimed
  <1>2. CASE Paid(k)' # Paid(k)
    <2>1. PICK n \in Issues : Body[n] = {k} /\ ~Started(n) /\ Started(n)'
      BY <1>2 DEF Paid
    <2>2. n = issues[j].issue /\ j = k
      BY <2>1
    <2>3. Paid(k)' = Paid(k) \cup {issues[k].issue}
      BY <2>1, <2>2 DEF Paid
    <2>4. Paid(k)' \cup {issues'[k].issue} = Paid(k) \cup {issues[k].issue}
      BY <2>3
    <2>5. IsFiniteSet(Paid(k)')
      <3>1. IsFiniteSet(Paid(k))
        BY DEF AttemptsCover
      <3>2. IsFiniteSet(Paid(k) \cup {issues[k].issue})
        BY <3>1, CoverOne
      <3> QED
        BY <2>3, <3>2
    <2> QED
      BY <2>2, <2>4, <2>5 DEF AttemptsCover, Claimed
  <1> QED
    BY <1>1, <1>2

LEMMA CoverInvariant == ASSUME Orderly PROVE Spec => []AttemptsCover
  <1>1. Init => AttemptsCover
    <2> SUFFICES ASSUME Init, NEW k \in Keys
                 PROVE  ~Claimed(k) /\ Paid(k) = {} /\ IsFiniteSet(Paid(k))
      BY DEF AttemptsCover
    <2>1. ~Claimed(k) /\ Paid(k) = {}
      BY DEF Init, StoreInit, RuntimeInit, Claimed, Paid, Started
    <2> QED
      BY <2>1, FS_EmptySet
  <1>2. ASSUME Shape, Parsed, CopiesCurrent, Owned, ResultsAreOwn, AttemptsCover, [Next]_vars
        PROVE  AttemptsCover'
    BY <1>2, OwnedStep, Starting, CoverMoves, CoverStarts
  <1> QED
    BY <1>1, <1>2, ShapeInvariant, CopiesInvariant, OwnedInvariant, ParsedInvariant, PTL DEF Spec

\* However many webhooks raced for a finding, every attempt at it costs at most
\* one session (the deterministic devin_id, and claims that have one creator).
THEOREM AttemptsCostOne == ASSUME Orderly PROVE Spec => []OneSessionPerAttempt
  <1>1. Shape /\ AttemptsCover => OneSessionPerAttempt
    <2> SUFFICES ASSUME Shape, AttemptsCover, NEW k \in Keys, Paid(k) # {}
                 PROVE  Claimed(k) /\ Cardinality(Paid(k)) <= issues[k].created_at
      BY DEF OneSessionPerAttempt, Paid
    <2>1. Claimed(k) /\ IsFiniteSet(Paid(k))
          /\ Cardinality(Paid(k) \cup {issues[k].issue}) <= issues[k].created_at
      BY DEF AttemptsCover
    <2>2. issues[k].created_at \in Nat
      BY <2>1, ClaimedRow DEF Shape, TypeOK, Row
    <2>3. /\ Cardinality(Paid(k)) \in Nat
          /\ Cardinality(Paid(k) \cup {issues[k].issue}) \in Nat
          /\ Cardinality(Paid(k)) <= Cardinality(Paid(k) \cup {issues[k].issue})
      BY <2>1, CoverOne
    <2> QED
      BY <2>1, <2>2, <2>3
  <1> QED
    BY <1>1, ShapeInvariant, CoverInvariant, PTL
=============================================================================
