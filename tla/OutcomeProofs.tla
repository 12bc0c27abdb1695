---------------------------- MODULE OutcomeProofs ----------------------------
(***************************************************************************)
(* What the records say of the sessions, and how often an end is reported, *)
(* where polls are orderly (OwnershipProofs): an attempt is reported once, *)
(* nothing recorded is ahead of the Devin API, an outcome is one the       *)
(* session gave reason for, and the totals of the report only grow.        *)
(*                                                                         *)
(* Fates says what one step makes of the rows and the reports.  A reply is *)
(* older than the session by the time it is handled: Since relates the     *)
(* payloads, and what lasts in a session's payloads passes from the reply  *)
(* to the session.                                                         *)
(***************************************************************************)
EXTENDS OwnershipProofs, Metrics, SumProofs

USE DevinAssumption, StoreAssumption, RuntimeAssumption, OrchestratorAssumption,
    ServiceAssumption

-----------------------------------------------------------------------------
(***************************************************************************)
(* Replies are what the session once showed.                               *)
(***************************************************************************)
Lasting(S) == \A p \in S : \A q \in Payloads : MayBecome(p, q) => q \in S

\* q is p, or what a session that showed p may have become: the reflexive and
\* transitive closure of MayBecome.
Since(p, q) == \A S \in SUBSET Payloads : p \in S /\ Lasting(S) => q \in S

LEMMA SinceNow == ASSUME NEW p PROVE Since(p, p)
  BY DEF Since

LEMMA SinceMoves ==
    ASSUME NEW p, NEW q, Since(p, q), NEW r \in Payloads, MayBecome(q, r)
    PROVE  Since(p, r)
  BY DEF Since, Lasting

\* ACUs only accumulate.
LEMMA SinceAcus ==
    ASSUME NEW p \in Payloads, NEW q, Since(p, q)
    PROVE  q \in Payloads /\ p.acus <= q.acus
  <1> DEFINE S == {r \in Payloads : p.acus <= r.acus}
  <1>1. \A r \in Payloads : r.acus \in Nat
    BY DEF Payload
  <1>2. Lasting(S) /\ p \in S
    BY <1>1 DEF Lasting, MayBecome
  <1> QED
    BY <1>2 DEF Since

Genuine(work, sessions) ==
    work.reply # None =>
        /\ work.pc \in Creating \cup {"get"}
        /\ sessions[work.issue] # None
        /\ Since(work.reply, sessions[work.issue])

RepliesGenuine == \A w \in Workers : Genuine(worker[w], session)

\* A recorded session exists: its POST was answered, or the id was taken.
RowsStarted ==
    \A k \in Keys : Claimed(k) /\ issues[k].devin_id # None => Started(issues[k].devin_id)

\* A session never comes to show what it may not become.
LEMMA SessionsGrow ==
    ASSUME Shape, [Next]_vars, NEW n \in Issues, Started(n)
    PROVE  Started(n)' /\ \A p : Since(p, session[n]) => Since(p, session'[n])
  <1>1. CASE session'[n] = session[n]
    BY <1>1 DEF Started
  <1>2. ASSUME NEW m \in Issues, SessionMoves(m)
        PROVE  Started(n)' /\ \A p : Since(p, session[n]) => Since(p, session'[n])
    <2>1. PICK p \in Payloads : MayBecome(session[m], p) /\ session' = [session EXCEPT ![m] = p]
      BY <1>2 DEF SessionMoves
    <2>2. /\ session'[m] = p /\ p # None
          /\ \A j \in Issues \ {m} : session'[j] = session[j]
      BY <2>1 DEF Shape, TypeOK, RuntimeTypeOK, RuntimeAssumption
    <2> QED
      BY <1>1, <2>1, <2>2, SinceMoves DEF Started
  <1>3. ASSUME NEW t \in Tasks, ServePost(t)
        PROVE  session'[n] = session[n]
    BY <1>3 DEF ServePost, Started, Shape, TypeOK, RuntimeTypeOK
  <1>4. CASE \/ \E t \in Tasks, m \in Issues, k \in Keys : IssueEvent(t, m, k)
             \/ \E t \in Tasks, k \in Keys : PullRequestEvent(t, k)
             \/ \E t \in Tasks : Handler(t)
             \/ \E w \in Workers : Poll(w)
    <2>1. UNCHANGED session
      BY <1>4
         DEF IssueEvent, HandleIssueEvent, PullRequestEvent, HandlePullRequestEvent, StartPoll,
             Handler, PullRequestAnswered, IssueAnswered, SessionCreated, CreateFailed,
             CreateUndecodable, Poll, PollAnswered, PollUnreachable, PollRefused, PollUndecodable
    <2> QED
      BY <1>1, <2>1
  <1>5. CASE \/ \E w \in Workers : ServeGet(w)
             \/ PollerLoop
             \/ \E m \in Issues : Merge(m)
             \/ \E k \in Keys : ClaimAges(k) \/ AttemptOverdue(k)
             \/ Restart
             \/ UNCHANGED vars
    <2>1. UNCHANGED session
      BY <1>5
         DEF ServeGet, PollerLoop, Tick, PollNext, Merge, ClaimAges, AttemptOverdue, Restart, vars,
             runtimeVars
    <2> QED
      BY <1>1, <2>1
  <1> QED
    BY <1>1, <1>2, <1>3, <1>4, <1>5 DEF Next, Underway

\* What w's step leaves it with is genuine if it has no reply, or the one it had.
LEMMA GenuineKept ==
    ASSUME Shape, [Next]_vars, RepliesGenuine,
           \A v \in Workers : \/ worker'[v].reply = None
                              \/ /\ worker'[v].reply = worker[v].reply
                                 /\ worker'[v].issue = worker[v].issue
                                 /\ worker'[v].pc = worker[v].pc
    PROVE  RepliesGenuine'
  <1> SUFFICES ASSUME NEW v \in Workers, worker'[v].reply # None
               PROVE  /\ worker'[v].pc \in Creating \cup {"get"}
                      /\ session'[worker'[v].issue] # None
                      /\ Since(worker'[v].reply, session'[worker'[v].issue])
    BY DEF RepliesGenuine, Genuine
  <1>1. /\ worker'[v].reply = worker[v].reply /\ worker'[v].issue = worker[v].issue
        /\ worker'[v].pc = worker[v].pc
    OBVIOUS
  <1>2. Genuine(worker[v], session) /\ worker[v].reply # None
    BY <1>1 DEF RepliesGenuine
  <1>3. worker[v].issue \in Issues
    BY <1>2 DEF Genuine, Creating, Shape, WorkersOnClaims, OnClaim
  <1> QED
    BY <1>1, <1>2, <1>3, SessionsGrow DEF Genuine, Started

\* Whoever waits for something else than a session has no reply of one.
LEMMA HasNoReply ==
    ASSUME RepliesGenuine, NEW w \in Workers, worker[w].pc \notin Creating, worker[w].pc # "get"
    PROVE  worker[w].reply = None
  BY DEF RepliesGenuine, Genuine

LEMMA IdleHasNoReply == Idle.reply = None
  BY DEF Idle

LEMMA ContinuesWithout ==
    ASSUME Shape, [Next]_vars, RepliesGenuine, NEW w \in Workers, NEW work, Continue(w, work),
           work.reply = None
    PROVE  RepliesGenuine'
  BY WorkerChanged, GenuineKept

\* Work that begins has no reply yet.
LEMMA GenuineBegins ==
    ASSUME Shape, [Next]_vars, RepliesGenuine, NEW w \in Workers, NEW pc, NEW k, NEW n,
           \/ Continue(w, [Idle EXCEPT !.pc = pc, !.key = k, !.issue = n])
           \/ \E copy : Continue(w, [Idle EXCEPT !.pc = pc, !.key = k, !.issue = n, !.copy = copy])
    PROVE  RepliesGenuine'
  <1>1. [Idle EXCEPT !.pc = pc, !.key = k, !.issue = n].reply = None
    BY DEF Idle
  <1>2. \A copy : [Idle EXCEPT !.pc = pc, !.key = k, !.issue = n, !.copy = copy].reply = None
    BY DEF Idle
  <1> QED
    BY <1>1, <1>2, ContinuesWithout

LEMMA GenuineHandled ==
    ASSUME Shape, [Next]_vars, RepliesGenuine, NEW t \in Tasks,
           \/ Handler(t)
           \/ \E n \in Issues, k \in Keys : HandleIssueEvent(t, n, k)
           \/ \E k \in Keys : HandlePullRequestEvent(t, k)
    PROVE  RepliesGenuine'
  <1>1. t \in Workers /\ worker[t] \in Work
    BY DEF Workers, Shape, TypeOK, RuntimeTypeOK
  <1>2. CASE \E work : Continue(t, work) /\ work.reply = None
    BY <1>1, <1>2, ContinuesWithout
  <1>3. CASE \E k, n : CreateSession(t, k, n)
    BY <1>1, <1>2, <1>3, IdleHasNoReply, GenuineBegins DEF CreateSession, Return
  <1>4. CASE Return(t)
    BY <1>2, <1>4, IdleHasNoReply DEF Return
  <1>5. ASSUME worker[t].pc \in Asking, Continue(t, [worker[t] EXCEPT !.pc = "ask_issue"])
        PROVE  RepliesGenuine'
    <2>1. worker[t].reply = None
      BY <1>1, <1>5, HasNoReply DEF Asking, Creating
    <2>2. [worker[t] EXCEPT !.pc = "ask_issue"].reply = None
      BY <1>1, <2>1 DEF Work
    <2> QED
      BY <1>2, <1>5, <2>2
  <1>6. CASE PullRequestAnswered(t) \/ IssueAnswered(t)
    BY <1>3, <1>4, <1>5, <1>6 DEF PullRequestAnswered, IssueAnswered, Skip, Reclaim, Asking
  <1>7. ASSUME NEW n \in Issues, NEW k \in Keys, HandleIssueEvent(t, n, k)
        PROVE  RepliesGenuine'
    <2>1. CASE UNCHANGED worker
      BY <2>1, GenuineKept
    <2>2. CASE Question(t, n, k)
      BY <1>1, <2>2, GenuineBegins DEF Question
    <2> QED
      BY <1>3, <1>7, <2>1, <2>2 DEF HandleIssueEvent, Acquire, Resume, IgnoreRedelivery, SkipLive
  <1>8. CASE \E k \in Keys : HandlePullRequestEvent(t, k)
    BY <1>1, <1>8, GenuineBegins DEF HandlePullRequestEvent, StartPoll
  <1> QED
    BY <1>4, <1>6, <1>7, <1>8 DEF Handler, SessionCreated, CreateFailed, CreateUndecodable

LEMMA GenuineServed ==
    ASSUME Shape, [Next]_vars, RepliesGenuine, NEW w \in Workers,
           ServeGet(w) \/ (w \in Tasks /\ ServePost(w))
    PROVE  RepliesGenuine'
  <1>1. worker[w] \in Work /\ worker \in [Workers -> Work]
    BY DEF Shape, TypeOK, RuntimeTypeOK
  <1>2. worker[w].issue \in Issues /\ worker[w].pc \in Creating \cup {"get"} /\ worker[w].reply = None
    BY DEF ServeGet, ServePost, Creating, Shape, WorkersOnClaims, OnClaim
  <1>3. CASE worker' = worker
    BY <1>3, GenuineKept
  <1>4. CASE worker' = [worker EXCEPT ![w].pc = "adopt"]
    <2>1. /\ worker'[w].reply = None /\ \A v \in Workers \ {w} : worker'[v] = worker[v]
      BY <1>1, <1>2, <1>4 DEF Work
    <2> QED
      BY <2>1, GenuineKept
  <1>5. ASSUME NEW p, p = session'[worker[w].issue], p # None,
               worker' = [worker EXCEPT ![w].reply = p]
        PROVE  RepliesGenuine'
    <2>1. /\ worker'[w].reply = p /\ worker'[w].pc = worker[w].pc
          /\ worker'[w].issue = worker[w].issue
          /\ \A v \in Workers \ {w} : worker'[v] = worker[v]
      BY <1>1, <1>5 DEF Work
    <2>2. Genuine(worker'[w], session')
      BY <1>2, <1>5, <2>1, SinceNow DEF Genuine, Started
    <2>3. ASSUME NEW v \in Workers \ {w}
          PROVE  Genuine(worker'[v], session')
      <3>1. worker'[v] = worker[v] /\ Genuine(worker[v], session)
        BY <2>1 DEF RepliesGenuine
      <3>2. worker[v].reply # None => worker[v].issue \in Issues
        BY <3>1 DEF Genuine, Creating, Shape, WorkersOnClaims, OnClaim
      <3> QED
        BY <3>1, <3>2, SessionsGrow DEF Genuine, Started
    <2> QED
      BY <2>2, <2>3 DEF RepliesGenuine
  <1>6. CASE ServeGet(w)
    BY <1>2, <1>5, <1>6 DEF ServeGet, Started, runtimeVars
  <1>7. CASE w \in Tasks /\ ServePost(w)
    <2>1. CASE session' = [session EXCEPT ![worker[w].issue] = Fresh]
      <3>1. session'[worker[w].issue] = Fresh /\ Fresh # None
        BY <1>2, <2>1 DEF Shape, TypeOK, RuntimeTypeOK, RuntimeAssumption
      <3> QED
        BY <1>3, <1>4, <1>5, <1>7, <3>1 DEF ServePost, Started
    <2> QED
      BY <1>3, <1>4, <1>7, <2>1 DEF ServePost
  <1> QED
    BY <1>6, <1>7

LEMMA GenuineStep == Shape /\ RepliesGenuine /\ [Next]_vars => RepliesGenuine'
  <1> SUFFICES ASSUME Shape, RepliesGenuine, [Next]_vars PROVE RepliesGenuine'
    OBVIOUS
  <1>1. CASE \/ \E t \in Tasks, n \in Issues, k \in Keys : IssueEvent(t, n, k)
             \/ \E t \in Tasks, k \in Keys : PullRequestEvent(t, k)
             \/ \E t \in Tasks : Handler(t)
    BY <1>1, GenuineHandled DEF IssueEvent, PullRequestEvent
  <1>2. CASE UNCHANGED worker
    BY <1>2, GenuineKept
  <1>3. ASSUME NEW w \in Workers, NEW work, Continue(w, work), work.reply = None
        PROVE  RepliesGenuine'
    BY <1>3, ContinuesWithout
  <1>4. CASE \E w \in Workers : Poll(w)
    BY <1>3, <1>4, IdleHasNoReply
       DEF Poll, PollAnswered, PollUnreachable, PollRefused, PollUndecodable, Return
  <1>5. CASE \E k \in Keys : PollNext(k)
    BY <1>5, GenuineBegins, Parts DEF PollNext
  <1>6. CASE \/ \E t \in Tasks : ServePost(t)
             \/ \E w \in Workers : ServeGet(w)
    BY <1>6, GenuineServed DEF Workers
  <1>7. CASE Restart
    <2>1. \A v \in Workers : worker'[v].reply = None
      BY <1>7, IdleHasNoReply DEF Restart
    <2> QED
      BY <2>1, GenuineKept
  <1> QED
    BY <1>1, <1>2, <1>4, <1>5, <1>6, <1>7
       DEF Next, Underway, PollerLoop, Tick, SessionMoves, Merge, ClaimAges, AttemptOverdue, vars,
           runtimeVars

LEMMA GenuineInvariant == Spec => []RepliesGenuine
  <1>1. Init => RepliesGenuine
    BY IdleHasNoReply DEF Init, RuntimeInit, RepliesGenuine, Genuine
  <1> QED
    BY <1>1, GenuineStep, ShapeInvariant, PTL DEF Spec

-----------------------------------------------------------------------------
(***************************************************************************)
(* What one step makes of the rows and the reports.                        *)
(***************************************************************************)
\* An attempt begins, or begins again after its claim was abandoned.
Begins(k, row) ==
    /\ row.devin_id = None /\ row.outcome = "in_progress"
    /\ \/ row.pr_url = None /\ reports'[k] = 0
       \/ /\ Claimed(k) /\ issues[k].devin_id = None
          /\ row.pr_url = issues[k].pr_url /\ reports'[k] = reports[k]

\* A create ends.
Created(t, k, row) ==
    /\ worker[t].pc \in Creating /\ worker[t].key = k /\ Claimed(k)
    /\ row.pr_url = issues[k].pr_url /\ reports'[k] = reports[k]
    /\ \/ row.devin_id = issues[k].devin_id /\ row.outcome = "errored"
       \/ /\ worker[t].reply # None
          /\ row.devin_id = worker[t].issue /\ row.acus_consumed = worker[t].reply.acus
          /\ row.outcome = "in_progress"

\* What a poll has to say of the end of a session.
Ends(k, work, outcome) ==
    \/ outcome = "timed_out" /\ TimedOut(k, work.copy)
    \/ outcome = "errored"
    \/ work.reply # None /\ outcome # None /\ outcome = classify(work.reply)

PolledBy(work, k, row) ==
    /\ work.pc = "get" /\ work.key = k /\ Claimed(k)
    /\ row.devin_id = issues[k].devin_id /\ row.created_at = issues[k].created_at
    /\ \/ row.acus_consumed = issues[k].acus_consumed /\ row.pr_url = issues[k].pr_url
       \/ /\ work.reply # None /\ row.acus_consumed = work.reply.acus
          /\ row.pr_url = IF HasPullRequest(work.reply) THEN work.copy.devin_id
                          ELSE work.copy.pr_url
    /\ \/ row.outcome = issues[k].outcome /\ reports'[k] = reports[k]
       \/ /\ ~Settled(issues[k]) /\ Ends(k, work, row.outcome)
          /\ reports'[k] = IF reports[k] = 2 THEN 2 ELSE reports[k] + 1

Fate(k, row) ==
    \/ Begins(k, row)
    \/ \E t \in Tasks : Created(t, k, row)
    \/ \E w \in Workers : PolledBy(worker[w], k, row)

Fates ==
    \A k \in Keys :
        \/ issues'[k] = issues[k] /\ reports'[k] = reports[k]
        \/ issues'[k] \in Row /\ Fate(k, issues'[k])

\* A step that writes one row and leaves the reports on the others.
LEMMA OneFate ==
    ASSUME Shape, NEW k \in Keys, NEW row \in Row, update(k, row), Fate(k, row),
           \A j \in Keys \ {k} : reports'[j] = reports[j]
    PROVE  Fates
  BY UpdateRow DEF Fates, Shape, TypeOK

LEMMA NoFate == UNCHANGED <<issues, reports>> => Fates
  BY DEF Fates

LEMMA ReportsOf ==
    ASSUME Shape, NEW k \in Keys
    PROVE  /\ UNCHANGED reports => \A j \in Keys : reports'[j] = reports[j]
           /\ NewAttempt(k) => reports'[k] = 0 /\ \A j \in Keys \ {k} : reports'[j] = reports[j]
           /\ \A r : reports' = [reports EXCEPT ![k] = r] =>
                 reports'[k] = r /\ \A j \in Keys \ {k} : reports'[j] = reports[j]
  BY DEF NewAttempt, Shape, TypeOK, RuntimeTypeOK

\* A new attempt replaces whatever row there was.
LEMMA FateOfAttempt ==
    ASSUME Shape, NEW k \in Keys, NEW n \in Issues, NEW created \in Nat \ {0},
           update(k, Attempt(n, created)), NewAttempt(k)
    PROVE  Fates
  <1> DEFINE row == Attempt(n, created)
  <1>1. row \in Row /\ row.devin_id = None /\ row.pr_url = None /\ row.outcome = "in_progress"
    BY AttemptIsRow DEF Attempt
  <1>2. update(k, row)
    OBVIOUS
  <1> HIDE DEF row
  <1>3. Fate(k, row)
    BY <1>1, ReportsOf DEF Fate, Begins
  <1> QED
    BY <1>1, <1>2, <1>3, ReportsOf, OneFate

LEMMA FatesHandled ==
    ASSUME Shape, CopiesCurrent, NEW t \in Tasks,
           \/ PullRequestAnswered(t) \/ IssueAnswered(t)
           \/ \E n \in Issues, k \in Keys : HandleIssueEvent(t, n, k)
    PROVE  Fates
  <1>1. StoreTypeOK
    BY DEF Shape, TypeOK
  <1>2. ASSUME NEW k \in Keys, Claimed(k)
        PROVE  issues[k] \in Row /\ issues[k].created_at + 1 \in Nat \ {0}
    BY <1>1, <1>2, ClaimedRow DEF Row
  <1>3. CASE PullRequestAnswered(t) \/ IssueAnswered(t)
    <2>1. PICK k \in Keys, n \in Issues : k = worker[t].key /\ n = worker[t].issue
      BY <1>3 DEF PullRequestAnswered, IssueAnswered, Shape, WorkersOnClaims, OnClaim, Asking, Workers
    <2>2. CASE ReclaimWon(t, k, n) /\ NewAttempt(k)
      <3>1. Claimed(k)
        BY <2>2 DEF ReclaimWon, Unchanged, CopiesCurrent, CopyIsCurrent, Claimed
      <3> QED
        BY <1>2, <2>2, <3>1, FateOfAttempt DEF ReclaimWon
    <2> QED
      BY <1>3, <2>1, <2>2, NoFate
         DEF PullRequestAnswered, IssueAnswered, Skip, Reclaim, ReclaimLost, storeVars
  <1>4. ASSUME NEW n \in Issues, NEW k \in Keys, HandleIssueEvent(t, n, k)
        PROVE  Fates
    <2>1. CASE ClaimNew(k, n) /\ NewAttempt(k)
      BY <2>1, FateOfAttempt DEF ClaimNew
    <2>2. CASE ClaimReclaimed(k, n) /\ NewAttempt(k)
      BY <1>2, <2>2, FateOfAttempt DEF ClaimReclaimed
    <2>3. CASE Resume(t, n, k)
      <3> DEFINE row == [issues[k] EXCEPT !.outcome = "in_progress"]
      <3>1. /\ Claimed(k) /\ issues[k].devin_id = None /\ update(k, row) /\ UNCHANGED reports
        BY <2>3 DEF Resume, ClaimResumed, Abandoned
      <3>2. /\ row \in Row /\ row.devin_id = None /\ row.pr_url = issues[k].pr_url
            /\ row.outcome = "in_progress"
        BY <1>2, <3>1 DEF Row, Outcomes
      <3> HIDE DEF row
      <3> QED
        BY <3>1, <3>2, OneFate DEF Fate, Begins
    <2>4. CASE IgnoreRedelivery(n, k) \/ SkipLive(n, k) \/ Question(t, n, k)
      BY <2>4, NoFate DEF IgnoreRedelivery, SkipLive, Question, ClaimRedelivery, ClaimDuplicate
    <2> QED
      BY <1>4, <2>1, <2>2, <2>3, <2>4 DEF HandleIssueEvent, Acquire
  <1> QED
    BY <1>3, <1>4

LEMMA FatesCreated ==
    ASSUME Shape, NEW t \in Tasks,
           SessionCreated(t) \/ CreateFailed(t) \/ CreateUndecodable(t)
    PROVE  Fates
  <1>1. /\ t \in Workers /\ worker[t].pc \in Creating /\ UNCHANGED reports
        /\ worker[t] \in Work
    BY DEF SessionCreated, CreateFailed, CreateUndecodable, Workers, Shape, TypeOK, RuntimeTypeOK
  <1>2. PICK k \in Keys, n \in Issues :
            k = worker[t].key /\ n = worker[t].issue /\ issues[k] \in Row /\ Claimed(k)
    BY <1>1, ClaimedRow DEF Shape, TypeOK, WorkersOnClaims, OnClaim, Creating, Claimed
  <1>3. CASE UNCHANGED issues
    BY <1>1, <1>3, NoFate
  <1>4. CASE CreateFailed(t)
    <2> DEFINE row == [issues[k] EXCEPT !.outcome = "errored"]
    <2>1. /\ row \in Row /\ row.devin_id = issues[k].devin_id /\ row.pr_url = issues[k].pr_url
          /\ row.outcome = "errored"
      BY <1>2 DEF Row, Outcomes, TERMINAL_OUTCOMES
    <2>2. update(k, row)
      BY <1>2, <1>4 DEF CreateFailed
    <2> HIDE DEF row
    <2>3. Created(t, k, row)
      BY <1>1, <1>2, <2>1 DEF Created
    <2> QED
      BY <1>1, <2>1, <2>2, <2>3, OneFate DEF Fate
  <1>5. ASSUME SessionCreated(t), ~HeldElsewhere(k, n)
        PROVE  Fates
    <2> DEFINE row == [issues[k] EXCEPT !.devin_id = n,
                                        !.acus_consumed = worker[t].reply.acus,
                                        !.outcome = "in_progress"]
    <2>1. worker[t].reply.acus \in Nat /\ worker[t].reply # None
      BY <1>1, <1>5 DEF SessionCreated, Work, Payload
    <2>2. /\ row \in Row /\ row.devin_id = n /\ row.acus_consumed = worker[t].reply.acus
          /\ row.pr_url = issues[k].pr_url /\ row.outcome = "in_progress"
      BY <1>2, <2>1 DEF Row, Outcomes
    <2>3. update(k, row)
      BY <1>2, <1>5 DEF SessionCreated
    <2> HIDE DEF row
    <2>4. Created(t, k, row)
      BY <1>1, <1>2, <2>1, <2>2 DEF Created
    <2> QED
      BY <1>1, <2>2, <2>3, <2>4, OneFate DEF Fate
  <1> QED
    BY <1>2, <1>3, <1>4, <1>5 DEF SessionCreated, CreateUndecodable, storeVars

LEMMA FatesPoll ==
    ASSUME Shape, NEW w \in Workers, Poll(w)
    PROVE  Fates
  <1>1. /\ worker[w].pc = "get" /\ worker[w] \in Work
    BY DEF Poll, PollAnswered, PollUnreachable, PollRefused, PollUndecodable,
           Shape, TypeOK, RuntimeTypeOK
  <1>2. PICK k \in Keys : k = worker[w].key
    BY <1>1 DEF Shape, WorkersOnClaims, OnClaim
  <1> DEFINE copy == worker[w].copy
             p == worker[w].reply
  <1>3. Claimed(k) /\ issues[k] \in Row /\ copy \in Row
    BY <1>1, <1>2, ClaimedRow DEF Shape, TypeOK, WorkersOnClaims, OnClaim, Claimed
  <1> HIDE DEF copy, p
  <1>4. ASSUME NEW row \in Row,
               row.devin_id = issues[k].devin_id, row.created_at = issues[k].created_at,
               row.outcome = issues[k].outcome,
               \/ row.acus_consumed = issues[k].acus_consumed /\ row.pr_url = issues[k].pr_url
               \/ /\ p # None /\ row.acus_consumed = p.acus
                  /\ row.pr_url = IF HasPullRequest(p) THEN copy.devin_id ELSE copy.pr_url,
               \/ update(k, row) /\ UNCHANGED reports
               \/ \E outcome \in Outcomes :
                     Ends(k, worker[w], outcome) /\ Finalize(k, row, outcome)
        PROVE  Fates
    <2>1. CASE update(k, row) /\ UNCHANGED reports
      <3>1. PolledBy(worker[w], k, row)
        BY <1>1, <1>2, <1>3, <1>4, <2>1 DEF PolledBy, copy, p
      <3> QED
        BY <1>4, <2>1, <3>1, OneFate DEF Fate
    <2>2. ASSUME NEW outcome \in Outcomes, Ends(k, worker[w], outcome),
                 Finalize(k, row, outcome), ~Settled(row)
          PROVE  Fates
      <3> DEFINE settled == [row EXCEPT !.outcome = outcome]
      <3>1. /\ settled \in Row /\ settled.outcome = outcome
            /\ settled.devin_id = row.devin_id /\ settled.created_at = row.created_at
            /\ settled.acus_consumed = row.acus_consumed /\ settled.pr_url = row.pr_url
        BY DEF Row
      <3>2. update(k, settled)
        BY <2>2 DEF Finalize
      <3> HIDE DEF settled
      <3>3. /\ reports'[k] = IF reports[k] = 2 THEN 2 ELSE reports[k] + 1
            /\ \A j \in Keys \ {k} : reports'[j] = reports[j]
        BY <2>2, ReportsOf DEF Finalize
      <3>4. ~Settled(issues[k])
        BY <1>4, <2>2 DEF Settled
      <3>5. PolledBy(worker[w], k, settled)
        BY <1>1, <1>2, <1>3, <1>4, <2>2, <3>1, <3>3, <3>4 DEF PolledBy, copy, p
      <3> QED
        BY <3>1, <3>2, <3>3, <3>5, OneFate DEF Fate
    <2> QED
      BY <1>4, <2>1, <2>2 DEF Finalize
  <1>5. CASE PollAnswered(w)
    <2> DEFINE row == Polled(k, copy, p)
    <2>1. p \in Payload /\ p # None
      BY <1>1, <1>5 DEF PollAnswered, Work, RuntimeAssumption, p
    <2>2. row \in Row
      BY <1>3, <2>1, PolledRow DEF Polled
    <2>3. /\ row.devin_id = issues[k].devin_id /\ row.created_at = issues[k].created_at
          /\ row.outcome = issues[k].outcome /\ row.acus_consumed = p.acus
          /\ row.pr_url = IF HasPullRequest(p) THEN copy.devin_id ELSE copy.pr_url
      BY <1>3 DEF Polled, Row
    <2>4. \/ update(k, row) /\ UNCHANGED reports
          \/ TimedOut(k, copy) /\ Finalize(k, row, "timed_out")
          \/ classify(p) # None /\ Finalize(k, row, classify(p))
      BY <1>2, <1>5 DEF PollAnswered, CheckTimeout, copy, p
    <2> HIDE DEF row
    <2>5. classify(p) # None => classify(p) \in Outcomes /\ Ends(k, worker[w], classify(p))
      BY <2>1, ClassifyOutcome DEF Outcomes, Ends, p
    <2>6. "timed_out" \in Outcomes /\ (TimedOut(k, copy) => Ends(k, worker[w], "timed_out"))
      BY DEF Outcomes, TERMINAL_OUTCOMES, Ends, copy
    <2> QED
      BY <1>4, <2>1, <2>2, <2>3, <2>4, <2>5, <2>6
  <1>6. CASE PollUnreachable(w) \/ PollRefused(w)
    <2>1. \/ UNCHANGED <<issues, reports>>
          \/ update(k, issues[k]) /\ UNCHANGED reports
          \/ TimedOut(k, copy) /\ Finalize(k, issues[k], "timed_out")
          \/ Finalize(k, issues[k], "errored")
      BY <1>2, <1>6 DEF PollUnreachable, PollRefused, CheckTimeout, copy
    <2>2. /\ "timed_out" \in Outcomes /\ "errored" \in Outcomes
          /\ TimedOut(k, copy) => Ends(k, worker[w], "timed_out")
          /\ Ends(k, worker[w], "errored")
      BY DEF Outcomes, TERMINAL_OUTCOMES, Ends, copy
    <2> QED
      BY <1>3, <1>4, <2>1, <2>2, NoFate
  <1> QED
    BY <1>5, <1>6, NoFate DEF Poll, PollUndecodable, storeVars

LEMMA FatesStep == Shape /\ CopiesCurrent /\ [Next]_vars => Fates
  <1> SUFFICES ASSUME Shape, CopiesCurrent, [Next]_vars PROVE Fates
    OBVIOUS
  <1>1. CASE UNCHANGED <<issues, reports>>
    BY <1>1, NoFate
  <1>2. CASE \E t \in Tasks : Handler(t)
    BY <1>2, FatesHandled, FatesCreated DEF Handler
  <1>3. CASE \E t \in Tasks, n \in Issues, k \in Keys : IssueEvent(t, n, k)
    BY <1>3, FatesHandled DEF IssueEvent
  <1>4. CASE \E w \in Workers : Poll(w)
    BY <1>4, FatesPoll
  <1> QED
    BY <1>1, <1>2, <1>3, <1>4
       DEF Next, Underway, PullRequestEvent, HandlePullRequestEvent, StartPoll, ServePost, ServeGet,
           PollerLoop, Tick, PollNext, SessionMoves, Merge, ClaimAges, AttemptOverdue, Restart, vars,
           storeVars, runtimeVars

-----------------------------------------------------------------------------
(***************************************************************************)
(* A recorded session exists, and an attempt is reported once.             *)
(***************************************************************************)
LEMMA RowsStartedInvariant == Spec => []RowsStarted
  <1>1. Init => RowsStarted
    BY DEF Init, StoreInit, RowsStarted, Claimed
  <1>2. ASSUME Shape, CopiesCurrent, RepliesGenuine, RowsStarted, [Next]_vars
        PROVE  RowsStarted'
    <2> SUFFICES ASSUME NEW k \in Keys, Claimed(k)', issues'[k].devin_id # None
                 PROVE  session'[issues'[k].devin_id] # None
      BY DEF RowsStarted, Started
    <2>1. CASE Claimed(k) /\ issues'[k].devin_id = issues[k].devin_id
      <3>1. issues[k].devin_id \in Issues /\ Started(issues[k].devin_id)
        BY <1>2, <2>1, ClaimedRow DEF RowsStarted, Shape, TypeOK, Row
      <3> QED
        BY <1>2, <2>1, <3>1, SessionsGrow DEF Started
    <2>2. ASSUME NEW t \in Tasks, Created(t, k, issues'[k]), worker[t].reply # None,
                 issues'[k].devin_id = worker[t].issue
          PROVE  session'[issues'[k].devin_id] # None
      <3>1. t \in Workers /\ worker[t].issue \in Issues
        BY <1>2, <2>2 DEF Created, Creating, Shape, WorkersOnClaims, OnClaim, Workers
      <3>2. Started(worker[t].issue)
        BY <1>2, <2>2, <3>1 DEF RepliesGenuine, Genuine, Started
      <3> QED
        BY <1>2, <2>2, <3>1, <3>2, SessionsGrow DEF Started
    <2>3. issues'[k] = issues[k] \/ Fate(k, issues'[k])
      BY <1>2, FatesStep DEF Fates
    <2>4. issues'[k] = issues[k] => Claimed(k)
      BY DEF Claimed
    <2> QED
      BY <2>1, <2>2, <2>3, <2>4 DEF Fate, Begins, Created, PolledBy
  <1> QED
    BY <1>1, <1>2, ShapeInvariant, CopiesInvariant, GenuineInvariant, PTL DEF Spec

\* A report is made when a record with a session is settled, and only then.
EndsReported ==
    \A k \in Keys :
        /\ reports[k] <= 1
        /\ reports[k] # 0 => Claimed(k) /\ Settled(issues[k]) /\ issues[k].devin_id # None

LEMMA EndsSettled ==
    ASSUME NEW k, NEW work, NEW outcome, Ends(k, work, outcome)
    PROVE  outcome \in TERMINAL_OUTCOMES
  BY ClassifyOutcome DEF Ends, TERMINAL_OUTCOMES

\* Polled rows have a session, and created ones had none.
LEMMA WorkIsOwned ==
    ASSUME Shape, Owned, NEW k \in Keys
    PROVE  /\ \A t \in Tasks : worker[t].pc \in Creating /\ worker[t].key = k =>
                 ~Settled(issues[k]) /\ issues[k].devin_id = None
           /\ \A w \in Workers : worker[w].pc = "get" /\ worker[w].key = k =>
                 /\ issues[k].devin_id # None /\ worker[w].issue = issues[k].devin_id
                 /\ Tied(issues[k], worker[w].copy)
  BY DEF Owned, TasksOwn, CreatorHolds, PollsOwn, PollTied, Tied

\* The end of an attempt is reported at most once, whoever polls it and however
\* late: only the poll that finds the record unsettled when it reads it again
\* settles it and runs the callback (_finalize, on_terminal).
THEOREM AttemptsReportedOnce == ASSUME Orderly PROVE Spec => []ReportedOnce
  <1>1. Init => EndsReported
    BY DEF Init, RuntimeInit, EndsReported
  <1>2. ASSUME Shape, CopiesCurrent, Owned, EndsReported, [Next]_vars
        PROVE  EndsReported'
    <2> SUFFICES ASSUME NEW k \in Keys
                 PROVE  /\ reports'[k] <= 1
                        /\ reports'[k] # 0 =>
                              Claimed(k)' /\ Settled(issues'[k]) /\ issues'[k].devin_id # None
      BY DEF EndsReported, Settled
    <2>1. /\ reports[k] \in 0..2 /\ reports[k] <= 1
          /\ reports[k] # 0 => Claimed(k) /\ Settled(issues[k]) /\ issues[k].devin_id # None
      BY <1>2 DEF EndsReported, Shape, TypeOK, RuntimeTypeOK
    <2>2. CASE issues'[k] = issues[k] /\ reports'[k] = reports[k]
      BY <2>1, <2>2 DEF Claimed
    <2>3. ASSUME issues'[k] \in Row, Fate(k, issues'[k])
          PROVE  /\ reports'[k] <= 1
                 /\ reports'[k] # 0 => Settled(issues'[k]) /\ issues'[k].devin_id # None
      <3>1. CASE Begins(k, issues'[k])
        BY <2>1, <3>1 DEF Begins
      <3>2. ASSUME NEW t \in Tasks, Created(t, k, issues'[k])
            PROVE  reports'[k] = 0
        BY <1>2, <2>1, <3>2, WorkIsOwned DEF Created
      <3>3. ASSUME NEW w \in Workers, PolledBy(worker[w], k, issues'[k])
            PROVE  /\ reports'[k] <= 1
                   /\ reports'[k] # 0 => Settled(issues'[k]) /\ issues'[k].devin_id # None
        <4>1. issues'[k].devin_id # None
          BY <1>2, <3>3, WorkIsOwned DEF PolledBy
        <4>2. \/ issues'[k].outcome = issues[k].outcome /\ reports'[k] = reports[k]
              \/ reports[k] = 0 /\ reports'[k] = 1 /\ issues'[k].outcome \in TERMINAL_OUTCOMES
          BY <2>1, <3>3, EndsSettled DEF PolledBy
        <4> QED
          BY <2>1, <4>1, <4>2 DEF Settled
      <3> QED
        BY <2>3, <3>1, <3>2, <3>3 DEF Fate
    <2>4. issues'[k] \in Row => Claimed(k)'
      BY StoreAssumption DEF Claimed
    <2> QED
      BY <1>2, <2>2, <2>3, <2>4, FatesStep DEF Fates
  <1>3. Shape /\ CopiesCurrent /\ (Owned /\ ResultsAreOwn) /\ EndsReported /\ [Next]_vars => EndsReported'
    BY <1>2
  <1>4. EndsReported => ReportedOnce
    BY DEF EndsReported, ReportedOnce
  <1> QED
    BY <1>1, <1>3, <1>4, ShapeInvariant, CopiesInvariant, OwnedInvariant, PTL DEF Spec

-----------------------------------------------------------------------------
(***************************************************************************)
(* Nothing recorded is ahead of the Devin API.                             *)
(***************************************************************************)
\* The Devin API keeps a pull request in the payload once it names one.
PullRequestsStay ==
    \A p, q \in Payloads : MayBecome(p, q) /\ HasPullRequest(p) => HasPullRequest(q)

LEMMA SincePullRequest ==
    ASSUME PullRequestsStay, NEW p \in Payloads, NEW q, Since(p, q), HasPullRequest(p)
    PROVE  HasPullRequest(q)
  <1> DEFINE S == {r \in Payloads : HasPullRequest(r)}
  <1>1. Lasting(S) /\ p \in S
    BY DEF Lasting, PullRequestsStay
  <1> QED
    BY <1>1 DEF Since

Opened(row, sessions) ==
    row.pr_url # None => /\ sessions[row.pr_url] # None
                         /\ HasPullRequest(sessions[row.pr_url])

Consumed(row, sessions) ==
    row.devin_id # None => row.acus_consumed <= sessions[row.devin_id].acus

AcusHappened == \A k \in Keys : Claimed(k) => Consumed(issues[k], session)

\* The same of the copies that polls write the pull request from.
RecordsHappened ==
    /\ \A k \in Keys : Claimed(k) => Opened(issues[k], session)
    /\ \A k \in Keys : tick[k] # None => Opened(tick[k], session)
    /\ \A w \in Workers : worker[w].pc = "get" => Opened(worker[w].copy, session)

LEMMA OpenedLasts ==
    ASSUME PullRequestsStay, Shape, [Next]_vars,
           NEW old, old.pr_url \in Issues \cup {None}, Opened(old, session),
           NEW row, row.pr_url = old.pr_url
    PROVE  Opened(row, session')
  <1> SUFFICES ASSUME NEW n \in Issues, n = row.pr_url, n # None
               PROVE  session'[n] # None /\ HasPullRequest(session'[n])
    BY DEF Opened
  <1>1. Started(n) /\ HasPullRequest(session[n]) /\ session[n] \in Payloads
    BY DEF Opened, Started, Shape, TypeOK, RuntimeTypeOK
  <1>2. session'[n] # None /\ Since(session[n], session'[n])
    BY <1>1, SessionsGrow, SinceNow DEF Started
  <1> QED
    BY <1>1, <1>2, SincePullRequest

LEMMA ConsumedLasts ==
    ASSUME Shape, RowsStarted, [Next]_vars, NEW k \in Keys, Claimed(k),
           Consumed(issues[k], session),
           NEW row, row.devin_id = issues[k].devin_id, row.acus_consumed = issues[k].acus_consumed
    PROVE  Consumed(row, session')
  <1> SUFFICES ASSUME row.devin_id # None
               PROVE  row.acus_consumed <= session'[row.devin_id].acus
    BY DEF Consumed
  <1>1. PICK n \in Issues : n = row.devin_id /\ Started(n) /\ issues[k].acus_consumed \in Nat
    BY ClaimedRow DEF RowsStarted, Shape, TypeOK, Row
  <1>2. session[n] \in Payloads /\ session[n].acus \in Nat
    BY <1>1 DEF Started, Shape, TypeOK, RuntimeTypeOK, Payload
  <1>3. Since(session[n], session'[n])
    BY <1>1, SessionsGrow, SinceNow
  <1>4. session'[n] \in Payloads /\ session[n].acus <= session'[n].acus
    BY <1>2, <1>3, SinceAcus
  <1>5. session'[n].acus \in Nat
    BY <1>4 DEF Payload
  <1> QED
    BY <1>1, <1>2, <1>4, <1>5 DEF Consumed

\* A worker polls from the copy it had, from a tick's or from a row.
LEMMA CopiesAreRead ==
    ASSUME Shape, [Next]_vars
    PROVE  /\ \A w \in Workers : worker'[w].pc = "get" =>
                 \/ worker[w].pc = "get" /\ worker'[w].copy = worker[w].copy
                 \/ \E k \in Keys : tick[k] # None /\ worker'[w].copy = tick[k]
                 \/ \E k \in Keys : Claimed(k) /\ worker'[w].copy = issues[k]
           /\ \A k \in Keys : tick'[k] # None =>
                 \/ tick[k] # None /\ tick'[k] = tick[k]
                 \/ Claimed(k) /\ tick'[k] = issues[k]
  <1> DEFINE Read(work, old) ==
               work.pc = "get" =>
                 \/ old.pc = "get" /\ work.copy = old.copy
                 \/ \E k \in Keys : tick[k] # None /\ work.copy = tick[k]
                 \/ \E k \in Keys : Claimed(k) /\ work.copy = issues[k]
  <1>1. \A k \in Keys : tick'[k] # None =>
                 \/ tick[k] # None /\ tick'[k] = tick[k]
                 \/ Claimed(k) /\ tick'[k] = issues[k]
    <2>1. CASE UNCHANGED tick
      BY <2>1
    <2>2. CASE \E due \in SUBSET Keys : Tick(due)
      BY <2>2 DEF Tick, NonTerminal
    <2>3. CASE \E k \in Keys : PollNext(k)
      BY <2>3 DEF PollNext, Shape, TypeOK, RuntimeTypeOK
    <2>4. CASE tick' = NoTick
      BY <2>4 DEF NoTick
    <2>5. CASE \/ \E t \in Tasks, n \in Issues, k \in Keys : IssueEvent(t, n, k)
               \/ \E t \in Tasks, k \in Keys : PullRequestEvent(t, k)
               \/ \E t \in Tasks : Handler(t)
               \/ \E w \in Workers : Poll(w)
      BY <2>1, <2>4, <2>5
         DEF IssueEvent, HandleIssueEvent, PullRequestEvent, HandlePullRequestEvent, StartPoll,
             Handler, PullRequestAnswered, IssueAnswered, SessionCreated, CreateFailed,
             CreateUndecodable, Poll, PollAnswered, PollUnreachable, PollRefused, PollUndecodable
    <2> QED
      BY <2>1, <2>2, <2>3, <2>4, <2>5
         DEF Next, Underway, PollerLoop, ServePost, ServeGet, SessionMoves, Merge, ClaimAges,
             AttemptOverdue, Restart, vars, runtimeVars
  <1>2. ASSUME NEW v \in Workers, NEW work, Continue(v, work), Read(work, worker[v])
        PROVE  \A w \in Workers : Read(worker'[w], worker[w])
    BY <1>2, WorkerChanged
  <1>3. ASSUME UNCHANGED worker
        PROVE  \A w \in Workers : Read(worker'[w], worker[w])
    BY <1>3
  <1>4. ASSUME NEW v \in Workers, NEW work, Continue(v, work), work.pc # "get"
        PROVE  \A w \in Workers : Read(worker'[w], worker[w])
    BY <1>2, <1>4
  <1>5. ASSUME NEW v \in Workers, NEW k, NEW n, NEW copy,
               Continue(v, [Idle EXCEPT !.pc = "get", !.key = k, !.issue = n, !.copy = copy]),
               \/ \E j \in Keys : tick[j] # None /\ copy = tick[j]
               \/ \E j \in Keys : Claimed(j) /\ copy = issues[j]
        PROVE  \A w \in Workers : Read(worker'[w], worker[w])
    <2> DEFINE work == [Idle EXCEPT !.pc = "get", !.key = k, !.issue = n, !.copy = copy]
    <2>1. work.copy = copy
      BY DEF Idle
    <2> HIDE DEF work
    <2>2. Read(work, worker[v])
      BY <1>5, <2>1
    <2> QED
      BY <1>2, <1>5, <2>2 DEF work
  <1>6. ASSUME NEW v \in Workers, NEW pc, pc # "get", NEW k, NEW n,
               \/ Continue(v, Idle)
               \/ Continue(v, [Idle EXCEPT !.pc = pc, !.key = k, !.issue = n])
               \/ \E copy : Continue(v, [Idle EXCEPT !.pc = pc, !.key = k, !.issue = n,
                                                     !.copy = copy])
        PROVE  \A w \in Workers : Read(worker'[w], worker[w])
    <2>1. /\ Idle.pc # "get"
          /\ [Idle EXCEPT !.pc = pc, !.key = k, !.issue = n].pc # "get"
          /\ \A copy : [Idle EXCEPT !.pc = pc, !.key = k, !.issue = n, !.copy = copy].pc # "get"
      BY <1>6 DEF Idle
    <2> QED
      BY <1>4, <1>6, <2>1
  <1>7. ASSUME NEW v \in Workers, Return(v) \/ \E k, n : CreateSession(v, k, n)
        PROVE  \A w \in Workers : Read(worker'[w], worker[w])
    <2>1. CASE Continue(v, Idle)
      <3>1. "idle" # "get"
        OBVIOUS
      <3> QED
        BY <1>6, <2>1, <3>1
    <2>2. ASSUME NEW k, NEW n, Continue(v, [Idle EXCEPT !.pc = "post", !.key = k, !.issue = n])
          PROVE  \A w \in Workers : Read(worker'[w], worker[w])
      <3>1. "post" # "get"
        OBVIOUS
      <3> QED
        BY <1>6, <2>2, <3>1
    <2> QED
      BY <1>7, <2>1, <2>2 DEF Return, CreateSession
  <1>8. ASSUME NEW t \in Tasks, PullRequestAnswered(t) \/ IssueAnswered(t)
        PROVE  \A w \in Workers : Read(worker'[w], worker[w])
    <2>1. t \in Workers /\ [worker[t] EXCEPT !.pc = "ask_issue"].pc # "get"
      BY DEF Shape, TypeOK, RuntimeTypeOK, Work, Workers
    <2> QED
      BY <1>4, <1>7, <1>8, <2>1 DEF PullRequestAnswered, IssueAnswered, Skip, Reclaim
  <1>9. ASSUME NEW t \in Tasks, NEW n \in Issues, NEW k \in Keys, HandleIssueEvent(t, n, k)
        PROVE  \A w \in Workers : Read(worker'[w], worker[w])
    <2>1. t \in Workers /\ FirstQuestion(issues[k]) # "get"
      BY DEF Workers, FirstQuestion
    <2>2. CASE Question(t, n, k)
      BY <1>6, <2>1, <2>2 DEF Question
    <2> QED
      BY <1>3, <1>7, <1>9, <2>1, <2>2
         DEF HandleIssueEvent, Acquire, Resume, IgnoreRedelivery, SkipLive
  <1>10. ASSUME NEW t \in Tasks, NEW k \in Keys, PullRequestEvent(t, k)
         PROVE  \A w \in Workers : Read(worker'[w], worker[w])
    <2>1. t \in Workers /\ Claimed(k)
      BY <1>10 DEF Workers, PullRequestEvent, HandlePullRequestEvent, NonTerminal
    <2> QED
      BY <1>5, <1>10, <2>1 DEF PullRequestEvent, HandlePullRequestEvent, StartPoll
  <1>11. ASSUME NEW k \in Keys, PollNext(k)
         PROVE  \A w \in Workers : Read(worker'[w], worker[w])
    BY <1>5, <1>11, Parts DEF PollNext
  <1>12. ASSUME NEW v \in Workers, ServeGet(v) \/ (v \in Tasks /\ ServePost(v))
         PROVE  \A w \in Workers : Read(worker'[w], worker[w])
    <2>1. worker \in [Workers -> Work] /\ worker[v] \in Work
      BY DEF Shape, TypeOK, RuntimeTypeOK
    <2>2. /\ \A w \in Workers \ {v} : worker'[w] = worker[w]
          /\ worker'[v].pc = "get" => worker[v].pc = "get" /\ worker'[v].copy = worker[v].copy
      BY <1>12, <2>1 DEF ServeGet, ServePost, Work
    <2> QED
      BY <2>2
  <1>13. ASSUME Restart
         PROVE  \A w \in Workers : Read(worker'[w], worker[w])
    BY <1>13, IdleOwns DEF Restart
  <1>14. \A w \in Workers : Read(worker'[w], worker[w])
    <2>1. CASE \E v \in Workers : Poll(v)
      BY <1>7, <2>1 DEF Poll, PollAnswered, PollUnreachable, PollRefused, PollUndecodable
    <2>2. CASE \E t \in Tasks : Handler(t)
      BY <1>7, <1>8, <2>2 DEF Handler, SessionCreated, CreateFailed, CreateUndecodable, Workers
    <2>3. CASE \E t \in Tasks, n \in Issues, k \in Keys : IssueEvent(t, n, k)
      BY <1>9, <2>3 DEF IssueEvent
    <2>4. CASE \/ \E t \in Tasks : ServePost(t)
               \/ \E w \in Workers : ServeGet(w)
      BY <1>12, <2>4 DEF Workers
    <2> QED
      BY <1>3, <1>10, <1>11, <1>13, <2>1, <2>2, <2>3, <2>4
         DEF Next, Underway, PollerLoop, Tick, SessionMoves, Merge, ClaimAges, AttemptOverdue,
             vars, runtimeVars
  <1> QED
    BY <1>1, <1>14

\* What a worker was told of a session is true of it by the end of the step.
LEMMA RepliesLast ==
    ASSUME Shape, RepliesGenuine, [Next]_vars, NEW w \in Workers, worker[w].reply # None
    PROVE  LET n == worker[w].issue
               p == worker[w].reply
           IN  /\ n \in Issues /\ p \in Payloads
               /\ session'[n] # None /\ session'[n] \in Payloads
               /\ Since(p, session'[n])
               /\ p.acus <= session'[n].acus
  <1> DEFINE n == worker[w].issue
             p == worker[w].reply
  <1>1. p \in Payloads
    BY DEF Shape, TypeOK, RuntimeTypeOK, Work
  <1>2. Started(n) /\ Since(p, session[n]) /\ worker[w].pc \in Creating \cup {"get"}
    BY DEF RepliesGenuine, Genuine, Started
  <1>3. n \in Issues
    BY <1>2 DEF Creating, Shape, WorkersOnClaims, OnClaim
  <1>4. session'[n] # None /\ Since(p, session'[n])
    BY <1>2, <1>3, SessionsGrow DEF Started
  <1> QED
    BY <1>1, <1>3, <1>4, SinceAcus

LEMMA RowsConsumed ==
    ASSUME Shape, CopiesCurrent, Owned, RepliesGenuine, RowsStarted, AcusHappened, [Next]_vars
    PROVE  AcusHappened'
  <1> SUFFICES ASSUME NEW k \in Keys, Claimed(k)' PROVE Consumed(issues'[k], session')
    BY DEF AcusHappened
  <1> DEFINE row == issues'[k]
  <1>1. ASSUME Claimed(k), row.devin_id = issues[k].devin_id,
               row.acus_consumed = issues[k].acus_consumed
        PROVE  Consumed(row, session')
    BY <1>1, ConsumedLasts DEF AcusHappened
  <1>2. ASSUME NEW w \in Workers, worker[w].reply # None, row.devin_id = worker[w].issue,
               row.acus_consumed = worker[w].reply.acus
        PROVE  Consumed(row, session')
    BY <1>2, RepliesLast DEF Consumed
  <1>3. CASE row = issues[k]
    <2>1. Claimed(k)
      BY <1>3 DEF Claimed
    <2> QED
      BY <1>1, <1>3, <2>1
  <1>4. row.devin_id = None => Consumed(row, session')
    BY DEF Consumed
  <1>5. ASSUME NEW t \in Tasks, Created(t, k, row)
        PROVE  Consumed(row, session')
    <2>1. issues[k].devin_id = None
      BY <1>5, WorkIsOwned DEF Created
    <2> QED
      BY <1>2, <1>4, <1>5, <2>1 DEF Created, Workers
  <1>6. ASSUME NEW w \in Workers, PolledBy(worker[w], k, row)
        PROVE  Consumed(row, session')
    <2>1. worker[w].issue = issues[k].devin_id /\ row.devin_id = issues[k].devin_id /\ Claimed(k)
      BY <1>6, WorkIsOwned DEF PolledBy
    <2> QED
      BY <1>1, <1>2, <1>6, <2>1 DEF PolledBy
  <1>7. row = issues[k] \/ Fate(k, row)
    BY FatesStep DEF Fates
  <1> QED
    BY <1>3, <1>4, <1>5, <1>6, <1>7 DEF Fate, Begins

LEMMA AcusInvariant == ASSUME Orderly PROVE Spec => []AcusHappened
  <1>1. Init => AcusHappened
    BY DEF Init, StoreInit, AcusHappened, Claimed
  <1>2. /\ Shape /\ CopiesCurrent /\ (Owned /\ ResultsAreOwn) /\ RepliesGenuine /\ RowsStarted
        /\ AcusHappened /\ [Next]_vars
        => AcusHappened'
    BY RowsConsumed
  <1> QED
    BY <1>1, <1>2, ShapeInvariant, CopiesInvariant, OwnedInvariant, GenuineInvariant,
       RowsStartedInvariant, PTL DEF Spec

LEMMA RowsHappened ==
    ASSUME PullRequestsStay, Shape, CopiesCurrent, Owned, RepliesGenuine,
           RecordsHappened, [Next]_vars, NEW k \in Keys, Claimed(k)'
    PROVE  Opened(issues'[k], session')
  <1> DEFINE row == issues'[k]
  <1>1. ASSUME Claimed(k), row.pr_url = issues[k].pr_url
        PROVE  Opened(row, session')
    <2>1. issues[k].pr_url \in Issues \cup {None} /\ Opened(issues[k], session)
      BY <1>1, ClaimedRow DEF RecordsHappened, Shape, TypeOK, Row
    <2> QED
      BY <1>1, <2>1, OpenedLasts
  <1>2. CASE row = issues[k]
    <2>1. Claimed(k)
      BY <1>2 DEF Claimed
    <2> QED
      BY <1>1, <1>2, <2>1
  <1>3. CASE Begins(k, row)
    <2>1. row.pr_url = None => Opened(row, session')
      BY DEF Opened
    <2> QED
      BY <1>1, <1>3, <2>1 DEF Begins
  <1>4. ASSUME NEW t \in Tasks, Created(t, k, row)
        PROVE  Opened(row, session')
    BY <1>1, <1>4 DEF Created
  <1>5. ASSUME NEW w \in Workers, PolledBy(worker[w], k, row)
        PROVE  Opened(row, session')
    <2> DEFINE p == worker[w].reply
               copy == worker[w].copy
    <2>1. /\ issues[k].devin_id # None /\ worker[w].issue = issues[k].devin_id
          /\ copy.devin_id = issues[k].devin_id /\ copy.pr_url \in {None, issues[k].devin_id}
          /\ worker[w].pc = "get" /\ Claimed(k)
      BY <1>5, WorkIsOwned DEF PolledBy, Tied
    <2>2. issues[k].devin_id \in Issues
      BY <2>1, ClaimedRow DEF Shape, TypeOK, Row
    <2>3. CASE row.pr_url = issues[k].pr_url
      BY <1>1, <2>1, <2>3
    <2>4. CASE /\ p # None
               /\ row.pr_url = IF HasPullRequest(p) THEN copy.devin_id ELSE copy.pr_url
      <3>1. CASE HasPullRequest(p)
        <4>1. LET n == worker[w].issue
              IN  p \in Payloads /\ session'[n] # None /\ Since(p, session'[n])
          BY <2>4, RepliesLast
        <4>2. HasPullRequest(session'[row.pr_url]) /\ session'[row.pr_url] # None
          BY <2>1, <2>4, <3>1, <4>1, SincePullRequest
        <4> QED
          BY <4>2 DEF Opened
      <3>2. CASE ~HasPullRequest(p)
        <4>1. row.pr_url = copy.pr_url /\ copy.pr_url \in Issues \cup {None}
          BY <2>1, <2>2, <2>4, <3>2
        <4>2. Opened(copy, session)
          BY <2>1 DEF RecordsHappened
        <4> QED
          BY <4>1, <4>2, OpenedLasts
      <3> QED
        BY <3>1, <3>2
    <2> QED
      BY <1>5, <2>3, <2>4 DEF PolledBy
  <1>6. row = issues[k] \/ Fate(k, row)
    BY FatesStep DEF Fates
  <1> QED
    BY <1>2, <1>3, <1>4, <1>5, <1>6 DEF Fate

LEMMA HappenedStep ==
    ASSUME PullRequestsStay, Shape, CopiesCurrent, Owned, RepliesGenuine, RecordsHappened,
           [Next]_vars
    PROVE  RecordsHappened'
  <1>1. ASSUME NEW old, old.pr_url \in Issues \cup {None}, Opened(old, session)
        PROVE  Opened(old, session')
    BY <1>1, OpenedLasts
  <1>2. \A k \in Keys : tick[k] # None => Opened(tick[k], session')
    <2> SUFFICES ASSUME NEW k \in Keys, tick[k] # None PROVE Opened(tick[k], session')
      OBVIOUS
    <2>1. tick[k].pr_url \in Issues \cup {None}
      BY DEF Shape, TypeOK, RuntimeTypeOK, Row
    <2> QED
      BY <1>1, <2>1 DEF RecordsHappened
  <1>3. \A k \in Keys : Claimed(k) => Opened(issues[k], session')
    <2> SUFFICES ASSUME NEW k \in Keys, Claimed(k) PROVE Opened(issues[k], session')
      OBVIOUS
    <2>1. issues[k].pr_url \in Issues \cup {None}
      BY ClaimedRow DEF Shape, TypeOK, Row
    <2> QED
      BY <1>1, <2>1 DEF RecordsHappened
  <1>4. \A w \in Workers : worker[w].pc = "get" => Opened(worker[w].copy, session')
    <2> SUFFICES ASSUME NEW w \in Workers, worker[w].pc = "get"
                 PROVE  Opened(worker[w].copy, session')
      OBVIOUS
    <2>1. worker[w].key \in Keys /\ worker[w].copy.pr_url \in Issues \cup {None}
      BY DEF Shape, WorkersOnClaims, OnClaim, TypeOK, RuntimeTypeOK, Work, Row
    <2> QED
      BY <1>1, <2>1 DEF RecordsHappened
  <1>5. \A k \in Keys : tick'[k] # None => Opened(tick'[k], session')
    BY <1>2, <1>3, CopiesAreRead
  <1>6. \A w \in Workers : worker'[w].pc = "get" => Opened(worker'[w].copy, session')
    BY <1>2, <1>3, <1>4, CopiesAreRead
  <1> QED
    BY <1>5, <1>6, RowsHappened DEF RecordsHappened

\* Nothing on record is ahead of the Devin API: the session exists, has consumed
\* what is recorded and has opened the pull request that is; whichever reply was
\* handled last (_poll_one), and whichever record a tick read long before.
THEOREM RecordsAreReal ==
    ASSUME Orderly, PullRequestsStay
    PROVE  Spec => []RecordedHappened
  <1>1. Init => RecordsHappened
    BY DEF Init, StoreInit, RuntimeInit, RecordsHappened, Claimed, Idle
  <1>2. /\ Shape /\ CopiesCurrent /\ (Owned /\ ResultsAreOwn) /\ RepliesGenuine
        /\ RecordsHappened /\ [Next]_vars
        => RecordsHappened'
    BY HappenedStep
  <1>3. RecordsHappened /\ AcusHappened /\ RowsStarted => RecordedHappened
    BY DEF RecordsHappened, AcusHappened, RowsStarted, RecordedHappened, Opened, Consumed, Started
  <1> QED
    BY <1>1, <1>2, <1>3, ShapeInvariant, CopiesInvariant, OwnedInvariant, GenuineInvariant,
       RowsStartedInvariant, AcusInvariant, PTL DEF Spec

-----------------------------------------------------------------------------
(***************************************************************************)
(* An outcome is one the session gave reason for.                          *)
(***************************************************************************)
\* What a session that shows p gives reason to record.
Reasons(p, outcome) ==
    /\ outcome = "failed" => Erred(p)
    /\ outcome = "succeeded" => HasPullRequest(p) \/ Fixed(p)
    /\ outcome = "declined" => Finished(p) /\ ~Fixed(p)

\* A session that has given reason for an outcome does not take it back: it does not
\* resume, and its structured output stands.
EvidenceLasts ==
    \A p, q \in Payloads : MayBecome(p, q) =>
        \A outcome \in TERMINAL_OUTCOMES : Reasons(p, outcome) => Reasons(q, outcome)

LEMMA SinceReasons ==
    ASSUME EvidenceLasts, NEW p \in Payloads, NEW q, Since(p, q),
           NEW outcome \in Outcomes, Reasons(p, outcome)
    PROVE  Reasons(q, outcome)
  <1> DEFINE S == {r \in Payloads : Reasons(r, outcome)}
  <1>1. CASE outcome = "in_progress"
    BY <1>1 DEF Reasons
  <1>2. CASE outcome \in TERMINAL_OUTCOMES
    <2>1. Lasting(S) /\ p \in S
      BY <1>2 DEF Lasting, EvidenceLasts
    <2> QED
      BY <2>1 DEF Since
  <1> QED
    BY <1>1, <1>2 DEF Outcomes

LEMMA ClassifyReasons ==
    ASSUME NEW p, NEW outcome, outcome # None, outcome = classify(p)
    PROVE  Reasons(p, outcome)
  BY DEF Reasons, classify, Delivered

LEMMA OverdueGrows ==
    ASSUME Shape, [Next]_vars, NEW k \in Keys
    PROVE  overdue[k] \in Nat /\ overdue'[k] \in Nat /\ overdue[k] <= overdue'[k]
  <1>1. overdue \in [Keys -> Nat]
    BY DEF Shape, TypeOK, RuntimeTypeOK
  <1>2. CASE UNCHANGED overdue
    BY <1>1, <1>2
  <1>3. ASSUME NEW j \in Keys, overdue' = [overdue EXCEPT ![j] = @ + 1]
        PROVE  overdue[k] \in Nat /\ overdue'[k] \in Nat /\ overdue[k] <= overdue'[k]
    BY <1>1, <1>3
  <1>4. CASE \/ \E t \in Tasks, n \in Issues, j \in Keys : IssueEvent(t, n, j)
             \/ \E t \in Tasks, j \in Keys : PullRequestEvent(t, j)
             \/ \E t \in Tasks : Handler(t)
             \/ \E w \in Workers : Poll(w)
    <2>1. UNCHANGED overdue
      BY <1>4
         DEF IssueEvent, HandleIssueEvent, PullRequestEvent, HandlePullRequestEvent, StartPoll,
             Handler, PullRequestAnswered, IssueAnswered, SessionCreated, CreateFailed,
             CreateUndecodable, Poll, PollAnswered, PollUnreachable, PollRefused, PollUndecodable
    <2> QED
      BY <1>2, <2>1
  <1>5. CASE \/ \E t \in Tasks : ServePost(t)
             \/ \E w \in Workers : ServeGet(w)
             \/ PollerLoop
             \/ \E n \in Issues : SessionMoves(n) \/ Merge(n)
             \/ \E j \in Keys : ClaimAges(j)
             \/ Restart
             \/ UNCHANGED vars
    <2>1. UNCHANGED overdue
      BY <1>5
         DEF ServePost, ServeGet, PollerLoop, Tick, PollNext, SessionMoves, Merge, ClaimAges,
             Restart, vars, runtimeVars
    <2> QED
      BY <1>2, <2>1
  <1>6. ASSUME NEW j \in Keys, AttemptOverdue(j)
        PROVE  overdue' = [overdue EXCEPT ![j] = @ + 1]
    BY <1>6 DEF AttemptOverdue
  <1> QED
    BY <1>3, <1>4, <1>5, <1>6 DEF Next, Underway

Evident(row, sessions, limit) ==
    row.devin_id # None =>
        /\ Reasons(sessions[row.devin_id], row.outcome)
        /\ row.outcome = "timed_out" => row.created_at <= limit

RowsEvident == \A k \in Keys : Claimed(k) => Evident(issues[k], session, overdue[k])

LEMMA EvidentStep ==
    ASSUME EvidenceLasts, Shape, CopiesCurrent, Owned, RepliesGenuine, RowsStarted, RowsEvident,
           [Next]_vars
    PROVE  RowsEvident'
  <1> SUFFICES ASSUME NEW k \in Keys, Claimed(k)', issues'[k].devin_id # None
               PROVE  /\ Reasons(session'[issues'[k].devin_id], issues'[k].outcome)
                      /\ issues'[k].outcome = "timed_out" => issues'[k].created_at <= overdue'[k]
    BY DEF RowsEvident, Evident
  <1> DEFINE row == issues'[k]
  <1>1. ASSUME Claimed(k), row.devin_id = issues[k].devin_id, row.outcome = issues[k].outcome,
               row.created_at = issues[k].created_at
        PROVE  /\ Reasons(session'[row.devin_id], row.outcome)
               /\ row.outcome = "timed_out" => row.created_at <= overdue'[k]
    <2>1. PICK n \in Issues : n = row.devin_id /\ Started(n)
      BY <1>1, ClaimedRow DEF RowsStarted, Shape, TypeOK, Row
    <2>2. session[n] \in Payloads /\ Since(session[n], session'[n])
      BY <2>1, SessionsGrow, SinceNow DEF Started, Shape, TypeOK, RuntimeTypeOK
    <2>3. issues[k].created_at \in Nat /\ issues[k].outcome \in Outcomes
      BY <1>1, ClaimedRow DEF Shape, TypeOK, Row
    <2>4. Evident(issues[k], session, overdue[k])
      BY <1>1 DEF RowsEvident
    <2>5. Reasons(session'[n], row.outcome)
      BY <1>1, <2>1, <2>2, <2>3, <2>4, SinceReasons DEF Evident
    <2>6. row.outcome = "timed_out" => row.created_at <= overdue'[k]
      BY <1>1, <2>1, <2>3, <2>4, OverdueGrows DEF Evident
    <2> QED
      BY <2>1, <2>5, <2>6
  <1>2. row.outcome \in {"in_progress", "errored"} =>
            /\ Reasons(session'[row.devin_id], row.outcome)
            /\ row.outcome = "timed_out" => row.created_at <= overdue'[k]
    BY DEF Reasons
  <1>3. ASSUME NEW w \in Workers, PolledBy(worker[w], k, row)
        PROVE  /\ Reasons(session'[row.devin_id], row.outcome)
               /\ row.outcome = "timed_out" => row.created_at <= overdue'[k]
    <2> DEFINE p == worker[w].reply
    <2>1. /\ Claimed(k) /\ row.devin_id = issues[k].devin_id /\ worker[w].issue = row.devin_id
          /\ row.created_at = issues[k].created_at
          /\ worker[w].copy.created_at = row.created_at
      BY <1>3, WorkIsOwned DEF PolledBy, Tied
    <2>2. CASE row.outcome = issues[k].outcome
      BY <1>1, <2>1, <2>2
    <2>3. CASE row.outcome = "timed_out" /\ TimedOut(k, worker[w].copy)
      <3>1. row.created_at \in Nat
        BY <2>1, ClaimedRow DEF Shape, TypeOK, Row
      <3> QED
        BY <2>1, <2>3, <3>1, OverdueGrows DEF TimedOut, Reasons
    <2>4. CASE p # None /\ row.outcome # None /\ row.outcome = classify(p)
      <3>1. p \in Payloads /\ Since(p, session'[row.devin_id])
        BY <2>1, <2>4, RepliesLast
      <3>2. row.outcome \in Outcomes /\ row.outcome # "timed_out" /\ Reasons(p, row.outcome)
        BY <2>4, ClassifyReasons DEF classify, Outcomes, TERMINAL_OUTCOMES
      <3> QED
        BY <3>1, <3>2, SinceReasons
    <2> QED
      BY <1>2, <1>3, <2>2, <2>3, <2>4 DEF PolledBy, Ends
  <1>4. CASE row = issues[k]
    BY <1>1, <1>4 DEF Claimed
  <1>5. row = issues[k] \/ Fate(k, row)
    BY FatesStep DEF Fates
  <1> QED
    BY <1>2, <1>3, <1>4, <1>5 DEF Fate, Begins, Created

\* An outcome on record is one its session gave reason for: "failed" only when the
\* API says so, a success with something to show, a timeout past the limit (classify,
\* _check_timeout); for all payloads whose evidence lasts.
THEOREM OutcomesAreEvident ==
    ASSUME Orderly, EvidenceLasts
    PROVE  Spec => []OutcomeEvidenced
  <1>1. Init => RowsEvident
    BY DEF Init, StoreInit, RowsEvident, Claimed
  <1>2. /\ Shape /\ CopiesCurrent /\ (Owned /\ ResultsAreOwn) /\ RepliesGenuine /\ RowsStarted
        /\ RowsEvident /\ [Next]_vars
        => RowsEvident'
    BY EvidentStep
  <1>3. RowsEvident => OutcomeEvidenced
    BY DEF RowsEvident, OutcomeEvidenced, Evident, Reasons
  <1> QED
    BY <1>1, <1>2, <1>3, ShapeInvariant, CopiesInvariant, OwnedInvariant, GenuineInvariant,
       RowsStartedInvariant, PTL DEF Spec

-----------------------------------------------------------------------------
(***************************************************************************)
(* An open claim keeps a creator.                                          *)
(***************************************************************************)
\* What a step may do to k.
CreatorKept(k) == Left(k)' => Left(k) /\ ~StaleRedelivered(k)

\* Nothing is delivered in a step that leaves `delivered` alone.
LEMMA NotDelivered ==
    ASSUME Shape, UNCHANGED delivered, NEW k
    PROVE  ~StaleRedelivered(k)
  BY DEF StaleRedelivered, IssueEvent, Shape, TypeOK

\* w's step leaves k with the creator it had, or w creates for it.
LEMMA CreatorStays ==
    ASSUME NEW w \in Workers, \A v \in Workers \ {w} : worker'[v] = worker[v],
           NEW k \in Keys,
           PendingClaim(k)' =>
               \/ /\ PendingClaim(k) /\ issues'[k].issue = issues[k].issue
                  /\ CreatesFor(w, k) => CreatesFor(w, k)'
               \/ w \in Tasks /\ CreatesFor(w, k)'
    PROVE  Left(k)' => Left(k)
  <1> SUFFICES ASSUME Left(k)'
               PROVE  Left(k)
    OBVIOUS
  <1>1. /\ PendingClaim(k) /\ issues'[k].issue = issues[k].issue
        /\ CreatesFor(w, k) => CreatesFor(w, k)'
        /\ PendingClaim(k)' /\ \A t \in Tasks : ~CreatesFor(t, k)'
    BY DEF Left
  <1>2. ASSUME NEW t \in Tasks, CreatesFor(t, k)
        PROVE  FALSE
    BY <1>1, <1>2 DEF CreatesFor, Workers
  <1> QED
    BY <1>1, <1>2 DEF Left

\* No row is written, and no creator is gone.
LEMMA CreatorsStay ==
    ASSUME UNCHANGED issues, NEW w \in Workers,
           \A v \in Workers \ {w} : worker'[v] = worker[v],
           worker[w].pc \in Creating =>
               /\ worker'[w].pc \in Creating /\ worker'[w].key = worker[w].key
               /\ worker'[w].issue = worker[w].issue
    PROVE  \A j \in Keys : Left(j)' => Left(j)
  BY CreatorStays DEF PendingClaim, Claimed, CreatesFor

\* Whoever claims a row creates a session for it, and the other rows keep theirs.
LEMMA ClaimerCreates ==
    ASSUME Shape, ~DryRun, NEW t \in Tasks, worker[t].pc \notin Creating,
           NEW k \in Keys, NEW n \in Issues, NEW row, update(k, row), row.issue = n,
           CreateSession(t, k, n)
    PROVE  ~Left(k)' /\ \A j \in Keys : Left(j)' => Left(j)
  <1> DEFINE work == [Idle EXCEPT !.pc = "post", !.key = k, !.issue = n]
  <1>1. Continue(t, work) /\ t \in Workers
    BY DEF CreateSession, Workers
  <1>2. work.pc \in Creating /\ work.key = k /\ work.issue = n
    BY DEF Idle, Creating
  <1> HIDE DEF work
  <1>3. worker'[t] = work /\ \A v \in Workers \ {t} : worker'[v] = worker[v]
    BY <1>1, WorkerChanged
  <1>4. issues'[k] = row /\ \A j \in Keys \ {k} : issues'[j] = issues[j]
    BY DEF update, Shape, TypeOK, StoreTypeOK
  <1>5. CreatesFor(t, k)' /\ \A j \in Keys : ~CreatesFor(t, j)
    BY <1>2, <1>3, <1>4 DEF CreatesFor
  <1>6. ~Left(k)'
    BY <1>5 DEF Left
  <1>7. ASSUME NEW j \in Keys \ {k}
        PROVE  Left(j)' => Left(j)
    BY <1>1, <1>3, <1>4, <1>5, CreatorStays DEF PendingClaim, Claimed
  <1> QED
    BY <1>6, <1>7

\* handle_issue_event: a stale claim of this issue is resumed with a create.
LEMMA KeptByEvents ==
    ASSUME Shape, ~DryRun, NEW t \in Tasks, NEW n \in Issues, NEW k \in Keys, IssueEvent(t, n, k)
    PROVE  \A j \in Keys : CreatorKept(j)
  <1>1. t \in Workers /\ worker[t].pc \notin Creating /\ HandleIssueEvent(t, n, k)
    BY DEF Workers, IssueEvent, HandleIssueEvent, Idle, Creating
  <1>2. \A j \in Keys : Left(j)' => Left(j)
    <2>1. CASE UNCHANGED issues /\ \E work : Continue(t, work)
      BY <1>1, <2>1, WorkerChanged, CreatorsStay
    <2>2. CASE UNCHANGED <<issues, worker>>
      BY <1>1, <2>2, CreatorsStay
    <2>3. CASE \E row : update(k, row) /\ row.issue = n /\ CreateSession(t, k, n)
      BY <1>1, <2>3, ClaimerCreates
    <2>4. CASE Acquire(t, n, k)
      BY <2>3, <2>4 DEF Acquire, ClaimNew, ClaimReclaimed, Attempt
    <2>5. CASE Resume(t, n, k)
      <3> DEFINE row == [issues[k] EXCEPT !.outcome = "in_progress"]
      <3>1. row.issue = n /\ update(k, row)
        BY <2>5, ClaimedRow DEF Resume, ClaimResumed, Shape, TypeOK, Row
      <3> QED
        BY <2>3, <2>5, <3>1 DEF Resume
    <2> QED
      BY <1>1, <2>1, <2>2, <2>4, <2>5
         DEF HandleIssueEvent, IgnoreRedelivery, SkipLive, Question, ClaimRedelivery, ClaimDuplicate
  <1>3. ASSUME NEW j \in Keys, Left(j), Left(j)', StaleRedelivered(j)
        PROVE  FALSE
    <2>1. PICK u \in Tasks : IssueEvent(u, issues[j].issue, j)
      BY <1>3 DEF StaleRedelivered
    <2>2. Claimed(j) /\ Abandoned(j) /\ issues[j] \in Row
      BY <1>3, ClaimedRow DEF Left, PendingClaim, StaleRedelivered, Abandoned, Shape, TypeOK
    <2>3. Resume(u, issues[j].issue, j) /\ worker[u] = Idle
      BY <2>1, <2>2
         DEF IssueEvent, HandleIssueEvent, Acquire, ClaimNew, ClaimReclaimed, IgnoreRedelivery,
             ClaimRedelivery, SkipLive, Question, ClaimDuplicate
    <2> DEFINE row == [issues[j] EXCEPT !.outcome = "in_progress"]
    <2>4. /\ row.issue = issues[j].issue /\ issues[j].issue \in Issues
          /\ update(j, row) /\ CreateSession(u, j, issues[j].issue)
          /\ worker[u].pc \notin Creating
      BY <2>2, <2>3 DEF Resume, ClaimResumed, Row, Idle, Creating
    <2> QED
      BY <1>3, <2>4, ClaimerCreates
  <1> QED
    BY <1>2, <1>3 DEF CreatorKept

\* _maybe_reclaim: a task that has asked GitHub leaves everything, or claims.
LEMMA KeptByAnswers ==
    ASSUME Shape, ~DryRun, NEW t \in Tasks, PullRequestAnswered(t) \/ IssueAnswered(t)
    PROVE  \A j \in Keys : Left(j)' => Left(j)
  <1>1. t \in Workers /\ worker[t].pc \notin Creating
    BY DEF Workers, PullRequestAnswered, IssueAnswered, Creating
  <1>2. PICK k \in Keys, n \in Issues : k = worker[t].key /\ n = worker[t].issue
    BY <1>1 DEF PullRequestAnswered, IssueAnswered, Shape, WorkersOnClaims, OnClaim, Asking
  <1>3. CASE UNCHANGED issues /\ \E work : Continue(t, work)
    BY <1>1, <1>3, WorkerChanged, CreatorsStay
  <1>4. CASE \E row : update(k, row) /\ row.issue = n /\ CreateSession(t, k, n)
    BY <1>1, <1>4, ClaimerCreates
  <1>5. \A created : Attempt(n, created).issue = n
    BY DEF Attempt
  <1>6. CASE Reclaim(t)
    BY <1>2, <1>3, <1>4, <1>5, <1>6 DEF Reclaim, ReclaimWon, ReclaimLost, Return, storeVars
  <1> QED
    BY <1>3, <1>6 DEF PullRequestAnswered, IssueAnswered, Skip, Return, storeVars

\* _create_session: a create that ends writes a session or an error on its record,
\* or gives its claim up.
LEMMA KeptByCreates ==
    ASSUME Shape, NEW t \in Tasks, SessionCreated(t) \/ CreateFailed(t) \/ CreateUndecodable(t)
    PROVE  \A j \in Keys : Left(j)' => Left(j) \/ GivenUp(j)
  <1>1. t \in Workers /\ worker[t].pc \in Creating /\ Return(t)
    BY DEF Workers, SessionCreated, CreateFailed, CreateUndecodable
  <1>2. PICK k \in Keys, n \in Issues : k = worker[t].key /\ n = worker[t].issue /\ Claimed(k)
    BY <1>1 DEF Shape, WorkersOnClaims, OnClaim, Creating, Claimed
  <1>3. \A v \in Workers \ {t} : worker'[v] = worker[v]
    BY <1>1, WorkerChanged DEF Return
  <1>4. issues[k] \in Row
    BY <1>2, ClaimedRow DEF Shape, TypeOK
  <1>5. CASE \/ CreateUndecodable(t)
             \/ SessionCreated(t) /\ HeldElsewhere(k, n)
    <2>1. UNCHANGED issues
      BY <1>2, <1>5 DEF SessionCreated, CreateUndecodable, storeVars
    <2>2. ASSUME NEW j \in Keys, CreatesFor(t, j)
          PROVE  GivenUp(j)
      BY <1>2, <1>5, <2>2 DEF GivenUp, CreatesFor
    <2>3. ASSUME NEW j \in Keys, ~CreatesFor(t, j)
          PROVE  Left(j)' => Left(j)
      BY <1>1, <1>3, <2>1, <2>3, CreatorStays DEF PendingClaim, Claimed
    <2> QED
      BY <2>2, <2>3
  <1>6. ASSUME NEW row, update(k, row), row.devin_id # None \/ Settled(row)
        PROVE  \A j \in Keys : Left(j)' => Left(j)
    <2>1. issues'[k] = row /\ \A j \in Keys \ {k} : issues'[j] = issues[j]
      BY <1>6 DEF update, Shape, TypeOK, StoreTypeOK
    <2>2. ~PendingClaim(k)'
      BY <1>6, <2>1 DEF PendingClaim, Settled
    <2> QED
      BY <1>1, <1>2, <1>3, <2>1, <2>2, CreatorStays DEF PendingClaim, Claimed, CreatesFor
  <1>7. CASE CreateFailed(t)
    <2>1. Settled([issues[k] EXCEPT !.outcome = "errored"])
      BY <1>4 DEF Settled, Row, TERMINAL_OUTCOMES
    <2> QED
      BY <1>2, <1>6, <1>7, <2>1 DEF CreateFailed
  <1>8. CASE SessionCreated(t) /\ ~HeldElsewhere(k, n)
    <2> DEFINE row == [issues[k] EXCEPT !.devin_id = n,
                                        !.acus_consumed = worker[t].reply.acus,
                                        !.outcome = "in_progress"]
    <2>1. row.devin_id # None
      BY <1>2, <1>4, StoreAssumption DEF Row
    <2>2. update(k, row)
      BY <1>2, <1>8 DEF SessionCreated
    <2> QED
      BY <1>6, <2>1, <2>2
  <1> QED
    BY <1>5, <1>7, <1>8

LEMMA KeptByPolls ==
    ASSUME Shape, NEW w \in Workers, Poll(w)
    PROVE  \A j \in Keys : Left(j)' => Left(j)
  <1>1. Return(w) /\ worker[w].pc \notin Creating
    BY DEF Poll, PollAnswered, PollUnreachable, PollRefused, PollUndecodable, Creating
  <1>2. \A v \in Workers \ {w} : worker'[v] = worker[v]
    BY <1>1, WorkerChanged DEF Return
  <1>3. ASSUME NEW j \in Keys, PendingClaim(j)'
        PROVE  PendingClaim(j) /\ issues'[j].issue = issues[j].issue
    <2>1. CASE UNCHANGED issues
      BY <1>3, <2>1 DEF PendingClaim, Claimed
    <2>2. ASSUME NEW k \in Keys, NEW row, update(k, row), Claimed(k),
                 row.issue = issues[k].issue, row.devin_id = issues[k].devin_id,
                 Settled(issues[k]) => Settled(row)
          PROVE  PendingClaim(j) /\ issues'[j].issue = issues[j].issue
      <3>1. issues'[k] = row /\ \A i \in Keys \ {k} : issues'[i] = issues[i]
        BY <2>2 DEF update, Shape, TypeOK, StoreTypeOK
      <3> QED
        BY <1>3, <2>2, <3>1 DEF PendingClaim, Claimed, Settled
    <2> QED
      BY <2>1, <2>2, PollsKeepClaims DEF ClaimsKept
  <1> QED
    BY <1>1, <1>2, <1>3, CreatorStays DEF CreatesFor

LEMMA KeptElsewhere ==
    ASSUME Shape,
           \/ \E t \in Tasks, k \in Keys : PullRequestEvent(t, k)
           \/ \E t \in Tasks : ServePost(t)
           \/ \E w \in Workers : ServeGet(w)
           \/ PollerLoop
           \/ \E n \in Issues : SessionMoves(n) \/ Merge(n)
           \/ \E k \in Keys : ClaimAges(k) \/ AttemptOverdue(k)
           \/ UNCHANGED vars
    PROVE  \A j \in Keys : Left(j)' => Left(j)
  <1>1. Poller \in Workers /\ worker \in [Workers -> Work]
    BY DEF Workers, Shape, TypeOK, RuntimeTypeOK
  <1>2. CASE UNCHANGED <<issues, worker>>
    BY <1>1, <1>2, CreatorsStay
  <1>3. ASSUME NEW w \in Workers, worker[w] = Idle, UNCHANGED issues,
               NEW work, Continue(w, work)
        PROVE  \A j \in Keys : Left(j)' => Left(j)
    BY <1>3, WorkerChanged, CreatorsStay DEF Idle, Creating
  <1>4. ASSUME NEW w \in Workers, ServeGet(w) \/ (w \in Tasks /\ ServePost(w))
        PROVE  \A j \in Keys : Left(j)' => Left(j)
    <2>1. UNCHANGED issues /\ \A v \in Workers \ {w} : worker'[v] = worker[v]
      BY <1>1, <1>4 DEF ServeGet, ServePost, storeVars
    <2>2. worker[w].pc \in Creating =>
              /\ worker'[w].pc \in Creating /\ worker'[w].key = worker[w].key
              /\ worker'[w].issue = worker[w].issue
      BY <1>1, <1>4 DEF ServeGet, ServePost, Creating, Work
    <2> QED
      BY <2>1, <2>2, CreatorsStay
  <1>5. CASE \/ \E t \in Tasks, k \in Keys : PullRequestEvent(t, k)
             \/ \E k \in Keys : PollNext(k)
    BY <1>1, <1>3, <1>5
       DEF PullRequestEvent, HandlePullRequestEvent, StartPoll, PollNext, storeVars, Workers
  <1> QED
    BY <1>2, <1>4, <1>5
       DEF PollerLoop, Tick, SessionMoves, Merge, ClaimAges, AttemptOverdue, vars, storeVars,
           runtimeVars, Workers

\* However issues are edited and however long creates take: an open claim keeps a
\* task that creates its session (_create_session), and one that has lost it gets
\* another from the first delivery of its issue after it is stale (claim_finding).
\* Only a death of the process and a create that ends in an exception (a reply that
\* does not decode, the UNIQUE index on devin_id) take the task away.
THEOREM ClaimsKeepCreators == Spec => ClaimKeepsCreator
  <1> DEFINE Keeps ==
        ~DryRun => \A k \in Keys : Left(k)' =>
          \/ Left(k) /\ ~StaleRedelivered(k)
          \/ GivenUp(k)
          \/ Restart
  <1>1. ASSUME Shape, [Next]_vars
        PROVE  Keeps
    <2> SUFFICES ASSUME ~DryRun, ~Restart
                 PROVE  \A k \in Keys : CreatorKept(k) \/ GivenUp(k)
      BY DEF CreatorKept
    <2>1. CASE \E t \in Tasks, n \in Issues, k \in Keys : IssueEvent(t, n, k)
      BY <1>1, <2>1, KeptByEvents
    <2>2. CASE Underway \/ (\E t \in Tasks, k \in Keys : PullRequestEvent(t, k)) \/ UNCHANGED vars
      <3>1. UNCHANGED delivered
        BY <2>2
           DEF Underway, PullRequestEvent, Handler, Poll, PollerLoop, ServePost, ServeGet,
               SessionMoves, Merge, ClaimAges, AttemptOverdue, vars, boundVars
      <3>2. \A k \in Keys : Left(k)' => Left(k) \/ GivenUp(k)
        <4>1. CASE \E t \in Tasks : Handler(t)
          BY <1>1, <4>1, KeptByAnswers, KeptByCreates DEF Handler
        <4>2. CASE \E w \in Workers : Poll(w)
          BY <1>1, <4>2, KeptByPolls
        <4> QED
          BY <1>1, <2>2, <4>1, <4>2, KeptElsewhere DEF Underway
      <3> QED
        BY <1>1, <3>1, <3>2, NotDelivered DEF CreatorKept
    <2> QED
      BY <1>1, <2>1, <2>2 DEF Next
  <1>2. Shape /\ [Next]_vars => [Keeps]_vars
    BY <1>1
  <1>3. Spec => [][Keeps]_vars
    <2> HIDE DEF Keeps
    <2> QED
      BY <1>2, ShapeInvariant, PTL DEF Spec
  <1> QED
    BY <1>3 DEF ClaimKeepsCreator

-----------------------------------------------------------------------------
(***************************************************************************)
(* The report only grows.                                                  *)
(***************************************************************************)
\* Where nobody else polls, what a poll will write is not behind the record.
Ahead(work, table) ==
    work.pc = "get" /\ work.reply # None =>
        table[work.key].acus_consumed <= work.reply.acus

RepliesAhead == \A w \in Workers : Ahead(worker[w], issues)

\* A poll's reply is the one it had, or the session as it is.
LEMMA RepliesServed ==
    ASSUME Shape, [Next]_vars
    PROVE  \A w \in Workers : worker'[w].pc = "get" /\ worker'[w].reply # None =>
              /\ worker[w].pc = "get" /\ worker'[w].key = worker[w].key
              /\ \/ worker'[w].reply = worker[w].reply
                 \/ UNCHANGED issues /\ worker'[w].reply = session[worker[w].issue]
  <1> DEFINE Kept(work, old) ==
               work.pc = "get" /\ work.reply # None =>
                 /\ old.pc = "get" /\ work.key = old.key
                 /\ \/ work.reply = old.reply
                    \/ UNCHANGED issues /\ work.reply = session[old.issue]
  <1>1. ASSUME NEW v \in Workers, NEW work, Continue(v, work), Kept(work, worker[v])
        PROVE  \A w \in Workers : Kept(worker'[w], worker[w])
    BY <1>1, WorkerChanged
  <1>2. ASSUME UNCHANGED worker
        PROVE  \A w \in Workers : Kept(worker'[w], worker[w])
    BY <1>2
  <1>3. ASSUME NEW v \in Workers, NEW work, Continue(v, work),
               work.pc # "get" \/ work.reply = None
        PROVE  \A w \in Workers : Kept(worker'[w], worker[w])
    BY <1>1, <1>3
  <1>4. ASSUME NEW v \in Workers, NEW pc, NEW k, NEW n,
               \/ Continue(v, Idle)
               \/ Continue(v, [Idle EXCEPT !.pc = pc, !.key = k, !.issue = n])
               \/ \E copy : Continue(v, [Idle EXCEPT !.pc = pc, !.key = k, !.issue = n,
                                                     !.copy = copy])
        PROVE  \A w \in Workers : Kept(worker'[w], worker[w])
    <2>1. /\ Idle.reply = None
          /\ [Idle EXCEPT !.pc = pc, !.key = k, !.issue = n].reply = None
          /\ \A copy : [Idle EXCEPT !.pc = pc, !.key = k, !.issue = n, !.copy = copy].reply = None
      BY DEF Idle
    <2> QED
      BY <1>3, <1>4, <2>1
  <1>5. ASSUME NEW v \in Workers, Return(v) \/ \E k, n : CreateSession(v, k, n)
        PROVE  \A w \in Workers : Kept(worker'[w], worker[w])
    BY <1>4, <1>5 DEF Return, CreateSession
  <1>6. ASSUME NEW t \in Tasks, PullRequestAnswered(t) \/ IssueAnswered(t)
        PROVE  \A w \in Workers : Kept(worker'[w], worker[w])
    <2>1. t \in Workers /\ [worker[t] EXCEPT !.pc = "ask_issue"].pc # "get"
      BY DEF Shape, TypeOK, RuntimeTypeOK, Work, Workers
    <2> QED
      BY <1>3, <1>5, <1>6, <2>1 DEF PullRequestAnswered, IssueAnswered, Skip, Reclaim
  <1>7. ASSUME NEW t \in Tasks, NEW n \in Issues, NEW k \in Keys, HandleIssueEvent(t, n, k)
        PROVE  \A w \in Workers : Kept(worker'[w], worker[w])
    <2>1. t \in Workers
      BY DEF Workers
    <2>2. CASE Question(t, n, k)
      BY <1>4, <2>1, <2>2 DEF Question
    <2> QED
      BY <1>2, <1>5, <1>7, <2>1, <2>2
         DEF HandleIssueEvent, Acquire, Resume, IgnoreRedelivery, SkipLive
  <1>8. ASSUME NEW t \in Tasks, NEW k \in Keys, PullRequestEvent(t, k)
        PROVE  \A w \in Workers : Kept(worker'[w], worker[w])
    BY <1>4, <1>8 DEF PullRequestEvent, HandlePullRequestEvent, StartPoll, Workers
  <1>9. ASSUME NEW k \in Keys, PollNext(k)
        PROVE  \A w \in Workers : Kept(worker'[w], worker[w])
    BY <1>4, <1>9, Parts DEF PollNext
  <1>10. ASSUME NEW v \in Workers, ServeGet(v) \/ (v \in Tasks /\ ServePost(v))
         PROVE  \A w \in Workers : Kept(worker'[w], worker[w])
    <2>1. worker \in [Workers -> Work] /\ worker[v] \in Work
      BY DEF Shape, TypeOK, RuntimeTypeOK
    <2>2. /\ \A w \in Workers \ {v} : worker'[w] = worker[w]
          /\ Kept(worker'[v], worker[v])
      BY <1>10, <2>1 DEF ServeGet, ServePost, Work, storeVars
    <2> QED
      BY <2>2
  <1>11. ASSUME Restart
         PROVE  \A w \in Workers : Kept(worker'[w], worker[w])
    BY <1>11, IdleHasNoReply DEF Restart
  <1>12. \A w \in Workers : Kept(worker'[w], worker[w])
    <2>1. CASE \E v \in Workers : Poll(v)
      BY <1>5, <2>1 DEF Poll, PollAnswered, PollUnreachable, PollRefused, PollUndecodable
    <2>2. CASE \E t \in Tasks : Handler(t)
      BY <1>5, <1>6, <2>2 DEF Handler, SessionCreated, CreateFailed, CreateUndecodable, Workers
    <2>3. CASE \E t \in Tasks, n \in Issues, k \in Keys : IssueEvent(t, n, k)
      BY <1>7, <2>3 DEF IssueEvent
    <2>4. CASE \/ \E t \in Tasks : ServePost(t)
               \/ \E w \in Workers : ServeGet(w)
      BY <1>10, <2>4 DEF Workers
    <2> QED
      BY <1>2, <1>8, <1>9, <1>11, <2>1, <2>2, <2>3, <2>4
         DEF Next, Underway, PollerLoop, Tick, SessionMoves, Merge, ClaimAges, AttemptOverdue,
             vars, runtimeVars
  <1> QED
    BY <1>12

\* The record that is polled is tracked: only its poll writes it.
LEMMA AheadKept ==
    ASSUME OnlyThePollerPolls, Shape, CopiesCurrent, Owned, RowsMove, [Next]_vars,
           NEW w \in Workers, worker[w].pc = "get", worker[w].reply # None,
           issues[worker[w].key].acus_consumed <= worker[w].reply.acus
    PROVE  issues'[worker[w].key].acus_consumed <= worker[w].reply.acus
  <1> DEFINE k == worker[w].key
             row == issues'[k]
  <1>1. k \in Keys
    BY DEF Shape, WorkersOnClaims, OnClaim
  <1>2. Claimed(k) /\ ~Settled(issues[k]) /\ issues[k].devin_id # None
    BY <1>1, WorkIsOwned DEF Tied, Claimed
  <1>3. issues[k].acus_consumed <= worker[w].reply.acus /\ worker[w].reply.acus \in Nat
    <2>1. worker[w].reply \in Payloads
      BY DEF Shape, TypeOK, RuntimeTypeOK, Work
    <2> QED
      BY <2>1 DEF Payload
  <1>4. row = issues[k] \/ row.devin_id # None
    BY <1>1, <1>2, OneRowMoves DEF Moves, Opens, Reopens, Answers, Records
  <1>5. ASSUME NEW v \in Workers, PolledBy(worker[v], k, row)
        PROVE  row.acus_consumed <= worker[w].reply.acus
    <2>1. v = w
      BY <1>5 DEF PolledBy, Owned, WhoPolls, PollerAlone, Workers
    <2> QED
      BY <1>3, <1>5, <2>1 DEF PolledBy
  <1>6. ASSUME NEW t \in Tasks, Created(t, k, row)
        PROVE  FALSE
    BY <1>1, <1>2, <1>6, WorkIsOwned DEF Created
  <1>7. row = issues[k] \/ Fate(k, row)
    BY <1>1, FatesStep DEF Fates
  <1>8. CASE row = issues[k]
    BY <1>3, <1>8
  <1>9. CASE row.devin_id # None /\ Fate(k, row)
    BY <1>5, <1>6, <1>9 DEF Fate, Begins
  <1> QED
    BY <1>4, <1>7, <1>8, <1>9

LEMMA AheadStep ==
    ASSUME OnlyThePollerPolls, Shape, CopiesCurrent, Owned, RowsMove, AcusHappened, RepliesAhead,
           [Next]_vars
    PROVE  RepliesAhead'
  <1> SUFFICES ASSUME NEW w \in Workers, worker'[w].pc = "get", worker'[w].reply # None
               PROVE  issues'[worker'[w].key].acus_consumed <= worker'[w].reply.acus
    BY DEF RepliesAhead, Ahead
  <1>1. /\ worker[w].pc = "get" /\ worker'[w].key = worker[w].key
        /\ \/ worker'[w].reply = worker[w].reply
           \/ UNCHANGED issues /\ worker'[w].reply = session[worker[w].issue]
    BY RepliesServed
  <1>2. CASE worker'[w].reply = worker[w].reply
    <2>1. worker[w].reply # None
      BY <1>2
    <2>2. issues[worker[w].key].acus_consumed <= worker[w].reply.acus
      BY <1>1, <2>1 DEF RepliesAhead, Ahead
    <2>3. issues'[worker[w].key].acus_consumed <= worker[w].reply.acus
      BY <1>1, <2>1, <2>2, AheadKept
    <2> QED
      BY <1>1, <1>2, <2>3
  <1>3. CASE UNCHANGED issues /\ worker'[w].reply = session[worker[w].issue]
    <2>1. worker[w].key \in Keys
      BY <1>1 DEF Shape, WorkersOnClaims, OnClaim
    <2>2. LET row == issues[worker[w].key]
          IN  row # None /\ row.devin_id # None /\ worker[w].issue = row.devin_id
      BY <1>1, <2>1, WorkIsOwned DEF Tied
    <2> QED
      BY <1>1, <1>3, <2>1, <2>2 DEF AcusHappened, Consumed, Claimed
  <1> QED
    BY <1>1, <1>2, <1>3

LEMMA AheadInvariant ==
    ASSUME Orderly, OnlyThePollerPolls
    PROVE  Spec => []RepliesAhead
  <1>1. Init => RepliesAhead
    BY DEF Init, RuntimeInit, RepliesAhead, Ahead, Idle
  <1>2. /\ Shape /\ Parsed /\ CopiesCurrent /\ (Owned /\ ResultsAreOwn) /\ AcusHappened
        /\ RepliesAhead /\ [Next]_vars
        => RepliesAhead'
    <2> SUFFICES ASSUME Shape, Parsed, CopiesCurrent, Owned, ResultsAreOwn, AcusHappened,
                        RepliesAhead, [Next]_vars
                 PROVE  RepliesAhead'
      OBVIOUS
    <2>1. RowsMove
      BY OwnedStep
    <2> QED
      BY <2>1, AheadStep
  <1> QED
    BY <1>1, <1>2, ShapeInvariant, ParsedInvariant, CopiesInvariant, OwnedInvariant,
       AcusInvariant, PTL DEF Spec

\* What the report counts of a record.
Gains(k, row, old) ==
    /\ row.devin_id # None \/ row.outcome # "in_progress"
    /\ old.pr_url # None => row.pr_url # None
    /\ old.acus_consumed <= row.acus_consumed
    /\ Settled(old) => row.outcome = old.outcome

LEMMA RecordGains ==
    ASSUME OnlyThePollerPolls, Shape, CopiesCurrent, Owned, RowsMove, RepliesAhead, [Next]_vars,
           NEW k \in Reported, ~Reopened(k)
    PROVE  issues'[k] # None /\ Gains(k, issues'[k], issues[k])
  <1> DEFINE row == issues'[k]
             old == issues[k]
  <1>1. k \in Keys /\ Claimed(k) /\ old \in Row
    BY ClaimedRow DEF Reported, Shape, TypeOK
  <1>2. old.acus_consumed \in Nat /\ None \notin Row
    BY <1>1, Parts DEF Row
  <1>3. CASE row = old
    BY <1>1, <1>2, <1>3 DEF Gains, Reported, Claimed
  <1>4. CASE row \in Row /\ Records(k, row)
    <2>1. /\ old.devin_id # None /\ row.devin_id = old.devin_id
          /\ ~Settled(old)
      BY <1>4 DEF Records
    <2>2. row = old \/ Fate(k, row)
      BY <1>1, FatesStep DEF Fates
    <2>3. ASSUME NEW w \in Workers, PolledBy(worker[w], k, row)
          PROVE  Gains(k, row, old)
      <3>1. worker[w].pc = "get" /\ worker[w].key = k
        BY <2>3 DEF PolledBy
      <3>2. worker[w].copy = old
        BY <1>1, <3>1, WorkIsOwned DEF Tied
      <3>3. worker[w].reply # None => old.acus_consumed <= worker[w].reply.acus
        BY <3>1 DEF RepliesAhead, Ahead
      <3>4. old.acus_consumed <= row.acus_consumed
        BY <1>2, <2>3, <3>3 DEF PolledBy
      <3>5. old.pr_url # None => row.pr_url # None
        BY <2>1, <2>3, <3>2 DEF PolledBy
      <3> QED
        BY <2>1, <3>4, <3>5 DEF Gains
    <2>4. ASSUME NEW t \in Tasks, Created(t, k, row)
          PROVE  FALSE
      BY <1>1, <2>1, <2>4, WorkIsOwned DEF Created
    <2> QED
      BY <1>2, <1>3, <1>4, <2>1, <2>2, <2>3, <2>4 DEF Fate, Begins
  <1>5. CASE row \in Row /\ Reopens(k, row)
    BY <1>1, <1>5 DEF Reopens, Reopened
  <1>6. CASE row \in Row /\ Answers(k, row)
    BY <1>1, <1>6 DEF Answers, Reported, Row, Outcomes, Settled
  <1> QED
    BY <1>1, <1>3, <1>4, <1>5, <1>6, OneRowMoves DEF Moves, Opens

\* Totals of a part are no more than those of the whole, and grow with it.
LEMMA TotalsGrow ==
    ASSUME IsFiniteSet(Keys), Shape, Shape',
           \A k \in Reported : issues'[k] # None /\ Gains(k, issues'[k], issues[k])
    PROVE  /\ issues_addressed' >= issues_addressed
           /\ prs_opened' >= prs_opened
           /\ total_acus' >= total_acus
           /\ \A outcome \in TERMINAL_OUTCOMES : Breakdown'[outcome] >= Breakdown[outcome]
  <1>1. ASSUME NEW S \in SUBSET Keys, NEW R \in SUBSET S
        PROVE  Cardinality(S) >= Cardinality(R)
    <2>1. /\ IsFiniteSet(S) /\ IsFiniteSet(R)
          /\ Cardinality(R) \in Nat /\ Cardinality(S) \in Nat
      BY FS_Subset, FS_CardinalityType
    <2>2. Cardinality(R) <= Cardinality(S)
      BY <2>1, FS_Subset
    <2> QED
      BY <2>1, <2>2
  <1>2. /\ Reported \in SUBSET Keys /\ Reported' \in SUBSET Keys
        /\ Reported \in SUBSET Reported'
    BY DEF Reported, Gains, Claimed
  <1>3. issues_addressed' >= issues_addressed
    BY <1>1, <1>2 DEF issues_addressed
  <1>4. prs_opened' >= prs_opened
    <2> DEFINE R == {k \in Reported : issues[k].pr_url # None}
               S == {k \in Reported' : issues'[k].pr_url # None}
    <2>1. S \in SUBSET Keys /\ R \in SUBSET S
      BY <1>2 DEF Gains
    <2>2. prs_opened = Cardinality(R) /\ prs_opened' = Cardinality(S)
      BY DEF prs_opened
    <2> HIDE DEF R, S
    <2> QED
      BY <1>1, <2>1, <2>2
  <1>5. ASSUME NEW outcome \in TERMINAL_OUTCOMES
        PROVE  Breakdown'[outcome] >= Breakdown[outcome]
    <2> DEFINE R == {k \in Reported : issues[k].outcome = outcome}
               S == {k \in Reported' : issues'[k].outcome = outcome}
    <2>1. S \in SUBSET Keys /\ R \in SUBSET S
      BY <1>2 DEF Gains, Settled
    <2>2. Breakdown[outcome] = Cardinality(R) /\ Breakdown'[outcome] = Cardinality(S)
      BY DEF Breakdown, Outcomes
    <2> HIDE DEF R, S
    <2> QED
      BY <1>1, <2>1, <2>2
  <1>6. total_acus' >= total_acus
    <2> DEFINE R == Reported
               S == Reported'
               F == [k \in R |-> issues[k].acus_consumed]
               G == [k \in S |-> issues'[k].acus_consumed]
    <2>1. \A k \in R : k \in S /\ F[k] \in Nat /\ F[k] <= G[k]
      <3> SUFFICES ASSUME NEW k \in R PROVE k \in S /\ F[k] \in Nat /\ F[k] <= G[k]
        OBVIOUS
      <3>1. k \in S /\ issues[k] \in Row /\ Gains(k, issues'[k], issues[k])
        BY <1>2, ClaimedRow DEF Reported, Shape, TypeOK
      <3> QED
        BY <3>1 DEF Gains, Row
    <2>2. \A k \in S : G[k] \in Nat
      <3> SUFFICES ASSUME NEW k \in S PROVE issues'[k].acus_consumed \in Nat
        OBVIOUS
      <3>1. issues' \in [Keys -> Row \cup {None}]
        BY DEF Shape, TypeOK, StoreTypeOK
      <3>2. issues'[k] \in Row
        BY <3>1 DEF Reported, Claimed
      <3> QED
        BY <3>2 DEF Row
    <2>3. IsFiniteSet(S) /\ R \in SUBSET S
      BY <1>2, FS_Subset
    <2>4. total_acus = SumFunctionOnSet(F, R) /\ total_acus' = SumFunctionOnSet(G, S)
      BY DEF total_acus
    <2>5. SumFunctionOnSet(F, R) \in Int /\ SumFunctionOnSet(G, S) \in Int
      <3>1. IsFiniteSet(R)
        BY <1>2, FS_Subset
      <3>2. Numbers(F, R) /\ Numbers(G, S)
        <4> HIDE DEF R, S, F, G
        <4> QED
          BY <2>1, <2>2 DEF Numbers
      <3> HIDE DEF R, S, F, G
      <3> QED
        BY <2>3, <3>1, <3>2, SumType
    <2>6. SumFunctionOnSet(F, R) <= SumFunctionOnSet(G, S)
      <3> HIDE DEF R, S, F, G
      <3> QED
        BY <2>1, <2>2, <2>3, SumGrows
    <2> HIDE DEF R, S, F, G
    <2> QED
      BY <2>4, <2>5, <2>6
  <1> QED
    BY <1>3, <1>4, <1>5, <1>6

\* Where only the poller polls and creates end before their claims are stale, the
\* totals of the report (build_metrics) are running totals: no restart, and no answer
\* to the poller however long under way, takes anything off them, only a finding
\* that is claimed again does.
THEOREM ReportGrows ==
    ASSUME Orderly, OnlyThePollerPolls, IsFiniteSet(Keys)
    PROVE  Spec => ReportOnlyGrows
  <1> DEFINE Grows ==
        pulled = 0 /\ ~CreateOutlivesClaim /\ (\A k \in Keys : ~Reopened(k)) =>
          /\ issues_addressed' >= issues_addressed
          /\ prs_opened' >= prs_opened
          /\ total_acus' >= total_acus
          /\ \A outcome \in TERMINAL_OUTCOMES : Breakdown'[outcome] >= Breakdown[outcome]
  <1>1. /\ Shape /\ Shape' /\ Parsed /\ CopiesCurrent /\ (Owned /\ ResultsAreOwn)
        /\ RepliesAhead /\ [Next]_vars
        => [Grows]_vars
    <2> SUFFICES ASSUME Shape, Shape', Parsed, CopiesCurrent, Owned, ResultsAreOwn, RepliesAhead,
                        [Next]_vars, \A k \in Keys : ~Reopened(k)
                 PROVE  Grows
      OBVIOUS
    <2>1. RowsMove
      BY OwnedStep
    <2>2. \A k \in Reported : k \in Keys
      BY DEF Reported
    <2>3. \A k \in Reported : issues'[k] # None /\ Gains(k, issues'[k], issues[k])
      BY <2>1, <2>2, RecordGains
    <2> QED
      BY <2>3, TotalsGrow
  <1>2. Spec => [][Grows]_vars
    <2> HIDE DEF Grows
    <2> QED
      BY <1>1, ShapeInvariant, ParsedInvariant, CopiesInvariant, OwnedInvariant, AheadInvariant,
         PTL DEF Spec
  <1> QED
    BY <1>2 DEF ReportOnlyGrows

=============================================================================
