------------------------------- MODULE Store -------------------------------
(***************************************************************************)
(* app/store.py: the SQLite tables and the transactions on them.  Each     *)
(* operator below that primes a variable is one BEGIN IMMEDIATE ... COMMIT *)
(* (or one autocommitted statement).                                       *)
(*                                                                         *)
(* The clock is abstracted twice.  `stale` holds the keys whose row was    *)
(* last written more than STALE_CLAIM_SECONDS ago.  `copies` holds, for a  *)
(* key, the tasks that read the row and whose copy still carries the row's *)
(* updated_at: every write to a row stamps a new updated_at, so it empties *)
(* the set.  created_at is the number of the attempt it starts.            *)
(***************************************************************************)
EXTENDS DevinSession, FiniteSets

CONSTANTS
    Keys,    \* finding keys: the PRIMARY KEY of the issues table
    Issues,  \* GitHub issue numbers
    Tasks    \* background tasks of the web server, one per webhook in flight

VARIABLES
    issues,        \* finding_key -> row, None where there is no row
    dedup_events,  \* the rows of dedup_events
    event_seq,     \* AUTOINCREMENT: the last id dedup_events gave out
    counters,      \* the counters table
    copies,        \* finding_key -> tasks whose copy of the row is current
    stale          \* keys whose row is older than STALE_CLAIM_SECONDS

storeVars == <<issues, dedup_events, event_seq, counters, copies, stale>>

\* devin_id is the issue number the deterministic id was built from, pr_url
\* the issue number whose session opened the pull request.
Row == [issue : Issues, outcome : Outcomes, devin_id : Issues \cup {None},
        pr_url : Issues \cup {None}, acus_consumed : Nat, created_at : Nat \ {0}]

Event == [id : Nat \ {0}, key : Keys, issue : Issues,
          scenario : {"redelivery", "duplicate_finding"}]

Counters == [dedup_skips : Int, redeliveries_ignored : Nat,
             findings_reclaimed : Nat, sessions_reused_409 : Nat]

ASSUME StoreAssumption ==
    /\ None \notin Issues
    /\ None \notin Keys
    /\ None \notin Row
    /\ None \notin Tasks

StoreTypeOK ==
    /\ issues \in [Keys -> Row \cup {None}]
    /\ dedup_events \subseteq Event
    /\ event_seq \in Nat
    /\ counters \in Counters
    /\ copies \in [Keys -> SUBSET Tasks]
    /\ stale \subseteq Keys

StoreInit ==
    /\ issues = [k \in Keys |-> None]
    /\ dedup_events = {}
    /\ event_seq = 0
    /\ counters = [dedup_skips |-> 0, redeliveries_ignored |-> 0,
                   findings_reclaimed |-> 0, sessions_reused_409 |-> 0]
    /\ copies = [k \in Keys |-> {}]
    /\ stale = {}

Claimed(k) == issues[k] # None
Settled(row) == row.outcome \in TERMINAL_OUTCOMES

\* Mutant of NonTerminal: the outcome filter is missing.
NonTerminal_Any == {k \in Keys : Claimed(k) /\ issues[k].devin_id # None}

\* What non_terminal() selects: the records the poller tracks.
NonTerminal == {k \in Keys : /\ Claimed(k)
                             /\ ~Settled(issues[k])
                             /\ issues[k].devin_id # None}

(***************************************************************************)
(* Writing a row.                                                          *)
(***************************************************************************)
update(k, row) ==
    /\ issues' = [issues EXCEPT ![k] = row]
    /\ copies' = [copies EXCEPT ![k] = {}]
    /\ stale' = stale \ {k}

\* A row as a claim leaves it: inserted with the defaults, or with the results
\* of the previous attempt cleared.
Attempt(n, created) ==
    [issue |-> n, outcome |-> "in_progress", devin_id |-> None,
     pr_url |-> None, acus_consumed |-> 0, created_at |-> created]

\* Mutant of Log: the id is the counter before the increment.
Log_OldId(k, n, scenario) ==
    /\ event_seq' = event_seq + 1
    /\ dedup_events' = dedup_events \cup
          {[id |-> event_seq, key |-> k, issue |-> n, scenario |-> scenario]}

Log(k, n, scenario) ==
    /\ event_seq' = event_seq + 1
    /\ dedup_events' = dedup_events \cup
          {[id |-> event_seq + 1, key |-> k, issue |-> n, scenario |-> scenario]}

(***************************************************************************)
(* claim_finding, one operator per way out of it.                          *)
(***************************************************************************)
\* Mutant of Abandoned: any claim without a session counts as abandoned.
Abandoned_AtOnce(k) == issues[k].devin_id = None

\* No session was recorded and nothing was written for STALE_CLAIM_SECONDS.
Abandoned(k) == issues[k].devin_id = None /\ k \in stale

ClaimNew(k, n) ==
    /\ ~Claimed(k)
    /\ update(k, Attempt(n, 1))
    /\ UNCHANGED <<dedup_events, event_seq, counters>>

\* The row keeps its created_at, and whatever else the attempt wrote.
ClaimResumed(k, n) ==
    /\ Claimed(k)
    /\ issues[k].issue = n
    /\ Abandoned(k)
    /\ update(k, [issues[k] EXCEPT !.outcome = "in_progress"])
    /\ UNCHANGED <<dedup_events, event_seq, counters>>

ClaimRedelivery(k, n) ==
    /\ Claimed(k)
    /\ issues[k].issue = n
    /\ ~Abandoned(k)
    /\ Log(k, n, "redelivery")
    /\ counters' = [counters EXCEPT !.dedup_skips = @ + 1,
                                    !.redeliveries_ignored = @ + 1]
    /\ UNCHANGED <<issues, stale>>

ClaimDuplicate(k, n) ==
    /\ Claimed(k)
    /\ issues[k].issue # n
    /\ issues[k].outcome \notin RECLAIMABLE_OUTCOMES
    /\ Log(k, n, "duplicate_finding")
    /\ counters' = [counters EXCEPT !.dedup_skips = @ + 1]
    /\ UNCHANGED <<issues, stale>>

\* Mutant of ClaimReclaimed: the attempt's clock is not restarted.
ClaimReclaimed_OldClock(k, n) ==
    /\ Claimed(k)
    /\ issues[k].issue # n
    /\ issues[k].outcome \in RECLAIMABLE_OUTCOMES
    /\ update(k, Attempt(n, issues[k].created_at))
    /\ UNCHANGED <<dedup_events, event_seq, counters>>

ClaimReclaimed(k, n) ==
    /\ Claimed(k)
    /\ issues[k].issue # n
    /\ issues[k].outcome \in RECLAIMABLE_OUTCOMES
    /\ update(k, Attempt(n, issues[k].created_at + 1))
    /\ UNCHANGED <<dedup_events, event_seq, counters>>

(***************************************************************************)
(* reclaim_finding: take over a settled row, provided that nobody wrote it *)
(* since task t read it, and take back t's provisional skip.               *)
(***************************************************************************)
Provisional(k, n) ==
    {e \in dedup_events : /\ e.key = k
                          /\ e.issue = n
                          /\ e.scenario = "duplicate_finding"}

\* Mutant of Latest: DELETE without the MAX(id) subquery.
Latest_All(events) == events

Latest(events) == {e \in events : \A f \in events : f.id <= e.id}

\* Mutant of Unchanged: UPDATE without the updated_at condition.
Unchanged_Ignored(t, k) == TRUE

Unchanged(t, k) == t \in copies[k]   \* WHERE ... updated_at = expected

\* Mutant of ReclaimWon: pr_url is not cleared.
ReclaimWon_KeepPr(t, k, n) ==
    /\ Unchanged(t, k)
    /\ update(k, [Attempt(n, issues[k].created_at + 1) EXCEPT !.pr_url = issues[k].pr_url])
    /\ dedup_events' = dedup_events \ Latest(Provisional(k, n))
    /\ counters' = [counters EXCEPT !.dedup_skips = @ - 1,
                                    !.findings_reclaimed = @ + 1]
    /\ UNCHANGED event_seq

ReclaimWon(t, k, n) ==
    /\ Unchanged(t, k)
    /\ update(k, Attempt(n, issues[k].created_at + 1))
    /\ dedup_events' = dedup_events \ Latest(Provisional(k, n))
    /\ counters' = [counters EXCEPT !.dedup_skips = @ - 1,
                                    !.findings_reclaimed = @ + 1]
    /\ UNCHANGED event_seq

ReclaimLost(t, k) ==
    /\ ~Unchanged(t, k)
    /\ UNCHANGED storeVars
=============================================================================
