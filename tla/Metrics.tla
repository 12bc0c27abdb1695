------------------------------- MODULE Metrics -------------------------------
(***************************************************************************)
(* app/metrics.py: the numbers build_metrics draws from the tables for     *)
(* /status and the report, and what they promise.  Ratios, elapsed times   *)
(* and the layout of the report are left out.                              *)
(***************************************************************************)
EXTENDS Service, FiniteSetsExt

\* The records that count: those with a session, and failures to create one.
Reported ==
    {k \in Keys : /\ Claimed(k)
                  /\ \/ issues[k].devin_id # None
                     \/ issues[k].outcome # "in_progress"}

Breakdown ==
    [outcome \in Outcomes |->
        Cardinality({k \in Reported : issues[k].outcome = outcome})]

issues_addressed == Cardinality(Reported)
prs_opened == Cardinality({k \in Reported : issues[k].pr_url # None})

total_acus == SumFunctionOnSet([k \in Reported |-> issues[k].acus_consumed], Reported)

(***************************************************************************)
(* A new attempt, or a retried creation, takes its record out of the       *)
(* report until it has a session.                                          *)
(***************************************************************************)
Reopened(k) ==
    /\ Claimed(k)
    /\ Settled(issues[k])
    /\ ~Settled(issues'[k])
    /\ issues'[k].devin_id = None

\* "Issues addressed", "PRs opened", "Total ACUs consumed" and the settled rows
\* of the outcome breakdown are running totals: no restart, and no answer to the
\* poller however long under way, takes anything off them, only a finding that is
\* opened again takes off what its last attempt added.  For as long as only the
\* poller polls, and creates end before their claims are stale: the late answer of
\* a pull request webhook's poll, or of a create, may lower what was reported.
ReportOnlyGrows ==
    [][pulled = 0 /\ ~CreateOutlivesClaim /\ (\A k \in Keys : ~Reopened(k)) =>
          /\ issues_addressed' >= issues_addressed
          /\ prs_opened' >= prs_opened
          /\ total_acus' >= total_acus
          /\ \A outcome \in TERMINAL_OUTCOMES : Breakdown'[outcome] >= Breakdown[outcome]]_vars
=============================================================================
