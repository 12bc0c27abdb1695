---------------------------- MODULE DevinSession ----------------------------
(***************************************************************************)
(* What the Devin API says of a session (a payload of get_session) and how *)
(* the poller reads it: _pr_url and classify of app/poller.py.             *)
(*                                                                         *)
(* A payload keeps the fields the code branches on.  status_detail is      *)
(* "finished", "error", a cost or quota reason ("budget", standing for the *)
(* members of BUDGET_STATUS_DETAILS) or anything else ("other", standing   *)
(* for null and for "working").  structured is the structured output: None *)
(* when it is absent or empty, else whether it says fixed and whether it   *)
(* carries a pr_url.  pulls says whether pull_requests names one.          *)
(***************************************************************************)
EXTENDS Integers

CONSTANTS
    None,             \* no value: SQL NULL, the empty string, Python's None
    MAX_ACU_LIMIT,    \* the cost cap a session is created with
    TERMINAL_ON_PR    \* settle a session as soon as it has a pull request

Statuses == {"new", "running", "suspended", "exit", "error"}
Details == {"other", "finished", "error", "budget"}
StructuredOutput == [fixed : BOOLEAN, pr : BOOLEAN]

Payload == [status : Statuses, detail : Details,
            structured : StructuredOutput \cup {None},
            pulls : BOOLEAN, acus : Nat]

\* What POST answers for a session it has just created.
Fresh == [status |-> "new", detail |-> "other", structured |-> None,
          pulls |-> FALSE, acus |-> 0]

ASSUME DevinAssumption ==
    /\ MAX_ACU_LIMIT \in Nat
    /\ TERMINAL_ON_PR \in BOOLEAN
    /\ None \notin StructuredOutput

(***************************************************************************)
(* Outcomes of a record (app/store.py).                                    *)
(***************************************************************************)
TERMINAL_OUTCOMES ==
    {"succeeded", "declined", "failed", "blocked_on_budget", "timed_out", "errored"}
RECLAIMABLE_OUTCOMES == {"failed", "timed_out", "errored"}
Outcomes == TERMINAL_OUTCOMES \cup {"in_progress"}

(***************************************************************************)
(* A pull request is named by the structured output or by pull_requests.   *)
(***************************************************************************)
HasPullRequest(p) == p.pulls \/ (p.structured # None /\ p.structured.pr)

Erred(p) == p.status = "error" \/ p.detail = "error"

StoppedOnBudget(p) ==
    \/ p.status = "suspended" /\ p.detail = "budget"
    \/ /\ p.status \in {"suspended", "exit"}
       /\ p.acus >= MAX_ACU_LIMIT
       /\ p.structured = None

Delivered(p) == TERMINAL_ON_PR /\ HasPullRequest(p)

Finished(p) == p.status = "exit" \/ p.detail = "finished"

Fixed(p) == p.structured # None /\ p.structured.fixed

(***************************************************************************)
(* The tests are made in this order; None: the session still runs.         *)
(***************************************************************************)
classify_AnyEnd(p) ==   \* mutant of classify: any end that is not an error is a success
    IF Erred(p) THEN "failed"
    ELSE IF StoppedOnBudget(p) THEN "blocked_on_budget"
    ELSE IF Delivered(p) \/ Finished(p) THEN "succeeded" ELSE None

classify(p) ==
    IF Erred(p) THEN "failed"
    ELSE IF StoppedOnBudget(p) THEN "blocked_on_budget"
    ELSE IF Delivered(p) THEN "succeeded"
    ELSE IF ~Finished(p) THEN None
    ELSE IF Fixed(p) THEN "succeeded" ELSE "declined"

(***************************************************************************)
(* How a session may move between two looks at it (the service, not this   *)
(* program): ACUs only accumulate, a pull request once opened stays in the *)
(* payload, and a session that exited or failed does not run again.        *)
(***************************************************************************)
Ended(p) == p.status \in {"exit", "error"}

MayBecome(p, q) ==
    /\ ~Ended(p)
    /\ q.status # "new"
    /\ q.acus >= p.acus
    /\ p.pulls => q.pulls
    /\ p.structured # None => q.structured # None
=============================================================================
