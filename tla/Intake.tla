------------------------------- MODULE Intake -------------------------------
(***************************************************************************)
(* app/webhook.py: the webhook server in front of the service.  A request  *)
(* is checked, counted and gated in one go (nothing is awaited after its   *)
(* body), answered 200, and only then handled by a background task, for    *)
(* which app/findings.py names the finding.                                *)
(*                                                                         *)
(* A background task is a slot of Tasks: it holds the delivery until its   *)
(* task begins, and is the worker of Service from then on.                 *)
(***************************************************************************)
EXTENDS Metrics, Findings

CONSTANTS
    Deliveries,    \* the requests GitHub, or anybody, may send
    Defect,        \* issue -> the defect its body is about (for the properties)
    MaxDeliveries  \* bound: requests

VARIABLES
    inbox,     \* task -> the accepted delivery it has not begun to handle
    webhooks,  \* the rows webhooks_received and webhooks_ignored of counters
    sent,      \* requests so far
    lost       \* accepted deliveries that a restart took before they began

intakeVars == <<inbox, webhooks, sent, lost>>

TRIGGER_ACTIONS == {"opened", "labeled"}
PR_TRIGGER_ACTIONS == {"opened", "reopened", "ready_for_review"}
Actions == TRIGGER_ACTIONS \cup PR_TRIGGER_ACTIONS \cup {"closed"}

\* signed: the signature is right; json: the body is a JSON object, JSON of
\* another kind, or cannot be read; ours: it is about
\* the target repository; added: the label just added is the trigger label;
\* labels: the issue has the trigger label; refs: the #n of a pull request's
\* title and body, in order.
Delivery ==
    [event : {"issues", "pull_request", "other"}, signed : BOOLEAN,
     json : {"object", "other", "unreadable"},
     ours : BOOLEAN, action : Actions, added : BOOLEAN, labels : BOOLEAN,
     issue : Issues \cup {None}, body : Seq(Line), refs : Seq(Issues)]

ASSUME IntakeAssumption ==
    /\ Deliveries \subseteq Delivery
    /\ MaxDeliveries \in Nat
    /\ None \notin Delivery
    /\ \A d \in Deliveries :
          d.event = "issues" =>
              /\ d.issue \in Issues
              /\ finding_key(parse_finding(d.body)) \in Body[d.issue]

IntakeInit ==
    /\ Init
    /\ inbox = [t \in Tasks |-> None]
    /\ webhooks = [received |-> 0, ignored |-> 0]
    /\ sent = 0
    /\ lost = 0

(***************************************************************************)
(* The gates.                                                              *)
(***************************************************************************)
should_handle(d) ==
    /\ d.ours
    /\ d.action \in TRIGGER_ACTIONS
    /\ d.action = "labeled" => d.added
    /\ d.labels

\* get_by_issue takes the row written last; an edited issue may have several,
\* and which of them that is is not kept: any.
get_by_issue(n) == {k \in Keys : Claimed(k) /\ issues[k].issue = n}

\* The record a pull request stands for: that of the first issue it names that
\* has one, None if there is none.
referenced_issue(d) ==
    LET known == {i \in DOMAIN d.refs : get_by_issue(d.refs[i]) # {}}
    IN  IF known = {} THEN {None} ELSE get_by_issue(d.refs[Min(known)])

should_handle_pull_request(d, k) ==
    /\ d.ours
    /\ d.action \in PR_TRIGGER_ACTIONS
    /\ k # None
    /\ ~Settled(issues[k])

\* k is the record that was looked up, if the event is a pull request.
Passes(d, k) ==
    \/ d.event = "issues" /\ should_handle(d)
    \/ d.event = "pull_request" /\ should_handle_pull_request(d, k)

(***************************************************************************)
(* The webhook handler, one action per answer.                             *)
(***************************************************************************)
Request(d) ==
    /\ sent < MaxDeliveries
    /\ sent' = sent + 1
    /\ UNCHANGED <<vars, lost>>

\* The body is one the gates can look at.
Legible(d) == d.signed /\ d.json = "object"

\* 401 or 400, or 500 for a body that is not UTF-8: nothing is counted.
Refuse(d) ==
    /\ Request(d)
    /\ ~d.signed \/ d.json = "unreadable"
    /\ UNCHANGED <<inbox, webhooks>>

\* 500: JSON that is no object is counted before payload.get raises.
Fail(d) ==
    /\ Request(d)
    /\ d.signed /\ d.json = "other"
    /\ webhooks' = [webhooks EXCEPT !.received = @ + 1]
    /\ UNCHANGED inbox

\* 200, and nothing comes of it.
Ignore(d) ==
    /\ Request(d)
    /\ Legible(d)
    /\ \E k \in referenced_issue(d) : ~Passes(d, k)
    /\ webhooks' = [webhooks EXCEPT !.received = @ + 1, !.ignored = @ + 1]
    /\ UNCHANGED inbox

\* 200, and a background task.
Accept(t, d) ==
    /\ Request(d)
    /\ Legible(d)
    /\ \E k \in referenced_issue(d) : Passes(d, k)
    /\ inbox[t] = None /\ worker[t] = Idle
    /\ inbox' = [inbox EXCEPT ![t] = d]
    /\ webhooks' = [webhooks EXCEPT !.received = @ + 1]

(***************************************************************************)
(* The background task begins.  Everything is looked up again.             *)
(***************************************************************************)
Begin_Again(t) ==   \* mutant of Begin: the delivery stays and is handled again
    UNCHANGED intakeVars

Begin(t) ==
    /\ inbox' = [inbox EXCEPT ![t] = None]
    /\ UNCHANGED <<webhooks, sent, lost>>

BeginIssue(t) ==
    /\ inbox[t] # None /\ inbox[t].event = "issues"
    /\ IssueEvent(t, inbox[t].issue, finding_key(parse_finding(inbox[t].body)))
    /\ Begin(t)

\* poll_now has something left to resolve.
Unresolved_AnyClaim(k) ==   \* mutant of Unresolved: devin_id is not looked at
    k # None /\ ~Settled(issues[k])

Unresolved(k) ==
    /\ k # None
    /\ ~Settled(issues[k])
    /\ issues[k].devin_id # None

BeginPoll(t) ==
    /\ inbox[t] # None /\ inbox[t].event = "pull_request"
    /\ worker[t] = Idle
    /\ pulled < MaxPullEvents
    /\ pulled' = pulled + 1
    /\ \E k \in referenced_issue(inbox[t]) : Unresolved(k) /\ StartPoll(t, k)
    /\ UNCHANGED <<delivered, crashes>>
    /\ Begin(t)

\* No session is recorded yet, or it was settled while the task waited.
DropPull(t) ==
    /\ inbox[t] # None /\ inbox[t].event = "pull_request"
    /\ \E k \in referenced_issue(inbox[t]) : ~Unresolved(k)
    /\ Begin(t)
    /\ UNCHANGED vars

\* What was accepted and not begun dies with the process.
IntakeRestart ==
    /\ Restart
    /\ inbox' = [t \in Tasks |-> None]
    /\ lost' = lost + Cardinality({t \in Tasks : inbox[t] # None})
    /\ UNCHANGED <<webhooks, sent>>

IntakeNext ==
    \/ \E d \in Deliveries : Refuse(d) \/ Fail(d) \/ Ignore(d)
    \/ \E t \in Tasks : \E d \in Deliveries : Accept(t, d)
    \/ \E t \in Tasks : BeginIssue(t) \/ BeginPoll(t) \/ DropPull(t)
    \/ Underway /\ UNCHANGED intakeVars
    \/ IntakeRestart

IntakeSpec == IntakeInit /\ [][IntakeNext]_<<vars, intakeVars>>

-----------------------------------------------------------------------------
\* The server in front adds nothing of its own: whatever it lets through, and
\* whenever the task begins, what happens is a behaviour of Service.
ImplementsService == Spec

\* Every attempt, and every skip on the books, has a webhook of its own that
\* was accepted and begun: the report's counters never claim more work, or
\* more duplicates, than what it says came in, whatever restarts lost.
WorkIsDelivered ==
    LET attempts == [k \in Keys |-> IF Claimed(k) THEN issues[k].created_at ELSE 0]
        waiting == Cardinality({t \in Tasks : inbox[t] # None})
    IN  SumFunctionOnSet(attempts, Keys) + counters.dedup_skips + waiting + lost
            <= webhooks.received - webhooks.ignored

\* A defect filed twice, as two issues whose bodies are laid out differently,
\* has one live attempt.  (For issues that are not edited, and whose bodies say
\* what the defect is in the same terms, with a text for each field.)
OneLiveAttemptPerDefect ==
    \A j, k \in Keys :
        /\ Claimed(j) /\ ~Settled(issues[j])
        /\ Claimed(k) /\ ~Settled(issues[k])
        /\ Defect[issues[j].issue] = Defect[issues[k].issue]
        => j = k

\* An issue is called a duplicate only of an issue about the same defect.
DuplicatesShareDefect ==
    \A e \in dedup_events :
        Defect[e.issue] = Defect[issues[e.key].issue]
=============================================================================
