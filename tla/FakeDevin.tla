----------------------------- MODULE FakeDevin -----------------------------
(***************************************************************************)
(* simulator/fake_devin.py: the scripted Devin API of the simulation and   *)
(* the tests.  A session lives by its scenario, one step for every GET.    *)
(*                                                                         *)
(* Left out are the answers to requests the client never makes: an unknown *)
(* route, a create without an id or a prompt, the GET of no session.       *)
(***************************************************************************)
EXTENDS DevinSession

CONSTANTS
    Ids,       \* devin_ids
    Scripts,   \* devin_id -> scenario: the casts to try
    MaxPolls   \* bound: GETs are counted up to this number

VARIABLES
    scenario,         \* devin_id -> its scenario
    sessions,         \* devin_id -> payload, None where there is no session
    polls,            \* devin_id -> GETs so far
    create_attempts,  \* devin_id -> POSTs so far, up to the first that counts
    token             \* whether requests carry a token

fakeVars == <<scenario, sessions, polls, create_attempts, token>>

Scenario ==
    [ticks_to_terminal : Nat, terminal_status : Statuses,
     terminal_status_detail : Details,
     structured_output : StructuredOutput \cup {None}, acus : Nat,
     fail_get_on_tick : Nat \cup {None}, rate_limit_creates : Nat,
     pr_on_tick : Nat \cup {None}]

\* No scenario tells ticks from MaxPolls on apart.
ASSUME FakeAssumption ==
    /\ MaxPolls \in Nat \ {0}
    /\ Scripts \subseteq [Ids -> Scenario]
    /\ \A script \in Scripts, id \in Ids :
          LET s == script[id] IN
          /\ s.ticks_to_terminal <= MaxPolls
          /\ s.fail_get_on_tick # None => s.fail_get_on_tick < MaxPolls
          /\ s.pr_on_tick # None => s.pr_on_tick <= MaxPolls

FakeTypeOK ==
    /\ scenario \in Scripts
    /\ sessions \in [Ids -> Payload \cup {None}]
    /\ polls \in [Ids -> 0..MaxPolls]
    /\ create_attempts \in [Ids -> Nat]
    /\ token \in BOOLEAN

FakeInit ==
    /\ scenario \in Scripts
    /\ token \in BOOLEAN
    /\ sessions = [id \in Ids |-> None]
    /\ polls = [id \in Ids |-> 0]
    /\ create_attempts = [id \in Ids |-> 0]

(***************************************************************************)
(* _create.                                                                *)
(***************************************************************************)
RateLimited(id) == create_attempts[id] < scenario[id].rate_limit_creates

PostStatus(id) ==
    IF ~token THEN 401
    ELSE IF RateLimited(id) THEN 429
    ELSE IF sessions[id] # None THEN 409 ELSE 200

Create(id) ==
    /\ create_attempts' = IF token /\ RateLimited(id)
                          THEN [create_attempts EXCEPT ![id] = @ + 1]
                          ELSE create_attempts
    /\ sessions' = IF PostStatus(id) = 200
                   THEN [sessions EXCEPT ![id] = Fresh] ELSE sessions
    /\ UNCHANGED <<scenario, polls, token>>

(***************************************************************************)
(* _get.  A pull request shows while the session still runs, or at its end.*)
(***************************************************************************)
GetTick(id) == IF polls[id] = MaxPolls THEN MaxPolls ELSE polls[id] + 1

GetStatus(id) ==
    IF ~token THEN 401
    ELSE IF scenario[id].fail_get_on_tick = GetTick(id) THEN 503 ELSE 200

NamesPullRequest(s) == s.structured_output # None /\ s.structured_output.pr

Running(s, tick) ==
    [status |-> "running", detail |-> "other", structured |-> None,
     pulls |-> s.pr_on_tick # None /\ tick >= s.pr_on_tick /\ NamesPullRequest(s),
     acus |-> (s.acus * tick) \div s.ticks_to_terminal]

Terminal_NoPulls(s) ==   \* mutant of Terminal: pull_requests is left empty
    [status |-> s.terminal_status, detail |-> s.terminal_status_detail,
     structured |-> s.structured_output, pulls |-> FALSE, acus |-> s.acus]

Terminal(s) ==
    [status |-> s.terminal_status, detail |-> s.terminal_status_detail,
     structured |-> s.structured_output, pulls |-> NamesPullRequest(s),
     acus |-> s.acus]

Shown(s, tick) == IF tick < s.ticks_to_terminal THEN Running(s, tick) ELSE Terminal(s)

Get(id) ==
    /\ polls' = IF token THEN [polls EXCEPT ![id] = GetTick(id)] ELSE polls
    /\ sessions' = IF GetStatus(id) = 200
                   THEN [sessions EXCEPT ![id] = Shown(scenario[id], GetTick(id))]
                   ELSE sessions
    /\ UNCHANGED <<scenario, create_attempts, token>>

\* What the next GET of a session answers with, if it is answered.
NextPayload(id) == Shown(scenario[id], GetTick(id))

(***************************************************************************)
(* The fake never shows what DevinAPI rules out: a session is created once,*)
(* its ACUs and its pull request stay, and the end is the end.             *)
(***************************************************************************)
API == INSTANCE DevinAPI

FollowsAPI == API!Spec
=============================================================================
