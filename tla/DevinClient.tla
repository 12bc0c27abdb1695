----------------------------- MODULE DevinClient -----------------------------
(***************************************************************************)
(* app/devin_client.py on a clock: the retry loop of _request, its backoff,*)
(* and the GET that follows a 409.  A call belongs to a caller, a coroutine*)
(* that awaits it.                                                         *)
(*                                                                         *)
(* Time is counted in units of the model.  It stands still while anybody   *)
(* has something to do, and never runs past a moment somebody waits for.   *)
(*                                                                         *)
(* httpx's timeout is one for each phase of an attempt (pool, connect,     *)
(* write, each read), and Timeout is the longest an attempt takes in all:  *)
(* a multiple of the 30 s of the code, and no bound at all on a reply that *)
(* trickles in byte by byte, which the API is taken not to do.             *)
(***************************************************************************)
EXTENDS DevinSession

CONSTANTS
    Callers,      \* coroutines that call the Devin API
    Answers,      \* the payloads of the API
    max_retries,  \* attempts of a request
    Timeout,      \* longest time until an attempt is answered or fails
    backoff_base,
    backoff_cap,
    RetryAfters   \* the values of Retry-After the API sends

VARIABLES
    now,   \* the clock
    call   \* caller -> the call it awaits, or its result

clientVars == <<now, call>>

ASSUME ClientAssumption ==
    /\ max_retries \in Nat \ {0}
    /\ Timeout \in Nat
    /\ backoff_base \in Nat
    /\ backoff_cap \in Nat
    /\ RetryAfters \subseteq Nat
    /\ Answers \subseteq Payload
    /\ None \notin Payload

(***************************************************************************)
(* sent: an attempt is out; asleep: _sleep_backoff; done and failed: what  *)
(* the caller gets.  due is the moment a sent or sleeping call waits for   *)
(* at the latest.  requests is 2 after a 409, when the session is a reused *)
(* one; began is history.                                                  *)
(***************************************************************************)
Call == [pc : {"idle", "sent", "asleep", "done", "failed"},
         method : {"POST", "GET"}, attempt : Nat,
         due : Nat, reply : Answers \cup {None}, auth : BOOLEAN,
         began : Nat, requests : 1..2]

NoCall == [pc |-> "idle", method |-> "GET", attempt |-> 0, due |-> 0,
           reply |-> None, auth |-> FALSE, began |-> 0, requests |-> 1]

ClientTypeOK ==
    /\ now \in Nat
    /\ call \in [Callers -> Call]

ClientInit ==
    /\ now = 0
    /\ call = [c \in Callers |-> NoCall]

Waiting(c) == call[c].pc \in {"sent", "asleep"}

Become(c, changed) == call' = [call EXCEPT ![c] = changed]

(***************************************************************************)
(* _request: the first attempt, and the one after a sleep.                 *)
(***************************************************************************)
Send(c, method) ==
    /\ call[c].pc = "idle"
    /\ Become(c, [NoCall EXCEPT !.pc = "sent", !.method = method,
                                !.due = now + Timeout, !.began = now])

Wake(c) ==
    /\ call[c].pc = "asleep"
    /\ now = call[c].due
    /\ Become(c, [call[c] EXCEPT !.pc = "sent", !.attempt = @ + 1,
                                 !.due = now + Timeout])

(***************************************************************************)
(* _sleep_backoff: exponential up to the cap, and up to a quarter more.    *)
(* A Retry-After is obeyed as it is.  After the last attempt there is no   *)
(* sleep.                                                                  *)
(***************************************************************************)
Delays(attempt) ==
    LET exponential == backoff_base * 2^attempt
        delay == IF exponential < backoff_cap THEN exponential ELSE backoff_cap
    IN  delay..(delay + delay \div 4)

Retry_OneMore(c, delays) ==   \* mutant of Retry: one attempt too many
    IF call[c].attempt = max_retries
    THEN Become(c, [call[c] EXCEPT !.pc = "failed"])
    ELSE \E delay \in delays :
            Become(c, [call[c] EXCEPT !.pc = "asleep", !.due = now + delay])

Retry(c, delays) ==
    IF call[c].attempt = max_retries - 1
    THEN Become(c, [call[c] EXCEPT !.pc = "failed"])
    ELSE \E delay \in delays :
            Become(c, [call[c] EXCEPT !.pc = "asleep", !.due = now + delay])

(***************************************************************************)
(* The ways an attempt can end.                                            *)
(***************************************************************************)
NetworkError(c) ==
    /\ call[c].pc = "sent"
    /\ Retry(c, Delays(call[c].attempt))

\* 429 or 5xx, with or without a Retry-After.
TransientError(c, retry_after) ==
    /\ call[c].pc = "sent"
    /\ Retry(c, IF retry_after = None THEN Delays(call[c].attempt) ELSE {retry_after})

\* 409 to the POST: get_session, a request of its own.
Conflict(c) ==
    /\ call[c].pc = "sent"
    /\ call[c].method = "POST"
    /\ Become(c, [call[c] EXCEPT !.method = "GET", !.attempt = 0, !.due = now + Timeout,
                                 !.requests = 2])

\* Any other 4xx is final: 401 and 403 are told apart by the poller.
Rejected(c, auth) ==
    /\ call[c].pc = "sent"
    /\ Become(c, [call[c] EXCEPT !.pc = "failed", !.auth = auth])

\* None: a reply that does not decode; response.json() raises at the caller.
Answered(c, reply) ==
    /\ call[c].pc = "sent"
    /\ Become(c, [call[c] EXCEPT !.pc = "done", !.reply = reply])

\* The caller takes the result.
Taken(c) == Become(c, NoCall)

\* The process dies, and every coroutine with it.
Dies == call' = [c \in Callers |-> NoCall]

(***************************************************************************)
(* The client against an API that may answer anything, at any time.        *)
(***************************************************************************)
Attempted(c) ==
    \/ NetworkError(c)
    \/ \E retry_after \in RetryAfters \cup {None} : TransientError(c, retry_after)
    \/ Conflict(c)
    \/ \E auth \in BOOLEAN : Rejected(c, auth)
    \/ \E reply \in Answers \cup {None} : Answered(c, reply)

Uses(c) ==
    \/ \E method \in {"POST", "GET"} : Send(c, method)
    \/ call[c].pc \in {"done", "failed"} /\ Taken(c)

TimePasses ==
    /\ \A c \in Callers : call[c].pc # "idle" => Waiting(c) /\ now < call[c].due
    /\ now' = now + 1
    /\ UNCHANGED call

ClientNext ==
    \/ \E c \in Callers : (Wake(c) \/ Attempted(c) \/ Uses(c)) /\ UNCHANGED now
    \/ Dies /\ UNCHANGED now
    \/ TimePasses

ClientSpec == ClientInit /\ [][ClientNext]_clientVars

-----------------------------------------------------------------------------
\* The longest sleep between two attempts, as far as the API's Retry-After
\* headers let it be bounded.
CONSTANT MaxDelay

ASSUME DelayAssumption ==
    /\ MaxDelay \in Nat
    /\ backoff_cap + backoff_cap \div 4 <= MaxDelay
    /\ \A retry_after \in RetryAfters : retry_after <= MaxDelay

\* What one request may take: every attempt times out, and all sleeps between
\* them are as long as they get.
RequestBound == max_retries * Timeout + (max_retries - 1) * MaxDelay

\* However its attempts fail, a call is over within its bound, twice that for a
\* create that is answered 409: nobody awaits the client for ever.  (If no attempt
\* takes longer than Timeout.)
CallEnds ==
    \A c \in Callers :
        Waiting(c) => now <= call[c].began + call[c].requests * RequestBound
=============================================================================
