------------------------------ MODULE Runtime ------------------------------
(***************************************************************************)
(* The single asyncio loop of the service and the world it awaits.         *)
(*                                                                         *)
(* A worker is a coroutine: a background task that handles one webhook, or *)
(* the poller's loop.  It runs without interruption from one await to the  *)
(* next, so an action is the code between two awaits, and pc names the     *)
(* request the worker is waiting on:                                       *)
(*   ask_pr, ask_issue  _abandoned_reason's questions to GitHub            *)
(*   post               create_session's POST                              *)
(*   adopt              create_session's GET after a 409                   *)
(*   get                _poll_one's GET                                    *)
(* A request has two more moments: the API evaluates it, which fixes the   *)
(* reply, and later the reply reaches the worker.  Replies to different    *)
(* workers may overtake one another.  The retries inside one client call   *)
(* are not told apart here: a call ends with a reply or with an error.     *)
(***************************************************************************)
EXTENDS Store

CONSTANTS
    Payloads,  \* the payloads a session may show
    Poller     \* the poller's worker

VARIABLES
    worker,    \* what each coroutine is doing
    tick,      \* rest of the running tick: key -> the record as the tick read it
    session,   \* the Devin API: issue -> payload of the session with its devin_id
    merged,    \* GitHub: issues whose session's pull request was merged
    overdue,   \* key -> last attempt older than SESSION_MAX_WAIT_SECONDS
    reports    \* key -> terminal reports of the running attempt (two means many)

runtimeVars == <<worker, tick, session, merged, overdue, reports>>

Workers == Tasks \cup {Poller}

ASSUME RuntimeAssumption ==
    /\ Payloads \subseteq Payload
    /\ Fresh \in Payloads
    /\ None \notin Payload
    /\ Poller \notin Tasks

Asking == {"ask_pr", "ask_issue"}
Creating == {"post", "adopt"}

Work == [pc : {"idle", "get"} \cup Asking \cup Creating,
         key : Keys \cup {None}, issue : Issues \cup {None},
         copy : Row \cup {None}, reply : Payloads \cup {None}]

Idle == [pc |-> "idle", key |-> None, issue |-> None, copy |-> None, reply |-> None]

RuntimeTypeOK ==
    /\ worker \in [Workers -> Work]
    /\ tick \in [Keys -> Row \cup {None}]
    /\ session \in [Issues -> Payloads \cup {None}]
    /\ merged \subseteq Issues
    /\ overdue \in [Keys -> Nat]
    /\ reports \in [Keys -> 0..2]

RuntimeInit ==
    /\ worker = [w \in Workers |-> Idle]
    /\ tick = [k \in Keys |-> None]
    /\ session = [n \in Issues |-> None]
    /\ merged = {}
    /\ overdue = [k \in Keys |-> 0]
    /\ reports = [k \in Keys |-> 0]

Continue(w, work) == worker' = [worker EXCEPT ![w] = work]
Return(w) == Continue(w, Idle)

\* Tasks read rows and poll; a task that asks GitHub keeps its copy to claim with.
Keep(t, k) == copies' = [copies EXCEPT ![k] = @ \cup {t}]
Forget(t) == copies' = [k \in Keys |-> copies[k] \ {t}]

Creators(k) == {t \in Tasks : worker[t].pc \in Creating /\ worker[t].key = k}

Started(n) == session[n] # None
=============================================================================
