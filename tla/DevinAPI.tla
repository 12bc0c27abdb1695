------------------------------ MODULE DevinAPI ------------------------------
(***************************************************************************)
(* The Devin API as the rest of the models take it to be: a session is     *)
(* created once, and then moves as MayBecome allows.                       *)
(***************************************************************************)
EXTENDS DevinSession

CONSTANT Ids   \* devin_ids

VARIABLE sessions   \* devin_id -> payload of its session

Init == sessions = [id \in Ids |-> None]

Create(id) ==
    /\ sessions[id] = None
    /\ sessions' = [sessions EXCEPT ![id] = Fresh]

Move(id) ==
    /\ sessions[id] # None
    /\ MayBecome(sessions[id], sessions'[id])
    /\ \A other \in Ids \ {id} : sessions'[other] = sessions[other]

Next == \E id \in Ids : Create(id) \/ Move(id)

Spec == Init /\ [][Next]_sessions
=============================================================================
