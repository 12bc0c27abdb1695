-------------------------- MODULE FindingLifecycle --------------------------
(***************************************************************************)
(* What the service promises about one finding, whatever webhooks, polls   *)
(* and restarts do: it is owned by one issue at a time, an attempt is      *)
(* claimed, then worked on by a session, then settled, and only a settled  *)
(* attempt gives way to another one.                                       *)
(***************************************************************************)
CONSTANTS Keys, Issues, None

VARIABLES
    owner,  \* finding -> the issue its current attempt belongs to
    stage   \* finding -> how far that attempt is

vars == <<owner, stage>>

TypeOK ==
    /\ owner \in [Keys -> Issues \cup {None}]
    /\ stage \in [Keys -> {"free", "claimed", "working", "settled"}]

Init ==
    /\ owner = [k \in Keys |-> None]
    /\ stage = [k \in Keys |-> "free"]

Claim(k, n) ==
    /\ stage[k] = "free"
    /\ stage' = [stage EXCEPT ![k] = "claimed"]
    /\ owner' = [owner EXCEPT ![k] = n]

StartWork(k) ==
    /\ stage[k] = "claimed"
    /\ stage' = [stage EXCEPT ![k] = "working"]
    /\ UNCHANGED owner

Settle(k) ==
    /\ stage[k] \in {"claimed", "working"}
    /\ stage' = [stage EXCEPT ![k] = "settled"]
    /\ UNCHANGED owner

\* Another issue, or the same one if its session could not be created.
TryAgain(k, n) ==
    /\ stage[k] = "settled"
    /\ stage' = [stage EXCEPT ![k] = "claimed"]
    /\ owner' = [owner EXCEPT ![k] = n]

Next ==
    \E k \in Keys :
        \/ StartWork(k) \/ Settle(k)
        \/ \E n \in Issues : Claim(k, n) \/ TryAgain(k, n)

Spec == Init /\ [][Next]_vars
=============================================================================
