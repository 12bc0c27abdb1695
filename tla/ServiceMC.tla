----------------------------- MODULE ServiceMC -----------------------------
(***************************************************************************)
(* Values for TLC of the constants of Service.                             *)
(***************************************************************************)
EXTENDS Metrics, TLC

CONSTANTS i1, i2, k1, k2, t1, t2

Seen(status, detail, structured, pulls, acus) ==
    [status |-> status, detail |-> detail, structured |-> structured,
     pulls |-> pulls, acus |-> acus]

Fix == [fixed |-> TRUE, pr |-> TRUE]
NoFix == [fixed |-> FALSE, pr |-> FALSE]

Working == Seen("running", "other", None, FALSE, 0)
Opened == Seen("running", "other", None, TRUE, 0)
Idling == Seen("running", "other", None, TRUE, 1)
Broken == Seen("error", "other", None, FALSE, 0)
BrokenLate == Seen("error", "other", None, TRUE, 1)
Declined == Seen("exit", "other", NoFix, FALSE, 0)

\* A session that works, opens a pull request, idles on, and may fail.
FewPayloads == {Fresh, Opened, Idling, BrokenLate, Broken}
Exhausted == Seen("suspended", "budget", None, FALSE, 1)
Exited == Seen("exit", "finished", Fix, FALSE, 1)
ManyPayloads == FewPayloads \cup {Working, Declined, Exhausted, Exited}

\* Enough to settle an attempt, in both ways a settled attempt can be replaced.
TwoPayloads == {Fresh, Declined}

OneKey == {k1}
TwoKeys == {k1, k2}

SameFinding == [n \in Issues |-> {k1}]

\* Issue i1 is edited: its body used to name another finding.
EditedIssue == [n \in Issues |-> IF n = i1 THEN {k1, k2} ELSE {k1}]

Racers == Permutations(Tasks)
=============================================================================
