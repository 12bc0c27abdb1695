---------------------------- MODULE SimulationMC ----------------------------
(***************************************************************************)
(* Values for TLC of the constants of Simulation: scenarios in the manner  *)
(* of scripts/simulate.py.                                                 *)
(***************************************************************************)
EXTENDS Simulation

CONSTANTS f1, f2

Script(ticks, status, detail, structured, acus, fail, limits, pr) ==
    [ticks_to_terminal |-> ticks, terminal_status |-> status,
     terminal_status_detail |-> detail, structured_output |-> structured,
     acus |-> acus, fail_get_on_tick |-> fail, rate_limit_creates |-> limits,
     pr_on_tick |-> pr]

Fix == [fixed |-> TRUE, pr |-> TRUE]
NoFix == [fixed |-> FALSE, pr |-> FALSE]

Hero == Script(2, "exit", "finished", Fix, 2, None, 1, None)
Hiccup == Script(3, "exit", "finished", Fix, 2, 2, 0, 1)
CapReached == Script(2, "suspended", "budget", None, 3, None, 0, None)
JudgmentCall == Script(2, "exit", "finished", NoFix, 1, None, 0, None)
Endless == Script(2, "suspended", "other", None, 1, 3, 0, None)

Cast(first, second) == [f \in {f1, f2} |-> IF f = f1 THEN first ELSE second]

Run(first, second, garbled, most) ==
    [script |-> Cast(first, second), token |-> TRUE, garbled |-> garbled,
     restarts |-> most]

TheTrials ==
    {Run(Hiccup, CapReached, {}, 0),
     Run(JudgmentCall, Hero, {f2}, 0),
     Run(Endless, Hero, {}, 0),
     Run(Hero, Hiccup, {f2}, 1),
     Run(CapReached, JudgmentCall, {}, 1),
     [Run(Hero, Hero, {}, 0) EXCEPT !.token = FALSE]}

TheScripts == {run.script : run \in TheTrials}
TheScenarios == {script[f] : script \in TheScripts, f \in {f1, f2}}

TheAnswers ==
    {Fresh} \cup {Terminal(s) : s \in TheScenarios}
        \cup {Running(s, tick) : s \in TheScenarios, tick \in 1..MaxPolls}

TheFindings == {f1, f2}
TheCallers == {f1, f2, Poller}
=============================================================================
