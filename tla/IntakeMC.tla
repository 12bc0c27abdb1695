------------------------------ MODULE IntakeMC ------------------------------
(***************************************************************************)
(* Values for TLC of the constants of Intake: how issue bodies are laid    *)
(* out, and the requests that come in.                                     *)
(***************************************************************************)
EXTENDS Intake, ServiceMC

CONSTANTS i3, i4

(***************************************************************************)
(* Texts: a value as a plain body has it, and with the emphasis and        *)
(* the backticks (<>) of the demo issues' template.                        *)
(***************************************************************************)
Ticks == "<key>" :> "key" @@ "<a.tsx>" :> "a.tsx"
Marks == "** <key>" :> "<key>" @@ "** <a.tsx>" :> "<a.tsx>" @@ "** S1" :> "S1"

SomeTexts == DOMAIN Ticks \cup DOMAIN Marks
                \cup {"key", "a.tsx", "S1", "S2", "heading"}
UnmarkedTexts == Marks @@ [x \in SomeTexts |-> x]
UntickedTexts == Ticks @@ [x \in SomeTexts |-> x]

Has(field, value) == [label |-> field, text |-> value]
Heading == Has(Empty, "heading")
BlankLine == Has(Empty, Empty)

\* i1 as the template writes it and i2 by hand, of one defect; i3 and i4 have
\* no SonarQube key and name two rules in one file.
BodyOf ==
    i1 :> <<Heading, BlankLine, Has("rule", "** S1"), Has("file", "** <a.tsx>"),
            Has("issue_key", "** <key>"), BlankLine, Heading>>
 @@ i2 :> <<Has("issue_key", "key"), Has("file", "a.tsx"), Has("rule", "S1")>>
 @@ i3 :> <<Has("rule", "S1"), Has("file", "<a.tsx>")>>
 @@ i4 :> <<Has("file", "a.tsx"), Has("rule", "S2")>>

DefectOf == i1 :> "d1" @@ i2 :> "d1" @@ i3 :> "d2" @@ i4 :> "d3"

KeyOf(n) == finding_key(parse_finding(BodyOf[n]))
ParsedKeys == {KeyOf(n) : n \in Issues}
ParsedBody == [n \in Issues |-> {KeyOf(n)}]

Opens(n) ==
    [event |-> "issues", signed |-> TRUE, json |-> "object", ours |-> TRUE,
     action |-> "opened", added |-> FALSE, labels |-> TRUE,
     issue |-> n, body |-> BodyOf[n], refs |-> <<>>]

PullRequestFor(refs) ==
    [Opens(i1) EXCEPT !.event = "pull_request", !.issue = None, !.labels = FALSE,
                      !.body = <<>>, !.refs = refs]

\* What the gates are for: a forged request, one that is no JSON, one that is
\* no object, another repository's, an issue without the label, one that gets another label, one
\* that is closed.
Noise ==
    {[Opens(i1) EXCEPT !.signed = FALSE],
     [Opens(i1) EXCEPT !.json = "unreadable"],
     [Opens(i1) EXCEPT !.json = "other"],
     [Opens(i1) EXCEPT !.ours = FALSE],
     [Opens(i1) EXCEPT !.labels = FALSE],
     [Opens(i1) EXCEPT !.action = "labeled"],
     [Opens(i1) EXCEPT !.action = "closed"]}

FilingDeliveries ==
    {Opens(n) : n \in Issues} \cup Noise \cup {PullRequestFor(<<i2, i1>>)}

SessionDeliveries == {Opens(i1), PullRequestFor(<<i1>>)}
=============================================================================
