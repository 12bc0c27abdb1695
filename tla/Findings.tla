------------------------------ MODULE Findings ------------------------------
(***************************************************************************)
(* app/findings.py: from the body of an issue to the key of its finding.   *)
(*                                                                         *)
(* A body is a sequence of lines.  A line that starts with the label of a  *)
(* field has that field as its label and what follows the colon as its     *)
(* text; any other line has no label.  Letter case, list marks, headings   *)
(* and the spelling of the labels are the pattern's business and left out. *)
(***************************************************************************)
EXTENDS Sequences, FiniteSetsExt

CONSTANTS
    Empty,     \* the empty string
    Texts,     \* non-empty texts
    Unmarked,  \* a text without ** and __, wherever they stand (__init__.py too)
    Unticked   \* a text without the backticks around it

ASSUME FindingsAssumption ==
    /\ Empty \notin Texts
    /\ Unmarked \in [Texts -> Texts \cup {Empty}]
    /\ Unticked \in [Texts -> Texts \cup {Empty}]

FieldNames == {"rule", "file", "lines", "message", "issue_key"}

Line == [label : FieldNames \cup {Empty}, text : Texts \cup {Empty}]

normalize(body) ==
    [i \in DOMAIN body |->
        [body[i] EXCEPT !.text = IF @ = Empty THEN Empty ELSE Unmarked[@]]]

(***************************************************************************)
(* The first line with the label decides.  If it has no text of its own    *)
(* the pattern runs on: its \s* also matches line ends, so the value is    *)
(* the whole next line that is not blank, be it another field's.           *)
(***************************************************************************)
Blank(line) == line.label = Empty /\ line.text = Empty
Whole(line) == IF line.label = Empty THEN line.text ELSE <<line.label, line.text>>

Strip(value) == IF value \in Texts THEN Unticked[value] ELSE value

extract_Ticked(body, field) ==   \* mutant of extract: backticks are part of the value
    LET labelled == {i \in DOMAIN body : body[i].label = field}
    IN  IF labelled = {} THEN Empty ELSE body[Min(labelled)].text

extract(body, field) ==
    LET labelled == {i \in DOMAIN body : body[i].label = field}
        i == Min(labelled)
        below == {j \in DOMAIN body : j > i /\ ~Blank(body[j])}
    IN  IF labelled = {} THEN Empty
        ELSE IF body[i].text # Empty THEN Strip(body[i].text)
        ELSE IF below # {} THEN Strip(Whole(body[Min(below)])) ELSE Empty

parse_finding(body) ==
    [field \in FieldNames |-> extract(normalize(body), field)]

(***************************************************************************)
(* "Stable identity of the underlying defect".                             *)
(***************************************************************************)
finding_key_FileOnly(finding) ==   \* mutant of finding_key: the fallback forgets the rule
    IF finding.issue_key # Empty THEN <<"sonar", finding.issue_key>>
    ELSE <<"filerule", finding.file>>

finding_key(finding) ==
    IF finding.issue_key # Empty THEN <<"sonar", finding.issue_key>>
    ELSE <<"filerule", finding.file, finding.rule>>
=============================================================================
