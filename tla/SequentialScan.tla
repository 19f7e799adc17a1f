--------------------------- MODULE SequentialScan ---------------------------
(* What CheckAll promises its caller, without saying how: every section of   *)
(* the report (one per audited target, then one per whole-file check) is     *)
(* audited exactly once, and the sections are published in go.mod order,     *)
(* each holding exactly what its own audit found less what the fork rule     *)
(* suppresses.  Targets may be audited in any order; nothing is published    *)
(* before every target has been audited.                                     *)
EXTENDS Naturals, Sequences

CONSTANTS
    Targets,      \* how many targets: the requirements left after replacement, plus orphan replaces
    Extra,        \* how many whole-file checks follow them (CheckTools ... checkDuplicateGodebug)
    Findings,     \* what an audit can find
    Suppressed    \* per section, the findings suppressForkOfDeclaredPopular drops

Sections == 1..(Targets + Extra)
Kept(s, found) == found \ Suppressed[s]

VARIABLES
    audited,      \* the sections audited so far
    found,        \* what the audit of each section returned
    report        \* the sections published so far

scanVars == <<audited, found, report>>

TargetsAudited == 1..Targets \subseteq audited

Init ==
    /\ audited = {}
    /\ found = [s \in Sections |-> {}]
    /\ report = <<>>

Audit(s) ==
    /\ s \notin audited
    /\ s > Targets => TargetsAudited
    /\ audited' = audited \cup {s}
    /\ \E fs \in SUBSET Findings : found' = [found EXCEPT ![s] = fs]
    /\ UNCHANGED report

Publish ==
    /\ TargetsAudited
    /\ Len(report) + 1 \in audited
    /\ report' = Append(report, Kept(Len(report) + 1, found[Len(report) + 1]))
    /\ UNCHANGED <<audited, found>>

Next == Publish \/ \E s \in Sections : Audit(s)

Spec == Init /\ [][Next]_scanVars

(* A check that may run is run, and a section that is ready is published.    *)
FairSpec ==
    /\ Spec
    /\ WF_scanVars(Publish)
    /\ \A s \in Sections : WF_scanVars(Audit(s))
=============================================================================
