----------------------------- MODULE MCAuditRun -----------------------------
(* AuditRun on files with one thing wrong with them, or several, or nothing, *)
(* and another program that edits them at any moment.                        *)
EXTENDS AuditRun

PlainMod == [parses |-> TRUE, suspect |-> FALSE, private |-> TRUE, contradicts |-> FALSE, go |-> "met",
             newVerb |-> FALSE, badVerb |-> FALSE]
PlainWork == [replaces |-> FALSE, overlong |-> FALSE, distrusted |-> FALSE, blockForm |-> FALSE,
              newVerb |-> FALSE, go |-> "none"]

MCGoMods ==
    {Unreadable, PlainMod, [PlainMod EXCEPT !.parses = FALSE],
     [PlainMod EXCEPT !.suspect = TRUE], [PlainMod EXCEPT !.contradicts = TRUE],
     [PlainMod EXCEPT !.contradicts = TRUE, !.newVerb = TRUE],
     [PlainMod EXCEPT !.go = "future", !.newVerb = TRUE],
     [PlainMod EXCEPT !.suspect = TRUE, !.badVerb = TRUE, !.go = "none"]}

Replacing == [PlainWork EXCEPT !.replaces = TRUE]

MCGoWorks ==
    {Unreadable, PlainWork, Replacing, [Replacing EXCEPT !.overlong = TRUE],
     [Replacing EXCEPT !.distrusted = TRUE], [Replacing EXCEPT !.blockForm = TRUE],
     [PlainWork EXCEPT !.go = "future", !.newVerb = TRUE]}
=============================================================================
