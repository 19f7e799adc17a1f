---------------------------- MODULE MCModuleAudit ----------------------------
(* ModuleAudit on two families of worlds.  "Age": modules of every age and   *)
(* shape with or without predecessors; their go.mod says nothing.            *)
(* "Content": modules whose go.mod, depending on which tag it is read from,  *)
(* retracts or deprecates, required by tag, by prefix and by query.  MCInit  *)
(* starts in a world of one family or of the other.                          *)
EXTENDS ModuleAudit

CONSTANTS old, young, recent1, recent2, legacy, pre, tip, aged, none

MCVersion == {old, young, recent1, recent2, legacy, pre, tip, aged}

(* tip and aged are pseudo-versions of untagged commits, of last week and of *)
(* two years ago; pre is a prerelease, legacy a +incompatible tag.           *)
MCRank ==
    [v \in MCVersion |->
        CASE v = aged -> -2 [] v = tip -> -1 [] v = old -> 1 [] v = young -> 2
          [] v = recent1 -> 3 [] v = recent2 -> 4 [] v = pre -> 5 [] v = legacy -> 9]
MCMajor == [v \in MCVersion |-> IF v = legacy THEN 2 ELSE IF v \in {tip, aged} THEN 0 ELSE 1]
MCPrerelease == {pre}
MCIncompatible == {legacy}
MCStub == {legacy}
MCRecent == {recent1, recent2, tip, pre}
MCYoung == MCRecent \cup {young}

(* recent2 retracts an older tag and itself, old only an older one still.    *)
MCRetracts ==
    [v \in MCVersion |->
        CASE v = recent2 -> {young, recent2} [] v = old -> {old} [] OTHER -> {}]
MCDeprecates == {young}

OnProxy(tags, latest) == [served |-> "ok", tags |-> tags, latest |-> latest]
Unserved(how) == [served |-> how, tags |-> {}, latest |-> tip]
Unresolved == Unserved("unresolved")

Asked(shape, resolves, raw) ==
    [shape |-> shape, resolves |-> resolves, raw |-> raw, pseudo |-> raw \in {tip, aged}]
NoPin == Asked("none", none, none)

-----------------------------------------------------------------------------
AgeTargets ==
    {Unresolved, Unserved("malware"), Unserved("private"),
     OnProxy({}, tip), OnProxy({recent1}, recent1), OnProxy({old}, tip),
     OnProxy({recent1, recent2}, recent2), OnProxy({young, recent1}, recent1),
     OnProxy({old, recent1}, recent1)}

(* A tag that exists, one that does not, and an old commit.                  *)
AgePins ==
    {NoPin, Asked("literal", recent1, recent1), Asked("literal", none, recent1),
     Asked("literal", aged, aged)}

AgeSuffixes == {0, 3}
AgePredecessors ==
    UNION {[1..n -> {Unresolved, OnProxy({recent1}, recent1), OnProxy({old}, tip)}] : n \in {0, 2}}

-----------------------------------------------------------------------------
ContentTargets ==
    {Unresolved,
     OnProxy({old, young, recent2}, old), OnProxy({old, young, recent2}, young),
     OnProxy({old, young, recent2}, recent2),
     OnProxy({young, pre}, young), OnProxy({old, pre}, tip), OnProxy({pre}, tip),
     OnProxy({old, young, legacy}, legacy), OnProxy({young, legacy}, young)}

(* A prefix reads, as it stands, as the lowest tag it could name; a query    *)
(* does not read as a version at all.                                        *)
ContentPins ==
    {NoPin, Asked("literal", young, young), Asked("literal", old, old),
     Asked("literal", recent2, young), Asked("literal", recent1, old),
     Asked("query", young, none), Asked("query", none, none), Asked("literal", none, young)}

ContentSuffixes == {0, 2}
ContentPredecessors == {[k \in 1..0 |-> Unresolved], [k \in 1..1 |-> OnProxy({old}, tip)]}

-----------------------------------------------------------------------------
MCTargets == AgeTargets \cup ContentTargets
MCPins == AgePins \cup ContentPins
MCSuffixes == AgeSuffixes \cup ContentSuffixes
MCPredecessors == AgePredecessors \cup ContentPredecessors

OfAge ==
    target \in AgeTargets /\ pin \in AgePins /\ major \in AgeSuffixes
    /\ family \in AgePredecessors

OfContent ==
    target \in ContentTargets /\ pin \in ContentPins /\ major \in ContentSuffixes
    /\ family \in ContentPredecessors

MCInit == Init /\ (OfAge \/ OfContent)
MCSpec == MCInit /\ [][Next]_vars /\ WF_vars(Step)
=============================================================================
