----------------------------- MODULE MCMajorWalk -----------------------------
(* MajorWalk with a cap of two predecessors and suffixes up to /v4, so that  *)
(* the cap cuts the walk short and the unsuffixed path is asked both as a    *)
(* fallback and in its turn.                                                 *)
EXTENDS MajorWalk

CONSTANTS recent1, recent2, tip, old, none

MCVersion == {recent1, recent2, tip, old}

(* old < recent1 < recent2; tip is the pseudo-version of an untagged commit. *)
MCRank ==
    [v \in MCVersion |->
        CASE v = tip -> 0 [] v = old -> 1 [] v = recent1 -> 2 [] v = recent2 -> 3]
MCMajor == [v \in MCVersion |-> 1]
MCRetracts == [v \in MCVersion |-> {}]
MCRecent == {recent1, recent2, tip}

OnProxy(tags, latest) == [served |-> "ok", tags |-> tags, latest |-> latest]

(* Missing; one recent tag; the same behind a newer commit; two recent tags; *)
(* never tagged; one old tag behind a recent commit; old.                    *)
MCFacts ==
    {[served |-> "unresolved", tags |-> {}, latest |-> tip],
     OnProxy({recent1}, recent1), OnProxy({recent1}, tip), OnProxy({recent1, recent2}, recent2),
     OnProxy({}, tip), OnProxy({old}, tip), OnProxy({old}, old)}

MCSuffixes == {0, 1, 2, 4}
MCPredecessors == UNION {[1..n -> MCFacts] : n \in {0, 1, 3}}
=============================================================================
