-------------------------- MODULE MCLookupRequests --------------------------
(* LookupRequests with tags of two major lines, a prerelease and legacy      *)
(* +incompatible ones, and a proxy that moves up to three times.             *)
EXTENDS LookupRequests

CONSTANTS old, young, recent, pre, legacy, stub, tip, none

MCVersion == {old, young, recent, pre, legacy, stub, tip}

(* tip is an untagged commit; stub is a compatible tag without a go.mod.     *)
MCRank ==
    [v \in MCVersion |->
        CASE v = tip -> 0 [] v = stub -> 1 [] v = old -> 2 [] v = young -> 3 [] v = recent -> 4
          [] v = pre -> 5 [] v = legacy -> 9]
MCMajor == [v \in MCVersion |-> IF v = legacy THEN 2 ELSE IF v = tip THEN 0 ELSE 1]
MCRecent == {recent, pre, tip}
MCYoung == MCRecent \cup {young}
MCRetracts == [v \in MCVersion |-> {}]

OnProxy(tags, latest) == [served |-> "ok", tags |-> tags, latest |-> latest]
Unserved(how) == [served |-> how, tags |-> {}, latest |-> tip]

MCStart ==
    {Unserved("unresolved"), Unserved("malware"), Unserved("private"),
     OnProxy({}, tip), OnProxy({recent}, recent), OnProxy({old}, tip), OnProxy({old, pre}, old),
     OnProxy({stub}, stub), OnProxy({stub, legacy}, legacy), OnProxy({old, legacy}, legacy)}
MCTags == MCVersion \ {tip}
=============================================================================
