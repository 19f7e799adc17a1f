----------------------------- MODULE MCToolWalk -----------------------------
(* ToolWalk with a cap of two prefixes on packages of up to three segments:  *)
(* the cap cuts a walk short of an owner, and does not of another.           *)
EXTENDS ToolWalk

CONSTANTS only, none

MCRank == [v \in {only} |-> 1]
MCMajor == [v \in {only} |-> 1]
MCRetracts == [v \in {only} |-> {}]

Served(how) == [served |-> how, tags |-> {}, latest |-> only]

At(length, at, how) ==
    [k \in 1..length |-> IF k \in at THEN Served(how) ELSE Served("unresolved")]

Package(facts, required, main, replaced) ==
    [length |-> Len(facts), facts |-> facts, required |-> required, main |-> main,
     replaced |-> replaced]

MCPackages ==
    {Package(At(n, at, how), {}, {}, <<>>) :
        n \in {3}, at \in SUBSET (1..3), how \in {"ok", "malware", "private"}}
    \cup {Package(At(1, {}, "ok"), {}, {}, <<>>),
          Package([k \in 1..2 |-> Served(IF k = 1 THEN "malware" ELSE "ok")], {}, {}, <<>>),
          Package(At(2, {}, "ok"), {1}, {}, <<2>>), Package(At(2, {}, "ok"), {}, {2}, <<>>),
          Package(At(2, {1}, "malware"), {}, {}, <<2, 1>>)}

MCDirectives == {<<>>} \cup {<<p, q>> : p, q \in MCPackages}
                \cup {<<p, q, p>> : p, q \in {r \in MCPackages : r.length < 3}}
=============================================================================
