--------------------------- MODULE VersionQueries ---------------------------
(* A version written in go.mod as a query (src/proxy.go): "latest" and       *)
(* "upgrade", which @latest answers, and the four comparisons, which the     *)
(* list of tags answers; what VersionExists and ResolveVersion make of them  *)
(* when requests fail, and the queries the go command refuses.               *)
(*                                                                           *)
(* A version is its numbers and its prerelease part, which is 0 for none and *)
(* else says where it stands among the prereleases of these numbers; "v1"    *)
(* and "v1.2" have one and two numbers.                                      *)
EXTENDS Integers, Sequences, FiniteSets, SequencesExt

NoVersion == [num |-> <<>>, pre |-> 0]

Padded(v) == [i \in 1 .. 3 |-> IF i \in DOMAIN v.num THEN v.num[i] ELSE 0]

(* semver.Compare, of the golang.org/x/mod library. *)
Below(v, w) ==
    LET a == Padded(v)
        b == Padded(w)
    IN  \/ \E i \in 1 .. 3 : a[i] < b[i] /\ \A k \in 1 .. i - 1 : a[k] = b[k]
        \/ a = b /\ v.pre # 0 /\ (w.pre = 0 \/ v.pre < w.pre)

Satisfies(v, op, target) ==
    CASE op = "<"  -> Below(v, target)
      [] op = "<=" -> ~Below(target, v)
      [] op = ">"  -> Below(target, v)
      [] op = ">=" -> ~Below(v, target)

(* isLatestNamedQuery and parseComparisonQuery: a literal version has no     *)
(* operator, and is its own target.                                          *)
isLatestNamedQuery(query) == query.op \in {"latest", "upgrade"}
isComparison(query) == query.op \in {"<", "<=", ">", ">="}

isAmbiguousComparisonOperand(v) == v.pre = 0 /\ Len(v.num) < 3

isAmbiguousComparisonQuery(query) ==
    query.op \in {"<=", ">"} /\ isAmbiguousComparisonOperand(query.target)

-----------------------------------------------------------------------------
(* One tag of the list after another; the first of equals is kept. *)
NearerTag(best, v, op, target) ==
    IF /\ Satisfies(v, op, target)
       /\ \/ best = NoVersion
          \/ op \in {"<", "<="} /\ Below(best, v)
          \/ op \in {">", ">="} /\ Below(v, best)
    THEN v ELSE best

\* mutant: the nearest tag wins, release or not
pickAny(tags, prereleases, op, target) ==
    LET best[i \in 0 .. Len(tags)] ==
          IF i = 0 THEN NoVersion ELSE NearerTag(best[i - 1], tags[i], op, target)
    IN  best[Len(tags)]

pick(tags, prereleases, op, target) ==
    LET best[i \in 0 .. Len(tags)] ==
          IF i = 0 THEN NoVersion
          ELSE IF (tags[i].pre # 0) = prereleases THEN NearerTag(best[i - 1], tags[i], op, target)
          ELSE best[i - 1]
    IN  best[Len(tags)]

resolveComparisonQuery(tags, op, target) ==
    LET release == pick(tags, FALSE, op, target)
    IN  IF release # NoVersion THEN release ELSE pick(tags, TRUE, op, target)

(* What the query stands for before its .info is asked for, and whether the  *)
(* request that says so failed.                                              *)
Named(proxy, query, failed) ==
    CASE isLatestNamedQuery(query) ->
            [unknown |-> "latest" \in failed,
             version |-> IF "latest" \in failed THEN NoVersion ELSE proxy.latest]
      [] isComparison(query) ->
            [unknown |-> "list" \in failed,
             version |-> IF "list" \in failed THEN NoVersion
                         ELSE resolveComparisonQuery(proxy.tags, query.op, query.target)]
      [] OTHER -> [unknown |-> FALSE, version |-> query.target]

Served(proxy, version) == version \in Range(proxy.tags) \cup {proxy.latest}

VersionExists(proxy, query, failed) ==
    LET named == Named(proxy, query, failed)
    IN  IF named.unknown THEN [exists |-> FALSE, unknown |-> TRUE]
        ELSE IF named.version = NoVersion THEN [exists |-> FALSE, unknown |-> FALSE]
        ELSE IF "info" \in failed THEN [exists |-> FALSE, unknown |-> TRUE]
        ELSE [exists |-> Served(proxy, named.version), unknown |-> FALSE]

(* Empty-handed for any failure and for any version that is not there.       *)
ResolveVersion(proxy, query, failed) ==
    LET named == Named(proxy, query, failed)
    IN  IF named.version = NoVersion \/ "info" \in failed \/ ~Served(proxy, named.version)
        THEN NoVersion ELSE named.version

-----------------------------------------------------------------------------
Available(proxy, query) ==
    {v \in Range(proxy.tags) : Satisfies(v, query.op, query.target)}

Nearest(v, query, candidates) ==
    /\ v \in candidates
    /\ \A w \in candidates : w # v => IF query.op \in {"<", "<="} THEN Below(w, v) ELSE Below(v, w)

(* A query resolves to the available version nearest to its target, to a     *)
(* prerelease only if no release satisfies it, whatever the order of the     *)
(* list.                                                                     *)
ResolvesToNearest(proxy, query, failed) ==
    LET found == ResolveVersion(proxy, query, failed)
        available == Available(proxy, query)
        releases == {v \in available : v.pre = 0}
    IN  isComparison(query) =>
          /\ found # NoVersion =>
               Nearest(found, query, IF releases # {} THEN releases ELSE available)
          /\ failed = {} => (found = NoVersion <=> available = {})

(* A version is called missing only if it is, whatever request fails, and    *)
(* the two functions agree on the ones that exist.                           *)
SaysWhatItKnows(proxy, query, failed) ==
    LET answer == VersionExists(proxy, query, failed)
        there == \/ isLatestNamedQuery(query)
                 \/ isComparison(query) /\ Available(proxy, query) # {}
                 \/ query.op = "" /\ Served(proxy, query.target)
    IN  /\ answer.exists => there
        /\ ~answer.exists /\ ~answer.unknown => ~there
        /\ answer.unknown => failed # {}
        /\ answer.exists <=> ResolveVersion(proxy, query, failed) # NoVersion

(* A comparison is refused exactly if it matters whether its target stands   *)
(* for one release or for all that begin with its numbers.                   *)
InLine(v, target) == SubSeq(v.num, 1, Len(target.num)) = target.num

RefusedIffAmbiguous(query, releases) ==
    isAmbiguousComparisonQuery(query) <=>
        /\ isComparison(query)
        /\ LET AsLine(v) == CASE query.op = "<" -> Below(v, query.target) /\ ~InLine(v, query.target)
                              [] query.op = "<=" -> Below(v, query.target) \/ InLine(v, query.target)
                              [] query.op = ">" -> Below(query.target, v) /\ ~InLine(v, query.target)
                              [] query.op = ">=" -> Below(query.target, v) \/ InLine(v, query.target)
           IN  query.target.pre = 0
               /\ \E v \in releases : Satisfies(v, query.op, query.target) # AsLine(v)
=============================================================================
