----------------------------- MODULE ProxyFacts -----------------------------
(* What the Go module proxy knows about a module, and what one call of the   *)
(* proxy client (src/proxy.go) makes of it when some of its requests fail.   *)
(* A version is a model value; the functions below give the parts of it the  *)
(* code looks at.  A ModuleStatus is abstracted to WHICH version each piece  *)
(* of evidence was read from: the timestamps and the go.mod follow from it.  *)
EXTENDS Integers, FiniteSets

CONSTANTS
    Version,        \* every version that occurs, pseudo-versions included
    NoVersion,      \* the empty string, the zero time, the empty go.mod
    Rank,           \* semver precedence
    Major,          \* semver major number
    Prerelease,     \* the versions with a prerelease part
    Incompatible,   \* the "+incompatible" versions
    Stub,           \* the versions whose go.mod the proxy synthesised
    Recent,         \* the versions younger than recentWindow (30 days)
    Young,          \* the versions younger than floodedHistoryWindow (90 days)
    Retracts,       \* per version, the versions its go.mod retracts
    Deprecates      \* the versions whose go.mod deprecates the module

ASSUME VersionAssumption ==
    /\ NoVersion \notin Version
    /\ IsFiniteSet(Version)
    /\ Rank \in [Version -> Int]
    /\ \A v, w \in Version : Rank[v] = Rank[w] => v = w
    /\ Major \in [Version -> Nat]
    /\ Prerelease \subseteq Version
    /\ Incompatible \subseteq Version
    /\ Stub \subseteq Version
    /\ Recent \subseteq Young /\ Young \subseteq Version
    /\ Retracts \in [Version -> SUBSET Version]
    /\ Deprecates \subseteq Version

(* A +incompatible version is one the go command found no go.mod in: the one *)
(* the proxy serves for it is synthesised and holds a module line only.      *)
ASSUME IncompatibleAssumption ==
    \A v \in Incompatible : v \in Stub /\ Retracts[v] = {} /\ v \notin Deprecates

Highest(vs) == CHOOSE v \in vs : \A w \in vs : Rank[w] <= Rank[v]
Lowest(vs) == CHOOSE v \in vs : \A w \in vs : Rank[v] <= Rank[w]

(* Releases are preferred to prereleases whatever their precedence.          *)
Preferred(vs) == IF vs \subseteq Prerelease THEN vs ELSE vs \ Prerelease

-----------------------------------------------------------------------------
(* v0 and v1 are one major-version line, every later major its own. *)
normalizedMajor(v) == IF Major[v] <= 1 THEN 1 ELSE Major[v]

(* The tag whose go.mod carries the retractions that apply to latest's line. *)
governingModVersion(latest, lines) ==
    LET line == {v \in lines : normalizedMajor(v) = normalizedMajor(latest)}
        best == Highest(Preferred(line))
    IN  IF line # {} /\ Rank[best] > Rank[latest] THEN best ELSE latest

(* resolveIncompatibleLatest asks for the go.mod of one tag: the highest     *)
(* compatible one below the first incompatible tag that has any below it.    *)
LegacyProbe(lines) ==
    LET compatible == lines \ Incompatible
        above == {v \in lines \cap Incompatible : \E c \in compatible : Rank[c] < Rank[v]}
    IN  IF above = {} THEN {}
        ELSE {Highest({c \in compatible : Rank[c] < Rank[Lowest(above)]})}

(* A real go.mod there ends the search below the incompatible tags; a stub,  *)
(* or a probe that failed, leaves every tag in.                              *)
resolveIncompatibleLatest(lines, probeFailed) ==
    LET real == IF probeFailed THEN {} ELSE LegacyProbe(lines) \ Stub
        kept == {v \in lines : \A c \in real : Rank[v] <= Rank[c]}
    IN  Highest(Preferred(kept))

-----------------------------------------------------------------------------
(* A module on the proxy.  "unresolved" is a module whose @latest is a 404   *)
(* or 410: never published, or real and without a resolvable latest.         *)
Facts == [served : {"ok", "unresolved", "malware", "private"},
          tags   : SUBSET Version,
          latest : Version]

(* The requests of one Lookup, in order.                                     *)
Requests == {"latest", "list", "legacy", "mod", "info"}

Status == [exists : BOOLEAN, unknown : BOOLEAN, private : BOOLEAN, blocklisted : BOOLEAN,
           count    : Nat,
           latest   : Version \cup {NoVersion},     \* whose time is LatestTime
           earliest : Version \cup {NoVersion},     \* whose time is EarliestTime
           body     : Version \cup {NoVersion}]     \* whose go.mod is LatestModBody

Absent == [exists |-> FALSE, unknown |-> FALSE, private |-> FALSE, blocklisted |-> FALSE,
           count |-> 0, latest |-> NoVersion, earliest |-> NoVersion, body |-> NoVersion]

(* The conditions of the new-and-thin and version-flooded cases.             *)
Thin(s) == s.count = 1 /\ s.latest \in Recent
Flooded(s) == s.count > 1 /\ s.earliest \in Young

(* The basis for governingModVersion. *)
governingBasis(f, lines, failed) ==
    IF f.latest \in Incompatible /\ lines # {}
    THEN resolveIncompatibleLatest(lines, "legacy" \in failed)
    ELSE f.latest

(* Lookup once @latest answered, the requests in failed having failed. *)
Found(f, failed) ==
    LET lines == IF "list" \in failed THEN {} ELSE f.tags
        newest == IF Cardinality(lines) = 1 /\ "info" \notin failed
                  THEN Highest(lines) ELSE f.latest
    IN  [exists |-> TRUE, unknown |-> FALSE, private |-> FALSE, blocklisted |-> FALSE,
         count    |-> Cardinality(lines),
         latest   |-> newest,
         earliest |-> CASE Cardinality(lines) = 0 -> NoVersion
                        [] Cardinality(lines) = 1 -> newest
                        [] OTHER -> IF "info" \in failed THEN NoVersion ELSE Lowest(lines),
         body     |-> IF "mod" \in failed THEN NoVersion
                      ELSE governingModVersion(governingBasis(f, lines, failed), lines)]

Lookup(f, failed) ==
    CASE f.served = "private"    -> [Absent EXCEPT !.private = TRUE]
      [] f.served # "private" /\ "latest" \in failed -> [Absent EXCEPT !.unknown = TRUE]
      [] f.served = "unresolved" /\ "latest" \notin failed -> Absent
      [] f.served = "malware" /\ "latest" \notin failed -> [Absent EXCEPT !.blocklisted = TRUE]
      [] f.served = "ok" /\ "latest" \notin failed -> Found(f, failed)

(* The requests a Lookup sends, given the ones that fail: a request whose    *)
(* turn never comes cannot fail.                                             *)
Sent(f, failed) ==
    LET lines == IF "list" \in failed THEN {} ELSE f.tags
        answered == f.served = "ok" /\ "latest" \notin failed
    IN  {r \in Requests :
           \/ r = "latest" /\ f.served # "private"
           \/ r \in {"list", "mod"} /\ answered
           \/ r = "legacy" /\ answered /\ f.latest \in Incompatible /\ LegacyProbe(lines) # {}
           \/ r = "info" /\ answered /\ lines \notin {{}, {f.latest}}}

Failures(f) == {failed \in SUBSET Requests : failed \subseteq Sent(f, failed)}
=============================================================================
