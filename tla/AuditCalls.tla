------------------------------ MODULE AuditCalls ------------------------------
(* One call of a pure function of the audit, on any input it can be given:   *)
(* the name of a required module, a fork, a private pattern, a version       *)
(* query, the go version of a file.  The result follows from the input, so   *)
(* the input is all there is to the state.                                   *)
EXTENDS NameMatch, PrefixPattern, VersionQueries, GoVersions

CONSTANTS
    NameInputs, ForkInputs, PatternInputs, QueryInputs, GoInputs,
    Releases        \* the versions without a prerelease part that may be tagged

(* A module path has an element, and a name is spelled with letters. *)
IsPath(p) == p \in Seq(Seq(Letter)) \ {<<>>}

(* A tagged version has all three numbers, a go version at most three parts, *)
(* the first of them a number.                                               *)
IsTag(v) == v \in [num : Seq(Nat), pre : Nat] /\ Len(v.num) = 3

IsGoVersion(v) ==
    \/ v = NoText
    \/ /\ v \in [go : BOOLEAN, parts : Seq([n : Nat, suffix : BOOLEAN])]
       /\ Len(v.parts) \in 1 .. 3 /\ ~v.parts[1].suffix

(* What parseComparisonQuery takes for a target: one, two or three numbers,  *)
(* with a prerelease part only after three.                                  *)
IsTarget(v) ==
    /\ v \in [num : Seq(Nat), pre : Nat] /\ Len(v.num) \in 1 .. 3
    /\ v.pre # 0 => Len(v.num) = 3

ASSUME CallAssumption ==
    /\ \A i \in NameInputs : i.of = "name" /\ IsPath(i.path)
    /\ \A i \in ForkInputs : i.of = "fork" /\ IsPath(i.path)
    /\ \A i \in PatternInputs :
         i.of = "pattern" /\ i.path \in Seq(Letter) /\ i.parts \in Seq(Seq(Letter))
    /\ \A i \in QueryInputs :
         /\ i.of = "query" /\ i.failed \subseteq {"latest", "list", "info"}
         /\ IsTag(i.proxy.latest) /\ DOMAIN i.proxy.tags = 1 .. Len(i.proxy.tags)
         /\ Len(i.proxy.tags) \in Nat /\ \A k \in DOMAIN i.proxy.tags : IsTag(i.proxy.tags[k])
         /\ i.query.op \in {"<", "<=", ">", ">=", "latest", "upgrade", ""}
         /\ isComparison(i.query) => IsTarget(i.query.target)
         /\ i.query.op = "" => IsTag(i.query.target)
    /\ \A i \in GoInputs :
         i.of = "go" /\ IsGoVersion(i.declared) /\ ~i.declared.go /\ IsGoVersion(i.local)

(* Every line of releases has a release after its first one. *)
ASSUME ReleaseAssumption ==
    /\ \A v \in Releases : IsTag(v) /\ v.pre = 0
    /\ \A i \in QueryInputs :
         isAmbiguousComparisonQuery(i.query) =>
            \E v \in Releases : InLine(v, i.query.target) /\ Below(i.query.target, v)

VARIABLE input

Init == input \in GoInputs \cup ForkInputs \cup NameInputs \cup PatternInputs \cup QueryInputs
Next == UNCHANGED input
Spec == Init /\ [][Next]_input

-----------------------------------------------------------------------------
(* The nearest well-known name is found, and none where there is none: the   *)
(* length bounds, the pruning and the order of the two passes of             *)
(* closestPopularMatch change nothing that edits alone would decide, and no  *)
(* listed module is flagged.  The one exception is a listed module behind a  *)
(* listed namesake, which the code takes for an impersonation of it.         *)
NearestNameFound ==
    input.of = "name" =>
        \/ MatchIsNearest(input.path)
        \/ Shadowed(input.path) /\ Match(input.path).exact

(* suppressForkOfDeclaredPopular drops a name-collision-exact finding only   *)
(* where the file names a module that is really called so, and always if the *)
(* list has one such module.                                                 *)
ForksOfNamedDropped ==
    input.of = "fork" => DroppedIffGenuineNamed(input.path, input.old, input.declared)

TakesNameOf(newPath, oldPath) ==
    /\ Match(newPath).exact
    /\ oldPath \in Range(popularModules)
    /\ toLower(BaseName(oldPath)) = toLower(BaseName(newPath))

(* src/check.go:3119 of isReplacementOfExactPopularMatch, for whose sake the *)
(* finding is dropped: "newPath's base name is an exact-case-insensitive     *)
(* match of a popularModules entry whose full path is literally oldPath".    *)
ReplacementOfListedDropped ==
    input.of = "fork" /\ TakesNameOf(input.path, input.old)
        => Suppressed(input.path, input.old, input.declared)

(* matchesAnyPattern hides exactly the modules the patterns name, element by *)
(* element: a private path is never asked for in public, and no other is     *)
(* left out of the audit.                                                    *)
PrivateExactly == input.of = "pattern" => PrivateByElements(input.path, input.parts)

(* Version queries resolve as in the go command, a failed request is never   *)
(* taken for a missing version, and exactly the ambiguous ones are refused.  *)
QueriesAnswered ==
    input.of = "query" =>
        /\ ResolvesToNearest(input.proxy, input.query, input.failed)
        /\ SaysWhatItKnows(input.proxy, input.query, input.failed)
        /\ RefusedIffAmbiguous(input.query, Releases)

(* go-version-unsatisfiable and the too-old findings are right of every      *)
(* released toolchain, to the minor version.                                 *)
GoVerdictsExact == input.of = "go" => VerdictsAreExact(input.declared, input.local)
=============================================================================
