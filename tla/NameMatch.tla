------------------------------ MODULE NameMatch ------------------------------
(* Which well-known module a path may be mistaken for (closestPopularMatch,  *)
(* src/check.go; Levenshtein, src/levenshtein.go; BaseName, src/gomod.go),   *)
(* and the two forms of a declared fork that excuse a name taken over as it  *)
(* is.  A path is a sequence of elements, an element a sequence of letters.  *)
EXTENDS Integers, Sequences, FiniteSets, SequencesExt

CONSTANTS
    Letter,             \* what a name is spelled with
    popularModules,     \* the curated paths, in their order
    genericBaseNames,   \* base names that are evidence of nothing
    typoMinNameLen, typoScaledMaxLen, typoMaxDistance,
    Small               \* the small form of a capital letter

ASSUME NameAssumption ==
    /\ typoMinNameLen \in Nat /\ typoScaledMaxLen \in Nat /\ typoMaxDistance \in Nat
    /\ popularModules \in Seq(Seq(Seq(Letter)) \ {<<>>})
    /\ \A c \in DOMAIN Small : Small[c] \in Letter

NoMatch == [match |-> <<>>, exact |-> FALSE]

toLower(s) == [i \in DOMAIN s |-> IF s[i] \in DOMAIN Small THEN Small[s[i]] ELSE s[i]]

Digits == {"0", "1", "2", "3", "4", "5", "6", "7", "8", "9"}

isMajorVersionSuffix(s) ==
    /\ Len(s) >= 2 /\ s[1] = "v"
    /\ \A i \in 2 .. Len(s) : s[i] \in Digits
    /\ s[2] # "0" /\ s # <<"v", "1">>

BaseName(modPath) ==
    IF Len(modPath) > 1 /\ isMajorVersionSuffix(Last(modPath))
    THEN modPath[Len(modPath) - 1] ELSE Last(modPath)

min3(a, b, c) == IF b < a THEN (IF c < b THEN c ELSE b) ELSE IF c < a THEN c ELSE a

(* One row of the table of distances between the beginnings of two names.    *)
NextRow(prev, letter, other) ==
    LET curr[j \in 0 .. Len(other)] ==
          IF j = 0 THEN prev[0] + 1
          ELSE min3(prev[j] + 1, curr[j - 1] + 1,
                    prev[j - 1] + IF letter = other[j] THEN 0 ELSE 1)
    IN  curr

Levenshtein(a, b) ==
    LET ra == toLower(a)
        rb == toLower(b)
        row[i \in 0 .. Len(ra)] ==
          IF i = 0 THEN [j \in 0 .. Len(rb) |-> j] ELSE NextRow(row[i - 1], ra[i], rb)
    IN  row[Len(ra)][Len(rb)]

Generic(name) == toLower(name) \in genericBaseNames

-----------------------------------------------------------------------------
(* The first pass: the first entry that is the module itself or goes by its  *)
(* very name decides.                                                        *)
Decides(p, modPath, name) ==
    p = modPath \/ (~Generic(BaseName(p)) /\ toLower(BaseName(p)) = toLower(name))

(* The second pass: the nearest other name, the first of equals.             *)
Allowed(a, b) == IF Len(a) < typoScaledMaxLen /\ Len(b) < typoScaledMaxLen
                 THEN 1 ELSE typoMaxDistance

Worthwhile(pName) == Len(pName) >= typoMinNameLen /\ ~Generic(pName)

InLength(a, b) == Len(a) - Len(b) \in -typoMaxDistance .. typoMaxDistance

\* mutant: an equal later one wins, the edit bound of long names for all
NearerNameLoose(best, p, name) ==
    LET pName == BaseName(p)
        d == Levenshtein(name, pName)
    IN  IF Worthwhile(pName) /\ InLength(name, pName) /\ d <= typoMaxDistance /\ d <= best.dist
        THEN [path |-> p, dist |-> d] ELSE best

NearerName(best, p, name) ==
    LET pName == BaseName(p)
        d == Levenshtein(name, pName)
    IN  IF Worthwhile(pName) /\ InLength(name, pName) /\ d <= Allowed(name, pName) /\ d < best.dist
        THEN [path |-> p, dist |-> d] ELSE best

NearestName(name) ==
    LET best[i \in 0 .. Len(popularModules)] ==
          IF i = 0 THEN [path |-> <<>>, dist |-> typoMaxDistance + 1]
          ELSE NearerName(best[i - 1], popularModules[i], name)
    IN  best[Len(popularModules)]

closestPopularMatch(modPath, name) ==
    LET deciding == {i \in DOMAIN popularModules : Decides(popularModules[i], modPath, name)}
        first == popularModules[CHOOSE i \in deciding : \A k \in deciding : i <= k]
    IN  CASE Generic(name) -> NoMatch
          [] ~Generic(name) /\ deciding # {} ->
               IF first = modPath THEN NoMatch ELSE [match |-> first, exact |-> TRUE]
          [] ~Generic(name) /\ deciding = {} ->
               IF Len(name) < typoMinNameLen THEN NoMatch
               ELSE [match |-> NearestName(name).path, exact |-> FALSE]

Match(modPath) == closestPopularMatch(modPath, BaseName(modPath))

-----------------------------------------------------------------------------
(* Forks.  oldPath is <<>> when no replace led to the module. *)
isReplacementOfExactPopularMatch(newPath, oldPath) ==
    oldPath # <<>> /\ Match(newPath).exact /\ Match(newPath).match = oldPath

isForkOfDirectlyDeclaredPopular(newPath, declared) ==
    Match(newPath).exact /\ Match(newPath).match \in declared

(* Whether a name-collision-exact finding about newPath is dropped. *)
\* mutant: only the replaced path is looked at
SuppressedByReplace(newPath, oldPath, declared) == isReplacementOfExactPopularMatch(newPath, oldPath)

Suppressed(newPath, oldPath, declared) ==
    \/ isReplacementOfExactPopularMatch(newPath, oldPath)
    \/ isForkOfDirectlyDeclaredPopular(newPath, declared)

-----------------------------------------------------------------------------
(* What the answer should be, from edits instead of a table: the names that  *)
(* up to n letters inserted, left out or changed make of a name, with the    *)
(* letters the listed names are spelled with.                                *)
listed == {popularModules[i] : i \in DOMAIN popularModules}

Spelling == UNION {{toLower(BaseName(p))[k] : k \in 1 .. Len(BaseName(p))} : p \in listed}

Edits(s) ==
    {RemoveAt(s, i) : i \in DOMAIN s}
        \cup {ReplaceAt(s, i, c) : i \in DOMAIN s, c \in Spelling}
        \cup {InsertAt(s, i, c) : i \in 1 .. Len(s) + 1, c \in Spelling}

Within(s) ==
    LET reach[n \in 0 .. typoMaxDistance] ==
          IF n = 0 THEN {s} ELSE reach[n - 1] \cup UNION {Edits(t) : t \in reach[n - 1]}
    IN  reach

(* A listed module is nobody's impersonation; a name taken over as it is, up *)
(* to case, is reported as that; another one as a near miss of one of its    *)
(* nearest names, if there is one within the edits its length allows.        *)
MatchIsNearest(modPath) ==
    LET name == BaseName(modPath)
        namesakes == {p \in listed : ~Generic(BaseName(p)) /\ toLower(BaseName(p)) = toLower(name)}
        reach == Within(toLower(name))
        Near(n) == {p \in listed : /\ Worthwhile(BaseName(p)) /\ n <= Allowed(name, BaseName(p))
                                   /\ toLower(BaseName(p)) \in reach[n]}
        near == {n \in 0 .. typoMaxDistance : Near(n) # {}}
        nearest == CHOOSE n \in near : \A k \in near : n <= k
        found == Match(modPath)
    IN  IF Generic(name) \/ modPath \in listed THEN found = NoMatch
        ELSE IF namesakes # {} THEN found.exact /\ found.match \in namesakes
        ELSE IF Len(name) < typoMinNameLen \/ near = {} THEN found = NoMatch
        ELSE ~found.exact /\ found.match \in Near(nearest)

(* Where the code takes a listed module for an impersonation after all: a    *)
(* listed namesake precedes it, and the first pass stops there, before it    *)
(* compares the module with itself.                                          *)
Shadowed(modPath) ==
    /\ modPath \in listed
    /\ \A k \in DOMAIN popularModules : popularModules[k] = modPath =>
          \E i \in 1 .. k - 1 :
             /\ popularModules[i] # modPath
             /\ toLower(BaseName(popularModules[i])) = toLower(BaseName(modPath))

(* A finding that a name was taken over is dropped only when a module that   *)
(* goes by that name is itself named, replaced by this one or required, and  *)
(* always when no other listed module goes by that name.                     *)
DroppedIffGenuineNamed(newPath, oldPath, declared) ==
    LET genuine == {p \in listed : toLower(BaseName(p)) = toLower(BaseName(newPath))}
        named == genuine \cap (declared \cup {oldPath}) # {}
    IN  Match(newPath).exact =>
            /\ Suppressed(newPath, oldPath, declared) => named
            /\ named /\ Cardinality(genuine) = 1 => Suppressed(newPath, oldPath, declared)
=============================================================================
