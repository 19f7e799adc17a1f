---------------------------- MODULE PrefixPattern ----------------------------
(* Which modules are private (src/pattern.go): the GONOPROXY patterns as     *)
(* texts, matched letter by letter against the beginning of a module path.   *)
EXTENDS Integers, Sequences, FiniteSets, SequencesExt

TrimSlash(s) == IF s # <<>> /\ Last(s) = "/" THEN Front(s) ELSE s

Slashes(s) == {i \in DOMAIN s : s[i] = "/"}

(* path.Match of the Go library, on "*", "?" and letters: neither wildcard   *)
(* takes a slash.                                                            *)
PathMatch(pattern, s) ==
    LET m[at \in (1 .. Len(pattern) + 1) \X (1 .. Len(s) + 1)] ==
          LET i == at[1]
              j == at[2]
          IN  IF i > Len(pattern) THEN j > Len(s)
              ELSE IF pattern[i] = "*"
              THEN m[<<i + 1, j>>] \/ (j <= Len(s) /\ s[j] # "/" /\ m[<<i, j + 1>>])
              ELSE /\ j <= Len(s)
                   /\ s[j] = pattern[i] \/ (pattern[i] = "?" /\ s[j] # "/")
                   /\ m[<<i + 1, j + 1>>]
    IN  m[<<1, 1>>]

(* The path up to its n-th slash, exclusive, n counted from 0; the whole     *)
(* path if it has no more than n.                                            *)
\* mutant: the slash that ends the prefix is kept
PrefixOfSlashed(modulePath, n) ==
    LET ends == {i \in Slashes(modulePath) : Cardinality({k \in Slashes(modulePath) : k < i}) = n}
    IN  IF ends = {} THEN modulePath ELSE SubSeq(modulePath, 1, CHOOSE i \in ends : TRUE)

PrefixOf(modulePath, n) ==
    LET ends == {i \in Slashes(modulePath) : Cardinality({k \in Slashes(modulePath) : k < i}) = n}
    IN  IF ends = {} THEN modulePath ELSE SubSeq(modulePath, 1, (CHOOSE i \in ends : TRUE) - 1)

matchesPrefixPattern(given, modulePath) ==
    LET pattern == TrimSlash(given)
        n == Cardinality(Slashes(pattern))
    IN  /\ pattern # <<>>
        /\ Cardinality(Slashes(modulePath)) >= n
        /\ PathMatch(pattern, PrefixOf(modulePath, n))

matchesAnyPattern(modulePath, patterns) ==
    \E p \in patterns : matchesPrefixPattern(p, modulePath)

(* The value as the commas cut it: an empty part is no pattern, and nothing  *)
(* depends on the order of the others.                                       *)
splitPatterns(parts) == {p \in Range(parts) : p # <<>>}

-----------------------------------------------------------------------------
(* What a pattern means: element by element, an element standing between two *)
(* neighbours among the beginning, the slashes and the end.                  *)
Ranked(S, n) == CHOOSE i \in S : Cardinality({k \in S : k < i}) = n

Elements(s) ==
    LET borders == Slashes(s) \cup {0, Len(s) + 1}
        border == [e \in 0 .. Cardinality(Slashes(s)) + 1 |-> Ranked(borders, e)]
    IN  [e \in 1 .. Cardinality(Slashes(s)) + 1 |-> SubSeq(s, border[e - 1] + 1, border[e] - 1)]

(* A module is private exactly when the elements of some pattern, one        *)
(* slash at its end not counted, match the first elements of its path; an    *)
(* empty pattern makes nothing private.                                      *)
PrivateByElements(modulePath, parts) ==
    matchesAnyPattern(modulePath, splitPatterns(parts)) <=>
        \E i \in DOMAIN parts :
            LET pattern == Elements(TrimSlash(parts[i]))
                path == Elements(modulePath)
            IN  /\ TrimSlash(parts[i]) # <<>>
                /\ Len(path) >= Len(pattern)
                /\ \A e \in DOMAIN pattern : PathMatch(pattern[e], path[e])
=============================================================================
