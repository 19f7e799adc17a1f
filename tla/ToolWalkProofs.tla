--------------------------- MODULE ToolWalkProofs ---------------------------
(* The bound on the Lookups that tool directives cost, and the verdict each  *)
(* package gets, for every cap, every list of directives and every proxy.    *)
EXTENDS ToolWalk, FiniteSetTheorems, WellFoundedInduction, TLAPS

(* WalkStaysShort alone does not tell how long the walk in progress may      *)
(* still be, or that the directives ahead have cost nothing yet.             *)
ToolTypes ==
    /\ tools \in Seq(Packages)
    /\ tool \in Nat \ {0} /\ tried \in Nat
    /\ asked \in [DOMAIN tools -> SUBSET Int]

(* What may have been asked for a directive, finished or not. *)
Short(s, t) ==
    /\ IsFiniteSet(s) /\ Cardinality(s) <= ToolCap
    /\ s # {} =>
          /\ ~Covered(tools[t]) /\ tools[t].replaced = <<>>
          /\ \A u \in 1..(t - 1) : tools[u] # tools[t]

(* The directives ahead, and the one at hand before its walk starts.         *)
Untouched(t) == t > tool \/ (t = tool /\ place # "walk") => asked[t] = {}

Walking ==
    place = "walk" =>
        /\ tool \in DOMAIN tools /\ tools[tool] \notin seen
        /\ ~Covered(tools[tool]) /\ tools[tool].replaced = <<>>
        /\ Cardinality(asked[tool]) <= tried

Remembered == \A u \in DOMAIN tools : u < tool => tools[u] \in seen

ToolInv ==
    /\ ToolTypes
    /\ \A t \in DOMAIN tools : Short(asked[t], t) /\ Untouched(t)
    /\ Walking
    /\ Remembered

LEMMA ToolInitially == ASSUME ToolInit PROVE ToolInv
<1> USE DEF ToolInit
<1>1. ToolTypes
  BY ToolAssumption DEF ToolTypes
<1>2. ASSUME NEW t \in DOMAIN tools PROVE Short(asked[t], t) /\ Untouched(t)
  BY FS_EmptySet, ToolAssumption DEF Short, Covered, Untouched
<1>3. Walking
  BY DEF Walking
<1>4. Remembered
  BY <1>1 DEF Remembered, ToolTypes
<1>5. QED
  BY <1>1, <1>2, <1>3, <1>4 DEF ToolInv

(* Going on to the next directive keeps everything, once what was asked for  *)
(* this one is short.                                                        *)
LEMMA GoingOn ==
    ASSUME ToolInv, GoOn, tool \in DOMAIN tools, UNCHANGED tools,
           asked' \in [DOMAIN tools -> SUBSET Int],
           \A t \in DOMAIN tools : t # tool => asked'[t] = asked[t],
           Short(asked'[tool], tool)
    PROVE  ToolInv'
<1> USE DEF ToolInv, GoOn, package
<1>1. ToolTypes'
  BY DEF ToolTypes
<1>2. ASSUME NEW t \in DOMAIN tools PROVE Short(asked[t], t)' /\ Untouched(t)'
  <2>1. CASE t = tool
    BY <2>1 DEF Untouched, ToolTypes, Short, Covered
  <2>2. CASE t # tool
    <3>1. asked'[t] = asked[t]
      BY <2>2
    <3>2. t > tool' => t > tool
      BY DEF ToolTypes
    <3>3. t = tool' => t > tool
      BY DEF ToolTypes
    <3>4. QED
      BY <3>1, <3>2, <3>3 DEF Short, Covered, Untouched
  <2>3. QED
    BY <2>1, <2>2
<1>3. Walking'
  BY DEF Walking
<1>4. Remembered'
  BY DEF Remembered, ToolTypes
<1>5. QED
  BY <1>1, <1>2, <1>3, <1>4

LEMMA ToolStepKeeps == ASSUME ToolInv, [ToolNext]_toolVars PROVE ToolInv'
<1>1. ASSUME tool <= Len(tools) PROVE tool \in DOMAIN tools
  BY <1>1 DEF ToolInv, ToolTypes
<1>2. CASE Skip
  BY <1>1, <1>2, GoingOn DEF Skip, ToolInv, ToolTypes, Short, Covered
<1>3. CASE ReplacedNotRequired
  BY <1>1, <1>3, GoingOn DEF ReplacedNotRequired, ToolInv, ToolTypes, Short, Covered
<1>4. CASE StartWalk
  <2>1. tool \in DOMAIN tools /\ asked[tool] = {}
    BY <1>1, <1>4 DEF StartWalk, ToolInv, Untouched
  <2>2. Walking'
    <3>1. /\ tools[tool] \notin seen /\ ~Covered(tools[tool])
          /\ tools[tool].replaced = <<>> /\ UNCHANGED <<tools, tool, tried, seen, asked>>
      BY <1>4 DEF StartWalk, package
    <3>2. Cardinality(asked[tool]) = 0 /\ tried >= 0
      BY <2>1, FS_EmptySet DEF ToolInv, ToolTypes
    <3>3. QED
      BY <2>1, <3>1, <3>2 DEF Walking, Covered
  <2>3. QED
    BY <1>4, <2>2 DEF StartWalk, ToolInv, ToolTypes, Short, Covered, Untouched, Remembered
<1>5. CASE AskPrefix
  <2>1. /\ tool \in DOMAIN tools /\ tools[tool] \notin seen
        /\ ~Covered(tools[tool]) /\ tools[tool].replaced = <<>>
        /\ Cardinality(asked[tool]) <= tried /\ tried < ToolCap
        /\ IsFiniteSet(asked[tool])
    BY <1>5 DEF AskPrefix, MayAsk, ToolInv, Walking, Short
  <2>2. prefix \in Int /\ tools' = tools
    <3>1. tools[tool] \in Packages
      BY <2>1 DEF ToolInv, ToolTypes
    <3>2. tools[tool].length \in Nat
      BY <3>1, ToolAssumption
    <3>3. QED
      BY <1>5, <3>2 DEF AskPrefix, prefix, package, ToolInv, ToolTypes
  <2>3. /\ asked' \in [DOMAIN tools -> SUBSET Int]
        /\ asked'[tool] = asked[tool] \cup {prefix}
        /\ \A t \in DOMAIN tools : t # tool => asked'[t] = asked[t]
    BY <1>5, <2>1, <2>2 DEF AskPrefix, ToolInv, ToolTypes
  <2>4. /\ IsFiniteSet(asked'[tool])
        /\ Cardinality(asked'[tool]) <= tried + 1
    <3>1. Cardinality(asked[tool]) \in Nat
      BY <2>1, FS_CardinalityType
    <3>2. /\ IsFiniteSet(asked[tool] \cup {prefix})
          /\ Cardinality(asked[tool] \cup {prefix}) \in
                 {Cardinality(asked[tool]), Cardinality(asked[tool]) + 1}
      BY <2>1, FS_AddElement
    <3>3. QED
      BY <2>1, <2>3, <3>1, <3>2 DEF ToolInv, ToolTypes
  <2>5. Cardinality(asked'[tool]) \in Nat
    BY <2>4, FS_CardinalityType
  <2>6. \A u \in 1..(tool - 1) : tools[u] # tools[tool]
    BY <2>1 DEF ToolInv, ToolTypes, Remembered
  <2>7. /\ IsFiniteSet(asked'[tool]) /\ Cardinality(asked'[tool]) <= ToolCap
        /\ ~Covered(tools'[tool]) /\ tools'[tool].replaced = <<>>
        /\ \A u \in 1..(tool - 1) : tools'[u] # tools'[tool]
    BY <2>1, <2>2, <2>4, <2>5, <2>6, ToolAssumption DEF ToolInv, ToolTypes
  <2>8. CASE GoOn
    <3>1. QED
      BY <2>1, <2>2, <2>3, <2>7, <2>8, GoingOn DEF Short, Covered
  <2>9. CASE tried' = tried + 1 /\ UNCHANGED <<tool, place, seen>>
    <3>1. ToolTypes'
      BY <2>2, <2>3, <2>9 DEF ToolInv, ToolTypes
    <3>2. ASSUME NEW t \in DOMAIN tools PROVE Short(asked[t], t)' /\ Untouched(t)'
      BY <1>5, <2>2, <2>3, <2>7, <2>9 DEF AskPrefix, ToolInv, Short, Covered, Untouched
    <3>3. Walking' /\ Remembered'
      BY <2>1, <2>2, <2>4, <2>9 DEF ToolInv, Walking, Remembered
    <3>4. QED
      BY <2>2, <3>1, <3>2, <3>3 DEF ToolInv
  <2>10. QED
    BY <1>5, <2>8, <2>9 DEF AskPrefix
<1>6. CASE Unowned
  <2>1. tool \in DOMAIN tools
    BY <1>6 DEF Unowned, ToolInv, Walking
  <2>2. QED
    BY <1>6, <2>1, GoingOn DEF Unowned, ToolInv, ToolTypes, Short, Covered
<1>7. CASE UNCHANGED toolVars
  BY <1>7 DEF toolVars, ToolInv, ToolTypes, Short, Covered, Untouched, Walking, Remembered
<1>8. QED
  BY <1>2, <1>3, <1>4, <1>5, <1>6, <1>7 DEF ToolNext, ToolStep, ToolsChecked

(* For every cap, every list of tool directives and every proxy: at most     *)
(* ToolCap Lookups for a directive, none for one the go.mod decides, none    *)
(* for a repetition.                                                         *)
THEOREM ToolWalkIsShort == ToolSpec => []WalkStaysShort
<1>1. ToolInv => WalkStaysShort
  BY DEF ToolInv, Short, WalkStaysShort
<1>2. QED
  BY <1>1, ToolInitially, ToolStepKeeps, PTL DEF ToolSpec

-----------------------------------------------------------------------------
(* The verdict of each package. *)

Said(p) == {f \in reported : f.package = p}
OwnerUnanswered(p) ==
    WithinCap(p) /\ \E u \in 1..(tool - 1) : tools[u] = p /\ Owner(p) \in unanswered[u]

(* A package dealt with has its verdict or its excuse; of the others nothing *)
(* is said yet.                                                              *)
Judged ==
    /\ tool <= Len(tools) + 1
    /\ unanswered \in [DOMAIN tools -> SUBSET Int]
    /\ \A p \in seen : \E u \in 1..(tool - 1) : tools[u] = p
    /\ \A f \in reported : f.package \in seen
    /\ \A p \in seen : Said(p) = Verdict(p) \/ OwnerUnanswered(p)

(* There was nothing at the prefixes a walk has gone past, but for the ones  *)
(* whose Lookup failed.                                                      *)
WalkedPast ==
    /\ place \in {"next", "walk"} /\ (place = "next" => tried = 0)
    /\ place = "walk" =>
         \A k \in 1..package.length : k > prefix =>
            package.facts[k].served = "unresolved" \/ k \in unanswered[tool]

JudgedInv == ToolInv /\ Judged /\ WalkedPast

(* A package anything is served for has an owner.                            *)
LEMMA OwnerFound ==
    ASSUME NEW p \in Packages, Serves(p) # {}
    PROVE  Owner(p) \in Serves(p) /\ \A j \in Serves(p) : j <= Owner(p)
<1> DEFINE S == Serves(p)
           longer(v) == {w \in S : v < w}
           T == {longer(v) : v \in S}
<1>1. S \subseteq 1..p.length /\ p.length \in Nat
  BY ToolAssumption DEF Serves
<1>2. IsFiniteSet(S)
  <2>1. IsFiniteSet(1..p.length)
    BY <1>1, FS_Interval
  <2>2. QED
    BY <1>1, <2>1, FS_Subset
<1>3. FiniteSubsetsOf(S) = SUBSET S
  BY <1>2, FS_FiniteSubsetsOfFinite
<1>4. T \subseteq SUBSET S /\ T # {}
  OBVIOUS
<1>5. PICK x \in T : \A y \in T : <<y, x>> \notin StrictSubsetOrdering(S)
  <2> HIDE DEF T, S
  <2> QED
    BY <1>3, <1>4, FS_StrictSubsetOrderingWellFounded, WFMin
<1>6. PICK v \in S : x = longer(v)
  BY <1>5
<1>7. ASSUME NEW w \in S, v < w PROVE FALSE
  <2>1. longer(w) \subseteq longer(v) /\ w \in longer(v) /\ w \notin longer(w)
    BY <1>1, <1>7
  <2>2. <<longer(w), longer(v)>> \in StrictSubsetOrdering(S)
    BY <2>1 DEF StrictSubsetOrdering
  <2>3. QED
    BY <1>5, <1>6, <2>2
<1>8. \A w \in S : w <= v
  BY <1>1, <1>7
<1>9. QED
  BY <1>8 DEF Owner

(* What a Lookup says of how a prefix is served.                             *)
LEMMA LookupTells ==
    ASSUME NEW f \in Facts, NEW failed
    PROVE  LET s == Lookup(f, failed)
           IN  /\ Owned(s) => f.served # "unresolved" /\ s # Absent
               /\ Owned(s) => (s.blocklisted <=> f.served = "malware")
               /\ ~Owned(s) => s.unknown \/ f.served = "unresolved"
<1> DEFINE s == Lookup(f, failed)
<1>1. f.served \in {"ok", "unresolved", "malware", "private"}
  BY DEF Facts
<1> USE DEF Owned
<1>2. CASE f.served = "private"
  BY <1>2 DEF Lookup, Absent
<1>3. CASE f.served # "private" /\ "latest" \in failed
  BY <1>3 DEF Lookup, Absent
<1>4. CASE f.served = "unresolved" /\ "latest" \notin failed
  BY <1>4 DEF Lookup, Absent
<1>5. CASE f.served = "malware" /\ "latest" \notin failed
  BY <1>5 DEF Lookup, Absent
<1>6. CASE f.served = "ok" /\ "latest" \notin failed
  <2>1. s = Found(f, failed)
    BY <1>6 DEF Lookup
  <2>2. Found(f, failed).exists /\ ~Found(f, failed).blocklisted /\ ~Absent.exists
    BY DEF Found, Absent
  <2>3. QED
    BY <1>6, <2>1, <2>2
<1>7. QED
  BY <1>1, <1>2, <1>3, <1>4, <1>5, <1>6

(* A directive done with keeps what the earlier ones have, once what is said *)
(* of its own package is the verdict or has an excuse.                       *)
LEMMA JudgedAdds ==
    ASSUME ToolInv, Judged, tool \in DOMAIN tools, GoOn, UNCHANGED tools, package \notin seen,
           unanswered' \in [DOMAIN tools -> SUBSET Int],
           \A t \in DOMAIN tools : unanswered[t] \subseteq unanswered'[t],
           NEW N, reported' = reported \cup N, \A f \in N : f.package = package,
           N = Verdict(package) \/ (WithinCap(package) /\ Owner(package) \in unanswered'[tool])
    PROVE  Judged' /\ WalkedPast'
<1>1. /\ tool \in Nat \ {0} /\ tool' = tool + 1 /\ seen' = seen \cup {package}
      /\ place' = "next" /\ tried' = 0 /\ package = tools[tool]
      /\ DOMAIN tools = 1..Len(tools) /\ Len(tools) \in Nat
  BY DEF GoOn, ToolInv, ToolTypes, package
<1>2. \A p \in seen' : \E u \in 1..(tool' - 1) : tools'[u] = p
  BY <1>1 DEF Judged
<1>3. \A f \in reported' : f.package \in seen'
  BY <1>1 DEF Judged
<1>4. ASSUME NEW p \in seen' PROVE Said(p)' = Verdict(p) \/ OwnerUnanswered(p)'
  <2>1. CASE p = package
    <3>1. Said(p)' = N
      BY <2>1 DEF Said, Judged
    <3>2. CASE N = Verdict(package)
      BY <2>1, <3>1, <3>2
    <3>3. CASE WithinCap(package) /\ Owner(package) \in unanswered'[tool]
      BY <1>1, <2>1, <3>3 DEF OwnerUnanswered
    <3>4. QED
      BY <3>2, <3>3
  <2>2. CASE p # package
    <3>1. Said(p)' = Said(p) /\ p \in seen
      BY <1>1, <2>2 DEF Said
    <3>2. OwnerUnanswered(p) => OwnerUnanswered(p)'
      BY <1>1 DEF OwnerUnanswered
    <3>3. QED
      BY <3>1, <3>2 DEF Judged
  <2>3. QED
    BY <2>1, <2>2
<1>5. tool' <= Len(tools') + 1
  BY <1>1
<1>6. QED
  BY <1>1, <1>2, <1>3, <1>4, <1>5 DEF Judged, WalkedPast

(* A walk that ends at prefix k has the owner, or has gone past it because   *)
(* its Lookup failed.                                                        *)
LEMMA WalkFindsOwner ==
    ASSUME NEW p \in Packages, NEW k \in 1..p.length, k \in Serves(p), NEW U,
           \A j \in 1..p.length : j > k => p.facts[j].served = "unresolved" \/ j \in U,
           p.length - k < ToolCap
    PROVE  WithinCap(p) /\ (k = Owner(p) \/ Owner(p) \in U)
<1>1. /\ Owner(p) \in 1..p.length /\ p.facts[Owner(p)].served # "unresolved"
      /\ k <= Owner(p)
  BY OwnerFound DEF Serves
<1>2. p.length \in Nat /\ ToolCap \in Nat
  BY ToolAssumption
<1>3. p.length - Owner(p) < ToolCap
  BY <1>1, <1>2
<1>4. k = Owner(p) \/ Owner(p) \in U
  BY <1>1, <1>2
<1>5. QED
  BY <1>3, <1>4 DEF WithinCap

LEMMA JudgedInitially == ASSUME ToolInit PROVE JudgedInv
<1>1. Judged
  BY DEF ToolInit, Judged
<1>2. WalkedPast
  BY DEF ToolInit, WalkedPast
<1>3. QED
  BY <1>1, <1>2, ToolInitially DEF JudgedInv

LEMMA JudgedStep == ASSUME JudgedInv, [ToolNext]_toolVars PROVE Judged' /\ WalkedPast'
<1>1. ToolInv /\ Judged /\ WalkedPast
  BY DEF JudgedInv
<1>2. ASSUME tool <= Len(tools) \/ place = "walk" PROVE tool \in DOMAIN tools /\ package \in Packages
  BY <1>1, <1>2 DEF ToolInv, ToolTypes, Walking, package
<1>3. CASE Skip
  <2>1. tool \in DOMAIN tools /\ GoOn /\ UNCHANGED <<tools, reported, unanswered>>
    BY <1>2, <1>3 DEF Skip
  <2>2. CASE package \notin seen
    <3>1. Verdict(package) = {}
      BY <1>3, <2>2 DEF Skip, Verdict
    <3>2. reported' = reported \cup {} /\ unanswered' = unanswered
      BY <2>1
    <3>3. QED
      BY <1>1, <2>1, <2>2, <3>1, <3>2, JudgedAdds DEF Judged
  <2>3. CASE package \in seen
    <3>1. seen' = seen /\ tool' = tool + 1 /\ place' = "next" /\ tried' = 0 /\ tool \in Nat
      BY <1>1, <2>1, <2>3 DEF GoOn, ToolInv, ToolTypes
    <3>2. \A p : Said(p)' = Said(p) /\ (OwnerUnanswered(p) => OwnerUnanswered(p)')
      BY <2>1, <3>1 DEF Said, OwnerUnanswered
    <3>3. \A p \in seen' : \E u \in 1..(tool' - 1) : tools'[u] = p
      BY <1>1, <2>1, <3>1 DEF Judged
    <3>4. QED
      BY <1>1, <2>1, <3>1, <3>2, <3>3 DEF Judged, WalkedPast
  <2>4. QED
    BY <2>2, <2>3
<1>4. CASE ReplacedNotRequired
  <2>1. /\ tool \in DOMAIN tools /\ GoOn /\ UNCHANGED <<tools, unanswered>> /\ package \notin seen
        /\ ~Covered(package) /\ package.replaced # <<>>
        /\ reported' = reported \cup
             {Reported("tool-replaced-not-required", package, package.replaced[1])}
    BY <1>2, <1>4 DEF ReplacedNotRequired
  <2>2. Verdict(package) = {Reported("tool-replaced-not-required", package, package.replaced[1])}
    BY <2>1 DEF Verdict
  <2>3. \A f \in Verdict(package) : f.package = package
    BY <2>2 DEF Reported
  <2>4. QED
    BY <1>1, <2>1, <2>2, <2>3, JudgedAdds DEF Judged
<1>5. CASE StartWalk
  <2>1. UNCHANGED <<tools, tool, tried, seen, reported, unanswered>> /\ place = "next" /\ place' = "walk"
    BY <1>5 DEF StartWalk
  <2>2. Judged'
    BY <1>1, <2>1 DEF Judged, Said, OwnerUnanswered
  <2>3. prefix = package.length /\ package' = package /\ prefix' = prefix
    <3>1. package.length \in Nat
      BY <1>2, <1>5, ToolAssumption DEF StartWalk
    <3>2. QED
      BY <1>1, <2>1, <3>1 DEF WalkedPast, prefix, package
  <2>4. \A k \in 1..package.length : ~(k > prefix)
    <3>1. package.length \in Nat
      BY <1>2, <1>5, ToolAssumption DEF StartWalk
    <3>2. QED
      BY <2>3, <3>1
  <2>5. QED
    BY <2>1, <2>2, <2>3, <2>4 DEF WalkedPast
<1>6. CASE AskPrefix
  <2>1. /\ place = "walk" /\ tool \in DOMAIN tools /\ package \in Packages /\ package \notin seen
        /\ ~Covered(package) /\ package.replaced = <<>> /\ UNCHANGED tools
    BY <1>1, <1>2, <1>6 DEF AskPrefix, ToolInv, Walking, package
  <2>2. /\ package.length \in Nat /\ tried \in Nat /\ ToolCap \in Nat
        /\ package.facts \in [1..package.length -> Facts]
    BY <1>1, <2>1, ToolAssumption DEF ToolInv, ToolTypes
  <2>3. prefix \in 1..package.length /\ tried < ToolCap /\ package.length - prefix = tried
    BY <1>6, <2>2 DEF AskPrefix, MayAsk, prefix
  <2>4. PICK failed \in Failures(package.facts[prefix]) :
          LET status == Lookup(package.facts[prefix], failed)
          IN  /\ \/ /\ Owned(status)
                    /\ reported' = reported \cup Evaluated(status, package, prefix)
                    /\ GoOn
                 \/ /\ ~Owned(status)
                    /\ tried' = tried + 1
                    /\ UNCHANGED <<tool, place, seen, reported>>
              /\ unanswered' = IF status.unknown
                               THEN [unanswered EXCEPT ![tool] = @ \cup {prefix}]
                               ELSE unanswered
    BY <1>6 DEF AskPrefix
  <2> DEFINE status == Lookup(package.facts[prefix], failed)
  <2>5. /\ Owned(status) => package.facts[prefix].served # "unresolved" /\ status # Absent
        /\ Owned(status) => (status.blocklisted <=> package.facts[prefix].served = "malware")
        /\ ~Owned(status) => status.unknown \/ package.facts[prefix].served = "unresolved"
    BY <2>2, <2>3, LookupTells
  <2>6. /\ unanswered' \in [DOMAIN tools -> SUBSET Int]
        /\ \A t \in DOMAIN tools : unanswered[t] \subseteq unanswered'[t]
        /\ status.unknown => prefix \in unanswered'[tool]
    BY <1>1, <2>1, <2>3, <2>4 DEF Judged
  <2>7. \A k \in 1..package.length : k > prefix =>
           package.facts[k].served = "unresolved" \/ k \in unanswered[tool]
    BY <1>1, <2>1 DEF WalkedPast
  <2>8. CASE Owned(status)
    <3>1. GoOn /\ reported' = reported \cup Evaluated(status, package, prefix)
      BY <2>4, <2>8
    <3>2. Evaluated(status, package, prefix) =
            IF package.facts[prefix].served = "malware"
            THEN {Reported("proxy-blocklisted-malicious", package, prefix)} ELSE {}
      BY <2>5, <2>8 DEF Evaluated
    <3>3. \A f \in Evaluated(status, package, prefix) : f.package = package
      BY <3>2 DEF Reported
    <3>4. prefix \in Serves(package)
      BY <2>3, <2>5, <2>8 DEF Serves
    <3>5. WithinCap(package) /\ (prefix = Owner(package) \/ Owner(package) \in unanswered[tool])
      BY <2>1, <2>3, <2>7, <3>4, WalkFindsOwner
    <3>6. CASE prefix = Owner(package)
      <4>1. Evaluated(status, package, prefix) = Verdict(package)
        BY <2>1, <3>2, <3>5, <3>6 DEF Verdict
      <4>2. QED
        BY <1>1, <2>1, <2>6, <3>1, <3>3, <4>1, JudgedAdds
    <3>7. CASE Owner(package) \in unanswered[tool]
      <4>1. Owner(package) \in unanswered'[tool]
        BY <2>1, <2>6, <3>7
      <4>2. QED
        BY <1>1, <2>1, <2>6, <3>1, <3>3, <3>5, <4>1, JudgedAdds
    <3>8. QED
      BY <3>5, <3>6, <3>7
  <2>9. CASE ~Owned(status)
    <3>1. tried' = tried + 1 /\ UNCHANGED <<tools, tool, place, seen, reported>>
      BY <2>1, <2>4, <2>9
    <3>2. Judged'
      <4>1. \A p : Said(p)' = Said(p)
        BY <3>1 DEF Said
      <4>2. \A p : OwnerUnanswered(p) => OwnerUnanswered(p)'
        <5>1. \A u \in 1..(tool - 1) : u \in DOMAIN tools
          BY <1>1, <2>1 DEF ToolInv, ToolTypes
        <5>2. QED
          BY <2>6, <3>1, <5>1 DEF OwnerUnanswered
      <4>3. QED
        BY <1>1, <2>6, <3>1, <4>1, <4>2 DEF Judged
    <3>3. package' = package /\ prefix' = prefix - 1
      <4>1. package' = package
        BY <3>1 DEF package
      <4>2. prefix' = package.length - (tried + 1)
        BY <3>1, <4>1 DEF prefix
      <4>3. QED
        BY <2>2, <4>1, <4>2 DEF prefix
    <3>4. ASSUME NEW k \in 1..package.length, k > prefix'
          PROVE  package.facts[k].served = "unresolved" \/ k \in unanswered'[tool]
      <4>1. CASE k = prefix
        BY <2>5, <2>6, <2>9, <4>1
      <4>2. CASE k > prefix
        BY <2>1, <2>6, <2>7, <4>2
      <4>3. QED
        BY <2>3, <3>3, <3>4, <4>1, <4>2
    <3>5. QED
      BY <2>1, <3>1, <3>2, <3>3, <3>4 DEF WalkedPast
  <2>10. QED
    BY <2>8, <2>9
<1>7. CASE Unowned
  <2>1. /\ place = "walk" /\ tool \in DOMAIN tools /\ package \in Packages /\ package \notin seen
        /\ ~Covered(package) /\ package.replaced = <<>> /\ UNCHANGED <<tools, unanswered>>
        /\ GoOn /\ ~MayAsk
    BY <1>1, <1>2, <1>7 DEF Unowned, ToolInv, Walking, package
  <2>2. Evaluated(Absent, package, package.length) = {Reported("not-found", package, package.length)}
    BY DEF Evaluated, Absent
  <2>3. reported' = reported \cup {Reported("not-found", package, package.length)}
    BY <1>7, <2>2 DEF Unowned
  <2>4. \A f \in {Reported("not-found", package, package.length)} : f.package = package
    BY DEF Reported
  <2>5. CASE ~WithinCap(package)
    <3>1. Verdict(package) = {Reported("not-found", package, package.length)}
      BY <2>1, <2>5 DEF Verdict
    <3>2. QED
      BY <1>1, <2>1, <2>3, <2>4, <3>1, JudgedAdds DEF Judged
  <2>6. CASE WithinCap(package)
    <3>1. /\ Owner(package) \in 1..package.length /\ package.facts[Owner(package)].served # "unresolved"
          /\ package.length - Owner(package) < ToolCap
      BY <2>1, <2>6, OwnerFound DEF WithinCap, Serves
    <3>2. package.length \in Nat /\ tried \in Nat /\ ToolCap \in Nat
      BY <1>1, <2>1, ToolAssumption DEF ToolInv, ToolTypes
    <3>3. Owner(package) > prefix
      BY <2>1, <3>1, <3>2 DEF MayAsk, prefix
    <3>4. Owner(package) \in unanswered[tool]
      BY <1>1, <2>1, <3>1, <3>3 DEF WalkedPast
    <3>5. unanswered' \in [DOMAIN tools -> SUBSET Int] /\ Owner(package) \in unanswered'[tool]
      BY <1>1, <2>1, <3>4 DEF Judged
    <3>6. \A t \in DOMAIN tools : unanswered[t] \subseteq unanswered'[t]
      BY <2>1
    <3> DEFINE N == {Reported("not-found", package, package.length)}
    <3>7. reported' = reported \cup N /\ \A f \in N : f.package = package
      BY <2>3, <2>4
    <3>8. WithinCap(package) /\ Owner(package) \in unanswered'[tool]
      BY <2>6, <3>5
    <3> HIDE DEF N
    <3>9. QED
      BY <1>1, <2>1, <3>5, <3>6, <3>7, <3>8, JudgedAdds
  <2>7. QED
    BY <2>5, <2>6
<1>8. CASE UNCHANGED toolVars
  <2>1. UNCHANGED <<tools, tool, place, tried, seen, reported, unanswered>>
    BY <1>8 DEF toolVars
  <2>2. package' = package /\ prefix' = prefix
    BY <2>1 DEF package, prefix
  <2>3. QED
    BY <1>1, <2>1, <2>2 DEF Judged, Said, OwnerUnanswered, WalkedPast
<1>9. QED
  BY <1>3, <1>4, <1>5, <1>6, <1>7, <1>8 DEF ToolNext, ToolStep, ToolsChecked

LEMMA JudgedInvariant == ToolSpec => []JudgedInv
<1>1. JudgedInv /\ [ToolNext]_toolVars => JudgedInv'
  BY JudgedStep, ToolStepKeeps DEF JudgedInv
<1>2. QED
  BY <1>1, JudgedInitially, PTL DEF ToolSpec

(* A package none of whose Lookups failed gets exactly its verdict, for      *)
(* every list of directives, in whatever order it names the packages.        *)
THEOREM ToolsJudgedExactly == ToolSpec => []EachToolJudgedExactly
<1>1. JudgedInv => EachToolJudgedExactly
  <2> SUFFICES ASSUME JudgedInv, NEW t \in 1..(tool - 1), Silent(tools[t])
               PROVE  Said(tools[t]) = Verdict(tools[t])
    BY DEF EachToolJudgedExactly, Said
  <2>1. \A u \in 1..(tool - 1) : u \in DOMAIN tools
    BY DEF JudgedInv, Judged, ToolInv, ToolTypes
  <2>2. tools[t] \in seen
    BY <2>1 DEF JudgedInv, ToolInv, ToolTypes, Remembered
  <2>3. ~OwnerUnanswered(tools[t])
    BY <2>1 DEF OwnerUnanswered, Silent
  <2>4. QED
    BY <2>2, <2>3 DEF JudgedInv, Judged
<1>2. QED
  BY <1>1, JudgedInvariant, PTL

(* Where a package's findings are not its verdict, the Lookup of its owner   *)
(* is among the ones that failed: no other failure changes what is said.     *)
THEOREM WrongOwnersAreCaused == ToolSpec => []WrongOwnerHasACause
<1>1. JudgedInv => WrongOwnerHasACause
  <2> SUFFICES ASSUME JudgedInv, NEW t \in 1..(tool - 1), Said(tools[t]) # Verdict(tools[t])
               PROVE  OwnerUnanswered(tools[t])
    BY DEF WrongOwnerHasACause, Said, OwnerUnanswered
  <2>1. tools[t] \in seen
    BY DEF JudgedInv, Judged, ToolInv, ToolTypes, Remembered
  <2>2. QED
    BY <2>1 DEF JudgedInv, Judged
<1>2. QED
  BY <1>1, JudgedInvariant, PTL
=============================================================================
