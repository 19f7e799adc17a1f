--------------------------- MODULE ReplacesProofs ---------------------------
(* What CheckAll makes of a go.mod's replace, exclude and require            *)
(* directives, for every file, every set of versions and whatever the proxy  *)
(* resolves them to.                                                         *)
EXTENDS Replaces, FiniteSetTheorems, SequenceTheorems, WellFoundedInduction, TLAPS

-----------------------------------------------------------------------------
(* Natural numbers and sequences. *)

(* Induction, over a set instead of a predicate: a number it lacks would     *)
(* have a least one, whose predecessor it has.                               *)
LEMMA ByInduction ==
    ASSUME NEW S, 0 \in S, \A n \in Nat : n \in S => n + 1 \in S
    PROVE  Nat \subseteq S
<1> DEFINE Lacking == {n \in Nat : n \notin S}
<1> SUFFICES ASSUME Lacking # {} PROVE FALSE
    OBVIOUS
<1>1. PICK m \in Lacking : \A n \in Lacking : ~(n < m)
    <2>1. IsWellFoundedOn(OpToRel(<, Nat), Nat)
        BY NatLessThanWellFounded
    <2>2. PICK m \in Lacking : \A n \in Lacking : <<n, m>> \notin OpToRel(<, Nat)
        BY <2>1, WFMin
    <2> QED  BY <2>2 DEF OpToRel
<1>2. m - 1 \in Nat /\ m - 1 \notin Lacking
    BY <1>1
<1> QED  BY <1>1, <1>2

(* The first and the last of some positions. *)
LEMMA FirstPosition ==
    ASSUME NEW S, S \subseteq Nat, S # {}
    PROVE  Min(S) \in S /\ \A i \in S : Min(S) <= i
<1>1. IsWellFoundedOn(OpToRel(<, Nat), Nat)
    BY NatLessThanWellFounded
<1>2. PICK m \in S : \A n \in S : <<n, m>> \notin OpToRel(<, Nat)
    BY <1>1, WFMin
<1>3. \A n \in S : ~(n < m)
    BY <1>2 DEF OpToRel
<1>4. \A n \in S : m <= n
    <2> \A n \in S : n \in Nat /\ m \in Nat
        BY <1>2
    <2> QED  BY <1>3
<1> QED  BY <1>2, <1>4 DEF Min

LEMMA LastPosition ==
    ASSUME NEW n \in Nat, NEW S, S \subseteq 0..n, S # {}
    PROVE  Max(S) \in S /\ \A i \in S : i <= Max(S)
<1> DEFINE Left == {n - i : i \in S}
<1>1. Left \subseteq Nat /\ Left # {}
    <2>1. \A i \in S : n - i \in Nat
        OBVIOUS
    <2> QED  BY <2>1
<1>2. PICK m \in Left : \A k \in Left : m <= k
    BY <1>1, FirstPosition
<1>3. PICK i \in S : m = n - i
    BY <1>2
<1>4. \A j \in S : j <= i
    <2> TAKE j \in S
    <2>1. n - i <= n - j
        BY <1>2, <1>3
    <2> QED  BY <2>1, <1>3
<1> QED  BY <1>3, <1>4 DEF Max

LEMMA ElementsAppended ==
    ASSUME NEW S, NEW s \in Seq(S), NEW e \in S
    PROVE  ToSet(Append(s, e)) = ToSet(s) \cup {e}
<1>1. DOMAIN s = 1..Len(s) /\ DOMAIN Append(s, e) = 1..Len(s) + 1
    OBVIOUS
<1>2. \A i \in 1..Len(s) : Append(s, e)[i] = s[i]
    OBVIOUS
<1>3. Append(s, e)[Len(s) + 1] = e
    OBVIOUS
<1>4. 1..Len(s) + 1 = (1..Len(s)) \cup {Len(s) + 1}
    OBVIOUS
<1> QED  BY <1>1, <1>2, <1>3, <1>4 DEF ToSet

LEMMA ElementsOfConcat ==
    ASSUME NEW S, NEW s \in Seq(S), NEW t \in Seq(S)
    PROVE  ToSet(s \o t) = ToSet(s) \cup ToSet(t)
<1>1. DOMAIN s = 1..Len(s) /\ DOMAIN t = 1..Len(t) /\ DOMAIN (s \o t) = 1..Len(s) + Len(t)
    OBVIOUS
<1>2. \A i \in 1..Len(s) : (s \o t)[i] = s[i]
    OBVIOUS
<1>3. \A i \in 1..Len(t) : (s \o t)[Len(s) + i] = t[i] /\ Len(s) + i \in 1..Len(s) + Len(t)
    OBVIOUS
<1>4. \A i \in 1..Len(s) + Len(t) : i \notin 1..Len(s) => i - Len(s) \in 1..Len(t)
    OBVIOUS
<1>5. ToSet(s \o t) \subseteq ToSet(s) \cup ToSet(t)
    BY <1>1, <1>2, <1>3, <1>4 DEF ToSet
<1>6. ToSet(s) \subseteq ToSet(s \o t)
    <2>1. 1..Len(s) \subseteq 1..Len(s) + Len(t)
        OBVIOUS
    <2> QED  BY <1>1, <1>2, <2>1 DEF ToSet
<1>7. ToSet(t) \subseteq ToSet(s \o t)
    BY <1>1, <1>3 DEF ToSet
<1> QED  BY <1>5, <1>6, <1>7

LEMMA ElementsTyped ==
    ASSUME NEW S, NEW s \in Seq(S)
    PROVE  /\ ToSet(s) \subseteq S
           /\ IsFiniteSet(ToSet(s))
           /\ \A i \in DOMAIN s : s[i] \in ToSet(s)
<1>1. DOMAIN s = 1..Len(s) /\ IsFiniteSet(DOMAIN s)
    BY FS_Interval, LenProperties
<1>2. IsFiniteSet({s[i] : i \in DOMAIN s})
    <2> DEFINE T == {s[i] : i \in DOMAIN s}
    <2>1. s \in Surjection(DOMAIN s, T)
        BY DEF Surjection
    <2> QED  BY <1>1, <2>1, FS_Surjection
<1>3. \A i \in DOMAIN s : s[i] \in S
    BY <1>1
<1> QED  BY <1>2, <1>3 DEF ToSet

-----------------------------------------------------------------------------
(* The overlay of go.work. *)

OverriddenBy(overlay) == {r.old : r \in {s \in ToSet(overlay) : General(s)}}

(* The loop of mergeReplaces runs to its end, and keeps of go.mod's entries  *)
(* those for paths that go.work does not override, behind go.work's own.     *)
LEMMA MergedEntries ==
    ASSUME NEW base \in Seq(Replacement), NEW overlay \in Seq(Replacement)
    PROVE  /\ mergeReplaces(base, overlay) \in Seq(Replacement)
           /\ Len(overlay) <= Len(mergeReplaces(base, overlay))
           /\ \A i \in 1..Len(overlay) : mergeReplaces(base, overlay)[i] = overlay[i]
           /\ ToSet(mergeReplaces(base, overlay)) =
                ToSet(overlay) \cup {r \in ToSet(base) : r.old \notin OverriddenBy(overlay)}
<1> DEFINE Turn(g, i) == IF i = 0 THEN overlay
                         ELSE IF base[i].old \in OverriddenBy(overlay) THEN g[i - 1]
                         ELSE Append(g[i - 1], base[i])
           Runs == {n \in Nat : \E g : g = [i \in 0..n |-> Turn(g, i)]}
           merged == CHOOSE g : g = [i \in 0..Len(base) |-> Turn(g, i)]
<1>1. Nat \subseteq Runs
  <2>1. 0 \in Runs
    <3>1. [i \in 0..0 |-> overlay] = [i \in 0..0 |-> Turn([j \in 0..0 |-> overlay], i)]
      OBVIOUS
    <3> QED
      BY <3>1
  <2>2. ASSUME NEW n \in Nat, n \in Runs
        PROVE  n + 1 \in Runs
    <3>1. PICK g : g = [i \in 0..n |-> Turn(g, i)]
      BY <2>2
    <3> DEFINE h == [i \in 0..n + 1 |-> IF i = n + 1 THEN Turn(g, n + 1) ELSE g[i]]
    <3>2. ASSUME NEW i \in 0..n + 1
          PROVE  h[i] = Turn(h, i)
      <4>1. CASE i = n + 1
        <5>1. h[n] = g[n] /\ h[n + 1] = Turn(g, n + 1) /\ (n + 1) - 1 = n /\ n + 1 # 0
          OBVIOUS
        <5> QED
          BY <4>1, <5>1
      <4>2. CASE i \in 1..n
        <5>1. h[i] = g[i] /\ h[i - 1] = g[i - 1] /\ i # 0
          BY <4>2
        <5>2. g[i] = Turn(g, i)
          <6>1. i \in 0..n
            BY <4>2
          <6> HIDE DEF Turn
          <6> QED
            BY <3>1, <6>1
        <5> QED
          BY <5>1, <5>2
      <4>3. CASE i = 0
        BY <4>3, <3>1
      <4> QED
        BY <4>1, <4>2, <4>3
    <3>3. h = [i \in 0..n + 1 |-> Turn(h, i)]
      <4> HIDE DEF Turn
      <4> QED
        BY <3>2
    <3>4. n + 1 \in Nat
      OBVIOUS
    <3> HIDE DEF h, Turn
    <3> QED
      BY <3>3, <3>4
  <2> HIDE DEF Runs
  <2> QED
    BY <2>1, <2>2, ByInduction
<1>2. Len(base) \in Nat /\ \A i \in 1..Len(base) : base[i] \in Replacement
  OBVIOUS
<1>3. merged = [i \in 0..Len(base) |-> Turn(merged, i)]
  <2>1. \E g : g = [i \in 0..Len(base) |-> Turn(g, i)]
    BY <1>1, <1>2
  <2> HIDE DEF Turn
  <2> QED
    BY <2>1
<1>4. mergeReplaces(base, overlay) = merged[Len(base)]
  BY DEF mergeReplaces, OverriddenBy
<1> HIDE DEF merged
<1>5. merged[0] = overlay
  <2>1. merged[0] = Turn(merged, 0)
    <3>1. 0 \in 0..Len(base)
      BY <1>2
    <3> HIDE DEF Turn
    <3> QED
      BY <1>3, <3>1
  <2> QED
    BY <2>1
<1>6. ASSUME NEW i \in 1..Len(base)
      PROVE  merged[i] = IF base[i].old \in OverriddenBy(overlay) THEN merged[i - 1]
                         ELSE Append(merged[i - 1], base[i])
  <2>1. merged[i] = Turn(merged, i)
    <3>1. i \in 0..Len(base)
      BY <1>2
    <3> HIDE DEF Turn
    <3> QED
      BY <1>3, <3>1
  <2> QED
    BY <1>2, <2>1
<1> DEFINE upTo(n) == {base[i] : i \in {j \in 1..n : base[j].old \notin OverriddenBy(overlay)}}
           Right == {n \in Nat : n <= Len(base) =>
                       /\ merged[n] \in Seq(Replacement)
                       /\ Len(overlay) <= Len(merged[n])
                       /\ \A i \in 1..Len(overlay) : merged[n][i] = overlay[i]
                       /\ ToSet(merged[n]) = ToSet(overlay) \cup upTo(n)}
<1>7. Nat \subseteq Right
  <2>1. 0 \in Right
    <3>1. upTo(0) = {}
      OBVIOUS
    <3> QED
      BY <1>5, <3>1
  <2>2. ASSUME NEW n \in Nat, n \in Right
        PROVE  n + 1 \in Right
    <3> SUFFICES ASSUME n + 1 <= Len(base)
                 PROVE  /\ merged[n + 1] \in Seq(Replacement)
                        /\ Len(overlay) <= Len(merged[n + 1])
                        /\ \A i \in 1..Len(overlay) : merged[n + 1][i] = overlay[i]
                        /\ ToSet(merged[n + 1]) = ToSet(overlay) \cup upTo(n + 1)
      OBVIOUS
    <3>1. n + 1 \in 1..Len(base) /\ n <= Len(base) /\ (n + 1) - 1 = n
      BY <1>2
    <3>2. /\ merged[n] \in Seq(Replacement)
          /\ Len(overlay) <= Len(merged[n])
          /\ \A i \in 1..Len(overlay) : merged[n][i] = overlay[i]
          /\ ToSet(merged[n]) = ToSet(overlay) \cup upTo(n)
      BY <2>2, <3>1
    <3>3. 1..n + 1 = (1..n) \cup {n + 1}
      OBVIOUS
    <3>4. CASE base[n + 1].old \in OverriddenBy(overlay)
      <4>1. upTo(n + 1) = upTo(n)
        BY <3>3, <3>4
      <4>2. merged[n + 1] = merged[n]
        BY <1>6, <3>1, <3>4
      <4> QED
        BY <3>2, <4>1, <4>2
    <3>5. CASE base[n + 1].old \notin OverriddenBy(overlay)
      <4>1. upTo(n + 1) = upTo(n) \cup {base[n + 1]}
        BY <3>3, <3>5
      <4>2. merged[n + 1] = Append(merged[n], base[n + 1])
        BY <1>6, <3>1, <3>5
      <4>3. base[n + 1] \in Replacement
        BY <1>2, <3>1
      <4> HIDE DEF upTo
      <4>4. ToSet(merged[n + 1]) = ToSet(merged[n]) \cup {base[n + 1]}
        BY <3>2, <4>2, <4>3, ElementsAppended
      <4>5. /\ merged[n + 1] \in Seq(Replacement)
            /\ Len(merged[n + 1]) = Len(merged[n]) + 1
            /\ \A i \in 1..Len(merged[n]) : merged[n + 1][i] = merged[n][i]
        BY <3>2, <4>2, <4>3
      <4>6. Len(overlay) \in Nat /\ Len(merged[n]) \in Nat
        BY <3>2
      <4>7. Len(overlay) <= Len(merged[n + 1]) /\ 1..Len(overlay) \subseteq 1..Len(merged[n])
        BY <3>2, <4>5, <4>6
      <4> QED
        BY <3>2, <4>1, <4>4, <4>5, <4>7
    <3> QED
      BY <3>4, <3>5
  <2> HIDE DEF Right
  <2> QED
    BY <2>1, <2>2, ByInduction
<1>8. upTo(Len(base)) = {r \in ToSet(base) : r.old \notin OverriddenBy(overlay)}
  <2>1. DOMAIN base = 1..Len(base)
    OBVIOUS
  <2> QED
    BY <2>1 DEF ToSet
<1>9. Len(base) \in Right
  BY <1>2, <1>7
<1> QED
  <2> HIDE DEF upTo
  <2> QED
    BY <1>2, <1>4, <1>8, <1>9

-----------------------------------------------------------------------------
(* The orphan replaces. *)

(* ReplaceAssumption of the file under audit.                                *)
LEMMA FileTyped ==
    ASSUME file \in Files
    PROVE  /\ file.reqs \in Seq(Requirement) /\ file.excludes \in Seq(Requirement)
           /\ file.gomod \in Seq(Replacement) /\ file.gowork \in Seq(Replacement)
           /\ file.inWorkspace \in BOOLEAN
           /\ ~file.inWorkspace => file.gowork = <<>>
           /\ reps \in Seq(Replacement)
<1>1. /\ file.reqs \in Seq(Requirement) /\ file.excludes \in Seq(Requirement)
      /\ file.gomod \in Seq(Replacement) /\ file.gowork \in Seq(Replacement)
      /\ file.inWorkspace \in BOOLEAN
      /\ ~file.inWorkspace => file.gowork = <<>>
  BY ReplaceAssumption
<1> QED
  BY <1>1, MergedEntries DEF reps

Module == [path : Path \cup Directory, version : Text \cup {NoText}]

Reached(r) == r.old \in declared \/ r.old \in chainedAway

(* The loop of orphanReplacementTargets: each target of a replace nothing    *)
(* reaches, and no other.                                                    *)
LEMMA OrphansFound ==
    ASSUME file \in Files
    PROVE  /\ orphanReplacementTargets \in Seq(Module)
           /\ ToSet(orphanReplacementTargets) =
                {Target(r) : r \in {s \in ToSet(reps) : ~Reached(s) /\ ~IsLocal(s)}}
<1> DEFINE Passed(r, known) == Reached(r) \/ IsLocal(r) \/ Target(r) \in known
           Turn(g, i) == IF i = 0 THEN <<>>
                         ELSE IF Passed(reps[i], ToSet(g[i - 1])) THEN g[i - 1]
                         ELSE Append(g[i - 1], Target(reps[i]))
           Runs == {n \in Nat : \E g : g = [i \in 0..n |-> Turn(g, i)]}
           out == CHOOSE g : g = [i \in 0..Len(reps) |-> Turn(g, i)]
<1>1. Nat \subseteq Runs
  <2>1. 0 \in Runs
    <3>1. [i \in 0..0 |-> <<>>] = [i \in 0..0 |-> Turn([j \in 0..0 |-> <<>>], i)]
      OBVIOUS
    <3> QED
      BY <3>1
  <2>2. ASSUME NEW n \in Nat, n \in Runs
        PROVE  n + 1 \in Runs
    <3>1. PICK g : g = [i \in 0..n |-> Turn(g, i)]
      BY <2>2
    <3> DEFINE h == [i \in 0..n + 1 |-> IF i = n + 1 THEN Turn(g, n + 1) ELSE g[i]]
    <3>2. ASSUME NEW i \in 0..n + 1
          PROVE  h[i] = Turn(h, i)
      <4> HIDE DEF Passed
      <4>1. CASE i = n + 1
        <5>1. h[n] = g[n] /\ h[n + 1] = Turn(g, n + 1) /\ (n + 1) - 1 = n /\ n + 1 # 0
          OBVIOUS
        <5> QED
          BY <4>1, <5>1
      <4>2. CASE i \in 1..n
        <5>1. h[i] = g[i] /\ h[i - 1] = g[i - 1] /\ i # 0
          BY <4>2
        <5>2. g[i] = Turn(g, i)
          <6>1. i \in 0..n
            BY <4>2
          <6> HIDE DEF Turn
          <6> QED
            BY <3>1, <6>1
        <5> QED
          BY <5>1, <5>2
      <4>3. CASE i = 0
        <5>1. g[0] = Turn(g, 0) /\ h[0] = g[0]
          <6> HIDE DEF Turn
          <6> QED
            BY <3>1
        <5> QED
          BY <4>3, <5>1
      <4> QED
        BY <4>1, <4>2, <4>3
    <3>3. h = [i \in 0..n + 1 |-> Turn(h, i)]
      <4> HIDE DEF Turn
      <4> QED
        BY <3>2
    <3>4. n + 1 \in Nat
      OBVIOUS
    <3> HIDE DEF h, Turn
    <3> QED
      BY <3>3, <3>4
  <2> HIDE DEF Runs
  <2> QED
    BY <2>1, <2>2, ByInduction
<1>2. reps \in Seq(Replacement) /\ Len(reps) \in Nat /\ \A i \in 1..Len(reps) : reps[i] \in Replacement
  <2>1. reps \in Seq(Replacement)
    BY FileTyped
  <2> QED
    BY <2>1, ElementOfSeq, LenProperties
<1>3. out = [i \in 0..Len(reps) |-> Turn(out, i)]
  <2>1. \E g : g = [i \in 0..Len(reps) |-> Turn(g, i)]
    BY <1>1, <1>2
  <2> HIDE DEF Turn
  <2> QED
    BY <2>1
<1>4. orphanReplacementTargets = out[Len(reps)]
  BY DEF orphanReplacementTargets, Reached
<1> HIDE DEF out
<1>5. out[0] = <<>>
  <2>1. out[0] = Turn(out, 0)
    <3>1. 0 \in 0..Len(reps)
      BY <1>2
    <3> HIDE DEF Turn
    <3> QED
      BY <1>3, <3>1
  <2> QED
    BY <2>1
<1>6. ASSUME NEW i \in 1..Len(reps)
      PROVE  out[i] = IF Passed(reps[i], ToSet(out[i - 1])) THEN out[i - 1]
                      ELSE Append(out[i - 1], Target(reps[i]))
  <2>1. out[i] = Turn(out, i)
    <3>1. i \in 0..Len(reps)
      BY <1>2
    <3> HIDE DEF Turn
    <3> QED
      BY <1>3, <3>1
  <2> HIDE DEF Passed
  <2> QED
    BY <1>2, <2>1
<1> DEFINE upTo(n) == {Target(reps[i]) : i \in {j \in 1..n : ~Reached(reps[j]) /\ ~IsLocal(reps[j])}}
           Right == {n \in Nat : n <= Len(reps) =>
                       out[n] \in Seq(Module) /\ ToSet(out[n]) = upTo(n)}
<1>7. Nat \subseteq Right
  <2>1. 0 \in Right
    <3>1. upTo(0) = {}
      OBVIOUS
    <3>2. ToSet(<<>>) = {} /\ <<>> \in Seq(Module)
      BY DEF ToSet
    <3> QED
      BY <1>5, <3>1, <3>2
  <2>2. ASSUME NEW n \in Nat, n \in Right
        PROVE  n + 1 \in Right
    <3> SUFFICES ASSUME n + 1 <= Len(reps)
                 PROVE  out[n + 1] \in Seq(Module) /\ ToSet(out[n + 1]) = upTo(n + 1)
      OBVIOUS
    <3>1. n + 1 \in 1..Len(reps) /\ n <= Len(reps) /\ (n + 1) - 1 = n
      BY <1>2
    <3>2. out[n] \in Seq(Module) /\ ToSet(out[n]) = upTo(n)
      BY <2>2, <3>1
    <3>3. 1..n + 1 = (1..n) \cup {n + 1}
      OBVIOUS
    <3> DEFINE r == reps[n + 1]
    <3>4. CASE Reached(r) \/ IsLocal(r)
      <4>1. upTo(n + 1) = upTo(n)
        BY <3>3, <3>4
      <4>2. out[n + 1] = out[n]
        BY <1>6, <3>1, <3>4
      <4> QED
        BY <3>2, <4>1, <4>2
    <3>5. CASE ~Reached(r) /\ ~IsLocal(r)
      <4>1. upTo(n + 1) = upTo(n) \cup {Target(r)}
        BY <3>3, <3>5
      <4>2. CASE Target(r) \in ToSet(out[n])
        <5>1. out[n + 1] = out[n]
          BY <1>6, <3>1, <4>2
        <5> QED
          BY <3>2, <4>1, <4>2, <5>1
      <4>3. CASE Target(r) \notin ToSet(out[n])
        <5>1. out[n + 1] = Append(out[n], Target(r))
          BY <1>6, <3>1, <3>5, <4>3
        <5>2. Target(r) \in Module
          BY <1>2, <3>1 DEF Target, Module, Replacement
        <5> HIDE DEF upTo, r
        <5>3. out[n + 1] \in Seq(Module)
          BY <3>2, <5>1, <5>2
        <5>4. ToSet(Append(out[n], Target(r))) = ToSet(out[n]) \cup {Target(r)}
          BY <3>2, <5>2, ElementsAppended
        <5> QED
          BY <3>2, <4>1, <5>1, <5>3, <5>4
      <4> QED
        BY <4>2, <4>3
    <3> QED
      BY <3>4, <3>5
  <2> HIDE DEF Right
  <2> QED
    BY <2>1, <2>2, ByInduction
<1>8. upTo(Len(reps)) = {Target(r) : r \in {s \in ToSet(reps) : ~Reached(s) /\ ~IsLocal(s)}}
  <2>1. DOMAIN reps = 1..Len(reps)
    BY <1>2, LenProperties
  <2> QED
    BY <2>1 DEF ToSet
<1>9. Len(reps) \in Right
  BY <1>2, <1>7
<1> QED
  <2> HIDE DEF upTo
  <2> QED
    BY <1>2, <1>4, <1>8, <1>9

-----------------------------------------------------------------------------
(* The replacement chosen for a requirement. *)

Literal(req) == {i \in DOMAIN reps : reps[i].old = req.path /\ reps[i].oldVersion = req.version}
Generals(req) == {i \in DOMAIN reps : reps[i].old = req.path /\ General(reps[i])}
Equal(req, failed) ==
    {i \in DOMAIN reps : /\ reps[i].old = req.path /\ ~General(reps[i])
                         /\ SameTag(req.path, req.version, reps[i].oldVersion, failed)}

LEMMA SelectMeans ==
    ASSUME NEW req, NEW failed
    PROVE  selectReplace(reps, req, failed) =
             IF Literal(req) # {} THEN reps[Min(Literal(req))]
             ELSE IF Equal(req, failed) # {} THEN reps[Min(Equal(req, failed))]
             ELSE IF Generals(req) # {} THEN reps[Max(Generals(req))]
             ELSE None
<1> DEFINE here == {i \in DOMAIN reps : reps[i].old = req.path}
           generals == {i \in here : General(reps[i])}
           literal == {i \in here : reps[i].oldVersion = req.version}
           equal == {i \in here \ generals :
                       SameTag(req.path, req.version, reps[i].oldVersion, failed)}
<1>1. literal = Literal(req) /\ generals = Generals(req)
  BY DEF Literal, Generals
<1>2. equal = Equal(req, failed)
  BY DEF Equal
<1>3. selectReplace(reps, req, failed) =
        CASE literal # {} -> reps[Min(literal)]
          [] literal = {} /\ equal # {} -> reps[Min(equal)]
          [] literal = {} /\ equal = {} /\ generals # {} -> reps[Max(generals)]
          [] OTHER -> None
  BY DEF selectReplace
<1> HIDE DEF literal, equal, generals
<1> QED
  BY <1>1, <1>2, <1>3

(* What is in the list: all of go.work's entries, first, and those of go.mod *)
(* for paths go.work has no general entry for.                               *)
LEMMA RepsAre ==
    ASSUME file \in Files
    PROVE  /\ \A r \in ToSet(reps) :
                r \in ToSet(file.gowork) \/ (r \in ToSet(file.gomod) /\ r.old \notin OverriddenBy(file.gowork))
           /\ ToSet(file.gowork) \subseteq ToSet(reps)
           /\ \A r \in ToSet(file.gomod) : r.old \notin OverriddenBy(file.gowork) => r \in ToSet(reps)
           /\ ToSet(reps) \subseteq Replacement
           /\ ToSet(file.gowork) \subseteq Replacement
           /\ ToSet(file.gomod) \subseteq Replacement
           /\ DOMAIN reps = 1..Len(reps) /\ Len(reps) \in Nat
<1>1. ToSet(reps) = ToSet(file.gowork)
                      \cup {r \in ToSet(file.gomod) : r.old \notin OverriddenBy(file.gowork)}
  BY FileTyped, MergedEntries DEF reps
<1>2. reps \in Seq(Replacement) /\ file.gowork \in Seq(Replacement) /\ file.gomod \in Seq(Replacement)
  BY FileTyped
<1>3. DOMAIN reps = 1..Len(reps) /\ Len(reps) \in Nat
  BY <1>2, LenProperties
<1>4. /\ ToSet(reps) \subseteq Replacement
      /\ ToSet(file.gowork) \subseteq Replacement
      /\ ToSet(file.gomod) \subseteq Replacement
  BY <1>2, ElementsTyped
<1>5. \A r : r \in ToSet(reps) <=>
               \/ r \in ToSet(file.gowork)
               \/ r \in ToSet(file.gomod) /\ r.old \notin OverriddenBy(file.gowork)
  BY <1>1
<1>6. ToSet(file.gowork) \subseteq ToSet(reps)
  BY <1>1
<1>7. \A r \in ToSet(reps) :
          r \in ToSet(file.gowork) \/ (r \in ToSet(file.gomod) /\ r.old \notin OverriddenBy(file.gowork))
  BY <1>5
<1>8. \A r \in ToSet(file.gomod) : r.old \notin OverriddenBy(file.gowork) => r \in ToSet(reps)
  BY <1>5
<1> QED
  BY <1>3, <1>4, <1>6, <1>7, <1>8

(* If one of go.work's is among some entries, the first of them is its own.  *)
LEMMA WorkComesFirst ==
    ASSUME file \in Files, NEW S, S \subseteq DOMAIN reps,
           NEW i \in S, reps[i] \in ToSet(file.gowork)
    PROVE  \E k \in DOMAIN reps : /\ reps[k] = reps[i] /\ reps[k] \in ToSet(file.gowork)
                                  /\ k \in S => reps[Min(S)] \in ToSet(file.gowork)
<1>1. PICK k \in DOMAIN file.gowork : file.gowork[k] = reps[i]
  BY DEF ToSet
<1>2. /\ DOMAIN file.gowork = 1..Len(file.gowork) /\ Len(file.gowork) \in Nat
      /\ DOMAIN reps = 1..Len(reps) /\ Len(reps) \in Nat
  BY FileTyped, LenProperties
<1>3. /\ Len(file.gowork) <= Len(reps)
      /\ \A j \in 1..Len(file.gowork) : reps[j] = file.gowork[j]
  BY FileTyped, MergedEntries DEF reps
<1>4. k \in DOMAIN reps /\ reps[k] = reps[i]
  BY <1>1, <1>2, <1>3
<1>5. ASSUME k \in S PROVE reps[Min(S)] \in ToSet(file.gowork)
  <2>1. Min(S) \in S /\ Min(S) <= k
    BY <1>2, <1>5, FirstPosition
  <2>2. Min(S) \in 1..Len(file.gowork)
    BY <1>1, <1>2, <2>1
  <2> QED
    BY <1>2, <1>3, <2>2 DEF ToSet
<1> QED
  BY <1>4, <1>5

(* The first of some sets that is not empty. *)
LEMMA FirstFound ==
    ASSUME NEW sets, DOMAIN sets \subseteq Nat
    PROVE  /\ \A k \in DOMAIN sets :
                sets[k] # {} /\ (\A j \in DOMAIN sets : j < k => sets[j] = {})
                    => FirstNonempty(sets) = sets[k]
           /\ (\A j \in DOMAIN sets : sets[j] = {}) => FirstNonempty(sets) = {}
<1> DEFINE some == {i \in DOMAIN sets : sets[i] # {}}
<1>1. FirstNonempty(sets) = IF some = {} THEN {} ELSE sets[Min(some)]
  BY DEF FirstNonempty
<1>2. ASSUME NEW k \in DOMAIN sets, sets[k] # {}, \A j \in DOMAIN sets : j < k => sets[j] = {}
      PROVE  FirstNonempty(sets) = sets[k]
  <2>1. Min(some) \in some /\ Min(some) <= k
    BY <1>2, FirstPosition
  <2>2. ~(Min(some) < k)
    BY <1>2, <2>1
  <2>3. Min(some) = k
    BY <2>1, <2>2
  <2> QED
    BY <1>1, <1>2, <2>3
<1> QED
  BY <1>1, <1>2

LEMMA FirstOfFour ==
    ASSUME NEW A, NEW B, NEW C, NEW D
    PROVE  FirstNonempty(<<A, B, C, D>>) =
             IF A # {} THEN A ELSE IF B # {} THEN B ELSE IF C # {} THEN C ELSE D
<1> DEFINE sets == <<A, B, C, D>>
<1>1. /\ DOMAIN sets = {1, 2, 3, 4}
      /\ sets[1] = A /\ sets[2] = B /\ sets[3] = C /\ sets[4] = D
  OBVIOUS
<1> HIDE DEF sets
<1>2. DOMAIN sets \subseteq Nat
  BY <1>1
<1>3. CASE A # {}
  <2>1. FirstNonempty(sets) = sets[1]
    BY <1>1, <1>2, <1>3, FirstFound
  <2> QED
    BY <1>1, <1>3, <2>1 DEF sets
<1>4. CASE A = {} /\ B # {}
  <2>1. FirstNonempty(sets) = sets[2]
    BY <1>1, <1>2, <1>4, FirstFound
  <2> QED
    BY <1>1, <1>4, <2>1 DEF sets
<1>5. CASE A = {} /\ B = {} /\ C # {}
  <2>1. FirstNonempty(sets) = sets[3]
    BY <1>1, <1>2, <1>5, FirstFound
  <2> QED
    BY <1>1, <1>5, <2>1 DEF sets
<1>6. CASE A = {} /\ B = {} /\ C = {} /\ D # {}
  <2>1. FirstNonempty(sets) = sets[4]
    BY <1>1, <1>2, <1>6, FirstFound
  <2> QED
    BY <1>1, <1>6, <2>1 DEF sets
<1>7. CASE A = {} /\ B = {} /\ C = {} /\ D = {}
  <2>1. FirstNonempty(sets) = {}
    BY <1>1, <1>2, <1>7, FirstFound
  <2> QED
    BY <1>7, <2>1 DEF sets
<1> QED
  BY <1>3, <1>4, <1>5, <1>6, <1>7

LEMMA SameTagEven ==
    ASSUME NEW path, NEW v, NEW w, NEW failed
    PROVE  /\ SameTag(path, v, w, failed) => SameTag(path, v, w, {})
           /\ SameTag(path, v, w, failed) => SameTag(path, w, v, failed)
BY DEF SameTag, ResolveVersion

(* What selectReplace returns is what the go command applies, but where      *)
(* go.mod's literal match hides go.work's; it can miss it only when a        *)
(* version it compares by its tag does not resolve.                          *)
LEMMA ChoiceIsRight ==
    ASSUME file \in Files, NEW req \in Requirement, NEW failed
    PROVE  LET rep == selectReplace(reps, req, failed)
               general == ForAll(ToSet(reps), req)
           IN  \/ rep \in InForce(req)
               \/ rep = None /\ InForce(req) = {}
               \/ SpeltApart(req) /\ rep \in Spelled(ToSet(file.gomod), req)
               \/ /\ Spelled(ToSet(reps), req) = {}
                  /\ Meant(ToSet(reps), req) # {}
                  /\ failed # {}
                  /\ rep \in Meant(ToSet(reps), req)
                               \cup (IF general = {} THEN {None} ELSE general)
<1> DEFINE R == ToSet(reps)
           W == ToSet(file.gowork)
           M == ToSet(file.gomod)
           rep == selectReplace(reps, req, failed)
<1>1. /\ \A r \in R : r \in W \/ (r \in M /\ r.old \notin OverriddenBy(file.gowork))
      /\ W \subseteq R
      /\ \A r \in M : r.old \notin OverriddenBy(file.gowork) => r \in R
      /\ DOMAIN reps = 1..Len(reps) /\ Len(reps) \in Nat
  BY RepsAre
<1>2. \A r \in W : General(r) => r.old \in OverriddenBy(file.gowork)
  BY DEF OverriddenBy
<1>3. ForAll(W, req) = {} => req.path \notin OverriddenBy(file.gowork)
  BY DEF OverriddenBy, ForAll
<1>4. ForAll(W, req) # {} => req.path \in OverriddenBy(file.gowork)
  BY <1>2 DEF ForAll
<1>5. /\ \A i \in DOMAIN reps : reps[i] \in R
      /\ \A r \in R : \E i \in DOMAIN reps : reps[i] = r
  BY DEF ToSet
<1>6. req.version # NoText
  BY ReplaceAssumption DEF Requirement
<1>7. InForce(req) =
        IF Specific(W, req) # {} THEN Specific(W, req)
        ELSE IF ForAll(W, req) # {} THEN ForAll(W, req)
        ELSE IF Specific(M, req) # {} THEN Specific(M, req)
        ELSE ForAll(M, req)
  BY FirstOfFour DEF InForce
<1>8. ASSUME NEW P, P \subseteq DOMAIN reps, P # {}
      PROVE  /\ Min(P) \in P
             /\ (\E i \in P : reps[i] \in W /\ \A k \in DOMAIN reps : reps[k] = reps[i] => k \in P)
                   => reps[Min(P)] \in W
  <2>1. Min(P) \in P
    BY <1>1, <1>8, FirstPosition
  <2> QED
    BY <1>8, <2>1, WorkComesFirst
<1>9. CASE Literal(req) # {}
  <2>1. rep = reps[Min(Literal(req))]
    BY <1>9, SelectMeans
  <2>2. Min(Literal(req)) \in Literal(req)
    BY <1>8, <1>9 DEF Literal
  <2>3. rep \in R /\ rep.old = req.path /\ rep.oldVersion = req.version
    BY <1>5, <2>1, <2>2 DEF Literal
  <2>4. CASE Spelled(W, req) # {}
    <3>1. PICK r \in W : r.old = req.path /\ r.oldVersion = req.version
      BY <2>4 DEF Spelled
    <3>2. PICK i \in DOMAIN reps : reps[i] = r
      BY <1>1, <1>5
    <3>3. i \in Literal(req) /\ \A k \in DOMAIN reps : reps[k] = reps[i] => k \in Literal(req)
      BY <3>1, <3>2 DEF Literal
    <3>4. rep \in W
      <4>1. Literal(req) \subseteq DOMAIN reps
        BY DEF Literal
      <4> QED
        BY <1>8, <1>9, <2>1, <3>1, <3>2, <3>3, <4>1
    <3>5. rep \in Specific(W, req)
      BY <2>3, <3>4 DEF Spelled, Specific
    <3> QED
      BY <1>7, <3>5
  <2>5. CASE Spelled(W, req) = {}
    <3>1. rep \notin W
      BY <2>3, <2>5 DEF Spelled
    <3>2. rep \in M /\ rep.old \notin OverriddenBy(file.gowork)
      BY <1>1, <2>3, <3>1
    <3>3. rep \in Spelled(M, req)
      BY <2>3, <3>2 DEF Spelled
    <3>4. ForAll(W, req) = {}
      BY <1>4, <2>3, <3>2
    <3>5. CASE Meant(W, req) = {}
      <4>1. Specific(W, req) = {} /\ rep \in Specific(M, req)
        BY <2>5, <3>3, <3>5 DEF Specific
      <4> QED
        BY <1>7, <3>4, <4>1
    <3>6. CASE Meant(W, req) # {}
      <4>1. rep \in Spelled(R, req)
        BY <2>3 DEF Spelled
      <4>2. SpeltApart(req)
        BY <2>5, <3>6, <4>1 DEF SpeltApart
      <4> QED
        BY <3>3, <4>2
    <3> QED
      BY <3>5, <3>6
  <2> QED
    BY <2>4, <2>5
<1>10. CASE Literal(req) = {} /\ Equal(req, failed) # {}
  <2>1. rep = reps[Min(Equal(req, failed))]
    BY <1>10, SelectMeans
  <2>2. Equal(req, failed) \subseteq DOMAIN reps
    BY DEF Equal
  <2>3. Min(Equal(req, failed)) \in Equal(req, failed)
    BY <1>8, <1>10, <2>2
  <2>4. /\ rep \in R /\ rep.old = req.path /\ ~General(rep)
        /\ SameTag(req.path, rep.oldVersion, req.version, {})
    BY <1>5, <2>1, <2>3, SameTagEven DEF Equal
  <2>5. rep \in Meant(R, req)
    BY <2>4 DEF Meant
  <2>6. Spelled(R, req) = {}
    BY <1>5, <1>10 DEF Spelled, Literal
  <2>7. CASE failed # {}
    BY <2>5, <2>6, <2>7
  <2>8. CASE failed = {}
    <3>1. Spelled(W, req) = {}
      BY <1>1, <2>6 DEF Spelled
    <3>3. CASE Meant(W, req) # {}
      <4>1. PICK r \in W : /\ r.old = req.path /\ ~General(r)
                           /\ SameTag(req.path, r.oldVersion, req.version, {})
        BY <3>3 DEF Meant
      <4>2. PICK i \in DOMAIN reps : reps[i] = r
        BY <1>1, <1>5
      <4>3. i \in Equal(req, failed) /\ \A k \in DOMAIN reps : reps[k] = reps[i] => k \in Equal(req, failed)
        BY <2>8, <4>1, <4>2, SameTagEven DEF Equal
      <4>4. rep \in W
        BY <1>8, <1>10, <2>1, <2>2, <4>1, <4>2, <4>3
      <4>5. rep \in Specific(W, req)
        BY <2>4, <4>4 DEF Meant, Specific
      <4> QED
        BY <1>7, <4>5
    <3>4. CASE Meant(W, req) = {}
      <4>1. rep \notin W
        BY <2>4, <3>4 DEF Meant
      <4>2. rep \in M /\ rep.old \notin OverriddenBy(file.gowork)
        BY <1>1, <2>4, <4>1
      <4>3. rep \in Specific(M, req) /\ Specific(W, req) = {}
        BY <2>4, <3>1, <3>4, <4>2 DEF Meant, Specific
      <4>4. ForAll(W, req) = {}
        BY <1>4, <2>4, <4>2
      <4> QED
        BY <1>7, <4>3, <4>4
    <3> QED
      BY <3>3, <3>4
  <2> QED
    BY <2>7, <2>8
<1>11. CASE Literal(req) = {} /\ Equal(req, failed) = {}
  <2>1. Spelled(R, req) = {}
    BY <1>5, <1>11 DEF Spelled, Literal
  <2>2. rep = IF Generals(req) # {} THEN reps[Max(Generals(req))] ELSE None
    BY <1>11, SelectMeans
  <2>3. ASSUME Generals(req) # {}
        PROVE  /\ rep \in ForAll(R, req)
               /\ \/ rep \in ForAll(W, req)
                  \/ rep \in ForAll(M, req) /\ ForAll(W, req) = {}
    <3>1. Generals(req) \subseteq 0..Len(reps)
      BY <1>1 DEF Generals
    <3>2. Max(Generals(req)) \in Generals(req)
      BY <1>1, <2>3, <3>1, LastPosition
    <3>3. rep \in R /\ rep.old = req.path /\ General(rep)
      BY <1>5, <2>2, <2>3, <3>2 DEF Generals
    <3>4. rep \in ForAll(R, req)
      BY <3>3 DEF ForAll
    <3>5. CASE rep \in W
      <4>1. rep \in ForAll(W, req)
        BY <3>3, <3>5 DEF ForAll
      <4> QED
        BY <3>4, <4>1
    <3>6. CASE rep \notin W
      <4>1. rep \in M /\ rep.old \notin OverriddenBy(file.gowork)
        BY <1>1, <3>3, <3>6
      <4>2. rep \in ForAll(M, req) /\ ForAll(W, req) = {}
        BY <1>4, <3>3, <4>1 DEF ForAll
      <4> QED
        BY <3>4, <4>2
    <3> QED
      BY <3>5, <3>6
  <2>4. ASSUME Generals(req) = {}
        PROVE  rep = None /\ ForAll(R, req) = {} /\ ForAll(W, req) = {} /\ ForAll(M, req) = {}
    <3>1. rep = None
      BY <2>2, <2>4
    <3>2. ForAll(R, req) = {}
      BY <1>5, <2>4 DEF ForAll, Generals
    <3>3. ForAll(W, req) = {}
      BY <1>1, <3>2 DEF ForAll
    <3>4. ForAll(M, req) = {}
      BY <1>1, <1>3, <3>2, <3>3 DEF ForAll
    <3> QED
      BY <3>1, <3>2, <3>3, <3>4
  <2>5. rep \in (IF ForAll(R, req) = {} THEN {None} ELSE ForAll(R, req))
    BY <2>3, <2>4
  <2>6. CASE failed # {} /\ Meant(R, req) # {}
    BY <2>1, <2>5, <2>6
  <2>7. CASE failed = {} \/ Meant(R, req) = {}
    <3>1. Meant(R, req) = {}
      <4>1. CASE failed = {}
        <5>1. \A r \in R : r.old = req.path /\ ~General(r)
                             => ~SameTag(req.path, req.version, r.oldVersion, {})
          BY <1>5, <1>11, <4>1 DEF Equal
        <5> QED
          BY <5>1, SameTagEven DEF Meant
      <4> QED
        BY <2>7, <4>1
    <3>2. Specific(W, req) = {}
      BY <1>1, <2>1, <3>1 DEF Meant, Spelled, Specific
    <3>3. ForAll(W, req) = {} => Specific(M, req) = {}
      BY <1>1, <1>3, <2>1, <3>1 DEF Meant, Spelled, Specific
    <3> QED
      BY <1>7, <2>3, <2>4, <3>2, <3>3
  <2> QED
    BY <2>6, <2>7
<1> QED
  BY <1>9, <1>10, <1>11

LEMMA InForceIsOneClass ==
    ASSUME NEW req
    PROVE  LET W == ToSet(file.gowork)
               M == ToSet(file.gomod)
           IN  InForce(req) \in {Specific(W, req), ForAll(W, req),
                                 Specific(M, req), ForAll(M, req)}
<1> DEFINE A == Specific(ToSet(file.gowork), req)
           B == ForAll(ToSet(file.gowork), req)
           C == Specific(ToSet(file.gomod), req)
           D == ForAll(ToSet(file.gomod), req)
<1>1. InForce(req) = FirstNonempty(<<A, B, C, D>>)
  BY DEF InForce
<1> HIDE DEF A, B, C, D
<1>2. InForce(req) = IF A # {} THEN A ELSE IF B # {} THEN B ELSE IF C # {} THEN C ELSE D
  BY <1>1, FirstOfFour
<1>3. InForce(req) = A \/ InForce(req) = B \/ InForce(req) = C \/ InForce(req) = D
  BY <1>2
<1> QED
  BY <1>3 DEF A, B, C, D

LEMMA ChoiceTyped ==
    ASSUME file \in Files, NEW req \in Requirement, NEW failed
    PROVE  selectReplace(reps, req, failed) \in Replacement \cup {None}
<1> DEFINE W == ToSet(file.gowork)
           M == ToSet(file.gomod)
           rep == selectReplace(reps, req, failed)
<1>1. W \subseteq Replacement /\ M \subseteq Replacement /\ ToSet(reps) \subseteq Replacement
  BY RepsAre
<1>2. \A R : /\ Spelled(R, req) \subseteq R /\ Meant(R, req) \subseteq R
             /\ Specific(R, req) \subseteq R /\ ForAll(R, req) \subseteq R
  BY DEF Spelled, Meant, Specific, ForAll
<1>3. InForce(req) \subseteq Replacement
  <2> HIDE DEF W, M
  <2>1. InForce(req) \subseteq W \/ InForce(req) \subseteq M
    BY <1>2, InForceIsOneClass DEF W, M
  <2> QED
    BY <1>1, <2>1
<1> QED
  BY <1>1, <1>2, <1>3, ChoiceIsRight

-----------------------------------------------------------------------------
(* The loop over the requirements. *)

TypeInv ==
    /\ file \in Files
    /\ phase \in {"select", "excluded", "replaces", "done"}
    /\ next \in Nat \ {0}
    /\ chosen \in Seq(Replacement \cup {None})
    /\ Len(chosen) <= Len(file.reqs)
    /\ phase = "select" => next = Len(chosen) + 1
    /\ phase = "excluded" => ~file.inWorkspace
    /\ resolved \in Seq(Module)
    /\ replacedFrom \in Seq(Path \cup {NoText})

(* A turn of the loop, as the lemmas below take it.                          *)
SelectTurn(req, rep, failed) ==
    /\ phase = "select" /\ next <= Len(file.reqs)
    /\ req = file.reqs[next] /\ req \in Requirement
    /\ rep = selectReplace(reps, req, failed) /\ rep \in Replacement \cup {None}
    /\ chosen' = Append(chosen, rep)
    /\ trouble' = IF failed = {} THEN trouble ELSE trouble \cup {"select"}
    /\ \/ IsLocal(rep) /\ UNCHANGED <<resolved, replacedFrom>>
       \/ /\ ~IsLocal(rep)
          /\ resolved' = Append(resolved, Fetched(req, rep))
          /\ replacedFrom' = Append(replacedFrom, IF rep = None THEN NoText ELSE req.path)
    /\ next' = next + 1
    /\ UNCHANGED <<file, phase, findings>>

LEMMA SelectTurns ==
    ASSUME TypeInv, Select
    PROVE  \E req, rep, failed : SelectTurn(req, rep, failed)
<1> DEFINE req == file.reqs[next]
<1>1. /\ phase = "select" /\ next <= Len(file.reqs)
      /\ next' = next + 1
      /\ UNCHANGED <<file, phase, findings>>
  BY DEF Select
<1>2. PICK failed :
        /\ chosen' = Append(chosen, selectReplace(reps, req, failed))
        /\ Blame("select", failed)
        /\ \/ /\ IsLocal(selectReplace(reps, req, failed))
              /\ UNCHANGED <<resolved, replacedFrom>>
           \/ /\ ~IsLocal(selectReplace(reps, req, failed))
              /\ resolved' = Append(resolved, Fetched(req, selectReplace(reps, req, failed)))
              /\ replacedFrom' = Append(replacedFrom,
                     IF selectReplace(reps, req, failed) = None THEN NoText ELSE req.path)
  BY DEF Select
<1>3. req \in Requirement
  BY <1>1, FileTyped DEF TypeInv
<1>4. selectReplace(reps, req, failed) \in Replacement \cup {None}
  BY <1>3, ChoiceTyped DEF TypeInv
<1>5. SelectTurn(req, selectReplace(reps, req, failed), failed)
  BY <1>1, <1>2, <1>3, <1>4 DEF SelectTurn, Blame
<1> QED
  BY <1>5

LEMMA FetchedTyped ==
    ASSUME NEW req \in Requirement, NEW rep \in Replacement \cup {None}
    PROVE  Fetched(req, rep) \in Module /\ ~IsLocal(None) /\ None \notin Replacement
<1>1. None \notin Replacement
  BY ReplaceAssumption DEF None, Replacement
<1>2. ~IsLocal(None)
  BY ReplaceAssumption DEF None, IsLocal
<1>3. /\ req.path \in Path /\ req.version \in Text
      /\ req = [path |-> req.path, version |-> req.version]
  BY DEF Requirement
<1>4. req \in Module
  BY <1>3 DEF Module
<1>5. ASSUME rep # None
      PROVE  Fetched(req, rep) \in Module
  <2>1. rep.new \in Path \cup Directory /\ rep.newVersion \in Text \cup {NoText}
    BY <1>5 DEF Replacement
  <2> QED
    BY <1>3, <1>5, <2>1 DEF Fetched, Module
<1> QED
  BY <1>1, <1>2, <1>4, <1>5 DEF Fetched

LEMMA TypeStep == TypeInv /\ [Next]_vars => TypeInv'
<1> SUFFICES ASSUME TypeInv, [Next]_vars PROVE TypeInv'
  OBVIOUS
<1>1. CASE Select
  <2>1. PICK req, rep, failed : SelectTurn(req, rep, failed)
    BY <1>1, SelectTurns
  <2>2. Fetched(req, rep) \in Module /\ req.path \in Path
    BY <2>1, FetchedTyped DEF SelectTurn, Requirement
  <2>3. /\ chosen' \in Seq(Replacement \cup {None}) /\ Len(chosen') = Len(chosen) + 1
        /\ Len(chosen) \in Nat
    BY <2>1 DEF SelectTurn, TypeInv
  <2>4. resolved' \in Seq(Module)
    <3> DEFINE new == Fetched(req, rep)
    <3>1. resolved' = resolved \/ resolved' = Append(resolved, new)
      BY <2>1 DEF SelectTurn
    <3>2. new \in Module
      BY <2>2
    <3>3. resolved \in Seq(Module)
      BY DEF TypeInv
    <3> HIDE DEF new
    <3> QED
      BY <3>1, <3>2, <3>3
  <2>5. replacedFrom' \in Seq(Path \cup {NoText})
    <3> DEFINE from == IF rep = None THEN NoText ELSE req.path
    <3>1. from \in Path \cup {NoText}
      BY <2>2
    <3>2. replacedFrom' = replacedFrom \/ replacedFrom' = Append(replacedFrom, from)
      BY <2>1 DEF SelectTurn
    <3> HIDE DEF from
    <3> QED
      <4>1. replacedFrom \in Seq(Path \cup {NoText})
        BY DEF TypeInv
      <4> QED
        BY <3>1, <3>2, <4>1
  <2>6. /\ file' \in Files /\ phase' = "select" /\ next' = next + 1
        /\ Len(file.reqs) = Len(file.reqs)'
        /\ phase = "select" /\ next <= Len(file.reqs)
    BY <2>1 DEF SelectTurn, TypeInv
  <2>7. next' \in Nat \ {0} /\ next' = Len(chosen') + 1 /\ Len(chosen') <= Len(file.reqs)'
    BY <2>3, <2>6 DEF TypeInv
  <2> QED
    BY <2>3, <2>4, <2>5, <2>6, <2>7 DEF TypeInv
<1>2. CASE Orphans
  <2> DEFINE targets == orphanReplacementTargets
             pad == [k \in DOMAIN targets |-> NoText]
  <2>1. targets \in Seq(Module)
    BY OrphansFound DEF TypeInv
  <2>2. DOMAIN targets = 1..Len(targets) /\ Len(targets) \in Nat
    BY <2>1, LenProperties
  <2>3. pad \in Seq(Path \cup {NoText})
    BY <2>2
  <2>4. /\ resolved' = resolved \o targets
        /\ replacedFrom' = replacedFrom \o pad
    BY <1>2 DEF Orphans
  <2> HIDE DEF targets, pad
  <2>5. resolved' \in Seq(Module) /\ replacedFrom' \in Seq(Path \cup {NoText})
    BY <2>1, <2>3, <2>4, ConcatProperties DEF TypeInv
  <2> QED
    BY <1>2, <2>5, FileTyped DEF Orphans, TypeInv
<1>3. CASE ExcludedRequirement
  BY <1>3 DEF ExcludedRequirement, TypeInv
<1>4. CASE DuplicateRequires
  BY <1>4 DEF DuplicateRequires, TypeInv
<1>5. CASE ReplaceDirectives
  BY <1>5 DEF ReplaceDirectives, TypeInv
<1>6. CASE UNCHANGED vars
  BY <1>6 DEF vars, TypeInv
<1> QED
  BY <1>1, <1>2, <1>3, <1>4, <1>5, <1>6 DEF Next, Finished

-----------------------------------------------------------------------------
(* Every requirement is audited under the replacement in force.              *)

Accounted(rep, req) ==
    LET general == ForAll(ToSet(reps), req)
        fallBack == IF general = {} THEN {None} ELSE general
        mayMiss == Spelled(ToSet(reps), req) = {} /\ Meant(ToSet(reps), req) # {}
    IN  \/ rep \in InForce(req)
        \/ rep = None /\ InForce(req) = {}
        \/ SpeltApart(req) /\ rep \in Spelled(ToSet(file.gomod), req)
        \/ /\ mayMiss /\ "select" \in trouble
           /\ rep \in fallBack \cup Meant(ToSet(reps), req)

LEMMA AccountedMeans ==
    ReplacementInForce <=> \A i \in DOMAIN chosen : Accounted(chosen[i], file.reqs[i])
BY DEF ReplacementInForce, Accounted

LEMMA AccountedStays ==
    ASSUME UNCHANGED file, trouble \subseteq trouble', NEW rep, NEW req, Accounted(rep, req)
    PROVE  Accounted(rep, req)'
<1>1. InForce(req)' = InForce(req)
  BY DEF InForce
<1>2. reps' = reps
  BY DEF reps
<1>3. SpeltApart(req)' = SpeltApart(req)
  BY <1>2 DEF SpeltApart
<1> QED
  BY <1>1, <1>2, <1>3 DEF Accounted

(* The replaces and the trouble of a step that is not a turn of the loop.    *)
LEMMA OtherSteps ==
    ASSUME [Next]_vars, ~Select
    PROVE  UNCHANGED <<file, chosen>> /\ trouble \subseteq trouble'
BY DEF Next, vars, Orphans, ExcludedRequirement, DuplicateRequires, ReplaceDirectives,
       Finished, Blame

LEMMA ReplacementStep ==
    ASSUME TypeInv, ReplacementInForce, [Next]_vars
    PROVE  ReplacementInForce'
<1>1. CASE Select
  <2>1. PICK req, rep, failed : SelectTurn(req, rep, failed)
    BY <1>1, SelectTurns
  <2>2. UNCHANGED file /\ trouble \subseteq trouble' /\ (failed # {} => "select" \in trouble')
    BY <2>1 DEF SelectTurn
  <2>3. /\ DOMAIN chosen = 1..Len(chosen) /\ Len(chosen) \in Nat
        /\ DOMAIN chosen' = 1..Len(chosen) + 1
        /\ \A i \in 1..Len(chosen) : chosen'[i] = chosen[i]
        /\ chosen'[Len(chosen) + 1] = rep
    BY <2>1 DEF SelectTurn, TypeInv
  <2>4. file.reqs'[Len(chosen) + 1] = req
    BY <2>1, <2>2 DEF SelectTurn, TypeInv
  <2>5. Accounted(rep, req)'
    <3>1. file \in Files /\ req \in Requirement /\ rep = selectReplace(reps, req, failed)
      BY <2>1 DEF SelectTurn, TypeInv
    <3>2. /\ InForce(req)' = InForce(req) /\ reps' = reps
          /\ SpeltApart(req)' = SpeltApart(req)
      BY <2>2 DEF InForce, reps, SpeltApart
    <3>3. \/ rep \in InForce(req)
          \/ rep = None /\ InForce(req) = {}
          \/ SpeltApart(req) /\ rep \in Spelled(ToSet(file.gomod), req)
          \/ /\ Spelled(ToSet(reps), req) = {}
             /\ Meant(ToSet(reps), req) # {}
             /\ failed # {}
             /\ rep \in Meant(ToSet(reps), req)
                          \cup (IF ForAll(ToSet(reps), req) = {} THEN {None} ELSE ForAll(ToSet(reps), req))
      BY <3>1, ChoiceIsRight
    <3> QED
      BY <2>2, <3>2, <3>3 DEF Accounted
  <2>6. ASSUME NEW i \in DOMAIN chosen'
        PROVE  Accounted(chosen[i], file.reqs[i])'
    <3>1. CASE i \in 1..Len(chosen)
      <4>1. Accounted(chosen[i], file.reqs[i])
        BY <2>3, <3>1, AccountedMeans
      <4>2. chosen'[i] = chosen[i] /\ file.reqs'[i] = file.reqs[i]
        BY <2>2, <2>3, <3>1
      <4> QED
        BY <2>2, <4>1, <4>2, AccountedStays
    <3>2. CASE i = Len(chosen) + 1
      BY <2>3, <2>4, <2>5, <3>2
    <3> QED
      BY <2>3, <3>1, <3>2
  <2> QED
    BY <2>6 DEF ReplacementInForce, Accounted
<1>2. CASE ~Select
  <2>1. UNCHANGED <<file, chosen>> /\ trouble \subseteq trouble'
    BY <1>2, OtherSteps
  <2>2. ASSUME NEW i \in DOMAIN chosen'
        PROVE  Accounted(chosen[i], file.reqs[i])'
    <3>1. Accounted(chosen[i], file.reqs[i])
      BY <2>1, AccountedMeans
    <3> QED
      BY <2>1, <3>1, AccountedStays
  <2> QED
    BY <2>2 DEF ReplacementInForce, Accounted
<1> QED
  BY <1>1, <1>2

-----------------------------------------------------------------------------
(* The audit covers what the build fetches. *)

Direct == {Fetched(file.reqs[i], chosen[i]) : i \in {j \in DOMAIN chosen : ~IsLocal(chosen[j])}}
OrphanTargets == {Target(r) : r \in {s \in ToSet(reps) : ~Reached(s) /\ ~IsLocal(s)}}

Coverage == ToSet(resolved) = IF phase = "select" THEN Direct ELSE Direct \cup OrphanTargets

(* A target the code does not look at is one the build does not reach.       *)
LEMMA MayFetchMeans ==
    ASSUME file \in Files
    PROVE  MayFetch = Direct \cup OrphanTargets
<1> DEFINE R == ToSet(reps)
           W == ToSet(file.gowork)
           M == ToSet(file.gomod)
           Wanted(r) == r.old \notin declared /\ ~IsLocal(r) /\ ~Ignored(r)
<1>1. /\ \A r \in R : r \in W \/ (r \in M /\ r.old \notin OverriddenBy(file.gowork))
      /\ W \subseteq R
      /\ \A r \in M : r.old \notin OverriddenBy(file.gowork) => r \in R
      /\ R \subseteq Replacement /\ W \subseteq Replacement /\ M \subseteq Replacement
  BY RepsAre
<1>2. \A r \in M \cup W : r \in R <=> ~(r \in M \ W /\ \E w \in W : w.old = r.old /\ General(w))
  BY <1>1 DEF OverriddenBy
<1>3. ASSUME NEW r \in M \cup W
      PROVE  r.old \in chainedAway <=> \E s \in R : s.new = r.old /\ s.old # r.old
  <2>1. r.old \in Path
    BY <1>1 DEF Replacement
  <2>2. \A s \in R : s.new = r.old => ~IsLocal(s)
    BY <2>1, ReplaceAssumption DEF IsLocal
  <2> QED
    BY <2>2 DEF chainedAway
<1>4. R \subseteq M \cup W
  BY <1>1
<1>5. \A r \in M \cup W : Wanted(r) <=> r \in R /\ ~Reached(r) /\ ~IsLocal(r)
  BY <1>2, <1>3 DEF Reached, Ignored
<1>6. {s \in M \cup W : Wanted(s)} = {s \in R : ~Reached(s) /\ ~IsLocal(s)}
  BY <1>4, <1>5
<1>7. MayFetch = Direct \cup {Target(r) : r \in {s \in M \cup W : Wanted(s)}}
  BY DEF MayFetch, Direct
<1> QED
  BY <1>6, <1>7 DEF OrphanTargets

LEMMA CoverageStep ==
    ASSUME TypeInv, Coverage, [Next]_vars
    PROVE  Coverage'
<1>1. CASE Select
  <2>1. PICK req, rep, failed : SelectTurn(req, rep, failed)
    BY <1>1, SelectTurns
  <2>2. /\ DOMAIN chosen = 1..Len(chosen) /\ Len(chosen) \in Nat
        /\ DOMAIN chosen' = (1..Len(chosen)) \cup {Len(chosen) + 1}
        /\ \A i \in 1..Len(chosen) : chosen'[i] = chosen[i]
        /\ chosen'[Len(chosen) + 1] = rep
    <3>1. Len(chosen) \in Nat => 1..Len(chosen) + 1 = (1..Len(chosen)) \cup {Len(chosen) + 1}
      OBVIOUS
    <3> QED
      BY <2>1, <3>1 DEF SelectTurn, TypeInv
  <2>3. file.reqs'[Len(chosen) + 1] = req /\ file' = file /\ phase = "select" /\ phase' = "select"
    BY <2>1 DEF SelectTurn, TypeInv
  <2>4. CASE IsLocal(rep)
    <3>1. Direct' = Direct
      BY <2>2, <2>3, <2>4 DEF Direct
    <3>2. resolved' = resolved
      BY <2>1, <2>4 DEF SelectTurn
    <3> QED
      BY <2>3, <3>1, <3>2 DEF Coverage
  <2>5. CASE ~IsLocal(rep)
    <3>1. Direct' = Direct \cup {Fetched(req, rep)}
      BY <2>2, <2>3, <2>5 DEF Direct
    <3>2. ToSet(resolved') = ToSet(resolved) \cup {Fetched(req, rep)}
      <4>1. Fetched(req, rep) \in Module /\ resolved \in Seq(Module)
        BY <2>1, FetchedTyped DEF SelectTurn, TypeInv
      <4>2. resolved' = Append(resolved, Fetched(req, rep))
        BY <2>1, <2>5 DEF SelectTurn
      <4> QED
        BY <4>1, <4>2, ElementsAppended
    <3> QED
      BY <2>3, <3>1, <3>2 DEF Coverage
  <2> QED
    BY <2>4, <2>5
<1>2. CASE Orphans
  <2>1. /\ resolved' = resolved \o orphanReplacementTargets
        /\ phase = "select" /\ phase' # "select"
        /\ UNCHANGED <<file, chosen>>
    BY <1>2 DEF Orphans
  <2>2. /\ orphanReplacementTargets \in Seq(Module)
        /\ ToSet(orphanReplacementTargets) = OrphanTargets
    BY OrphansFound DEF TypeInv, OrphanTargets
  <2>3. resolved \in Seq(Module)
    BY DEF TypeInv
  <2>4. ToSet(resolved') = ToSet(resolved) \cup OrphanTargets
    BY <2>1, <2>2, <2>3, ElementsOfConcat
  <2>5. Direct' = Direct
    BY <2>1 DEF Direct
  <2>6. OrphanTargets' = OrphanTargets
    BY <2>1 DEF OrphanTargets, Reached, declared, chainedAway, reps
  <2> QED
    BY <2>1, <2>4, <2>5, <2>6 DEF Coverage
<1>3. CASE UNCHANGED <<file, chosen, resolved>> /\ (phase = "select" <=> phase' = "select")
  <2>1. Direct' = Direct
    BY <1>3 DEF Direct
  <2>2. OrphanTargets' = OrphanTargets
    BY <1>3 DEF OrphanTargets, Reached, declared, chainedAway, reps
  <2> QED
    BY <1>3, <2>1, <2>2 DEF Coverage
<1> QED
  BY <1>1, <1>2, <1>3 DEF Next, vars, ExcludedRequirement, DuplicateRequires, ReplaceDirectives,
     Finished

-----------------------------------------------------------------------------
(* resolved and replacedFrom. *)

Replaced == {s \in DOMAIN replacedFrom : replacedFrom[s] # NoText}
Away == {i \in DOMAIN chosen : chosen[i] # None /\ ~IsLocal(chosen[i])}

LEMMA SlotsStep ==
    ASSUME TypeInv, SlotsStayParallel, [Next]_vars
    PROVE  SlotsStayParallel'
<1> DEFINE Backed(s) == \E i \in DOMAIN chosen :
                           /\ chosen[i] # None
                           /\ file.reqs[i].path = replacedFrom[s]
                           /\ Fetched(file.reqs[i], chosen[i]) = resolved[s]
           n == Len(resolved)
           m == Len(chosen)
<1>1. /\ n \in Nat /\ m \in Nat
      /\ DOMAIN resolved = 1..n /\ DOMAIN replacedFrom = 1..n /\ DOMAIN chosen = 1..m
      /\ Len(replacedFrom) = n
  BY LenProperties DEF TypeInv, SlotsStayParallel
<1>2. /\ \A s \in 1..n : replacedFrom[s] # NoText => Backed(s)
      /\ Cardinality(Replaced) = Cardinality(Away)
  BY <1>1 DEF SlotsStayParallel, Replaced, Away
<1>3. IsFiniteSet(Replaced) /\ IsFiniteSet(Away)
  <2>1. IsFiniteSet(1..n) /\ IsFiniteSet(1..m)
    BY <1>1, FS_Interval
  <2>2. Replaced \subseteq 1..n /\ Away \subseteq 1..m
    BY <1>1 DEF Replaced, Away
  <2> QED
    BY <2>1, <2>2, FS_Subset
<1>4. CASE Select
  <2>1. PICK req, rep, failed : SelectTurn(req, rep, failed)
    BY <1>4, SelectTurns
  <2>2. /\ DOMAIN chosen' = (1..m) \cup {m + 1}
        /\ \A i \in 1..m : chosen'[i] = chosen[i]
        /\ chosen'[m + 1] = rep
    <3>1. 1..m + 1 = (1..m) \cup {m + 1}
      BY <1>1
    <3> QED
      BY <1>1, <2>1, <3>1 DEF SelectTurn, TypeInv
  <2>3. file.reqs'[m + 1] = req /\ file' = file /\ req.path # NoText
    BY <2>1, ReplaceAssumption DEF SelectTurn, TypeInv, Requirement
  <2>4. \A s \in 1..n : resolved'[s] = resolved[s] /\ replacedFrom'[s] = replacedFrom[s]
                          => (replacedFrom[s] # NoText => Backed(s)')
    BY <1>1, <1>2, <2>2, <2>3
  <2>5. CASE IsLocal(rep)
    <3>1. UNCHANGED <<resolved, replacedFrom>>
      BY <2>1, <2>5 DEF SelectTurn
    <3>2. Away' = Away /\ Replaced' = Replaced
      BY <1>1, <2>2, <2>5, <3>1 DEF Away, Replaced
    <3> QED
      BY <1>1, <1>2, <2>4, <3>1, <3>2 DEF SlotsStayParallel, Away, Replaced
  <2>6. CASE ~IsLocal(rep)
    <3> DEFINE from == IF rep = None THEN NoText ELSE req.path
               new == Fetched(req, rep)
    <3>1. from \in Path \cup {NoText} /\ new \in Module
      BY <2>1, FetchedTyped DEF SelectTurn, Requirement
    <3>2. resolved' = Append(resolved, new) /\ replacedFrom' = Append(replacedFrom, from)
      BY <2>1, <2>6 DEF SelectTurn
    <3>3. resolved \in Seq(Module) /\ replacedFrom \in Seq(Path \cup {NoText})
      BY DEF TypeInv
    <3>4. 1..n + 1 = (1..n) \cup {n + 1}
      BY <1>1
    <3>5. from # NoText <=> rep # None
      BY <2>3
    <3>6. from # NoText => from = req.path
      BY <2>3
    <3> HIDE DEF from, new
    <3>7. /\ DOMAIN resolved' = (1..n) \cup {n + 1} /\ DOMAIN replacedFrom' = (1..n) \cup {n + 1}
          /\ Len(resolved') = n + 1 /\ Len(replacedFrom') = n + 1
          /\ \A s \in 1..n : resolved'[s] = resolved[s] /\ replacedFrom'[s] = replacedFrom[s]
          /\ resolved'[n + 1] = new /\ replacedFrom'[n + 1] = from
      BY <1>1, <3>1, <3>2, <3>3, <3>4
    <3>8. \A s \in DOMAIN resolved' : replacedFrom'[s] # NoText => Backed(s)'
      <4>1. ASSUME NEW s, s = n + 1, from # NoText
            PROVE  Backed(s)'
        <5>1. m + 1 \in DOMAIN chosen'
          BY <2>2
        <5>2. chosen'[m + 1] # None
          BY <2>2, <3>5, <4>1
        <5>3. file'.reqs[m + 1].path = replacedFrom'[s]
          BY <2>3, <3>6, <3>7, <4>1
        <5>4. Fetched(file'.reqs[m + 1], chosen'[m + 1]) = resolved'[s]
          BY <2>2, <2>3, <3>7, <4>1 DEF new
        <5> QED
          BY <5>1, <5>2, <5>3, <5>4
      <4> HIDE DEF Backed
      <4> QED
        BY <2>4, <3>7, <4>1
    <3>9. Cardinality(Replaced') = Cardinality(Away')
      <4>1. CASE rep = None
        <5>1. Replaced' = Replaced
          BY <1>1, <3>5, <3>7, <4>1 DEF Replaced
        <5>2. Away' = Away
          BY <1>1, <2>2, <4>1 DEF Away
        <5> QED
          BY <1>2, <5>1, <5>2
      <4>2. CASE rep # None
        <5>1. Replaced' = Replaced \cup {n + 1} /\ n + 1 \notin Replaced
          BY <1>1, <3>5, <3>7, <4>2 DEF Replaced
        <5>2. Away' = Away \cup {m + 1} /\ m + 1 \notin Away
          BY <1>1, <2>2, <2>6, <4>2 DEF Away
        <5>3. Cardinality(Replaced \cup {n + 1}) = Cardinality(Replaced) + 1
          BY <1>3, <5>1, FS_AddElement
        <5>4. Cardinality(Away \cup {m + 1}) = Cardinality(Away) + 1
          BY <1>3, <5>2, FS_AddElement
        <5> QED
          BY <1>2, <5>1, <5>2, <5>3, <5>4
      <4> QED
        BY <4>1, <4>2
    <3> QED
      BY <3>7, <3>8, <3>9 DEF SlotsStayParallel, Away, Replaced
  <2> QED
    BY <2>5, <2>6
<1>5. CASE Orphans
  <2> DEFINE targets == orphanReplacementTargets
             pad == [k \in DOMAIN targets |-> NoText]
             t == Len(targets)
  <2>1. targets \in Seq(Module)
    BY OrphansFound DEF TypeInv
  <2>2. DOMAIN targets = 1..t /\ t \in Nat
    BY <2>1, LenProperties
  <2>3. pad \in Seq(Path \cup {NoText}) /\ Len(pad) = t /\ \A k \in 1..t : pad[k] = NoText
    BY <2>2
  <2>4. /\ resolved' = resolved \o targets
        /\ replacedFrom' = replacedFrom \o pad
        /\ UNCHANGED <<file, chosen>>
    BY <1>5 DEF Orphans
  <2>5. resolved \in Seq(Module) /\ replacedFrom \in Seq(Path \cup {NoText})
    BY DEF TypeInv
  <2> HIDE DEF targets, pad
  <2>6. /\ Len(resolved') = n + t /\ Len(replacedFrom') = n + t
        /\ DOMAIN resolved' = 1..n + t /\ DOMAIN replacedFrom' = 1..n + t
    <3>1. resolved \o targets \in Seq(Module) /\ replacedFrom \o pad \in Seq(Path \cup {NoText})
      BY <2>1, <2>3, <2>5, ConcatProperties
    <3>2. Len(resolved \o targets) = Len(resolved) + Len(targets)
      BY <2>1, <2>5, ConcatProperties
    <3>3. Len(replacedFrom \o pad) = Len(replacedFrom) + Len(pad)
      BY <2>3, <2>5, ConcatProperties
    <3>4. /\ DOMAIN (resolved \o targets) = 1..Len(resolved \o targets)
          /\ DOMAIN (replacedFrom \o pad) = 1..Len(replacedFrom \o pad)
      BY <3>1, LenProperties
    <3> QED
      BY <1>1, <2>3, <2>4, <3>2, <3>3, <3>4
  <2>7. /\ \A s \in 1..n : resolved'[s] = resolved[s] /\ replacedFrom'[s] = replacedFrom[s]
        /\ \A s \in 1..n + t : s \notin 1..n => replacedFrom'[s] = NoText
    <3>1. \A s \in 1..n + t : /\ resolved'[s] = IF s <= n THEN resolved[s] ELSE targets[s - n]
                              /\ replacedFrom'[s] = IF s <= n THEN replacedFrom[s] ELSE pad[s - n]
      BY <1>1, <2>1, <2>2, <2>3, <2>4, <2>5, ConcatProperties
    <3>2. \A s \in 1..n + t : s \notin 1..n => ~(s <= n) /\ s - n \in 1..t
      BY <1>1, <2>2
    <3>3. \A s \in 1..n : s \in 1..n + t /\ s <= n
      BY <1>1, <2>2
    <3> QED
      BY <2>3, <3>1, <3>2, <3>3
  <2>8. Replaced' = Replaced
    <3>1. 1..n \subseteq 1..n + t
      BY <1>1, <2>2
    <3> QED
      BY <1>1, <2>6, <2>7, <3>1 DEF Replaced
  <2>9. Away' = Away
    BY <2>4 DEF Away
  <2>10. \A s \in DOMAIN resolved' : replacedFrom'[s] # NoText => Backed(s)'
    <3>1. \A s \in 1..n : Backed(s) => Backed(s)'
      BY <2>4, <2>7
    <3> QED
      BY <1>2, <2>6, <2>7, <3>1
  <2> QED
    BY <1>2, <2>6, <2>8, <2>9, <2>10 DEF SlotsStayParallel, Away, Replaced
<1>6. CASE UNCHANGED <<file, chosen, resolved, replacedFrom>>
  BY <1>6 DEF SlotsStayParallel
<1> QED
  BY <1>4, <1>5, <1>6 DEF Next, vars, ExcludedRequirement, DuplicateRequires, ReplaceDirectives,
     Finished

-----------------------------------------------------------------------------
(* The contradictions reported are real. *)

Means(p, v, w) == v = w \/ (v # NoText /\ w # NoText /\ SameTag(p, v, w, {}))

ExcludedRefused(p) ==
    /\ ~file.inWorkspace
    /\ \E r \in ToSet(file.reqs), e \in ToSet(file.excludes) :
          r.path = p /\ e.path = p /\ Means(p, r.version, e.version)

DuplicateRefused(p) ==
    /\ ~file.inWorkspace
    /\ Cardinality({r \in ToSet(file.reqs) : r.path = p}) > 1

AmbiguousRefused(p) ==
    \E r \in ToSet(file.reqs \o file.excludes) : r.path = p /\ r.version \in Ambiguous

UnversionedRefused(p) ==
    \E r \in {s \in ToSet(file.gomod) : s.old = p} : r.newVersion = NoText /\ r.new \in Path

ConflictRefused(p) ==
    \E r, s \in {t \in ToSet(file.gomod) : t.old = p} :
        Means(p, r.oldVersion, s.oldVersion) /\ Target(r) # Target(s)

LEMMA RefusesMeans ==
    ASSUME NEW p
    PROVE  /\ Refuses("excluded-requirement", p) <=> ExcludedRefused(p)
           /\ Refuses("duplicate-require", p) <=> DuplicateRefused(p)
           /\ Refuses("ambiguous-version-query", p) <=> AmbiguousRefused(p)
           /\ Refuses("replace-missing-version", p) <=> UnversionedRefused(p)
           /\ Refuses("conflicting-replace", p) <=> ConflictRefused(p)
<1>1. Refuses("excluded-requirement", p) <=> ExcludedRefused(p)
  BY DEF Refuses, ExcludedRefused, Means
<1>2. Refuses("duplicate-require", p) <=> DuplicateRefused(p)
  BY DEF Refuses, DuplicateRefused
<1>3. Refuses("ambiguous-version-query", p) <=> AmbiguousRefused(p)
  BY DEF Refuses, AmbiguousRefused
<1>4. Refuses("replace-missing-version", p) <=> UnversionedRefused(p)
  BY DEF Refuses, UnversionedRefused
<1>5. Refuses("conflicting-replace", p) <=> ConflictRefused(p)
  BY DEF Refuses, ConflictRefused, Means
<1> QED
  BY <1>1, <1>2, <1>3, <1>4, <1>5

LEMMA RefusesStays ==
    ASSUME UNCHANGED file, NEW reason, NEW p
    PROVE  Refuses(reason, p)' <=> Refuses(reason, p)
BY DEF Refuses

(* A path is required twice when it is required at two versions.             *)
LEMMA RequiredTwice ==
    ASSUME file \in Files, NEW p
    PROVE  Cardinality({r \in ToSet(file.reqs) : r.path = p}) > 1
             <=> \E r, s \in ToSet(file.reqs) : r.path = p /\ s.path = p /\ r.version # s.version
<1> DEFINE same == {r \in ToSet(file.reqs) : r.path = p}
<1>1. IsFiniteSet(ToSet(file.reqs)) /\ ToSet(file.reqs) \subseteq Requirement
  BY FileTyped, ElementsTyped
<1>2. IsFiniteSet(same)
  BY <1>1, FS_Subset
<1>3. ASSUME NEW r \in same, NEW s \in same, r.version # s.version
      PROVE  Cardinality(same) > 1
  <2>1. {r, s} \subseteq same /\ r # s
    BY <1>3
  <2>2. Cardinality({r, s}) = 2 /\ Cardinality({r, s}) <= Cardinality(same) /\ Cardinality(same) \in Nat
    <3>1. IsFiniteSet({r}) /\ Cardinality({r}) = 1
      BY FS_Singleton
    <3>2. Cardinality({r} \cup {s}) = Cardinality({r}) + 1
      BY <2>1, <3>1, FS_AddElement
    <3>3. {r} \cup {s} = {r, s}
      OBVIOUS
    <3> QED
      BY <1>2, <2>1, <3>1, <3>2, <3>3, FS_Subset, FS_CardinalityType
  <2> QED
    BY <2>2
<1>4. ASSUME \A r, s \in same : r.version = s.version
      PROVE  ~(Cardinality(same) > 1)
  <2>1. \A r, s \in same : r = s
    BY <1>1, <1>4 DEF Requirement
  <2>2. CASE same = {}
    BY <2>2, FS_EmptySet
  <2>3. CASE same # {}
    <3>1. PICK r : same = {r}
      BY <2>1, <2>3
    <3> QED
      <4>1. Cardinality(same) = 1
        BY <3>1, FS_Singleton
      <4> QED
        BY <4>1
  <2> QED
    BY <2>2, <2>3
<1> QED
  BY <1>3, <1>4

(* resolveOf compares what two directives are about: equal scopes mean one   *)
(* text, or one tag, whichever requests failed.                              *)
LEMMA ScopesMean ==
    ASSUME NEW r \in Replacement, NEW s \in Replacement, r.old = s.old, NEW failed,
           Scope(r, failed) = Scope(s, failed)
    PROVE  Means(r.old, r.oldVersion, s.oldVersion)
<1> DEFINE p == r.old
           tag(t) == IF General(t) \/ <<t.old, t.oldVersion>> \in failed THEN NoText
                     ELSE Tag[t.old][t.oldVersion]
<1>1. p \in Path /\ r.oldVersion \in Text \cup {NoText} /\ s.oldVersion \in Text \cup {NoText}
  BY DEF Replacement
<1>2. /\ NoText \notin Text
      /\ \A v \in Text : Tag[p][v] \in Text \cup {NoText}
      /\ \A v \in Text : Tag[p][v] # NoText => Tag[p][Tag[p][v]] = Tag[p][v]
  BY <1>1, ReplaceAssumption
<1>3. /\ Scope(r, failed) = IF tag(r) = NoText THEN r.oldVersion ELSE tag(r)
      /\ Scope(s, failed) = IF tag(s) = NoText THEN s.oldVersion ELSE tag(s)
  BY DEF Scope
<1>4. \A t \in {r, s} : tag(t) # NoText => t.oldVersion # NoText /\ tag(t) = Tag[p][t.oldVersion]
  BY DEF General
<1>5. \A v, w : SameTag(p, v, w, {}) <=> Tag[p][v] # NoText /\ Tag[p][v] = Tag[p][w]
  BY DEF SameTag, ResolveVersion
<1> HIDE DEF tag
<1>6. /\ tag(r) # NoText => r.oldVersion # NoText /\ tag(r) = Tag[p][r.oldVersion]
      /\ tag(s) # NoText => s.oldVersion # NoText /\ tag(s) = Tag[p][s.oldVersion]
  BY <1>4
<1>7. CASE tag(r) = NoText /\ tag(s) = NoText
  BY <1>3, <1>7 DEF Means
<1>8. CASE tag(r) # NoText /\ tag(s) = NoText
  <2>1. r.oldVersion \in Text /\ s.oldVersion = Tag[p][r.oldVersion] /\ s.oldVersion # NoText
    BY <1>1, <1>3, <1>6, <1>8
  <2>2. Tag[p][s.oldVersion] = Tag[p][r.oldVersion]
    BY <1>2, <2>1
  <2> QED
    BY <1>5, <2>1, <2>2, <1>2 DEF Means
<1>9. CASE tag(r) = NoText /\ tag(s) # NoText
  <2>1. s.oldVersion \in Text /\ r.oldVersion = Tag[p][s.oldVersion] /\ r.oldVersion # NoText
    BY <1>1, <1>3, <1>6, <1>9
  <2>2. Tag[p][r.oldVersion] = Tag[p][s.oldVersion]
    BY <1>2, <2>1
  <2> QED
    BY <1>5, <2>1, <2>2, <1>2 DEF Means
<1>10. CASE tag(r) # NoText /\ tag(s) # NoText
  <2>1. /\ Tag[p][r.oldVersion] = Tag[p][s.oldVersion] /\ Tag[p][r.oldVersion] # NoText
        /\ r.oldVersion # NoText /\ s.oldVersion # NoText
    BY <1>3, <1>6, <1>10
  <2> QED
    BY <1>5, <2>1 DEF Means
<1> QED
  BY <1>7, <1>8, <1>9, <1>10

(* And without a failure, one tag or one text is one scope.                  *)
LEMMA MeansOneScope ==
    ASSUME NEW r \in Replacement, NEW s \in Replacement, r.old = s.old,
           Means(r.old, r.oldVersion, s.oldVersion)
    PROVE  Scope(r, {}) = Scope(s, {})
<1>1. CASE r.oldVersion = s.oldVersion
  BY <1>1 DEF Scope, General
<1>2. CASE r.oldVersion # s.oldVersion
  <2>1. /\ r.oldVersion # NoText /\ s.oldVersion # NoText
        /\ Tag[r.old][r.oldVersion] # NoText
        /\ Tag[r.old][r.oldVersion] = Tag[r.old][s.oldVersion]
    BY <1>2 DEF Means, SameTag, ResolveVersion
  <2> QED
    BY <2>1 DEF Scope, General
<1> QED
  BY <1>1, <1>2

LEMMA RealStep ==
    ASSUME TypeInv, ContradictionsAreReal, [Next]_vars
    PROVE  ContradictionsAreReal'
<1>1. UNCHANGED file
  BY DEF Next, vars, Select, Orphans, ExcludedRequirement, DuplicateRequires, ReplaceDirectives,
     Finished
<1>2. ASSUME NEW f \in findings' \ findings
      PROVE  Refuses(f.reason, f.module)
  <2>1. CASE ExcludedRequirement
    <3> DEFINE req == file.reqs[next]
    <3>1. phase = "excluded" /\ next <= Len(file.reqs)
      BY <2>1 DEF ExcludedRequirement
    <3>2. PICK failed : /\ findings' = findings \cup Finding("excluded-requirement", {req.path})
                        /\ \/ req \in ToSet(file.excludes)
                           \/ \E v \in Excluded(req.path) \ {req.version} :
                                  SameTag(req.path, req.version, v, failed)
      BY <1>2, <2>1 DEF ExcludedRequirement
    <3>3. f.reason = "excluded-requirement" /\ f.module = req.path
      BY <1>2, <3>2 DEF Finding
    <3>4. req \in ToSet(file.reqs) /\ req \in Requirement /\ ~file.inWorkspace
      <4>1. next \in DOMAIN file.reqs
        BY <3>1, FileTyped, LenProperties DEF TypeInv
      <4> QED
        BY <3>1, <4>1, FileTyped, ElementsTyped DEF TypeInv
    <3>5. \E e \in ToSet(file.excludes) : e.path = req.path /\ Means(req.path, req.version, e.version)
      <4>1. CASE req \in ToSet(file.excludes)
        BY <4>1 DEF Means
      <4>2. CASE req \notin ToSet(file.excludes)
        <5>1. PICK e \in ToSet(file.excludes) :
                 e.path = req.path /\ SameTag(req.path, req.version, e.version, failed)
          BY <3>2, <4>2 DEF Excluded
        <5>2. req.version # NoText /\ e.version # NoText
          <6>1. e \in Requirement
            BY FileTyped, ElementsTyped DEF TypeInv
          <6> QED
            BY <3>4, <6>1, ReplaceAssumption DEF Requirement
        <5> QED
          BY <5>1, <5>2, SameTagEven DEF Means
      <4> QED
        BY <4>1, <4>2
    <3>6. ExcludedRefused(req.path)
      BY <3>4, <3>5 DEF ExcludedRefused
    <3> QED
      BY <3>3, <3>6, RefusesMeans
  <2>2. CASE DuplicateRequires
    <3>1. PICK p \in declared : /\ f = [reason |-> "duplicate-require", module |-> p]
                                /\ \E r, s \in ToSet(file.reqs) :
                                      r.path = p /\ s.path = p /\ r.version # s.version
      BY <1>2, <2>2 DEF DuplicateRequires, Finding
    <3>2. ~file.inWorkspace /\ file \in Files
      BY <2>2 DEF DuplicateRequires, TypeInv
    <3>3. DuplicateRefused(p)
      BY <3>1, <3>2, RequiredTwice DEF DuplicateRefused
    <3> QED
      BY <3>1, <3>3, RefusesMeans
  <2>3. CASE ReplaceDirectives
    <3>1. file \in Files /\ ToSet(file.gomod) \subseteq Replacement
      BY RepsAre DEF TypeInv
    <3>2. PICK failed : findings' = findings \cup Finding("ambiguous-version-query", ambiguous)
                                     \cup Finding("replace-missing-version", unversioned)
                                     \cup Finding("conflicting-replace", conflicting(failed))
      BY <2>3 DEF ReplaceDirectives
    <3>3. CASE f \in Finding("ambiguous-version-query", ambiguous)
      <4>1. PICK r \in ToSet(file.reqs) \cup ToSet(file.excludes) :
               /\ r.version \in Ambiguous
               /\ f = [reason |-> "ambiguous-version-query", module |-> r.path]
        BY <3>3 DEF Finding, ambiguous
      <4>2. r \in ToSet(file.reqs \o file.excludes)
        BY <3>1, FileTyped, ElementsOfConcat
      <4>3. AmbiguousRefused(r.path)
        BY <4>1, <4>2 DEF AmbiguousRefused
      <4> QED
        BY <4>1, <4>3, RefusesMeans
    <3>4. CASE f \in Finding("replace-missing-version", unversioned)
      <4>1. PICK r \in ToSet(file.gomod) :
               /\ ~IsLocal(r) /\ r.newVersion = NoText
               /\ f = [reason |-> "replace-missing-version", module |-> r.old]
        BY <3>4 DEF Finding, unversioned
      <4>2. r.new \in Path
        BY <3>1, <4>1 DEF Replacement, IsLocal
      <4>3. UnversionedRefused(r.old)
        BY <4>1, <4>2 DEF UnversionedRefused
      <4> QED
        BY <4>1, <4>3, RefusesMeans
    <3>5. CASE f \in Finding("conflicting-replace", conflicting(failed))
      <4>1. PICK s \in ToSet(file.gomod), t \in ToSet(file.gomod) :
               /\ t.old = s.old /\ Scope(t, failed) = Scope(s, failed) /\ Target(t) # Target(s)
               /\ f = [reason |-> "conflicting-replace", module |-> s.old]
        BY <3>5 DEF Finding, conflicting
      <4>2. Means(t.old, t.oldVersion, s.oldVersion)
        BY <3>1, <4>1, ScopesMean
      <4>3. ConflictRefused(s.old)
        BY <4>1, <4>2 DEF ConflictRefused
      <4> QED
        BY <4>1, <4>3, RefusesMeans
    <3> QED
      BY <1>2, <3>2, <3>3, <3>4, <3>5
  <2> QED
    BY <1>2, <2>1, <2>2, <2>3 DEF Next, vars, Select, Orphans, Finished
<1>3. ASSUME NEW f \in findings'
      PROVE  Refuses(f.reason, f.module)
  BY <1>2, <1>3 DEF ContradictionsAreReal
<1>4. ASSUME NEW f \in findings'
      PROVE  Refuses(f.reason, f.module)'
  BY <1>1, <1>3, <1>4, RefusesStays
<1> QED
  BY <1>4 DEF ContradictionsAreReal

-----------------------------------------------------------------------------
(* All of them are reported. *)

Contradicted(r) ==
    \E e \in ToSet(file.excludes) : e.path = r.path /\ Means(r.path, r.version, e.version)

Reported(reason, p) == [reason |-> reason, module |-> p] \in findings

(* What each check, once past, has reported.                                 *)
ReportedInv ==
    /\ phase \in {"excluded", "replaces", "done"} /\ ~file.inWorkspace =>
          \A i \in DOMAIN file.reqs :
              (phase = "excluded" => i < next) /\ Contradicted(file.reqs[i]) =>
                  Reported("excluded-requirement", file.reqs[i].path) \/ "excluded" \in trouble
    /\ phase \in {"replaces", "done"} =>
          \A p \in Path : DuplicateRefused(p) => Reported("duplicate-require", p)
    /\ phase = "done" =>
          \A p \in Path :
              /\ AmbiguousRefused(p) => Reported("ambiguous-version-query", p)
              /\ UnversionedRefused(p) => Reported("replace-missing-version", p)
              /\ ConflictRefused(p) =>
                    Reported("conflicting-replace", p) \/ "replaces" \in trouble

LEMMA ReportsGrow ==
    ASSUME [Next]_vars
    PROVE  UNCHANGED file /\ findings \subseteq findings' /\ trouble \subseteq trouble'
BY DEF Next, vars, Select, Orphans, ExcludedRequirement, DuplicateRequires, ReplaceDirectives,
       Finished, Blame

LEMMA ReportedStep ==
    ASSUME TypeInv, ReportedInv, [Next]_vars
    PROVE  ReportedInv'
<1>1. UNCHANGED file /\ findings \subseteq findings' /\ trouble \subseteq trouble'
  BY ReportsGrow
<1>2. \A p : /\ DuplicateRefused(p)' <=> DuplicateRefused(p)
             /\ AmbiguousRefused(p)' <=> AmbiguousRefused(p)
             /\ UnversionedRefused(p)' <=> UnversionedRefused(p)
             /\ ConflictRefused(p)' <=> ConflictRefused(p)
  BY <1>1 DEF DuplicateRefused, AmbiguousRefused, UnversionedRefused, ConflictRefused
<1>3. \A r : Contradicted(r)' <=> Contradicted(r)
  BY <1>1 DEF Contradicted
<1>4. \A reason, p : Reported(reason, p) => Reported(reason, p)'
  BY <1>1 DEF Reported
<1>5. DOMAIN file.reqs = 1..Len(file.reqs) /\ Len(file.reqs) \in Nat /\ next \in Nat
  BY FileTyped, LenProperties DEF TypeInv
<1>6. CASE Select
  BY <1>6 DEF Select, ReportedInv
<1>7. CASE Orphans
  <2>1. phase' = (IF file.inWorkspace THEN "replaces" ELSE "excluded") /\ next' = 1
    BY <1>7 DEF Orphans
  <2>2. CASE file.inWorkspace
    <3>1. \A p : ~DuplicateRefused(p)
      BY <2>2 DEF DuplicateRefused
    <3> QED
      BY <1>1, <1>2, <2>1, <2>2, <3>1 DEF ReportedInv
  <2>3. CASE ~file.inWorkspace
    <3>1. \A i \in DOMAIN file.reqs : ~(i < next')
      BY <1>5, <2>1
    <3> QED
      BY <1>1, <2>1, <2>3, <3>1 DEF ReportedInv
  <2> QED
    BY <2>2, <2>3
<1>8. CASE ExcludedRequirement
  <2> DEFINE req == file.reqs[next]
  <2>1. phase = "excluded" /\ phase' = "excluded" /\ next <= Len(file.reqs) /\ next' = next + 1
    BY <1>8 DEF ExcludedRequirement
  <2>2. PICK failed :
          /\ Blame("excluded", failed)
          /\ \/ findings' = findings \cup Finding("excluded-requirement", {req.path})
             \/ /\ req \notin ToSet(file.excludes)
                /\ \A v \in Excluded(req.path) \ {req.version} :
                      ~SameTag(req.path, req.version, v, failed)
    BY <1>8 DEF ExcludedRequirement
  <2>3. ASSUME NEW p, p = req.path, Contradicted(req)
        PROVE  Reported("excluded-requirement", p)' \/ "excluded" \in trouble'
    <3>1. CASE findings' = findings \cup Finding("excluded-requirement", {req.path})
      BY <2>3, <3>1 DEF Reported, Finding
    <3>2. CASE failed # {}
      BY <2>2, <3>2 DEF Blame
    <3>3. CASE /\ failed = {}
               /\ req \notin ToSet(file.excludes)
               /\ \A v \in Excluded(req.path) \ {req.version} :
                     ~SameTag(req.path, req.version, v, failed)
      <4>1. PICK e \in ToSet(file.excludes) : e.path = req.path /\ Means(req.path, req.version, e.version)
        BY <2>3 DEF Contradicted
      <4>2. e.version \in Excluded(req.path)
        BY <4>1 DEF Excluded
      <4>3. e \in Requirement /\ req \in Requirement
        <5>1. next \in DOMAIN file.reqs
          BY <1>5, <2>1 DEF TypeInv
        <5> QED
          BY <5>1, FileTyped, ElementsTyped DEF TypeInv
      <4>4. e.version # req.version
        BY <3>3, <4>1, <4>3 DEF Requirement
      <4>5. SameTag(req.path, req.version, e.version, failed)
        BY <3>3, <4>1, <4>4 DEF Means
      <4> QED
        BY <3>3, <4>2, <4>4, <4>5
    <3> QED
      BY <2>2, <3>1, <3>2, <3>3
  <2>4. ASSUME NEW i \in DOMAIN file.reqs, i < next', Contradicted(file.reqs[i]), ~file.inWorkspace
        PROVE  Reported("excluded-requirement", file.reqs[i].path)' \/ "excluded" \in trouble'
    <3>1. CASE i = next
      <4>1. file.reqs'[i] = req
        BY <1>1, <3>1
      <4> HIDE DEF req
      <4> QED
        BY <1>1, <2>3, <2>4, <3>1, <4>1 DEF req
    <3>2. CASE i # next
      <4>1. i < next
        BY <1>5, <2>1, <2>4, <3>2
      <4> QED
        BY <1>1, <1>4, <2>1, <2>4, <4>1 DEF ReportedInv
    <3> QED
      BY <3>1, <3>2
  <2> QED
    BY <1>1, <1>3, <2>1, <2>4 DEF ReportedInv
<1>9. CASE DuplicateRequires
  <2>1. phase = "excluded" /\ phase' = "replaces" /\ next > Len(file.reqs)
    BY <1>9 DEF DuplicateRequires
  <2>2. ASSUME NEW p \in Path, DuplicateRefused(p)
        PROVE  Reported("duplicate-require", p)'
    <3>1. PICK r \in ToSet(file.reqs), s \in ToSet(file.reqs) :
             r.path = p /\ s.path = p /\ r.version # s.version
      BY <2>2, RequiredTwice DEF DuplicateRefused, TypeInv
    <3>2. p \in declared
      BY <3>1 DEF declared
    <3> QED
      BY <1>9, <3>1, <3>2 DEF DuplicateRequires, Reported, Finding
  <2>3. ASSUME NEW i \in DOMAIN file.reqs, Contradicted(file.reqs[i]), ~file.inWorkspace
        PROVE  Reported("excluded-requirement", file.reqs[i].path)' \/ "excluded" \in trouble'
    <3>1. i < next
      BY <1>5, <2>1
    <3> QED
      BY <1>1, <1>4, <2>1, <2>3, <3>1 DEF ReportedInv
  <2> QED
    BY <1>1, <1>2, <1>3, <2>1, <2>2, <2>3 DEF ReportedInv
<1>10. CASE ReplaceDirectives
  <2>1. phase = "replaces" /\ phase' = "done"
    BY <1>10 DEF ReplaceDirectives
  <2>2. PICK failed : /\ findings' = findings \cup Finding("ambiguous-version-query", ambiguous)
                                      \cup Finding("replace-missing-version", unversioned)
                                      \cup Finding("conflicting-replace", conflicting(failed))
                      /\ Blame("replaces", failed)
    BY <1>10 DEF ReplaceDirectives
  <2>3. file \in Files /\ ToSet(file.gomod) \subseteq Replacement
    BY RepsAre DEF TypeInv
  <2>4. ASSUME NEW p, AmbiguousRefused(p)
        PROVE  Reported("ambiguous-version-query", p)'
    <3>1. PICK r \in ToSet(file.reqs) \cup ToSet(file.excludes) : r.path = p /\ r.version \in Ambiguous
      BY <2>3, <2>4, FileTyped, ElementsOfConcat DEF AmbiguousRefused
    <3>2. p \in ambiguous
      BY <3>1 DEF ambiguous
    <3> QED
      BY <2>2, <3>2 DEF Reported, Finding
  <2>5. ASSUME NEW p, UnversionedRefused(p)
        PROVE  Reported("replace-missing-version", p)'
    <3>1. PICK r \in ToSet(file.gomod) : r.old = p /\ r.newVersion = NoText /\ r.new \in Path
      BY <2>5 DEF UnversionedRefused
    <3>2. p \in unversioned
      BY <3>1, ReplaceAssumption DEF unversioned, IsLocal
    <3> QED
      BY <2>2, <3>2 DEF Reported, Finding
  <2>6. ASSUME NEW p, ConflictRefused(p), failed = {}
        PROVE  Reported("conflicting-replace", p)'
    <3>1. PICK r \in ToSet(file.gomod), s \in ToSet(file.gomod) :
             /\ r.old = p /\ s.old = p /\ Target(r) # Target(s)
             /\ Means(p, r.oldVersion, s.oldVersion)
      BY <2>6 DEF ConflictRefused
    <3>2. Scope(r, {}) = Scope(s, {})
      BY <2>3, <3>1, MeansOneScope
    <3>3. p \in conflicting(failed)
      BY <2>6, <3>1, <3>2 DEF conflicting
    <3> QED
      BY <2>2, <3>3 DEF Reported, Finding
  <2>7. failed # {} => "replaces" \in trouble'
    BY <2>2 DEF Blame
  <2> QED
    BY <1>1, <1>2, <1>3, <1>4, <2>1, <2>4, <2>5, <2>6, <2>7 DEF ReportedInv
<1>11. CASE UNCHANGED vars
  BY <1>1, <1>2, <1>3, <1>11 DEF ReportedInv, Reported, vars
<1> QED
  BY <1>6, <1>7, <1>8, <1>9, <1>10, <1>11 DEF Next, Finished

(* A requirement two replacements are in force for: both are of one file,    *)
(* and about one tag, which is a conflict unless the file is go.work.        *)
LEMMA ChoiceIsConflict ==
    ASSUME file \in Files, NEW req \in Requirement,
           Cardinality({Target(r) : r \in InForce(req)}) > 1
    PROVE  ConflictRefused(req.path) \/ InForce(req) \subseteq ToSet(file.gowork)
<1> DEFINE W == ToSet(file.gowork)
           M == ToSet(file.gomod)
           targets == {Target(r) : r \in InForce(req)}
<1>1. PICK r \in InForce(req), s \in InForce(req) : Target(r) # Target(s)
  <2> SUFFICES ASSUME \A r, s \in InForce(req) : Target(r) = Target(s)
               PROVE  FALSE
    OBVIOUS
  <2>1. CASE InForce(req) = {}
    <3>1. targets = {}
      BY <2>1
    <3> QED
      BY <3>1, FS_EmptySet
  <2>2. CASE InForce(req) # {}
    <3>1. PICK r \in InForce(req) : TRUE
      BY <2>2
    <3>2. targets = {Target(r)}
      BY <3>1
    <3>3. Cardinality(targets) = 1
      <4> HIDE DEF targets
      <4> QED
        BY <3>2, FS_Singleton
    <3> QED
      BY <3>3
  <2> QED
    BY <2>1, <2>2
<1>2. /\ \A R : Specific(R, req) \subseteq R /\ ForAll(R, req) \subseteq R
      /\ \A R : \A x, y \in ForAll(R, req) : Means(req.path, x.oldVersion, y.oldVersion)
  BY DEF Spelled, Meant, Specific, ForAll, General, Means
<1>3. ASSUME NEW R, NEW x \in Specific(R, req), NEW y \in Specific(R, req)
      PROVE  Means(req.path, x.oldVersion, y.oldVersion)
  <2>1. req.version # NoText
    BY ReplaceAssumption DEF Requirement
  <2>2. \A z \in Specific(R, req) : /\ z.oldVersion # NoText
                                    /\ \/ z.oldVersion = req.version
                                       \/ SameTag(req.path, z.oldVersion, req.version, {})
    BY <2>1 DEF Specific, Spelled, Meant, General
  <2> QED
    BY <2>1, <2>2 DEF Means, SameTag, ResolveVersion
<1>4. \A R : \A x \in Specific(R, req) \cup ForAll(R, req) : x.old = req.path
  BY DEF Spelled, Meant, Specific, ForAll
<1> HIDE DEF W, M
<1>5. \/ InForce(req) \in {Specific(W, req), ForAll(W, req)}
      \/ InForce(req) \in {Specific(M, req), ForAll(M, req)}
  BY InForceIsOneClass DEF W, M
<1>6. CASE InForce(req) \in {Specific(W, req), ForAll(W, req)}
  BY <1>2, <1>6 DEF W
<1>7. CASE InForce(req) \in {Specific(M, req), ForAll(M, req)}
  <2>1. r \in M /\ s \in M /\ r.old = req.path /\ s.old = req.path
    BY <1>1, <1>2, <1>4, <1>7
  <2>2. Means(req.path, r.oldVersion, s.oldVersion)
    BY <1>1, <1>2, <1>3, <1>7
  <2> QED
    BY <1>1, <2>1, <2>2 DEF ConflictRefused, M
<1> QED
  BY <1>5, <1>6, <1>7

LEMMA ReportedAtTheEnd ==
    ASSUME TypeInv, ReportedInv
    PROVE  ContradictionsAreReported /\ NoSilentChoice
<1>1. ASSUME phase = "done", NEW p \in Path
      PROVE  /\ ExcludedRefused(p) => Reported("excluded-requirement", p) \/ "excluded" \in trouble
             /\ DuplicateRefused(p) => Reported("duplicate-require", p)
             /\ AmbiguousRefused(p) => Reported("ambiguous-version-query", p)
             /\ UnversionedRefused(p) => Reported("replace-missing-version", p)
             /\ ConflictRefused(p) => Reported("conflicting-replace", p) \/ "replaces" \in trouble
  <2>1. ASSUME ExcludedRefused(p)
        PROVE  Reported("excluded-requirement", p) \/ "excluded" \in trouble
    <3>1. PICK r \in ToSet(file.reqs) : r.path = p /\ Contradicted(r) /\ ~file.inWorkspace
      BY <2>1 DEF ExcludedRefused, Contradicted
    <3>2. PICK i \in DOMAIN file.reqs : file.reqs[i] = r
      BY DEF ToSet
    <3> QED
      BY <1>1, <3>1, <3>2 DEF ReportedInv
  <2> QED
    BY <1>1, <2>1 DEF ReportedInv
<1>2. ContradictionsAreReported
  <2> SUFFICES ASSUME phase = "done", NEW reason \in Reasons, NEW p \in Path, Refuses(reason, p)
               PROVE  \/ [reason |-> reason, module |-> p] \in findings
                      \/ reason = "excluded-requirement" /\ "excluded" \in trouble
                      \/ reason = "conflicting-replace" /\ "replaces" \in trouble
    BY DEF ContradictionsAreReported
  <2>1. \/ reason = "excluded-requirement" \/ reason = "duplicate-require"
        \/ reason = "ambiguous-version-query" \/ reason = "replace-missing-version"
        \/ reason = "conflicting-replace"
    BY DEF Reasons
  <2> QED
    BY <1>1, <2>1, RefusesMeans DEF Reported
<1>3. NoSilentChoice
  <2> SUFFICES ASSUME phase = "done", NEW i \in DOMAIN file.reqs,
                      Cardinality({Target(r) : r \in InForce(file.reqs[i])}) > 1
               PROVE  \/ [reason |-> "conflicting-replace", module |-> file.reqs[i].path] \in findings
                      \/ "replaces" \in trouble
                      \/ InForce(file.reqs[i]) \subseteq ToSet(file.gowork)
    BY DEF NoSilentChoice
  <2>1. file.reqs[i] \in Requirement /\ file \in Files
    BY FileTyped, LenProperties DEF TypeInv
  <2>2. file.reqs[i].path \in Path
    BY <2>1 DEF Requirement
  <2>3. ConflictRefused(file.reqs[i].path) \/ InForce(file.reqs[i]) \subseteq ToSet(file.gowork)
    BY <2>1, ChoiceIsConflict
  <2> QED
    BY <1>1, <2>2, <2>3 DEF Reported
<1> QED
  BY <1>2, <1>3

-----------------------------------------------------------------------------
(* The theorems. *)

ReplacesInv ==
    /\ TypeInv
    /\ ReplacementInForce
    /\ Coverage
    /\ SlotsStayParallel
    /\ ContradictionsAreReal
    /\ ReportedInv

LEMMA ReplacesInitially == Init => ReplacesInv
<1> SUFFICES ASSUME Init PROVE ReplacesInv
  OBVIOUS
<1>1. /\ file \in Files /\ phase = "select" /\ next = 1 /\ chosen = <<>> /\ resolved = <<>>
      /\ replacedFrom = <<>> /\ findings = {}
  BY DEF Init
<1>2. TypeInv
  <2>1. file.reqs \in Seq(Requirement) /\ Len(file.reqs) \in Nat
    BY <1>1, FileTyped, LenProperties
  <2> QED
    BY <1>1, <2>1 DEF TypeInv
<1>3. \A T : DOMAIN <<>> = {} /\ Len(<<>>) = 0 /\ ToSet(<<>>) = {}
  BY DEF ToSet
<1>4. ReplacementInForce
  BY <1>1, <1>3 DEF ReplacementInForce
<1>5. Coverage
  BY <1>1, <1>3 DEF Coverage, Direct
<1>6. SlotsStayParallel
  <2>1. /\ {s \in DOMAIN replacedFrom : replacedFrom[s] # NoText} = {}
        /\ {i \in DOMAIN chosen : chosen[i] # None /\ ~IsLocal(chosen[i])} = {}
    BY <1>1, <1>3
  <2> QED
    BY <1>1, <1>3, <2>1 DEF SlotsStayParallel
<1>7. ContradictionsAreReal /\ ReportedInv
  BY <1>1 DEF ContradictionsAreReal, ReportedInv
<1> QED
  BY <1>2, <1>4, <1>5, <1>6, <1>7 DEF ReplacesInv

LEMMA ReplacesStep == ReplacesInv /\ [Next]_vars => ReplacesInv'
BY TypeStep, ReplacementStep, CoverageStep, SlotsStep, RealStep, ReportedStep DEF ReplacesInv

(* The inductive invariant of CheckAll's handling of the directives.         *)
THEOREM ReplacesInvariant == Spec => []ReplacesInv
BY ReplacesInitially, ReplacesStep, PTL DEF Spec

(* selectReplace over the list mergeReplaces makes: every requirement is     *)
(* audited under the replacement the build applies to it, go.work's before   *)
(* go.mod's outright, up to the versions that did not resolve, and but for   *)
(* SpeltApart, where the code takes go.mod's literal match before go.work's  *)
(* entry of the same version (src/gomod.go, selectReplace).                  *)
THEOREM PrecedenceHolds == Spec => []ReplacementInForce
<1>1. ReplacesInv => ReplacementInForce
  BY DEF ReplacesInv
<1> QED
  BY <1>1, ReplacesInvariant, PTL

(* The modules CheckAll audits are those the build may fetch: the            *)
(* requirements as replaced, and the orphan replaces a build can reach.      *)
THEOREM AuditCovers == Spec => []AuditsWhatTheBuildFetches
<1>1. ReplacesInv => AuditsWhatTheBuildFetches
  BY MayFetchMeans DEF ReplacesInv, Coverage, AuditsWhatTheBuildFetches, TypeInv
<1> QED
  BY <1>1, ReplacesInvariant, PTL

(* The two slices CheckAll keeps by hand stay parallel over its three        *)
(* appends.                                                                  *)
THEOREM SlicesStayParallel == Spec => []SlotsStayParallel
<1>1. ReplacesInv => SlotsStayParallel
  BY DEF ReplacesInv
<1> QED
  BY <1>1, ReplacesInvariant, PTL

(* No go.mod the go command accepts is reported as one that contradicts      *)
(* itself, whichever version queries fail.                                   *)
THEOREM NoContradictionInvented == Spec => []ContradictionsAreReal
<1>1. ReplacesInv => ContradictionsAreReal
  BY DEF ReplacesInv
<1> QED
  BY <1>1, ReplacesInvariant, PTL

(* Each of the five self-contradictions is reported by the end, those of     *)
(* versions written differently if the proxy answers.                        *)
THEOREM NoContradictionMissed == Spec => []ContradictionsAreReported
<1>1. ReplacesInv => ContradictionsAreReported
  BY ReportedAtTheEnd DEF ReplacesInv
<1> QED
  BY <1>1, ReplacesInvariant, PTL

(* Where selectReplace has more than one replacement to choose from, the     *)
(* choice does not go unreported.                                            *)
THEOREM NoChoiceIsSilent == Spec => []NoSilentChoice
<1>1. ReplacesInv => NoSilentChoice
  BY ReportedAtTheEnd DEF ReplacesInv
<1> QED
  BY <1>1, ReplacesInvariant, PTL
=============================================================================
