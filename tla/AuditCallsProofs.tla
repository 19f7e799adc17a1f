------------------------- MODULE AuditCallsProofs -------------------------
(* The five promises of AuditCalls, proved for every list of names, every    *)
(* set of inputs and every limit the assumptions of the modules allow. The   *)
(* loops of the functions are recursive functions; what they compute is      *)
(* proved by induction over the number of the turn, which LeastOne turns     *)
(* into a choice of a least number.                                          *)
EXTENDS AuditCalls, FiniteSetTheorems, SequenceTheorems, WellFoundedInduction, TLAPS

-----------------------------------------------------------------------------
(* Numbers and loops. *)

(* Some number of a set is the least. *)
LEMMA LeastOne ==
    ASSUME NEW S, S \subseteq Nat, S # {}
    PROVE  \E m \in S : \A i \in S : m <= i
<1>1. IsWellFoundedOn(OpToRel(<, Nat), Nat)
  BY NatLessThanWellFounded
<1>2. PICK m \in S : \A n \in S : <<n, m>> \notin OpToRel(<, Nat)
  BY <1>1, WFMin
<1>3. \A n \in S : ~(n < m)
  BY <1>2 DEF OpToRel
<1>4. \A n \in S : m <= n
  <2> \A n \in S : n \in Nat /\ m \in Nat
    BY <1>2
  <2> QED  BY <1>3
<1> QED  BY <1>4

(* Induction, over a set instead of a predicate: of the numbers up to n that *)
(* it lacks, the least would follow one it has.                              *)
LEMMA ByInduction ==
    ASSUME NEW S, NEW n \in Nat, 0 \in S, \A i \in 1..n : i - 1 \in S => i \in S
    PROVE  \A i \in 0..n : i \in S
<1> DEFINE Lacking == {i \in 0..n : i \notin S}
<1> SUFFICES ASSUME Lacking # {} PROVE FALSE
  OBVIOUS
<1>1. PICK m \in Lacking : \A i \in Lacking : m <= i
  <2>1. Lacking \subseteq Nat
    OBVIOUS
  <2> HIDE DEF Lacking
  <2> QED  BY <2>1, LeastOne
<1>2. m \in 1..n /\ m - 1 \in 0..n /\ m - 1 \notin Lacking
  BY <1>1
<1> QED  BY <1>1, <1>2

(* f is what a loop of n turns goes through, from b on.                      *)
IsLoop(f, X, b, F, n) ==
    f \in [0..n -> X] /\ f[0] = b /\ \A i \in 1..n : f[i] = F[<<f[i - 1], i>>]

StaysIn(X, F, n) == \A x \in X, i \in 1..n : F[<<x, i>>] \in X

(* A loop of n turns over values of X, a turn being given as a function of   *)
(* the value and the number of the turn, runs to its end.                    *)
LEMMA LoopRuns ==
    ASSUME NEW X, NEW b \in X, NEW F, NEW n \in Nat, StaysIn(X, F, n)
    PROVE  \E f : IsLoop(f, X, b, F, n)
<1> DEFINE Runs == {k \in 0..n : \E g : IsLoop(g, X, b, F, k)}
<1>1. 0 \in Runs
  <2> DEFINE g == [i \in 0..0 |-> b]
  <2>1. IsLoop(g, X, b, F, 0)
    BY DEF IsLoop
  <2> HIDE DEF g
  <2> QED  BY <2>1
<1>2. ASSUME NEW k \in 1..n, k - 1 \in Runs PROVE k \in Runs
  <2>1. PICK g : IsLoop(g, X, b, F, k - 1)
    BY <1>2
  <2> DEFINE h == [i \in 0..k |-> IF i = k THEN F[<<g[k - 1], k>>] ELSE g[i]]
  <2>2. g[k - 1] \in X /\ F[<<g[k - 1], k>>] \in X
    BY <2>1 DEF IsLoop, StaysIn
  <2>3. h \in [0..k -> X] /\ h[0] = b
    BY <2>1, <2>2 DEF IsLoop
  <2>4. \A i \in 1..k : h[i] = F[<<h[i - 1], i>>]
    BY <2>1, SMTT(20) DEF IsLoop
  <2>5. IsLoop(h, X, b, F, k)
    BY <2>3, <2>4 DEF IsLoop
  <2> HIDE DEF h
  <2> QED  BY <2>5
<1>3. \A k \in 0..n : k \in Runs
  <2> HIDE DEF Runs
  <2> QED  BY <1>1, <1>2, ByInduction
<1> QED  BY <1>3

(* Two loops that begin alike and go on alike are alike.                     *)
LEMMA LoopsAgree ==
    ASSUME NEW f, NEW g, NEW n \in Nat, f[0] = g[0],
           \A i \in 1..n : f[i - 1] = g[i - 1] => f[i] = g[i]
    PROVE  \A i \in 0..n : f[i] = g[i]
<1> DEFINE Same == {i \in 0..n : f[i] = g[i]}
<1>1. 0 \in Same /\ \A i \in 1..n : i - 1 \in Same => i \in Same
  OBVIOUS
<1> HIDE DEF Same
<1>2. \A i \in 0..n : i \in Same
  BY <1>1, ByInduction
<1> QED  BY <1>2 DEF Same

-----------------------------------------------------------------------------
(* Go versions: what go-version-unsatisfiable and the too-old findings say. *)

(* The parts of a version that can be compared.                              *)
LEMMA ReleasedParts ==
    ASSUME NEW v, IsGoVersion(v), Released(v)
    PROVE  /\ Len(v.parts) \in 2..3 /\ DOMAIN v.parts = 1..Len(v.parts)
           /\ v.parts[1].n \in Nat /\ v.parts[2].n \in Nat
           /\ Number(v.parts[1]) /\ Number(v.parts[2])
           /\ Len(v.parts) = 3 => v.parts[3].n \in Nat
<1> DEFINE R == [n : Nat, suffix : BOOLEAN]
<1>1. v # NoText
  BY DEF Released, NoText
<1>2. /\ v \in [go : BOOLEAN, parts : Seq([n : Nat, suffix : BOOLEAN])]
      /\ Len(v.parts) \in 1 .. 3 /\ ~v.parts[1].suffix
  BY <1>1 DEF IsGoVersion
<1>3. v.parts \in Seq(R)
  BY <1>2
<1>4. \A i \in 1..Len(v.parts) : v.parts[i] \in R
  <2> HIDE DEF R
  <2> QED  BY <1>3
<1>5. Len(v.parts) \in 2..3
  BY <1>2 DEF Released
<1> QED  BY <1>2, <1>3, <1>4, <1>5 DEF Released, Number

(* The order of the go command, when both versions are released: by the two  *)
(* numbers, then by what follows them.                                       *)
LEMMA PrecedesByNumbers ==
    ASSUME NEW v, NEW w, IsGoVersion(v), IsGoVersion(w), Released(v), Released(w)
    PROVE  /\ v.parts[1].n < w.parts[1].n => Precedes(v, w)
           /\ v.parts[1].n = w.parts[1].n /\ v.parts[2].n < w.parts[2].n => Precedes(v, w)
           /\ Precedes(v, w) => \/ v.parts[1].n < w.parts[1].n
                                \/ v.parts[1].n = w.parts[1].n /\ v.parts[2].n <= w.parts[2].n
           /\ Precedes(v, w) /\ Len(w.parts) = 2
                => \/ v.parts[1].n < w.parts[1].n
                   \/ v.parts[1].n = w.parts[1].n /\ v.parts[2].n < w.parts[2].n
<1> DEFINE a == Key(v)
           b == Key(w)
<1>1. /\ a = <<a[1], a[2], a[3], a[4]>> /\ b = <<b[1], b[2], b[3], b[4]>>
      /\ a[1] = v.parts[1].n /\ a[2] = v.parts[2].n
      /\ b[1] = w.parts[1].n /\ b[2] = w.parts[2].n
  BY DEF Key
<1>2. /\ v.parts[1].n \in Nat /\ v.parts[2].n \in Nat
      /\ w.parts[1].n \in Nat /\ w.parts[2].n \in Nat
  BY ReleasedParts
<1>3. a[3] \in 0..2 /\ a[4] \in Nat
  BY ReleasedParts DEF Key
<1>4. Len(w.parts) = 2 => b[3] = 0 /\ b[4] = 0
  BY ReleasedParts DEF Key, Released, Number
<1>5. Precedes(v, w) <=>
        \/ a[1] < b[1]
        \/ a[1] = b[1] /\ a[2] < b[2]
        \/ a[1] = b[1] /\ a[2] = b[2] /\ a[3] < b[3]
        \/ a[1] = b[1] /\ a[2] = b[2] /\ a[3] = b[3] /\ a[4] < b[4]
  <2>1. Precedes(v, w) <=> \E i \in 1..4 : a[i] < b[i] /\ \A k \in 1..i - 1 : a[k] = b[k]
    BY DEF Precedes
  <2> HIDE DEF a, b
  <2> QED  BY <2>1
<1> HIDE DEF a, b
<1> QED  BY <1>1, <1>2, <1>3, <1>4, <1>5

(* 1.m is a released go version. *)
LEMMA LanguageIsVersion ==
    ASSUME NEW m \in Nat
    PROVE  /\ IsGoVersion(Language(m)) /\ Released(Language(m)) /\ Len(Language(m).parts) = 2
           /\ Language(m).parts[1].n = 1 /\ Language(m).parts[2].n = m
BY DEF Language, IsGoVersion, Released, Number

(* What goVersionAtLeast says of a released version.                         *)
LEMMA AtLeastOfReleased ==
    ASSUME NEW v, IsGoVersion(v), Released(v), NEW major \in Nat, NEW minor \in Nat
    PROVE  ~goVersionAtLeast(v, major, minor) <=>
             \/ v.parts[1].n < major
             \/ v.parts[1].n = major /\ v.parts[2].n < minor
BY ReleasedParts DEF goVersionAtLeast

(* A version cut down to its language version. *)
LEMMA MinorIsVersion ==
    ASSUME NEW v, IsGoVersion(v), Released(v)
    PROVE  LET minor == [v EXCEPT !.parts = SubSeq(@, 1, 2)]
           IN  /\ IsGoVersion(minor) /\ Released(minor) /\ Len(minor.parts) = 2
               /\ minor.parts[1].n = v.parts[1].n /\ minor.parts[2].n = v.parts[2].n
<1> DEFINE minor == [v EXCEPT !.parts = SubSeq(@, 1, 2)]
           R == [n : Nat, suffix : BOOLEAN]
<1>1. /\ v \in [go : BOOLEAN, parts : Seq(R)]
      /\ v.parts \in Seq(R) /\ ~v.parts[1].suffix /\ Len(v.parts) \in 2..3
  BY ReleasedParts DEF IsGoVersion, Released, NoText
<1> HIDE DEF R
<1>2. /\ SubSeq(v.parts, 1, 2) \in Seq(R)
      /\ Len(SubSeq(v.parts, 1, 2)) = 2
      /\ SubSeq(v.parts, 1, 2)[1] = v.parts[1] /\ SubSeq(v.parts, 1, 2)[2] = v.parts[2]
  BY <1>1
<1>3. minor.parts = SubSeq(v.parts, 1, 2) /\ minor \in [go : BOOLEAN, parts : Seq(R)]
  BY <1>1, <1>2
<1> HIDE DEF minor
<1>4. IsGoVersion(minor)
  BY <1>1, <1>2, <1>3 DEF IsGoVersion, R
<1>5. Released(minor)
  BY <1>1, <1>2, <1>3 DEF Released
<1> QED  BY <1>1, <1>2, <1>3, <1>4, <1>5 DEF minor

(* Both verdicts on a go directive are right of any local toolchain. *)
LEMMA VerdictsRight ==
    ASSUME NEW declared, NEW localGoVersion, IsGoVersion(declared), ~declared.go, IsGoVersion(localGoVersion)
    PROVE  VerdictsAreExact(declared, localGoVersion)
<1> DEFINE minor == [declared EXCEPT !.parts = SubSeq(@, 1, 2)]
<1>1. ASSUME Released(localGoVersion), Released(declared)
      PROVE  /\ Unsatisfiable(declared, localGoVersion) => Precedes(localGoVersion, declared)
             /\ Precedes(localGoVersion, minor) => Unsatisfiable(declared, localGoVersion)
  <2>1. localGoVersion # NoText
    BY <1>1 DEF Released, NoText
  <2>2. Readable(declared)
    BY <1>1, ReleasedParts DEF Readable
  <2>3. declared.parts[1].n \in Nat /\ declared.parts[2].n \in Nat
    BY <1>1, ReleasedParts
  <2>4. Unsatisfiable(declared, localGoVersion) <=>
          \/ localGoVersion.parts[1].n < declared.parts[1].n
          \/ /\ localGoVersion.parts[1].n = declared.parts[1].n
             /\ localGoVersion.parts[2].n < declared.parts[2].n
    BY <1>1, <2>1, <2>2, <2>3, AtLeastOfReleased DEF Unsatisfiable
  <2>5. /\ IsGoVersion(minor) /\ Released(minor) /\ Len(minor.parts) = 2
        /\ minor.parts[1].n = declared.parts[1].n /\ minor.parts[2].n = declared.parts[2].n
    BY <1>1, MinorIsVersion
  <2> HIDE DEF minor
  <2> QED  BY <1>1, <2>4, <2>5, PrecedesByNumbers
<1>2. ASSUME Released(localGoVersion), declared = NoText \/ Released(declared), NEW verb \in DOMAIN Since
      PROVE  DirectiveTooOld(verb, declared, localGoVersion) <=>
                /\ Precedes(localGoVersion, Language(Since[verb]))
                /\ declared = NoText \/ Precedes(declared, Language(Since[verb]))
  <2> DEFINE m == Since[verb]
  <2>1. m \in Nat
    BY DEF Since
  <2>2. ASSUME NEW v, IsGoVersion(v), Released(v)
        PROVE  ~goVersionAtLeast(v, 1, m) <=> Precedes(v, Language(m))
    BY <2>1, <2>2, AtLeastOfReleased, PrecedesByNumbers, LanguageIsVersion
  <2>3. ~goVersionAtLeast(NoText, 1, m)
    BY DEF goVersionAtLeast, NoText
  <2>4. localGoVersion # NoText
    BY <1>2 DEF Released, NoText
  <2> QED  BY <1>2, <2>2, <2>3, <2>4 DEF DirectiveTooOld
<1>3. ASSUME localGoVersion = NoText, NEW verb \in DOMAIN Since
      PROVE  ~DirectiveTooOld(verb, declared, localGoVersion)
  BY <1>3 DEF DirectiveTooOld
<1> QED  BY <1>1, <1>2, <1>3 DEF VerdictsAreExact

(* src/gomod.go goVersionAtLeast and the checks of src/check.go on the go    *)
(* directive: of a released toolchain, a file is called unsatisfiable only   *)
(* if the toolchain comes before the version it declares, and always if it   *)
(* is of an earlier language version; a directive is called too new exactly  *)
(* if neither the file nor the toolchain has reached the version that        *)
(* brought it; for all versions.                                             *)
THEOREM GoVersionsJudgedExactly == Spec => []GoVerdictsExact
<1>1. Init => GoVerdictsExact
  <2> SUFFICES ASSUME Init, input.of = "go" PROVE VerdictsAreExact(input.declared, input.local)
    BY DEF GoVerdictsExact
  <2>1. input \in GoInputs
    BY CallAssumption DEF Init
  <2> QED  BY <2>1, CallAssumption, VerdictsRight
<1>2. GoVerdictsExact /\ [Next]_input => GoVerdictsExact'
  BY DEF GoVerdictsExact, Next
<1> QED  BY <1>1, <1>2, PTL DEF Spec

-----------------------------------------------------------------------------
(* Version queries. *)

(* A tagged version can stand for a target. *)
LEMMA TagIsTarget ==
    ASSUME NEW v, IsTag(v)
    PROVE  IsTarget(v) /\ v # NoVersion
<1>1. v \in [num : Seq(Nat), pre : Nat] /\ Len(v.num) = 3
  BY DEF IsTag
<1>2. Len(NoVersion.num) = 0
  BY DEF NoVersion
<1>3. v # NoVersion
  <2> SUFFICES ASSUME v = NoVersion PROVE FALSE
    OBVIOUS
  <2> QED  BY <1>1, <1>2, SMTT(20)
<1>4. Len(v.num) \in 1..3
  BY <1>1
<1> QED  BY <1>1, <1>3, <1>4 DEF IsTarget

(* A version has three numbers, the missing ones zero. *)
LEMMA PaddedParts ==
    ASSUME NEW v, IsTarget(v)
    PROVE  /\ v.pre \in Nat /\ Padded(v) \in [1..3 -> Nat]
           /\ Padded(v)[1] \in Nat /\ Padded(v)[2] \in Nat /\ Padded(v)[3] \in Nat
           /\ \A i \in 1..Len(v.num) : Padded(v)[i] = v.num[i]
           /\ \A i \in 1..3 : i > Len(v.num) => Padded(v)[i] = 0
           /\ Len(v.num) \in 1..3 /\ DOMAIN v.num = 1..Len(v.num) /\ v.num \in Seq(Nat)
<1>1. v.num \in Seq(Nat) /\ v.pre \in Nat /\ Len(v.num) \in 1..3
  BY DEF IsTarget
<1>2. DOMAIN v.num = 1..Len(v.num) /\ \A i \in 1..Len(v.num) : v.num[i] \in Nat
  BY <1>1
<1>3. \A i \in 1..3 : (IF i \in DOMAIN v.num THEN v.num[i] ELSE 0) \in Nat
  BY <1>2
<1> QED  BY <1>1, <1>2, <1>3, SMTT(20) DEF Padded

(* The order of versions: by the numbers, a prerelease before its release. *)
LEMMA BelowByNumbers ==
    ASSUME NEW v, NEW w, IsTarget(v), IsTarget(w)
    PROVE  LET a == Padded(v)
               b == Padded(w)
           IN  Below(v, w) <=>
                 \/ a[1] < b[1]
                 \/ a[1] = b[1] /\ a[2] < b[2]
                 \/ a[1] = b[1] /\ a[2] = b[2] /\ a[3] < b[3]
                 \/ /\ a[1] = b[1] /\ a[2] = b[2] /\ a[3] = b[3]
                    /\ v.pre # 0 /\ (w.pre = 0 \/ v.pre < w.pre)
<1> DEFINE a == Padded(v)
           b == Padded(w)
<1>1. a \in [1..3 -> Nat] /\ b \in [1..3 -> Nat]
  BY PaddedParts
<1>2. Below(v, w) <=> \/ \E i \in 1 .. 3 : a[i] < b[i] /\ \A k \in 1 .. i - 1 : a[k] = b[k]
                      \/ a = b /\ v.pre # 0 /\ (w.pre = 0 \/ v.pre < w.pre)
  BY DEF Below
<1> HIDE DEF a, b
<1>3. a = b <=> a[1] = b[1] /\ a[2] = b[2] /\ a[3] = b[3]
  BY <1>1
<1>4. (\E i \in 1 .. 3 : a[i] < b[i] /\ \A k \in 1 .. i - 1 : a[k] = b[k])
        <=> \/ a[1] < b[1]
            \/ a[1] = b[1] /\ a[2] < b[2]
            \/ a[1] = b[1] /\ a[2] = b[2] /\ a[3] < b[3]
  OBVIOUS
<1> QED  BY <1>2, <1>3, <1>4 DEF a, b

(* Versions are ordered, and two tags that differ are not of one rank.       *)
LEMMA BelowOrders ==
    ASSUME NEW u, NEW v, NEW w, IsTarget(u), IsTarget(v), IsTarget(w)
    PROVE  /\ Below(u, v) /\ Below(v, w) => Below(u, w)
           /\ ~(Below(u, v) /\ Below(v, u))
           /\ ~Below(u, v) /\ ~Below(v, w) => ~Below(u, w)
<1> DEFINE P(x, i) == Padded(x)[i]
<1>1. \A x \in {u, v, w} :
        IsTarget(x) /\ P(x, 1) \in Nat /\ P(x, 2) \in Nat /\ P(x, 3) \in Nat /\ x.pre \in Nat
  BY PaddedParts
<1>2. \A x, y \in {u, v, w} :
        Below(x, y) <=> \/ P(x, 1) < P(y, 1)
                        \/ P(x, 1) = P(y, 1) /\ P(x, 2) < P(y, 2)
                        \/ P(x, 1) = P(y, 1) /\ P(x, 2) = P(y, 2) /\ P(x, 3) < P(y, 3)
                        \/ /\ P(x, 1) = P(y, 1) /\ P(x, 2) = P(y, 2) /\ P(x, 3) = P(y, 3)
                           /\ x.pre # 0 /\ (y.pre = 0 \/ x.pre < y.pre)
  BY <1>1, BelowByNumbers
<1> HIDE DEF P
<1> QED  BY <1>1, <1>2

(* Of two tags that differ, one is below the other. *)
LEMMA TagsDiffer ==
    ASSUME NEW v, NEW w, IsTag(v), IsTag(w), v # w
    PROVE  Below(v, w) \/ Below(w, v)
<1>1. IsTarget(v) /\ IsTarget(w)
  BY TagIsTarget
<1>2. Len(v.num) = 3 /\ Len(w.num) = 3 /\ v \in [num : Seq(Nat), pre : Nat] /\ w \in [num : Seq(Nat), pre : Nat]
  BY DEF IsTag
<1>3. v.num # w.num \/ v.pre # w.pre
  BY <1>2
<1>4. v.num # w.num => \E i \in 1..3 : v.num[i] # w.num[i]
  <2>1. /\ v.num = [i \in 1..3 |-> v.num[i]]
        /\ w.num = [i \in 1..3 |-> w.num[i]]
    BY <1>2
  <2> SUFFICES ASSUME \A i \in 1..3 : v.num[i] = w.num[i] PROVE v.num = w.num
    OBVIOUS
  <2> QED  BY <2>1
<1>5. \A i \in 1..3 : Padded(v)[i] = v.num[i] /\ Padded(w)[i] = w.num[i]
  BY <1>1, <1>2, PaddedParts
<1>6. v.num # w.num => \/ Padded(v)[1] # Padded(w)[1]
                       \/ Padded(v)[2] # Padded(w)[2]
                       \/ Padded(v)[3] # Padded(w)[3]
  BY <1>4, <1>5
<1>7. \A x \in {v, w} : Padded(x)[1] \in Nat /\ Padded(x)[2] \in Nat /\ Padded(x)[3] \in Nat /\ x.pre \in Nat
  BY <1>1, PaddedParts
<1>8. CASE v.num = w.num
  <2>1. Padded(v) = Padded(w) /\ v.pre # w.pre
    BY <1>3, <1>8 DEF Padded
  <2> QED  BY <1>1, <1>7, <2>1, BelowByNumbers
<1>9. CASE v.num # w.num
  BY <1>1, <1>6, <1>7, <1>9, BelowByNumbers
<1> QED  BY <1>8, <1>9

Better(op, v, w) == IF op \in {"<", "<="} THEN Below(w, v) ELSE Below(v, w)

Comparisons == {"<", "<=", ">", ">="}

(* The loop of pick: after i tags it holds the nearest of those that count.  *)
LEMMA PickFindsNearest ==
    ASSUME NEW tags, NEW flag \in BOOLEAN, NEW op \in Comparisons, NEW target,
           Len(tags) \in Nat, DOMAIN tags = 1..Len(tags),
           \A k \in DOMAIN tags : IsTag(tags[k])
    PROVE  LET found == pick(tags, flag, op, target)
               counted == {v \in Range(tags) : (v.pre # 0) = flag /\ Satisfies(v, op, target)}
           IN  IF counted = {} THEN found = NoVersion
               ELSE /\ found \in counted
                    /\ \A w \in counted : w # found => Better(op, found, w)
<1> DEFINE n == Len(tags)
           X == Range(tags) \cup {NoVersion}
           Step(best, i) == IF (tags[i].pre # 0) = flag THEN NearerTag(best, tags[i], op, target)
                            ELSE best
           F == [q \in X \X (1..n) |-> Step(q[1], q[2])]
           counts(v) == (v.pre # 0) = flag /\ Satisfies(v, op, target)
           Seen(i) == {v \in {tags[k] : k \in 1..i} : counts(v)}
<1>1. \A k \in 1..n : tags[k] \in X /\ tags[k] # NoVersion /\ IsTag(tags[k])
  BY TagIsTarget DEF Range
<1>2. \A x \in X, i \in 1..n : Step(x, i) \in X
  BY <1>1 DEF NearerTag
<1>3. \A x \in X, i \in 1..n : F[<<x, i>>] = Step(x, i)
  <2> HIDE DEF X, Step
  <2> QED  OBVIOUS
<1>4. PICK f : IsLoop(f, X, NoVersion, F, n)
  <2>1. NoVersion \in X /\ n \in Nat
    OBVIOUS
  <2>2. StaysIn(X, F, n)
    <3> HIDE DEF X, F, Step, n
    <3> QED  BY <1>2, <1>3 DEF StaysIn
  <2> HIDE DEF X, F, n
  <2> QED  BY <2>1, <2>2, LoopRuns
<1>5. f = [i \in 0..n |-> f[i]] /\ f[0] = NoVersion /\ \A i \in 1..n : f[i] = Step(f[i - 1], i) /\ f[i - 1] \in X
  <2>1. n \in Nat
    OBVIOUS
  <2> HIDE DEF X, F, Step, n
  <2>2. f \in [0..n -> X] /\ f[0] = NoVersion
    BY <1>4 DEF IsLoop
  <2>3. ASSUME NEW i \in 1..n PROVE f[i] = Step(f[i - 1], i) /\ f[i - 1] \in X
    <3>1. f[i - 1] \in X
      BY <2>1, <2>2
    <3>2. f[i] = F[<<f[i - 1], i>>]
      BY <1>4 DEF IsLoop
    <3> QED  BY <1>3, <3>1, <3>2
  <2> QED  BY <2>2, <2>3
<1>6. pick(tags, flag, op, target) = f[n]
  <2> DEFINE Loop(g) == [i \in 0 .. n |->
                IF i = 0 THEN NoVersion
                ELSE IF (tags[i].pre # 0) = flag THEN NearerTag(g[i - 1], tags[i], op, target)
                ELSE g[i - 1]]
             g == CHOOSE g : g = Loop(g)
  <2>1. f = Loop(f)
    BY <1>5
  <2>2. g = Loop(g)
    <3> HIDE DEF Loop
    <3> QED  BY <2>1
  <2>3. g[0] = NoVersion /\ \A i \in 1..n : g[i] = Step(g[i - 1], i)
    <3> HIDE DEF g
    <3> QED  BY <2>2
  <2>4. g[n] = f[n]
    <3>1. n \in Nat
      OBVIOUS
    <3> HIDE DEF g, Step, n
    <3> QED  BY <1>5, <2>3, <3>1, LoopsAgree
  <2> QED  BY <2>4 DEF pick, g, Loop
<1> DEFINE Good(i) == IF Seen(i) = {} THEN f[i] = NoVersion
                      ELSE f[i] \in Seen(i) /\ \A w \in Seen(i) : w # f[i] => Better(op, f[i], w)
           Goods == {i \in 0..n : Good(i)}
<1>7. 0 \in Goods
  BY <1>5
<1>8. ASSUME NEW i \in 1..n, i - 1 \in Goods PROVE i \in Goods
  <2> DEFINE v == tags[i]
             best == f[i - 1]
  <2>1. Seen(i) = IF counts(v) THEN Seen(i - 1) \cup {v} ELSE Seen(i - 1)
    <3>1. {tags[k] : k \in 1..i} = {tags[k] : k \in 1..(i - 1)} \cup {v}
      BY <1>8
    <3> HIDE DEF counts, v
    <3> QED  BY <3>1
  <2>2. Good(i - 1) /\ f[i] = Step(best, i) /\ IsTag(v) /\ v # NoVersion
    BY <1>1, <1>5, <1>8
  <2>3. \A w \in Seen(i - 1) : IsTag(w) /\ w # NoVersion
    BY <1>1
  <2>4. CASE ~counts(v)
    BY <2>1, <2>2, <2>4, SMTT(20) DEF NearerTag
  <2>5. CASE counts(v) /\ Seen(i - 1) = {}
    <3>1. Seen(i) = {v} /\ best = NoVersion
      BY <2>1, <2>2, <2>5
    <3>2. f[i] = v
      BY <2>2, <2>5, <3>1 DEF NearerTag
    <3> QED  BY <3>1, <3>2
  <2>6. CASE counts(v) /\ Seen(i - 1) # {}
    <3>1. /\ best \in Seen(i - 1) /\ best # NoVersion /\ IsTag(best)
          /\ \A w \in Seen(i - 1) : w # best => Better(op, best, w)
      BY <2>2, <2>3, <2>6
    <3>2. Seen(i) = Seen(i - 1) \cup {v}
      BY <2>1, <2>6
    <3>3. f[i] = IF Better(op, v, best) THEN v ELSE best
      BY <2>2, <2>6, <3>1 DEF NearerTag, Better, Comparisons
    <3> HIDE DEF Seen, v, best
    <3>4. CASE Better(op, v, best)
      <4>1. \A w \in Seen(i - 1) : Better(op, v, w)
        BY <2>2, <2>3, <3>1, <3>4, TagIsTarget, BelowOrders DEF Better
      <4> QED  BY <3>2, <3>3, <3>4, <4>1
    <3>5. CASE ~Better(op, v, best)
      <4>1. v # best => Better(op, best, v)
        BY <2>2, <3>1, <3>5, TagsDiffer DEF Better
      <4> QED  BY <3>1, <3>2, <3>3, <3>5, <4>1
    <3> QED  BY <3>4, <3>5
  <2> QED  BY <2>4, <2>5, <2>6
<1>9. Good(n)
  <2> HIDE DEF Goods, Good
  <2>1. \A i \in 0..n : i \in Goods
    BY <1>7, <1>8, ByInduction
  <2> QED  BY <2>1 DEF Goods
<1>10. Seen(n) = {v \in Range(tags) : (v.pre # 0) = flag /\ Satisfies(v, op, target)}
  BY DEF Range
<1> QED  BY <1>6, <1>9, <1>10

(* The nearest of what satisfies a comparison: of the releases, if there are *)
(* any.                                                                      *)
LEMMA ComparisonFindsNearest ==
    ASSUME NEW proxy, NEW query, query.op \in Comparisons,
           Len(proxy.tags) \in Nat, DOMAIN proxy.tags = 1..Len(proxy.tags),
           \A k \in DOMAIN proxy.tags : IsTag(proxy.tags[k])
    PROVE  LET found == resolveComparisonQuery(proxy.tags, query.op, query.target)
               available == Available(proxy, query)
               releases == {v \in available : v.pre = 0}
           IN  /\ found = NoVersion <=> available = {}
               /\ found # NoVersion =>
                    Nearest(found, query, IF releases # {} THEN releases ELSE available)
               /\ found # NoVersion => found \in Range(proxy.tags)
<1> DEFINE tags == proxy.tags
           op == query.op
           available == Available(proxy, query)
           releases == {v \in available : v.pre = 0}
           Counted(flag) == {v \in Range(tags) : (v.pre # 0) = flag /\ Satisfies(v, op, query.target)}
           Found(flag) == pick(tags, flag, op, query.target)
<1>1. \A flag \in BOOLEAN :
        IF Counted(flag) = {} THEN Found(flag) = NoVersion
        ELSE /\ Found(flag) \in Counted(flag)
             /\ \A w \in Counted(flag) : w # Found(flag) => Better(op, Found(flag), w)
  BY PickFindsNearest
<1>2. releases = Counted(FALSE) /\ available = Counted(FALSE) \cup Counted(TRUE)
  BY DEF Available
<1>3. \A v \in Range(tags) : v # NoVersion
  BY TagIsTarget DEF Range
<1>4. available \subseteq Range(tags)
  BY DEF Available
<1>5. resolveComparisonQuery(tags, op, query.target)
        = IF Found(FALSE) # NoVersion THEN Found(FALSE) ELSE Found(TRUE)
  BY DEF resolveComparisonQuery
<1> HIDE DEF available, Counted, Found
<1>6. \A v, S : (v \in S /\ \A w \in S : w # v => Better(op, v, w)) => Nearest(v, query, S)
  BY DEF Nearest, Better
<1>7. CASE releases # {}
  <2>1. Found(FALSE) \in releases /\ \A w \in releases : w # Found(FALSE) => Better(op, Found(FALSE), w)
    BY <1>1, <1>2, <1>7
  <2>2. Found(FALSE) # NoVersion /\ Found(FALSE) \in Range(tags) /\ available # {}
    BY <1>3, <1>4, <2>1
  <2> QED  BY <1>5, <1>6, <1>7, <2>1, <2>2 DEF available
<1>8. CASE releases = {} /\ available # {}
  <2>1. available = Counted(TRUE) /\ Found(FALSE) = NoVersion
    BY <1>1, <1>2, <1>8
  <2>2. Found(TRUE) \in available /\ \A w \in available : w # Found(TRUE) => Better(op, Found(TRUE), w)
    BY <1>1, <1>8, <2>1
  <2>3. Found(TRUE) # NoVersion /\ Found(TRUE) \in Range(tags)
    BY <1>3, <1>4, <2>2
  <2> QED  BY <1>5, <1>6, <1>8, <2>1, <2>2, <2>3 DEF available
<1>9. CASE available = {}
  <2>1. Found(FALSE) = NoVersion /\ Found(TRUE) = NoVersion
    BY <1>1, <1>2, <1>9
  <2> QED  BY <1>5, <1>9, <2>1 DEF available
<1> QED  BY <1>7, <1>8, <1>9

(* An input of a query, in the words of the lemmas above. *)
IsCall(proxy, query, failed) ==
    /\ Len(proxy.tags) \in Nat /\ DOMAIN proxy.tags = 1..Len(proxy.tags)
    /\ \A k \in DOMAIN proxy.tags : IsTag(proxy.tags[k])
    /\ IsTag(proxy.latest)
    /\ failed \subseteq {"latest", "list", "info"}
    /\ query.op \in Comparisons \cup {"latest", "upgrade", ""}
    /\ query.op \in Comparisons => IsTarget(query.target)
    /\ query.op = "" => IsTag(query.target)

(* ResolveVersion answers as the go command resolves the query. *)
LEMMA QueryResolves ==
    ASSUME NEW proxy, NEW query, NEW failed, IsCall(proxy, query, failed)
    PROVE  ResolvesToNearest(proxy, query, failed)
<1> SUFFICES ASSUME isComparison(query) PROVE ResolvesToNearest(proxy, query, failed)
  BY DEF ResolvesToNearest
<1> DEFINE resolved == resolveComparisonQuery(proxy.tags, query.op, query.target)
           available == Available(proxy, query)
           releases == {v \in available : v.pre = 0}
<1>1. query.op \in Comparisons /\ ~isLatestNamedQuery(query)
  BY DEF isComparison, Comparisons, isLatestNamedQuery
<1>2. /\ resolved = NoVersion <=> available = {}
      /\ resolved # NoVersion => Nearest(resolved, query, IF releases # {} THEN releases ELSE available)
      /\ resolved # NoVersion => resolved \in Range(proxy.tags)
  BY <1>1, ComparisonFindsNearest DEF IsCall
<1>3. Named(proxy, query, failed).version = IF "list" \in failed THEN NoVersion ELSE resolved
  BY <1>1 DEF Named
<1> HIDE DEF resolved, available
<1>4. ResolveVersion(proxy, query, failed)
        = IF resolved = NoVersion \/ "list" \in failed \/ "info" \in failed THEN NoVersion ELSE resolved
  BY <1>2, <1>3 DEF ResolveVersion, Served
<1> QED  BY <1>2, <1>4 DEF ResolvesToNearest, available

(* No failed request is taken for an answer. *)
LEMMA QuerySaysWhatItKnows ==
    ASSUME NEW proxy, NEW query, NEW failed, IsCall(proxy, query, failed)
    PROVE  SaysWhatItKnows(proxy, query, failed)
<1> DEFINE named == Named(proxy, query, failed)
           there == \/ isLatestNamedQuery(query)
                    \/ isComparison(query) /\ Available(proxy, query) # {}
                    \/ query.op = "" /\ Served(proxy, query.target)
<1>1. /\ isLatestNamedQuery(query) \/ isComparison(query) \/ query.op = ""
      /\ ~(isLatestNamedQuery(query) /\ isComparison(query))
      /\ query.op = "" => ~isLatestNamedQuery(query) /\ ~isComparison(query)
      /\ isComparison(query) => query.op \in Comparisons
  BY DEF IsCall, isLatestNamedQuery, isComparison, Comparisons
<1>2. /\ named.unknown => failed # {} /\ named.version = NoVersion
      /\ ~named.unknown => /\ named.version = NoVersion => ~there
                           /\ named.version # NoVersion => (there <=> Served(proxy, named.version))
  <2>1. CASE isLatestNamedQuery(query)
    <3>1. /\ named.unknown <=> "latest" \in failed
          /\ named.version = IF "latest" \in failed THEN NoVersion ELSE proxy.latest
      BY <1>1, <2>1 DEF Named
    <3>2. proxy.latest # NoVersion /\ Served(proxy, proxy.latest)
      BY TagIsTarget DEF IsCall, Served
    <3> HIDE DEF named
    <3> QED  BY <2>1, <3>1, <3>2
  <2>2. CASE isComparison(query)
    <3> DEFINE resolved == resolveComparisonQuery(proxy.tags, query.op, query.target)
    <3>1. /\ resolved = NoVersion <=> Available(proxy, query) = {}
          /\ resolved # NoVersion => resolved \in Range(proxy.tags)
      BY <1>1, <2>2, ComparisonFindsNearest DEF IsCall
    <3> HIDE DEF resolved
    <3>2. /\ named.unknown <=> "list" \in failed
          /\ named.version = IF "list" \in failed THEN NoVersion ELSE resolved
      BY <1>1, <2>2 DEF Named, resolved
    <3> HIDE DEF named
    <3> QED  BY <1>1, <2>2, <3>1, <3>2 DEF Served
  <2>3. CASE query.op = ""
    <3>1. ~named.unknown /\ named.version = query.target
      BY <1>1, <2>3 DEF Named
    <3>2. query.target # NoVersion
      BY <2>3, TagIsTarget DEF IsCall
    <3> HIDE DEF named
    <3> QED  BY <1>1, <2>3, <3>1, <3>2
  <2> QED  BY <1>1, <2>1, <2>2, <2>3
<1>3. VersionExists(proxy, query, failed)
        = IF named.unknown THEN [exists |-> FALSE, unknown |-> TRUE]
          ELSE IF named.version = NoVersion THEN [exists |-> FALSE, unknown |-> FALSE]
          ELSE IF "info" \in failed THEN [exists |-> FALSE, unknown |-> TRUE]
          ELSE [exists |-> Served(proxy, named.version), unknown |-> FALSE]
  BY DEF VersionExists
<1>4. ResolveVersion(proxy, query, failed)
        = IF named.version = NoVersion \/ "info" \in failed \/ ~Served(proxy, named.version)
          THEN NoVersion ELSE named.version
  BY DEF ResolveVersion
<1>5. SaysWhatItKnows(proxy, query, failed) <=>
        LET answer == VersionExists(proxy, query, failed)
        IN  /\ answer.exists => there
            /\ ~answer.exists /\ ~answer.unknown => ~there
            /\ answer.unknown => failed # {}
            /\ answer.exists <=> ResolveVersion(proxy, query, failed) # NoVersion
  BY DEF SaysWhatItKnows
<1> HIDE DEF named, there
<1> QED  BY <1>2, <1>3, <1>4, <1>5

(* How a release stands to a target without a prerelease part, and to the    *)
(* line of releases that begin with its numbers.                             *)
LEMMA LineOfTarget ==
    ASSUME NEW v, NEW target, IsTag(v), v.pre = 0, IsTarget(target), target.pre = 0
    PROVE  /\ InLine(v, target) => ~Below(v, target)
           /\ ~Below(v, target) /\ ~Below(target, v) => InLine(v, target)
           /\ Len(target.num) = 3 /\ InLine(v, target) => ~Below(target, v)
<1> DEFINE a == Padded(v)
           t == Padded(target)
           n == Len(target.num)
<1>1. /\ a[1] \in Nat /\ a[2] \in Nat /\ a[3] \in Nat
      /\ t[1] \in Nat /\ t[2] \in Nat /\ t[3] \in Nat
      /\ n \in 1..3
      /\ \A i \in 1..n : t[i] = target.num[i]
      /\ \A i \in 1..3 : i > n => t[i] = 0
      /\ \A i \in 1..3 : a[i] = v.num[i]
      /\ v.num \in Seq(Nat) /\ Len(v.num) = 3 /\ target.num \in Seq(Nat)
  BY TagIsTarget, PaddedParts DEF IsTag
<1> HIDE DEF a, t, n
<1>2. InLine(v, target) <=> \A i \in 1..n : a[i] = t[i]
  <2>1. /\ SubSeq(v.num, 1, n) = [i \in 1..n |-> v.num[i]]
        /\ target.num = [i \in 1..n |-> target.num[i]]
    <3>1. SubSeq(v.num, 1, n) = [i \in 1..n |-> v.num[i]]
      <4>1. n \in Int /\ \A i \in 1..n : v.num[i] \in Nat
        <5>1. \A i \in 1..3 : v.num[i] \in Nat
          BY <1>1, SMTT(30)
        <5>2. n \in Int /\ \A i \in 1..n : i \in 1..3
          BY <1>1
        <5> QED  BY <5>1, <5>2
      <4>2. /\ SubSeq(v.num, 1, n) \in Seq(Nat)
            /\ Len(SubSeq(v.num, 1, n)) = IF 1 <= n THEN n - 1 + 1 ELSE 0
            /\ \A i \in 1..(n - 1 + 1) : SubSeq(v.num, 1, n)[i] = v.num[1 + i - 1]
        BY <4>1, SubSeqProperties
      <4>3. n - 1 + 1 = n /\ 1 <= n /\ \A i \in 1..n : 1 + i - 1 = i
        BY <1>1
      <4> QED  BY <4>2, <4>3
    <3>2. target.num = [i \in 1..n |-> target.num[i]]
      <4>1. \A s \in Seq(Nat) : s = [i \in 1..Len(s) |-> s[i]]
        OBVIOUS
      <4> QED  BY <1>1, <4>1 DEF n
    <3> QED  BY <3>1, <3>2
  <2>2. InLine(v, target) <=> \A i \in 1..n : v.num[i] = target.num[i]
    <3>1. InLine(v, target) <=> [i \in 1..n |-> v.num[i]] = [i \in 1..n |-> target.num[i]]
      BY <2>1 DEF InLine, n
    <3> QED  BY <3>1
  <2>3. \A i \in 1..n : a[i] = v.num[i] /\ t[i] = target.num[i]
    <3>1. \A i \in 1..n : i \in 1..3
      BY <1>1
    <3>2. \A i \in 1..3 : a[i] = v.num[i]
      BY <1>1
    <3>3. \A i \in 1..n : t[i] = target.num[i]
      BY <1>1
    <3> QED  BY <3>1, <3>2, <3>3
  <2> QED  BY <2>2, <2>3
<1>3. /\ Below(v, target) <=> \/ a[1] < t[1]
                              \/ a[1] = t[1] /\ a[2] < t[2]
                              \/ a[1] = t[1] /\ a[2] = t[2] /\ a[3] < t[3]
      /\ Below(target, v) <=> \/ t[1] < a[1]
                              \/ t[1] = a[1] /\ t[2] < a[2]
                              \/ t[1] = a[1] /\ t[2] = a[2] /\ t[3] < a[3]
  BY TagIsTarget, BelowByNumbers DEF a, t
<1>4. n \in {1, 2, 3} /\ (InLine(v, target) <=> /\ a[1] = t[1]
                                                /\ n >= 2 => a[2] = t[2]
                                                /\ n = 3 => a[3] = t[3])
  <2>1. n = 1 \/ n = 2 \/ n = 3
    BY <1>1
  <2>2. CASE n = 1
    <3>1. 1..n = {1}
      BY <2>2
    <3> QED  BY <1>2, <2>2, <3>1
  <2>3. CASE n = 2
    <3>1. 1..n = {1, 2}
      BY <2>3
    <3> QED  BY <1>2, <2>3, <3>1
  <2>4. CASE n = 3
    <3>1. 1..n = {1, 2, 3}
      BY <2>4
    <3> QED  BY <1>2, <2>4, <3>1
  <2> QED  BY <2>1, <2>2, <2>3, <2>4
<1>5. (n < 3 => t[3] = 0) /\ (n < 2 => t[2] = 0)
  BY <1>1
<1>6. a[1] \in Nat /\ a[2] \in Nat /\ a[3] \in Nat /\ t[1] \in Nat /\ t[2] \in Nat /\ t[3] \in Nat
  BY <1>1
<1>7. Len(target.num) = n
  BY DEF n
<1> QED  BY <1>3, <1>4, <1>5, <1>6, <1>7

(* Exactly the ambiguous comparisons are refused. *)
LEMMA RefusedRightly ==
    ASSUME NEW query, NEW releases,
           isComparison(query) => IsTarget(query.target),
           \A v \in releases : IsTag(v) /\ v.pre = 0,
           isAmbiguousComparisonQuery(query) =>
              \E v \in releases : InLine(v, query.target) /\ Below(query.target, v)
    PROVE  RefusedIffAmbiguous(query, releases)
<1> DEFINE t == query.target
           AsLine(v) == CASE query.op = "<" -> Below(v, t) /\ ~InLine(v, t)
                          [] query.op = "<=" -> Below(v, t) \/ InLine(v, t)
                          [] query.op = ">" -> Below(t, v) /\ ~InLine(v, t)
                          [] query.op = ">=" -> Below(t, v) \/ InLine(v, t)
           differ == \E v \in releases : Satisfies(v, query.op, t) # AsLine(v)
<1>1. RefusedIffAmbiguous(query, releases)
        <=> (isAmbiguousComparisonQuery(query) <=> isComparison(query) /\ t.pre = 0 /\ differ)
  BY DEF RefusedIffAmbiguous
<1>2. isAmbiguousComparisonQuery(query)
        <=> query.op \in {"<=", ">"} /\ t.pre = 0 /\ Len(t.num) < 3
  BY DEF isAmbiguousComparisonQuery, isAmbiguousComparisonOperand
<1>3. isComparison(query) <=> query.op \in Comparisons
  BY DEF isComparison, Comparisons
<1>4. CASE ~isComparison(query) \/ t.pre # 0
  BY <1>1, <1>2, <1>3, <1>4 DEF Comparisons
<1>5. CASE isComparison(query) /\ t.pre = 0
  <2>1. \A v \in releases :
          /\ InLine(v, t) => ~Below(v, t)
          /\ ~Below(v, t) /\ ~Below(t, v) => InLine(v, t)
          /\ Len(t.num) = 3 /\ InLine(v, t) => ~Below(t, v)
          /\ ~(Below(v, t) /\ Below(t, v))
    BY <1>5, LineOfTarget, BelowOrders, TagIsTarget
  <2>2. \A v \in releases : Satisfies(v, query.op, t) # AsLine(v)
          <=> query.op \in {"<=", ">"} /\ InLine(v, t) /\ Below(t, v)
    <3> SUFFICES ASSUME NEW v \in releases
                 PROVE  Satisfies(v, query.op, t) # AsLine(v)
                          <=> query.op \in {"<=", ">"} /\ InLine(v, t) /\ Below(t, v)
      OBVIOUS
    <3>1. query.op \in {"<", "<=", ">", ">="}
      BY <1>3, <1>5 DEF Comparisons
    <3>2. /\ InLine(v, t) \in BOOLEAN /\ Below(v, t) \in BOOLEAN /\ Below(t, v) \in BOOLEAN
      BY DEF InLine, Below
    <3>3. CASE query.op = "<"
      <4>1. Satisfies(v, query.op, t) = Below(v, t) /\ AsLine(v) = (Below(v, t) /\ ~InLine(v, t))
        BY <3>3 DEF Satisfies
      <4> HIDE DEF AsLine
      <4> QED  BY <2>1, <3>2, <3>3, <4>1
    <3>4. CASE query.op = "<="
      <4>1. Satisfies(v, query.op, t) = ~Below(t, v) /\ AsLine(v) = (Below(v, t) \/ InLine(v, t))
        BY <3>4 DEF Satisfies
      <4> HIDE DEF AsLine
      <4> QED  BY <2>1, <3>2, <3>4, <4>1
    <3>5. CASE query.op = ">"
      <4>1. Satisfies(v, query.op, t) = Below(t, v) /\ AsLine(v) = (Below(t, v) /\ ~InLine(v, t))
        BY <3>5 DEF Satisfies
      <4> HIDE DEF AsLine
      <4> QED  BY <2>1, <3>2, <3>5, <4>1
    <3>6. CASE query.op = ">="
      <4>1. Satisfies(v, query.op, t) = ~Below(v, t) /\ AsLine(v) = (Below(t, v) \/ InLine(v, t))
        BY <3>6 DEF Satisfies
      <4> HIDE DEF AsLine
      <4> QED  BY <2>1, <3>2, <3>6, <4>1
    <3> QED  BY <3>1, <3>3, <3>4, <3>5, <3>6
  <2>4. Len(t.num) \in 1..3
    BY <1>5, PaddedParts
  <2> HIDE DEF AsLine
  <2>5. differ => query.op \in {"<=", ">"} /\ Len(t.num) < 3
    <3> SUFFICES ASSUME NEW v \in releases, Satisfies(v, query.op, t) # AsLine(v)
                 PROVE  query.op \in {"<=", ">"} /\ Len(t.num) < 3
      OBVIOUS
    <3>1. query.op \in {"<=", ">"} /\ InLine(v, t) /\ Below(t, v)
      BY <2>2
    <3>2. Len(t.num) # 3
      BY <2>1, <3>1
    <3> DEFINE k == Len(t.num)
    <3>3. k < 3
      <4>1. k \in 1..3 /\ k # 3
        BY <2>4, <3>2
      <4> HIDE DEF k
      <4> QED  BY <4>1
    <3> QED  BY <3>1, <3>3
  <2>6. isAmbiguousComparisonQuery(query) => differ
    BY <1>2, <2>2
  <2> QED  BY <1>1, <1>2, <1>5, <2>5, <2>6
<1> QED  BY <1>4, <1>5

(* src/proxy.go ResolveVersion, VersionExists and the ambiguity test: a      *)
(* query is resolved as the go command would, a failed request is never      *)
(* taken for a missing version, and exactly the ambiguous comparisons are    *)
(* refused; whatever the tags, the query and the failures.                   *)
THEOREM QueriesAnsweredRightly == Spec => []QueriesAnswered
<1>1. Init => QueriesAnswered
  <2> SUFFICES ASSUME Init, input.of = "query"
               PROVE  /\ ResolvesToNearest(input.proxy, input.query, input.failed)
                      /\ SaysWhatItKnows(input.proxy, input.query, input.failed)
                      /\ RefusedIffAmbiguous(input.query, Releases)
    BY DEF QueriesAnswered
  <2>1. input \in QueryInputs
    BY CallAssumption DEF Init
  <2>2. IsCall(input.proxy, input.query, input.failed)
    BY <2>1, CallAssumption DEF IsCall, Comparisons, isComparison
  <2>3. RefusedIffAmbiguous(input.query, Releases)
    BY <2>1, CallAssumption, ReleaseAssumption, RefusedRightly
  <2> QED  BY <2>2, <2>3, QueryResolves, QuerySaysWhatItKnows
<1>2. QueriesAnswered /\ [Next]_input => QueriesAnswered'
  BY DEF QueriesAnswered, Next
<1> QED  BY <1>1, <1>2, PTL DEF Spec

-----------------------------------------------------------------------------
(* Forks of modules the file names itself. *)

(* What the exact match of a path is: a listed module of its very name,      *)
(* and not itself.                                                           *)
LEMMA ExactMatch ==
    ASSUME NEW modPath, Match(modPath).exact
    PROVE  LET name == BaseName(modPath)
               deciding == {i \in DOMAIN popularModules : Decides(popularModules[i], modPath, name)}
           IN  /\ ~Generic(name)
               /\ \E i \in deciding : /\ \A k \in deciding : i <= k
                                      /\ Match(modPath).match = popularModules[i]
                                      /\ popularModules[i] # modPath
                                      /\ toLower(BaseName(popularModules[i])) = toLower(name)
<1> DEFINE name == BaseName(modPath)
           deciding == {i \in DOMAIN popularModules : Decides(popularModules[i], modPath, name)}
           chosen == CHOOSE i \in deciding : \A k \in deciding : i <= k
           near == NearestName(name).path
<1>1. Match(modPath) = CASE Generic(name) -> NoMatch
                         [] ~Generic(name) /\ deciding # {} ->
                              IF popularModules[chosen] = modPath THEN NoMatch
                              ELSE [match |-> popularModules[chosen], exact |-> TRUE]
                         [] ~Generic(name) /\ deciding = {} ->
                              IF Len(name) < typoMinNameLen THEN NoMatch
                              ELSE [match |-> near, exact |-> FALSE]
  BY DEF Match, closestPopularMatch
<1> HIDE DEF near
<1>2. /\ ~Generic(name) /\ deciding # {} /\ popularModules[chosen] # modPath
      /\ Match(modPath) = [match |-> popularModules[chosen], exact |-> TRUE]
  <2> HIDE DEF deciding, chosen, name
  <2>1. CASE Generic(name)
    BY <1>1, <2>1 DEF NoMatch
  <2>2. CASE ~Generic(name) /\ deciding = {}
    <3>1. Match(modPath) = IF Len(name) < typoMinNameLen THEN NoMatch
                           ELSE [match |-> near, exact |-> FALSE]
      BY <1>1, <2>2
    <3> QED  BY <3>1 DEF NoMatch
  <2>3. CASE ~Generic(name) /\ deciding # {}
    <3>1. Match(modPath) = IF popularModules[chosen] = modPath THEN NoMatch
                           ELSE [match |-> popularModules[chosen], exact |-> TRUE]
      BY <1>1, <2>3
    <3> QED  BY <3>1, <2>3 DEF NoMatch
  <2> QED  BY <2>1, <2>2, <2>3
<1>3. deciding \subseteq Nat
  BY NameAssumption
<1>4. chosen \in deciding /\ \A k \in deciding : chosen <= k
  <2>1. \E i \in deciding : \A k \in deciding : i <= k
    <3> HIDE DEF deciding
    <3> QED  BY <1>2, <1>3, LeastOne
  <2> HIDE DEF deciding
  <2> QED  BY <2>1
<1>5. Decides(popularModules[chosen], modPath, name)
  <2> HIDE DEF chosen
  <2> QED  BY <1>4
<1>6. toLower(BaseName(popularModules[chosen])) = toLower(name)
  BY <1>2, <1>5 DEF Decides
<1>7. Match(modPath).match = popularModules[chosen]
  BY <1>2
<1> HIDE DEF chosen
<1> QED  BY <1>2, <1>4, <1>6, <1>7

(* A finding is dropped only for a genuine module that the file names. *)
LEMMA DroppedRightly ==
    ASSUME NEW newPath, newPath # <<>>, NEW oldPath, NEW declared
    PROVE  DroppedIffGenuineNamed(newPath, oldPath, declared)
<1> DEFINE genuine == {p \in listed : toLower(BaseName(p)) = toLower(BaseName(newPath))}
           found == Match(newPath).match
<1> SUFFICES ASSUME Match(newPath).exact
             PROVE  /\ Suppressed(newPath, oldPath, declared) => genuine \cap (declared \cup {oldPath}) # {}
                    /\ genuine \cap (declared \cup {oldPath}) # {} /\ Cardinality(genuine) = 1
                          => Suppressed(newPath, oldPath, declared)
  BY DEF DroppedIffGenuineNamed
<1>1. found \in genuine /\ found # <<>>
  <2>1. PICK i \in DOMAIN popularModules :
               /\ found = popularModules[i]
               /\ toLower(BaseName(popularModules[i])) = toLower(BaseName(newPath))
    BY ExactMatch
  <2>2. popularModules[i] # <<>>
    BY <2>1, NameAssumption
  <2> QED  BY <2>1, <2>2 DEF listed
<1>2. Suppressed(newPath, oldPath, declared) <=> found = oldPath \/ found \in declared
  <2> HIDE DEF genuine
  <2> QED  BY <1>1 DEF Suppressed, isReplacementOfExactPopularMatch, isForkOfDirectlyDeclaredPopular
<1>3. Suppressed(newPath, oldPath, declared) => genuine \cap (declared \cup {oldPath}) # {}
  <2> HIDE DEF genuine, found
  <2> QED  BY <1>1, <1>2
<1>4. ASSUME NEW p \in genuine, p \in declared \/ p = oldPath, Cardinality(genuine) = 1
      PROVE  Suppressed(newPath, oldPath, declared)
  <2> HIDE DEF genuine, found
  <2>1. IsFiniteSet(genuine)
    <3>1. listed = {popularModules[i] : i \in DOMAIN popularModules}
      BY DEF listed
    <3>2. IsFiniteSet(DOMAIN popularModules)
      <4>1. DOMAIN popularModules = 1..Len(popularModules) /\ Len(popularModules) \in Nat
        BY NameAssumption
      <4> QED  BY <4>1, FS_Interval
    <3>3. IsFiniteSet(listed)
      <4>1. popularModules \in Surjection(DOMAIN popularModules, listed)
        BY <3>1, NameAssumption DEF Surjection
      <4> QED  BY <4>1, <3>2, FS_Surjection
    <3>4. genuine \subseteq listed
      BY DEF genuine
    <3> QED  BY <3>3, <3>4, FS_Subset
  <2>2. \E x : genuine = {x}
    BY <2>1, <1>4, FS_Singleton
  <2> QED  BY <1>1, <1>2, <1>4, <2>2
<1> HIDE DEF genuine, found
<1> QED  BY <1>3, <1>4

(* src/check.go suppressForkOfDeclaredPopular: a finding that a name was     *)
(* taken over is dropped only where a genuine module of that name is named,  *)
(* and always where it is the only one listed.                               *)
THEOREM ForksDroppedRightly == Spec => []ForksOfNamedDropped
<1>1. Init => ForksOfNamedDropped
  <2> SUFFICES ASSUME Init, input.of = "fork"
               PROVE  DroppedIffGenuineNamed(input.path, input.old, input.declared)
    BY DEF ForksOfNamedDropped
  <2>1. input.path # <<>>
    BY CallAssumption DEF Init, IsPath
  <2> QED  BY <2>1, DroppedRightly
<1>2. ForksOfNamedDropped /\ [Next]_input => ForksOfNamedDropped'
  BY DEF ForksOfNamedDropped, Next
<1> QED  BY <1>1, <1>2, PTL DEF Spec

-----------------------------------------------------------------------------
(* Names: the table of Levenshtein. *)

(* min3 is one of the three, and none is less. *)
LEMMA LeastOfThree ==
    ASSUME NEW x \in Nat, NEW y \in Nat, NEW z \in Nat
    PROVE  /\ min3(x, y, z) \in Nat /\ min3(x, y, z) <= x /\ min3(x, y, z) <= y /\ min3(x, y, z) <= z
           /\ min3(x, y, z) = x \/ min3(x, y, z) = y \/ min3(x, y, z) = z
BY DEF min3

Cost(x, y) == IF x = y THEN 0 ELSE 1

(* A row follows from the row above, from left to right.                     *)
LEMMA RowFollows ==
    ASSUME NEW other, Len(other) \in Nat, NEW prev \in [0..Len(other) -> Nat], NEW letter
    PROVE  LET curr == NextRow(prev, letter, other)
           IN  /\ curr \in [0..Len(other) -> Nat] /\ curr[0] = prev[0] + 1
               /\ \A j \in 1..Len(other) :
                     curr[j] = min3(prev[j] + 1, curr[j - 1] + 1,
                                    prev[j - 1] + Cost(letter, other[j]))
<1> DEFINE n == Len(other)
           Step(x, j) == min3(prev[j] + 1, x + 1, prev[j - 1] + IF letter = other[j] THEN 0 ELSE 1)
           F == [q \in Nat \X (1..n) |-> Step(q[1], q[2])]
<1>1. \A x \in Nat, j \in 1..n : Step(x, j) \in Nat
  <2> TAKE x \in Nat, j \in 1..n
  <2>1. prev[j] + 1 \in Nat /\ x + 1 \in Nat /\ prev[j - 1] + (IF letter = other[j] THEN 0 ELSE 1) \in Nat
    OBVIOUS
  <2> QED  BY <2>1, LeastOfThree
<1>2. \A x \in Nat, j \in 1..n : F[<<x, j>>] = Step(x, j)
  <2> HIDE DEF Step
  <2> QED  OBVIOUS
<1>3. PICK f : IsLoop(f, Nat, prev[0] + 1, F, n)
  <2>1. prev[0] + 1 \in Nat /\ n \in Nat
    OBVIOUS
  <2>2. StaysIn(Nat, F, n)
    <3> HIDE DEF F, Step, n
    <3> QED  BY <1>1, <1>2 DEF StaysIn
  <2> HIDE DEF F, n
  <2> QED  BY <2>1, <2>2, LoopRuns
<1>4. f \in [0..n -> Nat] /\ f[0] = prev[0] + 1 /\ \A j \in 1..n : f[j] = Step(f[j - 1], j)
  <2>1. n \in Nat
    OBVIOUS
  <2> HIDE DEF F, Step, n
  <2>2. f \in [0..n -> Nat] /\ f[0] = prev[0] + 1
    BY <1>3 DEF IsLoop
  <2>3. ASSUME NEW j \in 1..n PROVE f[j] = Step(f[j - 1], j)
    <3>1. f[j - 1] \in Nat
      BY <2>1, <2>2
    <3>2. f[j] = F[<<f[j - 1], j>>]
      BY <1>3 DEF IsLoop
    <3> QED  BY <1>2, <3>1, <3>2
  <2> QED  BY <2>2, <2>3
<1>5. NextRow(prev, letter, other) = f
  <2> DEFINE Loop(g) == [j \in 0 .. Len(other) |->
                IF j = 0 THEN prev[0] + 1
                ELSE min3(prev[j] + 1, g[j - 1] + 1,
                          prev[j - 1] + IF letter = other[j] THEN 0 ELSE 1)]
             g == CHOOSE g : g = Loop(g)
  <2>1. f = Loop(f)
    BY <1>4
  <2>2. g = Loop(g)
    <3> HIDE DEF Loop
    <3> QED  BY <2>1
  <2>3. g[0] = prev[0] + 1 /\ \A j \in 1..n : g[j] = Step(g[j - 1], j)
    <3> HIDE DEF g
    <3> QED  BY <2>2
  <2>4. \A j \in 0..n : g[j] = f[j]
    <3>1. n \in Nat
      OBVIOUS
    <3>2. g[0] = f[0] /\ \A j \in 1..n : g[j - 1] = f[j - 1] => g[j] = f[j]
      <4> HIDE DEF g, Step, n
      <4> QED  BY <1>4, <2>3
    <3>3. g[0] = f[0]
      BY <3>2
    <3>4. \A j \in 1..n : g[j - 1] = f[j - 1] => g[j] = f[j]
      BY <3>2
    <3> DEFINE Same == {j \in 0..n : g[j] = f[j]}
    <3>5. 0 \in Same /\ \A j \in 1..n : j - 1 \in Same => j \in Same
      <4> HIDE DEF g, n, Loop, Step, F
      <4> QED  BY <3>1, <3>3, <3>4
    <3>6. \A j \in 0..n : j \in Same
      <4> HIDE DEF g, n, Loop, Step, F, Same
      <4> QED  BY <3>1, <3>5, ByInduction
    <3> HIDE DEF g, n, Loop, Step, F
    <3> QED  BY <3>6
  <2>5. g = f
    <3>1. Loop(g) = Loop(f)
      <4> HIDE DEF g
      <4> QED  BY <2>4
    <3> HIDE DEF Loop
    <3> QED  BY <2>1, <2>2, <3>1
  <2> QED  BY <2>5 DEF NextRow
<1> QED  BY <1>4, <1>5 DEF Cost

IsTable(D, a, b) ==
    /\ D \in [0..Len(a) -> [0..Len(b) -> Nat]]
    /\ \A j \in 0..Len(b) : D[0][j] = j
    /\ \A i \in 1..Len(a) : D[i][0] = D[i - 1][0] + 1
    /\ \A i \in 1..Len(a), j \in 1..Len(b) :
          D[i][j] = min3(D[i - 1][j] + 1, D[i][j - 1] + 1, D[i - 1][j - 1] + Cost(a[i], b[j]))

IsRows(D, a, b) ==
    /\ D \in [0..Len(a) -> [0..Len(b) -> Nat]]
    /\ D[0] = [j \in 0..Len(b) |-> j]
    /\ \A i \in 1..Len(a) : D[i] = NextRow(D[i - 1], a[i], b)

(* Row by row, the rows of the table exist. *)
LEMMA RowsRun ==
    ASSUME NEW a, NEW b, Len(a) \in Nat, Len(b) \in Nat
    PROVE  \E D : IsRows(D, a, b)
<1> DEFINE n == Len(a)
           X == [0..Len(b) -> Nat]
           first == [j \in 0..Len(b) |-> j]
           F == [q \in X \X (1..n) |-> NextRow(q[1], a[q[2]], b)]
<1>1. \A x \in X, i \in 1..n : F[<<x, i>>] = NextRow(x, a[i], b) /\ NextRow(x, a[i], b) \in X
  <2> TAKE x \in X, i \in 1..n
  <2>1. NextRow(x, a[i], b) \in X
    BY RowFollows
  <2> HIDE DEF X
  <2> QED  BY <2>1
<1>2. PICK f : IsLoop(f, X, first, F, n)
  <2>1. first \in X /\ n \in Nat
    OBVIOUS
  <2>2. StaysIn(X, F, n)
    <3> HIDE DEF X, F, n
    <3> QED  BY <1>1 DEF StaysIn
  <2> HIDE DEF X, F, n, first
  <2> QED  BY <2>1, <2>2, LoopRuns
<1>3. f \in [0..n -> X] /\ f[0] = first /\ \A i \in 1..n : f[i] = NextRow(f[i - 1], a[i], b)
  <2>1. n \in Nat
    OBVIOUS
  <2> HIDE DEF F, n, X, first
  <2>2. f \in [0..n -> X] /\ f[0] = first
    BY <1>2 DEF IsLoop
  <2>3. ASSUME NEW i \in 1..n PROVE f[i] = NextRow(f[i - 1], a[i], b)
    <3>1. f[i - 1] \in X
      BY <2>1, <2>2
    <3>2. f[i] = F[<<f[i - 1], i>>]
      BY <1>2 DEF IsLoop
    <3> QED  BY <1>1, <3>1, <3>2
  <2> QED  BY <2>2, <2>3
<1>4. IsRows(f, a, b)
  BY <1>3 DEF IsRows
<1> QED  BY <1>4

(* The rows hold the distances of all beginnings. *)
LEMMA RowsAreTable ==
    ASSUME NEW a, NEW b, Len(a) \in Nat, Len(b) \in Nat, NEW D, IsRows(D, a, b)
    PROVE  IsTable(D, a, b)
<1>1. D \in [0..Len(a) -> [0..Len(b) -> Nat]] /\ \A j \in 0..Len(b) : D[0][j] = j
  BY DEF IsRows
<1>2. ASSUME NEW i \in 1..Len(a)
      PROVE  /\ D[i][0] = D[i - 1][0] + 1
             /\ \A j \in 1..Len(b) :
                  D[i][j] = min3(D[i - 1][j] + 1, D[i][j - 1] + 1, D[i - 1][j - 1] + Cost(a[i], b[j]))
  <2>1. D[i] = NextRow(D[i - 1], a[i], b)
    BY DEF IsRows
  <2>2. D[i - 1] \in [0..Len(b) -> Nat]
    <3>1. i - 1 \in 0..Len(a)
      OBVIOUS
    <3> QED  BY <1>1, <3>1
  <2> QED  BY <2>1, <2>2, RowFollows, SMTT(20)
<1> QED  BY <1>1, <1>2 DEF IsTable

(* Lowering a name keeps its length. *)
LEMMA LoweredLength ==
    ASSUME NEW a \in Seq(Letter)
    PROVE  toLower(a) \in Seq(Letter) /\ Len(toLower(a)) = Len(a)
<1>1. toLower(a) \in [1..Len(a) -> Letter] /\ Len(a) \in Nat
  BY NameAssumption DEF toLower
<1> HIDE DEF toLower
<1> QED  BY <1>1

(* Levenshtein returns the last cell of a table of distances. *)
LEMMA LevenshteinIsTable ==
    ASSUME NEW a \in Seq(Letter), NEW b \in Seq(Letter)
    PROVE  \E D : /\ IsTable(D, toLower(a), toLower(b))
                  /\ Levenshtein(a, b) = D[Len(a)][Len(b)]
<1> DEFINE ra == toLower(a)
           rb == toLower(b)
<1>1. Len(ra) = Len(a) /\ Len(rb) = Len(b) /\ Len(a) \in Nat /\ Len(b) \in Nat
  BY LoweredLength
<1> HIDE DEF ra, rb
<1>2. PICK D : IsRows(D, ra, rb)
  BY <1>1, RowsRun
<1> DEFINE Loop(g) == [i \in 0 .. Len(ra) |->
              IF i = 0 THEN [j \in 0 .. Len(rb) |-> j] ELSE NextRow(g[i - 1], ra[i], rb)]
           g == CHOOSE g : g = Loop(g)
<1>3. D = Loop(D)
  BY <1>2 DEF IsRows
<1>4. g = Loop(g)
  <2> HIDE DEF Loop
  <2> QED  BY <1>3
<1> DEFINE n == Len(ra)
           first == [j \in 0 .. Len(rb) |-> j]
<1>5. g[0] = first /\ \A i \in 1..n : g[i] = NextRow(g[i - 1], ra[i], rb)
  <2>1. g = [i \in 0..n |-> IF i = 0 THEN first ELSE NextRow(g[i - 1], ra[i], rb)]
    BY <1>4
  <2>2. n \in Nat
    BY <1>1
  <2> HIDE DEF g, first, n
  <2>3. \A i \in 0..n : g[i] = IF i = 0 THEN first ELSE NextRow(g[i - 1], ra[i], rb)
    BY <2>1
  <2> QED  BY <2>2, <2>3
<1>6. \A i \in 0..n : g[i] = D[i]
  <2>1. g[0] = D[0] /\ \A i \in 1..n : g[i - 1] = D[i - 1] => g[i] = D[i]
    <3> HIDE DEF g
    <3> QED  BY <1>2, <1>5 DEF IsRows
  <2>2. n \in Nat
    BY <1>1
  <2> HIDE DEF g, n
  <2> QED  BY <2>1, <2>2, LoopsAgree, SMTT(20)
<1>7. g[n] = D[n]
  <2>1. n \in Nat
    BY <1>1
  <2> HIDE DEF g, n
  <2> QED  BY <2>1, <1>6
<1>8. Levenshtein(a, b) = g[Len(ra)][Len(rb)]
  BY DEF Levenshtein, ra, rb
<1>9. IsTable(D, ra, rb)
  BY <1>1, <1>2, RowsAreTable
<1> QED  BY <1>1, <1>7, <1>8, <1>9 DEF ra, rb

(* Induction over a grid, from its first row and first column.               *)
LEMMA ByGrid ==
    ASSUME NEW G, NEW m \in Nat, NEW n \in Nat,
           \A j \in 0..n : <<0, j>> \in G,
           \A i \in 1..m : <<i, 0>> \in G,
           \A i \in 1..m, j \in 1..n :
              <<i - 1, j>> \in G /\ <<i, j - 1>> \in G /\ <<i - 1, j - 1>> \in G => <<i, j>> \in G
    PROVE  \A i \in 0..m, j \in 0..n : <<i, j>> \in G
<1> DEFINE Full == {i \in 0..m : \A j \in 0..n : <<i, j>> \in G}
<1>1. 0 \in Full
  OBVIOUS
<1>2. ASSUME NEW i \in 1..m, i - 1 \in Full PROVE i \in Full
  <2> DEFINE Row == {j \in 0..n : <<i, j>> \in G}
  <2>1. 0 \in Row
    OBVIOUS
  <2>2. ASSUME NEW j \in 1..n, j - 1 \in Row PROVE j \in Row
    <3>1. <<i - 1, j>> \in G /\ <<i - 1, j - 1>> \in G
      BY <1>2
    <3> QED  BY <2>2, <3>1
  <2>3. \A j \in 0..n : j \in Row
    <3> HIDE DEF Row
    <3> QED  BY <2>1, <2>2, ByInduction
  <2> QED  BY <2>3
<1>3. \A i \in 0..m : i \in Full
  <2> HIDE DEF Full
  <2> QED  BY <1>1, <1>2, ByInduction
<1> QED  BY <1>3

(* Every cell is a number. *)
LEMMA Cells ==
    ASSUME NEW a, NEW b, Len(a) \in Nat, Len(b) \in Nat, NEW D, IsTable(D, a, b)
    PROVE  \A i \in 0..Len(a), j \in 0..Len(b) : D[i][j] \in Nat
BY DEF IsTable

(* A cell by its three neighbours. *)
LEMMA Cell ==
    ASSUME NEW a, NEW b, Len(a) \in Nat, Len(b) \in Nat, NEW D, IsTable(D, a, b),
           NEW i \in 1..Len(a), NEW j \in 1..Len(b)
    PROVE  /\ D[i][j] \in Nat /\ D[i - 1][j] \in Nat /\ D[i][j - 1] \in Nat /\ D[i - 1][j - 1] \in Nat
           /\ Cost(a[i], b[j]) \in {0, 1}
           /\ D[i][j] <= D[i - 1][j] + 1
           /\ D[i][j] <= D[i][j - 1] + 1
           /\ D[i][j] <= D[i - 1][j - 1] + Cost(a[i], b[j])
           /\ \/ D[i][j] = D[i - 1][j] + 1
              \/ D[i][j] = D[i][j - 1] + 1
              \/ D[i][j] = D[i - 1][j - 1] + Cost(a[i], b[j])
<1>1. i \in 0..Len(a) /\ i - 1 \in 0..Len(a) /\ j \in 0..Len(b) /\ j - 1 \in 0..Len(b)
  OBVIOUS
<1>2. D[i][j] \in Nat /\ D[i - 1][j] \in Nat /\ D[i][j - 1] \in Nat /\ D[i - 1][j - 1] \in Nat
  BY <1>1, Cells
<1>3. Cost(a[i], b[j]) \in {0, 1}
  BY DEF Cost
<1>4. D[i][j] = min3(D[i - 1][j] + 1, D[i][j - 1] + 1, D[i - 1][j - 1] + Cost(a[i], b[j]))
  BY DEF IsTable
<1> DEFINE x == D[i - 1][j] + 1
           y == D[i][j - 1] + 1
           z == D[i - 1][j - 1] + Cost(a[i], b[j])
<1>5. x \in Nat /\ y \in Nat /\ z \in Nat
  <2>1. \A m \in Nat, k \in {0, 1} : m + k \in Nat
    OBVIOUS
  <2>2. x \in Nat /\ y \in Nat
    BY <1>2, SMTT(20)
  <2>3. z \in Nat
    BY <1>2, <1>3, <2>1
  <2> QED  BY <2>2, <2>3
<1>6. D[i][j] = min3(x, y, z)
  BY <1>4
<1>7. D[i][j] <= x /\ D[i][j] <= y /\ D[i][j] <= z /\ (D[i][j] = x \/ D[i][j] = y \/ D[i][j] = z)
  <2> DEFINE d == D[i][j]
  <2>1. d = min3(x, y, z)
    BY <1>6
  <2> HIDE DEF x, y, z, d
  <2>2. d <= x /\ d <= y /\ d <= z /\ (d = x \/ d = y \/ d = z)
    BY <1>5, <2>1, LeastOfThree
  <2> QED  BY <2>2 DEF d
<1> QED  BY <1>2, <1>3, <1>7

(* The first row and the first column count up. *)
LEMMA Edges ==
    ASSUME NEW a, NEW b, Len(a) \in Nat, Len(b) \in Nat, NEW D, IsTable(D, a, b)
    PROVE  /\ \A j \in 0..Len(b) : D[0][j] = j
           /\ \A i \in 0..Len(a) : D[i][0] = i
<1>1. \A j \in 0..Len(b) : D[0][j] = j
  BY DEF IsTable
<1>2. \A i \in 1..Len(a) : D[i][0] = D[i - 1][0] + 1
  BY DEF IsTable
<1> DEFINE Good == {i \in 0..Len(a) : D[i][0] = i}
<1>3. 0 \in Good
  BY <1>1
<1>4. \A i \in 1..Len(a) : i - 1 \in Good => i \in Good
  BY <1>2
<1>5. \A i \in 0..Len(a) : i \in Good
  <2> HIDE DEF Good
  <2> QED  BY <1>3, <1>4, ByInduction
<1> QED  BY <1>1, <1>5

(* The cells of a column differ by at most one from their neighbours above,  *)
(* those of a row from their neighbours on the left.                         *)
LEMMA NextCell ==
    ASSUME NEW a, NEW b, Len(a) \in Nat, Len(b) \in Nat, NEW D, IsTable(D, a, b)
    PROVE  /\ \A i \in 1..Len(a), j \in 0..Len(b) : D[i][j] <= D[i - 1][j] + 1
           /\ \A i \in 0..Len(a), j \in 1..Len(b) : D[i][j] <= D[i][j - 1] + 1
<1>1. ASSUME NEW i \in 1..Len(a), NEW j \in 0..Len(b) PROVE D[i][j] <= D[i - 1][j] + 1
  <2>1. CASE j = 0
    BY <2>1, Edges
  <2>2. CASE j \in 1..Len(b)
    BY <2>2, Cell
  <2> QED  BY <2>1, <2>2
<1>2. ASSUME NEW i \in 0..Len(a), NEW j \in 1..Len(b) PROVE D[i][j] <= D[i][j - 1] + 1
  <2>1. CASE i = 0
    BY <2>1, Edges
  <2>2. CASE i \in 1..Len(a)
    BY <2>2, Cell
  <2> QED  BY <2>1, <2>2
<1> QED  BY <1>1, <1>2

(* Names of different lengths are at least as far apart as their lengths.    *)
LEMMA FarAsLengths ==
    ASSUME NEW a, NEW b, Len(a) \in Nat, Len(b) \in Nat, NEW D, IsTable(D, a, b)
    PROVE  \A i \in 0..Len(a), j \in 0..Len(b) : i - j <= D[i][j] /\ j - i <= D[i][j]
<1> DEFINE G == {q \in (0..Len(a)) \X (0..Len(b)) : q[1] - q[2] <= D[q[1]][q[2]] /\ q[2] - q[1] <= D[q[1]][q[2]]}
<1>1. \A i \in 0..Len(a), j \in 0..Len(b) : <<i, j>> \in G <=> i - j <= D[i][j] /\ j - i <= D[i][j]
  OBVIOUS
<1> HIDE DEF G
<1>2. \A j \in 0..Len(b) : <<0, j>> \in G
  BY <1>1, Edges
<1>3. \A i \in 1..Len(a) : <<i, 0>> \in G
  BY <1>1, Edges
<1>4. ASSUME NEW i \in 1..Len(a), NEW j \in 1..Len(b),
             <<i - 1, j>> \in G, <<i, j - 1>> \in G, <<i - 1, j - 1>> \in G
      PROVE  <<i, j>> \in G
  <2>1. /\ (i - 1) - j <= D[i - 1][j] /\ j - (i - 1) <= D[i - 1][j]
        /\ i - (j - 1) <= D[i][j - 1] /\ (j - 1) - i <= D[i][j - 1]
        /\ (i - 1) - (j - 1) <= D[i - 1][j - 1] /\ (j - 1) - (i - 1) <= D[i - 1][j - 1]
    BY <1>1, <1>4, SMTT(20)
  <2>2. i - j <= D[i][j] /\ j - i <= D[i][j]
    <3> DEFINE d == D[i][j]
               x == D[i - 1][j]
               y == D[i][j - 1]
               z == D[i - 1][j - 1]
               k == Cost(a[i], b[j])
    <3>1. /\ d \in Nat /\ x \in Nat /\ y \in Nat /\ z \in Nat /\ k \in {0, 1}
          /\ d = x + 1 \/ d = y + 1 \/ d = z + k
      BY Cell
    <3>2. /\ (i - 1) - j <= x /\ j - (i - 1) <= x
          /\ i - (j - 1) <= y /\ (j - 1) - i <= y
          /\ (i - 1) - (j - 1) <= z /\ (j - 1) - (i - 1) <= z
      BY <2>1
    <3> HIDE DEF d, x, y, z, k
    <3>3. i - j <= d /\ j - i <= d
      BY <3>1, <3>2
    <3> QED  BY <3>3 DEF d
  <2> QED  BY <1>1, <2>2
<1>5. \A i \in 0..Len(a), j \in 0..Len(b) : <<i, j>> \in G
  BY <1>2, <1>3, <1>4, ByGrid
<1> QED  BY <1>1, <1>5

(* The arithmetic of a cell of LeadStays. *)
LEMMA LeadOfCell ==
    ASSUME NEW d \in Nat, NEW dx \in Nat, NEW dy \in Nat, NEW dz \in Nat,
           NEW e \in Nat, NEW ex \in Nat, NEW ey \in Nat, NEW ez \in Nat,
           NEW cost \in {0, 1}, NEW w \in Nat,
           d = dx + 1 \/ d = dy + 1 \/ d = dz + cost,
           e <= ex + 1 /\ e <= ey + 1 /\ e <= ez + cost,
           ex <= dx + w /\ ey <= dy + w /\ ez <= dz + w
    PROVE  e <= d + w
OBVIOUS

(* Two tables for one name: where the other names go on alike, from column p *)
(* of the one and q of the other, the lead of the one over the other stays.  *)
LEMMA LeadStays ==
    ASSUME NEW a, NEW b, NEW c, Len(a) \in Nat, Len(b) \in Nat, Len(c) \in Nat,
           NEW D, IsTable(D, a, b), NEW E, IsTable(E, a, c),
           NEW p \in Nat, NEW q \in Nat, NEW r \in Nat, NEW w \in Nat,
           p + r <= Len(b), q + r <= Len(c),
           \A x \in 1..r : b[p + x] = c[q + x],
           \A i \in 0..Len(a) : E[i][q] <= D[i][p] + w
    PROVE  \A i \in 0..Len(a), x \in 0..r : E[i][q + x] <= D[i][p + x] + w
<1> DEFINE G == {z \in (0..Len(a)) \X (0..r) : E[z[1]][q + z[2]] <= D[z[1]][p + z[2]] + w}
<1>1. \A i \in 0..Len(a), x \in 0..r : <<i, x>> \in G <=> E[i][q + x] <= D[i][p + x] + w
  OBVIOUS
<1> HIDE DEF G
<1>2. ASSUME NEW x \in 0..r PROVE <<0, x>> \in G
  <2>1. p \in 0..Len(b) /\ p + x \in 0..Len(b) /\ q \in 0..Len(c) /\ q + x \in 0..Len(c)
    OBVIOUS
  <2>2. E[0][q] = q /\ E[0][q + x] = q + x /\ D[0][p] = p /\ D[0][p + x] = p + x
    BY <2>1, Edges
  <2>3. E[0][q] <= D[0][p] + w
    OBVIOUS
  <2>4. E[0][q + x] <= D[0][p + x] + w
    BY <2>2, <2>3
  <2> QED  BY <1>1, <2>4
<1>3. ASSUME NEW i \in 1..Len(a) PROVE <<i, 0>> \in G
  <2>1. E[i][q + 0] <= D[i][p + 0] + w
    <3>1. q + 0 = q /\ p + 0 = p /\ i \in 0..Len(a)
      OBVIOUS
    <3> QED  BY <3>1
  <2>2. i \in 0..Len(a) /\ 0 \in 0..r
    OBVIOUS
  <2> QED  BY <1>1, <2>1, <2>2
<1>4. ASSUME NEW i \in 1..Len(a), NEW x \in 1..r,
             <<i - 1, x>> \in G, <<i, x - 1>> \in G, <<i - 1, x - 1>> \in G
      PROVE  <<i, x>> \in G
  <2> DEFINE j == p + x
             k == q + x
  <2>1. j \in 1..Len(b) /\ k \in 1..Len(c) /\ q + (x - 1) = k - 1 /\ p + (x - 1) = j - 1
    BY SMTT(20)
  <2>2. /\ E[i - 1][k] <= D[i - 1][j] + w
        /\ E[i][k - 1] <= D[i][j - 1] + w
        /\ E[i - 1][k - 1] <= D[i - 1][j - 1] + w
    <3>1. i - 1 \in 0..Len(a) /\ i \in 0..Len(a) /\ x \in 0..r /\ x - 1 \in 0..r
      OBVIOUS
    <3>2. /\ E[i - 1][q + x] <= D[i - 1][p + x] + w
          /\ E[i][q + (x - 1)] <= D[i][p + (x - 1)] + w
          /\ E[i - 1][q + (x - 1)] <= D[i - 1][p + (x - 1)] + w
      BY <1>1, <1>4, <3>1
    <3> QED  BY <2>1, <3>2
  <2>3. b[j] = c[k]
    OBVIOUS
  <2> HIDE DEF j, k
  <2>4. Cost(a[i], b[j]) = Cost(a[i], c[k])
    BY <2>3
  <2>5. E[i][k] <= D[i][j] + w
    <3> DEFINE d == D[i][j]
               dx == D[i - 1][j]
               dy == D[i][j - 1]
               dz == D[i - 1][j - 1]
               e == E[i][k]
               ex == E[i - 1][k]
               ey == E[i][k - 1]
               ez == E[i - 1][k - 1]
               cost == Cost(a[i], b[j])
    <3>1. /\ d \in Nat /\ dx \in Nat /\ dy \in Nat /\ dz \in Nat /\ cost \in {0, 1}
          /\ d = dx + 1 \/ d = dy + 1 \/ d = dz + cost
      BY <2>1, Cell
    <3>2. /\ e \in Nat /\ ex \in Nat /\ ey \in Nat /\ ez \in Nat
          /\ e <= ex + 1 /\ e <= ey + 1 /\ e <= ez + cost
      BY <2>1, <2>4, Cell
    <3>3. ex <= dx + w /\ ey <= dy + w /\ ez <= dz + w
      BY <2>2
    <3> HIDE DEF d, dx, dy, dz, e, ex, ey, ez, cost
    <3>4. e <= d + w
      BY <3>1, <3>2, <3>3, LeadOfCell
    <3> QED  BY <3>4 DEF d, e
  <2>6. E[i][q + x] <= D[i][p + x] + w
    BY <2>5 DEF j, k
  <2> QED  BY <1>1, <2>6
<1>5. \A i \in 0..Len(a), x \in 0..r : <<i, x>> \in G
  <2> HIDE DEF IsTable
  <2> QED  BY <1>2, <1>3, <1>4, ByGrid
<1> QED  BY <1>1, <1>5

(* There is one table. *)
LEMMA OneDistance ==
    ASSUME NEW a, NEW b, Len(a) \in Nat, Len(b) \in Nat,
           NEW D, IsTable(D, a, b), NEW E, IsTable(E, a, b)
    PROVE  E[Len(a)][Len(b)] <= D[Len(a)][Len(b)]
<1>1. \A i \in 0..Len(a) : E[i][0] <= D[i][0] + 0
  BY Edges
<1>2. \A i \in 0..Len(a), x \in 0..Len(b) : E[i][0 + x] <= D[i][0 + x] + 0
  <2>1. \A x \in 1..Len(b) : b[0 + x] = b[0 + x]
    OBVIOUS
  <2>2. 0 + Len(b) <= Len(b) /\ 0 \in Nat
    OBVIOUS
  <2> QED  BY <1>1, <2>1, <2>2, LeadStays
<1>3. E[Len(a)][0 + Len(b)] <= D[Len(a)][0 + Len(b)] + 0
  BY <1>2
<1>4. D[Len(a)][Len(b)] \in Nat
  BY Cells
<1> QED  BY <1>3, <1>4

-----------------------------------------------------------------------------
(* Names: what one edit makes. *)

Removed(b, c) ==
    \E k \in 1..Len(b) : /\ Len(c) = Len(b) - 1
                         /\ \A x \in 1..(k - 1) : b[x] = c[x]
                         /\ \A x \in k..Len(c) : b[x + 1] = c[x]

Replaced(b, c) ==
    \E k \in 1..Len(b) : /\ Len(c) = Len(b)
                         /\ \A x \in 1..Len(b) : x # k => b[x] = c[x]

Inserted(b, c) ==
    \E k \in 1..(Len(b) + 1) : /\ Len(c) = Len(b) + 1
                               /\ \A x \in 1..(k - 1) : b[x] = c[x]
                               /\ \A x \in k..Len(b) : b[x] = c[x + 1]

(* The letters of the listed names are letters. *)
LEMMA SpellingIsOfLetters == Spelling \subseteq Letter
<1> SUFFICES ASSUME NEW p \in listed, NEW k \in 1..Len(BaseName(p))
             PROVE  toLower(BaseName(p))[k] \in Letter
  BY DEF Spelling
<1>1. p \in Seq(Seq(Letter)) \ {<<>>}
  BY NameAssumption DEF listed
<1>2. BaseName(p) \in Seq(Letter)
  BY <1>1 DEF BaseName, Last
<1>3. toLower(BaseName(p)) \in Seq(Letter) /\ Len(toLower(BaseName(p))) = Len(BaseName(p))
  BY <1>2, LoweredLength
<1> QED  BY <1>3

(* The letters of a beginning, and then of an ending, of a name. *)
LEMMA Beginning ==
    ASSUME NEW b \in Seq(Letter), NEW k \in 1..(Len(b) + 1)
    PROVE  /\ SubSeq(b, 1, k - 1) \in Seq(Letter) /\ Len(SubSeq(b, 1, k - 1)) = k - 1
           /\ \A x \in 1..(k - 1) : SubSeq(b, 1, k - 1)[x] = b[x]
<1>1. Len(b) \in Nat /\ \A i \in 1..Len(b) : b[i] \in Letter
  OBVIOUS
<1>2. k - 1 \in Int /\ \A i \in 1..(k - 1) : b[i] \in Letter
  BY <1>1
<1> QED  BY <1>1, <1>2, SubSeqProperties

LEMMA Ending ==
    ASSUME NEW b \in Seq(Letter), NEW k \in 1..(Len(b) + 1)
    PROVE  /\ SubSeq(b, k, Len(b)) \in Seq(Letter) /\ Len(SubSeq(b, k, Len(b))) = Len(b) - k + 1
           /\ \A x \in 1..(Len(b) - k + 1) : SubSeq(b, k, Len(b))[x] = b[k + x - 1]
<1> DEFINE g == SubSeq(b, k, Len(b))
<1>1. Len(b) \in Nat /\ \A i \in 1..Len(b) : b[i] \in Letter
  OBVIOUS
<1>2. k \in Int /\ Len(b) \in Int /\ \A i \in k..Len(b) : b[i] \in Letter
  BY <1>1
<1>3. /\ g \in Seq(Letter)
      /\ Len(g) = IF k <= Len(b) THEN Len(b) - k + 1 ELSE 0
      /\ \A x \in 1..(Len(b) - k + 1) : g[x] = b[k + x - 1]
  BY <1>2, SubSeqProperties
<1> QED  BY <1>1, <1>3

(* What RemoveAt, ReplaceAt and InsertAt make of a name. *)
LEMMA RemoveGives ==
    ASSUME NEW b \in Seq(Letter), NEW k \in 1..Len(b)
    PROVE  LET c == RemoveAt(b, k)
           IN  /\ c \in Seq(Letter) /\ Len(c) = Len(b) - 1
               /\ \A x \in 1..(k - 1) : b[x] = c[x]
               /\ \A x \in k..(Len(b) - 1) : b[x + 1] = c[x]
<1> DEFINE f == SubSeq(b, 1, k - 1)
           g == SubSeq(b, k + 1, Len(b))
           c == RemoveAt(b, k)
<1>1. Len(b) \in Nat /\ k \in 1..(Len(b) + 1) /\ k + 1 \in 1..(Len(b) + 1)
  OBVIOUS
<1>2. f \in Seq(Letter) /\ Len(f) = k - 1 /\ \A x \in 1..(k - 1) : f[x] = b[x]
  BY <1>1, Beginning
<1>3. g \in Seq(Letter) /\ Len(g) = Len(b) - k /\ \A x \in 1..(Len(b) - k) : g[x] = b[k + x]
  <2>1. /\ g \in Seq(Letter) /\ Len(g) = Len(b) - (k + 1) + 1
        /\ \A x \in 1..(Len(b) - (k + 1) + 1) : g[x] = b[(k + 1) + x - 1]
    BY <1>1, Ending
  <2>2. Len(b) - (k + 1) + 1 = Len(b) - k /\ \A x \in 1..(Len(b) - k) : (k + 1) + x - 1 = k + x
    BY <1>1
  <2> QED  BY <2>1, <2>2
<1>4. c = f \o g
  BY DEF RemoveAt
<1> HIDE DEF f, g, c
<1>5. /\ c \in Seq(Letter) /\ Len(c) = Len(f) + Len(g)
      /\ \A i \in 1 .. Len(f) + Len(g) : c[i] = IF i <= Len(f) THEN f[i] ELSE g[i - Len(f)]
  BY <1>2, <1>3, <1>4, ConcatProperties
<1>6. Len(c) = Len(b) - 1
  BY <1>1, <1>2, <1>3, <1>5, SMTT(20)
<1>7. \A x \in 1..(k - 1) : b[x] = c[x]
  <2> TAKE x \in 1..(k - 1)
  <2>1. x \in 1..Len(f) + Len(g) /\ x <= Len(f)
    BY <1>1, <1>2, <1>3
  <2> QED  BY <1>2, <1>5, <2>1
<1>8. ASSUME NEW x \in k..(Len(b) - 1) PROVE b[x + 1] = c[x]
  <2>1. x \in 1..Len(f) + Len(g) /\ ~(x <= Len(f)) /\ x - Len(f) = x - k + 1
    BY <1>1, <1>2, <1>3
  <2>2. x - k + 1 \in 1..(Len(b) - k) /\ k + (x - k + 1) = x + 1
    BY <1>1
  <2>3. c[x] = g[x - k + 1]
    BY <1>5, <2>1
  <2> QED  BY <1>3, <2>2, <2>3
<1> QED  BY <1>5, <1>6, <1>7, <1>8 DEF c

LEMMA ReplaceGives ==
    ASSUME NEW b \in Seq(Letter), NEW k \in 1..Len(b), NEW e \in Letter
    PROVE  /\ ReplaceAt(b, k, e) \in Seq(Letter) /\ Len(ReplaceAt(b, k, e)) = Len(b)
           /\ \A x \in 1..Len(b) : ReplaceAt(b, k, e)[x] = IF x = k THEN e ELSE b[x]
BY ExceptSeq DEF ReplaceAt

LEMMA InsertGives ==
    ASSUME NEW b \in Seq(Letter), NEW k \in 1..(Len(b) + 1), NEW e \in Letter
    PROVE  LET c == InsertAt(b, k, e)
           IN  /\ c \in Seq(Letter) /\ Len(c) = Len(b) + 1 /\ c[k] = e
               /\ \A x \in 1..(k - 1) : b[x] = c[x]
               /\ \A x \in k..Len(b) : b[x] = c[x + 1]
<1> DEFINE f == SubSeq(b, 1, k - 1)
           g == SubSeq(b, k, Len(b))
           m == <<e>>
           h == f \o m
           c == InsertAt(b, k, e)
<1>1. Len(b) \in Nat
  OBVIOUS
<1>2. f \in Seq(Letter) /\ Len(f) = k - 1 /\ \A x \in 1..(k - 1) : f[x] = b[x]
  BY Beginning
<1>3. g \in Seq(Letter) /\ Len(g) = Len(b) - k + 1 /\ \A x \in 1..(Len(b) - k + 1) : g[x] = b[k + x - 1]
  BY Ending
<1>4. m \in Seq(Letter) /\ Len(m) = 1 /\ m[1] = e
  OBVIOUS
<1>5. c = h \o g
  BY DEF InsertAt
<1> HIDE DEF f, g, m, c
<1>6. /\ h \in Seq(Letter) /\ Len(h) = Len(f) + Len(m)
      /\ \A i \in 1 .. Len(f) + Len(m) : h[i] = IF i <= Len(f) THEN f[i] ELSE m[i - Len(f)]
  BY <1>2, <1>4, ConcatProperties
<1> HIDE DEF h
<1>7. /\ c \in Seq(Letter) /\ Len(c) = Len(h) + Len(g)
      /\ \A i \in 1 .. Len(h) + Len(g) : c[i] = IF i <= Len(h) THEN h[i] ELSE g[i - Len(h)]
  <2>1. h \in Seq(Letter) /\ g \in Seq(Letter)
    BY <1>3, <1>6
  <2> QED  BY <1>5, <2>1, ConcatProperties
<1>8. Len(h) = k /\ Len(c) = Len(b) + 1
  BY <1>1, <1>2, <1>3, <1>4, <1>6, <1>7
<1>9. \A x \in 1..(k - 1) : b[x] = c[x]
  <2> TAKE x \in 1..(k - 1)
  <2>1. x \in 1..Len(h) + Len(g) /\ x <= Len(h) /\ x \in 1..Len(f) + Len(m) /\ x <= Len(f)
    BY <1>1, <1>2, <1>3, <1>4, <1>8
  <2> QED  BY <1>2, <1>6, <1>7, <2>1
<1>10. c[k] = e
  <2>1. k \in 1..Len(h) + Len(g) /\ k <= Len(h) /\ k \in 1..Len(f) + Len(m) /\ ~(k <= Len(f)) /\ k - Len(f) = 1
    BY <1>1, <1>2, <1>3, <1>4, <1>8
  <2> QED  BY <1>4, <1>6, <1>7, <2>1
<1>11. ASSUME NEW x \in k..Len(b) PROVE b[x] = c[x + 1]
  <2>1. x + 1 \in 1..Len(h) + Len(g) /\ ~(x + 1 <= Len(h)) /\ (x + 1) - Len(h) = x - k + 1
    BY <1>1, <1>3, <1>8
  <2>2. x - k + 1 \in 1..(Len(b) - k + 1) /\ k + (x - k + 1) - 1 = x
    BY <1>1
  <2>3. c[x + 1] = g[x - k + 1]
    BY <1>7, <2>1
  <2> QED  BY <1>3, <2>2, <2>3
<1> QED  BY <1>7, <1>8, <1>9, <1>10, <1>11 DEF c

(* An edit leaves out, replaces or inserts one letter. *)
LEMMA EditForms ==
    ASSUME NEW b \in Seq(Letter), NEW c \in Edits(b)
    PROVE  c \in Seq(Letter) /\ (Removed(b, c) \/ Replaced(b, c) \/ Inserted(b, c))
<1>1. Len(b) \in Nat /\ DOMAIN b = 1..Len(b)
  OBVIOUS
<1>2. ASSUME NEW k \in DOMAIN b, c = RemoveAt(b, k) PROVE c \in Seq(Letter) /\ Removed(b, c)
  <2>1. k \in 1..Len(b)
    BY <1>1
  <2>2. /\ c \in Seq(Letter) /\ Len(c) = Len(b) - 1
        /\ \A x \in 1..(k - 1) : b[x] = c[x]
        /\ \A x \in k..(Len(b) - 1) : b[x + 1] = c[x]
    BY <1>2, <2>1, RemoveGives
  <2> QED  BY <2>1, <2>2 DEF Removed
<1>3. ASSUME NEW k \in DOMAIN b, NEW e \in Spelling, c = ReplaceAt(b, k, e)
      PROVE  c \in Seq(Letter) /\ Replaced(b, c)
  <2>1. k \in 1..Len(b) /\ e \in Letter
    BY <1>1, SpellingIsOfLetters
  <2>2. /\ c \in Seq(Letter) /\ Len(c) = Len(b)
        /\ \A x \in 1..Len(b) : c[x] = IF x = k THEN e ELSE b[x]
    <3> DEFINE new == ReplaceAt(b, k, e)
    <3>1. /\ new \in Seq(Letter) /\ Len(new) = Len(b)
          /\ \A x \in 1..Len(b) : new[x] = IF x = k THEN e ELSE b[x]
      BY <2>1, ReplaceGives, ZenonT(30)
    <3>2. c = new
      BY <1>3
    <3> HIDE DEF new
    <3> QED  BY <3>1, <3>2
  <2> QED  BY <2>1, <2>2 DEF Replaced
<1>4. ASSUME NEW k \in 1..(Len(b) + 1), NEW e \in Spelling, c = InsertAt(b, k, e)
      PROVE  c \in Seq(Letter) /\ Inserted(b, c)
  BY <1>1, <1>4, InsertGives, SpellingIsOfLetters, ZenonT(30) DEF Inserted
<1>5. \/ \E k \in DOMAIN b : c = RemoveAt(b, k)
      \/ \E k \in DOMAIN b, e \in Spelling : c = ReplaceAt(b, k, e)
      \/ \E k \in 1..(Len(b) + 1), e \in Spelling : c = InsertAt(b, k, e)
  BY DEF Edits
<1> QED  BY <1>2, <1>3, <1>4, <1>5

(* One edit of the other name changes the distance to it by one at most.     *)
LEMMA EditCostsOne ==
    ASSUME NEW a, NEW b, NEW c, Len(a) \in Nat, Len(b) \in Nat, Len(c) \in Nat,
           NEW D, IsTable(D, a, b), NEW E, IsTable(E, a, c),
           Removed(b, c) \/ Replaced(b, c) \/ Inserted(b, c)
    PROVE  E[Len(a)][Len(c)] <= D[Len(a)][Len(b)] + 1
<1>1. ASSUME NEW k \in 1..(Len(b) + 1), k - 1 <= Len(c), \A x \in 1..(k - 1) : b[x] = c[x]
      PROVE  \A i \in 0..Len(a) : E[i][k - 1] <= D[i][k - 1]
  <2>1. \A i \in 0..Len(a) : E[i][0] <= D[i][0] + 0
    BY Edges
  <2>2. \A x \in 1..(k - 1) : b[0 + x] = c[0 + x]
    BY <1>1
  <2>3. 0 + (k - 1) <= Len(b) /\ 0 + (k - 1) <= Len(c) /\ 0 \in Nat /\ k - 1 \in Nat
    BY <1>1
  <2>4. \A i \in 0..Len(a), x \in 0..(k - 1) : E[i][0 + x] <= D[i][0 + x] + 0
    BY <2>1, <2>2, <2>3, LeadStays
  <2> TAKE i \in 0..Len(a)
  <2>5. k - 1 \in 0..(k - 1) /\ 0 + (k - 1) = k - 1 /\ k - 1 \in 0..Len(b)
    BY <1>1
  <2>6. E[i][k - 1] <= D[i][k - 1] + 0
    BY <2>4, <2>5
  <2>7. D[i][k - 1] \in Nat
    BY <2>5, Cells
  <2> QED  BY <2>6, <2>7
<1>2. ASSUME NEW p \in 0..Len(b), NEW q \in 0..Len(c), Len(b) - p = Len(c) - q,
             \A x \in 1..(Len(b) - p) : b[p + x] = c[q + x],
             \A i \in 0..Len(a) : E[i][q] <= D[i][p] + 1
      PROVE  E[Len(a)][Len(c)] <= D[Len(a)][Len(b)] + 1
  <2> DEFINE r == Len(b) - p
  <2>1. r \in Nat /\ p \in Nat /\ q \in Nat /\ p + r = Len(b) /\ q + r = Len(c) /\ 1 \in Nat
    BY <1>2
  <2>2. \A x \in 1..r : b[p + x] = c[q + x]
    BY <1>2
  <2> HIDE DEF r
  <2>3. \A i \in 0..Len(a), x \in 0..r : E[i][q + x] <= D[i][p + x] + 1
    <3>1. p + r <= Len(b) /\ q + r <= Len(c)
      BY <2>1
    <3> QED  BY <1>2, <2>1, <2>2, <3>1, LeadStays
  <2>4. r \in 0..r /\ Len(a) \in 0..Len(a)
    BY <2>1
  <2>5. E[Len(a)][q + r] <= D[Len(a)][p + r] + 1
    BY <2>3, <2>4
  <2> QED  BY <2>1, <2>5
<1>3. CASE Removed(b, c)
  <2>1. PICK k \in 1..Len(b) : /\ Len(c) = Len(b) - 1
                               /\ \A x \in 1..(k - 1) : b[x] = c[x]
                               /\ \A x \in k..Len(c) : b[x + 1] = c[x]
    BY <1>3 DEF Removed
  <2>2. k \in 0..Len(b) /\ k - 1 \in 0..Len(c) /\ Len(b) - k = Len(c) - (k - 1)
    BY <2>1
  <2>3. \A i \in 0..Len(a) : E[i][k - 1] <= D[i][k - 1]
    BY <1>1, <2>1, <2>2
  <2>4. \A x \in 1..(Len(b) - k) : b[k + x] = c[(k - 1) + x]
    <3> TAKE x \in 1..(Len(b) - k)
    <3>1. (k - 1) + x \in k..Len(c) /\ ((k - 1) + x) + 1 = k + x
      BY <2>1
    <3> QED  BY <2>1, <3>1
  <2> DEFINE Goods == {i \in 0..Len(a) : E[i][k - 1] <= D[i][k] + 1}
  <2>5. 0 \in Goods
    <3>1. E[0][k - 1] = k - 1 /\ D[0][k] = k
      BY <2>2, Edges
    <3> QED  BY <3>1
  <2>6. ASSUME NEW i \in 1..Len(a), i - 1 \in Goods PROVE i \in Goods
    <3> DEFINE d == D[i][k]
               dx == D[i - 1][k]
               dy == D[i][k - 1]
               dz == D[i - 1][k - 1]
               e == E[i][k - 1]
               ex == E[i - 1][k - 1]
               cost == Cost(a[i], b[k])
    <3>1. /\ d \in Nat /\ dx \in Nat /\ dy \in Nat /\ dz \in Nat /\ cost \in {0, 1}
          /\ d = dx + 1 \/ d = dy + 1 \/ d = dz + cost
      BY Cell
    <3>2. i \in 0..Len(a) /\ i - 1 \in 0..Len(a)
      OBVIOUS
    <3>3. e \in Nat /\ ex \in Nat /\ e <= ex + 1
      BY <2>2, <3>2, Cells, NextCell
    <3>4. ex <= dx + 1 /\ e <= dy /\ ex <= dz
      BY <2>3, <2>6, <3>2
    <3> HIDE DEF d, dx, dy, dz, e, ex, cost
    <3>5. e <= d + 1
      BY <3>1, <3>3, <3>4
    <3>6. E[i][k - 1] <= D[i][k] + 1
      BY <3>5 DEF d, e
    <3> QED  BY <3>2, <3>6
  <2>7. \A i \in 0..Len(a) : i \in Goods
    <3> HIDE DEF Goods
    <3> QED  BY <2>5, <2>6, ByInduction
  <2>8. \A i \in 0..Len(a) : E[i][k - 1] <= D[i][k] + 1
    BY <2>7
  <2> QED  BY <1>2, <2>2, <2>4, <2>8
<1>4. CASE Replaced(b, c)
  <2>1. PICK k \in 1..Len(b) : /\ Len(c) = Len(b)
                               /\ \A x \in 1..Len(b) : x # k => b[x] = c[x]
    BY <1>4 DEF Replaced
  <2>2. k \in 0..Len(b) /\ k \in 0..Len(c) /\ k - 1 <= Len(c) /\ k - 1 \in 0..Len(b) /\ k - 1 \in 0..Len(c)
    BY <2>1
  <2>3. \A i \in 0..Len(a) : E[i][k - 1] <= D[i][k - 1]
    <3>1. \A x \in 1..(k - 1) : b[x] = c[x]
      BY <2>1
    <3> QED  BY <1>1, <2>2, <3>1
  <2>4. \A x \in 1..(Len(b) - k) : b[k + x] = c[k + x]
    BY <2>1
  <2> DEFINE Goods == {i \in 0..Len(a) : E[i][k] <= D[i][k] + 1}
  <2>5. 0 \in Goods
    <3>1. E[0][k] = k /\ D[0][k] = k
      BY <2>2, Edges
    <3> QED  BY <3>1
  <2>6. ASSUME NEW i \in 1..Len(a), i - 1 \in Goods PROVE i \in Goods
    <3> DEFINE d == D[i][k]
               dx == D[i - 1][k]
               dy == D[i][k - 1]
               dz == D[i - 1][k - 1]
               e == E[i][k]
               ex == E[i - 1][k]
               ey == E[i][k - 1]
               ez == E[i - 1][k - 1]
               cost == Cost(a[i], b[k])
               other == Cost(a[i], c[k])
    <3>1. /\ d \in Nat /\ dx \in Nat /\ dy \in Nat /\ dz \in Nat /\ cost \in {0, 1}
          /\ d = dx + 1 \/ d = dy + 1 \/ d = dz + cost
      BY Cell
    <3>2. i \in 0..Len(a) /\ i - 1 \in 0..Len(a) /\ k \in 1..Len(c)
      BY <2>1
    <3>3. /\ e \in Nat /\ ex \in Nat /\ ey \in Nat /\ ez \in Nat /\ other \in {0, 1}
          /\ e <= ex + 1 /\ e <= ey + 1 /\ e <= ez + other
      BY <3>2, Cell
    <3>4. ex <= dx + 1 /\ ey <= dy /\ ez <= dz
      BY <2>3, <2>6, <3>2
    <3> HIDE DEF d, dx, dy, dz, e, ex, ey, ez, cost, other
    <3>5. e <= d + 1
      BY <3>1, <3>3, <3>4
    <3>6. E[i][k] <= D[i][k] + 1
      BY <3>5 DEF d, e
    <3> QED  BY <3>2, <3>6
  <2>7. \A i \in 0..Len(a) : i \in Goods
    <3> HIDE DEF Goods
    <3> QED  BY <2>5, <2>6, ByInduction
  <2>8. \A i \in 0..Len(a) : E[i][k] <= D[i][k] + 1
    BY <2>7
  <2> QED  BY <1>2, <2>1, <2>2, <2>4, <2>8
<1>5. CASE Inserted(b, c)
  <2>1. PICK k \in 1..(Len(b) + 1) : /\ Len(c) = Len(b) + 1
                                     /\ \A x \in 1..(k - 1) : b[x] = c[x]
                                     /\ \A x \in k..Len(b) : b[x] = c[x + 1]
    BY <1>5 DEF Inserted
  <2>2. k - 1 \in 0..Len(b) /\ k \in 1..Len(c) /\ k \in 0..Len(c) /\ Len(b) - (k - 1) = Len(c) - k /\ k - 1 <= Len(c)
        /\ k - 1 \in 0..Len(c)
    BY <2>1
  <2>3. \A i \in 0..Len(a) : E[i][k - 1] <= D[i][k - 1]
    BY <1>1, <2>1, <2>2
  <2>4. \A x \in 1..(Len(b) - (k - 1)) : b[(k - 1) + x] = c[k + x]
    <3> TAKE x \in 1..(Len(b) - (k - 1))
    <3>1. (k - 1) + x \in k..Len(b) /\ ((k - 1) + x) + 1 = k + x
      BY <2>1
    <3> QED  BY <2>1, <3>1
  <2>5. \A i \in 0..Len(a) : E[i][k] <= D[i][k - 1] + 1
    <3> TAKE i \in 0..Len(a)
    <3> DEFINE d == D[i][k - 1]
               e == E[i][k]
               ey == E[i][k - 1]
    <3>1. d \in Nat /\ e \in Nat /\ ey \in Nat /\ e <= ey + 1
      BY <2>2, Cells, NextCell
    <3>2. ey <= d
      BY <2>3
    <3> HIDE DEF d, e, ey
    <3>3. e <= d + 1
      BY <3>1, <3>2
    <3> QED  BY <3>3 DEF d, e
  <2> QED  BY <1>2, <2>2, <2>4, <2>5
<1> QED  BY <1>3, <1>4, <1>5

-----------------------------------------------------------------------------
(* Names: what several edits make. *)

(* Within(s) is what edits make of s, one after the other. *)
IsReach(R, s) ==
    /\ R \in [0..typoMaxDistance -> SUBSET Seq(Letter)]
    /\ R[0] = {s}
    /\ \A n \in 1..typoMaxDistance : R[n] = R[n - 1] \cup UNION {Edits(t) : t \in R[n - 1]}

(* Within is defined for every name and number of edits. *)
LEMMA WithinReaches ==
    ASSUME NEW s \in Seq(Letter)
    PROVE  IsReach(Within(s), s)
<1> DEFINE n == typoMaxDistance
           X == SUBSET Seq(Letter)
           Step(x) == x \cup UNION {Edits(t) : t \in x}
           F == [q \in X \X (1..n) |-> Step(q[1])]
<1>1. n \in Nat
  BY NameAssumption
<1>2. \A x \in X : Step(x) \in X
  BY EditForms
<1>3. \A x \in X, i \in 1..n : F[<<x, i>>] = Step(x)
  <2> HIDE DEF X, Step
  <2> QED  OBVIOUS
<1>4. PICK f : IsLoop(f, X, {s}, F, n)
  <2>1. {s} \in X
    OBVIOUS
  <2>2. StaysIn(X, F, n)
    <3> HIDE DEF X, F, Step, n
    <3> QED  BY <1>2, <1>3 DEF StaysIn
  <2> HIDE DEF X, F, n
  <2> QED  BY <1>1, <2>1, <2>2, LoopRuns
<1>5. f \in [0..n -> X] /\ f[0] = {s} /\ \A i \in 1..n : f[i] = Step(f[i - 1])
  <2> HIDE DEF X, F, Step, n
  <2>1. f \in [0..n -> X] /\ f[0] = {s}
    BY <1>4 DEF IsLoop
  <2>2. ASSUME NEW i \in 1..n PROVE f[i] = Step(f[i - 1])
    <3>1. f[i - 1] \in X
      BY <1>1, <2>1
    <3>2. f[i] = F[<<f[i - 1], i>>]
      BY <1>4 DEF IsLoop
    <3> QED  BY <1>3, <3>1, <3>2
  <2> QED  BY <2>1, <2>2
<1>6. Within(s) = f
  <2> DEFINE Loop(g) == [i \in 0 .. typoMaxDistance |->
                IF i = 0 THEN {s} ELSE g[i - 1] \cup UNION {Edits(t) : t \in g[i - 1]}]
             g == CHOOSE g : g = Loop(g)
  <2>1. f = Loop(f)
    <3>1. f = [i \in 0..n |-> IF i = 0 THEN {s} ELSE Step(f[i - 1])]
      <4> HIDE DEF X, Step, n
      <4> QED  BY <1>1, <1>5
    <3> QED  BY <3>1
  <2>2. g = Loop(g)
    <3> HIDE DEF Loop
    <3> QED  BY <2>1
  <2>3. g[0] = {s} /\ \A i \in 1..n : g[i] = Step(g[i - 1])
    <3>1. g = [i \in 0..n |-> IF i = 0 THEN {s} ELSE Step(g[i - 1])]
      BY <2>2
    <3> HIDE DEF g, Step, n
    <3>2. \A i \in 0..n : g[i] = IF i = 0 THEN {s} ELSE Step(g[i - 1])
      BY <3>1
    <3> QED  BY <1>1, <3>2
  <2>4. \A i \in 0..n : g[i] = f[i]
    <3>1. g[0] = f[0] /\ \A i \in 1..n : g[i - 1] = f[i - 1] => g[i] = f[i]
      <4> HIDE DEF g, Step, n
      <4> QED  BY <1>5, <2>3
    <3> HIDE DEF g, n
    <3> QED  BY <1>1, <3>1, LoopsAgree, SMTT(20)
  <2>5. g = f
    <3>1. Loop(g) = Loop(f)
      <4>1. \A i \in 1..n : g[i - 1] = f[i - 1]
        <5> HIDE DEF g, n
        <5> QED  BY <1>1, <2>4
      <4>2. \A i \in 0..n : (IF i = 0 THEN {s} ELSE Step(g[i - 1])) = (IF i = 0 THEN {s} ELSE Step(f[i - 1]))
        <5> HIDE DEF g, n, Step
        <5> QED  BY <1>1, <4>1
      <4> QED  BY <4>2
    <3> HIDE DEF Loop
    <3> QED  BY <2>1, <2>2, <3>1
  <2> QED  BY <2>5 DEF Within
<1> QED  BY <1>5, <1>6 DEF IsReach

(* What n edits make of a name is no further from it than n. *)
LEMMA ReachedIsNear ==
    ASSUME NEW s \in Seq(Letter), NEW n \in 0..typoMaxDistance, NEW t \in Within(s)[n],
           NEW D, IsTable(D, s, t)
    PROVE  t \in Seq(Letter) /\ D[Len(s)][Len(t)] <= n
<1> DEFINE R == Within(s)
           Near(k) == \A b \in R[k] : \E E : IsTable(E, s, b) /\ E[Len(s)][Len(b)] <= k
           Goods == {k \in 0..typoMaxDistance : Near(k)}
<1>1. typoMaxDistance \in Nat
  BY NameAssumption
<1>2. /\ \A k \in 0..typoMaxDistance : R[k] \subseteq Seq(Letter)
      /\ R[0] = {s}
      /\ \A k \in 1..typoMaxDistance : R[k] = R[k - 1] \cup UNION {Edits(b) : b \in R[k - 1]}
  BY WithinReaches DEF IsReach
<1> HIDE DEF R
<1>3. 0 \in Goods
  <2>1. PICK E : IsTable(E, s, s)
    <3>1. Len(s) \in Nat
      OBVIOUS
    <3>2. PICK E : IsRows(E, s, s)
      BY <3>1, RowsRun
    <3> QED  BY <3>1, <3>2, RowsAreTable
  <2> DEFINE Same == {i \in 0..Len(s) : E[i][i] = 0}
  <2>2. 0 \in Same
    <3>1. Len(s) \in Nat
      OBVIOUS
    <3> QED  BY <2>1, <3>1, Edges
  <2>3. ASSUME NEW i \in 1..Len(s), i - 1 \in Same PROVE i \in Same
    <3>1. Len(s) \in Nat
      OBVIOUS
    <3>2. E[i][i] \in Nat /\ E[i][i] <= E[i - 1][i - 1] + Cost(s[i], s[i])
      BY <2>1, <3>1, Cell
    <3>3. Cost(s[i], s[i]) = 0
      BY DEF Cost
    <3> QED  BY <2>3, <3>2, <3>3
  <2>4. \A i \in 0..Len(s) : i \in Same
    <3>1. Len(s) \in Nat
      OBVIOUS
    <3> HIDE DEF Same
    <3> QED  BY <2>2, <2>3, <3>1, ByInduction
  <2>5. E[Len(s)][Len(s)] <= 0
    BY <2>4
  <2> QED  BY <1>1, <1>2, <2>1, <2>5
<1>4. ASSUME NEW k \in 1..typoMaxDistance, k - 1 \in Goods PROVE k \in Goods
  <2> SUFFICES ASSUME NEW b \in R[k] PROVE \E E : IsTable(E, s, b) /\ E[Len(s)][Len(b)] <= k
    BY <1>1
  <2>1. k - 1 \in 0..typoMaxDistance
    BY <1>1
  <2>2. CASE b \in R[k - 1]
    <3>1. PICK E : IsTable(E, s, b) /\ E[Len(s)][Len(b)] <= k - 1
      BY <1>4, <2>2
    <3>2. E[Len(s)][Len(b)] \in Nat
      <4>1. b \in Seq(Letter)
        BY <1>2, <2>1, <2>2
      <4>2. Len(b) \in Nat /\ Len(s) \in Nat
        BY <4>1
      <4> QED  BY <3>1, <4>2, Cells
    <3> QED  BY <3>1, <3>2
  <2>3. CASE \E c \in R[k - 1] : b \in Edits(c)
    <3>1. PICK c \in R[k - 1] : b \in Edits(c)
      BY <2>3
    <3>2. c \in Seq(Letter)
      BY <1>2, <2>1
    <3>3. b \in Seq(Letter) /\ (Removed(c, b) \/ Replaced(c, b) \/ Inserted(c, b))
      BY <3>1, <3>2, EditForms
    <3>4. PICK B : IsTable(B, s, c) /\ B[Len(s)][Len(c)] <= k - 1
      BY <1>4
    <3>5. Len(s) \in Nat /\ Len(b) \in Nat /\ Len(c) \in Nat
      BY <3>2, <3>3
    <3>6. PICK E : IsTable(E, s, b)
      <4>1. PICK E : IsRows(E, s, b)
        BY <3>5, RowsRun
      <4> QED  BY <3>5, <4>1, RowsAreTable
    <3>7. E[Len(s)][Len(b)] <= B[Len(s)][Len(c)] + 1
      BY <3>3, <3>4, <3>5, <3>6, EditCostsOne
    <3>8. E[Len(s)][Len(b)] \in Nat /\ B[Len(s)][Len(c)] \in Nat
      BY <3>4, <3>5, <3>6, Cells
    <3>9. E[Len(s)][Len(b)] <= k
      <4> DEFINE e == E[Len(s)][Len(b)]
                 d == B[Len(s)][Len(c)]
      <4>1. e \in Nat /\ d \in Nat /\ e <= d + 1 /\ d <= k - 1
        BY <3>4, <3>7, <3>8
      <4> HIDE DEF e, d
      <4>2. e <= k
        BY <4>1
      <4> QED  BY <4>2 DEF e
    <3> QED  BY <3>6, <3>9
  <2> QED  BY <1>2, <2>2, <2>3
<1>5. \A k \in 0..typoMaxDistance : k \in Goods
  <2> HIDE DEF Goods
  <2> QED  BY <1>1, <1>3, <1>4, ByInduction
<1>6. t \in Seq(Letter)
  BY <1>2 DEF R
<1>7. PICK E : IsTable(E, s, t) /\ E[Len(s)][Len(t)] <= n
  BY <1>5 DEF R
<1>8. Len(s) \in Nat /\ Len(t) \in Nat
  BY <1>6
<1>9. D[Len(s)][Len(t)] <= E[Len(s)][Len(t)]
  BY <1>7, <1>8, OneDistance
<1>10. D[Len(s)][Len(t)] \in Nat /\ E[Len(s)][Len(t)] \in Nat
  BY <1>7, <1>8, Cells
<1> DEFINE d == D[Len(s)][Len(t)]
           e == E[Len(s)][Len(t)]
<1>11. d <= n
  <2>1. d \in Nat /\ e \in Nat /\ d <= e /\ e <= n
    BY <1>7, <1>9, <1>10
  <2> HIDE DEF d, e
  <2> QED  BY <2>1
<1> QED  BY <1>6, <1>11

(* An edit of a beginning is an edit of the whole. *)
LEMMA EditOfBeginning ==
    ASSUME NEW u \in Seq(Letter), NEW v \in Edits(u), NEW e \in Letter
    PROVE  Append(v, e) \in Edits(Append(u, e))
<1> DEFINE w == Append(u, e)
<1>1. /\ w \in Seq(Letter) /\ Len(w) = Len(u) + 1 /\ w[Len(u) + 1] = e
      /\ \A x \in 1..Len(u) : w[x] = u[x]
  BY AppendProperties
<1>2. Len(u) \in Nat /\ DOMAIN u = 1..Len(u) /\ DOMAIN w = 1..Len(w)
  BY <1>1
<1>3. v \in Seq(Letter)
  BY EditForms
<1> DEFINE z == Append(v, e)
<1>4. /\ z \in Seq(Letter) /\ Len(z) = Len(v) + 1 /\ z[Len(v) + 1] = e
      /\ \A x \in 1..Len(v) : z[x] = v[x]
  BY <1>3, AppendProperties
<1> HIDE DEF w, z
<1>5. ASSUME NEW k \in DOMAIN u, v = RemoveAt(u, k) PROVE z \in Edits(w)
  <2> DEFINE r == RemoveAt(w, k)
  <2>1. k \in 1..Len(u) /\ k \in 1..Len(w)
    BY <1>1, <1>2
  <2>2. /\ Len(v) = Len(u) - 1
        /\ \A x \in 1..(k - 1) : u[x] = v[x]
        /\ \A x \in k..(Len(u) - 1) : u[x + 1] = v[x]
    BY <1>5, <2>1, RemoveGives
  <2>3. /\ r \in Seq(Letter) /\ Len(r) = Len(w) - 1
        /\ \A x \in 1..(k - 1) : w[x] = r[x]
        /\ \A x \in k..(Len(w) - 1) : w[x + 1] = r[x]
    BY <1>1, <2>1, RemoveGives
  <2> HIDE DEF r
  <2>4. Len(r) = Len(z)
    BY <1>1, <1>2, <1>4, <2>2, <2>3
  <2>5. ASSUME NEW x \in 1..Len(r) PROVE r[x] = z[x]
    <3>1. x \in 1..Len(u)
      BY <1>1, <1>2, <2>3
    <3>2. CASE x \in 1..(k - 1)
      <4>1. x \in 1..Len(u) /\ x \in 1..Len(v)
        BY <1>2, <2>1, <2>2, <3>2
      <4> QED  BY <1>1, <1>4, <2>2, <2>3, <3>2, <4>1
    <3>3. CASE x \in k..(Len(u) - 1)
      <4>1. x \in k..(Len(w) - 1) /\ x + 1 \in 1..Len(u) /\ x \in 1..Len(v)
        BY <1>1, <1>2, <2>1, <2>2, <3>3
      <4> QED  BY <1>1, <1>4, <2>2, <2>3, <3>3, <4>1
    <3>4. CASE x = Len(u)
      <4>1. x \in k..(Len(w) - 1) /\ x + 1 = Len(u) + 1 /\ x = Len(v) + 1
        BY <1>1, <1>2, <2>1, <2>2, <3>4
      <4>2. r[x] = e
        BY <1>1, <2>3, <4>1
      <4>3. z[x] = e
        BY <1>4, <4>1
      <4> QED  BY <4>2, <4>3
    <3>5. x \in 1..(k - 1) \/ x \in k..(Len(u) - 1) \/ x = Len(u)
      <4> DEFINE n == Len(u)
      <4>1. n \in Nat /\ k \in 1..n /\ x \in 1..n
        BY <1>2, <2>1, <3>1
      <4> HIDE DEF n
      <4>2. x \in 1..(k - 1) \/ x \in k..(n - 1) \/ x = n
        BY <4>1
      <4> QED  BY <4>2 DEF n
    <3> QED  BY <3>2, <3>3, <3>4, <3>5
  <2>6. r = z
    BY <1>4, <2>3, <2>4, <2>5, SeqEqual
  <2> QED  BY <1>2, <2>1, <2>6 DEF Edits, r
<1>6. ASSUME NEW k \in DOMAIN u, NEW c \in Spelling, v = ReplaceAt(u, k, c) PROVE z \in Edits(w)
  <2> DEFINE r == ReplaceAt(w, k, c)
             t == ReplaceAt(u, k, c)
  <2>1. k \in 1..Len(u) /\ k \in 1..Len(w) /\ c \in Letter
    BY <1>1, <1>2, SpellingIsOfLetters
  <2>2. /\ t \in Seq(Letter) /\ Len(t) = Len(u)
        /\ \A x \in 1..Len(u) : t[x] = IF x = k THEN c ELSE u[x]
    <3>1. ASSUME NEW l \in 1..Len(u), NEW d \in Letter
          PROVE  /\ ReplaceAt(u, l, d) \in Seq(Letter) /\ Len(ReplaceAt(u, l, d)) = Len(u)
                 /\ \A x \in 1..Len(u) : ReplaceAt(u, l, d)[x] = IF x = l THEN d ELSE u[x]
      BY ReplaceGives
    <3> QED  BY <2>1, <3>1
  <2>3. /\ r \in Seq(Letter) /\ Len(r) = Len(w)
        /\ \A x \in 1..Len(w) : r[x] = IF x = k THEN c ELSE w[x]
    BY <1>1, <2>1, ReplaceGives, ZenonT(30)
  <2>4. v = t
    BY <1>6
  <2> HIDE DEF r, t
  <2>5. Len(r) = Len(z)
    BY <1>1, <1>2, <1>4, <2>2, <2>3, <2>4
  <2>6. ASSUME NEW x \in 1..Len(r) PROVE r[x] = z[x]
    <3>1. CASE x \in 1..Len(u)
      <4>1. x \in 1..Len(w) /\ x \in 1..Len(v)
        BY <1>1, <1>2, <2>2, <2>4, <3>1
      <4> QED  BY <1>1, <1>4, <2>2, <2>3, <2>4, <3>1, <4>1
    <3>2. CASE x = Len(u) + 1
      <4>1. x \in 1..Len(w) /\ x # k /\ x = Len(v) + 1
        BY <1>1, <1>2, <2>1, <2>2, <2>4, <3>2
      <4> QED  BY <1>1, <1>4, <2>3, <3>2, <4>1
    <3>3. x \in 1..Len(u) \/ x = Len(u) + 1
      BY <1>1, <1>2, <2>3
    <3> QED  BY <3>1, <3>2, <3>3
  <2>7. r = z
    BY <1>4, <2>3, <2>5, <2>6, SeqEqual
  <2> QED  BY <1>2, <2>1, <2>7 DEF Edits, r
<1>7. ASSUME NEW k \in 1..(Len(u) + 1), NEW c \in Spelling, v = InsertAt(u, k, c) PROVE z \in Edits(w)
  <2> DEFINE r == InsertAt(w, k, c)
             t == InsertAt(u, k, c)
  <2>1. k \in 1..(Len(w) + 1) /\ c \in Letter
    BY <1>1, <1>2, SpellingIsOfLetters
  <2>2. /\ Len(t) = Len(u) + 1 /\ t[k] = c
        /\ \A x \in 1..(k - 1) : u[x] = t[x]
        /\ \A x \in k..Len(u) : u[x] = t[x + 1]
    BY <2>1, InsertGives
  <2>3. /\ r \in Seq(Letter) /\ Len(r) = Len(w) + 1 /\ r[k] = c
        /\ \A x \in 1..(k - 1) : w[x] = r[x]
        /\ \A x \in k..Len(w) : w[x] = r[x + 1]
    BY <1>1, <2>1, InsertGives, ZenonT(30)
  <2>4. v = t
    BY <1>7
  <2> HIDE DEF r, t
  <2>5. Len(r) = Len(z)
    BY <1>1, <1>2, <1>4, <2>2, <2>3, <2>4
  <2>6. ASSUME NEW x \in 1..Len(r) PROVE r[x] = z[x]
    <3>1. CASE x \in 1..(k - 1)
      <4>1. x \in 1..Len(u) /\ x \in 1..Len(v)
        BY <1>2, <2>2, <2>4, <3>1
      <4> QED  BY <1>1, <1>4, <2>2, <2>3, <2>4, <3>1, <4>1
    <3>2. CASE x = k
      <4>1. x \in 1..Len(v)
        BY <1>2, <2>2, <2>4, <3>2
      <4> QED  BY <1>4, <2>2, <2>3, <2>4, <3>2, <4>1
    <3>3. CASE x - 1 \in k..Len(u)
      <4>1. x - 1 \in k..Len(w) /\ x - 1 \in 1..Len(u) /\ x \in 1..Len(v) /\ (x - 1) + 1 = x
        BY <1>1, <1>2, <2>2, <2>4, <3>3
      <4>2. r[x] = w[x - 1]
        BY <2>3, <4>1
      <4>3. z[x] = t[x]
        BY <1>4, <2>4, <4>1
      <4>4. t[x] = u[x - 1]
        BY <2>2, <3>3, <4>1
      <4> QED  BY <1>1, <4>1, <4>2, <4>3, <4>4
    <3>4. CASE x = Len(u) + 2
      <4>1. Len(w) \in k..Len(w) /\ Len(w) + 1 = x /\ Len(w) = Len(u) + 1 /\ x = Len(v) + 1
        BY <1>1, <1>2, <2>2, <2>4, <3>4
      <4>2. r[x] = e
        BY <1>1, <2>3, <4>1
      <4> QED  BY <1>4, <4>1, <4>2
    <3>5. x \in 1..(k - 1) \/ x = k \/ x - 1 \in k..Len(u) \/ x = Len(u) + 2
      BY <1>1, <1>2, <2>3
    <3> QED  BY <3>1, <3>2, <3>3, <3>4, <3>5
  <2>7. r = z
    BY <1>4, <2>3, <2>5, <2>6, SeqEqual
  <2> QED  BY <1>2, <2>1, <2>7 DEF Edits, r
<1>8. \/ \E k \in DOMAIN u : v = RemoveAt(u, k)
      \/ \E k \in DOMAIN u, c \in Spelling : v = ReplaceAt(u, k, c)
      \/ \E k \in 1..(Len(u) + 1), c \in Spelling : v = InsertAt(u, k, c)
  BY DEF Edits
<1>9. z \in Edits(w)
  BY <1>5, <1>6, <1>7, <1>8
<1> QED  BY <1>9 DEF w, z

(* The same edits make of a longer name what they make of its beginning,     *)
(* with the rest left alone.                                                 *)
LEMMA ReachGoesOn ==
    ASSUME NEW s \in Seq(Letter), NEW e \in Letter
    PROVE  \A n \in 0..typoMaxDistance : \A t \in Within(s)[n] : Append(t, e) \in Within(Append(s, e))[n]
<1> DEFINE R == Within(s)
           w == Append(s, e)
           Q == Within(w)
           Goods == {n \in 0..typoMaxDistance : \A t \in R[n] : Append(t, e) \in Q[n]}
<1>1. typoMaxDistance \in Nat /\ w \in Seq(Letter)
  BY NameAssumption, AppendProperties
<1>2. /\ \A k \in 0..typoMaxDistance : R[k] \subseteq Seq(Letter)
      /\ R[0] = {s}
      /\ \A k \in 1..typoMaxDistance : R[k] = R[k - 1] \cup UNION {Edits(b) : b \in R[k - 1]}
  BY WithinReaches DEF IsReach
<1>3. /\ Q[0] = {w}
      /\ \A k \in 1..typoMaxDistance : Q[k] = Q[k - 1] \cup UNION {Edits(b) : b \in Q[k - 1]}
  BY <1>1, WithinReaches DEF IsReach
<1> HIDE DEF R, Q
<1>4. 0 \in Goods
  <2>1. 0 \in 0..typoMaxDistance
    BY <1>1
  <2>2. \A t \in R[0] : t = s
    BY <1>2
  <2>3. w \in Q[0]
    <3> HIDE DEF w
    <3> QED  BY <1>3
  <2> QED  BY <2>1, <2>2, <2>3
<1>5. ASSUME NEW k \in 1..typoMaxDistance, k - 1 \in Goods PROVE k \in Goods
  <2> SUFFICES ASSUME NEW t \in R[k] PROVE Append(t, e) \in Q[k]
    BY <1>1
  <2>1. k - 1 \in 0..typoMaxDistance
    BY <1>1
  <2>2. CASE t \in R[k - 1]
    <3>1. Append(t, e) \in Q[k - 1]
      BY <1>5, <2>2
    <3> QED  BY <1>3, <3>1
  <2>3. CASE \E c \in R[k - 1] : t \in Edits(c)
    <3>1. PICK c \in R[k - 1] : t \in Edits(c)
      BY <2>3
    <3>2. c \in Seq(Letter)
      BY <1>2, <2>1
    <3>3. Append(c, e) \in Q[k - 1]
      BY <1>5
    <3>4. Append(t, e) \in Edits(Append(c, e))
      BY <3>1, <3>2, EditOfBeginning
    <3> QED  BY <1>3, <3>3, <3>4
  <2> QED  BY <1>2, <2>2, <2>3
<1>6. \A k \in 0..typoMaxDistance : k \in Goods
  <2> HIDE DEF Goods
  <2> QED  BY <1>1, <1>4, <1>5, ByInduction
<1> QED  BY <1>6 DEF R, Q

(* A letter is added or replaced at the end by one edit. *)
LEMMA LastEdits ==
    ASSUME NEW u \in Seq(Letter), NEW c \in Letter, NEW e \in Spelling
    PROVE  /\ Append(u, e) \in Edits(u)
           /\ Append(u, e) \in Edits(Append(u, c))
<1> DEFINE w == Append(u, c)
           z == Append(u, e)
<1>1. e \in Letter /\ Len(u) \in Nat
  BY SpellingIsOfLetters
<1>2. /\ w \in Seq(Letter) /\ Len(w) = Len(u) + 1
      /\ \A x \in 1..Len(u) : w[x] = u[x]
  BY AppendProperties
<1>3. /\ z \in Seq(Letter) /\ Len(z) = Len(u) + 1 /\ z[Len(u) + 1] = e
      /\ \A x \in 1..Len(u) : z[x] = u[x]
  BY <1>1, AppendProperties
<1> DEFINE k == Len(u) + 1
<1>4. k \in 1..(Len(u) + 1) /\ k \in 1..Len(w) /\ k \in DOMAIN w
  BY <1>1, <1>2
<1> HIDE DEF w, z
<1>5. z \in Edits(u)
  <2> DEFINE r == InsertAt(u, k, e)
  <2>1. /\ r \in Seq(Letter) /\ Len(r) = Len(u) + 1 /\ r[k] = e
        /\ \A x \in 1..(k - 1) : u[x] = r[x]
    BY <1>1, <1>4, InsertGives, ZenonT(30)
  <2> HIDE DEF r
  <2>2. \A x \in 1..Len(r) : r[x] = z[x]
    <3> TAKE x \in 1..Len(r)
    <3>1. (x \in 1..(k - 1) /\ x \in 1..Len(u)) \/ x = k
      BY <1>1, <2>1
    <3> QED  BY <1>3, <2>1, <3>1
  <2>3. r = z
    BY <1>3, <2>1, <2>2, SeqEqual
  <2> QED  BY <1>4, <2>3 DEF Edits, r
<1>6. z \in Edits(w)
  <2> DEFINE r == ReplaceAt(w, k, e)
  <2>1. /\ r \in Seq(Letter) /\ Len(r) = Len(w)
        /\ \A x \in 1..Len(w) : r[x] = IF x = k THEN e ELSE w[x]
    <3>1. ASSUME NEW l \in 1..Len(w), NEW d \in Letter
          PROVE  /\ ReplaceAt(w, l, d) \in Seq(Letter) /\ Len(ReplaceAt(w, l, d)) = Len(w)
                 /\ \A x \in 1..Len(w) : ReplaceAt(w, l, d)[x] = IF x = l THEN d ELSE w[x]
      BY <1>2, ReplaceGives, ZenonT(30)
    <3> QED  BY <1>1, <1>4, <3>1
  <2> HIDE DEF r
  <2>2. \A x \in 1..Len(r) : r[x] = z[x]
    <3> TAKE x \in 1..Len(r)
    <3>1. x \in 1..Len(w) /\ ((x \in 1..Len(u) /\ x # k) \/ x = k)
      BY <1>1, <1>2, <2>1
    <3> QED  BY <1>2, <1>3, <2>1, <3>1
  <2>3. r = z
    BY <1>2, <1>3, <2>1, <2>2, SeqEqual
  <2> QED  BY <1>4, <2>3 DEF Edits, r
<1> QED  BY <1>5, <1>6 DEF w, z

(* The last letter is left out by one edit. *)
LEMMA LastLeftOut ==
    ASSUME NEW u \in Seq(Letter), NEW c \in Letter
    PROVE  u \in Edits(Append(u, c))
<1> DEFINE w == Append(u, c)
           k == Len(u) + 1
<1>1. Len(u) \in Nat
  OBVIOUS
<1>2. /\ w \in Seq(Letter) /\ Len(w) = Len(u) + 1
      /\ \A x \in 1..Len(u) : w[x] = u[x]
  BY AppendProperties
<1>3. k \in 1..Len(w) /\ k \in DOMAIN w
  BY <1>1, <1>2
<1> HIDE DEF w
<1> DEFINE r == RemoveAt(w, k)
<1>4. /\ r \in Seq(Letter) /\ Len(r) = Len(w) - 1
      /\ \A x \in 1..(k - 1) : w[x] = r[x]
  BY <1>2, <1>3, RemoveGives
<1> HIDE DEF r
<1>5. Len(r) = Len(u) /\ \A x \in 1..Len(r) : r[x] = u[x]
  <2>1. Len(r) = Len(u)
    BY <1>1, <1>2, <1>4
  <2>2. \A x \in 1..Len(r) : x \in 1..(k - 1) /\ x \in 1..Len(u)
    BY <1>1, <2>1
  <2> QED  BY <1>2, <1>4, <2>1, <2>2
<1>6. r = u
  BY <1>4, <1>5, SeqEqual
<1>7. u \in Edits(w)
  BY <1>3, <1>6 DEF Edits, r
<1> QED  BY <1>7 DEF w

(* Within grows by one edit at a time. *)
LEMMA OneEditMore ==
    ASSUME NEW z \in Seq(Letter), NEW n \in 1..typoMaxDistance, NEW u \in Within(z)[n - 1],
           NEW v \in Edits(u)
    PROVE  v \in Within(z)[n]
BY WithinReaches DEF IsReach

(* Edits make names of letters. *)
LEMMA ReachTyped ==
    ASSUME NEW z \in Seq(Letter), NEW n \in 0..typoMaxDistance
    PROVE  Within(z)[n] \subseteq Seq(Letter)
BY WithinReaches DEF IsReach

(* What one edit of the last letter reaches. *)
LEMMA ReachByLastLetter ==
    ASSUME NEW z \in Seq(Letter), NEW n \in 1..typoMaxDistance, NEW u \in Within(z)[n - 1],
           NEW c \in Letter
    PROVE  /\ u \in Within(Append(z, c))[n]
           /\ \A e \in Spelling : Append(u, e) \in Within(z)[n] /\ Append(u, e) \in Within(Append(z, c))[n]
<1>1. typoMaxDistance \in Nat /\ n - 1 \in 0..typoMaxDistance
  BY NameAssumption
<1>2. u \in Seq(Letter)
  BY <1>1, ReachTyped
<1>3. Append(z, c) \in Seq(Letter)
  BY AppendProperties
<1>4. Append(u, c) \in Within(Append(z, c))[n - 1]
  BY <1>1, ReachGoesOn
<1>5. \A e \in Spelling : Append(u, e) \in Within(z)[n]
  BY <1>2, LastEdits, OneEditMore
<1>6. \A e \in Spelling : Append(u, e) \in Within(Append(z, c))[n]
  BY <1>2, <1>3, <1>4, LastEdits, OneEditMore
<1>7. u \in Within(Append(z, c))[n]
  <2>1. u \in Edits(Append(u, c))
    BY <1>2, LastLeftOut
  <2> QED  BY <1>3, <1>4, <2>1, OneEditMore
<1> QED  BY <1>5, <1>6, <1>7

(* A beginning is the one before it and one more letter. *)
LEMMA Grown ==
    ASSUME NEW s \in Seq(Letter), NEW i \in 0..Len(s)
    PROVE  /\ SubSeq(s, 1, i) \in Seq(Letter)
           /\ i = 0 => SubSeq(s, 1, i) = <<>>
           /\ i # 0 => s[i] \in Letter /\ SubSeq(s, 1, i) = Append(SubSeq(s, 1, i - 1), s[i])
<1>1. Len(s) \in Nat /\ i \in 0..Len(s) /\ \A k \in 1..Len(s) : s[k] \in Letter
  OBVIOUS
<1>2. \A k \in 0..Len(s) : SubSeq(s, 1, k) \in Seq(Letter)
  <2> TAKE k \in 0..Len(s)
  <2>1. k \in Int /\ \A x \in 1..k : s[x] \in Letter
    BY <1>1
  <2> QED  BY <2>1, SubSeqProperties
<1>3. CASE i = 0
  <2>1. SubSeq(s, 1, i) = <<>>
    BY <1>3, SubSeqEmpty
  <2> QED  BY <1>2, <1>3, <2>1
<1>4. CASE i # 0
  <2>1. i \in 1..Len(s) /\ i - 1 \in 0..Len(s) /\ 1 \in 1..Len(s)
    BY <1>1, <1>4
  <2>2. SubSeq(s, 1, i) = SubSeq(s, 1, i - 1) \o <<s[i]>>
    BY <2>1, SubSeqRecursiveSecond
  <2>3. SubSeq(s, 1, i - 1) \in Seq(Letter) /\ s[i] \in Letter
    BY <1>1, <1>2, <2>1
  <2>4. Append(SubSeq(s, 1, i - 1), s[i]) = SubSeq(s, 1, i - 1) \o <<s[i]>>
    BY <2>3, AppendIsConcat
  <2> QED  BY <1>2, <1>4, <2>2, <2>3, <2>4
<1> QED  BY <1>3, <1>4

(* A name within the distance is reached by as many edits, if it is spelled  *)
(* as the listed names are.                                                  *)
LEMMA NearIsReached ==
    ASSUME NEW s \in Seq(Letter), NEW t \in Seq(Letter),
           \A j \in 1..Len(t) : t[j] \in Spelling,
           NEW D, IsTable(D, s, t), D[Len(s)][Len(t)] <= typoMaxDistance
    PROVE  t \in Within(s)[D[Len(s)][Len(t)]]
<1> DEFINE A(i) == SubSeq(s, 1, i)
           B(j) == SubSeq(t, 1, j)
           m == typoMaxDistance
           Ok(i, j) == D[i][j] <= m => B(j) \in Within(A(i))[D[i][j]]
           G == {q \in (0..Len(s)) \X (0..Len(t)) : Ok(q[1], q[2])}
<1>1. m \in Nat /\ Len(s) \in Nat /\ Len(t) \in Nat
  BY NameAssumption
<1>2. \A i \in 0..Len(s), j \in 0..Len(t) : <<i, j>> \in G <=> Ok(i, j)
  OBVIOUS
<1>3. /\ \A i \in 0..Len(s) : A(i) \in Seq(Letter)
      /\ \A j \in 0..Len(t) : B(j) \in Seq(Letter)
      /\ A(0) = <<>> /\ B(0) = <<>>
      /\ \A i \in 1..Len(s) : A(i) = Append(A(i - 1), s[i]) /\ s[i] \in Letter
      /\ \A j \in 1..Len(t) : B(j) = Append(B(j - 1), t[j]) /\ t[j] \in Letter /\ t[j] \in Spelling
  <2>1. \A i \in 1..Len(s) : i \in 0..Len(s) /\ i # 0
    BY <1>1
  <2>2. \A j \in 1..Len(t) : j \in 0..Len(t) /\ j # 0
    BY <1>1
  <2>3. 0 \in 0..Len(s) /\ 0 \in 0..Len(t)
    BY <1>1
  <2> QED  BY <2>1, <2>2, <2>3, Grown
<1>4. \A i \in 0..Len(s), j \in 0..Len(t) : D[i][j] \in Nat
  BY <1>1, Cells
<1> HIDE DEF G, A, B, Ok
<1>5. \A j \in 0..Len(t) : <<0, j>> \in G
  <2> DEFINE Goods == {j \in 0..Len(t) : Ok(0, j)}
  <2>1. 0 \in 0..Len(s) /\ \A j \in 0..Len(t) : D[0][j] = j
    BY <1>1, Edges
  <2>2. Within(<<>>)[0] = {<<>>}
    <3>1. <<>> \in Seq(Letter)
      OBVIOUS
    <3> QED  BY <3>1, WithinReaches DEF IsReach
  <2>3. 0 \in Goods
    <3>1. 0 \in 0..Len(t)
      BY <1>1
    <3>2. D[0][0] = 0
      BY <2>1, <3>1
    <3>3. <<>> \in Within(<<>>)[0]
      BY <2>2
    <3>4. B(0) \in Within(A(0))[0]
      BY <1>3, <3>3
    <3> QED  BY <3>1, <3>2, <3>4 DEF Ok
  <2>4. ASSUME NEW j \in 1..Len(t), j - 1 \in Goods PROVE j \in Goods
    <3>1. j \in 0..Len(t) /\ j - 1 \in 0..Len(t)
      BY <1>1
    <3>2. D[0][j] = j /\ D[0][j - 1] = j - 1
      BY <2>1, <3>1
    <3>3. SUFFICES ASSUME j <= m PROVE B(j) \in Within(A(0))[j]
      BY <3>1, <3>2 DEF Ok
    <3>4. j \in 1..m /\ j - 1 <= m
      BY <1>1, <3>3
    <3>5. B(j - 1) \in Within(A(0))[j - 1]
      BY <2>4, <3>2, <3>4 DEF Ok
    <3>6. A(0) \in Seq(Letter) /\ t[j] \in Letter /\ t[j] \in Spelling /\ B(j) = Append(B(j - 1), t[j])
      BY <1>3, <2>1
    <3> QED  BY <3>4, <3>5, <3>6, ReachByLastLetter
  <2>5. \A j \in 0..Len(t) : j \in Goods
    <3> HIDE DEF Goods
    <3> QED  BY <1>1, <2>3, <2>4, ByInduction
  <2> QED  BY <1>2, <2>1, <2>5
<1>6. \A i \in 1..Len(s) : <<i, 0>> \in G
  <2> DEFINE Goods == {i \in 0..Len(s) : Ok(i, 0)}
  <2>1. 0 \in 0..Len(t) /\ \A i \in 0..Len(s) : D[i][0] = i
    BY <1>1, Edges
  <2>2. 0 \in Goods
    <3>1. 0 \in 0..Len(s)
      BY <1>1
    <3> QED  BY <1>2, <1>5, <2>1, <3>1
  <2>3. ASSUME NEW i \in 1..Len(s), i - 1 \in Goods PROVE i \in Goods
    <3>1. i \in 0..Len(s) /\ i - 1 \in 0..Len(s)
      BY <1>1
    <3>2. D[i][0] = i /\ D[i - 1][0] = i - 1
      BY <2>1, <3>1
    <3>3. SUFFICES ASSUME i <= m PROVE B(0) \in Within(A(i))[i]
      BY <3>1, <3>2 DEF Ok
    <3>4. i \in 1..m /\ i - 1 <= m
      BY <1>1, <3>3
    <3>5. B(0) \in Within(A(i - 1))[i - 1]
      BY <2>3, <3>2, <3>4 DEF Ok
    <3>6. A(i - 1) \in Seq(Letter) /\ s[i] \in Letter /\ A(i) = Append(A(i - 1), s[i])
      BY <1>3, <3>1
    <3> QED  BY <3>4, <3>5, <3>6, ReachByLastLetter
  <2>4. \A i \in 0..Len(s) : i \in Goods
    <3> HIDE DEF Goods
    <3> QED  BY <1>1, <2>2, <2>3, ByInduction
  <2>5. \A i \in 1..Len(s) : i \in 0..Len(s)
    BY <1>1
  <2> QED  BY <1>2, <2>1, <2>4, <2>5
<1>7. ASSUME NEW i \in 1..Len(s), NEW j \in 1..Len(t),
             <<i - 1, j>> \in G, <<i, j - 1>> \in G, <<i - 1, j - 1>> \in G
      PROVE  <<i, j>> \in G
  <2> DEFINE d == D[i][j]
             x == D[i - 1][j]
             y == D[i][j - 1]
             z == D[i - 1][j - 1]
             c == Cost(s[i], t[j])
  <2>1. i \in 0..Len(s) /\ i - 1 \in 0..Len(s) /\ j \in 0..Len(t) /\ j - 1 \in 0..Len(t)
    BY <1>1
  <2>2. /\ d \in Nat /\ x \in Nat /\ y \in Nat /\ z \in Nat /\ c \in {0, 1}
        /\ d = x + 1 \/ d = y + 1 \/ d = z + c
    BY <1>1, Cell
  <2>3. /\ x <= m => B(j) \in Within(A(i - 1))[x]
        /\ y <= m => B(j - 1) \in Within(A(i))[y]
        /\ z <= m => B(j - 1) \in Within(A(i - 1))[z]
    BY <1>2, <1>7, <2>1 DEF Ok
  <2>4. /\ A(i) \in Seq(Letter) /\ A(i - 1) \in Seq(Letter)
        /\ A(i) = Append(A(i - 1), s[i]) /\ s[i] \in Letter
        /\ B(j) = Append(B(j - 1), t[j]) /\ t[j] \in Letter /\ t[j] \in Spelling
    BY <1>3, <2>1
  <2>5. c = 0 => s[i] = t[j]
    BY DEF Cost
  <2>6. SUFFICES ASSUME d <= m PROVE B(j) \in Within(A(i))[d]
    BY <1>2, <2>1 DEF Ok
  <2> HIDE DEF d, x, y, z, c
  <2>7. CASE d = x + 1
    <3>1. d \in 1..m /\ x = d - 1 /\ x <= m
      BY <1>1, <2>2, <2>6, <2>7
    <3> QED  BY <2>3, <2>4, <3>1, ReachByLastLetter
  <2>8. CASE d = y + 1
    <3>1. d \in 1..m /\ y = d - 1 /\ y <= m
      BY <1>1, <2>2, <2>6, <2>8
    <3> QED  BY <2>3, <2>4, <3>1, ReachByLastLetter
  <2>9. CASE d = z + c /\ c = 1
    <3>1. d \in 1..m /\ z = d - 1 /\ z <= m
      BY <1>1, <2>2, <2>6, <2>9
    <3> QED  BY <2>3, <2>4, <3>1, ReachByLastLetter
  <2>10. CASE d = z + c /\ c = 0
    <3>1. d = z /\ z <= m /\ z \in 0..m /\ s[i] = t[j]
      BY <1>1, <2>2, <2>5, <2>6, <2>10
    <3> QED  BY <2>3, <2>4, <3>1, ReachGoesOn
  <2> QED  BY <2>2, <2>7, <2>8, <2>9, <2>10
<1>8. \A i \in 0..Len(s), j \in 0..Len(t) : <<i, j>> \in G
  BY <1>1, <1>5, <1>6, <1>7, ByGrid
<1>9. Ok(Len(s), Len(t))
  <2>1. Len(s) \in 0..Len(s) /\ Len(t) \in 0..Len(t)
    BY <1>1
  <2> QED  BY <1>2, <1>8, <2>1
<1>10. A(Len(s)) = s /\ B(Len(t)) = t
  BY SubSeqFull DEF A, B
<1> QED  BY <1>9, <1>10 DEF Ok

(* Levenshtein counts the edits that make one name of the other: so many,    *)
(* and no fewer.                                                             *)
THEOREM LevenshteinCountsEdits ==
    ASSUME NEW a \in Seq(Letter), NEW b \in Seq(Letter)
    PROVE  /\ Levenshtein(a, b) \in Nat
           /\ Len(a) - Len(b) <= Levenshtein(a, b) /\ Len(b) - Len(a) <= Levenshtein(a, b)
           /\ \A n \in 0..typoMaxDistance :
                 toLower(b) \in Within(toLower(a))[n] => Levenshtein(a, b) <= n
           /\ Levenshtein(a, b) <= typoMaxDistance /\ (\A j \in 1..Len(b) : toLower(b)[j] \in Spelling)
                 => toLower(b) \in Within(toLower(a))[Levenshtein(a, b)]
<1> DEFINE s == toLower(a)
           t == toLower(b)
<1>1. PICK D : IsTable(D, s, t) /\ Levenshtein(a, b) = D[Len(a)][Len(b)]
  BY LevenshteinIsTable
<1>2. s \in Seq(Letter) /\ t \in Seq(Letter) /\ Len(s) = Len(a) /\ Len(t) = Len(b)
  BY LoweredLength
<1> HIDE DEF s, t
<1>3. Len(s) \in Nat /\ Len(t) \in Nat
  BY <1>2
<1>4. Levenshtein(a, b) = D[Len(s)][Len(t)]
  BY <1>1, <1>2
<1>5. Len(s) \in 0..Len(s) /\ Len(t) \in 0..Len(t)
  BY <1>3
<1>6. /\ D[Len(s)][Len(t)] \in Nat
      /\ Len(s) - Len(t) <= D[Len(s)][Len(t)] /\ Len(t) - Len(s) <= D[Len(s)][Len(t)]
  BY <1>1, <1>3, <1>5, Cells, FarAsLengths
<1>7. \A n \in 0..typoMaxDistance : t \in Within(s)[n] => D[Len(s)][Len(t)] <= n
  BY <1>1, <1>2, ReachedIsNear
<1>8. D[Len(s)][Len(t)] <= typoMaxDistance /\ (\A j \in 1..Len(t) : t[j] \in Spelling)
         => t \in Within(s)[D[Len(s)][Len(t)]]
  BY <1>1, <1>2, NearIsReached
<1> QED  BY <1>2, <1>4, <1>6, <1>7, <1>8 DEF s, t

-----------------------------------------------------------------------------
(* Names: the second pass of closestPopularMatch. *)

(* The name of a path is spelled with letters. *)
LEMMA NameOfPath ==
    ASSUME NEW p, IsPath(p)
    PROVE  BaseName(p) \in Seq(Letter)
BY DEF IsPath, BaseName, Last

(* The list of well-known modules, by its positions. *)
LEMMA ListedPaths ==
    /\ Len(popularModules) \in Nat /\ DOMAIN popularModules = 1..Len(popularModules)
    /\ \A i \in 1..Len(popularModules) : IsPath(popularModules[i]) /\ popularModules[i] \in listed
    /\ \A p \in listed : \E i \in 1..Len(popularModules) : p = popularModules[i]
BY NameAssumption DEF listed, IsPath

(* What the second pass looks for: a listed module whose name is worthwhile, *)
(* within the edits allowed of the name, and below the starting value.       *)
Suits(name, p) ==
    /\ Worthwhile(BaseName(p)) /\ Levenshtein(name, BaseName(p)) <= Allowed(name, BaseName(p))
    /\ Levenshtein(name, BaseName(p)) <= typoMaxDistance

(* The loop over the list finds one that suits and is not further than       *)
(* others.                                                                   *)
LEMMA SecondPass ==
    ASSUME NEW name \in Seq(Letter)
    PROVE  LET found == NearestName(name).path
               suiting == {p \in listed : Suits(name, p)}
           IN  IF suiting = {} THEN found = <<>>
               ELSE /\ found \in suiting
                    /\ \A p \in suiting :
                          Levenshtein(name, BaseName(found)) <= Levenshtein(name, BaseName(p))
<1> DEFINE n == Len(popularModules)
           L == popularModules
           d(p) == Levenshtein(name, BaseName(p))
           X == [path : listed \cup {<<>>}, dist : Nat]
           none == [path |-> <<>>, dist |-> typoMaxDistance + 1]
           Step(x, i) == NearerName(x, L[i], name)
           F == [q \in X \X (1..n) |-> Step(q[1], q[2])]
<1>1. n \in Nat /\ typoMaxDistance \in Nat
  BY ListedPaths, NameAssumption
<1>2. \A i \in 1..n : /\ L[i] \in listed /\ d(L[i]) \in Nat
                      /\ Suits(name, L[i]) => InLength(name, BaseName(L[i]))
  <2> TAKE i \in 1..n
  <2>1. L[i] \in listed /\ BaseName(L[i]) \in Seq(Letter)
    BY ListedPaths, NameOfPath
  <2> DEFINE other == BaseName(L[i])
             e == Levenshtein(name, other)
  <2>2. e \in Nat /\ Len(name) - Len(other) <= e /\ Len(other) - Len(name) <= e
    BY <2>1, LevenshteinCountsEdits
  <2>3. Len(name) \in Nat /\ Len(other) \in Nat
    BY <2>1
  <2>4. Suits(name, L[i]) => e <= typoMaxDistance
    BY DEF Suits
  <2> HIDE DEF other, e
  <2>5. e <= typoMaxDistance => InLength(name, other)
    BY <1>1, <2>2, <2>3 DEF InLength
  <2> QED  BY <2>1, <2>2, <2>4, <2>5 DEF other, e
<1>3. \A x \in X, i \in 1..n :
         Step(x, i) = IF /\ Worthwhile(BaseName(L[i])) /\ InLength(name, BaseName(L[i]))
                         /\ d(L[i]) <= Allowed(name, BaseName(L[i])) /\ d(L[i]) < x.dist
                      THEN [path |-> L[i], dist |-> d(L[i])] ELSE x
  BY DEF NearerName
<1>4. \A x \in X, i \in 1..n : Step(x, i) \in X
  <2> TAKE x \in X, i \in 1..n
  <2>1. L[i] \in listed /\ d(L[i]) \in Nat
    BY <1>2
  <2>2. [path |-> L[i], dist |-> d(L[i])] \in X
    <3> HIDE DEF d
    <3> QED  BY <2>1
  <2> HIDE DEF X, Step, d
  <2> QED  BY <1>3, <2>2
<1>5. \A x \in X, i \in 1..n : F[<<x, i>>] = Step(x, i)
  <2> HIDE DEF X, Step
  <2> QED  OBVIOUS
<1>6. none \in X
  BY <1>1
<1>7. PICK f : IsLoop(f, X, none, F, n)
  <2>1. StaysIn(X, F, n)
    <3> HIDE DEF X, F, Step, n
    <3> QED  BY <1>4, <1>5 DEF StaysIn
  <2> HIDE DEF X, F, n, none
  <2> QED  BY <1>1, <1>6, <2>1, LoopRuns
<1>8. f[0] = none /\ \A i \in 1..n : f[i] = Step(f[i - 1], i) /\ f[i - 1] \in X
  <2> HIDE DEF X, F, Step, n, none
  <2>1. f \in [0..n -> X] /\ f[0] = none
    BY <1>7 DEF IsLoop
  <2>2. ASSUME NEW i \in 1..n PROVE f[i] = Step(f[i - 1], i) /\ f[i - 1] \in X
    <3>1. f[i - 1] \in X
      BY <1>1, <2>1
    <3>2. f[i] = F[<<f[i - 1], i>>]
      BY <1>7 DEF IsLoop
    <3> QED  BY <1>5, <3>1, <3>2
  <2> QED  BY <2>1, <2>2
<1>9. NearestName(name) = f[n]
  <2> DEFINE Loop(g) == [i \in 0 .. Len(popularModules) |->
                IF i = 0 THEN [path |-> <<>>, dist |-> typoMaxDistance + 1]
                ELSE NearerName(g[i - 1], popularModules[i], name)]
             g == CHOOSE g : g = Loop(g)
  <2>1. f = Loop(f)
    <3>1. f = [i \in 0..n |-> IF i = 0 THEN none ELSE Step(f[i - 1], i)]
      <4>1. f \in [0..n -> X]
        <5> HIDE DEF X, F, n, none
        <5> QED  BY <1>7 DEF IsLoop
      <4> HIDE DEF X, Step, n, none
      <4> QED  BY <1>1, <1>8, <4>1
    <3> QED  BY <3>1
  <2>2. g = Loop(g)
    <3> HIDE DEF Loop
    <3> QED  BY <2>1
  <2>3. g[0] = none /\ \A i \in 1..n : g[i] = Step(g[i - 1], i)
    <3>1. g = [i \in 0..n |-> IF i = 0 THEN none ELSE Step(g[i - 1], i)]
      BY <2>2
    <3> HIDE DEF g, Step, n, none
    <3>2. \A i \in 0..n : g[i] = IF i = 0 THEN none ELSE Step(g[i - 1], i)
      BY <3>1
    <3> QED  BY <1>1, <3>2
  <2>4. \A i \in 0..n : g[i] = f[i]
    <3>1. g[0] = f[0] /\ \A i \in 1..n : g[i - 1] = f[i - 1] => g[i] = f[i]
      <4> HIDE DEF g, Step, n, none
      <4> QED  BY <1>8, <2>3
    <3> HIDE DEF g, n
    <3> QED  BY <1>1, <3>1, LoopsAgree, SMTT(20)
  <2>5. g[n] = f[n]
    <3> HIDE DEF g, n
    <3> QED  BY <1>1, <2>4
  <2> QED  BY <2>5 DEF NearestName
<1> DEFINE suits(k) == Suits(name, L[k])
           Good(i) == /\ (\A k \in 1..i : ~suits(k)) => f[i] = none
                      /\ (\E k \in 1..i : suits(k)) =>
                            /\ \E k \in 1..i : suits(k) /\ f[i] = [path |-> L[k], dist |-> d(L[k])]
                            /\ \A k \in 1..i : suits(k) => f[i].dist <= d(L[k])
           Goods == {i \in 0..n : Good(i)}
<1>10. 0 \in Goods
  <2>1. 1..0 = {} /\ 0 \in 0..n
    BY <1>1
  <2> HIDE DEF none, suits, d
  <2> QED  BY <1>8, <2>1
<1>11. ASSUME NEW i \in 1..n, i - 1 \in Goods PROVE i \in Goods
  <2> DEFINE x == f[i - 1]
             new == [path |-> L[i], dist |-> d(L[i])]
  <2>1. x \in X /\ f[i] = Step(x, i) /\ d(L[i]) \in Nat
    BY <1>2, <1>8
  <2>2. x.dist \in Nat /\ x.dist <= typoMaxDistance + 1
    <3>1. x.dist \in Nat
      BY <2>1
    <3>2. CASE \A k \in 1..(i - 1) : ~suits(k)
      <4>1. x = none
        BY <1>11, <3>2
      <4> QED  BY <1>1, <4>1
    <3>3. CASE \E k \in 1..(i - 1) : suits(k)
      <4>1. PICK k \in 1..(i - 1) : suits(k) /\ x = [path |-> L[k], dist |-> d(L[k])]
        BY <1>11, <3>3
      <4>2. d(L[k]) <= typoMaxDistance /\ x.dist = d(L[k])
        BY <4>1 DEF Suits
      <4> HIDE DEF x, d, suits
      <4> QED  BY <1>1, <3>1, <4>2
    <3> QED  BY <3>1, <3>2, <3>3
  <2>3. f[i] = IF suits(i) /\ d(L[i]) < x.dist THEN new ELSE x
    <3> DEFINE e == d(L[i])
               y == x.dist
               within == Worthwhile(BaseName(L[i])) /\ e <= Allowed(name, BaseName(L[i]))
               long == InLength(name, BaseName(L[i]))
    <3>1. f[i] = IF within /\ long /\ e < y THEN new ELSE x
      BY <1>3, <2>1
    <3>2. suits(i) = (within /\ e <= typoMaxDistance) /\ (suits(i) => long)
      BY <1>2 DEF Suits
    <3>3. e < y => e <= typoMaxDistance
      <4> HIDE DEF e, y
      <4>1. e \in Nat /\ y \in Nat /\ y <= typoMaxDistance + 1
        BY <2>1, <2>2 DEF e, y
      <4> QED  BY <1>1, <4>1
    <3>4. f[i] = IF suits(i) /\ e < y THEN new ELSE x
      <4> HIDE DEF e, y, within, long, new, x, suits
      <4> QED  BY <3>1, <3>2, <3>3
    <3> QED  BY <3>4
  <2>4. 1..i = 1..(i - 1) \cup {i} /\ i \in 0..n
    BY <1>1
  <2>5. /\ (\A k \in 1..(i - 1) : ~suits(k)) => x = none
        /\ (\E k \in 1..(i - 1) : suits(k)) =>
              /\ \E k \in 1..(i - 1) : suits(k) /\ x = [path |-> L[k], dist |-> d(L[k])]
              /\ \A k \in 1..(i - 1) : suits(k) => x.dist <= d(L[k])
    BY <1>11
  <2>6. new.dist = d(L[i]) /\ none.dist = typoMaxDistance + 1 /\ (suits(i) => d(L[i]) <= typoMaxDistance)
    BY DEF Suits
  <2>7. \A k \in 1..(i - 1) : d(L[k]) \in Nat
    BY <1>1, <1>2
  <2> HIDE DEF none, x, new
  <2>8. CASE ~suits(i)
    <3>1. f[i] = x
      BY <2>3, <2>8
    <3> HIDE DEF suits, d
    <3> QED  BY <2>4, <2>5, <2>8, <3>1
  <2>9. CASE suits(i) /\ \A k \in 1..(i - 1) : ~suits(k)
    <3>1. x = none
      BY <2>5, <2>9
    <3>2. d(L[i]) < x.dist
      <4> DEFINE e == d(L[i])
      <4>1. e \in Nat /\ e <= typoMaxDistance /\ x.dist = typoMaxDistance + 1
        BY <2>1, <2>6, <2>9, <3>1
      <4> HIDE DEF e
      <4>2. e < x.dist
        BY <1>1, <4>1
      <4> QED  BY <4>2 DEF e
    <3>3. f[i] = new
      BY <2>3, <2>9, <3>2
    <3>4. \A k \in 1..i : suits(k) => f[i].dist <= d(L[k])
      <4>1. \A k \in 1..i : suits(k) => k = i
        <5> HIDE DEF suits
        <5> QED  BY <2>4, <2>9
      <4>2. f[i].dist = d(L[i])
        BY <2>6, <3>3
      <4>3. d(L[i]) <= d(L[i])
        <5> HIDE DEF d
        <5> QED  BY <2>1
      <4> HIDE DEF suits, d
      <4> QED  BY <4>1, <4>2, <4>3
    <3>5. \E k \in 1..i : suits(k) /\ f[i] = [path |-> L[k], dist |-> d(L[k])]
      BY <2>4, <2>9, <3>3 DEF new
    <3>6. Good(i)
      <4> HIDE DEF suits, d
      <4> QED  BY <2>4, <2>9, <3>4, <3>5
    <3> HIDE DEF Good
    <3> QED  BY <2>4, <3>6
  <2>10. CASE suits(i) /\ \E k \in 1..(i - 1) : suits(k)
    <3>1. PICK k \in 1..(i - 1) : suits(k) /\ x = [path |-> L[k], dist |-> d(L[k])]
      BY <2>5, <2>10
    <3>2. \A l \in 1..(i - 1) : suits(l) => x.dist <= d(L[l])
      BY <2>5, <2>10
    <3>3. CASE d(L[i]) < x.dist
      <4>1. f[i] = new
        BY <2>3, <2>10, <3>3
      <4>2. \A l \in 1..i : suits(l) => f[i].dist <= d(L[l])
        <5>1. f[i].dist = d(L[i])
          BY <2>6, <4>1
        <5> HIDE DEF suits, d
        <5>2. ASSUME NEW l \in 1..i, suits(l) PROVE d(L[i]) <= d(L[l])
          <6>1. CASE l = i
            BY <2>1, <6>1
          <6>2. CASE l \in 1..(i - 1)
            <7>1. x.dist <= d(L[l]) /\ d(L[l]) \in Nat
              BY <2>7, <3>2, <5>2, <6>2
            <7> QED  BY <2>1, <2>2, <3>3, <7>1
          <6> QED  BY <2>4, <6>1, <6>2
        <5> QED  BY <5>1, <5>2
      <4>3. \E l \in 1..i : suits(l) /\ f[i] = [path |-> L[l], dist |-> d(L[l])]
        BY <2>4, <2>10, <4>1 DEF new
      <4>4. Good(i)
        <5> HIDE DEF suits, d
        <5> QED  BY <2>4, <2>10, <4>2, <4>3
      <4> HIDE DEF Good
      <4> QED  BY <2>4, <4>4
    <3>4. CASE ~(d(L[i]) < x.dist)
      <4>1. f[i] = x
        BY <2>3, <3>4
      <4>2. x.dist <= d(L[i])
        <5> HIDE DEF d
        <5> QED  BY <2>1, <2>2, <3>4
      <4>3. \A l \in 1..i : suits(l) => f[i].dist <= d(L[l])
        <5> HIDE DEF suits, d
        <5> QED  BY <2>4, <3>2, <4>1, <4>2
      <4>4. \E l \in 1..i : suits(l) /\ f[i] = [path |-> L[l], dist |-> d(L[l])]
        <5> HIDE DEF suits, d
        <5> QED  BY <2>4, <3>1, <4>1
      <4>5. Good(i)
        <5> HIDE DEF suits, d
        <5> QED  BY <2>4, <2>10, <4>3, <4>4
      <4> HIDE DEF Good
      <4> QED  BY <2>4, <4>5
    <3> QED  BY <3>3, <3>4
  <2> QED  BY <2>8, <2>9, <2>10
<1>12. Good(n)
  <2> HIDE DEF Goods, Good, n
  <2>1. \A i \in 0..n : i \in Goods
    BY <1>1, <1>10, <1>11, ByInduction
  <2> QED  BY <1>1, <2>1 DEF Goods
<1> DEFINE found == NearestName(name).path
           suiting == {p \in listed : Suits(name, p)}
<1>13. CASE suiting = {}
  <2>1. \A k \in 1..n : ~suits(k)
    BY <1>2, <1>13
  <2>2. f[n] = none
    <3> HIDE DEF suits, n, none
    <3> QED  BY <1>12, <2>1
  <2>3. found = <<>>
    BY <1>9, <2>2
  <2> QED  BY <1>13, <2>3
<1>14. CASE suiting # {}
  <2>1. \A p \in suiting : \E k \in 1..n : p = L[k] /\ suits(k)
    BY ListedPaths
  <2>2. \E k \in 1..n : suits(k)
    BY <1>14, <2>1
  <2>3. PICK k \in 1..n : suits(k) /\ f[n] = [path |-> L[k], dist |-> d(L[k])]
    BY <1>12, <2>2
  <2>4. \A l \in 1..n : suits(l) => f[n].dist <= d(L[l])
    BY <1>12, <2>2
  <2>5. found = L[k] /\ f[n].dist = d(found) /\ found \in suiting
    BY <1>2, <1>9, <2>3
  <2> HIDE DEF found, suiting
  <2>6. \A p \in suiting : d(found) <= d(p)
    <3> HIDE DEF d, suits
    <3> QED  BY <2>1, <2>4, <2>5
  <2> QED  BY <1>14, <2>5, <2>6 DEF found, suiting
<1> QED  BY <1>13, <1>14

(* A module suits exactly if it is among those near by as many edits as its  *)
(* distance, and a module near by n edits suits and is at most so far.       *)
LEMMA NearSuits ==
    ASSUME NEW name \in Seq(Letter), NEW p \in listed
    PROVE  LET reach == Within(toLower(name))
               d == Levenshtein(name, BaseName(p))
               IsNear(n) == /\ Worthwhile(BaseName(p)) /\ n <= Allowed(name, BaseName(p))
                            /\ toLower(BaseName(p)) \in reach[n]
           IN  /\ d \in Nat
               /\ Suits(name, p) => d \in 0..typoMaxDistance /\ IsNear(d)
               /\ \A n \in 0..typoMaxDistance : IsNear(n) => Suits(name, p) /\ d <= n
<1> DEFINE other == BaseName(p)
           reach == Within(toLower(name))
           d == Levenshtein(name, other)
           most == Allowed(name, other)
<1>1. IsPath(p) /\ other \in Seq(Letter)
  BY ListedPaths, NameOfPath
<1>2. Len(other) \in Nat /\ Len(toLower(other)) = Len(other)
  BY <1>1, LoweredLength
<1>3. \A j \in 1..Len(other) : toLower(other)[j] \in Spelling
  BY DEF Spelling
<1>4. /\ d \in Nat
      /\ \A n \in 0..typoMaxDistance : toLower(other) \in reach[n] => d <= n
      /\ d <= typoMaxDistance => toLower(other) \in reach[d]
  BY <1>1, <1>3, LevenshteinCountsEdits
<1>5. typoMaxDistance \in Nat /\ most \in Nat
  BY NameAssumption DEF Allowed
<1>6. Suits(name, p) <=> Worthwhile(other) /\ d <= most /\ d <= typoMaxDistance
  BY DEF Suits
<1> HIDE DEF other, reach, d, most
<1>7. Suits(name, p) => /\ d \in 0..typoMaxDistance
                        /\ Worthwhile(other) /\ d <= most /\ toLower(other) \in reach[d]
  BY <1>4, <1>5, <1>6
<1>8. ASSUME NEW n \in 0..typoMaxDistance, Worthwhile(other), n <= most, toLower(other) \in reach[n]
      PROVE  Suits(name, p) /\ d <= n
  <2>1. d <= n
    BY <1>4, <1>8
  <2>2. d <= most /\ d <= typoMaxDistance
    BY <1>4, <1>5, <1>8, <2>1
  <2> QED  BY <1>6, <1>8, <2>1, <2>2
<1> QED  BY <1>4, <1>7, <1>8 DEF other, reach, d, most

(* The second pass finds one of the names the fewest edits away.             *)
LEMMA NearestByEdits ==
    ASSUME NEW name \in Seq(Letter)
    PROVE  LET reach == Within(toLower(name))
               Near(n) == {p \in listed : /\ Worthwhile(BaseName(p)) /\ n <= Allowed(name, BaseName(p))
                                          /\ toLower(BaseName(p)) \in reach[n]}
               near == {n \in 0 .. typoMaxDistance : Near(n) # {}}
               nearest == CHOOSE n \in near : \A k \in near : n <= k
               found == NearestName(name).path
           IN  /\ near = {} => found = <<>>
               /\ near # {} => found \in Near(nearest)
<1> DEFINE reach == Within(toLower(name))
           Near(n) == {p \in listed : /\ Worthwhile(BaseName(p)) /\ n <= Allowed(name, BaseName(p))
                                      /\ toLower(BaseName(p)) \in reach[n]}
           near == {n \in 0 .. typoMaxDistance : Near(n) # {}}
           nearest == CHOOSE n \in near : \A k \in near : n <= k
           found == NearestName(name).path
           suiting == {p \in listed : Suits(name, p)}
           d(p) == Levenshtein(name, BaseName(p))
<1>1. \A p \in listed : d(p) \in Nat
  BY NearSuits
<1>2. \A p \in suiting : d(p) \in 0..typoMaxDistance /\ p \in Near(d(p))
  BY NearSuits
<1>3. \A n \in 0..typoMaxDistance : \A p \in Near(n) : p \in suiting /\ d(p) <= n
  BY NearSuits
<1>4. IF suiting = {} THEN found = <<>>
      ELSE found \in suiting /\ \A p \in suiting : d(found) <= d(p)
  BY SecondPass
<1>5. near \subseteq Nat
  BY NameAssumption
<1>6. suiting \subseteq listed
  OBVIOUS
<1>7. \A n \in near : n \in 0..typoMaxDistance /\ Near(n) # {}
  OBVIOUS
<1>8. \A n \in 0..typoMaxDistance : Near(n) # {} => n \in near
  OBVIOUS
<1> HIDE DEF suiting, found, d, Near
<1>9. near = {} => found = <<>>
  <2> HIDE DEF near
  <2> QED  BY <1>2, <1>4, <1>8
<1>10. ASSUME near # {} PROVE found \in Near(nearest)
  <2>1. nearest \in near /\ \A k \in near : nearest <= k
    <3>1. \E n \in near : \A k \in near : n <= k
      <4> HIDE DEF near
      <4> QED  BY <1>5, <1>10, LeastOne
    <3> HIDE DEF near
    <3> QED  BY <3>1
  <2> HIDE DEF near, nearest
  <2>2. nearest \in Nat /\ nearest \in 0..typoMaxDistance
    BY <1>5, <1>7, <2>1
  <2>3. PICK p \in Near(nearest) : TRUE
    BY <1>7, <2>1
  <2>4. p \in suiting /\ d(p) <= nearest
    BY <1>3, <2>2, <2>3
  <2>5. found \in suiting /\ d(found) <= d(p)
    BY <1>4, <2>4
  <2>6. d(found) \in 0..typoMaxDistance /\ found \in Near(d(found)) /\ d(found) \in Nat /\ d(p) \in Nat
    BY <1>1, <1>2, <1>6, <2>4, <2>5
  <2>7. nearest <= d(found)
    <3>1. d(found) \in near
      BY <1>8, <2>6
    <3> QED  BY <2>1, <3>1
  <2>8. d(found) = nearest
    <3> DEFINE e == d(found)
               c == d(p)
    <3>1. e \in Nat /\ c \in Nat /\ e <= c /\ c <= nearest /\ nearest <= e
      BY <2>4, <2>5, <2>6, <2>7
    <3> HIDE DEF e, c
    <3>2. e = nearest
      BY <2>2, <3>1
    <3> QED  BY <3>2 DEF e
  <2> QED  BY <2>6, <2>8
<1> QED  BY <1>9, <1>10 DEF found, Near

(* The match of any path is the nearest name, and none where none is near or *)
(* the path is listed, unless a namesake precedes it on the list.            *)
LEMMA MatchedRightly ==
    ASSUME NEW modPath, IsPath(modPath)
    PROVE  MatchIsNearest(modPath) \/ (Shadowed(modPath) /\ Match(modPath).exact)
<1> DEFINE name == BaseName(modPath)
           namesakes == {p \in listed : ~Generic(BaseName(p)) /\ toLower(BaseName(p)) = toLower(name)}
           reach == Within(toLower(name))
           Near(n) == {p \in listed : /\ Worthwhile(BaseName(p)) /\ n <= Allowed(name, BaseName(p))
                                      /\ toLower(BaseName(p)) \in reach[n]}
           near == {n \in 0 .. typoMaxDistance : Near(n) # {}}
           nearest == CHOOSE n \in near : \A k \in near : n <= k
           found == Match(modPath)
           deciding == {i \in DOMAIN popularModules : Decides(popularModules[i], modPath, name)}
           chosen == CHOOSE i \in deciding : \A k \in deciding : i <= k
           first == popularModules[chosen]
           second == NearestName(name).path
<1>1. MatchIsNearest(modPath) =
        IF Generic(name) \/ modPath \in listed THEN found = NoMatch
        ELSE IF namesakes # {} THEN found.exact /\ found.match \in namesakes
        ELSE IF Len(name) < typoMinNameLen \/ near = {} THEN found = NoMatch
        ELSE ~found.exact /\ found.match \in Near(nearest)
  BY DEF MatchIsNearest
<1>2. found = CASE Generic(name) -> NoMatch
                [] ~Generic(name) /\ deciding # {} ->
                     IF first = modPath THEN NoMatch ELSE [match |-> first, exact |-> TRUE]
                [] ~Generic(name) /\ deciding = {} ->
                     IF Len(name) < typoMinNameLen THEN NoMatch
                     ELSE [match |-> second, exact |-> FALSE]
  BY DEF Match, closestPopularMatch
<1>3. /\ near = {} => second = <<>>
      /\ near # {} => second \in Near(nearest)
  BY NameOfPath, NearestByEdits
<1>4. \A i \in DOMAIN popularModules :
         /\ popularModules[i] \in listed
         /\ i \in deciding <=> popularModules[i] = modPath \/ popularModules[i] \in namesakes
  BY DEF Decides, listed
<1>5. \A p \in listed : \E i \in DOMAIN popularModules : p = popularModules[i]
  BY DEF listed
<1>6. deciding # {} => chosen \in deciding /\ \A k \in deciding : chosen <= k
  <2>1. deciding \subseteq Nat
    BY ListedPaths
  <2>2. deciding # {} => \E i \in deciding : \A k \in deciding : i <= k
    <3> HIDE DEF deciding
    <3> QED  BY <2>1, LeastOne
  <2> HIDE DEF deciding
  <2> QED  BY <2>2
<1>7. deciding \subseteq DOMAIN popularModules /\ namesakes \subseteq listed
  OBVIOUS
<1>8. deciding = {} <=> modPath \notin listed /\ namesakes = {}
  <2> HIDE DEF deciding, namesakes
  <2> QED  BY <1>4, <1>5, <1>7
<1>9. deciding # {} => first = modPath \/ first \in namesakes
  <2> HIDE DEF deciding, namesakes, chosen
  <2> QED  BY <1>4, <1>6, <1>7
<1>10. deciding # {} => first \in listed
  <2> HIDE DEF deciding, namesakes, chosen
  <2> QED  BY <1>4, <1>6, <1>7
<1>11. ASSUME deciding # {}, first # modPath, modPath \in listed
       PROVE  Shadowed(modPath)
  <2>1. chosen \in DOMAIN popularModules /\ first \in namesakes
    BY <1>6, <1>9, <1>11
  <2>2. toLower(BaseName(first)) = toLower(BaseName(modPath))
    BY <2>1
  <2> DEFINE c == chosen
  <2>3. c \in Nat /\ c >= 1 /\ popularModules[c] = first
    BY <2>1, ListedPaths
  <2>4. ASSUME NEW k \in DOMAIN popularModules, popularModules[k] = modPath
        PROVE  k \in Nat /\ c <= k /\ c # k
    <3>1. k \in deciding
      BY <1>4, <2>4
    <3> QED  BY <1>6, <1>11, <2>3, <2>4, <3>1, ListedPaths
  <2> HIDE DEF c, first
  <2>5. \A k \in DOMAIN popularModules : popularModules[k] = modPath => c \in 1..k - 1
    BY <2>3, <2>4
  <2> QED  BY <1>11, <2>2, <2>3, <2>5 DEF Shadowed
<1> HIDE DEF name, namesakes, near, nearest, Near, deciding, first, second, found
<1>12. CASE Generic(name)
  BY <1>1, <1>2, <1>12
<1>13. CASE ~Generic(name) /\ deciding # {}
  <2>1. found = IF first = modPath THEN NoMatch ELSE [match |-> first, exact |-> TRUE]
    BY <1>2, <1>13
  <2>2. CASE modPath \in listed /\ first = modPath
    BY <1>1, <2>1, <2>2
  <2>3. CASE modPath \in listed /\ first # modPath
    <3>1. Match(modPath).exact
      BY <2>1, <2>3 DEF found
    <3> QED  BY <1>11, <1>13, <2>3, <3>1
  <2>4. CASE modPath \notin listed
    <3>1. first # modPath /\ first \in namesakes /\ found.exact /\ found.match = first
      BY <1>9, <1>10, <1>13, <2>1, <2>4
    <3> QED  BY <1>1, <1>13, <2>4, <3>1
  <2> QED  BY <2>2, <2>3, <2>4
<1>14. CASE ~Generic(name) /\ deciding = {}
  <2>1. found = IF Len(name) < typoMinNameLen THEN NoMatch ELSE [match |-> second, exact |-> FALSE]
    BY <1>2, <1>14
  <2>2. modPath \notin listed /\ namesakes = {}
    BY <1>8, <1>14
  <2>3. MatchIsNearest(modPath) =
          IF Len(name) < typoMinNameLen \/ near = {} THEN found = NoMatch
          ELSE ~found.exact /\ found.match \in Near(nearest)
    BY <1>1, <1>14, <2>2
  <2>4. CASE Len(name) < typoMinNameLen
    BY <2>1, <2>3, <2>4
  <2>5. CASE ~(Len(name) < typoMinNameLen) /\ near = {}
    BY <1>3, <2>1, <2>3, <2>5 DEF NoMatch
  <2>6. CASE ~(Len(name) < typoMinNameLen) /\ near # {}
    BY <1>3, <2>1, <2>3, <2>6
  <2> QED  BY <2>4, <2>5, <2>6
<1> QED  BY <1>12, <1>13, <1>14

(* src/check.go closestPopularMatch: of the well-known names the nearest by  *)
(* edits is found, none where none is near, and none for a listed module     *)
(* itself unless a listed namesake precedes it, whatever the list, the name  *)
(* and the limits.                                                           *)
THEOREM NearestFoundForEveryName == Spec => []NearestNameFound
<1>1. Init => NearestNameFound
  <2> SUFFICES ASSUME Init, input.of = "name"
               PROVE  \/ MatchIsNearest(input.path)
                      \/ Shadowed(input.path) /\ Match(input.path).exact
    BY DEF NearestNameFound
  <2>1. IsPath(input.path)
    BY CallAssumption DEF Init
  <2> QED  BY <2>1, MatchedRightly
<1>2. NearestNameFound /\ [Next]_input => NearestNameFound'
  BY DEF NearestNameFound, Next
<1> QED  BY <1>1, <1>2, PTL DEF Spec

-----------------------------------------------------------------------------
(* Private patterns: path.Match. *)

(* What path.Match looks for: where in the text each letter of the pattern   *)
(* begins to match.                                                          *)
Takes(p, s, k, x, y) ==
    IF p[k] = "*" THEN x <= y /\ \A z \in x..(y - 1) : s[z] # "/"
    ELSE y = x + 1 /\ (s[x] = p[k] \/ (p[k] = "?" /\ s[x] # "/"))

Fits(p, s, f, a, b, c, d) ==
    /\ f \in [a..b -> c..d] /\ f[a] = c /\ f[b] = d
    /\ \A k \in a..(b - 1) : Takes(p, s, k, f[k], f[k + 1])

CanFit(p, s, a, b, c, d) == \E f : Fits(p, s, f, a, b, c, d)

(* Nothing matches nothing. *)
LEMMA FitOfNothing ==
    ASSUME NEW p, NEW s, NEW b \in Nat, NEW c \in Nat, NEW d \in Nat
    PROVE  CanFit(p, s, b, b, c, d) <=> c = d
<1>1. ASSUME CanFit(p, s, b, b, c, d) PROVE c = d
  BY <1>1 DEF CanFit, Fits
<1>2. ASSUME c = d PROVE CanFit(p, s, b, b, c, d)
  <2> DEFINE f == [k \in b..b |-> c]
  <2>1. Fits(p, s, f, b, b, c, d)
    BY <1>2 DEF Fits
  <2> HIDE DEF f
  <2> QED  BY <2>1 DEF CanFit
<1> QED  BY <1>1, <1>2

(* The first letter fits somewhere, and the others after it. *)
LEMMA FitByFirst ==
    ASSUME NEW p, NEW s, NEW a \in Nat, NEW b \in Nat, NEW c \in Nat, NEW d \in Nat, a < b
    PROVE  CanFit(p, s, a, b, c, d)
             <=> \E y \in c..d : Takes(p, s, a, c, y) /\ CanFit(p, s, a + 1, b, y, d)
<1>1. ASSUME CanFit(p, s, a, b, c, d)
      PROVE  \E y \in c..d : Takes(p, s, a, c, y) /\ CanFit(p, s, a + 1, b, y, d)
  <2>1. PICK f : Fits(p, s, f, a, b, c, d)
    BY <1>1 DEF CanFit
  <2> DEFINE y == f[a + 1]
             g == [k \in (a + 1)..b |-> f[k]]
  <2>2. f \in [a..b -> c..d] /\ f[a] = c /\ f[b] = d /\ \A k \in a..(b - 1) : Takes(p, s, k, f[k], f[k + 1])
    BY <2>1 DEF Fits
  <2>3. y \in c..d /\ Takes(p, s, a, c, y)
    BY <2>2
  <2> DEFINE Rest == {i \in 0..(b - (a + 1)) : f[a + 1 + i] \in y..d}
  <2>4. 0 \in Rest
    BY <2>3
  <2>5. ASSUME NEW i \in 1..(b - (a + 1)), i - 1 \in Rest PROVE i \in Rest
    <3>1. a + i \in a..(b - 1) /\ a + 1 + (i - 1) = a + i /\ (a + i) + 1 = a + 1 + i /\ a + 1 + i \in a..b
      OBVIOUS
    <3>2. Takes(p, s, a + i, f[a + i], f[a + 1 + i]) /\ f[a + i] \in y..d /\ f[a + 1 + i] \in c..d
      BY <2>2, <2>5, <3>1
    <3>3. f[a + i] <= f[a + 1 + i]
      BY <2>3, <3>2 DEF Takes
    <3>4. f[a + 1 + i] \in y..d
      BY <2>3, <3>2, <3>3
    <3> QED  BY <3>4
  <2>6. \A i \in 0..(b - (a + 1)) : i \in Rest
    <3>1. b - (a + 1) \in Nat
      OBVIOUS
    <3> HIDE DEF Rest
    <3> QED  BY <2>4, <2>5, <3>1, ByInduction
  <2>7. \A k \in (a + 1)..b : f[k] \in y..d
    <3> TAKE k \in (a + 1)..b
    <3>1. k - (a + 1) \in 0..(b - (a + 1)) /\ a + 1 + (k - (a + 1)) = k
      OBVIOUS
    <3>2. k - (a + 1) \in Rest
      <4> HIDE DEF Rest
      <4> QED  BY <2>6, <3>1
    <3> QED  BY <3>1, <3>2
  <2>8. Fits(p, s, g, a + 1, b, y, d)
    <3>1. g \in [(a + 1)..b -> y..d]
      BY <2>7
    <3>2. g[a + 1] = y /\ g[b] = d
      BY <2>2
    <3>3. \A k \in (a + 1)..(b - 1) : Takes(p, s, k, g[k], g[k + 1])
      BY <2>2
    <3> QED  BY <3>1, <3>2, <3>3 DEF Fits
  <2> HIDE DEF g, y
  <2> QED  BY <2>3, <2>8 DEF CanFit
<1>2. ASSUME NEW y \in c..d, Takes(p, s, a, c, y), CanFit(p, s, a + 1, b, y, d)
      PROVE  CanFit(p, s, a, b, c, d)
  <2>1. PICK g : Fits(p, s, g, a + 1, b, y, d)
    BY <1>2 DEF CanFit
  <2> DEFINE f == [k \in a..b |-> IF k = a THEN c ELSE g[k]]
  <2>2. /\ g \in [(a + 1)..b -> y..d] /\ g[a + 1] = y /\ g[b] = d
        /\ \A k \in (a + 1)..(b - 1) : Takes(p, s, k, g[k], g[k + 1])
    BY <2>1 DEF Fits
  <2>3. f \in [a..b -> c..d]
    <3> SUFFICES ASSUME NEW k \in a..b PROVE f[k] \in c..d
      OBVIOUS
    <3>1. CASE k = a
      BY <1>2, <3>1
    <3>2. CASE k \in (a + 1)..b
      BY <1>2, <2>2, <3>2
    <3> QED  BY <3>1, <3>2
  <2>4. f[a] = c /\ f[b] = d
    BY <2>2
  <2>5. ASSUME NEW k \in a..(b - 1) PROVE Takes(p, s, k, f[k], f[k + 1])
    <3>1. CASE k = a
      <4>1. f[k] = c /\ f[k + 1] = y
        BY <2>2, <3>1
      <4> QED  BY <1>2, <3>1, <4>1
    <3>2. CASE k \in (a + 1)..(b - 1)
      <4>1. f[k] = g[k] /\ f[k + 1] = g[k + 1]
        BY <3>2
      <4> QED  BY <2>2, <3>2, <4>1
    <3> QED  BY <3>1, <3>2
  <2>6. Fits(p, s, f, a, b, c, d)
    BY <2>3, <2>4, <2>5 DEF Fits
  <2> HIDE DEF f
  <2> QED  BY <2>6 DEF CanFit
<1> QED  BY <1>1, <1>2

(* The recurrence of path.Match. *)
LEMMA FitRecurs ==
    ASSUME NEW p, NEW s, NEW b \in Nat, NEW d \in Nat, NEW a \in 1..b, NEW c \in 1..d
    PROVE  CanFit(p, s, a, b, c, d)
             <=> IF a = b THEN c = d
                 ELSE IF p[a] = "*"
                 THEN \/ CanFit(p, s, a + 1, b, c, d)
                      \/ c < d /\ s[c] # "/" /\ CanFit(p, s, a, b, c + 1, d)
                 ELSE /\ c < d
                      /\ s[c] = p[a] \/ (p[a] = "?" /\ s[c] # "/")
                      /\ CanFit(p, s, a + 1, b, c + 1, d)
<1>1. CASE a = b
  BY <1>1, FitOfNothing
<1>2. CASE a < b /\ p[a] = "*"
  <2>1. CanFit(p, s, a, b, c, d)
          <=> \E y \in c..d : Takes(p, s, a, c, y) /\ CanFit(p, s, a + 1, b, y, d)
    BY <1>2, FitByFirst
  <2>2. c < d => (CanFit(p, s, a, b, c + 1, d)
          <=> \E y \in (c + 1)..d : Takes(p, s, a, c + 1, y) /\ CanFit(p, s, a + 1, b, y, d))
    BY <1>2, FitByFirst
  <2>3. Takes(p, s, a, c, c)
    BY <1>2 DEF Takes
  <2>4. \A y \in (c + 1)..d : Takes(p, s, a, c, y) <=> s[c] # "/" /\ Takes(p, s, a, c + 1, y)
    <3> TAKE y \in (c + 1)..d
    <3>1. c..(y - 1) = {c} \cup (c + 1)..(y - 1) /\ c <= y /\ c + 1 <= y
      OBVIOUS
    <3> QED  BY <1>2, <3>1 DEF Takes
  <2>5. c..d = {c} \cup (c + 1)..d /\ (~(c < d) => (c + 1)..d = {})
    OBVIOUS
  <2>6. CanFit(p, s, a, b, c, d) <=> \/ CanFit(p, s, a + 1, b, c, d)
                                     \/ c < d /\ s[c] # "/" /\ CanFit(p, s, a, b, c + 1, d)
    BY <2>1, <2>2, <2>3, <2>4, <2>5
  <2>7. a # b
    BY <1>2
  <2> QED  BY <1>2, <2>6, <2>7
<1>3. CASE a < b /\ p[a] # "*"
  <2>1. CanFit(p, s, a, b, c, d)
          <=> \E y \in c..d : Takes(p, s, a, c, y) /\ CanFit(p, s, a + 1, b, y, d)
    BY <1>3, FitByFirst
  <2>2. \A y \in c..d : Takes(p, s, a, c, y) <=> y = c + 1 /\ (s[c] = p[a] \/ (p[a] = "?" /\ s[c] # "/"))
    BY <1>3 DEF Takes
  <2>3. c + 1 \in c..d <=> c < d
    OBVIOUS
  <2>4. a # b
    BY <1>3
  <2> QED  BY <1>3, <2>1, <2>2, <2>3, <2>4
<1> QED  BY <1>1, <1>2, <1>3

(* path.Match, as far as src/pattern.go uses it, succeeds exactly if the     *)
(* letters and wildcards of the pattern have places in the text, one after   *)
(* the other.                                                                *)
THEOREM PathMatchFits ==
    ASSUME NEW p, NEW s, Len(p) \in Nat, Len(s) \in Nat
    PROVE  PathMatch(p, s) <=> CanFit(p, s, 1, Len(p) + 1, 1, Len(s) + 1)
<1> DEFINE b == Len(p) + 1
           d == Len(s) + 1
           Value(g, i, j) == IF i > Len(p) THEN j > Len(s)
                             ELSE IF p[i] = "*"
                             THEN g[<<i + 1, j>>] \/ (j <= Len(s) /\ s[j] # "/" /\ g[<<i, j + 1>>])
                             ELSE /\ j <= Len(s)
                                  /\ s[j] = p[i] \/ (p[i] = "?" /\ s[j] # "/")
                                  /\ g[<<i + 1, j + 1>>]
           Loop(g) == [at \in (1 .. Len(p) + 1) \X (1 .. Len(s) + 1) |-> Value(g, at[1], at[2])]
           M == [at \in (1..b) \X (1..d) |-> CanFit(p, s, at[1], b, at[2], d)]
           m == CHOOSE g : g = Loop(g)
<1>1. b \in Nat /\ d \in Nat
  OBVIOUS
<1>2. \A i \in 1..b, j \in 1..d : M[<<i, j>>] = CanFit(p, s, i, b, j, d) /\ M[<<i, j>>] \in BOOLEAN
  BY DEF CanFit
<1>3. \A i \in 1..b, j \in 1..d : M[<<i, j>>] = Value(M, i, j)
  <2> TAKE i \in 1..b, j \in 1..d
  <2>1. (i > Len(p) <=> i = b) /\ (j > Len(s) <=> j = d) /\ (j <= Len(s) <=> j < d)
        /\ (i # b => i + 1 \in 1..b) /\ (j < d => j + 1 \in 1..d)
    OBVIOUS
  <2> HIDE DEF M, b, d
  <2>2. CanFit(p, s, i, b, j, d)
             <=> IF i = b THEN j = d
                 ELSE IF p[i] = "*"
                 THEN \/ CanFit(p, s, i + 1, b, j, d)
                      \/ j < d /\ s[j] # "/" /\ CanFit(p, s, i, b, j + 1, d)
                 ELSE /\ j < d
                      /\ s[j] = p[i] \/ (p[i] = "?" /\ s[j] # "/")
                      /\ CanFit(p, s, i + 1, b, j + 1, d)
    BY <1>1, FitRecurs
  <2>3. CASE i = b
    <3>1. Value(M, i, j) = (j = d)
      BY <2>1, <2>3
    <3>2. CanFit(p, s, i, b, j, d) <=> j = d
      BY <2>2, <2>3
    <3> HIDE DEF Value
    <3> QED  BY <1>2, <3>1, <3>2
  <2>4. CASE i # b /\ p[i] = "*"
    <3>1. Value(M, i, j) <=> M[<<i + 1, j>>] \/ (j < d /\ s[j] # "/" /\ M[<<i, j + 1>>])
      BY <2>1, <2>4
    <3> QED  BY <1>2, <2>1, <2>2, <2>4, <3>1
  <2>5. CASE i # b /\ p[i] # "*"
    <3>1. Value(M, i, j) <=> /\ j < d
                             /\ s[j] = p[i] \/ (p[i] = "?" /\ s[j] # "/")
                             /\ M[<<i + 1, j + 1>>]
      BY <2>1, <2>5
    <3> QED  BY <1>2, <2>1, <2>2, <2>5, <3>1
  <2> QED  BY <2>3, <2>4, <2>5
<1>4. M = Loop(M)
  <2> HIDE DEF Value
  <2> QED  BY <1>3
<1>5. m = Loop(m)
  <2> HIDE DEF Loop, M
  <2> QED  BY <1>4
<1>6. \A i \in 1..b, j \in 1..d : m[<<i, j>>] = Value(m, i, j)
  <2> HIDE DEF m, Value
  <2> QED  BY <1>5
<1> DEFINE Same(i, j) == m[<<b - i, d - j>>] = M[<<b - i, d - j>>]
           G == {q \in (0..Len(p)) \X (0..Len(s)) : Same(q[1], q[2])}
<1>7. \A i \in 0..Len(p), j \in 0..Len(s) : <<i, j>> \in G <=> Same(i, j)
  OBVIOUS
<1> HIDE DEF m, M, G
<1>8. \A j \in 0..Len(s) : <<0, j>> \in G
  <2> TAKE j \in 0..Len(s)
  <2>1. b - 0 = b /\ b \in 1..b /\ d - j \in 1..d /\ b > Len(p) /\ 0 \in 0..Len(p)
    OBVIOUS
  <2>2. m[<<b, d - j>>] = M[<<b, d - j>>]
    BY <1>3, <1>6, <2>1
  <2> QED  BY <1>7, <2>1, <2>2
<1>9. \A i \in 1..Len(p) : <<i, 0>> \in G
  <2> DEFINE Goods == {i \in 0..Len(p) : Same(i, 0)}
  <2>1. 0 \in 0..Len(s) /\ d - 0 = d /\ d \in 1..d /\ ~(d <= Len(s))
    OBVIOUS
  <2>2. 0 \in Goods
    <3>1. 0 \in 0..Len(p) /\ <<0, 0>> \in G
      BY <1>8, <2>1
    <3> HIDE DEF Same
    <3> QED  BY <1>7, <2>1, <3>1
  <2>3. ASSUME NEW i \in 1..Len(p), i - 1 \in Goods PROVE i \in Goods
    <3>1. b - i \in 1..b /\ (b - i) + 1 = b - (i - 1) /\ ~(b - i > Len(p)) /\ i \in 0..Len(p)
      OBVIOUS
    <3>2. m[<<(b - i) + 1, d>>] = M[<<(b - i) + 1, d>>]
      BY <2>1, <2>3, <3>1
    <3>3. m[<<b - i, d>>] = M[<<b - i, d>>]
      <4>1. m[<<b - i, d>>] = Value(m, b - i, d) /\ M[<<b - i, d>>] = Value(M, b - i, d)
        <5> HIDE DEF Value
        <5> QED  BY <1>3, <1>6, <2>1, <3>1
      <4>2. Value(m, b - i, d) = Value(M, b - i, d)
        <5> DEFINE x == b - i
        <5>1. m[<<x + 1, d>>] = M[<<x + 1, d>>]
          BY <3>1, <3>2
        <5> HIDE DEF x, b, d
        <5>2. Value(m, x, d) = Value(M, x, d)
          BY <2>1, <5>1
        <5> QED  BY <5>2 DEF x
      <4> HIDE DEF Value
      <4> QED  BY <4>1, <4>2
    <3> QED  BY <2>1, <3>1, <3>3
  <2>4. \A i \in 0..Len(p) : i \in Goods
    <3> HIDE DEF Goods
    <3> QED  BY <2>2, <2>3, ByInduction
  <2>5. \A i \in 1..Len(p) : i \in 0..Len(p) /\ Same(i, 0)
    <3> TAKE i \in 1..Len(p)
    <3>1. i \in 0..Len(p)
      OBVIOUS
    <3> HIDE DEF Same
    <3> QED  BY <2>4, <3>1
  <2> HIDE DEF Same
  <2> QED  BY <1>7, <2>1, <2>5
<1>10. ASSUME NEW i \in 1..Len(p), NEW j \in 1..Len(s),
              <<i - 1, j>> \in G, <<i, j - 1>> \in G, <<i - 1, j - 1>> \in G
       PROVE  <<i, j>> \in G
  <2>1. /\ i \in 0..Len(p) /\ i - 1 \in 0..Len(p) /\ j \in 0..Len(s) /\ j - 1 \in 0..Len(s)
        /\ b - (i - 1) = (b - i) + 1 /\ d - (j - 1) = (d - j) + 1
        /\ b - i \in 1..b /\ d - j \in 1..d
    OBVIOUS
  <2>2. /\ m[<<(b - i) + 1, d - j>>] = M[<<(b - i) + 1, d - j>>]
        /\ m[<<b - i, (d - j) + 1>>] = M[<<b - i, (d - j) + 1>>]
        /\ m[<<(b - i) + 1, (d - j) + 1>>] = M[<<(b - i) + 1, (d - j) + 1>>]
    BY <1>7, <1>10, <2>1
  <2>3. m[<<b - i, d - j>>] = M[<<b - i, d - j>>]
    <3>1. m[<<b - i, d - j>>] = Value(m, b - i, d - j) /\ M[<<b - i, d - j>>] = Value(M, b - i, d - j)
      BY <1>3, <1>6, <2>1
    <3>2. Value(m, b - i, d - j) = Value(M, b - i, d - j)
      BY <2>2
    <3> HIDE DEF Value
    <3> QED  BY <3>1, <3>2
  <2> QED  BY <1>7, <2>1, <2>3
<1>11. \A i \in 0..Len(p), j \in 0..Len(s) : <<i, j>> \in G
  BY <1>8, <1>9, <1>10, ByGrid
<1>12. m[<<1, 1>>] = M[<<1, 1>>]
  <2>1. Len(p) \in 0..Len(p) /\ Len(s) \in 0..Len(s) /\ b - Len(p) = 1 /\ d - Len(s) = 1
    OBVIOUS
  <2>2. Same(Len(p), Len(s))
    <3> HIDE DEF Same
    <3> QED  BY <1>7, <1>11, <2>1
  <2> QED  BY <2>1, <2>2
<1>13. PathMatch(p, s) = m[<<1, 1>>]
  BY DEF PathMatch, m
<1>14. 1 \in 1..b /\ 1 \in 1..d
  OBVIOUS
<1> QED  BY <1>2, <1>12, <1>13, <1>14

(* The same letters elsewhere fit there. *)
LEMMA FitMoves ==
    ASSUME NEW p, NEW q, NEW a \in Int, NEW b \in Int, NEW c \in Int, NEW d \in Int,
           NEW r, NEW t, NEW u \in Int, NEW v \in Int, a <= b, c <= d,
           \A k \in a..(b - 1) : r[k + u] = p[k],
           \A z \in c..(d - 1) : t[z + v] = q[z],
           CanFit(p, q, a, b, c, d)
    PROVE  CanFit(r, t, a + u, b + u, c + v, d + v)
<1>1. PICK f : Fits(p, q, f, a, b, c, d)
  BY DEF CanFit
<1>2. /\ f \in [a..b -> c..d] /\ f[a] = c /\ f[b] = d
      /\ \A k \in a..(b - 1) : Takes(p, q, k, f[k], f[k + 1])
  BY <1>1 DEF Fits
<1> DEFINE g == [k \in (a + u)..(b + u) |-> f[k - u] + v]
<1>3. \A k \in a..b : /\ k + u \in (a + u)..(b + u) /\ (k + u) - u = k
                      /\ f[k] \in c..d /\ f[k] + v \in (c + v)..(d + v) /\ g[k + u] = f[k] + v
  <2> TAKE k \in a..b
  <2>1. k + u \in (a + u)..(b + u) /\ (k + u) - u = k
    OBVIOUS
  <2>2. f[k] \in c..d
    BY <1>2
  <2>3. f[k] + v \in (c + v)..(d + v)
    BY <2>2
  <2> QED  BY <2>1, <2>2, <2>3
<1>4. \A k \in (a + u)..(b + u) : k - u \in a..b /\ (k - u) + u = k
  OBVIOUS
<1>5. DOMAIN g = (a + u)..(b + u) /\ g = [k \in DOMAIN g |-> g[k]]
  OBVIOUS
<1> HIDE DEF g
<1>6. g \in [(a + u)..(b + u) -> (c + v)..(d + v)]
  <2>1. ASSUME NEW k \in (a + u)..(b + u) PROVE g[k] \in (c + v)..(d + v)
    <3>1. k - u \in a..b /\ (k - u) + u = k
      BY <1>4
    <3>2. g[(k - u) + u] = f[k - u] + v /\ f[k - u] + v \in (c + v)..(d + v)
      BY <1>3, <3>1
    <3> QED  BY <3>1, <3>2
  <2> QED  BY <1>5, <2>1
<1>7. g[a + u] = c + v /\ g[b + u] = d + v
  BY <1>2, <1>3
<1>8. ASSUME NEW k \in (a + u)..((b + u) - 1) PROVE Takes(r, t, k, g[k], g[k + 1])
  <2> DEFINE l == k - u
             x == f[l]
             y == f[l + 1]
  <2>1. l \in a..(b - 1) /\ l \in a..b /\ l + 1 \in a..b /\ l + u = k /\ (l + 1) + u = k + 1
    OBVIOUS
  <2>2. x \in c..d /\ y \in c..d /\ g[k] = x + v /\ g[k + 1] = y + v /\ Takes(p, q, l, x, y)
    BY <1>2, <1>3, <2>1
  <2>3. r[k] = p[l]
    BY <2>1
  <2> HIDE DEF l, x, y
  <2>4. CASE p[l] = "*"
    <3>1. x <= y /\ \A z \in x..(y - 1) : q[z] # "/"
      BY <2>2, <2>4 DEF Takes
    <3>2. x + v <= y + v
      BY <2>2, <3>1
    <3>3. ASSUME NEW z \in (x + v)..((y + v) - 1) PROVE t[z] # "/"
      <4>1. z - v \in x..(y - 1) /\ z - v \in c..(d - 1) /\ (z - v) + v = z
        BY <2>2
      <4>2. t[(z - v) + v] = q[z - v]
        BY <4>1
      <4> QED  BY <3>1, <4>1, <4>2
    <3> QED  BY <2>2, <2>3, <2>4, <3>2, <3>3 DEF Takes
  <2>5. CASE p[l] # "*"
    <3>1. y = x + 1 /\ (q[x] = p[l] \/ (p[l] = "?" /\ q[x] # "/"))
      BY <2>2, <2>5 DEF Takes
    <3>2. x \in c..(d - 1) /\ y + v = (x + v) + 1
      BY <2>2, <3>1
    <3>3. t[x + v] = q[x]
      BY <3>2
    <3> QED  BY <2>2, <2>3, <2>5, <3>1, <3>2, <3>3 DEF Takes
  <2> QED  BY <2>4, <2>5
<1>9. Fits(r, t, g, a + u, b + u, c + v, d + v)
  BY <1>6, <1>7, <1>8 DEF Fits
<1> QED  BY <1>9 DEF CanFit

(* A part of the pattern is matched against a part of the path. *)
LEMMA PartMatches ==
    ASSUME NEW p \in Seq(Letter), NEW q \in Seq(Letter),
           NEW a \in 1..(Len(p) + 1), NEW b \in a..(Len(p) + 1),
           NEW c \in 1..(Len(q) + 1), NEW d \in c..(Len(q) + 1)
    PROVE  PathMatch(SubSeq(p, a, b - 1), SubSeq(q, c, d - 1)) <=> CanFit(p, q, a, b, c, d)
<1> DEFINE r == SubSeq(p, a, b - 1)
           t == SubSeq(q, c, d - 1)
<1>1. Len(p) \in Nat /\ Len(q) \in Nat /\ a \in Int /\ b \in Int /\ c \in Int /\ d \in Int /\ a <= b /\ c <= d
  OBVIOUS
<1>2. Len(r) = b - a /\ Len(t) = d - c
  <2>1. b - 1 \in Int /\ d - 1 \in Int /\ (\A i \in a..(b - 1) : p[i] \in Letter)
        /\ (\A i \in c..(d - 1) : q[i] \in Letter)
    <3>1. (\A i \in 1..Len(p) : p[i] \in Letter) /\ (\A i \in 1..Len(q) : q[i] \in Letter)
      OBVIOUS
    <3> QED  BY <1>1, <3>1
  <2>2. /\ Len(r) = IF a <= b - 1 THEN (b - 1) - a + 1 ELSE 0
        /\ Len(t) = IF c <= d - 1 THEN (d - 1) - c + 1 ELSE 0
    BY <1>1, <2>1, SubSeqProperties
  <2> QED  BY <1>1, <2>2
<1>3. \A k \in a..(b - 1) : r[k + (1 - a)] = p[k]
  <2> TAKE k \in a..(b - 1)
  <2>1. b - 1 \in Int /\ \A i \in a..(b - 1) : p[i] \in Letter
    <3>1. \A i \in 1..Len(p) : p[i] \in Letter
      OBVIOUS
    <3> QED  BY <1>1, <3>1
  <2>2. \A i \in 1..((b - 1) - a + 1) : r[i] = p[a + i - 1]
    BY <1>1, <2>1, SubSeqProperties
  <2>3. k + (1 - a) \in 1..((b - 1) - a + 1) /\ a + (k + (1 - a)) - 1 = k
    BY <1>1
  <2> HIDE DEF r
  <2> QED  BY <2>2, <2>3
<1>4. \A k \in c..(d - 1) : t[k + (1 - c)] = q[k]
  <2> TAKE k \in c..(d - 1)
  <2>1. d - 1 \in Int /\ \A i \in c..(d - 1) : q[i] \in Letter
    <3>1. \A i \in 1..Len(q) : q[i] \in Letter
      OBVIOUS
    <3> QED  BY <1>1, <3>1
  <2>2. \A i \in 1..((d - 1) - c + 1) : t[i] = q[c + i - 1]
    BY <1>1, <2>1, SubSeqProperties
  <2>3. k + (1 - c) \in 1..((d - 1) - c + 1) /\ c + (k + (1 - c)) - 1 = k
    BY <1>1
  <2> HIDE DEF t
  <2> QED  BY <2>2, <2>3
<1> HIDE DEF r, t
<1>5. PathMatch(r, t) <=> CanFit(r, t, 1, (b - a) + 1, 1, (d - c) + 1)
  <2>1. Len(r) \in Nat /\ Len(t) \in Nat
    BY <1>1, <1>2
  <2> QED  BY <1>2, <2>1, PathMatchFits
<1>6. ASSUME CanFit(p, q, a, b, c, d) PROVE CanFit(r, t, 1, (b - a) + 1, 1, (d - c) + 1)
  <2>1. CanFit(r, t, a + (1 - a), b + (1 - a), c + (1 - c), d + (1 - c))
    <3>1. 1 - a \in Int /\ 1 - c \in Int
      BY <1>1
    <3> QED  BY <1>1, <1>3, <1>4, <1>6, <3>1, FitMoves
  <2>2. a + (1 - a) = 1 /\ b + (1 - a) = (b - a) + 1 /\ c + (1 - c) = 1 /\ d + (1 - c) = (d - c) + 1
    BY <1>1
  <2> QED  BY <2>1, <2>2
<1>7. ASSUME CanFit(r, t, 1, (b - a) + 1, 1, (d - c) + 1) PROVE CanFit(p, q, a, b, c, d)
  <2> DEFINE m == (b - a) + 1
             n == (d - c) + 1
             u == a - 1
             v == c - 1
  <2>1. m \in Int /\ n \in Int /\ 1 \in Int /\ u \in Int /\ v \in Int /\ 1 <= m /\ 1 <= n
    BY <1>1
  <2>2. \A k \in 1..(m - 1) : p[k + u] = r[k]
    <3> TAKE k \in 1..(m - 1)
    <3>1. k + u \in a..(b - 1) /\ (k + u) + (1 - a) = k
      BY <1>1
    <3> QED  BY <1>3, <3>1
  <2>3. \A k \in 1..(n - 1) : q[k + v] = t[k]
    <3> TAKE k \in 1..(n - 1)
    <3>1. k + v \in c..(d - 1) /\ (k + v) + (1 - c) = k
      BY <1>1
    <3> QED  BY <1>4, <3>1
  <2>4. CanFit(r, t, 1, m, 1, n)
    BY <1>7
  <2>5. 1 + u = a /\ m + u = b /\ 1 + v = c /\ n + v = d
    BY <1>1
  <2> HIDE DEF m, n, u, v
  <2>6. CanFit(p, q, 1 + u, m + u, 1 + v, n + v)
    BY <2>1, <2>2, <2>3, <2>4, FitMoves
  <2> QED  BY <2>5, <2>6
<1> QED  BY <1>5, <1>6, <1>7 DEF r, t

(* A step at a time, a sequence that never falls only rises. *)
LEMMA Rising ==
    ASSUME NEW a \in Nat, NEW b \in Nat, NEW f, \A k \in a..b : f[k] \in Nat,
           \A k \in a..(b - 1) : f[k] <= f[k + 1],
           NEW k \in a..b
    PROVE  \A l \in k..b : f[k] <= f[l]
<1> DEFINE Goods == {i \in 0..(b - k) : f[k] <= f[k + i]}
<1>1. 0 \in Goods
  OBVIOUS
<1>2. ASSUME NEW i \in 1..(b - k), i - 1 \in Goods PROVE i \in Goods
  <2>1. /\ k + (i - 1) \in a..(b - 1) /\ (k + (i - 1)) + 1 = k + i
        /\ k + (i - 1) \in a..b /\ k + i \in a..b
    OBVIOUS
  <2>2. f[k + (i - 1)] <= f[k + i] /\ f[k] <= f[k + (i - 1)]
    BY <1>2, <2>1
  <2>3. f[k] \in Nat /\ f[k + (i - 1)] \in Nat /\ f[k + i] \in Nat
    BY <2>1
  <2>4. f[k] <= f[k + i]
    <3> DEFINE x == f[k]
               y == f[k + (i - 1)]
               z == f[k + i]
    <3>1. x \in Nat /\ y \in Nat /\ z \in Nat /\ x <= y /\ y <= z
      BY <2>2, <2>3
    <3> HIDE DEF x, y, z
    <3>2. x <= z
      BY <3>1
    <3> QED  BY <3>2 DEF x, z
  <2> QED  BY <2>4
<1>3. \A i \in 0..(b - k) : i \in Goods
  <2>1. b - k \in Nat
    OBVIOUS
  <2> HIDE DEF Goods
  <2> QED  BY <1>1, <1>2, <2>1, ByInduction
<1> TAKE l \in k..b
<1>4. l - k \in 0..(b - k) /\ k + (l - k) = l
  OBVIOUS
<1>5. l - k \in Goods
  <2> HIDE DEF Goods
  <2> QED  BY <1>3, <1>4
<1> QED  BY <1>4, <1>5

-----------------------------------------------------------------------------
(* Private patterns: element by element. *)

(* What fits only rises. *)
LEMMA FitRises ==
    ASSUME NEW p, NEW q, NEW f, NEW a \in Nat, NEW b \in Nat, NEW c \in Nat, NEW d \in Nat,
           Fits(p, q, f, a, b, c, d)
    PROVE  /\ \A k \in a..b : f[k] \in c..d /\ f[k] \in Nat
           /\ \A k \in a..(b - 1) : f[k] <= f[k + 1]
           /\ \A k \in a..b, l \in a..b : k <= l => f[k] <= f[l]
<1>1. f \in [a..b -> c..d] /\ \A k \in a..(b - 1) : Takes(p, q, k, f[k], f[k + 1])
  BY DEF Fits
<1>2. \A k \in a..b : f[k] \in c..d /\ f[k] \in Nat
  BY <1>1
<1>3. ASSUME NEW k \in a..(b - 1) PROVE f[k] <= f[k + 1]
  <2>1. f[k] \in Nat /\ Takes(p, q, k, f[k], f[k + 1])
    BY <1>1, <1>2
  <2> QED  BY <2>1 DEF Takes
<1>4. ASSUME NEW k \in a..b, NEW l \in a..b, k <= l PROVE f[k] <= f[l]
  <2>1. l \in k..b /\ \A i \in a..b : f[i] \in Nat
    BY <1>2, <1>4
  <2> HIDE DEF Fits
  <2>2. \A i \in k..b : f[k] <= f[i]
    BY <1>3, <2>1, Rising
  <2> QED  BY <2>1, <2>2
<1> QED  BY <1>2, <1>3, <1>4

(* Letters that are no slash take none. *)
LEMMA NoSlashTaken ==
    ASSUME NEW p, NEW q, NEW f, NEW a \in Nat, NEW b \in Nat, NEW c \in Nat, NEW d \in Nat, a <= b,
           Fits(p, q, f, a, b, c, d), \A k \in a..(b - 1) : p[k] # "/"
    PROVE  \A z \in c..(d - 1) : q[z] # "/"
<1>1. /\ \A k \in a..b : f[k] \in c..d /\ f[k] \in Nat
      /\ \A k \in a..(b - 1) : f[k] <= f[k + 1]
  BY FitRises
<1>2. f[a] = c /\ f[b] = d /\ \A k \in a..(b - 1) : Takes(p, q, k, f[k], f[k + 1])
  BY DEF Fits
<1> DEFINE Goods == {i \in 0..(b - a) : \A z \in c..(f[a + i] - 1) : q[z] # "/"}
<1>3. 0 \in Goods
  <2>1. f[a + 0] = c /\ c..(c - 1) = {}
    BY <1>2
  <2> QED  BY <2>1
<1>4. ASSUME NEW i \in 1..(b - a), i - 1 \in Goods PROVE i \in Goods
  <2> DEFINE k == a + (i - 1)
             x == f[k]
             y == f[k + 1]
  <2>1. k \in a..(b - 1) /\ k \in a..b /\ k + 1 \in a..b /\ k + 1 = a + i
    OBVIOUS
  <2>2. x \in Nat /\ y \in Nat /\ c <= x /\ x <= y /\ Takes(p, q, k, x, y) /\ p[k] # "/"
    BY <1>1, <1>2, <2>1
  <2>3. \A z \in c..(x - 1) : q[z] # "/"
    BY <1>4
  <2>4. y = f[a + i]
    BY <2>1
  <2> HIDE DEF k, x, y
  <2>5. \A z \in x..(y - 1) : q[z] # "/"
    <3>1. CASE p[k] = "*"
      BY <2>2, <3>1 DEF Takes
    <3>2. CASE p[k] # "*"
      <4>1. y = x + 1 /\ q[x] # "/"
        BY <2>2, <3>2 DEF Takes
      <4>2. \A z \in x..(y - 1) : z = x
        BY <2>2, <4>1
      <4> QED  BY <4>1, <4>2
    <3> QED  BY <3>1, <3>2
  <2>6. ASSUME NEW z \in c..(y - 1) PROVE q[z] # "/"
    <3>1. z \in c..(x - 1) \/ z \in x..(y - 1)
      BY <2>2
    <3> QED  BY <2>3, <2>5, <3>1
  <2> QED  BY <2>4, <2>6
<1>5. \A i \in 0..(b - a) : i \in Goods
  <2>1. b - a \in Nat
    OBVIOUS
  <2> HIDE DEF Goods
  <2> QED  BY <1>3, <1>4, <2>1, ByInduction
<1>6. b - a \in 0..(b - a) /\ a + (b - a) = b
  OBVIOUS
<1>7. b - a \in Goods
  <2> HIDE DEF Goods
  <2> QED  BY <1>5, <1>6
<1>8. \A z \in c..(f[a + (b - a)] - 1) : q[z] # "/"
  BY <1>7
<1> QED  BY <1>2, <1>6, <1>8

(* Where the last slashes are, a match falls apart. *)
LEMMA CutAtSlash ==
    ASSUME NEW p, NEW q, NEW a \in Nat, NEW b \in Nat, NEW c \in Nat, NEW d \in Nat,
           NEW m \in a..(b - 1), NEW w \in c..(d - 1), p[m] = "/", q[w] = "/",
           \A k \in (m + 1)..(b - 1) : p[k] # "/",
           \A z \in (w + 1)..(d - 1) : q[z] # "/"
    PROVE  CanFit(p, q, a, b, c, d) <=> CanFit(p, q, a, m, c, w) /\ CanFit(p, q, m + 1, b, w + 1, d)
<1>1. ASSUME CanFit(p, q, a, b, c, d)
      PROVE  CanFit(p, q, a, m, c, w) /\ CanFit(p, q, m + 1, b, w + 1, d)
  <2>1. PICK f : Fits(p, q, f, a, b, c, d)
    BY <1>1 DEF CanFit
  <2>2. /\ f \in [a..b -> c..d] /\ f[a] = c /\ f[b] = d
        /\ \A k \in a..(b - 1) : Takes(p, q, k, f[k], f[k + 1])
    BY <2>1 DEF Fits
  <2>3. /\ \A k \in a..b : f[k] \in c..d /\ f[k] \in Nat
        /\ \A k \in a..b, l \in a..b : k <= l => f[k] <= f[l]
    BY <2>1, FitRises
  <2> DEFINE x == f[m]
             g == [k \in (m + 1)..b |-> f[k]]
             h == [k \in a..m |-> f[k]]
  <2>4. m \in a..b /\ m + 1 \in a..b /\ m \in a..(b - 1) /\ m \in Nat /\ w \in Nat
    OBVIOUS
  <2>5. x \in c..d /\ x \in Nat /\ Takes(p, q, m, x, f[m + 1])
    BY <2>2, <2>3, <2>4
  <2>6. f[m + 1] = x + 1 /\ q[x] = "/" /\ x \in c..(d - 1)
    <3>1. f[m + 1] = x + 1 /\ q[x] = "/"
      BY <2>5 DEF Takes
    <3>2. f[m + 1] \in c..d
      BY <2>3, <2>4
    <3> HIDE DEF x
    <3> QED  BY <2>5, <3>1, <3>2
  <2>7. Fits(p, q, g, m + 1, b, x + 1, d)
    <3>1. ASSUME NEW k \in (m + 1)..b PROVE f[k] \in (x + 1)..d
      <4>1. k \in a..b /\ m + 1 <= k
        BY <2>4
      <4>2. f[m + 1] <= f[k] /\ f[k] \in c..d
        BY <2>3, <2>4, <4>1
      <4> HIDE DEF x
      <4> QED  BY <2>5, <2>6, <4>2
    <3>2. g \in [(m + 1)..b -> (x + 1)..d]
      <4> HIDE DEF x
      <4> QED  BY <3>1
    <3>3. g[m + 1] = x + 1 /\ g[b] = d
      BY <2>2, <2>4, <2>6
    <3>4. \A k \in (m + 1)..(b - 1) : Takes(p, q, k, g[k], g[k + 1])
      <4> TAKE k \in (m + 1)..(b - 1)
      <4>1. k \in a..(b - 1) /\ g[k] = f[k] /\ g[k + 1] = f[k + 1]
        OBVIOUS
      <4> QED  BY <2>2, <4>1
    <3> HIDE DEF g, x
    <3> QED  BY <3>2, <3>3, <3>4 DEF Fits
  <2>8. \A z \in (x + 1)..(d - 1) : q[z] # "/"
    <3>1. m + 1 \in Nat /\ x + 1 \in Nat /\ m + 1 <= b
      <4> HIDE DEF x
      <4> QED  BY <2>4, <2>5
    <3> HIDE DEF g, x
    <3> QED  BY <2>7, <3>1, NoSlashTaken
  <2>9. x = w
    <3> HIDE DEF x
    <3>1. ~(x < w)
      <4> SUFFICES ASSUME x < w PROVE FALSE
        OBVIOUS
      <4>1. w \in (x + 1)..(d - 1)
        BY <2>5
      <4> QED  BY <2>8, <4>1
    <3>2. ~(w < x)
      <4> SUFFICES ASSUME w < x PROVE FALSE
        OBVIOUS
      <4>1. x \in (w + 1)..(d - 1)
        BY <2>5, <2>6
      <4> QED  BY <2>6, <4>1
    <3> QED  BY <2>4, <2>5, <3>1, <3>2
  <2>10. Fits(p, q, h, a, m, c, w)
    <3>1. ASSUME NEW k \in a..m PROVE f[k] \in c..w
      <4>1. k \in a..b /\ k <= m
        OBVIOUS
      <4>2. f[k] <= w /\ f[k] \in c..d
        BY <2>3, <2>4, <2>9, <4>1
      <4> QED  BY <4>2
    <3>2. h \in [a..m -> c..w]
      BY <3>1
    <3>3. h[a] = c /\ h[m] = w
      BY <2>2, <2>9
    <3>4. \A k \in a..(m - 1) : Takes(p, q, k, h[k], h[k + 1])
      <4> TAKE k \in a..(m - 1)
      <4>1. k \in a..(b - 1) /\ h[k] = f[k] /\ h[k + 1] = f[k + 1]
        OBVIOUS
      <4> QED  BY <2>2, <4>1
    <3> HIDE DEF h
    <3> QED  BY <3>2, <3>3, <3>4 DEF Fits
  <2> HIDE DEF g, h, x
  <2> QED  BY <2>7, <2>9, <2>10 DEF CanFit
<1>2. ASSUME CanFit(p, q, a, m, c, w), CanFit(p, q, m + 1, b, w + 1, d)
      PROVE  CanFit(p, q, a, b, c, d)
  <2>1. PICK h : Fits(p, q, h, a, m, c, w)
    BY <1>2 DEF CanFit
  <2>2. PICK g : Fits(p, q, g, m + 1, b, w + 1, d)
    BY <1>2 DEF CanFit
  <2>3. /\ h \in [a..m -> c..w] /\ h[a] = c /\ h[m] = w
        /\ \A k \in a..(m - 1) : Takes(p, q, k, h[k], h[k + 1])
    BY <2>1 DEF Fits
  <2>4. /\ g \in [(m + 1)..b -> (w + 1)..d] /\ g[m + 1] = w + 1 /\ g[b] = d
        /\ \A k \in (m + 1)..(b - 1) : Takes(p, q, k, g[k], g[k + 1])
    BY <2>2 DEF Fits
  <2> DEFINE f == [k \in a..b |-> IF k <= m THEN h[k] ELSE g[k]]
  <2>5. f \in [a..b -> c..d]
    <3> SUFFICES ASSUME NEW k \in a..b PROVE f[k] \in c..d
      OBVIOUS
    <3>1. CASE k \in a..m
      <4>1. f[k] = h[k] /\ h[k] \in c..w
        BY <2>3, <3>1
      <4> QED  BY <4>1
    <3>2. CASE k \in (m + 1)..b
      <4>1. f[k] = g[k] /\ g[k] \in (w + 1)..d
        BY <2>4, <3>2
      <4> QED  BY <4>1
    <3> QED  BY <3>1, <3>2
  <2>6. f[a] = c /\ f[b] = d
    BY <2>3, <2>4
  <2>7. ASSUME NEW k \in a..(b - 1) PROVE Takes(p, q, k, f[k], f[k + 1])
    <3>1. CASE k \in a..(m - 1)
      <4>1. f[k] = h[k] /\ f[k + 1] = h[k + 1]
        BY <3>1
      <4> QED  BY <2>3, <3>1, <4>1
    <3>2. CASE k = m
      <4>1. f[k] = w /\ f[k + 1] = w + 1
        BY <2>3, <2>4, <3>2
      <4> QED  BY <3>2, <4>1 DEF Takes
    <3>3. CASE k \in (m + 1)..(b - 1)
      <4>1. f[k] = g[k] /\ f[k + 1] = g[k + 1]
        BY <3>3
      <4> QED  BY <2>4, <3>3, <4>1
    <3>4. k \in a..(m - 1) \/ k = m \/ k \in (m + 1)..(b - 1)
      OBVIOUS
    <3> QED  BY <3>1, <3>2, <3>3, <3>4
  <2>8. Fits(p, q, f, a, b, c, d)
    BY <2>5, <2>6, <2>7 DEF Fits
  <2> HIDE DEF f
  <2> QED  BY <2>8 DEF CanFit
<1> QED  BY <1>1, <1>2

(* B holds the borders of the first n + 1 elements of s. *)
Marks(B, s, n) ==
    /\ B \in [0..(n + 1) -> 0..(Len(s) + 1)] /\ B[0] = 0
    /\ \A e \in 1..(n + 1) : /\ B[e - 1] < B[e]
                             /\ \A x \in (B[e - 1] + 1)..(B[e] - 1) : s[x] # "/"
    /\ \A e \in 1..n : s[B[e]] = "/"

(* The beginnings match up to their n-th slashes exactly if the elements     *)
(* between the slashes do.                                                   *)
LEMMA ElementsFit ==
    ASSUME NEW p, NEW q, Len(p) \in Nat, Len(q) \in Nat, NEW n \in Nat, NEW P, NEW Q,
           Marks(P, p, n), Marks(Q, q, n)
    PROVE  CanFit(p, q, 1, P[n + 1], 1, Q[n + 1])
             <=> \A e \in 1..(n + 1) : CanFit(p, q, P[e - 1] + 1, P[e], Q[e - 1] + 1, Q[e])
<1> DEFINE Part(e) == CanFit(p, q, P[e - 1] + 1, P[e], Q[e - 1] + 1, Q[e])
           Whole(e) == CanFit(p, q, 1, P[e], 1, Q[e])
           Goods == {i \in 0..n : Whole(i + 1) <=> \A e \in 1..(i + 1) : Part(e)}
<1>1. /\ \A e \in 0..(n + 1) : P[e] \in Nat /\ Q[e] \in Nat
      /\ P[0] = 0 /\ Q[0] = 0
      /\ \A e \in 1..(n + 1) : P[e - 1] < P[e] /\ Q[e - 1] < Q[e]
  BY DEF Marks
<1>2. /\ \A e \in 1..(n + 1) : /\ \A x \in (P[e - 1] + 1)..(P[e] - 1) : p[x] # "/"
                               /\ \A x \in (Q[e - 1] + 1)..(Q[e] - 1) : q[x] # "/"
      /\ \A e \in 1..n : p[P[e]] = "/" /\ q[Q[e]] = "/"
  BY DEF Marks
<1> HIDE DEF Marks
<1>3. 0 \in Goods
  <2>1. Whole(1) <=> Part(1)
    <3>1. P[1 - 1] + 1 = 1 /\ Q[1 - 1] + 1 = 1
      BY <1>1
    <3> QED  BY <3>1
  <2>2. \A e \in 1..(0 + 1) : e = 1
    OBVIOUS
  <2>3. 0 \in 0..n /\ 0 + 1 = 1 /\ 1 \in 1..(0 + 1)
    OBVIOUS
  <2> HIDE DEF Whole, Part
  <2> QED  BY <2>1, <2>2, <2>3
<1>4. ASSUME NEW i \in 1..n, i - 1 \in Goods PROVE i \in Goods
  <2>1. /\ i \in 0..n /\ i \in 0..(n + 1) /\ i + 1 \in 1..(n + 1) /\ i + 1 \in 0..(n + 1) /\ (i + 1) - 1 = i
        /\ (i - 1) + 1 = i /\ i \in 1..(n + 1) /\ i - 1 \in 0..(n + 1)
    OBVIOUS
  <2>2. /\ P[i] \in Nat /\ P[i + 1] \in Nat /\ Q[i] \in Nat /\ Q[i + 1] \in Nat
        /\ P[i - 1] \in Nat /\ Q[i - 1] \in Nat /\ P[i - 1] < P[i] /\ Q[i - 1] < Q[i]
        /\ P[i] < P[i + 1] /\ Q[i] < Q[i + 1]
    BY <1>1, <2>1
  <2>3. /\ p[P[i]] = "/" /\ q[Q[i]] = "/"
        /\ \A x \in (P[i] + 1)..(P[i + 1] - 1) : p[x] # "/"
        /\ \A x \in (Q[i] + 1)..(Q[i + 1] - 1) : q[x] # "/"
    BY <1>2, <2>1
  <2>4. Whole(i + 1) <=> Whole(i) /\ Part(i + 1)
    <3> DEFINE m == P[i]
               w == Q[i]
               b == P[i + 1]
               d == Q[i + 1]
               k == P[i - 1]
               l == Q[i - 1]
    <3>1. b \in Nat /\ d \in Nat /\ m \in 1..(b - 1) /\ w \in 1..(d - 1) /\ 1 \in Nat
      <4>1. /\ m \in Nat /\ w \in Nat /\ b \in Nat /\ d \in Nat /\ k \in Nat /\ l \in Nat
            /\ k < m /\ l < w /\ m < b /\ w < d
        BY <2>2
      <4> HIDE DEF m, w, b, d, k, l
      <4> QED  BY <4>1
    <3>2. /\ p[m] = "/" /\ q[w] = "/"
          /\ \A x \in (m + 1)..(b - 1) : p[x] # "/"
          /\ \A x \in (w + 1)..(d - 1) : q[x] # "/"
      BY <2>3
    <3>3. /\ Whole(i + 1) <=> CanFit(p, q, 1, b, 1, d)
          /\ Whole(i) <=> CanFit(p, q, 1, m, 1, w)
          /\ Part(i + 1) <=> CanFit(p, q, m + 1, b, w + 1, d)
      BY <2>1
    <3> HIDE DEF m, w, b, d, Whole, Part
    <3> QED  BY <3>1, <3>2, <3>3, CutAtSlash
  <2>5. Whole(i) <=> \A e \in 1..i : Part(e)
    BY <1>4, <2>1
  <2>6. 1..(i + 1) = 1..i \cup {i + 1}
    OBVIOUS
  <2> HIDE DEF Whole, Part
  <2> QED  BY <2>1, <2>4, <2>5, <2>6
<1>5. \A i \in 0..n : i \in Goods
  <2> HIDE DEF Goods
  <2> QED  BY <1>3, <1>4, ByInduction
<1>6. n \in 0..n
  OBVIOUS
<1> QED  BY <1>5, <1>6

(* The members of a set of numbers, counted from below. *)
Rank(S, i) == Cardinality({k \in S : k < i})

(* A part of a finite set that lacks a member is smaller. *)
LEMMA SmallerPart ==
    ASSUME NEW S, IsFiniteSet(S), NEW T, T \subseteq S, NEW x \in S, x \notin T
    PROVE  /\ IsFiniteSet(T) /\ Cardinality(T) \in Nat /\ Cardinality(S) \in Nat
           /\ Cardinality(T) < Cardinality(S)
<1>1. IsFiniteSet(T) /\ Cardinality(T) <= Cardinality(S) /\ Cardinality(S) # Cardinality(T)
  BY FS_Subset
<1>2. Cardinality(T) \in Nat /\ Cardinality(S) \in Nat
  BY <1>1, FS_CardinalityType
<1> QED  BY <1>1, <1>2

(* Of two members, the smaller has the smaller rank. *)
LEMMA RankRises ==
    ASSUME NEW S, S \subseteq Nat, IsFiniteSet(S), NEW i \in S, NEW j \in Nat, i < j
    PROVE  Rank(S, i) < Rank(S, j) /\ Rank(S, i) \in Nat /\ Rank(S, j) \in Nat
<1> DEFINE L == {k \in S : k < i}
           M == {k \in S : k < j}
<1>1. L \subseteq M /\ i \in M /\ i \notin L /\ M \subseteq S
  <2>1. ASSUME NEW k \in S, k < i PROVE k < j
    <3>1. k \in Nat /\ i \in Nat
      OBVIOUS
    <3> QED  BY <2>1, <3>1
  <2>2. i \in Nat
    OBVIOUS
  <2>3. ~(i < i)
    BY <2>2
  <2> QED  BY <2>1, <2>3
<1> HIDE DEF L, M
<1>2. IsFiniteSet(M)
  BY <1>1, FS_Subset
<1>3. Cardinality(L) < Cardinality(M) /\ Cardinality(L) \in Nat /\ Cardinality(M) \in Nat
  BY <1>1, <1>2, SmallerPart
<1> QED  BY <1>3 DEF Rank, L, M

(* Every rank below the number of members is taken. *)
LEMMA RankExists ==
    ASSUME NEW S, S \subseteq Nat, IsFiniteSet(S), S # {}
    PROVE  \A e \in 0..(Cardinality(S) - 1) : \E i \in S : Rank(S, i) = e
<1> DEFINE c == Cardinality(S)
           Goods == {e \in 0..(c - 1) : \E i \in S : Rank(S, i) = e}
<1>1. c \in Nat /\ c # 0
  BY FS_CardinalityType, FS_EmptySet
<1>2. 0 \in Goods
  <2>1. PICK m \in S : \A i \in S : m <= i
    BY LeastOne
  <2>2. {k \in S : k < m} = {}
    <3> SUFFICES ASSUME NEW k \in S, k < m PROVE FALSE
      OBVIOUS
    <3>1. k \in Nat /\ m \in Nat /\ m <= k
      BY <2>1
    <3> QED  BY <3>1
  <2>3. Rank(S, m) = 0
    BY <2>2, FS_EmptySet DEF Rank
  <2> HIDE DEF c
  <2> QED  BY <1>1, <2>1, <2>3
<1>3. ASSUME NEW e \in 1..(c - 1), e - 1 \in Goods PROVE e \in Goods
  <2>1. PICK i \in S : Rank(S, i) = e - 1
    BY <1>3
  <2> DEFINE L == {k \in S : k < i}
             U == {k \in S : i < k}
  <2>2. IsFiniteSet(L) /\ Cardinality(L) = e - 1 /\ i \notin L /\ i \in Nat
    <3>1. L \subseteq S
      OBVIOUS
    <3> QED  BY <2>1, <3>1, FS_Subset DEF Rank
  <2>3. IsFiniteSet(L \cup {i}) /\ Cardinality(L \cup {i}) = e
    <3> HIDE DEF L
    <3>1. IsFiniteSet(L \cup {i}) /\ Cardinality(L \cup {i}) = Cardinality(L) + 1
      BY <2>2, FS_AddElement
    <3> QED  BY <1>1, <2>2, <3>1
  <2>4. U # {}
    <3> SUFFICES ASSUME U = {} PROVE FALSE
      OBVIOUS
    <3>1. S = L \cup {i}
      <4>1. ASSUME NEW k \in S PROVE k < i \/ k = i
        <5>1. k \in Nat /\ ~(i < k)
          OBVIOUS
        <5> QED  BY <2>2, <5>1
      <4> QED  BY <4>1
    <3> HIDE DEF L
    <3>2. c = e
      BY <2>3, <3>1
    <3> HIDE DEF c
    <3> QED  BY <1>1, <3>2
  <2>5. PICK m \in U : \A k \in U : m <= k
    <3>1. U \subseteq Nat
      OBVIOUS
    <3> HIDE DEF U
    <3> QED  BY <2>4, <3>1, LeastOne
  <2>6. {k \in S : k < m} = L \cup {i}
    <3>1. ASSUME NEW k \in S, k < m PROVE k \in L \cup {i}
      <4>1. k \notin U /\ k \in Nat
        BY <2>5, <3>1
      <4> QED  BY <2>2, <4>1
    <3>2. ASSUME NEW k \in L \cup {i} PROVE k \in S /\ k < m
      BY <2>2, <2>5
    <3> QED  BY <3>1, <3>2
  <2>7. m \in S /\ Rank(S, m) = e
    BY <2>3, <2>5, <2>6 DEF Rank
  <2> HIDE DEF L, U, c
  <2> QED  BY <1>1, <2>7
<1>4. c - 1 \in Nat
  <2> HIDE DEF c
  <2> QED  BY <1>1
<1>5. \A e \in 0..(c - 1) : e \in Goods
  <2> HIDE DEF Goods, c
  <2> QED  BY <1>2, <1>3, <1>4, ByInduction
<1> QED  BY <1>5

(* Ranked finds the member of each rank, and they rise without a gap. *)
LEMMA RankedFinds ==
    ASSUME NEW S, S \subseteq Nat, IsFiniteSet(S), S # {}
    PROVE  /\ \A e \in 0..(Cardinality(S) - 1) : Ranked(S, e) \in S /\ Rank(S, Ranked(S, e)) = e
           /\ \A i \in S : Rank(S, i) \in 0..(Cardinality(S) - 1) /\ Ranked(S, Rank(S, i)) = i
           /\ \A i \in S, j \in S : Rank(S, i) < Rank(S, j) => i < j
<1>1. \A e \in 0..(Cardinality(S) - 1) : Ranked(S, e) \in S /\ Rank(S, Ranked(S, e)) = e
  <2> TAKE e \in 0..(Cardinality(S) - 1)
  <2>1. \E i \in S : Cardinality({k \in S : k < i}) = e
    BY RankExists DEF Rank
  <2> QED  BY <2>1 DEF Ranked, Rank
<1>2. \A i \in S, j \in S : Rank(S, i) < Rank(S, j) => i < j
  <2> SUFFICES ASSUME NEW i \in S, NEW j \in S, Rank(S, i) < Rank(S, j), ~(i < j) PROVE FALSE
    OBVIOUS
  <2>1. i \in Nat /\ j \in Nat
    OBVIOUS
  <2>2. CASE i = j
    <3>1. Rank(S, i) \in Nat
      <4>1. i < i + 1 /\ i + 1 \in Nat
        BY <2>1
      <4> QED  BY <4>1, RankRises
    <3> QED  BY <2>2, <3>1
  <2>3. CASE j < i
    <3>1. Rank(S, j) < Rank(S, i) /\ Rank(S, j) \in Nat /\ Rank(S, i) \in Nat
      BY <2>1, <2>3, RankRises
    <3> QED  BY <3>1
  <2> QED  BY <2>1, <2>2, <2>3
<1>3. \A i \in S : Rank(S, i) \in 0..(Cardinality(S) - 1) /\ Ranked(S, Rank(S, i)) = i
  <2> TAKE i \in S
  <2>1. Rank(S, i) \in 0..(Cardinality(S) - 1)
    <3> DEFINE L == {k \in S : k < i}
    <3>1. L \subseteq S /\ i \notin L
      OBVIOUS
    <3> HIDE DEF L
    <3>2. Cardinality(L) < Cardinality(S) /\ Cardinality(L) \in Nat /\ Cardinality(S) \in Nat
      BY <3>1, SmallerPart
    <3>4. Cardinality(L) \in 0..(Cardinality(S) - 1)
      BY <3>2
    <3> QED  BY <3>4 DEF L, Rank
  <2> DEFINE j == Ranked(S, Rank(S, i))
  <2>2. j \in S /\ Rank(S, j) = Rank(S, i)
    BY <1>1, <2>1
  <2> HIDE DEF j
  <2>3. j \in Nat /\ i \in Nat
    BY <2>2
  <2>4. ~(i < j) /\ ~(j < i)
    <3>1. i < j => Rank(S, i) < Rank(S, j) /\ Rank(S, i) \in Nat
      BY <2>2, <2>3, RankRises
    <3>2. j < i => Rank(S, j) < Rank(S, i) /\ Rank(S, i) \in Nat
      BY <2>2, <2>3, RankRises
    <3> QED  BY <2>2, <3>1, <3>2
  <2>5. j = i
    BY <2>3, <2>4
  <2> QED  BY <2>1, <2>5 DEF j
<1> QED  BY <1>1, <1>2, <1>3

Borders(s) == Slashes(s) \cup {0, Len(s) + 1}

(* A path has finitely many slashes, between its first and its last letter. *)
LEMMA SlashesFinite ==
    ASSUME NEW s \in Seq(Letter)
    PROVE  /\ Len(s) \in Nat /\ Slashes(s) \subseteq 1..Len(s)
           /\ IsFiniteSet(Slashes(s)) /\ Cardinality(Slashes(s)) \in Nat
<1>1. Len(s) \in Nat /\ DOMAIN s = 1..Len(s)
  OBVIOUS
<1>2. Slashes(s) \subseteq 1..Len(s)
  BY <1>1 DEF Slashes
<1>3. IsFiniteSet(1..Len(s))
  BY <1>1, FS_Interval
<1>4. IsFiniteSet(Slashes(s))
  BY <1>2, <1>3, FS_Subset
<1> QED  BY <1>1, <1>2, <1>4, FS_CardinalityType

(* The first border is the beginning, then come the slashes, then the end.   *)
LEMMA BordersRanked ==
    ASSUME NEW s \in Seq(Letter)
    PROVE  LET c == Cardinality(Slashes(s))
               S == Borders(s)
           IN  /\ S \subseteq 0..(Len(s) + 1) /\ IsFiniteSet(S) /\ Cardinality(S) = c + 2
               /\ Rank(S, 0) = 0
               /\ \A i \in Slashes(s) : Rank(Slashes(s), i) \in 0..(c - 1) /\ Rank(S, i) = Rank(Slashes(s), i) + 1
               /\ Rank(S, Len(s) + 1) = c + 1
<1> DEFINE T == Slashes(s)
           l == Len(s)
           c == Cardinality(T)
           U == T \cup {0}
<1>1. l \in Nat /\ T \subseteq 1..l /\ IsFiniteSet(T) /\ c \in Nat
  BY SlashesFinite
<1>2. Borders(s) = U \cup {l + 1}
  BY DEF Borders
<1> HIDE DEF T, l
<1>3. IsFiniteSet(U) /\ Cardinality(U) = c + 1 /\ U \subseteq 0..l
  <2>1. 0 \notin T /\ T \cup {0} \subseteq 0..l
    BY <1>1
  <2> QED  BY <1>1, <2>1, FS_AddElement
<1>4. IsFiniteSet(Borders(s)) /\ Cardinality(Borders(s)) = c + 2
  <2> HIDE DEF U, c
  <2>1. l + 1 \notin U
    BY <1>1, <1>3
  <2>2. /\ IsFiniteSet(U \cup {l + 1})
        /\ Cardinality(U \cup {l + 1}) = Cardinality(U) + 1
    BY <1>3, <2>1, FS_AddElement
  <2> QED  BY <1>1, <1>2, <1>3, <2>2
<1>5. Borders(s) \subseteq 0..(l + 1)
  <2>1. \A i \in U : i \in 0..(l + 1)
    <3> HIDE DEF U
    <3>1. \A i \in 0..l : i \in 0..(l + 1)
      BY <1>1
    <3> QED  BY <1>3, <3>1
  <2>2. l + 1 \in 0..(l + 1)
    BY <1>1
  <2> HIDE DEF U
  <2> QED  BY <1>2, <2>1, <2>2
<1>6. Rank(Borders(s), 0) = 0
  <2>1. ASSUME NEW k \in Borders(s) PROVE ~(k < 0)
    <3>1. k \in 0..(l + 1)
      BY <1>5
    <3> QED  BY <1>1, <3>1
  <2>2. {k \in Borders(s) : k < 0} = {}
    BY <2>1
  <2> QED  BY <2>2, FS_EmptySet DEF Rank
<1>7. ASSUME NEW i \in T PROVE Rank(T, i) \in 0..(c - 1) /\ Rank(Borders(s), i) = Rank(T, i) + 1
  <2> DEFINE L == {k \in T : k < i}
  <2>1. L \subseteq T /\ i \notin L /\ 0 \notin L /\ i \in 1..l
    <3>1. i \in 1..l /\ 0 \notin T
      BY <1>1
    <3>2. ~(i < i)
      BY <3>1
    <3> QED  BY <3>1, <3>2
  <2>2. IsFiniteSet(L) /\ Cardinality(L) \in Nat /\ Cardinality(L) < c
    <3> HIDE DEF L
    <3> QED  BY <1>1, <2>1, SmallerPart
  <2>3. {k \in Borders(s) : k < i} = L \cup {0}
    <3>1. 0 < i /\ ~(l + 1 < i)
      BY <1>1, <2>1
    <3> QED  BY <1>2, <3>1
  <2>4. Cardinality(L \cup {0}) = Cardinality(L) + 1
    <3> HIDE DEF L
    <3> QED  BY <2>1, <2>2, FS_AddElement
  <2>5. Cardinality(L) \in 0..(c - 1)
    <3> HIDE DEF L, c
    <3> QED  BY <1>1, <2>2
  <2>6. Rank(T, i) = Cardinality(L) /\ Rank(Borders(s), i) = Cardinality(L \cup {0})
    BY <2>3 DEF Rank
  <2> HIDE DEF L
  <2> QED  BY <2>4, <2>5, <2>6
<1>8. Rank(Borders(s), l + 1) = c + 1
  <2>1. ASSUME NEW k \in U PROVE k < l + 1
    <3>1. k \in 0..l
      BY <1>3
    <3> QED  BY <1>1, <3>1
  <2>2. ~(l + 1 < l + 1)
    BY <1>1
  <2>3. {k \in Borders(s) : k < l + 1} = U
    <3> HIDE DEF U
    <3> QED  BY <1>2, <2>1, <2>2
  <2> QED  BY <1>3, <2>3 DEF Rank
<1> QED  BY <1>4, <1>5, <1>6, <1>7, <1>8 DEF T, l

(* The borders mark the elements. *)
LEMMA BordersMark ==
    ASSUME NEW s \in Seq(Letter), NEW n \in 0..Cardinality(Slashes(s))
    PROVE  /\ Marks([e \in 0..(n + 1) |-> Ranked(Borders(s), e)], s, n)
           /\ n = Cardinality(Slashes(s)) => Ranked(Borders(s), n + 1) = Len(s) + 1
<1> DEFINE S == Borders(s)
           T == Slashes(s)
           c == Cardinality(T)
           l == Len(s)
           B == [e \in 0..(n + 1) |-> Ranked(S, e)]
<1>1. l \in Nat /\ T \subseteq 1..l /\ c \in Nat
  BY SlashesFinite
<1>2. /\ S \subseteq 0..(l + 1) /\ IsFiniteSet(S) /\ Cardinality(S) = c + 2
      /\ Rank(S, 0) = 0 /\ Rank(S, l + 1) = c + 1
  BY BordersRanked
<1>3. S = T \cup {0, l + 1}
  BY DEF Borders
<1>4. T = {i \in DOMAIN s : s[i] = "/"} /\ DOMAIN s = 1..l
  BY DEF Slashes
<1> HIDE DEF S, T, l
<1>5. /\ \A e \in 0..(c + 1) : Ranked(S, e) \in S /\ Rank(S, Ranked(S, e)) = e
      /\ \A i \in S : Rank(S, i) \in 0..(c + 1) /\ Ranked(S, Rank(S, i)) = i
      /\ \A i \in S, j \in S : Rank(S, i) < Rank(S, j) => i < j
  <2>1. S \subseteq Nat /\ S # {}
    <3>1. \A i \in 0..(l + 1) : i \in Nat
      OBVIOUS
    <3> QED  BY <1>2, <1>3, <3>1
  <2>2. (c + 2) - 1 = c + 1
    BY <1>1
  <2> HIDE DEF c
  <2>3. /\ \A e \in 0..((c + 2) - 1) : Ranked(S, e) \in S /\ Rank(S, Ranked(S, e)) = e
        /\ \A i \in S : Rank(S, i) \in 0..((c + 2) - 1) /\ Ranked(S, Rank(S, i)) = i
        /\ \A i \in S, j \in S : Rank(S, i) < Rank(S, j) => i < j
    BY <1>2, <2>1, RankedFinds
  <2> QED  BY <2>2, <2>3
<1>6. n \in Nat /\ n <= c /\ \A e \in 0..(n + 1) : e \in 0..(c + 1)
  BY <1>1 DEF T
<1> HIDE DEF c
<1>7. \A e \in 0..(n + 1) : B[e] \in S /\ Rank(S, B[e]) = e
  BY <1>5, <1>6
<1>8. Ranked(S, 0) = 0 /\ Ranked(S, c + 1) = l + 1
  <2>1. 0 \in S /\ l + 1 \in S
    BY <1>3
  <2> QED  BY <1>2, <1>5, <2>1
<1>9. B \in [0..(n + 1) -> 0..(l + 1)] /\ B[0] = 0
  <2>1. \A e \in 0..(n + 1) : Ranked(S, e) \in 0..(l + 1)
    BY <1>2, <1>7
  <2>2. 0 \in 0..(n + 1)
    BY <1>6
  <2> QED  BY <1>8, <2>1, <2>2
<1> HIDE DEF B
<1>10. ASSUME NEW e \in 1..(n + 1) PROVE B[e - 1] < B[e] /\ \A x \in (B[e - 1] + 1)..(B[e] - 1) : s[x] # "/"
  <2> DEFINE v == B[e - 1]
             w == B[e]
  <2>1. e \in 0..(n + 1) /\ e - 1 \in 0..(n + 1) /\ e - 1 < e
    BY <1>6
  <2>2. v \in S /\ w \in S /\ Rank(S, v) = e - 1 /\ Rank(S, w) = e
    BY <1>7, <2>1
  <2> HIDE DEF v, w
  <2>3. v < w /\ v \in 0..(l + 1) /\ w \in 0..(l + 1)
    BY <1>2, <1>5, <2>1, <2>2
  <2>4. ASSUME NEW x \in (v + 1)..(w - 1), s[x] = "/" PROVE FALSE
    <3>1. x \in 1..l /\ v < x /\ x < w
      BY <1>1, <2>3
    <3>2. x \in S /\ x \in Nat
      BY <1>3, <1>4, <2>4, <3>1
    <3>3. Rank(S, x) \in Nat
      BY <1>5, <3>2
    <3>4. ~(Rank(S, x) <= e - 1)
      <4>1. S \subseteq Nat /\ v \in S
        <5>1. \A i \in 0..(l + 1) : i \in Nat
          OBVIOUS
        <5> QED  BY <1>2, <2>2, <5>1
      <4>2. Rank(S, v) < Rank(S, x)
        BY <1>2, <3>1, <3>2, <4>1, RankRises
      <4> QED  BY <2>1, <2>2, <3>3, <4>2
    <3>5. ~(e <= Rank(S, x))
      <4>1. S \subseteq Nat /\ w \in Nat
        <5>1. \A i \in 0..(l + 1) : i \in Nat
          OBVIOUS
        <5> QED  BY <1>2, <2>3, <5>1
      <4>2. Rank(S, x) < Rank(S, w)
        BY <1>2, <3>1, <3>2, <4>1, RankRises
      <4> QED  BY <2>1, <2>2, <3>3, <4>2
    <3> QED  BY <2>1, <3>3, <3>4, <3>5
  <2> QED  BY <2>3, <2>4 DEF v, w
<1>11. ASSUME NEW e \in 1..n PROVE s[B[e]] = "/"
  <2>1. e \in 0..(n + 1) /\ e # 0 /\ e # c + 1
    BY <1>1, <1>6
  <2>2. B[e] \in S /\ Rank(S, B[e]) = e
    BY <1>7, <2>1
  <2>3. B[e] # 0 /\ B[e] # l + 1
    BY <1>2, <2>1, <2>2
  <2>4. B[e] \in T
    BY <1>3, <2>2, <2>3
  <2> QED  BY <1>4, <2>4
<1>12. Marks(B, s, n)
  BY <1>9, <1>10, <1>11 DEF Marks, l
<1> QED  BY <1>8, <1>12 DEF B, S, T, c, l

(* What the elements and the beginning of a path are, by the borders.        *)
LEMMA ElementsMarked ==
    ASSUME NEW s \in Seq(Letter), NEW n \in 0..Cardinality(Slashes(s))
    PROVE  LET B == [e \in 0..(n + 1) |-> Ranked(Borders(s), e)]
           IN  /\ Marks(B, s, n)
               /\ n = Cardinality(Slashes(s)) => B[n + 1] = Len(s) + 1
               /\ DOMAIN Elements(s) = 1..(Cardinality(Slashes(s)) + 1)
               /\ Len(Elements(s)) = Cardinality(Slashes(s)) + 1
               /\ \A e \in 1..(n + 1) : Elements(s)[e] = SubSeq(s, B[e - 1] + 1, B[e] - 1)
               /\ PrefixOf(s, n) = SubSeq(s, 1, B[n + 1] - 1)
<1> DEFINE S == Borders(s)
           T == Slashes(s)
           c == Cardinality(T)
           B == [e \in 0..(n + 1) |-> Ranked(S, e)]
           l == Len(s)
           border == [e \in 0..(c + 1) |-> Ranked(S, e)]
           E == [e \in 1..(c + 1) |-> SubSeq(s, border[e - 1] + 1, border[e] - 1)]
<1>1. l \in Nat /\ c \in Nat /\ n \in Nat /\ n <= c /\ IsFiniteSet(T) /\ T \subseteq 1..l
  BY SlashesFinite
<1>2. Elements(s) = E
  BY DEF Elements, Borders
<1> HIDE DEF S, T, l
<1>3. Marks(B, s, n) /\ (n = c => B[n + 1] = l + 1)
  <2>1. n + 1 \in 0..(n + 1)
    BY <1>1
  <2>2. Marks(B, s, n) /\ (n = c => Ranked(S, n + 1) = l + 1)
    BY BordersMark DEF S, T, l
  <2>3. B[n + 1] = Ranked(S, n + 1)
    BY <2>1
  <2> HIDE DEF B
  <2> QED  BY <2>2, <2>3
<1>4. \A e \in 1..(n + 1) : E[e] = SubSeq(s, B[e - 1] + 1, B[e] - 1)
  <2> TAKE e \in 1..(n + 1)
  <2>1. /\ e \in 1..(c + 1) /\ e \in 0..(c + 1) /\ e - 1 \in 0..(c + 1)
        /\ e \in 0..(n + 1) /\ e - 1 \in 0..(n + 1)
    <3> HIDE DEF c
    <3> QED  BY <1>1
  <2>2. border[e] = B[e] /\ border[e - 1] = B[e - 1]
    <3> HIDE DEF c
    <3> QED  BY <2>1
  <2> HIDE DEF border, B, c
  <2> QED  BY <2>1, <2>2
<1>5. DOMAIN E = 1..(c + 1) /\ Len(E) = c + 1
  <2> HIDE DEF border, c
  <2>1. c + 1 \in Nat /\ DOMAIN E = 1..(c + 1)
    BY <1>1
  <2> QED  BY <2>1
<1>6. PrefixOf(s, n) = SubSeq(s, 1, B[n + 1] - 1)
  <2> DEFINE ends == {i \in T : Rank(T, i) = n}
  <2>1. PrefixOf(s, n) = IF ends = {} THEN s ELSE SubSeq(s, 1, (CHOOSE i \in ends : TRUE) - 1)
    BY DEF PrefixOf, Rank, T
  <2>2. \A i \in T : Rank(T, i) \in 0..(c - 1) /\ Rank(S, i) = Rank(T, i) + 1
    BY BordersRanked DEF S, T
  <2>3. CASE n = c
    <3>1. ends = {}
      <4> SUFFICES ASSUME NEW i \in ends PROVE FALSE
        OBVIOUS
      <4>1. n \in 0..(c - 1)
        BY <2>2
      <4> HIDE DEF c, ends
      <4> QED  BY <1>1, <2>3, <4>1
    <3>2. B[n + 1] - 1 = l
      <4> HIDE DEF B, c
      <4> QED  BY <1>1, <1>3, <2>3
    <3>3. SubSeq(s, 1, l) = s
      BY SubSeqFull DEF l
    <3> HIDE DEF ends, B
    <3> QED  BY <2>1, <3>1, <3>2, <3>3
  <2>4. CASE n # c
    <3> DEFINE i == CHOOSE i \in ends : TRUE
    <3>1. ends # {}
      <4>1. T # {} /\ n \in 0..(c - 1) /\ T \subseteq Nat
        <5>1. n < c
          <6> HIDE DEF c
          <6> QED  BY <1>1, <2>4
        <5>2. T # {}
          <6> SUFFICES ASSUME T = {} PROVE FALSE
            OBVIOUS
          <6>1. c = 0
            BY FS_EmptySet
          <6> HIDE DEF c
          <6> QED  BY <1>1, <5>1, <6>1
        <5>3. \A k \in 1..l : k \in Nat
          OBVIOUS
        <5>4. n \in 0..(c - 1)
          <6> HIDE DEF c
          <6> QED  BY <1>1, <5>1
        <5> QED  BY <1>1, <5>2, <5>3, <5>4
      <4>2. \A e \in 0..(c - 1) : \E k \in T : Rank(T, k) = e
        BY <1>1, <4>1, RankExists
      <4>3. \E k \in T : Rank(T, k) = n
        BY <4>1, <4>2
      <4> QED  BY <4>3
    <3>2. i \in ends
      BY <3>1
    <3>3. i \in T /\ Rank(S, i) = n + 1
      <4> HIDE DEF i
      <4> QED  BY <2>2, <3>2
    <3> HIDE DEF i, ends, c
    <3>4. Ranked(S, n + 1) = i
      <4>1. S \subseteq 0..(l + 1) /\ IsFiniteSet(S) /\ i \in S
        <5>1. i \in S
          BY <3>3 DEF S, T, Borders
        <5> QED  BY <5>1, BordersRanked DEF S, l
      <4>2. S \subseteq Nat /\ S # {}
        <5>1. \A k \in 0..(l + 1) : k \in Nat
          OBVIOUS
        <5> QED  BY <4>1, <5>1
      <4>3. Ranked(S, Rank(S, i)) = i
        BY <4>1, <4>2, RankedFinds
      <4> QED  BY <3>3, <4>3
    <3>5. B[n + 1] = i
      <4>1. n + 1 \in 0..(n + 1)
        BY <1>1
      <4> QED  BY <3>4, <4>1
    <3> HIDE DEF B
    <3> QED  BY <2>1, <3>1, <3>5 DEF i
  <2> QED  BY <2>3, <2>4
<1> HIDE DEF E, border
<1> QED  BY <1>2, <1>3, <1>4, <1>5, <1>6 DEF S, T, l

(* Beginnings that hold as many slashes match exactly if their elements do. *)
LEMMA MarkedMatch ==
    ASSUME NEW p \in Seq(Letter), NEW q \in Seq(Letter), NEW n \in Nat, NEW P, NEW Q,
           Marks(P, p, n), Marks(Q, q, n)
    PROVE  PathMatch(SubSeq(p, 1, P[n + 1] - 1), SubSeq(q, 1, Q[n + 1] - 1))
             <=> \A e \in 1..(n + 1) : PathMatch(SubSeq(p, P[e - 1] + 1, P[e] - 1),
                                                 SubSeq(q, Q[e - 1] + 1, Q[e] - 1))
<1>1. Len(p) \in Nat /\ Len(q) \in Nat
  OBVIOUS
<1>2. /\ \A e \in 0..(n + 1) : P[e] \in 0..(Len(p) + 1) /\ Q[e] \in 0..(Len(q) + 1)
      /\ P[0] = 0 /\ Q[0] = 0
      /\ \A e \in 1..(n + 1) : P[e - 1] < P[e] /\ Q[e - 1] < Q[e]
  BY DEF Marks
<1>3. ASSUME NEW e \in 1..(n + 1)
      PROVE  PathMatch(SubSeq(p, P[e - 1] + 1, P[e] - 1), SubSeq(q, Q[e - 1] + 1, Q[e] - 1))
               <=> CanFit(p, q, P[e - 1] + 1, P[e], Q[e - 1] + 1, Q[e])
  <2> DEFINE v == P[e - 1]
             w == P[e]
             x == Q[e - 1]
             y == Q[e]
             a == v + 1
             c == x + 1
  <2>1. e \in 0..(n + 1) /\ e - 1 \in 0..(n + 1)
    OBVIOUS
  <2>2. /\ v \in 0..(Len(p) + 1) /\ w \in 0..(Len(p) + 1) /\ v < w
        /\ x \in 0..(Len(q) + 1) /\ y \in 0..(Len(q) + 1) /\ x < y
    BY <1>2, <2>1
  <2>3. /\ a \in 1..(Len(p) + 1) /\ w \in a..(Len(p) + 1)
        /\ c \in 1..(Len(q) + 1) /\ y \in c..(Len(q) + 1)
    <3> HIDE DEF v, w, x, y
    <3> QED  BY <1>1, <2>2
  <2> HIDE DEF v, w, x, y, a, c
  <2>4. PathMatch(SubSeq(p, a, w - 1), SubSeq(q, c, y - 1)) <=> CanFit(p, q, a, w, c, y)
    BY <2>3, PartMatches
  <2> QED  BY <2>4 DEF v, w, x, y, a, c
<1>4. PathMatch(SubSeq(p, 1, P[n + 1] - 1), SubSeq(q, 1, Q[n + 1] - 1))
        <=> CanFit(p, q, 1, P[n + 1], 1, Q[n + 1])
  <2> DEFINE v == P[n]
             w == P[n + 1]
             x == Q[n]
             y == Q[n + 1]
  <2>1. n \in 0..(n + 1) /\ n + 1 \in 0..(n + 1) /\ n + 1 \in 1..(n + 1) /\ (n + 1) - 1 = n
    OBVIOUS
  <2>2. /\ v \in 0..(Len(p) + 1) /\ w \in 0..(Len(p) + 1) /\ v < w
        /\ x \in 0..(Len(q) + 1) /\ y \in 0..(Len(q) + 1) /\ x < y
    BY <1>2, <2>1
  <2> HIDE DEF v, w, x, y
  <2>3. /\ 1 \in 1..(Len(p) + 1) /\ w \in 1..(Len(p) + 1)
        /\ 1 \in 1..(Len(q) + 1) /\ y \in 1..(Len(q) + 1)
    BY <1>1, <2>2
  <2>4. PathMatch(SubSeq(p, 1, w - 1), SubSeq(q, 1, y - 1)) <=> CanFit(p, q, 1, w, 1, y)
    BY <2>3, PartMatches
  <2> QED  BY <2>4 DEF w, y
<1>5. CanFit(p, q, 1, P[n + 1], 1, Q[n + 1])
        <=> \A e \in 1..(n + 1) : CanFit(p, q, P[e - 1] + 1, P[e], Q[e - 1] + 1, Q[e])
  BY <1>1, ElementsFit
<1> QED  BY <1>3, <1>4, <1>5

(* One pattern hides a path exactly if its elements match the first ones.    *)
LEMMA PrefixByElements ==
    ASSUME NEW p \in Seq(Letter), NEW q \in Seq(Letter)
    PROVE  (/\ Cardinality(Slashes(q)) >= Cardinality(Slashes(p))
            /\ PathMatch(p, PrefixOf(q, Cardinality(Slashes(p)))))
             <=> (/\ Len(Elements(q)) >= Len(Elements(p))
                  /\ \A e \in DOMAIN Elements(p) : PathMatch(Elements(p)[e], Elements(q)[e]))
<1> DEFINE n == Cardinality(Slashes(p))
           c == Cardinality(Slashes(q))
           P == [e \in 0..(n + 1) |-> Ranked(Borders(p), e)]
           Q == [e \in 0..(n + 1) |-> Ranked(Borders(q), e)]
           EP == Elements(p)
           EQ == Elements(q)
<1>1. n \in Nat /\ c \in Nat
  BY SlashesFinite
<1>2. n \in 0..n
  <2> HIDE DEF n
  <2> QED  BY <1>1
<1>3. /\ Marks(P, p, n) /\ P[n + 1] = Len(p) + 1
      /\ DOMAIN EP = 1..(n + 1) /\ Len(EP) = n + 1
      /\ \A e \in 1..(n + 1) : EP[e] = SubSeq(p, P[e - 1] + 1, P[e] - 1)
  BY <1>2, ElementsMarked
<1>4. Len(EQ) = c + 1
  <2>1. c \in 0..c
    <3> HIDE DEF c
    <3> QED  BY <1>1
  <2> QED  BY <2>1, ElementsMarked
<1>5. SubSeq(p, 1, P[n + 1] - 1) = p
  <2>1. Len(p) \in Nat /\ SubSeq(p, 1, Len(p)) = p
    BY SubSeqFull
  <2>2. P[n + 1] - 1 = Len(p)
    <3> HIDE DEF P, n
    <3> QED  BY <1>3, <2>1
  <2> HIDE DEF P, n
  <2> QED  BY <2>1, <2>2
<1>6. Len(EQ) >= Len(EP) <=> c >= n
  <2> HIDE DEF EP, EQ, c, n
  <2> QED  BY <1>1, <1>3, <1>4
<1>7. ASSUME c >= n
      PROVE  PathMatch(p, PrefixOf(q, n)) <=> \A e \in DOMAIN EP : PathMatch(EP[e], EQ[e])
  <2>1. n \in 0..c
    <3> HIDE DEF c, n
    <3> QED  BY <1>1, <1>7
  <2>2. /\ Marks(Q, q, n)
        /\ \A e \in 1..(n + 1) : EQ[e] = SubSeq(q, Q[e - 1] + 1, Q[e] - 1)
        /\ PrefixOf(q, n) = SubSeq(q, 1, Q[n + 1] - 1)
    BY <2>1, ElementsMarked
  <2> HIDE DEF P, Q, n, c, EP, EQ
  <2>3. PathMatch(SubSeq(p, 1, P[n + 1] - 1), SubSeq(q, 1, Q[n + 1] - 1))
          <=> \A e \in 1..(n + 1) : PathMatch(SubSeq(p, P[e - 1] + 1, P[e] - 1),
                                              SubSeq(q, Q[e - 1] + 1, Q[e] - 1))
    BY <1>1, <1>3, <2>2, MarkedMatch
  <2>4. PathMatch(p, PrefixOf(q, n)) <=> \A e \in 1..(n + 1) : PathMatch(EP[e], EQ[e])
    BY <1>3, <1>5, <2>2, <2>3
  <2> QED  BY <1>3, <2>4
<1> HIDE DEF EP, EQ, P, Q
<1> QED  BY <1>6, <1>7 DEF EP, EQ

(* A pattern without its last slash is a pattern. *)
LEMMA TrimmedIsText ==
    ASSUME NEW s \in Seq(Letter)
    PROVE  TrimSlash(s) \in Seq(Letter)
<1>1. CASE s # <<>>
  <2>1. Len(s) \in Nat /\ Len(s) - 1 \in Int /\ \A i \in 1..(Len(s) - 1) : s[i] \in Letter
    OBVIOUS
  <2>2. SubSeq(s, 1, Len(s) - 1) \in Seq(Letter)
    BY <2>1, SubSeqProperties
  <2> QED  BY <2>2 DEF TrimSlash, Front
<1>2. CASE s = <<>>
  BY <1>2 DEF TrimSlash
<1> QED  BY <1>1, <1>2

(* Patterns hide exactly the paths whose first elements they match. *)
LEMMA PrivateRightly ==
    ASSUME NEW q \in Seq(Letter), NEW parts \in Seq(Seq(Letter))
    PROVE  PrivateByElements(q, parts)
<1> DEFINE NamedBy(s) == /\ TrimSlash(s) # <<>>
                       /\ Len(Elements(q)) >= Len(Elements(TrimSlash(s)))
                       /\ \A e \in DOMAIN Elements(TrimSlash(s)) :
                            PathMatch(Elements(TrimSlash(s))[e], Elements(q)[e])
<1>1. ASSUME NEW s \in Seq(Letter) PROVE matchesPrefixPattern(s, q) <=> NamedBy(s)
  <2> DEFINE p == TrimSlash(s)
  <2>1. p \in Seq(Letter)
    BY TrimmedIsText
  <2>2. matchesPrefixPattern(s, q)
          <=> p # <<>> /\ Cardinality(Slashes(q)) >= Cardinality(Slashes(p))
              /\ PathMatch(p, PrefixOf(q, Cardinality(Slashes(p))))
    BY DEF matchesPrefixPattern
  <2>3. NamedBy(s) <=> p # <<>> /\ Len(Elements(q)) >= Len(Elements(p))
                     /\ \A e \in DOMAIN Elements(p) : PathMatch(Elements(p)[e], Elements(q)[e])
    OBVIOUS
  <2> HIDE DEF p, NamedBy
  <2>4. (/\ Cardinality(Slashes(q)) >= Cardinality(Slashes(p))
         /\ PathMatch(p, PrefixOf(q, Cardinality(Slashes(p)))))
          <=> (/\ Len(Elements(q)) >= Len(Elements(p))
               /\ \A e \in DOMAIN Elements(p) : PathMatch(Elements(p)[e], Elements(q)[e]))
    BY <2>1, PrefixByElements
  <2> QED  BY <2>2, <2>3, <2>4
<1>2. PrivateByElements(q, parts)
        <=> (matchesAnyPattern(q, splitPatterns(parts)) <=> \E i \in DOMAIN parts : NamedBy(parts[i]))
  BY DEF PrivateByElements
<1>3. ~NamedBy(<<>>)
  BY DEF TrimSlash
<1> HIDE DEF NamedBy
<1>4. splitPatterns(parts) = {s \in {parts[i] : i \in DOMAIN parts} : s # <<>>}
  BY DEF splitPatterns, Range
<1>5. matchesAnyPattern(q, splitPatterns(parts))
        <=> \E i \in DOMAIN parts : parts[i] # <<>> /\ matchesPrefixPattern(parts[i], q)
  BY <1>4 DEF matchesAnyPattern
<1>6. \A i \in DOMAIN parts : parts[i] \in Seq(Letter)
  OBVIOUS
<1> QED  BY <1>1, <1>2, <1>3, <1>5, <1>6

(* src/pattern.go matchesAnyPattern: a module is private exactly when the    *)
(* elements of one of the patterns of GONOPROXY, one slash at its end not    *)
(* counted, match the first elements of its path, whatever the wildcards in  *)
(* the pattern; an empty part of the value hides nothing.                    *)
THEOREM PrivateModulesExactly == Spec => []PrivateExactly
<1>1. Init => PrivateExactly
  <2> SUFFICES ASSUME Init, input.of = "pattern"
               PROVE  PrivateByElements(input.path, input.parts)
    BY DEF PrivateExactly
  <2>1. input.path \in Seq(Letter) /\ input.parts \in Seq(Seq(Letter))
    BY CallAssumption DEF Init
  <2> QED  BY <2>1, PrivateRightly
<1>2. PrivateExactly /\ [Next]_input => PrivateExactly'
  BY DEF PrivateExactly, Next
<1> QED  BY <1>1, <1>2, PTL DEF Spec
=============================================================================
