-------------------------- MODULE ModuleAuditProofs --------------------------
(* Proofs about ModuleAudit for every module, pin, cap and family of         *)
(* predecessors, whichever requests fail.                                    *)
EXTENDS ModuleAudit, FiniteSetTheorems, WellFoundedInduction, TLAPS

-----------------------------------------------------------------------------
(* The walk, for every cap, every suffix and every family of predecessors.   *)

(* One Lookup sends at most five requests, whichever of them fail.           *)
LEMMA FiveRequests ==
    ASSUME NEW f, NEW failed
    PROVE  Cardinality(Sent(f, failed)) \in 0..5
<1> DEFINE one == {"latest"}
           two == one \cup {"list"}
           three == two \cup {"legacy"}
           four == three \cup {"mod"}
           five == four \cup {"info"}
<1>1. IsFiniteSet(one) /\ Cardinality(one) = 1
  BY FS_Singleton
<1>2. IsFiniteSet(two) /\ Cardinality(two) = 2
  BY <1>1, FS_AddElement
<1>3. IsFiniteSet(three) /\ Cardinality(three) = 3
  BY <1>2, FS_AddElement
<1>4. IsFiniteSet(four) /\ Cardinality(four) = 4
  BY <1>3, FS_AddElement
<1>5. IsFiniteSet(five) /\ Cardinality(five) = 5
  BY <1>4, FS_AddElement
<1>6. Sent(f, failed) \in SUBSET five
  BY DEF Sent, Requests
<1>7. /\ IsFiniteSet(Sent(f, failed))
      /\ Cardinality(Sent(f, failed)) <= 5
  BY <1>5, <1>6, FS_Subset
<1> HIDE DEF five
<1> QED
  BY <1>7, FS_CardinalityType

-----------------------------------------------------------------------------
(* WalkCount with the types it needs.                                        *)
CountInv ==
    /\ major \in Nat /\ m \in Int /\ asked \in BOOLEAN
    /\ stage \in {"idle", "suffixed", "implicit", "ended"}
    /\ lookups \in Nat /\ requests \in Nat
    /\ WalkCount

(* What a step that ends the walk, or goes one predecessor back, does to the *)
(* stage and to m.                                                           *)
LEMMA WeighMoves ==
    ASSUME NEW s, Weigh(s)
    PROVE  \/ stage' = "ended" /\ m' = m
           \/ stage' = "suffixed" /\ m' = m - 1
BY DEF Weigh, End, GoBack

LEMMA CountInit == ASSUME WalkAssumption, WalkInit PROVE CountInv
<1>1. major \in Nat
  BY DEF WalkAssumption, WalkInit
<1>2. m = 0 /\ lookups = 0 /\ requests = 0 /\ stage = "idle"
  BY DEF WalkInit
<1>3. asked \in BOOLEAN
  BY DEF WalkInit
<1>4. WalkCount
  BY <1>2 DEF WalkCount
<1> QED
  BY <1>1, <1>2, <1>3, <1>4 DEF CountInv

LEMMA CountStep == ASSUME WalkAssumption, CountInv, [WalkNext]_walkVars PROVE CountInv'
<1> USE DEF CountInv, WalkCount, Unit, WalkAssumption, walkWorld
<1>1. CASE Begin
  <2>1. /\ stage = "idle" /\ stage' \in {"suffixed", "ended"}
        /\ m' = major - 1 /\ lookups' = 0 /\ asked' = FALSE
        /\ major' = major /\ requests' = requests
    BY <1>1 DEF Begin
  <2>2. Unit' = 0 /\ asked' \in BOOLEAN
    BY <2>1
  <2>3. requests' <= 5 * lookups'
    BY <2>1
  <2>4. WalkCount'
    <3>1. major' - 1 - WalkCap <= m' /\ m' <= major' - 1
      BY <2>1
    <3>2. lookups' = major' - 1 - m' + Unit' /\ lookups' <= WalkCap + 1
      BY <2>1, <2>2
    <3> HIDE DEF Unit
    <3> QED
      BY <2>1, <2>3, <3>1, <3>2
  <2> HIDE DEF WalkCount
  <2> QED
    BY <2>1, <2>2, <2>4
<1>2. CASE RunsOut
  BY <1>2 DEF RunsOut, End, InReach
<1>3. CASE AskPredecessor
  <2>1. PICK failed \in Failures(family[m]) :
          /\ requests' = requests + Cardinality(Sent(family[m], failed))
          /\ \/ stage' = "ended" /\ m' = m
             \/ stage' = "suffixed" /\ m' = m - 1
             \/ stage' = "implicit" /\ m' = m /\ ~asked
    <3>1. PICK failed \in Failures(family[m]) :
            LET answer == Lookup(family[m], failed)
            IN  /\ requests' = requests + Cardinality(Sent(family[m], failed))
                /\ \/ Weigh(answer)
                   \/ End(FALSE)
                   \/ Weigh(implicit)
                   \/ stage' = "implicit" /\ m' = m /\ ~asked
      BY <1>3 DEF AskPredecessor, WeighImplicit
    <3> QED
      BY <3>1, WeighMoves DEF End
  <2>2. Cardinality(Sent(family[m], failed)) \in 0..5
    BY FiveRequests
  <2>3. requests' \in Nat /\ requests' <= 5 * lookups'
    BY <1>3, <2>1, <2>2 DEF AskPredecessor
  <2>4. /\ m > major - 1 - WalkCap /\ lookups' = lookups + 1
        /\ stage = "suffixed" /\ asked' = asked /\ major' = major
    BY <1>3 DEF AskPredecessor, InReach
  <2> QED
    BY <2>1, <2>3, <2>4
<1>4. CASE AskImplicit
  <2>1. PICK failed \in Failures(family[1]) :
          requests' = requests + Cardinality(Sent(family[1], failed))
    BY <1>4 DEF AskImplicit
  <2>2. \/ stage' = "ended" /\ m' = m
        \/ stage' = "suffixed" /\ m' = m - 1
    BY <1>4, WeighMoves DEF AskImplicit, WeighImplicit, End
  <2>3. Cardinality(Sent(family[1], failed)) \in 0..5
    BY FiveRequests
  <2>4. requests' \in Nat /\ requests' <= 5 * lookups'
    BY <1>4, <2>1, <2>3 DEF AskImplicit
  <2>5. stage = "implicit" /\ lookups' = lookups + 1 /\ asked' = TRUE /\ major' = major
    BY <1>4 DEF AskImplicit, Remember
  <2> QED
    BY <2>2, <2>4, <2>5
<1>5. CASE Walked \/ UNCHANGED walkVars
  BY <1>5 DEF Walked, walkVars
<1> QED
  BY <1>1, <1>2, <1>3, <1>4, <1>5 DEF WalkNext, WalkStep

THEOREM CountInvariant == ASSUME WalkAssumption PROVE WalkSpec => []CountInv
<1>1. WalkInit => CountInv
  BY CountInit
<1>2. CountInv /\ [WalkNext]_walkVars => CountInv'
  BY CountStep
<1> QED
  BY <1>1, <1>2, PTL DEF WalkSpec

(* For every cap, a walk makes at most that many Lookups and one more, and   *)
(* at most five times as many requests, whatever the proxy answers and       *)
(* whichever requests fail: majorVersionWalkBackCap bounds the work a        *)
(* crafted module path can cause.                                            *)
THEOREM WalkIsBounded == ASSUME WalkAssumption PROVE WalkSpec => []BoundedWalk
<1>1. ASSUME CountInv PROVE BoundedWalk
  <2>1. lookups <= WalkCap + 1
    BY <1>1 DEF CountInv, WalkCount, Unit, WalkAssumption
  <2> QED
    BY <1>1, <2>1 DEF CountInv, WalkCount, BoundedWalk, WalkAssumption
<1> QED
  BY <1>1, CountInvariant, PTL

-----------------------------------------------------------------------------
(* Failed requests take evidence away, but for the one that tells the age of *)
(* an only tag, and there LatestAssumption helps: what makes a Lookup look   *)
(* established is there when nothing fails.                                  *)
LEMMA EvidenceSurvives ==
    ASSUME NEW f \in Facts, NEW failed \in Failures(f),
           \A v \in Recent : f.tags = {v} => f.latest \in Recent,
           Lookup(f, failed).exists, Established(Lookup(f, failed))
    PROVE  Lookup(f, {}).exists /\ Established(Lookup(f, {}))
<1> DEFINE lines == IF "list" \in failed THEN {} ELSE f.tags
<1>1. f.served \in {"ok", "unresolved", "malware", "private"} /\ f.tags \in SUBSET Version
  BY DEF Facts
<1>2. f.served = "ok" /\ "latest" \notin failed
  BY <1>1 DEF Lookup, Absent
<1>3. Lookup(f, failed) = Found(f, failed) /\ Lookup(f, {}) = Found(f, {})
  BY <1>2 DEF Lookup
<1>4. /\ Found(f, failed).count = Cardinality(lines)
      /\ Found(f, failed).latest = IF Cardinality(lines) = 1 /\ "info" \notin failed
                                   THEN Highest(lines) ELSE f.latest
  BY DEF Found
<1>5. /\ Found(f, {}).exists
      /\ Found(f, {}).count = Cardinality(f.tags)
      /\ Found(f, {}).latest = IF Cardinality(f.tags) = 1 THEN Highest(f.tags) ELSE f.latest
  BY DEF Found
<1>6. Cardinality({}) = 0
  BY FS_EmptySet
<1>7. CASE Cardinality(lines) > 1
  BY <1>3, <1>5, <1>6, <1>7 DEF Established
<1>8. CASE ~(Cardinality(lines) > 1)
  <2>1. Found(f, failed).latest \notin Recent
    BY <1>3, <1>4, <1>8 DEF Established
  <2>2. CASE Cardinality(f.tags) = 1
    <3>1. PICK v : f.tags = {v}
      <4>1. IsFiniteSet(f.tags)
        BY <1>1, FS_Subset, VersionAssumption
      <4>2. QED
        BY <4>1, <2>2, FS_Singleton
    <3>2. v \in Version /\ Highest({v}) = v
      BY <1>1, <3>1, VersionAssumption DEF Highest
    <3>3. Found(f, failed).latest \in {v, f.latest}
      BY <1>4, <1>6, <3>1, <3>2
    <3>4. v \notin Recent
      BY <2>1, <3>1, <3>3
    <3>5. QED
      BY <1>3, <1>5, <2>2, <3>1, <3>2, <3>4 DEF Established
  <2>3. CASE Cardinality(f.tags) # 1
    <3>1. Cardinality(lines) # 1
      BY <1>6, <2>3
    <3>2. QED
      BY <1>3, <1>4, <1>5, <2>1, <2>3, <3>1 DEF Established
  <2>4. QED
    BY <2>2, <2>3
<1>9. QED
  BY <1>7, <1>8

(* EvidenceIsReal and what its induction needs: the walk stays among the     *)
(* predecessors there are, and the memoized status is a Lookup of the        *)
(* unsuffixed path.                                                          *)
Real(k) == Lookup(family[k], {}).exists /\ Established(Lookup(family[k], {}))
InFamily ==
    /\ major \in Nat /\ m \in Int
    /\ family \in Predecessors /\ DOMAIN family = 1..(major - 1)
    /\ stage = "suffixed" => m <= major - 1
    /\ stage = "implicit" => major > 1 /\ m <= major - 1
Memo == asked => major > 1 /\ (implicit.exists /\ Established(implicit) => Real(1))
Evidence == \E k \in 1..(major - 1) : Real(k)
EvidenceInv == InFamily /\ Memo /\ (bump => Evidence)

LEMMA RealEvidence ==
    ASSUME InFamily, NEW k \in 1..(major - 1), NEW failed \in Failures(family[k]),
           Lookup(family[k], failed).exists, Established(Lookup(family[k], failed))
    PROVE  Real(k)
BY EvidenceSurvives, LatestAssumption DEF InFamily, Real

(* Weighing a status behind which there is real evidence keeps the verdict   *)
(* real, and the walk among the predecessors.                                *)
LEMMA WeighedEvidence ==
    ASSUME InFamily, bump => Evidence, UNCHANGED walkWorld, NEW s,
           Weigh(s), Established(s) => Evidence, m <= major - 1
    PROVE  InFamily' /\ (bump' => Evidence')
<1>1. Evidence' <=> Evidence
  BY DEF Evidence, Real, walkWorld
<1>2. CASE Established(s)
  BY <1>1, <1>2 DEF Weigh, End, InFamily, walkWorld
<1>3. CASE ~Established(s)
  BY <1>1, <1>3 DEF Weigh, GoBack, InFamily, walkWorld
<1>4. QED
  BY <1>2, <1>3

LEMMA EvidenceStep == ASSUME EvidenceInv, [WalkNext]_walkVars PROVE EvidenceInv'
<1> USE DEF EvidenceInv
<1>1. CASE Begin
  BY <1>1 DEF Begin, Memo, InFamily, Evidence, Real, walkWorld
<1>2. CASE RunsOut
  BY <1>2 DEF RunsOut, End, Memo, InFamily, Evidence, Real, walkWorld
<1>3. CASE AskPredecessor
  <2>1. m \in 1..(major - 1) /\ stage = "suffixed"
    BY <1>3 DEF AskPredecessor, InReach, InFamily
  <2>2. UNCHANGED <<walkWorld, implicit, asked>>
    BY <1>3 DEF AskPredecessor
  <2>3. PICK failed \in Failures(family[m]) :
          \/ Lookup(family[m], failed).exists /\ Weigh(Lookup(family[m], failed))
          \/ End(FALSE)
          \/ asked /\ implicit.exists /\ Weigh(implicit)
          \/ stage' = "implicit" /\ UNCHANGED <<m, bump>>
    BY <1>3 DEF AskPredecessor, WeighImplicit
  <2>4. Memo'
    BY <2>2 DEF Memo, Real, walkWorld
  <2>5. CASE stage' = "implicit" /\ UNCHANGED <<m, bump>>
    BY <2>1, <2>2, <2>4, <2>5 DEF InFamily, Evidence, Real, walkWorld
  <2>6. CASE Lookup(family[m], failed).exists /\ Weigh(Lookup(family[m], failed))
    <3>1. Established(Lookup(family[m], failed)) => Real(m)
      BY <2>1, <2>6, RealEvidence
    <3>2. Established(Lookup(family[m], failed)) => Evidence
      BY <2>1, <3>1 DEF Evidence
    <3>3. InFamily' /\ (bump' => Evidence')
      BY <2>1, <2>2, <2>6, <3>2, WeighedEvidence DEF InFamily
    <3>4. QED
      BY <2>4, <3>3
  <2>7. CASE asked /\ implicit.exists /\ Weigh(implicit)
    <3>1. Established(implicit) => Real(1)
      BY <2>7, Zenon DEF Memo
    <3>2. Established(implicit) => Evidence
      BY <2>1, <3>1 DEF Evidence, InFamily
    <3>3. InFamily' /\ (bump' => Evidence')
      BY <2>1, <2>2, <2>7, <3>2, WeighedEvidence DEF InFamily
    <3>4. QED
      BY <2>4, <3>3
  <2>8. CASE End(FALSE)
    BY <2>2, <2>4, <2>8 DEF End, InFamily, Evidence, Real, walkWorld
  <2>9. QED
    BY <2>3, <2>5, <2>6, <2>7, <2>8
<1>4. CASE AskImplicit
  <2>1. 1 \in 1..(major - 1) /\ UNCHANGED walkWorld /\ m <= major - 1
    BY <1>4 DEF AskImplicit, InFamily
  <2>2. PICK failed \in Failures(family[1]) : Remember(Lookup(family[1], failed))
    BY <1>4 DEF AskImplicit
  <2>3. implicit' = Lookup(family[1], failed) /\ asked'
    BY <2>2 DEF Remember
  <2>4. implicit'.exists /\ Established(implicit') => Real(1)
    BY <2>1, <2>3, RealEvidence
  <2>5. Memo'
    <3>1. major' > 1
      BY <2>1 DEF walkWorld, InFamily
    <3>2. Real(1)' <=> Real(1)
      BY <2>1 DEF walkWorld, Real
    <3>3. (implicit.exists /\ Established(implicit))' => Real(1)'
      BY <2>4, <3>2, Zenon DEF Established
    <3>4. QED
      BY <3>1, <3>3, Zenon DEF Memo
  <2>6. (implicit'.exists /\ Weigh(implicit')) \/ End(FALSE)
    BY <1>4 DEF AskImplicit, WeighImplicit
  <2>7. CASE implicit'.exists /\ Weigh(implicit')
    <3>1. Established(implicit') => Evidence
      BY <2>1, <2>4, <2>7 DEF Evidence
    <3>2. InFamily' /\ (bump' => Evidence')
      BY <2>1, <2>7, <3>1, WeighedEvidence
    <3>3. QED
      BY <2>5, <3>2
  <2>8. CASE End(FALSE)
    BY <2>1, <2>5, <2>8 DEF End, InFamily, Evidence, Real, walkWorld
  <2>9. QED
    BY <2>6, <2>7, <2>8
<1>5. CASE Walked \/ UNCHANGED walkVars
  <2>1. UNCHANGED walkVars
    BY <1>5 DEF Walked
  <2>2. UNCHANGED <<walkWorld, implicit, asked>>
    BY <2>1 DEF walkVars, walkWorld
  <2>3. InFamily' /\ (bump' => Evidence')
    BY <2>1 DEF walkVars, InFamily, Evidence, Real
  <2>4. Memo'
    BY <2>2 DEF Memo, Real, walkWorld
  <2>5. QED
    BY <2>3, <2>4
<1>6. QED
  BY <1>1, <1>2, <1>3, <1>4, <1>5 DEF WalkNext, WalkStep

(* For every cap, suffix and family of predecessors: a module is excused as  *)
(* the next major version of an established project only if some predecessor *)
(* really is one, whichever requests failed on the way.                      *)
THEOREM EvidenceHolds == WalkSpec => []EvidenceIsReal
<1>1. WalkInit => EvidenceInv
  BY WalkAssumption DEF WalkInit, EvidenceInv, InFamily, Memo
<1>2. EvidenceInv /\ [WalkNext]_walkVars => EvidenceInv'
  BY EvidenceStep
<1>3. EvidenceInv => EvidenceIsReal
  BY DEF EvidenceInv, Evidence, EvidenceIsReal, Real
<1>4. QED
  BY <1>1, <1>2, <1>3, PTL DEF WalkSpec

-----------------------------------------------------------------------------
(* VerdictExact and what its induction needs.  As long as no request fails,  *)
(* every predecessor the walk has gone past is there and not established,    *)
(* and the memo is what the unsuffixed path answers when nothing fails.      *)
Passed(k) == Stands(k).exists /\ ~Established(Stands(k))
PassedPart == stage \in {"suffixed", "implicit"} => \A k \in (m + 1)..(major - 1) : Passed(k)
MemoPart == asked => implicit = Lookup(family[1], {})
AskingPart ==
    stage = "implicit" =>
        InReach /\ m # 1 /\ ~Lookup(family[m], {}).exists /\ ~gopkg
VerdictPart == stage = "ended" => (bump <=> BumpOfEstablished)
VerdictInv == ~walkTrouble => PassedPart /\ MemoPart /\ AskingPart /\ VerdictPart

(* A predecessor in reach that is not there ends every chain through it.     *)
LEMMA MissingEnds ==
    ASSUME InFamily, m \in 1..(major - 1), \A k \in (m + 1)..(major - 1) : Passed(k),
           ~Stands(m).exists
    PROVE  ~BumpOfEstablished
<1> SUFFICES ASSUME NEW k \in 1..(major - 1), Established(Stands(k)),
                    \A j \in k..(major - 1) : Stands(j).exists
             PROVE  FALSE
  BY DEF BumpOfEstablished
<1>1. CASE k <= m
  BY <1>1 DEF InFamily
<1>2. CASE k > m
  BY <1>2 DEF Passed, InFamily
<1>3. QED
  BY <1>1, <1>2 DEF InFamily

(* What the walk makes of a predecessor that is there.                       *)
LEMMA PresentWeighed ==
    ASSUME WalkAssumption, InFamily, m \in 1..(major - 1), InReach,
           \A k \in (m + 1)..(major - 1) : Passed(k), Stands(m).exists,
           Weigh(Stands(m)), UNCHANGED walkWorld
    PROVE  PassedPart' /\ AskingPart' /\ VerdictPart'
<1>1. /\ BumpOfEstablished' <=> BumpOfEstablished
      /\ major' = major /\ \A k : Passed(k)' <=> Passed(k)
  BY DEF BumpOfEstablished, Passed, Stands, walkWorld
<1>2. CASE Established(Stands(m))
  <2>1. m >= major - WalkCap
    BY DEF InReach, InFamily, WalkAssumption
  <2>2. \A j \in m..(major - 1) : Stands(j).exists
    BY DEF Passed, InFamily
  <2>3. BumpOfEstablished
    BY <1>2, <2>1, <2>2 DEF BumpOfEstablished
  <2>4. QED
    BY <1>1, <1>2, <2>3 DEF Weigh, End, PassedPart, AskingPart, VerdictPart
<1>3. CASE ~Established(Stands(m))
  <2>1. stage' = "suffixed" /\ m' = m - 1
    BY <1>3 DEF Weigh, GoBack
  <2>2. \A k \in m..(major - 1) : Passed(k)
    BY <1>3 DEF Passed, InFamily
  <2>3. \A k \in (m' + 1)..(major' - 1) : Passed(k)'
    BY <1>1, <2>1, <2>2 DEF InFamily
  <2>4. PassedPart'
    BY <2>3 DEF PassedPart
  <2>5. QED
    BY <2>1, <2>4 DEF AskingPart, VerdictPart
<1>4. QED
  BY <1>2, <1>3

LEMMA VerdictStep ==
    ASSUME WalkAssumption, EvidenceInv, VerdictInv, [WalkNext]_walkVars
    PROVE  VerdictInv'
<1> SUFFICES ASSUME ~walkTrouble' PROVE (PassedPart /\ MemoPart /\ AskingPart /\ VerdictPart)'
  BY DEF VerdictInv
<1> USE DEF EvidenceInv
<1>1. CASE Begin
  <2>1. UNCHANGED walkWorld /\ m' = major - 1 /\ ~bump' /\ ~asked'
    BY <1>1 DEF Begin
  <2>2. stage' = IF major = 0 THEN "ended" ELSE "suffixed"
    BY <1>1 DEF Begin
  <2>3. PassedPart'
    BY <2>1 DEF PassedPart, InFamily, walkWorld
  <2>4. stage' = "ended" => ~BumpOfEstablished'
    BY <2>1, <2>2 DEF BumpOfEstablished, InFamily, walkWorld
  <2>5. QED
    BY <2>1, <2>2, <2>3, <2>4 DEF MemoPart, AskingPart, VerdictPart
<1>2. CASE RunsOut
  <2>1. /\ UNCHANGED <<walkWorld, implicit, asked, walkTrouble>> /\ stage = "suffixed" /\ ~InReach
        /\ stage' = "ended" /\ ~bump' /\ m' = m
    BY <1>2 DEF RunsOut, End
  <2>2. ~BumpOfEstablished
    BY <2>1 DEF BumpOfEstablished, VerdictInv, PassedPart, Passed, InReach, InFamily, WalkAssumption
  <2>3. BumpOfEstablished' <=> BumpOfEstablished
    BY <2>1 DEF BumpOfEstablished, Stands, walkWorld
  <2>4. MemoPart'
    BY <2>1 DEF VerdictInv, MemoPart, walkWorld
  <2>5. QED
    BY <2>1, <2>2, <2>3, <2>4 DEF PassedPart, AskingPart, VerdictPart
<1>3. CASE AskPredecessor
  <2>1. /\ stage = "suffixed" /\ InReach /\ UNCHANGED <<walkWorld, implicit, asked>>
        /\ m \in 1..(major - 1)
    BY <1>3 DEF AskPredecessor, InReach, InFamily
  <2>2. PICK failed \in Failures(family[m]) :
          /\ walkTrouble' = (walkTrouble \/ failed # {})
          /\ \/ Lookup(family[m], failed).exists /\ Weigh(Lookup(family[m], failed))
             \/ ~Lookup(family[m], failed).exists /\ (gopkg \/ m = 1) /\ End(FALSE)
             \/ /\ ~Lookup(family[m], failed).exists /\ ~(gopkg \/ m = 1) /\ asked
                /\ WeighImplicit(implicit)
             \/ /\ ~Lookup(family[m], failed).exists /\ ~(gopkg \/ m = 1) /\ ~asked
                /\ stage' = "implicit" /\ UNCHANGED <<m, bump>>
    BY <1>3 DEF AskPredecessor
  <2>3. ~walkTrouble /\ failed = {}
    BY <2>2
  <2>4. (\A k \in (m + 1)..(major - 1) : Passed(k)) /\ (asked => implicit = Lookup(family[1], {}))
    BY <2>1, <2>3 DEF VerdictInv, PassedPart, MemoPart
  <2>5. MemoPart'
    BY <2>1, <2>4 DEF MemoPart, walkWorld
  <2>6. ASSUME ~Stands(m).exists, End(FALSE) PROVE (PassedPart /\ AskingPart /\ VerdictPart)'
    <3>1. ~BumpOfEstablished
      BY <2>1, <2>4, <2>6, MissingEnds
    <3>2. BumpOfEstablished' <=> BumpOfEstablished
      BY <2>1 DEF BumpOfEstablished, Stands, walkWorld
    <3>3. QED
      BY <2>6, <3>1, <3>2 DEF End, PassedPart, AskingPart, VerdictPart
  <2>7. CASE Lookup(family[m], {}).exists /\ Weigh(Lookup(family[m], {}))
    <3>1. Stands(m) = Lookup(family[m], {})
      BY <2>7 DEF Stands
    <3>2. QED
      BY <2>1, <2>4, <2>5, <2>7, <3>1, PresentWeighed
  <2>8. CASE ~Lookup(family[m], {}).exists /\ (gopkg \/ m = 1) /\ End(FALSE)
    <3>1. ~Stands(m).exists
      BY <2>8 DEF Stands
    <3>2. QED
      BY <2>5, <2>6, <2>8, <3>1
  <2>9. CASE ~Lookup(family[m], {}).exists /\ ~gopkg /\ asked /\ WeighImplicit(implicit)
    <3>1. Stands(m) = implicit
      BY <2>4, <2>9 DEF Stands
    <3>2. CASE implicit.exists
      BY <2>1, <2>4, <2>5, <2>9, <3>1, <3>2, PresentWeighed DEF WeighImplicit
    <3>3. CASE ~implicit.exists
      BY <2>5, <2>6, <2>9, <3>1, <3>3 DEF WeighImplicit
    <3>4. QED
      BY <3>2, <3>3
  <2>10. CASE /\ ~Lookup(family[m], {}).exists /\ ~(gopkg \/ m = 1)
              /\ stage' = "implicit" /\ UNCHANGED <<m, bump>>
    <3>1. PassedPart'
      BY <2>1, <2>4, <2>10 DEF PassedPart, Passed, Stands, walkWorld
    <3>2. AskingPart'
      BY <2>1, <2>10 DEF AskingPart, InReach, walkWorld
    <3>3. QED
      BY <2>5, <2>10, <3>1, <3>2 DEF VerdictPart
  <2>11. QED
    BY <2>2, <2>3, <2>7, <2>8, <2>9, <2>10
<1>4. CASE AskImplicit
  <2>1. stage = "implicit" /\ UNCHANGED walkWorld /\ WeighImplicit(implicit') /\ m <= major - 1
    BY <1>4 DEF AskImplicit, InFamily
  <2>2. PICK failed \in Failures(family[1]) :
          /\ Remember(Lookup(family[1], failed))
          /\ walkTrouble' = (walkTrouble \/ failed # {})
    BY <1>4 DEF AskImplicit
  <2>3. ~walkTrouble /\ failed = {} /\ implicit' = Lookup(family[1], {})
    BY <2>2 DEF Remember
  <2>4. /\ \A k \in (m + 1)..(major - 1) : Passed(k)
        /\ InReach /\ ~Lookup(family[m], {}).exists /\ ~gopkg
    BY <2>1, <2>3 DEF VerdictInv, PassedPart, AskingPart
  <2>5. m \in 1..(major - 1) /\ Stands(m) = implicit'
    BY <2>1, <2>3, <2>4 DEF InReach, InFamily, Stands
  <2>6. MemoPart'
    BY <2>1, <2>3 DEF MemoPart, walkWorld
  <2>7. CASE Stands(m).exists
    <3>1. Weigh(Stands(m))
      BY <2>1, <2>5, <2>7 DEF WeighImplicit
    <3>2. QED
      BY <2>1, <2>4, <2>5, <2>6, <2>7, <3>1, PresentWeighed
  <2>8. CASE ~Stands(m).exists
    <3>1. End(FALSE)
      BY <2>1, <2>5, <2>8 DEF WeighImplicit
    <3>2. ~BumpOfEstablished
      BY <2>4, <2>5, <2>8, MissingEnds
    <3>3. BumpOfEstablished' <=> BumpOfEstablished
      BY <2>1 DEF BumpOfEstablished, Stands, walkWorld
    <3>4. QED
      BY <2>6, <3>1, <3>2, <3>3 DEF End, PassedPart, AskingPart, VerdictPart
  <2>9. QED
    BY <2>7, <2>8
<1>5. CASE Walked \/ UNCHANGED walkVars
  <2>1. UNCHANGED <<major, gopkg, family, stage, m, implicit, asked, bump, walkTrouble>>
    BY <1>5 DEF Walked, walkVars
  <2>2. PassedPart /\ MemoPart /\ AskingPart /\ VerdictPart
    BY <2>1 DEF VerdictInv
  <2>3. QED
    BY <2>1, <2>2 DEF PassedPart, Passed, MemoPart, AskingPart, VerdictPart, BumpOfEstablished,
                      Stands, InReach
<1>6. QED
  BY <1>1, <1>2, <1>3, <1>4, <1>5 DEF WalkNext, WalkStep

LEMMA WalkInitially == WalkInit => EvidenceInv /\ VerdictInv
<1>1. WalkInit => EvidenceInv
  BY WalkAssumption DEF WalkInit, EvidenceInv, InFamily, Memo
<1>2. WalkInit => VerdictInv
  BY DEF WalkInit, VerdictInv, PassedPart, MemoPart, AskingPart, VerdictPart
<1>3. QED
  BY <1>1, <1>2

(* For every cap, suffix and family of predecessors, a walk none of whose    *)
(* requests failed says exactly whether an unbroken chain of predecessors    *)
(* within the cap leads back to an established one.                          *)
THEOREM VerdictIsExact == WalkSpec => []VerdictExact
<1>1. WalkInit => EvidenceInv /\ VerdictInv
  BY WalkInitially
<1>2. EvidenceInv /\ VerdictInv /\ [WalkNext]_walkVars => EvidenceInv' /\ VerdictInv'
  BY EvidenceStep, VerdictStep, WalkAssumption
<1>3. VerdictInv => VerdictExact
  BY DEF VerdictInv, VerdictPart, VerdictExact
<1>4. QED
  BY <1>1, <1>2, <1>3, PTL DEF WalkSpec

-----------------------------------------------------------------------------
(* Lookup and what its failed requests take from the answer. *)

(* A set of versions that is not empty has a highest one.                    *)
LEMMA HighestFound ==
    ASSUME NEW S \in SUBSET Version, S # {}
    PROVE  Highest(S) \in S /\ \A w \in S : Rank[w] <= Rank[Highest(S)]
<1> DEFINE above(v) == {w \in S : Rank[v] < Rank[w]}
           T == {above(v) : v \in S}
<1>1. IsFiniteSet(S)
  BY FS_Subset, VersionAssumption
<1>2. T \subseteq FiniteSubsetsOf(S) /\ T # {}
  <2>1. T \subseteq SUBSET S /\ T # {}
    OBVIOUS
  <2>2. FiniteSubsetsOf(S) = SUBSET S
    BY <1>1, FS_FiniteSubsetsOfFinite
  <2>3. QED
    BY <2>1, <2>2
<1>3. PICK x \in T : \A y \in T : <<y, x>> \notin StrictSubsetOrdering(S)
  <2> HIDE DEF T
  <2> QED
    BY <1>2, FS_StrictSubsetOrderingWellFounded, WFMin
<1>4. PICK v \in S : x = above(v)
  BY <1>3
<1>5. \A w \in S : Rank[w] \in Int
  BY VersionAssumption
<1>6. ASSUME NEW w \in S, Rank[v] < Rank[w] PROVE FALSE
  <2>1. above(w) \subseteq above(v) /\ w \in above(v) /\ w \notin above(w)
    BY <1>5, <1>6
  <2>2. <<above(w), above(v)>> \in StrictSubsetOrdering(S)
    BY <2>1 DEF StrictSubsetOrdering
  <2>3. above(w) \in T
    OBVIOUS
  <2>4. QED
    BY <1>3, <1>4, <2>2, <2>3
<1>7. \A w \in S : Rank[w] <= Rank[v]
  BY <1>5, <1>6
<1>8. QED
  BY <1>7 DEF Highest

(* The parts of a status, by how the module is served and what failed.       *)
LEMMA StatusParts ==
    ASSUME NEW f \in Facts, NEW failed
    PROVE  LET s == Lookup(f, failed)
               answered == "latest" \notin failed
           IN  /\ s.exists <=> f.served = "ok" /\ answered
               /\ s.unknown <=> f.served # "private" /\ ~answered
               /\ s.private <=> f.served = "private"
               /\ s.blocklisted <=> f.served = "malware" /\ answered
               /\ ~s.exists => s.count = 0 /\ s.latest = NoVersion /\ s.earliest = NoVersion
                               /\ s.body = NoVersion
               /\ s.exists => s = Found(f, failed)
<1>1. f.served \in {"ok", "unresolved", "malware", "private"}
  BY DEF Facts
<1>2. CASE f.served = "private"
  BY <1>2 DEF Lookup, Absent
<1>3. CASE f.served # "private" /\ "latest" \in failed
  BY <1>3 DEF Lookup, Absent
<1>4. CASE f.served = "unresolved" /\ "latest" \notin failed
  BY <1>4 DEF Lookup, Absent
<1>5. CASE f.served = "malware" /\ "latest" \notin failed
  BY <1>5 DEF Lookup, Absent
<1>6. CASE f.served = "ok" /\ "latest" \notin failed
  BY <1>6 DEF Lookup, Found
<1>7. QED
  BY <1>1, <1>2, <1>3, <1>4, <1>5, <1>6

(* An age that speaks against a module survives every failure, but for that  *)
(* of the request that dates an only tag.                                    *)
LEMMA AgeSurvives ==
    ASSUME NEW f \in Facts, NEW failed
    PROVE  /\ Thin(Lookup(f, failed)) => Lookup(f, failed).exists
           /\ Flooded(Lookup(f, failed)) => Lookup(f, failed).exists
           /\ Thin(Lookup(f, failed)) /\ "info" \notin failed => Thin(Lookup(f, {}))
           /\ Flooded(Lookup(f, failed)) => Flooded(Lookup(f, {}))
<1> DEFINE s == Lookup(f, failed)
           t == Lookup(f, {})
<1>1. ASSUME Thin(s) \/ Flooded(s) PROVE s.exists
  BY <1>1, StatusParts DEF Thin, Flooded
<1>2. ASSUME s.exists
      PROVE  /\ s = Found(f, failed) /\ t = Found(f, {})
  BY <1>2, StatusParts
<1>3. ASSUME s.exists, Thin(s) \/ Flooded(s) PROVE "list" \notin failed
  <2>1. CASE "list" \in failed
    <3>1. Found(f, failed).count = Cardinality({})
      BY <2>1 DEF Found
    <3>2. s.count = 0
      BY <1>2, <1>3, <3>1, FS_EmptySet
    <3>3. QED
      BY <1>3, <3>2 DEF Thin, Flooded
  <2>2. QED
    BY <2>1
<1>4. ASSUME Thin(s), "info" \notin failed PROVE Thin(t)
  <2>1. s = Found(f, failed) /\ t = Found(f, {}) /\ "list" \notin failed
    BY <1>1, <1>2, <1>3, <1>4
  <2>2. Found(f, failed).count = Found(f, {}).count /\ Found(f, failed).latest = Found(f, {}).latest
    BY <1>4, <2>1 DEF Found
  <2>3. QED
    BY <1>4, <2>1, <2>2 DEF Thin
<1>5. ASSUME Flooded(s) PROVE Flooded(t)
  <2>1. s = Found(f, failed) /\ t = Found(f, {}) /\ "list" \notin failed
    BY <1>1, <1>2, <1>3, <1>5
  <2>2. Found(f, failed).count = Cardinality(f.tags) /\ Found(f, {}).count = Cardinality(f.tags)
    BY <2>1 DEF Found
  <2>3. s.count > 1 /\ s.earliest \in Young
    BY <1>5 DEF Flooded
  <2>4. Cardinality(f.tags) > 1
    BY <2>1, <2>2, <2>3
  <2>5. Found(f, failed).earliest = (IF "info" \in failed THEN NoVersion ELSE Lowest(f.tags))
    BY <2>1, <2>4 DEF Found
  <2>6. Found(f, {}).earliest = Lowest(f.tags)
    BY <2>4 DEF Found
  <2>7. NoVersion \notin Young
    BY VersionAssumption
  <2>8. QED
    BY <2>1, <2>2, <2>3, <2>4, <2>5, <2>6, <2>7 DEF Flooded
<1>6. QED
  BY <1>1, <1>4, <1>5

(* So does what makes a module unestablished, if @latest answered.           *)
LEMMA UnestablishedSurvives ==
    ASSUME NEW f \in Facts, NEW failed, failed \cap {"latest", "info"} = {}
    PROVE  /\ looksUnestablished(Lookup(f, failed)) => looksUnestablished(Lookup(f, {}))
           /\ looksUnestablishedForImpersonation(Lookup(f, failed)) /\ "list" \notin failed
                 => looksUnestablishedForImpersonation(Lookup(f, {}))
<1> DEFINE s == Lookup(f, failed)
           t == Lookup(f, {})
<1>1. "latest" \notin failed /\ "info" \notin failed
  OBVIOUS
<1>2. /\ s.exists <=> f.served = "ok" /\ "latest" \notin failed
      /\ s.unknown <=> f.served # "private" /\ ~("latest" \notin failed)
      /\ ~s.exists => s.count = 0
      /\ s.exists => s = Found(f, failed)
  BY StatusParts
<1>3. /\ t.exists <=> f.served = "ok"
      /\ ~t.exists => t.count = 0
      /\ t.exists => t = Found(f, {})
  BY StatusParts
<1>4. (s.exists <=> t.exists) /\ ~s.unknown
  BY <1>1, <1>2, <1>3
<1>5. (Thin(s) => Thin(t)) /\ (Flooded(s) => Flooded(t))
  BY <1>1, AgeSurvives
<1>6. looksUnestablished(s) => looksUnestablished(t)
  BY <1>4, <1>5 DEF looksUnestablished
<1>7. ASSUME "list" \notin failed PROVE s.count = t.count
  <2>1. CASE s.exists
    <3>1. Found(f, failed).count = Found(f, {}).count
      BY <1>7 DEF Found
    <3>2. QED
      BY <1>2, <1>3, <1>4, <2>1, <3>1
  <2>2. CASE ~s.exists
    BY <1>2, <1>3, <1>4, <2>2
  <2>3. QED
    BY <2>1, <2>2
<1>8. QED
  BY <1>6, <1>7 DEF looksUnestablishedForImpersonation

-----------------------------------------------------------------------------
(* The go.mod that carries the retractions. *)

(* Preferred leaves versions to choose from, and of a smaller set that still *)
(* has the best of them, no others.                                          *)
LEMMA PreferredKept ==
    ASSUME NEW S \in SUBSET Version, S # {}
    PROVE  /\ Preferred(S) \subseteq S /\ Preferred(S) # {}
           /\ \A R \in SUBSET S : R \cap Preferred(S) # {} => Preferred(R) \subseteq Preferred(S)
BY DEF Preferred

(* The best tag of all is the best of its own major-version line.            *)
LEMMA BestOfItsLine ==
    ASSUME NEW S \in SUBSET Version, S # {}
    PROVE  governingModVersion(Highest(Preferred(S)), S) = Highest(Preferred(S))
<1> DEFINE b == Highest(Preferred(S))
           line == {v \in S : normalizedMajor(v) = normalizedMajor(b)}
           best == Highest(Preferred(line))
<1>1. b \in Preferred(S) /\ \A w \in Preferred(S) : Rank[w] <= Rank[b]
  <2>1. Preferred(S) \in SUBSET Version /\ Preferred(S) # {}
    BY PreferredKept
  <2>2. QED
    BY <2>1, HighestFound
<1>2. b \in line /\ line \subseteq S
  BY <1>1, PreferredKept
<1>3. Preferred(line) \subseteq Preferred(S) /\ Preferred(line) # {}
  <2> HIDE DEF line
  <2> QED
    BY <1>1, <1>2, PreferredKept
<1>4. best \in Preferred(line)
  <2>1. Preferred(line) \in SUBSET Version
    BY <1>3, PreferredKept
  <2> HIDE DEF line
  <2>2. QED
    BY <1>3, <2>1, HighestFound
<1>5. Rank[best] <= Rank[b]
  BY <1>1, <1>3, <1>4
<1>6. Rank[best] \in Int /\ Rank[b] \in Int
  BY <1>1, <1>3, <1>4, PreferredKept, VersionAssumption
<1>7. ~(Rank[best] > Rank[b])
  BY <1>5, <1>6
<1>8. QED
  BY <1>7 DEF governingModVersion

(* A set of versions that is not empty has a lowest one.                     *)
LEMMA LowestFound ==
    ASSUME NEW S \in SUBSET Version, S # {}
    PROVE  Lowest(S) \in S
<1> DEFINE below(v) == {w \in S : Rank[w] < Rank[v]}
           T == {below(v) : v \in S}
<1>1. FiniteSubsetsOf(S) = SUBSET S
  BY FS_Subset, VersionAssumption, FS_FiniteSubsetsOfFinite
<1>2. T \subseteq SUBSET S /\ T # {}
  OBVIOUS
<1>3. PICK x \in T : \A y \in T : <<y, x>> \notin StrictSubsetOrdering(S)
  <2> HIDE DEF T
  <2> QED
    BY <1>1, <1>2, FS_StrictSubsetOrderingWellFounded, WFMin
<1>4. PICK v \in S : x = below(v)
  BY <1>3
<1>5. \A w \in S : Rank[w] \in Int
  BY VersionAssumption
<1>6. ASSUME NEW w \in S, Rank[w] < Rank[v] PROVE FALSE
  <2>1. below(w) \subseteq below(v) /\ w \in below(v) /\ w \notin below(w)
    BY <1>5, <1>6
  <2>2. <<below(w), below(v)>> \in StrictSubsetOrdering(S)
    BY <2>1 DEF StrictSubsetOrdering
  <2>3. QED
    BY <1>3, <1>4, <2>2
<1>7. \A w \in S : Rank[v] <= Rank[w]
  BY <1>5, <1>6
<1>8. QED
  BY <1>7 DEF Lowest

(* Whether the probe for a legacy go.mod succeeds matters only where the     *)
(* basis is a +incompatible version, whose own go.mod says nothing.          *)
LEMMA ProbeMattersLittle ==
    ASSUME NEW S \in SUBSET Version, S # {},
           \A v \in S \ Incompatible, w \in S \cap Incompatible : Rank[v] < Rank[w],
           Highest(Preferred(S)) \notin Incompatible
    PROVE  resolveIncompatibleLatest(S, FALSE) = Highest(Preferred(S))
<1> DEFINE b == Highest(Preferred(S))
           comp == S \ Incompatible
           above == {v \in S \cap Incompatible : \E c \in comp : Rank[c] < Rank[v]}
           real == LegacyProbe(S) \ Stub
           kept == {v \in S : \A c \in real : Rank[v] <= Rank[c]}
<1>1. \A v \in S : Rank[v] \in Int
  BY VersionAssumption
<1>2. b \in Preferred(S) /\ \A w \in Preferred(S) : Rank[w] <= Rank[b]
  BY PreferredKept, HighestFound
<1>3. b \in comp
  BY <1>2, PreferredKept
<1>4. Preferred(S) \subseteq comp
  BY <1>1, <1>2, <1>3, PreferredKept
<1>5. resolveIncompatibleLatest(S, FALSE) = Highest(Preferred(kept))
  BY DEF resolveIncompatibleLatest
<1>6. CASE real = {}
  <2>1. kept = S
    BY <1>6
  <2>2. QED
    BY <1>5, <2>1
<1>7. CASE real # {}
  <2>1. above # {} /\ real \subseteq {Highest({c \in comp : Rank[c] < Rank[Lowest(above)]})}
    BY <1>7 DEF LegacyProbe
  <2>2. Lowest(above) \in above
    BY <2>1, LowestFound
  <2>3. {c \in comp : Rank[c] < Rank[Lowest(above)]} = comp
    BY <2>2
  <2>4. real = {Highest(comp)}
    BY <1>7, <2>1, <2>3
  <2>5. Highest(comp) \in comp /\ \A w \in comp : Rank[w] <= Rank[Highest(comp)]
    BY <1>3, HighestFound
  <2>6. \A w \in S \cap Incompatible : ~(Rank[w] <= Rank[Highest(comp)])
    BY <1>1, <2>5
  <2>7. kept = comp
    <3> HIDE DEF real
    <3>1. kept = {v \in S : Rank[v] <= Rank[Highest(comp)]}
      BY <2>4
    <3> HIDE DEF kept
    <3>2. QED
      BY <2>5, <2>6, <3>1
  <2>8. Preferred(comp) = Preferred(S)
    BY <1>2, <1>4 DEF Preferred
  <2>9. QED
    BY <1>5, <2>7, <2>8
<1>8. QED
  BY <1>6, <1>7

(* A go.mod that retracts or deprecates is the right one, if the tags were   *)
(* read: whatever else failed, the code reads that go.mod, one of a          *)
(* +incompatible version, or none.                                           *)
LEMMA BodySurvives ==
    ASSUME NEW f \in Targets, NEW failed, "list" \notin failed
    PROVE  Lookup(f, failed).body \in {Lookup(f, {}).body, NoVersion} \cup Incompatible
<1> DEFINE s == Lookup(f, failed)
           t == Lookup(f, {})
           basis == governingBasis(f, f.tags, failed)
<1>1. f \in Facts
  BY AuditAssumption
<1>2. CASE ~s.exists
  BY <1>1, <1>2, StatusParts
<1>3. CASE s.exists
  <2>1. s = Found(f, failed) /\ t = Found(f, {})
    BY <1>1, <1>3, StatusParts
  <2>2. /\ s.body = IF "mod" \in failed THEN NoVersion ELSE governingModVersion(basis, f.tags)
        /\ t.body = governingModVersion(governingBasis(f, f.tags, {}), f.tags)
    BY <2>1 DEF Found
  <2>3. CASE ~(f.latest \in Incompatible /\ f.tags # {}) \/ "legacy" \notin failed
    <3>1. basis = governingBasis(f, f.tags, {})
      BY <2>3 DEF governingBasis
    <3>2. QED
      BY <2>2, <3>1
  <2>4. CASE f.latest \in Incompatible /\ f.tags # {} /\ "legacy" \in failed
    <3> DEFINE b == Highest(Preferred(f.tags))
    <3>1. f.tags \in SUBSET Version
      BY <1>1 DEF Facts
    <3>2. basis = resolveIncompatibleLatest(f.tags, TRUE)
      BY <2>4 DEF governingBasis
    <3>3. basis = b
      <4>1. {v \in f.tags : \A c \in {} : Rank[v] <= Rank[c]} = f.tags
        OBVIOUS
      <4>2. QED
        BY <3>2, <4>1 DEF resolveIncompatibleLatest
    <3>4. governingModVersion(b, f.tags) = b
      BY <2>4, <3>1, BestOfItsLine
    <3>5. s.body \in {b, NoVersion}
      BY <2>2, <3>3, <3>4
    <3>6. CASE b \in Incompatible
      BY <3>5, <3>6
    <3>7. CASE b \notin Incompatible
      <4>1. \A v \in f.tags \ Incompatible, w \in f.tags \cap Incompatible : Rank[v] < Rank[w]
        <5>1. SUFFICES ASSUME NEW v \in f.tags \ Incompatible, NEW w \in f.tags \cap Incompatible
                       PROVE  Rank[v] < Rank[w]
          OBVIOUS
        <5>2. Major[v] <= 1 /\ Major[w] > 1 /\ Major[v] \in Nat /\ Major[w] \in Nat
          BY <2>4, <3>1, MajorsAssumption, VersionAssumption
        <5>3. Major[v] < Major[w]
          BY <5>2
        <5>4. QED
          BY <3>1, <5>3, MajorsAssumption
      <4>2. resolveIncompatibleLatest(f.tags, FALSE) = b
        BY <2>4, <3>1, <3>7, <4>1, ProbeMattersLittle
      <4>3. governingBasis(f, f.tags, {}) = b
        <5>1. ("legacy" \in {}) = FALSE
          OBVIOUS
        <5>2. governingBasis(f, f.tags, {}) = resolveIncompatibleLatest(f.tags, "legacy" \in {})
          BY <2>4 DEF governingBasis
        <5>3. QED
          BY <4>2, <5>1, <5>2, Zenon
      <4>4. t.body = b
        BY <2>2, <3>4, <4>3
      <4>5. QED
        BY <3>5, <4>4
    <3>8. QED
      BY <3>6, <3>7
  <2>5. QED
    BY <2>3, <2>4
<1>4. QED
  BY <1>2, <1>3

-----------------------------------------------------------------------------
(* What the audit knows at each of its steps. *)
Lost == trouble \cap Requests
Pinned == pin.shape # "none"
PinReal == pin.resolves # NoVersion

(* Of a status: it is what the requests that did not fail left of the truth. *)
StatusPart ==
    /\ target \in Targets /\ pin \in Pins
    /\ lookalike \in {"none", "exact", "near"}
    /\ at \in {"lookup", "status", "resolve", "freshness", "fresh walk", "content",
               "collision walk", "done"}
    /\ at = "lookup" => trouble = {}
    /\ at # "lookup" => status = Lookup(target, Lost)
    /\ at \in {"lookup", "status"} => findings = {}

(* Of the way it came.                                                       *)
PathPart ==
    /\ at = "resolve" => status.exists /\ Pinned /\ PinReal
    /\ at \in {"freshness", "fresh walk"} =>
          status.exists /\ (Pinned /\ ~PinReal => "pin" \in trouble)
    /\ at \in {"content", "collision walk"} => ~status.blocklisted
    /\ at = "collision walk" => Suspect(status)

(* Of the version it compares retractions with.                              *)
CheckPart ==
    /\ at \in {"lookup", "status", "resolve"} => checkVersion = pin.raw
    /\ at \in {"freshness", "fresh walk", "content", "collision walk", "done"} =>
          \/ checkVersion = pin.resolves /\ status.exists /\ Pinned /\ PinReal
          \/ /\ checkVersion = pin.raw
             /\ status.exists /\ Pinned /\ PinReal /\ status.body # NoVersion =>
                   trouble \cap {"pin", "resolve"} # {}

(* Of the walk it is on, or the last it made.                                *)
WalkPart ==
    /\ EvidenceInv /\ VerdictInv
    /\ at \in {"fresh walk", "collision walk"} /\ walkTrouble => "walk" \in trouble

AuditInv == StatusPart /\ PathPart /\ CheckPart /\ WalkPart

(* The reasons the steps so far were to settle.                              *)
OfSwitch == {"proxy-blocklisted-malicious", "not-found", "version-not-found"}
OfFreshness == {"new-and-thin", "version-flooded"}
OfBody == {"retracted", "deprecated"}
Settled ==
    IF at \in {"lookup", "status"} THEN {}
    ELSE IF at \in {"resolve", "freshness", "fresh walk"} THEN OfSwitch
    ELSE IF at = "content" THEN OfSwitch \cup OfFreshness
    ELSE IF at = "collision walk" THEN OfSwitch \cup OfFreshness \cup OfBody
    ELSE Reasons

ExactInv == trouble = {} => findings = {r \in Settled : True(r)}
MissingInv ==
    at \notin {"lookup", "status"} /\ True("version-not-found") /\ trouble \cap {"latest", "pin"} = {} =>
        "version-not-found" \in findings

-----------------------------------------------------------------------------
(* True and Blame, one reason at a time. *)
Truth == Lookup(target, {})
NoSuchVersion == Truth.exists /\ Pinned /\ ~PinReal
PulledIn == IF Truth.exists /\ Pinned /\ PinReal THEN pin.resolves ELSE pin.raw

LEMMA TrueMeans ==
    /\ True("proxy-blocklisted-malicious") <=> target.served = "malware"
    /\ True("not-found") <=> target.served = "unresolved" /\ ~(Pinned /\ PinReal)
    /\ True("version-not-found") <=> NoSuchVersion
    /\ True("new-and-thin") <=>
          ~NoSuchVersion /\ Thin(Truth) /\ ~BumpOfEstablished /\ ~(pin.pseudo /\ pin.raw \notin Recent)
    /\ True("version-flooded") <=>
          ~NoSuchVersion /\ Flooded(Truth) /\ ~BumpOfEstablished /\ ~(pin.pseudo /\ pin.raw \notin Young)
    /\ True("retracted") <=> retraction(Truth.body, PulledIn)
    /\ True("deprecated") <=> deprecation(Truth.body)
    /\ True("name-collision-exact") <=>
          target.served # "malware" /\ lookalike = "exact" /\ Suspect(Truth) /\ ~BumpOfEstablished
    /\ True("name-collision-risk") <=>
          target.served # "malware" /\ lookalike = "near" /\ Suspect(Truth) /\ ~BumpOfEstablished
BY DEF True, Truth, NoSuchVersion, PulledIn, Pinned, PinReal

LEMMA BlameMeans ==
    /\ Blame("not-found") = {"pin"}
    /\ Blame("new-and-thin") = {"pin", "info", "walk"}
    /\ Blame("version-flooded") = {"pin", "walk"}
    /\ Blame("retracted") = {"list", "pin", "resolve"}
    /\ Blame("deprecated") = {"list"}
    /\ Blame("name-collision-exact") = {"latest", "list", "info", "walk"}
    /\ Blame("name-collision-risk") = {"latest", "info", "walk"}
BY DEF Blame

(* The truth does not change under an audit.                                 *)
LEMMA TrueStays ==
    ASSUME UNCHANGED world, NEW r PROVE True(r)' <=> True(r)
<1>1. UNCHANGED <<target, pin, lookalike, major, gopkg, family>>
  BY DEF world, walkWorld
<1>2. BumpOfEstablished' <=> BumpOfEstablished
  BY <1>1 DEF BumpOfEstablished, Stands
<1>3. QED
  BY <1>1, <1>2 DEF True, Suspect, pinnedPseudoVersionPredates

(* What a status tells of the truth, by the requests that failed.            *)
LEMMA StatusTells ==
    ASSUME StatusPart, at # "lookup"
    PROVE  /\ target \in Facts /\ target.served \in {"ok", "unresolved", "malware", "private"}
           /\ status.exists <=> target.served = "ok" /\ "latest" \notin trouble
           /\ status.unknown <=> target.served # "private" /\ "latest" \in trouble
           /\ status.private <=> target.served = "private"
           /\ status.blocklisted <=> target.served = "malware" /\ "latest" \notin trouble
           /\ ~status.exists => status.body = NoVersion
           /\ Truth.exists <=> target.served = "ok"
           /\ ~Truth.exists => Truth.body = NoVersion
           /\ trouble = {} => status = Truth
<1>1. target \in Facts /\ status = Lookup(target, Lost)
  BY AuditAssumption DEF StatusPart
<1>2. "latest" \in Lost <=> "latest" \in trouble
  BY DEF Lost, Requests
<1>3. target.served \in {"ok", "unresolved", "malware", "private"}
  BY <1>1 DEF Facts
<1>4. /\ status.exists <=> target.served = "ok" /\ "latest" \notin Lost
      /\ status.unknown <=> target.served # "private" /\ ~("latest" \notin Lost)
      /\ status.private <=> target.served = "private"
      /\ status.blocklisted <=> target.served = "malware" /\ "latest" \notin Lost
      /\ ~status.exists => status.body = NoVersion
  BY <1>1, StatusParts
<1>5. /\ Truth.exists <=> target.served = "ok"
      /\ ~Truth.exists => Truth.body = NoVersion
  BY <1>1, StatusParts DEF Truth
<1>6. trouble = {} => status = Truth
  BY <1>1 DEF Lost, Truth
<1>7. QED
  BY <1>1, <1>2, <1>3, <1>4, <1>5, <1>6

LEMMA StatusConvicts ==
    ASSUME StatusPart, at # "lookup"
    PROVE  /\ Thin(status) => status.exists
           /\ Flooded(status) => status.exists
           /\ Thin(status) /\ "info" \notin trouble => Thin(Truth)
           /\ Flooded(status) => Flooded(Truth)
           /\ looksUnestablished(status) /\ trouble \cap {"latest", "info"} = {} =>
                 looksUnestablished(Truth)
           /\ looksUnestablishedForImpersonation(status)
              /\ trouble \cap {"latest", "list", "info"} = {} =>
                 looksUnestablishedForImpersonation(Truth)
           /\ "list" \notin trouble => status.body \in {Truth.body, NoVersion} \cup Incompatible
<1>1. target \in Facts /\ target \in Targets /\ status = Lookup(target, Lost)
  BY AuditAssumption DEF StatusPart
<1>2. \A r \in Requests : r \in Lost <=> r \in trouble
  BY DEF Lost
<1>3. {"latest", "list", "info"} \subseteq Requests
  BY DEF Requests
<1>4. /\ Thin(status) => status.exists
      /\ Flooded(status) => status.exists
      /\ Thin(status) /\ "info" \notin Lost => Thin(Truth)
      /\ Flooded(status) => Flooded(Truth)
  BY <1>1, AgeSurvives DEF Truth
<1>5. ASSUME Lost \cap {"latest", "info"} = {}
      PROVE  /\ looksUnestablished(status) => looksUnestablished(Truth)
             /\ looksUnestablishedForImpersonation(status) /\ "list" \notin Lost
                   => looksUnestablishedForImpersonation(Truth)
  BY <1>1, <1>5, UnestablishedSurvives DEF Truth
<1>6. "list" \notin Lost => status.body \in {Truth.body, NoVersion} \cup Incompatible
  BY <1>1, BodySurvives DEF Truth
<1>7. QED
  BY <1>2, <1>3, <1>4, <1>5, <1>6

-----------------------------------------------------------------------------
(* The steps, and what they keep of all that. *)

LEMMA StepKeepsWorld == ASSUME [Next]_vars PROVE UNCHANGED world
<1> USE DEF world, walkWorld
<1>1. CASE Walking
  <2>1. UNCHANGED <<target, pin, lookalike>> /\ WalkStep
    BY <1>1 DEF Walking
  <2>2. UNCHANGED <<major, gopkg, family>>
    BY <2>1 DEF WalkStep, RunsOut, AskPredecessor, AskImplicit
  <2>3. QED
    BY <2>1, <2>2
<1>2. CASE Freshness \/ Content
  BY <1>2 DEF Freshness, Content, Begin, walkVars
<1>3. CASE LookUp \/ Judge \/ AskPinned \/ AskVersion \/ Resolve \/ FreshnessVerdict \/ CollisionVerdict
  BY <1>3 DEF LookUp, Judge, AskPinned, AskVersion, Resolve, FreshnessVerdict, CollisionVerdict
<1>4. CASE Done \/ UNCHANGED vars
  BY <1>4 DEF Done, vars, auditVars, walkVars
<1>5. QED
  BY <1>1, <1>2, <1>3, <1>4 DEF Next, Step

(* After its Lookup an audit loses no answer, but what it asks for itself.   *)
LEMMA TroubleGrows ==
    ASSUME [Next]_vars, StatusPart, at # "lookup"
    PROVE  status' = status /\ \E x \in {"pin", "resolve", "walk"} : trouble' \in {trouble, trouble \cup {x}}
<1>1. CASE AskPinned \/ AskVersion
  BY <1>1 DEF AskPinned, AskVersion, Fail
<1>2. CASE Judge \/ Freshness \/ Content \/ FreshnessVerdict \/ CollisionVerdict
  BY <1>2 DEF Judge, Freshness, Content, FreshnessVerdict, CollisionVerdict
<1>3. CASE Resolve \/ Walking
  BY <1>3 DEF Resolve, Walking, Fail
<1>4. CASE Done \/ UNCHANGED vars
  BY <1>4 DEF Done, vars, auditVars
<1>5. QED
  BY <1>1, <1>2, <1>3, <1>4 DEF Next, Step, LookUp

LEMMA StatusStep == ASSUME [Next]_vars, StatusPart PROVE StatusPart'
<1>1. UNCHANGED <<target, pin, lookalike>>
  BY StepKeepsWorld DEF world
<1>2. CASE at = "lookup"
  <2>1. CASE LookUp
    <3>1. PICK failed \in Failures(target) : status' = Lookup(target, failed) /\ trouble' = failed
      BY <2>1 DEF LookUp
    <3>2. failed \cap Requests = failed
      BY DEF Failures
    <3>3. status' = Lookup(target', Lost')
      BY <1>1, <3>1, <3>2 DEF Lost
    <3>4. at' = "status" /\ findings' = {}
      BY <2>1 DEF LookUp, StatusPart
    <3>5. QED
      BY <1>1, <3>3, <3>4 DEF StatusPart
  <2>2. CASE UNCHANGED vars
    BY <2>2 DEF vars, auditVars, StatusPart, Lost
  <2>3. QED
    BY <1>2, <2>1, <2>2 DEF Next, Step, Judge, Blocklisted, SayNothing, NotFound, NoVersionToCheck,
       AskPinned, AskVersion, Resolve, Freshness, Walking, FreshnessVerdict, Content, CollisionVerdict, Done
<1>3. CASE at # "lookup"
  <2>1. PICK x \in {"pin", "resolve", "walk"} : trouble' \in {trouble, trouble \cup {x}}
    BY <1>3, TroubleGrows
  <2>2. trouble' \cap Requests = trouble \cap Requests
    BY <2>1 DEF Requests
  <2>3. status' = Lookup(target', Lost')
    BY <1>1, <1>3, <2>2, TroubleGrows DEF Lost, StatusPart
  <2>4. at' \in {"status", "resolve", "freshness", "fresh walk", "content", "collision walk", "done"}
        /\ (at' = "status" => at = "status" /\ UNCHANGED findings)
    <3>1. CASE Judge
      BY <3>1 DEF Judge, Blocklisted, SayNothing, NotFound, NoVersionToCheck
    <3>2. CASE AskPinned \/ AskVersion \/ Resolve \/ Freshness \/ FreshnessVerdict \/ Content \/ CollisionVerdict
      BY <3>2 DEF AskPinned, AskVersion, Resolve, Freshness, FreshnessVerdict, Content, CollisionVerdict
    <3>3. CASE Walking
      BY <3>3 DEF Walking
    <3>4. CASE Done \/ UNCHANGED vars
      BY <1>3, <3>4 DEF Done, vars, auditVars, StatusPart
    <3>5. QED
      BY <1>3, <3>1, <3>2, <3>3, <3>4 DEF Next, Step, LookUp
  <2>5. QED
    BY <1>1, <2>3, <2>4 DEF StatusPart
<1>4. QED
  BY <1>2, <1>3

LEMMA WalkPartStep == ASSUME [Next]_vars, WalkPart PROVE WalkPart'
<1> USE DEF WalkPart
<1>1. ASSUME [WalkNext]_walkVars PROVE EvidenceInv' /\ VerdictInv'
  BY <1>1, EvidenceStep, VerdictStep, WalkAssumption
<1>2. CASE LookUp \/ Judge \/ AskPinned \/ AskVersion \/ Resolve \/ CollisionVerdict
  <2>1. UNCHANGED walkVars
    BY <1>2 DEF LookUp, Judge, AskPinned, AskVersion, Resolve, CollisionVerdict
  <2>2. at' \notin {"fresh walk", "collision walk"}
    BY <1>2 DEF LookUp, Judge, Blocklisted, SayNothing, NotFound, NoVersionToCheck,
       AskPinned, AskVersion, Resolve, CollisionVerdict
  <2>3. QED
    BY <1>1, <2>1, <2>2
<1>3. CASE Freshness \/ Content
  <2>1. Begin \/ (UNCHANGED walkVars /\ at' \notin {"fresh walk", "collision walk"})
    BY <1>3 DEF Freshness, Content
  <2>2. Begin => ~walkTrouble'
    BY DEF Begin
  <2>3. QED
    BY <1>1, <2>1, <2>2 DEF WalkNext
<1>4. CASE Walking
  <2>1. WalkStep /\ (walkTrouble' => "walk" \in trouble')
    BY <1>4 DEF Walking, Fail
  <2>2. QED
    BY <1>1, <2>1 DEF WalkNext
<1>5. CASE FreshnessVerdict
  <2>1. /\ UNCHANGED <<major, gopkg, family, m, implicit, asked, bump, lookups, requests, walkTrouble>>
        /\ stage' = "idle" /\ at' = "content"
    BY <1>5 DEF FreshnessVerdict, world, walkWorld
  <2>2. EvidenceInv'
    BY <2>1 DEF EvidenceInv, InFamily, Memo, Evidence, Real
  <2>3. VerdictInv'
    BY <2>1 DEF VerdictInv, PassedPart, MemoPart, AskingPart, VerdictPart
  <2>4. QED
    BY <2>1, <2>2, <2>3
<1>6. CASE Done \/ UNCHANGED vars
  <2>1. UNCHANGED walkVars /\ UNCHANGED <<at, trouble>>
    BY <1>6 DEF Done, vars, auditVars
  <2>2. UNCHANGED walkTrouble
    BY <2>1 DEF walkVars
  <2>3. QED
    BY <1>1, <2>1, <2>2
<1>7. QED
  BY <1>2, <1>3, <1>4, <1>5, <1>6 DEF Next, Step

LEMMA PathStep == ASSUME [Next]_vars, StatusPart, PathPart PROVE PathPart'
<1>1. UNCHANGED <<pin, lookalike>>
  BY StepKeepsWorld DEF world
<1>2. CASE LookUp
  BY <1>2 DEF LookUp, PathPart
<1> USE DEF PathPart, Pinned, PinReal, Suspect
<1>3. CASE Judge
  <2>1. at = "status" /\ status' = status
    BY <1>3 DEF Judge, Blocklisted, SayNothing, NotFound, NoVersionToCheck
  <2>2. status.unknown \/ status.private => ~status.blocklisted
    BY <2>1, StatusTells
  <2>3. QED
    BY <1>1, <1>3, <2>1, <2>2 DEF Judge, Blocklisted, SayNothing, NotFound, NoVersionToCheck, Missing
<1>4. CASE AskPinned
  BY <1>1, <1>4 DEF AskPinned, Missing
<1>5. CASE AskVersion
  <2>1. at = "status" /\ status.exists /\ pin.shape # "none" /\ status' = status
    BY <1>5 DEF AskVersion
  <2>2. ~status.blocklisted
    BY <2>1, StatusTells
  <2>3. QED
    BY <1>1, <1>5, <2>1, <2>2 DEF AskVersion, VersionExists, Fail
<1>6. CASE Resolve
  BY <1>1, <1>6 DEF Resolve
<1>7. CASE Freshness
  <2>1. at = "freshness" /\ status' = status /\ trouble' = trouble /\ at' \in {"fresh walk", "content"}
    BY <1>7 DEF Freshness
  <2>2. ~status.blocklisted
    BY <2>1, StatusTells
  <2>3. QED
    BY <1>1, <2>1, <2>2
<1>8. CASE Walking
  BY <1>1, <1>8 DEF Walking, Fail
<1>9. CASE FreshnessVerdict
  <2>1. at = "fresh walk" /\ status' = status /\ trouble' = trouble /\ at' = "content"
    BY <1>9 DEF FreshnessVerdict
  <2>2. ~status.blocklisted
    BY <2>1, StatusTells
  <2>3. QED
    BY <1>1, <2>1, <2>2
<1>10. CASE Content
  BY <1>1, <1>10 DEF Content
<1>11. CASE CollisionVerdict
  BY <1>11 DEF CollisionVerdict
<1>12. CASE Done \/ UNCHANGED vars
  BY <1>12 DEF Done, vars, auditVars
<1>13. QED
  BY <1>2, <1>3, <1>4, <1>5, <1>6, <1>7, <1>8, <1>9, <1>10, <1>11, <1>12 DEF Next, Step

LEMMA CheckStep == ASSUME [Next]_vars, StatusPart, PathPart, CheckPart PROVE CheckPart'
<1>1. UNCHANGED <<pin, lookalike>>
  BY StepKeepsWorld DEF world
<1> USE DEF CheckPart, Pinned, PinReal
<1>2. CASE LookUp
  BY <1>1, <1>2 DEF LookUp
<1>3. CASE Judge
  <2>1. at = "status" /\ checkVersion' = checkVersion /\ trouble' = trouble /\ status' = status
    BY <1>3 DEF Judge, Blocklisted, SayNothing, NotFound, NoVersionToCheck
  <2>2. at' \in {"done", "content", "freshness"} /\ ~(status.exists /\ pin.shape # "none")
    <3>1. status.blocklisted \/ status.unknown \/ status.private \/ Missing => ~status.exists
      BY <2>1, StatusTells DEF Missing
    <3>2. QED
      BY <1>3, <3>1 DEF Judge, Blocklisted, SayNothing, NotFound, NoVersionToCheck
  <2>3. QED
    BY <1>1, <2>1, <2>2
<1>4. CASE AskPinned
  BY <1>1, <1>4 DEF AskPinned, Missing
<1>5. CASE AskVersion
  BY <1>1, <1>5 DEF AskVersion, VersionExists, Fail
<1>6. CASE Resolve
  BY <1>1, <1>6 DEF Resolve, Fail, PathPart
<1>7. CASE Freshness
  BY <1>1, <1>7 DEF Freshness
<1>8. CASE Walking
  BY <1>1, <1>8 DEF Walking, Fail
<1>9. CASE FreshnessVerdict
  BY <1>1, <1>9 DEF FreshnessVerdict
<1>10. CASE Content
  BY <1>1, <1>10 DEF Content
<1>11. CASE CollisionVerdict
  BY <1>1, <1>11 DEF CollisionVerdict
<1>12. CASE Done \/ UNCHANGED vars
  BY <1>12 DEF Done, vars, auditVars
<1>13. QED
  BY <1>2, <1>3, <1>4, <1>5, <1>6, <1>7, <1>8, <1>9, <1>10, <1>11, <1>12 DEF Next, Step

LEMMA AuditInitially == Init => AuditInv
<1> SUFFICES ASSUME Init PROVE AuditInv
  OBVIOUS
<1>1. StatusPart /\ PathPart /\ CheckPart
  BY DEF Init, StatusPart, PathPart, CheckPart
<1>2. WalkPart
  BY WalkInitially DEF Init, WalkPart
<1>3. QED
  BY <1>1, <1>2 DEF AuditInv

LEMMA AuditStep == AuditInv /\ [Next]_vars => AuditInv'
BY StatusStep, PathStep, CheckStep, WalkPartStep DEF AuditInv

-----------------------------------------------------------------------------
(* What is reported, and why. *)

LEMMA WalkTells ==
    ASSUME WalkPart, at \in {"fresh walk", "collision walk"}, stage = "ended", "walk" \notin trouble
    PROVE  bump <=> BumpOfEstablished
BY DEF WalkPart, VerdictInv, VerdictPart

(* A retraction or deprecation the audit reads is there.                     *)
LEMMA BodyTells ==
    ASSUME AuditInv, at = "content", "list" \notin trouble
    PROVE  /\ deprecation(status.body) => deprecation(Truth.body)
           /\ retraction(status.body, checkVersion) /\ trouble \cap {"pin", "resolve"} = {}
                 => retraction(Truth.body, PulledIn)
<1>1. StatusPart /\ CheckPart
  BY DEF AuditInv
<1>2. status.body \in {Truth.body, NoVersion} \cup Incompatible
  BY <1>1, StatusConvicts
<1>3. /\ status.exists => Truth.exists
      /\ ~status.exists => status.body = NoVersion
  BY <1>1, StatusTells
<1>4. NoVersion \notin Deprecates
  BY VersionAssumption
<1>5. deprecation(status.body) => deprecation(Truth.body)
  BY <1>2, <1>4, IncompatibleAssumption DEF deprecation
<1>6. ASSUME retraction(status.body, checkVersion), trouble \cap {"pin", "resolve"} = {}
      PROVE  retraction(Truth.body, PulledIn)
  <2>1. status.body # NoVersion /\ status.exists
    BY <1>3, <1>6 DEF retraction
  <2>2. status.body = Truth.body
    BY <1>2, <1>6, <2>1, IncompatibleAssumption DEF retraction
  <2>3. checkVersion = PulledIn
    BY <1>1, <1>3, <1>6, <2>1 DEF CheckPart, PulledIn
  <2>4. QED
    BY <1>6, <2>2, <2>3
<1>7. QED
  BY <1>5, <1>6

LEMMA ReportedForACause ==
    ASSUME AuditInv, [Next]_vars, NEW r \in findings' \ findings
    PROVE  True(r) \/ trouble' \cap Blame(r) # {}
<1> USE DEF Report
<1>1. StatusPart /\ PathPart /\ WalkPart
  BY DEF AuditInv
<1>2. CASE Judge
  <2>1. at = "status"
    BY <1>2 DEF Judge, Blocklisted, SayNothing, NotFound, NoVersionToCheck
  <2>2. CASE Blocklisted
    <3>1. r = "proxy-blocklisted-malicious" /\ target.served = "malware"
      BY <1>1, <2>1, <2>2, StatusTells DEF Blocklisted
    <3>2. QED
      BY <3>1, TrueMeans
  <2>3. CASE NotFound
    <3>1. r = "not-found" /\ pin.shape = "none" /\ Missing
      BY <2>3 DEF NotFound
    <3>2. target.served = "unresolved"
      BY <1>1, <2>1, <3>1, StatusTells DEF Missing
    <3>3. QED
      BY <3>1, <3>2, TrueMeans DEF Pinned
  <2>4. QED
    BY <1>2, <2>2, <2>3 DEF Judge, SayNothing, NoVersionToCheck
<1>3. CASE AskPinned
  <2>1. PICK failed \in BOOLEAN :
          /\ IF failed THEN Fail("pin") ELSE UNCHANGED trouble
          /\ IF VersionExists(pin, failed) = "exists"
             THEN UNCHANGED findings ELSE Report({"not-found"})
    BY <1>3 DEF AskPinned
  <2>2. at = "status" /\ Missing
    BY <1>3 DEF AskPinned
  <2>3. target.served = "unresolved"
    BY <1>1, <2>2, StatusTells DEF Missing
  <2>4. r = "not-found" /\ VersionExists(pin, failed) # "exists"
    BY <2>1
  <2>5. CASE failed
    BY <2>1, <2>4, <2>5, BlameMeans DEF Fail
  <2>6. CASE ~failed
    BY <2>3, <2>4, <2>6, TrueMeans DEF VersionExists, PinReal
  <2>7. QED
    BY <2>5, <2>6
<1>4. CASE AskVersion
  <2>1. /\ r = "version-not-found" /\ at = "status" /\ status.exists /\ pin.shape # "none"
        /\ pin.resolves = NoVersion
    BY <1>4 DEF AskVersion, VersionExists
  <2>2. Truth.exists
    BY <1>1, <2>1, StatusTells
  <2>3. QED
    BY <2>1, <2>2, TrueMeans DEF NoSuchVersion, Pinned, PinReal
<1>5. CASE FreshnessVerdict
  <2>1. /\ at = "fresh walk" /\ stage = "ended" /\ trouble' = trouble
        /\ \/ r = "new-and-thin" /\ Thin(status) /\ ~bump /\ ~pinnedPseudoVersionPredates(pin, Recent)
           \/ r = "version-flooded" /\ Flooded(status) /\ ~bump /\ ~pinnedPseudoVersionPredates(pin, Young)
    BY <1>5 DEF FreshnessVerdict
  <2>2. CASE "pin" \in trouble \/ "walk" \in trouble
    BY <2>1, <2>2, BlameMeans
  <2>3. CASE "pin" \notin trouble /\ "walk" \notin trouble
    <3>1. ~NoSuchVersion /\ ~BumpOfEstablished
      BY <1>1, <2>1, <2>3, WalkTells DEF PathPart, NoSuchVersion
    <3>2. CASE r = "new-and-thin"
      <4>1. CASE "info" \in trouble
        BY <2>1, <3>2, <4>1, BlameMeans
      <4>2. CASE "info" \notin trouble
        <5>1. Thin(Truth) /\ ~(pin.pseudo /\ pin.raw \notin Recent)
          BY <1>1, <2>1, <3>2, <4>2, StatusConvicts DEF pinnedPseudoVersionPredates
        <5>2. QED
          BY <3>1, <3>2, <5>1, TrueMeans
      <4>3. QED
        BY <4>1, <4>2
    <3>3. CASE r = "version-flooded"
      <4>1. Flooded(Truth) /\ ~(pin.pseudo /\ pin.raw \notin Young)
        BY <1>1, <2>1, <3>3, StatusConvicts DEF pinnedPseudoVersionPredates
      <4>2. QED
        BY <3>1, <3>3, <4>1, TrueMeans
    <3>4. QED
      BY <2>1, <3>2, <3>3
  <2>4. QED
    BY <2>2, <2>3
<1>6. CASE Content
  <2>1. /\ at = "content" /\ trouble' = trouble
        /\ \/ r = "retracted" /\ retraction(status.body, checkVersion)
           \/ r = "deprecated" /\ deprecation(status.body)
    BY <1>6 DEF Content
  <2>2. CASE r = "retracted"
    <3>1. CASE trouble \cap {"list", "pin", "resolve"} = {}
      BY <2>1, <2>2, <3>1, BodyTells, TrueMeans
    <3>2. CASE trouble \cap {"list", "pin", "resolve"} # {}
      BY <2>1, <2>2, <3>2, BlameMeans
    <3>3. QED
      BY <3>1, <3>2
  <2>3. CASE r = "deprecated"
    <3>1. CASE "list" \notin trouble
      BY <2>1, <2>3, <3>1, BodyTells, TrueMeans
    <3>2. CASE "list" \in trouble
      BY <2>1, <2>3, <3>2, BlameMeans
    <3>3. QED
      BY <3>1, <3>2
  <2>4. QED
    BY <2>1, <2>2, <2>3
<1>7. CASE CollisionVerdict
  <2>1. /\ at = "collision walk" /\ stage = "ended" /\ ~bump /\ trouble' = trouble
        /\ r = IF lookalike = "exact" THEN "name-collision-exact" ELSE "name-collision-risk"
    BY <1>7 DEF CollisionVerdict
  <2>2. Suspect(status) /\ ~status.blocklisted
    BY <1>1, <2>1 DEF PathPart
  <2>3. "latest" \notin trouble => target.served # "malware"
    BY <1>1, <2>1, <2>2, StatusTells
  <2>4. "walk" \notin trouble => ~BumpOfEstablished
    BY <1>1, <2>1, WalkTells
  <2>5. CASE lookalike = "exact"
    <3>1. CASE trouble \cap {"latest", "list", "info", "walk"} = {}
      <4>1. looksUnestablishedForImpersonation(status)
        BY <2>2, <2>5 DEF Suspect
      <4>2. looksUnestablishedForImpersonation(Truth)
        BY <1>1, <2>1, <3>1, <4>1, StatusConvicts
      <4>3. Suspect(Truth)
        BY <2>5, <4>2 DEF Suspect
      <4>4. QED
        BY <2>1, <2>3, <2>4, <2>5, <3>1, <4>3, TrueMeans
    <3>2. CASE trouble \cap {"latest", "list", "info", "walk"} # {}
      BY <2>1, <2>5, <3>2, BlameMeans
    <3>3. QED
      BY <3>1, <3>2
  <2>6. CASE lookalike # "exact"
    <3>0. lookalike = "near" /\ looksUnestablished(status)
      BY <2>2, <2>6 DEF Suspect
    <3>1. CASE trouble \cap {"latest", "info", "walk"} = {}
      <4>1. looksUnestablished(Truth)
        BY <1>1, <2>1, <3>0, <3>1, StatusConvicts
      <4>2. Suspect(Truth)
        BY <3>0, <4>1 DEF Suspect
      <4>3. QED
        BY <2>1, <2>3, <2>4, <2>6, <3>0, <3>1, <4>2, TrueMeans
    <3>2. CASE trouble \cap {"latest", "info", "walk"} # {}
      BY <2>1, <2>6, <3>2, BlameMeans
    <3>3. QED
      BY <3>1, <3>2
  <2>7. QED
    BY <2>5, <2>6
<1>8. CASE LookUp \/ Resolve \/ Freshness \/ Walking \/ Done \/ UNCHANGED vars
  BY <1>8 DEF LookUp, Resolve, Freshness, Walking, Done, vars, auditVars
<1>9. QED
  BY <1>2, <1>3, <1>4, <1>5, <1>6, <1>7, <1>8 DEF Next, Step

(* Whatever module, pin, cap and predecessors, and whichever requests fail:  *)
(* a finding that is not true has a cause among the requests Blame names.    *)
THEOREM FalseFindingsAreCaused == Spec => []FalseFindingsHaveACause
<1>1. Init => AuditInv /\ FalseFindingsHaveACause
  BY AuditInitially DEF Init, FalseFindingsHaveACause
<1>2. ASSUME AuditInv, FalseFindingsHaveACause, [Next]_vars PROVE FalseFindingsHaveACause'
  <2>1. SUFFICES ASSUME NEW r \in findings' PROVE True(r) \/ trouble' \cap Blame(r) # {}
    <3>1. \A r : (True(r)' <=> True(r)) /\ Blame(r)' = Blame(r)
      BY <1>2, StepKeepsWorld, TrueStays DEF Blame
    <3>2. QED
      BY <2>1, <3>1 DEF FalseFindingsHaveACause
  <2>2. CASE r \notin findings
    BY <1>2, <2>2, ReportedForACause
  <2>3. CASE r \in findings
    <3>1. True(r) \/ trouble \cap Blame(r) # {}
      BY <1>2, <2>3 DEF FalseFindingsHaveACause
    <3>2. at # "lookup"
      BY <1>2, <2>3 DEF AuditInv, StatusPart
    <3>3. trouble \subseteq trouble'
      BY <1>2, <3>2, TroubleGrows DEF AuditInv
    <3>4. QED
      BY <3>1, <3>3
  <2>4. QED
    BY <2>2, <2>3
<1>3. QED
  BY <1>1, <1>2, AuditStep, PTL DEF Spec

LEMMA FindingsGrow == ASSUME [Next]_vars PROVE findings \subseteq findings'
<1> USE DEF Report
<1>1. CASE LookUp \/ Resolve \/ Freshness \/ Walking \/ Done \/ UNCHANGED vars
  BY <1>1 DEF LookUp, Resolve, Freshness, Walking, Done, vars, auditVars
<1>2. CASE Judge
  BY <1>2 DEF Judge, Blocklisted, SayNothing, NotFound, NoVersionToCheck
<1>3. CASE AskPinned
  BY <1>3 DEF AskPinned
<1>4. CASE AskVersion
  BY <1>4 DEF AskVersion
<1>5. CASE FreshnessVerdict \/ Content \/ CollisionVerdict
  BY <1>5 DEF FreshnessVerdict, Content, CollisionVerdict
<1>6. QED
  BY <1>1, <1>2, <1>3, <1>4, <1>5 DEF Next, Step

LEMMA MissingStep == ASSUME AuditInv, MissingInv, [Next]_vars PROVE MissingInv'
<1>1. SUFFICES ASSUME at' \notin {"lookup", "status"}, NoSuchVersion,
                      trouble' \cap {"latest", "pin"} = {}
               PROVE  "version-not-found" \in findings'
  <2>1. True("version-not-found")' <=> True("version-not-found")
    BY StepKeepsWorld, TrueStays
  <2>2. QED
    BY <1>1, <2>1, TrueMeans DEF MissingInv
<1>2. at # "lookup"
  BY <1>1 DEF Next, Step, LookUp, Judge, Blocklisted, SayNothing, NotFound, NoVersionToCheck,
     AskPinned, AskVersion, Resolve, Freshness, Walking, FreshnessVerdict, Content,
     CollisionVerdict, Done, vars, auditVars
<1>3. trouble \cap {"latest", "pin"} = {}
  BY <1>1, <1>2, TroubleGrows DEF AuditInv
<1>4. CASE at = "status"
  <2>1. status.exists /\ ~status.blocklisted /\ ~status.unknown /\ ~status.private
    BY <1>1, <1>2, <1>3, StatusTells DEF AuditInv, NoSuchVersion
  <2>2. pin.shape # "none" /\ pin.resolves = NoVersion
    BY <1>1 DEF NoSuchVersion, Pinned, PinReal
  <2>3. CASE AskVersion
    <3>1. PICK failed \in BOOLEAN :
            /\ IF failed THEN Fail("pin") ELSE UNCHANGED trouble
            /\ \/ VersionExists(pin, failed) = "missing" /\ Report({"version-not-found"})
               \/ VersionExists(pin, failed) = "exists"
               \/ VersionExists(pin, failed) = "unknown"
      BY <2>3 DEF AskVersion
    <3>2. ~failed
      BY <1>1, <3>1 DEF Fail
    <3>3. VersionExists(pin, failed) = "missing"
      BY <2>2, <3>2 DEF VersionExists
    <3>4. QED
      BY <3>1, <3>3 DEF Report
  <2>4. CASE UNCHANGED vars
    BY <1>1, <1>4, <2>4 DEF vars, auditVars
  <2>5. QED
    BY <1>4, <2>1, <2>2, <2>3, <2>4 DEF Next, Step, LookUp, Judge, Blocklisted, SayNothing, NotFound,
       NoVersionToCheck, AskPinned, Missing, Resolve, Freshness, Walking, FreshnessVerdict, Content,
       CollisionVerdict, Done
<1>5. CASE at # "status"
  <2>1. "version-not-found" \in findings
    BY <1>1, <1>2, <1>3, <1>5, TrueMeans DEF MissingInv
  <2>2. QED
    BY <2>1, FindingsGrow
<1>6. QED
  BY <1>4, <1>5

(* Whichever of an audit's requests fail, but the two that tell: a pinned    *)
(* version that does not exist is reported.                                  *)
THEOREM MissingVersionsAreReported == Spec => []MissingVersionHiddenOnlyByItsOwnRequests
<1>1. Init => AuditInv /\ MissingInv
  BY AuditInitially DEF Init, MissingInv
<1>2. AuditInv /\ MissingInv /\ [Next]_vars => AuditInv' /\ MissingInv'
  BY AuditStep, MissingStep
<1>3. MissingInv => MissingVersionHiddenOnlyByItsOwnRequests
  BY DEF MissingInv, MissingVersionHiddenOnlyByItsOwnRequests
<1>4. QED
  BY <1>1, <1>2, <1>3, PTL DEF Spec

-----------------------------------------------------------------------------
(* An audit without trouble. *)

LEMMA TruthParts ==
    ASSUME StatusPart, at # "lookup"
    PROVE  /\ Truth.exists <=> target.served = "ok"
           /\ ~Truth.exists => /\ ~Thin(Truth) /\ ~Flooded(Truth) /\ ~deprecation(Truth.body)
                               /\ \A v : ~retraction(Truth.body, v)
<1>1. target \in Facts
  BY StatusTells
<1>2. (Thin(Truth) => Truth.exists) /\ (Flooded(Truth) => Truth.exists)
  BY <1>1, AgeSurvives DEF Truth
<1>3. (Truth.exists <=> target.served = "ok") /\ (~Truth.exists => Truth.body = NoVersion)
  BY StatusTells
<1>4. NoVersion \notin Deprecates
  BY VersionAssumption
<1>5. QED
  BY <1>2, <1>3, <1>4 DEF deprecation, retraction

(* What a step adds to the findings, and to what is settled.                 *)
LEMMA Settling ==
    ASSUME [Next]_vars, findings = {r \in Settled : True(r)},
           NEW N, NEW E, findings' = findings \cup N, Settled' = Settled \cup E,
           N \subseteq E, \A r \in E : r \in N <=> True(r)
    PROVE  findings' = {r \in Settled' : True(r)'}
<1>1. \A r : True(r)' <=> True(r)
  BY StepKeepsWorld, TrueStays
<1>2. findings' = {r \in Settled' : True(r)}
  BY Zenon
<1>3. QED
  BY <1>1, <1>2

LEMMA RetractedExactly ==
    ASSUME AuditInv, at = "content", trouble = {}
    PROVE  retraction(status.body, checkVersion) <=> retraction(Truth.body, PulledIn)
<1>1. status = Truth
  BY StatusTells DEF AuditInv
<1>2. CASE checkVersion = pin.resolves /\ status.exists /\ Pinned /\ PinReal
  BY <1>1, <1>2 DEF PulledIn
<1>3. CASE checkVersion = pin.raw /\ ~(status.exists /\ Pinned /\ PinReal)
  BY <1>1, <1>3 DEF PulledIn
<1>4. CASE status.body = NoVersion
  BY <1>1, <1>4 DEF retraction
<1>5. QED
  BY <1>2, <1>3, <1>4 DEF AuditInv, CheckPart

LEMMA ExactStep == ASSUME AuditInv, ExactInv, [Next]_vars PROVE ExactInv'
<1>1. CASE at = "lookup"
  <2>1. CASE LookUp
    BY <1>1, <2>1 DEF LookUp, ExactInv, AuditInv, StatusPart, Settled
  <2>2. CASE UNCHANGED vars
    <3>1. findings = {} /\ findings' = {} /\ at' = "lookup"
      BY <1>1, <2>2 DEF vars, auditVars, AuditInv, StatusPart
    <3>2. QED
      BY <3>1 DEF ExactInv, Settled
  <2>3. QED
    BY <1>1, <2>1, <2>2 DEF Next, Step, Judge, Blocklisted, SayNothing, NotFound, NoVersionToCheck,
       AskPinned, AskVersion, Resolve, Freshness, Walking, FreshnessVerdict, Content, CollisionVerdict, Done
<1>2. CASE at # "lookup"
  <2> SUFFICES ASSUME trouble' = {} PROVE findings' = {r \in Settled' : True(r)'}
    BY DEF ExactInv
  <2>1. StatusPart /\ PathPart /\ WalkPart /\ CheckPart
    BY DEF AuditInv
  <2>2. trouble = {} /\ findings = {r \in Settled : True(r)} /\ status = Truth
    <3>1. trouble = {}
      BY <1>2, <2>1, TroubleGrows
    <3>2. QED
      BY <1>2, <2>1, <3>1, StatusTells DEF ExactInv
  <2>3. /\ target.served \in {"ok", "unresolved", "malware", "private"}
        /\ status.exists <=> target.served = "ok"
        /\ ~status.unknown
        /\ status.private <=> target.served = "private"
        /\ status.blocklisted <=> target.served = "malware"
    BY <1>2, <2>1, <2>2, StatusTells
  <2>4. ~Truth.exists =>
          /\ ~True("version-not-found") /\ ~True("new-and-thin") /\ ~True("version-flooded")
          /\ ~True("retracted") /\ ~True("deprecated")
    BY <1>2, <2>1, TruthParts, TrueMeans DEF NoSuchVersion
  <2>5. Truth.exists => ~True("proxy-blocklisted-malicious") /\ ~True("not-found")
    BY <2>2, <2>3, TrueMeans
  <2>6. ASSUME UNCHANGED findings, Settled' = Settled PROVE findings' = {r \in Settled' : True(r)'}
    BY <2>2, <2>6, StepKeepsWorld, TrueStays
  <2> USE DEF Report
  <2>7. CASE Judge
    <3>1. at = "status" /\ Settled = {}
      BY <2>7 DEF Judge, Blocklisted, SayNothing, NotFound, NoVersionToCheck, Settled
    <3>2. CASE Blocklisted
      <4>1. findings' = findings \cup {"proxy-blocklisted-malicious"} /\ Settled' = Settled \cup Reasons
        BY <3>1, <3>2 DEF Blocklisted, Settled
      <4>2. \A r \in Reasons : r \in {"proxy-blocklisted-malicious"} <=> True(r)
        BY <2>2, <2>3, <2>4, <3>2, TrueMeans DEF Blocklisted, Reasons
      <4>3. QED
        BY <2>2, <4>1, <4>2, Settling DEF Reasons
    <3>3. CASE SayNothing
      <4>1. findings' = findings \cup {} /\ Settled' = Settled \cup (OfSwitch \cup OfFreshness)
        BY <3>1, <3>3 DEF SayNothing, Settled
      <4>2. \A r \in OfSwitch \cup OfFreshness : r \in {} <=> True(r)
        BY <2>2, <2>3, <2>4, <3>3, TrueMeans DEF SayNothing, OfSwitch, OfFreshness
      <4>3. QED
        BY <2>2, <4>1, <4>2, Settling
    <3>4. CASE NotFound
      <4>1. findings' = findings \cup {"not-found"} /\ Settled' = Settled \cup (OfSwitch \cup OfFreshness)
        BY <3>1, <3>4 DEF NotFound, Settled
      <4>2. target.served = "unresolved" /\ ~Pinned
        BY <2>3, <3>4 DEF NotFound, Missing, Pinned
      <4>3. \A r \in OfSwitch \cup OfFreshness : r \in {"not-found"} <=> True(r)
        BY <2>2, <2>3, <2>4, <4>2, TrueMeans DEF OfSwitch, OfFreshness
      <4>4. QED
        BY <2>2, <4>1, <4>3, Settling DEF OfSwitch
    <3>5. CASE NoVersionToCheck
      <4>1. findings' = findings \cup {} /\ Settled' = Settled \cup OfSwitch
        BY <3>1, <3>5 DEF NoVersionToCheck, Settled
      <4>2. \A r \in OfSwitch : r \in {} <=> True(r)
        BY <2>2, <2>5, <3>5, TrueMeans DEF NoVersionToCheck, OfSwitch, NoSuchVersion, Pinned
      <4>3. QED
        BY <2>2, <4>1, <4>2, Settling
    <3>6. QED
      BY <2>7, <3>2, <3>3, <3>4, <3>5 DEF Judge
  <2>8. CASE AskPinned
    <3>1. at = "status" /\ Settled = {} /\ Settled' = Settled \cup (OfSwitch \cup OfFreshness)
      BY <2>8 DEF AskPinned, Settled
    <3>2. target.served = "unresolved" /\ Pinned
      BY <2>3, <2>8 DEF AskPinned, Missing, Pinned
    <3>3. findings' = findings \cup (IF PinReal THEN {} ELSE {"not-found"})
      <4>1. PICK failed \in BOOLEAN :
              /\ IF failed THEN Fail("pin") ELSE UNCHANGED trouble
              /\ IF VersionExists(pin, failed) = "exists"
                 THEN UNCHANGED findings ELSE Report({"not-found"})
        BY <2>8 DEF AskPinned
      <4>2. ~failed
        BY <4>1 DEF Fail
      <4>3. VersionExists(pin, failed) = "exists" <=> PinReal
        BY <4>2 DEF VersionExists, PinReal
      <4>4. QED
        BY <4>1, <4>3
    <3>4. \A r \in OfSwitch \cup OfFreshness : r \in (IF PinReal THEN {} ELSE {"not-found"}) <=> True(r)
      BY <2>2, <2>3, <2>4, <3>2, TrueMeans DEF OfSwitch, OfFreshness
    <3>5. QED
      BY <2>2, <3>1, <3>3, <3>4, Settling DEF OfSwitch
  <2>9. CASE AskVersion
    <3>1. at = "status" /\ Settled = {} /\ status.exists /\ Pinned
      BY <2>9 DEF AskVersion, Settled, Pinned
    <3>2. PICK failed \in BOOLEAN :
            /\ IF failed THEN Fail("pin") ELSE UNCHANGED trouble
            /\ \/ VersionExists(pin, failed) = "missing" /\ Report({"version-not-found"}) /\ at' = "content"
               \/ VersionExists(pin, failed) = "exists" /\ at' \in {"resolve", "freshness"} /\ UNCHANGED findings
               \/ VersionExists(pin, failed) = "unknown" /\ at' = "freshness" /\ UNCHANGED findings
      BY <2>9 DEF AskVersion
    <3>3. ~failed
      BY <3>2 DEF Fail
    <3>4. CASE ~PinReal
      <4>1. /\ findings' = findings \cup {"version-not-found"}
            /\ Settled' = Settled \cup (OfSwitch \cup OfFreshness)
        BY <3>1, <3>2, <3>3, <3>4 DEF VersionExists, PinReal, Settled
      <4>2. NoSuchVersion
        BY <2>2, <3>1, <3>4 DEF NoSuchVersion
      <4>3. \A r \in OfSwitch \cup OfFreshness : r \in {"version-not-found"} <=> True(r)
        BY <2>2, <2>5, <3>1, <4>2, TrueMeans DEF OfSwitch, OfFreshness
      <4>4. QED
        BY <2>2, <4>1, <4>3, Settling DEF OfSwitch
    <3>5. CASE PinReal
      <4>1. findings' = findings \cup {} /\ Settled' = Settled \cup OfSwitch
        BY <3>1, <3>2, <3>3, <3>5 DEF VersionExists, PinReal, Settled
      <4>2. \A r \in OfSwitch : r \in {} <=> True(r)
        BY <2>2, <2>5, <3>1, <3>5, TrueMeans DEF OfSwitch, NoSuchVersion
      <4>3. QED
        BY <2>2, <4>1, <4>2, Settling
    <3>6. QED
      BY <3>4, <3>5
  <2>10. CASE Resolve
    BY <2>6, <2>10 DEF Resolve, Settled
  <2>11. CASE Freshness
    <3>1. CASE at' = "fresh walk"
      BY <2>6, <2>11, <3>1 DEF Freshness, Settled
    <3>2. CASE at' # "fresh walk"
      <4>1. findings' = findings \cup {} /\ Settled' = Settled \cup OfFreshness
        BY <2>11, <3>2 DEF Freshness, Settled
      <4>2. ~Thin(Truth) /\ ~Flooded(Truth)
        BY <2>2, <2>11, <3>2 DEF Freshness
      <4>3. \A r \in OfFreshness : r \in {} <=> True(r)
        BY <4>2, TrueMeans DEF OfFreshness
      <4>4. QED
        BY <2>2, <4>1, <4>3, Settling
    <3>3. QED
      BY <3>1, <3>2
  <2>12. CASE Walking
    BY <2>6, <2>12 DEF Walking, Settled
  <2>13. CASE FreshnessVerdict
    <3> DEFINE told == {r \in {"new-and-thin", "version-flooded"} :
                  \/ /\ r = "new-and-thin"
                     /\ Thin(status) /\ ~bump /\ ~pinnedPseudoVersionPredates(pin, Recent)
                  \/ /\ r = "version-flooded"
                     /\ Flooded(status) /\ ~bump /\ ~pinnedPseudoVersionPredates(pin, Young)}
    <3>1. /\ at = "fresh walk" /\ stage = "ended"
          /\ findings' = findings \cup told /\ Settled' = Settled \cup OfFreshness
      BY <2>13 DEF FreshnessVerdict, Settled
    <3>2. (bump <=> BumpOfEstablished) /\ ~NoSuchVersion
      BY <2>1, <2>2, <3>1, WalkTells DEF PathPart, NoSuchVersion
    <3>3. \A r \in OfFreshness : r \in told <=> True(r)
      BY <2>2, <3>2, TrueMeans DEF OfFreshness, pinnedPseudoVersionPredates
    <3>4. told \subseteq OfFreshness
      BY DEF OfFreshness
    <3> HIDE DEF told
    <3>5. QED
      BY <2>2, <3>1, <3>3, <3>4, Settling
  <2>14. CASE Content
    <3> DEFINE told == {r \in {"retracted", "deprecated"} :
                  \/ r = "retracted" /\ retraction(status.body, checkVersion)
                  \/ r = "deprecated" /\ deprecation(status.body)}
    <3>1. at = "content" /\ findings' = findings \cup told
      BY <2>14 DEF Content
    <3>2. \A r \in OfBody : r \in told <=> True(r)
      BY <2>2, <3>1, RetractedExactly, TrueMeans DEF OfBody
    <3>3. told \subseteq OfBody
      BY DEF OfBody
    <3>4. CASE at' = "collision walk"
      <4>1. Settled' = Settled \cup OfBody
        BY <3>1, <3>4 DEF Settled
      <4> HIDE DEF told
      <4>2. QED
        BY <2>2, <3>1, <3>2, <3>3, <4>1, Settling
    <3>5. CASE at' # "collision walk"
      <4>1. at' = "done" /\ ~Suspect(Truth)
        BY <2>2, <2>14, <3>5 DEF Content
      <4>2. Settled' = Settled \cup (OfBody \cup {"name-collision-exact", "name-collision-risk"})
        BY <3>1, <4>1 DEF Settled, Reasons, OfSwitch, OfFreshness, OfBody
      <4>3. ~True("name-collision-exact") /\ ~True("name-collision-risk")
        BY <4>1, TrueMeans
      <4>4. /\ "name-collision-exact" \notin told /\ "name-collision-risk" \notin told
            /\ told \subseteq OfBody \cup {"name-collision-exact", "name-collision-risk"}
        BY <3>3
      <4> HIDE DEF told
      <4>5. \A r \in OfBody \cup {"name-collision-exact", "name-collision-risk"} : r \in told <=> True(r)
        BY <3>2, <4>3, <4>4
      <4>6. QED
        BY <2>2, <3>1, <4>2, <4>4, <4>5, Settling
    <3>6. QED
      BY <3>4, <3>5
  <2>15. CASE CollisionVerdict
    <3> DEFINE reason == IF lookalike = "exact" THEN "name-collision-exact" ELSE "name-collision-risk"
               told == IF bump THEN {} ELSE {reason}
               both == {"name-collision-exact", "name-collision-risk"}
    <3>1. at = "collision walk" /\ stage = "ended" /\ findings' = findings \cup told
      BY <2>15 DEF CollisionVerdict
    <3>2. Settled' = Settled \cup both
      BY <2>15, <3>1 DEF CollisionVerdict, Settled, Reasons, OfSwitch, OfFreshness, OfBody
    <3>3. (bump <=> BumpOfEstablished) /\ Suspect(Truth) /\ target.served # "malware"
      BY <2>1, <2>2, <2>3, <3>1, WalkTells DEF PathPart
    <3>4. lookalike \in {"exact", "near"}
      BY <3>3 DEF Suspect
    <3>5. \A r \in both : r \in told <=> True(r)
      BY <3>3, <3>4, TrueMeans
    <3>6. told \subseteq both
      OBVIOUS
    <3> HIDE DEF told, both
    <3>7. QED
      BY <2>2, <3>1, <3>2, <3>5, <3>6, Settling
  <2>16. CASE Done \/ UNCHANGED vars
    BY <2>6, <2>16 DEF Done, vars, auditVars, Settled
  <2>17. QED
    BY <1>2, <2>7, <2>8, <2>9, <2>10, <2>11, <2>12, <2>13, <2>14, <2>15, <2>16 DEF Next, Step, LookUp
<1>3. QED
  BY <1>1, <1>2

(* With a proxy that answers every request, the audit of any module, at any  *)
(* pin and with any predecessors, reports exactly what is true of it.        *)
THEOREM UntroubledIsExact == Spec => []ExactWithoutTrouble
<1>1. Init => AuditInv /\ ExactInv
  BY AuditInitially DEF Init, ExactInv, Settled
<1>2. AuditInv /\ ExactInv /\ [Next]_vars => AuditInv' /\ ExactInv'
  BY AuditStep, ExactStep
<1>3. ExactInv => ExactWithoutTrouble
  BY DEF ExactInv, ExactWithoutTrouble, Settled
<1>4. QED
  BY <1>1, <1>2, <1>3, PTL DEF Spec
=============================================================================
