------------------------------ MODULE MajorWalk ------------------------------
(* IsMajorVersionBumpOfEstablished (src/proxy.go): does the module at        *)
(* .../vN look new only because it is the next major version of an           *)
(* established one?  The walk looks up .../v(N-1), .../v(N-2), ..., each     *)
(* Lookup a step of its own, any of whose requests may fail.                 *)
EXTENDS ProxyFacts

CONSTANTS
    WalkCap,        \* majorVersionWalkBackCap, 8 in the code
    Suffixes,       \* the major numbers a module path can end in; 0 is "no suffix"
    Predecessors    \* the families of predecessors: [1..(n-1) -> Facts] functions

ASSUME WalkAssumption ==
    /\ WalkCap \in Nat
    /\ Suffixes \subseteq Nat

(* The proxy's @latest is the newest release there is, or a commit later     *)
(* than the tags it passes over: if it is old, so is the only tag.           *)
ASSUME LatestAssumption ==
    \A f \in Predecessors : \A k \in DOMAIN f :
        /\ f[k] \in Facts
        /\ \A v \in Recent : f[k].tags = {v} => f[k].latest \in Recent

VARIABLES
    major,          \* the N of the path's /vN or .vN suffix
    gopkg,          \* a gopkg.in path: it has no unsuffixed form
    family,         \* the facts of the predecessors; family[1] is v1's, or the unsuffixed path's
    stage,          \* where the walk is
    m,              \* the predecessor to look up next
    implicit,       \* the memoized status of the unsuffixed path, or Absent and not asked
    asked,          \* implicitChecked
    bump,           \* the verdict
    lookups,        \* the Lookups this walk has made
    requests,       \* the proxy requests of this walk and the walks before it
    walkTrouble     \* a request of this walk failed

walkVars == <<major, gopkg, family, stage, m, implicit, asked, bump, lookups,
              requests, walkTrouble>>
walkWorld == <<major, gopkg, family>>

WalkInit ==
    /\ major \in Suffixes
    /\ gopkg \in {b \in BOOLEAN : b => major > 0}
    /\ \E f \in Predecessors : DOMAIN f = 1..(major - 1) /\ family = f
    /\ stage = "idle"
    /\ m = 0 /\ lookups = 0 /\ requests = 0
    /\ implicit = Absent /\ asked = FALSE
    /\ bump = FALSE
    /\ walkTrouble = FALSE

-----------------------------------------------------------------------------
(* More than one version, or a latest one old enough: evidence of a project  *)
(* with a past.                                                              *)
Established(status) == status.count > 1 \/ status.latest \notin Recent

End(verdict) == stage' = "ended" /\ bump' = verdict /\ UNCHANGED m
GoBack == stage' = "suffixed" /\ m' = m - 1 /\ UNCHANGED bump
Weigh(status) == IF Established(status) THEN End(TRUE) ELSE GoBack

(* A wrong WeighImplicit: an absent module's zero time reads as an old one.  *)
WeighAnyway(status) == Weigh(status)
WeighImplicit(status) == IF status.exists THEN Weigh(status) ELSE End(FALSE)

Remember(status) == implicit' = status /\ asked' = TRUE

(* A wrong InReach: the walk stops one predecessor short of the cap.         *)
InReachShort == m > major - WalkCap /\ m >= 1

(* The loop's bound, and predecessorMajorPath's: v0 has no path of its own.  *)
InReachUncapped == m >= 1
InReach == m > major - 1 - WalkCap /\ m >= 1

(* The call: a path without a major suffix is never a bump. *)
Begin ==
    /\ stage = "idle"
    /\ IF major = 0 THEN stage' = "ended" ELSE stage' = "suffixed"
    /\ m' = major - 1
    /\ bump' = FALSE
    /\ lookups' = 0
    /\ implicit' = Absent /\ asked' = FALSE
    /\ walkTrouble' = FALSE
    /\ UNCHANGED <<walkWorld, requests>>

RunsOut ==
    /\ stage = "suffixed"
    /\ ~InReach
    /\ End(FALSE)
    /\ UNCHANGED <<walkWorld, implicit, asked, lookups, requests, walkTrouble>>

(* status := c.Lookup(predecessor), and what the loop body makes of it. *)
AskPredecessor ==
    /\ stage = "suffixed"
    /\ InReach
    /\ lookups' = lookups + 1
    /\ \E failed \in Failures(family[m]) :
         LET status == Lookup(family[m], failed)
         IN  /\ requests' = requests + Cardinality(Sent(family[m], failed))
             /\ walkTrouble' = (walkTrouble \/ failed # {})
             /\ \/ status.exists /\ Weigh(status)
                \/ ~status.exists /\ (gopkg \/ m = 1) /\ End(FALSE)
                \/ /\ ~status.exists /\ ~(gopkg \/ m = 1) /\ asked
                   /\ WeighImplicit(implicit)
                \/ /\ ~status.exists /\ ~(gopkg \/ m = 1) /\ ~asked
                   /\ stage' = "implicit" /\ UNCHANGED <<m, bump>>
    /\ UNCHANGED <<walkWorld, implicit, asked>>

(* implicitStatus = c.Lookup(prefix): a predecessor that does not resolve    *)
(* may live on, "+incompatible", under the unsuffixed path.                  *)
AskImplicit ==
    /\ stage = "implicit"
    /\ lookups' = lookups + 1
    /\ \E failed \in Failures(family[1]) :
         /\ Remember(Lookup(family[1], failed))
         /\ requests' = requests + Cardinality(Sent(family[1], failed))
         /\ walkTrouble' = (walkTrouble \/ failed # {})
    /\ WeighImplicit(implicit')
    /\ UNCHANGED walkWorld

WalkStep == RunsOut \/ AskPredecessor \/ AskImplicit

Walked == stage = "ended" /\ UNCHANGED walkVars

WalkNext == Begin \/ WalkStep \/ Walked

WalkSpec == WalkInit /\ [][WalkNext]_walkVars

-----------------------------------------------------------------------------
(* Properties. *)

WalkTypeOK ==
    /\ major \in Suffixes /\ gopkg \in BOOLEAN
    /\ stage \in {"idle", "suffixed", "implicit", "ended"}
    /\ m \in Int /\ (m < major \/ stage = "idle")
    /\ implicit \in Status /\ asked \in BOOLEAN /\ bump \in BOOLEAN
    /\ lookups \in Nat /\ requests \in Nat /\ walkTrouble \in BOOLEAN

(* majorVersionWalkBackCap's promise: however long the chain of thin or      *)
(* missing predecessors, a walk makes at most WalkCap Lookups and one more   *)
(* for the unsuffixed path, which is memoized; at five requests each.        *)
BoundedWalk == lookups <= WalkCap + 1 /\ requests <= 5 * (WalkCap + 1)

(* What the walk is for, said without the walk: some predecessor within the  *)
(* cap is established, and no predecessor between it and the module is       *)
(* missing, where one that does not resolve at its own path may be found     *)
(* under the unsuffixed one (never so for gopkg.in).                         *)
Stands(k) ==
    LET own == Lookup(family[k], {})
        unsuffixed == Lookup(family[1], {})
    IN  IF own.exists \/ gopkg THEN own ELSE unsuffixed

BumpOfEstablished ==
    \E k \in 1..(major - 1) :
        /\ k >= major - WalkCap
        /\ Established(Stands(k))
        /\ \A j \in k..(major - 1) : Stands(j).exists

(* Without trouble the verdict is exactly that.                              *)
VerdictExact ==
    stage = "ended" /\ ~walkTrouble => (bump <=> BumpOfEstablished)

(* Trouble alone never makes a module look established: behind a TRUE        *)
(* verdict there is always a predecessor, or the unsuffixed path, whose real *)
(* history is established, whichever requests failed on the way.             *)
EvidenceIsReal ==
    bump => \E k \in 1..(major - 1) : Established(Lookup(family[k], {})) /\ Lookup(family[k], {}).exists

(* Why BoundedWalk is inductive: the lookups made so far are counted by the  *)
(* distance walked, plus one once the unsuffixed path has been asked.        *)
Unit == IF asked THEN 1 ELSE 0
WalkCount ==
    /\ stage = "idle" => lookups = 0
    /\ stage = "suffixed" =>
          /\ major - 1 - WalkCap <= m /\ m <= major - 1
          /\ lookups = major - 1 - m + Unit
    /\ stage = "implicit" =>
          /\ major - 1 - WalkCap < m /\ m <= major - 1
          /\ ~asked /\ lookups = major - m
    /\ stage = "ended" => lookups <= WalkCap + 1
    /\ requests <= 5 * lookups
=============================================================================
