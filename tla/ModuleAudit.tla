----------------------------- MODULE ModuleAudit -----------------------------
(* CheckRequirement and evaluateModuleStatus (src/check.go): the audit of    *)
(* one module, from the proxy's answers to its findings.  Every request may  *)
(* fail; the walk of IsMajorVersionBumpOfEstablished (MajorWalk) is run step *)
(* by step wherever the code calls it, anew each time.                       *)
EXTENDS MajorWalk

CONSTANTS
    Targets,        \* the modules under audit, as the proxy has them: SUBSET Facts
    Pins            \* the versions go.mod may require, see Pin

(* A required version.  shape: "none" (a tool directive), "literal" (a tag,  *)
(* a prefix, a pseudo-version: one .info request), or "query" (latest,       *)
(* upgrade, <, <=, >, >=: a request to resolve it, then the .info).          *)
(* resolves: the version the proxy gives for it.  raw: the version           *)
(* semver.Compare takes the text itself for, NoVersion if it is no version.  *)
Pin == [shape : {"none", "literal", "query"},
        resolves : Version \cup {NoVersion},
        raw : Version \cup {NoVersion},
        pseudo : BOOLEAN]

ASSUME AuditAssumption == Targets \subseteq Facts /\ Pins \subseteq Pin

(* Semver, and the go command's rule for a module path without a major       *)
(* suffix: the tags of major 2 and above are +incompatible, and no other is. *)
ASSUME MajorsAssumption ==
    /\ \A v, w \in Version : Major[v] < Major[w] => Rank[v] < Rank[w]
    /\ \A v \in Incompatible : Major[v] > 1
    /\ \A f \in Targets : f.latest \in Incompatible =>
          \A v \in f.tags \ Incompatible : Major[v] <= 1

VARIABLES
    target,         \* the module
    pin,            \* the required version
    lookalike,      \* closestPopularMatch: "none", "exact" or "near"
    at,             \* where the audit is
    status,         \* Lookup's answer
    checkVersion,   \* what retraction compares
    findings,       \* the reasons found so far
    trouble         \* the requests that failed, other than a walk's; "walk" for one of a walk's

auditVars == <<target, pin, lookalike, at, status, checkVersion, findings, trouble>>
world == <<target, pin, lookalike, walkWorld>>
vars == <<auditVars, walkVars>>

Init ==
    /\ WalkInit
    /\ target \in Targets
    /\ pin \in Pins
    /\ lookalike \in {"none", "exact", "near"}
    /\ at = "lookup"
    /\ status = Absent
    /\ checkVersion = pin.raw
    /\ findings = {}
    /\ trouble = {}

-----------------------------------------------------------------------------
(* What the status is taken to mean. *)

looksUnestablished(s) == s.unknown \/ ~s.exists \/ Thin(s) \/ Flooded(s)

looksUnestablishedForImpersonation(s) == s.count = 0 \/ looksUnestablished(s)

\* mutant: any version older than the window
AnyPinPredates(p, window) == p.raw \notin window

pinnedPseudoVersionPredates(p, window) == p.pseudo /\ p.raw \notin window

retraction(body, version) ==
    body # NoVersion /\ version # NoVersion /\ version \in Retracts[body]

deprecation(body) == body \in Deprecates

Suspect(s) ==
    \/ lookalike = "exact" /\ looksUnestablishedForImpersonation(s)
    \/ lookalike = "near" /\ looksUnestablished(s)

\* mutant: an unanswered request read as an answer
VersionExistsOrMissing(p, failed) ==
    IF failed \/ p.resolves = NoVersion THEN "missing" ELSE "exists"

\* mutant: a well-formed version never called missing
VersionExistsIfWellFormed(p, failed) ==
    IF failed \/ (p.resolves = NoVersion /\ p.raw # NoVersion) THEN "unknown"
    ELSE IF p.resolves = NoVersion THEN "missing" ELSE "exists"

(* VersionExists: unknown if a request failed, else whether it resolves. *)
VersionExists(p, failed) ==
    IF failed THEN "unknown" ELSE IF p.resolves = NoVersion THEN "missing" ELSE "exists"

-----------------------------------------------------------------------------
Report(reasons) == findings' = findings \cup reasons
Fail(request) == trouble' = trouble \cup {request}

(* status := proxy.Lookup(req.Path) *)
LookUp ==
    /\ at = "lookup"
    /\ \E failed \in Failures(target) :
         /\ status' = Lookup(target, failed)
         /\ trouble' = failed
    /\ at' = "status"
    /\ UNCHANGED <<world, walkVars, checkVersion, findings>>

\* mutant: an unknown status is asked for again, for ever
SayNothingAndStay ==
    /\ at = "status" /\ (status.unknown \/ status.private)
    /\ at' = "status"
    /\ UNCHANGED findings

(* The switch on the status. *)
Blocklisted ==
    /\ at = "status" /\ status.blocklisted
    /\ Report({"proxy-blocklisted-malicious"})
    /\ at' = "done"

SayNothing ==
    /\ at = "status" /\ (status.unknown \/ status.private)
    /\ at' = "content"
    /\ UNCHANGED findings

Missing == ~(status.exists \/ status.blocklisted \/ status.unknown \/ status.private)

NotFound ==
    /\ at = "status" /\ Missing /\ pin.shape = "none"
    /\ Report({"not-found"})
    /\ at' = "content"

NoVersionToCheck ==
    /\ at = "status" /\ status.exists /\ pin.shape = "none"
    /\ at' = "freshness"
    /\ UNCHANGED findings

Judge ==
    /\ Blocklisted \/ SayNothing \/ NotFound \/ NoVersionToCheck
    /\ UNCHANGED <<world, walkVars, status, checkVersion, trouble>>

(* pinnedVersionResolves: only an answer that the version exists saves a     *)
(* module whose @latest does not resolve from not-found.                     *)
AskPinned ==
    /\ at = "status" /\ Missing /\ pin.shape # "none"
    /\ \E failed \in BOOLEAN :
         /\ IF failed THEN Fail("pin") ELSE UNCHANGED trouble
         /\ IF VersionExists(pin, failed) = "exists"
            THEN UNCHANGED findings ELSE Report({"not-found"})
    /\ at' = "content"
    /\ UNCHANGED <<world, walkVars, status, checkVersion>>

(* The module exists: does the pinned version? *)
AskVersion ==
    /\ at = "status" /\ status.exists /\ pin.shape # "none"
    /\ \E failed \in BOOLEAN :
         LET answer == VersionExists(pin, failed)
         IN  /\ IF failed THEN Fail("pin") ELSE UNCHANGED trouble
             /\ \/ /\ answer = "missing"
                   /\ Report({"version-not-found"})
                   /\ at' = "content"
                \/ /\ answer = "exists" /\ status.body # NoVersion
                   /\ at' = "resolve" /\ UNCHANGED findings
                \/ /\ answer = "unknown" \/ (answer = "exists" /\ status.body = NoVersion)
                   /\ at' = "freshness" /\ UNCHANGED findings
    /\ UNCHANGED <<world, walkVars, status, checkVersion>>

\* mutant: the version as go.mod spells it is compared
ResolveIgnored ==
    /\ at = "resolve"
    /\ UNCHANGED <<checkVersion, trouble>>
    /\ at' = "freshness"
    /\ UNCHANGED <<world, walkVars, status, findings>>

(* checkVersion = ResolveVersion(...), if that succeeds *)
Resolve ==
    /\ at = "resolve"
    /\ \/ checkVersion' = pin.resolves /\ UNCHANGED trouble
       \/ UNCHANGED checkVersion /\ Fail("resolve")
    /\ at' = "freshness"
    /\ UNCHANGED <<world, walkVars, status, findings>>

(* The new-and-thin and version-flooded cases: the walk is asked only once   *)
(* the cheaper conditions hold.                                              *)
Freshness ==
    /\ at = "freshness"
    /\ \/ /\ Thin(status) \/ Flooded(status)
          /\ Begin /\ at' = "fresh walk"
       \/ /\ ~Thin(status) /\ ~Flooded(status)
          /\ at' = "content" /\ UNCHANGED walkVars
    /\ UNCHANGED <<target, pin, lookalike, status, checkVersion, findings, trouble>>

Walking ==
    /\ at \in {"fresh walk", "collision walk"}
    /\ WalkStep
    /\ IF walkTrouble' THEN Fail("walk") ELSE UNCHANGED trouble
    /\ UNCHANGED <<target, pin, lookalike, at, status, checkVersion, findings>>

FreshnessVerdict ==
    /\ at = "fresh walk" /\ stage = "ended"
    /\ LET thin == Thin(status) /\ ~bump /\ ~pinnedPseudoVersionPredates(pin, Recent)
           flooded == Flooded(status) /\ ~bump /\ ~pinnedPseudoVersionPredates(pin, Young)
       IN  Report({r \in {"new-and-thin", "version-flooded"} :
                     \/ r = "new-and-thin" /\ thin
                     \/ r = "version-flooded" /\ flooded})
    /\ stage' = "idle"
    /\ at' = "content"
    /\ UNCHANGED <<world, status, checkVersion, trouble, m, implicit, asked, bump, lookups,
                   requests, walkTrouble>>

(* retracted and deprecated, whatever the switch found; then the collision   *)
(* check, which walks again.                                                 *)
Content ==
    /\ at = "content"
    /\ Report({r \in {"retracted", "deprecated"} :
                 \/ r = "retracted" /\ retraction(status.body, checkVersion)
                 \/ r = "deprecated" /\ deprecation(status.body)})
    /\ \/ Suspect(status) /\ Begin /\ at' = "collision walk"
       \/ ~Suspect(status) /\ at' = "done" /\ UNCHANGED walkVars
    /\ UNCHANGED <<target, pin, lookalike, status, checkVersion, trouble>>

CollisionVerdict ==
    /\ at = "collision walk" /\ stage = "ended"
    /\ IF bump THEN UNCHANGED findings
       ELSE Report({IF lookalike = "exact" THEN "name-collision-exact" ELSE "name-collision-risk"})
    /\ at' = "done"
    /\ UNCHANGED <<world, walkVars, status, checkVersion, trouble>>

Done == at = "done" /\ UNCHANGED vars

Step ==
    \/ LookUp \/ Judge \/ AskPinned \/ AskVersion \/ Resolve
    \/ Freshness \/ Walking \/ FreshnessVerdict \/ Content \/ CollisionVerdict

Next == Step \/ Done

Spec == Init /\ [][Next]_vars

(* One goroutine runs the audit, and every request ends, answered or not,    *)
(* within the client's ten-second timeout.                                   *)
FairSpec == Spec /\ WF_vars(Step)

-----------------------------------------------------------------------------
(* Properties. *)

Reasons == {"proxy-blocklisted-malicious", "not-found", "version-not-found", "new-and-thin",
            "version-flooded", "retracted", "deprecated", "name-collision-exact",
            "name-collision-risk"}

(* What the findings are meant to say about the world, without the program:  *)
(* each reason as the README states it, from the facts alone.                *)
True(reason) ==
    LET s == Lookup(target, {})
        pinned == pin.shape # "none"
        real == pin.resolves # NoVersion
        noSuchVersion == s.exists /\ pinned /\ ~real
        pulledIn == IF s.exists /\ pinned /\ real THEN pin.resolves ELSE pin.raw
        unproven == ~BumpOfEstablished
    IN  CASE reason = "proxy-blocklisted-malicious" -> target.served = "malware"
          [] reason = "not-found" -> target.served = "unresolved" /\ ~(pinned /\ real)
          [] reason = "version-not-found" -> noSuchVersion
          [] reason = "new-and-thin" ->
                 ~noSuchVersion /\ Thin(s) /\ unproven /\ ~(pin.pseudo /\ pin.raw \notin Recent)
          [] reason = "version-flooded" ->
                 ~noSuchVersion /\ Flooded(s) /\ unproven /\ ~(pin.pseudo /\ pin.raw \notin Young)
          [] reason = "retracted" -> retraction(s.body, pulledIn)
          [] reason = "deprecated" -> deprecation(s.body)
          [] reason = "name-collision-exact" ->
                 target.served # "malware" /\ lookalike = "exact" /\ Suspect(s) /\ unproven
          [] reason = "name-collision-risk" ->
                 target.served # "malware" /\ lookalike = "near" /\ Suspect(s) /\ unproven

(* With a proxy that answers, the audit reports exactly what is true,        *)
(* whichever of its exits, walks and fallbacks it took.                      *)
ExactWithoutTrouble ==
    at = "done" /\ trouble = {} => findings = {r \in Reasons : True(r)}

(* The requests whose failure can make the code report a reason that is not  *)
(* true.  The empty sets are the code's "say nothing rather than a false     *)
(* finding"; the others are how far the code is from it.                     *)
Blame(reason) ==
    CASE reason \in {"proxy-blocklisted-malicious", "version-not-found"} -> {}
      [] reason = "not-found" -> {"pin"}
      [] reason = "new-and-thin" -> {"pin", "info", "walk"}
      [] reason = "version-flooded" -> {"pin", "walk"}
      [] reason = "retracted" -> {"list", "pin", "resolve"}
      [] reason = "deprecated" -> {"list"}
      [] reason = "name-collision-exact" -> {"latest", "list", "info", "walk"}
      [] reason = "name-collision-risk" -> {"latest", "info", "walk"}

(* A false finding is never out of the blue: one of the requests Blame names *)
(* failed.  In particular no outage at all can make modslop call a module    *)
(* blocklisted or a version unpublished when it is not.                      *)
FalseFindingsHaveACause ==
    \A r \in findings : True(r) \/ trouble \cap Blame(r) # {}

(* Outside a suffixed module path, trouble hides a pinned version that does  *)
(* not exist only by failing the request that asks for it.                   *)
MissingVersionHiddenOnlyByItsOwnRequests ==
    at = "done" /\ True("version-not-found") /\ trouble \cap {"latest", "pin"} = {} =>
        "version-not-found" \in findings

(* Every audit ends.                                                         *)
AuditEnds == <>(at = "done")
=============================================================================
