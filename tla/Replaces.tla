------------------------------ MODULE Replaces ------------------------------
(* CheckAll's handling of replace, exclude and duplicate require directives  *)
(* (src/check.go, src/gomod.go): which module the build fetches in place of  *)
(* each requirement, which replacements nothing requires, and which go.mod   *)
(* files the go command refuses.  A version as go.mod spells it (a tag, a    *)
(* prefix, a query) is a text; the proxy resolves texts to tags, one request *)
(* per text and call, and any of those requests may fail.                    *)
EXTENDS Integers, Sequences, SequencesExt

CONSTANTS
    Path,           \* module paths
    Directory,      \* filesystem paths, the targets of local replaces
    Text,           \* version texts
    NoText,         \* no version: the directive applies to all of them
    Tag,            \* per path and text, the tag the proxy resolves it to, or NoText
    Ambiguous,      \* the <= and > queries whose operand is a prefix
    Files           \* the go.mod files under audit, with the go.work's replaces

Requirement == [path : Path, version : Text]
Replacement == [old : Path, oldVersion : Text \cup {NoText},
                new : Path \cup Directory, newVersion : Text \cup {NoText}]
\* Replacement{}, false: no replacement applies
None == [old |-> NoText, oldVersion |-> NoText, new |-> NoText, newVersion |-> NoText]

ASSUME ReplaceAssumption ==
    /\ NoText \notin Text \cup Path \cup Directory
    /\ Path \cap Directory = {}
    /\ Tag \in [Path -> [Text -> Text \cup {NoText}]]
    /\ \A p \in Path : \A v \in Text : Tag[p][v] # NoText => Tag[p][Tag[p][v]] = Tag[p][v]
    /\ Ambiguous \subseteq Text
    /\ \A f \in Files :
          /\ f.reqs \in Seq(Requirement) /\ f.excludes \in Seq(Requirement)
          /\ f.gomod \in Seq(Replacement) /\ f.gowork \in Seq(Replacement)
          /\ f.inWorkspace \in BOOLEAN
          /\ ~f.inWorkspace => f.gowork = <<>>

VARIABLES
    file,           \* the directives read: reqs, excludes, gomodReps, goWorkReplaces, inWorkspace
    phase,          \* where CheckAll is
    next,           \* the requirement it looks at
    chosen,         \* rep, per requirement: what selectReplace returned for it
    resolved,       \* the modules to audit
    replacedFrom,   \* per module to audit, the path it was replaced from, or NoText
    findings,       \* the self-contradictions reported, as [reason, module]
    trouble         \* the calls in which a ResolveVersion failed

vars == <<file, phase, next, chosen, resolved, replacedFrom, findings, trouble>>

Init ==
    /\ file \in Files
    /\ phase = "select"
    /\ next = 1
    /\ chosen = <<>> /\ resolved = <<>> /\ replacedFrom = <<>>
    /\ findings = {}
    /\ trouble = {}

-----------------------------------------------------------------------------
(* The helpers. *)

IsLocal(r) == r.new \in Directory
General(r) == r.oldVersion = NoText

\* mutant: what a general overlay entry overrides is kept
mergeReplacesKeeping(base, overlay) == overlay \o base

(* The overlay's entries first; a general one there drops every base entry   *)
(* for its path.                                                             *)
mergeReplaces(base, overlay) ==
    LET generalInOverlay == {r.old : r \in {s \in ToSet(overlay) : General(s)}}
        merged[i \in 0..Len(base)] ==
            IF i = 0 THEN overlay
            ELSE IF base[i].old \in generalInOverlay THEN merged[i - 1]
            ELSE Append(merged[i - 1], base[i])
    IN  merged[Len(base)]

reps == mergeReplaces(file.gomod, file.gowork)
declared == {r.path : r \in ToSet(file.reqs)}

(* ResolveVersion, failed being the texts whose request fails. *)
ResolveVersion(path, text, failed) == IF text \in failed THEN NoText ELSE Tag[path][text]

\* mutant: two versions the proxy does not know taken for the same one
SameTagOrNone(path, v, w, failed) ==
    ResolveVersion(path, v, failed) = ResolveVersion(path, w, failed)

SameTag(path, v, w, failed) ==
    /\ ResolveVersion(path, v, failed) # NoText
    /\ ResolveVersion(path, v, failed) = ResolveVersion(path, w, failed)

(* The first literal match, else the first that resolves to the same tag,    *)
(* else the last general entry.                                              *)
selectReplace(entries, req, failed) ==
    LET here == {i \in DOMAIN entries : entries[i].old = req.path}
        generals == {i \in here : General(entries[i])}
        literal == {i \in here : entries[i].oldVersion = req.version}
        equal == {i \in here \ generals :
                    SameTag(req.path, req.version, entries[i].oldVersion, failed)}
    IN  CASE literal # {} -> entries[Min(literal)]
          [] literal = {} /\ equal # {} -> entries[Min(equal)]
          [] literal = {} /\ equal = {} /\ generals # {} -> entries[Max(generals)]
          [] OTHER -> None

(* What a requirement becomes under the replacement found for it. *)
Fetched(req, rep) ==
    IF rep = None THEN req
    ELSE [path |-> rep.new,
          version |-> IF rep.newVersion # NoText THEN rep.newVersion ELSE req.version]

Target(rep) == [path |-> rep.new, version |-> rep.newVersion]

\* mutant: a replace of a path by itself counts as a chain
chainedAwayOrSelf == {r.new : r \in {s \in ToSet(reps) : ~IsLocal(s)}}

(* The paths on the New side of another path's replace: replaces do not      *)
(* chain, so a replace of one of them that nothing requires is never used.   *)
chainedAway == {r.new : r \in {s \in ToSet(reps) : ~IsLocal(s) /\ s.new # s.old}}

(* The targets of the replaces of paths nothing requires, each once. *)
orphanReplacementTargets ==
    LET reached(r) == r.old \in declared \/ r.old \in chainedAway
        out[i \in 0..Len(reps)] ==
            IF i = 0 THEN <<>>
            ELSE IF reached(reps[i]) \/ IsLocal(reps[i]) \/ Target(reps[i]) \in ToSet(out[i - 1])
            THEN out[i - 1]
            ELSE Append(out[i - 1], Target(reps[i]))
    IN  out[Len(reps)]

-----------------------------------------------------------------------------
(* The texts a call can ask the proxy to resolve for a path. *)
Specifics(path) == {r.oldVersion : r \in {s \in ToSet(reps) : s.old = path}} \ {NoText}
Excluded(path) == {e.version : e \in {x \in ToSet(file.excludes) : x.path = path}}

Blame(call, failed) == trouble' = IF failed = {} THEN trouble ELSE trouble \cup {call}

(* One turn of the loop over reqs. *)
Select ==
    /\ phase = "select" /\ next <= Len(file.reqs)
    /\ LET req == file.reqs[next]
       IN  \E failed \in SUBSET (Specifics(req.path) \cup {req.version}) :
             LET rep == selectReplace(reps, req, failed)
             IN  /\ chosen' = Append(chosen, rep)
                 /\ Blame("select", failed)
                 /\ \/ /\ IsLocal(rep)
                       /\ UNCHANGED <<resolved, replacedFrom>>
                    \/ /\ ~IsLocal(rep)
                       /\ resolved' = Append(resolved, Fetched(req, rep))
                       /\ replacedFrom' =
                            Append(replacedFrom, IF rep = None THEN NoText ELSE req.path)
    /\ next' = next + 1
    /\ UNCHANGED <<file, phase, findings>>

\* mutant: replacedFrom is not padded for the orphans
OrphansUnpadded ==
    /\ phase = "select" /\ next > Len(file.reqs)
    /\ resolved' = resolved \o orphanReplacementTargets
    /\ phase' = IF file.inWorkspace THEN "replaces" ELSE "excluded"
    /\ next' = 1
    /\ UNCHANGED <<file, chosen, replacedFrom, findings, trouble>>

Orphans ==
    /\ phase = "select" /\ next > Len(file.reqs)
    /\ LET targets == orphanReplacementTargets
       IN  /\ resolved' = resolved \o targets
           /\ replacedFrom' = replacedFrom \o [k \in DOMAIN targets |-> NoText]
    /\ phase' = IF file.inWorkspace THEN "replaces" ELSE "excluded"
    /\ next' = 1
    /\ UNCHANGED <<file, chosen, findings, trouble>>

Finding(reason, modules) == {[reason |-> reason, module |-> p] : p \in modules}

(* One turn of checkExcludedRequirements, not reached in a workspace. *)
ExcludedRequirement ==
    /\ phase = "excluded" /\ next <= Len(file.reqs)
    /\ LET req == file.reqs[next]
       IN  \E failed \in SUBSET (IF req \in ToSet(file.excludes) THEN {}
                                 ELSE Excluded(req.path) \cup
                                      {v \in {req.version} : Excluded(req.path) # {}}) :
             /\ Blame("excluded", failed)
             /\ \/ /\ \/ req \in ToSet(file.excludes)
                      \/ \E v \in Excluded(req.path) \ {req.version} :
                             SameTag(req.path, req.version, v, failed)
                   /\ findings' = findings \cup Finding("excluded-requirement", {req.path})
                \/ /\ req \notin ToSet(file.excludes)
                   /\ \A v \in Excluded(req.path) \ {req.version} :
                          ~SameTag(req.path, req.version, v, failed)
                   /\ UNCHANGED findings
    /\ next' = next + 1
    /\ UNCHANGED <<file, phase, chosen, resolved, replacedFrom>>

(* checkDuplicateRequires, not reached in a workspace either. *)
DuplicateRequires ==
    /\ phase = "excluded" /\ next > Len(file.reqs)
    /\ LET twice == {p \in declared : \E r, s \in ToSet(file.reqs) :
                        r.path = p /\ s.path = p /\ r.version # s.version}
       IN  findings' = findings \cup Finding("duplicate-require", twice)
    /\ phase' = "replaces"
    /\ UNCHANGED <<file, next, chosen, resolved, replacedFrom, trouble>>

(* resolveOf: a text the proxy does not resolve stands for itself. *)
Scope(r, failed) ==
    LET tag == IF General(r) \/ <<r.old, r.oldVersion>> \in failed THEN NoText
               ELSE Tag[r.old][r.oldVersion]
    IN  IF tag = NoText THEN r.oldVersion ELSE tag

\* mutant: versions compared as they are spelled
conflictingAsSpelled(failed) ==
    {r.old : r \in {s \in ToSet(file.gomod) : \E t \in ToSet(file.gomod) :
        t.old = s.old /\ t.oldVersion = s.oldVersion /\ Target(t) # Target(s)}}

\* mutant: general entries left out
conflictingSpecific(failed) ==
    {r.old : r \in {s \in ToSet(file.gomod) : ~General(s) /\ \E t \in ToSet(file.gomod) :
        t.old = s.old /\ Scope(t, failed) = Scope(s, failed) /\ Target(t) # Target(s)}}

conflicting(failed) ==
    {r.old : r \in {s \in ToSet(file.gomod) : \E t \in ToSet(file.gomod) :
        t.old = s.old /\ Scope(t, failed) = Scope(s, failed) /\ Target(t) # Target(s)}}

ambiguous ==
    {r.path : r \in {s \in ToSet(file.reqs) \cup ToSet(file.excludes) : s.version \in Ambiguous}}

unversioned ==
    {r.old : r \in {s \in ToSet(file.gomod) : ~IsLocal(s) /\ s.newVersion = NoText}}

(* checkAmbiguousComparisonQueries, checkReplaceMissingVersion and           *)
(* checkConflictingReplaces: the last two read the go.mod's own replaces.    *)
ReplaceDirectives ==
    /\ phase = "replaces"
    /\ \E failed \in SUBSET {<<r.old, r.oldVersion>> : r \in {s \in ToSet(file.gomod) : ~General(s)}} :
         /\ findings' = findings \cup Finding("ambiguous-version-query", ambiguous)
                                 \cup Finding("replace-missing-version", unversioned)
                                 \cup Finding("conflicting-replace", conflicting(failed))
         /\ Blame("replaces", failed)
    /\ phase' = "done"
    /\ UNCHANGED <<file, next, chosen, resolved, replacedFrom>>

Finished == phase = "done" /\ UNCHANGED vars

Next ==
    \/ Select \/ Orphans
    \/ ExcludedRequirement \/ DuplicateRequires \/ ReplaceDirectives
    \/ Finished

Spec == Init /\ [][Next]_vars

-----------------------------------------------------------------------------
(* Properties. *)

Reasons == {"excluded-requirement", "duplicate-require", "ambiguous-version-query",
            "replace-missing-version", "conflicting-replace"}

(* The replacements the go command applies to a requirement, from the        *)
(* directives and the tags alone: go.work's over go.mod's outright, specific *)
(* against specific and general against anything, and within a file one for  *)
(* the required version, however spelled, over a general one.  A specific    *)
(* one of go.work shadows go.mod's for that version only.  More than one is  *)
(* left only where one file contradicts itself.                              *)
Spelled(rs, req) == {r \in rs : r.old = req.path /\ r.oldVersion = req.version}
Meant(rs, req) == {r \in rs : r.old = req.path /\ ~General(r)
                                /\ SameTag(req.path, r.oldVersion, req.version, {})}
Specific(rs, req) == Spelled(rs, req) \cup Meant(rs, req)
ForAll(rs, req) == {r \in rs : r.old = req.path /\ General(r)}

FirstNonempty(sets) ==
    LET some == {i \in DOMAIN sets : sets[i] # {}}
    IN  IF some = {} THEN {} ELSE sets[Min(some)]

InForce(req) ==
    LET work == ToSet(file.gowork)
        mod == ToSet(file.gomod)
    IN  FirstNonempty(<<Specific(work, req), ForAll(work, req),
                        Specific(mod, req), ForAll(mod, req)>>)

(* Where the code does not keep go.work's precedence: selectReplace takes    *)
(* any literal match before it compares tags, so a go.mod replace spelled    *)
(* as the requirement beats the go.work replace of that same version spelled *)
(* otherwise.                                                                *)
SpeltApart(req) ==
    /\ Spelled(ToSet(file.gowork), req) = {} /\ Meant(ToSet(file.gowork), req) # {}
    /\ Spelled(ToSet(reps), req) # {}

(* Every requirement is audited under the replacement the build applies to   *)
(* it; a proxy that does not answer can only make the code miss one written  *)
(* with an abbreviated version, and fall back to a general one or none.  The *)
(* one exception is SpeltApart, in which go.mod's literal match is audited.  *)
ReplacementInForce ==
    \A i \in DOMAIN chosen :
        LET req == file.reqs[i]
            fallBack == IF ForAll(ToSet(reps), req) = {} THEN {None} ELSE ForAll(ToSet(reps), req)
            mayMiss == Spelled(ToSet(reps), req) = {} /\ Meant(ToSet(reps), req) # {}
        IN  \/ chosen[i] \in InForce(req)
            \/ chosen[i] = None /\ InForce(req) = {}
            \/ SpeltApart(req) /\ chosen[i] \in Spelled(ToSet(file.gomod), req)
            \/ /\ mayMiss /\ "select" \in trouble
               /\ chosen[i] \in fallBack \cup Meant(ToSet(reps), req)

(* The modules a build of this go.mod may fetch over the network, as far as  *)
(* the directives tell.                                                      *)
Ignored(r) == \* a replace go.work overrides, or one nothing can reach
    \/ /\ r \in ToSet(file.gomod) \ ToSet(file.gowork)
       /\ \E w \in ToSet(file.gowork) : w.old = r.old /\ General(w)
    \/ \E s \in ToSet(reps) : s.new = r.old /\ s.old # r.old

MayFetch ==
    {Fetched(file.reqs[i], chosen[i]) : i \in {j \in DOMAIN chosen :
                                             ~IsLocal(chosen[j])}}
    \cup {Target(r) : r \in {s \in ToSet(file.gomod) \cup ToSet(file.gowork) :
                               s.old \notin declared /\ ~IsLocal(s) /\ ~Ignored(s)}}

(* The audit covers what the build fetches and nothing else: no requirement  *)
(* or orphan replace is dropped, no local, chained or overridden target is   *)
(* sent to the proxy.                                                        *)
AuditsWhatTheBuildFetches == phase # "select" => ToSet(resolved) = MayFetch

(* resolved and replacedFrom stay parallel: suppressForkOfDeclaredPopular    *)
(* excuses a name collision for slot s because of replacedFrom[s], so a slot *)
(* off by one would excuse a module nobody declared.                         *)
SlotsStayParallel ==
    /\ Len(replacedFrom) = Len(resolved)
    /\ \A s \in DOMAIN resolved :
          replacedFrom[s] # NoText =>
              \E i \in DOMAIN chosen :
                  /\ chosen[i] # None
                  /\ file.reqs[i].path = replacedFrom[s]
                  /\ Fetched(file.reqs[i], chosen[i]) = resolved[s]
    /\ Cardinality({s \in DOMAIN replacedFrom : replacedFrom[s] # NoText})
         = Cardinality({i \in DOMAIN chosen : chosen[i] # None /\ ~IsLocal(chosen[i])})

(* What the go command refuses, by reason and path.                          *)
Refuses(reason, p) ==
    LET mod == {r \in ToSet(file.gomod) : r.old = p}
        Means(v, w) == v = w \/ (v # NoText /\ w # NoText /\ SameTag(p, v, w, {}))
    IN  CASE reason = "excluded-requirement" ->
                 /\ ~file.inWorkspace
                 /\ \E r \in ToSet(file.reqs), e \in ToSet(file.excludes) :
                        r.path = p /\ e.path = p /\ Means(r.version, e.version)
          [] reason = "duplicate-require" ->
                 /\ ~file.inWorkspace
                 /\ Cardinality({r \in ToSet(file.reqs) : r.path = p}) > 1
          [] reason = "ambiguous-version-query" ->
                 \E r \in ToSet(file.reqs \o file.excludes) : r.path = p /\ r.version \in Ambiguous
          [] reason = "replace-missing-version" ->
                 \E r \in mod : r.newVersion = NoText /\ r.new \in Path
          [] reason = "conflicting-replace" ->
                 \E r, s \in mod : Means(r.oldVersion, s.oldVersion) /\ Target(r) # Target(s)

(* "A self-contradictory go.mod, not a heuristic": whichever requests fail,  *)
(* the go command really refuses the files these findings are about.         *)
ContradictionsAreReal == \A f \in findings : Refuses(f.reason, f.module)

(* And with a proxy that answers, or for the contradictions that need no     *)
(* proxy at all, every one of them is reported.                              *)
ContradictionsAreReported ==
    phase = "done" =>
        \A reason \in Reasons : \A p \in Path :
            Refuses(reason, p) =>
                \/ [reason |-> reason, module |-> p] \in findings
                \/ reason = "excluded-requirement" /\ "excluded" \in trouble
                \/ reason = "conflicting-replace" /\ "replaces" \in trouble

(* A requirement for which two replacements are in force, so that the audit  *)
(* can look at one of them only, never passes as clean: the conflict itself  *)
(* is reported, unless it is go.work's own or the proxy did not answer.      *)
NoSilentChoice ==
    phase = "done" =>
        \A i \in DOMAIN file.reqs :
            LET req == file.reqs[i]
                targets == {Target(r) : r \in InForce(req)}
            IN  Cardinality(targets) > 1 =>
                    \/ [reason |-> "conflicting-replace", module |-> req.path] \in findings
                    \/ "replaces" \in trouble
                    \/ InForce(req) \subseteq ToSet(file.gowork)

=============================================================================
