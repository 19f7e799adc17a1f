--------------------------- MODULE LookupRequests ---------------------------
(* One call of Lookup (src/proxy.go), request by request: @latest, @v/list,  *)
(* the probe of a legacy tag, the governing .mod, a tag's .info.  Any of     *)
(* them may fail, and between any two of them the proxy may move: a tag is   *)
(* published, @latest is refreshed or drawn back by a retraction, a module   *)
(* appears or is blocked.                                                    *)
EXTENDS ProxyFacts

CONSTANTS
    Start,          \* the modules as the call finds them: SUBSET Facts
    Tags,           \* the tags that may be published: SUBSET Version
    MaxMoves        \* bound: how often the proxy moves during the call

ASSUME LookupAssumption == Start \subseteq Facts /\ Tags \subseteq Version /\ MaxMoves \in Nat

VARIABLES
    proxy,          \* the module as the proxy has it now
    moments,        \* as it has had it since the call began
    moves,          \* how often it has moved
    at,             \* the last request of the call that was answered
    taken,          \* what @latest and @v/list were asked of
    failed,         \* the requests that failed
    lines,          \* the tags Lookup works with
    basis,          \* the version the governing go.mod is looked for from
    result          \* the ModuleStatus

proxyVars == <<proxy, moments, moves>>
callVars == <<at, taken, failed, lines, basis, result>>
vars == <<proxyVars, callVars>>

Init ==
    /\ proxy \in Start /\ moments = {proxy} /\ moves = 0
    /\ at = "call" /\ taken = proxy /\ failed = {} /\ lines = {}
    /\ basis = NoVersion
    /\ result = Absent

-----------------------------------------------------------------------------
(* The proxy. *)

Publish ==
    /\ proxy.served = "ok"
    /\ \E v \in Tags \ proxy.tags : proxy' = [proxy EXCEPT !.tags = @ \cup {v}]

(* @latest names a release if there is one, not always the highest: it may   *)
(* lag behind the list, and it passes over retracted ones.                   *)
Refresh ==
    /\ proxy.served = "ok"
    /\ \E v \in Preferred(proxy.tags) \ {proxy.latest} : proxy' = [proxy EXCEPT !.latest = v]

AppearOrBlocked ==
    \/ proxy.served = "unresolved" /\ proxy' = [proxy EXCEPT !.served = "ok"]
    \/ proxy.served = "ok" /\ proxy' = [proxy EXCEPT !.served = "malware"]

Move ==
    /\ moves < MaxMoves /\ moves' = moves + 1
    /\ at # "returned"
    /\ Publish \/ Refresh \/ AppearOrBlocked
    /\ moments' = moments \cup {proxy'}
    /\ UNCHANGED callVars

-----------------------------------------------------------------------------
(* The call. *)

(* A request fails, or is answered, or need not be made.  Nothing is served  *)
(* of a module that has been blocked since.                                  *)
Fails(request) == failed' = failed \cup {request}
Answers == proxy.served = "ok" /\ UNCHANGED failed
NoRequest == UNCHANGED failed

(* A private path is never asked for. *)
Private ==
    /\ at = "call" /\ proxy.served = "private"
    /\ result' = [Absent EXCEPT !.private = TRUE]
    /\ at' = "returned"
    /\ UNCHANGED <<proxyVars, taken, failed, lines, basis>>

AskLatest ==
    /\ at = "call" /\ proxy.served # "private"
    /\ taken' = proxy
    /\ Fails("latest") \/ UNCHANGED failed
    /\ at' = "latest"
    /\ UNCHANGED <<proxyVars, lines, basis, result>>

(* The early returns: unknown, blocklisted, 404 or 410. *)
NoModule ==
    /\ at = "latest" /\ ("latest" \in failed \/ taken.served # "ok")
    /\ result' = [Absent EXCEPT !.unknown = "latest" \in failed,
                                !.blocklisted = "latest" \notin failed /\ taken.served = "malware"]
    /\ at' = "returned"
    /\ UNCHANGED <<proxyVars, taken, failed, lines, basis>>

\* mutant: the tags are counted on a second, unguarded request
AskListTwice ==
    /\ at = "latest" /\ "latest" \notin failed /\ taken.served = "ok"
    /\ taken' = [taken EXCEPT !.tags = proxy.tags]
    /\ \/ Fails("list") /\ lines' = {}
       \/ Answers /\ lines' = proxy.tags
    /\ \E t \in {proxy.tags, lines'} :
         result' = [Absent EXCEPT !.exists = TRUE, !.latest = taken.latest, !.count = Cardinality(t)]
    /\ at' = "list"
    /\ UNCHANGED <<proxyVars, basis>>

AskList ==
    /\ at = "latest" /\ "latest" \notin failed /\ taken.served = "ok"
    /\ taken' = [taken EXCEPT !.tags = proxy.tags]
    /\ \/ Fails("list") /\ lines' = {}
       \/ Answers /\ lines' = proxy.tags
    /\ result' = [Absent EXCEPT !.exists = TRUE, !.latest = taken.latest,
                                !.count = Cardinality(lines')]
    /\ at' = "list"
    /\ UNCHANGED <<proxyVars, basis>>

(* @latest of a +incompatible module is not believed: the list decides, with *)
(* a probe of one legacy tag if there is one to probe.                       *)
Rebase ==
    /\ at = "list"
    /\ IF taken.latest \in Incompatible /\ lines # {}
       THEN \E probeFailed \in {b \in BOOLEAN : b => LegacyProbe(lines) # {}} :
              /\ basis' = resolveIncompatibleLatest(lines, probeFailed)
              /\ IF probeFailed THEN Fails("legacy")
                 ELSE IF LegacyProbe(lines) = {} THEN NoRequest ELSE Answers
       ELSE basis' = taken.latest /\ NoRequest
    /\ at' = "legacy"
    /\ UNCHANGED <<proxyVars, taken, lines, result>>

AskMod ==
    /\ at = "legacy"
    /\ \/ Fails("mod") /\ UNCHANGED result
       \/ Answers /\ result' = [result EXCEPT !.body = governingModVersion(basis, lines)]
    /\ at' = "mod"
    /\ UNCHANGED <<proxyVars, taken, lines, basis>>

\* mutant: the time of @latest taken for the only tag's
AskInfoUnlessOne ==
    /\ at = "mod"
    /\ \/ /\ Cardinality(lines) <= 1
          /\ result' = [result EXCEPT !.earliest = IF lines = {} THEN NoVersion ELSE result.latest]
          /\ NoRequest
       \/ /\ Cardinality(lines) > 1
          /\ \/ Fails("info") /\ UNCHANGED result
             \/ Answers /\ result' = [result EXCEPT !.earliest = Lowest(lines)]
    /\ at' = "returned"
    /\ UNCHANGED <<proxyVars, taken, lines, basis>>

(* The only tag's time, if @latest is not that tag; the lowest tag's, if     *)
(* there are several.                                                        *)
AskInfo ==
    /\ at = "mod"
    /\ \/ /\ lines \in {{}, {taken.latest}}
          /\ result' = [result EXCEPT !.earliest = IF lines = {} THEN NoVersion ELSE taken.latest]
          /\ NoRequest
       \/ /\ Cardinality(lines) = 1 /\ lines # {taken.latest}
          /\ \/ Fails("info") /\ result' = [result EXCEPT !.earliest = taken.latest]
             \/ Answers /\ result' = [result EXCEPT !.latest = Highest(lines),
                                                     !.earliest = Highest(lines)]
       \/ /\ Cardinality(lines) > 1
          /\ \/ Fails("info") /\ UNCHANGED result
             \/ Answers /\ result' = [result EXCEPT !.earliest = Lowest(lines)]
    /\ at' = "returned"
    /\ UNCHANGED <<proxyVars, taken, lines, basis>>

Call == Private \/ AskLatest \/ NoModule \/ AskList \/ Rebase \/ AskMod \/ AskInfo

Done == at = "returned" /\ UNCHANGED vars

Next == Move \/ Call \/ Done

Spec == Init /\ [][Next]_vars

-----------------------------------------------------------------------------
(* Properties. *)

(* The refinement mapping: how much has been read, and nothing of the answer *)
(* before it is returned.                                                    *)
Phase ==
    CASE at = "call" -> "call"
      [] at = "latest" -> "latest read"
      [] at \in {"list", "legacy", "mod"} -> "both read"
      [] at = "returned" -> "returned"
Answer == IF at = "returned" THEN result ELSE Absent

TwoReadsOfIt == INSTANCE TwoReads WITH phase <- Phase, answer <- Answer

(* Five requests over a moving proxy amount to two reads of it: nothing the  *)
(* later requests are asked for depends on when they are asked.              *)
ImplementsTwoReads == TwoReadsOfIt!Spec

(* The new-and-thin and version-flooded cases judge the module as it really  *)
(* was at one moment of the call, whatever was published before or after.    *)
FreshnessOfOneMoment ==
    at = "returned" /\ result.exists /\ failed = {} =>
        \E f \in {g \in moments : g.served = "ok"} :
            /\ Thin(result) <=> Thin(Found(f, {}))
            /\ Flooded(result) <=> Flooded(Found(f, {}))
=============================================================================
