------------------------------ MODULE ToolWalk ------------------------------
(* CheckTools and resolveToolPath (src/check.go): which module owns the      *)
(* package a `tool` directive names?  A require, the main module or a        *)
(* replace may answer without the proxy; otherwise the prefixes of the       *)
(* package path are looked up, longest first, one Lookup a step.  Prefixes   *)
(* are numbered by their length in segments.                                 *)
EXTENDS ProxyFacts, Sequences

CONSTANTS
    ToolCap,        \* toolPrefixWalkCap, 8 in the code
    Packages,       \* the package paths tool directives name
    Directives      \* lists of them, as go.mod has them

(* A package path: how many segments it has, what the proxy has under each   *)
(* of its prefixes, which of them require lines and the module line name,    *)
(* and the ones replace directives name, in file order.                      *)
ASSUME ToolAssumption ==
    /\ ToolCap \in Nat \ {0}
    /\ \A p \in Packages :
          /\ p.length \in Nat \ {0}
          /\ p.facts \in [1..p.length -> Facts]
          /\ p.required \subseteq 1..p.length
          /\ p.main \subseteq 1..p.length
          /\ p.replaced \in Seq(1..p.length)
    /\ Directives \subseteq Seq(Packages)

VARIABLES
    tools,          \* the directives
    tool,           \* which of them is being looked at
    place,          \* where CheckTools is with it
    tried,          \* i, the prefixes looked up for it
    seen,           \* the packages already dealt with
    reported,       \* the findings: reason, package, and prefix they name
    asked,          \* per directive, the prefixes looked up
    unanswered      \* and those whose Lookup failed

toolVars == <<tools, tool, place, tried, seen, reported, asked, unanswered>>

ToolInit ==
    /\ tools \in Directives
    /\ tool = 1
    /\ place = "next"
    /\ tried = 0
    /\ seen = {}
    /\ reported = {}
    /\ asked = [t \in DOMAIN tools |-> {}]
    /\ unanswered = asked

-----------------------------------------------------------------------------
package == tools[tool]
prefix == package.length - tried

Covered(p) == p.required \cup p.main # {}

\* mutant: the walk goes past what the blocklist names
OwnedUnlessBlocklisted(status) == status.exists \/ status.private

\* mutant: the walk goes past private prefixes
OwnedUnlessPrivate(status) == status.exists \/ status.blocklisted

Owned(status) == status.exists \/ status.private \/ status.blocklisted

Reported(reason, p, k) == [reason |-> reason, package |-> p, prefix |-> k]

(* evaluateModuleStatus(prefix, "", status): its switch.  The rest of it,    *)
(* freshness to name collisions, is ModuleAudit.                             *)
Evaluated(status, p, k) ==
    CASE status.blocklisted -> {Reported("proxy-blocklisted-malicious", p, k)}
      [] status = Absent -> {Reported("not-found", p, k)}
      [] OTHER -> {}

MayAsk == tried < ToolCap /\ prefix >= 1

\* mutant: the package is not remembered
GoOnForgetting == tool' = tool + 1 /\ place' = "next" /\ tried' = 0 /\ UNCHANGED seen

GoOn == tool' = tool + 1 /\ place' = "next" /\ tried' = 0 /\ seen' = seen \cup {package}

(* A directive that repeats an earlier one, or that a require line or the    *)
(* module line covers.                                                       *)
Skip ==
    /\ place = "next" /\ tool <= Len(tools)
    /\ package \in seen \/ Covered(package)
    /\ GoOn
    /\ UNCHANGED <<tools, reported, asked, unanswered>>

(* Covered by a replace only: the go command refuses the directive. *)
ReplacedNotRequired ==
    /\ place = "next" /\ tool <= Len(tools)
    /\ package \notin seen /\ ~Covered(package) /\ package.replaced # <<>>
    /\ reported' = reported \cup
         {Reported("tool-replaced-not-required", package, package.replaced[1])}
    /\ GoOn
    /\ UNCHANGED <<tools, asked, unanswered>>

StartWalk ==
    /\ place = "next" /\ tool <= Len(tools)
    /\ package \notin seen /\ ~Covered(package) /\ package.replaced = <<>>
    /\ place' = "walk"
    /\ UNCHANGED <<tools, tool, tried, seen, reported, asked, unanswered>>

(* One turn of resolveToolPath's loop; a prefix that exists, is private or   *)
(* is blocklisted ends it.                                                   *)
AskPrefix ==
    /\ place = "walk" /\ MayAsk
    /\ asked' = [asked EXCEPT ![tool] = @ \cup {prefix}]
    /\ \E failed \in Failures(package.facts[prefix]) :
         LET status == Lookup(package.facts[prefix], failed)
         IN  /\ \/ /\ Owned(status)
                   /\ reported' = reported \cup Evaluated(status, package, prefix)
                   /\ GoOn
                \/ /\ ~Owned(status)
                   /\ tried' = tried + 1
                   /\ UNCHANGED <<tool, place, seen, reported>>
             /\ unanswered' = IF status.unknown
                              THEN [unanswered EXCEPT ![tool] = @ \cup {prefix}]
                              ELSE unanswered
    /\ UNCHANGED tools

(* No prefix resolved: the directive's own path is judged absent. *)
Unowned ==
    /\ place = "walk" /\ ~MayAsk
    /\ reported' = reported \cup Evaluated(Absent, package, package.length)
    /\ GoOn
    /\ UNCHANGED <<tools, asked, unanswered>>

ToolsChecked == tool > Len(tools) /\ UNCHANGED toolVars

ToolStep == Skip \/ ReplacedNotRequired \/ StartWalk \/ AskPrefix \/ Unowned

ToolNext == ToolStep \/ ToolsChecked

ToolSpec == ToolInit /\ [][ToolNext]_toolVars

-----------------------------------------------------------------------------
(* Properties. *)

(* What is on the proxy under a package's prefixes, without the walk: its    *)
(* owner is the longest prefix there is anything at.                         *)
Serves(p) == {k \in 1..p.length : p.facts[k].served # "unresolved"}
Owner(p) == CHOOSE k \in Serves(p) : \A j \in Serves(p) : j <= k
WithinCap(p) == Serves(p) # {} /\ p.length - Owner(p) < ToolCap

(* What should be said of a package, from the go.mod and the proxy alone.    *)
Verdict(p) ==
    CASE Covered(p) -> {}
      [] ~Covered(p) /\ p.replaced # <<>> ->
             {Reported("tool-replaced-not-required", p, p.replaced[1])}
      [] ~Covered(p) /\ p.replaced = <<>> /\ ~WithinCap(p) -> {Reported("not-found", p, p.length)}
      [] OTHER -> IF p.facts[Owner(p)].served = "malware"
                  THEN {Reported("proxy-blocklisted-malicious", p, Owner(p))} ELSE {}

Silent(p) == \A t \in DOMAIN tools : tools[t] = p => unanswered[t] = {}

(* A package none of whose Lookups failed gets exactly its verdict, once,    *)
(* however often and in whatever order the directives name it and whatever   *)
(* was found for the others: a blocklisted owner is never walked past, a     *)
(* covered package never sent to the proxy.                                  *)
EachToolJudgedExactly ==
    \A p \in {tools[t] : t \in 1..(tool - 1)} :
        Silent(p) => {f \in reported : f.package = p} = Verdict(p)

(* A finding about the wrong module, or a blocklisted module missed, is the  *)
(* doing of a failed Lookup of the owner itself: failures elsewhere on the   *)
(* walk change nothing.                                                      *)
WrongOwnerHasACause ==
    \A t \in 1..(tool - 1) :
        {f \in reported : f.package = tools[t]} # Verdict(tools[t]) =>
            \E u \in 1..(tool - 1) :
                tools[u] = tools[t] /\ WithinCap(tools[t]) /\ Owner(tools[t]) \in unanswered[u]

(* toolPrefixWalkCap's promise: however deep the package path and whatever   *)
(* the proxy answers, no more than ToolCap Lookups are made for a directive, *)
(* none for one the go.mod itself decides, and none for a repetition.        *)
WalkStaysShort ==
    \A t \in DOMAIN tools :
        /\ Cardinality(asked[t]) <= ToolCap
        /\ asked[t] # {} =>
              /\ ~Covered(tools[t]) /\ tools[t].replaced = <<>>
              /\ \A u \in 1..(t - 1) : tools[u] # tools[t]

-----------------------------------------------------------------------------
(* src/proxy.go, ModuleStatus: "Unknown bool // network/proxy error; caller  *)
(* should not treat as a finding".  Here: a package with an owner the walk   *)
(* would reach is never called not-found.                                    *)
NoFalseNotFound ==
    \A f \in reported : f.reason = "not-found" => f \in Verdict(f.package)
=============================================================================
