------------------------------ MODULE AuditRun ------------------------------
(* run (src/main.go): one invocation.  It reads go.mod twice and go.work     *)
(* twice, asks the go command about the environment three times, and joins   *)
(* what it finds into one report and one exit code, while other programs     *)
(* (go mod tidy, an editor, a checkout) may rewrite or remove either file    *)
(* between any two of those steps.  CheckAll is one step here: its own steps *)
(* are CheckPool, Replaces, ToolWalk and ModuleAudit.                        *)
EXTENDS Integers, FiniteSets

CONSTANTS
    GoMods,         \* the contents a go.mod can have
    GoWorks,        \* the contents a go.work can have
    Unreadable,     \* a file that is missing, a directory, or may not be read
    MaxEdits        \* bound: how often the files change during one run

(* A go.mod, by what the checks see in it: whether it parses, requires a     *)
(* module the audit flags, or one only GONOPROXY keeps it from flagging,      *)
(* contradicts itself (duplicate or excluded require), uses a verb that its  *)
(* go directive and the toolchain are both too old for, or one go.mod does   *)
(* not have; and whether its go directive is one the toolchain satisfies.    *)
Directive == {"none", "met", "future"}
GoMod == [parses : BOOLEAN, suspect : BOOLEAN, private : BOOLEAN, contradicts : BOOLEAN,
          go : Directive, newVerb : BOOLEAN, badVerb : BOOLEAN]

(* A go.work: whether it replaces the suspect requirement by a directory,    *)
(* has a line longer than the scanner takes, carries what goWorkReplaces     *)
(* does not trust (unknown verb, bad quoting), or what the go command refuses *)
(* as well (`go (`, a bad use, a replace without a version), or a verb too    *)
(* new; and its go directive.                                                *)
GoWork == [replaces : BOOLEAN, overlong : BOOLEAN, distrusted : BOOLEAN, blockForm : BOOLEAN,
           newVerb : BOOLEAN, go : Directive]

ASSUME RunAssumption ==
    /\ GoMods \subseteq GoMod \cup {Unreadable}
    /\ GoWorks \subseteq GoWork \cup {Unreadable}
    /\ Unreadable \notin GoMod \cup GoWork
    /\ MaxEdits \in Nat

VARIABLES
    gomod,          \* go.mod on disk
    gowork,         \* the file GOWORK names, on disk
    setting,        \* GOWORK: "unset", "off", "relative" or "path"
    toolchain,      \* the go command: "local" (as installed), "auto" (downloads), "absent"
    pc,             \* where run is
    loaded,         \* what LoadGoMod read
    goWorkPath,     \* what goWorkPath returned: "none", "failed" or "path"
    overlay,        \* go.work's replaces are in reps
    patterns,       \* GONOPROXY: "known", or "" when `go env` failed
    goVersion,      \* localGoVersion: "known", or "" when `go env` failed
    all,            \* the findings, by reason
    exit,           \* the exit code, or Running
    seenMods,       \* history: every content either file has had during the run
    seenWorks,
    edits

Running == -1

disk == <<gomod, gowork, seenMods, seenWorks, edits>>
vars == <<disk, setting, toolchain, pc, loaded, goWorkPath, overlay, patterns, goVersion, all, exit>>

Init ==
    /\ gomod \in GoMods /\ gowork \in GoWorks
    /\ setting \in {"unset", "off", "relative", "path"}
    /\ toolchain \in {"local", "auto", "absent"}
    /\ pc = "load"
    /\ loaded = Unreadable
    /\ goWorkPath = "none" /\ overlay = FALSE /\ patterns = "" /\ goVersion = ""
    /\ all = {}
    /\ exit = Running
    /\ seenMods = {gomod} /\ seenWorks = {gowork}
    /\ edits = 0

-----------------------------------------------------------------------------
\* mutant: a go.work that could not be resolved counts as one
inWorkspaceIfAny == goWorkPath # "none"

inWorkspace == goWorkPath = "path"

(* `go env` in the directory of a go.mod m: it fails without a go command,   *)
(* and, where toolchains are downloaded, if m or the go.work asks for one    *)
(* there is not.                                                             *)
Future(content) == content # Unreadable /\ content.go = "future"
GoEnvFails(m, w) ==
    \/ toolchain = "absent"
    \/ toolchain = "auto" /\ (Future(m) \/ (setting = "path" /\ Future(w)))

Report(reasons) == all' = all \cup reasons
Because(reason, holds) == IF holds THEN {reason} ELSE {}

(* checkGoVersionUnsatisfiable's rule, for either file: an unknown version   *)
(* satisfies no go directive.                                                *)
Unsatisfied(content) == content.go # "none" /\ (goVersion = "" \/ content.go = "future")

-----------------------------------------------------------------------------
LoadGoMod ==
    /\ pc = "load"
    /\ IF gomod = Unreadable THEN exit' = 2 /\ pc' = "exited" /\ UNCHANGED loaded
       ELSE IF ~gomod.parses THEN exit' = 2 /\ pc' = "exited" /\ UNCHANGED loaded
       ELSE loaded' = gomod /\ pc' = "gowork" /\ UNCHANGED exit
    /\ UNCHANGED <<disk, setting, toolchain, goWorkPath, overlay, patterns, goVersion, all>>

\* mutant: GOWORK=off taken for a path
ResolveGoWorkOff ==
    /\ pc = "gowork"
    /\ goWorkPath' = CASE GoEnvFails(gomod, gowork) \/ setting = "relative" -> "failed"
                       [] ~GoEnvFails(gomod, gowork) /\ setting = "unset" -> "none"
                       [] ~GoEnvFails(gomod, gowork) /\ setting \in {"off", "path"} -> "path"
    /\ pc' = "overlay"
    /\ UNCHANGED <<disk, setting, toolchain, loaded, overlay, patterns, goVersion, all, exit>>

(* gowork, goworkResolveErr := goWorkPath(modDir) *)
ResolveGoWork ==
    /\ pc = "gowork"
    /\ goWorkPath' = CASE GoEnvFails(gomod, gowork) \/ setting = "relative" -> "failed"
                       [] ~GoEnvFails(gomod, gowork) /\ setting \in {"unset", "off"} -> "none"
                       [] ~GoEnvFails(gomod, gowork) /\ setting = "path" -> "path"
    /\ pc' = "overlay"
    /\ UNCHANGED <<disk, setting, toolchain, loaded, overlay, patterns, goVersion, all, exit>>

(* mergeReplaces(reps, goWorkReplaces(gowork)) *)
ReadOverlay ==
    /\ pc = "overlay"
    /\ overlay' = /\ goWorkPath = "path"
                  /\ gowork # Unreadable
                  /\ IF gowork = Unreadable THEN FALSE
                     ELSE gowork.replaces /\ ~gowork.distrusted /\ ~gowork.overlong
    /\ pc' = "patterns"
    /\ UNCHANGED <<disk, setting, toolchain, loaded, goWorkPath, patterns, goVersion, all, exit>>

(* proxy.PrivatePatterns = goNoProxyPatterns(modDir) *)
AskPatterns ==
    /\ pc = "patterns"
    /\ patterns' = IF GoEnvFails(gomod, gowork) THEN "" ELSE "known"
    /\ pc' = "check"
    /\ UNCHANGED <<disk, setting, toolchain, loaded, goWorkPath, overlay, goVersion, all, exit>>

\* mutant: in a workspace the requirements are left to go.work
CheckAllOutsideWorkspaces ==
    /\ pc = "check"
    /\ Report(Because("suspect", loaded.suspect /\ ~inWorkspace)
              \cup Because("contradiction", loaded.contradicts /\ ~inWorkspace))
    /\ pc' = "version"
    /\ UNCHANGED <<disk, setting, toolchain, loaded, goWorkPath, overlay, patterns, goVersion, exit>>

CheckAll ==
    /\ pc = "check"
    /\ Report(Because("suspect", loaded.suspect /\ ~overlay)
              \cup Because("private-not-found", loaded.private /\ patterns = "")
              \cup Because("contradiction", loaded.contradicts /\ ~inWorkspace))
    /\ pc' = "version"
    /\ UNCHANGED <<disk, setting, toolchain, loaded, goWorkPath, overlay, patterns, goVersion, exit>>

(* localGoVersion := goEnv("GOVERSION", modDir) *)
AskGoVersion ==
    /\ pc = "version"
    /\ goVersion' = IF GoEnvFails(gomod, gowork) THEN "" ELSE "known"
    /\ pc' = "reread"
    /\ UNCHANGED <<disk, setting, toolchain, loaded, goWorkPath, overlay, patterns, all, exit>>

\* mutant: the raw bytes are checked only if they are those that were loaded
RereadGoModIfSame ==
    /\ pc = "reread"
    /\ \/ gomod # loaded /\ UNCHANGED all
       \/ /\ gomod = loaded
          /\ Report(Because("go-version-unsatisfiable", Unsatisfied(gomod))
                    \cup Because("directive-too-old", gomod.newVerb /\ goVersion # "")
                    \cup Because("unknown-directive", gomod.badVerb))
    /\ pc' = "workspace"
    /\ UNCHANGED <<disk, setting, toolchain, loaded, goWorkPath, overlay, patterns, goVersion, exit>>

(* The checks of go.mod's raw bytes, read anew; no bytes, no checks. *)
RereadGoMod ==
    /\ pc = "reread"
    /\ \/ gomod = Unreadable /\ UNCHANGED all
       \/ /\ gomod # Unreadable
          /\ Report(Because("go-version-unsatisfiable", Unsatisfied(gomod))
                    \cup Because("directive-too-old", gomod.newVerb /\ goVersion # "")
                    \cup Because("unknown-directive", gomod.badVerb))
    /\ pc' = "workspace"
    /\ UNCHANGED <<disk, setting, toolchain, loaded, goWorkPath, overlay, patterns, goVersion, exit>>

(* checkGoWorkUnresolvable, and the checks of go.work's raw bytes. *)
CheckGoWork ==
    /\ pc = "workspace"
    /\ \/ goWorkPath = "failed" /\ Report({"go-work-unresolvable"})
       \/ goWorkPath = "none" /\ UNCHANGED all
       \/ goWorkPath = "path" /\ gowork = Unreadable /\ Report({"go-work-unreadable"})
       \/ /\ goWorkPath = "path" /\ gowork # Unreadable
          /\ Report(Because("go-work-distrusted", gowork.distrusted /\ ~gowork.overlong)
                    \cup Because("go-work-block-form", gowork.blockForm /\ ~gowork.overlong)
                    \cup Because("go-work-directive-too-old", gowork.newVerb /\ goVersion # "")
                    \cup Because("go-work-version-unsatisfiable", Unsatisfied(gowork)))
    /\ pc' = "output"
    /\ UNCHANGED <<disk, setting, toolchain, loaded, goWorkPath, overlay, patterns, goVersion, exit>>

(* The findings are printed; JSON may fail to be written. *)
Output ==
    /\ pc = "output"
    /\ \/ exit' = IF all = {} THEN 0 ELSE 1
       \/ exit' = 2
    /\ pc' = "exited"
    /\ UNCHANGED <<disk, setting, toolchain, loaded, goWorkPath, overlay, patterns, goVersion, all>>

Step ==
    \/ LoadGoMod \/ ResolveGoWork \/ ReadOverlay \/ AskPatterns \/ CheckAll \/ AskGoVersion
    \/ RereadGoMod \/ CheckGoWork \/ Output

(* Another program rewrites, removes or restores a file. *)
Edit ==
    /\ pc # "exited" /\ edits < MaxEdits
    /\ \/ gomod' \in GoMods \ {gomod} /\ UNCHANGED gowork
       \/ gowork' \in GoWorks \ {gowork} /\ UNCHANGED gomod
    /\ seenMods' = seenMods \cup {gomod'} /\ seenWorks' = seenWorks \cup {gowork'}
    /\ edits' = edits + 1
    /\ UNCHANGED <<setting, toolchain, pc, loaded, goWorkPath, overlay, patterns, goVersion, all, exit>>

Exited == pc = "exited" /\ UNCHANGED vars

Next == Step \/ Edit \/ Exited

Spec == Init /\ [][Next]_vars

-----------------------------------------------------------------------------
(* Properties. *)

(* A go.work the go command refuses, so that none of its replaces applies.   *)
RefusedByGo(x) == x.distrusted \/ x.blockForm \/ x.newVerb \/ x.go = "future"

(* What is wrong with a go.mod m in a workspace whose go.work is w, from the *)
(* files and the environment alone: what the go command would say, and what  *)
(* the audit says of the module it fetches.  Only a go.work that can be read *)
(* makes a workspace, and only one the go command takes replaces anything.   *)
Wrong(reason, m, w) ==
    LET workspace == setting = "path" /\ w # Unreadable
        WorkHas(flaw(_)) == IF workspace THEN flaw(w) ELSE FALSE
        Moves(x) == x.replaces /\ ~RefusedByGo(x)
        Distrusted(x) == x.distrusted
        BlockForm(x) == x.blockForm
        TooOld(x) == x.newVerb
    IN  m # Unreadable /\
        CASE reason = "suspect" -> m.suspect /\ ~WorkHas(Moves)
          [] reason = "private-not-found" -> FALSE
          [] reason = "contradiction" -> m.contradicts /\ ~workspace
          [] reason = "go-version-unsatisfiable" -> m.go = "future"
          [] reason = "directive-too-old" -> m.newVerb
          [] reason = "unknown-directive" -> m.badVerb
          [] reason = "go-work-unresolvable" -> setting = "relative"
          [] reason = "go-work-unreadable" -> setting = "path" /\ w = Unreadable
          [] reason = "go-work-distrusted" -> WorkHas(Distrusted)
          [] reason = "go-work-block-form" -> WorkHas(BlockForm)
          [] reason = "go-work-directive-too-old" -> WorkHas(TooOld)
          [] reason = "go-work-version-unsatisfiable" -> WorkHas(Future)

Reasons == {"suspect", "private-not-found", "contradiction", "go-version-unsatisfiable", "directive-too-old",
            "unknown-directive", "go-work-unresolvable", "go-work-unreadable",
            "go-work-distrusted", "go-work-block-form", "go-work-directive-too-old",
            "go-work-version-unsatisfiable"}

(* What the code leaves unsaid although it is wrong, whatever is in go.mod:  *)
(* contradictions, if the go.work cannot be read, for inWorkspace looks at   *)
(* its path alone; and a suspect the go.work would replace were it not       *)
(* refused, for goWorkReplaces trusts it unless it is the unknown verbs or   *)
(* the quoting it is refused for.  The go.work itself is reported then.      *)
Unsaid(w) ==
    Because("contradiction", setting = "path" /\ w = Unreadable)
    \cup Because("suspect", /\ setting = "path" /\ w # Unreadable
                            /\ w.replaces /\ ~w.distrusted /\ RefusedByGo(w))

(* "Exit code is 1 if anything was flagged, 0 otherwise" (README.md), of the *)
(* files themselves: in a run nothing disturbs, the exit code says whether   *)
(* anything is wrong with them, and the report says exactly what, but for    *)
(* what is Unsaid beside the report of the go.work.  Where the go command    *)
(* does not answer, so that nothing could be built, the report is not exact, *)
(* but never empty either; and of a go.work with a line the scanner does not *)
(* take, which the go command does, it says too little.                      *)
ReadInFull(w) == setting # "path" \/ w = Unreadable \/ (w # Unreadable /\ ~w.overlong)

ExactWhenUndisturbed ==
    exit \in {0, 1} /\ edits = 0 /\ ReadInFull(gowork) =>
        IF GoEnvFails(gomod, gowork) THEN exit = 1
        ELSE /\ all = {r \in Reasons : Wrong(r, gomod, gowork)} \ Unsaid(gowork)
             /\ exit = 0 <=> \A r \in Reasons : ~Wrong(r, gomod, gowork)

(* However the files change under a run, it reports nothing that was not     *)
(* wrong with contents they had while it ran: no two reads combine into a    *)
(* finding that no go.mod and go.work of the run deserve.                    *)
NothingInvented ==
    (\A m \in seenMods, w \in seenWorks : ~GoEnvFails(m, w) /\ ReadInFull(w)) =>
        \A r \in all : \E m \in seenMods, w \in seenWorks : Wrong(r, m, w)

(* And its dual: what is wrong with every content the files had while it ran *)
(* is reported, though the run reads either file twice and one of the two    *)
(* may have been another each time.                                          *)
StandingFlawsReported ==
    exit \in {0, 1} /\ (\A m \in seenMods, w \in seenWorks : ~GoEnvFails(m, w) /\ ReadInFull(w)) =>
       \A r \in Reasons :
          (\A m \in seenMods, w \in seenWorks : Wrong(r, m, w) /\ r \notin Unsaid(w)) => r \in all

(* A run that calls a go.mod clean has at least read one that was: some      *)
(* content go.mod had has neither a suspect module nor a contradiction of    *)
(* its own, or a go.work of the run takes them away, be it one whose         *)
(* replaces the code applies and the go command does not.                    *)
CleanOnce ==
    exit = 0 => \E m \in seenMods, w \in seenWorks :
                    /\ m # Unreadable /\ ~Wrong("contradiction", m, w)
                    /\ Wrong("suspect", m, w) => "suspect" \in Unsaid(w)

-----------------------------------------------------------------------------
(* A statement of the repository that the code does not keep.                *)

(* src/check.go, checkGoVersionUnsatisfiable: "this specific "" is never     *)
(* actually ambiguous - it is itself the live symptom of the exact Fatal     *)
(* being detected", a declared go version nothing satisfies.                 *)
UnsatisfiableMeansFuture ==
    edits = 0 /\ "go-version-unsatisfiable" \in all => gomod.go = "future"
=============================================================================
