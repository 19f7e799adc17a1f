--------------------------- MODULE AuditRunProofs ---------------------------
(* Proofs about AuditRun for every set of contents the two files can have    *)
(* and any number of edits at any moment of the run.                         *)
EXTENDS AuditRun, TLAPS

(* A go.work whose replaces the code applies.                                *)
Moved(w) == w # Unreadable /\ w.replaces /\ ~w.distrusted

(* What is wrong and not left unsaid.                                        *)
Said(r, mod, w) == Wrong(r, mod, w) /\ r \notin Unsaid(w)

(* It, one reason at a time, of a go.mod that can be read.                   *)
LEMMA SaidMeans ==
    ASSUME NEW mod, NEW w, mod # Unreadable
    PROVE  /\ Said("suspect", mod, w) <=> mod.suspect /\ ~(setting = "path" /\ Moved(w))
           /\ ~Said("private-not-found", mod, w)
           /\ Said("contradiction", mod, w) <=> mod.contradicts /\ setting # "path"
           /\ Said("go-version-unsatisfiable", mod, w) <=> mod.go = "future"
           /\ Said("directive-too-old", mod, w) <=> mod.newVerb
           /\ Said("unknown-directive", mod, w) <=> mod.badVerb
           /\ Said("go-work-unresolvable", mod, w) <=> setting = "relative"
           /\ Said("go-work-unreadable", mod, w) <=> setting = "path" /\ w = Unreadable
           /\ Said("go-work-distrusted", mod, w) <=>
                 setting = "path" /\ w # Unreadable /\ w.distrusted
           /\ Said("go-work-block-form", mod, w) <=>
                 setting = "path" /\ w # Unreadable /\ w.blockForm
           /\ Said("go-work-directive-too-old", mod, w) <=>
                 setting = "path" /\ w # Unreadable /\ w.newVerb
           /\ Said("go-work-version-unsatisfiable", mod, w) <=>
                 setting = "path" /\ w # Unreadable /\ w.go = "future"
<1>1. \A r : r \in Unsaid(w) <=>
               \/ r = "contradiction" /\ setting = "path" /\ w = Unreadable
               \/ r = "suspect" /\ setting = "path" /\ Moved(w) /\ RefusedByGo(w)
  BY DEF Unsaid, Because, Moved
<1>2. Wrong("suspect", mod, w) <=>
        mod.suspect /\ ~(setting = "path" /\ Moved(w) /\ ~RefusedByGo(w))
  BY DEF Wrong, Moved, RefusedByGo
<1>3. Wrong("contradiction", mod, w) <=> mod.contradicts /\ ~(setting = "path" /\ w # Unreadable)
  BY DEF Wrong
<1>4. /\ Said("suspect", mod, w) <=> mod.suspect /\ ~(setting = "path" /\ Moved(w))
      /\ Said("contradiction", mod, w) <=> mod.contradicts /\ setting # "path"
  BY <1>1, <1>2, <1>3 DEF Said
<1>5. ASSUME NEW r, r \notin {"suspect", "contradiction"}
      PROVE  Said(r, mod, w) <=> Wrong(r, mod, w)
  BY <1>1, <1>5 DEF Said
<1>6. /\ ~Wrong("private-not-found", mod, w)
      /\ Wrong("go-version-unsatisfiable", mod, w) <=> mod.go = "future"
      /\ Wrong("directive-too-old", mod, w) <=> mod.newVerb
      /\ Wrong("unknown-directive", mod, w) <=> mod.badVerb
      /\ Wrong("go-work-unresolvable", mod, w) <=> setting = "relative"
      /\ Wrong("go-work-unreadable", mod, w) <=> setting = "path" /\ w = Unreadable
      /\ Wrong("go-work-distrusted", mod, w) <=>
            setting = "path" /\ w # Unreadable /\ w.distrusted
      /\ Wrong("go-work-block-form", mod, w) <=>
            setting = "path" /\ w # Unreadable /\ w.blockForm
      /\ Wrong("go-work-directive-too-old", mod, w) <=>
            setting = "path" /\ w # Unreadable /\ w.newVerb
      /\ Wrong("go-work-version-unsatisfiable", mod, w) <=>
            setting = "path" /\ w # Unreadable /\ w.go = "future"
  BY DEF Wrong, Future
<1> QED
  BY <1>4, <1>5, <1>6

(* What is left unsaid is said of the go.work.                               *)
LEMMA UnsaidIsSaid ==
    ASSUME NEW r, NEW mod, NEW w, mod # Unreadable, r \in Unsaid(w)
    PROVE  \E q \in Reasons : Said(q, mod, w)
<1>1. \/ setting = "path" /\ w = Unreadable
      \/ setting = "path" /\ w # Unreadable
           /\ (w.distrusted \/ w.blockForm \/ w.newVerb \/ w.go = "future")
  BY DEF Unsaid, Because, RefusedByGo
<1>2. /\ "go-work-unreadable" \in Reasons /\ "go-work-distrusted" \in Reasons
      /\ "go-work-block-form" \in Reasons /\ "go-work-directive-too-old" \in Reasons
      /\ "go-work-version-unsatisfiable" \in Reasons
  BY DEF Reasons
<1> QED
  BY <1>1, <1>2, SaidMeans

-----------------------------------------------------------------------------
(* What the run remembers of what it has read.                               *)
RunTypes ==
    /\ gomod \in seenMods /\ seenMods \subseteq GoMods
    /\ gowork \in seenWorks /\ seenWorks \subseteq GoWorks
    /\ setting \in {"unset", "off", "relative", "path"}
    /\ edits \in Nat

Read == loaded # Unreadable

LoadPart ==
    /\ ~Read => all = {} /\ pc \in {"load", "exited"} /\ exit \in {Running, 2}
    /\ Read => loaded \in seenMods /\ pc # "load"
    /\ pc # "exited" => exit = Running

OverlayPart ==
    /\ goWorkPath = "path" => setting = "path"
    /\ overlay => pc \notin {"load", "gowork", "overlay"} /\ goWorkPath = "path"
                  /\ \E w \in seenWorks : Moved(w)

(* Nothing is reported only of a go.mod whose own troubles were taken away,  *)
(* and where a go.work was found it has been read.                           *)
CleanPart ==
    /\ Read /\ pc \in {"version", "reread", "workspace", "output", "exited"} /\ all = {} =>
          (loaded.suspect => overlay) /\ (loaded.contradicts => goWorkPath = "path")
    /\ Read /\ pc \in {"output", "exited"} /\ all = {} /\ goWorkPath = "path" =>
          \E w \in seenWorks : w # Unreadable
    /\ exit = 0 => all = {}

RunInv == RunTypes /\ LoadPart /\ OverlayPart /\ CleanPart

(* What the environment tells a run in which the go command always answers   *)
(* and every go.work is read to its end.                                     *)
Quiet == \A mod \in seenMods, w \in seenWorks : ~GoEnvFails(mod, w) /\ ReadInFull(w)
Deserved(r) == \E mod \in seenMods, w \in seenWorks : Wrong(r, mod, w)
PathOf == IF setting \in {"unset", "off"} THEN "none"
          ELSE IF setting = "relative" THEN "failed" ELSE "path"
Known ==
    Read =>
        /\ pc # "gowork" => goWorkPath = PathOf
        /\ pc \notin {"gowork", "overlay", "patterns"} => patterns = "known"
        /\ pc \in {"reread", "workspace"} => goVersion = "known"
OverlayTaken ==
    Read /\ pc \notin {"gowork", "overlay"} =>
        \E w \in seenWorks : overlay <=> setting = "path" /\ Moved(w)

QuietInv == Quiet => Known /\ OverlayTaken /\ \A r \in all : Deserved(r)

(* What a run that nothing disturbs has reported so far.                     *)
OfGoMod == {"suspect", "private-not-found", "contradiction"}
OfRawGoMod == OfGoMod \cup {"go-version-unsatisfiable", "directive-too-old", "unknown-directive"}
Told ==
    IF pc \in {"load", "gowork", "overlay", "patterns", "check"} THEN {}
    ELSE IF pc \in {"version", "reread"} THEN OfGoMod
    ELSE IF pc = "workspace" THEN OfRawGoMod ELSE Reasons

StillFails ==
    /\ pc # "gowork" => goWorkPath = "failed"
    /\ pc \in {"output", "exited"} => all # {}
StillAnswers ==
    /\ Known
    /\ pc \notin {"gowork", "overlay"} => (overlay <=> setting = "path" /\ Moved(gowork))
    /\ all = {r \in Told : Said(r, gomod, gowork)}
StillInv ==
    /\ Read /\ edits = 0 =>
          /\ loaded = gomod
          /\ GoEnvFails(gomod, gowork) => StillFails
          /\ ~GoEnvFails(gomod, gowork) /\ ReadInFull(gowork) => StillAnswers
    /\ exit \in {0, 1} => pc = "exited" /\ Read /\ (exit = 0 <=> all = {})

-----------------------------------------------------------------------------
(* A step of the run touches neither the files nor the environment. *)
LEMMA StepKeepsDisk ==
    ASSUME Step \/ Exited \/ UNCHANGED vars
    PROVE  UNCHANGED <<disk, setting, toolchain>>
BY DEF Step, Exited, vars, LoadGoMod, ResolveGoWork, ReadOverlay, AskPatterns, CheckAll,
       AskGoVersion, RereadGoMod, CheckGoWork, Output

LEMMA PathResolved ==
    ASSUME RunTypes, ResolveGoWork
    PROVE  goWorkPath' = IF GoEnvFails(gomod, gowork) THEN "failed" ELSE PathOf
<1>1. CASE GoEnvFails(gomod, gowork)
  BY <1>1 DEF ResolveGoWork
<1>2. CASE ~GoEnvFails(gomod, gowork)
  BY <1>2 DEF ResolveGoWork, RunTypes, PathOf
<1>3. QED
  BY <1>1, <1>2

LEMMA NotExited == Running \notin {0, 1, 2}
BY DEF Running

LEMMA RunInitially == ASSUME Init PROVE RunInv /\ QuietInv /\ StillInv
<1> USE DEF Init, Read
<1>1. RunTypes
  BY DEF RunTypes
<1>2. LoadPart /\ OverlayPart /\ CleanPart
  BY NotExited DEF LoadPart, OverlayPart, CleanPart
<1>3. QuietInv
  BY DEF QuietInv, Known, OverlayTaken
<1>4. StillInv
  <2>1. ~Read /\ exit \notin {0, 1}
    BY NotExited
  <2>2. QED
    BY <2>1 DEF StillInv
<1>5. QED
  BY <1>1, <1>2, <1>3, <1>4 DEF RunInv

LEMMA RunStep == ASSUME RunInv, [Next]_vars PROVE RunInv'
<1> USE DEF Read
<1>1. CASE Edit
  BY <1>1 DEF Edit, RunInv, RunTypes, LoadPart, OverlayPart, CleanPart, Moved
<1>2. CASE Step \/ Exited \/ UNCHANGED vars
  <2> SUFFICES LoadPart' /\ OverlayPart' /\ CleanPart'
    BY <1>2, StepKeepsDisk DEF RunInv, RunTypes, disk
  <2>0. UNCHANGED <<disk, setting, toolchain>>
    BY <1>2, StepKeepsDisk
  <2> USE DEF RunInv, RunTypes, LoadPart, OverlayPart, CleanPart, Moved, disk
  <2>1. CASE LoadGoMod
    BY <2>1, NotExited DEF LoadGoMod
  <2>2. CASE ResolveGoWork
    BY <2>2, PathResolved, NotExited DEF ResolveGoWork, PathOf
  <2>3. CASE ReadOverlay
    BY <2>3, NotExited DEF ReadOverlay
  <2>4. CASE AskPatterns
    BY <2>4, NotExited DEF AskPatterns
  <2>5. CASE CheckAll
    <3>1. /\ all' = all \cup Because("suspect", loaded.suspect /\ ~overlay)
                       \cup Because("private-not-found", loaded.private /\ patterns = "")
                       \cup Because("contradiction", loaded.contradicts /\ ~inWorkspace)
          /\ pc = "check" /\ pc' = "version" /\ UNCHANGED <<loaded, goWorkPath, overlay, exit>>
      BY <2>5 DEF CheckAll, Report
    <3>2. all' = {} => (loaded.suspect => overlay) /\ (loaded.contradicts => goWorkPath = "path")
      BY <3>1 DEF Because, inWorkspace
    <3>3. CleanPart'
      BY <3>1, <3>2, NotExited
    <3>4. QED
      BY <2>0, <3>1, <3>3
  <2>6. CASE AskGoVersion
    BY <2>6, NotExited DEF AskGoVersion
  <2>7. CASE RereadGoMod
    <3>1. /\ all \subseteq all' /\ pc = "reread" /\ pc' = "workspace"
          /\ UNCHANGED <<loaded, goWorkPath, overlay, exit>>
      BY <2>7 DEF RereadGoMod, Report
    <3>2. QED
      BY <2>0, <3>1, NotExited
  <2>8. CASE CheckGoWork
    <3>1. /\ all \subseteq all' /\ pc = "workspace" /\ pc' = "output"
          /\ UNCHANGED <<loaded, goWorkPath, overlay, exit>>
      BY <2>8 DEF CheckGoWork, Report
    <3>2. all' = {} /\ goWorkPath = "path" => gowork # Unreadable
      BY <2>8 DEF CheckGoWork, Report
    <3>3. QED
      BY <2>0, <3>1, <3>2, NotExited
  <2>9. CASE Output
    BY <2>9, NotExited DEF Output
  <2>10. CASE Exited \/ UNCHANGED vars
    BY <2>10 DEF Exited, vars
  <2>11. QED
    BY <1>2, <2>1, <2>2, <2>3, <2>4, <2>5, <2>6, <2>7, <2>8, <2>9, <2>10 DEF Step
<1>3. QED
  BY <1>1, <1>2 DEF Next

LEMMA RunInvariant == Spec => []RunInv
<1>1. QED
  BY RunInitially, RunStep, PTL DEF Spec

(* Whatever other programs do to the files meanwhile, an exit code of 0 is   *)
(* never given to a run in which every content go.mod had was suspect or     *)
(* contradicted itself.                                                      *)
THEOREM CleanIsDeserved == Spec => []CleanOnce
<1>1. RunInv => CleanOnce
  <2> SUFFICES ASSUME RunInv, exit = 0
               PROVE  \E mod \in seenMods, w \in seenWorks :
                          /\ mod # Unreadable /\ ~Wrong("contradiction", mod, w)
                          /\ Wrong("suspect", mod, w) => "suspect" \in Unsaid(w)
    BY DEF CleanOnce
  <2>1. /\ Read /\ loaded \in seenMods /\ loaded # Unreadable
        /\ loaded.suspect => overlay
        /\ loaded.contradicts => goWorkPath = "path"
        /\ overlay => setting = "path"
        /\ goWorkPath = "path" => setting = "path"
    BY NotExited DEF RunInv, LoadPart, OverlayPart, CleanPart, Read
  <2>2. PICK w \in seenWorks : /\ overlay => Moved(w)
                               /\ goWorkPath = "path" => w # Unreadable
    <3>1. CASE overlay
      BY <3>1 DEF RunInv, OverlayPart, Moved
    <3>2. CASE ~overlay /\ goWorkPath = "path"
      BY <3>2, NotExited DEF RunInv, LoadPart, CleanPart
    <3>3. CASE ~overlay /\ goWorkPath # "path"
      BY <3>3 DEF RunInv, RunTypes
    <3>4. QED
      BY <3>1, <3>2, <3>3
  <2>3. ~Wrong("contradiction", loaded, w)
    BY <2>1, <2>2 DEF Wrong
  <2>4. ~Said("suspect", loaded, w)
    BY <2>1, <2>2, SaidMeans
  <2>5. QED
    BY <2>1, <2>3, <2>4 DEF Said
<1>2. QED
  BY <1>1, RunInvariant, PTL

-----------------------------------------------------------------------------
(* What a run has met it has met for good. *)
LEMMA Remembers ==
    ASSUME RunTypes, [Next]_vars
    PROVE  /\ seenMods \subseteq seenMods' /\ seenWorks \subseteq seenWorks'
           /\ UNCHANGED <<setting, toolchain>>
           /\ Quiet' => Quiet
           /\ \A r : Deserved(r) => Deserved(r)'
<1>1. /\ seenMods \subseteq seenMods' /\ seenWorks \subseteq seenWorks'
      /\ UNCHANGED <<setting, toolchain>>
  <2>1. CASE Edit
    BY <2>1 DEF Edit
  <2>2. CASE Step \/ Exited \/ UNCHANGED vars
    BY <2>2, StepKeepsDisk DEF disk
  <2>3. QED
    BY <2>1, <2>2 DEF Next
<1>2. Quiet' => Quiet
  BY <1>1 DEF Quiet, GoEnvFails, ReadInFull
<1>3. ASSUME NEW r, Deserved(r) PROVE Deserved(r)'
  <2>1. PICK mod \in seenMods, w \in seenWorks : Wrong(r, mod, w)
    BY <1>3 DEF Deserved
  <2>2. Wrong(r, mod, w)'
    BY <1>1, <2>1 DEF Wrong
  <2>3. QED
    BY <1>1, <2>2 DEF Deserved
<1>4. QED
  BY <1>1, <1>2, <1>3

(* In a quiet run each check reports of contents the run has met.            *)
LEMMA QuietReports ==
    ASSUME RunInv, QuietInv, Quiet, CheckAll \/ RereadGoMod \/ CheckGoWork, NEW r \in all'
    PROVE  Deserved(r)
<1>1. /\ Known /\ OverlayTaken /\ \A q \in all : Deserved(q)
      /\ gomod \in seenMods /\ gowork \in seenWorks
      /\ pc \in {"check", "reread", "workspace"} => Read
  BY DEF QuietInv, RunInv, RunTypes, LoadPart
<1>2. CASE r \in all
  BY <1>1, <1>2
<1>3. CASE r \notin all /\ CheckAll
  <2>1. Read /\ loaded \in seenMods /\ patterns = "known" /\ goWorkPath = PathOf /\ pc = "check"
    BY <1>1, <1>3 DEF CheckAll, Known, RunInv, LoadPart
  <2>2. PICK w \in seenWorks : overlay <=> setting = "path" /\ Moved(w)
    BY <1>1, <2>1 DEF OverlayTaken
  <2>3. \/ r = "suspect" /\ loaded.suspect /\ ~overlay
        \/ r = "contradiction" /\ loaded.contradicts /\ ~inWorkspace
    BY <1>3, <2>1 DEF CheckAll, Report, Because
  <2>4. CASE r = "suspect" /\ loaded.suspect /\ ~overlay
    BY <2>1, <2>2, <2>4, SaidMeans DEF Deserved, Said, Read
  <2>5. CASE r = "contradiction" /\ loaded.contradicts /\ ~inWorkspace
    <3>1. setting # "path"
      BY <2>1, <2>5 DEF inWorkspace, PathOf
    <3>2. Wrong(r, loaded, w)
      BY <2>1, <2>5, <3>1, SaidMeans DEF Said, Read
    <3>3. QED
      BY <2>1, <3>2 DEF Deserved
  <2>6. QED
    BY <2>3, <2>4, <2>5
<1>4. CASE r \notin all /\ RereadGoMod
  <2>1. gomod # Unreadable /\ goVersion = "known"
    BY <1>1, <1>4 DEF RereadGoMod, Known, Report
  <2>2. \/ r = "go-version-unsatisfiable" /\ gomod.go = "future"
        \/ r = "directive-too-old" /\ gomod.newVerb
        \/ r = "unknown-directive" /\ gomod.badVerb
    BY <1>4, <2>1 DEF RereadGoMod, Report, Because, Unsatisfied
  <2>3. Wrong(r, gomod, gowork)
    BY <2>1, <2>2, SaidMeans DEF Said
  <2>4. QED
    BY <1>1, <2>3 DEF Deserved
<1>5. CASE r \notin all /\ CheckGoWork
  <2>1. Read /\ loaded \in seenMods /\ goVersion = "known" /\ goWorkPath = PathOf
    BY <1>1, <1>5 DEF CheckGoWork, Known, RunInv, LoadPart
  <2>2. \/ r = "go-work-unresolvable" /\ setting = "relative"
        \/ /\ setting = "path"
           /\ \/ r = "go-work-unreadable" /\ gowork = Unreadable
              \/ /\ gowork # Unreadable
                 /\ \/ r = "go-work-distrusted" /\ gowork.distrusted
                    \/ r = "go-work-block-form" /\ gowork.blockForm
                    \/ r = "go-work-directive-too-old" /\ gowork.newVerb
                    \/ r = "go-work-version-unsatisfiable" /\ gowork.go = "future"
    <3>1. /\ goWorkPath = "failed" => setting = "relative"
          /\ goWorkPath = "path" => setting = "path"
      BY <2>1 DEF PathOf, RunInv, RunTypes
    <3>2. QED
      BY <1>5, <2>1, <3>1 DEF CheckGoWork, Report, Because, Unsatisfied
  <2>3. Wrong(r, loaded, gowork)
    BY <2>1, <2>2, SaidMeans DEF Said, Read
  <2>4. QED
    BY <1>1, <2>1, <2>3 DEF Deserved
<1>6. QED
  BY <1>2, <1>3, <1>4, <1>5

LEMMA QuietStep == ASSUME RunInv, QuietInv, [Next]_vars PROVE QuietInv'
<1> SUFFICES ASSUME Quiet' PROVE Known' /\ OverlayTaken' /\ \A r \in all' : Deserved(r)'
  BY DEF QuietInv
<1>1. /\ seenMods \subseteq seenMods' /\ seenWorks \subseteq seenWorks'
      /\ UNCHANGED <<setting, toolchain>> /\ PathOf' = PathOf
      /\ \A r : Deserved(r) => Deserved(r)'
      /\ Quiet /\ Known /\ OverlayTaken /\ \A r \in all : Deserved(r)
      /\ RunTypes
  BY Remembers DEF RunInv, QuietInv, PathOf
<1>2. \A r \in all' : Deserved(r)'
  <2>1. CASE CheckAll \/ RereadGoMod \/ CheckGoWork
    BY <1>1, <2>1, QuietReports
  <2>2. all' = all \/ CheckAll \/ RereadGoMod \/ CheckGoWork
    BY DEF Next, Step, Edit, Exited, vars, LoadGoMod, ResolveGoWork, ReadOverlay, AskPatterns,
           AskGoVersion, Output
  <2>3. QED
    BY <1>1, <2>1, <2>2
<1>3. ~GoEnvFails(gomod, gowork) /\ ReadInFull(gowork) /\ gowork \in seenWorks
  BY <1>1 DEF Quiet, RunTypes
<1>4. Known' /\ OverlayTaken'
  <2> USE DEF Known, OverlayTaken, Read
  <2>1. CASE LoadGoMod
    BY <1>1, <2>1 DEF LoadGoMod
  <2>2. CASE ResolveGoWork
    BY <1>1, <1>3, <2>2, PathResolved DEF ResolveGoWork
  <2>3. CASE ReadOverlay
    <3>1. overlay' <=> setting = "path" /\ Moved(gowork)
      <4>1. pc = "overlay" /\ goWorkPath = PathOf
        BY <1>1, <2>3 DEF ReadOverlay, RunInv, LoadPart
      <4>2. goWorkPath = "path" <=> setting = "path"
        BY <1>1, <4>1 DEF PathOf, RunTypes
      <4>3. overlay' <=> /\ goWorkPath = "path" /\ gowork # Unreadable
                         /\ gowork.replaces /\ ~gowork.distrusted /\ ~gowork.overlong
        BY <2>3 DEF ReadOverlay
      <4>4. QED
        BY <1>3, <4>2, <4>3 DEF Moved, ReadInFull
    <3>2. QED
      BY <1>1, <1>3, <2>3, <3>1 DEF ReadOverlay, Moved
  <2>4. CASE AskPatterns
    BY <1>1, <1>3, <2>4 DEF AskPatterns, Moved
  <2>5. CASE CheckAll
    BY <1>1, <2>5 DEF CheckAll, Moved
  <2>6. CASE AskGoVersion
    BY <1>1, <1>3, <2>6 DEF AskGoVersion, Moved
  <2>7. CASE RereadGoMod
    BY <1>1, <2>7 DEF RereadGoMod, Moved
  <2>8. CASE CheckGoWork
    BY <1>1, <2>8 DEF CheckGoWork, Moved
  <2>9. CASE Output
    BY <1>1, <2>9 DEF Output, Moved
  <2>10. CASE Edit
    BY <1>1, <2>10 DEF Edit, Moved
  <2>11. CASE Exited \/ UNCHANGED vars
    BY <1>1, <2>11 DEF Exited, vars, disk, Moved
  <2>12. QED
    BY <2>1, <2>2, <2>3, <2>4, <2>5, <2>6, <2>7, <2>8, <2>9, <2>10, <2>11 DEF Next, Step
<1>5. QED
  BY <1>2, <1>4

(* Whatever other programs do to the files meanwhile, and as long as the go  *)
(* command answers and no line is too long for the scanner, nothing is       *)
(* reported that contents of the run do not deserve.                         *)
THEOREM NothingIsInvented == Spec => []NothingInvented
<1>1. RunInv /\ QuietInv => NothingInvented
  BY DEF QuietInv, NothingInvented, Quiet, Deserved
<1>2. Init => RunInv /\ QuietInv
  BY RunInitially
<1>3. RunInv /\ QuietInv /\ [Next]_vars => RunInv' /\ QuietInv'
  BY RunStep, QuietStep
<1>4. QED
  BY <1>1, <1>2, <1>3, PTL DEF Spec

-----------------------------------------------------------------------------
(* In a run that nothing disturbs, and in which the go command answers, each *)
(* check adds exactly the reasons that are its own.                          *)
LEMMA CheckedExactly ==
    ASSUME RunInv, Read, loaded = gomod, StillAnswers, ReadInFull(gowork),
           CheckAll \/ RereadGoMod \/ CheckGoWork
    PROVE  all' = {r \in Told' : Said(r, gomod, gowork)}
<1>1. gomod # Unreadable /\ Known /\ all = {r \in Told : Said(r, gomod, gowork)}
  BY DEF StillAnswers, Read
<1>2. CASE CheckAll
  <2>1. /\ patterns = "known" /\ goWorkPath = PathOf /\ pc = "check" /\ pc' = "version"
        /\ overlay <=> setting = "path" /\ Moved(gowork)
    BY <1>2 DEF CheckAll, StillAnswers, Known
  <2>2. all = {} /\ Told' = OfGoMod
    BY <1>1, <2>1 DEF Told
  <2>3. inWorkspace <=> setting = "path"
    BY <2>1 DEF inWorkspace, PathOf, RunInv, RunTypes
  <2>4. ASSUME NEW r
        PROVE  r \in all' <=> \/ r = "suspect" /\ gomod.suspect /\ ~overlay
                              \/ r = "contradiction" /\ gomod.contradicts /\ ~inWorkspace
    BY <1>2, <2>1, <2>2 DEF CheckAll, Report, Because
  <2>5. ASSUME NEW r
        PROVE  r \in all' <=> r \in OfGoMod /\ Said(r, gomod, gowork)
    <3>2. Said("suspect", gomod, gowork) <=> gomod.suspect /\ ~overlay
      BY <1>1, <2>1, SaidMeans
    <3>3. Said("contradiction", gomod, gowork) <=> gomod.contradicts /\ ~inWorkspace
      BY <1>1, <2>3, SaidMeans
    <3>4. ~Said("private-not-found", gomod, gowork)
      BY <1>1, SaidMeans
    <3>5. QED
      BY <2>4, <3>2, <3>3, <3>4 DEF OfGoMod
  <2>6. QED
    BY <2>2, <2>5
<1>3. CASE RereadGoMod
  <2>1. goVersion = "known" /\ pc = "reread" /\ pc' = "workspace"
    BY <1>1, <1>3 DEF RereadGoMod, Known
  <2>2. Told = OfGoMod /\ Told' = OfRawGoMod
    BY <2>1 DEF Told
  <2>3. ASSUME NEW r
        PROVE  r \in all' <=> \/ r \in all
                              \/ r = "go-version-unsatisfiable" /\ gomod.go = "future"
                              \/ r = "directive-too-old" /\ gomod.newVerb
                              \/ r = "unknown-directive" /\ gomod.badVerb
    BY <1>1, <1>3, <2>1 DEF RereadGoMod, Report, Because, Unsatisfied
  <2>4. ASSUME NEW r
        PROVE  r \in all' <=> r \in OfRawGoMod /\ Said(r, gomod, gowork)
    BY <1>1, <2>2, <2>3, SaidMeans DEF OfGoMod, OfRawGoMod
  <2>5. QED
    BY <2>2, <2>4
<1>4. CASE CheckGoWork
  <2>1. goVersion = "known" /\ goWorkPath = PathOf /\ pc = "workspace" /\ pc' = "output"
    BY <1>1, <1>4 DEF CheckGoWork, Known
  <2>2. Told = OfRawGoMod /\ Told' = Reasons
    BY <2>1 DEF Told
  <2>3. /\ goWorkPath = "failed" <=> setting = "relative"
        /\ goWorkPath = "path" <=> setting = "path"
        /\ goWorkPath \in {"failed", "none", "path"}
    BY <2>1 DEF PathOf, RunInv, RunTypes
  <2>4. setting = "path" /\ gowork # Unreadable => ~gowork.overlong
    BY DEF ReadInFull
  <2>5. ASSUME NEW r
        PROVE  r \in all' <=>
                 \/ r \in all
                 \/ r = "go-work-unresolvable" /\ setting = "relative"
                 \/ /\ setting = "path"
                    /\ \/ r = "go-work-unreadable" /\ gowork = Unreadable
                       \/ /\ gowork # Unreadable
                          /\ \/ r = "go-work-distrusted" /\ gowork.distrusted
                             \/ r = "go-work-block-form" /\ gowork.blockForm
                             \/ r = "go-work-directive-too-old" /\ gowork.newVerb
                             \/ r = "go-work-version-unsatisfiable" /\ gowork.go = "future"
    BY <1>4, <2>1, <2>3, <2>4 DEF CheckGoWork, Report, Because, Unsatisfied
  <2>6. ASSUME NEW r
        PROVE  r \in all' <=> r \in Reasons /\ Said(r, gomod, gowork)
    <3>1. r \in all <=> r \in OfRawGoMod /\ Said(r, gomod, gowork)
      BY <1>1, <2>2
    <3>2. CASE r \in OfRawGoMod
      BY <2>5, <3>1, <3>2 DEF OfGoMod, OfRawGoMod, Reasons
    <3>3. CASE r \in Reasons \ OfRawGoMod
      <4>1. r \notin all
        BY <3>1, <3>3
      <4>2. CASE r = "go-work-unresolvable"
        <5>1. r \in all' <=> setting = "relative"
          BY <2>5, <4>1, <4>2
        <5>2. Said("go-work-unresolvable", gomod, gowork) <=> setting = "relative"
          BY <1>1, SaidMeans
        <5>3. QED
          BY <4>2, <5>1, <5>2 DEF Reasons
      <4>3. CASE r = "go-work-unreadable"
        <5>1. r \in all' <=> setting = "path" /\ gowork = Unreadable
          BY <2>5, <4>1, <4>3
        <5>2. Said("go-work-unreadable", gomod, gowork) <=> setting = "path" /\ gowork = Unreadable
          BY <1>1, SaidMeans
        <5>3. QED
          BY <4>3, <5>1, <5>2 DEF Reasons
      <4>4. CASE r = "go-work-distrusted"
        <5>1. r \in all' <=> setting = "path" /\ gowork # Unreadable /\ gowork.distrusted
          BY <2>5, <4>1, <4>4
        <5>2. Said("go-work-distrusted", gomod, gowork) <=> setting = "path" /\ gowork # Unreadable /\ gowork.distrusted
          BY <1>1, SaidMeans
        <5>3. QED
          BY <4>4, <5>1, <5>2 DEF Reasons
      <4>5. CASE r = "go-work-block-form"
        <5>1. r \in all' <=> setting = "path" /\ gowork # Unreadable /\ gowork.blockForm
          BY <2>5, <4>1, <4>5
        <5>2. Said("go-work-block-form", gomod, gowork) <=> setting = "path" /\ gowork # Unreadable /\ gowork.blockForm
          BY <1>1, SaidMeans
        <5>3. QED
          BY <4>5, <5>1, <5>2 DEF Reasons
      <4>6. CASE r = "go-work-directive-too-old"
        <5>1. r \in all' <=> setting = "path" /\ gowork # Unreadable /\ gowork.newVerb
          BY <2>5, <4>1, <4>6
        <5>2. Said("go-work-directive-too-old", gomod, gowork) <=> setting = "path" /\ gowork # Unreadable /\ gowork.newVerb
          BY <1>1, SaidMeans
        <5>3. QED
          BY <4>6, <5>1, <5>2 DEF Reasons
      <4>7. CASE r = "go-work-version-unsatisfiable"
        <5>1. r \in all' <=> setting = "path" /\ gowork # Unreadable /\ gowork.go = "future"
          BY <2>5, <4>1, <4>7
        <5>2. Said("go-work-version-unsatisfiable", gomod, gowork) <=> setting = "path" /\ gowork # Unreadable /\ gowork.go = "future"
          BY <1>1, SaidMeans
        <5>3. QED
          BY <4>7, <5>1, <5>2 DEF Reasons
      <4>8. QED
        BY <3>3, <4>2, <4>3, <4>4, <4>5, <4>6, <4>7 DEF Reasons, OfGoMod, OfRawGoMod
    <3>4. CASE r \notin Reasons
      BY <2>5, <3>1, <3>4 DEF OfGoMod, OfRawGoMod, Reasons
    <3>5. QED
      BY <3>2, <3>3, <3>4
  <2>7. QED
    BY <2>2, <2>6
<1>5. QED
  BY <1>2, <1>3, <1>4

LEMMA StillStep == ASSUME RunInv, StillInv, [Next]_vars PROVE StillInv'
<1>1. CASE Edit
  <2>1. edits' # 0 /\ UNCHANGED <<pc, loaded, all, exit>>
    BY <1>1 DEF Edit, RunInv, RunTypes
  <2>2. QED
    BY <2>1 DEF StillInv, Read
<1>2. CASE Step \/ Exited \/ UNCHANGED vars
  <2>1. UNCHANGED <<disk, setting, toolchain, gomod, gowork, edits>>
    BY <1>2, StepKeepsDisk DEF disk
  <2>2. (exit \in {0, 1} => pc = "exited" /\ Read /\ (exit = 0 <=> all = {}))'
    <3>1. CASE Output
      <4>1. Read /\ UNCHANGED <<loaded, all>> /\ pc' = "exited"
        BY <3>1 DEF Output, RunInv, LoadPart
      <4>2. exit' = 2 \/ exit' = IF all = {} THEN 0 ELSE 1
        BY <3>1 DEF Output
      <4>3. QED
        BY <4>1, <4>2 DEF Read
    <3>2. CASE Exited \/ UNCHANGED vars
      BY <3>2 DEF Exited, vars, StillInv, Read
    <3>3. CASE exit' \notin {0, 1}
      BY <3>3
    <3>4. (exit' \in {exit, 2} /\ exit \notin {0, 1}) \/ Output \/ Exited \/ UNCHANGED vars
      BY <1>2, NotExited DEF RunInv, LoadPart, Step, LoadGoMod, ResolveGoWork, ReadOverlay,
         AskPatterns, CheckAll, AskGoVersion, RereadGoMod, CheckGoWork
    <3>5. QED
      BY <3>1, <3>2, <3>3, <3>4
  <2>3. ASSUME Read', edits' = 0, GoEnvFails(gomod, gowork)
        PROVE  loaded' = gomod /\ StillFails'
    <3>1. Read => loaded = gomod /\ StillFails
      BY <2>1, <2>3 DEF StillInv
    <3> USE DEF StillFails, Read
    <3>2. CASE LoadGoMod
      BY <2>3, <3>2 DEF LoadGoMod, RunInv, LoadPart
    <3>3. CASE ResolveGoWork
      BY <2>3, <3>1, <3>3, PathResolved DEF ResolveGoWork, RunInv
    <3>4. CASE ReadOverlay \/ AskPatterns \/ CheckAll \/ AskGoVersion \/ RereadGoMod
      BY <2>3, <3>1, <3>4 DEF ReadOverlay, AskPatterns, CheckAll, AskGoVersion, RereadGoMod
    <3>5. CASE CheckGoWork
      BY <2>3, <3>1, <3>5 DEF CheckGoWork, Report
    <3>6. CASE Output
      BY <2>3, <3>1, <3>6 DEF Output
    <3>7. CASE Exited \/ UNCHANGED vars
      BY <2>3, <3>1, <3>7 DEF Exited, vars
    <3>8. QED
      BY <1>2, <3>2, <3>3, <3>4, <3>5, <3>6, <3>7 DEF Step
  <2>4. ASSUME Read', edits' = 0, ~GoEnvFails(gomod, gowork), ReadInFull(gowork)
        PROVE  loaded' = gomod /\ StillAnswers'
    <3>1. Read => loaded = gomod /\ StillAnswers
      BY <2>1, <2>4 DEF StillInv
    <3>2. Known' /\ loaded' = gomod
                 /\ (pc \notin {"gowork", "overlay"} => (overlay <=> setting = "path" /\ Moved(gowork)))'
      <4> USE DEF Known, Read, StillAnswers
      <4>0. PathOf' = PathOf /\ Moved(gowork)' = Moved(gowork)
        BY <2>1 DEF PathOf, Moved
      <4>1. CASE LoadGoMod
        BY <4>0, <2>1, <2>4, <4>1 DEF LoadGoMod, RunInv, LoadPart
      <4>2. CASE ResolveGoWork
        BY <4>0, <2>1, <2>4, <3>1, <4>2, PathResolved DEF ResolveGoWork, RunInv
      <4>3. CASE ReadOverlay
        <5>1. Read /\ pc = "overlay" /\ goWorkPath = PathOf
          BY <2>4, <3>1, <4>3 DEF ReadOverlay
        <5>2. goWorkPath = "path" <=> setting = "path"
          BY <5>1 DEF PathOf, RunInv, RunTypes
        <5>3. overlay' <=> /\ goWorkPath = "path" /\ gowork # Unreadable
                           /\ gowork.replaces /\ ~gowork.distrusted /\ ~gowork.overlong
          BY <4>3 DEF ReadOverlay
        <5>4. overlay' <=> setting = "path" /\ Moved(gowork)
          BY <2>4, <5>2, <5>3 DEF Moved, ReadInFull
        <5>5. QED
          BY <4>0, <2>1, <3>1, <4>3, <5>1, <5>4 DEF ReadOverlay
      <4>4. CASE AskPatterns
        BY <4>0, <2>1, <2>4, <3>1, <4>4 DEF AskPatterns
      <4>5. CASE CheckAll
        BY <4>0, <2>1, <2>4, <3>1, <4>5 DEF CheckAll
      <4>6. CASE AskGoVersion
        BY <4>0, <2>1, <2>4, <3>1, <4>6 DEF AskGoVersion
      <4>7. CASE RereadGoMod
        BY <4>0, <2>1, <2>4, <3>1, <4>7 DEF RereadGoMod
      <4>8. CASE CheckGoWork
        BY <4>0, <2>1, <2>4, <3>1, <4>8 DEF CheckGoWork
      <4>9. CASE Output
        BY <4>0, <2>1, <2>4, <3>1, <4>9 DEF Output
      <4>10. CASE Exited \/ UNCHANGED vars
        BY <4>0, <2>1, <2>4, <3>1, <4>10 DEF Exited, vars
      <4>11. QED
        BY <1>2, <4>1, <4>2, <4>3, <4>4, <4>5, <4>6, <4>7, <4>8, <4>9, <4>10 DEF Step
    <3>3. all' = {r \in Told' : Said(r, gomod, gowork)}
      <4>1. CASE CheckAll \/ RereadGoMod \/ CheckGoWork
        <5>1. Read
          BY <2>4, <4>1 DEF CheckAll, RereadGoMod, CheckGoWork, Read
        <5>2. QED
          BY <2>4, <3>1, <4>1, <5>1, CheckedExactly
      <4>2. CASE LoadGoMod
        BY <2>4, <4>2 DEF LoadGoMod, RunInv, LoadPart, Told, Read
      <4>3. CASE ResolveGoWork \/ ReadOverlay \/ AskPatterns \/ AskGoVersion \/ Output
                 \/ Exited \/ UNCHANGED vars
        <5>1. all' = all /\ loaded' = loaded /\ Told' = Told
          BY <4>3 DEF ResolveGoWork, ReadOverlay, AskPatterns, AskGoVersion, Output, Exited, vars,
                      Told
        <5>2. QED
          BY <2>4, <3>1, <5>1 DEF StillAnswers, Read
      <4>4. QED
        BY <1>2, <4>1, <4>2, <4>3 DEF Step
    <3>4. all' = {r \in Told' : Said(r, gomod, gowork)'}
      <4>1. \A r : Said(r, gomod, gowork)' <=> Said(r, gomod, gowork)
        BY <2>1 DEF Said, Wrong, Unsaid
      <4>2. QED
        BY <3>3, <4>1
    <3>5. QED
      BY <3>2, <3>4 DEF StillAnswers
  <2>5. /\ GoEnvFails(gomod, gowork)' <=> GoEnvFails(gomod, gowork)
        /\ ReadInFull(gowork)' <=> ReadInFull(gowork)
    BY <2>1 DEF GoEnvFails, ReadInFull
  <2>6. (Read /\ edits = 0 =>
          /\ loaded = gomod
          /\ GoEnvFails(gomod, gowork) => StillFails
          /\ ~GoEnvFails(gomod, gowork) /\ ReadInFull(gowork) => StillAnswers)'
    <3>1. CASE GoEnvFails(gomod, gowork)
      BY <2>1, <2>3, <2>5, <3>1
    <3>2. CASE ~GoEnvFails(gomod, gowork) /\ ReadInFull(gowork)
      BY <2>1, <2>4, <2>5, <3>2
    <3>3. CASE ~GoEnvFails(gomod, gowork) /\ ~ReadInFull(gowork)
      <4>1. ASSUME Read', edits' = 0 PROVE loaded' = gomod
        <5>1. Read => loaded = gomod
          BY <2>1, <4>1 DEF StillInv
        <5>2. CASE LoadGoMod
          BY <4>1, <5>2 DEF LoadGoMod, RunInv, LoadPart, Read
        <5>3. CASE ~LoadGoMod
          <6>1. loaded' = loaded /\ (Read' => Read)
            BY <1>2, <5>3 DEF Step, ResolveGoWork, ReadOverlay, AskPatterns, CheckAll, AskGoVersion,
               RereadGoMod, CheckGoWork, Output, Exited, vars, Read
          <6>2. QED
            BY <4>1, <5>1, <6>1
        <5>4. QED
          BY <5>2, <5>3
      <4>2. QED
        BY <2>1, <2>5, <3>3, <4>1
    <3>4. QED
      BY <3>1, <3>2, <3>3
  <2>7. QED
    BY <2>2, <2>6 DEF StillInv
<1>3. QED
  BY <1>1, <1>2 DEF Next

(* A run that nothing disturbs reports exactly what is wrong with its files, *)
(* what is Unsaid beside the report of a go.work that is missing or refused  *)
(* excepted, and exits 0 exactly when nothing at all is wrong.               *)
THEOREM UndisturbedIsExact == Spec => []ExactWhenUndisturbed
<1>1. RunInv /\ StillInv => ExactWhenUndisturbed
  <2> SUFFICES ASSUME RunInv, StillInv, exit \in {0, 1}, edits = 0, ReadInFull(gowork)
               PROVE  IF GoEnvFails(gomod, gowork) THEN exit = 1
                      ELSE /\ all = {r \in Reasons : Wrong(r, gomod, gowork)} \ Unsaid(gowork)
                           /\ exit = 0 <=> \A r \in Reasons : ~Wrong(r, gomod, gowork)
    BY DEF ExactWhenUndisturbed
  <2>1. pc = "exited" /\ Read /\ (exit = 0 <=> all = {})
    BY DEF StillInv
  <2>2. CASE GoEnvFails(gomod, gowork)
    BY <2>1, <2>2 DEF StillInv, StillFails
  <2>3. CASE ~GoEnvFails(gomod, gowork)
    <3>1. loaded = gomod /\ gomod # Unreadable /\ all = {r \in Reasons : Said(r, gomod, gowork)}
      BY <2>1, <2>3 DEF StillInv, StillAnswers, Told, Read
    <3>2. all = {r \in Reasons : Wrong(r, gomod, gowork)} \ Unsaid(gowork)
      BY <3>1 DEF Said
    <3>3. ASSUME NEW r \in Reasons, Wrong(r, gomod, gowork) PROVE all # {}
      <4>1. CASE r \in Unsaid(gowork)
        BY <3>1, <4>1, UnsaidIsSaid
      <4>2. CASE r \notin Unsaid(gowork)
        BY <3>2, <3>3, <4>2
      <4>3. QED
        BY <4>1, <4>2
    <3>4. QED
      BY <2>1, <2>3, <3>2, <3>3
  <2>4. QED
    BY <2>2, <2>3
<1>2. Init => RunInv /\ StillInv
  BY RunInitially
<1>3. RunInv /\ StillInv /\ [Next]_vars => RunInv' /\ StillInv'
  BY RunStep, StillStep
<1>4. QED
  BY <1>1, <1>2, <1>3, PTL DEF Spec

-----------------------------------------------------------------------------
(* What stands through a run is reported, each reason by the check that told *)
(* of it, whichever contents that check met.                                 *)
Standing(r) == \A mod \in seenMods, w \in seenWorks : Said(r, mod, w)
StandingInv == Quiet /\ Read => \A r \in Told : Standing(r) => r \in all

LEMMA StandingStays ==
    ASSUME RunTypes, [Next]_vars, NEW r, Standing(r)'
    PROVE  Standing(r)
<1>1. /\ seenMods \subseteq seenMods' /\ seenWorks \subseteq seenWorks'
      /\ UNCHANGED <<setting, toolchain>>
  BY Remembers
<1>2. \A mod, w : Said(r, mod, w)' <=> Said(r, mod, w)
  BY <1>1 DEF Said, Wrong, Unsaid
<1>3. QED
  BY <1>1, <1>2 DEF Standing

(* Each check reports what stands and is its own to tell.                    *)
LEMMA StandingReported ==
    ASSUME RunInv, QuietInv, Quiet, CheckAll \/ RereadGoMod \/ CheckGoWork,
           NEW r \in Told', r \notin Told, Standing(r)
    PROVE  r \in all'
<1>1. /\ Known /\ gomod \in seenMods /\ gowork \in seenWorks /\ Read /\ loaded \in seenMods
      /\ gomod # Unreadable
  <2>1. /\ Known /\ gomod \in seenMods /\ gowork \in seenWorks /\ Read /\ loaded \in seenMods
    BY DEF QuietInv, RunInv, RunTypes, LoadPart, CheckAll, RereadGoMod, CheckGoWork
  <2>2. QED
    BY <2>1 DEF Standing, Said, Wrong
<1>2. Said(r, loaded, gowork) /\ Said(r, gomod, gowork)
  BY <1>1 DEF Standing
<1>3. CASE CheckAll
  <2>1. r \in OfGoMod /\ goWorkPath = PathOf
    BY <1>1, <1>3 DEF CheckAll, Told, Known
  <2>2. CASE r = "suspect"
    <3>1. ASSUME overlay PROVE FALSE
      <4>1. PICK w \in seenWorks : Moved(w)
        BY <3>1 DEF RunInv, OverlayPart
      <4>2. setting = "path"
        BY <3>1 DEF RunInv, OverlayPart
      <4>3. Said(r, loaded, w)
        BY <1>1, <4>1 DEF Standing
      <4>4. QED
        BY <1>1, <2>2, <4>1, <4>2, <4>3, SaidMeans DEF Read
    <3>2. loaded.suspect
      BY <1>1, <1>2, <2>2, SaidMeans DEF Read
    <3>3. QED
      BY <1>3, <2>2, <3>1, <3>2 DEF CheckAll, Report, Because
  <2>3. CASE r = "contradiction"
    <3>1. loaded.contradicts /\ setting # "path"
      BY <1>1, <1>2, <2>3, SaidMeans DEF Read
    <3>2. ~inWorkspace
      BY <3>1 DEF inWorkspace, RunInv, OverlayPart
    <3>3. QED
      BY <1>3, <2>3, <3>1, <3>2 DEF CheckAll, Report, Because
  <2>4. r # "private-not-found"
    BY <1>1, <1>2, SaidMeans DEF Read
  <2>5. QED
    BY <2>1, <2>2, <2>3, <2>4 DEF OfGoMod
<1>4. CASE RereadGoMod
  <2>1. /\ r \in {"go-version-unsatisfiable", "directive-too-old", "unknown-directive"}
        /\ goVersion = "known"
    BY <1>1, <1>4 DEF RereadGoMod, Told, Known, OfRawGoMod
  <2>2. \/ r = "go-version-unsatisfiable" /\ gomod.go = "future"
        \/ r = "directive-too-old" /\ gomod.newVerb
        \/ r = "unknown-directive" /\ gomod.badVerb
    BY <1>1, <1>2, <2>1, SaidMeans
  <2>3. QED
    BY <1>1, <1>4, <2>1, <2>2 DEF RereadGoMod, Report, Because, Unsatisfied
<1>5. CASE CheckGoWork
  <2>1. /\ r \in Reasons \ OfRawGoMod /\ goVersion = "known" /\ goWorkPath = PathOf
    BY <1>1, <1>5 DEF CheckGoWork, Told, Known
  <2>2. \/ r = "go-work-unresolvable" /\ setting = "relative"
        \/ /\ setting = "path"
           /\ \/ r = "go-work-unreadable" /\ gowork = Unreadable
              \/ /\ gowork # Unreadable
                 /\ \/ r = "go-work-distrusted" /\ gowork.distrusted
                    \/ r = "go-work-block-form" /\ gowork.blockForm
                    \/ r = "go-work-directive-too-old" /\ gowork.newVerb
                    \/ r = "go-work-version-unsatisfiable" /\ gowork.go = "future"
    <3>1. \/ r = "go-work-unresolvable" \/ r = "go-work-unreadable" \/ r = "go-work-distrusted"
          \/ r = "go-work-block-form" \/ r = "go-work-directive-too-old"
          \/ r = "go-work-version-unsatisfiable"
      BY <2>1 DEF Reasons, OfRawGoMod, OfGoMod
    <3> DEFINE S(q) == Said(q, gomod, gowork)
    <3>2. /\ S("go-work-unresolvable") <=> setting = "relative"
          /\ S("go-work-unreadable") <=> setting = "path" /\ gowork = Unreadable
          /\ S("go-work-distrusted") <=> setting = "path" /\ gowork # Unreadable /\ gowork.distrusted
          /\ S("go-work-block-form") <=> setting = "path" /\ gowork # Unreadable /\ gowork.blockForm
          /\ S("go-work-directive-too-old") <=> setting = "path" /\ gowork # Unreadable /\ gowork.newVerb
          /\ S("go-work-version-unsatisfiable") <=>
                setting = "path" /\ gowork # Unreadable /\ gowork.go = "future"
      BY <1>1, SaidMeans
    <3>3. S(r)
      BY <1>2
    <3> HIDE DEF S
    <3>4. QED
      BY <3>1, <3>2, <3>3
  <2>3. /\ goWorkPath = "failed" <=> setting = "relative"
        /\ goWorkPath = "path" <=> setting = "path"
    BY <2>1 DEF PathOf, RunInv, RunTypes
  <2>4. setting = "path" /\ gowork # Unreadable => ~gowork.overlong
    BY <1>1 DEF Quiet, ReadInFull
  <2>5. QED
    BY <1>5, <2>1, <2>2, <2>3, <2>4 DEF CheckGoWork, Report, Because, Unsatisfied
<1>6. QED
  BY <1>3, <1>4, <1>5

LEMMA StandingStep ==
    ASSUME RunInv, QuietInv, StandingInv, [Next]_vars
    PROVE  StandingInv'
<1> SUFFICES ASSUME Quiet', Read', NEW r \in Told', Standing(r)'
             PROVE  r \in all'
  BY DEF StandingInv
<1>1. Quiet /\ Standing(r)
  BY Remembers, StandingStays DEF RunInv
<1>2. all \subseteq all'
  BY DEF Next, Step, Edit, Exited, vars, LoadGoMod, ResolveGoWork, ReadOverlay, AskPatterns,
         CheckAll, AskGoVersion, RereadGoMod, CheckGoWork, Output, Report
<1>3. CASE CheckAll \/ RereadGoMod \/ CheckGoWork
  <2>1. Read
    BY <1>3 DEF RunInv, LoadPart, CheckAll, RereadGoMod, CheckGoWork
  <2>2. CASE r \in Told
    BY <1>1, <1>2, <2>1, <2>2 DEF StandingInv
  <2>3. CASE r \notin Told
    BY <1>1, <1>3, <2>3, StandingReported
  <2>4. QED
    BY <2>2, <2>3
<1>4. CASE LoadGoMod
  <2>1. r \notin Told'
    BY <1>4 DEF LoadGoMod, Told, RunInv, LoadPart, Read
  <2>2. QED
    BY <2>1
<1>5. CASE Edit \/ ResolveGoWork \/ ReadOverlay \/ AskPatterns \/ AskGoVersion \/ Output
           \/ Exited \/ UNCHANGED vars
  <2>1. loaded' = loaded /\ Told' = Told
    BY <1>5 DEF Edit, ResolveGoWork, ReadOverlay, AskPatterns, AskGoVersion, Output, Exited, vars,
                Told
  <2>2. QED
    BY <1>1, <1>2, <2>1 DEF StandingInv, Read
<1>6. QED
  BY <1>3, <1>4, <1>5 DEF Next, Step

(* However the files change under a run in which the go command answers and  *)
(* no line is too long, what is wrong with all their contents is reported:   *)
(* every check reads one of them.                                            *)
THEOREM StandingIsReported == Spec => []StandingFlawsReported
<1>1. RunInv /\ StillInv /\ StandingInv => StandingFlawsReported
  <2> SUFFICES ASSUME StillInv, StandingInv, exit \in {0, 1}, Quiet,
                      NEW r \in Reasons, Standing(r)
               PROVE  r \in all
    BY DEF StandingFlawsReported, Quiet, Standing, Said
  <2>1. Read /\ Told = Reasons
    BY DEF StillInv, Told
  <2>2. QED
    BY <2>1 DEF StandingInv
<1>2. Init => RunInv /\ QuietInv /\ StillInv /\ StandingInv
  <2>1. Init => StandingInv
    BY DEF Init, StandingInv, Read
  <2>2. QED
    BY <2>1, RunInitially
<1>3. RunInv /\ QuietInv /\ StillInv /\ StandingInv /\ [Next]_vars
        => RunInv' /\ QuietInv' /\ StillInv' /\ StandingInv'
  BY RunStep, QuietStep, StillStep, StandingStep
<1>4. QED
  BY <1>1, <1>2, <1>3, PTL DEF Spec
=============================================================================
