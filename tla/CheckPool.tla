------------------------------ MODULE CheckPool ------------------------------
(* CheckAll (src/check.go): one goroutine per resolved target, at most       *)
(* checkConcurrency at a time behind the buffered channel `sem`, a WaitGroup *)
(* as the barrier, a slot per target in the shared slice `results`, and then *)
(* the main goroutine alone, gathering the slots in go.mod order and running *)
(* the whole-file checks one after the other.                                *)
EXTENDS Naturals, Sequences, FiniteSets

CONSTANTS
    Targets,      \* len(resolved)
    Extra,        \* the whole-file checks appended after the targets
    Capacity,     \* checkConcurrency, 16 in the code
    Findings,     \* what an audit can find (abstracted to a set of findings)
    Suppressed    \* per section, the findings suppressForkOfDeclaredPopular drops there

Sections == 1..(Targets + Extra)
Workers == 1..Targets

ASSUME PoolAssumption ==
    /\ Targets \in Nat
    /\ Extra \in Nat
    /\ Capacity \in Nat \ {0}
    /\ Suppressed \in [Sections -> SUBSET Findings]

(* suppressForkOfDeclaredPopular(fs, replacedFrom[s], declared) *)
Kept(s, found) == found \ Suppressed[s]

VARIABLES
    main,         \* where the main goroutine is in CheckAll
    index,        \* its loop variable: the next target to dispatch, or section to gather
    sem,          \* how many tokens the channel holds
    wg,           \* the WaitGroup's counter
    worker,       \* where each goroutine is
    answer,       \* what each check returned, still in the checker's own frame
    results,      \* the shared slice; its zero value, nil, reads as "nothing found"
    report        \* `all`: what has been appended so far

vars == <<main, index, sem, wg, worker, answer, results, report>>
poolVars == <<sem, wg, worker, results>>

Init ==
    /\ main = "add"
    /\ index = 1
    /\ sem = 0
    /\ wg = 0
    /\ worker = [w \in Workers |-> "unborn"]
    /\ answer = [s \in Sections |-> {}]
    /\ results = [w \in Workers |-> {}]
    /\ report = <<>>

-----------------------------------------------------------------------------
(* The main goroutine. *)

\* a wrong Add: it counts the goroutine down instead of up
AddInverted ==
    /\ main = "add" /\ index <= Targets
    /\ wg' = wg - 1
    /\ main' = "acquire"
    /\ UNCHANGED <<index, sem, worker, answer, results, report>>

\* wg.Add(1)
Add ==
    /\ main = "add" /\ index <= Targets
    /\ wg' = wg + 1
    /\ main' = "acquire"
    /\ UNCHANGED <<index, sem, worker, answer, results, report>>

\* a wrong Acquire: the channel has no capacity to run out of
AcquireUnbounded ==
    /\ main = "acquire"
    /\ sem' = sem + 1
    /\ main' = "spawn"
    /\ UNCHANGED <<index, wg, worker, answer, results, report>>

\* sem <- struct{}{}: blocks while the channel is full
Acquire ==
    /\ main = "acquire"
    /\ sem < Capacity
    /\ sem' = sem + 1
    /\ main' = "spawn"
    /\ UNCHANGED <<index, wg, worker, answer, results, report>>

\* go func(i int, r Requirement) { ... }(i, r)
Spawn ==
    /\ main = "spawn"
    /\ worker' = [worker EXCEPT ![index] = "checking"]
    /\ index' = index + 1
    /\ main' = "add"
    /\ UNCHANGED <<sem, wg, answer, results, report>>

\* the loop over resolved ends, wg.Wait() begins
Dispatched ==
    /\ main = "add" /\ index > Targets
    /\ main' = "wait"
    /\ UNCHANGED <<index, poolVars, answer, report>>

\* a wrong Wait: it does not wait
WaitSkipped ==
    /\ main = "wait"
    /\ main' = "gather"
    /\ index' = 1
    /\ UNCHANGED <<poolVars, answer, report>>

\* wg.Wait() returns
Wait ==
    /\ main = "wait"
    /\ wg = 0
    /\ main' = "gather"
    /\ index' = 1
    /\ UNCHANGED <<poolVars, answer, report>>

\* a wrong Gather: it suppresses nothing
GatherUnsuppressed ==
    /\ main = "gather" /\ index <= Targets
    /\ report' = Append(report, results[index])
    /\ index' = index + 1
    /\ UNCHANGED <<main, poolVars, answer>>

\* all = append(all, suppressForkOfDeclaredPopular(results[i], ...)...)
Gather ==
    /\ main = "gather" /\ index <= Targets
    /\ report' = Append(report, Kept(index, results[index]))
    /\ index' = index + 1
    /\ UNCHANGED <<main, poolVars, answer>>

Gathered ==
    /\ main = "gather" /\ index > Targets
    /\ main' = "tail"
    /\ UNCHANGED <<index, poolVars, answer, report>>

\* one whole-file check runs, on the main goroutine: CheckTools, then
\* checkExcludedRequirements, ..., then checkDuplicateGodebug
TailCheck ==
    /\ main = "tail" /\ index \in Sections
    /\ \E fs \in SUBSET Findings : answer' = [answer EXCEPT ![index] = fs]
    /\ main' = "append"
    /\ UNCHANGED <<index, poolVars, report>>

\* and its findings are appended
TailAppend ==
    /\ main = "append"
    /\ report' = Append(report, Kept(index, answer[index]))
    /\ index' = index + 1
    /\ main' = "tail"
    /\ UNCHANGED <<poolVars, answer>>

Return ==
    /\ main = "tail" /\ index \notin Sections
    /\ main' = "returned"
    /\ UNCHANGED <<index, poolVars, answer, report>>

-----------------------------------------------------------------------------
(* Worker w.  The deferred calls run last-in first-out: the receive from sem *)
(* first, then wg.Done.                                                      *)

\* CheckRequirement(r, proxy) returns, with whatever the proxy made it find
Check(w) ==
    /\ worker[w] = "checking"
    /\ \E fs \in SUBSET Findings : answer' = [answer EXCEPT ![w] = fs]
    /\ worker' = [worker EXCEPT ![w] = "checked"]
    /\ UNCHANGED <<main, index, sem, wg, results, report>>

\* a wrong Store: the goroutine captures the loop variable, not its value
StoreAtLoopVariable(w) ==
    /\ worker[w] = "checked"
    /\ results' = [results EXCEPT ![IF index \in Workers THEN index ELSE Targets] = answer[w]]
    /\ worker' = [worker EXCEPT ![w] = "stored"]
    /\ UNCHANGED <<main, index, sem, wg, answer, report>>

\* results[i] = ...
Store(w) ==
    /\ worker[w] = "checked"
    /\ results' = [results EXCEPT ![w] = answer[w]]
    /\ worker' = [worker EXCEPT ![w] = "stored"]
    /\ UNCHANGED <<main, index, sem, wg, answer, report>>

\* a wrong Release: a check that finds nothing returns before it
ReleaseUnlessClean(w) ==
    /\ worker[w] = "stored"
    /\ sem' = IF answer[w] = {} THEN sem ELSE sem - 1
    /\ worker' = [worker EXCEPT ![w] = "released"]
    /\ UNCHANGED <<main, index, wg, answer, results, report>>

\* <-sem
Release(w) ==
    /\ worker[w] = "stored"
    /\ sem' = sem - 1
    /\ worker' = [worker EXCEPT ![w] = "released"]
    /\ UNCHANGED <<main, index, wg, answer, results, report>>

\* a wrong Done: a check that finds nothing returns before it
DoneUnlessClean(w) ==
    /\ worker[w] = "released"
    /\ wg' = IF answer[w] = {} THEN wg ELSE wg - 1
    /\ worker' = [worker EXCEPT ![w] = "exited"]
    /\ UNCHANGED <<main, index, sem, answer, results, report>>

\* wg.Done()
Done(w) ==
    /\ worker[w] = "released"
    /\ wg' = wg - 1
    /\ worker' = [worker EXCEPT ![w] = "exited"]
    /\ UNCHANGED <<main, index, sem, answer, results, report>>

-----------------------------------------------------------------------------
MainStep ==
    \/ Add \/ Acquire \/ Spawn \/ Dispatched \/ Wait
    \/ Gather \/ Gathered \/ TailCheck \/ TailAppend \/ Return

WorkerStep(w) == Check(w) \/ Store(w) \/ Release(w) \/ Done(w)

\* CheckAll has returned: nothing is left to do
Finished == main = "returned" /\ UNCHANGED vars

Next == MainStep \/ (\E w \in Workers : WorkerStep(w)) \/ Finished

Spec == Init /\ [][Next]_vars

(* The Go scheduler runs every runnable goroutine again and again, and every *)
(* check ends: it makes boundedly many requests, each under the client's     *)
(* ten-second timeout (NewProxyClient).                                      *)
Fairness == WF_vars(MainStep) /\ \A w \in Workers : WF_vars(WorkerStep(w))

FairSpec == Spec /\ Fairness

-----------------------------------------------------------------------------
(* Properties. *)

TypeOK ==
    /\ main \in {"add", "acquire", "spawn", "wait", "gather", "tail", "append", "returned"}
    /\ index \in 1..(Targets + Extra + 1)
    /\ sem \in Nat
    /\ wg \in Nat
    /\ worker \in [Workers -> {"unborn", "checking", "checked", "stored", "released", "exited"}]
    /\ answer \in [Sections -> SUBSET Findings]
    /\ results \in [Workers -> SUBSET Findings]
    /\ report \in Seq(SUBSET Findings)

(* The checks under way, each of them holding at most one proxy request.     *)
InFlight == {w \in Workers : worker[w] \in {"checking", "checked", "stored"}}

(* checkConcurrency's promise: however the goroutines are scheduled, at most *)
(* Capacity checks talk to the proxy at once, and none of them while the     *)
(* main goroutine runs the whole-file checks, CheckTools' requests included. *)
BoundedInFlight ==
    /\ Cardinality(InFlight) <= Capacity
    /\ main \in {"gather", "tail", "append", "returned"} => InFlight = {}

(* The barrier: results is never read before the goroutine that owns the     *)
(* slot wrote it.  A slot read early is nil, which would report a module     *)
(* that was never checked as clean.                                          *)
NoSlotReadEarly ==
    main \in {"gather", "tail", "append", "returned"} =>
        \A w \in Workers : worker[w] = "exited" /\ results[w] = answer[w]

(* "Findings are returned in the same order as reqs regardless of which      *)
(* goroutine finishes first": section s of the report is what the audit of   *)
(* target s returned, whatever the interleaving.                             *)
ReportInOrder ==
    \A s \in 1..Len(report) : s \in Sections /\ report[s] = Kept(s, answer[s])

(* Once CheckAll has returned, no goroutine of it is left and the report has *)
(* every section.                                                            *)
NothingLeftBehind ==
    main = "returned" =>
        /\ Len(report) = Targets + Extra
        /\ sem = 0 /\ wg = 0

(* Every run of CheckAll returns: the dispatcher blocked on a full channel   *)
(* and the barrier are always released again.                                *)
AlwaysReturns == <>(main = "returned")

-----------------------------------------------------------------------------
(* The inductive invariant, one named part per idea.                         *)

Dispatching == main \in {"add", "acquire", "spawn"}
Gathering == main \in {"gather", "tail", "append", "returned"}

(* Goroutines not yet counted down from the WaitGroup.                       *)
Unfinished == {w \in Workers : worker[w] \in {"checking", "checked", "stored", "released"}}

Position ==
    /\ main \in {"add", "wait", "gather"} => index <= Targets + 1
    /\ main \in {"acquire", "spawn"} => index <= Targets
    /\ main \in {"tail", "append", "returned"} => index > Targets
    /\ main = "append" => index \in Sections
    /\ main = "returned" => index = Targets + Extra + 1

Born == \A w \in Workers : worker[w] = "unborn" <=> Dispatching /\ w >= index

Tokens ==
    /\ sem = Cardinality(InFlight) + (IF main = "spawn" THEN 1 ELSE 0)
    /\ sem <= Capacity

Count == wg = Cardinality(Unfinished) + (IF main \in {"acquire", "spawn"} THEN 1 ELSE 0)

Barrier == Gathering => \A w \in Workers : worker[w] = "exited"

Slots ==
    \A w \in Workers :
        results[w] = IF worker[w] \in {"stored", "released", "exited"} THEN answer[w] ELSE {}

Progress == Len(report) = IF Gathering THEN index - 1 ELSE 0

PoolInv ==
    /\ TypeOK /\ Position /\ Born /\ Tokens /\ Count /\ Barrier /\ Slots
    /\ Progress /\ ReportInOrder

-----------------------------------------------------------------------------
(* 1 while the main goroutine holds a whole-file check's findings.           *)
Appending == IF main = "append" THEN 1 ELSE 0

(* A target counts as audited once its goroutine has written its slot, a     *)
(* whole-file check once it has returned.                                    *)
Scan == INSTANCE SequentialScan WITH
    audited <- {w \in Workers : worker[w] \in {"stored", "released", "exited"}}
               \cup {s \in Sections : s > Targets /\ s < index + Appending},
    found <- [s \in Sections |-> IF s \in Workers THEN results[s] ELSE answer[s]]

(* CheckAll implements the sequential scan: to its caller the goroutines,    *)
(* the channel and the shared slice are invisible.                           *)
ImplementsScan == Scan!Spec

(* And it implements the scan's fairness: no section is left unaudited or    *)
(* unpublished for ever.                                                     *)
ImplementsFairScan == Scan!FairSpec
=============================================================================
