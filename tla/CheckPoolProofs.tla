--------------------------- MODULE CheckPoolProofs ---------------------------
(* Proofs about CheckPool for every number of targets and whole-file checks, *)
(* every channel capacity and every set of findings.                         *)
EXTENDS CheckPool, FiniteSetTheorems, TLAPS

USE DEF Workers, Sections

-----------------------------------------------------------------------------
(* Facts about the two sets the counters count.                              *)

LEMMA CountedFinite ==
    ASSUME PoolAssumption
    PROVE  /\ IsFiniteSet(InFlight) /\ Cardinality(InFlight) \in Nat
           /\ IsFiniteSet(Unfinished) /\ Cardinality(Unfinished) \in Nat
           /\ IsFiniteSet(InFlight)' /\ IsFiniteSet(Unfinished)'
<1>1. IsFiniteSet(1..Targets)
  BY FS_Interval DEF PoolAssumption
<1>2. InFlight \in SUBSET (1..Targets) /\ Unfinished \in SUBSET (1..Targets)
  BY DEF InFlight, Unfinished
<1>3. InFlight' \in SUBSET (1..Targets) /\ Unfinished' \in SUBSET (1..Targets)
  BY DEF InFlight, Unfinished
<1> QED
  BY <1>1, <1>2, <1>3, FS_Subset, FS_CardinalityType

(* A goroutine that joins or leaves a set moves its cardinality by one.      *)
LEMMA Joins ==
    ASSUME NEW S, NEW T, NEW w, IsFiniteSet(S), w \notin S, T = S \cup {w}
    PROVE  Cardinality(T) = Cardinality(S) + 1
BY FS_AddElement

LEMMA Leaves ==
    ASSUME NEW S, NEW T, NEW w, IsFiniteSet(S), w \in S, T = S \ {w}
    PROVE  Cardinality(T) = Cardinality(S) - 1
BY FS_RemoveElement

-----------------------------------------------------------------------------
LEMMA InitInv == ASSUME PoolAssumption, Init PROVE PoolInv
<1>1. InFlight = {} /\ Unfinished = {}
  BY DEF Init, InFlight, Unfinished
<1>2. Cardinality({}) = 0
  BY FS_EmptySet
<1>3. TypeOK
  BY DEF Init, TypeOK, PoolAssumption
<1>4. Tokens /\ Count
  BY <1>1, <1>2 DEF Init, Tokens, Count, PoolAssumption
<1>5. Position /\ Born /\ Barrier /\ Slots /\ Progress /\ ReportInOrder
  BY DEF Init, Position, Born, Barrier, Slots, Progress, ReportInOrder, Dispatching, Gathering,
         PoolAssumption
<1> QED
  BY <1>3, <1>4, <1>5 DEF PoolInv

(* What a step of the main goroutine that leaves the workers alone preserves *)
(* without looking at which step it is.                                      *)
LEMMA SetsKept ==
    ASSUME UNCHANGED worker
    PROVE  InFlight' = InFlight /\ Unfinished' = Unfinished
BY DEF InFlight, Unfinished

LEMMA MainInv == ASSUME PoolAssumption, PoolInv, MainStep PROVE PoolInv'
<1> USE DEF PoolInv, TypeOK, Position, Born, Tokens, Count, Barrier, Slots, Progress,
            ReportInOrder, Dispatching, Gathering, PoolAssumption, poolVars
<1>0. /\ Cardinality(InFlight) \in Nat /\ Cardinality(Unfinished) \in Nat
      /\ IsFiniteSet(InFlight) /\ IsFiniteSet(Unfinished)
  BY CountedFinite
<1>1. CASE Add
  BY <1>1, <1>0, SetsKept DEF Add
<1>2. CASE Acquire
  BY <1>2, <1>0, SetsKept DEF Acquire
<1>3. CASE Spawn
  <2>1. index \in Workers /\ index \notin InFlight /\ index \notin Unfinished
    BY <1>3 DEF Spawn, InFlight, Unfinished
  <2>2. InFlight' = InFlight \cup {index} /\ Unfinished' = Unfinished \cup {index}
    BY <1>3, <2>1 DEF Spawn, InFlight, Unfinished
  <2>3. /\ Cardinality(InFlight') = Cardinality(InFlight) + 1
        /\ Cardinality(Unfinished') = Cardinality(Unfinished) + 1
    BY <1>0, <2>1, <2>2, Joins
  <2>4. Tokens' /\ Count'
    BY <1>3, <1>0, <2>3 DEF Spawn
  <2>5. TypeOK'
    BY <1>3 DEF Spawn
  <2>6. Position' /\ Born' /\ Barrier' /\ Slots' /\ Progress' /\ ReportInOrder'
    BY <1>3 DEF Spawn
  <2> QED
    BY <2>4, <2>5, <2>6
<1>4. CASE Dispatched
  BY <1>4, <1>0, SetsKept DEF Dispatched
<1>5. CASE Wait
  <2>1. Unfinished = {}
    BY <1>5, <1>0, FS_EmptySet DEF Wait
  <2>2. \A w \in Workers : worker[w] = "exited"
    BY <1>5, <2>1 DEF Wait, Unfinished
  <2>3. Tokens' /\ Count'
    BY <1>5, <1>0, SetsKept DEF Wait
  <2> QED
    BY <1>5, <2>2, <2>3 DEF Wait
<1>6. CASE Gather
  <2>1. index \in Workers /\ Len(report) = index - 1 /\ results[index] = answer[index]
    BY <1>6 DEF Gather
  <2>2. Kept(index, results[index]) \in SUBSET Findings
    BY <2>1 DEF Kept
  <2>3. TypeOK'
    BY <1>6, <2>1, <2>2 DEF Gather
  <2>4. Progress' /\ ReportInOrder'
    BY <1>6, <2>1, <2>2 DEF Gather
  <2>5. Tokens' /\ Count'
    BY <1>6, <1>0, SetsKept DEF Gather
  <2> QED
    BY <1>6, <2>3, <2>4, <2>5 DEF Gather
<1>7. CASE Gathered
  BY <1>7, <1>0, SetsKept DEF Gathered
<1>8. CASE TailCheck
  <2>1. TypeOK'
    BY <1>8 DEF TailCheck
  <2>2. \A s \in 1..Len(report) : answer'[s] = answer[s]
    BY <1>8 DEF TailCheck
  <2>3. \A w \in Workers : answer'[w] = answer[w]
    BY <1>8 DEF TailCheck
  <2>4. Tokens' /\ Count'
    BY <1>8, <1>0, SetsKept DEF TailCheck
  <2>5. ReportInOrder'
    BY <1>8, <2>2 DEF TailCheck, Kept
  <2> QED
    BY <1>8, <2>1, <2>3, <2>4, <2>5 DEF TailCheck
<1>9. CASE TailAppend
  <2>1. index \in Sections /\ Len(report) = index - 1
    BY <1>9 DEF TailAppend
  <2>2. Kept(index, answer[index]) \in SUBSET Findings
    BY <2>1 DEF Kept
  <2>3. TypeOK'
    BY <1>9, <2>1, <2>2 DEF TailAppend
  <2>4. Progress' /\ ReportInOrder'
    BY <1>9, <2>1, <2>2 DEF TailAppend
  <2>5. Tokens' /\ Count'
    BY <1>9, <1>0, SetsKept DEF TailAppend
  <2> QED
    BY <1>9, <2>1, <2>3, <2>4, <2>5 DEF TailAppend
<1>10. CASE Return
  BY <1>10, <1>0, SetsKept DEF Return
<1> QED
  BY <1>1, <1>2, <1>3, <1>4, <1>5, <1>6, <1>7, <1>8, <1>9, <1>10 DEF MainStep

LEMMA WorkerInv ==
    ASSUME PoolAssumption, PoolInv, NEW w \in Workers, WorkerStep(w)
    PROVE  PoolInv'
<1> USE DEF PoolInv, TypeOK, Position, Born, Tokens, Count, Barrier, Slots, Progress,
            ReportInOrder, Dispatching, Gathering, PoolAssumption
<1>0. /\ Cardinality(InFlight) \in Nat /\ Cardinality(Unfinished) \in Nat
      /\ IsFiniteSet(InFlight) /\ IsFiniteSet(Unfinished)
  BY CountedFinite
(* A worker that can step has not exited: nothing has been gathered yet. *)
<1>1. ~Gathering /\ report = <<>>
  BY DEF WorkerStep, Check, Store, Release, Done
<1>2. CASE Check(w)
  <2>1. InFlight' = InFlight /\ Unfinished' = Unfinished
    BY <1>2 DEF Check, InFlight, Unfinished
  <2> QED
    BY <1>0, <1>1, <1>2, <2>1 DEF Check
<1>3. CASE Store(w)
  <2>1. InFlight' = InFlight /\ Unfinished' = Unfinished
    BY <1>3 DEF Store, InFlight, Unfinished
  <2>a. w \in Sections /\ answer[w] \in SUBSET Findings
    OBVIOUS
  <2>b. TypeOK'
    BY <1>3, <2>a DEF Store
  <2>c. Slots'
    BY <1>3, <2>a DEF Store
  <2>2. TypeOK' /\ Slots'
    BY <2>b, <2>c
  <2>3. Tokens' /\ Count'
    BY <1>0, <1>3, <2>1 DEF Store
  <2>4. Position' /\ Born' /\ Barrier' /\ Progress' /\ ReportInOrder'
    BY <1>1, <1>3 DEF Store
  <2> QED
    BY <2>2, <2>3, <2>4
<1>4. CASE Release(w)
  <2>1. /\ w \in InFlight /\ InFlight' = InFlight \ {w}
        /\ Unfinished' = Unfinished
    BY <1>4 DEF Release, InFlight, Unfinished
  <2>2. Cardinality(InFlight') = Cardinality(InFlight) - 1
    BY <1>0, <2>1, Leaves
  <2>3. Cardinality(InFlight') \in Nat
    BY <1>0, <2>1, FS_RemoveElement, FS_CardinalityType
  <2>a. Tokens' /\ sem' \in Nat
    BY <1>0, <1>1, <1>4, <2>2, <2>3 DEF Release
  <2>b. Count'
    BY <1>1, <1>4, <2>1 DEF Release
  <2>4. Tokens' /\ Count' /\ sem' \in Nat
    BY <2>a, <2>b
  <2>5. TypeOK' /\ Slots'
    BY <1>4, <2>4 DEF Release
  <2>6. Position' /\ Born' /\ Barrier' /\ Progress' /\ ReportInOrder'
    BY <1>1, <1>4 DEF Release
  <2> QED
    BY <2>4, <2>5, <2>6
<1>5. CASE Done(w)
  <2>1. /\ w \in Unfinished /\ Unfinished' = Unfinished \ {w}
        /\ InFlight' = InFlight
    BY <1>5 DEF Done, InFlight, Unfinished
  <2>2. Cardinality(Unfinished') = Cardinality(Unfinished) - 1
    BY <1>0, <2>1, Leaves
  <2>3. Cardinality(Unfinished') \in Nat
    BY <1>0, <2>1, FS_RemoveElement, FS_CardinalityType
  <2>a. Count' /\ wg' \in Nat
    BY <1>0, <1>1, <1>5, <2>2, <2>3 DEF Done
  <2>b. Tokens'
    BY <1>1, <1>5, <2>1 DEF Done
  <2>4. Tokens' /\ Count' /\ wg' \in Nat
    BY <2>a, <2>b
  <2>5. TypeOK' /\ Slots'
    BY <1>5, <2>4 DEF Done
  <2>6. Position' /\ Born' /\ Barrier' /\ Progress' /\ ReportInOrder'
    BY <1>1, <1>5 DEF Done
  <2> QED
    BY <2>4, <2>5, <2>6
<1> QED
  BY <1>2, <1>3, <1>4, <1>5 DEF WorkerStep

LEMMA StutterInv == ASSUME PoolInv, UNCHANGED vars PROVE PoolInv'
BY DEF vars, PoolInv, TypeOK, Position, Born, Tokens, Count, Barrier, Slots, Progress,
       ReportInOrder, Dispatching, Gathering, InFlight, Unfinished, Kept

(* The inductive invariant holds in every behaviour of the pool: the token   *)
(* and WaitGroup counters agree with the goroutines they count, the barrier  *)
(* holds, and the report is a prefix of the answers in go.mod order.         *)
THEOREM PoolInvariant == ASSUME PoolAssumption PROVE Spec => []PoolInv
<1>1. Init => PoolInv
  BY InitInv
<1>2. PoolInv /\ [Next]_vars => PoolInv'
  BY MainInv, WorkerInv, StutterInv DEF Next, Finished
<1> QED
  BY <1>1, <1>2, PTL DEF Spec

-----------------------------------------------------------------------------
(* Every variable of the pool keeps its type; in particular neither the      *)
(* channel's occupancy nor the WaitGroup's counter ever goes negative, which *)
(* for the latter would panic.                                               *)
THEOREM TypeCorrect == ASSUME PoolAssumption PROVE Spec => []TypeOK
<1>1. PoolInv => TypeOK
  BY DEF PoolInv
<1> QED
  BY <1>1, PoolInvariant, PTL

(* checkConcurrency bounds the checks under way, for every capacity.         *)
THEOREM CapacityHolds == ASSUME PoolAssumption PROVE Spec => []BoundedInFlight
<1>1. PoolInv => BoundedInFlight
  <2> SUFFICES ASSUME PoolInv PROVE BoundedInFlight
    OBVIOUS
  <2>1. Cardinality(InFlight) <= Capacity
    BY CountedFinite DEF PoolInv, Tokens, TypeOK, PoolAssumption
  <2>2. Gathering => InFlight = {}
    BY DEF PoolInv, Barrier, InFlight
  <2> QED
    BY <2>1, <2>2 DEF BoundedInFlight, Gathering
<1> QED
  BY <1>1, PoolInvariant, PTL

(* No slot is read before its goroutine wrote it: an unchecked module is     *)
(* never reported as clean.                                                  *)
THEOREM BarrierHolds == ASSUME PoolAssumption PROVE Spec => []NoSlotReadEarly
<1>1. PoolInv => NoSlotReadEarly
  BY DEF PoolInv, Barrier, Slots, NoSlotReadEarly, Gathering
<1> QED
  BY <1>1, PoolInvariant, PTL

(* The report follows go.mod order whichever goroutine finishes first.       *)
THEOREM OrderHolds == ASSUME PoolAssumption PROVE Spec => []ReportInOrder
<1>1. PoolInv => ReportInOrder
  BY DEF PoolInv
<1> QED
  BY <1>1, PoolInvariant, PTL

(* When CheckAll returns no goroutine is left, no token and no count either, *)
(* and the report is complete.                                               *)
THEOREM LeavesNothing == ASSUME PoolAssumption PROVE Spec => []NothingLeftBehind
<1>1. PoolInv => NothingLeftBehind
  <2> SUFFICES ASSUME PoolInv, main = "returned" PROVE NothingLeftBehind
    BY DEF NothingLeftBehind
  <2>1. InFlight = {} /\ Unfinished = {}
    BY DEF PoolInv, Barrier, Gathering, InFlight, Unfinished
  <2>2. Cardinality(InFlight) = 0 /\ Cardinality(Unfinished) = 0
    BY <2>1, FS_EmptySet
  <2>3. sem = 0 /\ wg = 0
    BY <2>2 DEF PoolInv, Tokens, Count
  <2>4. Len(report) = Targets + Extra
    BY DEF PoolInv, Position, Progress, Gathering, PoolAssumption
  <2> QED
    BY <2>3, <2>4 DEF NothingLeftBehind
<1> QED
  BY <1>1, PoolInvariant, PTL

-----------------------------------------------------------------------------
(* The refinement.                                                           *)

(* The scan's audited and found, read off the pool's state.                  *)
Audited ==
    {w \in Workers : worker[w] \in {"stored", "released", "exited"}}
    \cup {s \in Sections : s > Targets /\ s < index + Appending}
Found == [s \in Sections |-> IF s \in Workers THEN results[s] ELSE answer[s]]

LEMMA ScanInit == ASSUME PoolAssumption, Init PROVE Scan!Init
<1>1. Audited = {} /\ Found = [s \in Sections |-> {}]
  BY DEF Init, Audited, Found, Appending, PoolAssumption
<1> QED
  BY <1>1 DEF Scan!Init, Scan!Sections, Audited, Found, Init

LEMMA ScanStutter ==
    ASSUME UNCHANGED <<Audited, Found, report>>
    PROVE  UNCHANGED Scan!scanVars
BY DEF Scan!scanVars, Audited, Found

(* Storing a result is the audit of that target.                             *)
LEMMA StoreAudits ==
    ASSUME PoolAssumption, PoolInv, NEW w \in Workers, Store(w)
    PROVE  Scan!Audit(w)
<1>1. w \notin Audited /\ w \in Sections /\ ~(w > Targets)
  BY DEF Store, Audited, PoolAssumption
<1>2. answer[w] \in SUBSET Findings
  BY DEF PoolInv, TypeOK, PoolAssumption
<1>3. Audited' = Audited \cup {w}
  BY DEF Store, Audited, Appending, PoolInv, TypeOK, PoolAssumption
<1>4. Found' = [Found EXCEPT ![w] = answer[w]]
  BY DEF Store, Found, PoolInv, TypeOK, PoolAssumption
<1> QED
  BY <1>1, <1>2, <1>3, <1>4 DEF Scan!Audit, Audited, Found, Store

(* A whole-file check that returns is the audit of its section.              *)
LEMMA TailCheckAudits ==
    ASSUME PoolAssumption, PoolInv, TailCheck
    PROVE  \E s \in Scan!Sections : Scan!Audit(s)
<1> USE DEF PoolInv, TypeOK, Position, PoolAssumption
<1>1. index \notin Audited /\ index \in Sections /\ index > Targets
  BY DEF TailCheck, Audited, Appending
<1>2. 1..Targets \subseteq Audited
  BY DEF TailCheck, Audited, Barrier, Gathering
<1>3. Audited' = Audited \cup {index}
  BY <1>1 DEF TailCheck, Audited, Appending, poolVars
<1>4. PICK fs \in SUBSET Findings : answer' = [answer EXCEPT ![index] = fs]
  BY DEF TailCheck
<1>5. Found' = [Found EXCEPT ![index] = fs]
  <2>1. results' = results /\ index \notin Workers
    BY <1>1 DEF TailCheck, poolVars
  <2> QED
    BY <1>1, <1>4, <2>1 DEF Found
<1> QED
  BY <1>1, <1>2, <1>3, <1>4, <1>5
     DEF Scan!Audit, Scan!TargetsAudited, Scan!Sections, Audited, Found, TailCheck

(* Gathering a slot, or appending a whole-file check's findings, publishes   *)
(* the next section.                                                         *)
LEMMA GatherPublishes ==
    ASSUME PoolAssumption, PoolInv, Gather \/ TailAppend
    PROVE  Scan!Publish
<1> USE DEF PoolInv, TypeOK, Position, Progress, PoolAssumption
<1>1. Len(report) + 1 = index /\ index \in Sections
  BY DEF Gather, TailAppend, Gathering
<1>2. 1..Targets \subseteq Audited
  BY DEF Gather, TailAppend, Audited, Barrier, Gathering
<1>3. index \in Audited
  BY <1>1, <1>2 DEF Gather, TailAppend, Audited, Appending
<1>4. report' = Append(report, Kept(index, Found[index]))
  BY <1>1 DEF Gather, TailAppend, Found
<1>5. Audited' = Audited
  BY <1>1 DEF Gather, TailAppend, Audited, Appending, poolVars
<1>6. Found' = Found
  BY DEF Gather, TailAppend, Found, poolVars
<1> QED
  BY <1>1, <1>2, <1>3, <1>4, <1>5, <1>6
     DEF Scan!Publish, Scan!TargetsAudited, Scan!Kept, Kept, Audited, Found

LEMMA OtherStepsStutter ==
    ASSUME PoolAssumption, PoolInv,
           \/ Add \/ Acquire \/ Spawn \/ Dispatched \/ Wait \/ Gathered \/ Return
           \/ \E w \in Workers : Check(w) \/ Release(w) \/ Done(w)
           \/ UNCHANGED vars
    PROVE  UNCHANGED <<Audited, Found, report>>
<1> USE DEF PoolInv, TypeOK, Position, PoolAssumption, Appending, poolVars
<1>1. CASE Add \/ Acquire \/ Dispatched \/ Wait \/ Gathered \/ Return
  BY <1>1 DEF Add, Acquire, Dispatched, Wait, Gathered, Return, Audited, Found
<1>2. CASE Spawn
  BY <1>2 DEF Spawn, Audited, Found, Born, Dispatching
<1>3. ASSUME NEW w \in Workers, Check(w)
      PROVE  UNCHANGED <<Audited, Found, report>>
  BY <1>3 DEF Check, Audited, Found
<1>4. ASSUME NEW w \in Workers, Release(w) \/ Done(w)
      PROVE  UNCHANGED <<Audited, Found, report>>
  BY <1>4 DEF Release, Done, Audited, Found
<1>5. CASE UNCHANGED vars
  BY <1>5 DEF vars, Audited, Found
<1> QED
  BY <1>1, <1>2, <1>3, <1>4, <1>5

(* CheckAll implements the sequential scan, for any number of targets and    *)
(* any capacity of the channel.                                              *)
THEOREM PoolRefinesScan == ASSUME PoolAssumption PROVE Spec => ImplementsScan
<1>1. Init => Scan!Init
  BY ScanInit
<1>2. PoolInv /\ [Next]_vars => [Scan!Next]_(Scan!scanVars)
  <2> SUFFICES ASSUME PoolInv, [Next]_vars
               PROVE  Scan!Next \/ UNCHANGED Scan!scanVars
    OBVIOUS
  <2>1. CASE Gather \/ TailAppend
    BY <2>1, GatherPublishes DEF Scan!Next
  <2>2. CASE TailCheck
    BY <2>2, TailCheckAudits DEF Scan!Next
  <2>3. ASSUME NEW w \in Workers, Store(w)
        PROVE  Scan!Next
    BY <2>3, StoreAudits DEF Scan!Next, Scan!Sections, PoolAssumption
  <2>4. CASE \/ Add \/ Acquire \/ Spawn \/ Dispatched \/ Wait \/ Gathered \/ Return
             \/ \E w \in Workers : Check(w) \/ Release(w) \/ Done(w)
             \/ UNCHANGED vars
    BY <2>4, OtherStepsStutter, ScanStutter
  <2> QED
    BY <2>1, <2>2, <2>3, <2>4 DEF Next, MainStep, WorkerStep, Finished
<1> QED
  BY <1>1, <1>2, PoolInvariant, PTL DEF Spec, ImplementsScan, Scan!Spec

=============================================================================
