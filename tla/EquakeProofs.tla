---------------------------- MODULE EquakeProofs ----------------------------
(***************************************************************************)
(* Proofs about equake on libDTT, for any number of time steps, any ramp,  *)
(* every size of the ring and every build of the library.                  *)
(***************************************************************************)
EXTENDS Equake, LibDTTServiceProofs

(* equake as a program on the library                                      *)

\* 0 is the first offset both loops of memoryCompare look at.
LEMMA FirstOffset == ASSUME NEW n \in Nat \ {0} PROVE 0 \in Offsets(n)
<1>1. CASE n < 4
  <2>1. n \div 4 = 0
    BY <1>1
  <2> QED
    BY <2>1 DEF Offsets
<1>2. CASE n >= 4
  <2>1. n \div 4 >= 1 /\ n \div 4 \in Nat
    BY <1>2
  <2>2. 0 \in 0 .. (n \div 4) - 1 /\ 4 * 0 = 0
    BY <2>1
  <2> QED
    BY <2>2 DEF Offsets
<1> QED
  BY <1>1, <1>2

\* memoryCompare tells any two addresses apart, whatever is stored there.
LEMMA AddressesDiffer ==
  ASSUME NEW lhs \in Nat, NEW rhs \in Nat, lhs # rhs, NEW n \in Nat \ {0}
  PROVE  memoryCompare(lhs, rhs, n) # 0
<1>1. 0 \in Offsets(n) /\ lhs + 0 # rhs + 0
  BY FirstOffset
<1> QED
  BY <1>1 DEF memoryCompare

\* Hence each iteration calls tstore for the state of phi0.
LEMMA StoreTriggers == memoryCompare(time_at, old_at, 8) # 0
BY AddressesDiffer, EquakeAssumption

LEMMA MainCalls ==
  /\ Main \in Program /\ Main \in Callers /\ phi0_skip \in States
  /\ Callers = {Main} \cup Workers /\ Main \notin Workers
BY EquakeAssumption, ThreadsAssumption DEF Callers

\* The kinds of steps of equake.
LEMMA EquakeCases ==
  ASSUME [EquakeNext]_allvars
  PROVE  \/ InitRuntime \/ NextIteration \/ SaveOldValue \/ CallTstore \/ MainInTstore
         \/ AssignTime \/ ComputePhi0 \/ SkipPhi0 \/ FinishLoop \/ CallPhi0
         \/ \E w \in Workers : Phi0DttLoads(w) \/ Phi0DttStores(w) \/ Scan(w)
         \/ UNCHANGED allvars
BY DEF EquakeNext, MainStep, ThreadStep

LEMMA EquakeStep == ASSUME [EquakeNext]_allvars PROVE [Next]_vars
<1>1. CASE InitRuntime
  BY <1>1, MainCalls DEF InitRuntime, Next
<1>2. CASE CallTstore
  BY <1>2, MainCalls DEF CallTstore, Next
<1>3. CASE MainInTstore
  BY <1>3, MainCalls DEF MainInTstore, Next
<1>4. CASE \E w \in Workers : Phi0DttStores(w) \/ Scan(w)
  BY <1>4 DEF Phi0DttStores, Scan, Next, WorkerStep
<1>5. CASE NextIteration \/ SaveOldValue \/ AssignTime \/ SkipPhi0 \/ FinishLoop \/ CallPhi0
           \/ \E w \in Workers : Phi0DttLoads(w)
  BY <1>5 DEF NextIteration, SaveOldValue, AssignTime, SkipPhi0, FinishLoop, CallPhi0,
              Phi0DttLoads
<1>6. CASE ComputePhi0
  BY <1>6 DEF ComputePhi0
<1>7. CASE UNCHANGED allvars
  BY <1>7 DEF allvars
<1> QED
  BY <1>1, <1>2, <1>3, <1>4, <1>5, <1>6, <1>7, EquakeCases

\* equake only uses the runtime as LibDTT allows: what is proved of the
\* library for every program holds while equake runs.
THEOREM EquakeUsesLibDTT == EquakeSpec => Spec
<1>1. EquakeInit => Init
  BY DEF EquakeInit
<1>2. [EquakeNext]_allvars => [Next]_vars
  BY EquakeStep
<1> QED
  BY <1>1, <1>2, PTL DEF EquakeSpec, Spec

-----------------------------------------------------------------------------
(* Types                                                                   *)

LEMMA RampRange == \A v \in Nat : phi0(v) \in 0 .. Ramp + 1
BY EquakeAssumption DEF phi0

LEMMA EquakeTypeInit == EquakeInit => EquakeTypeOK
BY TypeInit, EquakeAssumption DEF EquakeInit, EquakeTypeOK

LEMMA EquakeTypeNext == ASSUME EquakeTypeOK, [EquakeNext]_allvars PROVE EquakeTypeOK'
<1>1. TypeOK'
  BY TypeNext, EquakeStep DEF EquakeTypeOK
<1> USE DEF EquakeTypeOK, MainGoto
<1>2. CASE InitRuntime \/ NextIteration \/ SaveOldValue \/ CallTstore
  BY <1>1, <1>2, EquakeAssumption DEF InitRuntime, NextIteration, SaveOldValue, CallTstore
<1>3. CASE MainInTstore \/ AssignTime \/ FinishLoop
  BY <1>1, <1>3 DEF MainInTstore, AssignTime, FinishLoop, quake
<1>4. CASE CallPhi0 \/ SkipPhi0
  BY <1>1, <1>4 DEF CallPhi0, SkipPhi0
<1>5. CASE ComputePhi0
  BY <1>1, <1>5, RampRange, EquakeAssumption DEF ComputePhi0
<1>6. ASSUME NEW w \in Workers, Phi0DttLoads(w) PROVE EquakeTypeOK'
  BY <1>1, <1>6 DEF Phi0DttLoads
<1>7. ASSUME NEW w \in Workers, Phi0DttStores(w) PROVE EquakeTypeOK'
  <2>1. t[w] \in Nat /\ phi0(t[w]) \in -1 .. Ramp + 1
    BY <1>7, RampRange, EquakeAssumption DEF Phi0DttStores
  <2> QED
    BY <1>1, <1>7, <2>1, EquakeAssumption DEF Phi0DttStores
<1>8. CASE (\E w \in Workers : Scan(w)) \/ UNCHANGED allvars
  BY <1>1, <1>8 DEF Scan, allvars, quake
<1> QED
  BY <1>2, <1>3, <1>4, <1>5, <1>6, <1>7, <1>8, EquakeCases

\* The variables of equake and of the library under it keep their types.
THEOREM EquakeTypeCorrect == EquakeSpec => []EquakeTypeOK
BY EquakeTypeInit, EquakeTypeNext, PTL DEF EquakeSpec

-----------------------------------------------------------------------------
(* How old a result may be                                                 *)

\* Where main is, and what it has posted: nothing sets cancel and no support
\* function calls tstore.
MainFacts ==
  /\ cancel[phi0_skip] = 0
  /\ TriggersEveryIteration
  /\ \A w \in Workers : pc[w] = "ready"
  /\ mpc # "assign" => pc[Main] = "ready"
  /\ pc[Main] # "ready" => event[Main] = issued
  /\ mpc \in {"init", "loop"} => iter = 0
  /\ time = IF mpc \in {"save", "tstore", "assign"} THEN iter - 1 ELSE iter

\* dtt_init is called once.
OneWorker ==
  /\ mpc = "init" => \A w \in Workers : wpc[w] = "none"
  /\ \A v, w \in Workers : wpc[v] # "none" /\ wpc[w] # "none" => v = w

\* No event that has run is more than one iteration ahead of time v.
CoversRun(v) == \A e \in Events : ran[e] > 0 => v >= e - 1

\* A time that was loaded covers the event it was loaded for, too.
Loaded ==
  \A w \in Workers : t[w] # -1 =>
    /\ wpc[w] = "run" /\ t[w] <= time /\ CoversRun(t[w])
    /\ t[w] >= EQ[wnow[w]].event - 1

\* So does the time the result was computed from.
Stored ==
  /\ phi0_result # -1 => \E v \in 0 .. time : phi0_result = phi0(v) /\ CoversRun(v)
  /\ \A w \in Workers :
       wpc[w] \in {"clear", "decrement", "test", "validate"} => phi0_result # -1

\* The result was computed from time k or a later one.
Fresh(k) == \E v \in 0 .. time : v >= k /\ phi0_result = phi0(v)

\* The state was made invalid in this iteration.
Invalidated ==
  \/ mpc = "assign" /\ pc[Main] \notin {"increment", "invalidate"}
  \/ mpc \in {"phi0", "compute", "skip", "next"}

\* A state that is valid since has a result that is fresh, and so will be the
\* one the worker is about to store.
ValidFresh ==
  /\ mpc = "skip" => state[phi0_skip] = 1
  /\ state[phi0_skip] = 1 /\ Invalidated =>
       Fresh(iter - 2) /\ \A w \in Workers : t[w] # -1 => t[w] >= iter - 2

\* A worker that is about to validate may be overtaken by main and its next
\* iteration, but not by two: main has then computed the result itself.
ValidatorFresh ==
  \A w \in Workers : wpc[w] = "validate" =>
    /\ Fresh(iter - 2)
    /\ mpc \in {"loop", "next", "skip"} \/ (state[phi0_skip] = 1 /\ Invalidated) => Fresh(iter - 1)

EInv ==
  /\ EquakeTypeOK /\ MainFacts /\ OneWorker /\ Loaded /\ Stored
  /\ ValidFresh /\ ValidatorFresh /\ StaleByTwo

LibInv == IInv /\ PendingCounts /\ ExactlyOnce

\* A call of main that is under way leaves the workers alone.
LEMMA MainCallEffect ==
  ASSUME IInv, CallStep(Main)
  PROVE  /\ UNCHANGED <<wpc, wnow, cancel, issued, ran, event>>
         /\ \A w \in Workers : pc'[w] = pc[w]
         /\ pc[Main] # "ready" /\ pc'[Main] # "increment"
         /\ pc'[Main] = "invalidate" <=> pc[Main] = "increment"
         /\ pc[Main] = "invalidate" => state'[phi0_skip] = 0
         /\ state'[phi0_skip] \in {state[phi0_skip], 0}
<1> USE MainCalls DEF IInv, TypeOK, CallType, FlagsType, Goto, call, worker, history, ring, flags
<1>1. CASE TstoreDrops(Main)
  BY <1>1 DEF TstoreDrops
<1>2. CASE AtomicIncrement(Main)
  BY <1>2 DEF AtomicIncrement
<1>3. CASE InvalidateState(Main)
  <2>1. entry[Main] = phi0_skip
    BY <1>3, EquakeAssumption DEF InvalidateState, EventFacts, CallsRefer, Posting
  <2> QED
    BY <1>3, <2>1 DEF InvalidateState
<1>4. CASE ReadTail(Main) \/ ProbeFree(Main) \/ ProbeBusyForever(Main) \/ SlotLocked(Main)
  BY <1>4 DEF ReadTail, ProbeFree, ProbeBusyForever, SlotLocked
<1>5. CASE TakeSlot(Main) \/ MarkValid(Main) \/ GiveBack(Main)
  BY <1>5 DEF TakeSlot, MarkValid, GiveBack
<1>6. CASE FillFields(Main) \/ UnlockSlot(Main) \/ StoreTail(Main)
  BY <1>6 DEF FillFields, UnlockSlot, StoreTail
<1> QED
  BY <1>1, <1>2, <1>3, <1>4, <1>5, <1>6 DEF CallStep

\* A step of dtt() itself leaves main alone and sets state to 1 or not.
LEMMA ScanEffect ==
  ASSUME IInv, NEW w \in Workers, ScanStep(w)
  PROVE  /\ UNCHANGED <<pc, cancel, issued, ran, event>>
         /\ \A v \in Workers \ {w} : wpc'[v] = wpc[v]
         /\ wpc[w] # "none" /\ wpc[w] # "run" /\ wpc'[w] # "none" /\ wpc'[w] # "clear"
         /\ wpc'[w] \in {"decrement", "test", "validate"} => wpc[w] \in {"clear", "decrement", "test"}
         /\ wpc'[w] = "validate" => pending[phi0_skip] = 0
         /\ \/ state' = state
            \/ state'[phi0_skip] = 1 /\ wpc[w] = "validate" /\ wpc'[w] = "release"
<1> USE DEF IInv, TypeOK, WorkerType, WorkerGoto, call, history, flags
<1>1. CASE ScanSkip(w) \/ ScanFind(w) \/ GrabEntry(w) \/ EntryLocked(w)
  BY <1>1 DEF ScanSkip, ScanFind, GrabEntry, EntryLocked
<1>2. CASE MarkRunning(w) \/ LockGrabbed(w) \/ ClearEntry(w) \/ AtomicDecrement(w) \/ ReleaseEntry(w)
  BY <1>2 DEF MarkRunning, LockGrabbed, ClearEntry, AtomicDecrement, ReleaseEntry
<1>3. CASE TestPending(w) \/ ValidateState(w)
  <2>1. EQ[wnow[w]].state = phi0_skip
    BY <1>3, EquakeAssumption DEF TestPending, ValidateState, EventFacts, WorkersRefer
  <2> QED
    BY <1>3, <2>1, MainCalls DEF TestPending, ValidateState, FlagsType
<1> QED
  BY <1>1, <1>2, <1>3 DEF ScanStep

\* The entry a worker runs stays its entry, and its event that event.
LEMMA RunEventKept ==
  ASSUME IInv, [Next]_vars, NEW w \in Workers, wpc[w] = "run", wpc'[w] = "run"
  PROVE  wnow'[w] = wnow[w] /\ EQ'[wnow[w]].event = EQ[wnow[w]].event
<1> USE DEF IInv, TypeOK
<1>1. PICK k \in Slots : k = wnow[w]
  BY DEF WorkerType
<1>2. CASE ~Moves
  BY <1>1, <1>2, QuietRing, QuietWorkers DEF SameRing, SameWorkers
<1>3. CASE \/ \E c \in Callers, s \in States : TstoreTriggers(c, s)
           \/ \E c \in Callers : AtomicIncrement(c)
  BY <1>3 DEF TstoreTriggers, AtomicIncrement, ring, worker
<1>4. ASSUME NEW c \in Callers, MarkValid(c)
      PROVE  wnow'[w] = wnow[w] /\ EQ'[wnow[w]].event = EQ[wnow[w]].event
  BY <1>1, <1>4, MarkValidEffect DEF MarkValid, worker
<1>5. ASSUME NEW c \in Callers, FillFields(c)
      PROVE  wnow'[w] = wnow[w] /\ EQ'[wnow[w]].event = EQ[wnow[w]].event
  <2>1. PICK j \in Slots : j = now[c]
    BY DEF CallType
  <2>2. Filled(k)
    BY <1>1, RunsFilled DEF Runs
  <2>3. k # j
    BY <1>5, <2>1, <2>2, FillFieldsEffect DEF EventFacts
  <2> QED
    BY <1>1, <1>5, <2>1, <2>3, FillFieldsEffect DEF EventFacts, FillFields, worker
<1>6. ASSUME NEW v \in Workers, MarkRunning(v)
      PROVE  wnow'[w] = wnow[w] /\ EQ'[wnow[w]].event = EQ[wnow[w]].event
  <2>1. PICK j \in Slots : j = wnow[v]
    BY DEF WorkerType
  <2> QED
    BY <1>1, <1>6, <2>1, MarkRunningEffect DEF MarkRunning
<1>7. ASSUME NEW v \in Workers, ClearEntry(v)
      PROVE  wnow'[w] = wnow[w] /\ EQ'[wnow[w]].event = EQ[wnow[w]].event
  <2>1. PICK j \in Slots : j = wnow[v]
    BY DEF WorkerType
  <2> QED
    BY <1>1, <1>7, <2>1, ClearEntryEffect DEF ClearEntry
<1>8. CASE \E v \in Workers : RunSupportFunction(v) \/ AtomicDecrement(v)
  BY <1>8 DEF RunSupportFunction, AtomicDecrement, ring
<1> QED
  BY <1>2, <1>3, <1>4, <1>5, <1>6, <1>7, <1>8 DEF Moves

LEMMA EInvInit == EquakeInit => EInv
<1> SUFFICES ASSUME EquakeInit PROVE EInv
  OBVIOUS
<1>1. EquakeTypeOK
  BY EquakeTypeInit
<1>2. MainFacts /\ OneWorker
  BY MainCalls DEF EquakeInit, Init, MainFacts, OneWorker, TriggersEveryIteration
<1>3. Loaded /\ Stored /\ ValidFresh /\ ValidatorFresh /\ StaleByTwo
  BY DEF EquakeInit, Init, Loaded, Stored, ValidFresh, ValidatorFresh, Invalidated, StaleByTwo
<1> QED
  BY <1>1, <1>2, <1>3 DEF EInv

\* A result that is fresh stays fresh while it is not stored to.
LEMMA FreshKept ==
  ASSUME phi0_result' = phi0_result, time \in Int, time' \in Int, time <= time',
         NEW k \in Int, NEW j \in Int, j <= k, Fresh(k)
  PROVE  Fresh(j)'
BY DEF Fresh

\* The iteration begins with save and ends with next.
LEMMA NextIterationKeeps == ASSUME EInv, EquakeTypeOK', NextIteration PROVE EInv'
<1>1. /\ UNCHANGED <<vars, time, time__dtt_old_value, phi0_result, returned, t>>
      /\ mpc \in {"loop", "next"} /\ mpc' = "save" /\ iter' = iter + 1 /\ iter \in Nat
  BY DEF NextIteration, MainGoto, EInv, EquakeTypeOK
<1>2. MainFacts' /\ OneWorker'
  BY <1>1 DEF EInv, MainFacts, OneWorker, TriggersEveryIteration, vars
<1>3. Loaded' /\ Stored'
  BY <1>1 DEF EInv, Loaded, Stored, CoversRun, vars
<1>4. ValidFresh' /\ StaleByTwo'
  BY <1>1 DEF ValidFresh, Invalidated, StaleByTwo
<1>5. ASSUME NEW w \in Workers, wpc[w] = "validate" PROVE Fresh(iter - 2)'
  <2>1. Fresh(iter - 1)
    BY <1>1, <1>5 DEF EInv, ValidatorFresh
  <2>2. iter' - 2 = iter - 1
    BY <1>1
  <2> QED
    BY <1>1, <2>1, <2>2 DEF Fresh
<1>6. ValidatorFresh'
  <2>1. ~Invalidated' /\ mpc' \notin {"loop", "next", "skip"} /\ wpc' = wpc
    BY <1>1 DEF Invalidated, vars
  <2>2. \A w \in Workers : wpc'[w] = "validate" => Fresh(iter - 2)'
    BY <1>5, <2>1
  <2> QED
    BY <2>1, <2>2 DEF ValidatorFresh
<1> QED
  BY <1>2, <1>3, <1>4, <1>6 DEF EInv

\* The steps of main between the call of tstore and the end of the loop that
\* read and write neither the result nor the time.
LEMMA MainMoveKeeps ==
  ASSUME EInv, EquakeTypeOK', SaveOldValue \/ CallPhi0 \/ FinishLoop PROVE EInv'
<1>1. /\ UNCHANGED <<vars, iter, time, phi0_result, returned, t>>
      /\ \/ mpc = "save" /\ mpc' = "tstore"
         \/ mpc \in {"phi0", "next"} /\ mpc' = "compute" /\ state[phi0_skip] # 1
         \/ mpc \in {"phi0", "next"} /\ mpc' = "skip" /\ state[phi0_skip] = 1
         \/ mpc = "next" /\ mpc' = "done"
      /\ iter \in Nat
  BY DEF SaveOldValue, CallPhi0, FinishLoop, MainGoto, EInv, EquakeTypeOK
<1>2. MainFacts' /\ OneWorker'
  BY <1>1 DEF EInv, MainFacts, OneWorker, TriggersEveryIteration, vars
<1>3. Loaded' /\ Stored'
  BY <1>1 DEF EInv, Loaded, Stored, CoversRun, vars
<1>4. StaleByTwo'
  BY <1>1 DEF StaleByTwo
<1>5. \A k \in Int : Fresh(k)' <=> Fresh(k)
  BY <1>1 DEF Fresh
<1>6. Invalidated' => Invalidated
  BY <1>1 DEF Invalidated, vars
<1>7. ValidFresh'
  BY <1>1, <1>5, <1>6 DEF EInv, ValidFresh, vars
<1>8. ValidatorFresh'
  BY <1>1, <1>5, <1>6 DEF EInv, ValidatorFresh, Invalidated, vars
<1> QED
  BY <1>2, <1>3, <1>4, <1>7, <1>8 DEF EInv

LEMMA CallTstoreKeeps == ASSUME LibInv, EInv, EquakeTypeOK', CallTstore PROVE EInv'
<1>1. /\ UNCHANGED <<iter, time, phi0_result, returned, t>>
      /\ mpc = "tstore" /\ mpc' = "assign" /\ iter \in Nat
      /\ TstoreTriggers(Main, phi0_skip)
  BY StoreTriggers DEF CallTstore, MainGoto, EInv, EquakeTypeOK, MainFacts, Tstore, TstoreCancelled
<1>2. /\ UNCHANGED <<state, cancel, EQ, wpc, wnow, ran>>
      /\ issued' = issued + 1 /\ event'[Main] = issued + 1 /\ pc'[Main] = "increment"
      /\ \A w \in Workers : pc'[w] = pc[w]
  BY <1>1, MainCalls DEF TstoreTriggers, Goto, ring, flags, worker, EInv, EquakeTypeOK, TypeOK, CallType
<1>3. MainFacts' /\ OneWorker'
  BY <1>1, <1>2 DEF EInv, MainFacts, OneWorker, TriggersEveryIteration
<1>4. Loaded' /\ Stored'
  BY <1>1, <1>2 DEF EInv, Loaded, Stored, CoversRun
<1>5. ValidFresh' /\ StaleByTwo'
  BY <1>1, <1>2 DEF ValidFresh, Invalidated, StaleByTwo
<1>6. ValidatorFresh'
  BY <1>1, <1>2 DEF EInv, ValidatorFresh, Invalidated, Fresh
<1> QED
  BY <1>3, <1>4, <1>5, <1>6 DEF EInv

LEMMA MainInTstoreKeeps == ASSUME LibInv, EInv, EquakeTypeOK', MainInTstore PROVE EInv'
<1>1. CallStep(Main) /\ UNCHANGED quake /\ [Next]_vars
  BY EquakeStep DEF MainInTstore, EquakeNext, MainStep
<1>2. /\ UNCHANGED <<wpc, wnow, cancel, issued, ran, event>>
      /\ \A w \in Workers : pc'[w] = pc[w]
      /\ pc[Main] # "ready" /\ pc'[Main] # "increment"
      /\ pc'[Main] = "invalidate" <=> pc[Main] = "increment"
      /\ pc[Main] = "invalidate" => state'[phi0_skip] = 0
      /\ state'[phi0_skip] \in {state[phi0_skip], 0}
  BY <1>1, MainCallEffect DEF LibInv
<1>3. mpc = "assign" /\ iter \in Nat
  BY <1>2 DEF EInv, MainFacts, EquakeTypeOK
<1>4. MainFacts' /\ OneWorker'
  BY <1>1, <1>2, <1>3 DEF EInv, MainFacts, OneWorker, TriggersEveryIteration, quake
<1>5. Loaded'
  <2>1. ASSUME NEW w \in Workers, wpc[w] = "run"
        PROVE  EQ'[wnow'[w]].event = EQ[wnow[w]].event
    BY <1>1, <1>2, <2>1, RunEventKept DEF LibInv
  <2> QED
    BY <1>1, <1>2, <2>1 DEF EInv, Loaded, CoversRun, quake
<1>6. Stored'
  BY <1>1, <1>2 DEF EInv, Stored, CoversRun, quake
<1>7. \A k \in Int : Fresh(k)' <=> Fresh(k)
  BY <1>1 DEF Fresh, quake
<1>8. state'[phi0_skip] = 1 /\ Invalidated' => state[phi0_skip] = 1 /\ Invalidated
  BY <1>1, <1>2, <1>3 DEF Invalidated, quake
<1>9. ValidFresh' /\ StaleByTwo'
  BY <1>1, <1>3, <1>7, <1>8 DEF EInv, ValidFresh, StaleByTwo, quake
<1>10. ValidatorFresh'
  BY <1>1, <1>2, <1>3, <1>7, <1>8 DEF EInv, ValidatorFresh, quake
<1> QED
  BY <1>4, <1>5, <1>6, <1>9, <1>10 DEF EInv

LEMMA AssignTimeKeeps == ASSUME EInv, EquakeTypeOK', AssignTime PROVE EInv'
<1>1. /\ UNCHANGED <<vars, iter, phi0_result, returned, t>>
      /\ mpc = "assign" /\ mpc' = "phi0" /\ pc[Main] = "ready" /\ time' = iter
      /\ iter \in Nat /\ time = iter - 1 /\ time \in Int
  BY DEF AssignTime, MainGoto, EInv, EquakeTypeOK, MainFacts
<1>2. MainFacts' /\ OneWorker'
  BY <1>1 DEF EInv, MainFacts, OneWorker, TriggersEveryIteration, vars
<1>3. Loaded'
  BY <1>1 DEF EInv, EquakeTypeOK, Loaded, CoversRun, vars
<1>4. Stored'
  BY <1>1 DEF EInv, Stored, CoversRun, vars
<1>5. \A k \in Int : Fresh(k) => Fresh(k)'
  BY <1>1 DEF Fresh
<1>6. Invalidated
  BY <1>1 DEF Invalidated
<1>7. ValidFresh' /\ StaleByTwo'
  BY <1>1, <1>5, <1>6 DEF EInv, ValidFresh, StaleByTwo, vars
<1>8. ValidatorFresh'
  BY <1>1, <1>5, <1>6 DEF EInv, ValidatorFresh, vars
<1> QED
  BY <1>2, <1>3, <1>4, <1>7, <1>8 DEF EInv

\* The present time covers the events that have run, and the one being run.
LEMMA TimeCovers ==
  ASSUME LibInv, EInv, mpc # "init"
  PROVE  CoversRun(time) /\ \A w \in Workers : wpc[w] = "run" => time >= EQ[wnow[w]].event - 1
<1> USE DEF LibInv, IInv, EInv, EquakeTypeOK, TypeOK
<1>1. time >= issued - 1
  BY DEF MainFacts, TriggersEveryIteration
<1>2. \A e \in Events : ran[e] > 0 => e <= issued
  BY DEF EventFacts, NotRunBefore, HistoryType, Events
<1>3. CoversRun(time)
  BY <1>1, <1>2, RingAssumption DEF CoversRun, HistoryType, Events
<1>4. ASSUME NEW w \in Workers, wpc[w] = "run" PROVE time >= EQ[wnow[w]].event - 1
  <2>1. PICK k \in Slots : k = wnow[w]
    BY DEF WorkerType
  <2>2. EQ[k].event \in 1 .. issued
    BY <1>4, <2>1, RunsFilled DEF Runs, EventFacts, EntriesRefer
  <2> QED
    BY <1>1, <2>1, <2>2 DEF HistoryType
<1> QED
  BY <1>3, <1>4

\* main computes the result for the time of its iteration.
LEMMA ComputePhi0Keeps == ASSUME LibInv, EInv, EquakeTypeOK', ComputePhi0 PROVE EInv'
<1>1. /\ UNCHANGED <<vars, iter, time, t>>
      /\ mpc = "compute" /\ mpc' = "next" /\ phi0_result' = phi0(time) /\ returned' = phi0(time)
      /\ iter \in Nat /\ time = iter
  BY DEF ComputePhi0, MainGoto, EInv, EquakeTypeOK, MainFacts
<1>2. MainFacts' /\ OneWorker'
  BY <1>1 DEF EInv, MainFacts, OneWorker, TriggersEveryIteration, vars
<1>3. Loaded'
  BY <1>1 DEF EInv, Loaded, CoversRun, vars
<1>4. Stored'
  <2>1. phi0(time) \in Nat
    BY <1>1, RampRange, EquakeAssumption
  <2>2. CoversRun(time)
    BY <1>1, TimeCovers
  <2>3. CoversRun(time)'
    BY <1>1, <2>2 DEF CoversRun, vars
  <2> QED
    BY <1>1, <2>1, <2>3 DEF Stored
<1>5. \A k \in Int : k <= iter => Fresh(k)'
  BY <1>1 DEF Fresh
<1>6. ValidFresh'
  BY <1>1, <1>5 DEF EInv, ValidFresh, Invalidated, vars
<1>7. ValidatorFresh'
  BY <1>1, <1>5 DEF EInv, ValidatorFresh, vars
<1>8. StaleByTwo'
  BY <1>1 DEF StaleByTwo
<1> QED
  BY <1>2, <1>3, <1>4, <1>6, <1>7, <1>8 DEF EInv

LEMMA SkipPhi0Keeps == ASSUME EInv, EquakeTypeOK', SkipPhi0 PROVE EInv'
<1>1. /\ UNCHANGED <<vars, iter, time, phi0_result, t>>
      /\ mpc = "skip" /\ mpc' = "next" /\ returned' = phi0_result
      /\ iter \in Nat /\ time = iter
  BY DEF SkipPhi0, MainGoto, EInv, EquakeTypeOK, MainFacts
<1>2. MainFacts' /\ OneWorker'
  BY <1>1 DEF EInv, MainFacts, OneWorker, TriggersEveryIteration, vars
<1>3. Loaded' /\ Stored'
  BY <1>1 DEF EInv, Loaded, Stored, CoversRun, vars
<1>4. \A k \in Int : Fresh(k)' <=> Fresh(k)
  BY <1>1 DEF Fresh
<1>5. state[phi0_skip] = 1 /\ Invalidated
  BY <1>1 DEF EInv, ValidFresh, Invalidated
<1>6. ValidFresh'
  BY <1>1, <1>4, <1>5 DEF EInv, ValidFresh, vars
<1>7. ValidatorFresh'
  BY <1>1, <1>4, <1>5 DEF EInv, ValidatorFresh, vars
<1>8. StaleByTwo'
  <2>1. PICK v \in 0 .. time : v >= iter - 2 /\ phi0_result = phi0(v)
    BY <1>1, <1>5 DEF EInv, ValidFresh, Fresh
  <2>2. v \in {iter, iter - 1, iter - 2} \cap Nat
    BY <1>1, <2>1
  <2> QED
    BY <1>1, <2>1, <2>2 DEF StaleByTwo
<1> QED
  BY <1>2, <1>3, <1>6, <1>7, <1>8 DEF EInv

LEMMA InitRuntimeKeeps == ASSUME EInv, EquakeTypeOK', InitRuntime PROVE EInv'
<1>1. (\E w \in Workers : DttInit(Main, w)) \/ UNCHANGED vars
  BY DEF InitRuntime
<1>2. /\ UNCHANGED <<iter, time, phi0_result, returned, t, EQ, state, cancel, pc, event, wnow>>
      /\ UNCHANGED <<issued, ran>>
      /\ mpc = "init" /\ mpc' = "loop"
  BY <1>1 DEF InitRuntime, MainGoto, DttInit, ring, flags, call, history, vars
<1>3. /\ \A v \in Workers : wpc'[v] \in {"scan", "none"}
      /\ \A v, w \in Workers : wpc'[v] # "none" /\ wpc'[w] # "none" => v = w
  <2>1. \A v \in Workers : wpc[v] = "none"
    BY <1>2 DEF EInv, OneWorker
  <2>2. CASE UNCHANGED vars
    BY <2>1, <2>2 DEF vars
  <2>3. ASSUME NEW w \in Workers, DttInit(Main, w)
        PROVE  \A v \in Workers : wpc'[v] = IF v = w THEN "scan" ELSE "none"
    BY <2>1, <2>3 DEF DttInit, EInv, EquakeTypeOK, TypeOK, WorkerType
  <2> QED
    BY <1>1, <2>1, <2>2, <2>3
<1>4. MainFacts' /\ OneWorker'
  BY <1>2, <1>3 DEF EInv, MainFacts, OneWorker, TriggersEveryIteration
<1>5. Loaded' /\ Stored'
  BY <1>2, <1>3 DEF EInv, Loaded, Stored, CoversRun, OneWorker
<1>6. ValidFresh' /\ ValidatorFresh' /\ StaleByTwo'
  BY <1>2, <1>3 DEF ValidFresh, ValidatorFresh, StaleByTwo, Invalidated
<1> QED
  BY <1>4, <1>5, <1>6 DEF EInv

LEMMA Phi0DttLoadsKeeps ==
  ASSUME LibInv, EInv, EquakeTypeOK', NEW w \in Workers, Phi0DttLoads(w) PROVE EInv'
<1>1. /\ UNCHANGED <<vars, mpc, iter, time, phi0_result, returned>>
      /\ wpc[w] = "run" /\ t' = [t EXCEPT ![w] = time]
      /\ iter \in Nat /\ time \in Int /\ t \in [Workers -> Int]
  BY DEF Phi0DttLoads, EInv, EquakeTypeOK
<1>2. MainFacts' /\ OneWorker' /\ Stored' /\ StaleByTwo'
  BY <1>1 DEF EInv, MainFacts, OneWorker, TriggersEveryIteration, Stored, CoversRun, StaleByTwo, vars
<1>3. mpc # "init"
  BY <1>1 DEF EInv, OneWorker
<1>4. CoversRun(time) /\ time >= EQ[wnow[w]].event - 1
  BY <1>1, <1>3, TimeCovers
<1>5. Loaded'
  BY <1>1, <1>4 DEF EInv, Loaded, CoversRun, vars
<1>6. time >= iter - 2
  BY <1>1 DEF EInv, MainFacts
<1>7. \A k \in Int : Fresh(k)' <=> Fresh(k)
  BY <1>1 DEF Fresh
<1>8. Invalidated' <=> Invalidated
  BY <1>1 DEF Invalidated, vars
<1>9. ValidFresh'
  BY <1>1, <1>6, <1>7, <1>8 DEF EInv, ValidFresh, vars
<1>10. ValidatorFresh'
  BY <1>1, <1>7, <1>8 DEF EInv, ValidatorFresh, vars
<1> QED
  BY <1>2, <1>5, <1>9, <1>10 DEF EInv

LEMMA Phi0DttStoresKeeps ==
  ASSUME LibInv, EInv, EquakeTypeOK', NEW w \in Workers, Phi0DttStores(w) PROVE EInv'
<1> USE DEF LibInv, IInv, EInv, EquakeTypeOK, TypeOK
<1>1. PICK k \in Slots : k = wnow[w]
  BY DEF WorkerType
<1>2. /\ UNCHANGED <<mpc, iter, time, returned, EQ, state, cancel, pc, event, wnow, issued>>
      /\ wpc[w] = "run" /\ wpc' = [wpc EXCEPT ![w] = "clear"]
      /\ ran' = [ran EXCEPT ![EQ[k].event] = @ + 1]
      /\ t[w] # -1 /\ phi0_result' = phi0(t[w]) /\ t' = [t EXCEPT ![w] = -1]
  BY <1>1 DEF Phi0DttStores, RunSupportFunction, WorkerGoto, ring, flags, call
<1>3. t[w] \in 0 .. time /\ CoversRun(t[w]) /\ t[w] >= EQ[k].event - 1
  BY <1>1, <1>2, EquakeAssumption DEF Loaded
<1>4. \A v \in Workers \ {w} : wpc[v] = "none" /\ wpc'[v] = "none" /\ t[v] = -1
  BY <1>2 DEF OneWorker, WorkerType, Loaded
<1>5. MainFacts' /\ OneWorker' /\ StaleByTwo'
  BY <1>2, <1>4 DEF MainFacts, OneWorker, TriggersEveryIteration, WorkerType, StaleByTwo
<1>6. Loaded'
  BY <1>2, <1>4 DEF Loaded
<1>7. PICK v \in 0 .. time : v = t[w]
  BY <1>3
<1>8. CoversRun(v)'
  BY <1>2, <1>3, <1>7 DEF CoversRun, HistoryType
<1>9. Stored'
  <2>1. phi0_result' = phi0(v) /\ phi0(v) \in Nat
    BY <1>2, <1>7, RampRange, EquakeAssumption
  <2> QED
    BY <1>2, <1>8, <2>1 DEF Stored
<1>10. ValidFresh'
  BY <1>2, <1>3, <1>4 DEF ValidFresh, Invalidated, Fresh
<1>11. ValidatorFresh'
  BY <1>2, <1>4 DEF ValidatorFresh, WorkerType
<1> QED
  BY <1>5, <1>6, <1>9, <1>10, <1>11

\* A worker that finds nothing pending has run every event but the one main
\* is about to count.
LEMMA AllRun ==
  ASSUME LibInv, EInv, pending[phi0_skip] = 0, NEW e \in 1 .. issued
  PROVE  ran[e] = 1 \/ (pc[Main] = "increment" /\ e = issued)
<1>1. source[e] = phi0_skip
  BY EquakeAssumption DEF LibInv, IInv, EventFacts, IssuedForStates
<1>2. ran[e] = 1 \/ \E c \in Callers : pc[c] = "increment" /\ event[c] = e
  BY <1>1, MainCalls, ZeroMeansRun DEF LibInv
<1>3. ASSUME NEW c \in Callers, pc[c] = "increment", event[c] = e
      PROVE  pc[Main] = "increment" /\ e = issued
  <2>1. c = Main
    <3>1. c \in Workers => pc[c] = "ready"
      BY DEF EInv, MainFacts
    <3> QED
      BY <1>3, <3>1, MainCalls
  <2> QED
    BY <1>3, <2>1 DEF EInv, MainFacts
<1> QED
  BY <1>2, <1>3

LEMMA ScanKeeps ==
  ASSUME LibInv, EInv, EquakeTypeOK', NEW w \in Workers, Scan(w) PROVE EInv'
<1> USE DEF EInv, EquakeTypeOK
<1>1. UNCHANGED quake /\ ScanStep(w) /\ [Next]_vars
  BY EquakeStep DEF Scan, EquakeNext, ThreadStep
<1>2. /\ UNCHANGED <<pc, cancel, issued, ran, event>>
      /\ \A v \in Workers \ {w} : wpc'[v] = wpc[v]
      /\ wpc[w] # "none" /\ wpc[w] # "run" /\ wpc'[w] # "none" /\ wpc'[w] # "clear"
      /\ wpc'[w] \in {"decrement", "test", "validate"} => wpc[w] \in {"clear", "decrement", "test"}
      /\ wpc'[w] = "validate" => pending[phi0_skip] = 0
      /\ \/ state' = state
         \/ state'[phi0_skip] = 1 /\ wpc[w] = "validate" /\ wpc'[w] = "release"
  BY <1>1, ScanEffect DEF LibInv
<1>3. \A v \in Workers \ {w} : wpc[v] = "none" /\ wpc'[v] = "none" /\ t[v] = -1
  BY <1>2 DEF OneWorker, Loaded
<1>4. t[w] = -1
  BY <1>2 DEF Loaded
<1>5. MainFacts' /\ OneWorker' /\ StaleByTwo'
  BY <1>1, <1>2, <1>3 DEF MainFacts, OneWorker, TriggersEveryIteration, StaleByTwo, quake
<1>6. Loaded'
  BY <1>1, <1>3, <1>4 DEF Loaded, quake
<1>7. Stored'
  BY <1>1, <1>2, <1>3 DEF Stored, CoversRun, quake
<1>8. \A k \in Int : Fresh(k)' <=> Fresh(k)
  BY <1>1 DEF Fresh, quake
<1>9. (Invalidated' <=> Invalidated) /\ UNCHANGED <<mpc, iter>> /\ iter \in Nat
  BY <1>1, <1>2 DEF Invalidated, quake
<1>10. ValidFresh'
  <2>1. CASE state' = state
    BY <1>1, <1>8, <1>9, <2>1 DEF ValidFresh, quake
  <2>2. CASE state'[phi0_skip] = 1 /\ wpc[w] = "validate"
    <3>1. Fresh(iter - 2)
      BY <2>2 DEF ValidatorFresh
    <3> QED
      BY <1>1, <1>3, <1>4, <1>8, <1>9, <2>2, <3>1 DEF ValidFresh, quake
  <2> QED
    BY <1>2, <2>1, <2>2
<1>11. ASSUME wpc'[w] = "validate"
       PROVE  /\ Fresh(iter - 2)
              /\ mpc \in {"loop", "next", "skip"} \/ Invalidated => Fresh(iter - 1)
  <2>1. phi0_result # -1 /\ pending[phi0_skip] = 0
    BY <1>2, <1>11 DEF Stored
  <2>2. PICK v \in 0 .. time : phi0_result = phi0(v) /\ CoversRun(v)
    BY <2>1 DEF Stored
  <2>3. \A e \in 1 .. issued : e \in Events /\ (ran[e] = 1 \/ (pc[Main] = "increment" /\ e = issued))
    <3>1. issued \in 0 .. MaxEvents
      BY DEF TypeOK, HistoryType
    <3>2. \A e \in 1 .. issued : e \in Events
      BY <3>1, RingAssumption DEF Events
    <3>3. \A e \in 1 .. issued : ran[e] = 1 \/ (pc[Main] = "increment" /\ e = issued)
      BY <2>1, AllRun
    <3> QED
      BY <3>2, <3>3
  <2>4. issued \in Nat /\ issued = IF mpc \in {"save", "tstore"} THEN iter - 1 ELSE iter
    BY DEF TypeOK, HistoryType, MainFacts, TriggersEveryIteration
  <2>5. v >= issued - 2
    <3>1. CASE issued < 2
      BY <2>4, <3>1
    <3>2. CASE issued >= 2
      <4>1. issued - 1 \in 1 .. issued /\ issued - 1 # issued
        BY <2>4, <3>2
      <4>2. ran[issued - 1] > 0 /\ issued - 1 \in Events
        BY <2>3, <4>1
      <4> QED
        BY <2>2, <2>4, <4>2 DEF CoversRun
    <3> QED
      BY <2>4, <3>1, <3>2
  <2>6. pc[Main] # "increment" => v >= issued - 1
    <3>1. CASE issued < 1
      BY <2>4, <3>1
    <3>2. CASE issued >= 1 /\ pc[Main] # "increment"
      <4>1. issued \in 1 .. issued
        BY <2>4, <3>2
      <4>2. ran[issued] > 0 /\ issued \in Events
        BY <2>3, <3>2, <4>1
      <4> QED
        BY <2>2, <2>4, <4>2 DEF CoversRun
    <3> QED
      BY <2>4, <3>1, <3>2
  <2>7. v >= iter - 2
    BY <1>9, <2>4, <2>5, <2>6 DEF MainFacts
  <2>8. mpc \in {"loop", "next", "skip"} \/ Invalidated => v >= iter - 1
    BY <1>9, <2>4, <2>6 DEF MainFacts, Invalidated
  <2> QED
    BY <2>2, <2>7, <2>8 DEF Fresh
<1>12. ValidatorFresh'
  BY <1>1, <1>2, <1>3, <1>8, <1>9, <1>11 DEF ValidatorFresh, quake
<1> QED
  BY <1>5, <1>6, <1>7, <1>10, <1>12

LEMMA EInvNext == ASSUME LibInv, EInv, [EquakeNext]_allvars PROVE EInv'
<1>1. EquakeTypeOK'
  BY EquakeTypeNext DEF EInv
<1>2. CASE UNCHANGED allvars
  BY <1>1, <1>2 DEF allvars, quake, vars, EInv, MainFacts, TriggersEveryIteration, OneWorker, Loaded,
     Stored, CoversRun, Fresh, Invalidated, ValidFresh, ValidatorFresh, StaleByTwo
<1> QED
  BY <1>1, <1>2, EquakeCases, InitRuntimeKeeps, NextIterationKeeps, MainMoveKeeps, CallTstoreKeeps,
     MainInTstoreKeeps, AssignTimeKeeps, ComputePhi0Keeps, SkipPhi0Keeps, Phi0DttLoadsKeeps,
     Phi0DttStoresKeeps, ScanKeeps

LEMMA EInvCorrect == EquakeSpec => []EInv
<1>1. LibInv /\ EInv /\ [EquakeNext]_allvars => EInv'
  BY EInvNext
<1>2. Spec => []LibInv
  BY IInvCorrect, PendingCorrect, OnceCorrect, PTL DEF LibInv
<1>3. EquakeInit => EInv
  BY EInvInit
<1> QED
  BY <1>1, <1>2, <1>3, EquakeUsesLibDTT, PTL DEF EquakeSpec

\* Each iteration posts an event, even though the variable and its saved copy
\* are equal when memoryCompare is asked: it looks at their addresses.
THEOREM TriggersCorrect == EquakeSpec => []TriggersEveryIteration
<1>1. EInv => TriggersEveryIteration
  BY DEF EInv, MainFacts
<1> QED
  BY <1>1, EInvCorrect, PTL

\* The excitation is never older than two iterations, whatever the number of
\* time steps and however late the worker runs its events.
THEOREM StaleCorrect == EquakeSpec => []StaleByTwo
<1>1. EInv => StaleByTwo
  BY DEF EInv
<1> QED
  BY <1>1, EInvCorrect, PTL

\* Main is not held up for good by a look at a busy entry in its first EQ_MAX
\* iterations, whatever the worker does: the ring is still new to it.
THEOREM HangsCorrect == EquakeSpec => []HangsOnlyOnReuse
<1>1. Spec => []HungLate
  BY HungSinceRound, EquakeAssumption
<1>2. EInv /\ HungLate => HangsOnlyOnReuse
  <2> SUFFICES ASSUME EInv, pc[Main] = "hung", issued > EQ_MAX PROVE iter > EQ_MAX
    BY MainCalls DEF HangsOnlyOnReuse, HungLate
  <2>1. mpc = "assign"
    BY DEF EInv, MainFacts
  <2> QED
    BY <2>1 DEF EInv, MainFacts, TriggersEveryIteration
<1> QED
  BY <1>1, <1>2, EquakeUsesLibDTT, EInvCorrect, PTL

=============================================================================
