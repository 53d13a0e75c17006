-------------------------- MODULE LibDTTServiceProofs --------------------------
(***************************************************************************)
(* Proofs about what the libDTT runtime does for its users: dtt_barrier    *)
(* waits for the events posted before it, a single worker never loses an   *)
(* entry between its look at it and its lock, the ring is the bag of tasks *)
(* of TriggeredTasks, and one thread's events overtake each other by less  *)
(* than a round of the ring.                                               *)
(***************************************************************************)
EXTENDS LibDTTEventProofs

(* dtt_barrier                                                             *)

\* The two ways out of the barrier that do not depend on cancel.
LEMMA LeaveSteps ==
  ASSUME TypeOK, [Next]_vars, NEW p \in Program, pc[p] \in {"ready", "waiting"}, pc'[p] = "leave"
  PROVE  (\E s \in States : BarrierEnter(p, s)) \/ BarrierStopsWaiting(p)
<1> p \in Callers
  BY DEF Callers
<1> USE DEF TypeOK, CallType, Goto
<1>1. ASSUME NEW c \in Callers, CallStep(c) PROVE FALSE
  <2>1. CASE TstoreDrops(c) \/ AtomicIncrement(c) \/ InvalidateState(c) \/ ReadTail(c)
             \/ ProbeFree(c) \/ ProbeBusyForever(c) \/ TakeSlot(c)
    BY <2>1 DEF TstoreDrops, AtomicIncrement, InvalidateState, ReadTail, ProbeFree,
                ProbeBusyForever, TakeSlot
  <2>2. CASE SlotLocked(c) \/ MarkValid(c) \/ GiveBack(c) \/ FillFields(c) \/ UnlockSlot(c)
             \/ StoreTail(c)
    BY <2>2 DEF SlotLocked, MarkValid, GiveBack, FillFields, UnlockSlot, StoreTail
  <2> QED
    BY <1>1, <2>1, <2>2 DEF CallStep
<1>2. ASSUME NEW c \in Callers, NEW s \in States, Tstore(c, s) PROVE FALSE
  BY <1>2 DEF Tstore, TstoreTriggers, TstoreCancelled
<1>3. ASSUME NEW q \in Program, ProgramStep(q) PROVE BarrierStopsWaiting(p)
  <2>1. q \in Callers
    BY DEF Callers
  <2>2. CASE q = p
    BY <1>3, <2>2 DEF ProgramStep, BarrierReadsCancel, BarrierReturns, ValidateClearsCancel
  <2>3. CASE q # p
    BY <1>3, <2>1, <2>3 DEF ProgramStep, BarrierReadsCancel, BarrierStopsWaiting,
                            BarrierReturns, ValidateClearsCancel
  <2> QED
    BY <2>2, <2>3
<1>4. ASSUME NEW q \in Program, NEW s \in States, ProgramCall(q, s)
      PROVE  \E r \in States : BarrierEnter(p, r)
  <2>1. q \in Callers
    BY DEF Callers
  <2>2. CASE q = p
    BY <1>4, <2>2 DEF ProgramCall, DttInvalidate, DttValidate, DttCancel
  <2>3. CASE q # p
    BY <1>4, <2>1, <2>3 DEF ProgramCall, BarrierEnter, DttInvalidate, DttValidate, DttCancel
  <2> QED
    BY <2>2, <2>3
<1>5. CASE UNCHANGED pc
  BY <1>5
<1> QED
  BY <1>1, <1>2, <1>3, <1>4, <1>5, NextCases, WorkerFrame DEF DttInit, vars

\* An event of a state whose count is 0 has run, or its call has yet to
\* increment the count.
LEMMA ZeroMeansRun ==
  ASSUME IInv, PendingCounts, ExactlyOnce, NEW s \in States, pending[s] = 0,
         NEW e \in 1 .. issued, source[e] = s
  PROVE  ran[e] = 1 \/ \E c \in Callers : pc[c] = "increment" /\ event[c] = e
<1> USE DEF IInv, TypeOK
<1>1. e \in Events /\ ran[e] \in Nat
  BY RingAssumption DEF Events, HistoryType
<1>2. Counted(s) = {} /\ Queued(s) = {}
  BY ZeroPending
<1>3. HeldIn(e) = {}
  <2>1. \A i \in HeldIn(e) : i \in Queued(s)
    BY DEF HeldIn, Queued, EventFacts, EntriesRefer
  <2> QED
    BY <1>2, <2>1
<1>4. CASE PostedBy(e) = {}
  BY <1>1, <1>3, <1>4, FS_EmptySet DEF ExactlyOnce
<1>5. ASSUME NEW c \in PostedBy(e)
      PROVE  pc[c] = "increment" /\ event[c] = e
  BY <1>2 DEF PostedBy, Counted, EventFacts, CallsRefer
<1> QED
  BY <1>4, <1>5 DEF PostedBy

\* In the build with DTT_PENDING_COUNT dtt_barrier waits for every event of
\* the state posted before, but for those another thread has not counted yet.
THEOREM BarrierCorrect == ASSUME PendingCount PROVE Spec => BarrierWaitsForEvents
<1>1. ASSUME IInv, PendingCounts, ExactlyOnce, [Next]_vars,
             NEW p \in Program, pc[p] \in {"ready", "waiting"}, pc'[p] = "leave",
             NEW e \in 1 .. issued, source[e] = entry'[p]
      PROVE  ran[e] = 1 \/ \E c \in Callers : pc[c] = "increment" /\ event[c] = e
  <2> p \in Callers
    BY DEF Callers
  <2>1. ASSUME NEW s \in States, BarrierEnter(p, s)
        PROVE  entry'[p] \in States /\ pending[entry'[p]] = 0
    BY <1>1, <2>1 DEF BarrierEnter, Goto, IInv, TypeOK, CallType
  <2>2. CASE BarrierStopsWaiting(p)
    <3>1. entry'[p] = entry[p] /\ pending[entry[p]] = 0
      BY <2>2 DEF BarrierStopsWaiting, call
    <3>2. source[e] \in States
      BY <1>1 DEF IInv, EventFacts, IssuedForStates
    <3> QED
      BY <1>1, <3>1, <3>2, ZeroMeansRun
  <2> QED
    BY <1>1, <2>1, <2>2, LeaveSteps, ZeroMeansRun DEF IInv
<1>2. IInv /\ PendingCounts /\ ExactlyOnce /\ [Next]_vars =>
        [\A p \in Program :
           pc[p] \in {"ready", "waiting"} /\ pc'[p] = "leave" =>
             \A e \in 1 .. issued :
               source[e] = entry'[p] =>
                 ran[e] = 1 \/ \E c \in Callers : pc[c] = "increment" /\ event[c] = e]_vars
  BY <1>1
<1> QED
  BY <1>2, IInvCorrect, PendingCorrect, OnceCorrect, PTL DEF Spec, BarrierWaitsForEvents

-----------------------------------------------------------------------------
(* "Should not happen anyway"                                              *)

\* An entry seen pending stays pending until its worker takes it.
LookedAt == \A w \in Workers : wpc[w] \in {"trylock", "recheck"} => EQ[wnow[w]].valid = 1

LEMMA LookedAtNext ==
  ASSUME \A v, w \in Workers : v = w, TypeOK, LookedAt, [Next]_vars
  PROVE  LookedAt'
<1> USE DEF TypeOK, WorkerType, RingType, Entry, LookedAt
<1>1. ASSUME NEW w \in Workers, WorkerStep(w) PROVE LookedAt'
  <2>1. wnow[w] \in Slots /\ \A v \in Workers : v = w
    OBVIOUS
  <2>2. CASE ScanSkip(w) \/ RunSupportFunction(w) \/ ClearEntry(w) \/ AtomicDecrement(w)
             \/ TestPending(w) \/ ValidateState(w)
    BY <2>1, <2>2 DEF ScanSkip, RunSupportFunction, ClearEntry, AtomicDecrement,
                      TestPending, ValidateState, WorkerGoto
  <2>3. CASE EntryLocked(w) \/ MarkRunning(w) \/ LockGrabbed(w) \/ ReleaseEntry(w)
    BY <2>1, <2>3 DEF EntryLocked, MarkRunning, LockGrabbed, ReleaseEntry, WorkerGoto
  <2>4. CASE ScanFind(w) \/ GrabEntry(w)
    BY <2>1, <2>4 DEF ScanFind, GrabEntry, WorkerGoto, ring
  <2> QED
    BY <1>1, <2>2, <2>3, <2>4 DEF WorkerStep, ScanStep
<1>2. ASSUME NEW c \in Callers, UNCHANGED worker,
             TakeSlot(c) \/ MarkValid(c) \/ GiveBack(c) \/ FillFields(c) \/ UnlockSlot(c)
      PROVE  LookedAt'
  BY <1>2 DEF worker, TakeSlot, MarkValid, GiveBack, FillFields, UnlockSlot
<1>3. CASE UNCHANGED worker
  <2>1. CASE UNCHANGED EQ
    BY <1>3, <2>1 DEF worker
  <2>2. ASSUME NEW w \in Workers,
               GrabEntry(w) \/ MarkRunning(w) \/ LockGrabbed(w) \/ ClearEntry(w) \/ ReleaseEntry(w)
        PROVE  LookedAt'
    BY <1>1, <2>2 DEF WorkerStep, ScanStep
  <2> QED
    BY <1>2, <1>3, <2>1, <2>2, RingWriters
<1>4. ASSUME NEW p \in Program, NEW w \in Workers, DttInit(p, w) PROVE LookedAt'
  BY <1>4 DEF DttInit, ring
<1> QED
  BY <1>1, <1>3, <1>4, CallerFrame, NextCases DEF vars, worker

\* With a single worker nobody grabs an entry between its look and its lock,
\* as the comment of dtt() says: the threads that post events take only
\* entries that are free.
THEOREM NeverGrabbedBySingle ==
  ASSUME \A v, w \in Workers : v = w
  PROVE  Spec => []NeverGrabbedByOthers
<1>1. Init => LookedAt
  BY DEF Init, LookedAt
<1>2. TypeOK /\ LookedAt /\ [Next]_vars => LookedAt'
  BY LookedAtNext
<1>3. LookedAt => NeverGrabbedByOthers
  BY DEF LookedAt, NeverGrabbedByOthers
<1> QED
  BY <1>1, <1>2, <1>3, TypeCorrect, PTL DEF Spec

-----------------------------------------------------------------------------
(* The bag of tasks                                                        *)

\* The refinement mapping of LibDTT.
Waiting == {EQ[i].event : i \in {j \in Slots : Filled(j) /\ EQ[j].valid = 1}}
Running == {EQ[wnow[w]].event : w \in {v \in Workers : wpc[v] = "run"}}
Done    == {e \in Events : ran[e] > 0}

\* An event in an entry is in no other entry, in no call, and has not run;
\* nor has one in a call.
LEMMA OnePlace ==
  ASSUME TypeOK, ExactlyOnce, NEW e \in 1 .. issued
  PROVE  /\ \A i, j \in HeldIn(e) : i = j
         /\ \A i \in HeldIn(e) : ran[e] = 0
         /\ \A c \in PostedBy(e) : ran[e] = 0 /\ HeldIn(e) = {}
<1> e \in Events /\ ran[e] \in Nat
  BY RingAssumption DEF Events, TypeOK, HistoryType
<1>1. /\ IsFiniteSet(PostedBy(e)) /\ IsFiniteSet(HeldIn(e))
      /\ Cardinality(PostedBy(e)) \in Nat /\ Cardinality(HeldIn(e)) \in Nat
  BY EventsFinite
<1>2. ran[e] + Cardinality(PostedBy(e)) + Cardinality(HeldIn(e)) = 1
  BY DEF ExactlyOnce
<1>3. ASSUME NEW i \in HeldIn(e), NEW j \in HeldIn(e) PROVE i = j /\ ran[e] = 0
  <2>1. Cardinality(HeldIn(e)) # 0
    BY <1>1, <1>3, FS_EmptySet
  <2>2. Cardinality(HeldIn(e)) = 1 /\ ran[e] = 0
    BY <1>1, <1>2, <2>1
  <2> QED
    BY <1>1, <2>2, FS_Singleton
<1>4. ASSUME NEW c \in PostedBy(e) PROVE ran[e] = 0 /\ HeldIn(e) = {}
  <2>1. Cardinality(PostedBy(e)) # 0
    BY <1>1, <1>4, FS_EmptySet
  <2>2. Cardinality(HeldIn(e)) = 0 /\ ran[e] = 0
    BY <1>1, <1>2, <2>1
  <2> QED
    BY <1>1, <2>2, FS_EmptySet
<1> QED
  BY <1>3, <1>4

\* The events waiting and running are in entries that hold them.
LEMMA InEntries ==
  ASSUME IInv
  PROVE  \A e \in Waiting \cup Running : e \in 1 .. issued /\ HeldIn(e) # {}
<1> USE DEF IInv, TypeOK
<1>1. ASSUME NEW i \in Slots, Filled(i), EQ[i].valid = 1
      PROVE  EQ[i].event \in 1 .. issued /\ i \in HeldIn(EQ[i].event)
  <2>1. EQ[i].event \in 1 .. issued
    BY <1>1 DEF EventFacts, EntriesRefer
  <2>2. ~Begun(i)
    BY <1>1 DEF Begun, Runs, EntryOwnership, RunningMarked
  <2> QED
    BY <1>1, <2>1, <2>2 DEF HeldIn
<1>2. ASSUME NEW w \in Workers, wpc[w] = "run"
      PROVE  /\ EQ[wnow[w]].event \in 1 .. issued
             /\ wnow[w] \in HeldIn(EQ[wnow[w]].event)
  <2>1. PICK k \in Slots : k = wnow[w]
    BY DEF WorkerType
  <2>2. Filled(k) /\ \A v \in Workers \ {w} : ~Runs(v, k)
    BY <1>2, <2>1, RunsFilled DEF Runs
  <2>3. ~Begun(k)
    BY <1>2, <2>2 DEF Begun, Runs
  <2> QED
    BY <2>1, <2>2, <2>3 DEF HeldIn, EventFacts, EntriesRefer
<1> QED
  BY <1>1, <1>2 DEF Waiting, Running

\* Fewer than EQ_MAX events are waiting and running while some entry holds none.
LEMMA RoomLeft ==
  ASSUME IInv, NEW k \in Slots, ~Filled(k)
  PROVE  Cardinality(Waiting \cup Running) < EQ_MAX
<1> DEFINE S == Slots \ {k}
           f == [i \in S |-> EQ[i].event]
           T == {f[i] : i \in S}
<1>1. IsFiniteSet(S) /\ Cardinality(S) = EQ_MAX - 1
  <2>1. IsFiniteSet(Slots) /\ Cardinality(Slots) = EQ_MAX
    BY RingAssumption, FS_Interval DEF Slots
  <2> QED
    BY <2>1, FS_RemoveElement
<1>2. f \in Surjection(S, T)
  BY DEF Surjection
<1>3. IsFiniteSet(T) /\ Cardinality(T) <= Cardinality(S)
  BY <1>1, <1>2, FS_Surjection
<1>4. Waiting \cup Running \subseteq T
  <2>1. ASSUME NEW e \in Waiting \cup Running PROVE e \in T
    <3>1. PICK i \in Slots : Filled(i) /\ EQ[i].event = e
      BY <2>1, InEntries DEF HeldIn
    <3>2. i \in S /\ f[i] = e
      BY <3>1
    <3> QED
      BY <3>2
  <2> QED
    BY <2>1
<1>5. Cardinality(Waiting \cup Running) <= Cardinality(T)
  <2> HIDE DEF T
  <2> QED
    BY <1>3, <1>4, FS_Subset
<1>6. /\ Cardinality(Waiting \cup Running) \in Nat /\ Cardinality(T) \in Nat
  <2> HIDE DEF T
  <2> QED
    BY <1>3, <1>4, FS_Subset, FS_CardinalityType
<1> HIDE DEF S, T
<1> QED
  BY <1>1, <1>3, <1>5, <1>6, RingAssumption

\* A step that moves no event into, through or out of the ring.
LEMMA BagKept ==
  ASSUME IInv, [Next]_vars,
         \A c \in Callers : ~FillFields(c),
         \A w \in Workers : ~(MarkRunning(w) \/ RunSupportFunction(w))
  PROVE  UNCHANGED <<Waiting, Running, Done>>
<1> USE DEF IInv, TypeOK
<1>1. CASE ~Moves
  <2>1. \A i \in Slots : Filled(i)' <=> Filled(i)
    BY <1>1, QuietRing, QuietCalls DEF Filled, SameRing, SameCalls
  <2>2. Waiting' = Waiting
    BY <1>1, <2>1, QuietRing DEF Waiting, SameRing
  <2>3. Running' = Running
    BY <1>1, QuietRing, QuietWorkers DEF Running, SameRing, SameWorkers, WorkerType
  <2>4. Done' = Done
    BY <1>1, QuietCounts DEF Done
  <2> QED
    BY <2>2, <2>3, <2>4
<1>2. ASSUME NEW c \in Callers, (\E s \in States : TstoreTriggers(c, s)) \/ AtomicIncrement(c)
      PROVE  UNCHANGED <<Waiting, Running, Done>>
  <2>1. \A i \in Slots : Filled(i)' <=> Filled(i)
    BY <1>2 DEF TstoreTriggers, AtomicIncrement, Filled, CallType, Goto, ring, call
  <2>2. UNCHANGED <<EQ, wpc, wnow, ran>>
    BY <1>2 DEF TstoreTriggers, AtomicIncrement, ring, worker, history
  <2> QED
    BY <2>1, <2>2 DEF Waiting, Running, Done
<1>3. ASSUME NEW c \in Callers, MarkValid(c) PROVE UNCHANGED <<Waiting, Running, Done>>
  <2>1. PICK k \in Slots : k = now[c]
    BY DEF CallType
  <2>2. ~Filled(k) /\ \A i \in Slots \ {k} : EQ'[i].valid = EQ[i].valid
    BY <1>3, <2>1 DEF MarkValid, Filled, RingType, Entry
  <2>3. {j \in Slots : Filled(j) /\ EQ[j].valid = 1}' = {j \in Slots : Filled(j) /\ EQ[j].valid = 1}
    BY <1>3, <2>2, MarkValidEffect
  <2>4. Waiting' = Waiting
    BY <1>3, <2>3, MarkValidEffect DEF Waiting
  <2>5. UNCHANGED <<wpc, wnow, ran>>
    BY <1>3 DEF MarkValid, worker, history
  <2>6. Running' = Running
    BY <1>3, <2>5, MarkValidEffect DEF Running, WorkerType
  <2> QED
    BY <2>4, <2>5, <2>6 DEF Done
<1>4. ASSUME NEW w \in Workers, ClearEntry(w) PROVE UNCHANGED <<Waiting, Running, Done>>
  <2>1. PICK k \in Slots : k = wnow[w]
    BY DEF WorkerType
  <2>2. EQ[k].valid = 2 /\ \A i \in Slots \ {k} : EQ'[i].valid = EQ[i].valid
    BY <1>4, <2>1, RunsFilled DEF ClearEntry, WorkerGoto, Runs, RingType, Entry
  <2>3. {j \in Slots : Filled(j) /\ EQ[j].valid = 1}' = {j \in Slots : Filled(j) /\ EQ[j].valid = 1}
    BY <1>4, <2>1, <2>2, ClearEntryEffect
  <2>4. Waiting' = Waiting
    BY <1>4, <2>1, <2>3, ClearEntryEffect DEF Waiting
  <2>5. UNCHANGED <<wnow, ran>> /\ \A v \in Workers : wpc'[v] = "run" <=> wpc[v] = "run"
    BY <1>4 DEF ClearEntry, WorkerGoto, WorkerType, history
  <2>6. Running' = Running
    BY <1>4, <2>1, <2>5, ClearEntryEffect DEF Running, WorkerType
  <2> QED
    BY <2>4, <2>5, <2>6 DEF Done
<1>5. ASSUME NEW w \in Workers, AtomicDecrement(w) PROVE UNCHANGED <<Waiting, Running, Done>>
  <2>1. UNCHANGED <<EQ, pc, now, wnow, ran>> /\ \A v \in Workers : wpc'[v] = "run" <=> wpc[v] = "run"
    BY <1>5 DEF AtomicDecrement, WorkerGoto, WorkerType, ring, call, history
  <2> QED
    BY <2>1 DEF Waiting, Running, Done, Filled
<1> QED
  BY <1>1, <1>2, <1>3, <1>4, <1>5, MoveCases

\* A call that fills an entry posts its event.
LEMMA FillPosts ==
  ASSUME IInv, ExactlyOnce, NEW c \in Callers, FillFields(c)
  PROVE  \E t \in Events :
           /\ t \notin Waiting \cup Running \cup Done
           /\ Cardinality(Waiting \cup Running) < EQ_MAX
           /\ Waiting' = Waiting \cup {t} /\ Running' = Running /\ Done' = Done
<1> USE DEF IInv, TypeOK
<1> DEFINE t == event[c]
<1>1. PICK k \in Slots : k = now[c]
  BY DEF CallType
<1>2. BeingFilled /\ UNCHANGED <<wpc, wnow, ran>>
  BY DEF FillFields, worker, history, EventFacts
<1>3. t \in 1 .. issued /\ c \in PostedBy(t)
  BY <1>1, <1>2, FillFieldsEffect DEF PostedBy, EventFacts, CallsRefer
<1>4. t \in Events
  BY <1>3, RingAssumption DEF Events, HistoryType
<1>5. t \notin Waiting \cup Running \cup Done
  BY <1>3, OnePlace, InEntries DEF Done, HistoryType
<1>6. Cardinality(Waiting \cup Running) < EQ_MAX
  BY <1>1, <1>2, FillFieldsEffect, RoomLeft
<1>7. Waiting' = Waiting \cup {t}
  <2>1. EQ[k].valid = 1 /\ EQ'[k].valid = 1 /\ \A i \in Slots \ {k} : EQ'[i] = EQ[i]
    BY <1>1, <1>2 DEF FillFields, BeingFilled, Goto, RingType, Entry
  <2>2. {j \in Slots : Filled(j) /\ EQ[j].valid = 1}'
          = {j \in Slots : Filled(j) /\ EQ[j].valid = 1} \cup {k}
    BY <1>1, <1>2, <2>1, FillFieldsEffect
  <2>3. k \notin {j \in Slots : Filled(j) /\ EQ[j].valid = 1} /\ EQ'[k].event = t
    BY <1>1, <1>2, FillFieldsEffect
  <2> QED
    BY <2>1, <2>2, <2>3 DEF Waiting
<1>8. Running' = Running
  <2>1. \A w \in Workers : wpc[w] = "run" => wnow[w] \in Slots \ {k}
    BY <1>1, <1>2, FillFieldsEffect DEF HoldsAsWorker, WorkerType
  <2>2. \A w \in Workers : wpc[w] = "run" => EQ'[wnow[w]].event = EQ[wnow[w]].event
    BY <1>1, <1>2, <2>1, FillFieldsEffect
  <2> QED
    BY <1>2, <2>2 DEF Running
<1>9. Done' = Done
  BY <1>2 DEF Done
<1> QED
  BY <1>4, <1>5, <1>6, <1>7, <1>8, <1>9

\* A worker that marks an entry as running begins its event.
LEMMA MarkBegins ==
  ASSUME IInv, ExactlyOnce, NEW w \in Workers, MarkRunning(w)
  PROVE  \E t \in Events :
           /\ t \in Waiting
           /\ Waiting' = Waiting \ {t} /\ Running' = Running \cup {t} /\ Done' = Done
<1> USE DEF IInv, TypeOK
<1>1. PICK k \in Slots : k = wnow[w]
  BY DEF WorkerType
<1> DEFINE t == EQ[k].event
           Pend == {j \in Slots : Filled(j) /\ EQ[j].valid = 1}
<1>2. /\ wpc[w] = "recheck" /\ wpc' = [wpc EXCEPT ![w] = "run"] /\ wnow' = wnow /\ ran' = ran
      /\ EQ[k].valid = 1 /\ EQ'[k].valid = 2
      /\ \A i \in Slots \ {k} : EQ'[i].valid = EQ[i].valid
  BY <1>1 DEF MarkRunning, WorkerGoto, history, RingType, Entry
<1>3. Filled(k)
  BY <1>1, MarkRunningEffect
<1>4. \A i \in Slots : (Filled(i)' <=> Filled(i)) /\ EQ'[i].event = EQ[i].event
  BY <1>1, MarkRunningEffect
<1>5. t \in 1 .. issued /\ t \in Waiting
  BY <1>2, <1>3 DEF EventFacts, EntriesRefer, Waiting
<1>6. t \in Events
  BY <1>5, RingAssumption DEF Events, HistoryType
<1>7. \A j \in Pend : j \in HeldIn(EQ[j].event)
  BY DEF HeldIn, Begun, Runs, EntryOwnership, RunningMarked
<1>8. \A j \in Pend : EQ[j].event = t => j = k
  BY <1>2, <1>3, <1>5, <1>7, OnePlace
<1>9. Pend' = Pend \ {k} /\ k \in Pend
  BY <1>2, <1>3, <1>4
<1>10. Waiting' = Waiting \ {t}
  <2>1. Waiting = {EQ[i].event : i \in Pend}
    BY DEF Waiting
  <2>2. Waiting' = {EQ[i].event : i \in Pend}'
    BY DEF Waiting
  <2>3. \A j \in Pend : j \in Slots
    OBVIOUS
  <2> HIDE DEF Pend
  <2>4. {EQ[i].event : i \in Pend}' = {EQ[i].event : i \in Pend \ {k}}
    BY <1>4, <1>9, <2>3
  <2> QED
    BY <1>8, <1>9, <2>1, <2>2, <2>4
<1>11. Running' = Running \cup {t}
  BY <1>1, <1>2, <1>4 DEF Running, WorkerType
<1>12. Done' = Done
  BY <1>2 DEF Done
<1> QED
  BY <1>5, <1>6, <1>10, <1>11, <1>12

\* A support function that returns finishes its event.
LEMMA RunFinishes ==
  ASSUME IInv, ExactlyOnce, NEW w \in Workers, RunSupportFunction(w)
  PROVE  \E t \in Events :
           /\ t \in Running
           /\ Waiting' = Waiting /\ Running' = Running \ {t} /\ Done' = Done \cup {t}
<1> USE DEF IInv, TypeOK
<1>1. PICK k \in Slots : k = wnow[w]
  BY DEF WorkerType
<1> DEFINE t == EQ[k].event
<1>2. /\ UNCHANGED <<EQ, pc, now, wnow>> /\ wpc[w] = "run"
      /\ wpc' = [wpc EXCEPT ![w] = "clear"]
      /\ ran' = [ran EXCEPT ![t] = @ + 1]
  BY <1>1 DEF RunSupportFunction, WorkerGoto, ring, call
<1>3. Filled(k)
  BY <1>1, <1>2, RunsFilled DEF Runs
<1>4. t \in 1 .. issued /\ t \in Running
  BY <1>1, <1>2, <1>3 DEF EventFacts, EntriesRefer, Running
<1>5. t \in Events
  BY <1>4, RingAssumption DEF Events, HistoryType
<1>6. Waiting' = Waiting
  BY <1>2 DEF Waiting, Filled
<1>7. \A v \in Workers : wpc[v] = "run" => wnow[v] \in HeldIn(EQ[wnow[v]].event)
  <2>1. ASSUME NEW v \in Workers, wpc[v] = "run"
        PROVE  wnow[v] \in HeldIn(EQ[wnow[v]].event)
    <3>1. PICK j \in Slots : j = wnow[v]
      BY DEF WorkerType
    <3>2. Filled(j) /\ \A u \in Workers \ {v} : ~Runs(u, j)
      BY <2>1, <3>1, RunsFilled DEF Runs
    <3>3. ~Begun(j)
      BY <2>1, <3>2 DEF Begun, Runs
    <3> QED
      BY <3>1, <3>2, <3>3 DEF HeldIn
  <2> QED
    BY <2>1
<1>8. ASSUME NEW v \in Workers, v # w, wpc[v] = "run" PROVE EQ[wnow[v]].event # t
  <2>1. SUFFICES ASSUME EQ[wnow[v]].event = t PROVE FALSE
    OBVIOUS
  <2>2. wnow[v] = k
    BY <1>1, <1>2, <1>4, <1>7, <1>8, <2>1, OnePlace
  <2>3. ~Runs(v, k)
    BY <1>1, <1>2, <1>8, RunsFilled DEF Runs
  <2> QED
    BY <1>8, <2>2, <2>3 DEF Runs
<1>9. Running' = Running \ {t}
  BY <1>1, <1>2, <1>8 DEF Running, WorkerType
<1>10. Done' = Done \cup {t}
  BY <1>2, <1>5 DEF Done, HistoryType
<1> QED
  BY <1>4, <1>5, <1>6, <1>9, <1>10

\* The ring with its callers and workers implements the bag of tasks: an event
\* is posted, begun and finished once, and at most EQ_MAX are unfinished.
THEOREM RefinesTasks == Spec => ImplementsTasks
<1> DEFINE Step == \/ \E t \in Events :
                        /\ t \notin Waiting \cup Running \cup Done
                        /\ Cardinality(Waiting \cup Running) < EQ_MAX
                        /\ Waiting' = Waiting \cup {t} /\ Running' = Running /\ Done' = Done
                   \/ \E t \in Events :
                        /\ t \in Waiting
                        /\ Waiting' = Waiting \ {t} /\ Running' = Running \cup {t} /\ Done' = Done
                   \/ \E t \in Events :
                        /\ t \in Running
                        /\ Waiting' = Waiting /\ Running' = Running \ {t} /\ Done' = Done \cup {t}
                   \/ UNCHANGED <<Waiting, Running, Done>>
<1>1. Init => Tasks!Init
  BY DEF Init, Tasks!Init, Filled
<1>2. IInv /\ ExactlyOnce /\ [Next]_vars => Step
  BY FillPosts, MarkBegins, RunFinishes, BagKept
<1>3. \A S : Tasks!Cardinality(S) = Cardinality(S)
  BY DEF Tasks!Cardinality, Cardinality
<1>4. Step => [Tasks!Next]_(Tasks!vars)
  BY <1>3 DEF Waiting, Running, Done, Tasks!Next, Tasks!Post, Tasks!Begin, Tasks!Finish, Tasks!vars
<1>5. IInv /\ ExactlyOnce /\ [Next]_vars => [Tasks!Next]_(Tasks!vars)
  BY <1>2, <1>4
<1> QED
  BY <1>1, <1>5, IInvCorrect, OnceCorrect, PTL DEF Spec, ImplementsTasks, Tasks!Spec

-----------------------------------------------------------------------------
(* Overtaking                                                              *)

\* Event e belongs into entry i: the posts go round the ring in their order.
EntryOf(e, i) == \E k \in Nat : e = EQ_MAX * k + i

\* Support functions post nothing ...
OnlyProgramCalls == \A w \in Workers : pc[w] = "ready"

\* ... so that the event a call posts is the newest.
PostsNewest == \A c \in Program : Posting(c) => event[c] = issued

\* Where the newest event goes: the call has yet to read EQ_tail, has chosen
\* its entry, or has left it in EQ_tail.
ReadsTail == {"increment", "invalidate", "tail"}
HasEntry  == {"probe", "trylock", "check", "fields", "unlock", "settail", "hung"}

TailFollows ==
  \A c \in Program :
    /\ pc[c] \in ReadsTail => EntryOf(issued - 1, EQ_tail)
    /\ pc[c] \in HasEntry => EntryOf(issued, now[c])
    /\ pc[c] \notin ReadsTail \cup HasEntry => EntryOf(issued, EQ_tail)

\* Each event is in the entry it belongs into.
EntriesFollow == \A i \in Slots : Filled(i) => EntryOf(EQ[i].event, i)

\* Once an event has taken its entry, the event one round older has run.
Unmarked == {"increment", "invalidate", "tail", "probe", "trylock", "check", "hung"}
RoundBefore ==
  \A e \in 1 .. issued :
    \/ e + EQ_MAX < issued
    \/ e + EQ_MAX = issued /\ \A c \in Program : pc[c] \notin Unmarked
    => ran[e] > 0

\* As long as it has not, it is newer than those in the entries.
EntriesOlder ==
  \A c \in Program : pc[c] \in Unmarked =>
    \A i \in Slots : Filled(i) => EQ[i].event < issued

OrderInv ==
  /\ OnlyProgramCalls /\ PostsNewest /\ TailFollows /\ EntriesFollow /\ EntriesOlder
  /\ RoundBefore

LEMMA Modulus ==
  ASSUME NEW m \in Nat \ {0}, NEW k \in Nat, NEW r \in 0 .. m - 1
  PROVE  (m * k + r) % m = r
OBVIOUS

LEMMA RingModulus ==
  ASSUME NEW k \in Nat, NEW r \in Slots
  PROVE  (EQ_MAX * k + r) % EQ_MAX = r
BY Modulus, RingAssumption DEF Slots

\* A step of the call leaves it at the same stage, but for the four that
\* post the event, choose its entry, take the entry and leave the tail.
SameStage(p) ==
  /\ UNCHANGED <<issued, EQ_tail>> /\ event'[p] = event[p] /\ now'[p] = now[p]
  /\ pc'[p] \in ReadsTail <=> pc[p] \in ReadsTail
  /\ pc'[p] \in HasEntry <=> pc[p] \in HasEntry
  /\ pc'[p] \in Unmarked <=> pc[p] \in Unmarked
  /\ Posting(p)' => Posting(p)

LEMMA OrderCases ==
  ASSUME NEW p, Program = {p}, ~Nested, TypeOK, OnlyProgramCalls, [Next]_vars
  PROVE  /\ OnlyProgramCalls'
         /\ \/ SameStage(p) \/ (\E s \in States : TstoreTriggers(p, s))
            \/ ReadTail(p) \/ MarkValid(p) \/ StoreTail(p)
<1> p \in Callers /\ \A c \in Callers : c = p \/ c \in Workers
  BY DEF Callers
<1> p \notin Workers /\ \A w \in Workers : w \in Callers
  BY ThreadsAssumption DEF Callers
<1> USE DEF TypeOK, CallType, OnlyProgramCalls, Goto, call, ring, history
<1> USE DEF SameStage, ReadsTail, HasEntry, Unmarked, Posting
<1>1. ASSUME NEW c \in Callers, CallStep(c)
      PROVE  /\ c = p /\ OnlyProgramCalls'
             /\ SameStage(p) \/ ReadTail(p) \/ MarkValid(p) \/ StoreTail(p)
  <2>1. CASE TstoreDrops(c) \/ AtomicIncrement(c) \/ InvalidateState(c) \/ ProbeFree(c)
             \/ ProbeBusyForever(c) \/ TakeSlot(c)
    BY <2>1 DEF TstoreDrops, AtomicIncrement, InvalidateState, ProbeFree, ProbeBusyForever, TakeSlot
  <2>2. CASE SlotLocked(c) \/ GiveBack(c) \/ FillFields(c) \/ UnlockSlot(c)
    BY <2>2 DEF SlotLocked, GiveBack, FillFields, UnlockSlot
  <2>3. CASE ReadTail(c) \/ MarkValid(c) \/ StoreTail(c)
    BY <2>3 DEF ReadTail, MarkValid, StoreTail
  <2> QED
    BY <1>1, <2>1, <2>2, <2>3 DEF CallStep
<1>2. ASSUME NEW c \in Callers, NEW s \in States, Tstore(c, s)
      PROVE  OnlyProgramCalls' /\ (SameStage(p) \/ TstoreTriggers(p, s))
  BY <1>2 DEF Tstore, TstoreTriggers, TstoreCancelled, CanCall
<1>3. ASSUME NEW q \in Program, ProgramStep(q) PROVE OnlyProgramCalls' /\ SameStage(p)
  BY <1>3 DEF ProgramStep, BarrierReadsCancel, BarrierStopsWaiting, BarrierReturns,
              ValidateClearsCancel
<1>4. ASSUME NEW q \in Program, NEW s \in States, ProgramCall(q, s)
      PROVE  OnlyProgramCalls' /\ SameStage(p)
  BY <1>4 DEF ProgramCall, BarrierEnter, DttInvalidate, DttValidate, DttCancel
<1>5. CASE UNCHANGED <<pc, call, issued, EQ_tail>>
  BY <1>5
<1>6. ASSUME NEW w \in Workers, WorkerStep(w) PROVE UNCHANGED <<pc, call, issued, EQ_tail>>
  BY <1>6, WorkerFrame DEF WorkerStep, ScanStep, ScanSkip, ScanFind, GrabEntry, EntryLocked,
     MarkRunning, LockGrabbed, RunSupportFunction, ClearEntry, AtomicDecrement, TestPending,
     ValidateState, ReleaseEntry
<1> QED
  BY <1>1, <1>2, <1>3, <1>4, <1>5, <1>6, NextCases DEF DttInit, vars

\* The entry after that of an event is the entry of the next one.
LEMMA EntryAfter ==
  ASSUME NEW e \in Int, NEW i \in Slots, EntryOf(e, i)
  PROVE  EntryOf(e + 1, (i + 1) % EQ_MAX)
<1> EQ_MAX \in Nat \ {0} /\ i \in 0 .. EQ_MAX - 1
  BY RingAssumption DEF Slots
<1>1. PICK k \in Nat : e = EQ_MAX * k + i
  BY DEF EntryOf
<1>2. CASE i + 1 = EQ_MAX
  <2>1. (EQ_MAX * 1 + 0) % EQ_MAX = 0 /\ EQ_MAX * 1 + 0 = i + 1
    BY <1>2, RingModulus
  <2>2. e + 1 = EQ_MAX * (k + 1) + 0 /\ k + 1 \in Nat
    BY <1>1, <1>2
  <2>3. (i + 1) % EQ_MAX = 0
    BY <2>1
  <2> QED
    BY <2>2, <2>3 DEF EntryOf
<1>3. CASE i + 1 # EQ_MAX
  <2>1. (EQ_MAX * 0 + (i + 1)) % EQ_MAX = i + 1
    BY <1>3, RingModulus
  <2>2. (i + 1) % EQ_MAX = i + 1 /\ e + 1 = EQ_MAX * k + (i + 1)
    BY <1>1, <2>1
  <2> QED
    BY <2>2 DEF EntryOf
<1> QED
  BY <1>2, <1>3

\* Two events a round apart belong into the same entry.
LEMMA EntryOnce ==
  ASSUME NEW e \in Int, NEW i \in Slots, NEW j \in Slots,
         EntryOf(e, i), EntryOf(e + EQ_MAX, j)
  PROVE  i = j
<1> EQ_MAX \in Nat \ {0} /\ i \in 0 .. EQ_MAX - 1 /\ j \in 0 .. EQ_MAX - 1
  BY RingAssumption DEF Slots
<1>1. PICK k \in Nat : e = EQ_MAX * k + i
  BY DEF EntryOf
<1>2. PICK l \in Nat : e + EQ_MAX = EQ_MAX * l + j
  BY DEF EntryOf
<1>3. k + 1 \in Nat /\ e + EQ_MAX = EQ_MAX * (k + 1) + i
  BY <1>1
<1>4. (EQ_MAX * (k + 1) + i) % EQ_MAX = i
  BY <1>3, RingModulus
<1>5. (EQ_MAX * l + j) % EQ_MAX = j
  BY RingModulus
<1> QED
  BY <1>2, <1>3, <1>4, <1>5

LEMMA OrderInit == Init => OrderInv
<1> SUFFICES ASSUME Init PROVE OrderInv
  OBVIOUS
<1> EQ_MAX \in Nat \ {0}
  BY RingAssumption
<1>1. issued = 0 /\ EQ_tail = 0 /\ \A c \in Callers : pc[c] = "ready"
  BY DEF Init
<1>2. EntryOf(issued, EQ_tail)
  <2>1. 0 = EQ_MAX * 0 + 0
    OBVIOUS
  <2> QED
    BY <1>1, <2>1 DEF EntryOf
<1>3. \A i \in Slots : ~Filled(i)
  BY DEF Init, Filled
<1>4. RoundBefore
  BY <1>1 DEF RoundBefore
<1>5. TailFollows /\ OnlyProgramCalls
  BY <1>1, <1>2 DEF TailFollows, OnlyProgramCalls, ReadsTail, HasEntry, Callers
<1> QED
  BY <1>1, <1>3, <1>4, <1>5 DEF OrderInv, PostsNewest, EntriesFollow, EntriesOlder, Posting, Callers

LEMMA NewestNext ==
  ASSUME NEW p, Program = {p}, ~Nested, TypeOK, OrderInv, [Next]_vars
  PROVE  PostsNewest' /\ TailFollows'
<1> p \in Callers
  BY DEF Callers
<1> USE DEF OrderInv, TypeOK, CallType, PostsNewest, TailFollows, ReadsTail, HasEntry, Posting, Goto
<1>1. CASE SameStage(p)
  BY <1>1 DEF SameStage
<1>2. ASSUME NEW s \in States, TstoreTriggers(p, s) PROVE PostsNewest' /\ TailFollows'
  <2>1. issued \in Int /\ issued' = issued + 1 /\ issued' - 1 = issued
    BY <1>2 DEF TstoreTriggers, HistoryType
  <2> QED
    BY <1>2, <2>1 DEF TstoreTriggers, ring
<1>3. CASE ReadTail(p)
  <2>1. EntryOf(issued - 1, EQ_tail) /\ issued \in Int /\ (issued - 1) + 1 = issued
    BY <1>3 DEF ReadTail, HistoryType
  <2>2. EntryOf(issued, (EQ_tail + 1) % EQ_MAX)
    BY <2>1, EntryAfter DEF RingType
  <2> QED
    BY <1>3, <2>2 DEF ReadTail, history, call
<1>4. CASE MarkValid(p)
  BY <1>4 DEF MarkValid, history, call
<1>5. CASE StoreTail(p)
  BY <1>5 DEF StoreTail, history, call
<1> QED
  BY <1>1, <1>2, <1>3, <1>4, <1>5, OrderCases

\* Only a call that fills an entry brings an event into it.
LEMMA FilledBefore ==
  ASSUME IInv, [Next]_vars, ~\E c \in Callers : FillFields(c), NEW i \in Slots, Filled(i)'
  PROVE  Filled(i) /\ EQ'[i].event = EQ[i].event
<1> USE DEF IInv, TypeOK
<1>1. CASE ~Moves
  BY <1>1, QuietCalls, QuietRing DEF SameCalls, SameRing, Filled
<1>2. CASE \E c \in Callers : (\E s \in States : TstoreTriggers(c, s)) \/ AtomicIncrement(c)
  BY <1>2 DEF TstoreTriggers, AtomicIncrement, Filled, CallType, Goto, ring, call
<1>3. ASSUME NEW c \in Callers, MarkValid(c) PROVE Filled(i) /\ EQ'[i].event = EQ[i].event
  BY <1>3, MarkValidEffect
<1>4. ASSUME NEW w \in Workers, MarkRunning(w) PROVE Filled(i) /\ EQ'[i].event = EQ[i].event
  <2>1. PICK k \in Slots : k = wnow[w]
    BY DEF WorkerType
  <2> QED
    BY <1>4, <2>1, MarkRunningEffect
<1>5. ASSUME NEW w \in Workers, ClearEntry(w) PROVE Filled(i) /\ EQ'[i].event = EQ[i].event
  <2>1. PICK k \in Slots : k = wnow[w]
    BY DEF WorkerType
  <2> QED
    BY <1>5, <2>1, ClearEntryEffect
<1>6. ASSUME NEW w \in Workers, RunSupportFunction(w) \/ AtomicDecrement(w)
      PROVE  Filled(i) /\ EQ'[i].event = EQ[i].event
  BY <1>6 DEF RunSupportFunction, AtomicDecrement, ring, call, Filled
<1> QED
  BY <1>1, <1>2, <1>3, <1>4, <1>5, <1>6, MoveCases

\* Each step keeps the events of the entries, or fills the entry of the event
\* that is posted.
LEMMA EntriesFollowNext ==
  ASSUME NEW p, Program = {p}, IInv, OrderInv, [Next]_vars
  PROVE  EntriesFollow'
<1> USE DEF IInv, TypeOK, OrderInv
<1>1. CASE ~\E c \in Callers : FillFields(c)
  <2>1. \A i \in Slots : Filled(i)' => Filled(i) /\ EQ'[i].event = EQ[i].event
    BY <1>1, FilledBefore
  <2> QED
    BY <2>1 DEF EntriesFollow
<1>2. ASSUME NEW c \in Callers, FillFields(c) PROVE EntriesFollow'
  <2>1. PICK k \in Slots : k = now[c]
    BY DEF CallType
  <2>2. c = p /\ p \in Program
    BY <1>2, "fields" # "ready" DEF OnlyProgramCalls, FillFields, Goto, Callers
  <2>3. /\ Filled(k)' /\ EQ'[k].event = event[c] /\ Posting(c) /\ pc[c] = "fields"
        /\ \A i \in Slots \ {k} : (Filled(i)' <=> Filled(i)) /\ EQ'[i].event = EQ[i].event
    BY <1>2, <2>1, FillFieldsEffect DEF EventFacts
  <2>4. EntryOf(EQ'[k].event, k)
    BY <2>1, <2>2, <2>3 DEF TailFollows, PostsNewest, HasEntry
  <2> QED
    BY <2>3, <2>4 DEF EntriesFollow
<1> QED
  BY <1>1, <1>2

\* An event that has no entry yet is newer than those in the entries.
LEMMA EntriesOlderNext ==
  ASSUME NEW p, Program = {p}, ~Nested, IInv, OrderInv, [Next]_vars
  PROVE  EntriesOlder'
<1> SUFFICES ASSUME pc'[p] \in Unmarked, NEW i \in Slots, Filled(i)' PROVE EQ'[i].event < issued'
  BY DEF EntriesOlder
<1> USE DEF IInv, TypeOK, OrderInv
<1> p \in Callers /\ \A c \in Callers : c = p \/ c \in Workers
  BY DEF Callers
<1>1. ~\E c \in Callers : FillFields(c)
  BY "fields" # "ready" DEF OnlyProgramCalls, FillFields, Goto, CallType, Unmarked
<1>2. Filled(i) /\ EQ'[i].event = EQ[i].event
  BY <1>1, FilledBefore
<1>3. EQ[i].event \in 1 .. issued /\ issued \in Nat
  BY <1>2 DEF EventFacts, EntriesRefer, HistoryType
<1>4. CASE SameStage(p) \/ ReadTail(p)
  <2>1. issued' = issued /\ pc[p] \in Unmarked
    BY <1>4 DEF SameStage, ReadTail, Goto, Unmarked, history
  <2> QED
    BY <1>2, <2>1 DEF EntriesOlder
<1>5. CASE \E s \in States : TstoreTriggers(p, s)
  BY <1>2, <1>3, <1>5 DEF TstoreTriggers
<1>6. CASE MarkValid(p) \/ StoreTail(p)
  BY <1>6 DEF MarkValid, StoreTail, Goto, CallType, Unmarked
<1> QED
  BY <1>4, <1>5, <1>6, OrderCases

\* An event that has run stays so.
LEMMA RanStays ==
  ASSUME TypeOK, [Next]_vars, NEW e \in Events, ran[e] > 0
  PROVE  ran'[e] > 0
<1> USE DEF TypeOK, HistoryType
<1>1. ASSUME NEW w \in Workers, RunSupportFunction(w) PROVE ran'[e] > 0
  BY <1>1 DEF RunSupportFunction
<1>2. CASE UNCHANGED ran
  BY <1>2
<1> QED
  BY <1>1, <1>2, HistoryWriters DEF history, TstoreDrops, InvalidateState, TstoreTriggers,
     DttInvalidate

\* When the newest event takes its entry, the one a round before has left it.
LEMMA EntryWasLeft ==
  ASSUME NEW p, Program = {p}, IInv, ExactlyOnce, OrderInv, MarkValid(p),
         NEW e \in 1 .. issued, e + EQ_MAX = issued
  PROVE  ran[e] > 0
<1> USE DEF IInv, TypeOK, OrderInv
<1> p \in Callers /\ \A c \in Callers : c = p \/ c \in Workers
  BY DEF Callers
<1>1. PICK k \in Slots : k = now[p]
  BY DEF CallType
<1>2. EQ[k].valid = 0 /\ pc[p] = "check"
  BY <1>1 DEF MarkValid, Goto
<1>3. EQ_MAX \in Nat \ {0} /\ e \in Events /\ e # issued /\ ran[e] \in Nat
  BY RingAssumption DEF HistoryType, Events
<1>4. PostedBy(e) = {}
  BY <1>3 DEF PostedBy, PostsNewest, OnlyProgramCalls, Posting
<1>5. HeldIn(e) = {}
  <2>1. ASSUME NEW i \in HeldIn(e) PROVE FALSE
    <3>1. i \in Slots /\ Filled(i) /\ EntryOf(e, i)
      BY DEF HeldIn, EntriesFollow
    <3>2. EntryOf(e + EQ_MAX, k)
      BY <1>1, <1>2 DEF TailFollows, HasEntry
    <3>3. i = k
      BY <3>1, <3>2, EntryOnce
    <3> QED
      BY <1>2, <3>1, <3>3 DEF Filled
  <2> QED
    BY <2>1
<1> QED
  BY <1>3, <1>4, <1>5, FS_EmptySet DEF ExactlyOnce

LEMMA RoundNext ==
  ASSUME NEW p, Program = {p}, ~Nested, IInv, ExactlyOnce, OrderInv, [Next]_vars
  PROVE  RoundBefore'
<1> USE DEF IInv, OrderInv
<1> p \in Callers
  BY DEF Callers
<1>1. EQ_MAX \in Nat \ {0} /\ issued \in Nat /\ 1 .. issued \subseteq Events
  BY RingAssumption DEF TypeOK, HistoryType, Events
<1>2. CASE SameStage(p)
  BY <1>1, <1>2, RanStays DEF SameStage, RoundBefore
<1>3. ASSUME NEW s \in States, TstoreTriggers(p, s) PROVE RoundBefore'
  <2>1. /\ issued' = issued + 1 /\ ran' = ran
        /\ pc[p] = "ready" /\ pc'[p] = "increment"
    BY <1>3 DEF TstoreTriggers, Goto, TypeOK, CallType
  <2> QED
    BY <1>1, <2>1 DEF RoundBefore, Unmarked
<1>4. CASE ReadTail(p) \/ StoreTail(p)
  <2>1. issued' = issued /\ (pc'[p] \in Unmarked <=> pc[p] \in Unmarked)
    BY <1>4 DEF ReadTail, StoreTail, Goto, Unmarked, history, TypeOK, CallType
  <2> QED
    BY <1>1, <2>1, RanStays DEF RoundBefore
<1>5. CASE MarkValid(p)
  <2>1. issued' = issued /\ ran' = ran
    BY <1>5 DEF MarkValid, history
  <2> QED
    BY <1>1, <1>5, <2>1, EntryWasLeft DEF RoundBefore
<1> QED
  BY <1>2, <1>3, <1>4, <1>5, OrderCases

LEMMA OrderCorrect == ASSUME NEW p, Program = {p}, ~Nested PROVE Spec => []OrderInv
<1>1. Init => OrderInv
  BY OrderInit
<1>2. IInv /\ ExactlyOnce /\ OrderInv /\ [Next]_vars => OrderInv'
  <2> SUFFICES ASSUME IInv, ExactlyOnce, OrderInv, [Next]_vars PROVE OrderInv'
    OBVIOUS
  <2>1. TypeOK /\ OnlyProgramCalls
    BY DEF IInv, OrderInv
  <2>2. OnlyProgramCalls'
    BY <2>1, OrderCases
  <2>3. PostsNewest' /\ TailFollows'
    BY <2>1, NewestNext
  <2>4. EntriesFollow' /\ EntriesOlder' /\ RoundBefore'
    BY EntriesFollowNext, EntriesOlderNext, RoundNext
  <2> QED
    BY <2>2, <2>3, <2>4 DEF OrderInv
<1> QED
  BY <1>1, <1>2, IInvCorrect, OnceCorrect, PTL DEF Spec

\* With one thread posting, an event is overtaken only by the EQ_MAX - 1
\* events posted after it: the event EQ_MAX later gets the same entry, and
\* only when the worker that ran this one has cleared it.
THEOREM OvertakingBounded ==
  ASSUME NEW p, Program = {p}, ~Nested
  PROVE  Spec => []BoundedOvertaking
<1>1. IInv /\ ExactlyOnce /\ OrderInv => BoundedOvertaking
  <2> SUFFICES ASSUME IInv, ExactlyOnce, OrderInv,
                      NEW e \in 1 .. issued, NEW f \in 1 .. issued, ran[e] = 0, ran[f] > 0,
                      f >= e + EQ_MAX
               PROVE  FALSE
    BY RingAssumption DEF BoundedOvertaking, IInv, TypeOK, HistoryType
  <2>1. EQ_MAX \in Nat \ {0} /\ issued \in Nat /\ e \in Nat /\ f \in Nat
    BY RingAssumption DEF IInv, TypeOK, HistoryType
  <2>2. e + EQ_MAX = issued /\ f = issued /\ ~\A c \in Program : pc[c] \notin Unmarked
    BY <2>1 DEF OrderInv, RoundBefore
  <2>3. PICK c \in Program : pc[c] \in Unmarked
    BY <2>2
  <2>4. c \in PostedBy(f)
    BY <2>2, <2>3 DEF OrderInv, PostsNewest, PostedBy, Posting, Unmarked, Callers
  <2>5. ran[f] = 0
    BY <2>4, OnePlace DEF IInv
  <2> QED
    BY <2>5
<1> QED
  BY <1>1, OrderCorrect, IInvCorrect, OnceCorrect, PTL

-----------------------------------------------------------------------------
(* A call held up for good                                                 *)

\* An entry a call with an event of its own finds busy has the event that was
\* posted a round of the ring before it, or an older one.
LEMMA BusySinceRound ==
  ASSUME NEW p, Program = {p}, IInv, OrderInv, ProbeBusyForever(p)
  PROVE  issued > EQ_MAX
<1> USE DEF IInv, TypeOK, OrderInv
<1> p \in Callers /\ \A c \in Callers : c = p \/ c \in Workers
  BY DEF Callers
<1>1. PICK i \in Slots : i = now[p]
  BY DEF CallType
<1>2. pc[p] = "probe" /\ EQ[i].valid # 0
  BY <1>1 DEF ProbeBusyForever, Goto
<1>3. Filled(i)
  BY <1>2, "fields" # "ready" DEF Filled, OnlyProgramCalls
<1>4. EQ[i].event < issued /\ EQ[i].event \in 1 .. issued /\ issued \in Nat
  BY <1>2, <1>3 DEF EntriesOlder, Unmarked, EventFacts, EntriesRefer, HistoryType
<1>5. PICK k \in Nat : EQ[i].event = EQ_MAX * k + i
  BY <1>3 DEF EntriesFollow, EntryOf
<1>6. PICK l \in Nat : issued = EQ_MAX * l + i
  BY <1>1, <1>2 DEF TailFollows, HasEntry, EntryOf
<1>7. EQ_MAX \in Nat \ {0} /\ i \in Nat
  BY RingAssumption DEF Slots
<1>8. l > k
  BY <1>4, <1>5, <1>6, <1>7
<1>9. EQ_MAX * l >= EQ_MAX * (k + 1) /\ EQ_MAX * (k + 1) = EQ_MAX * k + EQ_MAX
  BY <1>7, <1>8
<1> QED
  BY <1>4, <1>5, <1>6, <1>7, <1>9

\* Only such a look leaves a call where it hangs.
LEMMA HangCases ==
  ASSUME NEW c \in Callers, TypeOK, [Next]_vars, pc[c] # "hung", pc'[c] = "hung"
  PROVE  ProbeBusyForever(c)
<1> USE DEF TypeOK, CallType, Goto
<1>1. ASSUME NEW d \in Callers, CallStep(d) PROVE ProbeBusyForever(c)
  <2>1. CASE TstoreDrops(d) \/ AtomicIncrement(d) \/ InvalidateState(d) \/ ReadTail(d)
             \/ ProbeFree(d) \/ TakeSlot(d) \/ SlotLocked(d)
    BY <2>1 DEF TstoreDrops, AtomicIncrement, InvalidateState, ReadTail, ProbeFree, TakeSlot,
                SlotLocked
  <2>2. CASE MarkValid(d) \/ GiveBack(d) \/ FillFields(d) \/ UnlockSlot(d) \/ StoreTail(d)
    BY <2>2 DEF MarkValid, GiveBack, FillFields, UnlockSlot, StoreTail
  <2>3. CASE ProbeBusyForever(d)
    BY <2>3 DEF ProbeBusyForever
  <2> QED
    BY <1>1, <2>1, <2>2, <2>3 DEF CallStep
<1>2. ASSUME NEW d \in Callers, NEW s \in States, Tstore(d, s) PROVE ProbeBusyForever(c)
  BY <1>2 DEF Tstore, TstoreTriggers, TstoreCancelled
<1>3. ASSUME NEW q \in Program, ProgramStep(q) PROVE ProbeBusyForever(c)
  BY <1>3 DEF ProgramStep, BarrierReadsCancel, BarrierStopsWaiting, BarrierReturns,
              ValidateClearsCancel
<1>4. ASSUME NEW q \in Program, NEW s \in States, ProgramCall(q, s) PROVE ProbeBusyForever(c)
  BY <1>4 DEF ProgramCall, BarrierEnter, DttInvalidate, DttValidate, DttCancel
<1>5. CASE UNCHANGED pc
  BY <1>5
<1>6. ASSUME NEW w \in Workers, WorkerStep(w) PROVE UNCHANGED pc
  BY <1>6, WorkerFrame
<1> QED
  BY <1>1, <1>2, <1>3, <1>4, <1>5, <1>6, NextCases DEF DttInit, vars

\* In a build that looks at a busy entry only once, one program thread that
\* stores to triggers is not held up by the first EQ_MAX of its events.
HungLate == \A c \in Program : pc[c] = "hung" => issued > EQ_MAX

LEMMA HungSinceRound ==
  ASSUME NEW p, Program = {p}, ~Nested PROVE Spec => []HungLate
<1> p \in Callers
  BY DEF Callers
<1>1. Init => HungLate
  BY DEF Init, HungLate, Callers
<1>2. IInv /\ OrderInv /\ HungLate /\ [Next]_vars => HungLate'
  <2> SUFFICES ASSUME IInv, OrderInv, HungLate, [Next]_vars, pc'[p] = "hung"
               PROVE  issued' > EQ_MAX
    BY DEF HungLate
  <2> USE RingAssumption DEF IInv, TypeOK, HistoryType
  <2>1. issued' >= issued /\ issued \in Nat /\ issued' \in Nat
    <3>1. issued' = issued \/ issued' = issued + 1
      BY OrderCases DEF OrderInv, SameStage, TstoreTriggers, ReadTail, MarkValid, StoreTail, history
    <3> QED
      BY <3>1
  <2>2. CASE pc[p] = "hung"
    BY <2>1, <2>2 DEF HungLate
  <2>3. CASE pc[p] # "hung"
    <3>1. ProbeBusyForever(p)
      BY <2>3, HangCases
    <3> QED
      BY <2>1, <3>1, BusySinceRound
  <2> QED
    BY <2>2, <2>3
<1> QED
  BY <1>1, <1>2, OrderCorrect, IInvCorrect, PTL DEF Spec

=============================================================================
