---------------------------- MODULE LibDTTProofs ----------------------------
(***************************************************************************)
(* Proofs about the libDTT runtime, for every set of threads, any number   *)
(* of states, every size of the ring and every build.                      *)
(***************************************************************************)
EXTENDS LibDTT, FiniteSetTheorems, TLAPS

(***************************************************************************)
(* Arithmetic of the ring: the entry after an entry is an entry.           *)
(***************************************************************************)
LEMMA NextSlot ==
  \A i \in Slots : (i + 1) % EQ_MAX \in Slots
BY RingAssumption DEF Slots

(***************************************************************************)
(* Storing into a field of a ring entry leaves the ring a ring.            *)
(***************************************************************************)
LEMMA EntryUpdate ==
  ASSUME NEW r \in Entry
  PROVE  /\ \A l \in {0, 1} : [r EXCEPT !.lock = l] \in Entry
         /\ \A v \in {0, 1, 2} : [r EXCEPT !.valid = v] \in Entry
         /\ \A s \in States \cup {NoState}, e \in Events \cup {0} :
              [r EXCEPT !.state = s, !.event = e] \in Entry
<1>1. \A l \in {0, 1} : [r EXCEPT !.lock = l] \in Entry
  BY DEF Entry
<1>2. \A v \in {0, 1, 2} : [r EXCEPT !.valid = v] \in Entry
  BY DEF Entry
<1>3. \A s \in States \cup {NoState}, e \in Events \cup {0} :
        [r EXCEPT !.state = s, !.event = e] \in Entry
  BY DEF Entry
<1> QED
  BY <1>1, <1>2, <1>3

LEMMA RingUpdate ==
  ASSUME NEW q \in [Slots -> Entry], NEW i \in Slots
  PROVE  /\ \A l \in {0, 1} : [q EXCEPT ![i].lock = l] \in [Slots -> Entry]
         /\ \A v \in {0, 1, 2} : [q EXCEPT ![i].valid = v] \in [Slots -> Entry]
         /\ \A s \in States \cup {NoState}, e \in Events \cup {0} :
              [q EXCEPT ![i].state = s, ![i].event = e] \in [Slots -> Entry]
<1>1. \A l \in {0, 1} : [q EXCEPT ![i].lock = l] \in [Slots -> Entry]
  BY EntryUpdate
<1>2. \A v \in {0, 1, 2} : [q EXCEPT ![i].valid = v] \in [Slots -> Entry]
  BY EntryUpdate
<1>3. ASSUME NEW s \in States \cup {NoState}, NEW e \in Events \cup {0}
      PROVE  [q EXCEPT ![i].state = s, ![i].event = e] \in [Slots -> Entry]
  BY EntryUpdate
<1> QED
  BY <1>1, <1>2, <1>3

-----------------------------------------------------------------------------
(* Which actions write what.                                               *)

\* The kinds of steps.
LEMMA NextCases ==
  ASSUME [Next]_vars
  PROVE  \/ \E c \in Callers : CallStep(c)
         \/ \E c \in Callers, s \in States : Tstore(c, s)
         \/ \E p \in Program : ProgramStep(p)
         \/ \E p \in Program, s \in States : ProgramCall(p, s)
         \/ \E p \in Program, w \in Workers : DttInit(p, w)
         \/ \E w \in Workers : WorkerStep(w)
         \/ UNCHANGED vars
BY DEF Next

\* The flags of the states are written in five places of the program and in
\* two of the worker.
LEMMA FlagWriters ==
  ASSUME [Next]_vars
  PROVE  \/ UNCHANGED flags
         \/ \E c \in Callers : TstoreDrops(c) \/ AtomicIncrement(c) \/ InvalidateState(c)
         \/ \E p \in Program : BarrierReturns(p) \/ ValidateClearsCancel(p)
         \/ \E p \in Program, s \in States : DttInvalidate(p, s) \/ DttValidate(p, s) \/ DttCancel(p, s)
         \/ \E w \in Workers : AtomicDecrement(w) \/ ValidateState(w)
<1>1. ASSUME NEW c \in Callers, CallStep(c)
      PROVE  UNCHANGED flags \/ TstoreDrops(c) \/ AtomicIncrement(c) \/ InvalidateState(c)
  BY <1>1 DEF CallStep, ReadTail, ProbeFree, ProbeBusyForever, TakeSlot, SlotLocked,
              MarkValid, GiveBack, FillFields, UnlockSlot, StoreTail
<1>2. ASSUME NEW c \in Callers, NEW s \in States, Tstore(c, s) PROVE UNCHANGED flags
  BY <1>2 DEF Tstore, TstoreTriggers, TstoreCancelled
<1>3. ASSUME NEW p \in Program, ProgramStep(p)
      PROVE  UNCHANGED flags \/ BarrierReturns(p) \/ ValidateClearsCancel(p)
  BY <1>3 DEF ProgramStep, BarrierReadsCancel, BarrierStopsWaiting
<1>4. ASSUME NEW p \in Program, NEW s \in States, ProgramCall(p, s)
      PROVE  UNCHANGED flags \/ DttInvalidate(p, s) \/ DttValidate(p, s) \/ DttCancel(p, s)
  BY <1>4 DEF ProgramCall, BarrierEnter
<1>5. ASSUME NEW p \in Program, NEW w \in Workers, DttInit(p, w) PROVE UNCHANGED flags
  BY <1>5 DEF DttInit
<1>6. ASSUME NEW w \in Workers, WorkerStep(w)
      PROVE  UNCHANGED flags \/ AtomicDecrement(w) \/ ValidateState(w)
  BY <1>6 DEF WorkerStep, ScanStep, ScanSkip, ScanFind, GrabEntry, EntryLocked, MarkRunning,
              LockGrabbed, RunSupportFunction, ClearEntry, TestPending, ReleaseEntry
<1>7. UNCHANGED vars => UNCHANGED flags
  BY DEF vars, flags
<1> QED
  BY <1>1, <1>2, <1>3, <1>4, <1>5, <1>6, <1>7, NextCases

\* The ring is written only under the lock of an entry, or by taking it.
LEMMA RingWriters ==
  ASSUME [Next]_vars
  PROVE  \/ UNCHANGED EQ
         \/ \E c \in Callers : TakeSlot(c) \/ MarkValid(c) \/ GiveBack(c) \/ FillFields(c) \/ UnlockSlot(c)
         \/ \E w \in Workers : GrabEntry(w) \/ MarkRunning(w) \/ LockGrabbed(w) \/ ClearEntry(w) \/ ReleaseEntry(w)
<1> USE DEF ring
<1>1. ASSUME NEW c \in Callers, CallStep(c)
      PROVE  \/ UNCHANGED EQ
             \/ TakeSlot(c) \/ MarkValid(c) \/ GiveBack(c) \/ FillFields(c) \/ UnlockSlot(c)
  BY <1>1 DEF CallStep, TstoreDrops, AtomicIncrement, InvalidateState, ReadTail, ProbeFree, ProbeBusyForever, 
              SlotLocked, StoreTail
<1>2. ASSUME NEW c \in Callers, NEW s \in States, Tstore(c, s) PROVE UNCHANGED EQ
  BY <1>2 DEF Tstore, TstoreTriggers, TstoreCancelled
<1>3. ASSUME NEW p \in Program, ProgramStep(p) PROVE UNCHANGED EQ
  BY <1>3 DEF ProgramStep, BarrierReadsCancel, BarrierStopsWaiting, BarrierReturns, ValidateClearsCancel
<1>4. ASSUME NEW p \in Program, NEW s \in States, ProgramCall(p, s) PROVE UNCHANGED EQ
  BY <1>4 DEF ProgramCall, BarrierEnter, DttInvalidate, DttValidate, DttCancel
<1>5. ASSUME NEW p \in Program, NEW w \in Workers, DttInit(p, w) PROVE UNCHANGED EQ
  BY <1>5 DEF DttInit
<1>6. ASSUME NEW w \in Workers, WorkerStep(w)
      PROVE  \/ UNCHANGED EQ
             \/ GrabEntry(w) \/ MarkRunning(w) \/ LockGrabbed(w) \/ ClearEntry(w) \/ ReleaseEntry(w)
  BY <1>6 DEF WorkerStep, ScanStep, ScanSkip, ScanFind, EntryLocked, 
               RunSupportFunction,AtomicDecrement, TestPending, ValidateState
<1>7. UNCHANGED vars => UNCHANGED EQ
  BY DEF vars
<1> QED
  BY <1>1, <1>2, <1>3, <1>4, <1>5, <1>6, <1>7, NextCases

\* EQ_tail is written by the last step of dtt_event_create only.
LEMMA TailWriters ==
  ASSUME [Next]_vars
  PROVE  UNCHANGED EQ_tail \/ \E c \in Callers : StoreTail(c)
<1> USE DEF ring
<1>1. ASSUME NEW c \in Callers, CallStep(c) PROVE UNCHANGED EQ_tail \/ StoreTail(c)
  BY <1>1 DEF CallStep, TstoreDrops, AtomicIncrement, InvalidateState, ReadTail, ProbeFree,
              ProbeBusyForever, TakeSlot, SlotLocked, MarkValid, GiveBack, FillFields,
              UnlockSlot
<1>2. ASSUME NEW c \in Callers, NEW s \in States, Tstore(c, s) PROVE UNCHANGED EQ_tail
  BY <1>2 DEF Tstore, TstoreTriggers, TstoreCancelled
<1>3. ASSUME NEW p \in Program, ProgramStep(p) PROVE UNCHANGED EQ_tail
  BY <1>3 DEF ProgramStep, BarrierReadsCancel, BarrierStopsWaiting, BarrierReturns,
              ValidateClearsCancel
<1>4. ASSUME NEW p \in Program, NEW s \in States, ProgramCall(p, s) PROVE UNCHANGED EQ_tail
  BY <1>4 DEF ProgramCall, BarrierEnter, DttInvalidate, DttValidate, DttCancel
<1>5. ASSUME NEW p \in Program, NEW w \in Workers, DttInit(p, w) PROVE UNCHANGED EQ_tail
  BY <1>5 DEF DttInit
<1>6. ASSUME NEW w \in Workers, WorkerStep(w) PROVE UNCHANGED EQ_tail
  BY <1>6 DEF WorkerStep, ScanStep, ScanSkip, ScanFind, GrabEntry, EntryLocked, MarkRunning,
              LockGrabbed, RunSupportFunction, ClearEntry, AtomicDecrement, TestPending,
              ValidateState, ReleaseEntry
<1>7. UNCHANGED vars => UNCHANGED EQ_tail
  BY DEF vars
<1> QED
  BY <1>1, <1>2, <1>3, <1>4, <1>5, <1>6, <1>7, NextCases

LEMMA HistoryWriters ==
  ASSUME [Next]_vars
  PROVE  \/ UNCHANGED history
         \/ \E c \in Callers : TstoreDrops(c) \/ InvalidateState(c)
         \/ \E c \in Callers, s \in States : TstoreTriggers(c, s)
         \/ \E p \in Program, s \in States : DttInvalidate(p, s)
         \/ \E w \in Workers : RunSupportFunction(w)
<1>1. ASSUME NEW c \in Callers, CallStep(c)
      PROVE  UNCHANGED history \/ TstoreDrops(c) \/ InvalidateState(c)
  BY <1>1 DEF CallStep, AtomicIncrement, ReadTail, ProbeFree, ProbeBusyForever, TakeSlot,
              SlotLocked, MarkValid, GiveBack, FillFields, UnlockSlot, StoreTail
<1>2. ASSUME NEW c \in Callers, NEW s \in States, Tstore(c, s)
      PROVE  UNCHANGED history \/ TstoreTriggers(c, s)
  BY <1>2 DEF Tstore, TstoreCancelled
<1>3. ASSUME NEW p \in Program, ProgramStep(p) PROVE UNCHANGED history
  BY <1>3 DEF ProgramStep, BarrierReadsCancel, BarrierStopsWaiting, BarrierReturns,
              ValidateClearsCancel
<1>4. ASSUME NEW p \in Program, NEW s \in States, ProgramCall(p, s)
      PROVE  UNCHANGED history \/ DttInvalidate(p, s)
  BY <1>4 DEF ProgramCall, BarrierEnter, DttValidate, DttCancel
<1>5. ASSUME NEW p \in Program, NEW w \in Workers, DttInit(p, w) PROVE UNCHANGED history
  BY <1>5 DEF DttInit
<1>6. ASSUME NEW w \in Workers, WorkerStep(w)
      PROVE  UNCHANGED history \/ RunSupportFunction(w)
  BY <1>6 DEF WorkerStep, ScanStep, ScanSkip, ScanFind, GrabEntry, EntryLocked, MarkRunning,
              LockGrabbed, ClearEntry, AtomicDecrement, TestPending, ValidateState,
              ReleaseEntry
<1>7. UNCHANGED vars => UNCHANGED history
  BY DEF vars, history
<1> QED
  BY <1>1, <1>2, <1>3, <1>4, <1>5, <1>6, <1>7, NextCases

\* A worker's step leaves the calls of the others alone, and the reverse.
LEMMA WorkerFrame ==
  ASSUME NEW w \in Workers, WorkerStep(w) PROVE UNCHANGED <<pc, call>>
BY DEF WorkerStep, ScanStep, ScanSkip, ScanFind, GrabEntry, EntryLocked, MarkRunning,
       LockGrabbed, RunSupportFunction, ClearEntry, AtomicDecrement, TestPending,
       ValidateState, ReleaseEntry

LEMMA CallerFrame ==
  /\ \A c \in Callers : CallStep(c) => UNCHANGED worker
  /\ \A c \in Callers, s \in States : Tstore(c, s) => UNCHANGED worker
  /\ \A p \in Program : ProgramStep(p) => UNCHANGED worker
  /\ \A p \in Program, s \in States : ProgramCall(p, s) => UNCHANGED worker
<1>1. \A c \in Callers : CallStep(c) => UNCHANGED worker
  BY DEF CallStep, TstoreDrops, AtomicIncrement, InvalidateState, ReadTail, ProbeFree,
         ProbeBusyForever, TakeSlot, SlotLocked, MarkValid, GiveBack, FillFields,
         UnlockSlot, StoreTail
<1>2. \A c \in Callers, s \in States : Tstore(c, s) => UNCHANGED worker
  BY DEF Tstore, TstoreTriggers, TstoreCancelled
<1>3. \A p \in Program : ProgramStep(p) => UNCHANGED worker
  BY DEF ProgramStep, BarrierReadsCancel, BarrierStopsWaiting, BarrierReturns,
         ValidateClearsCancel
<1>4. \A p \in Program, s \in States : ProgramCall(p, s) => UNCHANGED worker
  BY DEF ProgramCall, BarrierEnter, DttInvalidate, DttValidate, DttCancel
<1> QED
  BY <1>1, <1>2, <1>3, <1>4

-----------------------------------------------------------------------------
(* Types                                                                   *)

\* Types hold at the start.
LEMMA TypeInit == Init => TypeOK
<1> SUFFICES ASSUME Init PROVE TypeOK
  OBVIOUS
<1>1. 0 \in Slots /\ MaxEvents \in Nat
  BY RingAssumption DEF Slots
<1>2. RingType
  BY <1>1 DEF Init, RingType, Entry
<1>3. FlagsType /\ HistoryType
  BY <1>1 DEF Init, FlagsType, HistoryType
<1>4. CallType /\ WorkerType
  BY <1>1 DEF Init, CallType, WorkerType, CallerPC, WorkerPC
<1> QED
  BY <1>2, <1>3, <1>4 DEF TypeOK

LEMMA RingTypeNext == ASSUME TypeOK, [Next]_vars PROVE RingType'
<1> USE DEF TypeOK, CallType, WorkerType
<1>1. EQ' \in [Slots -> Entry]
  <2>1. CASE UNCHANGED EQ
    BY <2>1 DEF RingType
  <2>2. ASSUME NEW c \in Callers,
               TakeSlot(c) \/ MarkValid(c) \/ GiveBack(c) \/ FillFields(c) \/ UnlockSlot(c)
        PROVE  EQ' \in [Slots -> Entry]
    <3> now[c] \in Slots
      OBVIOUS
    <3>1. CASE TakeSlot(c)
      BY <3>1, RingUpdate DEF RingType, TakeSlot
    <3>2. CASE MarkValid(c)
      BY <3>2, RingUpdate DEF RingType, MarkValid
    <3>3. CASE GiveBack(c)
      BY <3>3, RingUpdate DEF RingType, GiveBack
    <3>4. CASE FillFields(c)
      BY <3>4, RingUpdate DEF RingType, FillFields
    <3>5. CASE UnlockSlot(c)
      BY <3>5, RingUpdate DEF RingType, UnlockSlot
    <3> QED
      BY <2>2, <3>1, <3>2, <3>3, <3>4, <3>5
  <2>3. ASSUME NEW w \in Workers,
               \/ GrabEntry(w) \/ MarkRunning(w) \/ LockGrabbed(w) \/ ClearEntry(w)
               \/ ReleaseEntry(w)
        PROVE  EQ' \in [Slots -> Entry]
    <3> wnow[w] \in Slots
      OBVIOUS
    <3>1. CASE GrabEntry(w)
      BY <3>1, RingUpdate DEF RingType, GrabEntry
    <3>2. CASE MarkRunning(w)
      BY <3>2, RingUpdate DEF RingType, MarkRunning
    <3>3. CASE LockGrabbed(w)
      BY <3>3, RingUpdate DEF RingType, LockGrabbed
    <3>4. CASE ClearEntry(w)
      BY <3>4, RingUpdate DEF RingType, ClearEntry
    <3>5. CASE ReleaseEntry(w)
      BY <3>5, RingUpdate DEF RingType, ReleaseEntry
    <3> QED
      BY <2>3, <3>1, <3>2, <3>3, <3>4, <3>5
  <2> QED
    BY <2>1, <2>2, <2>3, RingWriters
<1>2. EQ_tail' \in Slots
  <2>1. ASSUME NEW c \in Callers, StoreTail(c) PROVE EQ_tail' \in Slots
    BY <2>1 DEF StoreTail
  <2> QED
    BY <2>1, TailWriters DEF RingType
<1> QED
  BY <1>1, <1>2 DEF RingType

LEMMA FlagsTypeNext == ASSUME TypeOK, [Next]_vars PROVE FlagsType'
<1> USE DEF TypeOK, FlagsType
<1>1. CASE UNCHANGED flags
  BY <1>1 DEF flags
<1>2. ASSUME NEW c \in Callers, TstoreDrops(c) \/ AtomicIncrement(c) \/ InvalidateState(c)
      PROVE  FlagsType'
  BY <1>2 DEF TstoreDrops, AtomicIncrement, InvalidateState
<1>3. ASSUME NEW p \in Program, BarrierReturns(p) \/ ValidateClearsCancel(p)
      PROVE  FlagsType'
  BY <1>3 DEF BarrierReturns, ValidateClearsCancel
<1>4. ASSUME NEW p \in Program, NEW s \in States,
             DttInvalidate(p, s) \/ DttValidate(p, s) \/ DttCancel(p, s)
      PROVE  FlagsType'
  BY <1>4 DEF DttInvalidate, DttValidate, DttCancel
<1>5. ASSUME NEW w \in Workers, AtomicDecrement(w) \/ ValidateState(w) PROVE FlagsType'
  BY <1>5 DEF AtomicDecrement, ValidateState
<1> QED
  BY <1>1, <1>2, <1>3, <1>4, <1>5, FlagWriters

LEMMA CallTypeNext == ASSUME TypeOK, [Next]_vars PROVE CallType'
<1> USE DEF TypeOK, CallType, CallerPC, Goto, call
<1>1. ASSUME NEW c \in Callers, CallStep(c) PROVE CallType'
  <2>1. CASE ReadTail(c)
    BY <2>1, NextSlot DEF ReadTail, RingType
  <2>2. CASE TstoreDrops(c) \/ AtomicIncrement(c) \/ InvalidateState(c) \/ ProbeFree(c)
             \/ ProbeBusyForever(c) \/ TakeSlot(c) \/ SlotLocked(c)
    BY <2>2 DEF TstoreDrops, AtomicIncrement, InvalidateState, ProbeFree, ProbeBusyForever,
                TakeSlot, SlotLocked
  <2>3. CASE MarkValid(c) \/ GiveBack(c) \/ FillFields(c) \/ UnlockSlot(c) \/ StoreTail(c)
    BY <2>3 DEF MarkValid, GiveBack, FillFields, UnlockSlot, StoreTail
  <2> QED
    BY <1>1, <2>1, <2>2, <2>3 DEF CallStep
<1>2. ASSUME NEW c \in Callers, NEW s \in States, Tstore(c, s) PROVE CallType'
  <2>1. CASE TstoreTriggers(c, s)
    <3>1. issued + 1 \in Events
      BY <2>1, RingAssumption DEF TstoreTriggers, Events, HistoryType
    <3> QED
      BY <2>1, <3>1 DEF TstoreTriggers
  <2>2. CASE TstoreCancelled(c, s)
    BY <2>2 DEF TstoreCancelled
  <2> QED
    BY <1>2, <2>1, <2>2 DEF Tstore
<1>3. ASSUME NEW p \in Program, ProgramStep(p) PROVE CallType'
  BY <1>3 DEF ProgramStep, BarrierReadsCancel, BarrierStopsWaiting, BarrierReturns,
              ValidateClearsCancel, Callers
<1>4. ASSUME NEW p \in Program, NEW s \in States, ProgramCall(p, s) PROVE CallType'
  BY <1>4 DEF ProgramCall, BarrierEnter, DttInvalidate, DttValidate, DttCancel, Callers
<1>5. CASE UNCHANGED <<pc, call>>
  BY <1>5
<1> QED
  BY <1>1, <1>2, <1>3, <1>4, <1>5, NextCases, WorkerFrame DEF DttInit, vars

LEMMA WorkerTypeNext == ASSUME TypeOK, [Next]_vars PROVE WorkerType'
<1> USE DEF TypeOK, WorkerType, WorkerPC, WorkerGoto, NextEntry, worker
<1>1. ASSUME NEW w \in Workers, WorkerStep(w) PROVE WorkerType'
  <2>1. CASE ScanSkip(w) \/ EntryLocked(w) \/ LockGrabbed(w) \/ ReleaseEntry(w)
    BY <2>1, NextSlot DEF ScanSkip, EntryLocked, LockGrabbed, ReleaseEntry
  <2>2. CASE ScanFind(w) \/ GrabEntry(w) \/ MarkRunning(w) \/ RunSupportFunction(w)
             \/ ClearEntry(w) \/ AtomicDecrement(w) \/ TestPending(w) \/ ValidateState(w)
    BY <2>2 DEF ScanFind, GrabEntry, MarkRunning, RunSupportFunction, ClearEntry,
                AtomicDecrement, TestPending, ValidateState
  <2> QED
    BY <1>1, <2>1, <2>2 DEF WorkerStep, ScanStep
<1>2. ASSUME NEW p \in Program, NEW w \in Workers, DttInit(p, w) PROVE WorkerType'
  BY <1>2 DEF DttInit
<1>3. CASE UNCHANGED worker
  BY <1>3
<1> QED
  BY <1>1, <1>2, <1>3, CallerFrame, NextCases DEF vars

LEMMA HistoryTypeNext == ASSUME TypeOK, [Next]_vars PROVE HistoryType'
<1> USE DEF TypeOK, HistoryType
<1>1. CASE UNCHANGED history
  BY <1>1 DEF history
<1>2. ASSUME NEW c \in Callers, TstoreDrops(c) \/ InvalidateState(c) PROVE HistoryType'
  BY <1>2 DEF TstoreDrops, InvalidateState
<1>3. ASSUME NEW c \in Callers, NEW s \in States, TstoreTriggers(c, s) PROVE HistoryType'
  <2>1. issued' \in 0 .. MaxEvents
    BY <1>3, RingAssumption DEF TstoreTriggers
  <2>2. source' \in [Events -> States \cup {NoState}]
    <3>1. source' = [source EXCEPT ![issued + 1] = s]
      BY <1>3 DEF TstoreTriggers
    <3> QED
      BY <3>1
  <2> QED
    BY <1>3, <2>1, <2>2 DEF TstoreTriggers
<1>4. ASSUME NEW p \in Program, NEW s \in States, DttInvalidate(p, s) PROVE HistoryType'
  BY <1>4 DEF DttInvalidate
<1>5. ASSUME NEW w \in Workers, RunSupportFunction(w) PROVE HistoryType'
  <2>1. ran' \in [Events -> Nat]
    <3> DEFINE e == EQ[wnow[w]].event
    <3>1. ran' = [ran EXCEPT ![e] = @ + 1]
      BY <1>5 DEF RunSupportFunction
    <3> HIDE DEF e
    <3>2. CASE e \in Events
      BY <3>1, <3>2
    <3>3. CASE e \notin Events
      BY <3>1, <3>3
    <3> QED
      BY <3>2, <3>3
  <2>2. UNCHANGED <<issued, source, invalidator>>
    BY <1>5 DEF RunSupportFunction
  <2> QED
    BY <2>1, <2>2
<1> QED
  BY <1>1, <1>2, <1>3, <1>4, <1>5, HistoryWriters

LEMMA TypeNext == ASSUME TypeOK, [Next]_vars PROVE TypeOK'
BY RingTypeNext, FlagsTypeNext, CallTypeNext, WorkerTypeNext, HistoryTypeNext DEF TypeOK

\* Every variable of the runtime keeps its type; in particular state is never
\* 2 or 3, so that the loop of dtt_barrier on state is never entered.
THEOREM TypeCorrect == Spec => []TypeOK
BY TypeInit, TypeNext, PTL DEF Spec

-----------------------------------------------------------------------------
(* The ownership of the ring entries                                       *)

\* A step that takes or gives back no lock changes neither the locks nor who
\* holds them.
LEMMA HoldersKept ==
  ASSUME TypeOK, [Next]_vars,
         \A c \in Callers : ~(TakeSlot(c) \/ GiveBack(c) \/ UnlockSlot(c)),
         \A w \in Workers : ~(GrabEntry(w) \/ LockGrabbed(w) \/ ReleaseEntry(w))
  PROVE  /\ \A c \in Callers, i \in Slots : HoldsAsCaller(c, i)' <=> HoldsAsCaller(c, i)
         /\ \A w \in Workers, i \in Slots : HoldsAsWorker(w, i)' <=> HoldsAsWorker(w, i)
         /\ \A i \in Slots : EQ'[i].lock = EQ[i].lock
<1> USE DEF TypeOK
<1>1. \A i \in Slots : EQ'[i].lock = EQ[i].lock
  <2>1. ASSUME NEW c \in Callers, MarkValid(c) \/ FillFields(c)
        PROVE  \A i \in Slots : EQ'[i].lock = EQ[i].lock
    BY <2>1 DEF MarkValid, FillFields, RingType, Entry
  <2>2. ASSUME NEW w \in Workers, MarkRunning(w) \/ ClearEntry(w)
        PROVE  \A i \in Slots : EQ'[i].lock = EQ[i].lock
    BY <2>2 DEF MarkRunning, ClearEntry, RingType, Entry
  <2> QED
    BY <2>1, <2>2, RingWriters
<1>2. \A c \in Callers, i \in Slots : HoldsAsCaller(c, i)' <=> HoldsAsCaller(c, i)
  <2> USE DEF HoldsAsCaller, CallType, Goto, call
  <2>1. ASSUME NEW c \in Callers, CallStep(c)
        PROVE  \A d \in Callers, i \in Slots : HoldsAsCaller(d, i)' <=> HoldsAsCaller(d, i)
    <3>1. CASE TstoreDrops(c) \/ AtomicIncrement(c) \/ InvalidateState(c) \/ ReadTail(c)
               \/ ProbeFree(c) \/ ProbeBusyForever(c)
      BY <3>1 DEF TstoreDrops, AtomicIncrement, InvalidateState, ReadTail, ProbeFree,
                  ProbeBusyForever
    <3>2. CASE SlotLocked(c) \/ MarkValid(c) \/ FillFields(c) \/ StoreTail(c)
      BY <3>2 DEF SlotLocked, MarkValid, FillFields, StoreTail
    <3> QED
      BY <2>1, <3>1, <3>2 DEF CallStep
  <2>2. ASSUME NEW c \in Callers, NEW s \in States, Tstore(c, s)
        PROVE  \A d \in Callers, i \in Slots : HoldsAsCaller(d, i)' <=> HoldsAsCaller(d, i)
    BY <2>2 DEF Tstore, TstoreTriggers, TstoreCancelled
  <2>3. ASSUME NEW p \in Program, ProgramStep(p)
        PROVE  \A d \in Callers, i \in Slots : HoldsAsCaller(d, i)' <=> HoldsAsCaller(d, i)
    BY <2>3 DEF ProgramStep, BarrierReadsCancel, BarrierStopsWaiting, BarrierReturns,
                ValidateClearsCancel, Callers
  <2>4. ASSUME NEW p \in Program, NEW s \in States, ProgramCall(p, s)
        PROVE  \A d \in Callers, i \in Slots : HoldsAsCaller(d, i)' <=> HoldsAsCaller(d, i)
    BY <2>4 DEF ProgramCall, BarrierEnter, DttInvalidate, DttValidate, DttCancel, Callers
  <2>5. CASE UNCHANGED <<pc, call>>
    BY <2>5
  <2> QED
    BY <2>1, <2>2, <2>3, <2>4, <2>5, NextCases, WorkerFrame DEF DttInit, vars
<1>3. \A w \in Workers, i \in Slots : HoldsAsWorker(w, i)' <=> HoldsAsWorker(w, i)
  <2> USE DEF HoldsAsWorker, WorkerType, WorkerGoto, NextEntry, worker
  <2>1. ASSUME NEW w \in Workers, WorkerStep(w)
        PROVE  \A v \in Workers, i \in Slots : HoldsAsWorker(v, i)' <=> HoldsAsWorker(v, i)
    <3>1. CASE ScanSkip(w) \/ ScanFind(w) \/ EntryLocked(w) \/ MarkRunning(w)
               \/ RunSupportFunction(w)
      BY <3>1 DEF ScanSkip, ScanFind, EntryLocked, MarkRunning, RunSupportFunction
    <3>2. CASE ClearEntry(w) \/ AtomicDecrement(w) \/ TestPending(w) \/ ValidateState(w)
      BY <3>2 DEF ClearEntry, AtomicDecrement, TestPending, ValidateState
    <3> QED
      BY <2>1, <3>1, <3>2 DEF WorkerStep, ScanStep
  <2>2. ASSUME NEW p \in Program, NEW w \in Workers, DttInit(p, w)
        PROVE  \A v \in Workers, i \in Slots : HoldsAsWorker(v, i)' <=> HoldsAsWorker(v, i)
    BY <2>2 DEF DttInit
  <2>3. CASE UNCHANGED worker
    BY <2>3
  <2> QED
    BY <2>1, <2>2, <2>3, CallerFrame, NextCases DEF vars
<1> QED
  BY <1>1, <1>2, <1>3

\* A caller takes a free entry k, or gives back the one it holds.
LEMMA CallerLocks ==
  ASSUME TypeOK, NEW c \in Callers, NEW k \in Slots, k = now[c],
         TakeSlot(c) \/ GiveBack(c) \/ UnlockSlot(c)
  PROVE  /\ \A w \in Workers, i \in Slots : HoldsAsWorker(w, i)' <=> HoldsAsWorker(w, i)
         /\ \A d \in Callers \ {c}, i \in Slots : HoldsAsCaller(d, i)' <=> HoldsAsCaller(d, i)
         /\ \A i \in Slots \ {k} : /\ EQ'[i].lock = EQ[i].lock
                                   /\ ~HoldsAsCaller(c, i) /\ ~HoldsAsCaller(c, i)'
         /\ TakeSlot(c) => EQ[k].lock = 0 /\ EQ'[k].lock = 1 /\ HoldsAsCaller(c, k)'
         /\ ~TakeSlot(c) => HoldsAsCaller(c, k) /\ EQ'[k].lock = 0 /\ ~HoldsAsCaller(c, k)'
<1> USE DEF TypeOK, HoldsAsCaller, HoldsAsWorker, CallType, RingType, Entry, Goto, call, worker
<1>1. CASE TakeSlot(c)
  BY <1>1 DEF TakeSlot
<1>2. CASE GiveBack(c)
  BY <1>2 DEF GiveBack, TakeSlot
<1>3. CASE UnlockSlot(c)
  BY <1>3 DEF UnlockSlot, TakeSlot
<1> QED
  BY <1>1, <1>2, <1>3

\* The same for a worker.
LEMMA WorkerLocks ==
  ASSUME TypeOK, NEW w \in Workers, NEW k \in Slots, k = wnow[w],
         GrabEntry(w) \/ LockGrabbed(w) \/ ReleaseEntry(w)
  PROVE  /\ \A c \in Callers, i \in Slots : HoldsAsCaller(c, i)' <=> HoldsAsCaller(c, i)
         /\ \A v \in Workers \ {w}, i \in Slots : HoldsAsWorker(v, i)' <=> HoldsAsWorker(v, i)
         /\ \A i \in Slots \ {k} : /\ EQ'[i].lock = EQ[i].lock
                                   /\ ~HoldsAsWorker(w, i) /\ ~HoldsAsWorker(w, i)'
         /\ GrabEntry(w) => EQ[k].lock = 0 /\ EQ'[k].lock = 1 /\ HoldsAsWorker(w, k)'
         /\ ~GrabEntry(w) => HoldsAsWorker(w, k) /\ EQ'[k].lock = 0 /\ ~HoldsAsWorker(w, k)'
<1> USE DEF TypeOK, HoldsAsCaller, HoldsAsWorker, WorkerType, RingType, Entry, WorkerGoto,
            call, NextEntry
<1>1. CASE GrabEntry(w)
  BY <1>1 DEF GrabEntry
<1>2. CASE LockGrabbed(w)
  BY <1>2 DEF LockGrabbed, GrabEntry
<1>3. CASE ReleaseEntry(w)
  BY <1>3 DEF ReleaseEntry, GrabEntry
<1> QED
  BY <1>1, <1>2, <1>3

\* Locks and holders go together.
LEMMA LocksNext == ASSUME TypeOK, LockHeld, OneHolder, [Next]_vars
                   PROVE  LockHeld' /\ OneHolder'
<1>1. CASE /\ \A c \in Callers : ~(TakeSlot(c) \/ GiveBack(c) \/ UnlockSlot(c))
           /\ \A w \in Workers : ~(GrabEntry(w) \/ LockGrabbed(w) \/ ReleaseEntry(w))
  BY <1>1, HoldersKept DEF LockHeld, OneHolder
<1>2. ASSUME NEW c \in Callers, TakeSlot(c) \/ GiveBack(c) \/ UnlockSlot(c)
      PROVE  LockHeld' /\ OneHolder'
  <2>1. PICK k \in Slots : k = now[c]
    BY DEF TypeOK, CallType
  <2>2. \A i \in Slots \ {k} : /\ EQ'[i].lock = EQ[i].lock
                               /\ \A d \in Callers : HoldsAsCaller(d, i)' <=> HoldsAsCaller(d, i)
                               /\ \A w \in Workers : HoldsAsWorker(w, i)' <=> HoldsAsWorker(w, i)
    BY <1>2, <2>1, CallerLocks
  <2>3. CASE TakeSlot(c)
    <3>1. EQ[k].lock = 0 /\ EQ'[k].lock = 1 /\ HoldsAsCaller(c, k)'
      BY <1>2, <2>1, <2>3, CallerLocks
    <3>2. /\ \A d \in Callers \ {c} : ~HoldsAsCaller(d, k)'
          /\ \A w \in Workers : ~HoldsAsWorker(w, k)'
      BY <1>2, <2>1, <3>1, CallerLocks DEF LockHeld
    <3> QED
      BY <2>2, <3>1, <3>2 DEF LockHeld, OneHolder
  <2>4. CASE ~TakeSlot(c)
    <3>1. HoldsAsCaller(c, k) /\ EQ'[k].lock = 0 /\ ~HoldsAsCaller(c, k)'
      BY <1>2, <2>1, <2>4, CallerLocks
    <3>2. /\ \A d \in Callers : ~HoldsAsCaller(d, k)'
          /\ \A w \in Workers : ~HoldsAsWorker(w, k)'
      BY <1>2, <2>1, <3>1, CallerLocks DEF OneHolder
    <3> QED
      BY <2>2, <3>1, <3>2 DEF LockHeld, OneHolder
  <2> QED
    BY <2>3, <2>4
<1>3. ASSUME NEW w \in Workers, GrabEntry(w) \/ LockGrabbed(w) \/ ReleaseEntry(w)
      PROVE  LockHeld' /\ OneHolder'
  <2>1. PICK k \in Slots : k = wnow[w]
    BY DEF TypeOK, WorkerType
  <2>2. \A i \in Slots \ {k} : /\ EQ'[i].lock = EQ[i].lock
                               /\ \A c \in Callers : HoldsAsCaller(c, i)' <=> HoldsAsCaller(c, i)
                               /\ \A v \in Workers : HoldsAsWorker(v, i)' <=> HoldsAsWorker(v, i)
    BY <1>3, <2>1, WorkerLocks
  <2>3. CASE GrabEntry(w)
    <3>1. EQ[k].lock = 0 /\ EQ'[k].lock = 1 /\ HoldsAsWorker(w, k)'
      BY <1>3, <2>1, <2>3, WorkerLocks
    <3>2. /\ \A v \in Workers \ {w} : ~HoldsAsWorker(v, k)'
          /\ \A c \in Callers : ~HoldsAsCaller(c, k)'
      BY <1>3, <2>1, <3>1, WorkerLocks DEF LockHeld
    <3> QED
      BY <2>2, <3>1, <3>2 DEF LockHeld, OneHolder
  <2>4. CASE ~GrabEntry(w)
    <3>1. HoldsAsWorker(w, k) /\ EQ'[k].lock = 0 /\ ~HoldsAsWorker(w, k)'
      BY <1>3, <2>1, <2>4, WorkerLocks
    <3>2. /\ \A v \in Workers : ~HoldsAsWorker(v, k)'
          /\ \A c \in Callers : ~HoldsAsCaller(c, k)'
      BY <1>3, <2>1, <3>1, WorkerLocks DEF OneHolder
    <3> QED
      BY <2>2, <3>1, <3>2 DEF LockHeld, OneHolder
  <2> QED
    BY <2>3, <2>4
<1> QED
  BY <1>1, <1>2, <1>3

-----------------------------------------------------------------------------
(* The way of an event through the runtime                                 *)

\* The steps that move an event on, or that count it.
Moves ==
  \/ \E c \in Callers, s \in States : TstoreTriggers(c, s)
  \/ \E c \in Callers : AtomicIncrement(c) \/ MarkValid(c) \/ FillFields(c)
  \/ \E w \in Workers : MarkRunning(w) \/ RunSupportFunction(w) \/ ClearEntry(w) \/ AtomicDecrement(w)

\* What all other steps leave alone: the calls that post an event, ...
SameCalls ==
  \A c \in Callers :
    /\ Posting(c)' <=> Posting(c)
    /\ Posting(c) => entry'[c] = entry[c] /\ event'[c] = event[c]
    /\ pc'[c] = "increment" <=> pc[c] = "increment"
    /\ pc'[c] = "fields" <=> pc[c] = "fields"
    /\ pc[c] = "fields" => now'[c] = now[c]

\* ... the contents of the entries ...
SameRing ==
  \A i \in Slots :
    EQ'[i].valid = EQ[i].valid /\ EQ'[i].state = EQ[i].state /\ EQ'[i].event = EQ[i].event

\* ... and the workers with an event.
SameWorkers ==
  \A w \in Workers :
    /\ wpc'[w] = "run" <=> wpc[w] = "run"
    /\ wpc'[w] = "clear" <=> wpc[w] = "clear"
    /\ wpc'[w] = "decrement" <=> wpc[w] = "decrement"
    /\ wpc'[w] \in {"run", "clear", "decrement", "test", "validate"} =>
         /\ wpc[w] \in {"run", "clear", "decrement", "test", "validate"}
         /\ wnow'[w] = wnow[w]

LEMMA QuietCalls == ASSUME TypeOK, [Next]_vars, ~Moves PROVE SameCalls
<1> USE DEF TypeOK, CallType, SameCalls, Posting, Goto, call
<1>1. ASSUME NEW c \in Callers, CallStep(c) PROVE SameCalls
  <2>1. CASE TstoreDrops(c) \/ InvalidateState(c) \/ ReadTail(c)
             \/ ProbeFree(c) \/ ProbeBusyForever(c)
    BY <2>1 DEF TstoreDrops, InvalidateState, ReadTail, ProbeFree, ProbeBusyForever
  <2>2. CASE TakeSlot(c) \/ SlotLocked(c) \/ GiveBack(c) \/ UnlockSlot(c) \/ StoreTail(c)
    BY <2>2 DEF TakeSlot, SlotLocked, GiveBack, UnlockSlot, StoreTail
  <2> QED
    BY <1>1, <2>1, <2>2 DEF CallStep, Moves
<1>2. ASSUME NEW c \in Callers, NEW s \in States, Tstore(c, s) PROVE SameCalls
  BY <1>2 DEF Tstore, TstoreCancelled, Moves
<1>3. ASSUME NEW p \in Program, ProgramStep(p) PROVE SameCalls
  BY <1>3 DEF ProgramStep, BarrierReadsCancel, BarrierStopsWaiting, BarrierReturns,
              ValidateClearsCancel, Callers
<1>4. ASSUME NEW p \in Program, NEW s \in States, ProgramCall(p, s) PROVE SameCalls
  BY <1>4 DEF ProgramCall, BarrierEnter, DttInvalidate, DttValidate, DttCancel, Callers
<1>5. CASE UNCHANGED <<pc, call>>
  BY <1>5
<1> QED
  BY <1>1, <1>2, <1>3, <1>4, <1>5, NextCases, WorkerFrame DEF DttInit, vars

LEMMA QuietRing == ASSUME TypeOK, [Next]_vars, ~Moves PROVE SameRing
<1> USE DEF TypeOK, RingType, Entry, SameRing
<1>1. CASE UNCHANGED EQ
  BY <1>1
<1>2. ASSUME NEW c \in Callers, TakeSlot(c) \/ GiveBack(c) \/ UnlockSlot(c) PROVE SameRing
  BY <1>2 DEF TakeSlot, GiveBack, UnlockSlot
<1>3. ASSUME NEW w \in Workers, GrabEntry(w) \/ LockGrabbed(w) \/ ReleaseEntry(w)
      PROVE  SameRing
  BY <1>3 DEF GrabEntry, LockGrabbed, ReleaseEntry
<1> QED
  BY <1>1, <1>2, <1>3, RingWriters DEF Moves

LEMMA QuietWorkers == ASSUME TypeOK, [Next]_vars, ~Moves PROVE SameWorkers
<1> USE DEF TypeOK, WorkerType, SameWorkers, WorkerGoto, NextEntry, worker
<1>1. ASSUME NEW w \in Workers, WorkerStep(w) PROVE SameWorkers
  <2>1. CASE ScanSkip(w) \/ ScanFind(w) \/ GrabEntry(w) \/ EntryLocked(w)
    BY <2>1 DEF ScanSkip, ScanFind, GrabEntry, EntryLocked
  <2>2. CASE LockGrabbed(w) \/ TestPending(w) \/ ValidateState(w) \/ ReleaseEntry(w)
    BY <2>2 DEF LockGrabbed, TestPending, ValidateState, ReleaseEntry
  <2> QED
    BY <1>1, <2>1, <2>2 DEF WorkerStep, ScanStep, Moves
<1>2. ASSUME NEW p \in Program, NEW w \in Workers, DttInit(p, w) PROVE SameWorkers
  BY <1>2 DEF DttInit
<1>3. CASE UNCHANGED worker
  BY <1>3
<1> QED
  BY <1>1, <1>2, <1>3, CallerFrame, NextCases DEF vars

LEMMA QuietCounts == ASSUME [Next]_vars, ~Moves PROVE UNCHANGED <<pending, issued, source, ran>>
<1>1. UNCHANGED pending
  BY FlagWriters DEF Moves, flags, TstoreDrops, InvalidateState, BarrierReturns,
     ValidateClearsCancel, DttInvalidate, DttValidate, DttCancel, ValidateState
<1>2. UNCHANGED <<issued, source, ran>>
  BY HistoryWriters DEF Moves, history, TstoreDrops, InvalidateState, DttInvalidate
<1> QED
  BY <1>1, <1>2

-----------------------------------------------------------------------------
(* Running entries                                                         *)

\* The step that marks an entry as running is that of the worker which holds
\* it, and so is the step that clears it.
LEMMA RunningNext == ASSUME TypeOK, EntryOwnership, [Next]_vars PROVE RunningMarked'
<1> USE DEF TypeOK, EntryOwnership
<1>1. CASE ~Moves
  BY <1>1, QuietRing, QuietWorkers DEF RunningMarked, Runs, SameRing, SameWorkers
<1>2. ASSUME NEW c \in Callers, \E s \in States : TstoreTriggers(c, s) PROVE RunningMarked'
  BY <1>2 DEF RunningMarked, Runs, TstoreTriggers, ring, worker
<1>3. ASSUME NEW c \in Callers, AtomicIncrement(c) PROVE RunningMarked'
  BY <1>3 DEF RunningMarked, Runs, AtomicIncrement, ring, worker
<1>4. ASSUME NEW c \in Callers, MarkValid(c) \/ FillFields(c) PROVE RunningMarked'
  <2>1. \A w \in Workers, i \in Slots : Runs(w, i)' <=> Runs(w, i)
    BY <1>4 DEF MarkValid, FillFields, Runs, worker
  <2>2. \A i \in Slots : EQ'[i].valid = 2 <=> EQ[i].valid = 2
    BY <1>4 DEF MarkValid, FillFields, RingType, Entry
  <2> QED
    BY <2>1, <2>2 DEF RunningMarked
<1>5. ASSUME NEW w \in Workers, MarkRunning(w) PROVE RunningMarked'
  <2>1. PICK k \in Slots : k = wnow[w]
    BY DEF WorkerType
  <2>2. EQ'[k].valid = 2 /\ \A i \in Slots \ {k} : EQ'[i].valid = EQ[i].valid
    BY <1>5, <2>1 DEF MarkRunning, RingType, Entry
  <2>3. Runs(w, k)' /\ \A v \in Workers, i \in Slots \ {k} : Runs(v, i)' <=> Runs(v, i)
    BY <1>5, <2>1 DEF MarkRunning, WorkerGoto, WorkerType, Runs
  <2> QED
    BY <2>2, <2>3 DEF RunningMarked
<1>6. ASSUME NEW w \in Workers, RunSupportFunction(w) PROVE RunningMarked'
  <2>1. \A v \in Workers, i \in Slots : Runs(v, i)' <=> Runs(v, i)
    BY <1>6 DEF RunSupportFunction, WorkerGoto, WorkerType, Runs
  <2> QED
    BY <1>6, <2>1 DEF RunSupportFunction, RunningMarked, ring
<1>7. ASSUME NEW w \in Workers, ClearEntry(w) PROVE RunningMarked'
  <2>1. PICK k \in Slots : k = wnow[w]
    BY DEF WorkerType
  <2>2. EQ'[k].valid = 0 /\ \A i \in Slots \ {k} : EQ'[i].valid = EQ[i].valid
    BY <1>7, <2>1 DEF ClearEntry, RingType, Entry
  <2>3. \A v \in Workers \ {w} : ~Runs(v, k)
    BY <1>7, <2>1 DEF ClearEntry, WorkerGoto, OneHolder, HoldsAsWorker, Runs
  <2>4. /\ \A v \in Workers : ~Runs(v, k)'
        /\ \A v \in Workers, i \in Slots \ {k} : Runs(v, i)' <=> Runs(v, i)
    BY <1>7, <2>1, <2>3 DEF ClearEntry, WorkerGoto, WorkerType, Runs
  <2> QED
    BY <2>2, <2>4 DEF RunningMarked
<1>8. ASSUME NEW w \in Workers, AtomicDecrement(w) PROVE RunningMarked'
  <2>1. \A v \in Workers, i \in Slots : Runs(v, i)' <=> Runs(v, i)
    BY <1>8 DEF AtomicDecrement, WorkerGoto, WorkerType, Runs
  <2> QED
    BY <1>8, <2>1 DEF AtomicDecrement, RunningMarked, ring
<1> QED
  BY <1>1, <1>2, <1>3, <1>4, <1>5, <1>6, <1>7, <1>8 DEF Moves

LEMMA OwnershipInit == Init => EntryOwnership
BY DEF Init, EntryOwnership, LockHeld, OneHolder, RunningMarked, HoldsAsCaller,
       HoldsAsWorker, Runs

\* An entry is in the hands of one thread at a time, whatever the number of
\* threads that post events and of workers that scan for them.
THEOREM OwnershipCorrect == Spec => []EntryOwnership
<1>1. TypeOK /\ EntryOwnership /\ [Next]_vars => EntryOwnership'
  BY LocksNext, RunningNext DEF EntryOwnership
<1> QED
  BY <1>1, OwnershipInit, TypeCorrect, PTL DEF Spec

=============================================================================
