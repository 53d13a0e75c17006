--------------------------- MODULE LibDTTEventProofs ---------------------------
(***************************************************************************)
(* Proofs about the events of the libDTT runtime: no event is lost or run  *)
(* twice, pending counts them, and a result is validated in the end.       *)
(***************************************************************************)
EXTENDS LibDTTProofs

(***************************************************************************)
(* The strengthening that makes the properties inductive: what the calls,  *)
(* entries and workers refer to.                                           *)
(***************************************************************************)
CallsRefer ==
  \A c \in Callers : Posting(c) =>
    entry[c] \in States /\ event[c] \in 1 .. issued /\ source[event[c]] = entry[c]

EntriesRefer ==
  \A i \in Slots : Filled(i) =>
    /\ EQ[i].state \in States /\ EQ[i].event \in 1 .. issued
    /\ source[EQ[i].event] = EQ[i].state

WorkersRefer ==
  \A w \in Workers :
    wpc[w] \in {"run", "clear", "decrement", "test", "validate"} => EQ[wnow[w]].state \in States

BeingFilled == \A c \in Callers : pc[c] = "fields" => EQ[now[c]].valid = 1

NotRunBefore == \A e \in Events : e > issued => ran[e] = 0

IssuedForStates == \A e \in 1 .. issued : source[e] \in States

EventFacts ==
  /\ CallsRefer /\ EntriesRefer /\ WorkersRefer /\ BeingFilled /\ NotRunBefore
  /\ IssuedForStates

IInv == TypeOK /\ EntryOwnership /\ EventFacts

-----------------------------------------------------------------------------
(* What each step that moves an event on does to the entries.  k is the    *)
(* entry the step is about.                                                *)

\* An entry is not filled while the call that marks it valid fills it.
LEMMA MarkValidEffect ==
  ASSUME TypeOK, NEW c \in Callers, MarkValid(c)
  PROVE  /\ \A i \in Slots : /\ Filled(i)' <=> Filled(i)
                             /\ EQ'[i].state = EQ[i].state /\ EQ'[i].event = EQ[i].event
         /\ \A d \in Callers : /\ Posting(d)' <=> Posting(d)
                               /\ pc'[d] = "increment" <=> pc[d] = "increment"
<1> USE DEF TypeOK, RingType, Entry, CallType, MarkValid, Goto, call
<1>1. PICK k \in Slots : k = now[c]
  OBVIOUS
<1>2. \A i \in Slots : EQ'[i].state = EQ[i].state /\ EQ'[i].event = EQ[i].event
  OBVIOUS
<1>3. ~Filled(k) /\ ~Filled(k)'
  BY <1>1 DEF Filled
<1>4. \A i \in Slots \ {k} : Filled(i)' <=> Filled(i)
  BY <1>1 DEF Filled
<1>5. \A d \in Callers : /\ Posting(d)' <=> Posting(d)
                         /\ pc'[d] = "increment" <=> pc[d] = "increment"
  BY DEF Posting
<1> QED
  BY <1>2, <1>3, <1>4, <1>5

\* The call hands its event over to the entry.
LEMMA FillFieldsEffect ==
  ASSUME TypeOK, EntryOwnership, BeingFilled,
         NEW c \in Callers, NEW k \in Slots, k = now[c], FillFields(c)
  PROVE  /\ ~Filled(k) /\ Filled(k)' /\ EQ'[k].state = entry[c] /\ EQ'[k].event = event[c]
         /\ \A i \in Slots \ {k} : /\ Filled(i)' <=> Filled(i)
                                   /\ EQ'[i].state = EQ[i].state /\ EQ'[i].event = EQ[i].event
         /\ Posting(c) /\ pc[c] = "fields" /\ ~Posting(c)'
         /\ \A d \in Callers \ {c} : pc'[d] = pc[d] /\ (Posting(d)' <=> Posting(d))
         /\ \A w \in Workers : ~HoldsAsWorker(w, k)
<1> USE DEF TypeOK, RingType, Entry, CallType, FillFields, Goto, call
<1>1. EQ'[k].valid = 1 /\ EQ'[k].state = entry[c] /\ EQ'[k].event = event[c]
  BY DEF BeingFilled
<1>2. \A i \in Slots \ {k} : EQ'[i] = EQ[i]
  OBVIOUS
<1>3. \A d \in Callers \ {c} : ~(pc[d] = "fields" /\ now[d] = k)
  BY DEF EntryOwnership, OneHolder, HoldsAsCaller
<1>4. ~Filled(k) /\ Filled(k)'
  BY <1>1, <1>3 DEF Filled
<1>5. \A i \in Slots \ {k} : Filled(i)' <=> Filled(i)
  BY <1>2 DEF Filled
<1>6. /\ Posting(c) /\ pc[c] = "fields" /\ ~Posting(c)'
      /\ \A d \in Callers \ {c} : pc'[d] = pc[d] /\ (Posting(d)' <=> Posting(d))
  BY DEF Posting
<1>7. \A w \in Workers : ~HoldsAsWorker(w, k)
  BY DEF EntryOwnership, OneHolder, HoldsAsCaller
<1> QED
  BY <1>1, <1>2, <1>4, <1>5, <1>6, <1>7

\* Nobody fills the entry that a worker holds.
LEMMA WorkerEntryFilled ==
  ASSUME TypeOK, EntryOwnership, NEW w \in Workers, NEW k \in Slots, k = wnow[w],
         HoldsAsWorker(w, k)
  PROVE  /\ Filled(k) <=> EQ[k].valid # 0
         /\ \A c \in Callers : ~(pc[c] = "fields" /\ now[c] = k)
         /\ \A v \in Workers \ {w} : ~HoldsAsWorker(v, k)
BY DEF EntryOwnership, OneHolder, HoldsAsCaller, Filled

LEMMA MarkRunningEffect ==
  ASSUME TypeOK, EntryOwnership, NEW w \in Workers, NEW k \in Slots, k = wnow[w], MarkRunning(w)
  PROVE  /\ Filled(k)
         /\ \A i \in Slots : /\ Filled(i)' <=> Filled(i)
                             /\ EQ'[i].state = EQ[i].state /\ EQ'[i].event = EQ[i].event
<1> USE DEF TypeOK, RingType, Entry, MarkRunning, WorkerGoto
<1>1. HoldsAsWorker(w, k)
  BY DEF HoldsAsWorker
<1>2. EQ[k].valid = 1 /\ EQ'[k].valid = 2
  OBVIOUS
<1>3. \A i \in Slots \ {k} : EQ'[i] = EQ[i]
  OBVIOUS
<1>4. Filled(k) /\ Filled(k)'
  BY <1>1, <1>2, WorkerEntryFilled DEF Filled, call
<1>5. \A i \in Slots \ {k} : Filled(i)' <=> Filled(i)
  BY <1>3 DEF Filled, call
<1>6. EQ'[k].state = EQ[k].state /\ EQ'[k].event = EQ[k].event
  OBVIOUS
<1> QED
  BY <1>3, <1>4, <1>5, <1>6

\* The entry whose event a worker runs is filled, and nobody else runs it.
LEMMA RunsFilled ==
  ASSUME TypeOK, EntryOwnership, NEW w \in Workers, NEW k \in Slots, k = wnow[w], Runs(w, k)
  PROVE  /\ Filled(k) /\ EQ[k].valid = 2
         /\ \A v \in Workers \ {w} : ~Runs(v, k)
<1>1. HoldsAsWorker(w, k)
  BY DEF Runs, HoldsAsWorker
<1>2. EQ[k].valid = 2
  BY DEF EntryOwnership, RunningMarked
<1>3. \A v \in Workers \ {w} : ~HoldsAsWorker(v, k)
  BY <1>1, WorkerEntryFilled
<1>4. Filled(k)
  BY <1>1, <1>2, WorkerEntryFilled
<1> QED
  BY <1>2, <1>3, <1>4 DEF Runs, HoldsAsWorker

LEMMA ClearEntryEffect ==
  ASSUME TypeOK, EntryOwnership, NEW w \in Workers, NEW k \in Slots, k = wnow[w], ClearEntry(w)
  PROVE  /\ Filled(k) /\ ~Filled(k)'
         /\ \A i \in Slots \ {k} : Filled(i)' <=> Filled(i)
         /\ \A i \in Slots : EQ'[i].state = EQ[i].state /\ EQ'[i].event = EQ[i].event
<1> USE DEF TypeOK, RingType, Entry, ClearEntry, WorkerGoto
<1>1. Filled(k)
  BY RunsFilled DEF Runs
<1>2. EQ'[k].valid = 0
  OBVIOUS
<1>3. \A i \in Slots \ {k} : EQ'[i] = EQ[i]
  OBVIOUS
<1>4. ~Filled(k)' /\ \A i \in Slots \ {k} : Filled(i)' <=> Filled(i)
  BY <1>2, <1>3 DEF Filled, call
<1>5. EQ'[k].state = EQ[k].state /\ EQ'[k].event = EQ[k].event
  OBVIOUS
<1> QED
  BY <1>1, <1>3, <1>4, <1>5

-----------------------------------------------------------------------------
(* The strengthening is inductive.                                         *)

\* A case for each step that moves an event on.
LEMMA MoveCases ==
  ASSUME Moves
  PROVE  \/ \E c \in Callers, s \in States : TstoreTriggers(c, s)
         \/ \E c \in Callers : AtomicIncrement(c)
         \/ \E c \in Callers : MarkValid(c)
         \/ \E c \in Callers : FillFields(c)
         \/ \E w \in Workers : MarkRunning(w)
         \/ \E w \in Workers : RunSupportFunction(w)
         \/ \E w \in Workers : ClearEntry(w)
         \/ \E w \in Workers : AtomicDecrement(w)
BY DEF Moves

LEMMA CallsReferNext == ASSUME IInv, [Next]_vars PROVE CallsRefer'
<1> USE DEF IInv, TypeOK, EventFacts, CallsRefer
<1>1. CASE ~Moves
  BY <1>1, QuietCalls, QuietCounts DEF SameCalls
<1>2. ASSUME NEW c \in Callers, NEW s \in States, TstoreTriggers(c, s) PROVE CallsRefer'
  <2>1. /\ issued' = issued + 1 /\ issued + 1 \in Events
        /\ source' = [source EXCEPT ![issued + 1] = s]
        /\ entry'[c] = s /\ event'[c] = issued + 1
    BY <1>2, RingAssumption DEF TstoreTriggers, Events, HistoryType, CallType
  <2>2. source'[issued + 1] = s /\ \A e \in 1 .. issued : source'[e] = source[e]
    BY <2>1 DEF HistoryType, Events
  <2>3. \A d \in Callers \ {c} : /\ entry'[d] = entry[d] /\ event'[d] = event[d]
                                 /\ Posting(d)' <=> Posting(d)
    BY <1>2 DEF TstoreTriggers, CallType, Goto, Posting
  <2>4. ASSUME NEW d \in Callers, d # c, Posting(d)'
        PROVE  entry'[d] \in States /\ event'[d] \in 1 .. issued' /\ source'[event'[d]] = entry'[d]
    BY <2>1, <2>2, <2>3, <2>4 DEF HistoryType
  <2>5. entry'[c] \in States /\ event'[c] \in 1 .. issued' /\ source'[event'[c]] = entry'[c]
    BY <2>1, <2>2 DEF HistoryType
  <2> QED
    BY <2>4, <2>5
<1>3. ASSUME NEW c \in Callers, AtomicIncrement(c) PROVE CallsRefer'
  BY <1>3 DEF AtomicIncrement, Posting, Goto, CallType, call, history
<1>4. ASSUME NEW c \in Callers, MarkValid(c) PROVE CallsRefer'
  BY <1>4, MarkValidEffect DEF MarkValid, call, history
<1>5. ASSUME NEW c \in Callers, FillFields(c) PROVE CallsRefer'
  BY <1>5 DEF FillFields, Posting, Goto, CallType, call, history
<1>6. ASSUME NEW w \in Workers, MarkRunning(w) \/ ClearEntry(w) \/ AtomicDecrement(w)
      PROVE  CallsRefer'
  BY <1>6 DEF MarkRunning, ClearEntry, AtomicDecrement, Posting, call, history
<1>7. ASSUME NEW w \in Workers, RunSupportFunction(w) PROVE CallsRefer'
  BY <1>7 DEF RunSupportFunction, Posting, call
<1> QED
  BY <1>1, <1>2, <1>3, <1>4, <1>5, <1>6, <1>7, MoveCases

LEMMA EntriesReferNext == ASSUME IInv, [Next]_vars PROVE EntriesRefer'
<1> USE DEF IInv, TypeOK, EventFacts
<1>1. CASE ~Moves
  <2>1. \A i \in Slots : Filled(i)' => Filled(i)
    BY <1>1, QuietRing, QuietCalls DEF Filled, SameRing, SameCalls
  <2> QED
    BY <1>1, <2>1, QuietRing, QuietCounts DEF EntriesRefer, SameRing
<1>2. ASSUME NEW c \in Callers, NEW s \in States, TstoreTriggers(c, s) PROVE EntriesRefer'
  <2>1. \A e \in 1 .. issued : source'[e] = source[e] /\ e \in 1 .. issued'
    BY <1>2 DEF TstoreTriggers, HistoryType, Events
  <2>2. \A i \in Slots : Filled(i)' => Filled(i)
    BY <1>2 DEF TstoreTriggers, Filled, CallType, Goto, ring
  <2> QED
    BY <1>2, <2>1, <2>2 DEF EntriesRefer, TstoreTriggers, ring
<1>3. ASSUME NEW c \in Callers, AtomicIncrement(c) PROVE EntriesRefer'
  <2>1. \A i \in Slots : Filled(i)' => Filled(i)
    BY <1>3 DEF AtomicIncrement, Filled, CallType, Goto, ring, call
  <2> QED
    BY <1>3, <2>1 DEF AtomicIncrement, EntriesRefer, ring, history
<1>4. ASSUME NEW c \in Callers, MarkValid(c) PROVE EntriesRefer'
  BY <1>4, MarkValidEffect DEF EntriesRefer, MarkValid, history
<1>5. ASSUME NEW c \in Callers, FillFields(c) PROVE EntriesRefer'
  <2>1. PICK k \in Slots : k = now[c]
    BY DEF CallType
  <2>2. entry[c] \in States /\ event[c] \in 1 .. issued /\ source[event[c]] = entry[c]
    BY <1>5, <2>1, FillFieldsEffect DEF CallsRefer
  <2>3. UNCHANGED <<issued, source>>
    BY <1>5 DEF FillFields, history
  <2> QED
    BY <1>5, <2>1, <2>2, <2>3, FillFieldsEffect DEF EntriesRefer
<1>6. ASSUME NEW w \in Workers, MarkRunning(w) PROVE EntriesRefer'
  <2>1. PICK k \in Slots : k = wnow[w]
    BY DEF WorkerType
  <2> QED
    BY <1>6, <2>1, MarkRunningEffect DEF EntriesRefer, MarkRunning, history
<1>7. ASSUME NEW w \in Workers, RunSupportFunction(w) PROVE EntriesRefer'
  BY <1>7 DEF RunSupportFunction, EntriesRefer, Filled, ring, call
<1>8. ASSUME NEW w \in Workers, ClearEntry(w) PROVE EntriesRefer'
  <2>1. PICK k \in Slots : k = wnow[w]
    BY DEF WorkerType
  <2> QED
    BY <1>8, <2>1, ClearEntryEffect DEF EntriesRefer, ClearEntry, history
<1>9. ASSUME NEW w \in Workers, AtomicDecrement(w) PROVE EntriesRefer'
  BY <1>9 DEF AtomicDecrement, EntriesRefer, Filled, ring, call, history
<1> QED
  BY <1>1, <1>2, <1>3, <1>4, <1>5, <1>6, <1>7, <1>8, <1>9, MoveCases

LEMMA WorkersReferNext == ASSUME IInv, [Next]_vars PROVE WorkersRefer'
<1> USE DEF IInv, TypeOK, EventFacts, WorkerType
<1>1. CASE ~Moves
  BY <1>1, QuietRing, QuietWorkers DEF WorkersRefer, SameRing, SameWorkers
<1>2. ASSUME NEW c \in Callers, \E s \in States : TstoreTriggers(c, s) PROVE WorkersRefer'
  BY <1>2 DEF TstoreTriggers, WorkersRefer, ring, worker
<1>3. ASSUME NEW c \in Callers, AtomicIncrement(c) PROVE WorkersRefer'
  BY <1>3 DEF AtomicIncrement, WorkersRefer, ring, worker
<1>4. ASSUME NEW c \in Callers, MarkValid(c) PROVE WorkersRefer'
  <2>1. UNCHANGED worker
    BY <1>4 DEF MarkValid
  <2> QED
    BY <1>4, <2>1, MarkValidEffect DEF WorkersRefer, worker
<1>5. ASSUME NEW c \in Callers, FillFields(c) PROVE WorkersRefer'
  <2>1. PICK k \in Slots : k = now[c]
    BY DEF CallType
  <2>2. UNCHANGED worker
    BY <1>5 DEF FillFields
  <2>3. ASSUME NEW w \in Workers, wpc[w] \in {"run", "clear", "decrement", "test", "validate"}
        PROVE  EQ'[wnow[w]].state = EQ[wnow[w]].state
    <3>1. ~HoldsAsWorker(w, k)
      BY <1>5, <2>1, FillFieldsEffect
    <3>2. wnow[w] \in Slots \ {k}
      BY <2>3, <3>1 DEF HoldsAsWorker
    <3> QED
      BY <1>5, <2>1, <3>2, FillFieldsEffect
  <2> QED
    BY <2>2, <2>3 DEF WorkersRefer, worker
<1>6. ASSUME NEW w \in Workers, MarkRunning(w) PROVE WorkersRefer'
  <2>1. PICK k \in Slots : k = wnow[w]
    OBVIOUS
  <2>2. EQ[k].state \in States
    BY <1>6, <2>1, MarkRunningEffect DEF EntriesRefer
  <2>3. \A v \in Workers : wnow'[v] = wnow[v] /\ (v # w => wpc'[v] = wpc[v])
    BY <1>6 DEF MarkRunning, WorkerGoto
  <2> QED
    BY <1>6, <2>1, <2>2, <2>3, MarkRunningEffect DEF WorkersRefer
<1>7. ASSUME NEW w \in Workers, RunSupportFunction(w) PROVE WorkersRefer'
  BY <1>7 DEF RunSupportFunction, WorkerGoto, WorkersRefer, ring
<1>8. ASSUME NEW w \in Workers, ClearEntry(w) PROVE WorkersRefer'
  <2>1. PICK k \in Slots : k = wnow[w]
    OBVIOUS
  <2>2. wpc[w] = "clear"
        /\ \A v \in Workers : wnow'[v] = wnow[v] /\ (v # w => wpc'[v] = wpc[v])
    BY <1>8 DEF ClearEntry, WorkerGoto
  <2> QED
    BY <1>8, <2>1, <2>2, ClearEntryEffect DEF WorkersRefer
<1>9. ASSUME NEW w \in Workers, AtomicDecrement(w) PROVE WorkersRefer'
  BY <1>9 DEF AtomicDecrement, WorkerGoto, WorkersRefer, ring
<1> QED
  BY <1>1, <1>2, <1>3, <1>4, <1>5, <1>6, <1>7, <1>8, <1>9, MoveCases

LEMMA BeingFilledNext == ASSUME IInv, [Next]_vars PROVE BeingFilled'
<1> USE DEF IInv, TypeOK, EventFacts, BeingFilled, CallType
<1>1. CASE ~Moves
  BY <1>1, QuietRing, QuietCalls DEF SameRing, SameCalls
<1>2. ASSUME NEW c \in Callers, NEW s \in States, TstoreTriggers(c, s) PROVE BeingFilled'
  BY <1>2 DEF TstoreTriggers, Goto, ring
<1>3. ASSUME NEW c \in Callers, AtomicIncrement(c) PROVE BeingFilled'
  BY <1>3 DEF AtomicIncrement, Goto, ring, call
<1>4. ASSUME NEW c \in Callers, MarkValid(c) PROVE BeingFilled'
  BY <1>4 DEF MarkValid, Goto, RingType, Entry, call
<1>5. ASSUME NEW c \in Callers, FillFields(c) PROVE BeingFilled'
  BY <1>5 DEF FillFields, Goto, RingType, Entry, call
<1>6. ASSUME NEW w \in Workers, MarkRunning(w) \/ ClearEntry(w) PROVE BeingFilled'
  <2>1. PICK k \in Slots : k = wnow[w] /\ HoldsAsWorker(w, k)
    BY <1>6 DEF WorkerType, HoldsAsWorker, MarkRunning, ClearEntry, WorkerGoto
  <2>2. \A c \in Callers : ~(pc[c] = "fields" /\ now[c] = k)
    BY <2>1, WorkerEntryFilled
  <2>3. \A i \in Slots \ {k} : EQ'[i] = EQ[i]
    BY <1>6, <2>1 DEF MarkRunning, ClearEntry, RingType
  <2> QED
    BY <1>6, <2>2, <2>3 DEF MarkRunning, ClearEntry, call
<1>7. ASSUME NEW w \in Workers, RunSupportFunction(w) \/ AtomicDecrement(w) PROVE BeingFilled'
  BY <1>7 DEF RunSupportFunction, AtomicDecrement, ring, call
<1> QED
  BY <1>1, <1>2, <1>3, <1>4, <1>5, <1>6, <1>7, MoveCases

LEMMA NotRunBeforeNext == ASSUME IInv, [Next]_vars PROVE NotRunBefore'
<1> USE DEF IInv, TypeOK, EventFacts, NotRunBefore, HistoryType
<1>1. CASE UNCHANGED <<issued, ran>>
  BY <1>1
<1>2. ASSUME NEW c \in Callers, NEW s \in States, TstoreTriggers(c, s) PROVE NotRunBefore'
  BY <1>2 DEF TstoreTriggers, Events
<1>3. ASSUME NEW w \in Workers, RunSupportFunction(w) PROVE NotRunBefore'
  <2>1. PICK k \in Slots : k = wnow[w]
    BY DEF WorkerType
  <2>2. EQ[k].event \in 1 .. issued
    BY <1>3, <2>1, RunsFilled DEF EntriesRefer, RunSupportFunction, WorkerGoto, Runs
  <2>3. issued' = issued /\ ran' = [ran EXCEPT ![EQ[k].event] = @ + 1]
    BY <1>3, <2>1 DEF RunSupportFunction
  <2> QED
    BY <2>2, <2>3
<1> QED
  BY <1>1, <1>2, <1>3, HistoryWriters
     DEF history, TstoreDrops, InvalidateState, DttInvalidate

LEMMA IssuedForStatesNext == ASSUME IInv, [Next]_vars PROVE IssuedForStates'
<1> USE DEF IInv, TypeOK, EventFacts, IssuedForStates, HistoryType
<1>1. CASE UNCHANGED <<issued, source>>
  BY <1>1
<1>2. ASSUME NEW c \in Callers, NEW s \in States, TstoreTriggers(c, s) PROVE IssuedForStates'
  <2>1. /\ issued' = issued + 1 /\ issued + 1 \in Events
        /\ source' = [source EXCEPT ![issued + 1] = s]
    BY <1>2, RingAssumption DEF TstoreTriggers, Events
  <2>2. \A e \in Events : source'[e] = IF e = issued + 1 THEN s ELSE source[e]
    BY <2>1
  <2>3. \A e \in 1 .. issued' : e \in Events /\ (e = issued + 1 \/ e \in 1 .. issued)
    BY <2>1, RingAssumption DEF Events
  <2> QED
    BY <2>2, <2>3
<1> QED
  BY <1>1, <1>2, HistoryWriters
     DEF history, TstoreDrops, InvalidateState, DttInvalidate, RunSupportFunction

LEMMA IInvInit == Init => IInv
<1> SUFFICES ASSUME Init PROVE IInv
  OBVIOUS
<1>1. CallsRefer /\ EntriesRefer /\ WorkersRefer /\ BeingFilled
  BY DEF Init, CallsRefer, EntriesRefer, WorkersRefer, BeingFilled, Posting, Filled
<1>2. NotRunBefore /\ IssuedForStates
  BY DEF Init, NotRunBefore, IssuedForStates
<1> QED
  BY <1>1, <1>2, TypeInit, OwnershipInit DEF IInv, EventFacts

LEMMA IInvNext == ASSUME IInv, [Next]_vars PROVE IInv'
<1>1. TypeOK'
  BY TypeNext DEF IInv
<1>2. EntryOwnership'
  BY LocksNext, RunningNext DEF IInv, EntryOwnership
<1>3. EventFacts'
  BY CallsReferNext, EntriesReferNext, WorkersReferNext, BeingFilledNext, NotRunBeforeNext,
     IssuedForStatesNext
     DEF EventFacts
<1> QED
  BY <1>1, <1>2, <1>3 DEF IInv

LEMMA IInvCorrect == Spec => []IInv
BY IInvInit, IInvNext, PTL DEF Spec

-----------------------------------------------------------------------------
(* pending counts the events                                               *)

\* The cardinality of a set that gets one more element.
LEMMA OneMore ==
  ASSUME NEW S, NEW T, NEW x, IsFiniteSet(S), x \notin S, T = S \cup {x}
  PROVE  Cardinality(S) \in Nat /\ Cardinality(T) = Cardinality(S) + 1
BY FS_AddElement, FS_CardinalityType

\* The cardinality of a set that loses one of its elements.
LEMMA OneLess ==
  ASSUME NEW S, NEW T, NEW x, IsFiniteSet(S), x \in S, T = S \ {x}
  PROVE  Cardinality(S) \in Nat /\ Cardinality(T) = Cardinality(S) - 1
BY FS_RemoveElement, FS_CardinalityType

LEMMA CountedFinite ==
  ASSUME NEW s \in States
  PROVE  /\ IsFiniteSet(Counted(s)) /\ IsFiniteSet(Queued(s)) /\ IsFiniteSet(Retiring(s))
         /\ Cardinality(Counted(s)) \in Nat /\ Cardinality(Queued(s)) \in Nat
         /\ Cardinality(Retiring(s)) \in Nat
<1>1. IsFiniteSet(Callers)
  BY ThreadsAssumption, FS_Union DEF Callers
<1>2. IsFiniteSet(Slots)
  BY RingAssumption, FS_Interval DEF Slots
<1>3. /\ Counted(s) \in SUBSET Callers /\ Queued(s) \in SUBSET Slots
      /\ Retiring(s) \in SUBSET Workers
  BY DEF Counted, Queued, Retiring
<1> QED
  BY <1>1, <1>2, <1>3, ThreadsAssumption, FS_Subset, FS_CardinalityType

\* A step that changes neither pending nor what it counts keeps the count.
LEMMA SameCount ==
  ASSUME PendingCounts, NEW s \in States, pending'[s] = pending[s], Counted(s)' = Counted(s),
         Queued(s)' = Queued(s), Retiring(s)' = Retiring(s)
  PROVE  pending'[s] = Cardinality(Counted(s)') + Cardinality(Queued(s)')
                         + Cardinality(Retiring(s)')
BY DEF PendingCounts

LEMMA PendingQuiet == ASSUME IInv, PendingCounts, [Next]_vars, ~Moves PROVE PendingCounts'
<1> SUFFICES ASSUME NEW s \in States
             PROVE  pending'[s] = Cardinality(Counted(s)') + Cardinality(Queued(s)')
                                    + Cardinality(Retiring(s)')
  BY DEF PendingCounts
<1> USE DEF IInv, TypeOK
<1>1. Counted(s)' = Counted(s)
  BY QuietCalls DEF SameCalls, Counted
<1>2. \A i \in Slots : Filled(i)' <=> Filled(i)
  BY QuietRing, QuietCalls DEF Filled, SameRing, SameCalls
<1>3. Queued(s)' = Queued(s)
  BY <1>2, QuietRing DEF SameRing, Queued
<1>4. Retiring(s)' = Retiring(s)
  BY QuietRing, QuietWorkers DEF SameRing, SameWorkers, Retiring, WorkerType
<1>5. pending'[s] = pending[s]
  BY QuietCounts
<1> QED
  BY <1>1, <1>3, <1>4, <1>5, SameCount

LEMMA PendingPosts ==
  ASSUME IInv, PendingCounts, NEW c \in Callers,
         \/ \E s \in States : TstoreTriggers(c, s)
         \/ AtomicIncrement(c) \/ MarkValid(c) \/ FillFields(c)
  PROVE  PendingCounts'
<1> SUFFICES ASSUME NEW s \in States
             PROVE  pending'[s] = Cardinality(Counted(s)') + Cardinality(Queued(s)')
                                    + Cardinality(Retiring(s)')
  BY DEF PendingCounts
<1> USE DEF IInv, TypeOK
<1>1. CASE \E q \in States : TstoreTriggers(c, q)
  <2>1. Counted(s)' = Counted(s)
    BY <1>1 DEF TstoreTriggers, Counted, Posting, CallType, Goto
  <2>2. Queued(s)' = Queued(s)
    BY <1>1 DEF TstoreTriggers, Queued, Filled, CallType, Goto, ring
  <2>3. Retiring(s)' = Retiring(s) /\ pending'[s] = pending[s]
    BY <1>1 DEF TstoreTriggers, Retiring, ring, worker, flags
  <2> QED
    BY <2>1, <2>2, <2>3, SameCount
<1>2. CASE AtomicIncrement(c)
  <2> USE <1>2 DEF AtomicIncrement
  <2>1. Queued(s)' = Queued(s)
    BY DEF Queued, Filled, CallType, Goto, ring, call
  <2>2. Retiring(s)' = Retiring(s)
    BY DEF Retiring, ring, worker
  <2>3. CASE entry[c] = s
    <3>1. c \notin Counted(s) /\ Counted(s)' = Counted(s) \cup {c}
      BY <2>3 DEF Counted, Posting, CallType, Goto, call
    <3>2. pending'[s] = pending[s] + 1
      BY <2>3 DEF FlagsType
    <3>3. Cardinality(Counted(s)') = Cardinality(Counted(s)) + 1
      BY <3>1, CountedFinite, OneMore
    <3> QED
      BY <2>1, <2>2, <3>2, <3>3, CountedFinite DEF PendingCounts
  <2>4. CASE entry[c] # s
    <3>1. Counted(s)' = Counted(s)
      BY <2>4 DEF Counted, Posting, CallType, Goto, call
    <3>2. pending'[s] = pending[s]
      BY <2>4 DEF FlagsType
    <3> QED
      BY <2>1, <2>2, <3>1, <3>2, SameCount
  <2> QED
    BY <2>3, <2>4
<1>3. CASE MarkValid(c)
  <2>1. Counted(s)' = Counted(s)
    BY <1>3, MarkValidEffect DEF Counted, MarkValid, call
  <2>2. Queued(s)' = Queued(s)
    BY <1>3, MarkValidEffect DEF Queued
  <2>3. Retiring(s)' = Retiring(s)
    BY <1>3, MarkValidEffect DEF Retiring, MarkValid, worker, WorkerType
  <2>4. pending'[s] = pending[s]
    BY <1>3 DEF MarkValid, flags
  <2> QED
    BY <2>1, <2>2, <2>3, <2>4, SameCount
<1>4. CASE FillFields(c)
  <2>1. PICK k \in Slots : k = now[c]
    BY DEF CallType
  <2>2. BeingFilled /\ UNCHANGED <<entry, wpc, wnow, pending>>
    BY <1>4 DEF FillFields, call, worker, flags, EventFacts
  <2>3. Retiring(s)' = Retiring(s)
    <3>1. \A w \in Workers : wpc[w] = "decrement" => wnow[w] \in Slots \ {k}
      BY <1>4, <2>1, <2>2, FillFieldsEffect DEF HoldsAsWorker, WorkerType
    <3>2. \A w \in Workers : wpc[w] = "decrement" => EQ'[wnow[w]].state = EQ[wnow[w]].state
      BY <1>4, <2>1, <2>2, <3>1, FillFieldsEffect
    <3> QED
      BY <2>2, <3>2 DEF Retiring
  <2>4. CASE entry[c] = s
    <3>1. c \in Counted(s) /\ Counted(s)' = Counted(s) \ {c}
      BY <1>4, <2>1, <2>2, <2>4, FillFieldsEffect DEF Counted
    <3>2. k \notin Queued(s) /\ Queued(s)' = Queued(s) \cup {k}
      BY <1>4, <2>1, <2>2, <2>4, FillFieldsEffect DEF Queued
    <3>3. /\ Cardinality(Counted(s)') = Cardinality(Counted(s)) - 1
          /\ Cardinality(Queued(s)') = Cardinality(Queued(s)) + 1
      BY <3>1, <3>2, CountedFinite, OneMore, OneLess
    <3> QED
      BY <2>2, <2>3, <3>3, CountedFinite DEF PendingCounts
  <2>5. CASE entry[c] # s
    <3>1. Counted(s)' = Counted(s)
      BY <1>4, <2>1, <2>2, <2>5, FillFieldsEffect DEF Counted
    <3>2. Queued(s)' = Queued(s)
      BY <1>4, <2>1, <2>2, <2>5, FillFieldsEffect DEF Queued
    <3> QED
      BY <2>2, <2>3, <3>1, <3>2, SameCount
  <2> QED
    BY <2>4, <2>5
<1> QED
  BY <1>1, <1>2, <1>3, <1>4

LEMMA PendingRuns ==
  ASSUME IInv, PendingCounts, NEW w \in Workers,
         MarkRunning(w) \/ RunSupportFunction(w) \/ ClearEntry(w) \/ AtomicDecrement(w)
  PROVE  PendingCounts'
<1> SUFFICES ASSUME NEW s \in States
             PROVE  pending'[s] = Cardinality(Counted(s)') + Cardinality(Queued(s)')
                                    + Cardinality(Retiring(s)')
  BY DEF PendingCounts
<1> USE DEF IInv, TypeOK
<1>1. PICK k \in Slots : k = wnow[w]
  BY DEF WorkerType
<1>2. Counted(s)' = Counted(s)
  BY DEF MarkRunning, RunSupportFunction, ClearEntry, AtomicDecrement, Counted, Posting, call
<1>3. CASE MarkRunning(w)
  <2>1. Queued(s)' = Queued(s)
    BY <1>1, <1>3, MarkRunningEffect DEF Queued
  <2>2. wnow' = wnow /\ \A v \in Workers : wpc'[v] = "decrement" <=> wpc[v] = "decrement"
    BY <1>3 DEF MarkRunning, WorkerGoto, WorkerType
  <2>3. Retiring(s)' = Retiring(s)
    BY <1>1, <1>3, <2>2, MarkRunningEffect DEF Retiring, WorkerType
  <2>4. pending'[s] = pending[s]
    BY <1>3 DEF MarkRunning, flags
  <2> QED
    BY <1>2, <2>1, <2>3, <2>4, SameCount
<1>4. CASE RunSupportFunction(w)
  <2>1. Queued(s)' = Queued(s)
    BY <1>4 DEF RunSupportFunction, Queued, Filled, ring, call
  <2>2. Retiring(s)' = Retiring(s)
    BY <1>4 DEF RunSupportFunction, WorkerGoto, WorkerType, Retiring, ring
  <2>3. pending'[s] = pending[s]
    BY <1>4 DEF RunSupportFunction, flags
  <2> QED
    BY <1>2, <2>1, <2>2, <2>3, SameCount
<1>5. CASE ClearEntry(w)
  <2>1. UNCHANGED <<wnow, pending>> /\ wpc[w] = "clear" /\ wpc'[w] = "decrement"
        /\ \A v \in Workers \ {w} : wpc'[v] = wpc[v]
    BY <1>5 DEF ClearEntry, WorkerGoto, WorkerType, flags
  <2>2. \A i \in Slots : EQ'[i].state = EQ[i].state
    BY <1>1, <1>5, ClearEntryEffect
  <2>3. CASE EQ[k].state = s
    <3>1. k \in Queued(s) /\ Queued(s)' = Queued(s) \ {k}
      BY <1>1, <1>5, <2>3, ClearEntryEffect DEF Queued
    <3>2. w \notin Retiring(s) /\ Retiring(s)' = Retiring(s) \cup {w}
      BY <1>1, <2>1, <2>2, <2>3 DEF Retiring, WorkerType
    <3>3. /\ Cardinality(Queued(s)') = Cardinality(Queued(s)) - 1
          /\ Cardinality(Retiring(s)') = Cardinality(Retiring(s)) + 1
      BY <3>1, <3>2, CountedFinite, OneMore, OneLess
    <3> QED
      BY <1>2, <2>1, <3>3, CountedFinite DEF PendingCounts
  <2>4. CASE EQ[k].state # s
    <3>1. Queued(s)' = Queued(s)
      BY <1>1, <1>5, <2>4, ClearEntryEffect DEF Queued
    <3>2. Retiring(s)' = Retiring(s)
      BY <1>1, <2>1, <2>2, <2>4 DEF Retiring, WorkerType
    <3> QED
      BY <1>2, <2>1, <3>1, <3>2, SameCount
  <2> QED
    BY <2>3, <2>4
<1>6. CASE AtomicDecrement(w)
  <2>1. UNCHANGED <<wnow, EQ>> /\ wpc[w] = "decrement" /\ wpc'[w] = "test"
        /\ \A v \in Workers \ {w} : wpc'[v] = wpc[v]
    BY <1>6 DEF AtomicDecrement, WorkerGoto, WorkerType, ring
  <2>2. pending' = [pending EXCEPT ![EQ[k].state] = @ - 1]
    BY <1>1, <1>6 DEF AtomicDecrement
  <2>3. Queued(s)' = Queued(s)
    BY <1>6 DEF AtomicDecrement, Queued, Filled, ring, call
  <2>4. CASE EQ[k].state = s
    <3>1. w \in Retiring(s) /\ Retiring(s)' = Retiring(s) \ {w}
      BY <1>1, <2>1, <2>4 DEF Retiring
    <3>2. Cardinality(Retiring(s)') = Cardinality(Retiring(s)) - 1
      BY <3>1, CountedFinite, OneLess
    <3>3. pending'[s] = pending[s] - 1
      BY <2>2, <2>4 DEF FlagsType
    <3> QED
      BY <1>2, <2>3, <3>2, <3>3, CountedFinite DEF PendingCounts
  <2>5. CASE EQ[k].state # s
    <3>1. Retiring(s)' = Retiring(s)
      BY <1>1, <2>1, <2>5 DEF Retiring
    <3>2. pending'[s] = pending[s]
      BY <2>2, <2>5 DEF FlagsType
    <3> QED
      BY <1>2, <2>3, <3>1, <3>2, SameCount
  <2> QED
    BY <2>4, <2>5
<1> QED
  BY <1>3, <1>4, <1>5, <1>6

LEMMA PendingInit == Init => PendingCounts
<1> SUFFICES ASSUME Init, NEW s \in States
             PROVE  pending[s] = Cardinality(Counted(s)) + Cardinality(Queued(s))
                                   + Cardinality(Retiring(s))
  BY DEF PendingCounts
<1>1. Counted(s) = {} /\ Queued(s) = {} /\ Retiring(s) = {}
  BY DEF Init, Counted, Queued, Retiring, Posting, Filled
<1> QED
  BY <1>1, FS_EmptySet DEF Init

\* pending is the number of the state's events under way, however many threads
\* post and run them: it is never negative and 0 only when all are done.
THEOREM PendingCorrect == Spec => []PendingCounts
<1>1. IInv /\ PendingCounts /\ [Next]_vars => PendingCounts'
  BY PendingQuiet, PendingPosts, PendingRuns DEF Moves
<1> QED
  BY <1>1, PendingInit, IInvCorrect, PTL DEF Spec

-----------------------------------------------------------------------------
(* No event is lost, none runs twice                                       *)

LEMMA EventsFinite ==
  ASSUME NEW e \in Events
  PROVE  /\ IsFiniteSet(PostedBy(e)) /\ IsFiniteSet(HeldIn(e))
         /\ Cardinality(PostedBy(e)) \in Nat /\ Cardinality(HeldIn(e)) \in Nat
<1>1. IsFiniteSet(Callers)
  BY ThreadsAssumption, FS_Union DEF Callers
<1>2. IsFiniteSet(Slots)
  BY RingAssumption, FS_Interval DEF Slots
<1>3. PostedBy(e) \in SUBSET Callers /\ HeldIn(e) \in SUBSET Slots
  BY DEF PostedBy, HeldIn
<1> QED
  BY <1>1, <1>2, <1>3, FS_Subset, FS_CardinalityType

\* The place of an event is kept by a step that keeps who posts it, who holds
\* it and how often it has run.
LEMMA SamePlace ==
  ASSUME ExactlyOnce, NEW e \in 1 .. issued, ran'[e] = ran[e],
         PostedBy(e)' = PostedBy(e), HeldIn(e)' = HeldIn(e)
  PROVE  ran'[e] + Cardinality(PostedBy(e)') + Cardinality(HeldIn(e)') = 1
BY DEF ExactlyOnce

LEMMA OnceQuiet == ASSUME IInv, ExactlyOnce, [Next]_vars, ~Moves PROVE ExactlyOnce'
<1> USE DEF IInv, TypeOK
<1>1. issued' = issued /\ ran' = ran
  BY QuietCounts
<1>2. ASSUME NEW e \in 1 .. issued
      PROVE  PostedBy(e)' = PostedBy(e) /\ HeldIn(e)' = HeldIn(e)
  <2>1. PostedBy(e)' = PostedBy(e)
    BY QuietCalls DEF SameCalls, PostedBy
  <2>2. \A i \in Slots : Filled(i)' <=> Filled(i)
    BY QuietRing, QuietCalls DEF Filled, SameRing, SameCalls
  <2>3. \A i \in Slots : Begun(i)' <=> Begun(i)
    BY QuietWorkers DEF Begun, SameWorkers
  <2>4. HeldIn(e)' = HeldIn(e)
    BY <2>2, <2>3, QuietRing DEF SameRing, HeldIn
  <2> QED
    BY <2>1, <2>4
<1>3. ASSUME NEW e \in 1 .. issued
      PROVE  ran'[e] + Cardinality(PostedBy(e)') + Cardinality(HeldIn(e)') = 1
  BY <1>1, <1>2, SamePlace
<1> QED
  BY <1>1, <1>3 DEF ExactlyOnce

LEMMA OncePosts ==
  ASSUME IInv, ExactlyOnce, NEW c \in Callers,
         \/ \E s \in States : TstoreTriggers(c, s)
         \/ AtomicIncrement(c) \/ MarkValid(c) \/ FillFields(c)
  PROVE  ExactlyOnce'
<1> USE DEF IInv, TypeOK
<1> SUFFICES ASSUME NEW e \in 1 .. issued'
             PROVE  ran'[e] + Cardinality(PostedBy(e)') + Cardinality(HeldIn(e)') = 1
  BY DEF ExactlyOnce
<1>1. CASE \E s \in States : TstoreTriggers(c, s)
  <2>1. /\ pc[c] = "ready" /\ pc'[c] = "increment" /\ event'[c] = issued + 1
        /\ \A d \in Callers \ {c} : pc'[d] = pc[d] /\ event'[d] = event[d]
        /\ issued' = issued + 1 /\ issued + 1 \in Events
        /\ UNCHANGED <<EQ, now, wpc, wnow, ran>>
    <3>1. /\ pc[c] = "ready" /\ pc'[c] = "increment" /\ event'[c] = issued + 1
          /\ \A d \in Callers \ {c} : pc'[d] = pc[d] /\ event'[d] = event[d]
      BY <1>1 DEF TstoreTriggers, CallType, Goto
    <3>2. issued' = issued + 1 /\ issued + 1 \in Events
      BY <1>1, RingAssumption DEF TstoreTriggers, HistoryType, Events
    <3>3. UNCHANGED <<EQ, now, wpc, wnow, ran>>
      BY <1>1 DEF TstoreTriggers, ring, worker
    <3> QED
      BY <3>1, <3>2, <3>3
  <2>2. HeldIn(e)' = HeldIn(e)
    <3>1. \A i \in Slots : Filled(i)' <=> Filled(i)
      BY <2>1 DEF Filled
    <3> QED
      BY <2>1, <3>1 DEF HeldIn, Begun
  <2>3. CASE e # issued + 1
    <3>1. e \in 1 .. issued
      BY <2>1, <2>3 DEF HistoryType
    <3>2. PostedBy(e)' = PostedBy(e)
      BY <2>1, <2>3 DEF PostedBy, Posting
    <3> QED
      BY <2>1, <2>2, <3>1, <3>2, SamePlace
  <2>4. CASE e = issued + 1
    <3>1. ran[e] = 0
      BY <2>1, <2>4 DEF EventFacts, NotRunBefore, HistoryType
    <3>2. \A d \in Callers : Posting(d) => event[d] # e
      BY <2>4 DEF EventFacts, CallsRefer, HistoryType
    <3>3. \A i \in Slots : Filled(i) => EQ[i].event # e
      BY <2>4 DEF EventFacts, EntriesRefer, HistoryType
    <3>4. PostedBy(e)' = {c}
      BY <2>1, <2>4, <3>2 DEF PostedBy, Posting
    <3>5. HeldIn(e) = {}
      BY <3>3 DEF HeldIn
    <3>6. Cardinality({c}) = 1 /\ Cardinality({}) = 0
      BY FS_EmptySet, FS_Singleton
    <3>7. PostedBy(e)' = {c} /\ HeldIn(e)' = {} /\ ran'[e] = 0
      BY <2>1, <2>2, <3>1, <3>4, <3>5
    <3> QED
      BY <3>6, <3>7
  <2> QED
    BY <2>3, <2>4
<1>2. CASE AtomicIncrement(c)
  <2> USE <1>2 DEF AtomicIncrement
  <2>1. PostedBy(e)' = PostedBy(e)
    BY DEF PostedBy, Posting, CallType, Goto, call
  <2>2. HeldIn(e)' = HeldIn(e)
    BY DEF HeldIn, Filled, Begun, CallType, Goto, call, ring, worker
  <2> QED
    BY <2>1, <2>2, SamePlace DEF history
<1>3. CASE MarkValid(c)
  <2>1. PostedBy(e)' = PostedBy(e)
    BY <1>3, MarkValidEffect DEF PostedBy, MarkValid, call
  <2>2. HeldIn(e)' = HeldIn(e)
    BY <1>3, MarkValidEffect DEF HeldIn, Begun, MarkValid, worker
  <2> QED
    BY <1>3, <2>1, <2>2, SamePlace DEF MarkValid, history
<1>4. CASE FillFields(c)
  <2>1. PICK k \in Slots : k = now[c]
    BY DEF CallType
  <2>2. BeingFilled /\ UNCHANGED <<event, wpc, wnow, issued, ran>>
    BY <1>4 DEF FillFields, call, worker, history, EventFacts
  <2>3. (\A i \in Slots : Begun(i)' <=> Begun(i)) /\ ~Begun(k)
    BY <1>4, <2>1, <2>2, FillFieldsEffect DEF Begun, HoldsAsWorker
  <2>4. CASE event[c] = e
    <3>1. c \in PostedBy(e) /\ PostedBy(e)' = PostedBy(e) \ {c}
      BY <1>4, <2>1, <2>2, <2>4, FillFieldsEffect DEF PostedBy
    <3>2. k \notin HeldIn(e) /\ HeldIn(e)' = HeldIn(e) \cup {k}
      BY <1>4, <2>1, <2>2, <2>3, <2>4, FillFieldsEffect DEF HeldIn
    <3>3. e \in Events
      BY <2>2, RingAssumption DEF Events, HistoryType
    <3>4. /\ Cardinality(PostedBy(e)') = Cardinality(PostedBy(e)) - 1
          /\ Cardinality(HeldIn(e)') = Cardinality(HeldIn(e)) + 1
      BY <3>1, <3>2, <3>3, EventsFinite, OneMore, OneLess
    <3> QED
      BY <2>2, <3>3, <3>4, EventsFinite DEF ExactlyOnce, HistoryType
  <2>5. CASE event[c] # e
    <3>1. PostedBy(e)' = PostedBy(e)
      BY <1>4, <2>1, <2>2, <2>5, FillFieldsEffect DEF PostedBy
    <3>2. HeldIn(e)' = HeldIn(e)
      BY <1>4, <2>1, <2>2, <2>3, <2>5, FillFieldsEffect DEF HeldIn
    <3> QED
      BY <2>2, <3>1, <3>2, SamePlace
  <2> QED
    BY <2>4, <2>5
<1> QED
  BY <1>1, <1>2, <1>3, <1>4

LEMMA OnceRuns ==
  ASSUME IInv, ExactlyOnce, NEW w \in Workers,
         MarkRunning(w) \/ RunSupportFunction(w) \/ ClearEntry(w) \/ AtomicDecrement(w)
  PROVE  ExactlyOnce'
<1> USE DEF IInv, TypeOK
<1>1. PICK k \in Slots : k = wnow[w]
  BY DEF WorkerType
<1>2. issued' = issued
  BY DEF MarkRunning, RunSupportFunction, ClearEntry, AtomicDecrement, history
<1> SUFFICES ASSUME NEW e \in 1 .. issued
             PROVE  ran'[e] + Cardinality(PostedBy(e)') + Cardinality(HeldIn(e)') = 1
  BY <1>2 DEF ExactlyOnce
<1>3. PostedBy(e)' = PostedBy(e)
  BY DEF MarkRunning, RunSupportFunction, ClearEntry, AtomicDecrement, PostedBy, Posting, call
<1>4. CASE MarkRunning(w)
  <2>1. \A i \in Slots : Begun(i)' <=> Begun(i)
    BY <1>4 DEF MarkRunning, WorkerGoto, WorkerType, Begun
  <2>2. HeldIn(e)' = HeldIn(e)
    BY <1>1, <1>4, <2>1, MarkRunningEffect DEF HeldIn
  <2> QED
    BY <1>3, <1>4, <2>2, SamePlace DEF MarkRunning, history
<1>5. CASE RunSupportFunction(w)
  <2>1. /\ UNCHANGED <<EQ, pc, now, wnow>> /\ wpc[w] = "run"
        /\ wpc' = [wpc EXCEPT ![w] = "clear"]
        /\ ran' = [ran EXCEPT ![EQ[k].event] = @ + 1]
    BY <1>1, <1>5 DEF RunSupportFunction, WorkerGoto, ring, call
  <2>2. Filled(k) /\ \A v \in Workers \ {w} : ~Runs(v, k)
    BY <1>1, <2>1, RunsFilled DEF Runs
  <2>3. /\ ~Begun(k) /\ Begun(k)'
        /\ \A i \in Slots \ {k} : Begun(i)' <=> Begun(i)
    BY <1>1, <2>1, <2>2 DEF Begun, Runs, WorkerType
  <2>4. \A i \in Slots : Filled(i)' <=> Filled(i)
    BY <2>1 DEF Filled
  <2>5. e \in Events
    BY RingAssumption DEF Events, HistoryType
  <2>6. CASE EQ[k].event = e
    <3>1. k \in HeldIn(e) /\ HeldIn(e)' = HeldIn(e) \ {k}
      BY <2>1, <2>2, <2>3, <2>4, <2>6 DEF HeldIn
    <3>2. Cardinality(HeldIn(e)') = Cardinality(HeldIn(e)) - 1
      BY <2>5, <3>1, EventsFinite, OneLess
    <3>3. ran'[e] = ran[e] + 1
      BY <2>1, <2>5, <2>6 DEF HistoryType
    <3> QED
      BY <1>3, <2>5, <3>2, <3>3, EventsFinite DEF ExactlyOnce, HistoryType
  <2>7. CASE EQ[k].event # e
    <3>1. HeldIn(e)' = HeldIn(e)
      BY <2>1, <2>3, <2>4, <2>7 DEF HeldIn
    <3>2. ran'[e] = ran[e]
      BY <2>1, <2>5, <2>7 DEF HistoryType
    <3> QED
      BY <1>3, <3>1, <3>2, SamePlace
  <2> QED
    BY <2>6, <2>7
<1>6. CASE ClearEntry(w)
  <2>1. UNCHANGED wnow /\ wpc[w] = "clear" /\ wpc' = [wpc EXCEPT ![w] = "decrement"]
    BY <1>6 DEF ClearEntry, WorkerGoto
  <2>2. Begun(k) /\ \A i \in Slots \ {k} : Begun(i)' <=> Begun(i)
    BY <1>1, <2>1 DEF Begun, WorkerType
  <2>3. HeldIn(e)' = HeldIn(e)
    BY <1>1, <1>6, <2>2, ClearEntryEffect DEF HeldIn
  <2> QED
    BY <1>3, <1>6, <2>3, SamePlace DEF ClearEntry, history
<1>7. CASE AtomicDecrement(w)
  <2>1. \A i \in Slots : Begun(i)' <=> Begun(i)
    BY <1>7 DEF AtomicDecrement, WorkerGoto, WorkerType, Begun
  <2>2. HeldIn(e)' = HeldIn(e)
    BY <1>7, <2>1 DEF AtomicDecrement, HeldIn, Filled, ring, call
  <2> QED
    BY <1>3, <1>7, <2>2, SamePlace DEF AtomicDecrement, history
<1> QED
  BY <1>4, <1>5, <1>6, <1>7

\* Every event posted has run once, or is in the hands of one call or in one
\* entry of the ring: none is lost in the race of the callers for an entry,
\* none is run twice in the race of the workers.
THEOREM OnceCorrect == Spec => []ExactlyOnce
<1>1. Init => ExactlyOnce
  BY DEF Init, ExactlyOnce
<1>2. IInv /\ ExactlyOnce /\ [Next]_vars => ExactlyOnce'
  BY OnceQuiet, OncePosts, OnceRuns DEF Moves
<1> QED
  BY <1>1, <1>2, IInvCorrect, PTL DEF Spec

-----------------------------------------------------------------------------
(* No validation is lost                                                   *)

\* A worker that decides on the validity of a state goes on to validate it or
\* to release the entry.
LEMMA ValidatorStep ==
  ASSUME TypeOK, [Next]_vars, NEW w \in Workers, wpc[w] \in {"test", "validate"}
  PROVE  \/ wpc'[w] = wpc[w] /\ wnow'[w] = wnow[w]
         \/ TestPending(w) \/ ValidateState(w)
<1> USE DEF TypeOK, WorkerType, WorkerGoto, NextEntry, worker
<1>1. ASSUME NEW v \in Workers, v # w, WorkerStep(v)
      PROVE  wpc'[w] = wpc[w] /\ wnow'[w] = wnow[w]
  <2>1. CASE ScanSkip(v) \/ ScanFind(v) \/ GrabEntry(v) \/ EntryLocked(v) \/ MarkRunning(v)
             \/ LockGrabbed(v)
    BY <1>1, <2>1 DEF ScanSkip, ScanFind, GrabEntry, EntryLocked, MarkRunning, LockGrabbed
  <2>2. CASE RunSupportFunction(v) \/ ClearEntry(v) \/ AtomicDecrement(v) \/ TestPending(v)
             \/ ValidateState(v) \/ ReleaseEntry(v)
    BY <1>1, <2>2 DEF RunSupportFunction, ClearEntry, AtomicDecrement, TestPending,
                      ValidateState, ReleaseEntry
  <2> QED
    BY <1>1, <2>1, <2>2 DEF WorkerStep, ScanStep
<1>2. ASSUME WorkerStep(w) PROVE TestPending(w) \/ ValidateState(w)
  BY <1>2 DEF WorkerStep, ScanStep, ScanSkip, ScanFind, GrabEntry, EntryLocked, MarkRunning,
              LockGrabbed, RunSupportFunction, ClearEntry, AtomicDecrement, ReleaseEntry
<1>3. ASSUME NEW p \in Program, NEW v \in Workers, DttInit(p, v)
      PROVE  wpc'[w] = wpc[w] /\ wnow'[w] = wnow[w]
  BY <1>3 DEF DttInit
<1>4. CASE UNCHANGED worker
  BY <1>4
<1> QED
  BY <1>1, <1>2, <1>3, <1>4, CallerFrame, NextCases DEF vars

\* The entry of such a worker keeps its state pointer.
LEMMA ValidatorEntry ==
  ASSUME IInv, [Next]_vars, NEW w \in Workers, wpc[w] \in {"test", "validate"}
  PROVE  EQ'[wnow[w]].state = EQ[wnow[w]].state
<1> USE DEF IInv, TypeOK
<1>1. PICK k \in Slots : k = wnow[w]
  BY DEF WorkerType
<1>2. CASE ~Moves
  BY <1>1, <1>2, QuietRing DEF SameRing
<1>3. CASE EQ' = EQ
  BY <1>3
<1>4. ASSUME NEW c \in Callers, MarkValid(c) PROVE EQ'[k].state = EQ[k].state
  BY <1>4, MarkValidEffect
<1>5. ASSUME NEW c \in Callers, FillFields(c) PROVE EQ'[k].state = EQ[k].state
  <2>1. PICK j \in Slots : j = now[c]
    BY DEF CallType
  <2>2. ~HoldsAsWorker(w, j)
    BY <1>5, <2>1, FillFieldsEffect DEF EventFacts
  <2>3. k \in Slots \ {j}
    BY <1>1, <2>2 DEF HoldsAsWorker
  <2> QED
    BY <1>5, <2>1, <2>3, FillFieldsEffect DEF EventFacts
<1>6. ASSUME NEW v \in Workers, MarkRunning(v) PROVE EQ'[k].state = EQ[k].state
  BY <1>6, MarkRunningEffect DEF WorkerType
<1>7. ASSUME NEW v \in Workers, ClearEntry(v) PROVE EQ'[k].state = EQ[k].state
  BY <1>7, ClearEntryEffect DEF WorkerType
<1> QED
  BY <1>1, <1>2, <1>3, <1>4, <1>5, <1>6, <1>7, MoveCases
     DEF TstoreTriggers, AtomicIncrement, RunSupportFunction, AtomicDecrement, ring

\* A count of zero: nothing is counted.
LEMMA ZeroPending ==
  ASSUME PendingCounts, NEW s \in States
  PROVE  /\ pending[s] \in Nat
         /\ pending[s] = 0 => Counted(s) = {} /\ Queued(s) = {} /\ Retiring(s) = {}
<1>1. pending[s] \in Nat
  BY CountedFinite DEF PendingCounts
<1>2. ASSUME pending[s] = 0
      PROVE  /\ Cardinality(Counted(s)) = 0 /\ Cardinality(Queued(s)) = 0
             /\ Cardinality(Retiring(s)) = 0
  BY <1>2, CountedFinite DEF PendingCounts
<1> QED
  BY <1>1, <1>2, CountedFinite, FS_EmptySet

LEMMA NoLostNext == ASSUME IInv, PendingCounts, NoLostValidation, [Next]_vars
                    PROVE  NoLostValidation'
<1> USE DEF IInv, TypeOK
<1> SUFFICES ASSUME NEW s \in States,
                    invalidator'[s] = "event", pending'[s] = 0, state'[s] # 1
             PROVE  \E w \in Workers : wpc'[w] \in {"test", "validate"} /\ EQ'[wnow'[w]].state = s
  BY DEF NoLostValidation
<1>1. CASE invalidator[s] = "event" /\ pending[s] = 0 /\ state[s] # 1
  <2>1. PICK w \in Workers : wpc[w] \in {"test", "validate"} /\ EQ[wnow[w]].state = s
    BY <1>1 DEF NoLostValidation
  <2>2. EQ'[wnow[w]].state = s
    BY <2>1, ValidatorEntry
  <2>3. CASE TestPending(w)
    BY <1>1, <2>1, <2>2, <2>3 DEF TestPending, WorkerGoto, WorkerType
  <2>4. ~ValidateState(w)
    BY <2>1 DEF ValidateState, FlagsType
  <2> QED
    BY <2>1, <2>2, <2>3, <2>4, ValidatorStep
<1>2. CASE pending[s] = 0 /\ ~(invalidator[s] = "event" /\ state[s] # 1)
  <2>1. ASSUME NEW c \in Callers, TstoreDrops(c) PROVE FALSE
    BY <1>2, <2>1 DEF TstoreDrops, FlagsType, HistoryType
  <2>2. ASSUME NEW c \in Callers, InvalidateState(c) PROVE FALSE
    <3>1. entry[c] = s
      BY <1>2, <2>2 DEF InvalidateState, FlagsType, HistoryType
    <3>2. c \in Counted(s)
      BY <2>2, <3>1 DEF InvalidateState, Goto, Counted, Posting
    <3> QED
      BY <1>2, <3>2, ZeroPending
  <2>3. ASSUME NEW p \in Program, NEW q \in States, DttInvalidate(p, q) PROVE FALSE
    BY <1>2, <2>3 DEF DttInvalidate, FlagsType, HistoryType
  <2>4. ASSUME NEW p \in Program, NEW q \in States, DttValidate(p, q) PROVE FALSE
    BY <1>2, <2>4 DEF DttValidate, FlagsType, history
  <2>5. ASSUME NEW w \in Workers, ValidateState(w) PROVE FALSE
    BY <1>2, <2>5 DEF ValidateState, FlagsType, history
  <2>6. invalidator' = invalidator
    BY <2>1, <2>2, <2>3, HistoryWriters DEF history, TstoreTriggers, RunSupportFunction
  <2>7. state' = state
    BY <2>1, <2>2, <2>3, <2>4, <2>5, FlagWriters
       DEF flags, AtomicIncrement, BarrierReturns, ValidateClearsCancel, DttCancel,
           AtomicDecrement
  <2> QED
    BY <1>2, <2>6, <2>7
<1>3. CASE pending[s] # 0
  <2>1. ASSUME NEW c \in Callers, AtomicIncrement(c) PROVE FALSE
    <3>1. pending[s] \in Nat
      BY ZeroPending
    <3>2. pending'[s] = pending[s] \/ pending'[s] = pending[s] + 1
      BY <2>1 DEF AtomicIncrement, FlagsType
    <3> QED
      BY <1>3, <3>1, <3>2
  <2>2. PICK w \in Workers : AtomicDecrement(w)
    BY <1>3, <2>1, FlagWriters
       DEF flags, TstoreDrops, InvalidateState, BarrierReturns, ValidateClearsCancel,
           DttInvalidate, DttValidate, DttCancel, ValidateState
  <2>3. EQ[wnow[w]].state = s
    BY <1>3, <2>2 DEF AtomicDecrement, FlagsType
  <2> QED
    BY <2>2, <2>3 DEF AtomicDecrement, WorkerGoto, WorkerType, ring
<1> QED
  BY <1>1, <1>2, <1>3

\* When the last event of a state has been counted off and nobody else has
\* invalidated it, it is valid or a worker is about to make it valid.
THEOREM ValidationCorrect == Spec => []NoLostValidation
<1>1. Init => NoLostValidation
  BY DEF Init, NoLostValidation
<1>2. IInv /\ PendingCounts /\ NoLostValidation /\ [Next]_vars => NoLostValidation'
  BY NoLostNext
<1> QED
  BY <1>1, <1>2, IInvCorrect, PendingCorrect, PTL DEF Spec

=============================================================================
