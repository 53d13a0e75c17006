------------------------------- MODULE LibDTT -------------------------------
(***************************************************************************)
(* The libDTT runtime (src/libDTT/dtt.c, dtt.h): data-triggered threads.   *)
(*                                                                         *)
(* A tstore to a trigger variable posts an event for a support function    *)
(* into the ring EQ; threads started by dtt_init scan the ring, run the    *)
(* support function of the events they find and mark the result of the     *)
(* computation (a dtt_state) valid again.  The program reads               *)
(* dtt_state.state to decide whether it may skip a computation, and calls  *)
(* dtt_barrier to wait for the events of a computation.                    *)
(*                                                                         *)
(* Every action is one access to shared memory, with the thread-local      *)
(* computation around it, so the interleavings are those of the loads,     *)
(* stores and lock-prefixed instructions of the program.                   *)
(***************************************************************************)
EXTENDS Integers, FiniteSets

CONSTANTS
  Program,      \* the threads of the program that use the library
  Workers,      \* the threads dtt_init may start, each running dtt()
  States,       \* the dtt_state objects, one per support function
  NoState,      \* the NULL in dtt_event.state of an unused ring entry
  EQ_MAX,       \* the entries of the ring (4096 in dtt.h)
  MaxEvents,    \* bound: the events the program posts in a behaviour
  PendingCount, \* TRUE when built with -DDTT_PENDING_COUNT
  Reload,       \* FALSE when the compiler hoists the unlocked read of
                \* EQ[now].valid out of the wait (gcc -O2 does), so that a
                \* busy entry is never looked at again
  Nested        \* TRUE when support functions may themselves call tstore

ASSUME ThreadsAssumption == /\ IsFiniteSet(Program) /\ IsFiniteSet(Workers)
                            /\ Program \cap Workers = {}
ASSUME StatesAssumption == NoState \notin States
ASSUME RingAssumption == EQ_MAX \in Nat \ {0} /\ MaxEvents \in Nat
ASSUME BuildAssumption ==
  PendingCount \in BOOLEAN /\ Reload \in BOOLEAN /\ Nested \in BOOLEAN

Slots   == 0 .. EQ_MAX - 1
Events  == 1 .. MaxEvents
Callers == Program \cup Workers

VARIABLES
  EQ,           \* the ring; .event stands for the func and args of an entry
  EQ_tail,      \* the entry most recently filled
  state,        \* dtt_state.state: 0 invalid, 1 valid
  pending,      \* dtt_state.pending: the events not yet run to the end
  cancel,       \* dtt_state.cancel
  pc,           \* where each caller is in a call into the library
  entry,        \* the dtt_state argument of that call
  event,        \* the event the call posts
  now,          \* dtt_event_create's local of that name, the entry it tries
  wpc,          \* where each worker is in dtt()
  wnow,         \* dtt()'s local now, the entry it examines
  issued,       \* history: the number of events posted so far
  source,       \* history: the dtt_state each event was posted for
  ran,          \* history: how often each event's support function has run
  invalidator   \* history: who stored the last 0 into .state

ring    == <<EQ, EQ_tail>>
flags   == <<state, pending, cancel>>
call    == <<entry, event, now>>
worker  == <<wpc, wnow>>
history == <<issued, source, ran, invalidator>>
vars    == <<EQ, EQ_tail, state, pending, cancel, pc, entry, event, now,
             wpc, wnow, issued, source, ran, invalidator>>

Init ==
  /\ EQ = [i \in Slots |-> [valid |-> 0, lock |-> 0, state |-> NoState, event |-> 0]]
  /\ EQ_tail = 0
  /\ state = [s \in States |-> 0]
  /\ pending = [s \in States |-> 0]
  /\ cancel = [s \in States |-> 0]
  /\ pc = [c \in Callers |-> "ready"]
  /\ entry = [c \in Callers |-> NoState]
  /\ event = [c \in Callers |-> 0]
  /\ now = [c \in Callers |-> 0]
  /\ wpc = [w \in Workers |-> "none"]
  /\ wnow = [w \in Workers |-> 0]
  /\ issued = 0
  /\ source = [e \in Events |-> NoState]
  /\ ran = [e \in Events |-> 0]
  /\ invalidator = [s \in States |-> "none"]

-----------------------------------------------------------------------------
(* The threads' steps from one place in the code to the next.              *)

Goto(c, from, to) == pc[c] = from /\ pc' = [pc EXCEPT ![c] = to]

WorkerGoto(w, from, to) == wpc[w] = from /\ wpc' = [wpc EXCEPT ![w] = to]

NextEntry(w) == wnow' = [wnow EXCEPT ![w] = (@ + 1) % EQ_MAX]

-----------------------------------------------------------------------------
(* Wrong variants of some actions below, each a slip one could make in the *)
(* code.  They are no part of the specification: put in the place of the   *)
(* action, each must make a property fail.                                 *)

\* The new tail does not wrap around.
ReadTailNoWrap(c) ==
  /\ Goto(c, "tail", "probe")
  /\ now' = [now EXCEPT ![c] = EQ_tail + 1]
  /\ UNCHANGED <<ring, flags, entry, event, worker, history>>

\* The call takes the first free entry instead of the one after the tail.
ReadTailFirstFree(c) ==
  /\ Goto(c, "tail", "probe")
  /\ \E i \in Slots :
       /\ EQ[i].valid = 0 /\ \A j \in Slots : EQ[j].valid = 0 => i <= j
       /\ now' = [now EXCEPT ![c] = i]
  /\ UNCHANGED <<ring, flags, entry, event, worker, history>>

\* The lock is set without looking whether it is free.
TakeSlotBlindly(c) ==
  /\ Goto(c, "trylock", "check")
  /\ EQ' = [EQ EXCEPT ![now[c]].lock = 1]
  /\ UNCHANGED <<EQ_tail, flags, call, worker, history>>

\* valid is not tested again under the lock.
MarkValidUnchecked(c) ==
  /\ Goto(c, "check", "fields")
  /\ EQ' = [EQ EXCEPT ![now[c]].valid = 1]
  /\ UNCHANGED <<EQ_tail, flags, call, worker, history>>

\* An entry found full is given back as if it were one's own.
GiveBackCleared(c) ==
  /\ Goto(c, "check", "probe")
  /\ EQ[now[c]].valid # 0
  /\ EQ' = [EQ EXCEPT ![now[c]].valid = 0, ![now[c]].lock = 0]
  /\ UNCHANGED <<EQ_tail, flags, call, worker, history>>

\* The lock is still held when the call goes on.
UnlockForgotten(c) ==
  /\ Goto(c, "unlock", "settail")
  /\ UNCHANGED <<ring, flags, call, worker, history>>

\* The tail stays where it is.
StoreTailForgotten(c) ==
  /\ Goto(c, "settail", "ready")
  /\ UNCHANGED <<ring, flags, call, worker, history>>

\* The barrier waits only for a state marked as running.
BarrierEnterRunning(p, s) ==
  /\ Goto(p, "ready", IF state[s] = 2 THEN "cancel" ELSE "leave")
  /\ entry' = [entry EXCEPT ![p] = s]
  /\ UNCHANGED <<ring, flags, event, now, worker, history>>

\* The worker does not test valid again under the lock.
MarkRunningUnchecked(w) ==
  /\ WorkerGoto(w, "recheck", "run")
  /\ EQ' = [EQ EXCEPT ![wnow[w]].valid = 2]
  /\ UNCHANGED <<EQ_tail, flags, pc, call, wnow, history>>

\* The entry becomes pending again when its function has run.
ClearEntryToPending(w) ==
  /\ WorkerGoto(w, "clear", "decrement")
  /\ EQ' = [EQ EXCEPT ![wnow[w]].valid = 1]
  /\ UNCHANGED <<EQ_tail, flags, pc, call, wnow, history>>

\* The decrement is forgotten when the state has become valid meanwhile.
DecrementInvalidOnly(w) ==
  /\ WorkerGoto(w, "decrement", "test")
  /\ pending' = [pending EXCEPT ![EQ[wnow[w]].state] =
                   IF state[EQ[wnow[w]].state] = 0 THEN @ - 1 ELSE @]
  /\ UNCHANGED <<ring, state, cancel, pc, call, wnow, history>>

\* The test is made on the count before the decrement.
TestOldPending(w) ==
  /\ WorkerGoto(w, "test", IF pending[EQ[wnow[w]].state] = 1 THEN "validate" ELSE "release")
  /\ UNCHANGED <<ring, flags, pc, call, wnow, history>>

\* The worker goes on with the lock of the entry still set.
ReleaseEntryLocked(w) ==
  /\ WorkerGoto(w, "release", "scan")
  /\ NextEntry(w)
  /\ UNCHANGED <<ring, flags, pc, call, history>>

-----------------------------------------------------------------------------
(* tstore and dtt_event_create, by a program thread or, when Nested, by a  *)
(* support function.                                                       *)

CanCall(c) ==
  \/ c \in Program
  \/ Nested /\ c \in Workers /\ wpc[c] = "run"

\* tstore reads cancel = 0 and the store triggers: the event gets its number.
TstoreTriggers(c, s) ==
  /\ CanCall(c) /\ cancel[s] = 0 /\ issued < MaxEvents
  /\ Goto(c, "ready", "increment")
  /\ issued' = issued + 1
  /\ source' = [source EXCEPT ![issued + 1] = s]
  /\ entry' = [entry EXCEPT ![c] = s]
  /\ event' = [event EXCEPT ![c] = issued + 1]
  /\ UNCHANGED <<ring, flags, now, worker, ran, invalidator>>

\* tstore reads cancel = 1 ...
TstoreCancelled(c, s) ==
  /\ CanCall(c) /\ cancel[s] = 1
  /\ Goto(c, "ready", "cancelled")
  /\ entry' = [entry EXCEPT ![c] = s]
  /\ UNCHANGED <<ring, flags, event, now, worker, history>>

\* ... and drops the trigger, leaving the state invalid.
TstoreDrops(c) ==
  /\ Goto(c, "cancelled", "ready")
  /\ state' = [state EXCEPT ![entry[c]] = 0]
  /\ invalidator' = [invalidator EXCEPT ![entry[c]] = "program"]
  /\ UNCHANGED <<ring, pending, cancel, call, worker, issued, source, ran>>

AtomicIncrement(c) ==
  /\ Goto(c, "increment", "invalidate")
  /\ pending' = [pending EXCEPT ![entry[c]] = @ + 1]
  /\ UNCHANGED <<ring, state, cancel, call, worker, history>>

InvalidateState(c) ==
  /\ Goto(c, "invalidate", "tail")
  /\ state' = [state EXCEPT ![entry[c]] = 0]
  /\ invalidator' = [invalidator EXCEPT ![entry[c]] = "event"]
  /\ UNCHANGED <<ring, pending, cancel, call, worker, issued, source, ran>>

\* The one entry this call will use, however long it has to wait for it.
ReadTail(c) ==
  /\ Goto(c, "tail", "probe")
  /\ now' = [now EXCEPT ![c] = (EQ_tail + 1) % EQ_MAX]
  /\ UNCHANGED <<ring, flags, entry, event, worker, history>>

ProbeFree(c) ==
  /\ Goto(c, "probe", "trylock")
  /\ EQ[now[c]].valid = 0
  /\ UNCHANGED <<ring, flags, call, worker, history>>

\* With the read hoisted, one look at a busy entry is the last.  (With the
\* read in the loop the look is repeated: a stuttering step.)
ProbeBusyForever(c) ==
  /\ ~Reload
  /\ Goto(c, "probe", "hung")
  /\ EQ[now[c]].valid # 0
  /\ UNCHANGED <<ring, flags, call, worker, history>>

TakeSlot(c) ==
  /\ Goto(c, "trylock", "check")
  /\ EQ[now[c]].lock = 0
  /\ EQ' = [EQ EXCEPT ![now[c]].lock = 1]
  /\ UNCHANGED <<EQ_tail, flags, call, worker, history>>

SlotLocked(c) ==
  /\ Goto(c, "trylock", "probe")
  /\ EQ[now[c]].lock = 1
  /\ UNCHANGED <<ring, flags, call, worker, history>>

MarkValid(c) ==
  /\ Goto(c, "check", "fields")
  /\ EQ[now[c]].valid = 0
  /\ EQ' = [EQ EXCEPT ![now[c]].valid = 1]
  /\ UNCHANGED <<EQ_tail, flags, call, worker, history>>

\* Another caller filled the entry first.
GiveBack(c) ==
  /\ Goto(c, "check", "probe")
  /\ EQ[now[c]].valid # 0
  /\ EQ' = [EQ EXCEPT ![now[c]].lock = 0]
  /\ UNCHANGED <<EQ_tail, flags, call, worker, history>>

FillFields(c) ==
  /\ Goto(c, "fields", "unlock")
  /\ EQ' = [EQ EXCEPT ![now[c]].state = entry[c], ![now[c]].event = event[c]]
  /\ UNCHANGED <<EQ_tail, flags, call, worker, history>>

UnlockSlot(c) ==
  /\ Goto(c, "unlock", "settail")
  /\ EQ' = [EQ EXCEPT ![now[c]].lock = 0]
  /\ UNCHANGED <<EQ_tail, flags, call, worker, history>>

StoreTail(c) ==
  /\ Goto(c, "settail", "ready")
  /\ EQ_tail' = now[c]
  /\ UNCHANGED <<EQ, flags, call, worker, history>>

-----------------------------------------------------------------------------
(* The other calls of the program threads.                                 *)

\* dtt_init: pthread_create starts a worker.  (When it fails dtt_init does
\* not notice: a stuttering step, and the worker stays "none".)
DttInit(p, w) ==
  /\ pc[p] = "ready" /\ wpc[w] = "none"
  /\ wpc' = [wpc EXCEPT ![w] = "scan"]
  /\ UNCHANGED <<ring, flags, pc, call, wnow, history>>

\* dtt_barrier: (pending != 0 || state == 2) ...
BarrierEnter(p, s) ==
  /\ Goto(p, "ready", IF pending[s] # 0 \/ state[s] = 2 THEN "cancel" ELSE "leave")
  /\ entry' = [entry EXCEPT ![p] = s]
  /\ UNCHANGED <<ring, flags, event, now, worker, history>>

\* ... && cancel == 0
BarrierReadsCancel(p) ==
  /\ Goto(p, "cancel", IF cancel[entry[p]] = 0 THEN "waiting" ELSE "leave")
  /\ UNCHANGED <<ring, flags, call, worker, history>>

\* The loop on pending, or in the default build on state, ends.
BarrierStopsWaiting(p) ==
  /\ Goto(p, "waiting", "leave")
  /\ IF PendingCount THEN pending[entry[p]] = 0 ELSE state[entry[p]] # 2
  /\ UNCHANGED <<ring, flags, call, worker, history>>

BarrierReturns(p) ==
  /\ Goto(p, "leave", "ready")
  /\ cancel' = [cancel EXCEPT ![entry[p]] = 0]
  /\ UNCHANGED <<ring, state, pending, call, worker, history>>

DttInvalidate(p, s) ==
  /\ pc[p] = "ready"
  /\ state' = [state EXCEPT ![s] = 0]
  /\ invalidator' = [invalidator EXCEPT ![s] = "program"]
  /\ UNCHANGED <<ring, pending, cancel, pc, call, worker, issued, source, ran>>

DttValidate(p, s) ==
  /\ Goto(p, "ready", "validating")
  /\ state' = [state EXCEPT ![s] = 1]
  /\ entry' = [entry EXCEPT ![p] = s]
  /\ UNCHANGED <<ring, pending, cancel, event, now, worker, history>>

ValidateClearsCancel(p) ==
  /\ Goto(p, "validating", "ready")
  /\ cancel' = [cancel EXCEPT ![entry[p]] = 0]
  /\ UNCHANGED <<ring, state, pending, call, worker, history>>

\* dtt_cancel is declared by dtt.h and not defined by the library: the
\* program sets the flag that tstore and dtt_barrier test.
DttCancel(p, s) ==
  /\ pc[p] = "ready"
  /\ cancel' = [cancel EXCEPT ![s] = 1]
  /\ UNCHANGED <<ring, state, pending, pc, call, worker, history>>

-----------------------------------------------------------------------------
(* dtt(), the loop of a worker.  EQ_head is never written, so every scan   *)
(* starts at entry 0 and one scan follows the other around the ring.       *)

ScanSkip(w) ==
  /\ wpc[w] = "scan"
  /\ EQ[wnow[w]].valid # 1
  /\ NextEntry(w)
  /\ UNCHANGED <<ring, flags, pc, call, wpc, history>>

ScanFind(w) ==
  /\ WorkerGoto(w, "scan", "trylock")
  /\ EQ[wnow[w]].valid = 1
  /\ UNCHANGED <<ring, flags, pc, call, wnow, history>>

GrabEntry(w) ==
  /\ WorkerGoto(w, "trylock", "recheck")
  /\ EQ[wnow[w]].lock = 0
  /\ EQ' = [EQ EXCEPT ![wnow[w]].lock = 1]
  /\ UNCHANGED <<EQ_tail, flags, pc, call, wnow, history>>

EntryLocked(w) ==
  /\ WorkerGoto(w, "trylock", "scan")
  /\ EQ[wnow[w]].lock = 1
  /\ NextEntry(w)
  /\ UNCHANGED <<ring, flags, pc, call, history>>

MarkRunning(w) ==
  /\ WorkerGoto(w, "recheck", "run")
  /\ EQ[wnow[w]].valid = 1
  /\ EQ' = [EQ EXCEPT ![wnow[w]].valid = 2]
  /\ UNCHANGED <<EQ_tail, flags, pc, call, wnow, history>>

\* "DTT runtime error: Lock grabbed"
LockGrabbed(w) ==
  /\ WorkerGoto(w, "recheck", "scan")
  /\ EQ[wnow[w]].valid # 1
  /\ EQ' = [EQ EXCEPT ![wnow[w]].lock = 0]
  /\ NextEntry(w)
  /\ UNCHANGED <<EQ_tail, flags, pc, call, history>>

\* The support function returns, after the tstore calls it makes when Nested.
RunSupportFunction(w) ==
  /\ pc[w] = "ready"
  /\ WorkerGoto(w, "run", "clear")
  /\ ran' = [ran EXCEPT ![EQ[wnow[w]].event] = @ + 1]
  /\ UNCHANGED <<ring, flags, pc, call, wnow, issued, source, invalidator>>

ClearEntry(w) ==
  /\ WorkerGoto(w, "clear", "decrement")
  /\ EQ' = [EQ EXCEPT ![wnow[w]].valid = 0]
  /\ UNCHANGED <<EQ_tail, flags, pc, call, wnow, history>>

AtomicDecrement(w) ==
  /\ WorkerGoto(w, "decrement", "test")
  /\ pending' = [pending EXCEPT ![EQ[wnow[w]].state] = @ - 1]
  /\ UNCHANGED <<ring, state, cancel, pc, call, wnow, history>>

TestPending(w) ==
  /\ WorkerGoto(w, "test", IF pending[EQ[wnow[w]].state] = 0 THEN "validate" ELSE "release")
  /\ UNCHANGED <<ring, flags, pc, call, wnow, history>>

ValidateState(w) ==
  /\ WorkerGoto(w, "validate", "release")
  /\ state' = [state EXCEPT ![EQ[wnow[w]].state] = 1]
  /\ UNCHANGED <<ring, pending, cancel, pc, call, wnow, history>>

ReleaseEntry(w) ==
  /\ WorkerGoto(w, "release", "scan")
  /\ EQ' = [EQ EXCEPT ![wnow[w]].lock = 0]
  /\ NextEntry(w)
  /\ UNCHANGED <<EQ_tail, flags, pc, call, history>>

-----------------------------------------------------------------------------

\* The steps of a call that is under way.
CallStep(c) ==
  \/ TstoreDrops(c) \/ AtomicIncrement(c) \/ InvalidateState(c) \/ ReadTail(c)
  \/ ProbeFree(c) \/ ProbeBusyForever(c) \/ TakeSlot(c) \/ SlotLocked(c)
  \/ MarkValid(c) \/ GiveBack(c) \/ FillFields(c) \/ UnlockSlot(c) \/ StoreTail(c)

ProgramStep(p) ==
  \/ BarrierReadsCancel(p) \/ BarrierStopsWaiting(p) \/ BarrierReturns(p)
  \/ ValidateClearsCancel(p)

\* The steps of dtt() itself; with those of the support function it calls.
ScanStep(w) ==
  \/ ScanSkip(w) \/ ScanFind(w) \/ GrabEntry(w) \/ EntryLocked(w)
  \/ MarkRunning(w) \/ LockGrabbed(w) \/ ClearEntry(w) \/ AtomicDecrement(w)
  \/ TestPending(w) \/ ValidateState(w) \/ ReleaseEntry(w)

WorkerStep(w) == ScanStep(w) \/ RunSupportFunction(w)

Tstore(c, s) == TstoreTriggers(c, s) \/ TstoreCancelled(c, s)

ProgramCall(p, s) ==
  BarrierEnter(p, s) \/ DttInvalidate(p, s) \/ DttValidate(p, s) \/ DttCancel(p, s)

Next ==
  \/ \E c \in Callers : CallStep(c) \/ \E s \in States : Tstore(c, s)
  \/ \E p \in Program :
       \/ ProgramStep(p)
       \/ \E s \in States : ProgramCall(p, s)
       \/ \E w \in Workers : DttInit(p, w)
  \/ \E w \in Workers : WorkerStep(w)

Spec == Init /\ [][Next]_vars

\* The operating system schedules every thread that can run.  Nothing makes
\* the program issue calls, and a support function returns.
Fairness ==
  /\ \A c \in Callers : WF_vars(CallStep(c))
  /\ \A p \in Program : WF_vars(ProgramStep(p))
  /\ \A w \in Workers : WF_vars(WorkerStep(w))

FairSpec == Spec /\ Fairness
-----------------------------------------------------------------------------
(* The correctness of the runtime.                                         *)

CallerPC == {"ready", "cancelled", "increment", "invalidate", "tail", "probe", "trylock",
             "check", "fields", "unlock", "settail", "hung", "cancel", "waiting", "leave",
             "validating"}
WorkerPC == {"none", "scan", "trylock", "recheck", "run", "clear", "decrement", "test",
             "validate", "release"}

Entry == [valid : 0 .. 2, lock : 0 .. 1, state : States \cup {NoState},
          event : Events \cup {0}]

RingType == EQ \in [Slots -> Entry] /\ EQ_tail \in Slots

FlagsType ==
  /\ state \in [States -> 0 .. 1]
  /\ pending \in [States -> Int]
  /\ cancel \in [States -> 0 .. 1]

CallType ==
  /\ pc \in [Callers -> CallerPC]
  /\ entry \in [Callers -> States \cup {NoState}]
  /\ event \in [Callers -> Events \cup {0}]
  /\ now \in [Callers -> Slots]

WorkerType == wpc \in [Workers -> WorkerPC] /\ wnow \in [Workers -> Slots]

HistoryType ==
  /\ issued \in 0 .. MaxEvents
  /\ source \in [Events -> States \cup {NoState}]
  /\ ran \in [Events -> Nat]
  /\ invalidator \in [States -> {"none", "event", "program"}]

\* The type invariant.  No call of the library writes 2 or 3 into
\* dtt_state.state, so the barrier's loop on state is never entered.
TypeOK == RingType /\ FlagsType /\ CallType /\ WorkerType /\ HistoryType

\* Who holds the lock of an entry, and which worker runs its event.
HoldsAsCaller(c, i) == pc[c] \in {"check", "fields", "unlock"} /\ now[c] = i
HoldsAsWorker(w, i) ==
  /\ wpc[w] \in {"recheck", "run", "clear", "decrement", "test", "validate", "release"}
  /\ wnow[w] = i
Runs(w, i) == wpc[w] \in {"run", "clear"} /\ wnow[w] = i

LockHeld ==
  \A i \in Slots :
    EQ[i].lock = 1 <=> \/ \E c \in Callers : HoldsAsCaller(c, i)
                       \/ \E w \in Workers : HoldsAsWorker(w, i)

OneHolder ==
  \A i \in Slots :
    /\ \A c, d \in Callers : HoldsAsCaller(c, i) /\ HoldsAsCaller(d, i) => c = d
    /\ \A v, w \in Workers : HoldsAsWorker(v, i) /\ HoldsAsWorker(w, i) => v = w
    /\ \A c \in Callers, w \in Workers : ~(HoldsAsCaller(c, i) /\ HoldsAsWorker(w, i))

RunningMarked ==
  \A i \in Slots : EQ[i].valid = 2 <=> \E w \in Workers : Runs(w, i)

\* Where an event is between its tstore and its support function: in a call
\* that posts it, in an entry of the ring, its function begun or not.
Posting(c) == pc[c] \in {"increment", "invalidate", "tail", "probe", "trylock", "check",
                         "fields", "hung"}
Filled(i)  == EQ[i].valid # 0 /\ \A c \in Callers : ~(pc[c] = "fields" /\ now[c] = i)
Begun(i)   == \E w \in Workers : wnow[w] = i /\ wpc[w] = "clear"

\* The calls, entries and workers that have an event of s counted in pending.
Counted(s)  == {c \in Callers : Posting(c) /\ pc[c] # "increment" /\ entry[c] = s}
Queued(s)   == {i \in Slots : Filled(i) /\ EQ[i].state = s}
Retiring(s) == {w \in Workers : wpc[w] = "decrement" /\ EQ[wnow[w]].state = s}

\* The calls and entries that have event e before its support function ran.
PostedBy(e) == {c \in Callers : Posting(c) /\ event[c] = e}
HeldIn(e)   == {i \in Slots : Filled(i) /\ ~Begun(i) /\ EQ[i].event = e}

\* An entry of the ring is in the hands of one thread at a time: its lock is
\* taken exactly when a caller or a worker holds it, two threads never hold
\* the same entry, and an entry marked as running (2) is held by the worker
\* that runs it.  (dtt_event_create fills the entry and dtt() uses its state
\* pointer after the unlocked test of valid, relying on this.)
EntryOwnership == LockHeld /\ OneHolder /\ RunningMarked

\* pending is the count of the events of the state that are under way: in a
\* call of dtt_event_create past its increment, in the ring, or in a worker
\* that has cleared the entry and not yet decremented.  In particular the
\* decrement never takes it below zero, and it is 0 only when all are done.
PendingCounts ==
  \A s \in States :
    pending[s] = Cardinality(Counted(s)) + Cardinality(Queued(s)) + Cardinality(Retiring(s))

\* No event is lost and none runs twice: an event that was posted has run
\* once, or is in the hands of one call, or in one entry of the ring.
ExactlyOnce ==
  \A e \in 1 .. issued :
    ran[e] + Cardinality(PostedBy(e)) + Cardinality(HeldIn(e)) = 1

\* The validation of a result is not lost in the race between the decrement
\* of one event and the increment of another: when all events of a state have
\* been counted off and no one else invalidated it, it is valid or a worker is
\* about to make it so.  (Otherwise the program would recompute for ever.)
NoLostValidation ==
  \A s \in States :
    invalidator[s] = "event" /\ pending[s] = 0 /\ state[s] # 1 =>
      \E w \in Workers : wpc[w] \in {"test", "validate"} /\ EQ[wnow[w]].state = s

\* In the build with DTT_PENDING_COUNT dtt_barrier waits for every event of
\* the state posted before: it finds pending at 0, on entry or in its loop,
\* only when each has run or is still to be counted by another thread.
BarrierWaitsForEvents ==
  [][\A p \in Program :
       pc[p] \in {"ready", "waiting"} /\ pc'[p] = "leave" =>
         \A e \in 1 .. issued :
           source[e] = entry'[p] =>
             ran[e] = 1 \/ \E c \in Callers : pc[c] = "increment" /\ event[c] = e]_vars

\* A ring is no queue, but with one thread posting an event is overtaken only
\* by the EQ_MAX - 1 events posted after it: the entry of a later one is not
\* free before it has run.
BoundedOvertaking ==
  \A e, f \in 1 .. issued : ran[e] = 0 /\ ran[f] > 0 => f < e + EQ_MAX

\* "The EQ[now] is grabbed by others... Give up. Should not happen anyway."
\* (dtt.c:177): between its unlocked look at an entry and its lock no other
\* thread takes the event.  True with a single worker, the one dtt_init starts.
NeverGrabbedByOthers ==
  \A w \in Workers : wpc[w] = "recheck" => EQ[wnow[w]].valid = 1

\* The runtime is a bag of at most EQ_MAX tasks: the events waiting in the
\* ring, those a worker runs, and those that have run.
Tasks == INSTANCE TriggeredTasks WITH
           Tasks    <- Events,
           Capacity <- EQ_MAX,
           waiting  <- {EQ[i].event : i \in {j \in Slots : Filled(j) /\ EQ[j].valid = 1}},
           running  <- {EQ[wnow[w]].event : w \in {v \in Workers : wpc[v] = "run"}},
           done     <- {e \in Events : ran[e] > 0}

ImplementsTasks == Tasks!Spec

-----------------------------------------------------------------------------
(* Liveness, under FairSpec and when a worker was started.                 *)

Started == \E w \in Workers : wpc[w] # "none"

\* Every event posted is run in the end: no worker passes it by for ever,
\* though all scan from entry 0 and skip the entries they find locked.
EventsRun ==
  \A e \in Events : (issued >= e /\ Started) ~> (ran[e] = 1)

\* A tstore returns: "No free entry, another run" (dtt.c:83), until a worker
\* has made the entry free.
TstoreReturns ==
  \A c \in Callers : (Posting(c) /\ Started) ~> (pc[c] = "ready")

\* A thread in dtt_barrier leaves it.
BarrierEnds ==
  \A p \in Program : (pc[p] = "waiting" /\ Started) ~> (pc[p] = "leave")

\* When a state's events are done and nothing else touches it, it becomes
\* valid and stays valid: the program may skip the computation from then on.
EventuallyValid ==
  \A s \in States :
    <>[](invalidator[s] = "event" /\ pending[s] = 0) => <>[](state[s] = 1)

-----------------------------------------------------------------------------
(* What the comments of the code say, and the code does not keep.          *)

\* "0 for invalid, 1 for valid" (dtt.h:17): a worker that has counted off the
\* last event declares the result valid only when no event of the state is
\* waiting in the ring; a result the program may use is up to date.
ValidatesOnlyWhenDone ==
  [][\A w \in Workers : wpc[w] = "validate" /\ wpc'[w] = "release" =>
       \A i \in Slots : Filled(i) /\ EQ[i].valid = 1 => EQ[i].state # EQ[wnow[w]].state]_vars

\* "2 for running" (dtt.h:17), and the loop of dtt_barrier in the default
\* build waits while the state is 2: a thread that waits in the barrier does
\* not leave it while a support function of the state runs.
BarrierOutlastsRunning ==
  [][\A p \in Program : pc[p] = "waiting" /\ pc'[p] = "leave" =>
       \A w \in Workers : wpc[w] = "run" => EQ[wnow[w]].state # entry[p]]_vars

=============================================================================
