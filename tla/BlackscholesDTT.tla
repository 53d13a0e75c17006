--------------------------- MODULE BlackscholesDTT ---------------------------
(***************************************************************************)
(* The copy of the runtime that blackscholes includes                      *)
(* (src/parsec/blackscholes/dtt.c, dtt.h).  It has one producer, the       *)
(* thread main, and is built in one of several ways:                       *)
(*                                                                         *)
(*   SINGLE_THREAD   tstore calls the support function itself (Makefile)   *)
(*   DTT_POLLING     a thread running dtt() follows the ring               *)
(*   NODTT           as DTT_POLLING, with triggers meant to do nothing     *)
(*   SPAWN           none of these macros: tstore starts a thread          *)
(*   TAIL_RECURSION  DTT_TAIL_RECURSION: that thread runs dtt()            *)
(*                                                                         *)
(* An action is one access to shared memory.  The makefile compiles        *)
(* without optimisation, so the accesses come in the order of the code.    *)
(***************************************************************************)
EXTENDS Integers, FiniteSets

CONSTANTS
  Threads,  \* the threads pthread_create may have running at one time
  EQ_MAX,   \* the entries of the ring (1024 in dtt.c)
  Builds,   \* the builds considered
  Args      \* the args of an event: the index of an option

ASSUME RingAssumption == EQ_MAX \in Nat \ {0}
ASSUME BuildAssumption ==
  Builds \subseteq {"SINGLE_THREAD", "DTT_POLLING", "NODTT", "SPAWN", "TAIL_RECURSION"}
ASSUME ArgsAssumption == 0 \in Args
ASSUME ThreadsAssumption == "main" \notin Threads

Slots == 0 .. EQ_MAX - 1

\* Who may run a support function: main does in the single-threaded build.
Runners == Threads \cup {"main"}

VARIABLES
  build,     \* the build, chosen once
  EQ,        \* the ring; state and func of an entry are NULL (FALSE) or set
  EQ_head,   \* the entry the polling thread looks at
  EQ_tail,   \* the entry the next event goes to
  state,     \* blackscholesState->state: 0 invalid, 1 valid, 2 running
  pc,        \* where main is
  instance,  \* tstore's dtt_instance, the entry just filled
  tpc,       \* where a thread, or main in a support function, is
  cur,       \* the entry (dtt_event *) it works on
  old,       \* dtt()'s local: it has run an event since it was last idle
  crashed    \* the process died of a NULL call or a wild pthread_detach

runtime == <<build, EQ, EQ_head, EQ_tail, state, pc, instance, tpc, cur, old, crashed>>

Polling == build \in {"DTT_POLLING", "NODTT"}

\* dtt_state_create is a calloc (its cancel = 1 is never read), and EQ is 0.
RuntimeInit ==
  /\ build \in Builds
  /\ EQ = [i \in Slots |-> [valid |-> 0, state |-> FALSE, func |-> FALSE, args |-> 0]]
  /\ EQ_head = 0 /\ EQ_tail = 0 /\ state = 0
  /\ pc = "start" /\ instance = 0
  /\ tpc = [r \in Runners |-> "none"]
  /\ cur = [r \in Runners |-> 0]
  /\ old = [t \in Threads |-> FALSE]
  /\ crashed = FALSE

Goto(from, to) == pc = from /\ pc' = to

ThreadGoto(r, from, to) == tpc[r] = from /\ tpc' = [tpc EXCEPT ![r] = to]

\* Wrong variant: the index is not reduced.
NextSlotNoWrap(i) == i + 1

NextSlot(i) == (i + 1) % EQ_MAX

-----------------------------------------------------------------------------
(* tstore and dtt_event_create, called by main.  The value stored, 1, is   *)
(* never assigned to the trigger, so memcmp always finds a change.         *)

\* DTT_POLLING: "if(state->state < 2)" ...
ReadState ==
  /\ build = "DTT_POLLING"
  /\ Goto("tstore", IF state < 2 THEN "mark" ELSE "wait")
  /\ UNCHANGED <<build, EQ, EQ_head, EQ_tail, state, instance, tpc, cur, old, crashed>>

\* ... "state->state = 2".
MarkState ==
  /\ Goto("mark", "wait")
  /\ state' = 2
  /\ UNCHANGED <<build, EQ, EQ_head, EQ_tail, instance, tpc, cur, old, crashed>>

\* NODTT: the state is made invalid, and no free entry is waited for.
InvalidateState ==
  /\ build = "NODTT"
  /\ Goto("tstore", "fields")
  /\ state' = 0
  /\ UNCHANGED <<build, EQ, EQ_head, EQ_tail, instance, tpc, cur, old, crashed>>

\* DTT_POLLING: "while(dtt_arg->valid);"
WaitForEntry ==
  /\ Goto("wait", "fields")
  /\ EQ[EQ_tail].valid = 0
  /\ UNCHANGED <<build, EQ, EQ_head, EQ_tail, state, instance, tpc, cur, old, crashed>>

\* The other builds overwrite the entry at the tail, whatever it holds.
StoreState ==
  /\ Goto(IF Polling THEN "fields" ELSE "tstore", "func")
  /\ EQ' = [EQ EXCEPT ![EQ_tail].state = TRUE]
  /\ UNCHANGED <<build, EQ_head, EQ_tail, state, instance, tpc, cur, old, crashed>>

StoreFunc ==
  /\ Goto("func", "args")
  /\ EQ' = [EQ EXCEPT ![EQ_tail].func = TRUE]
  /\ UNCHANGED <<build, EQ_head, EQ_tail, state, instance, tpc, cur, old, crashed>>

StoreArgs(a) ==
  /\ Goto("args", "valid")
  /\ EQ' = [EQ EXCEPT ![EQ_tail].args = a]
  /\ UNCHANGED <<build, EQ_head, EQ_tail, state, instance, tpc, cur, old, crashed>>

StoreValid ==
  /\ Goto("valid", "tail")
  /\ EQ' = [EQ EXCEPT ![EQ_tail].valid = 1]
  /\ UNCHANGED <<build, EQ_head, EQ_tail, state, instance, tpc, cur, old, crashed>>

StoreTail ==
  /\ Goto("tail", IF Polling THEN "posted" ELSE "spawn")
  /\ EQ_tail' = IF build = "NODTT" THEN EQ_tail ELSE NextSlot(EQ_tail)
  /\ instance' = EQ_tail
  /\ UNCHANGED <<build, EQ, EQ_head, state, tpc, cur, old, crashed>>

\* Wrong variant: the test is made in the SINGLE_THREAD build too.
RunsInstanceAtHead == instance = EQ_head

\* "Only spawn when there is no thread", which is taken to be so when the
\* entry is the one at EQ_head.  SINGLE_THREAD leaves this test out.
RunsInstance == build = "SINGLE_THREAD" \/ instance = EQ_head

NotAtHead ==
  /\ ~RunsInstance
  /\ Goto("spawn", "posted")
  /\ UNCHANGED <<build, EQ, EQ_head, EQ_tail, state, instance, tpc, cur, old, crashed>>

MarkSpawning ==
  /\ RunsInstance
  /\ Goto("spawn", "create")
  /\ state' = 2
  /\ UNCHANGED <<build, EQ, EQ_head, EQ_tail, instance, tpc, cur, old, crashed>>

\* A thread starts in func or, with tail recursion, in dtt().
Start(t, i, to) ==
  /\ tpc[t] = "none"
  /\ tpc' = [tpc EXCEPT ![t] = to]
  /\ cur' = [cur EXCEPT ![t] = i]

\* pthread_create is repeated until it succeeds.
SpawnThread(t) ==
  /\ build \in {"SPAWN", "TAIL_RECURSION"}
  /\ Goto("create", "posted")
  /\ Start(t, instance, IF build = "SPAWN" THEN "load" ELSE "loop")
  /\ UNCHANGED <<build, EQ, EQ_head, EQ_tail, state, instance, old, crashed>>

\* SINGLE_THREAD: func(dtt_instance), "state = 1" and "valid = 0" afterwards.
CallSupport ==
  /\ build = "SINGLE_THREAD"
  /\ Goto("create", "called")
  /\ Start("main", instance, "load")
  /\ UNCHANGED <<build, EQ, EQ_head, EQ_tail, state, instance, old, crashed>>

SupportReturned ==
  /\ Goto("called", "release")
  /\ ThreadGoto("main", "returned", "none")
  /\ state' = 1
  /\ UNCHANGED <<build, EQ, EQ_head, EQ_tail, instance, cur, old, crashed>>

ReleaseInstance ==
  /\ Goto("release", "posted")
  /\ EQ' = [EQ EXCEPT ![instance].valid = 0]
  /\ UNCHANGED <<build, EQ_head, EQ_tail, state, instance, tpc, cur, old, crashed>>

PostStep(a) ==
  \/ ReadState \/ MarkState \/ InvalidateState \/ WaitForEntry
  \/ StoreState \/ StoreFunc \/ StoreArgs(a) \/ StoreValid \/ StoreTail
  \/ NotAtHead \/ MarkSpawning \/ CallSupport \/ SupportReturned \/ ReleaseInstance
  \/ \E t \in Threads : SpawnThread(t)

-----------------------------------------------------------------------------
(* dtt_return, called by a support function with the event it was given.   *)

\* The support function and then dtt_return store 0 into event->valid.
ClearValid(r, from, to) ==
  /\ ThreadGoto(r, from, to)
  /\ EQ' = [EQ EXCEPT ![cur[r]].valid = 0]
  /\ UNCHANGED <<build, EQ_head, EQ_tail, state, pc, instance, cur, old, crashed>>

\* Wrong variant: the code commented out above it advances EQ_head first.
CheckHeadAdvanced(r) ==
  /\ EQ_head' = IF EQ_head # EQ_tail THEN NextSlot(EQ_head) ELSE EQ_head
  /\ ThreadGoto(r, "check", IF EQ[EQ_head'].valid = 0 THEN "last" ELSE "chain")
  /\ UNCHANGED <<build, EQ, EQ_tail, state, pc, instance, cur, old, crashed>>

\* SPAWN: "This is the last task" when the entry at the head is not valid.
CheckHead(r) ==
  /\ ThreadGoto(r, "check", IF EQ[EQ_head].valid = 0 THEN "last" ELSE "chain")
  /\ UNCHANGED <<build, EQ, EQ_head, EQ_tail, state, pc, instance, cur, old, crashed>>

ValidateLast(r) ==
  /\ ThreadGoto(r, "last", "clear")
  /\ state' = 1
  /\ UNCHANGED <<build, EQ, EQ_head, EQ_tail, pc, instance, cur, old, crashed>>

\* Another thread is started for the entry at the head.  pthread_detach is
\* passed the address of the thread id and not the id, which may do nothing
\* or crash.
ChainThread(r, t) ==
  /\ tpc[r] = "chain" /\ tpc[t] = "none"
  /\ tpc' = [tpc EXCEPT ![r] = "clear", ![t] = "load"]
  /\ cur' = [cur EXCEPT ![t] = EQ_head]
  /\ crashed' \in BOOLEAN
  /\ UNCHANGED <<build, EQ, EQ_head, EQ_tail, state, pc, instance, old>>

\* pthread_create failed: the event is run here, and its function ends with
\* pthread_exit.
ChainHere(r) ==
  /\ ThreadGoto(r, "chain", "load")
  /\ EQ' = [EQ EXCEPT ![cur[r]].valid = 0]
  /\ cur' = [cur EXCEPT ![r] = EQ_head]
  /\ UNCHANGED <<build, EQ_head, EQ_tail, state, pc, instance, old, crashed>>

DttReturn(r) ==
  \/ CheckHead(r) \/ ValidateLast(r) \/ ChainHere(r) \/ ClearValid(r, "clear", "finish")
  \/ \E t \in Threads : ChainThread(r, t)

-----------------------------------------------------------------------------
(* dtt() of the polling builds.                                            *)

\* while(EQ_head != EQ_tail || EQ[EQ_head].valid)
PollTail(t) ==
  /\ ThreadGoto(t, "poll", IF EQ_head # EQ_tail THEN "take" ELSE "peek")
  /\ UNCHANGED <<build, EQ, EQ_head, EQ_tail, state, pc, instance, cur, old, crashed>>

PollValid(t) ==
  /\ ThreadGoto(t, "peek", IF EQ[EQ_head].valid # 0 THEN "take" ELSE "idle")
  /\ UNCHANGED <<build, EQ, EQ_head, EQ_tail, state, pc, instance, cur, old, crashed>>

\* if(current && current->state)
TakeEntry(t) ==
  /\ ThreadGoto(t, "take", IF EQ[EQ_head].state THEN "grab" ELSE "poll")
  /\ cur' = [cur EXCEPT ![t] = EQ_head]
  /\ UNCHANGED <<build, EQ, EQ_head, EQ_tail, state, pc, instance, old, crashed>>

MarkRunning(t) ==
  /\ ThreadGoto(t, "grab", "running")
  /\ EQ' = [EQ EXCEPT ![cur[t]].valid = 2]
  /\ UNCHANGED <<build, EQ_head, EQ_tail, state, pc, instance, cur, old, crashed>>

StoreRunning(t) ==
  /\ ThreadGoto(t, "running", "call")
  /\ state' = 2
  /\ old' = [old EXCEPT ![t] = TRUE]
  /\ UNCHANGED <<build, EQ, EQ_head, EQ_tail, pc, instance, cur, crashed>>

\* current->func(current), which crashes when func is not stored yet.
CallFunc(t) ==
  /\ ThreadGoto(t, "call", "load")
  /\ crashed' = ~EQ[cur[t]].func
  /\ UNCHANGED <<build, EQ, EQ_head, EQ_tail, state, pc, instance, cur, old>>

\* Wrong variant: EQ_head is left where it is.
AdvanceHeadForgotten(t) ==
  /\ Polling
  /\ ThreadGoto(t, "returned", "poll")
  /\ UNCHANGED <<build, EQ, EQ_head, EQ_tail, state, pc, instance, cur, old, crashed>>

AdvanceHead(t) ==
  /\ Polling
  /\ ThreadGoto(t, "returned", "poll")
  /\ EQ_head' = NextSlot(EQ_head)
  /\ UNCHANGED <<build, EQ, EQ_tail, state, pc, instance, cur, old, crashed>>

\* in_barrier is 0: only dtt() writes it.
Idle(t) ==
  /\ ThreadGoto(t, "idle", "poll")
  /\ state' = IF old[t] THEN 1 ELSE state
  /\ old' = [old EXCEPT ![t] = FALSE]
  /\ UNCHANGED <<build, EQ, EQ_head, EQ_tail, pc, instance, cur, crashed>>

-----------------------------------------------------------------------------
(* dtt() of the build with DTT_TAIL_RECURSION.                             *)

TailTest(t) ==
  /\ ThreadGoto(t, "loop", IF EQ_head # EQ_tail THEN "tailrun" ELSE "done")
  /\ UNCHANGED <<build, EQ, EQ_head, EQ_tail, state, pc, instance, cur, old, crashed>>

TailRuns(t) ==
  /\ ThreadGoto(t, "tailrun", "load")
  /\ state' = 2
  /\ UNCHANGED <<build, EQ, EQ_head, EQ_tail, pc, instance, cur, old, crashed>>

TailNext(t) ==
  /\ build = "TAIL_RECURSION"
  /\ ThreadGoto(t, "returned", "loop")
  /\ cur' = [cur EXCEPT ![t] = EQ_head]
  /\ UNCHANGED <<build, EQ, EQ_head, EQ_tail, state, pc, instance, old, crashed>>

TailExits(t) ==
  /\ ThreadGoto(t, "done", "none")
  /\ state' = 1
  /\ UNCHANGED <<build, EQ, EQ_head, EQ_tail, pc, instance, cur, old, crashed>>

LoopStep(t) ==
  \/ PollTail(t) \/ PollValid(t) \/ TakeEntry(t) \/ MarkRunning(t) \/ StoreRunning(t)
  \/ CallFunc(t) \/ AdvanceHead(t) \/ Idle(t)
  \/ TailTest(t) \/ TailRuns(t) \/ TailNext(t) \/ TailExits(t)

-----------------------------------------------------------------------------

\* dtt_barrier returns at once when single-threaded, and otherwise when it
\* reads a state that is not 2, on entry or in its loop.
BarrierOpen == build = "SINGLE_THREAD" \/ state # 2

RuntimeTypeOK ==
  /\ build \in Builds
  /\ EQ \in [Slots -> [valid : 0 .. 2, state : BOOLEAN, func : BOOLEAN, args : Args]]
  /\ EQ_head \in Slots /\ EQ_tail \in Slots /\ instance \in Slots
  /\ state \in 0 .. 2
  /\ tpc \in [Runners -> {"none", "load", "price", "store", "release", "check", "last", "chain",
                          "clear", "finish", "returned", "poll", "peek", "take", "grab",
                          "running", "call", "idle", "loop", "tailrun", "done"}]
  /\ cur \in [Runners -> Slots]
  /\ old \in [Threads -> BOOLEAN]
  /\ crashed \in BOOLEAN

=============================================================================
