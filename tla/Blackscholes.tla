----------------------------- MODULE Blackscholes -----------------------------
(***************************************************************************)
(* blackscholes (src/parsec/blackscholes/blackscholes.c) on its copy of    *)
(* the runtime.  main reads the options, posts one event for each as it    *)
(* copies the option into the arrays, has pricers compute what the events  *)
(* have not, and writes the prices out.  A pricer is a thread, or main     *)
(* itself in the serial version.                                           *)
(*                                                                         *)
(* An option is its index, and its right price the same number: -1 stands  *)
(* for memory of prices[] that was never stored to, -2 for a price that    *)
(* was computed from an option main had not copied yet.                    *)
(***************************************************************************)
EXTENDS BlackscholesDTT, Sequences

CONSTANTS
  MaxOptions,  \* bound on the rows of the input file
  Versions,    \* a subset of {"serial", "pthreads"} (Makefile)
  MaxThreads,  \* bound on the argument nthreads
  NUM_RUNS     \* how often each price is computed (100 in blackscholes.c)

Options == 0 .. MaxOptions - 1
Pricers == 0 .. MaxThreads - 1

ASSUME VersionAssumption == Versions \subseteq {"serial", "pthreads"}
ASSUME OptionsAssumption == MaxOptions \in Nat \ {0} /\ Args = Options
ASSUME PricerAssumption == MaxThreads \in Nat \ {0} /\ NUM_RUNS \in Nat \ {0}

VARIABLES
  version,     \* the version built
  nThreads,    \* the number of pricers
  numOptions,  \* the number of options
  i,           \* main's loop counter
  filled,      \* the options main has copied into the arrays
  prices,      \* the array the events and the pricers store to
  rows,        \* the prices written to the output file
  exit,        \* the exit status, -1 while the process runs
  opt,         \* bs_thread_DTT's i, per runner
  price,       \* bs_thread_DTT's price, per runner
  bs           \* the pricers: where they are, their j, i and price

arguments == <<version, nThreads, numOptions>>
arrays == <<filled, prices>>
vars == <<runtime, arguments, i, arrays, rows, exit, opt, price, bs>>

\* BlkSchlsEqEuroNoDiv and CNDF: a function of the arrays at index o only.
BlkSchlsEqEuroNoDiv(o) == IF o \in filled THEN o ELSE -2

Running == exit = -1 /\ ~crashed

Init ==
  /\ RuntimeInit
  /\ version \in Versions
  /\ nThreads = 0 /\ numOptions = 0 /\ i = 0
  /\ filled = {} /\ prices = [o \in Options |-> -1] /\ rows = <<>> /\ exit = -1
  /\ opt = [r \in Runners |-> 0] /\ price = [r \in Runners |-> -1]
  /\ bs = [p \in Pricers |-> [at |-> "none", j |-> 0, i |-> 0, price |-> -1]]

-----------------------------------------------------------------------------
(* main.                                                                   *)

\* The variables of the runtime that main leaves alone outside tstore.
NotTheRuntime ==
  UNCHANGED <<build, EQ, EQ_head, EQ_tail, state, instance, cur, old, crashed>>

\* Only a polling build has a dtt() thread, and whether it could be created
\* is not looked at.
StartWorker ==
  /\ Goto("start", "argv")
  /\ \/ UNCHANGED tpc
     \/ Polling /\ \E t \in Threads : tpc' = [tpc EXCEPT ![t] = "poll"]
  /\ NotTheRuntime
  /\ UNCHANGED <<arguments, i, arrays, rows, exit, opt, price, bs>>

\* The usage message, and every failure to open, read, write or close a file.
ExitWithError ==
  /\ pc \in {"argv", "input", "rows", "output", "write"}
  /\ pc' = "done" /\ exit' = 1
  /\ NotTheRuntime
  /\ UNCHANGED <<tpc, arguments, i, arrays, rows, opt, price, bs>>

ReadArguments ==
  /\ Goto("argv", "input")
  /\ nThreads' \in 0 .. MaxThreads
  /\ NotTheRuntime
  /\ UNCHANGED <<tpc, version, numOptions, i, arrays, rows, exit, opt, price, bs>>

\* The count of the input file; "reducing number of threads to match number
\* of options"; the serial version needs exactly one.
ReadCount ==
  /\ pc = "input"
  /\ numOptions' \in 0 .. MaxOptions
  /\ nThreads' = IF nThreads > numOptions' THEN numOptions' ELSE nThreads
  /\ IF version = "serial" /\ nThreads' # 1
     THEN pc' = "done" /\ exit' = 1
     ELSE pc' = "rows" /\ exit' = exit
  /\ NotTheRuntime
  /\ UNCHANGED <<tpc, version, i, arrays, rows, opt, price, bs>>

ReadRow ==
  /\ pc = "rows" /\ i < numOptions
  /\ i' = i + 1
  /\ NotTheRuntime
  /\ UNCHANGED <<pc, tpc, arguments, arrays, rows, exit, opt, price, bs>>

CloseInput ==
  /\ i = numOptions
  /\ Goto("rows", "fill")
  /\ i' = 0
  /\ NotTheRuntime
  /\ UNCHANGED <<tpc, arguments, arrays, rows, exit, opt, price, bs>>

\* Wrong variant: the event is posted before the option is copied.
FillArraysLate ==
  /\ i < numOptions
  /\ Goto("fill", "tstore")
  /\ filled' = filled \cup {o \in Options : o = i - 1}
  /\ NotTheRuntime
  /\ UNCHANGED <<tpc, arguments, i, prices, rows, exit, opt, price, bs>>

\* otype[i], sptprice[i], ... otime[i] are stored, then tstore is called.
FillArrays ==
  /\ i < numOptions
  /\ Goto("fill", "tstore")
  /\ filled' = filled \cup {i}
  /\ NotTheRuntime
  /\ UNCHANGED <<tpc, arguments, i, prices, rows, exit, opt, price, bs>>

InTstore ==
  /\ PostStep(i)
  /\ UNCHANGED <<arguments, i, arrays, rows, exit, opt, price, bs>>

NextOption ==
  /\ Goto("posted", "fill")
  /\ i' = i + 1
  /\ NotTheRuntime
  /\ UNCHANGED <<tpc, arguments, arrays, rows, exit, opt, price, bs>>

AllPosted ==
  /\ i = numOptions
  /\ Goto("fill", "pricers")
  /\ i' = 0
  /\ NotTheRuntime
  /\ UNCHANGED <<tpc, arguments, arrays, rows, exit, opt, price, bs>>

\* The pthreads version does not look at the result of pthread_create.
CreatePricer ==
  /\ pc = "pricers" /\ i < nThreads
  /\ i' = i + 1
  /\ \/ bs' = [bs EXCEPT ![i] = [@ EXCEPT !.at = "barrier"]]
     \/ version = "pthreads" /\ UNCHANGED bs
  /\ NotTheRuntime
  /\ UNCHANGED <<pc, tpc, arguments, arrays, rows, exit, opt, price>>

\* WAIT_FOR_END, or the return of the call in the serial version.
WaitForEnd ==
  /\ i = nThreads
  /\ \A p \in Pricers : bs[p].at \in {"none", "done"}
  /\ Goto("pricers", "output")
  /\ NotTheRuntime
  /\ UNCHANGED <<tpc, arguments, i, arrays, rows, exit, opt, price, bs>>

OpenOutput ==
  /\ Goto("output", "write")
  /\ i' = 0
  /\ NotTheRuntime
  /\ UNCHANGED <<tpc, arguments, arrays, rows, exit, opt, price, bs>>

WriteRow ==
  /\ pc = "write" /\ i < numOptions
  /\ rows' = Append(rows, prices[i])
  /\ i' = i + 1
  /\ NotTheRuntime
  /\ UNCHANGED <<pc, tpc, arguments, arrays, exit, opt, price, bs>>

CloseOutput ==
  /\ i = numOptions
  /\ Goto("write", "done")
  /\ exit' = 0
  /\ NotTheRuntime
  /\ UNCHANGED <<tpc, arguments, i, arrays, rows, opt, price, bs>>

MainStep ==
  \/ StartWorker \/ ReadArguments \/ ReadCount \/ ReadRow \/ CloseInput
  \/ FillArrays \/ InTstore \/ NextOption \/ AllPosted
  \/ CreatePricer \/ WaitForEnd \/ OpenOutput \/ WriteRow \/ CloseOutput

-----------------------------------------------------------------------------
(* bs_thread_DTT, the support function, on runner r.                       *)

LoadArgs(r) ==
  /\ ThreadGoto(r, "load", "price")
  /\ opt' = [opt EXCEPT ![r] = EQ[cur[r]].args]
  /\ UNCHANGED <<build, EQ, EQ_head, EQ_tail, state, pc, instance, cur, old, crashed>>
  /\ UNCHANGED <<arguments, i, arrays, rows, exit, price, bs>>

ComputeEvent(r) ==
  /\ ThreadGoto(r, "price", "store")
  /\ price' = [price EXCEPT ![r] = BlkSchlsEqEuroNoDiv(opt[r])]
  /\ UNCHANGED <<build, EQ, EQ_head, EQ_tail, state, pc, instance, cur, old, crashed>>
  /\ UNCHANGED <<arguments, i, arrays, rows, exit, opt, bs>>

\* The last use of both locals, which are reset.
StorePrice(r) ==
  /\ ThreadGoto(r, "store", "release")
  /\ prices' = [prices EXCEPT ![opt[r]] = price[r]]
  /\ opt' = [opt EXCEPT ![r] = 0] /\ price' = [price EXCEPT ![r] = -1]
  /\ UNCHANGED <<build, EQ, EQ_head, EQ_tail, state, pc, instance, cur, old, crashed>>
  /\ UNCHANGED <<arguments, i, filled, rows, exit, bs>>

\* e->valid = 0 here and then all of dtt_return.
Return(r) ==
  /\ ClearValid(r, "release", IF build = "SPAWN" THEN "check" ELSE "clear") \/ DttReturn(r)
  /\ UNCHANGED <<arguments, i, arrays, rows, exit, opt, price, bs>>

\* blackscholesState->state = 1; in the SPAWN build the thread then ends.
Validate(r) ==
  /\ ThreadGoto(r, "finish", IF build = "SPAWN" THEN "none" ELSE "returned")
  /\ state' = 1
  /\ UNCHANGED <<build, EQ, EQ_head, EQ_tail, pc, instance, cur, old, crashed>>
  /\ UNCHANGED <<arguments, i, arrays, rows, exit, opt, price, bs>>

SupportFunction(r) ==
  LoadArgs(r) \/ ComputeEvent(r) \/ StorePrice(r) \/ Return(r) \/ Validate(r)

Dtt(t) == LoopStep(t) /\ UNCHANGED <<arguments, i, arrays, rows, exit, opt, price, bs>>

-----------------------------------------------------------------------------
(* bs_thread, the pricer tid = p.                                          *)

\* A share of the options, rounded down: some may be in no pricer's share.
Share == numOptions \div nThreads

PricerStep(p, from, to) ==
  /\ bs[p].at = from
  /\ bs' = [bs EXCEPT ![p] = to]
  /\ UNCHANGED <<runtime, arguments, i, filled, rows, exit, opt, price>>

PassBarrier(p) ==
  /\ BarrierOpen
  /\ PricerStep(p, "barrier", [at |-> "test", j |-> 0, i |-> p * Share, price |-> -1])
  /\ UNCHANGED prices

\* Wrong variant: the last option of a share is left out.
AdvanceShort(p) ==
  IF bs[p].i + 2 < (p + 1) * Share THEN [bs[p] EXCEPT !.at = "test", !.i = @ + 1]
  ELSE IF bs[p].j + 1 < NUM_RUNS
       THEN [bs[p] EXCEPT !.at = "test", !.i = p * Share, !.j = @ + 1]
       ELSE [bs[p] EXCEPT !.at = "done"]

\* The next option of the share, in this or the next of the NUM_RUNS rounds.
Advance(p) ==
  IF bs[p].i + 1 < (p + 1) * Share THEN [bs[p] EXCEPT !.at = "test", !.i = @ + 1]
  ELSE IF bs[p].j + 1 < NUM_RUNS
       THEN [bs[p] EXCEPT !.at = "test", !.i = p * Share, !.j = @ + 1]
       ELSE [bs[p] EXCEPT !.at = "done"]

\* if(blackscholesState->state != 1)
TestState(p) ==
  /\ PricerStep(p, "test",
       IF state # 1 THEN [bs[p] EXCEPT !.at = "compute"] ELSE Advance(p))
  /\ UNCHANGED prices

Compute(p) ==
  /\ PricerStep(p, "compute",
       [bs[p] EXCEPT !.at = "store", !.price = BlkSchlsEqEuroNoDiv(bs[p].i)])
  /\ UNCHANGED prices

Store(p) ==
  /\ PricerStep(p, "store", Advance(p))
  /\ prices' = [prices EXCEPT ![bs[p].i] = bs[p].price]

BsThread(p) == PassBarrier(p) \/ TestState(p) \/ Compute(p) \/ Store(p)

-----------------------------------------------------------------------------

ThreadStep(t) == SupportFunction(t) \/ Dtt(t)

Next ==
  /\ Running
  /\ \/ MainStep \/ ExitWithError \/ SupportFunction("main")
     \/ \E t \in Threads : ThreadStep(t)
     \/ \E p \in Pricers : BsThread(p)

Spec == Init /\ [][Next]_vars

\* The operating system schedules every thread.
FairSpec ==
  /\ Spec
  /\ WF_vars(Running /\ (MainStep \/ SupportFunction("main")))
  /\ \A t \in Threads : WF_vars(Running /\ ThreadStep(t))
  /\ \A p \in Pricers : WF_vars(Running /\ BsThread(p))

-----------------------------------------------------------------------------

\* Types of all variables: in particular the indices of the ring stay in it
\* (EQ_tail and EQ_head of dtt.c).
TypeOK ==
  /\ RuntimeTypeOK
  /\ pc \in {"start", "argv", "input", "rows", "fill", "tstore", "mark", "wait", "fields",
             "func", "args", "valid", "tail", "spawn", "create", "called", "release",
             "posted", "pricers", "output", "write", "done"}
  /\ version \in Versions /\ nThreads \in 0 .. MaxThreads
  /\ numOptions \in 0 .. MaxOptions /\ i \in 0 .. MaxOptions
  /\ filled \subseteq Options
  /\ prices \in [Options -> Options \cup {-2, -1}]
  /\ rows \in Seq(Options \cup {-2, -1}) /\ exit \in {-1, 0, 1}
  /\ opt \in [Runners -> Options] /\ price \in [Runners -> Options \cup {-2, -1}]
  /\ bs \in [Pricers -> [at : {"none", "barrier", "test", "compute", "store", "done"},
                         j : 0 .. NUM_RUNS - 1, i : Int, price : Options \cup {-2, -1}]]

\* Whatever runs an entry early, late or twice, and in every build: no price
\* is computed from an option that main has not copied yet, and none is
\* stored or written at the place of another option.
PricesSound ==
  /\ \A o \in Options : prices[o] \in {-1, o}
  /\ \A k \in DOMAIN rows : rows[k] \in {-1, k - 1}

\* "The output benchmark will output the price of the options" (README:43):
\* when blackscholes succeeds every option has its price in the output file.
OutputComplete == exit = 0 => rows = [k \in 1 .. numOptions |-> k - 1]

\* The build of the Makefile does so, with any number of pricers and however
\* often the ring is filled anew: each event prices its option in tstore.
SingleThreadComplete == build = "SINGLE_THREAD" => OutputComplete

\* The builds that start a thread from tstore only ever run the events of the
\* entry EQ_head is stuck at: one option in EQ_MAX.
HeadEventsOnly ==
  build \in {"SPAWN", "TAIL_RECURSION"} =>
    \A t \in Threads : tpc[t] \in {"price", "store"} => opt[t] % EQ_MAX = 0

\* A polling build whose dtt() thread could not be created.
NoWorker == Polling /\ pc # "start" /\ \A t \in Threads : tpc[t] = "none"

\* The baseline build without a worker is the original benchmark: when all
\* its pricers ran they have priced their shares, and nothing has priced the
\* options that rounding leaves over.
PricersAlone ==
  build = "NODTT" /\ NoWorker /\ exit = 0 /\ (\A p \in 0 .. nThreads - 1 : bs[p].at = "done")
  => rows = [k \in 1 .. numOptions |->
               IF nThreads > 0 /\ k <= nThreads * Share THEN k - 1 ELSE -1]

\* A ring that is filled a second time may strand an event behind EQ_head: the
\* worker runs an entry before EQ_tail is stored, goes on to the next one,
\* which holds a finished event, and the indices meet again one entry late.
RingReused == build = "DTT_POLLING" /\ numOptions > EQ_MAX

\* blackscholes ends.  The barrier of a DTT_POLLING build may wait for ever
\* without a worker or when the ring is reused; the thread of a TAIL_RECURSION
\* build runs the entry at EQ_head over and over.
Terminates == build = "TAIL_RECURSION" \/ <>(~Running \/ NoWorker \/ RingReused)

=============================================================================
