------------------------------- MODULE Equake -------------------------------
(***************************************************************************)
(* equake (src/equake/quake.dtt) as dttc translates it, on top of libDTT:  *)
(* the time loop stores to the trigger variable time, the support function *)
(* phi0_dtt computes phi0_result for it on a worker, and phi0, called for  *)
(* every node, skips its own computation when phi0_skip is valid.          *)
(*                                                                         *)
(* A time is represented by the iteration that stores it; 0 is the value   *)
(* of the uninitialised variable, whatever that is.  A result of -1 is one *)
(* that was never computed.                                                *)
(***************************************************************************)
EXTENDS LibDTT

CONSTANTS
  Main,       \* the only program thread
  phi0_skip,  \* the dtt_state of the block
  time_at,    \* the address of time
  old_at,     \* the address of time__dtt_old_value, which dttc declares
  Timesteps,  \* the iterations of the time loop
  Ramp        \* the last iteration with time <= Exc.t0

ASSUME EquakeAssumption ==
  /\ Program = {Main} /\ States = {phi0_skip}
  /\ time_at \in Nat /\ old_at \in Nat /\ time_at # old_at
  /\ Timesteps \in Nat /\ Ramp \in Nat
  /\ ~Nested  \* phi0_dtt stores to no trigger

VARIABLES
  mpc,          \* where main is in its time loop
  iter,         \* main's loop counter
  time,         \* the trigger variable
  time__dtt_old_value,  \* the copy saved before tstore is called
  phi0_result,  \* the result both main and phi0_dtt compute
  returned,     \* what the last call of phi0 returned
  t             \* the register phi0_dtt has loaded *t into, -1 before

quake == <<mpc, iter, time, time__dtt_old_value, phi0_result, returned, t>>
allvars == <<vars, quake>>

\* Wrong variant: what is stored at the two addresses is compared.
memoryCompareContents(lhs, rhs, n) ==
  LET stored(a) == IF a = time_at THEN time ELSE time__dtt_old_value
  IN  IF n = 0 \/ stored(lhs) = stored(rhs) THEN 0
      ELSE IF stored(lhs) < stored(rhs) THEN -1 ELSE 1

\* The offsets its loops stop at: whole ints, and the bytes left over.
Offsets(n) == {4 * k : k \in 0 .. (n \div 4) - 1} \cup (4 * (n \div 4) .. n - 1)

\* At every offset it compares lhs and rhs, the pointers, until they differ.
memoryCompare(lhs, rhs, n) ==
  IF \A o \in Offsets(n) : lhs + o = rhs + o THEN 0
  ELSE LET first == CHOOSE o \in Offsets(n) :
                      /\ lhs + o # rhs + o
                      /\ \A q \in Offsets(n) : q < o => lhs + q = rhs + q
       IN  IF lhs + first < rhs + first THEN -1 ELSE 1

\* Wrong variant: the ramp goes on after Exc.t0.
phi0Unsaturated(at) == at

\* The ramp function: it grows up to Exc.t0 and is 1.0 from there on.
phi0(at) == IF at <= Ramp THEN at ELSE Ramp + 1

EquakeInit ==
  /\ Init
  /\ mpc = "init" /\ iter = 0 /\ time = 0 /\ time__dtt_old_value = 0
  /\ phi0_result = -1 /\ returned = -1
  /\ t = [w \in Workers |-> -1]

MainGoto(from, to) == mpc \in from /\ mpc' = to

\* dttc calls dtt_init in the initialiser it puts before main's first "=".
\* When pthread_create fails the program goes on without a worker.
InitRuntime ==
  /\ MainGoto({"init"}, "loop")
  /\ (\E w \in Workers : DttInit(Main, w)) \/ UNCHANGED vars
  /\ UNCHANGED <<iter, time, time__dtt_old_value, phi0_result, returned, t>>

NextIteration ==
  /\ iter < Timesteps
  /\ MainGoto({"loop", "next"}, "save")
  /\ iter' = iter + 1
  /\ UNCHANGED <<vars, time, time__dtt_old_value, phi0_result, returned, t>>

\* dttc's first line before the assignment.
SaveOldValue ==
  /\ MainGoto({"save"}, "tstore")
  /\ time__dtt_old_value' = time
  /\ UNCHANGED <<vars, iter, time, phi0_result, returned, t>>

\* dttc's second line: the new value passed is &time, not assigned to yet,
\* and the size that of a double.
CallTstore ==
  /\ MainGoto({"tstore"}, "assign")
  /\ IF memoryCompare(time_at, old_at, 8) # 0 THEN Tstore(Main, phi0_skip) ELSE UNCHANGED vars
  /\ UNCHANGED <<iter, time, time__dtt_old_value, phi0_result, returned, t>>

MainInTstore ==
  /\ CallStep(Main)
  /\ UNCHANGED quake

\* The assignment, once tstore has returned.
AssignTime ==
  /\ MainGoto({"assign"}, "phi0")
  /\ pc[Main] = "ready"
  /\ time' = iter
  /\ UNCHANGED <<vars, iter, time__dtt_old_value, phi0_result, returned, t>>

\* Wrong variant: the test of the block is the wrong way round.
CallPhi0Inverted ==
  /\ MainGoto({"phi0", "next"}, IF state[phi0_skip] # 1 THEN "skip" ELSE "compute")
  /\ UNCHANGED <<vars, iter, time, time__dtt_old_value, phi0_result, returned, t>>

\* phi0(time): "if (phi0_skip__dtt_state.state != 1)" of the #block.  It is
\* called for every node, so any number of times, but at least once.
CallPhi0 ==
  /\ MainGoto({"phi0", "next"}, IF state[phi0_skip] # 1 THEN "compute" ELSE "skip")
  /\ UNCHANGED <<vars, iter, time, time__dtt_old_value, phi0_result, returned, t>>

\* The block stores the result and, as gcc -O2 compiles it, returns the
\* value it has computed without loading it again.
ComputePhi0 ==
  /\ MainGoto({"compute"}, "next")
  /\ phi0_result' = phi0(time)
  /\ returned' = phi0(time)
  /\ UNCHANGED <<vars, iter, time, time__dtt_old_value, t>>

SkipPhi0 ==
  /\ MainGoto({"skip"}, "next")
  /\ returned' = phi0_result
  /\ UNCHANGED <<vars, iter, time, time__dtt_old_value, phi0_result, t>>

FinishLoop ==
  /\ iter = Timesteps
  /\ MainGoto({"next"}, "done")
  /\ UNCHANGED <<vars, iter, time, time__dtt_old_value, phi0_result, returned, t>>

\* phi0_dtt loads *t, which is &time and not the value of one event ...
Phi0DttLoads(w) ==
  /\ wpc[w] = "run" /\ t[w] = -1
  /\ t' = [t EXCEPT ![w] = time]
  /\ UNCHANGED <<vars, mpc, iter, time, time__dtt_old_value, phi0_result, returned>>

\* ... and stores the result for the value it has loaded.
Phi0DttStores(w) ==
  /\ t[w] # -1
  /\ RunSupportFunction(w)
  /\ phi0_result' = phi0(t[w])
  /\ t' = [t EXCEPT ![w] = -1]
  /\ UNCHANGED <<mpc, iter, time, time__dtt_old_value, returned>>

Scan(w) == ScanStep(w) /\ UNCHANGED quake

MainStep ==
  \/ InitRuntime \/ NextIteration \/ SaveOldValue \/ CallTstore \/ MainInTstore \/ AssignTime
  \/ ComputePhi0 \/ SkipPhi0 \/ FinishLoop

ThreadStep(w) == Phi0DttLoads(w) \/ Phi0DttStores(w) \/ Scan(w)

EquakeNext == MainStep \/ CallPhi0 \/ \E w \in Workers : ThreadStep(w)

EquakeSpec == EquakeInit /\ [][EquakeNext]_allvars

\* The nodes are finitely many: main does not call phi0 for ever within one
\* iteration, so its other steps are fair on their own.
EquakeFair ==
  /\ EquakeSpec
  /\ WF_allvars(MainStep) /\ WF_allvars(MainStep \/ CallPhi0)
  /\ SF_allvars(NextIteration \/ FinishLoop)
  /\ \A w \in Workers : WF_allvars(ThreadStep(w))

-----------------------------------------------------------------------------

EquakeTypeOK ==
  /\ TypeOK
  /\ mpc \in {"init", "loop", "save", "tstore", "assign", "phi0", "compute", "skip", "next",
              "done"}
  /\ iter \in 0 .. Timesteps /\ time \in 0 .. Timesteps
  /\ time__dtt_old_value \in 0 .. Timesteps
  /\ phi0_result \in -1 .. Ramp + 1 /\ returned \in -1 .. Ramp + 1
  /\ t \in [Workers -> -1 .. Timesteps]

\* The excitation used in an iteration is that of its time, of the time of
\* the iteration before, or of the one before that: the trigger runs ahead of
\* the assignment (one iteration) and a late validation covers one more.
StaleByTwo ==
  mpc = "next" => returned \in {phi0(j) : j \in {iter, iter - 1, iter - 2} \cap Nat}

\* Each iteration has posted one event, whatever its time: no trigger is
\* suppressed, although the variable and the saved copy hold the same value
\* whenever memoryCompare is asked.
TriggersEveryIteration ==
  issued = IF mpc \in {"save", "tstore"} THEN iter - 1 ELSE iter

\* The time loop ends, unless one look at a busy entry, the only one gcc -O2
\* lets a call of tstore take, holds main up for good: nothing else does, in
\* particular no race of main and the worker for an entry.
EndsOrHangs == <>(mpc = "done" \/ pc[Main] = "hung")

\* It is not held up before the ring is used a second time: a program with at
\* most EQ_MAX time steps is not held up at all, be the worker late or missing.
HangsOnlyOnReuse == pc[Main] = "hung" => iter > EQ_MAX

\* "diff eqinp.out eqinp.out.DTT" (run.sh:4): the translated program computes
\* what the program without triggers computes: phi0(time) for every call.
Phi0Current == mpc = "next" => returned = phi0(time)

=============================================================================
