-------------------------- MODULE BlackscholesProofs --------------------------
(***************************************************************************)
(* Safety of blackscholes for any number of options, pricers, threads and  *)
(* rounds, any ring and any set of the builds.                             *)
(***************************************************************************)
EXTENDS Blackscholes, TLAPS

\* main is in the loop that posts the events, past the copying of option i.
Posting == {"tstore", "mark", "wait", "fields", "func", "args", "valid", "tail", "spawn",
            "create", "called", "release", "posted"}

\* The places of main where the pricers may run.
Pricing == {"pricers", "output", "write"}

\* What main's place says of its counter and of the arguments.
MainInv ==
  /\ pc \in Posting => i < numOptions
  /\ pc \notin {"start", "argv", "input", "done"} => nThreads <= numOptions
  /\ pc = "done" => exit # -1

\* A pricer was created for a thread number, which ReadCount has capped.
PricerInv ==
  \A p \in Pricers : bs[p].at # "none" =>
    pc \in Pricing \cup {"done"} /\ p < nThreads /\ nThreads <= numOptions

IndInv == TypeOK /\ MainInv /\ PricerInv

LEMMA ConstantFacts ==
  /\ EQ_MAX \in Nat \ {0} /\ MaxOptions \in Nat \ {0} /\ MaxThreads \in Nat \ {0}
  /\ NUM_RUNS \in Nat \ {0} /\ Args = Options /\ 0 \in Options
  /\ "main" \in Runners /\ "main" \notin Threads /\ Threads \subseteq Runners
BY RingAssumption, OptionsAssumption, PricerAssumption, ArgsAssumption, ThreadsAssumption
   DEF Runners

\* Where a thread is in TypeOK.
Places ==
  {"none", "load", "price", "store", "release", "check", "last", "chain", "clear", "finish",
   "returned", "poll", "peek", "take", "grab", "running", "call", "idle", "loop", "tailrun",
   "done"}

\* A pricer in TypeOK.
PricerRecord ==
  [at : {"none", "barrier", "test", "compute", "store", "done"},
   j : 0 .. NUM_RUNS - 1, i : Int, price : Options \cup {-2, -1}]

LEMMA SlotRange ==
  /\ 0 \in Slots
  /\ \A s \in Slots : NextSlot(s) \in Slots
BY ConstantFacts DEF Slots, NextSlot

LEMMA ShareRange ==
  ASSUME nThreads \in Nat \ {0}, numOptions \in Nat, nThreads <= numOptions
  PROVE  Share \in Nat \ {0} /\ nThreads * Share <= numOptions
BY DEF Share

LEMMA InitInd == Init => IndInv
<1> SUFFICES ASSUME Init PROVE IndInv
  OBVIOUS
<1>1. RuntimeTypeOK
  <2>1. EQ \in [Slots -> [valid : 0 .. 2, state : BOOLEAN, func : BOOLEAN, args : Args]]
    BY ConstantFacts DEF Init, RuntimeInit
  <2> QED
    BY <2>1, SlotRange DEF Init, RuntimeInit, RuntimeTypeOK
<1>2. rows \in Seq(Options \cup {-2, -1})
  BY DEF Init
<1>3. bs \in [Pricers -> [at : {"none", "barrier", "test", "compute", "store", "done"},
                         j : 0 .. NUM_RUNS - 1, i : Int, price : Options \cup {-2, -1}]]
  BY ConstantFacts DEF Init
<1>4. TypeOK
  BY <1>1, <1>2, <1>3, ConstantFacts DEF Init, RuntimeInit, TypeOK
<1>5. MainInv /\ PricerInv
  BY DEF Init, RuntimeInit, MainInv, PricerInv, Posting, Pricing
<1> QED
  BY <1>4, <1>5 DEF IndInv

\* main is in a call of tstore, for the option it has copied last.
LEMMA InTstorePosts ==
  ASSUME IndInv, InTstore
  PROVE  pc \in Posting \ {"posted"} /\ i \in Options /\ i < numOptions
<1>1. pc \in Posting \ {"posted"}
  <2> USE DEF Goto, Posting
  <2>1. CASE StoreState
    BY <2>1 DEF StoreState
  <2>2. CASE ReadState \/ MarkState \/ InvalidateState \/ WaitForEntry \/ StoreFunc \/ StoreArgs(i)
    BY <2>2 DEF ReadState, MarkState, InvalidateState, WaitForEntry, StoreFunc, StoreArgs
  <2>3. CASE StoreValid \/ StoreTail \/ NotAtHead \/ MarkSpawning
    BY <2>3 DEF StoreValid, StoreTail, NotAtHead, MarkSpawning
  <2>4. CASE CallSupport \/ SupportReturned \/ ReleaseInstance
    BY <2>4 DEF CallSupport, SupportReturned, ReleaseInstance
  <2>5. CASE \E t \in Threads : SpawnThread(t)
    BY <2>5 DEF SpawnThread
  <2> QED
    BY <2>1, <2>2, <2>3, <2>4, <2>5 DEF InTstore, PostStep
<1> QED
  BY <1>1, ConstantFacts DEF IndInv, MainInv, TypeOK, Options

LEMMA TypePost == ASSUME IndInv, InTstore PROVE RuntimeTypeOK'
<1>0. RuntimeTypeOK
  BY DEF IndInv, TypeOK
<1> USE ConstantFacts, SlotRange, InTstorePosts DEF RuntimeTypeOK, Goto, ThreadGoto, Start
<1>1. CASE ReadState
  BY <1>0, <1>1 DEF ReadState
<1>2. CASE MarkState
  BY <1>0, <1>2 DEF MarkState
<1>3. CASE InvalidateState
  BY <1>0, <1>3 DEF InvalidateState
<1>4. CASE WaitForEntry
  BY <1>0, <1>4 DEF WaitForEntry
<1>5. CASE StoreState
  BY <1>0, <1>5 DEF StoreState
<1>6. CASE StoreFunc
  BY <1>0, <1>6 DEF StoreFunc
<1>7. CASE StoreValid
  BY <1>0, <1>7 DEF StoreValid
<1>8. CASE StoreTail
  BY <1>0, <1>8 DEF StoreTail
<1>9. CASE NotAtHead
  BY <1>0, <1>9 DEF NotAtHead
<1>10. CASE MarkSpawning
  BY <1>0, <1>10 DEF MarkSpawning
<1>11. CASE CallSupport
  BY <1>0, <1>11 DEF CallSupport
<1>12. CASE SupportReturned
  BY <1>0, <1>12 DEF SupportReturned
<1>13. CASE ReleaseInstance
  BY <1>0, <1>13 DEF ReleaseInstance
<1>14. CASE StoreArgs(i)
  BY <1>0, <1>14 DEF StoreArgs
<1>15. CASE \E t \in Threads : SpawnThread(t)
  BY <1>0, <1>15 DEF SpawnThread
<1> QED
  BY <1>1, <1>2, <1>3, <1>4, <1>5, <1>6, <1>7, <1>8, <1>9, <1>10, <1>11, <1>12, <1>13, <1>14, <1>15 DEF InTstore, PostStep

\* What a call of tstore leaves alone.
LEMMA PostFrame ==
  ASSUME IndInv, InTstore
  PROVE  pc' \in Posting /\ UNCHANGED <<build, arguments, i, arrays, rows, exit, opt, price, bs>>
<1> USE DEF Goto, Posting
<1>1. CASE ReadState \/ MarkState \/ InvalidateState \/ WaitForEntry
  BY <1>1 DEF ReadState, MarkState, InvalidateState, WaitForEntry, InTstore
<1>2. CASE StoreState \/ StoreFunc \/ StoreArgs(i)
  BY <1>2 DEF StoreState, StoreFunc, StoreArgs, InTstore
<1>3. CASE StoreValid \/ StoreTail \/ NotAtHead \/ MarkSpawning
  BY <1>3 DEF StoreValid, StoreTail, NotAtHead, MarkSpawning, InTstore
<1>4. CASE CallSupport \/ SupportReturned \/ ReleaseInstance
  BY <1>4 DEF CallSupport, SupportReturned, ReleaseInstance, InTstore
<1>5. CASE \E t \in Threads : SpawnThread(t)
  BY <1>5 DEF SpawnThread, InTstore
<1> QED
  BY <1>1, <1>2, <1>3, <1>4, <1>5 DEF InTstore, PostStep

\* So does a step of dtt().
LEMMA LoopFrame ==
  ASSUME NEW t \in Threads, Dtt(t)
  PROVE  UNCHANGED <<build, pc, arguments, i, arrays, rows, exit, opt, price, bs>>
<1>1. CASE PollTail(t) \/ PollValid(t) \/ TakeEntry(t) \/ MarkRunning(t)
  BY <1>1 DEF PollTail, PollValid, TakeEntry, MarkRunning, Dtt
<1>2. CASE StoreRunning(t) \/ CallFunc(t) \/ AdvanceHead(t) \/ Idle(t)
  BY <1>2 DEF StoreRunning, CallFunc, AdvanceHead, Idle, Dtt
<1>3. CASE TailTest(t) \/ TailRuns(t) \/ TailNext(t) \/ TailExits(t)
  BY <1>3 DEF TailTest, TailRuns, TailNext, TailExits, Dtt
<1> QED
  BY <1>1, <1>2, <1>3 DEF Dtt, LoopStep

\* And a step of dtt_return, which begins with the two stores to valid.
LEMMA ReturnFrame ==
  ASSUME NEW r \in Runners, Return(r)
  PROVE  UNCHANGED <<build, pc, arguments, i, arrays, rows, exit, opt, price, bs>>
BY DEF Return, ClearValid, DttReturn, CheckHead, ValidateLast, ChainHere, ChainThread

LEMMA TypeLoop == ASSUME IndInv, NEW t \in Threads, Dtt(t) PROVE RuntimeTypeOK'
<1>0. RuntimeTypeOK
  BY DEF IndInv, TypeOK
<1> USE ConstantFacts, SlotRange DEF RuntimeTypeOK, ThreadGoto
<1>1. CASE PollTail(t)
  BY <1>0, <1>1 DEF PollTail
<1>2. CASE PollValid(t)
  BY <1>0, <1>2 DEF PollValid
<1>3. CASE TakeEntry(t)
  BY <1>0, <1>3 DEF TakeEntry
<1>4. CASE MarkRunning(t)
  BY <1>0, <1>4 DEF MarkRunning
<1>5. CASE StoreRunning(t)
  BY <1>0, <1>5 DEF StoreRunning
<1>6. CASE CallFunc(t)
  BY <1>0, <1>6 DEF CallFunc
<1>7. CASE AdvanceHead(t)
  BY <1>0, <1>7 DEF AdvanceHead
<1>8. CASE Idle(t)
  BY <1>0, <1>8 DEF Idle
<1>9. CASE TailTest(t)
  BY <1>0, <1>9 DEF TailTest
<1>10. CASE TailRuns(t)
  BY <1>0, <1>10 DEF TailRuns
<1>11. CASE TailNext(t)
  BY <1>0, <1>11 DEF TailNext
<1>12. CASE TailExits(t)
  BY <1>0, <1>12 DEF TailExits
<1> QED
  BY <1>1, <1>2, <1>3, <1>4, <1>5, <1>6, <1>7, <1>8, <1>9, <1>10, <1>11, <1>12 DEF Dtt, LoopStep

LEMMA TypeReturn == ASSUME IndInv, NEW r \in Runners, Return(r) PROVE RuntimeTypeOK'
<1>0. RuntimeTypeOK
  BY DEF IndInv, TypeOK
<1> USE ConstantFacts, SlotRange DEF RuntimeTypeOK, ThreadGoto
<1>1. CASE ClearValid(r, "release", IF build = "SPAWN" THEN "check" ELSE "clear")
  BY <1>0, <1>1 DEF ClearValid
<1>2. CASE ClearValid(r, "clear", "finish")
  BY <1>0, <1>2 DEF ClearValid
<1>3. CASE CheckHead(r)
  BY <1>0, <1>3 DEF CheckHead
<1>4. CASE ValidateLast(r)
  BY <1>0, <1>4 DEF ValidateLast
<1>5. CASE ChainHere(r)
  BY <1>0, <1>5 DEF ChainHere
<1>6. ASSUME NEW t \in Threads, ChainThread(r, t) PROVE RuntimeTypeOK'
  BY <1>0, <1>6 DEF ChainThread
<1> QED
  BY <1>1, <1>2, <1>3, <1>4, <1>5, <1>6 DEF Return, DttReturn

\* A step of main outside tstore changes of the runtime at most which threads
\* there are.
MainMove ==
  \/ StartWorker \/ ExitWithError \/ ReadArguments \/ ReadCount \/ ReadRow
  \/ CloseInput \/ FillArrays \/ NextOption \/ AllPosted \/ CreatePricer
  \/ WaitForEnd \/ OpenOutput \/ WriteRow \/ CloseOutput

LEMMA MainFrame ==
  ASSUME IndInv, MainMove
  PROVE  NotTheRuntime /\ UNCHANGED <<opt, price>> /\ RuntimeTypeOK'
<1>0. RuntimeTypeOK
  BY DEF IndInv, TypeOK
<1>1. NotTheRuntime /\ UNCHANGED <<opt, price>>
  BY DEF MainMove, StartWorker, ExitWithError, ReadArguments, ReadCount, ReadRow, CloseInput, FillArrays, NextOption, AllPosted, CreatePricer, WaitForEnd, OpenOutput, WriteRow, CloseOutput
<1>2. tpc' = tpc \/ \E t \in Threads : tpc' = [tpc EXCEPT ![t] = "poll"]
  BY DEF MainMove, StartWorker, ExitWithError, ReadArguments, ReadCount, ReadRow, CloseInput, FillArrays, NextOption, AllPosted, CreatePricer, WaitForEnd, OpenOutput, WriteRow, CloseOutput
<1> QED
  BY <1>0, <1>1, <1>2, ConstantFacts DEF RuntimeTypeOK, NotTheRuntime

LEMMA PriceRange == ASSUME TypeOK, NEW o \in Int PROVE BlkSchlsEqEuroNoDiv(o) \in Options \cup {-2}
BY DEF TypeOK, BlkSchlsEqEuroNoDiv

\* The counter stays below numOptions where main uses it.
LEMMA TypeMain == ASSUME IndInv, MainMove PROVE TypeOK'
<1>0. TypeOK /\ MainInv /\ RuntimeTypeOK' /\ UNCHANGED <<opt, price>>
  BY MainFrame DEF IndInv
<1> USE ConstantFacts DEF TypeOK, Goto, arguments, arrays
<1>1. CASE StartWorker
  BY <1>0, <1>1 DEF StartWorker
<1>2. CASE ExitWithError
  BY <1>0, <1>2 DEF ExitWithError
<1>3. CASE ReadArguments
  BY <1>0, <1>3 DEF ReadArguments
<1>4. CASE ReadCount
  BY <1>0, <1>4 DEF ReadCount
<1>5. CASE ReadRow
  BY <1>0, <1>5 DEF ReadRow
<1>6. CASE CloseInput
  BY <1>0, <1>6 DEF CloseInput
<1>7. CASE FillArrays
  BY <1>0, <1>7 DEF FillArrays, Options
<1>8. CASE NextOption
  BY <1>0, <1>8 DEF NextOption, MainInv, Posting
<1>9. CASE AllPosted
  BY <1>0, <1>9 DEF AllPosted
<1>10. CASE CreatePricer
  <2>1. i < nThreads => i \in Pricers
    BY <1>0 DEF Pricers
  <2>2. bs \in [Pricers -> PricerRecord]
    BY <1>0 DEF PricerRecord
  <2>3. i \in Pricers => [bs[i] EXCEPT !.at = "barrier"] \in PricerRecord
    BY <2>2 DEF PricerRecord
  <2>4. bs' \in [Pricers -> PricerRecord]
    BY <1>10, <2>1, <2>2, <2>3 DEF CreatePricer
  <2> QED
    BY <1>0, <1>10, <2>4 DEF CreatePricer, PricerRecord, MainInv
<1>11. CASE WaitForEnd
  BY <1>0, <1>11 DEF WaitForEnd
<1>12. CASE OpenOutput
  BY <1>0, <1>12 DEF OpenOutput
<1>13. CASE WriteRow
  BY <1>0, <1>13 DEF WriteRow, Options
<1>14. CASE CloseOutput
  BY <1>0, <1>14 DEF CloseOutput
<1> QED
  BY <1>1, <1>2, <1>3, <1>4, <1>5, <1>6, <1>7, <1>8, <1>9, <1>10, <1>11, <1>12, <1>13, <1>14 DEF MainMove

LEMMA TypeSupport == ASSUME IndInv, NEW r \in Runners, SupportFunction(r) PROVE TypeOK'
<1>0. TypeOK /\ RuntimeTypeOK
  BY DEF IndInv, TypeOK
<1> USE ConstantFacts DEF TypeOK, ThreadGoto, arguments, arrays
<1>1. CASE LoadArgs(r)
  BY <1>0, <1>1 DEF LoadArgs, RuntimeTypeOK
<1>2. CASE ComputeEvent(r)
  <2>1. opt[r] \in Options
    BY <1>0
  <2>2. BlkSchlsEqEuroNoDiv(opt[r]) \in Options \cup {-2}
    BY <1>0, <2>1, PriceRange DEF Options
  <2> QED
    BY <1>0, <1>2, <2>2 DEF ComputeEvent, RuntimeTypeOK
<1>3. CASE StorePrice(r)
  BY <1>0, <1>3 DEF StorePrice, RuntimeTypeOK
<1>4. CASE Return(r)
  BY <1>0, <1>4, TypeReturn, ReturnFrame DEF arguments, arrays
<1>5. CASE Validate(r)
  BY <1>0, <1>5 DEF Validate, RuntimeTypeOK
<1> QED
  BY <1>1, <1>2, <1>3, <1>4, <1>5 DEF SupportFunction

\* What changing one field of a pricer gives.
LEMMA SetAt ==
  ASSUME NEW q \in PricerRecord, NEW x \in {"none", "barrier", "test", "compute", "store", "done"}
  PROVE  LET a == [q EXCEPT !.at = x] IN
         a \in PricerRecord /\ a.at = x /\ a.j = q.j /\ a.i = q.i /\ a.price = q.price
BY DEF PricerRecord

LEMMA SetI ==
  ASSUME NEW q \in PricerRecord, NEW x \in Int
  PROVE  LET a == [q EXCEPT !.i = x] IN
         a \in PricerRecord /\ a.at = q.at /\ a.j = q.j /\ a.i = x /\ a.price = q.price
BY DEF PricerRecord

LEMMA SetJ ==
  ASSUME NEW q \in PricerRecord, NEW x \in 0 .. NUM_RUNS - 1
  PROVE  LET a == [q EXCEPT !.j = x] IN
         a \in PricerRecord /\ a.at = q.at /\ a.j = x /\ a.i = q.i /\ a.price = q.price
BY DEF PricerRecord

LEMMA SetPrice ==
  ASSUME NEW q \in PricerRecord, NEW x \in Options \cup {-2, -1}
  PROVE  LET a == [q EXCEPT !.price = x] IN
         a \in PricerRecord /\ a.at = q.at /\ a.j = q.j /\ a.i = q.i /\ a.price = x
BY DEF PricerRecord

\* The two moves inside the loop of bs_thread.
LEMMA NextInShare ==
  ASSUME NEW q \in PricerRecord
  PROVE  LET a == [q EXCEPT !.at = "test", !.i = @ + 1] IN
         a \in PricerRecord /\ a.at = "test" /\ a.j = q.j /\ a.i = q.i + 1
<1> DEFINE b == [q EXCEPT !.at = "test"]
<1>1. b \in PricerRecord /\ b.at = "test" /\ b.j = q.j /\ b.i = q.i
  BY SetAt
<1>2. q.i + 1 \in Int
  BY DEF PricerRecord
<1> HIDE DEF b
<1>3. LET a == [b EXCEPT !.i = q.i + 1] IN
      a \in PricerRecord /\ a.at = "test" /\ a.j = q.j /\ a.i = q.i + 1
  BY <1>1, <1>2, SetI
<1> QED
  BY <1>3 DEF b

LEMMA NextRound ==
  ASSUME NEW q \in PricerRecord, NEW x \in Int, q.j + 1 < NUM_RUNS
  PROVE  LET a == [q EXCEPT !.at = "test", !.i = x, !.j = @ + 1] IN
         a \in PricerRecord /\ a.at = "test" /\ a.j = q.j + 1 /\ a.i = x
<1> DEFINE b == [q EXCEPT !.at = "test"]
<1> DEFINE c == [b EXCEPT !.i = x]
<1>1. b \in PricerRecord /\ b.at = "test" /\ b.j = q.j
  BY SetAt
<1>2. q.j + 1 \in 0 .. NUM_RUNS - 1
  BY ConstantFacts DEF PricerRecord
<1> HIDE DEF b
<1>3. c \in PricerRecord /\ c.at = "test" /\ c.j = q.j /\ c.i = x
  BY <1>1, SetI
<1> HIDE DEF c
<1>4. LET a == [c EXCEPT !.j = q.j + 1] IN
      a \in PricerRecord /\ a.at = "test" /\ a.j = q.j + 1 /\ a.i = x
  BY <1>2, <1>3, SetJ
<1> QED
  BY <1>4 DEF b, c

\* A pricer that runs has a share of at least one option.
LEMMA SharePositive ==
  ASSUME IndInv, NEW p \in Pricers, bs[p].at # "none"
  PROVE  /\ p \in Nat /\ p < nThreads /\ nThreads \in Nat \ {0} /\ numOptions \in Nat
         /\ Share \in Nat \ {0} /\ nThreads * Share <= numOptions
         /\ p * Share \in Nat /\ (p + 1) * Share \in Nat
<1>1. p \in Nat /\ p < nThreads /\ nThreads \in Nat \ {0} /\ numOptions \in Nat /\ nThreads <= numOptions
  BY ConstantFacts DEF IndInv, PricerInv, TypeOK, Pricers
<1>2. Share \in Nat \ {0} /\ nThreads * Share <= numOptions
  BY <1>1, ShareRange
<1> QED
  BY <1>1, <1>2

\* A step of a pricer, from one place to the others of its loop.
LEMMA PricerMoves ==
  ASSUME IndInv, NEW p \in Pricers, BsThread(p)
  PROVE  /\ bs[p].at \in {"barrier", "test", "compute", "store"}
         /\ UNCHANGED <<runtime, arguments, i, filled, rows, exit, opt, price>>
         /\ \E q : bs' = [bs EXCEPT ![p] = q] /\ q \in PricerRecord /\ q.at # "none"
         /\ prices' \in [Options -> Options \cup {-2, -1}]
<1>1. bs[p].at \in {"barrier", "test", "compute", "store"}
  BY DEF BsThread, PassBarrier, TestState, Compute, Store, PricerStep
<1>2. UNCHANGED <<runtime, arguments, i, filled, rows, exit, opt, price>>
  BY DEF BsThread, PassBarrier, TestState, Compute, Store, PricerStep
<1>3. bs[p] \in PricerRecord /\ prices \in [Options -> Options \cup {-2, -1}]
  BY DEF IndInv, TypeOK, PricerRecord
<1>4. p * Share \in Nat /\ (p + 1) * Share \in Nat
  BY <1>1, SharePositive
<1>5. Advance(p) \in PricerRecord /\ Advance(p).at # "none"
  <2> DEFINE q == bs[p]
  <2> HIDE DEF q
  <2>1. q \in PricerRecord
    BY <1>3 DEF q
  <2>2. LET a == [q EXCEPT !.at = "test", !.i = @ + 1] IN a \in PricerRecord /\ a.at # "none"
    BY <2>1, NextInShare
  <2> DEFINE start == p * Share
  <2>x. start \in Int
    BY <1>4
  <2> HIDE DEF start
  <2>3. ASSUME q.j + 1 < NUM_RUNS
        PROVE  LET a == [q EXCEPT !.at = "test", !.i = start, !.j = @ + 1]
               IN  a \in PricerRecord /\ a.at # "none"
    BY <2>1, <2>x, <2>3, NextRound
  <2>4. LET a == [q EXCEPT !.at = "done"] IN a \in PricerRecord /\ a.at # "none"
    BY <2>1, SetAt
  <2> QED
    BY <2>2, <2>3, <2>4 DEF Advance, q, start
<1>6. BlkSchlsEqEuroNoDiv(bs[p].i) \in Options \cup {-2}
  BY <1>3, PriceRange DEF IndInv, PricerRecord
<1>7. CASE PassBarrier(p)
  <2> DEFINE q == [at |-> "test", j |-> 0, i |-> p * Share, price |-> -1]
  <2>1. q \in PricerRecord /\ q.at # "none"
    BY <1>4, ConstantFacts DEF PricerRecord
  <2> QED
    BY <1>1, <1>2, <1>3, <1>7, <2>1 DEF PassBarrier, PricerStep
<1>8. CASE TestState(p)
  <2>1. [bs[p] EXCEPT !.at = "compute"] \in PricerRecord
    BY <1>3 DEF PricerRecord
  <2>2. [bs[p] EXCEPT !.at = "compute"].at # "none"
    BY <1>3 DEF PricerRecord
  <2> QED
    BY <1>1, <1>2, <1>3, <1>5, <1>8, <2>1, <2>2 DEF TestState, PricerStep
<1>9. CASE Compute(p)
  <2> DEFINE q == [bs[p] EXCEPT !.at = "store", !.price = BlkSchlsEqEuroNoDiv(bs[p].i)]
  <2>1. q \in PricerRecord /\ q.at # "none"
    BY <1>3, <1>6 DEF PricerRecord
  <2> QED
    BY <1>1, <1>2, <1>3, <1>9, <2>1 DEF Compute, PricerStep
<1>10. CASE Store(p)
  <2>1. prices' \in [Options -> Options \cup {-2, -1}]
    BY <1>3, <1>10 DEF Store, PricerRecord
  <2> QED
    BY <1>1, <1>2, <1>5, <1>10, <2>1 DEF Store, PricerStep
<1> QED
  BY <1>7, <1>8, <1>9, <1>10 DEF BsThread

\* The actors' steps.
LEMMA NextCases ==
  ASSUME [Next]_vars
  PROVE  \/ Running /\ MainMove
         \/ Running /\ InTstore
         \/ \E r \in Runners : Running /\ SupportFunction(r)
         \/ \E t \in Threads : Running /\ Dtt(t)
         \/ \E p \in Pricers : Running /\ BsThread(p)
         \/ UNCHANGED vars
BY ConstantFacts DEF Next, MainStep, MainMove, ThreadStep

LEMMA TypeNext == ASSUME IndInv, [Next]_vars PROVE TypeOK'
<1>0. TypeOK /\ RuntimeTypeOK
  BY DEF IndInv, TypeOK
<1>1. CASE MainMove
  BY <1>1, TypeMain
<1>2. CASE InTstore
  <2>1. pc' \in Posting /\ RuntimeTypeOK'
    BY <1>2, PostFrame, TypePost
  <2> QED
    BY <1>0, <1>2, <2>1, PostFrame DEF TypeOK, Posting, arguments, arrays
<1>3. ASSUME NEW r \in Runners, SupportFunction(r) PROVE TypeOK'
  BY <1>3, TypeSupport
<1>4. ASSUME NEW t \in Threads, Dtt(t) PROVE TypeOK'
  BY <1>0, <1>4, TypeLoop, LoopFrame DEF TypeOK, arguments, arrays
<1>5. ASSUME NEW p \in Pricers, BsThread(p) PROVE TypeOK'
  <2>1. bs' \in [Pricers -> PricerRecord]
    BY <1>0, <1>5, PricerMoves DEF TypeOK, PricerRecord
  <2>2. UNCHANGED <<runtime, arguments, i, filled, rows, exit, opt, price>>
    BY <1>5, PricerMoves
  <2>3. RuntimeTypeOK'
    BY <1>0, <2>2 DEF RuntimeTypeOK, runtime
  <2>4. prices' \in [Options -> Options \cup {-2, -1}]
    BY <1>5, PricerMoves
  <2> QED
    BY <1>0, <2>1, <2>2, <2>3, <2>4 DEF TypeOK, PricerRecord, arguments, runtime
<1>6. CASE UNCHANGED vars
  BY <1>0, <1>6 DEF TypeOK, RuntimeTypeOK, vars, runtime, arguments, arrays
<1> QED
  BY <1>1, <1>2, <1>3, <1>4, <1>5, <1>6, NextCases

\* Where main and the arguments stand.
LEMMA MainNext == ASSUME IndInv, [Next]_vars PROVE MainInv'
<1>0. TypeOK /\ MainInv
  BY DEF IndInv
<1>1. CASE MainMove
  <2> USE ConstantFacts DEF TypeOK, MainInv, Posting, Goto, arguments
  <2>1. CASE StartWorker
    BY <1>0, <2>1 DEF StartWorker
  <2>2. CASE ExitWithError
    BY <1>0, <2>2 DEF ExitWithError
  <2>3. CASE ReadArguments
    BY <1>0, <2>3 DEF ReadArguments
  <2>4. CASE ReadCount
    BY <1>0, <2>4 DEF ReadCount
  <2>5. CASE ReadRow
    BY <1>0, <2>5 DEF ReadRow
  <2>6. CASE CloseInput
    BY <1>0, <2>6 DEF CloseInput
  <2>7. CASE FillArrays
    BY <1>0, <2>7 DEF FillArrays
  <2>8. CASE NextOption
    BY <1>0, <2>8 DEF NextOption
  <2>9. CASE AllPosted
    BY <1>0, <2>9 DEF AllPosted
  <2>10. CASE CreatePricer
    BY <1>0, <2>10 DEF CreatePricer
  <2>11. CASE WaitForEnd
    BY <1>0, <2>11 DEF WaitForEnd
  <2>12. CASE OpenOutput
    BY <1>0, <2>12 DEF OpenOutput
  <2>13. CASE WriteRow
    BY <1>0, <2>13 DEF WriteRow
  <2>14. CASE CloseOutput
    BY <1>0, <2>14 DEF CloseOutput
  <2> QED
    BY <1>1, <2>1, <2>2, <2>3, <2>4, <2>5, <2>6, <2>7, <2>8, <2>9, <2>10, <2>11, <2>12, <2>13, <2>14 DEF MainMove
<1>2. CASE InTstore
  BY <1>0, <1>2, InTstorePosts, PostFrame DEF MainInv, Posting, arguments
<1>3. ASSUME NEW r \in Runners, SupportFunction(r) PROVE MainInv'
  BY <1>0, <1>3, ReturnFrame
     DEF SupportFunction, LoadArgs, ComputeEvent, StorePrice, Validate, MainInv, arguments
<1>4. ASSUME NEW t \in Threads, Dtt(t) PROVE MainInv'
  BY <1>0, <1>4, LoopFrame DEF MainInv, arguments
<1>5. ASSUME NEW p \in Pricers, BsThread(p) PROVE MainInv'
  BY <1>0, <1>5, PricerMoves DEF MainInv, arguments, runtime
<1>6. CASE UNCHANGED vars
  BY <1>0, <1>6 DEF MainInv, vars, runtime, arguments
<1> QED
  BY <1>1, <1>2, <1>3, <1>4, <1>5, <1>6, NextCases

LEMMA PricerNext == ASSUME IndInv, [Next]_vars PROVE PricerInv'
<1>0. TypeOK /\ MainInv /\ PricerInv
  BY DEF IndInv
<1>1. CASE MainMove
  <2> USE ConstantFacts DEF TypeOK, MainInv, PricerInv, Pricing, Goto, arguments
  <2>1. CASE StartWorker
    BY <1>0, <2>1 DEF StartWorker
  <2>2. CASE ExitWithError
    BY <1>0, <2>2 DEF ExitWithError
  <2>3. CASE ReadArguments
    BY <1>0, <2>3 DEF ReadArguments
  <2>4. CASE ReadCount
    BY <1>0, <2>4 DEF ReadCount
  <2>5. CASE ReadRow
    BY <1>0, <2>5 DEF ReadRow
  <2>6. CASE CloseInput
    BY <1>0, <2>6 DEF CloseInput
  <2>7. CASE FillArrays
    BY <1>0, <2>7 DEF FillArrays
  <2>8. CASE NextOption
    BY <1>0, <2>8 DEF NextOption
  <2>9. CASE AllPosted
    BY <1>0, <2>9 DEF AllPosted
  <2>10. CASE CreatePricer
    BY <1>0, <2>10 DEF CreatePricer
  <2>11. CASE WaitForEnd
    BY <1>0, <2>11 DEF WaitForEnd
  <2>12. CASE OpenOutput
    BY <1>0, <2>12 DEF OpenOutput
  <2>13. CASE WriteRow
    BY <1>0, <2>13 DEF WriteRow
  <2>14. CASE CloseOutput
    BY <1>0, <2>14 DEF CloseOutput
  <2> QED
    BY <1>1, <2>1, <2>2, <2>3, <2>4, <2>5, <2>6, <2>7, <2>8, <2>9, <2>10, <2>11, <2>12, <2>13, <2>14 DEF MainMove
<1>2. CASE InTstore
  BY <1>0, <1>2, InTstorePosts, PostFrame DEF PricerInv, Posting, Pricing, arguments
<1>3. ASSUME NEW r \in Runners, SupportFunction(r) PROVE PricerInv'
  BY <1>0, <1>3, ReturnFrame
     DEF SupportFunction, LoadArgs, ComputeEvent, StorePrice, Validate, PricerInv, arguments
<1>4. ASSUME NEW t \in Threads, Dtt(t) PROVE PricerInv'
  BY <1>0, <1>4, LoopFrame DEF PricerInv, arguments
<1>5. ASSUME NEW p \in Pricers, BsThread(p) PROVE PricerInv'
  BY <1>0, <1>5, PricerMoves DEF TypeOK, PricerInv, arguments, runtime
<1>6. CASE UNCHANGED vars
  BY <1>0, <1>6 DEF PricerInv, vars, runtime, arguments
<1> QED
  BY <1>1, <1>2, <1>3, <1>4, <1>5, <1>6, NextCases

LEMMA IndCorrect == Spec => []IndInv
<1>1. IndInv /\ [Next]_vars => IndInv'
  BY TypeNext, MainNext, PricerNext DEF IndInv
<1> QED
  BY <1>1, InitInd, PTL DEF Spec

\* blackscholes keeps the types of its variables, and the indices of dtt.c's
\* ring stay in it, in every build.
THEOREM BlackscholesTypeCorrect == Spec => []TypeOK
<1>1. IndInv => TypeOK
  BY DEF IndInv
<1> QED
  BY <1>1, IndCorrect, PTL

-----------------------------------------------------------------------------
(* The prices.                                                             *)

\* How far main has copied the options.
CopyInv ==
  /\ pc \in {"start", "argv", "input"} => i = 0
  /\ pc \in {"start", "argv", "input", "rows"} => filled = {}
  /\ pc = "fill" => filled = 0 .. i - 1
  /\ pc \in Posting => filled = 0 .. i
  /\ pc \in Pricing => filled = 0 .. numOptions - 1

\* An entry refers to an option that was copied, or is still as it was at
\* the start; it has a state only when some option was copied.
EntryInv ==
  \A s \in Slots : EQ[s].args \in filled \cup {0} /\ (EQ[s].state => 0 \in filled)

\* So does a runner with an event.
RunnerInv ==
  \A r \in Runners :
    /\ tpc[r] \notin {"none", "poll", "peek", "take", "idle"} => 0 \in filled
    /\ tpc[r] \in {"price", "store"} => opt[r] \in filled
    /\ tpc[r] = "store" => price[r] = opt[r]

\* A pricer stays among the options.
LoopInv ==
  \A p \in Pricers :
    /\ bs[p].at \in {"test", "compute", "store"} => bs[p].i \in 0 .. numOptions - 1
    /\ bs[p].at = "store" => bs[p].price = bs[p].i

RowsInv ==
  /\ pc \notin {"write", "done"} => rows = <<>>
  /\ pc = "write" => Len(rows) = i

SoundInv == CopyInv /\ EntryInv /\ RunnerInv /\ LoopInv /\ RowsInv /\ PricesSound

LEMMA SoundInit == Init => SoundInv
<1> SUFFICES ASSUME Init PROVE SoundInv
  OBVIOUS
<1>1. CopyInv /\ EntryInv /\ RunnerInv
  BY DEF Init, RuntimeInit, CopyInv, EntryInv, RunnerInv, Posting, Pricing
<1>2. LoopInv /\ RowsInv /\ PricesSound
  BY DEF Init, RuntimeInit, LoopInv, RowsInv, PricesSound
<1> QED
  BY <1>1, <1>2 DEF SoundInv

\* What the support function leaves alone.
LEMMA SupportFrame ==
  ASSUME NEW r \in Runners, SupportFunction(r)
  PROVE  UNCHANGED <<build, pc, arguments, i, filled, rows, exit, bs>>
BY ReturnFrame DEF SupportFunction, LoadArgs, ComputeEvent, StorePrice, Validate, arrays

LEMMA CopyNext == ASSUME IndInv, SoundInv, [Next]_vars PROVE CopyInv' /\ filled \subseteq filled'
<1>0. TypeOK /\ MainInv /\ CopyInv
  BY DEF IndInv, SoundInv
<1>1. CASE MainMove
  <2> USE ConstantFacts DEF TypeOK, MainInv, CopyInv, Posting, Pricing, Goto, arguments, arrays
  <2>1. CASE StartWorker
    BY <1>0, <2>1 DEF StartWorker
  <2>2. CASE ExitWithError
    BY <1>0, <2>2 DEF ExitWithError
  <2>3. CASE ReadArguments
    BY <1>0, <2>3 DEF ReadArguments
  <2>4. CASE ReadCount
    BY <1>0, <2>4 DEF ReadCount
  <2>5. CASE ReadRow
    BY <1>0, <2>5 DEF ReadRow
  <2>6. CASE CloseInput
    BY <1>0, <2>6 DEF CloseInput
  <2>7. CASE FillArrays
    BY <1>0, <2>7 DEF FillArrays
  <2>8. CASE NextOption
    BY <1>0, <2>8 DEF NextOption
  <2>9. CASE AllPosted
    BY <1>0, <2>9 DEF AllPosted
  <2>10. CASE CreatePricer
    BY <1>0, <2>10 DEF CreatePricer
  <2>11. CASE WaitForEnd
    BY <1>0, <2>11 DEF WaitForEnd
  <2>12. CASE OpenOutput
    BY <1>0, <2>12 DEF OpenOutput
  <2>13. CASE WriteRow
    BY <1>0, <2>13 DEF WriteRow
  <2>14. CASE CloseOutput
    BY <1>0, <2>14 DEF CloseOutput
  <2> QED
    BY <1>1, <2>1, <2>2, <2>3, <2>4, <2>5, <2>6, <2>7, <2>8, <2>9, <2>10, <2>11, <2>12, <2>13, <2>14 DEF MainMove
<1>2. CASE InTstore
  BY <1>0, <1>2, InTstorePosts, PostFrame DEF CopyInv, Posting, Pricing, arguments, arrays
<1>3. ASSUME NEW r \in Runners, SupportFunction(r) PROVE CopyInv' /\ filled \subseteq filled'
  BY <1>0, <1>3, SupportFrame DEF CopyInv, arguments
<1>4. ASSUME NEW t \in Threads, Dtt(t) PROVE CopyInv' /\ filled \subseteq filled'
  BY <1>0, <1>4, LoopFrame DEF CopyInv, arguments, arrays
<1>5. ASSUME NEW p \in Pricers, BsThread(p) PROVE CopyInv' /\ filled \subseteq filled'
  BY <1>0, <1>5, PricerMoves DEF CopyInv, arguments, runtime
<1>6. CASE UNCHANGED vars
  BY <1>0, <1>6 DEF CopyInv, vars, runtime, arguments, arrays
<1> QED
  BY <1>1, <1>2, <1>3, <1>4, <1>5, <1>6, NextCases

\* Outside tstore the fields of an entry stay as they are.
LEMMA ArgsKept ==
  ASSUME IndInv, NEW s \in Slots,
         \/ \E r \in Runners : SupportFunction(r)
         \/ \E t \in Threads : Dtt(t)
  PROVE  EQ'[s].args = EQ[s].args /\ EQ'[s].state = EQ[s].state
<1>0. EQ \in [Slots -> [valid : 0 .. 2, state : BOOLEAN, func : BOOLEAN, args : Args]]
  BY DEF IndInv, TypeOK, RuntimeTypeOK
<1>1. ASSUME NEW r \in Runners, SupportFunction(r)
      PROVE  EQ'[s].args = EQ[s].args /\ EQ'[s].state = EQ[s].state
  <2>1. EQ' = EQ \/ EQ' = [EQ EXCEPT ![cur[r]].valid = 0]
    BY <1>1 DEF SupportFunction, LoadArgs, ComputeEvent, StorePrice, Return, Validate, ClearValid,
       DttReturn, CheckHead, ValidateLast, ChainHere, ChainThread
  <2> QED
    BY <1>0, <2>1
<1>2. ASSUME NEW t \in Threads, Dtt(t)
      PROVE  EQ'[s].args = EQ[s].args /\ EQ'[s].state = EQ[s].state
  <2>1. EQ' = EQ \/ EQ' = [EQ EXCEPT ![cur[t]].valid = 2]
    BY <1>2 DEF Dtt, LoopStep, PollTail, PollValid, TakeEntry, MarkRunning, StoreRunning, CallFunc,
       AdvanceHead, Idle, TailTest, TailRuns, TailNext, TailExits
  <2> QED
    BY <1>0, <2>1
<1> QED
  BY <1>1, <1>2

LEMMA EntryNext == ASSUME IndInv, SoundInv, [Next]_vars PROVE EntryInv'
<1>0. EntryInv /\ CopyInv /\ filled \subseteq filled'
  BY CopyNext DEF SoundInv
<1>1. EQ \in [Slots -> [valid : 0 .. 2, state : BOOLEAN, func : BOOLEAN, args : Args]]
  BY DEF IndInv, TypeOK, RuntimeTypeOK
<1>2. CASE MainMove
  BY <1>0, <1>2, MainFrame DEF NotTheRuntime, EntryInv
<1>3. CASE InTstore
  <2>1. 0 \in filled /\ i \in filled /\ EQ_tail \in Slots /\ instance \in Slots
    BY <1>0, <1>3, InTstorePosts DEF CopyInv, Options, IndInv, TypeOK, RuntimeTypeOK
  <2>2. \/ EQ' = EQ
        \/ EQ' = [EQ EXCEPT ![EQ_tail].state = TRUE]
        \/ EQ' = [EQ EXCEPT ![EQ_tail].func = TRUE]
        \/ EQ' = [EQ EXCEPT ![EQ_tail].args = i]
        \/ EQ' = [EQ EXCEPT ![EQ_tail].valid = 1]
        \/ EQ' = [EQ EXCEPT ![instance].valid = 0]
    BY <1>3 DEF InTstore, PostStep, ReadState, MarkState, InvalidateState, WaitForEntry,
       StoreState, StoreFunc, StoreArgs, StoreValid, StoreTail, NotAtHead, MarkSpawning,
       CallSupport, SupportReturned, ReleaseInstance, SpawnThread
  <2> QED
    BY <1>0, <1>1, <2>1, <2>2 DEF EntryInv
<1>4. CASE (\E r \in Runners : SupportFunction(r)) \/ (\E t \in Threads : Dtt(t))
  BY <1>0, <1>4, ArgsKept DEF EntryInv
<1>5. CASE (\E p \in Pricers : BsThread(p)) \/ UNCHANGED vars
  BY <1>0, <1>5, PricerMoves DEF EntryInv, vars, runtime
<1> QED
  BY <1>2, <1>3, <1>4, <1>5, NextCases

\* A price is computed from the arrays as main has filled them.
LEMMA PriceRight == ASSUME NEW o \in filled PROVE BlkSchlsEqEuroNoDiv(o) = o
BY DEF BlkSchlsEqEuroNoDiv

LEMMA RunnerNext == ASSUME IndInv, SoundInv, [Next]_vars PROVE RunnerInv'
<1>0. RunnerInv /\ EntryInv /\ CopyInv /\ filled \subseteq filled'
  BY CopyNext DEF SoundInv
<1>1. /\ tpc \in [Runners -> Places] /\ cur \in [Runners -> Slots]
      /\ opt \in [Runners -> Options] /\ price \in [Runners -> Options \cup {-2, -1}]
      /\ EQ_head \in Slots
  BY DEF IndInv, TypeOK, RuntimeTypeOK, Places
<1>2. CASE MainMove
  <2>1. tpc' = tpc \/ \E t \in Threads : tpc' = [tpc EXCEPT ![t] = "poll"]
    BY <1>2 DEF MainMove, StartWorker, ExitWithError, ReadArguments, ReadCount, ReadRow, CloseInput, FillArrays, NextOption,
       AllPosted, CreatePricer, WaitForEnd, OpenOutput, WriteRow, CloseOutput
  <2> QED
    BY <1>0, <1>1, <1>2, <2>1, MainFrame, ConstantFacts DEF RunnerInv
<1>3. CASE InTstore
  <2>1. 0 \in filled
    BY <1>0, <1>3, InTstorePosts DEF CopyInv, Options
  <2>2. \/ tpc' = tpc
        \/ \E r \in Runners : \E to \in {"none", "load", "loop"} : tpc' = [tpc EXCEPT ![r] = to]
    <3>1. CASE \E t \in Threads : SpawnThread(t)
      BY <3>1, ConstantFacts DEF SpawnThread, Start
    <3>2. CASE CallSupport
      BY <3>2, ConstantFacts DEF CallSupport, Start
    <3>3. CASE SupportReturned
      BY <3>3, ConstantFacts DEF SupportReturned, ThreadGoto
    <3> QED
      BY <1>3, <3>1, <3>2, <3>3 DEF InTstore, PostStep, ReadState, MarkState, InvalidateState,
         WaitForEntry, StoreState, StoreFunc, StoreArgs, StoreValid, StoreTail, NotAtHead,
         MarkSpawning, ReleaseInstance
  <2> QED
    BY <1>0, <1>1, <1>3, <2>1, <2>2, PostFrame DEF RunnerInv, arrays
<1>4. ASSUME NEW r \in Runners, SupportFunction(r) PROVE RunnerInv'
  <2> USE DEF RunnerInv, ThreadGoto
  <2>1. CASE LoadArgs(r)
    <3>1. EQ[cur[r]].args \in filled
      BY <1>0, <1>1, <2>1 DEF LoadArgs, EntryInv
    <3> QED
      BY <1>0, <1>1, <2>1, <3>1 DEF LoadArgs, arrays
  <2>2. CASE ComputeEvent(r)
    <3>1. BlkSchlsEqEuroNoDiv(opt[r]) = opt[r]
      BY <1>0, <2>2, PriceRight DEF ComputeEvent
    <3> QED
      BY <1>0, <1>1, <2>2, <3>1 DEF ComputeEvent, arrays
  <2>3. CASE StorePrice(r)
    BY <1>0, <1>1, <2>3 DEF StorePrice
  <2>4. CASE Return(r)
    <3>1. UNCHANGED <<filled, opt, price>>
      BY <2>4, ReturnFrame DEF arrays
    <3>2. /\ tpc[r] \in {"release", "clear", "check", "last", "chain"}
          /\ \/ \E to \in {"check", "clear", "finish", "last", "chain", "load"} :
                  tpc' = [tpc EXCEPT ![r] = to]
             \/ \E t \in Threads : tpc' = [tpc EXCEPT ![r] = "clear", ![t] = "load"]
      <4>1. CASE ClearValid(r, "release", IF build = "SPAWN" THEN "check" ELSE "clear")
        BY <4>1 DEF ClearValid
      <4>2. CASE ClearValid(r, "clear", "finish")
        BY <4>2 DEF ClearValid
      <4>3. CASE CheckHead(r)
        BY <4>3 DEF CheckHead
      <4>4. CASE ValidateLast(r) \/ ChainHere(r)
        BY <4>4 DEF ValidateLast, ChainHere
      <4>5. CASE \E t \in Threads : ChainThread(r, t)
        BY <4>5 DEF ChainThread
      <4> QED
        BY <2>4, <4>1, <4>2, <4>3, <4>4, <4>5 DEF Return, DttReturn
    <3> QED
      BY <1>0, <1>1, <3>1, <3>2, ConstantFacts
  <2>5. CASE Validate(r)
    BY <1>0, <1>1, <2>5 DEF Validate, arrays
  <2> QED
    BY <1>4, <2>1, <2>2, <2>3, <2>4, <2>5 DEF SupportFunction
<1>5. ASSUME NEW t \in Threads, Dtt(t) PROVE RunnerInv'
  <2>0. UNCHANGED <<filled, opt, price>> /\ t \in Runners
    BY <1>5, LoopFrame, ConstantFacts DEF arrays
  <2> USE DEF RunnerInv, ThreadGoto
  <2>1. CASE PollTail(t)
    BY <1>0, <1>1, <2>0, <2>1 DEF PollTail
  <2>2. CASE PollValid(t)
    BY <1>0, <1>1, <2>0, <2>2 DEF PollValid
  <2>3. CASE TakeEntry(t)
    BY <1>0, <1>1, <2>0, <2>3 DEF TakeEntry, EntryInv
  <2>4. CASE MarkRunning(t)
    BY <1>0, <1>1, <2>0, <2>4 DEF MarkRunning
  <2>5. CASE StoreRunning(t)
    BY <1>0, <1>1, <2>0, <2>5 DEF StoreRunning
  <2>6. CASE CallFunc(t)
    BY <1>0, <1>1, <2>0, <2>6 DEF CallFunc
  <2>7. CASE AdvanceHead(t)
    BY <1>0, <1>1, <2>0, <2>7 DEF AdvanceHead
  <2>8. CASE Idle(t)
    BY <1>0, <1>1, <2>0, <2>8 DEF Idle
  <2>9. CASE TailTest(t)
    BY <1>0, <1>1, <2>0, <2>9 DEF TailTest
  <2>10. CASE TailRuns(t)
    BY <1>0, <1>1, <2>0, <2>10 DEF TailRuns
  <2>11. CASE TailNext(t)
    BY <1>0, <1>1, <2>0, <2>11 DEF TailNext
  <2>12. CASE TailExits(t)
    BY <1>0, <1>1, <2>0, <2>12 DEF TailExits
  <2> QED
    BY <1>5, <2>1, <2>2, <2>3, <2>4, <2>5, <2>6, <2>7, <2>8, <2>9, <2>10, <2>11, <2>12 DEF Dtt, LoopStep
<1>6. CASE (\E p \in Pricers : BsThread(p)) \/ UNCHANGED vars
  BY <1>0, <1>6, PricerMoves DEF RunnerInv, vars, runtime, arrays
<1> QED
  BY <1>2, <1>3, <1>4, <1>5, <1>6, NextCases

LEMMA Monotone ==
  ASSUME NEW a \in Nat, NEW b \in Nat, NEW c \in Nat, a <= b
  PROVE  a * c <= b * c
<1>1. PICK d \in Nat : b = a + d
  <2>1. b - a \in Nat /\ b = a + (b - a)
    OBVIOUS
  <2> QED
    BY <2>1
<1>2. b * c = a * c + d * c /\ a * c \in Nat /\ d * c \in Nat
  BY <1>1
<1> QED
  BY <1>2

\* A share begins and ends among the options.
LEMMA ShareBounds ==
  ASSUME IndInv, NEW p \in Pricers, bs[p].at # "none"
  PROVE  /\ p * Share \in Nat /\ (p + 1) * Share \in Nat
         /\ p * Share < (p + 1) * Share /\ (p + 1) * Share <= numOptions
<1>1. /\ p \in Nat /\ p + 1 <= nThreads /\ nThreads \in Nat /\ numOptions \in Nat
      /\ Share \in Nat \ {0} /\ nThreads * Share <= numOptions
      /\ p * Share \in Nat /\ (p + 1) * Share \in Nat
  BY SharePositive
<1> DEFINE c == Share
<1> HIDE DEF c
<1>2. c \in Nat \ {0} /\ nThreads * c <= numOptions
  BY <1>1 DEF c
<1>3. (p + 1) * c <= nThreads * c /\ nThreads * c \in Nat /\ (p + 1) * c \in Nat
  BY <1>1, <1>2, Monotone
<1>4. (p + 1) * c = p * c + c /\ p * c \in Nat
  BY <1>1, <1>2
<1>5. p * c < (p + 1) * c /\ (p + 1) * c <= numOptions
  BY <1>1, <1>2, <1>3, <1>4
<1> QED
  BY <1>1, <1>5 DEF c

\* The pricers run while main waits for them or writes.
LEMMA PricersSeeAll ==
  ASSUME IndInv, SoundInv, Running, NEW p \in Pricers, bs[p].at # "none"
  PROVE  filled = 0 .. numOptions - 1
BY DEF IndInv, MainInv, PricerInv, SoundInv, CopyInv, Running

LEMMA AdvanceInShare ==
  ASSUME IndInv, SoundInv, NEW p \in Pricers, bs[p].at \in {"test", "store"}
  PROVE  /\ Advance(p).at \in {"test", "done"}
         /\ Advance(p).at = "test" => Advance(p).i \in 0 .. numOptions - 1
<1> DEFINE q == bs[p]
<1> DEFINE first == p * Share
<1> DEFINE end == (p + 1) * Share
<1>1. q \in PricerRecord /\ q.i \in 0 .. numOptions - 1
  BY DEF IndInv, TypeOK, PricerRecord, SoundInv, LoopInv
<1>2. first \in Nat /\ end \in Nat /\ first < end /\ end <= numOptions /\ numOptions \in Nat
  BY ShareBounds, SharePositive
<1> HIDE DEF q, first, end
<1>3. LET a == [q EXCEPT !.at = "test", !.i = @ + 1] IN
      a.at = "test" /\ (q.i + 1 < end => a.i \in 0 .. numOptions - 1)
  <2> DEFINE a == [q EXCEPT !.at = "test", !.i = @ + 1]
  <2>1. a.at = "test" /\ a.i = q.i + 1
    BY <1>1, NextInShare
  <2> HIDE DEF a
  <2>2. a.at = "test" /\ (q.i + 1 < end => a.i \in 0 .. numOptions - 1)
    BY <1>1, <1>2, <2>1
  <2> QED
    BY <2>2 DEF a
<1>4. ASSUME q.j + 1 < NUM_RUNS
      PROVE  LET a == [q EXCEPT !.at = "test", !.i = first, !.j = @ + 1] IN
             a.at = "test" /\ a.i \in 0 .. numOptions - 1
  <2> DEFINE a == [q EXCEPT !.at = "test", !.i = first, !.j = @ + 1]
  <2>1. q \in PricerRecord /\ first \in Int
    BY <1>1, <1>2
  <2>2. a.at = "test" /\ a.i = first
    BY <1>4, <2>1, NextRound
  <2> HIDE DEF a
  <2>3. a.at = "test" /\ a.i \in 0 .. numOptions - 1
    BY <1>2, <2>2
  <2> QED
    BY <2>3 DEF a
<1>5. LET a == [q EXCEPT !.at = "done"] IN a.at = "done"
  BY <1>1, SetAt
<1> QED
  BY <1>3, <1>4, <1>5 DEF Advance, q, first, end

LEMMA LoopNext == ASSUME IndInv, SoundInv, [Next]_vars PROVE LoopInv'
<1>0. LoopInv /\ bs \in [Pricers -> PricerRecord]
  BY DEF SoundInv, IndInv, TypeOK, PricerRecord
<1>1. CASE MainMove
  <2>1. CASE CreatePricer
    <3>1. UNCHANGED numOptions /\ (bs' = bs \/ bs' = [bs EXCEPT ![i] = [@ EXCEPT !.at = "barrier"]])
      BY <2>1 DEF CreatePricer, arguments
    <3>2. \A p \in Pricers : [bs[p] EXCEPT !.at = "barrier"].at = "barrier"
      BY <1>0, SetAt
    <3> QED
      BY <1>0, <3>1, <3>2 DEF LoopInv
  <2>2. CASE ReadCount
    <3>1. \A p \in Pricers : bs[p].at = "none"
      BY <2>2 DEF IndInv, PricerInv, ReadCount, Pricing
    <3> QED
      BY <2>2, <3>1 DEF LoopInv, ReadCount
  <2>3. CASE UNCHANGED <<numOptions, bs>>
    BY <1>0, <2>3 DEF LoopInv
  <2> QED
    BY <1>1, <2>1, <2>2, <2>3 DEF MainMove, arguments, StartWorker, ExitWithError, ReadArguments, ReadCount,
       ReadRow, CloseInput, FillArrays, NextOption, AllPosted, CreatePricer, WaitForEnd, OpenOutput,
       WriteRow, CloseOutput
<1>2. CASE InTstore
  BY <1>0, <1>2, PostFrame DEF LoopInv, arguments
<1>3. ASSUME NEW r \in Runners, SupportFunction(r) PROVE LoopInv'
  BY <1>0, <1>3, SupportFrame DEF LoopInv, arguments
<1>4. ASSUME NEW t \in Threads, Dtt(t) PROVE LoopInv'
  BY <1>0, <1>4, LoopFrame DEF LoopInv, arguments
<1>5. ASSUME NEW p \in Pricers, Running, BsThread(p) PROVE LoopInv'
  <2>1. UNCHANGED numOptions /\ bs[p].at # "none" /\ bs[p] \in PricerRecord
    BY <1>0, <1>5, PricerMoves DEF arguments
  <2>2. PICK q : bs' = [bs EXCEPT ![p] = q]
    BY <1>5, PricerMoves
  <2>3. /\ q.at \in {"test", "compute", "store"} => q.i \in 0 .. numOptions - 1
        /\ q.at = "store" => q.price = q.i
    <3>1. q = bs'[p]
      BY <1>0, <2>2
    <3>2. CASE PassBarrier(p)
      <4>1. q = [at |-> "test", j |-> 0, i |-> p * Share, price |-> -1]
        BY <1>0, <3>1, <3>2 DEF PassBarrier, PricerStep
      <4> QED
        BY <2>1, <4>1, ShareBounds, SharePositive
    <3>3. CASE TestState(p)
      <4>1. bs[p].at = "test" /\ q \in {[bs[p] EXCEPT !.at = "compute"], Advance(p)}
        BY <1>0, <3>1, <3>3 DEF TestState, PricerStep
      <4>2. LET a == [bs[p] EXCEPT !.at = "compute"] IN
            a.at = "compute" /\ a.i \in 0 .. numOptions - 1
        BY <1>0, <2>1, <4>1, SetAt DEF LoopInv
      <4> QED
        BY <4>1, <4>2, AdvanceInShare
    <3>4. CASE Compute(p)
      <4> DEFINE new == BlkSchlsEqEuroNoDiv(bs[p].i)
      <4>1. /\ bs[p].i \in 0 .. numOptions - 1
            /\ q = [bs[p] EXCEPT !.at = "store", !.price = new]
        BY <1>0, <3>1, <3>4 DEF Compute, PricerStep, LoopInv
      <4>2. new = bs[p].i
        BY <1>5, <2>1, <4>1, PricersSeeAll, PriceRight
      <4>3. new \in Options \cup {-2, -1}
        BY <2>1, <4>1, PriceRange DEF IndInv
      <4> DEFINE b == [bs[p] EXCEPT !.at = "store"]
      <4>4. b \in PricerRecord /\ b.i = bs[p].i /\ b.at = "store"
        BY <2>1, SetAt
      <4> HIDE DEF b, new
      <4>5. LET a == [b EXCEPT !.price = new] IN a.i = bs[p].i /\ a.at = "store" /\ a.price = new
        BY <4>3, <4>4, SetPrice
      <4>6. q = [b EXCEPT !.price = new]
        BY <4>1 DEF b
      <4> QED
        BY <4>1, <4>2, <4>5, <4>6
    <3>5. CASE Store(p)
      <4>1. bs[p].at = "store" /\ q = Advance(p)
        BY <1>0, <3>1, <3>5 DEF Store, PricerStep
      <4> QED
        BY <4>1, AdvanceInShare
    <3> QED
      BY <1>5, <3>2, <3>3, <3>4, <3>5 DEF BsThread
  <2> QED
    BY <1>0, <2>1, <2>2, <2>3 DEF LoopInv
<1>6. CASE UNCHANGED vars
  BY <1>0, <1>6 DEF LoopInv, vars, arguments
<1> QED
  BY <1>1, <1>2, <1>3, <1>4, <1>5, <1>6, NextCases

LEMMA RowsNext == ASSUME IndInv, SoundInv, [Next]_vars PROVE RowsInv'
<1>0. RowsInv /\ rows \in Seq(Options \cup {-2, -1}) /\ prices \in [Options -> Options \cup {-2, -1}]
  BY DEF SoundInv, IndInv, TypeOK
<1>1. CASE MainMove
  <2> USE DEF RowsInv, Goto
  <2>1. CASE StartWorker
    BY <1>0, <2>1 DEF StartWorker
  <2>2. CASE ExitWithError
    BY <1>0, <2>2 DEF ExitWithError
  <2>3. CASE ReadArguments
    BY <1>0, <2>3 DEF ReadArguments
  <2>4. CASE ReadCount
    BY <1>0, <2>4 DEF ReadCount
  <2>5. CASE ReadRow
    BY <1>0, <2>5 DEF ReadRow
  <2>6. CASE CloseInput
    BY <1>0, <2>6 DEF CloseInput
  <2>7. CASE FillArrays
    BY <1>0, <2>7 DEF FillArrays
  <2>8. CASE NextOption
    BY <1>0, <2>8 DEF NextOption
  <2>9. CASE AllPosted
    BY <1>0, <2>9 DEF AllPosted
  <2>10. CASE CreatePricer
    BY <1>0, <2>10 DEF CreatePricer
  <2>11. CASE WaitForEnd
    BY <1>0, <2>11 DEF WaitForEnd
  <2>12. CASE OpenOutput
    BY <1>0, <2>12 DEF OpenOutput
  <2>13. CASE WriteRow
    BY <1>0, <2>13, ConstantFacts DEF WriteRow, IndInv, TypeOK, Options
  <2>14. CASE CloseOutput
    BY <1>0, <2>14 DEF CloseOutput
  <2> QED
    BY <1>1, <2>1, <2>2, <2>3, <2>4, <2>5, <2>6, <2>7, <2>8, <2>9, <2>10, <2>11, <2>12, <2>13, <2>14 DEF MainMove
<1>2. CASE InTstore
  BY <1>0, <1>2, InTstorePosts, PostFrame DEF RowsInv, Posting
<1>3. ASSUME NEW r \in Runners, SupportFunction(r) PROVE RowsInv'
  BY <1>0, <1>3, SupportFrame DEF RowsInv
<1>4. ASSUME NEW t \in Threads, Dtt(t) PROVE RowsInv'
  BY <1>0, <1>4, LoopFrame DEF RowsInv
<1>5. CASE (\E p \in Pricers : BsThread(p)) \/ UNCHANGED vars
  BY <1>0, <1>5, PricerMoves DEF RowsInv, vars, runtime
<1> QED
  BY <1>1, <1>2, <1>3, <1>4, <1>5, NextCases

\* Only a support function and a pricer store a price, and only main writes.
LEMMA PricesNext == ASSUME IndInv, SoundInv, [Next]_vars PROVE PricesSound'
<1>0. /\ PricesSound /\ RowsInv /\ RunnerInv /\ LoopInv
      /\ prices \in [Options -> Options \cup {-2, -1}] /\ rows \in Seq(Options \cup {-2, -1})
      /\ opt \in [Runners -> Options] /\ bs \in [Pricers -> PricerRecord]
  BY DEF SoundInv, IndInv, TypeOK, PricerRecord
<1>1. CASE MainMove
  <2>1. UNCHANGED prices /\ (rows' = rows \/ WriteRow)
    BY <1>1 DEF MainMove, arrays, StartWorker, ExitWithError, ReadArguments, ReadCount, ReadRow,
       CloseInput, FillArrays, NextOption, AllPosted, CreatePricer, WaitForEnd, OpenOutput,
       WriteRow, CloseOutput
  <2>2. CASE WriteRow
    <3>1. i = Len(rows) /\ i \in Options /\ prices[i] \in {-1, i} /\ rows' = Append(rows, prices[i])
      BY <1>0, <2>2, ConstantFacts DEF WriteRow, RowsInv, PricesSound, IndInv, TypeOK, Options
    <3>2. \A k \in DOMAIN rows' : rows'[k] \in {-1, k - 1}
      BY <1>0, <3>1 DEF PricesSound
    <3> QED
      BY <1>0, <2>1, <3>2 DEF PricesSound
  <2> QED
    BY <1>0, <2>1, <2>2 DEF PricesSound
<1>2. CASE InTstore
  BY <1>0, <1>2, PostFrame DEF PricesSound, arrays
<1>3. ASSUME NEW r \in Runners, SupportFunction(r) PROVE PricesSound'
  <2>1. UNCHANGED rows
    BY <1>3, SupportFrame
  <2>2. prices' = prices \/ (tpc[r] = "store" /\ prices' = [prices EXCEPT ![opt[r]] = price[r]])
    BY <1>3, ReturnFrame DEF SupportFunction, LoadArgs, ComputeEvent, StorePrice, Validate,
       ThreadGoto, arrays
  <2> QED
    BY <1>0, <2>1, <2>2 DEF PricesSound, RunnerInv
<1>4. ASSUME NEW t \in Threads, Dtt(t) PROVE PricesSound'
  BY <1>0, <1>4, LoopFrame DEF PricesSound, arrays
<1>5. ASSUME NEW p \in Pricers, BsThread(p) PROVE PricesSound'
  <2>1. UNCHANGED rows
    BY <1>5, PricerMoves
  <2>2. prices' = prices \/ (bs[p].at = "store" /\ prices' = [prices EXCEPT ![bs[p].i] = bs[p].price])
    BY <1>5 DEF BsThread, PassBarrier, TestState, Compute, Store, PricerStep
  <2> QED
    BY <1>0, <2>1, <2>2 DEF PricesSound, LoopInv
<1>6. CASE UNCHANGED vars
  BY <1>0, <1>6 DEF PricesSound, vars, arrays
<1> QED
  BY <1>1, <1>2, <1>3, <1>4, <1>5, <1>6, NextCases

LEMMA SoundCorrect == Spec => []SoundInv
<1>1. IndInv /\ SoundInv /\ [Next]_vars => SoundInv'
  BY CopyNext, EntryNext, RunnerNext, LoopNext, RowsNext, PricesNext DEF SoundInv
<1> QED
  BY <1>1, SoundInit, IndCorrect, PTL DEF Spec

\* No build of blackscholes, however its threads interleave, stores or writes
\* a wrong price: what is not the option's price was never computed.
THEOREM PricesCorrect == Spec => []PricesSound
<1>1. SoundInv => PricesSound
  BY DEF SoundInv
<1> QED
  BY <1>1, SoundCorrect, PTL

=============================================================================
