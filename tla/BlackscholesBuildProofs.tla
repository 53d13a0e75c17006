----------------------- MODULE BlackscholesBuildProofs -----------------------
(***************************************************************************)
(* What the builds of blackscholes without a polling thread compute, for   *)
(* any number of options and pricers and any ring: all of the prices when  *)
(* it is single-threaded, one event in EQ_MAX when tstore starts a thread, *)
(* and the shares of the pricers in the baseline build.                    *)
(***************************************************************************)
EXTENDS BlackscholesProofs

\* A price that was stored stays.
LEMMA PriceKept ==
  ASSUME IndInv, SoundInv, [Next]_vars, NEW o \in Options, prices[o] = o
  PROVE  prices'[o] = o
<1>0. /\ RunnerInv /\ LoopInv /\ prices \in [Options -> Options \cup {-2, -1}]
      /\ opt \in [Runners -> Options]
  BY DEF SoundInv, IndInv, TypeOK
<1>1. CASE MainMove
  BY <1>0, <1>1 DEF MainMove, arrays, StartWorker, ExitWithError, ReadArguments, ReadCount, ReadRow,
     CloseInput, FillArrays, NextOption, AllPosted, CreatePricer, WaitForEnd, OpenOutput,
     WriteRow, CloseOutput
<1>2. CASE InTstore
  BY <1>2, PostFrame DEF arrays
<1>3. ASSUME NEW r \in Runners, SupportFunction(r) PROVE prices'[o] = o
  <2>1. prices' = prices \/ (tpc[r] = "store" /\ prices' = [prices EXCEPT ![opt[r]] = price[r]])
    BY <1>3, ReturnFrame DEF SupportFunction, LoadArgs, ComputeEvent, StorePrice, Validate,
       ThreadGoto, arrays
  <2> QED
    BY <1>0, <2>1 DEF RunnerInv
<1>4. ASSUME NEW t \in Threads, Dtt(t) PROVE prices'[o] = o
  BY <1>4, LoopFrame DEF arrays
<1>5. ASSUME NEW p \in Pricers, BsThread(p) PROVE prices'[o] = o
  <2>1. prices' = prices \/ (bs[p].at = "store" /\ prices' = [prices EXCEPT ![bs[p].i] = bs[p].price])
    BY <1>5 DEF BsThread, PassBarrier, TestState, Compute, Store, PricerStep
  <2> QED
    BY <1>0, <2>1 DEF LoopInv
<1>6. CASE UNCHANGED vars
  BY <1>6 DEF vars, arrays
<1> QED
  BY <1>1, <1>2, <1>3, <1>4, <1>5, <1>6, NextCases

-----------------------------------------------------------------------------
(* The single-threaded build.                                              *)

\* Where main is inside the support function, past the store of the price.
Stored == {"release", "clear", "finish", "returned"}

\* There is no thread, and main is in the support function just while tstore
\* has called it.
SingleFlow ==
  /\ pc \notin {"mark", "wait", "fields"}
  /\ \A t \in Threads : tpc[t] = "none"
  /\ tpc["main"] \in {"none", "load", "price", "store"} \cup Stored
  /\ tpc["main"] = "none" <=> pc # "called"

\* The event on its way is that of main's option.
SingleEvent ==
  /\ pc \in {"valid", "tail"} => EQ[EQ_tail].args = i
  /\ pc \in {"spawn", "create"} => EQ[instance].args = i
  /\ tpc["main"] = "load" => EQ[cur["main"]].args = i
  /\ tpc["main"] \in {"price", "store"} => opt["main"] = i

\* What main has posted is priced.
SinglePriced ==
  /\ pc \in Posting \cup {"fill"} => \A o \in 0 .. i - 1 : prices[o] = o
  /\ tpc["main"] \in Stored \/ pc \in {"release", "posted"} => prices[i] = i
  /\ pc \in Pricing => \A o \in 0 .. numOptions - 1 : prices[o] = o

\* So what main writes is complete.
SingleRows ==
  /\ \A k \in DOMAIN rows : rows[k] = k - 1
  /\ pc # "done" => exit = -1
  /\ OutputComplete

SingleNow == SingleFlow /\ SingleEvent /\ SinglePriced /\ SingleRows

SingleInv == build = "SINGLE_THREAD" => SingleNow

LEMMA SingleInit == Init => SingleInv
<1> SUFFICES ASSUME Init PROVE SingleFlow /\ SingleEvent /\ SinglePriced /\ SingleRows
  BY DEF SingleInv, SingleNow
<1>1. SingleFlow
  BY ConstantFacts DEF Init, RuntimeInit, SingleFlow, Stored
<1>2. SingleEvent
  BY ConstantFacts DEF Init, RuntimeInit, SingleEvent
<1>3. SinglePriced
  BY ConstantFacts DEF Init, RuntimeInit, SinglePriced, Posting, Pricing, Stored
<1>4. SingleRows
  BY DEF Init, RuntimeInit, SingleRows, OutputComplete
<1> QED
  BY <1>1, <1>2, <1>3, <1>4

\* No step changes the build.
LEMMA BuildKept == ASSUME IndInv, [Next]_vars PROVE build' = build
<1>1. CASE MainMove
  BY <1>1, MainFrame DEF NotTheRuntime
<1>2. CASE InTstore
  BY <1>2, PostFrame
<1>3. ASSUME NEW r \in Runners, SupportFunction(r) PROVE build' = build
  BY <1>3, SupportFrame
<1>4. ASSUME NEW t \in Threads, Dtt(t) PROVE build' = build
  BY <1>4, LoopFrame
<1>5. CASE (\E p \in Pricers : BsThread(p)) \/ UNCHANGED vars
  BY <1>5, PricerMoves DEF vars, runtime
<1> QED
  BY <1>1, <1>2, <1>3, <1>4, <1>5, NextCases

\* main outside tstore: the steps that begin or end a loop count the options
\* that are done.
LEMMA SingleMain ==
  ASSUME IndInv, SoundInv, build = "SINGLE_THREAD", SingleNow, MainMove
  PROVE  SingleNow'
<1>0. /\ SingleFlow /\ SingleEvent /\ SinglePriced /\ SingleRows /\ TypeOK /\ RowsInv
      /\ NotTheRuntime /\ UNCHANGED <<opt, price>>
  BY MainFrame DEF SingleNow, IndInv, SoundInv
<1>1. UNCHANGED tpc /\ UNCHANGED prices
  BY DEF MainMove, Polling, arrays, StartWorker, ExitWithError, ReadArguments, ReadCount, ReadRow, CloseInput, FillArrays, NextOption, AllPosted, CreatePricer, WaitForEnd, OpenOutput, WriteRow, CloseOutput
<1>2. SingleFlow'
  <2> USE DEF SingleFlow, Goto
  <2>2. CASE StartWorker
    BY <1>0, <1>1, <2>2 DEF StartWorker
  <2>3. CASE ExitWithError
    BY <1>0, <1>1, <2>3 DEF ExitWithError
  <2>4. CASE ReadArguments
    BY <1>0, <1>1, <2>4 DEF ReadArguments
  <2>5. CASE ReadCount
    BY <1>0, <1>1, <2>5 DEF ReadCount
  <2>6. CASE ReadRow
    BY <1>0, <1>1, <2>6 DEF ReadRow
  <2>7. CASE CloseInput
    BY <1>0, <1>1, <2>7 DEF CloseInput
  <2>8. CASE FillArrays
    BY <1>0, <1>1, <2>8 DEF FillArrays
  <2>9. CASE NextOption
    BY <1>0, <1>1, <2>9 DEF NextOption
  <2>10. CASE AllPosted
    BY <1>0, <1>1, <2>10 DEF AllPosted
  <2>11. CASE CreatePricer
    BY <1>0, <1>1, <2>11 DEF CreatePricer
  <2>12. CASE WaitForEnd
    BY <1>0, <1>1, <2>12 DEF WaitForEnd
  <2>13. CASE OpenOutput
    BY <1>0, <1>1, <2>13 DEF OpenOutput
  <2>14. CASE WriteRow
    BY <1>0, <1>1, <2>14 DEF WriteRow
  <2>15. CASE CloseOutput
    BY <1>0, <1>1, <2>15 DEF CloseOutput
  <2> QED
    BY <2>2, <2>3, <2>4, <2>5, <2>6, <2>7, <2>8, <2>9, <2>10, <2>11, <2>12, <2>13, <2>14, <2>15 DEF MainMove
<1>3. SingleEvent'
  <2>1. pc' \notin {"valid", "tail", "spawn", "create"}
    BY <1>0 DEF MainMove, Goto, StartWorker, ExitWithError, ReadArguments, ReadCount, ReadRow, CloseInput, FillArrays, NextOption, AllPosted, CreatePricer, WaitForEnd, OpenOutput, WriteRow, CloseOutput, SingleFlow
  <2>2. tpc["main"] = "none"
    BY <1>0 DEF MainMove, Goto, StartWorker, ExitWithError, ReadArguments, ReadCount, ReadRow, CloseInput, FillArrays, NextOption, AllPosted, CreatePricer, WaitForEnd, OpenOutput, WriteRow, CloseOutput, SingleFlow
  <2> QED
    BY <1>1, <2>1, <2>2 DEF SingleEvent
<1>4. SinglePriced'
  <2>1. tpc["main"] = "none"
    BY <1>0 DEF MainMove, Goto, StartWorker, ExitWithError, ReadArguments, ReadCount, ReadRow, CloseInput, FillArrays, NextOption, AllPosted, CreatePricer, WaitForEnd, OpenOutput, WriteRow, CloseOutput, SingleFlow
  <2> USE DEF SinglePriced, Posting, Pricing, Goto, TypeOK, Stored, arguments
  <2>2. CASE StartWorker
    BY <1>0, <1>1, <2>1, <2>2 DEF StartWorker
  <2>3. CASE ExitWithError
    BY <1>0, <1>1, <2>1, <2>3 DEF ExitWithError
  <2>4. CASE ReadArguments
    BY <1>0, <1>1, <2>1, <2>4 DEF ReadArguments
  <2>5. CASE ReadCount
    BY <1>0, <1>1, <2>1, <2>5 DEF ReadCount
  <2>6. CASE ReadRow
    BY <1>0, <1>1, <2>1, <2>6 DEF ReadRow
  <2>7. CASE CloseInput
    BY <1>0, <1>1, <2>1, <2>7 DEF CloseInput
  <2>8. CASE FillArrays
    BY <1>0, <1>1, <2>1, <2>8 DEF FillArrays
  <2>9. CASE NextOption
    BY <1>0, <1>1, <2>1, <2>9 DEF NextOption
  <2>10. CASE AllPosted
    BY <1>0, <1>1, <2>1, <2>10 DEF AllPosted
  <2>11. CASE CreatePricer
    BY <1>0, <1>1, <2>1, <2>11 DEF CreatePricer
  <2>12. CASE WaitForEnd
    BY <1>0, <1>1, <2>1, <2>12 DEF WaitForEnd
  <2>13. CASE OpenOutput
    BY <1>0, <1>1, <2>1, <2>13 DEF OpenOutput
  <2>14. CASE WriteRow
    BY <1>0, <1>1, <2>1, <2>14 DEF WriteRow
  <2>15. CASE CloseOutput
    BY <1>0, <1>1, <2>1, <2>15 DEF CloseOutput
  <2> QED
    BY <2>2, <2>3, <2>4, <2>5, <2>6, <2>7, <2>8, <2>9, <2>10, <2>11, <2>12, <2>13, <2>14, <2>15 DEF MainMove
<1>5. SingleRows'
  <2> USE DEF SingleRows, OutputComplete, Goto, RowsInv
  <2>2. CASE StartWorker
    BY <1>0, <1>1, <2>2 DEF StartWorker
  <2>3. CASE ExitWithError
    BY <1>0, <1>1, <2>3 DEF ExitWithError
  <2>4. CASE ReadArguments
    BY <1>0, <1>1, <2>4 DEF ReadArguments
  <2>5. CASE ReadCount
    BY <1>0, <1>1, <2>5 DEF ReadCount
  <2>6. CASE ReadRow
    BY <1>0, <1>1, <2>6 DEF ReadRow
  <2>7. CASE CloseInput
    BY <1>0, <1>1, <2>7 DEF CloseInput
  <2>8. CASE FillArrays
    BY <1>0, <1>1, <2>8 DEF FillArrays
  <2>9. CASE NextOption
    BY <1>0, <1>1, <2>9 DEF NextOption
  <2>10. CASE AllPosted
    BY <1>0, <1>1, <2>10 DEF AllPosted
  <2>11. CASE CreatePricer
    BY <1>0, <1>1, <2>11 DEF CreatePricer
  <2>12. CASE WaitForEnd
    BY <1>0, <1>1, <2>12 DEF WaitForEnd
  <2>13. CASE OpenOutput
    BY <1>0, <1>1, <2>13 DEF OpenOutput
  <2>14. CASE WriteRow
    <3>1. /\ rows \in Seq(Options \cup {-2, -1}) /\ i \in Nat /\ numOptions \in Nat
          /\ prices \in [Options -> Options \cup {-2, -1}] /\ i \in Options
      BY <1>0, <2>14, ConstantFacts DEF WriteRow, TypeOK, Options
    <3>2. prices[i] = i /\ Len(rows) = i /\ rows' = Append(rows, prices[i]) /\ exit' = exit /\ exit = -1
      BY <1>0, <2>14, <3>1 DEF WriteRow, SinglePriced, Pricing
    <3>3. \A k \in DOMAIN rows' : rows'[k] = k - 1
      BY <1>0, <3>1, <3>2
    <3> QED
      BY <1>0, <2>14, <3>2, <3>3 DEF WriteRow
  <2>15. CASE CloseOutput
    <3>1. rows \in Seq(Options \cup {-2, -1}) /\ Len(rows) = numOptions
      BY <1>0, <2>15 DEF CloseOutput, TypeOK
    <3>2. rows = [k \in 1 .. numOptions |-> k - 1]
      BY <1>0, <3>1
    <3>3. rows' = rows /\ numOptions' = numOptions /\ pc' = "done"
      BY <2>15 DEF CloseOutput, arguments
    <3> QED
      BY <1>0, <3>2, <3>3
  <2> QED
    BY <2>2, <2>3, <2>4, <2>5, <2>6, <2>7, <2>8, <2>9, <2>10, <2>11, <2>12, <2>13, <2>14, <2>15 DEF MainMove
<1> QED
  BY <1>2, <1>3, <1>4, <1>5 DEF SingleNow

\* tstore: the event is main's from the store of its argument to the call, and
\* nothing else runs.
LEMMA SinglePost ==
  ASSUME IndInv, build = "SINGLE_THREAD", SingleNow, InTstore
  PROVE  SingleNow'
<1>0. /\ SingleFlow /\ SingleEvent /\ SinglePriced /\ SingleRows
      /\ EQ \in [Slots -> [valid : 0 .. 2, state : BOOLEAN, func : BOOLEAN, args : Args]]
      /\ EQ_tail \in Slots /\ instance \in Slots
      /\ tpc \in [Runners -> Places] /\ cur \in [Runners -> Slots]
      /\ "main" \in Runners /\ "main" \notin Threads /\ Threads \subseteq Runners
      /\ i \in Options /\ i \in Args
      /\ pc' \in Posting /\ pc \in Posting \ {"posted"}
      /\ UNCHANGED <<build, arguments, i, arrays, rows, exit, opt, price, bs>>
  BY InTstorePosts, PostFrame, ConstantFacts DEF SingleNow, IndInv, TypeOK, RuntimeTypeOK, Places
<1> USE DEF SingleNow, SingleFlow, SingleEvent, SinglePriced, SingleRows, OutputComplete, Goto,
            ThreadGoto, Start, Polling, RunsInstance, Posting, Pricing, Stored, arguments, arrays
<1>1. CASE ReadState
  BY <1>0, <1>1 DEF ReadState
<1>2. CASE MarkState
  BY <1>0, <1>2 DEF MarkState
<1>3. CASE InvalidateState
  BY <1>0, <1>3 DEF InvalidateState
<1>4. CASE WaitForEntry
  BY <1>0, <1>4 DEF WaitForEntry
<1>5. CASE StoreState
  BY <1>0, <1>5 DEF StoreState
<1>6. CASE StoreFunc
  BY <1>0, <1>6 DEF StoreFunc
<1>7. CASE StoreArgs(i)
  BY <1>0, <1>7 DEF StoreArgs
<1>8. CASE StoreValid
  BY <1>0, <1>8 DEF StoreValid
<1>9. CASE StoreTail
  BY <1>0, <1>9 DEF StoreTail
<1>10. CASE NotAtHead
  BY <1>0, <1>10 DEF NotAtHead
<1>11. CASE MarkSpawning
  BY <1>0, <1>11 DEF MarkSpawning
<1>12. CASE CallSupport
  BY <1>0, <1>12 DEF CallSupport
<1>13. CASE SupportReturned
  BY <1>0, <1>13 DEF SupportReturned
<1>14. CASE ReleaseInstance
  BY <1>0, <1>14 DEF ReleaseInstance
<1>15. CASE \E t \in Threads : SpawnThread(t)
  BY <1>0, <1>15 DEF SpawnThread
<1> QED
  BY <1>1, <1>2, <1>3, <1>4, <1>5, <1>6, <1>7, <1>8, <1>9, <1>10, <1>11, <1>12, <1>13, <1>14, <1>15 DEF InTstore, PostStep

\* The support function, which main runs: it stores the price of main's option.
LEMMA SingleSupport ==
  ASSUME IndInv, SoundInv, [Next]_vars, build = "SINGLE_THREAD", SingleNow,
         NEW r \in Runners, SupportFunction(r)
  PROVE  SingleNow'
<1>0. /\ SingleFlow /\ SingleEvent /\ SinglePriced /\ SingleRows /\ RunnerInv
      /\ EQ \in [Slots -> [valid : 0 .. 2, state : BOOLEAN, func : BOOLEAN, args : Args]]
      /\ tpc \in [Runners -> Places] /\ cur \in [Runners -> Slots]
      /\ opt \in [Runners -> Options] /\ prices \in [Options -> Options \cup {-2, -1}]
      /\ UNCHANGED <<build, pc, arguments, i, filled, rows, exit, bs>>
  BY SupportFrame DEF SingleNow, SoundInv, IndInv, TypeOK, RuntimeTypeOK, Places
<1>1. r = "main" /\ pc = "called" /\ i \in Options /\ "main" \notin Threads /\ "main" \in Runners
  <2>1. tpc[r] # "none"
    BY DEF SupportFunction, LoadArgs, ComputeEvent, StorePrice, Return, Validate, ClearValid,
       DttReturn, CheckHead, ValidateLast, ChainHere, ChainThread, ThreadGoto
  <2>2. r = "main" /\ pc = "called"
    BY <1>0, <2>1 DEF SingleFlow, Runners
  <2> QED
    BY <2>2, ConstantFacts DEF IndInv, TypeOK, MainInv, Posting, Options
<1>2. SingleRows'
  BY <1>0 DEF SingleRows, OutputComplete, arguments
<1>3. \A o \in Options : prices[o] = o => prices'[o] = o
  BY PriceKept
<1> USE DEF SingleFlow, SingleEvent, SinglePriced, ThreadGoto, Posting, Pricing, Stored,
            arguments, arrays
<1>4. CASE LoadArgs(r)
  BY <1>0, <1>1, <1>2, <1>4 DEF LoadArgs, SingleNow
<1>5. CASE ComputeEvent(r)
  BY <1>0, <1>1, <1>2, <1>5 DEF ComputeEvent, SingleNow
<1>6. CASE StorePrice(r)
  <2>1. prices'[i] = i
    BY <1>0, <1>1, <1>6 DEF StorePrice, RunnerInv
  <2>2. \A o \in 0 .. i - 1 : o \in Options
    BY <1>1, ConstantFacts DEF Options
  <2> QED
    BY <1>0, <1>1, <1>2, <1>3, <1>6, <2>1, <2>2 DEF StorePrice, SingleNow
<1>7. CASE Return(r)
  <2>1. UNCHANGED <<prices, opt, price>>
    BY <1>7, ReturnFrame DEF arrays
  <2>2. \/ ClearValid(r, "release", "clear")
        \/ ClearValid(r, "clear", "finish")
    BY <1>0, <1>1, <1>7 DEF Return, DttReturn, CheckHead, ValidateLast, ChainHere, ChainThread
  <2>3. /\ tpc[r] \in Stored
        /\ \E to \in {"clear", "finish"} : tpc' = [tpc EXCEPT ![r] = to]
    BY <2>2 DEF ClearValid
  <2> QED
    BY <1>0, <1>1, <1>2, <2>1, <2>3 DEF SingleNow
<1>8. CASE Validate(r)
  BY <1>0, <1>1, <1>2, <1>8 DEF Validate, SingleNow
<1> QED
  BY <1>4, <1>5, <1>6, <1>7, <1>8 DEF SupportFunction

\* The pricers take no price away.
LEMMA SinglePricers ==
  ASSUME IndInv, SoundInv, [Next]_vars, build = "SINGLE_THREAD", SingleNow,
         NEW p \in Pricers, BsThread(p)
  PROVE  SingleNow'
<1>0. /\ SingleFlow /\ SingleEvent /\ SinglePriced /\ SingleRows
      /\ UNCHANGED <<runtime, arguments, i, filled, rows, exit, opt, price>>
      /\ bs[p].at # "none"
  BY PricerMoves DEF SingleNow
<1>1. SingleFlow' /\ SingleEvent' /\ SingleRows'
  BY <1>0 DEF SingleFlow, SingleEvent, SingleRows, OutputComplete, runtime, arguments
<1>2. \A o \in Options : prices[o] = o => prices'[o] = o
  BY PriceKept
<1>3. pc \in Pricing \cup {"done"} /\ numOptions \in 0 .. MaxOptions /\ MaxOptions \in Nat
  BY <1>0, ConstantFacts DEF IndInv, PricerInv, TypeOK
<1>4. \A o \in 0 .. numOptions - 1 : o \in Options
  BY <1>3 DEF Options
<1>5. tpc["main"] = "none"
  BY <1>0, <1>3 DEF SingleFlow, Pricing
<1>6. SinglePriced'
  BY <1>0, <1>2, <1>3, <1>4, <1>5 DEF SinglePriced, Pricing, Posting, Stored, runtime, arguments
<1> QED
  BY <1>1, <1>6 DEF SingleNow

LEMMA SingleNext == ASSUME IndInv, SoundInv, [Next]_vars, SingleInv PROVE SingleInv'
<1> SUFFICES ASSUME build = "SINGLE_THREAD" PROVE SingleNow'
  BY BuildKept DEF SingleInv
<1>0. SingleNow
  BY DEF SingleInv
<1>1. CASE MainMove
  BY <1>0, <1>1, SingleMain
<1>2. CASE InTstore
  BY <1>0, <1>2, SinglePost
<1>3. ASSUME NEW r \in Runners, SupportFunction(r) PROVE SingleNow'
  BY <1>0, <1>3, SingleSupport
<1>4. ASSUME NEW t \in Threads, Dtt(t) PROVE SingleNow'
  <2>1. tpc[t] # "none"
    BY <1>4 DEF Dtt, LoopStep, PollTail, PollValid, TakeEntry, MarkRunning, StoreRunning, CallFunc,
       AdvanceHead, Idle, TailTest, TailRuns, TailNext, TailExits, ThreadGoto
  <2> QED
    BY <1>0, <2>1 DEF SingleNow, SingleFlow
<1>5. ASSUME NEW p \in Pricers, BsThread(p) PROVE SingleNow'
  BY <1>0, <1>5, SinglePricers
<1>6. CASE UNCHANGED vars
  BY <1>0, <1>6 DEF SingleNow, SingleFlow, SingleEvent, SinglePriced, SingleRows, OutputComplete,
     vars, runtime, arguments, arrays
<1> QED
  BY <1>1, <1>2, <1>3, <1>4, <1>5, <1>6, NextCases

\* The build of the Makefile writes the price of every option, whatever the
\* number of options, the size of the ring and the number of pricers.
THEOREM SingleThreadCorrect == Spec => []SingleThreadComplete
<1>1. IndInv /\ SoundInv /\ SingleInv /\ [Next]_vars => SingleInv'
  BY SingleNext
<1>2. SingleInv => SingleThreadComplete
  BY DEF SingleInv, SingleNow, SingleRows, SingleThreadComplete
<1> QED
  BY <1>1, <1>2, SingleInit, IndCorrect, SoundCorrect, PTL DEF Spec

-----------------------------------------------------------------------------
(* The builds in which tstore starts a thread.                             *)

\* An index of the ring, reduced.
LEMMA ModUnique ==
  ASSUME NEW m \in Nat \ {0}, NEW k \in Nat, NEW r \in 0 .. m - 1
  PROVE  (m * k + r) % m = r
OBVIOUS

LEMMA NextSlotCases ==
  ASSUME NEW s \in Slots
  PROVE  NextSlot(s) = IF s + 1 = EQ_MAX THEN 0 ELSE s + 1
<1>1. EQ_MAX \in Nat \ {0} /\ s \in 0 .. EQ_MAX - 1
  BY ConstantFacts DEF Slots
<1>2. CASE s + 1 = EQ_MAX
  <2>1. (EQ_MAX * 1 + 0) % EQ_MAX = 0
    BY <1>1, ModUnique
  <2> QED
    BY <1>1, <1>2, <2>1 DEF NextSlot
<1>3. CASE s + 1 # EQ_MAX
  <2>1. (EQ_MAX * 0 + (s + 1)) % EQ_MAX = s + 1
    BY <1>1, <1>3, ModUnique
  <2> QED
    BY <1>1, <1>3, <2>1 DEF NextSlot
<1> QED
  BY <1>2, <1>3

\* EQ_tail is n reduced: the ring has come round some k times.
TailAt(n) == \E k \in Nat : n = EQ_MAX * k + EQ_tail

\* The head never moves, no thread polls, and what a thread works on is the
\* entry at the head.
HeadStays ==
  /\ EQ_head = 0
  /\ pc \notin {"mark", "wait", "fields", "called", "release"}
  /\ pc = "create" => instance = 0
  /\ tpc["main"] = "none"
  /\ \A t \in Threads :
       /\ tpc[t] \notin {"poll", "peek", "take", "grab", "running", "call", "idle"}
       /\ cur[t] = 0

\* Where the next event goes.
TailFollows ==
  /\ pc \in {"start", "argv", "input", "rows"} => EQ_tail = 0
  /\ pc \in {"fill", "tstore", "func", "args", "valid", "tail"} => TailAt(i)
  /\ pc \in {"spawn", "create", "posted"} => TailAt(i + 1)

\* So the entry at the head only ever holds every EQ_MAX-th option.
HeadHolds ==
  /\ EQ[0].args % EQ_MAX = 0
  /\ \A t \in Threads : tpc[t] \in {"price", "store"} => opt[t] % EQ_MAX = 0

HeadNow == HeadStays /\ TailFollows /\ HeadHolds

HeadInv == build \in {"SPAWN", "TAIL_RECURSION"} => HeadNow

LEMMA HeadInit == Init => HeadInv
<1> SUFFICES ASSUME Init PROVE HeadNow
  BY DEF HeadInv
<1>1. (EQ_MAX * 0 + 0) % EQ_MAX = 0
  BY ConstantFacts, ModUnique
<1>2. EQ[0].args = 0
  BY SlotRange DEF Init, RuntimeInit
<1>3. HeadStays /\ HeadHolds
  BY <1>1, <1>2, ConstantFacts DEF Init, RuntimeInit, HeadStays, HeadHolds
<1>4. TailFollows
  BY DEF Init, RuntimeInit, TailFollows
<1> QED
  BY <1>3, <1>4 DEF HeadNow

LEMMA HeadMain ==
  ASSUME IndInv, build \in {"SPAWN", "TAIL_RECURSION"}, HeadNow, MainMove
  PROVE  HeadNow'
<1>0. /\ HeadStays /\ TailFollows /\ HeadHolds /\ TypeOK
      /\ NotTheRuntime /\ UNCHANGED <<opt, price>>
  BY MainFrame DEF HeadNow, IndInv
<1>1. UNCHANGED tpc
  BY DEF MainMove, Polling, StartWorker, ExitWithError, ReadArguments, ReadCount, ReadRow, CloseInput, FillArrays, NextOption, AllPosted, CreatePricer, WaitForEnd, OpenOutput, WriteRow, CloseOutput
<1>2. HeadStays' /\ HeadHolds'
  <2>1. pc' \notin {"mark", "wait", "fields", "called", "release", "create"}
    BY <1>0 DEF MainMove, Goto, HeadStays, StartWorker, ExitWithError, ReadArguments, ReadCount, ReadRow, CloseInput, FillArrays, NextOption, AllPosted, CreatePricer, WaitForEnd, OpenOutput, WriteRow, CloseOutput
  <2> QED
    BY <1>0, <1>1, <2>1 DEF HeadStays, HeadHolds, NotTheRuntime
<1>3. TailFollows'
  <2> USE DEF TailFollows, TailAt, Goto, NotTheRuntime, TypeOK
  <2>2. CASE StartWorker
    BY <1>0, <1>1, <2>2 DEF StartWorker
  <2>3. CASE ExitWithError
    BY <1>0, <1>1, <2>3 DEF ExitWithError
  <2>4. CASE ReadArguments
    BY <1>0, <1>1, <2>4 DEF ReadArguments
  <2>5. CASE ReadCount
    BY <1>0, <1>1, <2>5 DEF ReadCount
  <2>6. CASE ReadRow
    BY <1>0, <1>1, <2>6 DEF ReadRow
  <2>7. CASE CloseInput
    <3>1. EQ_tail' = 0 /\ i' = 0 /\ pc' = "fill"
      BY <1>0, <2>7 DEF CloseInput
    <3>2. i' = EQ_MAX * 0 + EQ_tail'
      BY <3>1, ConstantFacts
    <3> QED
      BY <3>1, <3>2
  <2>8. CASE FillArrays
    BY <1>0, <1>1, <2>8 DEF FillArrays
  <2>9. CASE NextOption
    BY <1>0, <1>1, <2>9 DEF NextOption
  <2>10. CASE AllPosted
    BY <1>0, <1>1, <2>10 DEF AllPosted
  <2>11. CASE CreatePricer
    BY <1>0, <1>1, <2>11 DEF CreatePricer
  <2>12. CASE WaitForEnd
    BY <1>0, <1>1, <2>12 DEF WaitForEnd
  <2>13. CASE OpenOutput
    BY <1>0, <1>1, <2>13 DEF OpenOutput
  <2>14. CASE WriteRow
    BY <1>0, <1>1, <2>14 DEF WriteRow
  <2>15. CASE CloseOutput
    BY <1>0, <1>1, <2>15 DEF CloseOutput
  <2> QED
    BY <2>2, <2>3, <2>4, <2>5, <2>6, <2>7, <2>8, <2>9, <2>10, <2>11, <2>12, <2>13, <2>14, <2>15 DEF MainMove
<1> QED
  BY <1>2, <1>3 DEF HeadNow

LEMMA HeadPost ==
  ASSUME IndInv, build \in {"SPAWN", "TAIL_RECURSION"}, HeadNow, InTstore
  PROVE  HeadNow'
<1>0. /\ HeadStays /\ TailFollows /\ HeadHolds
      /\ EQ \in [Slots -> [valid : 0 .. 2, state : BOOLEAN, func : BOOLEAN, args : Args]]
      /\ EQ_tail \in Slots /\ instance \in Slots /\ 0 \in Slots
      /\ tpc \in [Runners -> Places] /\ cur \in [Runners -> Slots]
      /\ "main" \in Runners /\ "main" \notin Threads /\ Threads \subseteq Runners
      /\ i \in Options /\ i \in Args
      /\ pc' \in Posting /\ pc \in Posting \ {"posted"}
      /\ UNCHANGED <<build, arguments, i, arrays, rows, exit, opt, price, bs>>
  BY InTstorePosts, PostFrame, ConstantFacts, SlotRange DEF HeadNow, IndInv, TypeOK, RuntimeTypeOK, Places
<1> USE DEF HeadNow, HeadStays, TailFollows, HeadHolds, TailAt, Goto, ThreadGoto, Start, Polling,
            RunsInstance, Posting
<1>1. CASE ReadState
  BY <1>0, <1>1 DEF ReadState
<1>2. CASE MarkState
  BY <1>0, <1>2 DEF MarkState
<1>3. CASE InvalidateState
  BY <1>0, <1>3 DEF InvalidateState
<1>4. CASE WaitForEntry
  BY <1>0, <1>4 DEF WaitForEntry
<1>5. CASE StoreState
  BY <1>0, <1>5 DEF StoreState
<1>6. CASE StoreFunc
  BY <1>0, <1>6 DEF StoreFunc
<1>7. CASE StoreArgs(i)
  <2>1. /\ EQ' = [EQ EXCEPT ![EQ_tail].args = i]
        /\ UNCHANGED <<tpc, cur, EQ_head, EQ_tail, instance>> /\ pc = "args" /\ pc' = "valid"
    BY <1>7 DEF StoreArgs
  <2>2. EQ_tail = 0 => i % EQ_MAX = 0
    BY <1>0, <2>1, ConstantFacts, ModUnique
  <2>3. EQ'[0].args = IF EQ_tail = 0 THEN i ELSE EQ[0].args
    BY <1>0, <2>1
  <2>4. HeadHolds'
    BY <1>0, <2>1, <2>2, <2>3
  <2> QED
    BY <1>0, <2>1, <2>4
<1>8. CASE StoreValid
  BY <1>0, <1>8 DEF StoreValid
<1>9. CASE StoreTail
  <2>1. /\ EQ_tail' = NextSlot(EQ_tail) /\ instance' = EQ_tail
        /\ UNCHANGED <<EQ, EQ_head, tpc, cur>> /\ pc = "tail" /\ pc' = "spawn"
    BY <1>0, <1>9 DEF StoreTail
  <2>2. PICK k \in Nat : i = EQ_MAX * k + EQ_tail
    BY <1>0, <2>1
  <2>3. EQ_MAX \in Nat \ {0} /\ EQ_tail \in Nat
    BY <1>0, ConstantFacts DEF Slots
  <2>4. CASE EQ_tail + 1 = EQ_MAX
    <3>1. i + 1 = EQ_MAX * (k + 1) + EQ_tail'
      BY <1>0, <2>1, <2>2, <2>3, <2>4, NextSlotCases
    <3> QED
      BY <1>0, <2>1, <3>1
  <2>5. CASE EQ_tail + 1 # EQ_MAX
    <3>1. i + 1 = EQ_MAX * k + EQ_tail'
      BY <1>0, <2>1, <2>2, <2>3, <2>5, NextSlotCases
    <3> QED
      BY <1>0, <2>1, <3>1
  <2> QED
    BY <2>4, <2>5
<1>10. CASE NotAtHead
  BY <1>0, <1>10 DEF NotAtHead
<1>11. CASE MarkSpawning
  BY <1>0, <1>11 DEF MarkSpawning
<1>12. CASE CallSupport
  BY <1>0, <1>12 DEF CallSupport
<1>13. CASE SupportReturned
  BY <1>0, <1>13 DEF SupportReturned
<1>14. CASE ReleaseInstance
  BY <1>0, <1>14 DEF ReleaseInstance
<1>15. CASE \E t \in Threads : SpawnThread(t)
  BY <1>0, <1>15 DEF SpawnThread
<1> QED
  BY <1>1, <1>2, <1>3, <1>4, <1>5, <1>6, <1>7, <1>8, <1>9, <1>10, <1>11, <1>12, <1>13, <1>14, <1>15 DEF InTstore, PostStep

\* A thread works on the entry at the head, and starts the next one for it.
LEMMA HeadSupport ==
  ASSUME IndInv, build \in {"SPAWN", "TAIL_RECURSION"}, HeadNow,
         NEW r \in Runners, SupportFunction(r)
  PROVE  HeadNow'
<1>0. /\ HeadStays /\ TailFollows /\ HeadHolds
      /\ tpc \in [Runners -> Places] /\ cur \in [Runners -> Slots] /\ opt \in [Runners -> Options]
      /\ UNCHANGED <<build, pc, arguments, i, filled, rows, exit, bs>>
      /\ 0 \in Slots /\ "main" \notin Threads /\ Threads \subseteq Runners
  BY SupportFrame, SlotRange, ConstantFacts DEF HeadNow, IndInv, TypeOK, RuntimeTypeOK, Places
<1>1. r \in Threads /\ tpc[r] # "none"
  <2>1. tpc[r] # "none"
    BY DEF SupportFunction, LoadArgs, ComputeEvent, StorePrice, Return, Validate, ClearValid,
       DttReturn, CheckHead, ValidateLast, ChainHere, ChainThread, ThreadGoto
  <2> QED
    BY <1>0, <2>1 DEF HeadStays, Runners
<1>2. EQ'[0].args = EQ[0].args /\ cur[r] = 0
  BY <1>0, <1>1, ArgsKept DEF HeadStays
<1> USE DEF HeadNow, HeadStays, TailFollows, HeadHolds, TailAt, ThreadGoto, arguments, arrays
<1>3. CASE LoadArgs(r)
  BY <1>0, <1>1, <1>2, <1>3 DEF LoadArgs
<1>4. CASE ComputeEvent(r)
  BY <1>0, <1>1, <1>2, <1>4 DEF ComputeEvent
<1>5. CASE StorePrice(r)
  BY <1>0, <1>1, <1>2, <1>5 DEF StorePrice
<1>6. CASE Return(r)
  <2>1. UNCHANGED <<opt, EQ_head, EQ_tail, instance>>
    BY <1>6, ReturnFrame DEF Return, ClearValid, DttReturn, CheckHead, ValidateLast, ChainHere,
       ChainThread
  <2>2. /\ \/ \E to \in {"check", "clear", "finish", "last", "chain", "load"} :
                tpc' = [tpc EXCEPT ![r] = to]
           \/ \E t \in Threads : tpc' = [tpc EXCEPT ![r] = "clear", ![t] = "load"]
        /\ cur' = cur \/ \E t \in Threads : cur' = [cur EXCEPT ![t] = 0]
    <3>1. CASE ClearValid(r, "release", IF build = "SPAWN" THEN "check" ELSE "clear")
      BY <3>1 DEF ClearValid
    <3>2. CASE ClearValid(r, "clear", "finish")
      BY <3>2 DEF ClearValid
    <3>3. CASE CheckHead(r)
      BY <3>3 DEF CheckHead
    <3>4. CASE ValidateLast(r) \/ ChainHere(r)
      BY <1>0, <1>1, <3>4 DEF ValidateLast, ChainHere
    <3>5. CASE \E t \in Threads : ChainThread(r, t)
      BY <1>0, <3>5 DEF ChainThread
    <3> QED
      BY <1>6, <3>1, <3>2, <3>3, <3>4, <3>5 DEF Return, DttReturn
  <2>3. HeadStays'
    <3>1. \A t \in Threads : cur'[t] = 0
      BY <1>0, <2>2
    <3>2. \A t \in Threads : tpc'[t] \notin {"poll", "peek", "take", "grab", "running", "call", "idle"}
      BY <1>0, <1>1, <2>2
    <3>3. tpc'["main"] = "none"
      BY <1>0, <1>1, <2>2, ConstantFacts
    <3> QED
      BY <1>0, <2>1, <3>1, <3>2, <3>3
  <2>4. HeadHolds'
    BY <1>0, <1>1, <1>2, <2>1, <2>2
  <2> QED
    BY <1>0, <2>1, <2>3, <2>4
<1>7. CASE Validate(r)
  BY <1>0, <1>1, <1>2, <1>7 DEF Validate
<1> QED
  BY <1>3, <1>4, <1>5, <1>6, <1>7 DEF SupportFunction

\* dtt() with tail recursion goes back to the same entry.
LEMMA HeadLoop ==
  ASSUME IndInv, build \in {"SPAWN", "TAIL_RECURSION"}, HeadNow, NEW t \in Threads, Dtt(t)
  PROVE  HeadNow'
<1>0. /\ HeadStays /\ TailFollows /\ HeadHolds
      /\ tpc \in [Runners -> Places] /\ cur \in [Runners -> Slots]
      /\ 0 \in Slots /\ "main" \notin Threads /\ Threads \subseteq Runners
      /\ EQ'[0].args = EQ[0].args
      /\ UNCHANGED <<build, pc, arguments, i, opt>>
  BY LoopFrame, ArgsKept, SlotRange, ConstantFacts DEF HeadNow, IndInv, TypeOK, RuntimeTypeOK, Places
<1> USE DEF HeadNow, HeadStays, TailFollows, HeadHolds, TailAt, ThreadGoto, Polling
<1>1. CASE PollTail(t) \/ PollValid(t) \/ TakeEntry(t) \/ MarkRunning(t)
  BY <1>0, <1>1 DEF PollTail, PollValid, TakeEntry, MarkRunning
<1>2. CASE StoreRunning(t) \/ CallFunc(t) \/ AdvanceHead(t) \/ Idle(t)
  BY <1>0, <1>2 DEF StoreRunning, CallFunc, AdvanceHead, Idle
<1>3. CASE TailTest(t)
  BY <1>0, <1>3 DEF TailTest
<1>4. CASE TailRuns(t)
  BY <1>0, <1>4 DEF TailRuns
<1>5. CASE TailNext(t)
  BY <1>0, <1>5 DEF TailNext
<1>6. CASE TailExits(t)
  BY <1>0, <1>6 DEF TailExits
<1> QED
  BY <1>1, <1>2, <1>3, <1>4, <1>5, <1>6 DEF Dtt, LoopStep

LEMMA HeadNext == ASSUME IndInv, [Next]_vars, HeadInv PROVE HeadInv'
<1> SUFFICES ASSUME build \in {"SPAWN", "TAIL_RECURSION"} PROVE HeadNow'
  BY BuildKept DEF HeadInv
<1>0. HeadNow
  BY DEF HeadInv
<1>1. CASE MainMove
  BY <1>0, <1>1, HeadMain
<1>2. CASE InTstore
  BY <1>0, <1>2, HeadPost
<1>3. ASSUME NEW r \in Runners, SupportFunction(r) PROVE HeadNow'
  BY <1>0, <1>3, HeadSupport
<1>4. ASSUME NEW t \in Threads, Dtt(t) PROVE HeadNow'
  BY <1>0, <1>4, HeadLoop
<1>5. CASE (\E p \in Pricers : BsThread(p)) \/ UNCHANGED vars
  BY <1>0, <1>5, PricerMoves DEF HeadNow, HeadStays, TailFollows, HeadHolds, TailAt, vars, runtime
<1> QED
  BY <1>1, <1>2, <1>3, <1>4, <1>5, NextCases

\* However large the ring and however the threads start each other, the builds
\* that start a thread from tstore price only the options at multiples of
\* EQ_MAX by events: EQ_head never moves.
THEOREM HeadCorrect == Spec => []HeadEventsOnly
<1>1. IndInv /\ HeadInv /\ [Next]_vars => HeadInv'
  BY HeadNext
<1>2. HeadInv => HeadEventsOnly
  BY DEF HeadInv, HeadNow, HeadHolds, HeadEventsOnly
<1> QED
  BY <1>1, <1>2, HeadInit, IndCorrect, PTL DEF Spec

-----------------------------------------------------------------------------
(* The NODTT build without a thread: the pricers alone.                    *)

\* In a NODTT build tstore marks and spawns nothing, and a dtt() thread that
\* was started never ends.
NoSpawn ==
  /\ pc \notin {"mark", "wait", "spawn", "create", "called", "release"}
  /\ tpc["main"] = "none"
  /\ \A t \in Threads : tpc[t] \notin {"loop", "tailrun", "done"}

\* An option of a pricer's share has its price when the pricer is past it, in
\* its first round or a later one.
Past(p, o) == bs[p].at = "done" \/ bs[p].j > 0 \/ o < bs[p].i

SharesPriced ==
  \A p \in Pricers :
    /\ bs[p].at \in {"test", "compute", "store"} => p * Share <= bs[p].i /\ bs[p].i < (p + 1) * Share
    /\ bs[p].at \in {"test", "compute", "store", "done"} =>
         \A o \in p * Share .. (p + 1) * Share - 1 : Past(p, o) => prices[o] = o

\* Nobody prices an option before there are pricers, or outside their shares.
RestUnpriced ==
  /\ pc \notin Pricing \cup {"done"} => \A o \in Options : prices[o] = -1
  /\ pc \in Pricing =>
       \A o \in Options : nThreads = 0 \/ nThreads * Share <= o => prices[o] = -1

\* main writes when the pricers are done, and writes their prices.
AllDone == \A p \in 0 .. nThreads - 1 : bs[p].at = "done"
PriceAlone(k) == IF nThreads > 0 /\ k <= nThreads * Share THEN k - 1 ELSE -1

AloneRows ==
  /\ pc \in {"output", "write"} => \A p \in Pricers : bs[p].at \in {"none", "done"}
  /\ pc # "done" => exit = -1
  /\ pc = "write" /\ AllDone => \A k \in DOMAIN rows : rows[k] = PriceAlone(k)
  /\ exit = 0 /\ AllDone => rows = [k \in 1 .. numOptions |-> PriceAlone(k)]

AloneNow == state = 0 /\ SharesPriced /\ RestUnpriced /\ AloneRows

AloneInv ==
  build = "NODTT" => NoSpawn /\ ((\A t \in Threads : tpc[t] = "none") => AloneNow)

LEMMA SpawnNext ==
  ASSUME IndInv, build = "NODTT", NoSpawn, [Next]_vars
  PROVE  NoSpawn' /\ \A t \in Threads : tpc'[t] = "none" => tpc[t] = "none"
<1>0. tpc \in [Runners -> Places] /\ "main" \in Runners /\ "main" \notin Threads /\ Threads \subseteq Runners
  BY ConstantFacts DEF IndInv, TypeOK, RuntimeTypeOK, Places
<1>1. CASE MainMove
  <2>1. tpc' = tpc \/ \E t \in Threads : tpc' = [tpc EXCEPT ![t] = "poll"]
    BY <1>1 DEF MainMove, StartWorker, ExitWithError, ReadArguments, ReadCount, ReadRow, CloseInput,
       FillArrays, NextOption, AllPosted, CreatePricer, WaitForEnd, OpenOutput, WriteRow, CloseOutput
  <2>2. pc' \notin {"mark", "wait", "spawn", "create", "called", "release"}
    BY <1>1 DEF NoSpawn, MainMove, Goto, StartWorker, ExitWithError, ReadArguments, ReadCount, ReadRow,
       CloseInput, FillArrays, NextOption, AllPosted, CreatePricer, WaitForEnd, OpenOutput, WriteRow,
       CloseOutput
  <2> QED
    BY <1>0, <2>1, <2>2 DEF NoSpawn
<1>2. CASE InTstore
  <2>1. UNCHANGED tpc /\ pc' \notin {"mark", "wait", "spawn", "create", "called", "release"}
    BY <1>2 DEF NoSpawn, Goto, Polling, InTstore, PostStep, ReadState, MarkState, InvalidateState,
       WaitForEntry, StoreState, StoreFunc, StoreArgs, StoreValid, StoreTail, NotAtHead, MarkSpawning,
       CallSupport, SupportReturned, ReleaseInstance, SpawnThread
  <2> QED
    BY <2>1 DEF NoSpawn
<1>3. ASSUME NEW r \in Runners, SupportFunction(r)
      PROVE  NoSpawn' /\ \A t \in Threads : tpc'[t] = "none" => tpc[t] = "none"
  <2>1. UNCHANGED pc /\ tpc[r] # "none"
    BY <1>3, SupportFrame DEF SupportFunction, LoadArgs, ComputeEvent, StorePrice, Return, Validate,
       ClearValid, DttReturn, CheckHead, ValidateLast, ChainHere, ChainThread, ThreadGoto
  <2>2. \/ \E to \in Places \ {"none", "loop", "tailrun", "done"} : tpc' = [tpc EXCEPT ![r] = to]
        \/ \E t \in Threads : tpc[t] = "none" /\ tpc' = [tpc EXCEPT ![r] = "clear", ![t] = "load"]
    <3> USE DEF Places, ThreadGoto
    <3>1. CASE LoadArgs(r) \/ ComputeEvent(r) \/ StorePrice(r) \/ Validate(r)
      BY <3>1 DEF LoadArgs, ComputeEvent, StorePrice, Validate
    <3>2. CASE Return(r)
      BY <3>2 DEF Return, ClearValid, DttReturn, CheckHead, ValidateLast, ChainHere, ChainThread
    <3> QED
      BY <1>3, <3>1, <3>2 DEF SupportFunction
  <2> QED
    BY <1>0, <2>1, <2>2 DEF NoSpawn
<1>4. ASSUME NEW t \in Threads, Dtt(t)
      PROVE  NoSpawn' /\ \A u \in Threads : tpc'[u] = "none" => tpc[u] = "none"
  <2>1. UNCHANGED pc
    BY <1>4, LoopFrame
  <2>2. \E to \in Places \ {"none", "loop", "tailrun", "done"} : tpc' = [tpc EXCEPT ![t] = to]
    <3> USE DEF Places, ThreadGoto
    <3>1. CASE PollTail(t) \/ PollValid(t) \/ TakeEntry(t) \/ MarkRunning(t)
      BY <3>1 DEF PollTail, PollValid, TakeEntry, MarkRunning
    <3>2. CASE StoreRunning(t) \/ CallFunc(t) \/ AdvanceHead(t) \/ Idle(t)
      BY <3>2 DEF StoreRunning, CallFunc, AdvanceHead, Idle
    <3>3. CASE TailTest(t) \/ TailRuns(t) \/ TailNext(t) \/ TailExits(t)
      BY <3>3 DEF NoSpawn, TailTest, TailRuns, TailNext, TailExits
    <3> QED
      BY <1>4, <3>1, <3>2, <3>3 DEF Dtt, LoopStep
  <2> QED
    BY <1>0, <2>1, <2>2 DEF NoSpawn
<1>5. CASE (\E p \in Pricers : BsThread(p)) \/ UNCHANGED vars
  BY <1>5, PricerMoves DEF NoSpawn, vars, runtime
<1> QED
  BY <1>1, <1>2, <1>3, <1>4, <1>5, NextCases

\* The shares lie side by side: each option up to the last share is in one.
LEMMA ShareOf ==
  ASSUME NEW n \in Nat, NEW c \in Nat \ {0}, NEW o \in Nat, o < n * c
  PROVE  \E p \in 0 .. n - 1 : p * c <= o /\ o < (p + 1) * c
<1> DEFINE p == o \div c
<1>1. p \in Nat /\ c * p <= o /\ o < c * p + c
  OBVIOUS
<1> HIDE DEF p
<1>2. p * c <= o /\ o < (p + 1) * c
  BY <1>1
<1>3. ASSUME n <= p PROVE FALSE
  <2>1. n * c <= p * c /\ n * c \in Nat /\ p * c \in Nat
    BY <1>1, <1>3, Monotone
  <2> QED
    BY <1>2, <2>1
<1> QED
  BY <1>1, <1>2, <1>3

\* The options of a share are options.
LEMMA ShareOptions ==
  ASSUME IndInv, NEW p \in Pricers, bs[p].at # "none", NEW o \in p * Share .. (p + 1) * Share - 1
  PROVE  o \in Options
BY ShareBounds, ConstantFacts DEF IndInv, TypeOK, Options

\* What main writes when all pricers are done.
LEMMA WrittenAlone ==
  ASSUME IndInv, SharesPriced, RestUnpriced, AllDone, pc = "write", i < numOptions
  PROVE  prices[i] = PriceAlone(i + 1)
<1>1. /\ i \in Options /\ i \in Nat /\ nThreads \in Nat /\ numOptions \in Nat
      /\ nThreads <= numOptions /\ nThreads <= MaxThreads /\ MaxThreads \in Nat
  BY ConstantFacts DEF IndInv, TypeOK, MainInv, Options
<1>2. CASE nThreads > 0 /\ i + 1 <= nThreads * Share
  <2>1. Share \in Nat \ {0} /\ nThreads * Share \in Nat
    BY <1>1, <1>2, ShareRange
  <2> DEFINE c == Share
  <2> HIDE DEF c
  <2>2. c \in Nat \ {0} /\ i < nThreads * c
    BY <1>1, <1>2, <2>1 DEF c
  <2>3. PICK p \in 0 .. nThreads - 1 : p * c <= i /\ i < (p + 1) * c
    BY <1>1, <2>2, ShareOf
  <2>4. p \in Pricers /\ bs[p].at = "done" /\ p * Share \in Nat /\ (p + 1) * Share \in Nat
    BY <1>1, <2>1, <2>3 DEF Pricers, AllDone
  <2>5. i \in p * Share .. (p + 1) * Share - 1
    BY <1>1, <2>3, <2>4 DEF c
  <2>6. prices[i] = i
    BY <2>4, <2>5 DEF SharesPriced, Past
  <2> QED
    BY <1>1, <1>2, <2>6 DEF PriceAlone
<1>3. CASE ~(nThreads > 0 /\ i + 1 <= nThreads * Share)
  <2>1. nThreads = 0 \/ nThreads * Share <= i
    <3>1. nThreads # 0 => nThreads * Share \in Nat
      BY <1>1, ShareRange
    <3> QED
      BY <1>1, <1>3, <3>1
  <2>2. prices[i] = -1
    BY <1>1, <2>1 DEF RestUnpriced, Pricing
  <2> QED
    BY <1>3, <2>2 DEF PriceAlone
<1> QED
  BY <1>2, <1>3

LEMMA AloneInit == Init => AloneInv
<1> SUFFICES ASSUME Init PROVE NoSpawn /\ AloneNow
  BY DEF AloneInv
<1>1. NoSpawn
  BY ConstantFacts DEF Init, RuntimeInit, NoSpawn
<1>2. state = 0 /\ SharesPriced
  BY DEF Init, RuntimeInit, SharesPriced
<1>3. RestUnpriced /\ AloneRows
  BY DEF Init, RuntimeInit, RestUnpriced, Pricing, AloneRows
<1> QED
  BY <1>1, <1>2, <1>3 DEF AloneNow

\* main creates the pricers and writes what they have computed.
LEMMA AloneMain ==
  ASSUME IndInv, SoundInv, AloneNow, MainMove
  PROVE  AloneNow'
<1>0. /\ SharesPriced /\ RestUnpriced /\ AloneRows /\ TypeOK /\ MainInv /\ RowsInv
      /\ state = 0 /\ NotTheRuntime
  BY MainFrame DEF AloneNow, IndInv, SoundInv
<1>1. state' = 0
  BY <1>0 DEF NotTheRuntime
<1>2. UNCHANGED prices
  BY DEF MainMove, arrays, StartWorker, ExitWithError, ReadArguments, ReadCount, ReadRow, CloseInput,
     FillArrays, NextOption, AllPosted, CreatePricer, WaitForEnd, OpenOutput, WriteRow, CloseOutput
<1>3. SharesPriced'
  <2>1. CASE CreatePricer
    <3>1. UNCHANGED Share /\ (bs' = bs \/ bs' = [bs EXCEPT ![i] = [@ EXCEPT !.at = "barrier"]])
      BY <2>1 DEF CreatePricer, arguments, Share
    <3>2. bs \in [Pricers -> PricerRecord]
      BY <1>0 DEF TypeOK, PricerRecord
    <3>3. \A p \in Pricers : [bs[p] EXCEPT !.at = "barrier"].at = "barrier"
      BY <3>2, SetAt
    <3>4. \A p \in Pricers : bs'[p] = bs[p] \/ bs'[p].at = "barrier"
      BY <3>1, <3>2, <3>3
    <3> QED
      BY <1>0, <1>2, <3>1, <3>4 DEF SharesPriced, Past
  <2>2. CASE ReadArguments \/ ReadCount
    <3>1. \A p \in Pricers : bs'[p].at = "none"
      BY <2>2 DEF IndInv, PricerInv, ReadArguments, ReadCount, Pricing, Goto
    <3> QED
      BY <3>1 DEF SharesPriced
  <2>3. CASE UNCHANGED <<arguments, bs>>
    BY <1>0, <1>2, <2>3 DEF SharesPriced, Past, Share, arguments
  <2> QED
    BY <2>1, <2>2, <2>3 DEF MainMove, arguments, StartWorker, ExitWithError, ReadRow, CloseInput,
       FillArrays, NextOption, AllPosted, WaitForEnd, OpenOutput, WriteRow, CloseOutput
<1>4. RestUnpriced'
  <2>1. CASE pc' \in Pricing \/ pc' = "done"
    <3>1. CASE UNCHANGED arguments
      <4>1. pc \in Pricing \/ pc' = "done" \/ pc = "fill"
        BY <2>1 DEF MainMove, Goto, Pricing, StartWorker, ExitWithError, ReadArguments, ReadCount,
           ReadRow, CloseInput, FillArrays, NextOption, AllPosted, CreatePricer, WaitForEnd, OpenOutput,
           WriteRow, CloseOutput
      <4> QED
        BY <1>0, <1>2, <2>1, <3>1, <4>1 DEF RestUnpriced, Pricing, Share, arguments
    <3>2. CASE ReadArguments \/ ReadCount
      BY <2>1, <3>2 DEF ReadArguments, ReadCount, Goto, Pricing, RestUnpriced
    <3> QED
      BY <3>1, <3>2 DEF MainMove, arguments, StartWorker, ExitWithError, ReadRow, CloseInput,
         FillArrays, NextOption, AllPosted, CreatePricer, WaitForEnd, OpenOutput, WriteRow, CloseOutput
  <2>2. CASE pc' \notin Pricing \cup {"done"}
    <3>1. pc \notin Pricing \cup {"done"}
      BY <2>2 DEF MainMove, Goto, Pricing, StartWorker, ExitWithError, ReadArguments, ReadCount,
         ReadRow, CloseInput, FillArrays, NextOption, AllPosted, CreatePricer, WaitForEnd, OpenOutput,
         WriteRow, CloseOutput
    <3> QED
      BY <1>0, <1>2, <2>2, <3>1 DEF RestUnpriced
  <2> QED
    BY <2>1, <2>2
<1>5. AloneRows'
  <2> USE DEF AloneRows, AllDone, PriceAlone, Share, Goto, RowsInv, arguments
  <2>1. CASE StartWorker \/ ReadRow \/ CloseInput \/ FillArrays \/ NextOption \/ AllPosted
    BY <1>0, <2>1 DEF StartWorker, ReadRow, CloseInput, FillArrays, NextOption, AllPosted
  <2>2. CASE ExitWithError
    BY <1>0, <2>2 DEF ExitWithError
  <2>3. CASE ReadArguments \/ ReadCount
    BY <1>0, <2>3 DEF ReadArguments, ReadCount
  <2>4. CASE CreatePricer
    BY <1>0, <2>4 DEF CreatePricer
  <2>5. CASE WaitForEnd
    BY <1>0, <2>5 DEF WaitForEnd
  <2>6. CASE OpenOutput
    BY <1>0, <2>6 DEF OpenOutput
  <2>7. CASE WriteRow
    <3>1. /\ rows \in Seq(Options \cup {-2, -1}) /\ Len(rows) = i /\ i \in Nat
          /\ prices \in [Options -> Options \cup {-2, -1}] /\ i \in Options
          /\ rows' = Append(rows, prices[i])
      BY <1>0, <2>7, ConstantFacts DEF WriteRow, TypeOK, Options
    <3>2. ASSUME AllDone, NEW k \in DOMAIN rows' PROVE rows'[k] = PriceAlone(k)
      <4>1. prices[i] = PriceAlone(i + 1)
        <5> HIDE DEF AllDone, PriceAlone, Share
        <5> QED
          BY <1>0, <2>7, <3>2, WrittenAlone DEF WriteRow
      <4> HIDE DEF PriceAlone
      <4>2. DOMAIN rows = 1 .. i /\ DOMAIN rows' = 1 .. i + 1
        BY <3>1
      <4>3. CASE k = i + 1
        BY <3>1, <4>1, <4>3
      <4>4. CASE k \in 1 .. i
        <5>1. rows'[k] = rows[k]
          BY <3>1, <4>4
        <5> QED
          BY <1>0, <2>7, <3>2, <4>2, <4>4, <5>1 DEF WriteRow
      <4> QED
        BY <3>1, <3>2, <4>2, <4>3, <4>4
    <3>3. AllDone' = AllDone /\ \A k : PriceAlone(k)' = PriceAlone(k)
      BY <2>7 DEF WriteRow
    <3> HIDE DEF AllDone, PriceAlone, Share
    <3> QED
      BY <1>0, <2>7, <3>2, <3>3 DEF WriteRow
  <2>8. CASE CloseOutput
    <3>1. rows \in Seq(Options \cup {-2, -1}) /\ Len(rows) = numOptions
      BY <1>0, <2>8 DEF CloseOutput, TypeOK
    <3>2. AllDone' = AllDone /\ \A k : PriceAlone(k)' = PriceAlone(k)
      BY <2>8 DEF CloseOutput
    <3> HIDE DEF AllDone, PriceAlone, Share
    <3>3. AllDone => rows = [k \in 1 .. numOptions |-> PriceAlone(k)]
      BY <1>0, <2>8, <3>1 DEF CloseOutput
    <3>4. rows' = rows /\ numOptions' = numOptions /\ pc' = "done"
      BY <2>8 DEF CloseOutput
    <3> QED
      BY <3>2, <3>3, <3>4
  <2> QED
    BY <2>1, <2>2, <2>3, <2>4, <2>5, <2>6, <2>7, <2>8 DEF MainMove
<1> QED
  BY <1>1, <1>3, <1>4, <1>5 DEF AloneNow

\* tstore only makes the state invalid.
LEMMA AlonePost ==
  ASSUME IndInv, build = "NODTT", NoSpawn, AloneNow, InTstore
  PROVE  AloneNow'
<1>1. state' = 0
  BY DEF AloneNow, NoSpawn, Goto, InTstore, PostStep, ReadState, MarkState, InvalidateState,
     WaitForEntry, StoreState, StoreFunc, StoreArgs, StoreValid, StoreTail, NotAtHead, MarkSpawning,
     CallSupport, SupportReturned, ReleaseInstance, SpawnThread
<1>2. /\ pc' \in Posting /\ pc \in Posting
      /\ UNCHANGED <<arguments, i, arrays, rows, exit, bs>>
  BY PostFrame, InTstorePosts
<1>3. SharesPriced' /\ RestUnpriced' /\ AloneRows'
  BY <1>2 DEF AloneNow, SharesPriced, RestUnpriced, AloneRows, Past, Share, AllDone, PriceAlone,
     Posting, Pricing, arguments, arrays
<1> QED
  BY <1>1, <1>3 DEF AloneNow

\* The options of a share when its pricer has stored a price and goes on.
LEMMA AdvancePast ==
  ASSUME IndInv, SoundInv, NEW p \in Pricers, bs[p].at = "store",
         bs[p].i < (p + 1) * Share, p * Share <= bs[p].i
  PROVE  /\ Advance(p).at \in {"test", "done"}
         /\ Advance(p).at = "test" => p * Share <= Advance(p).i /\ Advance(p).i < (p + 1) * Share
         /\ \A o \in p * Share .. (p + 1) * Share - 1 :
              Advance(p).at = "done" \/ Advance(p).j > 0 \/ o < Advance(p).i
                => Past(p, o) \/ o = bs[p].i
<1> DEFINE q == bs[p]
<1> DEFINE first == p * Share
<1> DEFINE end == (p + 1) * Share
<1>1. q \in PricerRecord
  BY DEF IndInv, TypeOK, PricerRecord
<1>2. first \in Nat /\ end \in Nat /\ first < end /\ first <= q.i /\ q.i < end /\ q.i \in Int /\ q.j \in Nat
  BY <1>1, ShareBounds DEF PricerRecord
<1> HIDE DEF q, first, end
<1>3. CASE q.i + 1 < end
  <2> DEFINE a == [q EXCEPT !.at = "test", !.i = @ + 1]
  <2>1. a.at = "test" /\ a.i = q.i + 1 /\ a.j = q.j
    BY <1>1, NextInShare
  <2>2. Advance(p) = a
    BY <1>3 DEF Advance, q, end
  <2> HIDE DEF a
  <2>3. \A o \in first .. end - 1 : a.j > 0 \/ o < a.i => q.j > 0 \/ o < q.i \/ o = q.i
    BY <1>2, <2>1
  <2> QED
    BY <1>2, <1>3, <2>1, <2>2, <2>3 DEF Past, q, first, end
<1>4. CASE ~(q.i + 1 < end) /\ q.j + 1 < NUM_RUNS
  <2> DEFINE a == [q EXCEPT !.at = "test", !.i = first, !.j = @ + 1]
  <2>0. first \in Int /\ q.j + 1 < NUM_RUNS
    BY <1>2, <1>4
  <2>1. a.at = "test" /\ a.i = first
    BY <1>1, <2>0, NextRound
  <2>2. Advance(p) = a
    BY <1>4 DEF Advance, q, first, end
  <2> HIDE DEF a
  <2>3. \A o \in first .. end - 1 : o < q.i \/ o = q.i
    BY <1>2, <1>4
  <2> QED
    BY <1>2, <2>1, <2>2, <2>3 DEF Past, q, first, end
<1>5. CASE ~(q.i + 1 < end) /\ ~(q.j + 1 < NUM_RUNS)
  <2> DEFINE a == [q EXCEPT !.at = "done"]
  <2>1. a.at = "done"
    BY <1>1, SetAt
  <2>2. Advance(p) = a
    BY <1>5 DEF Advance, q, first, end
  <2> HIDE DEF a
  <2>3. \A o \in first .. end - 1 : o < q.i \/ o = q.i
    BY <1>2, <1>5
  <2> QED
    BY <2>1, <2>2, <2>3 DEF Past, q, first, end
<1> QED
  BY <1>3, <1>4, <1>5

\* A pricer computes every option of its share: the state is never valid.
LEMMA AlonePricers ==
  ASSUME IndInv, SoundInv, [Next]_vars, Running, AloneNow, NEW p \in Pricers, BsThread(p)
  PROVE  AloneNow'
<1>0. /\ SharesPriced /\ RestUnpriced /\ AloneRows /\ LoopInv /\ state = 0
      /\ bs \in [Pricers -> PricerRecord] /\ prices \in [Options -> Options \cup {-2, -1}]
      /\ bs[p].at \in {"barrier", "test", "compute", "store"} /\ bs[p] \in PricerRecord
      /\ UNCHANGED <<runtime, arguments, i, filled, rows, exit>>
  BY PricerMoves DEF AloneNow, SoundInv, IndInv, TypeOK, PricerRecord
<1>1. pc = "pricers" /\ pc' = "pricers" /\ exit' = -1 /\ state' = 0 /\ UNCHANGED Share
  BY <1>0 DEF IndInv, MainInv, PricerInv, AloneRows, Running, Pricing, Share, runtime, arguments
<1>2. PICK q : bs' = [bs EXCEPT ![p] = q] /\ q \in PricerRecord
  BY PricerMoves
<1>3. q = bs'[p] /\ \A r \in Pricers \ {p} : bs'[r] = bs[r]
  BY <1>0, <1>2
<1>4. \A o \in Options : prices[o] = o => prices'[o] = o
  BY PriceKept
<1>5. /\ q.at \in {"test", "compute", "store"} => p * Share <= q.i /\ q.i < (p + 1) * Share
      /\ q.at \in {"test", "compute", "store", "done"} =>
           \A o \in p * Share .. (p + 1) * Share - 1 :
             q.at = "done" \/ q.j > 0 \/ o < q.i => prices'[o] = o
  <2>1. \A o \in p * Share .. (p + 1) * Share - 1 : o \in Options
    BY <1>0, ShareOptions
  <2>2. CASE PassBarrier(p)
    <3>1. q = [at |-> "test", j |-> 0, i |-> p * Share, price |-> -1]
      BY <1>0, <1>3, <2>2 DEF PassBarrier, PricerStep
    <3> QED
      BY <1>0, <3>1, ShareBounds
  <2>3. ASSUME bs[p].at \in {"test", "compute"}, q.at \in {"compute", "store"},
               q.i = bs[p].i, q.j = bs[p].j
        PROVE  /\ p * Share <= q.i /\ q.i < (p + 1) * Share
               /\ \A o \in p * Share .. (p + 1) * Share - 1 : q.j > 0 \/ o < q.i => prices'[o] = o
    BY <1>0, <1>4, <2>1, <2>3 DEF SharesPriced, Past
  <2>4. CASE TestState(p)
    <3>1. bs[p].at = "test" /\ q = [bs[p] EXCEPT !.at = "compute"]
      BY <1>0, <1>3, <2>4 DEF TestState, PricerStep
    <3>2. q.at = "compute" /\ q.i = bs[p].i /\ q.j = bs[p].j
      BY <1>0, <3>1, SetAt
    <3> QED
      BY <2>3, <3>1, <3>2
  <2>5. CASE Compute(p)
    <3> DEFINE new == BlkSchlsEqEuroNoDiv(bs[p].i)
    <3>1. bs[p].at = "compute" /\ q = [bs[p] EXCEPT !.at = "store", !.price = new]
      BY <1>0, <1>3, <2>5 DEF Compute, PricerStep
    <3>2. new \in Options \cup {-2, -1}
      BY <1>0, PriceRange DEF IndInv, PricerRecord
    <3> DEFINE b == [bs[p] EXCEPT !.at = "store"]
    <3>3. b \in PricerRecord /\ b.i = bs[p].i /\ b.j = bs[p].j /\ b.at = "store"
      BY <1>0, SetAt
    <3>4. q = [b EXCEPT !.price = new]
      BY <3>1
    <3> HIDE DEF b, new
    <3>5. q.at = "store" /\ q.i = bs[p].i /\ q.j = bs[p].j
      BY <3>2, <3>3, <3>4, SetPrice
    <3> QED
      BY <2>3, <3>1, <3>5
  <2>6. CASE Store(p)
    <3>1. /\ bs[p].at = "store" /\ q = Advance(p)
          /\ prices' = [prices EXCEPT ![bs[p].i] = bs[p].price]
      BY <1>0, <1>3, <2>6 DEF Store, PricerStep
    <3>2. p * Share <= bs[p].i /\ bs[p].i < (p + 1) * Share /\ bs[p].price = bs[p].i
      BY <1>0, <3>1 DEF SharesPriced, LoopInv
    <3>3. \A o \in p * Share .. (p + 1) * Share - 1 : Past(p, o) \/ o = bs[p].i => prices'[o] = o
      BY <1>0, <1>4, <2>1, <3>1, <3>2 DEF SharesPriced
    <3> QED
      BY <3>1, <3>2, <3>3, AdvancePast
  <2> QED
    BY <2>2, <2>4, <2>5, <2>6 DEF BsThread
<1>6. SharesPriced'
  <2>1. ASSUME NEW r \in Pricers, r # p, bs[r].at # "none",
               NEW o \in r * Share .. (r + 1) * Share - 1
        PROVE  o \in Options
    BY <2>1, ShareOptions
  <2> QED
    BY <1>0, <1>1, <1>3, <1>4, <1>5, <2>1 DEF SharesPriced, Past
<1>7. RestUnpriced'
  <2>1. prices' = prices \/ (bs[p].at = "store" /\ prices' = [prices EXCEPT ![bs[p].i] = bs[p].price])
    BY DEF BsThread, PassBarrier, TestState, Compute, Store, PricerStep
  <2>2. ASSUME bs[p].at = "store" PROVE nThreads # 0 /\ bs[p].i < nThreads * Share
    <3>1. /\ p \in Nat /\ p + 1 <= nThreads /\ nThreads \in Nat /\ Share \in Nat
          /\ bs[p].i < (p + 1) * Share /\ (p + 1) * Share \in Nat /\ bs[p].i \in Int
      BY <1>0, <2>2, SharePositive DEF SharesPriced, PricerRecord
    <3> DEFINE c == Share
    <3> HIDE DEF c
    <3>2. c \in Nat /\ bs[p].i < (p + 1) * c /\ (p + 1) * c \in Nat
      BY <3>1 DEF c
    <3>3. (p + 1) * c <= nThreads * c /\ nThreads * c \in Nat
      BY <3>1, <3>2, Monotone
    <3>4. bs[p].i < nThreads * c
      BY <3>1, <3>2, <3>3
    <3> QED
      BY <3>1, <3>4 DEF c
  <2>3. \A o \in Options : o = bs[p].i /\ bs[p].at = "store" => ~(nThreads = 0 \/ nThreads * Share <= o)
    <3>1. bs[p].at = "store" => nThreads * Share \in Nat /\ bs[p].i \in Int
      BY <1>0, SharePositive DEF PricerRecord
    <3> QED
      BY <2>2, <3>1
  <2> QED
    BY <1>0, <1>1, <2>1, <2>3 DEF RestUnpriced, Pricing, arguments
<1>8. AloneRows'
  BY <1>1 DEF AloneRows
<1> QED
  BY <1>1, <1>6, <1>7, <1>8 DEF AloneNow

LEMMA AloneNext == ASSUME IndInv, SoundInv, [Next]_vars, AloneInv PROVE AloneInv'
<1> SUFFICES ASSUME build = "NODTT" PROVE NoSpawn' /\ ((\A t \in Threads : tpc'[t] = "none") => AloneNow')
  BY BuildKept DEF AloneInv
<1>1. NoSpawn /\ NoSpawn'
  BY SpawnNext DEF AloneInv
<1>2. ASSUME \A t \in Threads : tpc'[t] = "none" PROVE AloneNow'
  <2>1. AloneNow /\ \A t \in Threads : tpc[t] = "none"
    BY <1>1, <1>2, SpawnNext DEF AloneInv
  <2>2. CASE MainMove
    BY <2>1, <2>2, AloneMain
  <2>3. CASE InTstore
    BY <1>1, <2>1, <2>3, AlonePost
  <2>4. ASSUME NEW r \in Runners, SupportFunction(r) PROVE FALSE
    <3>1. tpc[r] # "none"
      BY <2>4 DEF SupportFunction, LoadArgs, ComputeEvent, StorePrice, Return, Validate,
         ClearValid, DttReturn, CheckHead, ValidateLast, ChainHere, ChainThread, ThreadGoto
    <3> QED
      BY <1>1, <2>1, <3>1 DEF NoSpawn, Runners
  <2>5. ASSUME NEW t \in Threads, Dtt(t) PROVE FALSE
    BY <2>1, <2>5 DEF Dtt, LoopStep, PollTail, PollValid, TakeEntry, MarkRunning, StoreRunning,
       CallFunc, AdvanceHead, Idle, TailTest, TailRuns, TailNext, TailExits, ThreadGoto
  <2>6. ASSUME NEW p \in Pricers, Running, BsThread(p) PROVE AloneNow'
    BY <2>1, <2>6, AlonePricers
  <2>7. CASE UNCHANGED vars
    BY <2>1, <2>7 DEF AloneNow, SharesPriced, RestUnpriced, AloneRows, Past, Share, AllDone,
       PriceAlone, vars, runtime, arguments, arrays
  <2> QED
    BY <2>2, <2>3, <2>4, <2>5, <2>6, <2>7, NextCases
<1> QED
  BY <1>1, <1>2

\* The baseline build without a worker is the original benchmark, for any
\* number of options, pricers and rounds: every pricer computes its share,
\* and what rounding leaves over is written as it was found.
THEOREM PricersAloneCorrect == Spec => []PricersAlone
<1>1. IndInv /\ SoundInv /\ AloneInv /\ [Next]_vars => AloneInv'
  BY AloneNext
<1>2. AloneInv => PricersAlone
  BY DEF AloneInv, AloneNow, AloneRows, AllDone, PriceAlone, PricersAlone, NoWorker
<1> QED
  BY <1>1, <1>2, AloneInit, IndCorrect, SoundCorrect, PTL DEF Spec

=============================================================================
