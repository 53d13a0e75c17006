# Verification of DTT: data-triggered threads

DTT lets a C program attach a *support function* to a *trigger variable*. The
preprocessor `dttc` puts a `tstore` call before every assignment to the
variable; `tstore` posts an event into a ring; worker threads of `libDTT` take
events from the ring, run the support function and mark its result valid; and
the program skips the computation of a `#block` whose result is valid.

This directory holds TLA+ models of the runtime, of the preprocessor, and of the
two programs in the repository that use them (equake, and blackscholes with a
runtime of its own), TLC configurations that check them on small instances, and
TLAPS proofs, for instances of every size, of the runtime's safety, of equake's,
and of what the builds of blackscholes compute.

## 1. The system

| Part | State | Operations | Hard behaviour |
|---|---|---|---|
| **libDTT runtime** `libDTT/dtt.{c,h}` | ring `EQ[4096]` of entries (valid, lock, state, func, args), `EQ_tail` (and `EQ_head`, never written); per support function a `dtt_state` (state, pending, cancel) | `dtt_init`, `tstore`, `dtt_event_create`, `dtt_barrier`, `dtt_invalidate`, `dtt_validate`, the worker loop `dtt` | lock-free reads before a lock, several producers and workers on one ring, the race between counting off an event and posting the next, a full ring |
| **dttc** `preprocessor/dttc.{c,h}` | tables of triggers, support functions and blocks; a line machine | `create_tables` over all files, the link loop of `main`, `preprocess` over all files: reads pragmas, emits `tstore`, `dtt_init`, the states and the test around a block | two passes with code of their own for comments and for names, which do not always agree; delimiters used without a test; tables filled by one file and used by another; where it puts the `tstore` relative to the assignment |
| **equake** `equake/quake.dtt` | `time` (trigger), `phi0_result`, `phi0_skip__dtt_state` | time loop, `phi0` (block), `phi0_dtt` (support function) | a worker reads `time` and writes `phi0_result` while main uses both |
| **blackscholes** `parsec/blackscholes/{dtt.c,dtt.h,blackscholes.c}` | a ring `EQ[1024]`, `EQ_head`, `EQ_tail`, one `dtt_state`; the option arrays and `prices` | `tstore`, `dtt_event_create`, `dtt_return`, two loops `dtt`, `dtt_barrier`; `main`, `bs_thread` (pricer), `bs_thread_DTT` (support function) | five builds by macro, lock-free ring between main and a polling worker, threads started by `tstore` or by each other, pricers that skip what they believe done |
| `blackscholes.simd.c`, `blackscholes.tbb.cpp`, `inputgen.c` | - | vendored PARSEC variants that do not use DTT | - |

They interact through shared memory only: a program thread and the workers
share the ring, the `dtt_state` objects and the program's own variables; the
locks are `lock cmpxchg`, `pending` is changed with `lock incl`/`lock decl`,
everything else is plain loads and stores.

What makes each part correct:

* *Runtime.* A ring entry is in one thread's hands at a time; no event is lost
  or run twice; `pending` is the number of events under way; a result is
  validated when its events are done, and not before; a barrier waits for the
  events posted before it; every event runs and every `tstore` returns.
* *dttc.* Every assignment to a trigger gets the `tstore` with its own function
  and state (it does as far as the texts the two passes cut out of the lines
  agree, and no further: see `StoresTrigger` and `ModificationsStored`); what that
  uses is declared and initialised above it; the lines of the program are kept.
* *equake.* A skipped block's result is the one it would have computed (it need
  not be: see `StaleByTwo` and `Phi0Current`); the time loop ends (unless the ring
  is used again: see `HangsOnlyOnReuse`).
* *blackscholes.* Each price written is that of its option.

## 2. The modules

| Module | What it is |
|---|---|
| `LibDTT` | the runtime: ring, flags, callers, workers; its properties |
| `TriggeredTasks` | abstract specification: a bounded bag of tasks, each posted, begun and finished once |
| `MCLibDTT` | `LibDTT` with a symmetry set for TLC |
| `Equake` | equake's time loop, `phi0` and `phi0_dtt` as translated by dttc, composed with `LibDTT` |
| `BlackscholesDTT` | the runtime blackscholes includes, in five builds |
| `Blackscholes` | blackscholes' main, pricers and support function, composed with `BlackscholesDTT` |
| `Dttc` | the preprocessor: both passes on abstract lines |
| `DttcProperties` | what a line means, read off the source alone, and what the output must be for it |
| `MCDttc` | `DttcProperties` with the programs TLC enumerates |
| `LibDTTProofs` | types and entry ownership |
| `LibDTTEventProofs` | the events: exactly once, `pending`, validation |
| `LibDTTServiceProofs` | the barrier, the single worker, the order of events, refinement of `TriggeredTasks` |
| `EquakeProofs` | equake uses the library as specified; its types, triggers, the bound on stale results, and when it may hang |
| `BlackscholesProofs` | the types of blackscholes and its runtime; no wrong price in any build |
| `BlackscholesBuildProofs` | all prices in the single-threaded build; one event in `EQ_MAX` in those that start threads; the shares of the build without events |
| `DttcStepProofs` | what each step of dttc reads and writes; types, cursor, comment flag and links |
| `DttcProofs` | the tables, the output and the crashes of dttc |

### LibDTT

*State.* `EQ`, `EQ_tail`, `state`, `pending`, `cancel` are the variables of the
code. A caller (a program thread, or a worker whose support function calls
`tstore` when `Nested`) has a place `pc` in the library and the locals of the
call (`entry`, `event`, `now`); a worker has a place `wpc` in `dtt()` and its
local `wnow`. `func` and `args` of an entry are represented by the number of
the event. `issued`, `source`, `ran` and `invalidator` are history: no action's
guard reads them but for the bound `issued < MaxEvents`.

*Actions.* One action is one access to shared memory. The steps of a `tstore`
in the order of the code:
`TstoreTriggers` (line 112, and 120 triggering) - `AtomicIncrement` (56) -
`InvalidateState` (58) - `ReadTail` (60) - `ProbeFree` (67) - `TakeSlot` or
`SlotLocked` (70) - `MarkValid` or `GiveBack` (73-76, 84-86) - `FillFields`
(77-79) - `UnlockSlot` (80) - `StoreTail` (93). Those of a worker:
`ScanSkip`/`ScanFind` (169) - `GrabEntry`/`EntryLocked` (172) -
`MarkRunning`/`LockGrabbed` (178-186) - `RunSupportFunction` (189) -
`ClearEntry` (190) - `AtomicDecrement` (191) - `TestPending` (192) -
`ValidateState` (193) - `ReleaseEntry` (195). Where two accesses share an
action, nobody can see a state between them: `MarkValid`, `GiveBack` and
`MarkRunning` read `valid` under the entry's lock, which is what every writer of
it holds, and the three fields of `FillFields` are read only under that lock.
A store that does not trigger changes nothing and is a stuttering step, as are
a failed `pthread_create` and another look at a busy entry.

*Builds.* `PendingCount` is `-DDTT_PENDING_COUNT`. `Reload` says whether the
loop of `dtt_event_create` looks again at a busy entry: `EQ[now].valid` is not
volatile and the busy path has no memory clobber, and `gcc -O2`, which the
Makefile uses, compiles it to a loop that tests a register.
(The library relies on gnu89 `inline`; with C99 semantics `tstore` has no
definition to link with.)

*Memory model.* The model is sequentially consistent. On x86 the code's lock
operations, increments and decrements are lock-prefixed and empty the store
buffer; a plain store that is still buffered (`state`, `cancel`, `EQ_tail`) is
a store that has not happened yet for the others. The order of the accesses is
that of the code `gcc -O2` produces.

*dtt_cancel* is declared in `dtt.h` and defined nowhere; the model lets a
program set the flag that `tstore` and `dtt_barrier` test. `dtt_return` is
never called.

In the default build the loop of `dtt_barrier` runs while `state` is 2. No
step of the program stores 2 (line 187 is commented out), so its body, which
would store 2 or 1, is never entered: `TypeOK` has no 2, and `TypeCorrect`
proves it.

### Equake

`EquakeSpec` constrains `LibDTT`: main's calls are those of the translated time
loop, with the program variables added. An iteration is `NextIteration`,
`SaveOldValue` and `CallTstore` (the two lines dttc puts before the assignment),
the steps of the call
(`MainInTstore`), `AssignTime`, then calls of `phi0`: `CallPhi0` tests
`state`, `ComputePhi0` or `SkipPhi0` returns a value. `tstore` calls
`memoryCompare`, an operator on addresses: it walks both buffers in steps of an
int and then of a byte, as the code does, but compares the pointers and not what
they point to. (Had it compared contents, the store would never have triggered:
the old value has just been saved from the variable, and the assignment is yet
to come.) The worker's
support function is two steps, the load of `*t` (`&time`, not the event's value)
and the store of `phi0_result`. A time is represented by its iteration; `phi0`
grows up to `Ramp` and is constant from there on.

`dtt_init` ignores the result of `pthread_create`: `InitRuntime` starts the worker
or none. Both runs of `Equake` set `Reload` to `FALSE`: the Makefiles of libDTT and
of equake compile with `-O2`, for which `ComputePhi0` returns the value it has just
computed and a call that finds its entry busy never looks again.

### BlackscholesDTT and Blackscholes

*Builds.* `build` is chosen in `Init`. `SINGLE_THREAD` is what the Makefile
sets: `tstore` calls the support function. `DTT_POLLING` has one worker in
`dtt()` that follows `EQ_head`; `NODTT` (always with `DTT_POLLING`, Makefile:12)
is the baseline, in which events are written to one entry over and over and
`EQ_tail` stands still. `SPAWN` names the build with none of these macros, in
which `tstore` starts a thread for an event at `EQ_head`, and `TAIL_RECURSION` the
one in which that thread runs the other `dtt()`.

*State.* `EQ`, `EQ_head`, `EQ_tail`, `state` are those of `dtt.c`; `pc` is main's
place, `tpc` that of a thread (or of main inside a support function) and `cur`
its event. `state` and `func` of an entry are set or NULL, `args` is the index of
the option. `version`, `nThreads`, `numOptions`, `prices` are those of
`blackscholes.c`; `bs` has the pricers' locals. `filled` is the part of the option
arrays main has written. An option's right price is represented by its index;
-1 is memory never stored to, -2 a price computed from an option not copied yet.

*Actions.* `tstore` is `ReadState`, `MarkState`, `InvalidateState`, `WaitForEntry`
(dtt.c:187-217), `StoreState` ... `StoreTail` (219-234), then `NotAtHead` or
`MarkSpawning` and `SpawnThread` or `CallSupport`, `SupportReturned`,
`ReleaseInstance` (115-147). `dtt_return` is `CheckHead`, `ChainThread`,
`ChainHere`, `ValidateLast`, `ClearValid`; the polling loop is `PollTail` ...
`Idle`, the other one `TailTest` ... `TailExits`. `DttReturn` and the stores around
it are steps of `SupportFunction` (`LoadArgs`, `ComputeEvent`, `StorePrice`,
`Return`, `Validate`). A pricer waits in `PassBarrier`, then `TestState`, `Compute`
and `Store` for each option of its share, `NUM_RUNS` times. main reads, copies,
posts, creates pricers, waits and writes, with an exit at each input or output.
Every access to shared memory is an action; the makefile compiles without
optimisation. The formula of `BlkSchlsEqEuroNoDiv` is abstracted to the fact that
it depends on the arrays at its option alone.

*Failures.* `pthread_create` may fail wherever its result is not looked at: the
polling worker (blackscholes.c:292) and the pricers of the pthreads version
(c.m4.pthreads:53); in `dtt_return` the failure path is `ChainHere`, in `tstore`
it is repeated. `pthread_detach` in `dtt_return` gets an address for a thread id
and may crash (`crashed`), and so does a call of a `func` not stored yet.

### Dttc

A line is a record of what the passes look for: its kind, the texts they cut
out of it and the comment it ends in. A text is what stands between two
delimiters, so a variable may have several: the first pass takes what is behind
the last blank before `=` or `;` of a `#trigger` line (`first`), the second the first
token, between the characters `)*& `, of the left side of a line with `=` (`second`).
`*p`, or `x` behind a tab, is another text than `p` or `x`. A missing text is `None`, a
missing delimiter behind it `NoEnd`; a `blank` line has blanks only and no line feed
(the last of a file).

The first pass reads (`OpenFile`, then for each line `SkipLine`, `AddTrigger`,
`AddBlock`, `ReadDTT`, `AddThread` or `OtherLine`) and chooses its input as it goes;
`Link` is the loop of `main` that gives each trigger the entry of its support
function; the second pass (`NextFile`, then `EraseLine`, `TranslateTrigger`,
`TranslateBlock`, `TranslateAssignment`, `TranslateInclude` or `CopyLine`) appends
copied and generated lines to `output`. Each pass may follow a NULL pointer instead
(`FollowsNull`, lines 123, 177-188, 198, 212 and 226; `FollowsNullInCode`, lines 334,
346, 385 and 389), and the program ends there. Both passes have their own comment
handling: the first loses the code before a comment of one line, the second keeps
it; both erase the whole line when a comment goes on.

The properties do not look at the tables. `Erased`, `IsTrigger`, `Answers` (the
function that a `#DTT` line gets, other pragmas between them), `IsSupport`,
`Meant` and `NullCause` (in `DttcProperties`) say what a line means from the source
alone, and the output is compared with that. The comment forms, the matching of
names and the crashes were compared with runs of the compiled `dttc`.

## 3. Properties and runs

Safety of the runtime: `TypeOK`, `EntryOwnership`, `PendingCounts`,
`ExactlyOnce`, `NoLostValidation`, `BoundedOvertaking`, `NeverGrabbedByOthers`
(single worker), `BarrierWaitsForEvents` (action property) and
`ImplementsTasks` (refinement of `TriggeredTasks`). Liveness: `EventsRun`,
`TstoreReturns`, `BarrierEnds`, `EventuallyValid`.

equake: `StaleByTwo`, `TriggersEveryIteration`, `HangsOnlyOnReuse`, `EndsOrHangs`. blackscholes:
`PricesSound` (no build ever stores a wrong price), `SingleThreadComplete` and
`PricersAlone` (which prices are written, by the Makefile's build and by the
baseline without a worker), `HeadEventsOnly` (which events run when `tstore`
starts threads), `Terminates`. dttc: `StoresTrigger` (a line with `=` has a `tstore`
exactly when its first token is the text of a trigger, and with the function and
state of that text), `InitBeforeStores`, `StatesDeclared`, `LinesKept`, `CrashCauses`
(why it follows a NULL pointer).

| Run | Instance | Result |
|---|---|---|
| `two_workers` | 1 program thread, 2 workers, 2 states, ring of 2, 3 events, barrier on `pending` | safety and refinement hold |
| `two_programs` | 2 program threads, 1 worker whose support function posts too, ring of 2, 3 events, hoisted read | safety and refinement hold with three producers |
| `liveness` | 1 program thread, 2 workers, ring of 2, 3 events, fair | all four liveness properties hold |
| `equake` | 6 iterations, ring of 3, the ramp ends after 4, worker or none, `Reload = FALSE`, fair | the excitation used is at most two iterations old; every store triggers; the loop ends or hangs at a busy entry, and hangs only once the ring is used again |
| `blackscholes` | five builds, both versions, up to 3 options, ring of 2, up to 2 pricers and 2 threads, 2 rounds, fair | no wrong price; all prices with `SINGLE_THREAD`; the shares' prices without a worker; only head events when threads are spawned; the end is reached except in the cases `Terminates` names |
| `dttc` | programs of up to 2 files, 4 items, 1 comment, 2 texts, functions and regions | the generated lines are those the texts ask for, the source's lines are kept, crashes have the causes listed |
| `validate_race` | 1 thread, 1 worker | **violated**: a result is declared valid while its next event waits |
| `hoisted_read` | 1 thread, 1 worker, `Reload = FALSE`, fair | **violated**: a `tstore` on a full ring hangs |
| `default_barrier` | 1 thread, 1 worker, default build | **violated**: the barrier leaves while a support function runs |
| `dttc_tabs` | 1 file, 3 lines, 2 texts | **violated**: an assignment to a trigger, indented with a tab, gets no `tstore` |
| `equake_stale` | 3 iterations, ring of 2, `Reload = FALSE` | **violated**: the excitation of an earlier iteration is used |
| `blackscholes_output` | `SPAWN`, serial version | **violated**: prices that were never computed are written, with exit status 0 |

*Bounds.* `MaxEvents` bounds the events of a behaviour: 3 events in a ring of 2
fill it, make a caller wait, reuse an entry and wrap the tail around. Two
workers and two states give every race of two workers for one entry and for two
entries of the same or of different states; three producers share one tail in
`two_programs`. Scans, failed locks and barriers are not bounded. In `equake`
the ring is larger than the lag the property allows and the loop twice as long as
the ring, so that main finds an entry busy, or finds it free again. In
`blackscholes` three options in a ring of two reuse an entry and wrap the tail around, two pricers with three options leave one over, two rounds
let a pricer see `state` change between them, and two threads let one start the
other. In `dttc` (`MaxFiles`, `MaxItems`, `MaxComments`) four items are a trigger,
its `#DTT` line (whose function comes free), an assignment and one more (a
second definition, an `#include`, `main`, a comment, or something missing in one
of these lines), in one file or two; texts come up in a fixed order, since no
action tells them apart. Behind a `#DTT` line a line that is not its function comes
last. `dttc_tabs` needs a trigger, its function and an assignment.
`CHECK_DEADLOCK FALSE` is set in every run: after `MaxEvents` events,
with no worker started, or in a loop that hangs, the modelled program may have
no step but a spinning one.

*Fairness.* Weak fairness for each thread's own steps: the operating system
runs every thread that can run. Nothing makes the program issue calls; nothing
is assumed about who wins a lock, and `EventsRun` and `TstoreReturns` hold
nevertheless, as an entry's lock is held for finitely many steps of a thread.
The liveness properties of `LibDTT` start from a worker having been started; that
of `equake` does not, and holds with a worker that is missing. In `equake`
main's steps are fair, and strong fairness for leaving an iteration says that
the nodes, and so the calls of `phi0` in an iteration, are finitely many. In
`Blackscholes` it is weak fairness for main, for each thread and each pricer;
input and output may fail at any time and need not. `Dttc` needs none.

*What the violated runs say.*

* `dtt()` tests `pending` and stores `state = 1` as two steps (192-193). A
  `tstore` between them is overwritten: `state` is 1 while the event waits.
* The default build's barrier is no barrier: it waits for a 2 nobody stores.
* The `tstore` before the assignment makes the support function race the
  assignment it is for. `StaleByTwo` is the bound that does hold: one iteration
  for this race and one for a late validation, whatever the ring holds. It is
  tight.
* dttc says of a line without a pragma that it looks for a trigger that is
  modified. A trigger's name is cut out of its declaration up to the last blank,
  and out of the assignment between `)*& `, which has no tab: behind a tab the
  name is not found. `StoresTrigger` says what holds of every line, in terms of
  the texts.
* `EQ_head` in blackscholes' `dtt.c` is not advanced any more (254-267 is
  commented out), but `tstore` still starts a thread only for the entry it points
  to. One event in `EQ_MAX` runs, marks the one `state` valid, and the pricers
  skip all options. `DTT_POLLING` and `NODTT` violate `OutputComplete` too, the
  latter when options are left over by rounding (blackscholes.c:238) or the one
  entry is run late.

*What else the runs show.* A `DTT_POLLING` build may wait for ever. The worker
tests `EQ_tail`, then `valid`, and may run an entry before main has stored the
tail that counts it; it then finds its head ahead of the tail and, in a ring that
is reused, goes on to an entry that has been run, so that the indices meet again
with a valid event behind them and `state` 2. `Terminates` excludes exactly this
case (`RingReused`), a polling build without its worker (`NoWorker`), and the
`TAIL_RECURSION` loop, which has no end since nothing moves `EQ_head`.
That an entry is grabbed by others "Should not happen anyway" (dtt.c:177) is true with
the one worker a call of `dtt_init` starts (`NeverGrabbedByOthers`, proved). With a
second worker, as in `two_workers`, it happens (`LockGrabbed` is a step there), and
the code recovers: `ExactlyOnce` holds all the same.
equake as compiled hangs when a worker that is late or missing leaves the entry
at the tail busy; by `HangsOnlyOnReuse` that needs more time steps than the ring has
entries (4096, dtt.h:6), and by `EndsOrHangs` nothing else holds it up.
`CrashCauses` gives the causes for which `dttc` may follow a NULL pointer, for files
that can be opened and lines and tables within their bounds; it does not say that
each such line is reached.

Each property of a passing run has a mutant in `PROJECT.json`: an operator
beside the action (in the section of wrong variants) that breaks it.

## 4. Proofs

All are for any finite disjoint sets of program threads and workers, any set of
states, any ring size, any number of events and every build (the `ASSUME`s of
`LibDTT`), except where noted.

| Theorem | Statement |
|---|---|
| `TypeCorrect` | `Spec => []TypeOK` |
| `OwnershipCorrect` | `Spec => []EntryOwnership` |
| `PendingCorrect` | `Spec => []PendingCounts` |
| `OnceCorrect` | `Spec => []ExactlyOnce` |
| `ValidationCorrect` | `Spec => []NoLostValidation` |
| `BarrierCorrect` | with `PendingCount`, `Spec => BarrierWaitsForEvents` |
| `NeverGrabbedBySingle` | with at most one worker, `Spec => []NeverGrabbedByOthers` |
| `OvertakingBounded` | with one program thread and no nested calls, `Spec => []BoundedOvertaking` |
| `RefinesTasks` | `Spec => ImplementsTasks` |
| `EquakeUsesLibDTT` | `EquakeSpec => Spec`: all of the above holds of equake |
| `EquakeTypeCorrect` | `EquakeSpec => []EquakeTypeOK` |
| `TriggersCorrect` | `EquakeSpec => []TriggersEveryIteration` |
| `StaleCorrect` | `EquakeSpec => []StaleByTwo`, one worker, any number of iterations, any ring |
| `HangsCorrect` | `EquakeSpec => []HangsOnlyOnReuse`, any number of iterations, any ring, worker or none |
| `BlackscholesTypeCorrect` | `Blackscholes!Spec => []TypeOK` |
| `PricesCorrect` | `Blackscholes!Spec => []PricesSound`, any options, pricers, threads, rounds and ring, every build |
| `SingleThreadCorrect` | `Blackscholes!Spec => []SingleThreadComplete`, likewise |
| `HeadCorrect` | `Blackscholes!Spec => []HeadEventsOnly`, likewise |
| `PricersAloneCorrect` | `Blackscholes!Spec => []PricersAlone`, likewise |
| `DttcProofs!TypeCorrect` | `Dttc!Spec => []TypeOK`, any names, any number of files and lines |
| `StoresTriggerCorrect` | `Dttc!Spec => []StoresTrigger`, likewise; on texts, and so no statement on the variables they stand for |
| `InitBeforeStoresCorrect` | `Dttc!Spec => []InitBeforeStores`, likewise |
| `StatesDeclaredCorrect` | `Dttc!Spec => []StatesDeclared`, likewise |
| `LinesKeptCorrect` | `Dttc!Spec => []LinesKept`, likewise |
| `CrashCausesCorrect` | `Dttc!Spec => []CrashCauses`, likewise; for openable files, lines and tables within their bounds |

*The argument.* `LibDTTProofs` first shows which actions write which variable
(`FlagWriters`, `RingWriters`, ...), so that each later proof looks at the few
that matter. Ownership needs three facts at once: a lock is set exactly when
somebody holds the entry, two never hold it, and 2 in `valid` means that the
holder runs it. On top of it the inductive invariant `IInv` adds what the calls,
entries and workers refer to (`EventFacts`): a filled entry names an issued
event and that event's state, a caller that has marked an entry valid finds it
so until it unlocks, a worker's entry keeps its state pointer, an event not
issued has not run. None of the properties is inductive without it: for
`PendingCounts`, a worker must decrement the counter of the state the entry was
posted for, which ownership protects from the moment `valid` becomes 0 to the
unlock. With `IInv`, each of the eight steps that move an event on changes each
counted set by one element. `ZeroPending` turns a count of 0 into empty sets,
which gives the barrier and the validation; `OnePlace` turns `ExactlyOnce` into
the freshness and injectivity that the refinement of the bag needs, and a
surjection from the other entries bounds the bag.

`OvertakingBounded` needs the order in which one thread fills the ring, which
`BoundedOvertaking` does not mention. `OrderInv`: only this thread calls, and always
for the newest event (`PostsNewest`); the tail is the number of events issued less
a multiple of `EQ_MAX` (`TailFollows`), so an entry in use holds an event of its own
residue (`EntriesFollow`); and the event `EQ_MAX` before the newest has run from
the moment the call finds its entry free (`RoundBefore`); until the call marks its
entry, the entries in use hold earlier events (`EntriesOlder`). The workers may scan the
ring as they like. With a second program thread there is no such bound: a thread
that stalls with an event not yet in the ring is overtaken by all of the other's.

*equake.* `EquakeUsesLibDTT` maps each action of the composition to an action of
`LibDTT` or a stutter, so the library's invariants hold of equake. `AddressesDiffer`
shows that `memoryCompare` is nonzero for two different addresses and any size,
hence `TriggersCorrect`. `StaleByTwo` alone is not inductive: that `phi0_result` is
recent enough when the block is skipped depends on what the worker that validated
it had run. The invariant `EInv` adds: there is one worker (`OneWorker`); a time
it has loaded, and the time the result was computed from, is at most one
iteration older than any event that has run (`Loaded`, `Stored`); a valid state has
a fresh result (`ValidFresh`); and so has a worker that is about to validate
(`ValidatorFresh`). It stands on the library's invariants:
a `pending` of 0 (`TestPending`) means, by `PendingCounts` and `ExactlyOnce`, that
every event issued has run but the one main is about to count (`ZeroMeansRun`,
`AllRun`), so the result the worker validates is at most one iteration old; a
worker that stalls before its store of 1 can be overtaken by one iteration only.
`HangsCorrect` uses the order of the ring: the entry a call finds busy holds an
earlier event of its own residue, which is at least `EQ_MAX` older, so the call is
for an event beyond `EQ_MAX` (`HungLate`), and events are iterations (`TriggersCorrect`).

*blackscholes.* `IndInv` is the types with what they need of `main`: its counter is
below `numOptions` while it posts, and pricers exist only after that, with thread
numbers below `nThreads`. On it stands `SoundInv`, where `PricesSound` alone is not
inductive: an entry's `args` is an option that main has copied or the 0 of the
start, which counts only once option 0 is copied (`CopyInv`, `EntryInv`: main
fills the fields after copying, in every build); a thread that prices an option
holds a copied one, and stores what it computed for it (`RunnerInv`); a pricer
stays in its share, and by `(p + 1) * Share <= nThreads * Share <= numOptions`
(`ShareBounds`) the share lies among the copied options (`LoopInv`); the rows are
written in order (`RowsInv`). The argument does not need the ring's protocol: an
event that is lost, overwritten or run twice costs a price or repeats it, but
cannot make it wrong. Completeness is a separate matter, and depends on the build.
For the single-threaded one `SingleInv` follows the one event there is: no thread
exists, main is in the support function just while `tstore` has called it, the
entry, the call and the local `i` all name main's option, and the options before
it are priced, a price staying once it is stored (`PriceKept`). For the builds
that start a thread, `HeadInv`: `EQ_head` is 0, every thread works on entry 0, and
`EQ_tail` is the number of options posted less a multiple of `EQ_MAX`
(`TailFollows`), so entry 0 only ever gets the options at multiples of `EQ_MAX`.
For the build without events `AloneInv`: no thread is ever started there but the
one `dtt_init` creates (`NoSpawn`), and while that one is missing `state` stays 0, so
each pricer has priced all it has passed of its share (`SharesPriced`) and nothing
has priced an option in no share (`RestUnpriced`): rounding loses exactly the last
`numOptions % nThreads` options.

*dttc.* The properties speak of lines of the source and lines of the output, which
the tables and the flags connect; none is inductive without them. `IInv` says what
they are, for the lines read so far. First pass: `Scan` is the comment flag as a
fact about the source (`Erased`); `Pending`, that a search for a support function's
name has an unanswered `#DTT` line behind it, whose region it holds; `TablesRight`,
that the first entry of a name comes from its first line, and that every line
read has an entry. `Linked` is the loop between the passes. Second pass: `Cursor` is
where it is; `Copies`, that the copied lines are those passed and not erased, in
order; `Flags`, that `dtt_initialized`, `in_main` and `variable_declared` say what stands
above in this file. On these rest `Stored`, `Ordered` and `CrashCauses`: the output is
right as far as it is written, and a crash, in either pass, has its line. What the
proof assumes of a text is only that it is neither `None` nor `NoEnd`, so it covers
every way in which the two passes may cut out different ones.
In the first pass lines are appended while the properties quantify over all
lines, so the proof first shows that reading a line changes no meaning of the
lines before it (`ErasedKept`, `MeaningKept`), and what it adds (`Answered`). In
the second, `Writes` reduces the six branches of `preprocess` to one form
(`WriteStep`): the output grows by some generated lines and possibly the copy,
with what each branch may generate and what the flags become. Every invariant
of the output is then shown for that form alone. That `Lookup` finds the first
entry is `LookupIsFirst`, by the well-foundedness of the naturals.

*Only model-checked:* the properties that need fairness (`EventsRun`,
`TstoreReturns`, `BarrierEnds`, `EventuallyValid`, `EndsOrHangs` and blackscholes' `Terminates`), which are beyond
the prover, and the violations. Every invariant of the other runs, the action
property of the barrier and the refinement are theorems.

## 5. Not modelled

* equake's numerics and input, the vendored PARSEC variants (`simd`, `tbb`) and
  `inputgen.c`: sequential code that shares no state with DTT. The PFM
  instrumentation of both runtimes: counters read and never acted on.
* In libDTT: allocation failure; hangs the code allows when a support function
  posts into a full ring that only its own worker empties (no support function
  in the repository posts). `dtt_return` and the counters of `DTT_THRESHOLD` are
  used by nobody.
* In blackscholes: the macros `DTT_THRESHOLD` (its test, dtt.c:622, is always
  false: `==` binds before `&`), `PARALLEL_DTT`, `DTT_CANCEL`, `XIP`, `OLDTSTORE`,
  `MIGRATION`, `MFENCE`; `dtt_cancel`, which nobody calls; OpenMP and Windows;
  negative counts in the input and more than `MAX_THREADS` pricers.
* In dttc: the bound of its tables (128), which it does not test; a file that
  cannot be opened or has no `.dtt` in its name; a line of more than
  `MAX_LINE_LENGTH` characters, which is read in pieces; the spelling `#pragma DTT`;
  a line that is two kinds at once (` main(` with an `=`, or behind a `#DTT`).
* Also in dttc, what the texts of a line mean in C. An assignment gets no `tstore`
  when it is indented with a tab, when it is the second on its line or stands
  behind an `if (...)`, or when its trigger is declared as a pointer or an array
  (whose text, `*p` or `a[4]`, no token equals); and a line that begins with a
  comparison of a trigger, `x == y`, gets one. The declaration of a trigger is
  a pragma line and gets none for its initialiser.
* Also in dttc, the layout of the output. A `//` comment is cut off with its line
  feed, and a line without a pragma is written without another one: it becomes
  the beginning of the next line of the output, also when that is a generated
  one or an `#include` or a `#define`, which then no longer starts a line.
  A `#block` line with a comment `/* */` and no name before it, which the first
  pass does not see, tests a state named `(null)`.
  Whether the place of a generated line is C syntax, and the linking of files
  that each define the states of all regions, are not modelled either.

What is left to do: whether overtaking is bounded with several program threads
when it is counted from the moment an event is in the ring (no theorem and no
run says so), and the remaining macros of blackscholes' runtime.
