# Formal models of project-archive

The repository holds five unrelated programs: a snooping-bus **cache-coherence
simulator**, a multithreaded **OS scheduler simulator**, an **out-of-order processor**,
a **cache simulator** and three **searches for n queens**. All five are modelled and
model-checked here, and every safety property that the model checker checks is also proved,
for every instance. Liveness under fairness stays with the model checker.

## Inventory

| Component | Source (under `src/`) | State | Operations | Status |
|---|---|---|---|---|
| Coherence protocols MI, MSI, MESI, MOSI, MOESIF | `comp_arch/coherence/src/protocols` | one state per line and cache | `process_cache_request`, `process_snoop_request`, one handler for each state | modelled |
| Coherence simulator | `comp_arch/coherence/src/sim`: `sim`, `bus`, `hash_table`, `processor`, `memory`, `node`, `mreq` | bus latches and queue, memory lookup, processor latches, traces | `tick`/`tock` of every module, in the order of `Simulator::run` | modelled, proved |
| OS simulator | `comp_arch/process_schedule/src/os-sim.c`, `process.c` | CPUs, I/O queue, process table, mutexes and condition variables | supervisor tick, CPU threads, `context_switch`, `force_preempt` | modelled, proved |
| Scheduler | `comp_arch/process_schedule/src/student.c` | ready queue, `current[]` | `idle`, `preempt`, `yield`, `terminate`, `wake_up`, `schedule`, the queue | modelled, proved |
| Out-of-order processor | `comp_arch/tomasulo/src/procsim.c` | dispatch and scheduling queues, register tags, units, branch table, L1 | fetch, dispatch, schedule, execute, the two updates of a cycle | modelled, proved |
| Cache simulator | `comp_arch/cachesim/src/cachesim.c` | lines and an LRU stack per set | `cachesim_access` | modelled, proved |
| n-queens searches | `constraint/csp/src`: `back_track_search`, `bt_fc`, `dvo` | path, domains, saved domains | an iteration of the main loop of each search | modelled, proved |
| MOESI | `protocols/MOESI_protocol.cpp` | none | every request is `fatal_error` | not modelled |
| `preq`, `sharers`, `sim_analysis`, `settings`, `main` | `comp_arch/coherence/src/sim` | | command line, and classes no run uses | not modelled |
| Processor driver, timing script | `tomasulo/src/procsim_driver.c`, `csp/src/call_all.py` | | parsing, printing, timing | not modelled |
| Notes, resume, result logs | `notes`, `resume`, `myresult` | | text and data | not modelled |

How components interact: the coherence simulator is one thread; its modules talk
through latches that one `tick` writes and a later one reads, and through the
queue of the bus. The OS simulator has one supervisor thread that does all the
work and one thread for each CPU; they share `simulator_mutex`, one condition variable
per CPU that is used in both directions, the inverted readers-writers lock
`student_lock`, and the scheduler's own `ready_queue_mutex`, `current_mutex` and
`idle_cond`. The processor is one thread whose pipeline stages share the scheduling
queue, in the reverse order of the pipeline. The cache and the searches are
sequential loops.

What is hard: requests that are queued while the state they were made in changes;
two caches or a cache and the memory answering at once; protocol errors that only
a long sequence of legal operations reaches; in the OS simulator every step
between two lock operations, with waiting that is signalled once and never
re-checked; in the processor a queue that is sorted while others hold its indices,
tags that outlive their instruction, and one stall flag for all branches; in the
cache a stack that must stay a permutation; in the searches copies of the domains
that are made at one level and put back at another. `PROJECT.json` lists each hazard
at its line.

What makes each component correct: *coherence* - one writer or many readers of a
line, one answer to each request, the newest data, no lost request, the program
ends; *OS simulator* - every process is in exactly one place, handlers act on the
process whose event it is, no idle CPU beside a waiting process, the simulator
ends after all processes; *processor* - an instruction starts only with its operands
computed and behind the accesses and branches it must not pass, units are given
back once, every instruction retires; *cache* - the hits, misses and write-backs of a
write-back LRU cache; *searches* - they end, with a solution if there is one, and none
otherwise.

## The coherence simulator

| Module | Models |
|---|---|
| `Protocol` | messages, line states, and what a handler may answer with (`Goes`, the set of calls `send_GETM`, `send_DATA_on_bus`, ...) |
| `MI_protocol`, `MSI_protocol`, `MESI_protocol`, `MOSI_protocol`, `MOESIF_protocol` | the handlers `do_cache_X` and `do_snoop_X` and the two dispatch switches, as functions from a state and a message to the next state and the calls made |
| `CoherenceSim` | `Simulator::run`: `BusTick`, `CacheProc` and `CacheSnoop` (the halves of `Hash_table::tick`), `PrTick`, `McTick`, `Tock`; its properties |
| `SWMR` | what a coherent memory promises: permissions of nodes for lines, and operations performed only with the permission they need |
| `CoherenceInv` | the inductive invariant `IInv` |
| `CoherenceProofs` | the theorems |
| `MCCoherenceSim` | constants for TLC |

`phase` and `turn` say which `for` loop of `run` is executing for which node, so that
an action is one call of one module's `tick`. The nondeterminism is the traces
(any operation on any line, or the end), the protocol, and the two fields no
constructor sets (`Processor::outstanding_request`, `Hash_table::proc_request`):
`Uninitialised` says which of them may be anything at the start. An `assert` or
`fatal_error` sets `fatal` and stops the program. Addresses are cache lines: no
handler looks inside one, and no line is ever evicted, since `get_entry` allocates
without limit. A trace has reads and writes only: the `fatal_error` that `Processor::tick` keeps
for any other letter (`processor.cpp:61`) is about a malformed file, and left out. Data values are left out, as they are in the program; instead
`MemorySuppliesOnlyClean` says that the memory answers only when no cache is dirty.

Runs (all with the five protocols as initial states):

| Run | Instance | Shows |
|---|---|---|
| `coherence_three_nodes` | 3 nodes, 1 line, 3 operations, memory 2 cycles | `SingleWriter`, `OneSupplier`, `AbortsOnlyOnGarbage`, `MemorySuppliesOnlyClean`, and the refinement `ImplementsSWMR` |
| `coherence_two_lines` | 2 nodes, 2 lines, 3 operations, garbage in both fields | `TypeOK`, `RequestTracked`, `DoneIsQuiescent`, the inductive invariant `IInv`; `EveryRequestAnswered` and `FinishesIfCleared` |
| `coherence_stuck_processor` | 2 nodes, 1 line, 1 operation, garbage in `outstanding_request` | `Finishes` is violated |

Bounds: `TraceLen` bounds a processor's trace, as a file does; three operations are
enough to take a line through a miss, an upgrade and its loss. Three nodes are
the requester, the supplier and one more sharer or competing requester; a handler
distinguishes no more roles than these. `HitTime` is 100 in the program; with 2
there is already a cycle in which nothing happens, and a cache's answer always
comes before the memory's, as with 100. The theorems have none of these bounds.
Fairness is weak fairness of `Next`: a single thread that keeps running.

### What is proved

For every number of nodes, set of lines, trace length, `HitTime` > 0 and set of
protocols (`ConstantsAssumption`, whose last conjuncts say that the null and wild
pointers are not requests):

* `Invariance`: `Spec => []IInv`;
* `TypeCorrectness`, `SingleWriterTheorem`, `OneSupplierTheorem`, `AbortTheorem`,
  `RequestTrackedTheorem`, `DoneIsQuiescentTheorem`: the invariants of the runs;
* `MemoryCleanTheorem`: the action property;
* `RefinementTheorem`: `Spec => ImplementsSWMR`.

The argument. `SingleWriter` alone is not inductive: a node that waits in `IM`
for a line becomes its writer when `DATA` comes, and nothing in `SingleWriter` says that
the others have given it up by then. `IInv` says what is known at each point of
a transaction. `BusInv` and `AgreeInv`: the latches of the bus and the memory
belong to one transaction. `QueueInv` and `ServedInv`: what is queued or served is what
a transient line waits for. `WriteInv` and `ReadInv`: the nodes that have
*snooped* the request being served (`Snooped`, from `phase` and `turn`) have given the
line up, or do not write it. `ReplyInv`: after a supplier has answered nobody
else will. `CleanInv`: as long as no cache has answered, those that were asked are
not dirty. `WaitInv`: a processor waits for one thing. `CopyInv` extends
`SingleWriter` and `OneSupplier` to waiting lines. `GarbageInv` confines aborts.

The proof does not look at ten protocols' worth of cases at every step: the lemmas
`MICache` ... `MOESIFSnoop`, collected in `CacheFacts` and `SnoopFacts`, state what any
handler may do (which states it leads to and which calls it makes), and the
step lemmas (`BusTickIInv`, `CacheProcIInv`, `CacheSnoopIInv`, `PrTickIInv`,
`McTickIInv`, `TockIInv`) use only those. For the refinement, a line's permission is
that of its state and a processor's abstract operation is the one it waits for;
each step changes one permission, performs one operation, issues one, or stutters
(`LoadInv` is added to know that a line in `IS` waits for a load).

Only model-checked: `EveryRequestAnswered` and `FinishesIfCleared` (liveness is out of the
prover's reach).

## The OS simulator

| Module | Models |
|---|---|
| `ReadyQueue` | `queue_push`, `queue_ordered_push`, `queue_pop`: the linked list as a sequence, and where in it `tail` points |
| `OsSim` | the supervisor (`Lock` ... `WakeUpReturned`), `wake_up` in its thread (`WakeUpMark` ... `WakeUpSignal`), a CPU's thread with `preempt`, `yield`, `terminate`, `idle`, `schedule` and `context_switch` (`Top` ... `Store`), wake-ups without a signal, the properties |
| `OsProofs` | theorems on the handlers, the pointer `tail`, idle CPUs, the types of the variables, the end of the simulation, and processes that vanish |
| `OsPlaces` | theorems on where a process is while no event is lost, and what its state says |
| `MCOsSim` | process tables for TLC |

A step is what a thread does between two points where it takes or drops a lock.
`simulator_mutex` is held by the supervisor over several steps (`held`); every other
critical section is one step. `waiting[c]` is the wait set of the CPU's condition
variable, `idle_waiting` that of `idle_cond`; a signal removes one thread, and
`SpuriousWakeUp` removes one that nobody has signalled: the supervisor, which goes on
(`SupervisorWakesUp`), or a CPU in `idle`, which looks again at the queue (`IdleWakesUp`). A CPU thread that waits for an event
is in a loop over its state: without an event a wake-up changes nothing there. `writers` is
the counter of `student_lock`, which `schedule` called from `idle` decrements without
having incremented it. `Garbage` is what `malloc` may leave in `current[]`. `tail` is 0
when it points to a node that `queue_pop` has unlinked. `pending` and `lost` are history:
an event has been raised and not seen, and one was overwritten. A process is popped in one step
(`Pop`), and its time slice is read in the next (`Select`), where `context_switch` is called: after a
lost event its `time_remaining` may have changed in between. Left out: printed
counters, assertions on arguments, an unknown scheduler letter.

| Run | Instance | Shows |
|---|---|---|
| `os_schedulers` | 2 CPUs, 3 processes; FIFO with one spurious wake-up, LRTF with any pointer in `current[]`, round robin | `TypeOK`, `ExactlyOnePlace`, `NoProcessVanishes`, `HandlersKnowTheProcess`, `GanttIsTrue`, `EndsAfterAll`, `WorkConserving`, `TailPointsToTheLast`, `LongestFirst`, `LifeCycle`, `EventuallyDone` |
| `os_never_exits` | 2 CPUs, 2 processes, FIFO | `ExitsWhenAllTerminate` is violated |
| `os_unprotected` | the same | `StateProtected` is violated |
| `os_preempts_while_idle` | the same under LRTF | `NoPreemptionWhileIdle` is violated |

Bounds: the process tables have bursts of one and two ticks, one process with I/O;
`CreatPeriod` is 1 or 2 where the program has 10, so that a process is created while
another one runs; the time slice is one tick, so that it ends inside a burst. Two CPUs
are enough for a preemption by another CPU's event and for one idle CPU beside a busy
one; the theorems hold for any number. One spurious wake-up is enough to let the
supervisor go on while a CPU thread schedules. Fairness: weak fairness for the
supervisor, and strong fairness for a CPU thread, which wants `simulator_mutex` again
and again while the supervisor holds it in every tick. `mt_safe_usleep` between two
ticks is what justifies it. Deadlock is checked in every run: `exit` and a crash are
the only ends.

Some properties say `Undisturbed =>`: the program can lose an event (below), and
after that, or after a spurious wake-up of the supervisor, a process may be on two CPUs.
`NoProcessVanishes`, `WorkConserving`, `HandlersKnowTheProcess`, `TailPointsToTheLast` and
`EndsAfterAll` hold even then, and `EventuallyDone` asks only that no end of a burst is lost
(`EndOfBurstLost`): a `CPU_PREEMPT` that is lost lets a process run on with a timer below zero, which
no tick finds at zero again (`os-sim.c:478`), and does not keep the simulation from ending.

What is proved, for every number of CPUs, every table of well-formed programs, any
garbage in `current[]` and any number of spurious wake-ups. `WellFormed` says what
`process.c` writes down: CPU and I/O bursts take turns, with a CPU burst at the start
and `OP_TERMINATE` at the end.

In `OsProofs`, with lost events too:

* `HandlersTheorem`: `Spec => []HandlersKnowTheProcess`. The invariant `KnowInv` follows
  the value through `schedule`: between `Switch` and `Store` the simulator's record is
  what the thread has chosen, and at `Top` either there is none or the two agree.
* `TailTheorem`: `Spec => []TailPointsToTheLast`. `QueueInv` adds that the queue is a
  list; `SomePlace` (the place that `queue_ordered_push` looks for exists) needs a least
  element, from the well-foundedness of the naturals.
* `WorkConservingTheorem`: `Spec => []WorkConserving`. `WorkInv` adds `QueueInv` (a node
  pushed behind a dangling `tail` would not count) and that only threads in `idle` are in
  its wait set; each step moves one process and one taker or signal.
* `TypeCorrectness`: `Spec => []TypeOK`. `TypeOK` says that no process runs off the end of
  its program, and this is not inductive: the I/O queue could hold one process twice, and
  the second request would move it on from an `OP_TERMINATE`. `IoInv` says that its requests
  are of different processes, each at its `OP_IO`; `WakeInv`, that `wake_up` has a process.
* `EndsAfterAllTheorem`: `Spec => []EndsAfterAll`. `EndInv` counts: the processes
  already counted, and the CPUs whose `CPU_TERMINATE` is raised or being counted, are together
  no more than the processes at their end; an event that is lost only lowers the sum.
* `NoProcessVanishesTheorem`: `Spec => []NoProcessVanishes`. `PlaceInv` says that a process
  that was created and has not ended is on a CPU, in a queue or about to be woken, and, in
  `EventInv`, that a thread that drops a process as terminated is right to do so.

In `OsPlaces`, for the states without a lost event and without a spurious wake-up
(`Undisturbed`): `ExactlyOnePlaceTheorem`, `LongestFirstTheorem`, `GanttTheorem`, and the
action property `LifeCycleTheorem`. A count over all places is not inductive; the invariant
`UndisturbedInv` has instead

* `LockStepInv`: the supervisor waits exactly for the CPU that is at work on an event, so
  that it moves no process while a CPU thread does;
* `DivideInv`: the ready queue, the I/O queue, the process that `wake_up` is called for
  and the CPUs divide the live processes between them, as pairwise exclusions;
* `StateInv`: a process's state says which of these it is in, but for the one whose event
  a CPU thread has yet to mark (`Yields`, `Ends`);
* `SortedInv`: under LRTF the queue is sorted by `time_remaining`, which changes only for
  processes that `DivideInv` says are not in the queue.

Only model-checked: `EventuallyDone`, since liveness is out of the prover's reach.

## The out-of-order processor

| Module | Models |
|---|---|
| `ProcSim` | a cycle of `run_proc`: `UpdateState`, `ExecuteInstr`, `ScheduleInstr`, `DispatchInstr`, `FetchInstr`, `UpdateState2`, in the order of the calls, each with its whole loop over the rows |
| `Dataflow` | what the processor promises: when an instruction may start |
| `ProcProofs` | theorems on types, units and times |
| `ProcDataflow` | theorems on the values that instructions wait for, on what retires, on the order of the rows, and the refinement |
| `ProcTime` | the theorem that the processor stops in time |
| `MCProcSim` | the programs TLC runs, and the merge sort of glibc |

The trace is the only nondeterminism; the processor is deterministic. The dispatch
queue is a window of the trace, and a row holds the sequential tag of its instruction.
The refinement mapping of `ImplementsDataflow` makes an instruction `unread`, `waiting`,
`executing` or `done` by where it is (`Phase`), and `mispredicted` the set of branches read
whose prediction was wrong: `Dataflow` knows neither rows nor tags, so that the
refinement shows that renaming, the search for conflicting accesses, the two
sorts' order and the branch stall together never start an instruction too early.

| Run | Instance | Shows |
|---|---|---|
| `procsim` | all 6561 programs of four instructions of nine kinds, four of six to ten, two loops of two or three instructions that go round two or three times, and two of odd length that end while no row is occupied; one adder, one multiplier, two load/store units, four rows, fetch of two, one bit of history, a cache of two lines | `TypeOK`, `UnitsConserved`, `StagesInOrder`, `ExecutesWithValues`, `AllRetire`, `RetiresInTime`, `ImplementsDataflow`, `OldestFirst` |

Bounds: four instructions hold a producer, a consumer, a conflicting access and a branch
in any order; four rows make the queue fill up; the long programs make rows free and
used again in another order, and train the predictor; in the loops one branch, at one address,
is read several times, and its entry in the branch table is trained while it is in flight. An
address of an instruction is a number of the trace (`inst_addr`), counted in instructions. One register suffices for
renaming (each new writer is a new tag). Liveness is not needed: `RetiresInTime` bounds
the cycles by what the instructions take if none overlaps with another (`CyclesFor`), and
three to fill and empty the pipeline, and at the end every instruction but the NOPs has
retired once (`AllRetire`); deadlock is checked.
`ExecutesWithValues` is the part of `ImplementsDataflow` that rests on tags and on the
branch stall, and not on the order of the rows; it is stated of the instructions that are
being executed, with the guards `HasValues` and `NotSpeculative` of `Dataflow`.

Where the code needed a decision: `procsim.h` lacks fields that `procsim.c` uses, whose
types follow from the use; `compare_sq` is no order of all rows, so that the result of
`qsort` depends on the algorithm: `qsort` is a constant operator that gives the rows some
order from what the comparison says of each two of them, and TLC's is the merge sort of
glibc. `SortAssumption` says that each row is there. `StableAssumption` says that the sort is
stable, and says it only of the comparisons that order the rows together with their
places (`Consistent`); of any other comparison nothing is assumed. The C standard does not
promise a stable sort; glibc's is. The dispatch queue is an array of 2 000 000
entries that never wraps, so that a trace that fits needs no bound. `FreeUnit` is only used when a
unit is free: the code counts the free ones in `ls_unit`, and `UnitsConserved`,
which is proved, says that its search then finds one.

What is proved, for every trace of instructions, any numbers of units, rows and
registers, and every size of the cache and of the branch table. For every `qsort` that
loses no row:

* `TypeCorrectness`, `Spec => []TypeOK`;
* `UnitsConservedTheorem`, `Spec => []UnitsConserved`;
* `StagesInOrderTheorem`, `Spec => []StagesInOrder`;
* `ExecutesWithValuesTheorem`, `Spec => []ExecutesWithValues`;
* `AllRetireTheorem`, `Spec => []AllRetire`;
* `RetiresInTimeTheorem`, `Spec => []RetiresInTime`;

and for every one that is also stable:

* `OldestFirstTheorem`, `Spec => OldestFirst`;
* `RefinementTheorem`, `Spec => ImplementsDataflow`.

The first three follow from one inductive invariant, `Inv`, none of whose parts is inductive alone:

* `TypeInv` and `QueueInv`: the three ends of the dispatch queue are in order, the
  occupied rows hold different instructions, all of them dispatched, and `inst_cnt_sq`
  counts them. Without it an instruction could have its time stamped twice.
* `UnitsInv`: `UnitsConserved`, and that no two accesses at work have the same unit; without
  the second, the end of one would free the unit of the other.
* `ClockInv`: between `execute_instr` and `update_state_2`, the rows with `remaining_time` -1
  are those of `finished_fu`; elsewhere none is below zero. This is what keeps a unit
  from being given back twice.
* `TimesInv`: how many times an instruction has follows from where it is, the last of them is
  of an earlier cycle as long as the step that adds the next one is ahead (`Late`), and
  what retires has five.

The loops over the rows are functions of the number of rows done (`EachRow`). The prover has
no induction over an operator, so each loop has a lemma (`RunLoop`, `IssueLoop`, `FillLoop`,
`RetireLoop`) that carries a family of sets `I[m]` over it, from `I[0]` to
`I[schedule_queue_size]`; it rests on the induction theorem for sets (`UpTo`). The rest is
what an iteration keeps (`RanType`, `IssueKeeps`, `FillKeeps`) and that a
rearrangement of the rows keeps all that is said of them (`PermutedRows`).

The next two, `ExecutesWithValues` and `AllRetire`, need `DataInv` beside it, which says
what the code never looks up, the instruction behind a tag. A row is *live* until its result is passed on:

* `KeptOK`: every instruction that was dispatched is a NOP, has retired, or is in a live row;
* `StallOK`: a mispredicted branch that was dispatched has retired, or it was the last to be
  dispatched and the dispatch stands still;
* `TagsOK`: the occupied rows have different tags, below `instr_tag`;
* `SourcesOK` and `RegistersOK`: a source, or a register, that is not ready has the tag of
  a live row that holds the last instruction before it that writes the register; if it is
  ready, that instruction has retired (`Comes`, `WriterOf`);
* `ReadyOK`: a row that has fired has both its sources;
* `OnceInv`: what retires is no NOP and retires once, and what the loop of `run_proc` has
  found when it ends.

`SourcesOK` would not be inductive without `RegistersOK`, from which `dispatch_instr` copies the
tags; nor that without `TagsOK`, as a finished row with the same tag would make a
register ready for the wrong value (`PassedOn`). `StallOK` keeps the one flag
`branch_started` for one branch. Two lemmas carry it all over a step: `FlowMoves` when rows
move or change otherwise, and `FlowStep` from the rows that a step makes to the next state.

The last two depend on the order of the rows, as `schedule_instr` takes them as they come.
`OrderInv` (`OrderInvariant`) says what is known of it:

* `ZerosOK`: the rows with tag 0, but for the first row, are free and behind all others. A
  free row with tag 0 is equal to every row by `compare_sq`, and could separate rows that are
  out of order. Because of `ZerosOK`, comparison and places together do order the rows
  (`RankIsComparison`, `SortedRows`), as `StableAssumption` asks: tag 0 in the first row, the
  occupied rows by age, and the free rows by their places;
* `SortedOK`: so the occupied rows are sorted by age from `update_state_2` to `schedule_instr`.
  `dispatch_instr` may put a younger instruction in front of an older one, which the next sort
  mends before the next `schedule_instr`;
* `MarkedOK`: an instruction that executes is still marked (`ls_conflict_end`), until its result is
  passed on. With `SortedOK`, and the marks that the loop has made of the rows above, each
  older access that is not over is in the search when an access fires.

`OldestFirst` follows by carrying through the loop that the counter of a kind of unit only
falls (`IssueShape`, `IssueOrderKeeps`, `ScheduledOrder`). For the refinement, `UpdateState` is the
`Finish` of the abstract machine, `ScheduleInstr` its `Start` and `FetchInstr` its `Read`
(`UpdateRefines`, `ScheduleRefines`, `FetchRefines`); the other steps stutter (`SameMapping`). The
guards of `Start` are those of `ExecutesWithValues`, from `DataInv`, and the order of
conflicting accesses, from `OrderInv` (`StartsInOrder`).

`RetiresInTime` is a bound on the number of cycles, and says that the processor stops:
nothing that it holds, a row, a unit, or the stall, is held for ever. It is no fact about one
state, and the invariant `TimeInv` is an account (`Covers`). An instruction earns, cycle by cycle while it
executes, the cycles that it may take (`Earned`, up to `CyclesFor`); every cycle of the
processor costs one; and there are three at the start. Then `cycle` can be no more than three and
the sum of `CyclesFor` over the trace. The step lemmas `UpdateTime` ... `SortTime` show that the
account is never overdrawn:

* In a cycle in which a live row has fired, at least one instruction earns (`ExecuteTime`). If
  none has, `schedule_instr` fires one: the oldest live instruction has its sources, no older
  access to wait for, and a unit, since none executes (`OldestStarts`, `StartsFires`).
* In the other cycles nothing executes: the next instructions have to be dispatched, or
  wait for a row that is free only in the next cycle. `Reserve` and `Coming` say how many of
  these are to come, at most three, and `Enough` that the account has them in hand. They are paid for by what
  was earned beside others: by the cycle an instruction earns when it fires, by the NOPs that
  were dropped (`DropEarns`, `IdleEarns`), and by the second cycle that a branch earns at its end (`Bonus`).
* `WorkInv` says why it does not stand still otherwise: an instruction that has fired has a
  time to count down (`WorkOK`), the stall is for the last instruction dispatched (`StalledOK`), and
  the dispatch queue has something to dispatch as long as the trace goes on (`FedOK`).

The bound is a sum over the trace, a recursive function. What it grows by when some of its terms do
(`TotalGrows`) follows by the induction on a set that the loops use too (`UpTo`). None of this rests on
the order of the rows, so that it needs no stable sort.

Nothing of the processor is only model-checked.

## The cache simulator

| Module | Models |
|---|---|
| `CacheSim` | `cachesim_init`, `cachesim_access` as `Hit`, `Fill` and `Replace` in the way that ends the loop, `update_cachesim_lru_access`, `lru_stack_kickout` |
| `LruCache` | a cache of sets of lines, ordered by their last access, that replaces the oldest |
| `CacheProofs` | the theorems |
| `MCCacheSim` | the blocks TLC accesses |

The refinement mapping of `ImplementsLru` takes the tags of the valid rows as the lines of a
set (`Lines`), and the pairs of lines in the order of their ways' places in the stack as
their order (`Older`). `call`, `written` and `owed` are history: the access, the
ways written since they were loaded, and the write-backs that were due.

| Run | Instance | Shows |
|---|---|---|
| `cachesim` | 3 sets of 3 ways, of which 2 are in use, 6 blocks, 7 accesses, tags cut to 2 bits | `TypeOK`, `StackIsPermutation`, `EachLineOnce`, `NoneTooMany`, `ImplementsLru` |
| `cachesim_writebacks` | 2 sets of 2 ways, 5 accesses | `EveryWritebackCounted` is violated |

Bounds: five of the blocks compete for the three ways of one set, two of them with one
tag, as addresses that differ above the bits an `int` keeps (the traces, with 32-bit addresses, have
no such pair; the properties are about tags); the sixth is in the other
set. The number of sets is no power of two: `index_length` is the logarithm cut to an integer, so that
the third set is never used. Seven accesses fill a set, touch it in any order and replace several lines. The
theorems have none of these bounds. The last conjunct of `CacheAssumption`, that
`index_count` is between 1 and `cache_count`, follows from its definition; the provers do not know
exponentiation, and TLC evaluates it.

What is proved, for every number of ways, sets, blocks and accesses: `TypeCorrectness`,
`StackTheorem`, `EachLineOnceTheorem` and `NoneTooManyTheorem`, by one inductive invariant,
their conjunction `IInv` (a way is found in its stack only because the stack is a permutation,
and what is replaced is a way only because the stack holds ways); and
`RefinementTheorem`, `Spec => ImplementsLru`: moving a way to the end of the stack is
making its line the youngest (`FromTo` and the lemmas on places), and the way at the
left end of a full set holds its oldest line.

## The searches

| Module | Models |
|---|---|
| `Queens` | an iteration of the main loop of `back_track_search` (`BackTrack`), `bt_fc` (`ForwardCheck`) and `dvo` (`DynamicOrder`), with the selection of a value, the pruning and the resets |
| `QueensProofs` | the theorems |
| `MCQueens` | the boards |

`book_keeping[c]` is the copy of all domains that is made when a variable is
reached first and taken back from the level above. In `dvo` the variables change places
(`Rearranged`), while `path` and the copies are kept by column. The end of the
loop is `Return`, with the test of each search on its counter.

| Run | Instance | Shows |
|---|---|---|
| `queens` | the three searches, both orders of `dvo`, boards of 1 to 6 | `TypeOK`, `PathIsConsistent`, `NothingSkipped`, `GivesUpRightly`, `SearchEnds` |
| `queens_dvo` | `dvo` | `SolvesIfSolvable` is violated |

Bounds: boards of 2 and 3 have no solution, 4 and 6 need several dead ends, 5 none.
`Solutions` is counted from its definition. The outcomes agree with what the program does
for these boards. Fairness: weak fairness of `Next`, one thread that keeps running.
`bt_fc` and `dvo` count their variables from 0 and test `i == 0`, which is one too late: a
problem without solution ends in a `TypeError`, which `GivesUpRightly` counts as giving
up, so that it speaks of the domains. The `TypeError` comes from `book_keeping_domain_list[-1]`, the
copy of the last queen (`bt_fc.py:68`); if there were one, the loop would end with an empty path, which
`PathIsConsistent` excludes. `dvo` tries one value of each variable only.

What is proved, in `QueensProofs`, for boards of every size:

* `TypeCorrectness`: `Spec => []TypeOK`, by `TypeInv` (the board and every copy hold each
  column once, in order but in `dvo`) and `LevelInv` (with forward checking just the
  variables that have been reached have a copy, and it agrees with the board about the
  variables up to its own). Without `LevelInv` a board taken back from a copy could bring a
  variable twice, and the first variable could be taken back, below the list.
* `PathIsConsistentTheorem`: `Spec => []PathIsConsistent`, for the three searches. `FitInv` adds
  that all that is left in a domain fits the queens placed before (`Fits`), in the copies as
  on the board: a retreat takes a domain from a copy made at an earlier level.
* `NothingSkippedTheorem` and `GivesUpRightlyTheorem`, for back tracking and forward
  checking. `SkipInv` extends `NothingSkipped` to the copies: a solution that agrees with the
  path up to a level is still in the domains of that level's copy. When no value is left,
  a solution that agreed with the path would be one (`SolutionFitting`, `SolutionLeaving`), so
  that the value taken back is rightly gone; at the first variable there is then none.

Two operators are written with these proofs in mind: `Remaining` is a function on the length
of the domain, shown to exist by an induction that the library's theorems allow for a set
(`UpTo`), and `Rearranged` gives each variable its rank in the stable order, shown to be
a permutation by counting (`RearrangedPermutes`). Only model-checked: `SearchEnds`.

## Findings

| Run | The program says | What it does |
|---|---|---|
| `coherence_stuck_processor` | "Done once at end of trace and no outstanding requests" (`processor.cpp:29`) | `outstanding_request` is not initialised; if it is not zero the simulator never ends |
| `os_never_exits` | "Exit when all processes terminate" (`os-sim.c:181`) | a CPU thread coming back from `idle` overwrites an event that was raised meanwhile (`os-sim.c:243`); a lost `CPU_TERMINATE` is never counted |
| `os_unprotected` | the lock's purpose is "to protect the state variable of the PCB structures" (`os-sim.c:78`) | `schedule` called from `idle` writes it without the lock |
| `os_preempts_while_idle` | if a CPU is idle, "wake_up() should not preempt any CPUs" (`student.c:252`) | `current[]` of an idle CPU is stale, and another CPU is preempted |
| `cachesim_writebacks` | "Determine if writeback is needed" (`cachesim.c:163`) | a line that replaces another is clean even if the access writes it (`cachesim.c:125`), and its own write-back is not counted |
| `queens_dvo` | "The problem is inconsistent" (`dvo.py:139`) | only one value of a variable is tried (`dvo.py:49`): four queens are given up |

Seen in the code while modelling it, in the model, and without a run of its own:
`current[]` comes from `malloc` and `wake_up` reads it before anything has set it (the
model crashes in `WakeUpScan` when it meets a wild pointer); LRTF passes `time_remaining`
as the time slice, where `os-sim.h:80` speaks of an infinite one; a process preempted
under round robin is queued by its remaining time and not at the end; `dvo` with `least`
takes the variable with the largest domain first; the end of a time slice that
is lost is never seen again; `bt_fc` ends in a `TypeError` on every board without a solution, where
`bt_fc.py:84` has "The problem is inconsistent"; one multiplication fires in a
cycle (`sche_mul_unit`, `procsim.c:424`), although `procsim.h:31` calls K1 the number of units:
`mul_unit` is set from it and never used, and with two multipliers one stands idle.

## Not modelled

* `MOESI_protocol.cpp` has no states: its handlers are `fatal_error`.
* `settings.cpp`, `main.cpp`, `procsim_driver.c`: command lines, parsing and printing. The
  models take what they produce as CONSTANTS or as the nondeterministic trace.
* `preq.cpp`, `sharers.cpp`, `sim_analysis.cpp`: compiled, and used by no run of the simulator.
* `call_all.py` measures times, and imports a module that the repository lacks.
* Statistics other than the hits and write-backs of the cache, and data values, which
  the coherence simulator and the processor do not have in their traces.

## Plan

What the plan had is modelled and proved, except what this prover cannot reach: the
liveness properties `EveryRequestAnswered`, `FinishesIfCleared`, `EventuallyDone` and
`SearchEnds`. They stay with TLC.

## Checking

    tlc -workers 2 -config CoherenceThreeNodes.cfg MCCoherenceSim.tla
    tlc -workers 2 -config OsSchedulers.cfg MCOsSim.tla
    tlc -workers 2 -config ProcSim.cfg MCProcSim.tla
    tlc -workers 2 -config CacheSim.cfg MCCacheSim.tla
    tlc -workers 2 -config Queens.cfg MCQueens.tla
    tlapm CoherenceProofs.tla        (and OsProofs, OsPlaces, CacheProofs,
                                      ProcProofs, ProcDataflow, ProcTime,
                                      QueensProofs)

Operators under a comment that begins with `Mutant:` are faulty variants of the
definition below them. Putting one in its place makes the property that `PROJECT.json`
names fail, which shows that the property depends on that piece of the code.
