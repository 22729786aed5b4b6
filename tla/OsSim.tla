-------------------------------- MODULE OsSim -------------------------------
(***************************************************************************)
(* The multithreaded OS simulator of comp_arch/process_schedule/src: the   *)
(* supervisor thread of os-sim.c, which does all the simulated work, one   *)
(* thread per CPU, and the handlers of student.c that they call.           *)
(*                                                                         *)
(* A step is what a thread does between two points where it takes or drops *)
(* a lock.  The supervisor holds simulator_mutex over several steps, hence *)
(* the variable held; every other critical section is one step.  A thread  *)
(* that waits for a condition is in its wait set, and a signal takes one   *)
(* thread out.                                                             *)
(*                                                                         *)
(* Left out: the counters of print_gantt_line and context_switches, which  *)
(* are only printed, and the usage message.                                *)
(***************************************************************************)
EXTENDS Integers, FiniteSets, ReadyQueue

CONSTANTS
    CpuCount,      \* cpu_count
    Program,       \* processes[]: the sequence of operations of each process
    FirstTime,     \* processes[]: the initial time_remaining of each process
    Modes,         \* the schedulers: "f" FIFO, "l" longest time first, "r" round robin
    Timeslice,     \* timeslice, in ticks
    CreatPeriod,   \* ticks between two process creations (10 in simulate_creat)
    Spurious,      \* bound: spurious wake-ups under each scheduler
    Garbage,       \* what malloc may leave in current[] under each scheduler: NULL, WILD
    NULL, WILD     \* the null pointer, and a pointer to nothing

Cpu  == 0 .. CpuCount - 1
Proc == DOMAIN Program        \* 0 .. PROCESS_COUNT - 1

\* The operations alternate, from OP_CPU to OP_CPU, and OP_TERMINATE follows (the
\* comment of process.c).
WellFormed(ops) ==
    /\ ops \in Seq([type : {"OP_CPU", "OP_IO", "OP_TERMINATE"}, time : Nat])
    /\ ops # <<>> /\ ops[1].type = "OP_CPU" /\ ops[Len(ops)].type = "OP_TERMINATE"
    /\ \A k \in 1 .. Len(ops) - 1 :
          \/ ops[k].type = "OP_CPU" /\ ops[k + 1].type \in {"OP_IO", "OP_TERMINATE"}
          \/ ops[k].type = "OP_IO"  /\ ops[k + 1].type = "OP_CPU"

ASSUME OsAssumption ==
    /\ CpuCount \in Nat \ {0} /\ CreatPeriod \in Nat \ {0} /\ Timeslice \in Nat \ {0}
    /\ Modes \subseteq {"f", "l", "r"}
    /\ NULL \notin Proc /\ WILD \notin Proc /\ NULL # WILD
    /\ Spurious \in [Modes -> Nat] /\ Garbage \in [Modes -> SUBSET {NULL, WILD}]
    /\ IsFiniteSet(Proc) /\ Proc = 0 .. Cardinality(Proc) - 1
    /\ \A p \in Proc : WellFormed(Program[p])
    /\ FirstTime \in [Proc -> Nat \ {0}]

VARIABLES
    mode,            \* student.c: set by main, and never changed
    pstate,          \* pcb->state
    pc,              \* pcb->pc: the index of the current operation
    left,            \* pcb->pc->time, counted down in place
    time_remaining,  \* pcb->time_remaining
    ready_queue,     \* student.c
    current,         \* student.c: the process each CPU was given last
    cpu_current,     \* simulator_cpu_data[].current
    cpu_state,       \* simulator_cpu_data[].state
    timer,           \* simulator_cpu_data[].preemption_timer
    io_queue,        \* requests [pcb, execution_time], first in first out
    terminated,      \* processes_terminated
    created,         \* processes_created
    clock,           \* simulator_time, modulo CreatPeriod
    held,            \* the supervisor holds simulator_mutex
    waiting,         \* waiting[c]: who waits for simulator_cpu_data[c].wakeup
    idle_waiting,    \* the CPU threads that wait for idle_cond
    writers,         \* student_lock.writers
    spurious,        \* bounded counter: waits that have ended without a signal
    sup,             \* what the supervisor does next
    back,            \* where it goes on when wake_up returns
    n,               \* the CPU its loop, or force_preempt, is about
    woken,           \* the argument of wake_up
    cpu,             \* what each CPU thread does next
    event,           \* local variable state of simulator_cpu_thread
    ready_process,   \* local variable of schedule
    preemption_time, \* the argument of context_switch
    pending,         \* history: an event was raised and not picked up
    lost             \* history: an event was overwritten before it was picked up

pcbs    == <<pstate, pc, left, time_remaining>>
student == <<ready_queue, current>>
cpus    == <<cpu_current, cpu_state, timer>>
library == <<io_queue, terminated, created, clock>>
locks   == <<held, waiting, idle_waiting, writers>>
chosen  == <<ready_process, preemption_time>>
threads == <<sup, back, n, woken, cpu, event, chosen>>
history == <<pending, lost>>
vars    == <<mode, spurious, pcbs, student, cpus, library, locks, threads, history>>

Events == {"CPU_PREEMPT", "CPU_YIELD", "CPU_TERMINATE"}

Op(p) == Program[p][pc[p]].type

Init ==
    /\ mode \in Modes /\ spurious = 0
    /\ pstate = [p \in Proc |-> "PROCESS_NEW"]
    /\ pc = [p \in Proc |-> 1]
    /\ left = [p \in Proc |-> Program[p][1].time]
    /\ time_remaining = FirstTime
    /\ ready_queue = EmptyQueue
    /\ current \in [Cpu -> Garbage[mode]]
    /\ cpu_current = [c \in Cpu |-> NULL]
    /\ cpu_state = [c \in Cpu |-> "CPU_IDLE"]
    /\ timer = [c \in Cpu |-> -1]
    /\ io_queue = <<>> /\ terminated = 0 /\ created = 0 /\ clock = 0
    /\ held = FALSE /\ waiting = [c \in Cpu |-> {}] /\ idle_waiting = {} /\ writers = 0
    /\ sup = "sleep" /\ back = "creat" /\ n = 0 /\ woken = NULL
    /\ cpu = [c \in Cpu |-> "top"]
    /\ event = [c \in Cpu |-> "CPU_IDLE"]
    /\ ready_process = [c \in Cpu |-> NULL] /\ preemption_time = [c \in Cpu |-> -1]
    /\ pending = [c \in Cpu |-> FALSE] /\ lost = FALSE

-----------------------------------------------------------------------------
(* The supervisor: simulator_supervisor_thread. *)

SupervisorAt(step) == sup = step

\* Mutant: the count is compared one off.
AllButOne     == terminated + 1 >= Cardinality(Proc)
AllTerminated == terminated >= Cardinality(Proc)

\* Exit when all processes have terminated, else go through one tick.
Lock ==
    /\ SupervisorAt("sleep") /\ ~held
    /\ IF AllTerminated
       THEN sup' = "done" /\ held' = held
       ELSE sup' = "gantt" /\ held' = TRUE
    /\ UNCHANGED <<pcbs, student, cpus, library, waiting, idle_waiting, writers, back, n,
                   woken, cpu, event, chosen, history>>

\* print_gantt_line reads the states of the processes as a reader of student_lock.
PrintGanttLine ==
    /\ SupervisorAt("gantt") /\ writers <= 0
    /\ sup' = "cpus" /\ n' = 0
    /\ UNCHANGED <<pcbs, student, cpus, library, locks, back, woken, cpu, event, chosen,
                   history>>

\* Mutant: the loop goes on to cpu_count.
NextCpuTooFar == IF n = CpuCount THEN sup' = "io" /\ n' = 0 ELSE sup' = "cpus" /\ n' = n + 1

\* The loop of simulate_cpus goes on.
NextCpu == IF n = CpuCount - 1 THEN sup' = "io" /\ n' = 0 ELSE sup' = "cpus" /\ n' = n + 1

\* An event for CPU c: wake its thread and wait until the scheduler has run.
Raise(c, ev) ==
    /\ cpu_state' = [cpu_state EXCEPT ![c] = ev]
    /\ waiting' = [waiting EXCEPT ![c] = {"supervisor"}]
    /\ pending' = [pending EXCEPT ![c] = TRUE]
    /\ lost' = (lost \/ pending[c])
    /\ held' = FALSE

\* pcb->pc++ and the fields that follow it.
Advance(p) ==
    LET t == Program[p][pc[p] + 1].time
    IN  /\ pc' = [pc EXCEPT ![p] = @ + 1]
        /\ left' = [left EXCEPT ![p] = t]
        /\ time_remaining' = [time_remaining EXCEPT ![p] = t + 1]

\* simulate_process: one tick of a burst; its end may be the end of the time slice.
RunBurst ==
    /\ SupervisorAt("cpus")
    /\ LET p == cpu_current[n]
       IN  /\ p # NULL /\ Op(p) = "OP_CPU" /\ left[p] > 0
           /\ left' = [left EXCEPT ![p] = @ - 1]
           /\ time_remaining' = [time_remaining EXCEPT ![p] = left[p]]
    /\ timer' = [timer EXCEPT ![n] = @ - 1]
    /\ IF timer[n] = 1
       THEN /\ Raise(n, "CPU_PREEMPT")
            /\ sup' = "event" /\ n' = n
       ELSE /\ NextCpu
            /\ UNCHANGED <<cpu_state, held, waiting, history>>
    /\ UNCHANGED <<pstate, pc, student, cpu_current, library, idle_waiting, writers, back,
                   woken, cpu, event, chosen>>

\* simulate_process: the burst is over, and the process goes on to its I/O or ends.
EndBurst ==
    /\ SupervisorAt("cpus")
    /\ LET p    == cpu_current[n]
           next == Program[p][pc[p] + 1]
       IN  /\ p # NULL /\ Op(p) = "OP_CPU" /\ left[p] = 0
           /\ Advance(p)
           /\ \/ /\ next.type = "OP_IO"
                 /\ io_queue' = Append(io_queue, [pcb |-> p, execution_time |-> next.time])
                 /\ Raise(n, "CPU_YIELD")
              \/ /\ next.type = "OP_TERMINATE"
                 /\ Raise(n, "CPU_TERMINATE")
                 /\ UNCHANGED io_queue
    /\ sup' = "event"
    /\ UNCHANGED <<pstate, student, cpu_current, timer, terminated, created, clock,
                   idle_waiting, writers, back, n, woken, cpu, event, chosen>>

\* simulate_process: no process, or one that waits for I/O or has terminated,
\* which the simulator only complains about.
NothingToRun ==
    /\ SupervisorAt("cpus")
    /\ cpu_current[n] # NULL => Op(cpu_current[n]) # "OP_CPU"
    /\ NextCpu
    /\ UNCHANGED <<pcbs, student, cpus, library, locks, back, woken, cpu, event, chosen,
                   history>>

\* Mutant: the supervisor does not wait until the scheduler has run.
GoesOnAtOnce == ~held
SchedulerRan == "supervisor" \notin waiting[n] /\ ~held

\* The supervisor has been signalled, and has simulator_mutex again.
SchedulerHasRun ==
    /\ SupervisorAt("event") /\ SchedulerRan
    /\ held' = TRUE
    /\ NextCpu
    /\ UNCHANGED <<pcbs, student, cpus, library, waiting, idle_waiting, writers, back, woken,
                   cpu, event, chosen, history>>

\* Calling wake_up(p) without simulator_mutex, to go on at step s.
CallWakeUp(p, s) == woken' = p /\ sup' = "wake" /\ back' = s /\ held' = FALSE

\* simulate_io: only the request at the head makes progress.
SimulateIo ==
    /\ SupervisorAt("io")
    /\ \/ /\ io_queue = <<>>
          /\ sup' = "creat"
          /\ UNCHANGED <<io_queue, pc, left, time_remaining, woken, back, held>>
       \/ /\ io_queue # <<>> /\ Head(io_queue).execution_time > 0
          /\ io_queue' = [io_queue EXCEPT ![1].execution_time = @ - 1]
          /\ sup' = "creat"
          /\ UNCHANGED <<pc, left, time_remaining, woken, back, held>>
       \/ /\ io_queue # <<>> /\ Head(io_queue).execution_time = 0
          /\ Advance(Head(io_queue).pcb)
          /\ io_queue' = Tail(io_queue)
          /\ CallWakeUp(Head(io_queue).pcb, "creat")
    /\ UNCHANGED <<pstate, student, cpus, terminated, created, clock, waiting, idle_waiting,
                   writers, n, cpu, event, chosen, history>>

EndTick == sup' = "sleep" /\ held' = FALSE /\ clock' = (clock + 1) % CreatPeriod

\* Mutant: the last process is never created.
CreatesTooFew == clock = 0 /\ created < Cardinality(Proc) - 1
TimeToCreate  == clock = 0 /\ created < Cardinality(Proc)

\* simulate_creat, and the end of the tick when there is nothing to create.
SimulateCreat ==
    /\ SupervisorAt("creat")
    /\ IF TimeToCreate
       THEN CallWakeUp(created, "created") /\ UNCHANGED clock
       ELSE EndTick /\ UNCHANGED <<woken, back>>
    /\ UNCHANGED <<pcbs, student, cpus, io_queue, terminated, created, waiting, idle_waiting,
                   writers, n, cpu, event, chosen, history>>

\* wake_up has returned, and the supervisor has simulator_mutex again.
WakeUpReturned ==
    /\ SupervisorAt("return") /\ ~held
    /\ IF back = "created"
       THEN created' = created + 1 /\ EndTick
       ELSE sup' = "creat" /\ held' = TRUE /\ UNCHANGED <<created, clock>>
    /\ UNCHANGED <<pcbs, student, cpus, io_queue, terminated, waiting, idle_waiting, writers,
                   back, n, woken, cpu, event, chosen, history>>

-----------------------------------------------------------------------------
(* wake_up, in the supervisor's thread. *)

WakeUpMark ==
    /\ SupervisorAt("wake")
    /\ writers' = writers + 1
    /\ pstate' = [pstate EXCEPT ![woken] = "PROCESS_READY"]
    /\ sup' = "wake_push"
    /\ UNCHANGED <<pc, left, time_remaining, student, cpus, library, held, waiting,
                   idle_waiting, back, n, woken, cpu, event, chosen, history>>

WakeUpPush ==
    /\ SupervisorAt("wake_push")
    /\ ready_queue' = IF mode = "l" THEN queue_ordered_push(ready_queue, woken, time_remaining)
                                    ELSE queue_push(ready_queue, woken)
    /\ sup' = IF mode = "l" THEN "wake_scan" ELSE "wake_signal"
    /\ UNCHANGED <<pcbs, current, cpus, library, locks, back, n, woken, cpu, event, chosen,
                   history>>

\* The scan of current[] stops at the first null pointer; it reads what the
\* others point to.
SomeCpuIdle    == \E c \in Cpu : current[c] = NULL
ReadsWild      == \E c \in Cpu : current[c] = WILD /\ \A d \in 0 .. c : current[d] # NULL
ShortestCpu    == CHOOSE c \in Cpu :
                     /\ \A d \in Cpu : time_remaining[current[c]] <= time_remaining[current[d]]
                     /\ \A d \in 0 .. c - 1 :
                           time_remaining[current[c]] < time_remaining[current[d]]

WakeUpScan ==
    /\ SupervisorAt("wake_scan")
    /\ IF ReadsWild THEN sup' = "crashed" /\ n' = n
       ELSE IF ~SomeCpuIdle /\ time_remaining[current[ShortestCpu]] < time_remaining[woken]
       THEN sup' = "force" /\ n' = ShortestCpu
       ELSE sup' = "wake_signal" /\ n' = n
    /\ UNCHANGED <<pcbs, student, cpus, library, locks, back, woken, cpu, event, chosen,
                   history>>

\* force_preempt: not a CPU that has another event already.
ForcePreempt ==
    /\ SupervisorAt("force") /\ ~held
    /\ IF cpu_state[n] = "CPU_RUNNING"
       THEN /\ Raise(n, "CPU_PREEMPT")
            /\ writers' = writers - 1
            /\ sup' = "force_wait"
       ELSE /\ sup' = "wake_signal"
            /\ UNCHANGED <<cpu_state, held, waiting, history, writers>>
    /\ UNCHANGED <<pcbs, student, cpu_current, timer, library, idle_waiting, back, n, woken,
                   cpu, event, chosen>>

Preempted ==
    /\ SupervisorAt("force_wait") /\ SchedulerRan
    /\ writers' = writers + 1
    /\ sup' = "wake_signal"
    /\ UNCHANGED <<pcbs, student, cpus, library, held, waiting, idle_waiting, back, n, woken,
                   cpu, event, chosen, history>>

\* Mutant: a signal only if the queue was empty, which queue_push returns.
SignalIfFirst ==
    IF Len(ready_queue.list) = 1 /\ idle_waiting # {}
    THEN \E c \in idle_waiting : idle_waiting' = idle_waiting \ {c}
    ELSE UNCHANGED idle_waiting

\* pthread_cond_signal wakes one of the idle CPUs, if there is one.
SignalIdle ==
    \/ idle_waiting = {} /\ UNCHANGED idle_waiting
    \/ \E c \in idle_waiting : idle_waiting' = idle_waiting \ {c}

\* The end of wake_up, and of the critical section around it.
WakeUpSignal ==
    /\ SupervisorAt("wake_signal")
    /\ SignalIdle
    /\ writers' = writers - 1
    /\ sup' = "return"
    /\ UNCHANGED <<pcbs, student, cpus, library, held, waiting, back, n, woken, cpu, event,
                   chosen, history>>

-----------------------------------------------------------------------------
(* The thread of CPU c: simulator_cpu_thread and the handlers it calls. *)

CpuAt(c, step) == cpu[c] = step

Goto(c, step) == cpu' = [cpu EXCEPT ![c] = step]

\* The top of the loop: tell the supervisor that the scheduler has run, and
\* run the process it has chosen, or idle.
Top(c) ==
    /\ CpuAt(c, "top") /\ ~held
    /\ IF cpu_current[c] = NULL
       THEN /\ cpu_state' = [cpu_state EXCEPT ![c] = "CPU_IDLE"]
            /\ event' = [event EXCEPT ![c] = "CPU_IDLE"]
            /\ waiting' = [waiting EXCEPT ![c] = {}]
            /\ Goto(c, "idle")
       ELSE /\ cpu_state' = [cpu_state EXCEPT ![c] = "CPU_RUNNING"]
            /\ waiting' = [waiting EXCEPT ![c] = {"cpu"}]
            /\ Goto(c, "running")
            /\ UNCHANGED event
    /\ lost' = (lost \/ pending[c])
    /\ pending' = [pending EXCEPT ![c] = FALSE]
    /\ UNCHANGED <<pcbs, student, cpu_current, timer, library, held, idle_waiting, writers,
                   sup, back, n, woken, chosen>>

\* Signalled: the event says which handler to call.
Dispatch(c) ==
    /\ CpuAt(c, "running") /\ "cpu" \notin waiting[c] /\ cpu_state[c] # "CPU_RUNNING" /\ ~held
    /\ event' = [event EXCEPT ![c] = cpu_state[c]]
    /\ pending' = [pending EXCEPT ![c] = FALSE]
    /\ Goto(c, IF cpu_state[c] = "CPU_TERMINATE" THEN "count" ELSE "mark")
    /\ UNCHANGED <<pcbs, student, cpus, library, locks, sup, back, n, woken, chosen, lost>>

CountTerminated(c) ==
    /\ CpuAt(c, "count") /\ ~held
    /\ terminated' = terminated + 1
    /\ Goto(c, "mark")
    /\ UNCHANGED <<pcbs, student, cpus, io_queue, created, clock, locks, sup, back, n, woken,
                   event, chosen, history>>

NewState(ev) == IF ev = "CPU_PREEMPT" THEN "PROCESS_READY"
                ELSE IF ev = "CPU_YIELD" THEN "PROCESS_WAITING" ELSE "PROCESS_TERMINATED"

\* Mutant: yield puts the process back in the ready queue.
YieldQueues(c)  == event[c] # "CPU_TERMINATE"
BackInQueue(c)  == event[c] = "CPU_PREEMPT"

\* preempt, yield and terminate mark the current process; preempt queues it.
Mark(c) ==
    /\ CpuAt(c, "mark")
    /\ writers' = writers + 1
    /\ pstate' = [pstate EXCEPT ![current[c]] = NewState(event[c])]
    /\ Goto(c, IF BackInQueue(c) THEN "push" ELSE "pop")
    /\ UNCHANGED <<pc, left, time_remaining, student, cpus, library, held, waiting,
                   idle_waiting, sup, back, n, woken, event, chosen, history>>

\* Mutant: the process replaces those that wait.
QueuesOnly(c) == [list |-> <<current[c]>>, tail |-> 1]
Requeued(c)   == queue_ordered_push(ready_queue, current[c], time_remaining)

Requeue(c) ==
    /\ CpuAt(c, "push")
    /\ ready_queue' = Requeued(c)
    /\ Goto(c, "pop")
    /\ UNCHANGED <<pcbs, current, cpus, library, locks, sup, back, n, woken, event, chosen,
                   history>>

\* idle: block until the ready queue is not empty.
Idle(c) ==
    /\ CpuAt(c, "idle") /\ c \notin idle_waiting
    /\ IF ready_queue.list = <<>>
       THEN idle_waiting' = idle_waiting \cup {c} /\ UNCHANGED cpu
       ELSE Goto(c, "pop") /\ UNCHANGED idle_waiting
    /\ UNCHANGED <<pcbs, student, cpus, library, held, waiting, writers, sup, back, n, woken,
                   event, chosen, history>>

\* schedule: take a process off the ready queue, or none.
Pop(c) ==
    /\ CpuAt(c, "pop")
    /\ ready_process' = [ready_process EXCEPT ![c] = First(ready_queue, NULL)]
    /\ ready_queue' = queue_pop(ready_queue)
    /\ Goto(c, "select")
    /\ UNCHANGED <<pcbs, current, cpus, library, locks, sup, back, n, woken, event,
                   preemption_time, history>>

Slice(p) == IF p = NULL \/ mode = "f" THEN -1
            ELSE IF mode = "l" THEN time_remaining[p] ELSE Timeslice

\* Mutant: schedule leaves the state alone.
LeftReady(c) == pstate
Marked(c)    == IF ready_process[c] = NULL THEN pstate
                ELSE [pstate EXCEPT ![ready_process[c]] = "PROCESS_RUNNING"]

\* schedule marks the process, which no mutex protects, and calls context_switch with the
\* time slice; that gives student_lock back, whether the caller has it or not.
Select(c) ==
    /\ CpuAt(c, "select")
    /\ pstate' = Marked(c)
    /\ preemption_time' = [preemption_time EXCEPT ![c] = Slice(ready_process[c])]
    /\ writers' = writers - 1
    /\ Goto(c, "switch")
    /\ UNCHANGED <<pc, left, time_remaining, student, cpus, library, held, waiting,
                   idle_waiting, sup, back, n, woken, event, ready_process, history>>

\* context_switch: the simulator's part.
Switch(c) ==
    /\ CpuAt(c, "switch") /\ ~held
    /\ cpu_current' = [cpu_current EXCEPT ![c] = ready_process[c]]
    /\ timer' = [timer EXCEPT ![c] = preemption_time[c]]
    /\ Goto(c, "relock")
    /\ UNCHANGED <<pcbs, student, cpu_state, library, locks, sup, back, n, woken, event,
                   chosen, history>>

Relock(c) ==
    /\ CpuAt(c, "relock")
    /\ writers' = writers + 1
    /\ Goto(c, "store")
    /\ UNCHANGED <<pcbs, student, cpus, library, held, waiting, idle_waiting, sup, back, n,
                   woken, event, chosen, history>>

\* Mutant: current[] is set once for each CPU.
RecordedOnce(c) == IF current[c] = NULL THEN [current EXCEPT ![c] = ready_process[c]] ELSE current
Recorded(c)     == IF ready_process[c] = NULL THEN current
                   ELSE [current EXCEPT ![c] = ready_process[c]]

\* The end of schedule, and of the handler: idle has no lock to give back.
Store(c) ==
    /\ CpuAt(c, "store")
    /\ current' = Recorded(c)
    /\ writers' = IF event[c] = "CPU_IDLE" THEN writers ELSE writers - 1
    /\ Goto(c, "top")
    /\ UNCHANGED <<pcbs, ready_queue, cpus, library, held, waiting, idle_waiting, sup, back,
                   n, woken, event, chosen, history>>

-----------------------------------------------------------------------------
Tick == \/ Lock \/ PrintGanttLine \/ RunBurst \/ EndBurst \/ NothingToRun
        \/ SchedulerHasRun \/ SimulateIo \/ SimulateCreat \/ WakeUpReturned

WakeUp == \/ WakeUpMark \/ WakeUpPush \/ WakeUpScan \/ ForcePreempt \/ Preempted
          \/ WakeUpSignal

Supervisor == (Tick \/ WakeUp) /\ UNCHANGED <<mode, spurious>>

CpuThread(c) ==
    /\ \/ Top(c) \/ Dispatch(c) \/ CountTerminated(c) \/ Mark(c) \/ Requeue(c)
       \/ Idle(c) \/ Pop(c) \/ Select(c) \/ Switch(c) \/ Relock(c) \/ Store(c)
    /\ UNCHANGED <<mode, spurious>>

\* pthread_cond_wait may return without a signal.  The supervisor does not notice, in
\* simulate_process or in force_preempt.
SupervisorWakesUp ==
    /\ "supervisor" \in waiting[n]
    /\ waiting' = [waiting EXCEPT ![n] = {}]
    /\ UNCHANGED idle_waiting

\* idle looks at the queue again.
IdleWakesUp ==
    /\ \E c \in idle_waiting : idle_waiting' = idle_waiting \ {c}
    /\ UNCHANGED waiting

\* A CPU thread that waits for an event looks at its state again, which nobody has set.
SpuriousWakeUp ==
    /\ spurious < Spurious[mode]
    /\ spurious' = spurious + 1
    /\ SupervisorWakesUp \/ IdleWakesUp
    /\ UNCHANGED <<mode, pcbs, student, cpus, library, held, writers, threads, history>>

Exited == sup \in {"done", "crashed"}

\* exit(0), or a segmentation fault, ends all the threads.
Terminated == Exited /\ UNCHANGED vars

Next == \/ ~Exited /\ (Supervisor \/ (\E c \in Cpu : CpuThread(c)) \/ SpuriousWakeUp)
        \/ Terminated

Spec == Init /\ [][Next]_vars

\* The supervisor sleeps between two ticks, which leaves simulator_mutex to the
\* other threads for long enough (mt_safe_usleep): a CPU thread that wants the
\* mutex in every tick gets it in some.
FairSpec == /\ Spec
            /\ WF_vars(~Exited /\ Supervisor)
            /\ \A c \in Cpu : SF_vars(~Exited /\ CpuThread(c))

-----------------------------------------------------------------------------
(* Properties *)

States   == {"PROCESS_NEW", "PROCESS_READY", "PROCESS_RUNNING", "PROCESS_WAITING",
             "PROCESS_TERMINATED"}
CpuStates == Events \cup {"CPU_IDLE", "CPU_RUNNING"}
SupSteps == {"sleep", "gantt", "cpus", "event", "io", "creat", "wake", "wake_push",
             "wake_scan", "force", "force_wait", "wake_signal", "return", "done", "crashed"}
CpuSteps == {"top", "running", "count", "mark", "push", "idle", "pop", "select", "switch",
             "relock", "store"}
Pointer  == Proc \cup {NULL}

PcbsOK ==
    /\ pstate \in [Proc -> States]
    /\ pc \in [Proc -> Nat] /\ left \in [Proc -> Nat]
    /\ \A p \in Proc : pc[p] \in 1 .. Len(Program[p]) /\ left[p] <= Program[p][pc[p]].time
    /\ time_remaining \in [Proc -> Nat \ {0}]

StudentOK ==
    /\ ready_queue \in [list : Seq(Proc), tail : Nat]
    /\ current \in [Cpu -> Pointer \cup {WILD}]

CpusOK ==
    /\ cpu_current \in [Cpu -> Pointer]
    /\ cpu_state \in [Cpu -> CpuStates]
    /\ timer \in [Cpu -> Int]
    /\ \A c \in Cpu : cpu[c] \in {"running", "count", "mark", "push"} => cpu_current[c] # NULL

LibraryOK ==
    /\ io_queue \in Seq([pcb : Proc, execution_time : Nat])
    /\ terminated \in Nat /\ created \in 0 .. Cardinality(Proc)
    /\ clock \in 0 .. CreatPeriod - 1

LocksOK ==
    /\ held \in BOOLEAN /\ writers \in Int
    /\ waiting \in [Cpu -> SUBSET {"supervisor", "cpu"}] /\ idle_waiting \subseteq Cpu

ThreadsOK ==
    /\ sup \in SupSteps /\ back \in {"creat", "created"} /\ n \in Cpu /\ woken \in Pointer
    /\ cpu \in [Cpu -> CpuSteps] /\ event \in [Cpu -> CpuStates]
    /\ ready_process \in [Cpu -> Pointer] /\ preemption_time \in [Cpu -> Int]

HistoryOK == pending \in [Cpu -> BOOLEAN] /\ lost \in BOOLEAN

\* The types of the variables: the ready queue and the I/O queue hold processes
\* of the table (student.c, os-sim.c), a process counter stays inside its
\* program, and only a CPU that has a process is ever told to run.
TypeOK == /\ mode \in Modes /\ spurious \in 0 .. Spurious[mode]
          /\ PcbsOK /\ StudentOK /\ CpusOK /\ LibraryOK /\ LocksOK /\ ThreadsOK /\ HistoryOK

\* An event has been overwritten, or is about to be: it was raised for a thread
\* that does not wait for one.
EventLost == lost \/ \E c \in Cpu : pending[c] /\ cpu[c] # "running"

\* Every event has been handled before the simulator goes on.
Undisturbed == ~EventLost /\ spurious = 0

\* The process that CPU c is responsible for: cpu_current is out of date while
\* the thread changes processes, and after the end of a burst.
Holds(c) ==
    CASE cpu[c] \in {"select", "switch"} -> ready_process[c]
      [] cpu[c] \in {"idle", "pop"} -> NULL
      [] cpu[c] \in {"running", "count", "mark", "push"} ->
            IF cpu_state[c] \in {"CPU_YIELD", "CPU_TERMINATE"} THEN NULL ELSE cpu_current[c]
      [] cpu[c] \in {"relock", "store", "top"} -> cpu_current[c]

\* The places where process p is: in a queue, on a CPU, or in the hands of wake_up.
Queued(p)     == {k \in DOMAIN ready_queue.list : ready_queue.list[k] = p}
Blocked(p)    == {k \in DOMAIN io_queue : io_queue[k].pcb = p}
OnCpus(p)     == {c \in Cpu : Holds(c) = p}
BeingWoken(p) == {s \in {"wake", "wake_push"} : sup = s /\ woken = p}

Places(p) == Cardinality(Queued(p)) + Cardinality(Blocked(p)) + Cardinality(OnCpus(p))
             + Cardinality(BeingWoken(p))

Known(p) == p < created \/ p = woken
Over(p)  == Op(p) = "OP_TERMINATE"

\* A process that has been created and has not come to its end is in exactly one
\* place (a queue, a CPU or wake_up's hands), and any other process in none,
\* whatever order the threads run in, as long as no event is lost and the
\* supervisor waits for the scheduler.
ExactlyOnePlace ==
    Undisturbed => \A p \in Proc : Places(p) = IF Known(p) /\ ~Over(p) THEN 1 ELSE 0

\* Even when events are lost no process disappears: some queue or CPU has it.
NoProcessVanishes ==
    \A p \in Proc : Known(p) /\ ~Over(p) =>
        Places(p) > 0 \/ \E c \in Cpu : cpu_current[c] = p

\* The CPU threads that are about to look at the ready queue, and the signal that
\* wake_up is about to send.
Takers == {c \in Cpu : cpu[c] = "pop" \/ (cpu[c] = "idle" /\ c \notin idle_waiting)}
Coming == {s \in {"wake_scan", "force", "force_wait", "wake_signal"} : sup = s}

\* No CPU sleeps in idle() while a process waits that nobody is about to take:
\* the signal of wake_up is neither missed by idle() nor given to the wrong one.
WorkConserving ==
    idle_waiting # {} /\ sup # "crashed" =>
        Len(ready_queue.list) <= Cardinality(Takers) + Cardinality(Coming)

\* preempt, yield and terminate act on current[], the scheduler's own record:
\* it is the process that the simulator has been running, in whose name it
\* raised the event.
HandlersKnowTheProcess ==
    \A c \in Cpu : cpu[c] \in {"running", "count", "mark", "push"} => current[c] = cpu_current[c]

\* What print_gantt_line counts is where the processes are: READY in the ready
\* queue or just taken from it by an idle CPU, WAITING in the I/O queue, RUNNING
\* on a CPU.
GanttIsTrue ==
    sup = "gantt" /\ Undisturbed =>
        \A p \in Proc :
            CASE pstate[p] = "PROCESS_NEW"        -> ~Known(p)
              [] pstate[p] = "PROCESS_READY"      -> \/ Queued(p) # {}
                                                     \/ \E c \in OnCpus(p) : cpu[c] = "select"
              [] pstate[p] = "PROCESS_WAITING"    -> Blocked(p) # {}
              [] pstate[p] = "PROCESS_RUNNING"    -> OnCpus(p) # {}
              [] pstate[p] = "PROCESS_TERMINATED" -> Over(p)

\* queue_push finds the end of the list: tail may point to a node that queue_pop
\* has unlinked, but only while the list is empty, when nobody follows it.
TailPointsToTheLast == TailIsLast(ready_queue)

\* Longest remaining time first: the ready queue stays sorted by a time that is
\* the processes' own, although nobody sorts it again.
LongestFirst ==
    mode = "l" /\ Undisturbed =>
        \A j, k \in DOMAIN ready_queue.list :
            j < k => time_remaining[ready_queue.list[j]] >= time_remaining[ready_queue.list[k]]

\* The simulator ends only when every process has come to its end, even if it
\* has lost events and given a process to two CPUs: none is counted twice.
EndsAfterAll == sup = "done" => \A p \in Proc : Over(p)

\* A process goes through the states in the order of the life cycle of a process:
\* its events are handled before the simulator can raise the next one.
LifeCycle ==
    [][\A p \in Proc :
         Undisturbed /\ pstate'[p] # pstate[p] =>
            <<pstate[p], pstate'[p]>> \in
                {<<"PROCESS_NEW", "PROCESS_READY">>, <<"PROCESS_READY", "PROCESS_RUNNING">>,
                 <<"PROCESS_RUNNING", "PROCESS_READY">>,
                 <<"PROCESS_RUNNING", "PROCESS_WAITING">>,
                 <<"PROCESS_RUNNING", "PROCESS_TERMINATED">>,
                 <<"PROCESS_WAITING", "PROCESS_READY">>}]_vars

\* The thread that CPU_YIELD or CPU_TERMINATE was raised for does not wait for an event, and
\* will overwrite it.
EndOfBurstLost ==
    \E c \in Cpu : pending[c] /\ cpu[c] # "running" /\ cpu_state[c] \in {"CPU_YIELD", "CPU_TERMINATE"}

\* Every process runs to its end and the simulator stops (or crashes on the
\* garbage of current[]), unless the end of a burst is lost: even after a wake-up
\* without a signal, and after a CPU_PREEMPT that is lost, when the process runs on
\* with a timer below zero.
EventuallyDone == []~EndOfBurstLost => <>Exited

-----------------------------------------------------------------------------
(* What comments of the program say, which the model refutes. *)

\* os-sim.c, "Exit when all processes terminate".
ExitsWhenAllTerminate == (\A p \in Proc : Over(p)) ~> (sup = "done")

\* os-sim.c, on student_lock: "Its purpose is to protect the state variable of
\* the PCB structures" from print_gantt_line.
StateProtected ==
    sup = "gantt" /\ writers <= 0 => \A c \in Cpu : cpu[c] = "select" => ready_process[c] = NULL

\* student.c, on wake_up: "if any CPU is currently running idle [...] wake_up()
\* should not preempt any CPUs".
NoPreemptionWhileIdle ==
    [][sup = "force" /\ sup' = "force_wait" => \A c \in Cpu : cpu_current[c] # NULL]_vars
=============================================================================
