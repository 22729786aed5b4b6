------------------------------- MODULE OsPlaces ------------------------------
(***************************************************************************)
(* Proofs about OsSim as long as no event is lost and no thread wakes up   *)
(* without a signal: each process is in one place, its state says which,   *)
(* and the queue of the longest-time-first scheduler stays in order.       *)
(***************************************************************************)
EXTENDS OsProofs

USE DEF chosen, SupervisorWakesUp, IdleWakesUp

\* The thread of CPU c is at work on an event that the supervisor has raised.
Busy(c) == \/ cpu[c] \in {"count", "mark", "push"}
           \/ cpu[c] = "running" /\ cpu_state[c] # "CPU_RUNNING"
           \/ cpu[c] \in {"pop", "select", "switch", "relock", "store", "top"}
              /\ event[c] # "CPU_IDLE"

\* The supervisor waits for a CPU that is at work, and for no other; a CPU that
\* looks for a process of its own accord has none.
LockStepInv ==
    \A c \in Cpu :
        /\ Busy(c) => c = n /\ sup \in {"event", "force_wait"} /\ "supervisor" \in waiting[c]
        /\ cpu[c] \in {"count", "mark", "push"} => event[c] = cpu_state[c]
        /\ cpu[c] \in {"running", "count", "mark", "push"} => cpu_state[c] # "CPU_IDLE"
        /\ cpu[c] = "push" => event[c] = "CPU_PREEMPT"
        /\ cpu[c] = "count" => event[c] = "CPU_TERMINATE"
        /\ cpu[c] \in {"count", "mark"} => event[c] \in Events
        /\ cpu[c] = "idle" => event[c] = "CPU_IDLE"
        /\ cpu[c] \in {"idle", "pop", "select", "switch"} /\ event[c] = "CPU_IDLE"
              => cpu_current[c] = NULL

\* Where the processes are.
ReadyOnes  == Holding(ready_queue.list)
IoOnes     == {io_queue[k].pcb : k \in DOMAIN io_queue}
WokenOnes  == IF sup \in {"wake", "wake_push"} THEN {woken} ELSE {}
CpuOnes    == [c \in Cpu |-> Holds(c)]
LiveOnes   == {p \in Proc : Known(p) /\ ~Over(p)}

\* The sets R, I and W and the values of H other than NULL divide L between them.
Divide(R, I, W, H, L) ==
    /\ R \subseteq Proc /\ I \subseteq Proc /\ W \subseteq Proc /\ H \in [Cpu -> Pointer]
    /\ R \cap I = {} /\ R \cap W = {} /\ I \cap W = {}
    /\ \A c \in Cpu : H[c] \notin R /\ H[c] \notin I /\ H[c] \notin W
    /\ \A c, d \in Cpu : H[c] = H[d] /\ H[c] # NULL => c = d
    /\ \A p \in Proc : p \in L <=> p \in R \/ p \in I \/ p \in W \/ \E c \in Cpu : H[c] = p

\* wake_up is called for a process that has been created, unless it is the one
\* that simulate_creat is creating; before that a process stays where it starts.
WokenKnown ==
    /\ woken = NULL \/ woken < created
       \/ (sup \in WakeSteps \cup {"crashed"} /\ back = "created")
    /\ \A p \in Proc : ~Known(p) => Op(p) = "OP_CPU"

DivideInv ==
    /\ Distinct(ready_queue.list)
    /\ Divide(ReadyOnes, IoOnes, WokenOnes, CpuOnes, LiveOnes)
    /\ WokenKnown

\* CPU c has still to mark p as waiting, or as terminated.
Yields(c, p) ==
    /\ cpu_current[c] = p
    /\ \/ cpu[c] = "running" /\ cpu_state[c] = "CPU_YIELD"
       \/ cpu[c] = "mark" /\ event[c] = "CPU_YIELD"

Ends(c, p) ==
    /\ cpu_current[c] = p
    /\ \/ cpu[c] = "running" /\ cpu_state[c] = "CPU_TERMINATE"
       \/ cpu[c] = "count"
       \/ cpu[c] = "mark" /\ event[c] = "CPU_TERMINATE"

Left(p) == \E c \in Cpu : Yields(c, p) \/ Ends(c, p)

\* The state of a process that CPU c holds.
HeldState(c) == IF cpu[c] \in {"select", "push"} THEN "PROCESS_READY" ELSE "PROCESS_RUNNING"

\* The state of a process says where it is.
StateSays(p) ==
    /\ ~Known(p)       => pstate[p] = "PROCESS_NEW"
    /\ p \in ReadyOnes => pstate[p] = "PROCESS_READY"
    /\ p \in IoOnes    => pstate[p] = IF Left(p) THEN "PROCESS_RUNNING" ELSE "PROCESS_WAITING"
    /\ Over(p)         => pstate[p] = IF Left(p) THEN "PROCESS_RUNNING" ELSE "PROCESS_TERMINATED"
    /\ \A c \in Cpu : Holds(c) = p => pstate[p] = HeldState(c)
    /\ p \in WokenOnes => IF sup = "wake" THEN pstate[p] \in {"PROCESS_NEW", "PROCESS_WAITING"}
                                          ELSE pstate[p] = "PROCESS_READY"

StateInv ==
    /\ \A c \in Cpu, p \in Proc : (Yields(c, p) => p \in IoOnes) /\ (Ends(c, p) => Over(p))
    /\ \A p \in Proc : StateSays(p)

\* The list is sorted, the longest time first.
Sorted(list, time) == \A j, k \in DOMAIN list : j < k => time[list[j]] >= time[list[k]]

SortedInv == mode = "l" => Sorted(ready_queue.list, time_remaining)

UndisturbedInv == Undisturbed => LockStepInv /\ DivideInv /\ StateInv /\ SortedInv

-----------------------------------------------------------------------------
(* Events and the supervisor's wait. *)

LEMMA CpuTyped ==
    ASSUME TypeInv
    PROVE  /\ cpu \in [Cpu -> CpuSteps] /\ cpu_state \in [Cpu -> CpuStates]
           /\ event \in [Cpu -> CpuStates] /\ cpu_current \in [Cpu -> Pointer]
           /\ ready_process \in [Cpu -> Pointer]
           /\ waiting \in [Cpu -> SUBSET {"supervisor", "cpu"}]
           /\ pending \in [Cpu -> BOOLEAN] /\ n \in Cpu
BY DEF TypeInv, TypeOK, ThreadsOK, CpusOK, LocksOK, HistoryOK

\* os-sim.c: the steps of the supervisor that leave the CPUs' events alone, and
\* those that raise one.
LEMMA SupervisorRaises ==
    ASSUME Supervisor
    PROVE  /\ UNCHANGED <<cpu, event, cpu_current, ready_process, spurious, mode, current>>
           /\ \/ /\ UNCHANGED <<cpu_state, waiting, pending, lost>>
                 /\ sup \in {"event", "force_wait"} => "supervisor" \notin waiting[n]
              \/ /\ n' = n /\ sup \notin {"event", "force_wait"} /\ sup' \in {"event", "force_wait"}
                 /\ pending' = [pending EXCEPT ![n] = TRUE]
                 /\ waiting' = [waiting EXCEPT ![n] = {"supervisor"}]
                 /\ \E ev \in Events : cpu_state' = [cpu_state EXCEPT ![n] = ev]
                 /\ lost' = (lost \/ pending[n])
<1> USE DEF student, cpus, threads, history, locks, pcbs, library, SupervisorAt, Events
<1>1. UNCHANGED <<cpu, event, cpu_current, ready_process, spurious, mode, current>>
  BY DEF Supervisor, Tick, WakeUp, Lock, PrintGanttLine, RunBurst, EndBurst, NothingToRun,
     SchedulerHasRun, SimulateIo, SimulateCreat, WakeUpReturned, WakeUpMark, WakeUpPush,
     WakeUpScan, ForcePreempt, Preempted, WakeUpSignal
<1>2. CASE RunBurst \/ EndBurst \/ ForcePreempt
  BY <1>1, <1>2 DEF RunBurst, EndBurst, ForcePreempt, Raise
<1>3. CASE ~(RunBurst \/ EndBurst \/ ForcePreempt)
  BY <1>1, <1>3 DEF Supervisor, Tick, WakeUp, Lock, PrintGanttLine, NothingToRun,
     SchedulerHasRun, SchedulerRan, SimulateIo, SimulateCreat, WakeUpReturned, WakeUpMark,
     WakeUpPush, WakeUpScan, Preempted, WakeUpSignal
<1> QED BY <1>1, <1>2, <1>3

\* A step of a CPU thread concerns its own CPU only.
LEMMA OtherCpus ==
    ASSUME TypeInv, NEW c \in Cpu, CpuThread(c), NEW d \in Cpu, d # c
    PROVE  /\ cpu'[d] = cpu[d] /\ cpu_state'[d] = cpu_state[d] /\ event'[d] = event[d]
           /\ cpu_current'[d] = cpu_current[d] /\ ready_process'[d] = ready_process[d]
           /\ waiting'[d] = waiting[d] /\ pending'[d] = pending[d]
BY CpuTyped DEF CpuThread, Top, Dispatch, CountTerminated, Mark, Requeue, Idle, Pop, Select,
   Switch, Relock, Store, cpus, locks, history, Goto

LEMMA CpuThreadLeaves ==
    ASSUME NEW c \in Cpu, CpuThread(c)
    PROVE  UNCHANGED <<mode, spurious, pc, left, time_remaining, io_queue, created, sup, back, n,
                       woken>>
BY DEF CpuThread, Top, Dispatch, CountTerminated, Mark, Requeue, Idle, Pop, Select,
   Switch, Relock, Store, pcbs, library

\* An event that is lost remains so, and a step that raises an event raises it for
\* a thread that waits for one.
LEMMA DisturbedStays ==
    ASSUME TypeInv, Step, Undisturbed'
    PROVE  /\ Undisturbed
           /\ Supervisor \/ \E c \in Cpu : CpuThread(c)
           /\ Supervisor /\ pending'[n] # pending[n] => cpu[n] = "running"
<1> USE CpuTyped DEF Undisturbed, EventLost
<1>1. CASE Supervisor
  <2>1. \A c \in Cpu : pending[c] => pending'[c]
    BY <1>1, SupervisorRaises
  <2>2. UNCHANGED <<cpu, spurious>> /\ (lost => lost')
    <3>1. UNCHANGED cpu /\ UNCHANGED spurious
      BY <1>1, SupervisorRaises
    <3>2. UNCHANGED lost \/ lost' = (lost \/ pending[n])
      BY <1>1, SupervisorRaises
    <3>3. lost => lost'
      BY <3>2, Zenon
    <3> QED BY <3>1, <3>3
  <2>3. pending[n] \in BOOLEAN /\ pending'[n] \in BOOLEAN
    BY <1>1, SupervisorRaises
  <2> QED BY <1>1, <2>1, <2>2, <2>3
<1>2. ASSUME NEW c \in Cpu, CpuThread(c), ~Supervisor PROVE Undisturbed
  <2>1. UNCHANGED spurious /\ (lost => lost')
    <3>1. UNCHANGED spurious
      BY <1>2, CpuThreadLeaves
    <3>2. UNCHANGED lost \/ lost' = (lost \/ pending[c])
      BY <1>2 DEF CpuThread, Top, Dispatch, CountTerminated, Mark, Requeue, Idle, Pop, Select,
         Switch, Relock, Store, history
    <3>3. lost => lost'
      BY <3>2, Zenon
    <3> QED BY <3>1, <3>3
  <2>2. ASSUME NEW d \in Cpu, pending[d], cpu[d] # "running" PROVE FALSE
    <3>1. CASE d # c
      BY <1>2, <2>2, <3>1, OtherCpus
    <3>2. CASE d = c /\ Top(c)
      BY <2>2, <3>2 DEF Top
    <3>3. CASE d = c /\ ~Top(c)
      <4>1. pending' = pending /\ cpu'[c] # "running"
        BY <1>2, <2>2, <3>3 DEF CpuThread, Dispatch, CountTerminated, Mark, Requeue, Idle, Pop,
           Select, Switch, Relock, Store, history, Goto, CpuAt
      <4> QED BY <2>2, <3>3, <4>1
    <3> QED BY <3>1, <3>2, <3>3
  <2> QED BY <2>1, <2>2
<1>3. CASE SpuriousWakeUp
  <2>1. spurious \in Nat /\ spurious' = spurious + 1
    <3>1. Spurious[mode] \in Nat /\ spurious \in 0 .. Spurious[mode]
      BY OsAssumption DEF TypeInv, TypeOK
    <3> QED BY <1>3, <3>1 DEF SpuriousWakeUp
  <2> QED BY <2>1
<1> QED
  BY <1>1, <1>2, <1>3 DEF Step

\* os-sim.c: the supervisor waits until the CPU of its event has run the scheduler,
\* and only then goes on to another.
LEMMA SupervisorInStep ==
    ASSUME TypeInv, LockStepInv, Supervisor, pending'[n] # pending[n] => cpu[n] = "running",
           pending[n] => cpu[n] = "running"
    PROVE  LockStepInv'
<1> USE CpuTyped DEF LockStepInv, Busy
<1>1. UNCHANGED <<cpu, event, cpu_current>>
  BY SupervisorRaises
<1>2. CASE UNCHANGED <<cpu_state, waiting>> /\ (sup \in {"event", "force_wait"} => "supervisor" \notin waiting[n])
  <2>1. \A c \in Cpu : ~Busy(c)
    BY <1>2
  <2> QED BY <1>1, <1>2, <2>1
<1>3. ASSUME n' = n, sup \notin {"event", "force_wait"}, sup' \in {"event", "force_wait"},
             waiting' = [waiting EXCEPT ![n] = {"supervisor"}], cpu[n] = "running",
             NEW ev \in Events, cpu_state' = [cpu_state EXCEPT ![n] = ev]
      PROVE  LockStepInv'
  <2>1. \A c \in Cpu : ~Busy(c)
    BY <1>3
  <2>2. \A c \in Cpu \ {n} : cpu_state'[c] = cpu_state[c]
    BY <1>3
  <2>3. cpu_state'[n] = ev /\ "supervisor" \in waiting'[n]
    BY <1>3
  <2> QED BY <1>1, <1>3, <2>1, <2>2, <2>3 DEF Events
<1> QED
  <2>1. UNCHANGED pending \/ pending'[n] = TRUE
    BY SupervisorRaises
  <2> QED BY <1>2, <1>3, <2>1, SupervisorRaises

\* os-sim.c, student.c: a CPU thread is at work from an event to the top of its loop,
\* where it signals the supervisor.
LEMMA CpuThreadInStep ==
    ASSUME TypeInv, LockStepInv, NEW c \in Cpu, CpuThread(c)
    PROVE  LockStepInv'
<1> USE CpuTyped DEF CpuAt, Goto
<1>1. UNCHANGED <<sup, n>>
  BY CpuThreadLeaves
<1> DEFINE Own(d) ==
        /\ Busy(d) => d = n /\ sup \in {"event", "force_wait"} /\ "supervisor" \in waiting[d]
        /\ cpu[d] \in {"count", "mark", "push"} => event[d] = cpu_state[d]
        /\ cpu[d] \in {"running", "count", "mark", "push"} => cpu_state[d] # "CPU_IDLE"
        /\ cpu[d] = "push" => event[d] = "CPU_PREEMPT"
        /\ cpu[d] = "count" => event[d] = "CPU_TERMINATE"
        /\ cpu[d] \in {"count", "mark"} => event[d] \in Events
        /\ cpu[d] = "idle" => event[d] = "CPU_IDLE"
        /\ cpu[d] \in {"idle", "pop", "select", "switch"} /\ event[d] = "CPU_IDLE"
              => cpu_current[d] = NULL
<1>2. \A d \in Cpu : Own(d)
  BY DEF LockStepInv
<1>3. ASSUME NEW d \in Cpu, d # c PROVE Own(d)'
  <2>1. Own(d)
    BY <1>2
  <2> QED BY <1>1, <1>3, <2>1, OtherCpus DEF Busy
<1>4. Own(c)'
  <2>1. Own(c)
    BY <1>2
  <2> USE <1>1, <2>1 DEF Busy, Events, CpuStates, cpus, locks
  <2>2. CASE Top(c)
    BY <2>2 DEF Top
  <2>3. CASE Dispatch(c)
    BY <2>3 DEF Dispatch
  <2>4. CASE CountTerminated(c)
    BY <2>4 DEF CountTerminated
  <2>5. CASE Mark(c)
    BY <2>5 DEF Mark, BackInQueue
  <2>6. CASE Requeue(c) \/ Idle(c)
    BY <2>6 DEF Requeue, Idle
  <2>7. CASE Pop(c) \/ Select(c)
    BY <2>7 DEF Pop, Select
  <2>8. CASE Switch(c) \/ Relock(c) \/ Store(c)
    BY <2>8 DEF Switch, Relock, Store
  <2> QED BY <2>2, <2>3, <2>4, <2>5, <2>6, <2>7, <2>8 DEF CpuThread
<1> QED
  BY <1>3, <1>4 DEF LockStepInv

-----------------------------------------------------------------------------
(* The moves of a process between the sets that divide LiveOnes. *)

\* CPU c gives its process up to the I/O queue, or for good.
LEMMA GiveUp ==
    ASSUME NEW R, NEW I, NEW W, NEW H, NEW L, Divide(R, I, W, H, L),
           NEW c \in Cpu, NEW p \in Proc, H[c] = p, NEW G, G = [H EXCEPT ![c] = NULL]
    PROVE  /\ Divide(R, I \cup {p}, W, G, L)
           /\ Divide(R, I, W, G, L \ {p})
           /\ Divide(R \cup {p}, I, W, G, L)
<1>1. NULL \notin Proc /\ NULL \in Pointer
  BY OsAssumption DEF Pointer
<1>2. /\ H \in [Cpu -> Pointer] /\ G \in [Cpu -> Pointer] /\ G[c] = NULL
      /\ \A d \in Cpu : d # c => G[d] = H[d]
  BY <1>1 DEF Divide
<1>3. p \notin R /\ p \notin I /\ p \notin W /\ \A d \in Cpu : H[d] = p => d = c
  BY <1>1 DEF Divide
<1>4. \A d \in Cpu : G[d] = NULL \/ (G[d] = H[d] /\ G[d] # p)
  BY <1>2, <1>3
<1>5. \A q \in Proc : (\E d \in Cpu : H[d] = q) <=> (q = p \/ \E d \in Cpu : G[d] = q)
  BY <1>1, <1>2, <1>3
<1>6. \A d, e \in Cpu : G[d] = G[e] /\ G[d] # NULL => d = e
  BY <1>2, <1>4 DEF Divide
<1> QED
  BY <1>1, <1>2, <1>3, <1>4, <1>5, <1>6 DEF Divide

\* A process comes back from I/O, or is created, and is woken up.
LEMMA ToWakeUp ==
    ASSUME NEW R, NEW I, NEW H, NEW L, Divide(R, I, {}, H, L), NEW p \in Proc
    PROVE  /\ p \in I => Divide(R, I \ {p}, {p}, H, L)
           /\ p \notin L => Divide(R, I, {p}, H, L \cup {p})
           /\ \A q \in R \cup I : q \in L
BY DEF Divide

\* The process that is woken up goes to the ready queue.
LEMMA ToQueue ==
    ASSUME NEW R, NEW I, NEW H, NEW L, NEW p, Divide(R, I, {p}, H, L)
    PROVE  Divide(R \cup {p}, I, {}, H, L) /\ p \notin R
BY DEF Divide

\* CPU c takes a process from the ready queue.
LEMMA ToCpu ==
    ASSUME NEW R, NEW I, NEW W, NEW H, NEW L, Divide(R, I, W, H, L),
           NEW c \in Cpu, NEW p \in R, H[c] = NULL, NEW G, G = [H EXCEPT ![c] = p]
    PROVE  Divide(R \ {p}, I, W, G, L)
<1>1. NULL \notin Proc /\ p \in Proc /\ p \in Pointer
  BY OsAssumption DEF Pointer, Divide
<1>2. /\ H \in [Cpu -> Pointer] /\ G \in [Cpu -> Pointer] /\ G[c] = p
      /\ \A d \in Cpu : d # c => G[d] = H[d]
  BY <1>1 DEF Divide
<1>3. p \notin I /\ p \notin W /\ \A d \in Cpu : H[d] # p
  BY DEF Divide
<1>4. \A q \in Proc : (\E d \in Cpu : G[d] = q) <=> (q = p \/ \E d \in Cpu : H[d] = q)
  BY <1>1, <1>2
<1>5. \A d, e \in Cpu : G[d] = G[e] /\ G[d] # NULL => d = e
  BY <1>2, <1>3 DEF Divide
<1>6. \A d \in Cpu : G[d] \notin R \ {p} /\ G[d] \notin I /\ G[d] \notin W
  BY <1>2, <1>3 DEF Divide
<1> QED
  BY <1>1, <1>2, <1>4, <1>5, <1>6 DEF Divide

-----------------------------------------------------------------------------
(* The moves that the supervisor makes. *)

LEMMA HoldsTyped ==
    ASSUME TypeInv, NEW c \in Cpu
    PROVE  Holds(c) \in Pointer
<1>1. /\ cpu[c] \in CpuSteps /\ cpu_current[c] \in Pointer /\ ready_process[c] \in Pointer
      /\ NULL \in Pointer
  BY CpuTyped DEF Pointer
<1> QED
  BY <1>1 DEF Holds, CpuSteps

\* os-sim.c, simulate_cpus: a process that makes progress is on the CPU it runs on.
LEMMA BurstHolder ==
    ASSUME TypeInv, LockStepInv, sup = "cpus", cpu_current[n] # NULL
    PROVE  Holds(n) = cpu_current[n]
<1>1. cpu[n] \in CpuSteps /\ cpu_state[n] \in CpuStates /\ n \in Cpu
  BY CpuTyped
<1>2. ~Busy(n)
  BY <1>1 DEF LockStepInv
<1> QED
  BY <1>1, <1>2 DEF LockStepInv, Busy, Holds, CpuSteps, CpuStates, Events

\* Only the end of a burst takes a process from its CPU.
LEMMA SupervisorHolds ==
    ASSUME TypeInv, LockStepInv, Supervisor, ~EndBurst, pending'[n] # pending[n] => cpu[n] = "running",
           pending[n] => cpu[n] = "running", NEW c \in Cpu
    PROVE  Holds(c)' = Holds(c)
<1>1. UNCHANGED <<cpu, cpu_current, ready_process>>
  BY SupervisorRaises
<1>2. cpu[c] \in CpuSteps /\ cpu_state[c] \in CpuStates /\ n \in Cpu
  BY CpuTyped
<1>3. CASE UNCHANGED cpu_state
  BY <1>1, <1>3 DEF Holds
<1>4. CASE RunBurst \/ ForcePreempt
  <2>1. UNCHANGED cpu_state \/ (cpu_state' = [cpu_state EXCEPT ![n] = "CPU_PREEMPT"]
                                /\ pending' = [pending EXCEPT ![n] = TRUE])
    BY <1>4 DEF RunBurst, ForcePreempt, Raise, cpus, history
  <2>2. sup \in {"cpus", "force"}
    BY <1>4 DEF RunBurst, ForcePreempt, SupervisorAt
  <2>3. cpu[n] = "running" => cpu_state[n] = "CPU_RUNNING"
    BY <1>2, <2>2, CpuTyped DEF LockStepInv, Busy
  <2>4. CASE cpu_state' = [cpu_state EXCEPT ![n] = "CPU_PREEMPT"] /\ cpu[n] = "running" 
    <3>1. cpu_state'[n] = "CPU_PREEMPT" /\ \A d \in Cpu : d # n => cpu_state'[d] = cpu_state[d]
      BY <1>2, <2>4, CpuTyped
    <3> QED BY <1>1, <2>3, <2>4, <3>1 DEF Holds
  <2>5. CASE pending' = [pending EXCEPT ![n] = TRUE] /\ cpu[n] # "running"
    BY <1>2, <2>5, CpuTyped
  <2> QED BY <1>3, <2>1, <2>4, <2>5
<1>5. CASE ~(RunBurst \/ ForcePreempt)
  <2>1. UNCHANGED cpu_state
    BY <1>5 DEF Supervisor, Tick, WakeUp, Lock, PrintGanttLine, NothingToRun, SchedulerHasRun,
       SimulateIo, SimulateCreat, WakeUpReturned, WakeUpMark, WakeUpPush, WakeUpScan, Preempted,
       WakeUpSignal, cpus
  <2> QED BY <1>3, <2>1
<1> QED BY <1>4, <1>5

LEMMA IoTyped ==
    ASSUME TypeInv
    PROVE  IoOnes \subseteq Proc
<1> DEFINE R == [pcb : Proc, execution_time : Nat]
<1>1. io_queue \in Seq(R)
  BY DEF TypeInv, TypeOK, LibraryOK
<1>2. \A r \in R : r.pcb \in Proc
  OBVIOUS
<1> HIDE DEF R
<1> QED BY <1>1, <1>2 DEF IoOnes

\* os-sim.c, simulate_process: the process queues for I/O, or has come to its end.
LEMMA EndBurstMoves ==
    ASSUME TypeInv, LockStepInv, DivideInv, EndBurst, cpu[n] = "running"
    PROVE  LET p == cpu_current[n]
           IN  /\ p \in LiveOnes /\ Holds(n) = p
               /\ CpuOnes' = [CpuOnes EXCEPT ![n] = NULL]
               /\ UNCHANGED ready_queue /\ WokenOnes = {} /\ WokenOnes' = {} /\ WokenKnown'
               /\ \/ /\ NextOp(p) = "OP_IO" /\ cpu_state' = [cpu_state EXCEPT ![n] = "CPU_YIELD"]
                     /\ IoOnes' = IoOnes \cup {p} /\ LiveOnes' = LiveOnes
                  \/ /\ NextOp(p) = "OP_TERMINATE"
                     /\ cpu_state' = [cpu_state EXCEPT ![n] = "CPU_TERMINATE"]
                     /\ IoOnes' = IoOnes /\ LiveOnes' = LiveOnes \ {p}
<1> DEFINE p == cpu_current[n]
<1>1. /\ p \in Proc /\ Op(p) = "OP_CPU" /\ \A q \in Proc \ {p} : NextOp(q) = Op(q)
      /\ \/ /\ NextOp(p) = "OP_IO" /\ cpu_state' = [cpu_state EXCEPT ![n] = "CPU_YIELD"]
            /\ \E time \in Nat : io_queue' = Append(io_queue, [pcb |-> p, execution_time |-> time])
         \/ /\ NextOp(p) = "OP_TERMINATE" /\ cpu_state' = [cpu_state EXCEPT ![n] = "CPU_TERMINATE"]
            /\ UNCHANGED io_queue
  BY BurstEnds
<1>2. /\ sup = "cpus" /\ sup' = "event"
      /\ UNCHANGED <<n, cpu, cpu_current, ready_process, created, woken, back, ready_queue>>
  BY DEF EndBurst, SupervisorAt, student
<1>3. p # NULL /\ n \in Cpu
  BY <1>1, OsAssumption, CpuTyped
<1>4. Holds(n) = p
  BY <1>2, <1>3, BurstHolder
<1>5. p \in LiveOnes
  BY <1>1, <1>3, <1>4 DEF DivideInv, Divide, CpuOnes
<1>6. CpuOnes' = [CpuOnes EXCEPT ![n] = NULL]
  <2>1. \A c \in Cpu : Holds(c)' = IF c = n THEN NULL ELSE Holds(c)
    <3>1. \A c \in Cpu : c # n => cpu_state'[c] = cpu_state[c]
      BY <1>1, CpuTyped
    <3>2. cpu_state'[n] \in {"CPU_YIELD", "CPU_TERMINATE"}
      BY <1>1, <1>3, CpuTyped
    <3>3. Holds(n)' = NULL
      BY <1>2, <3>2 DEF Holds
    <3>4. ASSUME NEW c \in Cpu, c # n PROVE Holds(c)' = Holds(c)
      <4>1. cpu'[c] = cpu[c] /\ cpu_state'[c] = cpu_state[c]
            /\ cpu_current'[c] = cpu_current[c] /\ ready_process'[c] = ready_process[c]
        BY <1>2, <3>1, <3>4
      <4> QED BY <4>1 DEF Holds
    <3>5. ASSUME NEW c \in Cpu, c = n PROVE Holds(c)' = NULL
      BY <1>2, <3>3, <3>5
    <3> QED BY <3>4, <3>5
  <2> QED BY <2>1 DEF CpuOnes
<1>7. \A q \in Proc : Known(q)' <=> Known(q)
  BY <1>2 DEF Known
<1>8. WokenOnes = {} /\ WokenOnes' = {}
  BY <1>2 DEF WokenOnes
<1>9. WokenKnown'
  <2>1. woken = NULL \/ woken < created
    BY <1>2 DEF DivideInv, WokenKnown, WakeSteps
  <2>2. \A q \in Proc : ~Known(q)' => NextOp(q) = "OP_CPU"
    BY <1>1, <1>5, <1>7 DEF DivideInv, WokenKnown, LiveOnes
  <2> QED BY <1>2, <2>1, <2>2 DEF WokenKnown, Op, NextOp
<1>10. CASE NextOp(p) = "OP_IO" /\ cpu_state' = [cpu_state EXCEPT ![n] = "CPU_YIELD"]
            /\ \E time \in Nat : io_queue' = Append(io_queue, [pcb |-> p, execution_time |-> time])
  <2>1. PICK time \in Nat : io_queue' = Append(io_queue, [pcb |-> p, execution_time |-> time])
    BY <1>10
  <2> DEFINE r == [pcb |-> p, execution_time |-> time]
             R == [pcb : Proc, execution_time : Nat]
  <2>2. r \in R /\ r.pcb = p /\ io_queue' = Append(io_queue, r)
    BY <1>1, <2>1
  <2>3. io_queue \in Seq(R)
    BY DEF TypeInv, TypeOK, LibraryOK
  <2> HIDE DEF r, R
  <2>4. /\ DOMAIN io_queue' = DOMAIN io_queue \cup {Len(io_queue) + 1}
        /\ io_queue'[Len(io_queue) + 1] = r
        /\ \A k \in DOMAIN io_queue : io_queue'[k] = io_queue[k]
    BY <2>2, <2>3
  <2>5. IoOnes' = IoOnes \cup {p}
    BY <2>2, <2>4 DEF IoOnes
  <2>6. LiveOnes' = LiveOnes
    BY <1>1, <1>5, <1>7, <1>10 DEF LiveOnes, Over, Op, NextOp
  <2> QED BY <1>2, <1>4, <1>5, <1>6, <1>8, <1>9, <1>10, <2>5, <2>6
<1>11. CASE NextOp(p) = "OP_TERMINATE" /\ cpu_state' = [cpu_state EXCEPT ![n] = "CPU_TERMINATE"]
            /\ UNCHANGED io_queue
  <2>1. IoOnes' = IoOnes
    BY <1>11 DEF IoOnes
  <2>2. LiveOnes' = LiveOnes \ {p}
    BY <1>1, <1>5, <1>7, <1>11 DEF LiveOnes, Over, Op, NextOp
  <2> QED BY <1>2, <1>4, <1>5, <1>6, <1>8, <1>9, <1>11, <2>1, <2>2
<1> HIDE DEF p
<1> QED
  BY <1>1, <1>10, <1>11 DEF p

\* os-sim.c, simulate_io: the process at the head of the I/O queue goes to wake_up.
LEMMA IoMoves ==
    ASSUME TypeInv, DivideInv, SimulateIo
    PROVE  /\ UNCHANGED <<ready_queue, cpu>> /\ WokenOnes = {} /\ LiveOnes' = LiveOnes /\ WokenKnown'
           /\ \A p \in Proc : Known(p)' <=> Known(p)
           /\ \/ IoOnes' = IoOnes /\ WokenOnes' = {}
              \/ /\ woken' \in IoOnes /\ IoOnes' = IoOnes \ {woken'} /\ WokenOnes' = {woken'}
                 /\ sup' = "wake"
<1>1. /\ sup = "io" /\ UNCHANGED <<ready_queue, cpu, created>>
  BY DEF SimulateIo, SupervisorAt, student
<1>2. WokenOnes = {} /\ (woken = NULL \/ woken < created)
      /\ \A p \in Proc : ~Known(p) => Op(p) = "OP_CPU"
  BY <1>1 DEF WokenOnes, DivideInv, WokenKnown, WakeSteps
<1>3. ASSUME UNCHANGED <<pc, woken>>, sup' = "creat", IoOnes' = IoOnes
      PROVE  /\ LiveOnes' = LiveOnes /\ WokenKnown' /\ WokenOnes' = {}
             /\ \A p \in Proc : Known(p)' <=> Known(p)
  BY <1>1, <1>2, <1>3 DEF LiveOnes, WokenKnown, WokenOnes, Known, Over, Op
<1>4. CASE io_queue = <<>> /\ sup' = "creat" /\ UNCHANGED <<io_queue, pc, woken>>
  <2>1. IoOnes' = IoOnes
    BY <1>4 DEF IoOnes
  <2> QED BY <1>1, <1>2, <1>3, <1>4, <2>1
<1>5. CASE /\ sup' = "creat" /\ UNCHANGED <<pc, woken>> /\ DOMAIN io_queue' = DOMAIN io_queue
           /\ \A k \in DOMAIN io_queue : io_queue'[k].pcb = io_queue[k].pcb
  <2>1. IoOnes' = IoOnes
    BY <1>5 DEF IoOnes
  <2> QED BY <1>1, <1>2, <1>3, <1>5, <2>1
<1>6. CASE /\ io_queue # <<>> /\ sup' = "wake" /\ io_queue' = Tail(io_queue)
           /\ woken' = io_queue[1].pcb /\ woken' \in Proc /\ Op(woken') = "OP_IO"
           /\ NextOp(woken') = "OP_CPU"
           /\ \A q \in Proc \ {woken'} : NextOp(q) = Op(q)
  <2>1. io_queue \in Seq([pcb : Proc, execution_time : Nat]) /\ 1 \in DOMAIN io_queue
    BY <1>6, HeadRequest DEF TypeInv, TypeOK, LibraryOK
  <2>2. /\ \A k \in DOMAIN io_queue' :
              k + 1 \in DOMAIN io_queue /\ k + 1 # 1 /\ io_queue'[k] = io_queue[k + 1]
        /\ \A k \in DOMAIN io_queue : k # 1 => k - 1 \in DOMAIN io_queue' /\ k = k - 1 + 1
    <3> DEFINE R == [pcb : Proc, execution_time : Nat]
    <3>1. io_queue \in Seq(R)
      BY <2>1
    <3> HIDE DEF R
    <3>2. /\ Len(io_queue) \in Nat \ {0} /\ DOMAIN io_queue = 1 .. Len(io_queue)
          /\ DOMAIN io_queue' = 1 .. Len(io_queue) - 1
          /\ \A k \in 1 .. Len(io_queue) - 1 : io_queue'[k] = io_queue[k + 1]
      BY <1>6, <3>1
    <3> QED BY <3>2
  <2>3. \A k \in DOMAIN io_queue : io_queue[k].pcb = woken' => k = 1
    BY <1>6, <2>1 DEF TypeInv, IoInv
  <2>4. woken' \in IoOnes /\ IoOnes' = IoOnes \ {woken'}
    BY <1>6, <2>1, <2>2, <2>3 DEF IoOnes
  <2>5. woken' \in LiveOnes
    BY <1>6, <2>4 DEF DivideInv, Divide
  <2>6. woken' < created \/ woken' = woken
    BY <2>5 DEF LiveOnes, Known
  <2>7. woken' < created /\ WokenOnes' = {woken'}
    <3>1. woken' # NULL
      BY <1>6, OsAssumption
    <3> QED BY <1>2, <1>6, <2>6, <3>1 DEF WokenOnes
  <2>8. \A p \in Proc : Known(p)' <=> Known(p)
    <3>1. \A p \in Proc : p # NULL
      BY OsAssumption
    <3> QED BY <1>1, <1>2, <2>7, <3>1 DEF Known
  <2>9. LiveOnes' = LiveOnes
    BY <1>6, <2>5, <2>8 DEF LiveOnes, Over, Op, NextOp
  <2>10. WokenKnown'
    <3>1. \A p \in Proc : ~Known(p)' => NextOp(p) = "OP_CPU"
      BY <1>2, <1>6, <2>8
    <3> QED BY <1>1, <2>7, <3>1 DEF WokenKnown, Op, NextOp
  <2> QED BY <1>1, <1>2, <1>6, <2>4, <2>7, <2>8, <2>9, <2>10
<1> QED
  BY <1>4, <1>5, <1>6, IoProgress

\* os-sim.c, simulate_creat: the next process of the table goes to wake_up.
LEMMA CreatMoves ==
    ASSUME TypeInv, DivideInv, SimulateCreat
    PROVE  /\ UNCHANGED <<ready_queue, io_queue, cpu>> /\ WokenOnes = {} /\ WokenKnown'
           /\ \/ /\ WokenOnes' = {} /\ LiveOnes' = LiveOnes
                 /\ \A p \in Proc : Known(p)' <=> Known(p)
              \/ /\ woken' \in Proc /\ ~Known(woken') /\ sup' = "wake" /\ WokenOnes' = {woken'}
                 /\ LiveOnes' = LiveOnes \cup {woken'}
                 /\ \A p \in Proc : Known(p)' <=> Known(p) \/ p = woken'
<1>1. /\ sup = "creat" /\ UNCHANGED <<ready_queue, io_queue, cpu, created, pc>>
  BY DEF SimulateCreat, SupervisorAt, student, pcbs
<1>2. WokenOnes = {} /\ (woken = NULL \/ woken < created)
      /\ \A p \in Proc : ~Known(p) => Op(p) = "OP_CPU"
  BY <1>1 DEF WokenOnes, DivideInv, WokenKnown, WakeSteps
<1>3. created \in Nat /\ Cardinality(Proc) \in Nat /\ (created < Cardinality(Proc) => created \in Proc)
      /\ \A p \in Proc : p \in Int /\ p # NULL
  BY OsAssumption, CountProcesses DEF TypeInv, TypeOK, LibraryOK
<1>4. CASE TimeToCreate
  <2>1. woken' = created /\ sup' = "wake" /\ back' = "created" /\ created \in Proc
    BY <1>3, <1>4 DEF SimulateCreat, CallWakeUp, TimeToCreate
  <2>2. ~Known(created)
    BY <1>2, <1>3, <2>1 DEF Known
  <2>3. WokenOnes' = {woken'}
    BY <2>1 DEF WokenOnes
  <2>4. \A p \in Proc : Known(p)' <=> Known(p) \/ p = woken'
    BY <1>1, <1>2, <1>3, <2>1 DEF Known
  <2>5. LiveOnes' = LiveOnes \cup {woken'}
    BY <1>1, <1>2, <2>1, <2>2, <2>4 DEF LiveOnes, Over, Op
  <2>6. WokenKnown'
    BY <1>1, <1>2, <2>1, <2>4 DEF WokenKnown, WakeSteps, Op
  <2> QED BY <1>1, <1>2, <2>1, <2>2, <2>3, <2>4, <2>5, <2>6
<1>5. CASE ~TimeToCreate
  <2>1. UNCHANGED <<woken, back>> /\ sup' = "sleep"
    BY <1>5 DEF SimulateCreat, EndTick
  <2>2. \A p \in Proc : Known(p)' <=> Known(p)
    BY <1>1, <2>1 DEF Known
  <2>3. LiveOnes' = LiveOnes /\ WokenOnes' = {} /\ WokenKnown'
    BY <1>1, <1>2, <2>1, <2>2 DEF LiveOnes, WokenOnes, WokenKnown, Over, Op
  <2> QED BY <1>1, <1>2, <2>1, <2>2, <2>3
<1> QED
  BY <1>4, <1>5

\* os-sim.c: the steps of the supervisor that move no process.
LEMMA OthersMoveNone ==
    ASSUME TypeInv, DivideInv, Supervisor,
           ~EndBurst, ~SimulateIo, ~SimulateCreat, ~WakeUpPush
    PROVE  /\ UNCHANGED <<ready_queue, io_queue, pc>> /\ WokenOnes' = WokenOnes
           /\ LiveOnes' = LiveOnes /\ WokenKnown'
           /\ \A p \in Proc : Known(p)' <=> Known(p)
<1>1. UNCHANGED <<ready_queue, io_queue, pc, woken, back>>
  BY DEF Supervisor, Tick, WakeUp, Lock, PrintGanttLine, RunBurst, NothingToRun, SchedulerHasRun,
     WakeUpReturned, WakeUpMark, WakeUpScan, ForcePreempt, Preempted, WakeUpSignal, student,
     library, pcbs
<1>2. /\ sup \in {"wake", "wake_push"} => sup' \in {"wake", "wake_push"}
      /\ sup' \in {"wake", "wake_push"} => sup \in {"wake", "wake_push"}
  BY DEF Supervisor, Tick, WakeUp, Lock, PrintGanttLine, RunBurst, NothingToRun, SchedulerHasRun,
     WakeUpReturned, WakeUpMark, WakeUpScan, ForcePreempt, Preempted, WakeUpSignal, SupervisorAt,
     NextCpu, EndTick
<1>3. WokenOnes' = WokenOnes
  BY <1>1, <1>2 DEF WokenOnes
<1>4. created \in Nat /\ \A p \in Proc : p \in Int
  BY OsAssumption, CountProcesses DEF TypeInv, TypeOK, LibraryOK
<1>5. CASE WakeUpReturned
  <2>1. /\ sup = "return"
        /\ \/ created' = created /\ back # "created"
           \/ created' = created + 1 /\ woken = created /\ back = "created"
    BY <1>5 DEF WakeUpReturned, TypeInv, WakeInv, WakeSteps, SupervisorAt
  <2>2. \A p \in Proc : Known(p)' <=> Known(p)
    BY <1>1, <1>4, <2>1 DEF Known
  <2>3. woken = NULL \/ woken < created'
    BY <1>4, <2>1 DEF DivideInv, WokenKnown
  <2>4. LiveOnes' = LiveOnes
    BY <1>1, <2>2 DEF LiveOnes, Over, Op
  <2>5. WokenKnown'
    BY <1>1, <2>2, <2>3 DEF DivideInv, WokenKnown, Op
  <2> QED BY <1>1, <1>3, <2>2, <2>4, <2>5
<1>6. CASE ~WakeUpReturned
  <2>1. UNCHANGED created
    BY <1>6 DEF Supervisor, Tick, WakeUp, Lock, PrintGanttLine, RunBurst, NothingToRun,
       SchedulerHasRun, WakeUpMark, WakeUpScan, ForcePreempt, Preempted, WakeUpSignal, library
  <2>2. sup \in WakeSteps \cup {"crashed"} => sup' \in WakeSteps \cup {"crashed"}
    BY <1>6 DEF Supervisor, Tick, WakeUp, Lock, PrintGanttLine, RunBurst, NothingToRun,
       SchedulerHasRun, WakeUpMark, WakeUpScan, ForcePreempt, Preempted, WakeUpSignal,
       SupervisorAt, WakeSteps
  <2>3. \A p \in Proc : Known(p)' <=> Known(p)
    BY <1>1, <2>1 DEF Known
  <2>4. LiveOnes' = LiveOnes /\ WokenKnown'
    BY <1>1, <2>1, <2>2, <2>3 DEF DivideInv, LiveOnes, WokenKnown, Over, Op
  <2> QED BY <1>1, <1>3, <2>3, <2>4
<1> QED
  BY <1>5, <1>6

LEMMA SupervisorDivides ==
    ASSUME TypeInv, LockStepInv, DivideInv, Supervisor,
           pending'[n] # pending[n] => cpu[n] = "running", pending[n] => cpu[n] = "running"
    PROVE  DivideInv'
<1>1. Distinct(ready_queue.list) /\ Divide(ReadyOnes, IoOnes, WokenOnes, CpuOnes, LiveOnes)
  BY DEF DivideInv
<1>2. ASSUME UNCHANGED ready_queue PROVE Distinct(ready_queue.list)' /\ ReadyOnes' = ReadyOnes
  BY <1>1, <1>2 DEF ReadyOnes, Distinct, Holding
<1>3. ~EndBurst => CpuOnes' = CpuOnes
  BY SupervisorHolds DEF CpuOnes
<1>4. CASE EndBurst
  <2> DEFINE p == cpu_current[n]
  <2>1. cpu[n] = "running"
    <3>1. pending'[n] = TRUE /\ pending[n] \in BOOLEAN
      BY <1>4, CpuTyped DEF EndBurst, Raise
    <3> QED BY <3>1
  <2>2. /\ p \in LiveOnes /\ Holds(n) = p /\ CpuOnes' = [CpuOnes EXCEPT ![n] = NULL]
        /\ UNCHANGED ready_queue /\ WokenOnes = {} /\ WokenOnes' = {} /\ WokenKnown'
        /\ \/ IoOnes' = IoOnes \cup {p} /\ LiveOnes' = LiveOnes
           \/ IoOnes' = IoOnes /\ LiveOnes' = LiveOnes \ {p}
    BY <1>4, <2>1, EndBurstMoves
  <2>3. p \in Proc /\ n \in Cpu /\ CpuOnes[n] = p
    BY <2>2, CpuTyped DEF LiveOnes, CpuOnes
  <2>4. /\ Divide(ReadyOnes, IoOnes \cup {p}, WokenOnes, CpuOnes', LiveOnes)
        /\ Divide(ReadyOnes, IoOnes, WokenOnes, CpuOnes', LiveOnes \ {p})
    BY <1>1, <2>2, <2>3, GiveUp
  <2> HIDE DEF p
  <2> QED BY <1>2, <2>2, <2>4 DEF DivideInv
<1>5. CASE SimulateIo
  <2>1. ~EndBurst
    BY <1>5 DEF SimulateIo, EndBurst, SupervisorAt
  <2>2. /\ UNCHANGED ready_queue /\ WokenOnes = {} /\ LiveOnes' = LiveOnes /\ WokenKnown'
        /\ \/ IoOnes' = IoOnes /\ WokenOnes' = {}
           \/ woken' \in IoOnes /\ IoOnes' = IoOnes \ {woken'} /\ WokenOnes' = {woken'}
    BY <1>5, IoMoves
  <2>3. woken' \in IoOnes => woken' \in Proc /\ Divide(ReadyOnes, IoOnes \ {woken'}, {woken'}, CpuOnes, LiveOnes)
    BY <1>1, <2>2, IoTyped, ToWakeUp
  <2> QED BY <1>1, <1>2, <1>3, <2>1, <2>2, <2>3 DEF DivideInv
<1>6. CASE SimulateCreat
  <2>1. ~EndBurst
    BY <1>6 DEF SimulateCreat, EndBurst, SupervisorAt
  <2>2. /\ UNCHANGED <<ready_queue, io_queue>> /\ WokenOnes = {} /\ WokenKnown'
        /\ \/ WokenOnes' = {} /\ LiveOnes' = LiveOnes
           \/ /\ woken' \in Proc /\ ~Known(woken') /\ WokenOnes' = {woken'}
              /\ LiveOnes' = LiveOnes \cup {woken'}
    BY <1>6, CreatMoves
  <2>3. IoOnes' = IoOnes
    BY <2>2 DEF IoOnes
  <2>4. ASSUME woken' \in Proc, ~Known(woken') 
        PROVE  Divide(ReadyOnes, IoOnes, {woken'}, CpuOnes, LiveOnes \cup {woken'})
    <3>1. woken' \notin LiveOnes
      BY <2>4 DEF LiveOnes
    <3> QED BY <1>1, <2>2, <2>4, <3>1, ToWakeUp
  <2> QED BY <1>1, <1>2, <1>3, <2>1, <2>2, <2>3, <2>4 DEF DivideInv
<1>7. CASE WakeUpPush
  <2>1. ~EndBurst /\ WokenOnes = {woken} /\ WokenOnes' = {}
    BY <1>7 DEF WakeUpPush, EndBurst, SupervisorAt, WokenOnes
  <2>2. woken \in Proc /\ ReadyOnes' = ReadyOnes \cup {woken}
    BY <1>7, WokenQueued DEF ReadyOnes
  <2>3. woken \notin ReadyOnes
    BY <1>1, <2>1 DEF Divide
  <2>4. Distinct(ready_queue'.list)
    <3>1. \E k : Inserts(ready_queue.list, ready_queue'.list, k, woken)
                 /\ ready_queue.list \in Seq(Proc) /\ ready_queue'.list \in Seq(Proc)
      BY <1>7, <2>2, QueueTyped, PushInserts, OrderedPushInserts DEF WakeUpPush
    <3> QED BY <1>1, <2>3, <3>1, InsertsHolds DEF ReadyOnes
  <2>5. UNCHANGED <<io_queue, pc, created, woken, back>> /\ sup' \in {"wake_scan", "wake_signal"}
    BY <1>7 DEF WakeUpPush, pcbs, library
  <2>6. IoOnes' = IoOnes /\ LiveOnes' = LiveOnes /\ WokenKnown'
    BY <1>7, <2>5 DEF IoOnes, LiveOnes, Known, Over, Op, DivideInv, WokenKnown, WakeSteps
  <2> QED BY <1>1, <1>3, <2>1, <2>2, <2>4, <2>6, ToQueue DEF DivideInv
<1>8. CASE ~EndBurst /\ ~SimulateIo /\ ~SimulateCreat /\ ~WakeUpPush
  <2>1. /\ UNCHANGED <<ready_queue, io_queue>> /\ WokenOnes' = WokenOnes /\ LiveOnes' = LiveOnes
        /\ WokenKnown'
    BY <1>8, OthersMoveNone
  <2>2. IoOnes' = IoOnes
    BY <2>1 DEF IoOnes
  <2> QED BY <1>1, <1>2, <1>3, <1>8, <2>1, <2>2 DEF DivideInv
<1> QED
  BY <1>4, <1>5, <1>6, <1>7, <1>8

-----------------------------------------------------------------------------
(* The moves that the CPU threads make. *)

\* student.c, os-sim.c: the steps of a CPU thread that leave it its process.
LEMMA CpuThreadHolds ==
    ASSUME TypeInv, LockStepInv, NEW c \in Cpu, CpuThread(c), ~Pop(c), ~Requeue(c)
    PROVE  CpuOnes' = CpuOnes
<1>1. \A d \in Cpu \ {c} : Holds(d)' = Holds(d)
  BY OtherCpus DEF Holds
<1>2. Holds(c)' = Holds(c)
  <2>1. /\ cpu[c] \in {"count", "mark", "push"} => event[c] = cpu_state[c]
        /\ cpu[c] = "mark" => event[c] \in Events
    BY DEF LockStepInv
  <2> USE CpuTyped DEF Holds, CpuAt, Goto, cpus
  <2>2. CASE Top(c)
    BY <2>2 DEF Top
  <2>3. CASE Dispatch(c) \/ CountTerminated(c)
    BY <2>3 DEF Dispatch, CountTerminated
  <2>4. CASE Mark(c)
    BY <2>1, <2>4 DEF Mark, BackInQueue, Events
  <2>5. CASE Idle(c) \/ Select(c)
    BY <2>5 DEF Idle, Select
  <2>6. CASE Switch(c)
    BY <2>6 DEF Switch
  <2>7. CASE Relock(c) \/ Store(c)
    BY <2>7 DEF Relock, Store
  <2> QED BY <2>2, <2>3, <2>4, <2>5, <2>6, <2>7 DEF CpuThread
<1> QED
  BY <1>1, <1>2 DEF CpuOnes

\* student.c, preempt: the process goes from the CPU to the ready queue.
LEMMA RequeueMoves ==
    ASSUME TypeInv, LockStepInv, NEW c \in Cpu, CpuThread(c), Requeue(c)
    PROVE  /\ current[c] \in Proc /\ current[c] = cpu_current[c] /\ Holds(c) = current[c]
           /\ CpuOnes' = [CpuOnes EXCEPT ![c] = NULL]
           /\ ReadyOnes' = ReadyOnes \cup {current[c]}
<1>1. current[c] \in Proc /\ current[c] = cpu_current[c] /\ ReadyOnes' = ReadyOnes \cup {current[c]}
  BY CurrentQueued DEF ReadyOnes
<1>2. cpu[c] = "push" /\ cpu'[c] = "pop" /\ cpu_state[c] = "CPU_PREEMPT"
  BY CpuTyped DEF Requeue, CpuAt, Goto, LockStepInv
<1>3. Holds(c) = current[c] /\ Holds(c)' = NULL
  BY <1>1, <1>2 DEF Holds
<1>4. \A d \in Cpu \ {c} : Holds(d)' = Holds(d)
  BY OtherCpus DEF Holds
<1> QED
  BY <1>1, <1>3, <1>4 DEF CpuOnes

\* student.c, schedule: the head of the ready queue goes to the CPU.
LEMMA PopMoves ==
    ASSUME TypeInv, NEW c \in Cpu, CpuThread(c), Pop(c), Distinct(ready_queue.list)
    PROVE  /\ Holds(c) = NULL /\ cpu'[c] = "select" /\ Distinct(ready_queue'.list)
           /\ \/ CpuOnes' = CpuOnes /\ ReadyOnes' = ReadyOnes /\ ready_process'[c] = NULL
              \/ /\ ready_process'[c] \in ReadyOnes /\ ReadyOnes' = ReadyOnes \ {ready_process'[c]}
                 /\ CpuOnes' = [CpuOnes EXCEPT ![c] = ready_process'[c]]
<1>1. /\ cpu[c] = "pop" /\ cpu'[c] = "select" /\ ready_process'[c] = First(ready_queue, NULL)
      /\ ready_queue' = queue_pop(ready_queue)
  BY CpuTyped DEF Pop, CpuAt, Goto
<1>2. Holds(c) = NULL /\ Holds(c)' = ready_process'[c]
  BY <1>1 DEF Holds
<1>3. \A d \in Cpu \ {c} : Holds(d)' = Holds(d)
  BY OtherCpus DEF Holds
<1>4. CpuOnes' = [CpuOnes EXCEPT ![c] = ready_process'[c]]
  BY <1>2, <1>3 DEF CpuOnes
<1>5. CASE ready_queue.list = <<>>
  <2>1. ready_process'[c] = NULL /\ ready_queue' = ready_queue
    BY <1>1, <1>5 DEF First, queue_pop
  <2>2. CpuOnes' = CpuOnes /\ ReadyOnes' = ReadyOnes
    BY <1>2, <1>3, <2>1 DEF CpuOnes, ReadyOnes, Holding
  <2> QED BY <1>1, <1>2, <2>1, <2>2 DEF Distinct
<1>6. CASE ready_queue.list # <<>>
  <2> DEFINE p == ready_queue.list[1]
  <2>1. /\ ready_process'[c] = p /\ 1 \in DOMAIN ready_queue.list
        /\ Holding(ready_queue.list) = Holding(ready_queue'.list) \cup {p}
        /\ Distinct(ready_queue'.list) /\ p \notin Holding(ready_queue'.list)
    BY <1>1, <1>6, QueueTyped, PopRemoves
  <2>2. p \in ReadyOnes /\ ReadyOnes' = ReadyOnes \ {p}
    BY <2>1 DEF ReadyOnes
  <2> QED BY <1>1, <1>2, <1>4, <2>1, <2>2
<1> QED
  BY <1>5, <1>6

LEMMA CpuThreadDivides ==
    ASSUME TypeInv, LockStepInv, DivideInv, NEW c \in Cpu, CpuThread(c)
    PROVE  DivideInv'
<1>1. Distinct(ready_queue.list) /\ Divide(ReadyOnes, IoOnes, WokenOnes, CpuOnes, LiveOnes)
  BY DEF DivideInv
<1>2. UNCHANGED <<pc, io_queue, created, sup, back, woken>>
  BY CpuThreadLeaves
<1>3. IoOnes' = IoOnes /\ WokenOnes' = WokenOnes /\ LiveOnes' = LiveOnes /\ WokenKnown'
  BY <1>2 DEF IoOnes, WokenOnes, LiveOnes, WokenKnown, DivideInv, Known, Over, Op
<1>4. CASE Requeue(c)
  <2>1. /\ current[c] \in Proc /\ CpuOnes[c] = current[c]
        /\ CpuOnes' = [CpuOnes EXCEPT ![c] = NULL] /\ ReadyOnes' = ReadyOnes \cup {current[c]}
    BY <1>4, RequeueMoves DEF CpuOnes
  <2>2. Divide(ReadyOnes', IoOnes, WokenOnes, CpuOnes', LiveOnes) /\ current[c] \notin ReadyOnes
    <3>1. Divide(ReadyOnes', IoOnes, WokenOnes, CpuOnes', LiveOnes)
      BY <1>1, <2>1, GiveUp
    <3>2. current[c] \notin ReadyOnes
      BY <1>1, <2>1 DEF Divide
    <3> QED BY <3>1, <3>2
  <2>3. Distinct(ready_queue'.list)
    <3>1. \E k : Inserts(ready_queue.list, ready_queue'.list, k, current[c])
                 /\ ready_queue.list \in Seq(Proc) /\ ready_queue'.list \in Seq(Proc)
      BY <1>4, <2>1, QueueTyped, OrderedPushInserts DEF Requeue, Requeued
    <3> QED BY <1>1, <2>2, <3>1, InsertsHolds DEF ReadyOnes
  <2> QED BY <1>3, <2>2, <2>3 DEF DivideInv
<1>5. CASE Pop(c)
  <2>1. /\ CpuOnes[c] = NULL /\ Distinct(ready_queue'.list)
        /\ \/ CpuOnes' = CpuOnes /\ ReadyOnes' = ReadyOnes
           \/ /\ ready_process'[c] \in ReadyOnes /\ ReadyOnes' = ReadyOnes \ {ready_process'[c]}
              /\ CpuOnes' = [CpuOnes EXCEPT ![c] = ready_process'[c]]
    BY <1>1, <1>5, PopMoves DEF CpuOnes
  <2>2. Divide(ReadyOnes', IoOnes, WokenOnes, CpuOnes', LiveOnes)
    BY <1>1, <2>1, ToCpu
  <2> QED BY <1>3, <2>1, <2>2 DEF DivideInv
<1>6. CASE ~Requeue(c) /\ ~Pop(c)
  <2>1. UNCHANGED ready_queue /\ CpuOnes' = CpuOnes
    BY <1>6, CpuThreadLeavesQueue, CpuThreadHolds
  <2>2. ReadyOnes' = ReadyOnes /\ Distinct(ready_queue.list)'
    BY <1>1, <2>1 DEF ReadyOnes, Distinct, Holding
  <2> QED BY <1>1, <1>3, <2>1, <2>2 DEF DivideInv
<1> QED
  BY <1>4, <1>5, <1>6

-----------------------------------------------------------------------------
(* The states of the processes. *)

\* Nobody is about to mark a process while the supervisor goes about its work,
\* and only the end of a burst gives a CPU something to mark.
LEMMA NoneLeft ==
    ASSUME LockStepInv, sup \notin {"event", "force_wait"} \/ "supervisor" \notin waiting[n],
           NEW c \in Cpu, NEW p
    PROVE  ~Yields(c, p) /\ ~Ends(c, p)
<1>1. ~Busy(c)
  BY DEF LockStepInv
<1> QED
  BY <1>1 DEF Busy, Yields, Ends

LEMMA QuietSupervisor ==
    ASSUME TypeInv, LockStepInv, Supervisor, ~EndBurst,
           pending'[n] # pending[n] => cpu[n] = "running", pending[n] => cpu[n] = "running"
    PROVE  /\ \A p \in Proc : ~Left(p) /\ ~Left(p)'
           /\ \A c \in Cpu, p \in Proc : ~Yields(c, p)' /\ ~Ends(c, p)'
           /\ \A c \in Cpu : Holds(c)' = Holds(c) /\ HeldState(c)' = HeldState(c)
<1>1. UNCHANGED <<cpu, event, cpu_current>>
  BY SupervisorRaises
<1>2. \A c \in Cpu, p \in Proc : ~Yields(c, p) /\ ~Ends(c, p)
  <2>1. sup \notin {"event", "force_wait"} \/ "supervisor" \notin waiting[n]
    BY SupervisorRaises
  <2> QED BY <2>1, NoneLeft
<1>3. UNCHANGED cpu_state \/ cpu_state' = [cpu_state EXCEPT ![n] = "CPU_PREEMPT"]
  BY DEF Supervisor, Tick, WakeUp, Lock, PrintGanttLine, RunBurst, NothingToRun, SchedulerHasRun,
     SimulateIo, SimulateCreat, WakeUpReturned, WakeUpMark, WakeUpPush, WakeUpScan, ForcePreempt,
     Preempted, WakeUpSignal, Raise, cpus
<1>4. \A c \in Cpu : cpu_state'[c] \in {cpu_state[c], "CPU_PREEMPT"}
  BY <1>3, CpuTyped
<1>5. \A c \in Cpu, p \in Proc : ~Yields(c, p)' /\ ~Ends(c, p)'
  BY <1>1, <1>2, <1>4 DEF Yields, Ends
<1>6. \A c \in Cpu : Holds(c)' = Holds(c) /\ HeldState(c)' = HeldState(c)
  BY <1>1, SupervisorHolds DEF HeldState
<1> QED
  BY <1>2, <1>5, <1>6 DEF Left

\* Where a process is excludes the other places.
LEMMA OnlyPlace ==
    ASSUME DivideInv, NEW p \in Proc
    PROVE  /\ p \in ReadyOnes => p \notin IoOnes /\ p \notin WokenOnes /\ \A c \in Cpu : Holds(c) # p
           /\ p \in IoOnes => p \notin WokenOnes /\ \A c \in Cpu : Holds(c) # p
           /\ p \in WokenOnes => \A c \in Cpu : Holds(c) # p
           /\ \A c, d \in Cpu : Holds(c) = p /\ Holds(d) = p => c = d
           /\ p \in ReadyOnes \/ p \in IoOnes \/ p \in WokenOnes \/ (\E c \in Cpu : Holds(c) = p)
                 <=> Known(p) /\ ~Over(p)
           /\ Over(p) => Known(p)
<1>1. NULL # p
  BY OsAssumption
<1> QED
  BY <1>1 DEF DivideInv, Divide, CpuOnes, LiveOnes, WokenKnown, Over

LEMMA EndBurstSays ==
    ASSUME TypeInv, LockStepInv, DivideInv, StateInv, EndBurst, cpu[n] = "running"
    PROVE  StateInv'
<1>0. PICK p, m : p = cpu_current[n] /\ m = n
  OBVIOUS
<1>1. /\ p \in LiveOnes /\ Holds(m) = p /\ CpuOnes' = [CpuOnes EXCEPT ![m] = NULL]
      /\ UNCHANGED ready_queue /\ WokenOnes = {} /\ WokenOnes' = {}
      /\ \/ /\ NextOp(p) = "OP_IO" /\ cpu_state' = [cpu_state EXCEPT ![m] = "CPU_YIELD"]
            /\ IoOnes' = IoOnes \cup {p} /\ LiveOnes' = LiveOnes
         \/ /\ NextOp(p) = "OP_TERMINATE" /\ cpu_state' = [cpu_state EXCEPT ![m] = "CPU_TERMINATE"]
            /\ IoOnes' = IoOnes /\ LiveOnes' = LiveOnes \ {p}
  BY <1>0, EndBurstMoves
<1>2. /\ p \in Proc /\ p # NULL /\ m \in Cpu /\ Op(p) = "OP_CPU"
      /\ cpu[m] = "running" /\ cpu_current[m] = p
      /\ \A q \in Proc \ {p} : NextOp(q) = Op(q)
  BY <1>0, <1>1, BurstEnds, OsAssumption, CpuTyped
<1>3. sup = "cpus" /\ UNCHANGED <<pstate, cpu, cpu_current, event, created, woken>>
  BY DEF EndBurst, SupervisorAt
<1>4. \A c \in Cpu, q \in Proc : ~Yields(c, q) /\ ~Ends(c, q)
  BY <1>3, NoneLeft
<1>5. \A c \in Cpu : c # m => cpu_state'[c] = cpu_state[c] /\ \A q \in Proc : ~Yields(c, q)' /\ ~Ends(c, q)'
  <2>1. \A c \in Cpu : c # m => cpu_state'[c] = cpu_state[c]
    BY <1>1, CpuTyped
  <2> QED BY <1>3, <1>4, <2>1 DEF Yields, Ends
<1>6. cpu_state'[m] \in {"CPU_YIELD", "CPU_TERMINATE"} /\ (cpu_state'[m] = "CPU_YIELD" <=> NextOp(p) = "OP_IO")
  BY <1>1, <1>2, CpuTyped
<1>7. /\ Yields(m, p)' <=> NextOp(p) = "OP_IO"
      /\ Ends(m, p)' <=> NextOp(p) # "OP_IO"
      /\ \A q \in Proc : q # p => ~Yields(m, q)' /\ ~Ends(m, q)'
  BY <1>2, <1>3, <1>6 DEF Yields, Ends
<1>8. Left(p)' /\ \A q \in Proc : q # p => ~Left(q)'
  BY <1>2, <1>3, <1>5, <1>7 DEF Left
<1>9. \A c \in Cpu : Holds(c)' = (IF c = m THEN NULL ELSE Holds(c)) /\ HeldState(c)' = HeldState(c)
  BY <1>1, <1>3 DEF CpuOnes, HeldState
<1>10. \A q \in Proc : Over(q)' <=> Over(q) \/ (q = p /\ NextOp(p) = "OP_TERMINATE")
  BY <1>2 DEF Over, Op, NextOp
<1>11. \A q \in Proc : Known(q)' <=> Known(q)
  BY <1>3 DEF Known
<1>12. ReadyOnes' = ReadyOnes /\ pstate[p] = "PROCESS_RUNNING" /\ ~Over(p) /\ Known(p)
  <2>1. HeldState(m) = "PROCESS_RUNNING"
    BY <1>2 DEF HeldState
  <2> QED BY <1>1, <1>2, <2>1 DEF StateInv, StateSays, ReadyOnes, LiveOnes
<1>13. p \notin ReadyOnes /\ \A c \in Cpu : Holds(c)' # p
  BY <1>1, <1>2, <1>9, OnlyPlace
<1>14. \A c \in Cpu, q \in Proc : (Yields(c, q)' => q \in IoOnes') /\ (Ends(c, q)' => Over(q)')
  BY <1>1, <1>5, <1>7, <1>10
<1>15. StateSays(p)'
  BY <1>1, <1>2, <1>3, <1>8, <1>11, <1>12, <1>13 DEF StateSays
<1>16. ASSUME NEW q \in Proc, q # p PROVE StateSays(q)'
  <2>1. StateSays(q)
    BY DEF StateInv
  <2>2. ~Left(q)
    BY <1>4 DEF Left
  <2>3. \A c \in Cpu : Holds(c)' = q => Holds(c) = q
    BY <1>9, OsAssumption
  <2> QED BY <1>1, <1>3, <1>8, <1>9, <1>10, <1>11, <1>12, <1>16, <2>1, <2>2, <2>3 DEF StateSays
<1> QED
  BY <1>14, <1>15, <1>16 DEF StateInv

LEMMA SupervisorSays ==
    ASSUME TypeInv, LockStepInv, DivideInv, StateInv, Supervisor, ~EndBurst,
           pending'[n] # pending[n] => cpu[n] = "running", pending[n] => cpu[n] = "running"
    PROVE  StateInv'
<1>1. /\ \A p \in Proc : ~Left(p) /\ ~Left(p)'
      /\ \A c \in Cpu, p \in Proc : ~Yields(c, p)' /\ ~Ends(c, p)'
      /\ \A c \in Cpu : Holds(c)' = Holds(c) /\ HeldState(c)' = HeldState(c)
  BY QuietSupervisor
<1>2. \A p \in Proc : StateSays(p)
  BY DEF StateInv
<1>3. SUFFICES ASSUME NEW p \in Proc PROVE StateSays(p)'
  BY <1>1 DEF StateInv
<1>4. StateSays(p) /\ ~Left(p) /\ ~Left(p)'
  BY <1>1, <1>2
<1>5. CASE SimulateIo
  <2>1. /\ UNCHANGED ready_queue /\ WokenOnes = {} /\ LiveOnes' = LiveOnes /\ WokenKnown'
        /\ Known(p)' <=> Known(p)
        /\ \/ IoOnes' = IoOnes /\ WokenOnes' = {}
           \/ /\ woken' \in IoOnes /\ IoOnes' = IoOnes \ {woken'} /\ WokenOnes' = {woken'}
              /\ sup' = "wake"
    BY <1>5, IoMoves
  <2>2. UNCHANGED pstate /\ ReadyOnes' = ReadyOnes
    BY <1>5, <2>1 DEF SimulateIo, ReadyOnes
  <2>3. Over(p)' <=> Over(p)
    <3>1. Known(p) => (p \in LiveOnes <=> ~Over(p)) /\ (p \in LiveOnes' <=> ~Over(p)')
      BY <2>1 DEF LiveOnes
    <3>2. ~Known(p) => ~Over(p) /\ ~Over(p)'
      BY <2>1 DEF DivideInv, WokenKnown, Over
    <3> QED BY <2>1, <3>1, <3>2
  <2>4. CASE p \notin WokenOnes'
    <3>1. p \in IoOnes' => p \in IoOnes
      BY <2>1
    <3> QED BY <1>1, <1>4, <2>1, <2>2, <2>3, <2>4, <3>1 DEF StateSays
  <2>5. CASE p \in WokenOnes'
    <3>1. p \in IoOnes /\ p \notin IoOnes' /\ sup' = "wake"
      BY <2>1, <2>5
    <3>2. pstate[p] = "PROCESS_WAITING" /\ p \notin ReadyOnes /\ (\A c \in Cpu : Holds(c) # p)
          /\ Known(p) /\ ~Over(p)
      BY <1>4, <3>1, OnlyPlace DEF StateSays
    <3> QED BY <1>1, <2>1, <2>2, <2>3, <3>1, <3>2 DEF StateSays
  <2> QED BY <2>4, <2>5
<1>6. CASE SimulateCreat
  <2>1. /\ UNCHANGED <<ready_queue, io_queue>> /\ WokenOnes = {}
        /\ \/ WokenOnes' = {} /\ (Known(p)' <=> Known(p))
           \/ /\ woken' \in Proc /\ ~Known(woken') /\ sup' = "wake" /\ WokenOnes' = {woken'}
              /\ Known(p)' <=> Known(p) \/ p = woken'
    BY <1>6, CreatMoves
  <2>2. /\ UNCHANGED <<pstate, pc>> /\ ReadyOnes' = ReadyOnes /\ IoOnes' = IoOnes
    BY <1>6, <2>1 DEF SimulateCreat, pcbs, ReadyOnes, IoOnes
  <2>3. Over(p)' <=> Over(p)
    BY <2>2 DEF Over, Op
  <2>4. CASE p \notin WokenOnes'
    BY <1>1, <1>4, <2>1, <2>2, <2>3, <2>4 DEF StateSays
  <2>5. CASE p \in WokenOnes'
    <3>1. p = woken' /\ ~Known(p) /\ sup' = "wake" /\ Known(p)'
      <4>1. p = woken' /\ ~Known(woken') /\ sup' = "wake" /\ Known(p)'
        BY <2>1, <2>5
      <4> QED BY <4>1 DEF Known
    <3>2. pstate[p] = "PROCESS_NEW" /\ p \notin ReadyOnes /\ p \notin IoOnes
          /\ (\A c \in Cpu : Holds(c) # p) /\ ~Over(p)
      BY <1>4, <3>1, OnlyPlace DEF StateSays
    <3> QED BY <1>1, <2>2, <2>3, <3>1, <3>2 DEF StateSays
  <2> QED BY <2>4, <2>5
<1>7. CASE WakeUpPush
  <2>1. /\ woken \in Proc /\ ReadyOnes' = ReadyOnes \cup {woken}
        /\ sup = "wake_push" /\ sup' \in {"wake_scan", "wake_signal"}
        /\ UNCHANGED <<pstate, pc, io_queue, created, woken>>
    BY <1>7, WokenQueued DEF WakeUpPush, SupervisorAt, pcbs, library, ReadyOnes
  <2>2. WokenOnes = {woken} /\ WokenOnes' = {}
    BY <2>1 DEF WokenOnes
  <2>3. IoOnes' = IoOnes /\ (Over(p)' <=> Over(p)) /\ (Known(p)' <=> Known(p))
    BY <2>1 DEF IoOnes, Over, Op, Known
  <2>4. p = woken => pstate[p] = "PROCESS_READY"
    BY <1>4, <2>1, <2>2 DEF StateSays
  <2> QED BY <1>1, <1>4, <2>1, <2>2, <2>3, <2>4 DEF StateSays
<1>8. CASE WakeUpMark
  <2>1. /\ UNCHANGED <<ready_queue, io_queue, pc>> /\ WokenOnes' = WokenOnes
        /\ Known(p)' <=> Known(p)
    BY <1>8, OthersMoveNone DEF WakeUpMark, SupervisorAt, EndBurst, SimulateIo, SimulateCreat,
       WakeUpPush
  <2>2. WokenOnes = {woken} /\ sup' = "wake_push" /\ pstate' = [pstate EXCEPT ![woken] = "PROCESS_READY"]
    BY <1>8 DEF WakeUpMark, SupervisorAt, WokenOnes
  <2>3. IoOnes' = IoOnes /\ ReadyOnes' = ReadyOnes /\ (Over(p)' <=> Over(p))
    BY <2>1 DEF IoOnes, ReadyOnes, Over, Op
  <2>4. CASE p # woken
    <3>1. pstate'[p] = pstate[p] /\ p \notin WokenOnes
      BY <2>2, <2>4 DEF TypeInv, TypeOK, PcbsOK
    <3> QED BY <1>1, <1>4, <2>1, <2>2, <2>3, <3>1 DEF StateSays
  <2>5. CASE p = woken
    <3>1. pstate'[p] = "PROCESS_READY" /\ p \in WokenOnes
      BY <2>2, <2>5 DEF TypeInv, TypeOK, PcbsOK
    <3>2. p \notin IoOnes /\ (\A c \in Cpu : Holds(c) # p) /\ Known(p) /\ ~Over(p)
      BY <3>1, OnlyPlace
    <3> QED BY <1>1, <2>1, <2>2, <2>3, <3>1, <3>2 DEF StateSays
  <2> QED BY <2>4, <2>5
<1>9. CASE ~SimulateIo /\ ~SimulateCreat /\ ~WakeUpPush /\ ~WakeUpMark
  <2>1. /\ UNCHANGED <<ready_queue, io_queue, pc>> /\ WokenOnes' = WokenOnes
        /\ Known(p)' <=> Known(p)
    BY <1>9, OthersMoveNone
  <2>2. UNCHANGED pstate /\ sup \notin {"wake", "wake_push"}
    BY <1>9 DEF Supervisor, Tick, WakeUp, Lock, PrintGanttLine, RunBurst, NothingToRun,
       SchedulerHasRun, WakeUpReturned, WakeUpScan, ForcePreempt, Preempted, WakeUpSignal,
       SupervisorAt, pcbs
  <2>3. IoOnes' = IoOnes /\ ReadyOnes' = ReadyOnes /\ (Over(p)' <=> Over(p)) /\ WokenOnes = {}
    BY <2>1, <2>2 DEF IoOnes, ReadyOnes, Over, Op, WokenOnes
  <2> QED BY <1>1, <1>4, <2>1, <2>2, <2>3 DEF StateSays
<1> QED
  BY <1>5, <1>6, <1>7, <1>8, <1>9

\* os-sim.c, simulator_cpu_thread: the steps that neither mark nor move a process.
LEMMA CpuThreadQuiet ==
    ASSUME TypeInv, LockStepInv, StateInv, NEW c \in Cpu, CpuThread(c),
           ~Mark(c), ~Requeue(c), ~Pop(c), ~Select(c)
    PROVE  StateInv'
<1>1. UNCHANGED <<pc, io_queue, created, sup, woken>>
  BY CpuThreadLeaves
<1>2. UNCHANGED ready_queue
  BY CpuThreadLeavesQueue
<1>3. CpuOnes' = CpuOnes
  BY CpuThreadHolds
<1>4. UNCHANGED pstate
  BY DEF CpuThread, Top, Dispatch, CountTerminated, Idle, Switch, Relock, Store, pcbs
<1>5. \A d \in Cpu : Holds(d)' = Holds(d)
  BY <1>3 DEF CpuOnes
<1>6. HeldState(c)' = HeldState(c)
  BY CpuTyped DEF CpuThread, Top, Dispatch, CountTerminated, Idle, Switch, Relock, Store, HeldState,
     CpuAt, Goto
<1>7. \A q \in Proc : (Yields(c, q)' <=> Yields(c, q)) /\ (Ends(c, q)' <=> Ends(c, q))
  <2> TAKE q \in Proc
  <2>1. /\ cpu[c] = "running" => cpu_state[c] # "CPU_IDLE"
        /\ cpu[c] = "count" => event[c] = "CPU_TERMINATE"
    BY DEF LockStepInv
  <2> USE CpuTyped DEF Yields, Ends, CpuAt, Goto, cpus
  <2>2. CASE Top(c)
    BY <2>2 DEF Top
  <2>3. CASE Dispatch(c)
    BY <2>3 DEF Dispatch
  <2>4. CASE CountTerminated(c)
    BY <2>1, <2>4 DEF CountTerminated
  <2>5. CASE Idle(c) \/ Switch(c) \/ Relock(c) \/ Store(c)
    BY <2>5 DEF Idle, Switch, Relock, Store
  <2> QED BY <2>2, <2>3, <2>4, <2>5 DEF CpuThread
<1>8. ASSUME NEW d \in Cpu, NEW q \in Proc
      PROVE  /\ (Yields(d, q)' <=> Yields(d, q)) /\ (Ends(d, q)' <=> Ends(d, q))
             /\ HeldState(d)' = HeldState(d)
  <2>1. CASE d = c
    BY <1>6, <1>7, <2>1
  <2>2. CASE d # c
    BY <2>2, OtherCpus DEF Yields, Ends, HeldState
  <2> QED BY <2>1, <2>2
<1>9. /\ ReadyOnes' = ReadyOnes /\ IoOnes' = IoOnes /\ WokenOnes' = WokenOnes
      /\ \A q \in Proc : /\ Known(q)' <=> Known(q)
                         /\ Over(q)' <=> Over(q)
  BY <1>1, <1>2 DEF ReadyOnes, IoOnes, WokenOnes, Known, Over, Op
<1>10. \A q \in Proc : Left(q)' <=> Left(q)
  BY <1>8 DEF Left
<1>11. ASSUME NEW q \in Proc PROVE StateSays(q)'
  <2>1. StateSays(q)
    BY DEF StateInv
  <2>2. \A d \in Cpu : HeldState(d)' = HeldState(d)
    BY <1>8
  <2> QED BY <1>1, <1>4, <1>5, <1>9, <1>10, <2>1, <2>2 DEF StateSays
<1> QED
  BY <1>8, <1>9, <1>11 DEF StateInv

\* student.c, preempt, yield and terminate: the process that is marked is the one
\* whose event it is, and where that has put it.
LEMMA MarkSays ==
    ASSUME TypeInv, LockStepInv, DivideInv, StateInv, NEW c \in Cpu, CpuThread(c), Mark(c)
    PROVE  StateInv' /\ pstate[current[c]] = "PROCESS_RUNNING"
<1>0. PICK p : p = cpu_current[c]
  OBVIOUS
<1>1. /\ cpu[c] = "mark" /\ current[c] = p /\ p \in Proc /\ event[c] = cpu_state[c]
      /\ event[c] \in Events /\ p # NULL
  BY <1>0, CurrentIsProcess, OsAssumption DEF Mark, CpuAt, LockStepInv
<1>2. UNCHANGED <<pc, io_queue, created, sup, woken>>
  BY CpuThreadLeaves
<1>3. UNCHANGED ready_queue /\ CpuOnes' = CpuOnes
  <2>1. ~Pop(c) /\ ~Requeue(c)
    BY <1>1 DEF Pop, Requeue, CpuAt
  <2> QED BY <2>1, CpuThreadLeavesQueue, CpuThreadHolds
<1>4. \A d \in Cpu : Holds(d)' = Holds(d)
  BY <1>3 DEF CpuOnes
<1>5. /\ pstate' = [pstate EXCEPT ![p] = NewState(event[c])]
      /\ cpu'[c] = IF event[c] = "CPU_PREEMPT" THEN "push" ELSE "pop"
  BY <1>1, CpuTyped DEF Mark, Goto, BackInQueue
<1>6. pstate'[p] = NewState(event[c]) /\ \A q \in Proc : q # p => pstate'[q] = pstate[q]
  BY <1>1, <1>5 DEF TypeInv, TypeOK, PcbsOK
<1>7. \A d \in Cpu, q \in Proc : d # c => ~Yields(d, q) /\ ~Ends(d, q)
  <2>1. \A d \in Cpu : Busy(d) => d = n
    BY DEF LockStepInv
  <2>2. Busy(c)
    BY <1>1 DEF Busy
  <2>3. \A d \in Cpu : d # c => ~Busy(d)
    BY <2>1, <2>2
  <2> QED BY <2>3 DEF Busy, Yields, Ends
<1>8. \A d \in Cpu, q \in Proc : ~Yields(d, q)' /\ ~Ends(d, q)'
  <2>1. \A q \in Proc : ~Yields(c, q)' /\ ~Ends(c, q)'
    BY <1>5 DEF Yields, Ends
  <2>2. \A d \in Cpu, q \in Proc : d # c => ~Yields(d, q)' /\ ~Ends(d, q)'
    BY <1>7, OtherCpus DEF Yields, Ends
  <2> QED BY <2>1, <2>2
<1>9. \A q \in Proc : ~Left(q)' /\ (q # p => ~Left(q))
  BY <1>0, <1>7, <1>8 DEF Left, Yields, Ends
<1>10. \A d \in Cpu : d # c => HeldState(d)' = HeldState(d)
  BY OtherCpus DEF HeldState
<1>11. /\ ReadyOnes' = ReadyOnes /\ IoOnes' = IoOnes /\ WokenOnes' = WokenOnes
       /\ \A q \in Proc : /\ Known(q)' <=> Known(q)
                          /\ Over(q)' <=> Over(q)
  BY <1>2, <1>3 DEF ReadyOnes, IoOnes, WokenOnes, Known, Over, Op
<1>12. Holds(c) = IF event[c] = "CPU_PREEMPT" THEN p ELSE NULL
  BY <1>0, <1>1 DEF Holds, Events
<1>13. StateSays(p)
  BY <1>1 DEF StateInv
<1>14. StateSays(p)' /\ pstate[p] = "PROCESS_RUNNING"
  <2>1. CASE event[c] = "CPU_PREEMPT"
    <3>1. Holds(c) = p /\ pstate'[p] = "PROCESS_READY" /\ HeldState(c)' = "PROCESS_READY"
      BY <1>5, <1>6, <1>12, <2>1 DEF NewState, HeldState
    <3>2. p \notin ReadyOnes /\ p \notin IoOnes /\ p \notin WokenOnes /\ Known(p) /\ ~Over(p)
          /\ \A d \in Cpu : Holds(d) = p => d = c
      BY <1>1, <3>1, OnlyPlace
    <3>3. pstate[p] = "PROCESS_RUNNING"
      BY <1>1, <1>13, <3>1 DEF StateSays, HeldState
    <3> QED BY <1>1, <1>4, <1>11, <3>1, <3>2, <3>3 DEF StateSays
  <2>2. CASE event[c] = "CPU_YIELD"
    <3>1. Yields(c, p) /\ p \in IoOnes
      BY <1>0, <1>1, <2>2 DEF Yields, StateInv
    <3>2. p \notin ReadyOnes /\ p \notin WokenOnes /\ Known(p) /\ ~Over(p)
          /\ \A d \in Cpu : Holds(d) # p
      BY <1>1, <3>1, OnlyPlace
    <3>3. pstate[p] = "PROCESS_RUNNING" /\ pstate'[p] = "PROCESS_WAITING"
      BY <1>6, <1>13, <2>2, <3>1 DEF StateSays, Left, NewState
    <3> QED BY <1>1, <1>4, <1>9, <1>11, <3>1, <3>2, <3>3 DEF StateSays
  <2>3. CASE event[c] = "CPU_TERMINATE"
    <3>1. Ends(c, p) /\ Over(p)
      BY <1>0, <1>1, <2>3 DEF Ends, StateInv
    <3>2. p \notin ReadyOnes /\ p \notin IoOnes /\ p \notin WokenOnes /\ Known(p)
          /\ \A d \in Cpu : Holds(d) # p
      BY <1>1, <3>1, OnlyPlace
    <3>3. pstate[p] = "PROCESS_RUNNING" /\ pstate'[p] = "PROCESS_TERMINATED"
      BY <1>6, <1>13, <2>3, <3>1 DEF StateSays, Left, NewState
    <3> QED BY <1>1, <1>4, <1>9, <1>11, <3>1, <3>2, <3>3 DEF StateSays
  <2> QED BY <1>1, <2>1, <2>2, <2>3 DEF Events
<1>15. ASSUME NEW q \in Proc, q # p PROVE StateSays(q)'
  <2>1. StateSays(q) /\ ~Left(q) /\ ~Left(q)' /\ pstate'[q] = pstate[q] /\ Holds(c) # q
    BY <1>6, <1>9, <1>12, <1>15, OsAssumption DEF StateInv
  <2>2. ~Left(q) /\ \A d \in Cpu : Holds(d) = q => HeldState(d)' = HeldState(d)
    BY <1>10, <2>1
  <2> QED BY <1>2, <1>4, <1>11, <2>1, <2>2 DEF StateSays
<1> QED
  BY <1>1, <1>8, <1>14, <1>15 DEF StateInv

\* A CPU thread that moves or marks a process of its own has no event left to mark.
LEMMA NoMark ==
    ASSUME TypeInv, NEW c \in Cpu, CpuThread(c), Requeue(c) \/ Pop(c) \/ Select(c), NEW q
    PROVE  /\ ~Yields(c, q)' /\ ~Ends(c, q)' /\ ~Yields(c, q) /\ ~Ends(c, q)
           /\ (Left(q)' <=> Left(q))
           /\ \A d \in Cpu : (Yields(d, q)' <=> Yields(d, q)) /\ (Ends(d, q)' <=> Ends(d, q))
<1>1. ~Yields(c, q)' /\ ~Ends(c, q)' /\ ~Yields(c, q) /\ ~Ends(c, q)
  BY CpuTyped DEF Requeue, Pop, Select, CpuAt, Goto, Yields, Ends
<1>2. \A d \in Cpu : (Yields(d, q)' <=> Yields(d, q)) /\ (Ends(d, q)' <=> Ends(d, q))
  BY <1>1, OtherCpus DEF Yields, Ends
<1> QED
  BY <1>1, <1>2 DEF Left

LEMMA RequeueSays ==
    ASSUME TypeInv, LockStepInv, DivideInv, StateInv, NEW c \in Cpu, CpuThread(c), Requeue(c)
    PROVE  StateInv'
<1>0. PICK p : p = current[c]
  OBVIOUS
<1>1. /\ p \in Proc /\ Holds(c) = p /\ CpuOnes' = [CpuOnes EXCEPT ![c] = NULL]
      /\ ReadyOnes' = ReadyOnes \cup {p} /\ cpu[c] = "push"
  BY <1>0, RequeueMoves DEF Requeue, CpuAt
<1>2. UNCHANGED <<pc, io_queue, created, sup, woken, pstate>>
  BY CpuThreadLeaves DEF Requeue, pcbs
<1>3. \A d \in Cpu : Holds(d)' = IF d = c THEN NULL ELSE Holds(d)
  BY <1>1 DEF CpuOnes
<1>4. \A d \in Cpu : d # c => HeldState(d)' = HeldState(d)
  BY OtherCpus DEF HeldState
<1>5. /\ IoOnes' = IoOnes /\ WokenOnes' = WokenOnes
      /\ \A q \in Proc : /\ Known(q)' <=> Known(q)
                         /\ Over(q)' <=> Over(q)
                         /\ Left(q)' <=> Left(q)
  BY <1>2, NoMark DEF IoOnes, WokenOnes, Known, Over, Op
<1>6. StateSays(p) /\ pstate[p] = "PROCESS_READY"
  BY <1>1 DEF StateInv, StateSays, HeldState
<1>7. ASSUME NEW q \in Proc PROVE StateSays(q)'
  <2>1. StateSays(q) /\ \A d \in Cpu : Holds(d)' = q => Holds(d) = q /\ HeldState(d)' = HeldState(d)
    BY <1>3, <1>4, OsAssumption DEF StateInv
  <2> QED BY <1>1, <1>2, <1>5, <1>6, <2>1 DEF StateSays
<1> QED
  BY <1>5, <1>7, NoMark DEF StateInv

LEMMA PopSays ==
    ASSUME TypeInv, LockStepInv, DivideInv, StateInv, NEW c \in Cpu, CpuThread(c), Pop(c)
    PROVE  StateInv'
<1>0. PICK p : p = ready_process'[c]
  OBVIOUS
<1>1. /\ Holds(c) = NULL /\ cpu'[c] = "select"
      /\ \/ CpuOnes' = CpuOnes /\ ReadyOnes' = ReadyOnes
         \/ p \in ReadyOnes /\ ReadyOnes' = ReadyOnes \ {p} /\ CpuOnes' = [CpuOnes EXCEPT ![c] = p]
  BY <1>0, PopMoves DEF DivideInv
<1>2. UNCHANGED <<pc, io_queue, created, sup, woken, pstate>>
  BY CpuThreadLeaves DEF Pop, pcbs
<1>3. \A d \in Cpu : d # c => HeldState(d)' = HeldState(d) /\ Holds(d)' = Holds(d)
  BY OtherCpus DEF HeldState, Holds
<1>4. /\ IoOnes' = IoOnes /\ WokenOnes' = WokenOnes
      /\ \A q \in Proc : /\ Known(q)' <=> Known(q)
                         /\ Over(q)' <=> Over(q)
                         /\ Left(q)' <=> Left(q)
  BY <1>2, NoMark DEF IoOnes, WokenOnes, Known, Over, Op
<1>5. HeldState(c)' = "PROCESS_READY" /\ (Holds(c)' = NULL \/ Holds(c)' \in ReadyOnes)
  BY <1>1 DEF HeldState, CpuOnes
<1>6. ASSUME NEW q \in Proc PROVE StateSays(q)'
  <2>1. StateSays(q)
    BY DEF StateInv
  <2>2. q \in ReadyOnes' => q \in ReadyOnes
    BY <1>1
  <2>3. ASSUME NEW d \in Cpu, Holds(d)' = q PROVE pstate'[q] = HeldState(d)'
    <3>1. CASE d = c
      BY <1>2, <1>5, <2>1, <2>3, <3>1, OsAssumption DEF StateSays
    <3>2. CASE d # c
      BY <1>2, <1>3, <2>1, <2>3, <3>2 DEF StateSays
    <3> QED BY <3>1, <3>2
  <2> QED BY <1>2, <1>4, <2>1, <2>2, <2>3 DEF StateSays
<1> QED
  BY <1>4, <1>6, NoMark DEF StateInv

LEMMA SelectSays ==
    ASSUME TypeInv, LockStepInv, DivideInv, StateInv, NEW c \in Cpu, CpuThread(c), Select(c)
    PROVE  /\ StateInv'
           /\ ready_process[c] # NULL => pstate[ready_process[c]] = "PROCESS_READY"
<1>0. PICK p : p = ready_process[c]
  OBVIOUS
<1>1. cpu[c] = "select" /\ cpu'[c] = "switch" /\ Holds(c) = p /\ p \in Pointer
  BY <1>0, CpuTyped DEF Select, CpuAt, Goto, Holds
<1>2. UNCHANGED <<pc, io_queue, created, sup, woken, ready_queue>>
  BY CpuThreadLeaves DEF Select, student
<1>3. \A d \in Cpu : Holds(d)' = Holds(d)
  <2>1. ~Pop(c) /\ ~Requeue(c)
    BY <1>1 DEF Pop, Requeue, CpuAt
  <2> QED BY <2>1, CpuThreadHolds DEF CpuOnes
<1>4. \A d \in Cpu : d # c => HeldState(d)' = HeldState(d)
  BY OtherCpus DEF HeldState
<1>5. /\ IoOnes' = IoOnes /\ WokenOnes' = WokenOnes /\ ReadyOnes' = ReadyOnes
      /\ \A q \in Proc : /\ Known(q)' <=> Known(q)
                         /\ Over(q)' <=> Over(q)
                         /\ Left(q)' <=> Left(q)
  BY <1>2, NoMark DEF IoOnes, WokenOnes, ReadyOnes, Known, Over, Op
<1>6. p = NULL => UNCHANGED pstate
  BY <1>0 DEF Select, Marked
<1>7. p # NULL => /\ p \in Proc /\ pstate'[p] = "PROCESS_RUNNING"
                  /\ \A q \in Proc : q # p => pstate'[q] = pstate[q]
  BY <1>0, <1>1 DEF Select, Marked, Pointer, TypeInv, TypeOK, PcbsOK
<1>8. p # NULL => pstate[p] = "PROCESS_READY"
  BY <1>1, <1>7 DEF StateInv, StateSays, HeldState
<1>9. ASSUME NEW q \in Proc PROVE StateSays(q)'
  <2>1. StateSays(q)
    BY DEF StateInv
  <2>2. CASE q # p
    <3>1. pstate'[q] = pstate[q] /\ \A d \in Cpu : Holds(d) = q => HeldState(d)' = HeldState(d)
      BY <1>1, <1>4, <1>6, <1>7, <2>2
    <3> QED BY <1>2, <1>3, <1>5, <2>1, <3>1 DEF StateSays
  <2>3. CASE q = p
    <3>1. pstate'[q] = "PROCESS_RUNNING" /\ HeldState(c)' = "PROCESS_RUNNING"
      BY <1>1, <1>7, <2>3, OsAssumption DEF HeldState
    <3>2. q \notin ReadyOnes /\ q \notin IoOnes /\ q \notin WokenOnes /\ Known(q) /\ ~Over(q)
          /\ \A d \in Cpu : Holds(d) = q => d = c
      BY <1>1, <2>3, OnlyPlace
    <3> QED BY <1>3, <1>5, <3>1, <3>2 DEF StateSays
  <2> QED BY <2>2, <2>3
<1> QED
  BY <1>0, <1>5, <1>8, <1>9, NoMark DEF StateInv

LEMMA CpuThreadSays ==
    ASSUME TypeInv, LockStepInv, DivideInv, StateInv, NEW c \in Cpu, CpuThread(c)
    PROVE  StateInv'
<1>1. CASE Mark(c)
  BY <1>1, MarkSays
<1>2. CASE Requeue(c)
  BY <1>2, RequeueSays
<1>3. CASE Pop(c)
  BY <1>3, PopSays
<1>4. CASE Select(c)
  BY <1>4, SelectSays
<1>5. CASE ~Mark(c) /\ ~Requeue(c) /\ ~Pop(c) /\ ~Select(c)
  BY <1>5, CpuThreadQuiet
<1> QED
  BY <1>1, <1>2, <1>3, <1>4, <1>5

-----------------------------------------------------------------------------
(* The order of the ready queue. *)

\* student.c, queue_ordered_push: nobody before the new process has less time, and
\* nobody behind it more.
LEMMA PlaceKeepsOrder ==
    ASSUME NEW list \in Seq(Proc), NEW time \in [Proc -> Nat], NEW p \in Proc, Sorted(list, time),
           NEW new \in Seq(Proc), Inserts(list, new, PlaceInOrder(list, p, time), p)
    PROVE  Sorted(new, time)
<1> DEFINE place == PlaceInOrder(list, p, time)
<1>1. /\ Len(list) \in Nat /\ DOMAIN list = 1 .. Len(list)
      /\ \A k \in 1 .. Len(list) : list[k] \in Proc /\ time[list[k]] \in Nat
      /\ time[p] \in Nat /\ (list # <<>> => Head(list) = list[1] /\ 1 \in 1 .. Len(list))
  OBVIOUS
<1>2. \A j, k \in 1 .. Len(list) : j < k => time[list[j]] >= time[list[k]]
  BY <1>1 DEF Sorted
<1>3. \/ (list = <<>> \/ time[Head(list)] < time[p]) /\ place = 1
      \/ /\ list # <<>> /\ ~(time[Head(list)] < time[p]) /\ place \in 2 .. Len(list) + 1
         /\ place = Len(list) + 1 \/ time[list[place]] <= time[p]
         /\ \A j \in 2 .. place - 1 : ~(time[list[j]] <= time[p])
  <2>1. LET later(k) == k = Len(list) + 1 \/ time[list[k]] <= time[p]
        IN  \/ (list = <<>> \/ time[Head(list)] < time[p]) /\ place = 1
            \/ /\ ~(list = <<>> \/ time[Head(list)] < time[p]) /\ place \in 2 .. Len(list) + 1
               /\ later(place) /\ \A j \in 2 .. place - 1 : ~later(j)
    BY WalkEnds
  <2> HIDE DEF place
  <2> QED BY <2>1
<1>4. /\ place \in 1 .. Len(list) + 1 /\ Len(new) = Len(list) + 1
      /\ \A i \in 1 .. Len(list) + 1 :
            new[i] = IF i < place THEN list[i] ELSE IF i = place THEN p ELSE list[i - 1]
  BY DEF Inserts
<1> HIDE DEF place
<1>5. \A j \in 1 .. Len(list) : j < place => time[list[j]] >= time[p]
  <2> SUFFICES ASSUME NEW j \in 1 .. Len(list), j < place PROVE time[list[j]] >= time[p]
    OBVIOUS
  <2>1. CASE j = 1
    <3>1. list # <<>> /\ ~(time[Head(list)] < time[p])
      BY <1>1, <1>3, <2>1
    <3> QED BY <1>1, <2>1, <3>1
  <2>2. CASE j # 1
    <3>1. j \in 2 .. place - 1 /\ place # 1
      BY <1>1, <1>4, <2>2
    <3>2. ~(time[list[j]] <= time[p])
      BY <1>3, <3>1
    <3> QED BY <1>1, <3>2
  <2> QED BY <2>1, <2>2
<1>6. \A j \in 1 .. Len(list) : j >= place => time[list[j]] <= time[p]
  <2> SUFFICES ASSUME NEW j \in 1 .. Len(list), j >= place PROVE time[list[j]] <= time[p]
    OBVIOUS
  <2>1. CASE place = 1 /\ (list = <<>> \/ time[Head(list)] < time[p])
    <3>1. list # <<>> /\ time[list[1]] < time[p] /\ 1 \in 1 .. Len(list)
      BY <1>1, <2>1
    <3>2. time[list[1]] >= time[list[j]]
      BY <1>1, <1>2, <3>1
    <3> QED BY <1>1, <3>1, <3>2
  <2>2. CASE place \in 2 .. Len(list) + 1 /\ (place = Len(list) + 1 \/ time[list[place]] <= time[p])
    <3>1. place \in 1 .. Len(list) /\ time[list[place]] <= time[p]
      BY <1>1, <2>2
    <3>2. time[list[place]] >= time[list[j]]
      BY <1>1, <1>2, <3>1
    <3> QED BY <1>1, <3>1, <3>2
  <2> QED BY <1>3, <2>1, <2>2
<1>7. ASSUME NEW i \in 1 .. Len(list) + 1, NEW j \in 1 .. Len(list) + 1, i < j
      PROVE  time[new[i]] >= time[new[j]]
  <2>1. /\ i < place => i \in 1 .. Len(list) /\ new[i] = list[i]
        /\ i = place => new[i] = p
        /\ i > place => i - 1 \in 1 .. Len(list) /\ new[i] = list[i - 1]
    BY <1>1, <1>4
  <2>2. /\ j < place => j \in 1 .. Len(list) /\ new[j] = list[j]
        /\ j = place => new[j] = p
        /\ j > place => j - 1 \in 1 .. Len(list) /\ new[j] = list[j - 1] /\ j - 1 >= place
    BY <1>1, <1>4
  <2>3. CASE j < place
    <3>1. i < place /\ i \in 1 .. Len(list) /\ j \in 1 .. Len(list)
      BY <1>1, <1>4, <1>7, <2>1, <2>2, <2>3
    <3> QED BY <1>2, <1>7, <2>1, <2>2, <2>3, <3>1
  <2>4. CASE j = place
    BY <1>5, <1>7, <2>1, <2>2, <2>4
  <2>5. CASE j > place /\ i > place
    <3>1. i - 1 < j - 1
      BY <1>7
    <3> QED BY <1>2, <2>1, <2>2, <2>5, <3>1
  <2>6. CASE j > place /\ i = place
    BY <1>6, <2>1, <2>2, <2>6
  <2>7. CASE j > place /\ i < place
    <3>1. time[list[i]] >= time[p] /\ time[p] >= time[list[j - 1]]
      BY <1>1, <1>5, <1>6, <2>1, <2>2, <2>7
    <3> QED BY <1>1, <2>1, <2>2, <2>7, <3>1
  <2> QED BY <1>4, <2>3, <2>4, <2>5, <2>6, <2>7
<1>8. DOMAIN new = 1 .. Len(list) + 1
  BY <1>4
<1> QED
  BY <1>7, <1>8 DEF Sorted

\* os-sim.c: time_remaining changes for a process on a CPU or at the head of the I/O
\* queue, and not for one that waits in the ready queue.
LEMMA TimesStay ==
    ASSUME TypeInv, LockStepInv, DivideInv, Supervisor
    PROVE  \A p \in ReadyOnes : time_remaining'[p] = time_remaining[p]
<1>1. CASE RunBurst \/ EndBurst
  <2> DEFINE p == cpu_current[n]
  <2>1. p # NULL /\ sup = "cpus" /\ p \in Proc /\ n \in Cpu
    BY <1>1, CpuTyped DEF RunBurst, EndBurst, SupervisorAt, Pointer
  <2>2. p \notin ReadyOnes
    BY <2>1, BurstHolder, OnlyPlace
  <2>3. \E t : time_remaining' = [time_remaining EXCEPT ![p] = t]
    BY <1>1 DEF RunBurst, EndBurst, Advance
  <2> QED BY <2>2, <2>3 DEF TypeInv, TypeOK, PcbsOK, DivideInv, Divide
<1>2. CASE SimulateIo
  <2>1. CASE io_queue # <<>> /\ Head(io_queue).execution_time = 0
    <3> DEFINE p == Head(io_queue).pcb
    <3>1. p \in IoOnes
      BY <2>1, HeadRequest DEF IoOnes
    <3>2. p \notin ReadyOnes
      BY <2>1, <3>1, HeadRequest, OnlyPlace
    <3>3. Advance(p)
      BY <1>2, <2>1 DEF SimulateIo
    <3>4. \E t : time_remaining' = [time_remaining EXCEPT ![p] = t]
      BY <3>3 DEF Advance
    <3> QED BY <3>2, <3>4 DEF TypeInv, TypeOK, PcbsOK, DivideInv, Divide
  <2>2. CASE ~(io_queue # <<>> /\ Head(io_queue).execution_time = 0)
    BY <1>2, <2>2 DEF SimulateIo
  <2> QED BY <2>1, <2>2
<1>3. CASE ~RunBurst /\ ~EndBurst /\ ~SimulateIo
  BY <1>3 DEF Supervisor, Tick, WakeUp, Lock, PrintGanttLine, NothingToRun, SchedulerHasRun,
     SimulateCreat, WakeUpReturned, WakeUpMark, WakeUpPush, WakeUpScan, ForcePreempt, Preempted,
     WakeUpSignal, pcbs
<1> QED
  BY <1>1, <1>2, <1>3

LEMMA SortedStep ==
    ASSUME TypeInv, LockStepInv, DivideInv, SortedInv, Supervisor \/ \E c \in Cpu : CpuThread(c)
    PROVE  SortedInv'
<1>1. UNCHANGED mode
  BY DEF Supervisor, CpuThread
<1>2. SUFFICES ASSUME mode = "l" PROVE Sorted(ready_queue.list, time_remaining)'
  BY <1>1 DEF SortedInv
<1>3. Sorted(ready_queue.list, time_remaining)
  BY <1>2 DEF SortedInv
<1>4. time_remaining \in [Proc -> Nat] /\ ready_queue.list \in Seq(Proc)
  BY QueueTyped DEF TypeInv, TypeOK, PcbsOK
<1>5. CASE WakeUpPush
  <2>1. woken \in Proc /\ UNCHANGED time_remaining
    BY <1>5, WokenQueued DEF WakeUpPush, pcbs
  <2>2. ready_queue' = queue_ordered_push(ready_queue, woken, time_remaining)
    BY <1>2, <1>5 DEF WakeUpPush
  <2>3. Sorted(ready_queue'.list, time_remaining)
    BY <1>3, <1>4, <2>1, <2>2, QueueTyped, OrderedPushInserts, PlaceKeepsOrder
  <2> QED BY <2>1, <2>3 DEF Sorted
<1>6. ASSUME NEW c \in Cpu, Requeue(c) PROVE Sorted(ready_queue.list, time_remaining)'
  <2>1. current[c] \in Proc /\ UNCHANGED time_remaining
    BY <1>6, CurrentQueued DEF Requeue, pcbs
  <2>2. ready_queue' = queue_ordered_push(ready_queue, current[c], time_remaining)
    BY <1>6 DEF Requeue, Requeued
  <2>3. Sorted(ready_queue'.list, time_remaining)
    BY <1>3, <1>4, <2>1, <2>2, QueueTyped, OrderedPushInserts, PlaceKeepsOrder
  <2> QED BY <2>1, <2>3 DEF Sorted
<1>7. ASSUME NEW c \in Cpu, Pop(c) PROVE Sorted(ready_queue.list, time_remaining)'
  <2>1. UNCHANGED time_remaining /\ ready_queue' = queue_pop(ready_queue)
    BY <1>7 DEF Pop, pcbs
  <2>2. CASE ready_queue.list = <<>>
    BY <1>3, <2>1, <2>2 DEF queue_pop, Sorted
  <2>3. CASE ready_queue.list # <<>>
    <3>1. \A k \in DOMAIN ready_queue'.list :
             k + 1 \in DOMAIN ready_queue.list /\ ready_queue'.list[k] = ready_queue.list[k + 1]
      BY <2>1, <2>3, QueueTyped, PopRemoves
    <3>2. \A j, k \in DOMAIN ready_queue'.list : j < k => j + 1 < k + 1
      <4>1. ready_queue'.list \in Seq(Proc)
        BY <2>1, <2>3, QueueTyped, PopRemoves
      <4> QED BY <4>1
    <3> QED BY <1>3, <2>1, <3>1, <3>2 DEF Sorted
  <2> QED BY <2>2, <2>3
<1>8. CASE Supervisor /\ ~WakeUpPush
  <2>1. UNCHANGED ready_queue
    BY <1>8, SupervisorLeavesQueue
  <2>2. \A k \in DOMAIN ready_queue.list :
           time_remaining'[ready_queue.list[k]] = time_remaining[ready_queue.list[k]]
    BY <1>8, TimesStay DEF ReadyOnes, Holding
  <2> QED BY <1>3, <2>1, <2>2 DEF Sorted
<1>9. ASSUME NEW c \in Cpu, CpuThread(c), ~Requeue(c), ~Pop(c)
      PROVE  Sorted(ready_queue.list, time_remaining)'
  BY <1>3, <1>9, CpuThreadLeavesQueue, CpuThreadLeaves DEF Sorted
<1> QED
  BY <1>5, <1>6, <1>7, <1>8, <1>9

-----------------------------------------------------------------------------
(* The theorems. *)

LEMMA UndisturbedInit == Init => UndisturbedInv
<1> SUFFICES ASSUME Init PROVE UndisturbedInv
  OBVIOUS
<1> USE DEF Init
<1>1. LockStepInv
  BY DEF LockStepInv, Busy
<1>2. ASSUME NEW p \in Proc PROVE ~Known(p) /\ Op(p) = "OP_CPU" /\ p # NULL
  <2>1. WellFormed(Program[p])
    BY OsAssumption
  <2> QED BY <2>1, OsAssumption, CountProcesses DEF Known, Op, WellFormed
<1>3. \A c \in Cpu : Holds(c) = NULL
  BY DEF Holds
<1>4. ReadyOnes = {} /\ IoOnes = {} /\ WokenOnes = {} /\ LiveOnes = {}
  BY <1>2 DEF ReadyOnes, IoOnes, WokenOnes, LiveOnes, Holding, EmptyQueue
<1>5. DivideInv
  <2>1. Distinct(ready_queue.list)
    BY DEF Distinct, EmptyQueue
  <2>2. Divide({}, {}, {}, CpuOnes, {})
    BY <1>2, <1>3 DEF Divide, CpuOnes, Pointer
  <2> QED BY <1>2, <1>4, <2>1, <2>2 DEF DivideInv, WokenKnown
<1>6. StateInv
  <2>1. ASSUME NEW p \in Proc PROVE StateSays(p)
    BY <1>2, <1>3, <1>4 DEF StateSays, Over
  <2> QED BY <2>1 DEF StateInv, Yields, Ends
<1>7. SortedInv
  BY DEF SortedInv, Sorted, EmptyQueue
<1> QED
  BY <1>1, <1>5, <1>6, <1>7 DEF UndisturbedInv

LEMMA UndisturbedStep ==
    ASSUME TypeInv, UndisturbedInv, [Next]_vars
    PROVE  UndisturbedInv'
<1>1. CASE Step
  <2> SUFFICES ASSUME Undisturbed'
               PROVE  LockStepInv' /\ DivideInv' /\ StateInv' /\ SortedInv'
    BY DEF UndisturbedInv
  <2>1. /\ Undisturbed
        /\ Supervisor \/ \E c \in Cpu : CpuThread(c)
        /\ Supervisor /\ pending'[n] # pending[n] => cpu[n] = "running"
    BY <1>1, DisturbedStays
  <2>2. LockStepInv /\ DivideInv /\ StateInv /\ SortedInv
    BY <2>1 DEF UndisturbedInv
  <2>3. pending[n] => cpu[n] = "running"
    BY <2>1, CpuTyped DEF Undisturbed, EventLost
  <2>4. CASE Supervisor
    <3>1. EndBurst => cpu[n] = "running"
      <4>1. EndBurst => pending'[n] = TRUE
        BY CpuTyped DEF EndBurst, Raise
      <4>2. pending[n] \in BOOLEAN
        BY CpuTyped
      <4> QED BY <2>1, <2>3, <2>4, <4>1, <4>2
    <3> QED BY <2>1, <2>2, <2>3, <2>4, <3>1, SupervisorInStep, SupervisorDivides, EndBurstSays,
      SupervisorSays, SortedStep
  <2>5. ASSUME NEW c \in Cpu, CpuThread(c)
        PROVE  LockStepInv' /\ DivideInv' /\ StateInv' /\ SortedInv'
    BY <2>2, <2>5, CpuThreadInStep, CpuThreadDivides, CpuThreadSays, SortedStep
  <2> QED BY <2>1, <2>4, <2>5
<1>2. CASE UNCHANGED vars
  <2> USE <1>2 DEF vars, pcbs, student, cpus, library, locks, threads, history
  <2>1. Undisturbed' => Undisturbed
    BY DEF Undisturbed, EventLost
  <2>2. LockStepInv => LockStepInv'
    BY DEF LockStepInv, Busy
  <2>3. /\ ReadyOnes' = ReadyOnes /\ IoOnes' = IoOnes /\ WokenOnes' = WokenOnes
        /\ CpuOnes' = CpuOnes /\ LiveOnes' = LiveOnes
    BY DEF ReadyOnes, IoOnes, WokenOnes, CpuOnes, LiveOnes, Holding, Holds, Known, Over, Op
  <2>4. DivideInv => DivideInv'
    BY <2>3 DEF DivideInv, WokenKnown, Known, Op, Distinct
  <2>5. StateInv => StateInv'
    <3>1. \A c \in Cpu : Holds(c)' = Holds(c) /\ HeldState(c)' = HeldState(c)
      BY DEF Holds, HeldState
    <3>2. \A c \in Cpu, p \in Proc : (Yields(c, p)' <=> Yields(c, p)) /\ (Ends(c, p)' <=> Ends(c, p))
      BY DEF Yields, Ends
    <3>3. \A p \in Proc : /\ Left(p)' <=> Left(p)
                          /\ Known(p)' <=> Known(p)
                          /\ Over(p)' <=> Over(p)
      BY <3>2 DEF Left, Known, Over, Op
    <3>4. \A p \in Proc : StateSays(p) => StateSays(p)'
      BY <2>3, <3>1, <3>3 DEF StateSays
    <3> QED BY <2>3, <3>2, <3>3, <3>4 DEF StateInv
  <2>6. SortedInv => SortedInv'
    BY DEF SortedInv, Sorted
  <2> QED BY <2>1, <2>2, <2>4, <2>5, <2>6 DEF UndisturbedInv
<1> QED
  BY <1>1, <1>2 DEF Next, Terminated, Step

LEMMA UndisturbedInvariant == Spec => []UndisturbedInv
<1>1. TypeInv /\ UndisturbedInv /\ [Next]_vars => UndisturbedInv'
  BY UndisturbedStep
<1> QED
  BY <1>1, UndisturbedInit, TypeInvariant, PTL DEF Spec

LEMMA AtMostOne ==
    ASSUME NEW S, \A x, y \in S : x = y
    PROVE  Cardinality(S) = IF S = {} THEN 0 ELSE 1
<1>1. CASE S = {}
  BY <1>1, FS_EmptySet
<1>2. CASE S # {}
  <2>1. PICK x : S = {x}
    BY <1>2
  <2> QED BY <1>2, <2>1, FS_Singleton
<1> QED
  BY <1>1, <1>2

\* Each place is counted at most once, and no process is in two of them.
LEMMA OneOrNone ==
    ASSUME TypeInv, DivideInv, NEW p \in Proc
    PROVE  Places(p) = IF Known(p) /\ ~Over(p) THEN 1 ELSE 0
<1>1. /\ Queued(p) # {} <=> p \in ReadyOnes
      /\ Blocked(p) # {} <=> p \in IoOnes
      /\ OnCpus(p) # {} <=> \E c \in Cpu : Holds(c) = p
      /\ BeingWoken(p) # {} <=> p \in WokenOnes
  BY DEF Queued, Blocked, OnCpus, BeingWoken, ReadyOnes, Holding, IoOnes, WokenOnes
<1>2. \A j, k \in Queued(p) : j = k
  BY DEF Queued, DivideInv, Distinct
<1>3. \A j, k \in Blocked(p) : j = k
  BY DEF Blocked, TypeInv, IoInv
<1>4. \A c, d \in OnCpus(p) : c = d
  BY OnlyPlace DEF OnCpus
<1>5. \A s, t \in BeingWoken(p) : s = t
  BY DEF BeingWoken
<1>6. /\ Cardinality(Queued(p)) = IF p \in ReadyOnes THEN 1 ELSE 0
      /\ Cardinality(Blocked(p)) = IF p \in IoOnes THEN 1 ELSE 0
      /\ Cardinality(OnCpus(p)) = IF \E c \in Cpu : Holds(c) = p THEN 1 ELSE 0
      /\ Cardinality(BeingWoken(p)) = IF p \in WokenOnes THEN 1 ELSE 0
  BY <1>1, <1>2, <1>3, <1>4, <1>5, AtMostOne
<1> QED
  BY <1>6, OnlyPlace DEF Places

\* os-sim.c, student.c: as long as no event is lost, a process that has been created
\* and has not come to its end is in the ready queue, in the I/O queue, on one CPU
\* or in the hands of wake_up, in one of them and once, and any other is in none.
THEOREM ExactlyOnePlaceTheorem == Spec => []ExactlyOnePlace
<1>1. TypeInv /\ UndisturbedInv => ExactlyOnePlace
  BY OneOrNone DEF UndisturbedInv, ExactlyOnePlace
<1> QED
  BY <1>1, TypeInvariant, UndisturbedInvariant, PTL

\* student.c, queue_ordered_push: the ready queue of the longest-time-first scheduler
\* stays sorted, because the times of those that wait in it stay as they are.
THEOREM LongestFirstTheorem == Spec => []LongestFirst
<1>1. UndisturbedInv => LongestFirst
  BY DEF UndisturbedInv, LongestFirst, SortedInv, Sorted
<1> QED
  BY <1>1, UndisturbedInvariant, PTL

\* os-sim.c, print_gantt_line: the states that it counts say where the processes are.
THEOREM GanttTheorem == Spec => []GanttIsTrue
<1>1. ASSUME TypeInv, UndisturbedInv, sup = "gantt", Undisturbed, NEW p \in Proc
      PROVE  CASE pstate[p] = "PROCESS_NEW"        -> ~Known(p)
               [] pstate[p] = "PROCESS_READY"      -> \/ Queued(p) # {}
                                                      \/ \E c \in OnCpus(p) : cpu[c] = "select"
               [] pstate[p] = "PROCESS_WAITING"    -> Blocked(p) # {}
               [] pstate[p] = "PROCESS_RUNNING"    -> OnCpus(p) # {}
               [] pstate[p] = "PROCESS_TERMINATED" -> Over(p)
  <2>1. LockStepInv /\ DivideInv /\ StateSays(p)
    BY <1>1 DEF UndisturbedInv, StateInv
  <2>2. ~Left(p) /\ WokenOnes = {} /\ \A c \in Cpu : ~Busy(c)
    BY <1>1, <2>1, NoneLeft DEF Left, WokenOnes, LockStepInv
  <2>3. \A c \in Cpu : cpu[c] # "push"
    BY <2>2 DEF Busy
  <2>4. CASE ~Known(p)
    <3>1. pstate[p] = "PROCESS_NEW"
      BY <2>1, <2>4 DEF StateSays
    <3> QED BY <2>4, <3>1
  <2>5. CASE Over(p)
    <3>1. pstate[p] = "PROCESS_TERMINATED"
      BY <2>1, <2>2, <2>5 DEF StateSays
    <3> QED BY <2>5, <3>1
  <2>6. CASE p \in ReadyOnes
    <3>1. pstate[p] = "PROCESS_READY" /\ Queued(p) # {}
      BY <2>1, <2>6 DEF StateSays, ReadyOnes, Holding, Queued
    <3> QED BY <3>1
  <2>7. CASE p \in IoOnes
    <3>1. pstate[p] = "PROCESS_WAITING" /\ Blocked(p) # {}
      BY <2>1, <2>2, <2>7 DEF StateSays, IoOnes, Blocked
    <3> QED BY <3>1
  <2>8. ASSUME NEW c \in Cpu, Holds(c) = p
        PROVE  \/ pstate[p] = "PROCESS_READY" /\ \E d \in OnCpus(p) : cpu[d] = "select"
               \/ pstate[p] = "PROCESS_RUNNING" /\ OnCpus(p) # {}
    BY <2>1, <2>3, <2>8 DEF StateSays, HeldState, OnCpus
  <2>9. CASE \E c \in Cpu : Holds(c) = p
    <3>1. \/ pstate[p] = "PROCESS_READY" /\ \E d \in OnCpus(p) : cpu[d] = "select"
          \/ pstate[p] = "PROCESS_RUNNING" /\ OnCpus(p) # {}
      BY <2>8, <2>9
    <3> QED BY <3>1
  <2> QED
    BY <2>1, <2>2, <2>4, <2>5, <2>6, <2>7, <2>9, OnlyPlace
<1>2. TypeInv /\ UndisturbedInv => GanttIsTrue
  BY <1>1 DEF GanttIsTrue
<1> QED
  BY <1>2, TypeInvariant, UndisturbedInvariant, PTL

LifeCycleSteps == {<<"PROCESS_NEW", "PROCESS_READY">>, <<"PROCESS_READY", "PROCESS_RUNNING">>,
                   <<"PROCESS_RUNNING", "PROCESS_READY">>, <<"PROCESS_RUNNING", "PROCESS_WAITING">>,
                   <<"PROCESS_RUNNING", "PROCESS_TERMINATED">>, <<"PROCESS_WAITING", "PROCESS_READY">>}

\* student.c: wake_up, preempt, yield, terminate and schedule take a process through
\* the states in the order of its life cycle, as long as no event is lost.
THEOREM LifeCycleTheorem == Spec => LifeCycle
<1>1. ASSUME TypeInv, UndisturbedInv, [Next]_vars, NEW p \in Proc, Undisturbed, pstate'[p] # pstate[p]
      PROVE  <<pstate[p], pstate'[p]>> \in LifeCycleSteps
  <2>1. LockStepInv /\ DivideInv /\ StateInv /\ StateSays(p) /\ pstate \in [Proc -> States]
    BY <1>1 DEF UndisturbedInv, StateInv, TypeInv, TypeOK, PcbsOK
  <2>2. CASE WakeUpMark
    <3>1. pstate' = [pstate EXCEPT ![woken] = "PROCESS_READY"] /\ sup = "wake"
      BY <2>2 DEF WakeUpMark, SupervisorAt
    <3>2. p = woken /\ pstate'[p] = "PROCESS_READY"
      BY <1>1, <2>1, <3>1
    <3>3. pstate[p] \in {"PROCESS_NEW", "PROCESS_WAITING"}
      BY <2>1, <3>1, <3>2 DEF StateSays, WokenOnes
    <3> QED BY <3>2, <3>3 DEF LifeCycleSteps
  <2>3. ASSUME NEW c \in Cpu, CpuThread(c), Mark(c) PROVE <<pstate[p], pstate'[p]>> \in LifeCycleSteps
    <3>1. pstate' = [pstate EXCEPT ![current[c]] = NewState(event[c])]
      BY <2>3 DEF Mark
    <3>2. p = current[c] /\ pstate'[p] = NewState(event[c])
      BY <1>1, <2>1, <3>1
    <3>3. pstate[p] = "PROCESS_RUNNING"
      BY <1>1, <2>1, <2>3, <3>2, MarkSays
    <3> QED BY <3>2, <3>3 DEF NewState, LifeCycleSteps
  <2>4. ASSUME NEW c \in Cpu, CpuThread(c), Select(c) PROVE <<pstate[p], pstate'[p]>> \in LifeCycleSteps
    <3>1. ready_process[c] # NULL /\ pstate' = [pstate EXCEPT ![ready_process[c]] = "PROCESS_RUNNING"]
      BY <1>1, <2>4 DEF Select, Marked
    <3>2. p = ready_process[c] /\ pstate'[p] = "PROCESS_RUNNING"
      BY <1>1, <2>1, <3>1
    <3>3. pstate[p] = "PROCESS_READY"
      BY <1>1, <2>1, <2>4, <3>1, <3>2, SelectSays
    <3> QED BY <3>2, <3>3 DEF LifeCycleSteps
  <2>5. CASE Supervisor \/ SpuriousWakeUp
    <3>1. WakeUpMark
      BY <1>1, <2>5 DEF Supervisor, Tick, WakeUp, SpuriousWakeUp, Lock, PrintGanttLine, RunBurst,
         EndBurst, NothingToRun, SchedulerHasRun, SimulateIo, SimulateCreat, WakeUpReturned,
         WakeUpPush, WakeUpScan, ForcePreempt, Preempted, WakeUpSignal, pcbs
    <3> QED BY <2>2, <3>1
  <2>6. ASSUME NEW c \in Cpu, CpuThread(c) PROVE <<pstate[p], pstate'[p]>> \in LifeCycleSteps
    <3>1. Mark(c) \/ Select(c)
      BY <1>1, <2>6 DEF CpuThread, Top, Dispatch, CountTerminated, Requeue, Idle, Pop, Switch,
         Relock, Store, pcbs
    <3> QED BY <2>3, <2>4, <2>6, <3>1
  <2>7. ~UNCHANGED vars
    BY <1>1 DEF vars, pcbs
  <2> QED BY <1>1, <2>5, <2>6, <2>7 DEF Next, Terminated
<1>2. TypeInv /\ UndisturbedInv /\ [Next]_vars
        => [\A p \in Proc : Undisturbed /\ pstate'[p] # pstate[p]
                               => <<pstate[p], pstate'[p]>> \in LifeCycleSteps]_vars
  BY <1>1
<1> QED
  BY <1>2, TypeInvariant, UndisturbedInvariant, PTL DEF Spec, LifeCycle, LifeCycleSteps
=============================================================================
