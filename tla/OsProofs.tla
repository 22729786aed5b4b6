------------------------------- MODULE OsProofs ------------------------------
(***************************************************************************)
(* Proofs about OsSim, for every number of CPUs, every set of processes    *)
(* and every program, garbage and spurious wake-ups included: the handlers *)
(* act on the process the simulator was running, queue_push finds the end  *)
(* of the list, and no CPU sleeps through the signal that is meant for it; *)
(* the types of the variables, among them that no process runs off the end *)
(* of its program; that the simulation ends only when every process has;   *)
(* and that no process is forgotten.                                       *)
(***************************************************************************)
EXTENDS OsSim, FiniteSetTheorems, SequenceTheorems, WellFoundedInduction, TLAPS

USE DEF chosen, SupervisorWakesUp, IdleWakesUp

\* current[], cpu_current[] and the like have an entry for each CPU, and no other.
OverCpus(f) == f = [c \in Cpu |-> f[c]]

\* What schedule stores last agrees with what it has told the simulator.
KnowInv ==
    /\ OverCpus(cpu) /\ OverCpus(ready_process) /\ OverCpus(current) /\ OverCpus(cpu_current)
    /\ \A c \in Cpu : cpu[c] \in {"relock", "store"} => cpu_current[c] = ready_process[c]
    /\ \A c \in Cpu : cpu[c] = "top" => cpu_current[c] = NULL \/ current[c] = cpu_current[c]
    /\ HandlersKnowTheProcess

IsQueue(q) == \E S : q \in [list : Seq(S), tail : Nat]

\* ready_queue is a list of something, with a tail that points to its last node.
QueueInv ==
    IsQueue(ready_queue) /\ TailPointsToTheLast

-----------------------------------------------------------------------------
(* The CPUs' records. *)

\* os-sim.c, student.c: the steps of a CPU thread keep the two records in step.
LEMMA CpuThreadKnows ==
    ASSUME KnowInv, NEW c \in Cpu, CpuThread(c)
    PROVE  KnowInv'
<1> USE DEF OverCpus, KnowInv, HandlersKnowTheProcess, CpuAt, Goto, student, cpus
<1>1. CASE Top(c)
  BY <1>1 DEF Top
<1>2. CASE Dispatch(c)
  BY <1>2 DEF Dispatch
<1>3. CASE CountTerminated(c)
  BY <1>3 DEF CountTerminated
<1>4. CASE Mark(c)
  BY <1>4 DEF Mark
<1>5. CASE Requeue(c)
  BY <1>5 DEF Requeue
<1>6. CASE Idle(c)
  BY <1>6 DEF Idle
<1>7. CASE Pop(c)
  BY <1>7 DEF Pop
<1>8. CASE Select(c)
  BY <1>8 DEF Select
<1>9. CASE Switch(c)
  BY <1>9 DEF Switch
<1>10. CASE Relock(c)
  BY <1>10 DEF Relock
<1>11. CASE Store(c)
  BY <1>11 DEF Store, Recorded
<1> QED
  BY <1>1, <1>2, <1>3, <1>4, <1>5, <1>6, <1>7, <1>8, <1>9, <1>10, <1>11 DEF CpuThread

\* os-sim.c: the supervisor touches none of these records.
LEMMA SupervisorLeavesRecords ==
    ASSUME Supervisor \/ SpuriousWakeUp
    PROVE  UNCHANGED <<cpu, ready_process, current, cpu_current>>
BY DEF Supervisor, Tick, WakeUp, SpuriousWakeUp, Lock, PrintGanttLine, RunBurst, EndBurst,
       NothingToRun, SchedulerHasRun, SimulateIo, SimulateCreat, WakeUpReturned, WakeUpMark,
       WakeUpPush, WakeUpScan, ForcePreempt, Preempted, WakeUpSignal, student, cpus, threads

LEMMA KnowStep ==
    ASSUME KnowInv, [Next]_vars
    PROVE  KnowInv'
<1>1. ASSUME UNCHANGED <<cpu, ready_process, current, cpu_current>> PROVE KnowInv'
  BY <1>1 DEF KnowInv, HandlersKnowTheProcess, OverCpus
<1>2. CASE Supervisor \/ SpuriousWakeUp
  BY <1>1, <1>2, SupervisorLeavesRecords
<1>3. CASE \E c \in Cpu : CpuThread(c)
  BY <1>3, CpuThreadKnows
<1>4. CASE UNCHANGED vars
  BY <1>1, <1>4 DEF vars, student, cpus, threads
<1> QED
  BY <1>2, <1>3, <1>4 DEF Next, Terminated

\* student.c, preempt, yield and terminate: the process of which the scheduler
\* keeps the state is the one in whose name the simulator has raised the event,
\* whatever malloc left in current[].
THEOREM HandlersTheorem == Spec => []HandlersKnowTheProcess
<1>1. Init => KnowInv
  BY DEF Init, KnowInv, OverCpus, HandlersKnowTheProcess
<1>2. KnowInv /\ [Next]_vars => KnowInv'
  BY KnowStep
<1>3. KnowInv => HandlersKnowTheProcess
  BY DEF KnowInv
<1> QED
  BY <1>1, <1>2, <1>3, PTL DEF Spec

-----------------------------------------------------------------------------
(* The ready queue. *)

\* student.c, queue_ordered_push: the walk along the list ends at the first process
\* behind the head that has no more time than the new one.
LEMMA WalkEnds ==
    ASSUME NEW S, NEW list \in Seq(S), NEW p, NEW time
    PROVE  LET later(k) == k = Len(list) + 1 \/ time[list[k]] <= time[p]
               place    == PlaceInOrder(list, p, time)
           IN  \/ (list = <<>> \/ time[Head(list)] < time[p]) /\ place = 1
               \/ /\ ~(list = <<>> \/ time[Head(list)] < time[p]) /\ place \in 2 .. Len(list) + 1
                  /\ later(place) /\ \A j \in 2 .. place - 1 : ~later(j)
<1> DEFINE later(k) == k = Len(list) + 1 \/ time[list[k]] <= time[p]
           below == {ss \in Nat \X Nat : ss[1] < ss[2]}
           T == {k \in 2 .. Len(list) + 1 : later(k)}
<1>1. CASE list = <<>> \/ time[Head(list)] < time[p]
  BY <1>1 DEF PlaceInOrder
<1>2. CASE ~(list = <<>> \/ time[Head(list)] < time[p])
  <2>1. Len(list) \in Nat \ {0}
    BY <1>2
  <2>2. Len(list) + 1 \in T
    BY <2>1
  <2>3. PICK k \in T : \A j \in T : <<j, k>> \notin below
    <3>1. IsWellFoundedOn(below, Nat)
      BY NatLessThanWellFounded, Zenon DEF OpToRel
    <3>2. T \subseteq Nat /\ T # {}
      BY <2>1, <2>2
    <3> HIDE DEF T, below
    <3> QED BY <3>1, <3>2, WFMin
  <2>4. \A j \in T : ~(j < k)
    <3>1. T \subseteq Nat
      BY <2>1
    <3>2. \A i, j \in Nat : i < j => <<i, j>> \in below
      OBVIOUS
    <3> HIDE DEF T, below
    <3> QED BY <2>3, <3>1, <3>2
  <2>5. k \in 2 .. Len(list) + 1 /\ later(k) /\ \A j \in 2 .. k - 1 : ~later(j)
    BY <2>1, <2>4
  <2>6. PlaceInOrder(list, p, time)
          = CHOOSE m \in 2 .. Len(list) + 1 : later(m) /\ \A j \in 2 .. m - 1 : ~later(j)
    BY <1>2 DEF PlaceInOrder
  <2> DEFINE place == PlaceInOrder(list, p, time)
  <2>7. place \in 2 .. Len(list) + 1 /\ later(place) /\ \A j \in 2 .. place - 1 : ~later(j)
    <3> HIDE DEF later
    <3> QED BY <2>5, <2>6
  <2> HIDE DEF place
  <2> QED
    BY <1>2, <2>7 DEF place
<1> QED
  BY <1>1, <1>2

LEMMA SomePlace ==
    ASSUME NEW S, NEW list \in Seq(S), NEW p, NEW time
    PROVE  PlaceInOrder(list, p, time) \in 1 .. Len(list) + 1
<1> DEFINE place == PlaceInOrder(list, p, time)
<1>1. place = 1 \/ place \in 2 .. Len(list) + 1
  BY WalkEnds
<1> HIDE DEF place
<1> QED
  BY <1>1 DEF place

LEMMA Inserted ==
    ASSUME NEW S, NEW list \in Seq(S), NEW k \in 1 .. Len(list) + 1, NEW p
    PROVE  /\ InsertAt(list, k, p) \in Seq(S \cup {p})
           /\ Len(InsertAt(list, k, p)) = Len(list) + 1
<1>1. SubSeq(list, 1, k - 1) \in Seq(S \cup {p}) /\ Len(SubSeq(list, 1, k - 1)) = k - 1
  OBVIOUS
<1>2. /\ SubSeq(list, k, Len(list)) \in Seq(S \cup {p})
      /\ Len(SubSeq(list, k, Len(list))) = Len(list) - k + 1
  OBVIOUS
<1>3. <<p>> \in Seq(S \cup {p}) /\ Len(<<p>>) = 1
  OBVIOUS
<1>4. /\ SubSeq(list, 1, k - 1) \o <<p>> \in Seq(S \cup {p})
      /\ Len(SubSeq(list, 1, k - 1) \o <<p>>) = k
  BY <1>1, <1>3
<1> DEFINE before == SubSeq(list, 1, k - 1) \o <<p>>
           after  == SubSeq(list, k, Len(list))
<1>5. before \o after \in Seq(S \cup {p}) /\ Len(before \o after) = Len(list) + 1
  <2>1. before \in Seq(S \cup {p}) /\ Len(before) = k
    BY <1>4
  <2>2. after \in Seq(S \cup {p}) /\ Len(after) = Len(list) - k + 1
    BY <1>2
  <2> HIDE DEF before, after
  <2>3. before \o after \in Seq(S \cup {p}) /\ Len(before \o after) = Len(before) + Len(after)
    BY <2>1, <2>2
  <2> QED BY <2>1, <2>2, <2>3
<1> QED
  BY <1>5 DEF InsertAt

\* student.c, queue_push: the new node is the last one.
LEMMA Pushed ==
    ASSUME NEW q, IsQueue(q), TailIsLast(q), NEW p
    PROVE  LET new == queue_push(q, p)
           IN  IsQueue(new) /\ TailIsLast(new) /\ Len(new.list) = Len(q.list) + 1
<1>1. PICK S : q \in [list : Seq(S), tail : Nat]
  BY DEF IsQueue
<1> DEFINE new == queue_push(q, p)
<1>2. new.list = Append(q.list, p) /\ new.tail = Len(q.list) + 1
      /\ new = [list |-> new.list, tail |-> new.tail]
  <2>1. q.list # <<>> => q.tail # 0 /\ SubSeq(q.list, 1, q.tail) = q.list
    BY <1>1 DEF TailIsLast
  <2>2. q.list = <<>> => Append(q.list, p) = <<p>>
    OBVIOUS
  <2>3. CASE q.list = <<>>
    BY <1>1, <2>2, <2>3 DEF queue_push
  <2>4. CASE q.list # <<>>
    <3>1. new = [list |-> Append(q.list, p), tail |-> q.tail + 1]
      BY <2>1, <2>4 DEF queue_push
    <3>2. q.tail = Len(q.list)
      BY <2>4 DEF TailIsLast
    <3> HIDE DEF new
    <3> QED BY <3>1, <3>2
  <2> QED
    BY <2>3, <2>4
<1>3. new.list \in Seq(S \cup {p}) /\ Len(new.list) = Len(q.list) + 1
  BY <1>1, <1>2
<1>4. new \in [list : Seq(S \cup {p}), tail : Nat]
  BY <1>1, <1>2, <1>3
<1> QED
  BY <1>2, <1>3, <1>4 DEF IsQueue, TailIsLast

\* student.c, queue_ordered_push: tail moves up with its node, or on to the new one.
LEMMA PushedInOrder ==
    ASSUME NEW q, IsQueue(q), TailIsLast(q), NEW p, NEW time
    PROVE  LET new == queue_ordered_push(q, p, time)
           IN  IsQueue(new) /\ TailIsLast(new) /\ Len(new.list) = Len(q.list) + 1
<1>1. PICK S : q \in [list : Seq(S), tail : Nat]
  BY DEF IsQueue
<1> DEFINE new   == queue_ordered_push(q, p, time)
           place == PlaceInOrder(q.list, p, time)
<1>2. place \in 1 .. Len(q.list) + 1
  BY <1>1, SomePlace
<1>3. new.list \in Seq(S \cup {p}) /\ Len(new.list) = Len(q.list) + 1
  BY <1>1, <1>2, Inserted DEF queue_ordered_push
<1>4. new.tail = Len(q.list) + 1 /\ new = [list |-> new.list, tail |-> new.tail]
  BY <1>1, <1>2 DEF queue_ordered_push, TailIsLast
<1>5. new \in [list : Seq(S \cup {p}), tail : Nat]
  BY <1>1, <1>3, <1>4
<1> QED
  BY <1>3, <1>4, <1>5 DEF IsQueue, TailIsLast

\* student.c, queue_pop: the nodes that stay are one fewer, and the last is the same.
LEMMA Popped ==
    ASSUME NEW q, IsQueue(q), TailIsLast(q)
    PROVE  LET new == queue_pop(q)
           IN  /\ IsQueue(new) /\ TailIsLast(new)
               /\ Len(new.list) = IF q.list = <<>> THEN 0 ELSE Len(q.list) - 1
<1>1. PICK S : q \in [list : Seq(S), tail : Nat]
  BY DEF IsQueue
<1> DEFINE new == queue_pop(q)
<1>2. CASE q.list = <<>>
  BY <1>2 DEF queue_pop
<1>3. CASE q.list # <<>>
  <2>1. new.list \in Seq(S) /\ Len(new.list) = Len(q.list) - 1
    BY <1>1, <1>3 DEF queue_pop
  <2>2. new.tail = Len(q.list) - 1 /\ new = [list |-> new.list, tail |-> new.tail]
    BY <1>1, <1>3 DEF queue_pop, TailIsLast
  <2>3. new \in [list : Seq(S), tail : Nat]
    BY <1>1, <1>3, <2>1, <2>2
  <2> QED
    BY <1>3, <2>1, <2>2, <2>3 DEF IsQueue, TailIsLast
<1> QED
  BY <1>2, <1>3

LEMMA QueueLen ==
    ASSUME QueueInv
    PROVE  /\ Len(ready_queue.list) \in Nat
           /\ Len(ready_queue.list) = 0 <=> ready_queue.list = <<>>
<1>1. PICK S : ready_queue \in [list : Seq(S), tail : Nat]
  BY DEF QueueInv, IsQueue
<1> QED
  BY <1>1

\* student.c: only wake_up, preempt and schedule touch the ready queue.
LEMMA SupervisorLeavesQueue ==
    ASSUME Supervisor \/ SpuriousWakeUp, ~WakeUpPush
    PROVE  UNCHANGED ready_queue
BY DEF Supervisor, Tick, WakeUp, SpuriousWakeUp, Lock, PrintGanttLine, RunBurst, EndBurst,
       NothingToRun, SchedulerHasRun, SimulateIo, SimulateCreat, WakeUpReturned, WakeUpMark,
       WakeUpScan, ForcePreempt, Preempted, WakeUpSignal, student

LEMMA CpuThreadLeavesQueue ==
    ASSUME NEW c \in Cpu, CpuThread(c), ~Requeue(c), ~Pop(c)
    PROVE  UNCHANGED ready_queue
BY DEF CpuThread, Top, Dispatch, CountTerminated, Mark, Idle, Select, Switch, Relock, Store,
       student

LEMMA QueueStep ==
    ASSUME QueueInv, [Next]_vars
    PROVE  QueueInv'
<1> USE DEF QueueInv, TailPointsToTheLast
<1>1. ASSUME UNCHANGED ready_queue PROVE QueueInv'
  BY <1>1 DEF IsQueue, TailIsLast
<1>2. CASE WakeUpPush
  BY <1>2, Pushed, PushedInOrder DEF WakeUpPush
<1>3. ASSUME NEW c \in Cpu, Requeue(c) PROVE QueueInv'
  BY <1>3, PushedInOrder DEF Requeue, Requeued
<1>4. ASSUME NEW c \in Cpu, Pop(c) PROVE QueueInv'
  BY <1>4, Popped DEF Pop
<1>5. CASE Supervisor \/ SpuriousWakeUp
  BY <1>1, <1>2, <1>5, SupervisorLeavesQueue
<1>6. CASE \E c \in Cpu : CpuThread(c)
  BY <1>1, <1>3, <1>4, <1>6, CpuThreadLeavesQueue
<1>7. CASE UNCHANGED vars
  BY <1>1, <1>7 DEF vars, student
<1> QED
  BY <1>5, <1>6, <1>7 DEF Next, Terminated

LEMMA QueueInit == Init => QueueInv
<1>1. EmptyQueue \in [list : Seq({}), tail : Nat] /\ EmptyQueue.list = <<>>
  BY DEF EmptyQueue
<1> QED
  BY <1>1 DEF Init, QueueInv, IsQueue, TailPointsToTheLast, TailIsLast

\* student.c, queue_push, queue_ordered_push and queue_pop: tail, which queue_pop
\* never sets back, points to the last node whenever somebody follows it.
THEOREM TailTheorem == Spec => []TailPointsToTheLast
<1>1. Init => QueueInv
  BY QueueInit
<1>2. QueueInv /\ [Next]_vars => QueueInv'
  BY QueueStep
<1>3. QueueInv => TailPointsToTheLast
  BY DEF QueueInv
<1> QED
  BY <1>1, <1>2, <1>3, PTL DEF Spec

-----------------------------------------------------------------------------
(* The signal of wake_up. *)

\* Only a thread that is in idle() is in the wait set.
WorkInv ==
    /\ OverCpus(cpu) /\ QueueInv
    /\ \A c \in idle_waiting : c \in Cpu /\ cpu[c] = "idle"
    /\ WorkConserving

LEMMA CountCpus ==
    ASSUME NEW A \in SUBSET Cpu
    PROVE  /\ Cardinality(A) \in Nat
           /\ \A B \in SUBSET Cpu : A \subseteq B => Cardinality(A) <= Cardinality(B)
           /\ \A c \in Cpu \ A : Cardinality(A \cup {c}) = Cardinality(A) + 1
           /\ \A c \in A : Cardinality(A \ {c}) = Cardinality(A) - 1
<1>1. \A B \in SUBSET Cpu : IsFiniteSet(B)
  <2>1. IsFiniteSet(Cpu)
    <3>1. 0 \in Int /\ CpuCount - 1 \in Int
      BY OsAssumption
    <3> QED BY <3>1, FS_Interval DEF Cpu
  <2> QED BY <2>1, FS_Subset
<1>2. IsFiniteSet(A) /\ Cardinality(A) \in Nat
  BY <1>1, FS_CardinalityType
<1>3. ASSUME NEW B \in SUBSET Cpu, A \subseteq B PROVE Cardinality(A) <= Cardinality(B)
  BY <1>1, <1>3, FS_Subset
<1>4. ASSUME NEW c \in Cpu \ A PROVE Cardinality(A \cup {c}) = Cardinality(A) + 1
  BY <1>2, <1>4, FS_AddElement
<1>5. ASSUME NEW c \in A PROVE Cardinality(A \ {c}) = Cardinality(A) - 1
  BY <1>2, <1>5, FS_RemoveElement
<1> QED
  BY <1>2, <1>3, <1>4, <1>5

LEMMA CountComing ==
    Cardinality(Coming) = IF sup \in {"wake_scan", "force", "force_wait", "wake_signal"}
                          THEN 1 ELSE 0
<1>1. CASE sup \in {"wake_scan", "force", "force_wait", "wake_signal"}
  <2>1. Coming = {sup}
    BY <1>1 DEF Coming
  <2> QED BY <1>1, <2>1, FS_Singleton
<1>2. CASE sup \notin {"wake_scan", "force", "force_wait", "wake_signal"}
  <2>1. Coming = {}
    BY <1>2 DEF Coming
  <2> QED BY <1>2, <2>1, FS_EmptySet
<1> QED
  BY <1>1, <1>2

LEMMA CountComingNext ==
    Cardinality(Coming') = IF sup' \in {"wake_scan", "force", "force_wait", "wake_signal"}
                           THEN 1 ELSE 0
<1>1. CASE sup' \in {"wake_scan", "force", "force_wait", "wake_signal"}
  <2>1. Coming' = {sup'}
    BY <1>1 DEF Coming
  <2> QED BY <1>1, <2>1, FS_Singleton
<1>2. CASE sup' \notin {"wake_scan", "force", "force_wait", "wake_signal"}
  <2>1. Coming' = {}
    BY <1>2 DEF Coming
  <2> QED BY <1>2, <2>1, FS_EmptySet
<1> QED
  BY <1>1, <1>2

\* More takers, and the same queue and signals.
LEMMA MoreTakers ==
    ASSUME WorkInv, sup # "crashed", Takers \subseteq Takers',
           UNCHANGED ready_queue, idle_waiting' \subseteq idle_waiting,
           sup' = "crashed" \/ Cardinality(Coming) <= Cardinality(Coming')
    PROVE  WorkConserving'
<1>1. Takers \in SUBSET Cpu /\ Takers' \in SUBSET Cpu
  BY DEF Takers
<1>2. /\ Cardinality(Takers) \in Nat /\ Cardinality(Takers') \in Nat
      /\ Cardinality(Takers) <= Cardinality(Takers')
  BY <1>1, CountCpus
<1>3. Cardinality(Coming) \in Nat /\ Cardinality(Coming') \in Nat
  BY CountComing, CountComingNext
<1>4. Len(ready_queue.list) \in Nat
  BY QueueLen DEF WorkInv
<1>5. sup' # "crashed" => Cardinality(Coming) <= Cardinality(Coming')
  OBVIOUS
<1>6. idle_waiting' # {} => Len(ready_queue.list) <= Cardinality(Takers) + Cardinality(Coming)
  BY DEF WorkInv, WorkConserving
<1>7. CASE idle_waiting' # {} /\ sup' # "crashed"
  <2>1. Len(ready_queue.list) <= Cardinality(Takers') + Cardinality(Coming')
    BY <1>2, <1>3, <1>4, <1>5, <1>6, <1>7
  <2> QED BY <2>1 DEF WorkConserving
<1> QED
  BY <1>7 DEF WorkConserving

\* os-sim.c: no step of the supervisor takes a signal back before wake_up ends.
LEMMA SupervisorKeepsSignal ==
    ASSUME Supervisor \/ SpuriousWakeUp, ~WakeUpPush, ~WakeUpSignal, ~Exited
    PROVE  /\ idle_waiting' \subseteq idle_waiting
           /\ \/ sup' = "crashed"
              \/ sup \notin {"wake_scan", "force", "force_wait", "wake_signal"}
              \/ sup' \in {"wake_scan", "force", "force_wait", "wake_signal"}
<1> USE DEF SupervisorAt, Exited, locks, threads
<1>1. CASE Tick
  BY <1>1 DEF Tick, Lock, PrintGanttLine, RunBurst, EndBurst, NothingToRun, SchedulerHasRun,
       SimulateIo, SimulateCreat, WakeUpReturned
<1>2. CASE WakeUp
  BY <1>2 DEF WakeUp, WakeUpMark, WakeUpScan, ForcePreempt, Preempted
<1>3. CASE SpuriousWakeUp
  BY <1>3 DEF SpuriousWakeUp
<1> QED
  BY <1>1, <1>2, <1>3 DEF Supervisor

LEMMA SupervisorWorks ==
    ASSUME WorkInv, QueueInv', Supervisor \/ SpuriousWakeUp, ~Exited
    PROVE  WorkInv'
<1>1. UNCHANGED cpu
  BY SupervisorLeavesRecords
<1>2. QueueInv /\ \A c \in idle_waiting : c \in Cpu /\ cpu[c] = "idle"
  BY DEF WorkInv
<1>3. sup # "crashed"
  BY DEF Exited
<1>4. idle_waiting' \subseteq idle_waiting
  BY SupervisorKeepsSignal DEF WakeUpPush, WakeUpSignal, SignalIdle, locks
<1>5. Takers \subseteq Takers'
  BY <1>1, <1>4 DEF Takers
<1>6. WorkConserving'
  <2>1. CASE ~WakeUpPush /\ ~WakeUpSignal
    BY <1>3, <1>5, <2>1, SupervisorKeepsSignal, SupervisorLeavesQueue, CountComing,
       CountComingNext, MoreTakers
  <2>2. CASE WakeUpPush
    <3>1. Len(ready_queue'.list) = Len(ready_queue.list) + 1
      BY <1>2, <2>2, Pushed, PushedInOrder DEF WakeUpPush, QueueInv, TailPointsToTheLast
    <3>2. Cardinality(Coming) = 0 /\ Cardinality(Coming') = 1
      BY <2>2, CountComing, CountComingNext DEF WakeUpPush, SupervisorAt
    <3>3. Takers' = Takers /\ idle_waiting' = idle_waiting
      BY <1>1, <2>2 DEF WakeUpPush, Takers, locks
    <3>4. Takers \in SUBSET Cpu
      BY DEF Takers
    <3>5. Cardinality(Takers) \in Nat /\ Len(ready_queue.list) \in Nat
      BY <1>2, <3>4, CountCpus, QueueLen
    <3> QED
      BY <1>3, <3>1, <3>2, <3>3, <3>5 DEF WorkInv, WorkConserving
  <2>3. CASE WakeUpSignal
    <3>1. Cardinality(Coming) = 1 /\ Cardinality(Coming') = 0 /\ UNCHANGED ready_queue
      BY <2>3, CountComing, CountComingNext DEF WakeUpSignal, SupervisorAt, student
    <3>2. CASE idle_waiting = {}
      BY <1>4, <3>2 DEF WorkConserving
    <3>3. CASE idle_waiting # {}
      <4>1. PICK c \in idle_waiting : idle_waiting' = idle_waiting \ {c}
        BY <2>3, <3>3 DEF WakeUpSignal, SignalIdle
      <4>2. Takers' = Takers \cup {c} /\ c \in Cpu \ Takers
        BY <1>1, <1>2, <4>1 DEF Takers
      <4>3. Takers \in SUBSET Cpu
        BY DEF Takers
      <4>4. Cardinality(Takers) \in Nat /\ Cardinality(Takers') = Cardinality(Takers) + 1
        BY <4>2, <4>3, CountCpus
      <4>5. Len(ready_queue.list) \in Nat
        BY <1>2, QueueLen
      <4> QED
        BY <1>3, <3>1, <3>3, <4>4, <4>5 DEF WorkInv, WorkConserving
    <3> QED BY <3>2, <3>3
  <2> QED BY <2>1, <2>2, <2>3
<1> QED
  BY <1>1, <1>2, <1>4, <1>6 DEF WorkInv, OverCpus

\* os-sim.c, student.c: a CPU thread that stops looking at the queue has taken a
\* process from it, or goes to sleep when there is none.
LEMMA CpuThreadWorks ==
    ASSUME WorkInv, QueueInv', NEW c \in Cpu, CpuThread(c), ~Exited
    PROVE  WorkInv'
<1>1. OverCpus(cpu) /\ QueueInv /\ \A d \in idle_waiting : d \in Cpu /\ cpu[d] = "idle"
  BY DEF WorkInv
<1>2. sup # "crashed" /\ UNCHANGED sup
  BY DEF Exited, CpuThread, Top, Dispatch, CountTerminated, Mark, Requeue, Idle, Pop, Select,
         Switch, Relock, Store
<1>3. Cardinality(Coming') = Cardinality(Coming) /\ Cardinality(Coming) \in Nat
  BY <1>2, CountComing, CountComingNext
<1>4. Takers \in SUBSET Cpu /\ Len(ready_queue.list) \in Nat
  BY <1>1, QueueLen DEF Takers
<1>5. Cardinality(Takers) \in Nat
  BY <1>4, CountCpus
<1>6. PICK s : cpu' = [cpu EXCEPT ![c] = s] /\ (cpu[c] = "idle" /\ s # "idle" => s = "pop")
  BY <1>1 DEF OverCpus, CpuThread, Top, Dispatch, CountTerminated, Mark, Requeue, Idle, Pop,
              Select, Switch, Relock, Store, Goto, CpuAt
<1>7. OverCpus(cpu') /\ cpu'[c] = s /\ \A d \in Cpu \ {c} : cpu'[d] = cpu[d]
  BY <1>1, <1>6 DEF OverCpus
<1>8. CASE Requeue(c)
  <2>1. Len(ready_queue'.list) = Len(ready_queue.list) + 1
    BY <1>1, <1>8, PushedInOrder DEF Requeue, Requeued, QueueInv, TailPointsToTheLast
  <2>2. cpu[c] = "push" /\ cpu'[c] = "pop" /\ idle_waiting' = idle_waiting
    BY <1>1, <1>8 DEF Requeue, CpuAt, Goto, OverCpus, locks
  <2>3. Takers' = Takers \cup {c} /\ c \in Cpu \ Takers
    BY <1>7, <2>2 DEF Takers
  <2>4. Cardinality(Takers') = Cardinality(Takers) + 1
    BY <1>4, <2>3, CountCpus
  <2>5. WorkConserving'
    BY <1>2, <1>3, <1>4, <1>5, <2>1, <2>2, <2>4 DEF WorkInv, WorkConserving
  <2> QED
    BY <1>1, <1>7, <2>2, <2>5 DEF WorkInv
<1>9. CASE Pop(c)
  <2>1. Len(ready_queue'.list) = IF ready_queue.list = <<>> THEN 0 ELSE Len(ready_queue.list) - 1
    BY <1>1, <1>9, Popped DEF Pop, QueueInv, TailPointsToTheLast
  <2>2. cpu[c] = "pop" /\ cpu'[c] = "select" /\ idle_waiting' = idle_waiting
    BY <1>1, <1>9 DEF Pop, CpuAt, Goto, OverCpus, locks
  <2>3. Takers' = Takers \ {c} /\ c \in Takers
    BY <1>7, <2>2 DEF Takers
  <2>4. Cardinality(Takers') = Cardinality(Takers) - 1 /\ Cardinality(Takers') \in Nat
    BY <1>4, <2>3, CountCpus
  <2>5. WorkConserving'
    BY <1>2, <1>3, <1>4, <1>5, <2>1, <2>2, <2>4 DEF WorkInv, WorkConserving
  <2> QED
    BY <1>1, <1>7, <2>2, <2>5 DEF WorkInv
<1>10. CASE Idle(c) /\ ready_queue.list = <<>>
  <2>1. idle_waiting' = idle_waiting \cup {c} /\ UNCHANGED <<cpu, ready_queue>> /\ cpu[c] = "idle"
    BY <1>10 DEF Idle, CpuAt, student
  <2>2. Takers' \in SUBSET Cpu
    BY <2>1 DEF Takers
  <2>3. Cardinality(Takers') \in Nat /\ Len(ready_queue'.list) = 0
    BY <1>10, <2>1, <2>2, CountCpus
  <2>4. WorkConserving'
    BY <1>3, <2>3 DEF WorkConserving
  <2> QED
    BY <1>1, <2>1, <2>4 DEF WorkInv
<1>11. CASE ~Requeue(c) /\ ~Pop(c) /\ ~(Idle(c) /\ ready_queue.list = <<>>)
  <2>1. UNCHANGED <<ready_queue, idle_waiting>>
    BY <1>11, CpuThreadLeavesQueue
       DEF CpuThread, Top, Dispatch, CountTerminated, Mark, Idle, Select, Switch, Relock, Store,
           locks
  <2>2. cpu[c] # "pop" /\ (cpu[c] = "idle" => c \notin idle_waiting /\ cpu'[c] = "pop")
    BY <1>1, <1>7, <1>11
       DEF CpuThread, Top, Dispatch, CountTerminated, Mark, Idle, Select, Switch, Relock, Store,
           CpuAt, Goto, OverCpus
  <2>3. Takers \subseteq Takers'
    BY <1>7, <2>1, <2>2 DEF Takers
  <2>4. WorkConserving'
    BY <1>2, <1>3, <2>1, <2>3, MoreTakers
  <2> QED
    BY <1>1, <1>7, <2>1, <2>2, <2>4 DEF WorkInv
<1> QED
  BY <1>8, <1>9, <1>10, <1>11

LEMMA WorkStep ==
    ASSUME WorkInv, [Next]_vars
    PROVE  WorkInv'
<1>1. QueueInv'
  BY QueueStep DEF WorkInv
<1>2. CASE ~Exited /\ (Supervisor \/ SpuriousWakeUp)
  BY <1>1, <1>2, SupervisorWorks
<1>3. CASE ~Exited /\ \E c \in Cpu : CpuThread(c)
  BY <1>1, <1>3, CpuThreadWorks
<1>4. CASE UNCHANGED vars
  BY <1>1, <1>4 DEF vars, student, locks, threads, WorkInv, OverCpus, WorkConserving, Takers,
                    Coming
<1> QED
  BY <1>2, <1>3, <1>4 DEF Next, Terminated

\* student.c, idle and wake_up: the signals, each of which may go to any CPU, and
\* the wake-ups without one, never leave a CPU asleep beside a process that
\* nobody else is about to take.
THEOREM WorkConservingTheorem == Spec => []WorkConserving
<1>1. Init => WorkInv
  BY QueueInit DEF Init, WorkInv, OverCpus, WorkConserving
<1>2. WorkInv /\ [Next]_vars => WorkInv'
  BY WorkStep
<1>3. WorkInv => WorkConserving
  BY DEF WorkInv
<1> QED
  BY <1>1, <1>2, <1>3, PTL DEF Spec

-----------------------------------------------------------------------------
(* The types of the variables, and the places that a process cannot leave. *)

\* The requests that wait for I/O are of different processes, each at its OP_IO.
IoInv ==
    /\ \A k \in DOMAIN io_queue : Op(io_queue[k].pcb) = "OP_IO"
    /\ \A j, k \in DOMAIN io_queue : io_queue[j].pcb = io_queue[k].pcb => j = k

WakeSteps == {"wake", "wake_push", "wake_scan", "force", "force_wait", "wake_signal", "return"}

\* wake_up has been called for a process of the table, and simulate_creat for the
\* next one.
WakeInv ==
    sup \in WakeSteps => /\ woken \in Proc
                         /\ back = "created" => woken = created

TypeInv == TypeOK /\ IoInv /\ WakeInv /\ KnowInv /\ QueueInv

LEMMA WellFormedProgram ==
    ASSUME NEW p \in Proc
    PROVE  /\ Len(Program[p]) \in Nat /\ 1 \in 1 .. Len(Program[p])
           /\ \A k \in 1 .. Len(Program[p]) :
                 /\ Program[p][k].time \in Nat
                 /\ Program[p][k].type \in {"OP_CPU", "OP_IO"} => k + 1 \in 1 .. Len(Program[p])
                 /\ Program[p][k].type = "OP_CPU"
                       => Program[p][k + 1].type \in {"OP_IO", "OP_TERMINATE"}
                 /\ Program[p][k].type = "OP_IO" => Program[p][k + 1].type = "OP_CPU"
                 /\ Program[p][k].type \in {"OP_CPU", "OP_IO", "OP_TERMINATE"}
<1> DEFINE ops == Program[p]
<1>1. WellFormed(ops)
  BY OsAssumption
<1> HIDE DEF ops
<1>2. Len(ops) \in Nat /\ ops # <<>>
  BY <1>1 DEF WellFormed
<1>3. Len(ops) \in Nat \ {0}
  BY <1>1, <1>2 DEF WellFormed
<1>4. \A k \in 1 .. Len(ops) :
         ops[k] \in [type : {"OP_CPU", "OP_IO", "OP_TERMINATE"}, time : Nat]
  <2> DEFINE O == [type : {"OP_CPU", "OP_IO", "OP_TERMINATE"}, time : Nat]
  <2>1. ops \in Seq(O)
    BY <1>1 DEF WellFormed
  <2> HIDE DEF O
  <2>2. \A k \in 1 .. Len(ops) : ops[k] \in O
    BY <2>1
  <2> QED BY <2>2 DEF O
<1>5. \A k \in 1 .. Len(ops) : k = Len(ops) \/ k \in 1 .. Len(ops) - 1
  BY <1>2
<1>6. \A k \in 1 .. Len(ops) - 1 : k + 1 \in 1 .. Len(ops)
  BY <1>2
<1> QED
  BY <1>1, <1>3, <1>4, <1>5, <1>6 DEF WellFormed, ops

LEMMA TypeInit == Init => TypeInv
<1> SUFFICES ASSUME Init PROVE TypeInv
  OBVIOUS
<1> USE OsAssumption DEF Init
<1>1. TypeOK
  <2>1. Cardinality(Proc) \in Nat
    BY FS_CardinalityType
  <2>2. PcbsOK
    <3>1. ASSUME NEW p \in Proc
          PROVE  Program[p][1].time \in Nat /\ 1 \in 1 .. Len(Program[p])
      BY WellFormedProgram
    <3> QED BY <3>1 DEF PcbsOK, States
  <2>3. StudentOK
    BY DEF StudentOK, EmptyQueue, Pointer
  <2>4. CpusOK
    BY DEF CpusOK, Pointer, CpuStates
  <2>5. LibraryOK
    BY <2>1 DEF LibraryOK
  <2>6. LocksOK
    <3>1. held \in BOOLEAN
      OBVIOUS
    <3> QED BY <3>1 DEF LocksOK
  <2>8. HistoryOK
    BY DEF HistoryOK
  <2>7. ThreadsOK
    <3>1. 0 \in Cpu
      BY DEF Cpu
    <3> QED
      BY <3>1 DEF ThreadsOK, SupSteps, CpuSteps, CpuStates, Pointer
  <2> QED
    BY <2>2, <2>3, <2>4, <2>5, <2>6, <2>7, <2>8 DEF TypeOK
<1>2. IoInv /\ WakeInv
  BY DEF IoInv, WakeInv, WakeSteps
<1>3. KnowInv
  BY DEF KnowInv, OverCpus, HandlersKnowTheProcess
<1> QED
  BY <1>1, <1>2, <1>3, QueueInit DEF TypeInv

-----------------------------------------------------------------------------
(* The processes. *)

PcbFields == /\ pc \in [Proc -> Nat] /\ left \in [Proc -> Nat]
             /\ \A p \in Proc : pc[p] \in 1 .. Len(Program[p]) /\ left[p] <= Program[p][pc[p]].time
             /\ time_remaining \in [Proc -> Nat \ {0}]

\* os-sim.c: a process that goes on to its next operation stays in its program.
LEMMA AdvanceOK ==
    ASSUME PcbFields, NEW p \in Proc, Op(p) \in {"OP_CPU", "OP_IO"}, Advance(p)
    PROVE  PcbFields'
<1> DEFINE t == Program[p][pc[p] + 1].time
<1>1. pc[p] + 1 \in 1 .. Len(Program[p]) /\ t \in Nat
  BY WellFormedProgram DEF PcbFields, Op
<1>2. /\ pc' = [pc EXCEPT ![p] = pc[p] + 1] /\ left' = [left EXCEPT ![p] = t]
      /\ time_remaining' = [time_remaining EXCEPT ![p] = t + 1]
  BY DEF Advance
<1>3. /\ pc' \in [Proc -> Nat] /\ left' \in [Proc -> Nat]
      /\ time_remaining' \in [Proc -> Nat \ {0}]
  BY <1>1, <1>2 DEF PcbFields
<1>4. pc'[p] = pc[p] + 1 /\ left'[p] = t
  BY <1>2 DEF PcbFields
<1>5. \A q \in Proc : q # p => pc'[q] = pc[q] /\ left'[q] = left[q]
  BY <1>2 DEF PcbFields
<1>6. left'[p] <= Program[p][pc'[p]].time
  BY <1>1, <1>4
<1> QED
  BY <1>1, <1>3, <1>4, <1>5, <1>6 DEF PcbFields

LEMMA PcbsSplit == PcbsOK <=> pstate \in [Proc -> States] /\ PcbFields
BY DEF PcbsOK, PcbFields

LEMMA MarkOK ==
    ASSUME PcbsOK, UNCHANGED <<pc, left, time_remaining>>, NEW p, NEW s \in States,
           pstate' = [pstate EXCEPT ![p] = s]
    PROVE  PcbsOK'
BY DEF PcbsOK

LEMMA HeadRequest ==
    ASSUME TypeInv, io_queue # <<>>
    PROVE  /\ Head(io_queue) \in [pcb : Proc, execution_time : Nat]
           /\ Head(io_queue) = io_queue[1] /\ 1 \in DOMAIN io_queue
           /\ Head(io_queue).pcb \in Proc /\ Op(Head(io_queue).pcb) = "OP_IO"
<1> DEFINE R == [pcb : Proc, execution_time : Nat]
<1>1. io_queue \in Seq(R)
  BY DEF TypeInv, TypeOK, LibraryOK
<1>2. \A r \in R : r.pcb \in Proc
  OBVIOUS
<1> HIDE DEF R
<1>3. Head(io_queue) \in R /\ Head(io_queue) = io_queue[1] /\ 1 \in DOMAIN io_queue
  BY <1>1
<1> QED
  BY <1>2, <1>3 DEF TypeInv, IoInv, R

\* os-sim.c, student.c: the steps that change a process.
LEMMA PcbsStep ==
    ASSUME TypeInv, ~Exited, Supervisor \/ (\E c \in Cpu : CpuThread(c)) \/ SpuriousWakeUp
    PROVE  PcbsOK'
<1>1. PcbsOK
  BY DEF TypeInv, TypeOK
<1>2. ASSUME UNCHANGED pcbs PROVE PcbsOK'
  BY <1>1, <1>2 DEF PcbsOK, pcbs
<1>3. cpu_current \in [Cpu -> Pointer] /\ n \in Cpu
  BY DEF TypeInv, TypeOK, CpusOK, ThreadsOK
<1>4. CASE RunBurst
  <2> DEFINE p == cpu_current[n]
  <2>1. p \in Proc
    BY <1>3, <1>4 DEF RunBurst, Pointer
  <2>2. /\ left[p] > 0 /\ left' = [left EXCEPT ![p] = left[p] - 1] /\ UNCHANGED <<pc, pstate>>
        /\ time_remaining' = [time_remaining EXCEPT ![p] = left[p]]
    BY <1>4 DEF RunBurst
  <2> HIDE DEF p
  <2>3. left[p] \in Nat /\ left[p] <= Program[p][pc[p]].time /\ Program[p][pc[p]].time \in Nat
    BY <1>1, <2>1, WellFormedProgram DEF PcbsOK
  <2> QED
    BY <1>1, <2>1, <2>2, <2>3, SMTT(30) DEF PcbsOK
<1>5. CASE EndBurst
  <2>1. cpu_current[n] \in Proc
    BY <1>3, <1>5 DEF EndBurst, Pointer
  <2>2. Op(cpu_current[n]) = "OP_CPU" /\ Advance(cpu_current[n]) /\ UNCHANGED pstate
    BY <1>5 DEF EndBurst
  <2> QED
    BY <1>1, <2>1, <2>2, AdvanceOK, PcbsSplit DEF PcbsOK, PcbFields
<1>6. CASE SimulateIo
  <2>1. CASE io_queue # <<>> /\ Head(io_queue).execution_time = 0
    <3>1. Head(io_queue).pcb \in Proc /\ Op(Head(io_queue).pcb) = "OP_IO"
      BY <2>1, HeadRequest
    <3>2. Advance(Head(io_queue).pcb) /\ UNCHANGED pstate
      BY <1>6, <2>1 DEF SimulateIo
    <3> QED
      BY <1>1, <3>1, <3>2, AdvanceOK DEF PcbsOK, PcbFields
  <2>2. CASE ~(io_queue # <<>> /\ Head(io_queue).execution_time = 0)
    BY <1>2, <1>6, <2>2 DEF SimulateIo, pcbs
  <2> QED BY <2>1, <2>2
<1>7. CASE WakeUpMark
  BY <1>1, <1>7, MarkOK DEF WakeUpMark, States
<1>8. ASSUME NEW c \in Cpu, Mark(c) PROVE PcbsOK'
  BY <1>1, <1>8, MarkOK DEF Mark, NewState, States
<1>9. ASSUME NEW c \in Cpu, Select(c) PROVE PcbsOK'
  BY <1>1, <1>2, <1>9, MarkOK DEF Select, Marked, States, pcbs
<1>10. CASE Supervisor \/ SpuriousWakeUp
  <2>1. RunBurst \/ EndBurst \/ SimulateIo \/ WakeUpMark \/ UNCHANGED pcbs
    BY <1>10 DEF Supervisor, Tick, WakeUp, SpuriousWakeUp, Lock, PrintGanttLine, NothingToRun,
      SchedulerHasRun, SimulateCreat, WakeUpReturned, WakeUpPush, WakeUpScan, ForcePreempt,
      Preempted, WakeUpSignal
  <2> QED BY <1>2, <1>4, <1>5, <1>6, <1>7, <2>1
<1>11. ASSUME NEW c \in Cpu, CpuThread(c) PROVE PcbsOK'
  <2>1. Mark(c) \/ Select(c) \/ UNCHANGED pcbs
    BY <1>11 DEF CpuThread, Top, Dispatch, CountTerminated, Requeue, Idle, Pop, Switch, Relock,
      Store
  <2> QED BY <1>2, <1>8, <1>9, <2>1
<1> QED
  BY <1>10, <1>11

-----------------------------------------------------------------------------
(* The scheduler's variables. *)

Step == ~Exited /\ (Supervisor \/ (\E c \in Cpu : CpuThread(c)) \/ SpuriousWakeUp)

LEMMA TypedPush ==
    ASSUME NEW q \in [list : Seq(Proc), tail : Nat], TailIsLast(q), NEW p \in Proc
    PROVE  queue_push(q, p) \in [list : Seq(Proc), tail : Nat]
<1>1. CASE q.list = <<>>
  BY <1>1 DEF queue_push
<1>2. CASE q.list # <<>>
  <2>1. q.tail = Len(q.list) /\ q.tail # 0 /\ q.list \in Seq(Proc)
    BY <1>2 DEF TailIsLast
  <2>2. SubSeq(q.list, 1, q.tail) = q.list
    BY <2>1
  <2>3. queue_push(q, p) = [list |-> Append(q.list, p), tail |-> q.tail + 1]
    BY <1>2, <2>1, <2>2 DEF queue_push
  <2> QED
    BY <2>1, <2>3
<1> QED
  BY <1>1, <1>2

LEMMA TypedOrderedPush ==
    ASSUME NEW q \in [list : Seq(Proc), tail : Nat], NEW p \in Proc, NEW time
    PROVE  queue_ordered_push(q, p, time) \in [list : Seq(Proc), tail : Nat]
<1> DEFINE place == PlaceInOrder(q.list, p, time)
<1>1. place \in 1 .. Len(q.list) + 1 /\ q.list \in Seq(Proc) /\ q.tail \in Nat
  BY SomePlace
<1>2. InsertAt(q.list, place, p) \in Seq(Proc)
  <2>1. Proc \cup {p} = Proc
    OBVIOUS
  <2> QED BY <1>1, <2>1, Inserted
<1>3. place \in Nat
  BY <1>1
<1> HIDE DEF place
<1> QED
  BY <1>1, <1>2, <1>3 DEF queue_ordered_push, place

LEMMA TypedPop ==
    ASSUME NEW q \in [list : Seq(Proc), tail : Nat]
    PROVE  /\ queue_pop(q) \in [list : Seq(Proc), tail : Nat]
           /\ First(q, NULL) \in Pointer
<1>1. CASE q.list = <<>>
  BY <1>1 DEF queue_pop, First, Pointer
<1>2. CASE q.list # <<>>
  BY <1>2 DEF queue_pop, First, Pointer
<1> QED
  BY <1>1, <1>2

\* student.c: the process that preempt puts back in the queue is one of the table.
LEMMA CurrentIsProcess ==
    ASSUME TypeInv, NEW c \in Cpu, cpu[c] \in {"running", "count", "mark", "push"}
    PROVE  current[c] \in Proc /\ current[c] = cpu_current[c]
<1>1. cpu_current[c] \in Pointer /\ cpu_current[c] # NULL
  BY DEF TypeInv, TypeOK, CpusOK
<1>2. current[c] = cpu_current[c]
  BY DEF TypeInv, KnowInv, HandlersKnowTheProcess
<1> QED
  BY <1>1, <1>2 DEF Pointer

LEMMA StudentStep ==
    ASSUME TypeInv, Step
    PROVE  StudentOK'
<1>1. StudentOK /\ TailIsLast(ready_queue)
  BY DEF TypeInv, TypeOK, QueueInv, TailPointsToTheLast
<1>2. ASSUME ready_queue' \in [list : Seq(Proc), tail : Nat], UNCHANGED current
      PROVE  StudentOK'
  BY <1>1, <1>2 DEF StudentOK
<1>3. CASE WakeUpPush
  <2>1. woken \in Proc
    BY <1>3 DEF TypeInv, WakeInv, WakeSteps, WakeUpPush, SupervisorAt
  <2> QED
    BY <1>1, <1>2, <1>3, <2>1, TypedPush, TypedOrderedPush DEF WakeUpPush, StudentOK
<1>4. ASSUME NEW c \in Cpu, Requeue(c) PROVE StudentOK'
  BY <1>1, <1>2, <1>4, CurrentIsProcess, TypedOrderedPush
     DEF Requeue, Requeued, StudentOK, CpuAt
<1>5. ASSUME NEW c \in Cpu, Pop(c) PROVE StudentOK'
  BY <1>1, <1>2, <1>5, TypedPop DEF Pop, StudentOK
<1>6. ASSUME NEW c \in Cpu, Store(c) PROVE StudentOK'
  <2>1. ready_process[c] \in Pointer
    BY DEF TypeInv, TypeOK, ThreadsOK
  <2> QED
    BY <1>1, <1>6, <2>1 DEF Store, Recorded, StudentOK
<1>7. ASSUME UNCHANGED student PROVE StudentOK'
  BY <1>1, <1>7 DEF StudentOK, student
<1>8. CASE Supervisor \/ SpuriousWakeUp
  <2>1. WakeUpPush \/ UNCHANGED student
    BY <1>8 DEF Supervisor, Tick, WakeUp, SpuriousWakeUp, Lock, PrintGanttLine, RunBurst, EndBurst,
       NothingToRun, SchedulerHasRun, SimulateIo, SimulateCreat, WakeUpReturned, WakeUpMark,
       WakeUpScan, ForcePreempt, Preempted, WakeUpSignal
  <2> QED BY <1>3, <1>7, <2>1
<1>9. ASSUME NEW c \in Cpu, CpuThread(c) PROVE StudentOK'
  <2>1. Requeue(c) \/ Pop(c) \/ Store(c) \/ UNCHANGED student
    BY <1>9 DEF CpuThread, Top, Dispatch, CountTerminated, Mark, Idle, Select, Switch, Relock
  <2> QED BY <1>4, <1>5, <1>6, <1>7, <2>1
<1> QED
  BY <1>8, <1>9 DEF Step

-----------------------------------------------------------------------------
(* The simulator's variables. *)

LEMMA CpusStep ==
    ASSUME TypeInv, Step
    PROVE  CpusOK'
<1>1. CpusOK /\ ThreadsOK
  BY DEF TypeInv, TypeOK
<1>2. n \in Cpu
  BY <1>1 DEF ThreadsOK
<1>3. CASE Supervisor \/ SpuriousWakeUp
  <2>1. UNCHANGED <<cpu, cpu_current>>
    BY <1>3, SupervisorLeavesRecords
  <2>2. RunBurst \/ EndBurst \/ ForcePreempt \/ UNCHANGED cpus
    BY <1>3 DEF Supervisor, Tick, WakeUp, SpuriousWakeUp, Lock, PrintGanttLine, NothingToRun,
       SchedulerHasRun, SimulateIo, SimulateCreat, WakeUpReturned, WakeUpMark, WakeUpPush,
       WakeUpScan, Preempted, WakeUpSignal
  <2>3. cpu_state' \in [Cpu -> CpuStates]
    BY <1>1, <1>2, <2>2 DEF CpusOK, RunBurst, EndBurst, ForcePreempt, Raise, CpuStates, Events, cpus
  <2>4. timer' \in [Cpu -> Int]
    BY <1>1, <1>2, <2>2 DEF CpusOK, RunBurst, EndBurst, ForcePreempt, cpus
  <2> QED
    BY <1>1, <2>1, <2>3, <2>4 DEF CpusOK
<1>4. ASSUME NEW c \in Cpu, CpuThread(c) PROVE CpusOK'
  <2> USE <1>1, <1>4 DEF CpusOK, ThreadsOK, CpuAt, Goto
  <2>1. cpu_state' \in [Cpu -> CpuStates]
    BY DEF CpuThread, Top, Dispatch, CountTerminated, Mark, Requeue, Idle, Pop, Select,
           Switch, Relock, Store, cpus, CpuStates, Events
  <2>2. cpu_current' \in [Cpu -> Pointer] /\ timer' \in [Cpu -> Int]
    <3>1. CASE Switch(c) \/ Relock(c) \/ Store(c)
      BY <3>1 DEF Switch, Relock, Store, cpus
    <3>2. CASE ~(Switch(c) \/ Relock(c) \/ Store(c))
      BY <3>2 DEF CpuThread, Top, Dispatch, CountTerminated, Mark, Requeue, Idle, Pop, Select, cpus
    <3> QED BY <3>1, <3>2
  <2>3. \A d \in Cpu : cpu'[d] \in {"running", "count", "mark", "push"} => cpu_current'[d] # NULL
    BY DEF CpuThread, Top, Dispatch, CountTerminated, Mark, Requeue, Idle, Pop, Select,
           Switch, Relock, Store, cpus
  <2> QED BY <2>1, <2>2, <2>3
<1> QED
  BY <1>3, <1>4 DEF Step

LEMMA HistoryStep ==
    ASSUME TypeInv, Step
    PROVE  HistoryOK'
<1>1. HistoryOK
  BY DEF TypeInv, TypeOK
<1>2. pending' \in [Cpu -> BOOLEAN]
  BY <1>1 DEF HistoryOK, Step, Supervisor, CpuThread, Tick, WakeUp, SpuriousWakeUp, Lock,
     PrintGanttLine, RunBurst, EndBurst, NothingToRun, SchedulerHasRun, SimulateIo,
     SimulateCreat, WakeUpReturned, WakeUpMark, WakeUpPush, WakeUpScan, ForcePreempt, Preempted,
     WakeUpSignal, Raise, Top, Dispatch, CountTerminated, Mark, Requeue, Idle, Pop, Select,
     Switch, Relock, Store, history
<1>3. lost' \in BOOLEAN
  BY <1>1, ZenonT(40) DEF HistoryOK, Step, Supervisor, CpuThread, Tick, WakeUp, SpuriousWakeUp, Lock,
     PrintGanttLine, RunBurst, EndBurst, NothingToRun, SchedulerHasRun, SimulateIo,
     SimulateCreat, WakeUpReturned, WakeUpMark, WakeUpPush, WakeUpScan, ForcePreempt, Preempted,
     WakeUpSignal, Raise, Top, Dispatch, CountTerminated, Mark, Requeue, Idle, Pop, Select,
     Switch, Relock, Store, history
<1> QED
  BY <1>2, <1>3 DEF HistoryOK

LEMMA LocksStep ==
    ASSUME TypeInv, Step
    PROVE  LocksOK'
<1>1. LocksOK /\ n \in Cpu
  BY DEF TypeInv, TypeOK, ThreadsOK
<1> USE <1>1 DEF LocksOK
<1>2. CASE Supervisor \/ SpuriousWakeUp
  <2> USE <1>2 DEF Supervisor, Tick, WakeUp, SpuriousWakeUp, Lock, PrintGanttLine, RunBurst,
       EndBurst, NothingToRun, SchedulerHasRun, SimulateIo, SimulateCreat, WakeUpReturned,
       WakeUpMark, WakeUpPush, WakeUpScan, ForcePreempt, Preempted, WakeUpSignal, Raise,
       CallWakeUp, EndTick, locks
  <2>1. held' \in BOOLEAN
    OBVIOUS
  <2>2. writers' \in Int
    OBVIOUS
  <2>3. waiting' \in [Cpu -> SUBSET {"supervisor", "cpu"}]
    OBVIOUS
  <2>4. idle_waiting' \subseteq Cpu
    BY DEF SignalIdle
  <2> QED BY <2>1, <2>2, <2>3, <2>4
<1>3. ASSUME NEW c \in Cpu, CpuThread(c) PROVE LocksOK'
  <2> USE <1>3 DEF CpuThread, Top, Dispatch, CountTerminated, Mark, Requeue, Idle, Pop,
           Select, Switch, Relock, Store, locks
  <2>1. held' \in BOOLEAN
    OBVIOUS
  <2>2. writers' \in Int
    OBVIOUS
  <2>3. waiting' \in [Cpu -> SUBSET {"supervisor", "cpu"}]
    OBVIOUS
  <2>4. idle_waiting' \subseteq Cpu
    OBVIOUS
  <2> QED BY <2>1, <2>2, <2>3, <2>4
<1> QED
  BY <1>2, <1>3 DEF Step

\* process.c, os-sim.c: the number of processes; the next one is in the table.
LEMMA CountProcesses ==
    /\ Cardinality(Proc) \in Nat
    /\ \A i \in Nat : i < Cardinality(Proc) <=> i \in Proc
<1>1. Cardinality(Proc) \in Nat
  BY OsAssumption, FS_CardinalityType
<1>2. Proc = 0 .. Cardinality(Proc) - 1
  BY OsAssumption
<1> HIDE DEF Proc
<1> DEFINE count == Cardinality(Proc)
<1>3. Proc = 0 .. count - 1 /\ count \in Nat
  BY <1>1, <1>2
<1> HIDE DEF count
<1>4. \A i \in Nat : i < count <=> i \in Proc
  BY <1>3
<1> QED
  BY <1>1, <1>4 DEF count

LEMMA LibraryStep ==
    ASSUME TypeInv, Step
    PROVE  LibraryOK'
<1> DEFINE R == [pcb : Proc, execution_time : Nat]
<1>1. /\ io_queue \in Seq(R) /\ terminated \in Nat
      /\ created \in 0 .. Cardinality(Proc) /\ clock \in 0 .. CreatPeriod - 1
  BY DEF TypeInv, TypeOK, LibraryOK
<1>2. PcbsOK /\ cpu_current \in [Cpu -> Pointer] /\ n \in Cpu /\ Cardinality(Proc) \in Nat
  BY CountProcesses DEF TypeInv, TypeOK, CpusOK, ThreadsOK
<1>3. (clock + 1) % CreatPeriod \in 0 .. CreatPeriod - 1 /\ CreatPeriod \in Nat \ {0}
  <2>1. clock \in Int /\ CreatPeriod \in Nat \ {0}
    BY <1>1, OsAssumption
  <2> QED BY <2>1
<1>4. CASE EndBurst
  <2>1. cpu_current[n] \in Proc
    BY <1>2, <1>4 DEF EndBurst, Pointer
  <2>2. Program[cpu_current[n]][pc[cpu_current[n]] + 1].time \in Nat
    BY <1>2, <1>4, <2>1, WellFormedProgram DEF EndBurst, Op, PcbsOK
  <2> DEFINE r == [pcb |-> cpu_current[n],
                   execution_time |-> Program[cpu_current[n]][pc[cpu_current[n]] + 1].time]
  <2>3. io_queue' \in Seq(R)
    <3>1. r \in R
      BY <2>1, <2>2
    <3>2. io_queue' = Append(io_queue, r) \/ io_queue' = io_queue
      BY <1>4 DEF EndBurst
    <3> HIDE DEF r, R
    <3> QED BY <1>1, <3>1, <3>2
  <2> QED
    BY <1>1, <1>4, <2>3 DEF EndBurst, LibraryOK
<1>5. CASE SimulateIo
  <2>1. CASE io_queue # <<>>
    <3>1. /\ Head(io_queue) = io_queue[1] /\ 1 \in DOMAIN io_queue
          /\ io_queue[1] \in R
      BY <2>1, HeadRequest
    <3>2. Tail(io_queue) \in Seq(R)
      BY <1>1, <2>1
    <3>3. io_queue[1].execution_time > 0
            => [io_queue EXCEPT ![1].execution_time = @ - 1] \in Seq(R)
      <4> DEFINE r == [io_queue[1] EXCEPT !.execution_time = @ - 1]
      <4>1. ASSUME io_queue[1].execution_time > 0 PROVE r \in R
        BY <3>1, <4>1
      <4>2. ASSUME r \in R PROVE [io_queue EXCEPT ![1] = r] \in Seq(R)
        <5> HIDE DEF r, R
        <5> QED BY <1>1, <3>1, <4>2, ExceptSeq
      <4>3. [io_queue EXCEPT ![1].execution_time = @ - 1] = [io_queue EXCEPT ![1] = r]
        BY <1>1, <3>1
      <4> QED BY <4>1, <4>2, <4>3
    <3> HIDE DEF R
    <3>4. io_queue' \in Seq(R)
      BY <1>1, <1>5, <2>1, <3>1, <3>2, <3>3 DEF SimulateIo
    <3> QED
      BY <1>1, <1>5, <3>4 DEF SimulateIo, LibraryOK, R
  <2>2. CASE io_queue = <<>>
    BY <1>1, <1>5, <2>2 DEF SimulateIo, LibraryOK
  <2> QED BY <2>1, <2>2
<1>6. CASE SimulateCreat
  BY <1>1, <1>3, <1>6 DEF SimulateCreat, EndTick, LibraryOK
<1>7. CASE WakeUpReturned
  <2>1. back = "created" => created < Cardinality(Proc)
    BY <1>1, <1>2, <1>7, CountProcesses DEF WakeUpReturned, TypeInv, WakeInv, WakeSteps, SupervisorAt
  <2> QED
    BY <1>1, <1>2, <1>3, <1>7, <2>1 DEF WakeUpReturned, EndTick, LibraryOK
<1>8. ASSUME NEW c \in Cpu, CountTerminated(c) PROVE LibraryOK'
  BY <1>1, <1>8 DEF CountTerminated, LibraryOK
<1>9. ASSUME UNCHANGED library PROVE LibraryOK'
  BY <1>1, <1>9 DEF LibraryOK, library
<1>10. CASE Supervisor \/ SpuriousWakeUp
  <2>1. \/ EndBurst \/ SimulateIo \/ SimulateCreat \/ WakeUpReturned \/ UNCHANGED library
    BY <1>10 DEF Supervisor, Tick, WakeUp, SpuriousWakeUp, Lock, PrintGanttLine, RunBurst,
       NothingToRun, SchedulerHasRun, WakeUpMark, WakeUpPush, WakeUpScan, ForcePreempt,
       Preempted, WakeUpSignal
  <2> QED BY <1>4, <1>5, <1>6, <1>7, <1>9, <2>1
<1>11. ASSUME NEW c \in Cpu, CpuThread(c) PROVE LibraryOK'
  <2>1. CountTerminated(c) \/ UNCHANGED library
    BY <1>11 DEF CpuThread, Top, Dispatch, Mark, Requeue, Idle, Pop, Select, Switch, Relock, Store
  <2> QED BY <1>8, <1>9, <2>1
<1> QED
  BY <1>10, <1>11 DEF Step

LEMMA LeastNumber ==
    ASSUME NEW S \in SUBSET Nat, S # {}
    PROVE  \E m \in S : \A j \in S : m <= j
<1> DEFINE below == {ss \in Nat \X Nat : ss[1] < ss[2]}
<1>1. IsWellFoundedOn(below, Nat)
  BY NatLessThanWellFounded, Zenon DEF OpToRel
<1>2. \A i, j \in Nat : i < j => <<i, j>> \in below
  OBVIOUS
<1> HIDE DEF below
<1>3. PICK m \in S : \A j \in S : <<j, m>> \notin below
  BY <1>1, WFMin
<1>4. \A j \in S : j \in Nat /\ m \in Nat /\ ~(j < m)
  BY <1>2, <1>3
<1> QED
  BY <1>4

\* student.c, wake_up: when every CPU has a process, one of them has the least
\* time remaining, and of those the scan finds the first.
LEMMA ShortestExists ==
    ASSUME TypeInv, ~SomeCpuIdle, ~ReadsWild
    PROVE  /\ ShortestCpu \in Cpu
           /\ \A c \in Cpu : current[c] \in Proc
<1> DEFINE time(c) == time_remaining[current[c]]
           least(c) == \A d \in Cpu : time(c) <= time(d)
<1>1. \A c \in Cpu : current[c] \in Proc
  <2>1. \A c \in Cpu : current[c] \in Proc \/ current[c] = WILD
    BY DEF SomeCpuIdle, TypeInv, TypeOK, StudentOK, Pointer
  <2>2. \A c \in Cpu : 0 .. c \subseteq Cpu
    BY OsAssumption DEF Cpu
  <2> QED BY <2>1, <2>2 DEF ReadsWild, SomeCpuIdle
<1>2. \A c \in Cpu : time(c) \in Nat
  BY <1>1 DEF TypeInv, TypeOK, PcbsOK
<1>3. \E c \in Cpu : least(c)
  <2> DEFINE S == {time(c) : c \in Cpu}
  <2>1. S \in SUBSET Nat /\ S # {}
    BY <1>2 DEF TypeInv, TypeOK, ThreadsOK
  <2>2. PICK m \in S : \A j \in S : m <= j
    <3> HIDE DEF S
    <3> QED BY <2>1, LeastNumber
  <2> QED BY <2>2
<1>4. \E c \in Cpu : least(c) /\ \A d \in 0 .. c - 1 : ~least(d)
  <2> DEFINE S == {c \in Cpu : least(c)}
  <2>1. S \in SUBSET Nat /\ S # {}
    BY <1>3 DEF Cpu
  <2>2. PICK c \in S : \A d \in S : c <= d
    <3> HIDE DEF S
    <3> QED BY <2>1, LeastNumber
  <2>3. \A d \in 0 .. c - 1 : d \in Cpu /\ ~(c <= d)
    BY OsAssumption DEF Cpu
  <2> QED BY <2>2, <2>3
<1>5. \E c \in Cpu : least(c) /\ \A d \in 0 .. c - 1 : time(c) < time(d)
  <2>1. PICK c \in Cpu : least(c) /\ \A d \in 0 .. c - 1 : ~least(d)
    BY <1>4
  <2>2. ASSUME NEW d \in 0 .. c - 1 PROVE time(c) < time(d)
    <3>1. d \in Cpu
      BY OsAssumption DEF Cpu
    <3>2. PICK e \in Cpu : ~(time(d) <= time(e))
      BY <2>1
    <3>3. time(c) <= time(e) /\ time(c) \in Nat /\ time(d) \in Nat /\ time(e) \in Nat
      BY <1>2, <2>1, <3>1
    <3> HIDE DEF time
    <3> QED BY <3>2, <3>3
  <2> QED BY <2>1, <2>2
<1> QED
  BY <1>1, <1>5 DEF ShortestCpu

LEMMA ThreadsStep ==
    ASSUME TypeInv, Step
    PROVE  ThreadsOK'
<1>1. ThreadsOK /\ StudentOK /\ CpusOK /\ LibraryOK /\ PcbsOK
  BY DEF TypeInv, TypeOK
<1>2. /\ sup \in SupSteps /\ back \in {"creat", "created"} /\ n \in Cpu /\ woken \in Pointer
      /\ cpu \in [Cpu -> CpuSteps] /\ event \in [Cpu -> CpuStates]
      /\ ready_process \in [Cpu -> Pointer] /\ preemption_time \in [Cpu -> Int]
  BY <1>1 DEF ThreadsOK
<1>3. CASE Supervisor \/ SpuriousWakeUp
  <2>1. UNCHANGED <<cpu, event, ready_process, preemption_time>>
    BY <1>3 DEF Supervisor, Tick, WakeUp, SpuriousWakeUp, Lock, PrintGanttLine, RunBurst, EndBurst,
       NothingToRun, SchedulerHasRun, SimulateIo, SimulateCreat, WakeUpReturned, WakeUpMark,
       WakeUpPush, WakeUpScan, ForcePreempt, Preempted, WakeUpSignal, threads
  <2>2. sup' \in SupSteps /\ back' \in {"creat", "created"}
    BY <1>2, <1>3 DEF Supervisor, Tick, WakeUp, SpuriousWakeUp, Lock, PrintGanttLine, RunBurst,
       EndBurst, NothingToRun, SchedulerHasRun, SimulateIo, SimulateCreat, WakeUpReturned,
       WakeUpMark, WakeUpPush, WakeUpScan, ForcePreempt, Preempted, WakeUpSignal, threads, NextCpu,
       CallWakeUp, EndTick, SupSteps
  <2>3. n' \in Cpu
    <3>1. CASE WakeUpScan
      BY <1>2, <3>1, ShortestExists DEF WakeUpScan
    <3>2. /\ 0 \in Cpu /\ (n # CpuCount - 1 => n + 1 \in Cpu)
      BY <1>2, OsAssumption DEF Cpu
    <3>3. CASE ~WakeUpScan
      <4>1. n' = n \/ n' = 0 \/ (n' = n + 1 /\ n # CpuCount - 1)
        BY <1>3, <3>3, Zenon DEF Supervisor, Tick, WakeUp, SpuriousWakeUp, Lock, PrintGanttLine, RunBurst,
          EndBurst, NothingToRun, SchedulerHasRun, SimulateIo, SimulateCreat, WakeUpReturned,
          WakeUpMark, WakeUpPush, ForcePreempt, Preempted, WakeUpSignal, threads, NextCpu
      <4> QED BY <1>2, <3>2, <4>1
    <3> QED BY <3>1, <3>3
  <2>4. woken' \in Pointer
    <3>1. CASE SimulateIo
      BY <1>2, <3>1, HeadRequest DEF SimulateIo, CallWakeUp, Pointer
    <3>2. CASE SimulateCreat
      <4>1. created \in Nat
        BY <1>1, CountProcesses DEF LibraryOK
      <4> QED
        BY <1>2, <3>2, <4>1, CountProcesses DEF SimulateCreat, TimeToCreate, CallWakeUp, Pointer
    <3>3. CASE ~SimulateIo /\ ~SimulateCreat
      BY <1>2, <1>3, <3>3 DEF Supervisor, Tick, WakeUp, SpuriousWakeUp, Lock, PrintGanttLine,
          RunBurst, EndBurst, NothingToRun, SchedulerHasRun, WakeUpReturned, WakeUpMark,
          WakeUpPush, WakeUpScan, ForcePreempt, Preempted, WakeUpSignal, threads
    <3> QED BY <3>1, <3>2, <3>3
  <2> QED
    BY <1>2, <2>1, <2>2, <2>3, <2>4 DEF ThreadsOK
<1>4. ASSUME NEW c \in Cpu, CpuThread(c) PROVE ThreadsOK'
  <2>1. UNCHANGED <<sup, back, n, woken>>
    BY <1>4 DEF CpuThread, Top, Dispatch, CountTerminated, Mark, Requeue, Idle, Pop, Select,
      Switch, Relock, Store
  <2>2. cpu' \in [Cpu -> CpuSteps]
    BY <1>2, <1>4 DEF CpuThread, Top, Dispatch, CountTerminated, Mark, Requeue, Idle, Pop,
      Select, Switch, Relock, Store, Goto, CpuSteps
  <2>3. event' \in [Cpu -> CpuStates]
    BY <1>1, <1>2, <1>4 DEF CpusOK, CpuThread, Top, Dispatch, CountTerminated, Mark, Requeue, Idle,
      Pop, Select, Switch, Relock, Store, CpuStates
  <2>4. ready_process' \in [Cpu -> Pointer]
    <3>1. CASE Pop(c)
      <4>1. First(ready_queue, NULL) \in Pointer
        BY <1>1, TypedPop DEF StudentOK
      <4> QED
        BY <1>2, <3>1, <4>1 DEF Pop
    <3>2. CASE ~Pop(c)
      BY <1>2, <1>4, <3>2 DEF CpuThread, Top, Dispatch, CountTerminated, Mark, Requeue, Idle,
        Select, Switch, Relock, Store
    <3> QED BY <3>1, <3>2
  <2>5. preemption_time' \in [Cpu -> Int]
    <3>1. CASE Select(c)
      <4>1. ready_process[c] = NULL \/ time_remaining[ready_process[c]] \in Int
        BY <1>1, <1>2, <1>4 DEF PcbsOK, Pointer
      <4>2. Slice(ready_process[c]) \in Int
        BY <4>1, OsAssumption DEF Slice
      <4> QED
        BY <1>2, <3>1, <4>2 DEF Select
    <3>2. CASE ~Select(c)
      BY <1>2, <1>4, <3>2 DEF CpuThread, Top, Dispatch, CountTerminated, Mark, Requeue, Idle,
        Pop, Switch, Relock, Store
    <3> QED BY <3>1, <3>2
  <2> QED
    BY <1>2, <2>1, <2>2, <2>3, <2>4, <2>5 DEF ThreadsOK
<1> QED
  BY <1>3, <1>4 DEF Step

LEMMA WakeStep ==
    ASSUME TypeInv, Step
    PROVE  WakeInv'
<1>1. WakeInv /\ LibraryOK
  BY DEF TypeInv, TypeOK
<1> USE DEF WakeInv, WakeSteps, SupervisorAt
<1>2. CASE SimulateIo
  BY <1>2, HeadRequest DEF SimulateIo, CallWakeUp
<1>3. CASE SimulateCreat
  <2>1. TimeToCreate => created \in Proc
    BY <1>1, CountProcesses DEF TimeToCreate, LibraryOK
  <2> QED
    BY <1>3, <2>1 DEF SimulateCreat, CallWakeUp, EndTick
<1>4. CASE WakeUpReturned
  BY <1>4 DEF WakeUpReturned, EndTick
<1>5. CASE Supervisor \/ SpuriousWakeUp
  BY <1>1, <1>2, <1>3, <1>4, <1>5
     DEF Supervisor, Tick, WakeUp, SpuriousWakeUp, Lock, PrintGanttLine, RunBurst, EndBurst,
       NothingToRun, SchedulerHasRun, WakeUpMark, WakeUpPush, WakeUpScan, ForcePreempt, Preempted,
       WakeUpSignal, NextCpu, library, threads
<1>6. ASSUME NEW c \in Cpu, CpuThread(c) PROVE WakeInv'
  <2>1. UNCHANGED <<sup, back, woken, created>>
    BY <1>6 DEF CpuThread, Top, Dispatch, CountTerminated, Mark, Requeue, Idle, Pop, Select,
      Switch, Relock, Store, library
  <2> QED BY <1>1, <2>1
<1> QED
  BY <1>5, <1>6 DEF Step

\* The operation of a process after the step.
NextOp(p) == Program[p][pc'[p]].type

\* os-sim.c: where the operation of a process changes.
LEMMA WhoAdvances ==
    ASSUME Step
    PROVE  EndBurst \/ SimulateIo \/ UNCHANGED <<pc, io_queue>>
<1>1. CASE Supervisor \/ SpuriousWakeUp
  BY <1>1 DEF Supervisor, Tick, WakeUp, SpuriousWakeUp, Lock, PrintGanttLine, RunBurst,
       NothingToRun, SchedulerHasRun, SimulateCreat, WakeUpReturned, WakeUpMark, WakeUpPush,
       WakeUpScan, ForcePreempt, Preempted, WakeUpSignal, library, pcbs
<1>2. ASSUME NEW c \in Cpu, CpuThread(c) PROVE UNCHANGED <<pc, io_queue>>
  BY <1>2 DEF CpuThread, Top, Dispatch, CountTerminated, Mark, Requeue, Idle, Pop, Select,
      Switch, Relock, Store, library, pcbs
<1> QED
  BY <1>1, <1>2 DEF Step

\* os-sim.c, simulate_process: the burst of a process ends, and the next operation
\* is OP_IO, for which it is queued, or OP_TERMINATE.
LEMMA BurstEnds ==
    ASSUME TypeInv, EndBurst
    PROVE  LET p == cpu_current[n]
           IN  /\ p \in Proc /\ Op(p) = "OP_CPU"
               /\ \A q \in Proc \ {p} : NextOp(q) = Op(q)
               /\ \/ NextOp(p) = "OP_IO" /\ cpu_state' = [cpu_state EXCEPT ![n] = "CPU_YIELD"]
                     /\ \E time \in Nat :
                           io_queue' = Append(io_queue, [pcb |-> p, execution_time |-> time])
                  \/ NextOp(p) = "OP_TERMINATE" /\ cpu_state' = [cpu_state EXCEPT ![n] = "CPU_TERMINATE"]
                     /\ UNCHANGED io_queue
<1> DEFINE p == cpu_current[n]
           next == Program[p][pc[p] + 1]
<1>1. p \in Proc /\ Op(p) = "OP_CPU" /\ Advance(p)
  BY DEF EndBurst, TypeInv, TypeOK, CpusOK, ThreadsOK, Pointer
<1>2. pc \in [Proc -> Nat] /\ pc[p] \in 1 .. Len(Program[p])
  BY <1>1 DEF TypeInv, TypeOK, PcbsOK
<1>3. pc' = [pc EXCEPT ![p] = pc[p] + 1]
  BY <1>1 DEF Advance
<1>4. NextOp(p) = next.type /\ \A q \in Proc \ {p} : NextOp(q) = Op(q)
  BY <1>1, <1>2, <1>3 DEF Op, NextOp
<1>5. next.time \in Nat
  BY <1>1, <1>2, WellFormedProgram DEF Op, NextOp
<1>6. \/ /\ next.type = "OP_IO" /\ cpu_state' = [cpu_state EXCEPT ![n] = "CPU_YIELD"]
         /\ io_queue' = Append(io_queue, [pcb |-> p, execution_time |-> next.time])
      \/ /\ next.type = "OP_TERMINATE" /\ cpu_state' = [cpu_state EXCEPT ![n] = "CPU_TERMINATE"]
         /\ UNCHANGED io_queue
  BY DEF EndBurst, Raise
<1> HIDE DEF next
<1> QED
  BY <1>1, <1>4, <1>5, <1>6

\* os-sim.c, simulate_io: the request at the head makes progress, or its process
\* goes on to its next burst and is woken up.
LEMMA IoProgress ==
    ASSUME TypeInv, SimulateIo
    PROVE  \/ io_queue = <<>> /\ sup' = "creat" /\ UNCHANGED <<io_queue, pc, woken>>
           \/ /\ io_queue # <<>> /\ sup' = "creat" /\ UNCHANGED <<pc, woken>>
              /\ DOMAIN io_queue' = DOMAIN io_queue
              /\ \A k \in DOMAIN io_queue : io_queue'[k].pcb = io_queue[k].pcb
           \/ /\ io_queue # <<>> /\ sup' = "wake" /\ io_queue' = Tail(io_queue)
              /\ woken' = io_queue[1].pcb /\ woken' \in Proc /\ Op(woken') = "OP_IO"
              /\ NextOp(woken') = "OP_CPU"
              /\ \A q \in Proc \ {woken'} : NextOp(q) = Op(q)
<1> DEFINE R == [pcb : Proc, execution_time : Nat]
<1>1. io_queue \in Seq(R) /\ pc \in [Proc -> Nat]
  BY DEF TypeInv, TypeOK, LibraryOK, PcbsOK
<1>2. CASE io_queue = <<>>
  BY <1>2 DEF SimulateIo
<1>3. CASE io_queue # <<>> /\ Head(io_queue).execution_time > 0
  <2>1. sup' = "creat" /\ UNCHANGED <<pc, woken>>
        /\ io_queue' = [io_queue EXCEPT ![1].execution_time = @ - 1]
    BY <1>3, HeadRequest DEF SimulateIo
  <2>2. DOMAIN io_queue' = DOMAIN io_queue
    BY <1>1, <2>1
  <2>3. io_queue[1] \in R /\ 1 \in DOMAIN io_queue
    BY <1>3, HeadRequest
  <2>4. io_queue'[1] = [io_queue[1] EXCEPT !.execution_time = @ - 1]
        /\ \A k \in DOMAIN io_queue : k # 1 => io_queue'[k] = io_queue[k]
    BY <1>1, <2>1, <2>3
  <2>5. io_queue'[1].pcb = io_queue[1].pcb
    BY <2>3, <2>4
  <2> QED
    BY <1>3, <2>1, <2>2, <2>4, <2>5
<1>4. CASE io_queue # <<>> /\ Head(io_queue).execution_time = 0
  <2> DEFINE p == Head(io_queue).pcb
  <2>1. p \in Proc /\ Op(p) = "OP_IO" /\ p = io_queue[1].pcb
    BY <1>4, HeadRequest
  <2>2. Advance(p) /\ io_queue' = Tail(io_queue) /\ woken' = p /\ sup' = "wake"
    BY <1>4 DEF SimulateIo, CallWakeUp
  <2>3. pc' = [pc EXCEPT ![p] = pc[p] + 1]
    BY <2>2 DEF Advance
  <2> HIDE DEF p
  <2>4. pc[p] \in 1 .. Len(Program[p])
    BY <2>1 DEF TypeInv, TypeOK, PcbsOK
  <2>5. NextOp(p) = "OP_CPU" /\ \A q \in Proc \ {p} : NextOp(q) = Op(q)
    BY <1>1, <2>1, <2>3, <2>4, WellFormedProgram DEF Op, NextOp
  <2> QED
    BY <1>4, <2>1, <2>2, <2>5
<1> QED
  BY <1>2, <1>3, <1>4 DEF SimulateIo

LEMMA IoStep ==
    ASSUME TypeInv, Step
    PROVE  IoInv'
<1> DEFINE R == [pcb : Proc, execution_time : Nat]
<1>1. IoInv /\ io_queue \in Seq(R)
  BY DEF TypeInv, TypeOK, LibraryOK
<1>2. \A k \in DOMAIN io_queue : io_queue[k].pcb \in Proc
  <2>1. \A r \in R : r.pcb \in Proc
    OBVIOUS
  <2> HIDE DEF R
  <2> QED BY <1>1, <2>1
<1>3. CASE UNCHANGED <<pc, io_queue>>
  BY <1>1, <1>3 DEF IoInv, Op, NextOp
<1>4. CASE EndBurst
  <2> DEFINE p == cpu_current[n]
  <2>1. /\ p \in Proc /\ Op(p) = "OP_CPU" /\ \A q \in Proc \ {p} : NextOp(q) = Op(q)
        /\ \/ NextOp(p) = "OP_IO" /\ \E time \in Nat :
                  io_queue' = Append(io_queue, [pcb |-> p, execution_time |-> time])
           \/ NextOp(p) = "OP_TERMINATE" /\ UNCHANGED io_queue
    BY <1>4, BurstEnds
  <2> HIDE DEF p
  <2>2. \A k \in DOMAIN io_queue : io_queue[k].pcb # p /\ NextOp(io_queue[k].pcb) = "OP_IO"
    BY <1>1, <1>2, <2>1 DEF IoInv
  <2>3. CASE UNCHANGED io_queue
    BY <1>1, <2>2, <2>3 DEF IoInv, Op, NextOp
  <2>4. ASSUME NEW time \in Nat, NextOp(p) = "OP_IO",
               io_queue' = Append(io_queue, [pcb |-> p, execution_time |-> time])
        PROVE  IoInv'
    <3> DEFINE r == [pcb |-> p, execution_time |-> time]
    <3>1. r \in R /\ r.pcb = p
      BY <2>1, <2>4
    <3> HIDE DEF r, R
    <3>2. io_queue' = Append(io_queue, r)
      BY <2>4 DEF r
    <3>3. /\ DOMAIN io_queue' = DOMAIN io_queue \cup {Len(io_queue) + 1}
          /\ io_queue'[Len(io_queue) + 1] = r
          /\ \A k \in DOMAIN io_queue : io_queue'[k] = io_queue[k]
      BY <1>1, <3>1, <3>2
    <3> QED
      BY <1>1, <2>2, <2>4, <3>1, <3>3 DEF IoInv, Op, NextOp
  <2> QED BY <2>1, <2>3, <2>4
<1>5. CASE SimulateIo
  <2>1. CASE io_queue' = io_queue /\ UNCHANGED pc
    BY <1>3, <2>1
  <2>2. CASE /\ UNCHANGED pc /\ DOMAIN io_queue' = DOMAIN io_queue
             /\ \A k \in DOMAIN io_queue : io_queue'[k].pcb = io_queue[k].pcb
    BY <1>1, <2>2 DEF IoInv, Op, NextOp
  <2>3. CASE /\ io_queue # <<>> /\ io_queue' = Tail(io_queue) /\ woken' = io_queue[1].pcb
             /\ \A q \in Proc \ {woken'} : NextOp(q) = Op(q)
    <3>1. /\ \A k \in DOMAIN io_queue' : k + 1 \in DOMAIN io_queue /\ k + 1 # 1
          /\ \A k \in DOMAIN io_queue' : io_queue'[k] = io_queue[k + 1]
          /\ 1 \in DOMAIN io_queue
          /\ \A j, k \in DOMAIN io_queue' : j + 1 = k + 1 => j = k
      <4> HIDE DEF R
      <4> QED BY <1>1, <2>3
    <3>2. \A k \in DOMAIN io_queue' : NextOp(io_queue'[k].pcb) = "OP_IO"
      <4> TAKE k \in DOMAIN io_queue'
      <4>1. /\ io_queue[k + 1].pcb # woken' /\ io_queue[k + 1].pcb \in Proc
            /\ Op(io_queue[k + 1].pcb) = "OP_IO"
        BY <1>1, <1>2, <2>3, <3>1 DEF IoInv
      <4> QED BY <2>3, <3>1, <4>1
    <3> QED BY <1>1, <3>1, <3>2 DEF IoInv, Op, NextOp
  <2> QED BY <1>5, <2>1, <2>2, <2>3, IoProgress
<1> QED
  BY <1>3, <1>4, <1>5, WhoAdvances

LEMMA TypeStep ==
    ASSUME TypeInv, [Next]_vars
    PROVE  TypeInv'
<1>1. KnowInv' /\ QueueInv'
  BY KnowStep, QueueStep DEF TypeInv
<1>2. CASE Step
  <2>1. mode' \in Modes /\ spurious' \in 0 .. Spurious[mode']
    <3>1. Spurious[mode] \in Nat
      BY OsAssumption DEF TypeInv, TypeOK
    <3> QED
      BY <1>2, <3>1 DEF Step, Supervisor, CpuThread, SpuriousWakeUp, TypeInv, TypeOK
  <2> QED
    BY <1>1, <1>2, <2>1, PcbsStep, StudentStep, CpusStep, LibraryStep, LocksStep, ThreadsStep,
       HistoryStep, WakeStep, IoStep DEF TypeInv, TypeOK, Step
<1>3. CASE UNCHANGED vars
  <2>1. TypeOK'
    BY <1>3 DEF vars, pcbs, student, cpus, library, locks, threads, history, TypeInv, TypeOK,
       PcbsOK, StudentOK, CpusOK, LibraryOK, LocksOK, ThreadsOK, HistoryOK
  <2>2. IoInv' /\ WakeInv'
    BY <1>3 DEF vars, pcbs, library, threads, TypeInv, IoInv, Op, NextOp, WakeInv
  <2> QED BY <1>1, <2>1, <2>2 DEF TypeInv
<1> QED
  BY <1>2, <1>3 DEF Next, Terminated, Step

\* TypeInv is an invariant.
LEMMA TypeInvariant == Spec => []TypeInv
BY TypeInit, TypeStep, PTL DEF Spec

\* os-sim.c, student.c: every variable keeps a value of its kind.  In particular a
\* process is moved to its next operation only while it has one, so that the
\* simulator never reads behind the OP_TERMINATE of a program.
THEOREM TypeCorrectness == Spec => []TypeOK
<1>1. TypeInv => TypeOK
  BY DEF TypeInv
<1> QED
  BY <1>1, TypeInvariant, PTL

-----------------------------------------------------------------------------
(* The end of the simulation. *)

\* The processes that have come to their end, and the CPU threads that are still
\* to count one of them.
Finished == {p \in Proc : Over(p)}
Counting == {c \in Cpu : \/ cpu[c] = "count"
                         \/ cpu[c] = "running" /\ cpu_state[c] = "CPU_TERMINATE"}

EndInv ==
    /\ terminated + Cardinality(Counting) <= Cardinality(Finished)
    /\ sup = "done" => AllTerminated

LEMMA SubsetCounts ==
    ASSUME NEW A \in SUBSET Proc
    PROVE  /\ Cardinality(A) \in Nat
           /\ \A B \in SUBSET Proc : A \subseteq B => Cardinality(A) <= Cardinality(B)
           /\ \A p \in Proc \ A : Cardinality(A \cup {p}) = Cardinality(A) + 1
           /\ Cardinality(A) >= Cardinality(Proc) => A = Proc
<1>1. IsFiniteSet(Proc) /\ \A B \in SUBSET Proc : IsFiniteSet(B)
  BY OsAssumption, FS_Subset
<1>2. Cardinality(A) \in Nat /\ Cardinality(Proc) \in Nat
  BY <1>1, FS_CardinalityType
<1>3. ASSUME NEW B \in SUBSET Proc, A \subseteq B PROVE Cardinality(A) <= Cardinality(B)
  BY <1>1, <1>3, FS_Subset
<1>4. ASSUME NEW p \in Proc \ A PROVE Cardinality(A \cup {p}) = Cardinality(A) + 1
  BY <1>1, <1>4, FS_AddElement
<1>5. ASSUME Cardinality(A) >= Cardinality(Proc) PROVE A = Proc
  <2>1. Cardinality(A) = Cardinality(Proc)
    BY <1>2, <1>3, <1>5
  <2> QED BY <1>1, <2>1, FS_Subset
<1> QED
  BY <1>2, <1>3, <1>4, <1>5

\* os-sim.c: a process never leaves its OP_TERMINATE.
LEMMA OverStays ==
    ASSUME TypeInv, Step, NEW p \in Proc, Over(p)
    PROVE  NextOp(p) = "OP_TERMINATE"
<1>1. CASE EndBurst
  BY <1>1, BurstEnds DEF Over
<1>2. CASE SimulateIo
  BY <1>2, IoProgress DEF Over, Op, NextOp
<1>3. CASE UNCHANGED pc
  BY <1>3 DEF Over, Op, NextOp
<1> QED
  BY <1>1, <1>2, <1>3, WhoAdvances

LEMMA FinishedGrows ==
    ASSUME TypeInv, Step
    PROVE  Finished \subseteq Finished'
BY OverStays DEF Finished, Over, Op, NextOp

\* os-sim.c: an event other than CPU_TERMINATE leaves no more to count.
LEMMA RaiseOther ==
    ASSUME TypeInv, NEW ev \in {"CPU_PREEMPT", "CPU_YIELD"}, UNCHANGED cpu,
           cpu_state' = [cpu_state EXCEPT ![n] = ev]
    PROVE  Counting' \subseteq Counting
BY DEF Counting, TypeInv, TypeOK, CpusOK

LEMMA SupervisorCounts ==
    ASSUME TypeInv, Supervisor \/ SpuriousWakeUp, ~EndBurst
    PROVE  Counting' \subseteq Counting /\ UNCHANGED terminated
<1>1. UNCHANGED cpu
  BY SupervisorLeavesRecords
<1>2. ASSUME UNCHANGED cpu_state PROVE Counting' \subseteq Counting
  BY <1>1, <1>2 DEF Counting
<1>3. UNCHANGED cpu_state \/ cpu_state' = [cpu_state EXCEPT ![n] = "CPU_PREEMPT"]
  BY DEF Supervisor, Tick, WakeUp, SpuriousWakeUp, Lock, PrintGanttLine, RunBurst, NothingToRun,
       SchedulerHasRun, SimulateIo, SimulateCreat, WakeUpReturned, WakeUpMark, WakeUpPush,
       WakeUpScan, ForcePreempt, Preempted, WakeUpSignal, Raise, cpus
<1>4. UNCHANGED terminated
  BY DEF Supervisor, Tick, WakeUp, SpuriousWakeUp, Lock, PrintGanttLine, RunBurst, NothingToRun,
       SchedulerHasRun, SimulateIo, SimulateCreat, WakeUpReturned, WakeUpMark, WakeUpPush,
       WakeUpScan, ForcePreempt, Preempted, WakeUpSignal, library
<1> QED
  BY <1>1, <1>2, <1>3, <1>4, RaiseOther

\* os-sim.c: only the step that counts a process takes it off those to count.
LEMMA CpuThreadCounts ==
    ASSUME TypeInv, NEW c \in Cpu, CpuThread(c)
    PROVE  \/ Counting' \subseteq Counting /\ UNCHANGED terminated
           \/ Counting' = Counting \ {c} /\ c \in Counting /\ terminated' = terminated + 1
<1>1. cpu \in [Cpu -> CpuSteps] /\ cpu_state \in [Cpu -> CpuStates]
  BY DEF TypeInv, TypeOK, ThreadsOK, CpusOK
<1> USE <1>1 DEF Counting, CpuAt, Goto
<1>2. CASE Top(c)
  BY <1>2 DEF Top, library
<1>3. CASE Dispatch(c)
  BY <1>3 DEF Dispatch, cpus, library
<1>4. CASE CountTerminated(c)
  BY <1>4 DEF CountTerminated, cpus
<1>5. CASE ~Top(c) /\ ~Dispatch(c) /\ ~CountTerminated(c)
  <2>1. /\ UNCHANGED <<cpu_state, terminated>>
        /\ \E s \in CpuSteps \ {"running", "count"} :
              cpu' = [cpu EXCEPT ![c] = s]
    BY <1>5 DEF CpuThread, Mark, Requeue, Idle, Pop, Select, Switch, Relock, Store, cpus, library,
      CpuSteps
  <2> QED BY <2>1
<1> QED
  BY <1>2, <1>3, <1>4, <1>5

LEMMA EndStep ==
    ASSUME TypeInv, EndInv, [Next]_vars
    PROVE  EndInv'
<1>1. Counting \in SUBSET Cpu /\ Counting' \in SUBSET Cpu /\ n \in Cpu
      /\ Finished \in SUBSET Proc /\ Finished' \in SUBSET Proc /\ terminated \in Nat
  BY DEF Counting, Finished, TypeInv, TypeOK, ThreadsOK, LibraryOK
<1>2. Cardinality(Counting) \in Nat /\ Cardinality(Counting') \in Nat
  BY <1>1, CountCpus
<1>3. Cardinality(Finished) \in Nat /\ Cardinality(Finished') \in Nat
  BY <1>1, SubsetCounts
<1>4. terminated + Cardinality(Counting) <= Cardinality(Finished)
  BY DEF EndInv
<1>5. CASE Step
  <2>1. Cardinality(Finished) <= Cardinality(Finished')
    BY <1>1, <1>5, SubsetCounts, FinishedGrows
  <2>2. terminated' + Cardinality(Counting') <= Cardinality(Finished')
    <3>1. CASE Counting' \subseteq Counting /\ UNCHANGED terminated
      <4>1. Cardinality(Counting') <= Cardinality(Counting)
        BY <1>1, <3>1, CountCpus
      <4> QED BY <1>1, <1>2, <1>3, <1>4, <2>1, <3>1, <4>1
    <3>2. CASE EndBurst
      <4> DEFINE p == cpu_current[n]
      <4>1. UNCHANGED <<cpu, terminated>>
        BY <3>2 DEF EndBurst
      <4>2. CASE NextOp(p) = "OP_IO" /\ cpu_state' = [cpu_state EXCEPT ![n] = "CPU_YIELD"]
        BY <3>1, <4>1, <4>2, RaiseOther
      <4>3. CASE NextOp(p) = "OP_TERMINATE"
                 /\ cpu_state' = [cpu_state EXCEPT ![n] = "CPU_TERMINATE"]
        <5>1. p \in Proc \ Finished /\ p \in Finished'
          BY <3>2, <4>3, BurstEnds DEF Finished, Over, Op, NextOp
        <5>2. Cardinality(Finished \cup {p}) = Cardinality(Finished) + 1
              /\ Finished \cup {p} \in SUBSET Proc
          BY <1>1, <5>1, SubsetCounts
        <5>3. Finished \cup {p} \subseteq Finished'
          BY <1>5, <5>1, FinishedGrows
        <5>4. Cardinality(Finished \cup {p}) <= Cardinality(Finished')
          BY <1>1, <5>2, <5>3, SubsetCounts
        <5>5. Counting' \subseteq Counting \cup {n} /\ Counting \cup {n} \in SUBSET Cpu
          BY <1>1, <4>1, <4>3 DEF Counting, TypeInv, TypeOK, CpusOK
        <5>6. Cardinality(Counting') <= Cardinality(Counting \cup {n})
              /\ Cardinality(Counting \cup {n}) \in Nat
          BY <1>1, <5>5, CountCpus
        <5>7. Cardinality(Counting \cup {n}) <= Cardinality(Counting) + 1
          <6>1. CASE n \in Counting
            <7>1. Counting \cup {n} = Counting
              BY <6>1
            <7> QED BY <1>2, <7>1
          <6>2. CASE n \notin Counting
            BY <1>1, <1>2, <6>2, CountCpus
          <6> QED BY <6>1, <6>2
        <5> HIDE DEF p
        <5> QED
          BY <1>1, <1>2, <1>3, <1>4, <4>1, <5>2, <5>4, <5>6, <5>7
      <4> QED BY <3>2, <4>2, <4>3, BurstEnds
    <3>3. ASSUME NEW c \in Cpu, Counting' = Counting \ {c}, c \in Counting,
                 terminated' = terminated + 1
          PROVE  terminated' + Cardinality(Counting') <= Cardinality(Finished')
      <4>1. Cardinality(Counting') = Cardinality(Counting) - 1
        BY <1>1, <3>3, CountCpus
      <4> QED BY <1>1, <1>2, <1>3, <1>4, <2>1, <3>3, <4>1
    <3> QED BY <1>5, <3>1, <3>2, <3>3, SupervisorCounts, CpuThreadCounts DEF Step
  <2>3. sup' = "done" => AllTerminated'
    <3>1. sup' = "done" => Lock
      BY <1>5 DEF Step, Exited, Supervisor, CpuThread, Tick, WakeUp, SpuriousWakeUp,
       PrintGanttLine, RunBurst, EndBurst, NothingToRun, SchedulerHasRun, SimulateIo,
       SimulateCreat, WakeUpReturned, WakeUpMark, WakeUpPush, WakeUpScan, ForcePreempt, Preempted,
       WakeUpSignal, CallWakeUp, EndTick, NextCpu, Top, Dispatch, CountTerminated, Mark, Requeue,
       Idle, Pop, Select, Switch, Relock, Store, threads
    <3>2. Lock /\ sup' = "done" => AllTerminated'
      BY DEF Lock, AllTerminated, library
    <3> QED BY <3>1, <3>2
  <2> QED BY <2>2, <2>3 DEF EndInv
<1>6. CASE UNCHANGED vars
  BY <1>4, <1>6 DEF vars, pcbs, cpus, library, threads, EndInv, Counting, Finished, Over, Op,
    AllTerminated
<1> QED
  BY <1>5, <1>6 DEF Next, Terminated, Step

\* os-sim.c, the loop of the supervisor: it exits only when every process has come
\* to its end, whatever events were lost: no process is counted twice.
THEOREM EndsAfterAllTheorem == Spec => []EndsAfterAll
<1>1. Init => EndInv
  <2> SUFFICES ASSUME Init PROVE EndInv
    OBVIOUS
  <2>1. Counting = {} /\ Finished \in SUBSET Proc
    BY DEF Init, Counting, Finished
  <2>2. Cardinality(Counting) = 0 /\ Cardinality(Finished) \in Nat
    BY <2>1, SubsetCounts, FS_EmptySet
  <2> QED BY <2>2 DEF Init, EndInv
<1>2. TypeInv /\ EndInv /\ [Next]_vars => EndInv'
  BY EndStep
<1>3. TypeInv /\ EndInv => EndsAfterAll
  <2> SUFFICES ASSUME TypeInv, EndInv, sup = "done" PROVE \A p \in Proc : Over(p)
    BY DEF EndsAfterAll
  <2>1. Finished \in SUBSET Proc /\ Counting \in SUBSET Cpu
    BY DEF Finished, Counting
  <2>2. /\ Cardinality(Finished) \in Nat /\ Cardinality(Counting) \in Nat
        /\ terminated \in Nat /\ Cardinality(Proc) \in Nat
    BY <2>1, SubsetCounts, CountCpus, CountProcesses DEF TypeInv, TypeOK, LibraryOK
  <2>3. Cardinality(Finished) >= Cardinality(Proc)
    BY <2>2 DEF EndInv, AllTerminated
  <2>4. Finished = Proc
    BY <2>1, <2>3, SubsetCounts
  <2> QED BY <2>4 DEF Finished
<1> QED
  BY <1>1, <1>2, <1>3, TypeInvariant, PTL DEF Spec

-----------------------------------------------------------------------------
(* What is in the ready queue. *)

\* The sequence new is old with p in place k.
Inserts(old, new, k, p) ==
    /\ k \in 1 .. Len(old) + 1 /\ Len(new) = Len(old) + 1
    /\ \A i \in 1 .. Len(old) + 1 :
          new[i] = IF i < k THEN old[i] ELSE IF i = k THEN p ELSE old[i - 1]

Holding(list) == {list[k] : k \in DOMAIN list}
Distinct(list) == \A j, k \in DOMAIN list : list[j] = list[k] => j = k

LEMMA InsertedAt ==
    ASSUME NEW S, NEW list \in Seq(S), NEW k \in 1 .. Len(list) + 1, NEW p \in S
    PROVE  InsertAt(list, k, p) \in Seq(S) /\ Inserts(list, InsertAt(list, k, p), k, p)
<1> DEFINE front == SubSeq(list, 1, k - 1)
           back1 == SubSeq(list, k, Len(list))
           mid   == front \o <<p>>
<1>1. Len(list) \in Nat /\ k \in Nat /\ k >= 1 /\ k <= Len(list) + 1
  OBVIOUS
<1>2. front \in Seq(S) /\ Len(front) = k - 1 /\ \A i \in 1 .. k - 1 : front[i] = list[i]
  BY <1>1
<1>3. /\ back1 \in Seq(S) /\ Len(back1) = Len(list) - k + 1
      /\ \A i \in 1 .. Len(list) - k + 1 : back1[i] = list[k + i - 1]
  BY <1>1
<1>4. <<p>> \in Seq(S) /\ Len(<<p>>) = 1 /\ <<p>>[1] = p
  OBVIOUS
<1> HIDE DEF front, back1
<1>5. /\ mid \in Seq(S) /\ Len(mid) = k /\ mid[k] = p
      /\ \A i \in 1 .. k - 1 : mid[i] = list[i]
  BY <1>1, <1>2, <1>4
<1> HIDE DEF mid
<1>6. /\ mid \o back1 \in Seq(S) /\ Len(mid \o back1) = Len(list) + 1
      /\ \A i \in 1 .. Len(list) + 1 :
            (mid \o back1)[i] = IF i <= k THEN mid[i] ELSE back1[i - k]
  <2>1. Len(mid) + Len(back1) = Len(list) + 1
    BY <1>1, <1>3, <1>5
  <2>2. /\ mid \o back1 \in Seq(S) /\ Len(mid \o back1) = Len(mid) + Len(back1)
        /\ \A i \in 1 .. Len(mid) + Len(back1) :
              (mid \o back1)[i] = IF i <= Len(mid) THEN mid[i] ELSE back1[i - Len(mid)]
    BY <1>3, <1>5, ConcatProperties
  <2> QED BY <1>5, <2>1, <2>2
<1>7. \A i \in 1 .. Len(list) + 1 : i > k =>
         /\ i - k \in 1 .. Len(list) - k + 1
         /\ k + (i - k) - 1 = i - 1
  BY <1>1
<1>8. \A i \in 1 .. Len(list) + 1 : i > k => back1[i - k] = list[i - 1]
  BY <1>3, <1>7
<1>9. InsertAt(list, k, p) = mid \o back1
  BY DEF InsertAt, mid, front, back1
<1> QED
  BY <1>1, <1>5, <1>6, <1>8, <1>9 DEF Inserts

LEMMA InsertsHolds ==
    ASSUME NEW S, NEW old \in Seq(S), NEW new \in Seq(S), NEW k, NEW p, Inserts(old, new, k, p)
    PROVE  /\ Holding(new) = Holding(old) \cup {p}
           /\ Distinct(old) /\ p \notin Holding(old) => Distinct(new)
<1>1. /\ Len(old) \in Nat /\ k \in 1 .. Len(old) + 1 /\ DOMAIN old = 1 .. Len(old)
      /\ DOMAIN new = 1 .. Len(old) + 1
      /\ \A i \in 1 .. Len(old) + 1 :
            new[i] = IF i < k THEN old[i] ELSE IF i = k THEN p ELSE old[i - 1]
  BY DEF Inserts
<1>2. \A i \in DOMAIN new :
       \/ i = k /\ new[i] = p
       \/ i < k /\ i \in DOMAIN old /\ new[i] = old[i]
       \/ i > k /\ i - 1 \in DOMAIN old /\ new[i] = old[i - 1]
  <2> TAKE i \in DOMAIN new
  <2>1. /\ i \in 1 .. Len(old) + 1 /\ k \in 1 .. Len(old) + 1 /\ Len(old) \in Nat
        /\ new[i] = IF i < k THEN old[i] ELSE IF i = k THEN p ELSE old[i - 1]
    BY <1>1
  <2>2. i < k => i \in 1 .. Len(old)
    BY <2>1
  <2>3. i > k => i - 1 \in 1 .. Len(old)
    BY <2>1
  <2>4. i < k \/ i = k \/ i > k
    BY <2>1
  <2> QED BY <1>1, <2>1, <2>2, <2>3, <2>4
<1>3. \A i \in DOMAIN old :
       \/ i < k /\ i \in DOMAIN new /\ new[i] = old[i]
       \/ i >= k /\ i + 1 \in DOMAIN new /\ new[i + 1] = old[i]
  <2> TAKE i \in DOMAIN old
  <2>1. /\ i \in 1 .. Len(old) /\ k \in 1 .. Len(old) + 1 /\ Len(old) \in Nat
    BY <1>1
  <2>2. i \in 1 .. Len(old) + 1 /\ i + 1 \in 1 .. Len(old) + 1 /\ i + 1 - 1 = i
    BY <2>1
  <2>3. CASE i < k
    <3>1. new[i] = old[i]
      BY <1>1, <2>2, <2>3
    <3> QED BY <1>1, <2>2, <2>3, <3>1
  <2>4. CASE i >= k
    <3>1. ~(i + 1 < k) /\ i + 1 # k
      BY <2>1, <2>4
    <3>2. new[i + 1] = old[i]
      BY <1>1, <2>2, <3>1
    <3> QED BY <1>1, <2>2, <2>4, <3>2
  <2> QED BY <2>1, <2>3, <2>4
<1>4. Holding(new) = Holding(old) \cup {p}
  <2>1. k \in DOMAIN new /\ new[k] = p
    BY <1>1
  <2> QED BY <1>2, <1>3, <2>1 DEF Holding
<1>5. ASSUME Distinct(old), p \notin Holding(old) PROVE Distinct(new)
  <2>1. \A i \in DOMAIN old : old[i] # p
    BY <1>5 DEF Holding
  <2> SUFFICES ASSUME NEW i \in DOMAIN new, NEW j \in DOMAIN new, new[i] = new[j] PROVE i = j
    BY DEF Distinct
  <2>2. i \in Nat /\ j \in Nat /\ k \in Nat
    BY <1>1
  <2>3. \A a, b \in DOMAIN old : old[a] = old[b] => a = b
    BY <1>5 DEF Distinct
  <2> HIDE DEF Distinct
  <2>4. CASE i = k
    BY <1>2, <2>1, <2>4
  <2>5. CASE i < k
    BY <1>2, <2>1, <2>2, <2>3, <2>5
  <2>6. CASE i > k
    BY <1>2, <2>1, <2>2, <2>3, <2>6
  <2> QED BY <2>2, <2>4, <2>5, <2>6
<1> QED
  BY <1>4, <1>5

LEMMA PushInserts ==
    ASSUME NEW q \in [list : Seq(Proc), tail : Nat], TailIsLast(q), NEW p \in Proc
    PROVE  /\ queue_push(q, p).list \in Seq(Proc)
           /\ Inserts(q.list, queue_push(q, p).list, Len(q.list) + 1, p)
<1>1. q.list \in Seq(Proc)
  OBVIOUS
<1>2. queue_push(q, p).list = Append(q.list, p)
  <2>1. CASE q.list = <<>>
    <3>1. Append(q.list, p) = <<p>>
      BY <2>1
    <3> QED BY <2>1, <3>1 DEF queue_push
  <2>2. CASE q.list # <<>>
    <3>1. q.tail = Len(q.list) /\ q.tail # 0
      BY <1>1, <2>2 DEF TailIsLast
    <3>2. SubSeq(q.list, 1, q.tail) = q.list
      BY <1>1, <3>1
    <3> QED BY <2>2, <3>1, <3>2 DEF queue_push
  <2> QED BY <2>1, <2>2
<1> QED
  BY <1>1, <1>2 DEF Inserts

LEMMA OrderedPushInserts ==
    ASSUME NEW q \in [list : Seq(Proc), tail : Nat], NEW p \in Proc, NEW time
    PROVE  /\ queue_ordered_push(q, p, time).list \in Seq(Proc)
           /\ Inserts(q.list, queue_ordered_push(q, p, time).list,
                      PlaceInOrder(q.list, p, time), p)
<1>1. q.list \in Seq(Proc)
  OBVIOUS
<1>2. PlaceInOrder(q.list, p, time) \in 1 .. Len(q.list) + 1
  BY <1>1, SomePlace
<1>3. queue_ordered_push(q, p, time).list = InsertAt(q.list, PlaceInOrder(q.list, p, time), p)
  BY DEF queue_ordered_push
<1> QED
  BY <1>1, <1>2, <1>3, InsertedAt

LEMMA PopRemoves ==
    ASSUME NEW q \in [list : Seq(Proc), tail : Nat], q.list # <<>>
    PROVE  LET new == queue_pop(q).list
           IN  /\ First(q, NULL) = q.list[1] /\ 1 \in DOMAIN q.list
               /\ new \in Seq(Proc) /\ Len(new) = Len(q.list) - 1
               /\ \A k \in DOMAIN new : k + 1 \in DOMAIN q.list /\ new[k] = q.list[k + 1]
               /\ Holding(q.list) = Holding(new) \cup {q.list[1]}
               /\ Distinct(q.list) => Distinct(new) /\ q.list[1] \notin Holding(new)
<1> DEFINE new == queue_pop(q).list
<1>1. q.list \in Seq(Proc) /\ Len(q.list) \in Nat \ {0} /\ DOMAIN q.list = 1 .. Len(q.list)
  OBVIOUS
<1>2. new = Tail(q.list) /\ First(q, NULL) = q.list[1]
  BY <1>1 DEF queue_pop, First
<1>3. /\ new \in Seq(Proc) /\ Len(new) = Len(q.list) - 1 /\ DOMAIN new = 1 .. Len(q.list) - 1
      /\ \A k \in 1 .. Len(q.list) - 1 : new[k] = q.list[k + 1]
  BY <1>1, <1>2
<1> HIDE DEF new
<1>4. \A k \in DOMAIN new : k + 1 \in DOMAIN q.list /\ new[k] = q.list[k + 1]
  BY <1>1, <1>3
<1>5. \A k \in DOMAIN q.list : k = 1 \/ (k - 1 \in DOMAIN new /\ new[k - 1] = q.list[k])
  <2> SUFFICES ASSUME NEW k \in DOMAIN q.list, k # 1
               PROVE  k - 1 \in DOMAIN new /\ new[k - 1] = q.list[k]
    OBVIOUS
  <2>1. k - 1 \in 1 .. Len(q.list) - 1 /\ k - 1 + 1 = k
    BY <1>1
  <2> QED BY <1>3, <2>1
<1>6. Holding(q.list) = Holding(new) \cup {q.list[1]}
  BY <1>1, <1>4, <1>5 DEF Holding
<1>7. ASSUME Distinct(q.list) PROVE Distinct(new) /\ q.list[1] \notin Holding(new)
  <2>1. \A j, k \in DOMAIN new : j + 1 = k + 1 => j = k
    BY <1>1, <1>3
  <2>2. \A k \in DOMAIN new : k + 1 # 1
    BY <1>1, <1>3
  <2> QED BY <1>1, <1>4, <1>7, <2>1, <2>2 DEF Distinct, Holding
<1> QED
  BY <1>1, <1>2, <1>3, <1>4, <1>6, <1>7 DEF new

-----------------------------------------------------------------------------
(* No process vanishes. *)

\* CPU c has process p and is not about to let it go.
Keeps(c, p) ==
    /\ cpu_current[c] = p
    /\ \/ cpu[c] \in {"relock", "store", "top", "push"}
       \/ cpu[c] = "running" /\ cpu_state[c] \in {"CPU_RUNNING", "CPU_PREEMPT"}
       \/ cpu[c] = "mark" /\ event[c] = "CPU_PREEMPT"

Takes(c, p) == cpu[c] \in {"select", "switch"} /\ ready_process[c] = p

InQueue(p) == p \in Holding(ready_queue.list)
InIo(p)    == \E k \in DOMAIN io_queue : io_queue[k].pcb = p
InWakeUp(p) == sup \in {"wake", "wake_push"} /\ woken = p

Somewhere(p) == \/ InQueue(p) \/ InIo(p) \/ InWakeUp(p)
                \/ \E c \in Cpu : Keeps(c, p) \/ Takes(c, p)

\* A CPU thread that counts or marks the end of its process does so rightly.
EventInv ==
    \A c \in Cpu :
        /\ cpu[c] = "running" => cpu_state[c] # "CPU_IDLE"
        /\ cpu[c] = "running" /\ cpu_state[c] = "CPU_TERMINATE" => Over(cpu_current[c])
        /\ cpu[c] = "count" => Over(cpu_current[c])
        /\ cpu[c] = "mark" /\ event[c] = "CPU_TERMINATE" => Over(cpu_current[c])

PlaceInv == EventInv /\ \A p \in Proc : Known(p) /\ ~Over(p) => Somewhere(p)

LEMMA QueueTyped ==
    ASSUME TypeInv
    PROVE  /\ ready_queue \in [list : Seq(Proc), tail : Nat] /\ TailIsLast(ready_queue)
           /\ ready_queue.list \in Seq(Proc)
<1>1. ready_queue \in [list : Seq(Proc), tail : Nat] /\ TailIsLast(ready_queue)
  BY DEF TypeInv, TypeOK, StudentOK, QueueInv, TailPointsToTheLast
<1> QED
  BY <1>1

LEMMA WokenQueued ==
    ASSUME TypeInv, WakeUpPush
    PROVE  /\ woken \in Proc
           /\ Holding(ready_queue'.list) = Holding(ready_queue.list) \cup {woken}
<1>1. woken \in Proc
  BY DEF TypeInv, WakeInv, WakeSteps, WakeUpPush, SupervisorAt
<1> QED
  BY <1>1, QueueTyped, PushInserts, OrderedPushInserts, InsertsHolds DEF WakeUpPush

LEMMA CurrentQueued ==
    ASSUME TypeInv, NEW c \in Cpu, Requeue(c)
    PROVE  /\ current[c] \in Proc /\ current[c] = cpu_current[c]
           /\ Holding(ready_queue'.list) = Holding(ready_queue.list) \cup {current[c]}
<1>1. current[c] \in Proc /\ current[c] = cpu_current[c]
  BY CurrentIsProcess DEF Requeue, CpuAt
<1> QED
  BY <1>1, QueueTyped, OrderedPushInserts, InsertsHolds DEF Requeue, Requeued

LEMMA HeadTaken ==
    ASSUME TypeInv, NEW c \in Cpu, Pop(c)
    PROVE  Holding(ready_queue.list) \subseteq Holding(ready_queue'.list) \cup {ready_process'[c]}
<1>1. ready_process'[c] = First(ready_queue, NULL)
  BY DEF Pop, TypeInv, TypeOK, ThreadsOK
<1>2. CASE ready_queue.list = <<>>
  BY <1>2 DEF Pop, queue_pop
<1>3. CASE ready_queue.list # <<>>
  <2>1. ready_queue' = queue_pop(ready_queue)
    BY DEF Pop
  <2>2. /\ First(ready_queue, NULL) = ready_queue.list[1]
        /\ Holding(ready_queue.list) =
              Holding(queue_pop(ready_queue).list) \cup {ready_queue.list[1]}
    BY <1>3, QueueTyped, PopRemoves
  <2> QED BY <1>1, <2>1, <2>2
<1> QED
  BY <1>2, <1>3

LEMMA SupervisorEvents ==
    ASSUME TypeInv, EventInv, ~Exited, Supervisor \/ SpuriousWakeUp
    PROVE  EventInv'
<1>1. Step
  BY DEF Step
<1>2. UNCHANGED <<cpu, cpu_current, event>>
  BY SupervisorLeavesRecords DEF Supervisor, Tick, WakeUp, SpuriousWakeUp, Lock, PrintGanttLine,
     RunBurst, EndBurst, NothingToRun, SchedulerHasRun, SimulateIo, SimulateCreat, WakeUpReturned,
     WakeUpMark, WakeUpPush, WakeUpScan, ForcePreempt, Preempted, WakeUpSignal, threads
<1>3. \A c \in Cpu : /\ cpu[c] \in {"running", "count", "mark"} => cpu_current[c] \in Proc
                     /\ cpu_current[c] \in Proc /\ Over(cpu_current[c])
                           => NextOp(cpu_current[c]) = "OP_TERMINATE"
  BY <1>1, CurrentIsProcess, OverStays
<1>4. \/ UNCHANGED cpu_state \/ cpu_state' = [cpu_state EXCEPT ![n] = "CPU_PREEMPT"]
      \/ cpu_state' = [cpu_state EXCEPT ![n] = "CPU_YIELD"]
      \/ /\ cpu_state' = [cpu_state EXCEPT ![n] = "CPU_TERMINATE"]
         /\ NextOp(cpu_current[n]) = "OP_TERMINATE"
  <2>1. CASE EndBurst
    BY <2>1, BurstEnds
  <2>2. CASE ~EndBurst
    BY <2>2 DEF Supervisor, Tick, WakeUp, SpuriousWakeUp, Lock, PrintGanttLine, RunBurst,
      NothingToRun, SchedulerHasRun, SimulateIo, SimulateCreat, WakeUpReturned, WakeUpMark,
      WakeUpPush, WakeUpScan, ForcePreempt, Preempted, WakeUpSignal, Raise, cpus
  <2> QED BY <2>1, <2>2
<1>5. cpu_state \in [Cpu -> CpuStates]
  BY DEF TypeInv, TypeOK, CpusOK
<1> QED
  BY <1>2, <1>3, <1>4, <1>5 DEF EventInv, Over, Op, NextOp

LEMMA CpuThreadEvents ==
    ASSUME TypeInv, EventInv, NEW c \in Cpu, CpuThread(c)
    PROVE  EventInv'
<1>1. /\ cpu \in [Cpu -> CpuSteps] /\ cpu_state \in [Cpu -> CpuStates]
      /\ event \in [Cpu -> CpuStates] /\ cpu_current \in [Cpu -> Pointer]
  BY DEF TypeInv, TypeOK, ThreadsOK, CpusOK
<1>2. UNCHANGED pc
  BY DEF CpuThread, Top, Dispatch, CountTerminated, Mark, Requeue, Idle, Pop, Select, Switch,
     Relock, Store, pcbs
<1> USE <1>1, <1>2 DEF EventInv, CpuAt, Goto, Over, Op
<1>3. CASE Top(c)
  BY <1>3 DEF Top
<1>4. CASE Dispatch(c)
  BY <1>4 DEF Dispatch, cpus
<1>5. CASE CountTerminated(c)
  BY <1>5 DEF CountTerminated, cpus
<1>6. CASE ~Top(c) /\ ~Dispatch(c) /\ ~CountTerminated(c)
  <2>1. /\ UNCHANGED <<cpu_state, event>> /\ \A d \in Cpu \ {c} : cpu_current'[d] = cpu_current[d]
        /\ \E s \in CpuSteps \ {"running", "count", "mark"} : cpu' = [cpu EXCEPT ![c] = s]
    BY <1>6 DEF CpuThread, Mark, Requeue, Idle, Pop, Select, Switch, Relock, Store, cpus, CpuSteps
  <2> QED BY <2>1
<1> QED
  BY <1>3, <1>4, <1>5, <1>6

\* os-sim.c: wake_up is called before a process counts as created.
LEMMA NewlyKnown ==
    ASSUME TypeInv, Supervisor \/ SpuriousWakeUp, NEW p \in Proc, Known(p)'
    PROVE  Known(p) \/ InWakeUp(p)'
<1>1. created \in Nat /\ p \in Int
  BY OsAssumption, CountProcesses DEF TypeInv, TypeOK, LibraryOK
<1>2. CASE WakeUpReturned
  <2>1. UNCHANGED woken /\ (created' = created \/ (created' = created + 1 /\ woken = created))
    BY <1>2 DEF WakeUpReturned, TypeInv, WakeInv, WakeSteps, SupervisorAt, EndTick
  <2> QED BY <1>1, <2>1 DEF Known
<1>3. CASE ~WakeUpReturned
  <2>1. UNCHANGED created
    BY <1>3 DEF Supervisor, Tick, WakeUp, SpuriousWakeUp, Lock, PrintGanttLine, RunBurst, EndBurst,
       NothingToRun, SchedulerHasRun, SimulateIo, SimulateCreat, WakeUpMark, WakeUpPush,
       WakeUpScan, ForcePreempt, Preempted, WakeUpSignal, library
  <2>2. UNCHANGED woken \/ sup' = "wake"
    BY <1>3 DEF Supervisor, Tick, WakeUp, SpuriousWakeUp, Lock, PrintGanttLine, RunBurst, EndBurst,
       NothingToRun, SchedulerHasRun, SimulateIo, SimulateCreat, WakeUpMark, WakeUpPush,
       WakeUpScan, ForcePreempt, Preempted, WakeUpSignal, CallWakeUp, threads
  <2> QED BY <2>1, <2>2 DEF Known, InWakeUp
<1> QED
  BY <1>2, <1>3

\* os-sim.c: the supervisor takes a process from a CPU only to queue it for I/O or
\* when it terminates, and out of the I/O queue only to wake it up.
LEMMA SupervisorPlaces ==
    ASSUME TypeInv, PlaceInv, ~Exited, Supervisor \/ SpuriousWakeUp,
           NEW p \in Proc, Known(p)', ~Over(p)'
    PROVE  Somewhere(p)'
<1>1. Step /\ NextOp(p) # "OP_TERMINATE"
  BY DEF Step, Over, Op, NextOp
<1>2. Known(p) \/ InWakeUp(p)'
  BY NewlyKnown
<1>3. Known(p) => Somewhere(p)
  BY <1>1, OverStays DEF PlaceInv
<1>4. UNCHANGED <<cpu, cpu_current, event, ready_process>>
  BY SupervisorLeavesRecords DEF Supervisor, Tick, WakeUp, SpuriousWakeUp, Lock, PrintGanttLine,
     RunBurst, EndBurst, NothingToRun, SchedulerHasRun, SimulateIo, SimulateCreat, WakeUpReturned,
     WakeUpMark, WakeUpPush, WakeUpScan, ForcePreempt, Preempted, WakeUpSignal, threads
<1>5. InQueue(p) => InQueue(p)'
  BY SupervisorLeavesQueue, WokenQueued DEF InQueue
<1>6. InWakeUp(p) => InWakeUp(p)' \/ InQueue(p)'
  <2> SUFFICES ASSUME InWakeUp(p) PROVE InWakeUp(p)' \/ InQueue(p)'
    OBVIOUS
  <2>1. CASE WakeUpPush
    BY <2>1, WokenQueued DEF InWakeUp, InQueue
  <2>2. CASE WakeUpMark
    BY <2>2 DEF WakeUpMark, InWakeUp
  <2>3. CASE SpuriousWakeUp
    BY <2>3 DEF SpuriousWakeUp, InWakeUp, threads
  <2>4. WakeUpPush \/ WakeUpMark \/ SpuriousWakeUp
    BY DEF InWakeUp, Supervisor, Tick, WakeUp, Lock, PrintGanttLine, RunBurst, EndBurst,
       NothingToRun, SchedulerHasRun, SimulateIo, SimulateCreat, WakeUpReturned, WakeUpScan,
       ForcePreempt, Preempted, WakeUpSignal, SupervisorAt
  <2> QED BY <2>1, <2>2, <2>3, <2>4
<1>7. InIo(p) => InIo(p)' \/ InWakeUp(p)'
  <2>1. io_queue \in Seq([pcb : Proc, execution_time : Nat])
    BY DEF TypeInv, TypeOK, LibraryOK
  <2>2. CASE EndBurst
    <3>1. UNCHANGED io_queue \/ \E r \in [pcb : Proc, execution_time : Nat] :
                                   io_queue' = Append(io_queue, r)
      BY <2>2, BurstEnds
    <3>2. \A k \in DOMAIN io_queue : k \in DOMAIN io_queue' /\ io_queue'[k] = io_queue[k]
      <4> DEFINE R == [pcb : Proc, execution_time : Nat]
      <4>1. io_queue \in Seq(R) /\ (io_queue' = io_queue \/ \E r \in R : io_queue' = Append(io_queue, r))
        BY <2>1, <3>1
      <4> HIDE DEF R
      <4> QED BY <4>1
    <3> QED BY <3>2 DEF InIo
  <2>3. CASE SimulateIo
    <3>1. CASE io_queue' = io_queue
      BY <3>1 DEF InIo
    <3>2. CASE /\ DOMAIN io_queue' = DOMAIN io_queue
               /\ \A k \in DOMAIN io_queue : io_queue'[k].pcb = io_queue[k].pcb
      BY <3>2 DEF InIo
    <3>3. CASE io_queue # <<>> /\ io_queue' = Tail(io_queue) /\ woken' = io_queue[1].pcb /\ sup' = "wake"
      <4>1. \A k \in DOMAIN io_queue :
               k = 1 \/ (k - 1 \in DOMAIN io_queue' /\ io_queue'[k - 1] = io_queue[k])
        <5> SUFFICES ASSUME NEW k \in DOMAIN io_queue, k # 1
                     PROVE  k - 1 \in DOMAIN io_queue' /\ io_queue'[k - 1] = io_queue[k]
          OBVIOUS
        <5>1. Len(io_queue) \in Nat /\ k \in 1 .. Len(io_queue)
          BY <2>1
        <5>2. k - 1 \in 1 .. Len(io_queue) - 1 /\ k - 1 + 1 = k
          BY <5>1
        <5>3. DOMAIN io_queue' = 1 .. Len(io_queue) - 1
              /\ \A i \in 1 .. Len(io_queue) - 1 : io_queue'[i] = io_queue[i + 1]
          BY <2>1, <3>3
        <5> QED BY <5>2, <5>3
      <4> QED BY <3>3, <4>1 DEF InIo, InWakeUp
    <3> QED BY <2>3, <3>1, <3>2, <3>3, IoProgress
  <2>4. CASE UNCHANGED <<pc, io_queue>>
    BY <2>4 DEF InIo
  <2> QED BY <1>1, <2>2, <2>3, <2>4, WhoAdvances
<1>8. ASSUME NEW c \in Cpu, Takes(c, p) PROVE Takes(c, p)'
  BY <1>4, <1>8 DEF Takes
<1>9. ASSUME NEW c \in Cpu, Keeps(c, p) PROVE Keeps(c, p)' \/ InIo(p)'
  <2>1. cpu_state \in [Cpu -> CpuStates] /\ n \in Cpu
    BY DEF TypeInv, TypeOK, CpusOK, ThreadsOK
  <2>2. CASE UNCHANGED cpu_state \/ cpu_state' = [cpu_state EXCEPT ![n] = "CPU_PREEMPT"]
    BY <1>4, <1>9, <2>1, <2>2 DEF Keeps
  <2>3. CASE EndBurst /\ n = c
    <3>1. cpu_current[n] = p
      BY <1>9, <2>3 DEF Keeps
    <3>2. PICK time \in Nat : io_queue' = Append(io_queue, [pcb |-> p, execution_time |-> time])
      BY <1>1, <2>3, <3>1, BurstEnds
    <3> DEFINE r == [pcb |-> p, execution_time |-> time]
    <3>3. io_queue \in Seq([pcb : Proc, execution_time : Nat])
          /\ r \in [pcb : Proc, execution_time : Nat] /\ r.pcb = p
      BY DEF TypeInv, TypeOK, LibraryOK
    <3>4. io_queue' = Append(io_queue, r)
      BY <3>2
    <3> HIDE DEF r
    <3>5. Len(io_queue) + 1 \in DOMAIN io_queue' /\ io_queue'[Len(io_queue) + 1] = r
      BY <3>3, <3>4
    <3> QED BY <3>3, <3>5 DEF InIo
  <2>4. CASE EndBurst /\ n # c
    BY <1>4, <1>9, <2>1, <2>4, BurstEnds DEF Keeps
  <2>5. CASE ~EndBurst
    <3>1. UNCHANGED cpu_state \/ cpu_state' = [cpu_state EXCEPT ![n] = "CPU_PREEMPT"]
      BY <2>5 DEF Supervisor, Tick, WakeUp, SpuriousWakeUp, Lock, PrintGanttLine, RunBurst,
        NothingToRun, SchedulerHasRun, SimulateIo, SimulateCreat, WakeUpReturned, WakeUpMark,
        WakeUpPush, WakeUpScan, ForcePreempt, Preempted, WakeUpSignal, Raise, cpus
    <3> QED BY <2>2, <3>1
  <2> QED BY <2>3, <2>4, <2>5
<1> QED
  BY <1>2, <1>3, <1>5, <1>6, <1>7, <1>8, <1>9 DEF Somewhere

\* os-sim.c, student.c: a CPU thread that lets a process go has put it back in the
\* queue, and takes another from the queue only to run it.
LEMMA CpuThreadPlaces ==
    ASSUME TypeInv, PlaceInv, ~Exited, NEW c \in Cpu, CpuThread(c),
           NEW p \in Proc, Known(p)', ~Over(p)'
    PROVE  Somewhere(p)'
<1>1. /\ cpu \in [Cpu -> CpuSteps] /\ cpu_state \in [Cpu -> CpuStates]
      /\ event \in [Cpu -> CpuStates] /\ cpu_current \in [Cpu -> Pointer]
      /\ ready_process \in [Cpu -> Pointer]
  BY DEF TypeInv, TypeOK, ThreadsOK, CpusOK
<1>2. UNCHANGED <<pc, created, woken, sup, io_queue>>
  BY DEF CpuThread, Top, Dispatch, CountTerminated, Mark, Requeue, Idle, Pop, Select, Switch,
     Relock, Store, pcbs, library
<1>3. Somewhere(p)
  BY <1>2 DEF PlaceInv, Known, Over, Op
<1>4. (InIo(p) => InIo(p)') /\ (InWakeUp(p) => InWakeUp(p)')
  BY <1>2 DEF InIo, InWakeUp
<1>5. InQueue(p) => InQueue(p)' \/ Takes(c, p)'
  <2>1. CASE Pop(c)
    <3>1. cpu'[c] = "select"
      BY <1>1, <2>1 DEF Pop, Goto
    <3> QED BY <2>1, <3>1, HeadTaken DEF InQueue, Takes
  <2>2. CASE Requeue(c)
    BY <2>2, CurrentQueued DEF InQueue
  <2>3. CASE ~Pop(c) /\ ~Requeue(c)
    BY <2>3, CpuThreadLeavesQueue DEF InQueue
  <2> QED BY <2>1, <2>2, <2>3
<1>6. ASSUME NEW d \in Cpu, d # c
      PROVE  /\ cpu'[d] = cpu[d] /\ cpu_state'[d] = cpu_state[d] /\ event'[d] = event[d]
             /\ cpu_current'[d] = cpu_current[d] /\ ready_process'[d] = ready_process[d]
  BY <1>1, <1>6 DEF CpuThread, Top, Dispatch, CountTerminated, Mark, Requeue, Idle, Pop, Select,
     Switch, Relock, Store, cpus, Goto
<1>7. ASSUME NEW d \in Cpu, d # c, Keeps(d, p) \/ Takes(d, p) PROVE Keeps(d, p)' \/ Takes(d, p)'
  BY <1>6, <1>7 DEF Keeps, Takes
<1>8. ASSUME Takes(c, p) PROVE Takes(c, p)' \/ Keeps(c, p)'
  <2>1. CASE Select(c)
    BY <1>1, <1>8, <2>1 DEF Select, Takes, Goto
  <2>2. CASE Switch(c)
    BY <1>1, <1>8, <2>2 DEF Switch, Takes, Keeps, Goto
  <2>3. Select(c) \/ Switch(c)
    BY <1>8 DEF Takes, CpuThread, Top, Dispatch, CountTerminated, Mark, Requeue, Idle, Pop,
       Relock, Store, CpuAt
  <2> QED BY <2>1, <2>2, <2>3
<1>9. ASSUME Keeps(c, p) PROVE Keeps(c, p)' \/ InQueue(p)'
  <2> USE <1>1, <1>9 DEF Keeps, Goto, CpuAt
  <2>1. CASE Top(c)
    <3>1. p # NULL
      BY OsAssumption
    <3> QED BY <2>1, <3>1 DEF Top
  <2>2. CASE Dispatch(c)
    BY <2>2 DEF Dispatch, cpus
  <2>3. CASE Mark(c)
    BY <2>3 DEF Mark, BackInQueue, cpus
  <2>4. CASE Requeue(c)
    BY <2>4, CurrentQueued DEF InQueue
  <2>5. CASE Relock(c) \/ Store(c)
    BY <2>5 DEF Relock, Store, cpus
  <2>6. Top(c) \/ Dispatch(c) \/ Mark(c) \/ Requeue(c) \/ Relock(c) \/ Store(c)
    BY DEF CpuThread, CountTerminated, Idle, Pop, Select, Switch
  <2> QED BY <2>1, <2>2, <2>3, <2>4, <2>5, <2>6
<1> QED
  BY <1>3, <1>4, <1>5, <1>7, <1>8, <1>9 DEF Somewhere

LEMMA PlaceStep ==
    ASSUME TypeInv, PlaceInv, [Next]_vars
    PROVE  PlaceInv'
<1>1. EventInv
  BY DEF PlaceInv
<1>2. CASE ~Exited /\ (Supervisor \/ SpuriousWakeUp)
  BY <1>1, <1>2, SupervisorEvents, SupervisorPlaces DEF PlaceInv
<1>3. CASE ~Exited /\ \E c \in Cpu : CpuThread(c)
  BY <1>1, <1>3, CpuThreadEvents, CpuThreadPlaces DEF PlaceInv
<1>4. CASE UNCHANGED vars
  <2>1. EventInv'
    BY <1>1, <1>4 DEF vars, pcbs, cpus, threads, EventInv, Over, Op
  <2>2. ASSUME NEW p \in Proc, Known(p)', ~Over(p)' PROVE Somewhere(p)'
    BY <1>4, <2>2 DEF vars, pcbs, cpus, student, library, threads, PlaceInv, Known, Over, Op,
       Somewhere, InQueue, InIo, InWakeUp, Keeps, Takes
  <2> QED BY <2>1, <2>2 DEF PlaceInv
<1> QED
  BY <1>2, <1>3, <1>4 DEF Next, Terminated

LEMMA PlaceInit == Init => PlaceInv
<1> SUFFICES ASSUME Init PROVE PlaceInv
  OBVIOUS
<1>1. EventInv
  BY DEF Init, EventInv
<1>2. ASSUME NEW p \in Proc PROVE ~Known(p)
  BY OsAssumption, CountProcesses DEF Init, Known
<1> QED
  BY <1>1, <1>2 DEF PlaceInv

LEMMA PlacesFinite ==
    ASSUME TypeInv, NEW p \in Proc
    PROVE  /\ IsFiniteSet(Queued(p)) /\ IsFiniteSet(Blocked(p))
           /\ IsFiniteSet(OnCpus(p)) /\ IsFiniteSet(BeingWoken(p))
<1>1. ASSUME NEW S, NEW list \in Seq(S) PROVE IsFiniteSet(DOMAIN list)
  <2>1. DOMAIN list = 1 .. Len(list) /\ Len(list) \in Int /\ 1 \in Int
    OBVIOUS
  <2> QED BY <2>1, FS_Interval
<1>2. IsFiniteSet(DOMAIN ready_queue.list) /\ IsFiniteSet(DOMAIN io_queue)
  <2>1. io_queue \in Seq([pcb : Proc, execution_time : Nat])
    BY DEF TypeInv, TypeOK, LibraryOK
  <2> QED BY <1>1, <2>1, QueueTyped
<1>3. IsFiniteSet(Cpu)
  <2>1. 0 \in Int /\ CpuCount - 1 \in Int
    BY OsAssumption
  <2> QED BY <2>1, FS_Interval DEF Cpu
<1>4. IsFiniteSet({"wake", "wake_push"})
  <2>1. IsFiniteSet({"wake"} \cup {"wake_push"})
    BY FS_Singleton, FS_AddElement
  <2>2. {"wake"} \cup {"wake_push"} = {"wake", "wake_push"}
    OBVIOUS
  <2> QED BY <2>1, <2>2
<1>5. /\ Queued(p) \subseteq DOMAIN ready_queue.list /\ Blocked(p) \subseteq DOMAIN io_queue
      /\ OnCpus(p) \subseteq Cpu /\ BeingWoken(p) \subseteq {"wake", "wake_push"}
  BY DEF Queued, Blocked, OnCpus, BeingWoken
<1> QED
  BY <1>2, <1>3, <1>4, <1>5, FS_Subset

LEMMA SomewhereIsAPlace ==
    ASSUME TypeInv, NEW p \in Proc, Somewhere(p)
    PROVE  Places(p) > 0 \/ \E c \in Cpu : cpu_current[c] = p
<1>1. /\ Cardinality(Queued(p)) \in Nat /\ Cardinality(Blocked(p)) \in Nat
      /\ Cardinality(OnCpus(p)) \in Nat /\ Cardinality(BeingWoken(p)) \in Nat
      /\ Cardinality(Queued(p)) = 0 <=> Queued(p) = {}
      /\ Cardinality(Blocked(p)) = 0 <=> Blocked(p) = {}
      /\ Cardinality(OnCpus(p)) = 0 <=> OnCpus(p) = {}
      /\ Cardinality(BeingWoken(p)) = 0 <=> BeingWoken(p) = {}
  BY PlacesFinite, FS_CardinalityType, FS_EmptySet
<1>2. Queued(p) # {} \/ Blocked(p) # {} \/ OnCpus(p) # {} \/ BeingWoken(p) # {} => Places(p) > 0
  <2> DEFINE q == Cardinality(Queued(p)) b == Cardinality(Blocked(p))
             o == Cardinality(OnCpus(p)) w == Cardinality(BeingWoken(p))
  <2>1. /\ q \in Nat /\ b \in Nat /\ o \in Nat /\ w \in Nat
        /\ Places(p) = q + b + o + w
    BY <1>1 DEF Places
  <2>2. Queued(p) # {} \/ Blocked(p) # {} \/ OnCpus(p) # {} \/ BeingWoken(p) # {}
           => q # 0 \/ b # 0 \/ o # 0 \/ w # 0
    BY <1>1
  <2> HIDE DEF q, b, o, w
  <2> QED BY <2>1, <2>2
<1>3. InQueue(p) => Queued(p) # {}
  BY DEF InQueue, Holding, Queued
<1>4. InIo(p) => Blocked(p) # {}
  BY DEF InIo, Blocked
<1>5. InWakeUp(p) => BeingWoken(p) # {}
  BY DEF InWakeUp, BeingWoken
<1>6. ASSUME NEW c \in Cpu, Takes(c, p) PROVE OnCpus(p) # {}
  <2>1. Holds(c) = p
    BY <1>6 DEF Takes, Holds
  <2> QED BY <2>1 DEF OnCpus
<1>7. ASSUME NEW c \in Cpu, Keeps(c, p) PROVE cpu_current[c] = p
  BY <1>7 DEF Keeps
<1> QED
  BY <1>2, <1>3, <1>4, <1>5, <1>6, <1>7 DEF Somewhere

\* os-sim.c, student.c: whatever events are lost, and although two CPUs may come to
\* run the same process, a process that has been created and has not come to its
\* end is always in a queue, on a CPU or on its way to one.
THEOREM NoProcessVanishesTheorem == Spec => []NoProcessVanishes
<1>1. TypeInv /\ PlaceInv => NoProcessVanishes
  BY SomewhereIsAPlace DEF NoProcessVanishes, PlaceInv
<1>2. TypeInv /\ PlaceInv /\ [Next]_vars => PlaceInv'
  BY PlaceStep
<1> QED
  BY <1>1, <1>2, PlaceInit, TypeInvariant, PTL DEF Spec
=============================================================================
