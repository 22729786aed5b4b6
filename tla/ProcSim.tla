------------------------------- MODULE ProcSim -------------------------------
(***************************************************************************)
(* The out-of-order processor of comp_arch/tomasulo/src/procsim.c.  One    *)
(* cycle of run_proc is six steps, one for each function it calls:         *)
(* update_state, execute_instr, schedule_instr, dispatch_instr,            *)
(* fetch_instr and update_state_2.                                         *)
(*                                                                         *)
(* The trace is read in order, so that the dispatch queue is a window of   *)
(* it: the entries from dispatch_queue_head to dispatch_queue_tail, which  *)
(* never wrap.  A row of the scheduling queue names its instruction by its *)
(* sequential_tag; what the instruction holds is looked up in the trace.   *)
(*                                                                         *)
(* Left out: the statistics, the data in the registers, the dirty bits of  *)
(* the cache, and the flags branch_finished and prepare_to_stall, none of  *)
(* which the processor reads.                                              *)
(***************************************************************************)
EXTENDS Integers, FiniteSets, SequencesExt

CONSTANTS
    Traces,             \* the sequences of instructions that read_instruction returns
    fetch_count,        \* -f
    K0, K1, K2, R,      \* -k, -l, -m, -r: the units of each kind, rows for each unit
    ghr_length,         \* -g
    Reg,                \* the registers, 0 .. 31 in the code
    Sets, BlockSize,    \* lines of the cache, and bytes in each (64 in the code)
    qsort(_)            \* the order that the C library's qsort gives the rows, from what the
                        \* comparison says of each two of them

schedule_queue_size == (K0 + K1 + K2) * R
Row   == 1 .. schedule_queue_size
LsUnit == 1 .. K2

MulTime  == 3
MissTime == 10      \* cycles of a cache miss
HitTime  == 1
NotYet   == 11      \* the access starts in the next execute_instr

branch_table_size == 2 ^ ghr_length

\* -1 stands for no register; inst_addr is counted in instructions, of 4 bytes each.
Instruction == [op : {"NOP", "ADD", "MUL", "LOAD", "STORE", "BR"}, dest : Reg \cup {-1},
                src : [1 .. 2 -> Reg \cup {-1}], addr : Nat, taken : BOOLEAN,
                inst_addr : Nat]

ASSUME ProcAssumption ==
    /\ fetch_count \in Nat \ {0} /\ {K0, K1, K2, R} \subseteq Nat \ {0}
    /\ ghr_length \in Nat /\ branch_table_size \in Nat \ {0}
    /\ {Sets, BlockSize} \subseteq Nat \ {0}
    /\ \A t \in Traces : t \in Seq(Instruction)

\* The order that qsort gives the rows has each of them once.
Rearranges(order) == /\ order \in [Row -> Row]
                     /\ \A i \in Row : \E j \in Row : order[j] = i
ASSUME SortAssumption == \A small \in SUBSET (Row \X Row) : Rearranges(qsort(small))

\* It is a stable sort, as the merge sort of glibc is: rows that the comparison calls
\* equal stay in the order of their places.  When the comparison and the places together
\* order the rows, they come out in that order; otherwise nothing is said.
Precedes(small, p, q) == <<p, q>> \in small /\ (<<q, p>> \in small => p < q)
Consistent(small) ==
    \A p, q \in Row : /\ p # q => Precedes(small, p, q) \/ Precedes(small, q, p)
                      /\ \A r \in Row : Precedes(small, p, q) /\ Precedes(small, q, r)
                                        => Precedes(small, p, r)
ASSUME StableAssumption ==
    \A small \in SUBSET (Row \X Row) :
        Consistent(small) => \A i, j \in Row : i < j => Precedes(small, qsort(small)[i], qsort(small)[j])

VARIABLES
    trace,            \* the instructions that read_instruction returns
    step,             \* the function that run_proc calls next
    cycle,
    continue_fetch,   \* local variable of run_proc
    dispatch_queue_head, dispatch_queue_tail,
    temp_iterator,    \* the entries before it have their dispatch time
    predicted_br,     \* of each fetched branch
    times,            \* of each instruction: the cycles that complete_proc prints
    schedule_queue, inst_cnt_sq,
    finished_fu,      \* the rows that update_state found finished
    instr_tag, register_file,
    add_unit, ls_unit, ls_functional_unit,
    branch_started,
    branch_table, ghr,
    l1_cache,
    result            \* the sequential tags of the retired instructions

fetching == <<continue_fetch, dispatch_queue_tail, predicted_br>>
queue    == <<schedule_queue, inst_cnt_sq, finished_fu>>
tags     == <<instr_tag, register_file>>
units    == <<add_unit, ls_unit, ls_functional_unit>>
branches == <<branch_table, ghr>>
vars     == <<trace, step, cycle, fetching, dispatch_queue_head, temp_iterator, times, queue,
              tags, units, branch_started, branches, l1_cache, result>>

\* The instruction with sequential tag s, and that of a row.
Inst(s)    == trace[s + 1]
InstOf(row) == Inst(row.seq)
Memory(op) == op \in {"LOAD", "STORE"}
Index(a)   == (a \div BlockSize) % Sets
TagOf(a)   == a \div (BlockSize * Sets)
Entries    == 0 .. branch_table_size - 1

EmptyRow == [occupied |-> FALSE, seq |-> 0, dest_reg_tag |-> 0, src_reg_tag |-> <<0, 0>>,
             src_reg_ready |-> <<FALSE, FALSE>>, fired |-> FALSE, remaining_time |-> 0,
             ls_conflict_end |-> FALSE, fu |-> 0]

\* A loop over the rows: what Iteration makes, row by row, of the work.
EachRow(Iteration(_, _), work) ==
    LET after[n \in 0 .. schedule_queue_size] ==
            IF n = 0 THEN work ELSE Iteration(after[n - 1], n)
    IN  after[schedule_queue_size]

\* setup_proc.
Init ==
    /\ trace \in Traces
    /\ step = "update_state" /\ cycle = 0 /\ continue_fetch = TRUE
    /\ dispatch_queue_head = 0 /\ dispatch_queue_tail = 0 /\ temp_iterator = 0
    /\ predicted_br = [s \in 0 .. Len(trace) - 1 |-> FALSE]
    /\ times = [s \in 0 .. Len(trace) - 1 |-> <<>>]
    /\ schedule_queue = [i \in Row |-> EmptyRow] /\ inst_cnt_sq = 0 /\ finished_fu = {}
    /\ instr_tag = 0 /\ register_file = [r \in Reg |-> [tag |-> 0, ready |-> TRUE]]
    /\ add_unit = K0 /\ ls_unit = K2
    /\ ls_functional_unit = [u \in LsUnit |-> [busy |-> FALSE, load |-> "NOP", addr |-> 0]]
    /\ branch_started = FALSE
    /\ branch_table = [e \in Entries |-> 1] /\ ghr = 0
    /\ l1_cache = [x \in 0 .. Sets - 1 |-> [valid |-> FALSE, tag |-> 0]]
    /\ result = <<>>

At(s, next) == step = s /\ step' = next

-----------------------------------------------------------------------------
(* update_state: instructions whose time is over retire. *)

Occupied == {i \in Row : schedule_queue[i].occupied}
Finished == {i \in Occupied : schedule_queue[i].fired /\ schedule_queue[i].remaining_time = 0}
Mispredicted(s) == Inst(s).op = "BR" /\ Inst(s).taken # predicted_br[s]

\* The entry of the branch table.
Bit(x, k)         == (x \div 2 ^ k) % 2
Xor(x, y)         == CHOOSE z \in Entries :
                         \A k \in 0 .. ghr_length - 1 : Bit(z, k) = (Bit(x, k) + Bit(y, k)) % 2
Entry(history, s) == Xor(Inst(s).inst_addr % branch_table_size, history)

\* Mutant: the counter goes below zero.
ClampedAbove(count) == Min({3, count})
Clamped(count)      == Min({3, Max({0, count})})

\* The two-bit counter of a branch, and the history, learn what it did.
Train(predictor, s) ==
    LET e     == Entry(predictor.ghr, s)
        count == predictor.table[e] + (IF Inst(s).taken THEN 1 ELSE -1)
    IN  [table |-> [predictor.table EXCEPT ![e] = Clamped(count)],
         ghr   |-> (2 * predictor.ghr + (IF Inst(s).taken THEN 1 ELSE 0)) % branch_table_size]

\* Row i of the loop: the finished instructions in the order of the queue, as
\* sequential tags, and what the predictor learns of the branches.
Retire(work, i) ==
    LET s == schedule_queue[i].seq
    IN  IF i \notin Finished THEN work
        ELSE [retired   |-> Append(work.retired, s),
              predictor |-> IF Inst(s).op = "BR" THEN Train(work.predictor, s)
                            ELSE work.predictor]

Retirement == EachRow(Retire, [retired   |-> <<>>,
                               predictor |-> [table |-> branch_table, ghr |-> ghr]])
Retired    == {schedule_queue[i].seq : i \in Finished}

\* Mutant: the register is compared, its tag is not.
SameRegister(reg, tag) == \E i \in Finished : InstOf(schedule_queue[i]).dest = reg

\* A finished instruction computes register reg under this tag.
Written(reg, tag) ==
    \E i \in Finished : InstOf(schedule_queue[i]).dest = reg /\ schedule_queue[i].dest_reg_tag = tag

\* A row when the finished instructions have passed on their results.
Updated(i) ==
    LET row == schedule_queue[i]
    IN  IF ~row.occupied THEN row
        ELSE [row EXCEPT
                !.ls_conflict_end = @ /\ i \notin Finished,
                !.src_reg_ready = [k \in 1 .. 2 |->
                    @[k] \/ Written(InstOf(row).src[k], row.src_reg_tag[k])]]

\* Mutant: only the first instruction that retires is looked at.
FirstResolves == Retired # {} /\ Mispredicted(Head(Retirement.retired))
Resolved      == \E s \in Retired : Mispredicted(s)

UpdateState ==
    /\ At("update_state", "execute_instr")
    /\ finished_fu' = Finished
    /\ times' = [s \in DOMAIN times |->
                   IF s \in Retired THEN Append(times[s], cycle) ELSE times[s]]
    /\ branch_started' = (branch_started /\ ~Resolved)
    /\ LET work == Retirement
       IN  /\ result' = result \o work.retired
           /\ branch_table' = work.predictor.table /\ ghr' = work.predictor.ghr
    /\ schedule_queue' = [i \in Row |-> Updated(i)]
    /\ register_file' = [r \in Reg |-> [register_file[r] EXCEPT
                            !.ready = @ \/ Written(r, register_file[r].tag)]]
    /\ UNCHANGED <<trace, cycle, fetching, dispatch_queue_head, temp_iterator, inst_cnt_sq,
                   instr_tag, units, l1_cache>>

-----------------------------------------------------------------------------
(* execute_instr: the fired instructions go on by a cycle. *)

Fired == {i \in Occupied : schedule_queue[i].fired}

\* cache_access: a direct-mapped cache that allocates on every miss.
Hit(cache, a) == cache[Index(a)] = [valid |-> TRUE, tag |-> TagOf(a)]
Access(cache, a) == [cache EXCEPT ![Index(a)] = [valid |-> TRUE, tag |-> TagOf(a)]]

\* Row i of the loop; a load or a store that starts accesses the cache.
Run(work, i) ==
    LET row  == schedule_queue[i]
        addr == InstOf(row).addr
    IN  IF i \notin Fired THEN work
        ELSE IF row.remaining_time # NotYet
        THEN [work EXCEPT !.rows[i].remaining_time = @ - 1]
        ELSE [rows  |-> [work.rows EXCEPT ![i].remaining_time =
                            (IF Hit(work.cache, addr) THEN HitTime ELSE MissTime) - 1],
              cache |-> Access(work.cache, addr)]

Executed == EachRow(Run, [rows |-> schedule_queue, cache |-> l1_cache])

\* Mutant: a unit is given back as long as nothing is left to do.
EndedOrOver(row) == row.remaining_time <= 0

\* A unit is given back when the last cycle ends, before the instruction retires.
Ended(row) == row.remaining_time = 0
Frees(rows, ops) == {i \in Fired : Ended(rows[i]) /\ InstOf(rows[i]).op \in ops}

ExecuteInstr ==
    /\ At("execute_instr", "schedule_instr")
    /\ LET work == Executed
           memory == Frees(work.rows, {"LOAD", "STORE"})
       IN  /\ schedule_queue' = work.rows /\ l1_cache' = work.cache
           /\ add_unit' = add_unit + Cardinality(Frees(work.rows, {"ADD", "BR"}))
           /\ ls_unit' = ls_unit + Cardinality(memory)
           /\ ls_functional_unit' = [u \in LsUnit |-> [ls_functional_unit[u] EXCEPT
                  !.busy = @ /\ ~\E i \in memory : schedule_queue[i].fu = u]]
    /\ times' = [s \in DOMAIN times |->
           IF Len(times[s]) = 3 /\ \E i \in Fired : schedule_queue[i].seq = s
           THEN Append(times[s], cycle) ELSE times[s]]
    /\ UNCHANGED <<trace, cycle, fetching, dispatch_queue_head, temp_iterator, inst_cnt_sq,
                   finished_fu, tags, branch_started, branches, result>>

-----------------------------------------------------------------------------
(* schedule_instr: ready instructions fire while there are units.  The rows are
   looked at in order; work is what the loop changes. *)

Waits(row) == row.occupied /\ ~row.fired

\* A busy unit is in the way of an access: a store's, or any unit's for a store,
\* at the same address; any unit's in the same line of the cache.
UnitInTheWay(unit, inst) ==
    /\ unit.busy
    /\ \/ unit.addr = inst.addr /\ (inst.op = "STORE" \/ unit.load # inst.op)
       \/ Index(unit.addr) = Index(inst.addr)

\* An older row that has been marked is in the way: of a load, a store to its
\* address; of a store, anything with its address.
RowInTheWay(row, s) ==
    /\ row.occupied /\ row.ls_conflict_end /\ InstOf(row).addr = Inst(s).addr
    /\ row.seq < s
    /\ Inst(s).op = "LOAD" => InstOf(row).op = "STORE"

cache_opeable(work, s) ==
    /\ \A u \in LsUnit : ~UnitInTheWay(work.ls_fu[u], Inst(s))
    /\ \A i \in Row : ~RowInTheWay(work.rows[i], s)

FreeUnit(work) == Min({u \in LsUnit : ~work.ls_fu[u].busy})

Fire(work, i, time) ==
    [work EXCEPT !.rows[i].fired = TRUE, !.rows[i].remaining_time = time]

\* Row i, marked for the search of the accesses behind it, fires if it can.
Issue(work, i) ==
    LET s    == work.rows[i].seq
        seen == [work EXCEPT !.rows[i].ls_conflict_end = TRUE]
    IN  IF ~Waits(work.rows[i]) THEN work
        ELSE IF work.rows[i].src_reg_ready # <<TRUE, TRUE>> THEN seen
        ELSE CASE Inst(s).op \in {"ADD", "BR"} /\ work.add > 0 ->
                     [Fire(seen, i, 1) EXCEPT !.add = @ - 1]
               [] Inst(s).op = "MUL" /\ work.mul > 0 ->
                     [Fire(seen, i, MulTime) EXCEPT !.mul = @ - 1]
               [] Memory(Inst(s).op) /\ work.ls > 0 /\ cache_opeable(seen, s) ->
                     [Fire(seen, i, NotYet) EXCEPT
                        !.ls = @ - 1, !.rows[i].fu = FreeUnit(work),
                        !.ls_fu[FreeUnit(work)] =
                            [busy |-> TRUE, load |-> Inst(s).op, addr |-> Inst(s).addr]]
               [] OTHER -> seen

\* One multiplication fires in a cycle, whatever K1.
Scheduled == EachRow(Issue, [rows |-> schedule_queue, add |-> add_unit, mul |-> 1,
                             ls |-> ls_unit, ls_fu |-> ls_functional_unit])

ScheduleInstr ==
    /\ At("schedule_instr", "dispatch_instr")
    /\ LET work == Scheduled
       IN  /\ schedule_queue' = work.rows /\ ls_functional_unit' = work.ls_fu
           /\ add_unit' = work.add /\ ls_unit' = work.ls
    /\ times' = [s \in DOMAIN times |->
           IF Len(times[s]) = 2 /\ \E i \in Row : Waits(schedule_queue[i]) /\ schedule_queue[i].seq = s
           THEN Append(times[s], cycle) ELSE times[s]]
    /\ UNCHANGED <<trace, cycle, fetching, dispatch_queue_head, temp_iterator, inst_cnt_sq,
                   finished_fu, tags, branch_started, branches, l1_cache, result>>

-----------------------------------------------------------------------------
(* dispatch_instr: instructions move from the dispatch queue to free rows, in order,
   and NOPs disappear; nothing moves past a mispredicted branch. *)

SkipNops(head) ==
    Min({k \in head .. dispatch_queue_tail : k = dispatch_queue_tail \/ Inst(k).op # "NOP"})

\* The row of instruction s: a source that is ready needs no tag.
NewRow(s, work) ==
    LET source(k)  == Inst(s).src[k]
        ready(k)   == source(k) = -1 \/ work.regs[source(k)].ready
    IN  [EmptyRow EXCEPT !.occupied = TRUE, !.seq = s, !.dest_reg_tag = work.tag,
            !.src_reg_ready = [k \in 1 .. 2 |-> ready(k)],
            !.src_reg_tag = [k \in 1 .. 2 |-> IF ready(k) THEN 0 ELSE work.regs[source(k)].tag]]

\* Row i of the loop takes the next instruction that is not a NOP, if it is free.
Fill(work, i) ==
    LET s == SkipNops(work.head)
    IN  IF work.stalled \/ work.rows[i].occupied \/ work.head = dispatch_queue_tail THEN work
        ELSE IF s = dispatch_queue_tail THEN [work EXCEPT !.head = s]
        ELSE [work EXCEPT
                !.head = s + 1, !.tag = @ + 1, !.count = @ + 1, !.rows[i] = NewRow(s, work),
                !.regs = IF Inst(s).dest = -1 THEN @
                         ELSE [@ EXCEPT ![Inst(s).dest] = [tag |-> work.tag, ready |-> FALSE]],
                !.stalled = Mispredicted(s)]

Dispatched == EachRow(Fill, [rows |-> schedule_queue, head |-> dispatch_queue_head,
                             tag |-> instr_tag, count |-> inst_cnt_sq,
                             regs |-> register_file, stalled |-> branch_started])

\* Mutant: the last entry is forgotten.
AllButTheLast == temp_iterator .. dispatch_queue_tail - 2
Unstamped     == temp_iterator .. dispatch_queue_tail - 1

DispatchInstr ==
    /\ At("dispatch_instr", "fetch_instr")
    /\ temp_iterator' = dispatch_queue_tail
    /\ times' = [s \in DOMAIN times |->
           IF s \in Unstamped THEN Append(times[s], cycle) ELSE times[s]]
    /\ LET work == Dispatched
       IN  /\ schedule_queue' = work.rows /\ inst_cnt_sq' = work.count
           /\ dispatch_queue_head' = work.head
           /\ instr_tag' = work.tag /\ register_file' = work.regs
           /\ branch_started' = work.stalled
    /\ UNCHANGED <<trace, cycle, fetching, finished_fu, units, branches, l1_cache, result>>

-----------------------------------------------------------------------------
(* fetch_instr: the next instructions of the trace, until it ends. *)

FetchInstr ==
    /\ At("fetch_instr", "update_state_2")
    /\ LET next == IF continue_fetch THEN Min({dispatch_queue_tail + fetch_count, Len(trace)})
                   ELSE dispatch_queue_tail
           new  == dispatch_queue_tail .. next - 1
       IN  /\ dispatch_queue_tail' = next
           /\ times' = [s \in DOMAIN times |-> IF s \in new THEN <<cycle>> ELSE times[s]]
           /\ predicted_br' = [s \in DOMAIN predicted_br |->
                  IF s \in new /\ Inst(s).op = "BR" THEN branch_table[Entry(ghr, s)] >= 2
                  ELSE predicted_br[s]]
    /\ continue_fetch' = (continue_fetch /\ dispatch_queue_tail + fetch_count <= Len(trace))
    /\ UNCHANGED <<trace, cycle, dispatch_queue_head, temp_iterator, queue, tags, units,
                   branch_started, branches, l1_cache, result>>

-----------------------------------------------------------------------------
(* update_state_2: the finished rows become free, and the queue is sorted. *)

compare_sq(a, b) ==
    (IF b.occupied THEN a.seq ELSE 0) - (IF a.occupied THEN b.seq ELSE 0)

Free(i) == [EmptyRow EXCEPT !.seq = schedule_queue[i].seq]

\* Mutant: the rows stay where they are.
Unsorted(rows) == rows
\* The comparison is not an order of the rows, as a free row equals another free row,
\* or any row if its tag is 0: what comes out depends on how qsort works.
Sorted(rows) ==
    LET order == qsort({p \in Row \X Row : compare_sq(rows[p[1]], rows[p[2]]) <= 0})
    IN  [i \in Row |-> rows[order[i]]]

\* Mutant: the dispatch queue is not looked at.
NoRows == inst_cnt_sq' = 0
\* The loop of run_proc ends when the queues are empty and the trace is read.
Empty == inst_cnt_sq' = 0 /\ dispatch_queue_head = dispatch_queue_tail

UpdateState2 ==
    /\ step = "update_state_2"
    /\ schedule_queue' = Sorted([i \in Row |-> IF i \in finished_fu THEN Free(i)
                                                ELSE schedule_queue[i]])
    /\ inst_cnt_sq' = inst_cnt_sq - Cardinality(finished_fu)
    /\ finished_fu' = {}
    /\ cycle' = cycle + 1
    /\ step' = IF Empty /\ ~continue_fetch THEN "done" ELSE "update_state"
    /\ UNCHANGED <<trace, fetching, dispatch_queue_head, temp_iterator, times, tags, units,
                   branch_started, branches, l1_cache, result>>

Done == step = "done" /\ UNCHANGED vars

Next == \/ UpdateState \/ ExecuteInstr \/ ScheduleInstr \/ DispatchInstr \/ FetchInstr
        \/ UpdateState2 \/ Done

Spec == Init /\ [][Next]_vars

-----------------------------------------------------------------------------
(* Properties *)

Steps == {"update_state", "execute_instr", "schedule_instr", "dispatch_instr", "fetch_instr",
          "update_state_2", "done"}
Tag   == 0 .. Len(trace) - 1

\* The types of the variables: rows name fetched instructions and existing units,
\* and the counters stay in the tables they index.
TypeOK ==
    /\ step \in Steps /\ cycle \in Nat /\ continue_fetch \in BOOLEAN
    /\ 0 <= dispatch_queue_head /\ dispatch_queue_head <= dispatch_queue_tail
    /\ temp_iterator <= dispatch_queue_tail /\ dispatch_queue_tail <= Len(trace)
    /\ predicted_br \in [Tag -> BOOLEAN]
    /\ \A s \in Tag : times[s] \in Seq(0 .. cycle) /\ Len(times[s]) <= 5
    /\ Len(schedule_queue) = schedule_queue_size
    /\ \A i \in Row : LET row == schedule_queue[i] IN
          /\ row.seq \in 0 .. dispatch_queue_head
          /\ row.remaining_time \in -1 .. NotYet /\ row.fu \in 0 .. K2
          /\ row.occupied /\ row.fired /\ Memory(InstOf(row).op) => row.fu \in LsUnit
    /\ inst_cnt_sq = Cardinality(Occupied) /\ finished_fu \subseteq Occupied
    /\ register_file \in [Reg -> [tag : 0 .. instr_tag, ready : BOOLEAN]]
    /\ add_unit \in 0 .. K0 /\ ls_unit \in 0 .. K2
    /\ branch_table \in [Entries -> 0 .. 3] /\ ghr \in Entries
    /\ result \in Seq(Tag)

InSeq(s, seq) == \E k \in DOMAIN seq : seq[k] = s

\* What the processor has done with the instruction of sequential tag s.
Phase(s) ==
    IF s >= dispatch_queue_tail THEN "unread"
    ELSE IF Inst(s).op = "NOP" \/ InSeq(s, result) THEN "done"
    ELSE IF \E i \in Fired : schedule_queue[i].seq = s THEN "executing" ELSE "waiting"

Abstract == INSTANCE Dataflow
    WITH phase        <- [i \in DOMAIN trace |-> Phase(i - 1)],
         mispredicted <- {i \in 1 .. dispatch_queue_tail : Mispredicted(i - 1)}

\* Renaming, the scheduling rules and the branch stall together: no instruction
\* fires before the values it reads are computed, before the accesses to its
\* address that precede it are over, or behind a branch that is mispredicted.
ImplementsDataflow == Abstract!Spec

\* The part of it that holds whatever order the sort gives the rows, as it rests on
\* the tags and on the stall alone: what is being executed has the values it reads,
\* and no mispredicted branch that has not retired before it.
ExecutesWithValues ==
    \A i \in DOMAIN trace :
        Phase(i - 1) = "executing" => Abstract!HasValues(i) /\ Abstract!NotSpeculative(i)

\* The units are given back once each, when the work in them ends, two steps of
\* the pipeline before the row that used them is free.
Working(ops) == {i \in Fired : /\ InstOf(schedule_queue[i]).op \in ops
                               /\ schedule_queue[i].remaining_time > 0}
UnitsConserved ==
    /\ add_unit = K0 - Cardinality(Working({"ADD", "BR"}))
    /\ ls_unit = K2 - Cardinality(Working({"LOAD", "STORE"}))
    /\ \A u \in LsUnit : ls_functional_unit[u].busy <=>
          \E i \in Working({"LOAD", "STORE"}) : schedule_queue[i].fu = u

\* The oldest first: when instructions of one kind compete for a unit, none fires
\* in front of an older one that is ready.  The loop relies on the order that the
\* sort gives the rows.
SameUnit(i, j) == \E ops \in {{"ADD", "BR"}, {"MUL"}} :
                     {InstOf(schedule_queue[i]).op, InstOf(schedule_queue[j]).op} \subseteq ops
Ready(i)       == schedule_queue[i].src_reg_ready = <<TRUE, TRUE>>
OldestFirst ==
    [][step = "schedule_instr" =>
        \A i, j \in {k \in Occupied : Waits(schedule_queue[k])} :
            /\ SameUnit(i, j) /\ schedule_queue[i].seq < schedule_queue[j].seq /\ Ready(i)
            /\ schedule_queue'[j].fired
            => schedule_queue'[i].fired]_vars

\* The times that complete_proc prints for an instruction are those of five stages
\* in different cycles, one after the other.
StagesInOrder ==
    /\ \A s \in Tag : \A k \in 1 .. Len(times[s]) - 1 : times[s][k] < times[s][k + 1]
    /\ \A s \in ToSet(result) : Len(times[s]) = 5

\* When the processor stops, every instruction but the NOPs has retired, once.
AllRetire ==
    step = "done" => /\ Len(result) = Cardinality(ToSet(result))
                     /\ ToSet(result) = {s \in Tag : Inst(s).op # "NOP"}

\* It does stop: no unit, row or stall is held for ever.  The bound is what the
\* instructions take if none overlaps with another: for a NOP the cycle that drops it,
\* for the others one in schedule_instr and the longest time, and for a branch one more
\* for the dispatch that waits for it.  Three cycles fill and empty the pipeline.
CyclesFor(op) == CASE Memory(op)          -> 1 + MissTime
                   [] op = "MUL"          -> 1 + MulTime
                   [] op = "BR"           -> 3
                   [] op = "ADD"          -> 2
                   [] op = "NOP"          -> 1
Total(n, f)   == LET sum[m \in 0 .. n] == IF m = 0 THEN 0 ELSE sum[m - 1] + f[m - 1]
                 IN  sum[n]
WorstCase     == 3 + Total(Len(trace), [s \in Tag |-> CyclesFor(Inst(s).op)])
RetiresInTime == cycle <= WorstCase
=============================================================================
