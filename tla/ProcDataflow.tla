----------------------------- MODULE ProcDataflow ----------------------------
(***************************************************************************)
(* What ProcSim promises of the values and of the instructions: nothing    *)
(* executes before its values are computed or behind a mispredicted        *)
(* branch, and every instruction retires once, whatever order the sort     *)
(* gives the rows; and, when the sort is stable, the oldest instruction    *)
(* fires first, memory accesses keep their order, and the processor as a   *)
(* whole implements Dataflow.                                              *)
(*                                                                         *)
(* The code never looks for the instruction that computes a value; it      *)
(* compares registers and tags.  FlowInv says that the tag leads to the    *)
(* right row, as long as the row is there.  Nor does it look for older     *)
(* instructions in schedule_instr; it takes the rows as they come.         *)
(* OrderInv says that they come by age, and that every row above one that  *)
(* is about to fire has been marked.                                       *)
(***************************************************************************)
EXTENDS ProcProofs

Over == ToSet(result)

\* The rows whose instructions have not passed on their results.
Live == Occupied \ finished_fu

\* Instruction p is the one whose result those from s on find in register r.
WriterOf(s, r, p) ==
    /\ p \in 0 .. s - 1 /\ Inst(p).dest = r /\ Inst(p).op # "NOP"
    /\ \A k \in p + 1 .. s - 1 : Inst(k).dest = r => Inst(k).op = "NOP"

\* Every dispatched instruction is in a live row or has retired.
KeptOK(over, rows, live, head) ==
    /\ \A s \in 0 .. head - 1 : Inst(s).op = "NOP" \/ s \in over \/ \E i \in live : rows[i].seq = s
    /\ \A i \in OccupiedIn(rows) : InstOf(rows[i]).op # "NOP"

\* Nothing is dispatched behind a mispredicted branch that has not retired.
StallOK(over, head, stalled) ==
    \A s \in 0 .. head - 1 : Mispredicted(s) => s \in over \/ (stalled /\ s = head - 1)

\* The value that register r has after the first s instructions is there, or is
\* computed under tag in a live row.
Comes(over, rows, live, s, r, ready, tag) ==
    IF ready THEN \A p : WriterOf(s, r, p) => p \in over
    ELSE \E j \in live : /\ rows[j].dest_reg_tag = tag /\ InstOf(rows[j]).dest = r
                         /\ WriterOf(s, r, rows[j].seq)

TagsOK(rows, limit) ==
    /\ \A i \in OccupiedIn(rows) : rows[i].dest_reg_tag < limit
    /\ \A i, j \in OccupiedIn(rows) : rows[i].dest_reg_tag = rows[j].dest_reg_tag => i = j

SourceOK(over, rows, live, row, k) ==
    LET r == InstOf(row).src[k]
    IN  r # -1 => Comes(over, rows, live, row.seq, r, row.src_reg_ready[k], row.src_reg_tag[k])

SourcesOK(over, rows, live) ==
    \A i \in OccupiedIn(rows), k \in 1 .. 2 : SourceOK(over, rows, live, rows[i], k)

RegistersOK(over, rows, live, head, regs) ==
    \A r \in Reg \ {-1} : Comes(over, rows, live, head, r, regs[r].ready, regs[r].tag)

ReadyOK(rows) == \A i \in FiredIn(rows) : rows[i].src_reg_ready = <<TRUE, TRUE>>

\* All that a step has to keep of the rows, and the rest.
FlowOK(over, rows, live, head, limit, regs, stalled) ==
    /\ KeptOK(over, rows, live, head) /\ StallOK(over, head, stalled)
    /\ TagsOK(rows, limit) /\ SourcesOK(over, rows, live)
    /\ RegistersOK(over, rows, live, head, regs) /\ ReadyOK(rows)

FlowInv == FlowOK(Over, schedule_queue, Live, dispatch_queue_head, instr_tag, register_file,
                  branch_started)

OnceInv ==
    /\ \A s \in Over : Inst(s).op # "NOP"
    /\ \A j, k \in DOMAIN result : result[j] = result[k] => j = k
    /\ ~continue_fetch => dispatch_queue_tail = Len(trace)
    /\ step = "done" => /\ inst_cnt_sq = 0 /\ ~continue_fetch
                        /\ dispatch_queue_head = dispatch_queue_tail

DataInv == FlowInv /\ OnceInv

-----------------------------------------------------------------------------
(* The elements of sequences. *)

LEMMA Elements ==
    ASSUME NEW S, NEW q \in Seq(S)
    PROVE  /\ Len(q) \in Nat /\ DOMAIN q = 1 .. Len(q) /\ ToSet(q) \subseteq S
           /\ \A s : s \in ToSet(q) <=> \E k \in 1 .. Len(q) : q[k] = s
           /\ \A s : InSeq(s, q) <=> s \in ToSet(q)
<1>1. Len(q) \in Nat /\ DOMAIN q = 1 .. Len(q) /\ \A k \in 1 .. Len(q) : q[k] \in S
  BY ElementOfSeq
<1>2. \A s : s \in ToSet(q) <=> \E k \in 1 .. Len(q) : q[k] = s
  BY <1>1 DEF ToSet
<1>3. \A s : InSeq(s, q) <=> s \in ToSet(q)
  BY <1>1, <1>2 DEF InSeq
<1> QED
  BY <1>1, <1>2, <1>3

Distinct(q) == \A j, k \in DOMAIN q : q[j] = q[k] => j = k

LEMMA Appended ==
    ASSUME NEW S, NEW q \in Seq(S), NEW s \in S, s \notin ToSet(q), Distinct(q)
    PROVE  ToSet(Append(q, s)) = ToSet(q) \cup {s} /\ Distinct(Append(q, s))
<1> DEFINE a == Append(q, s)
<1>1. /\ a \in Seq(S) /\ Len(a) = Len(q) + 1 /\ Len(q) \in Nat
      /\ \A k \in 1 .. Len(q) : a[k] = q[k]
      /\ a[Len(q) + 1] = s
  OBVIOUS
<1> HIDE DEF a
<1>2. /\ DOMAIN q = 1 .. Len(q) /\ DOMAIN a = 1 .. Len(q) + 1
      /\ \A x : x \in ToSet(q) <=> \E k \in 1 .. Len(q) : q[k] = x
      /\ \A x : x \in ToSet(a) <=> \E k \in 1 .. Len(q) + 1 : a[k] = x
  BY <1>1, Elements
<1>3. \A k \in 1 .. Len(q) + 1 : k \in 1 .. Len(q) \/ k = Len(q) + 1
  BY <1>1
<1>4. Len(q) + 1 \in 1 .. Len(q) + 1 /\ \A k \in 1 .. Len(q) : k \in 1 .. Len(q) + 1
  BY <1>1
<1>5. ToSet(a) = ToSet(q) \cup {s}
  BY <1>1, <1>2, <1>3, <1>4
<1>6. Distinct(a)
  BY <1>1, <1>2, <1>3 DEF Distinct
<1> QED
  BY <1>5, <1>6 DEF a

LEMMA Joined ==
    ASSUME NEW S, NEW q \in Seq(S), NEW t \in Seq(S), Distinct(q), Distinct(t),
           ToSet(q) \cap ToSet(t) = {}
    PROVE  ToSet(q \o t) = ToSet(q) \cup ToSet(t) /\ Distinct(q \o t)
<1> DEFINE a == q \o t
<1>1. /\ a \in Seq(S) /\ Len(a) = Len(q) + Len(t) /\ Len(q) \in Nat /\ Len(t) \in Nat
      /\ \A k \in 1 .. Len(q) : a[k] = q[k]
      /\ \A k \in 1 .. Len(t) : a[Len(q) + k] = t[k]
  BY ConcatProperties, LenProperties
<1> HIDE DEF a
<1>2. /\ DOMAIN q = 1 .. Len(q) /\ DOMAIN t = 1 .. Len(t) /\ DOMAIN a = 1 .. Len(a)
      /\ \A x : x \in ToSet(q) <=> \E k \in 1 .. Len(q) : q[k] = x
      /\ \A x : x \in ToSet(t) <=> \E k \in 1 .. Len(t) : t[k] = x
      /\ \A x : x \in ToSet(a) <=> \E k \in 1 .. Len(a) : a[k] = x
  BY <1>1, Elements
<1>3. \A k \in 1 .. Len(a) : \/ k \in 1 .. Len(q) /\ a[k] = q[k]
                             \/ /\ k - Len(q) \in 1 .. Len(t) /\ k = Len(q) + (k - Len(q))
                                /\ a[k] = t[k - Len(q)]
  <2> SUFFICES ASSUME NEW k \in 1 .. Len(a), k \notin 1 .. Len(q)
               PROVE  /\ k - Len(q) \in 1 .. Len(t) /\ k = Len(q) + (k - Len(q))
                      /\ a[k] = t[k - Len(q)]
    BY <1>1
  <2>1. k - Len(q) \in 1 .. Len(t) /\ k = Len(q) + (k - Len(q))
    BY <1>1
  <2> QED BY <1>1, <2>1
<1>4. /\ \A k \in 1 .. Len(q) : k \in 1 .. Len(a)
      /\ \A k \in 1 .. Len(t) : Len(q) + k \in 1 .. Len(a)
  BY <1>1
<1>5. ToSet(a) = ToSet(q) \cup ToSet(t)
  <2>1. \A x : x \in ToSet(a) => x \in ToSet(q) \/ x \in ToSet(t)
    BY <1>2, <1>3
  <2>2. \A x : x \in ToSet(q) \/ x \in ToSet(t) => x \in ToSet(a)
    BY <1>1, <1>2, <1>4
  <2> QED BY <2>1, <2>2
<1>6. Distinct(a)
  <2> SUFFICES ASSUME NEW j \in 1 .. Len(a), NEW k \in 1 .. Len(a), a[j] = a[k] PROVE j = k
    BY <1>2 DEF Distinct
  <2>1. \A x \in 1 .. Len(q), y \in 1 .. Len(t) : q[x] # t[y]
    BY <1>2
  <2>2. CASE j \in 1 .. Len(q) /\ k \in 1 .. Len(q)
    <3>1. a[j] = q[j] /\ a[k] = q[k]
      BY <1>1, <2>2
    <3> QED BY <1>2, <2>2, <3>1 DEF Distinct
  <2>3. CASE j \notin 1 .. Len(q) /\ k \notin 1 .. Len(q)
    <3> DEFINE x == j - Len(q)
               y == k - Len(q)
    <3>1. x \in 1 .. Len(t) /\ y \in 1 .. Len(t) /\ t[x] = a[j] /\ t[y] = a[k]
      BY <1>3, <2>3
    <3> HIDE DEF x, y
    <3>2. x = y
      BY <1>2, <3>1 DEF Distinct
    <3> QED BY <1>1, <3>2 DEF x, y
  <2> QED BY <1>3, <2>1, <2>2, <2>3
<1> QED
  BY <1>5, <1>6 DEF a

-----------------------------------------------------------------------------
(* The values that come, when rows and registers change. *)

LEMMA WriterUnique ==
    ASSUME NEW s \in Nat, NEW r, NEW p, NEW q, WriterOf(s, r, p), WriterOf(s, r, q)
    PROVE  p = q
<1>1. p \in Nat /\ q \in Nat /\ p < s /\ q < s
  BY DEF WriterOf
<1>2. ~(p < q) /\ ~(q < p)
  <2>1. p < q => q \in p + 1 .. s - 1
    BY <1>1
  <2>2. q < p => p \in q + 1 .. s - 1
    BY <1>1
  <2> QED BY <2>1, <2>2 DEF WriterOf
<1> QED
  BY <1>1, <1>2

\* Instructions that do not write r change nothing for those behind them.
LEMMA SameWriters ==
    ASSUME NEW s \in Nat, NEW t \in Nat, s <= t, NEW r,
           \A k \in s .. t - 1 : Inst(k).dest = r => Inst(k).op = "NOP"
    PROVE  \A p : WriterOf(t, r, p) <=> WriterOf(s, r, p)
<1> SUFFICES ASSUME NEW p PROVE WriterOf(t, r, p) <=> WriterOf(s, r, p)
  OBVIOUS
<1>1. ASSUME WriterOf(s, r, p) PROVE WriterOf(t, r, p)
  <2>1. p \in 0 .. t - 1
    BY <1>1 DEF WriterOf
  <2>2. \A k \in p + 1 .. t - 1 : k \in p + 1 .. s - 1 \/ k \in s .. t - 1
    OBVIOUS
  <2> QED BY <1>1, <2>1, <2>2 DEF WriterOf
<1>2. ASSUME WriterOf(t, r, p) PROVE WriterOf(s, r, p)
  <2>1. p \in 0 .. t - 1 /\ p \notin s .. t - 1
    BY <1>2 DEF WriterOf
  <2>2. p \in 0 .. s - 1 /\ \A k \in p + 1 .. s - 1 : k \in p + 1 .. t - 1
    BY <2>1
  <2> QED BY <1>2, <2>2 DEF WriterOf
<1> QED
  BY <1>1, <1>2

LEMMA LastWriter ==
    ASSUME NEW s \in Nat, NEW r, Inst(s).dest = r, Inst(s).op # "NOP"
    PROVE  WriterOf(s + 1, r, s)
<1>1. s \in 0 .. s + 1 - 1 /\ \A k \in s + 1 .. s + 1 - 1 : FALSE
  OBVIOUS
<1> QED
  BY <1>1 DEF WriterOf

\* The live rows are live still, wherever they are now.
LEMMA ComesStill ==
    ASSUME NEW over, NEW rows, NEW live, NEW new, NEW still, NEW s, NEW r, NEW ready, NEW tag,
           Comes(over, rows, live, s, r, ready, tag),
           \A j \in live : \E i \in still : /\ new[i].dest_reg_tag = rows[j].dest_reg_tag
                                            /\ new[i].seq = rows[j].seq
    PROVE  Comes(over, new, still, s, r, ready, tag)
<1>1. CASE ready
  BY <1>1 DEF Comes
<1>2. CASE ~ready
  <2>1. PICK j \in live : /\ rows[j].dest_reg_tag = tag /\ InstOf(rows[j]).dest = r
                          /\ WriterOf(s, r, rows[j].seq)
    BY <1>2 DEF Comes
  <2>2. PICK i \in still : new[i].dest_reg_tag = rows[j].dest_reg_tag /\ new[i].seq = rows[j].seq
    OBVIOUS
  <2> QED BY <1>2, <2>1, <2>2 DEF Comes, InstOf
<1> QED
  BY <1>1, <1>2

LEMMA ComesLater ==
    ASSUME NEW over, NEW rows, NEW live, NEW s \in Nat, NEW t \in Nat, s <= t, NEW r, NEW ready, NEW tag,
           Comes(over, rows, live, s, r, ready, tag),
           \A k \in s .. t - 1 : Inst(k).dest = r => Inst(k).op = "NOP"
    PROVE  Comes(over, rows, live, t, r, ready, tag)
<1>1. \A p : WriterOf(t, r, p) <=> WriterOf(s, r, p)
  BY SameWriters
<1> QED
  BY <1>1 DEF Comes

\* The invariant after a step that makes these rows.
LEMMA FlowStep ==
    ASSUME NEW over, NEW rows, NEW live, NEW head, NEW limit, NEW regs, NEW stalled,
           FlowOK(over, rows, live, head, limit, regs, stalled), UNCHANGED trace,
           \A s \in 0 .. head - 1 : Inst(s).op = "BR" => predicted_br'[s] = predicted_br[s],
           Over' = over, schedule_queue' = rows, Live' = live, dispatch_queue_head' = head,
           instr_tag' = limit, register_file' = regs, branch_started' = stalled
    PROVE  FlowInv'
<1>1. \A s \in 0 .. head - 1 : Mispredicted(s)' => Mispredicted(s)
  BY DEF Mispredicted, Inst
<1>2. KeptOK(Over, schedule_queue, Live, dispatch_queue_head)'
  BY DEF FlowOK, KeptOK, OccupiedIn, InstOf, Inst
<1>3. StallOK(Over, dispatch_queue_head, branch_started)'
  BY <1>1 DEF FlowOK, StallOK
<1>4. TagsOK(schedule_queue, instr_tag)' /\ ReadyOK(schedule_queue)'
  BY DEF FlowOK, TagsOK, ReadyOK, OccupiedIn, FiredIn
<1>5. \A s, r, p : WriterOf(s, r, p)' <=> WriterOf(s, r, p)
  BY DEF WriterOf, Inst
<1>6. SourcesOK(Over, schedule_queue, Live)'
  <2>1. \A row : InstOf(row)' = InstOf(row)
    BY DEF InstOf, Inst
  <2>2. \A row, k : SourceOK(Over, schedule_queue, Live, row, k)' <=> SourceOK(over, rows, live, row, k)
    BY <1>5, <2>1 DEF SourceOK, Comes
  <2> QED BY <2>2 DEF FlowOK, SourcesOK, OccupiedIn
<1>7. RegistersOK(Over, schedule_queue, Live, dispatch_queue_head, register_file)'
  BY <1>5 DEF FlowOK, RegistersOK, Comes, InstOf, Inst
<1> QED
  BY <1>2, <1>3, <1>4, <1>6, <1>7 DEF FlowInv, FlowOK

\* Rows move, and some change otherwise; those that are occupied still hold what they held.
LEMMA FlowMoves ==
    ASSUME NEW over, NEW rows, NEW live, NEW head, NEW limit, NEW regs, NEW stalled,
           FlowOK(over, rows, live, head, limit, regs, stalled), NEW new, NEW still, NEW from,
           \A i \in OccupiedIn(new) : /\ from[i] \in OccupiedIn(rows)
                                      /\ new[i].seq = rows[from[i]].seq
                                      /\ Operands(new[i], rows[from[i]]),
           \A i, j \in OccupiedIn(new) : from[i] = from[j] => i = j,
           still \subseteq OccupiedIn(new), \A j \in live : \E i \in still : from[i] = j, ReadyOK(new)
    PROVE  FlowOK(over, new, still, head, limit, regs, stalled)
<1>1. \A j \in live : \E i \in still : /\ new[i].dest_reg_tag = rows[j].dest_reg_tag
                                       /\ new[i].seq = rows[j].seq
  BY DEF Operands
<1>2. KeptOK(over, new, still, head)
  <2>1. \A i \in OccupiedIn(new) : InstOf(new[i]).op # "NOP"
    BY DEF FlowOK, KeptOK, InstOf
  <2> QED BY <1>1, <2>1 DEF FlowOK, KeptOK
<1>3. TagsOK(new, limit)
  BY DEF FlowOK, TagsOK, Operands
<1>4. SourcesOK(over, new, still)
  <2> SUFFICES ASSUME NEW i \in OccupiedIn(new), NEW k \in 1 .. 2 PROVE SourceOK(over, new, still, new[i], k)
    BY DEF SourcesOK
  <2> DEFINE row == rows[from[i]]
             r   == InstOf(row).src[k]
  <2>1. SourceOK(over, rows, live, row, k)
    BY DEF FlowOK, SourcesOK
  <2>2. InstOf(new[i]) = InstOf(row) /\ new[i].seq = row.seq /\ Operands(new[i], row)
    BY DEF InstOf
  <2>3. r # -1 => Comes(over, rows, live, row.seq, r, row.src_reg_ready[k], row.src_reg_tag[k])
    BY <2>1 DEF SourceOK
  <2>4. r # -1 => Comes(over, new, still, row.seq, r, row.src_reg_ready[k], row.src_reg_tag[k])
    BY <1>1, <2>3, ComesStill
  <2> QED BY <2>2, <2>4 DEF SourceOK, Operands
<1>5. RegistersOK(over, new, still, head, regs)
  <2> SUFFICES ASSUME NEW r \in Reg \ {-1} PROVE Comes(over, new, still, head, r, regs[r].ready, regs[r].tag)
    BY DEF RegistersOK
  <2>1. Comes(over, rows, live, head, r, regs[r].ready, regs[r].tag)
    BY DEF FlowOK, RegistersOK
  <2> QED BY <1>1, <2>1, ComesStill
<1> QED
  BY <1>2, <1>3, <1>4, <1>5 DEF FlowOK

LEMMA FlowInit == ASSUME Init PROVE DataInv
<1>1. /\ Over = {} /\ OccupiedIn(schedule_queue) = {} /\ FiredIn(schedule_queue) = {} /\ Occupied = {}
      /\ dispatch_queue_head = 0 /\ \A r \in Reg : register_file[r].ready
  <2>1. \A i \in Row : ~schedule_queue[i].occupied
    BY EmptyRowType DEF Init
  <2>2. /\ OccupiedIn(schedule_queue) = {} /\ FiredIn(schedule_queue) = {} /\ Occupied = {}
    BY <2>1 DEF OccupiedIn, FiredIn, Occupied
  <2>3. dispatch_queue_head = 0 /\ \A r \in Reg : register_file[r].ready
    BY DEF Init
  <2>4. Over = {}
    <3>1. result \in Seq(Nat) /\ 1 .. Len(result) = {}
      BY DEF Init
    <3>2. \A s : s \in ToSet(result) <=> \E k \in 1 .. Len(result) : result[k] = s
      BY <3>1, Elements
    <3> QED BY <3>1, <3>2 DEF Over
  <2> QED BY <2>2, <2>3, <2>4
<1>2. \A r, p : ~WriterOf(0, r, p)
  BY DEF WriterOf
<1>3. FlowInv
  <2>1. \A s : s \notin 0 .. 0 - 1
    OBVIOUS
  <2> QED BY <1>1, <1>2, <2>1
        DEF FlowInv, FlowOK, KeptOK, StallOK, TagsOK, SourcesOK, RegistersOK, Comes, ReadyOK
<1>4. OnceInv
  BY <1>1 DEF OnceInv, Init
<1> QED
  BY <1>3, <1>4 DEF DataInv

-----------------------------------------------------------------------------
(* Steps that leave the instructions where they are. *)

LEMMA ExecuteFlow == ASSUME Inv, DataInv, ExecuteInstr PROVE DataInv'
<1> DEFINE new  == Executed.rows
           from == [i \in Row |-> i]
<1>0. step = "execute_instr" /\ step' = "schedule_instr" /\ schedule_queue \in [Row -> RowType]
  BY DEF Inv, QueueInv, RowsOK, ExecuteInstr, At
<1>1. schedule_queue' = new /\ \A i \in Row : IF i \in Fired THEN new[i] \in Ran(i)
                                              ELSE new[i] = schedule_queue[i]
  BY <1>0, ExecutedRows DEF ExecuteInstr
<1> HIDE DEF new
<1>2. \A i \in Row : /\ new[i].occupied = schedule_queue[i].occupied /\ new[i].seq = schedule_queue[i].seq
                     /\ new[i].fired = schedule_queue[i].fired /\ Operands(new[i], schedule_queue[i])
  BY <1>0, <1>1 DEF Ran, RowType, Operands
<1>3. OccupiedIn(new) = Occupied /\ FiredIn(new) = Fired
  BY <1>2 DEF OccupiedIn, Occupied, FiredIn, Fired
<1>4. UNCHANGED <<trace, continue_fetch, dispatch_queue_tail, predicted_br, dispatch_queue_head,
                  inst_cnt_sq, finished_fu, instr_tag, register_file, branch_started, result>>
  BY DEF ExecuteInstr, fetching, tags
<1>5. Live' = Live /\ Over' = Over
  BY <1>1, <1>3, <1>4 DEF Live, Over, Occupied, OccupiedIn
<1>6. FlowOK(Over, new, Live, dispatch_queue_head, instr_tag, register_file, branch_started)
  <2>1. \A i \in OccupiedIn(new) : /\ from[i] \in OccupiedIn(schedule_queue) /\ from[i] = i
                                   /\ new[i].seq = schedule_queue[from[i]].seq
                                   /\ Operands(new[i], schedule_queue[from[i]])
    BY <1>2, <1>3, RowSet DEF OccupiedIn
  <2>2. Live \subseteq OccupiedIn(new) /\ \A j \in Live : \E i \in Live : from[i] = j
    BY <1>3 DEF Live, Occupied
  <2>3. ReadyOK(new)
    BY <1>2, <1>3, RowSet DEF DataInv, FlowInv, FlowOK, ReadyOK, Operands, Fired, Occupied
  <2> HIDE DEF from
  <2> QED BY <2>1, <2>2, <2>3, FlowMoves DEF DataInv, FlowInv
<1>7. FlowInv'
  BY <1>1, <1>4, <1>5, <1>6, FlowStep
<1>8. OnceInv'
  BY <1>0, <1>4, <1>5 DEF DataInv, OnceInv, Inst
<1> QED
  BY <1>7, <1>8 DEF DataInv

LEMMA ScheduleFlow == ASSUME Inv, DataInv, ScheduleInstr PROVE DataInv'
<1> DEFINE new  == Scheduled.rows
           from == [i \in Row |-> i]
<1>0. step' = "dispatch_instr"
  BY DEF ScheduleInstr, At
<1>1. schedule_queue' = new /\ \A i \in Row : IssuedAs(new[i], schedule_queue[i])
  BY ScheduledOK DEF ScheduleInstr, IssueOK
<1> HIDE DEF new
<1>2. OccupiedIn(new) = Occupied
  BY <1>1 DEF IssuedAs, OccupiedIn, Occupied
<1>3. \A i \in FiredIn(new) : new[i].src_reg_ready = <<TRUE, TRUE>>
  <2> SUFFICES ASSUME NEW i \in FiredIn(new) PROVE new[i].src_reg_ready = <<TRUE, TRUE>>
    OBVIOUS
  <2>1. i \in Row /\ new[i].fired /\ i \in Occupied /\ IssuedAs(new[i], schedule_queue[i])
    BY <1>1, <1>2 DEF FiredIn, Occupied
  <2>2. CASE Waits(schedule_queue[i])
    BY <2>1, <2>2 DEF IssuedAs, Operands
  <2>3. CASE ~Waits(schedule_queue[i])
    <3>1. i \in FiredIn(schedule_queue)
      BY <2>1, <2>3 DEF IssuedAs, Waits, FiredIn, OccupiedIn, Occupied
    <3>2. schedule_queue[i].src_reg_ready = <<TRUE, TRUE>>
      BY <3>1 DEF DataInv, FlowInv, FlowOK, ReadyOK
    <3> QED BY <2>1, <3>2 DEF IssuedAs, Operands
  <2> QED BY <2>2, <2>3
<1>4. UNCHANGED <<trace, continue_fetch, dispatch_queue_tail, predicted_br, dispatch_queue_head,
                  inst_cnt_sq, finished_fu, instr_tag, register_file, branch_started, result>>
  BY DEF ScheduleInstr, fetching, tags
<1>5. Live' = Live /\ Over' = Over
  BY <1>1, <1>2, <1>4 DEF Live, Over, Occupied, OccupiedIn
<1>6. FlowOK(Over, new, Live, dispatch_queue_head, instr_tag, register_file, branch_started)
  <2>1. \A i \in OccupiedIn(new) : /\ from[i] \in OccupiedIn(schedule_queue) /\ from[i] = i
                                   /\ new[i].seq = schedule_queue[from[i]].seq
                                   /\ Operands(new[i], schedule_queue[from[i]])
    BY <1>1, <1>2, RowSet DEF OccupiedIn, IssuedAs
  <2>2. Live \subseteq OccupiedIn(new) /\ \A j \in Live : \E i \in Live : from[i] = j
    BY <1>2 DEF Live, Occupied
  <2>3. ReadyOK(new)
    BY <1>3 DEF ReadyOK
  <2> HIDE DEF from
  <2> QED BY <2>1, <2>2, <2>3, FlowMoves DEF DataInv, FlowInv
<1>7. FlowInv'
  BY <1>1, <1>4, <1>5, <1>6, FlowStep
<1>8. OnceInv'
  BY <1>0, <1>4, <1>5 DEF DataInv, OnceInv, Inst
<1> QED
  BY <1>7, <1>8 DEF DataInv

-----------------------------------------------------------------------------
(* update_state: what retires passes on its result. *)

\* The instructions of the finished rows, each once.
LEMMA RetiredOnce ==
    ASSUME Inv
    PROVE  /\ Retirement.retired \in Seq(Retired) /\ ToSet(Retirement.retired) = Retired
           /\ Distinct(Retirement.retired)
<1> DEFINE n == schedule_queue_size
           upto(m) == {schedule_queue[i].seq : i \in {k \in Finished : k <= m}}
           W == [retired : Seq(Retired), predictor : PredictorType]
           I == [m \in 0 .. n |-> {x \in W : ToSet(x.retired) = upto(m) /\ Distinct(x.retired)}]
           w == [retired |-> <<>>, predictor |-> [table |-> branch_table, ghr |-> ghr]]
<1>1. /\ n \in Nat /\ Row = 1 .. n /\ Finished \subseteq Row /\ TypeInv
      /\ \A i, j \in Finished : schedule_queue[i].seq = schedule_queue[j].seq => i = j
  BY Queue, RowSet DEF Inv, QueueInv, RowsOK, Finished, Occupied
<1>2. w \in I[0]
  <2>1. [table |-> branch_table, ghr |-> ghr] \in PredictorType
    BY <1>1 DEF TypeInv, PredictorType
  <2>2. w \in W
    BY <2>1
  <2>3. <<>> \in Seq(Nat) /\ 1 .. Len(<<>>) = {} /\ DOMAIN <<>> = {}
    OBVIOUS
  <2>4. \A s : s \in ToSet(<<>>) <=> \E k \in 1 .. Len(<<>>) : <<>>[k] = s
    BY <2>3, Elements
  <2>5. \A k \in Finished : ~(k <= 0)
    BY <1>1
  <2>6. upto(0) = {} /\ ToSet(<<>>) = {} /\ Distinct(<<>>)
    BY <2>3, <2>4, <2>5 DEF Distinct
  <2>7. w.retired = <<>> /\ 0 \in 0 .. n
    BY <1>1
  <2> HIDE DEF W, w, upto
  <2> QED BY <2>2, <2>6, <2>7
<1>3. ASSUME NEW m \in Row, NEW x \in I[m - 1] PROVE Retire(x, m) \in I[m]
  <2> DEFINE s == schedule_queue[m].seq
  <2>1. m - 1 \in 0 .. n /\ m \in 0 .. n
    BY <1>1
  <2>2. x \in W /\ x.retired \in Seq(Retired) /\ ToSet(x.retired) = upto(m - 1) /\ Distinct(x.retired)
    BY <2>1
  <2>3. \A k \in Finished : k <= m <=> k <= m - 1 \/ k = m
    BY <1>1
  <2>4. CASE m \notin Finished
    <3>1. Retire(x, m) = x
      BY <2>4 DEF Retire
    <3>2. upto(m) = upto(m - 1)
      BY <2>3, <2>4
    <3> HIDE DEF upto, W
    <3> QED BY <2>1, <2>2, <3>1, <3>2
  <2>5. CASE m \in Finished
    <3> DEFINE next == IF Inst(s).op = "BR" THEN Train(x.predictor, s) ELSE x.predictor
    <3>1. Retire(x, m) = [retired |-> Append(x.retired, s), predictor |-> next]
      BY <2>5 DEF Retire
    <3>2. upto(m) = upto(m - 1) \cup {s}
      BY <2>3, <2>5
    <3>3. s \in Retired
      BY <2>5 DEF Retired
    <3>4. s \notin upto(m - 1)
      <4>1. \A k \in Finished : k <= m - 1 => k # m
        BY <1>1
      <4> QED BY <1>1, <2>5, <4>1
    <3>5. next \in PredictorType
      BY <2>2, TrainType
    <3>6. Append(x.retired, s) \in Seq(Retired)
      BY <2>2, <3>3
    <3> HIDE DEF upto, s, next
    <3>7. ToSet(Append(x.retired, s)) = upto(m) /\ Distinct(Append(x.retired, s))
      BY <2>2, <3>2, <3>3, <3>4, Appended
    <3>8. Retire(x, m) \in W /\ Retire(x, m).retired = Append(x.retired, s)
      BY <3>1, <3>5, <3>6
    <3> HIDE DEF W
    <3> QED BY <2>1, <3>7, <3>8
  <2> QED BY <2>4, <2>5
<1>4. upto(n) = Retired
  <2>1. \A k \in Finished : k <= n
    BY <1>1
  <2> QED BY <2>1 DEF Retired
<1> HIDE DEF w, I
<1>5. EachRow(Retire, w) \in I[n]
  BY <1>2, <1>3, RetireLoop
<1>6. Retirement \in I[n] /\ n \in 0 .. n
  BY <1>1, <1>5 DEF Retirement, w
<1> HIDE DEF n, upto
<1> QED
  BY <1>4, <1>6 DEF I

\* The tag leads to the row that computes the value, so that what waits for the value gets it
\* when that row is finished and not before.
LEMMA PassedOn ==
    ASSUME Inv, DataInv, UpdateState, NEW new, NEW s \in Nat, NEW r, NEW ready, NEW tag,
           Comes(Over, schedule_queue, Live, s, r, ready, tag),
           \A i \in Occupied : /\ new[i].seq = schedule_queue[i].seq
                               /\ new[i].dest_reg_tag = schedule_queue[i].dest_reg_tag
    PROVE  Comes(Over \cup Retired, new, Occupied \ Finished, s, r, ready \/ Written(r, tag), tag)
<1>1. /\ Live = Occupied /\ Finished \subseteq Occupied
      /\ \A i, j \in Occupied : schedule_queue[i].dest_reg_tag = schedule_queue[j].dest_reg_tag => i = j
  BY RowSet DEF Live, Finished, Inv, ClockInv, BetweenCycles, UpdateState, At, DataInv, FlowInv,
                FlowOK, TagsOK
<1>2. CASE ready
  BY <1>2 DEF Comes
<1>3. CASE ~ready
  <2>1. PICK j \in Occupied : /\ schedule_queue[j].dest_reg_tag = tag
                              /\ InstOf(schedule_queue[j]).dest = r
                              /\ WriterOf(s, r, schedule_queue[j].seq)
    BY <1>1, <1>3 DEF Comes
  <2>2. CASE Written(r, tag)
    <3>1. j \in Finished
      BY <1>1, <2>1, <2>2 DEF Written
    <3>2. schedule_queue[j].seq \in Retired
      BY <3>1 DEF Retired
    <3>3. \A p : WriterOf(s, r, p) => p = schedule_queue[j].seq
      BY <2>1, WriterUnique
    <3> QED BY <2>2, <3>2, <3>3 DEF Comes
  <2>3. CASE ~Written(r, tag)
    <3>1. j \in Occupied \ Finished
      BY <2>1, <2>3 DEF Written
    <3>2. InstOf(new[j]) = InstOf(schedule_queue[j])
      BY DEF InstOf
    <3> QED BY <1>3, <2>1, <2>3, <3>1, <3>2 DEF Comes
  <2> QED BY <2>2, <2>3
<1> QED
  BY <1>2, <1>3

LEMMA UpdateFlow == ASSUME Inv, DataInv, UpdateState PROVE DataInv'
<1> DEFINE new     == [i \in Row |-> Updated(i)]
           over    == Over \cup Retired
           live    == Occupied \ Finished
           regs    == [r \in Reg |-> [register_file[r] EXCEPT !.ready = @ \/ Written(r, register_file[r].tag)]]
           stalled == branch_started /\ ~Resolved
           head    == dispatch_queue_head
<1>0. /\ TypeInv /\ QueueInv /\ ClockInv /\ TimesInv /\ FlowInv /\ OnceInv
      /\ step' = "execute_instr" /\ finished_fu = {} /\ Live = Occupied /\ Finished \subseteq Occupied
      /\ Occupied \subseteq Row /\ head \in Nat
  BY DEF Inv, DataInv, UpdateState, At, ClockInv, BetweenCycles, Live, Finished, Occupied, TypeInv
<1>1. \A i \in Occupied :
          /\ new[i].occupied /\ new[i].seq = schedule_queue[i].seq /\ InstOf(new[i]) = InstOf(schedule_queue[i])
          /\ new[i].fired = schedule_queue[i].fired
          /\ new[i].dest_reg_tag = schedule_queue[i].dest_reg_tag
          /\ new[i].src_reg_tag = schedule_queue[i].src_reg_tag
          /\ new[i].src_reg_ready = [k \in 1 .. 2 |-> \/ schedule_queue[i].src_reg_ready[k]
                                                      \/ Written(InstOf(schedule_queue[i]).src[k],
                                                                 schedule_queue[i].src_reg_tag[k])]
          /\ schedule_queue[i].seq \in Nat
  <2> SUFFICES ASSUME NEW i \in Occupied
               PROVE  /\ new[i].occupied /\ new[i].seq = schedule_queue[i].seq
                      /\ new[i].fired = schedule_queue[i].fired
                      /\ new[i].dest_reg_tag = schedule_queue[i].dest_reg_tag
                      /\ new[i].src_reg_tag = schedule_queue[i].src_reg_tag
                      /\ new[i].src_reg_ready = [k \in 1 .. 2 |-> \/ schedule_queue[i].src_reg_ready[k]
                                                                  \/ Written(InstOf(schedule_queue[i]).src[k],
                                                                             schedule_queue[i].src_reg_tag[k])]
                      /\ schedule_queue[i].seq \in Nat
    BY DEF InstOf
  <2> DEFINE row   == schedule_queue[i]
             ready == [k \in 1 .. 2 |-> row.src_reg_ready[k] \/ Written(InstOf(row).src[k], row.src_reg_tag[k])]
  <2>1. row \in RowType /\ row.occupied /\ i \in Row
    BY <1>0 DEF QueueInv, RowsOK, Occupied
  <2>2. new[i] = [row EXCEPT !.ls_conflict_end = row.ls_conflict_end /\ i \notin Finished,
                             !.src_reg_ready = ready]
    BY <2>1 DEF Updated
  <2> HIDE DEF new, ready
  <2>3. new[i].occupied = row.occupied /\ new[i].fired = row.fired
    BY <2>1, <2>2 DEF RowType
  <2>6. new[i].seq = row.seq
    BY <2>1, <2>2 DEF RowType
  <2>4. new[i].dest_reg_tag = row.dest_reg_tag /\ new[i].src_reg_tag = row.src_reg_tag
    BY <2>1, <2>2 DEF RowType
  <2>5. new[i].src_reg_ready = ready /\ row.seq \in Nat
    BY <2>1, <2>2 DEF RowType
  <2> QED BY <2>1, <2>3, <2>4, <2>5, <2>6 DEF ready
<1>2. OccupiedIn(new) = Occupied /\ FiredIn(new) = Fired
  <2>1. \A i \in Row : i \notin Occupied => new[i] = schedule_queue[i]
    BY DEF Updated, Occupied
  <2> HIDE DEF new
  <2> QED BY <1>1, <2>1 DEF OccupiedIn, FiredIn, Occupied, Fired
<1> HIDE DEF new
<1>3. \A s \in Retired : s \in 0 .. head - 1 /\ s \notin Over /\ Inst(s).op # "NOP"
  <2> SUFFICES ASSUME NEW i \in Finished
               PROVE  LET s == schedule_queue[i].seq
                      IN  s \in 0 .. head - 1 /\ s \notin Over /\ Inst(s).op # "NOP"
    BY DEF Retired
  <2>1. /\ i \in Occupied /\ schedule_queue[i].fired /\ i \notin finished_fu
        /\ i \in OccupiedIn(schedule_queue)
    BY <1>0, RowSet DEF Finished
  <2>2. /\ schedule_queue[i].seq \in Nat /\ schedule_queue[i].seq < head
    BY <1>0, <1>1, <2>1 DEF QueueInv, RowsOK
  <2>3. Len(times[schedule_queue[i].seq]) # 5
    <3>1. LET n == Len(times[schedule_queue[i].seq])
          IN  n = 4 \/ (n = 3 /\ schedule_queue[i].remaining_time > 0)
      BY <1>0, <2>1 DEF TimesInv
    <3> QED BY <3>1
  <2>4. Over \subseteq {s \in Tag : Len(times[s]) = 5}
    BY <1>0, Elements DEF TimesInv, Over
  <2>5. InstOf(schedule_queue[i]).op # "NOP"
    BY <1>0, <2>1 DEF FlowInv, FlowOK, KeptOK
  <2> QED BY <1>0, <2>2, <2>3, <2>4, <2>5 DEF InstOf
<1>4. KeptOK(over, new, live, head)
  <2>1. ASSUME NEW s \in 0 .. head - 1, Inst(s).op # "NOP", s \notin over
        PROVE  \E i \in live : new[i].seq = s
    <3>1. PICK i \in Occupied : schedule_queue[i].seq = s
      BY <1>0, <2>1 DEF FlowInv, FlowOK, KeptOK
    <3>2. i \notin Finished
      BY <2>1, <3>1 DEF Retired
    <3> QED BY <1>1, <3>1, <3>2
  <2>2. \A i \in OccupiedIn(new) : InstOf(new[i]).op # "NOP"
    <3>1. \A i \in Occupied : InstOf(schedule_queue[i]).op # "NOP"
      BY <1>0, RowSet DEF FlowInv, FlowOK, KeptOK
    <3>2. \A i \in Occupied : InstOf(new[i]) = InstOf(schedule_queue[i])
      BY <1>1
    <3> QED BY <1>2, <3>1, <3>2
  <2> QED BY <2>1, <2>2 DEF KeptOK
<1>5. StallOK(over, head, stalled)
  <2> SUFFICES ASSUME NEW s \in 0 .. head - 1, Mispredicted(s), s \notin over
               PROVE  stalled /\ s = head - 1
    BY DEF StallOK
  <2>1. \A t \in 0 .. head - 1 : Mispredicted(t) => t \in Over \/ (branch_started /\ t = head - 1)
    BY <1>0 DEF FlowInv, FlowOK, StallOK
  <2>2. branch_started /\ s = head - 1
    BY <2>1
  <2>3. ~Resolved
    <3> SUFFICES ASSUME NEW t \in Retired, Mispredicted(t) PROVE FALSE
      BY DEF Resolved
    <3>1. t = head - 1
      BY <1>3, <2>1
    <3> QED BY <2>2, <3>1
  <2> QED BY <2>2, <2>3
<1>6. TagsOK(new, instr_tag)
  BY <1>0, <1>1, <1>2, RowSet DEF FlowInv, FlowOK, TagsOK
<1>7. SourcesOK(over, new, live)
  <2> SUFFICES ASSUME NEW i \in Occupied, NEW k \in 1 .. 2 PROVE SourceOK(over, new, live, new[i], k)
    BY <1>2 DEF SourcesOK
  <2> DEFINE row == schedule_queue[i]
             r   == InstOf(row).src[k]
  <2>1. r # -1 => Comes(Over, schedule_queue, Live, row.seq, r, row.src_reg_ready[k], row.src_reg_tag[k])
    BY <1>0, RowSet DEF FlowInv, FlowOK, SourcesOK, SourceOK
  <2>2. /\ row.seq \in Nat /\ new[i].seq = row.seq /\ InstOf(new[i]).src[k] = r
        /\ new[i].src_reg_tag[k] = row.src_reg_tag[k]
        /\ new[i].src_reg_ready[k] = (row.src_reg_ready[k] \/ Written(r, row.src_reg_tag[k]))
    <3>1. new[i].src_reg_ready = [m \in 1 .. 2 |-> row.src_reg_ready[m]
                                                  \/ Written(InstOf(row).src[m], row.src_reg_tag[m])]
      BY <1>1, Zenon
    <3>2. new[i].src_reg_ready[k] = (row.src_reg_ready[k] \/ Written(r, row.src_reg_tag[k]))
      BY <3>1, Zenon
    <3> QED BY <1>1, <3>2
  <2> HIDE DEF row, r
  <2>3. r # -1 => Comes(over, new, live, row.seq, r,
                        row.src_reg_ready[k] \/ Written(r, row.src_reg_tag[k]), row.src_reg_tag[k])
    <3>1. \A j \in Occupied : /\ new[j].seq = schedule_queue[j].seq
                              /\ new[j].dest_reg_tag = schedule_queue[j].dest_reg_tag
      BY <1>1
    <3> SUFFICES ASSUME r # -1
                 PROVE  Comes(over, new, live, row.seq, r,
                              row.src_reg_ready[k] \/ Written(r, row.src_reg_tag[k]), row.src_reg_tag[k])
      OBVIOUS
    <3>2. Comes(Over, schedule_queue, Live, row.seq, r, row.src_reg_ready[k], row.src_reg_tag[k])
      BY <2>1
    <3>3. row.seq \in Nat
      BY <2>2
    <3> QED BY <3>1, <3>2, <3>3, PassedOn
  <2>4. r # -1 => Comes(over, new, live, new[i].seq, r, new[i].src_reg_ready[k], new[i].src_reg_tag[k])
    BY <2>2, <2>3
  <2> QED BY <2>2, <2>4 DEF SourceOK
<1>8. RegistersOK(over, new, live, head, regs)
  <2> SUFFICES ASSUME NEW r \in Reg \ {-1} PROVE Comes(over, new, live, head, r, regs[r].ready, regs[r].tag)
    BY DEF RegistersOK
  <2>1. Comes(Over, schedule_queue, Live, head, r, register_file[r].ready, register_file[r].tag)
    BY <1>0 DEF FlowInv, FlowOK, RegistersOK
  <2>2. Comes(over, new, live, head, r, register_file[r].ready \/ Written(r, register_file[r].tag),
              register_file[r].tag)
    BY <1>0, <1>1, <2>1, PassedOn
  <2>3. /\ regs[r].tag = register_file[r].tag
        /\ regs[r].ready = (register_file[r].ready \/ Written(r, register_file[r].tag))
    BY <1>0 DEF TypeInv, RegType
  <2> QED BY <2>2, <2>3
<1>9. ReadyOK(new)
  <2> SUFFICES ASSUME NEW i \in Fired PROVE new[i].src_reg_ready = <<TRUE, TRUE>>
    BY <1>2 DEF ReadyOK
  <2>1. i \in Occupied /\ schedule_queue[i].src_reg_ready = <<TRUE, TRUE>>
    BY <1>0, RowSet DEF Fired, FlowInv, FlowOK, ReadyOK
  <2> DEFINE both == <<TRUE, TRUE>>
             ready == [k \in 1 .. 2 |-> both[k] \/ Written(InstOf(schedule_queue[i]).src[k],
                                                         schedule_queue[i].src_reg_tag[k])]
  <2>2. both \in Seq(BOOLEAN) /\ Len(both) = 2 /\ both[1] /\ both[2]
    OBVIOUS
  <2>3. i \in Occupied /\ schedule_queue[i].src_reg_ready = both
    BY <2>1
  <2> HIDE DEF both
  <2>4. DOMAIN both = 1 .. 2 /\ both = [k \in 1 .. 2 |-> both[k]] /\ \A k \in 1 .. 2 : both[k] \in BOOLEAN
    BY <2>2, ElementOfSeq
  <2>5. \A k \in 1 .. 2 : both[k]
    BY <2>2
  <2>6. \A k \in 1 .. 2 : ready[k] = both[k]
    BY <2>4, <2>5, Zenon
  <2>7. ready = [k \in 1 .. 2 |-> ready[k]]
    BY Zenon
  <2>8. new[i].src_reg_ready
          = [k \in 1 .. 2 |-> \/ schedule_queue[i].src_reg_ready[k]
                              \/ Written(InstOf(schedule_queue[i]).src[k], schedule_queue[i].src_reg_tag[k])]
    BY <1>1, <2>3
  <2>9. new[i].src_reg_ready = ready
    BY <2>3, <2>8, Zenon
  <2> HIDE DEF ready
  <2>10. ready = both
    BY <2>4, <2>6, <2>7, Zenon
  <2> QED BY <2>9, <2>10 DEF both
<1>10. FlowOK(over, new, live, head, instr_tag, regs, stalled)
  BY <1>4, <1>5, <1>6, <1>7, <1>8, <1>9 DEF FlowOK
<1>11. /\ schedule_queue' = new /\ register_file' = regs /\ branch_started' = stalled
       /\ finished_fu' = Finished /\ result' = result \o Retirement.retired
       /\ UNCHANGED <<trace, continue_fetch, dispatch_queue_tail, predicted_br, dispatch_queue_head, instr_tag>>
  BY DEF UpdateState, fetching, new
<1>12. Over' = over /\ Distinct(result')
  <2>1. result \in Seq(Nat) /\ Retirement.retired \in Seq(Nat)
    <3>1. {s \in Tag : Len(times[s]) = 5} \subseteq Nat
      BY <1>0, TraceType DEF TypeInv
    <3>2. Retired \subseteq Nat
      BY <1>3
    <3> QED BY <1>0, <3>1, <3>2, SeqMonotone, RetiredOnce DEF TimesInv
  <2>2. Distinct(result)
    BY <1>0 DEF OnceInv, Distinct
  <2>3. ToSet(Retirement.retired) = Retired /\ Distinct(Retirement.retired)
    BY RetiredOnce
  <2>4. ToSet(result) \cap ToSet(Retirement.retired) = {}
    BY <1>3, <2>3 DEF Over
  <2>5. /\ ToSet(result \o Retirement.retired) = ToSet(result) \cup ToSet(Retirement.retired)
        /\ Distinct(result \o Retirement.retired)
    BY <2>1, <2>2, <2>3, <2>4, Joined
  <2> QED BY <1>11, <2>3, <2>5 DEF Over
<1>13. Live' = live
  BY <1>2, <1>11 DEF Live, Occupied, OccupiedIn
<1>14. FlowInv'
  <2> HIDE DEF over, live, regs, stalled, head
  <2>1. dispatch_queue_head' = head
    BY <1>11 DEF head
  <2> QED BY <1>10, <1>11, <1>12, <1>13, <2>1, FlowStep
<1>15. OnceInv'
  <2>1. \A s \in over : Inst(s).op # "NOP"
    BY <1>0, <1>3 DEF OnceInv
  <2> QED BY <1>0, <1>11, <1>12, <2>1 DEF OnceInv, Inst, Distinct
<1> QED
  BY <1>14, <1>15 DEF DataInv

-----------------------------------------------------------------------------
(* dispatch_instr: registers are renamed. *)

LEMMA NopsSkipped ==
    ASSUME NEW head \in Nat, dispatch_queue_tail \in Nat, head <= dispatch_queue_tail, NEW s,
           s = SkipNops(head)
    PROVE  /\ s \in head .. dispatch_queue_tail /\ \A k \in head .. s - 1 : Inst(k).op = "NOP"
           /\ s # dispatch_queue_tail => Inst(s).op # "NOP"
<1> DEFINE T == {k \in head .. dispatch_queue_tail : k = dispatch_queue_tail \/ Inst(k).op # "NOP"}
<1>1. T \in SUBSET Nat /\ dispatch_queue_tail \in T /\ s = Min(T)
  BY DEF SkipNops
<1>2. \A k \in T : k \in Nat /\ (k = dispatch_queue_tail \/ Inst(k).op # "NOP")
  OBVIOUS
<1>3. \A k \in head .. dispatch_queue_tail : Inst(k).op # "NOP" => k \in T
  OBVIOUS
<1> HIDE DEF T
<1>4. s \in T /\ \A j \in T : s <= j
  BY <1>1, LeastOf
<1>5. s \in head .. dispatch_queue_tail
  BY SkipNopsRange
<1>6. \A k \in head .. s - 1 : k \in head .. dispatch_queue_tail /\ ~(s <= k)
  BY <1>5
<1> QED
  BY <1>2, <1>3, <1>4, <1>5, <1>6

LEMMA NewRowHolds ==
    ASSUME TypeInv, NEW x, FillOK(x), NEW s \in Tag, NEW k \in 1 .. 2, NEW r, r = Inst(s).src[k], r # -1
    PROVE  /\ NewRow(s, x).dest_reg_tag = x.tag
           /\ NewRow(s, x).src_reg_ready[k] = x.regs[r].ready
           /\ NewRow(s, x).src_reg_tag[k] = IF x.regs[r].ready THEN 0 ELSE x.regs[r].tag
<1> DEFINE ready(m) == Inst(s).src[m] = -1 \/ x.regs[Inst(s).src[m]].ready
           tag(m)   == IF ready(m) THEN 0 ELSE x.regs[Inst(s).src[m]].tag
           a == [m \in 1 .. 2 |-> ready(m)]
           b == [m \in 1 .. 2 |-> tag(m)]
<1>1. a[k] = ready(k) /\ b[k] = tag(k)
  BY Zenon
<1>2. ready(k) = x.regs[r].ready
  <2>1. Inst(s) \in Instruction /\ x.regs \in [Reg -> [tag : Nat, ready : BOOLEAN]]
    BY TraceType DEF TypeInv, FillOK, FillType
  <2>2. r \in Reg
    BY <2>1 DEF Instruction
  <2>3. x.regs[r].ready \in BOOLEAN
    BY <2>1, <2>2
  <2> QED BY <2>3
<1>3. tag(k) = IF x.regs[r].ready THEN 0 ELSE x.regs[r].tag
  BY <1>2
<1> HIDE DEF a, b
<1>4. NewRow(s, x) = [EmptyRow EXCEPT !.occupied = TRUE, !.seq = s, !.dest_reg_tag = x.tag,
                                      !.src_reg_ready = a, !.src_reg_tag = b]
  BY DEF NewRow, a, b
<1>5. EmptyRow \in RowType
  BY EmptyRowType
<1>6. NewRow(s, x).dest_reg_tag = x.tag /\ NewRow(s, x).src_reg_ready = a /\ NewRow(s, x).src_reg_tag = b
  BY <1>4, <1>5 DEF RowType
<1> QED
  BY <1>1, <1>2, <1>3, <1>6

FillFlow(x) == FlowOK(Over, x.rows, OccupiedIn(x.rows) \ finished_fu, x.head, x.tag, x.regs, x.stalled)

\* Instruction s, the next that is not a NOP, moves to row i.
LEMMA FilledFlow ==
    ASSUME Inv, NEW x, FillOK(x), FillFlow(x), NEW i \in Row, ~x.stalled, ~x.rows[i].occupied,
           NEW s \in x.head .. dispatch_queue_tail - 1, Inst(s).op # "NOP",
           \A k \in x.head .. s - 1 : Inst(k).op = "NOP", NEW new, new = [x.rows EXCEPT ![i] = NewRow(s, x)],
           NEW regs, regs = IF Inst(s).dest = -1 THEN x.regs
                            ELSE [x.regs EXCEPT ![Inst(s).dest] = [tag |-> x.tag, ready |-> FALSE]]
    PROVE  FlowOK(Over, new, OccupiedIn(new) \ finished_fu, s + 1, x.tag + 1, regs, Mispredicted(s))
<1> DEFINE live  == OccupiedIn(x.rows) \ finished_fu
           still == OccupiedIn(new) \ finished_fu
<1>1. /\ x.rows \in [Row -> RowType] /\ x.head \in Nat /\ x.tag \in Nat /\ TypeInv
      /\ dispatch_queue_tail \in Nat /\ Len(trace) \in Nat /\ dispatch_queue_tail <= Len(trace)
      /\ x.regs \in [Reg -> [tag : Nat, ready : BOOLEAN]] /\ RowsOK(x.rows, x.head)
  BY TraceType DEF Inv, TypeInv, FillOK, FillType
<1>2. s \in Nat /\ s \in Tag /\ x.head <= s /\ Inst(s) \in Instruction
  <2>1. s \in Nat /\ x.head <= s /\ s \in Tag
    BY <1>1 DEF Tag
  <2> QED BY <1>1, <2>1, TraceType DEF TypeInv
<1>3. /\ NewRow(s, x) \in RowType /\ NewRow(s, x).occupied /\ ~NewRow(s, x).fired /\ NewRow(s, x).seq = s
  BY <1>1, <1>2, NewRowType
<1>4. new[i] = NewRow(s, x) /\ \A j \in Row : j # i => new[j] = x.rows[j]
  BY <1>1
<1>5. /\ i \notin OccupiedIn(x.rows) /\ OccupiedIn(new) = OccupiedIn(x.rows) \cup {i}
      /\ \A j \in OccupiedIn(x.rows) : j \in Row /\ j # i /\ new[j] = x.rows[j]
  BY <1>3, <1>4 DEF OccupiedIn
<1>6. i \notin finished_fu
  <2>1. finished_fu \subseteq Occupied /\ \A j \in Occupied : x.rows[j] = schedule_queue[j]
    BY DEF Inv, ClockInv, Fired, Occupied, FillOK
  <2> QED BY <2>1 DEF Occupied
<1>7. live \subseteq still /\ i \in still /\ \A j \in live : j \in Row /\ new[j] = x.rows[j]
  BY <1>5, <1>6
<1> HIDE DEF live, still
<1>8. /\ KeptOK(Over, x.rows, live, x.head) /\ StallOK(Over, x.head, x.stalled)
      /\ TagsOK(x.rows, x.tag) /\ SourcesOK(Over, x.rows, live)
      /\ RegistersOK(Over, x.rows, live, x.head, x.regs) /\ ReadyOK(x.rows)
  BY DEF FillFlow, FlowOK, live
<1>9. \A t \in 0 .. s + 1 - 1 : t \in 0 .. x.head - 1 \/ t \in x.head .. s - 1 \/ t = s
  BY <1>1, <1>2
<1>10. InstOf(new[i]) = Inst(s)
  BY <1>3, <1>4 DEF InstOf
<1>11. KeptOK(Over, new, still, s + 1)
  <2>1. \A t \in 0 .. s + 1 - 1 : Inst(t).op = "NOP" \/ t \in Over \/ \E j \in still : new[j].seq = t
    <3> SUFFICES ASSUME NEW t \in 0 .. s + 1 - 1, Inst(t).op # "NOP", t \notin Over
                 PROVE  \E j \in still : new[j].seq = t
      OBVIOUS
    <3>1. CASE t = s
      BY <1>3, <1>4, <1>7, <3>1
    <3>2. CASE t \in 0 .. x.head - 1
      <4>1. PICK j \in live : x.rows[j].seq = t
        BY <1>8, <3>2 DEF KeptOK
      <4> QED BY <1>7, <4>1
    <3> QED BY <1>9, <3>1, <3>2
  <2>2. \A j \in OccupiedIn(new) : InstOf(new[j]).op # "NOP"
    BY <1>5, <1>8, <1>10 DEF KeptOK
  <2> QED BY <2>1, <2>2 DEF KeptOK
<1>12. StallOK(Over, s + 1, Mispredicted(s))
  <2> SUFFICES ASSUME NEW t \in 0 .. s + 1 - 1, Mispredicted(t)
               PROVE  t \in Over \/ (Mispredicted(s) /\ t = s + 1 - 1)
    BY DEF StallOK
  <2>1. Inst(t).op = "BR"
    BY DEF Mispredicted
  <2>2. t \in 0 .. x.head - 1 => t \in Over
    BY <1>8 DEF StallOK
  <2>3. t = s => t = s + 1 - 1
    BY <1>2
  <2> QED BY <1>9, <2>1, <2>2, <2>3
<1>13. TagsOK(new, x.tag + 1)
  <2>1. new[i].dest_reg_tag = x.tag
    <3>1. NewRow(s, x) = [EmptyRow EXCEPT !.occupied = TRUE, !.seq = s, !.dest_reg_tag = x.tag,
                              !.src_reg_ready = NewRow(s, x).src_reg_ready,
                              !.src_reg_tag = NewRow(s, x).src_reg_tag]
      BY EmptyRowType DEF NewRow, RowType
    <3> QED BY <1>4, <3>1, EmptyRowType DEF RowType
  <2>2. \A j \in OccupiedIn(x.rows) : x.rows[j].dest_reg_tag \in Nat /\ x.rows[j].dest_reg_tag < x.tag
    BY <1>1, <1>8 DEF TagsOK, RowType, OccupiedIn
  <2>3. \A j \in OccupiedIn(new) : new[j].dest_reg_tag < x.tag + 1
    BY <1>1, <1>5, <2>1, <2>2
  <2>4. \A j \in OccupiedIn(x.rows) : new[j].dest_reg_tag # new[i].dest_reg_tag
    BY <1>1, <1>5, <2>1, <2>2
  <2>5. \A j, k \in OccupiedIn(x.rows) : new[j].dest_reg_tag = new[k].dest_reg_tag => j = k
    BY <1>5, <1>8 DEF TagsOK
  <2> QED BY <1>5, <2>3, <2>4, <2>5 DEF TagsOK
<1>14. \A t, r, ready, tag : Comes(Over, x.rows, live, t, r, ready, tag)
                             => Comes(Over, new, still, t, r, ready, tag)
  <2> SUFFICES ASSUME NEW t, NEW r, NEW ready, NEW tag, Comes(Over, x.rows, live, t, r, ready, tag)
               PROVE  Comes(Over, new, still, t, r, ready, tag)
    OBVIOUS
  <2>1. CASE ready
    BY <2>1 DEF Comes
  <2>2. CASE ~ready
    <3>1. PICK j \in live : /\ x.rows[j].dest_reg_tag = tag /\ InstOf(x.rows[j]).dest = r
                            /\ WriterOf(t, r, x.rows[j].seq)
      BY <2>2 DEF Comes
    <3>2. j \in still /\ new[j] = x.rows[j]
      BY <1>7
    <3> QED BY <2>2, <3>1, <3>2 DEF Comes
  <2> QED BY <2>1, <2>2
<1>15. \A r : (Inst(s).dest # r \/ Inst(s).op = "NOP") =>
           \A k \in x.head .. s + 1 - 1 : Inst(k).dest = r => Inst(k).op = "NOP"
  <2>1. \A k \in x.head .. s + 1 - 1 : k \in x.head .. s - 1 \/ k = s
    BY <1>1, <1>2
  <2> QED BY <2>1
<1>16. SourcesOK(Over, new, still)
  <2> SUFFICES ASSUME NEW j \in OccupiedIn(new), NEW k \in 1 .. 2 PROVE SourceOK(Over, new, still, new[j], k)
    BY DEF SourcesOK
  <2>1. CASE j \in OccupiedIn(x.rows)
    <3>1. SourceOK(Over, x.rows, live, x.rows[j], k) /\ new[j] = x.rows[j]
      BY <1>5, <1>8, <2>1 DEF SourcesOK
    <3> QED BY <1>14, <3>1 DEF SourceOK
  <2>2. CASE j = i
    <3> DEFINE r == Inst(s).src[k]
    <3>1. SUFFICES ASSUME r # -1
                   PROVE  Comes(Over, new, still, s, r, new[i].src_reg_ready[k], new[i].src_reg_tag[k])
      BY <1>3, <1>4, <1>10, <2>2 DEF SourceOK
    <3>2. r \in Reg \ {-1}
      BY <1>2, <3>1 DEF Instruction
    <3>3. /\ new[i].src_reg_ready[k] = x.regs[r].ready
          /\ new[i].src_reg_tag[k] = IF x.regs[r].ready THEN 0 ELSE x.regs[r].tag
      <4>1. /\ NewRow(s, x).src_reg_ready[k] = x.regs[r].ready
            /\ NewRow(s, x).src_reg_tag[k] = IF x.regs[r].ready THEN 0 ELSE x.regs[r].tag
        <5>1. TypeInv /\ FillOK(x) /\ s \in Tag /\ r = Inst(s).src[k] /\ r # -1
          BY <1>1, <1>2, <3>1
        <5> HIDE DEF r
        <5> QED BY <5>1, NewRowHolds
      <4> QED BY <1>4, <4>1
    <3> HIDE DEF r
    <3>4. Comes(Over, x.rows, live, x.head, r, x.regs[r].ready, x.regs[r].tag)
      BY <1>8, <3>2 DEF RegistersOK
    <3>5. Comes(Over, x.rows, live, s, r, x.regs[r].ready, x.regs[r].tag)
      BY <1>1, <1>2, <3>4, ComesLater
    <3>6. Comes(Over, new, still, s, r, x.regs[r].ready, x.regs[r].tag)
      BY <1>14, <3>5
    <3> QED BY <3>3, <3>6 DEF Comes
  <2> QED BY <1>5, <2>1, <2>2
<1>17. RegistersOK(Over, new, still, s + 1, regs)
  <2> SUFFICES ASSUME NEW r \in Reg \ {-1} PROVE Comes(Over, new, still, s + 1, r, regs[r].ready, regs[r].tag)
    BY DEF RegistersOK
  <2>1. CASE r # Inst(s).dest
    <3>1. regs[r] = x.regs[r]
      BY <1>1, <2>1
    <3>2. Comes(Over, x.rows, live, x.head, r, x.regs[r].ready, x.regs[r].tag)
      BY <1>8 DEF RegistersOK
    <3>3. s + 1 \in Nat /\ x.head <= s + 1
      BY <1>1, <1>2
    <3>4. \A k \in x.head .. s + 1 - 1 : Inst(k).dest = r => Inst(k).op = "NOP"
      BY <1>15, <2>1
    <3>5. Comes(Over, x.rows, live, s + 1, r, x.regs[r].ready, x.regs[r].tag)
      BY <1>1, <3>2, <3>3, <3>4, ComesLater
    <3> QED BY <1>14, <3>1, <3>5
  <2>2. CASE r = Inst(s).dest
    <3>1. regs[r] = [tag |-> x.tag, ready |-> FALSE]
      BY <1>1, <2>2
    <3>2. WriterOf(s + 1, r, s)
      BY <1>2, <2>2, LastWriter
    <3>3. new[i].seq = s /\ InstOf(new[i]).dest = r
      BY <1>3, <1>4, <1>10, <2>2
    <3>4. new[i].dest_reg_tag = x.tag
      <4>1. NewRow(s, x) = [EmptyRow EXCEPT !.occupied = TRUE, !.seq = s, !.dest_reg_tag = x.tag,
                              !.src_reg_ready = NewRow(s, x).src_reg_ready,
                              !.src_reg_tag = NewRow(s, x).src_reg_tag]
        BY EmptyRowType DEF NewRow, RowType
      <4> QED BY <1>4, <4>1, EmptyRowType DEF RowType
    <3> QED BY <1>7, <3>1, <3>2, <3>3, <3>4 DEF Comes
  <2> QED BY <2>1, <2>2
<1>18. ReadyOK(new)
  <2>1. \A j \in FiredIn(new) : j \in FiredIn(x.rows) /\ new[j] = x.rows[j]
    BY <1>3, <1>4, <1>5 DEF FiredIn
  <2> QED BY <1>8, <2>1 DEF ReadyOK
<1> QED
  BY <1>11, <1>12, <1>13, <1>16, <1>17, <1>18 DEF FlowOK, still

LEMMA FillFlowKeeps ==
    ASSUME Inv, NEW x, FillOK(x), FillFlow(x), NEW i \in Row
    PROVE  FillFlow(Fill(x, i))
<1> DEFINE s == SkipNops(x.head)
           free == ~(x.stalled \/ x.rows[i].occupied \/ x.head = dispatch_queue_tail)
<1>1. /\ x \in FillType /\ x.head \in Nat /\ x.head <= dispatch_queue_tail /\ dispatch_queue_tail \in Nat
      /\ x.rows \in [Row -> RowType]
  BY DEF FillOK, FillType, Inv, TypeInv
<1>2. /\ s \in x.head .. dispatch_queue_tail /\ \A k \in x.head .. s - 1 : Inst(k).op = "NOP"
      /\ s # dispatch_queue_tail => Inst(s).op # "NOP"
  BY <1>1, NopsSkipped
<1>3. CASE ~free
  BY <1>3 DEF Fill
<1>4. CASE free /\ s = dispatch_queue_tail
  <2>1. Fill(x, i) = [x EXCEPT !.head = s]
    BY <1>4 DEF Fill
  <2> HIDE DEF s
  <2> DEFINE y    == [x EXCEPT !.head = s]
             live == OccupiedIn(x.rows) \ finished_fu
  <2>2. /\ y.head = s /\ y.rows = x.rows /\ y.tag = x.tag /\ y.regs = x.regs /\ y.stalled = x.stalled
    BY <1>1 DEF FillType
  <2> HIDE DEF y
  <2>3. /\ KeptOK(Over, x.rows, live, x.head) /\ StallOK(Over, x.head, x.stalled)
        /\ TagsOK(x.rows, x.tag) /\ SourcesOK(Over, x.rows, live)
        /\ RegistersOK(Over, x.rows, live, x.head, x.regs) /\ ReadyOK(x.rows)
    BY DEF FillFlow, FlowOK
  <2>4. \A t \in 0 .. s - 1 : t \in 0 .. x.head - 1 \/ t \in x.head .. s - 1
    BY <1>1
  <2>5. KeptOK(Over, x.rows, live, s)
    BY <1>2, <2>3, <2>4 DEF KeptOK
  <2>6. StallOK(Over, s, x.stalled)
    BY <1>2, <1>4, <2>3, <2>4 DEF StallOK, Mispredicted
  <2>7. RegistersOK(Over, x.rows, live, s, x.regs)
    <3> SUFFICES ASSUME NEW r \in Reg \ {-1}
                 PROVE  Comes(Over, x.rows, live, s, r, x.regs[r].ready, x.regs[r].tag)
      BY DEF RegistersOK
    <3>1. Comes(Over, x.rows, live, x.head, r, x.regs[r].ready, x.regs[r].tag)
      BY <2>3 DEF RegistersOK
    <3>2. s \in Nat /\ x.head <= s
      BY <1>1, <1>2
    <3> HIDE DEF live
    <3> QED BY <1>1, <1>2, <3>1, <3>2, ComesLater
  <2>8. FlowOK(Over, x.rows, live, s, x.tag, x.regs, x.stalled)
    BY <2>3, <2>5, <2>6, <2>7 DEF FlowOK
  <2> QED BY <2>1, <2>2, <2>8 DEF FillFlow, y
<1>5. CASE free /\ s # dispatch_queue_tail
  <2> DEFINE r    == NewRow(s, x)
             new  == [x.rows EXCEPT ![i] = r]
             regs == IF Inst(s).dest = -1 THEN x.regs
                     ELSE [x.regs EXCEPT ![Inst(s).dest] = [tag |-> x.tag, ready |-> FALSE]]
             y    == [x EXCEPT !.head = s + 1, !.tag = x.tag + 1, !.count = x.count + 1, !.rows = new,
                               !.regs = regs, !.stalled = Mispredicted(s)]
  <2>1. s \in x.head .. dispatch_queue_tail - 1 /\ Inst(s).op # "NOP"
    BY <1>1, <1>2, <1>5
  <2>2. FlowOK(Over, new, OccupiedIn(new) \ finished_fu, s + 1, x.tag + 1, regs, Mispredicted(s))
    <3> HIDE DEF s
    <3> QED BY <1>2, <1>5, <2>1, FilledFlow, Zenon
  <2>3. Fill(x, i) = y
    <3> HIDE DEF r, regs
    <3>1. Fill(x, i) = [x EXCEPT !.head = s + 1, !.tag = x.tag + 1, !.count = x.count + 1,
                                 !.rows[i] = r, !.regs = regs, !.stalled = Mispredicted(s)]
      BY <1>5 DEF Fill, s, r, regs
    <3> QED BY <1>1, <3>1 DEF FillType
  <2> HIDE DEF new, regs, s
  <2>4. /\ y.head = s + 1 /\ y.rows = new /\ y.tag = x.tag + 1 /\ y.regs = regs
        /\ y.stalled = Mispredicted(s)
    BY <1>1 DEF FillType
  <2> HIDE DEF y
  <2> QED BY <2>2, <2>3, <2>4 DEF FillFlow
<1> QED
  BY <1>3, <1>4, <1>5

LEMMA DispatchedFlow == ASSUME Inv, FlowInv PROVE FillOK(Dispatched) /\ FillFlow(Dispatched)
<1> DEFINE w == [rows |-> schedule_queue, head |-> dispatch_queue_head, tag |-> instr_tag,
                 count |-> inst_cnt_sq, regs |-> register_file, stalled |-> branch_started]
           W == {x \in FillType : FillOK(x) /\ FillFlow(x)}
           I == [m \in 0 .. schedule_queue_size |-> W]
<1>1. w \in W
  <2>1. Cardinality(Occupied) \in Nat
    BY RowsFinite DEF Occupied
  <2>2. register_file \in [Reg -> [tag : Nat, ready : BOOLEAN]]
    BY DEF Inv, TypeInv, RegType
  <2>3. w \in FillType
    BY <2>1, <2>2 DEF Inv, QueueInv, TypeInv, RowsOK, FillType
  <2>4. dispatch_queue_head <= dispatch_queue_tail
    BY DEF Inv, TypeInv
  <2>5. /\ RowsOK(schedule_queue, dispatch_queue_head)
        /\ inst_cnt_sq = Cardinality(OccupiedIn(schedule_queue))
        /\ register_file \in [Reg -> RegType(instr_tag)] /\ dispatch_queue_head <= dispatch_queue_head
    BY RowSet DEF Inv, QueueInv, TypeInv
  <2>6. FillFlow(w)
    BY RowSet DEF FlowInv, FillFlow, Live
  <2> QED BY <2>3, <2>4, <2>5, <2>6 DEF FillOK
<1>2. ASSUME NEW m \in Row, NEW x \in W PROVE Fill(x, m) \in W
  <2>1. FillOK(Fill(x, m)) /\ FillFlow(Fill(x, m))
    BY FillKeeps, FillFlowKeeps
  <2> QED BY <2>1 DEF FillOK
<1> HIDE DEF W, w
<1>3. I[0] = W /\ I[schedule_queue_size] = W /\ \A m \in Row : I[m - 1] = W /\ I[m] = W
  BY Queue
<1> HIDE DEF I
<1>4. EachRow(Fill, w) \in I[schedule_queue_size]
  BY <1>1, <1>2, <1>3, FillLoop
<1> QED
  BY <1>3, <1>4 DEF Dispatched, W, w

LEMMA DispatchFlow == ASSUME Inv, DataInv, DispatchInstr PROVE DataInv'
<1>0. step = "dispatch_instr" /\ step' = "fetch_instr"
  BY DEF DispatchInstr, At
<1>1. /\ schedule_queue' = Dispatched.rows /\ dispatch_queue_head' = Dispatched.head
      /\ instr_tag' = Dispatched.tag /\ register_file' = Dispatched.regs
      /\ branch_started' = Dispatched.stalled
      /\ UNCHANGED <<trace, continue_fetch, dispatch_queue_tail, predicted_br, finished_fu, result>>
  BY DEF DispatchInstr, fetching
<1> DEFINE new  == Dispatched.rows
           live == OccupiedIn(new) \ finished_fu
<1>2. FlowOK(Over, new, live, Dispatched.head, Dispatched.tag, Dispatched.regs, Dispatched.stalled)
  BY DispatchedFlow DEF FillFlow, DataInv
<1>3. Live' = live /\ Over' = Over
  BY <1>1 DEF Live, Over, Occupied, OccupiedIn
<1> HIDE DEF new, live
<1>4. FlowInv'
  BY <1>1, <1>2, <1>3, FlowStep DEF new
<1>5. OnceInv'
  BY <1>0, <1>1, <1>3 DEF DataInv, OnceInv, Inst
<1> QED
  BY <1>4, <1>5 DEF DataInv

-----------------------------------------------------------------------------
(* fetch_instr and update_state_2. *)

LEMMA FetchFlow == ASSUME Inv, DataInv, FetchInstr PROVE DataInv'
<1>0. /\ step' = "update_state_2" /\ dispatch_queue_tail \in Nat /\ dispatch_queue_head \in Nat
      /\ dispatch_queue_head <= dispatch_queue_tail /\ Len(trace) \in Nat
      /\ dispatch_queue_tail <= Len(trace) /\ FlowInv /\ OnceInv
      /\ predicted_br \in [Tag -> BOOLEAN]
  BY TraceType DEF Inv, TypeInv, FetchInstr, At, DataInv
<1>1. UNCHANGED <<trace, dispatch_queue_head, schedule_queue, finished_fu, inst_cnt_sq, instr_tag,
                  register_file, branch_started, result>>
  BY DEF FetchInstr, queue, tags
<1>2. \A s \in 0 .. dispatch_queue_head - 1 : predicted_br'[s] = predicted_br[s]
  <2> DEFINE next == IF continue_fetch THEN Min({dispatch_queue_tail + fetch_count, Len(trace)})
                     ELSE dispatch_queue_tail
             fresh(s) == s \in dispatch_queue_tail .. next - 1 /\ Inst(s).op = "BR"
             taken(s) == branch_table[Entry(ghr, s)] >= 2
  <2>1. predicted_br' = [s \in DOMAIN predicted_br |-> IF fresh(s) THEN taken(s) ELSE predicted_br[s]]
    BY DEF FetchInstr
  <2>2. \A s \in 0 .. dispatch_queue_head - 1 : s \in Tag /\ ~fresh(s)
    BY <1>0 DEF Tag
  <2> HIDE DEF fresh, taken
  <2> QED BY <1>0, <2>1, <2>2
<1>3. ~continue_fetch' => dispatch_queue_tail' = Len(trace)
  <2>1. /\ dispatch_queue_tail' = IF continue_fetch THEN Min({dispatch_queue_tail + fetch_count, Len(trace)})
                                  ELSE dispatch_queue_tail
        /\ continue_fetch' = (continue_fetch /\ dispatch_queue_tail + fetch_count <= Len(trace))
    BY DEF FetchInstr
  <2>2. CASE continue_fetch /\ ~(dispatch_queue_tail + fetch_count <= Len(trace))
    <3>1. dispatch_queue_tail + fetch_count \in Int
      BY <1>0, Sizes
    <3>2. Min({dispatch_queue_tail + fetch_count, Len(trace)}) = Len(trace)
      BY <1>0, <2>2, <3>1, MinOfTwo
    <3> QED BY <2>1, <2>2, <3>2
  <2>3. CASE ~continue_fetch
    BY <1>0, <2>1, <2>3 DEF OnceInv
  <2> QED BY <2>1, <2>2, <2>3
<1>4. Live' = Live /\ Over' = Over
  BY <1>1 DEF Live, Over, Occupied
<1>5. FlowInv'
  <2>1. FlowOK(Over, schedule_queue, Live, dispatch_queue_head, instr_tag, register_file, branch_started)
    BY <1>0 DEF FlowInv
  <2> QED BY <1>1, <1>2, <1>4, <2>1, FlowStep
<1>6. OnceInv'
  BY <1>0, <1>1, <1>3, <1>4 DEF OnceInv, Inst
<1> QED
  BY <1>5, <1>6 DEF DataInv

LEMMA SortFlow == ASSUME Inv, DataInv, UpdateState2 PROVE DataInv'
<1> DEFINE rows  == [i \in Row |-> IF i \in finished_fu THEN Free(i) ELSE schedule_queue[i]]
           small == {p \in Row \X Row : compare_sq(rows[p[1]], rows[p[2]]) <= 0}
           order == qsort(small)
           new   == [i \in Row |-> rows[order[i]]]
<1>0. step = "update_state_2" /\ FlowInv /\ OnceInv
  BY DEF UpdateState2, DataInv
<1>1. /\ schedule_queue' = new /\ finished_fu' = {}
      /\ UNCHANGED <<trace, continue_fetch, dispatch_queue_tail, predicted_br, dispatch_queue_head,
                     instr_tag, register_file, branch_started, result>>
      /\ step' = "done" => inst_cnt_sq' = 0 /\ dispatch_queue_head = dispatch_queue_tail /\ ~continue_fetch
  BY DEF UpdateState2, Sorted, Empty, fetching, tags
<1>2. order \in Bijection(Row, Row)
  <2>1. small \in SUBSET (Row \X Row)
    OBVIOUS
  <2> HIDE DEF small
  <2> QED BY <2>1, Permutation
<1>3. /\ RowsOK(rows, dispatch_queue_head)
      /\ OccupiedIn(rows) = Occupied \ finished_fu /\ FiredIn(rows) = Fired \ finished_fu
      /\ \A i \in OccupiedIn(rows) : i \in Row /\ i \notin finished_fu /\ rows[i] = schedule_queue[i]
  BY <1>0, FreedRows, Zenon
<1> HIDE DEF rows, order
<1>4. new = [i \in Row |-> rows[order[i]]]
  OBVIOUS
<1> HIDE DEF new
<1>5. /\ \A i \in Row : order[i] \in Row /\ new[i] = rows[order[i]]
      /\ OccupiedIn(new) = {i \in Row : order[i] \in OccupiedIn(rows)}
      /\ FiredIn(new) = {i \in Row : order[i] \in FiredIn(rows)}
  <2>1. RowsOK(rows, dispatch_queue_head)
    BY <1>3
  <2>2. /\ RowsOK(new, dispatch_queue_head)
        /\ \A i \in Row : order[i] \in Row /\ new[i] = rows[order[i]]
        /\ OccupiedIn(new) = {i \in Row : order[i] \in OccupiedIn(rows)}
        /\ FiredIn(new) = {i \in Row : order[i] \in FiredIn(rows)}
        /\ \A ops : WorkingIn(new, ops) = {i \in Row : order[i] \in WorkingIn(rows, ops)}
        /\ Cardinality(OccupiedIn(new)) = Cardinality(OccupiedIn(rows))
        /\ \A add, ls, ls_fu : UnitsOK(rows, add, ls, ls_fu) => UnitsOK(new, add, ls, ls_fu)
    BY <1>2, <1>4, <2>1, PermutedRows
  <2> QED BY <2>2
<1>6. /\ \A i, j \in Row : order[i] = order[j] => i = j
      /\ \A j \in Row : \E i \in Row : order[i] = j
  BY <1>2 DEF Bijection, Injection, Surjection, IsInjective
<1>7. Live = OccupiedIn(rows) /\ Live \subseteq Row
  BY <1>3 DEF Live, Occupied
<1> DEFINE still == OccupiedIn(new)
<1>8. Live' = still /\ Over' = Over
  BY <1>1 DEF Live, Over, Occupied, OccupiedIn
<1>9. FlowOK(Over, new, still, dispatch_queue_head, instr_tag, register_file, branch_started)
  <2>1. \A i \in OccupiedIn(new) : /\ i \in Row /\ order[i] \in OccupiedIn(schedule_queue)
                                   /\ new[i] = schedule_queue[order[i]]
                                   /\ new[i].seq = schedule_queue[order[i]].seq
                                   /\ Operands(new[i], schedule_queue[order[i]])
    BY <1>3, <1>5, RowSet DEF Operands
  <2>2. \A i, j \in OccupiedIn(new) : order[i] = order[j] => i = j
    BY <1>6, <2>1
  <2>3. still \subseteq OccupiedIn(new) /\ \A j \in Live : \E i \in still : order[i] = j
    BY <1>5, <1>6, <1>7
  <2>4. ReadyOK(new)
    <3>1. \A i \in FiredIn(new) : i \in OccupiedIn(new) /\ order[i] \in FiredIn(schedule_queue)
      BY <1>3, <1>5, RowSet DEF FiredIn
    <3> QED BY <1>0, <2>1, <3>1 DEF FlowInv, FlowOK, ReadyOK
  <2> HIDE DEF still
  <2> QED BY <1>0, <2>1, <2>2, <2>3, <2>4, FlowMoves DEF FlowInv
<1>10. FlowInv'
  <2> HIDE DEF still
  <2> QED BY <1>1, <1>8, <1>9, FlowStep
<1>11. OnceInv'
  BY <1>0, <1>1, <1>8 DEF OnceInv, Inst
<1> QED
  BY <1>10, <1>11 DEF DataInv

LEMMA StutterFlow == ASSUME DataInv, UNCHANGED vars PROVE DataInv'
<1>1. UNCHANGED <<trace, step, continue_fetch, dispatch_queue_tail, predicted_br, dispatch_queue_head,
                  schedule_queue, inst_cnt_sq, finished_fu, instr_tag, register_file, branch_started, result>>
  BY DEF vars, fetching, queue, tags
<1>2. Live' = Live /\ Over' = Over
  BY <1>1 DEF Live, Over, Occupied
<1>3. FlowInv'
  <2>1. FlowOK(Over, schedule_queue, Live, dispatch_queue_head, instr_tag, register_file, branch_started)
    BY DEF DataInv, FlowInv
  <2> QED BY <1>1, <1>2, <2>1, FlowStep
<1>4. OnceInv'
  BY <1>1, <1>2 DEF DataInv, OnceInv, Inst
<1> QED
  BY <1>3, <1>4 DEF DataInv

LEMMA DataNext == ASSUME Inv, DataInv, [Next]_vars PROVE DataInv'
<1>1. CASE UpdateState
  BY <1>1, UpdateFlow
<1>2. CASE ExecuteInstr
  BY <1>2, ExecuteFlow
<1>3. CASE ScheduleInstr
  BY <1>3, ScheduleFlow
<1>4. CASE DispatchInstr
  BY <1>4, DispatchFlow
<1>5. CASE FetchInstr
  BY <1>5, FetchFlow
<1>6. CASE UpdateState2
  BY <1>6, SortFlow
<1>7. CASE Done \/ UNCHANGED vars
  BY <1>7, StutterFlow DEF Done
<1> QED
  BY <1>1, <1>2, <1>3, <1>4, <1>5, <1>6, <1>7 DEF Next

LEMMA DataInvariant == Spec => [](Inv /\ DataInv)
<1>1. Init => Inv /\ DataInv
  BY InitInv, FlowInit
<1>2. Inv /\ DataInv /\ [Next]_vars => (Inv /\ DataInv)'
  BY NextInv, DataNext
<1> QED
  BY <1>1, <1>2, PTL DEF Spec

-----------------------------------------------------------------------------
(* The theorems. *)

LEMMA OverIsDone ==
    ASSUME Inv, NEW s \in 0 .. dispatch_queue_head - 1, Inst(s).op = "NOP" \/ s \in Over
    PROVE  Phase(s) = "done"
<1>1. s < dispatch_queue_tail /\ ~(s >= dispatch_queue_tail)
  BY DEF Inv, TypeInv
<1>2. s \in Over => InSeq(s, result)
  BY Elements DEF Inv, TimesInv, Over
<1> QED
  BY <1>1, <1>2 DEF Phase

\* The row of an instruction that is being executed has both its values.
LEMMA ExecutingRow ==
    ASSUME Inv, DataInv, NEW s \in Tag, Phase(s) = "executing"
    PROVE  /\ s \in 0 .. dispatch_queue_head - 1
           /\ \A k \in 1 .. 2 : \A r, p : Inst(s).src[k] = r /\ r # -1 /\ WriterOf(s, r, p) => p \in Over
<1>1. PICK i \in Fired : schedule_queue[i].seq = s
  BY DEF Phase
<1>2. i \in OccupiedIn(schedule_queue) /\ i \in FiredIn(schedule_queue)
  BY RowSet DEF Fired
<1>3. s \in 0 .. dispatch_queue_head - 1
  <2>1. schedule_queue[i].seq < dispatch_queue_head /\ s \in Nat /\ dispatch_queue_head \in Nat
    BY <1>2, TraceType DEF Inv, TypeInv, QueueInv, RowsOK
  <2> QED BY <1>1, <2>1
<1>4. schedule_queue[i].src_reg_ready = <<TRUE, TRUE>>
  BY <1>2 DEF DataInv, FlowInv, FlowOK, ReadyOK
<1>5. ASSUME NEW k \in 1 .. 2, NEW r, NEW p, Inst(s).src[k] = r, r # -1, WriterOf(s, r, p)
      PROVE  p \in Over
  <2>1. SourceOK(Over, schedule_queue, Live, schedule_queue[i], k)
    BY <1>2 DEF DataInv, FlowInv, FlowOK, SourcesOK
  <2>2. schedule_queue[i].src_reg_ready[k]
    <3> DEFINE both == <<TRUE, TRUE>>
    <3>1. both[1] /\ both[2] /\ schedule_queue[i].src_reg_ready = both
      BY <1>4
    <3> HIDE DEF both
    <3>2. both[k]
      BY <3>1
    <3> QED BY <3>1, <3>2
  <2>3. InstOf(schedule_queue[i]).src[k] = r
    BY <1>1, <1>5 DEF InstOf
  <2>4. Comes(Over, schedule_queue, Live, s, r, schedule_queue[i].src_reg_ready[k],
              schedule_queue[i].src_reg_tag[k])
    BY <1>1, <1>5, <2>1, <2>3 DEF SourceOK
  <2> QED BY <1>5, <2>2, <2>4 DEF Comes
<1> QED
  BY <1>3, <1>5

\* schedule_instr, update_state: an instruction fires when the instructions that compute its values
\* have retired, the last ones before it to write its registers, and no branch before it that was
\* mispredicted is still to retire.  The code knows of the values only the tags that it compares.
THEOREM ExecutesWithValuesTheorem == Spec => []ExecutesWithValues
<1>1. ASSUME Inv, DataInv PROVE ExecutesWithValues
  <2> DEFINE phase == [j \in DOMAIN trace |-> Phase(j - 1)]
  <2>0. trace \in Seq(Instruction) /\ Len(trace) \in Nat /\ DOMAIN trace = 1 .. Len(trace)
    BY <1>1, TraceType DEF Inv, TypeInv
  <2> SUFFICES ASSUME NEW i \in DOMAIN trace, Phase(i - 1) = "executing"
               PROVE  Abstract!HasValues(i) /\ Abstract!NotSpeculative(i)
    BY DEF ExecutesWithValues
  <2> DEFINE s == i - 1
  <2>1. s \in Tag /\ i \in Nat /\ Inst(s) = trace[i] /\ trace[i] \in Instruction
    BY <2>0 DEF Tag, Inst
  <2>2. /\ s \in 0 .. dispatch_queue_head - 1
        /\ \A k \in 1 .. 2 : \A r, p : trace[i].src[k] = r /\ r # -1 /\ WriterOf(s, r, p) => p \in Over
    BY <1>1, <2>1, ExecutingRow
  <2>3. ASSUME NEW j \in DOMAIN trace, j < i, Inst(j - 1).op = "NOP" \/ j - 1 \in Over
        PROVE  phase[j] = "done"
    <3>1. j - 1 \in 0 .. dispatch_queue_head - 1
      BY <1>1, <2>0, <2>1, <2>2, <2>3 DEF Inv, TypeInv
    <3> QED BY <1>1, <2>3, <3>1, OverIsDone
  <2>4. Abstract!HasValues(i)
    <3> SUFFICES ASSUME NEW j \in DOMAIN trace, j < i, NEW m \in DOMAIN trace[i].src,
                        trace[i].src[m] # -1, trace[j].dest = trace[i].src[m],
                        \A k \in DOMAIN trace : k < i /\ k > j => trace[k].dest # trace[i].src[m]
                 PROVE  phase[j] = "done"
      BY DEF Abstract!HasValues, Abstract!Older, Abstract!Instr, Abstract!Producer
    <3> DEFINE r == trace[i].src[m]
    <3>1. m \in 1 .. 2
      BY <2>1 DEF Instruction
    <3>2. CASE Inst(j - 1).op = "NOP"
      BY <2>3, <3>2
    <3>3. CASE Inst(j - 1).op # "NOP"
      <4>1. j - 1 \in 0 .. s - 1 /\ Inst(j - 1) = trace[j]
        BY <2>0, <2>1 DEF Inst
      <4>2. \A k \in j - 1 + 1 .. s - 1 : Inst(k).dest # r
        <5> SUFFICES ASSUME NEW k \in j - 1 + 1 .. s - 1 PROVE Inst(k).dest # r
          OBVIOUS
        <5>1. k + 1 \in DOMAIN trace /\ k + 1 < i /\ k + 1 > j
          BY <2>0, <2>1
        <5> QED BY <5>1 DEF Inst
      <4>3. WriterOf(s, r, j - 1)
        BY <3>3, <4>1, <4>2 DEF WriterOf
      <4>4. j - 1 \in Over
        BY <2>2, <3>1, <4>3
      <4> QED BY <2>3, <4>4
    <3> QED BY <3>2, <3>3
  <2>5. Abstract!NotSpeculative(i)
    <3> SUFFICES ASSUME NEW j \in DOMAIN trace, j < i, Mispredicted(j - 1) PROVE phase[j] = "done"
      BY DEF Abstract!NotSpeculative, Abstract!Older, Abstract!Instr
    <3>1. j - 1 \in 0 .. dispatch_queue_head - 1 /\ j - 1 # dispatch_queue_head - 1
      BY <1>1, <2>0, <2>1, <2>2 DEF Inv, TypeInv
    <3>2. j - 1 \in Over
      BY <1>1, <3>1 DEF DataInv, FlowInv, FlowOK, StallOK
    <3> QED BY <2>3, <3>2
  <2> QED BY <2>4, <2>5
<1> QED
  BY <1>1, DataInvariant, PTL

\* update_state, update_state_2 and the loop of run_proc: when the queues are empty and the trace
\* is read, every instruction but the NOPs has been written to the result, and none twice.
THEOREM AllRetireTheorem == Spec => []AllRetire
<1>1. ASSUME Inv, DataInv PROVE AllRetire
  <2> SUFFICES ASSUME step = "done"
               PROVE  /\ Len(result) = Cardinality(ToSet(result))
                      /\ ToSet(result) = {s \in Tag : Inst(s).op # "NOP"}
    BY DEF AllRetire
  <2>1. /\ FlowInv /\ OnceInv /\ inst_cnt_sq = 0 /\ dispatch_queue_head = Len(trace)
        /\ Len(trace) \in Nat
    BY <1>1, TraceType DEF DataInv, OnceInv, Inv, TypeInv
  <2>2. Occupied = {}
    <3>1. inst_cnt_sq = Cardinality(Occupied) /\ Occupied \in SUBSET Row
      BY <1>1 DEF Inv, QueueInv, Occupied
    <3>2. IsFiniteSet(Occupied)
      BY <3>1, RowsFinite
    <3> QED BY <2>1, <3>1, <3>2, FS_EmptySet
  <2>3. result \in Seq(Tag)
    <3>1. {s \in Tag : Len(times[s]) = 5} \subseteq Tag
      OBVIOUS
    <3> QED BY <1>1, <3>1, SeqMonotone DEF Inv, TimesInv
  <2>4. Over \subseteq Tag /\ Len(result) \in Nat /\ DOMAIN result = 1 .. Len(result)
    BY <2>3, Elements DEF Over
  <2>5. Over = {s \in Tag : Inst(s).op # "NOP"}
    <3>1. \A s \in Over : Inst(s).op # "NOP"
      BY <2>1 DEF OnceInv
    <3>2. \A s \in Tag : s \in 0 .. dispatch_queue_head - 1
      BY <2>1 DEF Tag
    <3>3. \A s \in Tag : Inst(s).op = "NOP" \/ s \in Over
      BY <2>1, <2>2, <3>2 DEF FlowInv, FlowOK, KeptOK, Live
    <3> QED BY <2>4, <3>1, <3>3
  <2>6. Len(result) = Cardinality(Over)
    <3> DEFINE D == 1 .. Len(result)
    <3>1. result \in Surjection(D, Over)
      <4>1. \A s : s \in Over <=> \E k \in D : result[k] = s
        BY <2>3, Elements DEF Over
      <4>2. result \in [D -> Over]
        BY <2>3, <2>4, <4>1
      <4> HIDE DEF D
      <4> QED BY <4>1, <4>2 DEF Surjection
    <3>2. result \in Injection(D, Over)
      <4>1. \A j, k \in D : result[j] = result[k] => j = k
        BY <2>1, <2>4 DEF OnceInv
      <4>2. result \in [D -> Over]
        BY <3>1 DEF Surjection
      <4> QED BY <4>1, <4>2 DEF Injection, IsInjective
    <3>3. result \in Bijection(D, Over)
      BY <3>1, <3>2 DEF Bijection
    <3>4. IsFiniteSet(D) /\ Cardinality(D) = Len(result)
      <4>1. 1 \in Int /\ Len(result) \in Int
        BY <2>4
      <4>2. /\ IsFiniteSet(1 .. Len(result))
            /\ Cardinality(1 .. Len(result)) = IF 1 > Len(result) THEN 0 ELSE Len(result) - 1 + 1
        BY <4>1, FS_Interval
      <4>3. Len(result) = IF 1 > Len(result) THEN 0 ELSE Len(result) - 1 + 1
        BY <2>4
      <4> QED BY <4>2, <4>3
    <3>5. Cardinality(D) = Cardinality(Over)
      <4> HIDE DEF D
      <4>1. ExistsBijection(D, Over)
        BY <3>3 DEF ExistsBijection
      <4> QED BY <3>4, <4>1, FS_Bijection
    <3> QED BY <3>4, <3>5
  <2> QED BY <2>5, <2>6 DEF Over
<1> QED
  BY <1>1, DataInvariant, PTL

-----------------------------------------------------------------------------
(* The order of the rows, when the sort is stable. *)

\* The rows that hold tag 0 and are free equal every other row in the comparison; they are
\* at the end, but for the first row, which held instruction 0.
ZerosOK(rows) ==
    /\ \A i, j \in Row : 1 < i /\ i < j /\ rows[i].seq = 0 => rows[j].seq = 0
    /\ \A i \in Row : 1 < i /\ rows[i].seq = 0 => ~rows[i].occupied

\* The oldest instruction is in the first row, and so on.
SortedOK(rows) == \A i, j \in OccupiedIn(rows) : i < j => rows[i].seq < rows[j].seq

\* What executes has been marked for the search of conflicting accesses.
MarkedOK(rows, live) == \A i \in live : rows[i].fired => rows[i].ls_conflict_end

OrderInv ==
    /\ ZerosOK(schedule_queue) /\ MarkedOK(schedule_queue, Live)
    /\ step \in {"update_state", "execute_instr", "schedule_instr"} => SortedOK(schedule_queue)

-----------------------------------------------------------------------------
(* update_state_2: with the places to tell equal rows apart, the comparison is an order:
   tag 0 in the first row, then the occupied rows by tag, then the free rows by place. *)

Class(rows, i) == IF i = 1 /\ rows[i].seq = 0 THEN 0 ELSE IF rows[i].occupied THEN 1 ELSE 2
Key(rows, i)   == IF Class(rows, i) = 1 THEN rows[i].seq ELSE i
Ranked(rows, p, q) == \/ Class(rows, p) < Class(rows, q)
                      \/ Class(rows, p) = Class(rows, q) /\ Key(rows, p) < Key(rows, q)

LEMMA PlainRows ==
    ASSUME NEW rows, NEW head, RowsOK(rows, head)
    PROVE  /\ \A i \in Row : i \in Nat /\ i >= 1 /\ rows[i].seq \in Nat /\ rows[i].occupied \in BOOLEAN
           /\ \A i, j \in Row : rows[i].occupied /\ rows[j].occupied /\ rows[i].seq = rows[j].seq => i = j
<1>1. \A i \in Row : i \in Nat /\ i >= 1
  BY Queue
<1>2. \A i \in Row : rows[i].seq \in Nat /\ rows[i].occupied \in BOOLEAN
  <2>1. \A i \in Row : rows[i] \in RowType
    BY DEF RowsOK
  <2> QED BY <2>1 DEF RowType
<1>3. \A i, j \in Row : rows[i].occupied /\ rows[j].occupied /\ rows[i].seq = rows[j].seq => i = j
  BY DEF RowsOK, OccupiedIn
<1> QED
  BY <1>1, <1>2, <1>3

LEMMA RankIsComparison ==
    ASSUME NEW rows, NEW head, RowsOK(rows, head), ZerosOK(rows), NEW small,
           small = {p \in Row \X Row : compare_sq(rows[p[1]], rows[p[2]]) <= 0},
           NEW p \in Row, NEW q \in Row
    PROVE  Precedes(small, p, q) <=> Ranked(rows, p, q)
<1>1. /\ \A i \in Row : i \in Nat /\ i >= 1 /\ rows[i].seq \in Nat /\ rows[i].occupied \in BOOLEAN
      /\ \A i, j \in Row : rows[i].occupied /\ rows[j].occupied /\ rows[i].seq = rows[j].seq => i = j
  BY PlainRows
<1>2. /\ <<p, q>> \in small <=> compare_sq(rows[p], rows[q]) <= 0
      /\ <<q, p>> \in small <=> compare_sq(rows[q], rows[p]) <= 0
  OBVIOUS
<1> DEFINE a == rows[p].seq
           b == rows[q].seq
           busy(i) == rows[i].occupied
<1>3. /\ a \in Nat /\ b \in Nat /\ p \in Nat /\ q \in Nat /\ p >= 1 /\ q >= 1
      /\ busy(p) \in BOOLEAN /\ busy(q) \in BOOLEAN
      /\ busy(p) /\ busy(q) /\ a = b => p = q
      /\ 1 < p /\ p < q /\ a = 0 => b = 0
      /\ 1 < q /\ q < p /\ b = 0 => a = 0
      /\ 1 < p /\ a = 0 => ~busy(p)
      /\ 1 < q /\ b = 0 => ~busy(q)
      /\ p = q => a = b
  BY <1>1 DEF ZerosOK
<1>4. /\ <<p, q>> \in small <=> (IF busy(q) THEN a ELSE 0) - (IF busy(p) THEN b ELSE 0) <= 0
      /\ <<q, p>> \in small <=> (IF busy(p) THEN b ELSE 0) - (IF busy(q) THEN a ELSE 0) <= 0
  BY <1>2 DEF compare_sq
<1>5. /\ Class(rows, p) = IF p = 1 /\ a = 0 THEN 0 ELSE IF busy(p) THEN 1 ELSE 2
      /\ Class(rows, q) = IF q = 1 /\ b = 0 THEN 0 ELSE IF busy(q) THEN 1 ELSE 2
      /\ Key(rows, p) = IF Class(rows, p) = 1 THEN a ELSE p
      /\ Key(rows, q) = IF Class(rows, q) = 1 THEN b ELSE q
  BY DEF Class, Key
<1> HIDE DEF a, b, busy
<1>6. Precedes(small, p, q) <=> <<p, q>> \in small /\ (<<q, p>> \in small => p < q)
  BY DEF Precedes
<1>7. CASE busy(p) /\ busy(q)
  BY <1>3, <1>4, <1>5, <1>6, <1>7 DEF Ranked
<1>8. CASE busy(p) /\ ~busy(q)
  BY <1>3, <1>4, <1>5, <1>6, <1>8 DEF Ranked
<1>9. CASE ~busy(p) /\ busy(q)
  BY <1>3, <1>4, <1>5, <1>6, <1>9 DEF Ranked
<1>10. CASE ~busy(p) /\ ~busy(q)
  BY <1>3, <1>4, <1>5, <1>6, <1>10 DEF Ranked
<1> QED
  BY <1>3, <1>7, <1>8, <1>9, <1>10

LEMMA SortedRows ==
    ASSUME NEW rows, NEW head, RowsOK(rows, head), ZerosOK(rows), NEW small, NEW order, NEW new,
           small = {p \in Row \X Row : compare_sq(rows[p[1]], rows[p[2]]) <= 0},
           order = qsort(small), new = [i \in Row |-> rows[order[i]]]
    PROVE  ZerosOK(new) /\ SortedOK(new)
<1>1. /\ \A i \in Row : i \in Nat /\ i >= 1 /\ rows[i].seq \in Nat /\ rows[i].occupied \in BOOLEAN
      /\ \A i, j \in Row : rows[i].occupied /\ rows[j].occupied /\ rows[i].seq = rows[j].seq => i = j
  BY PlainRows
<1>2. \A p, q \in Row : Precedes(small, p, q) <=> Ranked(rows, p, q)
  BY RankIsComparison
<1>3. \A p \in Row : Class(rows, p) \in 0 .. 2 /\ Key(rows, p) \in Nat
  BY <1>1 DEF Class, Key
<1>4. \A p, q \in Row : p # q => Ranked(rows, p, q) \/ Ranked(rows, q, p)
  <2> SUFFICES ASSUME NEW p \in Row, NEW q \in Row, p # q PROVE Ranked(rows, p, q) \/ Ranked(rows, q, p)
    OBVIOUS
  <2>1. Class(rows, p) = Class(rows, q) => Key(rows, p) # Key(rows, q)
    BY <1>1 DEF Class, Key
  <2> QED BY <1>3, <2>1 DEF Ranked
<1>5. \A p, q, r \in Row : Ranked(rows, p, q) /\ Ranked(rows, q, r) => Ranked(rows, p, r)
  BY <1>3 DEF Ranked
<1>6. small \in SUBSET (Row \X Row)
  OBVIOUS
<1> HIDE DEF Class, Key
<1>7. Consistent(small)
  BY <1>2, <1>4, <1>5 DEF Consistent
<1>8. order \in Bijection(Row, Row)
  BY <1>6, Permutation
<1>9. /\ \A i \in Row : order[i] \in Row /\ new[i] = rows[order[i]]
      /\ \A i, j \in Row : order[i] = order[j] => i = j
      /\ \A j \in Row : \E i \in Row : order[i] = j
  BY <1>8 DEF Bijection, Injection, Surjection, IsInjective
<1>10. \A i, j \in Row : i < j => Ranked(rows, order[i], order[j])
  <2>1. \A i, j \in Row : i < j => Precedes(small, order[i], order[j])
    BY <1>6, <1>7, StableAssumption
  <2> QED BY <1>2, <1>9, <2>1
<1>11. \A i, j \in Row : i < j => ~Ranked(rows, order[j], order[i])
  <2> SUFFICES ASSUME NEW i \in Row, NEW j \in Row, i < j PROVE ~Ranked(rows, order[j], order[i])
    OBVIOUS
  <2>1. Ranked(rows, order[i], order[j]) /\ order[i] \in Row /\ order[j] \in Row
    BY <1>9, <1>10
  <2> QED BY <1>3, <2>1 DEF Ranked
\* A first row that holds tag 0 stays there.
<1>12. ASSUME NEW i \in Row, 1 < i, rows[order[i]].seq = 0 PROVE order[i] > 1
  <2>1. SUFFICES ASSUME order[i] = 1 PROVE FALSE
    BY <1>1, <1>9
  <2>2. 1 \in Row /\ order[1] \in Row /\ order[1] # 1 /\ Class(rows, 1) = 0
    BY <1>9, <1>12, <2>1, Queue DEF Class
  <2>3. Class(rows, order[1]) # 0
    BY <2>2 DEF Class
  <2>4. Ranked(rows, order[i], order[1])
    BY <1>3, <2>1, <2>2, <2>3 DEF Ranked
  <2> QED BY <1>11, <1>12, <2>2, <2>4
<1>13. ASSUME NEW i \in Row, NEW j \in Row, 1 < i, i < j, new[i].seq = 0 PROVE new[j].seq = 0
  <2> DEFINE p == order[i]
             q == order[j]
  <2>1. p \in Row /\ q \in Row /\ rows[p].seq = 0 /\ new[j] = rows[q]
    BY <1>9, <1>13
  <2>2. p # q
    BY <1>1, <1>9, <1>13
  <2>3. p > 1
    BY <1>12, <1>13, <2>1
  <2>4. Ranked(rows, p, q)
    BY <1>10, <1>13
  <2>5. ~rows[p].occupied /\ Class(rows, p) = 2 /\ Key(rows, p) = p
    BY <1>1, <2>1, <2>3 DEF ZerosOK, Class, Key
  <2> HIDE DEF p, q
  <2>6. Class(rows, q) = 2 /\ p < Key(rows, q) /\ Key(rows, q) = q
    BY <1>3, <2>1, <2>4, <2>5 DEF Ranked, Key
  <2> QED BY <2>1, <2>3, <2>6 DEF ZerosOK
<1>14. ASSUME NEW i \in Row, 1 < i, new[i].seq = 0 PROVE ~new[i].occupied
  BY <1>9, <1>12, <1>14 DEF ZerosOK
<1>15. ASSUME NEW i \in OccupiedIn(new), NEW j \in OccupiedIn(new), i < j PROVE new[i].seq < new[j].seq
  <2> DEFINE p == order[i]
             q == order[j]
  <2>1. /\ i \in Row /\ j \in Row /\ p \in Row /\ q \in Row /\ p # q /\ rows[p].occupied /\ rows[q].occupied
        /\ new[i] = rows[p] /\ new[j] = rows[q]
    BY <1>1, <1>9, <1>15 DEF OccupiedIn
  <2>2. Ranked(rows, p, q)
    BY <1>10, <1>15, <2>1
  <2> HIDE DEF p, q
  <2>3. /\ Class(rows, p) = IF p = 1 /\ rows[p].seq = 0 THEN 0 ELSE 1
        /\ Class(rows, q) = IF q = 1 /\ rows[q].seq = 0 THEN 0 ELSE 1
    BY <2>1 DEF Class
  <2>4. Key(rows, p) = (IF Class(rows, p) = 1 THEN rows[p].seq ELSE p)
        /\ Key(rows, q) = (IF Class(rows, q) = 1 THEN rows[q].seq ELSE q)
    BY DEF Key
  <2>5. rows[p].seq \in Nat /\ rows[q].seq \in Nat /\ (rows[p].seq = rows[q].seq => p = q)
    BY <1>1, <2>1
  <2>6. rows[p].seq < rows[q].seq
    BY <2>1, <2>2, <2>3, <2>4, <2>5 DEF Ranked
  <2> QED BY <2>1, <2>6
<1> QED
  BY <1>13, <1>14, <1>15 DEF ZerosOK, SortedOK

-----------------------------------------------------------------------------
(* The steps that leave the rows where they are. *)

LEMMA OrderStep ==
    ASSUME NEW new, NEW live, schedule_queue' = new, Live' = live, ZerosOK(new), MarkedOK(new, live),
           step' \in {"update_state", "execute_instr", "schedule_instr"} => SortedOK(new)
    PROVE  OrderInv'
BY DEF OrderInv, ZerosOK, SortedOK, MarkedOK, OccupiedIn

\* Rows in their places with the same instructions.
LEMMA SamePlaces ==
    ASSUME NEW rows, NEW new,
           \A i \in Row : new[i].occupied = rows[i].occupied /\ new[i].seq = rows[i].seq
    PROVE  /\ ZerosOK(rows) => ZerosOK(new)
           /\ SortedOK(rows) => SortedOK(new)
BY DEF ZerosOK, SortedOK, OccupiedIn

LEMMA OrderInit == ASSUME Init PROVE OrderInv
<1>1. /\ \A i \in Row : schedule_queue[i].seq = 0 /\ ~schedule_queue[i].occupied
  BY DEF Init, EmptyRow
<1>2. Live = {} /\ OccupiedIn(schedule_queue) = {}
  BY <1>1 DEF Live, Occupied, OccupiedIn
<1> QED
  BY <1>1, <1>2 DEF OrderInv, ZerosOK, SortedOK, MarkedOK

LEMMA UpdateOrder == ASSUME Inv, OrderInv, UpdateState PROVE OrderInv'
<1> DEFINE new == [i \in Row |-> Updated(i)]
<1>1. /\ step = "update_state" /\ finished_fu = {} /\ finished_fu' = Finished /\ schedule_queue' = new
      /\ Finished \subseteq Occupied
  BY DEF Inv, UpdateState, At, ClockInv, BetweenCycles, Finished
<1>2. \A i \in Row : /\ new[i].occupied = schedule_queue[i].occupied /\ new[i].seq = schedule_queue[i].seq
                     /\ new[i].fired = schedule_queue[i].fired
  BY UpdatedRow DEF Inv, Same, Alike
<1>3. ASSUME NEW i \in Occupied \ Finished, new[i].fired PROVE new[i].ls_conflict_end
  <2>1. i \in Row /\ schedule_queue[i].occupied /\ schedule_queue[i] \in RowType
    BY DEF Occupied, Inv, QueueInv, RowsOK
  <2>2. schedule_queue[i].ls_conflict_end
    BY <1>1, <1>2, <1>3, <2>1 DEF OrderInv, MarkedOK, Live
  <2>3. new[i] = [schedule_queue[i] EXCEPT
                    !.ls_conflict_end = schedule_queue[i].ls_conflict_end /\ i \notin Finished,
                    !.src_reg_ready = [k \in 1 .. 2 |->
                        \/ schedule_queue[i].src_reg_ready[k]
                        \/ Written(InstOf(schedule_queue[i]).src[k], schedule_queue[i].src_reg_tag[k])]]
    BY <2>1 DEF Updated
  <2> QED BY <2>1, <2>2, <2>3 DEF RowType
<1> HIDE DEF new
<1>4. ZerosOK(new) /\ SortedOK(new)
  BY <1>1, <1>2, SamePlaces DEF OrderInv
<1>5. Live' = Occupied \ Finished
  BY <1>1, <1>2 DEF Live, Occupied
<1>6. MarkedOK(new, Occupied \ Finished)
  BY <1>3 DEF MarkedOK
<1> QED
  BY <1>1, <1>4, <1>5, <1>6, OrderStep

LEMMA ExecuteOrder == ASSUME Inv, OrderInv, ExecuteInstr PROVE OrderInv'
<1> DEFINE new == Executed.rows
<1>1. /\ step = "execute_instr" /\ finished_fu' = finished_fu /\ schedule_queue' = new
      /\ schedule_queue \in [Row -> RowType]
  BY DEF Inv, QueueInv, RowsOK, ExecuteInstr, At
<1>2. \A i \in Row : IF i \in Fired THEN new[i] \in Ran(i) ELSE new[i] = schedule_queue[i]
  BY <1>1, ExecutedRows
<1> HIDE DEF new
<1>3. \A i \in Row : /\ new[i].occupied = schedule_queue[i].occupied /\ new[i].seq = schedule_queue[i].seq
                     /\ new[i].fired = schedule_queue[i].fired
                     /\ new[i].ls_conflict_end = schedule_queue[i].ls_conflict_end
  BY <1>1, <1>2 DEF Ran, RowType
<1>4. ZerosOK(new) /\ SortedOK(new)
  BY <1>1, <1>3, SamePlaces DEF OrderInv
<1>5. Live' = Live /\ Live \subseteq Row
  BY <1>1, <1>3 DEF Live, Occupied
<1>6. MarkedOK(new, Live)
  BY <1>3, <1>5 DEF MarkedOK, OrderInv
<1> QED
  BY <1>1, <1>4, <1>5, <1>6, OrderStep

LEMMA FetchOrder == ASSUME OrderInv, FetchInstr \/ Done \/ UNCHANGED vars PROVE OrderInv'
<1>1. /\ schedule_queue' = schedule_queue /\ finished_fu' = finished_fu
      /\ step' = "update_state_2" \/ step' = step
  BY DEF FetchInstr, At, Done, vars, queue
<1>2. Live' = Live
  BY <1>1 DEF Live, Occupied
<1> QED
  BY <1>1, <1>2, OrderStep DEF OrderInv

LEMMA SortOrder == ASSUME Inv, OrderInv, UpdateState2 PROVE OrderInv'
<1> DEFINE rows  == [i \in Row |-> IF i \in finished_fu THEN Free(i) ELSE schedule_queue[i]]
           small == {p \in Row \X Row : compare_sq(rows[p[1]], rows[p[2]]) <= 0}
           order == qsort(small)
           new   == [i \in Row |-> rows[order[i]]]
<1>1. step = "update_state_2" /\ schedule_queue' = new /\ finished_fu' = {}
  BY DEF UpdateState2, Sorted
<1>2. /\ RowsOK(rows, dispatch_queue_head) /\ OccupiedIn(rows) = Occupied \ finished_fu
      /\ \A i \in OccupiedIn(rows) : i \in Row /\ i \notin finished_fu /\ rows[i] = schedule_queue[i]
  BY <1>1, FreedRows, Zenon
<1>3. \A i \in Row : /\ rows[i].seq = schedule_queue[i].seq
                     /\ rows[i].occupied => schedule_queue[i].occupied
  BY EmptyRowType DEF Free, RowType
<1>4. order \in Bijection(Row, Row)
  <2>1. small \in SUBSET (Row \X Row)
    OBVIOUS
  <2> HIDE DEF small
  <2> QED BY <2>1, Permutation
<1> HIDE DEF rows
<1>5. ZerosOK(rows)
  BY <1>3 DEF OrderInv, ZerosOK
<1>6. ZerosOK(new) /\ SortedOK(new)
  <2> HIDE DEF new, order, small
  <2> QED BY <1>2, <1>5, SortedRows DEF new, order, small
<1>7. \A i \in OccupiedIn(new) : order[i] \in OccupiedIn(rows) /\ new[i] = rows[order[i]]
  <2> HIDE DEF order
  <2> QED BY <1>4 DEF OccupiedIn, Bijection, Injection
<1> HIDE DEF new, order
<1>8. Live' = OccupiedIn(new)
  BY <1>1 DEF Live, Occupied, OccupiedIn
<1>9. MarkedOK(new, OccupiedIn(new))
  <2> SUFFICES ASSUME NEW i \in OccupiedIn(new), new[i].fired PROVE new[i].ls_conflict_end
    BY DEF MarkedOK
  <2>1. order[i] \in Live /\ new[i] = schedule_queue[order[i]]
    BY <1>2, <1>7 DEF Live
  <2> QED BY <2>1 DEF OrderInv, MarkedOK
<1> QED
  BY <1>1, <1>6, <1>8, <1>9, OrderStep

-----------------------------------------------------------------------------
(* dispatch_instr takes the first free rows. *)

\* The loop changes nothing more.
Stopped(x) == x.stalled \/ x.head = dispatch_queue_tail

FillPlaces(x, m) == /\ ZerosOK(x.rows)
                    /\ \A i \in Row : i <= m /\ ~x.rows[i].occupied => Stopped(x)

LEMMA FillShape ==
    ASSUME Inv, NEW x, FillOK(x), NEW i \in Row, NEW y, y = Fill(x, i)
    PROVE  \/ y = x /\ (Stopped(x) \/ x.rows[i].occupied)
           \/ y.rows = x.rows /\ Stopped(y)
           \/ /\ ~Stopped(x) /\ ~x.rows[i].occupied
              /\ \E s \in Nat : /\ s >= x.head /\ y.rows[i].seq = s /\ y.rows[i].occupied
                                /\ \A j \in Row : j # i => y.rows[j] = x.rows[j]
<1> DEFINE s == SkipNops(x.head)
<1>1. /\ x \in FillType /\ x.head \in Nat /\ x.rows \in [Row -> RowType]
      /\ dispatch_queue_tail \in Nat /\ x.head <= dispatch_queue_tail
  BY DEF FillOK, FillType, Inv, TypeInv
<1>2. s \in x.head .. dispatch_queue_tail
  BY <1>1, SkipNopsRange
<1>3. CASE Stopped(x) \/ x.rows[i].occupied
  BY <1>3 DEF Fill, Stopped
<1>4. CASE ~(Stopped(x) \/ x.rows[i].occupied) /\ s = dispatch_queue_tail
  <2>1. y = [x EXCEPT !.head = s]
    BY <1>4 DEF Fill, Stopped
  <2> HIDE DEF s
  <2>2. y.head = s /\ y.rows = x.rows
    BY <1>1, <2>1 DEF FillType
  <2> QED BY <1>4, <2>2 DEF Stopped
<1>5. CASE ~(Stopped(x) \/ x.rows[i].occupied) /\ s # dispatch_queue_tail
  <2> DEFINE r    == NewRow(s, x)
             regs == IF Inst(s).dest = -1 THEN x.regs
                     ELSE [x.regs EXCEPT ![Inst(s).dest] = [tag |-> x.tag, ready |-> FALSE]]
  <2>1. s \in Nat /\ s >= x.head /\ s \in Tag
    BY <1>1, <1>2, <1>5, TraceType DEF Inv, TypeInv, Tag
  <2>2. r.occupied /\ r.seq = s
    BY <2>1, NewRowType DEF Inv
  <2>3. y = [x EXCEPT !.head = s + 1, !.tag = @ + 1, !.count = @ + 1, !.rows[i] = r,
                      !.regs = regs, !.stalled = Mispredicted(s)]
    <3> HIDE DEF r, regs
    <3> QED BY <1>5 DEF Fill, Stopped, s, r, regs
  <2> HIDE DEF r, regs, s
  <2>4. y.rows = [x.rows EXCEPT ![i] = r]
    BY <1>1, <2>3 DEF FillType
  <2>5. y.rows[i] = r /\ \A j \in Row : j # i => y.rows[j] = x.rows[j]
    BY <1>1, <2>4
  <2> QED BY <1>5, <2>1, <2>2, <2>5
<1> QED
  BY <1>3, <1>4, <1>5

LEMMA FillPlacesKeeps ==
    ASSUME Inv, NEW x, FillOK(x), NEW i \in Row, FillPlaces(x, i - 1)
    PROVE  FillPlaces(Fill(x, i), i)
<1> DEFINE y == Fill(x, i)
<1>1. /\ x.rows \in [Row -> RowType] /\ x.head \in Nat /\ i \in Nat /\ i >= 1
      /\ \A j \in Row : j \in Nat /\ j >= 1 /\ (j <= i => j <= i - 1 \/ j = i) /\ (i > 1 => 1 <= i - 1)
      /\ (i > 1 => 1 \in Row)
  BY Queue DEF FillOK, FillType
<1>2. \/ y = x /\ (Stopped(x) \/ x.rows[i].occupied)
      \/ y.rows = x.rows /\ Stopped(y)
      \/ /\ ~Stopped(x) /\ ~x.rows[i].occupied
         /\ \E s \in Nat : /\ s >= x.head /\ y.rows[i].seq = s /\ y.rows[i].occupied
                           /\ \A j \in Row : j # i => y.rows[j] = x.rows[j]
  BY FillShape
<1> HIDE DEF y
<1>3. CASE y = x /\ (Stopped(x) \/ x.rows[i].occupied)
  <2> SUFFICES ASSUME NEW j \in Row, j <= i, ~x.rows[j].occupied PROVE Stopped(x)
    BY <1>3 DEF FillPlaces, y
  <2>1. CASE j = i
    BY <1>3, <2>1
  <2>2. CASE j <= i - 1
    BY <2>2 DEF FillPlaces
  <2> QED BY <1>1, <2>1, <2>2
<1>4. CASE y.rows = x.rows /\ Stopped(y)
  BY <1>4 DEF FillPlaces, y
<1>5. CASE /\ ~Stopped(x) /\ ~x.rows[i].occupied
           /\ \E s \in Nat : /\ s >= x.head /\ y.rows[i].seq = s /\ y.rows[i].occupied
                             /\ \A j \in Row : j # i => y.rows[j] = x.rows[j]
  <2>1. /\ y.rows[i].seq \in Nat /\ y.rows[i].seq >= x.head /\ y.rows[i].occupied
        /\ \A j \in Row : j # i => y.rows[j] = x.rows[j]
    BY <1>5
  <2>2. \A j \in Row : j <= i - 1 => x.rows[j].occupied
    BY <1>5 DEF FillPlaces
  \* The rows before are occupied, so that instruction 0 has been dispatched.
  <2>3. i > 1 => y.rows[i].seq # 0
    <3>1. SUFFICES ASSUME i > 1 PROVE x.head > 0
      BY <1>1, <2>1
    <3>2. 1 \in OccupiedIn(x.rows)
      BY <1>1, <2>2, <3>1 DEF OccupiedIn
    <3>3. x.rows[1].seq < x.head /\ x.rows[1].seq \in Nat
      BY <1>1, <3>1, <3>2 DEF FillOK, RowsOK, RowType
    <3> QED BY <1>1, <3>3
  <2>4. ASSUME NEW j \in Row, NEW k \in Row, 1 < j, j < k, y.rows[j].seq = 0 PROVE y.rows[k].seq = 0
    <3>1. j # i /\ x.rows[j].seq = 0
      BY <2>1, <2>3, <2>4
    <3>2. ~x.rows[j].occupied
      BY <2>4, <3>1 DEF FillPlaces, ZerosOK
    <3>3. k # i
      BY <1>1, <2>2, <2>4, <3>2
    <3> QED BY <2>1, <2>4, <3>1, <3>3 DEF FillPlaces, ZerosOK
  <2>5. ASSUME NEW j \in Row, 1 < j, y.rows[j].seq = 0 PROVE ~y.rows[j].occupied
    <3>1. j # i
      BY <2>3, <2>5
    <3> QED BY <2>1, <2>5, <3>1 DEF FillPlaces, ZerosOK
  <2>6. \A j \in Row : j <= i => y.rows[j].occupied
    BY <1>1, <2>1, <2>2
  <2>7. ZerosOK(y.rows)
    BY <2>4, <2>5 DEF ZerosOK
  <2> QED BY <2>6, <2>7 DEF FillPlaces, y
<1> QED
  BY <1>2, <1>3, <1>4, <1>5

LEMMA DispatchedPlaces == ASSUME Inv, OrderInv PROVE FillOK(Dispatched) /\ ZerosOK(Dispatched.rows)
<1> DEFINE w == [rows |-> schedule_queue, head |-> dispatch_queue_head, tag |-> instr_tag,
                 count |-> inst_cnt_sq, regs |-> register_file, stalled |-> branch_started]
           I == [m \in 0 .. schedule_queue_size |-> {x \in FillType : FillOK(x) /\ FillPlaces(x, m)}]
<1>1. w \in FillType /\ FillOK(w)
  <2>1. Cardinality(Occupied) \in Nat
    BY RowsFinite DEF Occupied
  <2>2. register_file \in [Reg -> [tag : Nat, ready : BOOLEAN]]
    BY DEF Inv, TypeInv, RegType
  <2>3. w \in FillType
    BY <2>1, <2>2 DEF Inv, QueueInv, TypeInv, RowsOK, FillType
  <2>4. dispatch_queue_head <= dispatch_queue_tail
    BY DEF Inv, TypeInv
  <2>5. /\ RowsOK(schedule_queue, dispatch_queue_head)
        /\ inst_cnt_sq = Cardinality(OccupiedIn(schedule_queue))
        /\ register_file \in [Reg -> RegType(instr_tag)] /\ dispatch_queue_head <= dispatch_queue_head
    BY RowSet DEF Inv, QueueInv, TypeInv
  <2> QED BY <2>3, <2>4, <2>5 DEF FillOK
<1>2. FillPlaces(w, 0)
  BY Queue DEF OrderInv, FillPlaces
<1> HIDE DEF w
<1>3. /\ 0 \in 0 .. schedule_queue_size /\ schedule_queue_size \in 0 .. schedule_queue_size
      /\ \A m \in Row : m \in 0 .. schedule_queue_size /\ m - 1 \in 0 .. schedule_queue_size
  BY Queue
<1>4. w \in I[0]
  BY <1>1, <1>2, <1>3
<1>5. ASSUME NEW m \in Row, NEW x \in I[m - 1] PROVE Fill(x, m) \in I[m]
  <2>1. FillOK(x) /\ FillPlaces(x, m - 1)
    BY <1>3, <1>5
  <2>2. FillOK(Fill(x, m)) /\ FillPlaces(Fill(x, m), m)
    BY <2>1, FillKeeps, FillPlacesKeeps
  <2>3. Fill(x, m) \in FillType
    BY <2>2 DEF FillOK
  <2> QED BY <1>3, <2>2, <2>3
<1> HIDE DEF I
<1>6. EachRow(Fill, w) \in I[schedule_queue_size]
  BY <1>4, <1>5, FillLoop
<1>7. Dispatched = EachRow(Fill, w)
  BY DEF Dispatched, w
<1> QED
  BY <1>3, <1>6, <1>7 DEF I, FillPlaces

LEMMA DispatchOrder == ASSUME Inv, OrderInv, DispatchInstr PROVE OrderInv'
<1> DEFINE new == Dispatched.rows
<1>1. /\ schedule_queue' = new /\ finished_fu' = finished_fu /\ step' = "fetch_instr"
  BY DEF DispatchInstr, At
<1>2. /\ ZerosOK(new)
      /\ \A i \in Row : IF schedule_queue[i].occupied THEN new[i] = schedule_queue[i]
                        ELSE new[i].occupied => ~new[i].fired
  BY DispatchedPlaces DEF FillOK
<1> HIDE DEF new
<1>3. Live' = OccupiedIn(new) \ finished_fu
  BY <1>1 DEF Live, Occupied, OccupiedIn
<1>4. MarkedOK(new, OccupiedIn(new) \ finished_fu)
  <2> SUFFICES ASSUME NEW i \in OccupiedIn(new) \ finished_fu, new[i].fired PROVE new[i].ls_conflict_end
    BY DEF MarkedOK
  <2>1. i \in Live /\ new[i] = schedule_queue[i]
    BY <1>2 DEF Live, Occupied, OccupiedIn
  <2> QED BY <2>1 DEF OrderInv, MarkedOK
<1> QED
  BY <1>1, <1>2, <1>3, <1>4, OrderStep

-----------------------------------------------------------------------------
(* schedule_instr looks at the older rows first. *)

\* What row i of the loop does: nothing, or it marks the row, and fires it or not.
Marks(x, y, i) == /\ \A j \in Row : j # i => y.rows[j] = x.rows[j]
                  /\ y.rows[i].ls_conflict_end
                  /\ Operands(y.rows[i], x.rows[i]) /\ y.rows[i].seq = x.rows[i].seq
BothReady(row) == row.src_reg_ready = <<TRUE, TRUE>>
Holds(x, y, op)  == /\ y.add = x.add /\ y.mul = x.mul
                    /\ op \in {"ADD", "BR"} => ~(x.add > 0)
                    /\ op = "MUL" => ~(x.mul > 0)
Takes(x, y, op)  == \/ op \in {"ADD", "BR"} /\ x.add > 0 /\ y.add = x.add - 1 /\ y.mul = x.mul
                    \/ op = "MUL" /\ x.mul > 0 /\ y.add = x.add /\ y.mul = x.mul - 1
                    \/ Memory(op) /\ y.add = x.add /\ y.mul = x.mul

\* The time that an instruction has left when it fires, and what it needs in order to fire.
FireTime(op) == IF Memory(op) THEN NotYet ELSE IF op = "MUL" THEN MulTime ELSE 1
Marked(x, i) == [x EXCEPT !.rows[i].ls_conflict_end = TRUE]
MayFire(x, i) ==
    LET op == InstOf(x.rows[i]).op
    IN  /\ BothReady(x.rows[i])
        /\ \/ op \in {"ADD", "BR"} /\ x.add > 0
           \/ op = "MUL" /\ x.mul > 0
           \/ Memory(op) /\ x.ls > 0 /\ cache_opeable(Marked(x, i), x.rows[i].seq)

LEMMA IssueCases ==
    ASSUME Inv, NEW x, IssueOK(x), NEW i \in Row, NEW y, y = Issue(x, i), NEW op,
           op = InstOf(x.rows[i]).op
    PROVE  \/ ~Waits(x.rows[i]) /\ y = x
           \/ Waits(x.rows[i]) /\ ~MayFire(x, i) /\ y = Marked(x, i)
           \/ /\ Waits(x.rows[i]) /\ MayFire(x, i) /\ Marks(x, y, i) /\ Takes(x, y, op)
              /\ y.rows[i].fired /\ y.rows[i].remaining_time = FireTime(op)
<1> DEFINE row  == x.rows[i]
           seen == [x EXCEPT !.rows[i].ls_conflict_end = TRUE]
           ready == BothReady(row)
           F(t) == [x EXCEPT !.rows = [x.rows EXCEPT ![i] = FiringRow(row, t)]]
<1>1. /\ x \in WorkType /\ x.rows \in [Row -> RowType] /\ row \in RowType
      /\ op = Inst(row.seq).op /\ x.add \in Nat /\ x.mul \in Int /\ x.ls \in Nat
  BY DEF IssueOK, WorkType, InstOf
<1>0. /\ op \in {"ADD", "BR"} => FireTime(op) = 1
      /\ op = "MUL" => FireTime(op) = MulTime
      /\ Memory(op) => FireTime(op) = NotYet
  BY DEF FireTime, Memory
<1>2. CASE ~Waits(row)
  BY <1>2 DEF Issue
<1>3. ASSUME NEW t, NEW z, z.rows = [x.rows EXCEPT ![i] = FiringRow(row, t)]
      PROVE  Marks(x, z, i) /\ z.rows[i].fired /\ z.rows[i].remaining_time = t
  <2> DEFINE r == FiringRow(row, t)
  <2>1. /\ r.ls_conflict_end /\ r.fired /\ Operands(r, row) /\ r.seq = row.seq
        /\ r.remaining_time = t
    BY <1>1 DEF FiringRow, RowType, Operands
  <2> HIDE DEF r
  <2>2. z.rows[i] = r /\ \A j \in Row : j # i => z.rows[j] = x.rows[j]
    BY <1>1, <1>3 DEF r
  <2> QED BY <2>1, <2>2 DEF Marks
<1>4. \A t : Fire(seen, i, t) = F(t)
  BY <1>1, FiringWork
<1> HIDE DEF seen
<1>5. CASE Waits(row) /\ ready /\ op \in {"ADD", "BR"} /\ x.add > 0
  <2>1. y = [F(1) EXCEPT !.add = F(1).add - 1]
    <3> HIDE DEF F
    <3> QED BY <1>1, <1>4, <1>5 DEF Issue, Memory, BothReady, seen
  <2>2. y.rows = [x.rows EXCEPT ![i] = FiringRow(row, 1)] /\ y.add = x.add - 1 /\ y.mul = x.mul
    <3> DEFINE new == [x.rows EXCEPT ![i] = FiringRow(row, 1)]
    <3> HIDE DEF new
    <3> QED BY <1>1, <2>1 DEF WorkType, new
  <2>3. Marks(x, y, i) /\ y.rows[i].fired /\ y.rows[i].remaining_time = 1
    BY <1>3, <2>2
  <2>4. Takes(x, y, op)
    BY <1>5, <2>2 DEF Takes
  <2>5. MayFire(x, i)
    BY <1>5 DEF MayFire
  <2> QED BY <1>0, <1>5, <2>3, <2>4, <2>5
<1>6. CASE Waits(row) /\ ready /\ op = "MUL" /\ x.mul > 0
  <2>1. y = [F(MulTime) EXCEPT !.mul = F(MulTime).mul - 1]
    <3> HIDE DEF F
    <3> QED BY <1>1, <1>4, <1>6 DEF Issue, Memory, BothReady, seen
  <2>2. y.rows = [x.rows EXCEPT ![i] = FiringRow(row, MulTime)] /\ y.add = x.add /\ y.mul = x.mul - 1
    <3> DEFINE new == [x.rows EXCEPT ![i] = FiringRow(row, MulTime)]
    <3> HIDE DEF new
    <3> QED BY <1>1, <2>1 DEF WorkType, new
  <2>3. Marks(x, y, i) /\ y.rows[i].fired /\ y.rows[i].remaining_time = MulTime
    BY <1>3, <2>2
  <2>4. Takes(x, y, op)
    BY <1>6, <2>2 DEF Takes
  <2>5. MayFire(x, i)
    BY <1>6 DEF MayFire
  <2> QED BY <1>0, <1>6, <2>3, <2>4, <2>5
<1>7. CASE Waits(row) /\ ready /\ Memory(op) /\ x.ls > 0 /\ cache_opeable(seen, row.seq)
  <2> DEFINE u    == FreeUnit(x)
             unit == [busy |-> TRUE, load |-> op, addr |-> Inst(row.seq).addr]
             new  == [x.rows EXCEPT ![i] = FiringRow(row, NotYet)]
  <2>1. y = [F(NotYet) EXCEPT !.ls = F(NotYet).ls - 1, !.rows[i].fu = u, !.ls_fu[u] = unit]
    <3> HIDE DEF F
    <3> QED BY <1>1, <1>4, <1>7 DEF Issue, Memory, BothReady, seen
  <2>2. /\ new[i] = FiringRow(row, NotYet) /\ i \in DOMAIN new
        /\ \A j \in Row : j # i => new[j] = x.rows[j]
    BY <1>1
  <2> HIDE DEF new, u, unit
  <2>3. /\ y.rows = [new EXCEPT ![i].fu = u] /\ y.add = x.add /\ y.mul = x.mul
    BY <1>1, <2>1 DEF WorkType, new
  <2> DEFINE a == FiringRow(row, NotYet)
             b == [a EXCEPT !.fu = u]
  <2>4. y.rows[i] = b /\ \A j \in Row : j # i => y.rows[j] = x.rows[j]
    BY <2>2, <2>3
  <2>5. /\ b.ls_conflict_end /\ b.fired /\ Operands(b, row) /\ b.seq = row.seq
        /\ b.remaining_time = NotYet
    BY <1>1 DEF FiringRow, RowType, Operands
  <2>6. Marks(x, y, i) /\ y.rows[i].fired /\ y.rows[i].remaining_time = NotYet
    <3> HIDE DEF b
    <3> QED BY <2>4, <2>5 DEF Marks
  <2>7. Takes(x, y, op)
    BY <1>7, <2>3 DEF Takes
  <2>8. MayFire(x, i)
    BY <1>7 DEF MayFire, Marked, seen
  <2> QED BY <1>0, <1>7, <2>6, <2>7, <2>8
<1>8. CASE /\ Waits(row)
           /\ \/ ~ready
              \/ /\ ~(op \in {"ADD", "BR"} /\ x.add > 0) /\ ~(op = "MUL" /\ x.mul > 0)
                 /\ ~(Memory(op) /\ x.ls > 0 /\ cache_opeable(seen, row.seq))
  <2>1. y = seen
    BY <1>1, <1>8 DEF Issue, BothReady, seen
  <2>2. ~MayFire(x, i)
    BY <1>8 DEF MayFire, Marked, seen
  <2> QED BY <1>8, <2>1, <2>2 DEF Marked, seen
<1> QED
  BY <1>2, <1>5, <1>6, <1>7, <1>8

LEMMA MarkedRow ==
    ASSUME NEW x \in WorkType, NEW i \in Row, NEW y, y = Marked(x, i)
    PROVE  /\ Marks(x, y, i) /\ y.rows[i].fired = x.rows[i].fired
           /\ y.rows[i].remaining_time = x.rows[i].remaining_time
           /\ y.add = x.add /\ y.mul = x.mul /\ y.ls = x.ls /\ y.ls_fu = x.ls_fu
<1> DEFINE row == x.rows[i]
           r   == [row EXCEPT !.ls_conflict_end = TRUE]
<1>1. x.rows \in [Row -> RowType] /\ row \in RowType
  BY DEF WorkType
<1>2. /\ r.ls_conflict_end /\ r.fired = row.fired /\ Operands(r, row) /\ r.seq = row.seq
      /\ r.remaining_time = row.remaining_time
  BY <1>1 DEF RowType, Operands
<1>3. /\ y.rows = [x.rows EXCEPT ![i] = r] /\ y.add = x.add /\ y.mul = x.mul
      /\ y.ls = x.ls /\ y.ls_fu = x.ls_fu
  BY <1>1 DEF WorkType, Marked
<1> HIDE DEF r
<1>4. y.rows[i] = r /\ \A j \in Row : j # i => y.rows[j] = x.rows[j]
  BY <1>1, <1>3
<1> QED
  BY <1>2, <1>3, <1>4 DEF Marks

LEMMA IssueShape ==
    ASSUME Inv, NEW x, IssueOK(x), NEW i \in Row, NEW y, y = Issue(x, i), NEW op,
           op = InstOf(x.rows[i]).op
    PROVE  \/ ~Waits(x.rows[i]) /\ y = x
           \/ /\ Waits(x.rows[i]) /\ Marks(x, y, i)
              /\ \/ /\ ~y.rows[i].fired /\ y.add = x.add /\ y.mul = x.mul
                    /\ BothReady(x.rows[i]) => Holds(x, y, op)
                 \/ /\ y.rows[i].fired /\ BothReady(x.rows[i]) /\ Takes(x, y, op)
                    /\ Memory(op) => cache_opeable([x EXCEPT !.rows[i].ls_conflict_end = TRUE],
                                                   x.rows[i].seq)
<1>1. CASE Waits(x.rows[i]) /\ ~MayFire(x, i) /\ y = Marked(x, i)
  <2>1. /\ Marks(x, y, i) /\ y.rows[i].fired = x.rows[i].fired /\ y.add = x.add /\ y.mul = x.mul
    BY <1>1, MarkedRow DEF IssueOK
  <2>2. ~y.rows[i].fired
    BY <1>1, <2>1 DEF Waits
  <2>3. BothReady(x.rows[i]) => Holds(x, y, op)
    BY <1>1, <2>1 DEF Holds, MayFire
  <2> QED BY <1>1, <2>1, <2>2, <2>3
<1>2. CASE /\ Waits(x.rows[i]) /\ MayFire(x, i) /\ Marks(x, y, i) /\ Takes(x, y, op)
           /\ y.rows[i].fired
  <2>1. op \in {"ADD", "BR", "MUL"} => ~Memory(op)
    BY DEF Memory
  <2> QED BY <1>2, <2>1 DEF MayFire, Marked
<1> QED
  BY <1>1, <1>2, IssueCases

\* No unit is left for an instruction of this kind.
Spent(x, op) == /\ op \in {"ADD", "BR"} => ~(x.add > 0)
                /\ op = "MUL" => ~(x.mul > 0)

\* An access in row k that the one in row j must not overtake.
Overtakes(j, k) == /\ Memory(InstOf(schedule_queue[j]).op) /\ Memory(InstOf(schedule_queue[k]).op)
                   /\ InstOf(schedule_queue[j]).addr = InstOf(schedule_queue[k]).addr
                   /\ schedule_queue[k].seq < schedule_queue[j].seq
                   /\ InstOf(schedule_queue[j]).op = "LOAD" => InstOf(schedule_queue[k]).op = "STORE"

Waiting == {i \in Row : Waits(schedule_queue[i])}

\* After the first m rows of the loop.
IssueOrder(x, m) ==
    /\ \A i \in Row : i > m \/ i \notin Waiting => x.rows[i] = schedule_queue[i]
    /\ \A i \in Waiting : i <= m => x.rows[i].ls_conflict_end
    /\ \A i \in Waiting : i <= m /\ Ready(i) /\ ~x.rows[i].fired
                          => Spent(x, InstOf(schedule_queue[i]).op)
    /\ \A i \in Waiting : x.rows[i].fired => Ready(i) /\ \A k \in Live : ~Overtakes(i, k)
    /\ \A i, j \in Waiting : i < j /\ SameUnit(i, j) /\ Ready(i) /\ x.rows[j].fired => x.rows[i].fired

LEMMA IssueOrderKeeps ==
    ASSUME Inv, OrderInv, step = "schedule_instr", NEW i \in Row, NEW x, IssueOK(x), IssueOrder(x, i - 1)
    PROVE  IssueOrder(Issue(x, i), i)
<1> DEFINE y == Issue(x, i)
           sq == schedule_queue
           op == InstOf(sq[i]).op
           seen == [x EXCEPT !.rows[i].ls_conflict_end = TRUE]
<1>1. /\ x \in WorkType /\ x.rows \in [Row -> RowType] /\ i \in Nat /\ x.add \in Nat /\ x.mul \in Int
      /\ sq \in [Row -> RowType]
      /\ \A j \in Row : j \in Nat /\ (j > i => j > i - 1) /\ (j <= i => j = i \/ j <= i - 1)
      /\ i > i - 1 /\ x.rows[i] = sq[i] /\ (i \in Waiting <=> Waits(x.rows[i]))
  BY Queue DEF IssueOK, WorkType, IssueOrder, Waiting, Inv, QueueInv, RowsOK
<1>2. \/ i \notin Waiting /\ y = x
      \/ /\ i \in Waiting /\ Marks(x, y, i)
         /\ \/ /\ ~y.rows[i].fired /\ y.add = x.add /\ y.mul = x.mul
               /\ BothReady(sq[i]) => Holds(x, y, op)
            \/ /\ y.rows[i].fired /\ BothReady(sq[i]) /\ Takes(x, y, op)
               /\ Memory(op) => cache_opeable(seen, sq[i].seq)
  BY <1>1, IssueShape
<1> HIDE DEF y, op, seen
<1>3. CASE i \notin Waiting /\ y = x
  <2>1. \A j \in Waiting : j # i /\ j \in Row
    BY <1>3 DEF Waiting
  <2> QED BY <1>1, <1>3, <2>1 DEF IssueOrder, y
<1>4. CASE i \in Waiting /\ Marks(x, y, i)
  <2>1. /\ \A j \in Row : j # i => y.rows[j] = x.rows[j]
        /\ y.rows[i].ls_conflict_end
    BY <1>4 DEF Marks
  <2>2. Spent(x, op) => Spent(y, op)
    BY <1>1, <1>2, <1>4 DEF Spent, Takes
  <2>3. \A j \in Waiting : j \in Row
    BY DEF Waiting
  <2>4. \A o : Spent(x, o) => Spent(y, o)
    BY <1>1, <1>2, <1>4 DEF Spent, Takes
  <2>5. \A j \in Row : j > i \/ j \notin Waiting => y.rows[j] = sq[j]
    BY <1>1, <1>4, <2>1 DEF IssueOrder
  <2>6. \A j \in Waiting : j <= i => y.rows[j].ls_conflict_end
    BY <1>1, <2>1, <2>3 DEF IssueOrder
  <2>7. \A j \in Waiting : j <= i /\ Ready(j) /\ ~y.rows[j].fired => Spent(y, InstOf(sq[j]).op)
    <3> SUFFICES ASSUME NEW j \in Waiting, j <= i, Ready(j), ~y.rows[j].fired
                 PROVE  Spent(y, InstOf(sq[j]).op)
      OBVIOUS
    <3>1. CASE j = i
      BY <1>2, <1>4, <3>1 DEF Holds, Spent, BothReady, Ready, op
    <3>2. CASE j # i
      BY <1>1, <2>1, <2>3, <2>4, <3>2 DEF IssueOrder
    <3> QED BY <3>1, <3>2
  \* What an access must not overtake is above it in the queue, and has been marked.
  <2>8. ASSUME y.rows[i].fired, NEW k \in Live, Overtakes(i, k) PROVE FALSE
    <3>1. /\ k \in Occupied /\ k \in Row /\ sq[k].occupied /\ sq[k] \in RowType
          /\ i \in Occupied /\ sq[i] \in RowType
      BY <1>1, <1>4 DEF Live, Occupied, Waiting, Waits
    <3>2. k < i
      <4>1. sq[k].seq \in Nat /\ sq[i].seq \in Nat /\ sq[k].seq < sq[i].seq
        BY <3>1, <2>8 DEF RowType, Overtakes
      <4>2. SortedOK(sq)
        BY DEF OrderInv
      <4> QED BY <1>1, <3>1, <4>1, <4>2, RowSet DEF SortedOK
    <3>3. x.rows[k].ls_conflict_end
      <4>1. CASE k \in Waiting
        BY <1>1, <3>1, <3>2, <4>1 DEF IssueOrder
      <4>2. CASE k \notin Waiting
        <5>1. sq[k].fired /\ x.rows[k] = sq[k]
          BY <3>1, <4>2 DEF Waiting, Waits, IssueOrder
        <5> QED BY <5>1 DEF OrderInv, MarkedOK
      <4> QED BY <4>1, <4>2
    <3>4. seen.rows[k] = x.rows[k]
      BY <1>1, <3>1, <3>2 DEF seen, WorkType
    <3>5. x.rows[k].seq = sq[k].seq /\ x.rows[k].occupied
      BY <3>1 DEF IssueOK, IssuedAs
    <3>6. cache_opeable(seen, sq[i].seq)
      BY <1>2, <1>4, <2>8 DEF Overtakes, op
    <3>7. RowInTheWay(seen.rows[k], sq[i].seq)
      BY <2>8, <3>3, <3>4, <3>5 DEF RowInTheWay, Overtakes, InstOf
    <3> QED BY <3>1, <3>6, <3>7 DEF cache_opeable
  <2>9. \A j \in Waiting : y.rows[j].fired => Ready(j) /\ \A k \in Live : ~Overtakes(j, k)
    <3> SUFFICES ASSUME NEW j \in Waiting, y.rows[j].fired
                 PROVE  Ready(j) /\ \A k \in Live : ~Overtakes(j, k)
      OBVIOUS
    <3>1. CASE j = i
      BY <1>2, <1>4, <2>8, <3>1 DEF BothReady, Ready
    <3>2. CASE j # i
      BY <2>1, <2>3, <3>2 DEF IssueOrder
    <3> QED BY <3>1, <3>2
  <2>10. \A h, j \in Waiting : h < j /\ SameUnit(h, j) /\ Ready(h) /\ y.rows[j].fired => y.rows[h].fired
    <3> SUFFICES ASSUME NEW h \in Waiting, NEW j \in Waiting, h < j, SameUnit(h, j), Ready(h),
                        y.rows[j].fired
                 PROVE  y.rows[h].fired
      OBVIOUS
    <3>0. h \in Row /\ j \in Row
      BY <2>3
    <3>1. CASE j = i
      <4>1. h # i /\ h <= i - 1
        BY <1>1, <3>0, <3>1
      <4>2. SUFFICES ASSUME ~x.rows[h].fired PROVE FALSE
        BY <2>1, <3>0, <4>1
      <4>3. Spent(x, InstOf(sq[h]).op)
        BY <4>1, <4>2 DEF IssueOrder
      <4>4. Takes(x, y, op)
        BY <1>2, <1>4, <3>1
      <4> QED BY <3>1, <4>3, <4>4 DEF Spent, Takes, SameUnit, op, Memory
    <3>2. CASE j # i /\ h = i
      <4>1. y.rows[j] = sq[j]
        BY <1>1, <2>5, <3>0, <3>2
      <4> QED BY <4>1 DEF Waiting, Waits
    <3>3. CASE j # i /\ h # i
      BY <2>1, <3>0, <3>3 DEF IssueOrder
    <3> QED BY <3>1, <3>2, <3>3
  <2> HIDE DEF sq
  <2> QED BY <2>5, <2>6, <2>7, <2>9, <2>10 DEF IssueOrder, y, sq
<1> QED
  BY <1>2, <1>3, <1>4

LEMMA ScheduledOrder ==
    ASSUME Inv, OrderInv, step = "schedule_instr"
    PROVE  IssueOK(Scheduled) /\ IssueOrder(Scheduled, schedule_queue_size)
<1> DEFINE w == [rows |-> schedule_queue, add |-> add_unit, mul |-> 1, ls |-> ls_unit,
                 ls_fu |-> ls_functional_unit]
           I == [m \in 0 .. schedule_queue_size |-> {x \in WorkType : IssueOK(x) /\ IssueOrder(x, m)}]
<1>1. w \in WorkType /\ IssueOK(w)
  <2>1. w \in WorkType
    BY DEF Inv, QueueInv, UnitsInv, RowsOK, UnitsOK, WorkType
  <2>2. \A i \in Row : IssuedAs(schedule_queue[i], schedule_queue[i])
    BY DEF IssuedAs, Waits, Operands
  <2> QED BY <2>1, <2>2 DEF Inv, QueueInv, UnitsInv, IssueOK
<1>2. IssueOrder(w, 0)
  <2>1. \A i \in Waiting : i \in Row /\ ~(i <= 0) /\ ~w.rows[i].fired
    BY Queue DEF Waiting, Waits
  <2> QED BY <2>1 DEF IssueOrder
<1> HIDE DEF w
<1>3. /\ 0 \in 0 .. schedule_queue_size /\ schedule_queue_size \in 0 .. schedule_queue_size
      /\ \A m \in Row : m \in 0 .. schedule_queue_size /\ m - 1 \in 0 .. schedule_queue_size
  BY Queue
<1>4. w \in I[0]
  BY <1>1, <1>2, <1>3
<1>5. ASSUME NEW m \in Row, NEW x \in I[m - 1] PROVE Issue(x, m) \in I[m]
  <2>1. IssueOK(x) /\ IssueOrder(x, m - 1)
    BY <1>3, <1>5
  <2>2. IssueOK(Issue(x, m)) /\ IssueOrder(Issue(x, m), m)
    BY <2>1, IssueKeeps, IssueOrderKeeps
  <2>3. Issue(x, m) \in WorkType
    BY <2>2 DEF IssueOK
  <2> QED BY <1>3, <2>2, <2>3
<1> HIDE DEF I
<1>6. EachRow(Issue, w) \in I[schedule_queue_size]
  BY <1>4, <1>5, IssueLoop
<1>7. Scheduled = EachRow(Issue, w)
  BY DEF Scheduled, w
<1> QED
  BY <1>3, <1>6, <1>7 DEF I

LEMMA ScheduleOrder == ASSUME Inv, OrderInv, ScheduleInstr PROVE OrderInv'
<1> DEFINE new == Scheduled.rows
<1>1. /\ step = "schedule_instr" /\ step' = "dispatch_instr" /\ schedule_queue' = new
      /\ finished_fu' = finished_fu
  BY DEF ScheduleInstr, At
<1>2. IssueOK(Scheduled) /\ IssueOrder(Scheduled, schedule_queue_size)
  BY <1>1, ScheduledOrder
<1>3. \A i \in Row : new[i].occupied = schedule_queue[i].occupied /\ new[i].seq = schedule_queue[i].seq
  BY <1>2 DEF IssueOK, IssuedAs
<1>4. Live' = Live /\ Live \subseteq Row
  BY <1>1, <1>3 DEF Live, Occupied
<1>5. MarkedOK(new, Live)
  <2> SUFFICES ASSUME NEW i \in Live, new[i].fired PROVE new[i].ls_conflict_end
    BY DEF MarkedOK
  <2>1. i \in Row /\ i <= schedule_queue_size
    BY <1>4, Queue
  <2>2. CASE i \in Waiting
    BY <1>2, <2>1, <2>2 DEF IssueOrder
  <2>3. CASE i \notin Waiting
    BY <1>2, <2>1, <2>3 DEF IssueOrder, OrderInv, MarkedOK
  <2> QED BY <2>2, <2>3
<1> HIDE DEF new
<1>6. ZerosOK(new)
  BY <1>3, SamePlaces DEF OrderInv
<1> QED
  BY <1>1, <1>4, <1>5, <1>6, OrderStep

LEMMA OrderNext == ASSUME Inv, OrderInv, [Next]_vars PROVE OrderInv'
<1>1. CASE UpdateState
  BY <1>1, UpdateOrder
<1>2. CASE ExecuteInstr
  BY <1>2, ExecuteOrder
<1>3. CASE ScheduleInstr
  BY <1>3, ScheduleOrder
<1>4. CASE DispatchInstr
  BY <1>4, DispatchOrder
<1>5. CASE FetchInstr \/ Done \/ UNCHANGED vars
  BY <1>5, FetchOrder
<1>6. CASE UpdateState2
  BY <1>6, SortOrder
<1> QED
  BY <1>1, <1>2, <1>3, <1>4, <1>5, <1>6 DEF Next

LEMMA OrderInvariant == Spec => [](Inv /\ DataInv /\ OrderInv)
<1>1. Init => Inv /\ DataInv /\ OrderInv
  BY InitInv, FlowInit, OrderInit
<1>2. Inv /\ DataInv /\ OrderInv /\ [Next]_vars => (Inv /\ DataInv /\ OrderInv)'
  BY NextInv, DataNext, OrderNext
<1> QED
  BY <1>1, <1>2, PTL DEF Spec

-----------------------------------------------------------------------------
(* The theorems that rest on the order. *)

\* schedule_instr: of the instructions that want an adder, or the multiplier, and that have their
\* values, none fires while an older one is left waiting.  The loop of the code compares no tags:
\* the oldest is first because update_state_2 sorted the rows, and no step since has moved one.
THEOREM OldestFirstTheorem == Spec => OldestFirst
<1>1. ASSUME Inv, OrderInv, Next, step = "schedule_instr",
             NEW i \in Occupied, NEW j \in Occupied, Waits(schedule_queue[i]), Waits(schedule_queue[j]),
             SameUnit(i, j), schedule_queue[i].seq < schedule_queue[j].seq, Ready(i),
             schedule_queue'[j].fired
      PROVE  schedule_queue'[i].fired
  <2>1. ScheduleInstr
    BY <1>1 DEF Next, UpdateState, ExecuteInstr, DispatchInstr, FetchInstr, UpdateState2, Done, At
  <2>2. /\ schedule_queue' = Scheduled.rows /\ IssueOrder(Scheduled, schedule_queue_size)
    BY <1>1, <2>1, ScheduledOrder DEF ScheduleInstr
  <2>3. /\ i \in Waiting /\ j \in Waiting /\ i \in Row /\ j \in Row
        /\ schedule_queue[i].seq \in Nat /\ schedule_queue[j].seq \in Nat
    BY <1>1 DEF Waiting, Occupied, Inv, QueueInv, RowsOK, RowType
  <2>4. i < j
    <3>1. SortedOK(schedule_queue)
      BY <1>1 DEF OrderInv
    <3>2. i \in OccupiedIn(schedule_queue) /\ j \in OccupiedIn(schedule_queue) /\ i \in Nat /\ j \in Nat
      BY <1>1, <2>3, RowSet, Queue
    <3>3. i # j /\ ~(j < i)
      BY <1>1, <2>3, <3>1, <3>2 DEF SortedOK
    <3> QED BY <3>2, <3>3
  <2> QED BY <1>1, <2>2, <2>3, <2>4 DEF IssueOrder
<1>2. Inv /\ OrderInv /\ [Next]_vars =>
        [step = "schedule_instr" =>
            \A i, j \in {k \in Occupied : Waits(schedule_queue[k])} :
                /\ SameUnit(i, j) /\ schedule_queue[i].seq < schedule_queue[j].seq /\ Ready(i)
                /\ schedule_queue'[j].fired
                => schedule_queue'[i].fired]_vars
  BY <1>1
<1> QED
  BY <1>2, OrderInvariant, PTL DEF Spec, OldestFirst

-----------------------------------------------------------------------------
(* Every step is one of Dataflow, or changes nothing there. *)

Running == {schedule_queue[i].seq : i \in Fired}
Phases  == [i \in DOMAIN trace |-> Phase(i - 1)]
Wrong   == {i \in 1 .. dispatch_queue_tail : Mispredicted(i - 1)}

PhaseOf(s, tail, over, running) ==
    IF s >= tail THEN "unread"
    ELSE IF Inst(s).op = "NOP" \/ s \in over THEN "done"
    ELSE IF s \in running THEN "executing" ELSE "waiting"

LEMMA PhaseIs == ASSUME Inv PROVE \A s : Phase(s) = PhaseOf(s, dispatch_queue_tail, Over, Running)
<1>1. \A s : InSeq(s, result) <=> s \in Over
  BY Elements DEF Inv, TimesInv, Over
<1> QED
  BY <1>1 DEF Phase, PhaseOf, Running

LEMMA PhaseWillBe ==
    ASSUME Inv', UNCHANGED trace
    PROVE  \A s : Phase(s)' = PhaseOf(s, dispatch_queue_tail', Over', Running')
<1>1. result' \in Seq({s \in Tag : Len(times[s]) = 5}')
  BY DEF Inv, TimesInv
<1>2. \A s : InSeq(s, result') <=> s \in ToSet(result')
  BY <1>1, Elements
<1> QED
  BY <1>2 DEF Phase, PhaseOf, Running, Over, Inst

LEMMA Mapped == Abstract!vars = <<trace, Phases, Wrong>>
BY DEF Abstract!vars, Phases, Wrong

\* A row that executes; the others have not retired either.
LEMMA RowPhases ==
    ASSUME Inv, DataInv, NEW i \in Occupied, NEW s, s = schedule_queue[i].seq
    PROVE  /\ s \in 0 .. dispatch_queue_head - 1 /\ s \in Tag /\ ~(s >= dispatch_queue_tail)
           /\ Inst(s).op # "NOP"
           /\ i \notin finished_fu => s \notin Over
           /\ s \in Running => i \in Fired
           /\ \A k \in Occupied : schedule_queue[k].seq = s => k = i
<1>1. i \in OccupiedIn(schedule_queue) /\ RowsOK(schedule_queue, dispatch_queue_head)
      /\ dispatch_queue_head \in Nat /\ dispatch_queue_tail \in Nat /\ dispatch_queue_head <= dispatch_queue_tail
  BY RowSet DEF Inv, QueueInv, TypeInv
<1>2. s \in Tag /\ s \in Nat /\ s < dispatch_queue_head
  BY <1>1, OccupiedRow DEF Inv, Tag
<1>3. Inst(s).op # "NOP"
  BY <1>1 DEF DataInv, FlowInv, FlowOK, KeptOK, InstOf
<1>4. \A k \in Occupied : schedule_queue[k].seq = s => k = i
  BY <1>1, RowSet DEF RowsOK
<1>5. s \in Running => i \in Fired
  BY <1>4 DEF Running, Fired
<1>6. ASSUME i \notin finished_fu PROVE s \notin Over
  <2>1. Len(times[s]) # 5
    <3>1. LET n == Len(times[schedule_queue[i].seq])
          IN  IF schedule_queue[i].fired THEN n = 4 \/ (n = 3 /\ schedule_queue[i].remaining_time > 0)
              ELSE n \in {2, 3}
      BY <1>6 DEF Inv, TimesInv
    <3> QED BY <3>1
  <2>2. Over \subseteq {t \in Tag : Len(times[t]) = 5}
    BY Elements DEF Inv, TimesInv, Over
  <2> QED BY <2>1, <2>2
<1> QED
  BY <1>1, <1>2, <1>3, <1>4, <1>5, <1>6

\* A step that reads and retires nothing, and fires nothing that has not retired.
LEMMA SameMapping ==
    ASSUME Inv, Inv', UNCHANGED <<trace, dispatch_queue_tail, predicted_br, result>>,
           \A s \in 0 .. dispatch_queue_tail - 1 :
               Inst(s).op = "NOP" \/ s \in Over \/ (s \in Running' <=> s \in Running)
    PROVE  UNCHANGED Abstract!vars
<1>1. trace \in Seq(Instruction) /\ DOMAIN trace = 1 .. Len(trace) /\ Len(trace) \in Nat
      /\ dispatch_queue_tail \in Nat
  BY TraceType DEF Inv, TypeInv
<1>2. Over' = Over
  BY DEF Over
<1>3. \A i \in DOMAIN trace : Phase(i - 1)' = Phase(i - 1)
  <2> SUFFICES ASSUME NEW i \in DOMAIN trace
               PROVE  PhaseOf(i - 1, dispatch_queue_tail, Over, Running')
                        = PhaseOf(i - 1, dispatch_queue_tail, Over, Running)
    BY <1>2, PhaseIs, PhaseWillBe
  <2>1. i - 1 \in 0 .. dispatch_queue_tail - 1 \/ i - 1 >= dispatch_queue_tail
    BY <1>1
  <2> QED BY <2>1 DEF PhaseOf
<1>4. Phases' = Phases
  BY <1>3 DEF Phases
<1>5. Wrong' = Wrong
  BY DEF Wrong, Mispredicted, Inst
<1> QED
  BY <1>4, <1>5, Mapped DEF Abstract!vars, Phases, Wrong

LEMMA UpdatedOver ==
    ASSUME Inv, DataInv, UpdateState
    PROVE  Over' = Over \cup Retired
<1>1. /\ finished_fu = {} /\ Finished \subseteq Occupied /\ result' = result \o Retirement.retired
  BY DEF Inv, UpdateState, At, ClockInv, BetweenCycles, Finished
<1>2. \A s \in Retired : s \notin Over
  <2> SUFFICES ASSUME NEW i \in Finished PROVE schedule_queue[i].seq \notin Over
    BY DEF Retired
  <2> QED BY <1>1, RowPhases
<1> DEFINE more == Retirement.retired
           Five == {s \in Tag : Len(times[s]) = 5}
           All  == Five \cup Retired
<1>3. more \in Seq(Retired) /\ ToSet(more) = Retired /\ Distinct(more)
  BY RetiredOnce
<1>4. result \in Seq(Five) /\ Distinct(result)
  BY DEF Inv, TimesInv, DataInv, OnceInv, Distinct
<1>5. ToSet(result) \cap ToSet(more) = {}
  BY <1>2, <1>3 DEF Over
<1>6. Retired \subseteq All /\ Five \subseteq All
  OBVIOUS
<1> HIDE DEF more, Five, All
<1>7. more \in Seq(All) /\ result \in Seq(All)
  BY <1>3, <1>4, <1>6, SeqMonotone
<1>8. ToSet(result \o more) = ToSet(result) \cup ToSet(more)
  BY <1>3, <1>4, <1>5, <1>7, Joined
<1> QED
  BY <1>1, <1>3, <1>8 DEF Over, more

LEMMA UpdateRefines == ASSUME Inv, DataInv, Inv', UpdateState PROVE Abstract!Finish
<1> DEFINE S == {i \in DOMAIN trace : i - 1 \in Retired}
<1>1. /\ step = "update_state" /\ finished_fu = {} /\ Finished \subseteq Fired /\ Fired \subseteq Occupied
      /\ UNCHANGED <<trace, dispatch_queue_tail, predicted_br>>
      /\ schedule_queue' = [i \in Row |-> Updated(i)] /\ result' = result \o Retirement.retired
  BY DEF Inv, UpdateState, At, ClockInv, BetweenCycles, Finished, Fired, fetching
<1>2. trace \in Seq(Instruction) /\ DOMAIN trace = 1 .. Len(trace) /\ Len(trace) \in Nat
  BY TraceType DEF Inv, TypeInv
<1>3. Running' = Running
  <2> DEFINE new == [i \in Row |-> Updated(i)]
  <2>1. \A i \in Row : /\ new[i].occupied = schedule_queue[i].occupied
                       /\ new[i].seq = schedule_queue[i].seq /\ new[i].fired = schedule_queue[i].fired
    BY UpdatedRow DEF Inv, Same, Alike
  <2>2. schedule_queue' = new
    BY <1>1
  <2> HIDE DEF new
  <2> QED BY <2>1, <2>2 DEF Running, Fired, Occupied
<1>4. \A s \in Retired : /\ s \in Running /\ s \in Tag /\ s \notin Over /\ Inst(s).op # "NOP"
                         /\ ~(s >= dispatch_queue_tail)
  <2> SUFFICES ASSUME NEW i \in Finished
               PROVE  LET s == schedule_queue[i].seq
                      IN  /\ s \in Running /\ s \in Tag /\ s \notin Over /\ Inst(s).op # "NOP"
                          /\ ~(s >= dispatch_queue_tail)
    BY DEF Retired
  <2> QED BY <1>1, RowPhases DEF Running
<1>5. Over' = Over \cup Retired
  BY UpdatedOver
<1>6. \A s : /\ Phase(s) = PhaseOf(s, dispatch_queue_tail, Over, Running)
             /\ Phase(s)' = PhaseOf(s, dispatch_queue_tail, Over \cup Retired, Running)
  BY <1>1, <1>3, <1>5, PhaseIs, PhaseWillBe
<1>7. \A i \in S : Phases[i] = "executing"
  BY <1>4, <1>6 DEF Phases, PhaseOf
<1>8. Phases' = [i \in DOMAIN trace |-> IF i \in S THEN "done" ELSE Phases[i]]
  <2>1. \A i \in DOMAIN trace : Phase(i - 1)' = IF i \in S THEN "done" ELSE Phase(i - 1)
    BY <1>4, <1>6 DEF PhaseOf
  <2> HIDE DEF S
  <2> QED BY <1>1, <2>1 DEF Phases
<1>9. Wrong' = Wrong
  BY <1>1 DEF Wrong, Mispredicted, Inst
<1>10. S \in SUBSET {i \in DOMAIN trace : Phases[i] = "executing"}
  BY <1>7
<1> HIDE DEF S
<1> QED
  BY <1>1, <1>8, <1>9, <1>10 DEF Abstract!Finish, Abstract!Instr, Phases, Wrong

LEMMA ExecuteRefines == ASSUME Inv, DataInv, Inv', ExecuteInstr PROVE UNCHANGED Abstract!vars
<1> DEFINE new == Executed.rows
<1>1. /\ step = "execute_instr" /\ schedule_queue' = new /\ schedule_queue \in [Row -> RowType]
      /\ UNCHANGED <<trace, dispatch_queue_tail, predicted_br, result>>
  BY DEF Inv, QueueInv, RowsOK, ExecuteInstr, At, fetching
<1>2. \A i \in Row : IF i \in Fired THEN new[i] \in Ran(i) ELSE new[i] = schedule_queue[i]
  BY <1>1, ExecutedRows
<1> HIDE DEF new
<1>3. \A i \in Row : /\ new[i].occupied = schedule_queue[i].occupied /\ new[i].seq = schedule_queue[i].seq
                     /\ new[i].fired = schedule_queue[i].fired
  BY <1>1, <1>2 DEF Ran, RowType
<1>4. Running' = Running
  BY <1>1, <1>3 DEF Running, Fired, Occupied
<1> QED
  BY <1>1, <1>4, SameMapping

LEMMA DispatchRefines == ASSUME Inv, DataInv, Inv', DispatchInstr PROVE UNCHANGED Abstract!vars
<1> DEFINE new == Dispatched.rows
<1>1. /\ schedule_queue' = new /\ UNCHANGED <<trace, dispatch_queue_tail, predicted_br, result>>
  BY DEF DispatchInstr, fetching
<1>2. \A i \in Row : IF schedule_queue[i].occupied THEN new[i] = schedule_queue[i]
                     ELSE new[i].occupied => ~new[i].fired
  BY DispatchedOK DEF FillOK
<1> HIDE DEF new
<1>3. Running' = Running
  <2>1. {i \in Row : new[i].occupied /\ new[i].fired} = Fired
    BY <1>2 DEF Fired, Occupied
  <2>2. Fired' = Fired
    BY <1>1, <2>1 DEF Fired, Occupied
  <2>3. \A i \in Fired : new[i] = schedule_queue[i]
    BY <1>2 DEF Fired, Occupied
  <2> QED BY <1>1, <2>2, <2>3 DEF Running
<1> QED
  BY <1>1, <1>3, SameMapping

LEMMA SortRefines == ASSUME Inv, DataInv, Inv', UpdateState2 PROVE UNCHANGED Abstract!vars
<1> DEFINE rows  == [i \in Row |-> IF i \in finished_fu THEN Free(i) ELSE schedule_queue[i]]
           small == {p \in Row \X Row : compare_sq(rows[p[1]], rows[p[2]]) <= 0}
           order == qsort(small)
           new   == [i \in Row |-> rows[order[i]]]
<1>1. /\ step = "update_state_2" /\ schedule_queue' = new
      /\ UNCHANGED <<trace, dispatch_queue_tail, predicted_br, result>>
  BY DEF UpdateState2, Sorted, fetching
<1>2. /\ FiredIn(rows) = Fired \ finished_fu
      /\ \A i \in FiredIn(rows) : i \in Row /\ rows[i] = schedule_queue[i]
      /\ RowsOK(rows, dispatch_queue_head)
  <2>1. /\ RowsOK(rows, dispatch_queue_head)
        /\ FiredIn(rows) = Fired \ finished_fu
        /\ \A i \in OccupiedIn(rows) : i \in Row /\ i \notin finished_fu /\ rows[i] = schedule_queue[i]
    BY <1>1, FreedRows, Zenon
  <2> HIDE DEF rows
  <2> QED BY <2>1 DEF FiredIn
<1>3. order \in Bijection(Row, Row)
  <2>1. small \in SUBSET (Row \X Row)
    OBVIOUS
  <2> HIDE DEF small
  <2> QED BY <2>1, Permutation
<1> HIDE DEF rows, order
<1>4. /\ \A i \in Row : order[i] \in Row /\ new[i] = rows[order[i]]
      /\ FiredIn(new) = {i \in Row : order[i] \in FiredIn(rows)}
      /\ \A j \in Row : \E i \in Row : order[i] = j
  <2>1. \A j \in Row : \E i \in Row : order[i] = j
    BY <1>3 DEF Bijection, Surjection
  <2>2. new = [i \in Row |-> rows[order[i]]]
    OBVIOUS
  <2> HIDE DEF new
  <2>3. /\ \A i \in Row : order[i] \in Row /\ new[i] = rows[order[i]]
        /\ FiredIn(new) = {i \in Row : order[i] \in FiredIn(rows)}
    BY <1>2, <1>3, <2>2, PermutedRows
  <2> QED BY <2>1, <2>3
<1> HIDE DEF new
<1>5. Running' = {schedule_queue[i].seq : i \in Fired \ finished_fu}
  <2>1. Running' = {new[i].seq : i \in FiredIn(new)}
    BY <1>1 DEF Running, Fired, Occupied, FiredIn, OccupiedIn
  <2>2. \A i \in FiredIn(new) : order[i] \in Fired \ finished_fu /\ new[i].seq = schedule_queue[order[i]].seq
    BY <1>2, <1>4
  <2>3. \A j \in Fired \ finished_fu : \E i \in FiredIn(new) : new[i].seq = schedule_queue[j].seq
    BY <1>2, <1>4
  <2> QED BY <2>1, <2>2, <2>3
\* The rows that become free are those of instructions that have retired.
<1>6. ASSUME NEW s \in Running, s \notin Running', Inst(s).op # "NOP" PROVE s \in Over
  <2>1. PICK i \in Fired : s = schedule_queue[i].seq
    BY DEF Running
  <2>2. i \in finished_fu /\ i \in Occupied
    BY <1>5, <1>6, <2>1 DEF Fired
  <2>3. /\ s \in 0 .. dispatch_queue_head - 1
        /\ \A k \in Occupied : schedule_queue[k].seq = s => k = i
    BY <2>1, <2>2, RowPhases
  <2>4. ~\E k \in Live : schedule_queue[k].seq = s
    BY <2>2, <2>3 DEF Live
  <2> QED BY <1>6, <2>3, <2>4 DEF DataInv, FlowInv, FlowOK, KeptOK
<1>7. \A s : Inst(s).op = "NOP" \/ s \in Over \/ (s \in Running' <=> s \in Running)
  <2>1. Running' \subseteq Running
    BY <1>5 DEF Running
  <2> QED BY <1>6, <2>1
<1> QED
  BY <1>1, <1>7, SameMapping

\* Instruction s fires in row k: it was waiting, and the accesses that it must not overtake
\* have retired.
LEMMA StartsInOrder ==
    ASSUME Inv, DataInv, OrderInv, ScheduleInstr, NEW k \in Waiting, schedule_queue'[k].fired,
           NEW i \in DOMAIN trace, i - 1 = schedule_queue[k].seq
    PROVE  Phases[i] = "waiting" /\ Abstract!InMemoryOrder(i)
<1> DEFINE s == i - 1
<1>1. /\ trace \in Seq(Instruction) /\ DOMAIN trace = 1 .. Len(trace) /\ Len(trace) \in Nat
      /\ dispatch_queue_head \in Nat /\ step = "schedule_instr"
  BY TraceType DEF Inv, TypeInv, ScheduleInstr, At
<1>2. k \in Occupied /\ k \notin Fired /\ k \notin finished_fu /\ k \in Row
  BY DEF Waiting, Waits, Occupied, Fired, Inv, ClockInv
<1>3. /\ s \in 0 .. dispatch_queue_head - 1 /\ ~(s >= dispatch_queue_tail) /\ Inst(s).op # "NOP"
      /\ s \notin Over /\ s \notin Running
  BY <1>2, RowPhases
<1>4. Phases[i] = "waiting"
  BY <1>3, PhaseIs DEF Phases, PhaseOf
<1>5. \A j \in Live : ~Overtakes(k, j)
  BY <1>1, ScheduledOrder DEF ScheduleInstr, IssueOrder
<1>6. ASSUME NEW j \in DOMAIN trace, j < i, Abstract!Conflict(i, j) PROVE Phases[j] = "done"
  <2>1. /\ trace[i] = Inst(s) /\ trace[j] = Inst(j - 1) /\ j - 1 \in 0 .. dispatch_queue_head - 1 /\ j - 1 < s
    BY <1>1, <1>3, <1>6 DEF Inst
  <2>2. /\ Memory(Inst(s).op) /\ Memory(Inst(j - 1).op) /\ Inst(s).addr = Inst(j - 1).addr
        /\ Inst(s).op = "LOAD" => Inst(j - 1).op = "STORE"
    BY <1>6, <2>1 DEF Abstract!Conflict, Abstract!Loads, Abstract!Stores, Abstract!Instr, Memory
  <2>3. ~\E m \in Live : schedule_queue[m].seq = j - 1
    <3> SUFFICES ASSUME NEW m \in Live, schedule_queue[m].seq = j - 1 PROVE FALSE
      OBVIOUS
    <3>1. Overtakes(k, m)
      BY <2>1, <2>2 DEF Overtakes, InstOf
    <3> QED BY <1>5, <3>1
  <2>4. j - 1 \in Over
    BY <2>1, <2>2, <2>3 DEF DataInv, FlowInv, FlowOK, KeptOK, Memory
  <2>5. Phase(j - 1) = "done"
    BY <2>1, <2>4, OverIsDone
  <2> QED BY <2>5 DEF Phases
<1>7. Abstract!InMemoryOrder(i)
  BY <1>6 DEF Abstract!InMemoryOrder, Abstract!Older, Abstract!Instr, Phases
<1> QED
  BY <1>4, <1>7

LEMMA ScheduleRefines ==
    ASSUME Inv, DataInv, OrderInv, Inv', ExecutesWithValues', ScheduleInstr
    PROVE  Abstract!Start
<1> DEFINE new   == Scheduled.rows
           Newly == {k \in Waiting : new[k].fired}
           S     == {i \in DOMAIN trace : \E k \in Newly : i - 1 = schedule_queue[k].seq}
<1>1. /\ step = "schedule_instr" /\ schedule_queue' = new
      /\ UNCHANGED <<trace, dispatch_queue_tail, predicted_br, result>>
  BY DEF ScheduleInstr, At, fetching
<1>2. trace \in Seq(Instruction) /\ DOMAIN trace = 1 .. Len(trace) /\ Len(trace) \in Nat
  BY TraceType DEF Inv, TypeInv
<1>3. \A k \in Row : /\ new[k].occupied = schedule_queue[k].occupied /\ new[k].seq = schedule_queue[k].seq
                     /\ k \in Fired => new[k].fired
                     /\ k \notin Waiting => new[k] = schedule_queue[k]
  <2>1. IssueOK(Scheduled) /\ IssueOrder(Scheduled, schedule_queue_size)
    BY <1>1, ScheduledOrder
  <2> QED BY <2>1 DEF IssueOK, IssuedAs, IssueOrder, Fired, Waiting, Waits
<1> HIDE DEF new
<1>4. Newly \subseteq Waiting /\ Waiting \subseteq Occupied /\ Fired \subseteq Occupied /\ Occupied \subseteq Row
  BY DEF Waiting, Waits, Fired, Occupied
<1>5. Running' = Running \cup {schedule_queue[k].seq : k \in Newly}
  <2>1. Fired' = Fired \cup Newly
    BY <1>1, <1>3, <1>4 DEF Fired, Occupied, Waiting, Waits
  <2>2. \A k \in Fired \cup Newly : new[k].seq = schedule_queue[k].seq
    BY <1>3, <1>4
  <2> HIDE DEF Newly
  <2> QED BY <1>1, <2>1, <2>2 DEF Running
<1>6. Over' = Over
  BY <1>1 DEF Over
<1>7. \A s : /\ Phase(s) = PhaseOf(s, dispatch_queue_tail, Over, Running)
             /\ Phase(s)' = PhaseOf(s, dispatch_queue_tail, Over, Running')
  BY <1>1, <1>6, PhaseIs, PhaseWillBe
<1>8. \A s \in {schedule_queue[k].seq : k \in Newly} :
          ~(s >= dispatch_queue_tail) /\ Inst(s).op # "NOP" /\ s \notin Over /\ s \in Running'
  <2> SUFFICES ASSUME NEW k \in Newly
               PROVE  LET s == schedule_queue[k].seq
                      IN  ~(s >= dispatch_queue_tail) /\ Inst(s).op # "NOP" /\ s \notin Over
    BY <1>5
  <2>1. k \in Occupied /\ k \notin finished_fu
    BY <1>4 DEF Waiting, Waits, Fired, Inv, ClockInv
  <2> QED BY <2>1, RowPhases
<1>9. Phases' = [i \in DOMAIN trace |-> IF i \in S THEN "executing" ELSE Phases[i]]
  <2>1. \A i \in DOMAIN trace : i \in S <=> i - 1 \in {schedule_queue[k].seq : k \in Newly}
    OBVIOUS
  <2> HIDE DEF S, Newly
  <2>2. \A i \in DOMAIN trace : Phase(i - 1)' = IF i \in S THEN "executing" ELSE Phase(i - 1)
    <3> SUFFICES ASSUME NEW i \in DOMAIN trace
                 PROVE  PhaseOf(i - 1, dispatch_queue_tail, Over, Running')
                          = IF i \in S THEN "executing"
                            ELSE PhaseOf(i - 1, dispatch_queue_tail, Over, Running)
      BY <1>7
    <3>1. CASE i \in S
      BY <1>8, <2>1, <3>1 DEF PhaseOf
    <3>2. CASE i \notin S
      <4>1. i - 1 \in Running' <=> i - 1 \in Running
        BY <1>5, <2>1, <3>2
      <4> QED BY <3>2, <4>1 DEF PhaseOf
    <3> QED BY <3>1, <3>2
  <2> QED BY <1>1, <2>2 DEF Phases
\* What is done after the step was done before it.
<1>10. \A j \in DOMAIN trace : Phases'[j] = "done" => Phases[j] = "done"
  BY <1>9
<1>11. ASSUME NEW i \in S PROVE Phases[i] = "waiting" /\ Abstract!MayStart(i)
  <2>1. PICK k \in Newly : i - 1 = schedule_queue[k].seq
    OBVIOUS
  <2>2. i \in DOMAIN trace /\ k \in Waiting /\ schedule_queue'[k].fired
    BY <1>1, <2>1
  <2>3. Phases[i] = "waiting" /\ Abstract!InMemoryOrder(i)
    BY <2>1, <2>2, StartsInOrder
  <2>4. Phases'[i] = "executing"
    BY <1>9, <2>2
  <2>5. (Abstract!HasValues(i) /\ Abstract!NotSpeculative(i))'
    <3>1. i \in DOMAIN trace' /\ Phase(i - 1)' = "executing"
      BY <1>1, <2>2, <2>4 DEF Phases
    <3> QED BY <3>1 DEF ExecutesWithValues
  <2>6. Abstract!HasValues(i)
    BY <1>1, <1>10, <2>5 DEF Abstract!HasValues, Abstract!Producer, Abstract!Older, Abstract!Instr, Phases
  <2>7. Abstract!NotSpeculative(i)
    <3>1. Wrong' = Wrong
      BY <1>1 DEF Wrong, Mispredicted, Inst
    <3> QED BY <1>1, <1>10, <2>5, <3>1
            DEF Abstract!NotSpeculative, Abstract!Older, Abstract!Instr, Phases, Wrong
  <2> QED BY <2>3, <2>6, <2>7 DEF Abstract!MayStart, Phases
<1>12. S \in SUBSET {i \in DOMAIN trace : Abstract!MayStart(i)}
  BY <1>11
<1> HIDE DEF S, Newly
<1>13. Wrong' = Wrong
  BY <1>1 DEF Wrong, Mispredicted, Inst
<1> QED
  BY <1>1, <1>9, <1>12, <1>13 DEF Abstract!Start, Abstract!Instr, Phases, Wrong

LEMMA FetchRefines ==
    ASSUME Inv, DataInv, Inv', FetchInstr
    PROVE  Abstract!Read \/ UNCHANGED Abstract!vars
<1> DEFINE tail == dispatch_queue_tail
           next == IF continue_fetch THEN Min({tail + fetch_count, Len(trace)}) ELSE tail
<1>1. /\ trace \in Seq(Instruction) /\ DOMAIN trace = 1 .. Len(trace) /\ Len(trace) \in Nat
      /\ tail \in Nat /\ tail <= Len(trace) /\ predicted_br \in [Tag -> BOOLEAN]
  BY TraceType DEF Inv, TypeInv
<1>2. /\ UNCHANGED <<trace, result, schedule_queue>> /\ dispatch_queue_tail' = next
      /\ predicted_br' = [s \in DOMAIN predicted_br |->
             IF s \in tail .. next - 1 /\ Inst(s).op = "BR" THEN branch_table[Entry(ghr, s)] >= 2
             ELSE predicted_br[s]]
  BY DEF FetchInstr, queue
<1>3. next \in tail .. Len(trace)
  <2>1. tail + fetch_count \in Int /\ tail + fetch_count >= tail
    BY <1>1, Sizes
  <2>2. Min({tail + fetch_count, Len(trace)}) = IF tail + fetch_count <= Len(trace) THEN tail + fetch_count
                                               ELSE Len(trace)
    BY <1>1, <2>1, MinOfTwo
  <2> QED BY <1>1, <2>1, <2>2
<1> HIDE DEF next
<1>4. Running' = Running /\ Over' = Over
  BY <1>2 DEF Running, Fired, Occupied, Over
<1>5. \A s : /\ Phase(s) = PhaseOf(s, tail, Over, Running)
             /\ Phase(s)' = PhaseOf(s, next, Over, Running)
  BY <1>2, <1>4, PhaseIs, PhaseWillBe
\* What is read now neither executes nor has retired.
<1>6. ASSUME NEW s \in tail .. next - 1 PROVE s \notin Over /\ s \notin Running
  <2>1. s \in Tag
    BY <1>1, <1>3 DEF Tag
  <2>2. s \notin Over
    <3>1. Len(times[s]) = 0
      BY <1>6, <2>1 DEF Inv, TimesInv
    <3>2. Over \subseteq {t \in Tag : Len(times[t]) = 5}
      BY Elements DEF Inv, TimesInv, Over
    <3> QED BY <3>1, <3>2
  <2>3. \A i \in Fired : schedule_queue[i].seq # s
    <3> SUFFICES ASSUME NEW i \in Fired PROVE schedule_queue[i].seq # s
      OBVIOUS
    <3>1. ~(schedule_queue[i].seq >= dispatch_queue_tail)
      BY RowPhases DEF Fired
    <3> QED BY <1>1, <1>6, <3>1
  <2> QED BY <2>2, <2>3 DEF Running
<1>7. \A s \in 0 .. tail - 1 : Mispredicted(s)' <=> Mispredicted(s)
  <2> SUFFICES ASSUME NEW s \in 0 .. tail - 1 PROVE Mispredicted(s)' <=> Mispredicted(s)
    OBVIOUS
  <2>1. s \in DOMAIN predicted_br /\ s \notin tail .. next - 1
    BY <1>1 DEF Tag
  <2>2. predicted_br'[s] = predicted_br[s]
    BY <1>2, <2>1
  <2> QED BY <1>2, <2>2 DEF Mispredicted, Inst
<1>8. CASE next = tail
  <2>1. predicted_br' = predicted_br
    BY <1>1, <1>2, <1>8
  <2> QED BY <1>2, <1>4, <1>8, <2>1, SameMapping
<1>9. CASE next # tail
  <2> DEFINE new == {i \in 1 .. next : Phases[i] = "unread" /\ trace[i].op = "BR"}
             B   == {i \in tail + 1 .. next : Mispredicted(i - 1)'}
  <2>1. next \in DOMAIN trace /\ tail < next
    BY <1>1, <1>3, <1>9
  <2>2. \A i \in DOMAIN trace : Phases[i] = "unread" <=> i > tail
    BY <1>1, <1>5 DEF Phases, PhaseOf
  <2>3. Phases' = [i \in DOMAIN trace |-> IF i <= next /\ Phases[i] = "unread"
                                          THEN IF trace[i].op = "NOP" THEN "done" ELSE "waiting"
                                          ELSE Phases[i]]
    <3>1. ASSUME NEW i \in DOMAIN trace
          PROVE  Phase(i - 1)' = IF i <= next /\ Phases[i] = "unread"
                                 THEN IF trace[i].op = "NOP" THEN "done" ELSE "waiting"
                                 ELSE Phase(i - 1)
      <4>1. i \in Nat /\ Inst(i - 1) = trace[i]
        BY <1>1 DEF Inst
      <4>2. CASE i > tail /\ i <= next
        <5>1. i - 1 \in tail .. next - 1 /\ ~(i - 1 >= next)
          BY <1>1, <1>3, <4>1, <4>2
        <5> QED BY <1>5, <1>6, <2>2, <4>1, <4>2, <5>1 DEF PhaseOf
      <4>3. CASE ~(i > tail)
        <5>1. ~(i - 1 >= tail) /\ ~(i - 1 >= next)
          BY <1>1, <1>3, <4>1, <4>3
        <5> QED BY <1>5, <2>2, <4>3, <5>1 DEF PhaseOf
      <4>4. CASE ~(i <= next)
        <5>1. i - 1 >= tail /\ i - 1 >= next
          BY <1>1, <1>3, <4>1, <4>4
        <5> QED BY <1>5, <4>4, <5>1 DEF PhaseOf
      <4> QED BY <4>2, <4>3, <4>4
    <3>2. \A i \in DOMAIN trace : Phases[i] = Phase(i - 1)
      BY DEF Phases
    <3>3. Phases' = [i \in DOMAIN trace |-> Phase(i - 1)']
      BY <1>2 DEF Phases
    <3> QED BY <3>1, <3>2, <3>3
  <2>4. B \in SUBSET new
    <3> SUFFICES ASSUME NEW i \in tail + 1 .. next, Mispredicted(i - 1)' PROVE i \in new
      OBVIOUS
    <3>1. i \in 1 .. next /\ i \in DOMAIN trace /\ i > tail
      BY <1>1, <1>3
    <3>2. trace[i].op = "BR"
      <4>1. Inst(i - 1) = trace[i]
        BY <1>1, <3>1 DEF Inst
      <4> QED BY <1>2, <4>1 DEF Mispredicted, Inst
    <3> QED BY <2>2, <3>1, <3>2
  <2>5. Wrong' = Wrong \cup B
    <3>1. Wrong' = {i \in 1 .. next : Mispredicted(i - 1)'}
      BY <1>2 DEF Wrong
    <3>2. \A i : i \in 1 .. next <=> i \in 1 .. tail \/ i \in tail + 1 .. next
      BY <1>1, <1>3
    <3>3. \A i \in 1 .. tail : Mispredicted(i - 1)' <=> Mispredicted(i - 1)
      BY <1>1, <1>7
    <3> QED BY <3>1, <3>2, <3>3 DEF Wrong
  <2>6. Phases[next] = "unread"
    BY <1>1, <2>1, <2>2
  <2> HIDE DEF B
  <2>7. Abstract!Read
    BY <1>2, <2>1, <2>3, <2>4, <2>5, <2>6 DEF Abstract!Read, Abstract!Instr, Phases, Wrong
  <2> QED BY <2>7
<1> QED
  BY <1>8, <1>9

LEMMA InitRefines == Init => Abstract!Init
<1> SUFFICES ASSUME Init PROVE Abstract!Init
  OBVIOUS
<1>1. trace \in Traces /\ dispatch_queue_tail = 0
  BY DEF Init
<1>2. DOMAIN trace = 1 .. Len(trace) /\ Len(trace) \in Nat
  BY <1>1, TraceType
<1>3. \A i \in DOMAIN trace : Phase(i - 1) = "unread"
  BY <1>1, <1>2 DEF Phase
<1>4. Wrong = {}
  BY <1>1 DEF Wrong
<1> QED
  BY <1>1, <1>3, <1>4 DEF Abstract!Init, Abstract!Instr, Wrong

LEMMA StepRefines ==
    ASSUME Inv, DataInv, OrderInv, Inv', ExecutesWithValues', [Next]_vars
    PROVE  [Abstract!Read \/ Abstract!Start \/ Abstract!Finish]_(Abstract!vars)
<1>1. CASE UpdateState
  BY <1>1, UpdateRefines
<1>2. CASE ExecuteInstr
  BY <1>2, ExecuteRefines
<1>3. CASE ScheduleInstr
  BY <1>3, ScheduleRefines
<1>4. CASE DispatchInstr
  BY <1>4, DispatchRefines
<1>5. CASE FetchInstr
  BY <1>5, FetchRefines
<1>6. CASE UpdateState2
  BY <1>6, SortRefines
<1>7. CASE Done \/ UNCHANGED vars
  <2>1. /\ UNCHANGED <<trace, dispatch_queue_tail, predicted_br, result, schedule_queue>>
    BY <1>7 DEF Done, vars, fetching, queue
  <2>2. Running' = Running
    BY <2>1 DEF Running, Fired, Occupied
  <2> QED BY <2>1, <2>2, SameMapping
<1> QED
  BY <1>1, <1>2, <1>3, <1>4, <1>5, <1>6, <1>7 DEF Next

\* The processor as a whole, with tags for values, marks for accesses and one stall for branches,
\* starts an instruction only when its values are computed, the conflicting accesses before it
\* are over, and no mispredicted branch before it is open.
THEOREM RefinementTheorem == Spec => ImplementsDataflow
<1>1. Inv /\ DataInv /\ OrderInv /\ Inv' /\ ExecutesWithValues' /\ [Next]_vars
        => [Abstract!Read \/ Abstract!Start \/ Abstract!Finish]_(Abstract!vars)
  BY StepRefines
<1>2. Spec => Abstract!Spec
  BY <1>1, InitRefines, OrderInvariant, ExecutesWithValuesTheorem, PTL DEF Spec, Abstract!Spec
<1> QED
  BY <1>2 DEF ImplementsDataflow
=============================================================================
