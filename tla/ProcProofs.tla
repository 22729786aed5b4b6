------------------------------ MODULE ProcProofs ------------------------------
(***************************************************************************)
(* Proofs about ProcSim, for every trace, every number of units and rows,  *)
(* and whatever qsort does with a comparison that is no order.             *)
(***************************************************************************)
EXTENDS ProcSim, FiniteSetTheorems, SequenceTheorems, WellFoundedInduction, TLAPS

\* What one row of the scheduling queue holds, and one load-store unit.
RowType  == [occupied : BOOLEAN, seq : Nat, dest_reg_tag : Nat, src_reg_tag : [1 .. 2 -> Nat],
             src_reg_ready : [1 .. 2 -> BOOLEAN], fired : BOOLEAN,
             remaining_time : -1 .. NotYet, ls_conflict_end : BOOLEAN, fu : 0 .. K2]
UnitType == [busy : BOOLEAN, load : {"NOP", "ADD", "MUL", "LOAD", "STORE", "BR"}, addr : Nat]
RegType(limit) == [tag : 0 .. limit, ready : BOOLEAN]

\* Occupied, Fired and Working, of any rows.
OccupiedIn(rows) == {i \in Row : rows[i].occupied}
FiredIn(rows)    == {i \in OccupiedIn(rows) : rows[i].fired}
WorkingIn(rows, ops) == {i \in FiredIn(rows) : /\ InstOf(rows[i]).op \in ops
                                               /\ rows[i].remaining_time > 0}
Accesses == {"LOAD", "STORE"}

\* The occupied rows hold different instructions, of those that were dispatched.
RowsOK(rows, head) ==
    /\ rows \in [Row -> RowType]
    /\ \A i \in Row : rows[i].seq \in 0 .. head
    /\ \A i \in OccupiedIn(rows) : rows[i].seq < head
    /\ \A i, j \in OccupiedIn(rows) : rows[i].seq = rows[j].seq => i = j
    /\ \A i \in FiredIn(rows) : Memory(InstOf(rows[i]).op) => rows[i].fu \in LsUnit

\* UnitsConserved, and no two accesses that work have the same unit.
UnitsOK(rows, add, ls, ls_fu) ==
    /\ add \in Nat /\ add = K0 - Cardinality(WorkingIn(rows, {"ADD", "BR"}))
    /\ ls \in Nat /\ ls = K2 - Cardinality(WorkingIn(rows, Accesses))
    /\ ls_fu \in [LsUnit -> UnitType]
    /\ \A u \in LsUnit : ls_fu[u].busy <=> \E i \in WorkingIn(rows, Accesses) : rows[i].fu = u
    /\ \A i, j \in WorkingIn(rows, Accesses) : rows[i].fu = rows[j].fu => i = j

TypeInv ==
    /\ trace \in Traces /\ step \in Steps /\ cycle \in Nat /\ continue_fetch \in BOOLEAN
    /\ dispatch_queue_head \in Nat /\ temp_iterator \in Nat /\ dispatch_queue_tail \in Nat
    /\ dispatch_queue_head <= temp_iterator /\ temp_iterator <= dispatch_queue_tail
    /\ dispatch_queue_tail <= Len(trace)
    /\ predicted_br \in [Tag -> BOOLEAN]
    /\ instr_tag \in Nat /\ register_file \in [Reg -> RegType(instr_tag)]
    /\ branch_started \in BOOLEAN
    /\ branch_table \in [Entries -> 0 .. 3] /\ ghr \in Entries
    /\ l1_cache \in [0 .. Sets - 1 -> [valid : BOOLEAN, tag : Int]]

QueueInv == /\ RowsOK(schedule_queue, dispatch_queue_head)
            /\ inst_cnt_sq = Cardinality(Occupied)

UnitsInv == UnitsOK(schedule_queue, add_unit, ls_unit, ls_functional_unit)

\* The time that a fired row has left: it is zero when update_state finds the row
\* finished, and -1 from execute_instr until update_state_2 frees the row.
BetweenCycles == step \in {"update_state", "done"}
ClockInv ==
    /\ finished_fu \subseteq Fired
    /\ BetweenCycles => finished_fu = {}
    /\ \A i \in Fired :
          IF BetweenCycles THEN schedule_queue[i].remaining_time >= 0
          ELSE IF step = "execute_instr"
          THEN /\ schedule_queue[i].remaining_time >= 0
               /\ schedule_queue[i].remaining_time = 0 <=> i \in finished_fu
          ELSE schedule_queue[i].remaining_time = -1 <=> i \in finished_fu

\* The instructions that have fewer times than this have none of this cycle.
Late == [s \in Steps |->
            CASE s \in {"update_state", "done"} -> 6 [] s = "execute_instr" -> 5
              [] s = "schedule_instr" -> 4 [] s = "dispatch_instr" -> 3
              [] s = "fetch_instr" -> 2 [] s = "update_state_2" -> 1]

InOrder(t) == /\ Len(t) <= 5
              /\ \A k \in 1 .. Len(t) - 1 : t[k] < t[k + 1]
              /\ Len(t) > 0 /\ Len(t) < Late[step] => t[Len(t)] < cycle

\* How many times an instruction has follows from where it is.
TimesInv ==
    /\ times \in [Tag -> Seq(0 .. cycle)]
    /\ \A s \in Tag : InOrder(times[s])
    /\ \A s \in Tag : /\ s >= dispatch_queue_tail => Len(times[s]) = 0
                      /\ s >= temp_iterator /\ s < dispatch_queue_tail => Len(times[s]) = 1
                      /\ s >= dispatch_queue_head /\ s < temp_iterator => Len(times[s]) = 2
    /\ \A i \in Occupied :
          LET row == schedule_queue[i]
              n   == Len(times[row.seq])
          IN  IF i \in finished_fu THEN n = 5
              ELSE IF row.fired THEN n = 4 \/ (n = 3 /\ row.remaining_time > 0)
              ELSE n \in {2, 3}
    /\ result \in Seq({s \in Tag : Len(times[s]) = 5})

Inv == TypeInv /\ QueueInv /\ UnitsInv /\ ClockInv /\ TimesInv

-----------------------------------------------------------------------------
(* The least element of a set, and the loops over the rows. *)

LEMMA LeastOf ==
    ASSUME NEW T \in SUBSET Nat, T # {}
    PROVE  Min(T) \in T /\ \A j \in T : Min(T) <= j
<1> DEFINE below == {ss \in Nat \X Nat : ss[1] < ss[2]}
<1>1. IsWellFoundedOn(below, Nat)
  BY NatLessThanWellFounded, Zenon DEF OpToRel
<1>2. \A j, k \in Nat : j < k => <<j, k>> \in below
  OBVIOUS
<1> HIDE DEF below
<1>3. PICK k \in T : \A j \in T : <<j, k>> \notin below
  BY <1>1, WFMin
<1>4. ASSUME NEW j \in T PROVE k <= j
  <2>1. j \in Nat /\ k \in Nat
    OBVIOUS
  <2>2. ~(j < k)
    BY <1>2, <1>3, <2>1
  <2> QED BY <2>1, <2>2
<1> QED
  BY <1>4 DEF Min

\* Induction up to n, for a set instead of a predicate.
LEMMA UpTo ==
    ASSUME NEW n \in Nat, NEW G, 0 \in G, \A m \in 1 .. n : m - 1 \in G => m \in G
    PROVE  0 .. n \subseteq G
<1> DEFINE Bad == 0 .. n \ G
<1>1. SUFFICES ASSUME Bad # {} PROVE FALSE
  OBVIOUS
<1>2. PICK m \in Bad : \A j \in Bad : m <= j
  <2>1. Bad \in SUBSET Nat
    OBVIOUS
  <2> HIDE DEF Bad
  <2> QED BY <1>1, <2>1, LeastOf
<1>3. m \in 1 .. n
  BY <1>2
<1>4. m - 1 \in 0 .. n /\ ~(m <= m - 1)
  BY <1>3
<1>5. m - 1 \in G
  BY <1>2, <1>4
<1> QED
  BY <1>2, <1>3, <1>5

LEMMA Queue == schedule_queue_size \in Nat /\ Row = 1 .. schedule_queue_size
<1>1. K0 + K1 + K2 \in Nat /\ R \in Nat
  BY ProcAssumption
<1> QED
  BY <1>1 DEF schedule_queue_size, Row

\* A loop whose iterations are a function of the work and the row: there is what
\* the work is after each row, and an invariant of the iterations holds of it.
IsLoop(f, n, F, w) == f = [m \in 0 .. n |-> IF m = 0 THEN w ELSE F[<<f[m - 1], m>>]]
Keeps(n, F, I)     == \A m \in 1 .. n : \A x \in I[m - 1] : F[<<x, m>>] \in I[m]

LEMMA LoopExists ==
    ASSUME NEW n \in Nat, NEW I, NEW F, NEW w \in I[0], Keeps(n, F, I)
    PROVE  \E f : IsLoop(f, n, F, w) /\ \A m \in 0 .. n : f[m] \in I[m]
<1> DEFINE body(f, m) == IF m = 0 THEN w ELSE F[<<f[m - 1], m>>]
           Solved(k) == \E f : f = [m \in 0 .. k |-> body(f, m)] /\ \A m \in 0 .. k : f[m] \in I[m]
           G == {k \in 0 .. n : Solved(k)}
<1>1. 0 \in G
  <2> DEFINE f == [m \in 0 .. 0 |-> w]
  <2>1. f = [m \in 0 .. 0 |-> body(f, m)] /\ \A m \in 0 .. 0 : f[m] \in I[m]
    OBVIOUS
  <2> HIDE DEF f
  <2>2. Solved(0)
    BY <2>1
  <2> QED BY <2>2
<1>2. ASSUME NEW k \in 1 .. n, k - 1 \in G PROVE k \in G
  <2>1. PICK f : f = [m \in 0 .. k - 1 |-> body(f, m)] /\ \A m \in 0 .. k - 1 : f[m] \in I[m]
    BY <1>2
  <2> DEFINE g == [m \in 0 .. k |-> IF m = k THEN body(f, k) ELSE f[m]]
  <2>2. \A m \in 0 .. k : m # 0 => g[m - 1] = f[m - 1]
    OBVIOUS
  <2>3. \A m \in 0 .. k - 1 : f[m] = body(f, m)
    BY <2>1
  <2>4. \A m \in 0 .. k : g[m] = body(f, m)
    BY <2>3
  <2>5. \A m \in 0 .. k : body(g, m) = body(f, m)
    <3> HIDE DEF g
    <3> QED BY <2>2
  <2>6. g = [m \in 0 .. k |-> body(g, m)]
    BY <2>4, <2>5
  <2>7. \A m \in 0 .. k : g[m] \in I[m]
    BY <2>1 DEF Keeps
  <2> HIDE DEF g
  <2>8. Solved(k)
    BY <2>6, <2>7
  <2>9. k \in 0 .. n
    OBVIOUS
  <2> QED BY <2>8, <2>9
<1> HIDE DEF G
<1>3. n \in G
  <2>1. 0 .. n \subseteq G
    BY <1>1, <1>2, UpTo
  <2> QED BY <2>1
<1>4. Solved(n)
  BY <1>3 DEF G
<1> QED
  BY <1>4 DEF IsLoop

\* One lemma for each of the loops: what every iteration keeps holds in the end.
LEMMA RunLoop ==
    ASSUME NEW I, NEW w \in I[0],
           \A m \in Row : \A x \in I[m - 1] : Run(x, m) \in I[m]
    PROVE  EachRow(Run, w) \in I[schedule_queue_size]
<1> DEFINE n == schedule_queue_size
           body(f, m) == IF m = 0 THEN w ELSE Run(f[m - 1], m)
           after == CHOOSE f : f = [m \in 0 .. n |-> body(f, m)]
           F == [p \in (UNION {I[m] : m \in 0 .. n}) \X Row |-> Run(p[1], p[2])]
           G == {m \in 0 .. n : after[m] \in I[m]}
<1>1. n \in Nat /\ Row = 1 .. n
  BY Queue
<1> HIDE DEF n
<1>2. \A m \in 1 .. n : \A x \in I[m - 1] : F[<<x, m>>] = Run(x, m)
  <2> SUFFICES ASSUME NEW m \in 1 .. n, NEW x \in I[m - 1] PROVE F[<<x, m>>] = Run(x, m)
    OBVIOUS
  <2>1. m - 1 \in 0 .. n
    BY <1>1
  <2>2. <<x, m>> \in (UNION {I[k] : k \in 0 .. n}) \X Row
    BY <1>1, <2>1
  <2> QED BY <2>2
<1> HIDE DEF F
<1>3. \E f : f = [m \in 0 .. n |-> body(f, m)]
  <2>1. PICK f : IsLoop(f, n, F, w) /\ \A m \in 0 .. n : f[m] \in I[m]
    <3>1. Keeps(n, F, I)
      BY <1>1, <1>2 DEF Keeps
    <3> QED BY <1>1, <3>1, LoopExists, Zenon
  <2>2. \A m \in 0 .. n : f[m] = body(f, m)
    <3> SUFFICES ASSUME NEW m \in 0 .. n PROVE f[m] = body(f, m)
      OBVIOUS
    <3>1. m # 0 => m \in 1 .. n /\ f[m - 1] \in I[m - 1]
      BY <1>1, <2>1
    <3>2. f[m] = IF m = 0 THEN w ELSE F[<<f[m - 1], m>>]
      BY <2>1 DEF IsLoop
    <3> QED BY <1>2, <3>1, <3>2
  <2>3. f = [m \in 0 .. n |-> f[m]]
    BY <2>1 DEF IsLoop
  <2>4. f = [m \in 0 .. n |-> body(f, m)]
    BY <2>2, <2>3
  <2> QED BY <2>4
<1>4. after = [m \in 0 .. n |-> body(after, m)]
  BY <1>3, Zenon
<1>5. EachRow(Run, w) = after[n]
  BY Zenon DEF EachRow, n
<1> HIDE DEF after
<1>6. \A m \in 0 .. n : after[m] = body(after, m)
  BY <1>4
<1>7. 0 .. n \subseteq G
  <2>1. 0 \in G
    BY <1>1, <1>6
  <2>2. ASSUME NEW m \in 1 .. n, m - 1 \in G PROVE m \in G
    BY <1>1, <1>6, <2>2
  <2> HIDE DEF G
  <2> QED BY <1>1, <2>1, <2>2, UpTo
<1> QED
  BY <1>1, <1>5, <1>7 DEF n

LEMMA IssueLoop ==
    ASSUME NEW I, NEW w \in I[0],
           \A m \in Row : \A x \in I[m - 1] : Issue(x, m) \in I[m]
    PROVE  EachRow(Issue, w) \in I[schedule_queue_size]
<1> DEFINE n == schedule_queue_size
           body(f, m) == IF m = 0 THEN w ELSE Issue(f[m - 1], m)
           after == CHOOSE f : f = [m \in 0 .. n |-> body(f, m)]
           F == [p \in (UNION {I[m] : m \in 0 .. n}) \X Row |-> Issue(p[1], p[2])]
           G == {m \in 0 .. n : after[m] \in I[m]}
<1>1. n \in Nat /\ Row = 1 .. n
  BY Queue
<1> HIDE DEF n
<1>2. \A m \in 1 .. n : \A x \in I[m - 1] : F[<<x, m>>] = Issue(x, m)
  <2> SUFFICES ASSUME NEW m \in 1 .. n, NEW x \in I[m - 1] PROVE F[<<x, m>>] = Issue(x, m)
    OBVIOUS
  <2>1. m - 1 \in 0 .. n
    BY <1>1
  <2>2. <<x, m>> \in (UNION {I[k] : k \in 0 .. n}) \X Row
    BY <1>1, <2>1
  <2> QED BY <2>2
<1> HIDE DEF F
<1>3. \E f : f = [m \in 0 .. n |-> body(f, m)]
  <2>1. PICK f : IsLoop(f, n, F, w) /\ \A m \in 0 .. n : f[m] \in I[m]
    <3>1. Keeps(n, F, I)
      BY <1>1, <1>2 DEF Keeps
    <3> QED BY <1>1, <3>1, LoopExists, Zenon
  <2>2. \A m \in 0 .. n : f[m] = body(f, m)
    <3> SUFFICES ASSUME NEW m \in 0 .. n PROVE f[m] = body(f, m)
      OBVIOUS
    <3>1. m # 0 => m \in 1 .. n /\ f[m - 1] \in I[m - 1]
      BY <1>1, <2>1
    <3>2. f[m] = IF m = 0 THEN w ELSE F[<<f[m - 1], m>>]
      BY <2>1 DEF IsLoop
    <3> QED BY <1>2, <3>1, <3>2
  <2>3. f = [m \in 0 .. n |-> f[m]]
    BY <2>1 DEF IsLoop
  <2>4. f = [m \in 0 .. n |-> body(f, m)]
    BY <2>2, <2>3
  <2> QED BY <2>4
<1>4. after = [m \in 0 .. n |-> body(after, m)]
  BY <1>3, Zenon
<1>5. EachRow(Issue, w) = after[n]
  BY Zenon DEF EachRow, n
<1> HIDE DEF after
<1>6. \A m \in 0 .. n : after[m] = body(after, m)
  BY <1>4
<1>7. 0 .. n \subseteq G
  <2>1. 0 \in G
    BY <1>1, <1>6
  <2>2. ASSUME NEW m \in 1 .. n, m - 1 \in G PROVE m \in G
    BY <1>1, <1>6, <2>2
  <2> HIDE DEF G
  <2> QED BY <1>1, <2>1, <2>2, UpTo
<1> QED
  BY <1>1, <1>5, <1>7 DEF n

LEMMA FillLoop ==
    ASSUME NEW I, NEW w \in I[0],
           \A m \in Row : \A x \in I[m - 1] : Fill(x, m) \in I[m]
    PROVE  EachRow(Fill, w) \in I[schedule_queue_size]
<1> DEFINE n == schedule_queue_size
           body(f, m) == IF m = 0 THEN w ELSE Fill(f[m - 1], m)
           after == CHOOSE f : f = [m \in 0 .. n |-> body(f, m)]
           F == [p \in (UNION {I[m] : m \in 0 .. n}) \X Row |-> Fill(p[1], p[2])]
           G == {m \in 0 .. n : after[m] \in I[m]}
<1>1. n \in Nat /\ Row = 1 .. n
  BY Queue
<1> HIDE DEF n
<1>2. \A m \in 1 .. n : \A x \in I[m - 1] : F[<<x, m>>] = Fill(x, m)
  <2> SUFFICES ASSUME NEW m \in 1 .. n, NEW x \in I[m - 1] PROVE F[<<x, m>>] = Fill(x, m)
    OBVIOUS
  <2>1. m - 1 \in 0 .. n
    BY <1>1
  <2>2. <<x, m>> \in (UNION {I[k] : k \in 0 .. n}) \X Row
    BY <1>1, <2>1
  <2> QED BY <2>2
<1> HIDE DEF F
<1>3. \E f : f = [m \in 0 .. n |-> body(f, m)]
  <2>1. PICK f : IsLoop(f, n, F, w) /\ \A m \in 0 .. n : f[m] \in I[m]
    <3>1. Keeps(n, F, I)
      BY <1>1, <1>2 DEF Keeps
    <3> QED BY <1>1, <3>1, LoopExists, Zenon
  <2>2. \A m \in 0 .. n : f[m] = body(f, m)
    <3> SUFFICES ASSUME NEW m \in 0 .. n PROVE f[m] = body(f, m)
      OBVIOUS
    <3>1. m # 0 => m \in 1 .. n /\ f[m - 1] \in I[m - 1]
      BY <1>1, <2>1
    <3>2. f[m] = IF m = 0 THEN w ELSE F[<<f[m - 1], m>>]
      BY <2>1 DEF IsLoop
    <3> QED BY <1>2, <3>1, <3>2
  <2>3. f = [m \in 0 .. n |-> f[m]]
    BY <2>1 DEF IsLoop
  <2>4. f = [m \in 0 .. n |-> body(f, m)]
    BY <2>2, <2>3
  <2> QED BY <2>4
<1>4. after = [m \in 0 .. n |-> body(after, m)]
  BY <1>3, Zenon
<1>5. EachRow(Fill, w) = after[n]
  BY Zenon DEF EachRow, n
<1> HIDE DEF after
<1>6. \A m \in 0 .. n : after[m] = body(after, m)
  BY <1>4
<1>7. 0 .. n \subseteq G
  <2>1. 0 \in G
    BY <1>1, <1>6
  <2>2. ASSUME NEW m \in 1 .. n, m - 1 \in G PROVE m \in G
    BY <1>1, <1>6, <2>2
  <2> HIDE DEF G
  <2> QED BY <1>1, <2>1, <2>2, UpTo
<1> QED
  BY <1>1, <1>5, <1>7 DEF n

LEMMA RetireLoop ==
    ASSUME NEW I, NEW w \in I[0],
           \A m \in Row : \A x \in I[m - 1] : Retire(x, m) \in I[m]
    PROVE  EachRow(Retire, w) \in I[schedule_queue_size]
<1> DEFINE n == schedule_queue_size
           body(f, m) == IF m = 0 THEN w ELSE Retire(f[m - 1], m)
           after == CHOOSE f : f = [m \in 0 .. n |-> body(f, m)]
           F == [p \in (UNION {I[m] : m \in 0 .. n}) \X Row |-> Retire(p[1], p[2])]
           G == {m \in 0 .. n : after[m] \in I[m]}
<1>1. n \in Nat /\ Row = 1 .. n
  BY Queue
<1> HIDE DEF n
<1>2. \A m \in 1 .. n : \A x \in I[m - 1] : F[<<x, m>>] = Retire(x, m)
  <2> SUFFICES ASSUME NEW m \in 1 .. n, NEW x \in I[m - 1] PROVE F[<<x, m>>] = Retire(x, m)
    OBVIOUS
  <2>1. m - 1 \in 0 .. n
    BY <1>1
  <2>2. <<x, m>> \in (UNION {I[k] : k \in 0 .. n}) \X Row
    BY <1>1, <2>1
  <2> QED BY <2>2
<1> HIDE DEF F
<1>3. \E f : f = [m \in 0 .. n |-> body(f, m)]
  <2>1. PICK f : IsLoop(f, n, F, w) /\ \A m \in 0 .. n : f[m] \in I[m]
    <3>1. Keeps(n, F, I)
      BY <1>1, <1>2 DEF Keeps
    <3> QED BY <1>1, <3>1, LoopExists, Zenon
  <2>2. \A m \in 0 .. n : f[m] = body(f, m)
    <3> SUFFICES ASSUME NEW m \in 0 .. n PROVE f[m] = body(f, m)
      OBVIOUS
    <3>1. m # 0 => m \in 1 .. n /\ f[m - 1] \in I[m - 1]
      BY <1>1, <2>1
    <3>2. f[m] = IF m = 0 THEN w ELSE F[<<f[m - 1], m>>]
      BY <2>1 DEF IsLoop
    <3> QED BY <1>2, <3>1, <3>2
  <2>3. f = [m \in 0 .. n |-> f[m]]
    BY <2>1 DEF IsLoop
  <2>4. f = [m \in 0 .. n |-> body(f, m)]
    BY <2>2, <2>3
  <2> QED BY <2>4
<1>4. after = [m \in 0 .. n |-> body(after, m)]
  BY <1>3, Zenon
<1>5. EachRow(Retire, w) = after[n]
  BY Zenon DEF EachRow, n
<1> HIDE DEF after
<1>6. \A m \in 0 .. n : after[m] = body(after, m)
  BY <1>4
<1>7. 0 .. n \subseteq G
  <2>1. 0 \in G
    BY <1>1, <1>6
  <2>2. ASSUME NEW m \in 1 .. n, m - 1 \in G PROVE m \in G
    BY <1>1, <1>6, <2>2
  <2> HIDE DEF G
  <2> QED BY <1>1, <2>1, <2>2, UpTo
<1> QED
  BY <1>1, <1>5, <1>7 DEF n

-----------------------------------------------------------------------------
(* The instructions and the rows. *)

LEMMA Sizes == K0 \in Nat /\ K2 \in Nat /\ K2 > 0 /\ Sets \in Nat \ {0} /\ BlockSize \in Nat \ {0}
               /\ fetch_count \in Nat /\ branch_table_size \in Nat \ {0}
BY ProcAssumption

LEMMA TraceType ==
    ASSUME trace \in Traces
    PROVE  /\ trace \in Seq(Instruction) /\ Len(trace) \in Nat
           /\ \A s \in Tag : s \in Nat /\ s < Len(trace) /\ Inst(s) \in Instruction
<1>1. trace \in Seq(Instruction) /\ Len(trace) \in Nat
  BY ProcAssumption
<1>2. ASSUME NEW s \in Tag PROVE s \in Nat /\ s < Len(trace) /\ s + 1 \in 1 .. Len(trace)
  BY <1>1 DEF Tag
<1>3. \A s \in Tag : Inst(s) \in Instruction
  <2> HIDE DEF Instruction
  <2> QED BY <1>1, <1>2, ElementOfSeq DEF Inst
<1> QED
  BY <1>1, <1>2, <1>3

\* The instruction of an occupied row has been read.
LEMMA OccupiedRow ==
    ASSUME TypeInv, NEW rows, RowsOK(rows, dispatch_queue_head), NEW i \in OccupiedIn(rows)
    PROVE  /\ i \in Row /\ rows[i] \in RowType /\ rows[i].seq \in Tag
           /\ rows[i].seq < dispatch_queue_head /\ InstOf(rows[i]) \in Instruction
<1>1. i \in Row /\ rows[i] \in RowType /\ rows[i].seq < dispatch_queue_head
  BY DEF OccupiedIn, RowsOK
<1>2. rows[i].seq \in Nat
  BY <1>1 DEF RowType
<1>3. rows[i].seq \in Tag
  BY <1>1, <1>2, TraceType DEF TypeInv, Tag
<1> QED
  BY <1>1, <1>3, TraceType DEF TypeInv, InstOf

LEMMA RowSet == /\ Occupied = OccupiedIn(schedule_queue) /\ Fired = FiredIn(schedule_queue)
                /\ \A ops : Working(ops) = WorkingIn(schedule_queue, ops)
BY DEF Occupied, OccupiedIn, Fired, FiredIn, Working, WorkingIn

LEMMA RowsFinite ==
    ASSUME NEW S \in SUBSET Row
    PROVE  IsFiniteSet(S) /\ Cardinality(S) \in Nat
<1>1. IsFiniteSet(Row)
  BY Queue, FS_Interval
<1> QED
  BY <1>1, FS_Subset, FS_CardinalityType

LEMMA EmptyRowType == EmptyRow \in RowType /\ ~EmptyRow.occupied /\ ~EmptyRow.fired
<1>1. <<0, 0>> \in [1 .. 2 -> Nat] /\ <<FALSE, FALSE>> \in [1 .. 2 -> BOOLEAN]
  <2>1. <<0, 0>> \in Seq(Nat) /\ Len(<<0, 0>>) = 2
    OBVIOUS
  <2>2. <<FALSE, FALSE>> \in Seq(BOOLEAN) /\ Len(<<FALSE, FALSE>>) = 2
    OBVIOUS
  <2> QED BY <2>1, <2>2, LenProperties
<1> QED
  BY <1>1, Sizes DEF EmptyRow, RowType, NotYet

\* Rows that hold the same instruction at the same stage, and have the same time left.
Alike(a, b) == a.occupied = b.occupied /\ a.seq = b.seq /\ a.fired = b.fired /\ a.fu = b.fu
Same(a, b)  == Alike(a, b) /\ a.remaining_time = b.remaining_time

LEMMA AlikeRows ==
    ASSUME NEW rows, NEW new, NEW head, RowsOK(rows, head), new \in [Row -> RowType],
           \A i \in Row : Alike(new[i], rows[i])
    PROVE  /\ RowsOK(new, head) /\ OccupiedIn(new) = OccupiedIn(rows)
           /\ FiredIn(new) = FiredIn(rows)
           /\ \A i \in Row : InstOf(new[i]) = InstOf(rows[i])
<1>1. OccupiedIn(new) = OccupiedIn(rows) /\ FiredIn(new) = FiredIn(rows)
  BY DEF Alike, OccupiedIn, FiredIn
<1>2. \A i \in Row : InstOf(new[i]) = InstOf(rows[i])
  BY DEF Alike, InstOf
<1>3. \A i \in FiredIn(new) : i \in Row
  BY DEF FiredIn, OccupiedIn
<1>4. \A i \in OccupiedIn(new) : i \in Row
  BY DEF OccupiedIn
<1>5. RowsOK(new, head)
  BY <1>1, <1>2, <1>3, <1>4 DEF RowsOK, Alike
<1> QED
  BY <1>1, <1>2, <1>5

LEMMA SameRows ==
    ASSUME NEW rows, NEW new, NEW head, RowsOK(rows, head), new \in [Row -> RowType],
           \A i \in Row : Same(new[i], rows[i])
    PROVE  /\ RowsOK(new, head) /\ OccupiedIn(new) = OccupiedIn(rows)
           /\ FiredIn(new) = FiredIn(rows) /\ \A ops : WorkingIn(new, ops) = WorkingIn(rows, ops)
<1>1. /\ RowsOK(new, head) /\ OccupiedIn(new) = OccupiedIn(rows)
      /\ FiredIn(new) = FiredIn(rows) /\ \A i \in Row : InstOf(new[i]) = InstOf(rows[i])
  BY AlikeRows DEF Same
<1>2. \A i \in FiredIn(new) : i \in Row
  BY DEF FiredIn, OccupiedIn
<1>3. \A ops : WorkingIn(new, ops) = WorkingIn(rows, ops)
  BY <1>1, <1>2 DEF Same, WorkingIn
<1> QED
  BY <1>1, <1>3

LEMMA SameUnits ==
    ASSUME NEW rows, NEW new, NEW add, NEW ls, NEW ls_fu, UnitsOK(rows, add, ls, ls_fu),
           \A ops : WorkingIn(new, ops) = WorkingIn(rows, ops),
           \A i \in WorkingIn(rows, Accesses) : new[i].fu = rows[i].fu
    PROVE  UnitsOK(new, add, ls, ls_fu)
BY DEF UnitsOK

-----------------------------------------------------------------------------
(* Initially the queues are empty and all units are there. *)

LEMMA InitInv == ASSUME Init PROVE Inv
<1>1. TypeInv
  <2>1. 0 \in Entries
    BY Sizes DEF Entries
  <2>2. Len(trace) \in Nat
    BY TraceType DEF Init
  <2>3. register_file \in [Reg -> RegType(instr_tag)] /\ instr_tag \in Nat
    BY DEF Init, RegType
  <2>4. l1_cache \in [0 .. Sets - 1 -> [valid : BOOLEAN, tag : Int]]
    BY DEF Init
  <2>5. predicted_br \in [Tag -> BOOLEAN] /\ branch_table \in [Entries -> 0 .. 3] /\ ghr \in Entries
    BY <2>1 DEF Init, Tag
  <2>6. /\ trace \in Traces /\ step = "update_state" /\ cycle = 0
        /\ dispatch_queue_head = 0 /\ temp_iterator = 0 /\ dispatch_queue_tail = 0
    BY DEF Init
  <2>7. step \in Steps
    BY <2>6 DEF Steps
  <2>8. continue_fetch \in BOOLEAN /\ branch_started \in BOOLEAN
    BY DEF Init
  <2> QED BY <2>2, <2>3, <2>4, <2>5, <2>6, <2>7, <2>8 DEF TypeInv
<1>2. /\ schedule_queue \in [Row -> RowType] /\ \A i \in Row : schedule_queue[i] = EmptyRow
      /\ OccupiedIn(schedule_queue) = {} /\ FiredIn(schedule_queue) = {}
  BY EmptyRowType DEF Init, OccupiedIn, FiredIn
<1>3. QueueInv
  <2>1. EmptyRow.seq = 0
    BY DEF EmptyRow
  <2>2. RowsOK(schedule_queue, dispatch_queue_head)
    BY <1>2, <2>1 DEF Init, RowsOK
  <2> QED BY <1>2, <2>2, RowSet, FS_EmptySet DEF QueueInv, Init
<1>4. UnitsInv
  <2>1. \A ops : WorkingIn(schedule_queue, ops) = {}
    BY <1>2 DEF WorkingIn
  <2>2. ls_functional_unit \in [LsUnit -> UnitType] /\ \A u \in LsUnit : ~ls_functional_unit[u].busy
    BY DEF Init, UnitType
  <2>3. add_unit = K0 /\ ls_unit = K2 /\ Cardinality({}) = 0
    BY FS_EmptySet DEF Init
  <2>4. WorkingIn(schedule_queue, {"ADD", "BR"}) = {} /\ WorkingIn(schedule_queue, Accesses) = {}
    BY <2>1
  <2> QED BY <2>2, <2>3, <2>4, Sizes DEF UnitsInv, UnitsOK
<1>5. ClockInv
  BY <1>2, RowSet DEF ClockInv, BetweenCycles, Init
<1>6. TimesInv
  <2>1. times \in [Tag -> Seq(0 .. cycle)] /\ \A s \in Tag : times[s] = <<>> /\ Len(times[s]) = 0
    BY DEF Init, Tag
  <2>2. \A s \in Tag : InOrder(times[s])
    BY <2>1 DEF InOrder
  <2>3. Occupied = {} /\ result = <<>>
    BY <1>2, RowSet DEF Init
  <2>4. dispatch_queue_head = 0 /\ temp_iterator = 0 /\ dispatch_queue_tail = 0
    BY DEF Init
  <2>5. result \in Seq({s \in Tag : Len(times[s]) = 5})
    BY <2>3
  <2>6. \A s \in Tag : s >= 0
    BY DEF Tag
  <2> QED BY <2>1, <2>2, <2>3, <2>4, <2>5, <2>6 DEF TimesInv
<1> QED
  BY <1>1, <1>3, <1>4, <1>5, <1>6 DEF Inv

-----------------------------------------------------------------------------
(* update_state. *)

LEMMA MinOfTwo ==
    ASSUME NEW a \in Int, NEW b \in Int
    PROVE  Min({a, b}) = (IF a <= b THEN a ELSE b) /\ Max({a, b}) = (IF a <= b THEN b ELSE a)
<1>1. \E x \in {a, b} : \A y \in {a, b} : x <= y
  OBVIOUS
<1>2. Min({a, b}) \in {a, b} /\ \A y \in {a, b} : Min({a, b}) <= y
  BY <1>1 DEF Min
<1>3. \E x \in {a, b} : \A y \in {a, b} : x >= y
  OBVIOUS
<1>4. Max({a, b}) \in {a, b} /\ \A y \in {a, b} : Max({a, b}) >= y
  BY <1>3 DEF Max
<1> QED
  BY <1>2, <1>4

PredictorType == [table : [Entries -> 0 .. 3], ghr : Entries]

LEMMA TrainType ==
    ASSUME NEW predictor \in PredictorType, NEW s
    PROVE  Train(predictor, s) \in PredictorType
<1> DEFINE e     == Entry(predictor.ghr, s)
           count == predictor.table[e] + (IF Inst(s).taken THEN 1 ELSE -1)
           bit   == IF Inst(s).taken THEN 1 ELSE 0
<1>1. /\ predictor.table \in [Entries -> 0 .. 3] /\ predictor.ghr \in Int
      /\ bit \in Int
  BY Sizes DEF PredictorType, Entries
<1>2. ASSUME e \in Entries PROVE Clamped(count) \in 0 .. 3
  <2>1. count \in Int
    BY <1>1, <1>2
  <2> HIDE DEF count
  <2>2. Max({0, count}) \in Nat
    <3>1. 0 \in Int
      OBVIOUS
    <3>2. Max({0, count}) = IF 0 <= count THEN count ELSE 0
      BY <2>1, <3>1, MinOfTwo, Zenon
    <3> QED BY <2>1, <3>2
  <2>3. Min({3, Max({0, count})}) \in 0 .. 3
    <3> DEFINE m == Max({0, count})
    <3>1. m \in Nat
      BY <2>2
    <3> HIDE DEF m
    <3>2. Min({3, m}) \in 0 .. 3
      BY <3>1, MinOfTwo
    <3> QED BY <3>2 DEF m
  <2> QED BY <2>3 DEF Clamped
<1>3. [predictor.table EXCEPT ![e] = Clamped(count)] \in [Entries -> 0 .. 3]
  <2> HIDE DEF e, count
  <2> QED BY <1>1, <1>2
<1>4. (2 * predictor.ghr + bit) % branch_table_size \in Entries
  <2> DEFINE x == 2 * predictor.ghr + bit
  <2>1. x \in Int
    BY <1>1
  <2> HIDE DEF x
  <2>2. x % branch_table_size \in Entries
    BY <2>1, Sizes DEF Entries
  <2> QED BY <2>2 DEF x
<1> HIDE DEF e, count, bit
<1>5. Train(predictor, s) = [table |-> [predictor.table EXCEPT ![e] = Clamped(count)],
                             ghr   |-> (2 * predictor.ghr + bit) % branch_table_size]
  BY DEF Train, e, count, bit
<1> QED
  BY <1>3, <1>4, <1>5 DEF PredictorType

LEMMA RetirementType ==
    ASSUME TypeInv
    PROVE  Retirement \in [retired : Seq(Retired), predictor : PredictorType]
<1> DEFINE W == [retired : Seq(Retired), predictor : PredictorType]
           w == [retired |-> <<>>, predictor |-> [table |-> branch_table, ghr |-> ghr]]
           I == [m \in 0 .. schedule_queue_size |-> W]
<1>1. w \in W
  <2>1. [table |-> branch_table, ghr |-> ghr] \in PredictorType
    BY DEF TypeInv, PredictorType
  <2> QED BY <2>1
<1>2. ASSUME NEW m \in Row, NEW x \in W PROVE Retire(x, m) \in W
  <2>1. CASE m \notin Finished
    BY <2>1 DEF Retire
  <2>2. CASE m \in Finished
    <3> DEFINE s == schedule_queue[m].seq
    <3>1. s \in Retired
      BY <2>2 DEF Retired
    <3>2. Append(x.retired, s) \in Seq(Retired)
      BY <3>1
    <3>3. (IF Inst(s).op = "BR" THEN Train(x.predictor, s) ELSE x.predictor) \in PredictorType
      BY TrainType
    <3> QED BY <2>2, <3>2, <3>3 DEF Retire
  <2> QED BY <2>1, <2>2
<1> HIDE DEF W, w
<1>3. I[0] = W /\ I[schedule_queue_size] = W /\ \A m \in Row : I[m - 1] = W /\ I[m] = W
  BY Queue
<1> HIDE DEF I
<1>4. EachRow(Retire, w) \in I[schedule_queue_size]
  BY <1>1, <1>2, <1>3, RetireLoop
<1> QED
  BY <1>3, <1>4 DEF Retirement, W, w

LEMMA UpdatedRow ==
    ASSUME QueueInv, NEW i \in Row
    PROVE  Updated(i) \in RowType /\ Same(Updated(i), schedule_queue[i])
<1> DEFINE row == schedule_queue[i]
           ready == [k \in 1 .. 2 |->
                        row.src_reg_ready[k] \/ Written(InstOf(row).src[k], row.src_reg_tag[k])]
<1>1. row \in RowType
  BY DEF QueueInv, RowsOK
<1>2. ready \in [1 .. 2 -> BOOLEAN]
  BY Zenon
<1>3. Updated(i) = IF ~row.occupied THEN row
                   ELSE [row EXCEPT !.ls_conflict_end = row.ls_conflict_end /\ i \notin Finished,
                                    !.src_reg_ready = ready]
  BY DEF Updated
<1> HIDE DEF row, ready
<1> QED
  BY <1>1, <1>2, <1>3 DEF RowType, Same, Alike, row

\* The invariants of the rows and the units, when a step makes these rows.
LEMMA RowsStep ==
    ASSUME NEW new, NEW head, UNCHANGED trace, schedule_queue' = new, dispatch_queue_head' = head,
           RowsOK(new, head), inst_cnt_sq' = Cardinality(OccupiedIn(new))
    PROVE  /\ QueueInv' /\ Occupied' = OccupiedIn(new) /\ Fired' = FiredIn(new)
           /\ UnitsOK(new, add_unit', ls_unit', ls_functional_unit') => UnitsInv'
<1>1. Occupied' = OccupiedIn(new) /\ Fired' = FiredIn(new)
  BY DEF Occupied, OccupiedIn, Fired, FiredIn
<1>2. FiredIn(schedule_queue)' = FiredIn(new) /\ OccupiedIn(schedule_queue)' = OccupiedIn(new)
  BY DEF OccupiedIn, FiredIn
<1>3. RowsOK(schedule_queue, dispatch_queue_head)'
  BY <1>2 DEF RowsOK, InstOf, Inst
<1>4. QueueInv'
  BY <1>1, <1>3 DEF QueueInv
<1>5. /\ WorkingIn(schedule_queue, {"ADD", "BR"})' = WorkingIn(new, {"ADD", "BR"})
      /\ WorkingIn(schedule_queue, Accesses)' = WorkingIn(new, Accesses)
  BY <1>2 DEF WorkingIn, Accesses, InstOf, Inst
<1>6. UnitsOK(new, add_unit', ls_unit', ls_functional_unit') => UnitsInv'
  BY <1>5 DEF UnitsInv, UnitsOK
<1> QED
  BY <1>1, <1>4, <1>6

LEMMA LateOf ==
    /\ Late["update_state"] = 6 /\ Late["execute_instr"] = 5 /\ Late["schedule_instr"] = 4
    /\ Late["dispatch_instr"] = 3 /\ Late["fetch_instr"] = 2 /\ Late["update_state_2"] = 1
    /\ Late["done"] = 6
BY DEF Late, Steps

\* A step gives some instructions the time of the cycle; they have none yet.
LEMMA Stamp ==
    ASSUME TypeInv, TimesInv, NEW S,
           times' = [s \in DOMAIN times |-> IF s \in S THEN Append(times[s], cycle) ELSE times[s]],
           UNCHANGED <<trace, cycle>>, NEW n \in 1 .. 5, Late[step] = n + 1, Late[step'] = n,
           \A s \in Tag : s \in S => Len(times[s]) = n - 1
    PROVE  /\ (times \in [Tag -> Seq(0 .. cycle)])' /\ (\A s \in Tag : InOrder(times[s]))'
           /\ \A s \in Tag : Len(times'[s]) = IF s \in S THEN n ELSE Len(times[s])
<1>0. Late[step]' = n /\ cycle' = cycle
  BY DEF Late, Steps
<1>1. Tag' = Tag /\ cycle \in Nat
  BY DEF Tag, TypeInv
<1>2. times \in [Tag -> Seq(0 .. cycle)] /\ \A s \in Tag : InOrder(times[s])
  BY DEF TimesInv
<1>3. ASSUME NEW s \in Tag
      PROVE  /\ times'[s] \in Seq(0 .. cycle) /\ InOrder(times[s])'
             /\ Len(times'[s]) = IF s \in S THEN n ELSE Len(times[s])
  <2> DEFINE t == times[s]
  <2>1. t \in Seq(0 .. cycle) /\ Len(t) \in Nat /\ InOrder(t)
    BY <1>2
  <2>2. \A k \in 1 .. Len(t) : t[k] \in 0 .. cycle
    BY <2>1, ElementOfSeq
  <2>3. CASE s \in S
    <3>1. times'[s] = Append(t, cycle) /\ Len(t) = n - 1
      BY <1>2, <2>3
    <3> HIDE DEF t
    <3>2. /\ Append(t, cycle) \in Seq(0 .. cycle) /\ Len(Append(t, cycle)) = Len(t) + 1
          /\ \A k \in 1 .. Len(t) : Append(t, cycle)[k] = t[k]
          /\ Append(t, cycle)[Len(t) + 1] = cycle
      BY <1>1, <2>1
    <3> DEFINE a == Append(t, cycle)
    <3> HIDE DEF a
    <3>3. Len(a) = n
      BY <3>1, <3>2 DEF a
    <3>4. Len(t) > 0 => t[Len(t)] < cycle
      BY <2>1, <3>1 DEF InOrder
    <3>5. ASSUME NEW k \in 1 .. Len(a) - 1 PROVE a[k] < a[k + 1]
      <4>1. CASE k = Len(t)
        BY <2>1, <3>2, <3>4, <4>1 DEF a
      <4>2. CASE k \in 1 .. Len(t) - 1
        <5>1. t[k] < t[k + 1]
          BY <2>1, <4>2 DEF InOrder
        <5> QED BY <2>1, <3>2, <4>2, <5>1 DEF a
      <4> QED BY <2>1, <3>1, <3>3, <4>1, <4>2
    <3>6. Len(a) <= 5 /\ ~(Len(a) < Late[step'])
      BY <1>0, <3>3
    <3>7. InOrder(times[s])'
      BY <3>1, <3>5, <3>6 DEF InOrder, a
    <3> QED BY <2>3, <3>1, <3>2, <3>3, <3>7 DEF a
  <2>4. CASE s \notin S
    <3>1. times'[s] = t
      BY <1>2, <2>4
    <3>2. Len(t) > 0 /\ Len(t) < Late[step'] => t[Len(t)] < cycle'
      BY <1>0, <2>1 DEF InOrder
    <3>3. InOrder(times[s])'
      BY <2>1, <3>1, <3>2 DEF InOrder
    <3> QED BY <2>1, <2>4, <3>1, <3>3
  <2> QED BY <2>3, <2>4
<1>4. times' \in [Tag -> Seq(0 .. cycle)]
  BY <1>2, <1>3
<1> QED
  BY <1>1, <1>3, <1>4

LEMMA SeqMonotone ==
    ASSUME NEW S, NEW T, S \subseteq T, NEW q \in Seq(S)
    PROVE  q \in Seq(T)
<1>1. Len(q) \in Nat /\ q \in [1 .. Len(q) -> S]
  BY LenProperties
<1> QED
  BY <1>1

LEMMA TypeStep ==
    ASSUME TypeInv, UNCHANGED trace, step' \in Steps, cycle' \in Nat, continue_fetch' \in BOOLEAN,
           dispatch_queue_head' \in Nat, temp_iterator' \in Nat, dispatch_queue_tail' \in Nat,
           dispatch_queue_head' <= temp_iterator', temp_iterator' <= dispatch_queue_tail',
           dispatch_queue_tail' <= Len(trace), predicted_br' \in [Tag -> BOOLEAN],
           instr_tag' \in Nat, register_file' \in [Reg -> RegType(instr_tag')],
           branch_started' \in BOOLEAN, branch_table' \in [Entries -> 0 .. 3], ghr' \in Entries,
           l1_cache' \in [0 .. Sets - 1 -> [valid : BOOLEAN, tag : Int]]
    PROVE  TypeInv'
<1>1. Tag' = Tag /\ trace' \in Traces /\ Len(trace') = Len(trace)
  BY DEF Tag, TypeInv
<1>2. (step \in Steps)' /\ (branch_table \in [Entries -> 0 .. 3])' /\ (ghr \in Entries)'
  BY DEF Steps, Entries, branch_table_size
<1>3. (register_file \in [Reg -> RegType(instr_tag)])'
  BY DEF RegType
<1>4. (predicted_br \in [Tag -> BOOLEAN])'
  BY <1>1
<1> QED
  BY <1>1, <1>2, <1>3, <1>4 DEF TypeInv

LEMMA UpdateStep == ASSUME Inv, UpdateState PROVE Inv'
<1> DEFINE new == [i \in Row |-> Updated(i)]
<1>0. /\ TypeInv /\ QueueInv /\ UnitsInv /\ ClockInv /\ TimesInv
      /\ step = "update_state" /\ step' = "execute_instr" /\ finished_fu = {}
  BY DEF Inv, UpdateState, At, ClockInv, BetweenCycles
<1>1. /\ new \in [Row -> RowType] /\ \A i \in Row : Same(new[i], schedule_queue[i])
      /\ schedule_queue' = new
  BY <1>0, UpdatedRow DEF UpdateState
<1> HIDE DEF new
<1>2. /\ RowsOK(new, dispatch_queue_head) /\ OccupiedIn(new) = Occupied /\ FiredIn(new) = Fired
      /\ \A ops : WorkingIn(new, ops) = WorkingIn(schedule_queue, ops)
  BY <1>0, <1>1, SameRows, RowSet DEF QueueInv
<1>3. /\ QueueInv' /\ Occupied' = Occupied /\ Fired' = Fired
      /\ UnitsOK(new, add_unit', ls_unit', ls_functional_unit') => UnitsInv'
  BY <1>0, <1>1, <1>2, RowsStep DEF UpdateState, QueueInv
<1>4. UnitsInv'
  <2>1. \A i \in WorkingIn(schedule_queue, Accesses) : new[i].fu = schedule_queue[i].fu
    BY <1>1 DEF WorkingIn, FiredIn, OccupiedIn, Same, Alike
  <2>2. UnitsOK(new, add_unit, ls_unit, ls_functional_unit)
    BY <1>0, <1>2, <2>1, SameUnits DEF UnitsInv
  <2> QED BY <1>3, <2>2 DEF UpdateState, units
<1>5. \A i \in Fired : i \in Row /\ schedule_queue'[i].remaining_time = schedule_queue[i].remaining_time
  BY <1>1 DEF Fired, Occupied, Same
<1>6. ClockInv'
  <2>1. finished_fu' = Finished /\ Finished = {i \in Fired : schedule_queue[i].remaining_time = 0}
    BY DEF UpdateState, Finished, Fired
  <2>2. \A i \in Fired : schedule_queue[i].remaining_time >= 0
    BY <1>0 DEF ClockInv, BetweenCycles
  <2> QED BY <1>0, <1>3, <1>5, <2>1, <2>2 DEF ClockInv, BetweenCycles
<1>7. TypeInv'
  <2>1. Retirement \in [retired : Seq(Retired), predictor : PredictorType]
    BY <1>0, RetirementType
  <2>2. branch_table' \in [Entries -> 0 .. 3] /\ ghr' \in Entries
    BY <2>1 DEF UpdateState, PredictorType
  <2>3. register_file' \in [Reg -> RegType(instr_tag)]
    BY <1>0 DEF UpdateState, TypeInv, RegType
  <2>4. branch_started' \in BOOLEAN
    BY DEF UpdateState
  <2>5. UNCHANGED <<trace, cycle, continue_fetch, dispatch_queue_tail, predicted_br,
                    dispatch_queue_head, temp_iterator, instr_tag, l1_cache>>
    BY DEF UpdateState, fetching
  <2>6. step' \in Steps
    BY <1>0 DEF Steps
  <2> QED BY <1>0, <2>2, <2>3, <2>4, <2>5, <2>6, TypeStep DEF TypeInv
<1>8. TimesInv'
  <2>1. \A i \in Occupied : /\ i \in Row /\ schedule_queue[i].seq \in Tag
                            /\ schedule_queue[i].seq < dispatch_queue_head
                            /\ schedule_queue'[i].seq = schedule_queue[i].seq
                            /\ schedule_queue'[i].fired = schedule_queue[i].fired
    BY <1>0, <1>1, OccupiedRow, RowSet DEF QueueInv, Same, Alike
  <2>2. \A s \in Retired : s \in Tag /\ s < dispatch_queue_head /\ Len(times[s]) = 4
    <3> SUFFICES ASSUME NEW i \in Finished
                 PROVE  LET s == schedule_queue[i].seq
                        IN  s \in Tag /\ s < dispatch_queue_head /\ Len(times[s]) = 4
      BY DEF Retired
    <3>1. i \in Occupied /\ schedule_queue[i].fired /\ ~(schedule_queue[i].remaining_time > 0)
      BY DEF Finished
    <3> QED BY <1>0, <2>1, <3>1 DEF TimesInv
  <2>3. /\ (times \in [Tag -> Seq(0 .. cycle)])' /\ (\A s \in Tag : InOrder(times[s]))'
        /\ \A s \in Tag : Len(times'[s]) = IF s \in Retired THEN 5 ELSE Len(times[s])
    <3>1. times' = [s \in DOMAIN times |-> IF s \in Retired THEN Append(times[s], cycle)
                                          ELSE times[s]]
      BY DEF UpdateState
    <3>2. Late[step] = 5 + 1 /\ Late[step'] = 5 /\ UNCHANGED <<trace, cycle>>
      BY <1>0, LateOf DEF UpdateState
    <3>3. \A s \in Tag : s \in Retired => Len(times[s]) = 5 - 1
      BY <2>2
    <3>4. 5 \in 1 .. 5
      OBVIOUS
    <3> QED BY <1>0, <3>1, <3>2, <3>3, <3>4, Stamp, Zenon
  <2>4. Tag' = Tag /\ UNCHANGED <<dispatch_queue_head, temp_iterator, dispatch_queue_tail>>
    BY DEF Tag, UpdateState, fetching
  <2>5. (\A s \in Tag : /\ s >= dispatch_queue_tail => Len(times[s]) = 0
                        /\ s >= temp_iterator /\ s < dispatch_queue_tail => Len(times[s]) = 1
                        /\ s >= dispatch_queue_head /\ s < temp_iterator => Len(times[s]) = 2)'
    <3>1. \A s \in Tag : s >= dispatch_queue_head => s \notin Retired
      BY <1>0, <2>2 DEF TypeInv, Tag
    <3>2. dispatch_queue_head <= temp_iterator /\ temp_iterator <= dispatch_queue_tail
      BY <1>0 DEF TypeInv
    <3> QED BY <1>0, <2>3, <2>4, <3>1, <3>2 DEF TimesInv, TypeInv, Tag
  <2>6. ASSUME NEW i \in Occupied
        PROVE  LET row == schedule_queue'[i]
                   n   == Len(times'[row.seq])
               IN  IF i \in finished_fu' THEN n = 5
                   ELSE IF row.fired THEN n = 4 \/ (n = 3 /\ row.remaining_time > 0)
                   ELSE n \in {2, 3}
    <3>1. i \in Finished <=> schedule_queue[i].seq \in Retired
      <4>1. \A j \in Finished : schedule_queue[j].seq = schedule_queue[i].seq => j = i
        BY <1>0, RowSet DEF Finished, QueueInv, RowsOK
      <4> QED BY <4>1 DEF Retired
    <3>2. finished_fu' = Finished
      BY DEF UpdateState
    <3>3. i \in Fired => schedule_queue'[i].remaining_time = schedule_queue[i].remaining_time
      BY <1>5
    <3>4. schedule_queue[i].fired => i \in Fired
      BY DEF Fired
    <3>5. CASE i \in Finished
      <4>1. i \notin finished_fu /\ i \in Fired /\ schedule_queue[i].remaining_time = 0
        BY <1>0, <3>5 DEF Finished, Fired
      <4>2. LET n == Len(times[schedule_queue[i].seq])
            IN  n = 4 \/ (n = 3 /\ schedule_queue[i].remaining_time > 0)
        BY <1>0, <4>1 DEF TimesInv, Fired
      <4> QED BY <1>0, <2>1, <2>3, <3>1, <3>2, <3>5, <4>1, <4>2
    <3>6. CASE i \notin Finished
      <4>1. LET n == Len(times[schedule_queue[i].seq])
            IN  IF schedule_queue[i].fired
                THEN n = 4 \/ (n = 3 /\ schedule_queue[i].remaining_time > 0)
                ELSE n \in {2, 3}
        BY <1>0 DEF TimesInv
      <4> QED BY <1>0, <2>1, <2>3, <3>1, <3>2, <3>3, <3>4, <3>6, <4>1
    <3> QED BY <3>5, <3>6
  <2>7. (result \in Seq({s \in Tag : Len(times[s]) = 5}))'
    <3> DEFINE five == {s \in Tag : Len(times'[s]) = 5}
    <3>1. Retired \subseteq five
      BY <2>2, <2>3
    <3>2. {s \in Tag : Len(times[s]) = 5} \subseteq five
      BY <2>3
    <3> HIDE DEF five
    <3>3. result \in Seq(five) /\ Retirement.retired \in Seq(five)
      <4>1. Retirement.retired \in Seq(Retired)
        BY <1>0, RetirementType
      <4>2. result \in Seq({s \in Tag : Len(times[s]) = 5})
        BY <1>0 DEF TimesInv
      <4> QED BY <3>1, <3>2, <4>1, <4>2, SeqMonotone
    <3>4. result' = result \o Retirement.retired
      BY DEF UpdateState
    <3>5. result' \in Seq(five)
      BY <3>3, <3>4
    <3> QED BY <2>4, <3>5 DEF five
  <2> QED BY <1>3, <2>3, <2>5, <2>6, <2>7 DEF TimesInv
<1> QED
  BY <1>3, <1>4, <1>6, <1>7, <1>8 DEF Inv

-----------------------------------------------------------------------------
(* execute_instr. *)

CacheType == [0 .. Sets - 1 -> [valid : BOOLEAN, tag : Int]]

\* The time that a fired row may have left after the cycle, and the row with it.
Left(i) == IF schedule_queue[i].remaining_time = NotYet THEN {0, MissTime - 1}
           ELSE {schedule_queue[i].remaining_time - 1}
Ran(i)  == {[schedule_queue[i] EXCEPT !.remaining_time = t] : t \in Left(i)}

LEMMA AccessType ==
    ASSUME NEW cache \in CacheType, NEW a \in Nat
    PROVE  Access(cache, a) \in CacheType
<1>1. BlockSize * Sets \in Nat \ {0}
  BY Sizes
<1>2. TagOf(a) \in Int
  BY <1>1 DEF TagOf
<1> QED
  BY <1>2 DEF Access, CacheType

LEMMA RanType ==
    ASSUME Inv, step = "execute_instr", NEW i \in Fired, NEW r \in Ran(i)
    PROVE  /\ i \in Row /\ r \in RowType /\ r.remaining_time >= -1
           /\ r = [schedule_queue[i] EXCEPT !.remaining_time = r.remaining_time]
           /\ i \in finished_fu <=> r.remaining_time = -1
           /\ i \in finished_fu <=> schedule_queue[i].remaining_time = 0
<1>1. i \in Row /\ schedule_queue[i] \in RowType
  BY DEF Inv, QueueInv, RowsOK, Fired, Occupied
<1>2. /\ schedule_queue[i].remaining_time >= 0
      /\ schedule_queue[i].remaining_time = 0 <=> i \in finished_fu
  BY DEF Inv, ClockInv, BetweenCycles
<1>3. PICK t \in Left(i) : r = [schedule_queue[i] EXCEPT !.remaining_time = t]
  BY DEF Ran
<1>4. t \in -1 .. NotYet /\ (t = -1 <=> schedule_queue[i].remaining_time = 0)
  BY <1>1, <1>2 DEF Left, RowType, NotYet, MissTime
<1>5. r \in RowType /\ r.remaining_time = t
  BY <1>1, <1>3, <1>4 DEF RowType
<1> QED
  BY <1>1, <1>2, <1>3, <1>4, <1>5

LEMMA ExecutedRows ==
    ASSUME Inv, step = "execute_instr"
    PROVE  /\ Executed.rows \in [Row -> RowType] /\ Executed.cache \in CacheType
           /\ \A i \in Row : IF i \in Fired THEN Executed.rows[i] \in Ran(i)
                             ELSE Executed.rows[i] = schedule_queue[i]
<1> DEFINE n == schedule_queue_size
           After(x, m) == \A i \in Row : IF i <= m /\ i \in Fired THEN x.rows[i] \in Ran(i)
                                         ELSE x.rows[i] = schedule_queue[i]
           W == [rows : [Row -> RowType], cache : CacheType]
           I == [m \in 0 .. n |-> {x \in W : After(x, m)}]
           w == [rows |-> schedule_queue, cache |-> l1_cache]
<1>1. n \in Nat /\ Row = 1 .. n
  BY Queue
<1>2. w \in W /\ After(w, 0)
  BY <1>1 DEF Inv, TypeInv, QueueInv, RowsOK, CacheType
<1>3. ASSUME NEW m \in Row, NEW x \in W, After(x, m - 1) PROVE Run(x, m) \in W /\ After(Run(x, m), m)
  <2>1. m \in Nat /\ x.rows[m] = schedule_queue[m]
    BY <1>1, <1>3
  <2>2. CASE m \notin Fired
    BY <1>1, <1>3, <2>1, <2>2 DEF Run
  <2>3. CASE m \in Fired
    <3> DEFINE addr == InstOf(schedule_queue[m]).addr
               time == IF schedule_queue[m].remaining_time = NotYet
                       THEN (IF Hit(x.cache, addr) THEN HitTime ELSE MissTime) - 1
                       ELSE schedule_queue[m].remaining_time - 1
               r    == [schedule_queue[m] EXCEPT !.remaining_time = time]
    <3>1. r \in Ran(m)
      <4>1. time \in Left(m)
        BY DEF Left, HitTime, MissTime
      <4> HIDE DEF time
      <4> QED BY <4>1 DEF Ran
    <3>2. r \in RowType
      BY <2>3, <3>1, RanType
    <3>3. addr \in Nat
      <4>1. InstOf(schedule_queue[m]) \in Instruction
        BY <2>3, RowSet, OccupiedRow DEF Inv, QueueInv, Fired
      <4> QED BY <4>1 DEF Instruction
    <3>4. Run(x, m).rows = [x.rows EXCEPT ![m] = r]
      BY <2>1, <2>3 DEF Run
    <3>5. Run(x, m) = [rows |-> Run(x, m).rows, cache |-> Run(x, m).cache]
      BY <2>3 DEF Run
    <3>6. Run(x, m).cache \in CacheType
      <4>1. Access(x.cache, addr) \in CacheType
        BY <3>3, AccessType
      <4> QED BY <2>3, <4>1 DEF Run
    <3> HIDE DEF r
    <3>7. Run(x, m) \in W
      <4>1. Run(x, m).rows \in [Row -> RowType]
        BY <3>2, <3>4
      <4> QED BY <3>5, <3>6, <4>1
    <3>8. After(Run(x, m), m)
      BY <1>1, <1>3, <2>1, <2>3, <3>1, <3>4
    <3> QED BY <3>7, <3>8
  <2> QED BY <2>2, <2>3
<1> HIDE DEF W, After
<1>4. \A m \in Row : \A x \in I[m - 1] : Run(x, m) \in I[m]
  BY <1>1, <1>3
<1>5. w \in I[0]
  BY <1>1, <1>2
<1> HIDE DEF I, w
<1>6. EachRow(Run, w) \in I[n]
  BY <1>4, <1>5, RunLoop
<1>7. Executed = EachRow(Run, w)
  BY DEF Executed, w
<1>8. Executed \in W /\ After(Executed, n)
  BY <1>1, <1>6, <1>7 DEF I
<1> QED
  BY <1>1, <1>8 DEF W, After

\* What the stamps leave alone when no instruction changes its queue.
LEMMA StampRows ==
    ASSUME TypeInv, TimesInv, NEW S,
           times' = [s \in DOMAIN times |-> IF s \in S THEN Append(times[s], cycle) ELSE times[s]],
           UNCHANGED <<trace, cycle>>, NEW n \in 1 .. 4, Late[step] = n + 1, Late[step'] = n,
           \A s \in Tag : s \in S => Len(times[s]) = n - 1,
           \A s \in Tag : s \in S => s < dispatch_queue_head,
           UNCHANGED <<dispatch_queue_head, temp_iterator, dispatch_queue_tail, result>>
    PROVE  /\ (times \in [Tag -> Seq(0 .. cycle)])' /\ (\A s \in Tag : InOrder(times[s]))'
           /\ (result \in Seq({s \in Tag : Len(times[s]) = 5}))'
           /\ (\A s \in Tag :
                  /\ s >= dispatch_queue_tail => Len(times[s]) = 0
                  /\ s >= temp_iterator /\ s < dispatch_queue_tail => Len(times[s]) = 1
                  /\ s >= dispatch_queue_head /\ s < temp_iterator => Len(times[s]) = 2)'
           /\ \A s \in Tag : Len(times'[s]) = IF s \in S THEN n ELSE Len(times[s])
<1>1. /\ (times \in [Tag -> Seq(0 .. cycle)])' /\ (\A s \in Tag : InOrder(times[s]))'
      /\ \A s \in Tag : Len(times'[s]) = IF s \in S THEN n ELSE Len(times[s])
  <2>1. n \in 1 .. 5
    OBVIOUS
  <2> QED BY <2>1, Stamp, ZenonT(60)
<1>2. Tag' = Tag
  BY DEF Tag
<1>3. \A s \in Tag : s >= dispatch_queue_head => Len(times'[s]) = Len(times[s])
  BY <1>1 DEF TypeInv, Tag
<1>4. {s \in Tag : Len(times[s]) = 5} \subseteq {s \in Tag : Len(times'[s]) = 5}
  <2>1. n - 1 # 5
    OBVIOUS
  <2>2. \A s \in Tag : Len(times[s]) = 5 => s \notin S
    BY <2>1, Zenon
  <2> QED BY <1>1, <2>2
<1>5. result \in Seq({s \in Tag : Len(times'[s]) = 5})
  <2>1. result \in Seq({s \in Tag : Len(times[s]) = 5})
    BY DEF TimesInv
  <2> QED BY <1>4, <2>1, SeqMonotone
<1>6. (\A s \in Tag : /\ s >= dispatch_queue_tail => Len(times[s]) = 0
                      /\ s >= temp_iterator /\ s < dispatch_queue_tail => Len(times[s]) = 1
                      /\ s >= dispatch_queue_head /\ s < temp_iterator => Len(times[s]) = 2)'
  BY <1>2, <1>3 DEF TimesInv, TypeInv, Tag
<1> QED
  BY <1>1, <1>2, <1>5, <1>6

LEMMA ExecuteStep == ASSUME Inv, ExecuteInstr PROVE Inv'
<1> DEFINE new == Executed.rows
           Back(ops) == Frees(new, ops)
           Old(ops)  == WorkingIn(schedule_queue, ops)
           New(ops)  == WorkingIn(new, ops)
<1>0. /\ TypeInv /\ QueueInv /\ UnitsInv /\ ClockInv /\ TimesInv
      /\ step = "execute_instr" /\ step' = "schedule_instr"
  BY DEF Inv, ExecuteInstr, At
<1>1. /\ new \in [Row -> RowType] /\ Executed.cache \in CacheType /\ schedule_queue' = new
      /\ \A i \in Row : IF i \in Fired THEN new[i] \in Ran(i) ELSE new[i] = schedule_queue[i]
  BY <1>0, ExecutedRows DEF ExecuteInstr
<1> HIDE DEF new
<1>2. \A i \in Row : Alike(new[i], schedule_queue[i])
  <2> SUFFICES ASSUME NEW i \in Row PROVE Alike(new[i], schedule_queue[i])
    OBVIOUS
  <2>1. CASE i \in Fired
    <3>1. /\ schedule_queue[i] \in RowType
          /\ new[i] = [schedule_queue[i] EXCEPT !.remaining_time = new[i].remaining_time]
      BY <1>0, <1>1, <2>1, RanType DEF QueueInv, RowsOK
    <3> QED BY <3>1 DEF RowType, Alike
  <2> QED BY <1>1, <2>1 DEF Alike
<1>3. /\ RowsOK(new, dispatch_queue_head) /\ OccupiedIn(new) = Occupied /\ FiredIn(new) = Fired
      /\ \A i \in Row : InstOf(new[i]) = InstOf(schedule_queue[i])
  BY <1>0, <1>1, <1>2, AlikeRows, RowSet DEF QueueInv
<1>4. /\ QueueInv' /\ Occupied' = Occupied /\ Fired' = Fired
      /\ UnitsOK(new, add_unit', ls_unit', ls_functional_unit') => UnitsInv'
  BY <1>0, <1>1, <1>3, RowsStep DEF ExecuteInstr, QueueInv
<1>5. \A i \in Fired : /\ i \in Row /\ new[i].remaining_time \in Int
                       /\ new[i].remaining_time >= -1
                       /\ i \in finished_fu <=> new[i].remaining_time = -1
                       /\ i \in finished_fu <=> schedule_queue[i].remaining_time = 0
                       /\ schedule_queue[i].remaining_time \in Int
                       /\ schedule_queue[i].remaining_time >= 0
  <2> SUFFICES ASSUME NEW i \in Fired
               PROVE  /\ i \in Row /\ new[i].remaining_time \in Int
                      /\ new[i].remaining_time >= -1
                      /\ i \in finished_fu <=> new[i].remaining_time = -1
                      /\ i \in finished_fu <=> schedule_queue[i].remaining_time = 0
                      /\ schedule_queue[i].remaining_time \in Int
                      /\ schedule_queue[i].remaining_time >= 0
    OBVIOUS
  <2>1. i \in Row
    BY DEF Fired, Occupied
  <2>2. new[i] \in RowType /\ schedule_queue[i] \in RowType
    BY <1>0, <1>1, <2>1 DEF QueueInv, RowsOK
  <2>3. schedule_queue[i].remaining_time >= 0
    BY <1>0 DEF ClockInv, BetweenCycles
  <2>4. /\ new[i].remaining_time >= -1
        /\ i \in finished_fu <=> new[i].remaining_time = -1
        /\ i \in finished_fu <=> schedule_queue[i].remaining_time = 0
    BY <1>0, <1>1, <2>1, RanType
  <2> QED BY <2>1, <2>2, <2>3, <2>4 DEF RowType, NotYet
<1>6. \A ops : /\ Back(ops) \subseteq Old(ops) /\ New(ops) = Old(ops) \ Back(ops)
              /\ IsFiniteSet(Old(ops)) /\ Old(ops) \subseteq Row
  <2> SUFFICES ASSUME NEW ops
               PROVE  /\ Back(ops) \subseteq Old(ops) /\ New(ops) = Old(ops) \ Back(ops)
                      /\ IsFiniteSet(Old(ops)) /\ Old(ops) \subseteq Row
    OBVIOUS
  <2>1. Old(ops) = {i \in Fired : InstOf(schedule_queue[i]).op \in ops /\ i \notin finished_fu}
    BY <1>5, RowSet DEF WorkingIn
  <2>2. New(ops) = {i \in Fired : /\ InstOf(schedule_queue[i]).op \in ops
                                 /\ new[i].remaining_time > 0}
    BY <1>3, <1>5 DEF WorkingIn
  <2>3. Back(ops) = {i \in Fired : /\ InstOf(schedule_queue[i]).op \in ops
                                  /\ new[i].remaining_time = 0}
    BY <1>3, <1>5 DEF Frees, Ended
  <2>4. Old(ops) \subseteq Row /\ IsFiniteSet(Old(ops))
    BY <1>5, <2>1, RowsFinite
  <2> HIDE DEF Old, New, Back
  <2> QED BY <1>5, <2>1, <2>2, <2>3, <2>4
<1> HIDE DEF Old, New, Back
<1>7. \A ops : /\ Cardinality(Old(ops)) \in Nat /\ Cardinality(Back(ops)) \in Nat
              /\ Cardinality(New(ops)) \in Nat
              /\ Cardinality(New(ops)) = Cardinality(Old(ops)) - Cardinality(Back(ops))
  <2> SUFFICES ASSUME NEW ops
               PROVE  /\ Cardinality(Old(ops)) \in Nat /\ Cardinality(Back(ops)) \in Nat
                      /\ Cardinality(New(ops)) \in Nat
                      /\ Cardinality(New(ops)) = Cardinality(Old(ops)) - Cardinality(Back(ops))
    OBVIOUS
  <2>1. Old(ops) \cap Back(ops) = Back(ops) /\ Back(ops) \subseteq Row /\ New(ops) \subseteq Row
    BY <1>6
  <2>2. Cardinality(New(ops)) = Cardinality(Old(ops)) - Cardinality(Back(ops))
    BY <1>6, <2>1, FS_Difference
  <2> QED BY <1>6, <2>1, <2>2, RowsFinite
<1>8. UnitsInv'
  <2> DEFINE memory == Back(Accesses)
             add    == {"ADD", "BR"}
  <2>1. /\ add_unit' = add_unit + Cardinality(Back(add))
        /\ ls_unit' = ls_unit + Cardinality(memory)
        /\ ls_functional_unit' = [u \in LsUnit |-> [ls_functional_unit[u] EXCEPT
               !.busy = ls_functional_unit[u].busy /\ ~\E i \in memory : schedule_queue[i].fu = u]]
    BY DEF ExecuteInstr, Back, new, Accesses
  <2>2. /\ add_unit \in Nat /\ add_unit = K0 - Cardinality(Old(add))
        /\ ls_unit \in Nat /\ ls_unit = K2 - Cardinality(Old(Accesses))
        /\ ls_functional_unit \in [LsUnit -> UnitType]
        /\ \A u \in LsUnit : ls_functional_unit[u].busy
                             <=> \E i \in Old(Accesses) : schedule_queue[i].fu = u
        /\ \A i, j \in Old(Accesses) : schedule_queue[i].fu = schedule_queue[j].fu => i = j
    BY <1>0 DEF UnitsInv, UnitsOK, Old
  <2>3. add_unit' \in Nat /\ add_unit' = K0 - Cardinality(New(add))
    BY <1>7, <2>1, <2>2, Sizes
  <2>4. ls_unit' \in Nat /\ ls_unit' = K2 - Cardinality(New(Accesses))
    BY <1>7, <2>1, <2>2, Sizes
  <2>5. \A i \in Old(Accesses) : new[i].fu = schedule_queue[i].fu
    BY <1>2, <1>6 DEF Alike
  <2>6. /\ ls_functional_unit' \in [LsUnit -> UnitType]
        /\ \A u \in LsUnit : ls_functional_unit'[u].busy
               <=> ls_functional_unit[u].busy /\ ~\E i \in memory : schedule_queue[i].fu = u
    <3> DEFINE still(u) == ls_functional_unit[u].busy /\ ~\E i \in memory : schedule_queue[i].fu = u
    <3>1. \A u \in LsUnit : ls_functional_unit'[u] = [ls_functional_unit[u] EXCEPT !.busy = still(u)]
      BY <2>1
    <3>2. \A u \in LsUnit : still(u) \in BOOLEAN
      OBVIOUS
    <3> HIDE DEF still
    <3>3. ASSUME NEW u \in LsUnit
          PROVE  ls_functional_unit'[u] \in UnitType /\ ls_functional_unit'[u].busy = still(u)
      <4>1. ls_functional_unit[u] \in UnitType /\ still(u) \in BOOLEAN
        BY <2>2, <3>2
      <4> QED BY <3>1, <4>1 DEF UnitType
    <3>4. ls_functional_unit' \in [LsUnit -> UnitType]
      BY <2>1, <3>3
    <3> QED BY <3>3, <3>4 DEF still
  <2>7. ASSUME NEW u \in LsUnit
        PROVE  ls_functional_unit'[u].busy <=> \E i \in New(Accesses) : new[i].fu = u
    <3>1. ls_functional_unit'[u].busy
          <=> ls_functional_unit[u].busy /\ ~\E i \in memory : schedule_queue[i].fu = u
      BY <2>6
    <3> QED BY <1>6, <2>2, <2>5, <3>1
  <2>8. \A i, j \in New(Accesses) : new[i].fu = new[j].fu => i = j
    BY <1>6, <2>2, <2>5
  <2>9. UnitsOK(new, add_unit', ls_unit', ls_functional_unit')
    BY <2>3, <2>4, <2>6, <2>7, <2>8 DEF UnitsOK, New
  <2> QED BY <1>4, <2>9
<1>9. ClockInv'
  <2>1. finished_fu' = finished_fu /\ finished_fu \subseteq Fired
    BY <1>0 DEF ExecuteInstr, ClockInv
  <2> QED BY <1>0, <1>1, <1>4, <1>5, <2>1 DEF ClockInv, BetweenCycles
<1>10. TypeInv'
  <2>1. UNCHANGED <<trace, cycle, continue_fetch, dispatch_queue_tail, predicted_br, branch_started,
                    dispatch_queue_head, temp_iterator, instr_tag, register_file, branch_table, ghr>>
    BY DEF ExecuteInstr, fetching, tags, branches
  <2>2. l1_cache' \in CacheType /\ step' \in Steps
    BY <1>0, <1>1 DEF ExecuteInstr, Steps
  <2>3. /\ continue_fetch' \in BOOLEAN /\ branch_started' \in BOOLEAN
        /\ register_file' \in [Reg -> RegType(instr_tag')]
    BY <1>0, <2>1 DEF TypeInv
  <2> QED BY <1>0, <2>1, <2>2, <2>3, TypeStep DEF TypeInv, CacheType
<1>11. TimesInv'
  <2> DEFINE S == {s \in Tag : Len(times[s]) = 3 /\ \E i \in Fired : schedule_queue[i].seq = s}
  <2>1. \A i \in Occupied : /\ i \in Row /\ schedule_queue[i].seq \in Tag
                            /\ schedule_queue[i].seq < dispatch_queue_head
                            /\ schedule_queue'[i].seq = schedule_queue[i].seq
                            /\ schedule_queue'[i].fired = schedule_queue[i].fired
    BY <1>0, <1>1, <1>2, OccupiedRow, RowSet DEF QueueInv, Alike
  <2>2. \A i, j \in Occupied : schedule_queue[i].seq = schedule_queue[j].seq => i = j
    BY <1>0, RowSet DEF QueueInv, RowsOK
  <2>3. \A i \in Fired : i \in Occupied /\ schedule_queue[i].fired
    BY DEF Fired
  <2>4. /\ (times \in [Tag -> Seq(0 .. cycle)])' /\ (\A s \in Tag : InOrder(times[s]))'
        /\ (result \in Seq({s \in Tag : Len(times[s]) = 5}))'
        /\ (\A s \in Tag :
               /\ s >= dispatch_queue_tail => Len(times[s]) = 0
               /\ s >= temp_iterator /\ s < dispatch_queue_tail => Len(times[s]) = 1
               /\ s >= dispatch_queue_head /\ s < temp_iterator => Len(times[s]) = 2)'
        /\ \A s \in Tag : Len(times'[s]) = IF s \in S THEN 4 ELSE Len(times[s])
    <3>1. times' = [s \in DOMAIN times |-> IF s \in S THEN Append(times[s], cycle) ELSE times[s]]
      <4>1. DOMAIN times = Tag
        BY <1>0 DEF TimesInv
      <4> QED BY <4>1 DEF ExecuteInstr
    <3>2. Late[step] = 4 + 1 /\ Late[step'] = 4 /\ UNCHANGED <<trace, cycle>>
      BY <1>0, LateOf DEF ExecuteInstr
    <3>3. /\ \A s \in Tag : s \in S => Len(times[s]) = 4 - 1
          /\ \A s \in Tag : s \in S => s < dispatch_queue_head
      BY <2>1, <2>3
    <3>4. UNCHANGED <<dispatch_queue_head, temp_iterator, dispatch_queue_tail, result>>
      BY DEF ExecuteInstr, fetching
    <3>5. 4 \in 1 .. 4
      OBVIOUS
    <3> HIDE DEF S
    <3> QED BY <1>0, <3>1, <3>2, <3>3, <3>4, <3>5, StampRows, ZenonT(60)
  <2>5. ASSUME NEW i \in Occupied
        PROVE  LET row == schedule_queue'[i]
                   n   == Len(times'[row.seq])
               IN  IF i \in finished_fu' THEN n = 5
                   ELSE IF row.fired THEN n = 4 \/ (n = 3 /\ row.remaining_time > 0)
                   ELSE n \in {2, 3}
    <3>1. finished_fu' = finished_fu
      BY DEF ExecuteInstr
    <3>2. schedule_queue[i].seq \in S
          <=> Len(times[schedule_queue[i].seq]) = 3 /\ schedule_queue[i].fired
      BY <2>1, <2>2, <2>3 DEF Fired
    <3> DEFINE seq == schedule_queue[i].seq
    <3>3. /\ schedule_queue'[i].seq = seq /\ schedule_queue'[i].fired = schedule_queue[i].fired
          /\ Len(times'[seq]) = IF seq \in S THEN 4 ELSE Len(times[seq])
      BY <2>1, <2>4
    <3>4. IF i \in finished_fu THEN Len(times[seq]) = 5
          ELSE IF schedule_queue[i].fired
          THEN Len(times[seq]) = 4 \/ (Len(times[seq]) = 3 /\ schedule_queue[i].remaining_time > 0)
          ELSE Len(times[seq]) \in {2, 3}
      BY <1>0 DEF TimesInv
    <3> HIDE DEF S
    <3>5. CASE i \in finished_fu
      <4>1. seq \notin S
        BY <3>2, <3>4, <3>5
      <4>2. Len(times'[seq]) = 5
        BY <3>3, <3>4, <3>5, <4>1
      <4> QED BY <3>1, <3>3, <3>5, <4>2
    <3>6. CASE i \notin finished_fu /\ schedule_queue[i].fired
      BY <3>1, <3>2, <3>3, <3>4, <3>6
    <3>7. CASE i \notin finished_fu /\ ~schedule_queue[i].fired
      BY <3>1, <3>2, <3>3, <3>4, <3>7
    <3> QED BY <3>5, <3>6, <3>7
  <2> QED BY <1>4, <2>4, <2>5 DEF TimesInv
<1> QED
  BY <1>4, <1>8, <1>9, <1>10, <1>11 DEF Inv

-----------------------------------------------------------------------------
(* schedule_instr. *)

\* Rows with the same tags and the same values.
Operands(r, row) == /\ r.dest_reg_tag = row.dest_reg_tag /\ r.src_reg_tag = row.src_reg_tag
                    /\ r.src_reg_ready = row.src_reg_ready

\* The row r that fires in the place of rows[i].
FiresAs(r, row, op) ==
    /\ r \in RowType /\ r.occupied /\ r.fired /\ r.seq = row.seq /\ r.remaining_time > 0
    /\ Operands(r, row)
    /\ Memory(op) => r.fu \in LsUnit

LEMMA FiredRow ==
    ASSUME NEW rows, NEW head, RowsOK(rows, head), NEW i \in Row, Waits(rows[i]), NEW r, NEW new,
           FiresAs(r, rows[i], InstOf(rows[i]).op), new = [rows EXCEPT ![i] = r]
    PROVE  /\ RowsOK(new, head) /\ OccupiedIn(new) = OccupiedIn(rows)
           /\ FiredIn(new) = FiredIn(rows) \cup {i} /\ i \notin FiredIn(rows)
           /\ \A ops : WorkingIn(new, ops) = IF InstOf(rows[i]).op \in ops
                                             THEN WorkingIn(rows, ops) \cup {i}
                                             ELSE WorkingIn(rows, ops)
<1>1. /\ rows \in [Row -> RowType] /\ new \in [Row -> RowType]
      /\ new[i] = r /\ \A j \in Row : j # i => new[j] = rows[j]
  BY DEF RowsOK, FiresAs
<1>2. rows[i].occupied /\ ~rows[i].fired
  BY DEF Waits
<1>3. OccupiedIn(new) = OccupiedIn(rows) /\ i \in OccupiedIn(rows)
  BY <1>1, <1>2 DEF OccupiedIn, FiresAs
<1>4. FiredIn(new) = FiredIn(rows) \cup {i} /\ i \notin FiredIn(rows)
  BY <1>1, <1>2, <1>3 DEF FiredIn, FiresAs
<1>5. \A j \in Row : InstOf(new[j]) = InstOf(rows[j])
  BY <1>1 DEF InstOf, FiresAs
<1>6. \A j \in OccupiedIn(rows) : j \in Row
  BY DEF OccupiedIn
<1>7. \A j \in FiredIn(rows) : j \in Row /\ j # i
  BY <1>4, <1>6 DEF FiredIn
<1>8. \A ops : WorkingIn(new, ops) = IF InstOf(rows[i]).op \in ops
                                     THEN WorkingIn(rows, ops) \cup {i}
                                     ELSE WorkingIn(rows, ops)
  <2> SUFFICES ASSUME NEW ops
               PROVE  WorkingIn(new, ops) = IF InstOf(rows[i]).op \in ops
                                            THEN WorkingIn(rows, ops) \cup {i}
                                            ELSE WorkingIn(rows, ops)
    OBVIOUS
  <2>1. i \in WorkingIn(new, ops) <=> InstOf(rows[i]).op \in ops
    BY <1>1, <1>4, <1>5 DEF WorkingIn, FiresAs
  <2>2. ASSUME NEW j, j # i PROVE j \in WorkingIn(new, ops) <=> j \in WorkingIn(rows, ops)
    <3>1. j \in FiredIn(new) <=> j \in FiredIn(rows)
      BY <1>4, <2>2
    <3>2. j \in FiredIn(rows) => new[j] = rows[j]
      BY <1>1, <1>7
    <3> QED BY <3>1, <3>2 DEF WorkingIn
  <2>3. i \notin WorkingIn(rows, ops)
    BY <1>4 DEF WorkingIn
  <2> DEFINE W == WorkingIn(rows, ops)
             V == WorkingIn(new, ops)
  <2>4. (i \in V <=> InstOf(rows[i]).op \in ops) /\ i \notin W /\ \A j : j # i => (j \in V <=> j \in W)
    BY <2>1, <2>2, <2>3
  <2> HIDE DEF V, W
  <2>5. V = IF InstOf(rows[i]).op \in ops THEN W \cup {i} ELSE W
    BY <2>4
  <2> QED BY <2>5 DEF V, W
<1>9. \A j \in Row : new[j].seq = rows[j].seq
  BY <1>1 DEF FiresAs
<1>10. \A j \in FiredIn(new) : Memory(InstOf(new[j]).op) => new[j].fu \in LsUnit
  BY <1>1, <1>4, <1>5, <1>7 DEF RowsOK, FiresAs
<1>11. RowsOK(new, head)
  <2>1. \A j \in Row : new[j].seq \in 0 .. head
    BY <1>9 DEF RowsOK
  <2>2. \A j \in OccupiedIn(new) : new[j].seq < head
    BY <1>3, <1>6, <1>9 DEF RowsOK
  <2>3. \A j, k \in OccupiedIn(new) : new[j].seq = new[k].seq => j = k
    BY <1>3, <1>6, <1>9 DEF RowsOK
  <2> QED BY <1>1, <1>10, <2>1, <2>2, <2>3 DEF RowsOK
<1> QED
  BY <1>3, <1>4, <1>8, <1>11

\* As long as ls_unit is not zero, there is a load-store unit that is not busy.
LEMMA UnitFound ==
    ASSUME NEW rows, NEW head, RowsOK(rows, head), NEW add, NEW ls, NEW ls_fu,
           UnitsOK(rows, add, ls, ls_fu), ls > 0
    PROVE  LET u == Min({v \in LsUnit : ~ls_fu[v].busy})
           IN  u \in LsUnit /\ ~ls_fu[u].busy
<1> DEFINE W    == WorkingIn(rows, Accesses)
           free == {v \in LsUnit : ~ls_fu[v].busy}
<1>1. \A i \in W : i \in Row /\ rows[i].fu \in LsUnit
  <2> SUFFICES ASSUME NEW i \in W PROVE i \in Row /\ rows[i].fu \in LsUnit
    OBVIOUS
  <2>1. i \in FiredIn(rows) /\ Memory(InstOf(rows[i]).op)
    BY DEF WorkingIn, Accesses, Memory
  <2> QED BY <2>1 DEF RowsOK, FiredIn, OccupiedIn
<1>2. IsFiniteSet(W) /\ Cardinality(W) \in Nat
  <2>1. W \in SUBSET Row
    BY <1>1
  <2> QED BY <2>1, RowsFinite
<1>3. free # {}
  <2>1. SUFFICES ASSUME free = {} PROVE FALSE
    OBVIOUS
  <2> DEFINE f == [i \in W |-> rows[i].fu]
  <2>2. \A u \in LsUnit : \E i \in W : f[i] = u
    BY <2>1 DEF UnitsOK
  <2>3. f \in [W -> LsUnit]
    BY <1>1
  <2> HIDE DEF f, W
  <2>4. f \in Surjection(W, LsUnit)
    BY <2>2, <2>3 DEF Surjection
  <2>5. Cardinality(LsUnit) <= Cardinality(W)
    BY <1>2, <2>4, FS_Surjection
  <2>6. Cardinality(LsUnit) = K2
    BY Sizes, FS_Interval DEF LsUnit
  <2>7. ls = K2 - Cardinality(W)
    BY DEF UnitsOK, W
  <2> QED BY <1>2, <2>5, <2>6, <2>7, Sizes
<1>4. free \in SUBSET Nat
  BY Sizes DEF LsUnit
<1> HIDE DEF free
<1>5. Min(free) \in free
  BY <1>3, <1>4, LeastOf
<1> QED
  BY <1>5 DEF free

WorkType == [rows : [Row -> RowType], add : Nat, mul : Int, ls : Nat, ls_fu : [LsUnit -> UnitType]]

\* What schedule_instr may do to a row.
IssuedAs(r, row) == /\ r.occupied = row.occupied /\ r.seq = row.seq
                    /\ ~Waits(row) => r.fired = row.fired /\ r.remaining_time = row.remaining_time
                    /\ Waits(row) /\ r.fired => /\ r.remaining_time > 0
                                                /\ row.src_reg_ready = <<TRUE, TRUE>>
                    /\ Operands(r, row)

IssueOK(x) == /\ x \in WorkType /\ RowsOK(x.rows, dispatch_queue_head)
              /\ UnitsOK(x.rows, x.add, x.ls, x.ls_fu)
              /\ \A i \in Row : IssuedAs(x.rows[i], schedule_queue[i])

LEMMA IssueMarks ==
    ASSUME Inv, NEW x, IssueOK(x), NEW i \in Row, Waits(x.rows[i])
    PROVE  IssueOK([x EXCEPT !.rows[i].ls_conflict_end = TRUE])
<1> DEFINE r    == [x.rows[i] EXCEPT !.ls_conflict_end = TRUE]
           new  == [x.rows EXCEPT ![i] = r]
           seen == [x EXCEPT !.rows[i].ls_conflict_end = TRUE]
<1>1. x \in WorkType /\ x.rows \in [Row -> RowType] /\ x.rows[i] \in RowType
  BY DEF IssueOK, WorkType
<1>2. r \in RowType /\ Same(r, x.rows[i]) /\ Operands(r, x.rows[i])
  BY <1>1 DEF RowType, Same, Alike, Operands
<1>3. seen = [x EXCEPT !.rows = new]
  BY <1>1 DEF WorkType
<1> HIDE DEF r
<1>4. new \in [Row -> RowType] /\ new[i] = r /\ \A j \in Row : j # i => new[j] = x.rows[j]
  BY <1>1, <1>2
<1> HIDE DEF new
<1>5. /\ seen \in WorkType /\ seen.rows = new /\ seen.add = x.add /\ seen.ls = x.ls
      /\ seen.ls_fu = x.ls_fu
  BY <1>1, <1>3, <1>4 DEF WorkType
<1> HIDE DEF seen
<1>6. \A j \in Row : Same(new[j], x.rows[j]) /\ Operands(new[j], x.rows[j])
  BY <1>2, <1>4 DEF Same, Alike, Operands
<1>7. /\ RowsOK(new, dispatch_queue_head)
      /\ \A ops : WorkingIn(new, ops) = WorkingIn(x.rows, ops)
  BY <1>4, <1>6, SameRows DEF IssueOK
<1>8. UnitsOK(new, x.add, x.ls, x.ls_fu)
  <2>1. \A j \in WorkingIn(x.rows, Accesses) : new[j].fu = x.rows[j].fu
    BY <1>6 DEF WorkingIn, FiredIn, OccupiedIn, Same, Alike
  <2> QED BY <1>7, <2>1, SameUnits DEF IssueOK
<1>9. ASSUME NEW j \in Row PROVE IssuedAs(new[j], schedule_queue[j])
  <2>1. /\ Same(new[j], x.rows[j]) /\ Operands(new[j], x.rows[j])
        /\ IssuedAs(x.rows[j], schedule_queue[j])
    BY <1>6 DEF IssueOK
  <2> QED BY <2>1 DEF IssuedAs, Same, Alike, Operands
<1>10. IssueOK(seen)
  BY <1>5, <1>7, <1>8, <1>9 DEF IssueOK
<1> QED
  BY <1>10 DEF seen

\* Row i fires; what is left of the units is what the row did not take.
LEMMA IssueFires ==
    ASSUME Inv, NEW x, IssueOK(x), NEW i \in Row, Waits(x.rows[i]),
           x.rows[i].src_reg_ready = <<TRUE, TRUE>>, NEW r, FiresAs(r, x.rows[i], InstOf(x.rows[i]).op), NEW y \in WorkType,
           y.rows = [x.rows EXCEPT ![i] = r], UnitsOK(y.rows, y.add, y.ls, y.ls_fu)
    PROVE  IssueOK(y)
<1>1. x.rows \in [Row -> RowType] /\ y.rows[i] = r /\ \A j \in Row : j # i => y.rows[j] = x.rows[j]
  BY DEF IssueOK, WorkType
<1>2. RowsOK(y.rows, dispatch_queue_head)
  BY FiredRow DEF IssueOK
<1>3. Waits(schedule_queue[i])
  <2>1. IssuedAs(x.rows[i], schedule_queue[i])
    BY DEF IssueOK
  <2> QED BY <2>1 DEF IssuedAs, Waits
<1>4. \A j \in Row : IssuedAs(y.rows[j], schedule_queue[j])
  <2> SUFFICES ASSUME NEW j \in Row PROVE IssuedAs(y.rows[j], schedule_queue[j])
    OBVIOUS
  <2>1. IssuedAs(x.rows[j], schedule_queue[j])
    BY DEF IssueOK
  <2>2. CASE j = i
    BY <1>1, <1>3, <2>1, <2>2 DEF IssuedAs, FiresAs, Waits, Operands
  <2> QED BY <1>1, <2>1, <2>2
<1> QED
  BY <1>2, <1>4 DEF IssueOK

\* The row that Fire makes, and what the other fields of the work are then.
FiringRow(row, t) == [row EXCEPT !.ls_conflict_end = TRUE, !.fired = TRUE, !.remaining_time = t]

LEMMA FiringRowType ==
    ASSUME NEW row \in RowType, Waits(row), NEW t \in 1 .. NotYet, NEW u \in LsUnit, NEW op
    PROVE  /\ ~Memory(op) => FiresAs(FiringRow(row, t), row, op)
           /\ FiresAs([FiringRow(row, t) EXCEPT !.fu = u], row, op)
           /\ [FiringRow(row, t) EXCEPT !.fu = u].fu = u
<1> DEFINE r == FiringRow(row, t)
           a == [r EXCEPT !.fu = u]
<1>1. t \in -1 .. NotYet /\ u \in 0 .. K2 /\ t > 0
  BY Sizes DEF NotYet, LsUnit
<1>2. /\ r \in RowType /\ r.occupied = row.occupied /\ r.fired = TRUE /\ r.seq = row.seq
      /\ r.remaining_time = t /\ Operands(r, row)
  BY <1>1 DEF RowType, FiringRow, Operands
<1> HIDE DEF r
<1>3. /\ a \in RowType /\ a.occupied = row.occupied /\ a.fired = TRUE /\ a.seq = row.seq
      /\ a.remaining_time = t /\ a.fu = u /\ Operands(a, row)
  BY <1>1, <1>2 DEF RowType, Operands
<1> HIDE DEF a
<1>4. ~Memory(op) => FiresAs(r, row, op)
  BY <1>1, <1>2 DEF FiresAs, Waits
<1>5. FiresAs(a, row, op)
  BY <1>1, <1>3 DEF FiresAs, Waits
<1> QED
  BY <1>3, <1>4, <1>5 DEF r, a

LEMMA FiringWork ==
    ASSUME NEW x \in WorkType, NEW i \in Row, NEW t
    PROVE  Fire([x EXCEPT !.rows[i].ls_conflict_end = TRUE], i, t)
             = [x EXCEPT !.rows = [x.rows EXCEPT ![i] = FiringRow(x.rows[i], t)]]
<1> DEFINE one   == [x.rows EXCEPT ![i] = [x.rows[i] EXCEPT !.ls_conflict_end = TRUE]]
           two   == [one EXCEPT ![i] = [one[i] EXCEPT !.fired = TRUE]]
           three == [two EXCEPT ![i] = [two[i] EXCEPT !.remaining_time = t]]
<1>1. x.rows \in [Row -> RowType]
  BY DEF WorkType
<1>2. [x EXCEPT !.rows[i].ls_conflict_end = TRUE] = [x EXCEPT !.rows = one]
  BY DEF WorkType
<1>3. Fire([x EXCEPT !.rows = one], i, t) = [x EXCEPT !.rows = three]
  <2> HIDE DEF one
  <2> DEFINE y == [x EXCEPT !.rows = one]
             z == [y EXCEPT !.rows = two]
  <2>1. y.rows = one /\ DOMAIN y = DOMAIN x /\ [y EXCEPT !.rows[i].fired = TRUE] = [y EXCEPT !.rows = two]
    BY DEF WorkType
  <2>2. z = [x EXCEPT !.rows = two]
    BY DEF WorkType
  <2> HIDE DEF y, two
  <2>3. z.rows = two /\ [z EXCEPT !.rows[i].remaining_time = t] = [z EXCEPT !.rows = three]
    BY <2>2 DEF WorkType
  <2>4. [z EXCEPT !.rows = three] = [x EXCEPT !.rows = three]
    BY <2>2 DEF WorkType
  <2>5. Fire(y, i, t) = [z EXCEPT !.rows[i].remaining_time = t]
    BY <2>1 DEF Fire
  <2> QED BY <2>3, <2>4, <2>5 DEF y
<1>4. three = [x.rows EXCEPT ![i] = FiringRow(x.rows[i], t)]
  BY <1>1 DEF FiringRow
<1> HIDE DEF three, one
<1> QED
  BY <1>2, <1>3, <1>4

LEMMA IssueKeeps ==
    ASSUME Inv, NEW x, IssueOK(x), NEW i \in Row
    PROVE  IssueOK(Issue(x, i))
<1> DEFINE row  == x.rows[i]
           op   == Inst(row.seq).op
           seen == [x EXCEPT !.rows[i].ls_conflict_end = TRUE]
           BothReady == row.src_reg_ready = <<TRUE, TRUE>>
           u    == FreeUnit(x)
<1>1. /\ x \in WorkType /\ x.rows \in [Row -> RowType] /\ row \in RowType
      /\ RowsOK(x.rows, dispatch_queue_head) /\ UnitsOK(x.rows, x.add, x.ls, x.ls_fu)
      /\ op = InstOf(row).op /\ x.add \in Nat /\ x.ls \in Nat /\ x.ls_fu \in [LsUnit -> UnitType]
  BY DEF IssueOK, WorkType, InstOf
<1>2. CASE ~Waits(row)
  BY <1>2 DEF Issue
<1>3. ASSUME NEW ops PROVE /\ IsFiniteSet(WorkingIn(x.rows, ops))
                           /\ Cardinality(WorkingIn(x.rows, ops)) \in Nat
                           /\ Waits(row) => i \notin WorkingIn(x.rows, ops)
  <2>1. WorkingIn(x.rows, ops) \in SUBSET Row
    BY DEF WorkingIn, FiredIn, OccupiedIn
  <2> QED BY <2>1, RowsFinite DEF WorkingIn, FiredIn, Waits
<1>4. CASE Waits(row) /\ BothReady /\ op \in {"ADD", "BR"} /\ x.add > 0
  <2> DEFINE r == FiringRow(row, 1)
             y == [x EXCEPT !.rows = [x.rows EXCEPT ![i] = r], !.add = x.add - 1]
             f == [x EXCEPT !.rows = [x.rows EXCEPT ![i] = r]]
  <2>1. Issue(x, i) = y
    <3>1. Issue(x, i) = [f EXCEPT !.add = f.add - 1]
      <4>1. Fire(seen, i, 1) = f
        BY <1>1, FiringWork
      <4> HIDE DEF f, seen
      <4> QED BY <1>4, <4>1 DEF Issue, Memory, seen
    <3> HIDE DEF r
    <3>2. [f EXCEPT !.add = f.add - 1] = y
      BY <1>1 DEF WorkType
    <3> QED BY <3>1, <3>2
  <2>2. FiresAs(r, row, InstOf(row).op)
    <3>1. 1 \in 1 .. NotYet /\ 1 \in LsUnit /\ ~Memory(InstOf(row).op)
      BY <1>1, <1>4, Sizes DEF NotYet, LsUnit, Memory
    <3> HIDE DEF row
    <3> QED BY <1>1, <1>4, <3>1, FiringRowType
  <2> HIDE DEF r
  <2>3. /\ y \in WorkType /\ y.rows = [x.rows EXCEPT ![i] = r] /\ y.add = x.add - 1 /\ y.ls = x.ls
        /\ y.ls_fu = x.ls_fu
    <3> DEFINE new == [x.rows EXCEPT ![i] = r]
    <3>1. new \in [Row -> RowType] /\ x.add - 1 \in Nat
      BY <1>1, <1>4, <2>2 DEF FiresAs
    <3> HIDE DEF new
    <3> QED BY <1>1, <3>1 DEF WorkType, new
  <2> HIDE DEF y
  <2>4. /\ WorkingIn(y.rows, {"ADD", "BR"}) = WorkingIn(x.rows, {"ADD", "BR"}) \cup {i}
        /\ WorkingIn(y.rows, Accesses) = WorkingIn(x.rows, Accesses)
        /\ \A j \in WorkingIn(x.rows, Accesses) : y.rows[j] = x.rows[j]
    <3>1. InstOf(row).op \in {"ADD", "BR"} /\ InstOf(row).op \notin Accesses
      BY <1>1, <1>4 DEF Accesses
    <3>2. \A j \in WorkingIn(x.rows, Accesses) : j \in Row /\ j # i
      BY <1>3, <1>4 DEF WorkingIn, FiredIn, OccupiedIn
    <3> QED BY <1>1, <1>4, <2>2, <2>3, <3>1, <3>2, FiredRow
  <2>5. Cardinality(WorkingIn(y.rows, {"ADD", "BR"})) = Cardinality(WorkingIn(x.rows, {"ADD", "BR"})) + 1
    BY <1>3, <1>4, <2>4, FS_AddElement
  <2>6. y.add \in Nat /\ y.add = K0 - Cardinality(WorkingIn(y.rows, {"ADD", "BR"}))
    BY <1>1, <1>3, <1>4, <2>3, <2>5, Sizes DEF UnitsOK
  <2>7. UnitsOK(y.rows, y.add, y.ls, y.ls_fu)
    BY <1>1, <2>3, <2>4, <2>6 DEF UnitsOK
  <2>8. IssueOK(y)
    BY <1>4, <2>2, <2>3, <2>7, IssueFires
  <2> QED BY <2>1, <2>8
<1>5. CASE Waits(row) /\ BothReady /\ op = "MUL" /\ x.mul > 0
  <2> DEFINE r == FiringRow(row, MulTime)
             y == [x EXCEPT !.rows = [x.rows EXCEPT ![i] = r], !.mul = x.mul - 1]
             f == [x EXCEPT !.rows = [x.rows EXCEPT ![i] = r]]
  <2>1. Issue(x, i) = y
    <3>1. Issue(x, i) = [f EXCEPT !.mul = f.mul - 1]
      <4>1. Fire(seen, i, MulTime) = f
        BY <1>1, FiringWork
      <4> HIDE DEF f, seen
      <4> QED BY <1>5, <4>1 DEF Issue, Memory, seen
    <3> HIDE DEF r
    <3>2. [f EXCEPT !.mul = f.mul - 1] = y
      BY <1>1 DEF WorkType
    <3> QED BY <3>1, <3>2
  <2>2. FiresAs(r, row, InstOf(row).op)
    <3>1. MulTime \in 1 .. NotYet /\ 1 \in LsUnit /\ ~Memory(InstOf(row).op)
      BY <1>1, <1>5, Sizes DEF NotYet, MulTime, LsUnit, Memory
    <3> HIDE DEF row
    <3> QED BY <1>1, <1>5, <3>1, FiringRowType
  <2> HIDE DEF r
  <2>3. /\ y \in WorkType /\ y.rows = [x.rows EXCEPT ![i] = r] /\ y.add = x.add /\ y.ls = x.ls
        /\ y.ls_fu = x.ls_fu
    <3> DEFINE new == [x.rows EXCEPT ![i] = r]
    <3>1. new \in [Row -> RowType] /\ x.mul - 1 \in Int
      BY <1>1, <2>2 DEF FiresAs, WorkType
    <3> HIDE DEF new
    <3> QED BY <1>1, <3>1 DEF WorkType, new
  <2> HIDE DEF y
  <2>4. /\ WorkingIn(y.rows, {"ADD", "BR"}) = WorkingIn(x.rows, {"ADD", "BR"})
        /\ WorkingIn(y.rows, Accesses) = WorkingIn(x.rows, Accesses)
        /\ \A j \in WorkingIn(x.rows, Accesses) : y.rows[j] = x.rows[j]
    <3>1. InstOf(row).op \notin {"ADD", "BR"} /\ InstOf(row).op \notin Accesses
      BY <1>1, <1>5 DEF Accesses
    <3>2. \A j \in WorkingIn(x.rows, Accesses) : j \in Row /\ j # i
      BY <1>3, <1>5 DEF WorkingIn, FiredIn, OccupiedIn
    <3>3. \A ops : WorkingIn(y.rows, ops) = IF InstOf(row).op \in ops
                                            THEN WorkingIn(x.rows, ops) \cup {i}
                                            ELSE WorkingIn(x.rows, ops)
      <4>1. /\ RowsOK(x.rows, dispatch_queue_head) /\ Waits(x.rows[i])
            /\ FiresAs(r, x.rows[i], InstOf(x.rows[i]).op) /\ y.rows = [x.rows EXCEPT ![i] = r]
        BY <1>1, <1>5, <2>2, <2>3
      <4> QED BY <4>1, FiredRow, SMTT(60)
    <3>4. \A j \in Row : j # i => y.rows[j] = x.rows[j]
      BY <1>1, <2>3
    <3> HIDE DEF row
    <3> QED BY <3>1, <3>2, <3>3, <3>4
  <2>5. UnitsOK(y.rows, y.add, y.ls, y.ls_fu)
    BY <1>1, <2>3, <2>4 DEF UnitsOK
  <2> QED BY <1>5, <2>1, <2>2, <2>3, <2>5, IssueFires
<1>6. CASE Waits(row) /\ BothReady /\ Memory(op) /\ x.ls > 0 /\ cache_opeable(seen, row.seq)
  <2> DEFINE r    == [FiringRow(row, NotYet) EXCEPT !.fu = u]
             unit == [busy |-> TRUE, load |-> op, addr |-> Inst(row.seq).addr]
             y    == [x EXCEPT !.rows = [x.rows EXCEPT ![i] = r], !.ls = x.ls - 1,
                               !.ls_fu = [x.ls_fu EXCEPT ![u] = unit]]
  <2>1. u \in LsUnit /\ ~x.ls_fu[u].busy
    BY <1>1, <1>6, UnitFound, Zenon DEF FreeUnit
  <2>2. unit \in UnitType
    <3>1. i \in OccupiedIn(x.rows)
      BY <1>6 DEF OccupiedIn, Waits
    <3>2. Inst(row.seq) \in Instruction
      BY <1>1, <3>1, OccupiedRow DEF InstOf, Inv
    <3> QED BY <3>2 DEF UnitType, Instruction
  <2>3. FiresAs(r, row, InstOf(row).op) /\ r.fu = u
    <3>1. NotYet \in 1 .. NotYet
      BY DEF NotYet
    <3> HIDE DEF row, u
    <3> QED BY <1>1, <1>6, <2>1, <3>1, FiringRowType
  <2>4. Issue(x, i) = y
    <3> DEFINE a == FiringRow(row, NotYet)
               f == [x EXCEPT !.rows = [x.rows EXCEPT ![i] = a]]
    <3>1. Issue(x, i) = [f EXCEPT !.ls = f.ls - 1, !.rows[i].fu = u, !.ls_fu[u] = unit]
      <4>1. Fire(seen, i, NotYet) = f
        BY <1>1, FiringWork
      <4> HIDE DEF f, seen
      <4> QED BY <1>6, <4>1 DEF Issue, Memory, seen
    <3>0. r = [a EXCEPT !.fu = u]
      OBVIOUS
    <3> HIDE DEF a, u, unit
    <3>2. [f EXCEPT !.ls = f.ls - 1, !.rows[i].fu = u, !.ls_fu[u] = unit] = y
      <4> DEFINE fired == [x.rows EXCEPT ![i] = a]
                 g == [x EXCEPT !.rows = fired, !.ls = x.ls - 1]
      <4>1. [f EXCEPT !.ls = f.ls - 1] = g
        BY <1>1 DEF WorkType
      <4>2. fired[i] = a /\ [fired EXCEPT ![i] = r] = [x.rows EXCEPT ![i] = r]
        BY <1>1
      <4> HIDE DEF fired
      <4>3. [g EXCEPT !.rows[i].fu = u] = [x EXCEPT !.rows = [x.rows EXCEPT ![i] = r], !.ls = x.ls - 1]
        <5>1. g.rows = fired /\ [g EXCEPT !.rows[i].fu = u] = [g EXCEPT !.rows = [fired EXCEPT ![i] = r]]
          BY <1>1, <3>0, <4>2 DEF WorkType
        <5> HIDE DEF r
        <5> QED BY <1>1, <4>2, <5>1 DEF WorkType
      <4> HIDE DEF f, g
      <4> QED BY <1>1, <4>1, <4>3 DEF WorkType
    <3> QED BY <3>1, <3>2
  <2>5. r.fu = u /\ i \in Row
    BY <2>3
  <2> HIDE DEF r, u, unit
  <2>6. /\ y \in WorkType /\ y.rows = [x.rows EXCEPT ![i] = r] /\ y.add = x.add /\ y.ls = x.ls - 1
        /\ y.ls_fu = [x.ls_fu EXCEPT ![u] = unit]
    <3> DEFINE new == [x.rows EXCEPT ![i] = r]
               fus == [x.ls_fu EXCEPT ![u] = unit]
    <3>1. new \in [Row -> RowType] /\ x.ls - 1 \in Nat /\ fus \in [LsUnit -> UnitType]
      BY <1>1, <1>6, <2>1, <2>2, <2>3 DEF FiresAs
    <3> HIDE DEF new, fus
    <3> QED BY <1>1, <3>1 DEF WorkType, new, fus
  <2> HIDE DEF y
  <2>7. /\ WorkingIn(y.rows, {"ADD", "BR"}) = WorkingIn(x.rows, {"ADD", "BR"})
        /\ WorkingIn(y.rows, Accesses) = WorkingIn(x.rows, Accesses) \cup {i}
        /\ \A j \in WorkingIn(x.rows, Accesses) : y.rows[j] = x.rows[j]
        /\ y.rows[i] = r
    <3>1. InstOf(row).op \notin {"ADD", "BR"} /\ InstOf(row).op \in Accesses
      BY <1>1, <1>6 DEF Accesses, Memory
    <3>2. \A j \in WorkingIn(x.rows, Accesses) : j \in Row /\ j # i
      BY <1>3, <1>6 DEF WorkingIn, FiredIn, OccupiedIn
    <3>3. \A ops : WorkingIn(y.rows, ops) = IF InstOf(row).op \in ops
                                            THEN WorkingIn(x.rows, ops) \cup {i}
                                            ELSE WorkingIn(x.rows, ops)
      <4>1. /\ RowsOK(x.rows, dispatch_queue_head) /\ Waits(x.rows[i])
            /\ FiresAs(r, x.rows[i], InstOf(x.rows[i]).op) /\ y.rows = [x.rows EXCEPT ![i] = r]
        BY <1>1, <1>6, <2>3, <2>6
      <4> QED BY <4>1, FiredRow, SMTT(60)
    <3>4. y.rows[i] = r /\ \A j \in Row : j # i => y.rows[j] = x.rows[j]
      BY <1>1, <2>6
    <3> QED BY <3>1, <3>2, <3>3, <3>4
  <2>8. Cardinality(WorkingIn(y.rows, Accesses)) = Cardinality(WorkingIn(x.rows, Accesses)) + 1
    BY <1>3, <1>6, <2>7, FS_AddElement
  <2>9. y.ls \in Nat /\ y.ls = K2 - Cardinality(WorkingIn(y.rows, Accesses))
    BY <1>1, <1>3, <1>6, <2>6, <2>8, Sizes DEF UnitsOK
  <2>10. \A j \in WorkingIn(x.rows, Accesses) : x.rows[j].fu \in LsUnit => x.rows[j].fu # u
    BY <1>1, <2>1 DEF UnitsOK
  <2>11. \A j \in WorkingIn(x.rows, Accesses) : x.rows[j].fu # u
    BY <2>1, <2>10
  <2>12. \A v \in LsUnit : y.ls_fu[v].busy <=> \E j \in WorkingIn(y.rows, Accesses) : y.rows[j].fu = v
    <3> SUFFICES ASSUME NEW v \in LsUnit
                 PROVE  y.ls_fu[v].busy <=> \E j \in WorkingIn(y.rows, Accesses) : y.rows[j].fu = v
      OBVIOUS
    <3>1. CASE v = u
      <4>1. y.ls_fu[v].busy
        BY <1>1, <2>1, <2>6, <3>1 DEF unit
      <4> QED BY <2>5, <2>7, <3>1, <4>1
    <3>2. CASE v # u
      <4>1. y.ls_fu[v] = x.ls_fu[v]
        BY <1>1, <2>6, <3>2
      <4> QED BY <1>1, <2>5, <2>7, <3>2, <4>1 DEF UnitsOK
    <3> QED BY <3>1, <3>2
  <2>13. \A j, k \in WorkingIn(y.rows, Accesses) : y.rows[j].fu = y.rows[k].fu => j = k
    BY <1>1, <2>5, <2>7, <2>11 DEF UnitsOK
  <2>14. UnitsOK(y.rows, y.add, y.ls, y.ls_fu)
    <3>1. y.ls_fu \in [LsUnit -> UnitType]
      BY <2>6 DEF WorkType
    <3> QED BY <1>1, <2>6, <2>7, <2>9, <2>12, <2>13, <3>1 DEF UnitsOK
  <2>15. /\ Waits(x.rows[i]) /\ x.rows[i].src_reg_ready = <<TRUE, TRUE>>
         /\ FiresAs(r, x.rows[i], InstOf(x.rows[i]).op) /\ y \in WorkType
         /\ y.rows = [x.rows EXCEPT ![i] = r]
    BY <1>6, <2>3, <2>6
  <2>16. IssueOK(y)
    BY <2>14, <2>15, IssueFires
  <2> QED BY <2>4, <2>16
<1>7. CASE /\ Waits(row)
           /\ \/ ~BothReady
              \/ /\ ~(op \in {"ADD", "BR"} /\ x.add > 0) /\ ~(op = "MUL" /\ x.mul > 0)
                 /\ ~(Memory(op) /\ x.ls > 0 /\ cache_opeable(seen, row.seq))
  <2>1. Issue(x, i) = seen
    BY <1>7 DEF Issue
  <2> QED BY <1>7, <2>1, IssueMarks
<1> QED
  BY <1>2, <1>4, <1>5, <1>6, <1>7

LEMMA ScheduledOK == ASSUME Inv PROVE IssueOK(Scheduled)
<1> DEFINE w == [rows |-> schedule_queue, add |-> add_unit, mul |-> 1, ls |-> ls_unit,
                 ls_fu |-> ls_functional_unit]
           W == {x \in WorkType : IssueOK(x)}
           I == [m \in 0 .. schedule_queue_size |-> W]
<1>1. w \in W
  <2>1. w \in WorkType
    BY DEF Inv, QueueInv, UnitsInv, RowsOK, UnitsOK, WorkType
  <2>2. \A i \in Row : IssuedAs(schedule_queue[i], schedule_queue[i])
    BY DEF IssuedAs, Waits, Operands
  <2> QED BY <2>1, <2>2 DEF Inv, QueueInv, UnitsInv, IssueOK
<1>2. ASSUME NEW m \in Row, NEW x \in W PROVE Issue(x, m) \in W
  <2>1. IssueOK(Issue(x, m))
    BY IssueKeeps
  <2> QED BY <2>1 DEF IssueOK
<1> HIDE DEF W, w
<1>3. I[0] = W /\ I[schedule_queue_size] = W /\ \A m \in Row : I[m - 1] = W /\ I[m] = W
  BY Queue
<1> HIDE DEF I
<1>4. EachRow(Issue, w) \in I[schedule_queue_size]
  BY <1>1, <1>2, <1>3, IssueLoop
<1> QED
  BY <1>3, <1>4 DEF Scheduled, W, w

LEMMA ScheduleStep == ASSUME Inv, ScheduleInstr PROVE Inv'
<1> DEFINE new == Scheduled.rows
<1>0. /\ TypeInv /\ QueueInv /\ UnitsInv /\ ClockInv /\ TimesInv
      /\ step = "schedule_instr" /\ step' = "dispatch_instr"
  BY DEF Inv, ScheduleInstr, At
<1>1. /\ IssueOK(Scheduled) /\ schedule_queue' = new /\ ls_functional_unit' = Scheduled.ls_fu
      /\ add_unit' = Scheduled.add /\ ls_unit' = Scheduled.ls
  BY ScheduledOK DEF ScheduleInstr
<1>2. /\ RowsOK(new, dispatch_queue_head) /\ UnitsOK(new, add_unit', ls_unit', ls_functional_unit')
      /\ \A i \in Row : IssuedAs(new[i], schedule_queue[i])
  BY <1>1 DEF IssueOK
<1> HIDE DEF new
<1>3. OccupiedIn(new) = Occupied
  BY <1>2 DEF OccupiedIn, Occupied, IssuedAs
<1>4. /\ QueueInv' /\ Occupied' = Occupied /\ Fired' = FiredIn(new) /\ UnitsInv'
  BY <1>0, <1>1, <1>2, <1>3, RowsStep DEF ScheduleInstr, QueueInv
<1>5. \A i \in Occupied : /\ i \in Row /\ schedule_queue[i].occupied
                          /\ new[i].seq = schedule_queue[i].seq
                          /\ i \in Fired <=> schedule_queue[i].fired
                          /\ i \in FiredIn(new) <=> new[i].fired
                          /\ i \in Fired => new[i].fired /\ new[i].remaining_time
                                                             = schedule_queue[i].remaining_time
                          /\ i \notin Fired => Waits(schedule_queue[i])
                          /\ i \notin Fired /\ new[i].fired => new[i].remaining_time > 0
  BY <1>2, <1>3 DEF Occupied, Fired, FiredIn, OccupiedIn, IssuedAs, Waits
<1>6. ClockInv'
  <2>1. finished_fu' = finished_fu /\ finished_fu \subseteq Fired
    BY <1>0 DEF ScheduleInstr, ClockInv
  <2>2. \A i \in Fired : schedule_queue[i].remaining_time = -1 <=> i \in finished_fu
    BY <1>0 DEF ClockInv, BetweenCycles
  <2>3. Fired \subseteq Occupied /\ FiredIn(new) \subseteq Occupied
    BY <1>3 DEF Fired, FiredIn
  <2>4. finished_fu \subseteq FiredIn(new)
    BY <1>5, <2>1, <2>3
  <2>5. ASSUME NEW i \in FiredIn(new) PROVE new[i].remaining_time = -1 <=> i \in finished_fu
    <3>1. CASE i \in Fired
      BY <1>5, <2>2, <2>3, <3>1
    <3>2. CASE i \notin Fired
      <4>1. new[i].remaining_time > 0
        BY <1>5, <2>3, <3>2
      <4> QED BY <2>1, <3>2, <4>1
    <3> QED BY <3>1, <3>2
  <2> QED BY <1>0, <1>1, <1>4, <2>1, <2>4, <2>5 DEF ClockInv, BetweenCycles
<1>7. TypeInv'
  <2>1. UNCHANGED <<trace, cycle, continue_fetch, dispatch_queue_tail, predicted_br, branch_started,
                    dispatch_queue_head, temp_iterator, instr_tag, register_file, branch_table, ghr,
                    l1_cache>>
    BY DEF ScheduleInstr, fetching, tags, branches
  <2>2. step' \in Steps
    BY <1>0 DEF Steps
  <2>3. /\ continue_fetch' \in BOOLEAN /\ branch_started' \in BOOLEAN
        /\ register_file' \in [Reg -> RegType(instr_tag')]
    BY <1>0, <2>1 DEF TypeInv
  <2> QED BY <1>0, <2>1, <2>2, <2>3, TypeStep DEF TypeInv
<1>8. TimesInv'
  <2> DEFINE S == {s \in Tag : /\ Len(times[s]) = 2
                               /\ \E i \in Row : Waits(schedule_queue[i]) /\ schedule_queue[i].seq = s}
  <2>1. \A i \in Occupied : schedule_queue[i].seq \in Tag /\ schedule_queue[i].seq < dispatch_queue_head
    BY <1>0, OccupiedRow, RowSet DEF QueueInv
  <2>2. \A i, j \in Occupied : schedule_queue[i].seq = schedule_queue[j].seq => i = j
    BY <1>0, RowSet DEF QueueInv, RowsOK
  <2>3. \A i \in Row : Waits(schedule_queue[i]) <=> i \in Occupied /\ i \notin Fired
    BY DEF Waits, Occupied, Fired
  <2>4. /\ (times \in [Tag -> Seq(0 .. cycle)])' /\ (\A s \in Tag : InOrder(times[s]))'
        /\ (result \in Seq({s \in Tag : Len(times[s]) = 5}))'
        /\ (\A s \in Tag :
               /\ s >= dispatch_queue_tail => Len(times[s]) = 0
               /\ s >= temp_iterator /\ s < dispatch_queue_tail => Len(times[s]) = 1
               /\ s >= dispatch_queue_head /\ s < temp_iterator => Len(times[s]) = 2)'
        /\ \A s \in Tag : Len(times'[s]) = IF s \in S THEN 3 ELSE Len(times[s])
    <3>1. times' = [s \in DOMAIN times |-> IF s \in S THEN Append(times[s], cycle) ELSE times[s]]
      <4>1. DOMAIN times = Tag
        BY <1>0 DEF TimesInv
      <4> QED BY <4>1 DEF ScheduleInstr
    <3>2. Late[step] = 3 + 1 /\ Late[step'] = 3 /\ UNCHANGED <<trace, cycle>>
      BY <1>0, LateOf DEF ScheduleInstr
    <3>3. /\ \A s \in Tag : s \in S => Len(times[s]) = 3 - 1
          /\ \A s \in Tag : s \in S => s < dispatch_queue_head
      BY <2>1, <2>3
    <3>4. UNCHANGED <<dispatch_queue_head, temp_iterator, dispatch_queue_tail, result>>
      BY DEF ScheduleInstr, fetching
    <3>5. 3 \in 1 .. 4
      OBVIOUS
    <3> HIDE DEF S
    <3> QED BY <1>0, <3>1, <3>2, <3>3, <3>4, <3>5, StampRows, ZenonT(60)
  <2>5. ASSUME NEW i \in Occupied
        PROVE  LET row == schedule_queue'[i]
                   n   == Len(times'[row.seq])
               IN  IF i \in finished_fu' THEN n = 5
                   ELSE IF row.fired THEN n = 4 \/ (n = 3 /\ row.remaining_time > 0)
                   ELSE n \in {2, 3}
    <3> DEFINE seq == schedule_queue[i].seq
    <3>1. finished_fu' = finished_fu /\ (i \in finished_fu => i \in Fired)
      BY <1>0 DEF ScheduleInstr, ClockInv
    <3>2. seq \in S <=> Len(times[seq]) = 2 /\ i \notin Fired
      BY <1>5, <2>1, <2>2, <2>3
    <3>3. schedule_queue'[i].seq = seq /\ Len(times'[seq]) = IF seq \in S THEN 3 ELSE Len(times[seq])
      BY <1>1, <1>5, <2>1, <2>4
    <3>4. IF i \in finished_fu THEN Len(times[seq]) = 5
          ELSE IF schedule_queue[i].fired
          THEN Len(times[seq]) = 4 \/ (Len(times[seq]) = 3 /\ schedule_queue[i].remaining_time > 0)
          ELSE Len(times[seq]) \in {2, 3}
      BY <1>0 DEF TimesInv
    <3> HIDE DEF S
    <3>5. CASE i \in finished_fu
      <4>1. seq \notin S
        BY <3>1, <3>2, <3>5
      <4>2. Len(times'[seq]) = 5
        BY <3>3, <3>4, <3>5, <4>1
      <4> QED BY <3>1, <3>3, <3>5, <4>2
    <3>6. CASE i \notin finished_fu /\ i \in Fired
      <4>1. seq \notin S
        BY <3>2, <3>6
      <4> QED BY <1>1, <1>5, <3>1, <3>3, <3>4, <3>6, <4>1
    <3>7. CASE i \notin finished_fu /\ i \notin Fired
      <4>1. Len(times'[seq]) = 3
        BY <1>5, <3>2, <3>3, <3>4, <3>7
      <4> QED BY <1>1, <1>5, <3>1, <3>3, <3>7, <4>1
    <3> QED BY <3>5, <3>6, <3>7
  <2> QED BY <1>4, <2>4, <2>5 DEF TimesInv
<1> QED
  BY <1>4, <1>6, <1>7, <1>8 DEF Inv

-----------------------------------------------------------------------------
(* dispatch_instr. *)

FillType == [rows : [Row -> RowType], head : Nat, tag : Nat, count : Nat,
             regs : [Reg -> [tag : Nat, ready : BOOLEAN]], stalled : BOOLEAN]

\* The rows that were occupied stay as they are, and no instruction that moves to a
\* row has fired.
FillOK(x) ==
    /\ x \in FillType /\ RowsOK(x.rows, x.head) /\ x.count = Cardinality(OccupiedIn(x.rows))
    /\ dispatch_queue_head <= x.head /\ x.head <= dispatch_queue_tail
    /\ x.regs \in [Reg -> RegType(x.tag)]
    /\ \A i \in Row : IF schedule_queue[i].occupied THEN x.rows[i] = schedule_queue[i]
                      ELSE x.rows[i].occupied => ~x.rows[i].fired
                                                 /\ x.rows[i].seq >= dispatch_queue_head

LEMMA SkipNopsRange ==
    ASSUME NEW head \in Nat, dispatch_queue_tail \in Nat, head <= dispatch_queue_tail
    PROVE  SkipNops(head) \in head .. dispatch_queue_tail
<1> DEFINE T == {k \in head .. dispatch_queue_tail : k = dispatch_queue_tail \/ Inst(k).op # "NOP"}
<1>1. T \in SUBSET Nat /\ dispatch_queue_tail \in T
  OBVIOUS
<1> HIDE DEF T
<1>2. Min(T) \in T
  BY <1>1, LeastOf
<1> QED
  BY <1>2 DEF SkipNops, T

LEMMA NewRowType ==
    ASSUME TypeInv, NEW x, FillOK(x), NEW s \in Tag
    PROVE  /\ NewRow(s, x) \in RowType /\ NewRow(s, x).occupied /\ ~NewRow(s, x).fired
           /\ NewRow(s, x).seq = s
<1> DEFINE ready(k) == Inst(s).src[k] = -1 \/ x.regs[Inst(s).src[k]].ready
           tag(k)   == IF ready(k) THEN 0 ELSE x.regs[Inst(s).src[k]].tag
           a == [k \in 1 .. 2 |-> ready(k)]
           b == [k \in 1 .. 2 |-> tag(k)]
<1>1. Inst(s) \in Instruction /\ x.regs \in [Reg -> [tag : Nat, ready : BOOLEAN]] /\ x.tag \in Nat
  BY TraceType DEF TypeInv, FillOK, FillType
<1>2. \A k \in 1 .. 2 : Inst(s).src[k] \in Reg \cup {-1}
  BY <1>1 DEF Instruction
<1>3. a \in [1 .. 2 -> BOOLEAN]
  OBVIOUS
<1>4. b \in [1 .. 2 -> Nat]
  BY <1>1, <1>2
<1> HIDE DEF a, b
<1>5. s \in Nat
  BY TraceType DEF TypeInv
<1>6. NewRow(s, x) = [EmptyRow EXCEPT !.occupied = TRUE, !.seq = s, !.dest_reg_tag = x.tag,
                                      !.src_reg_ready = a, !.src_reg_tag = b]
  BY DEF NewRow, a, b
<1>7. EmptyRow \in RowType /\ ~EmptyRow.fired
  BY EmptyRowType
<1> QED
  BY <1>1, <1>3, <1>4, <1>5, <1>6, <1>7 DEF RowType

LEMMA FillKeeps ==
    ASSUME Inv, NEW x, FillOK(x), NEW i \in Row
    PROVE  FillOK(Fill(x, i))
<1> DEFINE s == SkipNops(x.head)
<1>1. /\ x \in FillType /\ x.head \in Nat /\ x.tag \in Nat /\ x.count \in Nat
      /\ x.rows \in [Row -> RowType] /\ RowsOK(x.rows, x.head)
      /\ dispatch_queue_head \in Nat /\ dispatch_queue_tail \in Nat
      /\ dispatch_queue_head <= x.head /\ x.head <= dispatch_queue_tail
  BY DEF FillOK, FillType, Inv, TypeInv
<1>2. s \in x.head .. dispatch_queue_tail
  BY <1>1, SkipNopsRange
<1> HIDE DEF s
<1>3. CASE x.stalled \/ x.rows[i].occupied \/ x.head = dispatch_queue_tail
  BY <1>3 DEF Fill
<1>4. CASE /\ ~(x.stalled \/ x.rows[i].occupied \/ x.head = dispatch_queue_tail)
           /\ s = dispatch_queue_tail
  <2> DEFINE y == [x EXCEPT !.head = s]
  <2>1. Fill(x, i) = y
    BY <1>4 DEF Fill, s
  <2>2. /\ y \in FillType /\ y.head = s /\ y.rows = x.rows /\ y.count = x.count /\ y.tag = x.tag
        /\ y.regs = x.regs
    BY <1>1, <1>2 DEF FillType
  <2>3. RowsOK(x.rows, s)
    BY <1>1, <1>2 DEF RowsOK, OccupiedIn, RowType
  <2> HIDE DEF y
  <2> QED BY <1>1, <1>2, <2>1, <2>2, <2>3 DEF FillOK
<1>5. CASE /\ ~(x.stalled \/ x.rows[i].occupied \/ x.head = dispatch_queue_tail)
           /\ s # dispatch_queue_tail
  <2> DEFINE r    == NewRow(s, x)
             new  == [x.rows EXCEPT ![i] = r]
             regs == IF Inst(s).dest = -1 THEN x.regs
                     ELSE [x.regs EXCEPT ![Inst(s).dest] = [tag |-> x.tag, ready |-> FALSE]]
             y    == [x EXCEPT !.head = s + 1, !.tag = x.tag + 1, !.count = x.count + 1, !.rows = new,
                               !.regs = regs, !.stalled = Mispredicted(s)]
  <2>1. Fill(x, i) = y
    <3> HIDE DEF r, regs
    <3>1. Fill(x, i) = [x EXCEPT !.head = s + 1, !.tag = x.tag + 1, !.count = x.count + 1,
                                 !.rows[i] = r, !.regs = regs, !.stalled = Mispredicted(s)]
      BY <1>5 DEF Fill, s, r, regs
    <3> QED BY <1>1, <3>1 DEF FillType
  <2>2. s \in Nat /\ s < dispatch_queue_tail /\ s >= x.head /\ s \in Tag
    BY <1>1, <1>2, <1>5, TraceType DEF Inv, TypeInv, Tag
  <2>3. r \in RowType /\ r.occupied /\ ~r.fired /\ r.seq = s
    BY <2>2, NewRowType DEF Inv
  <2>4. new \in [Row -> RowType] /\ new[i] = r /\ \A j \in Row : j # i => new[j] = x.rows[j]
    BY <1>1, <2>3
  <2>5. regs \in [Reg -> RegType(x.tag + 1)] /\ regs \in [Reg -> [tag : Nat, ready : BOOLEAN]]
    <3>1. x.regs \in [Reg -> RegType(x.tag)]
      BY DEF FillOK
    <3> DEFINE new_reg == [tag |-> x.tag, ready |-> FALSE]
    <3>2. new_reg \in RegType(x.tag + 1) /\ \A q \in RegType(x.tag) : q \in RegType(x.tag + 1)
      BY <1>1 DEF RegType
    <3>3. \A q \in RegType(x.tag + 1) : q \in [tag : Nat, ready : BOOLEAN]
      BY <1>1 DEF RegType
    <3> HIDE DEF new_reg
    <3>4. regs = IF Inst(s).dest = -1 THEN x.regs ELSE [x.regs EXCEPT ![Inst(s).dest] = new_reg]
      BY DEF new_reg
    <3> HIDE DEF regs
    <3>5. regs \in [Reg -> RegType(x.tag + 1)]
      BY <3>1, <3>2, <3>4
    <3> QED BY <3>3, <3>5
  <2>6. Mispredicted(s) \in BOOLEAN
    BY DEF Mispredicted
  <2> HIDE DEF r, new, regs
  <2>7. /\ y \in FillType /\ y.head = s + 1 /\ y.tag = x.tag + 1 /\ y.count = x.count + 1
        /\ y.rows = new /\ y.regs = regs
    <3> DEFINE z == [x EXCEPT !.head = s + 1, !.tag = x.tag + 1, !.count = x.count + 1]
               v == [z EXCEPT !.rows = new, !.regs = regs, !.stalled = Mispredicted(s)]
    <3>1. s + 1 \in Nat /\ x.tag + 1 \in Nat /\ x.count + 1 \in Nat
      BY <1>1, <2>2
    <3>2. z \in FillType /\ z.head = s + 1 /\ z.tag = x.tag + 1 /\ z.count = x.count + 1
      BY <1>1, <3>1 DEF FillType
    <3>3. y = v
      OBVIOUS
    <3> HIDE DEF y, z
    <3>4. /\ v \in FillType /\ v.head = z.head /\ v.tag = z.tag /\ v.count = z.count
          /\ v.rows = new /\ v.regs = regs
      BY <2>4, <2>5, <2>6, <3>2 DEF FillType
    <3> QED BY <3>2, <3>3, <3>4
  <2> HIDE DEF y
  <2>8. i \notin OccupiedIn(x.rows) /\ OccupiedIn(new) = OccupiedIn(x.rows) \cup {i}
    BY <1>5, <2>3, <2>4 DEF OccupiedIn
  <2>9. Cardinality(OccupiedIn(new)) = x.count + 1
    <3>1. OccupiedIn(x.rows) \in SUBSET Row
      BY DEF OccupiedIn
    <3> QED BY <2>8, <3>1, RowsFinite, FS_AddElement DEF FillOK
  <2>10. \A j \in OccupiedIn(x.rows) : j \in Row /\ j # i /\ x.rows[j].seq < s /\ x.rows[j].seq \in Nat
    BY <1>1, <2>2, <2>8 DEF RowsOK, OccupiedIn, RowType
  <2>11. RowsOK(new, s + 1)
    <3>1. \A j \in Row : new[j].seq \in 0 .. s + 1
      BY <1>1, <2>2, <2>3, <2>4 DEF RowsOK
    <3>2. \A j \in OccupiedIn(new) : new[j].seq < s + 1
      BY <2>2, <2>3, <2>4, <2>8, <2>10
    <3>3. \A j, k \in OccupiedIn(new) : new[j].seq = new[k].seq => j = k
      BY <1>1, <2>2, <2>3, <2>4, <2>8, <2>10 DEF RowsOK
    <3>4. \A j \in FiredIn(new) : j \in FiredIn(x.rows) /\ new[j] = x.rows[j]
      BY <2>3, <2>4, <2>8, <2>10 DEF FiredIn
    <3>5. \A j \in FiredIn(new) : Memory(InstOf(new[j]).op) => new[j].fu \in LsUnit
      BY <1>1, <3>4 DEF RowsOK
    <3> QED BY <2>4, <3>1, <3>2, <3>3, <3>5 DEF RowsOK
  <2>12. \A j \in Row : IF schedule_queue[j].occupied THEN new[j] = schedule_queue[j]
                        ELSE new[j].occupied => ~new[j].fired /\ new[j].seq >= dispatch_queue_head
    BY <1>1, <1>5, <2>2, <2>3, <2>4 DEF FillOK
  <2> QED BY <1>1, <2>1, <2>2, <2>5, <2>7, <2>9, <2>11, <2>12 DEF FillOK
<1> QED
  BY <1>3, <1>4, <1>5

LEMMA DispatchedOK == ASSUME Inv PROVE FillOK(Dispatched)
<1> DEFINE w == [rows |-> schedule_queue, head |-> dispatch_queue_head, tag |-> instr_tag,
                 count |-> inst_cnt_sq, regs |-> register_file, stalled |-> branch_started]
           W == {x \in FillType : FillOK(x)}
           I == [m \in 0 .. schedule_queue_size |-> W]
<1>1. w \in W
  <2>1. Cardinality(Occupied) \in Nat
    BY RowsFinite DEF Occupied
  <2>2. register_file \in [Reg -> [tag : Nat, ready : BOOLEAN]]
    BY DEF Inv, TypeInv, RegType
  <2>3. w \in FillType
    BY <2>1, <2>2 DEF Inv, QueueInv, TypeInv, RowsOK, FillType
  <2>4. dispatch_queue_head <= dispatch_queue_tail
    BY DEF Inv, TypeInv
  <2>5. /\ RowsOK(schedule_queue, dispatch_queue_head)
        /\ inst_cnt_sq = Cardinality(OccupiedIn(schedule_queue))
        /\ register_file \in [Reg -> RegType(instr_tag)] /\ dispatch_queue_head <= dispatch_queue_head
    BY RowSet DEF Inv, QueueInv, TypeInv
  <2> QED BY <2>3, <2>4, <2>5 DEF FillOK
<1>2. ASSUME NEW m \in Row, NEW x \in W PROVE Fill(x, m) \in W
  <2>1. FillOK(Fill(x, m))
    BY FillKeeps
  <2> QED BY <2>1 DEF FillOK
<1> HIDE DEF W, w
<1>3. I[0] = W /\ I[schedule_queue_size] = W /\ \A m \in Row : I[m - 1] = W /\ I[m] = W
  BY Queue
<1> HIDE DEF I
<1>4. EachRow(Fill, w) \in I[schedule_queue_size]
  BY <1>1, <1>2, <1>3, FillLoop
<1> QED
  BY <1>3, <1>4 DEF Dispatched, W, w

LEMMA DispatchStep == ASSUME Inv, DispatchInstr PROVE Inv'
<1> DEFINE new  == Dispatched.rows
           head == Dispatched.head
<1>0. /\ TypeInv /\ QueueInv /\ UnitsInv /\ ClockInv /\ TimesInv
      /\ step = "dispatch_instr" /\ step' = "fetch_instr"
  BY DEF Inv, DispatchInstr, At
<1>1. /\ FillOK(Dispatched) /\ schedule_queue' = new /\ dispatch_queue_head' = head
      /\ inst_cnt_sq' = Dispatched.count /\ instr_tag' = Dispatched.tag
      /\ register_file' = Dispatched.regs /\ branch_started' = Dispatched.stalled
  BY <1>0, DispatchedOK DEF DispatchInstr
<1>2. /\ RowsOK(new, head) /\ inst_cnt_sq' = Cardinality(OccupiedIn(new)) /\ head \in Nat
      /\ dispatch_queue_head <= head /\ head <= dispatch_queue_tail
      /\ \A i \in Row : IF schedule_queue[i].occupied THEN new[i] = schedule_queue[i]
                        ELSE new[i].occupied => ~new[i].fired /\ new[i].seq >= dispatch_queue_head
  BY <1>1 DEF FillOK, FillType
<1> HIDE DEF new, head
<1>3. /\ QueueInv' /\ Occupied' = OccupiedIn(new) /\ Fired' = FiredIn(new)
      /\ UnitsOK(new, add_unit', ls_unit', ls_functional_unit') => UnitsInv'
  BY <1>1, <1>2, RowsStep DEF DispatchInstr
<1>4. FiredIn(new) = Fired /\ \A i \in Fired : i \in Row /\ new[i] = schedule_queue[i]
  BY <1>2 DEF FiredIn, OccupiedIn, Fired, Occupied
<1>5. UnitsInv'
  <2>1. \A ops : WorkingIn(new, ops) = WorkingIn(schedule_queue, ops)
    BY <1>4, RowSet DEF WorkingIn
  <2>2. \A i \in WorkingIn(schedule_queue, Accesses) : new[i].fu = schedule_queue[i].fu
    BY <1>4, RowSet DEF WorkingIn
  <2>3. UnitsOK(new, add_unit, ls_unit, ls_functional_unit)
    BY <1>0, <2>1, <2>2, SameUnits DEF UnitsInv
  <2> QED BY <1>3, <2>3 DEF DispatchInstr, units
<1>6. ClockInv'
  <2>1. finished_fu' = finished_fu
    BY DEF DispatchInstr
  <2> QED BY <1>0, <1>1, <1>3, <1>4, <2>1 DEF ClockInv, BetweenCycles
<1>7. TypeInv'
  <2>1. UNCHANGED <<trace, cycle, continue_fetch, dispatch_queue_tail, predicted_br, branch_table, ghr,
                    l1_cache>> /\ temp_iterator' = dispatch_queue_tail
    BY DEF DispatchInstr, fetching, branches
  <2>2. step' \in Steps
    BY <1>0 DEF Steps
  <2>3. /\ continue_fetch' \in BOOLEAN /\ branch_started' \in BOOLEAN /\ instr_tag' \in Nat
        /\ register_file' \in [Reg -> RegType(instr_tag')]
    BY <1>0, <1>1, <2>1 DEF TypeInv, FillOK, FillType
  <2>4. dispatch_queue_tail \in Nat /\ dispatch_queue_tail <= dispatch_queue_tail
    BY <1>0 DEF TypeInv
  <2> QED BY <1>0, <1>1, <1>2, <2>1, <2>2, <2>3, <2>4, TypeStep DEF TypeInv
<1>8. TimesInv'
  <2> DEFINE S == Unstamped
  <2>1. /\ dispatch_queue_head \in Nat /\ temp_iterator \in Nat /\ dispatch_queue_tail \in Nat
        /\ dispatch_queue_head <= temp_iterator /\ temp_iterator <= dispatch_queue_tail
        /\ S = temp_iterator .. dispatch_queue_tail - 1 /\ \A s \in Tag : s \in Nat
    BY <1>0, TraceType DEF TypeInv, Unstamped
  <2>2. /\ (times \in [Tag -> Seq(0 .. cycle)])' /\ (\A s \in Tag : InOrder(times[s]))'
        /\ \A s \in Tag : Len(times'[s]) = IF s \in S THEN 2 ELSE Len(times[s])
    <3>1. times' = [s \in DOMAIN times |-> IF s \in S THEN Append(times[s], cycle) ELSE times[s]]
      BY DEF DispatchInstr
    <3>2. Late[step] = 2 + 1 /\ Late[step'] = 2 /\ UNCHANGED <<trace, cycle>>
      BY <1>0, LateOf DEF DispatchInstr
    <3>3. \A s \in Tag : s \in S => Len(times[s]) = 2 - 1
      BY <1>0, <2>1 DEF TimesInv
    <3>4. 2 \in 1 .. 5
      OBVIOUS
    <3> HIDE DEF S
    <3> QED BY <1>0, <3>1, <3>2, <3>3, <3>4, Stamp, Zenon
  <2>3. Tag' = Tag /\ dispatch_queue_tail' = dispatch_queue_tail /\ temp_iterator' = dispatch_queue_tail
    BY DEF Tag, DispatchInstr, fetching
  <2>4. \A s \in Tag : s >= dispatch_queue_head /\ s < dispatch_queue_tail => Len(times'[s]) = 2
    <3> SUFFICES ASSUME NEW s \in Tag, s >= dispatch_queue_head, s < dispatch_queue_tail
                 PROVE  Len(times'[s]) = 2
      OBVIOUS
    <3>1. s \in Nat /\ (s \in S <=> s >= temp_iterator)
      BY <2>1
    <3>2. s < temp_iterator => Len(times[s]) = 2
      BY <1>0 DEF TimesInv
    <3>3. s \notin S => s < temp_iterator
      BY <2>1, <3>1
    <3> HIDE DEF S
    <3>4. CASE s \in S
      BY <2>2, <3>4
    <3>5. CASE s \notin S
      <4>1. Len(times[s]) = 2
        BY <3>2, <3>3, <3>5
      <4> QED BY <2>2, <3>5, <4>1
    <3> QED BY <3>4, <3>5
  <2>5. (\A s \in Tag : /\ s >= dispatch_queue_tail => Len(times[s]) = 0
                        /\ s >= temp_iterator /\ s < dispatch_queue_tail => Len(times[s]) = 1
                        /\ s >= dispatch_queue_head /\ s < temp_iterator => Len(times[s]) = 2)'
    <3>1. \A s \in Tag : s >= dispatch_queue_tail => Len(times'[s]) = 0
      BY <1>0, <2>1, <2>2 DEF TimesInv
    <3>2. \A s \in Tag : s >= head => s >= dispatch_queue_head
      BY <1>2, <2>1
    <3> QED BY <1>1, <2>1, <2>3, <2>4, <3>1, <3>2
  <2>6. ASSUME NEW i \in OccupiedIn(new)
        PROVE  LET row == schedule_queue'[i]
                   n   == Len(times'[row.seq])
               IN  IF i \in finished_fu' THEN n = 5
                   ELSE IF row.fired THEN n = 4 \/ (n = 3 /\ row.remaining_time > 0)
                   ELSE n \in {2, 3}
    <3>1. finished_fu' = finished_fu /\ finished_fu \subseteq Fired
      BY <1>0 DEF DispatchInstr, ClockInv
    <3>2. i \in Row /\ new[i].occupied /\ new[i].seq < head
      BY <1>2 DEF OccupiedIn, RowsOK
    <3>3. CASE schedule_queue[i].occupied
      <4>1. i \in Occupied /\ new[i] = schedule_queue[i]
        BY <1>2, <3>2, <3>3 DEF Occupied
      <4>2. new[i].seq \in Tag /\ new[i].seq < dispatch_queue_head
        BY <1>0, <4>1, OccupiedRow, RowSet DEF QueueInv
      <4>3. Len(times'[new[i].seq]) = Len(times[new[i].seq])
        BY <2>1, <2>2, <4>2
      <4> QED BY <1>0, <1>1, <3>1, <4>1, <4>3 DEF TimesInv
    <3>4. CASE ~schedule_queue[i].occupied
      <4>1. ~new[i].fired /\ new[i].seq >= dispatch_queue_head
        BY <1>2, <3>2, <3>4
      <4>2. i \notin finished_fu
        BY <3>1, <3>4 DEF Fired, Occupied
      <4>3. new[i].seq \in Tag /\ new[i].seq < dispatch_queue_tail
        <5>1. new[i].seq \in Nat
          BY <1>2, <3>2 DEF RowsOK, RowType
        <5> QED BY <1>0, <1>2, <2>1, <3>2, <5>1, TraceType DEF Tag, TypeInv
      <4>4. Len(times'[new[i].seq]) = 2
        BY <2>4, <4>1, <4>3
      <4> QED BY <1>1, <3>1, <4>1, <4>2, <4>4
    <3> QED BY <3>3, <3>4
  <2>7. (result \in Seq({s \in Tag : Len(times[s]) = 5}))'
    <3>1. {s \in Tag : Len(times[s]) = 5} \subseteq {s \in Tag : Len(times'[s]) = 5}
      <4>1. \A s \in Tag : Len(times[s]) = 5 => s \notin S
        <5>1. \A s \in Tag : s >= temp_iterator /\ s < dispatch_queue_tail => Len(times[s]) = 1
          BY <1>0 DEF TimesInv
        <5>2. \A s \in Tag : s \in S => s >= temp_iterator /\ s < dispatch_queue_tail
          BY <2>1
        <5> HIDE DEF S
        <5> QED BY <5>1, <5>2
      <4> HIDE DEF S
      <4> QED BY <2>2, <4>1
    <3>2. result \in Seq({s \in Tag : Len(times[s]) = 5}) /\ result' = result
      BY <1>0 DEF TimesInv, DispatchInstr
    <3>3. result \in Seq({s \in Tag : Len(times'[s]) = 5})
      BY <3>1, <3>2, SeqMonotone
    <3> QED BY <2>3, <3>2, <3>3
  <2> QED BY <1>3, <2>2, <2>5, <2>6, <2>7 DEF TimesInv
<1> QED
  BY <1>3, <1>5, <1>6, <1>7, <1>8 DEF Inv

-----------------------------------------------------------------------------
(* fetch_instr. *)

LEMMA FetchStep == ASSUME Inv, FetchInstr PROVE Inv'
<1> DEFINE next == IF continue_fetch THEN Min({dispatch_queue_tail + fetch_count, Len(trace)})
                   ELSE dispatch_queue_tail
           S    == dispatch_queue_tail .. next - 1
<1>0. /\ TypeInv /\ QueueInv /\ UnitsInv /\ ClockInv /\ TimesInv
      /\ step = "fetch_instr" /\ step' = "update_state_2"
      /\ dispatch_queue_tail \in Nat /\ dispatch_queue_tail <= Len(trace) /\ Len(trace) \in Nat
      /\ dispatch_queue_head \in Nat /\ temp_iterator \in Nat
      /\ dispatch_queue_head <= temp_iterator /\ temp_iterator <= dispatch_queue_tail
  BY TraceType DEF Inv, FetchInstr, At, TypeInv
<1>1. next \in dispatch_queue_tail .. Len(trace)
  <2>1. dispatch_queue_tail + fetch_count \in Int /\ dispatch_queue_tail + fetch_count >= dispatch_queue_tail
    BY <1>0, Sizes
  <2>2. Min({dispatch_queue_tail + fetch_count, Len(trace)})
          = IF dispatch_queue_tail + fetch_count <= Len(trace) THEN dispatch_queue_tail + fetch_count
            ELSE Len(trace)
    BY <1>0, <2>1, MinOfTwo
  <2> QED BY <1>0, <2>1, <2>2
<1>2. /\ dispatch_queue_tail' = next
      /\ times' = [s \in DOMAIN times |-> IF s \in S THEN <<cycle>> ELSE times[s]]
      /\ predicted_br' = [s \in DOMAIN predicted_br |->
             IF s \in S /\ Inst(s).op = "BR" THEN branch_table[Entry(ghr, s)] >= 2 ELSE predicted_br[s]]
  BY DEF FetchInstr
<1> HIDE DEF next
<1>3. /\ Occupied' = Occupied /\ Fired' = Fired /\ QueueInv' /\ UnitsInv'
  <2>1. UNCHANGED <<trace, schedule_queue, inst_cnt_sq, dispatch_queue_head, add_unit, ls_unit,
                    ls_functional_unit>>
    BY DEF FetchInstr, queue, units
  <2>2. /\ RowsOK(schedule_queue, dispatch_queue_head)
        /\ inst_cnt_sq' = Cardinality(OccupiedIn(schedule_queue))
        /\ UnitsOK(schedule_queue, add_unit, ls_unit, ls_functional_unit)
    BY <1>0, <2>1, RowSet DEF QueueInv, UnitsInv
  <2> QED BY <2>1, <2>2, RowsStep, RowSet
<1>4. ClockInv'
  <2>1. UNCHANGED <<schedule_queue, finished_fu>>
    BY DEF FetchInstr, queue
  <2> QED BY <1>0, <1>3, <2>1 DEF ClockInv, BetweenCycles
<1>5. TypeInv'
  <2>1. UNCHANGED <<trace, cycle, dispatch_queue_head, temp_iterator, branch_started, instr_tag,
                    register_file, branch_table, ghr, l1_cache>>
    BY DEF FetchInstr, tags, branches
  <2>2. step' \in Steps /\ continue_fetch' \in BOOLEAN
    BY <1>0 DEF Steps, FetchInstr
  <2>3. /\ branch_started' \in BOOLEAN /\ register_file' \in [Reg -> RegType(instr_tag')]
    BY <1>0, <2>1 DEF TypeInv
  <2>4. predicted_br' \in [Tag -> BOOLEAN]
    <3> DEFINE taken(s) == branch_table[Entry(ghr, s)] >= 2
    <3>1. predicted_br \in [Tag -> BOOLEAN] /\ \A s : taken(s) \in BOOLEAN
      BY <1>0 DEF TypeInv
    <3>2. predicted_br' = [s \in Tag |-> IF s \in S /\ Inst(s).op = "BR" THEN taken(s)
                                        ELSE predicted_br[s]]
      BY <1>2, <3>1
    <3> HIDE DEF taken, S
    <3> QED BY <3>1, <3>2
  <2>5. dispatch_queue_tail' \in Nat /\ temp_iterator' <= dispatch_queue_tail'
        /\ dispatch_queue_tail' <= Len(trace)
    BY <1>0, <1>1, <1>2, <2>1
  <2> QED BY <1>0, <2>1, <2>2, <2>3, <2>4, <2>5, TypeStep DEF TypeInv
<1>6. TimesInv'
  <2>1. /\ \A s \in Tag : s \in Nat
        /\ \A s \in Tag : s \in S <=> s >= dispatch_queue_tail /\ s < next
        /\ \A s \in Tag : s >= dispatch_queue_tail => Len(times[s]) = 0
        /\ next \in Nat /\ next >= dispatch_queue_tail
    BY <1>0, <1>1, TraceType DEF TypeInv, TimesInv
  <2> HIDE DEF S
  <2>2. /\ (times \in [Tag -> Seq(0 .. cycle)])' /\ (\A s \in Tag : InOrder(times[s]))'
        /\ \A s \in Tag : Len(times'[s]) = IF s \in S THEN 1 ELSE Len(times[s])
    <3>1. times' = [s \in DOMAIN times |-> IF s \in S THEN Append(times[s], cycle) ELSE times[s]]
      <4>1. DOMAIN times = Tag
        BY <1>0 DEF TimesInv
      <4>2. \A s \in Tag : s \in S => Append(times[s], cycle) = <<cycle>>
        <5> SUFFICES ASSUME NEW s \in Tag, s \in S PROVE Append(times[s], cycle) = <<cycle>>
          OBVIOUS
        <5>1. times[s] \in Seq(0 .. cycle) /\ Len(times[s]) = 0
          BY <1>0, <2>1 DEF TimesInv
        <5>2. times[s] = <<>>
          BY <5>1
        <5> QED BY <5>2
      <4> QED BY <1>2, <4>1, <4>2
    <3>2. Late[step] = 1 + 1 /\ Late[step'] = 1 /\ UNCHANGED <<trace, cycle>>
      BY <1>0, LateOf DEF FetchInstr
    <3>3. \A s \in Tag : s \in S => Len(times[s]) = 1 - 1
      BY <2>1
    <3>4. 1 \in 1 .. 5
      OBVIOUS
    <3> QED BY <1>0, <3>1, <3>2, <3>3, <3>4, Stamp, Zenon
  <2>3. Tag' = Tag /\ UNCHANGED <<dispatch_queue_head, temp_iterator, schedule_queue, finished_fu, result>>
    BY DEF Tag, FetchInstr, queue
  <2>4. (\A s \in Tag : /\ s >= dispatch_queue_tail => Len(times[s]) = 0
                        /\ s >= temp_iterator /\ s < dispatch_queue_tail => Len(times[s]) = 1
                        /\ s >= dispatch_queue_head /\ s < temp_iterator => Len(times[s]) = 2)'
    <3> SUFFICES ASSUME NEW s \in Tag
                 PROVE  /\ s >= next => Len(times'[s]) = 0
                        /\ s >= temp_iterator /\ s < next => Len(times'[s]) = 1
                        /\ s >= dispatch_queue_head /\ s < temp_iterator => Len(times'[s]) = 2
      BY <1>2, <2>3
    <3>1. /\ s >= temp_iterator /\ s < dispatch_queue_tail => Len(times[s]) = 1
          /\ s >= dispatch_queue_head /\ s < temp_iterator => Len(times[s]) = 2
      BY <1>0 DEF TimesInv
    <3>2. Len(times'[s]) = IF s \in S THEN 1 ELSE Len(times[s])
      BY <2>2
    <3>3. s \in Nat /\ (s \in S <=> s >= dispatch_queue_tail /\ s < next)
      BY <2>1
    <3> QED BY <1>0, <2>1, <3>1, <3>2, <3>3
  <2>5. \A i \in Occupied : /\ schedule_queue[i].seq \in Tag
                            /\ Len(times'[schedule_queue[i].seq]) = Len(times[schedule_queue[i].seq])
    <3> SUFFICES ASSUME NEW i \in Occupied
                 PROVE  /\ schedule_queue[i].seq \in Tag
                        /\ Len(times'[schedule_queue[i].seq]) = Len(times[schedule_queue[i].seq])
      OBVIOUS
    <3>1. schedule_queue[i].seq \in Tag /\ schedule_queue[i].seq < dispatch_queue_head
      BY <1>0, OccupiedRow, RowSet DEF QueueInv
    <3>2. schedule_queue[i].seq \notin S
      BY <1>0, <2>1, <3>1
    <3> QED BY <2>2, <3>1, <3>2
  <2>6. (\A i \in Occupied :
          LET row == schedule_queue[i]
              n   == Len(times[row.seq])
          IN  IF i \in finished_fu THEN n = 5
              ELSE IF row.fired THEN n = 4 \/ (n = 3 /\ row.remaining_time > 0)
              ELSE n \in {2, 3})'
    BY <1>0, <1>3, <2>3, <2>5 DEF TimesInv
  <2>7. (result \in Seq({s \in Tag : Len(times[s]) = 5}))'
    <3>1. \A s \in Tag : Len(times[s]) = 5 => Len(times'[s]) = 5
      BY <1>0, <2>1, <2>2
    <3>2. {s \in Tag : Len(times[s]) = 5} \subseteq {s \in Tag : Len(times'[s]) = 5}
      BY <3>1
    <3>3. result \in Seq({s \in Tag : Len(times[s]) = 5})
      BY <1>0 DEF TimesInv
    <3>4. result \in Seq({s \in Tag : Len(times'[s]) = 5})
      BY <3>2, <3>3, SeqMonotone
    <3> QED BY <2>3, <3>4
  <2> QED BY <2>2, <2>4, <2>6, <2>7 DEF TimesInv
<1> QED
  BY <1>3, <1>4, <1>5, <1>6 DEF Inv

-----------------------------------------------------------------------------
(* update_state_2: the sort is a permutation, whatever the comparison says. *)

LEMMA Permutation ==
    ASSUME NEW small \in SUBSET (Row \X Row)
    PROVE  qsort(small) \in Bijection(Row, Row)
<1>1. qsort(small) \in Surjection(Row, Row)
  BY SortAssumption DEF Rearranges, Surjection
<1>2. IsFiniteSet(Row)
  BY RowsFinite
<1>3. qsort(small) \in Injection(Row, Row)
  BY <1>1, <1>2, FS_Surjection
<1> QED
  BY <1>1, <1>3 DEF Bijection

LEMMA PermutedSet ==
    ASSUME NEW order \in Bijection(Row, Row), NEW S \in SUBSET Row
    PROVE  Cardinality({i \in Row : order[i] \in S}) = Cardinality(S)
<1> DEFINE T == {i \in Row : order[i] \in S}
           f == [i \in T |-> order[i]]
<1>1. /\ order \in [Row -> Row] /\ \A j \in Row : \E i \in Row : order[i] = j
      /\ \A i, j \in Row : order[i] = order[j] => i = j
  BY DEF Bijection, Injection, Surjection, IsInjective
<1>2. f \in [T -> S]
  OBVIOUS
<1>3. f \in Bijection(T, S)
  BY <1>1, <1>2 DEF Bijection, Injection, Surjection, IsInjective
<1>4. IsFiniteSet(T)
  BY RowsFinite
<1> HIDE DEF f, T
<1>5. ExistsBijection(T, S)
  BY <1>3 DEF ExistsBijection
<1>6. Cardinality(S) = Cardinality(T)
  BY <1>4, <1>5, FS_Bijection
<1> QED
  BY <1>6 DEF T

LEMMA PermutedRows ==
    ASSUME NEW rows, NEW new, NEW head, RowsOK(rows, head), NEW order \in Bijection(Row, Row),
           new = [i \in Row |-> rows[order[i]]]
    PROVE  /\ RowsOK(new, head)
           /\ \A i \in Row : order[i] \in Row /\ new[i] = rows[order[i]]
           /\ OccupiedIn(new) = {i \in Row : order[i] \in OccupiedIn(rows)}
           /\ FiredIn(new) = {i \in Row : order[i] \in FiredIn(rows)}
           /\ \A ops : WorkingIn(new, ops) = {i \in Row : order[i] \in WorkingIn(rows, ops)}
           /\ Cardinality(OccupiedIn(new)) = Cardinality(OccupiedIn(rows))
           /\ \A add, ls, ls_fu : UnitsOK(rows, add, ls, ls_fu) => UnitsOK(new, add, ls, ls_fu)
<1>1. /\ order \in [Row -> Row] /\ \A j \in Row : \E i \in Row : order[i] = j
      /\ \A i, j \in Row : order[i] = order[j] => i = j
  BY DEF Bijection, Injection, Surjection, IsInjective
<1>2. \A i \in Row : order[i] \in Row /\ new[i] = rows[order[i]]
  BY <1>1
<1>3. OccupiedIn(new) = {i \in Row : order[i] \in OccupiedIn(rows)}
  BY <1>2 DEF OccupiedIn
<1>4. FiredIn(new) = {i \in Row : order[i] \in FiredIn(rows)}
  BY <1>2, <1>3 DEF FiredIn
<1>5. \A ops : WorkingIn(new, ops) = {i \in Row : order[i] \in WorkingIn(rows, ops)}
  BY <1>2, <1>4 DEF WorkingIn
<1>6. \A ops : WorkingIn(rows, ops) \in SUBSET Row
  BY DEF WorkingIn, FiredIn, OccupiedIn
<1>7. RowsOK(new, head)
  <2>1. new \in [Row -> RowType] /\ \A i \in Row : new[i].seq \in 0 .. head
    BY <1>2 DEF RowsOK
  <2>2. \A i \in OccupiedIn(new) : new[i].seq < head
    BY <1>2, <1>3 DEF RowsOK
  <2>3. \A i, j \in OccupiedIn(new) : new[i].seq = new[j].seq => i = j
    BY <1>1, <1>2, <1>3 DEF RowsOK
  <2>4. \A i \in FiredIn(new) : Memory(InstOf(new[i]).op) => new[i].fu \in LsUnit
    BY <1>2, <1>4 DEF RowsOK
  <2> QED BY <2>1, <2>2, <2>3, <2>4 DEF RowsOK
<1>8. Cardinality(OccupiedIn(new)) = Cardinality(OccupiedIn(rows))
  <2>1. OccupiedIn(rows) \in SUBSET Row
    BY DEF OccupiedIn
  <2> QED BY <1>3, <2>1, PermutedSet
<1>9. ASSUME NEW add, NEW ls, NEW ls_fu, UnitsOK(rows, add, ls, ls_fu) PROVE UnitsOK(new, add, ls, ls_fu)
  <2> DEFINE V == WorkingIn(rows, Accesses)
             W == WorkingIn(new, Accesses)
  <2>1. \A ops : Cardinality(WorkingIn(new, ops)) = Cardinality(WorkingIn(rows, ops))
    BY <1>5, <1>6, PermutedSet
  <2>2. W = {i \in Row : order[i] \in V} /\ V \subseteq Row
    BY <1>5, <1>6
  <2>3. /\ \A u \in LsUnit : ls_fu[u].busy <=> \E i \in V : rows[i].fu = u
        /\ \A i, j \in V : rows[i].fu = rows[j].fu => i = j
    BY <1>9 DEF UnitsOK
  <2> HIDE DEF V, W
  <2>4. \A u : (\E i \in V : rows[i].fu = u) <=> (\E i \in W : new[i].fu = u)
    BY <1>1, <1>2, <2>2
  <2>5. \A i, j \in W : new[i].fu = new[j].fu => i = j
    BY <1>1, <1>2, <2>2, <2>3
  <2> QED BY <1>9, <2>1, <2>3, <2>4, <2>5 DEF UnitsOK, W
<1> QED
  BY <1>2, <1>3, <1>4, <1>5, <1>7, <1>8, <1>9

\* The finished rows become free, and nothing else changes before the sort.
LEMMA FreedRows ==
    ASSUME Inv, step = "update_state_2", NEW rows,
           rows = [i \in Row |-> IF i \in finished_fu THEN Free(i) ELSE schedule_queue[i]]
    PROVE  /\ RowsOK(rows, dispatch_queue_head)
           /\ OccupiedIn(rows) = Occupied \ finished_fu /\ FiredIn(rows) = Fired \ finished_fu
           /\ \A i \in OccupiedIn(rows) : i \in Row /\ i \notin finished_fu /\ rows[i] = schedule_queue[i]
           /\ \A i \in FiredIn(rows) : rows[i].remaining_time >= 0
           /\ Cardinality(OccupiedIn(rows)) = inst_cnt_sq - Cardinality(finished_fu)
           /\ UnitsOK(rows, add_unit, ls_unit, ls_functional_unit)
<1>1. /\ RowsOK(schedule_queue, dispatch_queue_head) /\ schedule_queue \in [Row -> RowType]
      /\ inst_cnt_sq = Cardinality(Occupied) /\ finished_fu \subseteq Fired
      /\ Fired \subseteq Occupied /\ Occupied \subseteq Row
  BY DEF Inv, QueueInv, RowsOK, ClockInv, Fired, Occupied
<1>2. \A i \in Row : /\ Free(i) \in RowType /\ ~Free(i).occupied
                     /\ Free(i).seq = schedule_queue[i].seq
  <2> SUFFICES ASSUME NEW i \in Row
               PROVE  /\ Free(i) \in RowType /\ ~Free(i).occupied
                      /\ Free(i).seq = schedule_queue[i].seq
    OBVIOUS
  <2>1. schedule_queue[i].seq \in Nat
    BY <1>1 DEF RowType
  <2>2. EmptyRow \in RowType /\ ~EmptyRow.occupied
    BY EmptyRowType
  <2> QED BY <2>1, <2>2 DEF Free, RowType
<1>3. /\ rows \in [Row -> RowType] /\ \A i \in Row : rows[i].seq = schedule_queue[i].seq
      /\ \A i \in Row : i \notin finished_fu => rows[i] = schedule_queue[i]
      /\ \A i \in Row : i \in finished_fu => ~rows[i].occupied
  BY <1>1, <1>2
<1>4. OccupiedIn(rows) = Occupied \ finished_fu
  BY <1>3 DEF OccupiedIn, Occupied
<1>5. \A i \in OccupiedIn(rows) : i \in Row /\ i \notin finished_fu /\ rows[i] = schedule_queue[i]
  BY <1>1, <1>3, <1>4
<1>6. FiredIn(rows) = Fired \ finished_fu
  BY <1>4, <1>5 DEF FiredIn, Fired
<1>7. \A i \in Fired : /\ i \in Row /\ schedule_queue[i].remaining_time \in -1 .. NotYet
                       /\ (schedule_queue[i].remaining_time = -1 <=> i \in finished_fu)
  BY <1>1 DEF Inv, ClockInv, BetweenCycles, RowType
<1>8. \A i \in FiredIn(rows) : rows[i].remaining_time >= 0
  <2> SUFFICES ASSUME NEW i \in FiredIn(rows) PROVE rows[i].remaining_time >= 0
    OBVIOUS
  <2>1. i \in Fired /\ i \notin finished_fu
    BY <1>6
  <2>2. rows[i] = schedule_queue[i]
    BY <1>1, <1>3, <2>1
  <2>3. /\ schedule_queue[i].remaining_time \in -1 .. NotYet
        /\ schedule_queue[i].remaining_time # -1
    BY <1>7, <2>1
  <2> QED BY <2>2, <2>3 DEF NotYet
<1>9. RowsOK(rows, dispatch_queue_head)
  <2>1. \A i \in Row : rows[i].seq \in 0 .. dispatch_queue_head
    BY <1>1, <1>3 DEF RowsOK
  <2>2. \A i \in OccupiedIn(rows) : i \in OccupiedIn(schedule_queue)
    BY <1>4, RowSet
  <2>3. \A i \in FiredIn(rows) : i \in FiredIn(schedule_queue) /\ rows[i] = schedule_queue[i]
    BY <1>1, <1>3, <1>6, RowSet
  <2>4. \A i \in OccupiedIn(rows) : rows[i].seq < dispatch_queue_head
    BY <1>1, <1>5, <2>2 DEF RowsOK
  <2>5. \A i, j \in OccupiedIn(rows) : rows[i].seq = rows[j].seq => i = j
    BY <1>1, <1>5, <2>2 DEF RowsOK
  <2>6. \A i \in FiredIn(rows) : Memory(InstOf(rows[i]).op) => rows[i].fu \in LsUnit
    BY <1>1, <2>3 DEF RowsOK
  <2> QED BY <1>3, <2>1, <2>4, <2>5, <2>6 DEF RowsOK
<1>10. Cardinality(OccupiedIn(rows)) = inst_cnt_sq - Cardinality(finished_fu)
  <2>1. Occupied \cap finished_fu = finished_fu /\ IsFiniteSet(Occupied)
    BY <1>1, RowsFinite
  <2>2. Cardinality(Occupied \ finished_fu) = Cardinality(Occupied) - Cardinality(Occupied \cap finished_fu)
    BY <2>1, FS_Difference
  <2> QED BY <1>1, <1>4, <2>1, <2>2
<1>11. UnitsOK(rows, add_unit, ls_unit, ls_functional_unit)
  <2>1. \A i \in FiredIn(rows) : rows[i] = schedule_queue[i]
    BY <1>1, <1>3, <1>6
  <2>2. \A i \in Fired : schedule_queue[i].remaining_time > 0 => i \in FiredIn(rows)
    BY <1>6, <1>7
  <2>3. \A ops : WorkingIn(rows, ops) = WorkingIn(schedule_queue, ops)
    BY <1>6, <2>1, <2>2, RowSet DEF WorkingIn
  <2>4. \A i \in WorkingIn(schedule_queue, Accesses) : rows[i].fu = schedule_queue[i].fu
    BY <2>1, <2>3 DEF WorkingIn
  <2> QED BY <2>3, <2>4, SameUnits DEF Inv, UnitsInv
<1> QED
  BY <1>4, <1>5, <1>6, <1>8, <1>9, <1>10, <1>11

LEMMA SortStep == ASSUME Inv, UpdateState2 PROVE Inv'
<1> DEFINE rows  == [i \in Row |-> IF i \in finished_fu THEN Free(i) ELSE schedule_queue[i]]
           small == {p \in Row \X Row : compare_sq(rows[p[1]], rows[p[2]]) <= 0}
           order == qsort(small)
           new   == [i \in Row |-> rows[order[i]]]
<1>0. /\ TypeInv /\ QueueInv /\ UnitsInv /\ ClockInv /\ TimesInv
      /\ step = "update_state_2" /\ step' \in {"update_state", "done"}
      /\ finished_fu' = {} /\ cycle' = cycle + 1 /\ cycle \in Nat
  BY DEF Inv, UpdateState2, TypeInv
<1>1. schedule_queue' = new /\ inst_cnt_sq' = inst_cnt_sq - Cardinality(finished_fu)
  BY DEF UpdateState2, Sorted
<1>2. order \in Bijection(Row, Row)
  <2>1. small \in SUBSET (Row \X Row)
    OBVIOUS
  <2> HIDE DEF small
  <2> QED BY <2>1, Permutation
<1>3. /\ RowsOK(rows, dispatch_queue_head)
      /\ OccupiedIn(rows) = Occupied \ finished_fu /\ FiredIn(rows) = Fired \ finished_fu
      /\ \A i \in OccupiedIn(rows) : i \in Row /\ i \notin finished_fu /\ rows[i] = schedule_queue[i]
      /\ \A i \in FiredIn(rows) : rows[i].remaining_time >= 0
      /\ Cardinality(OccupiedIn(rows)) = inst_cnt_sq - Cardinality(finished_fu)
      /\ UnitsOK(rows, add_unit, ls_unit, ls_functional_unit)
  BY <1>0, FreedRows, Zenon
<1> HIDE DEF rows, order
<1>a. new = [i \in Row |-> rows[order[i]]]
  OBVIOUS
<1> HIDE DEF new
<1>4. /\ RowsOK(new, dispatch_queue_head)
      /\ \A i \in Row : order[i] \in Row /\ new[i] = rows[order[i]]
      /\ OccupiedIn(new) = {i \in Row : order[i] \in OccupiedIn(rows)}
      /\ FiredIn(new) = {i \in Row : order[i] \in FiredIn(rows)}
      /\ Cardinality(OccupiedIn(new)) = Cardinality(OccupiedIn(rows))
      /\ UnitsOK(new, add_unit, ls_unit, ls_functional_unit)
  <2>1. /\ RowsOK(new, dispatch_queue_head)
        /\ \A i \in Row : order[i] \in Row /\ new[i] = rows[order[i]]
        /\ OccupiedIn(new) = {i \in Row : order[i] \in OccupiedIn(rows)}
        /\ FiredIn(new) = {i \in Row : order[i] \in FiredIn(rows)}
        /\ \A ops : WorkingIn(new, ops) = {i \in Row : order[i] \in WorkingIn(rows, ops)}
        /\ Cardinality(OccupiedIn(new)) = Cardinality(OccupiedIn(rows))
        /\ \A add, ls, ls_fu : UnitsOK(rows, add, ls, ls_fu) => UnitsOK(new, add, ls, ls_fu)
    <3>1. RowsOK(rows, dispatch_queue_head)
      BY <1>3
    <3> QED BY <1>2, <1>a, <3>1, PermutedRows
  <2> QED BY <1>3, <2>1
<1>5. UNCHANGED <<trace, continue_fetch, dispatch_queue_tail, predicted_br, dispatch_queue_head,
                  temp_iterator, times, instr_tag, register_file, add_unit, ls_unit, ls_functional_unit,
                  branch_started, branch_table, ghr, l1_cache, result>>
  BY DEF UpdateState2, fetching, tags, units, branches
<1>6. QueueInv' /\ UnitsInv' /\ Occupied' = OccupiedIn(new) /\ Fired' = FiredIn(new)
  BY <1>1, <1>3, <1>4, <1>5, RowsStep
<1>7. ClockInv'
  BY <1>0, <1>1, <1>3, <1>4, <1>6 DEF ClockInv, BetweenCycles
<1>8. TypeInv'
  <2>1. step' \in Steps /\ cycle' \in Nat
    BY <1>0 DEF Steps
  <2>2. /\ continue_fetch' \in BOOLEAN /\ branch_started' \in BOOLEAN
        /\ register_file' \in [Reg -> RegType(instr_tag')] /\ predicted_br' \in [Tag -> BOOLEAN]
    BY <1>0, <1>5 DEF TypeInv
  <2> QED BY <1>0, <1>5, <2>1, <2>2, TypeStep DEF TypeInv
<1>9. TimesInv'
  <2>1. Tag' = Tag /\ Late[step]' = 6
    BY <1>0, <1>5, LateOf DEF Tag, Late, Steps
  <2>2. times \in [Tag -> Seq(0 .. cycle)] /\ \A s \in Tag : InOrder(times[s])
    BY <1>0 DEF TimesInv
  <2>3. \A s \in Tag : times[s] \in Seq(0 .. cycle + 1)
    <3>1. 0 .. cycle \subseteq 0 .. cycle + 1
      BY <1>0
    <3>2. \A q \in Seq(0 .. cycle) : q \in Seq(0 .. cycle + 1)
      BY <3>1, SeqMonotone
    <3> QED BY <2>2, <3>2
  <2>4. (times \in [Tag -> Seq(0 .. cycle)])'
    BY <1>0, <1>5, <2>1, <2>2, <2>3
  <2>5. (\A s \in Tag : InOrder(times[s]))'
    <3> SUFFICES ASSUME NEW s \in Tag PROVE InOrder(times[s])'
      BY <2>1
    <3>1. InOrder(times[s]) /\ times[s] \in Seq(0 .. cycle) /\ times'[s] = times[s]
      BY <1>5, <2>2
    <3>2. Len(times[s]) > 0 => times[s][Len(times[s])] < cycle'
      <4> DEFINE t == times[s]
      <4>1. t \in Seq(0 .. cycle)
        BY <3>1
      <4> HIDE DEF t
      <4>2. Len(t) \in Nat
        BY <4>1
      <4>3. Len(t) > 0 => t[Len(t)] \in 0 .. cycle
        <5> SUFFICES ASSUME Len(t) > 0 PROVE t[Len(t)] \in 0 .. cycle
          OBVIOUS
        <5>1. Len(t) \in 1 .. Len(t)
          BY <4>2
        <5> QED BY <4>1, <5>1, ElementOfSeq
      <4> QED BY <1>0, <4>2, <4>3 DEF t
    <3> QED BY <3>1, <3>2 DEF InOrder
  <2>6. (\A s \in Tag : /\ s >= dispatch_queue_tail => Len(times[s]) = 0
                        /\ s >= temp_iterator /\ s < dispatch_queue_tail => Len(times[s]) = 1
                        /\ s >= dispatch_queue_head /\ s < temp_iterator => Len(times[s]) = 2)'
    BY <1>0, <1>5, <2>1 DEF TimesInv
  <2>7. ASSUME NEW i \in OccupiedIn(new)
        PROVE  LET row == schedule_queue'[i]
                   n   == Len(times'[row.seq])
               IN  IF i \in finished_fu' THEN n = 5
                   ELSE IF row.fired THEN n = 4 \/ (n = 3 /\ row.remaining_time > 0)
                   ELSE n \in {2, 3}
    <3>1. /\ order[i] \in Occupied /\ order[i] \notin finished_fu
          /\ new[i] = schedule_queue[order[i]]
      BY <1>3, <1>4
    <3> QED BY <1>0, <1>1, <1>5, <3>1 DEF TimesInv
  <2>8. (result \in Seq({s \in Tag : Len(times[s]) = 5}))'
    BY <1>0, <1>5, <2>1 DEF TimesInv
  <2> QED BY <1>6, <2>4, <2>5, <2>6, <2>7, <2>8 DEF TimesInv
<1> QED
  BY <1>6, <1>7, <1>8, <1>9 DEF Inv

-----------------------------------------------------------------------------
(* The theorems. *)

LEMMA StutterStep == ASSUME Inv, UNCHANGED vars PROVE Inv'
<1>1. UNCHANGED <<trace, step, cycle, continue_fetch, dispatch_queue_tail, predicted_br,
                  dispatch_queue_head, temp_iterator, times, schedule_queue, inst_cnt_sq,
                  finished_fu, instr_tag, register_file, add_unit, ls_unit, ls_functional_unit,
                  branch_started, branch_table, ghr, l1_cache, result>>
  BY DEF vars, fetching, queue, tags, units, branches
<1>2. TypeInv'
  BY <1>1 DEF Inv, TypeInv, Tag
<1>3. QueueInv' /\ UnitsInv' /\ Occupied' = OccupiedIn(schedule_queue)
      /\ Fired' = FiredIn(schedule_queue)
  <2>1. /\ RowsOK(schedule_queue, dispatch_queue_head)
        /\ inst_cnt_sq = Cardinality(OccupiedIn(schedule_queue))
        /\ UnitsOK(schedule_queue, add_unit, ls_unit, ls_functional_unit)
    BY RowSet DEF Inv, QueueInv, UnitsInv
  <2> QED BY <1>1, <2>1, RowsStep
<1>4. Occupied' = Occupied /\ Fired' = Fired
  BY <1>3, RowSet
<1>5. ClockInv'
  BY <1>1, <1>4 DEF Inv, ClockInv, BetweenCycles
<1>6. TimesInv'
  <2>1. Tag' = Tag
    BY <1>1 DEF Tag
  <2>2. \A t : InOrder(t)' <=> InOrder(t)
    BY <1>1 DEF InOrder
  <2> QED BY <1>1, <1>4, <2>1, <2>2 DEF Inv, TimesInv, InOrder
<1> QED
  BY <1>2, <1>3, <1>5, <1>6 DEF Inv

LEMMA NextInv == ASSUME Inv, [Next]_vars PROVE Inv'
<1>1. CASE UpdateState
  BY <1>1, UpdateStep
<1>2. CASE ExecuteInstr
  BY <1>2, ExecuteStep
<1>3. CASE ScheduleInstr
  BY <1>3, ScheduleStep
<1>4. CASE DispatchInstr
  BY <1>4, DispatchStep
<1>5. CASE FetchInstr
  BY <1>5, FetchStep
<1>6. CASE UpdateState2
  BY <1>6, SortStep
<1>7. CASE Done \/ UNCHANGED vars
  BY <1>7, StutterStep DEF Done
<1> QED
  BY <1>1, <1>2, <1>3, <1>4, <1>5, <1>6, <1>7 DEF Next

LEMMA Invariant == Spec => []Inv
<1> QED
  BY InitInv, NextInv, PTL DEF Spec

\* procsim.c: the rows name instructions that were dispatched and units that exist, the
\* counters of the units and of the branch table stay in their ranges, the three ends of the
\* dispatch queue in their order, and inst_cnt_sq counts the rows, whatever order the sort
\* leaves them in.
THEOREM TypeCorrectness == Spec => []TypeOK
<1>1. ASSUME Inv PROVE TypeOK
  <2>0. TypeInv /\ QueueInv /\ UnitsInv /\ ClockInv /\ TimesInv
    BY <1>1 DEF Inv
  <2>1. /\ step \in Steps /\ cycle \in Nat /\ continue_fetch \in BOOLEAN
        /\ 0 <= dispatch_queue_head /\ dispatch_queue_head <= dispatch_queue_tail
        /\ temp_iterator <= dispatch_queue_tail /\ dispatch_queue_tail <= Len(trace)
        /\ predicted_br \in [Tag -> BOOLEAN]
        /\ branch_table \in [Entries -> 0 .. 3] /\ ghr \in Entries
    BY <2>0 DEF TypeInv
  <2>2. \A s \in Tag : times[s] \in Seq(0 .. cycle) /\ Len(times[s]) <= 5
    BY <2>0 DEF TimesInv, InOrder
  <2>3. schedule_queue \in [Row -> RowType] /\ Len(schedule_queue) = schedule_queue_size
    BY <2>0, Queue DEF QueueInv, RowsOK
  <2>4. \A i \in Row :
            /\ schedule_queue[i].seq \in 0 .. dispatch_queue_head
            /\ schedule_queue[i].remaining_time \in -1 .. NotYet /\ schedule_queue[i].fu \in 0 .. K2
            /\ schedule_queue[i].occupied /\ schedule_queue[i].fired
               /\ Memory(InstOf(schedule_queue[i]).op) => schedule_queue[i].fu \in LsUnit
    BY <2>0, <2>3 DEF QueueInv, RowsOK, RowType, FiredIn, OccupiedIn
  <2>5. inst_cnt_sq = Cardinality(Occupied) /\ finished_fu \subseteq Occupied
    BY <2>0 DEF QueueInv, ClockInv, Fired
  <2>6. register_file \in [Reg -> [tag : 0 .. instr_tag, ready : BOOLEAN]]
    BY <2>0 DEF TypeInv, RegType
  <2>7. add_unit \in 0 .. K0 /\ ls_unit \in 0 .. K2
    <3>1. \A ops : Cardinality(WorkingIn(schedule_queue, ops)) \in Nat
      BY RowsFinite DEF WorkingIn, FiredIn, OccupiedIn
    <3>2. /\ add_unit \in Nat /\ add_unit = K0 - Cardinality(WorkingIn(schedule_queue, {"ADD", "BR"}))
          /\ ls_unit \in Nat /\ ls_unit = K2 - Cardinality(WorkingIn(schedule_queue, Accesses))
      BY <2>0 DEF UnitsInv, UnitsOK
    <3>3. /\ Cardinality(WorkingIn(schedule_queue, {"ADD", "BR"})) \in Nat
          /\ Cardinality(WorkingIn(schedule_queue, Accesses)) \in Nat
      BY <3>1
    <3> QED BY <3>2, <3>3, Sizes
  <2>8. result \in Seq(Tag)
    <3>1. {s \in Tag : Len(times[s]) = 5} \subseteq Tag
      OBVIOUS
    <3> QED BY <2>0, <3>1, SeqMonotone DEF TimesInv
  <2> QED BY <2>1, <2>2, <2>3, <2>4, <2>5, <2>6, <2>7, <2>8 DEF TypeOK
<1> QED
  BY <1>1, Invariant, PTL

\* schedule_instr, execute_instr: a unit is taken when an instruction fires and given back once,
\* when its last cycle ends, although the row keeps it until the end of the next cycle.
THEOREM UnitsConservedTheorem == Spec => []UnitsConserved
<1>1. ASSUME Inv PROVE UnitsConserved
  BY <1>1, RowSet DEF Inv, UnitsInv, UnitsOK, Accesses, UnitsConserved
<1> QED
  BY <1>1, Invariant, PTL

\* complete_proc: the five times of an instruction are of different cycles, in the order of the
\* stages, and an instruction that retires has all five.
THEOREM StagesInOrderTheorem == Spec => []StagesInOrder
<1>1. ASSUME Inv PROVE StagesInOrder
  <2>1. \A s \in Tag : \A k \in 1 .. Len(times[s]) - 1 : times[s][k] < times[s][k + 1]
    BY <1>1 DEF Inv, TimesInv, InOrder
  <2>2. \A s \in ToSet(result) : Len(times[s]) = 5
    <3> DEFINE five == {s \in Tag : Len(times[s]) = 5}
    <3>1. result \in Seq(five)
      BY <1>1 DEF Inv, TimesInv
    <3> HIDE DEF five
    <3>2. \A k \in DOMAIN result : result[k] \in five
      BY <3>1
    <3>3. ToSet(result) \subseteq five
      BY <3>2 DEF ToSet
    <3> QED BY <3>3 DEF five
  <2> QED BY <2>1, <2>2 DEF StagesInOrder
<1> QED
  BY <1>1, Invariant, PTL
==============================================================================
