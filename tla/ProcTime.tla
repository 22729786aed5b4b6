------------------------------- MODULE ProcTime ------------------------------
(***************************************************************************)
(* ProcSim stops in time, whatever order the sort gives the rows.          *)
(*                                                                         *)
(* The proof is an account.  Every instruction earns the cycles that it    *)
(* may take (CyclesFor), one by one while it executes, and every cycle     *)
(* costs one.  As long as a row is occupied by an instruction that is not  *)
(* over, at least one earns; the cycles in which none does are paid for by *)
(* what was earned beside others.                                          *)
(***************************************************************************)
EXTENDS ProcDataflow

-----------------------------------------------------------------------------
(* Sums. *)

IsSum(sum, n, f) == sum = [m \in 0 .. n |-> IF m = 0 THEN 0 ELSE sum[m - 1] + f[m - 1]]

LEMMA SumExists ==
    ASSUME NEW n \in Nat, NEW f \in [0 .. n - 1 -> Int]
    PROVE  \E sum \in [0 .. n -> Int] : IsSum(sum, n, f) /\ Total(n, f) = sum[n]
<1> DEFINE F == [p \in Int \X (1 .. n) |-> p[1] + f[p[2] - 1]]
           I == [m \in 0 .. n |-> Int]
           body(g, m) == IF m = 0 THEN 0 ELSE g[m - 1] + f[m - 1]
<1>1. \A m \in 1 .. n : m - 1 \in 0 .. n /\ m \in 0 .. n /\ f[m - 1] \in Int
  OBVIOUS
<1>2. \A m \in 1 .. n : \A x \in Int : F[<<x, m>>] = x + f[m - 1] /\ F[<<x, m>>] \in Int
  BY <1>1
<1> HIDE DEF F
<1>3. Keeps(n, F, I) /\ 0 \in I[0]
  BY <1>1, <1>2 DEF Keeps
<1>4. PICK g : IsLoop(g, n, F, 0) /\ \A m \in 0 .. n : g[m] \in I[m]
  BY <1>3, LoopExists, Zenon
<1>5. g = [m \in 0 .. n |-> IF m = 0 THEN 0 ELSE F[<<g[m - 1], m>>]] /\ \A m \in 0 .. n : g[m] \in Int
  BY <1>4 DEF IsLoop
<1>6. \A m \in 0 .. n : g[m] = body(g, m)
  <2> SUFFICES ASSUME NEW m \in 0 .. n PROVE g[m] = body(g, m)
    OBVIOUS
  <2>1. m # 0 => m \in 1 .. n /\ g[m - 1] \in Int
    BY <1>5
  <2> QED BY <1>2, <1>5, <2>1
<1>7. g = [m \in 0 .. n |-> body(g, m)]
  BY <1>5, <1>6
<1> DEFINE sum == CHOOSE h : h = [m \in 0 .. n |-> body(h, m)]
<1>8. sum = [m \in 0 .. n |-> body(sum, m)]
  BY <1>7, Zenon
<1>9. Total(n, f) = sum[n]
  BY Zenon DEF Total
<1> HIDE DEF sum
<1>10. \A m \in 0 .. n : sum[m] = body(sum, m)
  BY <1>8
<1>11. \A m \in 0 .. n : sum[m] \in Int
  <2> DEFINE G == {m \in 0 .. n : sum[m] \in Int}
  <2>1. 0 \in G
    BY <1>10
  <2>2. ASSUME NEW m \in 1 .. n, m - 1 \in G PROVE m \in G
    BY <1>1, <1>10, <2>2
  <2> HIDE DEF G
  <2>3. 0 .. n \subseteq G
    BY <2>1, <2>2, UpTo
  <2> QED BY <2>3 DEF G
<1>12. sum \in [0 .. n -> Int]
  BY <1>8, <1>11
<1> QED
  BY <1>8, <1>9, <1>12 DEF IsSum

\* Of inequalities between integers: two added, and one of more terms.
LEMMA AddTerms ==
    ASSUME NEW u \in Int, NEW v \in Int, NEW c \in Int, NEW x \in Int, NEW y \in Int, NEW d \in Int,
           u + c <= v, x + d <= y
    PROVE  (u + x) + (c + d) <= v + y
  OBVIOUS

LEMMA AddBound ==
    ASSUME NEW w \in Int, NEW m \in Int, NEW p \in Int, NEW q \in Int, NEW c \in Int, NEW d \in Int,
           w + m <= 3 + p, p + c + d <= q
    PROVE  w + (m + c + d) <= 3 + q
  OBVIOUS

\* A sum is larger by one for each of its terms that is.
LEMMA TotalGrows ==
    ASSUME NEW n \in Nat, NEW f \in [0 .. n - 1 -> Int], NEW g \in [0 .. n - 1 -> Int],
           NEW S \in SUBSET (0 .. n - 1), \A s \in 0 .. n - 1 : f[s] <= g[s],
           \A s \in S : f[s] + 1 <= g[s]
    PROVE  /\ Total(n, f) \in Int /\ Total(n, g) \in Int /\ Cardinality(S) \in Nat
           /\ Total(n, f) + Cardinality(S) <= Total(n, g)
<1>1. PICK a \in [0 .. n -> Int] : IsSum(a, n, f) /\ Total(n, f) = a[n]
  BY SumExists
<1>2. PICK b \in [0 .. n -> Int] : IsSum(b, n, g) /\ Total(n, g) = b[n]
  BY SumExists
<1>3. /\ a[0] = 0 /\ \A m \in 1 .. n : a[m] = a[m - 1] + f[m - 1]
      /\ b[0] = 0 /\ \A m \in 1 .. n : b[m] = b[m - 1] + g[m - 1]
  <2>1. /\ \A m \in 0 .. n : a[m] = IF m = 0 THEN 0 ELSE a[m - 1] + f[m - 1]
        /\ \A m \in 0 .. n : b[m] = IF m = 0 THEN 0 ELSE b[m - 1] + g[m - 1]
    BY <1>1, <1>2 DEF IsSum
  <2>2. 0 \in 0 .. n /\ \A m \in 1 .. n : m \in 0 .. n /\ m # 0
    OBVIOUS
  <2> QED BY <2>1, <2>2
<1>0. \A s \in S : s \in Nat /\ s <= n - 1
  OBVIOUS
<1> DEFINE Upto(m) == {s \in S : s < m}
           G == {m \in 0 .. n : a[m] + Cardinality(Upto(m)) <= b[m]}
<1>a. \A m : \A s : s \in Upto(m) <=> s \in S /\ s < m
  OBVIOUS
<1>4. \A m \in 0 .. n : IsFiniteSet(Upto(m)) /\ Cardinality(Upto(m)) \in Nat
  <2>1. IsFiniteSet(0 .. n - 1)
    BY FS_Interval
  <2>2. \A m \in 0 .. n : Upto(m) \in SUBSET (0 .. n - 1)
    OBVIOUS
  <2> HIDE DEF Upto
  <2> QED BY <2>1, <2>2, FS_Subset, FS_CardinalityType
<1>5. 0 \in G
  <2>1. Upto(0) = {}
    <3>1. \A s \in S : ~(s < 0)
      BY <1>0
    <3> HIDE DEF Upto
    <3>2. \A s : s \notin Upto(0)
      BY <1>a, <3>1
    <3> QED BY <3>2, Zenon
  <2>2. Cardinality(Upto(0)) = 0
    BY <2>1, FS_EmptySet
  <2> HIDE DEF Upto
  <2> QED BY <1>3, <2>2
<1>6. ASSUME NEW m \in 1 .. n, m - 1 \in G PROVE m \in G
  <2>1. /\ m - 1 \in 0 .. n /\ m \in 0 .. n /\ m - 1 \in 0 .. n - 1
        /\ a[m - 1] + Cardinality(Upto(m - 1)) <= b[m - 1]
    BY <1>6
  <2>2. /\ a[m] = a[m - 1] + f[m - 1] /\ b[m] = b[m - 1] + g[m - 1]
        /\ {a[m - 1], b[m - 1], f[m - 1], g[m - 1]} \subseteq Int /\ f[m - 1] <= g[m - 1]
    <3>1. a[m] = a[m - 1] + f[m - 1] /\ b[m] = b[m - 1] + g[m - 1]
      BY <1>3, <1>6
    <3>2. a[m - 1] \in Int /\ b[m - 1] \in Int
      BY <2>1
    <3>3. f[m - 1] \in Int /\ g[m - 1] \in Int /\ f[m - 1] <= g[m - 1]
      BY <2>1
    <3> QED BY <3>1, <3>2, <3>3, Zenon
  <2>3. CASE m - 1 \in S
    <3>1. Upto(m) = Upto(m - 1) \cup {m - 1} /\ m - 1 \notin Upto(m - 1)
      <4>1. \A s \in Nat : s < m <=> s < m - 1 \/ s = m - 1
        OBVIOUS
      <4> HIDE DEF Upto
      <4>2. \A s : s \in Upto(m) <=> s \in Upto(m - 1) \/ s = m - 1
        BY <1>0, <1>a, <2>3, <4>1
      <4>3. m - 1 \notin Upto(m - 1)
        BY <1>a
      <4> QED BY <4>2, <4>3, Zenon
    <3>2. Cardinality(Upto(m)) = Cardinality(Upto(m - 1)) + 1
      <4> HIDE DEF Upto
      <4> QED BY <1>4, <2>1, <3>1, FS_AddElement
    <3>3. f[m - 1] + 1 <= g[m - 1]
      BY <2>3
    <3>4. a[m] + Cardinality(Upto(m)) <= b[m]
      <4> DEFINE c == Cardinality(Upto(m - 1))
      <4> HIDE DEF Upto
      <4>1. c \in Nat /\ a[m - 1] + c <= b[m - 1] /\ Cardinality(Upto(m)) = c + 1
        BY <1>4, <2>1, <3>2
      <4> HIDE DEF c
      <4>2. (a[m - 1] + f[m - 1]) + (c + 1) <= b[m - 1] + g[m - 1]
        <5>1. c \in Int /\ 1 \in Int
          BY <4>1
        <5> QED BY <2>2, <3>3, <4>1, <5>1, AddTerms
      <4> QED BY <2>2, <4>1, <4>2
    <3> QED BY <2>1, <3>4
  <2>4. CASE m - 1 \notin S
    <3>1. Upto(m) = Upto(m - 1)
      <4>1. \A s \in Nat : s < m <=> s < m - 1 \/ s = m - 1
        OBVIOUS
      <4> HIDE DEF Upto
      <4>2. \A s : s \in Upto(m) <=> s \in Upto(m - 1)
        BY <1>0, <1>a, <2>4, <4>1
      <4> QED BY <4>2, Zenon
    <3>2. a[m] + Cardinality(Upto(m)) <= b[m]
      <4> DEFINE c == Cardinality(Upto(m - 1))
      <4> HIDE DEF Upto
      <4>1. c \in Nat /\ a[m - 1] + c <= b[m - 1] /\ Cardinality(Upto(m)) = c
        BY <1>4, <2>1, <3>1
      <4> HIDE DEF c
      <4>2. (a[m - 1] + f[m - 1]) + (c + 0) <= b[m - 1] + g[m - 1]
        <5>1. c \in Int /\ 0 \in Int /\ f[m - 1] + 0 <= g[m - 1]
          BY <2>2, <4>1
        <5> QED BY <2>2, <4>1, <5>1, AddTerms
      <4>3. c + 0 = c
        BY <4>1
      <4> QED BY <2>2, <4>1, <4>2, <4>3, Zenon
    <3> QED BY <2>1, <3>2
  <2> QED BY <2>3, <2>4
<1>7. n \in G
  <2> HIDE DEF G
  <2>1. 0 .. n \subseteq G
    BY <1>5, <1>6, UpTo
  <2> QED BY <2>1
<1>8. Upto(n) = S
  <2>1. \A s \in S : s < n
    BY <1>0
  <2> HIDE DEF Upto
  <2> QED BY <1>a, <2>1
<1> QED
  BY <1>1, <1>2, <1>4, <1>7, <1>8

LEMMA TotalNat ==
    ASSUME NEW n \in Nat, NEW f \in [0 .. n - 1 -> Nat]
    PROVE  Total(n, f) \in Nat
<1>1. PICK a \in [0 .. n -> Int] : IsSum(a, n, f) /\ Total(n, f) = a[n]
  BY SumExists
<1>2. \A m \in 0 .. n : a[m] = IF m = 0 THEN 0 ELSE a[m - 1] + f[m - 1]
  BY <1>1 DEF IsSum
<1> DEFINE G == {m \in 0 .. n : a[m] \in Nat}
<1>3. 0 \in G
  BY <1>2
<1>4. ASSUME NEW m \in 1 .. n, m - 1 \in G PROVE m \in G
  <2>1. m \in 0 .. n /\ m # 0 /\ f[m - 1] \in Nat /\ a[m - 1] \in Nat
    BY <1>4
  <2> QED BY <1>2, <2>1
<1> HIDE DEF G
<1>5. 0 .. n \subseteq G
  BY <1>3, <1>4, UpTo
<1> QED
  BY <1>1, <1>5 DEF G

-----------------------------------------------------------------------------
(* The account. *)

\* The times that a row which has fired can have left.
TimeLeft(op) == IF Memory(op) THEN 1 .. MissTime - 1 \cup {NotYet}
                ELSE IF op = "MUL" THEN 1 .. MulTime ELSE {1}

\* What an instruction has earned when it has fired and this time is left.  The last cycle
\* of a branch earns two.
Earned(op, t) == IF t <= 0 THEN CyclesFor(op)
                 ELSE IF t = NotYet THEN 1
                 ELSE (IF op = "BR" THEN 2 ELSE CyclesFor(op)) - t
EarnedIn(row) == IF row.fired THEN Earned(InstOf(row).op, row.remaining_time) ELSE 0

\* No instruction is paid more than it has earned, and none before it leaves the dispatch queue.
PayOK(pay, rows, live, head) ==
    /\ pay \in [Tag -> Nat]
    /\ \A s \in Tag : pay[s] <= CyclesFor(Inst(s).op) /\ (s >= head => pay[s] = 0)
    /\ \A i \in live : pay[rows[i].seq] <= EarnedIn(rows[i])

\* The account covers n cycles more than have passed.
Covers(n, now, rows, live, head) ==
    \E pay : PayOK(pay, rows, live, head) /\ now + n <= 3 + Total(Len(trace), pay)

Ops == {"NOP", "ADD", "MUL", "LOAD", "STORE", "BR"}

LEMMA Earning ==
    ASSUME NEW op \in Ops
    PROVE  /\ CyclesFor(op) \in Nat \ {0} /\ Earned(op, 0) = CyclesFor(op) /\ Earned(op, -1) = CyclesFor(op)
           /\ \A t \in TimeLeft(op) :
                 /\ t \in 1 .. NotYet /\ Earned(op, t) \in Nat /\ Earned(op, t) + 1 <= CyclesFor(op)
                 /\ op = "BR" => Earned(op, t) + 2 <= CyclesFor(op)
                 /\ t = NotYet => /\ MissTime - 1 \in TimeLeft(op)
                                  /\ Earned(op, t) + 1 <= Earned(op, MissTime - 1)
                 /\ t # NotYet /\ t # 1 => t - 1 \in TimeLeft(op) /\ Earned(op, t) + 1 <= Earned(op, t - 1)
<1>1. op \in {"NOP", "ADD", "MUL", "BR"} => ~Memory(op)
  BY DEF Memory
<1>2. op \in {"LOAD", "STORE"} => Memory(op)
  BY DEF Memory
<1>3. CASE op \in {"LOAD", "STORE"}
  BY <1>2, <1>3 DEF CyclesFor, Earned, TimeLeft, MissTime, NotYet
<1>4. CASE op = "MUL"
  BY <1>1, <1>4 DEF CyclesFor, Earned, TimeLeft, MulTime, NotYet
<1>5. CASE op = "BR"
  BY <1>1, <1>5 DEF CyclesFor, Earned, TimeLeft, NotYet
<1>6. CASE op \in {"ADD", "NOP"}
  BY <1>1, <1>6 DEF CyclesFor, Earned, TimeLeft, NotYet
<1> QED
  BY <1>3, <1>4, <1>5, <1>6 DEF Ops

LEMMA OpOf ==
    ASSUME trace \in Traces, NEW s \in Tag
    PROVE  Inst(s).op \in Ops /\ CyclesFor(Inst(s).op) \in Nat \ {0}
<1>1. Inst(s) \in Instruction
  BY TraceType
<1>2. Inst(s).op \in Ops
  BY <1>1 DEF Instruction, Ops
<1> QED
  BY <1>2, Earning

\* What an instruction gets, that is paid once for each of these sets.
Gain(s, S, B) == (IF s \in S THEN 1 ELSE 0) + (IF s \in B THEN 1 ELSE 0)

\* Rows move and change, and the instructions of S earn another cycle each, those of B one more.
LEMMA AccountGrows ==
    ASSUME trace \in Traces, NEW n \in Int, NEW now \in Int, NEW rows, NEW live, NEW head \in Nat,
           Covers(n, now, rows, live, head), NEW new, NEW still, NEW next \in Nat, head <= next,
           NEW S \in SUBSET Tag, NEW B \in SUBSET Tag,
           \A s \in S \cup B :
               /\ s < next
               /\ IF s >= head THEN s \notin B
                  ELSE \E j \in live : /\ rows[j].seq = s /\ EarnedIn(rows[j]) \in Int
                                       /\ EarnedIn(rows[j]) + Gain(s, S, B) <= CyclesFor(Inst(s).op),
           \A i \in still :
               /\ new[i].seq \in Tag /\ EarnedIn(new[i]) \in Nat
               /\ IF new[i].seq >= head THEN new[i].seq \notin S \cup B
                  ELSE \E j \in live : /\ rows[j].seq = new[i].seq /\ EarnedIn(rows[j]) \in Int
                                       /\ EarnedIn(rows[j]) + Gain(new[i].seq, S, B) <= EarnedIn(new[i])
    PROVE  /\ Cardinality(S) \in Nat /\ Cardinality(B) \in Nat
           /\ Covers(n + Cardinality(S) + Cardinality(B), now, new, still, next)
<1>1. PICK pay : PayOK(pay, rows, live, head) /\ now + n <= 3 + Total(Len(trace), pay)
  BY DEF Covers
<1>2. /\ pay \in [Tag -> Nat] /\ Len(trace) \in Nat /\ Tag = 0 .. Len(trace) - 1
      /\ \A s \in Tag : /\ s \in Nat /\ CyclesFor(Inst(s).op) \in Nat \ {0}
                        /\ pay[s] <= CyclesFor(Inst(s).op) /\ (s >= head => pay[s] = 0)
      /\ \A i \in live : pay[rows[i].seq] <= EarnedIn(rows[i])
  BY <1>1, TraceType, OpOf DEF PayOK, Tag
<1>3. \A s : Gain(s, S, B) \in Nat /\ (s \notin S \cup B => Gain(s, S, B) = 0) /\ (s \notin B => Gain(s, S, B) <= 1)
  BY DEF Gain
<1> DEFINE some == [s \in Tag |-> pay[s] + IF s \in S THEN 1 ELSE 0]
           more == [s \in Tag |-> some[s] + IF s \in B THEN 1 ELSE 0]
<1>4. /\ some \in [Tag -> Nat] /\ more \in [Tag -> Nat]
      /\ \A s \in Tag : /\ pay[s] <= some[s] /\ (s \in S => pay[s] + 1 <= some[s])
                        /\ some[s] <= more[s] /\ (s \in B => some[s] + 1 <= more[s])
                        /\ more[s] = pay[s] + Gain(s, S, B)
  <2>1. \A s \in Tag : pay[s] \in Nat /\ some[s] = pay[s] + IF s \in S THEN 1 ELSE 0
    BY <1>2
  <2> HIDE DEF some
  <2>2. \A s \in Tag : some[s] \in Nat /\ more[s] = some[s] + IF s \in B THEN 1 ELSE 0
    BY <2>1
  <2>3. some = [s \in Tag |-> some[s]] /\ more = [s \in Tag |-> more[s]]
    BY DEF some
  <2> HIDE DEF more
  <2>4. \A s \in Tag : /\ more[s] \in Nat /\ pay[s] <= some[s] /\ (s \in S => pay[s] + 1 <= some[s])
                       /\ some[s] <= more[s] /\ (s \in B => some[s] + 1 <= more[s])
                       /\ more[s] = pay[s] + Gain(s, S, B)
    BY <2>1, <2>2 DEF Gain
  <2> QED BY <2>2, <2>3, <2>4
<1> HIDE DEF some, more
<1>5. /\ Total(Len(trace), pay) \in Int /\ Total(Len(trace), more) \in Int
      /\ Cardinality(S) \in Nat /\ Cardinality(B) \in Nat
      /\ Total(Len(trace), pay) + Cardinality(S) + Cardinality(B) <= Total(Len(trace), more)
  <2> DEFINE N == Len(trace)
  <2>1. /\ N \in Nat /\ pay \in [0 .. N - 1 -> Int] /\ some \in [0 .. N - 1 -> Int]
        /\ more \in [0 .. N - 1 -> Int] /\ S \in SUBSET (0 .. N - 1) /\ B \in SUBSET (0 .. N - 1)
        /\ \A s \in 0 .. N - 1 : pay[s] <= some[s] /\ some[s] <= more[s]
        /\ \A s \in S : pay[s] + 1 <= some[s]
        /\ \A s \in B : some[s] + 1 <= more[s]
    BY <1>2, <1>4
  <2> HIDE DEF N
  <2>2. /\ Total(N, pay) \in Int /\ Total(N, some) \in Int /\ Cardinality(S) \in Nat
        /\ Total(N, pay) + Cardinality(S) <= Total(N, some)
    BY <2>1, TotalGrows
  <2>3. /\ Total(N, some) \in Int /\ Total(N, more) \in Int /\ Cardinality(B) \in Nat
        /\ Total(N, some) + Cardinality(B) <= Total(N, more)
    BY <2>1, TotalGrows
  <2> QED BY <2>2, <2>3 DEF N
<1>6. now + (n + Cardinality(S) + Cardinality(B)) <= 3 + Total(Len(trace), more)
  <2> DEFINE p == Total(Len(trace), pay)
             q == Total(Len(trace), more)
             c == Cardinality(S)
             d == Cardinality(B)
  <2>1. /\ p \in Int /\ q \in Int /\ c \in Int /\ d \in Int /\ n \in Int /\ now \in Int
        /\ now + n <= 3 + p /\ p + c + d <= q
    BY <1>1, <1>5
  <2> HIDE DEF p, q, c, d
  <2>2. now + (n + c + d) <= 3 + q
    BY <2>1, AddBound
  <2> QED BY <2>2 DEF q, c, d
<1>7. PayOK(more, new, still, next)
  <2>1. ASSUME NEW s \in Tag PROVE more[s] <= CyclesFor(Inst(s).op) /\ (s >= next => more[s] = 0)
    <3> DEFINE most == CyclesFor(Inst(s).op)
    <3>1. /\ more[s] = pay[s] + Gain(s, S, B) /\ pay[s] \in Nat /\ Gain(s, S, B) \in Nat
          /\ s \in Nat /\ most \in Nat \ {0} /\ pay[s] <= most /\ (s >= head => pay[s] = 0)
      BY <1>2, <1>3, <1>4
    <3>2. /\ s \notin S \cup B => Gain(s, S, B) = 0
          /\ s \notin B => Gain(s, S, B) <= 1
      BY <1>3
    <3>3. CASE s \notin S \cup B
      <4> HIDE DEF most
      <4>1. more[s] <= most /\ (s >= next => more[s] = 0)
        BY <3>1, <3>2, <3>3
      <4> QED BY <4>1 DEF most
    <3>4. CASE s \in S \cup B /\ s >= head
      <4>1. s \notin B /\ s < next
        BY <3>4
      <4> HIDE DEF most
      <4>2. more[s] <= most /\ ~(s >= next)
        BY <3>1, <3>2, <3>4, <4>1
      <4> QED BY <4>2 DEF most
    <3>5. CASE s \in S \cup B /\ ~(s >= head)
      <4>1. PICK j \in live : /\ rows[j].seq = s /\ EarnedIn(rows[j]) \in Int
                              /\ EarnedIn(rows[j]) + Gain(s, S, B) <= most
        BY <3>5
      <4>2. pay[s] <= EarnedIn(rows[j]) /\ s < next
        BY <1>2, <3>5, <4>1
      <4> HIDE DEF most
      <4>3. more[s] <= most /\ ~(s >= next)
        BY <3>1, <4>1, <4>2
      <4> QED BY <4>3 DEF most
    <3> QED BY <3>3, <3>4, <3>5
  <2>2. ASSUME NEW i \in still PROVE more[new[i].seq] <= EarnedIn(new[i])
    <3> DEFINE s == new[i].seq
               e == EarnedIn(new[i])
    <3>1. /\ s \in Tag /\ e \in Nat
          /\ IF s >= head THEN s \notin S \cup B
             ELSE \E j \in live : /\ rows[j].seq = s /\ EarnedIn(rows[j]) \in Int
                                  /\ EarnedIn(rows[j]) + Gain(s, S, B) <= e
      OBVIOUS
    <3> HIDE DEF s, e
    <3> SUFFICES more[s] <= e
      BY DEF s, e
    <3>2. /\ more[s] = pay[s] + Gain(s, S, B) /\ pay[s] \in Nat /\ Gain(s, S, B) \in Nat
          /\ (s >= head => pay[s] = 0) /\ (s \notin S \cup B => Gain(s, S, B) = 0)
      BY <1>2, <1>3, <1>4, <3>1
    <3>3. CASE s >= head
      BY <3>1, <3>2, <3>3
    <3>4. CASE ~(s >= head)
      <4>1. PICK j \in live : /\ rows[j].seq = s /\ EarnedIn(rows[j]) \in Int
                              /\ EarnedIn(rows[j]) + Gain(s, S, B) <= e
        BY <3>1, <3>4
      <4>2. pay[s] <= EarnedIn(rows[j])
        BY <1>2, <4>1
      <4> QED BY <3>1, <3>2, <4>1, <4>2
    <3> QED BY <3>3, <3>4
  <2> QED BY <1>4, <2>1, <2>2 DEF PayOK
<1> QED
  BY <1>5, <1>6, <1>7 DEF Covers

LEMMA CoversLess ==
    ASSUME trace \in Traces, NEW n \in Int, NEW m \in Int, m <= n, NEW now \in Int, NEW rows, NEW live,
           NEW head, Covers(n, now, rows, live, head)
    PROVE  /\ Covers(m, now, rows, live, head)
           /\ Covers(n - 1, now + 1, rows, live, head)
           /\ now = 0 => Covers(3, now, rows, live, head)
           /\ now + n <= WorstCase
<1>1. PICK pay : PayOK(pay, rows, live, head) /\ now + n <= 3 + Total(Len(trace), pay)
  BY DEF Covers
<1> DEFINE most == [s \in Tag |-> CyclesFor(Inst(s).op)]
<1>2. /\ pay \in [0 .. Len(trace) - 1 -> Nat] /\ Len(trace) \in Nat /\ most \in [0 .. Len(trace) - 1 -> Nat]
      /\ \A s \in 0 .. Len(trace) - 1 : pay[s] <= most[s]
  BY <1>1, TraceType, OpOf DEF PayOK, Tag
<1>3. Total(Len(trace), pay) \in Nat
  BY <1>2, TotalNat
<1>4. Total(Len(trace), most) \in Int /\ Total(Len(trace), pay) <= Total(Len(trace), most)
  <2> DEFINE N == Len(trace)
  <2> HIDE DEF most
  <2>1. /\ N \in Nat /\ pay \in [0 .. N - 1 -> Int] /\ most \in [0 .. N - 1 -> Int]
        /\ {} \in SUBSET (0 .. N - 1) /\ \A s \in 0 .. N - 1 : pay[s] <= most[s]
    BY <1>2
  <2> HIDE DEF N
  <2>2. Total(N, most) \in Int /\ Total(N, pay) + Cardinality({}) <= Total(N, most)
    BY <2>1, TotalGrows
  <2> QED BY <1>3, <2>2, FS_EmptySet DEF N
<1>5. WorstCase = 3 + Total(Len(trace), most)
  BY DEF WorstCase
<1> HIDE DEF most
<1>6. now + m <= 3 + Total(Len(trace), pay) /\ (now + 1) + (n - 1) <= 3 + Total(Len(trace), pay)
  BY <1>1, <1>3
<1>7. now = 0 => now + 3 <= 3 + Total(Len(trace), pay)
  BY <1>3
<1>8. now + n <= WorstCase
  BY <1>1, <1>3, <1>4, <1>5
<1> QED
  BY <1>1, <1>6, <1>7, <1>8 DEF Covers

\* Rows that move, or leave, and earn nothing.
LEMMA AccountKept ==
    ASSUME NEW n, NEW now, NEW rows, NEW live, NEW head, Covers(n, now, rows, live, head),
           NEW new, NEW still,
           \A i \in still : \E j \in live : /\ rows[j].seq = new[i].seq
                                            /\ EarnedIn(rows[j]) = EarnedIn(new[i])
    PROVE  Covers(n, now, new, still, head)
<1>1. PICK pay : PayOK(pay, rows, live, head) /\ now + n <= 3 + Total(Len(trace), pay)
  BY DEF Covers
<1>2. ASSUME NEW i \in still PROVE pay[new[i].seq] <= EarnedIn(new[i])
  <2>1. PICK j \in live : rows[j].seq = new[i].seq /\ EarnedIn(rows[j]) = EarnedIn(new[i])
    OBVIOUS
  <2>2. pay[rows[j].seq] <= EarnedIn(rows[j])
    BY <1>1 DEF PayOK
  <2> QED BY <2>1, <2>2
<1>3. PayOK(pay, new, still, head)
  BY <1>1, <1>2 DEF PayOK
<1> QED
  BY <1>1, <1>3 DEF Covers

-----------------------------------------------------------------------------
(* The invariant. *)

\* The time that is left, the sources that an instruction does not have, and the marks that
\* update_state has taken from the finished rows.
WorkOK(rows, finished) ==
    /\ \A i \in OccupiedIn(rows) :
          /\ rows[i].fired /\ rows[i].remaining_time > 0
             => rows[i].remaining_time \in TimeLeft(InstOf(rows[i]).op)
          /\ \A k \in 1 .. 2 : InstOf(rows[i]).src[k] = -1 => rows[i].src_reg_ready[k]
    /\ \A i \in finished : ~rows[i].ls_conflict_end

\* The stall is for the last instruction that was dispatched.
StalledOK(over, head, stalled) ==
    stalled => head > 0 /\ Mispredicted(head - 1) /\ head - 1 \notin over

\* There is something to dispatch as long as the trace goes on.
FedOK == /\ step \in {"update_state", "execute_instr", "schedule_instr", "dispatch_instr"}
            => \/ dispatch_queue_tail = Len(trace) \/ dispatch_queue_head < dispatch_queue_tail
               \/ cycle = 0
         /\ step = "update_state_2"
            => dispatch_queue_tail = Len(trace) \/ dispatch_queue_head < dispatch_queue_tail

WorkInv == /\ WorkOK(schedule_queue, finished_fu)
           /\ StalledOK(Over, dispatch_queue_head, branch_started) /\ FedOK

FiredOf(rows, live) == {i \in live : rows[i].fired}
EndsIn(rows, live)  == {i \in live : rows[i].fired /\ rows[i].remaining_time = 0}
AllRead == dispatch_queue_head = dispatch_queue_tail /\ dispatch_queue_tail = Len(trace)

\* The cycles to come in which nothing earns: one when all that is left ends in this cycle and
\* the next must dispatch first, one more when there is no free row to dispatch to, and the
\* last one, unless everything is over.
Reserve(ending, left) == (IF left = {} THEN 1 ELSE 0)
                         + (IF ending \cup left = Row /\ Cardinality(left) <= 1 THEN 1 ELSE 0)
Coming(ending, left, all) == Reserve(ending, left) + (IF left = {} /\ all THEN 0 ELSE 1)

\* A mispredicted branch that ends has held back everything behind it, and has earned two.
Bonus(rows, live) == IF \E i \in EndsIn(rows, live) : Mispredicted(rows[i].seq) THEN 1 ELSE 0

\* The cycles that the account has to cover before each step of a cycle.
Enough(at, n, rows, live, finished, all, more) ==
    LET ends == EndsIn(rows, live)
    IN  /\ at = "update_state" => n >= Coming(ends, live \ ends, all)
        /\ at = "execute_instr" => n >= Coming(finished, live, all)
        /\ at \in {"schedule_instr", "dispatch_instr"} =>
              n >= Coming(finished, live, all) + Cardinality(FiredOf(rows, live)) + Bonus(rows, live)
        /\ at = "dispatch_instr" => (live # {} => FiredOf(rows, live) # {})
        /\ at \in {"fetch_instr", "update_state_2"} =>
              \/ n >= Coming(ends, live \ ends, all) + 1
              \/ live = {} /\ all /\ n >= 1 /\ (at = "update_state_2" => ~more)

TimeInv ==
    /\ WorkInv
    /\ \E n \in Nat : /\ Covers(n, cycle, schedule_queue, Live, dispatch_queue_head)
                      /\ Enough(step, n, schedule_queue, Live, finished_fu, AllRead, continue_fetch)

LEMMA TimeStep ==
    ASSUME UNCHANGED trace, NEW new, NEW live, NEW head, NEW n \in Nat, NEW now, schedule_queue' = new,
           Live' = live, dispatch_queue_head' = head, cycle' = now, Covers(n, now, new, live, head),
           Enough(step', n, new, live, finished_fu', AllRead', continue_fetch'),
           predicted_br' = predicted_br \/ step' = "update_state_2",
           WorkOK(new, finished_fu'), StalledOK(Over, head, branch_started)', FedOK'
    PROVE  TimeInv'
<1>1. WorkOK(schedule_queue, finished_fu)'
  <2>1. OccupiedIn(schedule_queue)' = OccupiedIn(new)
    BY DEF OccupiedIn
  <2> QED BY <2>1 DEF WorkOK, InstOf, Inst
<1>2. Covers(n, cycle, schedule_queue, Live, dispatch_queue_head)'
  <2>1. PICK pay : PayOK(pay, new, live, head) /\ now + n <= 3 + Total(Len(trace), pay)
    BY DEF Covers
  <2>2. PayOK(pay, schedule_queue, Live, dispatch_queue_head)'
    BY <2>1 DEF PayOK, EarnedIn, InstOf, Inst, Tag
  <2> QED BY <2>1, <2>2 DEF Covers
<1>3. /\ EndsIn(schedule_queue, Live)' = EndsIn(new, live) /\ FiredOf(schedule_queue, Live)' = FiredOf(new, live)
  BY DEF EndsIn, FiredOf
<1>4. predicted_br' = predicted_br => Bonus(schedule_queue, Live)' = Bonus(new, live)
  BY <1>3 DEF Bonus, Mispredicted, Inst
<1>5. Enough(step, n, schedule_queue, Live, finished_fu, AllRead, continue_fetch)'
  BY <1>3, <1>4 DEF Enough, Coming, Reserve
<1> QED
  BY <1>1, <1>2, <1>5 DEF TimeInv, WorkInv

LEMMA ThreeRows == schedule_queue_size >= 3 /\ IsFiniteSet(Row) /\ Cardinality(Row) = schedule_queue_size
<1>1. K0 + K1 + K2 \in Nat /\ K0 + K1 + K2 >= 3 /\ R \in Nat /\ R >= 1
  BY ProcAssumption
<1>2. \A a, b \in Nat : a >= 3 /\ b >= 1 => a * b >= 3
  OBVIOUS
<1>3. schedule_queue_size >= 3
  BY <1>1, <1>2 DEF schedule_queue_size
<1> QED
  BY <1>3, Queue, FS_Interval

LEMMA LiveRow ==
    ASSUME Inv, DataInv, WorkInv, NEW i \in Live, NEW row, row = schedule_queue[i]
    PROVE  /\ i \in Row /\ i \in Occupied /\ i \notin finished_fu
           /\ row \in RowType /\ row.occupied /\ row.seq \in Tag
           /\ row.seq \in Nat /\ row.seq < dispatch_queue_head /\ InstOf(row) \in Instruction
           /\ InstOf(row).op \in Ops /\ InstOf(row).op # "NOP" /\ row.seq \notin Over
           /\ row.fired /\ row.remaining_time > 0 => row.remaining_time \in TimeLeft(InstOf(row).op)
           /\ EarnedIn(row) \in Nat /\ EarnedIn(row) <= CyclesFor(InstOf(row).op)
           /\ \A k \in Occupied : schedule_queue[k].seq = row.seq => k = i
<1>1. i \in Row /\ i \in Occupied /\ i \in OccupiedIn(schedule_queue) /\ i \notin finished_fu
  BY RowSet DEF Live, Occupied
<1>2. /\ row \in RowType /\ row.seq \in Tag /\ row.seq < dispatch_queue_head /\ row.occupied
      /\ InstOf(row) \in Instruction
  BY <1>1, OccupiedRow DEF Inv, QueueInv, OccupiedIn
<1>3. InstOf(row).op \in Ops
  BY <1>2 DEF Instruction, Ops
<1>4. /\ row.fired /\ row.remaining_time > 0 => row.remaining_time \in TimeLeft(InstOf(row).op)
  BY <1>1 DEF WorkInv, WorkOK
<1>5. EarnedIn(row) \in Nat /\ EarnedIn(row) <= CyclesFor(InstOf(row).op)
  <2> DEFINE op == InstOf(row).op
  <2>1. op \in Ops
    BY <1>3
  <2>2. row.remaining_time \in -1 .. NotYet
    BY <1>2 DEF RowType
  <2> HIDE DEF op
  <2>3. CASE ~row.fired
    BY <2>1, <2>3, Earning DEF EarnedIn, op
  <2>4. CASE row.fired /\ ~(row.remaining_time > 0)
    <3>1. EarnedIn(row) = CyclesFor(op)
      BY <2>2, <2>4 DEF EarnedIn, Earned, NotYet, op
    <3> QED BY <2>1, <3>1, Earning DEF op
  <2>5. CASE row.fired /\ row.remaining_time > 0
    <3>1. EarnedIn(row) = Earned(op, row.remaining_time) /\ row.remaining_time \in TimeLeft(op)
      BY <1>4, <2>5 DEF EarnedIn, op
    <3> DEFINE t == row.remaining_time
    <3>2. Earned(op, t) \in Nat /\ Earned(op, t) + 1 <= CyclesFor(op) /\ CyclesFor(op) \in Nat
      BY <2>1, <3>1, Earning
    <3> QED BY <3>1, <3>2 DEF op
  <2> QED BY <2>3, <2>4, <2>5
<1>6. /\ InstOf(row).op # "NOP" /\ row.seq \notin Over
      /\ \A k \in Occupied : schedule_queue[k].seq = row.seq => k = i
  BY <1>1, RowPhases DEF InstOf
<1> QED
  BY <1>1, <1>2, <1>3, <1>4, <1>5, <1>6 DEF Tag

LEMMA TimeInit == ASSUME Init PROVE TimeInv
<1>1. /\ Live = {} /\ Over = {} /\ OccupiedIn(schedule_queue) = {} /\ finished_fu = {}
  <2>1. \A i \in Row : ~schedule_queue[i].occupied
    BY EmptyRowType DEF Init
  <2>2. finished_fu = {} /\ result = <<>>
    BY DEF Init
  <2>3. \A s : s \notin ToSet(result)
    <3>1. result \in Seq(Nat) /\ 1 .. Len(result) = {}
      BY <2>2
    <3> QED BY <3>1, Elements
  <2> QED BY <2>1, <2>2, <2>3 DEF Live, Occupied, OccupiedIn, Over
<1>2. /\ trace \in Traces /\ step = "update_state" /\ cycle = 0 /\ ~branch_started
      /\ dispatch_queue_head = 0 /\ dispatch_queue_tail = 0
  BY DEF Init
<1>3. WorkInv
  BY <1>1, <1>2 DEF WorkInv, WorkOK, StalledOK, FedOK
<1>4. Covers(3, 0, schedule_queue, {}, 0)
  <2> DEFINE none == [s \in Tag |-> 0]
  <2>1. Len(trace) \in Nat /\ none \in [0 .. Len(trace) - 1 -> Nat] /\ \A s \in Tag : none[s] = 0
    BY <1>2, TraceType DEF Tag
  <2>2. \A s \in Tag : CyclesFor(Inst(s).op) \in Nat
    BY <1>2, OpOf
  <2> HIDE DEF none
  <2>3. Total(Len(trace), none) \in Nat
    BY <2>1, TotalNat
  <2>4. PayOK(none, schedule_queue, {}, 0)
    BY <2>1, <2>2 DEF PayOK, Tag
  <2> QED BY <2>3, <2>4 DEF Covers
<1>5. Enough("update_state", 3, schedule_queue, {}, {}, AllRead, continue_fetch)
  <2>1. EndsIn(schedule_queue, {}) = {} /\ {} # Row
    BY ThreeRows, Queue DEF EndsIn
  <2> QED BY <2>1 DEF Enough, Coming, Reserve
<1> QED
  BY <1>1, <1>2, <1>3, <1>4, <1>5 DEF TimeInv

-----------------------------------------------------------------------------
(* update_state: what is finished leaves; it has been paid in full. *)

LEMMA UpdateTime == ASSUME Inv, DataInv, TimeInv, UpdateState PROVE TimeInv'
<1> DEFINE new == [i \in Row |-> Updated(i)]
           still == Live \ Finished
<1>1. /\ step = "update_state" /\ step' = "execute_instr" /\ finished_fu = {} /\ finished_fu' = Finished
      /\ schedule_queue' = new /\ Finished \subseteq Occupied /\ Live = Occupied
      /\ UNCHANGED <<trace, cycle, continue_fetch, dispatch_queue_tail, predicted_br, dispatch_queue_head>>
      /\ branch_started' = (branch_started /\ ~Resolved)
  BY DEF Inv, UpdateState, At, ClockInv, BetweenCycles, Finished, fetching, Live
<1>2. \A i \in Row : /\ new[i].occupied = schedule_queue[i].occupied /\ new[i].seq = schedule_queue[i].seq
                     /\ new[i].fired = schedule_queue[i].fired
                     /\ new[i].remaining_time = schedule_queue[i].remaining_time
  BY UpdatedRow DEF Inv, Same, Alike
<1>3. \A i \in Occupied : /\ \A k \in 1 .. 2 : schedule_queue[i].src_reg_ready[k] => new[i].src_reg_ready[k]
                          /\ i \in Finished => ~new[i].ls_conflict_end
  <2> SUFFICES ASSUME NEW i \in Occupied
               PROVE  /\ \A k \in 1 .. 2 : schedule_queue[i].src_reg_ready[k] => new[i].src_reg_ready[k]
                      /\ i \in Finished => ~new[i].ls_conflict_end
    OBVIOUS
  <2> DEFINE row == schedule_queue[i]
             ready == [k \in 1 .. 2 |->
                          row.src_reg_ready[k] \/ Written(InstOf(row).src[k], row.src_reg_tag[k])]
  <2>1. i \in Row /\ row.occupied /\ row \in RowType
    BY DEF Occupied, Inv, QueueInv, RowsOK
  <2>2. new[i] = [row EXCEPT !.ls_conflict_end = row.ls_conflict_end /\ i \notin Finished,
                             !.src_reg_ready = ready]
    BY <2>1 DEF Updated
  <2>3. \A k \in 1 .. 2 : row.src_reg_ready[k] => ready[k]
    OBVIOUS
  <2> HIDE DEF row, ready, new
  <2>4. new[i].src_reg_ready = ready /\ new[i].ls_conflict_end = (row.ls_conflict_end /\ i \notin Finished)
    BY <2>1, <2>2 DEF RowType
  <2> QED BY <2>3, <2>4 DEF row
<1> HIDE DEF new
<1>4. Live' = still
  BY <1>1, <1>2 DEF Live, Occupied
<1>5. OccupiedIn(new) = Occupied /\ Occupied \subseteq Row
  BY <1>2 DEF OccupiedIn, Occupied
<1>6. WorkOK(new, Finished)
  <2>1. \A i \in Occupied : InstOf(new[i]) = InstOf(schedule_queue[i])
    BY <1>2, <1>5 DEF InstOf
  <2> QED BY <1>1, <1>2, <1>3, <1>5, <2>1, RowSet DEF TimeInv, WorkInv, WorkOK
<1>7. Over' = Over \cup Retired
  BY UpdatedOver
<1>8. StalledOK(Over, dispatch_queue_head, branch_started)'
  <2>1. \A s : Mispredicted(s)' <=> Mispredicted(s)
    BY <1>1 DEF Mispredicted, Inst
  <2> QED BY <1>1, <1>7, <2>1 DEF TimeInv, WorkInv, StalledOK, Resolved
<1>9. FedOK'
  BY <1>1 DEF TimeInv, WorkInv, FedOK
<1>10. PICK n \in Nat : /\ Covers(n, cycle, schedule_queue, Live, dispatch_queue_head)
                        /\ Enough("update_state", n, schedule_queue, Live, {}, AllRead, continue_fetch)
  BY <1>1 DEF TimeInv
<1>11. Covers(n, cycle, new, still, dispatch_queue_head)
  <2>1. \A i \in still : i \in Live /\ schedule_queue[i].seq = new[i].seq
                         /\ EarnedIn(schedule_queue[i]) = EarnedIn(new[i])
    BY <1>1, <1>2, <1>5 DEF EarnedIn, InstOf
  <2> HIDE DEF still
  <2> QED BY <1>10, <2>1, AccountKept
<1>12. AllRead' <=> AllRead
  BY <1>1 DEF AllRead
<1>13. Finished = EndsIn(schedule_queue, Live)
  BY <1>1 DEF Finished, EndsIn
<1>14. Enough("execute_instr", n, new, still, Finished, AllRead', continue_fetch')
  BY <1>10, <1>12, <1>13 DEF Enough, Coming
<1> HIDE DEF still
<1> QED
  BY <1>1, <1>4, <1>6, <1>8, <1>9, <1>11, <1>14, TimeStep

-----------------------------------------------------------------------------
(* fetch_instr reads on until the trace ends; update_state_2 ends the cycle, which costs one. *)

LEMMA FetchTime == ASSUME Inv, DataInv, TimeInv, FetchInstr PROVE TimeInv'
<1>1. /\ step = "fetch_instr" /\ step' = "update_state_2"
      /\ UNCHANGED <<trace, cycle, dispatch_queue_head, schedule_queue, finished_fu, branch_started, result>>
      /\ dispatch_queue_tail' = IF continue_fetch THEN Min({dispatch_queue_tail + fetch_count, Len(trace)})
                                ELSE dispatch_queue_tail
      /\ continue_fetch' = (continue_fetch /\ dispatch_queue_tail + fetch_count <= Len(trace))
  BY DEF FetchInstr, At, queue
<1>2. /\ dispatch_queue_tail \in Nat /\ dispatch_queue_head \in Nat /\ Len(trace) \in Nat
      /\ dispatch_queue_head <= dispatch_queue_tail /\ dispatch_queue_tail <= Len(trace)
      /\ predicted_br \in [Tag -> BOOLEAN] /\ fetch_count \in Nat \ {0}
      /\ ~continue_fetch => dispatch_queue_tail = Len(trace)
      /\ continue_fetch \in BOOLEAN
  <2>1. Len(trace) \in Nat
    BY TraceType DEF Inv, TypeInv
  <2>2. fetch_count \in Nat \ {0}
    BY ProcAssumption
  <2>3. ~continue_fetch => dispatch_queue_tail = Len(trace)
    BY DEF DataInv, OnceInv
  <2> QED BY <2>1, <2>2, <2>3 DEF Inv, TypeInv
<1>3. /\ dispatch_queue_tail = Len(trace) => dispatch_queue_tail' = Len(trace) /\ ~continue_fetch'
      /\ dispatch_queue_tail' = Len(trace) \/ dispatch_queue_head < dispatch_queue_tail'
  <2> DEFINE t == dispatch_queue_tail + fetch_count
  <2>1. /\ t \in Int /\ t > dispatch_queue_tail
        /\ Min({t, Len(trace)}) = IF t <= Len(trace) THEN t ELSE Len(trace)
    <3>1. t \in Int /\ t > dispatch_queue_tail
      BY <1>2
    <3> QED BY <1>2, <3>1, MinOfTwo
  <2> HIDE DEF t
  <2>2. /\ dispatch_queue_tail' = IF continue_fetch THEN (IF t <= Len(trace) THEN t ELSE Len(trace))
                                  ELSE dispatch_queue_tail
        /\ continue_fetch' = (continue_fetch /\ t <= Len(trace))
    BY <1>1, <2>1 DEF t
  <2>3. CASE continue_fetch
    <3>1. /\ dispatch_queue_tail' = IF t <= Len(trace) THEN t ELSE Len(trace)
          /\ continue_fetch' <=> t <= Len(trace)
      BY <2>2, <2>3
    <3>2. t \in Int /\ t > dispatch_queue_tail
      BY <2>1
    <3> QED BY <1>2, <3>1, <3>2
  <2>4. CASE ~continue_fetch
    BY <1>2, <2>2, <2>4
  <2> QED BY <2>3, <2>4
<1>4. Live' = Live /\ Over' = Over
  BY <1>1 DEF Live, Over, Occupied
<1>5. WorkInv
  BY DEF TimeInv
<1>6. StalledOK(Over, dispatch_queue_head, branch_started)'
  <2> SUFFICES ASSUME branch_started
               PROVE  dispatch_queue_head > 0 /\ Mispredicted(dispatch_queue_head - 1)'
                      /\ dispatch_queue_head - 1 \notin Over
    BY <1>1, <1>4 DEF StalledOK
  <2>1. /\ dispatch_queue_head > 0 /\ Mispredicted(dispatch_queue_head - 1)
        /\ dispatch_queue_head - 1 \notin Over
    BY <1>5 DEF WorkInv, StalledOK
  <2> DEFINE s == dispatch_queue_head - 1
             next == IF continue_fetch THEN Min({dispatch_queue_tail + fetch_count, Len(trace)})
                     ELSE dispatch_queue_tail
             fresh(k) == k \in dispatch_queue_tail .. next - 1 /\ Inst(k).op = "BR"
             taken(k) == branch_table[Entry(ghr, k)] >= 2
  <2>2. predicted_br' = [k \in DOMAIN predicted_br |-> IF fresh(k) THEN taken(k) ELSE predicted_br[k]]
    BY DEF FetchInstr
  <2>3. s \in Tag /\ ~fresh(s)
    BY <1>2, <2>1 DEF Tag
  <2> HIDE DEF fresh, taken, s
  <2>4. predicted_br'[s] = predicted_br[s]
    BY <1>2, <2>2, <2>3
  <2> QED BY <1>1, <2>1, <2>4 DEF Mispredicted, Inst, s
<1>7. WorkOK(schedule_queue, finished_fu')
  BY <1>1, <1>5 DEF WorkInv
<1>8. FedOK'
  BY <1>1, <1>3 DEF FedOK
<1>9. PICK n \in Nat : /\ Covers(n, cycle, schedule_queue, Live, dispatch_queue_head)
                       /\ Enough("fetch_instr", n, schedule_queue, Live, finished_fu, AllRead, continue_fetch)
  BY <1>1 DEF TimeInv
<1>10. AllRead => AllRead' /\ ~continue_fetch'
  BY <1>1, <1>3 DEF AllRead
<1>11. Enough("update_state_2", n, schedule_queue, Live, finished_fu, AllRead', continue_fetch')
  <2> DEFINE ends == EndsIn(schedule_queue, Live)
             left == Live \ ends
             r    == Reserve(ends, left)
  <2>1. r \in Int
    BY DEF Reserve
  <2>2. \/ n >= r + (IF left = {} /\ AllRead THEN 0 ELSE 1) + 1
        \/ Live = {} /\ AllRead /\ n >= 1
    BY <1>9 DEF Enough, Coming
  <2>3. SUFFICES \/ n >= r + (IF left = {} /\ AllRead' THEN 0 ELSE 1) + 1
                 \/ Live = {} /\ AllRead' /\ n >= 1 /\ ~continue_fetch'
    BY DEF Enough, Coming
  <2> HIDE DEF r, left
  <2> QED BY <1>10, <2>1, <2>2
<1> QED
  BY <1>1, <1>4, <1>6, <1>7, <1>8, <1>9, <1>11, TimeStep

LEMMA StutterTime == ASSUME TimeInv, UNCHANGED vars PROVE TimeInv'
<1>1. UNCHANGED <<trace, step, cycle, continue_fetch, dispatch_queue_tail, predicted_br, dispatch_queue_head,
                  schedule_queue, finished_fu, branch_started, result>>
  BY DEF vars, fetching, queue
<1>2. Live' = Live /\ Over' = Over /\ AllRead' = AllRead
  BY <1>1 DEF Live, Over, Occupied, AllRead
<1>3. WorkOK(schedule_queue, finished_fu') /\ FedOK'
  BY <1>1 DEF TimeInv, WorkInv, FedOK
<1>4. StalledOK(Over, dispatch_queue_head, branch_started)'
  BY <1>1, <1>2 DEF TimeInv, WorkInv, StalledOK, Mispredicted, Inst
<1>5. PICK n \in Nat : /\ Covers(n, cycle, schedule_queue, Live, dispatch_queue_head)
                       /\ Enough(step, n, schedule_queue, Live, finished_fu, AllRead, continue_fetch)
  BY DEF TimeInv
<1>6. Enough(step', n, schedule_queue, Live, finished_fu', AllRead', continue_fetch')
  BY <1>1, <1>2, <1>5
<1> QED
  BY <1>1, <1>2, <1>3, <1>4, <1>5, <1>6, TimeStep

LEMMA SortTime == ASSUME Inv, DataInv, TimeInv, UpdateState2 PROVE TimeInv'
<1> DEFINE rows  == [i \in Row |-> IF i \in finished_fu THEN Free(i) ELSE schedule_queue[i]]
           small == {p \in Row \X Row : compare_sq(rows[p[1]], rows[p[2]]) <= 0}
           order == qsort(small)
           new   == [i \in Row |-> rows[order[i]]]
           still == OccupiedIn(new)
<1>1. /\ step = "update_state_2" /\ schedule_queue' = new /\ finished_fu' = {} /\ cycle' = cycle + 1
      /\ UNCHANGED <<trace, continue_fetch, dispatch_queue_tail, predicted_br, dispatch_queue_head,
                     branch_started, result>>
      /\ inst_cnt_sq' = inst_cnt_sq - Cardinality(finished_fu)
      /\ step' = IF /\ inst_cnt_sq' = 0 /\ dispatch_queue_head = dispatch_queue_tail
                    /\ ~continue_fetch THEN "done" ELSE "update_state"
  BY DEF UpdateState2, Sorted, Empty, fetching
<1>2. order \in Bijection(Row, Row)
  <2>1. small \in SUBSET (Row \X Row)
    OBVIOUS
  <2> HIDE DEF small
  <2> QED BY <2>1, Permutation
<1>3. /\ RowsOK(rows, dispatch_queue_head)
      /\ OccupiedIn(rows) = Occupied \ finished_fu
      /\ \A i \in OccupiedIn(rows) : i \in Row /\ i \notin finished_fu /\ rows[i] = schedule_queue[i]
      /\ Cardinality(OccupiedIn(rows)) = inst_cnt_sq - Cardinality(finished_fu)
  BY <1>1, FreedRows, Zenon
<1> HIDE DEF rows, order
<1>4. new = [i \in Row |-> rows[order[i]]]
  OBVIOUS
<1> HIDE DEF new
<1>5. /\ \A i \in Row : order[i] \in Row /\ new[i] = rows[order[i]]
      /\ OccupiedIn(new) = {i \in Row : order[i] \in OccupiedIn(rows)}
  <2>1. RowsOK(rows, dispatch_queue_head)
    BY <1>3
  <2>2. /\ RowsOK(new, dispatch_queue_head)
        /\ \A i \in Row : order[i] \in Row /\ new[i] = rows[order[i]]
        /\ OccupiedIn(new) = {i \in Row : order[i] \in OccupiedIn(rows)}
        /\ FiredIn(new) = {i \in Row : order[i] \in FiredIn(rows)}
        /\ \A ops : WorkingIn(new, ops) = {i \in Row : order[i] \in WorkingIn(rows, ops)}
        /\ Cardinality(OccupiedIn(new)) = Cardinality(OccupiedIn(rows))
        /\ \A add, ls, ls_fu : UnitsOK(rows, add, ls, ls_fu) => UnitsOK(new, add, ls, ls_fu)
    BY <1>2, <1>4, <2>1, PermutedRows
  <2> QED BY <2>2
<1>6. /\ \A i, j \in Row : order[i] = order[j] => i = j
      /\ \A j \in Row : \E i \in Row : order[i] = j
  BY <1>2 DEF Bijection, Injection, Surjection, IsInjective
<1>7. Live = OccupiedIn(rows) /\ Live \subseteq Row
  BY <1>3 DEF Live, Occupied
<1>8. Live' = still /\ Over' = Over /\ (AllRead' <=> AllRead)
  BY <1>1 DEF Live, Over, Occupied, OccupiedIn, AllRead
<1>9. \A i \in still : i \in Row /\ order[i] \in Live /\ new[i] = schedule_queue[order[i]]
  BY <1>3, <1>5, <1>7
<1>10. WorkInv
  BY DEF TimeInv
<1>11. WorkOK(new, {})
  <2>1. \A i \in still : order[i] \in OccupiedIn(schedule_queue) /\ new[i] = schedule_queue[order[i]]
    BY <1>9, RowSet DEF Live
  <2> QED BY <1>10, <2>1 DEF WorkInv, WorkOK, InstOf
<1>12. StalledOK(Over, dispatch_queue_head, branch_started)'
  BY <1>1, <1>8, <1>10 DEF WorkInv, StalledOK, Mispredicted, Inst
<1>13. FedOK'
  BY <1>1, <1>10 DEF WorkInv, FedOK
<1>14. PICK n \in Nat : /\ Covers(n, cycle, schedule_queue, Live, dispatch_queue_head)
                        /\ Enough("update_state_2", n, schedule_queue, Live, finished_fu, AllRead, continue_fetch)
  BY <1>1 DEF TimeInv
<1> DEFINE ends == EndsIn(schedule_queue, Live)
           left == Live \ ends
           last == EndsIn(new, still)
<1>15. /\ last = {i \in Row : order[i] \in ends}
       /\ still \ last = {i \in Row : order[i] \in left}
  <2>1. still = {i \in Row : order[i] \in Live} /\ \A i \in still : new[i] = schedule_queue[order[i]]
    BY <1>5, <1>7, <1>9
  <2>2. last = {i \in Row : order[i] \in ends}
    BY <2>1 DEF EndsIn
  <2> HIDE DEF last, ends, still
  <2> QED BY <2>1, <2>2
<1>16. Reserve(last, still \ last) = Reserve(ends, left) /\ (still \ last = {} <=> left = {})
  <2>1. ends \subseteq Row /\ left \subseteq Row
    BY <1>7 DEF EndsIn
  <2>2. still \ last = {} <=> left = {}
    <3> HIDE DEF left, last, still
    <3> QED BY <1>5, <1>6, <1>15, <2>1
  <2>3. Cardinality(still \ last) = Cardinality(left)
    <3> HIDE DEF left, last, still
    <3> QED BY <1>2, <1>15, <2>1, PermutedSet
  <2>4. last \cup (still \ last) = Row <=> ends \cup left = Row
    <3> HIDE DEF left, ends, last, still
    <3> QED BY <1>5, <1>6, <1>15, <2>1
  <2> HIDE DEF left, ends, last, still
  <2> QED BY <2>2, <2>3, <2>4 DEF Reserve
<1>17. n >= 1 /\ (step' = "update_state" => n - 1 >= Coming(last, still \ last, AllRead'))
  <2>1. \/ n >= Coming(ends, left, AllRead) + 1
        \/ Live = {} /\ AllRead /\ n >= 1 /\ ~continue_fetch
    BY <1>14 DEF Enough
  <2>2. Coming(last, still \ last, AllRead') = Coming(ends, left, AllRead)
    BY <1>8, <1>16 DEF Coming
  <2>3. Coming(ends, left, AllRead) \in Nat
    BY DEF Coming, Reserve
  <2>4. CASE Live = {} /\ AllRead /\ n >= 1 /\ ~continue_fetch
    <3>1. inst_cnt_sq' = 0
      BY <1>1, <1>3, <1>7, <2>4, FS_EmptySet
    <3> QED BY <1>1, <2>4, <3>1 DEF AllRead
  <2>5. CASE n >= Coming(ends, left, AllRead) + 1
    BY <2>2, <2>3, <2>5
  <2> QED BY <2>1, <2>4, <2>5
<1>18. Enough(step', n - 1, new, still, {}, AllRead', continue_fetch')
  BY <1>1, <1>17 DEF Enough
<1>19. Covers(n, cycle, new, still, dispatch_queue_head)
  <2>1. \A i \in still : /\ order[i] \in Live /\ schedule_queue[order[i]].seq = new[i].seq
                         /\ EarnedIn(schedule_queue[order[i]]) = EarnedIn(new[i])
    BY <1>9
  <2> HIDE DEF still
  <2> QED BY <1>14, <2>1, AccountKept
<1>20. Covers(n - 1, cycle + 1, new, still, dispatch_queue_head)
  BY <1>19, CoversLess DEF Inv, TypeInv
<1> HIDE DEF still
<1> QED
  BY <1>1, <1>8, <1>11, <1>12, <1>13, <1>17, <1>18, <1>20, TimeStep

-----------------------------------------------------------------------------
(* Steps that leave the instructions in their rows; execute_instr, in which those that have
   fired earn. *)

\* The rows of W earn another cycle each, and those of V one more.
LEMMA LiveGains ==
    ASSUME Inv, DataInv, WorkInv, NEW n \in Int,
           Covers(n, cycle, schedule_queue, Live, dispatch_queue_head), NEW new,
           NEW W \in SUBSET Live, NEW V \in SUBSET Live,
           \A i \in Live : /\ new[i].seq = schedule_queue[i].seq
                           /\ EarnedIn(new[i]) \in Nat
                           /\ EarnedIn(new[i]) <= CyclesFor(InstOf(schedule_queue[i]).op)
                           /\ EarnedIn(schedule_queue[i]) + Gain(i, W, V) <= EarnedIn(new[i])
    PROVE  /\ Cardinality(W) \in Nat /\ Cardinality(V) \in Nat
           /\ Covers(n + Cardinality(W) + Cardinality(V), cycle, new, Live, dispatch_queue_head)
<1> DEFINE seq(i) == schedule_queue[i].seq
           S == {seq(i) : i \in W}
           B == {seq(i) : i \in V}
<1>1. \A i \in Live : /\ i \in Row /\ seq(i) \in Tag /\ seq(i) \in Nat /\ seq(i) < dispatch_queue_head
                      /\ EarnedIn(schedule_queue[i]) \in Nat
                      /\ CyclesFor(InstOf(schedule_queue[i]).op) \in Nat \ {0}
                      /\ \A j \in Live : seq(j) = seq(i) => j = i
  <2> SUFFICES ASSUME NEW i \in Live
               PROVE  /\ i \in Row /\ seq(i) \in Tag /\ seq(i) \in Nat /\ seq(i) < dispatch_queue_head
                      /\ EarnedIn(schedule_queue[i]) \in Nat
                      /\ CyclesFor(InstOf(schedule_queue[i]).op) \in Nat \ {0}
                      /\ \A j \in Live : seq(j) = seq(i) => j = i
    OBVIOUS
  <2>1. InstOf(schedule_queue[i]).op \in Ops
    BY LiveRow
  <2>2. CyclesFor(InstOf(schedule_queue[i]).op) \in Nat \ {0}
    BY <2>1, Earning
  <2>3. \A j \in Live : j \in Occupied
    BY DEF Live
  <2> QED BY <2>2, <2>3, LiveRow
<1> HIDE DEF seq
<1>2. ASSUME NEW X \in SUBSET Live
      PROVE  Cardinality({seq(i) : i \in X}) = Cardinality(X) /\ Cardinality(X) \in Nat
  <2> DEFINE T == {seq(i) : i \in X}
             f == [i \in X |-> seq(i)]
  <2>1. f \in Bijection(X, T)
    BY <1>1 DEF Bijection, Injection, Surjection, IsInjective
  <2>2. IsFiniteSet(X) /\ Cardinality(X) \in Nat
    BY <1>1, RowsFinite
  <2> HIDE DEF f, T
  <2>3. ExistsBijection(X, T)
    BY <2>1 DEF ExistsBijection
  <2>4. Cardinality(T) = Cardinality(X)
    BY <2>2, <2>3, FS_Bijection
  <2> QED BY <2>2, <2>4 DEF T
<1>3. /\ Cardinality(S) = Cardinality(W) /\ Cardinality(W) \in Nat
      /\ Cardinality(B) = Cardinality(V) /\ Cardinality(V) \in Nat
  BY <1>2
<1>4. \A i \in Live : (seq(i) \in S <=> i \in W) /\ (seq(i) \in B <=> i \in V)
  BY <1>1
<1>5. \A i \in Live : Gain(seq(i), S, B) = Gain(i, W, V)
  <2> HIDE DEF S, B
  <2> QED BY <1>4 DEF Gain
<1>6. S \subseteq Tag /\ B \subseteq Tag /\ \A s \in S \cup B : \E i \in Live : s = seq(i)
  BY <1>1
<1> HIDE DEF S, B
<1>7. \A i \in Live : Gain(seq(i), S, B) \in Nat
  BY DEF Gain
<1>8. ASSUME NEW s \in S \cup B
      PROVE  /\ s < dispatch_queue_head
             /\ IF s >= dispatch_queue_head THEN s \notin B
                ELSE \E j \in Live : /\ schedule_queue[j].seq = s /\ EarnedIn(schedule_queue[j]) \in Int
                                     /\ EarnedIn(schedule_queue[j]) + Gain(s, S, B) <= CyclesFor(Inst(s).op)
  <2>1. PICK i \in Live : s = seq(i)
    BY <1>6
  <2>2. /\ s \in Nat /\ s < dispatch_queue_head /\ dispatch_queue_head \in Nat
        /\ EarnedIn(schedule_queue[i]) \in Nat
    BY <1>1, <2>1 DEF Inv, TypeInv
  <2>3. EarnedIn(schedule_queue[i]) + Gain(s, S, B) <= EarnedIn(new[i])
    BY <1>5, <2>1
  <2>4. EarnedIn(new[i]) <= CyclesFor(Inst(s).op) /\ EarnedIn(new[i]) \in Nat
    BY <2>1 DEF InstOf, seq
  <2>5. CyclesFor(Inst(s).op) \in Nat /\ Gain(s, S, B) \in Nat
    BY <1>1, <1>7, <2>1 DEF InstOf, seq
  <2>6. EarnedIn(schedule_queue[i]) + Gain(s, S, B) <= CyclesFor(Inst(s).op)
    BY <2>2, <2>3, <2>4, <2>5
  <2> QED BY <2>1, <2>2, <2>6 DEF seq
<1>9. ASSUME NEW i \in Live
      PROVE  /\ new[i].seq \in Tag /\ EarnedIn(new[i]) \in Nat
             /\ IF new[i].seq >= dispatch_queue_head THEN new[i].seq \notin S \cup B
                ELSE \E j \in Live : /\ schedule_queue[j].seq = new[i].seq /\ EarnedIn(schedule_queue[j]) \in Int
                                     /\ EarnedIn(schedule_queue[j]) + Gain(new[i].seq, S, B) <= EarnedIn(new[i])
  <2>1. new[i].seq = seq(i) /\ EarnedIn(schedule_queue[i]) + Gain(seq(i), S, B) <= EarnedIn(new[i])
    BY <1>5 DEF seq
  <2>2. seq(i) \in Tag /\ ~(seq(i) >= dispatch_queue_head) /\ EarnedIn(schedule_queue[i]) \in Int
    BY <1>1 DEF Inv, TypeInv
  <2> QED BY <2>1, <2>2 DEF seq
<1>10. trace \in Traces /\ cycle \in Int /\ dispatch_queue_head \in Nat
  BY DEF Inv, TypeInv
<1>11. Covers(n + Cardinality(S) + Cardinality(B), cycle, new, Live, dispatch_queue_head)
  BY <1>6, <1>8, <1>9, <1>10, AccountGrows
<1> QED
  BY <1>3, <1>11

\* A cycle of an instruction that has fired.
LEMMA RunEarns ==
    ASSUME NEW op \in Ops, NEW t \in TimeLeft(op),
           NEW u \in IF t = NotYet THEN {0, MissTime - 1} ELSE {t - 1}
    PROVE  /\ u > 0 => u \in TimeLeft(op)
           /\ Earned(op, u) \in Nat /\ Earned(op, u) <= CyclesFor(op)
           /\ Earned(op, t) + 1 <= Earned(op, u)
           /\ u = 0 /\ op = "BR" => Earned(op, t) + 2 <= Earned(op, u)
<1>1. /\ CyclesFor(op) \in Nat /\ Earned(op, 0) = CyclesFor(op)
      /\ t \in 1 .. NotYet /\ Earned(op, t) \in Nat /\ Earned(op, t) + 1 <= CyclesFor(op)
      /\ op = "BR" => Earned(op, t) + 2 <= CyclesFor(op)
      /\ t = NotYet => /\ MissTime - 1 \in TimeLeft(op)
                       /\ Earned(op, t) + 1 <= Earned(op, MissTime - 1)
      /\ t # NotYet /\ t # 1 => t - 1 \in TimeLeft(op) /\ Earned(op, t) + 1 <= Earned(op, t - 1)
  BY Earning
<1>2. CASE u = 0
  BY <1>1, <1>2
<1>3. CASE u # 0
  <2>1. u \in TimeLeft(op) /\ Earned(op, t) + 1 <= Earned(op, u)
    <3>1. CASE t = NotYet
      BY <1>1, <1>3, <3>1
    <3>2. CASE t # NotYet
      <4>1. u = t - 1 /\ t # 1
        BY <1>1, <1>3, <3>2
      <4> QED BY <1>1, <3>2, <4>1
    <3> QED BY <3>1, <3>2
  <2>2. Earned(op, u) \in Nat /\ Earned(op, u) + 1 <= CyclesFor(op)
    BY <2>1, Earning
  <2> QED BY <1>1, <1>3, <2>1, <2>2
<1> QED
  BY <1>2, <1>3

LEMMA ExecuteTime == ASSUME Inv, DataInv, TimeInv, ExecuteInstr PROVE TimeInv'
<1> DEFINE new == Executed.rows
           fired == FiredOf(schedule_queue, Live)
           ended == EndsIn(new, Live)
           wrong == {i \in ended : Mispredicted(schedule_queue[i].seq)}
<1>1. /\ step = "execute_instr" /\ step' = "schedule_instr" /\ finished_fu' = finished_fu
      /\ schedule_queue' = new /\ schedule_queue \in [Row -> RowType]
      /\ UNCHANGED <<trace, cycle, continue_fetch, dispatch_queue_tail, predicted_br,
                     dispatch_queue_head, branch_started, result>>
  BY DEF Inv, QueueInv, RowsOK, ExecuteInstr, At, fetching
<1>2. \A i \in Row : IF i \in Fired THEN new[i] \in Ran(i) ELSE new[i] = schedule_queue[i]
  BY <1>1, ExecutedRows
<1> HIDE DEF new
<1>3. \A i \in Row : /\ new[i].occupied = schedule_queue[i].occupied /\ new[i].seq = schedule_queue[i].seq
                     /\ new[i].fired = schedule_queue[i].fired
                     /\ new[i].ls_conflict_end = schedule_queue[i].ls_conflict_end
                     /\ new[i].src_reg_ready = schedule_queue[i].src_reg_ready
                     /\ i \in Fired => new[i].remaining_time \in Left(i)
  BY <1>1, <1>2 DEF Ran, RowType
<1>4. Live' = Live /\ Over' = Over /\ (AllRead' <=> AllRead)
  BY <1>1, <1>3 DEF Live, Over, Occupied, AllRead
<1>5. WorkInv
  BY DEF TimeInv
<1>6. ASSUME NEW i \in Live
      PROVE  LET row == schedule_queue[i]
                 op  == InstOf(row).op
                 u   == new[i].remaining_time
             IN  /\ i \in Row /\ op \in Ops /\ InstOf(new[i]).op = op /\ new[i].fired = row.fired
                 /\ ~row.fired => EarnedIn(row) = 0 /\ EarnedIn(new[i]) = 0
                 /\ row.fired => /\ EarnedIn(row) = Earned(op, row.remaining_time)
                                 /\ EarnedIn(new[i]) = Earned(op, u)
                                 /\ row.remaining_time \in TimeLeft(op)
                                 /\ u \in Left(i)
  <2> DEFINE row == schedule_queue[i]
             op  == InstOf(row).op
  <2>1. /\ i \in Row /\ i \in Occupied /\ i \notin finished_fu /\ row \in RowType /\ op \in Ops
        /\ row.fired /\ row.remaining_time > 0 => row.remaining_time \in TimeLeft(op)
    BY <1>5, LiveRow
  <2>2. InstOf(new[i]).op = op /\ new[i].fired = row.fired
    BY <1>3, <2>1 DEF InstOf
  <2>3. ASSUME row.fired PROVE row.remaining_time > 0 /\ new[i].remaining_time \in Left(i)
    <3>1. i \in Fired
      BY <2>1, <2>3 DEF Fired
    <3>2. row.remaining_time >= 0 /\ (row.remaining_time = 0 <=> i \in finished_fu)
      BY <1>1, <3>1 DEF Inv, ClockInv, BetweenCycles
    <3> QED BY <1>3, <2>1, <3>1, <3>2 DEF RowType
  <2> QED BY <2>1, <2>2, <2>3 DEF EarnedIn
<1>7. ASSUME NEW i \in Live
      PROVE  /\ new[i].seq = schedule_queue[i].seq
             /\ EarnedIn(new[i]) \in Nat
             /\ EarnedIn(new[i]) <= CyclesFor(InstOf(schedule_queue[i]).op)
             /\ EarnedIn(schedule_queue[i]) + Gain(i, fired, wrong) <= EarnedIn(new[i])
             /\ new[i].fired /\ new[i].remaining_time > 0
                => new[i].remaining_time \in TimeLeft(InstOf(new[i]).op)
  <2> DEFINE op == InstOf(schedule_queue[i]).op
             t  == schedule_queue[i].remaining_time
             u  == new[i].remaining_time
  <2>1. /\ i \in Row /\ new[i].seq = schedule_queue[i].seq /\ op \in Ops /\ InstOf(new[i]).op = op
        /\ new[i].fired = schedule_queue[i].fired
    BY <1>3, <1>6
  <2>2. CASE ~schedule_queue[i].fired
    <3>1. /\ EarnedIn(schedule_queue[i]) = 0 /\ EarnedIn(new[i]) = 0 /\ i \notin fired /\ i \notin wrong
      BY <1>6, <2>1, <2>2 DEF FiredOf, EndsIn
    <3>2. Gain(i, fired, wrong) = 0
      BY <3>1 DEF Gain
    <3>3. CyclesFor(op) \in Nat
      BY <2>1, Earning
    <3> QED BY <2>1, <2>2, <3>1, <3>2, <3>3
  <2>3. CASE schedule_queue[i].fired
    <3>1. /\ EarnedIn(schedule_queue[i]) = Earned(op, t) /\ EarnedIn(new[i]) = Earned(op, u)
          /\ t \in TimeLeft(op) /\ u \in Left(i)
      BY <1>6, <2>3
    <3>2. u \in IF t = NotYet THEN {0, MissTime - 1} ELSE {t - 1}
      BY <3>1 DEF Left
    <3>3. i \in wrong => u = 0 /\ op = "BR"
      BY DEF EndsIn, Mispredicted, InstOf
    <3>4. Gain(i, fired, wrong) = IF i \in wrong THEN 2 ELSE 1
      BY <2>3 DEF Gain, FiredOf
    <3> HIDE DEF op, t, u, wrong
    <3>5. /\ u > 0 => u \in TimeLeft(op)
          /\ Earned(op, u) \in Nat /\ Earned(op, u) <= CyclesFor(op)
          /\ Earned(op, t) + 1 <= Earned(op, u)
          /\ u = 0 /\ op = "BR" => Earned(op, t) + 2 <= Earned(op, u)
      BY <2>1, <3>1, <3>2, RunEarns
    <3>6. EarnedIn(schedule_queue[i]) + Gain(i, fired, wrong) <= EarnedIn(new[i])
      BY <3>1, <3>3, <3>4, <3>5
    <3> QED BY <2>1, <3>1, <3>5, <3>6 DEF op, u
  <2> QED BY <2>2, <2>3
<1>8. OccupiedIn(new) = Occupied /\ Occupied \subseteq Row /\ finished_fu \subseteq Fired
  BY <1>3 DEF OccupiedIn, Occupied, Inv, ClockInv
<1>9. WorkOK(new, finished_fu)
  <2>1. ASSUME NEW i \in Occupied, new[i].fired, new[i].remaining_time > 0
        PROVE  new[i].remaining_time \in TimeLeft(InstOf(new[i]).op)
    <3>1. CASE i \in Live
      BY <1>7, <2>1, <3>1
    <3>2. CASE i \notin Live
      <4>1. i \in finished_fu /\ i \in Fired
        BY <1>8, <2>1, <3>2 DEF Live
      <4>2. schedule_queue[i].remaining_time = 0
        BY <1>1, <4>1 DEF Inv, ClockInv, BetweenCycles
      <4>3. new[i].remaining_time \in Left(i)
        BY <1>3, <1>8, <2>1, <4>1
      <4>4. new[i].remaining_time = -1
        BY <4>2, <4>3 DEF Left, NotYet
      <4> QED BY <2>1, <4>4
    <3> QED BY <3>1, <3>2
  <2>2. \A i \in Occupied : \A k \in 1 .. 2 : InstOf(new[i]).src[k] = -1 => new[i].src_reg_ready[k]
    BY <1>3, <1>5, <1>8, RowSet DEF WorkInv, WorkOK, InstOf
  <2>3. \A i \in finished_fu : ~new[i].ls_conflict_end
    BY <1>3, <1>5, <1>8 DEF WorkInv, WorkOK, Fired
  <2> QED BY <1>8, <2>1, <2>2, <2>3 DEF WorkOK
<1>10. StalledOK(Over, dispatch_queue_head, branch_started)'
  BY <1>1, <1>4, <1>5 DEF WorkInv, StalledOK, Mispredicted, Inst
<1>11. FedOK'
  BY <1>1, <1>5 DEF WorkInv, FedOK
<1>12. PICK n \in Nat : /\ Covers(n, cycle, schedule_queue, Live, dispatch_queue_head)
                        /\ Enough("execute_instr", n, schedule_queue, Live, finished_fu, AllRead, continue_fetch)
  BY <1>1 DEF TimeInv
<1> DEFINE k == n + Cardinality(fired) + Cardinality(wrong)
<1>13. k \in Nat /\ Covers(k, cycle, new, Live, dispatch_queue_head)
  <2>1. fired \in SUBSET Live /\ wrong \in SUBSET Live
    BY DEF FiredOf, EndsIn
  <2> HIDE DEF fired, wrong
  <2> QED BY <1>5, <1>7, <1>12, <2>1, LiveGains
<1>14. Enough("schedule_instr", k, new, Live, finished_fu, AllRead', continue_fetch')
  <2>1. fired = FiredOf(new, Live)
    BY <1>6 DEF FiredOf
  <2>2. n >= Coming(finished_fu, Live, AllRead') /\ Coming(finished_fu, Live, AllRead') \in Nat
    BY <1>4, <1>12 DEF Enough, Coming, Reserve
  <2>3. Cardinality(wrong) >= Bonus(new, Live) /\ Bonus(new, Live) \in Nat
    <3>1. wrong \in SUBSET Row
      BY <1>6 DEF EndsIn
    <3>a. \A i \in ended : new[i].seq = schedule_queue[i].seq
      BY <1>7 DEF EndsIn
    <3>2. wrong # {} => Bonus(new, Live) = 1
      <4> HIDE DEF ended
      <4> QED BY <3>a DEF Bonus, ended
    <3>3. wrong = {} => Bonus(new, Live) = 0
      <4> HIDE DEF ended
      <4> QED BY <3>a DEF Bonus, ended
    <3> HIDE DEF wrong
    <3>4. Cardinality(wrong) \in Nat /\ (Cardinality(wrong) = 0 <=> wrong = {})
      BY <3>1, RowsFinite, FS_EmptySet
    <3> QED BY <3>2, <3>3, <3>4
  <2>4. Cardinality(fired) \in Nat /\ Cardinality(wrong) \in Nat
    BY <1>6, RowsFinite DEF FiredOf, EndsIn
  <2> HIDE DEF fired, wrong
  <2>5. k >= Coming(finished_fu, Live, AllRead') + Cardinality(fired) + Bonus(new, Live)
    BY <2>2, <2>3, <2>4
  <2> QED BY <2>1, <2>5 DEF Enough
<1> HIDE DEF k
<1> QED
  BY <1>1, <1>4, <1>9, <1>10, <1>11, <1>13, <1>14, TimeStep

-----------------------------------------------------------------------------
(* schedule_instr: when nothing executes, the oldest instruction fires at the latest. *)

LEMMA FiringEarns ==
    ASSUME NEW op \in Ops, op # "NOP"
    PROVE  /\ FireTime(op) \in TimeLeft(op) /\ FireTime(op) > 0
           /\ Earned(op, FireTime(op)) = 1 /\ 1 <= CyclesFor(op)
<1>1. op \in {"ADD", "MUL", "BR"} => ~Memory(op)
  BY DEF Memory
<1>2. op \in {"LOAD", "STORE"} => Memory(op)
  BY DEF Memory
<1>3. CASE op \in {"LOAD", "STORE"}
  BY <1>2, <1>3 DEF CyclesFor, Earned, TimeLeft, MissTime, NotYet, FireTime
<1>4. CASE op = "MUL"
  BY <1>1, <1>4 DEF CyclesFor, Earned, TimeLeft, MulTime, NotYet, FireTime
<1>5. CASE op \in {"ADD", "BR"}
  BY <1>1, <1>5 DEF CyclesFor, Earned, TimeLeft, NotYet, FireTime
<1> QED
  BY <1>3, <1>4, <1>5 DEF Ops

\* The oldest live row, and nothing executes.
Starts(i) == /\ i \in Waiting /\ Ready(i)
             /\ \A j \in Live : ~schedule_queue[j].fired /\ schedule_queue[i].seq <= schedule_queue[j].seq

LEMMA WaitingRow ==
    ASSUME Inv
    PROVE  /\ Waiting \subseteq Live
           /\ \A i \in Waiting : i \in Row /\ schedule_queue[i].occupied /\ ~schedule_queue[i].fired
           /\ \A i \in Live : i \in Waiting \/ schedule_queue[i].fired
           /\ \A i \in Occupied \ Live : i \in finished_fu /\ schedule_queue[i].fired
<1>1. finished_fu \subseteq Fired
  BY DEF Inv, ClockInv
<1> QED
  BY <1>1 DEF Live, Waiting, Waits, Occupied, Fired

\* It waits for no value: those that compute one are older.
LEMMA OldestStarts ==
    ASSUME Inv, DataInv, WorkInv, Live # {}, FiredOf(schedule_queue, Live) = {}
    PROVE  \E i \in Live : Starts(i)
<1> DEFINE seqs == {schedule_queue[j].seq : j \in Live}
<1>1. \A j \in Live : schedule_queue[j].seq \in Nat /\ ~schedule_queue[j].fired
  BY LiveRow DEF FiredOf
<1>2. seqs \in SUBSET Nat /\ seqs # {}
  BY <1>1
<1>3. Min(seqs) \in seqs /\ \A n \in seqs : Min(seqs) <= n
  <2> HIDE DEF seqs
  <2> QED BY <1>2, LeastOf
<1>4. PICK i \in Live : schedule_queue[i].seq = Min(seqs)
  BY <1>3
<1>5. \A j \in Live : schedule_queue[i].seq <= schedule_queue[j].seq
  BY <1>3, <1>4
<1> DEFINE row == schedule_queue[i]
<1>6. row \in RowType /\ i \in OccupiedIn(schedule_queue)
  BY LiveRow, RowSet
<1>7. ASSUME NEW k \in 1 .. 2 PROVE row.src_reg_ready[k] = TRUE
  <2> DEFINE r == InstOf(row).src[k]
  <2>0. row.src_reg_ready[k] \in BOOLEAN
    BY <1>6 DEF RowType
  <2>1. CASE r = -1
    BY <1>6, <2>0, <2>1 DEF WorkInv, WorkOK
  <2>2. CASE r # -1
    <3>1. SourceOK(Over, schedule_queue, Live, row, k)
      BY <1>6 DEF DataInv, FlowInv, FlowOK, SourcesOK
    <3>2. Comes(Over, schedule_queue, Live, row.seq, r, row.src_reg_ready[k], row.src_reg_tag[k])
      BY <2>2, <3>1 DEF SourceOK
    <3>3. SUFFICES ASSUME ~row.src_reg_ready[k] PROVE FALSE
      BY <2>0
    <3>4. PICK j \in Live : WriterOf(row.seq, r, schedule_queue[j].seq)
      BY <3>2, <3>3 DEF Comes
    <3>5. schedule_queue[j].seq < row.seq
      BY <1>1, <3>4 DEF WriterOf
    <3> QED BY <1>1, <1>5, <3>5
  <2> QED BY <2>1, <2>2
<1>8. row.src_reg_ready = <<TRUE, TRUE>>
  <2>1. row.src_reg_ready \in [1 .. 2 -> BOOLEAN]
    BY <1>6 DEF RowType
  <2> DEFINE both == <<TRUE, TRUE>>
  <2>2. both \in Seq(BOOLEAN) /\ Len(both) = 2 /\ both[1] = TRUE /\ both[2] = TRUE
    OBVIOUS
  <2> HIDE DEF both
  <2>3. both \in [1 .. 2 -> BOOLEAN] /\ \A k \in 1 .. 2 : k = 1 \/ k = 2
    BY <2>2
  <2>4. \A k \in 1 .. 2 : both[k] = row.src_reg_ready[k]
    BY <1>7, <2>2, <2>3
  <2>5. row.src_reg_ready = both
    BY <2>1, <2>3, <2>4
  <2> QED BY <2>5 DEF both
<1>9. i \in Waiting
  BY <1>1, WaitingRow
<1> QED
  BY <1>1, <1>5, <1>8, <1>9 DEF Starts, Ready

\* Nothing is in its way.
LEMMA StartsFires ==
    ASSUME Inv, DataInv, WorkInv, step = "schedule_instr", NEW i, Starts(i), NEW x, IssueOK(x),
           x.rows[i] = schedule_queue[i], \A j \in Row \ Waiting : x.rows[j] = schedule_queue[j],
           x.add = add_unit, x.mul = 1, x.ls = ls_unit, x.ls_fu = ls_functional_unit
    PROVE  MayFire(x, i)
<1> DEFINE row == schedule_queue[i]
           op  == InstOf(row).op
<1>1. /\ i \in Row /\ i \in Live /\ row.occupied /\ ~row.fired /\ op \in Ops /\ op # "NOP" /\ row.seq \in Nat
  <2>1. i \in Live
    BY WaitingRow DEF Starts
  <2> QED BY <2>1, WaitingRow, LiveRow DEF Starts
<1>2. BothReady(x.rows[i])
  BY DEF Starts, Ready, BothReady
<1>3. \A ops : WorkingIn(schedule_queue, ops) = {}
  <2>1. ASSUME NEW j \in Fired PROVE ~(schedule_queue[j].remaining_time > 0)
    <3>1. j \in Occupied /\ schedule_queue[j].fired
      BY DEF Fired
    <3>2. j \in finished_fu
      BY <3>1, WaitingRow DEF Starts, Live
    <3>3. schedule_queue[j].remaining_time = -1
      BY <3>2 DEF Inv, ClockInv, BetweenCycles
    <3> QED BY <3>3
  <2> QED BY <2>1, RowSet DEF WorkingIn
<1>4. /\ x.add > 0 /\ x.ls > 0 /\ x.mul > 0
      /\ \A u \in LsUnit : ~x.ls_fu[u].busy
  <2>1. UnitsOK(schedule_queue, add_unit, ls_unit, ls_functional_unit)
    BY DEF Inv, UnitsInv
  <2>2. add_unit = K0 - Cardinality({}) /\ ls_unit = K2 - Cardinality({})
    BY <1>3, <2>1 DEF UnitsOK
  <2>3. K0 \in Nat \ {0} /\ K2 \in Nat \ {0}
    BY ProcAssumption
  <2>4. \A u \in LsUnit : ~ls_functional_unit[u].busy
    BY <1>3, <2>1 DEF UnitsOK
  <2> QED BY <2>2, <2>3, <2>4, FS_EmptySet
<1>5. cache_opeable(Marked(x, i), row.seq)
  <2> DEFINE y == Marked(x, i)
  <2>1. /\ x \in WorkType /\ \A j \in Row : /\ x.rows[j].occupied = schedule_queue[j].occupied
                                            /\ x.rows[j].seq = schedule_queue[j].seq
    BY DEF IssueOK, IssuedAs
  <2>2. y.ls_fu = x.ls_fu /\ Marks(x, y, i)
    BY <1>1, <2>1, MarkedRow
  <2> HIDE DEF y
  <2>3. \A u \in LsUnit : ~UnitInTheWay(y.ls_fu[u], Inst(row.seq))
    BY <1>4, <2>2 DEF UnitInTheWay
  <2>4. ASSUME NEW j \in Row, RowInTheWay(y.rows[j], row.seq) PROVE FALSE
    <3>1. y.rows[j].occupied /\ y.rows[j].ls_conflict_end /\ y.rows[j].seq < row.seq
      BY <2>4 DEF RowInTheWay
    <3>2. j # i
      BY <1>1, <2>1, <2>2, <3>1 DEF Marks
    <3>3. schedule_queue[j].occupied /\ x.rows[j].ls_conflict_end /\ schedule_queue[j].seq < row.seq
      BY <2>1, <2>2, <3>1, <3>2 DEF Marks
    <3>4. j \notin Live
      <4>1. ASSUME j \in Live PROVE FALSE
        <5>1. row.seq <= schedule_queue[j].seq /\ schedule_queue[j].seq \in Nat
          BY <4>1, LiveRow DEF Starts
        <5> QED BY <1>1, <3>3, <5>1
      <4> QED BY <4>1
    <3>5. j \in finished_fu /\ schedule_queue[j].fired
      BY <3>3, <3>4, WaitingRow DEF Occupied
    <3>6. x.rows[j] = schedule_queue[j]
      BY <3>5, WaitingRow
    <3> QED BY <3>3, <3>5, <3>6 DEF WorkInv, WorkOK
  <2> QED BY <2>3, <2>4 DEF cache_opeable, y
<1>6. op \in {"ADD", "BR"} \/ op = "MUL" \/ Memory(op)
  BY <1>1 DEF Ops, Memory
<1> QED
  BY <1>2, <1>4, <1>5, <1>6 DEF MayFire

\* After the first m rows of the loop.
IssueTime(x, m) ==
    /\ \A i \in Row : i \notin Waiting \/ i > m => x.rows[i] = schedule_queue[i]
    /\ \A i \in Waiting : x.rows[i].fired =>
          x.rows[i].remaining_time = FireTime(InstOf(schedule_queue[i]).op)
    /\ \/ \E i \in Waiting : x.rows[i].fired
       \/ /\ x.add = add_unit /\ x.mul = 1 /\ x.ls = ls_unit /\ x.ls_fu = ls_functional_unit
          /\ \A i \in Waiting : i <= m => ~Starts(i)

LEMMA IssueTimeKeeps ==
    ASSUME Inv, DataInv, WorkInv, step = "schedule_instr", NEW i \in Row, NEW x, IssueOK(x),
           IssueTime(x, i - 1)
    PROVE  IssueTime(Issue(x, i), i)
<1> DEFINE y  == Issue(x, i)
           op == InstOf(x.rows[i]).op
<1>1. /\ i \in Nat /\ \A j \in Row : j \in Nat /\ (j <= i => j <= i - 1 \/ j = i) /\ (j > i => j > i - 1 /\ j # i)
      /\ i > i - 1 /\ Waiting \subseteq Row
  BY Queue DEF Waiting
<1>2. x.rows[i] = schedule_queue[i] /\ (Waits(x.rows[i]) <=> i \in Waiting) /\ x \in WorkType
  BY <1>1 DEF IssueTime, Waiting, IssueOK
<1>3. \/ ~Waits(x.rows[i]) /\ y = x
      \/ Waits(x.rows[i]) /\ ~MayFire(x, i) /\ y = Marked(x, i)
      \/ /\ Waits(x.rows[i]) /\ MayFire(x, i) /\ Marks(x, y, i) /\ Takes(x, y, op)
         /\ y.rows[i].fired /\ y.rows[i].remaining_time = FireTime(op)
  BY IssueCases
<1> HIDE DEF y
<1> SUFFICES IssueTime(y, i)
  BY DEF y
<1>4. CASE ~Waits(x.rows[i]) /\ y = x
  BY <1>1, <1>2, <1>4 DEF IssueTime
<1>5. CASE Waits(x.rows[i]) /\ ~MayFire(x, i) /\ y = Marked(x, i)
  <2>1. /\ \A j \in Row : j # i => y.rows[j] = x.rows[j]
        /\ ~y.rows[i].fired
        /\ y.add = x.add /\ y.mul = x.mul /\ y.ls = x.ls /\ y.ls_fu = x.ls_fu
    BY <1>2, <1>5, MarkedRow DEF Marks, Waits
  <2>2. \A j \in Row : j \notin Waiting \/ j > i => y.rows[j] = schedule_queue[j]
    BY <1>1, <1>2, <1>5, <2>1 DEF IssueTime
  <2>3. \A j \in Waiting : y.rows[j].fired =>
           y.rows[j].remaining_time = FireTime(InstOf(schedule_queue[j]).op)
    BY <1>1, <2>1 DEF IssueTime
  <2>4. CASE \E j \in Waiting : x.rows[j].fired
    <3>1. \E j \in Waiting : y.rows[j].fired
      BY <1>1, <1>5, <2>1, <2>4 DEF Waits
    <3> QED BY <2>2, <2>3, <3>1 DEF IssueTime
  <2>5. CASE /\ x.add = add_unit /\ x.mul = 1 /\ x.ls = ls_unit /\ x.ls_fu = ls_functional_unit
             /\ \A j \in Waiting : j <= i - 1 => ~Starts(j)
    <3>1. ~Starts(i)
      <4>1. \A j \in Row \ Waiting : x.rows[j] = schedule_queue[j]
        BY DEF IssueTime
      <4> QED BY <1>2, <1>5, <2>5, <4>1, StartsFires
    <3>2. \A j \in Waiting : j <= i => ~Starts(j)
      BY <1>1, <2>5, <3>1
    <3> QED BY <2>1, <2>2, <2>3, <2>5, <3>2 DEF IssueTime
  <2> QED BY <2>4, <2>5 DEF IssueTime
<1>6. CASE /\ Waits(x.rows[i]) /\ Marks(x, y, i)
           /\ y.rows[i].fired /\ y.rows[i].remaining_time = FireTime(op)
  <2>1. \A j \in Row : j # i => y.rows[j] = x.rows[j]
    BY <1>6 DEF Marks
  <2>2. op = InstOf(schedule_queue[i]).op /\ i \in Waiting
    BY <1>2, <1>6
  <2> HIDE DEF op
  <2>3. \A j \in Row : j \notin Waiting \/ j > i => y.rows[j] = schedule_queue[j]
    BY <1>1, <2>1, <2>2 DEF IssueTime
  <2>4. \A j \in Waiting : y.rows[j].fired =>
           y.rows[j].remaining_time = FireTime(InstOf(schedule_queue[j]).op)
    BY <1>1, <1>6, <2>1, <2>2 DEF IssueTime
  <2> QED BY <1>6, <2>2, <2>3, <2>4 DEF IssueTime
<1> QED
  BY <1>3, <1>4, <1>5, <1>6

LEMMA ScheduledTime ==
    ASSUME Inv, DataInv, WorkInv, step = "schedule_instr"
    PROVE  IssueOK(Scheduled) /\ IssueTime(Scheduled, schedule_queue_size)
<1> DEFINE w == [rows |-> schedule_queue, add |-> add_unit, mul |-> 1, ls |-> ls_unit,
                 ls_fu |-> ls_functional_unit]
           I == [m \in 0 .. schedule_queue_size |-> {x \in WorkType : IssueOK(x) /\ IssueTime(x, m)}]
<1>1. w \in WorkType /\ IssueOK(w)
  <2>1. w \in WorkType
    BY DEF Inv, QueueInv, UnitsInv, RowsOK, UnitsOK, WorkType
  <2>2. \A i \in Row : IssuedAs(schedule_queue[i], schedule_queue[i])
    BY DEF IssuedAs, Waits, Operands
  <2> QED BY <2>1, <2>2 DEF Inv, QueueInv, UnitsInv, IssueOK
<1>2. IssueTime(w, 0)
  <2>1. \A i \in Waiting : i \in Row /\ ~(i <= 0) /\ ~w.rows[i].fired
    BY Queue DEF Waiting, Waits
  <2> QED BY <2>1 DEF IssueTime
<1> HIDE DEF w
<1>3. /\ 0 \in 0 .. schedule_queue_size /\ schedule_queue_size \in 0 .. schedule_queue_size
      /\ \A m \in Row : m \in 0 .. schedule_queue_size /\ m - 1 \in 0 .. schedule_queue_size
  BY Queue
<1>4. w \in I[0]
  BY <1>1, <1>2, <1>3
<1>5. ASSUME NEW m \in Row, NEW x \in I[m - 1] PROVE Issue(x, m) \in I[m]
  <2>1. IssueOK(x) /\ IssueTime(x, m - 1)
    BY <1>3, <1>5
  <2>2. IssueOK(Issue(x, m)) /\ IssueTime(Issue(x, m), m)
    BY <2>1, IssueKeeps, IssueTimeKeeps
  <2>3. Issue(x, m) \in WorkType
    BY <2>2 DEF IssueOK
  <2> QED BY <1>3, <2>2, <2>3
<1> HIDE DEF I
<1>6. EachRow(Issue, w) \in I[schedule_queue_size]
  BY <1>4, <1>5, IssueLoop
<1>7. Scheduled = EachRow(Issue, w)
  BY DEF Scheduled, w
<1> QED
  BY <1>3, <1>6, <1>7 DEF I

LEMMA ScheduleTime == ASSUME Inv, DataInv, TimeInv, ScheduleInstr PROVE TimeInv'
<1> DEFINE new == Scheduled.rows
           old == FiredOf(schedule_queue, Live)
           fresh == {i \in Waiting : new[i].fired}
<1>1. /\ step = "schedule_instr" /\ step' = "dispatch_instr" /\ finished_fu' = finished_fu
      /\ schedule_queue' = new
      /\ UNCHANGED <<trace, cycle, continue_fetch, dispatch_queue_tail, predicted_br,
                     dispatch_queue_head, branch_started, result>>
  BY DEF ScheduleInstr, At, fetching
<1>2. WorkInv
  BY DEF TimeInv
<1>3. /\ \A i \in Row : /\ new[i].occupied = schedule_queue[i].occupied
                        /\ new[i].seq = schedule_queue[i].seq
                        /\ new[i].src_reg_ready = schedule_queue[i].src_reg_ready
                        /\ i \notin Waiting => new[i] = schedule_queue[i]
      /\ \A i \in Waiting : new[i].fired =>
            new[i].remaining_time = FireTime(InstOf(schedule_queue[i]).op)
      /\ (\A i \in Waiting : ~new[i].fired) => \A i \in Waiting : ~Starts(i)
  <2>1. IssueOK(Scheduled) /\ IssueTime(Scheduled, schedule_queue_size)
    BY <1>1, <1>2, ScheduledTime
  <2>2. \A i \in Waiting : i \in Row /\ i <= schedule_queue_size
    BY Queue DEF Waiting
  <2> QED BY <2>1, <2>2 DEF IssueOK, IssuedAs, Operands, IssueTime
<1> HIDE DEF new
<1>4. Live' = Live /\ Over' = Over /\ (AllRead' <=> AllRead)
  BY <1>1, <1>3 DEF Live, Over, Occupied, AllRead
<1>5. OccupiedIn(new) = Occupied /\ Occupied \subseteq Row /\ finished_fu \subseteq Occupied
  BY <1>3 DEF OccupiedIn, Occupied, Inv, ClockInv, Fired
<1>6. ASSUME NEW i \in Waiting, new[i].fired
      PROVE  LET op == InstOf(schedule_queue[i]).op
             IN  /\ op \in Ops /\ op # "NOP" /\ InstOf(new[i]).op = op
                 /\ new[i].remaining_time = FireTime(op)
  <2>1. i \in Live /\ i \in Row
    BY WaitingRow
  <2> QED BY <1>2, <1>3, <1>6, <2>1, LiveRow DEF InstOf
<1>7. ASSUME NEW i \in Live
      PROVE  /\ new[i].seq = schedule_queue[i].seq
             /\ EarnedIn(new[i]) \in Nat
             /\ EarnedIn(new[i]) <= CyclesFor(InstOf(schedule_queue[i]).op)
             /\ EarnedIn(schedule_queue[i]) + Gain(i, fresh, {}) <= EarnedIn(new[i])
  <2> DEFINE op == InstOf(schedule_queue[i]).op
  <2>1. /\ i \in Row /\ op \in Ops /\ op # "NOP" /\ new[i].seq = schedule_queue[i].seq
        /\ EarnedIn(schedule_queue[i]) \in Nat /\ EarnedIn(schedule_queue[i]) <= CyclesFor(op)
    BY <1>2, <1>3, LiveRow
  <2>2. CASE i \notin Waiting
    <3>1. Gain(i, fresh, {}) = 0 /\ new[i] = schedule_queue[i]
      BY <1>3, <2>1, <2>2 DEF Gain
    <3> QED BY <2>1, <3>1
  <2>3. CASE i \in Waiting /\ ~new[i].fired
    <3>1. /\ Gain(i, fresh, {}) = 0 /\ EarnedIn(new[i]) = 0 /\ EarnedIn(schedule_queue[i]) = 0
      BY <2>3, WaitingRow DEF Gain, EarnedIn
    <3> QED BY <2>1, <3>1
  <2>4. CASE i \in Waiting /\ new[i].fired
    <3>1. Gain(i, fresh, {}) = 1 /\ EarnedIn(schedule_queue[i]) = 0
      BY <2>4, WaitingRow DEF Gain, EarnedIn
    <3>2. EarnedIn(new[i]) = Earned(op, FireTime(op))
      BY <1>6, <2>4 DEF EarnedIn
    <3> HIDE DEF op
    <3>3. EarnedIn(new[i]) = 1 /\ 1 <= CyclesFor(op)
      BY <2>1, <3>2, FiringEarns
    <3> QED BY <2>1, <3>1, <3>3 DEF op
  <2> QED BY <2>2, <2>3, <2>4
<1>8. \A i \in fresh : new[i].remaining_time > 0 /\ new[i].remaining_time \in TimeLeft(InstOf(new[i]).op)
  <2> SUFFICES ASSUME NEW i \in fresh
               PROVE  new[i].remaining_time > 0 /\ new[i].remaining_time \in TimeLeft(InstOf(new[i]).op)
    OBVIOUS
  <2> DEFINE op == InstOf(schedule_queue[i]).op
  <2>1. op \in Ops /\ op # "NOP" /\ InstOf(new[i]).op = op /\ new[i].remaining_time = FireTime(op)
    BY <1>6
  <2> HIDE DEF op
  <2> QED BY <2>1, FiringEarns
<1>9. WorkOK(new, finished_fu)
  <2>1. \A i \in Occupied : new[i].fired /\ new[i].remaining_time > 0
                            => new[i].remaining_time \in TimeLeft(InstOf(new[i]).op)
    BY <1>2, <1>3, <1>5, <1>8, RowSet DEF WorkInv, WorkOK, InstOf
  <2>2. \A i \in Occupied : \A k \in 1 .. 2 : InstOf(new[i]).src[k] = -1 => new[i].src_reg_ready[k]
    BY <1>2, <1>3, <1>5, RowSet DEF WorkInv, WorkOK, InstOf
  <2>3. \A i \in finished_fu : ~new[i].ls_conflict_end
    <3>1. \A i \in finished_fu : i \in Row /\ i \notin Waiting
      BY <1>5, WaitingRow DEF Live
    <3> QED BY <1>2, <1>3, <3>1 DEF WorkInv, WorkOK
  <2> QED BY <1>5, <2>1, <2>2, <2>3 DEF WorkOK
<1>10. StalledOK(Over, dispatch_queue_head, branch_started)'
  BY <1>1, <1>2, <1>4 DEF WorkInv, StalledOK, Mispredicted, Inst
<1>11. FedOK'
  BY <1>1, <1>2 DEF WorkInv, FedOK
<1>12. PICK n \in Nat : /\ Covers(n, cycle, schedule_queue, Live, dispatch_queue_head)
                        /\ Enough("schedule_instr", n, schedule_queue, Live, finished_fu, AllRead, continue_fetch)
  BY <1>1 DEF TimeInv
<1> DEFINE k == n + Cardinality(fresh) + Cardinality({})
<1>13. /\ fresh \in SUBSET Live /\ Cardinality(fresh) \in Nat /\ Cardinality({}) = 0
       /\ Covers(k, cycle, new, Live, dispatch_queue_head)
  <2>1. fresh \in SUBSET Live /\ {} \in SUBSET Live
    BY WaitingRow
  <2> HIDE DEF fresh
  <2> QED BY <1>2, <1>7, <1>12, <2>1, LiveGains, FS_EmptySet
<1>14. /\ FiredOf(new, Live) = old \cup fresh /\ old \cap fresh = {} /\ EndsIn(new, Live) = EndsIn(schedule_queue, Live)
  <2>1. \A i \in Live : i \in Row /\ (i \in Waiting \/ schedule_queue[i].fired)
    BY <1>2, LiveRow, WaitingRow
  <2>2. \A i \in Live : new[i].fired <=> i \in old \/ i \in fresh
    BY <1>3, <2>1, WaitingRow DEF FiredOf
  <2>3. \A i \in fresh : i \notin old /\ i \in Live
    BY WaitingRow DEF FiredOf
  <2>4. \A i \in Live : i \in EndsIn(new, Live) <=> i \in EndsIn(schedule_queue, Live)
    <3>1. \A i \in Live : i \in Waiting => i \notin EndsIn(new, Live) /\ i \notin EndsIn(schedule_queue, Live)
      BY <1>8, WaitingRow DEF EndsIn
    <3>2. \A i \in Live : i \notin Waiting => new[i] = schedule_queue[i]
      BY <1>3, <2>1
    <3> QED BY <3>1, <3>2 DEF EndsIn
  <2>5. EndsIn(new, Live) \subseteq Live /\ EndsIn(schedule_queue, Live) \subseteq Live
        /\ FiredOf(new, Live) = {i \in Live : new[i].fired} /\ old \subseteq Live
    BY DEF EndsIn, FiredOf
  <2> HIDE DEF fresh, old
  <2>6. EndsIn(new, Live) = EndsIn(schedule_queue, Live)
    BY <2>4, <2>5, Zenon
  <2> QED BY <2>2, <2>3, <2>5, <2>6
<1>15. Cardinality(FiredOf(new, Live)) = Cardinality(old) + Cardinality(fresh) /\ Cardinality(old) \in Nat
  <2>1. old \in SUBSET Row /\ fresh \in SUBSET Row
    BY DEF FiredOf, Live, Occupied, Waiting
  <2> HIDE DEF old, fresh
  <2>2. /\ IsFiniteSet(old) /\ IsFiniteSet(fresh) /\ Cardinality(old) \in Nat /\ Cardinality(fresh) \in Nat
    BY <2>1, RowsFinite
  <2>3. Cardinality(old \cup fresh) = Cardinality(old) + Cardinality(fresh) - Cardinality(old \cap fresh)
    BY <2>2, FS_Union
  <2>4. FiredOf(new, Live) = old \cup fresh /\ Cardinality(old \cap fresh) = 0
    BY <1>14, FS_EmptySet
  <2> DEFINE a == Cardinality(old)
             b == Cardinality(fresh)
             c == Cardinality(old \cap fresh)
             d == Cardinality(old \cup fresh)
  <2>5. a \in Nat /\ b \in Nat /\ c = 0 /\ d = a + b - c
    BY <2>2, <2>3, <2>4
  <2> HIDE DEF a, b, c, d
  <2>6. d = a + b /\ a \in Nat
    BY <2>5
  <2> QED BY <2>4, <2>6 DEF a, b, d
<1>16. Bonus(new, Live) = Bonus(schedule_queue, Live)
  <2>1. \A i \in EndsIn(schedule_queue, Live) : new[i].seq = schedule_queue[i].seq
    BY <1>7 DEF EndsIn
  <2> QED BY <1>14, <2>1 DEF Bonus
<1>17. Live # {} => FiredOf(new, Live) # {}
  <2>1. CASE old # {}
    BY <1>14, <2>1
  <2>2. CASE old = {} /\ Live # {}
    <3>1. PICK i \in Live : Starts(i)
      BY <1>2, <2>2, OldestStarts
    <3>2. i \in Waiting
      BY <3>1 DEF Starts
    <3>3. PICK j \in Waiting : new[j].fired
      BY <1>3, <3>1, <3>2
    <3>4. j \in fresh
      BY <3>3
    <3> QED BY <1>14, <3>4
  <2> QED BY <2>1, <2>2
<1>18. Enough("dispatch_instr", k, new, Live, finished_fu, AllRead', continue_fetch')
  <2>1. n >= Coming(finished_fu, Live, AllRead') + Cardinality(old) + Bonus(new, Live)
    BY <1>4, <1>12, <1>16 DEF Enough, Coming
  <2>2. Coming(finished_fu, Live, AllRead') \in Nat /\ Bonus(new, Live) \in Nat
    BY DEF Coming, Reserve, Bonus
  <2> HIDE DEF old, fresh
  <2>3. k >= Coming(finished_fu, Live, AllRead') + Cardinality(FiredOf(new, Live)) + Bonus(new, Live)
    BY <1>13, <1>15, <2>1, <2>2
  <2> HIDE DEF k
  <2> QED BY <1>17, <2>3 DEF Enough
<1>19. k \in Nat
  <2> HIDE DEF fresh
  <2> QED BY <1>13
<1> HIDE DEF k
<1> QED
  BY <1>1, <1>4, <1>9, <1>10, <1>11, <1>13, <1>18, <1>19, TimeStep

-----------------------------------------------------------------------------
(* dispatch_instr: a free row is filled, and what is dropped has earned its cycle. *)

LEMMA FillTakes ==
    ASSUME Inv, NEW x, FillOK(x), NEW i \in Row, NEW y, y = Fill(x, i)
    PROVE  \/ y = x /\ (Stopped(x) \/ x.rows[i].occupied)
           \/ /\ ~Stopped(x) /\ y.rows = x.rows /\ y.stalled = x.stalled /\ y.head = dispatch_queue_tail
           \/ \E s \in Tag : /\ x.head <= s /\ s < dispatch_queue_tail /\ y.head = s + 1
                             /\ y.stalled = Mispredicted(s) /\ y.rows[i] = NewRow(s, x)
                             /\ \A j \in Row : j # i => y.rows[j] = x.rows[j]
<1> DEFINE s == SkipNops(x.head)
<1>1. /\ x \in FillType /\ x.head \in Nat /\ x.rows \in [Row -> RowType]
      /\ dispatch_queue_tail \in Nat /\ x.head <= dispatch_queue_tail
  BY DEF FillOK, FillType, Inv, TypeInv
<1>2. s \in x.head .. dispatch_queue_tail
  BY <1>1, SkipNopsRange
<1>3. CASE Stopped(x) \/ x.rows[i].occupied
  BY <1>3 DEF Fill, Stopped
<1>4. CASE ~(Stopped(x) \/ x.rows[i].occupied) /\ s = dispatch_queue_tail
  <2>1. y = [x EXCEPT !.head = s]
    BY <1>4 DEF Fill, Stopped
  <2> HIDE DEF s
  <2>2. y.head = s /\ y.rows = x.rows /\ y.stalled = x.stalled
    BY <1>1, <2>1 DEF FillType
  <2> QED BY <1>4, <2>2
<1>5. CASE ~(Stopped(x) \/ x.rows[i].occupied) /\ s # dispatch_queue_tail
  <2> DEFINE r    == NewRow(s, x)
             regs == IF Inst(s).dest = -1 THEN x.regs
                     ELSE [x.regs EXCEPT ![Inst(s).dest] = [tag |-> x.tag, ready |-> FALSE]]
             wrong == Mispredicted(s)
  <2>1. s \in Tag /\ x.head <= s /\ s < dispatch_queue_tail
    BY <1>1, <1>2, <1>5, TraceType DEF Inv, TypeInv, Tag
  <2>2. y = [x EXCEPT !.head = s + 1, !.tag = @ + 1, !.count = @ + 1, !.rows[i] = r,
                      !.regs = regs, !.stalled = wrong]
    <3> HIDE DEF r, regs, wrong
    <3> QED BY <1>5 DEF Fill, Stopped, s, r, regs, wrong
  <2> HIDE DEF r, regs, wrong, s
  <2>3. y.rows = [x.rows EXCEPT ![i] = r] /\ y.head = s + 1 /\ y.stalled = wrong
    BY <1>1, <2>2 DEF FillType
  <2>4. y.rows[i] = r /\ \A j \in Row : j # i => y.rows[j] = x.rows[j]
    BY <1>1, <2>3
  <2> QED BY <2>1, <2>3, <2>4 DEF r, wrong
<1> QED
  BY <1>3, <1>4, <1>5

LEMMA NotOver ==
    ASSUME Inv, NEW s \in Tag, s >= dispatch_queue_head, s < dispatch_queue_tail
    PROVE  s \notin Over
<1> DEFINE T == {t \in Tag : Len(times[t]) = 5}
<1>1. s \in Nat /\ temp_iterator \in Nat
  BY TraceType DEF Inv, TypeInv
<1>2. (s >= temp_iterator => Len(times[s]) = 1) /\ (s < temp_iterator => Len(times[s]) = 2)
  BY DEF Inv, TimesInv
<1>3. s \notin T
  BY <1>1, <1>2
<1> HIDE DEF T
<1>4. ToSet(result) \subseteq T
  BY Elements DEF T, Inv, TimesInv
<1> QED
  BY <1>3, <1>4 DEF Over

\* After the first m rows of the loop.
HasSources(row) == \A k \in 1 .. 2 : InstOf(row).src[k] = -1 => row.src_reg_ready[k]
FillTime(x, m) ==
    /\ \A i \in OccupiedIn(x.rows) : HasSources(x.rows[i])
    /\ StalledOK(Over, x.head, x.stalled)
    /\ x.stalled => branch_started \/ x.head > dispatch_queue_head
    /\ /\ \E i \in Row : i <= m /\ ~schedule_queue[i].occupied
       /\ ~branch_started /\ dispatch_queue_head < dispatch_queue_tail
       => x.head > dispatch_queue_head

LEMMA FillTimeKeeps ==
    ASSUME Inv, NEW x, FillOK(x), NEW i \in Row, FillTime(x, i - 1)
    PROVE  FillTime(Fill(x, i), i)
<1> DEFINE y == Fill(x, i)
<1>1. /\ x.head \in Nat /\ x.head >= dispatch_queue_head /\ x.head <= dispatch_queue_tail
      /\ dispatch_queue_head \in Nat /\ dispatch_queue_tail \in Nat
      /\ i \in Nat /\ \A j \in Row : j \in Nat /\ (j <= i => j <= i - 1 \/ j = i)
  BY Queue DEF FillOK, FillType, Inv, TypeInv
<1>2. \/ y = x /\ (Stopped(x) \/ x.rows[i].occupied)
      \/ /\ ~Stopped(x) /\ y.rows = x.rows /\ y.stalled = x.stalled /\ y.head = dispatch_queue_tail
      \/ \E s \in Tag : /\ x.head <= s /\ s < dispatch_queue_tail /\ y.head = s + 1
                        /\ y.stalled = Mispredicted(s) /\ y.rows[i] = NewRow(s, x)
                        /\ \A j \in Row : j # i => y.rows[j] = x.rows[j]
  BY FillTakes
<1> HIDE DEF y
<1> SUFFICES FillTime(y, i)
  BY DEF y
<1>3. CASE y = x /\ (Stopped(x) \/ x.rows[i].occupied)
  <2> SUFFICES ASSUME NEW j \in Row, j <= i, ~schedule_queue[j].occupied,
                      ~branch_started, dispatch_queue_head < dispatch_queue_tail
               PROVE  x.head > dispatch_queue_head
    BY <1>3 DEF FillTime
  <2>1. CASE j <= i - 1
    BY <2>1 DEF FillTime
  <2>2. CASE j = i /\ x.rows[i].occupied
    <3>1. x.rows[i].seq >= dispatch_queue_head /\ x.rows[i].seq < x.head /\ x.rows[i].seq \in Nat
      BY <2>2 DEF FillOK, RowsOK, OccupiedIn, RowType
    <3> QED BY <1>1, <3>1
  <2>3. CASE Stopped(x)
    BY <1>1, <2>3 DEF Stopped, FillTime
  <2> QED BY <1>1, <1>3, <2>1, <2>2, <2>3
<1>4. CASE /\ ~Stopped(x) /\ y.rows = x.rows /\ y.stalled = x.stalled /\ y.head = dispatch_queue_tail
  <2>1. ~y.stalled /\ y.head >= x.head
    BY <1>1, <1>4 DEF Stopped
  <2> QED BY <1>1, <1>4, <2>1 DEF FillTime, StalledOK
<1>5. ASSUME NEW s \in Tag, x.head <= s, s < dispatch_queue_tail, y.head = s + 1,
             y.stalled = Mispredicted(s), y.rows[i] = NewRow(s, x),
             \A j \in Row : j # i => y.rows[j] = x.rows[j]
      PROVE  FillTime(y, i)
  <2>1. s \in Nat /\ y.head \in Nat /\ y.head > dispatch_queue_head /\ y.head > 0 /\ y.head - 1 = s
        /\ s >= dispatch_queue_head
    <3>1. s \in Nat
      BY TraceType DEF Inv, TypeInv
    <3> QED BY <1>1, <1>5, <3>1
  <2>2. s \notin Over
    BY <1>5, <2>1, NotOver
  <2>3. HasSources(NewRow(s, x))
    <3> SUFFICES ASSUME NEW k \in 1 .. 2, InstOf(NewRow(s, x)).src[k] = -1
                 PROVE  NewRow(s, x).src_reg_ready[k]
      BY DEF HasSources
    <3>1. Inst(s).src[k] = -1
      BY NewRowType DEF InstOf, Inv
    <3> DEFINE ready(n) == Inst(s).src[n] = -1 \/ x.regs[Inst(s).src[n]].ready
               a == [n \in 1 .. 2 |-> ready(n)]
               b == [n \in 1 .. 2 |-> IF ready(n) THEN 0 ELSE x.regs[Inst(s).src[n]].tag]
    <3>2. a[k] = TRUE
      BY <3>1
    <3> HIDE DEF a, b
    <3>3. NewRow(s, x) = [EmptyRow EXCEPT !.occupied = TRUE, !.seq = s, !.dest_reg_tag = x.tag,
                                          !.src_reg_ready = a, !.src_reg_tag = b]
      BY DEF NewRow, a, b
    <3>4. NewRow(s, x).src_reg_ready = a
      BY <3>3, EmptyRowType DEF RowType
    <3> QED BY <3>2, <3>4
  <2>4. ASSUME NEW j \in OccupiedIn(y.rows) PROVE HasSources(y.rows[j])
    <3>1. CASE j = i
      BY <1>5, <2>3, <3>1
    <3>2. CASE j # i
      <4>1. j \in OccupiedIn(x.rows) /\ y.rows[j] = x.rows[j]
        BY <1>5, <2>4, <3>2 DEF OccupiedIn
      <4> QED BY <4>1 DEF FillTime
    <3> QED BY <3>1, <3>2
  <2>5. StalledOK(Over, y.head, y.stalled)
    BY <1>5, <2>1, <2>2 DEF StalledOK
  <2> QED BY <2>1, <2>4, <2>5 DEF FillTime
<1> QED
  BY <1>2, <1>3, <1>4, <1>5

LEMMA DispatchedTime ==
    ASSUME Inv, WorkInv
    PROVE  FillOK(Dispatched) /\ FillTime(Dispatched, schedule_queue_size)
<1> DEFINE w == [rows |-> schedule_queue, head |-> dispatch_queue_head, tag |-> instr_tag,
                 count |-> inst_cnt_sq, regs |-> register_file, stalled |-> branch_started]
           I == [m \in 0 .. schedule_queue_size |-> {x \in FillType : FillOK(x) /\ FillTime(x, m)}]
<1>1. w \in FillType /\ FillOK(w)
  <2>1. Cardinality(Occupied) \in Nat
    BY RowsFinite DEF Occupied
  <2>2. register_file \in [Reg -> [tag : Nat, ready : BOOLEAN]]
    BY DEF Inv, TypeInv, RegType
  <2>3. w \in FillType
    BY <2>1, <2>2 DEF Inv, QueueInv, TypeInv, RowsOK, FillType
  <2>4. dispatch_queue_head <= dispatch_queue_tail
    BY DEF Inv, TypeInv
  <2>5. /\ RowsOK(schedule_queue, dispatch_queue_head)
        /\ inst_cnt_sq = Cardinality(OccupiedIn(schedule_queue))
        /\ register_file \in [Reg -> RegType(instr_tag)] /\ dispatch_queue_head <= dispatch_queue_head
    BY RowSet DEF Inv, QueueInv, TypeInv
  <2> QED BY <2>3, <2>4, <2>5 DEF FillOK
<1>2. FillTime(w, 0)
  <2>1. \A i \in Row : ~(i <= 0)
    BY Queue
  <2> QED BY <2>1 DEF WorkInv, WorkOK, FillTime, HasSources
<1> HIDE DEF w
<1>3. /\ 0 \in 0 .. schedule_queue_size /\ schedule_queue_size \in 0 .. schedule_queue_size
      /\ \A m \in Row : m \in 0 .. schedule_queue_size /\ m - 1 \in 0 .. schedule_queue_size
  BY Queue
<1>4. w \in I[0]
  BY <1>1, <1>2, <1>3
<1>5. ASSUME NEW m \in Row, NEW x \in I[m - 1] PROVE Fill(x, m) \in I[m]
  <2>1. FillOK(x) /\ FillTime(x, m - 1)
    BY <1>3, <1>5
  <2>2. FillOK(Fill(x, m)) /\ FillTime(Fill(x, m), m)
    BY <2>1, FillKeeps, FillTimeKeeps
  <2>3. Fill(x, m) \in FillType
    BY <2>2 DEF FillOK
  <2> QED BY <1>3, <2>2, <2>3
<1> HIDE DEF I
<1>6. EachRow(Fill, w) \in I[schedule_queue_size]
  BY <1>4, <1>5, FillLoop
<1>7. Dispatched = EachRow(Fill, w)
  BY DEF Dispatched, w
<1> QED
  BY <1>3, <1>6, <1>7 DEF I

\* Instructions move to the rows of fresh; if none does, what leaves the queue are NOPs.
MovesTo(fresh, new, head) ==
    /\ OccupiedIn(new) \ finished_fu = Live \cup fresh /\ fresh \in SUBSET Row /\ fresh \cap Live = {}
    /\ \A i \in fresh : /\ new[i].seq \in Tag /\ new[i].seq >= dispatch_queue_head
                        /\ new[i].seq < head /\ ~new[i].fired /\ ~schedule_queue[i].occupied
    /\ \A i \in Occupied : new[i] = schedule_queue[i]
    /\ head \in Nat /\ dispatch_queue_head <= head /\ head <= dispatch_queue_tail
    /\ fresh = {} /\ dispatch_queue_head < head
       => dispatch_queue_head \in Tag /\ Inst(dispatch_queue_head).op = "NOP"

LEMMA DispatchedLive ==
    ASSUME Inv, DataInv, WorkInv, step = "dispatch_instr", NEW new, new = Dispatched.rows,
           NEW head, head = Dispatched.head, NEW fresh, fresh = OccupiedIn(new) \ Occupied
    PROVE  MovesTo(fresh, new, head)
<1>1. /\ FillOK(Dispatched) /\ FillFlow(Dispatched)
  BY DispatchedFlow DEF DataInv
<1>2. /\ head \in Nat /\ dispatch_queue_head <= head /\ head <= dispatch_queue_tail
      /\ new \in [Row -> RowType] /\ \A i \in OccupiedIn(new) : new[i].seq < head
      /\ \A i \in Row : IF schedule_queue[i].occupied THEN new[i] = schedule_queue[i]
                        ELSE new[i].occupied => ~new[i].fired /\ new[i].seq >= dispatch_queue_head
  BY <1>1 DEF FillOK, FillType, RowsOK
<1>3. /\ dispatch_queue_head \in Nat /\ dispatch_queue_tail \in Nat /\ dispatch_queue_tail <= Len(trace)
      /\ Len(trace) \in Nat
  BY TraceType DEF Inv, TypeInv
<1>4. finished_fu \subseteq Occupied
  BY DEF Inv, ClockInv, Fired
<1>5. Occupied \subseteq OccupiedIn(new) /\ OccupiedIn(new) \subseteq Row
  BY <1>2 DEF Occupied, OccupiedIn
<1>6. ASSUME NEW i \in fresh
      PROVE  /\ i \in Row /\ new[i].seq \in Tag /\ new[i].seq >= dispatch_queue_head
             /\ new[i].seq < head /\ ~new[i].fired /\ ~schedule_queue[i].occupied
  <2>1. i \in OccupiedIn(new) /\ i \in Row /\ new[i].occupied /\ ~schedule_queue[i].occupied
    BY DEF Occupied, OccupiedIn
  <2>2. new[i].seq \in Nat /\ new[i].seq < head
    BY <1>2, <2>1 DEF RowType
  <2> QED BY <1>2, <1>3, <2>1, <2>2 DEF Tag
<1>7. ASSUME fresh = {}, dispatch_queue_head < head
      PROVE  dispatch_queue_head \in Tag /\ Inst(dispatch_queue_head).op = "NOP"
  <2> DEFINE s == dispatch_queue_head
  <2>1. s \in 0 .. head - 1 /\ s \in Tag /\ s < dispatch_queue_tail /\ s >= dispatch_queue_head
    BY <1>2, <1>3, <1>7 DEF Tag
  <2>2. s \notin Over
    BY <2>1, NotOver
  <2>3. \/ Inst(s).op = "NOP" \/ s \in Over
        \/ \E i \in OccupiedIn(new) \ finished_fu : new[i].seq = s
    BY <1>1, <2>1 DEF FillFlow, FlowOK, KeptOK
  <2>4. ASSUME NEW i \in OccupiedIn(new) \ finished_fu, new[i].seq = s PROVE FALSE
    <3>1. i \in Live /\ new[i] = schedule_queue[i]
      BY <1>2, <1>5, <1>7 DEF Live, Occupied
    <3>2. schedule_queue[i].seq < dispatch_queue_head
      BY <3>1, LiveRow
    <3> QED BY <1>3, <2>4, <3>1, <3>2
  <2> QED BY <2>1, <2>2, <2>3, <2>4
<1>8. \A i \in Occupied : new[i] = schedule_queue[i]
  BY <1>2 DEF Occupied
<1>9. OccupiedIn(new) \ finished_fu = Live \cup fresh /\ fresh \in SUBSET Row /\ fresh \cap Live = {}
  BY <1>4, <1>5 DEF Live
<1> QED
  BY <1>2, <1>6, <1>7, <1>8, <1>9 DEF MovesTo

\* The first instruction of the dispatch queue is paid, or none is; others move to rows.
LEMMA QueueEarns ==
    ASSUME trace \in Traces, NEW rows, NEW live, NEW head \in Nat, NEW n \in Int, NEW now \in Int,
           Covers(n, now, rows, live, head), NEW new, NEW fresh, NEW next \in Nat, head <= next,
           \A i \in live : /\ new[i] = rows[i] /\ new[i].seq \in Tag /\ EarnedIn(new[i]) \in Nat
                           /\ new[i].seq \in Nat /\ new[i].seq < head,
           \A i \in fresh : new[i].seq \in Tag /\ new[i].seq >= head /\ ~new[i].fired,
           NEW S \in SUBSET Tag, S # {} => S = {head} /\ fresh = {} /\ head < next
    PROVE  /\ Cardinality(S) \in Nat
           /\ Covers(n + Cardinality(S) + Cardinality({}), now, new, live \cup fresh, next)
<1> DEFINE still == live \cup fresh
           B == {}
<1>1. \A s \in S \cup B :
         /\ s < next
         /\ IF s >= head THEN s \notin B
            ELSE \E j \in live : /\ rows[j].seq = s /\ EarnedIn(rows[j]) \in Int
                                 /\ EarnedIn(rows[j]) + Gain(s, S, B) <= CyclesFor(Inst(s).op)
  OBVIOUS
<1>2. \A i \in fresh : EarnedIn(new[i]) = 0 /\ S = {}
  BY DEF EarnedIn
<1>3. ASSUME NEW i \in still
      PROVE  /\ new[i].seq \in Tag /\ EarnedIn(new[i]) \in Nat
             /\ IF new[i].seq >= head THEN new[i].seq \notin S \cup B
                ELSE \E j \in live : /\ rows[j].seq = new[i].seq /\ EarnedIn(rows[j]) \in Int
                                     /\ EarnedIn(rows[j]) + Gain(new[i].seq, S, B) <= EarnedIn(new[i])
  <2>1. CASE i \in fresh /\ i \notin live
    <3>1. new[i].seq \in Tag /\ new[i].seq >= head /\ EarnedIn(new[i]) = 0 /\ S = {}
      BY <1>2, <2>1
    <3> QED BY <3>1
  <2>2. CASE i \in live
    <3> DEFINE s == new[i].seq
    <3>1. ~(s >= head) /\ s \notin S \cup B
      BY <2>2
    <3>2. Gain(s, S, B) = 0
      BY <3>1 DEF Gain
    <3> HIDE DEF B
    <3> QED BY <2>2, <3>1, <3>2
  <2> QED BY <2>1, <2>2
<1>4. B \in SUBSET Tag
  OBVIOUS
<1> HIDE DEF B, still
<1>5. /\ Cardinality(S) \in Nat /\ Cardinality(B) \in Nat
      /\ Covers(n + Cardinality(S) + Cardinality(B), now, new, still, next)
  BY <1>1, <1>3, <1>4, AccountGrows
<1> QED
  BY <1>5 DEF still, B

\* Unless an instruction moves to a row, what leaves the dispatch queue is a NOP.
LEMMA DropEarns ==
    ASSUME Inv, DataInv, WorkInv, NEW fresh, NEW new, NEW head, MovesTo(fresh, new, head), NEW n \in Nat,
           Covers(n, cycle, schedule_queue, Live, dispatch_queue_head)
    PROVE  /\ Covers(n, cycle, new, Live \cup fresh, head)
           /\ fresh = {} /\ dispatch_queue_head < head => Covers(n + 1, cycle, new, Live \cup fresh, head)
           /\ cycle = 0 => Covers(3, cycle, new, Live \cup fresh, head)
<1>1. /\ fresh \in SUBSET Row /\ fresh \cap Live = {}
      /\ \A i \in fresh : /\ new[i].seq \in Tag /\ new[i].seq >= dispatch_queue_head
                          /\ new[i].seq < head /\ ~new[i].fired /\ ~schedule_queue[i].occupied
      /\ \A i \in Occupied : new[i] = schedule_queue[i]
      /\ head \in Nat /\ dispatch_queue_head <= head
      /\ fresh = {} /\ dispatch_queue_head < head
         => dispatch_queue_head \in Tag /\ Inst(dispatch_queue_head).op = "NOP"
  BY DEF MovesTo
<1>2. trace \in Traces /\ cycle \in Int /\ dispatch_queue_head \in Nat
  BY DEF Inv, TypeInv
<1>3. \A s : Gain(s, {}, {}) = 0
  BY DEF Gain
<1>4. ASSUME NEW i \in Live
      PROVE  /\ new[i] = schedule_queue[i] /\ new[i].seq \in Tag /\ EarnedIn(new[i]) \in Nat
             /\ new[i].seq \in Nat /\ new[i].seq < dispatch_queue_head
  BY <1>1, LiveRow
<1>5. \A i \in fresh : EarnedIn(new[i]) = 0
  BY <1>1 DEF EarnedIn
<1>6. ASSUME NEW S \in SUBSET Tag,
             S # {} => S = {dispatch_queue_head} /\ fresh = {} /\ dispatch_queue_head < head
      PROVE  /\ Cardinality(S) \in Nat
             /\ Covers(n + Cardinality(S) + Cardinality({}), cycle, new, Live \cup fresh, head)
  <2>1. /\ \A i \in fresh : new[i].seq \in Tag /\ new[i].seq >= dispatch_queue_head /\ ~new[i].fired
        /\ head \in Nat /\ dispatch_queue_head <= head /\ n \in Int
    BY <1>1
  <2>2. /\ Cardinality(S) \in Nat
        /\ Covers(n + Cardinality(S) + Cardinality({}), cycle, new, Live \cup fresh, head)
    BY <1>2, <1>4, <1>6, <2>1, QueueEarns
  <2> QED BY <2>2
<1>7. Covers(n, cycle, new, Live \cup fresh, head)
  <2>1. Covers(n + Cardinality({}) + Cardinality({}), cycle, new, Live \cup fresh, head)
    BY <1>6
  <2>2. Cardinality({}) = 0 /\ n + 0 + 0 = n
    BY FS_EmptySet
  <2> QED BY <2>1, <2>2
<1>8. ASSUME fresh = {}, dispatch_queue_head < head PROVE Covers(n + 1, cycle, new, Live \cup fresh, head)
  <2> DEFINE S == {dispatch_queue_head}
  <2>1. S \in SUBSET Tag
    BY <1>1, <1>8
  <2>2. Covers(n + Cardinality(S) + Cardinality({}), cycle, new, Live \cup fresh, head)
    BY <1>6, <1>8, <2>1
  <2>3. Cardinality({}) = 0 /\ Cardinality(S) = 1
    BY FS_EmptySet, FS_Singleton
  <2> QED BY <2>2, <2>3
<1>9. cycle = 0 => Covers(3, cycle, new, Live \cup fresh, head)
  BY <1>2, <1>7, CoversLess
<1> QED
  BY <1>7, <1>8, <1>9

\* What can be dispatched is: when nothing is, and there is a free row, the account has grown.
LEMMA IdleEarns ==
    ASSUME Inv, DataInv, WorkInv, step = "dispatch_instr", NEW new, NEW head, MovesTo({}, new, head),
           dispatch_queue_head < dispatch_queue_tail => dispatch_queue_head < head, NEW n \in Nat,
           Covers(n, cycle, schedule_queue, Live, dispatch_queue_head),
           ~(head = dispatch_queue_tail /\ dispatch_queue_tail = Len(trace))
    PROVE  \E m \in Nat : (m = n + 1 \/ m >= 3) /\ Covers(m, cycle, new, Live, head)
<1>1. /\ dispatch_queue_head \in Nat /\ dispatch_queue_tail \in Nat /\ cycle \in Nat
      /\ dispatch_queue_head <= dispatch_queue_tail
  BY DEF Inv, TypeInv
<1>2. head \in Nat /\ head <= dispatch_queue_tail /\ dispatch_queue_head <= head
  BY DEF MovesTo
<1>3. /\ dispatch_queue_head < head => Covers(n + 1, cycle, new, Live, head)
      /\ cycle = 0 => Covers(3, cycle, new, Live, head)
  <2>1. Live \cup {} = Live
    OBVIOUS
  <2>2. /\ dispatch_queue_head < head => Covers(n + 1, cycle, new, Live \cup {}, head)
        /\ cycle = 0 => Covers(3, cycle, new, Live \cup {}, head)
    BY DropEarns
  <2> QED BY <2>1, <2>2
<1>4. CASE dispatch_queue_head < head
  <2>1. n + 1 \in Nat /\ Covers(n + 1, cycle, new, Live, head)
    BY <1>3, <1>4
  <2> QED BY <2>1
<1>5. CASE ~(dispatch_queue_head < head)
  <2>1. ~(dispatch_queue_head < dispatch_queue_tail)
    BY <1>1, <1>2, <1>5
  <2>2. head = dispatch_queue_tail
    BY <1>1, <1>2, <1>5, <2>1
  <2>3. cycle = 0
    BY <2>1, <2>2 DEF WorkInv, FedOK
  <2>4. 3 \in Nat /\ 3 >= 3 /\ Covers(3, cycle, new, Live, head)
    BY <1>3, <2>3
  <2> QED BY <2>4
<1> QED
  BY <1>4, <1>5

LEMMA DispatchTime == ASSUME Inv, DataInv, TimeInv, DispatchInstr PROVE TimeInv'
<1> DEFINE new   == Dispatched.rows
           head  == Dispatched.head
           fresh == OccupiedIn(new) \ Occupied
           still == Live \cup fresh
           ends  == EndsIn(schedule_queue, Live)
           fired == FiredOf(schedule_queue, Live)
           left  == still \ ends
           all   == head = dispatch_queue_tail /\ dispatch_queue_tail = Len(trace)
<1>1. /\ step = "dispatch_instr" /\ step' = "fetch_instr" /\ finished_fu' = finished_fu
      /\ schedule_queue' = new /\ dispatch_queue_head' = head /\ branch_started' = Dispatched.stalled
      /\ UNCHANGED <<trace, cycle, continue_fetch, dispatch_queue_tail, predicted_br, result>>
  BY DEF DispatchInstr, At, fetching
<1>2. WorkInv
  BY DEF TimeInv
<1>3. /\ OccupiedIn(new) \ finished_fu = still /\ fresh \in SUBSET Row /\ fresh \cap Live = {}
      /\ \A i \in fresh : /\ new[i].seq \in Tag /\ new[i].seq >= dispatch_queue_head
                          /\ new[i].seq < head /\ ~new[i].fired /\ ~schedule_queue[i].occupied
      /\ \A i \in Occupied : new[i] = schedule_queue[i]
      /\ head \in Nat /\ dispatch_queue_head <= head /\ head <= dispatch_queue_tail
      /\ MovesTo(fresh, new, head)
  <2>1. new = Dispatched.rows /\ head = Dispatched.head /\ fresh = OccupiedIn(new) \ Occupied
    OBVIOUS
  <2> HIDE DEF new, head, fresh
  <2>2. MovesTo(fresh, new, head)
    BY <1>1, <1>2, <2>1, DispatchedLive
  <2> QED BY <2>2 DEF MovesTo
<1>4. FillTime(Dispatched, schedule_queue_size)
  BY <1>2, DispatchedTime
<1> HIDE DEF new, head
<1>5. Live' = still /\ Over' = Over /\ (AllRead' <=> all)
  BY <1>1, <1>3 DEF Live, Over, Occupied, OccupiedIn, AllRead
<1>6. EndsIn(new, still) = ends
  BY <1>3 DEF EndsIn, Live
<1>7. WorkOK(new, finished_fu)
  <2>1. \A i \in OccupiedIn(new) : new[i].fired => i \in Occupied /\ new[i] = schedule_queue[i]
    BY <1>3
  <2>2. finished_fu \subseteq Occupied
    BY DEF Inv, ClockInv, Fired
  <2>3. \A i \in OccupiedIn(new) : \A k \in 1 .. 2 : InstOf(new[i]).src[k] = -1 => new[i].src_reg_ready[k]
    BY <1>4 DEF FillTime, HasSources, new
  <2>4. \A i \in OccupiedIn(new) : new[i].fired /\ new[i].remaining_time > 0
                                   => new[i].remaining_time \in TimeLeft(InstOf(new[i]).op)
    BY <1>2, <2>1, RowSet DEF WorkInv, WorkOK
  <2>5. \A i \in finished_fu : ~new[i].ls_conflict_end
    BY <1>2, <1>3, <2>2 DEF WorkInv, WorkOK
  <2> QED BY <2>3, <2>4, <2>5 DEF WorkOK
<1>8. StalledOK(Over, dispatch_queue_head, branch_started)'
  BY <1>1, <1>4, <1>5 DEF FillTime, StalledOK, Mispredicted, Inst, head
<1>9. FedOK'
  BY <1>1 DEF FedOK
<1>10. PICK n \in Nat : /\ Covers(n, cycle, schedule_queue, Live, dispatch_queue_head)
                        /\ Enough("dispatch_instr", n, schedule_queue, Live, finished_fu, AllRead, continue_fetch)
  BY <1>1 DEF TimeInv
<1> SUFFICES \E m \in Nat : /\ Covers(m, cycle, new, still, head)
                            /\ \/ m >= Coming(ends, left, all) + 1
                               \/ still = {} /\ all /\ m >= 1
  <2>1. PICK m \in Nat : /\ Covers(m, cycle, new, still, head)
                         /\ \/ m >= Coming(ends, left, all) + 1
                            \/ still = {} /\ all /\ m >= 1
    OBVIOUS
  <2>2. Enough("fetch_instr", m, new, still, finished_fu, AllRead', continue_fetch')
    <3> HIDE DEF all, still, ends
    <3> QED BY <1>5, <1>6, <2>1 DEF Enough, Coming
  <2> HIDE DEF still
  <2> QED BY <1>1, <1>5, <1>7, <1>8, <1>9, <2>1, <2>2, TimeStep
<1>11. Covers(n, cycle, new, still, head)
  <2> HIDE DEF fresh
  <2> QED BY <1>2, <1>3, <1>10, DropEarns
<1>12. ASSUME fresh = {}, \E i \in Row : ~schedule_queue[i].occupied, ~branch_started, ~all
       PROVE  \E m \in Nat : (m = n + 1 \/ m >= 3) /\ Covers(m, cycle, new, still, head)
  <2>1. dispatch_queue_head < dispatch_queue_tail => dispatch_queue_head < head
    <3>1. \A i \in Row : i <= schedule_queue_size
      BY Queue
    <3>2. dispatch_queue_head \in Nat /\ head \in Nat
      BY <1>3 DEF MovesTo, Inv, TypeInv
    <3> QED BY <1>4, <1>12, <3>1, <3>2 DEF FillTime, head
  <2> HIDE DEF fresh
  <2>2. MovesTo({}, new, head) /\ still = Live
    BY <1>3, <1>12
  <2>3. \E m \in Nat : (m = n + 1 \/ m >= 3) /\ Covers(m, cycle, new, Live, head)
    BY <1>1, <1>2, <1>10, <1>12, <2>1, <2>2, IdleEarns
  <2> QED BY <2>2, <2>3
\* The branch that dispatch waits for is in a live row.
<1>13. branch_started => \E i \in Live : Mispredicted(schedule_queue[i].seq)
  <2> SUFFICES ASSUME branch_started PROVE \E i \in Live : Mispredicted(schedule_queue[i].seq)
    OBVIOUS
  <2> DEFINE s == dispatch_queue_head - 1
  <2>1. dispatch_queue_head > 0 /\ Mispredicted(s) /\ s \notin Over
    BY <1>2 DEF WorkInv, StalledOK
  <2>2. s \in 0 .. dispatch_queue_head - 1
    BY <2>1 DEF Inv, TypeInv
  <2>3. Inst(s).op # "NOP"
    BY <2>1 DEF Mispredicted
  <2>4. \E i \in Live : schedule_queue[i].seq = s
    BY <2>1, <2>2, <2>3 DEF DataInv, FlowInv, FlowOK, KeptOK
  <2> QED BY <2>1, <2>4
<1>14. /\ IsFiniteSet(ends) /\ IsFiniteSet(fired) /\ Cardinality(ends) \in Nat /\ Cardinality(fired) \in Nat
       /\ ends \subseteq fired /\ fired \subseteq Live /\ Live \subseteq Row
       /\ Cardinality(ends) <= Cardinality(fired)
       /\ finished_fu \in SUBSET Row /\ \A i \in Row : schedule_queue[i].occupied <=> i \in finished_fu \cup Live
  <2>1. ends \subseteq fired /\ fired \subseteq Live /\ Live \subseteq Row
    BY DEF EndsIn, FiredOf, Live, Occupied
  <2>2. finished_fu \subseteq Occupied
    BY DEF Inv, ClockInv, Fired
  <2>3. finished_fu \in SUBSET Row /\ \A i \in Row : schedule_queue[i].occupied <=> i \in finished_fu \cup Live
    BY <2>2 DEF Live, Occupied
  <2> HIDE DEF ends, fired
  <2>4. ends \in SUBSET Row /\ fired \in SUBSET Row
    BY <2>1
  <2>5. /\ IsFiniteSet(ends) /\ IsFiniteSet(fired) /\ Cardinality(ends) \in Nat /\ Cardinality(fired) \in Nat
    BY <2>4, RowsFinite
  <2> QED BY <2>1, <2>3, <2>5, FS_Subset
<1>15. /\ n >= Coming(finished_fu, Live, AllRead) + Cardinality(fired) + Bonus(schedule_queue, Live)
       /\ Live # {} => fired # {}
       /\ Bonus(schedule_queue, Live) \in {0, 1}
  BY <1>10 DEF Enough, Bonus
<1>16. CASE Live = {}
  <2>1. ends = {} /\ fired = {} /\ Bonus(schedule_queue, Live) = 0 /\ still = fresh /\ left = fresh
    BY <1>16 DEF EndsIn, FiredOf, Bonus
  <2>2. n >= (IF finished_fu = Row THEN 1 ELSE 0) + 1 + (IF AllRead THEN 0 ELSE 1)
    <3>1. /\ Cardinality(fired) = 0 /\ Cardinality({}) = 0 /\ finished_fu \cup {} = finished_fu
      BY <2>1, FS_EmptySet
    <3>2. Coming(finished_fu, Live, AllRead)
             = 1 + (IF finished_fu = Row THEN 1 ELSE 0) + (IF AllRead THEN 0 ELSE 1)
      BY <1>16, <3>1 DEF Coming, Reserve
    <3> HIDE DEF fired
    <3> QED BY <1>15, <2>1, <3>1, <3>2
  <2>3. ~branch_started /\ 0 \in Nat
    BY <1>13, <1>16
  <2>4. {} # Row
    BY ThreeRows, FS_EmptySet
  <2>5. fresh = {} => Coming(ends, left, all) <= 2
    <3>1. fresh = {} => ends \cup left # Row
      BY <2>1, <2>4
    <3> HIDE DEF fresh, ends, left, all
    <3> QED BY <2>1, <3>1 DEF Coming, Reserve
  <2>6. fresh # {} => Coming(ends, left, all) = 1
    <3>1. ends \cup left = fresh /\ left = fresh
      BY <2>1
    <3> HIDE DEF fresh, ends, left, all
    <3>2. fresh = Row => ~(Cardinality(fresh) <= 1)
      BY ThreeRows, Queue
    <3> QED BY <3>1, <3>2 DEF Coming, Reserve
  <2>7. CASE AllRead
    <3>1. all /\ head = dispatch_queue_head
      BY <1>3, <2>7 DEF AllRead, Inv, TypeInv
    <3>2. fresh = {}
      BY <1>3, <3>1, TraceType DEF Inv, TypeInv
    <3>3. still = {} /\ n >= 1
      BY <2>1, <2>2, <2>7, <3>2
    <3> QED BY <1>11, <3>1, <3>3
  <2>8. CASE ~AllRead /\ fresh # {}
    <3>1. n >= Coming(ends, left, all) + 1
      BY <2>2, <2>6, <2>8
    <3> QED BY <1>11, <3>1
  <2>9. CASE ~AllRead /\ fresh = {} /\ (finished_fu = Row \/ all)
    <3>1. CASE finished_fu = Row
      <4>1. n >= 3
        BY <2>2, <2>9, <3>1
      <4>2. n >= Coming(ends, left, all) + 1
        <5> DEFINE c == Coming(ends, left, all)
        <5>1. c \in Int /\ c <= 2
          BY <2>5, <2>9 DEF Coming, Reserve
        <5> HIDE DEF c
        <5> QED BY <4>1, <5>1 DEF c
      <4> QED BY <1>11, <4>2
    <3>2. CASE all
      <4>1. n >= 2
        BY <2>2, <2>9
      <4>2. Coming(ends, left, all) = 1
        <5>1. left = {} /\ ends \cup left # Row
          BY <2>1, <2>4, <2>9
        <5> HIDE DEF ends, left, all
        <5> QED BY <3>2, <5>1 DEF Coming, Reserve
      <4> QED BY <1>11, <4>1, <4>2
    <3> QED BY <2>9, <3>1, <3>2
  <2>10. CASE ~AllRead /\ fresh = {} /\ finished_fu # Row /\ ~all
    <3>1. \E i \in Row : ~schedule_queue[i].occupied
      BY <1>14, <1>16, <2>10
    <3>2. PICK m \in Nat : (m = n + 1 \/ m >= 3) /\ Covers(m, cycle, new, still, head)
      <4> HIDE DEF fresh, all, still
      <4> QED BY <1>12, <2>3, <2>10, <3>1
    <3>3. m >= 3
      BY <2>2, <2>10, <3>2
    <3>4. m >= Coming(ends, left, all) + 1
      <4> DEFINE c == Coming(ends, left, all)
      <4>1. c \in Int /\ c <= 2
        BY <2>5, <2>10 DEF Coming, Reserve
      <4> HIDE DEF c
      <4> QED BY <3>3, <4>1 DEF c
    <3> QED BY <3>2, <3>4
  <2> QED BY <2>7, <2>8, <2>9, <2>10
<1>17. CASE Live # {}
  <2> DEFINE e == Cardinality(ends)
             f == Cardinality(fired)
             b == Bonus(schedule_queue, Live)
             c == Coming(ends, left, all)
             full == finished_fu \cup Live = Row /\ Cardinality(Live) <= 1
  <2>1. f >= 1
    <3> HIDE DEF fired
    <3>1. Cardinality(fired) # 0
      BY <1>14, <1>15, <1>17, FS_EmptySet
    <3> QED BY <1>14, <3>1
  <2>2. /\ n >= (IF full THEN 1 ELSE 0) + 1 + f + b
        /\ e \in Nat /\ f \in Nat /\ b \in {0, 1} /\ e <= f
    <3>1. Coming(finished_fu, Live, AllRead) = (IF full THEN 1 ELSE 0) + 1
      BY <1>17 DEF Coming, Reserve
    <3> HIDE DEF full, ends, fired
    <3> QED BY <1>14, <1>15, <3>1
  <2>3. CASE left # {}
    <3>1. c = (IF ends \cup left = Row /\ Cardinality(left) <= 1 THEN 1 ELSE 0) + 1
      <4> HIDE DEF ends, left, all
      <4> QED BY <2>3 DEF Coming, Reserve
    <3>2. ends \cup left = Row /\ Cardinality(left) <= 1 => e >= 2
      <4>1. left \in SUBSET Row
        BY <1>3, <1>14
      <4> HIDE DEF ends, left
      <4>2. IsFiniteSet(left) /\ Cardinality(left) \in Nat
        BY <4>1, RowsFinite
      <4>3. Cardinality(ends \cup left) <= Cardinality(ends) + Cardinality(left)
        <5> DEFINE x == Cardinality(ends \cap left)
        <5>1. x \in Nat
          BY <4>1, RowsFinite
        <5>2. Cardinality(ends \cup left) = Cardinality(ends) + Cardinality(left) - x
          BY <1>14, <4>2, FS_Union
        <5> HIDE DEF x
        <5> QED BY <1>14, <4>2, <5>1, <5>2
      <4>4. ends \cup left = Row => Cardinality(ends \cup left) >= 3
        BY ThreeRows, Queue
      <4> DEFINE u == Cardinality(ends \cup left)
                 l == Cardinality(left)
      <4>5. /\ u <= e + l /\ l \in Nat /\ e \in Nat /\ (ends \cup left = Row => u >= 3 /\ u \in Nat)
        BY <1>14, <4>2, <4>3, <4>4, ThreeRows, Queue
      <4> HIDE DEF u, l, e
      <4>6. ends \cup left = Row /\ l <= 1 => e >= 2
        BY <4>5
      <4> QED BY <4>6 DEF l, e
    <3>3. n >= c + 1
      <4> DEFINE full2 == ends \cup left = Row /\ Cardinality(left) <= 1
      <4>1. c = (IF full2 THEN 1 ELSE 0) + 1 /\ (full2 => e >= 2)
        BY <3>1, <3>2
      <4> HIDE DEF full, full2, e, f, b, c
      <4> QED BY <2>1, <2>2, <4>1
    <3> QED BY <1>11, <3>3
  <2>4. CASE left = {}
    <3>1. fresh = {} /\ still = Live /\ ends = Live /\ fired = Live
      <4>1. fresh \subseteq left
        BY <1>3, <1>14
      <4> HIDE DEF ends, fired
      <4> QED BY <1>14, <2>4, <4>1
    <3>2. e = f
      BY <3>1
    <3>3. c = 1 + (IF ends = Row THEN 1 ELSE 0) + (IF all THEN 0 ELSE 1)
      <4>1. Cardinality({}) = 0 /\ ends \cup {} = ends
        BY FS_EmptySet
      <4> HIDE DEF ends, left, all
      <4> QED BY <2>4, <4>1 DEF Coming, Reserve
    <3>4. ends = Row => e >= 3
      <4> HIDE DEF ends
      <4> QED BY ThreeRows, Queue
    <3>5. CASE e >= 2 \/ all \/ full \/ b = 1
      <4>1. n >= c + 1
        <5> DEFINE whole == ends = Row
        <5>1. c = 1 + (IF whole THEN 1 ELSE 0) + (IF all THEN 0 ELSE 1) /\ (whole => e >= 3)
          BY <3>3, <3>4
        <5> HIDE DEF whole, all, full, e, f, b, c
        <5> QED BY <2>1, <2>2, <3>2, <3>5, <5>1
      <4> QED BY <1>11, <4>1
    <3>6. CASE ~(e >= 2) /\ ~all /\ ~full /\ b # 1
      <4>1. e = 1
        <5> HIDE DEF e, f, b, full
        <5> QED BY <2>1, <2>2, <3>2, <3>6
      <4>2. Cardinality(Live) = 1
        BY <3>1, <4>1
      <4>3. finished_fu \cup Live # Row
        <5> HIDE DEF e, b, all
        <5> QED BY <3>6, <4>2
      <4>4. \E i \in Row : ~schedule_queue[i].occupied
        BY <1>14, <4>3
      <4>5. ~branch_started
        BY <1>13, <3>1, <3>6 DEF Bonus
      <4>6. PICK m \in Nat : (m = n + 1 \/ m >= 3) /\ Covers(m, cycle, new, still, head)
        <5> HIDE DEF fresh, all, still, e, f, b, c, full
        <5> QED BY <1>12, <3>1, <3>6, <4>4, <4>5
      <4>7. c <= 2
        <5> DEFINE whole == ends = Row
        <5>1. c = 1 + (IF whole THEN 1 ELSE 0) + (IF all THEN 0 ELSE 1) /\ (whole => e >= 3)
          BY <3>3, <3>4
        <5> HIDE DEF whole, all, e, c
        <5> QED BY <4>1, <5>1
      <4>8. m >= c + 1
        <5>1. c \in Int
          BY <3>3
        <5> HIDE DEF full, e, f, b, c
        <5> QED BY <2>1, <2>2, <4>6, <4>7, <5>1
      <4> QED BY <4>6, <4>8
    <3> QED BY <3>5, <3>6
  <2> QED BY <2>3, <2>4
<1> QED
  BY <1>16, <1>17

-----------------------------------------------------------------------------
(* The theorem. *)

LEMMA TimeNext == ASSUME Inv, DataInv, TimeInv, [Next]_vars PROVE TimeInv'
<1>1. CASE UpdateState
  BY <1>1, UpdateTime
<1>2. CASE ExecuteInstr
  BY <1>2, ExecuteTime
<1>3. CASE ScheduleInstr
  BY <1>3, ScheduleTime
<1>4. CASE DispatchInstr
  BY <1>4, DispatchTime
<1>5. CASE FetchInstr
  BY <1>5, FetchTime
<1>6. CASE UpdateState2
  BY <1>6, SortTime
<1>7. CASE Done \/ UNCHANGED vars
  BY <1>7, StutterTime DEF Done
<1> QED
  BY <1>1, <1>2, <1>3, <1>4, <1>5, <1>6, <1>7 DEF Next

LEMMA TimeInvariant == Spec => [](Inv /\ DataInv /\ TimeInv)
<1>1. Init => Inv /\ DataInv /\ TimeInv
  BY InitInv, FlowInit, TimeInit
<1>2. Inv /\ DataInv /\ TimeInv /\ [Next]_vars => Inv' /\ DataInv' /\ TimeInv'
  BY NextInv, DataNext, TimeNext
<1> QED
  BY <1>1, <1>2, PTL DEF Spec

\* run_proc: the loop ends within the cycles that the instructions of the trace would take one
\* after the other.  No unit, row or entry of the dispatch queue is held for ever, no instruction
\* waits for a value that never comes, and no stall outlasts its branch; all of this whatever order
\* the sort gives the rows, with as few as one unit of each kind and one row for each.
THEOREM RetiresInTimeTheorem == Spec => []RetiresInTime
<1>1. Inv /\ DataInv /\ TimeInv => RetiresInTime
  <2> SUFFICES ASSUME Inv, DataInv, TimeInv PROVE RetiresInTime
    OBVIOUS
  <2>1. PICK n \in Nat : Covers(n, cycle, schedule_queue, Live, dispatch_queue_head)
    BY DEF TimeInv
  <2>2. trace \in Traces /\ cycle \in Nat
    BY DEF Inv, TypeInv
  <2>3. cycle + n <= WorstCase
    BY <2>1, <2>2, CoversLess
  <2>4. WorstCase \in Int
    <3> DEFINE most == [s \in Tag |-> CyclesFor(Inst(s).op)]
    <3>1. Len(trace) \in Nat /\ most \in [0 .. Len(trace) - 1 -> Nat]
      BY <2>2, TraceType, OpOf DEF Tag
    <3> HIDE DEF most
    <3>2. Total(Len(trace), most) \in Nat
      BY <3>1, TotalNat
    <3> QED BY <3>2 DEF WorstCase, most
  <2> QED BY <2>2, <2>3, <2>4 DEF RetiresInTime
<1> QED
  BY <1>1, TimeInvariant, PTL
=============================================================================
