---------------------------- MODULE QueensProofs -----------------------------
(***************************************************************************)
(* Proofs about Queens, for boards of every size: what the three searches  *)
(* have placed fits together, and the two that go back in order pass over  *)
(* no solution and give up only a problem that has none.                   *)
(***************************************************************************)
EXTENDS Queens, FiniteSetTheorems, SequenceTheorems, WellFoundedInduction, TLAPS

IsBoard(b) == b \in [Column -> [idx : Column, position : Seq(Column)]]

\* The variables of a board are those of the columns, each once.
EachOnce(b) ==
    /\ \A c \in Column : \E k \in Column : b[k].idx = c
    /\ \A j, k \in Column : b[j].idx = b[k].idx => j = k

\* Back tracking and forward checking leave the variables in the order of the columns.
BoardOK(b) == IsBoard(b) /\ EachOnce(b) /\ (search # "dvo" => \A k \in Column : b[k].idx = k)

PathOK ==
    IF search = "dvo" THEN path \in [Column -> 0 .. queen_count]
    ELSE path \in Seq(Column) /\ Len(path) = IF i = 0 THEN 0 ELSE i - 1

CopiesOK(copies) ==
    /\ copies = [c \in Column |-> copies[c]]
    /\ \A c \in Column : copies[c] # NoCopy => BoardOK(copies[c])

TypeInv ==
    /\ search \in {"bt", "fc", "dvo"} /\ queen_count \in QueenCounts /\ least \in BOOLEAN
    /\ i \in 0 .. queen_count + 1
    /\ outcome \in {"searching", "path", "inconsistent", "TypeError"}
    /\ BoardOK(board) /\ PathOK /\ CopiesOK(book_keeping)

\* The copy that was made when the variable at place k was reached.
CopyAt(k) == book_keeping[board[k].idx]

\* With forward checking the variables that have been reached, and no others, have
\* a copy, which agrees with the board on their order.
LevelInv ==
    search # "bt" =>
        /\ i > 0
        /\ queen_count = 1 /\ i = 1 => Domain(1) = <<1>>
        /\ \A k \in Column : /\ k > i => CopyAt(k) = NoCopy
                             /\ k < i => CopyAt(k) # NoCopy
        /\ \A k \in Column : k <= i /\ CopyAt(k) # NoCopy =>
              \A p \in 1 .. k : CopyAt(k)[p].idx = board[p].idx

\* The value of the variable at each place.
Placed == [j \in Column |-> Value(j)]

\* The values of the variables before place k of the board b leave each variable
\* behind them only what fits.
Fits(b, k, placed) ==
    \A j, p \in Column : j < k /\ j < p =>
        \A v \in ToSet(b[p].position) : constraint(b[j].idx, b[p].idx, placed[j], v)

\* The queens that are placed fit together, and with forward checking all that is left
\* in a domain of the board or of a copy fits the queens placed before.
FitInv ==
    /\ \A k \in 1 .. i - 1 : Placed[k] \in Column
    /\ \A j, k \in 1 .. i - 1 : j < k =>
          constraint(board[j].idx, board[k].idx, Placed[j], Placed[k])
    /\ outcome = "path" => i = queen_count + 1
    /\ search # "bt" =>
          /\ Fits(board, i, Placed)
          /\ \A k \in Column : k <= i /\ CopyAt(k) # NoCopy => Fits(CopyAt(k), k, Placed)

PlacedInv == TypeInv /\ LevelInv /\ FitInv

\* The value of column k in the solution s is still ahead.
Ahead(s, k) == s[k] \in ToSet(Domain(k))

\* The solution s is not passed over: NothingSkipped, and with forward checking the
\* copies still hold it as well.
NotSkipped(s) ==
    /\ \A k \in Column : k < i /\ Agrees(s, k) => s[k] = path[k] \/ Ahead(s, k)
    /\ i \in Column /\ Agrees(s, i) => Ahead(s, i)
    /\ search = "fc" =>
          /\ \A k \in Column : k > i /\ Agrees(s, i) => Ahead(s, k)
          /\ \A k \in Column : k <= i /\ book_keeping[k] # NoCopy /\ Agrees(s, k) =>
                \A p \in Column : p > k => s[p] \in ToSet(book_keeping[k][p].position)

SkipInv ==
    search # "dvo" =>
        /\ outcome = "searching" => \A s \in Solutions[queen_count] : NotSkipped(s)
        /\ search = "bt" /\ i = 0 => Solutions[queen_count] = {}
        /\ GivesUpRightly

-----------------------------------------------------------------------------
(* The operators of the searches. *)

LEMMA LeastOf ==
    ASSUME NEW T \in SUBSET Nat, T # {}
    PROVE  \E k \in T : \A j \in T : k <= j
<1> DEFINE below == {ss \in Nat \X Nat : ss[1] < ss[2]}
<1>1. IsWellFoundedOn(below, Nat)
  BY NatLessThanWellFounded, Zenon DEF OpToRel
<1>2. \A j, k \in Nat : j < k => <<j, k>> \in below
  OBVIOUS
<1> HIDE DEF below
<1>3. PICK k \in T : \A j \in T : <<j, k>> \notin below
  BY <1>1, WFMin
<1>4. ASSUME NEW j \in T PROVE k <= j
  <2>1. j \in Nat /\ k \in Nat
    OBVIOUS
  <2>2. ~(j < k)
    BY <1>2, <1>3, <2>1
  <2> QED BY <2>1, <2>2
<1> QED
  BY <1>4

\* Induction up to n, for a set instead of a predicate.
LEMMA UpTo ==
    ASSUME NEW n \in Nat, NEW G, 0 \in G, \A m \in 1 .. n : m - 1 \in G => m \in G
    PROVE  0 .. n \subseteq G
<1> DEFINE Bad == 0 .. n \ G
<1>1. SUFFICES ASSUME Bad # {} PROVE FALSE
  OBVIOUS
<1>2. PICK m \in Bad : \A j \in Bad : m <= j
  <2>1. Bad \in SUBSET Nat
    OBVIOUS
  <2> HIDE DEF Bad
  <2> QED BY <1>1, <2>1, LeastOf
<1>3. m \in 1 .. n
  BY <1>2
<1>4. m - 1 \in 0 .. n /\ ~(m <= m - 1)
  BY <1>3
<1>5. m - 1 \in G
  BY <1>2, <1>4
<1> QED
  BY <1>2, <1>3, <1>5

LEMMA MaxOf ==
    ASSUME NEW n \in Nat, NEW T \in SUBSET (1 .. n), T # {}
    PROVE  Max(T) \in T /\ \A j \in T : j <= Max(T)
<1> DEFINE D == {d \in Nat : n - d \in T}
<1>1. PICK t \in T : TRUE
  OBVIOUS
<1>2. n - t \in D
  BY <1>1
<1>3. PICK d \in D : \A e \in D : d <= e
  BY <1>2, LeastOf
<1>4. ASSUME NEW j \in T PROVE n - d >= j
  <2>1. j \in 1 .. n /\ d \in Nat
    OBVIOUS
  <2>2. n - j \in Nat /\ n - (n - j) = j
    BY <2>1
  <2>3. n - j \in D
    BY <2>2
  <2>4. d <= n - j
    BY <1>3, <2>3
  <2> QED BY <2>1, <2>4
<1>5. n - d \in T
  BY <1>3
<1>6. PICK x \in T : \A y \in T : x >= y
  BY <1>4, <1>5
<1>7. Max(T) \in T /\ \A y \in T : Max(T) >= y
  BY <1>6 DEF Max
<1> QED
  BY <1>7

LEMMA AppendSet ==
    ASSUME NEW S, NEW s \in Seq(S), NEW e \in S
    PROVE  ToSet(Append(s, e)) = ToSet(s) \cup {e}
<1> DEFINE t == Append(s, e)
<1>1. Len(t) = Len(s) + 1 /\ t[Len(s) + 1] = e /\ \A k \in 1 .. Len(s) : t[k] = s[k]
  OBVIOUS
<1>2. t \in Seq(S)
  OBVIOUS
<1>3. DOMAIN t = 1 .. Len(s) + 1 /\ DOMAIN s = 1 .. Len(s)
  BY <1>1, <1>2
<1> HIDE DEF t
<1>4. ToSet(t) = ToSet(s) \cup {e}
  BY <1>1, <1>3 DEF ToSet
<1> QED
  BY <1>4 DEF t

\* Remaining: the recursive function exists, and it keeps the values that are good.
LEMMA RemainingExists ==
    ASSUME NEW S, NEW dom \in Seq(S), NEW good
    PROVE  \E f : f = [n \in 0 .. Len(dom) |->
                         IF n = 0 THEN <<>>
                         ELSE IF dom[n] \in good THEN Append(f[n - 1], dom[n])
                         ELSE f[n - 1]]
<1> DEFINE body(f, n) == IF n = 0 THEN <<>>
                         ELSE IF dom[n] \in good THEN Append(f[n - 1], dom[n])
                         ELSE f[n - 1]
           Solved(m) == \E f : f = [n \in 0 .. m |-> body(f, n)]
           G == {m \in Nat : Solved(m)}
<1>1. 0 \in G
  <2> DEFINE f == [n \in 0 .. 0 |-> <<>>]
  <2>1. f = [n \in 0 .. 0 |-> body(f, n)]
    OBVIOUS
  <2> HIDE DEF f
  <2>2. Solved(0)
    BY <2>1
  <2> QED BY <2>2
<1>2. ASSUME NEW m \in 1 .. Len(dom), m - 1 \in G PROVE m \in G
  <2>1. PICK f : f = [n \in 0 .. m - 1 |-> body(f, n)]
    BY <1>2
  <2> DEFINE g == [n \in 0 .. m |-> IF n = m THEN body(f, m) ELSE f[n]]
  <2>2. \A n \in 0 .. m : n # 0 => g[n - 1] = f[n - 1]
    OBVIOUS
  <2>3. \A n \in 0 .. m - 1 : f[n] = body(f, n)
    BY <2>1
  <2>4. \A n \in 0 .. m : g[n] = body(f, n)
    BY <2>3
  <2>5. \A n \in 0 .. m : body(g, n) = body(f, n)
    BY <2>2
  <2>6. g = [n \in 0 .. m |-> body(g, n)]
    BY <2>4, <2>5
  <2> HIDE DEF g
  <2>7. Solved(m)
    BY <2>6
  <2> QED BY <2>7
<1> HIDE DEF G
<1>3. Len(dom) \in G
  <2>1. Len(dom) \in Nat
    OBVIOUS
  <2>2. 0 .. Len(dom) \subseteq G
    BY <1>1, <1>2, <2>1, UpTo
  <2> QED BY <2>1, <2>2
<1>4. Solved(Len(dom))
  BY <1>3 DEF G
<1> QED
  BY <1>4

LEMMA RemainingKeeps ==
    ASSUME NEW S, NEW dom \in Seq(S), NEW good
    PROVE  /\ Remaining(dom, good) \in Seq(S)
           /\ ToSet(Remaining(dom, good)) = ToSet(dom) \cap good
<1> DEFINE body(f, n) == IF n = 0 THEN <<>>
                         ELSE IF dom[n] \in good THEN Append(f[n - 1], dom[n])
                         ELSE f[n - 1]
           kept == CHOOSE f : f = [n \in 0 .. Len(dom) |-> body(f, n)]
           first(n) == {dom[k] : k \in 1 .. n}
           Right(n) == kept[n] \in Seq(S) /\ ToSet(kept[n]) = first(n) \cap good
           G == {n \in Nat : Right(n)}
<1>1. kept = [n \in 0 .. Len(dom) |-> body(kept, n)]
  <2>1. \E f : f = [n \in 0 .. Len(dom) |-> body(f, n)]
    BY RemainingExists, ZenonT(30)
  <2> QED BY <2>1, Zenon
<1>2. Remaining(dom, good) = kept[Len(dom)]
  BY DEF Remaining
<1> HIDE DEF kept
<1>3. \A n \in 0 .. Len(dom) : kept[n] = body(kept, n)
  BY <1>1
<1>4. 0 \in G
  <2>1. kept[0] = <<>>
    BY <1>3
  <2>2. Right(0)
    BY <2>1 DEF ToSet
  <2> QED BY <2>2
<1>5. ASSUME NEW m \in 1 .. Len(dom), m - 1 \in G PROVE m \in G
  <2>1. kept[m - 1] \in Seq(S) /\ ToSet(kept[m - 1]) = first(m - 1) \cap good
    BY <1>5
  <2>2. dom[m] \in S
    OBVIOUS
  <2>3. first(m) = first(m - 1) \cup {dom[m]}
    BY <2>2
  <2>4. CASE dom[m] \in good
    <3>1. kept[m] = Append(kept[m - 1], dom[m])
      <4>1. kept[m] = body(kept, m)
        BY <1>3
      <4> QED BY <4>1, <2>4
    <3>2. ToSet(kept[m]) = ToSet(kept[m - 1]) \cup {dom[m]}
      BY <3>1, <2>1, <2>2, AppendSet
    <3>3. kept[m] \in Seq(S)
      BY <3>1, <2>1, <2>2
    <3> HIDE DEF first
    <3>4. Right(m)
      BY <3>2, <3>3, <2>1, <2>3, <2>4
    <3> QED BY <3>4
  <2>5. CASE dom[m] \notin good
    <3>1. kept[m] = kept[m - 1]
      BY <1>3, <2>5
    <3> HIDE DEF first
    <3>2. Right(m)
      BY <3>1, <2>1, <2>3, <2>5
    <3> QED BY <3>2
  <2> QED BY <2>4, <2>5
<1> HIDE DEF G
<1>6. Len(dom) \in G
  <2>1. Len(dom) \in Nat
    OBVIOUS
  <2>2. 0 .. Len(dom) \subseteq G
    BY <1>4, <1>5, <2>1, UpTo
  <2> QED BY <2>1, <2>2
<1>7. Right(Len(dom))
  BY <1>6 DEF G
<1>8. first(Len(dom)) = ToSet(dom)
  BY DEF ToSet
<1> QED
  BY <1>2, <1>7, <1>8


LEMMA SmallerSubset ==
    ASSUME NEW T, IsFiniteSet(T), NEW S \in SUBSET T, NEW e \in T, e \notin S
    PROVE  /\ Cardinality(S) \in Nat /\ Cardinality(T) \in Nat
           /\ Cardinality(S) < Cardinality(T)
<1>1. /\ IsFiniteSet(S) /\ Cardinality(S) <= Cardinality(T)
      /\ Cardinality(T) = Cardinality(S) => T = S
  BY FS_Subset
<1>2. Cardinality(S) \in Nat /\ Cardinality(T) \in Nat
  BY <1>1, FS_CardinalityType
<1> QED
  BY <1>1, <1>2

\* rearrange: the variables behind place k come in another order, each of them once.
LEMMA RearrangedPermutes ==
    ASSUME queen_count \in Nat, NEW vs, IsBoard(vs), EachOnce(vs), NEW k \in Column
    PROVE  LET new == Rearranged(vs, k)
           IN  /\ IsBoard(new) /\ EachOnce(new)
               /\ \A p \in 1 .. k : new[p] = vs[p]
               /\ \A p \in k + 1 .. queen_count :
                     \E q \in k + 1 .. queen_count : new[p] = vs[q]
<1> DEFINE behind      == k + 1 .. queen_count
           size(p)     == Len(vs[p].position)
           first(p, q) == \/ IF least THEN size(p) > size(q) ELSE size(p) < size(q)
                          \/ size(p) = size(q) /\ p < q
           ahead(p)    == {q \in behind : first(q, p)}
           place(p)    == k + 1 + Cardinality(ahead(p))
           old(p)      == IF p <= k THEN p ELSE CHOOSE q \in behind : place(q) = p
           new         == [p \in Column |-> vs[old(p)]]
<1>1. Rearranged(vs, k) = new
  BY DEF Rearranged
<1>2. behind \subseteq Column /\ behind \subseteq Nat /\ IsFiniteSet(behind)
      /\ Cardinality(behind) = queen_count - k
  <2>1. k + 1 \in Int /\ queen_count \in Int /\ k \in Int /\ 1 <= k /\ k <= queen_count
    BY DEF Column
  <2>2. /\ IsFiniteSet(behind)
        /\ Cardinality(behind) = IF k + 1 > queen_count THEN 0 ELSE queen_count - (k + 1) + 1
    BY <2>1, FS_Interval
  <2>3. Cardinality(behind) = queen_count - k
    <3> HIDE DEF behind
    <3> QED BY <2>1, <2>2
  <2> QED BY <2>1, <2>2, <2>3 DEF Column
<1>3. \A p \in Column : size(p) \in Nat
  BY DEF IsBoard
<1>4. \A p \in behind : ~first(p, p)
  BY <1>2, <1>3
<1>5. \A p, q \in behind : p # q => first(p, q) \/ first(q, p)
  BY <1>2, <1>3
<1>6. \A p, q, r \in behind : first(p, q) /\ first(q, r) => first(p, r)
  <2>1. \A p \in behind : size(p) \in Nat /\ p \in Nat
    BY <1>2, <1>3
  <2> HIDE DEF size, behind
  <2> QED BY <2>1
<1> HIDE DEF first, behind
<1>7. ASSUME NEW p \in behind
      PROVE  place(p) \in behind
  <2>1. ahead(p) \in SUBSET behind /\ p \notin ahead(p)
    BY <1>4
  <2> HIDE DEF ahead
  <2>2. Cardinality(ahead(p)) \in Nat /\ Cardinality(ahead(p)) < queen_count - k
    BY <2>1, <1>2, SmallerSubset
  <2> QED BY <2>2, <1>2 DEF behind, Column
<1>8. ASSUME NEW p \in behind, NEW q \in behind, p # q
      PROVE  place(p) # place(q)
  <2>1. ASSUME NEW x \in behind, NEW y \in behind, first(x, y)
        PROVE  place(x) < place(y)
    <3>1. ahead(x) \in SUBSET ahead(y) /\ x \in ahead(y) /\ x \notin ahead(x)
      BY <1>4, <1>6, <2>1
    <3>2. ahead(y) \in SUBSET behind
      OBVIOUS
    <3> HIDE DEF ahead
    <3>3. IsFiniteSet(ahead(y))
      BY <3>2, <1>2, FS_Subset
    <3>4. /\ Cardinality(ahead(x)) \in Nat /\ Cardinality(ahead(y)) \in Nat
          /\ Cardinality(ahead(x)) < Cardinality(ahead(y))
      BY <3>1, <3>3, SmallerSubset
    <3> QED BY <3>4 DEF Column
  <2>2. first(p, q) \/ first(q, p)
    BY <1>5, <1>8
  <2>3. place(p) \in Nat /\ place(q) \in Nat
    BY <1>2, <1>7
  <2> HIDE DEF place
  <2> QED BY <2>1, <2>2, <2>3
<1> HIDE DEF place
<1>9. \A p \in behind : \E q \in behind : place(q) = p
  <2> DEFINE f == [p \in behind |-> place(p)]
  <2>1. f \in Injection(behind, behind)
    BY <1>7, <1>8 DEF Injection, IsInjective
  <2> HIDE DEF f
  <2>2. f \in Surjection(behind, behind)
    BY <2>1, <1>2, FS_Injection
  <2>3. \A p \in behind : \E q \in behind : f[q] = p
    BY <2>2 DEF Surjection
  <2> QED BY <2>3 DEF f
<1>10. \A p \in behind : old(p) \in behind /\ place(old(p)) = p
  <2> SUFFICES ASSUME NEW p \in behind PROVE old(p) \in behind /\ place(old(p)) = p
    OBVIOUS
  <2>1. ~(p <= k)
    BY DEF behind, Column
  <2> QED BY <2>1, <1>9
<1>11. \A p \in 1 .. k : old(p) = p
  OBVIOUS
<1>12. \A p \in Column : p \in 1 .. k \/ p \in behind
  BY DEF behind, Column
<1>13. \A p \in 1 .. k : p \in Column /\ p \notin behind
  BY DEF behind, Column
<1> HIDE DEF old
<1>14. \A p \in Column : old(p) \in Column
  BY <1>2, <1>10, <1>11, <1>12
<1>15. IsBoard(new)
  BY <1>14 DEF IsBoard
<1>16. \A p, q \in Column : old(p) = old(q) => p = q
  BY <1>10, <1>11, <1>12, <1>13
<1>17. \A q \in Column : \E p \in Column : old(p) = q
  <2> SUFFICES ASSUME NEW q \in Column PROVE \E p \in Column : old(p) = q
    OBVIOUS
  <2>1. CASE q \in 1 .. k
    BY <2>1, <1>11
  <2>2. CASE q \in behind
    <3>1. place(q) \in behind /\ place(q) \in Column
      BY <2>2, <1>2, <1>7
    <3>2. old(place(q)) = q
      BY <3>1, <2>2, <1>8, <1>10
    <3> QED BY <3>1, <3>2
  <2> QED BY <2>1, <2>2, <1>12
<1>18. EachOnce(new)
  <2>1. \A p \in Column : new[p].idx = vs[old(p)].idx
    OBVIOUS
  <2>2. \A c \in Column : \E p \in Column : new[p].idx = c
    <3> SUFFICES ASSUME NEW c \in Column PROVE \E p \in Column : new[p].idx = c
      OBVIOUS
    <3>1. PICK q \in Column : vs[q].idx = c
      BY DEF EachOnce
    <3>2. PICK p \in Column : old(p) = q
      BY <1>17
    <3> QED BY <3>1, <3>2, <2>1
  <2>3. \A p, q \in Column : new[p].idx = new[q].idx => p = q
    BY <2>1, <1>14, <1>16 DEF EachOnce
  <2> QED BY <2>2, <2>3 DEF EachOnce
<1>19. \A p \in 1 .. k : new[p] = vs[p]
  BY <1>11, <1>13
<1>20. \A p \in behind : \E q \in behind : new[p] = vs[q]
  BY <1>2, <1>10
<1> HIDE DEF new
<1> QED
  BY <1>1, <1>15, <1>18, <1>19, <1>20 DEF behind

-----------------------------------------------------------------------------
(* The types. *)

LEMMA CountIsPositive ==
    ASSUME TypeInv
    PROVE  queen_count \in Nat /\ queen_count >= 1 /\ i \in Nat
BY QueensAssumption DEF TypeInv

\* What a search returns: only back tracking can end at the number that says that the
\* problem is inconsistent, since 1 is a place of every board.
LEMMA ReturnSteps ==
    ASSUME TypeInv, Return
    PROVE  /\ outcome = "searching" /\ i \notin Column
           /\ outcome' = (IF search = "bt" /\ i = 0 THEN "inconsistent" ELSE "path")
           /\ UNCHANGED <<search, queen_count, least, i, path, board, book_keeping>>
<1>1. 1 \in Column
  BY CountIsPositive DEF Column
<1>2. CASE BackTrackReturns
  BY <1>2 DEF Return, BackTrackReturns, Returned
<1>3. CASE ForwardCheckReturns
  BY <1>1, <1>3 DEF Return, ForwardCheckReturns, Returned
<1>4. CASE DynamicOrderReturns
  BY <1>1, <1>4 DEF Return, DynamicOrderReturns, Returned
<1> QED
  BY <1>2, <1>3, <1>4 DEF Return

LEMMA ColumnsOfDomains ==
    ASSUME NEW b, IsBoard(b), NEW p \in Column
    PROVE  /\ b[p].idx \in Column /\ b[p].position \in Seq(Column)
           /\ ToSet(b[p].position) \subseteq Column
BY DEF IsBoard, ToSet

\* Another board with the variables at the same places.
LEMMA SamePlaces ==
    ASSUME NEW b, BoardOK(b), NEW d, IsBoard(d), \A k \in Column : d[k].idx = b[k].idx
    PROVE  BoardOK(d)
<1>1. EachOnce(d)
  BY DEF BoardOK, EachOnce
<1> QED
  BY <1>1 DEF BoardOK

WithIn(b, k, dom) == [b EXCEPT ![k].position = dom]

LEMMA WithDomain ==
    ASSUME NEW b, BoardOK(b), NEW k \in Column, NEW dom \in Seq(Column),
           NEW d, d = WithIn(b, k, dom)
    PROVE  /\ BoardOK(d)
           /\ \A p \in Column : d[p].idx = b[p].idx
           /\ \A p \in Column : p # k => d[p].position = b[p].position
           /\ d[k].position = dom
<1>1. IsBoard(d)
  BY DEF IsBoard, BoardOK, WithIn
<1>2. /\ \A p \in Column : d[p].idx = b[p].idx
      /\ \A p \in Column : p # k => d[p].position = b[p].position
      /\ d[k].position = dom
  BY DEF IsBoard, BoardOK, WithIn
<1>3. BoardOK(d)
  BY <1>1, <1>2, SamePlaces
<1> QED
  BY <1>2, <1>3

\* Forward checking takes what does not fit from the domains behind place k.
LEMMA PrunedDomains ==
    ASSUME TypeInv, NEW k \in Column, NEW value
    PROVE  /\ BoardOK(Pruned(k, value))
           /\ \A p \in Column :
                 /\ Pruned(k, value)[p].idx = board[p].idx
                 /\ p <= k => Pruned(k, value)[p].position = Domain(p)
                 /\ p > k => ToSet(Pruned(k, value)[p].position) =
                                {v \in ToSet(Domain(p)) :
                                    constraint(board[k].idx, board[p].idx, value, v)}
<1> DEFINE good(p) == {v \in Column : constraint(board[k].idx, board[p].idx, value, v)}
           left(p) == Remaining(Domain(p), good(p))
           d == Pruned(k, value)
<1>1. IsBoard(board)
  BY DEF TypeInv, BoardOK
<1>2. \A p \in Column : /\ left(p) \in Seq(Column)
                        /\ ToSet(left(p)) = ToSet(Domain(p)) \cap good(p)
  BY <1>1, RemainingKeeps, ColumnsOfDomains DEF Domain
<1>3. d = [p \in Column |-> IF p <= k THEN board[p]
                            ELSE [board[p] EXCEPT !.position = left(p)]]
  BY DEF Pruned, Domain
<1> HIDE DEF left, d
<1>4. ASSUME NEW p \in Column
      PROVE  /\ d[p] \in [idx : Column, position : Seq(Column)]
             /\ d[p].idx = board[p].idx
             /\ p <= k => d[p].position = Domain(p)
             /\ p > k => d[p].position = left(p)
  <2>1. board[p] \in [idx : Column, position : Seq(Column)]
    BY <1>1 DEF IsBoard
  <2>2. k \in Int /\ p \in Int
    BY CountIsPositive DEF Column
  <2>3. CASE p <= k
    BY <2>1, <2>2, <2>3, <1>3 DEF Domain
  <2>4. CASE ~(p <= k)
    <3>1. d[p] = [board[p] EXCEPT !.position = left(p)]
      BY <1>3, <2>4
    <3>2. left(p) \in Seq(Column)
      BY <1>2
    <3> QED BY <2>1, <2>4, <3>1, <3>2
  <2> QED BY <2>3, <2>4
<1>5. IsBoard(d)
  BY <1>3, <1>4 DEF IsBoard
<1>6. BoardOK(d)
  BY <1>4, <1>5, SamePlaces DEF TypeInv
<1>7. \A p \in Column : ToSet(left(p)) =
          {v \in ToSet(Domain(p)) : constraint(board[k].idx, board[p].idx, value, v)}
  BY <1>1, <1>2, ColumnsOfDomains DEF Domain
<1> QED
  BY <1>4, <1>6, <1>7 DEF d

LEMMA ResetDomains ==
    ASSUME TypeInv, search # "dvo", NEW k \in Column, NEW copy, BoardOK(copy)
    PROVE  /\ BoardOK(ResetFrom(k, copy))
           /\ \A p \in Column : ResetFrom(k, copy)[p] = IF p < k THEN board[p] ELSE copy[p]
<1>1. \A p \in Column : ResetFrom(k, copy)[p] = IF p < k THEN board[p] ELSE copy[p]
  BY DEF ResetFrom
<1>2. IsBoard(ResetFrom(k, copy))
  BY DEF ResetFrom, TypeInv, BoardOK, IsBoard
<1>3. \A p \in Column : ResetFrom(k, copy)[p].idx = p
  BY <1>1 DEF TypeInv, BoardOK
<1> QED
  BY <1>1, <1>2, <1>3, SamePlaces DEF TypeInv, BoardOK

LEMMA BoardIsACopy ==
    ASSUME TypeInv, NEW b, IsBoard(b)
    PROVE  b # NoCopy
<1>1. 1 \in DOMAIN b
  BY CountIsPositive DEF IsBoard, Column
<1>2. 1 \notin DOMAIN NoCopy
  BY DEF NoCopy
<1> QED
  BY <1>1, <1>2

\* The copy that is made when a variable is reached.
LEMMA KeptCopies ==
    ASSUME TypeInv, NEW c \in Column
    PROVE  /\ CopiesOK(Kept(c)) /\ Kept(c)[c] # NoCopy
           /\ Kept(c)[c] = IF book_keeping[c] = NoCopy THEN board ELSE book_keeping[c]
           /\ \A d \in Column : d # c => Kept(c)[d] = book_keeping[d]
<1>1. book_keeping = [d \in Column |-> book_keeping[d]] /\ BoardOK(board) /\ CopiesOK(book_keeping)
  BY DEF TypeInv, CopiesOK
<1>2. \A d \in Column : Kept(c)[d] = IF d = c /\ book_keeping[c] = NoCopy THEN board
                                     ELSE book_keeping[d]
  BY <1>1 DEF Kept
<1>3. Kept(c) = [d \in Column |-> Kept(c)[d]]
  BY <1>1 DEF Kept
<1>4. board # NoCopy
  BY <1>1, BoardIsACopy DEF BoardOK
<1> QED
  BY <1>1, <1>2, <1>3, <1>4 DEF CopiesOK

LEMMA ValuesOfColumn ==
    ASSUME queen_count \in Nat
    PROVE  /\ Values(queen_count) \in Seq(Column)
           /\ ToSet(Values(queen_count)) = Column
<1>1. /\ Values(queen_count) \in [1 .. queen_count -> Column]
      /\ \A v \in 1 .. queen_count : Values(queen_count)[v] = v
  BY DEF Values, Column
<1>2. Values(queen_count) \in Seq(Column)
  BY <1>1
<1>3. DOMAIN Values(queen_count) = 1 .. queen_count
  BY DEF Values
<1> HIDE DEF Values
<1> QED
  BY <1>1, <1>2, <1>3 DEF ToSet, Column

LEMMA TypeInit ==
    Init => TypeInv
<1> SUFFICES ASSUME Init PROVE TypeInv
  OBVIOUS
<1>1. search \in {"bt", "fc", "dvo"} /\ queen_count \in Nat /\ queen_count >= 1 /\ least \in BOOLEAN
      /\ queen_count \in QueenCounts
  BY QueensAssumption DEF Init
<1>2. \A c \in Column : (IF search = "bt" /\ c # 1 THEN <<>> ELSE Values(queen_count)) \in Seq(Column)
  BY <1>1, ValuesOfColumn
<1>3. IsBoard(board) /\ \A c \in Column : board[c].idx = c
  BY <1>2 DEF Init, IsBoard
<1>4. BoardOK(board)
  BY <1>3 DEF BoardOK, EachOnce
<1>5. CopiesOK(book_keeping)
  BY DEF Init, CopiesOK
<1>6. PathOK
  BY <1>1 DEF Init, PathOK, None
<1> QED
  BY <1>1, <1>4, <1>5, <1>6 DEF TypeInv, Init

LEMMA TypesAgain ==
    ASSUME TypeInv, UNCHANGED <<search, queen_count, least>>,
           i' \in 0 .. queen_count + 1,
           outcome' \in {"searching", "path", "inconsistent", "TypeError"},
           BoardOK(board'), CopiesOK(book_keeping'), PathOK'
    PROVE  TypeInv'
<1>1. search' = search /\ queen_count' = queen_count /\ least' = least
  OBVIOUS
<1>2. BoardOK(board)'
  BY <1>1 DEF BoardOK, IsBoard, EachOnce, Column
<1>3. CopiesOK(book_keeping)'
  <2>1. book_keeping' = [c \in Column |-> book_keeping'[c]]
    BY DEF CopiesOK
  <2>2. ASSUME NEW c \in Column, book_keeping'[c] # NoCopy
        PROVE  BoardOK(book_keeping[c])'
    <3>1. BoardOK(book_keeping'[c])
      BY <2>2 DEF CopiesOK
    <3> QED BY <1>1, <3>1 DEF BoardOK, IsBoard, EachOnce, Column
  <2>3. (Column' = Column) /\ (NoCopy' = NoCopy)
    BY <1>1 DEF Column, NoCopy
  <2> QED BY <2>1, <2>2, <2>3 DEF CopiesOK
<1> QED
  BY <1>1, <1>2, <1>3 DEF TypeInv

\* select_value, select_value_fc: the value that is taken is the last one that will
\* do, and those before it stay.
LEMMA TakenValue ==
    ASSUME TypeInv, i \in Column, NEW T \in SUBSET DOMAIN Domain(i), T # {}
    PROVE  /\ Max(T) \in T /\ Domain(i)[Max(T)] \in Column
           /\ SubSeq(Domain(i), 1, Max(T) - 1) \in Seq(Column)
           /\ ToSet(SubSeq(Domain(i), 1, Max(T) - 1)) \subseteq ToSet(Domain(i))
           /\ \A k \in T : \/ Domain(i)[k] = Domain(i)[Max(T)]
                           \/ Domain(i)[k] \in ToSet(SubSeq(Domain(i), 1, Max(T) - 1))
<1> DEFINE dom == Domain(i)
           k == Max(T)
           rest == SubSeq(dom, 1, k - 1)
<1>1. dom \in Seq(Column)
  BY ColumnsOfDomains DEF TypeInv, BoardOK, Domain
<1>2. Len(dom) \in Nat /\ DOMAIN dom = 1 .. Len(dom)
  BY <1>1
<1>3. k \in T /\ \A j \in T : j <= k
  BY <1>2, MaxOf
<1> HIDE DEF dom, k
<1>4. k \in 1 .. Len(dom) /\ dom[k] \in Column
  BY <1>1, <1>2, <1>3 DEF dom
<1>5. /\ rest \in Seq(Column) /\ Len(rest) = k - 1
      /\ \A j \in 1 .. k - 1 : rest[j] = dom[j]
  BY <1>1, <1>4
<1>6. DOMAIN rest = 1 .. k - 1
  BY <1>4, <1>5
<1> HIDE DEF rest
<1>7. ToSet(rest) \subseteq ToSet(dom)
  BY <1>2, <1>4, <1>5, <1>6 DEF ToSet
<1>8. ASSUME NEW j \in T PROVE dom[j] = dom[k] \/ dom[j] \in ToSet(rest)
  <2>1. j \in 1 .. Len(dom) /\ j <= k
    BY <1>2, <1>3 DEF dom
  <2>2. CASE j = k
    BY <2>2
  <2>3. CASE j # k
    <3>1. j \in 1 .. k - 1
      BY <2>1, <2>3, <1>4
    <3> QED BY <3>1, <1>5, <1>6 DEF ToSet
  <2> QED BY <2>2, <2>3
<1> QED
  BY <1>3, <1>4, <1>5, <1>7, <1>8 DEF dom, k, rest

LEMMA PopType ==
    ASSUME NEW S, NEW s \in Seq(S)
    PROVE  /\ Pop(s) \in Seq(S)
           /\ Len(Pop(s)) = IF s = <<>> THEN 0 ELSE Len(s) - 1
           /\ \A k \in 1 .. Len(s) - 1 : Pop(s)[k] = s[k]
<1>1. CASE s = <<>>
  BY <1>1 DEF Pop
<1>2. CASE s # <<>>
  <2>1. Len(s) \in Nat /\ Len(s) >= 1
    BY <1>2
  <2>2. Pop(s) = SubSeq(s, 1, Len(s) - 1)
    BY <1>2 DEF Pop, Front
  <2> DEFINE n == Len(s) - 1
  <2>3. n \in Nat /\ \A k \in 1 .. n : s[k] \in S
    BY <2>1
  <2> HIDE DEF n
  <2>4. /\ SubSeq(s, 1, n) \in Seq(S) /\ Len(SubSeq(s, 1, n)) = n
        /\ \A k \in 1 .. n : SubSeq(s, 1, n)[k] = s[k]
    BY <2>3, SubSeqProperties
  <2> QED BY <1>2, <2>2, <2>4 DEF n
<1> QED
  BY <1>1, <1>2

\* back_track_search.py: an iteration, in the terms of the proofs.
LEMMA BackTrackSteps ==
    ASSUME TypeInv, BackTrack
    PROVE  /\ search = "bt" /\ i \in Column /\ path \in Seq(Column) /\ Len(path) = i - 1
           /\ BoardOK(board') /\ path' \in Seq(Column)
           /\ UNCHANGED <<search, queen_count, least, book_keeping, outcome>>
           /\ outcome = "searching"
           /\ \/ /\ Fitting = {} /\ i' = i - 1
                 /\ Len(path') = (IF i = 1 THEN 0 ELSE i - 2)
                 /\ \A k \in 1 .. i - 2 : path'[k] = path[k]
                 /\ \A p \in Column \ {i} : board'[p].position = Domain(p)
              \/ /\ Fitting # {} /\ i' = i + 1 /\ Max(Fitting) \in Fitting
                 /\ path' = Append(path, Domain(i)[Max(Fitting)])
                 /\ Domain(i)[Max(Fitting)] \in Column
                 /\ \A p \in 1 .. i - 1 : board'[p].position = Domain(p)
                 /\ board'[i].position = SubSeq(Domain(i), 1, Max(Fitting) - 1)
                 /\ i < queen_count => board'[i + 1].position = Values(queen_count)
<1>1. search = "bt" /\ i \in Column /\ outcome = "searching"
  BY DEF BackTrack, Searching
<1>2. queen_count \in Nat /\ i \in Nat /\ 1 <= i /\ i <= queen_count
  BY <1>1, CountIsPositive DEF Column
<1>3. path \in Seq(Column) /\ Len(path) = i - 1
  BY <1>1, <1>2 DEF TypeInv, PathOK
<1>4. BoardOK(board)
  BY DEF TypeInv
<1>5. CASE Fitting = {}
  <2>1. i' = i - 1 /\ path' = Pop(path) /\ board' = With(i, <<>>)
    BY <1>5 DEF BackTrack
  <2>2. BoardOK(board') /\ \A p \in Column \ {i} : board'[p].position = Domain(p)
    <3> DEFINE none == <<>>
    <3>1. none \in Seq(Column) /\ board' = With(i, none)
      BY <2>1
    <3> HIDE DEF none
    <3>2. board' = WithIn(board, i, none)
      BY <3>1 DEF With, WithIn
    <3> QED BY <1>1, <1>4, <3>1, <3>2, WithDomain DEF Domain
  <2>4. path' \in Seq(Column) /\ \A k \in 1 .. i - 2 : path'[k] = path[k]
    BY <1>2, <1>3, <2>1, PopType
  <2>5. Len(path') = IF i = 1 THEN 0 ELSE i - 2
    <3>1. path = <<>> <=> Len(path) = 0
      BY <1>3, EmptySeq
    <3> QED BY <1>2, <1>3, <2>1, <3>1, PopType
  <2> QED BY <1>1, <1>3, <1>5, <2>1, <2>2, <2>4, <2>5 DEF BackTrack
<1>6. CASE Fitting # {}
  <2> DEFINE k == Max(Fitting)
             left == SubSeq(Domain(i), 1, k - 1)
             rest == With(i, left)
  <2>1. /\ i' = i + 1 /\ path' = Append(path, Domain(i)[k])
        /\ board' = IF i = queen_count THEN rest
                    ELSE [rest EXCEPT ![i + 1].position = Values(queen_count)]
    BY <1>6 DEF BackTrack
  <2>2. Fitting \in SUBSET DOMAIN Domain(i)
    BY DEF Fitting
  <2>3. k \in Fitting /\ Domain(i)[k] \in Column /\ left \in Seq(Column)
    BY <1>1, <1>6, <2>2, TakenValue
  <2> HIDE DEF k, left
  <2>4. /\ BoardOK(rest)
        /\ \A p \in Column : p # i => rest[p].position = Domain(p)
        /\ rest[i].position = left
    <3>1. rest = WithIn(board, i, left)
      BY DEF With, WithIn
    <3> HIDE DEF rest
    <3> QED BY <1>1, <1>4, <2>3, <3>1, WithDomain DEF Domain
  <2> HIDE DEF rest
  <2>5. \A p \in 1 .. i - 1 : p \in Column /\ p # i /\ p # i + 1
    BY <1>2 DEF Column
  <2>6. /\ BoardOK(board')
        /\ \A p \in Column : p # i + 1 => board'[p].position = rest[p].position
        /\ i < queen_count => board'[i + 1].position = Values(queen_count)
    <3>1. CASE i = queen_count
      BY <1>2, <2>1, <2>4, <3>1
    <3>2. CASE i # queen_count
      <4> DEFINE all == Values(queen_count)
      <4>1. i + 1 \in Column /\ all \in Seq(Column)
        BY <1>2, <3>2, ValuesOfColumn DEF Column
      <4>2. board' = WithIn(rest, i + 1, all)
        BY <2>1, <3>2 DEF WithIn
      <4> HIDE DEF all
      <4>3. /\ BoardOK(board')
            /\ \A p \in Column : p # i + 1 => board'[p].position = rest[p].position
            /\ board'[i + 1].position = all
        BY <2>4, <4>1, <4>2, WithDomain
      <4> QED BY <4>1, <4>3 DEF all
    <3> QED BY <3>1, <3>2
  <2>7. i # i + 1
    BY <1>2
  <2>8. /\ \A p \in 1 .. i - 1 : board'[p].position = Domain(p)
        /\ board'[i].position = left
    BY <1>1, <2>4, <2>5, <2>6, <2>7
  <2>9. path' \in Seq(Column)
    BY <1>3, <2>1, <2>3
  <2> QED BY <1>1, <1>3, <1>6, <2>1, <2>3, <2>6, <2>8, <2>9 DEF BackTrack, k, left
<1> QED
  BY <1>5, <1>6

LEMMA BeforeIsAColumn ==
    ASSUME TypeInv, i \in Column
    PROVE  Before(i) \in Column
BY CountIsPositive DEF Before, Column

Forget(copies, c) == [copies EXCEPT ![c] = NoCopy]

LEMMA WithoutCopy ==
    ASSUME TypeInv, NEW c \in Column, NEW copies, copies = Forget(Kept(c), c)
    PROVE  /\ CopiesOK(copies) /\ copies[c] = NoCopy
           /\ \A d \in Column : d # c => copies[d] = book_keeping[d]
<1>1. /\ CopiesOK(Kept(c))
      /\ \A d \in Column : d # c => Kept(c)[d] = book_keeping[d]
  BY KeptCopies
<1> DEFINE kept == Kept(c)
<1>2. kept = [d \in Column |-> kept[d]] /\ copies = [kept EXCEPT ![c] = NoCopy]
  BY <1>1 DEF CopiesOK, Forget
<1> HIDE DEF kept
<1>3. copies = [d \in Column |-> copies[d]]
  BY <1>2
<1>4. copies[c] = NoCopy /\ \A d \in Column : d # c => copies[d] = kept[d]
  BY <1>2
<1> QED
  BY <1>1, <1>3, <1>4 DEF kept, CopiesOK

\* bt_fc.py: an iteration, in the terms of the proofs.
LEMMA ForwardCheckSteps ==
    ASSUME TypeInv, ForwardCheck
    PROVE  LET copy  == Kept(i)[Before(i)]
               value == Domain(i)[Max(Leaving)]
           IN  /\ search = "fc" /\ i \in Column /\ path \in Seq(Column) /\ Len(path) = i - 1
               /\ outcome = "searching" /\ UNCHANGED <<search, queen_count, least>>
               /\ \/ /\ Leaving = {} /\ copy = NoCopy /\ outcome' = "TypeError"
                     /\ UNCHANGED <<i, path, board, book_keeping>>
                  \/ /\ Leaving = {} /\ copy # NoCopy /\ i' = i - 1 /\ outcome' = outcome
                     /\ BoardOK(copy) /\ BoardOK(board')
                     /\ \A p \in Column : board'[p] = IF p < i THEN board[p] ELSE copy[p]
                     /\ CopiesOK(book_keeping') /\ book_keeping'[i] = NoCopy
                     /\ \A c \in Column : c # i => book_keeping'[c] = book_keeping[c]
                     /\ path' \in Seq(Column) /\ Len(path') = (IF i = 1 THEN 0 ELSE i - 2)
                     /\ \A k \in 1 .. i - 2 : path'[k] = path[k]
                  \/ /\ Leaving # {} /\ i' = i + 1 /\ outcome' = outcome
                     /\ Max(Leaving) \in Leaving /\ value \in Column
                     /\ path' = Append(path, value) /\ book_keeping' = Kept(i)
                     /\ BoardOK(board')
                     /\ \A p \in 1 .. i - 1 : board'[p].position = Domain(p)
                     /\ board'[i].position = SubSeq(Domain(i), 1, Max(Leaving) - 1)
                     /\ \A p \in i + 1 .. queen_count :
                           ToSet(board'[p].position) =
                              {v \in ToSet(Domain(p)) : constraint(i, p, value, v)}
<1> DEFINE copy  == Kept(i)[Before(i)]
           k     == Max(Leaving)
           value == Domain(i)[k]
<1>1. search = "fc" /\ i \in Column /\ outcome = "searching" /\ UNCHANGED <<search, queen_count, least>>
  BY DEF ForwardCheck, Searching
<1>2. queen_count \in Nat /\ i \in Nat /\ 1 <= i /\ i <= queen_count
  BY <1>1, CountIsPositive DEF Column
<1>3. path \in Seq(Column) /\ Len(path) = i - 1 /\ Before(i) \in Column
  BY <1>1, <1>2, BeforeIsAColumn DEF TypeInv, PathOK
<1>4. BoardOK(board) /\ \A p \in Column : board[p].idx = p
  BY <1>1 DEF TypeInv, BoardOK
<1>5. CASE Leaving = {} /\ copy = NoCopy
  BY <1>1, <1>3, <1>5 DEF ForwardCheck, LevelAbove
<1>6. CASE Leaving = {} /\ copy # NoCopy
  <2>1. /\ i' = i - 1 /\ path' = Pop(path) /\ board' = ResetFrom(i, copy)
        /\ book_keeping' = [Kept(i) EXCEPT ![i] = NoCopy] /\ outcome' = outcome
    BY <1>6 DEF ForwardCheck, LevelAbove
  <2>2. BoardOK(copy)
    BY <1>1, <1>3, <1>6, KeptCopies DEF CopiesOK
  <2> HIDE DEF copy
  <2>3. BoardOK(board') /\ \A p \in Column : board'[p] = IF p < i THEN board[p] ELSE copy[p]
    BY <1>1, <2>1, <2>2, ResetDomains
  <2>4. path' \in Seq(Column) /\ \A j \in 1 .. i - 2 : path'[j] = path[j]
    BY <1>2, <1>3, <2>1, PopType
  <2>5. Len(path') = IF i = 1 THEN 0 ELSE i - 2
    <3>1. path = <<>> <=> Len(path) = 0
      BY <1>3, EmptySeq
    <3> QED BY <1>2, <1>3, <2>1, <3>1, PopType
  <2>6. /\ CopiesOK(book_keeping') /\ book_keeping'[i] = NoCopy
        /\ \A c \in Column : c # i => book_keeping'[c] = book_keeping[c]
    <3>1. book_keeping' = Forget(Kept(i), i)
      BY <2>1 DEF Forget
    <3> QED BY <1>1, <3>1, WithoutCopy
  <2> QED BY <1>1, <1>3, <1>6, <2>1, <2>2, <2>3, <2>4, <2>5, <2>6 DEF copy
<1>7. CASE Leaving # {}
  <2> DEFINE left == SubSeq(Domain(i), 1, k - 1)
             pruned == Pruned(i, value)
  <2>1. /\ i' = i + 1 /\ path' = Append(path, value) /\ book_keeping' = Kept(i)
        /\ board' = [pruned EXCEPT ![i].position = SubSeq(@, 1, k - 1)] /\ outcome' = outcome
    BY <1>7 DEF ForwardCheck
  <2>2. Leaving \in SUBSET DOMAIN Domain(i)
    BY DEF Leaving
  <2>3. k \in Leaving /\ value \in Column /\ left \in Seq(Column)
    BY <1>1, <1>7, <2>2, TakenValue
  <2> HIDE DEF k
  <2>4. /\ BoardOK(pruned)
        /\ \A p \in Column :
              /\ pruned[p].idx = board[p].idx
              /\ p <= i => pruned[p].position = Domain(p)
              /\ p > i => ToSet(pruned[p].position) =
                             {v \in ToSet(Domain(p)) :
                                 constraint(board[i].idx, board[p].idx, value, v)}
    BY <1>1, PrunedDomains
  <2> HIDE DEF value, pruned
  <2>5. board' = WithIn(pruned, i, left)
    <3>1. pruned[i].position = Domain(i)
      BY <1>1, <1>2, <2>4
    <3> QED BY <2>1, <3>1 DEF WithIn
  <2> HIDE DEF left
  <2>6. /\ BoardOK(board') /\ board'[i].position = left
        /\ \A p \in Column : p # i => board'[p].position = pruned[p].position
    BY <1>1, <2>3, <2>4, <2>5, WithDomain
  <2>7. \A p \in 1 .. i - 1 : p \in Column /\ p # i /\ p <= i
    BY <1>2 DEF Column
  <2>8. \A p \in i + 1 .. queen_count : p \in Column /\ p # i /\ p > i
    BY <1>2 DEF Column
  <2>9. \A p \in 1 .. i - 1 : board'[p].position = Domain(p)
    BY <2>4, <2>6, <2>7
  <2>10. \A p \in i + 1 .. queen_count :
            ToSet(board'[p].position) = {v \in ToSet(Domain(p)) : constraint(i, p, value, v)}
    BY <1>1, <1>4, <2>4, <2>6, <2>8
  <2> QED BY <1>1, <1>3, <1>7, <2>1, <2>3, <2>6, <2>9, <2>10 DEF k, value, left
<1> QED
  BY <1>5, <1>6, <1>7

\* dvo.py: what the copy of a variable says of it.
LEMMA KeptOfVariable ==
    ASSUME TypeInv, LevelInv, search # "bt", i \in Column
    PROVE  LET copy == Kept(board[i].idx)[board[i].idx]
           IN  BoardOK(copy) /\ \A p \in 1 .. i : copy[p].idx = board[p].idx
<1> DEFINE c == board[i].idx
           copy == Kept(c)[c]
<1>1. c \in Column /\ BoardOK(board)
  BY DEF TypeInv, BoardOK, IsBoard
<1>2. BoardOK(copy) /\ copy = IF book_keeping[c] = NoCopy THEN board ELSE book_keeping[c]
  BY <1>1, KeptCopies DEF CopiesOK
<1>3. i <= i
  BY CountIsPositive
<1>4. book_keeping[c] # NoCopy => \A p \in 1 .. i : book_keeping[c][p].idx = board[p].idx
  BY <1>3 DEF LevelInv, CopyAt
<1> HIDE DEF copy
<1>5. \A p \in 1 .. i : copy[p].idx = board[p].idx
  BY <1>2, <1>4
<1> QED
  BY <1>2, <1>5 DEF copy

\* dvo.py, select_value_fc: the value that is left last, and what is put back.
LEMMA LeftValues ==
    ASSUME NEW S, NEW dom \in Seq(S), dom # <<>>
    PROVE  /\ LeastConstraining(dom) \in S /\ LeastConstraining(dom) \in ToSet(dom)
           /\ LeftOver(dom) \in Seq(S) /\ ToSet(LeftOver(dom)) \subseteq ToSet(dom)
<1>1. Len(dom) \in Nat /\ Len(dom) >= 1 /\ DOMAIN dom = 1 .. Len(dom)
  BY EmptySeq
<1>2. Head(dom) = dom[1]
  BY <1>1
<1>3. LeastConstraining(dom) \in S /\ LeastConstraining(dom) \in ToSet(dom)
  BY <1>1, <1>2 DEF LeastConstraining, ToSet
<1> DEFINE t == Tail(dom)
           r == LeftOver(dom)
<1>4. t \in Seq(S) /\ Len(t) = Len(dom) - 1 /\ \A k \in 1 .. Len(dom) - 1 : t[k] = dom[k + 1]
  BY <1>1, HeadTailProperties
<1>5. r = [k \in 1 .. Len(t) |-> t[(Len(t) - k) + 1]]
  BY DEF LeftOver, Reverse
<1> HIDE DEF t, r
<1>6. \A k \in 1 .. Len(t) : /\ (Len(t) - k) + 1 \in 1 .. Len(dom) - 1
                             /\ r[k] = dom[((Len(t) - k) + 1) + 1]
                             /\ ((Len(t) - k) + 1) + 1 \in 1 .. Len(dom)
  BY <1>1, <1>4, <1>5
<1>7. r \in [1 .. Len(t) -> S]
  BY <1>5, <1>6
<1>8. r \in Seq(S)
  BY <1>1, <1>4, <1>7
<1>9. ToSet(r) \subseteq ToSet(dom)
  <2>1. DOMAIN r = 1 .. Len(t)
    BY <1>5
  <2>2. \A k \in DOMAIN r : \E j \in DOMAIN dom : r[k] = dom[j]
    BY <1>1, <1>6, <2>1
  <2> QED BY <2>2 DEF ToSet
<1> QED
  BY <1>3, <1>8, <1>9 DEF r

\* dvo.py: an iteration, in the terms of the proofs.
LEMMA DynamicOrderSteps ==
    ASSUME TypeInv, LevelInv, DynamicOrder
    PROVE  LET c     == board[i].idx
               copy  == Kept(c)[board[Before(i)].idx]
               value == LeastConstraining(Domain(i))
           IN  /\ search = "dvo" /\ i \in Column /\ path \in [Column -> 0 .. queen_count]
               /\ outcome = "searching" /\ UNCHANGED <<search, queen_count, least>>
               /\ \/ /\ ~SomeValue /\ copy = NoCopy /\ outcome' = "TypeError"
                     /\ UNCHANGED <<i, path, board, book_keeping>>
                  \/ /\ ~SomeValue /\ copy # NoCopy /\ i' = i - 1 /\ outcome' = outcome
                     /\ board' = copy /\ BoardOK(board')
                     /\ CopiesOK(book_keeping') /\ book_keeping'[c] = NoCopy
                     /\ \A d \in Column : d # c => book_keeping'[d] = book_keeping[d]
                     /\ path' \in [Column -> 0 .. queen_count]
                     /\ \A d \in Column : d # board'[i].idx => path'[d] = path[d]
                  \/ /\ SomeValue /\ i' = i + 1 /\ outcome' = outcome
                     /\ value \in ToSet(Domain(i)) /\ value \in Column
                     /\ path' \in [Column -> 0 .. queen_count] /\ path'[c] = value
                     /\ \A d \in Column : d # c => path'[d] = path[d]
                     /\ BoardOK(board')
                     /\ \A p \in 1 .. i - 1 : board'[p] = board[p]
                     /\ board'[i].idx = c
                     /\ ToSet(board'[i].position) \subseteq ToSet(Domain(i))
                     /\ \A p \in i + 1 .. queen_count : \E q \in i + 1 .. queen_count :
                           /\ board'[p].idx = board[q].idx
                           /\ ToSet(board'[p].position) =
                                {v \in ToSet(Domain(q)) : constraint(c, board[q].idx, value, v)}
                     /\ CopiesOK(book_keeping') /\ book_keeping'[c] # NoCopy
                     /\ \A d \in Column : d # c => book_keeping'[d] = book_keeping[d]
                     /\ \A p \in Column :
                           /\ book_keeping'[c][p].idx = Kept(c)[c][p].idx
                           /\ p # i => book_keeping'[c][p] = Kept(c)[c][p]
                     /\ ToSet(book_keeping'[c][i].position) \subseteq ToSet(Domain(i))
<1> DEFINE c     == board[i].idx
           other == board[Before(i)].idx
           copy  == Kept(c)[other]
           value == LeastConstraining(Domain(i))
<1>1. search = "dvo" /\ i \in Column /\ outcome = "searching" /\ UNCHANGED <<search, queen_count, least>>
  BY DEF DynamicOrder, Searching
<1>2. queen_count \in Nat /\ i \in Nat /\ 1 <= i /\ i <= queen_count
  BY <1>1, CountIsPositive DEF Column
<1>3. path \in [Column -> 0 .. queen_count] /\ BoardOK(board) /\ IsBoard(board)
  BY <1>1 DEF TypeInv, PathOK, BoardOK
<1>4. c \in Column /\ other \in Column
  BY <1>1, <1>3, BeforeIsAColumn DEF IsBoard
<1>5. CASE ~SomeValue /\ copy = NoCopy
  BY <1>1, <1>3, <1>5 DEF DynamicOrder
<1>6. CASE ~SomeValue /\ copy # NoCopy
  <2>1. /\ i' = i - 1 /\ path' = [path EXCEPT ![copy[i].idx] = None] /\ board' = copy
        /\ book_keeping' = [Kept(c) EXCEPT ![c] = NoCopy] /\ outcome' = outcome
    BY <1>6 DEF DynamicOrder
  <2>2. BoardOK(copy)
    BY <1>4, <1>6, KeptCopies DEF CopiesOK
  <2>3. /\ CopiesOK(book_keeping') /\ book_keeping'[c] = NoCopy
        /\ \A d \in Column : d # c => book_keeping'[d] = book_keeping[d]
    <3>1. book_keeping' = Forget(Kept(c), c)
      BY <2>1 DEF Forget
    <3> HIDE DEF c
    <3> QED BY <1>4, <3>1, WithoutCopy
  <2> HIDE DEF copy
  <2>4. None \in 0 .. queen_count
    BY <1>2 DEF None
  <2>5. /\ path' \in [Column -> 0 .. queen_count]
        /\ \A d \in Column : d # board'[i].idx => path'[d] = path[d]
    BY <1>3, <2>1, <2>4
  <2> QED BY <1>1, <1>3, <1>6, <2>1, <2>2, <2>3, <2>5 DEF copy
<1>7. CASE SomeValue
  <2> DEFINE left == LeftOver(Domain(i))
             pruned == Pruned(i, value)
             rest == [pruned EXCEPT ![i].position = left]
  <2>1. /\ i' = i + 1 /\ path' = [path EXCEPT ![c] = value] /\ outcome' = outcome
        /\ board' = (IF i = queen_count THEN rest ELSE Rearranged(rest, i))
        /\ book_keeping' = [Kept(c) EXCEPT ![c][i] = [idx |-> c, position |-> left]]
    BY <1>7 DEF DynamicOrder, Noted
  <2>2. Domain(i) \in Seq(Column) /\ Domain(i) # <<>>
    BY <1>1, <1>3, <1>7, ColumnsOfDomains DEF Domain, SomeValue
  <2>3. /\ value \in Column /\ value \in ToSet(Domain(i))
        /\ left \in Seq(Column) /\ ToSet(left) \subseteq ToSet(Domain(i))
    BY <2>2, LeftValues
  <2> HIDE DEF value
  <2>4. /\ BoardOK(pruned)
        /\ \A p \in Column :
              /\ pruned[p].idx = board[p].idx
              /\ p <= i => pruned[p].position = Domain(p)
              /\ p > i => ToSet(pruned[p].position) =
                             {v \in ToSet(Domain(p)) :
                                 constraint(c, board[p].idx, value, v)}
    BY <1>1, PrunedDomains
  <2>5. \A p \in 1 .. i - 1 : pruned[p] = board[p]
    BY <1>2 DEF Pruned, Column
  <2> HIDE DEF pruned, left
  <2>6. rest = WithIn(pruned, i, left)
    BY DEF WithIn
  <2>7. \A p \in 1 .. i - 1 : rest[p] = board[p]
    BY <1>1, <1>2, <2>4, <2>5 DEF BoardOK, IsBoard, Column
  <2> HIDE DEF rest
  <2>8. /\ BoardOK(rest) /\ rest[i].position = left
        /\ \A p \in Column : rest[p].idx = board[p].idx
        /\ \A p \in Column : p # i => rest[p].position = pruned[p].position
    BY <1>1, <2>3, <2>4, <2>6, WithDomain
  <2>9. /\ IsBoard(board') /\ EachOnce(board')
        /\ \A p \in 1 .. i : board'[p] = rest[p]
        /\ \A p \in i + 1 .. queen_count : \E q \in i + 1 .. queen_count : board'[p] = rest[q]
    <3>1. CASE i = queen_count
      BY <1>2, <2>1, <2>8, <3>1 DEF BoardOK
    <3>2. CASE i # queen_count
      <4>1. board' = Rearranged(rest, i)
        BY <2>1, <3>2
      <4> QED BY <1>1, <1>2, <2>8, <4>1, RearrangedPermutes DEF BoardOK
    <3> QED BY <3>1, <3>2
  <2>10. BoardOK(board')
    BY <1>1, <2>9 DEF BoardOK
  <2>11. /\ \A p \in 1 .. i - 1 : board'[p] = board[p]
         /\ board'[i].idx = c /\ board'[i].position = left
    BY <1>1, <1>2, <2>7, <2>8, <2>9
  <2>12. \A p \in i + 1 .. queen_count : \E q \in i + 1 .. queen_count :
            /\ board'[p].idx = board[q].idx
            /\ ToSet(board'[p].position) =
                 {v \in ToSet(Domain(q)) : constraint(c, board[q].idx, value, v)}
    <3> SUFFICES ASSUME NEW p \in i + 1 .. queen_count
                 PROVE  \E q \in i + 1 .. queen_count :
                           /\ board'[p].idx = board[q].idx
                           /\ ToSet(board'[p].position) =
                                {v \in ToSet(Domain(q)) : constraint(c, board[q].idx, value, v)}
      OBVIOUS
    <3>1. PICK q \in i + 1 .. queen_count : board'[p] = rest[q]
      BY <2>9
    <3>2. q \in Column /\ q # i /\ q > i
      BY <1>2 DEF Column
    <3> QED BY <2>4, <2>8, <3>1, <3>2
  <2>13. path' \in [Column -> 0 .. queen_count] /\ path'[c] = value
         /\ \A d \in Column : d # c => path'[d] = path[d]
    BY <1>2, <1>3, <1>4, <2>1, <2>3 DEF Column
  <2> DEFINE kept == Kept(c)
             own  == kept[c]
             new  == book_keeping'[c]
  <2>14. BoardOK(own) /\ own[i].idx = c
    BY <1>1, <1>2, KeptOfVariable
  <2>15. CopiesOK(kept) /\ kept[c] # NoCopy
         /\ \A d \in Column : d # c => kept[d] = book_keeping[d]
    BY <1>4, KeptCopies
  <2> HIDE DEF kept
  <2>16. book_keeping' = [kept EXCEPT ![c] = [own EXCEPT ![i] = [idx |-> c, position |-> left]]]
    BY <2>1 DEF kept
  <2>17. /\ new = [own EXCEPT ![i] = [idx |-> c, position |-> left]]
         /\ book_keeping' = [d \in Column |-> book_keeping'[d]]
         /\ \A d \in Column : d # c => book_keeping'[d] = kept[d]
    BY <1>4, <2>15, <2>16 DEF CopiesOK
  <2> HIDE DEF new, own, c
  <2>18. /\ IsBoard(new)
         /\ \A p \in Column : new[p].idx = own[p].idx /\ (p # i => new[p] = own[p])
         /\ new[i].position = left
    BY <1>1, <1>4, <2>3, <2>14, <2>17 DEF BoardOK, IsBoard
  <2>19. BoardOK(new)
    BY <2>14, <2>18, SamePlaces
  <2>20. CopiesOK(book_keeping')
    BY <2>15, <2>17, <2>19 DEF CopiesOK, new
  <2>21. new # NoCopy
    BY <2>18, BoardIsACopy
  <2> QED BY <1>1, <1>3, <1>7, <2>1, <2>3, <2>10, <2>11, <2>12, <2>13, <2>15, <2>17, <2>18, <2>20, <2>21
          DEF kept, value, new, own, c
<1> QED
  BY <1>5, <1>6, <1>7

-----------------------------------------------------------------------------
(* The types and the copies are invariant. *)

LEMMA ColumnsStay ==
    ASSUME UNCHANGED <<search, queen_count>>
    PROVE  /\ search' = search /\ queen_count' = queen_count /\ (Column' = Column)
           /\ (NoCopy' = NoCopy)
BY DEF Column, NoCopy

LEMMA BackTrackTypes ==
    ASSUME TypeInv, BackTrack
    PROVE  TypeInv'
<1>1. queen_count \in Nat /\ i \in Nat /\ i \in Column
  BY CountIsPositive, BackTrackSteps
<1>2. i' \in 0 .. queen_count + 1
  BY <1>1, BackTrackSteps DEF Column
<1>3. /\ search = "bt" /\ BoardOK(board') /\ path' \in Seq(Column) /\ outcome' = outcome
      /\ UNCHANGED <<search, queen_count, least>> /\ book_keeping' = book_keeping
      /\ path \in Seq(Column) /\ Len(path) = i - 1
  BY BackTrackSteps
<1>4. Len(path') = IF i' = 0 THEN 0 ELSE i' - 1
  BY <1>1, <1>3, BackTrackSteps DEF Column
<1>5. PathOK'
  BY <1>3, <1>4, ColumnsStay DEF PathOK
<1> QED
  BY <1>2, <1>3, <1>5, TypesAgain DEF TypeInv

LEMMA ForwardCheckTypes ==
    ASSUME TypeInv, ForwardCheck
    PROVE  TypeInv'
<1>1. queen_count \in Nat /\ i \in Nat /\ i \in Column /\ search = "fc"
  BY CountIsPositive, ForwardCheckSteps
<1>2. path \in Seq(Column) /\ Len(path) = i - 1 /\ UNCHANGED <<search, queen_count, least>>
  BY ForwardCheckSteps
<1>3. CASE outcome' = "TypeError" /\ UNCHANGED <<i, path, board, book_keeping>>
  <2>1. PathOK'
    BY <1>2, <1>3, ColumnsStay DEF TypeInv, PathOK
  <2> QED BY <1>2, <1>3, <2>1, TypesAgain DEF TypeInv
<1>4. CASE Leaving = {} /\ outcome' = outcome
  <2>1. /\ i' = i - 1 /\ BoardOK(board') /\ CopiesOK(book_keeping')
        /\ path' \in Seq(Column) /\ Len(path') = IF i = 1 THEN 0 ELSE i - 2
    BY <1>4, ForwardCheckSteps
  <2>2. i' \in 0 .. queen_count + 1 /\ Len(path') = IF i' = 0 THEN 0 ELSE i' - 1
    BY <1>1, <2>1 DEF Column
  <2>3. PathOK'
    BY <1>1, <1>2, <2>1, <2>2, ColumnsStay DEF PathOK
  <2> QED BY <1>2, <1>4, <2>1, <2>2, <2>3, TypesAgain DEF TypeInv
<1>5. CASE Leaving # {}
  <2> DEFINE value == Domain(i)[Max(Leaving)]
  <2>1. /\ i' = i + 1 /\ BoardOK(board') /\ book_keeping' = Kept(i) /\ value \in Column
        /\ path' = Append(path, value) /\ outcome' = outcome
    BY <1>5, ForwardCheckSteps
  <2> HIDE DEF value
  <2>2. path' \in Seq(Column) /\ Len(path') = i
    BY <1>1, <1>2, <2>1
  <2>3. i' \in 0 .. queen_count + 1 /\ Len(path') = IF i' = 0 THEN 0 ELSE i' - 1
    BY <1>1, <2>1, <2>2 DEF Column
  <2>4. PathOK'
    BY <1>1, <1>2, <2>2, <2>3, ColumnsStay DEF PathOK
  <2>5. CopiesOK(book_keeping')
    BY <1>1, <2>1, KeptCopies
  <2> QED BY <1>2, <2>1, <2>3, <2>4, <2>5, TypesAgain DEF TypeInv
<1> QED
  BY <1>3, <1>4, <1>5, ForwardCheckSteps

LEMMA DynamicOrderTypes ==
    ASSUME TypeInv, LevelInv, DynamicOrder
    PROVE  TypeInv'
<1>1. queen_count \in Nat /\ i \in Nat /\ i \in Column /\ search = "dvo"
  BY CountIsPositive, DynamicOrderSteps
<1>2. UNCHANGED <<search, queen_count, least>>
  BY DynamicOrderSteps
<1>3. CASE outcome' = "TypeError" /\ UNCHANGED <<i, path, board, book_keeping>>
  <2>1. PathOK'
    BY <1>2, <1>3, ColumnsStay DEF TypeInv, PathOK
  <2> QED BY <1>2, <1>3, <2>1, TypesAgain DEF TypeInv
<1>4. CASE outcome' = outcome
  <2>1. /\ i' = i - 1 \/ i' = i + 1
        /\ BoardOK(board') /\ CopiesOK(book_keeping') /\ path' \in [Column -> 0 .. queen_count]
    <3>1. outcome' # "TypeError"
      BY <1>4, DynamicOrderSteps
    <3> QED BY <3>1, DynamicOrderSteps
  <2>2. i' \in 0 .. queen_count + 1
    BY <1>1, <2>1 DEF Column
  <2>3. PathOK'
    BY <1>1, <1>2, <2>1, ColumnsStay DEF PathOK
  <2> QED BY <1>2, <1>4, <2>1, <2>2, <2>3, TypesAgain DEF TypeInv
<1> QED
  BY <1>3, <1>4, DynamicOrderSteps

LEMMA TypeStep ==
    ASSUME TypeInv, LevelInv, [Next]_vars
    PROVE  TypeInv'
<1>1. ASSUME UNCHANGED <<search, queen_count, least, i, path, board, book_keeping>>,
             outcome' \in {outcome, "path", "inconsistent"}
      PROVE  TypeInv'
  <2>1. PathOK'
    BY <1>1, ColumnsStay DEF TypeInv, PathOK
  <2> QED BY <1>1, <2>1, TypesAgain DEF TypeInv
<1>2. CASE Return
  BY <1>1, <1>2, ReturnSteps
<1>3. CASE Ended \/ UNCHANGED vars
  BY <1>1, <1>3 DEF Ended, vars
<1> QED
  BY <1>2, <1>3, BackTrackTypes, ForwardCheckTypes, DynamicOrderTypes DEF Next

\* bt_fc.py, dvo.py: nothing has a copy before the first iteration.
LEMMA LevelInit ==
    Init => LevelInv
<1> SUFFICES ASSUME Init, search # "bt" PROVE LevelInv
  BY DEF LevelInv
<1>1. TypeInv
  BY TypeInit
<1>2. queen_count \in Nat /\ queen_count >= 1 /\ i = 1
  BY <1>1, CountIsPositive DEF Init
<1>3. \A k \in Column : CopyAt(k) = NoCopy
  BY <1>1, ColumnsOfDomains DEF Init, CopyAt, TypeInv, BoardOK
<1>4. Domain(1) = Values(queen_count)
  BY <1>2 DEF Init, Domain, Column
<1>5. queen_count = 1 => Domain(1) = <<1>>
  BY <1>4 DEF Values
<1>6. \A k \in Column : ~(k < i)
  BY <1>2 DEF Column
<1> QED
  BY <1>2, <1>3, <1>5, <1>6 DEF LevelInv

SameBefore(b, d, m) == \A p \in 1 .. m - 1 : b[p].idx = d[p].idx

\* The columns behind a place are the same in two orders that agree before it.
LEMMA SameBehind ==
    ASSUME NEW b, NEW d, IsBoard(b), EachOnce(b), IsBoard(d), EachOnce(d),
           queen_count \in Nat, NEW m \in Column, SameBefore(b, d, m)
    PROVE  \A k \in m .. queen_count : \E q \in m .. queen_count : d[k].idx = b[q].idx
<1> SUFFICES ASSUME NEW k \in m .. queen_count
             PROVE  \E q \in m .. queen_count : d[k].idx = b[q].idx
  OBVIOUS
<1>1. k \in Column /\ m \in Nat /\ 1 <= m
  BY DEF Column
<1>2. d[k].idx \in Column
  BY <1>1 DEF IsBoard
<1>3. PICK q \in Column : b[q].idx = d[k].idx
  BY <1>2 DEF EachOnce
<1>4. q \in 1 .. m - 1 => d[q].idx = d[k].idx
  BY <1>3 DEF SameBefore
<1>5. q \in 1 .. m - 1 => q = k
  BY <1>1, <1>4 DEF EachOnce
<1>6. q \in m .. queen_count
  BY <1>1, <1>5 DEF Column
<1> QED
  BY <1>3, <1>6

\* bt_fc.py, dvo.py: the first variable finds no copy to go back to.
LEMMA FirstHasNoneBefore ==
    ASSUME TypeInv, LevelInv, search # "bt", i = 1
    PROVE  queen_count # 1 => Kept(board[i].idx)[board[Before(i)].idx] = NoCopy
<1> SUFFICES ASSUME queen_count # 1
             PROVE  Kept(board[i].idx)[board[Before(i)].idx] = NoCopy
  OBVIOUS
<1>1. i \in Column /\ queen_count \in Column /\ queen_count > i /\ Before(i) = queen_count
  BY CountIsPositive DEF Column, Before
<1>2. CopyAt(queen_count) = NoCopy
  BY <1>1 DEF LevelInv
<1>3. board[queen_count].idx # board[i].idx /\ board[queen_count].idx \in Column /\ board[i].idx \in Column
  BY <1>1, CountIsPositive DEF TypeInv, BoardOK, EachOnce, IsBoard
<1> QED
  BY <1>1, <1>2, <1>3, KeptCopies DEF CopyAt

LEMMA OneQueenFits ==
    ASSUME TypeInv, LevelInv, search # "bt", queen_count = 1, i \in Column
    PROVE  i = 1 /\ Leaving # {} /\ SomeValue
<1>1. i = 1
  BY DEF Column
<1>2. Domain(1) = <<1>>
  BY <1>1 DEF LevelInv
<1>3. \A v : Viable(i, v)
  BY <1>1 DEF Viable
<1>4. 1 \in DOMAIN Domain(i) /\ Domain(i) # <<>>
  BY <1>1, <1>2
<1> QED
  BY <1>1, <1>3, <1>4 DEF Leaving, SomeValue

LEMMA ForwardCheckLevels ==
    ASSUME TypeInv, LevelInv, ForwardCheck
    PROVE  LevelInv'
<1>1. queen_count \in Nat /\ queen_count >= 1 /\ i \in Nat /\ i \in Column /\ search = "fc"
      /\ 1 <= i /\ i <= queen_count
  BY CountIsPositive, ForwardCheckSteps DEF Column
<1>2. /\ search' = search /\ queen_count' = queen_count /\ (Column' = Column)
      /\ (NoCopy' = NoCopy)
  BY ForwardCheckSteps, ColumnsStay
<1>3. BoardOK(board) /\ \A k \in Column : board[k].idx = k
  BY <1>1 DEF TypeInv, BoardOK
<1>4. TypeInv'
  BY ForwardCheckTypes
<1>5. \A k \in Column : board'[k].idx = k
  BY <1>1, <1>2, <1>4 DEF TypeInv, BoardOK
<1>6. \A c \in Column : book_keeping'[c] # NoCopy => \A p \in Column : book_keeping'[c][p].idx = p
  BY <1>1, <1>2, <1>4 DEF TypeInv, BoardOK, CopiesOK
<1>7. \A k \in Column : /\ k > i => book_keeping[k] = NoCopy
                        /\ k < i => book_keeping[k] # NoCopy
  BY <1>1, <1>3 DEF LevelInv, CopyAt
<1>8. SUFFICES /\ i' > 0 /\ (queen_count = 1 /\ i' = 1 => board'[1].position = <<1>>)
               /\ \A k \in Column : /\ k > i' => book_keeping'[k] = NoCopy
                                    /\ k < i' => book_keeping'[k] # NoCopy
  <2>1. \A k \in Column : \A p \in 1 .. k : p \in Column
    BY <1>1 DEF Column
  <2> QED BY <1>2, <1>5, <1>6, <1>8, <2>1 DEF LevelInv, CopyAt, Domain
<1>9. CASE outcome' = "TypeError" /\ UNCHANGED <<i, path, board, book_keeping>>
  BY <1>1, <1>7, <1>9 DEF LevelInv, Domain
<1>10. CASE Leaving = {} /\ Kept(i)[Before(i)] # NoCopy
  <2>1. i # 1
    BY <1>1, <1>3, <1>10, FirstHasNoneBefore, OneQueenFits, BeforeIsAColumn
  <2>2. /\ i' = i - 1 /\ book_keeping'[i] = NoCopy
        /\ \A c \in Column : c # i => book_keeping'[c] = book_keeping[c]
    BY <1>10, ForwardCheckSteps
  <2> QED BY <1>1, <1>7, <2>1, <2>2 DEF Column
<1>11. CASE Leaving # {}
  <2>1. i' = i + 1 /\ book_keeping' = Kept(i)
    BY <1>11, ForwardCheckSteps
  <2>2. /\ book_keeping'[i] # NoCopy
        /\ \A c \in Column : c # i => book_keeping'[c] = book_keeping[c]
    BY <1>1, <2>1, KeptCopies
  <2> QED BY <1>1, <1>7, <2>1, <2>2 DEF Column
<1> QED
  BY <1>9, <1>10, <1>11, ForwardCheckSteps

LEMMA DynamicOrderLevels ==
    ASSUME TypeInv, LevelInv, DynamicOrder
    PROVE  LevelInv'
<1> DEFINE c == board[i].idx
<1>1. queen_count \in Nat /\ queen_count >= 1 /\ i \in Nat /\ i \in Column /\ search = "dvo"
      /\ 1 <= i /\ i <= queen_count
  BY CountIsPositive, DynamicOrderSteps DEF Column
<1>2. /\ search' = search /\ queen_count' = queen_count /\ (Column' = Column)
      /\ (NoCopy' = NoCopy)
  BY DynamicOrderSteps, ColumnsStay
<1>3. BoardOK(board) /\ IsBoard(board) /\ EachOnce(board) /\ c \in Column
  BY <1>1 DEF TypeInv, BoardOK, IsBoard
<1>4. TypeInv'
  BY DynamicOrderTypes
<1>5. \A k \in Column : /\ k > i => book_keeping[board[k].idx] = NoCopy
                        /\ k < i => book_keeping[board[k].idx] # NoCopy
                        /\ k <= i /\ book_keeping[board[k].idx] # NoCopy =>
                              \A p \in 1 .. k : book_keeping[board[k].idx][p].idx = board[p].idx
  BY <1>1 DEF LevelInv, CopyAt
<1>6. \A k \in Column : k # i => board[k].idx # c
  BY <1>1, <1>3 DEF EachOnce
<1>7. \A k \in Column : board[k].idx \in Column
  BY <1>3 DEF IsBoard
<1>8. SUFFICES /\ i' > 0 /\ (queen_count = 1 /\ i' = 1 => board'[1].position = <<1>>)
               /\ \A k \in Column :
                     /\ k > i' => book_keeping'[board'[k].idx] = NoCopy
                     /\ k < i' => book_keeping'[board'[k].idx] # NoCopy
                     /\ k <= i' /\ book_keeping'[board'[k].idx] # NoCopy =>
                           \A p \in 1 .. k : book_keeping'[board'[k].idx][p].idx = board'[p].idx
  BY <1>2, <1>8 DEF LevelInv, CopyAt, Domain
<1>9. CASE outcome' = "TypeError" /\ UNCHANGED <<i, path, board, book_keeping>>
  BY <1>1, <1>5, <1>9 DEF LevelInv, Domain
<1>10. CASE ~SomeValue /\ Kept(c)[board[Before(i)].idx] # NoCopy
  <2>1. i # 1 /\ i - 1 \in Column /\ Before(i) = i - 1
    <3>1. i # 1
      BY <1>1, <1>10, FirstHasNoneBefore, OneQueenFits
    <3> QED BY <1>1, <3>1 DEF Before, Column
  <2>2. /\ i' = i - 1 /\ BoardOK(board') /\ board' = Kept(c)[board[i - 1].idx]
        /\ book_keeping'[c] = NoCopy
        /\ \A d \in Column : d # c => book_keeping'[d] = book_keeping[d]
    BY <1>10, <2>1, DynamicOrderSteps
  <2>3. board' = book_keeping[board[i - 1].idx]
    <3>1. board[i - 1].idx \in Column /\ board[i - 1].idx # c
      BY <1>1, <1>6, <1>7, <2>1
    <3> HIDE DEF c
    <3> QED BY <1>3, <2>2, <3>1, KeptCopies
  <2>4. board' # NoCopy
    BY <2>2, BoardIsACopy DEF BoardOK
  <2>5. \A p \in 1 .. i - 1 : board'[p].idx = board[p].idx
    BY <1>1, <1>5, <2>1, <2>3, <2>4
  <2>6. \A k \in Column : k < i => /\ book_keeping'[board'[k].idx] = book_keeping[board[k].idx]
                                   /\ k \in 1 .. i - 1
    BY <1>1, <1>6, <1>7, <2>2, <2>5 DEF Column
  <2>7. ASSUME NEW k \in Column, k >= i
        PROVE  book_keeping'[board'[k].idx] = NoCopy
    <3>1. k \in i .. queen_count
      BY <2>7, <1>1 DEF Column
    <3>2. PICK q \in i .. queen_count : board'[k].idx = board[q].idx
      <4>1. IsBoard(board') /\ EachOnce(board')
        BY <2>2 DEF BoardOK
      <4>2. \A p \in 1 .. i - 1 : board[p].idx = board'[p].idx
        BY <2>5
      <4>3. \A m \in i .. queen_count : \E q \in i .. queen_count : board'[m].idx = board[q].idx
        <5> DEFINE new == board'
        <5> HIDE DEF new
        <5>1. SameBefore(board, new, i)
          BY <4>2 DEF new, SameBefore
        <5>2. IsBoard(new) /\ EachOnce(new) /\ IsBoard(board) /\ EachOnce(board)
          BY <1>3, <4>1 DEF new
        <5>3. \A m \in i .. queen_count : \E q \in i .. queen_count : new[m].idx = board[q].idx
          <6>1. queen_count \in Nat /\ i \in Column
            BY <1>1
          <6> QED BY <5>1, <5>2, <6>1, SameBehind
        <5> QED BY <5>3 DEF new
      <4> QED BY <3>1, <4>3
    <3>3. q \in Column /\ (q = i \/ q > i)
      BY <1>1 DEF Column
    <3>4. book_keeping'[board[q].idx] = NoCopy
      <4>1. CASE q = i
        BY <1>1, <2>2, <4>1
      <4>2. CASE q > i
        BY <1>1, <1>5, <1>6, <1>7, <2>2, <3>3, <4>2
      <4> QED BY <3>3, <4>1, <4>2
    <3> QED BY <3>2, <3>4
  <2>8. \A k \in Column : /\ k > i' => k >= i
                          /\ k <= i' => k < i
                          /\ k < i' => k < i
                          /\ \A p \in 1 .. k : k < i => p \in 1 .. i - 1
    BY <1>1, <2>1, <2>2 DEF Column
  <2>9. \A k \in Column : k < i /\ book_keeping'[board'[k].idx] # NoCopy =>
           \A p \in 1 .. k : book_keeping'[board'[k].idx][p].idx = board'[p].idx
    <3>1. \A k \in Column : k < i => k <= i
      BY <1>1 DEF Column
    <3> QED BY <1>5, <2>5, <2>6, <2>8, <3>1
  <2>10. i' > 0 /\ ~(queen_count = 1)
    BY <1>1, <2>1, <2>2
  <2> QED BY <1>5, <2>6, <2>7, <2>8, <2>9, <2>10
<1>11. CASE SomeValue
  <2>1. /\ i' = i + 1 /\ BoardOK(board')
        /\ \A p \in 1 .. i - 1 : board'[p] = board[p]
        /\ board'[i].idx = c
        /\ book_keeping'[c] # NoCopy
        /\ \A d \in Column : d # c => book_keeping'[d] = book_keeping[d]
        /\ \A p \in Column : book_keeping'[c][p].idx = Kept(c)[c][p].idx
    BY <1>11, DynamicOrderSteps
  <2>2. \A p \in i + 1 .. queen_count : \E q \in i + 1 .. queen_count :
           board'[p].idx = board[q].idx
    BY <1>11, DynamicOrderSteps
  <2>3. \A p \in 1 .. i : board'[p].idx = board[p].idx
    BY <1>1, <2>1
  <2>4. ASSUME NEW k \in Column, k > i
        PROVE  book_keeping'[board'[k].idx] = NoCopy
    <3>1. k \in i + 1 .. queen_count
      BY <2>4, <1>1 DEF Column
    <3>2. PICK q \in i + 1 .. queen_count : board'[k].idx = board[q].idx
      BY <2>2, <3>1
    <3>3. q \in Column /\ q > i /\ q # i
      BY <1>1 DEF Column
    <3>4. board[q].idx \in Column /\ board[q].idx # c /\ book_keeping[board[q].idx] = NoCopy
      BY <1>5, <1>6, <1>7, <3>3
    <3> HIDE DEF c
    <3> QED BY <2>1, <3>2, <3>4
  <2>5. ASSUME NEW k \in Column, k < i
        PROVE  /\ book_keeping'[board'[k].idx] # NoCopy
               /\ \A p \in 1 .. k : book_keeping'[board'[k].idx][p].idx = board'[p].idx
    <3>1. k \in 1 .. i /\ k # i /\ k <= i /\ \A p \in 1 .. k : p \in 1 .. i
      BY <2>5, <1>1 DEF Column
    <3>2. book_keeping'[board'[k].idx] = book_keeping[board[k].idx]
      BY <1>6, <1>7, <2>1, <2>3, <3>1
    <3> QED BY <1>5, <2>3, <2>5, <3>1, <3>2
  <2>6. /\ book_keeping'[board'[i].idx] # NoCopy
        /\ \A p \in 1 .. i : book_keeping'[board'[i].idx][p].idx = board'[p].idx
    <3>1. \A p \in 1 .. i : Kept(c)[c][p].idx = board[p].idx
      BY <1>1, KeptOfVariable
    <3>2. \A p \in 1 .. i : p \in Column
      BY <1>1 DEF Column
    <3> QED BY <2>1, <2>3, <3>1, <3>2
  <2>7. \A k \in Column : /\ k > i' => k > i
                          /\ k < i' => k < i \/ k = i
                          /\ k <= i' => k < i \/ k = i \/ k > i
    BY <1>1, <2>1 DEF Column
  <2>8. i' > 0 /\ ~(i' = 1)
    BY <1>1, <2>1
  <2> QED BY <2>4, <2>5, <2>6, <2>7, <2>8
<1> QED
  BY <1>9, <1>10, <1>11, DynamicOrderSteps

LEMMA LevelStep ==
    ASSUME TypeInv, LevelInv, [Next]_vars
    PROVE  LevelInv'
<1>1. ASSUME UNCHANGED <<search, queen_count, least, i, path, board, book_keeping>>
      PROVE  LevelInv'
  BY <1>1 DEF LevelInv, CopyAt, Domain, Column, NoCopy
<1>2. CASE BackTrack
  <2>1. search = "bt" /\ search' = search
    BY <1>2, BackTrackSteps
  <2> QED BY <2>1 DEF LevelInv
<1>3. CASE Return
  BY <1>1, <1>3, ReturnSteps
<1>4. CASE Ended \/ UNCHANGED vars
  BY <1>1, <1>4 DEF Ended, vars
<1> QED
  BY <1>2, <1>3, <1>4, ForwardCheckLevels, DynamicOrderLevels DEF Next

\* TypeInv /\ LevelInv is an invariant.
LEMMA LevelInvariant == Spec => [](TypeInv /\ LevelInv)
<1>1. Init => TypeInv /\ LevelInv
  BY TypeInit, LevelInit
<1>2. TypeInv /\ LevelInv /\ [Next]_vars => (TypeInv /\ LevelInv)'
  BY TypeStep, LevelStep
<1> QED
  BY <1>1, <1>2, PTL DEF Spec

\* bt_fc.py, dvo.py: every index stays within the lists, and the board holds the
\* variable of each column once, whatever copies it is put together from.
THEOREM TypeCorrectness == Spec => []TypeOK
<1>1. TypeInv => TypeOK
  <2> SUFFICES ASSUME TypeInv PROVE TypeOK
    OBVIOUS
  <2>1. queen_count \in Nat /\ queen_count >= 1 /\ i \in Nat
    BY CountIsPositive
  <2>2. path \in Seq(0 .. queen_count) /\ Len(path) <= queen_count
    <3>1. CASE search = "dvo"
      BY <2>1, <3>1 DEF TypeInv, PathOK, Column
    <3>2. CASE search # "dvo"
      <4>1. path \in Seq(Column) /\ Len(path) = IF i = 0 THEN 0 ELSE i - 1
        BY <3>2 DEF TypeInv, PathOK
      <4>2. Column \subseteq 0 .. queen_count
        BY DEF Column
      <4>3. path \in Seq(0 .. queen_count)
        BY <4>1, <4>2, SeqMonotonic
      <4> QED BY <2>1, <4>1, <4>3 DEF TypeInv
    <3> QED BY <3>1, <3>2
  <2>3. \A k \in Column : ToSet(Domain(k)) \subseteq Column
    BY ColumnsOfDomains DEF TypeInv, BoardOK, Domain
  <2> QED BY <2>2, <2>3 DEF TypeOK, TypeInv, BoardOK, EachOnce
<1> QED
  BY <1>1, LevelInvariant, PTL

-----------------------------------------------------------------------------
(* What is placed fits together. *)

LEMMA FitsSame ==
    ASSUME NEW b, NEW k, NEW f, NEW g, Fits(b, k, f), \A j \in Column : j < k => f[j] = g[j]
    PROVE  Fits(b, k, g)
BY DEF Fits

\* The invariant of the next state, from the state's variables one by one.
LEMMA FitAgain ==
    ASSUME queen_count' = queen_count, search' = search,
           \A k \in 1 .. i' - 1 : Placed'[k] \in Column,
           \A j, k \in 1 .. i' - 1 : j < k =>
              constraint(board'[j].idx, board'[k].idx, Placed'[j], Placed'[k]),
           outcome' = "path" => i' = queen_count + 1,
           search # "bt" => /\ Fits(board', i', Placed')
                            /\ \A k \in Column : k <= i' /\ (CopyAt(k)') # NoCopy =>
                                  Fits(CopyAt(k)', k, Placed')
    PROVE  FitInv'
BY DEF FitInv, Fits, Column, constraint, Abs, NoCopy

LEMMA PlacedBy ==
    ASSUME NEW k \in Column
    PROVE  Placed[k] = IF search = "dvo" THEN path[board[k].idx] ELSE path[k]
BY DEF Placed, Value

LEMMA PlacedByNext ==
    ASSUME queen_count' = queen_count, search' = search, NEW k \in Column
    PROVE  Placed'[k] = IF search = "dvo" THEN path'[board'[k].idx] ELSE path'[k]
BY DEF Placed, Value, Column

LEMMA FitInit ==
    Init => FitInv
<1> SUFFICES ASSUME Init PROVE FitInv
  OBVIOUS
<1>1. TypeInv /\ LevelInv
  BY TypeInit, LevelInit
<1>2. i = 1 /\ queen_count \in Nat
  BY <1>1, CountIsPositive DEF Init
<1>3. \A j, k \in Column : k <= i => ~(j < k)
  BY <1>2 DEF Column
<1>4. \A b, k : k \in Column /\ k <= i => Fits(b, k, Placed)
  BY <1>3 DEF Fits
<1>5. i \in Column
  BY <1>1, <1>2, CountIsPositive DEF Column
<1>6. Fits(board, i, Placed)
  BY <1>2, <1>4, <1>5
<1>7. 1 .. i - 1 = {}
  BY <1>2
<1> QED
  BY <1>4, <1>6, <1>7 DEF FitInv, Init

LEMMA BackTrackFits ==
    ASSUME TypeInv, FitInv, BackTrack
    PROVE  FitInv'
<1>1. queen_count \in Nat /\ i \in Nat /\ i \in Column /\ search = "bt"
      /\ 1 <= i /\ i <= queen_count
  BY CountIsPositive, BackTrackSteps DEF Column
<1>2. queen_count' = queen_count /\ search' = search /\ outcome' = "searching" /\ (Column' = Column)
  BY BackTrackSteps, ColumnsStay
<1>3. /\ path \in Seq(Column) /\ Len(path) = i - 1 /\ BoardOK(board')
  BY BackTrackSteps
<1>4. \A k \in Column : Placed[k] = path[k] /\ Placed'[k] = path'[k]
  BY <1>1, <1>2, PlacedBy, PlacedByNext
<1>5. \A k \in Column : board[k].idx = k /\ board'[k].idx = k
  BY <1>1, <1>3 DEF TypeInv, BoardOK
<1>6. CASE Fitting = {}
  <2>1. i' = i - 1 /\ \A k \in 1 .. i - 2 : path'[k] = path[k]
    BY <1>6, BackTrackSteps
  <2>2. \A k \in 1 .. i' - 1 : k \in Column /\ k \in 1 .. i - 1 /\ k \in 1 .. i - 2
    BY <1>1, <2>1 DEF Column
  <2>3. \A k \in 1 .. i' - 1 : Placed'[k] = Placed[k] /\ board'[k].idx = board[k].idx
    BY <1>4, <1>5, <2>1, <2>2
  <2> QED BY <1>1, <1>2, <2>2, <2>3, FitAgain DEF FitInv
<1>7. CASE Fitting # {}
  <2> DEFINE value == Domain(i)[Max(Fitting)]
  <2>1. /\ i' = i + 1 /\ value \in Column /\ path' = Append(path, value)
        /\ Max(Fitting) \in Fitting
    BY <1>7, BackTrackSteps
  <2>2. consistent(path')
    BY <2>1 DEF Fitting, PathConsistent
  <2> HIDE DEF value
  <2>3. /\ DOMAIN path' = 1 .. i
        /\ \A k \in 1 .. i : path'[k] \in Column
    BY <1>1, <1>3, <2>1
  <2>4. \A k \in 1 .. i' - 1 : k \in Column /\ k \in 1 .. i
    BY <1>1, <2>1 DEF Column
  <2>5. \A j, k \in 1 .. i' - 1 : j < k =>
           constraint(board'[j].idx, board'[k].idx, Placed'[j], Placed'[k])
    BY <1>4, <1>5, <2>2, <2>3, <2>4 DEF consistent
  <2>6. \A k \in 1 .. i' - 1 : Placed'[k] \in Column
    BY <1>4, <2>3, <2>4
  <2> QED BY <1>1, <1>2, <2>5, <2>6, FitAgain
<1> QED
  BY <1>6, <1>7

\* bt_fc.py, dvo.py: what the copy of the variable at place i leaves fits too.
LEMMA KeptFits ==
    ASSUME TypeInv, LevelInv, FitInv, search # "bt", i \in Column
    PROVE  Fits(Kept(board[i].idx)[board[i].idx], i, Placed)
<1>1. board[i].idx \in Column
  BY DEF TypeInv, BoardOK, IsBoard
<1>2. Fits(board, i, Placed) /\ (CopyAt(i) # NoCopy => Fits(CopyAt(i), i, Placed))
  BY CountIsPositive DEF FitInv
<1>3. Kept(board[i].idx)[board[i].idx] = IF CopyAt(i) = NoCopy THEN board ELSE CopyAt(i)
  BY <1>1, KeptCopies DEF CopyAt
<1> QED
  BY <1>2, <1>3

LEMMA ForwardCheckFits ==
    ASSUME TypeInv, LevelInv, FitInv, ForwardCheck
    PROVE  FitInv'
<1>1. queen_count \in Nat /\ i \in Nat /\ i \in Column /\ search = "fc"
      /\ 1 <= i /\ i <= queen_count
  BY CountIsPositive, ForwardCheckSteps DEF Column
<1>2. queen_count' = queen_count /\ search' = search /\ (Column' = Column) /\ (NoCopy' = NoCopy)
  BY ForwardCheckSteps, ColumnsStay
<1>3. TypeInv' /\ LevelInv'
  BY ForwardCheckTypes, ForwardCheckLevels
<1>4. path \in Seq(Column) /\ Len(path) = i - 1
  BY ForwardCheckSteps
<1>5. \A k \in Column : Placed[k] = path[k] /\ Placed'[k] = path'[k]
  BY <1>1, <1>2, PlacedBy, PlacedByNext
<1>6. \A k \in Column : board[k].idx = k /\ board'[k].idx = k
  BY <1>1, <1>2, <1>3 DEF TypeInv, BoardOK
<1>7. \A k \in Column : CopyAt(k) = book_keeping[k] /\ CopyAt(k)' = book_keeping'[k]
  BY <1>6 DEF CopyAt
<1>8. CASE outcome' = "TypeError" /\ UNCHANGED <<i, path, board, book_keeping>>
  <2>1. Placed' = Placed /\ \A k \in Column : CopyAt(k)' = CopyAt(k)
    BY <1>2, <1>8 DEF Placed, Value, CopyAt
  <2> QED BY <1>1, <1>2, <1>8, <2>1, FitAgain DEF FitInv
<1>9. CASE Leaving = {} /\ Kept(i)[Before(i)] # NoCopy
  <2> DEFINE copy == Kept(i)[Before(i)]
  <2>1. /\ i' = i - 1 /\ outcome' = "searching"
        /\ \A k \in 1 .. i - 2 : path'[k] = path[k]
        /\ \A p \in Column : board'[p] = IF p < i THEN board[p] ELSE copy[p]
        /\ \A c \in Column : c # i => book_keeping'[c] = book_keeping[c]
    BY <1>9, ForwardCheckSteps
  <2>2. i # 1
    BY <1>1, <1>2, <1>3, <2>1 DEF LevelInv
  <2>3. i - 1 \in Column /\ Before(i) = i - 1 /\ i - 1 # i
    BY <1>1, <2>2 DEF Before, Column
  <2>4. copy = CopyAt(i - 1)
    BY <1>1, <1>7, <2>3, KeptCopies
  <2> HIDE DEF copy
  <2>5. \A k \in 1 .. i' - 1 : k \in Column /\ k \in 1 .. i - 1 /\ k \in 1 .. i - 2
    BY <1>1, <2>1 DEF Column
  <2>6. \A k \in Column : k < i - 1 => k \in 1 .. i - 2
    BY <1>1 DEF Column
  <2>7. \A k \in Column : k < i - 1 => Placed'[k] = Placed[k]
    BY <1>5, <2>1, <2>6
  <2>8. \A k \in 1 .. i' - 1 : Placed'[k] = Placed[k] /\ board'[k].idx = board[k].idx
    BY <1>5, <1>6, <2>1, <2>5
  <2>9. Fits(board', i', Placed')
    <3>1. Fits(board, i - 1, Placed)
      BY <1>1 DEF FitInv, Fits, Column
    <3>2. Fits(copy, i - 1, Placed)
      BY <1>1, <1>9, <2>3, <2>4 DEF FitInv, copy
    <3>3. Fits(board, i - 1, Placed') /\ Fits(copy, i - 1, Placed')
      BY <2>7, <3>1, <3>2, FitsSame
    <3>4. \A k \in Column : board[k].idx = k /\ copy[k].idx = k
      BY <1>1, <1>6, <1>9, ForwardCheckSteps DEF BoardOK, copy
    <3> QED BY <1>6, <2>1, <3>3, <3>4 DEF Fits
  <2>10. \A k \in Column : k <= i' /\ (CopyAt(k)') # NoCopy => Fits(CopyAt(k)', k, Placed')
    <3> SUFFICES ASSUME NEW k \in Column, k <= i', (CopyAt(k)') # NoCopy
                 PROVE  Fits(CopyAt(k)', k, Placed')
      OBVIOUS
    <3>1. k # i /\ k <= i /\ \A j \in Column : j < k => j < i - 1
      BY <1>1, <2>1 DEF Column
    <3>2. (CopyAt(k)') = CopyAt(k)
      BY <1>7, <2>1, <3>1
    <3>3. Fits(CopyAt(k), k, Placed)
      BY <1>1, <3>1, <3>2 DEF FitInv
    <3> QED BY <2>7, <3>1, <3>2, <3>3, FitsSame
  <2> QED BY <1>1, <1>2, <2>1, <2>5, <2>8, <2>9, <2>10, FitAgain DEF FitInv
<1>10. CASE Leaving # {}
  <2> DEFINE value == Domain(i)[Max(Leaving)]
             left  == SubSeq(Domain(i), 1, Max(Leaving) - 1)
  <2>1. /\ i' = i + 1 /\ outcome' = "searching" /\ value \in Column
        /\ path' = Append(path, value) /\ book_keeping' = Kept(i)
        /\ \A p \in 1 .. i - 1 : board'[p].position = Domain(p)
        /\ board'[i].position = left
        /\ \A p \in i + 1 .. queen_count :
              ToSet(board'[p].position) =
                 {v \in ToSet(Domain(p)) : constraint(i, p, value, v)}
    BY <1>10, ForwardCheckSteps
  <2>2. value \in ToSet(Domain(i)) /\ ToSet(left) \subseteq ToSet(Domain(i))
    <3>1. Leaving \in SUBSET DOMAIN Domain(i)
      BY DEF Leaving
    <3>2. Max(Leaving) \in Leaving /\ ToSet(left) \subseteq ToSet(Domain(i))
      BY <1>1, <1>10, <3>1, TakenValue
    <3> QED BY <3>1, <3>2 DEF ToSet
  <2> HIDE DEF value, left
  <2>3. \A k \in Column : /\ k < i => Placed'[k] = Placed[k]
                          /\ k = i => Placed'[k] = value
    BY <1>1, <1>4, <1>5, <2>1 DEF Column
  <2>4. \A k \in 1 .. i' - 1 : k \in Column /\ (k = i \/ (k < i /\ k \in 1 .. i - 1))
    BY <1>1, <2>1 DEF Column
  <2>5. \A p \in Column : p < i \/ p = i \/ (p > i /\ p \in i + 1 .. queen_count)
    BY <1>1 DEF Column
  <2>6. \A p \in Column : /\ ToSet(board'[p].position) \subseteq ToSet(Domain(p))
                          /\ p > i => \A v \in ToSet(board'[p].position) : constraint(i, p, value, v)
    <3>1. \A p \in Column : p < i => p \in 1 .. i - 1
      BY <1>1 DEF Column
    <3>2. ~(i > i)
      BY <1>1
    <3>3. \A p \in Column : p < i => ~(p > i)
      BY <1>1 DEF Column
    <3> QED BY <2>1, <2>2, <2>5, <3>1, <3>2, <3>3
  <2>7. \A p \in Column, j \in Column : j < i /\ j < p =>
           \A v \in ToSet(Domain(p)) : constraint(j, p, Placed[j], v)
    <3>1. Fits(board, i, Placed)
      BY <1>1 DEF FitInv
    <3> QED BY <1>6, <3>1 DEF Fits, Domain
  <2>8. Fits(board', i', Placed')
    <3> SUFFICES ASSUME NEW j \in Column, NEW p \in Column, j < i', j < p,
                        NEW v \in ToSet(board'[p].position)
                 PROVE  constraint(j, p, Placed'[j], v)
      BY <1>6 DEF Fits
    <3>1. j < i \/ (j = i /\ p > i)
      BY <1>1, <2>1 DEF Column
    <3> QED BY <2>3, <2>6, <2>7, <3>1
  <2>9. \A k \in 1 .. i' - 1 : Placed'[k] \in Column
    BY <2>1, <2>3, <2>4 DEF FitInv
  <2>10. \A j, k \in 1 .. i' - 1 : j < k =>
            constraint(board'[j].idx, board'[k].idx, Placed'[j], Placed'[k])
    <3> SUFFICES ASSUME NEW j \in 1 .. i' - 1, NEW k \in 1 .. i' - 1, j < k
                 PROVE  constraint(j, k, Placed'[j], Placed'[k])
      BY <1>6, <2>4
    <3>1. j \in Column /\ k \in Column /\ j < i /\ j \in 1 .. i - 1
      BY <1>1, <2>1 DEF Column
    <3>2. CASE k = i
      BY <2>2, <2>3, <2>7, <3>1, <3>2
    <3>3. CASE k < i
      <4>1. k \in 1 .. i - 1
        BY <3>3, <1>1
      <4>2. constraint(j, k, Placed[j], Placed[k])
        BY <1>6, <3>1, <4>1 DEF FitInv
      <4> QED BY <2>3, <3>1, <3>3, <4>2
    <3> QED BY <2>4, <3>2, <3>3
  <2>11. \A c \in Column : c # i => book_keeping'[c] = book_keeping[c]
    <3>1. book_keeping' = Kept(i)
      BY <2>1
    <3> QED BY <1>1, <3>1, KeptCopies
  <2>12. \A k \in Column : k <= i' /\ (CopyAt(k)') # NoCopy => Fits(CopyAt(k)', k, Placed')
    <3> SUFFICES ASSUME NEW k \in Column, k <= i', (CopyAt(k)') # NoCopy
                 PROVE  Fits(CopyAt(k)', k, Placed')
      OBVIOUS
    <3>1. k # i + 1
      <4>1. i + 1 > i /\ i + 1 # i
        BY <1>1
      <4>2. i + 1 \in Column => book_keeping[i + 1] = NoCopy
        BY <1>1, <1>7, <4>1 DEF LevelInv
      <4>3. i + 1 \in Column => book_keeping'[i + 1] = NoCopy
        BY <2>11, <4>1, <4>2
      <4>4. book_keeping'[k] # NoCopy
        BY <1>7
      <4> QED BY <4>3, <4>4
    <3>2. k = i \/ (k < i /\ k # i /\ k <= i)
      BY <1>1, <2>1, <3>1 DEF Column
    <3>3. Fits(CopyAt(k)', k, Placed)
      <4>1. CASE k = i
        <5>1. (CopyAt(k)') = Kept(i)[i]
          BY <1>1, <1>7, <2>1, <4>1
        <5>2. board[i].idx = i
          BY <1>1, <1>6
        <5>3. Fits(Kept(i)[i], i, Placed)
          BY <1>1, <5>2, KeptFits
        <5> QED BY <4>1, <5>1, <5>3
      <4>2. CASE k < i
        <5>1. k # i /\ k <= i
          BY <1>1, <4>2 DEF Column
        <5>2. book_keeping'[k] = book_keeping[k]
          BY <2>11, <5>1
        <5>3. (CopyAt(k)') = CopyAt(k)
          BY <1>7, <5>2
        <5> QED BY <1>1, <5>1, <5>3 DEF FitInv
      <4> QED BY <3>2, <4>1, <4>2
    <3>4. \A j \in Column : j < k => Placed[j] = Placed'[j]
      BY <1>1, <2>3, <3>2 DEF Column
    <3> QED BY <3>3, <3>4, FitsSame
  <2> QED BY <1>1, <1>2, <2>1, <2>8, <2>9, <2>10, <2>12, FitAgain
<1> QED
  BY <1>8, <1>9, <1>10, ForwardCheckSteps

LEMMA DynamicOrderFits ==
    ASSUME TypeInv, LevelInv, FitInv, DynamicOrder
    PROVE  FitInv'
<1> DEFINE c == board[i].idx
<1>1. queen_count \in Nat /\ i \in Nat /\ i \in Column /\ search = "dvo"
      /\ 1 <= i /\ i <= queen_count
  BY CountIsPositive, DynamicOrderSteps DEF Column
<1>2. queen_count' = queen_count /\ search' = search /\ (Column' = Column) /\ (NoCopy' = NoCopy)
  BY DynamicOrderSteps, ColumnsStay
<1>3. LevelInv'
  BY DynamicOrderLevels
<1>4. /\ BoardOK(board) /\ c \in Column
      /\ \A k \in Column : board[k].idx \in Column /\ (k # i => board[k].idx # c)
  BY <1>1 DEF TypeInv, BoardOK, IsBoard, EachOnce
<1>5. \A k \in Column : Placed[k] = path[board[k].idx] /\ Placed'[k] = path'[board'[k].idx]
  BY <1>1, <1>2, PlacedBy, PlacedByNext
<1>6. \A k \in Column : CopyAt(k) = book_keeping[board[k].idx] /\ CopyAt(k)' = book_keeping'[board'[k].idx]
  BY DEF CopyAt
<1>7. \A k \in 1 .. i - 1 : k \in Column /\ k # i /\ k < i
  BY <1>1 DEF Column
<1>8. CASE outcome' = "TypeError" /\ UNCHANGED <<i, path, board, book_keeping>>
  <2>1. Placed' = Placed /\ \A k \in Column : CopyAt(k)' = CopyAt(k)
    BY <1>2, <1>8 DEF Placed, Value, CopyAt
  <2> QED BY <1>1, <1>2, <1>8, <2>1, FitAgain DEF FitInv
<1>9. CASE ~SomeValue /\ Kept(c)[board[Before(i)].idx] # NoCopy
  <2>1. /\ i' = i - 1 /\ outcome' = "searching" /\ BoardOK(board')
        /\ board' = Kept(c)[board[Before(i)].idx] /\ book_keeping'[c] = NoCopy
        /\ \A d \in Column : d # c => book_keeping'[d] = book_keeping[d]
        /\ \A d \in Column : d # board'[i].idx => path'[d] = path[d]
    BY <1>9, DynamicOrderSteps
  <2>2. i # 1
    BY <1>1, <1>2, <1>3, <2>1 DEF LevelInv
  <2>3. i - 1 \in Column /\ Before(i) = i - 1 /\ i - 1 # i
    BY <1>1, <2>2 DEF Before, Column
  <2>4. board' = CopyAt(i - 1)
    <3>1. board[i - 1].idx \in Column /\ board[i - 1].idx # c
      BY <1>4, <2>3
    <3> HIDE DEF c
    <3> QED BY <1>4, <2>1, <2>3, <3>1, KeptCopies DEF CopyAt
  <2>5. CopyAt(i - 1) # NoCopy
    BY <2>1, <2>4, BoardIsACopy DEF BoardOK
  <2>6. \A p \in 1 .. i - 1 : board'[p].idx = board[p].idx
    BY <1>1, <2>3, <2>4, <2>5 DEF LevelInv
  <2>7. \A k \in Column : k < i => k \in 1 .. i - 1 /\ k # i
    BY <1>1 DEF Column
  <2>8. \A k \in Column : k < i => Placed'[k] = Placed[k]
    <3> SUFFICES ASSUME NEW k \in Column, k < i PROVE Placed'[k] = Placed[k]
      OBVIOUS
    <3>1. board'[k].idx = board[k].idx /\ k # i
      BY <2>6, <2>7
    <3>2. board'[k].idx # board'[i].idx
      BY <1>1, <2>1, <3>1 DEF BoardOK, EachOnce
    <3>3. path'[board[k].idx] = path[board[k].idx]
      BY <1>4, <2>1, <3>1, <3>2
    <3> QED BY <1>5, <3>1, <3>3
  <2>9. \A k \in 1 .. i' - 1 : k \in Column /\ k < i /\ k \in 1 .. i - 1
    BY <1>1, <2>1 DEF Column
  <2>10. \A k \in 1 .. i' - 1 : Placed'[k] = Placed[k] /\ board'[k].idx = board[k].idx
    BY <2>6, <2>8, <2>9
  <2>11. Fits(board', i', Placed')
    <3>1. Fits(CopyAt(i - 1), i - 1, Placed)
      BY <1>1, <2>3, <2>5 DEF FitInv
    <3>2. \A j \in Column : j < i - 1 => Placed[j] = Placed'[j]
      BY <1>1, <2>8 DEF Column
    <3>3. Fits(CopyAt(i - 1), i - 1, Placed')
      BY <3>1, <3>2, FitsSame
    <3> QED BY <2>1, <2>4, <3>3
  <2>12. \A k \in Column : k <= i' /\ (CopyAt(k)') # NoCopy => Fits(CopyAt(k)', k, Placed')
    <3> SUFFICES ASSUME NEW k \in Column, k <= i', (CopyAt(k)') # NoCopy
                 PROVE  Fits(CopyAt(k)', k, Placed')
      OBVIOUS
    <3>1. k < i /\ k <= i /\ k \in 1 .. i - 1 /\ k # i /\ \A j \in Column : j < k => j < i
      BY <1>1, <2>1 DEF Column
    <3>2. (CopyAt(k)') = CopyAt(k)
      BY <1>4, <1>6, <2>1, <2>6, <3>1
    <3>3. Fits(CopyAt(k), k, Placed)
      BY <1>1, <3>1, <3>2 DEF FitInv
    <3> QED BY <2>8, <3>1, <3>2, <3>3, FitsSame
  <2> QED BY <1>1, <1>2, <2>1, <2>9, <2>10, <2>11, <2>12, FitAgain DEF FitInv
<1>10. CASE SomeValue
  <2> DEFINE value == LeastConstraining(Domain(i))
             own   == Kept(c)[c]
             new   == book_keeping'[c]
  <2>1. /\ i' = i + 1 /\ outcome' = "searching"
        /\ value \in ToSet(Domain(i)) /\ value \in Column
        /\ path'[c] = value /\ \A d \in Column : d # c => path'[d] = path[d]
        /\ \A p \in 1 .. i - 1 : board'[p] = board[p]
        /\ board'[i].idx = c
        /\ ToSet(board'[i].position) \subseteq ToSet(Domain(i))
        /\ \A d \in Column : d # c => book_keeping'[d] = book_keeping[d]
    BY <1>10, DynamicOrderSteps
  <2>2. \A p \in i + 1 .. queen_count : \E q \in i + 1 .. queen_count :
           /\ board'[p].idx = board[q].idx
           /\ ToSet(board'[p].position) =
                {v \in ToSet(Domain(q)) : constraint(c, board[q].idx, value, v)}
    BY <1>10, DynamicOrderSteps
  <2>3. /\ \A p \in Column : /\ new[p].idx = own[p].idx
                             /\ p # i => new[p] = own[p]
        /\ ToSet(new[i].position) \subseteq ToSet(Domain(i))
    BY <1>10, DynamicOrderSteps
  <2> HIDE DEF value, own, new
  <2>4. \A k \in Column : /\ k < i => Placed'[k] = Placed[k] /\ board'[k] = board[k]
                          /\ k = i => Placed'[k] = value /\ board'[k].idx = c
    <3>1. \A k \in Column : k < i => k \in 1 .. i - 1 /\ k # i
      BY <1>1 DEF Column
    <3> QED BY <1>4, <1>5, <2>1, <3>1
  <2>5. \A p \in Column, j \in Column : j < i /\ j < p =>
           \A v \in ToSet(Domain(p)) : constraint(board[j].idx, board[p].idx, Placed[j], v)
    BY <1>1 DEF FitInv, Fits, Domain
  <2>6. Fits(board', i', Placed')
    <3> SUFFICES ASSUME NEW j \in Column, NEW p \in Column, j < i', j < p,
                        NEW v \in ToSet(board'[p].position)
                 PROVE  constraint(board'[j].idx, board'[p].idx, Placed'[j], v)
      BY DEF Fits
    <3>1. (j < i \/ j = i) /\ (p < i => j < i) /\ (p = i => j < i)
      BY <1>1, <2>1 DEF Column
    <3>2. CASE p < i
      BY <2>4, <2>5, <3>1, <3>2 DEF Domain
    <3>3. CASE p = i
      BY <1>1, <2>1, <2>4, <2>5, <3>1, <3>3
    <3>4. CASE p > i
      <4>1. p \in i + 1 .. queen_count
        BY <1>1, <3>4 DEF Column
      <4>2. PICK q \in i + 1 .. queen_count :
               /\ board'[p].idx = board[q].idx
               /\ ToSet(board'[p].position) =
                    {w \in ToSet(Domain(q)) : constraint(c, board[q].idx, value, w)}
        BY <2>2, <4>1
      <4>3. q \in Column /\ (j < i => j < q)
        BY <1>1 DEF Column
      <4>4. v \in ToSet(Domain(q)) /\ constraint(c, board[q].idx, value, v)
        BY <4>2
      <4>5. CASE j < i
        BY <2>4, <2>5, <4>2, <4>3, <4>4, <4>5
      <4>6. CASE j = i
        BY <2>4, <4>2, <4>4, <4>6
      <4> QED BY <3>1, <4>5, <4>6
    <3>5. p < i \/ p = i \/ p > i
      BY <1>1 DEF Column
    <3> QED BY <3>2, <3>3, <3>4, <3>5
  <2>7. \A k \in 1 .. i' - 1 : k \in Column /\ (k = i \/ (k < i /\ k \in 1 .. i - 1))
    BY <1>1, <2>1 DEF Column
  <2>8. \A k \in 1 .. i' - 1 : Placed'[k] \in Column
    BY <2>1, <2>4, <2>7 DEF FitInv
  <2>9. \A j, k \in 1 .. i' - 1 : j < k =>
           constraint(board'[j].idx, board'[k].idx, Placed'[j], Placed'[k])
    <3> SUFFICES ASSUME NEW j \in 1 .. i' - 1, NEW k \in 1 .. i' - 1, j < k
                 PROVE  constraint(board'[j].idx, board'[k].idx, Placed'[j], Placed'[k])
      OBVIOUS
    <3>1. j \in Column /\ k \in Column /\ j < i /\ j \in 1 .. i - 1
      BY <1>1, <2>1 DEF Column
    <3>2. CASE k = i
      BY <2>1, <2>4, <2>5, <3>1, <3>2
    <3>3. CASE k < i
      <4>1. k \in 1 .. i - 1
        BY <3>3, <1>1
      <4>2. constraint(board[j].idx, board[k].idx, Placed[j], Placed[k])
        BY <3>1, <4>1 DEF FitInv
      <4> QED BY <2>4, <3>1, <3>3, <4>2
    <3> QED BY <2>7, <3>2, <3>3
  <2>10. \A k \in Column : k <= i' /\ (CopyAt(k)') # NoCopy => Fits(CopyAt(k)', k, Placed')
    <3> SUFFICES ASSUME NEW k \in Column, k <= i', (CopyAt(k)') # NoCopy
                 PROVE  Fits(CopyAt(k)', k, Placed')
      OBVIOUS
    <3>1. k # i + 1
      <4> SUFFICES ASSUME k = i + 1 PROVE FALSE
        OBVIOUS
      <4>1. k \in i + 1 .. queen_count
        BY <1>1 DEF Column
      <4>2. PICK q \in i + 1 .. queen_count : board'[k].idx = board[q].idx
        BY <2>2, <4>1
      <4>3. q \in Column /\ q > i /\ q # i
        BY <1>1 DEF Column
      <4>4. book_keeping[board[q].idx] = NoCopy
        BY <1>1, <1>6, <4>3 DEF LevelInv
      <4>5. board[q].idx \in Column /\ board[q].idx # c
        BY <1>4, <4>3
      <4>6. book_keeping'[board[q].idx] = NoCopy
        BY <2>1, <4>4, <4>5
      <4>7. book_keeping'[board'[k].idx] # NoCopy
        BY <1>6
      <4> QED BY <4>2, <4>6, <4>7
    <3>2. k = i \/ (k < i /\ k # i /\ k <= i)
      BY <1>1, <2>1, <3>1 DEF Column
    <3>3. \A j \in Column : j < k => /\ Placed[j] = Placed'[j]
                                     /\ j < i
      BY <1>1, <2>4, <3>2 DEF Column
    <3>4. CASE k = i
      <4>1. (CopyAt(k)') = new
        BY <1>6, <2>4, <3>4 DEF new
      <4>2. Fits(own, i, Placed)
        BY <1>1, KeptFits DEF own
      <4>3. \A p \in 1 .. i : own[p].idx = board[p].idx
        BY <1>1, KeptOfVariable DEF own
      <4>4. Fits(new, i, Placed)
        <5> SUFFICES ASSUME NEW j \in Column, NEW p \in Column, j < i, j < p,
                            NEW v \in ToSet(new[p].position)
                     PROVE  constraint(new[j].idx, new[p].idx, Placed[j], v)
          BY DEF Fits
        <5>1. j \in 1 .. i /\ i \in 1 .. i /\ j # i
          BY <1>1 DEF Column
        <5>2. CASE p = i
          BY <2>3, <2>5, <4>3, <5>1, <5>2
        <5>3. CASE p # i
          BY <2>3, <4>2, <5>1, <5>3 DEF Fits
        <5> QED BY <5>2, <5>3
      <4> QED BY <3>3, <3>4, <4>1, <4>4, FitsSame
    <3>5. CASE k < i /\ k <= i /\ k # i
      <4>1. (CopyAt(k)') = CopyAt(k)
        BY <1>4, <1>6, <2>1, <2>4, <3>5
      <4>2. Fits(CopyAt(k), k, Placed)
        BY <1>1, <3>5, <4>1 DEF FitInv
      <4> QED BY <3>3, <4>1, <4>2, FitsSame
    <3> QED BY <3>2, <3>4, <3>5
  <2> QED BY <1>1, <1>2, <2>1, <2>6, <2>8, <2>9, <2>10, FitAgain
<1> QED
  BY <1>8, <1>9, <1>10, DynamicOrderSteps

LEMMA OutcomeFits ==
    ASSUME FitInv, UNCHANGED <<search, queen_count, i, path, board, book_keeping>>,
           outcome' = "path" => i = queen_count + 1
    PROVE  FitInv'
<1>1. Placed' = Placed /\ \A k \in Column : CopyAt(k)' = CopyAt(k)
  BY DEF Placed, Value, CopyAt, Column
<1>2. /\ \A k \in 1 .. i' - 1 : Placed'[k] \in Column
      /\ \A j, k \in 1 .. i' - 1 : j < k =>
            constraint(board'[j].idx, board'[k].idx, Placed'[j], Placed'[k])
  BY <1>1 DEF FitInv
<1>3. search # "bt" => /\ Fits(board', i', Placed')
                       /\ \A k \in Column : k <= i' /\ (CopyAt(k)') # NoCopy =>
                             Fits(CopyAt(k)', k, Placed')
  BY <1>1 DEF FitInv
<1> QED
  BY <1>1, <1>2, <1>3, FitAgain

LEMMA FitStep ==
    ASSUME TypeInv, LevelInv, FitInv, [Next]_vars
    PROVE  FitInv'
<1>1. CASE Return
  <2>1. /\ i \notin Column /\ outcome' = (IF search = "bt" /\ i = 0 THEN "inconsistent" ELSE "path")
        /\ UNCHANGED <<search, queen_count, least, i, path, board, book_keeping>>
    BY <1>1, ReturnSteps
  <2>2. outcome' = "path" => i = queen_count + 1
    BY <2>1, CountIsPositive DEF TypeInv, LevelInv, Column
  <2> QED BY <2>1, <2>2, OutcomeFits
<1>2. CASE Ended \/ UNCHANGED vars
  <2>1. UNCHANGED <<search, queen_count, i, path, board, book_keeping, outcome>>
    BY <1>2 DEF Ended, vars
  <2>2. outcome' = "path" => i = queen_count + 1
    BY <2>1 DEF FitInv
  <2> QED BY <2>1, <2>2, OutcomeFits
<1> QED
  BY <1>1, <1>2, BackTrackFits, ForwardCheckFits, DynamicOrderFits DEF Next

\* PlacedInv is an invariant.
LEMMA PlacedInvariant == Spec => []PlacedInv
<1>1. Init => PlacedInv
  BY TypeInit, LevelInit, FitInit DEF PlacedInv
<1>2. PlacedInv /\ [Next]_vars => PlacedInv'
  BY TypeStep, LevelStep, FitStep DEF PlacedInv
<1> QED
  BY <1>1, <1>2, PTL DEF Spec

\* hw2_util.py, constraint: it does not matter which queen comes first.
LEMMA ConstraintIsSymmetric ==
    ASSUME NEW c \in Int, NEW d \in Int, NEW x \in Int, NEW y \in Int, constraint(c, d, x, y)
    PROVE  constraint(d, c, y, x)
BY DEF constraint, Abs

LEMMA SolutionsOf ==
    ASSUME queen_count \in QueenCounts
    PROVE  Solutions[queen_count] = {s \in [Column -> Column] : consistent(s)}
BY DEF Solutions, Column

\* The three searches: the queens that are placed never attack each other, and a path
\* that is returned is a solution, with all the queens on the columns they belong to.
THEOREM PathIsConsistentTheorem == Spec => []PathIsConsistent
<1>1. ASSUME PlacedInv PROVE PathIsConsistent
  <2>1. TypeInv /\ FitInv /\ queen_count \in Nat /\ i \in Nat /\ i <= queen_count + 1
    BY <1>1, CountIsPositive DEF PlacedInv, TypeInv
  <2>2. \A k \in 1 .. i - 1 : k \in Column /\ Placed[k] = Value(k)
    BY <2>1 DEF Placed, Column
  <2>3. \A j, k \in 1 .. i - 1 : j < k =>
           /\ None \notin {Value(j), Value(k)}
           /\ constraint(board[j].idx, board[k].idx, Value(j), Value(k))
    BY <2>1, <2>2 DEF FitInv, None, Column
  <2>4. ASSUME outcome = "path" PROVE path \in Solutions[queen_count]
    <3>1. i = queen_count + 1 /\ 1 .. i - 1 = Column
      BY <2>1, <2>4 DEF FitInv, Column
    <3>2. \A k \in Column : Placed[k] \in Column /\ Placed[k] = Value(k)
      BY <2>1, <2>2, <3>1 DEF FitInv
    <3>3. \A j, k \in Column : j < k =>
             constraint(board[j].idx, board[k].idx, Placed[j], Placed[k])
      BY <2>1, <3>1 DEF FitInv
    <3>4. path \in [Column -> Column] /\ consistent(path)
      <4>1. CASE search = "dvo"
        <5>1. path \in [Column -> 0 .. queen_count] /\ EachOnce(board) /\ IsBoard(board)
          BY <2>1, <4>1 DEF TypeInv, PathOK, BoardOK
        <5>2. \A k \in Column : path[board[k].idx] = Placed[k]
          BY <4>1, PlacedBy
        <5>3. \A c \in Column : path[c] \in Column
          BY <3>2, <5>1, <5>2 DEF EachOnce
        <5>4. ASSUME NEW c \in Column, NEW d \in Column, c < d
              PROVE  constraint(c, d, path[c], path[d])
          <6>1. PICK j \in Column : board[j].idx = c
            BY <5>1 DEF EachOnce
          <6>2. PICK k \in Column : board[k].idx = d
            BY <5>1 DEF EachOnce
          <6>3. path[c] = Placed[j] /\ path[d] = Placed[k]
            BY <5>2, <6>1, <6>2
          <6>4. c \in Int /\ d \in Int /\ j \in Int /\ k \in Int /\ c # d
            BY <5>4 DEF Column
          <6>5. Placed[j] \in Int /\ Placed[k] \in Int
            BY <3>2 DEF Column
          <6>6. j # k
            BY <6>1, <6>2, <6>4
          <6>7. CASE j < k
            BY <3>3, <6>1, <6>2, <6>3, <6>7
          <6>8. CASE k < j
            <7>1. constraint(d, c, Placed[k], Placed[j])
              BY <3>3, <6>1, <6>2, <6>8
            <7> QED BY <6>3, <6>4, <6>5, <7>1, ConstraintIsSymmetric
          <6> QED BY <6>4, <6>6, <6>7, <6>8
        <5>5. DOMAIN path = Column
          BY <5>1
        <5> QED BY <5>1, <5>3, <5>4, <5>5 DEF consistent
      <4>2. CASE search # "dvo"
        <5>1. path \in Seq(Column) /\ Len(path) = queen_count
          BY <2>1, <3>1, <4>2 DEF TypeInv, PathOK
        <5>2. path \in [Column -> Column] /\ DOMAIN path = Column
          BY <5>1 DEF Column
        <5>3. \A k \in Column : path[k] = Placed[k] /\ board[k].idx = k
          BY <2>1, <4>2, PlacedBy DEF TypeInv, BoardOK
        <5> QED BY <3>3, <5>2, <5>3 DEF consistent
      <4> QED BY <4>1, <4>2
    <3> QED BY <2>1, <3>4, SolutionsOf DEF TypeInv
  <2> QED BY <2>3, <2>4 DEF PathIsConsistent
<1> QED
  BY <1>1, PlacedInvariant, PTL

-----------------------------------------------------------------------------
(* No solution is passed over. *)

LEMMA SolutionType ==
    ASSUME TypeInv, NEW s \in Solutions[queen_count]
    PROVE  /\ s \in [Column -> Column]
           /\ \A c, d \in Column : c < d => constraint(c, d, s[c], s[d])
<1>1. s \in [Column -> Column] /\ consistent(s)
  BY SolutionsOf DEF TypeInv
<1>2. DOMAIN s = Column
  BY <1>1
<1> QED
  BY <1>1, <1>2 DEF consistent

LEMMA SolutionsStay ==
    ASSUME queen_count' = queen_count
    PROVE  (Solutions[queen_count])' = Solutions[queen_count]
BY DEF Solutions

\* A solution that agrees with the path makes its value one that can be taken.
LEMMA SolutionFitting ==
    ASSUME TypeInv, search = "bt", i \in Column, NEW s \in Solutions[queen_count],
           Agrees(s, i), Ahead(s, i)
    PROVE  \E m \in Fitting : Domain(i)[m] = s[i]
<1>1. PICK m \in DOMAIN Domain(i) : Domain(i)[m] = s[i]
  BY DEF Ahead, ToSet
<1> DEFINE values == Append(path, s[i])
<1>2. /\ queen_count \in Nat /\ i \in Nat /\ 1 <= i /\ i <= queen_count
      /\ path \in Seq(Column) /\ Len(path) = i - 1
  BY CountIsPositive DEF Column, TypeInv, PathOK
<1>3. /\ s[i] \in Column
      /\ \A c, d \in Column : c < d => constraint(c, d, s[c], s[d])
  BY SolutionType
<1>4. DOMAIN values = 1 .. i
  BY <1>2, <1>3
<1>5. \A k \in 1 .. i : values[k] = s[k] /\ k \in Column
  BY <1>2, <1>3 DEF Agrees, Column
<1> HIDE DEF values
<1>6. consistent(values)
  BY <1>3, <1>4, <1>5 DEF consistent
<1> QED
  BY <1>1, <1>6 DEF Fitting, PathConsistent, values

LEMMA SolutionLeaving ==
    ASSUME TypeInv, search = "fc", i \in Column, NEW s \in Solutions[queen_count],
           Ahead(s, i), \A k \in Column : k > i => Ahead(s, k)
    PROVE  \E m \in Leaving : Domain(i)[m] = s[i]
<1>1. PICK m \in DOMAIN Domain(i) : Domain(i)[m] = s[i]
  BY DEF Ahead, ToSet
<1>2. \A c, d \in Column : c < d => constraint(c, d, s[c], s[d])
  BY SolutionType
<1>3. \A k \in Column : board[k].idx = k
  BY DEF TypeInv, BoardOK
<1>4. ASSUME NEW p \in i + 1 .. queen_count
      PROVE  Pruned(i, s[i])[p].position # <<>>
  <2>1. p \in Column /\ p > i /\ i < p
    BY CountIsPositive DEF Column
  <2>2. s[p] \in ToSet(Domain(p)) /\ constraint(i, p, s[i], s[p])
    BY <1>2, <2>1 DEF Ahead
  <2>3. s[p] \in ToSet(Pruned(i, s[i])[p].position)
    BY <1>3, <2>1, <2>2, PrunedDomains
  <2>4. ToSet(<<>>) = {}
    BY DEF ToSet
  <2> QED BY <2>3, <2>4
<1>5. Viable(i, s[i])
  BY <1>4 DEF Viable
<1> QED
  BY <1>1, <1>5 DEF Leaving

LEMMA SkipInit ==
    Init => SkipInv
<1> SUFFICES ASSUME Init, search # "dvo" PROVE SkipInv
  BY DEF SkipInv
<1>1. TypeInv
  BY TypeInit
<1>2. /\ queen_count \in Nat /\ queen_count >= 1 /\ i = 1 /\ outcome = "searching"
  BY <1>1, CountIsPositive DEF Init
<1>3. \A k \in Column : ~(k < i) /\ book_keeping[k] = NoCopy
  BY <1>2 DEF Init, Column
<1>4. \A k \in Column : (search = "bt" /\ k # 1) \/ Domain(k) = Values(queen_count)
  BY DEF Init, Domain
<1>5. ASSUME NEW s \in Solutions[queen_count] PROVE NotSkipped(s)
  <2>1. \A k \in Column : s[k] \in ToSet(Values(queen_count))
    BY <1>1, <1>2, SolutionType, ValuesOfColumn
  <2>2. \A k \in Column : (search = "bt" /\ k # 1) \/ Ahead(s, k)
    BY <1>4, <2>1 DEF Ahead
  <2> QED BY <1>2, <1>3, <2>2 DEF NotSkipped
<1> QED
  BY <1>2, <1>5 DEF SkipInv, GivesUpRightly

LEMMA SkipAgain ==
    ASSUME UNCHANGED <<search, queen_count>>, outcome' = "searching",
           \A s \in Solutions[queen_count] : NotSkipped(s)',
           search = "bt" /\ i' = 0 => Solutions[queen_count] = {}
    PROVE  SkipInv'
<1>1. ((Solutions[queen_count])' = Solutions[queen_count]) /\ search' = search
  BY SolutionsStay
<1>2. GivesUpRightly'
  BY DEF GivesUpRightly
<1> QED
  BY <1>1, <1>2 DEF SkipInv

\* back_track_search.py: a value that is taken back has been tried with every value
\* of the variables behind it.
LEMMA BackTrackSkips ==
    ASSUME TypeInv, SkipInv, BackTrack
    PROVE  SkipInv'
<1>1. /\ search = "bt" /\ i \in Column /\ path \in Seq(Column) /\ Len(path) = i - 1
      /\ search' = search /\ queen_count' = queen_count
      /\ outcome = "searching" /\ outcome' = "searching"
  BY BackTrackSteps
<1>2. queen_count \in Nat /\ i \in Nat /\ 1 <= i /\ i <= queen_count /\ (Column' = Column)
  BY <1>1, CountIsPositive DEF Column
<1>3. \A s \in Solutions[queen_count] :
         /\ \A k \in Column : k < i /\ Agrees(s, k) => s[k] = path[k] \/ Ahead(s, k)
         /\ Agrees(s, i) => Ahead(s, i)
  BY <1>1 DEF SkipInv, NotSkipped
<1>4. \A s \in Solutions[queen_count] :
         Agrees(s, i) => \E m \in Fitting : Domain(i)[m] = s[i]
  BY <1>1, <1>3, SolutionFitting
<1>5. CASE Fitting = {}
  <2>1. /\ i' = i - 1 /\ \A k \in 1 .. i - 2 : path'[k] = path[k]
        /\ \A p \in Column \ {i} : board'[p].position = Domain(p)
    BY <1>5, BackTrackSteps
  <2>2. ASSUME NEW s \in Solutions[queen_count], NEW k \in Column, k <= i - 1,
               \A j \in 1 .. k - 1 : s[j] = path'[j]
        PROVE  (k < i - 1 /\ s[k] = path'[k]) \/ s[k] \in ToSet(board'[k].position)
    <3>1. k \in Nat /\ 1 <= k /\ k < i /\ k # i
      BY <1>2, <2>2 DEF Column
    <3>2. \A j \in 1 .. k - 1 : j \in 1 .. i - 2
      BY <1>2, <2>2, <3>1
    <3>3. Agrees(s, k)
      BY <2>1, <2>2, <3>2 DEF Agrees
    <3>4. s[k] = path[k] \/ Ahead(s, k)
      BY <1>3, <3>1, <3>3
    <3>5. Ahead(s, k) => s[k] \in ToSet(board'[k].position)
      BY <2>1, <3>1 DEF Ahead
    <3>6. CASE k = i - 1
      <4>1. s[k] # path[k]
        <5> SUFFICES ASSUME s[k] = path[k] PROVE FALSE
          OBVIOUS
        <5>1. Agrees(s, i)
          BY <1>2, <3>3, <3>6 DEF Agrees
        <5> QED BY <1>4, <1>5, <5>1
      <4> QED BY <3>4, <3>5, <4>1
    <3>7. CASE k # i - 1
      <4>1. k \in 1 .. i - 2 /\ k < i - 1
        BY <1>2, <2>2, <3>1, <3>7
      <4> QED BY <2>1, <3>4, <3>5, <4>1
    <3> QED BY <3>6, <3>7
  <2>3. ASSUME NEW s \in Solutions[queen_count] PROVE NotSkipped(s)'
    <3>1. \A k \in Column : k < i' => k <= i - 1
      BY <1>2, <2>1 DEF Column
    <3>2. i' <= i - 1 /\ ~(i' < i - 1)
      BY <1>2, <2>1
    <3>3. \A k \in Column : k < i' /\ Agrees(s, k)' => s[k] = path'[k] \/ Ahead(s, k)'
      BY <2>2, <3>1 DEF Agrees, Ahead, Domain
    <3>4. i' \in Column /\ Agrees(s, i)' => Ahead(s, i)'
      BY <2>1, <2>2, <3>2 DEF Agrees, Ahead, Domain
    <3> QED BY <1>1, <1>2, <3>3, <3>4 DEF NotSkipped
  <2>4. i' = 0 => Solutions[queen_count] = {}
    <3> SUFFICES ASSUME i' = 0, NEW s \in Solutions[queen_count] PROVE FALSE
      OBVIOUS
    <3>1. Agrees(s, i)
      BY <1>2, <2>1 DEF Agrees
    <3> QED BY <1>4, <1>5, <3>1
  <2> QED BY <1>1, <2>3, <2>4, SkipAgain
<1>6. CASE Fitting # {}
  <2> DEFINE value == Domain(i)[Max(Fitting)]
             rest  == SubSeq(Domain(i), 1, Max(Fitting) - 1)
  <2>1. /\ i' = i + 1 /\ path' = Append(path, value) /\ value \in Column
        /\ \A p \in 1 .. i - 1 : board'[p].position = Domain(p)
        /\ board'[i].position = rest
        /\ i < queen_count => board'[i + 1].position = Values(queen_count)
    BY <1>6, BackTrackSteps
  <2>2. \A m \in Fitting : Domain(i)[m] = value \/ Domain(i)[m] \in ToSet(rest)
    <3>1. Fitting \in SUBSET DOMAIN Domain(i)
      BY DEF Fitting
    <3> QED BY <1>1, <1>6, <3>1, TakenValue
  <2> HIDE DEF value, rest
  <2>3. path'[i] = value /\ \A j \in 1 .. i - 1 : path'[j] = path[j]
    BY <1>1, <1>2, <2>1
  <2>4. ASSUME NEW s \in Solutions[queen_count], NEW k \in Column, k <= i,
               \A j \in 1 .. k - 1 : s[j] = path'[j]
        PROVE  s[k] = path'[k] \/ s[k] \in ToSet(board'[k].position)
    <3>1. \A j \in 1 .. k - 1 : j \in 1 .. i - 1
      BY <1>2, <2>4 DEF Column
    <3>2. Agrees(s, k)
      BY <2>3, <2>4, <3>1 DEF Agrees
    <3>3. CASE k = i
      BY <1>4, <2>1, <2>2, <2>3, <3>2, <3>3
    <3>4. CASE k # i
      <4>1. k < i /\ k \in 1 .. i - 1
        BY <1>2, <2>4, <3>4 DEF Column
      <4> QED BY <1>3, <2>1, <2>3, <3>2, <4>1 DEF Ahead
    <3> QED BY <3>3, <3>4
  <2>5. ASSUME NEW s \in Solutions[queen_count] PROVE NotSkipped(s)'
    <3>1. \A k \in Column : k < i' => k <= i
      BY <1>2, <2>1 DEF Column
    <3>2. i' \in Column => s[i'] \in ToSet(board'[i'].position)
      <4>1. i' \in Column => i < queen_count
        BY <1>2, <2>1 DEF Column
      <4>2. i' \in Column => s[i'] \in Column
        BY SolutionType
      <4> QED BY <1>2, <2>1, <4>1, <4>2, ValuesOfColumn
    <3> QED BY <1>1, <1>2, <2>4, <3>1, <3>2 DEF NotSkipped, Agrees, Ahead, Domain
  <2>6. i' # 0
    BY <1>2, <2>1
  <2> QED BY <1>1, <2>5, <2>6, SkipAgain
<1> QED
  BY <1>5, <1>6

\* bt_fc.py: only the first variable can be without a copy to go back to, and the copy
\* of the level above holds all that the value that is taken back had taken.
LEMMA ForwardCheckSkips ==
    ASSUME TypeInv, LevelInv, SkipInv, ForwardCheck
    PROVE  SkipInv'
<1>1. /\ search = "fc" /\ i \in Column /\ path \in Seq(Column) /\ Len(path) = i - 1
      /\ search' = search /\ queen_count' = queen_count /\ outcome = "searching"
  BY ForwardCheckSteps
<1>2. /\ queen_count \in Nat /\ i \in Nat /\ 1 <= i /\ i <= queen_count
      /\ (Column' = Column) /\ (NoCopy' = NoCopy)
  BY <1>1, CountIsPositive, ColumnsStay DEF Column
<1>3. \A k \in Column : board[k].idx = k
  BY <1>1 DEF TypeInv, BoardOK
<1>4. \A k \in Column : /\ k > i => book_keeping[k] = NoCopy
                        /\ k < i => book_keeping[k] # NoCopy
  BY <1>1, <1>3 DEF LevelInv, CopyAt
<1>5. \A s \in Solutions[queen_count] :
         /\ \A k \in Column : k < i /\ Agrees(s, k) => s[k] = path[k] \/ Ahead(s, k)
         /\ Agrees(s, i) => Ahead(s, i)
         /\ Agrees(s, i) => \A k \in Column : k > i => Ahead(s, k)
         /\ \A k \in Column : k <= i /\ book_keeping[k] # NoCopy /\ Agrees(s, k) =>
               \A p \in Column : p > k => s[p] \in ToSet(book_keeping[k][p].position)
  BY <1>1 DEF SkipInv, NotSkipped
<1>6. \A s \in Solutions[queen_count] :
         Agrees(s, i) => \E m \in Leaving : Domain(i)[m] = s[i]
  BY <1>1, <1>5, SolutionLeaving
<1>7. i # 1 => /\ i - 1 \in Column /\ Before(i) = i - 1 /\ i - 1 < i /\ i - 1 # i
               /\ Kept(i)[Before(i)] = book_keeping[i - 1]
  <2>1. i # 1 => i - 1 \in Column /\ Before(i) = i - 1 /\ i - 1 < i /\ i - 1 # i
    BY <1>2 DEF Before, Column
  <2> QED BY <1>1, <2>1, KeptCopies
<1>8. CASE outcome' = "TypeError" /\ Leaving = {} /\ Kept(i)[Before(i)] = NoCopy
  <2>1. i = 1
    BY <1>4, <1>7, <1>8
  <2>2. \A s \in Solutions[queen_count] : Agrees(s, i)
    BY <2>1 DEF Agrees
  <2>3. Solutions[queen_count] = {} /\ ((Solutions[queen_count])' = Solutions[queen_count])
    BY <1>1, <1>6, <1>8, <2>2, SolutionsStay
  <2>4. GivesUpRightly'
    BY <2>3 DEF GivesUpRightly
  <2> QED BY <1>1, <1>8, <2>4 DEF SkipInv
<1>9. CASE Leaving = {} /\ Kept(i)[Before(i)] # NoCopy
  <2> DEFINE copy == Kept(i)[Before(i)]
  <2>1. /\ i' = i - 1 /\ outcome' = "searching"
        /\ \A k \in 1 .. i - 2 : path'[k] = path[k]
        /\ \A p \in Column : board'[p] = IF p < i THEN board[p] ELSE copy[p]
        /\ \A c \in Column : c # i => book_keeping'[c] = book_keeping[c]
    BY <1>9, ForwardCheckSteps
  <2>2. i # 1
    <3>1. LevelInv'
      BY ForwardCheckLevels
    <3> QED BY <1>1, <1>2, <2>1, <3>1 DEF LevelInv
  <2>3. copy = book_keeping[i - 1] /\ i - 1 \in Column /\ i - 1 < i
    BY <1>7, <2>2
  <2> HIDE DEF copy
  <2>4. ASSUME NEW s \in Solutions[queen_count], NEW k \in Column, k <= i - 1,
               \A j \in 1 .. k - 1 : s[j] = path'[j]
        PROVE  /\ Agrees(s, k)
               /\ (k < i - 1 /\ s[k] = path'[k]) \/ s[k] \in ToSet(board'[k].position)
    <3>1. k \in Nat /\ 1 <= k /\ k < i
      BY <1>2, <2>4 DEF Column
    <3>2. \A j \in 1 .. k - 1 : j \in 1 .. i - 2
      BY <1>2, <2>4, <3>1
    <3>3. Agrees(s, k)
      BY <2>1, <2>4, <3>2 DEF Agrees
    <3>4. s[k] = path[k] \/ Ahead(s, k)
      BY <1>5, <3>1, <3>3
    <3>5. Ahead(s, k) => s[k] \in ToSet(board'[k].position)
      BY <2>1, <3>1 DEF Ahead, Domain
    <3>6. CASE k = i - 1
      <4>1. s[k] # path[k]
        <5> SUFFICES ASSUME s[k] = path[k] PROVE FALSE
          OBVIOUS
        <5>1. Agrees(s, i)
          BY <1>2, <3>3, <3>6 DEF Agrees
        <5> QED BY <1>6, <1>9, <5>1
      <4> QED BY <3>3, <3>4, <3>5, <4>1
    <3>7. CASE k # i - 1
      <4>1. k \in 1 .. i - 2 /\ k < i - 1
        BY <1>2, <2>4, <3>1, <3>7
      <4> QED BY <2>1, <3>3, <3>4, <3>5, <4>1
    <3> QED BY <3>6, <3>7
  <2>5. ASSUME NEW s \in Solutions[queen_count] PROVE NotSkipped(s)'
    <3>1. i' <= i - 1 /\ ~(i' < i - 1) /\ i' = i - 1
      BY <1>2, <2>1
    <3>2. \A k \in Column : k < i' => k <= i - 1
      BY <1>2, <3>1 DEF Column
    <3>3. \A k \in Column : k < i' /\ Agrees(s, k)' => s[k] = path'[k] \/ Ahead(s, k)'
      BY <2>4, <3>2 DEF Agrees, Ahead, Domain
    <3>4. i' \in Column /\ Agrees(s, i)' => Ahead(s, i)'
      BY <2>4, <3>1 DEF Agrees, Ahead, Domain
    <3>5. \A k \in Column : k > i' /\ Agrees(s, i)' => Ahead(s, k)'
      <4> SUFFICES ASSUME NEW k \in Column, k > i', Agrees(s, i)'
                   PROVE  s[k] \in ToSet(board'[k].position)
        BY DEF Ahead, Domain
      <4>1. k > i - 1 /\ ~(k < i) /\ i - 1 <= i - 1 /\ i - 1 <= i
        BY <1>2, <3>1 DEF Column
      <4>2. Agrees(s, i - 1)
        BY <2>3, <2>4, <3>1, <4>1 DEF Agrees
      <4>3. s[k] \in ToSet(book_keeping[i - 1][k].position)
        BY <1>4, <1>5, <2>3, <4>1, <4>2
      <4> QED BY <2>1, <2>3, <4>1, <4>3
    <3>6. ASSUME NEW k \in Column, k <= i', book_keeping'[k] # NoCopy, Agrees(s, k)',
                 NEW p \in Column, p > k
          PROVE  s[p] \in ToSet(book_keeping'[k][p].position)
      <4>1. k <= i - 1 /\ k # i /\ k <= i
        BY <1>2, <3>1, <3>6 DEF Column
      <4>2. Agrees(s, k)
        BY <2>4, <3>6, <4>1 DEF Agrees
      <4> QED BY <1>5, <2>1, <3>6, <4>1, <4>2
    <3> QED BY <1>2, <3>3, <3>4, <3>5, <3>6 DEF NotSkipped
  <2> QED BY <1>1, <2>1, <2>5, SkipAgain
<1>10. CASE Leaving # {}
  <2> DEFINE value == Domain(i)[Max(Leaving)]
             rest  == SubSeq(Domain(i), 1, Max(Leaving) - 1)
  <2>1. /\ i' = i + 1 /\ outcome' = "searching" /\ value \in Column
        /\ path' = Append(path, value) /\ book_keeping' = Kept(i)
        /\ \A p \in 1 .. i - 1 : board'[p].position = Domain(p)
        /\ board'[i].position = rest
        /\ \A p \in i + 1 .. queen_count :
              ToSet(board'[p].position) = {v \in ToSet(Domain(p)) : constraint(i, p, value, v)}
    BY <1>10, ForwardCheckSteps
  <2>2. \A m \in Leaving : Domain(i)[m] = value \/ Domain(i)[m] \in ToSet(rest)
    <3>1. Leaving \in SUBSET DOMAIN Domain(i)
      BY DEF Leaving
    <3> QED BY <1>1, <1>10, <3>1, TakenValue
  <2> HIDE DEF value, rest
  <2>3. path'[i] = value /\ \A j \in 1 .. i - 1 : path'[j] = path[j]
    BY <1>1, <1>2, <2>1
  <2>4. /\ book_keeping'[i] = IF book_keeping[i] = NoCopy THEN board ELSE book_keeping[i]
        /\ \A c \in Column : c # i => book_keeping'[c] = book_keeping[c]
    <3>1. book_keeping' = Kept(i)
      BY <2>1
    <3> QED BY <1>1, <3>1, KeptCopies
  <2>5. ASSUME NEW s \in Solutions[queen_count], NEW k \in Column, k <= i,
               \A j \in 1 .. k - 1 : s[j] = path'[j]
        PROVE  Agrees(s, k) /\ (s[k] = path'[k] \/ s[k] \in ToSet(board'[k].position))
    <3>1. \A j \in 1 .. k - 1 : j \in 1 .. i - 1
      BY <1>2, <2>5 DEF Column
    <3>2. Agrees(s, k)
      BY <2>3, <2>5, <3>1 DEF Agrees
    <3>3. CASE k = i
      BY <1>6, <2>1, <2>2, <2>3, <3>2, <3>3
    <3>4. CASE k # i
      <4>1. k < i /\ k \in 1 .. i - 1
        BY <1>2, <2>5, <3>4 DEF Column
      <4> QED BY <1>5, <2>1, <2>3, <3>2, <4>1 DEF Ahead
    <3> QED BY <3>2, <3>3, <3>4
  <2>6. ASSUME NEW s \in Solutions[queen_count] PROVE NotSkipped(s)'
    <3>1. \A k \in Column : /\ k < i' => k <= i
                            /\ k >= i' => k > i /\ i < k /\ k \in i + 1 .. queen_count
                            /\ k <= i' => k <= i \/ k = i + 1
                            /\ k > i' => k >= i'
      BY <1>2, <2>1 DEF Column
    <3>2. \A k \in Column : k < i' /\ Agrees(s, k)' => s[k] = path'[k] \/ Ahead(s, k)'
      BY <2>5, <3>1 DEF Agrees, Ahead, Domain
    <3>3. ASSUME NEW k \in Column, k >= i', Agrees(s, i)'
          PROVE  Ahead(s, k)'
      <4>1. i \in 1 .. i' - 1 /\ i <= i /\ \A j \in 1 .. i - 1 : j \in 1 .. i' - 1
        BY <1>2, <2>1
      <4>2. Agrees(s, i) /\ s[i] = value
        BY <1>1, <2>3, <2>5, <3>3, <4>1 DEF Agrees
      <4>3. s[k] \in ToSet(Domain(k))
        BY <1>5, <3>1, <3>3, <4>2 DEF Ahead
      <4>4. constraint(i, k, value, s[k])
        BY <1>1, <3>1, <3>3, <4>2, SolutionType
      <4> QED BY <2>1, <3>1, <3>3, <4>3, <4>4 DEF Ahead, Domain
    <3>4. i' \in Column /\ Agrees(s, i)' => Ahead(s, i)'
      <4>1. i' >= i'
        BY <1>2, <2>1
      <4> QED BY <3>3, <4>1 DEF Ahead, Domain
    <3>5. ASSUME NEW k \in Column, k <= i', book_keeping'[k] # NoCopy, Agrees(s, k)',
                 NEW p \in Column, p > k
          PROVE  s[p] \in ToSet(book_keeping'[k][p].position)
      <4>1. k # i + 1
        <5>1. i + 1 > i /\ i + 1 # i
          BY <1>2
        <5> QED BY <1>4, <2>4, <3>5, <5>1
      <4>2. k <= i
        BY <3>1, <3>5, <4>1
      <4>3. Agrees(s, k)
        BY <2>5, <3>5, <4>2 DEF Agrees
      <4>4. CASE k = i /\ book_keeping[i] = NoCopy
        BY <1>5, <2>4, <3>5, <4>3, <4>4 DEF Ahead, Domain
      <4>5. CASE k # i \/ book_keeping[i] # NoCopy
        <5>1. book_keeping'[k] = book_keeping[k]
          BY <2>4, <4>5
        <5> QED BY <1>5, <3>5, <4>2, <4>3, <5>1
      <4> QED BY <4>4, <4>5
    <3> QED BY <1>2, <3>1, <3>2, <3>3, <3>4, <3>5 DEF NotSkipped
  <2> QED BY <1>1, <1>2, <2>1, <2>6, SkipAgain
<1> QED
  BY <1>8, <1>9, <1>10, ForwardCheckSteps

LEMMA SkipStep ==
    ASSUME TypeInv, LevelInv, SkipInv, [Next]_vars
    PROVE  SkipInv'
<1>1. CASE DynamicOrder
  <2>1. search' = "dvo"
    BY <1>1, DynamicOrderSteps
  <2> QED BY <2>1 DEF SkipInv
<1>2. CASE Return
  <2>1. /\ outcome = "searching" /\ i \notin Column
        /\ outcome' = (IF search = "bt" /\ i = 0 THEN "inconsistent" ELSE "path")
        /\ UNCHANGED <<search, queen_count, least, i, path, board, book_keeping>>
    BY <1>2, ReturnSteps
  <2>2. (Solutions[queen_count])' = Solutions[queen_count]
    BY <2>1, SolutionsStay
  <2>3. search # "dvo" /\ search = "bt" /\ i = 0 => Solutions[queen_count] = {}
    BY DEF SkipInv
  <2>4. GivesUpRightly'
    BY <2>1, <2>2, <2>3 DEF GivesUpRightly
  <2> QED BY <2>1, <2>2, <2>3, <2>4 DEF SkipInv
<1>3. CASE Ended \/ UNCHANGED vars
  <2>1. UNCHANGED <<search, queen_count, least, i, path, board, book_keeping, outcome>>
    BY <1>3 DEF Ended, vars
  <2>2. (Solutions[queen_count])' = Solutions[queen_count]
    BY <2>1, SolutionsStay
  <2>3. GivesUpRightly' <=> GivesUpRightly
    BY <2>1, <2>2 DEF GivesUpRightly
  <2>4. \A s : NotSkipped(s)' <=> NotSkipped(s)
    BY <2>1 DEF NotSkipped, Agrees, Ahead, Domain, Column, NoCopy
  <2> QED BY <2>1, <2>2, <2>3, <2>4 DEF SkipInv
<1> QED
  BY <1>1, <1>2, <1>3, BackTrackSkips, ForwardCheckSkips DEF Next

\* TypeInv /\ LevelInv /\ SkipInv is an invariant.
LEMMA SkipInvariant == Spec => [](TypeInv /\ LevelInv /\ SkipInv)
<1>1. Init => TypeInv /\ LevelInv /\ SkipInv
  BY TypeInit, LevelInit, SkipInit
<1>2. TypeInv /\ LevelInv /\ SkipInv /\ [Next]_vars => (TypeInv /\ LevelInv /\ SkipInv)'
  BY TypeStep, LevelStep, SkipStep
<1> QED
  BY <1>1, <1>2, PTL DEF Spec

\* back_track_search.py, bt_fc.py: the searches pass over no solution.  One that agrees
\* with the path up to a variable is still ahead of it, however often domains have been
\* cut down, emptied and taken back from a copy since.
THEOREM NothingSkippedTheorem == Spec => []NothingSkipped
<1>1. ASSUME TypeInv, LevelInv, SkipInv PROVE NothingSkipped
  <2> SUFFICES ASSUME search # "dvo", outcome = "searching",
                      NEW s \in Solutions[queen_count], NEW k \in Column
               PROVE  /\ k < i /\ Agrees(s, k) => s[k] = path[k] \/ Contains(Domain(k), s[k])
                      /\ k = i /\ Agrees(s, k) => Contains(Domain(k), s[k])
                      /\ k > i /\ i > 0 /\ Agrees(s, i) /\ search = "fc" =>
                            Contains(Domain(k), s[k])
    BY DEF NothingSkipped
  <2>1. NotSkipped(s)
    BY <1>1 DEF SkipInv
  <2>2. Ahead(s, k) => Contains(Domain(k), s[k])
    <3>1. Domain(k) \in Seq(Column)
      BY <1>1, ColumnsOfDomains DEF TypeInv, BoardOK, Domain
    <3>2. DOMAIN Domain(k) = 1 .. Len(Domain(k))
      BY <3>1
    <3> QED BY <3>2 DEF Ahead, ToSet, Contains
  <2> QED BY <2>1, <2>2 DEF NotSkipped
<1> QED
  BY <1>1, SkipInvariant, PTL

\* back_track_search.py, bt_fc.py: the search that says that the problem is inconsistent,
\* and the one that fails when it has nothing to go back to, had a problem without a solution.
THEOREM GivesUpRightlyTheorem == Spec => []GivesUpRightly
<1>1. ASSUME TypeInv, SkipInv PROVE GivesUpRightly
  BY <1>1 DEF SkipInv, GivesUpRightly
<1> QED
  BY <1>1, SkipInvariant, PTL
=============================================================================
