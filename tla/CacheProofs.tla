------------------------------ MODULE CacheProofs ----------------------------
(***************************************************************************)
(* Proofs about CacheSim, for every number of ways, sets, blocks and       *)
(* accesses: the types, the LRU stacks, the rows, the write-backs, and      *)
(* that it implements LruCache.                                            *)
(*                                                                         *)
(* The inductive invariant is the conjunction of these four: a way is      *)
(* found in its stack only because the stack is a permutation, and the     *)
(* line that is replaced is one of the set only because the stack holds    *)
(* ways.                                                                   *)
(***************************************************************************)
EXTENDS CacheSim, FiniteSetTheorems, TLAPS

IInv == TypeOK /\ StackIsPermutation /\ EachLineOnce /\ NoneTooMany

-----------------------------------------------------------------------------
(* The operators on stacks. *)

\* cachesim.c, cachesim_access: a block has a tag and a set.
LEMMA Split ==
    ASSUME NEW b \in Block
    PROVE  tag_value(b) \in 0 .. TagRange - 1 /\ index_value(b) \in Index
<1>1. /\ b \in Nat /\ cache_count \in Nat /\ index_count \in Nat \ {0}
      /\ index_count <= cache_count /\ TagRange \in Nat \ {0}
  BY CacheAssumption
<1>2. b \div index_count \in Int
  BY <1>1
<1>3. (b \div index_count) % TagRange \in 0 .. TagRange - 1
  BY <1>1, <1>2
<1>4. b % index_count \in 0 .. cache_count - 1
  BY <1>1
<1> QED
  BY <1>3, <1>4 DEF tag_value, index_value, Index

\* lru_stack_kickout keeps the ways of a stack, each at one place.
LEMMA KickedOutPermutes ==
    ASSUME NEW stack \in [Way -> Way], IsPermutation(stack)
    PROVE  KickedOut(stack) \in [Way -> Way] /\ IsPermutation(KickedOut(stack))
<1> DEFINE new == KickedOut(stack)
<1>0. ways_count \in Nat \ {0}
  BY CacheAssumption
<1>1. \A j \in Way : new[j] = IF j = ways_count - 1 THEN stack[0] ELSE stack[j + 1]
  BY DEF KickedOut
<1>2. new \in [Way -> Way]
  BY <1>0 DEF KickedOut, Way
<1>3. ASSUME NEW way \in Way PROVE \E j \in Way : new[j] = way
  <2>1. PICK k \in Way : stack[k] = way
    BY DEF IsPermutation
  <2>2. CASE k = 0
    <3>1. new[ways_count - 1] = way /\ ways_count - 1 \in Way
      BY <1>0, <1>1, <2>1, <2>2 DEF Way
    <3> QED BY <3>1
  <2>3. CASE k # 0
    <3>1. k - 1 \in Way /\ k - 1 # ways_count - 1 /\ (k - 1) + 1 = k
      BY <1>0, <2>3 DEF Way
    <3>2. new[k - 1] = way
      BY <1>1, <2>1, <3>1
    <3> QED BY <3>1, <3>2
  <2> QED BY <2>2, <2>3
<1>4. ASSUME NEW j \in Way, NEW k \in Way, new[j] = new[k] PROVE j = k
  <2> DEFINE from(m) == IF m = ways_count - 1 THEN 0 ELSE m + 1
  <2>1. \A m \in Way : from(m) \in Way /\ new[m] = stack[from(m)]
    BY <1>0, <1>1 DEF Way
  <2>2. from(j) = from(k)
    BY <1>4, <2>1 DEF IsPermutation
  <2> QED BY <1>0, <2>2 DEF Way
<1> QED
  BY <1>2, <1>3, <1>4 DEF IsPermutation

\* update_cachesim_lru_access finds the way, and keeps the ways of the stack.
LEMMA TouchedPermutes ==
    ASSUME NEW stack \in [Way -> Way], IsPermutation(stack), NEW way \in Way
    PROVE  Touched(stack, way) \in [Way -> Way] /\ IsPermutation(Touched(stack, way))
<1> DEFINE loc == CHOOSE j \in Way : stack[j] = way
           new == Touched(stack, way)
<1>0. ways_count \in Nat \ {0}
  BY CacheAssumption
<1>1. loc \in Way /\ stack[loc] = way
  BY DEF IsPermutation
<1>2. \A j \in Way : new[j] = IF j = ways_count - 1 THEN way
                              ELSE IF j < loc THEN stack[j] ELSE stack[j + 1]
  BY DEF Touched, MovedToEnd
<1>3. new = [j \in Way |-> IF j = ways_count - 1 THEN way
                           ELSE IF j < loc THEN stack[j] ELSE stack[j + 1]]
  BY DEF Touched, MovedToEnd
<1> HIDE DEF loc, new
<1>4. new \in [Way -> Way]
  BY <1>0, <1>1, <1>3 DEF Way
<1>5. ASSUME NEW w \in Way PROVE \E j \in Way : new[j] = w
  <2>1. PICK k \in Way : stack[k] = w
    BY DEF IsPermutation
  <2>2. CASE k = loc
    <3>1. new[ways_count - 1] = w /\ ways_count - 1 \in Way
      BY <1>0, <1>1, <1>2, <2>1, <2>2 DEF Way
    <3> QED BY <3>1
  <2>3. CASE k < loc
    <3>1. k # ways_count - 1
      BY <1>0, <1>1, <2>3 DEF Way
    <3> QED BY <1>2, <2>1, <2>3, <3>1
  <2>4. CASE k > loc
    <3>1. k - 1 \in Way /\ k - 1 # ways_count - 1 /\ ~(k - 1 < loc) /\ (k - 1) + 1 = k
      BY <1>0, <1>1, <2>4 DEF Way
    <3>2. new[k - 1] = w
      BY <1>2, <2>1, <3>1
    <3> QED BY <3>1, <3>2
  <2> QED BY <1>0, <1>1, <2>2, <2>3, <2>4 DEF Way
<1>6. ASSUME NEW j \in Way, NEW k \in Way, new[j] = new[k] PROVE j = k
  <2> DEFINE from(m) == IF m = ways_count - 1 THEN loc ELSE IF m < loc THEN m ELSE m + 1
  <2>1. \A m \in Way : from(m) \in Way /\ new[m] = stack[from(m)]
    BY <1>0, <1>1, <1>2, SMTT(30) DEF Way
  <2>2. from(j) = from(k)
    BY <1>6, <2>1 DEF IsPermutation
  <2> QED BY <1>0, <1>1, <2>2 DEF Way
<1> QED
  BY <1>4, <1>5, <1>6 DEF IsPermutation, new

-----------------------------------------------------------------------------
(* The ways in which cachesim_access leaves its loop. *)

Counts(b, write) ==
    accesses' = accesses + 1 /\ call' = <<index_value(b), tag_value(b), write>>

THEOREM Initially == Init => IInv
<1> SUFFICES ASSUME Init PROVE IInv
  OBVIOUS
<1>0. ways_count \in Nat \ {0} /\ TagRange \in Nat \ {0}
  BY CacheAssumption
<1>1. TypeOK
  <2>1. Invalid \in [valid : BOOLEAN, tag : -1 .. TagRange - 1, dirty : BOOLEAN]
    BY <1>0 DEF Invalid
  <2>2. cache \in [Index -> [Way -> [valid : BOOLEAN, tag : -1 .. TagRange - 1, dirty : BOOLEAN]]]
    BY <2>1 DEF Init
  <2>3. lru_stack \in [Index -> [Way -> Way]] /\ written \in [Index -> SUBSET Way]
    BY DEF Init
  <2> QED BY <2>2, <2>3 DEF Init, TypeOK
<1>2. StackIsPermutation
  BY DEF Init, StackIsPermutation, IsPermutation
<1>3. EachLineOnce
  BY DEF Init, EachLineOnce, NoHole, NoCopy, Invalid
<1>4. NoneTooMany
  BY DEF Init, NoneTooMany, Invalid
<1> QED BY <1>1, <1>2, <1>3, <1>4 DEF IInv

\* What a stack of set x and a row in way v of it become.
LEMMA SetChanges ==
    ASSUME TypeOK, NEW x \in Index, NEW v \in Way,
           NEW row \in [valid : BOOLEAN, tag : -1 .. TagRange - 1, dirty : BOOLEAN],
           Put(x, v, row)
    PROVE  /\ cache' \in [Index -> [Way -> [valid : BOOLEAN, tag : -1 .. TagRange - 1,
                                            dirty : BOOLEAN]]]
           /\ \A y \in Index, k \in Way :
                 cache'[y][k] = IF y = x /\ k = v THEN row ELSE cache[y][k]
<1>1. cache \in [Index -> [Way -> [valid : BOOLEAN, tag : -1 .. TagRange - 1, dirty : BOOLEAN]]]
  BY DEF TypeOK
<1>2. cache' = [cache EXCEPT ![x] = [cache[x] EXCEPT ![v] = row]]
  BY DEF Put
<1> QED BY <1>1, <1>2

LEMMA StacksStay ==
    ASSUME TypeOK, StackIsPermutation, NEW x \in Index,
           NEW stack \in [Way -> Way], IsPermutation(stack),
           lru_stack' = [lru_stack EXCEPT ![x] = stack]
    PROVE  lru_stack' \in [Index -> [Way -> Way]] /\ StackIsPermutation'
<1>1. lru_stack \in [Index -> [Way -> Way]]
  BY DEF TypeOK
<1>2. \A y \in Index : lru_stack'[y] = IF y = x THEN stack ELSE lru_stack[y]
  BY <1>1
<1>3. \A y \in Index : IsPermutation(lru_stack'[y])
  BY <1>2 DEF StackIsPermutation
<1> QED BY <1>1, <1>3 DEF StackIsPermutation, IsPermutation

\* A hit changes the order of the stack, the dirty bit and a counter.
LEMMA HitStep ==
    ASSUME IInv, NEW b \in Block, NEW write \in BOOLEAN, NEW i \in Way, Counts(b, write),
           Hit(index_value(b), i, b, write)
    PROVE  IInv'
<1> DEFINE x   == index_value(b)
           row == [cache[x][i] EXCEPT !.dirty = @ \/ write]
<1>1. x \in Index /\ cache[x][i] \in [valid : BOOLEAN, tag : -1 .. TagRange - 1, dirty : BOOLEAN]
  BY Split DEF IInv, TypeOK
<1>2. row \in [valid : BOOLEAN, tag : -1 .. TagRange - 1, dirty : BOOLEAN]
      /\ row.valid = cache[x][i].valid /\ row.tag = cache[x][i].tag
      /\ (row.dirty => cache[x][i].dirty \/ write)
  BY <1>1
<1>3. Put(x, i, row) /\ TypeOK /\ StackIsPermutation
  BY DEF Hit, IInv
<1> HIDE DEF row
<1>4. /\ cache' \in [Index -> [Way -> [valid : BOOLEAN, tag : -1 .. TagRange - 1,
                                       dirty : BOOLEAN]]]
      /\ \A y \in Index, k \in Way :
            cache'[y][k] = IF y = x /\ k = i THEN row ELSE cache[y][k]
  BY <1>1, <1>2, <1>3, SetChanges
<1>5. lru_stack' \in [Index -> [Way -> Way]] /\ StackIsPermutation'
  <2>1. lru_stack[x] \in [Way -> Way] /\ IsPermutation(lru_stack[x])
    BY <1>1, <1>3 DEF TypeOK, StackIsPermutation
  <2>2. Touched(lru_stack[x], i) \in [Way -> Way] /\ IsPermutation(Touched(lru_stack[x], i))
    BY <2>1, TouchedPermutes
  <2>3. lru_stack' = [lru_stack EXCEPT ![x] = Touched(lru_stack[x], i)]
    BY DEF Hit
  <2> QED BY <1>1, <1>3, <2>2, <2>3, StacksStay
<1>6. written' \in [Index -> SUBSET Way]
      /\ \A y \in Index : written[y] \subseteq written'[y]
      /\ (write => i \in written'[x])
  BY <1>1 DEF IInv, TypeOK, Hit
<1>7. TypeOK'
  BY <1>4, <1>5, <1>6, SMTT(30) DEF IInv, TypeOK, Hit, Counts
<1>8. EachLineOnce'
  <2>1. \A y \in Index, k \in Way : /\ cache'[y][k].valid = cache[y][k].valid
                                    /\ cache'[y][k].tag = cache[y][k].tag
    BY <1>2, <1>4
  <2> QED BY <2>1 DEF IInv, EachLineOnce, NoHole, NoCopy
<1>9. NoneTooMany'
  <2>1. writebacks' <= owed'
    BY DEF IInv, NoneTooMany, Hit
  <2>2. ASSUME NEW y \in Index, NEW k \in Way, cache'[y][k].valid /\ cache'[y][k].dirty
        PROVE  k \in written'[y]
    BY <1>1, <1>2, <1>4, <1>6, <2>2 DEF IInv, NoneTooMany
  <2> QED BY <2>1, <2>2 DEF NoneTooMany
<1> QED BY <1>5, <1>7, <1>8, <1>9 DEF IInv

\* A line that takes the place of a row v of which nothing behind is valid, and
\* that no other row holds: the rows before it are valid.
LEMMA Loads ==
    ASSUME IInv, NEW x \in Index, NEW v \in Way, NEW tag \in 0 .. TagRange - 1,
           NEW dirty \in BOOLEAN, NEW write \in BOOLEAN, dirty => write,
           Put(x, v, [valid |-> TRUE, tag |-> tag, dirty |-> dirty]),
           written' = Loaded(x, v, write),
           \A k \in Way : k < v => cache[x][k].valid,
           \A k \in Way : k # v /\ cache[x][k].valid => cache[x][k].tag # tag
    PROVE  /\ cache' \in [Index -> [Way -> [valid : BOOLEAN, tag : -1 .. TagRange - 1,
                                            dirty : BOOLEAN]]]
           /\ written' \in [Index -> SUBSET Way]
           /\ EachLineOnce'
           /\ \A y \in Index, k \in Way :
                 cache'[y][k].valid /\ cache'[y][k].dirty => k \in written'[y]
<1> DEFINE row == [valid |-> TRUE, tag |-> tag, dirty |-> dirty]
<1>0. TagRange \in Nat \ {0} /\ ways_count \in Nat \ {0}
  BY CacheAssumption
<1>1. row \in [valid : BOOLEAN, tag : -1 .. TagRange - 1, dirty : BOOLEAN]
      /\ row.valid = TRUE /\ row.tag = tag /\ row.dirty = dirty
  BY <1>0
<1>2. Put(x, v, row) /\ TypeOK
  BY DEF IInv
<1> HIDE DEF row
<1>3. /\ cache' \in [Index -> [Way -> [valid : BOOLEAN, tag : -1 .. TagRange - 1,
                                       dirty : BOOLEAN]]]
      /\ \A y \in Index, k \in Way :
            cache'[y][k] = IF y = x /\ k = v THEN row ELSE cache[y][k]
  BY <1>1, <1>2, SetChanges
<1>4. written' \in [Index -> SUBSET Way]
      /\ (write => v \in written'[x])
      /\ \A y \in Index, k \in Way : k \in written[y] /\ ~(y = x /\ k = v) => k \in written'[y]
  BY <1>2 DEF TypeOK, Loaded
<1>5. EachLineOnce'
  <2>1. ASSUME NEW y \in Index, NEW j \in Way, NEW k \in Way, j < k, cache'[y][k].valid
        PROVE  cache'[y][j].valid
    <3>1. CASE y = x /\ k = v
      <4>1. cache[y][j].valid /\ j # v
        BY <2>1, <3>1 DEF Way
      <4> QED BY <1>3, <4>1
    <3>2. CASE ~(y = x /\ k = v)
      <4>1. cache[y][k].valid
        BY <1>3, <2>1, <3>2
      <4>2. cache[y][j].valid
        BY <2>1, <4>1 DEF IInv, EachLineOnce, NoHole
      <4> QED BY <1>1, <1>3, <4>2
    <3> QED BY <3>1, <3>2
  <2>2. ASSUME NEW y \in Index, NEW j \in Way, NEW k \in Way, cache'[y][j].valid,
               cache'[y][k].valid, cache'[y][j].tag = cache'[y][k].tag
        PROVE  j = k
    <3>1. CASE y = x /\ (j = v \/ k = v)
      BY <1>1, <1>3, <2>2, <3>1
    <3>2. CASE ~(y = x /\ (j = v \/ k = v))
      <4>1. cache'[y][j] = cache[y][j] /\ cache'[y][k] = cache[y][k]
        BY <1>3, <3>2
      <4> QED BY <2>2, <4>1 DEF IInv, EachLineOnce, NoCopy
    <3> QED BY <3>1, <3>2
  <2> QED BY <2>1, <2>2 DEF EachLineOnce, NoHole, NoCopy
<1>6. ASSUME NEW y \in Index, NEW k \in Way, cache'[y][k].valid /\ cache'[y][k].dirty
      PROVE  k \in written'[y]
  <2>1. CASE y = x /\ k = v
    BY <1>1, <1>3, <1>4, <1>6, <2>1
  <2>2. CASE ~(y = x /\ k = v)
    BY <1>3, <1>4, <1>6, <2>2 DEF IInv, NoneTooMany
  <2> QED BY <2>1, <2>2
<1> QED BY <1>3, <1>4, <1>5, <1>6

\* A free way: the rows behind it are free too.
LEMMA FillStep ==
    ASSUME IInv, NEW b \in Block, NEW write \in BOOLEAN, NEW i \in Way, Counts(b, write),
           Fill(index_value(b), i, b, write)
    PROVE  IInv'
<1> DEFINE x == index_value(b)
<1>1. x \in Index /\ tag_value(b) \in 0 .. TagRange - 1
  BY Split
<1>2. Put(x, i, [valid |-> TRUE, tag |-> tag_value(b), dirty |-> write])
      /\ written' = Loaded(x, i, write)
  BY DEF Fill
<1>3. \A k \in Way : k < i => cache[x][k].valid /\ cache[x][k].tag # tag_value(b)
  BY DEF Fill, Reached, Matches, Way
<1>4. \A k \in Way : k > i => ~cache[x][k].valid
  BY <1>1 DEF Fill, IInv, EachLineOnce, NoHole
<1>5. \A k \in Way : k # i /\ cache[x][k].valid => cache[x][k].tag # tag_value(b)
  BY <1>3, <1>4 DEF Way
<1>6. /\ cache' \in [Index -> [Way -> [valid : BOOLEAN, tag : -1 .. TagRange - 1,
                                       dirty : BOOLEAN]]]
      /\ written' \in [Index -> SUBSET Way]
      /\ EachLineOnce'
      /\ \A y \in Index, k \in Way :
            cache'[y][k].valid /\ cache'[y][k].dirty => k \in written'[y]
  BY <1>1, <1>2, <1>3, <1>5, Loads
<1>7. lru_stack' \in [Index -> [Way -> Way]] /\ StackIsPermutation'
  <2>1. lru_stack[x] \in [Way -> Way] /\ IsPermutation(lru_stack[x])
    BY <1>1 DEF IInv, TypeOK, StackIsPermutation
  <2>2. Touched(lru_stack[x], i) \in [Way -> Way] /\ IsPermutation(Touched(lru_stack[x], i))
    BY <2>1, TouchedPermutes
  <2>3. lru_stack' = [lru_stack EXCEPT ![x] = Touched(lru_stack[x], i)]
    BY DEF Fill
  <2> QED BY <1>1, <2>2, <2>3, StacksStay DEF IInv
<1>8. TypeOK'
  BY <1>6, <1>7 DEF IInv, TypeOK, Fill, Counts
<1>9. NoneTooMany'
  BY <1>6 DEF IInv, NoneTooMany, Fill
<1> QED BY <1>6, <1>7, <1>8, <1>9 DEF IInv

\* The way at the left end of the stack is one of the set, and a dirty line that goes
\* has been written.
LEMMA ReplaceStep ==
    ASSUME IInv, NEW b \in Block, NEW write \in BOOLEAN, NEW i \in Way, Counts(b, write),
           Replace(index_value(b), i, b, write)
    PROVE  IInv'
<1> DEFINE x == index_value(b)
           v == Victim(x)
<1>0. ways_count \in Nat \ {0}
  BY CacheAssumption
<1>1. x \in Index /\ tag_value(b) \in 0 .. TagRange - 1
  BY Split
<1>2. lru_stack[x] \in [Way -> Way] /\ IsPermutation(lru_stack[x])
  BY <1>1 DEF IInv, TypeOK, StackIsPermutation
<1>3. v \in Way
  <2>1. 0 \in Way
    BY <1>0 DEF Way
  <2> QED BY <1>2, <2>1 DEF Victim
<1>4. Put(x, v, [valid |-> TRUE, tag |-> tag_value(b), dirty |-> FALSE])
      /\ written' = Loaded(x, v, write)
  BY DEF Replace
<1>5. \A k \in Way : cache[x][k].valid /\ cache[x][k].tag # tag_value(b)
  <2>1. \A k \in Way : k = ways_count - 1 \/ k \in 0 .. (ways_count - 1) - 1
    BY <1>0 DEF Way
  <2> QED BY <2>1 DEF Replace, Reached, Matches
<1>6. /\ cache' \in [Index -> [Way -> [valid : BOOLEAN, tag : -1 .. TagRange - 1,
                                       dirty : BOOLEAN]]]
      /\ written' \in [Index -> SUBSET Way]
      /\ EachLineOnce'
      /\ \A y \in Index, k \in Way :
            cache'[y][k].valid /\ cache'[y][k].dirty => k \in written'[y]
  <2> DEFINE dirty == FALSE
  <2>1. /\ dirty \in BOOLEAN /\ (dirty => write)
        /\ Put(x, v, [valid |-> TRUE, tag |-> tag_value(b), dirty |-> dirty])
    BY <1>4
  <2> HIDE DEF x, v, dirty
  <2> QED BY <1>1, <1>3, <1>4, <1>5, <2>1, Loads
<1>7. lru_stack' \in [Index -> [Way -> Way]] /\ StackIsPermutation'
  <2>1. KickedOut(lru_stack[x]) \in [Way -> Way] /\ IsPermutation(KickedOut(lru_stack[x]))
    BY <1>2, KickedOutPermutes
  <2>2. lru_stack' = [lru_stack EXCEPT ![x] = KickedOut(lru_stack[x])]
    BY DEF Replace
  <2> QED BY <1>1, <2>1, <2>2, StacksStay DEF IInv
<1>8. writebacks' \in Nat /\ owed' \in Nat /\ writebacks' <= owed'
  <2>1. NeedsWriteback(cache[x][v]) => v \in written[x]
    BY <1>1, <1>3, <1>5 DEF NeedsWriteback, IInv, NoneTooMany
  <2>2. /\ writebacks' = writebacks + (IF NeedsWriteback(cache[x][v]) THEN 1 ELSE 0)
        /\ owed' = owed + (IF v \in written[x] THEN 1 ELSE 0)
    BY DEF Replace
  <2>3. writebacks \in Nat /\ owed \in Nat /\ writebacks <= owed
    BY DEF IInv, TypeOK, NoneTooMany
  <2> HIDE DEF x, v
  <2> QED BY <2>1, <2>2, <2>3
<1>9. TypeOK'
  BY <1>6, <1>7, <1>8 DEF IInv, TypeOK, Replace, Counts
<1>10. NoneTooMany'
  BY <1>6, <1>8 DEF NoneTooMany
<1> QED BY <1>6, <1>7, <1>9, <1>10 DEF IInv

-----------------------------------------------------------------------------
(* The theorems. *)

\* Every access of a trace (cachesim.c, cachesim_access) keeps the invariant.
THEOREM Inductive == IInv /\ [Next]_vars => IInv'
<1> SUFFICES ASSUME IInv, [Next]_vars PROVE IInv'
  OBVIOUS
<1>1. ASSUME NEW b \in Block, NEW write \in BOOLEAN, cachesim_access(b, write) PROVE IInv'
  <2>1. Counts(b, write)
    BY <1>1 DEF cachesim_access, Counts
  <2>2. PICK i \in Way : \/ Hit(index_value(b), i, b, write)
                         \/ Fill(index_value(b), i, b, write)
                         \/ Replace(index_value(b), i, b, write)
    BY <1>1 DEF cachesim_access
  <2> QED BY <2>1, <2>2, HitStep, FillStep, ReplaceStep
<1>2. CASE UNCHANGED vars
  BY <1>2 DEF vars, history, IInv, TypeOK, StackIsPermutation, IsPermutation, EachLineOnce, NoHole,
              NoCopy, NoneTooMany
<1> QED BY <1>1, <1>2 DEF Next, PrintStats

THEOREM Invariance == Spec => []IInv
  BY Initially, Inductive, PTL DEF Spec

\* The tags stay in the range of their type, and rows and stacks in their sets.
THEOREM TypeCorrectness == Spec => []TypeOK
<1>1. IInv => TypeOK
  BY DEF IInv
<1> QED BY Invariance, <1>1, PTL

\* No sequence of accesses loses a way from its LRU stack (cachesim.c,
\* update_cachesim_lru_access and lru_stack_kickout).
THEOREM StackTheorem == Spec => []StackIsPermutation
<1>1. IInv => StackIsPermutation
  BY DEF IInv
<1> QED BY Invariance, <1>1, PTL

\* No sequence of accesses puts a line into two ways of its set.
THEOREM EachLineOnceTheorem == Spec => []EachLineOnce
<1>1. IInv => EachLineOnce
  BY DEF IInv
<1> QED BY Invariance, <1>1, PTL

\* The write-backs that are counted (cachesim.c, lru_stack_kickout) are due.
THEOREM NoneTooManyTheorem == Spec => []NoneTooMany
<1>1. IInv => NoneTooMany
  BY DEF IInv
<1> QED BY Invariance, <1>1, PTL

-----------------------------------------------------------------------------
(* CacheSim implements LruCache: the line at place j of the stack of a set is its
   j-th oldest.  Whatever cachesim_access does, the way at some place loc goes to
   the right end of its stack, with the line of the access in it, and the lines of
   all the other ways stay.  MovedStep says what that does to the lines and their
   order; the three kinds of access differ in loc. *)

\* The place from which the way at place j has come, and to which that at place k
\* goes, when the way at place loc moves to the right end.
From(j, loc) == IF j = ways_count - 1 THEN loc ELSE IF j < loc THEN j ELSE j + 1
To(k, loc)   == IF k < loc THEN k ELSE k - 1

LEMMA FromTo ==
    ASSUME NEW loc \in Way
    PROVE  /\ \A j \in Way : From(j, loc) \in Way
           /\ \A j \in Way : j # ways_count - 1 => From(j, loc) # loc
           /\ \A j, k \in Way : j < k /\ k # ways_count - 1 => From(j, loc) < From(k, loc)
           /\ \A k \in Way : k # loc => /\ To(k, loc) \in Way
                                        /\ To(k, loc) # ways_count - 1
                                        /\ To(k, loc) < ways_count - 1
                                        /\ From(To(k, loc), loc) = k
           /\ \A j, k \in Way : j < k /\ j # loc /\ k # loc => To(j, loc) < To(k, loc)
           /\ ways_count - 1 \in Way
  BY CacheAssumption DEF Way, From, To

\* The definitions of the refinement mapping, element by element.
LEMMA Mapped ==
    ASSUME NEW x \in Index
    PROVE  /\ \A l : l \in Lines(x) <=> \E j \in Used(x) : LineAt(x, j) = l
           /\ \A l, m : <<l, m>> \in Older(x) <=>
                 \E j, k \in Used(x) : j < k /\ LineAt(x, j) = l /\ LineAt(x, k) = m
           /\ \A p \in Older(x) : p = <<p[1], p[2]>>
           /\ Used(x) \subseteq Way
<1>1. \A l, m : <<l, m>> \in Older(x) <=>
         \E p \in Used(x) \X Used(x) : p[1] < p[2] /\ LineAt(x, p[1]) = l /\ LineAt(x, p[2]) = m
  BY DEF Older
<1>2. \A l, m : <<l, m>> \in Older(x) <=>
         \E j, k \in Used(x) : j < k /\ LineAt(x, j) = l /\ LineAt(x, k) = m
  <2> SUFFICES ASSUME NEW l, NEW m
               PROVE  <<l, m>> \in Older(x) <=>
                         \E j, k \in Used(x) : j < k /\ LineAt(x, j) = l /\ LineAt(x, k) = m
    OBVIOUS
  <2>1. ASSUME <<l, m>> \in Older(x)
        PROVE  \E j, k \in Used(x) : j < k /\ LineAt(x, j) = l /\ LineAt(x, k) = m
    BY <1>1, <2>1
  <2>2. ASSUME NEW j \in Used(x), NEW k \in Used(x),
               j < k /\ LineAt(x, j) = l /\ LineAt(x, k) = m
        PROVE  <<l, m>> \in Older(x)
    <3>1. <<j, k>> \in Used(x) \X Used(x) /\ <<j, k>>[1] = j /\ <<j, k>>[2] = k
      OBVIOUS
    <3> QED BY <1>1, <2>2, <3>1
  <2> QED BY <2>1, <2>2
<1>3. \A p \in Older(x) : p = <<p[1], p[2]>>
  BY DEF Older
<1> QED BY <1>2, <1>3 DEF Lines, Used

\* The same after a step.
LEMMA MappedNext ==
    ASSUME NEW x \in Index
    PROVE  /\ \A l, m : <<l, m>> \in Older(x)' <=>
                 \E j, k \in Used(x)' : j < k /\ LineAt(x, j)' = l /\ LineAt(x, k)' = m
           /\ \A p \in Older(x)' : p = <<p[1], p[2]>>
<1>1. \A l, m : <<l, m>> \in Older(x)' <=>
         \E p \in Used(x)' \X Used(x)' :
            p[1] < p[2] /\ LineAt(x, p[1])' = l /\ LineAt(x, p[2])' = m
  BY DEF Older
<1>2. \A l, m : <<l, m>> \in Older(x)' <=>
         \E j, k \in Used(x)' : j < k /\ LineAt(x, j)' = l /\ LineAt(x, k)' = m
  <2> SUFFICES ASSUME NEW l, NEW m
               PROVE  <<l, m>> \in Older(x)' <=>
                         \E j, k \in Used(x)' : j < k /\ LineAt(x, j)' = l /\ LineAt(x, k)' = m
    OBVIOUS
  <2>1. ASSUME <<l, m>> \in Older(x)'
        PROVE  \E j, k \in Used(x)' : j < k /\ LineAt(x, j)' = l /\ LineAt(x, k)' = m
    BY <1>1, <2>1
  <2>2. ASSUME NEW j \in Used(x)', NEW k \in Used(x)',
               j < k /\ LineAt(x, j)' = l /\ LineAt(x, k)' = m
        PROVE  <<l, m>> \in Older(x)'
    <3>1. <<j, k>> \in Used(x)' \X Used(x)' /\ <<j, k>>[1] = j /\ <<j, k>>[2] = k
      OBVIOUS
    <3> QED BY <1>1, <2>2, <3>1
  <2> QED BY <2>1, <2>2
<1>3. \A p \in Older(x)' : p = <<p[1], p[2]>>
  BY DEF Older
<1> QED BY <1>2, <1>3

\* No line is at two places.
LEMMA Unique ==
    ASSUME IInv, NEW x \in Index, NEW j \in Used(x), NEW k \in Used(x),
           LineAt(x, j) = LineAt(x, k)
    PROVE  j = k
<1>1. j \in Way /\ k \in Way /\ lru_stack[x][j] \in Way /\ lru_stack[x][k] \in Way
  BY DEF IInv, TypeOK, Used
<1>2. lru_stack[x][j] = lru_stack[x][k]
  BY <1>1 DEF IInv, EachLineOnce, NoCopy, Used, LineAt
<1> QED BY <1>1, <1>2 DEF IInv, StackIsPermutation, IsPermutation

-----------------------------------------------------------------------------
\* The way at place loc of set x goes to the right end and holds the line; no other
\* way of the set does.
Moved(x, loc, line) ==
    /\ \A j \in Way : lru_stack'[x][j] = lru_stack[x][From(j, loc)]
    /\ cache'[x][lru_stack[x][loc]].valid /\ cache'[x][lru_stack[x][loc]].tag = line
    /\ \A i \in Way : i # lru_stack[x][loc] => cache'[x][i] = cache[x][i]
    /\ \A y \in Index : y # x => cache'[y] = cache[y] /\ lru_stack'[y] = lru_stack[y]

\* The lines that stay.
Rest(x, loc) == {LineAt(x, j) : j \in Used(x) \ {loc}}

LEMMA MovedStep ==
    ASSUME IInv, NEW x \in Index, NEW loc \in Way, NEW line, Moved(x, loc, line)
    PROVE  Reference!Use(x, Rest(x, loc), line)
<1> DEFINE end  == ways_count - 1
           rest == Rest(x, loc)
<1>0. /\ \A j \in Way : From(j, loc) \in Way
      /\ \A j \in Way : j # end => From(j, loc) # loc
      /\ \A j, k \in Way : j < k /\ k # end => From(j, loc) < From(k, loc)
      /\ \A k \in Way : k # loc => /\ To(k, loc) \in Way /\ To(k, loc) # end
                                   /\ To(k, loc) < end /\ From(To(k, loc), loc) = k
      /\ \A j, k \in Way : j < k /\ j # loc /\ k # loc => To(j, loc) < To(k, loc)
      /\ end \in Way /\ From(end, loc) = loc
      /\ \A j, k \in Way : j < k => j # end
  <2>1. \A j, k \in Way : j < k => j # end
    BY CacheAssumption DEF Way
  <2> QED BY FromTo, <2>1 DEF From
<1>1. \A j \in Way : lru_stack[x][j] \in Way /\ (j # loc => lru_stack[x][j] # lru_stack[x][loc])
  BY DEF IInv, TypeOK, StackIsPermutation, IsPermutation
<1>2. \A j \in Way : /\ j # end => /\ LineAt(x, j)' = LineAt(x, From(j, loc))
                                   /\ (j \in Used(x)' <=> From(j, loc) \in Used(x))
                     /\ j = end => LineAt(x, j)' = line /\ j \in Used(x)'
  <2>1. ASSUME NEW j \in Way, j # end
        PROVE  /\ LineAt(x, j)' = LineAt(x, From(j, loc))
               /\ (j \in Used(x)' <=> From(j, loc) \in Used(x))
    <3>1. From(j, loc) \in Way /\ From(j, loc) # loc
      BY <1>0, <2>1
    <3>2. cache'[x][lru_stack'[x][j]] = cache[x][lru_stack[x][From(j, loc)]]
      BY <1>1, <3>1 DEF Moved
    <3> QED BY <3>1, <3>2 DEF Used, LineAt
  <2>2. LineAt(x, end)' = line /\ end \in Used(x)'
    <3>1. lru_stack'[x][end] = lru_stack[x][loc]
      BY <1>0 DEF Moved
    <3> QED BY <1>0, <3>1 DEF Moved, Used, LineAt
  <2> QED BY <2>1, <2>2
<1>3. \A l : l \in rest <=> \E j \in Used(x) : j # loc /\ LineAt(x, j) = l
  BY DEF Rest
<1>4. \A l : l \in rest <=> \E j \in Used(x)' : j # end /\ LineAt(x, j)' = l
  <2>1. ASSUME NEW j \in Used(x)', j # end PROVE LineAt(x, j)' \in rest
    <3>1. j \in Way
      BY <2>1 DEF Used
    <3>2. From(j, loc) \in Used(x) /\ From(j, loc) # loc /\ LineAt(x, j)' = LineAt(x, From(j, loc))
      BY <1>0, <1>2, <2>1, <3>1
    <3> QED BY <1>3, <3>2
  <2>2. ASSUME NEW k \in Used(x), k # loc
        PROVE  \E j \in Used(x)' : j # end /\ LineAt(x, j)' = LineAt(x, k)
    <3>1. k \in Way
      BY DEF Used
    <3>2. To(k, loc) \in Way /\ To(k, loc) # end /\ From(To(k, loc), loc) = k
      BY <1>0, <2>2, <3>1
    <3>3. To(k, loc) \in Used(x)' /\ LineAt(x, To(k, loc))' = LineAt(x, k)
      BY <1>2, <3>2
    <3> QED BY <3>2, <3>3
  <2> QED BY <1>3, <2>1, <2>2
<1>5. Used(x) \subseteq Way /\ Used(x)' \subseteq Way
  BY DEF Used
<1>6. \A l : l \in Lines(x)' <=> \E j \in Used(x)' : LineAt(x, j)' = l
  BY DEF Lines
<1>7. \A l, m : <<l, m>> \in Older(x) <=>
         \E j, k \in Used(x) : j < k /\ LineAt(x, j) = l /\ LineAt(x, k) = m
  BY Mapped
<1>8. /\ \A l, m : <<l, m>> \in Older(x)' <=>
            \E j, k \in Used(x)' : j < k /\ LineAt(x, j)' = l /\ LineAt(x, k)' = m
      /\ \A p \in Older(x)' : p = <<p[1], p[2]>>
  BY MappedNext
<1>9. Lines(x)' = rest \cup {line}
  BY <1>0, <1>2, <1>4, <1>5, <1>6
<1>10. Older(x)' = (Older(x) \cap (rest \X rest)) \cup (rest \X {line})
  <2>1. ASSUME NEW l, NEW m, <<l, m>> \in Older(x)'
        PROVE  (<<l, m>> \in Older(x) /\ l \in rest /\ m \in rest) \/ (l \in rest /\ m = line)
    <3>1. PICK j \in Used(x)', k \in Used(x)' : j < k /\ LineAt(x, j)' = l /\ LineAt(x, k)' = m
      BY <1>8, <2>1
    <3>2. j \in Way /\ k \in Way /\ j # end
      BY <1>0, <1>5, <3>1
    <3>3. l \in rest
      BY <1>4, <3>1, <3>2
    <3>4. CASE k = end
      BY <1>2, <3>1, <3>2, <3>3, <3>4
    <3>5. CASE k # end
      <4>1. m \in rest
        BY <1>4, <3>1, <3>5
      <4>2. From(j, loc) < From(k, loc) /\ From(j, loc) \in Used(x) /\ From(k, loc) \in Used(x)
        BY <1>0, <1>2, <3>1, <3>2, <3>5
      <4>3. LineAt(x, From(j, loc)) = l /\ LineAt(x, From(k, loc)) = m
        BY <1>2, <3>1, <3>2, <3>5
      <4> QED BY <1>7, <3>3, <4>1, <4>2, <4>3
    <3> QED BY <3>4, <3>5
  <2>2. ASSUME NEW l \in rest, NEW m \in rest, <<l, m>> \in Older(x)
        PROVE  <<l, m>> \in Older(x)'
    <3>1. PICK j \in Used(x), k \in Used(x) : j < k /\ LineAt(x, j) = l /\ LineAt(x, k) = m
      BY <1>7, <2>2
    <3>2. j # loc /\ k # loc
      <4>1. PICK a \in Used(x), b \in Used(x) :
               a # loc /\ b # loc /\ LineAt(x, a) = l /\ LineAt(x, b) = m
        BY <1>3
      <4>2. a = j /\ b = k
        BY <3>1, <4>1, Unique
      <4> QED BY <4>1, <4>2
    <3>3. /\ To(j, loc) \in Way /\ To(k, loc) \in Way /\ To(j, loc) < To(k, loc)
          /\ To(j, loc) # end /\ To(k, loc) # end
          /\ From(To(j, loc), loc) = j /\ From(To(k, loc), loc) = k
      BY <1>0, <1>5, <3>1, <3>2
    <3>4. /\ To(j, loc) \in Used(x)' /\ To(k, loc) \in Used(x)'
          /\ LineAt(x, To(j, loc))' = l /\ LineAt(x, To(k, loc))' = m
      BY <1>2, <3>1, <3>3
    <3> QED BY <1>8, <3>3, <3>4
  <2>3. ASSUME NEW l \in rest PROVE <<l, line>> \in Older(x)'
    <3>1. PICK k \in Used(x) : k # loc /\ LineAt(x, k) = l
      BY <1>3
    <3>2. To(k, loc) \in Way /\ To(k, loc) # end /\ To(k, loc) < end /\ From(To(k, loc), loc) = k
      BY <1>0, <1>5, <3>1
    <3>3. To(k, loc) \in Used(x)' /\ LineAt(x, To(k, loc))' = l
      BY <1>2, <3>1, <3>2
    <3>4. end \in Used(x)' /\ LineAt(x, end)' = line
      BY <1>0, <1>2
    <3> QED BY <1>8, <3>2, <3>3, <3>4
  <2> HIDE DEF rest, end
  <2>4. ASSUME NEW p \in Older(x)'
        PROVE  p \in (Older(x) \cap (rest \X rest)) \cup (rest \X {line})
    <3>1. p = <<p[1], p[2]>>
      BY <1>8
    <3>2. (p \in Older(x) /\ p[1] \in rest /\ p[2] \in rest) \/ (p[1] \in rest /\ p[2] = line)
      BY <2>1, <3>1
    <3> QED BY <3>1, <3>2
  <2>5. ASSUME NEW p \in (Older(x) \cap (rest \X rest)) \cup (rest \X {line})
        PROVE  p \in Older(x)'
    <3>1. CASE p \in Older(x) /\ p \in rest \X rest
      <4>1. p = <<p[1], p[2]>> /\ p[1] \in rest /\ p[2] \in rest
        BY <3>1
      <4> QED BY <2>2, <3>1, <4>1
    <3>2. CASE p \in rest \X {line}
      <4>1. p = <<p[1], line>> /\ p[1] \in rest
        BY <3>2
      <4> QED BY <2>3, <4>1
    <3> QED BY <2>5, <3>1, <3>2
  <2> QED BY <2>4, <2>5
<1>11. \A y \in Index : y # x => Lines(y)' = Lines(y) /\ Older(y)' = Older(y)
  <2>1. \A y \in Index : y # x => (Used(y)' = Used(y))
                                 /\ \A k \in Way : LineAt(y, k)' = LineAt(y, k)
    BY DEF Moved, Used, LineAt
  <2>2. \A y : Used(y) \subseteq Way
    BY DEF Used
  <2> QED BY <2>1, <2>2 DEF Lines, Older
<1> HIDE DEF rest, end
<1>12. [y \in Index |-> Lines(y)]' = [[y \in Index |-> Lines(y)] EXCEPT ![x] = rest \cup {line}]
  BY <1>9, <1>11
<1>13. [y \in Index |-> Older(y)]' = [[y \in Index |-> Older(y)] EXCEPT
                                        ![x] = (@ \cap (rest \X rest)) \cup (rest \X {line})]
  BY <1>10, <1>11
<1> QED BY <1>12, <1>13 DEF Reference!Use, rest

-----------------------------------------------------------------------------
\* update_cachesim_lru_access moves the way from its place, and lru_stack_kickout that
\* at the left end.
LEMMA TouchedMoves ==
    ASSUME NEW stack \in [Way -> Way], IsPermutation(stack), NEW way \in Way
    PROVE  \E loc \in Way : /\ stack[loc] = way
                            /\ \A j \in Way : Touched(stack, way)[j] = stack[From(j, loc)]
<1> DEFINE loc == CHOOSE j \in Way : stack[j] = way
<1>1. loc \in Way /\ stack[loc] = way
  BY DEF IsPermutation
<1>2. \A j \in Way : Touched(stack, way)[j] = IF j = ways_count - 1 THEN way
                                              ELSE IF j < loc THEN stack[j] ELSE stack[j + 1]
  BY DEF Touched, MovedToEnd
<1> HIDE DEF loc
<1>3. \A j \in Way : Touched(stack, way)[j] = stack[From(j, loc)]
  BY <1>1, <1>2 DEF From
<1> QED BY <1>1, <1>3

LEMMA KickedOutMoves ==
    ASSUME NEW stack \in [Way -> Way]
    PROVE  0 \in Way /\ \A j \in Way : KickedOut(stack)[j] = stack[From(j, 0)]
<1>1. 0 \in Way /\ \A j \in Way : ~(j < 0)
  BY CacheAssumption DEF Way
<1>2. \A j \in Way : KickedOut(stack)[j] = IF j = ways_count - 1 THEN stack[0] ELSE stack[j + 1]
  BY DEF KickedOut
<1> QED BY <1>1, <1>2 DEF From

\* The instance of FiniteSets in LruCache is the one used here.
LEMMA SameCardinality == \A S : Reference!Cardinality(S) = Cardinality(S)
  BY DEF Reference!Cardinality, Cardinality

\* A set is full when every way holds a line.
LEMMA Full ==
    ASSUME IInv, NEW x \in Index
    PROVE  /\ Cardinality(Lines(x)) \in Nat /\ Cardinality(Lines(x)) <= ways_count
           /\ Cardinality(Lines(x)) = ways_count <=> Used(x) = Way
<1> DEFINE line == [j \in Used(x) |-> LineAt(x, j)]
<1>1. line \in Bijection(Used(x), Lines(x))
  <2>1. line \in [Used(x) -> Lines(x)] /\ \A l \in Lines(x) : \E j \in Used(x) : line[j] = l
    BY DEF Lines
  <2>2. \A j, k \in Used(x) : line[j] = line[k] => j = k
    BY Unique
  <2> HIDE DEF line
  <2> QED BY <2>1, <2>2 DEF Bijection, Injection, Surjection, IsInjective
<1>2. IsFiniteSet(Way) /\ Cardinality(Way) = ways_count
  <2>1. ways_count \in Nat \ {0}
    BY CacheAssumption
  <2>2. 0 \in Int /\ ways_count - 1 \in Int /\ ~(0 > ways_count - 1)
    BY <2>1
  <2>3. IsFiniteSet(Way) /\ Cardinality(Way) = (ways_count - 1) - 0 + 1
    BY <2>2, FS_Interval DEF Way
  <2> QED BY <2>1, <2>3
<1>3. Used(x) \in SUBSET Way
  BY DEF Used
<1>4. /\ IsFiniteSet(Used(x)) /\ Cardinality(Used(x)) <= Cardinality(Way)
      /\ Cardinality(Way) = Cardinality(Used(x)) => Way = Used(x)
  BY <1>2, <1>3, FS_Subset
<1>5. IsFiniteSet(Lines(x)) /\ Cardinality(Lines(x)) = Cardinality(Used(x))
  <2>1. ExistsBijection(Used(x), Lines(x))
    BY <1>1 DEF ExistsBijection
  <2> QED BY <1>4, <2>1, FS_Bijection
<1>6. Cardinality(Lines(x)) \in Nat
  BY <1>5, FS_CardinalityType
<1> QED BY <1>2, <1>4, <1>5, <1>6

-----------------------------------------------------------------------------
(* The three kinds of access. *)

\* The row of a way that is not the one changed stays.
LEMMA PutChanges ==
    ASSUME IInv, NEW x \in Index, NEW v \in Way, NEW row, Put(x, v, row)
    PROVE  /\ cache'[x][v] = row /\ \A i \in Way : i # v => cache'[x][i] = cache[x][i]
           /\ \A y \in Index : y # x => cache'[y] = cache[y]
  BY DEF IInv, TypeOK, Put

LEMMA StackChanges ==
    ASSUME IInv, NEW x \in Index, NEW stack, lru_stack' = [lru_stack EXCEPT ![x] = stack]
    PROVE  lru_stack'[x] = stack /\ \A y \in Index : y # x => lru_stack'[y] = lru_stack[y]
  BY DEF IInv, TypeOK

LEMMA StackTypes ==
    ASSUME IInv, NEW x \in Index
    PROVE  lru_stack[x] \in [Way -> Way] /\ IsPermutation(lru_stack[x])
  BY DEF IInv, TypeOK, StackIsPermutation

\* A hit, at whatever place its way is.
LEMMA HitRefines ==
    ASSUME IInv, NEW b \in Block, NEW write \in BOOLEAN, NEW i \in Way,
           Hit(index_value(b), i, b, write)
    PROVE  Reference!Hit(index_value(b), tag_value(b), write)
<1> DEFINE x    == index_value(b)
           line == tag_value(b)
<1>1. x \in Index
  BY Split
<1>2. lru_stack[x] \in [Way -> Way] /\ IsPermutation(lru_stack[x])
  BY <1>1, StackTypes
<1>3. PICK loc \in Way : /\ lru_stack[x][loc] = i
                         /\ \A j \in Way : Touched(lru_stack[x], i)[j] = lru_stack[x][From(j, loc)]
  BY <1>2, TouchedMoves
<1>4. cache[x][i].valid /\ cache[x][i].tag = line
  BY DEF Hit, Matches
<1>5. Moved(x, loc, line)
  <2> DEFINE row == [cache[x][i] EXCEPT !.dirty = @ \/ write]
  <2>1. row.valid = cache[x][i].valid /\ row.tag = cache[x][i].tag
    <3>1. cache[x][i] \in [valid : BOOLEAN, tag : -1 .. TagRange - 1, dirty : BOOLEAN]
      BY <1>1 DEF IInv, TypeOK
    <3> QED BY <3>1
  <2>2. Put(x, i, row) /\ lru_stack' = [lru_stack EXCEPT ![x] = Touched(lru_stack[x], i)]
    BY DEF Hit
  <2> HIDE DEF row, x, line
  <2>3. /\ cache'[x][i] = row /\ \A k \in Way : k # i => cache'[x][k] = cache[x][k]
        /\ \A y \in Index : y # x => cache'[y] = cache[y]
    BY <1>1, <2>2, PutChanges
  <2>4. /\ lru_stack'[x] = Touched(lru_stack[x], i)
        /\ \A y \in Index : y # x => lru_stack'[y] = lru_stack[y]
    BY <1>1, <2>2, StackChanges
  <2> QED BY <1>3, <1>4, <2>1, <2>3, <2>4 DEF Moved
<1>6. loc \in Used(x) /\ LineAt(x, loc) = line
  BY <1>3, <1>4 DEF Used, LineAt
<1>7. line \in Lines(x) /\ Rest(x, loc) = Lines(x) \ {line}
  <2>1. \A j \in Used(x) : LineAt(x, j) = line => j = loc
    BY <1>1, <1>6, Unique
  <2> HIDE DEF x, line
  <2> QED BY <1>6, <2>1 DEF Rest, Lines
<1>8. Reference!Use(x, Lines(x) \ {line}, line)
  BY <1>1, <1>5, <1>7, MovedStep
<1> QED BY <1>1, <1>7, <1>8 DEF Reference!Hit, Hit

\* A way that is free: the set is not full.
LEMMA FillRefines ==
    ASSUME IInv, NEW b \in Block, NEW write \in BOOLEAN, NEW i \in Way,
           Fill(index_value(b), i, b, write)
    PROVE  Reference!Load(index_value(b), tag_value(b))
<1> DEFINE x    == index_value(b)
           line == tag_value(b)
<1>1. x \in Index
  BY Split
<1>2. lru_stack[x] \in [Way -> Way] /\ IsPermutation(lru_stack[x])
  BY <1>1, StackTypes
<1>3. PICK loc \in Way : /\ lru_stack[x][loc] = i
                         /\ \A j \in Way : Touched(lru_stack[x], i)[j] = lru_stack[x][From(j, loc)]
  BY <1>2, TouchedMoves
<1>4. ~cache[x][i].valid /\ \A k \in Way : cache[x][k].valid => cache[x][k].tag # line
  <2>1. \A k \in Way : k < i => cache[x][k].tag # line
    BY DEF Fill, Reached, Matches, Way
  <2>2. ~cache[x][i].valid
    BY DEF Fill
  <2>3. \A k \in Way : k > i => ~cache[x][k].valid
    BY <1>1, <2>2 DEF IInv, EachLineOnce, NoHole
  <2> QED BY <2>1, <2>2, <2>3 DEF Way
<1>5. Moved(x, loc, line)
  <2> DEFINE row == [valid |-> TRUE, tag |-> line, dirty |-> write]
  <2>1. row.valid /\ row.tag = line
    OBVIOUS
  <2>2. Put(x, i, row) /\ lru_stack' = [lru_stack EXCEPT ![x] = Touched(lru_stack[x], i)]
    BY DEF Fill
  <2> HIDE DEF row, x, line
  <2>3. /\ cache'[x][i] = row /\ \A k \in Way : k # i => cache'[x][k] = cache[x][k]
        /\ \A y \in Index : y # x => cache'[y] = cache[y]
    BY <1>1, <2>2, PutChanges
  <2>4. /\ lru_stack'[x] = Touched(lru_stack[x], i)
        /\ \A y \in Index : y # x => lru_stack'[y] = lru_stack[y]
    BY <1>1, <2>2, StackChanges
  <2> QED BY <1>3, <2>1, <2>3, <2>4 DEF Moved
<1>6. loc \notin Used(x)
  BY <1>3, <1>4 DEF Used
<1>7. Rest(x, loc) = Lines(x) /\ line \notin Lines(x)
  <2>1. \A j \in Used(x) : LineAt(x, j) # line
    BY <1>2, <1>4 DEF Used, LineAt
  <2> HIDE DEF x, line
  <2> QED BY <1>6, <2>1 DEF Rest, Lines
<1>8. Cardinality(Lines(x)) < ways_count
  <2>1. Used(x) # Way
    BY <1>6
  <2> HIDE DEF x
  <2> QED BY <1>1, <2>1, Full, CacheAssumption
<1>9. Reference!Use(x, Lines(x), line)
  BY <1>1, <1>5, <1>7, MovedStep
<1>10. Reference!Cardinality(Lines(x)) < ways_count
  BY <1>8, SameCardinality
<1>11. UNCHANGED <<read_hits, write_hits>>
  BY DEF Fill
<1> HIDE DEF x, line
<1>12. Reference!Load(x, line)
  BY <1>1, <1>7, <1>9, <1>10, <1>11 DEF Reference!Load
<1> QED BY <1>12 DEF x, line

\* No way is free: the line at the left end of the stack is the oldest, and goes.
LEMMA ReplaceRefines ==
    ASSUME IInv, NEW b \in Block, NEW write \in BOOLEAN, NEW i \in Way,
           Replace(index_value(b), i, b, write)
    PROVE  Reference!Replace(index_value(b), tag_value(b))
<1> DEFINE x    == index_value(b)
           line == tag_value(b)
           v    == lru_stack[x][0]
<1>1. x \in Index
  BY Split
<1>2. lru_stack[x] \in [Way -> Way] /\ IsPermutation(lru_stack[x])
  BY <1>1, StackTypes
<1>3. 0 \in Way /\ \A j \in Way : KickedOut(lru_stack[x])[j] = lru_stack[x][From(j, 0)]
  BY <1>2, KickedOutMoves
<1>4. \A k \in Way : cache[x][k].valid /\ cache[x][k].tag # line
  <2>1. \A k \in Way : k = ways_count - 1 \/ k \in 0 .. (ways_count - 1) - 1
    BY CacheAssumption DEF Way
  <2> QED BY <2>1 DEF Replace, Reached, Matches
<1>5. Moved(x, 0, line)
  <2> DEFINE row == [valid |-> TRUE, tag |-> line, dirty |-> FALSE]
  <2>1. row.valid /\ row.tag = line
    OBVIOUS
  <2>2. Put(x, v, row) /\ lru_stack' = [lru_stack EXCEPT ![x] = KickedOut(lru_stack[x])]
    BY DEF Replace, Victim
  <2>3. v \in Way
    BY <1>2, <1>3
  <2> HIDE DEF row, x, line
  <2>4. /\ cache'[x][v] = row /\ \A k \in Way : k # v => cache'[x][k] = cache[x][k]
        /\ \A y \in Index : y # x => cache'[y] = cache[y]
    BY <1>1, <2>2, <2>3, PutChanges
  <2>5. /\ lru_stack'[x] = KickedOut(lru_stack[x])
        /\ \A y \in Index : y # x => lru_stack'[y] = lru_stack[y]
    BY <1>1, <2>2, StackChanges
  <2> QED BY <1>3, <2>1, <2>4, <2>5 DEF Moved
<1>6. Used(x) = Way /\ line \notin Lines(x)
  <2>1. Used(x) = Way /\ \A j \in Used(x) : LineAt(x, j) # line
    BY <1>2, <1>4 DEF Used, LineAt
  <2> HIDE DEF x, line
  <2> QED BY <2>1 DEF Lines
<1> DEFINE victim == LineAt(x, 0)
<1>7. 0 \in Used(x) /\ \A j \in Used(x) : LineAt(x, j) = victim => j = 0
  BY <1>1, <1>3, <1>6, Unique
<1>8. victim \in Lines(x) /\ Rest(x, 0) = Lines(x) \ {victim}
  <2> HIDE DEF x
  <2> QED BY <1>7 DEF Rest, Lines
<1>9. \A other \in Lines(x) : <<other, victim>> \notin Older(x)
  <2> SUFFICES ASSUME NEW other, <<other, victim>> \in Older(x) PROVE FALSE
    OBVIOUS
  <2> HIDE DEF x, victim
  <2>1. PICK j \in Used(x), k \in Used(x) :
           j < k /\ LineAt(x, j) = other /\ LineAt(x, k) = victim
    BY <1>1, Mapped
  <2>2. k = 0 /\ j \in Way
    BY <1>6, <1>7, <2>1
  <2> QED BY <2>1, <2>2 DEF Way
<1>10. Cardinality(Lines(x)) = ways_count
  <2> HIDE DEF x
  <2> QED BY <1>1, <1>6, Full
<1>11. Reference!Use(x, Lines(x) \ {victim}, line)
  BY <1>1, <1>3, <1>5, <1>8, MovedStep
<1>12. UNCHANGED <<read_hits, write_hits>>
  BY DEF Replace
<1>13. Reference!Cardinality(Lines(x)) = ways_count
  BY <1>10, SameCardinality
<1> HIDE DEF x, line, victim
<1>14. Reference!Oldest(x, victim)
  BY <1>1, <1>9 DEF Reference!Oldest
<1>15. Reference!Replace(x, line)
  BY <1>1, <1>6, <1>8, <1>11, <1>12, <1>13, <1>14 DEF Reference!Replace
<1> QED BY <1>15 DEF x, line

-----------------------------------------------------------------------------
(* The theorem. *)

LEMMA InitRefines == Init => Reference!Init
<1> SUFFICES ASSUME Init PROVE Reference!Init
  OBVIOUS
<1>1. \A x \in Index : Used(x) = {}
  <2>1. \A x \in Index, i \in Way : lru_stack[x][i] \in Way /\ ~cache[x][i].valid
    BY DEF Init, Invalid
  <2> QED BY <2>1 DEF Used
<1>2. \A x \in Index : Lines(x) = {} /\ Older(x) = {}
  BY <1>1 DEF Lines, Older
<1> QED BY <1>2 DEF Init, Reference!Init

LEMMA StepRefines ==
    ASSUME IInv, [Next]_vars
    PROVE  [Reference!Next]_(Reference!vars)
<1>1. ASSUME NEW b \in Block, NEW write \in BOOLEAN, cachesim_access(b, write)
      PROVE  Reference!Next
  <2>1. index_value(b) \in Index /\ tag_value(b) \in 0 .. TagRange - 1
    BY Split
  <2>2. call' = <<index_value(b), tag_value(b), write>>
    BY <1>1 DEF cachesim_access
  <2>3. PICK i \in Way : \/ Hit(index_value(b), i, b, write)
                         \/ Fill(index_value(b), i, b, write)
                         \/ Replace(index_value(b), i, b, write)
    BY <1>1 DEF cachesim_access
  <2>4. \/ Reference!Hit(index_value(b), tag_value(b), write)
        \/ Reference!Load(index_value(b), tag_value(b))
        \/ Reference!Replace(index_value(b), tag_value(b))
    BY <2>3, HitRefines, FillRefines, ReplaceRefines
  <2> QED BY <2>1, <2>2, <2>4 DEF Reference!Next
<1>2. CASE UNCHANGED vars
  <2>1. UNCHANGED <<call, read_hits, write_hits>>
    BY <1>2 DEF vars, history
  <2>2. \A x \in Index : Lines(x)' = Lines(x) /\ Older(x)' = Older(x)
    BY <1>2 DEF vars, Lines, Older, Used, LineAt
  <2> QED BY <2>1, <2>2 DEF Reference!vars
<1> QED BY <1>1, <1>2 DEF Next, PrintStats

\* The rows, the LRU stacks and the loop over the ways of cachesim.c count the hits of
\* a cache that replaces the least recently used line.
THEOREM RefinementTheorem == Spec => ImplementsLru
<1>1. Spec => Reference!Spec
  BY InitRefines, StepRefines, Invariance, PTL DEF Spec, Reference!Spec
<1> QED BY <1>1 DEF ImplementsLru
=============================================================================
