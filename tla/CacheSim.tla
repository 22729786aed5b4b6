------------------------------- MODULE CacheSim ------------------------------
(***************************************************************************)
(* The set-associative cache of comp_arch/cachesim/src/cachesim.c: rows    *)
(* with valid, tag and dirty, and an LRU stack for each set, its left end  *)
(* the least recently used way.  One action for each way cachesim_access   *)
(* leaves its loop over the ways.                                          *)
(*                                                                         *)
(* Left out: write_accesses, which only counts calls, and the bytes of a   *)
(* block.                                                                  *)
(***************************************************************************)
EXTENDS Integers, Sequences, FiniteSets

CONSTANTS
    ways_count, cache_count,   \* ways in a set, sets in the cache
    Block,                     \* the blocks of the trace: physical_addr >> block_length
    TagRange,                  \* 2^32: a tag is kept in an int
    MaxAccesses                \* bound: the length of the trace

\* cachesim_init: the integer part of the logarithm; of a number of sets that is no power
\* of two, those from the largest power of two on are never used.
index_length == CHOOSE k \in 0 .. cache_count : 2 ^ k <= cache_count /\ cache_count < 2 ^ (k + 1)
index_count  == 2 ^ index_length

\* The last conjunct follows from the definition; it is here because the provers do not
\* know exponentiation.
ASSUME CacheAssumption ==
    /\ ways_count \in Nat \ {0} /\ cache_count \in Nat \ {0} /\ TagRange \in Nat \ {0}
    /\ Block \subseteq Nat /\ MaxAccesses \in Nat
    /\ index_count \in 1 .. cache_count

Way   == 0 .. ways_count - 1
Index == 0 .. cache_count - 1

VARIABLES
    cache,        \* cache[x][i]: row i of set x
    lru_stack,    \* lru_stack[x][j]: the ways of set x, least recently used first
    read_hits, write_hits, writebacks,
    accesses,
    call,         \* history: what cachesim_access has just been called for
    written,      \* history: the ways of each set written since their line was loaded
    owed          \* history: the lines replaced that had been written

history == <<call, written, owed>>
vars    == <<cache, lru_stack, read_hits, write_hits, writebacks, accesses, history>>

\* Mutant: the tag keeps all its bits.
LongTag(b)     == b \div index_count
tag_value(b)   == (b \div index_count) % TagRange
index_value(b) == b % index_count

Invalid == [valid |-> FALSE, tag |-> -1, dirty |-> FALSE]

\* cachesim_init.
Init ==
    /\ cache = [x \in Index |-> [i \in Way |-> Invalid]]
    /\ lru_stack = [x \in Index |-> [j \in Way |-> j]]
    /\ read_hits = 0 /\ write_hits = 0 /\ writebacks = 0 /\ accesses = 0
    /\ call = <<>> /\ written = [x \in Index |-> {}] /\ owed = 0

-----------------------------------------------------------------------------
\* update_cachesim_lru_access: the way moves to the right end, and those to the
\* right of its place move one place to the left.
MovedToEnd(stack, way) ==
    LET location == CHOOSE j \in Way : stack[j] = way
    IN  [j \in Way |-> IF j = ways_count - 1 THEN way
                       ELSE IF j < location THEN stack[j] ELSE stack[j + 1]]

\* Mutant: a hit leaves the stack alone.
FillOrder(stack, way) == stack
Touched(stack, way)   == MovedToEnd(stack, way)

Matches(x, i, b) == cache[x][i].valid /\ cache[x][i].tag = tag_value(b)

\* Mutant: a hit does not end the loop.
GoesOn(x, i, b)  == \A j \in 0 .. i - 1 : cache[x][j].valid

\* The loop over the ways has come to way i: those before it hold other lines.
Reached(x, i, b) == \A j \in 0 .. i - 1 : cache[x][j].valid /\ ~Matches(x, j, b)

Put(x, i, row) == cache' = [cache EXCEPT ![x] = [@ EXCEPT ![i] = row]]

\* written when way i of set x is loaded, or written.
Loaded(x, i, write) == [written EXCEPT ![x] = IF write THEN @ \cup {i} ELSE @ \ {i}]

Hit(x, i, b, write) ==
    /\ Reached(x, i, b) /\ Matches(x, i, b)
    /\ Put(x, i, [cache[x][i] EXCEPT !.dirty = @ \/ write])
    /\ read_hits' = read_hits + (IF write THEN 0 ELSE 1)
    /\ write_hits' = write_hits + (IF write THEN 1 ELSE 0)
    /\ lru_stack' = [lru_stack EXCEPT ![x] = Touched(@, i)]
    /\ written' = [written EXCEPT ![x] = IF write THEN @ \cup {i} ELSE @]
    /\ UNCHANGED <<writebacks, owed>>

\* A way that is still free takes the line.
Fill(x, i, b, write) ==
    /\ Reached(x, i, b) /\ ~cache[x][i].valid
    /\ Put(x, i, [valid |-> TRUE, tag |-> tag_value(b), dirty |-> write])
    /\ lru_stack' = [lru_stack EXCEPT ![x] = Touched(@, i)]
    /\ written' = Loaded(x, i, write)
    /\ UNCHANGED <<read_hits, write_hits, writebacks, owed>>

\* Mutant: the shift goes one place too far.
LosesFirst(stack) == [j \in Way |-> IF j >= ways_count - 2 THEN stack[0] ELSE stack[j + 1]]

\* lru_stack_kickout moves the way at the left end to the right end.
KickedOut(stack)  == [j \in Way |-> IF j = ways_count - 1 THEN stack[0] ELSE stack[j + 1]]

\* Mutant: every line that goes is written back.
Always(row)        == TRUE
NeedsWriteback(row) == row.dirty

Victim(x) == lru_stack[x][0]

\* cachesim_access, a miss: the way at the left end is replaced, whatever the last way
\* of the loop is, and its new line is not dirty even if the access is a write.
Replace(x, i, b, write) ==
    /\ Reached(x, i, b) /\ i = ways_count - 1 /\ cache[x][i].valid /\ ~Matches(x, i, b)
    /\ LET victim == Victim(x)
       IN  /\ Put(x, victim, [valid |-> TRUE, tag |-> tag_value(b), dirty |-> FALSE])
           /\ writebacks' = writebacks + (IF NeedsWriteback(cache[x][victim]) THEN 1 ELSE 0)
           /\ lru_stack' = [lru_stack EXCEPT ![x] = KickedOut(@)]
           /\ owed' = owed + (IF victim \in written[x] THEN 1 ELSE 0)
           /\ written' = Loaded(x, victim, write)
    /\ UNCHANGED <<read_hits, write_hits>>

\* cachesim_access, for each line of the trace.
cachesim_access(b, write) ==
    /\ accesses < MaxAccesses
    /\ accesses' = accesses + 1
    /\ call' = <<index_value(b), tag_value(b), write>>
    /\ \E i \in Way : \/ Hit(index_value(b), i, b, write)
                      \/ Fill(index_value(b), i, b, write)
                      \/ Replace(index_value(b), i, b, write)

\* The trace is over.
PrintStats == UNCHANGED vars

Next == (\E b \in Block, write \in BOOLEAN : cachesim_access(b, write)) \/ PrintStats

Spec == Init /\ [][Next]_vars

-----------------------------------------------------------------------------
(* Properties *)

\* The types of the variables.
TypeOK ==
    /\ cache \in [Index -> [Way -> [valid : BOOLEAN, tag : -1 .. TagRange - 1, dirty : BOOLEAN]]]
    /\ lru_stack \in [Index -> [Way -> Way]]
    /\ read_hits \in Nat /\ write_hits \in Nat /\ writebacks \in Nat /\ accesses \in Nat
    /\ Len(call) \in {0, 3}
    /\ written \in [Index -> SUBSET Way] /\ owed \in Nat

\* Every way of a set is at one place of its LRU stack: otherwise the search of
\* update_cachesim_lru_access ends with location = -1, in front of the set, and a
\* way that drops out of the stack is never replaced again.
IsPermutation(stack) ==
    /\ \A way \in Way : \E j \in Way : stack[j] = way
    /\ \A j, k \in Way : stack[j] = stack[k] => j = k
StackIsPermutation == \A x \in Index : IsPermutation(lru_stack[x])

\* The ways fill up from the left, and no line is in two ways of its set: the
\* loop, which stops at the first free way, does not miss a copy behind it.
NoHole(rows)      == \A i, j \in Way : j < i /\ rows[i].valid => rows[j].valid
NoCopy(rows)      == \A i, j \in Way :
                        rows[i].valid /\ rows[j].valid /\ rows[i].tag = rows[j].tag => i = j
EachLineOnce      == \A x \in Index : NoHole(cache[x]) /\ NoCopy(cache[x])

\* The places of the stack of set x whose ways hold a line, and these lines.
Used(x)     == {j \in Way : cache[x][lru_stack[x][j]].valid}
LineAt(x, j) == cache[x][lru_stack[x][j]].tag
Lines(x)    == {LineAt(x, j) : j \in Used(x)}
Older(x)    == {<<LineAt(x, p[1]), LineAt(x, p[2])>> :
                   p \in {p \in Used(x) \X Used(x) : p[1] < p[2]}}
Reference == INSTANCE LruCache
    WITH Line <- 0 .. TagRange - 1,
         lines <- [x \in Index |-> Lines(x)],
         older <- [x \in Index |-> Older(x)]

\* The rows, the stack and the order of the loop together count the hits of a
\* cache that replaces the least recently used line.
ImplementsLru == Reference!Spec

\* No write-back is counted that is not due: a dirty line has been written since
\* it was loaded.
NoneTooMany ==
    /\ writebacks <= owed
    /\ \A x \in Index, i \in Way : cache[x][i].valid /\ cache[x][i].dirty => i \in written[x]

-----------------------------------------------------------------------------
(* What a comment of the program says, which the model refutes. *)

\* cachesim.c, in lru_stack_kickout: "Determine if writeback is needed".
EveryWritebackCounted == writebacks = owed
=============================================================================
