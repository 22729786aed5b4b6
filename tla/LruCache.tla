------------------------------- MODULE LruCache ------------------------------
(***************************************************************************)
(* A cache that replaces the least recently used line: what the statistics *)
(* of the cache simulator claim to count.  A set has its lines, and an     *)
(* order of them by their last access.                                     *)
(***************************************************************************)
EXTENDS Naturals, FiniteSets

CONSTANTS
    Index,      \* the sets
    Line,       \* the lines that may be in a set
    ways_count

VARIABLES
    call,       \* the last access: <<set, line, write>>
    lines,      \* the lines in each set
    older,      \* the pairs of lines of each set, the less recently used one first
    read_hits, write_hits

vars == <<call, lines, older, read_hits, write_hits>>

Init ==
    /\ call = <<>> /\ lines = [x \in Index |-> {}] /\ older = [x \in Index |-> {}]
    /\ read_hits = 0 /\ write_hits = 0

\* The line is now the youngest of its set, in which the others of rest stay.
Use(x, rest, line) ==
    /\ lines' = [lines EXCEPT ![x] = rest \cup {line}]
    /\ older' = [older EXCEPT ![x] = (@ \cap (rest \X rest)) \cup (rest \X {line})]

Hit(x, line, write) ==
    /\ line \in lines[x]
    /\ Use(x, lines[x] \ {line}, line)
    /\ read_hits' = read_hits + (IF write THEN 0 ELSE 1)
    /\ write_hits' = write_hits + (IF write THEN 1 ELSE 0)

Load(x, line) ==
    /\ line \notin lines[x] /\ Cardinality(lines[x]) < ways_count
    /\ Use(x, lines[x], line)
    /\ UNCHANGED <<read_hits, write_hits>>

Oldest(x, line) == \A other \in lines[x] : <<other, line>> \notin older[x]

Replace(x, line) ==
    /\ line \notin lines[x] /\ Cardinality(lines[x]) = ways_count
    /\ \E victim \in lines[x] : Oldest(x, victim) /\ Use(x, lines[x] \ {victim}, line)
    /\ UNCHANGED <<read_hits, write_hits>>

Next == \E x \in Index, line \in Line, write \in BOOLEAN :
            /\ call' = <<x, line, write>>
            /\ Hit(x, line, write) \/ Load(x, line) \/ Replace(x, line)

Spec == Init /\ [][Next]_vars
=============================================================================
