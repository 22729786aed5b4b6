-------------------------------- MODULE Queens -------------------------------
(***************************************************************************)
(* The searches of constraint/csp/src for a placement of n queens: back    *)
(* tracking (back_track_search.py), with forward checking (bt_fc.py), and  *)
(* with a dynamic order of the variables (dvo.py).  An action is one       *)
(* iteration of the main loop of a search.                                 *)
(*                                                                         *)
(* All three keep a list of variables with domains: board[k] is the        *)
(* variable at place k, idx its column, counted from 1, and position its   *)
(* domain, whose last value is the next to be taken.  In the first two     *)
(* searches the place is the column.                                       *)
(*                                                                         *)
(* Left out: visited_states and the flag assigned, which are never read,   *)
(* the random order rand_domain, which nobody uses, and the paths that     *)
(* bt_fc.py and dvo.py put together in new_path and drop.                  *)
(***************************************************************************)
EXTENDS Integers, SequencesExt

CONSTANTS
    Searches,      \* of "bt", "fc", "dvo"
    QueenCounts,   \* the values of queen_count
    Orders         \* the values of the argument least of dvo

ASSUME QueensAssumption ==
    /\ Searches \subseteq {"bt", "fc", "dvo"}
    /\ QueenCounts \subseteq Nat \ {0}
    /\ Orders \subseteq BOOLEAN

VARIABLES
    search, queen_count, least,
    i,                \* the place of the variable to be set, counted from 1
    path,             \* a value for each variable set; in dvo for each column, or None
    board,
    book_keeping,     \* book_keeping_domain_list: for each column a copy of board, or NoCopy
    outcome           \* "searching", "path", "inconsistent", "TypeError"

vars == <<search, queen_count, least, i, path, board, book_keeping, outcome>>

Column == 1 .. queen_count
None   == 0            \* no value for a column
NoCopy == <<>>         \* no copy of the board

\* hw2_util.py.
Abs(x) == IF x < 0 THEN -x ELSE x
constraint(c, d, val_c, val_d) == val_c # val_d /\ Abs(c - d) # Abs(val_c - val_d)
consistent(values) ==
    \A c, d \in DOMAIN values : c < d => constraint(c, d, values[c], values[d])

Values(n) == [v \in 1 .. n |-> v]

Init ==
    /\ search \in Searches /\ queen_count \in QueenCounts /\ least \in Orders
    /\ i = 1
    /\ path = IF search = "dvo" THEN [c \in Column |-> None] ELSE <<>>
    /\ board = [c \in Column |-> [idx |-> c, position |->
                    IF search = "bt" /\ c # 1 THEN <<>> ELSE Values(queen_count)]]
    /\ book_keeping = [c \in Column |-> NoCopy]
    /\ outcome = "searching"

Searching(name) == search = name /\ outcome = "searching" /\ i \in Column

\* A list without its last element, if it has one.
Pop(s) == IF s = <<>> THEN s ELSE Front(s)

Domain(k)    == board[k].position
With(k, dom) == [board EXCEPT ![k].position = dom]

-----------------------------------------------------------------------------
(* back_track_search.py *)

\* Mutant: the new value is compared with the last queen only.
LastOnly(values) ==
    LET n == Len(values)
    IN  n > 1 => constraint(n - 1, n, values[n - 1], values[n])
PathConsistent(values) == consistent(values)

\* select_value: the values from the end of the domain that fit the path.
Fitting == {k \in DOMAIN Domain(i) : PathConsistent(Append(path, Domain(i)[k]))}

BackTrack ==
    /\ Searching("bt")
    /\ \/ /\ Fitting = {}
          /\ i' = i - 1
          /\ path' = Pop(path)
          /\ board' = With(i, <<>>)
       \/ /\ Fitting # {}
          /\ LET k == Max(Fitting)
                 rest == With(i, SubSeq(Domain(i), 1, k - 1))
             IN  /\ path' = Append(path, Domain(i)[k])
                 /\ board' = IF i = queen_count THEN rest
                             ELSE [rest EXCEPT ![i + 1].position = Values(queen_count)]
          /\ i' = i + 1
    /\ UNCHANGED <<search, queen_count, least, book_keeping, outcome>>

-----------------------------------------------------------------------------
(* Forward checking. *)

\* The values of a domain that are in a set, in their order.
Remaining(dom, good) ==
    LET kept[n \in 0 .. Len(dom)] ==
            IF n = 0 THEN <<>>
            ELSE IF dom[n] \in good THEN Append(kept[n - 1], dom[n])
            ELSE kept[n - 1]
    IN  kept[Len(dom)]

\* The board when the variable at place k has a value: what is against it goes
\* from the domains of the variables behind it.
Pruned(k, value) ==
    [p \in Column |->
        IF p <= k THEN board[p]
        ELSE [board[p] EXCEPT !.position =
                 Remaining(@, {v \in Column : constraint(board[k].idx, board[p].idx, value, v)})]]

\* No domain behind place k is empty.
Viable(k, value) == \A p \in k + 1 .. queen_count : Pruned(k, value)[p].position # <<>>

\* Mutant: the domain of the variable itself is not reset.
ResetBehind(k, copy) == [p \in Column |-> IF p <= k THEN board[p] ELSE copy[p]]

\* domain_reset: the domains from place k on are those of the copy.
ResetFrom(k, copy) == [p \in Column |-> IF p < k THEN board[p] ELSE copy[p]]

\* The copy that is made when a variable is reached first.
Kept(c) == IF book_keeping[c] = NoCopy THEN [book_keeping EXCEPT ![c] = board] ELSE book_keeping

\* Python: the element before the first one is the last one.
Before(k) == IF k = 1 THEN queen_count ELSE k - 1

-----------------------------------------------------------------------------
(* bt_fc.py *)

\* select_value_fc: the values from the end of the domain that leave the others one.
Leaving == {k \in DOMAIN Domain(i) : Viable(i, Domain(i)[k])}

\* Mutant: the domains are reset to the copy of the level itself.
OwnCopy(kept)   == kept[i]
LevelAbove(kept) == kept[Before(i)]

ForwardCheck ==
    /\ Searching("fc")
    /\ LET kept == Kept(i)
           copy == LevelAbove(kept)
       IN  \/ /\ Leaving = {} /\ copy = NoCopy
              /\ outcome' = "TypeError"
              /\ UNCHANGED <<i, path, board, book_keeping>>
           \/ /\ Leaving = {} /\ copy # NoCopy
              /\ board' = ResetFrom(i, copy)
              /\ book_keeping' = [kept EXCEPT ![i] = NoCopy]
              /\ path' = Pop(path)
              /\ i' = i - 1
              /\ UNCHANGED outcome
           \/ /\ Leaving # {}
              /\ LET k == Max(Leaving)
                 IN  /\ path' = Append(path, Domain(i)[k])
                     /\ board' = [Pruned(i, Domain(i)[k]) EXCEPT
                                    ![i].position = SubSeq(@, 1, k - 1)]
              /\ i' = i + 1
              /\ book_keeping' = kept
              /\ UNCHANGED outcome
    /\ UNCHANGED <<search, queen_count, least>>

-----------------------------------------------------------------------------
(* dvo.py *)

\* select_value_fc: the search for the least constraining value never lowers its
\* minimum, so that it ends with the last value taken, the first of the domain;
\* the others are put back in the order in which they were taken.
LeastConstraining(d) == Head(d)
LeftOver(d)          == Reverse(Tail(d))
SomeValue            == Domain(i) # <<>> /\ Viable(i, LeastConstraining(Domain(i)))

\* rearrange: a stable sort of the variables behind place k by the size of their
\* domains, the largest first if least.
Rearranged(vs, k) ==
    LET behind      == k + 1 .. queen_count
        size(p)     == Len(vs[p].position)
        first(p, q) == \/ IF least THEN size(p) > size(q) ELSE size(p) < size(q)
                       \/ size(p) = size(q) /\ p < q
        place(p)    == k + 1 + Cardinality({q \in behind : first(q, p)})
    IN  [p \in Column |-> vs[IF p <= k THEN p ELSE CHOOSE q \in behind : place(q) = p]]

\* Mutant: the value stays in the copy that the search comes back to.
NotNoted(kept, c, left) == kept
\* Mutant: the column is taken for the place.
NotedByColumn(kept, c, left) == [kept EXCEPT ![c][c] = [idx |-> c, position |-> left]]
Noted(kept, c, left)         == [kept EXCEPT ![c][i] = [idx |-> c, position |-> left]]

DynamicOrder ==
    /\ Searching("dvo")
    /\ LET c    == board[i].idx
           kept == Kept(c)
           copy == kept[board[Before(i)].idx]
       IN  \/ /\ ~SomeValue /\ copy = NoCopy
              /\ outcome' = "TypeError"
              /\ UNCHANGED <<i, path, board, book_keeping>>
           \/ /\ ~SomeValue /\ copy # NoCopy
              /\ board' = copy
              /\ book_keeping' = [kept EXCEPT ![c] = NoCopy]
              /\ path' = [path EXCEPT ![copy[i].idx] = None]
              /\ i' = i - 1
              /\ UNCHANGED outcome
           \/ /\ SomeValue
              /\ LET value == LeastConstraining(Domain(i))
                     left  == LeftOver(Domain(i))
                     rest  == [Pruned(i, value) EXCEPT ![i].position = left]
                 IN  /\ path' = [path EXCEPT ![c] = value]
                     /\ board' = IF i = queen_count THEN rest ELSE Rearranged(rest, i)
                     /\ book_keeping' = Noted(kept, c, left)
              /\ i' = i + 1
              /\ UNCHANGED outcome
    /\ UNCHANGED <<search, queen_count, least>>

-----------------------------------------------------------------------------
\* The end of the loop, and what the search returns when its counter is 0: back tracking
\* counts from 1, the others count from 0, where 0 is a variable and not the end.
Returned(name, none) ==
    /\ search = name /\ outcome = "searching" /\ i \notin Column
    /\ outcome' = IF i = none THEN "inconsistent" ELSE "path"

BackTrackReturns    == Returned("bt", 0)
ForwardCheckReturns == Returned("fc", 1)
DynamicOrderReturns == Returned("dvo", 1)

Return == /\ BackTrackReturns \/ ForwardCheckReturns \/ DynamicOrderReturns
          /\ UNCHANGED <<search, queen_count, least, i, path, board, book_keeping>>

Ended == outcome # "searching" /\ UNCHANGED vars

Next == BackTrack \/ ForwardCheck \/ DynamicOrder \/ Return \/ Ended

Spec     == Init /\ [][Next]_vars
\* The program is one thread, that the operating system keeps running.
FairSpec == Spec /\ WF_vars(Next)

-----------------------------------------------------------------------------
(* Properties *)

\* Every placement of n queens that attack each other nowhere, counted from its
\* definition and not from the searches.
Solutions[n \in QueenCounts] == {s \in [1 .. n -> 1 .. n] : consistent(s)}

\* The types of the variables: the board always holds each column once.
TypeOK ==
    /\ i \in 0 .. queen_count + 1
    /\ path \in Seq(0 .. queen_count) /\ Len(path) <= queen_count
    /\ \A c \in Column : \E k \in Column : board[k].idx = c
    /\ \A k \in Column : ToSet(Domain(k)) \subseteq Column
    /\ outcome \in {"searching", "path", "inconsistent", "TypeError"}

\* The variables before place i, and their values.
Value(k) == IF search = "dvo" THEN path[board[k].idx] ELSE path[k]

\* The queens placed so far never attack each other, and the path that a search
\* returns places all of them: also in dvo, which sorts the variables while the
\* path is kept by column.
PathIsConsistent ==
    /\ \A j, k \in 1 .. i - 1 : j < k =>
          /\ None \notin {Value(j), Value(k)}
          /\ constraint(board[j].idx, board[k].idx, Value(j), Value(k))
    /\ outcome = "path" => path \in Solutions[queen_count]

Agrees(s, k) == \A j \in 1 .. k - 1 : s[j] = path[j]

\* Back tracking and forward checking pass over no solution: one that agrees with
\* the path up to a variable is still ahead in that variable's domain, and the
\* domains that are reset get back every value that the retracted one had taken.
NothingSkipped ==
    search # "dvo" /\ outcome = "searching" =>
        \A s \in Solutions[queen_count], k \in Column :
            /\ k < i /\ Agrees(s, k) => s[k] = path[k] \/ Contains(Domain(k), s[k])
            /\ k = i /\ Agrees(s, k) => Contains(Domain(k), s[k])
            /\ k > i /\ i > 0 /\ Agrees(s, i) /\ search = "fc" => Contains(Domain(k), s[k])

\* They give up only a problem that has no solution.
GivesUpRightly ==
    search # "dvo" /\ outcome \in {"inconsistent", "TypeError"} => Solutions[queen_count] = {}

\* Every search ends, dvo too, whose variables come in another order after each
\* dead end.
SearchEnds == <>(outcome # "searching")

-----------------------------------------------------------------------------
(* What the program says of itself, which the model refutes. *)

\* dvo.py: a path, or "The problem is inconsistent".
SolvesIfSolvable == outcome \in {"inconsistent", "TypeError"} => Solutions[queen_count] = {}
=============================================================================
