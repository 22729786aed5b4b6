------------------------------ MODULE MCProcSim ------------------------------
(* Constants for model checking ProcSim. *)
EXTENDS ProcSim

Reg1 == 1 .. 1

Op(op, dest, src, addr, taken) ==
    [op |-> op, dest |-> dest, src |-> src, addr |-> addr, taken |-> taken, inst_addr |-> 0]

Nop      == Op("NOP", -1, <<-1, -1>>, 0, FALSE)
Add      == Op("ADD", 1, <<1, -1>>, 0, FALSE)
Mul      == Op("MUL", 1, <<-1, -1>>, 0, FALSE)
Ld(a)    == Op("LOAD", 1, <<-1, -1>>, a, FALSE)
St(a)    == Op("STORE", -1, <<1, -1>>, a, FALSE)
Br(t)    == Op("BR", -1, <<1, -1>>, 0, t)

\* Instructions that follow one another in memory, and those that go round in a loop of
\* this length: one branch is read several times.
InALoop(n, program) == [k \in DOMAIN program |-> [program[k] EXCEPT !.inst_addr = (k - 1) % n]]
InLine(program)     == InALoop(Len(program), program)

\* Every program of four instructions; the addresses 2 and 6 share a cache line.
Programs ==
    {InLine(p) : p \in [1 .. 4 -> {Nop, Add, Mul, Ld(2), St(2), Ld(6), St(6), Br(FALSE), Br(TRUE)}]}

\* Longer ones: rows that are freed and filled again in another order.
LongPrograms ==
  {InLine(p) : p \in
    {<<Br(FALSE), Ld(2), Br(FALSE), St(6), Br(FALSE), Add>>,
     <<Ld(2), Mul, Br(FALSE), Add, Ld(6), St(2), Add, Mul>>,
     <<Mul, Mul, Add, Br(TRUE), St(2), Ld(2), Add, Br(TRUE), Ld(6)>>,
     <<Nop, Ld(2), Nop, Add, Add, Mul, Nop, St(6), Ld(6), Nop>>}}
  \cup
  {InALoop(2, <<Add, Br(TRUE), Add, Br(TRUE), Add, Br(FALSE), Mul>>),
   InALoop(3, <<Ld(2), Add, Br(TRUE), St(6), Add, Br(TRUE), Ld(2), Add, Br(FALSE)>>)}

\* Shorter ones: the trace ends in the middle of a fetch, and while no row is occupied.
ShortPrograms == {InLine(<<Add>>), InLine(<<Nop, Nop, Add>>)}

\* The C library's qsort is a merge sort.
RECURSIVE Merge(_, _, _), MergeSort(_, _)
Merge(a, b, small) ==
    IF a = <<>> THEN b
    ELSE IF b = <<>> THEN a
    ELSE IF <<Head(a), Head(b)>> \in small THEN <<Head(a)>> \o Merge(Tail(a), b, small)
    ELSE <<Head(b)>> \o Merge(a, Tail(b), small)
MergeSort(rows, small) ==
    LET half == Len(rows) \div 2
    IN  IF Len(rows) <= 1 THEN rows
        ELSE Merge(MergeSort(SubSeq(rows, 1, half), small),
                   MergeSort(SubSeq(rows, half + 1, Len(rows)), small), small)

GlibcSort(small) == MergeSort([i \in Row |-> i], small)

AllPrograms == Programs \cup LongPrograms \cup ShortPrograms
=============================================================================
