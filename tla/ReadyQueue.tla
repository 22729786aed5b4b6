------------------------------ MODULE ReadyQueue -----------------------------
(***************************************************************************)
(* The ready queue of comp_arch/process_schedule/src/student.c: a linked   *)
(* list with a head and a tail pointer.                                    *)
(*                                                                         *)
(* list is the sequence of the processes in the nodes that can be reached  *)
(* from head, and tail the place in it of the node that tail points to: 0  *)
(* when that node is not in the list, because there is none yet or because *)
(* queue_pop has unlinked it.  A node linked behind a node that is not in  *)
(* the list is lost, and one linked in the middle of it cuts the list off. *)
(***************************************************************************)
EXTENDS Naturals, SequencesExt

EmptyQueue == [list |-> <<>>, tail |-> 0]

queue_push(queue, process) ==
    IF queue.list = <<>>  THEN [list |-> <<process>>, tail |-> 1]
    ELSE IF queue.tail = 0 THEN queue
    ELSE [list |-> Append(SubSeq(queue.list, 1, queue.tail), process), tail |-> queue.tail + 1]

\* Longest time first.  Among equals the newcomer goes behind the head and
\* before all the others.
PlaceInOrder(list, process, time) ==
    LET later(k) == k = Len(list) + 1 \/ time[list[k]] <= time[process]
    IN  IF list = <<>> \/ time[Head(list)] < time[process] THEN 1
        ELSE CHOOSE k \in 2 .. Len(list) + 1 : later(k) /\ \A j \in 2 .. k - 1 : ~later(j)

\* Mutant: the head is never overtaken.
BehindHead(queue, process, time) ==
    IF queue.list = <<>> THEN [list |-> <<process>>, tail |-> 1]
    ELSE [list |-> InsertAt(queue.list, 2, process), tail |-> queue.tail + 1]

\* Mutant: tail is only set for the first node.
ForgetsTail(queue, process, time) ==
    LET place == PlaceInOrder(queue.list, process, time)
    IN  [list |-> InsertAt(queue.list, place, process),
         tail |-> IF queue.list = <<>> THEN 1
                  ELSE IF place <= queue.tail THEN queue.tail + 1 ELSE queue.tail]

\* A node before the one that tail points to moves that one up; only a node
\* behind all the others becomes the tail.
queue_ordered_push(queue, process, time) ==
    LET place == PlaceInOrder(queue.list, process, time)
    IN  [list |-> InsertAt(queue.list, place, process),
         tail |-> IF place = Len(queue.list) + 1 THEN place
                  ELSE IF place <= queue.tail THEN queue.tail + 1 ELSE queue.tail]

\* queue_pop returns the process of the head, or NULL, and unlinks the head;
\* tail stays where it points, also when that is the unlinked node.
First(queue, null) == IF queue.list = <<>> THEN null ELSE Head(queue.list)
queue_pop(queue)   ==
    IF queue.list = <<>> THEN queue
    ELSE [list |-> Tail(queue.list), tail |-> IF queue.tail = 0 THEN 0 ELSE queue.tail - 1]

\* The next node that is pushed goes behind all the others and is found from head.
TailIsLast(queue) == queue.list # <<>> => queue.tail = Len(queue.list)
=============================================================================
