------------------------------- MODULE Queue --------------------------------
(***************************************************************************)
(* The circular buffer of Queue.h.  Cells are numbered from 0, head and    *)
(* tail are cells, and a cell without an element holds Empty.              *)
(***************************************************************************)
EXTENDS Integers, Sequences

CONSTANTS
  Empty,       \* what a cell holds that no element lives in
  MinGrowth    \* the least capacity to grow to (8 in the code)

ASSUME QueueAssumption == MinGrowth \in Nat \ {0}

NewQueue(capacity) ==
  [cell |-> [i \in 0..(capacity - 1) |-> Empty], capacity |-> capacity,
   head |-> 0, tail |-> 0, size |-> 0]

Larger(a, b) == IF a < b THEN b ELSE a

\* A pointer to the end of the buffer becomes one to its beginning.
Wrapped(q, p) == IF p = q.capacity THEN 0 ELSE p

\* first_range() and second_range(): the elements are in the cells [from, to) of the one,
\* followed by those of the other.
first_range(q) ==
  [from |-> q.head,
   to |-> IF q.size = 0 THEN q.head ELSE IF q.head < q.tail THEN q.tail ELSE q.capacity]

second_range(q) ==
  [from |-> 0, to |-> IF q.size = 0 \/ q.head < q.tail THEN 0 ELSE q.tail]

InRange(i, r) == r.from <= i /\ i < r.to

\* FAULT: the second range is not moved.
GrowFirst(q, newCapacity) ==
  LET capacity == Larger(Larger(newCapacity, MinGrowth), 2 * q.capacity)
      first == first_range(q)
      n1 == first.to - first.from
  IN [cell |-> [i \in 0..(capacity - 1) |->
                  IF i < n1 THEN q.cell[first.from + i] ELSE Empty],
      capacity |-> capacity, head |-> 0, tail |-> q.size, size |-> q.size]

grow(q, newCapacity) ==
  LET capacity == Larger(Larger(newCapacity, MinGrowth), 2 * q.capacity)
      first == first_range(q)
      second == second_range(q)
      n1 == first.to - first.from
      n2 == second.to - second.from
  IN [cell |-> [i \in 0..(capacity - 1) |->
                  IF i < n1 THEN q.cell[first.from + i]
                  ELSE IF i < n1 + n2 THEN q.cell[second.from + i - n1] ELSE Empty],
      capacity |-> capacity, head |-> 0, tail |-> n1 + n2, size |-> q.size]

front(q) == q.cell[q.head]

pop_front(q) ==
  [q EXCEPT !.cell = [@ EXCEPT ![q.head] = Empty], !.head = Wrapped(q, q.head + 1), !.size = @ - 1]

\* push_back() and emplace_back().
push_back(q, x) ==
  LET r == IF q.size = q.capacity THEN grow(q, 0) ELSE q
  IN [r EXCEPT !.cell = [@ EXCEPT ![r.tail] = x], !.tail = Wrapped(r, r.tail + 1), !.size = @ + 1]

\* for_each_item() with a function that replaces the elements in Old by x.
replace_items(q, Old, x) ==
  [q EXCEPT !.cell = [i \in DOMAIN q.cell |->
     IF (InRange(i, first_range(q)) \/ InRange(i, second_range(q))) /\ q.cell[i] \in Old
       THEN x ELSE q.cell[i]]]

\* append() of the elements of a sequence: in one piece if they fit before the end of the
\* buffer, in two otherwise.
append(q, xs) ==
  LET sz == Len(xs)
      r == IF q.size + sz > q.capacity THEN grow(q, q.size + sz) ELSE q
      n1 == IF r.tail + sz <= r.capacity THEN sz ELSE r.capacity - r.tail
      end == IF n1 = sz THEN r.tail + sz ELSE sz - n1
  IN [r EXCEPT !.cell = [i \in DOMAIN r.cell |->
                           IF r.tail <= i /\ i < r.tail + n1 THEN xs[i - r.tail + 1]
                           ELSE IF i < sz - n1 THEN xs[n1 + i + 1] ELSE r.cell[i]],
               !.tail = Wrapped(r, end), !.size = @ + sz]

\* pop_front_to(n, dst): what is left in the queue, and what was moved to dst.
pop_front_to(q, n) ==
  LET n1 == IF n < q.capacity - q.head THEN n ELSE q.capacity - q.head
      left == IF n - n1 < q.tail THEN n - n1 ELSE q.tail
      head == IF left > 0 THEN left ELSE Wrapped(q, q.head + n1)
  IN [queue |-> [q EXCEPT !.cell = [i \in DOMAIN q.cell |->
                              IF (q.head <= i /\ i < q.head + n1) \/ i < left
                                THEN Empty ELSE q.cell[i]],
                          !.head = head, !.size = @ - n1 - left],
      moved |-> [i \in 1..(n1 + left) |->
                   IF i <= n1 THEN q.cell[q.head + i - 1] ELSE q.cell[i - n1 - 1]]]

-----------------------------------------------------------------------------
(* What a queue stands for.                                                *)

\* The cell of the k-th element, counted from 0.
CellOf(q, k) == IF q.head + k < q.capacity THEN q.head + k ELSE q.head + k - q.capacity

Contents(q) == [k \in 1..q.size |-> q.cell[CellOf(q, k - 1)]]
=============================================================================
