----------------------------- MODULE QueueProofs ----------------------------
(***************************************************************************)
(* The circular buffer of Queue.h is a first-in-first-out queue, whatever  *)
(* its capacity and wherever in the buffer its elements are: every method  *)
(* does to the sequence of the elements what its name says, and constructs *)
(* and destroys elements in the cells where it should.                     *)
(***************************************************************************)
EXTENDS Queue, TLAPS

\* The cell k places behind cell h in a buffer of c cells, and the place of cell i.
Behind(c, h, k) == IF h + k < c THEN h + k ELSE h + k - c
Place(c, h, i) == IF h <= i THEN i - h ELSE i - h + c

Fields == {"cell", "capacity", "head", "tail", "size"}

\* The queue q holds the elements of the sequence s: head_ points into the buffer and tail_
\* size_ places behind it, the k-th element lives k places behind head_, and in the other
\* cells there is none.
Holds(q, s) ==
  /\ DOMAIN q = Fields
  /\ q.capacity \in Nat /\ q.head \in Nat /\ (q.head < q.capacity \/ q.head = 0)
  /\ q.size = Len(s) /\ Len(s) <= q.capacity
  /\ q.tail = Behind(q.capacity, q.head, q.size)
  /\ q.cell = [i \in 0..(q.capacity - 1) |->
                 IF Place(q.capacity, q.head, i) < Len(s)
                   THEN s[Place(q.capacity, q.head, i) + 1] ELSE Empty]

-----------------------------------------------------------------------------

\* Inside the buffer Behind and Place are inverse to each other.
Inverses(c, h) ==
  /\ \A k \in 0..c : Behind(c, h, k) \in Nat
  /\ \A k \in 0..(c - 1) : Behind(c, h, k) \in 0..(c - 1) /\ Place(c, h, Behind(c, h, k)) = k
  /\ \A i \in 0..(c - 1) : Place(c, h, i) \in 0..(c - 1) /\ Behind(c, h, Place(c, h, i)) = i

LEMMA Places ==
  ASSUME NEW c \in Nat, NEW h \in Nat, h < c \/ h = 0
  PROVE  Inverses(c, h)
BY DEF Inverses, Behind, Place

LEMMA NextCell ==
  ASSUME NEW c \in Nat, NEW h \in Nat, h < c, NEW n \in Nat, n < c
  PROVE  Behind(c, h, n + 1) = IF Behind(c, h, n) + 1 = c THEN 0 ELSE Behind(c, h, n) + 1
BY DEF Behind

\* When the head moves m cells on, from h to g.
Moved(c, h, m, g) ==
  /\ g \in Nat /\ (g < c \/ g = 0)
  /\ \A k \in 0..(c - m) : Behind(c, g, k) = Behind(c, h, m + k)
  /\ \A i \in 0..(c - 1) :
       Place(c, g, i) = IF m <= Place(c, h, i) THEN Place(c, h, i) - m
                        ELSE Place(c, h, i) - m + c

LEMMA HeadMoves ==
  ASSUME NEW c \in Nat, NEW h \in Nat, h < c \/ h = 0, NEW m \in 0..c,
         NEW g, g = Behind(c, h, m)
  PROVE  Moved(c, h, m, g)
BY DEF Moved, Behind, Place

\* To see what a queue holds, look into its cells one by one.
Cellwise(q, s) ==
  \A i \in 0..(q.capacity - 1) :
    q.cell[i] = IF Place(q.capacity, q.head, i) < Len(s)
                  THEN s[Place(q.capacity, q.head, i) + 1] ELSE Empty

LEMMA HoldsCellwise ==
  ASSUME NEW q, NEW s, DOMAIN q = Fields, q.capacity \in Nat, q.head \in Nat,
         q.head < q.capacity \/ q.head = 0, q.size = Len(s), Len(s) <= q.capacity,
         q.tail = Behind(q.capacity, q.head, q.size),
         q.cell = [i \in 0..(q.capacity - 1) |-> q.cell[i]],
         Cellwise(q, s)
  PROVE  Holds(q, s)
BY Zenon DEF Holds, Cellwise

\* Contents, with which the properties of Executor are stated, is what the queue holds.
THEOREM QueueContents ==
  ASSUME NEW V, NEW s \in Seq(V), NEW q, Holds(q, s)
  PROVE  Contents(q) = s
<1>1. /\ q.capacity \in Nat /\ q.head \in Nat /\ (q.head < q.capacity \/ q.head = 0)
      /\ q.size = Len(s) /\ Len(s) <= q.capacity
  BY DEF Holds
<1>2. ASSUME NEW k \in 1..Len(s)
      PROVE  q.cell[CellOf(q, k - 1)] = s[k]
  <2>1. CellOf(q, k - 1) = Behind(q.capacity, q.head, k - 1)
    BY DEF CellOf, Behind
  <2>2. k - 1 \in 0..(q.capacity - 1)
    BY <1>1
  <2>3. /\ Behind(q.capacity, q.head, k - 1) \in 0..(q.capacity - 1)
        /\ Place(q.capacity, q.head, Behind(q.capacity, q.head, k - 1)) = k - 1
    BY Zenon, <1>1, <2>2, Places DEF Inverses
  <2>4. QED
    BY <2>1, <2>3 DEF Holds
<1>3. Contents(q) = [k \in 1..Len(s) |-> s[k]]
  BY <1>1, <1>2 DEF Contents
<1>4. QED
  BY <1>3

\* Queue(capacity) makes an empty queue.
THEOREM QueueStartsEmpty ==
  ASSUME NEW c \in Nat
  PROVE  Holds(NewQueue(c), <<>>)
<1>1. \A i \in 0..(c - 1) : ~(Place(c, 0, i) < 0)
  BY DEF Place
<1>2. Behind(c, 0, 0) = 0
  BY DEF Behind
<1>3. QED
  BY <1>1, <1>2 DEF Holds, NewQueue, Fields

-----------------------------------------------------------------------------

\* pop_front() removes the element that front() returns, the first one, and destroys it.
THEOREM QueuePops ==
  ASSUME NEW V, NEW s \in Seq(V), s # <<>>, NEW q, Holds(q, s)
  PROVE  front(q) = Head(s) /\ Holds(pop_front(q), Tail(s))
<1> DEFINE r == pop_front(q)
           c == q.capacity
           h == q.head
<1>1. /\ DOMAIN q = Fields
      /\ c \in Nat /\ h \in Nat /\ h < c
      /\ q.size = Len(s) /\ Len(s) <= c /\ Len(s) \in Nat /\ Len(s) > 0
      /\ q.tail = Behind(c, h, Len(s))
  BY DEF Holds
<1>2. /\ DOMAIN q.cell = 0..(c - 1)
      /\ \A i \in 0..(c - 1) :
           q.cell[i] = IF Place(c, h, i) < Len(s) THEN s[Place(c, h, i) + 1] ELSE Empty
  BY Zenon DEF Holds
<1>3. /\ DOMAIN r = Fields
      /\ r.cell = [q.cell EXCEPT ![h] = Empty]
      /\ r.capacity = c
      /\ r.head = IF h + 1 = c THEN 0 ELSE h + 1
      /\ r.tail = q.tail
      /\ r.size = q.size - 1
  BY <1>1 DEF pop_front, Wrapped, Fields
<1> HIDE DEF r
<1>4. r.head = Behind(c, h, 1)
  BY <1>1, <1>3 DEF Behind
<1>5. Moved(c, h, 1, r.head)
  <2>1. 1 \in 0..c
    BY <1>1
  <2>2. QED
    BY <1>1, <1>4, <2>1, HeadMoves
<1>6. Len(Tail(s)) = Len(s) - 1 /\ \A k \in 1..(Len(s) - 1) : Tail(s)[k] = s[k + 1]
  BY <1>1
<1>7. r.tail = Behind(c, r.head, r.size)
  BY <1>1, <1>3, <1>5 DEF Moved
<1>8. Place(c, h, h) = 0 /\ \A i \in 0..(c - 1) : i # h => Place(c, h, i) \in 1..(c - 1)
  BY <1>1 DEF Place
<1>9. ASSUME NEW i \in 0..(c - 1)
      PROVE  r.cell[i] = IF Place(c, r.head, i) < Len(Tail(s))
                           THEN Tail(s)[Place(c, r.head, i) + 1] ELSE Empty
  <2>1. CASE i = h
    BY <1>1, <1>2, <1>3, <1>5, <1>6, <1>8, <2>1 DEF Moved
  <2>2. CASE i # h
    <3>1. /\ r.cell[i] = q.cell[i] /\ Place(c, h, i) \in 1..(c - 1)
          /\ Place(c, r.head, i) = Place(c, h, i) - 1
      BY <1>1, <1>2, <1>3, <1>5, <1>8, <2>2 DEF Moved
    <3>2. CASE Place(c, h, i) < Len(s)
      <4>1. Place(c, r.head, i) < Len(s) - 1 /\ Place(c, h, i) \in 1..(Len(s) - 1)
        BY <1>1, <3>1, <3>2
      <4>2. q.cell[i] = s[Place(c, h, i) + 1] /\ Place(c, r.head, i) + 1 = Place(c, h, i)
        BY <1>2, <3>1, <3>2
      <4>3. QED
        BY <1>6, <3>1, <4>1, <4>2
    <3>3. CASE ~(Place(c, h, i) < Len(s))
      <4>1. ~(Place(c, r.head, i) < Len(s) - 1) /\ q.cell[i] = Empty
        BY <1>1, <1>2, <3>1, <3>3
      <4>2. QED
        BY <1>6, <3>1, <4>1
    <3>4. QED
      BY Zenon, <3>2, <3>3
  <2>3. QED
    BY Zenon, <2>1, <2>2
<1>10. Holds(r, Tail(s))
  <2>1. r.cell = [i \in 0..(c - 1) |-> r.cell[i]]
    BY Zenon, <1>2, <1>3
  <2>2. Len(Tail(s)) <= c /\ r.size = Len(Tail(s))
    BY <1>1, <1>3, <1>6
  <2>3. Cellwise(r, Tail(s))
    BY Zenon, <1>3, <1>9 DEF Cellwise
  <2>4. r.head \in Nat /\ (r.head < c \/ r.head = 0)
    BY <1>5 DEF Moved
  <2>5. QED
    BY <1>1, <1>3, <1>7, <2>1, <2>2, <2>3, <2>4, HoldsCellwise
<1>11. front(q) = Head(s)
  BY <1>1, <1>2, <1>8 DEF front
<1>12. QED
  BY <1>10, <1>11 DEF r

-----------------------------------------------------------------------------

\* The ends of the two ranges of n elements from cell h on.
EndsOf(c, h, n, tail, to1, to2) ==
  /\ c \in Nat /\ h \in Nat /\ (h < c \/ h = 0) /\ n \in Nat /\ n <= c
  /\ tail = Behind(c, h, n)
  /\ to1 = IF n = 0 THEN h ELSE IF h < tail THEN tail ELSE c
  /\ to2 = IF n = 0 \/ h < tail THEN 0 ELSE tail

LEMMA RangeEnds ==
  ASSUME NEW c, NEW h, NEW n, NEW tail, NEW to1, NEW to2, EndsOf(c, h, n, tail, to1, to2)
  PROVE  to1 \in h..c /\ to2 \in 0..c /\ to1 - h + to2 = n /\ (to2 > 0 => to1 = c)
BY DEF EndsOf, Behind

\* The cells of the two ranges are those whose place is below the number of elements.
LEMMA CellsInRanges ==
  ASSUME NEW c, NEW h, NEW n, NEW tail, NEW to1, NEW to2, EndsOf(c, h, n, tail, to1, to2),
         NEW i \in 0..(c - 1)
  PROVE  (h <= i /\ i < to1) \/ (0 <= i /\ i < to2) <=> Place(c, h, i) < n
BY DEF EndsOf, Behind, Place

\* The first range is followed by the second, and together they are the elements.
LEMMA Ranges ==
  ASSUME NEW V, NEW s \in Seq(V), NEW q, Holds(q, s)
  PROVE  /\ first_range(q).from = q.head /\ second_range(q).from = 0
         /\ EndsOf(q.capacity, q.head, Len(s), q.tail, first_range(q).to, second_range(q).to)
<1>1. /\ q.capacity \in Nat /\ q.head \in Nat /\ (q.head < q.capacity \/ q.head = 0)
      /\ Len(s) \in Nat /\ Len(s) <= q.capacity /\ q.size = Len(s)
      /\ q.tail = Behind(q.capacity, q.head, Len(s))
  BY DEF Holds
<1>2. first_range(q).from = q.head /\ second_range(q).from = 0
  BY DEF first_range, second_range
<1>3. first_range(q).to = IF Len(s) = 0 THEN q.head
                          ELSE IF q.head < q.tail THEN q.tail ELSE q.capacity
  BY <1>1 DEF first_range
<1>4. second_range(q).to = IF Len(s) = 0 \/ q.head < q.tail THEN 0 ELSE q.tail
  BY <1>1 DEF second_range
<1>5. QED
  BY Zenon, <1>1, <1>2, <1>3, <1>4 DEF EndsOf

\* grow() moves the elements to a larger buffer, in their order, and leaves room for one
\* more at least.
THEOREM QueueGrows ==
  ASSUME NEW V, NEW s \in Seq(V), NEW q, Holds(q, s), NEW m \in Nat
  PROVE  /\ Holds(grow(q, m), s)
         /\ grow(q, m).capacity >= m /\ grow(q, m).capacity > Len(s)
<1> DEFINE r == grow(q, m)
           c == q.capacity
           h == q.head
           n == Len(s)
           n1 == first_range(q).to - h
           n2 == second_range(q).to
           d == Larger(Larger(m, MinGrowth), 2 * c)
<1>1. c \in Nat /\ h \in Nat /\ (h < c \/ h = 0) /\ n \in Nat /\ n <= c /\ q.size = n
  BY DEF Holds
<1>a. \A i \in 0..(c - 1) :
        q.cell[i] = IF Place(c, h, i) < n THEN s[Place(c, h, i) + 1] ELSE Empty
  BY DEF Holds
<1>2. d \in Nat /\ d >= m /\ d > n
  BY <1>1, QueueAssumption DEF Larger
<1>3. /\ first_range(q).from = h /\ second_range(q).from = 0
      /\ n1 \in Nat /\ n2 \in Nat /\ h + n1 <= c /\ n2 <= c /\ n1 + n2 = n
      /\ n2 > 0 => h + n1 = c
  <2>1. /\ first_range(q).from = h /\ second_range(q).from = 0
        /\ EndsOf(c, h, n, q.tail, first_range(q).to, second_range(q).to)
    BY Zenon, Ranges
  <2>2. /\ first_range(q).to \in h..c /\ second_range(q).to \in 0..c
        /\ first_range(q).to - h + second_range(q).to = n
        /\ second_range(q).to > 0 => first_range(q).to = c
    BY <2>1, RangeEnds
  <2>3. QED
    BY <1>1, <2>1, <2>2
<1> HIDE DEF d, n1, n2
<1>4. /\ DOMAIN r = Fields
      /\ r.cell = [i \in 0..(d - 1) |->
                     IF i < n1 THEN q.cell[h + i]
                     ELSE IF i < n1 + n2 THEN q.cell[0 + i - n1] ELSE Empty]
      /\ r.capacity = d /\ r.head = 0 /\ r.tail = n1 + n2 /\ r.size = n
  BY <1>1, <1>3 DEF grow, Fields, d, n1, n2
<1> HIDE DEF r
<1>5. ASSUME NEW i \in 0..(d - 1)
      PROVE  r.cell[i] = IF i < n THEN s[i + 1] ELSE Empty
  <2>1. CASE i < n1
    <3>0. /\ c \in Nat /\ h \in Nat /\ i \in Nat /\ n1 \in Nat /\ n2 \in Nat
          /\ h + n1 <= c /\ n1 + n2 = n /\ i < n1
      BY <1>1, <1>2, <1>3, <2>1
    <3>1. h + i \in 0..(c - 1) /\ h <= h + i /\ (h + i) - h = i /\ i < n
      BY <3>0
    <3>a. Place(c, h, h + i) = i
      BY <3>1 DEF Place
    <3>2. QED
      BY <1>a, <1>4, <2>1, <3>1, <3>a
  <2>2. CASE ~(i < n1) /\ i < n
    <3>1. 0 + i - n1 \in 0..(c - 1) /\ Place(c, h, 0 + i - n1) = i
      BY <1>1, <1>3, <2>2 DEF Place
    <3>2. QED
      BY <1>a, <1>3, <1>4, <2>2, <3>1
  <2>3. CASE ~(i < n)
    BY <1>1, <1>3, <1>4, <2>3
  <2>4. QED
    BY <1>1, <1>3, <2>1, <2>2, <2>3
<1>6. \A i \in 0..(d - 1) : Place(d, 0, i) = i
  BY <1>2 DEF Place
<1>7. r.tail = Behind(d, 0, n)
  BY <1>1, <1>2, <1>3, <1>4 DEF Behind
<1>8. Cellwise(r, s)
  BY <1>4, <1>5, <1>6 DEF Cellwise
<1>9. /\ r.capacity \in Nat /\ r.head \in Nat /\ r.head < r.capacity
      /\ r.size = Len(s) /\ Len(s) <= r.capacity
      /\ r.tail = Behind(r.capacity, r.head, r.size)
      /\ r.cell = [i \in 0..(r.capacity - 1) |-> r.cell[i]]
  BY <1>1, <1>2, <1>4, <1>7
<1>10. Holds(r, s)
  BY Zenon, <1>4, <1>8, <1>9, HoldsCellwise
<1>11. QED
  BY <1>2, <1>4, <1>10 DEF r

-----------------------------------------------------------------------------

\* push_back() when there is room.
LEMMA PushWithRoom ==
  ASSUME NEW V, NEW s \in Seq(V), NEW x \in V, NEW q, Holds(q, s), Len(s) < q.capacity
  PROVE  Holds([q EXCEPT !.cell = [@ EXCEPT ![q.tail] = x],
                         !.tail = Wrapped(q, q.tail + 1), !.size = @ + 1], Append(s, x))
<1> DEFINE r == [q EXCEPT !.cell = [@ EXCEPT ![q.tail] = x],
                          !.tail = Wrapped(q, q.tail + 1), !.size = @ + 1]
           c == q.capacity
           h == q.head
           n == Len(s)
<1>1. /\ DOMAIN q = Fields
      /\ c \in Nat /\ h \in Nat /\ h < c /\ n \in Nat /\ n < c /\ q.size = n
      /\ q.tail = Behind(c, h, n)
  BY DEF Holds
<1>2. /\ DOMAIN q.cell = 0..(c - 1)
      /\ \A i \in 0..(c - 1) :
           q.cell[i] = IF Place(c, h, i) < n THEN s[Place(c, h, i) + 1] ELSE Empty
  BY Zenon DEF Holds
<1>3. /\ DOMAIN r = Fields
      /\ r.cell = [q.cell EXCEPT ![q.tail] = x]
      /\ r.capacity = c /\ r.head = h /\ r.size = n + 1
      /\ r.tail = IF q.tail + 1 = c THEN 0 ELSE q.tail + 1
  BY <1>1 DEF Wrapped, Fields
<1> HIDE DEF r
<1>4. Behind(c, h, n + 1) = IF Behind(c, h, n) + 1 = c THEN 0 ELSE Behind(c, h, n) + 1
  BY <1>1, NextCell
<1>5. /\ q.tail \in 0..(c - 1) /\ Place(c, h, q.tail) = n
      /\ \A i \in 0..(c - 1) : Place(c, h, i) \in Nat /\ (i # q.tail => Place(c, h, i) # n)
  <2>1. n \in 0..(c - 1)
    BY <1>1
  <2>2. Inverses(c, h)
    BY <1>1, Places
  <2>3. QED
    BY <1>1, <2>1, <2>2 DEF Inverses
<1>6. /\ Len(Append(s, x)) = n + 1 /\ Append(s, x)[n + 1] = x
      /\ \A k \in 1..n : Append(s, x)[k] = s[k]
  BY <1>1
<1>7. Cellwise(r, Append(s, x))
  <2>1. ASSUME NEW i \in 0..(c - 1)
        PROVE  r.cell[i] = IF Place(c, h, i) < n + 1 THEN Append(s, x)[Place(c, h, i) + 1] ELSE Empty
    <3>1. CASE i = q.tail
      BY <1>1, <1>2, <1>3, <1>5, <1>6, <3>1
    <3>2. CASE i # q.tail
      <4>1. r.cell[i] = q.cell[i] /\ Place(c, h, i) \in Nat /\ Place(c, h, i) # n
        BY <1>2, <1>3, <1>5, <3>2
      <4>2. CASE Place(c, h, i) < n
        <5>1. Place(c, h, i) + 1 \in 1..n /\ Place(c, h, i) < n + 1
          BY <1>1, <4>1, <4>2
        <5>2. QED
          BY <1>2, <1>6, <4>1, <4>2, <5>1
      <4>3. CASE ~(Place(c, h, i) < n)
        <5>1. ~(Place(c, h, i) < n + 1)
          BY <1>1, <4>1, <4>3
        <5>2. QED
          BY <1>2, <4>1, <4>3, <5>1
      <4>4. QED
        BY Zenon, <4>2, <4>3
    <3>3. QED
      BY Zenon, <3>1, <3>2
  <2>2. QED
    BY Zenon, <1>3, <1>6, <2>1 DEF Cellwise
<1>8. /\ r.capacity \in Nat /\ r.head \in Nat /\ r.head < r.capacity
      /\ r.size = Len(Append(s, x)) /\ Len(Append(s, x)) <= r.capacity
      /\ r.tail = Behind(r.capacity, r.head, r.size)
      /\ r.cell = [i \in 0..(r.capacity - 1) |-> r.cell[i]]
  BY <1>1, <1>2, <1>3, <1>4, <1>6
<1>9. Holds(r, Append(s, x))
  BY Zenon, <1>3, <1>7, <1>8, HoldsCellwise
<1>10. QED
  BY <1>9 DEF r

\* push_back() adds an element behind the last one, whether the buffer grows for it or not.
THEOREM QueuePushes ==
  ASSUME NEW V, NEW s \in Seq(V), NEW x \in V, NEW q, Holds(q, s)
  PROVE  Holds(push_back(q, x), Append(s, x))
<1> DEFINE r == IF q.size = q.capacity THEN grow(q, 0) ELSE q
<1>1. q.size = Len(s) /\ Len(s) <= q.capacity /\ q.capacity \in Nat /\ Len(s) \in Nat
  BY DEF Holds
<1>2. Holds(r, s) /\ Len(s) < r.capacity
  <2>1. CASE q.size = q.capacity
    <3>1. Holds(grow(q, 0), s) /\ grow(q, 0).capacity > Len(s)
      BY QueueGrows
    <3>2. Holds(grow(q, 0), s) /\ Len(s) < grow(q, 0).capacity
      BY <1>1, <3>1 DEF Holds
    <3>3. QED
      BY <2>1, <3>2
  <2>2. CASE q.size # q.capacity
    BY <1>1, <2>2
  <2>3. QED
    BY <2>1, <2>2
<1> HIDE DEF r
<1>3. Holds([r EXCEPT !.cell = [@ EXCEPT ![r.tail] = x],
                      !.tail = Wrapped(r, r.tail + 1), !.size = @ + 1], Append(s, x))
  BY Zenon, <1>2, PushWithRoom
<1>4. QED
  BY <1>3 DEF push_back, r

\* for_each_item() visits the elements and nothing else: replace_items() replaces those in
\* Old by x.
THEOREM QueueReplaces ==
  ASSUME NEW V, NEW s \in Seq(V), NEW Old, NEW x, NEW q, Holds(q, s)
  PROVE  Holds(replace_items(q, Old, x), [k \in 1..Len(s) |-> IF s[k] \in Old THEN x ELSE s[k]])
<1> DEFINE r == replace_items(q, Old, x)
           c == q.capacity
           h == q.head
           n == Len(s)
           t == [k \in 1..n |-> IF s[k] \in Old THEN x ELSE s[k]]
<1>1. /\ DOMAIN q = Fields
      /\ c \in Nat /\ h \in Nat /\ (h < c \/ h = 0) /\ n \in Nat /\ n <= c /\ q.size = n
      /\ q.tail = Behind(c, h, n)
  BY DEF Holds
<1>2. /\ DOMAIN q.cell = 0..(c - 1)
      /\ \A i \in 0..(c - 1) :
           q.cell[i] = IF Place(c, h, i) < n THEN s[Place(c, h, i) + 1] ELSE Empty
  BY Zenon DEF Holds
<1>3. ASSUME NEW i \in 0..(c - 1)
      PROVE  InRange(i, first_range(q)) \/ InRange(i, second_range(q)) <=> Place(c, h, i) < n
  <2>1. /\ first_range(q).from = h /\ second_range(q).from = 0
        /\ EndsOf(c, h, n, q.tail, first_range(q).to, second_range(q).to)
    BY Zenon, Ranges
  <2>2. (h <= i /\ i < first_range(q).to) \/ (0 <= i /\ i < second_range(q).to)
          <=> Place(c, h, i) < n
    BY <2>1, CellsInRanges
  <2>3. QED
    BY <2>1, <2>2 DEF InRange
<1>4. /\ DOMAIN r = Fields
      /\ r.cell = [i \in 0..(c - 1) |->
                     IF (InRange(i, first_range(q)) \/ InRange(i, second_range(q)))
                          /\ q.cell[i] \in Old THEN x ELSE q.cell[i]]
      /\ r.capacity = c /\ r.head = h /\ r.size = n /\ r.tail = q.tail
  BY <1>1, <1>2 DEF replace_items, Fields
<1>5. Len(t) = n /\ \A k \in 1..n : t[k] = IF s[k] \in Old THEN x ELSE s[k]
  BY <1>1
<1> HIDE DEF r, t
<1>6. \A i \in 0..(c - 1) : Place(c, h, i) \in Nat
  BY <1>1 DEF Place
<1>7. ASSUME NEW i \in 0..(c - 1)
      PROVE  r.cell[i] = IF Place(c, h, i) < n THEN t[Place(c, h, i) + 1] ELSE Empty
  <2>1. r.cell[i] = IF Place(c, h, i) < n /\ q.cell[i] \in Old THEN x ELSE q.cell[i]
    BY <1>3, <1>4
  <2>2. CASE Place(c, h, i) < n
    <3>1. q.cell[i] = s[Place(c, h, i) + 1] /\ Place(c, h, i) + 1 \in 1..n
      BY <1>1, <1>2, <1>6, <2>2
    <3>2. QED
      BY <1>5, <2>1, <2>2, <3>1
  <2>3. CASE ~(Place(c, h, i) < n)
    BY <1>2, <2>1, <2>3
  <2>4. QED
    BY <2>2, <2>3
<1>8. Cellwise(r, t)
  BY Zenon, <1>4, <1>5, <1>7 DEF Cellwise
<1>9. /\ r.capacity \in Nat /\ r.head \in Nat /\ (r.head < r.capacity \/ r.head = 0)
      /\ r.size = Len(t) /\ Len(t) <= r.capacity
      /\ r.tail = Behind(r.capacity, r.head, r.size)
      /\ r.cell = [i \in 0..(r.capacity - 1) |-> r.cell[i]]
  BY <1>1, <1>4, <1>5
<1>10. Holds(r, t)
  BY Zenon, <1>4, <1>8, <1>9, HoldsCellwise
<1>11. QED
  BY <1>10 DEF r, t

-----------------------------------------------------------------------------

\* Where append() puts sz elements behind the n that are there: n1 of them from cell t on,
\* and the others at the beginning of the buffer.
Appended(c, h, n, sz, t, n1) ==
  /\ n1 \in Nat /\ n1 <= sz
  /\ LET end == IF n1 = sz THEN t + sz ELSE sz - n1
     IN Behind(c, h, n + sz) = IF end = c THEN 0 ELSE end
  /\ \A i \in 0..(c - 1) :
       /\ t <= i /\ i < t + n1 =>
            /\ i - t + 1 \in 1..sz
            /\ Place(c, h, i) < n + sz /\ Place(c, h, i) + 1 = n + (i - t + 1)
       /\ ~(t <= i /\ i < t + n1) /\ i < sz - n1 =>
            /\ n1 + i + 1 \in 1..sz
            /\ Place(c, h, i) < n + sz /\ Place(c, h, i) + 1 = n + (n1 + i + 1)
       /\ ~(t <= i /\ i < t + n1) /\ ~(i < sz - n1)
            => Place(c, h, i) < n \/ n + sz <= Place(c, h, i)

LEMMA AppendPlaces ==
  ASSUME NEW c \in Nat, NEW h \in Nat, h < c \/ h = 0, NEW n \in Nat, NEW sz \in Nat,
         n + sz <= c, NEW t \in Nat, t = Behind(c, h, n),
         NEW n1, n1 = IF t + sz <= c THEN sz ELSE c - t
  PROVE  Appended(c, h, n, sz, t, n1)
<1>1. CASE h + n < c
  BY <1>1 DEF Appended, Behind, Place
<1>2. CASE ~(h + n < c)
  BY <1>2 DEF Appended, Behind, Place
<1>3. QED
  BY <1>1, <1>2

\* append() when there is room; t stands for the tail and n1 for the size of the first piece.
AppendHere(q, xs, n1) ==
  LET sz == Len(xs)
      end == IF n1 = sz THEN q.tail + sz ELSE sz - n1
  IN [q EXCEPT !.cell = [i \in DOMAIN q.cell |->
                           IF q.tail <= i /\ i < q.tail + n1 THEN xs[i - q.tail + 1]
                           ELSE IF i < sz - n1 THEN xs[n1 + i + 1] ELSE q.cell[i]],
               !.tail = Wrapped(q, end), !.size = @ + sz]

LEMMA AppendWithRoom ==
  ASSUME NEW V, NEW s \in Seq(V), NEW xs \in Seq(V), NEW q, Holds(q, s),
         Len(s) + Len(xs) <= q.capacity,
         NEW n1, n1 = IF q.tail + Len(xs) <= q.capacity THEN Len(xs) ELSE q.capacity - q.tail
  PROVE  Holds(AppendHere(q, xs, n1), s \o xs)
<1> DEFINE r == AppendHere(q, xs, n1)
           c == q.capacity
           h == q.head
           t == q.tail
           n == Len(s)
           sz == Len(xs)
           end == IF n1 = sz THEN t + sz ELSE sz - n1
<1>1. /\ DOMAIN q = Fields
      /\ c \in Nat /\ h \in Nat /\ (h < c \/ h = 0) /\ n \in Nat /\ sz \in Nat /\ n + sz <= c
      /\ q.size = n /\ t = Behind(c, h, n)
  BY DEF Holds
<1>2. /\ DOMAIN q.cell = 0..(c - 1)
      /\ \A i \in 0..(c - 1) :
           q.cell[i] = IF Place(c, h, i) < n THEN s[Place(c, h, i) + 1] ELSE Empty
  BY Zenon DEF Holds
<1>3. t \in Nat
  <2>1. Inverses(c, h) /\ n \in 0..c
    BY <1>1, Places
  <2>2. QED
    BY <1>1, <2>1 DEF Inverses
<1>4. Appended(c, h, n, sz, t, n1)
  BY Zenon, <1>1, <1>3, AppendPlaces
<1>5. /\ DOMAIN r = Fields
      /\ r.cell = [i \in 0..(c - 1) |->
                     IF t <= i /\ i < t + n1 THEN xs[i - t + 1]
                     ELSE IF i < sz - n1 THEN xs[n1 + i + 1] ELSE q.cell[i]]
      /\ r.capacity = c /\ r.head = h /\ r.size = n + sz
      /\ r.tail = IF end = c THEN 0 ELSE end
  BY <1>1, <1>2 DEF AppendHere, Wrapped, Fields
<1> HIDE DEF r
<1>6. /\ Len(s \o xs) = n + sz
      /\ \A k \in 1..n : (s \o xs)[k] = s[k]
      /\ \A k \in 1..sz : (s \o xs)[n + k] = xs[k]
  BY <1>1
<1>7. \A i \in 0..(c - 1) : Place(c, h, i) \in Nat
  BY <1>1 DEF Place
<1>8. ASSUME NEW i \in 0..(c - 1)
      PROVE  r.cell[i] = IF Place(c, h, i) < n + sz THEN (s \o xs)[Place(c, h, i) + 1] ELSE Empty
  <2>1. CASE t <= i /\ i < t + n1
    <3>1. /\ i - t + 1 \in 1..sz
          /\ Place(c, h, i) < n + sz /\ Place(c, h, i) + 1 = n + (i - t + 1)
      BY <1>4, <2>1 DEF Appended
    <3>2. QED
      BY <1>5, <1>6, <2>1, <3>1
  <2>2. CASE ~(t <= i /\ i < t + n1) /\ i < sz - n1
    <3>1. /\ n1 + i + 1 \in 1..sz
          /\ Place(c, h, i) < n + sz /\ Place(c, h, i) + 1 = n + (n1 + i + 1)
      BY <1>4, <2>2 DEF Appended
    <3>2. QED
      BY <1>5, <1>6, <2>2, <3>1
  <2>3. CASE ~(t <= i /\ i < t + n1) /\ ~(i < sz - n1)
    <3>1. r.cell[i] = q.cell[i] /\ (Place(c, h, i) < n \/ n + sz <= Place(c, h, i))
      BY <1>4, <1>5, <2>3 DEF Appended
    <3>2. QED
      BY <1>1, <1>2, <1>6, <1>7, <3>1
  <2>4. QED
    BY Zenon, <2>1, <2>2, <2>3
<1>9. Cellwise(r, s \o xs)
  BY Zenon, <1>5, <1>6, <1>8 DEF Cellwise
<1>10. /\ r.capacity \in Nat /\ r.head \in Nat /\ (r.head < r.capacity \/ r.head = 0)
       /\ r.size = Len(s \o xs) /\ Len(s \o xs) <= r.capacity
       /\ r.cell = [i \in 0..(r.capacity - 1) |-> r.cell[i]]
  BY <1>1, <1>5, <1>6
<1>11. r.tail = Behind(r.capacity, r.head, r.size)
  BY <1>4, <1>5 DEF Appended
<1>12. Holds(r, s \o xs)
  BY Zenon, <1>5, <1>9, <1>10, <1>11, HoldsCellwise
<1>13. QED
  BY <1>12 DEF r

\* append() adds the elements of a sequence behind those that are there, whether the buffer
\* grows for them or not, and whether or not they go round its end.
THEOREM QueueAppends ==
  ASSUME NEW V, NEW s \in Seq(V), NEW xs \in Seq(V), NEW q, Holds(q, s)
  PROVE  Holds(append(q, xs), s \o xs)
<1> DEFINE sz == Len(xs)
           r == IF q.size + sz > q.capacity THEN grow(q, q.size + sz) ELSE q
           n1 == IF r.tail + sz <= r.capacity THEN sz ELSE r.capacity - r.tail
<1>1. q.size = Len(s) /\ q.capacity \in Nat /\ Len(s) \in Nat /\ sz \in Nat
  BY DEF Holds
<1>2. Holds(r, s) /\ Len(s) + sz <= r.capacity
  <2>1. CASE q.size + sz > q.capacity
    <3>1. q.size + sz \in Nat
      BY <1>1
    <3>2. /\ Holds(grow(q, q.size + sz), s)
          /\ grow(q, q.size + sz).capacity >= q.size + sz
      BY Zenon, <3>1, QueueGrows
    <3>3. Len(s) + sz <= grow(q, q.size + sz).capacity
      BY <1>1, <3>2 DEF Holds
    <3>4. QED
      BY <2>1, <3>2, <3>3
  <2>2. CASE ~(q.size + sz > q.capacity)
    BY <1>1, <2>2
  <2>3. QED
    BY <2>1, <2>2
<1> HIDE DEF r
<1>3. Holds(AppendHere(r, xs, n1), s \o xs)
  BY <1>2, AppendWithRoom
<1>4. append(q, xs) = AppendHere(r, xs, n1)
  BY DEF append, AppendHere, r
<1>5. QED
  BY <1>3, <1>4

-----------------------------------------------------------------------------

\* Where pop_front_to() finds the first m of n elements: n1 of them from cell h on, and
\* left of them at the beginning of the buffer.  The head moves to g.
Removed(c, h, m, n1, left, g) ==
  /\ n1 \in Nat /\ left \in Nat /\ n1 + left = m
  /\ g = Behind(c, h, m)
  /\ \A i \in 0..(c - 1) :
       ((h <= i /\ i < h + n1) \/ i < left) <=> Place(c, h, i) < m
  /\ \A k \in 1..m :
       /\ k <= n1 => h + k - 1 \in 0..(c - 1) /\ Place(c, h, h + k - 1) + 1 = k
       /\ ~(k <= n1) => k - n1 - 1 \in 0..(c - 1) /\ Place(c, h, k - n1 - 1) + 1 = k

LEMMA RemovedPlaces ==
  ASSUME NEW c \in Nat, NEW h \in Nat, h < c \/ h = 0, NEW n \in Nat, n <= c,
         NEW m \in Nat, m <= n, NEW t, t = Behind(c, h, n),
         NEW n1, n1 = IF m < c - h THEN m ELSE c - h,
         NEW left, left = IF m - n1 < t THEN m - n1 ELSE t,
         NEW g, g = IF left > 0 THEN left ELSE IF h + n1 = c THEN 0 ELSE h + n1
  PROVE  Removed(c, h, m, n1, left, g)
<1>1. CASE m < c - h
  BY <1>1 DEF Removed, Behind, Place
<1>2. CASE ~(m < c - h)
  <2>1. n1 = c - h /\ left = m - n1
    BY <1>2 DEF Behind
  <2>2. QED
    BY <1>2, <2>1 DEF Removed, Behind, Place
<1>3. QED
  BY <1>1, <1>2

\* pop_front_to() moves the first m elements out, in their order, whether or not they go
\* round the end of the buffer, and leaves the others.
THEOREM QueuePopsTo ==
  ASSUME NEW V, NEW s \in Seq(V), NEW q, Holds(q, s), NEW m \in Nat, m <= Len(s)
  PROVE  /\ pop_front_to(q, m).moved = SubSeq(s, 1, m)
         /\ Holds(pop_front_to(q, m).queue, SubSeq(s, m + 1, Len(s)))
<1> DEFINE p == pop_front_to(q, m)
           r == p.queue
           c == q.capacity
           h == q.head
           n == Len(s)
           n1 == IF m < c - h THEN m ELSE c - h
           left == IF m - n1 < q.tail THEN m - n1 ELSE q.tail
           g == IF left > 0 THEN left ELSE IF h + n1 = c THEN 0 ELSE h + n1
           rest == SubSeq(s, m + 1, n)
<1>1. /\ DOMAIN q = Fields
      /\ c \in Nat /\ h \in Nat /\ (h < c \/ h = 0) /\ n \in Nat /\ n <= c /\ q.size = n
      /\ q.tail = Behind(c, h, n)
  BY DEF Holds
<1>2. /\ DOMAIN q.cell = 0..(c - 1)
      /\ \A i \in 0..(c - 1) :
           q.cell[i] = IF Place(c, h, i) < n THEN s[Place(c, h, i) + 1] ELSE Empty
  BY Zenon DEF Holds
<1>3. /\ DOMAIN r = Fields
      /\ r.cell = [i \in 0..(c - 1) |->
                     IF (h <= i /\ i < h + n1) \/ i < left THEN Empty ELSE q.cell[i]]
      /\ r.capacity = c /\ r.head = g /\ r.tail = q.tail /\ r.size = n - n1 - left
      /\ p.moved = [k \in 1..(n1 + left) |->
                      IF k <= n1 THEN q.cell[h + k - 1] ELSE q.cell[k - n1 - 1]]
  BY Zenon, <1>1, <1>2 DEF pop_front_to, Wrapped, Fields
<1> HIDE DEF p, n1, left, g
<1>4. Removed(c, h, m, n1, left, g)
  BY Zenon, <1>1, RemovedPlaces DEF n1, left, g
<1>5. n1 \in Nat /\ left \in Nat /\ n1 + left = m /\ g = Behind(c, h, m) /\ m \in 0..c
  BY <1>1, <1>4 DEF Removed
<1>6. Moved(c, h, m, g)
  BY <1>1, <1>5, HeadMoves
<1>7. Inverses(c, h)
  BY <1>1, Places
<1>8. /\ SubSeq(s, 1, m) = [k \in 1..m |-> s[k]]
      /\ Len(rest) = n - m /\ \A k \in 1..(n - m) : rest[k] = s[k + m]
  BY <1>1
<1>9. p.moved = SubSeq(s, 1, m)
  <2>1. ASSUME NEW k \in 1..m
        PROVE  (IF k <= n1 THEN q.cell[h + k - 1] ELSE q.cell[k - n1 - 1]) = s[k]
    <3>1. CASE k <= n1
      <4>1. h + k - 1 \in 0..(c - 1) /\ Place(c, h, h + k - 1) + 1 = k
        BY <1>4, <3>1 DEF Removed
      <4>2. Place(c, h, h + k - 1) < n
        BY <1>1, <1>7, <4>1 DEF Inverses
      <4>3. QED
        BY <1>2, <3>1, <4>1, <4>2
    <3>2. CASE ~(k <= n1)
      <4>1. k - n1 - 1 \in 0..(c - 1) /\ Place(c, h, k - n1 - 1) + 1 = k
        BY <1>4, <3>2 DEF Removed
      <4>2. Place(c, h, k - n1 - 1) < n
        BY <1>1, <1>7, <4>1 DEF Inverses
      <4>3. QED
        BY <1>2, <3>2, <4>1, <4>2
    <3>3. QED
      BY <3>1, <3>2
  <2>2. QED
    BY <1>3, <1>5, <1>8, <2>1
<1> HIDE DEF r, rest
<1>10. ASSUME NEW i \in 0..(c - 1)
       PROVE  r.cell[i] = IF Place(c, g, i) < n - m THEN rest[Place(c, g, i) + 1] ELSE Empty
  <2>1. /\ Place(c, h, i) \in 0..(c - 1)
        /\ Place(c, g, i) = IF m <= Place(c, h, i) THEN Place(c, h, i) - m
                            ELSE Place(c, h, i) - m + c
    BY <1>6, <1>7 DEF Moved, Inverses
  <2>2. r.cell[i] = IF Place(c, h, i) < m THEN Empty ELSE q.cell[i]
    BY <1>3, <1>4 DEF Removed
  <2>3. CASE Place(c, h, i) < m
    BY <1>1, <2>1, <2>2, <2>3
  <2>4. CASE ~(Place(c, h, i) < m) /\ Place(c, h, i) < n
    <3>1. /\ Place(c, g, i) + 1 \in 1..(n - m) /\ Place(c, g, i) < n - m
          /\ (Place(c, g, i) + 1) + m = Place(c, h, i) + 1
      BY <1>1, <2>1, <2>4
    <3>2. r.cell[i] = s[Place(c, h, i) + 1]
      BY <1>2, <2>2, <2>4
    <3>3. QED
      BY <1>8, <3>1, <3>2
  <2>5. CASE ~(Place(c, h, i) < m) /\ ~(Place(c, h, i) < n)
    <3>1. ~(Place(c, g, i) < n - m)
      BY <1>1, <2>1, <2>5
    <3>2. QED
      BY <1>2, <2>2, <2>5, <3>1
  <2>6. QED
    BY <2>3, <2>4, <2>5
<1>11. Cellwise(r, rest)
  BY Zenon, <1>3, <1>8, <1>10 DEF Cellwise
<1>12. /\ r.capacity \in Nat /\ r.size = Len(rest) /\ Len(rest) <= r.capacity
       /\ r.cell = [i \in 0..(r.capacity - 1) |-> r.cell[i]]
  <2>1. n - n1 - left = n - m /\ n - m <= c
    BY <1>1, <1>5
  <2>2. r.size = n - n1 - left /\ r.capacity = c
    BY <1>3
  <2>3. r.cell = [i \in 0..(r.capacity - 1) |-> r.cell[i]]
    BY Zenon, <1>3
  <2>4. QED
    BY <1>1, <1>8, <2>1, <2>2, <2>3
<1>13. r.head \in Nat /\ (r.head < r.capacity \/ r.head = 0)
  BY <1>3, <1>6 DEF Moved
<1>14. r.tail = Behind(r.capacity, r.head, r.size)
  <2>1. n - m \in 0..(c - m) /\ m + (n - m) = n
    BY <1>1
  <2>2. Behind(c, g, n - m) = Behind(c, h, m + (n - m))
    BY <1>6, <2>1 DEF Moved
  <2>3. QED
    BY <1>1, <1>3, <1>8, <1>12, <2>1, <2>2
<1>15. Holds(r, rest)
  BY Zenon, <1>3, <1>11, <1>12, <1>13, <1>14, HoldsCellwise
<1>16. QED
  BY <1>9, <1>15 DEF p, r, rest
=============================================================================
