-------------------------- MODULE ThreadPoolProofs --------------------------
(***************************************************************************)
(* For every number of worker threads, slots and calls of run(): whatever  *)
(* the threads do between each other's steps,                              *)
(*  - a task that was submitted is in one place, none is run twice and     *)
(*    none is left when the pool is gone;                                  *)
(*  - a worker is not left asleep at a slot that has a task in it;         *)
(*  - a cancellation is reported if and only if the function was told.     *)
(*                                                                         *)
(* The third statement rests on the first.  A worker confirms a            *)
(* cancellation at any time while it has the task; that this is not after  *)
(* the main thread has looked, to resume the awaiting task, follows from   *)
(* the task not being in the completion queue while a worker has it.       *)
(*                                                                         *)
(* The second one rests on counting.  Workers claim the slots in the order *)
(* in which the main thread fills them, so the number of workers at a slot *)
(* is 1 if it is filled, else 0, plus the number of turns by which the     *)
(* claims lead the requests (Balanced).  Hence an empty slot has one       *)
(* worker at most, and nobody can clear its flag while it waits.           *)
(***************************************************************************)
EXTENDS ThreadPool, Integers, TLAPS

\* The types that the argument needs.
Types ==
  /\ slot \in [Slots -> Tasks \cup {Empty, Exit}]
  /\ sqHead \in Nat /\ sqTail \in Nat
  /\ backoff \in Seq(Tasks) /\ cq \in Seq(Tasks) /\ batch \in Seq(Tasks)
  /\ wpc \in [Workers -> {"pop", "take", "flag", "wait", "asleep", "unflag",
                          "run", "post", "exited"}]
  /\ claimed \in [Workers -> Slots]
  /\ held \in [Workers -> Tasks \cup {Empty, Exit}]
  /\ st \in [Tasks -> {"new", "submitted", "resumed", "cancelled"}]
  /\ cancelState \in [Tasks -> {"None", "Requested", "Confirmed"}]
  /\ taken \subseteq Tasks

\* A worker has a task in its hands exactly while it runs it.
Hands == \A w \in Workers : wpc[w] = "run" <=> held[w] \in Tasks

\* drainCQ() has resumed all tasks of a list before it takes the next one.
BatchDone == mpc \notin {"list", "user"} => batch = <<>>

\* The tasks kept in the slots, or in the workers' hands; none is there twice.
Kept(f) == {f[i] : i \in DOMAIN f} \cap Tasks
OnceIn(f) == \A i, j \in DOMAIN f : f[i] = f[j] /\ f[i] \in Tasks => i = j

Submitted == {t \in Tasks : st[t] = "submitted"}

Once ==
  /\ OnceIn(slot) /\ OnceIn(held)
  /\ IsInjective(backoff) /\ IsInjective(cq) /\ IsInjective(batch)

\* The submitted tasks are distributed over the five kinds of places.
Parts(All, S, H, B, C, D) ==
  /\ All = S \cup H \cup B \cup C \cup D
  /\ S \cap H = {} /\ S \cap B = {} /\ S \cap C = {} /\ S \cap D = {}
  /\ H \cap B = {} /\ H \cap C = {} /\ H \cap D = {}
  /\ B \cap C = {} /\ B \cap D = {} /\ C \cap D = {}

Somewhere ==
  Parts(Submitted, Kept(slot), Kept(held), Range(backoff), Range(cq), Range(batch))

\* The token has told the function of a cancellation that it confirmed.
Tokens ==
  \A t \in Tasks :
    /\ t \in taken <=> cancelState[t] = "Confirmed"
    /\ st[t] = "cancelled" => cancelState[t] = "Confirmed"
    /\ st[t] = "resumed" => cancelState[t] # "Confirmed"

Inv == Types /\ Hands /\ BatchDone /\ Once /\ Somewhere /\ Tokens
-----------------------------------------------------------------------------
(***************************************************************************)
(* What the operations on the lists do to their elements.                  *)
(***************************************************************************)
\* pushToBackoffSQ(): one element more, and still none twice.
LEMMA AppendedTask ==
  ASSUME NEW S, NEW s \in Seq(S), NEW x \in S, IsInjective(s), x \notin Range(s)
  PROVE  /\ Append(s, x) \in Seq(S)
         /\ Range(Append(s, x)) = Range(s) \cup {x}
         /\ IsInjective(Append(s, x))
<1> DEFINE a == Append(s, x)
<1>1. a \in Seq(S) /\ Len(a) = Len(s) + 1 /\ a[Len(s) + 1] = x
  OBVIOUS
<1>2. \A i \in 1..Len(s) : a[i] = s[i]
  OBVIOUS
<1> HIDE DEF a
<1>3. Range(a) = Range(s) \cup {x}
  <2>1. ASSUME NEW y \in Range(a) PROVE y \in Range(s) \cup {x}
    BY <1>1, <1>2 DEF Range
  <2>2. ASSUME NEW y \in Range(s) PROVE y \in Range(a)
    BY <1>1, <1>2 DEF Range
  <2>3. x \in Range(a)
    BY <1>1 DEF Range
  <2> QED BY <2>1, <2>2, <2>3
<1> QED BY <1>1 DEF IsInjective, Range

\* drainCQ() and submitBackoffSQ(): the first element leaves.
LEMMA FirstLeaves ==
  ASSUME NEW S, NEW s \in Seq(S), s # <<>>, IsInjective(s)
  PROVE  /\ Head(s) \in S /\ Head(s) \in Range(s)
         /\ Tail(s) \in Seq(S)
         /\ Range(Tail(s)) = Range(s) \ {Head(s)}
         /\ IsInjective(Tail(s))
<1> DEFINE a == Tail(s)
<1>1. \A i \in 1..(Len(s) - 1) : a[i] = s[i + 1]
  OBVIOUS
<1>2. DOMAIN a = 1..(Len(s) - 1) /\ DOMAIN s = 1..Len(s)
  OBVIOUS
<1> HIDE DEF a
<1>3. ASSUME NEW y \in Range(a) PROVE y \in Range(s) \ {Head(s)}
  <2>1. PICK i \in 1..(Len(s) - 1) : y = a[i]
    BY <1>2 DEF Range
  <2> QED BY <1>1, <1>2 DEF Range, IsInjective
<1>4. ASSUME NEW y \in Range(s), y # Head(s) PROVE y \in Range(a)
  <2>1. PICK i \in 1..Len(s) : y = s[i]
    BY DEF Range
  <2>2. i - 1 \in 1..(Len(s) - 1) /\ (i - 1) + 1 = i
    BY <1>4, <2>1
  <2> QED BY <1>1, <1>2, <2>1, <2>2 DEF Range
<1>5. IsInjective(a)
  <2> SUFFICES ASSUME NEW i \in 1..(Len(s) - 1), NEW j \in 1..(Len(s) - 1), a[i] = a[j]
               PROVE  i = j
    BY <1>2 DEF IsInjective
  <2> QED BY <1>1 DEF IsInjective
<1> QED BY <1>2, <1>3, <1>4, <1>5 DEF a, Range

\* pushToCQ(): one element more, in front.
LEMMA TaskInFront ==
  ASSUME NEW S, NEW s \in Seq(S), NEW x \in S, IsInjective(s), x \notin Range(s)
  PROVE  /\ <<x>> \o s \in Seq(S)
         /\ Range(<<x>> \o s) = Range(s) \cup {x}
         /\ IsInjective(<<x>> \o s)
<1> DEFINE a == <<x>> \o s
<1>1. a \in Seq(S) /\ Len(a) = Len(s) + 1 /\ a[1] = x /\ Len(s) \in Nat
  OBVIOUS
<1>2. \A i \in 1..Len(s) : a[i + 1] = s[i]
  OBVIOUS
<1>3. DOMAIN a = 1..(Len(s) + 1) /\ DOMAIN s = 1..Len(s)
  OBVIOUS
<1> HIDE DEF a
<1>4. \A i \in 1..(Len(s) + 1) : i = 1 \/ (i - 1 \in 1..Len(s) /\ a[i] = s[i - 1])
  <2> SUFFICES ASSUME NEW i \in 1..(Len(s) + 1), i # 1
               PROVE  i - 1 \in 1..Len(s) /\ a[i] = s[i - 1]
    OBVIOUS
  <2> QED BY <1>2
<1>5. ASSUME NEW y \in Range(a) PROVE y \in Range(s) \cup {x}
  BY <1>1, <1>4 DEF Range
<1>6. ASSUME NEW y \in Range(s) PROVE y \in Range(a)
  <2>1. PICK i \in 1..Len(s) : y = s[i]
    BY DEF Range
  <2>2. i + 1 \in 1..(Len(s) + 1) /\ a[i + 1] = y
    BY <1>1, <1>2, <2>1
  <2> QED BY <1>3, <2>2 DEF Range
<1>7. x \in Range(a)
  BY <1>1 DEF Range
<1>8. IsInjective(a)
  <2> SUFFICES ASSUME NEW i \in 1..(Len(s) + 1), NEW j \in 1..(Len(s) + 1), a[i] = a[j]
               PROVE  i = j
    BY <1>3 DEF IsInjective
  <2>1. CASE i = 1 \/ j = 1
    BY <1>1, <1>3, <1>4, <2>1, Zenon DEF Range
  <2>2. CASE i # 1 /\ j # 1
    <3>1. i - 1 = j - 1
      BY <1>4, <2>2 DEF IsInjective
    <3> QED BY <3>1
  <2> QED BY <2>1, <2>2
<1> QED BY <1>5, <1>6, <1>7, <1>8 DEF a

\* drainCQ() reverses the list: the same elements.
LEMMA Reversed ==
  ASSUME NEW S, NEW s \in Seq(S), IsInjective(s)
  PROVE  /\ Batch(s) \in Seq(S)
         /\ Range(Batch(s)) = Range(s)
         /\ IsInjective(Batch(s))
<1> DEFINE n == Len(s)
           a == Batch(s)
<1>1. n \in Nat /\ DOMAIN s = 1..n
  OBVIOUS
<1>2. a = [i \in 1..n |-> s[(n - i) + 1]]
  BY DEF Batch
<1> HIDE DEF n, a
<1>3. DOMAIN a = 1..n /\ \A i \in 1..n : a[i] = s[(n - i) + 1]
  BY <1>2
<1>4. a \in Seq(S)
  <2>1. \A i \in 1..n : s[(n - i) + 1] \in S
    BY <1>1
  <2> QED BY <1>1, <1>2
<1>5. IsInjective(a)
  <2> SUFFICES ASSUME NEW i \in 1..n, NEW j \in 1..n, a[i] = a[j]
               PROVE  i = j
    BY <1>3 DEF IsInjective
  <2> QED BY <1>1, <1>3 DEF IsInjective
<1>6. ASSUME NEW i \in 1..n PROVE (n - i) + 1 \in 1..n /\ a[(n - i) + 1] = s[i]
  <2>1. (n - i) + 1 \in 1..n /\ (n - ((n - i) + 1)) + 1 = i
    BY <1>1
  <2> QED BY <1>3, <2>1
<1>7. Range(a) = Range(s)
  BY <1>1, <1>3, <1>6 DEF Range
<1> QED BY <1>4, <1>5, <1>7 DEF a

-----------------------------------------------------------------------------
(***************************************************************************)
(* What writing to a slot, or to a worker's hands, does.                   *)
(***************************************************************************)
\* A task is put where there was none.
LEMMA PutIn ==
  ASSUME NEW f, NEW D, NEW V, f \in [D -> V], NEW i \in D, NEW t \in Tasks,
         OnceIn(f), f[i] \notin Tasks, t \notin Kept(f)
  PROVE  /\ Kept([f EXCEPT ![i] = t]) = Kept(f) \cup {t}
         /\ OnceIn([f EXCEPT ![i] = t])
<1> DEFINE g == [f EXCEPT ![i] = t]
<1>1. DOMAIN f = D /\ DOMAIN g = D /\ g[i] = t /\ \A j \in D : j # i => g[j] = f[j]
  OBVIOUS
<1> HIDE DEF g
<1> QED BY Zenon DEF Kept, OnceIn

\* What was there is replaced by something that is not a task.
LEMMA TakeOut ==
  ASSUME NEW f, NEW D, NEW V, f \in [D -> V], NEW i \in D, NEW e,
         e \notin Tasks, OnceIn(f)
  PROVE  /\ Kept([f EXCEPT ![i] = e]) = Kept(f) \ {f[i]}
         /\ OnceIn([f EXCEPT ![i] = e])
<1> DEFINE g == [f EXCEPT ![i] = e]
<1>1. DOMAIN f = D /\ DOMAIN g = D /\ g[i] = e /\ \A j \in D : j # i => g[j] = f[j]
  OBVIOUS
<1> HIDE DEF g
<1>2. Kept(g) = Kept(f) \ {f[i]}
  BY <1>1 DEF Kept, OnceIn
<1> QED BY <1>2, Zenon DEF g, OnceIn

\* The slot numbers are those of slots, and the counters stay natural numbers.
LEMMA Numbers ==
  ASSUME NEW n \in Nat
  PROVE  Index(n) \in Slots /\ Advance(n) \in Nat
BY ThreadPoolAssumption DEF Index, Slots, Advance

\* The pool starts with all tasks new and nothing in any place.
LEMMA StartsRight == Init => Inv
<1> SUFFICES ASSUME Init PROVE Inv
  OBVIOUS
<1> USE ThreadPoolAssumption DEF Init
<1> QED BY DEF Inv, Types, Slots, Somewhere, Parts, Kept, Submitted

\* A step that moves no task keeps the distribution of the tasks.
LEMMA NothingMoves ==
  ASSUME Once, Somewhere, UNCHANGED <<slot, held, backoff, cq, batch, st>>
  PROVE  Once' /\ Somewhere'
BY DEF Once, Somewhere, Submitted, Kept, OnceIn, Range, IsInjective

-----------------------------------------------------------------------------
(***************************************************************************)
(* The main thread.                                                        *)
(***************************************************************************)
\* TaskImpl::await_suspend() puts a new task in a slot or in the backoff queue.
LEMMA RunKeeps == ASSUME Inv, NEW t \in Tasks, Run(t) PROVE Inv'
<1> USE DEF Inv
<1>1. /\ t \notin Kept(slot) /\ t \notin Range(backoff) /\ t \notin Kept(held)
      /\ t \notin Range(cq) /\ t \notin Range(batch)
  BY DEF Somewhere, Parts, Submitted, Run
<1>2. CASE PushCAS(t) /\ UNCHANGED backoff
  <2>1. slot[Index(sqTail)] \notin Tasks
    BY <1>2, ThreadPoolAssumption DEF PushCAS, Full
  <2>2. Kept(slot)' = Kept(slot) \cup {t} /\ OnceIn(slot)'
    BY <1>1, <1>2, <2>1, PutIn, Numbers, Zenon DEF Once, Types, PushCAS
  <2>3. Somewhere'
    BY <2>2 DEF Somewhere, Parts, Submitted, Types, Run, workerVars
  <2> QED BY <1>2, <2>2, <2>3 DEF Hands, BatchDone, Tokens, Types, Run, workerVars, PushCAS, Once
<1>3. CASE Full /\ backoff' = Append(backoff, t) /\ UNCHANGED <<slot, pushing>>
  <2>1. /\ backoff' \in Seq(Tasks) /\ IsInjective(backoff)'
        /\ Range(backoff)' = Range(backoff) \cup {t}
    BY <1>1, <1>3, AppendedTask DEF Once, Types
  <2> QED BY <2>1
          DEF Hands, BatchDone, Tokens, Types, Run, workerVars, Once, Somewhere, Parts, Submitted
<1> QED BY <1>2, <1>3 DEF Run

\* drainCQ() takes the completion queue as its list.
LEMMA ExchangeKeeps == ASSUME Inv, Exchange PROVE Inv'
<1> USE DEF Inv
<1>1. Range(<<>>) = {} /\ IsInjective(<<>>)
  BY DEF Range, IsInjective
<1>2. Somewhere'
  BY Reversed
  DEF Somewhere, Parts, Exchange, workerVars, taskVars, BatchDone, Types, Once, Submitted
<1> QED BY <1>2, Reversed
        DEF Types, Exchange, workerVars, taskVars, Once, Hands, BatchDone, Tokens, Batch

\* drainCQ() resumes a task, which is nowhere afterwards.
LEMMA ResumeKeeps == ASSUME Inv, ResumeParent PROVE Inv'
<1> USE DEF Inv
<1>1. CASE batch = <<>>
  <2>1. UNCHANGED <<batch, st>>
    BY <1>1 DEF ResumeParent
  <2> QED BY <1>1, NothingMoves DEF ResumeParent, workerVars, Types, Hands, BatchDone, Tokens
<1>2. CASE batch # <<>>
  <2> DEFINE t == Head(batch)
             new == IF cancelState[t] # "None" /\ ~MustResume(t) THEN "cancelled" ELSE "resumed"
  <2>1. mpc' = "user" /\ batch' = Tail(batch) /\ st' = [st EXCEPT ![t] = new]
    BY <1>2 DEF ResumeParent
  <2>2. /\ t \in Tasks /\ t \in Range(batch)
        /\ batch' \in Seq(Tasks) /\ IsInjective(batch)'
        /\ Range(batch)' = Range(batch) \ {t}
    BY <1>2, <2>1, FirstLeaves DEF Types, Once
  <2>3. /\ new = "cancelled" => cancelState[t] = "Confirmed"
        /\ new = "resumed" => cancelState[t] # "Confirmed"
        /\ new \in {"cancelled", "resumed"}
    BY DEF MustResume
  <2> HIDE DEF t, new
  <2> QED BY <2>1, <2>2, <2>3
          DEF Types, ResumeParent, workerVars, Hands, BatchDone, Tokens, Once, Somewhere, Parts,
              Submitted
<1> QED BY <1>1, <1>2

\* submitBackoffSQ() moves the oldest task of the backoff queue to a slot.
LEMMA SubmitBackoffKeeps == ASSUME Inv, SubmitBackoffSQ PROVE Inv'
<1> USE DEF Inv
<1>1. CASE ~Retry
  <2>1. mpc' = "idle" /\ UNCHANGED <<slot, backoff>>
    BY <1>1 DEF SubmitBackoffSQ
  <2> QED BY <2>1, NothingMoves
          DEF SubmitBackoffSQ, workerVars, taskVars, Types, Hands, BatchDone, Tokens
<1>2. CASE Retry
  <2> DEFINE t == Head(backoff)
  <2>1. /\ backoff # <<>> /\ slot[Index(sqTail)] = Empty
        /\ slot' = [slot EXCEPT ![Index(sqTail)] = t]
        /\ backoff' = Tail(backoff) /\ mpc' = mpc
    BY <1>2 DEF SubmitBackoffSQ, PushCAS, Retry, Full
  <2>2. /\ t \in Tasks /\ t \in Range(backoff)
        /\ backoff' \in Seq(Tasks) /\ IsInjective(backoff)'
        /\ Range(backoff)' = Range(backoff) \ {t}
    BY <2>1, FirstLeaves DEF Types, Once
  <2> HIDE DEF t
  <2>3. Kept(slot)' = Kept(slot) \cup {t} /\ OnceIn(slot)'
    BY <2>1, <2>2, PutIn, Numbers, ThreadPoolAssumption, Zenon DEF Once, Types, Somewhere, Parts
  <2>4. Somewhere'
    BY <2>2, <2>3 DEF Somewhere, Parts, Submitted, SubmitBackoffSQ, workerVars, taskVars
  <2> QED BY <2>1, <2>2, <2>3, <2>4
          DEF Types, SubmitBackoffSQ, workerVars, taskVars, Hands, BatchDone, Tokens, Once
<1> QED BY <1>1, <1>2

\* ~ThreadPool() puts an exit request in a slot, where there was no task.
LEMMA PushExitKeeps == ASSUME Inv, PushExit PROVE Inv'
<1> USE DEF Inv
<1>1. CASE UNCHANGED slot
  BY <1>1, NothingMoves DEF Types, PushExit, workerVars, taskVars, Hands, BatchDone, Tokens
<1>2. CASE PushCAS(Exit)
  <2>1. slot[Index(sqTail)] = Empty /\ slot' = [slot EXCEPT ![Index(sqTail)] = Exit]
    BY <1>2 DEF PushCAS, Full
  <2>2. Kept(slot)' = Kept(slot)
    BY <2>1, ThreadPoolAssumption DEF Kept
  <2> QED BY <2>1, <2>2, TakeOut, Numbers, ThreadPoolAssumption
          DEF Hands, BatchDone, Tokens, PushExit, workerVars, taskVars, Types, Once, Somewhere,
              Submitted
<1> QED BY <1>1, <1>2 DEF PushExit

-----------------------------------------------------------------------------
(***************************************************************************)
(* The worker threads.                                                     *)
(***************************************************************************)
\* A task that leaves the slot for the worker's hands is in no other place.
LEMMA Handed ==
  ASSUME NEW All, NEW S, NEW H, NEW B, NEW C, NEW D, Parts(All, S, H, B, C, D), NEW x \in S
  PROVE  Parts(All, S \ {x}, H \cup {x}, B, C, D)
BY DEF Parts

\* popFromSQ() moves what is in the slot, if anything, to the worker's hands.
LEMMA TakeKeeps == ASSUME Inv, NEW w \in Workers, Take(w) PROVE Inv'
<1> USE DEF Inv
<1> DEFINE i == claimed[w]
           x == slot[i]
<1>1. /\ wpc[w] = "take" /\ held' = [held EXCEPT ![w] = x]
      /\ wpc' = [wpc EXCEPT ![w] = AfterTake(x)] /\ slot' = [slot EXCEPT ![i] = Empty]
      /\ UNCHANGED <<cq, mpc, batch, backoff, sqTail, sqHead, claimed, st, cancelState, taken>>
  BY DEF Take, Emptied, mainVars, taskVars
<1>2. i \in Slots /\ x \in Tasks \cup {Empty, Exit}
  BY DEF Types
<1>3. Kept(slot)' = Kept(slot) \ {x} /\ OnceIn(slot)'
  BY <1>1, TakeOut, ThreadPoolAssumption, Zenon DEF Types, Once
<1>4. x \in Tasks => x \in Kept(slot)
  BY DEF Kept, Types
<1> HIDE DEF i, x
<1>5. Types'
  BY <1>1, <1>2 DEF Types, AfterTake
<1>6. Hands'
  BY <1>1, <1>2, ThreadPoolAssumption DEF Hands, Types, AfterTake
<1>7. CASE x \in Tasks
  <2>1. x \notin Kept(held)
    BY <1>4, <1>7 DEF Somewhere, Parts
  <2>2. Kept(held)' = Kept(held) \cup {x} /\ OnceIn(held)'
    BY <1>1, <1>7, <2>1, PutIn, Zenon DEF Types, Once, Hands
  <2>3. Somewhere'
    <3>1. Parts(Submitted, Kept(slot) \ {x}, Kept(held) \cup {x}, Range(backoff), Range(cq),
                Range(batch))
      BY <1>4, <1>7, Handed DEF Somewhere
    <3> QED BY <1>1, <1>3, <2>2, <3>1, Zenon DEF Somewhere, Submitted
  <2> QED BY <1>1, <1>3, <1>5, <1>6, <2>2, <2>3 DEF BatchDone, Tokens, Once
<1>8. CASE x \notin Tasks
  <2>1. Kept(held)' = Kept(held) \ {held[w]} /\ OnceIn(held)'
    BY <1>1, <1>8, TakeOut, Zenon DEF Types, Once
  <2>2. Kept(held)' = Kept(held) /\ Kept(slot)' = Kept(slot)
    BY <1>1, <1>3, <1>8 DEF Kept, Hands
  <2>3. Once'
    BY <1>1, <1>3, <2>1 DEF Once
  <2> QED BY <1>1, <1>5, <1>6, <2>2, <2>3 DEF BatchDone, Tokens, Somewhere, Submitted
<1> QED BY <1>7, <1>8

\* pushToCQ() moves the task in the worker's hands to the completion queue.
LEMMA PushToCQKeeps == ASSUME Inv, NEW w \in Workers, PushToCQ(w) PROVE Inv'
<1> USE DEF Inv
<1> DEFINE t == held[w]
           pc == IF Notifies(cq) THEN "post" ELSE "pop"
<1>1. /\ wpc[w] = "run" /\ cq' = <<t>> \o cq /\ held' = [held EXCEPT ![w] = Empty]
      /\ wpc' = [wpc EXCEPT ![w] = pc]
      /\ UNCHANGED <<slot, mpc, batch, backoff, sqTail, sqHead, claimed, st, cancelState, taken>>
  BY DEF PushToCQ, mainVars
<1>2. t \in Tasks /\ t \in Kept(held) /\ Empty \notin Tasks
  BY <1>1, ThreadPoolAssumption DEF Hands, Kept, Types
<1>3. Kept(held)' = Kept(held) \ {t} /\ OnceIn(held)'
  BY <1>1, <1>2, TakeOut, Zenon DEF Types, Once
<1>4. pc \in {"post", "pop"}
  OBVIOUS
<1> HIDE DEF t, pc
<1>5. cq' \in Seq(Tasks) /\ Range(cq') = Range(cq) \cup {t} /\ IsInjective(cq')
  <2>1. t \notin Range(cq)
    BY <1>2 DEF Somewhere, Parts
  <2> QED BY <1>1, <1>2, <2>1, TaskInFront DEF Types, Once
<1>6. Kept(slot)' = Kept(slot) /\ Submitted' = Submitted
  BY <1>1 DEF Kept, Submitted
<1>7. Somewhere'
  <2>1. Parts(Submitted, Kept(slot), Kept(held) \ {t}, Range(backoff), Range(cq) \cup {t},
              Range(batch))
    BY <1>2 DEF Somewhere, Parts
  <2> QED BY <1>1, <1>3, <1>5, <1>6, <2>1 DEF Somewhere
<1>8. Types' /\ Hands'
  BY <1>1, <1>2, <1>4, <1>5 DEF Types, Hands
<1>9. Once'
  BY <1>1, <1>3, <1>5 DEF Once
<1> QED BY <1>1, <1>7, <1>8, <1>9 DEF BatchDone, Tokens

\* A function is told of a cancellation only while its task is submitted.
LEMMA ConfirmKeeps == ASSUME Inv, NEW w \in Workers, Confirm(w) PROVE Inv'
<1> USE DEF Inv
<1>1. held[w] \in Kept(held)
  BY DEF Kept, Types, Confirm
<1>2. Once' /\ Somewhere'
  BY NothingMoves DEF Confirm, mainVars, workerVars
<1>3. st[held[w]] = "submitted" /\ held[w] \in Tasks
  BY <1>1 DEF Somewhere, Parts, Submitted, Kept
<1>4. Tokens'
  BY <1>3 DEF Tokens, Types, Confirm
<1> QED BY <1>2, <1>4 DEF Confirm, mainVars, workerVars, Types, Hands, BatchDone

-----------------------------------------------------------------------------
(***************************************************************************)
(* The other steps move no task.                                           *)
(***************************************************************************)
\* The event loop, the destructor and requests for cancellation.
LEMMA MainQuietKeeps ==
  ASSUME Inv,
         \/ PushNotify \/ Tick \/ UserReturns \/ Join \/ Destroy
         \/ \E t \in Tasks : Cancel(t)
  PROVE  Inv'
<1> USE DEF Inv
<1>1. UNCHANGED <<slot, held, backoff, cq, batch, st, claimed, sqHead, taken>>
  BY Zenon DEF PushNotify, Tick, UserReturns, Join, Destroy, Cancel, mainVars, workerVars, taskVars
<1>2. Once' /\ Somewhere'
  BY <1>1, NothingMoves
<1>3. CASE PushNotify
  <2>1. /\ sqTail' = Advance(sqTail) /\ UNCHANGED <<mpc, cancelState>>
        /\ \/ \E w \in Workers : wpc[w] = "asleep" /\ wpc' = [wpc EXCEPT ![w] = "wait"]
           \/ UNCHANGED wpc
    BY <1>3, Zenon DEF PushNotify, taskVars
  <2>2. Hands' /\ BatchDone' /\ Tokens'
    BY <1>1, <2>1 DEF Hands, BatchDone, Tokens, Types
  <2> QED BY <1>1, <1>2, <2>1, <2>2, Numbers DEF Types
<1>4. CASE Tick \/ UserReturns \/ Join \/ Destroy
  <2>1. /\ UNCHANGED <<sqTail, wpc, cancelState>>
        /\ mpc' = mpc \/ mpc \notin {"list", "user"} \/ mpc' = "list"
    BY <1>4, Zenon DEF Tick, UserReturns, Join, Destroy, workerVars, taskVars
  <2> QED BY <1>1, <1>2, <2>1 DEF Types, Hands, BatchDone, Tokens
<1>5. ASSUME NEW t \in Tasks, Cancel(t) PROVE Inv'
  <2>1. /\ st[t] = "submitted" /\ cancelState[t] = "None"
        /\ cancelState' = [cancelState EXCEPT ![t] = "Requested"]
        /\ UNCHANGED <<sqTail, wpc, mpc>>
    BY <1>5 DEF Cancel, mainVars, workerVars
  <2> QED BY <1>1, <1>2, <2>1 DEF Types, Hands, BatchDone, Tokens
<1> QED BY <1>3, <1>4, <1>5

\* A worker claims a slot, waits there, or posts a tick().
LEMMA WorkerQuietKeeps ==
  ASSUME Inv, NEW w \in Workers, Claim(w) \/ Flag(w) \/ Wait(w) \/ Unflag(w) \/ Post(w)
  PROVE  Inv'
<1> USE DEF Inv
<1>1. PICK pc \in {"pop", "take", "wait", "asleep", "unflag"} : wpc' = [wpc EXCEPT ![w] = pc]
  BY DEF Claim, Flag, Wait, Unflag, Post
<1>2. sqHead' \in Nat /\ claimed' \in [Workers -> Slots]
  <2>1. CASE Claim(w)
    BY <2>1, Numbers DEF Claim, Types
  <2>2. CASE ~Claim(w)
    BY <2>2 DEF Flag, Wait, Unflag, Post, Types
  <2> QED BY <2>1, <2>2
<1> QED BY <1>1, <1>2, NothingMoves
        DEF Claim, Flag, Wait, Unflag, Post, mainVars, taskVars, Types, Hands, BatchDone, Tokens

-----------------------------------------------------------------------------
\* Every step of any thread keeps the invariant.
LEMMA StepKeeps == Inv /\ [Next]_vars => Inv'
<1> SUFFICES ASSUME Inv, [Next]_vars PROVE Inv'
  OBVIOUS
<1>1. CASE MainStep
  BY <1>1, MainQuietKeeps, ExchangeKeeps, ResumeKeeps, SubmitBackoffKeeps, PushExitKeeps
  DEF MainStep
<1>2. CASE Destroy
  BY <1>2, MainQuietKeeps
<1>3. CASE Poll \/ UNCHANGED vars
  <2>1. UNCHANGED <<slot, held, backoff, cq, batch, st, claimed, sqHead, sqTail, wpc, mpc,
                    cancelState, taken>>
    BY <1>3 DEF Poll, vars, mainVars, workerVars, taskVars
  <2> QED BY <2>1, NothingMoves DEF Inv, Types, Hands, BatchDone, Tokens
<1>4. CASE \E t \in Tasks : Run(t) \/ Cancel(t)
  BY <1>4, RunKeeps, MainQuietKeeps
<1>5. CASE \E w \in Workers : WorkerStep(w) \/ Confirm(w)
  BY <1>5, TakeKeeps, PushToCQKeeps, ConfirmKeeps, WorkerQuietKeeps DEF WorkerStep
<1> QED BY <1>1, <1>2, <1>3, <1>4, <1>5 DEF Next

\* The invariant holds in every state of the pool, for any number of threads.
LEMMA InvAlways == Spec => []Inv
BY StartsRight, StepKeeps, PTL DEF Spec

\* A call of ThreadPool::run() ends as cancelled if, and only if, its function was
\* told of the cancellation by its CancelToken: for any number of worker threads,
\* slots and calls, however the threads interleave.
THEOREM ThreadPoolCancelTokens == Spec => []CancelTokenHonoured
<1>1. Inv => CancelTokenHonoured
  BY DEF Inv, Tokens, CancelTokenHonoured
<1> QED BY <1>1, InvAlways, PTL

-----------------------------------------------------------------------------
(***************************************************************************)
(* The submission queue. A worker claims a slot before there is anything   *)
(* in it, and the main thread fills the slots in the same order: a slot    *)
(* may have a worker asleep at it while a request is on its way, and a     *)
(* worker that is slow between its claim and its look into the slot may be *)
(* overtaken by the next to come around. What keeps the two sides in step  *)
(* is a count. The workers at a slot are as many as its requests, one more *)
(* where the claims are ahead, and one less where the requests are. So a   *)
(* worker that finds its slot empty is alone there.                        *)
(***************************************************************************)
\* The slot of the n-th claim, and of the n-th request.
Turn(n) == (n * Stride) % Capacity

\* After h claims and t requests, the next of which go through the slots in the same
\* order: is slot i ahead in claims (1), in requests (-1), or in neither?
Lead(h, t, i) ==
  IF \E n \in t..(h - 1) : Turn(n) = i THEN 1
  ELSE IF \E n \in h..(t - 1) : Turn(n) = i THEN -1 ELSE 0

\* Slot::task is not null.
Filled(i) == IF slot[i] = Empty THEN 0 ELSE 1

\* The requests made, when sqTail has been advanced p times.
Pushed(p) == IF pushing THEN p + 1 ELSE p

\* A slot has as many workers waiting at it as requests in it, corrected by its lead.
Counts(h, t) == \A i \in Slots : Cardinality(At(i)) = Filled(i) + Lead(h, t, i)

\* While the pool is destroyed, the slots hold nothing but the last requests.
ExitTurns(t) ==
  destroying => \A i \in Slots : slot[i] # Empty =>
    slot[i] = Exit /\ \E n \in Nat : n < t /\ t <= n + exits /\ Turn(n) = i

\* h slots have been claimed, and sqTail has been advanced p times.
Balanced(h, p) ==
  /\ h - Pushed(p) <= Capacity /\ Pushed(p) - h <= Capacity
  /\ sqHead = (h * Stride) % Width /\ sqTail = (p * Stride) % Width
  /\ Counts(h, Pushed(p)) /\ ExitTurns(Pushed(p))

InStep == \E h, p \in Nat : Balanced(h, p)

\* A worker in one of these places has found its slot empty.
Stays == {"flag", "wait", "asleep", "unflag"}

\* A slot has at most one such worker: the others at it are about to look into it.
OneStays ==
  \A v, w \in Workers : wpc[v] \in Stays /\ wpc[w] \in Stays /\ claimed[v] = claimed[w] => v = w

\* Slot::dequeuing is set from before a worker waits until after it has waited.
Flagged == \A w \in Workers : wpc[w] \in {"wait", "asleep", "unflag"} => dequeuing[claimed[w]]

Waiting == OneStays /\ Flagged /\ NoLostWakeup

\* The exit requests that workers have taken, and those that are still in a slot.
Exited == {w \in Workers : wpc[w] = "exited"}
ExitSlots == {i \in Slots : slot[i] = Exit}

\* What ~ThreadPool() relies on, and what it leaves.
Closing ==
  /\ alive /\ ~destroying => exits = 0
  /\ destroying \/ ~alive => Submitted = {}
  /\ ~alive => Joined /\ exits = Cardinality(Workers) /\ ~pushing /\ ~destroying
  /\ exits = Cardinality(Exited) + Cardinality(ExitSlots)

\* The types of the other variables.
Rest ==
  /\ dequeuing \in [Slots -> BOOLEAN] /\ ticks \in Nat
  /\ mpc \in {"idle", "exchange", "list", "user", "backoff", "stale"}
  /\ pushing \in BOOLEAN /\ destroying \in BOOLEAN /\ alive \in BOOLEAN
  /\ exits \in 0..Cardinality(Workers)

\* The inductive invariant.
Pool == Inv /\ Rest /\ InStep /\ Waiting /\ Closing

\* What counting the elements of finite sets relies on.
CountType == \A S : IsFiniteSet(S) => Cardinality(S) \in Nat /\ (Cardinality(S) = 0 <=> S = {})
CountSubset ==
  \A S, T : IsFiniteSet(T) /\ S \subseteq T => IsFiniteSet(S) /\ Cardinality(S) <= Cardinality(T)
CountAdd ==
  \A S, x : IsFiniteSet(S) /\ x \notin S =>
    IsFiniteSet(S \cup {x}) /\ Cardinality(S \cup {x}) = Cardinality(S) + 1
CountRemove ==
  \A S, x : IsFiniteSet(S) /\ x \in S =>
    IsFiniteSet(S \ {x}) /\ Cardinality(S \ {x}) = Cardinality(S) - 1
CountInterval ==
  \A a, b \in Int : IsFiniteSet(a..b) /\ (a <= b => Cardinality(a..b) = (b - a) + 1)
CountInjection ==
  \A S, T, f : IsFiniteSet(T) /\ f \in Injection(S, T) => Cardinality(S) <= Cardinality(T)

Counting ==
  /\ IsFiniteSet({}) /\ CountType /\ CountSubset /\ CountAdd /\ CountRemove
  /\ CountInterval /\ CountInjection
-----------------------------------------------------------------------------
(***************************************************************************)
(* The turns of the slots.                                                 *)
(***************************************************************************)
\* Every integer is a multiple of the divisor and a remainder.
LEMMA Division ==
  ASSUME NEW c \in Nat \ {0}, NEW x \in Int
  PROVE  x % c \in 0..(c - 1) /\ \E q \in Int : x = (q * c) + (x % c)
<1>1. x % c \in 0..(c - 1)
  OBVIOUS
<1>2. x = ((x \div c) * c) + (x % c) /\ x \div c \in Int
  OBVIOUS
<1> QED BY <1>1, <1>2

\* The remainder is determined by any such representation.
LEMMA Remainder ==
  ASSUME NEW c \in Nat \ {0}, NEW q \in Int, NEW r \in 0..(c - 1)
  PROVE  ((q * c) + r) % c = r
OBVIOUS

\* Advancing a counter modulo its width.
LEMMA SumRemainder ==
  ASSUME NEW c \in Nat \ {0}, NEW a \in Int, NEW b \in Int
  PROVE  ((a % c) + b) % c = (a + b) % c
<1> DEFINE r == a % c
           y == (r + b) % c
<1>1. r \in Int /\ \E q \in Int : a = (q * c) + r
  <2>1. r \in 0..(c - 1) /\ \E q \in Int : a = (q * c) + r
    BY Division, Zenon
  <2> HIDE DEF r
  <2> QED BY <2>1
<1>2. PICK q \in Int : a = (q * c) + r
  BY <1>1
<1>3. r + b \in Int
  OBVIOUS
<1>4. y \in 0..(c - 1) /\ \E p \in Int : r + b = (p * c) + y
  BY <1>3, Division
<1>5. PICK p \in Int : r + b = (p * c) + y
  BY <1>4
<1> HIDE DEF r, y
<1>6. (q * c) + (p * c) = (q + p) * c /\ q + p \in Int
  OBVIOUS
<1>7. a + b = ((q + p) * c) + y
  BY <1>1, <1>2, <1>4, <1>5
<1> QED BY <1>4, <1>6, <1>7, Remainder DEF r

\* A counter modulo its width points to the same slot.
LEMMA RemainderOfRemainder ==
  ASSUME NEW c \in Nat \ {0}, NEW w \in Nat \ {0}, w % c = 0, NEW a \in Int
  PROVE  (a % w) % c = a % c
<1> DEFINE r == a % w
           y == r % c
<1>1. r \in Int /\ \E q \in Int : a = (q * w) + r
  <2>1. r \in 0..(w - 1) /\ \E q \in Int : a = (q * w) + r
    BY Division, Zenon
  <2> HIDE DEF r
  <2> QED BY <2>1
<1>2. PICK q \in Int : a = (q * w) + r
  BY <1>1
<1>3. w \in Int
  OBVIOUS
<1>4. PICK k \in Int : w = (k * c) + (w % c)
  BY <1>3, Division
<1>5. y \in 0..(c - 1) /\ \E p \in Int : r = (p * c) + y
  BY <1>1, Division
<1>6. PICK p \in Int : r = (p * c) + y
  BY <1>5
<1> HIDE DEF r, y
<1>7. a = (((q * k) + p) * c) + y
  BY <1>2, <1>4, <1>5, <1>6
<1>8. a % c = y
  BY <1>5, <1>7
<1> QED BY <1>8 DEF r, y

\* The slot that the counters point to.
LEMMA Counters ==
  ASSUME NEW n \in Nat
  PROVE  /\ (n * Stride) % Width \in 0..(Width - 1)
         /\ Index((n * Stride) % Width) = Turn(n)
         /\ Advance((n * Stride) % Width) = ((n + 1) * Stride) % Width
         /\ Turn(n) \in Slots
<1>1. /\ Capacity \in Nat \ {0} /\ Width \in Nat \ {0} /\ Width % Capacity = 0 /\ Stride \in Int
  BY ThreadPoolAssumption
<1> DEFINE x == n * Stride
<1>2. x \in Int /\ (n + 1) * Stride = x + Stride
  BY <1>1
<1> HIDE DEF x
<1>3. ((x % Width) + Stride) % Width = (x + Stride) % Width
  BY <1>1, <1>2, SumRemainder
<1> QED BY <1>1, <1>2, <1>3, Division, RemainderOfRemainder DEF x, Index, Advance, Turn, Slots

\* Fewer than Capacity turns apart, the slots are different ones.
LEMMA TurnsDiffer ==
  ASSUME NEW m \in Nat, NEW n \in Nat, m < n, n - m < Capacity
  PROVE  Turn(m) # Turn(n)
<1>1. /\ Capacity \in Nat \ {0} /\ Stride \in Int
      /\ \A k \in 1..(Capacity - 1) : (k * Stride) % Capacity # 0
  BY ThreadPoolAssumption
<1> DEFINE k == n - m
           r == (m * Stride) % Capacity
<1>2. k \in 1..(Capacity - 1) /\ k \in Int
  BY <1>1
<1>3. /\ m * Stride \in Int /\ n * Stride \in Int /\ k * Stride \in Int
      /\ k * Stride = (n * Stride) - (m * Stride)
  BY <1>1
<1> SUFFICES ASSUME Turn(m) = Turn(n) PROVE FALSE
  OBVIOUS
<1>4. /\ r \in 0..(Capacity - 1) /\ r = (n * Stride) % Capacity
      /\ \E q \in Int : m * Stride = (q * Capacity) + r
      /\ \E q \in Int : n * Stride = (q * Capacity) + r
  BY <1>1, <1>3, Division DEF Turn
<1> HIDE DEF r
<1>5. PICK p \in Int : m * Stride = (p * Capacity) + r
  BY <1>4
<1>6. PICK q \in Int : n * Stride = (q * Capacity) + r
  BY <1>4
<1>7. k * Stride = ((q - p) * Capacity) + 0
  BY <1>1, <1>4, <1>5, <1>6
<1>8. (k * Stride) % Capacity = 0
  BY <1>1, <1>7
<1> QED BY <1>1, <1>2, <1>8

\* After Capacity turns it is the same slot again.
LEMMA TurnsRepeat ==
  ASSUME NEW n \in Nat
  PROVE  Turn(n + Capacity) = Turn(n)
<1> DEFINE x == n * Stride
           r == x % Capacity
<1>1. x \in Int /\ (n + Capacity) * Stride = x + (Stride * Capacity)
  BY ThreadPoolAssumption
<1>2. r \in 0..(Capacity - 1) /\ \E q \in Int : x = (q * Capacity) + r
  BY <1>1, Division, ThreadPoolAssumption
<1> HIDE DEF x
<1> HIDE DEF r
<1>3. PICK q \in Int : x = (q * Capacity) + r
  BY <1>2
<1>4. (x + (Stride * Capacity)) % Capacity = r
  BY <1>2, Remainder, ThreadPoolAssumption
<1> QED BY <1>1, <1>4 DEF x, r, Turn

\* A claim: the slot whose turn it is gains a claim on the requests.
LEMMA LeadAfterClaim ==
  ASSUME NEW h \in Nat, NEW t \in Nat, h - t < Capacity, t - h <= Capacity, NEW i \in Slots
  PROVE  Lead(h + 1, t, i) = IF i = Turn(h) THEN Lead(h, t, i) + 1 ELSE Lead(h, t, i)
<1>1. CASE t <= h
  <2>1. h..(t - 1) = {} /\ (h + 1)..(t - 1) = {} /\ t..((h + 1) - 1) = (t..(h - 1)) \cup {h}
    BY <1>1
  <2> QED BY TurnsDiffer, ThreadPoolAssumption DEF Lead
<1>2. CASE h < t
  <2>1. t..(h - 1) = {} /\ t..((h + 1) - 1) = {} /\ h..(t - 1) = ((h + 1)..(t - 1)) \cup {h}
    BY <1>2
  <2> QED BY TurnsDiffer, ThreadPoolAssumption DEF Lead
<1> QED BY <1>1, <1>2

\* A request: the slot whose turn it is loses a claim.
LEMMA LeadAfterPush ==
  ASSUME NEW h \in Nat, NEW t \in Nat, h - t <= Capacity, t - h < Capacity, NEW i \in Slots
  PROVE  Lead(h, t + 1, i) = IF i = Turn(t) THEN Lead(h, t, i) - 1 ELSE Lead(h, t, i)
<1>1. CASE h <= t
  <2>1. t..(h - 1) = {} /\ (t + 1)..(h - 1) = {} /\ h..((t + 1) - 1) = (h..(t - 1)) \cup {t}
    BY <1>1
  <2> QED BY TurnsDiffer, ThreadPoolAssumption DEF Lead
<1>2. CASE t < h
  <2>1. h..(t - 1) = {} /\ h..((t + 1) - 1) = {} /\ t..(h - 1) = ((t + 1)..(h - 1)) \cup {t}
    BY <1>2
  <2> QED BY TurnsDiffer, ThreadPoolAssumption DEF Lead
<1> QED BY <1>1, <1>2

\* No slot leads by more than one.
LEMMA LeadSmall == ASSUME NEW h, NEW t, NEW i PROVE Lead(h, t, i) \in {-1, 0, 1}
BY DEF Lead

-----------------------------------------------------------------------------
(***************************************************************************)
(* What the steps do to the count.                                         *)
(***************************************************************************)
\* The sets of waiting workers are finite.
LEMMA Waiters ==
  ASSUME Counting, NEW i
  PROVE  /\ At(i) \subseteq Workers /\ IsFiniteSet(At(i)) /\ Cardinality(At(i)) \in Nat
         /\ Cardinality(At(i)) = 0 <=> At(i) = {}
BY ThreadPoolAssumption DEF Counting, CountType, At, CountSubset

\* At a slot without a request there is at most one worker.
LEMMA SlotAlone ==
  ASSUME Counting, NEW h \in Nat, NEW p \in Nat, Balanced(h, p), NEW i \in Slots, slot[i] = Empty,
         NEW v \in At(i), NEW w \in At(i)
  PROVE  v = w
<1>1. Cardinality(At(i)) <= 1
  BY LeadSmall DEF Balanced, Counts, Filled
<1> SUFFICES ASSUME v # w PROVE FALSE
  OBVIOUS
<1>2. IsFiniteSet({v}) /\ Cardinality({v}) = 1
  <2>1. IsFiniteSet({}) /\ Cardinality({}) = 0 /\ {} \cup {v} = {v}
    BY DEF Counting, CountType
  <2> QED BY <2>1 DEF Counting, CountAdd
<1>3. IsFiniteSet({v} \cup {w}) /\ Cardinality({v} \cup {w}) = 2
  <2>1. w \notin {v}
    OBVIOUS
  <2>2. IsFiniteSet({v} \cup {w}) /\ Cardinality({v} \cup {w}) = 1 + 1
    BY <1>2, Zenon DEF Counting, CountAdd
  <2> QED BY <2>2
<1> QED BY <1>1, <1>3, Waiters DEF Counting, CountSubset

\* The slots as the main thread and the workers find them.
LEMMA WhereNext ==
  ASSUME NEW h \in Nat, NEW p \in Nat, Balanced(h, p)
  PROVE  /\ Index(sqHead) = Turn(h) /\ Index(sqTail) = Turn(p)
         /\ Turn(h) \in Slots /\ Turn(p) \in Slots
         /\ Advance(sqHead) = ((h + 1) * Stride) % Width
         /\ Advance(sqTail) = ((p + 1) * Stride) % Width
         /\ sqHead \in 0..(Width - 1) /\ sqTail \in 0..(Width - 1)
BY Counters, Zenon DEF Balanced

\* A step that leaves the slots, the counters and the waiting workers alone.
LEMMA SameBalance ==
  ASSUME NEW h \in Nat, NEW p \in Nat, Balanced(h, p),
         UNCHANGED <<slot, sqHead, sqTail, pushing>>,
         destroying' => destroying /\ exits' = exits,
         \A i \in Slots : At(i)' = At(i)
  PROVE  Balanced(h, p)'
BY DEF Balanced, Pushed, Filled, Counts, ExitTurns

\* ~ThreadPool() starts when all slots are empty.
LEMMA DestroyBalance ==
  ASSUME NEW h \in Nat, NEW p \in Nat, Balanced(h, p),
         UNCHANGED <<slot, sqHead, sqTail, pushing, wpc, claimed>>,
         \A i \in Slots : slot[i] = Empty
  PROVE  Balanced(h, p)'
BY DEF Balanced, Pushed, Filled, At, Counts, ExitTurns

\* A worker claims a slot.  The claims are never more than Capacity ahead, because the
\* workers that have made them wait at different slots, and this one is not among them.
LEMMA ClaimBalance ==
  ASSUME Counting, Types, NEW h \in Nat, NEW p \in Nat, Balanced(h, p), NEW w \in Workers, Claim(w)
  PROVE  Balanced(h + 1, p)'
<1> DEFINE t == Pushed(p)
<1>1. t \in Nat /\ Capacity \in Nat
  BY ThreadPoolAssumption DEF Pushed
<1>2. h - t < Capacity
  <2> SUFFICES ASSUME h - t = Capacity PROVE FALSE
    BY <1>1 DEF Balanced
  <2> DEFINE S == t..(h - 1)
             f == [n \in S |-> CHOOSE v \in Workers : v \in At(Turn(n))]
  <2>1. ASSUME NEW n \in S PROVE \E v \in Workers : v \in At(Turn(n))
    <3>1. Lead(h, t, Turn(n)) = 1
      BY DEF Lead
    <3>2. Cardinality(At(Turn(n))) # 0
      BY <1>1, <3>1, Counters DEF Balanced, Counts, Filled
    <3> QED BY <3>2, Waiters
  <2>2. ASSUME NEW n \in S PROVE f[n] \in Workers /\ f[n] \in At(Turn(n))
    BY <2>1
  <2>3. ASSUME NEW n \in S PROVE f[n] \in Workers \ {w} /\ claimed[f[n]] = Turn(n)
    BY <2>2 DEF At, Claim
  <2>4. ASSUME NEW m \in S, NEW n \in S, m < n PROVE Turn(m) # Turn(n)
    BY <1>1, <2>4, TurnsDiffer
  <2>5. ASSUME NEW m \in S, NEW n \in S, m # n PROVE Turn(m) # Turn(n)
    BY <2>4, <2>5
  <2>6. f \in Injection(S, Workers \ {w})
    <3>1. f \in [S -> Workers \ {w}]
      BY <2>3
    <3> HIDE DEF f, S
    <3> QED BY <2>3, <2>5, <3>1 DEF Injection, IsInjective
  <2> HIDE DEF f
  <2>7. /\ IsFiniteSet(Workers \ {w}) /\ Cardinality(Workers \ {w}) = Cardinality(Workers) - 1
        /\ Cardinality(Workers) \in Nat
    BY ThreadPoolAssumption DEF Counting, CountRemove, CountType
  <2>8. Cardinality(S) = Capacity
    <3>1. t <= h - 1 /\ h - 1 \in Int /\ t \in Int /\ ((h - 1) - t) + 1 = Capacity
      BY <1>1, ThreadPoolAssumption
    <3> QED BY <3>1 DEF Counting, CountInterval
  <2> QED BY <2>6, <2>7, <2>8, ThreadPoolAssumption DEF Counting, CountInjection
<1>3. ASSUME NEW i \in Slots PROVE Cardinality(At(i)') = Filled(i)' + Lead(h + 1, t, i)
  <2>1. Lead(h + 1, t, i) = IF i = Turn(h) THEN Lead(h, t, i) + 1 ELSE Lead(h, t, i)
    BY <1>1, <1>2, LeadAfterClaim DEF Balanced
  <2>2. CASE i = Turn(h)
    <3>1. At(i)' = At(i) \cup {w} /\ w \notin At(i)
      BY <2>2, WhereNext DEF At, Types, Claim
    <3>2. Cardinality(At(i)') = Cardinality(At(i)) + 1
      BY <3>1, Waiters DEF Counting, CountAdd
    <3> QED BY <2>1, <2>2, <3>2, LeadSmall DEF Filled, Claim, Balanced, Counts
  <2>3. CASE i # Turn(h)
    <3>1. At(i)' = At(i)
      BY <2>3, WhereNext DEF At, Types, Claim
    <3> QED BY <2>1, <2>3, <3>1 DEF Filled, Claim, Balanced, Counts
  <2> QED BY <2>2, <2>3
<1> QED BY <1>1, <1>2, <1>3, WhereNext DEF Balanced, Claim, mainVars, Pushed, Counts, ExitTurns

\* A worker looks into its slot: it leaves with what it finds, or stays.
LEMMA TakeBalance ==
  ASSUME Counting, Types, NEW h \in Nat, NEW p \in Nat, Balanced(h, p), NEW w \in Workers, Take(w)
  PROVE  Balanced(h, p)'
<1> DEFINE c == claimed[w]
<1>1. c \in Slots /\ w \in At(c)
  BY DEF Types, At, Take
<1>2. slot'[c] = Empty /\ \A i \in Slots : i # c => slot'[i] = slot[i]
  BY DEF Types, Take, Emptied
<1> HIDE DEF c
<1>3. ASSUME NEW i \in Slots PROVE Cardinality(At(i)') = Filled(i)' + Lead(h, Pushed(p), i)
  <2>1. Cardinality(At(i)) = Filled(i) + Lead(h, Pushed(p), i)
    BY DEF Balanced, Counts
  <2>2. CASE i # c
    <3>1. At(i)' = At(i)
      BY <2>2 DEF At, c, Take
    <3> QED BY <1>2, <2>1, <2>2, <3>1 DEF Filled
  <2>3. CASE i = c /\ slot[c] = Empty
    <3>1. At(i)' = At(i)
      BY <2>3, ThreadPoolAssumption DEF At, Take, AfterTake
    <3>2. Filled(i)' = Filled(i)
      BY <1>2, <2>3 DEF Filled
    <3> QED BY <2>1, <3>1, <3>2
  <2>4. CASE i = c /\ slot[c] # Empty
    <3>1. At(i)' = At(i) \ {w}
      BY <2>4 DEF At, Take, Types, AfterTake
    <3>2. Cardinality(At(i)') = Cardinality(At(i)) - 1
      BY <1>1, <2>4, <3>1, Waiters DEF Counting, CountRemove
    <3> QED BY <1>2, <2>1, <2>4, <3>2, LeadSmall DEF Filled
  <2> QED BY <2>2, <2>3, <2>4
<1> QED BY <1>3 DEF Balanced, Take, Emptied, mainVars, Pushed, Counts, ExitTurns

\* The main thread puts a request into the slot at the tail.  The requests are never
\* more than Capacity ahead, because then that slot would not be free.
LEMMA PushBalance ==
  ASSUME Types, NEW h \in Nat, NEW p \in Nat, Balanced(h, p), NEW x, PushCAS(x), x # Empty,
         ~pushing, UNCHANGED <<sqHead, sqTail, wpc, claimed, destroying>>,
         destroying => x = Exit /\ exits' = exits + 1 /\ exits \in Nat,
         \A i \in Slots : Cardinality(At(i)) \in Nat
  PROVE  Balanced(h, p)'
<1> DEFINE c == Turn(p)
<1>1. /\ slot[c] = Empty /\ slot' = [slot EXCEPT ![c] = x] /\ c \in Slots /\ pushing'
  BY WhereNext DEF PushCAS, Full
<1>2. p - h < Capacity
  <2> SUFFICES ASSUME p - h = Capacity PROVE FALSE
    BY ThreadPoolAssumption DEF Balanced, Pushed
  <2>1. Lead(h, p, c) = -1
    BY ThreadPoolAssumption, TurnsRepeat DEF Lead
  <2> QED BY <1>1, <2>1 DEF Balanced, Counts, Filled, Pushed
<1> HIDE DEF c
<1>3. ASSUME NEW i \in Slots PROVE Cardinality(At(i)') = Filled(i)' + Lead(h, p + 1, i)
  <2>1. Cardinality(At(i)) = Filled(i) + Lead(h, p, i)
    BY DEF Balanced, Counts, Pushed
  <2>2. Lead(h, p + 1, i) = IF i = c THEN Lead(h, p, i) - 1 ELSE Lead(h, p, i)
    BY <1>2, LeadAfterPush DEF Balanced, c, Pushed
  <2>3. CASE i = c
    <3>1. Filled(i)' = 1 /\ Filled(i) = 0
      BY <1>1, <2>3 DEF Filled, Types
    <3> QED BY <2>1, <2>2, <2>3, <3>1, LeadSmall DEF At
  <2>4. CASE i # c
    <3>1. Filled(i)' = Filled(i)
      BY <1>1, <2>4 DEF Filled
    <3> QED BY <2>1, <2>2, <2>4, <3>1 DEF At
  <2> QED BY <2>3, <2>4
<1>4. ExitTurns(Pushed(p))'
  <2> SUFFICES ASSUME destroying', NEW i \in Slots, slot'[i] # Empty
               PROVE  /\ slot'[i] = Exit
                      /\ \E n \in Nat : n < p + 1 /\ p + 1 <= n + exits' /\ Turn(n) = i
    BY <1>1 DEF ExitTurns, Pushed
  <2>1. CASE i = c
    <3>1. p < p + 1 /\ p + 1 <= p + exits'
      OBVIOUS
    <3> QED BY <1>1, <2>1 DEF c
  <2>2. CASE i # c
    <3>1. slot[i] # Empty /\ slot'[i] = slot[i]
      BY <1>1, <2>2
    <3>2. PICK n \in Nat : n < p /\ p <= n + exits /\ Turn(n) = i
      BY <3>1 DEF Balanced, ExitTurns, Pushed
    <3> QED BY <1>1, <3>2 DEF Balanced, ExitTurns
  <2> QED BY <2>1, <2>2
<1> QED BY <1>1, <1>2, <1>3, <1>4, ThreadPoolAssumption DEF Balanced, Pushed, Counts

\* The main thread has notified, and advances the tail.
LEMMA NotifyBalance ==
  ASSUME Types, NEW h \in Nat, NEW p \in Nat, Balanced(h, p), PushNotify
  PROVE  Balanced(h, p + 1)'
<1>1. \A i \in Slots : At(i)' = At(i)
  BY DEF At, Types, PushNotify
<1> QED BY <1>1, WhereNext DEF Balanced, PushNotify, Pushed, Counts, Filled, ExitTurns

-----------------------------------------------------------------------------
(***************************************************************************)
(* What they do to the workers that wait.                                  *)
(***************************************************************************)
\* Steps that neither use the slots nor wait at one.
LEMMA QuietWaits ==
  ASSUME Waiting, UNCHANGED <<slot, dequeuing, sqTail, pushing, claimed>>,
         \A w \in Workers : wpc'[w] = wpc[w] \/ wpc'[w] \notin Stays
  PROVE  Waiting'
BY Zenon DEF Waiting, OneStays, Flagged, Stays, NoLostWakeup

\* A request for a slot where a worker sleeps: its flag is set, and will be seen.
LEMMA PushWaits ==
  ASSUME Types, Waiting, NEW x, PushCAS(x), ~pushing,
         UNCHANGED <<dequeuing, sqTail, claimed, wpc>>
  PROVE  Waiting'
<1>1. ASSUME NEW w \in Workers, wpc[w] = "asleep", slot'[claimed[w]] # Empty
      PROVE  pushing' /\ Index(sqTail) = claimed[w] /\ dequeuing[claimed[w]]
  <2>1. dequeuing[claimed[w]]
    BY <1>1, Zenon DEF Waiting, Flagged
  <2> QED BY <1>1, <2>1 DEF PushCAS, Waiting, NoLostWakeup
<1> QED BY <1>1, Zenon DEF Waiting, OneStays, Flagged, NoLostWakeup

\* The main thread wakes the one worker that sleeps at the slot.
LEMMA NotifyWaits ==
  ASSUME Types, Waiting, PushNotify
  PROVE  Waiting'
<1> DEFINE i == Index(sqTail)
           sleepers == {w \in Workers : wpc[w] = "asleep" /\ claimed[w] = i}
<1>1. CASE \E v \in sleepers : wpc' = [wpc EXCEPT ![v] = "wait"]
  <2>1. PICK v \in sleepers : wpc' = [wpc EXCEPT ![v] = "wait"]
    BY <1>1
  <2>2. \A w \in Workers : wpc'[w] \in Stays => wpc[w] \in Stays
    BY <2>1 DEF Stays
  <2>3. Flagged'
    BY DEF Waiting, Flagged, PushNotify, Types
  <2>4. ASSUME NEW w \in Workers, wpc'[w] = "asleep", slot[claimed[w]] # Empty PROVE FALSE
    <3>1. w # v /\ wpc[w] = "asleep"
      BY <2>1, <2>4 DEF Types
    <3> QED BY <2>4, <3>1 DEF Waiting, OneStays, Stays, NoLostWakeup
  <2> QED BY <2>2, <2>3, <2>4, Zenon DEF Waiting, NoLostWakeup, PushNotify, OneStays
<1>2. CASE (~dequeuing[i] \/ sleepers = {}) /\ UNCHANGED wpc
  <2>1. OneStays' /\ Flagged'
    BY <1>2, Zenon DEF Waiting, OneStays, Flagged, PushNotify
  <2>2. ASSUME NEW w \in Workers, wpc[w] = "asleep", slot[claimed[w]] # Empty PROVE FALSE
    <3>1. claimed[w] = i /\ dequeuing[i]
      BY <2>2, Zenon DEF Waiting, NoLostWakeup
    <3> QED BY <1>2, <2>2, <3>1
  <2> QED BY <1>2, <2>1, Zenon DEF Waiting, NoLostWakeup, PushNotify
<1> QED BY <1>1, <1>2, Zenon DEF PushNotify

\* A worker claims a slot, and is about to look into it.
LEMMA ClaimWaits ==
  ASSUME Types, Waiting, NEW w \in Workers, Claim(w)
  PROVE  Waiting'
<1>1. Flagged' /\ NoLostWakeup'
  BY DEF Waiting, Flagged, NoLostWakeup, Claim, mainVars
<1> QED BY <1>1, Zenon DEF Waiting, OneStays, Stays, Types, Claim, mainVars

\* A worker that finds its slot empty is alone there.
LEMMA TakeWaits ==
  ASSUME Types, Waiting, NEW w \in Workers, Take(w),
         \A i \in Slots : slot[i] = Empty => \A u, v \in At(i) : u = v
  PROVE  Waiting'
<1> DEFINE c == claimed[w]
<1>1. IF slot[c] = Empty THEN wpc'[w] = "flag" ELSE wpc'[w] \in {"exited", "run"}
  BY ThreadPoolAssumption DEF AfterTake, Types, Take
<1>2. ASSUME NEW v \in Workers, wpc[v] \in Stays, claimed[v] = c, slot[c] = Empty PROVE v = w
  <2>1. v \in At(c) /\ w \in At(c)
    BY <1>2 DEF At, Stays, Take
  <2> QED BY <1>2, <2>1, Zenon DEF Types
<1> HIDE DEF c
<1>3. OneStays'
  <2> SUFFICES ASSUME NEW u \in Workers, NEW v \in Workers, wpc'[u] \in Stays, wpc'[v] \in Stays,
                      claimed[u] = claimed[v], u # v
               PROVE  FALSE
    BY Zenon DEF OneStays, Take
  <2>1. CASE u # w /\ v # w
    <3>1. wpc'[u] = wpc[u] /\ wpc'[v] = wpc[v]
      BY <2>1 DEF Types, Take
    <3> QED BY <3>1, Zenon DEF Waiting, OneStays
  <2>2. CASE u = w \/ v = w
    <3>1. slot[c] = Empty
      BY <1>1, <2>2 DEF Stays
    <3> QED BY <1>2, <2>2, <3>1 DEF c, Take
  <2> QED BY <2>1, <2>2
<1> QED BY <1>1, <1>3, Zenon DEF Waiting, Flagged, Take, Emptied, mainVars, Types, NoLostWakeup

\* A worker sets its flag, and then waits if its slot is still empty.
LEMMA WaitWaits ==
  ASSUME Types, Rest, Waiting, NEW w \in Workers, Flag(w) \/ Wait(w)
  PROVE  Waiting'
<1>1. UNCHANGED <<slot, sqTail, pushing, claimed>>
  BY DEF Flag, Wait, mainVars
<1>2. wpc[w] \in Stays /\ \A v \in Workers : v # w => wpc'[v] = wpc[v]
  BY DEF Flag, Wait, Types, Stays
<1>3. \A i \in Slots : dequeuing[i] => dequeuing'[i]
  BY DEF Flag, Wait, Rest
<1>4. wpc'[w] = "asleep" => slot[claimed[w]] = Empty
  BY DEF Flag, Wait, Types
<1> QED BY <1>1, <1>2, <1>3, <1>4, Zenon
        DEF Waiting, OneStays, Flagged, Types, Flag, Wait, Rest, NoLostWakeup

\* A worker that clears the flag of its slot is the only one that needs it.
LEMMA UnflagWaits ==
  ASSUME Types, Rest, Waiting, NEW w \in Workers, Unflag(w)
  PROVE  Waiting'
<1>1. /\ UNCHANGED <<slot, sqTail, pushing, claimed>> /\ wpc[w] = "unflag"
      /\ wpc' = [wpc EXCEPT ![w] = "take"]
      /\ dequeuing' = [dequeuing EXCEPT ![claimed[w]] = FALSE]
  BY DEF Unflag, mainVars
<1>2. wpc'[w] = "take" /\ \A v \in Workers : v # w => wpc'[v] = wpc[v]
  BY <1>1 DEF Types
<1>3. ASSUME NEW v \in Workers, wpc'[v] \in Stays
      PROVE  wpc[v] = wpc'[v] /\ v # w /\ dequeuing'[claimed[v]] = dequeuing[claimed[v]]
  <2>1. v # w /\ wpc[v] = wpc'[v]
    BY <1>2, <1>3 DEF Stays
  <2>2. claimed[v] # claimed[w]
    BY <1>1, <1>3, <2>1 DEF Waiting, OneStays, Stays
  <2>3. claimed[v] \in Slots
    BY DEF Types
  <2> QED BY <1>1, <2>1, <2>2, <2>3 DEF Rest
<1>4. OneStays'
  BY <1>1, <1>3, Zenon DEF Waiting, OneStays
<1>5. Flagged'
  BY <1>1, <1>3, Zenon DEF Waiting, Flagged, Stays
<1>6. NoLostWakeup'
  <2> SUFFICES ASSUME NEW v \in Workers, wpc'[v] = "asleep", slot'[claimed'[v]] # Empty
               PROVE  pushing' /\ Index(sqTail)' = claimed'[v] /\ dequeuing'[claimed'[v]]
    BY Zenon DEF NoLostWakeup
  <2>1. wpc[v] = "asleep" /\ dequeuing'[claimed[v]] = dequeuing[claimed[v]]
    BY <1>3, Zenon DEF Stays
  <2> QED BY <1>1, <2>1, Zenon DEF Waiting, NoLostWakeup, Index
<1> QED BY <1>4, <1>5, <1>6, Zenon DEF Waiting

-----------------------------------------------------------------------------
(***************************************************************************)
(* What they do to the end of the pool.                                    *)
(***************************************************************************)
\* Nothing that is submitted: all places for tasks are empty.
LEMMA NothingSubmitted ==
  ASSUME Types, Somewhere, Submitted = {}
  PROVE  backoff = <<>> /\ cq = <<>> /\ Kept(slot) = {}
<1>1. ASSUME NEW s \in Seq(Tasks), Range(s) = {} PROVE s = <<>>
  <2>1. Len(s) \in Nat /\ DOMAIN s = 1..Len(s)
    OBVIOUS
  <2>2. Len(s) = 0
    <3>1. 1 \notin DOMAIN s
      BY <1>1 DEF Range
    <3> QED BY <3>1
  <2> QED BY <2>2
<1> QED BY <1>1 DEF Types, Somewhere, Parts

\* The sets that are counted are finite.
LEMMA ExitsFinite ==
  ASSUME Counting
  PROVE  /\ IsFiniteSet(Exited) /\ Cardinality(Exited) \in Nat
         /\ IsFiniteSet(ExitSlots) /\ Cardinality(ExitSlots) \in Nat
<1>1. IsFiniteSet(Slots)
  BY ThreadPoolAssumption DEF Slots, Counting, CountInterval
<1> QED BY <1>1, ThreadPoolAssumption DEF Counting, CountSubset, CountType, Exited, ExitSlots

\* Steps that have nothing to do with the end of the pool.
LEMMA QuietCloses ==
  ASSUME Closing, UNCHANGED <<slot, destroying, exits, alive>>, pushing' => pushing,
         \A w \in Workers : wpc'[w] = "exited" <=> wpc[w] = "exited",
         Submitted' \subseteq Submitted \/ (alive /\ ~destroying)
  PROVE  Closing'
<1>1. Exited' = Exited /\ ExitSlots' = ExitSlots /\ (Joined => Joined')
  BY DEF Exited, ExitSlots, Joined
<1> QED BY <1>1 DEF Closing

\* A task is put into a slot of a pool that is not being destroyed.
LEMMA TaskCloses ==
  ASSUME Types, Closing, NEW t \in Tasks, PushCAS(t), alive, ~destroying,
         Index(sqTail) \in Slots, UNCHANGED <<destroying, exits, alive, wpc>>
  PROVE  Closing'
<1>1. ExitSlots' = ExitSlots
  BY ThreadPoolAssumption DEF ExitSlots, PushCAS, Full
<1> QED BY <1>1 DEF Closing, Exited

\* There is room for the exit requests: the slots hold nothing else, and the next
\* slot has not been reached again since the first of them.
LEMMA RoomForExits ==
  ASSUME Counting, Rest, NEW h \in Nat, NEW p \in Nat, Balanced(h, p),
         destroying, ~pushing, exits < Cardinality(Workers)
  PROVE  ~Full
<1> SUFFICES ASSUME slot[Turn(p)] # Empty PROVE FALSE
  BY WhereNext DEF Full
<1>1. PICK n \in Nat : n < p /\ p <= n + exits /\ Turn(n) = Turn(p)
  BY WhereNext DEF Balanced, ExitTurns, Pushed
<1> QED BY <1>1, TurnsDiffer, ThreadPoolAssumption DEF Rest, Counting, CountType

\* An exit request is put into a slot.
LEMMA ExitCloses ==
  ASSUME Counting, Types, Rest, Closing, NEW h \in Nat, NEW p \in Nat, Balanced(h, p), PushExit
  PROVE  Closing' /\ PushCAS(Exit)
<1>1. ExitSlots' = ExitSlots \cup {Turn(p)} /\ Turn(p) \notin ExitSlots
  BY ThreadPoolAssumption, WhereNext, RoomForExits DEF ExitSlots, Types, PushCAS, Full, PushExit
<1>2. Cardinality(ExitSlots') = Cardinality(ExitSlots) + 1
  BY <1>1, ExitsFinite DEF Counting, CountAdd
<1> QED BY <1>2, RoomForExits, ExitsFinite
        DEF Closing, PushExit, workerVars, taskVars, Exited, Submitted

\* A worker that takes an exit request is counted instead of it.
LEMMA TakeCloses ==
  ASSUME Counting, Types, Closing, NEW w \in Workers, Take(w)
  PROVE  Closing'
<1> DEFINE c == claimed[w]
<1>1. c \in Slots
  BY DEF Types
<1>2. wpc'[w] = AfterTake(slot[c]) /\ \A v \in Workers : v # w => wpc'[v] = wpc[v]
  BY DEF Types, Take
<1>3. slot'[c] = Empty /\ \A i \in Slots : i # c => slot'[i] = slot[i]
  BY DEF Types, Take, Emptied
<1> HIDE DEF c
<1>4. CASE slot[c] = Exit
  <2>1. wpc'[w] = "exited"
    BY <1>2, <1>4 DEF AfterTake
  <2>2. Exited' = Exited \cup {w} /\ w \notin Exited
    BY <1>2, <2>1 DEF Exited, Take
  <2>3. ExitSlots' = ExitSlots \ {c} /\ c \in ExitSlots
    <3>1. Empty # Exit
      BY ThreadPoolAssumption
    <3> QED BY <1>1, <1>3, <1>4, <3>1 DEF ExitSlots
  <2>4. Cardinality(Exited') = Cardinality(Exited) + 1
    BY <2>2, ExitsFinite DEF Counting, CountAdd
  <2>5. Cardinality(ExitSlots') = Cardinality(ExitSlots) - 1
    BY <2>3, ExitsFinite DEF Counting, CountRemove
  <2>6. UNCHANGED <<alive, destroying, exits, pushing, st>> /\ ~Joined
    BY DEF Take, mainVars, taskVars, Joined
  <2>7. Cardinality(Exited) \in Nat /\ Cardinality(ExitSlots) \in Nat
    BY ExitsFinite
  <2>8. exits = Cardinality(Exited') + Cardinality(ExitSlots')
    BY <2>4, <2>5, <2>7 DEF Closing
  <2> QED BY <2>6, <2>8 DEF Closing, Submitted
<1>5. CASE slot[c] # Exit
  <2>1. wpc'[w] # "exited"
    BY <1>2, <1>5 DEF AfterTake
  <2> QED BY <1>1, <1>2, <1>3, <1>5, <2>1, ThreadPoolAssumption
          DEF Closing, Take, mainVars, taskVars, Joined, Submitted, Exited, ExitSlots
<1> QED BY <1>4, <1>5

\* The destructor starts, and ends when its threads have been joined.
LEMMA DestroyCloses ==
  ASSUME Closing, Destroy \/ Join
  PROVE  Closing'
<1>1. CASE Destroy
  <2>1. alive /\ alive' /\ destroying' /\ Submitted = {}
    BY <1>1 DEF Destroy, MainMayCall, Submitted
  <2> QED BY <2>1 DEF Closing, Destroy, Join, workerVars, taskVars, Exited, ExitSlots, Submitted
<1>2. CASE Join
  <2>1. destroying /\ ~pushing /\ exits = Cardinality(Workers) /\ Joined /\ ~destroying' /\ ~alive'
    BY <1>2 DEF Join
  <2> QED BY <2>1
          DEF Closing, Destroy, Join, workerVars, taskVars, Exited, ExitSlots, Submitted, Joined
<1> QED BY <1>1, <1>2

\* Nothing is in the slots when the destructor starts.
LEMMA SlotsEmpty ==
  ASSUME Counting, Types, Somewhere, Closing, Submitted = {},
         exits = 0 \/ (Joined /\ exits = Cardinality(Workers))
  PROVE  \A i \in Slots : slot[i] = Empty
<1>1. Cardinality(ExitSlots) = 0
  <2>1. CASE exits = 0
    BY <2>1, ExitsFinite DEF Closing
  <2>2. CASE Joined /\ exits = Cardinality(Workers)
    <3>1. Exited = Workers
      BY <2>2 DEF Exited, Joined
    <3> QED BY <3>1, ExitsFinite DEF Closing
  <2> QED BY <2>1, <2>2
<1>2. ExitSlots = {}
  BY <1>1, ExitsFinite DEF Counting, CountType
<1> QED BY <1>2, NothingSubmitted DEF ExitSlots, Types, Kept

\* When the threads have been joined, all that was claimed has been requested.
LEMMA EvenAtLast ==
  ASSUME Counting, Types, Somewhere, Closing, NEW h \in Nat, NEW p \in Nat, Balanced(h, p), ~alive
  PROVE  sqHead = sqTail
<1>1. ASSUME NEW i \in Slots PROVE Lead(h, p, i) = 0
  <2>1. Cardinality(At(i)) = 0 /\ Filled(i) = 0
    BY Waiters, SlotsEmpty DEF Filled, Closing, At, Joined
  <2> QED BY <2>1, LeadSmall DEF Balanced, Counts, Pushed, Closing
<1>2. ~(p < h)
  <2> SUFFICES ASSUME p < h PROVE FALSE
    OBVIOUS
  <2> QED BY <1>1, WhereNext DEF Lead
<1>3. ~(h < p)
  <2> SUFFICES ASSUME h < p PROVE FALSE
    OBVIOUS
  <2> QED BY <1>1, WhereNext DEF Lead
<1> QED BY <1>2, <1>3 DEF Balanced

-----------------------------------------------------------------------------
\* The threads have been started, and nothing has been claimed or requested.
LEMMA PoolStarts == ASSUME Counting, Init PROVE Pool
<1> USE DEF Init
<1>1. Rest
  <2>1. exits \in 0..Cardinality(Workers) /\ ticks \in Nat
    BY ThreadPoolAssumption DEF Counting, CountType
  <2> QED BY <2>1, Zenon DEF Rest
<1>2. Exited = {} /\ ExitSlots = {} /\ Submitted = {}
  BY ThreadPoolAssumption DEF Exited, ExitSlots, Submitted
<1>3. Balanced(0, 0)
  <2>1. Capacity \in Nat /\ Width \in Nat \ {0} /\ Stride \in Nat
    BY ThreadPoolAssumption
  <2>2. (0 * Stride) % Width = 0
    <3>1. 0 * Stride = 0
      BY <2>1
    <3> QED BY <2>1
  <2>3. ASSUME NEW i \in Slots PROVE At(i) = {} /\ Filled(i) = 0 /\ Lead(0, 0, i) = 0
    BY DEF At, Filled, Lead
  <2>4. Counts(0, 0)
    <3>1. Cardinality({}) = 0 /\ 0 + 0 = 0
      BY DEF Counting, CountType
    <3> QED BY <2>3, <3>1, Zenon DEF Counts
  <2> QED BY <2>1, <2>4 DEF Balanced, Pushed, ExitTurns
<1> QED BY <1>1, <1>2, <1>3, StartsRight
        DEF Pool, InStep, Waiting, OneStays, Flagged, NoLostWakeup, Stays, Closing, Counting,
            CountType

\* The other types are kept.
LEMMA RestKept == ASSUME Types, Rest, Next, Cardinality(Workers) \in Nat PROVE Rest'
<1> USE DEF Rest
<1>1. CASE PushNotify \/ Exchange \/ ResumeParent \/ UserReturns \/ Destroy \/ Join
  BY <1>1, Zenon DEF PushNotify, Exchange, ResumeParent, UserReturns, Destroy, Join
<1>2. CASE SubmitBackoffSQ
  BY <1>2, Zenon DEF SubmitBackoffSQ, PushCAS
<1>3. CASE Tick
  <2>1. /\ ticks' = ticks - 1 /\ ticks > 0
        /\ UNCHANGED <<dequeuing, pushing, destroying, exits, alive>>
        /\ mpc' \in {"exchange", "stale"}
    BY <1>3 DEF Tick
  <2> QED BY <2>1
<1>4. CASE PushExit
  <2>1. /\ exits' = exits + 1 /\ exits < Cardinality(Workers) /\ pushing' \in BOOLEAN
        /\ UNCHANGED <<dequeuing, ticks, mpc, destroying, alive>>
    BY <1>4, Zenon DEF PushExit, PushCAS
  <2> QED BY <2>1
<1>5. CASE Poll
  BY <1>5, Zenon DEF Poll, vars, mainVars
<1>6. ASSUME NEW t \in Tasks, Run(t) \/ Cancel(t) PROVE Rest'
  BY <1>6, Zenon DEF Run, Cancel, PushCAS, mainVars
<1>7. ASSUME NEW w \in Workers, Claim(w) \/ Take(w) \/ Wait(w) \/ PushToCQ(w) \/ Confirm(w)
      PROVE  Rest'
  BY <1>7, Zenon DEF Claim, Take, Wait, PushToCQ, Confirm, mainVars
<1>8. ASSUME NEW w \in Workers, Flag(w) \/ Unflag(w) PROVE Rest'
  <2>1. UNCHANGED <<ticks, mpc, pushing, destroying, alive, exits>>
    BY <1>8, Zenon DEF Flag, Unflag, mainVars
  <2> QED BY <1>8, <2>1 DEF Flag, Unflag
<1>9. ASSUME NEW w \in Workers, Post(w) PROVE Rest'
  <2>1. UNCHANGED <<dequeuing, mpc, pushing, destroying, alive, exits>> /\ ticks' = ticks + 1
    BY <1>9, Zenon DEF Post, mainVars
  <2> QED BY <2>1
<1> QED BY <1>1, <1>2, <1>3, <1>4, <1>5, <1>6, <1>7, <1>8, <1>9, Zenon
        DEF Next, MainStep, WorkerStep

\* Steps that do not use the submission queue.
LEMMA QuietKeeps ==
  ASSUME InStep, Waiting, Closing,
         UNCHANGED <<slot, dequeuing, sqHead, sqTail, pushing, claimed, destroying, exits, alive>>,
         \A w \in Workers : \/ wpc'[w] = wpc[w]
                            \/ wpc[w] \in {"run", "post"} /\ wpc'[w] \in {"post", "pop"},
         Submitted' \subseteq Submitted \/ (alive /\ ~destroying)
  PROVE  InStep' /\ Waiting' /\ Closing'
BY SameBalance, QuietWaits, QuietCloses DEF InStep, At, Stays

\* A task is put into a slot.
LEMMA TaskKeeps ==
  ASSUME Counting, Types, InStep, Waiting, Closing, NEW t \in Tasks, PushCAS(t),
         alive, ~destroying, ~pushing,
         UNCHANGED <<dequeuing, sqHead, sqTail, wpc, claimed, destroying, exits, alive>>
  PROVE  InStep' /\ Waiting' /\ Closing'
BY PushWaits, TaskCloses, Waiters, PushBalance, ThreadPoolAssumption, WhereNext DEF InStep

\* The steps of the main thread keep the invariant.
LEMMA MainKeeps ==
  ASSUME Counting, Pool, MainStep \/ Destroy \/ Poll \/ \E t \in Tasks : Run(t) \/ Cancel(t)
  PROVE  InStep' /\ Waiting' /\ Closing'
<1> Types /\ Rest /\ InStep /\ Waiting /\ Closing /\ Inv
  BY DEF Pool, Inv
<1>1. CASE PushNotify
  <2>1. /\ UNCHANGED <<slot, destroying, exits, alive, st>> /\ ~pushing'
        /\ \A w \in Workers : wpc'[w] = "exited" <=> wpc[w] = "exited"
    BY <1>1 DEF PushNotify, taskVars, Types
  <2>2. InStep'
    <3>1. PICK h \in Nat, p \in Nat : Balanced(h, p)
      BY Zenon DEF InStep
    <3>2. p + 1 \in Nat /\ Balanced(h, p + 1)'
      BY <1>1, <3>1, NotifyBalance
    <3> QED BY <3>2, Zenon DEF InStep
  <2> QED BY <1>1, <2>1, <2>2, NotifyWaits, QuietCloses DEF Submitted
<1>2. CASE Tick \/ Exchange \/ UserReturns \/ Poll \/ \E t \in Tasks : Cancel(t)
  <2>1. UNCHANGED <<slot, dequeuing, sqHead, sqTail, pushing, claimed, destroying,
                  exits, alive, wpc, st>>
    BY <1>2, Zenon DEF Tick, Exchange, UserReturns, Poll, Cancel, vars, mainVars,
                         workerVars, taskVars
  <2>2. Submitted' = Submitted
    BY <2>1 DEF Submitted
  <2> QED BY <2>1, <2>2, QuietKeeps
<1>3. CASE ResumeParent
  <2>1. UNCHANGED <<slot, dequeuing, sqHead, sqTail, pushing, claimed, destroying,
                  exits, alive, wpc>>
    BY <1>3, Zenon DEF ResumeParent, workerVars
  <2> QED BY <1>3, <2>1, QuietKeeps DEF ResumeParent, Submitted, Types
<1>4. CASE SubmitBackoffSQ
  <2>1. /\ ~pushing
        /\ UNCHANGED <<dequeuing, sqHead, sqTail, claimed, destroying,
                  exits, alive, wpc, st>>
    BY <1>4, Zenon DEF SubmitBackoffSQ, workerVars, taskVars
  <2>2. Submitted' = Submitted
    BY <2>1 DEF Submitted
  <2>3. CASE Retry /\ PushCAS(Head(backoff))
    <3>1. Head(backoff) \in Tasks /\ backoff # <<>>
      BY <2>3 DEF Retry, Types
    <3> QED BY <2>1, <2>3, <3>1, TaskKeeps, NothingSubmitted DEF Closing, Inv
  <2>4. CASE UNCHANGED <<slot, pushing>>
    BY <2>1, <2>2, <2>4, QuietKeeps
  <2> QED BY <1>4, <2>3, <2>4, Zenon DEF SubmitBackoffSQ
<1>5. CASE PushExit
  <2>1. PICK h \in Nat, p \in Nat : Balanced(h, p)
    BY Zenon DEF InStep
  <2>2. Closing' /\ PushCAS(Exit)
    BY <1>5, <2>1, ExitCloses
  <2>3. Balanced(h, p)'
    BY <1>5, <2>1, <2>2, Waiters, PushBalance, ThreadPoolAssumption DEF PushExit, workerVars, Rest
  <2> QED BY <1>5, <2>2, <2>3, PushWaits, Zenon DEF InStep, PushExit, workerVars
<1>6. CASE Destroy
  <2>1. /\ UNCHANGED <<slot, dequeuing, sqHead, sqTail, pushing, wpc, claimed>>
        /\ alive /\ ~destroying /\ Submitted = {}
    BY <1>6 DEF Destroy, MainMayCall, workerVars, Submitted
  <2> QED BY <1>6, <2>1, DestroyCloses, DestroyBalance, SlotsEmpty, QuietWaits
          DEF InStep, Closing, Inv
<1>7. CASE Join
  <2>1. UNCHANGED <<slot, dequeuing, sqHead, sqTail, pushing, wpc, claimed>> /\ ~destroying'
    BY <1>7 DEF Join, workerVars
  <2>2. InStep'
    BY <2>1, SameBalance, Zenon DEF InStep, At
  <2>3. Waiting'
    BY <2>1, QuietWaits
  <2> QED BY <1>7, <2>2, <2>3, DestroyCloses
<1>8. ASSUME NEW t \in Tasks, Run(t) PROVE InStep' /\ Waiting' /\ Closing'
  <2>1. /\ alive /\ ~destroying /\ ~pushing
        /\ UNCHANGED <<dequeuing, sqHead, sqTail, claimed, destroying,
                  exits, alive, wpc>>
    BY <1>8, Zenon DEF Run, MainMayCall, workerVars
  <2>2. CASE PushCAS(t)
    BY <2>1, <2>2, TaskKeeps
  <2>3. CASE UNCHANGED <<slot, pushing>>
    BY <2>1, <2>3, QuietKeeps
  <2> QED BY <1>8, <2>2, <2>3, Zenon DEF Run
<1> QED BY <1>1, <1>2, <1>3, <1>4, <1>5, <1>6, <1>7, <1>8, Zenon DEF MainStep

\* The steps of a worker keep the invariant.
LEMMA WorkerKeeps ==
  ASSUME Counting, Pool, NEW w \in Workers, WorkerStep(w) \/ Confirm(w)
  PROVE  InStep' /\ Waiting' /\ Closing'
<1> Types /\ Rest /\ InStep /\ Waiting /\ Closing
  BY DEF Pool, Inv
<1>1. PICK h \in Nat, p \in Nat : Balanced(h, p)
  BY Zenon DEF InStep
<1>2. CASE Claim(w)
  <2>1. h + 1 \in Nat /\ Balanced(h + 1, p)'
    BY <1>1, <1>2, ClaimBalance
  <2> QED BY <1>2, <2>1, ClaimWaits, QuietCloses
          DEF InStep, Claim, mainVars, taskVars, Submitted, Types
<1>3. CASE Take(w)
  <2>1. InStep'
    BY <1>3, TakeBalance, Zenon DEF InStep
  <2> QED BY <1>1, <1>3, <2>1, TakeWaits, TakeCloses, SlotAlone
<1>4. CASE Flag(w) \/ Wait(w) \/ Unflag(w)
  <2>1. UNCHANGED <<slot, sqHead, sqTail, pushing, claimed, destroying,
                  exits, alive, st>>
    BY <1>4, Zenon DEF Flag, Wait, Unflag, mainVars, taskVars
  <2>2. \A i \in Slots : At(i)' = At(i)
    BY <1>4 DEF At, Flag, Wait, Unflag, Types
  <2> QED BY <1>4, <2>1, <2>2, WaitWaits, UnflagWaits, SameBalance, QuietCloses
          DEF InStep, Submitted, Flag, Wait, Unflag, Types
<1>5. CASE PushToCQ(w) \/ Post(w) \/ Confirm(w)
  <2>1. UNCHANGED <<slot, dequeuing, sqHead, sqTail, pushing, claimed, destroying,
                  exits, alive, st>>
    BY <1>5, Zenon DEF PushToCQ, Post, Confirm, mainVars, workerVars, taskVars
  <2> QED BY <1>5, <2>1, QuietKeeps DEF Submitted, PushToCQ, Post, Confirm, workerVars, Types
<1> QED BY <1>2, <1>3, <1>4, <1>5, Zenon DEF WorkerStep

\* Every step keeps the invariant.
LEMMA PoolStep == ASSUME Counting, Pool, [Next]_vars PROVE Pool'
<1>1. CASE Next
  <2>1. Rest'
    BY <1>1, RestKept, ThreadPoolAssumption DEF Pool, Inv, Counting, CountType
  <2> QED BY <1>1, <2>1, StepKeeps, MainKeeps, WorkerKeeps DEF Pool, Next
<1>2. CASE UNCHANGED vars
  <2>1. UNCHANGED <<slot, dequeuing, sqHead, sqTail, pushing, claimed, destroying,
                exits, alive, wpc, st, ticks, mpc>>
    BY <1>2, Zenon DEF vars, mainVars, workerVars, taskVars
  <2> QED BY <2>1, StepKeeps, QuietKeeps DEF Pool, Submitted, Rest
<1> QED BY <1>1, <1>2

-----------------------------------------------------------------------------
INSTANCE FiniteSetTheorems

\* The library's facts about finite sets.
LEMMA CountingHolds == Counting
<1>1. CountInterval
  BY FS_Interval DEF CountInterval
<1> QED BY <1>1, FS_EmptySet, FS_CardinalityType, FS_Subset, FS_AddElement, FS_Injection
        DEF Counting, CountType, CountSubset, CountAdd, CountRemove, CountInjection

\* The invariant holds in every state of the pool.
LEMMA PoolAlways == Spec => []Pool
<1>1. Init => Pool
  BY CountingHolds, PoolStarts
<1>2. Pool /\ [Next]_vars => Pool'
  BY CountingHolds, PoolStep
<1> QED BY <1>1, <1>2, PTL DEF Spec

\* No worker of a ThreadPool stays asleep in popFromSQ() beside a request: for any
\* number of worker threads and slots, if there is one in its slot then the main thread
\* is in pushToSQ() for that slot, past the CAS, and will find the flag set.
THEOREM ThreadPoolNoLostWakeup == Spec => []NoLostWakeup
<1>1. Pool => NoLostWakeup
  BY DEF Pool, Waiting
<1> QED BY <1>1, PoolAlways, PTL

\* What is in a container at most once is counted once if it is there.
LEMMA CountedOnce ==
  ASSUME NEW f, NEW t,
         \A i, j \in DOMAIN f : f[i] = t /\ f[j] = t => i = j
  PROVE  Count({i \in DOMAIN f : f[i] = t})
           = IF t \in {f[i] : i \in DOMAIN f} THEN 1 ELSE 0
<1>1. CASE \E i \in DOMAIN f : f[i] = t
  <2>1. PICK k \in DOMAIN f : f[k] = t
    BY <1>1
  <2>2. Count({k}) = 1
    BY FS_Singleton DEF Count
  <2> QED BY <2>1, <2>2
<1>2. CASE ~\E i \in DOMAIN f : f[i] = t
  <2>1. {i \in DOMAIN f : f[i] = t} = {}
    BY <1>2
  <2> QED BY <2>1, FS_EmptySet DEF Count
<1> QED BY <1>1, <1>2

\* A task given to ThreadPool::run() is in exactly one of the slots, the workers'
\* hands, the backoff queue, the completion queue and the list of drainCQ() until it
\* is resumed, and in none before and after: none is lost, and none runs twice.
THEOREM ThreadPoolOnePlace == Spec => []OnePlace
<1>1. ASSUME Inv PROVE OnePlace
  <2> SUFFICES ASSUME NEW t \in Tasks
               PROVE  Places(t) = IF st[t] = "submitted" THEN 1 ELSE 0
    BY DEF OnePlace
  <2> DEFINE In(b) == IF b THEN 1 ELSE 0
  <2>1. DOMAIN slot = Slots /\ DOMAIN held = Workers
    BY <1>1 DEF Inv, Types
  <2>2. Count({i \in Slots : slot[i] = t}) = In(t \in Kept(slot))
    <3>1. \A i, j \in DOMAIN slot : slot[i] = t /\ slot[j] = t => i = j
      BY <1>1 DEF Inv, Once, OnceIn
    <3> QED BY <2>1, <3>1, CountedOnce, Zenon DEF Kept
  <2>3. Count({w \in Workers : held[w] = t}) = In(t \in Kept(held))
    <3>1. \A i, j \in DOMAIN held : held[i] = t /\ held[j] = t => i = j
      BY <1>1 DEF Inv, Once, OnceIn
    <3> QED BY <2>1, <3>1, CountedOnce, Zenon DEF Kept
  <2>4. ASSUME NEW s, IsInjective(s)
        PROVE  Count({i \in DOMAIN s : s[i] = t}) = In(t \in Range(s))
    BY <2>4, CountedOnce, Zenon DEF IsInjective, Range
  <2>5. /\ Count({i \in DOMAIN backoff : backoff[i] = t}) = In(t \in Range(backoff))
        /\ Count({i \in DOMAIN cq : cq[i] = t}) = In(t \in Range(cq))
        /\ Count({i \in DOMAIN batch : batch[i] = t}) = In(t \in Range(batch))
    BY <1>1, <2>4 DEF Inv, Once
  <2>6. Places(t) = In(t \in Kept(slot)) + In(t \in Kept(held)) + In(t \in Range(backoff))
                    + In(t \in Range(cq)) + In(t \in Range(batch))
    BY <2>2, <2>3, <2>5 DEF Places
  <2>7. st[t] = "submitted" <=> t \in Submitted
    BY DEF Submitted
  <2>8. Parts(Submitted, Kept(slot), Kept(held), Range(backoff), Range(cq), Range(batch))
    BY <1>1 DEF Inv, Somewhere
  <2> QED BY <2>6, <2>7, <2>8 DEF Parts
<1> QED BY <1>1, InvAlways, PTL

\* The state of a ThreadPool is well typed, every submitted task is in one place, and
\* the assertions of ~ThreadPool() hold: no backoff queue, room in the slots for an exit
\* request for every thread, and nothing left in the queues once they are joined.
THEOREM ThreadPoolEachTaskOnce == Spec => []EachTaskOnce
<1>1. ASSUME Pool, OnePlace PROVE EachTaskOnce
  <2>1. Types /\ Rest /\ InStep /\ Closing /\ Somewhere
    BY <1>1 DEF Pool, Inv
  <2>2. PICK h \in Nat, p \in Nat : Balanced(h, p)
    BY <2>1 DEF InStep
  <2>3. TypeOK
    BY <2>1, <2>2, WhereNext, Zenon DEF TypeOK, Types, Rest
  <2>4. destroying => backoff = <<>>
    BY <2>1, NothingSubmitted DEF Closing
  <2>5. destroying /\ ~pushing /\ exits < Count(Workers) => ~Full
    BY <2>1, <2>2, RoomForExits, CountingHolds DEF Count
  <2>6. ~alive => sqHead = sqTail /\ cq = <<>>
    BY <2>1, <2>2, EvenAtLast, NothingSubmitted, CountingHolds DEF Closing
  <2> QED BY <1>1, <2>3, <2>4, <2>5, <2>6 DEF EachTaskOnce
<1> QED BY <1>1, PoolAlways, ThreadPoolOnePlace, PTL
=============================================================================
