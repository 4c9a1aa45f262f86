--------------------------- MODULE CBPortalProofs ---------------------------
(***************************************************************************)
(* Proofs about CBPortal, for any number of portals, any overloads, and any *)
(* bounds on the calls of untilCBCalled() and of the bridge callbacks.      *)
(***************************************************************************)
EXTENDS CBPortal, FiniteSetTheorems, TLAPS

\* A step of the task is only ever on top of the stack, and is there as long as
\* the task is not suspended.
TaskOnTop(s, c) ==
  /\ c = "running" => s # <<>> /\ s[1] = 0
  /\ \A i \in 1..Len(s) : s[i] = 0 => c = "running" /\ i = 1

\* An initiate function whose proxy was not completed is the one of the last
\* proxy, has nothing above it, and the task is suspended on that proxy, which
\* knows that the function has not returned.
Initiating(s, c, d, u, st) ==
  \A i \in 1..Len(s) : s[i] # 0 /\ s[i] \notin d
                         => c = "proxy" /\ s[i] = u /\ i = 1 /\ st # "Initiated"

\* A task suspended on a proxy: the initiate function runs or has returned, and
\* a request made before it returned is not forgotten.
OnProxy ==
  cst = "proxy" => /\ uses > 0 /\ uses \notin completed
                   /\ status # "Initiated" => stack # <<>> /\ stack[1] = uses
                   /\ status # "Initiated" => (cxl <=> status = "CancelPending")
                   /\ status = "Initiated" /\ cxl => mode = "plain"

\* A task that waits is registered with all of its portals, and those hold no value;
\* a portal keeps the parent it had only if nobody has a callback of it.
Registered(c, w, f, P, a) ==
  IF c \in {"proxy", "portals"} THEN w = P /\ f = {} ELSE a => w = {}

\* Who may still call: with portals of the task's own nobody after its end, with
\* portals inside the proxy nobody after its await.
Bridges(a, c, m) ==
  a => IF m = "external" THEN c \notin {"done", "cancelled"} ELSE c = "proxy"

IInv ==
  /\ TypeOK
  /\ TaskOnTop(stack, cst)
  /\ Initiating(stack, cst, completed, uses, status)
  /\ OnProxy
  /\ Registered(cst, waiting, full, Portals, armed)
  /\ cst = "portals" => ~cxl
  /\ Bridges(armed, cst, mode)
  /\ calls = got + Cardinality(full)

-----------------------------------------------------------------------------

LEMMA HasFirst ==
  ASSUME NEW f, f \subseteq Nat, f # {}
  PROVE  First(f) \in f
<1> DEFINE R == {ss \in Nat \X Nat : ss[1] < ss[2]}
<1>1. IsWellFoundedOn(R, Nat)
  BY NatLessThanWellFounded DEF OpToRel
<1> HIDE DEF R
<1>a. \E p \in f : \A q \in f : ~(<<q, p>> \in R)
  BY <1>1, WFMin, Zenon
<1>2. PICK p \in f : \A q \in f : ~(<<q, p>> \in R)
  BY <1>a
<1>3. ASSUME NEW q \in f PROVE p =< q
  <2>1. q < p => <<q, p>> \in R
    BY DEF R
  <2> QED
    BY <1>2, <2>1
<1> QED
  BY Zenon, <1>3 DEF First

\* What runs below the task: initiate functions, of proxies that are gone.
AllDone(s, d) == \A i \in 1..Len(s) : s[i] # 0 /\ s[i] \in d

LEMMA Popped ==
  ASSUME NEW T, NEW s \in Seq(T), s # <<>>
  PROVE  /\ Tail(s) \in Seq(T) /\ Len(Tail(s)) = Len(s) - 1
         /\ \A i \in 1..Len(s) - 1 : Tail(s)[i] = s[i + 1]
         /\ 1 \in 1..Len(s) /\ Head(s) = s[1] /\ Head(s) \in T
  OBVIOUS

LEMMA Pushed ==
  ASSUME NEW T, NEW s \in Seq(T), NEW e \in T
  PROVE  /\ <<e>> \o s \in Seq(T) /\ Len(<<e>> \o s) = Len(s) + 1
         /\ <<e>> \o s # <<>>
         /\ \A i \in 2..Len(s) + 1 : i - 1 \in 1..Len(s) /\ (<<e>> \o s)[i] = s[i - 1]
         /\ (<<e>> \o s)[1] = e
         /\ Len(s) \in Nat
  OBVIOUS

\* Everything below a step of the task, or below an initiate function, is an
\* initiate function that will find completed set.
LEMMA BelowTop ==
  ASSUME NEW u \in Nat, NEW s \in Seq(0..u), s # <<>>, NEW c, NEW d, NEW st,
         TaskOnTop(s, c), Initiating(s, c, d, u, st)
  PROVE  Tail(s) \in Seq(0..u) /\ AllDone(Tail(s), d)
<1>1. /\ Tail(s) \in Seq(0..u) /\ Len(Tail(s)) = Len(s) - 1
      /\ \A i \in 1..Len(s) - 1 : Tail(s)[i] = s[i + 1]
  BY Popped
<1>2. ASSUME NEW i \in 1..Len(Tail(s)) PROVE Tail(s)[i] # 0 /\ Tail(s)[i] \in d
  <2>1. i + 1 \in 1..Len(s) /\ i + 1 # 1 /\ Tail(s)[i] = s[i + 1]
    BY <1>1
  <2> QED
    BY <2>1 DEF TaskOnTop, Initiating
<1> QED
  BY <1>1, <1>2 DEF AllDone

LEMMA DoneBelow ==
  ASSUME NEW u \in Nat, NEW s \in Seq(0..u), NEW d, AllDone(s, d), NEW st, NEW v, NEW c
  PROVE  /\ c # "running" => TaskOnTop(s, c)
         /\ Initiating(s, c, d, v, st)
  BY DEF AllDone, TaskOnTop, Initiating

LEMMA TaskAbove ==
  ASSUME NEW u \in Nat, NEW s \in Seq(0..u), NEW d, AllDone(s, d), NEW st, NEW v
  PROVE  /\ (<<0>> \o s) \in Seq(0..u)
         /\ TaskOnTop((<<0>> \o s), "running")
         /\ Initiating((<<0>> \o s), "running", d, v, st)
<1> DEFINE t == (<<0>> \o s)
<1>1. /\ t \in Seq(0..u) /\ Len(t) = Len(s) + 1 /\ t # <<>>
      /\ \A i \in 2..Len(s) + 1 : i - 1 \in 1..Len(s) /\ t[i] = s[i - 1]
      /\ t[1] = 0 /\ Len(s) \in Nat
  BY Pushed
<1> HIDE DEF t
<1>2. \A i \in 1..Len(t) : i = 1 \/ (i - 1 \in 1..Len(s) /\ t[i] = s[i - 1])
  <2>1. \A i \in 1..Len(t) : i = 1 \/ i \in 2..Len(s) + 1
    BY <1>1
  <2> QED
    BY <1>1, <2>1, Zenon
<1>3. \A i \in 1..Len(t) : i = 1 \/ (t[i] # 0 /\ t[i] \in d)
  BY <1>2 DEF AllDone
<1>4. t[1] = 0
  BY <1>1
<1>5. TaskOnTop(t, "running")
  BY <1>1, <1>3, <1>4 DEF TaskOnTop
<1>6. Initiating(t, "running", d, v, st)
  BY <1>3, <1>4 DEF Initiating
<1> QED
  BY <1>1, <1>5, <1>6 DEF t

LEMMA InitiateAbove ==
  ASSUME NEW u \in Nat, NEW s \in Seq(0..u), NEW d, AllDone(s, d),
         NEW st, st # "Initiated"
  PROVE  /\ (<<u + 1>> \o s) \in Seq(0..(u + 1))
         /\ (<<u + 1>> \o s) # <<>>
         /\ (<<u + 1>> \o s)[1] = u + 1
         /\ TaskOnTop((<<u + 1>> \o s), "proxy")
         /\ Initiating((<<u + 1>> \o s), "proxy", d, u + 1, st)
<1> DEFINE t == (<<u + 1>> \o s)
<1>0. s \in Seq(0..(u + 1)) /\ u + 1 \in 0..(u + 1)
  OBVIOUS
<1>1. /\ t \in Seq(0..(u + 1)) /\ Len(t) = Len(s) + 1 /\ t # <<>>
      /\ \A i \in 2..Len(s) + 1 : i - 1 \in 1..Len(s) /\ t[i] = s[i - 1]
      /\ t[1] = u + 1 /\ Len(s) \in Nat
  BY <1>0, Pushed
<1> HIDE DEF t
<1>2. \A i \in 1..Len(t) : i = 1 \/ (i - 1 \in 1..Len(s) /\ t[i] = s[i - 1])
  <2>1. \A i \in 1..Len(t) : i = 1 \/ i \in 2..Len(s) + 1
    BY <1>1
  <2> QED
    BY <1>1, <2>1, Zenon
<1>3. \A i \in 1..Len(t) : i = 1 \/ (t[i] # 0 /\ t[i] \in d)
  BY <1>2 DEF AllDone
<1>4. t[1] = u + 1 /\ u + 1 # 0
  BY <1>1
<1>5. TaskOnTop(t, "proxy")
  BY <1>3, <1>4 DEF TaskOnTop
<1>6. Initiating(t, "proxy", d, u + 1, st)
  BY <1>3, <1>4 DEF Initiating
<1> QED
  BY <1>1, <1>4, <1>5, <1>6 DEF t

-----------------------------------------------------------------------------
\* What the portals' operators keep.

LEMMA Finite ==
  ASSUME TypeOK
  PROVE  n \in Nat /\ IsFiniteSet(Portals) /\ Portals \subseteq Nat /\ 1 \in Portals
<1>1. n \in Nat /\ n > 0
  BY CBPortalAssumption DEF TypeOK
<1> QED
  BY <1>1, FS_Interval DEF Portals

\* await_resume() takes one value out of a portal.
LEMMA TakesOne ==
  ASSUME TypeOK, NEW f, f \subseteq Portals, f # {}
  PROVE  /\ f \ {First(f)} \subseteq Portals
         /\ Cardinality(f \ {First(f)}) = Cardinality(f) - 1
         /\ Cardinality(f) \in Nat
<1>1. IsFiniteSet(f) /\ First(f) \in f
  BY Finite, FS_Subset, HasFirst
<1> QED
  BY <1>1, FS_RemoveElement, FS_CardinalityType

\* No frame below the task is left that would go on to use a proxy it destroyed.
LEMMA TellsAll ==
  ASSUME IInv, cst \in {"proxy", "portals"}
  PROVE  AllDone(stack, Completed) /\ stack \in Seq(0..uses) /\ uses \in Nat
<1>1. stack \in Seq(0..uses) /\ uses \in Nat
  BY CBPortalAssumption DEF IInv, TypeOK
<1>2. ASSUME NEW i \in 1..Len(stack) PROVE stack[i] # 0 /\ stack[i] \in Completed
  <2>1. stack[i] # 0
    BY DEF IInv, TaskOnTop
  <2>2. stack[i] \notin completed => cst = "proxy" /\ stack[i] = uses /\ uses \in Range(stack)
    BY <2>1 DEF IInv, Initiating, Range
  <2> QED
    BY <2>1, <2>2 DEF Completed
<1> QED
  BY <1>1, <1>2 DEF AllDone

\* A flag of the foreign code after a step that left the task in cst'.
LEMMA GuardedBridges ==
  ASSUME NEW a \in BOOLEAN, mode' = mode,
         a /\ mode # "external" => cst' = "proxy"
  PROVE  Guarded(a) \in BOOLEAN /\ Bridges(Guarded(a), cst', mode')
  BY DEF Guarded, Bridges

\* The task runs: it was resumed with a value of a portal.
LEMMA ResumedKeeps ==
  ASSUME IInv, NEW f, f \subseteq Portals, f # {}, Resumed(f),
         stack' \in Seq(0..uses),
         TaskOnTop(stack', "running"),
         Initiating(stack', "running", Completed, uses, status),
         Completed \subseteq 1..uses,
         calls' = got + Cardinality(f), calls' \in 0..MaxCalls,
         UNCHANGED <<mode, n, uses>>, status' = status,
         cxl' \in BOOLEAN, requested' \in BOOLEAN,
         armed' \in BOOLEAN, armed' => mode = "external"
  PROVE  IInv'
<1>1. /\ f \ {First(f)} \subseteq Portals
      /\ Cardinality(f \ {First(f)}) = Cardinality(f) - 1
      /\ Cardinality(f) \in Nat /\ got \in Nat
  <2>1. TypeOK /\ got \in Nat
    BY CBPortalAssumption DEF IInv, TypeOK
  <2> QED
    BY Zenon, <2>1, TakesOne
<1>2. /\ got' = got + 1 /\ full' = f \ {First(f)} /\ completed' = Completed
      /\ waiting' = {} /\ cst' = "running"
  BY DEF Resumed
<1>3. Portals' = Portals
  BY DEF Portals
<1>4. calls' = got' + Cardinality(full')
  BY <1>1, <1>2
<1>5. got' \in 0..MaxCalls
  <2>1. Cardinality(full') \in Nat
    BY <1>1, <1>2, Finite, FS_Subset, FS_CardinalityType DEF IInv
  <2> QED
    BY <1>1, <1>2, <1>4, <2>1, CBPortalAssumption
<1>6. TypeOK'
  BY <1>1, <1>2, <1>3, <1>5 DEF IInv, TypeOK
<1>7. /\ TaskOnTop(stack', cst')
      /\ Initiating(stack', cst', completed', uses', status')
  BY <1>2
<1>8. OnProxy' /\ Registered(cst', waiting', full', Portals', armed') /\ (cst' = "portals" => ~cxl')
  BY <1>2 DEF OnProxy, Registered
<1>9. Bridges(armed', cst', mode')
  BY <1>2 DEF Bridges
<1> QED
  BY <1>4, <1>6, <1>7, <1>8, <1>9 DEF IInv

\* The task does not run, and waits for no portal.
LEMMA AwayKeeps ==
  ASSUME IInv, cst' \in {"busy", "done", "cancelled"},
         waiting' \in {waiting, {}}, armed' => waiting' = {},
         stack' \in Seq(0..uses), AllDone(stack', completed),
         UNCHANGED <<mode, n, uses, full, got, completed, calls>>,
         status' \in {status, "Initiated"},
         cxl' \in BOOLEAN, requested' \in BOOLEAN,
         armed' \in BOOLEAN, Bridges(armed', cst', mode')
  PROVE  IInv'
<1>1. Portals' = Portals
  BY DEF Portals
<1>2. TypeOK'
  BY <1>1 DEF IInv, TypeOK
<1>3. uses \in Nat
  BY CBPortalAssumption DEF IInv, TypeOK
<1>4. /\ TaskOnTop(stack', cst')
      /\ Initiating(stack', cst', completed', uses', status')
  BY <1>3, DoneBelow
<1>5. OnProxy' /\ Registered(cst', waiting', full', Portals', armed') /\ (cst' = "portals" => ~cxl')
  BY DEF OnProxy, Registered
<1> QED
  BY <1>2, <1>4, <1>5 DEF IInv

LEMMA TaskRuns ==
  ASSUME IInv, Running
  PROVE  /\ cst = "running" /\ (armed => waiting = {}) /\ uses \in Nat
         /\ Tail(stack) \in Seq(0..uses) /\ AllDone(Tail(stack), completed)
<1>1. uses \in Nat /\ stack \in Seq(0..uses) /\ stack # <<>>
  BY CBPortalAssumption DEF IInv, TypeOK, Running
<1>2. 1 \in 1..Len(stack) /\ stack[1] = 0
  BY <1>1, Popped DEF Running
<1>3. cst = "running"
  BY <1>2 DEF IInv, TaskOnTop
<1>4. Tail(stack) \in Seq(0..uses) /\ AllDone(Tail(stack), completed)
  BY <1>1, BelowTop DEF IInv
<1> QED
  BY <1>1, <1>3, <1>4 DEF IInv, Registered

-----------------------------------------------------------------------------
\* One lemma per action.

LEMMA CallbackKeeps ==
  ASSUME IInv, NEW p \in Portals, Callback(p)
  PROVE  IInv' /\ cst' # "cancelled"
<1>1. /\ ForeignCode /\ armed /\ p \notin full /\ calls < MaxCalls
      /\ calls' = calls + 1 /\ cxl' = cxl
      /\ armed' = Guarded(armed /\ mode = "external")
      /\ UNCHANGED <<mode, n, status, uses, requested>>
  BY DEF Callback, MayCall
<1>2. /\ calls \in Nat /\ got \in Nat /\ MaxCalls \in Nat /\ calls' \in 0..MaxCalls
      /\ uses \in Nat /\ completed \subseteq 1..uses
  BY <1>1, CBPortalAssumption DEF IInv, TypeOK
<1>3. (armed /\ mode = "external") \in BOOLEAN
  OBVIOUS
<1>4. armed' \in BOOLEAN /\ Bridges(armed', cst', mode') /\ (armed' => mode = "external")
  BY Zenon, <1>1, <1>3, GuardedBridges DEF Guarded
<1>5. CASE p \in waiting
  <2>1. cst \in {"proxy", "portals"} /\ full = {}
    BY <1>1, <1>5 DEF IInv, Registered
  <2>2. Resumed({p}) /\ stack' = <<0>> \o stack
    BY <1>5, <2>1 DEF Callback, WakeUp, MustResume
  <2>3. AllDone(stack, Completed) /\ stack \in Seq(0..uses)
    BY <2>1, TellsAll
  <2>4. /\ stack' \in Seq(0..uses)
        /\ TaskOnTop(stack', "running")
        /\ Initiating(stack', "running", Completed, uses, status)
    BY <1>2, <2>2, <2>3, TaskAbove
  <2>5. Completed \subseteq 1..uses
    BY <1>2 DEF IInv, OnProxy, Completed
  <2>6. calls' = got + Cardinality({p})
    <3>1. Cardinality(full) = 0 /\ Cardinality({p}) = 1
      BY <2>1, FS_Singleton, FS_EmptySet, Zenon
    <3> QED
      BY <1>1, <1>2, <3>1 DEF IInv
  <2>7. status' = status /\ UNCHANGED <<mode, n, uses>> /\ cxl' \in BOOLEAN /\ requested' \in BOOLEAN
    BY <1>1 DEF IInv, TypeOK
  <2>8. IInv'
    BY Zenon, <1>2, <1>4, <2>2, <2>4, <2>5, <2>6, <2>7, ResumedKeeps
  <2> QED
    BY <2>2, <2>8 DEF Resumed
<1>6. CASE p \notin waiting
  <2>1. full' = full \cup {p} /\ UNCHANGED <<waiting, completed, stack, cst, got>>
    BY <1>6 DEF Callback
  <2>2. cst \notin {"proxy", "portals"}
    BY <1>6 DEF IInv, Registered
  <2>3. cst # "cancelled"
    BY <1>1, <2>2 DEF IInv, Bridges
  <2>4. full \subseteq Portals /\ IsFiniteSet(full)
    BY Finite, FS_Subset DEF IInv, TypeOK
  <2>5. Cardinality(full') = Cardinality(full) + 1 /\ Cardinality(full) \in Nat
    BY Zenon, <1>1, <2>1, <2>4, FS_AddElement, FS_CardinalityType
  <2>6. calls' = got' + Cardinality(full')
    BY <1>1, <1>2, <2>1, <2>5 DEF IInv
  <2>7. Portals' = Portals
    BY <1>1 DEF Portals
  <2>8. TypeOK'
    BY <1>1, <1>2, <1>4, <2>1, <2>4, <2>7 DEF IInv, TypeOK
  <2>9. /\ TaskOnTop(stack', cst') /\ Initiating(stack', cst', completed', uses', status')
        /\ OnProxy' /\ Registered(cst', waiting', full', Portals', armed')
        /\ cst' = "portals" => ~cxl'
    BY <1>1, <2>1, <2>2 DEF IInv, OnProxy, Registered
  <2> QED
    BY <1>4, <2>1, <2>3, <2>6, <2>8, <2>9 DEF IInv
<1> QED
  BY <1>5, <1>6

LEMMA InitiateReturnsKeeps ==
  ASSUME IInv, InitiateReturns
  PROVE  IInv'
<1>1. /\ stack # <<>> /\ Head(stack) > 0 /\ cxl' = cxl
      /\ UNCHANGED <<mode, n, uses, requested, calls>>
  BY DEF InitiateReturns
<1>2. uses \in Nat /\ stack \in Seq(0..uses) /\ TypeOK
  BY CBPortalAssumption DEF IInv, TypeOK
<1>3. Tail(stack) \in Seq(0..uses) /\ AllDone(Tail(stack), completed)
  BY <1>1, <1>2, BelowTop DEF IInv
<1>4. 1 \in 1..Len(stack) /\ Head(stack) = stack[1] /\ Head(stack) # 0
  <2>1. /\ 1 \in 1..Len(stack) /\ Head(stack) = stack[1]
        /\ Head(stack) \in 0..uses
    BY Zenon, <1>1, <1>2, Popped
  <2> QED
    BY <1>1, <2>1
<1>5. cst # "running"
  BY <1>4 DEF IInv, TaskOnTop
<1>6. Portals' = Portals
  BY <1>1 DEF Portals
<1>7. cst = "proxy" => 1 \in waiting
  BY <1>2, Finite DEF IInv, Registered
<1>8. CASE /\ stack' = Tail(stack) /\ UNCHANGED <<full, waiting, completed, cst, armed, got>>
           /\ status' \in {status, "Initiated"}
           /\ cst = "proxy" => status' = "Initiated" /\ (cxl => mode = "plain")
  <2>1. TypeOK'
    BY <1>1, <1>2, <1>3, <1>6, <1>8 DEF TypeOK
  <2>2. TaskOnTop(stack', cst') /\ Initiating(stack', cst', completed', uses', status')
    BY <1>1, <1>2, <1>3, <1>5, <1>8, DoneBelow
  <2>3. OnProxy'
    BY <1>1, <1>8 DEF IInv, OnProxy
  <2>4. /\ Registered(cst', waiting', full', Portals', armed') /\ (cst' = "portals" => ~cxl')
        /\ Bridges(armed', cst', mode') /\ calls' = got' + Cardinality(full')
    BY <1>1, <1>6, <1>8 DEF IInv
  <2> QED
    BY <2>1, <2>2, <2>3, <2>4 DEF IInv
<1>9. CASE Head(stack) \in completed
  <2>1. cst = "proxy" => status = "Initiated"
    BY <1>9, <1>4 DEF IInv, OnProxy
  <2>2. cst = "proxy" => (cxl => mode = "plain")
    BY <2>1 DEF IInv, OnProxy
  <2> QED
    BY <1>8, <1>9, <2>1, <2>2 DEF InitiateReturns
<1>10. CASE Head(stack) \notin completed
  <2>1. cst = "proxy" /\ Head(stack) = uses /\ status # "Initiated"
    BY <1>4, <1>10 DEF IInv, Initiating
  <2>2. status' = "Initiated"
    BY <1>10 DEF InitiateReturns
  <2>3. CASE ~WasCancelled
    <3>1. ~cxl
      BY <1>7, <2>1, <2>3 DEF IInv, OnProxy, WasCancelled
    <3>2. stack' = Tail(stack) /\ UNCHANGED <<full, waiting, completed, cst, armed, got>>
      BY <2>3 DEF InitiateReturns
    <3> QED
      BY <1>8, <2>2, <3>1, <3>2
  <2>4. CASE WasCancelled /\ mode = "plain"
    BY <1>8, <1>10, <2>2, <2>4 DEF InitiateReturns, CancelInitiated
  <2>5. CASE WasCancelled /\ mode # "plain"
    <3>1. cxl /\ full = {}
      BY <2>1, <2>5 DEF IInv, OnProxy, Registered, WasCancelled
    <3>2. /\ WakeUp(full, Tail(stack)) /\ armed' = Guarded(armed /\ mode # "cancelFn")
      BY <1>10, <2>5 DEF InitiateReturns, CancelInitiated
    <3>3. Cancelled /\ stack' = Tail(stack)
      BY <1>1, <3>1, <3>2 DEF WakeUp, MustResume
    <3>4. /\ cst' = "cancelled" /\ waiting' = {} /\ UNCHANGED <<full, got, completed>>
      BY <3>3 DEF Cancelled
    <3>5. (armed /\ mode # "cancelFn") \in BOOLEAN
      OBVIOUS
    <3>6. ~(armed /\ mode # "cancelFn" /\ mode # "external")
      BY <1>2, <2>5, CBPortalAssumption DEF TypeOK
    <3>7. armed' \in BOOLEAN /\ Bridges(armed', cst', mode')
      BY Zenon, <1>1, <3>2, <3>5, <3>6, GuardedBridges
    <3>8. /\ UNCHANGED <<mode, n, uses, full, got, completed, calls>>
          /\ cxl' \in BOOLEAN /\ requested' \in BOOLEAN
      BY <1>1, <1>2, <3>4 DEF TypeOK
    <3> QED
      BY <1>3, <2>2, <3>3, <3>4, <3>7, <3>8, AwayKeeps
  <2> QED
    BY <2>3, <2>4, <2>5
<1> QED
  BY <1>9, <1>10

LEMMA InitiateThrowsKeeps ==
  ASSUME IInv, InitiateThrows
  PROVE  IInv'
<1>1. /\ stack # <<>> /\ Head(stack) > 0 /\ Head(stack) \notin completed
      /\ stack' = <<0>> \o Tail(stack) /\ cst' = "running"
      /\ cxl' = requested /\ armed' = FALSE
      /\ UNCHANGED <<mode, n, full, status, uses, completed, requested, calls, got>>
  BY DEF InitiateThrows
<1>2. uses \in Nat /\ stack \in Seq(0..uses) /\ TypeOK
  BY CBPortalAssumption DEF IInv, TypeOK
<1>3. Tail(stack) \in Seq(0..uses) /\ AllDone(Tail(stack), completed)
  BY <1>1, <1>2, BelowTop DEF IInv
<1>4. /\ stack' \in Seq(0..uses) /\ TaskOnTop(stack', cst')
      /\ Initiating(stack', cst', completed', uses', status')
  BY <1>1, <1>2, <1>3, TaskAbove
<1>5. Portals' = Portals /\ waiting' \subseteq Portals
  BY <1>1, <1>2 DEF Portals, TypeOK, InitiateThrows
<1>6. TypeOK'
  BY <1>1, <1>2, <1>4, <1>5 DEF TypeOK
<1>7. /\ OnProxy' /\ Registered(cst', waiting', full', Portals', armed')
      /\ cst' = "portals" => ~cxl'
      /\ Bridges(armed', cst', mode')
  BY <1>1 DEF OnProxy, Registered, Bridges
<1>8. calls' = got' + Cardinality(full')
  BY <1>1 DEF IInv
<1> QED
  BY <1>4, <1>6, <1>7, <1>8 DEF IInv

LEMMA UntilCBCalledKeeps ==
  ASSUME IInv, UntilCBCalled
  PROVE  IInv'
<1>1. /\ Running /\ uses < MaxUses /\ full = {} /\ requested' = cxl
      /\ UNCHANGED <<mode, n, cxl, calls>>
  BY DEF UntilCBCalled
<1>2. /\ cst = "running" /\ (armed => waiting = {}) /\ uses \in Nat
      /\ Tail(stack) \in Seq(0..uses) /\ AllDone(Tail(stack), completed)
  BY <1>1, TaskRuns
<1>3. /\ TypeOK /\ completed \subseteq 1..uses
      /\ cxl \in BOOLEAN /\ requested \in BOOLEAN /\ armed \in BOOLEAN
  BY DEF IInv, TypeOK
<1>4. CASE cxl /\ mode # "external"
  <2>1. Cancelled /\ stack' = Tail(stack) /\ UNCHANGED <<status, uses, armed>>
    BY <1>4 DEF UntilCBCalled
  <2>2. cst' = "cancelled" /\ waiting' = {} /\ UNCHANGED <<full, got, completed>>
    BY <2>1 DEF Cancelled
  <2>3. ~armed
    BY <1>2, <1>4 DEF IInv, Bridges
  <2>4. Bridges(armed', cst', mode')
    BY <2>1, <2>3 DEF Bridges
  <2>5. UNCHANGED <<mode, n, uses, full, got, completed, calls>>
    BY <1>1, <2>1, <2>2
  <2> QED
    BY <1>1, <1>2, <1>3, <2>1, <2>2, <2>4, <2>5, AwayKeeps
<1>5. CASE ~(cxl /\ mode # "external")
  <2>1. /\ waiting' = Portals /\ cst' = "proxy" /\ armed' = TRUE
        /\ status' = IF cxl THEN "CancelPending" ELSE "Scheduled"
        /\ uses' = uses + 1 /\ stack' = <<uses + 1>> \o Tail(stack)
        /\ UNCHANGED <<full, completed, got>>
    BY <1>5 DEF UntilCBCalled
  <2>2. status' \in {"CancelPending", "Scheduled"} /\ status' # "Initiated"
    BY <2>1
  <2>3. /\ stack' \in Seq(0..(uses + 1))
        /\ stack' # <<>> /\ stack'[1] = uses + 1
        /\ TaskOnTop(stack', "proxy")
        /\ Initiating(stack', "proxy", completed, uses + 1, status')
    BY Zenon, <1>2, <2>1, <2>2, InitiateAbove
  <2>4. /\ uses + 1 \in 0..MaxUses /\ uses + 1 \notin completed /\ uses + 1 > 0
        /\ completed \subseteq 1..(uses + 1)
    BY <1>1, <1>2, <1>3, CBPortalAssumption
  <2>5. Portals' = Portals
    BY <1>1 DEF Portals
  <2>6. TypeOK'
    BY <1>1, <1>3, <2>1, <2>2, <2>3, <2>4, <2>5 DEF TypeOK
  <2>7. OnProxy'
    BY <1>1, <2>1, <2>2, <2>3, <2>4 DEF OnProxy
  <2>8. Registered(cst', waiting', full', Portals', armed') /\ Bridges(armed', cst', mode')
    BY <1>1, <2>1, <2>5 DEF Registered, Bridges
  <2>9. calls' = got' + Cardinality(full')
    BY Zenon, <1>1, <2>1 DEF IInv
  <2> QED
    BY Zenon, <2>1, <2>3, <2>6, <2>7, <2>8, <2>9 DEF IInv
<1> QED
  BY <1>4, <1>5

LEMMA AwaitPortalsKeeps ==
  ASSUME IInv, AwaitPortals
  PROVE  IInv'
<1>1. /\ Running /\ mode = "external" /\ armed' = Guarded(armed)
      /\ UNCHANGED <<mode, n, status, uses, cxl, requested, calls>>
  BY DEF AwaitPortals
<1>2. /\ cst = "running" /\ (armed => waiting = {}) /\ uses \in Nat
      /\ Tail(stack) \in Seq(0..uses) /\ AllDone(Tail(stack), completed)
  BY <1>1, TaskRuns
<1>3. /\ TypeOK /\ completed \subseteq 1..uses
      /\ cxl \in BOOLEAN /\ requested \in BOOLEAN /\ armed \in BOOLEAN
  BY DEF IInv, TypeOK
<1>4. armed' \in BOOLEAN /\ Bridges(armed', cst', mode')
  BY <1>1, <1>3, GuardedBridges
<1>5. CASE cxl
  <2>1. Cancelled /\ stack' = Tail(stack)
    BY <1>5 DEF AwaitPortals
  <2>2. cst' = "cancelled" /\ waiting' = {} /\ UNCHANGED <<full, got, completed>>
    BY <2>1 DEF Cancelled
  <2>3. UNCHANGED <<mode, n, uses, full, got, completed, calls>>
    BY <1>1, <2>2
  <2> QED
    BY <1>1, <1>2, <1>3, <1>4, <2>1, <2>2, <2>3, AwayKeeps
<1>6. CASE ~cxl /\ full # {}
  <2>1. Resumed(full) /\ stack' = stack
    BY <1>6 DEF AwaitPortals
  <2>2. Completed = completed
    BY <1>2 DEF Completed
  <2>3. /\ stack' \in Seq(0..uses)
        /\ TaskOnTop(stack', "running")
        /\ Initiating(stack', "running", Completed, uses, status)
    BY <1>2, <2>1, <2>2 DEF IInv, TypeOK
  <2>4. calls' = got + Cardinality(full) /\ calls' \in 0..MaxCalls /\ full \subseteq Portals
    BY <1>1 DEF IInv, TypeOK
  <2>5. cxl' \in BOOLEAN /\ status' = status /\ UNCHANGED <<mode, n, uses>>
    BY <1>1, <1>3
  <2> QED
    BY <1>1, <1>3, <1>4, <1>6, <2>1, <2>2, <2>3, <2>4, <2>5, ResumedKeeps
<1>7. CASE ~cxl /\ full = {}
  <2>1. /\ waiting' = Portals /\ cst' = "portals" /\ stack' = Tail(stack)
        /\ UNCHANGED <<full, completed, got>>
    BY <1>7 DEF AwaitPortals
  <2>2. Portals' = Portals
    BY <1>1 DEF Portals
  <2>3. TypeOK'
    BY <1>1, <1>2, <1>3, <1>4, <2>1, <2>2 DEF TypeOK
  <2>4. TaskOnTop(stack', cst') /\ Initiating(stack', cst', completed', uses', status')
    BY <1>1, <1>2, <2>1, DoneBelow
  <2>5. OnProxy' /\ Registered(cst', waiting', full', Portals', armed') /\ ~cxl'
    BY <1>1, <1>7, <2>1, <2>2 DEF OnProxy, Registered
  <2>6. calls' = got' + Cardinality(full')
    BY <1>1, <2>1 DEF IInv
  <2> QED
    BY <1>4, <2>3, <2>4, <2>5, <2>6 DEF IInv
<1> QED
  BY <1>5, <1>6, <1>7

\* AwaitOther and Return: the step of the task is over, and it waits for no portal.
LEMMA LeavesKeeps ==
  ASSUME IInv, AwaitOther \/ Return
  PROVE  IInv'
<1>1. /\ Running /\ stack' = Tail(stack) /\ armed' = Guarded(armed)
      /\ UNCHANGED <<mode, n, status, uses, cxl, requested, calls>>
  BY DEF AwaitOther, Return
<1>2. /\ cst = "running" /\ (armed => waiting = {}) /\ uses \in Nat
      /\ Tail(stack) \in Seq(0..uses) /\ AllDone(Tail(stack), completed)
  BY <1>1, TaskRuns
<1>3. cxl \in BOOLEAN /\ requested \in BOOLEAN /\ armed \in BOOLEAN
  BY DEF IInv, TypeOK
<1>4. /\ cst' \in {"busy", "done", "cancelled"} /\ waiting' \in {waiting, {}}
      /\ UNCHANGED <<full, got, completed>>
  BY <1>2 DEF AwaitOther, Return, Cancelled
<1>5. (armed => mode = "external") /\ (armed' => waiting' = {})
  BY <1>1, <1>2, <1>4 DEF IInv, Bridges, Guarded
<1>6. armed' \in BOOLEAN /\ Bridges(armed', cst', mode')
  BY <1>1, <1>3, <1>5, GuardedBridges
<1>7. /\ UNCHANGED <<mode, n, uses, full, got, completed, calls>>
      /\ cxl' \in BOOLEAN /\ requested' \in BOOLEAN /\ status' \in {status, "Initiated"}
  BY <1>1, <1>3, <1>4
<1> QED
  BY <1>1, <1>2, <1>4, <1>5, <1>6, <1>7, AwayKeeps

LEMMA RunKeeps ==
  ASSUME IInv, Run
  PROVE  IInv'
<1>1. /\ stack = <<>> /\ cst = "busy" /\ stack' = <<0>> /\ cst' = "running"
      /\ UNCHANGED <<mode, n, full, waiting, status, uses, completed, cxl, requested, armed, calls, got>>
  BY DEF Run
<1>2. uses \in Nat /\ Portals' = Portals
  BY <1>1, CBPortalAssumption DEF IInv, TypeOK, Portals
<1>3. stack' \in Seq(0..uses) /\ stack' # <<>> /\ Len(stack') = 1 /\ stack'[1] = 0
  BY <1>1, <1>2
<1>4. TypeOK'
  BY <1>1, <1>2, <1>3 DEF IInv, TypeOK
<1>5. TaskOnTop(stack', cst') /\ Initiating(stack', cst', completed', uses', status')
  BY <1>1, <1>3 DEF TaskOnTop, Initiating
<1>6. /\ OnProxy' /\ Registered(cst', waiting', full', Portals', armed')
      /\ cst' = "portals" => ~cxl'
      /\ Bridges(armed', cst', mode')
      /\ calls' = got' + Cardinality(full')
  BY <1>1 DEF IInv, OnProxy, Registered, Bridges
<1> QED
  BY <1>4, <1>5, <1>6 DEF IInv

LEMMA CancelKeeps ==
  ASSUME IInv, Cancel
  PROVE  IInv'
<1>1. /\ ~cxl /\ cst \notin {"done", "cancelled"} /\ cxl' = TRUE
      /\ UNCHANGED <<mode, n, uses, requested, calls>>
  BY DEF Cancel
<1>2. /\ uses \in Nat /\ stack \in Seq(0..uses) /\ armed \in BOOLEAN
      /\ mode \in {"external", "cancelFn", "plain"}
  BY CBPortalAssumption DEF IInv, TypeOK
<1>3. Portals' = Portals /\ cxl' \in BOOLEAN /\ requested' \in BOOLEAN
  BY <1>1 DEF Portals, IInv, TypeOK
<1>4. ASSUME cst \in {"busy", "portals"} \/ (cst = "proxy" /\ status = "Initiated")
      PROVE  AllDone(stack, completed)
  BY <1>4 DEF IInv, TaskOnTop, Initiating, AllDone
<1>5. CASE /\ \/ cst \in {"running", "busy"}
              \/ cst = "proxy" /\ status = "Initiated" /\ mode = "plain"
           /\ UNCHANGED <<full, waiting, status, completed, stack, cst, armed, got>>
  <2>1. TypeOK'
    BY <1>1, <1>3, <1>5 DEF IInv, TypeOK
  <2>2. TaskOnTop(stack', cst') /\ Initiating(stack', cst', completed', uses', status')
    BY <1>1, <1>5 DEF IInv
  <2>3. OnProxy' /\ (cst' = "portals" => ~cxl')
    BY <1>1, <1>5 DEF IInv, OnProxy
  <2>4. /\ Registered(cst', waiting', full', Portals', armed')
        /\ Bridges(armed', cst', mode') /\ calls' = got' + Cardinality(full')
    BY <1>1, <1>3, <1>5 DEF IInv
  <2> QED
    BY <2>1, <2>2, <2>3, <2>4 DEF IInv
<1>6. CASE /\ cst = "proxy" /\ status # "Initiated" /\ status' = "CancelPending"
           /\ UNCHANGED <<full, waiting, completed, stack, cst, armed, got>>
  <2>1. TypeOK'
    BY <1>1, <1>3, <1>6 DEF IInv, TypeOK
  <2>2. TaskOnTop(stack', cst') /\ Initiating(stack', cst', completed', uses', status')
    BY <1>1, <1>6 DEF IInv, Initiating
  <2>3. OnProxy' /\ (cst' = "portals" => ~cxl')
    BY <1>1, <1>6 DEF IInv, OnProxy
  <2>4. /\ Registered(cst', waiting', full', Portals', armed')
        /\ Bridges(armed', cst', mode') /\ calls' = got' + Cardinality(full')
    BY <1>1, <1>3, <1>6 DEF IInv
  <2> QED
    BY <2>1, <2>2, <2>3, <2>4 DEF IInv
<1>7. CASE /\ cst \in {"busy", "portals"} \/ (cst = "proxy" /\ status = "Initiated")
           /\ Cancelled /\ stack' = stack /\ status' = status
           /\ armed' \in BOOLEAN /\ Bridges(armed', cst', mode')
  <2>1. cst' = "cancelled" /\ waiting' = {} /\ UNCHANGED <<full, got, completed>>
    BY <1>7 DEF Cancelled
  <2>2. UNCHANGED <<mode, n, uses, full, got, completed, calls>>
    BY <1>1, <2>1
  <2>3. stack' \in Seq(0..uses) /\ AllDone(stack', completed)
    BY <1>2, <1>4, <1>7
  <2> QED
    BY <1>3, <1>7, <2>1, <2>2, <2>3, AwayKeeps
<1>8. CASE /\ cst = "busy" /\ Cancelled
           /\ armed' = Guarded(armed) /\ UNCHANGED <<stack, status>>
  <2>1. armed => mode = "external"
    BY <1>8 DEF IInv, Bridges
  <2>2. armed' \in BOOLEAN /\ Bridges(armed', cst', mode')
    BY <1>1, <1>2, <1>8, <2>1, GuardedBridges
  <2>3. stack' = stack /\ status' = status /\ cst \in {"busy", "portals"} /\ Cancelled
    BY <1>8
  <2> QED
    BY <1>7, <2>2, <2>3, Zenon
<1>9. CASE cst = "proxy" /\ status = "Initiated" /\ CancelInitiated(stack) /\ UNCHANGED status
  <2>1. CASE mode = "plain"
    BY <1>5, <1>9, <2>1 DEF CancelInitiated
  <2>2. CASE mode # "plain"
    <3>1. full = {}
      BY <1>9 DEF IInv, Registered
    <3>2. /\ Cancelled /\ stack' = stack /\ armed' = Guarded(armed /\ mode # "cancelFn")
      BY <1>1, <1>9, <2>2, <3>1 DEF CancelInitiated, WakeUp, MustResume
    <3>3. (armed /\ mode # "cancelFn") \in BOOLEAN /\ ~(armed /\ mode # "cancelFn" /\ mode # "external")
      BY <1>2, <2>2
    <3>4. armed' \in BOOLEAN /\ Bridges(armed', cst', mode')
      BY Zenon, <1>1, <3>2, <3>3, GuardedBridges
    <3> QED
      BY <1>7, <1>9, <3>2, <3>4
  <2> QED
    BY <2>1, <2>2
<1>10. CASE /\ cst = "portals" /\ WakeUp(full, stack)
            /\ armed' = Guarded(armed) /\ UNCHANGED status
  <2>1. full = {} /\ (armed => mode = "external")
    BY <1>10 DEF IInv, Registered, Bridges
  <2>2. Cancelled /\ stack' = stack
    BY <1>1, <1>10, <2>1 DEF WakeUp, MustResume
  <2>3. armed' \in BOOLEAN /\ Bridges(armed', cst', mode')
    BY <1>1, <1>2, <1>10, <2>1, GuardedBridges
  <2>4. status' = status /\ cst \in {"busy", "portals"}
    BY <1>10
  <2> QED
    BY <1>7, <2>2, <2>3, <2>4, Zenon
<1> QED
  BY <1>5, <1>6, <1>8, <1>9, <1>10 DEF Cancel

-----------------------------------------------------------------------------

LEMMA StartsRight == Init => IInv
<1> SUFFICES ASSUME Init PROVE IInv
  OBVIOUS
<1>1. stack = <<0>> /\ uses = 0
  BY DEF Init
<1>2. stack \in Seq(0..uses) /\ stack # <<>> /\ Len(stack) = 1 /\ stack[1] = 0
  BY <1>1
<1>3. TypeOK
  <2>1. 0 \in 0..MaxUses /\ 0 \in 0..MaxCalls
    BY CBPortalAssumption
  <2> QED
    BY Zenon, <1>2, <2>1 DEF Init, TypeOK
<1>4. TaskOnTop(stack, cst) /\ Initiating(stack, cst, completed, uses, status)
  BY <1>2 DEF Init, TaskOnTop, Initiating
<1>5. /\ OnProxy /\ Registered(cst, waiting, full, Portals, armed)
      /\ cst = "portals" => ~cxl
      /\ Bridges(armed, cst, mode)
  BY DEF Init, OnProxy, Registered, Bridges
<1>6. calls = got + Cardinality(full)
  BY FS_EmptySet DEF Init
<1> QED
  BY <1>3, <1>4, <1>5, <1>6 DEF IInv

LEMMA StepKeeps ==
  ASSUME IInv, [Next]_vars
  PROVE  IInv'
<1>1. CASE UNCHANGED vars
  <2>1. Portals' = Portals
    BY <1>1 DEF vars, Portals
  <2> QED
    BY <1>1, <2>1 DEF vars, IInv, TypeOK, OnProxy
<1> QED
  BY <1>1, CallbackKeeps, InitiateReturnsKeeps, InitiateThrowsKeeps, UntilCBCalledKeeps,
     AwaitPortalsKeeps, LeavesKeeps, RunKeeps, CancelKeeps DEF Next

LEMMA IInvAlways == Spec => []IInv
  BY StartsRight, StepKeeps, PTL DEF Spec

\* Whatever the foreign code calls and whoever cancels, in whatever order and
\* however deep the initiate functions are nested: CBPortalProxy::await_suspend()
\* never goes on with a proxy that a step of the task has destroyed.
THEOREM ProxyOutlives == Spec => []ProxyOutlivesUse
<1>1. IInv => ProxyOutlivesUse
  <2> SUFFICES ASSUME IInv, NEW k \in Range(stack) \ {0}, k \notin completed
               PROVE  cst = "proxy" /\ k = uses
    BY DEF ProxyOutlivesUse
  <2>1. stack \in Seq(0..uses)
    BY DEF IInv, TypeOK
  <2>2. PICK i \in 1..Len(stack) : stack[i] = k
    BY <2>1 DEF Range
  <2> QED
    BY <2>2 DEF IInv, Initiating
<1> QED
  BY <1>1, IInvAlways, PTL

\* A bridge callback resumes the task before it returns: no value is ever left
\* in a portal that the task waits for, and no call is lost or counted twice.
THEOREM CallbacksKeepUp == Spec => []KeepsUp
<1>1. IInv => KeepsUp
  BY DEF IInv, Registered, KeepsUp
<1> QED
  BY <1>1, IInvAlways, PTL

\* A cancellation request is honoured as soon as the initiate function has
\* returned (one made inside a function that throws is lost), except by the overload that cannot stop the callbacks, and a task
\* that has ended has left no callback that may still be called.
THEOREM RequestsHonoured == Spec => []CancelHonoured
<1>1. IInv => CancelHonoured
  <2> SUFFICES ASSUME IInv PROVE CancelHonoured
    OBVIOUS
  <2>1. cst = "proxy" /\ uses \notin Range(stack) => status = "Initiated"
    <3> SUFFICES ASSUME cst = "proxy", status # "Initiated" PROVE uses \in Range(stack)
      OBVIOUS
    <3>1. stack \in Seq(0..uses) /\ stack # <<>> /\ stack[1] = uses
      BY DEF IInv, TypeOK, OnProxy
    <3>2. 1 \in 1..Len(stack)
      BY <3>1
    <3> QED
      BY <3>1, <3>2 DEF Range
  <2>2. cxl /\ cst = "proxy" /\ uses \notin Range(stack) => mode = "plain"
    BY <2>1 DEF IInv, OnProxy
  <2>3. cst \in {"done", "cancelled"} => ~armed
    BY DEF IInv, Bridges
  <2> QED
    BY <2>2, <2>3 DEF IInv, CancelHonoured
<1> QED
  BY <1>1, IInvAlways, PTL

\* No step that delivers a callback's value cancels the task, whatever requests
\* were pending: await_must_resume() sees the value.
THEOREM CallBeats == Spec => CallBeatsCancellation
<1>1. ASSUME IInv, [Next]_vars PROVE [calls' # calls => cst' # "cancelled"]_vars
  <2>1. CASE \E p \in Portals : Callback(p)
    BY <1>1, <2>1, CallbackKeeps
  <2>2. CASE ~(\E p \in Portals : Callback(p))
    BY Zenon, <1>1, <2>2 DEF Next, InitiateReturns, InitiateThrows, UntilCBCalled, AwaitPortals,
                      AwaitOther, Run, Return, Cancel, vars
  <2> QED
    BY <2>1, <2>2
<1> QED
  BY <1>1, IInvAlways, PTL DEF Spec, CallBeatsCancellation
=============================================================================
