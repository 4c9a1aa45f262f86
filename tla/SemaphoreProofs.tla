--------------------------- MODULE SemaphoreProofs ---------------------------
(***************************************************************************)
(* The safety of the semaphore for every number of users and permits.      *)
(***************************************************************************)
EXTENDS Semaphore, FiniteSetTheorems, SequenceTheorems, TLAPS

\* Taking the oldest element off a queue without repetitions.
LEMMA QueueTail ==
  ASSUME NEW S, NEW q \in Seq(S), q # <<>>, IsInjective(q)
  PROVE  /\ Head(q) \in Range(q) /\ Head(q) = q[1]
         /\ IsInjective(Tail(q))
         /\ Range(Tail(q)) = Range(q) \ {Head(q)}
<1>1. /\ Head(q) = q[1] /\ Tail(q) \in Seq(S) /\ Len(Tail(q)) = Len(q) - 1
      /\ Len(q) \in Nat \ {0} /\ DOMAIN q = 1..Len(q)
      /\ DOMAIN Tail(q) = 1..(Len(q) - 1)
      /\ \A i \in 1..(Len(q) - 1) : Tail(q)[i] = q[i + 1]
  BY HeadTailProperties
<1>2. IsInjective(Tail(q))
  BY <1>1 DEF IsInjective
<1>3. Range(Tail(q)) \subseteq Range(q) \ {Head(q)}
  <2>1. SUFFICES ASSUME NEW i \in 1..(Len(q) - 1)
                 PROVE  q[i + 1] \in Range(q) /\ q[i + 1] # Head(q)
    BY <1>1 DEF Range
  <2>2. i + 1 \in DOMAIN q /\ 1 \in DOMAIN q /\ i + 1 # 1
    BY <1>1
  <2>3. QED
    BY <1>1, <2>2 DEF Range, IsInjective
<1>4. Range(q) \ {Head(q)} \subseteq Range(Tail(q))
  <2>1. SUFFICES ASSUME NEW i \in DOMAIN q, q[i] # Head(q)
                 PROVE  q[i] \in Range(Tail(q))
    BY DEF Range
  <2>2. i - 1 \in DOMAIN Tail(q) /\ Tail(q)[i - 1] = q[i]
    BY <1>1, <2>1
  <2>3. QED
    BY <2>2 DEF Range
<1>5. Head(q) \in Range(q)
  BY <1>1 DEF Range
<1>6. QED
  BY <1>1, <1>2, <1>3, <1>4, <1>5

\* Adding a new element.
LEMMA QueueAppend ==
  ASSUME NEW S, NEW q \in Seq(S), IsInjective(q), NEW x \in S, x \notin Range(q)
  PROVE  /\ IsInjective(Append(q, x))
         /\ Range(Append(q, x)) = Range(q) \cup {x}
<1>1. /\ Append(q, x) \in Seq(S) /\ Len(q) \in Nat /\ DOMAIN q = 1..Len(q)
      /\ DOMAIN Append(q, x) = 1..(Len(q) + 1)
      /\ \A i \in 1..Len(q) : Append(q, x)[i] = q[i]
      /\ Append(q, x)[Len(q) + 1] = x
  BY AppendProperties
<1>2. \A i \in 1..Len(q) : q[i] # x
  BY <1>1 DEF Range
<1>3. IsInjective(Append(q, x))
  BY <1>1, <1>2 DEF IsInjective
<1>4. Range(Append(q, x)) \subseteq Range(q) \cup {x}
  BY <1>1 DEF Range
<1>5. Range(q) \subseteq Range(Append(q, x))
  BY <1>1 DEF Range
<1>6. x \in Range(Append(q, x))
  BY <1>1 DEF Range
<1>7. QED
  BY <1>3, <1>4, <1>5, <1>6

\* Unlinking an element wherever it is.
LEMMA QueueRemove ==
  ASSUME NEW S, NEW q \in Seq(S), IsInjective(q), NEW i \in DOMAIN q
  PROVE  /\ RemoveAt(q, i) \in Seq(S)
         /\ IsInjective(RemoveAt(q, i))
         /\ Range(RemoveAt(q, i)) = Range(q) \ {q[i]}
<1> DEFINE r  == RemoveAt(q, i)
           lo == SubSeq(q, 1, i - 1)
           hi == SubSeq(q, i + 1, Len(q))
           n  == Len(q) - 1
<1>1. /\ Len(q) \in Nat /\ i \in 1..Len(q) /\ n \in Nat /\ DOMAIN q = 1..Len(q)
      /\ \A j \in 1..Len(q) : q[j] \in S
  BY LenProperties, ElementOfSeq
<1>2. /\ lo \in Seq(S) /\ Len(lo) = i - 1
      /\ \A j \in 1..(i - 1) : lo[j] = q[j]
  BY <1>1, SubSeqProperties
<1>3. /\ hi \in Seq(S) /\ Len(hi) = Len(q) - i
      /\ \A j \in 1..(Len(q) - i) : hi[j] = q[i + j]
  BY <1>1, SubSeqProperties
<1>4. r = lo \o hi
  BY DEF RemoveAt
<1> HIDE DEF r, lo, hi
<1>5. /\ r \in Seq(S) /\ Len(r) = n /\ DOMAIN r = 1..n
      /\ \A j \in 1..n : r[j] = IF j < i THEN q[j] ELSE q[j + 1]
  <2>1. r \in Seq(S) /\ Len(r) = Len(lo) + Len(hi)
    BY <1>2, <1>3, <1>4, ConcatProperties
  <2>2. Len(r) = n /\ DOMAIN r = 1..n
    BY <1>1, <1>2, <1>3, <2>1, LenProperties
  <2>3. ASSUME NEW j \in 1..n PROVE r[j] = IF j < i THEN q[j] ELSE q[j + 1]
    <3>1. \A k \in 1..(Len(lo) + Len(hi)) :
            r[k] = IF k =< Len(lo) THEN lo[k] ELSE hi[k - Len(lo)]
      BY Zenon, <1>2, <1>3, <1>4, ConcatProperties
    <3> j \in 1..(Len(lo) + Len(hi)) /\ j \in Nat /\ Len(lo) \in Nat
      BY <1>1, <1>2, <1>3
    <3>2. CASE j < i
      BY <1>1, <1>2, <3>1, <3>2
    <3>3. CASE ~(j < i)
      <4>1. j - Len(lo) \in 1..(Len(q) - i) /\ i + (j - Len(lo)) = j + 1
        BY <1>1, <1>2, <3>3
      <4>2. hi[j - Len(lo)] = q[j + 1]
        BY <1>3, <4>1
      <4>3. r[j] = hi[j - Len(lo)]
        BY <1>1, <1>2, <3>1, <3>3
      <4>4. QED
        BY <3>3, <4>2, <4>3
    <3>4. QED
      BY <3>2, <3>3
  <2>4. QED
    BY <2>1, <2>2, <2>3
<1>6. IsInjective(r)
  <2>1. SUFFICES ASSUME NEW a \in 1..n, NEW b \in 1..n, r[a] = r[b]
                 PROVE  a = b
    BY <1>5 DEF IsInjective
  <2>2. \A j, k \in 1..Len(q) : q[j] = q[k] => j = k
    BY <1>1 DEF IsInjective
  <2>3. a \in 1..Len(q) /\ a + 1 \in 1..Len(q) /\ b \in 1..Len(q) /\ b + 1 \in 1..Len(q)
    BY <1>1
  <2>4. QED
    BY <1>1, <1>5, <2>1, <2>2, <2>3
<1>7. Range(r) \subseteq Range(q) \ {q[i]}
  BY <1>1, <1>5 DEF IsInjective, Range
<1>8. Range(q) \ {q[i]} \subseteq Range(r)
  <2>1. SUFFICES ASSUME NEW j \in 1..Len(q), j # i
                 PROVE  q[j] \in Range(r)
    BY <1>1 DEF Range
  <2>2. CASE j < i
    BY <1>1, <1>5, <2>2 DEF Range
  <2>3. CASE j > i
    <3>1. j - 1 \in 1..n /\ r[j - 1] = q[j]
      BY <1>1, <1>5, <2>3
    <3>2. QED
      BY <1>5, <3>1 DEF Range
  <2>4. QED
    BY <1>1, <2>1, <2>2, <2>3
<1>9. QED
  BY <1>5, <1>6, <1>7, <1>8 DEF r
-----------------------------------------------------------------------------
(***************************************************************************)
(* The inductive invariant.  PermitsConserved alone is not inductive:      *)
(* release() hands the permit to the head of the queue without counting    *)
(* it, which only adds an owner if the head is a waiting task and not one  *)
(* that owns a permit already.                                             *)
(***************************************************************************)
Inv == TypeOK /\ QueueMatches /\ NoMissedWakeup /\ PermitsConserved

OwnersOf(f) == {u \in Users : f[u] \in {"borrowed", "woken", "holding"}}

\* Of finitely many users, finitely many own a permit.
LEMMA OwnersFinite ==
  ASSUME NEW f
  PROVE  IsFiniteSet(OwnersOf(f)) /\ Cardinality(OwnersOf(f)) \in Nat
BY SemaphoreAssumption, FS_Subset, FS_CardinalityType DEF OwnersOf, SemaphoreAssumption

\* A task that comes to own a permit, and one that ceases to.
LEMMA OneMoreOwner ==
  ASSUME NEW f \in [Users -> States], NEW u \in Users, u \notin OwnersOf(f),
         NEW x \in {"borrowed", "woken", "holding"}
  PROVE  Cardinality(OwnersOf([f EXCEPT ![u] = x])) = Cardinality(OwnersOf(f)) + 1
<1>1. OwnersOf([f EXCEPT ![u] = x]) = OwnersOf(f) \cup {u}
  BY DEF OwnersOf
<1>2. QED
  BY Zenon, <1>1, OwnersFinite, FS_AddElement

\* A user that ceases to own a permit makes one owner less.
LEMMA OneOwnerLess ==
  ASSUME NEW f \in [Users -> States], NEW u \in OwnersOf(f)
  PROVE  Cardinality(OwnersOf([f EXCEPT ![u] = "idle"])) = Cardinality(OwnersOf(f)) - 1
<1>1. OwnersOf([f EXCEPT ![u] = "idle"]) = OwnersOf(f) \ {u}
  BY DEF OwnersOf
<1>2. QED
  BY Zenon, <1>1, OwnersFinite, FS_RemoveElement

\* Semaphore::release() adds one permit to what is free or owned, and keeps the
\* queue in order.
LEMMA ReleaseAddsOne ==
  ASSUME TypeOK, QueueMatches, NoMissedWakeup,
         NEW s \in [Users -> States],
         \A u \in Users : s[u] = "parked" <=> st[u] = "parked",
         Release(s)
  PROVE  /\ value' \in Nat /\ parked' \in Seq(Users) /\ st' \in [Users -> States]
         /\ QueueMatches' /\ NoMissedWakeup'
         /\ value' + Cardinality(OwnersOf(st')) = value + Cardinality(OwnersOf(s)) + 1
<1>0. Cardinality(OwnersOf(s)) \in Nat /\ Cardinality(OwnersOf(st')) \in Nat /\ value \in Nat
  BY OwnersFinite DEF TypeOK
<1>1. CASE parked = <<>>
  <2>1. value' = value + 1 /\ st' = s /\ parked' = parked
    BY <1>1 DEF Release
  <2>2. {u \in Users : s[u] = "parked"} = {u \in Users : st[u] = "parked"}
    OBVIOUS
  <2>3. QED
    BY <1>0, <1>1, <2>1, <2>2 DEF TypeOK, QueueMatches, NoMissedWakeup
<1>2. CASE parked # <<>>
  <2> DEFINE h == Head(parked)
  <2>1. st' = [s EXCEPT ![h] = "woken"] /\ parked' = Tail(parked) /\ value' = value
    BY <1>2 DEF Release
  <2>2. /\ h \in Range(parked) /\ IsInjective(Tail(parked))
        /\ Range(Tail(parked)) = Range(parked) \ {h}
    BY <1>2, QueueTail DEF TypeOK, QueueMatches
  <2>3. h \in Users /\ st[h] = "parked" /\ s[h] = "parked"
    BY <2>2 DEF QueueMatches
  <2>4. parked' \in Seq(Users) /\ st' \in [Users -> States]
    BY <1>2, <2>1, <2>3, HeadTailProperties DEF TypeOK, States
  <2>5. QueueMatches'
    <3>1. {u \in Users : st'[u] = "parked"} = {u \in Users : st[u] = "parked"} \ {h}
      BY <2>1, <2>3
    <3>2. QED
      BY <2>1, <2>2, <3>1 DEF QueueMatches
  <2>6. value = 0 /\ NoMissedWakeup'
    BY <1>2, <2>1 DEF NoMissedWakeup
  <2>7. Cardinality(OwnersOf(st')) = Cardinality(OwnersOf(s)) + 1
    <3>1. h \notin OwnersOf(s)
      BY <2>3 DEF OwnersOf
    <3>2. QED
      BY Zenon, <2>1, <2>3, <3>1, OneMoreOwner
  <2>8. QED
    BY <1>0, <2>1, <2>4, <2>5, <2>6, <2>7
<1>3. QED
  BY <1>1, <1>2
-----------------------------------------------------------------------------
\* A step that moves u between states other than "parked", with the queue as it
\* is, keeps the queue in order.
LEMMA QueueUntouched ==
  ASSUME TypeOK, QueueMatches, NEW u \in Users, st[u] # "parked",
         NEW x \in States \ {"parked"},
         st' = [st EXCEPT ![u] = x], parked' = parked
  PROVE  QueueMatches' /\ st' \in [Users -> States] /\ parked' \in Seq(Users)
<1>1. {w \in Users : st'[w] = "parked"} = {w \in Users : st[w] = "parked"}
  BY DEF TypeOK
<1>2. QED
  BY <1>1 DEF TypeOK, QueueMatches

\* A permit moves from value_ to u: tryAcquire() succeeds.
LEMMA PermitTaken ==
  ASSUME Inv, NEW u \in Users, st[u] \in {"idle", "empty"}, value # 0,
         NEW x \in {"borrowed", "woken", "holding"},
         value' = value - 1, st' = [st EXCEPT ![u] = x],
         parked' = parked, extra' = extra
  PROVE  Inv'
<1>1. QueueMatches' /\ st' \in [Users -> States] /\ parked' \in Seq(Users)
  BY Zenon, QueueUntouched DEF Inv, States
<1>2. Cardinality(OwnersOf(st')) = Cardinality(OwnersOf(st)) + 1
  BY OneMoreOwner DEF Inv, TypeOK, OwnersOf
<1>3. Cardinality(OwnersOf(st)) \in Nat
  BY OwnersFinite
<1>4. QED
  BY <1>1, <1>2, <1>3
  DEF Inv, TypeOK, NoMissedWakeup, PermitsConserved, Owners, OwnersOf

\* A step that leaves the owners and value_ alone.
LEMMA PermitsStay ==
  ASSUME Inv, OwnersOf(st') = OwnersOf(st), value' = value, extra' = extra,
         st' \in [Users -> States], parked' \in Seq(Users),
         QueueMatches', NoMissedWakeup'
  PROVE  Inv'
BY Zenon DEF Inv, TypeOK, PermitsConserved, Owners, OwnersOf

\* An owner gives its permit back: ~Awaiter(), ~Lock() and release().
LEMMA PermitReturned ==
  ASSUME Inv, NEW u \in OwnersOf(st), Release([st EXCEPT ![u] = "idle"]), extra' = extra
  PROVE  Inv'
<1> DEFINE s == [st EXCEPT ![u] = "idle"]
<1>1. u \in Users /\ st[u] # "parked" /\ st \in [Users -> States]
  BY DEF Inv, TypeOK, OwnersOf
<1>2. s \in [Users -> States] /\ \A w \in Users : s[w] = "parked" <=> st[w] = "parked"
  BY <1>1 DEF States
<1>3. Cardinality(OwnersOf(s)) = Cardinality(OwnersOf(st)) - 1
  BY Zenon, <1>1, OneOwnerLess
<1>4. Cardinality(OwnersOf(st)) \in Nat /\ Cardinality(OwnersOf(st')) \in Nat
  BY OwnersFinite
<1> HIDE DEF s
<1>5. /\ value' \in Nat /\ parked' \in Seq(Users) /\ st' \in [Users -> States]
      /\ QueueMatches' /\ NoMissedWakeup'
      /\ value' + Cardinality(OwnersOf(st')) = value + Cardinality(OwnersOf(s)) + 1
  BY Zenon, <1>2, ReleaseAddsOne DEF Inv, s
<1>6. PermitsConserved'
  BY <1>3, <1>4, <1>5 DEF Inv, TypeOK, PermitsConserved, Owners, OwnersOf
<1>7. QED
  BY <1>5, <1>6 DEF Inv, TypeOK

\* A semaphore just constructed: all permits are free and nobody waits.
LEMMA InvInit == Init => Inv
<1> SUFFICES ASSUME Init PROVE Inv
  OBVIOUS
<1>1. TypeOK /\ NoMissedWakeup
  BY SemaphoreAssumption DEF SemaphoreAssumption, Init, TypeOK, States, NoMissedWakeup
<1>2. QueueMatches
  BY DEF Init, QueueMatches, IsInjective, Range
<1>3. PermitsConserved
  <2>1. Owners = {}
    BY DEF Init, Owners
  <2>2. QED
    BY <2>1, FS_EmptySet, SemaphoreAssumption
    DEF SemaphoreAssumption, Init, PermitsConserved
<1>4. QED
  BY <1>1, <1>2, <1>3 DEF Inv

\* Every step keeps the inductive invariant.
LEMMA InvNext == Inv /\ [Next]_vars => Inv'
<1> SUFFICES ASSUME Inv, [Next]_vars PROVE Inv'
  OBVIOUS
<1>1. CASE Post
  <2>1. Cardinality(OwnersOf(st)) \in Nat /\ Cardinality(OwnersOf(st')) \in Nat
    BY OwnersFinite
  <2>2. /\ value' \in Nat /\ parked' \in Seq(Users) /\ st' \in [Users -> States]
        /\ QueueMatches' /\ NoMissedWakeup'
        /\ value' + Cardinality(OwnersOf(st')) = value + Cardinality(OwnersOf(st)) + 1
    BY <1>1, ReleaseAddsOne DEF Inv, TypeOK, Post
  <2>3. extra' = extra + 1 /\ extra' \in 0..MaxExtra /\ extra \in Nat
    BY <1>1, SemaphoreAssumption DEF Inv, TypeOK, Post, SemaphoreAssumption
  <2>4. PermitsConserved'
    BY <2>1, <2>2, <2>3, SemaphoreAssumption
    DEF Inv, TypeOK, PermitsConserved, Owners, OwnersOf, SemaphoreAssumption
  <2>5. QED
    BY <2>2, <2>3, <2>4 DEF Inv, TypeOK
<1>2. ASSUME NEW u \in Users, TryAcquire(u) PROVE Inv'
  BY Zenon, <1>2, PermitTaken DEF TryAcquire
<1>3. ASSUME NEW u \in Users, Construct(u) PROVE Inv'
  <2>1. CASE value # 0
    BY <1>3, <2>1, PermitTaken DEF Construct
  <2>2. CASE value = 0
    <3>1. /\ st' = [st EXCEPT ![u] = "empty"] /\ st[u] = "idle"
          /\ UNCHANGED <<value, extra, parked>>
      BY <1>3, <2>2 DEF Construct
    <3>2. OwnersOf(st') = OwnersOf(st) /\ NoMissedWakeup'
      BY <3>1 DEF OwnersOf, Inv, TypeOK, NoMissedWakeup
    <3>3. QED
      BY Zenon, <3>1, <3>2, QueueUntouched, PermitsStay DEF Inv, States
  <2>3. QED
    BY <2>1, <2>2
<1>4. ASSUME NEW u \in Users, Ready(u) \/ Resume(u) PROVE Inv'
  <2>1. /\ st' = [st EXCEPT ![u] = "holding"] /\ st[u] \in {"borrowed", "woken"}
        /\ UNCHANGED <<value, extra, parked>>
    BY <1>4 DEF Ready, Resume
  <2>2. OwnersOf(st') = OwnersOf(st) /\ NoMissedWakeup'
    BY <2>1 DEF OwnersOf, Inv, TypeOK, NoMissedWakeup
  <2>3. QED
    BY Zenon, <2>1, <2>2, QueueUntouched, PermitsStay DEF Inv, States
<1>5. ASSUME NEW u \in Users, Suspend(u) PROVE Inv'
  <2>1. CASE value # 0
    BY <1>5, <2>1, PermitTaken DEF Suspend
  <2>2. CASE value = 0
    <3>1. /\ st' = [st EXCEPT ![u] = "parked"] /\ st[u] = "empty"
          /\ parked' = Append(parked, u) /\ value' = value /\ extra' = extra
      BY <1>5, <2>2 DEF Suspend
    <3>2. OwnersOf(st') = OwnersOf(st) /\ NoMissedWakeup'
      BY <2>2, <3>1 DEF OwnersOf, Inv, TypeOK, NoMissedWakeup
    <3>3. st' \in [Users -> States] /\ parked' \in Seq(Users)
      BY <3>1, AppendProperties DEF Inv, TypeOK, States
    <3>4. u \notin Range(parked)
      BY <3>1 DEF Inv, QueueMatches
    <3>5. QueueMatches'
      <4>1. {w \in Users : st'[w] = "parked"} = {w \in Users : st[w] = "parked"} \cup {u}
        BY <3>1 DEF Inv, TypeOK
      <4>2. QED
        BY <3>1, <3>4, <4>1, QueueAppend DEF Inv, TypeOK, QueueMatches
    <3>6. QED
      BY <3>1, <3>2, <3>3, <3>5, PermitsStay
  <2>3. QED
    BY <2>1, <2>2
<1>6. ASSUME NEW u \in Users, Drop(u) PROVE Inv'
  <2>1. CASE st[u] = "empty"
    <3>1. st' = [st EXCEPT ![u] = "idle"] /\ UNCHANGED <<value, extra, parked>>
      BY <1>6, <2>1 DEF Drop
    <3>2. OwnersOf(st') = OwnersOf(st) /\ NoMissedWakeup'
      BY <2>1, <3>1 DEF OwnersOf, Inv, TypeOK, NoMissedWakeup
    <3>3. QED
      BY Zenon, <2>1, <3>1, <3>2, QueueUntouched, PermitsStay DEF Inv, States
  <2>2. CASE st[u] # "empty"
    BY <1>6, <2>2, PermitReturned DEF Drop, OwnersOf
  <2>3. QED
    BY <2>1, <2>2
<1>7. ASSUME NEW u \in Users, Cancel(u) PROVE Inv'
  <2>1. PICK i \in DOMAIN parked : parked[i] = u /\ parked' = RemoveAt(parked, i)
    BY <1>7 DEF Cancel
  <2>2. st' = [st EXCEPT ![u] = "idle"] /\ st[u] = "parked" /\ UNCHANGED <<value, extra>>
    BY <1>7 DEF Cancel
  <2>3. /\ parked' \in Seq(Users) /\ IsInjective(parked')
        /\ Range(parked') = Range(parked) \ {u}
    BY <2>1, QueueRemove DEF Inv, TypeOK, QueueMatches
  <2>4. QueueMatches'
    <3>1. {w \in Users : st'[w] = "parked"} = {w \in Users : st[w] = "parked"} \ {u}
      BY <2>2 DEF Inv, TypeOK
    <3>2. QED
      BY <2>3, <3>1 DEF Inv, QueueMatches
  <2>5. OwnersOf(st') = OwnersOf(st) /\ st' \in [Users -> States]
    BY <2>2 DEF OwnersOf, Inv, TypeOK, States
  <2>6. NoMissedWakeup'
    <3>1. parked # <<>>
      BY <2>1
    <3>2. QED
      BY <2>2, <3>1 DEF Inv, NoMissedWakeup
  <2>7. QED
    BY <2>2, <2>3, <2>4, <2>5, <2>6, PermitsStay
<1>8. ASSUME NEW u \in Users, GiveBack(u) PROVE Inv'
  BY <1>8, PermitReturned DEF GiveBack, OwnersOf
<1>9. CASE UNCHANGED vars
  BY <1>9 DEF vars, Inv, TypeOK, QueueMatches, NoMissedWakeup, PermitsConserved, Owners
<1>10. QED
  BY <1>1, <1>2, <1>3, <1>4, <1>5, <1>6, <1>7, <1>8, <1>9 DEF Next

\* The types, the wait queue, the absence of missed wakeups and the conservation
\* of permits, in every behaviour of the semaphore.
THEOREM SemaphoreSafe ==
  Spec => [](TypeOK /\ QueueMatches /\ NoMissedWakeup /\ PermitsConserved)
<1>1. Inv => TypeOK /\ QueueMatches /\ NoMissedWakeup /\ PermitsConserved
  BY DEF Inv
<1>2. QED
  BY <1>1, InvInit, InvNext, PTL DEF Spec

\* Only the head of the wait queue is ever woken: waiters are served in the order
\* they parked.
THEOREM SemaphoreFair == Spec => FirstComeFirstServed
<1> DEFINE Ordered == \A u \in Users : st[u] = "parked" /\ st'[u] = "woken" => parked[1] = u
<1>1. ASSUME Inv, [Next]_vars PROVE Ordered
  <2> SUFFICES ASSUME NEW w \in Users, st[w] = "parked", st'[w] = "woken"
               PROVE  parked[1] = w
    OBVIOUS
  <2>1. ASSUME NEW s, Release(s), s[w] = "parked", s \in [Users -> States]
        PROVE  parked[1] = w
    <3>1. parked # <<>> /\ st' = [s EXCEPT ![Head(parked)] = "woken"]
      BY <2>1 DEF Release
    <3>2. w = Head(parked)
      BY <2>1, <3>1
    <3>3. QED
      BY <3>1, <3>2, QueueTail DEF Inv, TypeOK, QueueMatches
  <2>2. CASE Post
    BY <2>1, <2>2, <1>1 DEF Post, Inv, TypeOK
  <2>3. ASSUME NEW u \in Users, GiveBack(u) \/ Drop(u)
        PROVE  parked[1] = w
    <3>1. CASE Release([st EXCEPT ![u] = "idle"]) /\ u # w
      BY Zenon, <1>1, <2>1, <3>1 DEF Inv, TypeOK, States
    <3>2. QED
      BY <1>1, <2>3, <3>1 DEF GiveBack, Drop, Inv, TypeOK
  <2>4. ASSUME NEW u \in Users,
               \/ TryAcquire(u) \/ Construct(u) \/ Ready(u) \/ Suspend(u)
               \/ Cancel(u) \/ Resume(u)
        PROVE  FALSE
    BY <1>1, <2>4 DEF TryAcquire, Construct, Ready, Suspend, Cancel, Resume, Inv, TypeOK
  <2>5. CASE UNCHANGED vars
    BY <2>5 DEF vars
  <2>6. QED
    BY <1>1, <2>2, <2>3, <2>4, <2>5 DEF Next
<1>2. QED
  BY <1>1, InvInit, InvNext, PTL DEF Spec, FirstComeFirstServed
=============================================================================
