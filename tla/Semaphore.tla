------------------------------ MODULE Semaphore ------------------------------
(***************************************************************************)
(* corral::Semaphore and the parking lot (wait queue) it is built on.      *)
(*                                                                         *)
(* An acquire() or lock() goes through an awaiter, which already tries to  *)
(* take a permit when it is constructed (it "borrows" it), may be          *)
(* destroyed without ever being awaited, and parks if there is no permit.  *)
(* A woken task holds its permit from the moment it is unparked, before    *)
(* the executor gets to run it.                                            *)
(***************************************************************************)
EXTENDS Naturals, Sequences, FiniteSets, SequencesExt

CONSTANTS
  Users,    \* one outstanding operation each
  Initial,  \* the argument of the constructor
  MaxExtra  \* bound: permits added by release() without an acquisition

ASSUME SemaphoreAssumption ==
  IsFiniteSet(Users) /\ Initial \in Nat /\ MaxExtra \in Nat

VARIABLES
  value,    \* Semaphore::value_
  extra,    \* history: permits added so far
  parked,   \* ParkingLotImpl::parked_, oldest first
  st        \* st[u]: "idle", "empty" or "borrowed" (an awaiter not awaited yet,
            \* without or with the bit set), "parked", "woken", "holding"

vars == <<value, extra, parked, st>>

States == {"idle", "empty", "borrowed", "parked", "woken", "holding"}

TypeOK ==
  /\ value \in Nat
  /\ extra \in 0..MaxExtra
  /\ parked \in Seq(Users)
  /\ st \in [Users -> States]

Init ==
  value = Initial /\ extra = 0 /\ parked = <<>> /\ st = [u \in Users |-> "idle"]

\* FAULT: a woken task takes the permit itself, so release() counts it as well.
ReleaseBoth(s) ==
  /\ value' = value + 1
  /\ IF parked = <<>>
     THEN st' = s /\ UNCHANGED parked
     ELSE st' = [s EXCEPT ![Head(parked)] = "woken"] /\ parked' = Tail(parked)

\* FAULT: a waiting task is left parked.
ReleaseNoWake(s) ==
  value' = value + 1 /\ st' = s /\ UNCHANGED parked

\* FAULT: the youngest waiter is woken.
ReleaseLast(s) ==
  IF parked = <<>>
  THEN value' = value + 1 /\ st' = s /\ UNCHANGED parked
  ELSE /\ st' = [s EXCEPT ![Last(parked)] = "woken"]
       /\ parked' = Front(parked)
       /\ UNCHANGED value

\* Semaphore::release() and ParkingLotImpl::unparkOne(), in a step that leaves
\* the caller's own state as s says.
Release(s) ==
  IF parked = <<>>
  THEN value' = value + 1 /\ st' = s /\ UNCHANGED parked
  ELSE /\ st' = [s EXCEPT ![Head(parked)] = "woken"]
       /\ parked' = Tail(parked)
       /\ UNCHANGED value

TryAcquire(u) ==
  /\ st[u] = "idle" /\ value # 0
  /\ value' = value - 1
  /\ st' = [st EXCEPT ![u] = "holding"]
  /\ UNCHANGED <<extra, parked>>

\* Semaphore::Awaiter is constructed.
Construct(u) ==
  /\ st[u] = "idle"
  /\ \/ /\ value # 0 /\ value' = value - 1
        /\ st' = [st EXCEPT ![u] = "borrowed"]
     \/ /\ value = 0 /\ UNCHANGED value
        /\ st' = [st EXCEPT ![u] = "empty"]
  /\ UNCHANGED <<extra, parked>>

\* await_ready() with a borrowed permit, then await_resume().
Ready(u) ==
  /\ st[u] = "borrowed"
  /\ st' = [st EXCEPT ![u] = "holding"]
  /\ UNCHANGED <<value, extra, parked>>

\* await_suspend(): one more attempt, then ParkingLotImpl::Parked::doSuspend().
Suspend(u) ==
  /\ st[u] = "empty"
  /\ \/ /\ value # 0 /\ value' = value - 1
        /\ st' = [st EXCEPT ![u] = "woken"]
        /\ UNCHANGED parked
     \/ /\ value = 0 /\ UNCHANGED value
        /\ st' = [st EXCEPT ![u] = "parked"]
        /\ parked' = Append(parked, u)
  /\ UNCHANGED extra

\* The awaiter is destroyed without having been suspended: its task was being
\* cancelled, or another arm of an anyOf() won.
Drop(u) ==
  \/ /\ st[u] = "empty"
     /\ st' = [st EXCEPT ![u] = "idle"] /\ UNCHANGED <<value, extra, parked>>
  \/ /\ st[u] = "borrowed"
     /\ Release([st EXCEPT ![u] = "idle"]) /\ UNCHANGED extra

\* ParkingLotImpl::Parked::await_cancel().
Cancel(u) ==
  /\ st[u] = "parked"
  /\ st' = [st EXCEPT ![u] = "idle"]
  /\ \E i \in DOMAIN parked : parked[i] = u /\ parked' = RemoveAt(parked, i)
  /\ UNCHANGED <<value, extra>>

\* The executor runs the woken task: await_resume().
Resume(u) ==
  /\ st[u] = "woken"
  /\ st' = [st EXCEPT ![u] = "holding"]
  /\ UNCHANGED <<value, extra, parked>>

\* release() by a task that acquired, or ~Lock().
GiveBack(u) ==
  /\ st[u] = "holding"
  /\ Release([st EXCEPT ![u] = "idle"]) /\ UNCHANGED extra

\* release() by code that holds no permit: the semaphore used as a counter.
Post ==
  /\ extra < MaxExtra /\ extra' = extra + 1
  /\ Release(st)

Next ==
  \/ Post
  \/ \E u \in Users : \/ TryAcquire(u) \/ Construct(u) \/ Ready(u) \/ Suspend(u)
                      \/ Drop(u) \/ Cancel(u) \/ Resume(u) \/ GiveBack(u)

Spec == Init /\ [][Next]_vars

\* The scheduler runs woken tasks, awaiters are awaited or destroyed, and
\* whoever holds a permit gives it back.
Fairness ==
  \A u \in Users : WF_vars(Ready(u) \/ Suspend(u) \/ Resume(u) \/ GiveBack(u))

FairSpec == Spec /\ Fairness
-----------------------------------------------------------------------------
\* The users that own a permit, wherever their operation is.
Owners == {u \in Users : st[u] \in {"borrowed", "woken", "holding"}}

\* No permit is lost, or made up beyond those posted, whether an acquisition
\* completes, is cancelled while parked, or is dropped with a borrowed permit.
PermitsConserved == value + Cardinality(Owners) = Initial + extra

\* The wait queue holds each waiting task once and no other.
QueueMatches ==
  /\ IsInjective(parked)
  /\ Range(parked) = {u \in Users : st[u] = "parked"}

\* A free permit is never left beside a waiting task: release() hands it over,
\* and await_suspend() looks again before it parks.
NoMissedWakeup == value # 0 => parked = <<>>

\* Waiters are woken in the order they parked: nobody is woken while an older
\* waiter stays in the queue.
FirstComeFirstServed ==
  [][\A u \in Users : st[u] = "parked" /\ st'[u] = "woken" => parked[1] = u]_vars

\* A task that waits and is not cancelled gets its permit.
EveryWaiterServed ==
  \A u \in Users : st[u] = "parked" ~> st[u] # "parked"
=============================================================================
