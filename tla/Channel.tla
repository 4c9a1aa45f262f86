------------------------------- MODULE Channel -------------------------------
(***************************************************************************)
(* corral::Channel: a circular buffer (Queue), a queue of parked readers   *)
(* and a queue of parked writers.                                          *)
(*                                                                         *)
(* An awaiter of receive() or send() claims an object (or a free slot)     *)
(* when it is constructed, or when the other half wakes it, and only makes *)
(* the transfer when its task runs.  Objects are numbered in the order in  *)
(* which they enter the buffer, modulo Modulus.  CORRAL_ASSERT is compiled *)
(* out, as in a release build: what it would have trapped happens.         *)
(***************************************************************************)
EXTENDS Queue, FiniteSets, SequencesExt

CONSTANTS
  Readers, Writers,  \* tasks, with one outstanding operation each
  Capacity,          \* of a bounded channel
  Batch,             \* length of the ranges passed to the range overloads
  MaxBuffered        \* bound: objects an unbounded channel is filled with

Users == Readers \cup Writers

ASSUME ChannelAssumption ==
  /\ IsFiniteSet(Users) /\ Readers \cap Writers = {}
  /\ Capacity \in Nat \ {0} /\ Batch \in Nat \ {0} /\ MaxBuffered \in Nat

VARIABLES
  bounded,  \* Channel::bounded_: which constructor was used
  buf,      \* Channel::buf_, a Queue
  closed,   \* Channel::closed_
  rclaims, wclaims,  \* ReadHalf::claims_, WriteHalf::claims_
  rparked, wparked,  \* the two parking lots
  st,       \* st[u]: "idle", "ready" (an awaiter not suspended), "parked", "woken"
  claimed,  \* claimed[u]: the awaiter's ClaimBit
  len,      \* len[u]: the length of the awaiter's range, 0 for a single object
  put, got  \* history: the number of the next object to send, and the one after the last received

vars == <<bounded, buf, closed, rclaims, wclaims, rparked, wparked, st, claimed, len, put, got>>

Modulus == 1 + IF bounded THEN Capacity ELSE MaxBuffered

\* Types, and the shape of the parking lots: they hold the suspended tasks, each
\* once.
TypeOK ==
  /\ bounded \in BOOLEAN
  /\ Contents(buf) \in Seq(0..(Modulus - 1))
  /\ closed \in BOOLEAN
  /\ rclaims \in Nat /\ wclaims \in Nat
  /\ rparked \in Seq(Readers) /\ wparked \in Seq(Writers)
  /\ st \in [Users -> {"idle", "ready", "parked", "woken"}]
  /\ claimed \in [Users -> BOOLEAN]
  /\ len \in [Users -> {0, Batch}]
  /\ put \in 0..(Modulus - 1) /\ got \in 0..(Modulus - 1)
  /\ IsInjective(rparked) /\ IsInjective(wparked)
  /\ Range(rparked) \cup Range(wparked) = {u \in Users : st[u] = "parked"}

Init ==
  /\ bounded \in BOOLEAN
  /\ buf = NewQueue(IF bounded THEN Capacity ELSE 0) /\ closed = FALSE
  /\ rclaims = 0 /\ wclaims = 0 /\ rparked = <<>> /\ wparked = <<>>
  /\ st = [u \in Users |-> "idle"]
  /\ claimed = [u \in Users |-> FALSE]
  /\ len = [u \in Users |-> 0]
  /\ put = 0 /\ got = 0
-----------------------------------------------------------------------------
Least(a, b) == IF a < b THEN a ELSE b

\* numeric_limits<size_t>::max(): more than any range offers.
Unlimited == Modulus

\* FAULT: claims are not subtracted.
SizeUnclaimed(b, rc) == b.size

\* ReadHalf::size() and WriteHalf::space(), of a buffer b with claims outstanding.
Size(b, rc) == b.size - rc

Space(b, wc) ==
  IF closed THEN 0 ELSE IF ~bounded THEN Unlimited ELSE b.capacity - b.size - wc

Reading(u) == u \in Readers
Unclaimed(u) == IF Reading(u) THEN Size(buf, rclaims) ELSE Space(buf, wclaims)

\* What tryTransfer() moves for u with c claims of its own.  The range overloads
\* for sending do not ask an unbounded channel for its space.
Moved(u, l, c) ==
  IF l = 0 THEN Least(1, c + Unclaimed(u))
  ELSE IF ~Reading(u) /\ ~bounded THEN l
  ELSE Least(l, c + Unclaimed(u))

\* FAULT: the other half is not woken.
WokenNever(parked, avail) == 0

\* wakeAwaiters(): how many parked awaiters are given a claim and unparked.
Woken(parked, avail) == Least(avail, Len(parked))

\* The state after the first n of parked have been unparked, u's operation is
\* over, and both hold the claims they should.
Unpark(u, parked, n) ==
  LET woken == {parked[i] : i \in 1..n}
  IN  /\ st' = [w \in Users |-> IF w = u THEN "idle"
                                ELSE IF w \in woken THEN "woken" ELSE st[w]]
      /\ claimed' = [w \in Users |-> IF w = u THEN FALSE
                                     ELSE claimed[w] \/ w \in woken]
      /\ len' = [len EXCEPT ![u] = 0]

\* n objects are taken out, one by itself or several for a range of length l.
Taken(b, l, n) ==
  IF n = 0 THEN [queue |-> b, moved |-> <<>>]
  ELSE IF l = 0 THEN [queue |-> pop_front(b), moved |-> <<front(b)>>]
  ELSE pop_front_to(b, n)

\* ReadHalf::tryTransfer(), the three overloads.
TransferIn(u, l, c) ==
  LET n == Moved(u, l, c)
      taken == Taken(buf, l, n)
      b == taken.queue
      w == IF n = 0 THEN 0 ELSE Woken(wparked, Space(b, wclaims))
  IN  /\ buf' = b /\ got' = IF n = 0 THEN got ELSE (Last(taken.moved) + 1) % Modulus
      /\ rclaims' = rclaims - c
      /\ wclaims' = wclaims + w
      /\ wparked' = SubSeq(wparked, w + 1, Len(wparked))
      /\ Unpark(u, wparked, w)
      /\ UNCHANGED <<bounded, closed, rparked, put>>

\* Objects are put in, one by itself or several from a range of length l.
Stored(b, l, xs) ==
  IF xs = <<>> THEN b ELSE IF l = 0 THEN push_back(b, xs[1]) ELSE append(b, xs)

\* WriteHalf::tryTransfer(), the three overloads.
TransferOut(u, l, c) ==
  LET n == Moved(u, l, c)
      b == Stored(buf, l, [i \in 1..n |-> (put + i - 1) % Modulus])
      w == IF n = 0 THEN 0 ELSE Woken(rparked, Size(b, rclaims))
  IN  /\ bounded \/ b.size =< MaxBuffered
      /\ buf' = b /\ put' = (put + n) % Modulus
      /\ wclaims' = wclaims - c
      /\ rclaims' = rclaims + w
      /\ rparked' = SubSeq(rparked, w + 1, Len(rparked))
      /\ Unpark(u, rparked, w)
      /\ UNCHANGED <<bounded, closed, wparked, got>>

Transfer(u, l, c) ==
  (Reading(u) /\ TransferIn(u, l, c)) \/ (~Reading(u) /\ TransferOut(u, l, c))
-----------------------------------------------------------------------------
\* tryReceive() and trySend().
Try(u, l) ==
  /\ st[u] = "idle"
  /\ Transfer(u, l, 0)

\* Awaiter's constructor.
Construct(u, l) ==
  /\ st[u] = "idle"
  /\ LET claims == Unclaimed(u) > 0
     IN  /\ st' = [st EXCEPT ![u] = "ready"]
         /\ claimed' = [claimed EXCEPT ![u] = claims]
         /\ rclaims' = IF claims /\ Reading(u) THEN rclaims + 1 ELSE rclaims
         /\ wclaims' = IF claims /\ ~Reading(u) THEN wclaims + 1 ELSE wclaims
  /\ len' = [len EXCEPT ![u] = l]
  /\ UNCHANGED <<bounded, buf, closed, rparked, wparked, put, got>>

\* AwaiterBase::await_suspend() is reached: await_ready() was false.
Suspends(u) == ~claimed[u] /\ ~closed

\* AwaiterBase::await_suspend(): another chance to claim, then doSuspend().
Suspend(u) ==
  /\ st[u] = "ready" /\ Suspends(u)
  /\ LET claims == Unclaimed(u) > 0
     IN  /\ st' = [st EXCEPT ![u] = IF claims THEN "woken" ELSE "parked"]
         /\ claimed' = [claimed EXCEPT ![u] = claims]
         /\ rclaims' = IF claims /\ Reading(u) THEN rclaims + 1 ELSE rclaims
         /\ wclaims' = IF claims /\ ~Reading(u) THEN wclaims + 1 ELSE wclaims
         /\ rparked' = IF ~claims /\ Reading(u) THEN Append(rparked, u) ELSE rparked
         /\ wparked' = IF ~claims /\ ~Reading(u) THEN Append(wparked, u) ELSE wparked
  /\ UNCHANGED <<bounded, buf, closed, len, put, got>>

\* await_resume(), right after await_ready() or when the executor runs the task.
Resume(u) ==
  /\ \/ st[u] = "woken"
     \/ st[u] = "ready" /\ ~Suspends(u)
  /\ Transfer(u, len[u], IF claimed[u] THEN 1 ELSE 0)

\* ~AwaiterBase() of an awaiter that was never suspended.
Drop(u) ==
  /\ st[u] = "ready"
  /\ LET c  == IF claimed[u] THEN 1 ELSE 0
         rw == IF claimed[u] /\ Reading(u) THEN Woken(rparked, Size(buf, rclaims - 1)) ELSE 0
         ww == IF claimed[u] /\ ~Reading(u) THEN Woken(wparked, Space(buf, wclaims - 1)) ELSE 0
     IN  /\ rclaims' = rclaims - (IF Reading(u) THEN c ELSE 0) + rw
         /\ wclaims' = wclaims - (IF Reading(u) THEN 0 ELSE c) + ww
         /\ rparked' = SubSeq(rparked, rw + 1, Len(rparked))
         /\ wparked' = SubSeq(wparked, ww + 1, Len(wparked))
         /\ IF Reading(u) THEN Unpark(u, rparked, rw)
                          ELSE Unpark(u, wparked, ww)
  /\ UNCHANGED <<bounded, buf, closed, put, got>>

\* IntrusiveListItem::unlink().
Unlinked(parked, u) == SelectSeq(parked, LAMBDA w : w # u)

\* Parked::await_cancel().
Cancel(u) ==
  /\ st[u] = "parked"
  /\ st' = [st EXCEPT ![u] = "idle"]
  /\ rparked' = Unlinked(rparked, u)
  /\ wparked' = Unlinked(wparked, u)
  /\ len' = [len EXCEPT ![u] = 0]
  /\ UNCHANGED <<bounded, buf, closed, rclaims, wclaims, claimed, put, got>>

\* Channel::close().
Close ==
  /\ closed' = TRUE
  /\ st' = [u \in Users |-> IF st[u] = "parked" THEN "woken" ELSE st[u]]
  /\ rparked' = <<>> /\ wparked' = <<>>
  /\ UNCHANGED <<bounded, buf, rclaims, wclaims, claimed, len, put, got>>

Next ==
  \/ Close
  \/ \E u \in Users : \/ Suspend(u) \/ Resume(u) \/ Drop(u) \/ Cancel(u)
                      \/ \E l \in {0, Batch} : Construct(u, l) \/ Try(u, l)

Spec == Init /\ [][Next]_vars
-----------------------------------------------------------------------------
Claimants(S) == Cardinality({u \in S : claimed[u]})

\* claims_ counts the awaiters that carry the claim bit, and every claim is
\* covered: there is an object for every claiming reader and room for every
\* claiming writer, so size() and space() never wrap below zero.
ClaimsCovered ==
  /\ rclaims = Claimants(Readers) /\ wclaims = Claimants(Writers)
  /\ rclaims =< buf.size
  /\ bounded => buf.size + wclaims =< Capacity

\* Nobody sleeps beside something to do: while a reader is parked every object
\* is claimed by another one and the channel is open; likewise for writers.
NoMissedWakeup ==
  /\ rparked # <<>> => Size(buf, rclaims) = 0 /\ ~closed
  /\ wparked # <<>> => Space(buf, wclaims) = 0 /\ ~closed

\* Objects come out once each, in the order they went in: what is buffered is
\* what was sent last, following on from what was received last.
InOrderOnce ==
  /\ put = (got + buf.size) % Modulus
  /\ \A i \in 1..buf.size : Contents(buf)[i] = (got + i - 1) % Modulus
=============================================================================
