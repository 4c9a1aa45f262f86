--------------------------------- MODULE Mux ---------------------------------
(***************************************************************************)
(* anyOf(), mostOf() and allOf(): MuxHelper, MuxBase, MuxTuple, MuxRange.  *)
(*                                                                         *)
(* A mux is resumed, suspended and cancelled synchronously, and while it   *)
(* is, its children call back into it, which may make it cancel children   *)
(* in turn.  Those nested calls are operators from a state of the mux to   *)
(* the next: one action is one call from outside.                          *)
(***************************************************************************)
EXTENDS Integers, Sequences, FiniteSets

CONSTANTS
  Modes,   \* subset of {"anyOf", "mostOf", "allOf"}
  Tuples   \* the tuples of children there are to combine, see ChildKinds

(***************************************************************************)
(* What matters about an awaitable:                                        *)
(*   early   await_early_cancel() always returns true (Skippable,          *)
(*           "always"), returns true this time ("now"), or false ("no");   *)
(*   abort   await_cancel() always returns true (Abortable, "always"),     *)
(*           returns true this time ("now"), returns false ("no"), or      *)
(*           resumes the handle before it returns false ("resumes");       *)
(*   must    await_must_resume(), should it be asked;                      *)
(*   start   await_ready() is true, await_suspend() throws, or neither;    *)
(*   fails   await_resume() reports an error.                              *)
(***************************************************************************)
ChildKinds == [early: {"always", "now", "no"},
               abort: {"always", "now", "no", "resumes"}, must: BOOLEAN,
               start: {"ready", "throws", "waits"}, fails: BOOLEAN]

ASSUME MuxAssumption ==
  /\ Modes \subseteq {"anyOf", "mostOf", "allOf"}
  /\ Tuples \subseteq Seq(ChildKinds) \ {<<>>}

VARIABLES
  mode, kind,  \* which combiner, of which children
  mux,         \* the combiner and its MuxHelpers, see TypeOK
  pst,         \* its awaiting task: "start", "suspended", "resumed", "cancelled"
  pcxl         \* cancellation of that task was requested

vars == <<mode, kind, mux, pst, pcxl>>

N == Len(kind)   \* size()
Children == 1..N

HelperStates == {"NotStarted", "CancellationPending", "Running", "Cancelling",
                 "Cancelled", "Ready", "Succeeded", "Failed"}
Final == {"Cancelled", "Succeeded", "Failed"}

TypeOK ==
  /\ mode \in Modes /\ kind \in Seq(ChildKinds)
  /\ mux \in [ch: [Children -> HelperStates],  \* MuxHelper::state()
              count: 0..(2 * N - 1),           \* MuxBase::count_
              error: BOOLEAN,                  \* MuxBase::error_ is set
              bound: BOOLEAN,                  \* bind() was called
              parent: BOOLEAN,                 \* parent_ is not a noop handle
              resumed: 0..(2 * N),             \* times parent_ was resumed
              trap: BOOLEAN]                   \* a CORRAL_ASSERT failed
  /\ pst \in {"start", "suspended", "resumed", "cancelled"}
  /\ pcxl \in BOOLEAN

Init ==
  /\ mode \in Modes /\ kind \in Tuples
  /\ mux = [ch |-> [i \in Children |-> "NotStarted"], count |-> 0, error |-> FALSE,
            bound |-> FALSE, parent |-> FALSE, resumed |-> 0, trap |-> FALSE]
  /\ pst = "start" /\ pcxl \in BOOLEAN
-----------------------------------------------------------------------------
MinReady == IF mode = "anyOf" THEN 1 ELSE N

Set(s, i, state) == [s EXCEPT !.ch[i] = state]
Trap(s) == [s EXCEPT !.trap = TRUE]
ResumeParent(s) == IF s.parent THEN [s EXCEPT !.resumed = @ + 1] ELSE s

RECURSIVE Invoke(_, _), InternalCancel(_, _), CancelChild(_, _)

\* MuxHelper::reportResult().
ReportResult(s, i) ==
  Invoke(Set(s, i, IF kind[i].fails THEN "Failed" ELSE "Succeeded"), kind[i].fails)

\* MuxHelper::invoke(): the child's handle was resumed.
ChildInvoke(s, i) ==
  IF s.ch[i] \notin {"Running", "Cancelling", "Ready"} THEN Trap(s)
  ELSE IF s.ch[i] = "Cancelling" /\ ~kind[i].must
  THEN Invoke(Set(s, i, "Cancelled"), FALSE)
  ELSE ReportResult(s, i)

\* FAULT: an error does not cancel the other children.
EnoughReported(s, first) == s.count = MinReady

\* MuxBase::invoke() has the answer, or an error: the rest can be cancelled.
Enough(s, first) == first \/ s.count = MinReady

\* MuxBase::invoke(): every child has reported.
Complete(s) == s.count = N

\* MuxBase::invoke() does not count itself while it cancels the others, so that
\* only one of the nested calls finds that all have reported.
Held(s) == [s EXCEPT !.count = @ - 1]

\* MuxBase::invoke().
Invoke(s, fails) ==
  LET first == fails /\ ~s.error
      s1 == [s EXCEPT !.count = @ + 1, !.error = @ \/ fails]
  IN  IF Complete(s1) THEN ResumeParent(s1)
      ELSE IF Enough(s1, first)
      THEN LET s2 == InternalCancel(Held(s1), 1)
               s3 == [s2 EXCEPT !.count = @ + 1]
           IN  IF Complete(s3) THEN ResumeParent(s3) ELSE s3
      ELSE s1

\* MuxHelper::cancel().  It returns whether the child is Cancelled afterwards.
CancelChild(s, i) ==
  CASE s.ch[i] = "NotStarted" ->
         IF kind[i].early # "no"
         THEN LET s1 == Set(s, i, "Cancelled")
              IN  IF s.bound THEN Invoke(s1, FALSE) ELSE s1
         ELSE Set(s, i, "CancellationPending")
    [] s.ch[i] = "Running" ->
         LET s1 == Set(s, i, "Cancelling")
         IN  IF kind[i].abort \in {"always", "now"}
             THEN Invoke(Set(s1, i, "Cancelled"), FALSE)
             ELSE IF kind[i].abort = "resumes" THEN ChildInvoke(s1, i) ELSE s1
    [] OTHER -> s

\* internalCancel() of MuxTuple and MuxRange, from child i on.
InternalCancel(s, i) ==
  IF i > N THEN s ELSE InternalCancel(CancelChild(s, i), i + 1)

AllCancelled(s) == \A i \in Children : s.ch[i] = "Cancelled"

\* MuxHelper::kickOff().
KickOff(s, i) ==
  LET s1 == Set(s, i, IF s.ch[i] = "CancellationPending" THEN "Cancelling" ELSE "Running")
  IN  CASE kind[i].start = "ready"  -> ChildInvoke(s1, i)
        [] kind[i].start = "throws" -> Invoke(Set(s1, i, "Failed"), TRUE)
        [] kind[i].start = "waits"  -> s1

\* MuxHelper::suspend().
SuspendChild(s, i) ==
  CASE s.ch[i] \in {"NotStarted", "CancellationPending"} -> KickOff(s, i)
    [] s.ch[i] = "Cancelled" -> Invoke(s, FALSE)
    [] OTHER -> Trap(s)

RECURSIVE SuspendFrom(_, _)
SuspendFrom(s, i) ==
  IF i > N THEN s ELSE SuspendFrom(SuspendChild(s, i), i + 1)

\* await_suspend(): doSuspend(), bind(), suspend().
SuspendAll(s) ==
  SuspendFrom([s EXCEPT !.parent = TRUE, !.bound = TRUE], 1)

\* MuxHelper::ready() and await_ready() of MuxTuple and MuxRange.
ChildReady(s, i) ==
  CASE s.ch[i] = "NotStarted" -> kind[i].start = "ready"
    [] OTHER -> s.ch[i] \in {"Ready", "Succeeded", "Failed"}

AwaitReady(s) ==
  /\ Cardinality({i \in Children : ChildReady(s, i)}) >= MinReady
  /\ \A i \in Children : ChildReady(s, i) \/ kind[i].early = "always"

\* MuxHelper::reportImmediateResult().
ReportImmediate(s, i) ==
  LET s1 == IF s.ch[i] # "CancellationPending" THEN s
            ELSE Set(s, i, IF kind[i].must THEN "Ready" ELSE "Cancelled")
      s2 == CancelChild(s1, i)
  IN  CASE s1.ch[i] = "Cancelled" -> Invoke(s1, FALSE)
        [] s1.ch[i] = "NotStarted" /\ kind[i].start # "ready" ->
             IF s2.ch[i] = "Cancelled" THEN s2 ELSE Trap(s2)
        [] s1.ch[i] \in {"Ready", "NotStarted"} /\ kind[i].start = "ready" ->
             ReportResult(s1, i)
        [] OTHER -> Trap(s1)

RECURSIVE ReportFrom(_, _, _)
ReportFrom(s, i, skipped) ==
  IF i > N THEN s
  ELSE ReportFrom(IF i = skipped THEN s ELSE ReportImmediate(s, i), i + 1, skipped)

\* handleResumeWithoutSuspend(): the first child that is ready goes first.
ReportAll(s) ==
  LET r == CHOOSE i \in Children :
             ChildReady(s, i) /\ \A j \in 1..(i - 1) : ~ChildReady(s, j)
  IN  ReportFrom(ReportImmediate([s EXCEPT !.bound = TRUE], r), 1, r)

\* FAULT: the answer of a single child is enough for allOf() as well.
AnyMustResume(s) == \E i \in Children : s.ch[i] # "Cancelled"

\* FAULT: an error does not count.
AllMustResume(s) == \A i \in Children : s.ch[i] # "Cancelled"

\* await_must_resume() of the combiners, once every child is done.
MustResume(s) ==
  IF mode = "allOf"
  THEN s.error \/ \A i \in Children : s.ch[i] # "Cancelled"
  ELSE \E i \in Children : s.ch[i] # "Cancelled"

\* await_resume(): asOptional() or result() of every child, unless one failed.
Results(s) ==
  IF \/ s.error
     \/ \A i \in Children :
          s.ch[i] \in IF mode = "allOf" THEN {"Succeeded"} ELSE {"Succeeded", "Cancelled"}
  THEN s ELSE Trap(s)
-----------------------------------------------------------------------------
\* muxIsAbortable() and muxIsSkippable() of MuxTuple and MuxRange.
MuxIsAbortable == MinReady = 1 /\ \A i \in Children : kind[i].abort = "always"
MuxIsSkippable == \A i \in Children : kind[i].early = "always"

\* The task co_awaits the mux: AwaitProxy and BasePromise::hookAwaitSuspend().
Await ==
  /\ pst = "start" /\ ~mux.trap
  /\ LET early == InternalCancel(mux, 1)   \* MuxBase::await_early_cancel()
     IN  \/ /\ ~pcxl /\ AwaitReady(mux)
            /\ mux' = Results(ReportAll(mux)) /\ pst' = "resumed"
         \/ /\ ~pcxl /\ ~AwaitReady(mux)
            /\ mux' = SuspendAll(mux) /\ pst' = "suspended"
         \/ /\ pcxl /\ AllCancelled(early)
            /\ mux' = early /\ pst' = "cancelled"
         \/ /\ pcxl /\ ~AllCancelled(early)
            /\ mux' = SuspendAll(IF MuxIsSkippable THEN Trap(early) ELSE early)
            /\ pst' = "suspended"
  /\ UNCHANGED <<mode, kind, pcxl>>

\* An awaited operation completes and resumes its MuxHelper.
ChildCompletes(i) ==
  /\ pst # "start" /\ ~mux.trap /\ mux.ch[i] \in {"Running", "Cancelling"}
  /\ mux' = ChildInvoke(mux, i)
  /\ UNCHANGED <<mode, kind, pst, pcxl>>

\* FAULT: nobody resumes the task when the last children are cancelled at once.
CancelForgets(s) == [s EXCEPT !.parent = TRUE]

\* MuxBase::await_cancel(), the end of it: parent_ is put back, and resumed here
\* if the children that were left have all been cancelled synchronously.
CancelEnds(s) ==
  LET s1 == [s EXCEPT !.parent = TRUE]
  IN  IF AllCancelled(s) THEN s1
      ELSE IF MuxIsAbortable THEN Trap(s1)
      ELSE IF Complete(s) THEN ResumeParent(s1) ELSE s1

\* The suspended task is cancelled: MuxBase::await_cancel().
CancelParent ==
  /\ pst = "suspended" /\ ~mux.trap /\ ~pcxl /\ mux.resumed = 0
  /\ pcxl' = TRUE
  /\ LET s == InternalCancel([mux EXCEPT !.parent = FALSE], 1)
     IN  /\ mux' = CancelEnds(s)
         /\ pst' = IF AllCancelled(s) THEN "cancelled" ELSE "suspended"
  /\ UNCHANGED <<mode, kind>>

\* The resumed task is scheduled and runs, or terminates as cancelled:
\* doResume() or doResumeAfterCancel(), then await_resume().
Proceed ==
  /\ pst = "suspended" /\ ~mux.trap /\ mux.resumed > 0
  /\ \/ /\ pcxl /\ ~MustResume(mux)
        /\ pst' = "cancelled" /\ UNCHANGED mux
     \/ /\ pcxl => MustResume(mux)
        /\ pst' = "resumed" /\ mux' = Results(mux)
  /\ UNCHANGED <<mode, kind, pcxl>>

\* The mux is done, or an assertion has ended the program.
Terminated ==
  /\ \/ pst \in {"resumed", "cancelled"} /\ \A i \in Children : mux.ch[i] \in Final
     \/ mux.trap
  /\ UNCHANGED vars

Next ==
  \/ Await \/ CancelParent \/ Proceed \/ Terminated
  \/ \E i \in Children : ChildCompletes(i)

Spec == Init /\ [][Next]_vars
-----------------------------------------------------------------------------
Done == \A i \in Children : mux.ch[i] \in Final

\* Child i may end while suspend() starts it, before child j is started.
EndsBefore(i, j) == i < j /\ kind[i].start # "waits"

\* Such a child may have one dropped by cancel(), which counts it, before suspend()
\* counts it again.
CountsTwice ==
  N > 2 /\ \E i, j \in Children : EndsBefore(i, j) /\ kind[j].early # "no"

\* Or it has one that is said to be Abortable, and cannot be dropped, started although
\* it was cancelled.
Overpromises ==
  MuxIsAbortable /\ \E i, j \in Children : EndsBefore(i, j) /\ kind[j].early = "no"

\* However completions and cancellations nest, the awaiting task is resumed at most
\* once and is not forgotten; and not while a child is at work, when nothing would be
\* left to receive the child's completion.  Of three children or more this last holds
\* only if none is counted twice: otherwise the task is resumed too early.
ResumedOnceDone ==
  ~mux.trap =>
    /\ mux.resumed =< 1
    /\ pst = "suspended" /\ Done => mux.resumed = 1
    /\ mux.resumed > 0 \/ pst \in {"resumed", "cancelled"} => Done \/ CountsTwice

\* The state is well typed and no CORRAL_ASSERT() fails: no call finds a MuxHelper in
\* a state it does not expect, and await_resume() finds the results it returns, if no child
\* is counted twice; a mux that says its cancellation always succeeds at once keeps that
\* promise, if no child is started after it was cancelled.
AssertionsHold == TypeOK /\ (mux.trap => CountsTwice \/ Overpromises)

\* Once the answer is known, an error has occurred or the task is cancelled, no
\* child is left running without having been asked to cancel.
LosersCancelled ==
  pst = "suspended" /\ (\E i \in Children : mux.ch[i] = "Running") =>
    /\ ~pcxl /\ ~mux.error
    /\ Cardinality({i \in Children : mux.ch[i] = "Succeeded"}) < MinReady

\* A cancellation does not swallow what was achieved: a cancelled allOf() lost no
\* error, a cancelled anyOf() or mostOf() lost no result or error.
NothingSwallowed ==
  pst = "cancelled" =>
    \A i \in Children : /\ mux.ch[i] # "Failed"
                        /\ mode # "allOf" => mux.ch[i] # "Succeeded"
=============================================================================
