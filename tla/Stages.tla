------------------------------- MODULE Stages -------------------------------
(***************************************************************************)
(* What the awaiters that are built from other awaiters have in common: a  *)
(* record s that holds the composite, the awaiters of its (at most two)    *)
(* stages, and the checkers on both sides, and one operator per call that  *)
(* a composite makes on the awaiter of a stage.  A call maps s to the next *)
(* s and leaves what it returned in s.ret.                                 *)
(*                                                                         *)
(* The awaiter of a stage is any that keeps to the awaiter protocol.  How  *)
(* it answers is fixed when it is made:                                    *)
(*   early    await_early_cancel() returns true                            *)
(*   ready    await_ready() returns true                                   *)
(*   throws   await_suspend() throws                                       *)
(*   cancel   await_cancel() returns true ("now"), returns false and the   *)
(*            awaiter completes afterwards ("later"), or completes before  *)
(*            it returns ("resumes", as a task does)                       *)
(*   must     await_must_resume() returns true                             *)
(*   fails    await_resume() throws                                        *)
(* The function that makes the second stage is user code as well: fn says  *)
(* whether it "makes" the stage, "throws", or "cancels" the awaiting task  *)
(* before it does.                                                         *)
(***************************************************************************)
EXTENDS AwaiterChecker, Naturals

Answers ==
  {a \in [early: BOOLEAN, ready: BOOLEAN, throws: BOOLEAN, must: BOOLEAN, fails: BOOLEAN,
          cancel: {"now", "later", "resumes"}] :
     \* Answers nobody will ask for are not told apart.
     /\ a.ready \/ a.throws => a.cancel = "later"
     /\ a.throws => ~a.ready /\ a.must /\ ~a.fails}

\* There is no awaiter: not constructed yet, or destroyed.  Any call on it is Bad.
Gone == [state |-> "Gone", hasExecutor |-> FALSE]

\* A composite before anybody has called it.  eager: it is awaited by a promise, which asks
\* await_must_resume() as soon as it is resumed; others ask later.
Composite(kind, eager, answers, fn) ==
  [kind |-> kind, eager |-> eager, leaf |-> answers, fn |-> fn,
   outer |-> NewChecker, chk |-> <<NewChecker, Gone>>,
   stage |-> "None", cancelling |-> FALSE, ret |-> FALSE,
   failed |-> FALSE,   \* some stage, or the function that makes the second, has thrown
   thrown |-> FALSE,   \* await_resume() of the composite has thrown
   sound |-> TRUE]     \* no CORRAL_ASSERT of the composite has failed

Asserted(s, cond) == [s EXCEPT !.sound = @ /\ cond]

-----------------------------------------------------------------------------
(* Calls on the awaiter of stage i.                                        *)

EarlyCancel(s, i) ==
  [s EXCEPT !.ret = s.leaf[i].early, !.chk[i] = earlyCancelReturned(@, s.leaf[i].early)]

Ready(s, i) ==
  [s EXCEPT !.ret = s.leaf[i].ready, !.chk[i] = readyReturned(@, s.leaf[i].ready)]

SetExecutor(s, i) == [s EXCEPT !.chk[i] = aboutToSetExecutor(@)]

\* Returns whether the stage is suspended; it has thrown otherwise.
Suspend(s, i) ==
  [s EXCEPT !.ret = ~s.leaf[i].throws,
            !.failed = @ \/ s.leaf[i].throws,
            !.chk[i] = IF s.leaf[i].throws THEN suspendThrew(aboutToSuspend(@))
                                           ELSE aboutToSuspend(@)]

MustResume(s, i) ==
  [s EXCEPT !.ret = s.leaf[i].must, !.chk[i] = mustResumeReturned(@, s.leaf[i].must)]

\* Returns whether there is a value; await_resume() has thrown otherwise.
Resume(s, i) ==
  [s EXCEPT !.ret = ~s.leaf[i].fails,
            !.failed = @ \/ s.leaf[i].fails,
            !.chk[i] = aboutToResume(@)]

\* The awaiter resumes the handle it was suspended with.  The composite goes on to do what
\* that handle does.
Completes(s, i) == [s EXCEPT !.chk[i] = resumed(@)]

\* It does so inside await_cancel().
ResumesInCancel(s, i) == s.leaf[i].cancel = "resumes"

Cancel(s, i) ==
  LET asked == [s EXCEPT !.chk[i] = aboutToCancel(@), !.ret = FALSE]
  IN CASE s.leaf[i].cancel = "now" ->
            [asked EXCEPT !.ret = TRUE, !.chk[i] = cancelReturned(@, TRUE)]
       [] s.leaf[i].cancel = "later" -> asked
       [] s.leaf[i].cancel = "resumes" -> Completes(asked, i)

Construct(s, i) == [s EXCEPT !.chk[i] = NewChecker]

Destroy(s, i) ==
  [s EXCEPT !.chk[i] = IF @ = Gone \/ reset(@) = NewChecker THEN Gone ELSE reset(@)]

-----------------------------------------------------------------------------
(* The composite resumes the handle of whoever awaits it, which may ask    *)
(* await_must_resume() at once or later.                                   *)

ParentResumed(s) == [s EXCEPT !.outer = resumed(@)]

AsksAtOnce(s) == s.eager /\ s.outer.state = "ReadyAfterCancel"

Answered(s) == [s EXCEPT !.outer = mustResumeReturned(@, s.ret)]
=============================================================================
