------------------------------ MODULE Adapters ------------------------------
(***************************************************************************)
(* The awaiters that wrap one other awaiter: noncancellable() and          *)
(* disposable(), which forward what they do not override, a lambda that    *)
(* returns a task (AwaitableLambda), and untilCancelledAnd()               *)
(* (RunOnCancel).                                                          *)
(***************************************************************************)
EXTENDS Stages

\* What RunOnCancel runs must not fail: await_must_resume() is noexcept.
Adapted ==
  {Composite(kind, eager, <<answer>>, "makes") :
     kind \in {"noncancellable", "disposable"}, eager \in BOOLEAN, answer \in Answers}
  \cup
  {Composite("runOnCancel", eager, <<answer>>, "makes") :
     eager \in BOOLEAN, answer \in {a \in Answers : ~a.fails /\ ~a.throws}}
  \cup
  {[Composite("lambda", eager, <<answer>>, "makes") EXCEPT !.chk[1] = Gone] :
     eager \in BOOLEAN, answer \in {a \in Answers : ~a.early /\ ~a.throws}}

\* AwaitableLambda::awaiter() calls the lambda when it is needed first.
Called(s) == IF s.kind = "lambda" /\ s.chk[1] = Gone THEN Construct(s, 1) ELSE s

AdReady(s) ==
  IF s.kind \in {"runOnCancel", "lambda"} THEN [s EXCEPT !.ret = FALSE] ELSE Ready(s, 1)

AdSetExecutor(s) ==
  LET asked == Ready(Called(s), 1)
  IN IF s.kind # "lambda" THEN SetExecutor(s, 1)
     ELSE IF asked.ret THEN asked ELSE SetExecutor(asked, 1)

AdEarlyCancel(s) ==
  CASE s.kind = "noncancellable" -> [s EXCEPT !.ret = FALSE]
    [] s.kind \in {"disposable", "lambda"} -> EarlyCancel(Called(s), 1)
    [] s.kind = "runOnCancel" -> [s EXCEPT !.cancelling = TRUE, !.ret = FALSE]

AdMustResume(s) ==
  CASE s.kind = "noncancellable" -> [s EXCEPT !.ret = TRUE]
    [] s.kind = "disposable" -> [s EXCEPT !.ret = FALSE]
    [] s.kind = "lambda" -> MustResume(s, 1)
    [] s.kind = "runOnCancel" -> [Resume(s, 1) EXCEPT !.ret = FALSE]

AdResumesParent(s) ==
  LET told == ParentResumed(s)
  IN IF AsksAtOnce(told) THEN Answered(AdMustResume(told)) ELSE told

\* The wrapped awaiter starts: of a lambda in await_suspend(), of RunOnCancel when the
\* wrapper is cancelled.
RunNow(s) ==
  LET asked == Ready(s, 1)
  IN IF asked.ret THEN AdResumesParent(asked) ELSE Suspend(asked, 1)

AdCancel(s) ==
  CASE s.kind = "noncancellable" -> [s EXCEPT !.ret = FALSE]
    [] s.kind \in {"disposable", "lambda"} ->
         IF ResumesInCancel(s, 1) THEN [AdResumesParent(Cancel(s, 1)) EXCEPT !.ret = FALSE]
         ELSE Cancel(s, 1)
    [] s.kind = "runOnCancel" -> [RunNow(s) EXCEPT !.ret = FALSE]

AdSuspend(s) ==
  CASE s.kind = "lambda" -> [RunNow(s) EXCEPT !.ret = TRUE]
    [] s.kind = "runOnCancel" -> [(IF s.cancelling THEN RunNow(s) ELSE s) EXCEPT !.ret = TRUE]
    [] OTHER -> Suspend(s, 1)

AdCompletes(s) == AdResumesParent(Completes(s, 1))

AdResume(s) ==
  LET value == Resume(Asserted(s, s.kind # "runOnCancel"), 1)
  IN [value EXCEPT !.thrown = ~value.ret]
=============================================================================
