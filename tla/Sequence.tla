------------------------------ MODULE Sequence ------------------------------
(***************************************************************************)
(* SequenceBase, and Sequence: first | then(fn).  When the first stage is  *)
(* over, fn makes the second one from its result.                          *)
(***************************************************************************)
EXTENDS Stages

(* SequenceBase, which With shares.                                        *)

switchTo(s, stage) ==
  LET left == IF s.stage = "SecondStage" THEN Destroy(s, 2) ELSE s
  IN [left EXCEPT !.stage = stage]

SetExecutors(s) ==
  LET first == SetExecutor(s, 1)
  IN IF s.stage = "SecondStage"
       THEN LET second == Ready(first, 2)
            IN IF second.ret THEN second ELSE SetExecutor(second, 2)
       ELSE [Asserted(first, s.stage = "None") EXCEPT !.stage = "FirstStage"]

-----------------------------------------------------------------------------

Sequences ==
  {Composite("sequence", eager, <<first, second>>, fn) :
     eager \in BOOLEAN, first \in Answers, second \in Answers,
     fn \in {"makes", "throws", "cancels"}}

SeqEarlyCancel(s) == EarlyCancel([s EXCEPT !.cancelling = TRUE], 1)

\* FAULT: a second stage that was cancelled is kept until the Sequence is destroyed, and
\* is taken for one that has a result.
SeqMustResumeSecond(s) ==
  [s EXCEPT !.ret = s.stage \in {"Exception", "SecondStage"}]

SeqMustResume(s) ==
  IF s.stage = "SecondStage"
    THEN LET second == MustResume(s, 2)
         IN IF second.ret THEN second
            ELSE [Destroy(second, 2) EXCEPT !.stage = "None", !.ret = FALSE]
    ELSE [s EXCEPT !.ret = s.stage = "Exception"]

SeqResumesParent(s) ==
  LET told == ParentResumed(s)
  IN IF AsksAtOnce(told) THEN Answered(SeqMustResume(told)) ELSE told

\* await_cancel() while the second stage is being made.
CancelledMeanwhile(s) ==
  IF s.outer.state = "Running"
    THEN [s EXCEPT !.cancelling = TRUE, !.outer = aboutToCancel(@)] ELSE s

\* kickOffSecond() is noexcept: a second stage that throws here ends the program.
SuspendSecond(s) == LET begun == Suspend(s, 2) IN Asserted(begun, begun.ret)

\* FAULT: kickOffSecond() does not look again whether it was cancelled meanwhile.
BeginSecondBlindly(s) ==
  LET asked == Ready(s, 2)
  IN IF asked.ret THEN SeqResumesParent(asked) ELSE SuspendSecond(SetExecutor(asked, 2))

BeginSecond(s) ==
  LET early == IF s.cancelling THEN EarlyCancel(s, 2) ELSE [s EXCEPT !.ret = FALSE]
      asked == Ready(early, 2)
  IN IF early.ret THEN SeqResumesParent(switchTo(early, "None"))
     ELSE IF asked.ret THEN SeqResumesParent(asked)
     ELSE SuspendSecond(SetExecutor(asked, 2))

kickOffSecond(s) ==
  LET must == IF s.cancelling THEN MustResume(s, 1) ELSE [s EXCEPT !.ret = TRUE]
      value == Resume(Asserted(must, s.stage = "FirstStage"), 1)
      made == switchTo(value, "None")
  IN IF ~must.ret THEN SeqResumesParent(must)
     ELSE IF ~value.ret \/ s.fn = "throws"
       THEN SeqResumesParent([made EXCEPT !.stage = "Exception", !.failed = TRUE])
     ELSE BeginSecond([Construct(IF s.fn = "cancels" THEN CancelledMeanwhile(made) ELSE made, 2)
                         EXCEPT !.stage = "SecondStage"])

SeqSuspend(s) ==
  LET asked == Ready(s, 1)
  IN IF asked.ret THEN [kickOffSecond(asked) EXCEPT !.ret = TRUE] ELSE Suspend(asked, 1)

\* What the handle of stage i does; that of the second is the parent's.
StageResumes(s, i) == IF i = 1 THEN kickOffSecond(s) ELSE SeqResumesParent(s)

SeqCancel(s) ==
  LET told == [s EXCEPT !.cancelling = TRUE]
      i == IF s.stage = "FirstStage" THEN 1 ELSE 2
  IN IF s.stage \notin {"FirstStage", "SecondStage"} THEN [told EXCEPT !.ret = FALSE]
     ELSE IF ResumesInCancel(s, i)
       THEN [StageResumes(Cancel(told, i), i) EXCEPT !.ret = FALSE]
     ELSE Cancel(told, i)

SeqCompletes(s, i) == StageResumes(Completes(s, i), i)

SeqResume(s) ==
  IF s.stage = "Exception" THEN switchTo([s EXCEPT !.thrown = TRUE], "None")
  ELSE LET value == Resume(Asserted(s, s.stage = "SecondStage"), 2)
       IN switchTo([value EXCEPT !.thrown = ~value.ret], "None")
=============================================================================
