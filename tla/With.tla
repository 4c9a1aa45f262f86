-------------------------------- MODULE With --------------------------------
(***************************************************************************)
(* With (CORRAL_WITH): the first stage runs in the background, and the     *)
(* second begins when the first reports that it has started; each is       *)
(* cancelled when the other is over.  The first reports from the function  *)
(* that makes it, before With is awaited, or at any time while it runs.    *)
(*                                                                         *)
(* The flags of a stage are sets of stages.  A handle that a method        *)
(* returns is resumed by its caller at once, so it is resumed here.        *)
(***************************************************************************)
EXTENDS Sequence, TLC

\* The background stage never completes without an error, which With asserts.
Backgrounds == {a \in Answers : (a.ready \/ a.must) /\ ~a.throws => a.fails}

\* reported: the first stage has called its TaskStarted, which it can do once.
\* upfront: the function that makes the first stage has called it.
NewWith(eager, first, second, fn) ==
  Composite("with", eager, <<first, second>>, fn) @@
    [started |-> {}, stageCancelling |-> {}, done |-> {}, mustNotResume |-> {},
     hasSecondResult |-> FALSE, reported |-> FALSE, upfront |-> FALSE]

-----------------------------------------------------------------------------

mustStageResume(s, i) == i \notin s.mustNotResume
markStage(s, i, must) ==
  [s EXCEPT !.done = @ \cup {i}, !.mustNotResume = IF must THEN @ ELSE @ \cup {i}]

\* FAULT: an exception of the second stage, or of the function that makes it, is forgotten.
WithMustResumeForgets(s) ==
  [Asserted(s, s.stage # "SecondStage") EXCEPT
     !.ret = mustStageResume(s, 1) \/ s.hasSecondResult]

WithMustResume(s) ==
  [Asserted(s, s.stage # "SecondStage") EXCEPT
     !.ret = s.stage = "Exception" \/ mustStageResume(s, 1) \/ s.hasSecondResult]

\* onStageDone() of the second stage: keep the result, destroy the stage.
TakeSecondResult(s) ==
  LET value == Resume(s, 2)
  IN IF s.stage # "SecondStage" THEN s
     ELSE IF ~mustStageResume(s, 2) THEN switchTo(s, "None")
     ELSE IF value.ret THEN switchTo([value EXCEPT !.hasSecondResult = TRUE], "None")
     ELSE switchTo(value, "Exception")

RECURSIVE onStageDone(_, _)

\* The stage is asked to cancel; what the answer means.
AskStage(s, i) ==
  IF i \notin s.started THEN EarlyCancel(s, i)
  ELSE IF ResumesInCancel(s, i) THEN [onStageDone(Cancel(s, i), i) EXCEPT !.ret = FALSE]
  ELSE Cancel(s, i)

Settled(s, i) == IF s.ret THEN markStage(s, i, FALSE) ELSE s

\* Returns whether the stage is over.
cancelStage(s, i) ==
  IF i \in s.stageCancelling THEN [s EXCEPT !.ret = FALSE]
  ELSE IF (i = 2 /\ s.stage # "SecondStage") \/ i \in s.done THEN [s EXCEPT !.ret = TRUE]
  ELSE Settled(AskStage([s EXCEPT !.stageCancelling = @ \cup {i}], i), i)

\* The first half of onStageDone(): what has become of the stage.
StageOver(s, i) ==
  LET asked == IF mustStageResume(s, i) /\ i \in s.stageCancelling
                 THEN MustResume(s, i) ELSE [s EXCEPT !.ret = TRUE]
      marked == markStage(asked, i, asked.ret)
  IN IF i = 2 THEN TakeSecondResult(marked) ELSE marked

\* FAULT: it does not look whether the other stage is over already.
OtherOverForgets(s, i) == cancelStage(s, 3 - i)

\* The second half: returns whether the other stage is over, which it is asked to be.
OtherOver(s, i) ==
  IF 3 - i \in s.done THEN [s EXCEPT !.ret = TRUE] ELSE cancelStage(s, 3 - i)

ResumesParent(s) ==
  LET told == ParentResumed(s)
  IN IF ~s.ret THEN s
     ELSE IF AsksAtOnce(told) THEN Answered(WithMustResume(told)) ELSE told

onStageDone(s, i) == ResumesParent(OtherOver(StageOver(s, i), i))

\* Returns whether the stage is suspended; it is over otherwise.
Begun(s, i) ==
  LET asks == s.cancelling /\ i \notin s.stageCancelling
      early == IF asks THEN EarlyCancel([s EXCEPT !.stageCancelling = @ \cup {i}], i)
               ELSE [s EXCEPT !.ret = FALSE]
      ready == Ready(early, i)
      suspended == Suspend([ready EXCEPT !.started = @ \cup {i}], i)
  IN IF early.ret THEN [markStage(early, i, FALSE) EXCEPT !.ret = FALSE]
     ELSE IF ready.ret THEN [ready EXCEPT !.ret = FALSE]
     ELSE IF suspended.ret THEN suspended
     ELSE switchTo(suspended, "Exception")

beginStage(s, i) ==
  LET begun == Begun(s, i)
  IN IF i \in s.done THEN s ELSE IF begun.ret THEN begun ELSE onStageDone(begun, i)

-----------------------------------------------------------------------------

\* markStarted() when the second stage is made, and has been asked to cancel if With was:
\* it begins if With has an executor, and with await_suspend() otherwise.
SecondMade(s, hasExecutor) ==
  IF s.ret THEN onStageDone(s, 2)
  ELSE IF hasExecutor THEN beginStage(SetExecutor(s, 2), 2)
  ELSE s

markStarted(s) ==
  LET reported == [Asserted(s, 1 \notin s.done) EXCEPT !.reported = TRUE]
      made == switchTo(reported, "None")
      second == [Construct(made, 2) EXCEPT !.stage = "SecondStage", !.ret = FALSE]
  IN IF 1 \in s.stageCancelling THEN markStage(reported, 2, TRUE)
     ELSE IF s.fn = "throws"
       THEN ResumesParent(cancelStage([made EXCEPT !.stage = "Exception", !.failed = TRUE], 1))
     ELSE SecondMade(IF s.cancelling THEN cancelStage(second, 2) ELSE second,
                     s.stage = "FirstStage")

isStageRunning(s, i) == i \in s.started /\ i \notin s.done

ThenFirst(s) == IF s.ret THEN cancelStage(s, 1) ELSE s

\* FAULT: both stages are cancelled at once.
doCancelBoth(s) ==
  LET second == cancelStage([s EXCEPT !.cancelling = TRUE], 2)
      first == cancelStage(second, 1)
  IN [first EXCEPT !.ret = @ /\ second.ret]

\* The first stage is not asked before the second is over.
doCancel(s) ==
  LET told == [s EXCEPT !.cancelling = TRUE]
      first == cancelStage(told, 1)
  IN IF isStageRunning(s, 2) THEN ThenFirst(cancelStage(told, 2))
     ELSE [first EXCEPT !.ret = @ /\ ~isStageRunning(first, 2)]

WithSuspend(s) ==
  LET first == beginStage(s, 1)
  IN IF s.stage = "SecondStage" THEN beginStage(first, 2) ELSE first

\* The background stage ends without an error only if it was cancelled.
MayComplete(s, i) == i = 1 => s.leaf[1].fails \/ s.chk[1].state = "Cancelling"

WithCompletes(s, i) == onStageDone(Completes(s, i), i)

\* The result is there unless somebody has failed.
WithResume(s) ==
  LET first == Resume(s, 1)
  IN IF s.stage = "Exception" THEN [s EXCEPT !.thrown = TRUE]
     ELSE IF mustStageResume(s, 1) THEN [Asserted(first, ~first.ret) EXCEPT !.thrown = TRUE]
     ELSE Asserted(s, s.hasSecondResult)

WithReady(s) == [s EXCEPT !.ret = {1, 2} \subseteq s.done]

\* TaskStarted is called while the first stage is being made, and does not exist yet.
ReportedUpfront(s) ==
  LET told == markStarted([s EXCEPT !.chk[1] = Gone, !.upfront = TRUE])
  IN IF told.chk[1] = Gone THEN Construct(told, 1) ELSE told

Withs ==
  LET New == {NewWith(eager, first, second, fn) :
                eager \in BOOLEAN, first \in Backgrounds, second \in Answers,
                fn \in {"makes", "throws"}}
  IN New \cup {ReportedUpfront(w) : w \in New}

-----------------------------------------------------------------------------

\* What With does not cope with:
\*  - TaskStarted is called by the function that makes the first stage, and then the function
\*    that makes the second throws (the first, not constructed yet, is asked to cancel), or
\*    await_suspend() of the first does (the second is destroyed, and then begun), or the
\*    first is cancelled before it began (the second is destroyed as it is);
\*  - await_suspend() of a stage that was asked to cancel throws (await_must_resume() is
\*    called on it nevertheless);
\*  - the second stage is cancelled on the spot (it is not destroyed, as it should be);
\*  - both stages fail (nobody asks for the exception of the first).
WithStrained(s) ==
  \/ /\ s.upfront
     /\ s.fn = "throws" \/ s.leaf[1].throws \/ (s.cancelling /\ s.leaf[1].early)
  \/ \E i \in s.stageCancelling : s.leaf[i].throws
  \/ s.stage = "SecondStage" /\ 2 \in s.done
  \/ s.stage = "Exception" /\ 1 \in s.done \ s.mustNotResume /\ s.leaf[1].fails
=============================================================================
