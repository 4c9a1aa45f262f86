------------------------------ MODULE TryBlock ------------------------------
(***************************************************************************)
(* TryBlock: try_().catch_().finally().  Each block is a lambda that is    *)
(* invoked when its turn comes: it returns a task that runs ("runs") or a  *)
(* ready one ("returns"), or throws.  There may be no catch block for the  *)
(* exception ("none") and no finally block ("none").                       *)
(***************************************************************************)
EXTENDS Stages, TLC

TryBlocks ==
  {Composite("try", eager, <<>>, "makes") @@
     [stage |-> "TRY",
      block |-> [TRY |-> try, CATCH |-> catch, FINALLY |-> finally],
      ellipsis |-> ellipsis,     \* the catch block is that of Ellipsis
      task |-> FALSE,            \* task_ # nullptr
      asked |-> FALSE,           \* task_->cancel() was called
      earlyCancel |-> FALSE, completed |-> FALSE,
      exception |-> FALSE, exceptionHandled |-> FALSE,
      entered |-> {},            \* the blocks that have begun
      left |-> {}] :             \* the blocks that are over, their tasks destroyed
     eager \in BOOLEAN, try \in {"runs", "returns", "throws"},
     catch \in {"none", "runs", "returns", "throws"},
     finally \in {"none", "runs", "returns", "throws"}, ellipsis \in BOOLEAN}

TryMustResume(s) ==
  [s EXCEPT !.ret = s.completed \/ (s.exception /\ ~s.exceptionHandled)]

\* storeValue(), storeException() or cancelled(): a task reports how it ended.  Two
\* exceptions at once end the program.
Stored(s, outcome) ==
  CASE outcome = "value" /\ s.stage # "FINALLY" ->
         [s EXCEPT !.completed = TRUE, !.exception = FALSE]
    [] outcome = "error" /\ s.stage = "FINALLY" /\ s.exception ->
         [s EXCEPT !.outer.state = "Terminated"]
    [] outcome = "error" /\ ~(s.stage = "FINALLY" /\ s.exception) ->
         [s EXCEPT !.exception = TRUE, !.exceptionHandled = FALSE]
    [] OTHER -> s

TryResumesParent(s) ==
  LET told == ParentResumed(s)
  IN IF AsksAtOnce(told) THEN Answered(TryMustResume(told)) ELSE told

RECURSIVE continuation(_)

\* invoke() of the block of stage.
invoke(s, stage) ==
  LET begun == [s EXCEPT !.stage = stage, !.entered = @ \cup {stage}]
  IN CASE s.block[stage] = "runs" -> [begun EXCEPT !.task = TRUE, !.asked = FALSE]
       [] s.block[stage] = "throws" -> continuation(Stored(begun, "error"))
       [] OTHER -> continuation(Stored(begun, "value"))

\* FAULT: the finally block is skipped when the try block was cancelled.
FollowingSkips(s) ==
  CASE s.stage = "TRY" /\ s.exception /\ s.block.CATCH # "none" -> "CATCH"
    [] s.stage = "TRY" /\ ~s.exception /\ ~s.completed -> "none"
    [] s.stage = "FINALLY" -> "none"
    [] OTHER -> "FINALLY"

\* The block that follows the present one.
Following(s) ==
  CASE s.stage = "TRY" /\ s.exception /\ s.block.CATCH # "none" -> "CATCH"
    [] s.stage = "FINALLY" -> "none"
    [] OTHER -> "FINALLY"

\* The task of the present block is destroyed, and the next block begins.
continuation(s) ==
  LET left == [s EXCEPT !.task = FALSE, !.left = @ \cup {s.stage}]
  IN CASE s.outer.state = "Terminated" -> s
       [] s.outer.state # "Terminated" /\ Following(s) = "CATCH" ->
            invoke([left EXCEPT !.exceptionHandled = @ \/ ~s.ellipsis], "CATCH")
       [] s.outer.state # "Terminated" /\ Following(s) = "FINALLY" -> invoke(left, "FINALLY")
       [] OTHER -> TryResumesParent(left)

TryEarlyCancel(s) == [s EXCEPT !.earlyCancel = TRUE, !.ret = FALSE]

\* The request goes to the task of a block, unless it is the finally block.
Forwards(s) == [s EXCEPT !.asked = @ \/ (s.task /\ s.stage # "FINALLY")]

TrySuspend(s) ==
  LET begun == invoke(s, "TRY")
  IN [(IF s.earlyCancel THEN Forwards(begun) ELSE begun) EXCEPT !.ret = TRUE]

\* The task of the block ends with outcome.
TryEnds(s, outcome) == continuation(Stored(s, outcome))

\* sync: the task ends while it is being asked.
TryCancel(s, sync) ==
  LET told == Forwards(s)
  IN [(IF sync THEN TryEnds(told, "cancelled") ELSE told) EXCEPT !.ret = FALSE]

TryResume(s) == [s EXCEPT !.thrown = s.exception /\ ~s.exceptionHandled]
=============================================================================
