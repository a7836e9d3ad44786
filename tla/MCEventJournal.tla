--------------------------- MODULE MCEventJournal ---------------------------
(* TLC instance of EventJournal: submissions, and everything a user can ask *)
(* of the first task.                                                       *)
EXTENDS EventJournal

CONSTANTS t1, q1, c1

OneProfile == {"fast"}
TaskCommands ==
    [type : {"task.submit"}, profile : OneProfile]
    \cup [type : {"task.requestPause", "task.resume", "task.cancel", "task.revise"},
          taskId : {t1}, expected : {1}]
    \cup [type : {"task.answerQuestion"}, taskId : {t1}, questionId : {q1}, expected : {1}]
    \cup [type : {"approval.resolve"}, confirmationId : {c1},
          decision : {"approve", "reject"}, expected : {1}]
=============================================================================
