----------------------- MODULE QueueImplementsBoard -----------------------
(***************************************************************************)
(* ProcessingQueue implements JobBoard: the memory while the program runs,  *)
(* and queue.json while it does not, are together one board.                *)
(***************************************************************************)
EXTENDS ProcessingQueue

(* A job read back RUNNING comes up as ERROR, so on the board it failed when the
   program ended. *)
BoardState(st) ==
    CASE st = "PENDING" -> "waiting"
      [] st = "RUNNING" -> "running"
      [] st = "DONE" -> "done"
      [] st = "ERROR" -> "failed"

(* A job neither in memory nor in the file, and not dropped, finished in an earlier
   session. *)
JobState(i) ==
    IF arrival[i] = 0 THEN "unknown"
    ELSE IF i \in dismissed THEN "dropped"
    ELSE IF up /\ i \in queue THEN BoardState(status[i])
    ELSE IF ~up /\ i \in savedIds THEN BoardState(Reconciled(savedStatus[i]))
    ELSE "done"

Board == INSTANCE JobBoard WITH
    Jobs <- Items,
    state <- [i \in Items |-> JobState(i)],
    delivered <- {i \in Items : notes[i] > 0}

(* Every step of the queue, of its file and of its crashes is a step of the board or
   none: no job is lost, resumed by a restart, run beside another, or done undelivered. *)
BoardRefined == Board!BoardSpec
=============================================================================
