---------------------------- MODULE MCMigration ----------------------------
(***************************************************************************)
(* The run of Migration: two meetings of an old installation and one the   *)
(* queue writes, which has the name of one of them.  The run follows the   *)
(* key fields and the folders one at a time: once a key is typed no folder *)
(* is changed, and the other way round.  What the two share is the file,   *)
(* and both kinds of changes are saved to it in the same way.              *)
(***************************************************************************)
EXTENDS Migration

CONSTANTS m1, m2, n1

MCNameOf(m) == IF m = n1 THEN m1 ELSE m

KeysUntouched == field = [r \in Rows |-> NoKey] /\ config.provider = FirstProvider
FoldersUntouched ==
  /\ config.meetings = NoFolder /\ down = {} /\ mover = NoMover
  /\ at = [m \in Meetings \cup NewMeetings |->
             IF m \in Meetings THEN {<<Legacy, <<NameOf(m)>>>>} ELSE {}]

OneAtATime == KeysUntouched' \/ FoldersUntouched'

MCSpec == Init /\ [][Next /\ OneAtATime]_vars /\ Fairness
=============================================================================
