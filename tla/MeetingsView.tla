---------------------------- MODULE MeetingsView ----------------------------
(* What the meetings window shows: build_view of processing/store.py, which   *)
(* lays the jobs of the queue over the meetings on disk; the grouping and the *)
(* states of ui/dialogs/meetings_view.py; and when the window draws itself    *)
(* again (ui/dialogs/meetings.py).  An entry of the meetings directory is     *)
(* [path, dir, files, subs, project, voices].                                 *)
(* A definition named Bug... is the one below it with a plausible mistake.    *)
EXTENDS Integers, FiniteSets, Sequences, SequencesExt

None == "none"
NoProject == "no project"
SkipDirs == {"recordings"}

(* from_dict of a row of queue.json: an unknown state is "pending" and a      *)
(* number of voices that is none is 0.                                        *)
States == {"pending", "running", "done", "error"}
Item(record) == [record EXCEPT !.status = IF @ \in States THEN @ ELSE "pending",
                               !.voices = IF @ \in Nat THEN @ ELSE 0]

(* is_meeting_folder, meeting_status_from_folder, hermes_badges_from_folder   *)
(* and pending_voices_count_from_folder, for which the note has to name a     *)
(* meeting.                                                                   *)
Transcripts == {"transcript.md", "transcript.txt"}
IsMeeting(e) == e.files \cap (Transcripts \cup {"description.md", "segments.json"}) # {}
Row(e) ==
  [id |-> e.path, folder |-> e.path, audio |-> None, auto |-> FALSE, project |-> e.project,
   status |-> IF e.files \cap Transcripts # {} THEN "done" ELSE "pending",
   protocol |-> "protocol.md" \in e.files, tasks |-> "tasks.md" \in e.files,
   voices |-> IF "transcript.md" \in e.files THEN e.voices ELSE 0]

(* Two levels: the meetings of the directory, and those of the folders in it  *)
(* that are no meeting themselves.                                            *)
IsRow(e) == e.dir /\ e.path \notin SkipDirs /\ IsMeeting(e)
RowsUnder(e) ==
  FlattenSeq([i \in DOMAIN e.subs |-> IF IsRow(e.subs[i]) THEN <<Row(e.subs[i])>> ELSE <<>>])
RowsOf(e) == IF IsRow(e) THEN <<Row(e)>>
             ELSE IF e.dir /\ e.path \notin SkipDirs THEN RowsUnder(e) ELSE <<>>
OnDisk(entries) == FlattenSeq([i \in DOMAIN entries |-> RowsOf(entries[i])])

(* build_view: a job takes the place of the row of its folder and has its     *)
(* badges; one without a row is added.                                        *)
BugView(entries, active) ==    \* a job is always added
  OnDisk(entries) \o active
View(entries, active) ==
  LET disk == OnDisk(entries)
      Place(item) == IF item.folder = None THEN 0
                     ELSE SelectLastInSeq(disk, LAMBDA r : r.folder = item.folder)
      Laid(i) == LET j == SelectLastInSeq(active, LAMBDA item : Place(item) = i)
                 IN IF j = 0 THEN disk[i]
                    ELSE [active[j] EXCEPT !.protocol = disk[i].protocol,
                                           !.tasks = disk[i].tasks, !.voices = disk[i].voices]
      Added(j) == IF Place(active[j]) = 0 THEN <<active[j]>> ELSE <<>>
  IN [i \in DOMAIN disk |-> Laid(i)] \o FlattenSeq([j \in DOMAIN active |-> Added(j)])

-----------------------------------------------------------------------------
(* group_by_project: groups in the order of their first row, those without a  *)
(* project last.                                                              *)
Groups(rows, nameOf) ==
  LET Name(i) == nameOf[rows[i].project]
      First(i) == Name(i) # NoProject /\ \A j \in 1 .. i - 1 : Name(j) # Name(i)
      ordered == FlattenSeq([i \in DOMAIN rows |-> IF First(i) THEN <<Name(i)>> ELSE <<>>])
                 \o IF \E i \in DOMAIN rows : Name(i) = NoProject THEN <<NoProject>> ELSE <<>>
      Rows(name) == FlattenSeq([i \in DOMAIN rows |-> IF Name(i) = name THEN <<rows[i]>> ELSE <<>>])
  IN [g \in DOMAIN ordered |-> [name |-> ordered[g], rows |-> Rows(ordered[g])]]

(* queue_position: the place among the jobs that wait; 0 for others.          *)
Queued(rows) ==
  FlattenSeq([i \in DOMAIN rows |-> IF rows[i].auto /\ rows[i].status = "pending" THEN <<rows[i]>> ELSE <<>>])
Position(rows, item) == SelectInSeq(Queued(rows), LAMBDA r : r.id = item.id)

(* format_status: a job that is first in the line shows no number.            *)
Shown(item, position) ==
  IF item.status = "pending" /\ position > 1 THEN <<"pending", position>> ELSE <<item.status>>

(* The window draws itself again when this differs from what it drew.         *)
Signature(rows) ==
  [i \in DOMAIN rows |-> [f \in {"id", "status", "protocol", "tasks", "voices"} |-> rows[i][f]]]

(* The buttons of a row.                                                      *)
Buttons(row) ==
  (IF row.voices # 0 THEN {"bind"} ELSE {})
  \cup CASE row.status = "done" /\ row.folder # None -> {"view", "note", "delete"}
         [] row.status = "error" -> {"retry", "dismiss"}
         [] OTHER -> {}
=============================================================================
