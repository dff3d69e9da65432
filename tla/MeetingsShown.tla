--------------------------- MODULE MeetingsShown ---------------------------
(* What the meetings window shows of the meetings directory and the jobs of   *)
(* the queue: one state for every directory, the jobs, and what the worker    *)
(* may have made of one of them until the window looks again.                 *)
EXTENDS Integers, Sequences, SequencesExt, Functions, Inputs

CONSTANTS
  Trees,            \* what the meetings directory may hold, as a sequence of entries
  JobLists,         \* the jobs that are laid over it
  NameOf,           \* what a project is called, as a function
  Archived          \* the folder that a job gets while it runs, as a function

View == INSTANCE MeetingsView

Paths(entries) == {e.path : e \in ToSet(entries)}
Under(entries) == UNION {Paths(e.subs) : e \in ToSet(entries)}
IsListing(entries) ==    \* of a folder: a path is there once
  /\ entries \in Seq(ToSet(entries))
  /\ \A i, j \in DOMAIN entries : entries[i].path = entries[j].path => i = j
ASSUME TreesAssumption ==
  \A entries \in Trees :
    /\ IsListing(entries) /\ \A e \in ToSet(entries) : IsListing(e.subs)
    /\ Paths(entries) \cap Under(entries) = {} /\ View!None \notin Paths(entries) \cup Under(entries)
    /\ \A d, e \in ToSet(entries) : d # e => Paths(d.subs) \cap Paths(e.subs) = {}

ASSUME JobsAssumption ==
  \A jobs \in JobLists :
    /\ jobs \in Seq(ToSet(jobs))
    /\ \A i, j \in DOMAIN jobs :
         jobs[i].id = jobs[j].id \/ (jobs[i].folder = jobs[j].folder /\ jobs[i].folder # View!None) => i = j
    /\ \A job \in ToSet(jobs) :
         /\ job.id # View!None /\ \A entries \in Trees : job.id \notin Paths(entries) \cup Under(entries)
         /\ DOMAIN job = {"id", "folder", "audio", "auto", "project", "status", "protocol", "tasks", "voices"}
         /\ job.status \in View!States /\ (job.status = "done" => job.folder # View!None)
         /\ Archived[job.id] # View!None

-----------------------------------------------------------------------------
(* What the worker may have made of a job that waits or runs: its folder is   *)
(* made while it runs, and it may fail after that.  A press of a button draws *)
(* the window at once, so that no job waits again before it does.             *)
Became(job) ==
  CASE job.status = "pending" -> View!States
    [] job.status = "running" -> View!States \ {"pending"}
    [] OTHER -> {}
MayLieIn(job, status) ==
  {folder \in {job.folder, Archived[job.id]} :
     (status = "pending" => folder = job.folder) /\ (status = "done" => folder # View!None)}
Worked(job) ==
  UNION {{[job EXCEPT !.status = status, !.folder = folder] : folder \in MayLieIn(job, status)} : status \in Became(job)}
Later(jobs) == {jobs} \cup UNION {{[jobs EXCEPT ![i] = w] : w \in Worked(jobs[i])} : i \in DOMAIN jobs}

MeetingsAreOpened ==
  \E entries \in Trees, jobs \in JobLists : \E later \in Later(jobs) :
    input' = [of |-> "meetings", entries |-> entries, jobs |-> jobs, later |-> later]

(* The entries that are meetings: of the directory, and of the folders in it  *)
(* that are none.                                                             *)
MeetingsOf(entries) ==
  LET Folders(es) == {e \in ToSet(es) : e.dir /\ e.path \notin View!SkipDirs}
      Whole(es) == {e \in Folders(es) : View!IsMeeting(e)}
  IN Whole(entries) \cup UNION {Whole(e.subs) : e \in Folders(entries) \ Whole(entries)}

(* Every meeting on disk and every job has one row, and a meeting with a job  *)
(* has the job's, with what the folder has been given since.                  *)
RowsWhole(entries, jobs, rows) ==
  LET bare == View!View(entries, <<>>)
  IN /\ {r.folder : r \in ToSet(bare)} = {e.path : e \in MeetingsOf(entries)}
     /\ \A i, j \in DOMAIN rows :
          rows[i].id = rows[j].id \/ (rows[i].folder = rows[j].folder /\ rows[i].folder # View!None) => i = j
     /\ \A job \in ToSet(jobs) : \E r \in ToSet(rows) : r.id = job.id
     /\ \A r \in ToSet(bare) :
          IF \A job \in ToSet(jobs) : job.folder # r.folder THEN r \in ToSet(rows)
          ELSE \E s \in ToSet(rows) : /\ \E job \in ToSet(jobs) : s.id = job.id /\ s.folder = r.folder
                                      /\ s.protocol = r.protocol /\ s.tasks = r.tasks /\ s.voices = r.voices

(* The groups hold every row once, those without a project last.              *)
GroupsWhole(rows, groups) ==
  LET grouped == FlattenSeq([g \in DOMAIN groups |-> groups[g].rows])
  IN /\ IsInjective([g \in DOMAIN groups |-> groups[g].name])
     /\ IsInjective([i \in DOMAIN grouped |-> grouped[i].id])
     /\ ToSet(grouped) = ToSet(rows)
     /\ \A g \in DOMAIN groups :
          /\ groups[g].name = View!NoProject => g = Len(groups)
          /\ \A r \in ToSet(groups[g].rows) : NameOf[r.project] = groups[g].name

(* The jobs that wait are numbered one after the other, and no other row is.  *)
Numbered(rows) ==
  LET waiting == View!Queued(rows)
  IN /\ \A i \in DOMAIN waiting : View!Position(rows, waiting[i]) = i
     /\ \A r \in ToSet(rows) \ ToSet(waiting) : View!Position(rows, r) = 0

(* When the window does not draw itself again, what it shows and what its     *)
(* buttons offer is what it would draw.                                       *)
Drawn(rows) ==
  [i \in DOMAIN rows |-> <<rows[i].id, View!Shown(rows[i], View!Position(rows, rows[i])), View!Buttons(rows[i]),
                           rows[i].protocol, rows[i].tasks, rows[i].voices>>]
ViewWhole ==
  input.of = "meetings" =>
    LET rows == View!View(input.entries, input.jobs)
        later == View!View(input.entries, input.later)
    IN /\ RowsWhole(input.entries, input.jobs, rows)
       /\ GroupsWhole(rows, View!Groups(rows, NameOf))
       /\ Numbered(rows)
       /\ View!Signature(later) = View!Signature(rows) => Drawn(later) = Drawn(rows)

-----------------------------------------------------------------------------
MeetingsCome == Idle /\ MeetingsAreOpened
ShownSpec == Idle /\ [][MeetingsCome]_input
=============================================================================
