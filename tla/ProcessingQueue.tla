-------------------------- MODULE ProcessingQueue --------------------------
(***************************************************************************)
(* The serial transcription queue of processing/worker.py, with the part of *)
(* processing/store.py that keeps queue.json and the files it leaves behind *)
(* (the archived audio, the transcript notes, the segments sidecars).       *)
(*                                                                          *)
(* Two kinds of process share the queue: the Tk thread, which enqueues,     *)
(* retries and forgets items, and one daemon worker, which runs them one at *)
(* a time.  Every critical section under self._lock is one action together  *)
(* with the save it ends with; between two of them the worker can be        *)
(* overtaken by the Tk thread, or by the death of the process.              *)
(*                                                                          *)
(* A save writes a temporary file and renames it, so queue.json is always   *)
(* an old or a new image of the queue, never a torn one; a save that raises *)
(* OSError leaves the memory changed and the file as it was.                *)
(*                                                                          *)
(* A definition named Bug... is the one below it with a plausible mistake:  *)
(* the property the README names for it must fail with it.                  *)
(***************************************************************************)
EXTENDS Naturals

CONSTANTS
    Items,            \* the jobs that may be enqueued, one audio file each
    NoItem,           \* what the worker holds between two jobs
    Moved,            \* jobs of source "record" or "inbox": archiving moves the audio
    InPlace,          \* jobs whose audio was picked from the archive itself
    ForgetWhen,       \* statuses in which a caller asks for forget()
    CrashPoints,      \* points of the worker at which the process may end
    MaxRuns,          \* bound: enqueue and retries of one job
    MaxCrashes,       \* bound: ends of the process
    MaxSaveFailures   \* bound: saves of queue.json that raise OSError

Status == {"PENDING", "RUNNING", "DONE", "ERROR"}

(* Where _process_item is inside its try block, from the save of RUNNING on *)
Working == {"submitting", "polling", "archiving", "recording",
            "writing", "sidecars", "nudging", "finishing"}

(* "off" before start() and after stop(), "dead" when an exception left _run *)
Points == {"off", "idle", "picked", "failing", "dead"} \cup Working

ASSUME QueueAssumption ==
    /\ NoItem \notin Items
    /\ Moved \subseteq Items
    /\ InPlace \subseteq Items
    /\ ForgetWhen \subseteq Status
    /\ CrashPoints \subseteq Points
    /\ MaxRuns \in Nat
    /\ MaxCrashes \in Nat
    /\ MaxSaveFailures \in Nat

VARIABLES
    up,           \* the process is alive
    stopping,     \* self._stop
    queue,        \* ids in self._items
    status,       \* the status of each QueueItem object
    archived,     \* objects whose source_path names an archived copy
    arrival,      \* place of an id in self._items: append order, 0 before enqueue()
    ticket,       \* the next place
    pc,           \* where the worker thread is
    cur,          \* the item it holds
    savedIds,     \* ids in queue.json
    savedStatus,  \* their status in queue.json
    savedArchived,\* those with a source_path in queue.json
    audio,        \* places that hold the audio: "original", "archive"
    notes,        \* transcript.md folders written for the job
    sidecar,      \* jobs whose segments sidecar was saved
    nudged,       \* jobs Hermes was told of
    billed,       \* transcriptions the provider accepted
    approvals,    \* times the user asked for the job: enqueue() and retry()
    accepted,     \* jobs whose enqueue() returned
    dismissed,    \* jobs forget() dropped
    crashes, saveFailures

process == <<up, stopping>>
memory  == <<queue, status, archived, arrival, ticket>>
worker  == <<pc, cur>>
file    == <<savedIds, savedStatus, savedArchived, saveFailures>>
disk    == <<audio, notes, sidecar>>
history == <<nudged, billed, approvals, accepted, dismissed>>
vars == <<process, memory, worker, file, disk, history, crashes>>

TypeOK ==
    /\ up \in BOOLEAN /\ stopping \in BOOLEAN
    /\ queue \subseteq Items
    /\ status \in [Items -> Status]
    /\ archived \subseteq Items
    /\ arrival \in [Items -> Nat] /\ ticket \in Nat
    /\ pc \in Points
    /\ cur \in Items \cup {NoItem}
    /\ savedIds \subseteq Items
    /\ savedStatus \in [Items -> Status]
    /\ savedArchived \subseteq Items
    /\ audio \in [Items -> SUBSET {"original", "archive"}]
    /\ notes \in [Items -> Nat]
    /\ sidecar \subseteq Items
    /\ nudged \subseteq Items
    /\ billed \in [Items -> Nat]
    /\ approvals \in [Items -> Nat]
    /\ accepted \subseteq Items
    /\ dismissed \subseteq Items
    /\ crashes \in Nat /\ saveFailures \in Nat

Init ==
    /\ up = FALSE /\ stopping = FALSE
    /\ queue = {} /\ status = [i \in Items |-> "PENDING"] /\ archived = {}
    /\ arrival = [i \in Items |-> 0] /\ ticket = 1
    /\ pc = "off" /\ cur = NoItem
    /\ savedIds = {} /\ savedStatus = [i \in Items |-> "PENDING"] /\ savedArchived = {}
    /\ audio = [i \in Items |-> {"original"}]
    /\ notes = [i \in Items |-> 0]
    /\ sidecar = {} /\ nudged = {}
    /\ billed = [i \in Items |-> 0]
    /\ approvals = [i \in Items |-> 0]
    /\ accepted = {} /\ dismissed = {}
    /\ crashes = 0 /\ saveFailures = 0

-----------------------------------------------------------------------------
(* queue.json *)

(* _persist_locked: the active items, DONE ones left out *)
BugActiveIds(q, st) == {i \in q : st[i] \in {"PENDING", "ERROR"}}
ActiveIds(q, st) == {i \in q : st[i] # "DONE"}

SaveOk ==
    /\ savedIds' = ActiveIds(queue', status')
    /\ savedStatus' = [i \in Items |-> IF i \in savedIds' THEN status'[i] ELSE "PENDING"]
    /\ savedArchived' = archived' \cap savedIds'
    /\ UNCHANGED saveFailures

SaveRaises ==
    /\ saveFailures < MaxSaveFailures
    /\ saveFailures' = saveFailures + 1
    /\ UNCHANGED <<savedIds, savedStatus, savedArchived>>

-----------------------------------------------------------------------------
(* The process *)

(* __init__ after load_active: a RUNNING item was interrupted, and is ERROR now *)
BugResume(st) == IF st = "RUNNING" THEN "PENDING" ELSE st
Reconciled(st) == IF st = "RUNNING" THEN "ERROR" ELSE st

(* __init__, then start().  The queue is saved again only when an item changed. *)
Launch ==
    /\ ~up
    /\ up' = TRUE /\ stopping' = FALSE
    /\ queue' = savedIds
    /\ status' = [i \in Items |->
                      IF i \in savedIds THEN Reconciled(savedStatus[i]) ELSE "PENDING"]
    /\ archived' = savedArchived
    /\ pc' = "idle" /\ cur' = NoItem
    /\ IF \E i \in savedIds : savedStatus[i] = "RUNNING"
       THEN SaveOk
       ELSE UNCHANGED file
    /\ UNCHANGED <<arrival, ticket, disk, history, crashes>>

(* _on_app_close calls stop(); it does not join the thread *)
Stop ==
    /\ up /\ ~stopping
    /\ stopping' = TRUE
    /\ UNCHANGED <<up, memory, worker, file, disk, history, crashes>>

(* The process ends, closed or killed: the daemon thread and the memory go *)
Crash ==
    /\ up
    /\ pc \in CrashPoints
    /\ crashes < MaxCrashes
    /\ crashes' = crashes + 1
    /\ up' = FALSE /\ stopping' = FALSE
    /\ queue' = {} /\ status' = [i \in Items |-> "PENDING"] /\ archived' = {}
    /\ pc' = "off" /\ cur' = NoItem
    /\ UNCHANGED <<arrival, ticket, file, disk, history>>

-----------------------------------------------------------------------------
(* The Tk thread *)

(* enqueue: the item is in the list before the save; when the save raises, the
   caller gets no id, and the item stays listed *)
Enqueue(i) ==
    /\ up
    /\ arrival[i] = 0
    /\ arrival' = [arrival EXCEPT ![i] = ticket]
    /\ ticket' = ticket + 1
    /\ queue' = queue \cup {i}
    /\ status' = [status EXCEPT ![i] = "PENDING"]
    /\ archived' = archived \ {i}
    /\ approvals' = [approvals EXCEPT ![i] = @ + 1]
    /\ \/ SaveOk /\ accepted' = accepted \cup {i}
       \/ SaveRaises /\ UNCHANGED accepted
    /\ UNCHANGED <<process, worker, disk, nudged, billed, dismissed, crashes>>

(* retry: only an ERROR item; it keeps its place in the list *)
Retry(i) ==
    /\ up
    /\ i \in queue /\ status[i] = "ERROR"
    /\ approvals[i] < MaxRuns
    /\ approvals' = [approvals EXCEPT ![i] = @ + 1]
    /\ status' = [status EXCEPT ![i] = "PENDING"]
    /\ UNCHANGED <<queue, archived, arrival, ticket>>
    /\ SaveOk \/ SaveRaises
    /\ UNCHANGED <<process, worker, disk, nudged, billed,
                   accepted, dismissed, crashes>>

(* forget: anything but a RUNNING item; the object lives on if the worker holds it *)
BugForget(i) ==
    /\ up
    /\ i \in queue /\ status[i] \in ForgetWhen
    /\ queue' = queue \ {i}
    /\ dismissed' = dismissed \cup {i}
    /\ UNCHANGED <<status, archived, arrival, ticket>>
    /\ SaveOk \/ SaveRaises
    /\ UNCHANGED <<process, worker, disk, nudged, billed, approvals, accepted, crashes>>
Forget(i) ==
    /\ up
    /\ i \in queue /\ status[i] \in ForgetWhen
    /\ status[i] # "RUNNING"
    /\ queue' = queue \ {i}
    /\ dismissed' = dismissed \cup {i}
    /\ UNCHANGED <<status, archived, arrival, ticket>>
    /\ SaveOk \/ SaveRaises
    /\ UNCHANGED <<process, worker, disk, nudged, billed,
                   approvals, accepted, crashes>>

-----------------------------------------------------------------------------
(* The worker thread *)

(* An exception in the try block: the handler comes next *)
Halt == pc' = "failing" /\ UNCHANGED cur

Goto(p) == pc' = p /\ UNCHANGED cur

(* _set_status on the item the worker holds *)
SetStatus(s) ==
    /\ status' = [status EXCEPT ![cur] = s]
    /\ UNCHANGED <<queue, archived, arrival, ticket>>

(* _next_auto_item: the first PENDING item; the lock is released with it still PENDING *)
NextAutoItem(i) ==
    /\ i \in queue /\ status[i] = "PENDING"
    /\ \A j \in queue : status[j] = "PENDING" => arrival[i] <= arrival[j]

(* _run: the idle wait has a timeout, so a missed wake-up only delays the pick *)
Pick ==
    /\ pc = "idle" /\ ~stopping
    /\ \E i \in Items : NextAutoItem(i) /\ cur' = i
    /\ pc' = "picked"
    /\ UNCHANGED <<process, memory, file, disk, history, crashes>>

(* _run leaves its loop only between two items *)
Leave ==
    /\ pc = "idle" /\ stopping
    /\ pc' = "off" /\ UNCHANGED cur
    /\ UNCHANGED <<process, memory, file, disk, history, crashes>>

(* The save of RUNNING stands before the try block: OSError there ends the thread *)
BugBegin ==
    /\ pc = "picked"
    /\ SetStatus("RUNNING")
    /\ Goto("submitting")
    /\ UNCHANGED <<process, file, disk, history, crashes>>
Begin ==
    /\ pc = "picked"
    /\ SetStatus("RUNNING")
    /\ \/ SaveOk /\ Goto("submitting")
       \/ SaveRaises /\ pc' = "dead" /\ cur' = NoItem
    /\ UNCHANGED <<process, disk, history, crashes>>

(* The audio a run can open: the original, or the archived copy source_path names *)
ReachableBy(paths, i) ==
    \/ "original" \in audio[i]
    \/ i \in paths /\ "archive" \in audio[i]

(* The checks before upload, a missing API key or a file over the provider's cap, then
   run_transcribe up to the provider's acceptance of the job.  The answer to the
   submission can be lost after the provider accepted it. *)
Submit ==
    /\ pc = "submitting"
    /\ \/ /\ ReachableBy(archived, cur)
          /\ billed' = [billed EXCEPT ![cur] = @ + 1]
          /\ Goto("polling") \/ Halt
       \/ Halt /\ UNCHANGED billed
    /\ UNCHANGED <<process, memory, file, disk, nudged, approvals, accepted,
                   dismissed, crashes>>

(* run_transcribe, from there to its result *)
Receive ==
    /\ pc = "polling"
    /\ Goto("archiving") \/ Halt
    /\ UNCHANGED <<process, memory, file, disk, history, crashes>>

(* Where the audio is once archive_audio returned a path *)
Relocated(i) ==
    CASE i \in InPlace -> audio[i]
      [] i \in Moved \ InPlace -> {"archive"}
      [] OTHER -> audio[i] \cup {"archive"}

(* sources.archive_audio: skipped without sources_dir or when an earlier run archived
   the audio; an OSError, which may leave a copy behind, is not fatal *)
ArchiveAudio ==
    /\ pc = "archiving"
    /\ \/ Goto("writing") /\ UNCHANGED audio
       \/ /\ cur \notin archived
          /\ audio' = [audio EXCEPT ![cur] = Relocated(cur)]
          /\ Goto("recording")
       \/ /\ cur \notin archived /\ cur \notin InPlace
          /\ audio' = [audio EXCEPT ![cur] = @ \cup {"archive"}]
          /\ Goto("writing")
    /\ UNCHANGED <<process, memory, file, notes, sidecar, history, crashes>>

(* The save of source_path, under a lock of its own after the move *)
BugRecordSource ==
    /\ pc = "recording"
    /\ Goto("writing")
    /\ UNCHANGED <<process, memory, file, disk, history, crashes>>
RecordSource ==
    /\ pc = "recording"
    /\ archived' = archived \cup {cur}
    /\ UNCHANGED <<queue, status, arrival, ticket>>
    /\ \/ SaveOk /\ Goto("writing")
       \/ SaveRaises /\ Halt
    /\ UNCHANGED <<process, disk, history, crashes>>

(* vault_note.write_transcript_note makes a folder of its own on every run; the
   item's meeting_folder, which only the meetings list reads, is left out *)
BugWriteNote ==
    /\ pc = "writing"
    /\ notes' = [notes EXCEPT ![cur] = @ + 1]
    /\ Goto("nudging")
    /\ UNCHANGED <<process, memory, file, audio, sidecar, history, crashes>>
WriteNote ==
    /\ pc = "writing"
    /\ \/ /\ notes' = [notes EXCEPT ![cur] = @ + 1]
          /\ Goto("sidecars")
       \/ Halt /\ UNCHANGED notes
    /\ UNCHANGED <<process, memory, file, audio, sidecar, history, crashes>>

(* save_speakers, save_segments_sidecar and save_voiceid_sidecar *)
SaveSidecars ==
    /\ pc = "sidecars"
    /\ \/ sidecar' = sidecar \cup {cur} /\ Goto("nudging")
       \/ Halt /\ UNCHANGED sidecar
    /\ UNCHANGED <<process, memory, file, audio, notes, history, crashes>>

(* The Hermes webhook: off, refused or delivered, the job goes on *)
Nudge ==
    /\ pc = "nudging"
    /\ nudged' \in {nudged, nudged \cup {cur}}
    /\ Goto("finishing")
    /\ UNCHANGED <<process, memory, file, disk, billed, approvals, accepted,
                   dismissed, crashes>>

(* DONE is set in memory before the save; if that raises, the handler runs *)
Finish ==
    /\ pc = "finishing"
    /\ SetStatus("DONE")
    /\ \/ SaveOk /\ pc' = "idle" /\ cur' = NoItem
       \/ SaveRaises /\ Halt
    /\ UNCHANGED <<process, disk, history, crashes>>

(* The handler's own save is outside any try block *)
BugFail ==
    /\ pc = "failing"
    /\ pc' = "idle" /\ cur' = NoItem
    /\ UNCHANGED <<process, memory, file, disk, history, crashes>>
Fail ==
    /\ pc = "failing"
    /\ SetStatus("ERROR")
    /\ \/ SaveOk /\ pc' = "idle"
       \/ SaveRaises /\ pc' = "dead"
    /\ cur' = NoItem
    /\ UNCHANGED <<process, disk, history, crashes>>

-----------------------------------------------------------------------------

WorkerStep ==
    \/ Pick \/ Leave \/ Begin \/ Submit \/ Receive \/ ArchiveAudio
    \/ RecordSource \/ WriteNote \/ SaveSidecars \/ Nudge \/ Finish \/ Fail

UserStep == \E i \in Items : Enqueue(i) \/ Retry(i) \/ Forget(i)

Next == Launch \/ Stop \/ Crash \/ UserStep \/ WorkerStep

Spec == Init /\ [][Next]_vars

(* The worker is a running thread whose every call returns: the provider calls have
   deadlines.  Nobody promises that the user acts, or starts the program again. *)
FairSpec == Spec /\ WF_vars(WorkerStep)

-----------------------------------------------------------------------------
(* Safety *)

(* Transcription is billed, so it never restarts by itself: whatever the order of
   user actions, failed saves and crashes, a provider is never given a job more often
   than the user asked for it (worker.py: "no auto-retry"). *)
NoUnapprovedBilling == \A i \in Items : billed[i] <= approvals[i]

(* The worker is serial: never two listed items RUNNING, also when the thread died
   and left one behind. *)
OneRunning ==
    \A i, j \in queue :
        status[i] = "RUNNING" /\ status[j] = "RUNNING" => i = j

(* A finished job has everything the next reader needs, its note and its sidecar. *)
Delivered(i) == notes[i] > 0 /\ i \in sidecar

(* A job whose enqueue() returned is in queue.json until it is delivered or the user
   drops it: no crash and no failed save makes it vanish.  In memory it is DONE only
   when delivered. *)
AcceptedJobAccounted ==
    /\ \A i \in accepted \ dismissed : i \in savedIds \/ Delivered(i)
    /\ \A i \in queue : status[i] = "DONE" => Delivered(i)

(* Hermes reads the note the webhook names: it is told of a job only after the note
   and the sidecar are on disk. *)
NudgeAfterHandoff == \A i \in nudged : Delivered(i)

(* forget() never evicts a live job: what the worker processes is in the list, so its
   status is shown and saved. *)
LiveJobListed == pc \in Working => cur \in queue

(* If the process ended now, the next session could open the audio of every job that
   queue.json lists, except in the step between the move and the save of source_path. *)
AudioTracked ==
    \A i \in savedIds : (pc = "recording" /\ cur = i) \/ ReachableBy(savedArchived, i)

(* A job that waits, or that the user may retry, has audio a run can open: an earlier
   run's archiving never makes the retry a dead end (worker.py, "Resume-safe"). *)
RetryCanOpenAudio ==
    \A i \in queue : status[i] \in {"PENDING", "ERROR"} => ReachableBy(archived, i)

-----------------------------------------------------------------------------
(* Liveness *)

(* Every job that waits or runs is settled, unless the user drops it or closes the
   program first. *)
JobSettles ==
    \A i \in Items :
        (i \in queue /\ status[i] \in {"PENDING", "RUNNING"})
            ~> (\/ ~up \/ stopping \/ i \notin queue
                \/ status[i] \in {"DONE", "ERROR"})
=============================================================================
