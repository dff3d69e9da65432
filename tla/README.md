# A TLA+ verification of VoxNote

VoxNote is a desktop program that records or receives audio, has it transcribed by a paid
cloud service, writes the transcript as a note into the user's vault, tells Hermes of it, and
later turns notes into tasks on a tracker. This directory holds TLA+ modules of its
parts that can be checked, the TLC configurations that check them on small instances, and
proofs for every size of instance, checked by TLAPS.

`PROJECT.json` maps every definition to the lines it stands for, and lists the runs, the
mutants, the hazards with the properties that cover them, and the theorems.

    tlc -workers 2 -config queue_crash.cfg MCProcessingQueue      # a run
    tlapm ProcessingQueue_proofs.tla                              # the proofs of a module

## 1. The system

### Parts, their state and their operations

| Part | Code | State | Operations |
|---|---|---|---|
| Transcription queue | `processing/worker.py`, `model.py` | list of items with a status, one daemon thread, one lock | start, stop, enqueue, retry, forget, the run of an item in nine steps |
| Queue file | `processing/store.py` | `queue.json` | load at start, save after every change |
| Archive, note, sidecars | `processing/sources.py`, `vault_note.py`, `voiceid.py`, `utils.py` | files | move or copy the audio, write a note, save segments and voices |
| Inbox | `processing/inbox_watcher.py`, `ui/app/queue_mixin.py` | sizes of the last poll, paths already handed off | a tick every ten seconds |
| Recorder | `recorder.py`, `ui/app/recorder_mixin.py` | two flags, the stream, the open file, a timer | start, pause, resume, stop; PortAudio's callback |
| Cloud transcription | `transcriber/`, `audio_io.py`, `audio_upload_prep.py` | temporary files, the file to upload | denoise, louder derivative, compress, split, merge |
| Providers | `providers/` | a remote job | one post (Deepgram, Groq), or upload, submit, poll, fetch, cancel (AssemblyAI, Gladia, Speechmatics) |
| Meetings list | `ui/dialogs/meetings.py` | nothing of its own | asks the queue to retry or forget |
| Directory, voice binding | `directory/`, `ui/dialogs/directory.py`, `voice_bind.py` | people and projects in two stores in memory and in a file | insert, delete, add a voiceprint, rename the speakers of a note |
| Tasks | `tasks/`, `ui/dialogs/extract_tasks/` | a list of tasks with a status, its file, threads of a dialog | fetch containers, extract, fill, edit, look for duplicates, send, send again |
| Long meetings | `tasks/long_meeting.py`, `cli/core.py` | none | cut a note into chunks, ask about each, write two drafts |
| Migration | `meetings_migration.py`, `ui/dialogs/migration.py` | folders, a modal window and its thread | offer, move them one by one, cancel, switch |
| Configuration | `utils.py`, `ui/dialogs/settings*.py`, `ui/widgets.py` | a dictionary and its file, key fields, threads that check a key | load, save the whole, check and store a key |
| Command line, MCP server | `cli/` | files only | one transcription per command |
| Hermes client | `integrations/hermes/` | nothing | one signed request |
| Formats | `transcript_format.py`, `processing/voiceid.py` | none | blocks, labels, names, subtitles |
| The rest | window, cutter, scripts, logs | display, or none | |

### How they interact

The Tk thread owns the window, the recorder, the inbox tick and the dialogs, and calls the
queue. The queue's thread calls, one after another, the cloud transcription, the archive, the
note, the sidecars and Hermes, and reports to the window through `after(0, ...)`. PortAudio
calls the recorder on a thread of its own. The recorder and the inbox enqueue; the archive
takes files out of the inbox, which the tick sees. The directory is read by the queue's thread
through callbacks and written by the Tk thread, without a lock. The dialog of the tasks starts
threads for fetching containers, extraction, filling and sending; Settings starts one for each key it checks. `queue.json`, `directory.json`, `config.json` and the
files in a meeting's folder outlive the process; each is replaced by a rename.

### What is hard

* **Interleaving.** The queue releases its lock between choosing an item and marking it RUNNING
  and between each two steps of a run; the inbox tick reads the queue after it polled the
  folder; the audio callback looks at the pause flag before it takes the lock.
* **Failure in the middle.** Every save can raise. Some saves are inside a `try`, some are in
  its handler, and some are before it. A cloud call makes up to a dozen temporary files
  and can fail after any of them.
* **The end of the process.** It may come at any point. What `queue.json` says must agree with
  what lies on the disk, and a job that costs money must not start again by itself.
* **Remote services.** An answer is lost after the service accepted the job; a job is never
  finished; one poll of a hundred fails.
* **Time.** Files that are still being synced, timers across pauses.

`PROJECT.json` lists these as hazards, each at the line where it bites.

### What makes each part correct

The queue: nothing is billed that the user did not ask for, accepted jobs are not lost, audio is
not stranded, every job is settled. The inbox: only whole files, each once, and every one of
them. The recorder: audio goes to the recording it belongs to and a queued file is final. The
cloud call: the text covers the recording, nothing over the cap is sent, nothing is left on the
disk, an abandoned job is called off, the call ends. Tasks: a card is made once; an answer lands where
it was asked for; what was paid for is shown. Directory: what was reported as saved is in the file; nobody
belongs to a project that is gone. Configuration: the file is whole and is what the window shows; a key is
stored for the service that accepted it. Migration: no meeting is lost, overwritten or hidden. Functions: every
word of an answer reaches the note once, under who said it; every item of a reply reaches the card.

## 2. The modules

| Module | Models |
|---|---|
| `ProcessingQueue` | the queue, its file, and the disk it writes to |
| `JobBoard` | what the queue promises: a board of jobs that outlives the program |
| `QueueImplementsBoard` | the refinement mapping from the first to the second |
| `MCProcessingQueue` | symmetry, and sets of crash points, for TLC |
| `ProcessingQueue_proofs` | eight theorems of the queue, and that it implements the board |
| `InboxIntake` | the inbox folder, the watcher, the tick, the queue by path |
| `Recorder` | the buttons, PortAudio's callback, the timer |
| `CloudTranscription` | one cloud call with any of the five providers |
| `TaskSending`, `MCTaskSending`, `TaskSending_proofs` | the tasks of a meeting: the list, Ctrl+Z, the file, the send threads, the tracker |
| `ExtractTasks`, `ExtractTasks_proofs` | the same dialog before sending: the dropdown with its fetch threads, extraction, filling, duplicates |
| `Directory`, `MCDirectory`, `Directory_proofs` | people and projects: the file, the window's store, the editor's, the binding of voices, the reading queue |
| `Configuration` | `config.json`: the save in its steps, savers in several threads, the check of keys, the reader that moves a torn file aside |
| `Migration`, `MCMigration`, `Migration_proofs` | the folders of the meetings over `Configuration`: who writes and who reads which, moving, cancelling, starting again |
| `SpeechService` | functions: options of a job, preflight, what each provider is asked, how its answer becomes segments |
| `Transcript` | functions: what is written of the segments, names put in, clips cut out |
| `LongMeeting` | functions: chunks, the order of questions, the drafts |
| `ModelReplies` | functions: items of a reply, tasks on disk, minutes, documents attached |
| `TrackerReplies` | functions: failed calls, pages of issues, boards, cards |
| `MeetingsView` | functions: which rows the meetings window has, and when it draws them again |
| `ServiceAnswers` | a job or an answer of a speech service, a failed call, the pages of a tracker, the reply of a language model, a long meeting or the documents attached to a question per state, and what must be true of what is asked and of what is made of it |
| `MeetingTexts` | a meeting with voices and names bound to them, or a clip, per state, and what must be true of `Transcript` |
| `MeetingsShown` | a meetings directory with the jobs laid over it, and the same jobs a little later, per state, and what must be true of `MeetingsView` |
| `Inputs` | the variable these three share: the input that is looked at |
| `MCFunctions` | the three together on bounded sets of inputs |
| `Services_proofs` | what TLAPS proves of `CloudTranscription` and of `ServiceAnswers` |
| `Meetings_proofs` | what TLAPS proves of `Recorder`, `InboxIntake`, `MeetingTexts` and `MeetingsShown` |
| `Runs_proofs` | the lemmas on folds, concatenations and filters that both rest on |

A definition `BugX` before `X` is `X` with a plausible mistake. The specifications do not use
it. It is there to show that a property can fail: with `BugX` in the place of `X`, TLC finds the
property of the table in section 3 violated.

### ProcessingQueue

`queue`, `status`, `archived` are `self._items` with the status and the `source_path` of each
item; `arrival` keeps the order of the list. `savedIds`, `savedStatus`, `savedArchived` are the
same in `queue.json`. `pc` and `cur` are the worker thread and the item it holds. `audio`, `notes`, `sidecar`
are what lies on the disk. `billed`, `approvals`, `accepted`, `dismissed`,
`nudged` are history: they change nothing and let properties speak of the past.

A critical section with the save at its end is one action, because nobody can see its middle. A
save has two outcomes, `SaveOk` and `SaveRaises`; after the second the memory is changed and
the file is not. The worker's run is cut where the lock is free or a file changes: `Pick`,
`Begin` (RUNNING), `Submit`, `Receive`, `ArchiveAudio`, `RecordSource` (the save of
`source_path`), `WriteNote`, `SaveSidecars`, `Nudge`, `Finish` (DONE) and `Fail` (ERROR). `Crash`
ends the process at any of the points in `CrashPoints`, and `Launch` reads the file back.
`Submit` and `Receive` are what the queue sees of the cloud call that `CloudTranscription` models: the
service has accepted and bills, or has not; the answer comes, or does not.

`ForgetWhen` and `CrashPoints` are constants so that a property that holds under a condition is
checked, and proved, with the condition written down: the program itself calls `forget` for
ERROR items and for DONE ones only, while the method accepts PENDING ones.

### JobBoard and the refinement

The board has a state per job and a set of delivered jobs, and no thread, file or crash. The
mapping takes the state from memory while the program runs and from `queue.json` while it does
not; a job that is RUNNING in a file nobody has read yet counts as failed, because that is how it will
come up. The refinement says that a restart is invisible: it never loses, repeats or
resumes a job, and the end of the program is on the board the failure of the running job.

### InboxIntake

`size` is the folder, `seen` and `done` are `_sizes` and `_done`, `active` and `saved` count the
unfinished items of the queue for each path. A tick is two actions, `Poll` and `Take`, because the
worker may deliver a job between the two. `lost` is the set of files whose size could not be
read. The environment obeys two assumptions, stated in the module: a file that is not whole
grows between two polls, and a name is used again only after a poll saw it vacant or while the program is
not running. Without the first no debounce on sizes can work; without the second a new file of
the same size, put there between two polls, cannot be told from the old one.

### Recorder

`stop()` is three actions (flags, stream, file) and the callback two (before the lock, under it). PortAudio's
`stop()` waits for a callback in progress: that is the guard `block = 0` of
`StopStream`. `recorded` is the time that was really recorded, for comparison with `Elapsed`.

### CloudTranscription

`temps` are the temporary files on the disk and `owned` those the `finally` block deletes. A file
is the part of the recording it holds and whether it is over the cap, so that the split, the
merge and the cap are about the same data. Each stage may succeed, miss the cap, or
raise. `Post` is a call to Deepgram or Groq. `Submit`, `Poll`, `PollFails` and `Fetch` are the
calls to the others; they differ in who calls a job off (`CallsOff`) and who needs a request for
the result (`Fetches`). `Service` is the remote job, which owes nothing.

Left out: `cancel_event`, which no caller of the program passes; the failure to create
or to delete an empty temporary file; and the meaning of a provider's JSON.

### TaskSending

A send thread walks a Python list; Ctrl+Z puts a deep copy of an earlier list on the screen while the
thread goes on with the one it has. Lists have identity therefore: each lives in a slot of
`lists`, the dialog shows the slot `shown`, the thread `w` walks the slot `worker[w].slot`. `undo` is
`_undo_stack`, `file` is `tasks.json`, `posted` the callbacks that wait in Tk's queue. `busy` is
`_set_busy`; `frozen` says that it has disabled Send and Retry, which the next refresh of their labels
enables again, send or no send: this is how two threads can run at a time.

A save has three outcomes. `ok` writes the file, unless the list is empty. `skip` is an `OSError` of
`mkdir`, which all callers swallow. `raise` is a `PersistenceError`, which is no `OSError` and leaves the
caller; it stands for a disk that refuses and for a save of the other thread that took the shared temporary file away.

The loop of `send_tasks_iter` is `Pick`, `Mark` (SENDING, saved before the request), then `Create`, or
`Look` and `AddComment` for a task with a card already, `Settle`, and `Finish` at the end. A request is carried
out or not, and its answer may be lost. `Close` cancels the threads of the dialog, `Exit` ends the
program at any point, `Open` loads the file. `causes` is history: why the program may not know what was
sent of a task (`lost` answer, `unsaved` status, `undone` by Ctrl+Z, `raced` by another thread).

Left out: what tasks say (`ModelReplies`, `TrackerReplies`); which tasks are selected (a send may pass over any task);
Glide's idempotency key (the tracker of the model has none, like Linear and Trello).

### ExtractTasks

The dialog before sending. `picked` is the dropdown of trackers, `team` whose containers it offers, `cached` what
`linear_teams_cache` and its kin hold, `fetches` the threads of `_fetch_containers_in_worker`. `works` are the threads of
`_run_extraction` and `_run_autofill_worker`, each at the call it is in: clients, context, the question, the
commit of `tasks_raw.json`, the minutes, the recent model, the board, one task after the other for duplicates. `tkq` holds
the callbacks given to `after(0, ...)`, in order; `Close` empties it. `crossed`, `overlapped`, `moved`, `astray` are history.
A fetch caches under the dropdown as it is when the answer comes, and a filling writes into the task
selected then: that is the code, so the properties name these conditions and say that nothing else goes wrong.

### Directory

Three copies of the directory: `file`, `app` (the window's `_dir_store`) and `dialog.store` (the editor's own). Every mutation
changes memory and then saves; `ok = FALSE` is a save that raises. `Apply` of the binding dialog is `Apply`,
`WriteNote`, then `Enroll` and `AddVoiceprint` for each voice, then `Drain`; after an exception the form is there again with memory
as it is by then. `reader` is the queue's thread in the middle of `people_for_project`: `LoadUnder` is what a `load()` does to it
(a new dictionary; it goes on with the old one), and a dictionary that grows under it raises (`Grown`). `told` is what the user
was told is saved.

### Configuration and Migration

`save_config` is `BeginSave` (the change in memory, and opening the temporary file, which empties it), `Dump` and `Replace`.
All savers share one temporary name. `onFile` are savers whose open handle has become `config.json` itself because another
renamed it, `shared` those whose text may be mixed with another's. The window's handlers run one at a
time, each to the end of its save (`Ready`); a thread that checks a key asks, waits for the answer and saves by itself.
`holes` is what befell the file since the last save that nobody joined.

`Migration` takes `Configuration` whole (EXTENDS), since the folder of the meetings is one of its fields. `at` are the
spots of a meeting's whole copies and `rest` of partial ones; `Listed` is the folder the list reads now, `queueDir` the one the
queue was built with. The thread moves one folder after another; a move may fail before anything, in the middle of a copy, or in the removal
after the copy. `left` is history: meetings that the user, a failed move, a restart in the middle of the moves or a queue built for another
folder left elsewhere. A name that is taken gets an ending (`FreeSpot`), and another one if that is taken too.
`MCMigration` follows keys and folders one at a time: once a key is typed no folder is
changed, and the other way round; what they share, the file, is saved in the same way by both.

### The modules of functions

`SpeechService`, `Transcript`, `LongMeeting`, `ModelReplies`, `TrackerReplies` and `MeetingsView` have no variables: they are the
pure functions of the program, with folds for the loops. A word, a text, a
name is a value or a number; a label is a sequence whose length says whether it is anonymous; a title of a list is the
tuple of its parts. `ServiceAnswers`, `MeetingTexts` and `MeetingsShown` have one state for each input of a set, and state what must hold of
the result in terms of the input alone, never by computing it a second time in the same way. The sets are
parameters: `MCFunctions` gives them bounded values for the run, the proofs take them as they come. `MeetingsShown` also has what
the worker makes of one job between two looks of the window (`Worked`): its folder is made while it runs, and it may fail after that. The
composition is there too: a reply becomes tasks, tasks a file, the file tasks again, and these cards; the
segments of an answer become a note, and the note with names.

## 3. The runs

| Run | Property | Says | Its mutant |
|---|---|---|---|
| `queue_faults` | `NoUnapprovedBilling` | no job is billed more often than the user asked | `BugResume` |
| | `AcceptedJobAccounted` | an accepted job is in the file until it is delivered or dropped | `BugActiveIds` |
| | `NudgeAfterHandoff` | Hermes is told of a job after its note and sidecar are there | `BugWriteNote` |
| `queue_crash` | `LiveJobListed` | the job in work is in the list | `BugForget` |
| | `RetryCanOpenAudio` | a job that waits or may be retried has audio to open | `BugRecordSource` |
| | `BoardRefined` | the queue implements `JobBoard` | `BugBegin` |
| | `JobSettles` | every job that waits or runs is settled | `BugFail` |
| `inbox_intake` | `HandedOffWhole` | no file is taken before it is whole | `BugSizes` |
| | `OneActivePerPath` | no path has two unfinished jobs | `BugNew` |
| | `FileTaken` | every whole file is taken | `BugHandedOff` |
| `recorder_blocks` | `BlocksStayInRecording` | no block goes to another recording's file | `BugStopStream` |
| | `OneBlockAfterPause` | at most one block is written after a pause | `BugCaptured` |
| | `QueuedIsFinal` | nobody writes to a file that is in the queue | `BugCloseFile` |
| `cloud_call` | `TempsGone` | no temporary file outlives the call | `BugCompress` |
| | `RequestsUnderCap` | nothing over the cap is sent | `BugRefused` |
| | `TimelineWhole` | a returned text covers the recording, in order | `BugEnd` |
| | `JobCalledOff` | a known job is called off exactly when it is given up | `BugGiveUp` |
| | `CallReturns` | every call ends | `BugTimedOut` |
| `task_sending` | `CardNeedsCause` | a second card for a task has one of the four causes | `BugShouldSend` |
| | `FileKnowsSent` | the file offers nothing again that was sent, but for named causes | `BugFromFile` |
| | `BusyEnds` | the buttons that a send disables come back | `BugLastPost` |
| `task_threads` | `CommentNeedsRace` | a second comment needs Ctrl+Z or two threads, not just a lost answer | `BugLook` |
| `directory` | `SavedStays` | what was reported as saved stays in the file | `BugCloseLoads` |
| | `RefsValid` | nobody in the file belongs to a project that is gone | `BugReform` |
| | `RosterWhole` | a read that ends has the people of the moment it began | `BugLoadUnder` |
| `extract_tasks` | `AnswersLand` | containers belong to their tracker, a filled text to its task | `BugFilled` |
| | `CommittedIsShown` | an extraction that is on the disk is shown | `BugBoard` |
| | `NoWastedCalls` | no calls for a closed dialog, no second extraction | `BugExtract` |
| | `BusyEnds` | the dialog does not stay busy | `BugFails` |
| `settings` | `FileRight` | `config.json` is whole and is what the window shows | `BugBeginSave` |
| | `KeyOfSlot` | a stored key was accepted by the service it is stored for | `BugStored` |
| | `MeetingsKept` | no meeting is lost, mixed with another or off the list | `BugTarget` |
| | `ProgressEnds` | the window of the migration goes away | `BugComplete` |
| `functions` | `RequestHonest` | a service is asked what it can do, of a recording it takes | `BugJob` |
| | `AnswerWhole` | every word of an answer is in one segment, under its speaker | `BugSpoken` |
| | `TextsWhole` | note, subtitles, note with names, clips: every text once, under its speaker | `BugNamedNote` |
| | `DraftsAndMinutes` | every turn is asked about, every item of the result is in the drafts; the same of minutes and documents | `BugChunks` |
| | `ItemReachesCard` | an item of a reply reaches the file and the card, or is counted as corrected | `BugCorrections` |
| | `TrackerHeard` | a failure is put down to its cause; every issue and list is seen | `BugHumanized` |
| | `ViewWhole` | every meeting and job has one row, and what is shown is never older than what would be drawn | `BugView` |

`recorder_timer` shows one statement of the repository that the code does not keep (section 5). `FileRight`, `MeetingsKept`,
`AnswersLand`, `NoWastedCalls`, `TextsWhole` and `DraftsAndMinutes` are conjunctions whose parts have a name and a
comment each.

### Bounds, and why they are enough

* `queue_faults`: two jobs, two runs of each, one end of the process anywhere, one failed save,
  `forget` in every status. The second run is the retry; one crash and one failed save reach every single fault and
  one pair. The proofs remove all four bounds.
* `queue_crash`: one job whose audio is moved and one whose audio is already in the archive, no
  failed save (a failed save may kill the thread, after which nothing settles), a crash anywhere but between the
  move and the save of `source_path`. Both exceptions are findings (section 5); what is checked is that these two are the only ones.
* `inbox_intake`: two names, two files under each, sizes 1 and 2, two launches, two Settings
  edits, one unreadable folder or file, one failed save. The second file under a name is where `_done` and
  `_sizes` can be stale; two edits turn the folder off and on again.
* `recorder_blocks`: three recordings, so that a late block can meet the next file and the one after.
* `cloud_call`: recordings up to five units in chunks of two (a whole number of chunks, one with a short
  end, one that fits), two polls of patience.
* `task_sending`: one thread, a task with an old card and one that Ctrl+N may add, and any two
  of: an undoable edit, Ctrl+Z, a failed save, a lost answer, the dialog opened again. Refused requests, sends, retries,
  and autosaves are not bounded. Two cards per task are enough: what is said is about the second one.
* `task_threads`: two threads, one task, one trouble. Ctrl+Z is not reached here, because it needs an
  edit before it: its effects are those of `task_sending`.
* `directory`: two people, one project, one meeting of two new voices, one voiceprint per person (so that a second one pushes
  the first out), one failed read or save. Two people are what a roster can miss one of; a failure is followed by
  a success of everything else. Ids are used once, so the run is finite without further bounds.
* `extract_tasks`: two trackers of which one takes comments, two fetch threads and two threads of work, which is what it takes for
  answers to cross and for the busy flag to be shared; two tasks in an answer (the first and another); one edit by hand,
  one failed call or save.
* `settings`: two providers, one pair and one single row, two keys, the window and one checking thread, two
  changes, one fault, one crash; two old meetings, a new one of the same name, three folders, two endings for a name. Two savers are
  enough to share the temporary file; two meetings to be moved one and left the other. The proofs remove all of these bounds, and the
  restriction to keys or folders.
* `functions`: answers of up to three words, notes of up to four segments, long meetings of up to four turns, two items of a
  reply, three documents, three pages, two jobs over three folders. Three words are a start, a mark and a change of speaker;
  four segments a voice that comes back after another and a blank one; four turns one that fits, one that just fits, one that
  does not and one that fits nowhere. Languages are a code, the program's own word for three languages, and none; lengths and sizes lie on both sides of the
  limits. The directory has a meeting, a folder of a project with one, and the recordings, with five contents for each; of its two jobs one
  may have a folder there. The proofs remove all of these bounds.

`CHECK_DEADLOCK FALSE` is set everywhere but in `directory`, where there is always something to do: the program may be
closed for good, a queue may be empty, a call returns, an input has been evaluated.

Symmetry is used in `queue_faults` and `directory`, which have only invariants and treat jobs and people alike.

### Fairness

* `ProcessingQueue`: weak fairness of the worker's steps together. Its thread runs, and each call it makes
  returns: requests have timeouts, polls a deadline (`providers/_common.py`), ffmpeg ends. The
  user, the crash and the next launch have none, so `JobSettles` says "or the program is closed".
* `InboxIntake`: weak fairness of the tick (Tk runs the callbacks given to `after`) and of the
  sync of each file. Nobody has to settle a job or start the program.
* `CloudTranscription`: weak fairness of the program's own steps. The service has none, and no
  poll has to fail: `CallReturns` rests on `Patience` alone.
* `TaskSending`: weak fairness of each send thread (its requests have timeouts) and of the two callbacks in Tk's queue.
  The user has none: nobody has to send, retry or close.
* `ExtractTasks`: weak fairness of each thread (every request has a timeout) and of Tk's queue.
* `Migration`: weak fairness of the thread that moves, of the window's answer to its end, and of the window's own save.
  The key checks, the reader and the user have none.

## 4. The proofs

Each theorem is `Spec => []P` for every value of the constants that satisfies the module's
assumption (sets of any size, any bound). Each rests on an inductive invariant; the last step is
temporal. `tlapm X.tla` checks a module in a few minutes; `Services_proofs` takes a quarter of an hour, `Meetings_proofs` half of that.

* **Queue.** `TypeCorrect` needs `TypeInv`: while the worker is busy it holds an item, and a program that is down has an empty memory.
  `SerialWorker` needs `StatusInv` and `RunningInv`: only the item the worker holds is RUNNING, unless the thread is dead, and
  then only one is left. `LiveJobStaysListed` has the hypothesis that nobody forgets a PENDING
  job. `BillingApproved` rests on `BillingInv`: a run that lies
  ahead (the job is PENDING in memory or in the file, or picked, or about to be submitted) has been asked for and not
  billed, and from the save of RUNNING on the file does not hold the worker's job as PENDING, so that a crash
  cannot put the same run ahead a second time. `AcceptedJobsKept` and
  `NudgeIsLast` share `HandoffInv`: from the step after the note on, the note is there, and so on for the sidecar.
  `ArchivedAudioTracked` and `RetryHasAudio` rest on `AudioInv` and have the two
  hypotheses of `queue_crash`: no failed save, no crash in the archive window.
* **Board.** `BoardImplemented` is the refinement itself: the initial states map to `BoardInit`, and each action to a step of the board or to
  none (`Begin` starts, `Crash` gives up the running job, `Launch` is invisible, ...). It needs `BoardInv`: at every moment at
  which the program may end, the file says of each job what the memory says, for the mapping changes from one to the other there.
  Hypotheses: no failed save (the thread may die of one and leave a RUNNING job that nobody runs), and nobody forgets a PENDING job.
* **Inbox.** `WholeFilesOnly` needs `Behind`: what the watcher remembers of a file that
  is not whole is at most its size, and equal to it only if the file has not changed since the last poll; of a free name it
  remembers nothing. `NoDoubleIntake` needs `OneEach`: `queue.json`, which the next start reads, obeys the rule as well.
* **Recorder.** `BlocksKeptApart`, `PauseIsPrompt`, `QueuedFilesFinal` share `RecorderInv`:
  `StreamInv` (a block in flight is of the latest recording, whose stream runs), `QueueInv` (what is open was not
  queued), `LeakInv` (after a pause only the block in flight can still be written).
* **Cloud.** `StepInv` says what each point of the call implies about the files. `NoTempsLeft` adds
  `TempsInv` (every file on the disk is owned, or is a chunk of `pieces` while they are cut);
  `UploadsFit` adds `CapInv`; `JobsCalledOff` adds `JobInv`; `TextCoversRecording` adds
  `TimelineInv` (the pieces tile what is covered, the transcript tiles the pieces before `next`)
  with lemmas on what appending a chunk and appending a text do to a tiling.
* **Requests.** `RequestsAreHonest` goes from the queued options to the job (`JobMade`: what the worker takes out of it), from the job to what
  each service is asked (`AskedHonest`), and apart from that from the two lengths to the limits (`LengthsTold`).
* **Answers.** `AnswersAreWhole` is an induction over the words. A loop is a fold, which the library defines as a recursive function on
  sets of positions. The prover cannot be given an induction rule with a predicate, but it can be given one with a set: a set of naturals with
  0 and with every successor is all of them (`SetInduction`, from the least element that well-foundedness gives). With it `FoldExists` shows
  that such a function exists and `FoldRun` that it takes the positions one after the other. The invariant of the walk, `WalkInv`, says that
  the segments and the one being built hold what was said so far and nothing else, in order, each under one speaker; and for
  Speechmatics that what is being built is empty exactly when a mark would have no word to be glued to (`Lead`): without that clause the marks
  that are dropped cannot be told from those that are kept. Turns are simpler (`TurnsRight`); then the shapes of an answer
  (`PartsWhole`) and the labels.
* **Trackers.** `TrackersAreHeard` has two halves. Of a failure, the text names one service, and each kind brings the words that are looked
  for first (`FailureHeard`). Of a board, the concatenation of the pages and the loop that stops when there are enough issues are both runs
  (`FlatRuns`, `ListedRuns`), and what was listed is at each page the beginning of what is there, and all of it or enough (`Begins`).
* **Replies.** `ItemsReachCards`: an item that is dropped, or becomes another task than it says, has at least one correction
  (`ChangesCounted`); the corrections are added up by a run, and by induction the sum is at least the number of such
  items (`LostCounted`). A task that nobody compared with a board yet is read from the file as it was written (`SavedIsLoaded`), and the card
  has exactly the fields that are not empty (`CardSays`). What it assumes of a reply is the kind of each field (`ReplyAssumption`).
* **Drafts, minutes and documents.** `DraftsAreWhole` has three parts. The chunks are a run whose invariant is `CutInv`: what was cut and
  what is being collected is, put together, what was read, and no chunk of two turns or more is too long (`ChunksWhole`); the questions end at the first
  answer that cannot be read (`QuestionsEnd`), and a bullet says all that its item says (`BulletTells`). The minutes are five
  substitutions one after the other: one that fills a text fills each piece of it (`FillConcat`, `FillFlat`), and none finds a hole in what an
  earlier one put in (`SubstituteWhole`). The documents are sums that differ in one place (`SumsDiffer`).
  Of the concatenation of lists there are lemmas that all of this uses (`FlatAppend`, `FlatConcat`).
  Assumed is that a note has a turn (`chunk_transcript` raises otherwise), that the answers taken for readable are so, that the date and the text of
  a block are plain words, with no hole of the template in them (`MinutesAssumption`), and of an item of the result that one field says what
  it is (`MeetingAssumption`): `_bullet_items` takes the first that is not empty of `text`, `title` and `topic` and drops the others.
* **Notes, names and clips.** `TextsAreWhole` is about three renderings and what is named in them. The loop of both formats with speakers is a run
  (`BlocksRun`): what was written and what is being collected hold the texts so far, in order (`BlocksHold`), and every text comes from a segment
  that is shown under the speaker of its block (`BlocksSourced`). That two voices are never shown under one name before they are
  bound to people (two may be bound to one) rests on the numbers of anonymous voices being ranks (`SpeakerMapRight`): the rank of an element of a finite set of numbers
  tells it from every other (`Ranks`). Sorting is by ranks too, so the voices that wait for a name come in the order of their first words
  (`SortedIs`), each once (`PendingWaits`). Times are divisions with remainder (`ClockIs`, `PlaybackIs`). Assumed is that a
  label is one of the three kinds and a bound name a name, that no two raw labels of an answer are normalised alike, and that a clip is cut from a
  recording of some length, whatever the start.
* **Rows of the meetings window.** `ViewIsWhole` has four parts. What is on disk has a row for each meeting, and one path never gives
  two (`DiskIs`, from `FlatApart`: a concatenation repeats nothing if its pieces repeat nothing and share nothing). Each job takes the place of
  its folder's row or is added, and the badges of that row survive (`RowsAreWhole`). The groups hold each row once, those without a project
  last (`GroupsHold`); the jobs that wait are numbered in order (`LineIsNumbered`). And the signature tells apart whatever is drawn differently (`DrawnAlike`): two
  lists of rows of the same signature have the same ids, so each row is the same job or the same folder in both, and its place in the line,
  which the signature does not hold, follows from the rows before it; that a job which is done has a folder is what the buttons need.
  Assumed is of a directory that its paths are different (`TreesAssumption`), and of jobs that ids are unique and no path, that two have
  not the same folder, and that a job which is done has one (`JobsAssumption`).
* **Directory.** `SavedStays`, `RefsValid` and `RosterWhole` rest on five facts about the three copies: nobody has voiceprints
  who is not there; every copy, and the form in the dialog, refers to projects that are there or were deleted without being saved; the
  copy that is written next holds what was told; what the binding dialog is about to write was chosen from its own copy; the roster of
  the reader is that of the moment it began. The second and the third need each other: a load replaces memory by the file.
* **Configuration.** `FileIsRight` needs `SaveInv`, which follows the one saver that nobody has joined (`lone`) through the shared temporary
  file: it is the only one that saves, its handle is neither `config.json` nor anybody else's text, and what it is about to rename
  is what the window shows. As soon as there are two, `"overlapped"` says so until a saver alone has come to its end. `KeysOfSlots` needs
  `KeyInv`: the two files hold only keys that the window once held, and the key a thread carries was accepted for the slot it names,
  which is the slot it will be stored in unless the thread was told that something moved.
* **Folders.** `MeetingsStayKept` needs `PlaceInv` (each meeting at one spot, which nothing else uses), `DialogInv` (the mover works
  exactly while its window is there, and on what lies in the source) and `ListInv`: where the meetings lie that the list has to
  show, at each stage from the offer to the end of a move. Its last clause is what a restart in the middle of a move needs, and
  it was found by the proof: the source of a move is the folder of the configuration, or the old folder of the first start, or has nothing
  the list should show - a picker that opens while the drive is off offers a folder that is neither.
* **Extracting tasks.** A step of a thread goes on to the next call or ends with the one callback that frees the dialog, and this is what
  the proofs of `WorkInv`, `FillInv` and `FetchInv` are split by. `NoWastedCalls` needs a bound per program point on the calls that are
  still to be noticed as late: the flag is read before each call, so a closed dialog costs each thread one call at most.
* **Sending.** A list that Ctrl+Z replaced is still walked by its thread, so the invariant speaks of all lists and all threads. `ThreadInv`:
  threads of a closed dialog never share a list with a later one's. `KnownInv`: what the tracker has is known to a list, or a
  thread is about to learn it, or a cause says why not. `AheadInv`: what the file knows, the shown list knows, but for the step between a request
  and its save. `FileInv`: nothing taken is pending again. `CleanInv`: without a cause one thread at most has a task, and what was taken can be
  taken up nowhere else; this is what makes the first card the only one. `CommentInv`: without Ctrl+Z and without a race, of two
  live lists that may comment on the old card one is through. That `Undo` and `Open` find a free slot is the pigeonhole
  theorem on finite sets (one slot more than threads): hence the assumption that `Worker` is finite.

Only model-checked: the liveness properties (`JobSettles`, `FileTaken`, `CallReturns`, `BusyEnds`, `ProgressEnds`), which TLAPS
does not reach. All other properties of the passing runs are theorems as well. What a filter, a sort or a loop computes is proved by
induction over positions, as described above; none of the modules has a recursive operator, and filters are written as concatenations of
sequences of one element or none, since the definition of `SelectSeq` is recursive.

## 5. Where the code and its text disagree

`PROJECT.json` quotes the text for each. One has a run of its own:

* **`recorder_timer`, `ElapsedExcludesPauses`.** After a pause the timer shows the length of the
  pause and not that of the recording.

The others are steps of the models, mostly the exceptions that the properties name.

Queue, inbox, sound:

* "Any failure halts THIS item (ERROR) but never kills the daemon" (`worker.py:242`). A save of `queue.json` that raises
  before the `try` block or in its handler ends the thread, and every waiting job waits for the next start
  (`pc = "dead"` in `ProcessingQueue`).
* The process ends after the audio was moved and before `source_path` was saved: no retry can open the audio
  (the crash point that `queue_crash` leaves out).
* A second file under the name of a delivered one is never taken in the same session: nothing removes a path
  from `_done`, whatever `_inbox_tick` says.
* `ensure_wav`: a failed download of the noise model leaves an empty temporary file. `TempsGone` names the
  exception: files of kind `"unfiltered"`.

Sending tasks:

* "`SENT` is never re-sent" (`docs/ARCHITECTURE.md:116`). Ctrl+Z works during and after a send and shows a copy in which the task is still
  PENDING; the next send makes a second card, though every answer arrived and every save succeeded. It is the cause `undone` of `CardNeedsCause`.
* `_save_tasks_to_disk`: "Errors logged but not raised". A `PersistenceError` is raised: it
  ends a send, and in `_on_close` it goes past the guard that should ask before data is lost.
* `_on_send_status_change`: "safe to call from any thread". Both threads write to one
  `.tasks.json.tmp`; the second replace raises. And "a crash mid-send leaves accurate state on disk": it leaves
  `sending`, which neither Send nor Retry takes up.
* Ctrl+N works during a send although its button is disabled, and the empty task is sent.

Extracting tasks:

* "a dedup hiccup must never block showing the freshly-extracted tasks": a reply whose `match_id` is a list or an object
  raises `TypeError`, and so does the extraction (`lost = "reply"`).
* `_remember_recent_model` saves the configuration after the commit of `tasks_raw.json`; a failure reports a committed extraction as failed
  (`lost = "config"`).
* Containers are cached under the tracker that the dropdown shows when the answer comes, not the one that was asked (`crossed`); a save
  that fails after the fetch ends the thread without a word.
* A filled text is written into the task selected when it arrives (`moved`).
* The folder of a meeting loaded from the list is taken from the path of its audio: a meeting read from the disk has none, and extraction
  stays disabled; a job of this session has the folder its recording came from, and `tasks.json` goes there.

Directory, configuration, folders:

* "every mutation writes the file" (`directory/store.py`): a voiceprint whose save failed is found in memory by the retry,
  which skips the save and removes the sidecar (`unsaved`).
* A deletion of a project whose save failed leaves its box ticked, and the next save of the person brings the reference back (`undeleted`).
* "must not leave a half-written config.json" (`utils.py:296`): two savers share one temporary file (`"overlapped"`).
* The key of one provider is stored under the other when the dropdown changes before the answer (`strayed`); a save that fails
  leaves the button of the row disabled.
* The folder is switched whatever the migration came to, and what was not moved is off the list (`left`); `makedirs` or
  `listdir` that raises leaves the modal window for good (`mover.step = "dead"`); the queue writes into the folder of the start.

Functions:

* A lost connection is put on the badge of a row as "443", the port in its text, and not as "network".
* Names bound to voices are put into a transcript with bracketed labels; that of a meeting is its note, which has bold ones, so the language
  model never sees them.
* The text of the command line leaves out segments without a speaker that the note has.

Without contradicting any text: a retry after a failure later than the note writes a second folder for the meeting
(`notes` counts to two); without an archive folder a delivered file stays in the inbox and is queued again after a restart; the texts of
earlier chunks are billed and dropped when a later one fails; Gladia's job goes on after a poll that failed.

## 6. Not modelled

* Widgets, drawing, layout, search, preview, prices: they keep no state another part reads.
* Wording: prompts, messages, front matter, slugs and names of folders (`processing/layout.py`). That a taken name gets a suffix is modelled.
* What a language model, a provider or a tracker means by its answer: any answer of the right shape may come, and several of the wrong one.
* Authentication, URLs, HTTP, the signature of the webhook, the MCP wire, arguments and output of the command line.
* The audio cutter: a window of its own that reads one file and writes another.
* Measurements: whether a recording is too quiet, how long it is (both are any value, or unknown).
* Developers' scripts, the evaluation, logs, the support bundle.
* The reuse of a path: an archived recording whose job fails, and a new file under the old name before the retry. The queue knows one audio per
  job and the inbox counts jobs per path, so neither sees it; it is listed as a hazard without a property.
* The end of the program during a recording: it leaves a WAV whose header nobody finishes; nothing reads it later.

## 7. Plan

Done: the queue with its board and file, the inbox, the recorder, the cloud call, tasks from extraction to the tracker, the directory, the
configuration with the folders of the meetings, and the functions of the parts; proofs of every safety property that the passing
runs check.

Next, in this order:

1. `ProcessingQueue` with the files of `InboxIntake` (the reuse of a path).
2. An abstract tracker with at most one card for each task and approval, which `TaskSending` implements where no cause is given.
