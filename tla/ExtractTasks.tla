---------------------------- MODULE ExtractTasks ----------------------------
(* The dialog "Extract tasks" up to sending (TaskSending has the rest, with   *)
(* the undo stack and tasks.json): the dropdown of backends with its cached   *)
(* containers and the threads that fetch them, the thread of an extraction    *)
(* with its calls of the language model, the thread that fills one task from  *)
(* a text, and the callbacks these threads hand to Tk.  Source:               *)
(* ui/dialogs/extract_tasks/__init__.py, tasks/extractor.py, tasks/dedup.py.  *)
(* A definition named Bug... is the one below it with a plausible mistake.    *)
EXTENDS Integers, FiniteSets, Sequences, SequencesExt

CONSTANTS Backends,     \* the trackers enabled in the settings
          Commenting,   \* those that can comment on a card, so take part in dedup
          Fetches,      \* the fetch threads one opening of the dialog may start
          Works,        \* the extraction and filling threads it may start
          Found,        \* tasks in one answer of the language model
          MaxEdits,     \* bound: changes of the list by hand
          MaxFaults,    \* bound: failed calls and saves
          None

ASSUME ExtractAssumption ==
  /\ Commenting \subseteq Backends /\ None \notin Backends
  /\ Found \in Nat \ {0} /\ MaxEdits \in Nat /\ MaxFaults \in Nat

VARIABLES picked,     \* the backend of the dropdown
          keys,       \* backends with a key in the settings; never changes
          team,       \* whose containers the dropdown offers; None: a placeholder
          cached,     \* the backend whose containers lie under each cache key
          fetches,    \* [Fetches -> [pc, of]]
          works,      \* [Works -> Idle, an extraction or a filling]
          tkq,        \* callbacks for Tk, oldest first
          tasks,      \* self._tasks as the names of the tasks
          selected,   \* the name of the selected task or None
          meta,       \* [backend, of], of: whose container it names; or None
          busy, closed,
          edits, faults,
          \* what happened, for the properties:
          crossed,    \* the dropdown was changed before a fetch was shown
          overlapped, \* Ctrl+Enter was pressed while another thread worked
          moved,      \* the list or the selection changed while a task was filled
          astray      \* a filling was written into another task

picker == <<picked, team, cached, fetches, crossed>>
editor == <<tasks, selected, meta, moved, astray>>
vars == <<picker, keys, works, tkq, editor, busy, closed, edits, faults, overlapped>>

Fault == faults < MaxFaults /\ faults' = faults + 1
Post(cbs) == tkq' = IF closed THEN tkq ELSE tkq \o cbs

-----------------------------------------------------------------------------
(* The dropdown: _on_backend_changed, _refresh_containers and the fetch.      *)
Free(threads) == CHOOSE t \in DOMAIN threads : threads[t].pc = "unused"
NoFetch == [pc |-> "unused", of |-> None]

(* _fetch_containers_in_worker: the thread knows the backend it was started   *)
(* for; without a key there is no thread.                                     *)
StartFetch(b) ==
  \/ b \notin keys /\ UNCHANGED fetches
  \/ /\ b \in keys
     /\ \E f \in Fetches : fetches[f].pc = "unused"
     /\ fetches' = [fetches EXCEPT ![Free(fetches)] = [pc |-> "asking", of |-> b]]

Underway(b) == \/ \E f \in Fetches : fetches[f].pc = "asking" /\ fetches[f].of # b
               \/ \E i \in DOMAIN tkq : tkq[i].do = "loaded" /\ tkq[i].of # b

(* The old containers stay in the dropdown until the new ones are there.      *)
(* A fresh entry of the cache is shown at once; one older than a day is not.  *)
ChangeBackend(b) ==
  /\ ~closed /\ b # picked
  /\ picked' = b
  /\ crossed' = (crossed \/ Underway(b))
  /\ \/ cached[b] # None /\ team' = cached[b] /\ UNCHANGED fetches
     \/ team' = None /\ StartFetch(b)
  /\ UNCHANGED <<keys, cached, works, tkq, editor, busy, closed, edits, faults, overlapped>>

Refresh ==
  /\ ~closed
  /\ team' = None
  /\ StartFetch(picked)
  /\ UNCHANGED <<picked, cached, crossed, keys, works, tkq, editor, busy, closed, edits, faults, overlapped>>

(* The answer is cached under the key of the dropdown as it is now.  A save   *)
(* of the configuration that fails ends the thread without a callback.        *)
FetchAnswers(f) ==
  /\ fetches[f].pc = "asking"
  /\ fetches' = [fetches EXCEPT ![f] = [NoFetch EXCEPT !.pc = "done"]]
  /\ cached' = IF closed THEN cached ELSE [cached EXCEPT ![picked] = fetches[f].of]
  /\ \/ Post(<<[do |-> "loaded", of |-> fetches[f].of]>>) /\ UNCHANGED faults
     \/ Fault /\ UNCHANGED tkq
  /\ UNCHANGED <<picked, team, crossed, keys, works, editor, busy, closed, edits, overlapped>>

FetchFails(f) ==
  /\ fetches[f].pc = "asking"
  /\ Fault
  /\ fetches' = [fetches EXCEPT ![f] = [NoFetch EXCEPT !.pc = "done"]]
  /\ Post(<<[do |-> "unloaded"]>>)
  /\ UNCHANGED <<picked, team, cached, crossed, keys, works, editor, busy, closed, edits, overlapped>>

-----------------------------------------------------------------------------
(* The list.  A change of it, or of the selection, while a filling is under   *)
(* way is remembered in moved.  Deleting and undoing are in TaskSending.      *)
NoWork == [kind |-> "none", pc |-> "unused", meta |-> None, target |-> None,
           k |-> 0, committed |-> FALSE, shown |-> FALSE, lost |-> "no", late |-> 0]
Alive(w) == works[w].pc \notin {"unused", "done"}
FillUnderway == \/ \E w \in Works : Alive(w) /\ works[w].kind = "fill"
                \/ \E i \in DOMAIN tkq : tkq[i].do = "filled"
Stirred == moved' = (moved \/ FillUnderway)

(* _ensure_meta: without an extraction the task goes to the dropdown's choice *)
MetaReady == meta # None \/ team # None
EnsuredMeta == IF meta # None THEN meta ELSE [backend |-> picked, of |-> team]
Blank == [by |-> None, n |-> edits]

(* Ctrl+N is not bound to the state of its button.                            *)
AddTask ==
  /\ ~closed /\ edits < MaxEdits /\ MetaReady
  /\ edits' = edits + 1
  /\ meta' = EnsuredMeta
  /\ tasks' = Append(tasks, Blank) /\ selected' = Blank
  /\ Stirred
  /\ UNCHANGED <<picker, keys, works, tkq, astray, busy, closed, faults, overlapped>>

SelectTask ==
  /\ ~closed /\ edits < MaxEdits
  /\ edits' = edits + 1
  /\ \E t \in ToSet(tasks) \ {selected} : selected' = t
  /\ Stirred
  /\ UNCHANGED <<picker, keys, works, tkq, tasks, meta, astray, busy, closed, faults, overlapped>>

-----------------------------------------------------------------------------
(* What the user starts.  The button of the extraction follows busy, and so   *)
(* does its shortcut; the text box's Ctrl+Enter does not.                     *)
BugExtract(w) ==   \* the shortcut does not look at the button
  /\ ~closed /\ team # None /\ works[w].pc = "unused" /\ w = Free(works)
  /\ busy' = TRUE
  /\ tasks' = <<>> /\ selected' = None
  /\ works' = [works EXCEPT ![w] = [NoWork EXCEPT !.kind = "extract", !.pc = "clients",
                                                  !.meta = [backend |-> picked, of |-> team]]]
  /\ Stirred
  /\ UNCHANGED <<picker, keys, tkq, meta, astray, closed, edits, faults, overlapped>>

Extract(w) ==
  /\ ~closed /\ ~busy /\ team # None /\ works[w].pc = "unused" /\ w = Free(works)
  /\ busy' = TRUE
  /\ tasks' = <<>> /\ selected' = None
  /\ works' = [works EXCEPT ![w] = [NoWork EXCEPT !.kind = "extract", !.pc = "clients",
                                                  !.meta = [backend |-> picked, of |-> team]]]
  /\ Stirred
  /\ UNCHANGED <<picker, keys, tkq, meta, astray, closed, edits, faults, overlapped>>

Fill(w) ==
  /\ ~closed /\ MetaReady /\ works[w].pc = "unused" /\ w = Free(works)
  /\ meta' = EnsuredMeta
  /\ IF selected = None \/ tasks = <<>>
     THEN tasks' = Append(tasks, Blank) /\ selected' = Blank /\ edits' = edits + 1 /\ Stirred
     ELSE UNCHANGED <<tasks, selected, edits, moved>>
  /\ edits' \in 0 .. MaxEdits
  /\ overlapped' = (overlapped \/ busy)
  /\ busy' = TRUE
  /\ works' = [works EXCEPT ![w] = [NoWork EXCEPT !.kind = "fill", !.pc = "ask", !.target = selected']]
  /\ UNCHANGED <<picker, keys, tkq, astray, closed, faults>>

(* _on_close: every worker is told to stop, and what the window held is gone, *)
(* the callbacks that wait for it included.                                   *)
Close ==
  /\ ~closed
  /\ closed' = TRUE
  /\ tkq' = <<>> /\ busy' = FALSE /\ team' = None
  /\ tasks' = <<>> /\ selected' = None /\ meta' = None
  /\ UNCHANGED <<picked, cached, fetches, crossed, keys, works, moved, astray, edits, faults, overlapped>>

-----------------------------------------------------------------------------
(* The thread of an extraction, _run_extraction.  Ask... is a call of the     *)
(* language model under way; late counts those begun after the close.         *)
Late == IF closed THEN 1 ELSE 0
To(w, pc) == works' = [works EXCEPT ![w].pc = pc]
Call(w, pc) == works' = [works EXCEPT ![w].pc = pc, ![w].late = @ + Late]
OnlyWork == UNCHANGED <<picker, keys, editor, busy, closed, edits, overlapped>>
Quiet == OnlyWork /\ UNCHANGED <<tkq, faults>>

(* The end of the thread: its finally tells the window, unless it is closed.  *)
Done(w, lost) == works' = [works EXCEPT ![w].pc = "done", ![w].lost = lost, ![w].k = 0,
                                        ![w].target = None, ![w].meta = None]
Abandon(w) == Done(w, "no") /\ Quiet
BugFails(w, lost) == Done(w, lost) /\ Post(<<[do |-> "failed"]>>)    \* busy stays
Fails(w, lost) == Done(w, lost) /\ Post(<<[do |-> "failed"], [do |-> "idle"]>>)

Clients(w) ==    \* documents, the two clients, the check before the tracker
  /\ works[w].pc = "clients"
  /\ \/ closed /\ Abandon(w)
     \/ ~closed /\ To(w, "context") /\ Quiet
     \/ Fault /\ Fails(w, "no") /\ OnlyWork

Context(w) ==    \* no check of the close between the tracker and the model
  /\ works[w].pc = "context"
  /\ \/ Call(w, "ask") /\ Quiet
     \/ Fault /\ Fails(w, "no") /\ OnlyWork

(* extract: a model that refuses json_mode with 400 is asked once more.       *)
AskExtract(w) ==
  /\ works[w].kind = "extract"
  /\ \/ /\ works[w].pc \in {"ask", "askagain"}
        /\ IF closed THEN Abandon(w) ELSE To(w, "commit") /\ Quiet
     \/ works[w].pc = "ask" /\ Fault /\ Call(w, "askagain") /\ OnlyWork /\ UNCHANGED tkq
     \/ /\ works[w].pc \in {"ask", "askagain"}
        /\ Fault /\ Fails(w, "no") /\ OnlyWork

(* save_tasks_raw replaces tasks_raw.json as a whole or raises.               *)
SaveRaw(w) == works' = [works EXCEPT ![w].pc = "protocol", ![w].committed = TRUE]

Commit(w) ==     \* then speakers.json, whose failure is only logged
  /\ works[w].pc = "commit"
  /\ \/ SaveRaw(w) /\ Quiet
     \/ Fault /\ Fails(w, "no") /\ OnlyWork

(* The minutes: no answer, an empty one, one without the five blocks and a    *)
(* protocol.md that cannot be written are all logged, and the thread goes on. *)
Minutes(w) == works[w].pc = "minutes" /\ To(w, "recent")

(* The user may have switched generate_protocol off.                          *)
Protocol(w) ==
  /\ \/ works[w].pc = "protocol" /\ (To(w, "recent") \/ (~closed /\ To(w, "prompt")))
     \/ works[w].pc = "prompt" /\ Call(w, "minutes")
     \/ Minutes(w)
  /\ Quiet

(* _remember_recent_model saves the configuration for a model of one's own.   *)
RememberModel(w) ==
  /\ works[w].pc = "recent"
  /\ \/ To(w, IF closed THEN "post" ELSE "board") /\ Quiet
     \/ Fault /\ Fails(w, "config") /\ OnlyWork

BugBoard(w) ==   \* the error of the tracker is not caught
  /\ works[w].pc = "board"
  /\ \/ /\ works[w].meta.backend \in Commenting
        /\ works' = [works EXCEPT ![w].pc = "check", ![w].k = 1] /\ Quiet
     \/ Fault /\ Fails(w, "no") /\ OnlyWork

(* _run_dedup: skipped without comments or when switched off; a board that    *)
(* cannot be read ends it and nothing else.                                   *)
Board(w) ==
  /\ works[w].pc = "board"
  /\ \/ /\ works[w].meta.backend \in Commenting
        /\ works' = [works EXCEPT ![w].pc = "check", ![w].k = 1] /\ Quiet
     \/ To(w, "post") /\ Quiet

CheckTask(w) ==
  /\ works[w].pc = "check"
  /\ To(w, IF closed \/ works[w].k > Found THEN "post" ELSE "choose")
  /\ Quiet

NextTask(w) == works' = [works EXCEPT ![w].pc = "check", ![w].k = @ + 1]

(* select_match: only a borderline title is a question for the model.  A      *)
(* failed call leaves the task without a match; a reply whose match_id is a   *)
(* list is looked up in a dictionary and raises TypeError.                    *)
ChooseMatch(w) ==
  /\ works[w].pc = "choose"
  /\ NextTask(w) \/ Call(w, "match")
  /\ Quiet

Match(w) ==
  /\ \/ works[w].pc \in {"match", "matchagain"} /\ NextTask(w) /\ Quiet
     \/ works[w].pc = "match" /\ Fault /\ Call(w, "matchagain") /\ OnlyWork /\ UNCHANGED tkq
     \/ works[w].pc \in {"match", "matchagain"} /\ Fault /\ Fails(w, "reply") /\ OnlyWork

Show(w) ==
  /\ works[w].pc = "post"
  /\ works' = [works EXCEPT ![w].pc = "done", ![w].shown = ~closed, ![w].k = 0, ![w].meta = None]
  /\ Post(<<[do |-> "extracted", by |-> w, meta |-> works[w].meta], [do |-> "idle"]>>)
  /\ OnlyWork /\ UNCHANGED faults

-----------------------------------------------------------------------------
(* The thread that fills one task, _run_autofill_worker.                      *)
Answered(w, ok) ==
  /\ Done(w, "no")
  /\ Post(<<[do |-> "filled", ok |-> ok, target |-> works[w].target]>>)

AskFill(w) ==
  /\ works[w].kind = "fill"
  /\ \/ works[w].pc \in {"ask", "askagain"} /\ Answered(w, TRUE) /\ UNCHANGED faults
     \/ works[w].pc = "ask" /\ Fault /\ Call(w, "askagain") /\ UNCHANGED tkq
     \/ works[w].pc \in {"ask", "askagain"} /\ Fault /\ Answered(w, FALSE)
  /\ OnlyWork

-----------------------------------------------------------------------------
(* The callbacks, in the order they were posted.                              *)
Loaded(cb) == team' = cb.of /\ UNCHANGED <<editor, busy>>
Unloaded == team' = None /\ UNCHANGED <<editor, busy>>
Idle == busy' = FALSE /\ UNCHANGED <<team, editor>>

(* _on_extract_success: the new list replaces whatever is there.              *)
Extracted(cb) ==
  /\ tasks' = [k \in 1 .. Found |-> [by |-> cb.by, n |-> k]]
  /\ selected' = tasks'[1]
  /\ meta' = cb.meta
  /\ Stirred
  /\ UNCHANGED <<team, busy, astray>>

BugFilled(cb) ==     \* writes into the last task of the list
  /\ busy' = FALSE
  /\ astray' = (astray \/ (cb.ok /\ selected # None /\ tasks[Len(tasks)] # cb.target))
  /\ UNCHANGED <<team, tasks, selected, meta, moved>>

(* _on_autofill_success writes into the task selected now.                    *)
Filled(cb) ==
  /\ busy' = FALSE
  /\ astray' = (astray \/ (cb.ok /\ selected \notin {None, cb.target}))
  /\ UNCHANGED <<team, tasks, selected, meta, moved>>

Callback ==
  /\ tkq # <<>> /\ ~closed
  /\ tkq' = Tail(tkq)
  /\ LET cb == Head(tkq)
     IN  \/ cb.do = "loaded" /\ Loaded(cb)
         \/ cb.do = "unloaded" /\ Unloaded
         \/ cb.do = "extracted" /\ Extracted(cb)
         \/ cb.do = "failed" /\ UNCHANGED <<team, editor, busy>>
         \/ cb.do = "filled" /\ Filled(cb)
         \/ cb.do = "idle" /\ Idle
  /\ UNCHANGED <<picked, cached, fetches, crossed, keys, works, closed, edits, faults, overlapped>>

-----------------------------------------------------------------------------
(* Opening the dialog fetches the containers of the first backend.            *)
Init ==
  /\ picked \in Backends /\ keys \in SUBSET Backends
  /\ team = None /\ cached = [b \in Backends |-> None]
  /\ fetches = LET none == [f \in Fetches |-> NoFetch]
               IN  IF picked \in keys
                   THEN [none EXCEPT ![Free(none)] = [pc |-> "asking", of |-> picked]] ELSE none
  /\ works = [w \in Works |-> NoWork]
  /\ tkq = <<>> /\ tasks = <<>> /\ selected = None /\ meta = None
  /\ busy = FALSE /\ closed = FALSE /\ edits = 0 /\ faults = 0
  /\ crossed = FALSE /\ overlapped = FALSE /\ moved = FALSE /\ astray = FALSE

Work(w) == \/ Clients(w) \/ Context(w) \/ AskExtract(w) \/ Commit(w) \/ Protocol(w)
           \/ RememberModel(w) \/ Board(w) \/ CheckTask(w) \/ ChooseMatch(w) \/ Match(w)
           \/ Show(w) \/ AskFill(w)
Fetch(f) == FetchAnswers(f) \/ FetchFails(f)
User == \/ \E b \in Backends : ChangeBackend(b)
        \/ Refresh \/ AddTask \/ SelectTask \/ Close
        \/ \E w \in Works : Extract(w) \/ Fill(w)

Next == User \/ Callback \/ (\E w \in Works : Work(w)) \/ (\E f \in Fetches : Fetch(f))

(* The threads run on and every request has a timeout; Tk serves its queue.   *)
Fairness == /\ \A w \in Works : WF_vars(Work(w))
            /\ \A f \in Fetches : WF_vars(Fetch(f))
            /\ WF_vars(Callback)

Spec == Init /\ [][Next]_vars
FairSpec == Spec /\ Fairness

-----------------------------------------------------------------------------
(* The containers offered and cached for a backend, and the one a task is     *)
(* sent to, are of that backend - unless the dropdown was changed before the  *)
(* answer of a fetch was there (then the code mixes them up).                 *)
ContainersOfBackend ==
  crossed \/ /\ team \in {None, picked}
             /\ \A b \in Backends : cached[b] \in {None, b}
             /\ meta # None => meta.of = meta.backend

(* An extraction whose tasks_raw.json is written is shown in the window,      *)
(* whatever the protocol and the search for duplicates come to - unless the   *)
(* configuration could not be saved or the model's reply broke the search.    *)
CommittedIsShown ==
  \A w \in Works : works[w].pc = "done" /\ works[w].committed /\ works[w].lost = "no"
                     => works[w].shown \/ closed

(* After the close a thread begins at most two more calls of the language     *)
(* model (one question and its repetition), however many were to come.        *)
FewLateCalls == \A w \in Works : works[w].late <= 2

(* At most one extraction runs, unless a filling was started beside it: its   *)
(* end makes the window look idle.                                            *)
OneExtraction ==
  overlapped \/ Cardinality({w \in Works : Alive(w) /\ works[w].kind = "extract"}) <= 1

(* A filled text lands in the task it was asked for, unless the list or the   *)
(* selection changed in the meantime.                                         *)
FillHitsItsTask == astray => moved

(* What is answered late belongs to what was asked: the containers to their   *)
(* tracker, a filled text to its task.                                        *)
AnswersLand == ContainersOfBackend /\ FillHitsItsTask

(* No billed calls for nobody: neither after the close, nor by a second       *)
(* extraction beside the first.                                               *)
NoWastedCalls == FewLateCalls /\ OneExtraction

(* The window does not stay busy.                                             *)
BusyEnds == busy ~> ~busy

=============================================================================
