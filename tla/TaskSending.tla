---------------------------- MODULE TaskSending ----------------------------
(***************************************************************************)
(* Sending the tasks of a meeting to a tracker: tasks/sender.py, the list,  *)
(* its undo stack and its file in ui/dialogs/extract_tasks, and             *)
(* tasks/persistence.py.                                                    *)
(*                                                                          *)
(* A worker thread walks a Python list of Task objects; the Tk thread edits *)
(* the list the dialog shows, and Ctrl+Z puts a deep copy in its place, so  *)
(* that a worker may go on with a list nobody shows.  Objects have identity *)
(* therefore: a list lives in a slot of "lists", the dialog shows one slot  *)
(* and each worker walks one.  The tracker is one that takes comments and   *)
(* has no idempotency keys (Linear, Trello).  What a task says is left out, *)
(* and so is whether it is selected: a send may pass over any task.         *)
(*                                                                          *)
(* A definition named Bug... is the one below it with a plausible mistake.  *)
(***************************************************************************)
EXTENDS Naturals, SequencesExt

CONSTANTS
    Task,            \* Task objects, known by local_id
    Extracted,       \* the tasks of the list at the start, in order
    Recurring,       \* those with a dup_match: a card of theirs is on the board
    NoTask,          \* no task
    Worker,          \* send threads that may run at a time
    UndoDepth,       \* maxlen of _undo_stack
    MaxSent,         \* bound: cards, or comments, for one task
    MaxTrouble       \* bound: edits that Ctrl+Z takes back, uses of Ctrl+Z, openings of
                     \* the dialog, failed saves, requests carried out and not answered

ASSUME SendingAssumption ==
    /\ Extracted \in Seq(Task) /\ IsInjective(Extracted)
    /\ Recurring \subseteq Task /\ NoTask \notin Task /\ IsFiniteSet(Worker)
    /\ UndoDepth \in Nat \ {0}
    /\ MaxSent \in Nat /\ MaxTrouble \in Nat

VARIABLES
    lists,       \* the list objects: slot -> list
    shown,       \* the slot of self._tasks
    undo,        \* _undo_stack
    known,       \* tasks that were ever in a list
    file,        \* tasks.json
    worker,      \* the send threads
    open,        \* the dialog is on the screen
    busy,        \* _set_busy
    frozen,      \* Send and Retry are disabled by _set_busy, whatever the list has
    posted,      \* callbacks in the Tk queue
    cards,       \* cards the tracker has for a task
    comments,    \* comments it has on the old card of a task
    causes,      \* why the program may not know what was sent of a task
    trouble      \* what MaxTrouble bounds

dialog  == <<lists, shown, undo, known>>
screen  == <<open, busy, frozen, posted>>
tracker == <<cards, comments>>
vars == <<dialog, file, worker, screen, tracker, causes, trouble>>

Status == {"pending", "sending", "sent", "failed", "commented"}
Cause  == {"lost", "unsaved", "undone", "raced"}
Slot   == 0..Cardinality(Worker)

List  == [rows : Seq(Task), status : [Task -> Status],
          dup : [Task -> {"none", "comment", "create"}]]
Saved == [rows : Seq(Task), status : [Task -> Status]]
Thread == [pc : {"idle", "next", "mark", "create", "look", "comment", "settle", "end"},
           slot : Slot, pos : Nat \ {0}, task : Task \cup {NoTask}, retry : BOOLEAN,
           result : Status, cancelled : BOOLEAN]

TypeOK ==
    /\ lists \in [Slot -> List] /\ shown \in Slot
    /\ undo \in Seq(List) /\ Len(undo) <= UndoDepth
    /\ known \subseteq Task
    /\ file \in Saved
    /\ worker \in [Worker -> Thread]
    /\ open \in BOOLEAN /\ busy \in BOOLEAN /\ frozen \in BOOLEAN
    /\ posted \subseteq {"row", "finished"}
    /\ cards \in [Task -> Nat] /\ comments \in [Task -> Nat]
    /\ causes \in [Task -> SUBSET Cause]
    /\ trouble \in 0..MaxTrouble

Empty == [rows |-> <<>>, status |-> [t \in Task |-> "pending"],
          dup |-> [t \in Task |-> "none"]]
Idle == [pc |-> "idle", slot |-> 0, pos |-> 1, task |-> NoTask,
         retry |-> FALSE, result |-> "pending", cancelled |-> FALSE]

In(t, l) == t \in ToSet(l.rows)

(* What save_tasks writes: dup_match and dup_action are not written *)
ToFile(l) == [rows |-> l.rows,
              status |-> [t \in Task |-> IF In(t, l) THEN l.status[t] ELSE "pending"]]
BugFromFile(f) ==     \* what was under way is offered again
    [rows |-> f.rows, dup |-> [t \in Task |-> "none"],
     status |-> [t \in Task |-> IF f.status[t] = "sending" THEN "pending" ELSE f.status[t]]]
FromFile(f) == [rows |-> f.rows, status |-> f.status, dup |-> [t \in Task |-> "none"]]

Fresh == [Empty EXCEPT !.rows = Extracted,
                       !.dup = [t \in Task |-> IF t \in Recurring THEN "comment" ELSE "none"]]

(* _on_extract_success has just shown and saved the tasks *)
Init ==
    /\ lists = [s \in Slot |-> IF s = 0 THEN Fresh ELSE Empty] /\ shown = 0
    /\ undo = <<>> /\ known = ToSet(Extracted)
    /\ file = ToFile(Fresh)
    /\ worker = [w \in Worker |-> Idle]
    /\ open = TRUE /\ busy = FALSE /\ frozen = FALSE /\ posted = {}
    /\ cards = [t \in Task |-> 0] /\ comments = [t \in Task |-> 0]
    /\ causes = [t \in Task |-> {}]
    /\ trouble = 0

(***************************************************************************)
(* A save.  "ok": the file is written, unless the list is empty.  "skip":   *)
(* mkdir raised OSError, which every caller swallows.  "raise": writing or  *)
(* replacing failed - the disk refused, or a save of the other thread took  *)
(* away the temporary file the two share - and PersistenceError, which is   *)
(* no OSError, leaves the caller.                                           *)
(***************************************************************************)
Outcome == {"ok", "skip", "raise"}
SaveOver(before, l, o, n) ==
    /\ o # "ok" => l.rows # <<>>
    /\ trouble' = trouble + n + (IF o = "ok" THEN 0 ELSE 1)
    /\ trouble' <= MaxTrouble
    /\ file' = IF o = "ok" /\ l.rows # <<>> THEN ToFile(l) ELSE before
Save(l, o) == SaveOver(file, l, o, 0)

(* _refresh_send_button_label: Send and Retry are enabled again, send thread or
   not, if there is something for them; that is looked at when one is clicked *)
Refresh == frozen' = FALSE
RefreshUnless(o) == frozen' = (frozen /\ o = "raise")

-----------------------------------------------------------------------------
(* The Tk thread: editing *)

Current == lists[shown]
Remember == LET all == Append(undo, Current)
            IN  IF Len(all) > UndoDepth THEN Tail(all) ELSE all

(* An edit that Ctrl+Z takes back: _push_undo_snapshot, the change, the save *)
Change(new, o) ==
    /\ undo' = Remember
    /\ lists' = [lists EXCEPT ![shown] = new]
    /\ SaveOver(file, new, o, 1)

(* A checkbox is clicked, a form field is edited, another row is selected *)
Autosave(o) ==
    /\ open
    /\ Save(Current, o)
    /\ RefreshUnless(o)
    /\ UNCHANGED <<dialog, worker, open, busy, posted, tracker, causes>>

(* The "comment it / create a new one" switch of a row *)
ToggleDup(t) ==
    /\ open /\ In(t, Current) /\ Current.status[t] = "pending" /\ Current.dup[t] # "none"
    /\ lists' = [lists EXCEPT ![shown].dup[t] = IF @ = "comment" THEN "create" ELSE "comment"]
    /\ UNCHANGED <<shown, undo, known, file, worker, screen, tracker, causes, trouble>>

(* Select all, select none *)
SelectAll(o) ==
    /\ open /\ ~busy
    /\ Change(Current, o)
    /\ RefreshUnless(o)
    /\ UNCHANGED <<shown, known, worker, open, busy, posted, tracker, causes>>

(* Ctrl+N: works while a send runs *)
AddTask(t, o) ==
    /\ open /\ t \notin known
    /\ known' = known \cup {t}
    /\ Change([Current EXCEPT !.rows = Append(@, t)], o)
    /\ Refresh
    /\ UNCHANGED <<shown, worker, open, busy, posted, tracker, causes>>

(* Clicking a row enables the button again while a send runs *)
DeleteTask(i, o) ==
    /\ open /\ i \in DOMAIN Current.rows
    /\ Change([Current EXCEPT !.rows = RemoveAt(@, i)], o)
    /\ Refresh
    /\ UNCHANGED <<shown, known, worker, open, busy, posted, tracker, causes>>

Walked == {worker[w].slot : w \in {v \in Worker : worker[v].pc # "idle"}}

(* Only a list that is shown or walked lives on *)
Place(l, slot) == [s \in Slot |-> IF s = slot THEN l
                                  ELSE IF s \in Walked THEN lists[s] ELSE Empty]

FreeSlot == CHOOSE s \in Slot : s \notin Walked

(* Tasks whose record is lost with the list: touched since the snapshot, or still
   to be touched by a thread that walks the list *)
Forgotten(prior) ==
    {t \in Task : Current.status[t] \notin {"pending", prior.status[t]}}
    \cup IF shown \notin Walked THEN {}
         ELSE {t \in Task : Current.status[t] \in {"pending", "failed", "sending"}}
Because(T, c) == [t \in Task |-> IF t \in T THEN causes[t] \cup {c} ELSE causes[t]]

(***************************************************************************)
(* Ctrl+Z, also while a send runs: a deep copy is shown instead of the      *)
(* list, and the list lives on only while a thread walks it.  It is saved   *)
(* before: a row is selected whenever there is one.                         *)
(***************************************************************************)
Undo(o) ==
    /\ open /\ undo # <<>>
    /\ undo' = Front(undo)
    /\ shown' = FreeSlot
    /\ lists' = Place(Last(undo), FreeSlot)
    /\ SaveOver(IF Current.rows = <<>> THEN file ELSE ToFile(Current), Last(undo), o, 1)
    /\ causes' = Because(Forgotten(Last(undo)), "undone")
    /\ Refresh
    /\ UNCHANGED <<known, worker, open, busy, posted, tracker>>

-----------------------------------------------------------------------------
(* The Tk thread: sending, callbacks, closing *)

(* _should_send, selection apart *)
BugShouldSend(l, t, retry) ==     \* retry takes up what was under way
    l.status[t] \in IF retry THEN {"failed", "sending"} ELSE {"pending"}
ShouldSend(l, t, retry) == l.status[t] = IF retry THEN "failed" ELSE "pending"

(* The button is clicked; the selected row is saved first, and a save that
   raises ends the handler *)
StartSend(w, retry, o) ==
    /\ open /\ worker[w].pc = "idle"
    /\ ~frozen /\ \E t \in ToSet(Current.rows) : ShouldSend(Current, t, retry)
    /\ Save(Current, o)
    /\ IF o = "raise"
       THEN UNCHANGED <<worker, busy, frozen>>
       ELSE /\ worker' = [worker EXCEPT ![w] = [Idle EXCEPT !.pc = "next",
                                                   !.slot = shown, !.retry = retry]]
            /\ busy' = TRUE /\ frozen' = TRUE
    /\ UNCHANGED <<dialog, open, posted, tracker, causes>>

(* _update_row_status: enables Send and Retry, whether a send runs or not *)
RowCallback ==
    /\ "row" \in posted /\ posted' = posted \ {"row"}
    /\ Refresh
    /\ UNCHANGED <<dialog, file, worker, open, busy, tracker, causes, trouble>>

(* _on_send_finished *)
FinishedCallback ==
    /\ "finished" \in posted /\ posted' = posted \ {"finished"}
    /\ busy' = FALSE
    /\ Refresh
    /\ UNCHANGED <<dialog, file, worker, open, tracker, causes, trouble>>

Gone ==
    /\ open' = FALSE /\ busy' = FALSE /\ frozen' = FALSE
    /\ posted' = {} /\ undo' = <<>>

(* The threads go on; their dialog's cancel_event is set *)
Close(o) ==
    /\ open /\ o # "raise"
    /\ Save(Current, o)
    /\ Gone
    /\ lists' = Place(Empty, FreeSlot)
    /\ worker' = [w \in Worker |-> IF worker[w].pc = "idle" THEN worker[w]
                                   ELSE [worker[w] EXCEPT !.cancelled = TRUE]]
    /\ UNCHANGED <<shown, known, tracker, causes>>

(* The application ends, the threads with it *)
Exit ==
    /\ open \/ Walked # {}
    /\ Gone
    /\ lists' = [s \in Slot |-> Empty]
    /\ worker' = [w \in Worker |-> Idle]
    /\ UNCHANGED <<shown, known, file, tracker, causes, trouble>>

(* The dialog is opened again and loads tasks.json *)
Open ==
    /\ ~open
    /\ trouble' = trouble + 1 /\ trouble' <= MaxTrouble
    /\ open' = TRUE
    /\ shown' = FreeSlot
    /\ lists' = Place(FromFile(file), FreeSlot)
    /\ Refresh
    /\ UNCHANGED <<undo, known, file, worker, busy, posted, tracker, causes>>

-----------------------------------------------------------------------------
(* A send thread *)

Walks(w) == worker[w].slot
Its(w) == lists[Walks(w)]
At(w, pc) == worker[w].pc = pc
Goto(w, pc) == worker' = [worker EXCEPT ![w].pc = pc]
MoveOn(w, pc) ==      \* a thread between two tasks keeps its place only
    worker' = [worker EXCEPT ![w] =
        IF pc \in {"next", "end"} THEN [@ EXCEPT !.pc = pc, !.task = NoTask, !.result = "pending"]
        ELSE [@ EXCEPT !.pc = pc]]

(* The top of the loop *)
Pick(w) ==
    LET me == worker[w]
        t  == Its(w).rows[me.pos]
    IN  /\ At(w, "next")
        /\ IF me.cancelled \/ me.pos > Len(Its(w).rows)
           THEN Goto(w, "end")
           ELSE \E selected \in BOOLEAN :
                  worker' = [worker EXCEPT ![w] =
                      IF selected /\ ShouldSend(Its(w), t, me.retry)
                      THEN [me EXCEPT !.pc = "mark", !.task = t, !.pos = @ + 1]
                      ELSE [me EXCEPT !.pos = @ + 1]]
        /\ UNCHANGED <<dialog, file, screen, tracker, causes, trouble>>

(* on_status_change: what is saved is the list that is shown *)
Notify(w, pc, o) ==
    IF worker[w].cancelled
    THEN /\ o = "ok" /\ MoveOn(w, pc)
         /\ UNCHANGED <<file, trouble, posted>>
    ELSE /\ Save(lists'[shown], o)
         /\ MoveOn(w, IF o = "raise" THEN "end" ELSE pc)
         /\ posted' = IF o = "raise" THEN posted ELSE posted \cup {"row"}

Records(f, t) == In(t, f) /\ f.status[t] = "sending"

(* PENDING, or FAILED, becomes SENDING; outside the try block *)
Mark(w, o) ==
    LET t == worker[w].task
        byComment == Its(w).dup[t] = "comment"
    IN  /\ At(w, "mark")
        /\ lists' = [lists EXCEPT ![Walks(w)].status[t] = "sending"]
        /\ Notify(w, IF byComment THEN "look" ELSE "create", o)
        /\ causes' = [causes EXCEPT ![t] = @
               \cup (IF ShouldSend(Its(w), t, worker[w].retry) THEN {} ELSE {"raced"})
               \cup (IF o = "raise" \/ (~worker[w].cancelled /\ Records(file', t))
                     THEN {} ELSE {"unsaved"})]
        /\ UNCHANGED <<shown, undo, known, open, busy, frozen, tracker>>

Answer(w, result) ==
    worker' = [worker EXCEPT ![w].pc = "settle", ![w].result = result]

(* A request that writes: it is carried out or not, and the answer may be lost *)
Request(w, count, success) ==
    LET t == worker[w].task
        CarriedOut == count[t] < MaxSent /\ count' = [count EXCEPT ![t] = @ + 1]
    IN  \/ Answer(w, "failed") /\ UNCHANGED <<count, causes, trouble>>
        \/ Answer(w, success) /\ CarriedOut /\ UNCHANGED <<causes, trouble>>
        \/ /\ Answer(w, "failed") /\ CarriedOut
           /\ trouble' = trouble + 1 /\ trouble' <= MaxTrouble
           /\ causes' = Because({t}, "lost")

Create(w) ==
    /\ At(w, "create")
    /\ Request(w, cards, "sent")
    /\ UNCHANGED <<dialog, file, screen, comments>>

BugLook(w) ==
    /\ At(w, "look")
    /\ Answer(w, "failed") \/ Goto(w, "comment")
    /\ UNCHANGED <<dialog, file, screen, tracker, causes, trouble>>

(* comment_exists: the marker is on the card *)
Look(w) ==
    /\ At(w, "look")
    /\ \/ Answer(w, "failed")
       \/ IF comments[worker[w].task] > 0 THEN Answer(w, "commented") ELSE Goto(w, "comment")
    /\ UNCHANGED <<dialog, file, screen, tracker, causes, trouble>>

AddComment(w) ==
    /\ At(w, "comment")
    /\ Request(w, comments, "commented")
    /\ UNCHANGED <<dialog, file, screen, cards>>

(* SENDING becomes SENT, COMMENTED or FAILED *)
Settle(w, o) ==
    /\ At(w, "settle")
    /\ lists' = [lists EXCEPT ![Walks(w)].status[worker[w].task] = worker[w].result]
    /\ Notify(w, "next", o)
    /\ UNCHANGED <<shown, undo, known, open, busy, frozen, tracker, causes>>

(* after(0, _on_send_finished), also after an exception *)
BugLastPost(w) ==     \* not after an exception
    IF worker[w].cancelled \/ worker[w].pos <= Len(Its(w).rows) THEN {} ELSE {"finished"}
LastPost(w) == IF worker[w].cancelled THEN {} ELSE {"finished"}

(* The end of _run_send_worker *)
Finish(w) ==
    /\ At(w, "end")
    /\ worker' = [worker EXCEPT ![w] = Idle]
    /\ posted' = posted \cup LastPost(w)
    /\ lists' = [s \in Slot |->
           IF (open /\ s = shown) \/ \E v \in Worker \ {w} : ~At(v, "idle") /\ Walks(v) = s
           THEN lists[s] ELSE Empty]
    /\ UNCHANGED <<shown, undo, known, file, open, busy, frozen, tracker, causes, trouble>>

-----------------------------------------------------------------------------
Edit(o) ==
    \/ Autosave(o) \/ SelectAll(o) \/ Undo(o)
    \/ \E t \in Task : AddTask(t, o)
    \/ \E i \in 1..Len(Current.rows) : DeleteTask(i, o)

User ==
    \/ \E o \in Outcome :
          \/ Edit(o) \/ Close(o)
          \/ \E w \in Worker, retry \in BOOLEAN : StartSend(w, retry, o)
    \/ \E t \in Task : ToggleDup(t)
    \/ Exit \/ Open

Callback == RowCallback \/ FinishedCallback

Step(w) ==
    \/ Pick(w) \/ Create(w) \/ Look(w) \/ AddComment(w) \/ Finish(w)
    \/ \E o \in Outcome : Mark(w, o) \/ Settle(w, o)

Next == User \/ Callback \/ \E w \in Worker : Step(w)

Spec == Init /\ [][Next]_vars

(* The operating system runs every thread, and Tk its queue *)
FairSpec == Spec /\ WF_vars(RowCallback) /\ WF_vars(FinishedCallback)
                 /\ \A w \in Worker : WF_vars(Step(w))

-----------------------------------------------------------------------------
(* Properties *)

(* A task gets a second card only if an answer was lost, a save left its
   sending out, Ctrl+Z took its status back, or two threads picked it at once:
   never by editing, retrying, closing or starting again alone (the filters of
   sender.py, and the save before the request). *)
CardNeedsCause == \A t \in Task : cards[t] > 1 => causes[t] # {}

(* A task gets a second comment on the old card only if two threads sent it at
   once: the marker stops every other repetition, a lost answer too. *)
CommentNeedsRace == \A t \in Task : comments[t] > 1 => causes[t] \cap {"undone", "raced"} # {}

(* The file says of a task that was sent that it waits for a send, or failed,
   only if a save left the sending out, Ctrl+Z took it back, or the request
   that failed was one of two or was carried out: _on_send_status_change saves
   before the request, so a crash at any point leaves nothing on the disk that
   Send or Retry picks up. *)
FileKnowsSent ==
    \A t \in Task : cards[t] + comments[t] > 0 /\ In(t, file) =>
        \/ file.status[t] \in {"sending", "sent", "commented"}
        \/ causes[t] \cap {"unsaved", "undone"} # {}
        \/ file.status[t] = "failed" /\ causes[t] \cap {"lost", "raced"} # {}

(* The buttons that a send disables come back. *)
BusyEnds == busy ~> ~busy
=============================================================================
