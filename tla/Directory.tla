----------------------------- MODULE Directory -----------------------------
(***************************************************************************)
(* The people and projects of directory.json: directory/store.py, the      *)
(* editor in ui/dialogs/directory.py, the binding of new voices in         *)
(* ui/dialogs/voice_bind.py, and the queue's thread, which reads them.     *)
(*                                                                         *)
(* There are three copies: the file, the store of the window (app), which  *)
(* voices are bound in and the queue reads, and a store of the editor's    *)
(* own (dialog.store), which the window only sees by loading the file      *)
(* when the editor closes.  Both dialogs hold the grab, so that one of     *)
(* them is open at a time.  Roles, descriptions and times are left out.    *)
(*                                                                         *)
(* A definition named Bug... is the one below it with a plausible mistake. *)
(***************************************************************************)
EXTENDS Naturals, FiniteSets, SequencesExt

CONSTANTS
    Person,      \* ids a person may get
    Project,     \* ids a project may get
    Nobody,      \* no person
    Voice,       \* identifiers of speakers, each of one meeting
    Meeting,
    Pending,     \* the voices of a meeting's sidecar when it was written
    VoiceprintCap,
    MaxTrouble   \* bound: reads and saves that fail

ASSUME DirectoryAssumption ==
    /\ Nobody \notin Person /\ Meeting # {}
    /\ Pending \in [Meeting -> Seq(Voice)]
    /\ VoiceprintCap \in Nat \ {0}
    /\ MaxTrouble \in Nat

VARIABLES
    file,        \* directory.json
    app,         \* _dir_store of the window
    dialog,      \* the editor, with its store and the person form
    bind,        \* the binding of a meeting's voices
    sidecar,     \* meetings whose Voice-ID sidecar is there
    reader,      \* the queue's thread in people_for_project
    used,        \* ids of people and projects that were given out
    told,        \* what the user was told is saved and has not deleted
    unread,      \* a load has failed
    unsaved,     \* facts of the window's store whose own save has failed
    undeleted,   \* the deletion of a project has failed in the file
    trouble      \* what MaxTrouble bounds

stores == <<file, app>>
past   == <<used, told, unread, unsaved, undeleted>>
vars == <<stores, dialog, bind, sidecar, reader, past, trouble>>

Store == [people : SUBSET Person, projects : SUBSET Project,
          member : [Person -> SUBSET Project],
          prints : [Person -> Seq(Voice)]]
EmptyStore == [people |-> {}, projects |-> {},
               member |-> [p \in Person |-> {}],
               prints |-> [p \in Person |-> <<>>]]

Closed == [open |-> FALSE, store |-> EmptyStore, editing |-> Nobody, offered |-> {}, ticked |-> {}]
Unbound == [pc |-> "closed", meeting |-> CHOOSE m \in Meeting : TRUE,
            left |-> <<>>, who |-> [v \in Voice |-> Nobody]]
Resting == [on |-> FALSE, alone |-> FALSE, left |-> {}, got |-> {}, roster |-> {}, size |-> 0]

(* What a store promises: people, and the voices that are known to be theirs *)
Facts(s) == {<<p>> : p \in s.people}
            \cup UNION {{<<p, v>> : v \in ToSet(s.prints[p])} : p \in s.people}
About(p) == {f \in told : f[1] = p}

TypeOK ==
    /\ file \in Store /\ app \in Store /\ dialog.store \in Store
    /\ dialog.open \in BOOLEAN /\ dialog.editing \in Person \cup {Nobody}
    /\ dialog.ticked \subseteq dialog.offered /\ dialog.offered \subseteq Project
    /\ bind.pc \in {"closed", "form", "note", "enroll", "voiceprint", "drain"}
    /\ bind.meeting \in Meeting /\ bind.left \in Seq(Voice)
    /\ bind.who \in [Voice -> Person \cup {Nobody}]
    /\ sidecar \subseteq Meeting
    /\ reader.left \subseteq Person /\ reader.got \subseteq reader.roster
    /\ app.people \subseteq used /\ file.people \subseteq used
    /\ \A p \in Person : Len(file.prints[p]) <= VoiceprintCap
    /\ dialog.open => bind.pc = "closed"
    /\ trouble \in 0..MaxTrouble

-----------------------------------------------------------------------------
(* The store *)

Goes(ok) == trouble' = (IF ok THEN trouble ELSE trouble + 1) /\ trouble' <= MaxTrouble

(* _save: memory has changed already, whatever happens to the file *)
Save(s, ok) == file' = (IF ok THEN s ELSE file) /\ Goes(ok)

Upsert(s, p, projects) == [s EXCEPT !.people = @ \cup {p}, !.member[p] = projects]

Without(s, p) ==
    [s EXCEPT !.people = @ \ {p}, !.member[p] = {}, !.prints[p] = <<>>]

WithoutProject(s, q) ==
    [s EXCEPT !.projects = @ \ {q}, !.member = [p \in Person |-> @[p] \ {q}]]

Capped(prints) ==
    IF Len(prints) > VoiceprintCap
    THEN SubSeq(prints, Len(prints) - VoiceprintCap + 1, Len(prints)) ELSE prints

Known(s, p, v) == v \in ToSet(s.prints[p])
WithPrint(s, p, v) == [s EXCEPT !.prints[p] = Capped(Append(@, v))]

(* load() puts a new dictionary in the place of the one the queue's thread
   iterates, which stays as it was *)
BugLoadUnder ==       \* the dictionary is refilled
    [reader EXCEPT !.left = @ \cap file.people, !.size = Cardinality(file.people)]
LoadUnder == [reader EXCEPT !.got = @ \cup (reader.left \cap reader.roster), !.left = {}, !.alone = TRUE]

(* load() of the window's store *)
LoadApp == app' = file /\ reader' = LoadUnder

-----------------------------------------------------------------------------
(* The editor *)

NobodyBinds == bind.pc = "closed"
Form(s, editing, ticked) ==   \* _rebuild_person_projects and what goes with it
    [open |-> TRUE, store |-> s, editing |-> editing,
     offered |-> s.projects, ticked |-> ticked \cap s.projects]

(* A file that cannot be read is taken for an empty one *)
OpenDialog(ok) ==
    /\ ~dialog.open /\ NobodyBinds
    /\ dialog' = Form(IF ok THEN file ELSE EmptyStore, Nobody, {})
    /\ unread' = (unread \/ ~ok) /\ Goes(ok)
    /\ UNCHANGED <<stores, bind, sidecar, reader, used, told, unsaved, undeleted>>

(* _load_person, or _clear_person_form for Nobody *)
LoadPerson(p) ==
    /\ dialog.open
    /\ p \in dialog.store.people \/ p = Nobody
    /\ dialog' = Form(dialog.store, p, IF p = Nobody THEN {} ELSE dialog.store.member[p])
    /\ UNCHANGED <<stores, bind, sidecar, reader, past, trouble>>

Tick(q) ==
    /\ dialog.open /\ q \in dialog.offered
    /\ dialog' = [dialog EXCEPT !.ticked = SymDiff(@, {q})]
    /\ UNCHANGED <<stores, bind, sidecar, reader, past, trouble>>

(* After a save that succeeds the form is cleared; else it stays as it is *)
AfterSave(s, ok) ==
    dialog' = IF ok THEN Form(s, Nobody, {}) ELSE [dialog EXCEPT !.store = s]

(* A person who is no longer there is saved under a new id *)
SavePerson(p, ok) ==
    LET new == Upsert(dialog.store, p, dialog.ticked)
    IN  /\ dialog.open
        /\ IF dialog.editing \in dialog.store.people THEN p = dialog.editing ELSE p \notin used
        /\ Save(new, ok) /\ AfterSave(new, ok)
        /\ used' = used \cup {p}
        /\ told' = IF ok THEN told \cup {<<p>>} ELSE told
        /\ UNCHANGED <<app, bind, sidecar, reader, unread, unsaved, undeleted>>

(* The cross of a row; a row whose deletion failed is still shown *)
DeletePerson(p, ok) ==
    LET new == Without(dialog.store, p)
    IN  /\ dialog.open /\ p \in dialog.store.people \cup file.people
        /\ Save(new, ok) /\ AfterSave(new, ok)
        /\ told' = told \ About(p)
        /\ UNCHANGED <<app, bind, sidecar, reader, used, unread, unsaved, undeleted>>

(* _save_project leaves the person form alone *)
SaveProject(q, ok) ==
    LET new == [dialog.store EXCEPT !.projects = @ \cup {q}]
    IN  /\ dialog.open
        /\ q \in dialog.store.projects \/ q \notin used
        /\ Save(new, ok)
        /\ dialog' = [dialog EXCEPT !.store = new]
        /\ used' = used \cup {q}
        /\ UNCHANGED <<app, bind, sidecar, reader, told, unread, unsaved, undeleted>>

(* The boxes are rebuilt with the selection, unless the save has failed *)
BugReform(s, ok) == [dialog EXCEPT !.store = s]
Reform(s, ok) ==
    IF ok THEN Form(s, dialog.editing, dialog.ticked) ELSE [dialog EXCEPT !.store = s]
DeleteProject(q, ok) ==
    LET new == WithoutProject(dialog.store, q)
    IN  /\ dialog.open /\ q \in dialog.store.projects \cup file.projects
        /\ Save(new, ok) /\ dialog' = Reform(new, ok)
        /\ undeleted' = (undeleted \/ ~ok)
        /\ UNCHANGED <<app, bind, sidecar, reader, used, told, unread, unsaved>>

(* _close, and _on_directory_dialog_closed: a load that raises leaves the
   window with what it had *)
BugCloseLoads(ok) == UNCHANGED <<app, reader>>
CloseLoads(ok) == IF ok THEN LoadApp ELSE UNCHANGED <<app, reader>>
CloseDialog(ok) ==
    /\ dialog.open
    /\ dialog' = Closed
    /\ CloseLoads(ok)
    /\ unread' = (unread \/ ~ok) /\ Goes(ok)
    /\ UNCHANGED <<file, bind, sidecar, used, told, unsaved, undeleted>>

-----------------------------------------------------------------------------
(* Binding the voices of a meeting *)

(* The badge of a row is shown while the sidecar is there *)
OpenBind(m) ==
    /\ ~dialog.open /\ NobodyBinds /\ m \in sidecar
    /\ bind' = [Unbound EXCEPT !.pc = "form", !.meeting = m]
    /\ UNCHANGED <<stores, dialog, sidecar, reader, past, trouble>>

CloseBind ==
    /\ bind.pc = "form" /\ bind' = Unbound
    /\ UNCHANGED <<stores, dialog, sidecar, reader, past, trouble>>

(* _resolve_person for every voice: the person who has the name, or one new
   person for each new name *)
Apply(who) ==
    LET voices == ToSet(Pending[bind.meeting])
    IN  /\ bind.pc = "form"
        /\ \A v \in Voice : IF v \in voices THEN who[v] \in app.people \cup (Person \ used)
                                            ELSE who[v] = Nobody
        /\ bind' = [bind EXCEPT !.pc = "note", !.left = Pending[bind.meeting], !.who = who]
        /\ UNCHANGED <<stores, dialog, sidecar, reader, past, trouble>>

(* An exception brings the form back *)
Raise == bind' = [Unbound EXCEPT !.pc = "form", !.meeting = bind.meeting]

(* overwrite_transcript_note comes first *)
WriteNote(ok) ==
    /\ bind.pc = "note" /\ Goes(ok)
    /\ IF ok THEN bind' = [bind EXCEPT !.pc = "enroll"] ELSE Raise
    /\ UNCHANGED <<stores, dialog, sidecar, reader, past>>

NextVoice == Head(bind.left)
Whom == bind.who[NextVoice]

(* upsert_person, for someone the store has not *)
Enroll(ok) ==
    /\ bind.pc = "enroll" /\ bind.left # <<>>
    /\ IF Whom \in app.people
       THEN ok /\ bind' = [bind EXCEPT !.pc = "voiceprint"] /\ UNCHANGED <<stores, used, unsaved, trouble>>
       ELSE /\ app' = Upsert(app, Whom, {})
            /\ Save(app', ok)
            /\ used' = used \cup {Whom}
            /\ unsaved' = IF ok THEN unsaved ELSE unsaved \cup {<<Whom>>}
            /\ IF ok THEN bind' = [bind EXCEPT !.pc = "voiceprint"] ELSE Raise
    /\ UNCHANGED <<dialog, sidecar, reader, told, unread, undeleted>>

(* add_voiceprint: one that is known already is not saved again *)
AddVoiceprint(ok) ==
    LET on == [bind EXCEPT !.pc = "enroll", !.left = Tail(@)]
    IN  /\ bind.pc = "voiceprint"
        /\ IF Known(app, Whom, NextVoice)
           THEN ok /\ bind' = on /\ UNCHANGED <<stores, unsaved, told, trouble>>
           ELSE /\ app' = WithPrint(app, Whom, NextVoice)
                /\ Save(app', ok)
                /\ told' = told \ {<<Whom, v>> : v \in Voice \ ToSet(app'.prints[Whom])}
                /\ unsaved' = IF ok THEN unsaved ELSE unsaved \cup {<<Whom, NextVoice>>}
                /\ IF ok THEN bind' = on ELSE Raise
        /\ UNCHANGED <<dialog, sidecar, reader, used, unread, undeleted>>

(* The sidecar is removed, if the disk allows it, and the dialog closes *)
Drain(ok) ==
    LET voices == ToSet(Pending[bind.meeting])
    IN  /\ bind.pc = "enroll" /\ bind.left = <<>>
        /\ Goes(ok)
        /\ sidecar' = IF ok THEN sidecar \ {bind.meeting} ELSE sidecar
        /\ told' = told \cup {f \in Facts(app) : \E v \in voices :
                                    f \in {<<bind.who[v]>>, <<bind.who[v], v>>}}
        /\ bind' = Unbound
        /\ UNCHANGED <<stores, dialog, reader, used, unread, unsaved, undeleted>>

-----------------------------------------------------------------------------
(* The queue's thread asks for the participants of a project *)

ReadRoster(q) ==
    /\ ~reader.on
    /\ reader' = [on |-> TRUE, alone |-> FALSE, left |-> app.people, got |-> {},
                   roster |-> {p \in app.people : q \in app.member[p]},
                   size |-> Cardinality(app.people)]
    /\ UNCHANGED <<stores, dialog, bind, sidecar, past, trouble>>

(* A dictionary that has grown raises RuntimeError, and the job fails *)
Grown == ~reader.alone /\ Cardinality(app.people) # reader.size

ReadPerson(p) ==
    /\ reader.on /\ p \in reader.left
    /\ reader' = IF Grown THEN Resting
                 ELSE [reader EXCEPT !.left = @ \ {p}, !.got = @ \cup ({p} \cap reader.roster)]
    /\ UNCHANGED <<stores, dialog, bind, sidecar, past, trouble>>

(* The participants go into the note, or the job has failed *)
RosterRead ==
    /\ reader.on /\ reader.left = {}
    /\ reader' = Resting
    /\ UNCHANGED <<stores, dialog, bind, sidecar, past, trouble>>

-----------------------------------------------------------------------------
(* The program ends at any point and is started again *)
Restart ==
    /\ app' = file
    /\ dialog' = Closed /\ bind' = Unbound /\ reader' = Resting
    /\ UNCHANGED <<file, sidecar, past, trouble>>

Init ==
    /\ file = EmptyStore /\ app = EmptyStore
    /\ dialog = Closed /\ bind = Unbound
    /\ sidecar = Meeting
    /\ reader = Resting
    /\ used = {} /\ told = {}
    /\ unread = FALSE /\ unsaved = {} /\ undeleted = FALSE
    /\ trouble = 0

Edit(ok) ==
    \/ OpenDialog(ok) \/ CloseDialog(ok)
    \/ \E p \in Person : DeletePerson(p, ok) \/ SavePerson(p, ok)
    \/ \E q \in Project : SaveProject(q, ok) \/ DeleteProject(q, ok)

Next ==
    \/ \E ok \in BOOLEAN : Edit(ok) \/ WriteNote(ok) \/ Enroll(ok) \/ AddVoiceprint(ok) \/ Drain(ok)
    \/ \E p \in Person \cup {Nobody} : LoadPerson(p)
    \/ \E q \in Project : Tick(q) \/ ReadRoster(q)
    \/ \E p \in Person : ReadPerson(p)
    \/ \E m \in Meeting : OpenBind(m)
    \/ CloseBind \/ RosterRead \/ Restart
    \/ \E who \in [Voice -> Person \cup {Nobody}] : Apply(who)

Spec == Init /\ [][Next]_vars

-----------------------------------------------------------------------------
(* Properties *)

(* What the editor or the binding reported as saved is in directory.json,
   whichever of the three copies is written next.  Two things break it: a
   read that failed (the editor goes on with an empty directory, the window
   with the old one, and the next save writes that), and a person or voiceprint
   whose own save failed in a binding - memory has it, the retry finds it
   there, does not save, and removes the sidecar. *)
SavedStays == unread \/ told \ Facts(file) \subseteq unsaved

(* No person of the file belongs to a project that is gone: delete_project
   removes the id from everyone and the editor drops the tick of a form that is
   being filled in - but not when the save of the deletion has failed. *)
RefsValid ==
    undeleted \/ \A p \in file.people : file.member[p] \subseteq file.projects

(* The participants a note gets are those of the moment the queue's thread
   began to read, though the editor's closing replaces the store meanwhile and
   a binding adds people to it: those the thread may fail on, never miss. *)
RosterWhole ==
    reader.on /\ reader.left = {} => reader.got = reader.roster

=============================================================================
