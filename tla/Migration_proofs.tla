-------------------------- MODULE Migration_proofs --------------------------
(***************************************************************************)
(* What the configuration and the folders guarantee for any providers,     *)
(* keys, threads and meetings, and any number of edits, faults and         *)
(* crashes - the changes of keys and of folders mixed in any way.          *)
(***************************************************************************)
EXTENDS Migration, FiniteSetTheorems, TLAPS

-----------------------------------------------------------------------------
(* Types *)

All == Meetings \cup NewMeetings
Texts == Keys \cup {NoKey}
Files == Confs \cup {Torn, NoFile}
Checks == [step : {"idle", "ask", "answer", "persist", "saving"}, row : Rows, key : Texts,
           slot : Slots \cup {Cloud}, moved : BOOLEAN]

SaveTyped ==
  /\ config \in Confs /\ file \in Files /\ tmp \in Files
  /\ save \in [Savers -> {"idle", "write", "replace"}]
  /\ onFile \subseteq {s \in Savers : save[s] = "write"}
  /\ shared \subseteq Savers /\ lone \subseteq Savers

CheckTyped ==
  /\ field \in [Rows -> Texts]
  /\ check \in [Threads -> Checks]

ConfTyped == SaveTyped /\ CheckTyped

FoldTyped ==
  /\ down \in {{}, {Other}}
  /\ dialog \in [kind : {"none", "first", "settings", "moving"}, src : Folders, dst : Folders]
  /\ mover \in [step : {"idle", "start", "move", "over", "dead"}, todo : SUBSET All, cancel : BOOLEAN]
  /\ queueDir \in Folders
  /\ left \subseteq All

(* What a start finds is a configuration. *)
LEMMA LoadedTyped ==
  ASSUME file \in Files
  PROVE  Loaded \in Confs
<1>1. Fresh \in Confs
  BY ConfigurationAssumption DEF Fresh, Confs
<1> QED
  BY <1>1 DEF Loaded, Files

(* What a step of the system is to the configuration. *)
ConfStep ==
  \/ Background \/ Handlers
  \/ \E f \in Folders \cup {NoFolder} : SetMeetings(f)
  \/ Restart
  \/ UNCHANGED <<config, file, tmp, save, onFile, shared, field, check, reader,
                 lone, holes, checked, strayed>>

(* Every step is one of those. *)
LEMMA ConfSteps == FoldTyped /\ [Next]_vars => ConfStep
<1> SUFFICES ASSUME FoldTyped, [Next]_vars PROVE ConfStep
  OBVIOUS
<1>1. ASSUME UNCHANGED confVars PROVE ConfStep
  BY <1>1 DEF confVars, ConfStep
<1>2. CASE Background \/ Handlers
  BY <1>2 DEF ConfStep
<1>3. ASSUME NEW d \in Folders, Pick(d) PROVE ConfStep
  BY <1>1, <1>3 DEF Pick, ConfStep
<1>4. CASE Reset
  BY <1>4 DEF Reset, ConfStep
<1>5. CASE Switch
  BY <1>5 DEF Switch, FoldTyped, ConfStep
<1>6. CASE Complete
  BY <1>6 DEF Complete, FoldTyped, ConfStep
<1>7. CASE Migrate \/ Later \/ Cancel \/ Plug
  BY <1>1, <1>7 DEF Migrate, Later, Cancel, Plug
<1>8. CASE MoverSteps
  <2>1. CASE StartMoving \/ Stop
    BY <1>1, <2>1 DEF StartMoving, Stop
  <2>2. CASE MoverDies
    BY <2>2 DEF MoverDies, ConfStep
  <2>3. ASSUME NEW m, Move(m) PROVE ConfStep
    BY <1>1, <2>3 DEF Move
  <2>4. ASSUME NEW m, MoveFails(m) PROVE ConfStep
    BY <2>4 DEF MoveFails, ConfStep
  <2> QED
    BY <1>8, <2>1, <2>2, <2>3, <2>4 DEF MoverSteps
<1>9. ASSUME NEW m \in NewMeetings, WriteMeeting(m) PROVE ConfStep
  BY <1>1, <1>9 DEF WriteMeeting
<1>10. CASE Unplug
  BY <1>10 DEF Unplug, ConfStep
<1>11. CASE RestartAll
  BY <1>11 DEF RestartAll, ConfStep
<1>12. CASE UNCHANGED vars
  BY <1>1, <1>12 DEF vars
<1> QED
  BY <1>2, <1>3, <1>4, <1>5, <1>6, <1>7, <1>8, <1>9, <1>10, <1>11, <1>12 DEF Next

Home(conf) == IF conf.meetings = NoFolder THEN Default ELSE conf.meetings

(* The folder found for a configuration is one of the three; a configured one that
   can be written is taken, and the default one can always be. *)
LEMMA DirFound ==
  ASSUME NEW conf \in Files, NEW off \in {{}, {Other}}
  PROVE  /\ MeetingsDir(conf, off) \in Folders
         /\ conf \in Confs => MeetingsDir(conf, off) \in {Home(conf), Default}
         /\ conf \in Confs /\ (off = {} \/ conf.meetings = NoFolder) => MeetingsDir(conf, off) = Home(conf)
<1> USE MigrationAssumption
<1>1. Default \notin off
  BY DEF Folders
<1>2. CASE conf \in {Torn, NoFile}
  BY <1>1, <1>2 DEF MeetingsDir, Folders
<1>3. CASE conf \in Confs
  <2>1. conf \notin {Torn, NoFile} /\ conf.meetings \in Folders \cup {NoFolder}
    BY <1>3 DEF Confs
  <2>2. Default \in Folders /\ Legacy \in Folders
    BY DEF Folders
  <2>3. CASE conf.meetings # NoFolder /\ conf.meetings \notin off
    <3>1. MeetingsDir(conf, off) = conf.meetings
      BY <1>1, <2>1, <2>3 DEF MeetingsDir
    <3>2. conf.meetings \in Folders /\ Home(conf) = conf.meetings
      BY <2>1, <2>3 DEF Home
    <3> QED
      BY <3>1, <3>2
  <2>4. CASE ~(conf.meetings # NoFolder /\ conf.meetings \notin off)
    <3>1. MeetingsDir(conf, off) = Default
      BY <1>1, <2>1, <2>4 DEF MeetingsDir
    <3> QED
      BY <2>2, <2>4, <3>1 DEF Home
  <2> QED
    BY <2>3, <2>4
<1> QED
  BY <1>2, <1>3 DEF Files

(* The folders keep their types. *)
LEMMA FoldTypedStep == ConfTyped /\ FoldTyped /\ [Next]_vars => FoldTyped'
<1> SUFFICES ASSUME ConfTyped, FoldTyped, [Next]_vars PROVE FoldTyped'
  OBVIOUS
<1> USE DEF FoldTyped
<1>1. Written \subseteq All /\ \A f : In(f) \subseteq All /\ Behind(f) \subseteq All
  BY DEF Written, In, Behind, All
<1>2. Default \in Folders /\ Legacy \in Folders /\ Other \in Folders
  BY DEF Folders
<1>3. file \in Files /\ config \in Files /\ Loaded \in Files
  BY LoadedTyped DEF ConfTyped, SaveTyped, Files
<1>4. ASSUME UNCHANGED foldVars PROVE FoldTyped'
  BY <1>4 DEF foldVars
<1>5. ASSUME NEW d \in Folders, Pick(d) PROVE FoldTyped'
  <2>1. Listed \in Folders
    BY <1>3, DirFound DEF Listed
  <2> QED
    BY <1>1, <1>5, <2>1 DEF Pick
<1>6. CASE Reset
  BY <1>1, <1>6 DEF Reset
<1>7. CASE Migrate
  BY <1>7 DEF Migrate, Asked, NoMover
<1>8. CASE Switch
  BY <1>1, <1>2, <1>8 DEF Switch, NoDialog
<1>9. CASE Later
  <2>1. dialog' = NoDialog /\ left' \subseteq left \cup In(dialog.src)
        /\ UNCHANGED <<down, mover, queueDir>>
    BY <1>9 DEF Later
  <2> QED
    BY <1>1, <1>2, <2>1 DEF NoDialog
<1>10. CASE Cancel
  BY <1>10 DEF Cancel
<1>11. CASE StartMoving \/ MoverDies
  <2>1. CASE StartMoving
    <3>1. In(dialog.src) \in SUBSET All
      BY <1>1
    <3> QED
      BY <2>1, <3>1 DEF StartMoving
  <2>2. CASE MoverDies
    BY <2>2 DEF MoverDies
  <2> QED
    BY <1>11, <2>1, <2>2
<1>12. CASE Stop
  BY <1>12 DEF Stop
<1>13. ASSUME NEW m \in mover.todo, Move(m) \/ MoveFails(m) PROVE FoldTyped'
  BY <1>13 DEF Move, MoveFails
<1>14. CASE Complete
  BY <1>2, <1>14 DEF Complete, NoDialog, NoMover
<1>15. ASSUME NEW m \in NewMeetings, WriteMeeting(m) PROVE FoldTyped'
  BY <1>15 DEF WriteMeeting, All
<1>16. CASE Unplug \/ Plug
  BY <1>16 DEF Unplug, Plug
<1>17. CASE RestartAll
  <2>1. queueDir' \in Folders
    BY <1>3, <1>17, DirFound DEF RestartAll
  <2>2. Offer(Loaded) \in [kind : {"none", "first", "settings", "moving"}, src : Folders, dst : Folders]
    BY <1>2, <1>3, DirFound DEF Offer, NoDialog
  <2> QED
    BY <1>1, <1>17, <2>1, <2>2 DEF RestartAll, NoMover
<1> QED
  BY <1>4, <1>5, <1>6, <1>7, <1>8, <1>9, <1>10, <1>11, <1>12, <1>13, <1>14, <1>15, <1>16, <1>17
     DEF Next, MoverSteps, vars, foldVars

-----------------------------------------------------------------------------
(* The file *)

(* A saver whom nobody joined is the only one, has a temporary file of its own
   and leaves there what the window shows; if savers ever were two, "overlapped"
   says so until one who is alone has replaced the file. *)
SaveInv ==
  /\ \A s \in lone : save[s] # "idle" => Active = {s}
  /\ \A s \in Active : s \in lone \/ "overlapped" \in holes
  /\ \A s \in lone : save[s] = "write" => s \notin onFile \cup shared
  /\ \A s \in lone : save[s] = "replace" => tmp = config
  /\ holes = {} /\ Active = {} => file = config
  /\ FileWhole

(* All that happens to the saved configuration, whoever acts. *)
Saving ==
  \/ UNCHANGED <<config, file, tmp, save, onFile, shared, lone, holes>>
  \/ \E s \in Savers : Dump(s) \/ Replace(s) \/ SaveFails(s)
  \/ \E s \in Savers, conf \in Confs : BeginSave(s, conf)
  \/ Quarantine
  \/ Restart

(* What a thread stores is a key, in a slot. *)
LEMMA StoredTyped ==
  ASSUME ConfTyped, NEW t \in Threads
  PROVE  /\ Stored(t) \in Texts /\ SlotOf(check[t].row) \in Slots
         /\ [config EXCEPT !.keys[SlotOf(check[t].row)] = Stored(t)] \in Confs
<1>1. check[t].row \in Rows /\ check[t].key \in Texts
  BY DEF ConfTyped, CheckTyped, Checks
<1>2. SlotOf(check[t].row) \in Slots /\ Stored(t) \in Texts
  BY <1>1 DEF SlotOf, Rows, Slots, Stored, ConfTyped, SaveTyped, CheckTyped, Confs
<1>3. config \in Confs
  BY DEF ConfTyped, SaveTyped
<1> QED
  BY <1>2, <1>3 DEF Confs, Texts

(* Every step is one of those. *)
LEMMA SavingSteps == ConfTyped /\ ConfStep => Saving
<1> SUFFICES ASSUME ConfTyped, ConfStep PROVE Saving
  OBVIOUS
<1>1. config \in Confs /\ Tk \in Savers
  BY DEF ConfTyped, SaveTyped, Savers
<1>2. ASSUME NEW s \in Savers, NEW conf \in Confs, BeginSave(s, conf) PROVE Saving
  BY <1>2 DEF Saving
<1>3. CASE SaveSteps
  BY <1>3 DEF SaveSteps, Saving
<1>4. ASSUME NEW t \in Threads, Persist(t) PROVE Saving
  BY <1>2, <1>4, StoredTyped DEF Persist, Savers
<1>5. ASSUME NEW t \in Threads, Ask(t) \/ Answer(t) \/ Finish(t) PROVE Saving
  BY <1>5 DEF Ask, Answer, Finish, Saving
<1>6. CASE ReadsBad \/ Quarantine
  BY <1>6 DEF ReadsBad, Saving
<1>7. ASSUME NEW t \in Threads, NEW r \in Rows, Validate(t, r) PROVE Saving
  BY <1>7 DEF Validate, Saving
<1>8. ASSUME NEW r \in Rows, NEW k \in Keys, Type(r, k) PROVE Saving
  BY <1>8 DEF Type, Saving
<1>9. ASSUME NEW p \in Providers, ChooseProvider(p) PROVE Saving
  <2>1. [config EXCEPT !.provider = p] \in Confs
    BY <1>1 DEF Confs
  <2> QED
    BY <1>1, <1>2, <1>9, <2>1 DEF ChooseProvider
<1>10. CASE ChangeOption
  BY <1>1, <1>2, <1>10 DEF ChangeOption
<1>11. ASSUME NEW f \in Folders \cup {NoFolder}, SetMeetings(f) PROVE Saving
  <2>1. [config EXCEPT !.meetings = f] \in Confs
    BY <1>1 DEF Confs
  <2> QED
    BY <1>1, <1>2, <1>11, <2>1 DEF SetMeetings
<1>12. CASE Restart \/ UNCHANGED <<config, file, tmp, save, onFile, shared, lone, holes>>
  BY <1>12 DEF Saving
<1> QED
  BY <1>3, <1>4, <1>5, <1>6, <1>7, <1>8, <1>9, <1>10, <1>11, <1>12
     DEF ConfStep, Background, CheckSteps, Handlers

(* The types of the configuration are kept. *)
LEMMA ConfTypedStep == ConfTyped /\ ConfStep => ConfTyped'
<1> SUFFICES ASSUME ConfTyped, ConfStep PROVE ConfTyped'
  OBVIOUS
<1>1. SaveTyped'
  <2> USE DEF ConfTyped, SaveTyped, Files
  <2>1. CASE UNCHANGED <<config, file, tmp, save, onFile, shared, lone, holes>>
    BY <2>1
  <2>2. ASSUME NEW s \in Savers, Dump(s) PROVE SaveTyped'
    BY <2>2 DEF Dump
  <2>3. ASSUME NEW s \in Savers, Replace(s) PROVE SaveTyped'
    BY <2>3 DEF Replace
  <2>4. ASSUME NEW s \in Savers, SaveFails(s) PROVE SaveTyped'
    BY <2>4 DEF SaveFails
  <2>5. ASSUME NEW s \in Savers, NEW conf \in Confs, BeginSave(s, conf) PROVE SaveTyped'
    BY <2>5 DEF BeginSave, Active
  <2>6. CASE Quarantine
    BY <2>6 DEF Quarantine
  <2>7. CASE Restart
    BY <2>7, LoadedTyped DEF Restart
  <2> QED
    BY <2>1, <2>2, <2>3, <2>4, <2>5, <2>6, <2>7, SavingSteps DEF Saving
<1>2. CheckTyped'
  <2> USE DEF ConfTyped, CheckTyped
  <2>1. ASSUME UNCHANGED <<field, check>> PROVE CheckTyped'
    BY <2>1
  <2>2. ASSUME NEW rows PROVE Moved(rows) \in [Threads -> Checks]
    BY DEF Moved, Checks
  <2>3. ASSUME NEW s, SaveFails(s) \/ Dump(s) \/ Replace(s) PROVE CheckTyped'
    BY <2>1, <2>3 DEF Dump, Replace, SaveFails
  <2>4. ASSUME NEW t \in Threads, Ask(t) PROVE CheckTyped'
    <3>1. SlotOf(check[t].row) \in Slots
      BY StoredTyped
    <3> QED
      <4>1. (check[t].moved /\ check[t].row # Cloud) \in BOOLEAN
        BY DEF Checks
      <4>2. [check[t] EXCEPT !.step = "answer", !.slot = SlotOf(check[t].row),
                             !.moved = @ /\ check[t].row # Cloud] \in Checks
        BY <3>1, <4>1 DEF Checks
      <4> QED
        BY <2>4, <4>2 DEF Ask
  <2>5. ASSUME NEW t \in Threads, Answer(t) PROVE CheckTyped'
    <3>1. Resting \in Checks /\ [check[t] EXCEPT !.step = "persist"] \in Checks
      BY DEF Checks, Resting, Rows, Texts
    <3> QED
      BY <2>5, <3>1 DEF Answer
  <2>11. ASSUME NEW t \in Threads, Persist(t) \/ Finish(t) PROVE CheckTyped'
    <3>1. Resting \in Checks /\ [Resting EXCEPT !.step = "saving"] \in Checks
      BY DEF Checks, Resting, Rows, Texts
    <3> QED
      BY <2>11, <3>1 DEF Persist, Finish
  <2>6. ASSUME NEW t \in Threads, NEW r \in Rows, Validate(t, r) PROVE CheckTyped'
    BY <2>6 DEF Validate, Checks, Resting, Rows, Texts
  <2>7. ASSUME NEW r \in Rows, NEW k \in Keys, Type(r, k) PROVE CheckTyped'
    BY <2>2, <2>7 DEF Type, Texts
  <2>8. ASSUME NEW p \in Providers, ChooseProvider(p) PROVE CheckTyped'
    <3>1. config.keys[p] \in Texts
      BY DEF SaveTyped, Confs, Slots, Texts
    <3> QED
      BY <2>2, <2>8, <3>1 DEF ChooseProvider
  <2>9. CASE Restart
    <3>1. Loaded.keys \in [Slots -> Texts] /\ Loaded.provider \in Providers
      BY LoadedTyped DEF SaveTyped, Confs, Texts
    <3>2. field' \in [Rows -> Texts]
      BY <2>9, <3>1 DEF Restart, Rows, Slots
    <3> QED
      BY <2>9, <3>2 DEF Restart, Checks, Resting, Rows, Texts
  <2>10. CASE ReadsBad \/ Quarantine \/ ChangeOption \/ \E f \in Folders \cup {NoFolder} : SetMeetings(f)
    BY <2>1, <2>10 DEF ReadsBad, Quarantine, ChangeOption, SetMeetings
  <2> QED
    BY <2>1, <2>3, <2>4, <2>5, <2>6, <2>7, <2>8, <2>9, <2>10, <2>11
       DEF ConfStep, Background, SaveSteps, CheckSteps, Handlers
<1> QED
  BY <1>1, <1>2 DEF ConfTyped

(* The invariant of the saves is inductive. *)
LEMMA SaveInvStep == SaveTyped /\ SaveInv /\ Saving => SaveInv'
<1> SUFFICES ASSUME SaveTyped, SaveInv, Saving PROVE SaveInv'
  OBVIOUS
<1> USE DEF SaveInv, FileWhole, Active
<1>1. CASE UNCHANGED <<config, file, tmp, save, onFile, shared, lone, holes>>
  BY <1>1
<1>2. ASSUME NEW s \in Savers, Dump(s) PROVE SaveInv'
  <2>1. /\ save' = [save EXCEPT ![s] = "replace"] /\ save[s] = "write"
        /\ onFile' = onFile \ {s}
        /\ UNCHANGED <<config, shared, lone, holes>>
    BY <1>2 DEF Dump
  <2>2. save' \in [Savers -> {"idle", "write", "replace"}]
    BY <2>1 DEF SaveTyped
  <2>3. Active' = Active
    BY <2>1 DEF SaveTyped
  <2>4. s \in lone => tmp' = config /\ UNCHANGED file
    BY <1>2, <2>1 DEF Dump
  <2>5. \A o \in lone : o # s /\ save[o] # "idle" => o \notin Active
    BY <2>1 DEF SaveTyped
  <2>6. s \notin lone => "overlapped" \in holes
    BY <2>1
  <2>7. (\A o \in lone : save[o] # "idle" => Active = {o})'
    BY <2>1, <2>3 DEF SaveTyped
  <2>8. (\A o \in Active : o \in lone \/ "overlapped" \in holes)'
    BY <2>1, <2>3
  <2>9. (\A o \in lone : save[o] = "write" => o \notin onFile \cup shared)'
    BY <2>1 DEF SaveTyped
  <2>10. (\A o \in lone : save[o] = "replace" => tmp = config)'
    BY <2>1, <2>4 DEF SaveTyped
  <2>11. (holes = {} /\ Active = {} => file = config)' /\ FileWhole'
    BY <2>1, <2>3, <2>4, <2>6 DEF SaveTyped
  <2> QED
    BY <2>7, <2>8, <2>9, <2>10, <2>11
<1>3. ASSUME NEW s \in Savers, Replace(s) PROVE SaveInv'
  <2>1. /\ save[s] = "replace" /\ save' = [save EXCEPT ![s] = "idle"]
        /\ file' = tmp
        /\ onFile' = onFile \cup {o \in Savers \ {s} : save[o] = "write"}
        /\ holes' = IF s \in lone THEN {} ELSE holes
        /\ UNCHANGED <<config, shared, lone>>
    BY <1>3 DEF Replace
  <2>2. Active' = Active \ {s} /\ s \in Active
    BY <2>1 DEF SaveTyped
  <2>3. CASE s \in lone
    <3>1. Active' = {} /\ file' = config /\ config # Torn
      BY <2>1, <2>2, <2>3, MigrationAssumption DEF SaveTyped
    <3> QED
      BY <2>1, <3>1 DEF SaveTyped
  <2>4. CASE s \notin lone
    <3>1. "overlapped" \in holes /\ lone \cap Active = {}
      BY <2>1, <2>2, <2>4
    <3>2. \A o \in lone : save'[o] = "idle"
      BY <2>1, <2>4, <3>1 DEF SaveTyped
    <3> QED
      BY <2>1, <2>2, <2>4, <3>1, <3>2 DEF SaveTyped
  <2> QED
    BY <2>3, <2>4
<1>4. ASSUME NEW s \in Savers, SaveFails(s) PROVE SaveInv'
  BY <1>4 DEF SaveFails, SaveTyped
<1>5. ASSUME NEW s \in Savers, NEW conf \in Confs, BeginSave(s, conf) PROVE SaveInv'
  BY <1>5 DEF BeginSave, SaveTyped
<1>6. CASE Quarantine
  BY <1>6, ConfigurationAssumption DEF Quarantine
<1>7. CASE Restart
  <2>1. config' = file' /\ file' # Torn /\ lone' = {} /\ Active' = {}
    BY <1>7, LoadedTyped, MigrationAssumption DEF Restart, SaveTyped
  <2> QED
    BY <2>1
<1> QED
  BY <1>1, <1>2, <1>3, <1>4, <1>5, <1>6, <1>7 DEF Saving

-----------------------------------------------------------------------------
(* The keys *)

Known(conf, ok) == \A s \in Slots : conf.keys[s] # NoKey => <<s, conf.keys[s]>> \in ok

(* Keys come back from the file, and from a temporary file through it; what a
   thread is about to store was accepted for the slot it will be stored in, unless
   something moved. *)
FilesKnown ==
  /\ Known(config, checked \cup strayed)
  /\ file \in Confs => Known(file, checked \cup strayed)
  /\ tmp \in Confs => Known(tmp, checked \cup strayed)

ChecksKnown ==
  \A t \in Threads :
    LET c == check[t]
    IN  /\ c.step = "persist" => <<c.slot, c.key>> \in checked
        /\ c.step \in {"ask", "answer", "persist"} /\ ~c.moved /\ c.row \in Pairs => field[c.row] = c.key
        /\ c.step \in {"answer", "persist"} /\ ~c.moved => c.slot = SlotOf(c.row)

KeyInv == FilesKnown /\ ChecksKnown

(* What lies in the two files comes from the window, or from the other file. *)
LEMMA TextsMove ==
  ConfTyped /\ ConfStep => /\ file' \in {file, tmp, config, Torn, NoFile, Fresh}
                           /\ tmp' \in {tmp, config, Torn, NoFile}
<1> SUFFICES ASSUME ConfTyped, ConfStep
             PROVE  /\ file' \in {file, tmp, config, Torn, NoFile, Fresh}
                    /\ tmp' \in {tmp, config, Torn, NoFile}
  OBVIOUS
<1>1. CASE UNCHANGED <<config, file, tmp, save, onFile, shared, lone, holes>>
  BY <1>1
<1>2. ASSUME NEW s \in Savers, Dump(s) \/ Replace(s) \/ SaveFails(s)
      PROVE  /\ file' \in {file, tmp, config, Torn, NoFile, Fresh}
             /\ tmp' \in {tmp, config, Torn, NoFile}
  BY <1>2 DEF Dump, Replace, SaveFails
<1>3. CASE Quarantine \/ \E s \in Savers, conf \in Confs : BeginSave(s, conf)
  BY <1>3 DEF Quarantine, BeginSave
<1>4. CASE Restart
  BY <1>4 DEF Restart, Loaded
<1> QED
  BY <1>1, <1>2, <1>3, <1>4, SavingSteps DEF Saving

(* The invariant of the keys is inductive. *)
LEMMA KeyInvStep == ConfTyped /\ KeyInv /\ ConfStep => KeyInv'
<1> SUFFICES ASSUME ConfTyped, KeyInv, ConfStep PROVE KeyInv'
  OBVIOUS
<1> USE ConfigurationAssumption, MigrationAssumption
<1>1. ASSUME checked \subseteq checked', strayed \subseteq strayed',
             config' \in Confs, Known(config', checked' \cup strayed') PROVE FilesKnown'
  <2>1. ASSUME NEW conf, Known(conf, checked \cup strayed) PROVE Known(conf, checked' \cup strayed')
    BY <1>1, <2>1 DEF Known
  <2>2. Known(Fresh, checked' \cup strayed')
    BY DEF Known, Fresh
  <2>3. Known(config, checked' \cup strayed')
    BY <2>1 DEF KeyInv, FilesKnown
  <2> QED
    BY <1>1, <2>1, <2>2, <2>3, TextsMove DEF KeyInv, FilesKnown
<1>2. ASSUME config'.keys = config.keys, config' \in Confs, UNCHANGED <<checked, strayed>>
      PROVE FilesKnown'
  BY <1>1, <1>2 DEF KeyInv, FilesKnown, Known
<1>3. ASSUME config'.keys = config.keys, config' \in Confs, config'.provider = config.provider,
             UNCHANGED <<checked, strayed, field, check>>
      PROVE KeyInv'
  BY <1>2, <1>3 DEF KeyInv, ChecksKnown, SlotOf
<1>4. config' \in Confs
  BY ConfTypedStep DEF ConfTyped, SaveTyped
<1>5. config \in Confs /\ check \in [Threads -> Checks] /\ field \in [Rows -> Texts]
  BY DEF ConfTyped, SaveTyped, CheckTyped
<1>6. ASSUME NEW s, SaveFails(s) \/ Dump(s) \/ Replace(s) PROVE KeyInv'
  BY <1>3, <1>4, <1>6 DEF Dump, Replace, SaveFails
<1>7. CASE ReadsBad \/ Quarantine
  BY <1>3, <1>4, <1>7 DEF ReadsBad, Quarantine
<1>8. CASE ChangeOption
  BY <1>3, <1>4, <1>8 DEF ChangeOption, BeginSave
<1>9. ASSUME NEW f \in Folders \cup {NoFolder}, SetMeetings(f) PROVE KeyInv'
  <2>1. config' = [config EXCEPT !.meetings = f]
    BY <1>9 DEF SetMeetings, BeginSave
  <2>2. config'.keys = config.keys /\ config'.provider = config.provider
    BY <1>5, <2>1 DEF Confs
  <2> QED
    BY <1>3, <1>4, <1>9, <2>2 DEF SetMeetings
<1>10. ASSUME NEW r \in Rows, NEW k \in Keys, Type(r, k) PROVE KeyInv'
  <2>1. FilesKnown'
    BY <1>2, <1>4, <1>10 DEF Type
  <2>2. UNCHANGED <<config, checked>> /\ field' = [field EXCEPT ![r] = k] /\ check' = Moved({r} \cap Pairs)
    BY <1>10 DEF Type
  <2>3. ChecksKnown'
    BY <1>5, <2>2 DEF KeyInv, ChecksKnown, Moved, SlotOf, Checks
  <2> QED
    BY <2>1, <2>3 DEF KeyInv
<1>11. ASSUME NEW p \in Providers, ChooseProvider(p) PROVE KeyInv'
  <2>1. /\ config' = [config EXCEPT !.provider = p] /\ UNCHANGED <<checked, strayed>>
        /\ field' = [field EXCEPT ![Cloud] = config.keys[p]] /\ check' = Moved({Cloud})
    BY <1>11 DEF ChooseProvider, BeginSave
  <2>2. config'.keys = config.keys
    BY <1>5, <2>1 DEF Confs
  <2>3. ChecksKnown'
    BY <1>5, <2>1 DEF KeyInv, ChecksKnown, Moved, SlotOf, Checks
  <2> QED
    BY <1>2, <1>4, <2>1, <2>2, <2>3 DEF KeyInv
<1>12. ASSUME NEW t \in Threads, NEW r \in Rows, Validate(t, r) PROVE KeyInv'
  <2>1. FilesKnown'
    BY <1>2, <1>4, <1>12 DEF Validate
  <2>2. /\ check' = [check EXCEPT ![t] = [Resting EXCEPT !.step = "ask", !.row = r, !.key = field[r]]]
        /\ UNCHANGED <<config, checked, field>>
    BY <1>12 DEF Validate
  <2>3. ChecksKnown'
    BY <1>5, <2>2 DEF KeyInv, ChecksKnown, Resting, SlotOf
  <2> QED
    BY <2>1, <2>3 DEF KeyInv
<1>13. ASSUME NEW t \in Threads, Ask(t) PROVE KeyInv'
  <2>1. FilesKnown'
    BY <1>2, <1>4, <1>13 DEF Ask
  <2>2. check[t].step = "ask" /\ UNCHANGED <<config, checked, field>>
    BY <1>13 DEF Ask
  <2>3. \A o \in Threads : o # t => check'[o] = check[o]
    BY <1>5, <1>13 DEF Ask
  <2>4. /\ check'[t].step = "answer" /\ check'[t].row = check[t].row /\ check'[t].key = check[t].key
        /\ check'[t].slot = SlotOf(check[t].row)
    BY <1>5, <1>13 DEF Ask, Checks
  <2>5. ~check'[t].moved /\ check[t].row \in Pairs => ~check[t].moved
    BY <1>5, <1>13 DEF Ask, Checks
  <2>6. ChecksKnown'
    BY <2>2, <2>3, <2>4, <2>5 DEF KeyInv, ChecksKnown, SlotOf
  <2> QED
    BY <2>1, <2>6 DEF KeyInv
<1>14. ASSUME NEW t \in Threads, Answer(t) PROVE KeyInv'
  <2>1. UNCHANGED <<config, file, tmp, field, strayed>> /\ checked \subseteq checked'
    BY <1>14 DEF Answer
  <2>2. FilesKnown'
    BY <1>1, <1>4, <2>1 DEF KeyInv, FilesKnown, Known
  <2>3. CASE check' = [check EXCEPT ![t] = Resting] /\ UNCHANGED checked
    BY <1>5, <2>1, <2>2, <2>3 DEF KeyInv, ChecksKnown, Resting, SlotOf
  <2>4. CASE /\ check' = [check EXCEPT ![t].step = "persist"]
             /\ checked' = checked \cup {<<check[t].slot, check[t].key>>}
    <3>1. ChecksKnown'
      BY <1>5, <1>14, <2>1, <2>4 DEF KeyInv, ChecksKnown, Checks, SlotOf, Answer
    <3> QED
      BY <2>2, <3>1 DEF KeyInv
  <2> QED
    BY <1>14, <2>3, <2>4 DEF Answer
<1>15. ASSUME NEW t \in Threads, Persist(t) PROVE KeyInv'
  <2> DEFINE slot == SlotOf(check[t].row)
  <2>1. /\ config' = [config EXCEPT !.keys[slot] = Stored(t)]
        /\ strayed' = IF check[t].moved THEN strayed \cup {<<slot, Stored(t)>>} ELSE strayed
        /\ check' = [check EXCEPT ![t] = [Resting EXCEPT !.step = "saving"]]
        /\ UNCHANGED <<field, checked>>
    BY <1>15 DEF Persist, BeginSave
  <2>2. <<slot, Stored(t)>> \in checked' \cup strayed'
    <3>1. CASE check[t].moved
      BY <2>1, <3>1
    <3>2. CASE ~check[t].moved
      <4>1. check[t].slot = slot /\ <<check[t].slot, check[t].key>> \in checked
        BY <1>15, <3>2 DEF Persist, KeyInv, ChecksKnown
      <4>2. Stored(t) = check[t].key
        BY <1>15, <3>2 DEF Persist, KeyInv, ChecksKnown, Stored
      <4> QED
        BY <2>1, <4>1, <4>2
    <3> QED
      BY <3>1, <3>2
  <2>3. config'.keys = [config.keys EXCEPT ![slot] = Stored(t)] /\ config'.provider = config.provider
    BY <1>5, <2>1 DEF Confs
  <2>4. config.keys \in [Slots -> Texts] /\ slot \in Slots
    BY <1>5, StoredTyped DEF Confs, Texts
  <2>5. Known(config', checked' \cup strayed')
    BY <2>1, <2>2, <2>3, <2>4 DEF KeyInv, FilesKnown, Known
  <2>6. FilesKnown'
    BY <1>1, <1>4, <2>1, <2>5
  <2>7. ChecksKnown'
    BY <1>5, <2>1, <2>3 DEF KeyInv, ChecksKnown, Resting, SlotOf
  <2> QED
    BY <2>6, <2>7 DEF KeyInv
<1>16. ASSUME NEW t \in Threads, Finish(t) PROVE KeyInv'
  <2>1. FilesKnown'
    BY <1>2, <1>4, <1>16 DEF Finish
  <2>2. ChecksKnown'
    BY <1>5, <1>16 DEF Finish, KeyInv, ChecksKnown, Resting, SlotOf
  <2> QED
    BY <2>1, <2>2 DEF KeyInv
<1>17. CASE Restart
  <2>1. config' = Loaded /\ check' = [t \in Threads |-> Resting] /\ UNCHANGED <<checked, strayed>>
    BY <1>17 DEF Restart
  <2>2. Known(Loaded, checked \cup strayed)
    BY DEF Loaded, Fresh, Known, KeyInv, FilesKnown, ConfTyped, SaveTyped, Files
  <2>3. FilesKnown'
    BY <1>1, <1>4, <2>1, <2>2
  <2>4. ChecksKnown'
    BY <2>1 DEF ChecksKnown, Resting
  <2> QED
    BY <2>3, <2>4 DEF KeyInv
<1>18. CASE UNCHANGED <<config, file, tmp, field, check, checked, strayed>>
  BY <1>3, <1>4, <1>18
<1> QED
  BY <1>6, <1>7, <1>8, <1>9, <1>10, <1>11, <1>12, <1>13, <1>14, <1>15, <1>16, <1>17, <1>18
     DEF ConfStep, Background, SaveSteps, CheckSteps, Handlers
ConfInv == ConfTyped /\ FoldTyped /\ SaveInv /\ KeyInv

(* The invariants of the configuration hold from the start. *)
LEMMA ConfInvInit == Init => ConfInv
<1> SUFFICES ASSUME Init PROVE ConfInv
  OBVIOUS
<1> USE DEF Init, ConfInit
<1>1. Fresh \in Confs
  BY ConfigurationAssumption DEF Fresh, Confs
<1>2. SaveTyped
  BY <1>1 DEF SaveTyped, Files
<1>3. CheckTyped
  BY DEF CheckTyped, Checks, Resting, Rows, Texts
<1>4. FoldTyped
  BY DEF FoldTyped, Folders, NoMover
<1>5. SaveInv
  <2>1. Active = {} /\ file # Torn
    BY <1>1, MigrationAssumption DEF Active
  <2> QED
    BY <2>1 DEF SaveInv, FileWhole
<1>6. KeyInv
  <2>1. tmp \notin Confs
    BY MigrationAssumption
  <2> QED
    BY <2>1 DEF KeyInv, FilesKnown, ChecksKnown, Known, Fresh, Resting
<1> QED
  BY <1>2, <1>3, <1>4, <1>5, <1>6 DEF ConfInv, ConfTyped

(* They are an invariant of the system. *)
LEMMA ConfInvariant == Spec => []ConfInv
<1>1. ConfInv /\ [Next]_vars => ConfInv'
  BY ConfSteps, ConfTypedStep, FoldTypedStep, SavingSteps, SaveInvStep, KeyInvStep DEF ConfInv, ConfTyped
<1> QED
  BY <1>1, ConfInvInit, PTL DEF Spec

(* config.json never holds half a configuration but after two saves at once; and
   when no save is under way it holds what the window shows, unless a save failed,
   ran into another or the reader moved the file aside, and none has succeeded alone
   since. *)
THEOREM FileIsRight == Spec => []FileRight
<1>1. ConfInv => FileRight
  BY DEF ConfInv, SaveInv, FileRight, SettingsKept, Settled
<1> QED
  BY <1>1, ConfInvariant, PTL

(* A key lies only in the slot of the service that accepted it, unless the field or
   the dropdown was changed while the answer was awaited. *)
THEOREM KeysOfSlots == Spec => []KeyOfSlot
<1>1. ConfInv => KeyOfSlot
  BY DEF ConfInv, KeyInv, FilesKnown, Known, KeyOfSlot
<1> QED
  BY <1>1, ConfInvariant, PTL

-----------------------------------------------------------------------------
(* The meetings *)

(* Every meeting is in one place, and in no place of another. *)
PlaceInv ==
  /\ DOMAIN at = All /\ DOMAIN rest = All
  /\ \A m \in All : \A p, q \in at[m] : p = q
  /\ \A m \in Meetings : at[m] # {}
  /\ \A m, n \in All : m # n => at[m] \cap (at[n] \cup rest[n]) = {}

(* The meetings that are somewhere, those in a folder, and those the list has to show. *)
Laid(spots) == {m \in All : spots[m] # {}}
Lying(spots, f) == {m \in All : \E spot \in spots[m] : spot[1] = f}
Here == Laid(at) \ left

DialogInv ==
  /\ mover.step = "idle" <=> dialog.kind # "moving"
  /\ dialog.kind # "none" => dialog.src # dialog.dst
  /\ dialog.kind = "first" => dialog.src = Legacy /\ dialog.dst = Default /\ config.meetings = NoFolder
  /\ mover.step = "move" => mover.todo \subseteq Lying(at, dialog.src)

(* Where the meetings are that the list has to show.  Before anything moves they are
   in the folder that the configuration names, and after the first start in the old
   one too.  While they are moved they are in the source or the target, what is
   done is in the target, and a source that is not the folder of the configuration
   has none of them. *)
ListInv ==
  /\ dialog.kind \in {"none", "settings"} => Here \subseteq Lying(at, Home(config))
  /\ dialog.kind = "first" => Here \subseteq Lying(at, Legacy) \cup Lying(at, Home(config))
  /\ dialog.kind \in {"settings", "moving"} => Here \subseteq Lying(at, dialog.src) \cup Lying(at, dialog.dst)
  /\ mover.step = "move" => Here \subseteq mover.todo \cup Lying(at, dialog.dst)
  /\ mover.step = "over" => Here \subseteq Lying(at, dialog.dst)
  /\ dialog.kind = "moving" =>
       \/ Here \cap Lying(at, dialog.src) = {}
       \/ dialog.src = Home(config)
       \/ dialog.src = Legacy /\ config.meetings = NoFolder

(* The model's names for the two sets. *)
LEMMA Places == Written = Laid(at) /\ \A f : In(f) = Lying(at, f) /\ Behind(f) = Laid(at) \ Lying(at, f)
BY DEF Written, In, Behind, Laid, Lying, All

(* A meeting is in one folder. *)
LEMMA OneFolder ==
  ASSUME PlaceInv
  PROVE  /\ \A f, g : f # g => Lying(at, f) \cap Lying(at, g) = {}
         /\ \A f : Lying(at, f) \subseteq Laid(at)
BY DEF PlaceInv, Lying, Laid

(* A spot that is taken for a meeting is in the folder it was asked for. *)
LEMMA SpotInFolder == ASSUME NEW f, NEW name, NEW ending PROVE FreeSpot(f, name, ending)[1] = f
BY DEF FreeSpot

(* A meeting that is put at a free spot, and nowhere else, is in that folder now. *)
LEMMA PutAtSpot ==
  ASSUME DOMAIN at = All, NEW m \in All, NEW spot, at' = [at EXCEPT ![m] = {spot}]
  PROVE  /\ \A n : n \in Laid(at') <=> n = m \/ n \in Laid(at)
         /\ \A f, n : n \in Lying(at', f) <=> IF n = m THEN spot[1] = f ELSE n \in Lying(at, f)
BY DEF Laid, Lying

(* Whatever lay elsewhere is not disturbed by it. *)
LEMMA PlacedApart ==
  ASSUME PlaceInv, NEW m \in All, NEW spot, ~Taken(spot), at' = [at EXCEPT ![m] = {spot}],
         rest' = rest \/ \E p \in at[m] : rest' = [rest EXCEPT ![m] = @ \cup {p}]
  PROVE  PlaceInv'
<1>1. DOMAIN at' = All /\ DOMAIN rest' = All
  BY DEF PlaceInv
<1>2. \A n \in All : at'[n] = IF n = m THEN {spot} ELSE at[n]
  BY DEF PlaceInv
<1>3. \A n \in All : spot \notin at[n] \cup rest[n]
  BY DEF Taken, All
<1>4. \A n \in All : rest'[n] = rest[n] \/ (n = m /\ \E p \in at[m] : rest'[n] = rest[n] \cup {p})
  BY DEF PlaceInv
<1>5. ASSUME NEW n \in All, NEW o \in All, n # o PROVE at'[n] \cap (at'[o] \cup rest'[o]) = {}
  <2>1. at[n] \cap (at[o] \cup rest[o]) = {} /\ at[o] \cap (at[n] \cup rest[n]) = {}
    BY <1>5 DEF PlaceInv
  <2>2. CASE n = m
    BY <1>2, <1>3, <1>4, <1>5, <2>1, <2>2
  <2>3. CASE n # m /\ o # m
    BY <1>2, <1>4, <2>1, <2>3
  <2>4. CASE n # m /\ o = m
    BY <1>2, <1>3, <1>4, <2>1, <2>4
  <2> QED
    BY <2>2, <2>3, <2>4
<1>6. \A n \in All : \A p, q \in at'[n] : p = q
  BY <1>2 DEF PlaceInv
<1>7. \A n \in Meetings : at'[n] # {}
  BY <1>2 DEF PlaceInv, All
<1> QED
  BY <1>1, <1>5, <1>6, <1>7 DEF PlaceInv

(* The meeting that the mover takes next lies in the source, and only there. *)
LEMMA Departure ==
  ASSUME PlaceInv, DialogInv, FoldTyped, NEW m \in mover.todo, Moving(m)
  PROVE  /\ m \in All /\ From(m) \in at[m] /\ From(m)[1] = dialog.src
         /\ (at[m] \ {From(m)}) \cup {Target(m)} = {Target(m)}
         /\ Target(m)[1] = dialog.dst /\ ~Taken(Target(m))
<1>1. m \in All /\ m \in Lying(at, dialog.src)
  BY DEF Moving, DialogInv, FoldTyped
<1>2. From(m) \in at[m] /\ From(m)[1] = dialog.src
  BY <1>1 DEF From, Lying
<1>3. at[m] \ {From(m)} = {}
  BY <1>1, <1>2 DEF PlaceInv
<1>4. Target(m)[1] = dialog.dst /\ ~Taken(Target(m))
  BY SpotInFolder DEF Target, Moving
<1> QED
  BY <1>1, <1>2, <1>3, <1>4

(* A note goes to a place of its own in the queue's folder. *)
LEMMA Arrival ==
  ASSUME NEW m \in NewMeetings, WriteMeeting(m)
  PROVE  /\ m \in All /\ at[m] = {} /\ UNCHANGED rest
         /\ \E spot : spot[1] = queueDir /\ ~Taken(spot) /\ at' = [at EXCEPT ![m] = {spot}]
BY SpotInFolder DEF WriteMeeting, All

(* Steps that leave the meetings where they are. *)
LEMMA StayPut ==
  ASSUME [Next]_vars, ~\E m \in mover.todo : Move(m) \/ MoveFails(m), ~\E m \in NewMeetings : WriteMeeting(m)
  PROVE  UNCHANGED <<at, rest>>
<1>1. ASSUME UNCHANGED foldVars PROVE UNCHANGED <<at, rest>>
  BY <1>1 DEF foldVars
<1>2. ASSUME NEW d \in Folders, Pick(d) PROVE UNCHANGED <<at, rest>>
  BY <1>2 DEF Pick
<1>3. CASE Reset \/ Migrate \/ Switch \/ Later \/ Cancel
  BY <1>3 DEF Reset, Migrate, Switch, Later, Cancel
<1>4. CASE StartMoving \/ MoverDies \/ Stop \/ Complete
  BY <1>4 DEF StartMoving, MoverDies, Stop, Complete
<1>5. CASE Unplug \/ Plug \/ RestartAll
  BY <1>5 DEF Unplug, Plug, RestartAll
<1> QED
  BY <1>1, <1>2, <1>3, <1>4, <1>5 DEF Next, MoverSteps, vars, foldVars

(* Every step leaves each meeting in one place, and in no place of another. *)
LEMMA PlaceInvStep == PlaceInv /\ DialogInv /\ FoldTyped /\ [Next]_vars => PlaceInv'
<1> SUFFICES ASSUME PlaceInv, DialogInv, FoldTyped, [Next]_vars PROVE PlaceInv'
  OBVIOUS
<1>1. ASSUME NEW m \in mover.todo, Move(m) PROVE PlaceInv'
  <2>1. Moving(m) /\ UNCHANGED rest /\ at' = [at EXCEPT ![m] = (@ \ {From(m)}) \cup {Target(m)}]
    BY <1>1 DEF Move
  <2>2. m \in All /\ ~Taken(Target(m)) /\ at' = [at EXCEPT ![m] = {Target(m)}]
    BY <2>1, Departure
  <2> QED
    BY <2>1, <2>2, PlacedApart
<1>2. ASSUME NEW m \in mover.todo, MoveFails(m) PROVE PlaceInv'
  <2>1. Moving(m)
    BY <1>2 DEF MoveFails
  <2>2. m \in All /\ From(m) \in at[m] /\ ~Taken(Target(m))
    BY <2>1, Departure
  <2>3. CASE UNCHANGED <<at, rest>>
    BY <2>3 DEF PlaceInv
  <2>4. CASE rest' = [rest EXCEPT ![m] = @ \cup {Target(m)}] /\ UNCHANGED at
    <3>1. \A n \in All : Target(m) \notin at[n]
      BY <2>2 DEF Taken, All
    <3>2. \A n \in All : rest'[n] = IF n = m THEN rest[n] \cup {Target(m)} ELSE rest[n]
      BY <2>4 DEF PlaceInv
    <3> QED
      BY <2>4, <3>1, <3>2 DEF PlaceInv
  <2>5. CASE /\ at' = [at EXCEPT ![m] = (@ \ {From(m)}) \cup {Target(m)}]
             /\ rest' = [rest EXCEPT ![m] = @ \cup {From(m)}]
    <3>1. at' = [at EXCEPT ![m] = {Target(m)}]
      BY <2>1, <2>5, Departure
    <3> QED
      BY <2>2, <2>5, <3>1, PlacedApart
  <2> QED
    BY <1>2, <2>3, <2>4, <2>5 DEF MoveFails
<1>3. ASSUME NEW m \in NewMeetings, WriteMeeting(m) PROVE PlaceInv'
  BY <1>3, Arrival, PlacedApart
<1>4. CASE UNCHANGED <<at, rest>>
  BY <1>4 DEF PlaceInv
<1> QED
  BY <1>1, <1>2, <1>3, <1>4, StayPut

(* Saves, key checks and the other settings leave the chosen folder alone. *)
LEMMA FolderStays == ConfTyped /\ (Background \/ Handlers) => config'.meetings = config.meetings
<1> SUFFICES ASSUME ConfTyped, Background \/ Handlers PROVE config'.meetings = config.meetings
  OBVIOUS
<1>1. config \in Confs
  BY DEF ConfTyped, SaveTyped
<1>2. ASSUME NEW s, Dump(s) \/ Replace(s) \/ SaveFails(s) PROVE config'.meetings = config.meetings
  BY <1>2 DEF Dump, Replace, SaveFails
<1>3. ASSUME NEW t, Ask(t) \/ Answer(t) \/ Finish(t) PROVE config'.meetings = config.meetings
  BY <1>3 DEF Ask, Answer, Finish
<1>4. ASSUME NEW t, Persist(t) PROVE config'.meetings = config.meetings
  BY <1>1, <1>4 DEF Persist, BeginSave, Confs
<1>5. CASE ReadsBad \/ Quarantine \/ ChangeOption
  BY <1>5 DEF ReadsBad, Quarantine, ChangeOption, BeginSave
<1>6. ASSUME NEW t, NEW r, Validate(t, r) PROVE config'.meetings = config.meetings
  BY <1>6 DEF Validate
<1>7. ASSUME NEW r, NEW k, Type(r, k) PROVE config'.meetings = config.meetings
  BY <1>7 DEF Type
<1>8. ASSUME NEW p, ChooseProvider(p) PROVE config'.meetings = config.meetings
  BY <1>1, <1>8 DEF ChooseProvider, BeginSave, Confs
<1> QED
  BY <1>2, <1>3, <1>4, <1>5, <1>6, <1>7, <1>8 DEF Background, SaveSteps, CheckSteps, Handlers

(* Choosing a folder makes it the one where the list is to be. *)
LEMMA FolderSet ==
  ASSUME ConfTyped, NEW f \in Folders \cup {NoFolder}, SetMeetings(f)
  PROVE  /\ config'.meetings = f
         /\ f \in Folders => Home(config') = f
         /\ f = NoFolder => Home(config') = Default
<1>1. config' = [config EXCEPT !.meetings = f] /\ config \in Confs
  BY DEF SetMeetings, BeginSave, ConfTyped, SaveTyped
<1>2. config'.meetings = f
  BY <1>1 DEF Confs
<1> QED
  BY <1>2, MigrationAssumption DEF Home

(* As long as the window over the main one, the mover's work and the chosen folder
   are the same, a meeting less to show disturbs nothing. *)
LEMMA SameDialog ==
  ASSUME DialogInv, ListInv, UNCHANGED <<at, dialog>>, left \subseteq left',
         mover'.step = mover.step, mover'.todo = mover.todo, config'.meetings = config.meetings
  PROVE  DialogInv' /\ ListInv'
<1>1. Home(config') = Home(config)
  BY DEF Home
<1> QED
  BY <1>1 DEF DialogInv, ListInv, Here

FoldersInv == PlaceInv /\ DialogInv /\ ListInv

(* The picker and the reset of Settings. *)
LEMMA PickerStep ==
  ASSUME ConfTyped, FoldTyped, FoldersInv, Reset \/ \E d \in Folders : Pick(d)
  PROVE  DialogInv' /\ ListInv'
<1> USE DEF FoldersInv
<1>1. file \in Files /\ down \in {{}, {Other}}
  BY DEF ConfTyped, SaveTyped, FoldTyped
<1>2. ASSUME NEW d \in Folders, Pick(d) PROVE DialogInv' /\ ListInv'
  <2>1. UNCHANGED <<at, mover>> /\ dialog.kind = "none" /\ mover.step = "idle"
    BY <1>2 DEF Pick, Calm, DialogInv
  <2>2. CASE In(Listed) # {}
    <3>1. /\ dialog' = [kind |-> "settings", src |-> Listed, dst |-> d] /\ d # Listed
          /\ left' = left \cup (Laid(at) \ Lying(at, Listed)) /\ UNCHANGED config
      BY <1>2, <2>2, Places DEF Pick, confVars
    <3> QED
      BY <2>1, <3>1 DEF DialogInv, ListInv, Here
  <2>3. CASE In(Listed) = {}
    <3>1. /\ SetMeetings(d) /\ UNCHANGED dialog
          /\ left' = left \cup (Laid(at) \ Lying(at, d))
      BY <1>2, <2>3, Places DEF Pick
    <3>2. Home(config') = d
      BY <3>1, FolderSet
    <3> QED
      BY <2>1, <3>1, <3>2 DEF DialogInv, ListInv, Here
  <2> QED
    BY <2>2, <2>3
<1>3. CASE Reset
  <2>1. UNCHANGED <<at, mover, dialog>> /\ dialog.kind = "none" /\ mover.step = "idle" /\ SetMeetings(NoFolder)
    BY <1>3 DEF Reset, Calm, DialogInv
  <2>2. config'.meetings = NoFolder /\ Home(config') = Default
    BY <2>1, FolderSet
  <2>3. [config EXCEPT !.meetings = NoFolder] \in Confs /\ [config EXCEPT !.meetings = NoFolder].meetings = NoFolder
    BY DEF ConfTyped, SaveTyped, Confs
  <2>4. MeetingsDir([config EXCEPT !.meetings = NoFolder], down) = Default
    BY <1>1, <2>3, DirFound DEF Home, Files
  <2>5. left' = left \cup (Laid(at) \ Lying(at, Default))
    BY <1>3, <2>4, Places DEF Reset
  <2> QED
    BY <2>1, <2>2, <2>5 DEF DialogInv, ListInv, Here
<1> QED
  BY <1>2, <1>3

(* The answers to the offer. *)
LEMMA OfferStep ==
  ASSUME ConfTyped, FoldTyped, FoldersInv, Migrate \/ Switch \/ Later
  PROVE  DialogInv' /\ ListInv'
<1> USE DEF FoldersInv
<1>1. dialog.kind \in {"first", "settings"} /\ mover.step = "idle" /\ UNCHANGED at
  BY DEF Migrate, Switch, Later, Asked, DialogInv
<1>2. dialog.src \in Folders /\ dialog.dst \in Folders
  BY DEF FoldTyped
<1>3. CASE Migrate
  <2>1. /\ dialog'.kind = "moving" /\ dialog'.src = dialog.src /\ dialog'.dst = dialog.dst
        /\ mover'.step = "start" /\ UNCHANGED <<config, left>>
    BY <1>3 DEF Migrate, FoldTyped, NoMover, confVars
  <2>2. CASE dialog.kind = "first"
    BY <1>1, <2>1, <2>2 DEF DialogInv, ListInv, Here, Home
  <2>3. CASE dialog.kind = "settings"
    BY <1>1, <2>1, <2>3, OneFolder DEF DialogInv, ListInv, Here
  <2> QED
    BY <1>1, <2>2, <2>3
<1>4. CASE Switch
  <2> DEFINE f == IF dialog.kind = "first" THEN dialog.src ELSE dialog.dst
  <2>1. /\ SetMeetings(f) /\ dialog' = NoDialog /\ UNCHANGED mover
        /\ left' = left \cup (Laid(at) \ Lying(at, f))
    BY <1>4, Places DEF Switch
  <2>2. Home(config') = f
    BY <1>2, <2>1, FolderSet
  <2> QED
    BY <1>1, <2>1, <2>2 DEF NoDialog, DialogInv, ListInv, Here
<1>5. CASE Later
  <2>1. dialog' = NoDialog /\ UNCHANGED <<config, mover>>
    BY <1>5 DEF Later, confVars
  <2>2. left' = IF dialog.kind = "first" THEN left \cup Lying(at, dialog.src) ELSE left
    BY <1>5, Places DEF Later
  <2> QED
    BY <1>1, <2>1, <2>2 DEF NoDialog, DialogInv, ListInv, Here
<1> QED
  BY <1>3, <1>4, <1>5

(* The mover lists the source, dies over it, stops, or is answered by the window. *)
LEMMA MoverStep ==
  ASSUME ConfTyped, FoldTyped, FoldersInv, StartMoving \/ MoverDies \/ Stop \/ Complete
  PROVE  DialogInv' /\ ListInv'
<1> USE DEF FoldersInv
<1>1. dialog.kind = "moving" /\ UNCHANGED at /\ dialog.dst \in Folders
  BY DEF StartMoving, MoverDies, Stop, Complete, DialogInv, FoldTyped
<1>2. CASE StartMoving
  <2>1. /\ mover'.step = "move" /\ mover'.todo = Lying(at, dialog.src) /\ UNCHANGED <<config, dialog, left>>
    BY <1>2, Places DEF StartMoving, FoldTyped, confVars
  <2> QED
    BY <1>1, <2>1 DEF DialogInv, ListInv, Here
<1>3. CASE MoverDies
  <2>1. mover'.step = "dead" /\ UNCHANGED <<config, dialog, left>>
    BY <1>3 DEF MoverDies, FoldTyped
  <2> QED
    BY <1>1, <2>1 DEF DialogInv, ListInv, Here
<1>4. CASE Stop
  <2>1. mover.step = "move" /\ mover'.step = "over" /\ left' = left \cup mover.todo /\ UNCHANGED <<config, dialog>>
    BY <1>4 DEF Stop, FoldTyped, confVars
  <2> QED
    BY <1>1, <2>1 DEF DialogInv, ListInv, Here
<1>5. CASE Complete
  <2>1. /\ mover.step = "over" /\ SetMeetings(dialog.dst) /\ dialog' = NoDialog
        /\ mover' = NoMover /\ UNCHANGED left
    BY <1>5 DEF Complete
  <2>2. Home(config') = dialog.dst
    BY <1>1, <2>1, FolderSet
  <2> QED
    BY <1>1, <2>1, <2>2 DEF NoDialog, NoMover, DialogInv, ListInv, Here
<1> QED
  BY <1>2, <1>3, <1>4, <1>5

(* One meeting is moved, or not. *)
LEMMA MoveStep ==
  ASSUME FoldTyped, FoldersInv, NEW m \in mover.todo, Move(m) \/ MoveFails(m)
  PROVE  DialogInv' /\ ListInv'
<1> USE DEF FoldersInv
<1>1. /\ Moving(m) /\ mover.step = "move" /\ dialog.kind = "moving" /\ UNCHANGED <<config, dialog>>
      /\ mover'.step = "move" /\ mover'.todo = mover.todo \ {m}
  BY DEF Move, MoveFails, Moving, FoldTyped, DialogInv, confVars
<1>2. m \in All /\ m \in Lying(at, dialog.src) /\ m \in Laid(at) /\ dialog.src # dialog.dst
  BY <1>1, OneFolder DEF DialogInv, FoldTyped
<1>3. CASE UNCHANGED at /\ left' = left \cup {m}
  BY <1>1, <1>2, <1>3, OneFolder DEF DialogInv, ListInv, Here
<1>4. CASE at' = [at EXCEPT ![m] = (@ \ {From(m)}) \cup {Target(m)}] /\ UNCHANGED left
  <2>1. at' = [at EXCEPT ![m] = {Target(m)}] /\ Target(m)[1] = dialog.dst /\ DOMAIN at = All
    BY <1>1, <1>4, Departure DEF PlaceInv
  <2>2. /\ \A n : n \in Laid(at') <=> n = m \/ n \in Laid(at)
        /\ \A f, n : n \in Lying(at', f) <=> IF n = m THEN dialog.dst = f ELSE n \in Lying(at, f)
    BY <1>2, <2>1, PutAtSpot
  <2>3. Laid(at') = Laid(at)
    BY <1>2, <2>2
  <2>4. /\ Lying(at', dialog.src) = Lying(at, dialog.src) \ {m}
        /\ Lying(at', dialog.dst) = Lying(at, dialog.dst) \cup {m}
    BY <1>2, <2>2
  <2> QED
    BY <1>1, <1>2, <1>4, <2>3, <2>4 DEF DialogInv, ListInv, Here
<1> QED
  BY <1>3, <1>4 DEF Move, MoveFails

(* The queue writes a note.  Unless it is counted as left elsewhere, the queue's folder
   is the one of the list, and no move out of it has begun. *)
LEMMA NoteStep ==
  ASSUME ConfTyped, FoldTyped, FoldersInv, NEW m \in NewMeetings, WriteMeeting(m)
  PROVE  DialogInv' /\ ListInv'
<1> USE DEF FoldersInv
<1>1. UNCHANGED <<config, dialog, mover>> /\ m \in All /\ at[m] = {} /\ left \subseteq left'
  BY Arrival DEF WriteMeeting, confVars
<1>2. PICK spot : spot[1] = queueDir /\ at' = [at EXCEPT ![m] = {spot}]
  BY Arrival
<1>3. m \notin Laid(at) /\ \A f : m \notin Lying(at, f)
  BY <1>1 DEF Laid, Lying
<1>4. /\ \A n : n \in Laid(at') <=> n = m \/ n \in Laid(at)
      /\ \A f, n : n \in Lying(at', f) <=> (n = m /\ queueDir = f) \/ n \in Lying(at, f)
  <2>1. /\ \A n : n \in Laid(at') <=> n = m \/ n \in Laid(at)
        /\ \A f, n : n \in Lying(at', f) <=> IF n = m THEN spot[1] = f ELSE n \in Lying(at, f)
    BY <1>1, <1>2, PutAtSpot DEF PlaceInv
  <2> QED
    BY <1>2, <1>3, <2>1
<1>5. m \in left' \/ /\ left' = left /\ queueDir = MeetingsDir(config, {})
                     /\ \/ dialog.kind = "none" \/ queueDir = dialog.dst
                        \/ queueDir = dialog.src /\ mover.step \in {"idle", "start"}
  BY DEF WriteMeeting
<1>6. MeetingsDir(config, {}) = Home(config)
  BY DirFound DEF ConfTyped, SaveTyped, Files
<1>7. \A f : Lying(at, f) \subseteq Lying(at', f)
  BY <1>4
<1>8. CASE m \in left'
  <2>1. Here' \subseteq Here
    BY <1>1, <1>4, <1>8 DEF Here
  <2>2. Here' \cap Lying(at', dialog.src) \subseteq Here \cap Lying(at, dialog.src)
    BY <1>4, <1>8, <2>1 DEF Here
  <2> QED
    BY <1>1, <1>7, <2>1, <2>2 DEF DialogInv, ListInv
<1>9. CASE /\ left' = left /\ queueDir = Home(config)
           /\ \/ dialog.kind = "none" \/ queueDir = dialog.dst
              \/ queueDir = dialog.src /\ mover.step \in {"idle", "start"}
  <2>1. Here' \subseteq Here \cup {m} /\ m \in Lying(at', Home(config))
    BY <1>4, <1>9 DEF Here
  <2>2. DialogInv'
    BY <1>1, <1>7 DEF DialogInv
  <2>3. CASE dialog.kind = "none"
    BY <1>1, <1>7, <2>1, <2>2, <2>3 DEF DialogInv, ListInv
  <2>4. CASE dialog.kind # "none" /\ queueDir = dialog.dst
    <3>1. dialog.src # dialog.dst
      BY <2>4 DEF DialogInv
    <3>2. \A n : n \in Lying(at', dialog.src) <=> n \in Lying(at, dialog.src)
      BY <1>4, <2>4, <3>1
    <3>3. m \in Lying(at', dialog.dst)
      BY <1>4, <2>4
    <3>4. Here' \cap Lying(at', dialog.src) = Here \cap Lying(at, dialog.src)
      BY <1>3, <1>4, <1>9, <3>1, <3>2 DEF Here
    <3> QED
      BY <1>1, <1>7, <2>1, <2>2, <2>4, <3>1, <3>2, <3>3, <3>4 DEF ListInv
  <2>5. CASE dialog.kind # "none" /\ queueDir = dialog.src /\ mover.step \in {"idle", "start"}
    <3>1. m \in Lying(at', dialog.src)
      BY <1>4, <2>5
    <3> QED
      BY <1>1, <1>7, <1>9, <2>1, <2>2, <2>5, <3>1 DEF ListInv
  <2> QED
    BY <1>9, <2>3, <2>4, <2>5
<1> QED
  BY <1>5, <1>6, <1>8, <1>9

(* The program starts again: with another folder in the file than in memory, every
   meeting counts as left; in the middle of a move, those that are not in the source. *)
LEMMA RestartStep ==
  ASSUME ConfTyped, FoldTyped, FoldersInv, RestartAll
  PROVE  DialogInv' /\ ListInv'
<1> USE DEF FoldersInv
<1>1. /\ config' = Loaded /\ dialog' = Offer(Loaded) /\ mover' = NoMover /\ UNCHANGED at
      /\ left' = left \cup (IF config.meetings # Loaded.meetings THEN Laid(at)
                            ELSE IF dialog.kind = "moving" THEN Laid(at) \ Lying(at, dialog.src) ELSE {})
  BY Places DEF RestartAll, Restart
<1>2. Loaded \in Confs /\ Loaded \in Files /\ down \in {{}, {Other}}
  BY LoadedTyped DEF ConfTyped, SaveTyped, FoldTyped, Files
<1>3. Loaded.meetings = NoFolder => MeetingsDir(Loaded, down) = Default /\ Default # Legacy
  BY <1>2, DirFound, MigrationAssumption DEF Home
<1>4. Here' \subseteq Lying(at, Home(Loaded)) \cup (IF Loaded.meetings = NoFolder THEN Lying(at, Legacy) ELSE {})
  <2>1. CASE config.meetings # Loaded.meetings
    BY <1>1, <2>1 DEF Here
  <2>2. CASE config.meetings = Loaded.meetings
    <3>1. Home(config) = Home(Loaded)
      BY <2>2 DEF Home
    <3>2. CASE dialog.kind = "moving"
      <4>1. Here' \subseteq Here \cap Lying(at, dialog.src)
        BY <1>1, <2>2, <3>2 DEF Here
      <4> QED
        BY <2>2, <3>1, <3>2, <4>1 DEF ListInv
    <3>3. CASE dialog.kind # "moving"
      <4>1. Here' \subseteq Here
        BY <1>1, <2>2, <3>3 DEF Here
      <4> QED
        BY <2>2, <3>1, <3>3, <4>1 DEF ListInv, DialogInv, FoldTyped
    <3> QED
      BY <3>2, <3>3
  <2> QED
    BY <2>1, <2>2
<1>5. CASE Offer(Loaded) # NoDialog
  <2>1. /\ dialog' = [kind |-> "first", src |-> Legacy, dst |-> Default]
        /\ Loaded.meetings = NoFolder /\ Default # Legacy
    BY <1>1, <1>3, <1>5 DEF Offer
  <2> QED
    BY <1>1, <1>4, <2>1 DEF NoMover, DialogInv, ListInv
<1>6. CASE Offer(Loaded) = NoDialog
  <2>1. dialog'.kind = "none" /\ mover'.step = "idle"
    BY <1>1, <1>6 DEF NoDialog, NoMover
  <2>2. Loaded.meetings = NoFolder => Lying(at, Legacy) = {}
    BY <1>3, <1>6, Places DEF Offer, NoDialog
  <2>3. Here' \subseteq Lying(at, Home(Loaded))
    BY <1>4, <2>2
  <2> QED
    BY <1>1, <2>1, <2>3 DEF DialogInv, ListInv
<1> QED
  BY <1>6, <1>5

(* The invariant of the folders is inductive. *)
LEMMA FoldersInvStep == ConfTyped /\ FoldTyped /\ FoldersInv /\ [Next]_vars => FoldersInv'
<1> SUFFICES ASSUME ConfTyped, FoldTyped, FoldersInv, [Next]_vars PROVE DialogInv' /\ ListInv'
  BY PlaceInvStep DEF FoldersInv
<1>1. ASSUME Background \/ Handlers, UNCHANGED foldVars PROVE DialogInv' /\ ListInv'
  BY <1>1, FolderStays, SameDialog DEF foldVars, FoldersInv
<1>2. CASE Reset \/ \E d \in Folders : Pick(d)
  BY <1>2, PickerStep
<1>3. CASE Migrate \/ Switch \/ Later
  BY <1>3, OfferStep
<1>4. CASE Cancel
  <2>1. UNCHANGED <<at, dialog, left, config>> /\ mover'.step = mover.step /\ mover'.todo = mover.todo
    BY <1>4 DEF Cancel, FoldTyped, confVars
  <2> QED
    BY <2>1, SameDialog DEF FoldersInv
<1>5. CASE MoverSteps \/ Complete
  BY <1>5, MoverStep, MoveStep DEF MoverSteps
<1>6. CASE \E m \in NewMeetings : WriteMeeting(m)
  BY <1>6, NoteStep
<1>7. CASE Unplug \/ Plug
  BY <1>7, SameDialog DEF Unplug, Plug, confVars, FoldersInv
<1>8. CASE RestartAll
  BY <1>8, RestartStep
<1>9. CASE UNCHANGED vars
  BY <1>9, SameDialog DEF vars, confVars, foldVars, FoldersInv
<1> QED
  BY <1>1, <1>2, <1>3, <1>4, <1>5, <1>6, <1>7, <1>8, <1>9 DEF Next

(* It holds from the start, when the old meetings lie in the old folder, under
   names of their own. *)
LEMMA FoldersInvInit == Init => FoldersInv
<1> SUFFICES ASSUME Init PROVE FoldersInv
  OBVIOUS
<1> USE DEF Init, ConfInit
<1>1. /\ \A m \in Meetings : at[m] = {<<Legacy, <<NameOf(m)>>>>}
      /\ \A m \in All : m \notin Meetings => at[m] = {}
  BY DEF All
<1>2. PlaceInv
  <2>1. ASSUME NEW m \in All, NEW n \in All, m # n PROVE at[m] \cap (at[n] \cup rest[n]) = {}
    <3>1. rest[n] = {}
      BY DEF All
    <3>2. CASE m \in Meetings /\ n \in Meetings
      BY <1>1, <2>1, <3>1, <3>2, MigrationAssumption
    <3>3. CASE ~(m \in Meetings /\ n \in Meetings)
      BY <1>1, <3>1, <3>3
    <3> QED
      BY <3>2, <3>3
  <2>2. ASSUME NEW m \in All, NEW p \in at[m], NEW q \in at[m] PROVE p = q
    <3>1. at[m] = {<<Legacy, <<NameOf(m)>>>>}
      BY <1>1
    <3> QED
      BY <3>1
  <2>3. \A m \in Meetings : at[m] # {}
    BY <1>1 DEF All
  <2> QED
    BY <2>1, <2>2, <2>3 DEF PlaceInv, All
<1>3. Laid(at) \subseteq Lying(at, Legacy)
  BY <1>1 DEF Laid, Lying
<1>4. DialogInv
  BY MigrationAssumption DEF DialogInv, NoMover, Fresh
<1>5. ListInv
  BY <1>3 DEF ListInv, Here, NoMover
<1> QED
  BY <1>2, <1>4, <1>5 DEF FoldersInv

(* The folders have their invariant in every behaviour. *)
LEMMA FoldersInvariant == Spec => []FoldersInv
<1>1. ConfInv /\ FoldersInv /\ [Next]_vars => FoldersInv'
  BY FoldersInvStep DEF ConfInv
<1> QED
  BY <1>1, FoldersInvInit, ConfInvariant, PTL DEF Spec

(* No meeting is lost, and no two share a folder: not by a move that fails or is cut
   off at any point, not by the queue that writes beside it.  And when nothing is
   under way the list shows every meeting, but those the user left, a move failed
   for or an outdated queue wrote elsewhere. *)
THEOREM MeetingsStayKept == Spec => []MeetingsKept
<1>1. ConfInv /\ FoldersInv => MeetingsShown
  <2> SUFFICES ASSUME ConfInv, FoldersInv, Settled, holes = {}, dialog.kind = "none", down = {}
               PROVE  Written \ left \subseteq In(Listed)
    BY DEF MeetingsShown
  <2>1. file = config /\ config \in Confs
    BY DEF ConfInv, ConfTyped, SaveTyped, SaveInv, Settled
  <2>2. Listed = Home(config)
    BY <2>1, DirFound DEF Listed, Files
  <2>3. Laid(at) \ left \subseteq Lying(at, Listed)
    BY <2>2 DEF FoldersInv, ListInv, Here
  <2> QED
    BY <2>3, Places
<1>2. FoldersInv => MeetingsWhole
  <2> SUFFICES ASSUME FoldersInv PROVE MeetingsWhole
    OBVIOUS
  <2>1. ASSUME NEW m \in Meetings PROVE Cardinality(at[m]) = 1
    <3>1. PICK spot : spot \in at[m]
      BY DEF FoldersInv, PlaceInv
    <3>2. at[m] = {spot}
      BY <3>1 DEF FoldersInv, PlaceInv, All
    <3> QED
      BY <3>2, FS_Singleton
  <2>2. \A m, n \in Written : m # n => at[m] \cap (at[n] \cup rest[n]) = {}
    BY DEF FoldersInv, PlaceInv, Written, All
  <2> QED
    BY <2>1, <2>2 DEF MeetingsWhole
<1>3. ConfInv /\ FoldersInv => MeetingsKept
  BY <1>1, <1>2 DEF MeetingsKept
<1> QED
  BY <1>3, ConfInvariant, FoldersInvariant, PTL

=============================================================================
