--------------------------- MODULE Configuration ---------------------------
(***************************************************************************)
(* config.json.  The window keeps the whole configuration in memory        *)
(* (App._config) and saves the whole of it after every change: from the    *)
(* Tk thread, and from the threads that check an API key (api_key_row).    *)
(* save_config writes config.json.tmp and renames it; all savers use the   *)
(* one temporary name and no lock.  Another thread (the queue's) reads the *)
(* file and moves a file it could not parse out of the way.                *)
(* A file is abstracted to what it holds: a configuration, Torn (bytes     *)
(* that are no JSON) or NoFile.  Module Migration adds the folders that    *)
(* the configuration points to.                                            *)
(* A definition named Bug... is the one below it with a plausible mistake. *)
(***************************************************************************)
EXTENDS Naturals, FiniteSets

CONSTANTS Providers,   \* the cloud providers of the dropdown
          FirstProvider, \* the one a fresh configuration names
          Keys, NoKey, \* what the user may type into a key field; the empty text
          Cloud,       \* the row of the key of the chosen provider
          Pairs,       \* rows whose key is read again when it is saved (Trello)
          Singles,     \* the other rows: OpenRouter, Linear, Glide
          Tk, Threads, \* who saves: the window, the threads that check a key
          Torn, NoFile, NoFolder,
          MaxEdits,    \* bound: changes of the configuration that are begun
          MaxFaults,   \* bound: writes and renames that fail
          MaxCrashes   \* bound: deaths of the program

ASSUME ConfigurationAssumption ==
  /\ FirstProvider \in Providers
  /\ Cloud \notin Pairs
  /\ Tk \notin Threads
  /\ Torn # NoFile
  /\ MaxEdits \in Nat /\ MaxFaults \in Nat /\ MaxCrashes \in Nat

VARIABLES config,    \* App._config
          file,      \* config.json
          tmp,       \* config.json.tmp
          save,      \* where each saver is in save_config
          onFile,    \* savers whose open handle has become config.json itself
          shared,    \* savers whose temporary file another one wrote as well
          field,     \* the key fields of Settings
          check,     \* what each thread that checks a key is at
          reader,    \* the queue thread inside load_config
          edits, faults, crashes,
          lone,      \* ghost: savers that nobody has joined since they began
          holes,     \* ghost: what befell the file since the last lone save
          checked,   \* ghost: <<slot, key>> that a service accepted
          strayed    \* ghost: the same, saved after the field or the dropdown had moved

confVars == <<config, file, tmp, save, onFile, shared, field, check, reader,
              edits, faults, crashes, lone, holes, checked, strayed>>

Savers == {Tk} \cup Threads
Rows == {Cloud} \cup Pairs \cup Singles
Slots == Providers \cup Pairs \cup Singles
Resting == [step |-> "idle", row |-> Cloud, key |-> NoKey, slot |-> Cloud, moved |-> FALSE]

\* What a start without a file builds: no keys, no folder chosen.
Fresh == [provider |-> FirstProvider, keys |-> [s \in Slots |-> NoKey], meetings |-> NoFolder]

Active == {s \in Savers : save[s] # "idle"}

----------------------------------------------------------------------------
\* save_config: the change in memory and the opening of the temporary file
\* (which empties whatever another saver has there), the dump, the rename.

BugBeginSave(s, changed) ==   \* writes config.json in place
  /\ save[s] = "idle"
  /\ edits' = edits + 1
  /\ config' = changed
  /\ save' = [save EXCEPT ![s] = "write"]
  /\ tmp' = Torn /\ file' = Torn
  /\ shared' = shared \ {s}
  /\ lone' = IF Active = {} THEN {s} ELSE {}
  /\ holes' = IF Active = {} THEN holes ELSE holes \cup {"overlapped"}
  /\ UNCHANGED <<onFile, faults, crashes>>
BeginSave(s, changed) ==
  /\ save[s] = "idle"
  /\ edits' = edits + 1
  /\ config' = changed
  /\ save' = [save EXCEPT ![s] = "write"]
  /\ tmp' = Torn
  /\ LET together == {o \in Active : save[o] = "write" /\ o \notin onFile}
     IN  shared' = IF together = {} THEN shared \ {s} ELSE shared \cup together \cup {s}
  /\ lone' = IF Active = {} THEN {s} ELSE {}
  /\ holes' = IF Active = {} THEN holes ELSE holes \cup {"overlapped"}
  /\ UNCHANGED <<file, onFile, faults, crashes>>

Dump(s) ==
  /\ save[s] = "write"
  /\ \E text \in {config} \cup (IF s \in shared THEN {Torn} ELSE {}) :
       IF s \in onFile THEN file' = text /\ UNCHANGED tmp ELSE tmp' = text /\ UNCHANGED file
  /\ save' = [save EXCEPT ![s] = "replace"]
  /\ onFile' = onFile \ {s}
  /\ UNCHANGED <<config, shared, field, check, reader, edits, faults, crashes, lone, holes, checked, strayed>>

Replace(s) ==
  /\ save[s] = "replace" /\ tmp # NoFile
  /\ file' = tmp /\ tmp' = NoFile
  /\ save' = [save EXCEPT ![s] = "idle"]
  /\ onFile' = onFile \cup {o \in Savers \ {s} : save[o] = "write"}
  /\ holes' = IF s \in lone THEN {} ELSE holes
  /\ UNCHANGED <<config, shared, field, check, reader, edits, faults, crashes, lone, checked, strayed>>

\* An OSError: the disk; a rename of a file another saver has renamed already,
\* or (Windows) still has open.
SaveFails(s) ==
  /\ \/ /\ save[s] # "idle" /\ faults < MaxFaults /\ faults' = faults + 1
     \/ /\ save[s] = "replace"
        /\ tmp = NoFile \/ \E o \in Savers \ {s} : save[o] = "write"
        /\ UNCHANGED faults
  /\ save' = [save EXCEPT ![s] = "idle"]
  /\ holes' = holes \cup {"failed"}
  /\ onFile' = onFile \ {s}
  /\ UNCHANGED <<config, file, tmp, shared, field, check, reader, edits, crashes, lone, checked, strayed>>

----------------------------------------------------------------------------
\* The window: the handlers run one at a time, each to the end of its save.

Ready == save[Tk] = "idle"
Room == edits < MaxEdits

Moved(rows) ==
  [t \in Threads |-> IF check[t].row \in rows /\ check[t].step # "idle"
                     THEN [check[t] EXCEPT !.moved = TRUE] ELSE check[t]]

Type(r, k) ==
  /\ Ready /\ Room /\ field[r] # k
  /\ field' = [field EXCEPT ![r] = k]
  /\ check' = Moved({r} \cap Pairs)
  /\ UNCHANGED <<config, file, tmp, save, onFile, shared, reader, edits, faults,
                 crashes, lone, holes, checked, strayed>>

ChooseProvider(p) ==
  /\ Ready /\ Room /\ p # config.provider
  /\ field' = [field EXCEPT ![Cloud] = config.keys[p]]
  /\ BeginSave(Tk, [config EXCEPT !.provider = p])
  /\ check' = Moved({Cloud})
  /\ UNCHANGED <<reader, checked, strayed>>

\* The other settings have no field here; their handlers save the whole all the same.
ChangeOption ==
  /\ Ready /\ Room
  /\ BeginSave(Tk, config)
  /\ UNCHANGED <<field, check, reader, checked, strayed>>

----------------------------------------------------------------------------
\* The check of a key, in a thread of its own.

SlotOf(r) == IF r = Cloud THEN config.provider ELSE r

Validate(t, r) ==
  /\ Ready /\ Room /\ check[t].step = "idle" /\ field[r] # NoKey
  /\ check' = [check EXCEPT ![t] = [Resting EXCEPT !.step = "ask", !.row = r, !.key = field[r]]]
  /\ UNCHANGED <<config, file, tmp, save, onFile, shared, field, reader, edits, faults,
                 crashes, lone, holes, checked, strayed>>

\* on_validate looks at the dropdown only now, in the thread.
Ask(t) ==
  /\ check[t].step = "ask"
  /\ check' = [check EXCEPT ![t].step = "answer", ![t].slot = SlotOf(check[t].row),
                            ![t].moved = @ /\ check[t].row # Cloud]
  /\ UNCHANGED <<config, file, tmp, save, onFile, shared, field, reader, edits, faults,
                 crashes, lone, holes, checked, strayed>>

Answer(t) ==
  /\ check[t].step = "answer"
  /\ \/ check' = [check EXCEPT ![t] = Resting] /\ UNCHANGED checked
     \/ /\ check' = [check EXCEPT ![t].step = "persist"]
        /\ checked' = checked \cup {<<check[t].slot, check[t].key>>}
  /\ UNCHANGED <<config, file, tmp, save, onFile, shared, field, reader, edits, faults,
                 crashes, lone, holes, strayed>>

BugStored(t) == field[check[t].row]   \* what stands in the field by now
Stored(t) == IF check[t].row \in Pairs THEN field[check[t].row] ELSE check[t].key

Persist(t) ==
  /\ check[t].step = "persist" /\ Room
  /\ LET slot == SlotOf(check[t].row)
     IN  /\ BeginSave(t, [config EXCEPT !.keys[slot] = Stored(t)])
         /\ strayed' = IF check[t].moved THEN strayed \cup {<<slot, Stored(t)>>} ELSE strayed
  /\ check' = [check EXCEPT ![t] = [Resting EXCEPT !.step = "saving"]]
  /\ UNCHANGED <<field, reader, checked>>

\* The row can be used again; a save that raised has ended its thread.
Finish(t) ==
  /\ check[t].step = "saving" /\ save[t] = "idle"
  /\ check' = [check EXCEPT ![t] = Resting]
  /\ UNCHANGED <<config, file, tmp, save, onFile, shared, field, reader, edits, faults,
                 crashes, lone, holes, checked, strayed>>

----------------------------------------------------------------------------
\* load_config in the queue's thread: what does not parse is moved aside,
\* whatever lies there by then.

ReadsBad ==
  /\ reader = "idle" /\ file = Torn
  /\ reader' = "bad"
  /\ UNCHANGED <<config, file, tmp, save, onFile, shared, field, check, edits, faults,
                 crashes, lone, holes, checked, strayed>>

Quarantine ==
  /\ reader = "bad"
  /\ reader' = "idle"
  /\ file' = NoFile
  /\ holes' = holes \cup {"quarantined"}
  /\ UNCHANGED <<config, tmp, save, onFile, shared, field, check, edits, faults,
                 crashes, lone, checked, strayed>>

Loaded == IF file \in {Torn, NoFile} THEN Fresh ELSE file

\* The program dies at any point and is started again: load_config takes what
\* is there, moves it aside if it is torn, and what is new is saved at once.
Restart ==
  /\ crashes < MaxCrashes /\ crashes' = crashes + 1
  /\ config' = Loaded /\ file' = Loaded
  /\ tmp' = IF file = Loaded THEN tmp ELSE NoFile
  /\ field' = [r \in Rows |-> IF r = Cloud THEN Loaded.keys[Loaded.provider] ELSE Loaded.keys[r]]
  /\ save' = [s \in Savers |-> "idle"] /\ check' = [t \in Threads |-> Resting]
  /\ onFile' = {} /\ shared' = {} /\ lone' = {} /\ holes' = {} /\ reader' = "idle"
  /\ UNCHANGED <<edits, faults, checked, strayed>>

ConfInit ==
  /\ config = Fresh /\ file = Fresh /\ tmp = NoFile
  /\ save = [s \in Savers |-> "idle"]
  /\ onFile = {} /\ shared = {} /\ lone = {} /\ holes = {}
  /\ field = [r \in Rows |-> NoKey]
  /\ check = [t \in Threads |-> Resting]
  /\ reader = "idle"
  /\ edits = 0 /\ faults = 0 /\ crashes = 0
  /\ checked = {} /\ strayed = {}

SaveSteps == \E s \in Savers : Dump(s) \/ Replace(s) \/ SaveFails(s)

CheckSteps == \E t \in Threads : Ask(t) \/ Answer(t) \/ Persist(t) \/ Finish(t)

Background == SaveSteps \/ CheckSteps \/ ReadsBad \/ Quarantine

Handlers ==
  \/ \E t \in Threads, r \in Rows : Validate(t, r)
  \/ \E r \in Rows, k \in Keys : Type(r, k)
  \/ \E p \in Providers : ChooseProvider(p)
  \/ ChangeOption

Settled == Active = {} /\ reader = "idle"

----------------------------------------------------------------------------
\* config.json never holds half a configuration, however the saves, their
\* failures and a crash fall, unless two saves were under way at once
\* (save_config: "must not leave a half-written config.json").
FileWhole == file = Torn => "overlapped" \in holes

\* When no save is under way the file holds what the window shows, and a save
\* by itself repairs it after anything that went wrong before; what can part
\* the two is a failed save, two saves at once, or the reader that moved the
\* file aside.
SettingsKept == Settled /\ holes = {} => file = config

\* The file is whole, and is what the window shows.
FileRight == FileWhole /\ SettingsKept

\* A key is stored only for the service that accepted it, but where the field
\* or the dropdown was changed while the answer was awaited.
KeyOfSlot ==
  \A s \in Slots : config.keys[s] # NoKey => <<s, config.keys[s]>> \in checked \cup strayed
=============================================================================
