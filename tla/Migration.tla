----------------------------- MODULE Migration -----------------------------
(***************************************************************************)
(* The folders of meetings: where they lie, which folder the list of       *)
(* meetings reads, which one the queue writes, and the ways to change      *)
(* them: the offer at the first start, the picker and the reset of         *)
(* Settings, and the thread that moves the meetings one by one             *)
(* (migrate_meetings).  The chosen folder is a part of the configuration,  *)
(* so module Configuration is taken whole.                                 *)
(* A meeting is a model value at spots <<folder, name>>; its name may be   *)
(* that of another meeting, and then gets an ending.  A move within a volume is a rename, one       *)
(* across volumes a copy and then a removal; both may fail.                *)
(* A definition named Bug... is the one below it with a plausible mistake. *)
(***************************************************************************)
EXTENDS Configuration, Sequences

CONSTANTS Default, Legacy, Other,  \* the default folder, the old history folder, one the user picks
          Meetings, NewMeetings,   \* the meetings of an old installation, and those the queue will write
          NameOf(_),               \* the name of a meeting's folder
          MaxNames                 \* bound: endings a name may get

VARIABLES at,      \* the spots of each meeting's whole copies
          rest,    \* the spots of partial copies
          down,    \* folders that cannot be written now (a drive is off)
          dialog,  \* the window over the main one: none, an offer, or the progress
          mover,   \* the thread of the progress window
          queueDir, \* the folder the queue was built with
          left     \* ghost: meetings the user, a failure or an old queue left elsewhere

foldVars == <<at, rest, down, dialog, mover, queueDir, left>>
vars == <<confVars, foldVars>>

Folders == {Default, Legacy, Other}
Confs == [provider : Providers, keys : [Slots -> Keys \cup {NoKey}], meetings : Folders \cup {NoFolder}]

ASSUME MigrationAssumption ==
  /\ Default \notin {Legacy, Other} /\ NoFolder \notin Folders
  /\ Torn \notin Confs /\ NoFile \notin Confs
  /\ Meetings \cap NewMeetings = {}
  /\ \A m, n \in Meetings : NameOf(m) = NameOf(n) => m = n   \* they lie in one folder
  /\ MaxNames \in Nat

NoDialog == [kind |-> "none", src |-> Default, dst |-> Default]
NoMover == [step |-> "idle", todo |-> {}, cancel |-> FALSE]

\* get_meetings_dir: the configured folder, the default, the old one - the first that can be written.
MeetingsDir(conf, off) ==
  LET wanted == IF conf \in {Torn, NoFile} THEN NoFolder ELSE conf.meetings
  IN  IF wanted # NoFolder /\ wanted \notin off THEN wanted
      ELSE IF Default \notin off THEN Default ELSE Legacy
Listed == MeetingsDir(file, down)

Written == {m \in Meetings \cup NewMeetings : at[m] # {}}
In(f) == {m \in Written : \E spot \in at[m] : spot[1] = f}
Taken(spot) == \E m \in Meetings \cup NewMeetings : spot \in at[m] \cup rest[m]

\* A name, or the name with an ending where something of that name is there;
\* the last ending when all are taken.
FreeSpot(f, name, ending) ==
  IF ~Taken(<<f, name>>) THEN <<f, name>>
  ELSE LET spot(k) == <<f, name \o [i \in 1..k |-> ending]>>
       IN  spot(CHOOSE k \in 0..MaxNames : ~Taken(spot(k)) \/ k = MaxNames)

\* What is not in the folder that the configuration is about to name.
Behind(dst) == Written \ In(dst)

----------------------------------------------------------------------------
\* The choices of the user.

Calm == Ready /\ dialog.kind = "none"

\* The first start: an old folder with meetings and no folder configured.
Offer(conf) ==
  IF conf.meetings = NoFolder /\ In(Legacy) # {} /\ MeetingsDir(conf, down) # Legacy
  THEN [kind |-> "first", src |-> Legacy, dst |-> MeetingsDir(conf, down)]
  ELSE NoDialog

SetMeetings(f) ==
  /\ BeginSave(Tk, [config EXCEPT !.meetings = f])
  /\ UNCHANGED <<field, check, reader, checked, strayed>>

Pick(d) ==
  /\ Calm /\ Room /\ d # Listed /\ d \notin down
  /\ IF In(Listed) # {}
     THEN /\ dialog' = [kind |-> "settings", src |-> Listed, dst |-> d]
          /\ left' = left \cup Behind(Listed)
          /\ UNCHANGED confVars
     ELSE /\ SetMeetings(d)
          /\ left' = left \cup Behind(d)
          /\ UNCHANGED dialog
  /\ UNCHANGED <<at, rest, down, mover, queueDir>>

Reset ==
  /\ Calm /\ Room /\ config.meetings # NoFolder
  /\ SetMeetings(NoFolder)
  /\ left' = left \cup Behind(MeetingsDir([config EXCEPT !.meetings = NoFolder], down))
  /\ UNCHANGED <<at, rest, down, dialog, mover, queueDir>>

Asked == Ready /\ Room /\ dialog.kind \in {"first", "settings"}

Migrate ==
  /\ Asked
  /\ dialog' = [dialog EXCEPT !.kind = "moving"]
  /\ mover' = [NoMover EXCEPT !.step = "start"]
  /\ UNCHANGED <<confVars, at, rest, down, queueDir, left>>

\* "keep_old" of the first start, "switch_only" of Settings.
Switch ==
  /\ Asked
  /\ LET f == IF dialog.kind = "first" THEN dialog.src ELSE dialog.dst
     IN  SetMeetings(f) /\ left' = left \cup Behind(f)
  /\ dialog' = NoDialog
  /\ UNCHANGED <<at, rest, down, mover, queueDir>>

\* "later", or the window closed.
Later ==
  /\ Asked
  /\ dialog' = NoDialog
  /\ left' = IF dialog.kind = "first" THEN left \cup In(dialog.src) ELSE left
  /\ UNCHANGED <<confVars, at, rest, down, mover, queueDir>>

Cancel ==
  /\ dialog.kind = "moving" /\ ~mover.cancel
  /\ mover' = [mover EXCEPT !.cancel = TRUE]
  /\ UNCHANGED <<confVars, at, rest, down, dialog, queueDir, left>>

----------------------------------------------------------------------------
\* migrate_meetings, in the thread of the progress window.

StartMoving ==
  /\ mover.step = "start"
  /\ mover' = [mover EXCEPT !.step = "move", !.todo = In(dialog.src)]
  /\ UNCHANGED <<confVars, at, rest, down, dialog, queueDir, left>>

\* makedirs or listdir raise outside any try: the thread is gone.
MoverDies ==
  /\ mover.step = "start" /\ faults < MaxFaults
  /\ faults' = faults + 1
  /\ mover' = [mover EXCEPT !.step = "dead"]
  /\ UNCHANGED <<config, file, tmp, save, onFile, shared, field, check, reader, edits,
                 crashes, lone, holes, checked, strayed, at, rest, down, dialog, queueDir, left>>

From(m) == CHOOSE spot \in at[m] : spot[1] = dialog.src

BugTarget(m) == <<dialog.dst, From(m)[2]>>   \* whatever is there
\* The ending is the time of day; two such names differ, being of different seconds.
Target(m) == FreeSpot(dialog.dst, From(m)[2], "imported")

Moving(m) ==
  /\ mover.step = "move" /\ ~mover.cancel /\ m \in mover.todo
  /\ ~Taken(FreeSpot(dialog.dst, From(m)[2], "imported"))

Move(m) ==
  /\ Moving(m)
  /\ at' = [at EXCEPT ![m] = (@ \ {From(m)}) \cup {Target(m)}]
  /\ mover' = [mover EXCEPT !.todo = @ \ {m}]
  /\ UNCHANGED <<confVars, rest, down, dialog, queueDir, left>>

\* The rename, the copy or the removal after the copy raises; the next folder is tried.
MoveFails(m) ==
  /\ Moving(m) /\ faults < MaxFaults
  /\ faults' = faults + 1
  /\ \/ UNCHANGED <<at, rest>> /\ left' = left \cup {m}
     \/ rest' = [rest EXCEPT ![m] = @ \cup {Target(m)}] /\ UNCHANGED at /\ left' = left \cup {m}
     \/ /\ at' = [at EXCEPT ![m] = (@ \ {From(m)}) \cup {Target(m)}]
        /\ rest' = [rest EXCEPT ![m] = @ \cup {From(m)}]
        /\ UNCHANGED left
  /\ mover' = [mover EXCEPT !.todo = @ \ {m}]
  /\ UNCHANGED <<config, file, tmp, save, onFile, shared, field, check, reader, edits,
                 crashes, lone, holes, checked, strayed, down, dialog, queueDir>>

Stop ==
  /\ mover.step = "move" /\ (mover.cancel \/ mover.todo = {})
  /\ mover' = [mover EXCEPT !.step = "over", !.todo = {}]
  /\ left' = left \cup mover.todo
  /\ UNCHANGED <<confVars, at, rest, down, dialog, queueDir>>

\* The folder is switched whatever the summary says; a save that fails leaves
\* the list on the old folder.
BugComplete ==                \* a cancelled migration closes nothing
  /\ Ready /\ mover.step = "over" /\ ~mover.cancel
  /\ SetMeetings(dialog.dst)
  /\ dialog' = NoDialog /\ mover' = NoMover
  /\ UNCHANGED <<at, rest, down, queueDir, left>>
Complete ==
  /\ Ready /\ mover.step = "over"
  /\ SetMeetings(dialog.dst)
  /\ dialog' = NoDialog /\ mover' = NoMover
  /\ UNCHANGED <<at, rest, down, queueDir, left>>

----------------------------------------------------------------------------
\* The queue, the drive, the end and the start of the program.

\* A note goes to the folder the queue was built with, beside a migration too.
WriteMeeting(m) ==
  /\ at[m] = {} /\ queueDir \notin down
  /\ LET spot == FreeSpot(queueDir, <<NameOf(m)>>, "2")
     IN  ~Taken(spot) /\ at' = [at EXCEPT ![m] = {spot}]
  /\ left' = IF /\ {queueDir} = {MeetingsDir(file, {}), MeetingsDir(config, {})}
                /\ \/ dialog.kind = "none" \/ queueDir = dialog.dst
                   \/ queueDir = dialog.src /\ mover.step \in {"idle", "start"}
             THEN left ELSE left \cup {m}
  /\ UNCHANGED <<confVars, rest, down, dialog, mover, queueDir>>

Unplug ==
  /\ down = {} /\ faults < MaxFaults /\ dialog.kind = "none"
  /\ faults' = faults + 1
  /\ down' = {Other}
  /\ UNCHANGED <<config, file, tmp, save, onFile, shared, field, check, reader, edits, crashes, lone,
                 holes, checked, strayed, at, rest, dialog, mover, queueDir, left>>

Plug ==
  /\ down # {}
  /\ down' = {}
  /\ UNCHANGED <<confVars, at, rest, dialog, mover, queueDir, left>>

\* The queue is built anew, for the folder found now.
RestartAll ==
  /\ Restart
  /\ queueDir' = MeetingsDir(Loaded, down)
  /\ dialog' = Offer(Loaded)
  /\ mover' = NoMover
  /\ left' = left \cup (IF config.meetings # Loaded.meetings THEN Written
                        ELSE IF dialog.kind = "moving" THEN Behind(dialog.src) ELSE {})
  /\ UNCHANGED <<at, rest, down>>

Init ==
  /\ ConfInit
  /\ at = [m \in Meetings \cup NewMeetings |->
             IF m \in Meetings THEN {<<Legacy, <<NameOf(m)>>>>} ELSE {}]
  /\ rest = [m \in Meetings \cup NewMeetings |-> {}]
  /\ down = {} /\ queueDir = Default
  /\ dialog = [kind |-> "first", src |-> Legacy, dst |-> Default]
  /\ mover = NoMover /\ left = {}

MoverSteps == StartMoving \/ MoverDies \/ Stop \/ \E m \in mover.todo : Move(m) \/ MoveFails(m)

Next ==
  \/ Background /\ UNCHANGED foldVars
  \/ Handlers /\ dialog.kind = "none" /\ UNCHANGED foldVars
  \/ \E d \in Folders : Pick(d)
  \/ Reset \/ Migrate \/ Switch \/ Later \/ Cancel
  \/ MoverSteps \/ Complete
  \/ \E m \in NewMeetings : WriteMeeting(m)
  \/ Unplug \/ Plug \/ RestartAll

Spec == Init /\ [][Next]_vars

\* The thread of the progress window runs, and the window answers it once its
\* own save is through.
Fairness ==
  /\ WF_vars(MoverSteps) /\ WF_vars(Complete)
  /\ WF_vars((Dump(Tk) \/ Replace(Tk) \/ SaveFails(Tk)) /\ UNCHANGED foldVars)

FairSpec == Spec /\ Fairness

----------------------------------------------------------------------------
\* When nothing is under way, the list shows every meeting: those the user
\* decided to leave, that a move failed for, or that a queue built for another
\* folder wrote are the only ones missing.
MeetingsShown ==
  Settled /\ holes = {} /\ dialog.kind = "none" /\ down = {} => Written \ left \subseteq In(Listed)

\* Whatever fails or is cut off, each meeting has a whole copy, in one place,
\* and no two meetings have got into one folder.
MeetingsWhole ==
  /\ \A m \in Meetings : Cardinality(at[m]) = 1
  /\ \A m, n \in Written : m # n => at[m] \cap (at[n] \cup rest[n]) = {}

\* No meeting is lost, mixed with another or missing from the list.
MeetingsKept == MeetingsShown /\ MeetingsWhole

\* The progress window, which cannot be closed, goes away by itself unless the
\* folder could not even be listed.
ProgressEnds == dialog.kind = "moving" ~> (dialog.kind # "moving" \/ mover.step = "dead")
=============================================================================
