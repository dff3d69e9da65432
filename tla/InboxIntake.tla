---------------------------- MODULE InboxIntake ----------------------------
(***************************************************************************)
(* The phone inbox: processing/inbox_watcher.py and the tick that drives it *)
(* in ui/app/queue_mixin.py.                                                *)
(*                                                                          *)
(* Google Drive syncs files into a folder; every ten seconds the Tk thread  *)
(* polls the folder, and enqueues each file whose size was the same at two  *)
(* polls, unless the queue already holds its path.  Meanwhile the worker    *)
(* settles jobs and moves their files away, so a tick has two actions: Poll *)
(* and, from the snapshot of the queue on, Take.                            *)
(*                                                                          *)
(* The queue is the one of ProcessingQueue, seen from here: for each path,  *)
(* how many of its items are not DONE.                                      *)
(*                                                                          *)
(* The environment, where the program has no say: a file that is not whole  *)
(* grows between two polls, and a name is used again only after a poll saw  *)
(* it vacant.                                                               *)
(*                                                                          *)
(* A definition named Bug... is the one below it with a plausible mistake.  *)
(***************************************************************************)
EXTENDS Naturals

CONSTANTS
    Names,            \* file names, numbers: a tick takes them in sorted order
    Whole,            \* the size of a file that is synced
    MaxDrops,         \* bound: files dropped under one name
    MaxLaunches,      \* bound: starts of the program
    MaxSettings,      \* bound: edits of inbox_dir
    MaxGlitches,      \* bound: polls with a folder or a file out of reach
    MaxSaveFailures   \* bound: saves of queue.json that raise OSError

ASSUME InboxAssumption ==
    /\ Names \subseteq Nat
    /\ Whole \in Nat \ {0}
    /\ MaxDrops \in Nat /\ MaxLaunches \in Nat /\ MaxSettings \in Nat
    /\ MaxGlitches \in Nat /\ MaxSaveFailures \in Nat

VARIABLES
    size,        \* size of the file under a name, 0 when there is none
    drops,       \* files dropped under a name so far
    grown,       \* names whose file changed since the last poll
    vacant,      \* names a poll saw without a file since the last one went
    configured,  \* inbox_dir is set
    up,          \* the program runs
    ticking,     \* the after() chain of _inbox_tick is alive
    watching,    \* self._inbox_dir, what the watcher was built for
    seen,        \* watcher._sizes, 0 when there is no entry
    done,        \* watcher._done
    ready,       \* what poll() returned to the tick in progress
    polled,      \* the tick is between poll() and the snapshot
    active,      \* items of the queue that are not DONE, by path
    saved,       \* the same in queue.json
    takes,       \* times the present file of a name was enqueued
    partial,     \* names handed off before their file was whole
    launches, settings, glitches, saveFailures

folder  == <<size, drops, grown, vacant>>
watcher == <<watching, seen, done>>
tick    == <<ticking, ready, polled>>
jobs    == <<active, saved>>
bounds  == <<launches, settings, glitches, saveFailures>>
vars == <<folder, configured, up, watcher, tick, jobs, takes, partial, bounds>>

TypeOK ==
    /\ size \in [Names -> 0..Whole] /\ drops \in [Names -> Nat]
    /\ grown \subseteq Names /\ vacant \subseteq Names
    /\ configured \in BOOLEAN /\ up \in BOOLEAN
    /\ ticking \in BOOLEAN /\ watching \in BOOLEAN /\ polled \in BOOLEAN
    /\ seen \in [Names -> 0..Whole]
    /\ done \subseteq Names /\ ready \subseteq Names
    /\ active \in [Names -> Nat] /\ saved \in [Names -> Nat]
    /\ takes \in [Names -> Nat] /\ partial \subseteq Names
    /\ launches \in Nat /\ settings \in Nat /\ glitches \in Nat /\ saveFailures \in Nat

Zero == [n \in Names |-> 0]

Init ==
    /\ size = Zero /\ drops = Zero /\ grown = {} /\ vacant = Names
    /\ configured = TRUE
    /\ up = FALSE /\ ticking = FALSE /\ watching = FALSE
    /\ seen = Zero /\ done = {} /\ ready = {} /\ polled = FALSE
    /\ active = Zero /\ saved = Zero
    /\ takes = Zero /\ partial = {}
    /\ launches = 0 /\ settings = 0 /\ glitches = 0 /\ saveFailures = 0

-----------------------------------------------------------------------------
(* The folder *)

Files == {n \in Names : size[n] > 0}
InSync == {n \in Files : size[n] < Whole}

Drop(n) ==
    /\ n \in vacant \/ (~up /\ size[n] = 0)
    /\ drops[n] < MaxDrops
    /\ drops' = [drops EXCEPT ![n] = @ + 1]
    /\ \E s \in 1..Whole : size' = [size EXCEPT ![n] = s]
    /\ grown' = grown \cup {n}
    /\ vacant' = vacant \ {n}
    /\ takes' = [takes EXCEPT ![n] = 0]
    /\ UNCHANGED <<configured, up, watcher, tick, jobs, partial, bounds>>

Sync(n) ==
    /\ n \in InSync
    /\ \E s \in size[n]+1 .. Whole : size' = [size EXCEPT ![n] = s]
    /\ grown' = grown \cup {n}
    /\ UNCHANGED <<drops, vacant, configured, up, watcher, tick, jobs, takes,
                   partial, bounds>>

(* Somebody takes the file away outside the program *)
RemoveFile(n) ==
    /\ n \in Files
    /\ size' = [size EXCEPT ![n] = 0]
    /\ UNCHANGED <<drops, grown, vacant, configured, up, watcher, tick, jobs, takes,
                   partial, bounds>>

-----------------------------------------------------------------------------
(* The program *)

(* App.__init__: a watcher for the configured folder, and the first after() *)
Launch ==
    /\ ~up /\ launches < MaxLaunches
    /\ launches' = launches + 1
    /\ up' = TRUE /\ ticking' = TRUE
    /\ watching' = configured
    /\ seen' = Zero /\ done' = {}
    /\ active' = saved
    /\ UNCHANGED <<folder, configured, ready, polled, saved, takes, partial,
                   settings, glitches, saveFailures>>

(* The program ends, closed or killed *)
Close ==
    /\ up
    /\ up' = FALSE /\ ticking' = FALSE
    /\ ready' = {} /\ polled' = FALSE
    /\ UNCHANGED <<folder, configured, watcher, jobs, takes, partial, bounds>>

(* A Settings edit, on the Tk thread: not inside a tick *)
SetInbox ==
    /\ up /\ ~polled
    /\ settings < MaxSettings
    /\ settings' = settings + 1
    /\ configured' = ~configured
    /\ UNCHANGED <<folder, up, watcher, tick, jobs, takes, partial,
                   launches, glitches, saveFailures>>

(* What the tick's poll() has in its memory: a watcher of its own for a new folder *)
Known == IF watching = configured THEN done ELSE {}
LastSize(n) == IF watching = configured THEN seen[n] ELSE 0

(* Files whose size is the one of the last poll; those in lost cannot be read *)
Stable(lost) == {n \in Files \ (Known \cup lost) : LastSize(n) = size[n]}

(* _sizes after poll(): entries go when the file was handed off or is not there, and
   stay when its size could not be read *)
BugSizes(lost) ==
    [n \in Names |-> IF n \in Stable(lost) THEN 0
                     ELSE IF n \in Files \ (Known \cup lost) THEN size[n]
                     ELSE LastSize(n)]
Sizes(lost) ==
    [n \in Names |-> IF n \in Stable(lost) \/ n \notin Files \ Known THEN 0
                     ELSE IF n \in lost THEN LastSize(n)
                     ELSE size[n]]

(* _done after poll() *)
BugHandedOff(lost) == Known \cup Files
HandedOff(lost) == Known \cup Stable(lost)

(* _inbox_tick up to poll().  A folder that is not set, or out of reach, yields nothing
   and leaves the watcher as it is, but one that cannot be listed clears _sizes. *)
Poll ==
    /\ up /\ ticking /\ ~polled
    /\ InSync \subseteq grown
    /\ polled' = TRUE
    /\ watching' = configured
    /\ grown' = {}
    /\ \/ /\ configured
          /\ \E lost \in SUBSET Files :
                /\ lost # {} => glitches < MaxGlitches
                /\ glitches' = IF lost = {} THEN glitches ELSE glitches + 1
                /\ ready' = Stable(lost)
                /\ seen' = Sizes(lost)
                /\ done' = HandedOff(lost)
                /\ partial' = partial \cup (Stable(lost) \cap InSync)
          /\ vacant' = Names \ Files
       \/ /\ configured => glitches < MaxGlitches
          /\ glitches' = IF configured THEN glitches + 1 ELSE glitches
          /\ ready' = {} /\ done' = Known
          /\ \/ seen' = [n \in Names |-> LastSize(n)]
             \/ configured /\ seen' = Zero
          /\ UNCHANGED <<vacant, partial>>
    /\ UNCHANGED <<size, drops, configured, up, ticking, jobs, takes,
                   launches, settings, saveFailures>>

(* Paths of the tick that the queue does not hold, by the snapshot *)
BugNew == ready
New == {n \in ready : active[n] = 0}

Added(S, f) == [n \in Names |-> IF n \in S THEN f[n] + 1 ELSE f[n]]

(* The rest of _inbox_tick.  An enqueue() that raises leaves its item in memory, the
   later files of the tick out, and the next tick unscheduled. *)
Take ==
    /\ up /\ polled
    /\ polled' = FALSE /\ ready' = {}
    /\ \/ /\ active' = Added(New, active)
          /\ takes' = Added(New, takes)
          /\ saved' = IF New = {} THEN saved ELSE active'
          /\ UNCHANGED <<ticking, saveFailures>>
       \/ /\ saveFailures < MaxSaveFailures
          /\ saveFailures' = saveFailures + 1
          /\ \E n \in New :
                LET before == {k \in New : k < n}
                IN  /\ active' = Added(before \cup {n}, active)
                    /\ takes' = Added(before \cup {n}, takes)
                    /\ saved' = IF before = {} THEN saved ELSE Added(before, active)
          /\ ticking' = FALSE
    /\ UNCHANGED <<folder, configured, up, watcher, partial, launches, settings, glitches>>

-----------------------------------------------------------------------------
(* The queue *)

(* An item becomes DONE and leaves queue.json; its file was moved to the archive, or
   stays where it is when there is no archive.  A run that fails after the move is a
   RemoveFile. *)
Deliver(n) ==
    /\ up /\ active[n] > 0
    /\ active' = [active EXCEPT ![n] = @ - 1]
    /\ saved' = active'
    /\ \/ size' = [size EXCEPT ![n] = 0]
       \/ UNCHANGED size
    /\ UNCHANGED <<drops, grown, vacant, configured, up, watcher, tick, takes, partial,
                   bounds>>

(* The user drops an item that failed; its file stays *)
Dismiss(n) ==
    /\ up /\ ~polled /\ active[n] > 0
    /\ active' = [active EXCEPT ![n] = @ - 1]
    /\ saved' = active'
    /\ UNCHANGED <<folder, configured, up, watcher, tick, takes, partial, bounds>>

-----------------------------------------------------------------------------

Environment == \E n \in Names : Drop(n) \/ Sync(n) \/ RemoveFile(n)
Worker == \E n \in Names : Deliver(n) \/ Dismiss(n)
Tick == Poll \/ Take

Next == Environment \/ Launch \/ Close \/ SetInbox \/ Tick \/ Worker

Spec == Init /\ [][Next]_vars

(* Tk runs the callbacks it was given, and Drive syncs on; nobody has to start the
   program or to settle a job. *)
FairSpec == Spec /\ WF_vars(Tick) /\ \A n \in Names : WF_vars(Sync(n))

-----------------------------------------------------------------------------

(* A file is handed off only when it is whole: two polls that see the same size are
   enough, through folders and files that are out of reach for a while, vanished files
   and names that come back (inbox_watcher.py, "must not be grabbed mid-write"). *)
HandedOffWhole == partial = {}

(* The queue never holds two items for one path, though a restart or a Settings edit
   makes the watcher forget what it handed off, and the worker settles jobs in the
   middle of a tick (queue_mixin.py, "can't enqueue it twice"). *)
OneActivePerPath == \A n \in Names : active[n] <= 1

(* What keeps a file from being taken: the program or its ticks end, the folder is
   unset, the file goes away. *)
Interrupted(n) == ~up \/ ~ticking \/ ~configured \/ size[n] = 0

(* A whole file under a name this session has not handed off is enqueued. *)
FileTaken ==
    \A n \in Names :
        (up /\ size[n] = Whole /\ n \notin done)
            ~> (active[n] > 0 \/ takes[n] > 0 \/ Interrupted(n))
=============================================================================
