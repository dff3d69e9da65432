-------------------------- MODULE Meetings_proofs --------------------------
(***************************************************************************)
(* How a meeting comes in, and what is written and shown of it, as TLAPS    *)
(* proves it: of Recorder, for any number of recordings and any time; of    *)
(* InboxIntake, for any names, sizes and bounds; of MeetingTexts, for any   *)
(* segments, voices, names and clips; and of MeetingsShown, for any         *)
(* directory and any jobs.                                                  *)
(***************************************************************************)
EXTENDS Recorder, InboxIntake, MeetingTexts, MeetingsShown, Runs_proofs

-----------------------------------------------------------------------------
(* The recorder.                                                              *)

(* An open stream belongs to the last recording, whose file is open as well, until
   stop() has silenced it. *)
StreamInv ==
    /\ stream # "none" => latest > 0 /\ file = latest
    /\ stream # "none" => recording \/ closing = "flagged"
    /\ recording => stream # "none" /\ closing = "no"
    /\ closing # "no" => latest > 0
    /\ block # 0 => stream = "running" /\ block = latest

(* A recording is queued once its file was closed; until then it is the last one. *)
QueueInv ==
    /\ recording \/ closing # "no" => latest \notin queued
    /\ QueuedIsFinal

(* The block a callback holds while the recording is paused was captured before. *)
LeakInv ==
    /\ leaked <= 1
    /\ paused /\ leaked = 1 => block = 0

(* The clock the time stamps were read from never runs back. *)
ClockInv == startTime <= now /\ pauseStart <= now

RecorderInv ==
    RecorderTypeOK /\ StreamInv /\ QueueInv /\ LeakInv /\ ClockInv /\ BlocksStayInRecording

(* The invariant of the recorder. *)
LEMMA RecorderInvariant == RecorderSpec => []RecorderInv
<1> USE RecorderAssumption
<1>1. ASSUME RecorderInit PROVE RecorderInv
  <2>1. RecorderTypeOK
    <3>1. recording \in BOOLEAN /\ paused \in BOOLEAN /\ misplaced \in BOOLEAN
      BY <1>1 DEF RecorderInit
    <3> QED
      BY <1>1, <3>1 DEF RecorderInit, RecorderTypeOK
  <2>2. StreamInv /\ QueueInv /\ LeakInv
    BY <1>1 DEF RecorderInit, StreamInv, QueueInv, QueuedIsFinal, LeakInv
  <2>3. ClockInv /\ BlocksStayInRecording
    BY <1>1 DEF RecorderInit, ClockInv, BlocksStayInRecording
  <2> QED
    BY <2>1, <2>2, <2>3 DEF RecorderInv
<1>2. ASSUME RecorderInv, [RecorderNext]_recorderVars PROVE RecorderInv'
  <2> USE <1>2 DEF RecorderInv, RecorderTypeOK, StreamInv, QueueInv, QueuedIsFinal, LeakInv,
               ClockInv, BlocksStayInRecording, Stopped, flags, audio, clock
  <2>1. CASE Start
    <3>1. stream = "none" /\ block = 0
      BY <2>1 DEF Start
    <3>2. latest' = latest + 1 /\ file' = latest + 1 /\ latest + 1 \notin queued
      BY <2>1 DEF Start
    <3>3. /\ recording' \in BOOLEAN /\ paused' \in BOOLEAN
          /\ stream' \in {"none", "built", "running"}
      BY <2>1 DEF Start
    <3>4. startTime' \in 0..now /\ pauseStart' \in 0..now /\ pauseOffset' \in Nat /\ recorded' \in Nat
      BY <2>1 DEF Start
    <3>5. RecorderTypeOK'
      BY <2>1, <3>2, <3>3, <3>4 DEF Start
    <3>6. StreamInv'
      BY <2>1, <3>1, <3>2 DEF Start
    <3>7. QueueInv' /\ LeakInv' /\ ClockInv' /\ BlocksStayInRecording'
      BY <2>1, <3>1, <3>2, <3>4 DEF Start
    <3> QED
      BY <3>5, <3>6, <3>7
  <2>2. CASE Pause
    BY <2>2 DEF Pause
  <2>3. CASE Resume
    <3>1. pauseOffset' \in Nat
      BY <2>3 DEF Resume
    <3>2. RecorderTypeOK'
      BY <2>3, <3>1 DEF Resume
    <3>3. StreamInv' /\ QueueInv' /\ LeakInv'
      BY <2>3 DEF Resume
    <3>4. ClockInv' /\ BlocksStayInRecording'
      BY <2>3 DEF Resume
    <3> QED
      BY <3>2, <3>3, <3>4
  <2>4. CASE Stop
    BY <2>4 DEF Stop
  <2>5. CASE StopStream
    BY <2>5 DEF StopStream
  <2>6. CASE CloseFile
    BY <2>6 DEF CloseFile
  <2>7. CASE Captured
    BY <2>7 DEF Captured
  <2>8. CASE AppendBlock
    <3>1. misplaced' = FALSE
      BY <2>8 DEF AppendBlock
    <3>2. leaked' \in Nat /\ leaked' <= 1
      BY <2>8 DEF AppendBlock
    <3> QED
      BY <2>8, <3>1, <3>2 DEF AppendBlock
  <2>9. CASE Time
    BY <2>9 DEF Time
  <2>10. CASE UNCHANGED recorderVars
    BY <2>10 DEF recorderVars
  <2> QED
    BY <2>1, <2>2, <2>3, <2>4, <2>5, <2>6, <2>7, <2>8, <2>9, <2>10 DEF RecorderNext
<1> QED
  BY <1>1, <1>2, PTL DEF RecorderSpec

(* No block is appended to the file of another recording. *)
THEOREM BlocksKeptApart == RecorderSpec => []BlocksStayInRecording
  BY RecorderInvariant, PTL DEF RecorderInv

(* A pause lets one block through at most. *)
THEOREM PauseIsPrompt == RecorderSpec => []OneBlockAfterPause
<1>1. RecorderInv => OneBlockAfterPause
  BY DEF RecorderInv, LeakInv, OneBlockAfterPause
<1> QED
  BY <1>1, RecorderInvariant, PTL

(* What the queue was given is not written to any more. *)
THEOREM QueuedFilesFinal == RecorderSpec => []QueuedIsFinal
<1>1. RecorderInv => QueuedIsFinal
  BY DEF RecorderInv, QueueInv
<1> QED
  BY <1>1, RecorderInvariant, PTL

-----------------------------------------------------------------------------
(* The inbox.                                                                 *)

(* What the watcher remembers of a file that is still growing is behind the file, or is
   its size and the file has not changed since; of a name that is free it remembers
   nothing. *)
Behind ==
    \A n \in Names :
        /\ n \in vacant => size[n] = 0 /\ (up => seen[n] = 0)
        /\ up /\ n \in InSync => seen[n] <= size[n] /\ (seen[n] = size[n] => n \notin grown)

(* The file of the queue, read at the next start, obeys the rule of the queue. *)
OneEach == \A n \in Names : active[n] <= 1 /\ saved[n] <= 1

IntakeInv == TypeOK /\ Behind /\ HandedOffWhole /\ OneEach

(* Items that are added to a queue keep it a queue. *)
LEMMA AddedTyped ==
    ASSUME NEW f \in [Names -> Nat], NEW S
    PROVE  /\ Added(S, f) \in [Names -> Nat]
           /\ \A n \in Names : Added(S, f)[n] = IF n \in S THEN f[n] + 1 ELSE f[n]
  BY DEF Added

(* One poll moves nothing but the watcher, and hands off no file that still grows. *)
LEMMA PollKeeps == ASSUME IntakeInv, Poll PROVE IntakeInv'
<1> USE InboxAssumption DEF IntakeInv
<1>1. \A n \in Names : LastSize(n) \in 0..Whole /\ (LastSize(n) = 0 \/ LastSize(n) = seen[n])
  BY DEF LastSize, TypeOK
<1>2. \A lost : Stable(lost) \cap InSync = {}
  <2>1. \A n \in InSync : LastSize(n) # size[n]
    BY <1>1 DEF Poll, InSync, Files, Behind, TypeOK
  <2> QED
    BY <2>1 DEF Stable
<1>3. partial' = {}
  BY <1>2 DEF Poll, HandedOffWhole
<1>4. \A lost : /\ Sizes(lost) \in [Names -> 0..Whole]
                /\ \A n \in Names : /\ Sizes(lost)[n] \in {0, LastSize(n), size[n]}
                                    /\ size[n] = 0 => Sizes(lost)[n] = 0
  BY <1>1 DEF Sizes, Files, TypeOK
<1>5. /\ seen' \in [Names -> 0..Whole]
      /\ \A n \in Names : seen'[n] \in {0, LastSize(n), size[n]}
      /\ \A n \in Names : n \in vacant' => size[n] = 0 /\ seen'[n] = 0
  <2>1. CASE \E lost \in SUBSET Files : seen' = Sizes(lost) /\ vacant' = Names \ Files
    BY <2>1, <1>4 DEF Files, TypeOK
  <2>2. CASE (seen' = [n \in Names |-> LastSize(n)] \/ seen' = Zero) /\ UNCHANGED vacant
    BY <2>2, <1>1 DEF Zero, Behind, Poll, TypeOK
  <2> QED
    BY <2>1, <2>2 DEF Poll
<1>6. TypeOK'
  <2>1. ready' \subseteq Names /\ done' \subseteq Names /\ vacant' \subseteq Names
    BY DEF Poll, TypeOK, Stable, HandedOff, Known, Files
  <2>2. glitches' \in Nat
    BY DEF Poll, TypeOK
  <2> QED
    BY <1>3, <1>5, <2>1, <2>2 DEF Poll, TypeOK, jobs
<1>7. Behind'
  BY <1>1, <1>5 DEF Poll, Behind, InSync, Files, TypeOK
<1>8. OneEach'
  BY DEF Poll, OneEach, jobs
<1> QED
  BY <1>3, <1>6, <1>7, <1>8 DEF HandedOffWhole

(* The rest of a tick enqueues only paths the queue does not hold. *)
LEMMA TakeKeeps == ASSUME IntakeInv, Take PROVE IntakeInv'
<1> USE InboxAssumption DEF IntakeInv
<1>1. \A S : S \subseteq New =>
         /\ Added(S, active) \in [Names -> Nat] /\ Added(S, takes) \in [Names -> Nat]
         /\ \A n \in Names : Added(S, active)[n] <= 1
  BY AddedTyped DEF TypeOK, OneEach, New
<1>2. /\ active' \in [Names -> Nat] /\ takes' \in [Names -> Nat] /\ saved' \in [Names -> Nat]
      /\ \A n \in Names : active'[n] <= 1 /\ saved'[n] <= 1
  <2>1. CASE /\ active' = Added(New, active) /\ takes' = Added(New, takes)
             /\ saved' = IF New = {} THEN saved ELSE active'
    BY <2>1, <1>1 DEF TypeOK, OneEach
  <2>2. ASSUME NEW n \in New, NEW before \in SUBSET New,
               active' = Added(before \cup {n}, active),
               takes' = Added(before \cup {n}, takes),
               saved' = IF before = {} THEN saved ELSE Added(before, active)
        PROVE  /\ active' \in [Names -> Nat] /\ takes' \in [Names -> Nat]
               /\ saved' \in [Names -> Nat]
               /\ \A k \in Names : active'[k] <= 1 /\ saved'[k] <= 1
    <3>1. before \cup {n} \subseteq New
      OBVIOUS
    <3> QED
      BY <2>2, <3>1, <1>1 DEF TypeOK, OneEach
  <2> QED
    BY <2>1, <2>2 DEF Take
<1>3. TypeOK'
  <2>1. \/ ticking' = ticking /\ saveFailures' = saveFailures
        \/ ticking' = FALSE /\ saveFailures' = saveFailures + 1
    BY DEF Take
  <2>2. ticking' \in BOOLEAN
    BY <2>1, Zenon DEF TypeOK
  <2>3. saveFailures' \in Nat
    BY <2>1 DEF TypeOK
  <2>4. ready' \subseteq Names /\ polled' \in BOOLEAN
    BY DEF Take
  <2>5. UNCHANGED <<size, drops, grown, vacant, configured, up, watching, seen, done,
                    partial, launches, settings, glitches>>
    BY DEF Take, folder, watcher
  <2> QED
    BY <1>2, <2>2, <2>4, <2>5, <2>3 DEF TypeOK
<1>4. Behind' /\ HandedOffWhole'
  BY DEF Take, Behind, HandedOffWhole, InSync, Files, folder, watcher
<1> QED
  BY <1>2, <1>3, <1>4 DEF OneEach

(* The invariant of the intake. *)
LEMMA IntakeInvariant == Spec => []IntakeInv
<1> USE InboxAssumption
<1>1. ASSUME Init PROVE IntakeInv
  <2>1. Zero \in [Names -> Nat] /\ Zero \in [Names -> 0..Whole] /\ \A n \in Names : Zero[n] = 0
    BY DEF Zero
  <2>2. TypeOK
    BY <1>1, <2>1 DEF Init, TypeOK
  <2> QED
    BY <1>1, <2>1, <2>2 DEF Init, IntakeInv, Behind, HandedOffWhole, OneEach, InSync, Files
<1>2. ASSUME IntakeInv, [Next]_vars PROVE IntakeInv'
  <2> USE <1>2 DEF IntakeInv, TypeOK, Behind, HandedOffWhole, OneEach, InSync, Files,
               folder, watcher, tick, jobs, bounds
  <2>1. ASSUME NEW n \in Names, Drop(n) PROVE IntakeInv'
    <3>1. PICK s \in 1..Whole : size' = [size EXCEPT ![n] = s]
      BY <2>1 DEF Drop
    <3>2. size' \in [Names -> 0..Whole] /\ drops' \in [Names -> Nat] /\ takes' \in [Names -> Nat]
      BY <2>1, <3>1 DEF Drop
    <3>3. up => seen[n] = 0
      BY <2>1 DEF Drop
    <3> QED
      BY <2>1, <3>1, <3>2, <3>3 DEF Drop
  <2>2. ASSUME NEW n \in Names, Sync(n) PROVE IntakeInv'
    <3>1. PICK s \in size[n]+1 .. Whole : size' = [size EXCEPT ![n] = s]
      BY <2>2 DEF Sync
    <3>2. size' \in [Names -> 0..Whole] /\ n \notin vacant
      BY <2>2, <3>1 DEF Sync
    <3> QED
      BY <2>2, <3>1, <3>2 DEF Sync
  <2>3. ASSUME NEW n \in Names, RemoveFile(n) PROVE IntakeInv'
    BY <2>3 DEF RemoveFile
  <2>4. CASE Launch
    BY <2>4 DEF Launch, Zero
  <2>5. CASE Close
    BY <2>5 DEF Close
  <2>6. CASE SetInbox
    BY <2>6 DEF SetInbox
  <2>7. ASSUME NEW n \in Names, Deliver(n) PROVE IntakeInv'
    <3>1. active' \in [Names -> Nat] /\ saved' \in [Names -> Nat] /\ size' \in [Names -> 0..Whole]
      BY <2>7 DEF Deliver
    <3> QED
      BY <2>7, <3>1 DEF Deliver
  <2>8. ASSUME NEW n \in Names, Dismiss(n) PROVE IntakeInv'
    BY <2>8 DEF Dismiss
  <2>9. CASE UNCHANGED vars
    BY <2>9 DEF vars
  <2> QED
    BY <2>1, <2>2, <2>3, <2>4, <2>5, <2>6, <2>7, <2>8, <2>9, PollKeeps, TakeKeeps
       DEF Next, Environment, Worker, Tick
<1> QED
  BY <1>1, <1>2, PTL DEF Spec

(* No file is grabbed mid-write, as long as a growing file grows between two polls. *)
THEOREM WholeFilesOnly == Spec => []HandedOffWhole
  BY IntakeInvariant, PTL DEF IntakeInv

(* No path is enqueued twice, over any number of restarts and edits of the folder. *)
THEOREM NoDoubleIntake == Spec => []OneActivePerPath
<1>1. IntakeInv => OneActivePerPath
  BY DEF IntakeInv, OneEach, OneActivePerPath
<1> QED
  BY <1>1, IntakeInvariant, PTL

-----------------------------------------------------------------------------
(* The segments of a meeting, with labels from L.                             *)
AreLabels(L) == \A l \in L : l = Text!NoOne \/ Text!IsAnonymous(l) \/ Text!IsName(l)
Segment(L) == [speaker : L, text : Nat, at : Nat]
Segmented(segs, L) ==
    /\ AreLabels(L) /\ segs \in Seq(Segment(L))
    /\ \A i \in DOMAIN segs : segs[i].at = i /\ segs[i].text \in {Text!Blank, i}

(* Concatenations and least elements are the same in Transcript. *)
LEMMA SameOperators ==
    /\ \A s : Text!FlattenSeq(s) = FlattenSeq(s)
    /\ \A s : Text!ToSet(s) = ToSet(s)
    /\ \A s : Text!Max(s) = Max(s)
    /\ \A s : Text!Cardinality(s) = Cardinality(s)
<1>1. \A s : Text!FlattenSeq(s) = FlattenSeq(s)
  BY DEF Text!FlattenSeq, FlattenSeq
<1>2. \A s : Text!ToSet(s) = ToSet(s) /\ Text!Max(s) = Max(s)
  BY DEF Text!ToSet, ToSet, Text!Max, Max
<1>3. \A s : Text!Cardinality(s) = Cardinality(s)
  BY DEF Text!Cardinality, Cardinality
<1> QED BY <1>1, <1>2, <1>3

(* No voice is shown as nobody or as a person. *)
LEMMA ShownApart ==
    /\ Len(Text!NoOne) = 0
    /\ \A k \in Nat : Len(Text!Shown(k)) = 2 /\ Text!Shown(k)[2] = k
  BY DEF Text!NoOne, Text!Shown

(* What is said first under a label: the least such place, or 0. *)
LEMMA FirstIs ==
    ASSUME NEW L, NEW segs, Segmented(segs, L), NEW label
    PROVE  /\ Text!First(segs, label) \in 0 .. Len(segs)
           /\ IF \E i \in DOMAIN segs : segs[i].speaker = label
              THEN /\ Text!First(segs, label) \in DOMAIN segs
                   /\ segs[Text!First(segs, label)].speaker = label
                   /\ \A i \in 1 .. Text!First(segs, label) - 1 : segs[i].speaker # label
              ELSE Text!First(segs, label) = 0
<1> DEFINE I == {i \in 1 .. Len(segs) : segs[i].speaker = label}
           least == Text!Min(I)
<1>1. Len(segs) \in Nat /\ DOMAIN segs = 1 .. Len(segs)
  BY DEF Segmented
<1>2. Text!First(segs, label) = IF I # {} THEN least ELSE 0
  BY DEF Text!First, Text!SelectInSeq
<1>3. ASSUME I # {} PROVE least \in I /\ \A j \in I : least <= j
  <2>1. I \subseteq Nat
    OBVIOUS
  <2> HIDE DEF I
  <2>2. \E x \in I : \A y \in I : x <= y
    BY <1>3, <2>1, NatLeast
  <2> QED BY <2>2 DEF Text!Min
<1> HIDE DEF least
<1>4. CASE I = {}
  BY <1>1, <1>2, <1>4
<1>5. CASE I # {}
  <2>1. least \in DOMAIN segs /\ segs[least].speaker = label /\ least \in 0 .. Len(segs)
    BY <1>1, <1>3, <1>5
  <2>2. ASSUME NEW i \in 1 .. least - 1 PROVE segs[i].speaker # label
    <3>1. i \in 1 .. Len(segs) /\ ~(least <= i)
      BY <1>1, <2>1
    <3> QED BY <1>3, <1>5, <3>1
  <2> QED BY <1>2, <1>5, <2>1, <2>2
<1> QED BY <1>4, <1>5

(* The labels of a meeting, and where they are first. *)
LEMMA LabelsAre ==
    ASSUME NEW L, NEW segs, Segmented(segs, L)
    PROVE  /\ \A i \in DOMAIN segs : segs[i].speaker # Text!NoOne => segs[i].speaker \in Text!Labels(segs)
           /\ \A l \in Text!Labels(segs) :
                /\ Text!IsAnonymous(l) \/ Text!IsName(l)
                /\ l # Text!NoOne /\ \E i \in DOMAIN segs : segs[i].speaker = l
                /\ Text!First(segs, l) \in DOMAIN segs /\ segs[Text!First(segs, l)].speaker = l
           /\ IsFiniteSet(Text!Labels(segs))
<1>1. \A i \in DOMAIN segs : segs[i].speaker \in L
  <2>1. \A i \in DOMAIN segs : segs[i] \in Segment(L)
    BY DEF Segmented
  <2> QED BY <2>1 DEF Segment
<1>2. ASSUME NEW l \in Text!Labels(segs)
      PROVE  /\ Text!IsAnonymous(l) \/ Text!IsName(l)
             /\ l # Text!NoOne /\ \E i \in DOMAIN segs : segs[i].speaker = l
             /\ Text!First(segs, l) \in DOMAIN segs /\ segs[Text!First(segs, l)].speaker = l
  <2>1. l # Text!NoOne /\ \E i \in DOMAIN segs : segs[i].speaker = l
    BY DEF Text!Labels
  <2>2. l \in L
    BY <1>1, <2>1
  <2>3. Text!IsAnonymous(l) \/ Text!IsName(l)
    BY <2>1, <2>2 DEF Segmented, AreLabels
  <2>4. Text!First(segs, l) \in DOMAIN segs /\ segs[Text!First(segs, l)].speaker = l
    BY <2>1, FirstIs
  <2> QED BY <2>1, <2>3, <2>4
<1>3. IsFiniteSet(Text!Labels(segs))
  <2> DEFINE n == Len(segs)
             T == {segs[i].speaker : i \in 1 .. n}
  <2>1. n \in Nat /\ DOMAIN segs = 1 .. n
    BY DEF Segmented
  <2>2. IsFiniteSet(1 .. n)
    BY <2>1, FS_Interval
  <2> DEFINE f == [i \in 1 .. n |-> segs[i].speaker]
  <2>3. f \in Surjection(1 .. n, T)
    BY DEF Surjection
  <2>4. IsFiniteSet(T)
    <3> HIDE DEF n, T, f
    <3> QED BY <2>2, <2>3, FS_Surjection
  <2>5. Text!Labels(segs) \subseteq T
    BY <2>1 DEF Text!Labels
  <2> HIDE DEF T
  <2> QED BY <2>4, <2>5, FS_Subset
<1>4. \A i \in DOMAIN segs : segs[i].speaker # Text!NoOne => segs[i].speaker \in Text!Labels(segs)
  BY DEF Text!Labels
<1> QED BY <1>2, <1>3, <1>4

(* The voices are shown apart: a name as it is, each of the others as a voice of its own. *)
LEMMA SpeakerMapRight ==
    ASSUME NEW L, NEW segs, Segmented(segs, L)
    PROVE  LET map == Text!SpeakerMap(segs)
               labels == Text!Labels(segs)
           IN /\ DOMAIN map = labels
              /\ \A l \in labels : IF Text!IsAnonymous(l) THEN Len(map[l]) = 2 ELSE map[l] = l
              /\ \A l, m \in labels : map[l] = map[m] => l = m
<1> DEFINE map == Text!SpeakerMap(segs)
           labels == Text!Labels(segs)
           At(l) == Text!First(segs, l)
           Below(l) == {m \in labels : Text!IsAnonymous(m) /\ At(m) < At(l)}
           Rank(l) == 1 + Cardinality(Below(l))
<1>1. /\ DOMAIN map = labels
      /\ \A l \in labels : map[l] = IF Text!IsAnonymous(l) THEN Text!Shown(Rank(l)) ELSE l
  <2> DEFINE Shown(l) == IF Text!IsAnonymous(l) THEN Text!Shown(1 + Text!Cardinality(Below(l))) ELSE l
  <2>1. map = [l \in labels |-> Shown(l)]
    BY DEF Text!SpeakerMap
  <2> HIDE DEF map, labels, Below
  <2>2. \A l : Shown(l) = IF Text!IsAnonymous(l) THEN Text!Shown(Rank(l)) ELSE l
    BY SameOperators
  <2> HIDE DEF Shown, Rank
  <2> QED BY <2>1, <2>2
<1>2. \A l \in labels : At(l) \in Nat /\ segs[At(l)].speaker = l /\ (Text!IsAnonymous(l) \/ Text!IsName(l))
  <2>1. Len(segs) \in Nat /\ DOMAIN segs = 1 .. Len(segs)
    BY DEF Segmented
  <2>2. \A l \in labels : At(l) \in DOMAIN segs /\ segs[At(l)].speaker = l /\ (Text!IsAnonymous(l) \/ Text!IsName(l))
    BY LabelsAre
  <2> HIDE DEF labels, At
  <2>3. \A x \in DOMAIN segs : x \in Nat
    BY <2>1
  <2> QED BY <2>2, <2>3
<1>3. IsFiniteSet(labels)
  BY LabelsAre
<1> HIDE DEF map, labels, At
<1>4. ASSUME NEW l \in labels PROVE IsFiniteSet(Below(l)) /\ Cardinality(Below(l)) \in Nat
  <2>1. Below(l) \in SUBSET labels
    OBVIOUS
  <2> HIDE DEF Below
  <2>2. IsFiniteSet(Below(l))
    BY <1>3, <2>1, FS_Subset
  <2> QED BY <2>2, FS_CardinalityType
<1>5. ASSUME NEW l \in labels, NEW m \in labels, Text!IsAnonymous(l), At(l) < At(m)
      PROVE  Rank(l) < Rank(m)
  <2>1. Below(l) \in SUBSET Below(m) /\ l \in Below(m) /\ l \notin Below(l)
    BY <1>2, <1>5
  <2> HIDE DEF Below
  <2>2. /\ Cardinality(Below(l)) <= Cardinality(Below(m))
        /\ Cardinality(Below(m)) = Cardinality(Below(l)) => Below(m) = Below(l)
    BY <1>4, <2>1, FS_Subset
  <2> QED BY <1>4, <2>1, <2>2
<1>6. \A l \in labels : Rank(l) \in Nat
  <2> HIDE DEF Below
  <2> QED BY <1>4
<1> HIDE DEF Rank
<1>7. ASSUME NEW l \in labels, NEW m \in labels, Text!IsAnonymous(l), Text!IsAnonymous(m), Rank(l) = Rank(m)
      PROVE  l = m
  <2>1. ~(At(l) < At(m)) /\ ~(At(m) < At(l))
    BY <1>5, <1>6, <1>7
  <2>2. At(l) = At(m)
    BY <1>2, <2>1
  <2> QED BY <1>2, <2>2
<1>8. \A l \in labels : IF Text!IsAnonymous(l) THEN Len(map[l]) = 2 /\ map[l][2] = Rank(l) ELSE map[l] = l
  BY <1>1, <1>6, ShownApart
<1>9. \A l \in labels : ~Text!IsAnonymous(l) => Len(l) # 2
  BY DEF Text!IsAnonymous
<1>10. ASSUME NEW l \in labels, NEW m \in labels, map[l] = map[m] PROVE l = m
  <2>1. CASE Text!IsAnonymous(l) /\ Text!IsAnonymous(m)
    BY <1>7, <1>8, <1>10, <2>1
  <2>2. CASE ~Text!IsAnonymous(l) /\ ~Text!IsAnonymous(m)
    BY <1>8, <1>10, <2>2
  <2>3. CASE Text!IsAnonymous(l) /\ ~Text!IsAnonymous(m)
    BY <1>8, <1>9, <1>10, <2>3
  <2>4. CASE ~Text!IsAnonymous(l) /\ Text!IsAnonymous(m)
    BY <1>8, <1>9, <1>10, <2>4
  <2> QED BY <2>1, <2>2, <2>3, <2>4
<1>11. DOMAIN map = labels /\ \A l \in labels : IF Text!IsAnonymous(l) THEN Len(map[l]) = 2 ELSE map[l] = l
  BY <1>1, <1>8
<1> QED BY <1>10, <1>11 DEF map, labels

(* Who is shown: nobody for nobody, a name for a name, another voice otherwise. *)
LEMMA WhoIs ==
    ASSUME NEW L, NEW segs, Segmented(segs, L), NEW i \in DOMAIN segs
    PROVE  LET who == Text!Who(segs, segs[i])
               l == segs[i].speaker
           IN /\ who = Text!NoOne <=> l = Text!NoOne
              /\ Text!IsName(who) <=> Text!IsName(l)
              /\ Text!IsName(l) => who = l
              /\ l # Text!NoOne => l \in Text!Labels(segs) /\ who = Text!SpeakerMap(segs)[l]
<1> DEFINE who == Text!Who(segs, segs[i])
           l == segs[i].speaker
           map == Text!SpeakerMap(segs)
<1>1. who = IF l = Text!NoOne THEN Text!NoOne ELSE map[l]
  BY DEF Text!Who
<1>2. l # Text!NoOne => /\ l \in Text!Labels(segs) /\ (Text!IsAnonymous(l) \/ Text!IsName(l))
                        /\ IF Text!IsAnonymous(l) THEN Len(map[l]) = 2 ELSE map[l] = l
  BY LabelsAre, SpeakerMapRight
<1> HIDE DEF who, l, map
<1>3. Len(Text!NoOne) = 0
  BY ShownApart
<1>4. /\ who = Text!NoOne <=> l = Text!NoOne
      /\ Text!IsName(who) <=> Text!IsName(l)
      /\ Text!IsName(l) => who = l
      /\ l # Text!NoOne => l \in Text!Labels(segs) /\ who = map[l]
  <2>1. CASE l = Text!NoOne
    BY <1>1, <1>3, <2>1 DEF Text!IsName
  <2>2. CASE l # Text!NoOne /\ Text!IsAnonymous(l)
    BY <1>1, <1>2, <1>3, <2>2 DEF Text!IsName, Text!IsAnonymous
  <2>3. CASE l # Text!NoOne /\ ~Text!IsAnonymous(l)
    BY <1>1, <1>2, <1>3, <2>3 DEF Text!IsName
  <2> QED BY <2>1, <2>2, <2>3
<1> QED BY <1>4 DEF who, l, map

-----------------------------------------------------------------------------
(* The blocks of a text with speakers, for what people said at every place    *)
(* that is not silent.                                                        *)
Whos(segs) == {Text!Who(segs, segs[i]) : i \in DOMAIN segs} \cup {Text!NoOne}
BlockSet(segs) == [who : Whos(segs), texts : Seq(Nat), at : Nat]
Loops(segs) == [out : Seq(BlockSet(segs)), who : Whos(segs), texts : Seq(Nat), at : Nat]
SaidAt(segs, silent, i) == IF i \in silent THEN <<>> ELSE <<segs[i].text>>
Taken(segs, silent, a, i) ==
    LET who == Text!Who(segs, segs[i])
    IN IF who = a.who /\ who # Text!NoOne THEN [a EXCEPT !.texts = @ \o SaidAt(segs, silent, i)]
       ELSE [out |-> Text!Written(a), who |-> who, texts |-> SaidAt(segs, silent, i), at |-> segs[i].at]

(* A block that is written: behind the others, unless it has no text. *)
LEMMA WrittenIs ==
    ASSUME NEW segs, NEW a \in Loops(segs)
    PROVE  /\ Text!Written(a) \in Seq(BlockSet(segs))
           /\ a.texts = <<>> => Text!Written(a) = a.out
           /\ a.texts # <<>> => /\ Text!Block(a.who, a.texts, a.at) \in BlockSet(segs)
                                /\ Text!Written(a) = Append(a.out, Text!Block(a.who, a.texts, a.at))
<1>1. a.out \in Seq(BlockSet(segs)) /\ Text!Block(a.who, a.texts, a.at) \in BlockSet(segs)
  BY DEF Loops, BlockSet, Text!Block
<1>2. Text!Written(a) = IF a.texts = <<>> THEN a.out ELSE Append(a.out, Text!Block(a.who, a.texts, a.at))
  BY DEF Text!Written
<1>3. \A D : \A s \in Seq(D) : \A d \in D : Append(s, d) \in Seq(D)
  OBVIOUS
<1> QED BY <1>1, <1>2, <1>3

(* The loop of the format, one segment after the other. *)
Blocked(segs, silent, h) ==
    /\ h \in [0 .. Len(segs) -> Loops(segs)]
    /\ h[0] = Text!NoBlock
    /\ Text!Blocks(segs, silent) = Text!Written(h[Len(segs)])
    /\ \A k \in 1 .. Len(segs) : h[k] = Taken(segs, silent, h[k - 1], k)
HasBlocked(segs, silent) == \E h : Blocked(segs, silent, h)

(* What is done with a segment. *)
LEMMA TakenIs ==
    ASSUME NEW L, NEW segs, Segmented(segs, L), NEW silent, NEW a \in Loops(segs), NEW i \in DOMAIN segs
    PROVE  Taken(segs, silent, a, i) \in Loops(segs)
<1>1. segs[i] \in Segment(L)
  BY DEF Segmented
<1>2. segs[i].text \in Nat /\ segs[i].at \in Nat
  BY <1>1 DEF Segment
<1>3. SaidAt(segs, silent, i) \in Seq(Nat)
  BY <1>2 DEF SaidAt
<1>4. Text!Who(segs, segs[i]) \in Whos(segs)
  BY DEF Whos
<1>5. Text!Written(a) \in Seq(BlockSet(segs))
  BY WrittenIs
<1>6. a.texts \in Seq(Nat) /\ a.texts \o SaidAt(segs, silent, i) \in Seq(Nat)
  <2>1. a.texts \in Seq(Nat)
    BY DEF Loops
  <2> QED BY <1>3, <2>1
<1>7. [a EXCEPT !.texts = @ \o SaidAt(segs, silent, i)] \in Loops(segs)
  BY <1>6 DEF Loops
<1>8. [out |-> Text!Written(a), who |-> Text!Who(segs, segs[i]), texts |-> SaidAt(segs, silent, i), at |-> segs[i].at]
        \in Loops(segs)
  BY <1>2, <1>3, <1>4, <1>5 DEF Loops
<1> QED BY <1>7, <1>8 DEF Taken

(* The loop is such a run. *)
LEMMA BlocksRun ==
    ASSUME NEW L, NEW segs, Segmented(segs, L), NEW silent
    PROVE  HasBlocked(segs, silent)
<1> DEFINE n == Len(segs)
           A == Loops(segs)
           a0 == Text!NoBlock
           Said(i) == IF i \in silent THEN <<>> ELSE <<segs[i].text>>
           Do(a, i) == LET who == Text!Who(segs, segs[i])
                       IN IF who = a.who /\ who # Text!NoOne THEN [a EXCEPT !.texts = @ \o Said(i)]
                          ELSE [out |-> Text!Written(a), who |-> who, texts |-> Said(i), at |-> segs[i].at]
           ids == [i \in DOMAIN segs |-> i]
           st == [p \in A \X (1 .. n) |-> Do(p[1], p[2])]
           Eq(g) == g = [s \in SUBSET DOMAIN ids |->
                           IF s = {} THEN a0 ELSE Do(g[s \ {Text!Max(s)}], ids[Text!Max(s)])]
           it == CHOOSE g : Eq(g)
<1>1. n \in Nat /\ DOMAIN segs = 1 .. n /\ DOMAIN ids = 1 .. n /\ \A i \in 1 .. n : ids[i] = i
  BY DEF Segmented
<1>2. a0 \in A
  BY DEF Text!NoBlock, Loops, Whos
<1>a. \A a, i : Do(a, i) = Taken(segs, silent, a, i)
  BY DEF Taken, SaidAt
<1>b. ASSUME NEW a \in A, NEW i \in 1 .. n PROVE Do(a, i) \in A
  <2>1. Taken(segs, silent, a, i) \in A
    BY <1>1, TakenIs
  <2>2. Do(a, i) = Taken(segs, silent, a, i)
    BY <1>a
  <2> HIDE DEF Do, A
  <2> QED BY <2>1, <2>2
<1>3. st \in [A \X (1 .. n) -> A]
  <2> HIDE DEF A, n, Do
  <2> QED BY <1>b
<1>4. PICK g0 \in [SUBSET (1 .. n) -> A] : Folded(st, a0, g0, n)
  <2> HIDE DEF st, A, n, a0
  <2>1. HasFold(st, a0, A, n)
    BY <1>1, <1>2, <1>3, FoldExists
  <2> QED BY <2>1 DEF HasFold
<1>5. ASSUME NEW s \in SUBSET (1 .. n), s # {}
      PROVE  Max(s) \in 1 .. n /\ s \ {Max(s)} \in SUBSET (1 .. n)
  BY <1>1, <1>5, TopOf
<1>6. \A s : Text!Max(s) = Max(s)
  BY SameOperators
<1>7. ASSUME NEW a \in A, NEW k \in 1 .. n PROVE st[<<a, k>>] = Do(a, k)
  <2> HIDE DEF A, n, Do
  <2> QED OBVIOUS
<1>10. Text!Blocks(segs, silent) = Text!Written(it[DOMAIN ids])
  BY DEF Text!Blocks, Text!FoldLeftDomain, Text!FoldLeft, Text!MapThenFoldSet
<1> HIDE DEF st, A, n, Do, a0, ids
<1>8. Eq(g0)
  <2>1. ASSUME NEW s \in SUBSET (1 .. n)
        PROVE  g0[s] = IF s = {} THEN a0 ELSE Do(g0[s \ {Text!Max(s)}], ids[Text!Max(s)])
    <3>1. CASE s = {}
      BY <1>4, <3>1 DEF Folded
    <3>2. CASE s # {}
      <4>1. g0[s] = st[<<g0[s \ {Max(s)}], Max(s)>>] /\ g0[s \ {Max(s)}] \in A
        BY <1>4, <1>5, <3>2 DEF Folded
      <4>2. Max(s) \in 1 .. n /\ ids[Max(s)] = Max(s) /\ Text!Max(s) = Max(s)
        BY <1>1, <1>5, <1>6, <3>2
      <4>3. st[<<g0[s \ {Max(s)}], Max(s)>>] = Do(g0[s \ {Max(s)}], Max(s))
        BY <1>7, <4>1, <4>2
      <4> QED BY <3>2, <4>1, <4>2, <4>3
    <3> QED BY <3>1, <3>2
  <2> QED BY <1>1, <2>1
<1>9. Eq(it)
  <2> HIDE DEF Eq
  <2> QED BY <1>8
<1>11. FoldsAlong(it, st, a0, A, n)
  <2> HIDE DEF it
  <2>1. \A s \in SUBSET (1 .. n) :
          it[s] = IF s = {} THEN a0 ELSE Do(it[s \ {Text!Max(s)}], ids[Text!Max(s)])
    BY <1>1, <1>9
  <2>2. it[{}] = a0
    BY <2>1
  <2>3. ASSUME NEW s \in SUBSET (1 .. n), s # {}, it[s \ {Max(s)}] \in A
        PROVE  it[s] = st[<<it[s \ {Max(s)}], Max(s)>>]
    BY <1>1, <1>5, <1>6, <1>7, <2>1, <2>3
  <2> QED BY <2>2, <2>3 DEF FoldsAlong
<1> HIDE DEF it, Eq
<1>12. PICK h \in [0 .. n -> A] :
         /\ h[0] = a0 /\ h[n] = it[1 .. n]
         /\ \A k \in 1 .. n : h[k] = st[<<h[k - 1], k>>]
  <2>1. HasRun(st, a0, A, n, it[1 .. n])
    BY <1>1, <1>2, <1>3, <1>11, FoldRun
  <2> QED BY <2>1 DEF HasRun
<1>13. ASSUME NEW k \in 1 .. n PROVE h[k] = Taken(segs, silent, h[k - 1], k)
  <2>1. h[k - 1] \in A
    BY <1>1
  <2> QED BY <1>7, <1>12, <1>a, <2>1
<1>14. Text!Blocks(segs, silent) = Text!Written(h[n])
  BY <1>1, <1>10, <1>12
<1>15. Blocked(segs, silent, h)
  BY <1>12, <1>13, <1>14 DEF Blocked, A, n, a0
<1> QED BY <1>15 DEF HasBlocked

(* What the blocks of some hold, and what the segments of some do at the places that are not
   silent. *)
HeldBy(blocks, W) == FlattenSeq([b \in DOMAIN blocks |-> IF blocks[b].who \in W THEN blocks[b].texts ELSE <<>>])
Part(segs, silent, W, i) ==
    IF Text!Who(segs, segs[i]) \in W THEN SaidAt(segs, silent, i) ELSE <<>>
Parts(segs, silent, W) == [i \in DOMAIN segs |-> Part(segs, silent, W, i)]
Open(a, W) == IF a.who \in W THEN a.texts ELSE <<>>

(* A block more. *)
LEMMA HeldAppend ==
    ASSUME NEW segs, NEW blocks \in Seq(BlockSet(segs)), NEW piece \in BlockSet(segs), NEW W
    PROVE  /\ HeldBy(blocks, W) \in Seq(Nat)
           /\ HeldBy(Append(blocks, piece), W)
                = HeldBy(blocks, W) \o (IF piece.who \in W THEN piece.texts ELSE <<>>)
<1> DEFINE Of(b) == IF b.who \in W THEN b.texts ELSE <<>>
           n == Len(blocks)
           more == Append(blocks, piece)
           held == [i \in 1 .. n |-> Of(blocks[i])]
           heldMore == [i \in 1 .. n + 1 |-> Of(more[i])]
<1>1. /\ n \in Nat /\ DOMAIN blocks = 1 .. n /\ \A i \in 1 .. n : blocks[i] \in BlockSet(segs)
      /\ DOMAIN more = 1 .. n + 1 /\ more[n + 1] = piece /\ \A i \in 1 .. n : more[i] = blocks[i]
  OBVIOUS
<1>2. \A b \in BlockSet(segs) : Of(b) \in Seq(Nat)
  BY DEF BlockSet
<1>3. HeldBy(blocks, W) = FlattenSeq(held) /\ HeldBy(more, W) = FlattenSeq(heldMore)
  BY <1>1 DEF HeldBy
<1> HIDE DEF n, more
<1>4. held \in Seq(Seq(Nat)) /\ Len(held) = n
  <2> HIDE DEF Of
  <2>1. \A i \in 1 .. n : Of(blocks[i]) \in Seq(Nat)
    BY <1>1, <1>2
  <2> QED BY <1>1, <2>1
<1>5. heldMore = Append(held, Of(piece))
  <2> HIDE DEF Of
  <2>1. \A i \in 1 .. n : Of(more[i]) = Of(blocks[i])
    BY <1>1
  <2>2. Append(held, Of(piece)) = [i \in 1 .. n + 1 |-> IF i = n + 1 THEN Of(piece) ELSE held[i]]
    BY <1>1, <1>4
  <2>3. \A i \in 1 .. n + 1 : Of(more[i]) = IF i = n + 1 THEN Of(piece) ELSE held[i]
    BY <1>1, <2>1
  <2> QED BY <2>2, <2>3
<1>6. Of(piece) \in Seq(Nat)
  BY <1>2
<1> HIDE DEF held, heldMore, Of
<1>7. FlattenSeq(held) \in Seq(Nat) /\ FlattenSeq(heldMore) = FlattenSeq(held) \o Of(piece)
  BY <1>4, <1>5, <1>6, FlatAppend
<1> QED BY <1>3, <1>7 DEF Of, more

(* What is held when the block at hand is written. *)
LEMMA HeldWritten ==
    ASSUME NEW segs, NEW a \in Loops(segs), NEW W
    PROVE  /\ HeldBy(a.out, W) \in Seq(Nat) /\ Open(a, W) \in Seq(Nat)
           /\ HeldBy(Text!Written(a), W) = HeldBy(a.out, W) \o Open(a, W)
<1>1. a.out \in Seq(BlockSet(segs)) /\ a.texts \in Seq(Nat)
  BY DEF Loops
<1>2. Text!Block(a.who, a.texts, a.at).who = a.who /\ Text!Block(a.who, a.texts, a.at).texts = a.texts
  BY DEF Text!Block
<1>3. HeldBy(a.out, W) \in Seq(Nat) /\ Open(a, W) \in Seq(Nat)
  <2>1. \A b \in BlockSet(segs) : HeldBy(a.out, W) \in Seq(Nat)
    BY <1>1, HeldAppend
  <2>2. [who |-> Text!NoOne, texts |-> <<>>, at |-> 0] \in BlockSet(segs)
    BY DEF BlockSet, Whos
  <2>3. Open(a, W) \in Seq(Nat)
    BY <1>1 DEF Open
  <2> QED BY <2>1, <2>2, <2>3
<1>4. CASE a.texts = <<>>
  <2>1. Text!Written(a) = a.out
    BY <1>4, WrittenIs
  <2>2. Open(a, W) = <<>>
    BY <1>4 DEF Open
  <2>3. \A D : \A s \in Seq(D) : s \o <<>> = s
    OBVIOUS
  <2> QED BY <1>3, <2>1, <2>2, <2>3
<1>5. CASE a.texts # <<>>
  <2> DEFINE piece == Text!Block(a.who, a.texts, a.at)
  <2>1. Text!Written(a) = Append(a.out, piece) /\ piece \in BlockSet(segs)
    BY <1>5, WrittenIs
  <2>2. HeldBy(Append(a.out, piece), W) = HeldBy(a.out, W) \o (IF piece.who \in W THEN piece.texts ELSE <<>>)
    <3> DEFINE out == a.out
    <3>1. \A b \in BlockSet(segs) :
            HeldBy(Append(out, b), W) = HeldBy(out, W) \o (IF b.who \in W THEN b.texts ELSE <<>>)
      <4>1. out \in Seq(BlockSet(segs))
        BY <1>1
      <4> HIDE DEF out
      <4> QED BY <4>1, HeldAppend
    <3> HIDE DEF piece, out
    <3>2. HeldBy(Append(out, piece), W) = HeldBy(out, W) \o (IF piece.who \in W THEN piece.texts ELSE <<>>)
      BY <2>1, <3>1
    <3> QED BY <3>2 DEF out
  <2>3. (IF piece.who \in W THEN piece.texts ELSE <<>>) = Open(a, W)
    BY <1>2 DEF Open
  <2> QED BY <1>3, <2>1, <2>2, <2>3
<1> QED BY <1>4, <1>5

(* The block at hand and those that are written hold what was said so far. *)
LEMMA HeldTaken ==
    ASSUME NEW L, NEW segs, Segmented(segs, L), NEW silent, NEW a \in Loops(segs), NEW i \in DOMAIN segs, NEW W
    PROVE  LET b == Taken(segs, silent, a, i)
           IN HeldBy(b.out, W) \o Open(b, W) = (HeldBy(a.out, W) \o Open(a, W)) \o Part(segs, silent, W, i)
<1> DEFINE who == Text!Who(segs, segs[i])
           said == SaidAt(segs, silent, i)
           b == Taken(segs, silent, a, i)
           part == Part(segs, silent, W, i)
<1>1. said \in Seq(Nat)
  <2>1. segs[i] \in Segment(L)
    BY DEF Segmented
  <2>2. segs[i].text \in Nat
    BY <2>1 DEF Segment
  <2> QED BY <2>2 DEF SaidAt
<1>2. part = IF who \in W THEN said ELSE <<>>
  BY DEF Part
<1>3. HeldBy(a.out, W) \in Seq(Nat) /\ Open(a, W) \in Seq(Nat) /\ a.texts \in Seq(Nat)
  BY HeldWritten DEF Loops
<1>4. part \in Seq(Nat)
  BY <1>1, <1>2
<1>a. \A p, q, r \in Seq(Nat) : (p \o q) \o r = p \o (q \o r)
  BY ConcatAssociative
<1>5. CASE who = a.who /\ who # Text!NoOne
  <2>1. b = [a EXCEPT !.texts = @ \o said]
    BY <1>5 DEF Taken
  <2>2. b.out = a.out /\ b.who = a.who /\ b.texts = a.texts \o said
    BY <2>1 DEF Loops
  <2>3. Open(b, W) = Open(a, W) \o part
    <3>1. <<>> \o <<>> = <<>>
      OBVIOUS
    <3> HIDE DEF b, part, said, who
    <3> QED BY <1>2, <1>5, <2>2, <3>1 DEF Open
  <2>4. HeldBy(b.out, W) \o Open(b, W) = (HeldBy(a.out, W) \o Open(a, W)) \o part
    <3> DEFINE p == HeldBy(a.out, W)
               q == Open(a, W)
    <3>1. p \in Seq(Nat) /\ q \in Seq(Nat)
      BY <1>3
    <3> HIDE DEF b, part, said, who, p, q
    <3>2. (p \o q) \o part = p \o (q \o part)
      BY <1>4, <1>a, <3>1
    <3>3. HeldBy(b.out, W) = p /\ Open(b, W) = q \o part
      BY <2>2, <2>3 DEF p, q
    <3>4. HeldBy(b.out, W) \o Open(b, W) = (p \o q) \o part
      BY <3>2, <3>3
    <3> QED BY <3>4 DEF p, q
  <2> QED BY <2>4
<1>6. CASE ~(who = a.who /\ who # Text!NoOne)
  <2>1. b = [out |-> Text!Written(a), who |-> who, texts |-> said, at |-> segs[i].at]
    BY <1>6 DEF Taken
  <2>2. b.out = Text!Written(a) /\ b.who = who /\ b.texts = said
    BY <2>1
  <2>3. Open(b, W) = part
    BY <1>2, <2>2 DEF Open
  <2>4. HeldBy(b.out, W) = HeldBy(a.out, W) \o Open(a, W)
    BY <2>2, HeldWritten
  <2> QED BY <2>3, <2>4
<1> QED BY <1>5, <1>6

(* The texts of the blocks of some are what those said where it is not silent. *)
LEMMA BlocksHold ==
    ASSUME NEW L, NEW segs, Segmented(segs, L), NEW silent, NEW W
    PROVE  /\ Text!Blocks(segs, silent) \in Seq(BlockSet(segs))
           /\ HeldBy(Text!Blocks(segs, silent), W) = FlattenSeq(Parts(segs, silent, W))
<1> DEFINE n == Len(segs)
           P == Parts(segs, silent, W)
           f(k) == FlattenSeq(First(P, k))
<1>1. n \in Nat /\ DOMAIN segs = 1 .. n /\ P = [i \in 1 .. n |-> Part(segs, silent, W, i)]
  BY DEF Segmented, Parts
<1>2. PICK h : Blocked(segs, silent, h)
  BY BlocksRun DEF HasBlocked
<1>3. \A k \in 0 .. n : h[k] \in Loops(segs)
  BY <1>2 DEF Blocked
<1> HIDE DEF P, n
<1>4. P \in Seq(Seq(Nat)) /\ Len(P) = n
  <2>1. ASSUME NEW i \in 1 .. n PROVE Part(segs, silent, W, i) \in Seq(Nat)
    <3>1. segs[i] \in Segment(L)
      BY <1>1 DEF Segmented
    <3>2. segs[i].text \in Nat
      BY <3>1 DEF Segment
    <3> QED BY <3>2 DEF Part, SaidAt
  <2> QED BY <1>1, <2>1
<1>5. /\ f(0) = <<>> /\ First(P, n) = P /\ \A k \in 0 .. n : f(k) \in Seq(Nat)
      /\ \A k \in 1 .. n : f(k) = f(k - 1) \o P[k]
  BY <1>4, FlatSteps
<1>6. f(n) = FlattenSeq(P)
  BY <1>5
<1> HIDE DEF f
<1> DEFINE S == {k \in Nat : k <= n => HeldBy(h[k].out, W) \o Open(h[k], W) = f(k)}
<1>7. 0 \in S
  <2>1. h[0].out = <<>> /\ h[0].texts = <<>>
    BY <1>2 DEF Blocked, Text!NoBlock
  <2>2. HeldBy(<<>>, W) = <<>>
    <3>1. [b \in DOMAIN <<>> |-> IF <<>>[b].who \in W THEN <<>>[b].texts ELSE <<>>] = <<>>
      OBVIOUS
    <3> QED BY <3>1, FlatFew DEF HeldBy
  <2>3. Open(h[0], W) = <<>>
    BY <2>1 DEF Open
  <2>4. <<>> \o <<>> = <<>>
    OBVIOUS
  <2> QED BY <1>5, <2>1, <2>2, <2>3, <2>4
<1>8. ASSUME NEW k \in Nat, k \in S PROVE k + 1 \in S
  <2> SUFFICES ASSUME k + 1 <= n PROVE HeldBy(h[k + 1].out, W) \o Open(h[k + 1], W) = f(k + 1)
    OBVIOUS
  <2>1. k + 1 \in 1 .. n /\ (k + 1) - 1 = k /\ k \in 0 .. n /\ HeldBy(h[k].out, W) \o Open(h[k], W) = f(k)
    BY <1>1, <1>8
  <2>2. f(k + 1) = f(k) \o P[k + 1] /\ P[k + 1] = Part(segs, silent, W, k + 1)
    <3>1. f(k + 1) = f((k + 1) - 1) \o P[k + 1]
      BY <1>5, <2>1
    <3> QED BY <1>1, <2>1, <3>1
  <2>3. h[k + 1] = Taken(segs, silent, h[k], k + 1) /\ h[k] \in Loops(segs) /\ k + 1 \in DOMAIN segs
    <3>1. h[k + 1] = Taken(segs, silent, h[(k + 1) - 1], k + 1)
      BY <1>2, <2>1 DEF Blocked, n
    <3> QED BY <1>1, <1>3, <2>1, <3>1
  <2>4. HeldBy(h[k + 1].out, W) \o Open(h[k + 1], W)
          = (HeldBy(h[k].out, W) \o Open(h[k], W)) \o Part(segs, silent, W, k + 1)
    BY <2>3, HeldTaken
  <2> HIDE DEF S
  <2> QED BY <2>1, <2>2, <2>4
<1>9. n \in S
  <2> HIDE DEF S
  <2> QED BY <1>1, <1>7, <1>8, SetInduction
<1>10. HeldBy(h[n].out, W) \o Open(h[n], W) = f(n) /\ h[n] \in Loops(segs)
  BY <1>1, <1>3, <1>9
<1>11. Text!Blocks(segs, silent) = Text!Written(h[n])
  BY <1>2 DEF Blocked, n
<1>12. Text!Written(h[n]) \in Seq(BlockSet(segs)) /\ HeldBy(Text!Written(h[n]), W) = f(n)
  BY <1>10, WrittenIs, HeldWritten
<1> QED BY <1>6, <1>11, <1>12 DEF P

(* A block tells what its speaker said at a place that is not silent. *)
Told(segs, silent, n, who, texts) ==
    \A t \in ToSet(texts) : \E i \in 1 .. n : i \notin silent /\ Text!Who(segs, segs[i]) = who /\ segs[i].text = t
Sourced(segs, silent, n, blocks) ==
    \A b \in DOMAIN blocks : blocks[b].texts # <<>> /\ Told(segs, silent, n, blocks[b].who, blocks[b].texts)
Follows(segs, silent, n, a) ==
    /\ Sourced(segs, silent, n, a.out)
    /\ Told(segs, silent, n, a.who, a.texts)

(* What is written of the block at hand. *)
LEMMA WrittenSourced ==
    ASSUME NEW segs, NEW silent, NEW n \in Nat, NEW a \in Loops(segs), Follows(segs, silent, n, a)
    PROVE  Sourced(segs, silent, n, Text!Written(a))
<1>1. CASE a.texts = <<>>
  BY <1>1, WrittenIs DEF Follows
<1>2. CASE a.texts # <<>>
  <2> DEFINE piece == Text!Block(a.who, a.texts, a.at)
             out == a.out
  <2>1. Text!Written(a) = Append(out, piece)
    BY <1>2, WrittenIs
  <2>2. piece.who = a.who /\ piece.texts = a.texts
    BY DEF Text!Block
  <2>3. out \in Seq(BlockSet(segs))
    BY DEF Loops
  <2>4. Sourced(segs, silent, n, out) /\ Told(segs, silent, n, piece.who, piece.texts) /\ piece.texts # <<>>
    BY <1>2, <2>2 DEF Follows
  <2> HIDE DEF piece, out
  <2>5. \A b \in DOMAIN Append(out, piece) :
          IF b \in DOMAIN out THEN Append(out, piece)[b] = out[b] ELSE Append(out, piece)[b] = piece
    BY <2>3
  <2> DEFINE more == Append(out, piece)
  <2> HIDE DEF more
  <2>6. Sourced(segs, silent, n, more)
    BY <2>4, <2>5 DEF Sourced, more
  <2> QED BY <2>1, <2>6 DEF more
<1> QED BY <1>1, <1>2

(* The next segment. *)
LEMMA TakenSourced ==
    ASSUME NEW L, NEW segs, Segmented(segs, L), NEW silent, NEW n \in Nat, n + 1 \in DOMAIN segs,
           NEW a \in Loops(segs), Follows(segs, silent, n, a)
    PROVE  Follows(segs, silent, n + 1, Taken(segs, silent, a, n + 1))
<1> DEFINE i == n + 1
           who == Text!Who(segs, segs[i])
           said == SaidAt(segs, silent, i)
           b == Taken(segs, silent, a, i)
<1>1. \A j \in 1 .. n : j \in 1 .. i
  OBVIOUS
<1>2. i \in 1 .. i
  OBVIOUS
<1>3. \A x, texts : Told(segs, silent, n, x, texts) => Told(segs, silent, i, x, texts)
  BY <1>1 DEF Told
<1>4. \A blocks : Sourced(segs, silent, n, blocks) => Sourced(segs, silent, i, blocks)
  BY <1>3 DEF Sourced
<1>5. ASSUME NEW t \in ToSet(said) PROVE i \notin silent /\ segs[i].text = t
  BY <1>5 DEF SaidAt, ToSet
<1>6. Told(segs, silent, i, who, said)
  BY <1>2, <1>5 DEF Told
<1>7. said \in Seq(Nat) /\ a.texts \in Seq(Nat)
  <2>1. segs[i] \in Segment(L)
    BY DEF Segmented
  <2>2. segs[i].text \in Nat
    BY <2>1 DEF Segment
  <2>3. said \in Seq(Nat)
    BY <2>2 DEF SaidAt
  <2> QED BY <2>3 DEF Loops
<1>8. CASE who = a.who /\ who # Text!NoOne
  <2>1. b = [a EXCEPT !.texts = @ \o said]
    BY <1>8 DEF Taken
  <2>2. b.out = a.out /\ b.who = a.who /\ b.texts = a.texts \o said
    BY <2>1 DEF Loops
  <2>3. ToSet(a.texts \o said) = ToSet(a.texts) \cup ToSet(said)
    <3> HIDE DEF said
    <3> QED BY <1>7, ConcatHas
  <2>4. Told(segs, silent, i, a.who, a.texts)
    BY <1>3 DEF Follows
  <2>5. Told(segs, silent, i, a.who, a.texts \o said)
    <3> HIDE DEF said, who, i
    <3> QED BY <1>6, <1>8, <2>3, <2>4 DEF Told
  <2>6. Sourced(segs, silent, i, b.out)
    BY <1>4, <2>2 DEF Follows
  <2> HIDE DEF b, said, i
  <2>7. Follows(segs, silent, i, b)
    BY <2>2, <2>5, <2>6 DEF Follows
  <2> QED BY <2>7 DEF b, i
<1>9. CASE ~(who = a.who /\ who # Text!NoOne)
  <2>1. b = [out |-> Text!Written(a), who |-> who, texts |-> said, at |-> segs[i].at]
    BY <1>9 DEF Taken
  <2>2. b.out = Text!Written(a) /\ b.who = who /\ b.texts = said
    BY <2>1
  <2>3. Sourced(segs, silent, i, Text!Written(a))
    BY <1>4, WrittenSourced
  <2> HIDE DEF b, said, i, who
  <2>4. Follows(segs, silent, i, b)
    BY <1>6, <2>2, <2>3 DEF Follows
  <2> QED BY <2>4 DEF b, i
<1> QED BY <1>8, <1>9

(* Hence of all blocks. *)
LEMMA BlocksSourced ==
    ASSUME NEW L, NEW segs, Segmented(segs, L), NEW silent
    PROVE  Sourced(segs, silent, Len(segs), Text!Blocks(segs, silent))
<1> DEFINE n == Len(segs)
<1>1. n \in Nat /\ DOMAIN segs = 1 .. n
  BY DEF Segmented
<1>2. PICK h : Blocked(segs, silent, h)
  BY BlocksRun DEF HasBlocked
<1>3. \A k \in 0 .. n : h[k] \in Loops(segs)
  BY <1>2 DEF Blocked
<1> HIDE DEF n
<1> DEFINE S == {k \in Nat : k <= n => Follows(segs, silent, k, h[k])}
<1>4. 0 \in S
  <2>1. h[0].out = <<>> /\ h[0].texts = <<>>
    BY <1>2 DEF Blocked, Text!NoBlock
  <2> QED BY <2>1 DEF Follows, Sourced, Told, ToSet
<1>5. ASSUME NEW k \in Nat, k \in S PROVE k + 1 \in S
  <2> SUFFICES ASSUME k + 1 <= n PROVE Follows(segs, silent, k + 1, h[k + 1])
    OBVIOUS
  <2>1. k + 1 \in 1 .. n /\ (k + 1) - 1 = k /\ k \in 0 .. n /\ Follows(segs, silent, k, h[k])
    BY <1>1, <1>5
  <2>2. h[k + 1] = Taken(segs, silent, h[k], k + 1) /\ h[k] \in Loops(segs) /\ k + 1 \in DOMAIN segs
    <3>1. h[k + 1] = Taken(segs, silent, h[(k + 1) - 1], k + 1)
      BY <1>2, <2>1 DEF Blocked, n
    <3> QED BY <1>1, <1>3, <2>1, <3>1
  <2> HIDE DEF S
  <2>3. Follows(segs, silent, k + 1, Taken(segs, silent, h[k], k + 1))
    BY <2>1, <2>2, TakenSourced
  <2> QED BY <2>2, <2>3
<1>6. n \in S
  <2> HIDE DEF S
  <2> QED BY <1>1, <1>4, <1>5, SetInduction
<1>7. Follows(segs, silent, n, h[n]) /\ h[n] \in Loops(segs)
  BY <1>1, <1>3, <1>6
<1>8. Text!Blocks(segs, silent) = Text!Written(h[n])
  BY <1>2 DEF Blocked, n
<1>9. Sourced(segs, silent, n, Text!Written(h[n]))
  BY <1>1, <1>7, WrittenSourced
<1> QED BY <1>8, <1>9 DEF n

-----------------------------------------------------------------------------
(* The note and the texts with speakers hold what was said.                   *)

(* All texts of the blocks are those at the places that are not silent. *)
LEMMA AllHeld ==
    ASSUME NEW L, NEW segs, Segmented(segs, L), NEW silent
    PROVE  AllTexts(Text!Blocks(segs, silent)) = Heard(segs, DOMAIN segs \ silent)
<1> DEFINE blocks == Text!Blocks(segs, silent)
           W == Whos(segs)
<1>1. blocks \in Seq(BlockSet(segs)) /\ HeldBy(blocks, W) = FlattenSeq(Parts(segs, silent, W))
  BY BlocksHold
<1>2. \A b \in DOMAIN blocks : blocks[b].who \in W
  <2> HIDE DEF blocks
  <2>1. \A b \in DOMAIN blocks : blocks[b] \in BlockSet(segs)
    BY <1>1
  <2> QED BY <2>1 DEF BlockSet
<1> HIDE DEF blocks
<1>3. AllTexts(blocks) = HeldBy(blocks, W)
  <2>1. [b \in DOMAIN blocks |-> blocks[b].texts]
          = [b \in DOMAIN blocks |-> IF blocks[b].who \in W THEN blocks[b].texts ELSE <<>>]
    BY <1>2
  <2> QED BY <2>1 DEF AllTexts, HeldBy
<1>4. FlattenSeq(Parts(segs, silent, W)) = Heard(segs, DOMAIN segs \ silent)
  <2>1. \A i \in DOMAIN segs : Part(segs, silent, W, i) = IF i \in DOMAIN segs \ silent THEN <<segs[i].text>> ELSE <<>>
    BY DEF Part, SaidAt, Whos
  <2>2. Parts(segs, silent, W) = [i \in DOMAIN segs |-> IF i \in DOMAIN segs \ silent THEN <<segs[i].text>> ELSE <<>>]
    BY <2>1 DEF Parts
  <2> QED BY <2>2 DEF Heard
<1> QED BY <1>1, <1>3, <1>4 DEF blocks

(* The body of a note: every text once and in order, under who said it. *)
LEMMA MarkdownRenders ==
    ASSUME NEW L, NEW segs, Segmented(segs, L)
    PROVE  Renders(Text!Markdown(segs), segs)
<1> DEFINE silent == {i \in DOMAIN segs : segs[i].text = Text!Blank}
           blocks == Text!Blocks(segs, silent)
<1>1. Text!Markdown(segs) = blocks
  BY DEF Text!Markdown
<1>2. AllTexts(blocks) = Heard(segs, {i \in DOMAIN segs : segs[i].text # Text!Blank})
  <2>1. DOMAIN segs \ silent = {i \in DOMAIN segs : segs[i].text # Text!Blank}
    OBVIOUS
  <2>2. AllTexts(blocks) = Heard(segs, DOMAIN segs \ silent)
    BY AllHeld
  <2> QED BY <2>1, <2>2
<1>3. ASSUME NEW b \in DOMAIN blocks, NEW t \in ToSet(blocks[b].texts)
      PROVE  blocks[b].who = Text!Who(segs, segs[t])
  <2>1. Sourced(segs, silent, Len(segs), blocks)
    BY BlocksSourced
  <2>2. PICK i \in 1 .. Len(segs) : i \notin silent /\ Text!Who(segs, segs[i]) = blocks[b].who /\ segs[i].text = t
    <3> HIDE DEF blocks, silent
    <3> QED BY <1>3, <2>1 DEF Sourced, Told
  <2>3. i \in DOMAIN segs
    BY DEF Segmented
  <2>4. i = t
    BY <2>2, <2>3 DEF Segmented
  <2> QED BY <2>2, <2>4
<1> QED BY <1>1, <1>2, <1>3 DEF Renders

(* The subtitles do. *)
LEMMA CuesRender ==
    ASSUME NEW L, NEW segs, Segmented(segs, L)
    PROVE  Renders(Text!Cues(segs), segs)
<1> DEFINE n == Len(segs)
           P == {i \in DOMAIN segs : segs[i].text # Text!Blank}
           Cue(i) == Text!Block(Text!Who(segs, segs[i]), <<segs[i].text>>, segs[i].at)
           cues == [i \in 1 .. n |-> Cue(i)]
           texts == [i \in 1 .. n |-> segs[i].text]
           at == Places(n, P)
<1>1. n \in Nat /\ DOMAIN segs = 1 .. n /\ DOMAIN cues = 1 .. n /\ DOMAIN texts = 1 .. n
  BY DEF Segmented
<1>2. ASSUME NEW i \in 1 .. n PROVE Cue(i) \in BlockSet(segs) /\ segs[i].text \in Nat
  <2>1. segs[i] \in Segment(L)
    BY <1>1 DEF Segmented
  <2>2. segs[i].text \in Nat /\ segs[i].at \in Nat
    BY <2>1 DEF Segment
  <2> QED BY <1>1, <2>2 DEF BlockSet, Whos, Text!Block
<1>3. cues \in Seq(BlockSet(segs)) /\ texts \in Seq(Nat) /\ Len(cues) = n /\ Len(texts) = n
  <2> HIDE DEF Cue, n
  <2> QED BY <1>1, <1>2
<1>4. Text!Cues(segs) = Picked(cues, P)
  <2>1. \A i \in 1 .. n : (IF segs[i].text = Text!Blank THEN <<>> ELSE <<Cue(i)>>)
                            = IF i \in P THEN <<cues[i]>> ELSE <<>>
    BY <1>1
  <2>2. Text!Cues(segs) = FlattenSeq([i \in 1 .. n |-> IF segs[i].text = Text!Blank THEN <<>> ELSE <<Cue(i)>>])
    BY <1>1, SameOperators DEF Text!Cues
  <2> HIDE DEF P, Cue, cues
  <2>3. [i \in 1 .. n |-> IF segs[i].text = Text!Blank THEN <<>> ELSE <<Cue(i)>>]
          = [i \in DOMAIN cues |-> IF i \in P THEN <<cues[i]>> ELSE <<>>]
    BY <1>1, <2>1
  <2> QED BY <2>2, <2>3 DEF Picked
<1>5. Heard(segs, P) = Picked(texts, P)
  <2>1. [i \in DOMAIN segs |-> IF i \in P THEN <<segs[i].text>> ELSE <<>>]
          = [i \in DOMAIN texts |-> IF i \in P THEN <<texts[i]>> ELSE <<>>]
    BY <1>1
  <2> QED BY <2>1 DEF Heard, Picked
<1>6. \A i \in P : i \in DOMAIN segs /\ segs[i].text = i
  BY DEF Segmented
<1>7. \A i \in 1 .. n : cues[i].texts = <<segs[i].text>> /\ cues[i].who = Text!Who(segs, segs[i]) /\ texts[i] = segs[i].text
  BY DEF Text!Block
<1> HIDE DEF cues, texts, P
<1>8. /\ at \in Seq(1 .. n) /\ ToSet(at) = P \cap (1 .. n)
      /\ Picked(cues, P) = [k \in DOMAIN at |-> cues[at[k]]]
      /\ Picked(texts, P) = [k \in DOMAIN at |-> texts[at[k]]] /\ Picked(texts, P) \in Seq(Nat)
  BY <1>3, PickedAt
<1>9. \A k \in DOMAIN at : at[k] \in 1 .. n /\ at[k] \in P
  <2> HIDE DEF at
  <2> QED BY <1>8 DEF ToSet
<1> HIDE DEF at
<1>10. AllTexts(Picked(cues, P)) = Picked(texts, P)
  <2> DEFINE heard == Picked(texts, P)
  <2>1. heard \in Seq(Nat) /\ DOMAIN heard = DOMAIN at
    BY <1>8
  <2>2. [b \in DOMAIN Picked(cues, P) |-> Picked(cues, P)[b].texts] = [k \in DOMAIN heard |-> <<heard[k]>>]
    BY <1>7, <1>8, <1>9, <2>1
  <2> HIDE DEF heard
  <2>3. FlattenSeq([k \in DOMAIN heard |-> <<heard[k]>>]) = heard
    BY <2>1, FlatSingles
  <2> QED BY <2>2, <2>3 DEF AllTexts, heard
<1>11. ASSUME NEW b \in DOMAIN Picked(cues, P), NEW t \in ToSet(Picked(cues, P)[b].texts)
       PROVE  Picked(cues, P)[b].who = Text!Who(segs, segs[t])
  <2>1. Picked(cues, P)[b] = cues[at[b]] /\ at[b] \in 1 .. n /\ at[b] \in P
    BY <1>8, <1>9
  <2>2. Picked(cues, P)[b].texts = <<at[b]>> /\ Picked(cues, P)[b].who = Text!Who(segs, segs[at[b]])
    BY <1>6, <1>7, <2>1
  <2>3. t = at[b]
    BY <1>11, <2>2 DEF ToSet
  <2> QED BY <2>2, <2>3
<1>12. AllTexts(Text!Cues(segs)) = Heard(segs, P)
  BY <1>4, <1>5, <1>10
<1> QED BY <1>4, <1>11, <1>12 DEF Renders, P

(* Segments with names for some of their labels. *)
Binds(names) == Text!NoOne \notin DOMAIN names /\ \A label \in DOMAIN names : Text!IsName(names[label])
Named(L, names) == L \cup {names[l] : l \in DOMAIN names}

(* They are segments as well, and nobody stays nobody. *)
LEMMA RenamedIs ==
    ASSUME NEW L, NEW segs, Segmented(segs, L), NEW names, Binds(names)
    PROVE  LET named == Text!Renamed(segs, names)
           IN /\ Segmented(named, Named(L, names))
              /\ DOMAIN named = DOMAIN segs
              /\ \A i \in DOMAIN segs :
                   /\ named[i].speaker = IF segs[i].speaker \in DOMAIN names THEN names[segs[i].speaker] ELSE segs[i].speaker
                   /\ named[i].text = segs[i].text
                   /\ named[i].speaker = Text!NoOne <=> segs[i].speaker = Text!NoOne
<1> DEFINE named == Text!Renamed(segs, names)
           To(l) == IF l \in DOMAIN names THEN names[l] ELSE l
<1>1. Len(segs) \in Nat /\ DOMAIN segs = 1 .. Len(segs) /\ \A i \in DOMAIN segs : segs[i] \in Segment(L)
  BY DEF Segmented
<1>2. named = [i \in DOMAIN segs |-> [segs[i] EXCEPT !.speaker = To(@)]]
  BY DEF Text!Renamed
<1> HIDE DEF named
<1>3. ASSUME NEW i \in DOMAIN segs
      PROVE  named[i] = [speaker |-> To(segs[i].speaker), text |-> segs[i].text, at |-> segs[i].at]
  BY <1>1, <1>2 DEF Segment
<1>4. \A l \in L : To(l) \in Named(L, names)
  BY DEF Named
<1>5. ASSUME NEW i \in DOMAIN segs PROVE named[i] \in Segment(Named(L, names))
  <2>1. segs[i].speaker \in L /\ segs[i].text \in Nat /\ segs[i].at \in Nat
    BY <1>1 DEF Segment
  <2> DEFINE l == To(segs[i].speaker)
  <2>2. l \in Named(L, names) /\ named[i] = [speaker |-> l, text |-> segs[i].text, at |-> segs[i].at]
    BY <1>3, <1>4, <2>1
  <2> HIDE DEF l
  <2> QED BY <2>1, <2>2 DEF Segment
<1>6. DOMAIN named = DOMAIN segs
  BY <1>2
<1>7. named \in Seq(Segment(Named(L, names)))
  <2> DEFINE X == Segment(Named(L, names))
             n == Len(segs)
  <2> HIDE DEF X, n
  <2>1. n \in Nat /\ DOMAIN segs = 1 .. n /\ \A i \in 1 .. n : named[i] \in X
    BY <1>1, <1>5 DEF X, n
  <2>2. named = [i \in 1 .. n |-> named[i]]
    BY <1>2, <2>1
  <2>3. named \in Seq(X)
    BY <2>1, <2>2
  <2> QED BY <2>3 DEF X
<1>8. AreLabels(Named(L, names))
  BY DEF AreLabels, Named, Binds, Segmented
<1>9. ASSUME NEW i \in DOMAIN segs
      PROVE  /\ named[i].at = i /\ named[i].text = segs[i].text /\ named[i].text \in {Text!Blank, i}
             /\ named[i].speaker = To(segs[i].speaker)
  <2>1. segs[i].at = i /\ segs[i].text \in {Text!Blank, i}
    BY DEF Segmented
  <2> DEFINE l == To(segs[i].speaker)
  <2>2. named[i] = [speaker |-> l, text |-> segs[i].text, at |-> segs[i].at]
    BY <1>3
  <2> HIDE DEF l
  <2>3. named[i].at = i /\ named[i].text = segs[i].text /\ named[i].text \in {Text!Blank, i} /\ named[i].speaker = l
    BY <2>1, <2>2
  <2> QED BY <2>3 DEF l
<1>10. Segmented(named, Named(L, names))
  BY <1>6, <1>7, <1>8, <1>9 DEF Segmented
<1>11. ASSUME NEW i \in DOMAIN segs PROVE named[i].speaker = Text!NoOne <=> segs[i].speaker = Text!NoOne
  <2>1. ASSUME NEW l \in DOMAIN names PROVE names[l] # Text!NoOne
    <3>1. Text!IsName(names[l])
      BY DEF Binds
    <3>2. Len(names[l]) = 1
      BY <3>1 DEF Text!IsName
    <3>3. Len(Text!NoOne) = 0
      BY ShownApart
    <3> QED BY <3>2, <3>3
  <2>2. Text!NoOne \notin DOMAIN names
    BY DEF Binds
  <2> QED BY <1>9, <2>1, <2>2
<1>12. Segmented(named, Named(L, names)) /\ DOMAIN named = DOMAIN segs
       /\ \A i \in DOMAIN segs :
            /\ named[i].speaker = To(segs[i].speaker) /\ named[i].text = segs[i].text
            /\ named[i].speaker = Text!NoOne <=> segs[i].speaker = Text!NoOne
  BY <1>6, <1>9, <1>10, <1>11
<1> QED BY <1>12 DEF named, To

(* The people of a note are those it names. *)
LEMMA NamesThemAll ==
    ASSUME NEW L, NEW segs, Segmented(segs, L)
    PROVE  NamesThem(Text!Note(segs, Text!Participants(segs)), segs)
<1> DEFINE body == Text!Markdown(segs)
           silent == {i \in DOMAIN segs : segs[i].text = Text!Blank}
           people == Text!Participants(segs)
<1>1. ASSUME NEW b \in ToSet(body), Text!IsName(b.who) PROVE b.who \in people
  <2>1. body = Text!Blocks(segs, silent)
    BY DEF Text!Markdown
  <2>2. Sourced(segs, silent, Len(segs), body)
    BY <2>1, BlocksSourced
  <2>3. body \in Seq(BlockSet(segs))
    BY <2>1, BlocksHold
  <2> HIDE DEF body, silent
  <2>4. PICK k \in DOMAIN body : b = body[k]
    BY DEF ToSet
  <2>5. b \in BlockSet(segs) /\ b.texts # <<>> /\ Told(segs, silent, Len(segs), b.who, b.texts)
    BY <2>2, <2>3, <2>4 DEF Sourced
  <2>6. b.texts \in Seq(Nat)
    BY <2>5 DEF BlockSet
  <2>7. \E t : t \in ToSet(b.texts)
    <3>1. \A D : \A s \in Seq(D) : s # <<>> => 1 \in DOMAIN s
      OBVIOUS
    <3> QED BY <2>5, <2>6, <3>1 DEF ToSet
  <2>8. PICK i \in 1 .. Len(segs) : Text!Who(segs, segs[i]) = b.who
    BY <2>5, <2>7 DEF Told
  <2>9. i \in DOMAIN segs
    BY DEF Segmented
  <2> DEFINE l == segs[i].speaker
  <2>10. Text!IsName(l) /\ b.who = l /\ (l # Text!NoOne => l \in Text!Labels(segs))
    BY <1>1, <2>8, <2>9, WhoIs
  <2> HIDE DEF l
  <2>11. l # Text!NoOne /\ ~Text!IsAnonymous(l)
    BY <2>10, ShownApart DEF Text!IsName, Text!IsAnonymous
  <2> QED BY <2>10, <2>11 DEF Text!Participants
<1>2. ASSUME NEW p \in people PROVE Text!IsName(p) /\ \E s \in ToSet(segs) : s.speaker = p
  <2>1. p \in Text!Labels(segs) /\ ~Text!IsAnonymous(p)
    BY DEF Text!Participants
  <2>2. Text!IsName(p) /\ \E i \in DOMAIN segs : segs[i].speaker = p
    BY <2>1, LabelsAre
  <2> QED BY <2>2 DEF ToSet
<1> HIDE DEF body, people
<1>3. Text!Note(segs, people).body = body /\ Text!Note(segs, people).participants = people
  BY DEF Text!Note, body
<1> QED BY <1>1, <1>2, <1>3 DEF NamesThem, people

(* A shown voice is that of one label, and so is the name it gets. *)
LEMMA ShownNamesAre ==
    ASSUME NEW L, NEW segs, Segmented(segs, L), NEW names
    PROVE  LET map == Text!SpeakerMap(segs)
               bound == Text!Labels(segs) \cap DOMAIN names
               shown == ShownNames(segs, names)
           IN /\ \A l \in bound : map[l] \in DOMAIN shown /\ shown[map[l]] = names[l]
              /\ \A w \in DOMAIN shown : \E l \in bound : w = map[l]
<1> DEFINE map == Text!SpeakerMap(segs)
           bound == Text!Labels(segs) \cap DOMAIN names
           shown == ShownNames(segs, names)
<1>1. shown = [k \in {map[l] : l \in bound} |-> names[CHOOSE l \in bound : map[l] = k]]
  BY DEF ShownNames
<1>2. \A l, m \in bound : map[l] = map[m] => l = m
  BY SpeakerMapRight
<1> HIDE DEF map, bound, shown
<1>3. ASSUME NEW l \in bound PROVE map[l] \in DOMAIN shown /\ shown[map[l]] = names[l]
  <2>1. (CHOOSE m \in bound : map[m] = map[l]) = l
    BY <1>2
  <2> QED BY <1>1, <2>1
<1>4. \A w \in DOMAIN shown : \E l \in bound : w = map[l]
  BY <1>1
<1> QED BY <1>3, <1>4 DEF map, bound, shown

(* Where somebody speaks, the name that a shown voice gets is the one that the segment does. *)
LEMMA SameName ==
    ASSUME NEW L, NEW segs, Segmented(segs, L), NEW names, Binds(names),
           NEW k \in DOMAIN ShownNames(segs, names),
           NEW i \in DOMAIN segs, segs[i].speaker # Text!NoOne
    PROVE  LET shown == ShownNames(segs, names)
               w == Text!Who(segs, segs[i])
               named == Text!Renamed(segs, names)
           IN (IF w \in DOMAIN shown THEN shown[w] ELSE w) = shown[k] <=> Text!Who(named, named[i]) = shown[k]
<1> DEFINE map == Text!SpeakerMap(segs)
           bound == Text!Labels(segs) \cap DOMAIN names
           shown == ShownNames(segs, names)
           w == Text!Who(segs, segs[i])
           named == Text!Renamed(segs, names)
           x == Text!Who(named, named[i])
           l == segs[i].speaker
<1>1. /\ \A m \in bound : map[m] \in DOMAIN shown /\ shown[map[m]] = names[m]
      /\ \A v \in DOMAIN shown : \E m \in bound : v = map[m]
  BY ShownNamesAre
<1>2. l \in Text!Labels(segs) /\ w = map[l] /\ (Text!IsName(w) <=> Text!IsName(l)) /\ (Text!IsName(l) => w = l)
  BY WhoIs
<1>3. \A m \in Text!Labels(segs) : map[m] = map[l] => m = l
  BY <1>2, SpeakerMapRight
<1>4. Segmented(named, Named(L, names)) /\ i \in DOMAIN named
      /\ named[i].speaker = IF l \in DOMAIN names THEN names[l] ELSE l
  BY RenamedIs
<1>5. (Text!IsName(x) <=> Text!IsName(named[i].speaker)) /\ (Text!IsName(named[i].speaker) => x = named[i].speaker)
  <2> HIDE DEF named
  <2> QED BY <1>4, WhoIs
<1>6. Text!IsName(shown[k])
  <2>1. PICK m \in bound : k = map[m]
    BY <1>1
  <2> QED BY <1>1, <2>1 DEF Binds
<1> HIDE DEF map, shown, w, named, x, l
<1>7. CASE l \in DOMAIN names
  <2>1. w \in DOMAIN shown /\ shown[w] = names[l]
    BY <1>1, <1>2, <1>7
  <2>2. x = names[l]
    BY <1>4, <1>5, <1>7 DEF Binds
  <2>3. (IF w \in DOMAIN shown THEN shown[w] ELSE w) = shown[k] <=> x = shown[k]
    BY <2>1, <2>2
  <2> QED BY <2>3 DEF shown, w, named, x
<1>8. CASE l \notin DOMAIN names
  <2>1. w \notin DOMAIN shown
    BY <1>1, <1>2, <1>3, <1>8
  <2>2. w = shown[k] <=> x = shown[k]
    BY <1>2, <1>4, <1>5, <1>6, <1>8
  <2>3. (IF w \in DOMAIN shown THEN shown[w] ELSE w) = shown[k] <=> x = shown[k]
    BY <2>1, <2>2
  <2> QED BY <2>3 DEF shown, w, named, x
<1> QED BY <1>7, <1>8

(* The names of a text say what naming its segments first says. *)
LEMMA TextsNamed ==
    ASSUME NEW L, NEW segs, Segmented(segs, L), NEW names, Binds(names),
           NEW k \in DOMAIN ShownNames(segs, names)
    PROVE  LET shown == ShownNames(segs, names)
           IN TextsOf(Text!NamesApplied(Text!Diarized(segs), shown), shown[k])
                = TextsOf(Text!Diarized(Text!Renamed(segs, names)), shown[k])
<1> DEFINE shown == ShownNames(segs, names)
           name == shown[k]
           named == Text!Renamed(segs, names)
           silent == {i \in DOMAIN segs : segs[i].speaker = Text!NoOne}
           To(w) == IF w \in DOMAIN shown THEN shown[w] ELSE w
           W == {w \in Whos(segs) : To(w) = name}
           blocks == Text!Blocks(segs, silent)
           applied == Text!NamesApplied(blocks, shown)
<1>1. /\ Segmented(named, Named(L, names)) /\ DOMAIN named = DOMAIN segs
      /\ \A i \in DOMAIN segs : named[i].text = segs[i].text
                                /\ (named[i].speaker = Text!NoOne <=> segs[i].speaker = Text!NoOne)
  BY RenamedIs
<1>2. \A i \in DOMAIN segs : segs[i].speaker # Text!NoOne =>
        (To(Text!Who(segs, segs[i])) = name <=> Text!Who(named, named[i]) = name)
  BY SameName
<1>3. Text!Diarized(segs) = blocks /\ Text!Diarized(named) = Text!Blocks(named, silent)
  <2> HIDE DEF named
  <2>1. silent = {i \in DOMAIN named : named[i].speaker = Text!NoOne}
    BY <1>1
  <2> QED BY <2>1 DEF Text!Diarized
<1>4. blocks \in Seq(BlockSet(segs)) /\ HeldBy(blocks, W) = FlattenSeq(Parts(segs, silent, W))
  BY BlocksHold
<1>5. Text!Blocks(named, silent) \in Seq(BlockSet(named))
      /\ HeldBy(Text!Blocks(named, silent), {name}) = FlattenSeq(Parts(named, silent, {name}))
  <2> HIDE DEF named, silent, name
  <2> QED BY <1>1, BlocksHold
<1>6. TextsOf(Text!Blocks(named, silent), name) = HeldBy(Text!Blocks(named, silent), {name})
  <2> DEFINE bs == Text!Blocks(named, silent)
  <2> HIDE DEF bs, name
  <2>1. [b \in DOMAIN bs |-> IF bs[b].who = name THEN bs[b].texts ELSE <<>>]
          = [b \in DOMAIN bs |-> IF bs[b].who \in {name} THEN bs[b].texts ELSE <<>>]
    OBVIOUS
  <2>2. TextsOf(bs, name) = HeldBy(bs, {name})
    BY <2>1 DEF TextsOf, HeldBy
  <2> QED BY <2>2 DEF bs
<1>7. TextsOf(applied, name) = HeldBy(blocks, W)
  <2>1. applied = [b \in DOMAIN blocks |-> [blocks[b] EXCEPT !.who = To(@)]]
    BY DEF Text!NamesApplied
  <2>2. \A b \in DOMAIN blocks : blocks[b] \in BlockSet(segs)
    BY <1>4
  <2> HIDE DEF blocks, applied, name
  <2>3. ASSUME NEW b \in DOMAIN blocks
        PROVE  applied[b].who = To(blocks[b].who) /\ applied[b].texts = blocks[b].texts /\ blocks[b].who \in Whos(segs)
    <3> HIDE DEF To
    <3> QED BY <2>1, <2>2 DEF BlockSet
  <2>4. ASSUME NEW b \in DOMAIN blocks
        PROVE  (IF applied[b].who = name THEN applied[b].texts ELSE <<>>)
                 = IF blocks[b].who \in W THEN blocks[b].texts ELSE <<>>
    <3> HIDE DEF To
    <3> QED BY <2>3
  <2>5. DOMAIN applied = DOMAIN blocks
    BY <2>1
  <2> HIDE DEF W
  <2>6. [b \in DOMAIN applied |-> IF applied[b].who = name THEN applied[b].texts ELSE <<>>]
          = [b \in DOMAIN blocks |-> IF blocks[b].who \in W THEN blocks[b].texts ELSE <<>>]
    BY <2>4, <2>5
  <2> QED BY <2>6 DEF TextsOf, HeldBy
<1>8. Parts(segs, silent, W) = Parts(named, silent, {name})
  <2>1. ASSUME NEW i \in DOMAIN segs PROVE Part(segs, silent, W, i) = Part(named, silent, {name}, i)
    <3>1. CASE i \in silent
      BY <3>1 DEF Part, SaidAt
    <3>2. CASE i \notin silent
      <4>1. SaidAt(segs, silent, i) = SaidAt(named, silent, i)
        <5> HIDE DEF named
        <5> QED BY <1>1 DEF SaidAt
      <4>2. Text!Who(segs, segs[i]) \in W <=> Text!Who(named, named[i]) = name
        <5>1. Text!Who(segs, segs[i]) \in Whos(segs)
          BY DEF Whos
        <5>2. segs[i].speaker # Text!NoOne
          BY <3>2
        <5> HIDE DEF named, name, To, silent
        <5> QED BY <1>2, <5>1, <5>2
      <4> HIDE DEF named, name, W, silent
      <4> QED BY <4>1, <4>2 DEF Part
    <3> QED BY <3>1, <3>2
  <2> HIDE DEF named, W, silent, name
  <2> QED BY <1>1, <2>1 DEF Parts
<1> HIDE DEF name, W, silent, named, blocks, applied
<1>9. TextsOf(applied, name) = TextsOf(Text!Diarized(named), name)
  BY <1>3, <1>4, <1>5, <1>6, <1>7, <1>8
<1> QED BY <1>3, <1>9 DEF applied, named, name

(* The text of the command line holds what somebody said, or everything. *)
LEMMA TextHolds ==
    ASSUME NEW L, NEW segs, Segmented(segs, L)
    PROVE  AllTexts(Text!Text(segs, TRUE))
             = Heard(segs, IF Text!Labels(segs) = {} THEN DOMAIN segs
                           ELSE {i \in DOMAIN segs : segs[i].speaker # Text!NoOne})
<1>1. (\E s \in Text!ToSet(segs) : s.speaker # Text!NoOne) <=> Text!Labels(segs) # {}
  BY DEF Text!ToSet, Text!Labels
<1>2. CASE Text!Labels(segs) # {}
  <2> DEFINE silent == {i \in DOMAIN segs : segs[i].speaker = Text!NoOne}
  <2>1. Text!Text(segs, TRUE) = Text!Blocks(segs, silent)
    BY <1>1, <1>2 DEF Text!Text, Text!Diarized
  <2>2. DOMAIN segs \ silent = {i \in DOMAIN segs : segs[i].speaker # Text!NoOne}
    OBVIOUS
  <2>3. AllTexts(Text!Blocks(segs, silent)) = Heard(segs, DOMAIN segs \ silent)
    BY AllHeld
  <2> QED BY <1>2, <2>1, <2>2, <2>3
<1>3. CASE Text!Labels(segs) = {}
  <2>1. Text!Text(segs, TRUE) = Text!Timed(segs)
    BY <1>1, <1>3 DEF Text!Text
  <2>2. [b \in DOMAIN Text!Timed(segs) |-> Text!Timed(segs)[b].texts]
          = [i \in DOMAIN segs |-> IF i \in DOMAIN segs THEN <<segs[i].text>> ELSE <<>>]
    BY DEF Text!Timed, Text!Block
  <2>3. AllTexts(Text!Timed(segs)) = Heard(segs, DOMAIN segs)
    BY <2>2 DEF AllTexts, Heard
  <2> QED BY <1>3, <2>1, <2>3
<1> QED BY <1>2, <1>3

-----------------------------------------------------------------------------
(* The voices that wait for a name.                                           *)

(* The sample of a voice is what it says first. *)
LEMMA SampleIs ==
    ASSUME NEW L, NEW segs, Segmented(segs, L), NEW label
    PROVE  LET sample == Text!Sample(segs, label)
           IN /\ sample.at \in Nat
              /\ IF sample.at = 0 THEN \A s \in ToSet(segs) : s.speaker # label
                 ELSE /\ segs[sample.at].speaker = label /\ segs[sample.at].text = sample.text
                      /\ \A i \in 1 .. sample.at - 1 : segs[i].speaker # label
<1> DEFINE i == Text!First(segs, label)
           sample == Text!Sample(segs, label)
<1>1. sample = IF i = 0 THEN [text |-> Text!Blank, at |-> 0] ELSE [text |-> segs[i].text, at |-> segs[i].at]
  BY DEF Text!Sample
<1>2. /\ i \in 0 .. Len(segs)
      /\ IF \E j \in DOMAIN segs : segs[j].speaker = label
         THEN i \in DOMAIN segs /\ segs[i].speaker = label /\ \A j \in 1 .. i - 1 : segs[j].speaker # label
         ELSE i = 0
  BY FirstIs
<1>3. Len(segs) \in Nat /\ DOMAIN segs = 1 .. Len(segs) /\ \A j \in DOMAIN segs : segs[j].at = j
  BY DEF Segmented
<1> HIDE DEF i, sample
<1>4. CASE \E j \in DOMAIN segs : segs[j].speaker = label
  <2>1. i \in DOMAIN segs /\ i # 0 /\ i \in Nat /\ segs[i].speaker = label /\ \A j \in 1 .. i - 1 : segs[j].speaker # label
    BY <1>2, <1>3, <1>4
  <2>2. sample.at = i /\ sample.text = segs[i].text
    BY <1>1, <1>3, <2>1
  <2> QED BY <2>1, <2>2 DEF sample
<1>5. CASE ~ \E j \in DOMAIN segs : segs[j].speaker = label
  <2>1. sample.at = 0
    BY <1>1, <1>2, <1>5
  <2>2. \A s \in ToSet(segs) : s.speaker # label
    BY <1>5 DEF ToSet
  <2> QED BY <2>1, <2>2 DEF sample
<1> QED BY <1>4, <1>5

(* What was sorted is what there was, in an order of its own, by when it is said. *)
Arranged(entries, sorted, n, at) ==
    /\ sorted = [k \in 1 .. n |-> entries[at[k]]]
    /\ \A k \in 1 .. n : at[k] \in 1 .. n
    /\ \A k, l \in 1 .. n : at[k] = at[l] => k = l
    /\ \A i \in 1 .. n : \E k \in 1 .. n : at[k] = i
    /\ \A k, l \in 1 .. n : k < l => entries[at[k]].sample.at <= entries[at[l]].sample.at

(* Sorting. *)
LEMMA SortedIs ==
    ASSUME NEW n \in Nat, NEW entries, DOMAIN entries = 1 .. n,
           \A i \in 1 .. n : entries[i].sample.at \in Nat
    PROVE  \E at : Arranged(entries, Text!Sorted(entries), n, at)
<1> DEFINE D == 1 .. n
           At(i) == entries[i].sample.at
           R == {p \in D \X D : Text!Earlier(entries, p[1], p[2])}
           Place(i) == 1 + Cardinality({j \in D : <<j, i>> \in R})
           at == [k \in D |-> CHOOSE i \in D : Place(i) = k]
<1>1. \A i, j \in D : <<i, j>> \in R <=> At(i) < At(j) \/ (At(i) = At(j) /\ i < j)
  BY DEF Text!Earlier
<1>2. \A i \in D : At(i) \in Nat /\ i \in Nat
  OBVIOUS
<1>a. \A i, j \in D : <<i, j>> \in R <=> Text!Earlier(entries, i, j)
  OBVIOUS
<1> HIDE DEF R, At, D
<1>3. /\ \A i, j \in D : i # j => <<i, j>> \in R \/ <<j, i>> \in R
      /\ \A i \in D : <<i, i>> \notin R
      /\ \A h, i, j \in D : <<h, i>> \in R /\ <<i, j>> \in R => <<h, j>> \in R
  <2>1. \A i, j \in D : i # j => <<i, j>> \in R \/ <<j, i>> \in R
    BY <1>1, <1>2
  <2>2. \A i \in D : <<i, i>> \notin R
    BY <1>1, <1>2
  <2>3. \A h, i, j \in D : <<h, i>> \in R /\ <<i, j>> \in R => <<h, j>> \in R
    BY <1>1, <1>2
  <2> QED BY <2>1, <2>2, <2>3
<1>4. /\ \A i \in D : Place(i) \in D
      /\ \A i, j \in D : <<i, j>> \in R => Place(i) < Place(j)
      /\ \A i, j \in D : Place(i) = Place(j) => i = j
      /\ \A k \in D : \E i \in D : Place(i) = k
  BY <1>3, Ranks DEF D
<1>5. Text!Sorted(entries) = [k \in D |-> entries[at[k]]]
  <2> DEFINE Rank(i) == 1 + Text!Cardinality({j \in D : Text!Earlier(entries, j, i)})
  <2>1. ASSUME NEW i \in D PROVE Rank(i) = Place(i)
    <3>1. {j \in D : Text!Earlier(entries, j, i)} = {j \in D : <<j, i>> \in R}
      BY <1>a
    <3> QED BY <3>1, SameOperators
  <2>2. Text!Sorted(entries) = [k \in D |-> entries[CHOOSE i \in D : Rank(i) = k]]
    BY DEF Text!Sorted, D
  <2> HIDE DEF Rank, Place
  <2>3. \A k \in D : (CHOOSE i \in D : Rank(i) = k) = (CHOOSE i \in D : Place(i) = k)
    BY <2>1
  <2> QED BY <2>2, <2>3
<1> HIDE DEF Place
<1>6. ASSUME NEW k \in D PROVE at[k] \in D /\ Place(at[k]) = k
  BY <1>4
<1>7. ASSUME NEW i \in D PROVE Place(i) \in D /\ at[Place(i)] = i
  <2>1. Place(i) \in D
    BY <1>4
  <2>2. at[Place(i)] \in D /\ Place(at[Place(i)]) = Place(i)
    BY <1>6, <2>1
  <2> HIDE DEF at
  <2> QED BY <1>4, <2>1, <2>2
<1> HIDE DEF at
<1>8. ASSUME NEW k \in D, NEW l \in D, k < l PROVE At(at[k]) <= At(at[l])
  <2> DEFINE i == at[k]
             j == at[l]
  <2>1. i \in D /\ j \in D /\ Place(i) = k /\ Place(j) = l
    BY <1>6
  <2>2. k \in Nat /\ l \in Nat
    BY <1>2
  <2> HIDE DEF i, j
  <2>3. <<j, i>> \notin R
    BY <1>4, <1>8, <2>1, <2>2
  <2>4. At(i) <= At(j)
    BY <1>1, <1>2, <2>1, <2>3
  <2> QED BY <2>4 DEF i, j
<1>9. /\ \A k \in D : at[k] \in D
      /\ \A k, l \in D : at[k] = at[l] => k = l
      /\ \A i \in D : \E k \in D : at[k] = i
  BY <1>6, <1>7
<1>10. Arranged(entries, Text!Sorted(entries), n, at)
  BY <1>5, <1>8, <1>9 DEF Arranged, D, At
<1> QED BY <1>10

(* Every voice that may be enrolled waits for a name once, in the order in which the voices
   first speak. *)
LEMMA PendingWaits ==
    ASSUME NEW L, NEW segs, Segmented(segs, L), NEW voices \in VoiceLists
    PROVE  WaitsOnce(Text!Pending(segs, voices, KnownVoices, Normal), voices, segs)
<1> DEFINE n == Len(voices)
           Label(i) == Normal[voices[i].raw]
           Entry(i) == [label |-> Label(i), id |-> voices[i].id, sample |-> Text!Sample(segs, Label(i))]
           P == {i \in 1 .. n : ~(voices[i].raw \in KnownVoices \/ voices[i].id = "")}
           entries == [i \in 1 .. n |-> Entry(i)]
           X == {Entry(i) : i \in 1 .. n}
           places == Places(n, P)
           waiting == Picked(entries, P)
           m == Len(places)
           pending == Text!Sorted(waiting)
<1>1. n \in Nat /\ DOMAIN voices = 1 .. n /\ \A i, j \in 1 .. n : Label(i) = Label(j) => i = j
  BY VoicesAssumption
<1>2. Text!Waiting(segs, voices, KnownVoices, Normal) = waiting
  <2> DEFINE Cond(i) == voices[i].raw \in KnownVoices \/ voices[i].id = ""
  <2>1. Text!Waiting(segs, voices, KnownVoices, Normal)
          = FlattenSeq([i \in DOMAIN voices |-> IF Cond(i) THEN <<>> ELSE <<Entry(i)>>])
    BY SameOperators DEF Text!Waiting
  <2>2. \A i \in 1 .. n : i \in P <=> ~Cond(i)
    OBVIOUS
  <2>3. DOMAIN entries = 1 .. n /\ \A i \in 1 .. n : entries[i] = Entry(i)
    OBVIOUS
  <2> HIDE DEF n, P, Cond, Entry, entries
  <2>4. [i \in DOMAIN voices |-> IF Cond(i) THEN <<>> ELSE <<Entry(i)>>]
          = [i \in DOMAIN entries |-> IF i \in P THEN <<entries[i]>> ELSE <<>>]
    BY <1>1, <2>2, <2>3
  <2> QED BY <2>1, <2>4 DEF Picked
<1>3. entries \in Seq(X) /\ Len(entries) = n /\ \A i \in 1 .. n : entries[i] = Entry(i)
  <2>1. \A i \in 1 .. n : Entry(i) \in X
    OBVIOUS
  <2> HIDE DEF Entry, X, n
  <2> QED BY <1>1, <2>1
<1>4. \A i \in 1 .. n : /\ Entry(i).label = Label(i) /\ Entry(i).id = voices[i].id
                        /\ Entry(i).sample = Text!Sample(segs, Label(i))
  OBVIOUS
<1>5. \A i \in 1 .. n : i \in P <=> voices[i].raw \notin KnownVoices /\ voices[i].id # ""
  OBVIOUS
<1> HIDE DEF n, Label, Entry, P, entries, X
<1>6. /\ places \in Seq(1 .. n) /\ Rising(places) /\ ToSet(places) = P \cap (1 .. n)
      /\ waiting = [k \in DOMAIN places |-> entries[places[k]]]
  BY <1>3, PickedAt
<1> HIDE DEF waiting, places
<1>7. m \in Nat /\ DOMAIN places = 1 .. m /\ DOMAIN waiting = 1 .. m
  BY <1>6
<1>8. \A k \in 1 .. m : places[k] \in 1 .. n /\ places[k] \in P /\ waiting[k] = Entry(places[k])
  BY <1>3, <1>6, <1>7 DEF ToSet
<1>9. \A k, l \in 1 .. m : places[k] = places[l] => k = l
  <2>1. \A k \in 1 .. m : places[k] \in Nat
    BY <1>8
  <2>2. \A k, l \in 1 .. m : k < l => places[k] < places[l]
    BY <1>6, <1>7 DEF Rising
  <2> HIDE DEF m
  <2> QED BY <1>7, <2>1, <2>2
<1>10. \A i \in 1 .. n : i \in P => \E k \in 1 .. m : places[k] = i
  BY <1>6, <1>7 DEF ToSet
<1> HIDE DEF m
<1>11. \A k \in 1 .. m : waiting[k].sample.at \in Nat
  BY <1>4, <1>8, SampleIs
<1>12. PICK at : Arranged(waiting, pending, m, at)
  BY <1>7, <1>11, SortedIs
<1> HIDE DEF pending
<1> DEFINE From(k) == places[at[k]]
<1>13. /\ DOMAIN pending = 1 .. m
       /\ \A k \in 1 .. m : From(k) \in 1 .. n /\ From(k) \in P /\ pending[k] = Entry(From(k))
       /\ \A k, l \in 1 .. m : From(k) = From(l) => k = l
       /\ \A i \in 1 .. n : i \in P => \E k \in 1 .. m : From(k) = i
       /\ \A k, l \in 1 .. m : k < l => pending[k].sample.at <= pending[l].sample.at
  <2>1. \A k \in 1 .. m : at[k] \in 1 .. m /\ pending[k] = waiting[at[k]]
    BY <1>12 DEF Arranged
  <2>2. \A k \in 1 .. m : From(k) \in 1 .. n /\ From(k) \in P /\ pending[k] = Entry(From(k))
    BY <1>8, <2>1
  <2>3. ASSUME NEW k \in 1 .. m, NEW l \in 1 .. m, From(k) = From(l) PROVE k = l
    <3>1. at[k] = at[l]
      BY <1>9, <2>1, <2>3
    <3> QED BY <1>12, <3>1 DEF Arranged
  <2>4. \A i \in 1 .. n : i \in P => \E k \in 1 .. m : From(k) = i
    <3> SUFFICES ASSUME NEW i \in 1 .. n, i \in P PROVE \E k \in 1 .. m : From(k) = i
      OBVIOUS
    <3>1. PICK j \in 1 .. m : places[j] = i
      BY <1>10
    <3>2. PICK k \in 1 .. m : at[k] = j
      BY <1>12 DEF Arranged
    <3> QED BY <3>1, <3>2
  <2>5. \A k, l \in 1 .. m : k < l => pending[k].sample.at <= pending[l].sample.at
    BY <1>12, <2>1 DEF Arranged
  <2>6. DOMAIN pending = 1 .. m
    BY <1>12 DEF Arranged
  <2> QED BY <2>2, <2>3, <2>4, <2>5, <2>6
<1> HIDE DEF From
<1>14. {p.id : p \in ToSet(pending)} = {v.id : v \in {v \in ToSet(voices) : v.raw \notin KnownVoices}} \ {""}
  <2>1. ASSUME NEW p \in ToSet(pending)
        PROVE  p.id \in {v.id : v \in {v \in ToSet(voices) : v.raw \notin KnownVoices}} \ {""}
    <3>1. PICK k \in 1 .. m : p = pending[k]
      BY <1>13 DEF ToSet
    <3>2. From(k) \in 1 .. n /\ From(k) \in P /\ p.id = voices[From(k)].id
      BY <1>4, <1>13, <3>1
    <3>3. voices[From(k)] \in ToSet(voices) /\ voices[From(k)].raw \notin KnownVoices /\ p.id # ""
      BY <1>1, <1>5, <3>2 DEF ToSet
    <3> QED BY <3>2, <3>3
  <2>2. ASSUME NEW v \in ToSet(voices), v.raw \notin KnownVoices, v.id # ""
        PROVE  \E p \in ToSet(pending) : p.id = v.id
    <3>1. PICK i \in 1 .. n : v = voices[i]
      BY <1>1 DEF ToSet
    <3>2. i \in P
      BY <1>5, <2>2, <3>1
    <3>3. PICK k \in 1 .. m : From(k) = i
      BY <1>13, <3>2
    <3>4. pending[k] \in ToSet(pending) /\ pending[k].id = v.id
      BY <1>4, <1>13, <3>1, <3>3 DEF ToSet
    <3> QED BY <3>4
  <2>3. {p.id : p \in ToSet(pending)} \subseteq {v.id : v \in {v \in ToSet(voices) : v.raw \notin KnownVoices}} \ {""}
    BY <2>1
  <2>4. ASSUME NEW x \in {v.id : v \in {v \in ToSet(voices) : v.raw \notin KnownVoices}} \ {""}
        PROVE  x \in {p.id : p \in ToSet(pending)}
    <3>1. PICK v \in ToSet(voices) : v.raw \notin KnownVoices /\ x = v.id /\ x # ""
      OBVIOUS
    <3>2. PICK p \in ToSet(pending) : p.id = v.id
      BY <2>2, <3>1
    <3> QED BY <3>1, <3>2
  <2> QED BY <2>3, <2>4
<1>15. \A k, l \in 1 .. m : k # l => pending[k].label # pending[l].label
  BY <1>1, <1>4, <1>13
<1>16. ASSUME NEW p \in ToSet(pending)
       PROVE  IF p.sample.at = 0 THEN \A s \in ToSet(segs) : s.speaker # p.label
              ELSE /\ segs[p.sample.at].speaker = p.label /\ segs[p.sample.at].text = p.sample.text
                   /\ \A i \in 1 .. p.sample.at - 1 : segs[i].speaker # p.label
  <2>1. PICK k \in 1 .. m : p = pending[k]
    BY <1>13 DEF ToSet
  <2>2. p.sample = Text!Sample(segs, p.label)
    BY <1>4, <1>13, <2>1
  <2> QED BY <2>2, SampleIs
<1>17. WaitsOnce(pending, voices, segs)
  BY <1>13, <1>14, <1>15, <1>16 DEF WaitsOnce
<1> QED BY <1>2, <1>17 DEF Text!Pending, pending

-----------------------------------------------------------------------------
(* Clips and times.                                                           *)

(* The digits of a time add up. *)
LEMMA ClockIs ==
    ASSUME NEW ms \in Nat
    PROVE  LET c == Text!Clock(ms)
           IN /\ ((c[1] * 60 + c[2]) * 60 + c[3]) * 1000 + c[4] = ms
              /\ c[2] < 60 /\ c[3] < 60 /\ c[4] < 1000
<1>1. Text!Clock(ms) = <<ms \div 3600000, (ms % 3600000) \div 60000, (ms % 60000) \div 1000, ms % 1000>>
  BY DEF Text!Clock
<1> DEFINE a == ms \div 3600000
           b == (ms % 3600000) \div 60000
           c == (ms % 60000) \div 1000
           d == ms % 1000
<1>2. /\ ((a * 60 + b) * 60 + c) * 1000 + d = ms
      /\ b < 60 /\ c < 60 /\ d < 1000
  OBVIOUS
<1> HIDE DEF a, b, c, d
<1>3. Text!Clock(ms) = <<a, b, c, d>>
  BY <1>1 DEF a, b, c, d
<1> QED BY <1>2, <1>3

(* So do those of a time that has gone by. *)
LEMMA ElapsedIs ==
    ASSUME NEW start \in Int, NEW stand \in Nat
    PROVE  LET e == Text!Elapsed(start, stand)
           IN /\ (e[1] * 60 + e[2]) * 60 + e[3] = IF stand < start THEN 0 ELSE stand - start
              /\ e[2] < 60 /\ e[3] < 60
<1> DEFINE total == IF stand < start THEN 0 ELSE stand - start
           a == total \div 3600
           b == (total % 3600) \div 60
           c == total % 60
<1>1. total \in Nat
  OBVIOUS
<1>2. Text!Elapsed(start, stand) = <<a, b, c>>
  BY DEF Text!Elapsed
<1>3. (a * 60 + b) * 60 + c = total /\ b < 60 /\ c < 60
  <2> HIDE DEF total
  <2> QED BY <1>1
<1> HIDE DEF a, b, c
<1>4. LET e == Text!Elapsed(start, stand)
      IN (e[1] * 60 + e[2]) * 60 + e[3] = total /\ e[2] < 60 /\ e[3] < 60
  BY <1>2, <1>3
<1> QED BY <1>4

(* Within the recording, from where the voice starts, and no longer than the window. *)
Within(n, rate, first, window) ==
    LET w == Text!PlaybackWindow(n, rate, first, window)
    IN /\ 0 <= w.start /\ w.start <= w.end /\ w.end <= n
       /\ w.end - w.start <= window * rate
       /\ rate > 0 /\ 0 <= first /\ first * rate <= n => w.start = first * rate

(* A clip is so. *)
LEMMA PlaybackIs ==
    ASSUME NEW n \in Nat, NEW rate \in Nat, NEW first \in Int, NEW window \in Nat
    PROVE  Within(n, rate, first, window)
<1> DEFINE w == Text!PlaybackWindow(n, rate, first, window)
           from == first * rate
           length == window * rate
           s == IF from < n THEN from ELSE n
           start == IF s < 0 THEN 0 ELSE s
           end == IF n < start + length THEN n ELSE start + length
<1>1. from \in Int /\ length \in Nat
  OBVIOUS
<1>2. 0 <= first => from \in Nat
  OBVIOUS
<1>3. w = IF n <= 0 \/ rate <= 0 THEN [start |-> 0, end |-> 0] ELSE [start |-> start, end |-> end]
  BY DEF Text!PlaybackWindow
<1> HIDE DEF w, from, length
<1>4. ASSUME n <= 0 \/ rate <= 0
      PROVE  /\ 0 <= w.start /\ w.start <= w.end /\ w.end <= n /\ w.end - w.start <= length
             /\ rate > 0 /\ 0 <= first /\ from <= n => w.start = from
  <2>1. w.start = 0 /\ w.end = 0
    BY <1>3, <1>4
  <2>2. rate > 0 /\ 0 <= first /\ from <= n => from = 0
    BY <1>1, <1>2, <1>4
  <2>3. /\ 0 <= w.start /\ w.start <= w.end /\ w.end <= n /\ w.end - w.start <= length
        /\ rate > 0 /\ 0 <= first /\ from <= n => w.start = from
    BY <1>1, <2>1, <2>2
  <2> QED BY <2>3
<1>5. ASSUME ~(n <= 0 \/ rate <= 0)
      PROVE  /\ 0 <= w.start /\ w.start <= w.end /\ w.end <= n /\ w.end - w.start <= length
             /\ rate > 0 /\ 0 <= first /\ from <= n => w.start = from
  <2>1. w.start = start /\ w.end = end
    BY <1>3, <1>5
  <2>2. /\ 0 <= start /\ start <= end /\ end <= n /\ end - start <= length
        /\ 0 <= first /\ from <= n => start = from
    BY <1>1, <1>2
  <2>3. /\ 0 <= w.start /\ w.start <= w.end /\ w.end <= n /\ w.end - w.start <= length
        /\ rate > 0 /\ 0 <= first /\ from <= n => w.start = from
    BY <2>1, <2>2
  <2> QED BY <2>3
<1>6. /\ 0 <= w.start /\ w.start <= w.end /\ w.end <= n /\ w.end - w.start <= length
      /\ rate > 0 /\ 0 <= first /\ from <= n => w.start = from
  BY <1>4, <1>5
<1> QED BY <1>6, Zenon DEF Within, w, from, length

-----------------------------------------------------------------------------
(* The segments of a note that is written. *)
LEMMA SegmentsAre ==
    ASSUME NEW spoken \in Meetings
    PROVE  Segmented(SegmentsOf(spoken), Speakers)
<1>1. PICK k \in 0 .. MaxSegments : spoken \in [1 .. k -> Speakers \X BOOLEAN]
  BY DEF Meetings
<1>2. k \in Nat
  BY SegmentsAssumption
<1> DEFINE Seg(i) == [speaker |-> spoken[i][1], at |-> i, text |-> IF spoken[i][2] THEN i ELSE Text!Blank]
           segs == SegmentsOf(spoken)
<1>3. segs = [i \in 1 .. k |-> Seg(i)]
  BY <1>1 DEF SegmentsOf
<1>4. ASSUME NEW i \in 1 .. k
      PROVE  Seg(i) \in Segment(Speakers) /\ Seg(i).at = i /\ Seg(i).text \in {Text!Blank, i}
  <2>1. spoken[i] \in Speakers \X BOOLEAN /\ i \in Nat
    BY <1>1, <1>2
  <2>2. spoken[i][1] \in Speakers
    BY <2>1
  <2> QED BY <2>1, <2>2 DEF Segment, Text!Blank
<1>5. segs \in Seq(Segment(Speakers)) /\ DOMAIN segs = 1 .. k
  <2> HIDE DEF Seg, segs
  <2> QED BY <1>2, <1>3, <1>4
<1>6. \A i \in DOMAIN segs : segs[i].at = i /\ segs[i].text \in {Text!Blank, i}
  <2> HIDE DEF Seg, segs
  <2> QED BY <1>3, <1>4, <1>5
<1>7. AreLabels(Speakers)
  BY SegmentsAssumption DEF AreLabels
<1> QED BY <1>5, <1>6, <1>7 DEF Segmented

(* TextsWhole, of the input. *)
NoteRight(segs, voices, names) ==
    LET named == Text!Renamed(segs, names)
        note == Text!NamedNote(segs, names)
    IN /\ Renders(Text!Markdown(segs), segs)
       /\ Renders(Text!Cues(segs), segs)
       /\ Renders(note.body, named)
       /\ NamesThem(note, named)
       /\ WaitsOnce(Text!Pending(segs, voices, KnownVoices, Normal), voices, segs)
TextRight(segs, names) ==
    LET shown == ShownNames(segs, names)
    IN /\ AllTexts(Text!Text(segs, TRUE))
            = Heard(segs, IF Text!Labels(segs) = {} THEN DOMAIN segs
                          ELSE {i \in DOMAIN segs : segs[i].speaker # Text!NoOne})
       /\ \A k \in DOMAIN shown :
            TextsOf(Text!NamesApplied(Text!Diarized(segs), shown), shown[k])
              = TextsOf(Text!Diarized(Text!Renamed(segs, names)), shown[k])
ClipRight(clip) ==
    LET w == Text!PlaybackWindow(clip.n, clip.rate, clip.first, clip.window)
        c == Text!Clock(clip.ms)
        e == Text!Elapsed(clip.first, clip.ms)
    IN /\ 0 <= w.start /\ w.start <= w.end /\ w.end <= clip.n
       /\ w.end - w.start <= clip.window * clip.rate
       /\ clip.rate > 0 /\ 0 <= clip.first /\ clip.first * clip.rate <= clip.n =>
            w.start = clip.first * clip.rate
       /\ ((c[1] * 60 + c[2]) * 60 + c[3]) * 1000 + c[4] = clip.ms
       /\ c[2] < 60 /\ c[3] < 60 /\ c[4] < 1000
       /\ (e[1] * 60 + e[2]) * 60 + e[3] = IF clip.ms < clip.first THEN 0 ELSE clip.ms - clip.first
       /\ e[2] < 60 /\ e[3] < 60

(* The names differ, what they say does not. *)
LEMMA TextsWholeSays ==
    /\ TextsWhole <=> /\ input.of = "note" => NoteRight(input.segs, input.voices, input.names)
                                              /\ TextRight(input.segs, input.names)
                      /\ input.of = "clip" => ClipRight(input.clip)
    /\ TextsWhole' <=> /\ input'.of = "note" => NoteRight(input'.segs, input'.voices, input'.names)
                                                /\ TextRight(input'.segs, input'.names)
                       /\ input'.of = "clip" => ClipRight(input'.clip)
<1>1. NoteWhole <=> (input.of = "note" => NoteRight(input.segs, input.voices, input.names))
  BY DEF NoteWhole, NoteRight
<1>2. TextNamed <=> (input.of = "note" => TextRight(input.segs, input.names))
  BY DEF TextNamed, TextRight
<1>3. ClipInside <=> (input.of = "clip" => ClipRight(input.clip))
  BY DEF ClipInside, ClipRight
<1>4. NoteWhole' <=> (input'.of = "note" => NoteRight(input'.segs, input'.voices, input'.names))
  BY DEF NoteWhole, NoteRight
<1>5. TextNamed' <=> (input'.of = "note" => TextRight(input'.segs, input'.names))
  BY DEF TextNamed, TextRight
<1>6. ClipInside' <=> (input'.of = "clip" => ClipRight(input'.clip))
  BY DEF ClipInside, ClipRight
<1> QED BY <1>1, <1>2, <1>3, <1>4, <1>5, <1>6 DEF TextsWhole

(* The note of a meeting. *)
LEMMA NotesAreRight ==
    ASSUME NEW L, NEW segs, Segmented(segs, L), NEW voices \in VoiceLists, NEW names \in Bindings
    PROVE  NoteRight(segs, voices, names) /\ TextRight(segs, names)
<1> DEFINE named == Text!Renamed(segs, names)
           note == Text!NamedNote(segs, names)
           shown == ShownNames(segs, names)
<1>1. Binds(names)
  BY BindingsAssumption DEF Binds
<1>2. Segmented(named, Named(L, names))
  BY <1>1, RenamedIs
<1> HIDE DEF named, note
<1>3. Renders(Text!Markdown(segs), segs) /\ Renders(Text!Cues(segs), segs)
  BY MarkdownRenders, CuesRender
<1>4. note = Text!Note(named, Text!Participants(named))
  BY DEF note, named, Text!NamedNote
<1>5. Renders(note.body, named) /\ NamesThem(note, named)
  <2>1. note.body = Text!Markdown(named)
    BY <1>4 DEF Text!Note
  <2> QED BY <1>2, <1>4, <2>1, MarkdownRenders, NamesThemAll
<1>6. WaitsOnce(Text!Pending(segs, voices, KnownVoices, Normal), voices, segs)
  BY PendingWaits
<1>7. NoteRight(segs, voices, names)
  BY <1>3, <1>5, <1>6 DEF NoteRight, named, note
<1>8. AllTexts(Text!Text(segs, TRUE))
        = Heard(segs, IF Text!Labels(segs) = {} THEN DOMAIN segs
                      ELSE {i \in DOMAIN segs : segs[i].speaker # Text!NoOne})
  BY TextHolds
<1>9. \A k \in DOMAIN shown :
        TextsOf(Text!NamesApplied(Text!Diarized(segs), shown), shown[k])
          = TextsOf(Text!Diarized(Text!Renamed(segs, names)), shown[k])
  BY <1>1, TextsNamed
<1>10. TextRight(segs, names)
  BY <1>8, <1>9 DEF TextRight
<1> QED BY <1>7, <1>10

(* A clip and its times. *)
LEMMA ClipsAreRight ==
    ASSUME NEW clip \in Clips
    PROVE  ClipRight(clip)
<1>1. clip.n \in Nat /\ clip.rate \in Nat /\ clip.first \in Int /\ clip.window \in Nat /\ clip.ms \in Nat
  BY ClipsAssumption
<1>a. Within(clip.n, clip.rate, clip.first, clip.window)
  BY <1>1, PlaybackIs
<1> DEFINE w == Text!PlaybackWindow(clip.n, clip.rate, clip.first, clip.window)
           c == Text!Clock(clip.ms)
           e == Text!Elapsed(clip.first, clip.ms)
<1>2. /\ 0 <= w.start /\ w.start <= w.end /\ w.end <= clip.n
      /\ w.end - w.start <= clip.window * clip.rate
      /\ clip.rate > 0 /\ 0 <= clip.first /\ clip.first * clip.rate <= clip.n => w.start = clip.first * clip.rate
  BY <1>a, Zenon DEF Within
<1>3. ((c[1] * 60 + c[2]) * 60 + c[3]) * 1000 + c[4] = clip.ms /\ c[2] < 60 /\ c[3] < 60 /\ c[4] < 1000
  BY <1>1, ClockIs
<1>4. /\ (e[1] * 60 + e[2]) * 60 + e[3] = IF clip.ms < clip.first THEN 0 ELSE clip.ms - clip.first
      /\ e[2] < 60 /\ e[3] < 60
  BY <1>1, ElapsedIs
<1>5. ClipRight(clip) <=>
        /\ 0 <= w.start /\ w.start <= w.end /\ w.end <= clip.n
        /\ w.end - w.start <= clip.window * clip.rate
        /\ clip.rate > 0 /\ 0 <= clip.first /\ clip.first * clip.rate <= clip.n => w.start = clip.first * clip.rate
        /\ ((c[1] * 60 + c[2]) * 60 + c[3]) * 1000 + c[4] = clip.ms
        /\ c[2] < 60 /\ c[3] < 60 /\ c[4] < 1000
        /\ (e[1] * 60 + e[2]) * 60 + e[3] = IF clip.ms < clip.first THEN 0 ELSE clip.ms - clip.first
        /\ e[2] < 60 /\ e[3] < 60
  BY Zenon DEF ClipRight
<1> HIDE DEF w, c, e
<1> QED BY <1>2, <1>3, <1>4, <1>5, Zenon

(* What is written of any meeting holds what was said, names who said it, and asks for the
   voices without a name; and clips and times are right (format_diarized_markdown,
   apply_speaker_names, rerender_named_note, _build_pending_payload and playback_window). *)
THEOREM TextsAreWhole == TextSpec => []TextsWhole
<1>1. Idle => TextsWhole
  <2>1. Idle => input.of # "note" /\ input.of # "clip"
    BY DEF Idle
  <2> QED BY <2>1, TextsWholeSays
<1>2. TextsWhole /\ [TextComes]_input => TextsWhole'
  <2>1. ASSUME NoteIsWritten PROVE TextsWhole'
    <3>1. PICK spoken \in Meetings, voices \in VoiceLists, names \in Bindings :
            input' = [of |-> "note", segs |-> SegmentsOf(spoken), voices |-> voices, names |-> names]
      BY <2>1 DEF NoteIsWritten
    <3>2. /\ input'.of = "note" /\ input'.of # "clip"
          /\ input'.segs = SegmentsOf(spoken) /\ input'.voices = voices /\ input'.names = names
      BY <3>1
    <3>3. NoteRight(SegmentsOf(spoken), voices, names) /\ TextRight(SegmentsOf(spoken), names)
      BY SegmentsAre, NotesAreRight
    <3> QED BY <3>2, <3>3, TextsWholeSays
  <2>2. ASSUME ClipIsPlayed PROVE TextsWhole'
    <3>1. PICK clip \in Clips : input' = [of |-> "clip", clip |-> clip]
      BY <2>2 DEF ClipIsPlayed
    <3>2. input'.of = "clip" /\ input'.of # "note" /\ input'.clip = clip
      BY <3>1
    <3> QED BY <3>2, ClipsAreRight, TextsWholeSays
  <2>3. TextsWhole /\ UNCHANGED input => TextsWhole'
    BY TextsWholeSays, Zenon
  <2> QED BY <2>1, <2>2, <2>3 DEF TextComes
<1> QED BY <1>1, <1>2, PTL DEF TextSpec

-----------------------------------------------------------------------------
(* What the meetings window shows of any directory and any jobs.              *)

(* What the instance takes from the community modules is what is taken here. *)
LEMMA SameInView ==
    /\ \A s : View!FlattenSeq(s) = FlattenSeq(s)
    /\ \A s : View!Max(s) = Max(s) /\ View!Min(s) = Min(s)
<1>1. \A s : View!FlattenSeq(s) = FlattenSeq(s)
  BY DEF View!FlattenSeq, FlattenSeq
<1>2. \A s : View!Max(s) = Max(s) /\ View!Min(s) = Min(s)
  BY DEF View!Max, Max, View!Min, Min
<1> QED BY <1>1, <1>2

(* What the assumptions say of one directory, and of jobs beside it that the worker may have
   worked on. *)
Tree(entries) ==
    /\ IsListing(entries) /\ \A e \in ToSet(entries) : IsListing(e.subs)
    /\ Paths(entries) \cap Under(entries) = {} /\ View!None \notin Paths(entries) \cup Under(entries)
    /\ \A d, e \in ToSet(entries) : d # e => Paths(d.subs) \cap Paths(e.subs) = {}
Beside(entries, items) ==
    /\ items \in Seq(ToSet(items))
    /\ \A i, j \in DOMAIN items : items[i].id = items[j].id => i = j
    /\ \A j \in DOMAIN items :
         /\ items[j].id # View!None /\ items[j].id \notin Paths(entries) \cup Under(entries)
         /\ DOMAIN items[j] = {"id", "folder", "audio", "auto", "project", "status", "protocol", "tasks", "voices"}
         /\ items[j].status = "done" => items[j].folder # View!None

(* The meetings that an entry brings. *)
MeetingsIn(e) ==
    IF View!IsRow(e) THEN {e}
    ELSE IF e.dir /\ e.path \notin View!SkipDirs THEN {x \in ToSet(e.subs) : View!IsRow(x)} ELSE {}

(* A row of a folder is called by it. *)
LEMMA RowIs ==
    ASSUME NEW e
    PROVE  View!Row(e).folder = e.path /\ View!Row(e).id = e.path /\ View!Row(e).auto = FALSE
  BY DEF View!Row

(* The meetings are those that the entries bring. *)
LEMMA MeetingsBrought ==
    ASSUME NEW entries
    PROVE  MeetingsOf(entries) = UNION {MeetingsIn(e) : e \in ToSet(entries)}
<1> DEFINE Folder(e) == e.dir /\ e.path \notin View!SkipDirs
           WholeOf(es) == {e \in {x \in ToSet(es) : Folder(x)} : View!IsMeeting(e)}
           Row(e) == View!IsRow(e)
           T == ToSet(entries)
<1>1. MeetingsOf(entries)
        = WholeOf(entries) \cup UNION {WholeOf(e.subs) : e \in {x \in T : Folder(x)} \ WholeOf(entries)}
  BY DEF MeetingsOf
<1>2. \A e : Row(e) <=> Folder(e) /\ View!IsMeeting(e)
  BY DEF View!IsRow
<1>3. \A es, x : x \in WholeOf(es) <=> x \in ToSet(es) /\ Row(x)
  BY <1>2
<1>4. \A e, x : x \in MeetingsIn(e) <=> \/ Row(e) /\ x = e
                                        \/ ~Row(e) /\ Folder(e) /\ x \in ToSet(e.subs) /\ Row(x)
  BY DEF MeetingsIn
<1>5. \A e : e \in {x \in T : Folder(x)} \ WholeOf(entries) <=> e \in T /\ Folder(e) /\ ~Row(e)
  BY <1>3
<1> HIDE DEF WholeOf, Row, Folder
<1>6. \A x : x \in MeetingsOf(entries)
               <=> \/ x \in T /\ Row(x)
                   \/ \E e \in T : Folder(e) /\ ~Row(e) /\ x \in ToSet(e.subs) /\ Row(x)
  BY <1>1, <1>3, <1>5
<1>7. \A x : x \in MeetingsOf(entries) <=> \E e \in T : x \in MeetingsIn(e)
  BY <1>4, <1>6
<1> QED BY <1>7

(* The rows of one entry. *)
LEMMA RowsOfAre ==
    ASSUME NEW e, IsListing(e.subs), NEW X, View!Row(e) \in X, \A x \in ToSet(e.subs) : View!Row(x) \in X
    PROVE  /\ View!RowsOf(e) \in Seq(X)
           /\ ToSet(View!RowsOf(e)) = {View!Row(x) : x \in MeetingsIn(e)}
           /\ Apart(View!RowsOf(e), [x \in X |-> x.folder])
<1> DEFINE subs == e.subs
           key == [x \in X |-> x.folder]
           s == [i \in DOMAIN subs |-> View!Row(subs[i])]
           P == {i \in DOMAIN subs : View!IsRow(subs[i])}
<1>1. /\ Len(subs) \in Nat /\ DOMAIN subs = 1 .. Len(subs) /\ \A i \in DOMAIN subs : subs[i] \in ToSet(subs)
      /\ \A i, j \in DOMAIN subs : subs[i].path = subs[j].path => i = j
  BY DEF IsListing
<1>2. s \in Seq(X) /\ DOMAIN s = DOMAIN subs
  BY <1>1
<1>3. View!RowsUnder(e) = Picked(s, P)
  <2>1. View!RowsUnder(e)
          = FlattenSeq([i \in DOMAIN subs |-> IF View!IsRow(subs[i]) THEN <<View!Row(subs[i])>> ELSE <<>>])
    BY SameInView DEF View!RowsUnder
  <2>2. \A i \in DOMAIN subs : (i \in P <=> View!IsRow(subs[i])) /\ s[i] = View!Row(subs[i])
    OBVIOUS
  <2> HIDE DEF P, s
  <2>3. [i \in DOMAIN subs |-> IF View!IsRow(subs[i]) THEN <<View!Row(subs[i])>> ELSE <<>>]
          = [i \in DOMAIN s |-> IF i \in P THEN <<s[i]>> ELSE <<>>]
    BY <1>2, <2>2
  <2> QED BY <2>1, <2>3 DEF Picked
<1>4. Apart(s, key)
  <2>1. ASSUME NEW i \in DOMAIN s PROVE key[s[i]] = subs[i].path
    <3>1. s[i] \in X /\ s[i] = View!Row(subs[i])
      BY <1>1, <1>2
    <3> QED BY <3>1, RowIs
  <2> HIDE DEF key, s
  <2> QED BY <1>1, <1>2, <2>1 DEF Apart
<1>5. /\ Picked(s, P) \in Seq(X) /\ Apart(Picked(s, P), key)
      /\ ToSet(Picked(s, P)) = {s[i] : i \in P \cap DOMAIN s}
  <2> HIDE DEF s, P, key
  <2> QED BY <1>2, <1>4, PickedApart
<1>6. {s[i] : i \in P \cap DOMAIN s} = {View!Row(x) : x \in {y \in ToSet(subs) : View!IsRow(y)}}
  BY DEF ToSet
<1>7. CASE View!IsRow(e)
  <2>1. View!RowsOf(e) = <<View!Row(e)>> /\ MeetingsIn(e) = {e}
    BY <1>7 DEF View!RowsOf, MeetingsIn
  <2>2. ToSet(<<View!Row(e)>>) = {View!Row(e)}
    BY DEF ToSet
  <2>3. Apart(<<View!Row(e)>>, key)
    BY DEF Apart
  <2> QED BY <2>1, <2>2, <2>3
<1>8. CASE ~View!IsRow(e) /\ e.dir /\ e.path \notin View!SkipDirs
  <2>1. View!RowsOf(e) = Picked(s, P) /\ MeetingsIn(e) = {x \in ToSet(subs) : View!IsRow(x)}
    BY <1>3, <1>8 DEF View!RowsOf, MeetingsIn
  <2> QED BY <1>5, <1>6, <2>1
<1>9. CASE ~View!IsRow(e) /\ ~(e.dir /\ e.path \notin View!SkipDirs)
  <2>1. View!RowsOf(e) = <<>> /\ MeetingsIn(e) = {}
    BY <1>9 DEF View!RowsOf, MeetingsIn
  <2>2. ToSet(<<>>) = {} /\ Apart(<<>>, key)
    BY DEF ToSet, Apart
  <2> QED BY <2>1, <2>2
<1> QED BY <1>7, <1>8, <1>9

(* What a row on disk is. *)
OnShelf(disk, entries) ==
    /\ disk \in Seq(ToSet(disk))
    /\ \A i, j \in DOMAIN disk : disk[i].folder = disk[j].folder => i = j
    /\ \A i \in DOMAIN disk : /\ disk[i].id = disk[i].folder /\ disk[i].auto = FALSE
                              /\ disk[i].folder \in Paths(entries) \cup Under(entries)
                              /\ disk[i].folder # View!None

(* The rows on disk: every meeting once. *)
LEMMA DiskIs ==
    ASSUME NEW entries, Tree(entries)
    PROVE  /\ OnShelf(View!OnDisk(entries), entries)
           /\ {r.folder : r \in ToSet(View!OnDisk(entries))} = {e.path : e \in MeetingsOf(entries)}
<1> DEFINE T == ToSet(entries)
           E == T \cup UNION {ToSet(e.subs) : e \in T}
           X == {View!Row(e) : e \in E}
           key == [x \in X |-> x.folder]
           parts == [i \in DOMAIN entries |-> View!RowsOf(entries[i])]
           disk == View!OnDisk(entries)
<1>1. /\ entries \in Seq(T) /\ \A i, j \in DOMAIN entries : entries[i].path = entries[j].path => i = j
      /\ \A i \in DOMAIN entries : entries[i] \in T /\ IsListing(entries[i].subs)
  BY DEF Tree, IsListing, ToSet
<1>2. disk = FlattenSeq(parts)
  BY SameInView DEF View!OnDisk
<1>3. ASSUME NEW i \in DOMAIN entries
      PROVE  parts[i] \in Seq(X) /\ ToSet(parts[i]) = {View!Row(x) : x \in MeetingsIn(entries[i])} /\ Apart(parts[i], key)
  <2>1. View!Row(entries[i]) \in X /\ \A x \in ToSet(entries[i].subs) : View!Row(x) \in X
    BY <1>1
  <2>2. parts[i] = View!RowsOf(entries[i])
    OBVIOUS
  <2> HIDE DEF X, parts
  <2> QED BY <1>1, <2>1, <2>2, RowsOfAre
<1>4. parts \in Seq(Seq(X)) /\ DOMAIN parts = DOMAIN entries
  <2>1. Len(entries) \in Nat /\ DOMAIN entries = 1 .. Len(entries)
    BY <1>1
  <2>2. DOMAIN parts = DOMAIN entries /\ parts = [i \in 1 .. Len(entries) |-> parts[i]]
    BY <2>1
  <2>3. \A i \in 1 .. Len(entries) : parts[i] \in Seq(X)
    BY <1>3, <2>1
  <2> HIDE DEF parts, X
  <2> QED BY <2>1, <2>2, <2>3
<1>5. \A x \in X : \E e \in E : x = View!Row(e) /\ key[x] = e.path
  BY RowIs
<1>6. ASSUME NEW i \in DOMAIN entries
      PROVE  \A x \in ToSet(parts[i]) :
               /\ x \in X
               /\ key[x] = entries[i].path \/ key[x] \in Paths(entries[i].subs)
               /\ \E m \in MeetingsIn(entries[i]) : x = View!Row(m) /\ key[x] = m.path
  <2>1. SUFFICES ASSUME NEW x \in ToSet(parts[i])
                 PROVE  /\ x \in X
                        /\ key[x] = entries[i].path \/ key[x] \in Paths(entries[i].subs)
                        /\ \E m \in MeetingsIn(entries[i]) : x = View!Row(m) /\ key[x] = m.path
    OBVIOUS
  <2>2. PICK m \in MeetingsIn(entries[i]) : x = View!Row(m)
    BY <1>3
  <2>3. m = entries[i] \/ m \in ToSet(entries[i].subs)
    BY DEF MeetingsIn
  <2>4. m \in E
    BY <1>1, <2>3
  <2>5. x \in X /\ key[x] = m.path
    BY <2>2, <2>4, RowIs
  <2> HIDE DEF X, key
  <2> QED BY <2>2, <2>3, <2>5 DEF Paths
<1>7. \A i, j \in DOMAIN entries : i # j =>
        /\ entries[i].path # entries[j].path
        /\ Paths(entries[i].subs) \cap Paths(entries[j].subs) = {}
        /\ entries[i].path \notin Paths(entries[j].subs)
  <2>1. \A i \in DOMAIN entries : entries[i].path \in Paths(entries) /\ Paths(entries[i].subs) \subseteq Under(entries)
    BY <1>1 DEF Paths, Under
  <2>2. \A i, j \in DOMAIN entries : i # j => entries[i] # entries[j]
    BY <1>1
  <2>3. Paths(entries) \cap Under(entries) = {} /\ \A d, e \in T : d # e => Paths(d.subs) \cap Paths(e.subs) = {}
    BY DEF Tree
  <2> QED BY <1>1, <2>1, <2>2, <2>3
<1>8. \A k, l \in DOMAIN parts : k # l =>
        \A x \in ToSet(parts[k]), y \in ToSet(parts[l]) : key[x] # key[y]
  <2> HIDE DEF parts, key, X
  <2>1. SUFFICES ASSUME NEW k \in DOMAIN entries, NEW l \in DOMAIN entries, k # l,
                        NEW x \in ToSet(parts[k]), NEW y \in ToSet(parts[l]), key[x] = key[y]
                 PROVE  FALSE
    BY <1>4
  <2>2. key[x] = entries[k].path \/ key[x] \in Paths(entries[k].subs)
    BY <1>6
  <2>3. key[y] = entries[l].path \/ key[y] \in Paths(entries[l].subs)
    BY <1>6
  <2> QED BY <1>7, <2>1, <2>2, <2>3
<1>9. Apart(disk, key)
  <2> HIDE DEF parts, key, X, disk
  <2>1. \A k \in DOMAIN parts : Apart(parts[k], key)
    BY <1>3, <1>4
  <2> QED BY <1>2, <1>4, <1>8, <2>1, FlatApart
<1>10. disk \in Seq(X) /\ ToSet(disk) = UNION {ToSet(parts[k]) : k \in DOMAIN parts}
  <2> HIDE DEF parts, X, disk
  <2> QED BY <1>2, <1>4, FlatHas
<1>11. \A r \in ToSet(disk) : r.id = r.folder /\ r.auto = FALSE /\ key[r] = r.folder
                              /\ r.folder \in Paths(entries) \cup Under(entries)
  <2>1. \A r \in ToSet(disk) : r \in X
    BY <1>10 DEF ToSet
  <2>2. \A e \in E : e.path \in Paths(entries) \cup Under(entries)
    BY DEF Paths, Under
  <2> HIDE DEF disk, E
  <2> QED BY <2>1, <2>2, RowIs
<1>12. \A i \in DOMAIN disk : disk[i] \in ToSet(disk)
  BY DEF ToSet
<1>13. OnShelf(disk, entries)
  <2>1. disk \in Seq(ToSet(disk))
    <3> HIDE DEF disk, X
    <3>1. Len(disk) \in Nat /\ DOMAIN disk = 1 .. Len(disk) /\ disk = [i \in 1 .. Len(disk) |-> disk[i]]
      BY <1>10
    <3> QED BY <1>12, <3>1
  <2>2. View!None \notin Paths(entries) \cup Under(entries)
    BY DEF Tree
  <2> HIDE DEF disk, key
  <2>3. \A i, j \in DOMAIN disk : disk[i].folder = disk[j].folder => i = j
    BY <1>9, <1>11, <1>12 DEF Apart
  <2> QED BY <1>11, <1>12, <2>1, <2>2, <2>3 DEF OnShelf
<1>14. {r.folder : r \in ToSet(disk)} = {e.path : e \in MeetingsOf(entries)}
  <2>1. MeetingsOf(entries) = UNION {MeetingsIn(e) : e \in T}
    BY MeetingsBrought
  <2>2. \A e \in T : \E i \in DOMAIN entries : e = entries[i]
    BY DEF ToSet
  <2>3. \A m : m \in MeetingsOf(entries) <=> \E i \in DOMAIN entries : m \in MeetingsIn(entries[i])
    BY <1>1, <2>1, <2>2
  <2>4. \A r : r \in ToSet(disk) <=> \E i \in DOMAIN entries : \E m \in MeetingsIn(entries[i]) : r = View!Row(m)
    <3> HIDE DEF disk, parts, X, key, T, E
    <3>1. \A r : r \in ToSet(disk) <=> \E i \in DOMAIN entries : r \in ToSet(parts[i])
      BY <1>4, <1>10
    <3>2. \A i \in DOMAIN entries : ToSet(parts[i]) = {View!Row(x) : x \in MeetingsIn(entries[i])}
      BY <1>3
    <3> HIDE <1>3
    <3> QED BY <3>1, <3>2
  <2> HIDE DEF disk
  <2>5. \A r : r \in ToSet(disk) <=> \E m \in MeetingsOf(entries) : r = View!Row(m)
    BY <2>3, <2>4
  <2>6. \A m : View!Row(m).folder = m.path
    BY RowIs
  <2>7. ASSUME NEW x PROVE (\E r \in ToSet(disk) : x = r.folder) <=> \E m \in MeetingsOf(entries) : x = m.path
    BY <2>5, <2>6
  <2> QED BY <2>7
<1> QED BY <1>13, <1>14

(* Where a job is laid. *)
PlaceOf(disk, item) ==
    LET I == {i \in 1 .. Len(disk) : disk[i].folder = item.folder}
    IN IF item.folder = View!None \/ I = {} THEN 0 ELSE Max(I)
Holder(disk, items, i) ==
    LET I == {j \in 1 .. Len(items) : PlaceOf(disk, items[j]) = i} IN IF I = {} THEN 0 ELSE Max(I)
Lay(job, row) ==
    [job EXCEPT !.protocol = row.protocol, !.tasks = row.tasks, !.voices = row.voices]
LaidOver(disk, items) ==
    [i \in DOMAIN disk |->
       IF Holder(disk, items, i) = 0 THEN disk[i] ELSE Lay(items[Holder(disk, items, i)], disk[i])]
Alone(disk, items) == {j \in DOMAIN items : PlaceOf(disk, items[j]) = 0}

(* The view is the rows on disk, with the jobs laid over them, and the jobs without a row. *)
LEMMA ViewParts ==
    ASSUME NEW entries, NEW items
    PROVE  View!View(entries, items)
             = LaidOver(View!OnDisk(entries), items) \o Picked(items, Alone(View!OnDisk(entries), items))
<1> DEFINE disk == View!OnDisk(entries)
           Place(item) == IF item.folder = View!None THEN 0
                          ELSE View!SelectLastInSeq(disk, LAMBDA r : r.folder = item.folder)
           LastAt(i) == View!SelectLastInSeq(items, LAMBDA item : Place(item) = i)
           Laid(i) == IF LastAt(i) = 0 THEN disk[i]
                      ELSE [items[LastAt(i)] EXCEPT !.protocol = disk[i].protocol,
                                                 !.tasks = disk[i].tasks, !.voices = disk[i].voices]
           Adds(j) == IF Place(items[j]) = 0 THEN <<items[j]>> ELSE <<>>
<1>1. View!View(entries, items)
        = [i \in DOMAIN disk |-> Laid(i)] \o FlattenSeq([j \in DOMAIN items |-> Adds(j)])
  BY SameInView DEF View!View
<1>2. ASSUME NEW item PROVE Place(item) = PlaceOf(disk, item)
  BY SameInView DEF PlaceOf, View!SelectLastInSeq
<1> HIDE DEF disk, Place
<1>3. ASSUME NEW i PROVE LastAt(i) = Holder(disk, items, i)
  <2>1. LastAt(i) = LET I == {j \in 1 .. Len(items) : Place(items[j]) = i} IN IF I # {} THEN View!Max(I) ELSE 0
    BY DEF View!SelectLastInSeq
  <2>2. {j \in 1 .. Len(items) : Place(items[j]) = i} = {j \in 1 .. Len(items) : PlaceOf(disk, items[j]) = i}
    BY <1>2
  <2> HIDE DEF LastAt
  <2> QED BY <2>1, <2>2, SameInView DEF Holder
<1> HIDE DEF LastAt
<1>4. [i \in DOMAIN disk |-> Laid(i)] = LaidOver(disk, items)
  <2>1. \A i \in DOMAIN disk :
          Laid(i) = IF Holder(disk, items, i) = 0 THEN disk[i] ELSE Lay(items[Holder(disk, items, i)], disk[i])
    BY <1>3 DEF Lay
  <2> HIDE DEF Laid
  <2> QED BY <2>1 DEF LaidOver
<1>5. FlattenSeq([j \in DOMAIN items |-> Adds(j)]) = Picked(items, Alone(disk, items))
  <2>1. \A j \in DOMAIN items : Adds(j) = IF j \in Alone(disk, items) THEN <<items[j]>> ELSE <<>>
    BY <1>2 DEF Alone
  <2> HIDE DEF Adds
  <2>2. [j \in DOMAIN items |-> Adds(j)] = [j \in DOMAIN items |-> IF j \in Alone(disk, items) THEN <<items[j]>> ELSE <<>>]
    BY <2>1
  <2> QED BY <2>2 DEF Picked
<1> QED BY <1>1, <1>4, <1>5 DEF disk

(* A job is laid over the row of its folder, if there is one. *)
LEMMA PlaceIs ==
    ASSUME NEW entries, NEW disk, OnShelf(disk, entries), NEW item
    PROVE  /\ PlaceOf(disk, item) \in 0 .. Len(disk)
           /\ \A i \in DOMAIN disk : PlaceOf(disk, item) = i <=> disk[i].folder = item.folder
           /\ PlaceOf(disk, item) = 0 <=> \A i \in DOMAIN disk : disk[i].folder # item.folder
<1> DEFINE I == {i \in 1 .. Len(disk) : disk[i].folder = item.folder}
<1>1. /\ Len(disk) \in Nat /\ DOMAIN disk = 1 .. Len(disk)
      /\ \A i, j \in DOMAIN disk : disk[i].folder = disk[j].folder => i = j
      /\ \A i \in DOMAIN disk : disk[i].folder # View!None
  BY DEF OnShelf
<1>2. PlaceOf(disk, item) = IF item.folder = View!None \/ I = {} THEN 0 ELSE Max(I)
  BY DEF PlaceOf
<1>3. I # {} => Max(I) \in I
  <2>1. I \in SUBSET (1 .. Len(disk))
    OBVIOUS
  <2> HIDE DEF I
  <2> QED BY <1>1, <2>1, EndsOf
<1> DEFINE m == Max(I)
<1>4. CASE I = {}
  <2>1. PlaceOf(disk, item) = 0
    BY <1>2, <1>4
  <2>2. \A i \in DOMAIN disk : disk[i].folder # item.folder /\ i # 0
    BY <1>1, <1>4
  <2> QED BY <1>1, <2>1, <2>2
<1>5. CASE I # {}
  <2>1. m \in DOMAIN disk /\ disk[m].folder = item.folder /\ item.folder # View!None
    BY <1>1, <1>3, <1>5
  <2>2. PlaceOf(disk, item) = m
    BY <1>2, <1>5, <2>1
  <2> HIDE DEF m
  <2> QED BY <1>1, <2>1, <2>2
<1> QED BY <1>4, <1>5

(* What is in the place of a row on disk: the row itself, or a job of its folder with what
   the folder has been given since. *)
Overlaid(disk, items, a) ==
    /\ DOMAIN a = DOMAIN disk
    /\ \A i \in DOMAIN disk :
         IF \A j \in DOMAIN items : items[j].folder # disk[i].folder THEN a[i] = disk[i]
         ELSE \E j \in DOMAIN items : items[j].folder = disk[i].folder /\ a[i] = Lay(items[j], disk[i])

(* The rows on disk with the jobs laid over them. *)
LEMMA LaidOverIs ==
    ASSUME NEW entries, NEW disk, OnShelf(disk, entries), NEW items, Beside(entries, items)
    PROVE  /\ Overlaid(disk, items, LaidOver(disk, items))
           /\ Alone(disk, items) = {j \in DOMAIN items : \A i \in DOMAIN disk : disk[i].folder # items[j].folder}
<1> DEFINE a == LaidOver(disk, items)
<1>1. Len(items) \in Nat /\ DOMAIN items = 1 .. Len(items)
  BY DEF Beside
<1>2. ASSUME NEW i \in DOMAIN disk
      PROVE  IF \A j \in DOMAIN items : items[j].folder # disk[i].folder THEN a[i] = disk[i]
             ELSE \E j \in DOMAIN items : items[j].folder = disk[i].folder /\ a[i] = Lay(items[j], disk[i])
  <2> DEFINE I == {j \in 1 .. Len(items) : PlaceOf(disk, items[j]) = i}
             h == Holder(disk, items, i)
  <2>1. I = {j \in 1 .. Len(items) : items[j].folder = disk[i].folder}
    BY PlaceIs
  <2>2. h = IF I = {} THEN 0 ELSE Max(I)
    BY DEF Holder
  <2>3. I # {} => Max(I) \in I
    <3>1. I \in SUBSET (1 .. Len(items))
      OBVIOUS
    <3> HIDE DEF I
    <3> QED BY <1>1, <3>1, EndsOf
  <2>4. a[i] = IF h = 0 THEN disk[i] ELSE Lay(items[h], disk[i])
    BY DEF LaidOver
  <2> HIDE DEF h, a
  <2>5. CASE I = {}
    <3>1. \A j \in DOMAIN items : items[j].folder # disk[i].folder
      BY <1>1, <2>1, <2>5
    <3> QED BY <2>2, <2>4, <2>5, <3>1
  <2>6. CASE I # {}
    <3>1. h \in DOMAIN items /\ items[h].folder = disk[i].folder /\ h # 0
      <4> HIDE DEF I
      <4>1. h \in I
        BY <2>2, <2>3, <2>6
      <4> QED BY <1>1, <2>1, <4>1
    <3> QED BY <2>4, <3>1
  <2> QED BY <2>5, <2>6
<1>3. DOMAIN a = DOMAIN disk
  BY DEF LaidOver
<1>4. Alone(disk, items) = {j \in DOMAIN items : \A i \in DOMAIN disk : disk[i].folder # items[j].folder}
  BY PlaceIs DEF Alone
<1> HIDE DEF a
<1>5. Overlaid(disk, items, a)
  BY <1>2, <1>3 DEF Overlaid
<1> QED BY <1>4, <1>5 DEF a

(* A row that a job has. *)
OfJob(r, job) ==
    r.id = job.id /\ r.folder = job.folder /\ r.auto = job.auto /\ r.status = job.status

(* A job that is laid over a row keeps what is its own. *)
LEMMA LayIs ==
    ASSUME NEW job, NEW row,
           DOMAIN job = {"id", "folder", "audio", "auto", "project", "status", "protocol", "tasks", "voices"}
    PROVE  /\ OfJob(Lay(job, row), job)
           /\ Lay(job, row).protocol = row.protocol /\ Lay(job, row).tasks = row.tasks
           /\ Lay(job, row).voices = row.voices
  BY DEF OfJob, Lay

(* What the rows are: of a meeting without a job, or of a job; and told apart. *)
RowsAre(entries, items, rows) ==
    /\ rows \in Seq(ToSet(rows))
    /\ \A k, l \in DOMAIN rows : rows[k].id = rows[l].id => k = l
    /\ \A k \in DOMAIN rows : \/ /\ rows[k].id \in Paths(entries) \cup Under(entries)
                                 /\ rows[k].auto = FALSE /\ rows[k].folder # View!None
                              \/ \E j \in DOMAIN items : OfJob(rows[k], items[j])

(* Each row is in the place of one on disk, or of a job without one. *)
ViewHas(entries, disk, items, a, P, rows) ==
    /\ RowsAre(entries, items, rows)
    /\ DOMAIN a = DOMAIN disk /\ \A i \in DOMAIN a : i \in DOMAIN rows /\ rows[i] = a[i]
    /\ \A i \in DOMAIN a : a[i].folder = disk[i].folder
    /\ \A k \in DOMAIN rows : k \in DOMAIN a \/ \E j \in P : rows[k] = items[j]
    /\ \A j \in P : \E k \in DOMAIN rows : rows[k] = items[j]

(* The rows of a view. *)
LEMMA ViewRows ==
    ASSUME NEW entries, NEW disk, OnShelf(disk, entries), NEW items, Beside(entries, items)
    PROVE  ViewHas(entries, disk, items, LaidOver(disk, items), Alone(disk, items),
                   LaidOver(disk, items) \o Picked(items, Alone(disk, items)))
<1> DEFINE a == LaidOver(disk, items)
           P == Alone(disk, items)
           b == Picked(items, P)
           rows == a \o b
           Far == Paths(entries) \cup Under(entries)
           X == ToSet(disk) \cup ToSet(items) \cup {Lay(items[j], disk[i]) : j \in DOMAIN items, i \in DOMAIN disk}
           key == [x \in X |-> x.id]
<1>1. /\ Len(disk) \in Nat /\ DOMAIN disk = 1 .. Len(disk) /\ \A i \in DOMAIN disk : disk[i] \in ToSet(disk)
      /\ \A i, j \in DOMAIN disk : disk[i].folder = disk[j].folder => i = j
      /\ \A i \in DOMAIN disk : disk[i].id = disk[i].folder /\ disk[i].auto = FALSE /\ disk[i].folder \in Far
                                /\ disk[i].folder # View!None
  BY DEF OnShelf, ToSet
<1>2. /\ Len(items) \in Nat /\ DOMAIN items = 1 .. Len(items) /\ items \in Seq(ToSet(items))
      /\ \A i \in DOMAIN items : items[i] \in ToSet(items)
      /\ \A i, j \in DOMAIN items : items[i].id = items[j].id => i = j
      /\ \A i \in DOMAIN items : items[i].id \notin Far
  BY DEF Beside, ToSet
<1>3. /\ Overlaid(disk, items, a)
      /\ P = {j \in DOMAIN items : \A i \in DOMAIN disk : disk[i].folder # items[j].folder}
  BY LaidOverIs
<1>4. \A j \in DOMAIN items, i \in DOMAIN disk : OfJob(Lay(items[j], disk[i]), items[j])
  BY LayIs DEF Beside
<1> HIDE DEF a, P, b, key, Far
<1>5. ASSUME NEW i \in DOMAIN disk
      PROVE  /\ a[i] \in X
             /\ a[i].folder = disk[i].folder
             /\ \/ a[i] = disk[i] /\ a[i].id = disk[i].folder
                \/ \E j \in DOMAIN items : OfJob(a[i], items[j]) /\ items[j].folder = disk[i].folder
  <2>1. CASE \A j \in DOMAIN items : items[j].folder # disk[i].folder
    <3>1. a[i] = disk[i]
      BY <1>3, <2>1 DEF Overlaid
    <3> QED BY <1>1, <3>1
  <2>2. CASE ~ \A j \in DOMAIN items : items[j].folder # disk[i].folder
    <3>1. PICK j \in DOMAIN items : items[j].folder = disk[i].folder /\ a[i] = Lay(items[j], disk[i])
      BY <1>3, <2>2 DEF Overlaid
    <3>2. a[i] \in X
      BY <3>1
    <3>3. OfJob(a[i], items[j])
      BY <1>4, <3>1
    <3>4. a[i].folder = disk[i].folder
      BY <3>1, <3>3 DEF OfJob
    <3> QED BY <3>1, <3>2, <3>3, <3>4
  <2> QED BY <2>1, <2>2
<1>6. DOMAIN a = DOMAIN disk /\ a \in Seq(X) /\ \A i \in DOMAIN disk : a[i] \in X
  <2>1. DOMAIN a = DOMAIN disk
    BY <1>3 DEF Overlaid
  <2>2. a = [i \in 1 .. Len(disk) |-> a[i]]
    <3>1. \A i \in DOMAIN disk : a = LaidOver(disk, items)
      BY DEF a
    <3>2. a = [i \in DOMAIN disk |-> a[i]]
      BY DEF a, LaidOver
    <3> QED BY <1>1, <3>2
  <2> HIDE DEF X
  <2> QED BY <1>1, <1>5, <2>1, <2>2
<1>7. items \in Seq(X) /\ \A x \in X : key[x] = x.id
  BY <1>2 DEF key
<1> HIDE DEF X
<1>8. ASSUME NEW i \in DOMAIN disk, NEW k \in DOMAIN disk, a[i].id = a[k].id PROVE i = k
  <2>1. \A j \in DOMAIN items : OfJob(a[i], items[j]) => a[i].id \notin Far
    BY <1>2 DEF OfJob
  <2>2. \A j \in DOMAIN items : OfJob(a[k], items[j]) => a[k].id \notin Far
    BY <1>2 DEF OfJob
  <2>3. CASE a[i].id \in Far
    BY <1>1, <1>5, <1>8, <2>1, <2>2, <2>3
  <2>4. CASE a[i].id \notin Far
    <3>1. PICK j \in DOMAIN items : OfJob(a[i], items[j]) /\ items[j].folder = disk[i].folder
      BY <1>1, <1>5, <2>4
    <3>2. PICK m \in DOMAIN items : OfJob(a[k], items[m]) /\ items[m].folder = disk[k].folder
      BY <1>1, <1>5, <1>8, <2>4
    <3>3. j = m
      BY <1>2, <1>8, <3>1, <3>2 DEF OfJob
    <3> QED BY <1>1, <3>1, <3>2, <3>3
  <2> QED BY <2>3, <2>4
<1>9. Apart(a, key)
  BY <1>6, <1>7, <1>8 DEF Apart
<1>10. Apart(items, key)
  <2>1. \A i \in DOMAIN items : key[items[i]] = items[i].id
    BY <1>2, <1>7
  <2> QED BY <1>2, <2>1 DEF Apart
<1>11. b \in Seq(X) /\ Apart(b, key) /\ ToSet(b) = {items[j] : j \in P \cap DOMAIN items}
  BY <1>7, <1>10, PickedApart DEF b
<1>12. \A x \in ToSet(a) : x \in X /\ \E i \in DOMAIN disk : x = a[i]
  BY <1>6 DEF ToSet
<1>13. \A y \in ToSet(b) : \E j \in P : y = items[j]
  BY <1>11
<1>14. ASSUME NEW x \in ToSet(a), NEW y \in ToSet(b) PROVE key[x] # key[y]
  <2>1. PICK i \in DOMAIN disk : x = a[i]
    BY <1>12
  <2>2. PICK j \in P : y = items[j]
    BY <1>13
  <2>3. j \in DOMAIN items /\ disk[i].folder # items[j].folder
    BY <1>3
  <2>4. key[x] = a[i].id /\ key[y] = items[j].id
    BY <1>2, <1>6, <1>7, <2>1, <2>2, <2>3
  <2>5. a[i].id # items[j].id
    BY <1>1, <1>2, <1>5, <2>3 DEF OfJob
  <2> QED BY <2>4, <2>5
<1>15. Apart(rows, key)
  BY <1>6, <1>9, <1>11, <1>14, ConcatApart
<1>16. /\ rows \in Seq(X)
       /\ \A i \in DOMAIN a : i \in DOMAIN rows /\ rows[i] = a[i]
       /\ \A j \in DOMAIN b : Len(a) + j \in DOMAIN rows /\ rows[Len(a) + j] = b[j]
       /\ \A k \in DOMAIN rows : k \in DOMAIN a \/ \E j \in DOMAIN b : k = Len(a) + j
  BY <1>6, <1>11, ConcatHas
<1> HIDE DEF rows
<1>17. \A k \in DOMAIN rows : k \in DOMAIN a \/ \E j \in P : rows[k] = items[j]
  <2>1. \A j \in DOMAIN b : b[j] \in ToSet(b)
    BY DEF ToSet
  <2> QED BY <1>13, <1>16, <2>1
<1>18. \A j \in P : \E k \in DOMAIN rows : rows[k] = items[j]
  <2>1. \A j \in P : \E k \in DOMAIN b : b[k] = items[j]
    BY <1>3, <1>11 DEF ToSet
  <2> QED BY <1>16, <2>1
<1>19. \A k \in DOMAIN rows : rows[k] \in X /\ rows[k] \in ToSet(rows)
  BY <1>16 DEF ToSet
<1>20. RowsAre(entries, items, rows)
  <2>1. rows \in Seq(ToSet(rows))
    <3>1. Len(rows) \in Nat /\ DOMAIN rows = 1 .. Len(rows) /\ rows = [k \in 1 .. Len(rows) |-> rows[k]]
      BY <1>16
    <3> QED BY <1>19, <3>1
  <2>2. \A k, l \in DOMAIN rows : rows[k].id = rows[l].id => k = l
    BY <1>7, <1>15, <1>19 DEF Apart
  <2>3. ASSUME NEW k \in DOMAIN rows
        PROVE  \/ rows[k].id \in Far /\ rows[k].auto = FALSE /\ rows[k].folder # View!None
               \/ \E j \in DOMAIN items : OfJob(rows[k], items[j])
    <3>1. CASE k \in DOMAIN a
      BY <1>1, <1>5, <1>6, <1>16, <3>1
    <3>2. CASE \E j \in P : rows[k] = items[j]
      <4>1. PICK j \in P : rows[k] = items[j]
        BY <3>2
      <4>2. j \in DOMAIN items /\ OfJob(rows[k], items[j])
        BY <1>3, <4>1 DEF OfJob
      <4> QED BY <4>2
    <3> QED BY <1>17, <3>1, <3>2
  <2> QED BY <2>1, <2>2, <2>3 DEF RowsAre, Far
<1>21. \A i \in DOMAIN a : a[i].folder = disk[i].folder
  BY <1>5, <1>6
<1>22. ViewHas(entries, disk, items, a, P, rows)
  BY <1>6, <1>16, <1>17, <1>18, <1>20, <1>21 DEF ViewHas
<1> QED BY <1>22 DEF a, b, P, rows

(* Without a job, the rows are those on disk. *)
LEMMA ViewBare ==
    ASSUME NEW entries, Tree(entries)
    PROVE  View!View(entries, <<>>) = View!OnDisk(entries)
<1> DEFINE disk == View!OnDisk(entries)
<1>1. OnShelf(disk, entries)
  BY DiskIs
<1>2. View!View(entries, <<>>) = LaidOver(disk, <<>>) \o Picked(<<>>, Alone(disk, <<>>))
  BY ViewParts
<1> HIDE DEF disk
<1>3. Len(disk) \in Nat /\ DOMAIN disk = 1 .. Len(disk) /\ disk \in Seq(ToSet(disk))
  BY <1>1 DEF OnShelf
<1>4. LaidOver(disk, <<>>) = disk
  <2>1. \A i : Holder(disk, <<>>, i) = 0
    <3>1. \A i : {j \in 1 .. Len(<<>>) : PlaceOf(disk, <<>>[j]) = i} = {}
      OBVIOUS
    <3> QED BY <3>1 DEF Holder
  <2>2. LaidOver(disk, <<>>) = [i \in DOMAIN disk |-> disk[i]]
    BY <2>1 DEF LaidOver
  <2> QED BY <1>3, <2>2
<1>5. Picked(<<>>, Alone(disk, <<>>)) = <<>>
  <2>1. <<>> \in Seq({}) /\ Len(<<>>) = 0 /\ DOMAIN <<>> = {}
    OBVIOUS
  <2> DEFINE P == Alone(disk, <<>>)
             p == Picked(<<>>, P)
  <2>2. p \in Seq({})
    <3> HIDE DEF P
    <3> QED BY <2>1, PickedAt
  <2> HIDE DEF p
  <2>3. p = <<>>
    BY <2>2
  <2> QED BY <2>3 DEF p
<1> QED BY <1>2, <1>3, <1>4, <1>5 DEF disk

(* Every meeting and every job has one row. *)
LEMMA RowsAreWhole ==
    ASSUME NEW entries, Tree(entries), NEW items, Beside(entries, items),
           \A i, j \in DOMAIN items : items[i].folder = items[j].folder /\ items[i].folder # View!None => i = j
    PROVE  RowsWhole(entries, items, View!View(entries, items))
<1> DEFINE disk == View!OnDisk(entries)
           bare == View!View(entries, <<>>)
           a == LaidOver(disk, items)
           P == Alone(disk, items)
           rows == View!View(entries, items)
<1>1. OnShelf(disk, entries) /\ {r.folder : r \in ToSet(disk)} = {e.path : e \in MeetingsOf(entries)}
  BY DiskIs
<1>2. bare = disk /\ rows = a \o Picked(items, P)
  BY ViewBare, ViewParts
<1> HIDE DEF disk, bare, a, P, rows
<1>3. /\ RowsAre(entries, items, rows)
      /\ DOMAIN a = DOMAIN disk /\ \A i \in DOMAIN a : i \in DOMAIN rows /\ rows[i] = a[i]
      /\ \A i \in DOMAIN a : a[i].folder = disk[i].folder
      /\ \A k \in DOMAIN rows : k \in DOMAIN a \/ \E j \in P : rows[k] = items[j]
      /\ \A j \in P : \E k \in DOMAIN rows : rows[k] = items[j]
  <2>1. ViewHas(entries, disk, items, a, P, a \o Picked(items, P))
    BY <1>1, ViewRows DEF a, P
  <2>2. ViewHas(entries, disk, items, a, P, rows)
    BY <1>2, <2>1
  <2> QED BY <2>2 DEF ViewHas
<1>4. /\ Overlaid(disk, items, a)
      /\ P = {j \in DOMAIN items : \A i \in DOMAIN disk : disk[i].folder # items[j].folder}
  BY <1>1, LaidOverIs DEF a, P
<1>5. \A i, j \in DOMAIN disk : disk[i].folder = disk[j].folder => i = j
  BY <1>1 DEF OnShelf
<1>6. \A k, l \in DOMAIN rows : rows[k].id = rows[l].id => k = l
  BY <1>3 DEF RowsAre
<1>7. /\ \A j \in DOMAIN items, i \in DOMAIN disk :
           /\ OfJob(Lay(items[j], disk[i]), items[j])
           /\ Lay(items[j], disk[i]).protocol = disk[i].protocol
           /\ Lay(items[j], disk[i]).tasks = disk[i].tasks /\ Lay(items[j], disk[i]).voices = disk[i].voices
      /\ \A j \in DOMAIN items : items[j] \in ToSet(items)
      /\ \A job \in ToSet(items) : \E j \in DOMAIN items : job = items[j]
  BY LayIs DEF Beside, ToSet
<1>8. \A k \in DOMAIN rows : rows[k] \in ToSet(rows)
  BY DEF ToSet
<1>9. \A r \in ToSet(disk) : \E i \in DOMAIN disk : r = disk[i]
  BY DEF ToSet
<1>10. ASSUME NEW k \in DOMAIN rows, NEW l \in DOMAIN rows, rows[k].folder = rows[l].folder, rows[k].folder # View!None
       PROVE  k = l
  <2>1. CASE k \in DOMAIN a /\ l \in DOMAIN a
    BY <1>3, <1>5, <1>10, <2>1
  <2>2. CASE k \notin DOMAIN a /\ l \notin DOMAIN a
    <3>1. PICK i \in P, j \in P : rows[k] = items[i] /\ rows[l] = items[j]
      BY <1>3, <2>2
    <3>2. i \in DOMAIN items /\ j \in DOMAIN items /\ items[i].folder = items[j].folder /\ items[i].folder # View!None
      BY <1>4, <1>10, <3>1
    <3>3. i = j
      BY <3>2
    <3> QED BY <1>6, <3>1, <3>3
  <2>3. CASE k \in DOMAIN a /\ l \notin DOMAIN a
    <3>1. PICK j \in P : rows[l] = items[j]
      BY <1>3, <2>3
    <3> QED BY <1>3, <1>4, <1>10, <2>3, <3>1
  <2>4. CASE k \notin DOMAIN a /\ l \in DOMAIN a
    <3>1. PICK j \in P : rows[k] = items[j]
      BY <1>3, <2>4
    <3> QED BY <1>3, <1>4, <1>10, <2>4, <3>1
  <2> QED BY <2>1, <2>2, <2>3, <2>4
<1>11. ASSUME NEW i \in DOMAIN disk
       PROVE  IF \A j \in DOMAIN items : items[j].folder # disk[i].folder THEN disk[i] \in ToSet(rows)
              ELSE \E j \in DOMAIN items : items[j].folder = disk[i].folder /\ Lay(items[j], disk[i]) \in ToSet(rows)
  <2>1. i \in DOMAIN rows /\ rows[i] = a[i] /\ a[i] \in ToSet(rows)
    BY <1>3, <1>8
  <2> QED BY <1>4, <2>1 DEF Overlaid
<1>12. ASSUME NEW job \in ToSet(items) PROVE \E r \in ToSet(rows) : r.id = job.id
  <2>1. PICK j \in DOMAIN items : job = items[j]
    BY <1>7
  <2>2. CASE j \in P
    BY <1>3, <1>8, <2>1, <2>2
  <2>3. CASE j \notin P
    <3>1. PICK i \in DOMAIN disk : disk[i].folder = items[j].folder
      BY <1>4, <2>3
    <3>2. PICK m \in DOMAIN items : items[m].folder = disk[i].folder /\ Lay(items[m], disk[i]) \in ToSet(rows)
      BY <1>11, <3>1
    <3>3. disk[i].folder # View!None
      BY <1>1 DEF OnShelf
    <3>4. m = j
      BY <3>1, <3>2, <3>3
    <3> QED BY <1>7, <2>1, <3>2, <3>4 DEF OfJob
  <2> QED BY <2>2, <2>3
<1>13. ASSUME NEW r \in ToSet(disk)
       PROVE  IF \A job \in ToSet(items) : job.folder # r.folder THEN r \in ToSet(rows)
              ELSE \E s \in ToSet(rows) : /\ \E job \in ToSet(items) : s.id = job.id /\ s.folder = r.folder
                                          /\ s.protocol = r.protocol /\ s.tasks = r.tasks /\ s.voices = r.voices
  <2>1. PICK i \in DOMAIN disk : r = disk[i]
    BY <1>9
  <2>2. CASE \A j \in DOMAIN items : items[j].folder # disk[i].folder
    <3>1. \A job \in ToSet(items) : job.folder # r.folder
      BY <1>7, <2>1, <2>2
    <3> QED BY <1>11, <2>1, <2>2, <3>1
  <2>3. CASE ~ \A j \in DOMAIN items : items[j].folder # disk[i].folder
    <3>1. PICK j \in DOMAIN items : items[j].folder = disk[i].folder /\ Lay(items[j], disk[i]) \in ToSet(rows)
      BY <1>11, <2>3
    <3> DEFINE s == Lay(items[j], disk[i])
    <3>2. /\ s \in ToSet(rows) /\ s.id = items[j].id /\ s.folder = r.folder
          /\ s.protocol = r.protocol /\ s.tasks = r.tasks /\ s.voices = r.voices
      BY <1>7, <2>1, <3>1 DEF OfJob
    <3> HIDE DEF s
    <3>3. items[j] \in ToSet(items) /\ items[j].folder = r.folder
      BY <1>7, <2>1, <3>1
    <3>4. \E job \in ToSet(items) : s.id = job.id /\ s.folder = r.folder
      BY <3>2, <3>3
    <3>5. \E t \in ToSet(rows) : /\ \E job \in ToSet(items) : t.id = job.id /\ t.folder = r.folder
                                 /\ t.protocol = r.protocol /\ t.tasks = r.tasks /\ t.voices = r.voices
      BY <3>2, <3>4, Zenon
    <3> QED BY <3>3, <3>5
  <2> QED BY <2>2, <2>3
<1>14. RowsWhole(entries, items, rows)
  <2>1. /\ {r.folder : r \in ToSet(bare)} = {e.path : e \in MeetingsOf(entries)}
        /\ \A r \in ToSet(bare) :
             IF \A job \in ToSet(items) : job.folder # r.folder THEN r \in ToSet(rows)
             ELSE \E s \in ToSet(rows) : /\ \E job \in ToSet(items) : s.id = job.id /\ s.folder = r.folder
                                         /\ s.protocol = r.protocol /\ s.tasks = r.tasks /\ s.voices = r.voices
    BY <1>1, <1>2, <1>13
  <2>2. \A i, j \in DOMAIN rows :
          rows[i].id = rows[j].id \/ (rows[i].folder = rows[j].folder /\ rows[i].folder # View!None) => i = j
    BY <1>6, <1>10
  <2> QED BY <1>12, <2>1, <2>2 DEF RowsWhole, bare
<1> QED BY <1>14 DEF rows

(* The jobs that wait, by their places. *)
Waits(rows) == {i \in DOMAIN rows : rows[i].auto /\ rows[i].status = "pending"}
IsAt(line, id) ==
    LET I == {k \in 1 .. Len(line) : line[k].id = id} IN IF I = {} THEN 0 ELSE Min(I)

(* The line, and a place in it. *)
LEMMA QueuedIs ==
    ASSUME NEW rows
    PROVE  /\ View!Queued(rows) = Picked(rows, Waits(rows))
           /\ \A item : View!Position(rows, item) = IsAt(View!Queued(rows), item.id)
<1>1. View!Queued(rows) = Picked(rows, Waits(rows))
  <2>1. View!Queued(rows)
          = FlattenSeq([i \in DOMAIN rows |-> IF rows[i].auto /\ rows[i].status = "pending" THEN <<rows[i]>> ELSE <<>>])
    BY SameInView DEF View!Queued
  <2>2. [i \in DOMAIN rows |-> IF rows[i].auto /\ rows[i].status = "pending" THEN <<rows[i]>> ELSE <<>>]
          = [i \in DOMAIN rows |-> IF i \in Waits(rows) THEN <<rows[i]>> ELSE <<>>]
    BY DEF Waits
  <2> QED BY <2>1, <2>2 DEF Picked
<1>2. ASSUME NEW item PROVE View!Position(rows, item) = IsAt(View!Queued(rows), item.id)
  <2> DEFINE I == {k \in 1 .. Len(View!Queued(rows)) : View!Queued(rows)[k].id = item.id}
  <2>1. View!Position(rows, item) = IF I # {} THEN View!Min(I) ELSE 0
    BY DEF View!Position, View!SelectInSeq
  <2>2. IsAt(View!Queued(rows), item.id) = IF I = {} THEN 0 ELSE Min(I)
    BY DEF IsAt
  <2> HIDE DEF I
  <2> QED BY <2>1, <2>2, SameInView
<1> QED BY <1>1, <1>2

(* A place in a line whose ids differ. *)
LEMMA IsAtIs ==
    ASSUME NEW X, NEW line \in Seq(X), \A i, j \in DOMAIN line : line[i].id = line[j].id => i = j
    PROVE  /\ \A i \in DOMAIN line : IsAt(line, line[i].id) = i
           /\ \A id : (\A i \in DOMAIN line : line[i].id # id) => IsAt(line, id) = 0
<1> DEFINE I(id) == {k \in 1 .. Len(line) : line[k].id = id}
<1>1. Len(line) \in Nat /\ DOMAIN line = 1 .. Len(line)
  OBVIOUS
<1>2. ASSUME NEW i \in DOMAIN line PROVE IsAt(line, line[i].id) = i
  <2> DEFINE J == I(line[i].id)
  <2>1. J = {i}
    BY <1>1
  <2>2. IsAt(line, line[i].id) = IF J = {} THEN 0 ELSE Min(J)
    BY DEF IsAt
  <2>3. J \in SUBSET (1 .. Len(line))
    OBVIOUS
  <2> HIDE DEF J
  <2>4. Min(J) \in J
    BY <1>1, <2>1, <2>3, EndsOf
  <2> QED BY <2>1, <2>2, <2>4
<1>3. ASSUME NEW id, \A i \in DOMAIN line : line[i].id # id PROVE IsAt(line, id) = 0
  <2>1. I(id) = {}
    BY <1>1, <1>3
  <2> QED BY <2>1 DEF IsAt
<1> QED BY <1>2, <1>3

(* The line has one number for each job that waits. *)
LEMMA LineIsNumbered ==
    ASSUME NEW entries, NEW items, NEW rows, RowsAre(entries, items, rows)
    PROVE  Numbered(rows)
<1> DEFINE X == ToSet(rows)
           P == Waits(rows)
           line == View!Queued(rows)
           key == [x \in X |-> x.id]
<1>1. rows \in Seq(X) /\ (\A k \in DOMAIN rows : rows[k] \in X) /\ \A k, l \in DOMAIN rows : rows[k].id = rows[l].id => k = l
  BY DEF RowsAre, ToSet
<1>2. \A x \in X : key[x] = x.id /\ \E k \in DOMAIN rows : x = rows[k]
  BY DEF ToSet
<1>3. line = Picked(rows, P) /\ \A item : View!Position(rows, item) = IsAt(line, item.id)
  BY QueuedIs
<1> HIDE DEF X, P, line, key
<1>4. Apart(rows, key)
  BY <1>1, <1>2 DEF Apart
<1>5. line \in Seq(X) /\ Apart(line, key)
  BY <1>1, <1>3, <1>4, PickedApart
<1>6. \A i \in DOMAIN line : line[i] \in X /\ line[i] \in ToSet(line)
  BY <1>5 DEF ToSet
<1>7. \A i, j \in DOMAIN line : line[i].id = line[j].id => i = j
  BY <1>2, <1>5, <1>6 DEF Apart
<1>8. \A i \in DOMAIN line : View!Position(rows, line[i]) = i
  BY <1>3, <1>5, <1>7, IsAtIs
<1>9. ASSUME NEW r \in X \ ToSet(line) PROVE View!Position(rows, r) = 0
  <2>1. \A i \in DOMAIN line : line[i].id # r.id
    <3>1. ASSUME NEW i \in DOMAIN line, line[i].id = r.id PROVE FALSE
      <4>1. line[i] = r
        BY <1>1, <1>2, <1>6, <3>1
      <4> QED BY <1>6, <4>1
    <3> QED BY <3>1
  <2> QED BY <1>3, <1>5, <1>7, <2>1, IsAtIs
<1> QED BY <1>8, <1>9 DEF Numbered, X, line

(* The names of the groups, and the rows of one. *)
Called(rows, i) == NameOf[rows[i].project]
Firsts(rows) ==
    {i \in DOMAIN rows : Called(rows, i) # View!NoProject /\ \A j \in 1 .. i - 1 : Called(rows, j) # Called(rows, i)}
NamesOf(rows) == [i \in DOMAIN rows |-> Called(rows, i)]
Loose(rows) == \E i \in DOMAIN rows : Called(rows, i) = View!NoProject
Ordered(rows) == Picked(NamesOf(rows), Firsts(rows)) \o IF Loose(rows) THEN <<View!NoProject>> ELSE <<>>
Members(rows, name) == {i \in DOMAIN rows : Called(rows, i) = name}

(* The groups, in these words. *)
LEMMA GroupsAre ==
    ASSUME NEW rows
    PROVE  View!Groups(rows, NameOf)
             = [g \in DOMAIN Ordered(rows) |->
                  [name |-> Ordered(rows)[g], rows |-> Picked(rows, Members(rows, Ordered(rows)[g]))]]
<1> DEFINE Name(i) == NameOf[rows[i].project]
           Leads(i) == Name(i) # View!NoProject /\ \A j \in 1 .. i - 1 : Name(j) # Name(i)
           ordered == FlattenSeq([i \in DOMAIN rows |-> IF Leads(i) THEN <<Name(i)>> ELSE <<>>])
                      \o IF \E i \in DOMAIN rows : Name(i) = View!NoProject THEN <<View!NoProject>> ELSE <<>>
           Rows(name) == FlattenSeq([i \in DOMAIN rows |-> IF Name(i) = name THEN <<rows[i]>> ELSE <<>>])
<1>1. View!Groups(rows, NameOf) = [g \in DOMAIN ordered |-> [name |-> ordered[g], rows |-> Rows(ordered[g])]]
  BY SameInView DEF View!Groups
<1>2. \A i : Name(i) = Called(rows, i)
  BY DEF Called
<1>3. \A i \in DOMAIN rows : Leads(i) <=> i \in Firsts(rows)
  BY DEF Called, Firsts
<1> HIDE DEF Name, Leads
<1>4. ordered = Ordered(rows)
  <2>1. DOMAIN NamesOf(rows) = DOMAIN rows /\ \A i \in DOMAIN rows : NamesOf(rows)[i] = Name(i)
    BY <1>2 DEF NamesOf
  <2>2. [i \in DOMAIN rows |-> IF Leads(i) THEN <<Name(i)>> ELSE <<>>]
          = [i \in DOMAIN NamesOf(rows) |-> IF i \in Firsts(rows) THEN <<NamesOf(rows)[i]>> ELSE <<>>]
    BY <1>3, <2>1
  <2>3. (\E i \in DOMAIN rows : Name(i) = View!NoProject) <=> Loose(rows)
    BY <1>2 DEF Loose
  <2> QED BY <2>2, <2>3 DEF Ordered, Picked
<1>5. \A name : Rows(name) = Picked(rows, Members(rows, name))
  <2>1. SUFFICES ASSUME NEW name PROVE Rows(name) = Picked(rows, Members(rows, name))
    OBVIOUS
  <2>2. [i \in DOMAIN rows |-> IF Name(i) = name THEN <<rows[i]>> ELSE <<>>]
          = [i \in DOMAIN rows |-> IF i \in Members(rows, name) THEN <<rows[i]>> ELSE <<>>]
    BY <1>2 DEF Members
  <2> QED BY <2>2 DEF Picked
<1> HIDE DEF ordered, Rows
<1> QED BY <1>1, <1>4, <1>5

(* Every name is there once, that of no project last. *)
LEMMA OrderedIs ==
    ASSUME NEW X, NEW rows \in Seq(X)
    PROVE  LET o == Ordered(rows)
           IN /\ Len(o) \in Nat /\ DOMAIN o = 1 .. Len(o)
              /\ \A g, h \in DOMAIN o : o[g] = o[h] => g = h
              /\ \A i \in DOMAIN rows : \E g \in DOMAIN o : o[g] = Called(rows, i)
              /\ \A g \in DOMAIN o : o[g] = View!NoProject => g = Len(o)
<1> DEFINE n == Len(rows)
           Name(i) == Called(rows, i)
           N == {Name(i) : i \in DOMAIN rows} \cup {View!NoProject}
           names == NamesOf(rows)
           F == Firsts(rows)
           at == Places(n, F)
           p == Picked(names, F)
           q == IF Loose(rows) THEN <<View!NoProject>> ELSE <<>>
           o == Ordered(rows)
<1>1. n \in Nat /\ DOMAIN rows = 1 .. n
  OBVIOUS
<1>2. names \in Seq(N) /\ Len(names) = n /\ \A i \in 1 .. n : names[i] = Name(i)
  BY <1>1 DEF NamesOf
<1>3. \A i : i \in F <=> i \in 1 .. n /\ Name(i) # View!NoProject /\ \A j \in 1 .. i - 1 : Name(j) # Name(i)
  BY <1>1 DEF Firsts
<1>4. Loose(rows) <=> \E i \in 1 .. n : Name(i) = View!NoProject
  BY <1>1 DEF Loose
<1>5. o = p \o q
  BY DEF Ordered
<1>6. q \in Seq(N) /\ \A j \in DOMAIN q : q[j] = View!NoProject /\ j = 1 /\ Loose(rows)
  <2>1. View!NoProject \in N
    OBVIOUS
  <2> HIDE DEF N
  <2>2. CASE Loose(rows)
    BY <2>1, <2>2
  <2>3. CASE ~Loose(rows)
    BY <2>3
  <2> QED BY <2>2, <2>3
<1>7. Loose(rows) => 1 \in DOMAIN q /\ q[1] = View!NoProject
  OBVIOUS
<1>8. Len(q) = IF Loose(rows) THEN 1 ELSE 0
  OBVIOUS
<1> HIDE DEF n, Name, N, names, F, at, p, q, o
<1>9. at \in Seq(1 .. n) /\ Rising(at) /\ ToSet(at) = F \cap (1 .. n) /\ p \in Seq(N) /\ p = [k \in DOMAIN at |-> names[at[k]]]
  BY <1>2, PickedAt DEF at, p
<1>10. /\ DOMAIN p = DOMAIN at /\ \A k \in DOMAIN at : at[k] \in F /\ at[k] \in 1 .. n /\ p[k] = Name(at[k])
       /\ \A i \in F : \E k \in DOMAIN at : at[k] = i
  BY <1>2, <1>3, <1>9 DEF ToSet
<1>11. \A k, l \in DOMAIN p : p[k] = p[l] => k = l
  <2>1. \A k, l \in DOMAIN at : k < l => p[k] # p[l]
    <3>1. SUFFICES ASSUME NEW k \in DOMAIN at, NEW l \in DOMAIN at, k < l PROVE p[k] # p[l]
      OBVIOUS
    <3>2. at[k] < at[l] /\ at[k] \in 1 .. n /\ at[l] \in 1 .. n
      BY <1>9, <1>10, <3>1 DEF Rising
    <3>3. at[k] \in 1 .. at[l] - 1
      BY <3>2
    <3> QED BY <1>3, <1>10, <3>3
  <2>2. \A k, l \in DOMAIN at : k < l \/ l < k \/ k = l
    BY <1>9
  <2> QED BY <1>10, <2>1, <2>2
<1>12. \A k \in DOMAIN p : p[k] # View!NoProject
  BY <1>3, <1>10
<1>13. \A i \in 1 .. n : Name(i) # View!NoProject => \E k \in DOMAIN p : p[k] = Name(i)
  <2>1. SUFFICES ASSUME NEW i \in 1 .. n, Name(i) # View!NoProject PROVE \E k \in DOMAIN p : p[k] = Name(i)
    OBVIOUS
  <2> DEFINE T == {m \in 1 .. n : Name(m) = Name(i)}
  <2>2. T \subseteq Nat /\ i \in T
    OBVIOUS
  <2>3. PICK m \in T : \A l \in T : m <= l
    <3> HIDE DEF T
    <3> QED BY <2>2, NatLeast
  <2>4. m \in 1 .. n /\ Name(m) = Name(i) /\ \A j \in 1 .. m - 1 : Name(j) # Name(m)
    BY <1>1, <2>3
  <2>5. m \in F
    BY <1>3, <2>1, <2>4
  <2> QED BY <1>10, <2>4, <2>5
<1>14. /\ p \o q \in Seq(N) /\ Len(p \o q) = Len(p) + Len(q)
       /\ \A i \in DOMAIN p : i \in DOMAIN (p \o q) /\ (p \o q)[i] = p[i]
       /\ \A j \in DOMAIN q : Len(p) + j \in DOMAIN (p \o q) /\ (p \o q)[Len(p) + j] = q[j]
       /\ \A k \in DOMAIN (p \o q) : k \in DOMAIN p \/ \E j \in DOMAIN q : k = Len(p) + j
  <2>1. p \in Seq(N) /\ q \in Seq(N)
    BY <1>6, <1>9
  <2> QED BY <2>1, ConcatHas
<1>15. /\ o \in Seq(N) /\ Len(o) = Len(p) + Len(q)
       /\ \A i \in DOMAIN p : i \in DOMAIN o /\ o[i] = p[i]
       /\ \A j \in DOMAIN q : Len(p) + j \in DOMAIN o /\ o[Len(p) + j] = q[j]
       /\ \A k \in DOMAIN o : k \in DOMAIN p \/ \E j \in DOMAIN q : k = Len(p) + j
  BY <1>5, <1>14, Zenon
<1>a. Len(p) \in Nat
  BY <1>9
<1>16. \A g \in DOMAIN o : \/ g \in DOMAIN p /\ o[g] = p[g] /\ o[g] # View!NoProject
                           \/ g = Len(p) + 1 /\ g = Len(o) /\ o[g] = View!NoProject
  BY <1>6, <1>8, <1>12, <1>15, <1>a
<1>17. \A g, h \in DOMAIN o : o[g] = o[h] => g = h
  BY <1>11, <1>16
<1>18. \A i \in 1 .. n : \E g \in DOMAIN o : o[g] = Name(i)
  <2>1. SUFFICES ASSUME NEW i \in 1 .. n PROVE \E g \in DOMAIN o : o[g] = Name(i)
    OBVIOUS
  <2>2. CASE Name(i) = View!NoProject
    BY <1>4, <1>7, <1>15, <2>2
  <2>3. CASE Name(i) # View!NoProject
    BY <1>13, <1>15, <2>3
  <2> QED BY <2>2, <2>3
<1>19. Len(o) \in Nat /\ DOMAIN o = 1 .. Len(o)
  <2>1. o \in Seq(N)
    BY <1>15
  <2> QED BY <2>1
<1> QED BY <1>1, <1>16, <1>17, <1>18, <1>19 DEF o, Name

(* The groups hold every row once. *)
LEMMA GroupsHold ==
    ASSUME NEW entries, NEW items, NEW rows, RowsAre(entries, items, rows)
    PROVE  GroupsWhole(rows, View!Groups(rows, NameOf))
<1> DEFINE X == ToSet(rows)
           key == [x \in X |-> x.id]
           o == Ordered(rows)
           groups == View!Groups(rows, NameOf)
           parts == [g \in DOMAIN groups |-> groups[g].rows]
           grouped == FlattenSeq(parts)
           M(g) == Members(rows, o[g])
<1>1. rows \in Seq(X) /\ (\A k \in DOMAIN rows : rows[k] \in X) /\ \A k, l \in DOMAIN rows : rows[k].id = rows[l].id => k = l
  BY DEF RowsAre, ToSet
<1>2. \A x \in X : key[x] = x.id /\ \E k \in DOMAIN rows : x = rows[k]
  BY DEF ToSet
<1> HIDE DEF X, key
<1>3. Apart(rows, key)
  BY <1>1, <1>2 DEF Apart
<1>4. groups = [g \in DOMAIN o |-> [name |-> o[g], rows |-> Picked(rows, M(g))]]
  BY GroupsAre
<1>5. /\ Len(o) \in Nat /\ DOMAIN o = 1 .. Len(o)
      /\ \A g, h \in DOMAIN o : o[g] = o[h] => g = h
      /\ \A i \in DOMAIN rows : \E g \in DOMAIN o : o[g] = Called(rows, i)
      /\ \A g \in DOMAIN o : o[g] = View!NoProject => g = Len(o)
  BY <1>1, OrderedIs
<1>6. \A g, i : i \in M(g) <=> i \in DOMAIN rows /\ Called(rows, i) = o[g]
  BY DEF Members
<1> HIDE DEF M, o, groups
<1>7. /\ DOMAIN groups = DOMAIN o /\ Len(groups) = Len(o)
      /\ \A g \in DOMAIN o : groups[g].name = o[g] /\ groups[g].rows = Picked(rows, M(g))
  <2>1. groups \in Seq({[name |-> o[g], rows |-> Picked(rows, M(g))] : g \in DOMAIN o}) /\ Len(groups) = Len(o)
    BY <1>4, <1>5
  <2> QED BY <1>4, <2>1
<1>8. DOMAIN parts = DOMAIN o /\ \A g \in DOMAIN o : parts[g] = Picked(rows, M(g))
  BY <1>7
<1>9. ASSUME NEW g \in DOMAIN o
      PROVE  parts[g] \in Seq(X) /\ Apart(parts[g], key) /\ ToSet(parts[g]) = {rows[i] : i \in M(g) \cap DOMAIN rows}
  <2> HIDE DEF parts
  <2> QED BY <1>1, <1>3, <1>8, PickedApart
<1>10. parts \in Seq(Seq(X))
  <2>1. parts = [g \in 1 .. Len(o) |-> parts[g]]
    BY <1>5, <1>7
  <2> HIDE DEF parts
  <2>2. \A g \in 1 .. Len(o) : parts[g] \in Seq(X)
    BY <1>5, <1>9
  <2> QED BY <1>5, <2>1, <2>2
<1> HIDE DEF parts
<1>11. \A g \in DOMAIN o : \A x \in ToSet(parts[g]) : \E i \in DOMAIN rows : x = rows[i] /\ Called(rows, i) = o[g]
  <2>1. SUFFICES ASSUME NEW g \in DOMAIN o, NEW x \in ToSet(parts[g])
                 PROVE  \E i \in DOMAIN rows : x = rows[i] /\ Called(rows, i) = o[g]
    OBVIOUS
  <2>2. PICK i \in M(g) \cap DOMAIN rows : x = rows[i]
    BY <1>9
  <2> QED BY <1>6, <2>2
<1>12. ASSUME NEW g \in DOMAIN parts, NEW h \in DOMAIN parts, g # h, NEW x \in ToSet(parts[g]), NEW y \in ToSet(parts[h])
       PROVE  key[x] # key[y]
  <2>1. PICK i \in DOMAIN rows : x = rows[i] /\ Called(rows, i) = o[g]
    BY <1>8, <1>11
  <2>2. PICK j \in DOMAIN rows : y = rows[j] /\ Called(rows, j) = o[h]
    BY <1>8, <1>11
  <2>3. i # j
    BY <1>5, <1>8, <1>12, <2>1, <2>2
  <2> QED BY <1>1, <1>2, <2>1, <2>2, <2>3
<1>13. Apart(grouped, key)
  <2>1. \A k \in DOMAIN parts : Apart(parts[k], key)
    BY <1>8, <1>9
  <2> HIDE DEF grouped
  <2> QED BY <1>10, <1>12, <2>1, FlatApart DEF grouped
<1>14. grouped \in Seq(X) /\ ToSet(grouped) = UNION {ToSet(parts[g]) : g \in DOMAIN parts}
  BY <1>10, FlatHas
<1> HIDE DEF grouped
<1>15. IsInjective([i \in DOMAIN grouped |-> grouped[i].id])
  <2>1. \A i \in DOMAIN grouped : grouped[i] \in X
    BY <1>14
  <2> QED BY <1>2, <1>13, <2>1 DEF Apart, IsInjective
<1>16. IsInjective([g \in DOMAIN groups |-> groups[g].name])
  BY <1>5, <1>7 DEF IsInjective
<1>17. ToSet(grouped) = X
  <2>1. \A g \in DOMAIN o : \A x \in ToSet(parts[g]) : x \in X
    BY <1>1, <1>11
  <2>2. ASSUME NEW x \in X PROVE \E g \in DOMAIN o : x \in ToSet(parts[g])
    <3>1. PICK i \in DOMAIN rows : x = rows[i]
      BY <1>2
    <3>2. PICK g \in DOMAIN o : o[g] = Called(rows, i)
      BY <1>5
    <3>3. i \in M(g) \cap DOMAIN rows
      BY <1>6, <3>2
    <3> QED BY <1>9, <3>1, <3>3
  <2> QED BY <1>8, <1>14, <2>1, <2>2
<1>18. ASSUME NEW g \in DOMAIN groups
       PROVE  /\ groups[g].name = View!NoProject => g = Len(groups)
              /\ \A r \in ToSet(groups[g].rows) : NameOf[r.project] = groups[g].name
  <2>1. groups[g].rows = parts[g] /\ groups[g].name = o[g]
    BY <1>7, <1>8
  <2>2. o[g] = View!NoProject => g = Len(groups)
    BY <1>5, <1>7
  <2>3. \A r \in ToSet(parts[g]) : NameOf[r.project] = o[g]
    BY <1>7, <1>11 DEF Called
  <2> QED BY <2>1, <2>2, <2>3
<1> QED BY <1>15, <1>16, <1>17, <1>18 DEF GroupsWhole, X, grouped, parts, groups

(* What the worker leaves of the jobs as it is. *)
SameJobs(items, later) ==
    /\ DOMAIN later = DOMAIN items
    /\ \A j \in DOMAIN items : later[j].id = items[j].id /\ later[j].auto = items[j].auto

(* A job that is worked on keeps its name, and has a folder when it is done. *)
LEMMA LaterIs ==
    ASSUME NEW entries \in Trees, NEW items \in JobLists, NEW later \in Later(items)
    PROVE  Beside(entries, items) /\ Beside(entries, later) /\ SameJobs(items, later)
<1>1. Beside(entries, items) /\ \A j \in DOMAIN items : items[j] \in ToSet(items) /\ Archived[items[j].id] # View!None
  BY JobsAssumption DEF Beside, ToSet
<1>2. CASE later = items
  BY <1>1, <1>2 DEF SameJobs
<1>3. CASE later # items
  <2>a. PICK i \in DOMAIN items : \E worked \in Worked(items[i]) : later = [items EXCEPT ![i] = worked]
    BY <1>3 DEF Later
  <2>1. PICK worked \in Worked(items[i]) : later = [items EXCEPT ![i] = worked]
    BY <2>a
  <2> DEFINE job == items[i]
  <2>2. /\ DOMAIN job = {"id", "folder", "audio", "auto", "project", "status", "protocol", "tasks", "voices"}
        /\ Archived[job.id] # View!None
    BY <1>1 DEF Beside
  <2>3. /\ worked.id = job.id /\ worked.auto = job.auto /\ DOMAIN worked = DOMAIN job
        /\ worked.status = "done" => worked.folder # View!None
    <3>1. PICK status \in Became(job) :
            \E place \in MayLieIn(job, status) : worked = [job EXCEPT !.status = status, !.folder = place]
      BY <2>1 DEF Worked
    <3>2. PICK place \in MayLieIn(job, status) : worked = [job EXCEPT !.status = status, !.folder = place]
      BY <3>1
    <3> HIDE DEF job
    <3>3. worked.id = job.id /\ worked.auto = job.auto /\ DOMAIN worked = DOMAIN job
          /\ worked.status = status /\ worked.folder = place
      BY <2>2, <3>2
    <3>4. status = "done" => place # View!None
      BY DEF MayLieIn
    <3> QED BY <3>3, <3>4
  <2>4. /\ DOMAIN later = DOMAIN items /\ later[i] = worked
        /\ \A j \in DOMAIN items : j # i => later[j] = items[j]
    BY <2>1
  <2>5. /\ Len(items) \in Nat /\ DOMAIN items = 1 .. Len(items)
        /\ \A k, l \in DOMAIN items : items[k].id = items[l].id => k = l
        /\ \A j \in DOMAIN items :
             /\ items[j].id # View!None /\ items[j].id \notin Paths(entries) \cup Under(entries)
             /\ DOMAIN items[j] = {"id", "folder", "audio", "auto", "project", "status", "protocol", "tasks", "voices"}
             /\ items[j].status = "done" => items[j].folder # View!None
    BY <1>1 DEF Beside
  <2>6. SameJobs(items, later)
    BY <2>3, <2>4 DEF SameJobs
  <2>7. later \in Seq(ToSet(later))
    <3>1. later = [j \in 1 .. Len(items) |-> later[j]]
      BY <2>1, <2>5
    <3>2. \A j \in 1 .. Len(items) : later[j] \in ToSet(later)
      BY <2>4, <2>5 DEF ToSet
    <3> QED BY <2>5, <3>1, <3>2
  <2>8. \A j \in DOMAIN later :
          /\ later[j].id # View!None /\ later[j].id \notin Paths(entries) \cup Under(entries)
          /\ DOMAIN later[j] = {"id", "folder", "audio", "auto", "project", "status", "protocol", "tasks", "voices"}
          /\ later[j].status = "done" => later[j].folder # View!None
    <3>1. SUFFICES ASSUME NEW j \in DOMAIN items
                   PROVE  /\ later[j].id # View!None /\ later[j].id \notin Paths(entries) \cup Under(entries)
                          /\ DOMAIN later[j] = {"id", "folder", "audio", "auto", "project", "status", "protocol",
                                                "tasks", "voices"}
                          /\ later[j].status = "done" => later[j].folder # View!None
      BY <2>4
    <3>2. CASE j = i
      BY <2>2, <2>3, <2>4, <2>5, <3>2
    <3>3. CASE j # i
      BY <2>4, <2>5, <3>3
    <3> QED BY <3>2, <3>3
  <2>9. \A k, l \in DOMAIN later : later[k].id = later[l].id => k = l
    BY <2>5, <2>6 DEF SameJobs
  <2>10. Beside(entries, later)
    BY <2>7, <2>8, <2>9 DEF Beside
  <2> QED BY <1>1, <2>6, <2>10
<1> QED BY <1>2, <1>3

(* Rows that look alike offer the same, whatever the worker has made of their jobs. *)
LEMMA DrawnAlike ==
    ASSUME NEW entries, NEW items, NEW later, Beside(entries, items), Beside(entries, later), SameJobs(items, later),
           NEW rows, RowsAre(entries, items, rows), NEW others, RowsAre(entries, later, others),
           View!Signature(others) = View!Signature(rows)
    PROVE  Drawn(others) = Drawn(rows)
<1> DEFINE n == Len(rows)
           P == Waits(rows)
           at == Places(n, P)
           w == View!Queued(rows)
           v == View!Queued(others)
<1>1. /\ rows \in Seq(ToSet(rows)) /\ others \in Seq(ToSet(others))
      /\ n \in Nat /\ DOMAIN rows = 1 .. n /\ DOMAIN others = 1 .. Len(others) /\ Len(others) \in Nat
  BY DEF RowsAre
<1>2. /\ DOMAIN others = DOMAIN rows
      /\ \A k \in DOMAIN rows : /\ others[k].id = rows[k].id /\ others[k].status = rows[k].status
                                /\ others[k].protocol = rows[k].protocol /\ others[k].tasks = rows[k].tasks
                                /\ others[k].voices = rows[k].voices
  <2> DEFINE F == {"id", "status", "protocol", "tasks", "voices"}
             Sign(r) == [f \in F |-> r[f]]
  <2>1. /\ View!Signature(rows) = [k \in DOMAIN rows |-> Sign(rows[k])]
        /\ View!Signature(others) = [k \in DOMAIN others |-> Sign(others[k])]
    BY DEF View!Signature
  <2>2. \A r : /\ Sign(r)["id"] = r.id /\ Sign(r)["status"] = r.status /\ Sign(r)["protocol"] = r.protocol
               /\ Sign(r)["tasks"] = r.tasks /\ Sign(r)["voices"] = r.voices
    OBVIOUS
  <2> HIDE DEF Sign
  <2>3. DOMAIN others = DOMAIN rows /\ \A k \in DOMAIN rows : Sign(others[k]) = Sign(rows[k])
    BY <2>1
  <2>4. ASSUME NEW k \in DOMAIN rows
        PROVE  /\ others[k].id = rows[k].id /\ others[k].status = rows[k].status
               /\ others[k].protocol = rows[k].protocol /\ others[k].tasks = rows[k].tasks
               /\ others[k].voices = rows[k].voices
    <3>1. Sign(others[k]) = Sign(rows[k])
      BY <2>3
    <3>2. /\ Sign(rows[k])["id"] = rows[k].id /\ Sign(rows[k])["status"] = rows[k].status
          /\ Sign(rows[k])["protocol"] = rows[k].protocol
          /\ Sign(rows[k])["tasks"] = rows[k].tasks /\ Sign(rows[k])["voices"] = rows[k].voices
      BY <2>2
    <3>3. /\ Sign(others[k])["id"] = others[k].id /\ Sign(others[k])["status"] = others[k].status
          /\ Sign(others[k])["protocol"] = others[k].protocol
          /\ Sign(others[k])["tasks"] = others[k].tasks /\ Sign(others[k])["voices"] = others[k].voices
      BY <2>2
    <3> QED BY <3>1, <3>2, <3>3
  <2> QED BY <2>3, <2>4
<1>3. ASSUME NEW k \in DOMAIN rows
      PROVE  /\ others[k].auto = rows[k].auto
             /\ rows[k].status = "done" => rows[k].folder # View!None /\ others[k].folder # View!None
  <2>1. \/ /\ rows[k].id \in Paths(entries) \cup Under(entries) /\ rows[k].auto = FALSE /\ rows[k].folder # View!None
        \/ \E j \in DOMAIN items : OfJob(rows[k], items[j])
    BY DEF RowsAre
  <2>2. \/ /\ others[k].id \in Paths(entries) \cup Under(entries) /\ others[k].auto = FALSE
           /\ others[k].folder # View!None
        \/ \E j \in DOMAIN later : OfJob(others[k], later[j])
    BY <1>2 DEF RowsAre
  <2>3. /\ \A j \in DOMAIN items : /\ items[j].id \notin Paths(entries) \cup Under(entries)
                                   /\ items[j].status = "done" => items[j].folder # View!None
        /\ \A i, j \in DOMAIN items : items[i].id = items[j].id => i = j
    BY DEF Beside
  <2>4. \A j \in DOMAIN later : /\ later[j].id \notin Paths(entries) \cup Under(entries)
                                /\ later[j].status = "done" => later[j].folder # View!None
    BY DEF Beside
  <2>5. DOMAIN later = DOMAIN items /\ \A j \in DOMAIN items : later[j].id = items[j].id /\ later[j].auto = items[j].auto
    BY DEF SameJobs
  <2>6. others[k].id = rows[k].id /\ others[k].status = rows[k].status
    BY <1>2
  <2>7. CASE rows[k].id \in Paths(entries) \cup Under(entries)
    <3>1. rows[k].auto = FALSE /\ rows[k].folder # View!None
      <4>1. \A j \in DOMAIN items : ~OfJob(rows[k], items[j])
        BY <2>3, <2>7 DEF OfJob
      <4> QED BY <2>1, <4>1
    <3>2. others[k].auto = FALSE /\ others[k].folder # View!None
      <4>1. \A j \in DOMAIN later : ~OfJob(others[k], later[j])
        BY <2>4, <2>6, <2>7 DEF OfJob
      <4> QED BY <2>2, <4>1
    <3> QED BY <3>1, <3>2
  <2>8. CASE rows[k].id \notin Paths(entries) \cup Under(entries)
    <3>1. PICK i \in DOMAIN items : OfJob(rows[k], items[i])
      BY <2>1, <2>8
    <3>2. PICK j \in DOMAIN later : OfJob(others[k], later[j])
      BY <2>2, <2>6, <2>8
    <3>3. i = j
      BY <2>3, <2>5, <2>6, <3>1, <3>2 DEF OfJob
    <3> QED BY <2>3, <2>4, <2>5, <2>6, <3>1, <3>2, <3>3 DEF OfJob
  <2> QED BY <2>7, <2>8
<1>4. Waits(others) = P
  BY <1>2, <1>3 DEF Waits
<1>5. w = Picked(rows, P) /\ v = Picked(others, P)
  BY <1>4, QueuedIs
<1>6. /\ \A item : View!Position(rows, item) = IsAt(w, item.id)
      /\ \A item : View!Position(others, item) = IsAt(v, item.id)
  BY QueuedIs
<1>a. \A k, l \in Nat : 1 .. k = 1 .. l => k = l
  <2>1. SUFFICES ASSUME NEW k \in Nat, NEW l \in Nat, 1 .. k = 1 .. l, k # l PROVE FALSE
    OBVIOUS
  <2>2. k \in 1 .. k \/ k = 0
    OBVIOUS
  <2>3. l \in 1 .. l \/ l = 0
    OBVIOUS
  <2> QED BY <2>1, <2>2, <2>3
<1>7. Len(others) = n
  <2>1. 1 .. Len(others) = 1 .. n
    BY <1>1, <1>2
  <2> QED BY <1>1, <1>a, <2>1
<1> HIDE DEF P, w, v
<1>8. /\ at \in Seq(1 .. n) /\ ToSet(at) = P \cap (1 .. n)
      /\ Picked(rows, P) = [k \in DOMAIN at |-> rows[at[k]]] /\ Picked(rows, P) \in Seq(ToSet(rows))
  BY <1>1, PickedAt
<1>9. Picked(others, P) = [k \in DOMAIN at |-> others[at[k]]] /\ Picked(others, P) \in Seq(ToSet(others))
  BY <1>1, <1>7, PickedAt
<1> HIDE DEF at
<1>10. \A k \in DOMAIN at : at[k] \in DOMAIN rows
  BY <1>1, <1>8
<1>11. w = [k \in DOMAIN at |-> rows[at[k]]] /\ v = [k \in DOMAIN at |-> others[at[k]]]
  BY <1>5, <1>8, <1>9
<1>12. DOMAIN w = DOMAIN v /\ \A k \in DOMAIN w : w[k].id = v[k].id
  BY <1>2, <1>10, <1>11
<1>13. Len(w) \in Nat /\ DOMAIN w = 1 .. Len(w) /\ Len(v) \in Nat /\ DOMAIN v = 1 .. Len(v)
  <2>1. w \in Seq(ToSet(rows)) /\ v \in Seq(ToSet(others))
    BY <1>5, <1>8, <1>9
  <2> QED BY <2>1
<1>14. \A id : IsAt(w, id) = IsAt(v, id)
  <2>1. Len(w) = Len(v)
    <3>1. 1 .. Len(w) = 1 .. Len(v)
      BY <1>12, <1>13
    <3> QED BY <1>13, <1>a, <3>1
  <2>2. ASSUME NEW id PROVE {k \in 1 .. Len(w) : w[k].id = id} = {k \in 1 .. Len(v) : v[k].id = id}
    BY <1>12, <1>13, <2>1
  <2> QED BY <2>2 DEF IsAt
<1>15. ASSUME NEW k \in DOMAIN rows
       PROVE  /\ View!Shown(others[k], View!Position(others, others[k])) = View!Shown(rows[k], View!Position(rows, rows[k]))
              /\ View!Buttons(others[k]) = View!Buttons(rows[k])
  <2>1. View!Position(others, others[k]) = View!Position(rows, rows[k])
    BY <1>2, <1>6, <1>14
  <2>2. View!Shown(others[k], View!Position(others, others[k])) = View!Shown(rows[k], View!Position(rows, rows[k]))
    BY <1>2, <2>1 DEF View!Shown
  <2>3. others[k].voices = rows[k].voices /\ others[k].status = rows[k].status
    BY <1>2
  <2>4. rows[k].status = "done" => rows[k].folder # View!None /\ others[k].folder # View!None
    BY <1>3
  <2>5. View!Buttons(others[k]) = View!Buttons(rows[k])
    BY <2>3, <2>4 DEF View!Buttons
  <2> QED BY <2>2, <2>5
<1>16. \A k \in DOMAIN rows :
         /\ others[k].id = rows[k].id /\ others[k].protocol = rows[k].protocol
         /\ others[k].tasks = rows[k].tasks /\ others[k].voices = rows[k].voices
  BY <1>2
<1> QED BY <1>2, <1>15, <1>16 DEF Drawn

-----------------------------------------------------------------------------
(* What the window shows, at any moment. *)
ViewRight(entries, items, later) ==
    LET rows == View!View(entries, items)
        others == View!View(entries, later)
    IN /\ RowsWhole(entries, items, rows)
       /\ GroupsWhole(rows, View!Groups(rows, NameOf))
       /\ Numbered(rows)
       /\ View!Signature(others) = View!Signature(rows) => Drawn(others) = Drawn(rows)

(* The names differ, what they say does not. *)
LEMMA ViewWholeSays ==
    /\ ViewWhole <=> (input.of = "meetings" => ViewRight(input.entries, input.jobs, input.later))
    /\ ViewWhole' <=> (input'.of = "meetings" => ViewRight(input'.entries, input'.jobs, input'.later))
  BY DEF ViewWhole, ViewRight

(* Any directory with any jobs. *)
LEMMA ViewsAreRight ==
    ASSUME NEW entries \in Trees, NEW items \in JobLists, NEW later \in Later(items)
    PROVE  ViewRight(entries, items, later)
<1> DEFINE disk == View!OnDisk(entries)
           rows == View!View(entries, items)
           others == View!View(entries, later)
<1>1. Tree(entries)
  BY TreesAssumption DEF Tree
<1>2. Beside(entries, items) /\ Beside(entries, later) /\ SameJobs(items, later)
  BY LaterIs
<1>3. OnShelf(disk, entries)
  BY <1>1, DiskIs
<1>4. /\ rows = LaidOver(disk, items) \o Picked(items, Alone(disk, items))
      /\ others = LaidOver(disk, later) \o Picked(later, Alone(disk, later))
  BY ViewParts
<1> HIDE DEF disk, rows, others
<1>5. RowsAre(entries, items, LaidOver(disk, items) \o Picked(items, Alone(disk, items)))
  <2>1. ViewHas(entries, disk, items, LaidOver(disk, items), Alone(disk, items),
                LaidOver(disk, items) \o Picked(items, Alone(disk, items)))
    BY <1>2, <1>3, ViewRows
  <2> QED BY <2>1 DEF ViewHas
<1>6. RowsAre(entries, later, LaidOver(disk, later) \o Picked(later, Alone(disk, later)))
  <2>1. ViewHas(entries, disk, later, LaidOver(disk, later), Alone(disk, later),
                LaidOver(disk, later) \o Picked(later, Alone(disk, later)))
    BY <1>2, <1>3, ViewRows
  <2> QED BY <2>1 DEF ViewHas
<1>7. RowsAre(entries, items, rows) /\ RowsAre(entries, later, others)
  BY <1>4, <1>5, <1>6
<1>8. RowsWhole(entries, items, rows)
  <2>1. \A i, j \in DOMAIN items : items[i].folder = items[j].folder /\ items[i].folder # View!None => i = j
    BY JobsAssumption
  <2> QED BY <1>1, <1>2, <2>1, RowsAreWhole DEF rows
<1>9. GroupsWhole(rows, View!Groups(rows, NameOf)) /\ Numbered(rows)
  BY <1>7, GroupsHold, LineIsNumbered
<1>10. View!Signature(others) = View!Signature(rows) => Drawn(others) = Drawn(rows)
  BY <1>2, <1>7, DrawnAlike
<1> QED BY <1>8, <1>9, <1>10 DEF ViewRight, rows, others

(* The window shows every meeting and every job once, groups them, numbers those that wait,
   and is right about what it does not draw again (build_view, group_by_project,
   queue_position and the signature of ui/dialogs/meetings.py). *)
THEOREM ViewIsWhole == ShownSpec => []ViewWhole
<1>1. Idle => ViewWhole
  <2>1. Idle => input.of # "meetings"
    BY DEF Idle
  <2> QED BY <2>1, ViewWholeSays
<1>2. ViewWhole /\ [MeetingsCome]_input => ViewWhole'
  <2>1. ASSUME MeetingsCome PROVE ViewWhole'
    <3>1. PICK entries \in Trees, items \in JobLists : \E later \in Later(items) :
            input' = [of |-> "meetings", entries |-> entries, jobs |-> items, later |-> later]
      BY <2>1 DEF MeetingsCome, MeetingsAreOpened
    <3>2. PICK later \in Later(items) :
            input' = [of |-> "meetings", entries |-> entries, jobs |-> items, later |-> later]
      BY <3>1
    <3>3. input'.entries = entries /\ input'.jobs = items /\ input'.later = later
      BY <3>2
    <3>4. ViewRight(entries, items, later)
      BY ViewsAreRight
    <3> QED BY <3>3, <3>4, ViewWholeSays
  <2>2. ViewWhole /\ UNCHANGED input => ViewWhole'
    BY ViewWholeSays, Zenon
  <2> QED BY <2>1, <2>2
<1> QED BY <1>1, <1>2, PTL DEF ShownSpec
=============================================================================
