---------------------------- MODULE MeetingTexts ----------------------------
(* What is written of the segments of a meeting, who is named in it, and the  *)
(* times it tells: one state for every meeting, its voices and the names that *)
(* are bound to them, and for every clip of a voice.                          *)
EXTENDS Integers, Sequences, SequencesExt, Inputs

CONSTANTS
  Speakers,         \* the labels that segments have
  MaxSegments,      \* of a meeting
  VoiceLists,       \* the voices that an answer names, as [raw, id]
  KnownVoices,      \* the raw labels of voices that were asked for by name
  Normal,           \* the label of each raw one, as a function
  Bindings,         \* the names that are given to labels, as functions
  Clips             \* the recordings, starts and times that are looked at

Text == INSTANCE Transcript

ASSUME SegmentsAssumption ==
  /\ MaxSegments \in Nat
  /\ \A label \in Speakers : label = Text!NoOne \/ Text!IsAnonymous(label) \/ Text!IsName(label)
ASSUME VoicesAssumption ==    \* no two voices of an answer are normalised alike
  \A voices \in VoiceLists :
    /\ DOMAIN voices = 1 .. Len(voices) /\ Len(voices) \in Nat
    /\ \A i, j \in DOMAIN voices : Normal[voices[i].raw] = Normal[voices[j].raw] => i = j
ASSUME BindingsAssumption ==
  \A names \in Bindings :
    Text!NoOne \notin DOMAIN names /\ \A label \in DOMAIN names : Text!IsName(names[label])
ASSUME ClipsAssumption ==
  Clips \subseteq [n : Nat, rate : Nat, first : Int, window : Nat, ms : Nat]

-----------------------------------------------------------------------------
(* Segments with texts of their own, told by their place, or none.            *)
Meetings == UNION {[1 .. k -> Speakers \X BOOLEAN] : k \in 0 .. MaxSegments}
SegmentsOf(spoken) ==
  [i \in DOMAIN spoken |->
     [speaker |-> spoken[i][1], at |-> i, text |-> IF spoken[i][2] THEN i ELSE Text!Blank]]

NoteIsWritten ==
  \E spoken \in Meetings, voices \in VoiceLists, names \in Bindings :
    input' = [of |-> "note", segs |-> SegmentsOf(spoken), voices |-> voices, names |-> names]
ClipIsPlayed == \E clip \in Clips : input' = [of |-> "clip", clip |-> clip]

(* The texts of the segments at some places, and those of the blocks of some. *)
Heard(segs, places) ==
  FlattenSeq([i \in DOMAIN segs |-> IF i \in places THEN <<segs[i].text>> ELSE <<>>])
AllTexts(blocks) == FlattenSeq([b \in DOMAIN blocks |-> blocks[b].texts])
TextsOf(blocks, who) ==
  FlattenSeq([b \in DOMAIN blocks |-> IF blocks[b].who = who THEN blocks[b].texts ELSE <<>>])

(* Every text once and in order, each under the speaker of its segment.       *)
Renders(blocks, segs) ==
  /\ AllTexts(blocks) = Heard(segs, {i \in DOMAIN segs : segs[i].text # Text!Blank})
  /\ \A b \in DOMAIN blocks : \A t \in ToSet(blocks[b].texts) :
       blocks[b].who = Text!Who(segs, segs[t])

(* The people of a named note are those it names.                             *)
NamesThem(note, named) ==
  /\ \A b \in ToSet(note.body) : Text!IsName(b.who) => b.who \in note.participants
  /\ \A p \in note.participants : Text!IsName(p) /\ \E s \in ToSet(named) : s.speaker = p

(* Every voice that may be enrolled waits for a name once, in the order in    *)
(* which the voices first speak, with what it said.                           *)
WaitsOnce(pending, voices, segs) ==
  /\ {p.id : p \in ToSet(pending)} = {v.id : v \in {v \in ToSet(voices) : v.raw \notin KnownVoices}} \ {""}
  /\ \A i, j \in DOMAIN pending :
       /\ i < j => pending[i].sample.at <= pending[j].sample.at
       /\ i # j => pending[i].label # pending[j].label
  /\ \A p \in ToSet(pending) :
       IF p.sample.at = 0 THEN \A s \in ToSet(segs) : s.speaker # p.label
       ELSE /\ segs[p.sample.at].speaker = p.label /\ segs[p.sample.at].text = p.sample.text
            /\ \A i \in 1 .. p.sample.at - 1 : segs[i].speaker # p.label

(* The note, the subtitles and the note with names hold what was said; the    *)
(* note names its people; and the voices without a name are all asked for.    *)
NoteWhole ==
  input.of = "note" =>
    LET segs == input.segs
        named == Text!Renamed(segs, input.names)
        note == Text!NamedNote(segs, input.names)
    IN /\ Renders(Text!Markdown(segs), segs)
       /\ Renders(Text!Cues(segs), segs)
       /\ Renders(note.body, named)
       /\ NamesThem(note, named)
       /\ WaitsOnce(Text!Pending(segs, input.voices, KnownVoices, Normal), input.voices, segs)

(* The text that is sent to a language model with the names that were bound   *)
(* puts the same words into the mouth of each person as naming the segments   *)
(* first does; a text of the command line holds what somebody said.           *)
ShownNames(segs, names) ==    \* the names by what the voices are shown as
  LET map == Text!SpeakerMap(segs)
      bound == Text!Labels(segs) \cap DOMAIN names
  IN [k \in {map[l] : l \in bound} |-> names[CHOOSE l \in bound : map[l] = k]]
TextNamed ==
  input.of = "note" =>
    LET segs == input.segs
        shown == ShownNames(segs, input.names)
    IN /\ AllTexts(Text!Text(segs, TRUE))
            = Heard(segs, IF Text!Labels(segs) = {} THEN DOMAIN segs
                          ELSE {i \in DOMAIN segs : segs[i].speaker # Text!NoOne})
       /\ \A k \in DOMAIN shown :
            TextsOf(Text!NamesApplied(Text!Diarized(segs), shown), shown[k])
              = TextsOf(Text!Diarized(Text!Renamed(segs, input.names)), shown[k])

(* A sample of a voice that is played, and the times that are written: the    *)
(* sample lies within the recording, starts where the voice does if that is   *)
(* in it, and is no longer than the window; and the digits of a time add up.  *)
ClipInside ==
  input.of = "clip" =>
    LET clip == input.clip
        w == Text!PlaybackWindow(clip.n, clip.rate, clip.first, clip.window)
        c == Text!Clock(clip.ms)
        e == Text!Elapsed(clip.first, clip.ms)
    IN /\ 0 <= w.start /\ w.start <= w.end /\ w.end <= clip.n
       /\ w.end - w.start <= clip.window * clip.rate
       /\ clip.rate > 0 /\ 0 <= clip.first /\ clip.first * clip.rate <= clip.n =>
            w.start = clip.first * clip.rate
       /\ ((c[1] * 60 + c[2]) * 60 + c[3]) * 1000 + c[4] = clip.ms
       /\ c[2] < 60 /\ c[3] < 60 /\ c[4] < 1000
       /\ (e[1] * 60 + e[2]) * 60 + e[3] = IF clip.ms < clip.first THEN 0 ELSE clip.ms - clip.first
       /\ e[2] < 60 /\ e[3] < 60

-----------------------------------------------------------------------------
TextComes == Idle /\ (NoteIsWritten \/ ClipIsPlayed)
TextSpec == Idle /\ [][TextComes]_input

TextsWhole == NoteWhole /\ TextNamed /\ ClipInside
=============================================================================
