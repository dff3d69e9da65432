----------------------------- MODULE Transcript -----------------------------
(* What is written of the segments of a meeting: the formats of               *)
(* transcript_format.py, the voices to be named and the note written again    *)
(* with their names, processing/voiceid.py, and the participants of           *)
(* processing/vault_note.py.  A segment is [speaker, text, at]: a label of    *)
(* SpeechService or NoOne, a text or Blank, and its time.  What a format      *)
(* writes is a sequence of blocks [who, texts, at]; wording is left out.      *)
(* A definition named Bug... is the one below it with a plausible mistake.    *)
EXTENDS Integers, FiniteSets, Sequences, SequencesExt

NoOne == <<>>
Blank == 0

IsAnonymous(label) == Len(label) = 2        \* <<"SPEAKER", ..>>
IsName(label) == Len(label) = 1
Shown(k) == <<"speaker", k>>                \* the friendly name of the k-th voice

(* _build_speaker_map: anonymous voices are numbered as they first speak, a   *)
(* name stays as it is.                                                       *)
Labels(segs) == {segs[i].speaker : i \in DOMAIN segs} \ {NoOne}
First(segs, label) == SelectInSeq(segs, LAMBDA s : s.speaker = label)
SpeakerMap(segs) ==
  [label \in Labels(segs) |->
     IF IsAnonymous(label)
     THEN Shown(1 + Cardinality({l \in Labels(segs) : IsAnonymous(l) /\ First(segs, l) < First(segs, label)}))
     ELSE label]
Who(segs, seg) == IF seg.speaker = NoOne THEN NoOne ELSE SpeakerMap(segs)[seg.speaker]

-----------------------------------------------------------------------------
Block(who, texts, at) == [who |-> who, texts |-> texts, at |-> at]

(* One block per segment; subtitles leave out those without text.             *)
Timed(segs) == [i \in DOMAIN segs |-> Block(NoOne, <<segs[i].text>>, segs[i].at)]
Cues(segs) ==
  FlattenSeq([i \in DOMAIN segs |->
    IF segs[i].text = Blank THEN <<>>
    ELSE <<Block(Who(segs, segs[i]), <<segs[i].text>>, segs[i].at)>>])

(* The loop of both formats with speakers: segments in a row whose speaker is *)
(* shown alike are one block, but those of nobody; a block is written when    *)
(* the speaker changes, unless it has no text.  The texts of the segments at  *)
(* silent are left out.                                                       *)
NoBlock == [out |-> <<>>, who |-> NoOne, texts |-> <<>>, at |-> 0]
Written(a) == IF a.texts = <<>> THEN a.out ELSE Append(a.out, Block(a.who, a.texts, a.at))
Blocks(segs, silent) ==
  LET Said(i) == IF i \in silent THEN <<>> ELSE <<segs[i].text>>
      Take(a, i) ==
        LET who == Who(segs, segs[i])
        IN IF who = a.who /\ who # NoOne THEN [a EXCEPT !.texts = @ \o Said(i)]
           ELSE [out |-> Written(a), who |-> who, texts |-> Said(i), at |-> segs[i].at]
  IN Written(FoldLeftDomain(Take, NoBlock, segs))

(* format_diarized does not write what nobody said; the body of the note,     *)
(* format_diarized_markdown, has it as paragraphs but leaves out texts that   *)
(* are blank.                                                                 *)
Diarized(segs) == Blocks(segs, {i \in DOMAIN segs : segs[i].speaker = NoOne})
Markdown(segs) == Blocks(segs, {i \in DOMAIN segs : segs[i].text = Blank})

(* The text of Transcriber.transcribe, which the command line prints.         *)
Text(segs, diarize) ==
  IF diarize /\ \E s \in ToSet(segs) : s.speaker # NoOne THEN Diarized(segs) ELSE Timed(segs)

(* apply_speaker_names: the shown names of the text that is sent to a         *)
(* language model are replaced by those of the people bound to them.          *)
NamesApplied(blocks, names) ==
  [i \in DOMAIN blocks |->
     [blocks[i] EXCEPT !.who = IF @ \in DOMAIN names THEN names[@] ELSE @]]

(* _fmt_time_srt and _fmt_time_vtt: milliseconds as <<h, m, s, ms>>; and      *)
(* format_elapsed of ui/dialogs/meetings_view.py, seconds as <<h, m, s>>.     *)
Clock(ms) == IF ms < 0 THEN <<0, 0, 0, 0>>
             ELSE <<ms \div 3600000, (ms % 3600000) \div 60000, (ms % 60000) \div 1000, ms % 1000>>
Elapsed(start, now) ==
  LET total == IF now < start THEN 0 ELSE now - start
  IN <<total \div 3600, (total % 3600) \div 60, total % 60>>

-----------------------------------------------------------------------------
(* processing/voiceid.py.  The answer names, per voice, its raw label and     *)
(* what identifies it; normal is _normalise_raw_label as a function.          *)
Participants(segs) == {l \in Labels(segs) : ~IsAnonymous(l)}

Sample(segs, label) == LET i == First(segs, label)
                       IN IF i = 0 THEN [text |-> Blank, at |-> 0] ELSE [text |-> segs[i].text, at |-> segs[i].at]

(* A voice that was asked for by name is known; one without an identifier     *)
(* cannot be enrolled; the others wait for a name, by when they first speak,  *)
(* and among those that speak at the same time as the answer has them.        *)
Waiting(segs, voices, known, normal) ==
  FlattenSeq([i \in DOMAIN voices |->
    IF voices[i].raw \in known \/ voices[i].id = "" THEN <<>>
    ELSE <<[label |-> normal[voices[i].raw], id |-> voices[i].id,
            sample |-> Sample(segs, normal[voices[i].raw])]>>])
Earlier(entries, i, j) ==
  \/ entries[i].sample.at < entries[j].sample.at
  \/ entries[i].sample.at = entries[j].sample.at /\ i < j
Sorted(entries) ==
  LET Place(i) == 1 + Cardinality({j \in DOMAIN entries : Earlier(entries, j, i)})
  IN [k \in DOMAIN entries |-> entries[CHOOSE i \in DOMAIN entries : Place(i) = k]]
Pending(segs, voices, known, normal) == Sorted(Waiting(segs, voices, known, normal))

Renamed(segs, names) ==
  [i \in DOMAIN segs |->
     [segs[i] EXCEPT !.speaker = IF @ \in DOMAIN names THEN names[@] ELSE @]]

(* render_transcript_note, and rerender_named_note with the names of a        *)
(* binding; the participants are also what _render_relations links.           *)
Note(segs, participants) == [participants |-> participants, body |-> Markdown(segs)]
BugNamedNote(segs, names) == Note(Renamed(segs, names), Participants(segs))
NamedNote(segs, names) == Note(Renamed(segs, names), Participants(Renamed(segs, names)))

(* The sample that is played: samples from start up to end.                   *)
PlaybackWindow(n, rate, first, window) ==
  IF n <= 0 \/ rate <= 0 THEN [start |-> 0, end |-> 0]
  ELSE LET Least(a, b) == IF a < b THEN a ELSE b
           start == LET s == Least(first * rate, n) IN IF s < 0 THEN 0 ELSE s
       IN [start |-> start, end |-> Least(n, start + window * rate)]
=============================================================================
