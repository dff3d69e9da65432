---------------------------- MODULE SpeechService ----------------------------
(* What a speech service is asked, and how its answer becomes the segments of *)
(* the transcript: the options of a job (ui/app/queue_mixin.py), the checks   *)
(* before the upload (processing/preflight.py), the bodies of the requests    *)
(* and _to_segments of each of providers/*.py.  The exchange itself is in     *)
(* CloudTranscription.  The words of an answer are records; a segment holds   *)
(* their positions, which stand for its text and for its two times.           *)
(* A definition named Bug... is the one below it with a plausible mistake.    *)
EXTENDS Integers, Sequences, SequencesExt

None == "none"
Mixed == "mixed"        \* the program's own word for Kazakh, Russian and English in one
Trio == {"kk", "ru", "en"}
Unknown == -1           \* a duration that could not be measured

Polled == {"AssemblyAI", "Gladia", "Speechmatics"}
Services == Polled \cup {"Deepgram", "Groq"}
Diarizing == Services \ {"Groq"}
Mixing == Services \ {"Deepgram"}

-----------------------------------------------------------------------------
(* The options of a job.  "5+" is a least number of speakers; 0 is no number. *)
Counts == [auto |-> [num |-> 0, least |-> 0], two |-> [num |-> 2, least |-> 0],
           many |-> [num |-> 0, least |-> 5]]
Uncounted == Counts["auto"]

(* _build_options: without speakers to tell apart, which the mode "asr_only"  *)
(* says too, no number of them is sent.                                       *)
Options(service, language, diarize, count) ==
  LET apart == diarize /\ service \in Diarizing
  IN [language |-> language, diarize |-> apart, asrOnly |-> ~apart,
      count |-> IF apart THEN Counts[count] ELSE Uncounted,
      enroll |-> FALSE, known |-> {}]

(* What the worker makes of the options of a queued job, which an older       *)
(* program may have written; known voices are for the one service that tells. *)
Enrolled(o, enroll, people) == [o EXCEPT !.enroll = enroll, !.known = IF enroll THEN people ELSE {}]
BugJob(service, o, voiceid, people) ==    \* a job is taken as it was queued
  Enrolled(o, voiceid /\ service = "Speechmatics" /\ o.diarize, people)
Job(service, o, voiceid, people) ==
  LET asrOnly == o.asrOnly \/ service \notin Diarizing
      apart == o.diarize /\ ~asrOnly
  IN Enrolled([o EXCEPT !.diarize = apart, !.count = IF asrOnly THEN Uncounted ELSE @],
              voiceid /\ service = "Speechmatics" /\ apart, people)

(* Transcriber.transcribe and the first lines of a provider's transcribe.     *)
Refused(service, o) ==
  \/ o.language = Mixed /\ service \notin Mixing
  \/ o.diarize /\ service \notin Diarizing

-----------------------------------------------------------------------------
(* Before the upload.  Durations in minutes, sizes in GB, 0 when unreadable.  *)
WithinLimits(service, minutes, size) ==
  /\ size <= 2
  /\ ~(service = "Gladia" /\ minutes # Unknown /\ minutes > 135)

Denoised(minutes, wanted) == wanted /\ ~(minutes # Unknown /\ minutes > 45)

(* soundfile reads the header or, of what it cannot read, ffmpeg says it.     *)
Duration(header, ffmpeg) == IF header # Unknown THEN header ELSE ffmpeg

Cents == [AssemblyAI |-> 17, Deepgram |-> 43, Gladia |-> 61, Speechmatics |-> 104]
Cost(service, minutes) ==    \* in cents, sixty times
  IF minutes = Unknown \/ service \notin DOMAIN Cents THEN Unknown ELSE Cents[service] * minutes

-----------------------------------------------------------------------------
(* What each service is asked.  The language: the one it names, or those it   *)
(* may choose from.                                                           *)
Detect == [named |-> None, among |-> {}]
Named(language) == [named |-> language, among |-> {}]
AmongTrio(language) ==
  CASE language = None -> Detect
    [] language = Mixed -> [named |-> None, among |-> Trio]
    [] OTHER -> Named(language)
Plain(o) == [language |-> AmongTrio(o.language), count |-> Uncounted, apart |-> o.diarize, voices |-> {}]

(* Groq has the three languages in its prompt, and does not tell speakers     *)
(* apart; Deepgram is not told how many there are.                            *)
GroqAsks(o) ==
  [Plain(o) EXCEPT !.language = IF o.language \in {None, Mixed} THEN Detect ELSE Named(o.language),
                   !.apart = FALSE]
DeepgramAsks(o) == [Plain(o) EXCEPT !.language = IF o.language = None THEN Detect ELSE Named(o.language)]

(* AssemblyAI has one number for both, Gladia has each, and needs the         *)
(* question who speaks for either.                                            *)
AssemblyAIAsks(o) ==
  [Plain(o) EXCEPT !.count = [num |-> IF o.count.num # 0 THEN o.count.num ELSE o.count.least, least |-> 0]]
GladiaAsks(o) == [Plain(o) EXCEPT !.count = IF o.diarize THEN o.count ELSE Uncounted]

(* Speechmatics has to tell speakers apart to tell known voices.              *)
SpeechmaticsAsks(o) ==
  [Plain(o) EXCEPT !.apart = o.diarize \/ o.enroll, !.voices = IF o.enroll THEN o.known ELSE {}]

Asked(service, o) ==
  CASE service = "Groq" -> GroqAsks(o)
    [] service = "Deepgram" -> DeepgramAsks(o)
    [] service = "AssemblyAI" -> AssemblyAIAsks(o)
    [] service = "Gladia" -> GladiaAsks(o)
    [] service = "Speechmatics" -> SpeechmaticsAsks(o)

-----------------------------------------------------------------------------
(* Labels.  S1 becomes SPEAKER_1, a known person's name stays, anything else  *)
(* gets the prefix; a word or a segment may have no speaker at all.           *)
NoOne == <<>>
Number == [S1 |-> "1", S2 |-> "2", S3 |-> "3"]
Anonymous(raw) == <<"SPEAKER", IF raw \in DOMAIN Number THEN Number[raw] ELSE raw>>
Normalised(raw, known) == IF raw \in known THEN <<raw>> ELSE Anonymous(raw)
LabelOf(raw, known) == IF raw = None THEN NoOne ELSE Normalised(raw, known)

(* The words walked so far: the segments written, and the one being built.    *)
Started == [out |-> <<>>, toks |-> <<>>, speaker |-> None]
Flushed(a) ==
  IF a.toks = <<>> THEN a
  ELSE [a EXCEPT !.out = Append(@, [toks |-> a.toks, speaker |-> a.speaker]), !.toks = <<>>]
Joined(a, i, speaker) ==
  [a EXCEPT !.speaker = IF a.toks = <<>> THEN speaker ELSE @, !.toks = Append(@, i)]

(* A word of Deepgram, and of Groq and AssemblyAI with nobody to tell apart:  *)
(* a change of the speaker begins a segment, the end of a sentence ends it.   *)
BugSpoken(a, w, i, diarize) ==    \* the speaker of a segment is that of its last word
  LET b == [a EXCEPT !.speaker = w.speaker, !.toks = Append(@, i)]
  IN IF w.ends THEN Flushed(b) ELSE b
Spoken(a, w, i, diarize) ==
  LET b == IF diarize /\ w.speaker # a.speaker THEN Flushed(a) ELSE a
      c == Joined(b, i, w.speaker)
  IN IF w.ends THEN Flushed(c) ELSE c

(* Speechmatics: marks are items of their own, glued to the word before them; *)
(* a word that names nobody goes on with the speaker before it.               *)
Item(a, w, i, diarize) ==
  IF w.mark
  THEN LET b == IF a.toks = <<>> THEN a ELSE Joined(a, i, None)
       IN IF w.ends THEN Flushed(b) ELSE b
  ELSE Joined(IF diarize /\ w.speaker \notin {None, a.speaker} THEN Flushed(a) ELSE a,
              i, w.speaker)

Walk(service, words, diarize) ==
  LET Step(a, i) == IF words[i].blank THEN a
                    ELSE IF service = "Speechmatics" THEN Item(a, words[i], i, diarize)
                    ELSE Spoken(a, words[i], i, diarize)
  IN Flushed(FoldLeftDomain(Step, Started, words)).out

(* A turn is a segment already; one without text is kept or not.              *)
Turns(turns, blanks) ==
  LET Step(out, i) == IF blanks \/ ~turns[i].blank
                      THEN Append(out, [toks |-> IF turns[i].blank THEN <<>> ELSE <<i>>,
                                        speaker |-> turns[i].speaker])
                      ELSE out
  IN FoldLeftDomain(Step, <<>>, turns)

(* Without words, the flat text is one segment: position 0.                   *)
Flat(text) == IF text THEN <<[toks |-> <<0>>, speaker |-> None]>> ELSE <<>>

Parts(service, reply, diarize) ==
  CASE service = "Deepgram" ->
         IF reply.words = <<>> THEN Flat(reply.text) ELSE Walk(service, reply.words, diarize)
    [] service = "Speechmatics" -> Walk(service, reply.words, diarize)
    [] service = "AssemblyAI" ->
         IF diarize /\ reply.turns # <<>> THEN Turns(reply.turns, TRUE)
         ELSE IF reply.words = <<>> THEN Flat(reply.text) ELSE Walk(service, reply.words, FALSE)
    [] service = "Gladia" ->
         IF reply.turns = <<>> THEN Flat(reply.text) ELSE Turns(reply.turns, TRUE)
    [] service = "Groq" ->
         IF Turns(reply.turns, FALSE) # <<>> THEN Turns(reply.turns, FALSE)
         ELSE IF reply.words = <<>> THEN Flat(reply.text) ELSE Walk(service, reply.words, FALSE)

(* The label of a segment.  AssemblyAI names somebody in every turn.          *)
SpeakerOf(service, seg, reply, diarize, known) ==
  IF ~diarize \/ (service = "AssemblyAI" /\ reply.turns = <<>>) THEN NoOne
  ELSE LabelOf(IF service = "AssemblyAI" /\ seg.speaker = None THEN "?" ELSE seg.speaker,
               IF service = "Speechmatics" THEN known ELSE {})

ToSegments(service, reply, o) ==
  LET asked == Asked(service, o)
      diarize == asked.apart
      parts == Parts(service, reply, diarize)
  IN [i \in DOMAIN parts |->
        [toks |-> parts[i].toks,
         speaker |-> SpeakerOf(service, parts[i], reply, diarize, asked.voices)]]

-----------------------------------------------------------------------------
(* What is read of an answer: of the turns when these are used, else words.   *)
Read(service, reply, o) ==
  IF \/ service = "Gladia" /\ reply.turns # <<>>
     \/ service = "AssemblyAI" /\ o.diarize /\ reply.turns # <<>>
     \/ service = "Groq" /\ \E t \in ToSet(reply.turns) : ~t.blank
  THEN reply.turns ELSE reply.words

(* A mark with no word before it in its sentence has nothing to be glued to.  *)
Leading(items, i) ==
  /\ items[i].mark
  /\ LET before == {j \in 1 .. i - 1 : ~items[j].blank}
     IN \A j \in before : items[j].mark \/ \E k \in before : k >= j /\ items[k].mark /\ items[k].ends
=============================================================================
