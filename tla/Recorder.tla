----------------------------- MODULE Recorder -----------------------------
(***************************************************************************)
(* The microphone recorder: recorder.py, with the buttons of                *)
(* ui/app/recorder_mixin.py.                                                *)
(*                                                                          *)
(* The Tk thread starts, pauses, resumes and stops; PortAudio's thread      *)
(* calls _audio_callback once per block, and appends the block to the file  *)
(* under a lock it takes after it looked at _is_paused.  A recording is     *)
(* known by its number; that file names carry seconds is left out.          *)
(*                                                                          *)
(* A definition named Bug... is the one below it with a plausible mistake.  *)
(***************************************************************************)
EXTENDS Naturals

CONSTANTS
    MaxRecordings,    \* bound: calls of start()
    MaxTime           \* bound: the clock

ASSUME RecorderAssumption == MaxRecordings \in Nat /\ MaxTime \in Nat

VARIABLES
    recording,    \* self._is_recording
    paused,       \* self._is_paused
    stream,       \* self._stream: "none", "built" or "running"
    file,         \* self._file: the recording whose file is open, 0 for None
    latest,       \* the recording of the last start()
    closing,      \* how far stop() is: "no", "flagged", "silent"
    block,        \* the recording whose block the callback is about to append, or 0
    misplaced,    \* a block went to the file of another recording
    leaked,       \* blocks appended since pause() returned
    queued,       \* recordings handed to the queue
    now,          \* time.monotonic()
    startTime, pauseOffset, pauseStart,
    recorded      \* the time that was recorded, pauses excluded

flags == <<recording, paused>>
audio == <<block, misplaced, leaked>>
clock == <<now, startTime, pauseOffset, pauseStart, recorded>>
recorderVars == <<flags, stream, file, latest, closing, audio, queued, clock>>

RecorderTypeOK ==
    /\ recording \in BOOLEAN /\ paused \in BOOLEAN
    /\ stream \in {"none", "built", "running"}
    /\ file \in 0..latest /\ block \in 0..latest
    /\ latest \in Nat /\ leaked \in Nat
    /\ closing \in {"no", "flagged", "silent"}
    /\ misplaced \in BOOLEAN
    /\ queued \subseteq 1..latest
    /\ now \in Nat /\ startTime \in Nat /\ pauseOffset \in Nat /\ pauseStart \in Nat
    /\ recorded \in Nat

RecorderInit ==
    /\ recording = FALSE /\ paused = FALSE
    /\ stream = "none" /\ file = 0 /\ latest = 0 /\ closing = "no"
    /\ block = 0 /\ misplaced = FALSE /\ leaked = 0
    /\ queued = {}
    /\ now = 0 /\ startTime = 0 /\ pauseOffset = 0 /\ pauseStart = 0 /\ recorded = 0

-----------------------------------------------------------------------------
(* The Tk thread *)

Stopped == closing = "no"

(* start() opens the file, then the stream, then starts the stream.  When the stream
   cannot be opened the file stays open; when it does not start, _is_recording stays
   set.  The error dialog is all the user sees of either. *)
Start ==
    /\ Stopped /\ ~recording
    /\ latest < MaxRecordings
    /\ latest' = latest + 1
    /\ file' = latest'
    /\ \/ /\ stream' \in {"built", "running"}
          /\ recording' = TRUE /\ paused' = FALSE
          /\ pauseOffset' = 0 /\ startTime' = now /\ recorded' = 0
          /\ UNCHANGED pauseStart
       \/ UNCHANGED <<stream, flags, startTime, pauseOffset, pauseStart, recorded>>
    /\ UNCHANGED <<closing, audio, queued, now>>

(* The pause button works only after a start() that returned *)
Pause ==
    /\ Stopped /\ recording /\ ~paused /\ stream = "running"
    /\ paused' = TRUE
    /\ pauseStart' = now
    /\ leaked' = 0
    /\ UNCHANGED <<recording, stream, file, latest, closing, block, misplaced, queued,
                   now, startTime, pauseOffset, recorded>>

Resume ==
    /\ Stopped /\ recording /\ paused
    /\ pauseOffset' = pauseOffset + (now - pauseStart)
    /\ startTime' = now
    /\ paused' = FALSE
    /\ UNCHANGED <<recording, stream, file, latest, closing, audio, queued,
                   now, pauseStart, recorded>>

(* stop(), the flags: the stream still runs, and nothing is paused any more *)
Stop ==
    /\ Stopped /\ recording
    /\ recording' = FALSE /\ paused' = FALSE
    /\ closing' = "flagged"
    /\ UNCHANGED <<stream, file, latest, audio, queued, clock>>

(* stop(), the stream: stop() of PortAudio returns when no callback runs *)
BugStopStream ==
    /\ closing = "flagged"
    /\ stream' = "none"
    /\ closing' = "silent"
    /\ UNCHANGED <<flags, file, latest, audio, queued, clock>>
StopStream ==
    /\ closing = "flagged"
    /\ block = 0
    /\ stream' = "none"
    /\ closing' = "silent"
    /\ UNCHANGED <<flags, file, latest, audio, queued, clock>>

(* stop(), the file, under the lock; then _stop_recording enqueues it *)
BugCloseFile ==
    /\ closing = "silent"
    /\ closing' = "no"
    /\ queued' = queued \cup {latest}
    /\ UNCHANGED <<flags, stream, file, latest, audio, clock>>
CloseFile ==
    /\ closing = "silent"
    /\ file' = 0
    /\ closing' = "no"
    /\ queued' = queued \cup {latest}
    /\ UNCHANGED <<flags, stream, latest, audio, clock>>

-----------------------------------------------------------------------------
(* PortAudio's thread *)

(* _audio_callback up to the lock *)
BugCaptured ==
    /\ stream = "running" /\ block = 0
    /\ block' = latest
    /\ UNCHANGED <<flags, stream, file, latest, closing, misplaced, leaked, queued, clock>>
Captured ==
    /\ stream = "running" /\ block = 0
    /\ ~paused
    /\ block' = latest
    /\ UNCHANGED <<flags, stream, file, latest, closing, misplaced, leaked, queued, clock>>

(* ... and from the lock on *)
AppendBlock ==
    /\ block # 0
    /\ block' = 0
    /\ misplaced' = (misplaced \/ file \notin {0, block})
    /\ leaked' = IF paused THEN leaked + 1 ELSE leaked
    /\ UNCHANGED <<flags, stream, file, latest, closing, queued, clock>>

Time ==
    /\ now < MaxTime
    /\ now' = now + 1
    /\ recorded' = IF recording /\ ~paused THEN recorded + 1 ELSE recorded
    /\ UNCHANGED <<flags, stream, file, latest, closing, audio, queued,
                   startTime, pauseOffset, pauseStart>>

RecorderNext ==
    \/ Start \/ Pause \/ Resume \/ Stop \/ StopStream \/ CloseFile
    \/ Captured \/ AppendBlock \/ Time

RecorderSpec == RecorderInit /\ [][RecorderNext]_recorderVars

-----------------------------------------------------------------------------

(* A block goes to the file of the recording it was captured in, or nowhere, though the
   next start() may open its file right after stop(). *)
BlocksStayInRecording == ~misplaced

(* After pause() returned, the block in flight is the last one that reaches the file
   (recorder.py, "audio is not written while paused"). *)
OneBlockAfterPause == leaked <= 1

(* The queue is given a recording when its file is final: nothing is written to it any
   more. *)
QueuedIsFinal == file \notin queued

Elapsed ==
    IF ~recording THEN 0
    ELSE IF paused THEN pauseOffset
    ELSE pauseOffset + (now - startTime)

(* The timer shows the recorded time (recorder.py: "Elapsed recording time in seconds
   (pauses excluded)"). *)
ElapsedExcludesPauses == recording => Elapsed = recorded
=============================================================================
