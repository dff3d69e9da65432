------------------------ MODULE CloudTranscription ------------------------
(***************************************************************************)
(* One call of Transcriber._run_cloud_stt (transcriber/__init__.py): the    *)
(* temporary files of audio_io.py and audio_upload_prep.py, then the        *)
(* provider's protocol (providers/) against a remote service that may be    *)
(* slow, fail, or accept a job and lose the answer.                         *)
(*                                                                          *)
(* A file is the part of the recording it holds, and whether it is over the *)
(* provider's max_upload_bytes.  Time is counted in chunks' units and in    *)
(* polls.  cancel_event is left out: no caller in the program passes one.   *)
(* Creating an empty temporary file and deleting one succeed.               *)
(*                                                                          *)
(* A definition named Bug... is the one below it with a plausible mistake.  *)
(***************************************************************************)
EXTENDS Integers, Sequences

CONSTANTS
    MaxLength,      \* bound: length of a recording
    ChunkLength,    \* what fits into target_bytes at the lowest bitrate
    Patience        \* polls within max_wait_s

ASSUME CloudAssumption ==
    /\ MaxLength \in Nat \ {0} /\ ChunkLength \in Nat \ {0} /\ Patience \in Nat

Providers == {"AssemblyAI", "Deepgram", "Gladia", "Groq", "Speechmatics"}

OnePost  == {"Deepgram", "Groq"}              \* the answer to the upload is the result
WithCap  == {"Groq"}                          \* max_upload_bytes is set
CallsOff == {"AssemblyAI", "Speechmatics"}    \* DELETE the job when the call fails
Fetches  == {"Speechmatics"}                  \* the result takes a request of its own

VARIABLES
    provider, denoise, length,   \* the call: provider, denoise_audio, the recording
    pc,           \* where the call is
    upload,       \* upload_path
    temps,        \* temporary files on the disk
    owned,        \* those the finally block deletes
    pieces,       \* the files to send, in order
    next,         \* which of them is next
    transcript,   \* what part of the recording is transcribed, and where it is placed
    requests,     \* files that were uploaded
    job,          \* the remote job
    known,        \* its id arrived
    calledOff,    \* a DELETE was tried
    waited,       \* polls so far
    outcome

call    == <<provider, denoise, length>>
sending == <<pieces, next, transcript, requests>>
remote  == <<job, known, calledOff>>
vars == <<call, pc, upload, temps, owned, sending, remote, waited, outcome>>

Kinds == {"original", "unfiltered", "denoised", "quiet", "compressed", "chunk"}
File == [kind : Kinds, from : Nat, to : Nat, over : BOOLEAN]

TypeOK ==
    /\ provider \in Providers /\ denoise \in BOOLEAN /\ length \in 1..MaxLength
    /\ pc \in {"start", "gate", "compress", "split", "send", "wait", "fetch", "returned"}
    /\ upload \in File /\ temps \subseteq File /\ owned \subseteq File
    /\ pieces \in Seq(File) /\ next \in Nat \ {0}
    /\ transcript \in Seq([at : Nat, from : Nat, to : Nat])
    /\ requests \subseteq File
    /\ job \in {"none", "running", "done", "failed", "deleted"}
    /\ known \in BOOLEAN /\ calledOff \in BOOLEAN
    /\ waited \in 0..Patience+1
    /\ outcome \in {"none", "text", "error"}

(* What getsize() may find; without a cap nobody asks *)
Over == IF provider \in WithCap THEN BOOLEAN ELSE {FALSE}
Whole(kind) == {[kind |-> kind, from |-> 0, to |-> length, over |-> o] : o \in Over}
Set(s) == {s[k] : k \in 1..Len(s)}

Init ==
    /\ provider \in Providers /\ denoise \in BOOLEAN /\ length \in 1..MaxLength
    /\ pc = "start" /\ upload \in Whole("original")
    /\ temps = {} /\ owned = {}
    /\ pieces = <<>> /\ next = 1 /\ transcript = <<>> /\ requests = {}
    /\ job = "none" /\ known = FALSE /\ calledOff = FALSE
    /\ waited = 0 /\ outcome = "none"

(* The call ends, and deletes its temporary files *)
Return(how, mine) ==
    /\ pc' = "returned"
    /\ outcome' = how
    /\ temps' = temps \ mine

Raise == Return("error", owned)

-----------------------------------------------------------------------------
(* Preparation *)

(* A derivative that the finally block knows of *)
Keep(f) ==
    /\ temps' = temps \cup {f}
    /\ owned' = owned \cup {f}

PassOn(f) ==
    /\ pc' = "send"
    /\ pieces' = <<f>>

(* get_provider, then ensure_wav(denoise=True) before the try block: a failure of
   ffmpeg takes its file along, one before ffmpeg runs leaves it. *)
Denoise ==
    /\ pc = "start"
    /\ \/ /\ ~denoise
          /\ pc' = "gate"
          /\ UNCHANGED <<upload, temps, owned, outcome>>
       \/ /\ denoise
          /\ \E f \in Whole("denoised") : Keep(f) /\ upload' = f
          /\ pc' = "gate"
          /\ UNCHANGED outcome
       \/ /\ Raise
          /\ UNCHANGED <<upload, owned>>
       \/ /\ denoise
          /\ \E f \in Whole("unfiltered") : temps' = temps \cup {f}
          /\ pc' = "returned" /\ outcome' = "error"
          /\ UNCHANGED <<upload, owned>>
    /\ UNCHANGED <<call, sending, remote, waited>>

(* _prepare_quiet_upload, for a file that is not over the cap *)
QuietGate ==
    /\ pc = "gate"
    /\ \/ /\ upload.over
          /\ pc' = "compress"
          /\ UNCHANGED <<upload, temps, owned, pieces, outcome>>
       \/ /\ ~upload.over
          /\ PassOn(upload)
          /\ UNCHANGED <<upload, temps, owned, outcome>>
       \/ /\ ~upload.over
          /\ \E f \in Whole("quiet") :
                /\ Keep(f)
                /\ upload' = f
                /\ IF f.over THEN pc' = "compress" /\ UNCHANGED pieces ELSE PassOn(f)
          /\ UNCHANGED outcome
       \/ /\ ~upload.over
          /\ Raise
          /\ UNCHANGED <<upload, owned, pieces>>
    /\ UNCHANGED <<call, next, transcript, requests, remote, waited>>

(* compress_for_size_cap: a recording within ChunkLength has a usable bitrate, which may
   yet miss the cap *)
BugCompress ==
    /\ pc = "compress"
    /\ \/ /\ Raise
          /\ UNCHANGED <<owned, pieces>>
       \/ /\ length > ChunkLength
          /\ pc' = "split"
          /\ UNCHANGED <<temps, owned, pieces, outcome>>
       \/ /\ length <= ChunkLength
          /\ \E f \in Whole("compressed") :
                /\ temps' = temps \cup {f}
                /\ IF f.over THEN pc' = "split" /\ UNCHANGED <<owned, pieces>>
                             ELSE PassOn(f) /\ owned' = owned \cup {f}
          /\ UNCHANGED outcome
    /\ UNCHANGED <<call, upload, next, transcript, requests, remote, waited>>
Compress ==
    /\ pc = "compress"
    /\ \/ /\ Raise
          /\ UNCHANGED <<owned, pieces>>
       \/ /\ length > ChunkLength
          /\ pc' = "split"
          /\ UNCHANGED <<temps, owned, pieces, outcome>>
       \/ /\ length <= ChunkLength
          /\ \E f \in Whole("compressed") :
                /\ Keep(f)
                /\ IF f.over THEN pc' = "split" /\ UNCHANGED pieces ELSE PassOn(f)
          /\ UNCHANGED outcome
    /\ UNCHANGED <<call, upload, next, transcript, requests, remote, waited>>

(* How far the chunks reach, and where the next one ends *)
Covered == IF pieces = <<>> THEN 0 ELSE pieces[Len(pieces)].to
BugEnd == Covered + ChunkLength
End == IF Covered + ChunkLength < length THEN Covered + ChunkLength ELSE length

(* split_for_size_cap, one chunk: a failure deletes the chunks before it *)
Cut ==
    /\ pc = "split" /\ Covered < length
    /\ \/ /\ \E o \in Over :
                LET f == [kind |-> "chunk", from |-> Covered, to |-> End, over |-> o]
                IN  pieces' = Append(pieces, f) /\ temps' = temps \cup {f}
          /\ UNCHANGED <<pc, outcome>>
       \/ /\ Return("error", owned \cup Set(pieces))
          /\ UNCHANGED pieces
    /\ UNCHANGED <<call, upload, owned, next, transcript, requests, remote, waited>>

AllCut ==
    /\ pc = "split" /\ Covered >= length
    /\ owned' = owned \cup Set(pieces)
    /\ pc' = "send"
    /\ UNCHANGED <<call, upload, temps, sending, remote, waited, outcome>>

-----------------------------------------------------------------------------
(* The provider *)

Piece == pieces[next]

(* A request may fail before or after the file was uploaded *)
Requested == requests' \in {requests, requests \cup {Piece}}

(* _merge_chunk_results *)
Placed(f) == [at |-> f.from, from |-> f.from, to |-> f.to]

BugRefused == FALSE
Refused == provider \in WithCap /\ Piece.over

(* transcribe() of Deepgram and Groq: one round trip for each piece *)
Post ==
    /\ pc = "send" /\ provider \in OnePost
    /\ \/ /\ Refused
          /\ Raise
          /\ UNCHANGED <<next, transcript, requests>>
       \/ /\ ~Refused
          /\ Requested
          /\ Raise
          /\ UNCHANGED <<next, transcript>>
       \/ /\ ~Refused
          /\ requests' = requests \cup {Piece}
          /\ transcript' = Append(transcript, Placed(Piece))
          /\ next' = next + 1
          /\ IF next < Len(pieces)
               THEN UNCHANGED <<pc, outcome, temps>>
               ELSE Return("text", owned)
    /\ UNCHANGED <<call, upload, owned, pieces, remote, waited>>

(* _upload and _submit of the others *)
Submit ==
    /\ pc = "send" /\ provider \notin OnePost
    /\ \/ /\ Requested
          /\ Raise
          /\ UNCHANGED <<job, known>>
       \/ /\ requests' = requests \cup {Piece}
          /\ job' = "running"
          /\ \/ known' = TRUE /\ pc' = "wait" /\ UNCHANGED <<outcome, temps>>
             \/ known' = FALSE /\ Raise
    /\ UNCHANGED <<call, upload, owned, pieces, next, transcript, calledOff, waited>>

(* The call fails on a job it knows: _cancel_remote, whose failure is ignored *)
BugGiveUp == Raise /\ UNCHANGED <<job, calledOff>>
GiveUp ==
    /\ Raise
    /\ calledOff' = (provider \in CallsOff)
    /\ job' \in IF provider \in CallsOff THEN {job, "deleted"} ELSE {job}

Complete ==
    /\ transcript' = Append(transcript, Placed(Piece))
    /\ Return("text", owned)

BugTimedOut == FALSE
TimedOut == waited > Patience

(* One round of _common.poll whose request is answered, or the end of its patience *)
Poll ==
    /\ pc = "wait"
    /\ \/ /\ TimedOut \/ job = "failed"
          /\ GiveUp
          /\ UNCHANGED <<transcript, waited>>
       \/ /\ ~TimedOut /\ job = "running"
          /\ waited' = IF waited > Patience THEN waited ELSE waited + 1
          /\ UNCHANGED <<pc, outcome, temps, transcript, job, calledOff>>
       \/ /\ ~TimedOut /\ job = "done" /\ provider \in Fetches
          /\ pc' = "fetch"
          /\ UNCHANGED <<outcome, temps, transcript, waited, job, calledOff>>
       \/ /\ ~TimedOut /\ job = "done" /\ provider \notin Fetches
          /\ Complete
          /\ UNCHANGED <<waited, job, calledOff>>
    /\ UNCHANGED <<call, upload, owned, pieces, next, requests, known>>

(* One whose request fails, or is not answered in JSON: no second try *)
PollFails ==
    /\ pc = "wait" /\ ~TimedOut
    /\ GiveUp
    /\ UNCHANGED <<call, upload, owned, sending, known, waited>>

(* _fetch_transcript of Speechmatics *)
Fetch ==
    /\ pc = "fetch"
    /\ \/ Complete /\ UNCHANGED <<job, calledOff>>
       \/ GiveUp /\ UNCHANGED transcript
    /\ UNCHANGED <<call, upload, owned, pieces, next, requests, known, waited>>

(* The remote service *)
Service ==
    /\ job = "running"
    /\ job' \in {"done", "failed"}
    /\ UNCHANGED <<call, pc, upload, temps, owned, sending, known, calledOff, waited, outcome>>

-----------------------------------------------------------------------------

Program ==
    \/ Denoise \/ QuietGate \/ Compress \/ Cut \/ AllCut
    \/ Post \/ Submit \/ Poll \/ Fetch

Next == Program \/ PollFails \/ Service

Spec == Init /\ [][Next]_vars

(* Every request has a timeout and ffmpeg ends; the service owes nothing, and no poll
   has to fail. *)
FairSpec == Spec /\ WF_vars(Program)

-----------------------------------------------------------------------------

(* Whatever step fails, a call that ended has left no temporary file behind
   (transcriber/__init__.py, "cleaned in a finally block on every exit path"), except the
   one of ensure_wav when it raises before ffmpeg runs. *)
TempsGone == pc = "returned" => \A f \in temps : f.kind = "unfiltered"

(* No request carries a file over the provider's cap, whichever of the original, its
   derivatives and its chunks is sent. *)
RequestsUnderCap == \A f \in requests : ~f.over

(* A text that is returned covers the recording from its beginning to its end, in
   order, without gap or overlap, and each part is placed where it was spoken. *)
TimelineWhole ==
    outcome = "text" =>
        /\ transcript # <<>>
        /\ transcript[1].from = 0 /\ transcript[Len(transcript)].to = length
        /\ \A k \in 1..Len(transcript) :
              /\ transcript[k].at = transcript[k].from
              /\ k > 1 => transcript[k].from = transcript[k-1].to

(* A provider that can call a job off does so exactly when the call gives up on a job
   whose id it has (speechmatics.py, "so the user isn't billed for a full run after we've
   already given up locally"). *)
JobCalledOff ==
    calledOff <=> outcome = "error" /\ known /\ provider \in CallsOff

(* Every call ends, though the service may never finish the job. *)
CallReturns == <>(pc = "returned")
=============================================================================
