-------------------------- MODULE Services_proofs --------------------------
(***************************************************************************)
(* What TLAPS proves of the calls of services and of what is made of their *)
(* answers: of CloudTranscription, for recordings of any length, any chunk *)
(* length and any patience; and of ServiceAnswers, for any job, for        *)
(* answers of any number of words, for failures with any text, for         *)
(* trackers with any pages and boards, for replies of any number of items, *)
(* and for long meetings, minutes and documents of any length.             *)
(*                                                                         *)
(* StepInv ties the control to the call: which providers split, when the   *)
(* pieces are there, when the id of the job is known.  TempsInv and        *)
(* TimelineInv say what holds on the way of the files and of the text.     *)
(*                                                                         *)
(* What becomes of an answer is induction over its words, its pages, its   *)
(* items or its turns.  A fold of the community modules is a recursive     *)
(* function on sets of positions: FoldRun turns it into a run that takes   *)
(* one position after the other, and WalkInv, TurnsRight, Begins,          *)
(* LostCounted and CutInv say what such a run has made of what came so far.*)
(***************************************************************************)
EXTENDS CloudTranscription, ServiceAnswers, Runs_proofs

(* A derivative of the whole recording is a file, and may be over a cap only where there
   is one. *)
LEMMA WholeTyped ==
    ASSUME length \in Nat, NEW kind \in Kinds, NEW f \in Whole(kind)
    PROVE  f \in File /\ f.over \in BOOLEAN /\ (f.over => provider \in WithCap)
<1>1. PICK o \in Over : f = [kind |-> kind, from |-> 0, to |-> length, over |-> o]
  BY DEF Whole
<1>2. o \in BOOLEAN /\ (o => provider \in WithCap)
  BY DEF Over
<1>3. f.over = o
  BY <1>1
<1> QED BY <1>1, <1>2, <1>3 DEF File

(* Where a chunk begins. *)
LEMMA CoveredTyped ==
    ASSUME TypeOK
    PROVE  Covered \in Nat
<1>1. CASE pieces = <<>>
  BY <1>1 DEF Covered
<1>2. CASE pieces # <<>>
  <2>1. pieces \in Seq(File)
    BY DEF TypeOK
  <2>2. pieces[Len(pieces)] \in File
    BY <1>2, <2>1
  <2> QED BY <2>2, <1>2 DEF Covered, File
<1> QED BY <1>1, <1>2

(* A chunk is a file. *)
LEMMA ChunkTyped ==
    ASSUME TypeOK, NEW o \in Over
    PROVE  [kind |-> "chunk", from |-> Covered, to |-> End, over |-> o] \in File
<1>1. length \in Nat /\ ChunkLength \in Nat /\ Covered \in Nat
  BY CoveredTyped, CloudAssumption DEF TypeOK
<1>2. End \in Nat
  BY <1>1 DEF End
<1>3. o \in BOOLEAN /\ "chunk" \in Kinds
  BY DEF Over, Kinds
<1> QED BY <1>1, <1>2, <1>3 DEF File

(* A step that sends keeps the type of the text. *)
LEMMA PlacedTyped ==
    ASSUME TypeOK, next \in 1..Len(pieces)
    PROVE  /\ Piece \in File
           /\ Placed(Piece) \in [at : Nat, from : Nat, to : Nat]
<1>1. Piece \in File
  BY DEF Piece, TypeOK
<1> QED BY <1>1 DEF Placed, File

-----------------------------------------------------------------------------

(* The call has a file to send. *)
Sending == pc \in {"send", "wait", "fetch"}

(* Where the call is tells which pieces there are, and which providers it may have:
   those without a cap send one piece, and only a job that was submitted is known. *)
StepInv ==
    /\ TypeOK
    /\ (pc \in {"start", "gate", "compress", "split"}) =>
          next = 1 /\ transcript = <<>> /\ requests = {} /\ ~known
    /\ (pc \in {"start", "gate", "compress"}) => pieces = <<>>
    /\ (pc \in {"compress", "split"}) => provider \in WithCap
    /\ Sending => next \in 1..Len(pieces)
    /\ upload.over => provider \in WithCap

(* Every variable keeps its type, and the control keeps StepInv. *)
LEMMA StepInvariant == Spec => []StepInv
<1>1. Init => StepInv
  <2> SUFFICES ASSUME Init PROVE StepInv
    OBVIOUS
  <2> USE CloudAssumption DEF Init
  <2>1. length \in Nat /\ "original" \in Kinds
    BY DEF Kinds
  <2>2. upload \in File /\ (upload.over => provider \in WithCap)
    BY <2>1, WholeTyped
  <2>3. waited \in 0..Patience+1
    OBVIOUS
  <2>4. TypeOK
    <3>1. pieces \in Seq(File) /\ transcript \in Seq([at : Nat, from : Nat, to : Nat])
      OBVIOUS
    <3>2. temps \subseteq File /\ owned \subseteq File /\ requests \subseteq File
      OBVIOUS
    <3> HIDE DEF Init
    <3>3. provider \in Providers /\ denoise \in BOOLEAN /\ length \in 1..MaxLength
      BY DEF Init
    <3>4. /\ pc = "start" /\ next = 1 /\ job = "none" /\ known \in BOOLEAN
          /\ calledOff \in BOOLEAN /\ outcome = "none"
      BY DEF Init
    <3> QED BY <2>2, <2>3, <3>1, <3>2, <3>3, <3>4 DEF TypeOK
  <2> QED BY <2>2, <2>4 DEF StepInv, Sending
<1>2. StepInv /\ [Next]_vars => StepInv'
  <2> SUFFICES ASSUME StepInv, [Next]_vars PROVE StepInv'
    OBVIOUS
  <2>0. TypeOK
    BY DEF StepInv
  <2>w. /\ \A f \in Whole("denoised") : f \in File /\ (f.over => provider \in WithCap)
        /\ \A f \in Whole("unfiltered") : f \in File
        /\ \A f \in Whole("quiet") : f \in File /\ f.over \in BOOLEAN /\ (f.over => provider \in WithCap)
        /\ \A f \in Whole("compressed") : f \in File /\ f.over \in BOOLEAN
    <3>1. length \in Nat
      BY <2>0, CloudAssumption DEF TypeOK
    <3>2. /\ "denoised" \in Kinds /\ "unfiltered" \in Kinds
          /\ "quiet" \in Kinds /\ "compressed" \in Kinds
      BY DEF Kinds
    <3> QED BY <3>1, <3>2, WholeTyped
  <2>p. ASSUME Sending
        PROVE  /\ Piece \in File
               /\ Append(transcript, Placed(Piece)) \in Seq([at : Nat, from : Nat, to : Nat])
    BY <2>0, <2>p, PlacedTyped DEF StepInv, TypeOK
  <2>s. ASSUME NEW f \in File
        PROVE  <<f>> \in Seq(File) /\ Len(<<f>>) = 1
    OBVIOUS
  <2> USE DEF Raise, Return, Keep, PassOn, call, sending, remote, Sending
  <2>1. CASE Denoise
    BY <2>0, <2>w, <2>1 DEF Denoise, StepInv, TypeOK
  <2>2. CASE QuietGate
    <3>1. CASE pc' = "compress" /\ upload.over /\ UNCHANGED <<upload, temps, owned, pieces, outcome>>
      BY <2>0, <2>2, <3>1 DEF QuietGate, StepInv, TypeOK
    <3>2. CASE PassOn(upload) /\ UNCHANGED <<upload, temps, owned, outcome>>
      BY <2>0, <2>s, <2>2, <3>2 DEF QuietGate, StepInv, TypeOK
    <3>3. ASSUME NEW f \in Whole("quiet"), Keep(f), upload' = f, UNCHANGED outcome,
                 IF f.over THEN pc' = "compress" /\ UNCHANGED pieces ELSE PassOn(f)
          PROVE  StepInv'
      <4>1. CASE f.over
        BY <2>0, <2>w, <2>2, <3>3, <4>1 DEF QuietGate, StepInv, TypeOK
      <4>2. CASE ~f.over
        <5>1. f \in File /\ pieces' = <<f>> /\ pc' = "send"
          BY <2>w, <3>3, <4>2
        <5>2. pieces' \in Seq(File) /\ Len(pieces') = 1
          BY <5>1
        <5>3. temps' \subseteq File /\ owned' \subseteq File
          BY <2>0, <3>3, <5>1 DEF TypeOK
        <5>4. next' = 1 /\ upload' \in File /\ (upload'.over => provider \in WithCap)
          BY <2>0, <2>w, <2>2, <3>3 DEF QuietGate, StepInv, TypeOK
        <5> QED BY <2>0, <2>2, <3>3, <5>1, <5>2, <5>3, <5>4 DEF QuietGate, StepInv, TypeOK
      <4> QED BY <4>1, <4>2
    <3>4. CASE Raise /\ UNCHANGED <<upload, owned, pieces>>
      BY <2>0, <2>2, <3>4 DEF QuietGate, StepInv, TypeOK
    <3> QED BY <2>2, <3>1, <3>2, <3>3, <3>4 DEF QuietGate
  <2>3. CASE Compress
    <3>1. CASE Raise /\ UNCHANGED <<owned, pieces>>
      BY <2>0, <2>3, <3>1 DEF Compress, StepInv, TypeOK
    <3>2. CASE pc' = "split" /\ UNCHANGED <<temps, owned, pieces, outcome>>
      BY <2>0, <2>3, <3>2 DEF Compress, StepInv, TypeOK
    <3>3. ASSUME NEW f \in Whole("compressed"), Keep(f), UNCHANGED outcome,
                 IF f.over THEN pc' = "split" /\ UNCHANGED pieces ELSE PassOn(f)
          PROVE  StepInv'
      <4>1. CASE f.over
        BY <2>0, <2>w, <2>3, <3>3, <4>1 DEF Compress, StepInv, TypeOK
      <4>2. CASE ~f.over
        <5>1. f \in File /\ pieces' = <<f>> /\ pc' = "send"
          BY <2>w, <3>3, <4>2
        <5>2. pieces' \in Seq(File) /\ Len(pieces') = 1
          BY <5>1
        <5>3. temps' \subseteq File /\ owned' \subseteq File
          BY <2>0, <3>3, <5>1 DEF TypeOK
        <5>4. next' = 1 /\ upload' \in File /\ (upload'.over => provider \in WithCap)
          BY <2>0, <2>w, <2>3, <3>3 DEF Compress, StepInv, TypeOK
        <5> QED BY <2>0, <2>3, <3>3, <5>1, <5>2, <5>3, <5>4 DEF Compress, StepInv, TypeOK
      <4> QED BY <4>1, <4>2
    <3> QED BY <2>3, <3>1, <3>2, <3>3 DEF Compress
  <2>4. CASE Cut
    <3>1. CASE Return("error", owned \cup Set(pieces)) /\ UNCHANGED pieces
      BY <2>0, <2>4, <3>1 DEF Cut, StepInv, TypeOK
    <3>2. ASSUME NEW o \in Over,
                 pieces' = Append(pieces, [kind |-> "chunk", from |-> Covered,
                                           to |-> End, over |-> o]),
                 temps' = temps \cup {[kind |-> "chunk", from |-> Covered,
                                       to |-> End, over |-> o]},
                 UNCHANGED <<pc, outcome>>
          PROVE  StepInv'
      <4>1. [kind |-> "chunk", from |-> Covered, to |-> End, over |-> o] \in File
        BY <2>0, ChunkTyped
      <4> QED BY <2>0, <2>4, <3>2, <4>1 DEF Cut, StepInv, TypeOK
    <3> QED BY <2>4, <3>1, <3>2 DEF Cut
  <2>5. CASE AllCut
    <3>1. pieces # <<>>
      BY <2>0, <2>5, CloudAssumption DEF AllCut, Covered, TypeOK
    <3>2. pieces \in Seq(File) /\ Len(pieces) \in Nat /\ 1 \in 1..Len(pieces)
      BY <2>0, <3>1 DEF TypeOK
    <3>3. Set(pieces) \subseteq File
      BY <3>2 DEF Set
    <3> QED BY <2>0, <2>5, <3>2, <3>3 DEF AllCut, StepInv, TypeOK
  <2>6. CASE Post
    <3>1. CASE Raise /\ UNCHANGED <<next, transcript>>
      BY <2>0, <2>6, <2>p, <3>1 DEF Post, Requested, StepInv, TypeOK
    <3>2. CASE /\ requests' = requests \cup {Piece}
               /\ transcript' = Append(transcript, Placed(Piece))
               /\ next' = next + 1
               /\ IF next < Len(pieces) THEN UNCHANGED <<pc, outcome, temps>>
                                        ELSE Return("text", owned)
      <4>1. CASE next < Len(pieces)
        <5>1. pc' = pc /\ outcome' = outcome /\ temps' = temps /\ next' = next + 1 /\ next' <= Len(pieces)
          BY <2>0, <2>6, <2>p, <3>2, <4>1 DEF Post, TypeOK
        <5> QED BY <2>0, <2>6, <2>p, <3>2, <4>1, <5>1 DEF Post, StepInv, TypeOK
      <4>2. CASE ~(next < Len(pieces))
        BY <2>0, <2>6, <2>p, <3>2, <4>2 DEF Post, StepInv, TypeOK
      <4> QED BY <4>1, <4>2
    <3> QED BY <2>6, <3>1, <3>2 DEF Post
  <2>7. CASE Submit
    BY <2>0, <2>7, <2>p DEF Submit, Requested, StepInv, TypeOK
  <2>8. CASE Poll
    <3>1. CASE GiveUp /\ UNCHANGED <<transcript, waited>>
      BY <2>0, <2>8, <3>1 DEF Poll, GiveUp, StepInv, TypeOK
    <3>2. CASE waited' = (IF waited > Patience THEN waited ELSE waited + 1)
               /\ UNCHANGED <<pc, outcome, temps, transcript, job, calledOff>>
      <4>1. waited' \in 0..Patience+1
        BY <2>0, <3>2, CloudAssumption DEF TypeOK
      <4> QED BY <2>0, <2>8, <3>2, <4>1 DEF Poll, StepInv, TypeOK
    <3>3. CASE pc' = "fetch"
               /\ UNCHANGED <<outcome, temps, transcript, waited, job, calledOff>>
      BY <2>0, <2>8, <3>3 DEF Poll, StepInv, TypeOK
    <3>4. CASE Complete /\ UNCHANGED <<waited, job, calledOff>>
      BY <2>0, <2>8, <2>p, <3>4 DEF Poll, Complete, StepInv, TypeOK
    <3> QED BY <2>8, <3>1, <3>2, <3>3, <3>4 DEF Poll
  <2>9. CASE PollFails
    BY <2>0, <2>9 DEF PollFails, GiveUp, StepInv, TypeOK
  <2>10. CASE Fetch
    <3>1. CASE Complete /\ UNCHANGED <<job, calledOff>>
      BY <2>0, <2>10, <2>p, <3>1 DEF Fetch, Complete, StepInv, TypeOK
    <3>2. CASE GiveUp /\ UNCHANGED transcript
      BY <2>0, <2>10, <3>2 DEF Fetch, GiveUp, StepInv, TypeOK
    <3> QED BY <2>10, <3>1, <3>2 DEF Fetch
  <2>11. CASE Service
    BY <2>0, <2>11 DEF Service, StepInv, TypeOK
  <2>12. CASE UNCHANGED vars
    BY <2>0, <2>12 DEF vars, StepInv, TypeOK
  <2> QED BY <2>1, <2>2, <2>3, <2>4, <2>5, <2>6, <2>7, <2>8, <2>9, <2>10, <2>11, <2>12
          DEF Next, Program
<1> QED BY <1>1, <1>2, PTL DEF Spec

-----------------------------------------------------------------------------

(* The members of a longer sequence. *)
LEMMA SetAppend ==
    ASSUME NEW S, NEW s \in Seq(S), NEW e \in S
    PROVE  Set(Append(s, e)) = Set(s) \cup {e}
<1>1. Len(Append(s, e)) = Len(s) + 1 /\ Len(s) \in Nat
  OBVIOUS
<1>2. Append(s, e)[Len(s) + 1] = e /\ \A k \in 1..Len(s) : Append(s, e)[k] = s[k]
  OBVIOUS
<1> QED BY <1>1, <1>2 DEF Set

(* On the way, every temporary file is one that a failure would delete. *)
TempsInv ==
    /\ pc = "start" => temps = {}
    /\ pc \notin {"split", "returned"} => temps \subseteq owned
    /\ pc = "split" => temps \subseteq owned \cup Set(pieces)
    /\ pc = "returned" => \A f \in temps : f.kind = "unfiltered"

(* Whichever step of the call fails, its temporary files are gone when it ended, but for
   the one ensure_wav leaves. *)
THEOREM NoTempsLeft == Spec => []TempsGone
<1>1. Init => TempsInv
  BY DEF Init, TempsInv
<1>2. StepInv /\ TempsInv /\ [Next]_vars => TempsInv'
  <2> SUFFICES ASSUME StepInv, TempsInv, [Next]_vars PROVE TempsInv'
    OBVIOUS
  <2> USE DEF TempsInv, Raise, Return, Keep, PassOn, call, sending, remote
  <2>1. CASE Denoise
    BY <2>1 DEF Denoise, Whole
  <2>2. CASE QuietGate
    BY <2>2 DEF QuietGate
  <2>3. CASE Compress
    BY <2>3 DEF Compress
  <2>4. CASE Cut
    <3>1. CASE Return("error", owned \cup Set(pieces)) /\ UNCHANGED pieces
      BY <2>4, <3>1 DEF Cut
    <3>2. ASSUME NEW f, pieces' = Append(pieces, f), temps' = temps \cup {f}, f \in File,
                 UNCHANGED <<pc, outcome>>
          PROVE  TempsInv'
      <4>1. Set(pieces') = Set(pieces) \cup {f}
        BY <3>2, SetAppend DEF StepInv, TypeOK
      <4> QED BY <2>4, <3>2, <4>1 DEF Cut
    <3> QED BY <2>4, <3>1, <3>2, ChunkTyped DEF Cut, StepInv
  <2>5. CASE AllCut
    BY <2>5 DEF AllCut
  <2>6. CASE Post
    BY <2>6 DEF Post
  <2>7. CASE Submit
    BY <2>7 DEF Submit
  <2>8. CASE Poll
    BY <2>8 DEF Poll, GiveUp, Complete
  <2>9. CASE PollFails
    BY <2>9 DEF PollFails, GiveUp
  <2>10. CASE Fetch
    BY <2>10 DEF Fetch, GiveUp, Complete
  <2>11. CASE Service
    BY <2>11 DEF Service
  <2>12. CASE UNCHANGED vars
    BY <2>12 DEF vars
  <2> QED BY <2>1, <2>2, <2>3, <2>4, <2>5, <2>6, <2>7, <2>8, <2>9, <2>10, <2>11, <2>12
          DEF Next, Program
<1>3. TempsInv => TempsGone
  BY DEF TempsInv, TempsGone
<1> QED BY <1>1, <1>2, <1>3, StepInvariant, PTL DEF Spec

-----------------------------------------------------------------------------

CapInv ==
    /\ RequestsUnderCap
    /\ \A k \in 1..Len(pieces) : pieces[k].over => provider \in WithCap

(* No upload is over its provider's cap. *)
THEOREM UploadsFit == Spec => []RequestsUnderCap
<1>1. Init => CapInv
  BY DEF Init, CapInv, RequestsUnderCap
<1>2. StepInv /\ CapInv /\ [Next]_vars => CapInv'
  <2> SUFFICES ASSUME StepInv, CapInv, [Next]_vars PROVE CapInv'
    OBVIOUS
  <2>p. Sending => (Piece.over => provider \in WithCap)
    BY DEF CapInv, StepInv, Piece
  <2>w. provider \in WithCap => provider \in OnePost
    BY DEF WithCap, OnePost
  <2>f. ASSUME NEW f, PassOn(f), f.over => provider \in WithCap,
               UNCHANGED <<requests, provider>>
        PROVE  CapInv'
    BY <2>f DEF PassOn, CapInv, RequestsUnderCap
  <2>u. ASSUME UNCHANGED <<pieces, requests, provider>> PROVE CapInv'
    BY <2>u DEF CapInv, RequestsUnderCap
  <2>1. CASE Denoise
    BY <2>1, <2>u DEF Denoise, call, sending
  <2>2. CASE QuietGate
    BY <2>2, <2>u, <2>f DEF QuietGate, StepInv, call
  <2>3. CASE Compress
    BY <2>3, <2>u, <2>f DEF Compress, StepInv, call
  <2>4. CASE Cut
    <3>1. CASE UNCHANGED pieces
      BY <2>4, <3>1, <2>u DEF Cut, call
    <3>2. ASSUME NEW f \in File, pieces' = Append(pieces, f) PROVE CapInv'
      <4>1. provider \in WithCap /\ UNCHANGED <<provider, requests>>
        BY <2>4 DEF Cut, StepInv, call
      <4> QED BY <4>1 DEF CapInv, RequestsUnderCap
    <3> QED BY <2>4, <3>1, <3>2, ChunkTyped DEF Cut, StepInv
  <2>5. CASE AllCut
    BY <2>5, <2>u DEF AllCut, call, sending
  <2>6. CASE Post
    <3>1. CASE Refused /\ UNCHANGED requests
      BY <2>6, <3>1, <2>u DEF Post, call
    <3>2. CASE ~Refused /\ requests' \in {requests, requests \cup {Piece}}
      <4>1. ~Piece.over
        BY <2>6, <2>p, <3>2 DEF Refused, Post, Sending
      <4> QED BY <2>6, <3>2, <4>1 DEF Post, CapInv, RequestsUnderCap, call
    <3> QED BY <2>6, <3>1, <3>2 DEF Post, Requested
  <2>7. CASE Submit
    <3>1. ~Piece.over
      BY <2>7, <2>p, <2>w DEF Submit, Sending
    <3> QED BY <2>7, <3>1 DEF Submit, Requested, CapInv, RequestsUnderCap, call
  <2>8. CASE Poll
    BY <2>8, <2>u DEF Poll, call
  <2>9. CASE PollFails
    BY <2>9, <2>u DEF PollFails, call, sending
  <2>10. CASE Fetch
    BY <2>10, <2>u DEF Fetch, call
  <2>11. CASE Service
    BY <2>11, <2>u DEF Service, call, sending
  <2>12. CASE UNCHANGED vars
    BY <2>12, <2>u DEF vars, call, sending
  <2> QED BY <2>1, <2>2, <2>3, <2>4, <2>5, <2>6, <2>7, <2>8, <2>9, <2>10, <2>11, <2>12
          DEF Next, Program
<1>3. CapInv => RequestsUnderCap
  BY DEF CapInv
<1> QED BY <1>1, <1>2, <1>3, StepInvariant, PTL DEF Spec

-----------------------------------------------------------------------------

JobInv ==
    /\ JobCalledOff
    /\ outcome = "none" <=> pc # "returned"
    /\ pc = "send" => ~known
    /\ pc \in {"wait", "fetch"} => known

(* A job is called off exactly when the call gives up on one it knows, with a provider
   that can. *)
THEOREM JobsCalledOff == Spec => []JobCalledOff
<1>1. Init => JobInv
  BY DEF Init, JobInv, JobCalledOff
<1>2. StepInv /\ JobInv /\ [Next]_vars => JobInv'
  <2> SUFFICES ASSUME StepInv, JobInv, [Next]_vars PROVE JobInv'
    OBVIOUS
  <2> USE DEF JobInv, JobCalledOff, Raise, Return, call, sending, remote
  <2>t. known \in BOOLEAN /\ calledOff \in BOOLEAN
    BY DEF StepInv, TypeOK
  <2>1. CASE Denoise
    BY <2>1 DEF Denoise, StepInv
  <2>2. CASE QuietGate
    BY <2>2 DEF QuietGate, PassOn, StepInv
  <2>3. CASE Compress
    BY <2>3 DEF Compress, PassOn, StepInv
  <2>4. CASE Cut
    BY <2>4 DEF Cut, StepInv
  <2>5. CASE AllCut
    BY <2>5 DEF AllCut, StepInv
  <2>6. CASE Post
    BY <2>6 DEF Post
  <2>7. CASE Submit
    BY <2>7 DEF Submit
  <2>g. ASSUME GiveUp, known, UNCHANGED <<provider, known>> PROVE JobInv'
    BY <2>g DEF GiveUp
  <2>c. ASSUME Complete, outcome = "none", UNCHANGED <<provider, known, calledOff>>
        PROVE  JobInv'
    BY <2>c DEF Complete
  <2>k. (pc \in {"wait", "fetch"}) => known
    BY DEF JobInv
  <2>8. CASE Poll
    BY <2>8, <2>g, <2>c, <2>k DEF Poll
  <2>9. CASE PollFails
    BY <2>9, <2>g, <2>k DEF PollFails
  <2>10. CASE Fetch
    BY <2>10, <2>g, <2>c, <2>k DEF Fetch
  <2>11. CASE Service
    BY <2>11 DEF Service
  <2>12. CASE UNCHANGED vars
    BY <2>12 DEF vars
  <2> QED BY <2>1, <2>2, <2>3, <2>4, <2>5, <2>6, <2>7, <2>8, <2>9, <2>10, <2>11, <2>12
          DEF Next, Program
<1>3. JobInv => JobCalledOff
  BY DEF JobInv
<1> QED BY <1>1, <1>2, <1>3, StepInvariant, PTL DEF Spec

-----------------------------------------------------------------------------

(* Pieces that follow each other from the beginning on. *)
Tiled(s) ==
    /\ s # <<>> => s[1].from = 0
    /\ \A k \in 1..Len(s) : k > 1 => s[k].from = s[k-1].to

(* The pieces tile the recording, as far as they were cut; the text is that of the
   pieces sent so far, each where it belongs. *)
TimelineInv ==
    /\ Tiled(pieces)
    /\ outcome # "none" => pc = "returned"
    /\ Covered <= length
    /\ Sending => /\ Covered = length
                  /\ Len(transcript) = next - 1
                  /\ \A k \in 1..Len(transcript) : transcript[k] = Placed(pieces[k])
    /\ Sending /\ provider \notin OnePost => Len(pieces) = 1
    /\ pc \in {"wait", "fetch"} => Len(pieces) = 1
    /\ upload.from = 0 /\ upload.to = length
    /\ TimelineWhole

(* What becomes of the text when its next piece arrives. *)
LEMMA TextGrows ==
    ASSUME StepInv, TimelineInv, Sending,
           transcript' = Append(transcript, Placed(Piece))
    PROVE  /\ Len(transcript') = next
           /\ \A k \in 1..next : transcript'[k] = Placed(pieces[k])
<1>1. next \in 1..Len(pieces) /\ pieces \in Seq(File) /\ transcript \in Seq([at : Nat, from : Nat, to : Nat])
  BY DEF StepInv, TypeOK
<1>2. Len(transcript) = next - 1 /\ \A k \in 1..Len(transcript) : transcript[k] = Placed(pieces[k])
  BY DEF TimelineInv
<1>3. Len(transcript') = next
  BY <1>1, <1>2
<1>4. transcript'[next] = Placed(pieces[next])
  BY <1>1, <1>2 DEF Piece
<1>5. \A k \in 1..Len(transcript) : transcript'[k] = transcript[k]
  BY <1>1
<1> QED BY <1>1, <1>2, <1>3, <1>4, <1>5

(* The last piece completes the recording. *)
LEMMA TextWhole ==
    ASSUME StepInv, TimelineInv, Sending, next = Len(pieces),
           transcript' = Append(transcript, Placed(Piece)), length' = length
    PROVE  TimelineWhole'
<1>1. next \in 1..Len(pieces) /\ pieces \in Seq(File)
  BY DEF StepInv, TypeOK
<1>2. Len(transcript') = Len(pieces) /\ \A k \in 1..Len(pieces) : transcript'[k] = Placed(pieces[k])
  BY TextGrows
<1>3. /\ pieces[1].from = 0 /\ pieces[Len(pieces)].to = length
      /\ \A k \in 1..Len(pieces) : k > 1 => pieces[k].from = pieces[k-1].to
  BY <1>1 DEF TimelineInv, Tiled, Covered
<1>4. \A k \in 1..Len(pieces) : /\ transcript'[k].at = pieces[k].from
                                /\ transcript'[k].from = pieces[k].from
                                /\ transcript'[k].to = pieces[k].to
  <2>1. ASSUME NEW f PROVE Placed(f).at = f.from /\ Placed(f).from = f.from /\ Placed(f).to = f.to
    BY DEF Placed
  <2> QED BY <1>2, <2>1
<1>5. transcript' # <<>>
  BY <1>1, <1>2
<1>6. ASSUME NEW k \in 1..Len(pieces)
      PROVE  /\ transcript'[k].at = transcript'[k].from
             /\ k > 1 => transcript'[k].from = transcript'[k-1].to
  <2>1. transcript'[k].at = transcript'[k].from
    BY <1>4
  <2>2. ASSUME k > 1 PROVE transcript'[k].from = transcript'[k-1].to
    <3>1. k - 1 \in 1..Len(pieces)
      BY <1>1, <2>2
    <3> QED BY <1>3, <1>4, <2>2, <3>1
  <2> QED BY <2>1, <2>2
<1> QED BY <1>1, <1>2, <1>3, <1>4, <1>5, <1>6 DEF TimelineWhole

(* One more chunk: the tiling goes on where it ended, and not beyond the recording. *)
LEMMA ChunkTiles ==
    ASSUME StepInv, TimelineInv, Covered < length, NEW o \in Over,
           pieces' = Append(pieces, [kind |-> "chunk", from |-> Covered, to |-> End, over |-> o]),
           length' = length
    PROVE  Tiled(pieces') /\ Covered' <= length'
<1> DEFINE f == [kind |-> "chunk", from |-> Covered, to |-> End, over |-> o]
<1>1. pieces \in Seq(File) /\ f \in File /\ length \in Nat
  BY ChunkTyped, CloudAssumption DEF StepInv, TypeOK
<1>2. /\ Len(pieces') = Len(pieces) + 1 /\ Len(pieces) \in Nat
      /\ pieces'[Len(pieces) + 1] = f
      /\ \A k \in 1..Len(pieces) : pieces'[k] = pieces[k]
  BY <1>1
<1>3. f.from = Covered /\ f.to = End
  OBVIOUS
<1>4. End <= length /\ End \in Nat
  <2>1. f.to \in Nat /\ f.from \in Nat
    BY <1>1 DEF File
  <2> QED BY <2>1, <1>1, CloudAssumption DEF End
<1>5. Covered' = End
  <2>1. pieces' # <<>>
    BY <1>2
  <2>2. Covered' = pieces'[Len(pieces')].to
    BY <2>1 DEF Covered
  <2> QED BY <2>2, <1>2, <1>3
<1>6. pieces'[1].from = 0
  <2>1. CASE pieces = <<>>
    BY <2>1, <1>2, <1>3 DEF Covered
  <2>2. CASE pieces # <<>>
    BY <2>2, <1>1, <1>2 DEF TimelineInv, Tiled
  <2> QED BY <2>1, <2>2
<1>7. ASSUME NEW k \in 1..Len(pieces'), k > 1
      PROVE  pieces'[k].from = pieces'[k-1].to
  <2>0. k - 1 \in 1..Len(pieces)
    BY <1>2, <1>7
  <2>1. CASE k = Len(pieces) + 1
    <3>1. pieces # <<>> /\ Covered = pieces[Len(pieces)].to
      BY <2>0, <1>1 DEF Covered
    <3> QED BY <2>0, <2>1, <3>1, <1>2, <1>3
  <2>2. CASE k \in 1..Len(pieces)
    BY <2>0, <2>2, <1>2, <1>7 DEF TimelineInv, Tiled
  <2>3. k = Len(pieces) + 1 \/ k \in 1..Len(pieces)
    BY <1>2, <1>7
  <2> QED BY <2>1, <2>2, <2>3
<1> QED BY <1>1, <1>4, <1>5, <1>6, <1>7 DEF Tiled

(* A text that is returned covers the whole recording, in order, and each part is placed
   where it was spoken, however many chunks it took. *)
THEOREM TextCoversRecording == Spec => []TimelineWhole
<1>1. Init => TimelineInv
  <2> SUFFICES ASSUME Init PROVE TimelineInv
    OBVIOUS
  <2> USE CloudAssumption DEF Init
  <2>1. pieces = <<>> /\ transcript = <<>> /\ length \in Nat /\ pc = "start" /\ outcome = "none"
    OBVIOUS
  <2>2. upload.from = 0 /\ upload.to = length
    BY DEF Whole
  <2> HIDE DEF Init
  <2> QED BY <2>1, <2>2 DEF TimelineInv, Tiled, Covered, Sending, TimelineWhole
<1>2. StepInv /\ TimelineInv /\ [Next]_vars => TimelineInv'
  <2> SUFFICES ASSUME StepInv, TimelineInv, [Next]_vars PROVE TimelineInv'
    OBVIOUS
  <2>l. length \in Nat /\ length >= 1
    BY CloudAssumption DEF StepInv, TypeOK
  <2>t. \A kind \in Kinds : \A f \in Whole(kind) : f.from = 0 /\ f.to = length
    BY DEF Whole
  <2>n. "denoised" \in Kinds /\ "quiet" \in Kinds /\ "compressed" \in Kinds
    BY DEF Kinds
  (* A step that ends the call without a text *)
  <2>r. ASSUME pc' = "returned", outcome' = "error", UNCHANGED <<pieces, length, upload>>
        PROVE  TimelineInv'
    BY <2>r DEF TimelineInv, Tiled, Covered, Sending, TimelineWhole
  (* A step before the first request *)
  <2>e. ASSUME outcome = "none", ~Sending', UNCHANGED <<pieces, length, outcome>>,
               upload'.from = 0, upload'.to = length
        PROVE  TimelineInv'
    BY <2>e DEF TimelineInv, Tiled, Covered, TimelineWhole, Sending
  (* A single file is passed on *)
  <2>f. ASSUME NEW f, f.from = 0, f.to = length, PassOn(f), outcome = "none",
               next = 1, transcript = <<>>, UNCHANGED <<next, transcript, length, outcome>>,
               upload'.from = 0, upload'.to = length
        PROVE  TimelineInv'
    <3>1. pieces' = <<f>> /\ Len(<<f>>) = 1 /\ <<f>>[1] = f /\ <<f>> # <<>>
      BY <2>f DEF PassOn
    <3>2. Tiled(pieces') /\ Covered' = length'
      BY <2>f, <3>1 DEF Tiled, Covered
    <3> QED BY <2>f, <2>l, <3>1, <3>2 DEF TimelineInv, TimelineWhole
  (* The text is complete *)
  <2>c. ASSUME Sending, next = Len(pieces), transcript' = Append(transcript, Placed(Piece)),
               pc' = "returned", UNCHANGED <<pieces, length, upload>>
        PROVE  TimelineInv'
    <3>1. TimelineWhole'
      BY <2>c, TextWhole
    <3> QED BY <2>c, <3>1 DEF TimelineInv, Tiled, Covered, Sending
  (* A step on the way that leaves the text alone *)
  <2>s. ASSUME Sending, pc' \in {"send", "wait", "fetch"}, outcome = "none",
               UNCHANGED <<pieces, next, transcript, length, upload, outcome, provider>>,
               pc' \in {"wait", "fetch"} => Len(pieces) = 1
        PROVE  TimelineInv'
    BY <2>s DEF TimelineInv, Tiled, Covered, Sending, TimelineWhole, Placed
  <2>o. pc # "returned" => outcome = "none"
    BY DEF TimelineInv
  <2> USE DEF call, sending, remote, Raise, Return
  <2>1. CASE Denoise
    BY <2>1, <2>r, <2>e, <2>t, <2>n, <2>o DEF Denoise, Sending, TimelineInv
  <2>2. CASE QuietGate
    <3>0. outcome = "none" /\ next = 1 /\ transcript = <<>> /\ ~Sending
      BY <2>2, <2>o DEF QuietGate, StepInv, Sending
    <3>1. CASE pc' = "compress" /\ UNCHANGED <<upload, temps, owned, pieces, outcome>>
      BY <2>2, <2>e, <3>0, <3>1 DEF QuietGate, TimelineInv, Sending
    <3>2. CASE PassOn(upload) /\ UNCHANGED <<upload, temps, owned, outcome>>
      BY <2>2, <2>f, <3>0, <3>2 DEF QuietGate, TimelineInv
    <3>3. ASSUME NEW f \in Whole("quiet"), upload' = f, UNCHANGED outcome,
                 (pc' = "compress" /\ UNCHANGED pieces) \/ PassOn(f)
          PROVE  TimelineInv'
      <4>1. f.from = 0 /\ f.to = length
        BY <2>t, <2>n
      <4> QED BY <2>2, <2>e, <2>f, <3>0, <3>3, <4>1 DEF QuietGate, Sending
    <3>4. CASE Raise /\ UNCHANGED <<upload, owned, pieces>>
      BY <2>2, <2>r, <3>4 DEF QuietGate
    <3> QED BY <2>2, <3>1, <3>2, <3>3, <3>4 DEF QuietGate
  <2>3. CASE Compress
    <3>0. outcome = "none" /\ next = 1 /\ transcript = <<>> /\ ~Sending
      BY <2>3, <2>o DEF Compress, StepInv, Sending
    <3>1. CASE Raise /\ UNCHANGED <<owned, pieces>>
      BY <2>3, <2>r, <3>1 DEF Compress
    <3>2. CASE pc' = "split" /\ UNCHANGED <<pieces, outcome>>
      BY <2>3, <2>e, <3>0, <3>2 DEF Compress, TimelineInv, Sending
    <3>3. ASSUME NEW f \in Whole("compressed"), UNCHANGED outcome, PassOn(f)
          PROVE  TimelineInv'
      <4>1. f.from = 0 /\ f.to = length
        BY <2>t, <2>n
      <4> QED BY <2>3, <2>f, <3>0, <3>3, <4>1 DEF Compress, TimelineInv
    <3> QED BY <2>3, <3>1, <3>2, <3>3 DEF Compress
  <2>4. CASE Cut
    <3>1. CASE Return("error", owned \cup Set(pieces)) /\ UNCHANGED pieces
      BY <2>4, <2>r, <3>1 DEF Cut
    <3>2. ASSUME NEW o \in Over, UNCHANGED <<pc, outcome>>,
                 pieces' = Append(pieces, [kind |-> "chunk", from |-> Covered,
                                           to |-> End, over |-> o])
          PROVE  TimelineInv'
      <4>1. Tiled(pieces') /\ Covered' <= length'
        BY <2>4, <3>2, ChunkTiles DEF Cut
      <4> QED BY <2>4, <2>o, <3>2, <4>1 DEF Cut, TimelineInv, Sending, TimelineWhole
    <3> QED BY <2>4, <3>1, <3>2 DEF Cut
  <2>5. CASE AllCut
    <3>1. Covered = length /\ outcome = "none" /\ next = 1 /\ transcript = <<>>
      <4>1. Covered \in Nat
        BY CoveredTyped DEF StepInv
      <4> QED BY <2>5, <2>o, <2>l, <4>1 DEF AllCut, TimelineInv, StepInv
    <3>2. provider \in OnePost
      BY <2>5 DEF AllCut, StepInv, WithCap, OnePost
    <3> QED BY <2>5, <3>1, <3>2 DEF AllCut, TimelineInv, Tiled, Covered, Sending, TimelineWhole
  <2>6. CASE Post
    <3>1. CASE Raise
      BY <2>6, <2>r, <3>1 DEF Post
    <3>2. CASE transcript' = Append(transcript, Placed(Piece)) /\ next' = next + 1
      <4>0. Sending /\ next \in 1..Len(pieces) /\ Len(pieces) \in Nat
        BY <2>6 DEF Post, Sending, StepInv, TypeOK
      <4>1. CASE next < Len(pieces)
        <5>1. /\ Len(transcript') = next
              /\ \A k \in 1..next : transcript'[k] = Placed(pieces[k])
          BY <3>2, <4>0, TextGrows
        <5>2. UNCHANGED <<pc, outcome, pieces, length, upload, provider>> /\ outcome = "none"
          BY <2>6, <2>o, <3>2, <4>0, <4>1 DEF Post
        <5> QED BY <2>6, <3>2, <4>0, <5>1, <5>2
                DEF Post, TimelineInv, Tiled, Covered, Sending, TimelineWhole, Placed
      <4>2. CASE ~(next < Len(pieces))
        BY <2>6, <2>c, <3>2, <4>0, <4>2 DEF Post
      <4> QED BY <4>1, <4>2
    <3> QED BY <2>6, <3>1, <3>2 DEF Post
  <2>7. CASE Submit
    <3>1. CASE Raise
      BY <2>7, <2>r, <3>1 DEF Submit
    <3>2. CASE pc' = "wait" /\ UNCHANGED outcome
      BY <2>7, <2>s, <2>o, <3>2 DEF Submit, Sending, TimelineInv
    <3> QED BY <2>7, <3>1, <3>2 DEF Submit
  <2>8. CASE Poll
    <3>0. Sending /\ Len(pieces) = 1 /\ next = Len(pieces) /\ outcome = "none"
      <4>1. Sending /\ Len(pieces) = 1 /\ outcome = "none"
        BY <2>8, <2>o DEF Poll, Sending, TimelineInv
      <4> QED BY <4>1 DEF StepInv
    <3>1. CASE GiveUp
      BY <2>8, <2>r, <3>1 DEF Poll, GiveUp
    <3>2. CASE pc' \in {"wait", "fetch"} /\ UNCHANGED <<outcome, transcript>>
      BY <2>8, <2>s, <3>0, <3>2 DEF Poll
    <3>3. CASE Complete
      BY <2>8, <2>c, <3>0, <3>3 DEF Poll, Complete
    <3> QED BY <2>8, <3>1, <3>2, <3>3 DEF Poll
  <2>9. CASE PollFails
    BY <2>9, <2>r DEF PollFails, GiveUp
  <2>10. CASE Fetch
    <3>0. Sending /\ Len(pieces) = 1 /\ next = Len(pieces)
      <4>1. Sending /\ Len(pieces) = 1
        BY <2>10 DEF Fetch, Sending, TimelineInv
      <4> QED BY <4>1 DEF StepInv
    <3>1. CASE GiveUp
      BY <2>10, <2>r, <3>1 DEF Fetch, GiveUp
    <3>2. CASE Complete
      BY <2>10, <2>c, <3>0, <3>2 DEF Fetch, Complete
    <3> QED BY <2>10, <3>1, <3>2 DEF Fetch
  <2>u. ASSUME UNCHANGED <<pieces, next, transcript, length, upload, outcome, provider, pc>>
        PROVE  TimelineInv'
    BY <2>u DEF TimelineInv, Tiled, Covered, Sending, TimelineWhole, Placed
  <2>11. CASE Service
    BY <2>11, <2>u DEF Service
  <2>12. CASE UNCHANGED vars
    BY <2>12, <2>u DEF vars
  <2> QED BY <2>1, <2>2, <2>3, <2>4, <2>5, <2>6, <2>7, <2>8, <2>9, <2>10, <2>11, <2>12
          DEF Next, Program
<1>3. TimelineInv => TimelineWhole
  BY DEF TimelineInv
<1> QED BY <1>1, <1>2, <1>3, StepInvariant, PTL DEF Spec

-----------------------------------------------------------------------------
(* The input that each action brings. *)
LEMMA InputComes ==
    /\ Idle => input.of = "nothing"
    /\ AskService => input'.of = "request"
    /\ AnswerComes => input'.of = "answer"
    /\ CallFails => input'.of = "failure"
    /\ TrackerAnswers => input'.of = "board"
    /\ ItemsAreRead => input'.of = "items"
    /\ MeetingIsProcessed => input'.of = "meeting"
    /\ MinutesAreRead => input'.of = "minutes"
    /\ DocumentsAreAttached => input'.of = "documents"
<1>1. Idle => input.of = "nothing"
  BY DEF Idle
<1>2. AskService => input'.of = "request"
  BY DEF AskService
<1>3. AnswerComes => input'.of = "answer"
  BY DEF AnswerComes
<1>4. CallFails => input'.of = "failure"
  BY DEF CallFails
<1>5. TrackerAnswers => input'.of = "board"
  BY DEF TrackerAnswers
<1>6. ItemsAreRead => input'.of = "items"
  BY DEF ItemsAreRead
<1>7. MeetingIsProcessed => input'.of = "meeting"
  BY DEF MeetingIsProcessed
<1>8. MinutesAreRead => input'.of = "minutes"
  BY DEF MinutesAreRead
<1>9. DocumentsAreAttached => input'.of = "documents"
  BY DEF DocumentsAreAttached
<1> QED BY <1>1, <1>2, <1>3, <1>4, <1>5, <1>6, <1>7, <1>8, <1>9

-----------------------------------------------------------------------------
(* What a service is asked.                                                   *)

(* The options that go with a job: what the worker makes of them tells        *)
(* speakers apart only where the service can, and counts them only then.      *)
LEMMA JobMade ==
    ASSUME NEW service \in Speech!Services, NEW o \in Queued(service) \cup Older,
           NEW voiceid \in BOOLEAN, NEW people
    PROVE  LET j == Speech!Job(service, o, voiceid, people)
           IN /\ j.language = o.language
              /\ j.diarize \in BOOLEAN /\ j.enroll \in BOOLEAN
              /\ j.diarize => service \in Speech!Diarizing
              /\ j.enroll => j.diarize /\ service = "Speechmatics"
              /\ j.known = IF j.enroll THEN people ELSE {}
              /\ j.count \in {Speech!Counts[c] : c \in DOMAIN Speech!Counts}
              /\ j.count # Speech!Uncounted => j.diarize \/ o \in Older
<1> DEFINE j == Speech!Job(service, o, voiceid, people)
           asrOnly == o.asrOnly \/ service \notin Speech!Diarizing
           apart == o.diarize /\ ~asrOnly
           enroll == voiceid /\ service = "Speechmatics" /\ apart
<1>1. /\ o = [language |-> o.language, diarize |-> o.diarize, asrOnly |-> o.asrOnly, count |-> o.count,
             enroll |-> FALSE, known |-> {}]
      /\ o.diarize \in BOOLEAN /\ o.asrOnly \in BOOLEAN
      /\ o.count \in {Speech!Counts[c] : c \in DOMAIN Speech!Counts}
      /\ o \in Older \/ (o.diarize = ~o.asrOnly /\ (o.count # Speech!Uncounted => o.diarize))
      /\ Speech!Uncounted \in {Speech!Counts[c] : c \in DOMAIN Speech!Counts}
  <2>0. Speech!Uncounted \in {Speech!Counts[c] : c \in DOMAIN Speech!Counts}
    BY DEF Speech!Uncounted, Speech!Counts
  <2>1. CASE o \in Older
    BY <2>0, <2>1 DEF Older
  <2>2. CASE o \in Queued(service)
    <3>1. PICK l \in Languages, d \in BOOLEAN, c \in DOMAIN Speech!Counts : o = Speech!Options(service, l, d, c)
      BY <2>2 DEF Queued
    <3>2. (d /\ service \in Speech!Diarizing) \in BOOLEAN
      OBVIOUS
    <3> QED BY <2>0, <3>1, <3>2 DEF Speech!Options
  <2> QED BY <2>1, <2>2
<1>2. \A f : f \in {"language", "diarize", "asrOnly", "count", "enroll", "known"} => f \in DOMAIN o
  BY <1>1
<1>3. /\ j.language = o.language /\ j.diarize = apart
      /\ j.count = IF asrOnly THEN Speech!Uncounted ELSE o.count
      /\ j.enroll = enroll /\ j.known = IF enroll THEN people ELSE {}
  <2> DEFINE o1 == [o EXCEPT !.diarize = apart, !.count = IF asrOnly THEN Speech!Uncounted ELSE @]
  <2>1. /\ o1.language = o.language /\ o1.diarize = apart
        /\ o1.count = IF asrOnly THEN Speech!Uncounted ELSE o.count
        /\ DOMAIN o1 = DOMAIN o
    <3> HIDE DEF apart, asrOnly
    <3> QED BY <1>2
  <2>2. j = Speech!Enrolled(o1, enroll, people)
    BY DEF Speech!Job
  <2> HIDE DEF o1, j, apart, asrOnly, enroll
  <2> QED BY <1>2, <2>1, <2>2 DEF Speech!Enrolled
<1>4. apart \in BOOLEAN /\ enroll \in BOOLEAN /\ asrOnly \in BOOLEAN
  BY <1>1
<1>5. j.count # Speech!Uncounted => j.diarize \/ o \in Older
  BY <1>1, <1>3, <1>4
<1> QED BY <1>1, <1>3, <1>4, <1>5

(* What each service is asked of such options. *)
LEMMA AskedHonest ==
    ASSUME NEW service \in Speech!Services, NEW j,
           j.diarize \in BOOLEAN, j.enroll \in BOOLEAN,
           j.diarize => service \in Speech!Diarizing,
           j.enroll => j.diarize /\ service = "Speechmatics",
           j.known = {} \/ j.enroll,
           j.count \in {Speech!Counts[c] : c \in DOMAIN Speech!Counts},
           j.language = Speech!Mixed => service \in Speech!Mixing
    PROVE  LET asked == Speech!Asked(service, j)
           IN /\ asked.language.named # Speech!Mixed
              /\ asked.language.named # Speech!None => asked.language.named = j.language
              /\ asked.apart = j.diarize
              /\ asked.count # Speech!Uncounted => j.count # Speech!Uncounted
              /\ asked.voices = j.known
<1> DEFINE asked == Speech!Asked(service, j)
<1>1. /\ Speech!Uncounted = [num |-> 0, least |-> 0]
      /\ j.count = [num |-> j.count.num, least |-> j.count.least]
  BY DEF Speech!Counts, Speech!Uncounted
<1>2. /\ Speech!AmongTrio(j.language).named # Speech!Mixed
      /\ Speech!AmongTrio(j.language).named # Speech!None => Speech!AmongTrio(j.language).named = j.language
  BY DEF Speech!AmongTrio, Speech!Detect, Speech!Named, Speech!None, Speech!Mixed
<1>3. CASE service = "Groq"
  <2>1. asked = Speech!GroqAsks(j)
    BY <1>3 DEF Speech!Asked
  <2>2. asked = [language |-> IF j.language \in {Speech!None, Speech!Mixed} THEN Speech!Detect
                              ELSE Speech!Named(j.language),
                 count |-> Speech!Uncounted, apart |-> FALSE, voices |-> {}]
    BY <2>1 DEF Speech!GroqAsks, Speech!Plain
  <2>3. ~j.diarize /\ ~j.enroll
    BY <1>3 DEF Speech!Diarizing
  <2> HIDE DEF asked
  <2>4. /\ asked.language = IF j.language \in {Speech!None, Speech!Mixed} THEN Speech!Detect
                            ELSE Speech!Named(j.language)
        /\ asked.count = Speech!Uncounted /\ asked.apart = FALSE /\ asked.voices = {}
    BY <2>2
  <2>5. /\ asked.language.named # Speech!Mixed
        /\ asked.language.named # Speech!None => asked.language.named = j.language
    BY <2>4 DEF Speech!Detect, Speech!Named, Speech!None, Speech!Mixed
  <2>6. asked.apart = j.diarize /\ asked.voices = j.known
    BY <2>3, <2>4
  <2> USE DEF asked
  <2> QED BY <2>4, <2>5, <2>6
<1>4. CASE service = "Deepgram"
  <2>1. asked = Speech!DeepgramAsks(j)
    BY <1>4 DEF Speech!Asked
  <2> QED BY <1>1, <1>2, <1>4, <2>1 DEF Speech!DeepgramAsks, Speech!Plain, Speech!Detect, Speech!Named, Speech!None,
                                        Speech!Mixed, Speech!Mixing, Speech!Services
<1>5. CASE service = "AssemblyAI"
  <2>1. asked = Speech!AssemblyAIAsks(j)
    BY <1>5 DEF Speech!Asked
  <2> QED BY <1>1, <1>2, <1>5, <2>1 DEF Speech!AssemblyAIAsks, Speech!Plain
<1>6. CASE service = "Gladia"
  <2>1. asked = Speech!GladiaAsks(j)
    BY <1>6 DEF Speech!Asked
  <2> QED BY <1>1, <1>2, <1>6, <2>1 DEF Speech!GladiaAsks, Speech!Plain
<1>7. CASE service = "Speechmatics"
  <2>1. asked = Speech!SpeechmaticsAsks(j)
    BY <1>7 DEF Speech!Asked
  <2> QED BY <1>1, <1>2, <1>7, <2>1 DEF Speech!SpeechmaticsAsks, Speech!Plain
<1> QED BY <1>3, <1>4, <1>5, <1>6, <1>7 DEF Speech!Services, Speech!Polled

(* Before the upload: a length that either reader can tell is enough for the limits. *)
LimitsTold(service, header, ffmpeg, size) ==
    LET told == {header, ffmpeg} \ {Speech!Unknown}
        measured == Speech!Duration(header, ffmpeg)
        Above(minutes) == told # {} /\ \A t \in told : t > minutes
        Under(minutes) == \A t \in told : t <= minutes
    IN /\ Above(45) => ~Speech!Denoised(measured, TRUE)
       /\ Under(45) => Speech!Denoised(measured, TRUE)
       /\ Above(135) /\ service = "Gladia" => ~Speech!WithinLimits(service, measured, size)
       /\ Under(135) /\ size < 3 => Speech!WithinLimits(service, measured, size)
       /\ told # {} /\ service # "Groq" => Speech!Cost(service, measured) # Speech!Unknown

(* Duration takes the header first and ffmpeg when it has none. *)
LEMMA LengthsTold ==
    ASSUME SpeechAssumption,
           NEW service \in Speech!Services, NEW size \in Sizes,
           NEW header \in Lengths \cup {Speech!Unknown}, NEW ffmpeg \in Lengths \cup {Speech!Unknown}
    PROVE  LimitsTold(service, header, ffmpeg, size)
<1> DEFINE told == {header, ffmpeg} \ {Speech!Unknown}
           len == Speech!Duration(header, ffmpeg)
<1>1. \/ told = {} /\ len = -1
      \/ len \in told /\ len \in Nat
  BY SpeechAssumption DEF Speech!Duration, Speech!Unknown
<1>2. size \in Nat
  BY SpeechAssumption
<1>3. told # {} /\ service # "Groq" => Speech!Cost(service, len) # -1
  <2> SUFFICES ASSUME told # {}, service # "Groq" PROVE Speech!Cost(service, len) # -1
    OBVIOUS
  <2>1. len \in Nat
    BY <1>1
  <2>2. service \in DOMAIN Speech!Cents /\ Speech!Cents[service] \in Nat
    BY DEF Speech!Cents, Speech!Services, Speech!Polled
  <2>3. Speech!Cost(service, len) = Speech!Cents[service] * len
    BY <2>1, <2>2 DEF Speech!Cost, Speech!Unknown
  <2>4. \A a, b \in Nat : a * b \in Nat
    OBVIOUS
  <2> QED BY <2>1, <2>2, <2>3, <2>4
<1> HIDE DEF told, len
<1>4. /\ told # {} /\ (\A t \in told : t > 45) => ~Speech!Denoised(len, TRUE)
      /\ (\A t \in told : t <= 45) => Speech!Denoised(len, TRUE)
      /\ told # {} /\ (\A t \in told : t > 135) /\ service = "Gladia" => ~Speech!WithinLimits(service, len, size)
      /\ (\A t \in told : t <= 135) /\ size < 3 => Speech!WithinLimits(service, len, size)
  BY <1>1, <1>2 DEF Speech!Denoised, Speech!WithinLimits, Speech!Unknown
<1> USE DEF told, len
<1> QED BY <1>3, <1>4 DEF LimitsTold, Speech!Unknown

(* A question is asked honestly, whatever the job and the file. *)
LEMMA AskedRight ==
    ASSUME SpeechAssumption, AskService
    PROVE  RequestHonest'
<1>0. PICK service \in Speech!Services, voiceid \in BOOLEAN, people \in SUBSET People :
        \E o \in Queued(service) \cup Older, header, ffmpeg \in Lengths \cup {Speech!Unknown}, size \in Sizes :
          input' = [of |-> "request", service |-> service, options |-> o, voiceid |-> voiceid, people |-> people,
                    header |-> header, ffmpeg |-> ffmpeg, size |-> size]
  BY DEF AskService
<1>1. PICK o \in Queued(service) \cup Older, header \in Lengths \cup {Speech!Unknown},
           ffmpeg \in Lengths \cup {Speech!Unknown}, size \in Sizes :
        input' = [of |-> "request", service |-> service, options |-> o, voiceid |-> voiceid, people |-> people,
                  header |-> header, ffmpeg |-> ffmpeg, size |-> size]
  BY <1>0
<1> DEFINE j == Speech!Job(service, o, voiceid, people)
           asked == Speech!Asked(service, j)
<1>2. /\ j.language = o.language
      /\ j.diarize \in BOOLEAN /\ j.enroll \in BOOLEAN
      /\ j.diarize => service \in Speech!Diarizing
      /\ j.enroll => j.diarize /\ service = "Speechmatics"
      /\ j.known = IF j.enroll THEN people ELSE {}
      /\ j.count \in {Speech!Counts[c] : c \in DOMAIN Speech!Counts}
      /\ j.count # Speech!Uncounted => j.diarize \/ o \in Older
  BY JobMade
<1>3. /\ input'.of = "request" /\ input'.service = service /\ input'.options = o /\ input'.voiceid = voiceid
      /\ input'.people = people /\ input'.header = header /\ input'.ffmpeg = ffmpeg /\ input'.size = size
  BY <1>1
<1> HIDE DEF j
<1>4. CASE j.language = Speech!Mixed /\ service \notin Speech!Mixing
  <2>1. Speech!Refused(service, j)
    BY <1>4 DEF Speech!Refused
  <2> QED BY <1>3, <1>4, <2>1 DEF RequestHonest, j
<1>5. CASE ~(j.language = Speech!Mixed /\ service \notin Speech!Mixing)
  <2>1. ~Speech!Refused(service, j)
    BY <1>2, <1>5 DEF Speech!Refused
  <2>2. /\ asked.language.named # Speech!Mixed
        /\ asked.language.named # Speech!None => asked.language.named = j.language
        /\ asked.apart = j.diarize
        /\ asked.count # Speech!Uncounted => j.count # Speech!Uncounted
        /\ asked.voices = j.known
    BY <1>2, <1>5, AskedHonest
  <2> HIDE DEF asked
  <2>3. /\ asked.apart => service \in Speech!Diarizing
        /\ asked.count # Speech!Uncounted => asked.apart \/ o \in Older
        /\ asked.voices # {} => asked.apart /\ asked.voices = people
    BY <1>2, <2>2
  <2> USE DEF j, asked
  <2>4. LimitsTold(service, header, ffmpeg, size)
    BY LengthsTold
  <2> QED BY <1>2, <1>3, <2>1, <2>2, <2>3, <2>4 DEF RequestHonest, LimitsTold
<1> QED BY <1>4, <1>5

(* A service is asked only what it can do, of a recording it takes, however   *)
(* old the options of the job are: for any languages, people, lengths and     *)
(* sizes. *)
THEOREM RequestsAreHonest == ServiceSpec => []RequestHonest
<1>1. Idle => RequestHonest
  BY InputComes DEF RequestHonest
<1>2. RequestHonest /\ [SomethingComes]_input => RequestHonest'
  <2> SUFFICES ASSUME RequestHonest, [SomethingComes]_input PROVE RequestHonest'
    OBVIOUS
  <2>1. CASE AskService
    BY <2>1, SpeechAssumption, AskedRight
  <2>2. CASE input'.of # "request"
    BY <2>2 DEF RequestHonest
  <2>3. CASE UNCHANGED input
    BY <2>3 DEF RequestHonest
  <2> QED BY <2>1, <2>2, <2>3, InputComes DEF SomethingComes
<1> QED BY <1>1, <1>2, PTL DEF ServiceSpec

-----------------------------------------------------------------------------
(* The walk of the words of an answer.                                        *)

(* Segments of the speakers U, what was walked of words, and the step of Walk at position i. *)
Segments(U) == [toks : Seq(Nat), speaker : U]
Walked(U) == [out : Seq(Segments(U)), toks : Seq(Nat), speaker : U]
Stepped(service, words, diarize, a, i) ==
    IF words[i].blank THEN a
    ELSE IF service = "Speechmatics" THEN Speech!Item(a, words[i], i, diarize)
    ELSE Speech!Spoken(a, words[i], i, diarize)

(* What is written and what is being built stay sequences of positions. *)
LEMMA FlushedTyped ==
    ASSUME NEW U, NEW a \in Walked(U)
    PROVE  /\ Speech!Flushed(a) \in Walked(U)
           /\ Speech!Flushed(a).speaker = a.speaker
           /\ Speech!Flushed(a).toks = <<>>
           /\ Speech!Flushed(a).out =
                IF a.toks = <<>> THEN a.out ELSE Append(a.out, [toks |-> a.toks, speaker |-> a.speaker])
<1>1. CASE a.toks = <<>>
  BY <1>1 DEF Speech!Flushed, Walked
<1>2. CASE a.toks # <<>>
  <2> DEFINE s == [toks |-> a.toks, speaker |-> a.speaker]
             o == Append(a.out, s)
  <2>1. s \in Segments(U)
    BY DEF Walked, Segments
  <2>2. o \in Seq(Segments(U))
    BY <2>1 DEF Walked
  <2>3. Speech!Flushed(a) = [a EXCEPT !.out = o, !.toks = <<>>]
    BY <1>2 DEF Speech!Flushed
  <2> HIDE DEF o
  <2>4. <<>> \in Seq(Nat)
    OBVIOUS
  <2>5. /\ Speech!Flushed(a).out = o /\ Speech!Flushed(a).toks = <<>>
        /\ Speech!Flushed(a).speaker = a.speaker /\ Speech!Flushed(a) \in Walked(U)
    BY <2>2, <2>3, <2>4 DEF Walked
  <2> QED BY <1>2, <2>5 DEF o
<1> QED BY <1>1, <1>2

(* So does a word more. *)
LEMMA JoinedTyped ==
    ASSUME NEW U, NEW a \in Walked(U), NEW i \in Nat, NEW speaker \in U
    PROVE  /\ Speech!Joined(a, i, speaker) \in Walked(U)
           /\ Speech!Joined(a, i, speaker).out = a.out
           /\ Speech!Joined(a, i, speaker).toks = Append(a.toks, i)
           /\ Speech!Joined(a, i, speaker).speaker = IF a.toks = <<>> THEN speaker ELSE a.speaker
<1>1. Append(a.toks, i) \in Seq(Nat)
  BY DEF Walked
<1>2. (IF a.toks = <<>> THEN speaker ELSE a.speaker) \in U
  BY DEF Walked
<1> QED BY <1>1, <1>2 DEF Speech!Joined, Walked

(* A word takes what was walked to what was walked. *)
LEMMA SteppedTyped ==
    ASSUME NEW U, Speech!None \in U, NEW service, NEW words, NEW diarize, NEW i \in Nat,
           words[i].speaker \in U, NEW a \in Walked(U)
    PROVE  Stepped(service, words, diarize, a, i) \in Walked(U)
<1> DEFINE w == words[i]
<1>1. Speech!Spoken(a, w, i, diarize) \in Walked(U)
  <2> DEFINE b == IF diarize /\ w.speaker # a.speaker THEN Speech!Flushed(a) ELSE a
             c == Speech!Joined(b, i, w.speaker)
  <2>1. b \in Walked(U)
    BY FlushedTyped
  <2>2. c \in Walked(U)
    <3> HIDE DEF b
    <3> QED BY <2>1, JoinedTyped
  <2>3. Speech!Spoken(a, w, i, diarize) = IF w.ends THEN Speech!Flushed(c) ELSE c
    BY DEF Speech!Spoken
  <2> HIDE DEF c
  <2> QED BY <2>2, <2>3, FlushedTyped
<1>2. Speech!Item(a, w, i, diarize) \in Walked(U)
  <2>1. CASE w.mark
    <3> DEFINE b == IF a.toks = <<>> THEN a ELSE Speech!Joined(a, i, Speech!None)
    <3>1. b \in Walked(U)
      BY JoinedTyped
    <3>2. Speech!Item(a, w, i, diarize) = IF w.ends THEN Speech!Flushed(b) ELSE b
      BY <2>1 DEF Speech!Item
    <3> HIDE DEF b
    <3> QED BY <3>1, <3>2, FlushedTyped
  <2>2. CASE ~w.mark
    <3> DEFINE b == IF diarize /\ w.speaker \notin {Speech!None, a.speaker} THEN Speech!Flushed(a) ELSE a
    <3>1. b \in Walked(U)
      BY FlushedTyped
    <3>2. Speech!Item(a, w, i, diarize) = Speech!Joined(b, i, w.speaker)
      BY <2>2 DEF Speech!Item
    <3> HIDE DEF b
    <3> QED BY <3>1, <3>2, JoinedTyped
  <2> QED BY <2>1, <2>2
<1> QED BY <1>1, <1>2 DEF Stepped

(* The walk goes through the words one after the other. *)
HasWalk(U, service, words, diarize, n) ==
    \E h \in [0 .. n -> Walked(U)] :
      /\ h[0] = Speech!Started
      /\ \A k \in 1 .. n : h[k] = Stepped(service, words, diarize, h[k - 1], k)
      /\ Speech!Walk(service, words, diarize) = Speech!Flushed(h[n]).out

(* The fold that Walk is defined by is such a walk. *)
LEMMA WalkRuns ==
    ASSUME NEW U, Speech!None \in U, NEW service, NEW diarize,
           NEW n \in Nat, NEW words, DOMAIN words = 1 .. n, \A i \in 1 .. n : words[i].speaker \in U
    PROVE  HasWalk(U, service, words, diarize, n)
<1> DEFINE A == Walked(U)
           w == [i \in DOMAIN words |-> i]
           st == [p \in A \X (1 .. n) |-> Stepped(service, words, diarize, p[1], p[2])]
           Eq(g) == g = [s \in SUBSET DOMAIN w |->
                           IF s = {} THEN Speech!Started
                           ELSE Stepped(service, words, diarize, g[s \ {Max(s)}], w[Max(s)])]
           it == CHOOSE g : Eq(g)
<1>1. Speech!Started \in A
  BY DEF Speech!Started, Walked
<1>2. st \in [A \X (1 .. n) -> A]
  <2>1. \A p \in A \X (1 .. n) : Stepped(service, words, diarize, p[1], p[2]) \in A
    BY SteppedTyped
  <2> QED BY <2>1
<1>3. PICK g0 \in [SUBSET (1 .. n) -> A] : Folded(st, Speech!Started, g0, n)
  <2> HIDE DEF st, A
  <2>1. HasFold(st, Speech!Started, A, n)
    BY <1>1, <1>2, FoldExists
  <2> QED BY <2>1 DEF HasFold
<1>4. DOMAIN w = 1 .. n /\ \A k \in 1 .. n : w[k] = k
  OBVIOUS
<1>5. ASSUME NEW s \in SUBSET (1 .. n), s # {}
      PROVE  Max(s) \in 1 .. n /\ s \ {Max(s)} \in SUBSET (1 .. n)
  BY <1>5, TopOf
<1>6. Eq(g0)
  <2>1. ASSUME NEW s \in SUBSET (1 .. n)
        PROVE  g0[s] = IF s = {} THEN Speech!Started
                       ELSE Stepped(service, words, diarize, g0[s \ {Max(s)}], w[Max(s)])
    <3>1. CASE s = {}
      BY <1>3, <3>1 DEF Folded
    <3>2. CASE s # {}
      <4> DEFINE m == Max(s)
      <4>1. m \in 1 .. n /\ s \ {m} \in SUBSET (1 .. n) /\ w[m] = m
        BY <1>4, <1>5, <3>2
      <4>2. g0[s] = st[<<g0[s \ {m}], m>>]
        BY <1>3, <3>2 DEF Folded
      <4>3. g0[s \ {m}] \in A
        BY <4>1
      <4> HIDE DEF m, A, w
      <4>4. st[<<g0[s \ {m}], m>>] = Stepped(service, words, diarize, g0[s \ {m}], m)
        BY <4>1, <4>3
      <4> HIDE DEF st
      <4>5. g0[s] = Stepped(service, words, diarize, g0[s \ {m}], w[m])
        BY <4>1, <4>2, <4>4
      <4> QED BY <3>2, <4>5 DEF m
    <3> QED BY <3>1, <3>2
  <2> HIDE DEF w
  <2> QED BY <1>4, <2>1
<1>7. Eq(it)
  <2> HIDE DEF Eq
  <2> QED BY <1>6
<1>8. Speech!Walk(service, words, diarize) = Speech!Flushed(it[DOMAIN w]).out
  BY DEF Speech!Walk, Speech!FoldLeftDomain, Speech!FoldLeft, Speech!MapThenFoldSet, Speech!Max, Max, Stepped
<1>9. FoldsAlong(it, st, Speech!Started, A, n)
  <2>1. \A s \in SUBSET (1 .. n) :
          it[s] = IF s = {} THEN Speech!Started
                  ELSE Stepped(service, words, diarize, it[s \ {Max(s)}], w[Max(s)])
    <3> HIDE DEF w, it
    <3> QED BY <1>4, <1>7
  <2> HIDE DEF it, A
  <2>2. it[{}] = Speech!Started
    BY <2>1
  <2>3. ASSUME NEW s \in SUBSET (1 .. n), s # {}, it[s \ {Max(s)}] \in A
        PROVE  it[s] = st[<<it[s \ {Max(s)}], Max(s)>>]
    BY <1>4, <1>5, <2>1, <2>3
  <2> HIDE DEF st
  <2> QED BY <2>2, <2>3 DEF FoldsAlong
<1> HIDE DEF it, w, A
<1>10. PICK h \in [0 .. n -> A] :
         /\ h[0] = Speech!Started /\ h[n] = it[1 .. n]
         /\ \A k \in 1 .. n : h[k] = st[<<h[k - 1], k>>]
  <2> HIDE DEF st
  <2>1. HasRun(st, Speech!Started, A, n, it[1 .. n])
    BY <1>1, <1>2, <1>9, FoldRun
  <2> QED BY <2>1 DEF HasRun
<1>11. ASSUME NEW k \in 1 .. n PROVE h[k] = Stepped(service, words, diarize, h[k - 1], k)
  <2>1. h[k - 1] \in A
    OBVIOUS
  <2> QED BY <1>10, <2>1
<1>12. Speech!Walk(service, words, diarize) = Speech!Flushed(h[n]).out
  BY <1>4, <1>8, <1>10
<1> QED BY <1>10, <1>11, <1>12 DEF A, HasWalk

(* What was walked so far, and how it must be laid out: everything in order, and every word
   that names somebody in a segment of that speaker. *)
Content(a) == Held(a.out) \cup ToSet(a.toks)
VoiceOf(words, toks, speaker) ==
    \A i \in ToSet(toks) \ {0} : words[i].speaker # Speech!None /\ ~words[i].mark => speaker = words[i].speaker
Laid(words, diarize, segs) ==
    /\ InOrder(segs)
    /\ diarize => \A s \in DOMAIN segs : VoiceOf(words, segs[s].toks, segs[s].speaker)
Building(words, diarize, a) ==
    /\ Laid(words, diarize, a.out)
    /\ \A p, q \in DOMAIN a.toks : p < q => a.toks[p] < a.toks[q]
    /\ \A i \in Held(a.out), j \in ToSet(a.toks) : i < j
    /\ diarize => VoiceOf(words, a.toks, a.speaker)

(* A segment of one speaker that comes after these. *)
Follows(words, diarize, segs, s) ==
    /\ \A p, q \in DOMAIN s.toks : p < q => s.toks[p] < s.toks[q]
    /\ \A i \in Held(segs), j \in ToSet(s.toks) : i < j
    /\ diarize => VoiceOf(words, s.toks, s.speaker)

(* A segment more holds what the others held and its own. *)
LEMMA HeldAppend ==
    ASSUME NEW U, NEW segs \in Seq(Segments(U)), NEW s \in Segments(U)
    PROVE  Held(Append(segs, s)) = Held(segs) \cup ToSet(s.toks)
<1> DEFINE o == Append(segs, s)
           n == Len(segs)
<1>1. /\ n \in Nat /\ DOMAIN segs = 1 .. n /\ DOMAIN o = 1 .. n + 1
      /\ \A k \in 1 .. n : o[k] = segs[k]
      /\ o[n + 1] = s
  OBVIOUS
<1> HIDE DEF o, n
<1>2. Held(o) = Held(segs) \cup ToSet(s.toks)
  <2>1. ASSUME NEW x \in Held(o) PROVE x \in Held(segs) \cup ToSet(s.toks)
    <3>1. PICK k \in 1 .. n + 1 : x \in ToSet(o[k].toks)
      BY <1>1 DEF Held
    <3>2. CASE k = n + 1
      BY <1>1, <3>1, <3>2
    <3>3. CASE k # n + 1
      <4>1. k \in 1 .. n
        BY <1>1, <3>3
      <4> QED BY <1>1, <3>1, <4>1 DEF Held
    <3> QED BY <3>2, <3>3
  <2>2. ASSUME NEW x \in Held(segs) PROVE x \in Held(o)
    <3>1. PICK k \in 1 .. n : x \in ToSet(segs[k].toks)
      BY <1>1 DEF Held
    <3>2. k \in 1 .. n + 1 /\ o[k] = segs[k]
      BY <1>1
    <3> QED BY <1>1, <3>1, <3>2 DEF Held
  <2>3. ToSet(s.toks) \subseteq Held(o)
    <3>1. n + 1 \in 1 .. n + 1
      BY <1>1
    <3> QED BY <1>1, <3>1 DEF Held
  <2> QED BY <2>1, <2>2, <2>3
<1> QED BY <1>2 DEF o

(* Segments stay in order, each of one speaker, when a segment of one speaker comes after them. *)
LEMMA AppendKeeps ==
    ASSUME NEW U, NEW words, NEW diarize, NEW segs \in Seq(Segments(U)), NEW s \in Segments(U),
           Laid(words, diarize, segs), Follows(words, diarize, segs, s)
    PROVE  /\ Laid(words, diarize, Append(segs, s))
           /\ Held(Append(segs, s)) = Held(segs) \cup ToSet(s.toks)
<1> DEFINE o == Append(segs, s)
           n == Len(segs)
<1>1. /\ n \in Nat /\ DOMAIN segs = 1 .. n /\ DOMAIN o = 1 .. n + 1
      /\ \A k \in 1 .. n : o[k] = segs[k]
      /\ o[n + 1] = s
  OBVIOUS
<1> HIDE DEF o, n
<1>2. InOrder(o)
  <2> SUFFICES ASSUME NEW t \in 1 .. n + 1, NEW v \in 1 .. n + 1,
                      NEW p \in DOMAIN o[t].toks, NEW q \in DOMAIN o[v].toks,
                      t < v \/ (t = v /\ p < q)
               PROVE  o[t].toks[p] < o[v].toks[q]
    BY <1>1 DEF InOrder
  <2>1. CASE v # n + 1
    <3>1. t \in 1 .. n /\ v \in 1 .. n
      BY <1>1, <2>1
    <3> QED BY <1>1, <3>1 DEF InOrder, Laid
  <2>2. CASE v = n + 1 /\ t = n + 1
    <3>1. p < q
      BY <1>1, <2>2
    <3> QED BY <1>1, <2>2, <3>1 DEF Follows
  <2>3. CASE v = n + 1 /\ t # n + 1
    <3>1. t \in 1 .. n
      BY <1>1, <2>3
    <3>2. o[t].toks[p] \in Held(segs)
      BY <1>1, <3>1 DEF Held, ToSet
    <3>3. o[v].toks[q] \in ToSet(s.toks)
      BY <1>1, <2>3 DEF ToSet
    <3> QED BY <3>2, <3>3 DEF Follows
  <2> QED BY <2>1, <2>2, <2>3
<1>3. ASSUME diarize, NEW k \in 1 .. n + 1 PROVE VoiceOf(words, o[k].toks, o[k].speaker)
  <2>1. CASE k = n + 1
    BY <1>1, <1>3, <2>1 DEF Follows
  <2>2. CASE k # n + 1
    <3>1. k \in 1 .. n
      BY <1>1, <2>2
    <3> QED BY <1>1, <1>3, <3>1 DEF Laid
  <2> QED BY <2>1, <2>2
<1>4. Laid(words, diarize, o)
  BY <1>1, <1>2, <1>3 DEF Laid
<1> QED BY <1>4, HeldAppend DEF o

(* Writing the segment that is being built keeps what was walked as it must be. *)
LEMMA FlushKeeps ==
    ASSUME NEW U, NEW words, NEW diarize, NEW a \in Walked(U), Building(words, diarize, a)
    PROVE  LET b == Speech!Flushed(a)
           IN Building(words, diarize, b) /\ Content(b) = Content(a) /\ b.toks = <<>>
<1> DEFINE b == Speech!Flushed(a)
<1>0. ToSet(<<>>) = {} /\ DOMAIN <<>> = {}
  BY DEF ToSet
<1>1. CASE a.toks = <<>>
  <2>1. b = a
    BY <1>1 DEF Speech!Flushed
  <2> QED BY <1>1, <2>1
<1>2. CASE a.toks # <<>>
  <2> DEFINE s == [toks |-> a.toks, speaker |-> a.speaker]
  <2>1. s \in Segments(U) /\ a.out \in Seq(Segments(U)) /\ s.toks = a.toks /\ s.speaker = a.speaker
    BY DEF Walked, Segments
  <2>2. b.out = Append(a.out, s) /\ b.toks = <<>> /\ b.speaker = a.speaker
    BY <1>2, FlushedTyped
  <2> HIDE DEF b, s
  <2>3. Laid(words, diarize, b.out) /\ Held(b.out) = Held(a.out) \cup ToSet(a.toks)
    BY <2>1, <2>2, AppendKeeps DEF Building, Follows
  <2>4. VoiceOf(words, b.toks, b.speaker)
    BY <1>0, <2>2 DEF VoiceOf
  <2>5. Building(words, diarize, b)
    BY <1>0, <2>2, <2>3, <2>4 DEF Building
  <2>6. Content(b) = Content(a)
    BY <1>0, <2>2, <2>3 DEF Content
  <2> QED BY <2>2, <2>5, <2>6 DEF b
<1> QED BY <1>1, <1>2

(* So does a word that comes after all of it, in a segment of its speaker. *)
LEMMA JoinKeeps ==
    ASSUME NEW U, NEW words, NEW diarize, NEW a \in Walked(U), Building(words, diarize, a),
           NEW i \in Nat, NEW speaker \in U, \A j \in Content(a) : j < i,
           diarize /\ words[i].speaker # Speech!None /\ ~words[i].mark
             => words[i].speaker = IF a.toks = <<>> THEN speaker ELSE a.speaker
    PROVE  LET b == Speech!Joined(a, i, speaker)
           IN Building(words, diarize, b) /\ Content(b) = Content(a) \cup {i} /\ b.toks # <<>>
<1> DEFINE b == Speech!Joined(a, i, speaker)
           n == Len(a.toks)
<1>1. /\ b.out = a.out /\ b.toks = Append(a.toks, i)
      /\ b.speaker = IF a.toks = <<>> THEN speaker ELSE a.speaker
  BY SMTT(30), JoinedTyped
<1>2. a.toks \in Seq(Nat)
  BY DEF Walked
<1> HIDE DEF b
<1>3. /\ n \in Nat /\ DOMAIN a.toks = 1 .. n /\ DOMAIN b.toks = 1 .. n + 1
      /\ \A k \in 1 .. n : b.toks[k] = a.toks[k]
      /\ b.toks[n + 1] = i
      /\ b.toks # <<>>
      /\ a.toks = <<>> <=> n = 0
  <2>1. DOMAIN a.toks = 1 .. n /\ n \in Nat /\ (a.toks = <<>> <=> n = 0)
    BY <1>2
  <2>2. /\ DOMAIN b.toks = 1 .. n + 1 /\ b.toks[n + 1] = i
        /\ \A k \in 1 .. n : b.toks[k] = a.toks[k]
    BY <1>1, <1>2
  <2>3. n + 1 \in DOMAIN b.toks
    BY <2>1, <2>2
  <2>4. b.toks # <<>>
    BY <2>3
  <2> QED BY <2>1, <2>2, <2>4
<1> HIDE DEF n
<1>4. ToSet(b.toks) = ToSet(a.toks) \cup {i}
  <2>1. ASSUME NEW x \in ToSet(b.toks) PROVE x \in ToSet(a.toks) \cup {i}
    <3>1. PICK k \in 1 .. n + 1 : x = b.toks[k]
      BY <1>3 DEF ToSet
    <3>2. CASE k = n + 1
      BY <1>3, <3>1, <3>2
    <3>3. CASE k # n + 1
      <4>1. k \in 1 .. n
        BY <1>3, <3>3
      <4> QED BY <1>3, <3>1, <4>1 DEF ToSet
    <3> QED BY <3>2, <3>3
  <2>2. ASSUME NEW x \in ToSet(a.toks) PROVE x \in ToSet(b.toks)
    <3>1. PICK k \in 1 .. n : x = a.toks[k]
      BY <1>3 DEF ToSet
    <3>2. k \in 1 .. n + 1
      BY <1>3
    <3> QED BY <1>3, <3>1, <3>2 DEF ToSet
  <2>3. i \in ToSet(b.toks)
    <3>1. n + 1 \in 1 .. n + 1
      BY <1>3
    <3> QED BY <1>3, <3>1 DEF ToSet
  <2> QED BY <2>1, <2>2, <2>3
<1>5. Content(b) = Content(a) \cup {i}
  BY <1>1, <1>4 DEF Content
<1>6. \A p, q \in DOMAIN b.toks : p < q => b.toks[p] < b.toks[q]
  <2> SUFFICES ASSUME NEW p \in 1 .. n + 1, NEW q \in 1 .. n + 1, p < q
               PROVE  b.toks[p] < b.toks[q]
    BY <1>3
  <2>1. p \in 1 .. n
    BY <1>3
  <2>2. a.toks[p] \in Content(a)
    BY <1>3, <2>1 DEF Content, ToSet
  <2>3. CASE q = n + 1
    BY <1>3, <2>1, <2>2, <2>3
  <2>4. CASE q # n + 1
    <3>1. q \in 1 .. n
      BY <1>3, <2>4
    <3> QED BY <1>3, <2>1, <3>1 DEF Building
  <2> QED BY <2>3, <2>4
<1>7. \A x \in Held(b.out), j \in ToSet(b.toks) : x < j
  BY <1>1, <1>4 DEF Building, Content
<1>8. ASSUME diarize PROVE VoiceOf(words, b.toks, b.speaker)
  <2> SUFFICES ASSUME NEW x \in ToSet(b.toks) \ {0}, words[x].speaker # Speech!None, ~words[x].mark
               PROVE  b.speaker = words[x].speaker
    BY DEF VoiceOf
  <2>1. CASE x = i
    BY <1>1, <1>8, <2>1
  <2>2. CASE x # i
    <3>1. x \in ToSet(a.toks)
      BY <1>4, <2>2
    <3>2. a.toks # <<>>
      BY <3>1 DEF ToSet
    <3>3. a.speaker = words[x].speaker
      BY <1>8, <3>1 DEF Building, VoiceOf
    <3> QED BY <1>1, <3>2, <3>3
  <2> QED BY <2>1, <2>2
<1>9. Building(words, diarize, b)
  BY <1>1, <1>6, <1>7, <1>8 DEF Building
<1> QED BY <1>3, <1>5, <1>9 DEF b

(* Nothing yet in the sentence after the first k items that a mark could be glued to. *)
Lead(words, k) ==
    LET before == {j \in 1 .. k : ~words[j].blank}
    IN \A j \in before : words[j].mark \/ \E m \in before : m >= j /\ words[m].mark /\ words[m].ends

(* The first k items that go anywhere. *)
SaidUpTo(words, k) == {i \in 1 .. k : ~words[i].blank /\ ~Speech!Leading(words, i)}

(* A sequence of n items with the speakers U. *)
Items(words, n, U) ==
    /\ DOMAIN words = 1 .. n
    /\ \A i \in 1 .. n : /\ words[i].blank \in BOOLEAN /\ words[i].mark \in BOOLEAN /\ words[i].ends \in BOOLEAN
                         /\ words[i].speaker \in U

(* What holds after the first k items. *)
WalkInv(service, words, diarize, a, k) ==
    /\ Building(words, diarize, a)
    /\ Content(a) = SaidUpTo(words, k)
    /\ service = "Speechmatics" => (a.toks = <<>> <=> Lead(words, k))

(* What an item makes of the beginning of a sentence. *)
LEMMA LeadSteps ==
    ASSUME NEW U, NEW n \in Nat, NEW words, Items(words, n, U), NEW k \in 1 .. n
    PROVE  /\ words[k].blank => (Lead(words, k) <=> Lead(words, k - 1))
           /\ ~words[k].blank /\ words[k].mark /\ words[k].ends => Lead(words, k)
           /\ ~words[k].blank /\ words[k].mark /\ ~words[k].ends => (Lead(words, k) <=> Lead(words, k - 1))
           /\ ~words[k].blank /\ ~words[k].mark => ~Lead(words, k)
           /\ Speech!Leading(words, k) <=> words[k].mark /\ Lead(words, k - 1)
<1> DEFINE Before(i) == {j \in 1 .. i : ~words[j].blank}
           b0 == Before(k - 1)
           b1 == Before(k)
           Ends(m) == words[m].mark /\ words[m].ends
<1>1. b1 = IF words[k].blank THEN b0 ELSE b0 \cup {k}
  BY 1 .. k = (1 .. k - 1) \cup {k}
<1>2. \A j \in b0 : j \in Int /\ j < k
  OBVIOUS
<1>3. /\ Lead(words, k) <=> \A j \in b1 : words[j].mark \/ \E m \in b1 : m >= j /\ Ends(m)
      /\ Lead(words, k - 1) <=> \A j \in b0 : words[j].mark \/ \E m \in b0 : m >= j /\ Ends(m)
  BY DEF Lead
<1>4. Speech!Leading(words, k) <=> words[k].mark /\ Lead(words, k - 1)
  BY DEF Speech!Leading, Lead
<1> HIDE DEF b0, b1
<1>5. words[k].blank => (Lead(words, k) <=> Lead(words, k - 1))
  BY <1>1, <1>3
<1>6. ASSUME ~words[k].blank, words[k].mark, words[k].ends PROVE Lead(words, k)
  <2>1. k \in b1 /\ Ends(k) /\ \A j \in b1 : k >= j
    BY <1>1, <1>2, <1>6
  <2> QED BY <1>3, <2>1
<1>7. ASSUME ~words[k].blank, words[k].mark, ~words[k].ends
      PROVE  Lead(words, k) <=> Lead(words, k - 1)
  <2>1. b1 = b0 \cup {k} /\ ~Ends(k) /\ words[k].mark
    BY <1>1, <1>7
  <2> HIDE DEF Ends
  <2> QED BY <1>3, <2>1
<1>8. ASSUME ~words[k].blank, ~words[k].mark PROVE ~Lead(words, k)
  <2>1. k \in b1 /\ \A m \in b1 : m >= k => m = k
    BY <1>1, <1>2, <1>8
  <2>2. ~words[k].mark /\ ~Ends(k)
    BY <1>8
  <2> HIDE DEF Ends
  <2> QED BY <1>3, <2>1, <2>2
<1> QED BY <1>4, <1>5, <1>6, <1>7, <1>8

(* What was said up to an item is what was said before it, and the item if it goes anywhere. *)
LEMMA SaidSteps ==
    ASSUME NEW words, NEW n \in Nat, NEW k \in 1 .. n
    PROVE  /\ SaidUpTo(words, k) = IF words[k].blank \/ Speech!Leading(words, k) THEN SaidUpTo(words, k - 1)
                                   ELSE SaidUpTo(words, k - 1) \cup {k}
           /\ \A j \in SaidUpTo(words, k - 1) : j < k
<1>1. 1 .. k = (1 .. k - 1) \cup {k} /\ \A j \in 1 .. k - 1 : j < k
  OBVIOUS
<1> QED BY <1>1 DEF SaidUpTo

(* An item walked keeps what was walked as it must be. *)
LEMMA StepKeeps ==
    ASSUME NEW U, Speech!None \in U, NEW service, NEW diarize \in BOOLEAN,
           NEW n \in Nat, NEW words, Items(words, n, U),
           service = "Speechmatics" \/ \A i \in 1 .. n : ~words[i].mark,
           NEW k \in 1 .. n, NEW a \in Walked(U), WalkInv(service, words, diarize, a, k - 1)
    PROVE  WalkInv(service, words, diarize, Stepped(service, words, diarize, a, k), k)
<1> DEFINE w == words[k]
           b == Stepped(service, words, diarize, a, k)
           Kept(x, new) == /\ x \in Walked(U) /\ Building(words, diarize, x)
                           /\ Content(x) = Content(a) \cup new
<1>1. /\ Building(words, diarize, a)
      /\ Content(a) = SaidUpTo(words, k - 1)
      /\ service = "Speechmatics" => (a.toks = <<>> <=> Lead(words, k - 1))
      /\ \A j \in Content(a) : j < k
  <2>1. \A j \in SaidUpTo(words, k - 1) : j < k
    BY SaidSteps
  <2> QED BY <2>1 DEF WalkInv
<1>2. w.blank \in BOOLEAN /\ w.mark \in BOOLEAN /\ w.ends \in BOOLEAN /\ w.speaker \in U /\ k \in Nat
  BY DEF Items
<1>3. /\ w.blank => (Lead(words, k) <=> Lead(words, k - 1))
      /\ ~w.blank /\ w.mark /\ w.ends => Lead(words, k)
      /\ ~w.blank /\ w.mark /\ ~w.ends => (Lead(words, k) <=> Lead(words, k - 1))
      /\ ~w.blank /\ ~w.mark => ~Lead(words, k)
      /\ Speech!Leading(words, k) <=> w.mark /\ Lead(words, k - 1)
  BY LeadSteps
<1>4. SaidUpTo(words, k) = IF w.blank \/ Speech!Leading(words, k) THEN SaidUpTo(words, k - 1)
                           ELSE SaidUpTo(words, k - 1) \cup {k}
  BY SaidSteps
<1>5. ASSUME NEW x, Kept(x, {}) \/ Kept(x, {k}) 
      PROVE  /\ Kept(x, {}) => Kept(Speech!Flushed(x), {})
             /\ Kept(x, {k}) => Kept(Speech!Flushed(x), {k})
             /\ Speech!Flushed(x).toks = <<>>
  <2>1. x \in Walked(U) /\ Building(words, diarize, x)
    BY <1>5
  <2>2. /\ Building(words, diarize, Speech!Flushed(x))
        /\ Content(Speech!Flushed(x)) = Content(x)
        /\ Speech!Flushed(x).toks = <<>>
        /\ Speech!Flushed(x) \in Walked(U)
    BY <2>1, FlushKeeps, FlushedTyped
  <2> QED BY <2>2
<1>6. ASSUME NEW x, Kept(x, {}), NEW speaker \in U,
             diarize /\ w.speaker # Speech!None /\ ~w.mark => w.speaker = IF x.toks = <<>> THEN speaker ELSE x.speaker
      PROVE  Kept(Speech!Joined(x, k, speaker), {k}) /\ Speech!Joined(x, k, speaker).toks # <<>>
  <2>1. x \in Walked(U) /\ Building(words, diarize, x) /\ Content(x) = Content(a)
    BY <1>6
  <2>2. \A j \in Content(x) : j < k
    BY <1>1, <2>1
  <2>3. /\ Building(words, diarize, Speech!Joined(x, k, speaker))
        /\ Content(Speech!Joined(x, k, speaker)) = Content(x) \cup {k}
        /\ Speech!Joined(x, k, speaker).toks # <<>>
    BY <1>2, <1>6, <2>1, <2>2, JoinKeeps
  <2>4. Speech!Joined(x, k, speaker) \in Walked(U)
    BY <1>2, <2>1, JoinedTyped
  <2> QED BY <2>1, <2>3, <2>4
<1>7. Kept(a, {})
  BY <1>1
<1>8. CASE w.blank
  <2>1. b = a
    BY <1>8 DEF Stepped
  <2> QED BY <1>1, <1>3, <1>4, <1>8, <2>1 DEF WalkInv
<1>9. CASE ~w.blank /\ service # "Speechmatics"
  <2> DEFINE c == IF diarize /\ w.speaker # a.speaker THEN Speech!Flushed(a) ELSE a
             d == Speech!Joined(c, k, w.speaker)
  <2>1. b = IF w.ends THEN Speech!Flushed(d) ELSE d
    BY <1>9 DEF Stepped, Speech!Spoken
  <2>2. ~w.mark
    BY <1>9
  <2> HIDE DEF Kept, b
  <2>3. Kept(c, {}) /\ (diarize => w.speaker = IF c.toks = <<>> THEN w.speaker ELSE c.speaker)
    BY <1>5, <1>7
  <2> HIDE DEF c
  <2>4. Kept(d, {k})
    BY <1>2, <1>6, <2>3
  <2> HIDE DEF d
  <2>5. Kept(b, {k})
    BY <1>5, <2>1, <2>4
  <2> USE DEF Kept
  <2>6. SaidUpTo(words, k) = Content(a) \cup {k}
    BY <1>1, <1>3, <1>4, <1>9, <2>2
  <2>7. WalkInv(service, words, diarize, b, k)
    BY <1>9, <2>5, <2>6 DEF WalkInv
  <2> QED BY <2>7 DEF b
<1>10. CASE ~w.blank /\ service = "Speechmatics" /\ w.mark /\ a.toks = <<>>
  <2>1. b = IF w.ends THEN Speech!Flushed(a) ELSE a
    BY <1>10 DEF Stepped, Speech!Item
  <2>2. b = a
    BY <1>10, <2>1 DEF Speech!Flushed
  <2> HIDE DEF b
  <2>3. Lead(words, k) /\ SaidUpTo(words, k) = SaidUpTo(words, k - 1)
    BY <1>1, <1>2, <1>3, <1>4, <1>10
  <2>4. WalkInv(service, words, diarize, b, k)
    BY <1>1, <1>10, <2>2, <2>3 DEF WalkInv
  <2> QED BY <2>4 DEF b
<1>11. CASE ~w.blank /\ service = "Speechmatics" /\ w.mark /\ a.toks # <<>>
  <2> DEFINE c == Speech!Joined(a, k, Speech!None)
  <2>1. b = IF w.ends THEN Speech!Flushed(c) ELSE c
    BY <1>11 DEF Stepped, Speech!Item
  <2> HIDE DEF Kept, b
  <2>2. Kept(c, {k}) /\ c.toks # <<>>
    BY <1>6, <1>7, <1>11
  <2> HIDE DEF c
  <2>3. Kept(b, {k}) /\ (b.toks = <<>> <=> w.ends)
    BY <1>2, <1>5, <2>1, <2>2
  <2>4. SaidUpTo(words, k) = Content(a) \cup {k}
    BY <1>1, <1>3, <1>4, <1>11
  <2>5. Lead(words, k) <=> w.ends
    BY <1>1, <1>2, <1>3, <1>11
  <2> USE DEF Kept
  <2>6. WalkInv(service, words, diarize, b, k)
    BY <2>3, <2>4, <2>5 DEF WalkInv
  <2> QED BY <2>6 DEF b
<1>12. CASE ~w.blank /\ service = "Speechmatics" /\ ~w.mark
  <2> DEFINE c == IF diarize /\ w.speaker \notin {Speech!None, a.speaker} THEN Speech!Flushed(a) ELSE a
  <2>1. b = Speech!Joined(c, k, w.speaker)
    BY <1>12 DEF Stepped, Speech!Item
  <2> HIDE DEF Kept, b
  <2>2. Kept(c, {}) /\ (diarize /\ w.speaker # Speech!None => w.speaker = IF c.toks = <<>> THEN w.speaker ELSE c.speaker)
    BY <1>5, <1>7
  <2> HIDE DEF c
  <2>3. Kept(b, {k}) /\ b.toks # <<>>
    BY <1>2, <1>6, <2>1, <2>2
  <2>4. SaidUpTo(words, k) = Content(a) \cup {k}
    BY <1>1, <1>3, <1>4, <1>12
  <2>5. ~Lead(words, k)
    BY <1>3, <1>12
  <2> USE DEF Kept
  <2>6. WalkInv(service, words, diarize, b, k)
    BY <2>3, <2>4, <2>5 DEF WalkInv
  <2> QED BY <2>6 DEF b
<1> QED BY <1>2, <1>8, <1>9, <1>10, <1>11, <1>12

(* Segments that hold these words, in order and each of one speaker. *)
Hold(U, words, diarize, segs, held) ==
    segs \in Seq(Segments(U)) /\ Laid(words, diarize, segs) /\ Held(segs) = held

(* The walk of the words of an answer puts every one of them that was said into one segment. *)
LEMMA WalkWhole ==
    ASSUME NEW U, Speech!None \in U, NEW service, NEW diarize \in BOOLEAN,
           NEW n \in Nat, NEW words, Items(words, n, U),
           service = "Speechmatics" \/ \A i \in 1 .. n : ~words[i].mark
    PROVE  Hold(U, words, diarize, Speech!Walk(service, words, diarize), SaidUpTo(words, n))
<1>1. PICK h \in [0 .. n -> Walked(U)] :
        /\ h[0] = Speech!Started
        /\ \A k \in 1 .. n : h[k] = Stepped(service, words, diarize, h[k - 1], k)
        /\ Speech!Walk(service, words, diarize) = Speech!Flushed(h[n]).out
  <2>1. DOMAIN words = 1 .. n /\ \A i \in 1 .. n : words[i].speaker \in U
    BY DEF Items
  <2>2. HasWalk(U, service, words, diarize, n)
    BY <2>1, WalkRuns
  <2> QED BY <2>2 DEF HasWalk
<1> DEFINE S == {k \in Nat : k <= n => WalkInv(service, words, diarize, h[k], k)}
<1>2. WalkInv(service, words, diarize, h[0], 0)
  <2>1. h[0].out = <<>> /\ h[0].toks = <<>>
    BY <1>1 DEF Speech!Started
  <2>2. DOMAIN <<>> = {} /\ ToSet(<<>>) = {} /\ 1 .. 0 = {}
    BY DEF ToSet
  <2>3. Held(<<>>) = {} /\ Laid(words, diarize, <<>>) /\ \A s : VoiceOf(words, <<>>, s)
    BY <2>2 DEF Held, Laid, InOrder, VoiceOf
  <2>4. SaidUpTo(words, 0) = {} /\ Lead(words, 0)
    BY <2>2 DEF SaidUpTo, Lead
  <2> QED BY <2>1, <2>2, <2>3, <2>4 DEF WalkInv, Building, Content
<1>3. ASSUME NEW k \in Nat, k \in S PROVE k + 1 \in S
  <2> SUFFICES ASSUME k + 1 <= n PROVE WalkInv(service, words, diarize, h[k + 1], k + 1)
    OBVIOUS
  <2>1. k + 1 \in 1 .. n /\ (k + 1) - 1 = k /\ h[k] \in Walked(U) /\ WalkInv(service, words, diarize, h[k], k)
    BY <1>3
  <2>2. h[k + 1] = Stepped(service, words, diarize, h[k], k + 1)
    BY <1>1, <2>1
  <2> QED BY <2>1, <2>2, StepKeeps
<1>4. n \in S
  <2>1. 0 \in S
    BY <1>2
  <2> HIDE DEF S
  <2> QED BY <1>3, <2>1, SetInduction
<1>5. Building(words, diarize, h[n]) /\ Content(h[n]) = SaidUpTo(words, n) /\ h[n] \in Walked(U)
  BY <1>4 DEF WalkInv
<1> DEFINE b == Speech!Flushed(h[n])
<1>6. Building(words, diarize, b) /\ Content(b) = SaidUpTo(words, n) /\ b.toks = <<>> /\ b \in Walked(U)
  BY <1>5, FlushKeeps, FlushedTyped
<1> HIDE DEF b
<1>7. Held(b.out) = SaidUpTo(words, n) /\ b.out \in Seq(Segments(U)) /\ Laid(words, diarize, b.out)
  <2>1. ToSet(<<>>) = {}
    BY DEF ToSet
  <2> QED BY <1>6, <2>1 DEF Content, Walked, Building
<1> QED BY <1>1, <1>7 DEF Hold, b

-----------------------------------------------------------------------------
(* A turn that is taken is a segment more. *)
Taken(turns, blanks, out, i) ==
    IF blanks \/ ~turns[i].blank
    THEN Append(out, [toks |-> IF turns[i].blank THEN <<>> ELSE <<i>>, speaker |-> turns[i].speaker])
    ELSE out

(* What was taken stays a sequence of segments. *)
LEMMA TakenTyped ==
    ASSUME NEW U, NEW turns, NEW blanks, NEW i \in Nat, turns[i].speaker \in U, NEW out \in Seq(Segments(U))
    PROVE  Taken(turns, blanks, out, i) \in Seq(Segments(U))
<1> DEFINE s == [toks |-> IF turns[i].blank THEN <<>> ELSE <<i>>, speaker |-> turns[i].speaker]
<1>1. s \in Segments(U)
  <2>1. <<>> \in Seq(Nat) /\ <<i>> \in Seq(Nat)
    OBVIOUS
  <2> QED BY <2>1 DEF Segments
<1> HIDE DEF s
<1>2. Append(out, s) \in Seq(Segments(U))
  BY <1>1
<1> QED BY <1>2 DEF Taken, s

(* The turns are gone through one after the other. *)
HasTurns(U, turns, blanks, n) ==
    \E h \in [0 .. n -> Seq(Segments(U))] :
      /\ h[0] = <<>>
      /\ \A k \in 1 .. n : h[k] = Taken(turns, blanks, h[k - 1], k)
      /\ Speech!Turns(turns, blanks) = h[n]

(* The fold that Turns is defined by is such a run. *)
LEMMA TurnsRun ==
    ASSUME NEW U, NEW blanks, NEW n \in Nat, NEW turns, DOMAIN turns = 1 .. n,
           \A i \in 1 .. n : turns[i].speaker \in U
    PROVE  HasTurns(U, turns, blanks, n)
<1> DEFINE A == Seq(Segments(U))
           w == [i \in DOMAIN turns |-> i]
           st == [p \in A \X (1 .. n) |-> Taken(turns, blanks, p[1], p[2])]
           Eq(g) == g = [s \in SUBSET DOMAIN w |->
                           IF s = {} THEN <<>>
                           ELSE Taken(turns, blanks, g[s \ {Max(s)}], w[Max(s)])]
           it == CHOOSE g : Eq(g)
<1>1. <<>> \in A
  OBVIOUS
<1>2. st \in [A \X (1 .. n) -> A]
  <2>1. \A p \in A \X (1 .. n) : Taken(turns, blanks, p[1], p[2]) \in A
    BY TakenTyped
  <2> QED BY <2>1
<1>3. PICK g0 \in [SUBSET (1 .. n) -> A] : Folded(st, <<>>, g0, n)
  <2> HIDE DEF st, A
  <2>1. HasFold(st, <<>>, A, n)
    BY <1>1, <1>2, FoldExists
  <2> QED BY <2>1 DEF HasFold
<1>4. DOMAIN w = 1 .. n /\ \A k \in 1 .. n : w[k] = k
  OBVIOUS
<1>5. ASSUME NEW s \in SUBSET (1 .. n), s # {}
      PROVE  Max(s) \in 1 .. n /\ s \ {Max(s)} \in SUBSET (1 .. n)
  BY <1>5, TopOf
<1>6. Eq(g0)
  <2>1. ASSUME NEW s \in SUBSET (1 .. n)
        PROVE  g0[s] = IF s = {} THEN <<>>
                       ELSE Taken(turns, blanks, g0[s \ {Max(s)}], w[Max(s)])
    <3>1. CASE s = {}
      BY <1>3, <3>1 DEF Folded
    <3>2. CASE s # {}
      <4> DEFINE m == Max(s)
      <4>1. m \in 1 .. n /\ s \ {m} \in SUBSET (1 .. n) /\ w[m] = m
        BY <1>4, <1>5, <3>2
      <4>2. g0[s] = st[<<g0[s \ {m}], m>>]
        BY <1>3, <3>2 DEF Folded
      <4>3. g0[s \ {m}] \in A
        BY <4>1
      <4> HIDE DEF m, A, w
      <4>4. st[<<g0[s \ {m}], m>>] = Taken(turns, blanks, g0[s \ {m}], m)
        BY <4>1, <4>3
      <4> HIDE DEF st
      <4>5. g0[s] = Taken(turns, blanks, g0[s \ {m}], w[m])
        BY <4>1, <4>2, <4>4
      <4> QED BY <3>2, <4>5 DEF m
    <3> QED BY <3>1, <3>2
  <2> HIDE DEF w
  <2> QED BY <1>4, <2>1
<1>7. Eq(it)
  <2> HIDE DEF Eq
  <2> QED BY <1>6
<1>8. Speech!Turns(turns, blanks) = it[DOMAIN w]
  BY DEF Speech!Turns, Speech!FoldLeftDomain, Speech!FoldLeft, Speech!MapThenFoldSet, Speech!Max, Max, Taken
<1>9. FoldsAlong(it, st, <<>>, A, n)
  <2>1. \A s \in SUBSET (1 .. n) :
          it[s] = IF s = {} THEN <<>>
                  ELSE Taken(turns, blanks, it[s \ {Max(s)}], w[Max(s)])
    <3> HIDE DEF w, it
    <3> QED BY <1>4, <1>7
  <2> HIDE DEF it, A
  <2>2. it[{}] = <<>>
    BY <2>1
  <2>3. ASSUME NEW s \in SUBSET (1 .. n), s # {}, it[s \ {Max(s)}] \in A
        PROVE  it[s] = st[<<it[s \ {Max(s)}], Max(s)>>]
    BY <1>4, <1>5, <2>1, <2>3
  <2> HIDE DEF st
  <2> QED BY <2>2, <2>3 DEF FoldsAlong
<1> HIDE DEF it, w, A
<1>10. PICK h \in [0 .. n -> A] :
         /\ h[0] = <<>> /\ h[n] = it[1 .. n]
         /\ \A k \in 1 .. n : h[k] = st[<<h[k - 1], k>>]
  <2> HIDE DEF st
  <2>1. HasRun(st, <<>>, A, n, it[1 .. n])
    BY <1>1, <1>2, <1>9, FoldRun
  <2> QED BY <2>1 DEF HasRun
<1>11. ASSUME NEW k \in 1 .. n PROVE h[k] = Taken(turns, blanks, h[k - 1], k)
  <2>1. h[k - 1] \in A
    OBVIOUS
  <2> QED BY <1>10, <2>1
<1>12. Speech!Turns(turns, blanks) = h[n]
  BY <1>4, <1>8, <1>10
<1> QED BY <1>10, <1>11, <1>12 DEF A, HasTurns

(* A sequence that was appended to is not empty. *)
LEMMA AppendTyped ==
    ASSUME NEW T, NEW q \in Seq(T), NEW x \in T
    PROVE  Append(q, x) \in Seq(T) /\ Append(q, x) # <<>>
<1>1. Append(q, x) \in Seq(T)
  OBVIOUS
<1>2. DOMAIN Append(q, x) = 1 .. Len(q) + 1 /\ Len(q) \in Nat
  OBVIOUS
<1>3. Len(q) + 1 \in DOMAIN Append(q, x) /\ DOMAIN <<>> = {}
  BY <1>2
<1> QED BY <1>1, <1>3

(* What there is in turns, and that segments were made of it. *)
Filled(turns, n) == {i \in 1 .. n : ~turns[i].blank}
TurnsRight(U, turns, diarize, blanks, n) ==
    /\ Hold(U, turns, diarize, Speech!Turns(turns, blanks), Filled(turns, n))
    /\ ~blanks => (Speech!Turns(turns, blanks) = <<>> <=> Filled(turns, n) = {})

(* The turns, each of one speaker and without marks, become segments of their own. *)
LEMMA TurnsWhole ==
    ASSUME NEW U, NEW diarize \in BOOLEAN, NEW blanks \in BOOLEAN, NEW n \in Nat, NEW turns, Items(turns, n, U)
    PROVE  TurnsRight(U, turns, diarize, blanks, n)
<1> DEFINE Done(k) == {i \in 1 .. k : ~turns[i].blank}
           Good(out, k) == /\ Hold(U, turns, diarize, out, Done(k))
                           /\ ~blanks => (out = <<>> <=> Done(k) = {})
<1>1. PICK h \in [0 .. n -> Seq(Segments(U))] :
        /\ h[0] = <<>>
        /\ \A k \in 1 .. n : h[k] = Taken(turns, blanks, h[k - 1], k)
        /\ Speech!Turns(turns, blanks) = h[n]
  <2>1. DOMAIN turns = 1 .. n /\ \A i \in 1 .. n : turns[i].speaker \in U
    BY DEF Items
  <2>2. HasTurns(U, turns, blanks, n)
    BY <2>1, TurnsRun
  <2> QED BY <2>2 DEF HasTurns
<1>2. Good(<<>>, 0)
  <2>1. DOMAIN <<>> = {} /\ 1 .. 0 = {} /\ <<>> \in Seq(Segments(U))
    OBVIOUS
  <2>2. Done(0) = {}
    BY <2>1
  <2>3. Held(<<>>) = {} /\ Laid(turns, diarize, <<>>)
    BY <2>1 DEF Held, Laid, InOrder
  <2> QED BY <2>1, <2>2, <2>3 DEF Hold
<1>3. ASSUME NEW k \in 1 .. n, NEW out, Good(out, k - 1) PROVE Good(Taken(turns, blanks, out, k), k)
  <2>0. out \in Seq(Segments(U)) /\ Laid(turns, diarize, out) /\ Held(out) = Done(k - 1)
    BY <1>3 DEF Hold
  <2>1. Done(k) = IF turns[k].blank THEN Done(k - 1) ELSE Done(k - 1) \cup {k}
    <3>1. 1 .. k = (1 .. k - 1) \cup {k}
      OBVIOUS
    <3> QED BY <3>1
  <2>2. turns[k].speaker \in U /\ k \in Nat /\ \A i \in Done(k - 1) : i < k
    BY DEF Items
  <2> HIDE DEF Done
  <2>3. CASE ~blanks /\ turns[k].blank
    BY <1>3, <2>1, <2>3 DEF Taken
  <2>4. CASE blanks \/ ~turns[k].blank
    <3> DEFINE s == [toks |-> IF turns[k].blank THEN <<>> ELSE <<k>>, speaker |-> turns[k].speaker]
               o == Append(out, s)
    <3>1. Taken(turns, blanks, out, k) = o
      BY <2>4 DEF Taken
    <3>2. /\ s.toks \in Seq(Nat) /\ s.toks = IF turns[k].blank THEN <<>> ELSE <<k>>
          /\ s.speaker = turns[k].speaker /\ s \in Segments(U)
      <4>1. <<>> \in Seq(Nat) /\ <<k>> \in Seq(Nat)
        BY <2>2
      <4> QED BY <2>2, <4>1 DEF Segments
    <3> HIDE DEF s
    <3>3. /\ DOMAIN <<>> = {} /\ ToSet(<<>>) = {}
          /\ DOMAIN <<k>> = {1} /\ ToSet(<<k>>) = {k}
      BY DEF ToSet
    <3>4. ToSet(s.toks) = IF turns[k].blank THEN {} ELSE {k}
      BY <3>2, <3>3
    <3>5. \A p, q \in DOMAIN s.toks : p < q => s.toks[p] < s.toks[q]
      BY <3>2, <3>3
    <3>6. \A i \in Held(out), j \in ToSet(s.toks) : i < j
      BY <2>0, <2>2, <3>4
    <3>7. VoiceOf(turns, s.toks, s.speaker)
      BY <3>2, <3>4 DEF VoiceOf
    <3>8. Laid(turns, diarize, o) /\ Held(o) = Held(out) \cup ToSet(s.toks)
      <4>1. s \in Segments(U) /\ out \in Seq(Segments(U)) /\ Laid(turns, diarize, out)
        BY <2>0, <3>2
      <4>2. Follows(turns, diarize, out, s)
        BY <3>5, <3>6, <3>7 DEF Follows
      <4> QED BY <4>1, <4>2, AppendKeeps
    <3>9. o \in Seq(Segments(U)) /\ o # <<>>
      BY <2>0, <3>2, AppendTyped
    <3> HIDE DEF o
    <3>10. Held(o) = Done(k)
      BY <2>0, <2>1, <3>4, <3>8
    <3>11. ~blanks => Done(k) # {}
      BY <2>1, <2>4
    <3> QED BY <3>1, <3>8, <3>9, <3>10, <3>11 DEF Hold
  <2> QED BY <2>3, <2>4
<1> DEFINE S == {k \in Nat : k <= n => Good(h[k], k)}
<1> HIDE DEF Good
<1>4. ASSUME NEW k \in Nat, k \in S PROVE k + 1 \in S
  <2> SUFFICES ASSUME k + 1 <= n PROVE Good(h[k + 1], k + 1)
    OBVIOUS
  <2>0. Good(h[k], k)
    BY <1>4
  <2>1. k + 1 \in 1 .. n /\ (k + 1) - 1 = k
    OBVIOUS
  <2>2. h[k + 1] = Taken(turns, blanks, h[k], k + 1)
    BY <1>1, <2>1
  <2> QED BY <1>3, <2>0, <2>1, <2>2
<1>5. n \in S
  <2>1. 0 \in S
    BY <1>1, <1>2
  <2> HIDE DEF S
  <2> QED BY <1>4, <2>1, SetInduction
<1>6. Good(Speech!Turns(turns, blanks), n)
  BY <1>1, <1>5
<1> USE DEF Good
<1> QED BY <1>6 DEF Filled, TurnsRight

(* The flat text is one segment, of nobody. *)
LEMMA FlatWhole ==
    ASSUME NEW U, Speech!None \in U, NEW words, NEW diarize \in BOOLEAN, NEW text \in BOOLEAN
    PROVE  Hold(U, words, diarize, Speech!Flat(text), IF text THEN {0} ELSE {})
<1>1. DOMAIN <<>> = {} /\ <<>> \in Seq(Segments(U)) /\ <<>> \in Seq(Nat)
  OBVIOUS
<1>2. CASE ~text
  BY <1>1, <1>2 DEF Speech!Flat, Hold, Laid, InOrder, Held
<1>3. CASE text
  <2> DEFINE s == [toks |-> <<0>>, speaker |-> Speech!None]
             o == <<s>>
  <2>1. s \in Segments(U) /\ s.toks = <<0>>
    <3>1. <<0>> \in Seq(Nat)
      OBVIOUS
    <3> QED BY <3>1 DEF Segments
  <2>2. Speech!Flat(text) = o
    BY <1>3 DEF Speech!Flat
  <2> HIDE DEF s
  <2>3. o \in Seq(Segments(U)) /\ DOMAIN o = {1} /\ o[1] = s
    BY <2>1
  <2> HIDE DEF o
  <2>4. DOMAIN <<0>> = {1} /\ ToSet(<<0>>) = {0}
    BY DEF ToSet
  <2>5. Held(o) = {0}
    BY <2>1, <2>3, <2>4 DEF Held
  <2>6. InOrder(o)
    BY <2>1, <2>3, <2>4 DEF InOrder
  <2>7. VoiceOf(words, s.toks, s.speaker)
    BY <2>1, <2>4 DEF VoiceOf
  <2> QED BY <1>3, <2>2, <2>3, <2>5, <2>6, <2>7 DEF Hold, Laid
<1> QED BY <1>2, <1>3

-----------------------------------------------------------------------------
(* The answer of each service.                                                *)

(* The words of an answer that have somewhere to go. *)
Said(words) == {i \in DOMAIN words : ~words[i].blank /\ ~Speech!Leading(words, i)}
Unmarked(words) == \A i \in DOMAIN words : ~words[i].mark
Rest(service, words, text) == IF text /\ service # "Speechmatics" THEN {0} ELSE Said(words)

(* Nothing is said in no words; words without marks are said when they are not blank. *)
LEMMA NothingSaid ==
    ASSUME NEW U, NEW n \in Nat, NEW words, Items(words, n, U)
    PROVE  /\ words = <<>> => Said(words) = {}
           /\ SaidUpTo(words, n) = Said(words)
           /\ Unmarked(words) => Said(words) = Filled(words, n)
<1>1. DOMAIN <<>> = {} /\ DOMAIN words = 1 .. n
  BY DEF Items
<1> QED BY <1>1 DEF Said, SaidUpTo, Filled, Unmarked, Speech!Leading

(* What a service other than Speechmatics makes of words, or of the flat text when there are none. *)
LEMMA WordsOrText ==
    ASSUME NEW U, Speech!None \in U, NEW service, service # "Speechmatics", NEW diarize \in BOOLEAN, NEW text \in BOOLEAN,
           NEW n \in Nat, NEW words, Items(words, n, U), Unmarked(words), text => words = <<>>
    PROVE  Hold(U, words, diarize,
                IF words = <<>> THEN Speech!Flat(text) ELSE Speech!Walk(service, words, diarize),
                Rest(service, words, text))
<1>1. /\ words = <<>> => Said(words) = {}
      /\ SaidUpTo(words, n) = Said(words)
  BY NothingSaid
<1>2. CASE words = <<>>
  <2>1. Rest(service, words, text) = IF text THEN {0} ELSE {}
    BY <1>1, <1>2 DEF Rest
  <2>2. Hold(U, words, diarize, Speech!Flat(text), IF text THEN {0} ELSE {})
    BY FlatWhole
  <2> QED BY <1>2, <2>1, <2>2
<1>3. CASE words # <<>>
  <2>1. \A i \in 1 .. n : ~words[i].mark
    BY DEF Unmarked, Items
  <2>2. Hold(U, words, diarize, Speech!Walk(service, words, diarize), SaidUpTo(words, n))
    BY <2>1, WalkWhole
  <2>3. Rest(service, words, text) = SaidUpTo(words, n)
    BY <1>1, <1>3 DEF Rest
  <2> QED BY <1>3, <2>2, <2>3
<1> QED BY <1>2, <1>3

(* What is made of turns. *)
LEMMA TurnsOrText ==
    ASSUME NEW U, Speech!None \in U, NEW service, service # "Speechmatics", NEW diarize \in BOOLEAN, NEW text \in BOOLEAN,
           NEW n \in Nat, NEW turns, Items(turns, n, U), Unmarked(turns), text => turns = <<>>, NEW blanks \in BOOLEAN
    PROVE  /\ turns # <<>> => Hold(U, turns, diarize, Speech!Turns(turns, blanks), Rest(service, turns, text))
           /\ ~blanks => (Speech!Turns(turns, blanks) # <<>> <=> \E t \in ToSet(turns) : ~t.blank)
<1>1. Said(turns) = Filled(turns, n)
  BY NothingSaid
<1>2. /\ Hold(U, turns, diarize, Speech!Turns(turns, blanks), Filled(turns, n))
      /\ ~blanks => (Speech!Turns(turns, blanks) = <<>> <=> Filled(turns, n) = {})
  <2>1. TurnsRight(U, turns, diarize, blanks, n)
    BY TurnsWhole
  <2> QED BY <2>1 DEF TurnsRight
<1>3. (\E t \in ToSet(turns) : ~t.blank) <=> Filled(turns, n) # {}
  <2>1. DOMAIN turns = 1 .. n
    BY DEF Items
  <2>2. ToSet(turns) = {turns[i] : i \in 1 .. n}
    BY <2>1 DEF ToSet
  <2>3. ASSUME NEW t \in ToSet(turns), ~t.blank PROVE Filled(turns, n) # {}
    BY <2>2, <2>3 DEF Filled
  <2>4. ASSUME NEW i \in Filled(turns, n) PROVE turns[i] \in ToSet(turns) /\ ~turns[i].blank
    BY <2>2 DEF Filled
  <2>5. ASSUME Filled(turns, n) # {} PROVE \E t \in ToSet(turns) : ~t.blank
    <3>1. PICK i : i \in Filled(turns, n)
      BY <2>5
    <3> QED BY <2>4, <3>1
  <2>6. ASSUME \E t \in ToSet(turns) : ~t.blank PROVE Filled(turns, n) # {}
    BY <2>3, <2>6
  <2> QED BY <2>5, <2>6
<1>4. turns # <<>> => Rest(service, turns, text) = Said(turns)
  BY DEF Rest
<1> QED BY <1>1, <1>2, <1>3, <1>4

(* The parts of an answer of Groq. *)
LEMMA GroqParts ==
    ASSUME NEW reply, NEW diarize
    PROVE  Speech!Parts("Groq", reply, diarize) =
             IF Speech!Turns(reply.turns, FALSE) # <<>> THEN Speech!Turns(reply.turns, FALSE)
             ELSE IF reply.words = <<>> THEN Speech!Flat(reply.text) ELSE Speech!Walk("Groq", reply.words, FALSE)
BY DEF Speech!Parts

(* The reply to a request: its items are turns or words. *)
Reply(turns, items, text) ==
    [turns |-> IF turns THEN items ELSE <<>>, words |-> IF turns THEN <<>> ELSE items, text |-> text]

(* The parts of an answer hold what is read of it. *)
PartsRight(U, service, reply, o) ==
    Hold(U, Speech!Read(service, reply, o), o.diarize, Speech!Parts(service, reply, o.diarize),
         Rest(service, Speech!Read(service, reply, o), reply.text))

(* Whatever the service, the parts of its answer hold what is read of it. *)
LEMMA PartsWhole ==
    ASSUME NEW U, Speech!None \in U, NEW service \in Speech!Services, NEW o, o.diarize \in BOOLEAN,
           NEW turns \in BOOLEAN, NEW text \in BOOLEAN, NEW n \in Nat, NEW items, Items(items, n, U),
           text => items = <<>>,
           service = "Speechmatics" \/ Unmarked(items),
           o.diarize => service \in Speech!Diarizing,
           turns => service \in {"AssemblyAI", "Gladia", "Groq"},
           service = "Gladia" => turns,
           service = "AssemblyAI" /\ ~turns => ~o.diarize
    PROVE  PartsRight(U, service, Reply(turns, items, text), o)
<1> DEFINE reply == Reply(turns, items, text)
           d == o.diarize
           read == Speech!Read(service, reply, o)
           parts == Speech!Parts(service, reply, d)
<1>1. /\ reply.turns = IF turns THEN items ELSE <<>>
      /\ reply.words = IF turns THEN <<>> ELSE items
      /\ reply.text = text
  BY DEF Reply
<1> HIDE DEF reply, read, parts
<1>2. DOMAIN <<>> = {} /\ 1 .. 0 = {} /\ 0 \in Nat
  OBVIOUS
<1>3. Items(<<>>, 0, U) /\ Unmarked(<<>>) /\ ToSet(<<>>) = {}
  BY <1>2 DEF Items, Unmarked, ToSet
<1>4. ASSUME service # "Speechmatics"
      PROVE  /\ Hold(U, <<>>, d, Speech!Flat(text), Rest(service, <<>>, text))
             /\ Hold(U, items, d, IF items = <<>> THEN Speech!Flat(text) ELSE Speech!Walk(service, items, d),
                     Rest(service, items, text))
             /\ \A blanks \in BOOLEAN : items # <<>> => Hold(U, items, d, Speech!Turns(items, blanks), Rest(service, items, text))
             /\ Speech!Turns(items, FALSE) # <<>> <=> \E t \in ToSet(items) : ~t.blank
             /\ Speech!Turns(<<>>, FALSE) = <<>>
  <2>1. Unmarked(items)
    BY <1>4
  <2>2. Hold(U, <<>>, d, Speech!Flat(text), Rest(service, <<>>, text))
    <3>1. Hold(U, <<>>, d, Speech!Flat(text), IF text THEN {0} ELSE {})
      BY FlatWhole
    <3>2. Said(<<>>) = {}
      BY <1>2, <1>3, NothingSaid
    <3> QED BY <1>4, <3>1, <3>2 DEF Rest
  <2>3. Hold(U, items, d, IF items = <<>> THEN Speech!Flat(text) ELSE Speech!Walk(service, items, d),
             Rest(service, items, text))
    BY <1>4, <2>1, WordsOrText
  <2>4. \A blanks \in BOOLEAN : items # <<>> => Hold(U, items, d, Speech!Turns(items, blanks), Rest(service, items, text))
    BY <1>4, <2>1, TurnsOrText
  <2>5. Speech!Turns(items, FALSE) # <<>> <=> \E t \in ToSet(items) : ~t.blank
    BY <1>4, <2>1, TurnsOrText
  <2>6. Speech!Turns(<<>>, FALSE) # <<>> <=> \E t \in ToSet(<<>>) : ~t.blank
    BY <1>2, <1>3, <1>4, TurnsOrText
  <2> QED BY <1>3, <2>2, <2>3, <2>4, <2>5, <2>6
<1> DEFINE Right == Hold(U, read, d, parts, Rest(service, read, text))
<1> SUFFICES Right
  BY <1>1 DEF PartsRight, reply, read, parts
<1>5. CASE service = "Deepgram"
  <2>1. ~turns
    BY <1>5
  <2>2. read = items /\ parts = IF items = <<>> THEN Speech!Flat(text) ELSE Speech!Walk(service, items, d)
    BY <1>1, <1>5, <2>1 DEF Speech!Read, Speech!Parts, read, parts
  <2> QED BY <1>4, <1>5, <2>2
<1>6. CASE service = "Speechmatics"
  <2>1. ~turns
    BY <1>6
  <2>2. read = items /\ parts = Speech!Walk(service, items, d)
    BY <1>1, <1>6, <2>1 DEF Speech!Read, Speech!Parts, read, parts
  <2>3. Hold(U, items, d, Speech!Walk(service, items, d), SaidUpTo(items, n))
    BY <1>6, WalkWhole
  <2>4. SaidUpTo(items, n) = Rest(service, items, text)
    BY <1>6, NothingSaid DEF Rest
  <2> QED BY <2>2, <2>3, <2>4
<1>7. CASE service = "AssemblyAI"
  <2>1. CASE turns /\ d /\ items # <<>>
    <3>1. read = items /\ parts = Speech!Turns(items, TRUE)
      BY <1>1, <1>7, <2>1 DEF Speech!Read, Speech!Parts, read, parts
    <3> QED BY <1>4, <1>7, <2>1, <3>1
  <2>2. CASE turns /\ ~(d /\ items # <<>>)
    <3>1. read = <<>> /\ parts = Speech!Flat(text)
      BY <1>1, <1>7, <2>2 DEF Speech!Read, Speech!Parts, read, parts
    <3> QED BY <1>4, <1>7, <3>1
  <2>3. CASE ~turns
    <3>1. ~d
      BY <1>7, <2>3
    <3>2. read = items /\ parts = IF items = <<>> THEN Speech!Flat(text) ELSE Speech!Walk(service, items, FALSE)
      BY <1>1, <1>7, <2>3, <3>1 DEF Speech!Read, Speech!Parts, read, parts
    <3> QED BY <1>4, <1>7, <3>1, <3>2
  <2> QED BY <2>1, <2>2, <2>3
<1>8. CASE service = "Gladia"
  <2>1. turns
    BY <1>8
  <2>2. CASE items = <<>>
    <3>1. read = <<>> /\ parts = Speech!Flat(text)
      BY <1>1, <1>8, <2>1, <2>2 DEF Speech!Read, Speech!Parts, read, parts
    <3> QED BY <1>4, <1>8, <3>1
  <2>3. CASE items # <<>>
    <3>1. read = items /\ parts = Speech!Turns(items, TRUE)
      BY <1>1, <1>8, <2>1, <2>3 DEF Speech!Read, Speech!Parts, read, parts
    <3> QED BY <1>4, <1>8, <2>3, <3>1
  <2> QED BY <2>2, <2>3
<1>9. CASE service = "Groq"
  <2>1. ~d
    BY <1>9 DEF Speech!Diarizing
  <2>2. CASE turns /\ Speech!Turns(items, FALSE) # <<>>
    <3>1. \E t \in ToSet(items) : ~t.blank
      BY <1>4, <1>9, <2>2
    <3>2. items # <<>>
      BY <1>3, <3>1
    <3>3. read = items /\ parts = Speech!Turns(items, FALSE)
      <4>1. reply.turns = items
        BY <1>1, <2>2
      <4>2. read = items
        BY <1>9, <3>1, <4>1 DEF Speech!Read, Speech!ToSet, ToSet, read
      <4>3. parts = Speech!Turns(items, FALSE)
        BY <1>9, <2>2, <4>1, GroqParts DEF parts
      <4> QED BY <4>2, <4>3
    <3> QED BY <1>4, <1>9, <3>2, <3>3
  <2>3. CASE turns /\ Speech!Turns(items, FALSE) = <<>>
    <3>1. ~\E t \in ToSet(items) : ~t.blank
      BY <1>4, <1>9, <2>3
    <3>2. read = <<>> /\ parts = Speech!Flat(text)
      <4>1. reply.turns = items /\ reply.words = <<>> /\ reply.text = text
        BY <1>1, <2>3
      <4>2. read = <<>>
        BY <1>9, <3>1, <4>1 DEF Speech!Read, Speech!ToSet, ToSet, read
      <4>3. parts = Speech!Flat(text)
        BY <1>9, <2>3, <4>1, GroqParts DEF parts
      <4> QED BY <4>2, <4>3
    <3> QED BY <1>4, <1>9, <3>2
  <2>4. CASE ~turns
    <3>1. Speech!Turns(<<>>, FALSE) = <<>> /\ ~\E t \in ToSet(<<>>) : ~t.blank
      BY <1>3, <1>4, <1>9
    <3>2. read = items /\ parts = IF items = <<>> THEN Speech!Flat(text) ELSE Speech!Walk(service, items, FALSE)
      <4>1. reply.turns = <<>> /\ reply.words = items /\ reply.text = text
        BY <1>1, <2>4
      <4>2. read = items
        BY <1>9, <3>1, <4>1 DEF Speech!Read, Speech!ToSet, ToSet, read
      <4>3. parts = IF items = <<>> THEN Speech!Flat(text) ELSE Speech!Walk(service, items, FALSE)
        BY <1>9, <3>1, <4>1, GroqParts DEF parts
      <4> QED BY <4>2, <4>3
    <3> QED BY <1>4, <1>9, <2>1, <3>2
  <2> QED BY <2>2, <2>3, <2>4
<1> HIDE DEF Right
<1> QED BY <1>5, <1>6, <1>7, <1>8, <1>9 DEF Speech!Services, Speech!Polled

(* The words of a service, numbered. *)
LEMMA ItemsComing ==
    ASSUME NEW service, NEW items \in SeqsUpTo(Words(service), MaxWords), SpeechAssumption
    PROVE  \E n \in Nat : /\ Items(items, n, {Speech!None} \cup Voices \cup People)
                          /\ service = "Speechmatics" \/ Unmarked(items)
<1>1. PICK n \in 0 .. MaxWords : items \in [1 .. n -> Words(service)]
  BY DEF SeqsUpTo
<1>2. n \in Nat
  BY SpeechAssumption
<1>3. ASSUME NEW w \in Words(service)
      PROVE  /\ w.blank \in BOOLEAN /\ w.mark \in BOOLEAN /\ w.ends \in BOOLEAN
             /\ w.speaker \in {Speech!None} \cup Voices \cup People
             /\ service = "Speechmatics" \/ ~w.mark
  BY DEF Words, Word
<1>4. Items(items, n, {Speech!None} \cup Voices \cup People)
  BY <1>1, <1>3 DEF Items
<1>5. service = "Speechmatics" \/ Unmarked(items)
  BY <1>1, <1>3 DEF Unmarked
<1> QED BY <1>2, <1>4, <1>5

(* The options of the answers. *)
LEMMA OptionsOfAnswer ==
    ASSUME NEW service \in Speech!Services, NEW diarize \in BOOLEAN, NEW enroll \in BOOLEAN, NEW o,
           o = [language |-> Speech!None, count |-> Speech!Uncounted, diarize |-> diarize,
                enroll |-> enroll, known |-> IF enroll THEN People ELSE {}],
           diarize => service \in Speech!Diarizing,
           enroll => service = "Speechmatics" /\ diarize
    PROVE  /\ Speech!Asked(service, o).apart = diarize
           /\ Speech!Asked(service, o).voices = o.known
           /\ o.diarize = diarize
           /\ service # "Speechmatics" => o.known = {}
<1>1. /\ o.language = Speech!None /\ o.count = Speech!Uncounted /\ o.diarize = diarize
      /\ o.enroll = enroll /\ o.known = IF enroll THEN People ELSE {}
  OBVIOUS
<1>2. o.language # Speech!Mixed
  BY <1>1 DEF Speech!None, Speech!Mixed
<1>3. o.count \in {Speech!Counts[c] : c \in DOMAIN Speech!Counts}
  BY <1>1 DEF Speech!Uncounted, Speech!Counts
<1>4. /\ Speech!Asked(service, o).apart = o.diarize
      /\ Speech!Asked(service, o).voices = o.known
  BY <1>1, <1>2, <1>3, AskedHonest
<1> QED BY <1>1, <1>4

(* An answer becomes segments that hold all of it. *)
LEMMA AnsweredRight ==
    ASSUME SpeechAssumption, AnswerComes
    PROVE  AnswerWhole'
<1> DEFINE U == {Speech!None} \cup Voices \cup People
           O(diarize, enroll) == [language |-> Speech!None, count |-> Speech!Uncounted, diarize |-> diarize,
                                  enroll |-> enroll, known |-> IF enroll THEN People ELSE {}]
           Comes(service, diarize, text, enroll, turns, items) ==
             /\ diarize => service \in Speech!Diarizing
             /\ enroll => service = "Speechmatics" /\ diarize
             /\ turns => service \in {"AssemblyAI", "Gladia", "Groq"}
             /\ service = "Gladia" => turns
             /\ service = "AssemblyAI" /\ ~turns => ~diarize
             /\ text => items = <<>>
             /\ input' = [of |-> "answer", service |-> service, options |-> O(diarize, enroll),
                          reply |-> Reply(turns, items, text)]
<1>1. \E service \in Speech!Services, diarize, text, enroll, turns \in BOOLEAN :
        \E items \in SeqsUpTo(Words(service), MaxWords) : Comes(service, diarize, text, enroll, turns, items)
  BY DEF AnswerComes, Reply
<1> HIDE DEF Comes, O
<1>2. PICK service \in Speech!Services, diarize \in BOOLEAN, text \in BOOLEAN, enroll \in BOOLEAN, turns \in BOOLEAN :
        \E items \in SeqsUpTo(Words(service), MaxWords) : Comes(service, diarize, text, enroll, turns, items)
  BY <1>1
<1>3. PICK items \in SeqsUpTo(Words(service), MaxWords) : Comes(service, diarize, text, enroll, turns, items)
  BY <1>2
<1> DEFINE o == O(diarize, enroll)
           reply == Reply(turns, items, text)
           read == Speech!Read(service, reply, o)
           parts == Speech!Parts(service, reply, diarize)
           segs == Speech!ToSegments(service, reply, o)
<1> USE DEF Comes
<1>4. /\ diarize => service \in Speech!Diarizing
      /\ enroll => service = "Speechmatics" /\ diarize
      /\ turns => service \in {"AssemblyAI", "Gladia", "Groq"}
      /\ service = "Gladia" => turns
      /\ service = "AssemblyAI" /\ ~turns => ~diarize
      /\ text => items = <<>>
  BY <1>3
<1>5. input'.of = "answer" /\ input'.service = service /\ input'.options = o /\ input'.reply = reply
  BY <1>3
<1> HIDE DEF Comes
<1>6. PICK n \in Nat : Items(items, n, U) /\ (service = "Speechmatics" \/ Unmarked(items))
  BY ItemsComing
<1>7. /\ Speech!Asked(service, o).apart = diarize
      /\ Speech!Asked(service, o).voices = o.known
      /\ o.diarize = diarize
      /\ service # "Speechmatics" => o.known = {}
  <2>1. o = [language |-> Speech!None, count |-> Speech!Uncounted, diarize |-> diarize,
             enroll |-> enroll, known |-> IF enroll THEN People ELSE {}]
    BY DEF O
  <2> HIDE DEF o
  <2> QED BY ZenonT(30), <1>4, <2>1, OptionsOfAnswer
<1>8. reply.text = text /\ reply.turns = (IF turns THEN items ELSE <<>>)
  BY DEF Reply
<1> HIDE DEF o, reply, read, parts, segs, U
<1>9. Hold(U, read, diarize, parts, Rest(service, read, text))
  <2>1. Speech!None \in U /\ o.diarize \in BOOLEAN
    BY <1>7 DEF U
  <2>2. PartsRight(U, service, reply, o)
    BY <1>4, <1>6, <1>7, <2>1, PartsWhole DEF reply
  <2> QED BY <1>7, <1>8, <2>2 DEF PartsRight, read, parts
<1>10. /\ DOMAIN segs = DOMAIN parts
       /\ \A s \in DOMAIN parts :
            /\ segs[s].toks = parts[s].toks
            /\ segs[s].speaker = Speech!SpeakerOf(service, parts[s], reply, diarize, o.known)
  BY <1>7 DEF Speech!ToSegments, segs, parts
<1>11. Held(segs) = Rest(service, read, text)
  <2>1. Held(parts) = Rest(service, read, text)
    BY <1>9 DEF Hold
  <2> QED BY <1>10, <2>1 DEF Held
<1>12. InOrder(segs)
  BY <1>9, <1>10 DEF Hold, Laid, InOrder
<1>13. ASSUME NEW s \in DOMAIN segs, ~diarize PROVE segs[s].speaker = Speech!NoOne
  BY <1>10, <1>13 DEF Speech!SpeakerOf
<1>14. ASSUME NEW s \in DOMAIN segs, diarize, NEW i \in ToSet(segs[s].toks) \ {0},
              read[i].speaker # Speech!None, ~read[i].mark
       PROVE  segs[s].speaker = Speech!LabelOf(read[i].speaker, o.known)
  <2>1. segs[s].toks = parts[s].toks /\ i \in ToSet(parts[s].toks) \ {0} /\ s \in DOMAIN parts
    BY <1>10, <1>14
  <2>2. VoiceOf(read, parts[s].toks, parts[s].speaker)
    BY <1>9, <1>14, <2>1 DEF Hold, Laid
  <2>3. i \in Rest(service, read, text)
    BY <1>11, <1>14 DEF Held
  <2>4. read # <<>>
    <3>1. i \in DOMAIN read
      BY <1>14, <2>3 DEF Rest, Said
    <3> QED BY <3>1
  <2>5. ~(service = "AssemblyAI" /\ reply.turns = <<>>)
    <3> SUFFICES ASSUME service = "AssemblyAI", reply.turns = <<>> PROVE FALSE
      OBVIOUS
    <3>1. turns
      BY <1>4, <1>14
    <3>2. read = reply.words /\ reply.words = <<>>
      BY <3>1 DEF Speech!Read, read, reply, Reply
    <3> QED BY <2>4, <3>2
  <2>6. Speech!SpeakerOf(service, parts[s], reply, TRUE, o.known) = Speech!LabelOf(read[i].speaker, o.known)
    <3>1. parts[s].speaker = read[i].speaker
      BY <1>14, <2>1, <2>2 DEF VoiceOf
    <3>2. Speech!SpeakerOf(service, parts[s], reply, TRUE, o.known) = Speech!LabelOf(parts[s].speaker, o.known)
      BY <1>7, <1>14, <2>5, <3>1 DEF Speech!SpeakerOf
    <3> QED BY <3>1, <3>2
  <2> QED BY <1>10, <1>14, <2>1, <2>6
<1>15. AnswerWhole'
  <2>1. Rest(service, read, text) = IF text /\ service # "Speechmatics" THEN {0} ELSE Said(read)
    BY DEF Rest
  <2>2. ASSUME NEW s \in DOMAIN segs
        PROVE  IF diarize
               THEN \A i \in ToSet(segs[s].toks) \ {0} :
                      read[i].speaker # Speech!None /\ ~read[i].mark
                        => segs[s].speaker = Speech!LabelOf(read[i].speaker, o.known)
               ELSE segs[s].speaker = Speech!NoOne
    <3>1. CASE diarize
      BY <1>14, <3>1
    <3>2. CASE ~diarize
      BY <1>13, <3>2
    <3> QED BY <3>1, <3>2
  <2>3. /\ Held(segs) = IF text /\ service # "Speechmatics" THEN {0} ELSE Said(read)
        /\ InOrder(segs)
        /\ \A s \in DOMAIN segs :
             IF diarize
             THEN \A i \in ToSet(segs[s].toks) \ {0} :
                    read[i].speaker # Speech!None /\ ~read[i].mark
                      => segs[s].speaker = Speech!LabelOf(read[i].speaker, o.known)
             ELSE segs[s].speaker = Speech!NoOne
    BY <1>11, <1>12, <2>1, <2>2
  <2> QED BY <1>5, <1>7, <1>8, <2>3 DEF AnswerWhole, Said, read, segs
<1> QED BY <1>15

(* Every answer becomes segments that hold all of it once, in order, under    *)
(* the labels of its speakers: for any number of words, voices and people. *)
THEOREM AnswersAreWhole == ServiceSpec => []AnswerWhole
<1>1. Idle => AnswerWhole
  BY InputComes DEF AnswerWhole
<1>2. AnswerWhole /\ [SomethingComes]_input => AnswerWhole'
  <2> SUFFICES ASSUME AnswerWhole, [SomethingComes]_input PROVE AnswerWhole'
    OBVIOUS
  <2>1. CASE AnswerComes
    BY <2>1, SpeechAssumption, AnsweredRight
  <2>2. CASE input'.of # "answer"
    BY <2>2 DEF AnswerWhole
  <2>3. CASE UNCHANGED input
    BY <2>3 DEF AnswerWhole
  <2> QED BY <2>1, <2>2, <2>3, InputComes DEF SomethingComes
<1> QED BY <1>1, <1>2, PTL DEF ServiceSpec
-----------------------------------------------------------------------------
(* What is made of failures and boards.                                       *)

(* Pages are asked for one after the other, until there are enough issues. *)
Asks(X, pages, max, n, h) ==
    /\ h \in [0 .. n -> Seq(X)]
    /\ h[0] = <<>> /\ h[n] = Tracker!Listed(pages, max)
    /\ \A k \in 1 .. n : h[k] = IF Len(h[k - 1]) >= max THEN h[k - 1] ELSE h[k - 1] \o pages[k]
HasAsks(X, pages, max, n) == \E h : Asks(X, pages, max, n, h)

(* The fold that Listed is defined by asks for them like this. *)
LEMMA ListedRuns ==
    ASSUME NEW X, NEW max \in Nat, NEW pages \in Seq(Seq(X))
    PROVE  HasAsks(X, pages, max, Len(pages))
<1> DEFINE n == Len(pages)
           A == Seq(X)
           Take(all, page) == IF Len(all) >= max THEN all ELSE all \o page
           st == [p \in A \X (1 .. n) |-> Take(p[1], pages[p[2]])]
           Eq(g) == g = [s \in SUBSET DOMAIN pages |->
                           IF s = {} THEN <<>> ELSE Take(g[s \ {Tracker!Max(s)}], pages[Tracker!Max(s)])]
           it == CHOOSE g : Eq(g)
<1>1. n \in Nat /\ DOMAIN pages = 1 .. n /\ \A i \in 1 .. n : pages[i] \in A
  OBVIOUS
<1>2. <<>> \in A /\ \A a, b \in A : Take(a, b) \in A
  OBVIOUS
<1>3. st \in [A \X (1 .. n) -> A]
  <2> HIDE DEF A, n, Take
  <2> QED BY <1>1, <1>2
<1>4. PICK g0 \in [SUBSET (1 .. n) -> A] : Folded(st, <<>>, g0, n)
  <2> HIDE DEF st, A, n
  <2>1. HasFold(st, <<>>, A, n)
    BY <1>1, <1>2, <1>3, FoldExists
  <2> QED BY <2>1 DEF HasFold
<1>5. ASSUME NEW s \in SUBSET (1 .. n), s # {}
      PROVE  Max(s) \in 1 .. n /\ s \ {Max(s)} \in SUBSET (1 .. n)
  BY <1>1, <1>5, TopOf
<1>6. \A s : Tracker!Max(s) = Max(s)
  BY DEF Tracker!Max, Max
<1>7. ASSUME NEW a \in A, NEW k \in 1 .. n PROVE st[<<a, k>>] = Take(a, pages[k])
  <2> HIDE DEF A, n, Take
  <2> QED OBVIOUS
<1> HIDE DEF st, A, n, Take
<1>8. Eq(g0)
  <2>1. ASSUME NEW s \in SUBSET (1 .. n)
        PROVE  g0[s] = IF s = {} THEN <<>> ELSE Take(g0[s \ {Tracker!Max(s)}], pages[Tracker!Max(s)])
    <3>1. CASE s = {}
      BY <1>4, <3>1 DEF Folded
    <3>2. CASE s # {}
      <4>1. g0[s] = st[<<g0[s \ {Max(s)}], Max(s)>>] /\ g0[s \ {Max(s)}] \in A
        BY <1>4, <1>5, <3>2 DEF Folded
      <4> QED BY <1>5, <1>6, <1>7, <3>2, <4>1
    <3> QED BY <3>1, <3>2
  <2> QED BY <1>1, <2>1
<1>9. Eq(it)
  <2> HIDE DEF Eq
  <2> QED BY <1>8
<1>10. Tracker!Listed(pages, max) = it[DOMAIN pages]
  BY DEF Tracker!Listed, Tracker!FoldLeft, Tracker!MapThenFoldSet, Take
<1>11. FoldsAlong(it, st, <<>>, A, n)
  <2> HIDE DEF it
  <2>1. \A s \in SUBSET (1 .. n) :
          it[s] = IF s = {} THEN <<>> ELSE Take(it[s \ {Tracker!Max(s)}], pages[Tracker!Max(s)])
    BY <1>1, <1>9
  <2>2. it[{}] = <<>>
    BY <2>1
  <2>3. ASSUME NEW s \in SUBSET (1 .. n), s # {}, it[s \ {Max(s)}] \in A
        PROVE  it[s] = st[<<it[s \ {Max(s)}], Max(s)>>]
    BY <1>5, <1>6, <1>7, <2>1, <2>3
  <2> QED BY <2>2, <2>3 DEF FoldsAlong
<1> HIDE DEF it, Eq
<1>12. PICK h \in [0 .. n -> A] :
         /\ h[0] = <<>> /\ h[n] = it[1 .. n]
         /\ \A k \in 1 .. n : h[k] = st[<<h[k - 1], k>>]
  <2>1. HasRun(st, <<>>, A, n, it[1 .. n])
    BY <1>1, <1>2, <1>3, <1>11, FoldRun
  <2> QED BY <2>1 DEF HasRun
<1>13. ASSUME NEW k \in 1 .. n PROVE h[k] = Take(h[k - 1], pages[k])
  <2>1. h[k - 1] \in A
    BY <1>1
  <2> QED BY <1>7, <1>12, <2>1
<1>14. Asks(X, pages, max, n, h)
  BY <1>1, <1>10, <1>12, <1>13 DEF Asks, A, Take
<1> QED BY <1>14 DEF HasAsks, n

(* What was listed after k pages is the beginning of what is there, and all of it or enough. *)
Begins(listed, all, max) ==
    /\ Len(listed) <= Len(all) /\ \A i \in 1 .. Len(listed) : listed[i] = all[i]
    /\ listed = all \/ Len(listed) >= max

(* A page more is listed, or there was enough. *)
LEMMA BeginsOn ==
    ASSUME NEW X, NEW max \in Nat, NEW a \in Seq(X), NEW b \in Seq(X), NEW p \in Seq(X), Begins(a, b, max)
    PROVE  Begins(IF Len(a) >= max THEN a ELSE a \o p, b \o p, max)
<1>1. /\ Len(a) \in Nat /\ Len(b) \in Nat /\ Len(p) \in Nat
      /\ Len(b \o p) = Len(b) + Len(p) /\ \A i \in 1 .. Len(b) : (b \o p)[i] = b[i]
  OBVIOUS
<1> DEFINE c == b \o p
<1> HIDE DEF c
<1>2. CASE Len(a) >= max
  <2>1. Len(a) <= Len(c) /\ \A i \in 1 .. Len(a) : a[i] = c[i]
    BY <1>1 DEF Begins, c
  <2> QED BY <1>2, <2>1 DEF Begins, c
<1>3. CASE ~(Len(a) >= max)
  <2>1. a \o p = c
    BY <1>3 DEF Begins, c
  <2>2. Begins(c, c, max)
    BY <1>1 DEF Begins, c
  <2> QED BY <1>3, <2>1, <2>2 DEF c
<1> QED BY <1>2, <1>3

(* The first issues of a tracker are listed, however they lie on its pages. *)
LEMMA ListedFirst ==
    ASSUME NEW X, NEW max \in Nat, NEW pages \in Seq(Seq(X))
    PROVE  /\ FlattenSeq(pages) \in Seq(X) /\ Tracker!Listed(pages, max) \in Seq(X)
           /\ Begins(Tracker!Listed(pages, max), FlattenSeq(pages), max)
<1> DEFINE n == Len(pages)
<1>1. n \in Nat /\ \A i \in 1 .. n : pages[i] \in Seq(X)
  OBVIOUS
<1>2. PICK f : Flat(X, pages, n, f)
  BY FlatRuns DEF HasFlat
<1>3. PICK h : Asks(X, pages, max, n, h)
  BY ListedRuns DEF HasAsks
<1> HIDE DEF n
<1> DEFINE S == {k \in Nat : k <= n => Begins(h[k], f[k], max)}
<1>4. 0 \in S
  BY <1>2, <1>3 DEF Flat, Asks, Begins
<1>5. ASSUME NEW k \in Nat, k \in S PROVE k + 1 \in S
  <2> SUFFICES ASSUME k + 1 <= n PROVE Begins(h[k + 1], f[k + 1], max)
    OBVIOUS
  <2>1. k \in 0 .. n /\ k + 1 \in 1 .. n /\ (k + 1) - 1 = k /\ Begins(h[k], f[k], max)
    BY <1>1, <1>5
  <2>2. f[k] \in Seq(X) /\ h[k] \in Seq(X) /\ pages[k + 1] \in Seq(X)
    BY <1>1, <1>2, <1>3, <2>1 DEF Flat, Asks
  <2>3. f[k + 1] = f[k] \o pages[k + 1]
    <3>1. f[k + 1] = f[(k + 1) - 1] \o pages[k + 1]
      BY <1>2, <2>1 DEF Flat
    <3> QED BY <2>1, <3>1
  <2>4. h[k + 1] = IF Len(h[k]) >= max THEN h[k] ELSE h[k] \o pages[k + 1]
    <3>1. h[k + 1] = IF Len(h[(k + 1) - 1]) >= max THEN h[(k + 1) - 1] ELSE h[(k + 1) - 1] \o pages[k + 1]
      BY <1>3, <2>1 DEF Asks
    <3> QED BY <2>1, <3>1
  <2>5. Begins(IF Len(h[k]) >= max THEN h[k] ELSE h[k] \o pages[k + 1], f[k] \o pages[k + 1], max)
    BY <2>1, <2>2, BeginsOn
  <2> QED BY <2>3, <2>4, <2>5
<1>6. n \in S
  <2> HIDE DEF S
  <2> QED BY <1>1, <1>4, <1>5, SetInduction
<1>7. f[n] \in Seq(X) /\ h[n] \in Seq(X) /\ f[n] = FlattenSeq(pages) /\ h[n] = Tracker!Listed(pages, max)
  BY <1>1, <1>2, <1>3 DEF Flat, Asks
<1> QED BY <1>1, <1>6, <1>7

(* The service is the one that the text of a failure names. *)
LEMMA ServiceNamed ==
    ASSUME NEW service \in ToSet(Tracker!Known), NEW msg, msg.services = {service}
    PROVE  Tracker!Service(msg) = service
<1>1. /\ Len(Tracker!Known) = 4 /\ DOMAIN Tracker!Known = 1 .. 4
      /\ Tracker!Known[1] = "linear" /\ Tracker!Known[2] = "glide"
      /\ Tracker!Known[3] = "trello" /\ Tracker!Known[4] = "openrouter"
  <2> DEFINE a == <<"linear", "glide", "trello">>
             b == <<"openrouter">>
             N == {"linear", "glide", "trello", "openrouter"}
  <2>1. /\ a \in Seq(N) /\ Len(a) = 3 /\ a[1] = "linear" /\ a[2] = "glide" /\ a[3] = "trello"
        /\ b \in Seq(N) /\ Len(b) = 1 /\ b[1] = "openrouter"
    OBVIOUS
  <2>2. Tracker!Known = a \o b
    BY DEF Tracker!Known, Tracker!Trackers
  <2> HIDE DEF a, b, N
  <2>3. /\ DOMAIN (a \o b) = 1 .. 4 /\ Len(a \o b) = 4
        /\ (a \o b)[1] = a[1] /\ (a \o b)[2] = a[2] /\ (a \o b)[3] = a[3]
        /\ (a \o b)[4] = b[1]
    <3>1. ASSUME NEW p \in Seq(N), NEW q \in Seq(N), Len(p) = 3, Len(q) = 1
          PROVE  /\ DOMAIN (p \o q) = 1 .. 4 /\ Len(p \o q) = 4
                 /\ (p \o q)[1] = p[1] /\ (p \o q)[2] = p[2] /\ (p \o q)[3] = p[3]
                 /\ (p \o q)[4] = q[1]
      <4>1. Len(p \o q) = Len(p) + Len(q) /\ DOMAIN (p \o q) = 1 .. Len(p \o q)
        OBVIOUS
      <4>2. \A i \in 1 .. Len(p) : (p \o q)[i] = p[i]
        OBVIOUS
      <4>3. \A i \in 1 .. Len(p) + Len(q) : i > Len(p) => (p \o q)[i] = q[i - Len(p)]
        OBVIOUS
      <4> HIDE DEF Tracker!Known
      <4> DEFINE c == p \o q
      <4> HIDE DEF c
      <4>4. Len(c) = 4 /\ DOMAIN c = 1 .. 4
        BY <3>1, <4>1 DEF c
      <4>5. c[1] = p[1] /\ c[2] = p[2] /\ c[3] = p[3]
        <5>1. \A i \in 1 .. 3 : c[i] = p[i]
          BY <3>1, <4>2, Zenon DEF c
        <5> QED BY <5>1
      <4>6. c[4] = q[1]
        <5>1. \A i \in 1 .. 3 + 1 : i > 3 => c[i] = q[i - 3]
          BY <3>1, <4>3, Zenon DEF c
        <5>2. c[4] = q[4 - 3]
          BY <5>1
        <5> QED BY <5>2
      <4> QED BY <4>4, <4>5, <4>6 DEF c
    <3> QED BY <2>1, <3>1
  <2> QED BY <2>1, <2>2, <2>3
<1>2. PICK k \in 1 .. 4 : service = Tracker!Known[k]
  BY <1>1 DEF ToSet
<1> DEFINE I == {i \in 1 .. Len(Tracker!Known) : Tracker!Known[i] \in msg.services}
<1>3. I = {k}
  <2>1. \A i \in 1 .. 4 : Tracker!Known[i] = service <=> i = k
    BY <1>1, <1>2
  <2> QED BY <1>1, <2>1
<1>4. Tracker!Min({k}) = k
  <2>1. \E x \in {k} : \A y \in {k} : x <= y
    OBVIOUS
  <2> QED BY <2>1 DEF Tracker!Min
<1>5. Tracker!SelectInSeq(Tracker!Known, LAMBDA s : s \in msg.services) = k
  <2> HIDE DEF I
  <2>1. I # {} /\ Tracker!Min(I) = k
    BY <1>3, <1>4
  <2> QED BY <2>1 DEF Tracker!SelectInSeq, I
<1> QED BY <1>2, <1>5 DEF Tracker!Service

(* A failure is put down to its cause. *)
LEMMA FailureHeard ==
    ASSUME TrackerAssumption, CallFails
    PROVE  TrackerHeard'
<1>1. PICK service \in ToSet(Tracker!Known), kind \in Tracker!Kinds, cause \in Tracker!Causes, port \in BOOLEAN,
           status \in Statuses, words \in SUBSET {"timeout", "tasks"}, numbers \in Numbers :
        /\ kind # "offline" => cause = "other" /\ ~port
        /\ kind = "timeout" => words = {}
        /\ input' = [of |-> "failure", service |-> service,
                     failure |-> [kind |-> kind, status |-> status, cause |-> cause, port |-> port,
                                  words |-> words, numbers |-> numbers]]
  BY DEF CallFails
<1> DEFINE f == input'.failure
           msg == Tracker!Message(service, f)
<1>2. /\ input'.of = "failure" /\ input'.service = service /\ f.kind = kind /\ f.status = status
      /\ f.cause = cause /\ f.port = port /\ f.words = words /\ f.numbers = numbers
  BY <1>1
<1> HIDE DEF f
<1>3. /\ msg.services = {service}
      /\ kind = "offline" => msg.words = words \cup {"connection", cause}
      /\ kind = "timeout" => msg.words = words \cup {"timeout"} /\ msg.numbers = <<>>
      /\ kind = "status" => msg.words = words /\ msg.numbers = <<status>> \o numbers
  BY <1>2 DEF Tracker!Message, Tracker!Kinds
<1> HIDE DEF msg
<1>4. kind = "offline" => Tracker!Humanized(msg) \in {"unresolved", "refused", "no connection"}
  BY ZenonT(30), <1>3 DEF Tracker!Humanized
<1>5. kind = "timeout" => Tracker!Humanized(msg) = "timeout" /\ Tracker!ShortCode(msg) = "timeout"
  BY <1>1, <1>3 DEF Tracker!Humanized, Tracker!ShortCode, Tracker!Status
<1>6. kind = "status" =>
        /\ Tracker!ShortCode(msg) = status
        /\ "timeout" \notin words => Tracker!Humanized(msg) = Tracker!OfStatus(status)
  <2> SUFFICES ASSUME kind = "status"
               PROVE  /\ Tracker!ShortCode(msg) = status
                      /\ "timeout" \notin words => Tracker!Humanized(msg) = Tracker!OfStatus(status)
    OBVIOUS
  <2>1. numbers \in Seq(400 .. 599) /\ status \in 400 .. 599 /\ status # 0
    BY TrackerAssumption
  <2>2. msg.numbers # <<>> /\ msg.numbers[1] = status
    <3>1. \A a \in Seq(400 .. 599) : LET b == <<status>> \o a IN Len(b) = 1 + Len(a) /\ Len(a) \in Nat /\ b[1] = status
      BY <2>1
    <3>2. Len(msg.numbers) # 0 /\ msg.numbers[1] = status
      BY <1>3, <2>1, <3>1
    <3> QED BY <3>2
  <2>3. Tracker!Status(msg) = status
    BY <2>2 DEF Tracker!Status
  <2>4. msg.words = words /\ words \subseteq {"timeout", "tasks"}
    BY <1>3
  <2>5. Tracker!ShortCode(msg) = status
    BY <2>1, <2>3 DEF Tracker!ShortCode
  <2>6. ASSUME "timeout" \notin words PROVE Tracker!Humanized(msg) = Tracker!OfStatus(status)
    <3>1. msg.words \subseteq {"tasks"}
      BY <2>4, <2>6
    <3>2. "dns" \notin msg.words /\ "refused" \notin msg.words /\ "connection" \notin msg.words
          /\ "timeout" \notin msg.words
      BY <3>1
    <3> QED BY <2>1, <2>3, <3>2 DEF Tracker!Humanized
  <2> QED BY <2>5, <2>6
<1>7. Tracker!Service(msg) = service
  BY <1>3, ServiceNamed
<1> QED BY <1>2, <1>4, <1>5, <1>6, <1>7 DEF TrackerHeard, msg, f

(* What is seen of a board. *)
BoardSeen(pages, max) ==
    LET all == FlattenSeq(pages)
        seen == Tracker!Existing(Tracker!Listed(pages, max))
        boards == [p \in DOMAIN pages |->
                     [i \in DOMAIN pages[p] |-> [id |-> IF pages[p][i].title = "" THEN "" ELSE pages[p][i].ref]]]
    IN /\ \A i \in DOMAIN all : i <= max /\ all[i].title # "" => all[i] \in seen
       /\ {l.id : l \in Tracker!Places(boards)} = {r.ref : r \in {x \in ToSet(all) : x.title # ""}}

(* All that has a title is seen, and every list is a place. *)
LEMMA PagesSeen ==
    ASSUME NEW pages \in Seq(Seq(Issues)), NEW max \in Nat
    PROVE  BoardSeen(pages, max)
<1> DEFINE all == FlattenSeq(pages)
           listed == Tracker!Listed(pages, max)
<1>1. all \in Seq(Issues) /\ listed \in Seq(Issues) /\ Begins(listed, all, max)
  BY ListedFirst
<1>2. ToSet(all) = UNION {ToSet(pages[k]) : k \in DOMAIN pages}
  BY FlatHas
<1> HIDE DEF all, listed
<1>3. \A i \in DOMAIN all : all[i].ref # Tracker!Absent
  <2>1. \A i \in DOMAIN all : all[i] \in Issues
    BY <1>1
  <2> QED BY <2>1 DEF Issues
<1>4. ASSUME NEW i \in DOMAIN all, i <= max, all[i].title # "" PROVE all[i] \in Tracker!Existing(listed)
  <2>1. /\ DOMAIN all = 1 .. Len(all) /\ DOMAIN listed = 1 .. Len(listed)
        /\ Len(all) \in Nat /\ Len(listed) \in Nat
    BY <1>1
  <2>2. i \in 1 .. Len(listed)
    <3>1. listed = all \/ Len(listed) >= max
      BY <1>1 DEF Begins
    <3>2. i \in 1 .. Len(all) /\ i <= max
      BY <1>4, <2>1
    <3>3. CASE listed = all
      BY <3>2, <3>3
    <3>4. CASE Len(listed) >= max
      <4>1. Len(listed) \in Nat /\ i \in Nat /\ 1 <= i /\ i <= max /\ max <= Len(listed)
        BY <2>1, <3>2, <3>4
      <4> QED BY <4>1
    <3> QED BY <3>1, <3>3, <3>4
  <2>3. listed[i] = all[i]
    BY <1>1, <2>2 DEF Begins
  <2>4. all[i] \in Tracker!ToSet(listed)
    BY <2>1, <2>2, <2>3 DEF Tracker!ToSet
  <2> QED BY <1>3, <1>4, <2>4 DEF Tracker!Existing, Tracker!Absent
<1> DEFINE boards == [p \in DOMAIN pages |->
                        [i \in DOMAIN pages[p] |-> [id |-> IF pages[p][i].title = "" THEN "" ELSE pages[p][i].ref]]]
           refs == {r.ref : r \in {x \in ToSet(all) : x.title # ""}}
           ids == {l.id : l \in Tracker!Places(boards)}
<1>5. ASSUME NEW r \in ToSet(all), r.title # "" PROVE r.ref \in ids
  <2>1. PICK p \in DOMAIN pages : r \in ToSet(pages[p])
    BY <1>2
  <2>2. PICK i \in DOMAIN pages[p] : r = pages[p][i]
    BY <2>1 DEF ToSet
  <2> DEFINE l == [id |-> r.ref]
  <2>3. boards[p][i] = l /\ p \in DOMAIN boards /\ i \in DOMAIN boards[p]
    BY <1>5, <2>2
  <2>4. r.ref # Tracker!Absent
    BY <1>3 DEF ToSet
  <2> HIDE DEF boards
  <2>5. l \in Tracker!ToSet(boards[p]) /\ l.id # Tracker!Absent
    BY <2>3, <2>4 DEF Tracker!ToSet
  <2> HIDE DEF l
  <2>6. l \in Tracker!Places(boards)
    BY <2>3, <2>5 DEF Tracker!Places
  <2>7. l.id = r.ref
    BY DEF l
  <2> QED BY <2>6, <2>7
<1>6. ASSUME NEW l \in Tracker!Places(boards) PROVE l.id \in refs
  <2>1. PICK p \in DOMAIN boards : l \in Tracker!ToSet(boards[p]) /\ l.id # ""
    <3> HIDE DEF boards
    <3> QED BY DEF Tracker!Places, Tracker!Absent
  <2>2. PICK i \in DOMAIN boards[p] : l = boards[p][i]
    BY <2>1 DEF Tracker!ToSet
  <2>3. p \in DOMAIN pages /\ i \in DOMAIN pages[p]
    BY <2>2
  <2> DEFINE x == pages[p][i]
  <2>4. l = [id |-> IF x.title = "" THEN "" ELSE x.ref]
    BY <2>2, <2>3
  <2>5. x \in ToSet(pages[p])
    BY <2>3 DEF ToSet
  <2> HIDE DEF x
  <2>6. x.title # "" /\ l.id = x.ref
    BY <2>1, <2>4
  <2>7. x \in ToSet(all)
    BY <1>2, <2>3, <2>5
  <2> QED BY <2>6, <2>7
<1>7. ids = refs
  BY <1>5, <1>6
<1> HIDE DEF ids, refs, boards
<1> QED BY <1>4, <1>7 DEF BoardSeen, all, listed, ids, refs, boards

(* Whatever pages a tracker answers with, they are seen like this. *)
LEMMA BoardHeard ==
    ASSUME TrackerAssumption, TrackerAnswers
    PROVE  TrackerHeard'
<1>1. PICK pages \in Boards, max \in Limits : input' = [of |-> "board", max |-> max, pages |-> pages]
  BY DEF TrackerAnswers
<1>2. input'.of = "board" /\ input'.max = max /\ input'.pages = pages
  BY <1>1
<1>3. BoardSeen(pages, max)
  BY TrackerAssumption, PagesSeen
<1>4. BoardSeen(input'.pages, input'.max)
  BY <1>2, <1>3
<1> QED BY <1>2, <1>4 DEF TrackerHeard, BoardSeen

(* A failed call is put down to its cause and a board is seen whole, whatever *)
(* else the text of the failure says and however many issues, pages and       *)
(* boards there are.                                                          *)
THEOREM TrackersAreHeard == ServiceSpec => []TrackerHeard
<1>1. Idle => TrackerHeard
  BY InputComes DEF TrackerHeard
<1>2. TrackerHeard /\ [SomethingComes]_input => TrackerHeard'
  <2> SUFFICES ASSUME TrackerHeard, [SomethingComes]_input PROVE TrackerHeard'
    OBVIOUS
  <2>1. CASE CallFails
    BY <2>1, TrackerAssumption, FailureHeard
  <2>2. CASE TrackerAnswers
    BY <2>2, TrackerAssumption, BoardHeard
  <2>3. CASE input'.of \notin {"failure", "board"}
    BY <2>3 DEF TrackerHeard
  <2>4. CASE UNCHANGED input
    BY <2>4 DEF TrackerHeard
  <2> QED BY <2>1, <2>2, <2>3, <2>4, InputComes DEF SomethingComes
<1> QED BY <1>1, <1>2, PTL DEF ServiceSpec

-----------------------------------------------------------------------------
(* What is made of the items of a reply.                                      *)

(* Ghosts are counted, and an item without any keeps its labels. *)
LEMMA GhostsCounted ==
    ASSUME NEW item \in RawItems, NEW team
    PROVE  /\ Model!Cardinality(Model!Ghosts(item, team)) \in Nat
           /\ Model!Cardinality(Model!Ghosts(item, team)) = 0 => Model!Ghosts(item, team) = {}
           /\ Model!Ghosts(item, team) = {} => Model!TaskOf(item, team).labels = item.labels
<1> DEFINE G == Model!Ghosts(item, team)
<1>1. item.labels \in Seq(STRING)
  BY DEF RawItems
<1>2. IsFiniteSet(DOMAIN item.labels)
  <2>1. DOMAIN item.labels = 1 .. Len(item.labels) /\ Len(item.labels) \in Int
    BY <1>1
  <2> QED BY <2>1, FS_Interval
<1>3. IsFiniteSet(G)
  <2>1. G \subseteq DOMAIN item.labels
    BY DEF Model!Ghosts
  <2> QED BY <1>2, <2>1, FS_Subset
<1>4. Model!Cardinality(G) = Cardinality(G)
  BY DEF Model!Cardinality, Cardinality
<1>5. Cardinality(G) \in Nat /\ (Cardinality(G) = 0 => G = {})
  <2> HIDE DEF G
  <2> QED BY <1>3, FS_CardinalityType, FS_EmptySet
<1>6. G = {} => Model!TaskOf(item, team).labels = item.labels
  <2> SUFFICES ASSUME G = {} PROVE Model!TaskOf(item, team).labels = item.labels
    OBVIOUS
  <2>1. Model!TaskOf(item, team).labels = [p \in DOMAIN item.labels \ G |-> item.labels[p]]
    BY DEF Model!TaskOf, Model!Restrict
  <2>2. item.labels = [p \in DOMAIN item.labels |-> item.labels[p]]
    BY <1>1
  <2> QED BY <2>1, <2>2
<1> QED BY <1>4, <1>5, <1>6

(* What of an item does not reach its task is counted. *)
LEMMA ChangesCounted ==
    ASSUME NEW item \in RawItems, NEW team
    PROVE  /\ Model!Corrections(item, team) \in Nat
           /\ Model!Dropped(item) => Model!Corrections(item, team) >= 1
           /\ ~Faithful(Model!TaskOf(item, team), item) => Model!Corrections(item, team) >= 1
<1> DEFINE g == Model!Cardinality(Model!Ghosts(item, team))
           p == item.priority \notin Model!Priorities \cup {"none", Model!Absent}
           a == item.assignee \notin team.members \cup {Model!Absent}
           d == item.due.text # Model!Absent /\ Model!Due(item.due) = Model!NoDay
           t == item.description = Model!Foreign
           task == Model!TaskOf(item, team)
<1>1. g \in Nat /\ (g = 0 => task.labels = item.labels)
  BY GhostsCounted
<1>2. /\ task.title = item.title
      /\ ~t => task.description = item.description
      /\ task.priority = Model!Priority(item.priority)
      /\ task.assignee = IF item.assignee \in team.members THEN item.assignee ELSE Model!Absent
      /\ task.due = Model!Due(item.due)
  BY DEF Model!TaskOf
<1>3. /\ item.title \in STRING /\ item.description \in STRING /\ item.priority \in STRING
      /\ item.assignee \in STRING /\ item.due \in [text : STRING, day : Int]
  BY DEF RawItems
<1>4. ~p => task.priority = item.priority \/ (task.priority = "none" /\ item.priority = Model!Absent)
  BY <1>2 DEF Model!Priority, Model!Priorities
<1>5. ~a => task.assignee = item.assignee
  BY <1>2
<1>6. ~d => task.due = IF item.due.text = Model!Absent THEN Model!NoDay ELSE item.due.day
  BY <1>2, <1>3 DEF Model!Due, Model!Absent
<1>7. Model!Corrections(item, team) =
        IF Model!Dropped(item) THEN 1
        ELSE Model!Count(p) + Model!Count(a) + g + Model!Count(d) + Model!Count(t)
  BY DEF Model!Corrections
<1> HIDE DEF p, a, d, t, g, task
<1>8. \A b : Model!Count(b) \in {0, 1} /\ (Model!Count(b) = 0 => ~b)
  BY DEF Model!Count
<1>9. Faithful(task, item) \/ p \/ a \/ d \/ t \/ g # 0
  BY <1>1, <1>2, <1>4, <1>5, <1>6 DEF Faithful
<1>10. /\ Model!Count(p) \in {0, 1} /\ Model!Count(a) \in {0, 1} /\ Model!Count(d) \in {0, 1} /\ Model!Count(t) \in {0, 1}
       /\ p => Model!Count(p) = 1
       /\ a => Model!Count(a) = 1
       /\ d => Model!Count(d) = 1
       /\ t => Model!Count(t) = 1
  BY DEF Model!Count
<1>11. ASSUME NEW w \in {0, 1}, NEW x \in {0, 1}, NEW y \in {0, 1}, NEW z \in {0, 1}, NEW k \in Nat
       PROVE  /\ w + x + k + y + z \in Nat
              /\ w = 1 \/ x = 1 \/ y = 1 \/ z = 1 \/ k # 0 => w + x + k + y + z >= 1
  OBVIOUS
<1>12. /\ Model!Count(p) + Model!Count(a) + g + Model!Count(d) + Model!Count(t) \in Nat
       /\ ~Faithful(task, item) => Model!Count(p) + Model!Count(a) + g + Model!Count(d) + Model!Count(t) >= 1
  <2> DEFINE w == Model!Count(p)
             x == Model!Count(a)
             y == Model!Count(d)
             z == Model!Count(t)
  <2>1. w \in {0, 1} /\ x \in {0, 1} /\ y \in {0, 1} /\ z \in {0, 1}
    BY <1>10
  <2>2. ~Faithful(task, item) => w = 1 \/ x = 1 \/ y = 1 \/ z = 1 \/ g # 0
    BY <1>9, <1>10
  <2> HIDE DEF w, x, y, z
  <2>3. w + x + g + y + z \in Nat /\ (w = 1 \/ x = 1 \/ y = 1 \/ z = 1 \/ g # 0 => w + x + g + y + z >= 1)
    BY <1>1, <1>11, <2>1
  <2>4. w + x + g + y + z \in Nat /\ (~Faithful(task, item) => w + x + g + y + z >= 1)
    BY <2>2, <2>3
  <2> QED BY <2>4 DEF w, x, y, z
<1>13. Model!Corrections(item, team) \in Nat
  BY <1>7, <1>12
<1>14. Model!Dropped(item) => Model!Corrections(item, team) >= 1
  BY <1>7
<1>15. ~Faithful(task, item) => Model!Corrections(item, team) >= 1
  BY <1>7, <1>12
<1> QED BY <1>13, <1>14, <1>15 DEF task

(* The corrections are added up, item after item. *)
Sums(items, team, n, c) ==
    /\ c \in [0 .. n -> Nat] /\ c[0] = 0
    /\ \A k \in 1 .. n : c[k] = c[k - 1] + Model!Corrections(items[k], team)
Summed(items, team, n, end) == \E c : Sums(items, team, n, c) /\ c[n] = end

(* The fold that Parsed is defined by adds them up like this. *)
LEMMA CorrectionsRun ==
    ASSUME NEW items \in Seq(RawItems), NEW team,
           Model!Parsed(items, team).outcome = "tasks"
    PROVE  Summed(items, team, Len(items), Model!Parsed(items, team).corrections)
<1> DEFINE n == Len(items)
           Add(m, item) == m + Model!Corrections(item, team)
           st == [p \in Nat \X (1 .. n) |-> Add(p[1], items[p[2]])]
           Eq(g) == g = [s \in SUBSET DOMAIN items |->
                           IF s = {} THEN 0 ELSE Add(g[s \ {Model!Max(s)}], items[Model!Max(s)])]
           it == CHOOSE g : Eq(g)
<1>1. n \in Nat /\ DOMAIN items = 1 .. n /\ \A i \in 1 .. n : items[i] \in RawItems
  OBVIOUS
<1>2. \A m \in Nat, i \in 1 .. n : Add(m, items[i]) \in Nat
  BY <1>1, ChangesCounted
<1>3. st \in [Nat \X (1 .. n) -> Nat]
  <2> HIDE DEF n, Add
  <2> QED BY <1>1, <1>2
<1>4. PICK g0 \in [SUBSET (1 .. n) -> Nat] : Folded(st, 0, g0, n)
  <2> HIDE DEF st, n
  <2>1. HasFold(st, 0, Nat, n)
    BY <1>1, <1>3, FoldExists
  <2> QED BY <2>1 DEF HasFold
<1>5. ASSUME NEW s \in SUBSET (1 .. n), s # {}
      PROVE  Max(s) \in 1 .. n /\ s \ {Max(s)} \in SUBSET (1 .. n)
  BY <1>1, <1>5, TopOf
<1>6. \A s : Model!Max(s) = Max(s)
  BY DEF Model!Max, Max
<1>7. ASSUME NEW m \in Nat, NEW k \in 1 .. n PROVE st[<<m, k>>] = Add(m, items[k])
  <2> HIDE DEF n, Add
  <2> QED OBVIOUS
<1> HIDE DEF n, st, Add
<1>8. Eq(g0)
  <2>1. ASSUME NEW s \in SUBSET (1 .. n)
        PROVE  g0[s] = IF s = {} THEN 0 ELSE Add(g0[s \ {Model!Max(s)}], items[Model!Max(s)])
    <3>1. CASE s = {}
      BY <1>4, <3>1 DEF Folded
    <3>2. CASE s # {}
      <4>1. g0[s] = st[<<g0[s \ {Max(s)}], Max(s)>>] /\ g0[s \ {Max(s)}] \in Nat
        BY <1>4, <1>5, <3>2 DEF Folded
      <4> QED BY <1>5, <1>6, <1>7, <3>2, <4>1
    <3> QED BY <3>1, <3>2
  <2> QED BY <1>1, <2>1
<1>9. Eq(it)
  <2> HIDE DEF Eq
  <2> QED BY <1>8
<1>10. Model!Parsed(items, team).corrections = it[DOMAIN items]
  <2>1. Model!Parsed(items, team).corrections = Model!FoldLeft(Add, 0, items)
    BY DEF Model!Parsed, Model!Refused, Add
  <2> QED BY <2>1 DEF Model!FoldLeft, Model!MapThenFoldSet, Add
<1>11. FoldsAlong(it, st, 0, Nat, n)
  <2> HIDE DEF it
  <2>1. \A s \in SUBSET (1 .. n) :
          it[s] = IF s = {} THEN 0 ELSE Add(it[s \ {Model!Max(s)}], items[Model!Max(s)])
    BY <1>1, <1>9
  <2>2. it[{}] = 0
    BY <2>1
  <2>3. ASSUME NEW s \in SUBSET (1 .. n), s # {}, it[s \ {Max(s)}] \in Nat
        PROVE  it[s] = st[<<it[s \ {Max(s)}], Max(s)>>]
    BY <1>5, <1>6, <1>7, <2>1, <2>3
  <2> QED BY <2>2, <2>3 DEF FoldsAlong
<1> HIDE DEF it, Eq
<1>12. PICK c \in [0 .. n -> Nat] :
         /\ c[0] = 0 /\ c[n] = it[1 .. n]
         /\ \A k \in 1 .. n : c[k] = st[<<c[k - 1], k>>]
  <2>1. HasRun(st, 0, Nat, n, it[1 .. n])
    BY <1>1, <1>3, <1>11, FoldRun
  <2> QED BY <2>1 DEF HasRun
<1>13. ASSUME NEW k \in 1 .. n PROVE c[k] = Add(c[k - 1], items[k])
  <2>1. c[k - 1] \in Nat
    BY <1>1
  <2> QED BY <1>7, <1>12, <2>1
<1>14. Sums(items, team, n, c) /\ c[n] = Model!Parsed(items, team).corrections
  BY <1>1, <1>10, <1>12, <1>13 DEF Sums, Add
<1> QED BY <1>14 DEF Summed, n

(* As many as lost are counted. *)
LEMMA LostCounted ==
    ASSUME NEW items \in Seq(RawItems), NEW team,
           Model!Parsed(items, team).outcome = "tasks",
           NEW lost \in SUBSET DOMAIN items,
           \A i \in lost : Model!Corrections(items[i], team) >= 1
    PROVE  Cardinality(lost) <= Model!Parsed(items, team).corrections
<1> DEFINE n == Len(items)
           end == Model!Parsed(items, team).corrections
           Upto(k) == lost \cap (1 .. k)
<1>1. n \in Nat /\ DOMAIN items = 1 .. n /\ \A i \in 1 .. n : items[i] \in RawItems
  OBVIOUS
<1>2. PICK c : Sums(items, team, n, c) /\ c[n] = end
  BY CorrectionsRun DEF Summed
<1> HIDE DEF n, end
<1> DEFINE S == {k \in Nat : k <= n => IsFiniteSet(Upto(k)) /\ Cardinality(Upto(k)) \in Nat
                                       /\ Cardinality(Upto(k)) <= c[k]}
<1>3. 0 \in S
  <2>1. Upto(0) = {}
    OBVIOUS
  <2> QED BY <1>2, <2>1, FS_EmptySet DEF Sums
<1>4. ASSUME NEW k \in Nat, k \in S PROVE k + 1 \in S
  <2> SUFFICES ASSUME k + 1 <= n
               PROVE  IsFiniteSet(Upto(k + 1)) /\ Cardinality(Upto(k + 1)) \in Nat
                      /\ Cardinality(Upto(k + 1)) <= c[k + 1]
    OBVIOUS
  <2>1. /\ k \in 0 .. n /\ k + 1 \in 1 .. n /\ (k + 1) - 1 = k
        /\ IsFiniteSet(Upto(k)) /\ Cardinality(Upto(k)) \in Nat /\ Cardinality(Upto(k)) <= c[k]
    BY <1>1, <1>4
  <2> DEFINE x == Model!Corrections(items[k + 1], team)
  <2>2. x \in Nat /\ (k + 1 \in lost => x >= 1)
    BY <1>1, <2>1, ChangesCounted
  <2>3. c[k] \in Nat /\ c[k + 1] = c[k] + x
    <3>1. c[k] \in Nat /\ c[k + 1] = c[(k + 1) - 1] + x
      BY <1>2, <2>1 DEF Sums
    <3> QED BY <2>1, <3>1
  <2> HIDE DEF x
  <2>4. CASE k + 1 \in lost
    <3>1. Upto(k + 1) = Upto(k) \cup {k + 1} /\ k + 1 \notin Upto(k)
      BY <2>4
    <3> HIDE DEF Upto
    <3>2. IsFiniteSet(Upto(k + 1)) /\ Cardinality(Upto(k + 1)) = Cardinality(Upto(k)) + 1
      BY <2>1, <3>1, FS_AddElement
    <3> QED BY <2>1, <2>2, <2>3, <2>4, <3>2
  <2>5. CASE k + 1 \notin lost
    <3>1. Upto(k + 1) = Upto(k)
      <4>1. 1 .. k + 1 = (1 .. k) \cup {k + 1}
        OBVIOUS
      <4> QED BY <2>5, <4>1
    <3> HIDE DEF Upto
    <3> QED BY <2>1, <2>2, <2>3, <3>1
  <2> QED BY <2>4, <2>5
<1>5. n \in S
  <2> HIDE DEF S
  <2> QED BY <1>1, <1>3, <1>4, SetInduction
<1>6. Upto(n) = lost
  BY <1>1
<1> HIDE DEF Upto
<1> QED BY <1>1, <1>2, <1>5, <1>6 DEF end

(* The fields of a task: those the model told, and those that no record has. *)
Extracted == {"title", "description", "priority", "assignee", "labels", "due"}
Transient == {"match", "action"}
TaskFields == DOMAIN Model!Defaults

(* They are apart, and what is kept of a reply is what the model told. *)
LEMMA FieldsNamed ==
    /\ TaskFields = Extracted \cup Transient
                    \cup {"selected", "status", "identifier", "url", "ref", "error"}
    /\ \A f \in Extracted : f \notin Transient
    /\ "status" \notin Transient /\ "identifier" \notin Transient /\ "ref" \notin Transient
    /\ Model!RawFields = Extracted
<1>1. TaskFields = Extracted \cup Transient
                   \cup {"selected", "status", "identifier", "url", "ref", "error"}
  BY DEF TaskFields, Extracted, Transient, Model!Defaults
<1> QED BY <1>1 DEF Extracted, Transient, Model!RawFields

(* What is written of a task is read again as it was, if nothing had been     *)
(* found on the board. *)
LEMMA SavedIsLoaded ==
    ASSUME NEW task, task = [f \in TaskFields |-> task[f]],
           task["priority"] \in Model!Priorities \cup {"none"},
           \A f \in Transient : task[f] = Model!Defaults[f]
    PROVE  /\ Model!Loaded(Model!Saved(task)) = task
           /\ (\A f \in TaskFields \ Extracted : task[f] = Model!Defaults[f]) => Model!Loaded(Model!Raw(task)) = task
<1>1. Model!Priority(task["priority"]) = task["priority"]
  BY DEF Model!Priority, Model!Priorities
<1>2. ASSUME NEW r, r = [f \in DOMAIN r |-> task[f]], DOMAIN r \subseteq TaskFields,
             \A f \in TaskFields \ DOMAIN r : task[f] = Model!Defaults[f]
      PROVE  Model!Loaded(r) = task
  <2> DEFINE q == [f \in DOMAIN r |-> IF f = "priority" THEN Model!Priority(r[f]) ELSE r[f]]
  <2>1. \A f \in DOMAIN r : q[f] = task[f]
    <3>1. \A f \in DOMAIN r : r[f] = task[f]
      BY <1>2
    <3> QED BY <1>1, <3>1
  <2>2. DOMAIN q = DOMAIN r
    OBVIOUS
  <2>3. Model!Loaded(r) = Model!Fresh(q)
    BY DEF Model!Loaded
  <2> HIDE DEF q
  <2>4. Model!Fresh(q) = [f \in TaskFields |-> IF f \in DOMAIN q THEN q[f] ELSE Model!Defaults[f]]
    BY DEF Model!Fresh, TaskFields
  <2>5. \A f \in TaskFields : (IF f \in DOMAIN q THEN q[f] ELSE Model!Defaults[f]) = task[f]
    BY <1>2, <2>1, <2>2
  <2>6. Model!Fresh(q) = [f \in TaskFields |-> task[f]]
    BY <2>4, <2>5
  <2> QED BY <2>3, <2>6
<1>3. Model!Loaded(Model!Saved(task)) = task
  <2> DEFINE r == Model!Saved(task)
  <2>1. r = [f \in TaskFields \ Transient |-> task[f]]
    BY DEF Model!Saved, TaskFields, Transient
  <2>2. DOMAIN r = TaskFields \ Transient /\ r = [f \in DOMAIN r |-> task[f]]
    BY <2>1
  <2> HIDE DEF r
  <2>3. Model!Loaded(r) = task
    BY <1>2, <2>2
  <2> QED BY <2>3 DEF r
<1>4. ASSUME \A f \in TaskFields \ Extracted : task[f] = Model!Defaults[f]
      PROVE  Model!Loaded(Model!Raw(task)) = task
  <2> DEFINE r == Model!Raw(task)
  <2>1. r = [f \in Extracted |-> task[f]]
    BY FieldsNamed DEF Model!Raw
  <2>2. DOMAIN r = Extracted /\ r = [f \in DOMAIN r |-> task[f]]
    BY <2>1
  <2> HIDE DEF r
  <2>3. Model!Loaded(r) = task
    BY <1>2, <1>4, <2>2, FieldsNamed
  <2> QED BY <2>3 DEF r
<1> QED BY <1>3, <1>4

(* A task of the program, with all its fields. *)
HasFields(task) == task = [f \in TaskFields |-> task[f]] /\ task["priority"] \in Model!Priorities \cup {"none"}

(* A task that was just made of an item. *)
Made(task, team) ==
    /\ HasFields(task)
    /\ \A f \in TaskFields \ Extracted : task[f] = Model!Defaults[f]
    /\ task.assignee \in team.members \cup {""}
    /\ ToSet(task.labels) \subseteq team.labels

(* What the constructor makes of the checked item is one. *)
LEMMA FreshMade ==
    ASSUME NEW item \in RawItems, NEW team
    PROVE  Made(Model!Fresh(Model!TaskOf(item, team)), team)
<1> DEFINE t == Model!TaskOf(item, team)
           task == Model!Fresh(t)
<1>1. /\ DOMAIN t = Extracted
      /\ t["priority"] = Model!Priority(item.priority)
      /\ t["assignee"] = IF item.assignee \in team.members THEN item.assignee ELSE ""
      /\ t["labels"] = [p \in DOMAIN item.labels \ Model!Ghosts(item, team) |-> item.labels[p]]
  BY DEF Model!TaskOf, Model!Restrict, Extracted, Model!Absent
<1> HIDE DEF t
<1>2. task = [f \in TaskFields |-> IF f \in Extracted THEN t[f] ELSE Model!Defaults[f]]
  BY <1>1 DEF Model!Fresh, TaskFields
<1>3. Extracted \subseteq TaskFields /\ {"priority", "assignee", "labels"} \subseteq Extracted
  BY FieldsNamed DEF Extracted
<1> HIDE DEF task
<1>4. /\ task = [f \in TaskFields |-> task[f]]
      /\ \A f \in TaskFields \ Extracted : task[f] = Model!Defaults[f]
      /\ task["priority"] = t["priority"] /\ task["assignee"] = t["assignee"] /\ task["labels"] = t["labels"]
  BY <1>2, <1>3
<1>5. task["priority"] \in Model!Priorities \cup {"none"}
  BY <1>1, <1>4 DEF Model!Priority
<1>6. task.assignee \in team.members \cup {""}
  BY <1>1, <1>4
<1>7. ToSet(task.labels) \subseteq team.labels
  <2>1. \A p \in DOMAIN item.labels \ Model!Ghosts(item, team) : item.labels[p] \in team.labels
    BY DEF Model!Ghosts
  <2>2. task.labels = [p \in DOMAIN item.labels \ Model!Ghosts(item, team) |-> item.labels[p]]
    BY <1>1, <1>4
  <2> QED BY <2>1, <2>2 DEF ToSet
<1>8. Made(task, team)
  BY <1>4, <1>5, <1>6, <1>7 DEF Made, HasFields
<1> QED BY <1>8 DEF task, t

(* The fields that a card of a tracker is to have. *)
Wanted(service, task) ==
    {"title"}
    \cup (IF task.priority = "none" THEN {} ELSE {IF service = "trello" THEN "description" ELSE "priority"})
    \cup (IF task.description = "" THEN {} ELSE {"description"})
    \cup (IF service = "glide" THEN {"key"}
          ELSE (IF task.assignee = "" THEN {} ELSE {"assignee"})
               \cup (IF task.labels = <<>> THEN {} ELSE {"labels"})
               \cup (IF task.due = Model!NoDay THEN {} ELSE {"due"}))

(* It has them, with what the task says. *)
LEMMA CardSays ==
    ASSUME NEW service \in {"linear", "glide", "trello"}, NEW task, NEW local
    PROVE  LET card == Tracker!Card(service, task, local)
           IN /\ DOMAIN card = Wanted(service, task)
              /\ \A f \in DOMAIN card \ {"priority", "description", "key"} : card[f] = task[f]
<1> DEFINE given == Tracker!Given(task)
           card == Tracker!Card(service, task, local)
<1>1. /\ given \subseteq {"description", "priority", "assignee", "labels", "due"}
      /\ "description" \in given <=> task.description # ""
      /\ "priority" \in given <=> task.priority # "none"
      /\ "assignee" \in given <=> task.assignee # ""
      /\ "labels" \in given <=> task.labels # <<>>
      /\ "due" \in given <=> task.due # Model!NoDay
  <2>1. /\ DOMAIN Tracker!Empty = {"description", "priority", "assignee", "labels", "due"}
        /\ Tracker!Empty["description"] = "" /\ Tracker!Empty["priority"] = "none"
        /\ Tracker!Empty["assignee"] = "" /\ Tracker!Empty["labels"] = <<>>
    BY DEF Tracker!Empty, Tracker!Absent
  <2>2. Tracker!Empty["due"] = Model!NoDay
    BY DEF Tracker!Empty, Tracker!NoDay, Model!NoDay
  <2>3. given = {f \in {"description", "priority", "assignee", "labels", "due"} : task[f] # Tracker!Empty[f]}
    BY <2>1 DEF Tracker!Given
  <2> HIDE DEF given
  <2>4. /\ given \subseteq {"description", "priority", "assignee", "labels", "due"}
        /\ "description" \in given <=> task["description"] # Tracker!Empty["description"]
        /\ "priority" \in given <=> task["priority"] # Tracker!Empty["priority"]
        /\ "assignee" \in given <=> task["assignee"] # Tracker!Empty["assignee"]
        /\ "labels" \in given <=> task["labels"] # Tracker!Empty["labels"]
        /\ "due" \in given <=> task["due"] # Tracker!Empty["due"]
    BY <2>3
  <2> QED BY <2>1, <2>2, <2>4
<1>2. /\ DOMAIN card = Tracker!Fields(service, given)
      /\ \A f \in Tracker!Fields(service, given) : f \notin {"priority", "description", "key"} => card[f] = task[f]
  BY DEF Tracker!Card
<1> HIDE DEF given, card
<1>3. CASE service = "linear"
  <2>1. Tracker!Fields(service, given) = {"title"} \cup given
    BY <1>3 DEF Tracker!Fields
  <2>2. Wanted(service, task) = {"title"} \cup given
    BY <1>1, <1>3 DEF Wanted
  <2> QED BY <1>2, <2>1, <2>2 DEF card
<1>4. CASE service = "glide"
  <2>1. Tracker!Fields(service, given) = {"title", "key"} \cup (given \cap {"description", "priority"})
    BY <1>4 DEF Tracker!Fields
  <2>2. Wanted(service, task) = {"title", "key"} \cup (given \cap {"description", "priority"})
    BY <1>1, <1>4 DEF Wanted
  <2> QED BY <1>2, <2>1, <2>2 DEF card
<1>5. CASE service = "trello"
  <2>1. Tracker!Fields(service, given) = {"title"} \cup (given \ {"priority"})
                                         \cup (IF "priority" \in given THEN {"description"} ELSE {})
    BY <1>5 DEF Tracker!Fields
  <2>2. Wanted(service, task) = {"title"} \cup (given \ {"priority"})
                                \cup (IF "priority" \in given THEN {"description"} ELSE {})
    <3>1. given \ {"priority"} = (IF task.description = "" THEN {} ELSE {"description"})
                                \cup (IF task.assignee = "" THEN {} ELSE {"assignee"})
                                \cup (IF task.labels = <<>> THEN {} ELSE {"labels"})
                                \cup (IF task.due = Model!NoDay THEN {} ELSE {"due"})
      BY <1>1
    <3>2. (IF "priority" \in given THEN {"description"} ELSE {})
            = (IF task.priority = "none" THEN {} ELSE {"description"})
      BY <1>1
    <3>3. service # "glide" /\ service = "trello"
      BY <1>5
    <3> QED BY <3>1, <3>2, <3>3 DEF Wanted
  <2> QED BY <1>2, <2>1, <2>2 DEF card
<1> QED BY <1>3, <1>4, <1>5

(* A task that is sent keeps what is addressed on its card in the file. *)
LEMMA SentIsLoaded ==
    ASSUME NEW task, NEW team, Made(task, team), NEW service \in {"linear", "glide", "trello"}
    PROVE  LET made == Tracker!Created(service, [id |-> "id", number |-> "", short |-> "short"])
               sent == [task EXCEPT !.status = "sent", !.ref = made.ref, !.identifier = made.shown]
           IN /\ Model!Loaded(Model!Saved(sent)) = sent
              /\ sent.ref # "" /\ (service # "linear" => sent.identifier # "")
<1> DEFINE made == Tracker!Created(service, [id |-> "id", number |-> "", short |-> "short"])
           sent == [task EXCEPT !.status = "sent", !.ref = made.ref, !.identifier = made.shown]
<1>1. made.ref = "id" /\ (service # "linear" => made.shown # "")
  BY DEF Tracker!Created, Tracker!Absent
<1> HIDE DEF made
<1>2. DOMAIN task = TaskFields
  BY DEF Made, HasFields
<1>3. {"status", "ref", "identifier", "priority"} \subseteq TaskFields /\ Transient \subseteq TaskFields
      /\ {"status", "ref", "identifier", "priority"} \cap Transient = {}
  BY FieldsNamed DEF Extracted, Transient
<1>4. /\ DOMAIN sent = TaskFields /\ sent = [f \in TaskFields |-> sent[f]]
      /\ sent["ref"] = made.ref /\ sent["identifier"] = made.shown
      /\ \A f \in TaskFields \ {"status", "ref", "identifier"} : sent[f] = task[f]
  BY <1>2, <1>3
<1> HIDE DEF sent
<1>5. sent["priority"] \in Model!Priorities \cup {"none"} /\ \A f \in Transient : sent[f] = Model!Defaults[f]
  <2>1. \A f \in Transient : f \in TaskFields \ Extracted
    BY <1>3, FieldsNamed
  <2> QED BY <1>3, <1>4, <2>1 DEF Made, HasFields
<1>6. Model!Loaded(Model!Saved(sent)) = sent
  BY <1>4, <1>5, SavedIsLoaded
<1> QED BY <1>1, <1>4, <1>6 DEF sent, made

(* What becomes of the items of a reply. *)
Carried(items, board, service) ==
    LET team == TeamOf(board)
        read == Model!Parsed(items, team)
        kept == {i \in DOMAIN items : ~Model!Dropped(items[i])}
        changed == {i \in kept : ~Faithful(read.tasks[i], items[i])}
        wanted(task) == {"title"}
          \cup (IF task.priority = "none" THEN {} ELSE {IF service = "trello" THEN "description" ELSE "priority"})
          \cup (IF task.description = "" THEN {} ELSE {"description"})
          \cup (IF service = "glide" THEN {"key"}
                ELSE (IF task.assignee = "" THEN {} ELSE {"assignee"})
                     \cup (IF task.labels = <<>> THEN {} ELSE {"labels"})
                     \cup (IF task.due = Model!NoDay THEN {} ELSE {"due"}))
    IN read.outcome = "tasks" =>
         /\ DOMAIN read.tasks = kept
         /\ Cardinality((DOMAIN items \ kept) \cup changed) <= read.corrections
         /\ \A i \in kept :
              LET task == Model!Loaded(Model!Saved(Model!Fresh(read.tasks[i])))
                  card == Tracker!Card(service, task, i)
                  made == Tracker!Created(service, [id |-> "id", number |-> "", short |-> "short"])
                  sent == [task EXCEPT !.status = "sent", !.ref = made.ref, !.identifier = made.shown]
              IN /\ Model!Loaded(Model!Saved(sent)) = sent
                 /\ sent.ref # "" /\ (service # "linear" => sent.identifier # "")
                 /\ task.assignee \in team.members \cup {""}
                 /\ ToSet(task.labels) \subseteq team.labels
                 /\ task = Model!Fresh(read.tasks[i])
                 /\ Model!Loaded(Model!Raw(task)) = task
                 /\ DOMAIN card = wanted(task)
                 /\ \A f \in DOMAIN card \ {"priority", "description", "key"} : card[f] = task[f]

(* Every item is a task that its card tells, or is counted. *)
LEMMA ItemsCarried ==
    ASSUME NEW items \in Seq(RawItems), NEW board, NEW service \in {"linear", "glide", "trello"}
    PROVE  Carried(items, board, service)
<1> DEFINE team == TeamOf(board)
           read == Model!Parsed(items, team)
           kept == {i \in DOMAIN items : ~Model!Dropped(items[i])}
           changed == {i \in kept : ~Faithful(read.tasks[i], items[i])}
<1> HIDE DEF team
<1> SUFFICES ASSUME read.outcome = "tasks"
             PROVE  /\ DOMAIN read.tasks = kept
                    /\ Cardinality((DOMAIN items \ kept) \cup changed) <= read.corrections
                    /\ \A i \in kept :
                         LET task == Model!Loaded(Model!Saved(Model!Fresh(read.tasks[i])))
                             card == Tracker!Card(service, task, i)
                             made == Tracker!Created(service, [id |-> "id", number |-> "", short |-> "short"])
                             sent == [task EXCEPT !.status = "sent", !.ref = made.ref, !.identifier = made.shown]
                         IN /\ Model!Loaded(Model!Saved(sent)) = sent
                            /\ sent.ref # "" /\ (service # "linear" => sent.identifier # "")
                            /\ task.assignee \in team.members \cup {""}
                            /\ ToSet(task.labels) \subseteq team.labels
                            /\ task = Model!Fresh(read.tasks[i])
                            /\ Model!Loaded(Model!Raw(task)) = task
                            /\ DOMAIN card = Wanted(service, task)
                            /\ \A f \in DOMAIN card \ {"priority", "description", "key"} : card[f] = task[f]
  BY DEF Carried, Wanted, team
<1>1. read.tasks = [i \in kept |-> Model!TaskOf(items[i], team)]
  BY DEF Model!Parsed, Model!Refused
<1>2. \A i \in DOMAIN items : items[i] \in RawItems
  OBVIOUS
<1>3. DOMAIN read.tasks = kept /\ \A i \in kept : read.tasks[i] = Model!TaskOf(items[i], team)
  BY <1>1
<1>4. Cardinality((DOMAIN items \ kept) \cup changed) <= read.corrections
  <2> DEFINE lost == (DOMAIN items \ kept) \cup changed
  <2>1. lost \in SUBSET DOMAIN items
    OBVIOUS
  <2>2. \A i \in lost : Model!Corrections(items[i], team) >= 1
    <3>1. ASSUME NEW i \in DOMAIN items \ kept PROVE Model!Corrections(items[i], team) >= 1
      BY <1>2, ChangesCounted
    <3>2. ASSUME NEW i \in changed PROVE Model!Corrections(items[i], team) >= 1
      BY <1>2, <1>3, ChangesCounted
    <3> QED BY <3>1, <3>2
  <2> HIDE DEF lost
  <2>3. Cardinality(lost) <= read.corrections
    BY <2>1, <2>2, LostCounted
  <2> QED BY <2>3 DEF lost
<1>5. ASSUME NEW i \in kept
      PROVE  LET task == Model!Loaded(Model!Saved(Model!Fresh(read.tasks[i])))
                 card == Tracker!Card(service, task, i)
                 made == Tracker!Created(service, [id |-> "id", number |-> "", short |-> "short"])
                 sent == [task EXCEPT !.status = "sent", !.ref = made.ref, !.identifier = made.shown]
             IN /\ Model!Loaded(Model!Saved(sent)) = sent
                /\ sent.ref # "" /\ (service # "linear" => sent.identifier # "")
                /\ task.assignee \in team.members \cup {""}
                /\ ToSet(task.labels) \subseteq team.labels
                /\ task = Model!Fresh(read.tasks[i])
                /\ Model!Loaded(Model!Raw(task)) = task
                /\ DOMAIN card = Wanted(service, task)
                /\ \A f \in DOMAIN card \ {"priority", "description", "key"} : card[f] = task[f]
  <2> DEFINE fresh == Model!Fresh(read.tasks[i])
  <2>1. Made(fresh, team)
    BY <1>2, <1>3, FreshMade
  <2> HIDE DEF fresh, read
  <2>2. Model!Loaded(Model!Saved(fresh)) = fresh /\ Model!Loaded(Model!Raw(fresh)) = fresh
    <3>1. \A f \in Transient : f \in TaskFields \ Extracted
      BY FieldsNamed
    <3> QED BY <2>1, <3>1, SavedIsLoaded DEF Made, HasFields
  <2> DEFINE made == Tracker!Created(service, [id |-> "id", number |-> "", short |-> "short"])
             sent == [fresh EXCEPT !.status = "sent", !.ref = made.ref, !.identifier = made.shown]
             card == Tracker!Card(service, fresh, i)
  <2>3. /\ Model!Loaded(Model!Saved(sent)) = sent
        /\ sent.ref # "" /\ (service # "linear" => sent.identifier # "")
    BY ZenonT(30), <2>1, SentIsLoaded
  <2>4. /\ DOMAIN card = Wanted(service, fresh)
        /\ \A f \in DOMAIN card \ {"priority", "description", "key"} : card[f] = fresh[f]
    BY CardSays
  <2>5. fresh.assignee \in team.members \cup {""} /\ ToSet(fresh.labels) \subseteq team.labels
    BY <2>1 DEF Made
  <2> DEFINE task == Model!Loaded(Model!Saved(fresh))
  <2>6. task = fresh
    BY <2>2
  <2> HIDE DEF task
  <2>7. LET c == Tracker!Card(service, task, i)
            s == [task EXCEPT !.status = "sent", !.ref = made.ref, !.identifier = made.shown]
        IN /\ Model!Loaded(Model!Saved(s)) = s
           /\ s.ref # "" /\ (service # "linear" => s.identifier # "")
           /\ task.assignee \in team.members \cup {""}
           /\ ToSet(task.labels) \subseteq team.labels
           /\ task = fresh
           /\ Model!Loaded(Model!Raw(task)) = task
           /\ DOMAIN c = Wanted(service, task)
           /\ \A f \in DOMAIN c \ {"priority", "description", "key"} : c[f] = task[f]
    BY ZenonT(30), <2>2, <2>3, <2>4, <2>5, <2>6
  <2> QED BY <2>7, ZenonT(30) DEF task, fresh
<1> HIDE DEF read, changed
<1> QED BY <1>3, <1>4, <1>5, ZenonT(30) DEF read, changed

(* Every item of a reply becomes a task that its file and its card tell as it *)
(* is, or is counted as a correction: for replies of any number of items and  *)
(* any team. *)
THEOREM ItemsReachCards == ServiceSpec => []ItemReachesCard
<1>a. ItemReachesCard <=> (input.of = "items" => Carried(input.items, input.board, input.service))
  BY Zenon DEF ItemReachesCard, Carried
<1>b. ItemReachesCard' <=> (input'.of = "items" => Carried(input'.items, input'.board, input'.service))
  BY Zenon DEF ItemReachesCard, Carried
<1>1. Idle => ItemReachesCard
  <2>1. Idle => input.of = "nothing"
    BY InputComes
  <2> QED BY <1>a, <2>1
<1>2. ItemReachesCard /\ [SomethingComes]_input => ItemReachesCard'
  <2> SUFFICES ASSUME ItemReachesCard, [SomethingComes]_input PROVE ItemReachesCard'
    OBVIOUS
  <2>1. CASE ItemsAreRead
    <3>1. PICK items \in Replies, board \in Teams, service \in ToSet(Tracker!Trackers) :
            input' = [of |-> "items", items |-> items, board |-> board, service |-> service]
      BY <2>1 DEF ItemsAreRead
    <3>2. input'.items = items /\ input'.board = board /\ input'.service = service
      BY <3>1
    <3>3. service \in {"linear", "glide", "trello"}
      <4> DEFINE names == <<"linear", "glide", "trello">>
      <4>1. DOMAIN names = 1 .. 3 /\ names[1] = "linear" /\ names[2] = "glide" /\ names[3] = "trello"
        OBVIOUS
      <4>2. service \in {names[k] : k \in DOMAIN names}
        BY DEF ToSet, Tracker!Trackers
      <4> HIDE DEF names
      <4> QED BY <4>1, <4>2
    <3>4. Carried(items, board, service)
      BY <3>3, ReplyAssumption, ItemsCarried
    <3>5. Carried(input'.items, input'.board, input'.service)
      BY <3>2, <3>4, Zenon
    <3> QED BY <1>b, <3>5
  <2>2. CASE input'.of # "items"
    BY <1>b, <2>2
  <2>3. CASE UNCHANGED input
    BY <1>a, <1>b, <2>3, Zenon
  <2>4. SomethingComes => ItemsAreRead \/ input'.of # "items"
    BY InputComes DEF SomethingComes
  <2> QED BY <2>1, <2>2, <2>3, <2>4
<1> QED BY <1>1, <1>2, PTL DEF ServiceSpec
-----------------------------------------------------------------------------
(* What is made of the note of a long meeting.                                *)

(* The chunks that are cut, the turns of the last one, and its length. *)
Pieces == [out : Seq(Seq(Turns)), turns : Seq(Turns), len : Int]
Limit(max) == IF max < Long!Least THEN Long!Least ELSE max
With(limit, a, t) ==
    LET more == t.len + IF a.turns = <<>> THEN 0 ELSE Long!Separator
    IN IF a.turns # <<>> /\ a.len + more > limit
       THEN [out |-> Long!Cut(a), turns |-> <<t>>, len |-> t.len]
       ELSE [a EXCEPT !.turns = Append(@, t), !.len = @ + more]
Cuts(turns, max, n, h) ==
    /\ h \in [0 .. n -> Pieces]
    /\ h[0] = Long!Empty /\ Long!Cut(h[n]) = Long!Chunks(turns, max)
    /\ \A k \in 1 .. n : h[k] = With(Limit(max), h[k - 1], turns[k])
HasCuts(turns, max, n) == \E h : Cuts(turns, max, n, h)

(* The chunks and the last one stay sequences of turns. *)
LEMMA WithTyped ==
    ASSUME NEW limit \in Nat, NEW a \in Pieces, NEW t \in Turns
    PROVE  With(limit, a, t) \in Pieces
<1>1. t.len \in Nat /\ <<t>> \in Seq(Turns) /\ Append(a.turns, t) \in Seq(Turns)
  BY DEF Pieces, Turns
<1>2. Long!Cut(a) \in Seq(Seq(Turns))
  <2>1. \A X : \A s \in Seq(X), x \in X : Append(s, x) \in Seq(X)
    OBVIOUS
  <2> QED BY <2>1 DEF Pieces, Long!Cut
<1>3. \A o \in Seq(Seq(Turns)), s \in Seq(Turns), l \in Int : [out |-> o, turns |-> s, len |-> l] \in Pieces
  BY DEF Pieces
<1>4. \A s \in Seq(Turns), l \in Int : [a EXCEPT !.turns = s, !.len = l] \in Pieces
  BY DEF Pieces
<1>5. a.len \in Int /\ Long!Separator \in Nat
  BY DEF Pieces, Long!Separator
<1> DEFINE more == t.len + IF a.turns = <<>> THEN 0 ELSE Long!Separator
<1>6. more \in Int /\ a.len + more \in Int
  <2>1. more \in Int
    BY <1>1, <1>5
  <2> HIDE DEF more
  <2> QED BY <1>5, <2>1
<1>7. [out |-> Long!Cut(a), turns |-> <<t>>, len |-> t.len] \in Pieces
  <2>1. t.len \in Int
    BY <1>1
  <2> QED BY <1>1, <1>2, <1>3, <2>1
<1>8. [a EXCEPT !.turns = Append(a.turns, t), !.len = a.len + more] \in Pieces
  BY <1>1, <1>4, <1>6
<1>9. With(limit, a, t) =
        IF a.turns # <<>> /\ a.len + more > limit
        THEN [out |-> Long!Cut(a), turns |-> <<t>>, len |-> t.len]
        ELSE [a EXCEPT !.turns = Append(a.turns, t), !.len = a.len + more]
  BY DEF With
<1> HIDE DEF more
<1> QED BY <1>7, <1>8, <1>9

(* The fold that chunk_transcript is modelled by takes one turn after the other. *)
LEMMA ChunksRun ==
    ASSUME NEW max \in Nat, NEW turns \in Seq(Turns)
    PROVE  HasCuts(turns, max, Len(turns))
<1> DEFINE n == Len(turns)
           A == Pieces
           a0 == Long!Empty
           Do(a, t) == With(Limit(max), a, t)
           st == [p \in A \X (1 .. n) |-> Do(p[1], turns[p[2]])]
           Eq(g) == g = [s \in SUBSET DOMAIN turns |->
                           IF s = {} THEN a0 ELSE Do(g[s \ {Long!Max(s)}], turns[Long!Max(s)])]
           it == CHOOSE g : Eq(g)
<1>1. n \in Nat /\ DOMAIN turns = 1 .. n /\ \A i \in 1 .. n : turns[i] \in Turns
  OBVIOUS
<1>2. a0 \in A /\ \A a \in A, t \in Turns : Do(a, t) \in A
  <2>1. Limit(max) \in Nat
    BY DEF Limit, Long!Least
  <2>2. a0 \in A
    BY DEF Pieces, Long!Empty
  <2> QED BY <2>1, <2>2, WithTyped
<1>3. st \in [A \X (1 .. n) -> A]
  <2> HIDE DEF A, n, Do
  <2> QED BY <1>1, <1>2
<1>4. PICK g0 \in [SUBSET (1 .. n) -> A] : Folded(st, a0, g0, n)
  <2> HIDE DEF st, A, n, a0
  <2>1. HasFold(st, a0, A, n)
    BY <1>1, <1>2, <1>3, FoldExists
  <2> QED BY <2>1 DEF HasFold
<1>5. ASSUME NEW s \in SUBSET (1 .. n), s # {}
      PROVE  Max(s) \in 1 .. n /\ s \ {Max(s)} \in SUBSET (1 .. n)
  BY <1>1, <1>5, TopOf
<1>6. \A s : Long!Max(s) = Max(s)
  BY DEF Long!Max, Max
<1>7. ASSUME NEW a \in A, NEW k \in 1 .. n PROVE st[<<a, k>>] = Do(a, turns[k])
  <2> HIDE DEF A, n, Do
  <2> QED OBVIOUS
<1> HIDE DEF st, A, n, Do, a0
<1>8. Eq(g0)
  <2>1. ASSUME NEW s \in SUBSET (1 .. n)
        PROVE  g0[s] = IF s = {} THEN a0 ELSE Do(g0[s \ {Long!Max(s)}], turns[Long!Max(s)])
    <3>1. CASE s = {}
      BY <1>4, <3>1 DEF Folded
    <3>2. CASE s # {}
      <4>1. g0[s] = st[<<g0[s \ {Max(s)}], Max(s)>>] /\ g0[s \ {Max(s)}] \in A
        BY <1>4, <1>5, <3>2 DEF Folded
      <4> QED BY <1>5, <1>6, <1>7, <3>2, <4>1
    <3> QED BY <3>1, <3>2
  <2> QED BY <1>1, <2>1
<1>9. Eq(it)
  <2> HIDE DEF Eq
  <2> QED BY <1>8
<1>10. Long!Chunks(turns, max) = Long!Cut(it[DOMAIN turns])
  BY DEF Long!Chunks, Long!FoldLeft, Long!MapThenFoldSet, Do, With, Limit, a0
<1>11. FoldsAlong(it, st, a0, A, n)
  <2> HIDE DEF it
  <2>1. \A s \in SUBSET (1 .. n) :
          it[s] = IF s = {} THEN a0 ELSE Do(it[s \ {Long!Max(s)}], turns[Long!Max(s)])
    BY <1>1, <1>9
  <2>2. it[{}] = a0
    BY <2>1
  <2>3. ASSUME NEW s \in SUBSET (1 .. n), s # {}, it[s \ {Max(s)}] \in A
        PROVE  it[s] = st[<<it[s \ {Max(s)}], Max(s)>>]
    BY <1>5, <1>6, <1>7, <2>1, <2>3
  <2> QED BY <2>2, <2>3 DEF FoldsAlong
<1> HIDE DEF it, Eq
<1>12. PICK h \in [0 .. n -> A] :
         /\ h[0] = a0 /\ h[n] = it[1 .. n]
         /\ \A k \in 1 .. n : h[k] = st[<<h[k - 1], k>>]
  <2>1. HasRun(st, a0, A, n, it[1 .. n])
    BY <1>1, <1>2, <1>3, <1>11, FoldRun
  <2> QED BY <2>1 DEF HasRun
<1>13. ASSUME NEW k \in 1 .. n PROVE h[k] = Do(h[k - 1], turns[k])
  <2>1. h[k - 1] \in A
    BY <1>1
  <2> QED BY <1>7, <1>12, <2>1
<1>14. Cuts(turns, max, n, h)
  BY <1>1, <1>10, <1>12, <1>13 DEF Cuts, A, Do, a0
<1> QED BY <1>14 DEF HasCuts, n

(* Partial sums from a0 on. *)
Sum(h, n, a0, c) ==
    /\ h \in [0 .. n -> Int]
    /\ h[0] = a0 /\ \A k \in 1 .. n : h[k] = h[k - 1] + c[k]

(* The length of a chunk is such a sum. *)
LEMMA LengthRuns ==
    ASSUME NEW chunk \in Seq(Turns)
    PROVE  \E h : /\ Sum(h, Len(chunk), -Long!Separator, [k \in 1 .. Len(chunk) |-> chunk[k].len + Long!Separator])
                  /\ h[Len(chunk)] = Length(chunk)
<1> DEFINE n == Len(chunk)
           A == Int
           a0 == -Long!Separator
           Do(a, t) == a + t.len + Long!Separator
           st == [p \in A \X (1 .. n) |-> Do(p[1], chunk[p[2]])]
           Eq(g) == g = [s \in SUBSET DOMAIN chunk |->
                           IF s = {} THEN a0 ELSE Do(g[s \ {Max(s)}], chunk[Max(s)])]
           it == CHOOSE g : Eq(g)
<1>1. n \in Nat /\ DOMAIN chunk = 1 .. n /\ \A i \in 1 .. n : chunk[i] \in Turns
  OBVIOUS
<1>2. a0 \in A /\ \A a \in A, t \in Turns : Do(a, t) \in A
  BY DEF Turns, Long!Separator
<1>3. st \in [A \X (1 .. n) -> A]
  <2> HIDE DEF A, n, Do
  <2> QED BY <1>1, <1>2
<1>4. PICK g0 \in [SUBSET (1 .. n) -> A] : Folded(st, a0, g0, n)
  <2> HIDE DEF st, A, n, a0
  <2>1. HasFold(st, a0, A, n)
    BY <1>1, <1>2, <1>3, FoldExists
  <2> QED BY <2>1 DEF HasFold
<1>5. ASSUME NEW s \in SUBSET (1 .. n), s # {}
      PROVE  Max(s) \in 1 .. n /\ s \ {Max(s)} \in SUBSET (1 .. n)
  BY <1>1, <1>5, TopOf
<1>7. ASSUME NEW a \in A, NEW k \in 1 .. n PROVE st[<<a, k>>] = Do(a, chunk[k])
  <2> HIDE DEF A, n, Do
  <2> QED OBVIOUS
<1> HIDE DEF st, A, n, Do, a0
<1>8. Eq(g0)
  <2>1. ASSUME NEW s \in SUBSET (1 .. n)
        PROVE  g0[s] = IF s = {} THEN a0 ELSE Do(g0[s \ {Max(s)}], chunk[Max(s)])
    <3>1. CASE s = {}
      BY <1>4, <3>1 DEF Folded
    <3>2. CASE s # {}
      <4>1. g0[s] = st[<<g0[s \ {Max(s)}], Max(s)>>] /\ g0[s \ {Max(s)}] \in A
        BY <1>4, <1>5, <3>2 DEF Folded
      <4> QED BY <1>5, <1>7, <3>2, <4>1
    <3> QED BY <3>1, <3>2
  <2> QED BY <1>1, <2>1
<1>9. Eq(it)
  <2> HIDE DEF Eq
  <2> QED BY <1>8
<1>10. Length(chunk) = it[DOMAIN chunk]
  BY DEF Length, FoldLeft, MapThenFoldSet, Do, a0
<1>11. FoldsAlong(it, st, a0, A, n)
  <2> HIDE DEF it
  <2>1. \A s \in SUBSET (1 .. n) :
          it[s] = IF s = {} THEN a0 ELSE Do(it[s \ {Max(s)}], chunk[Max(s)])
    BY <1>1, <1>9
  <2>2. it[{}] = a0
    BY <2>1
  <2>3. ASSUME NEW s \in SUBSET (1 .. n), s # {}, it[s \ {Max(s)}] \in A
        PROVE  it[s] = st[<<it[s \ {Max(s)}], Max(s)>>]
    BY <1>5, <1>7, <2>1, <2>3
  <2> QED BY <2>2, <2>3 DEF FoldsAlong
<1> HIDE DEF it, Eq
<1>12. PICK h \in [0 .. n -> A] :
         /\ h[0] = a0 /\ h[n] = it[1 .. n]
         /\ \A k \in 1 .. n : h[k] = st[<<h[k - 1], k>>]
  <2>1. HasRun(st, a0, A, n, it[1 .. n])
    BY <1>1, <1>2, <1>3, <1>11, FoldRun
  <2> QED BY <2>1 DEF HasRun
<1>13. ASSUME NEW k \in 1 .. n PROVE h[k] = h[k - 1] + (chunk[k].len + Long!Separator)
  <2>1. h[k - 1] \in A
    BY <1>1
  <2>2. h[k] = Do(h[k - 1], chunk[k])
    BY <1>7, <1>12, <2>1
  <2>3. chunk[k].len \in Int /\ Long!Separator = 2 /\ h[k - 1] \in Int
    BY <1>1, <2>1 DEF A, Turns, Long!Separator
  <2>4. h[k] = h[k - 1] + chunk[k].len + Long!Separator
    BY <2>2 DEF Do
  <2> QED BY <2>3, <2>4
<1>14. Sum(h, n, a0, [k \in 1 .. n |-> chunk[k].len + Long!Separator])
  BY <1>12, <1>13 DEF Sum, A
<1> QED BY <1>1, <1>10, <1>12, <1>14 DEF n, a0

(* Two sums of which one has less in one place, or, when i is too much, in none. *)
Differ(n, a0, c, d, g, h, i, less) ==
    /\ n \in Nat /\ i \in 1 .. n + 1 /\ less \in Int
    /\ Sum(g, n, a0, c) /\ Sum(h, n, a0, d)
    /\ \A k \in 1 .. n : c[k] \in Int /\ d[k] = IF k = i THEN c[k] - less ELSE c[k]

(* They then differ by that. *)
LEMMA SumsDiffer ==
    ASSUME NEW n, NEW a0, NEW c, NEW d, NEW g, NEW h, NEW i, NEW less,
           Differ(n, a0, c, d, g, h, i, less)
    PROVE  h[n] = IF i <= n THEN g[n] - less ELSE g[n]
<1> USE DEF Differ
<1> DEFINE S == {k \in Nat : k <= n => h[k] = IF i <= k THEN g[k] - less ELSE g[k]}
<1>1. 0 \in S
  <2>1. h[0] = a0 /\ g[0] = a0 /\ ~(i <= 0)
    BY DEF Sum
  <2> QED BY <2>1
<1>2. ASSUME NEW k \in Nat, k \in S PROVE k + 1 \in S
  <2> SUFFICES ASSUME k + 1 <= n PROVE h[k + 1] = IF i <= k + 1 THEN g[k + 1] - less ELSE g[k + 1]
    OBVIOUS
  <2>1. k + 1 \in 1 .. n /\ (k + 1) - 1 = k /\ k \in 0 .. n
    OBVIOUS
  <2>2. h[k + 1] = h[k] + d[k + 1] /\ g[k + 1] = g[k] + c[k + 1] /\ g[k] \in Int
    BY <2>1 DEF Sum
  <2>3. h[k] = IF i <= k THEN g[k] - less ELSE g[k]
    BY <1>2, <2>1
  <2>4. c[k + 1] \in Int /\ d[k + 1] = IF k + 1 = i THEN c[k + 1] - less ELSE c[k + 1]
    BY <2>1
  <2> QED BY <2>2, <2>3, <2>4
<1>3. n \in S
  <2> HIDE DEF S
  <2> QED BY <1>1, <1>2, SetInduction
<1> QED BY <1>3

(* What a turn adds to the length of a chunk. *)
LEMMA LengthAppend ==
    ASSUME NEW chunk \in Seq(Turns), NEW t \in Turns
    PROVE  /\ Length(chunk) \in Int
           /\ Length(Append(chunk, t)) = Length(chunk) + t.len + Long!Separator
<1> DEFINE n == Len(chunk)
           more == Append(chunk, t)
           c == [k \in 1 .. n |-> chunk[k].len + Long!Separator]
           d == [k \in 1 .. n + 1 |-> more[k].len + Long!Separator]
<1>1. n \in Nat /\ more \in Seq(Turns) /\ Len(more) = n + 1 /\ more[n + 1] = t
  OBVIOUS
<1>2. \A k \in 1 .. n : more[k] = chunk[k] /\ c[k] \in Int /\ d[k] = c[k]
  <2> SUFFICES ASSUME NEW k \in 1 .. n PROVE more[k] = chunk[k] /\ c[k] \in Int /\ d[k] = c[k]
    OBVIOUS
  <2>1. more[k] = chunk[k] /\ chunk[k] \in Turns
    OBVIOUS
  <2>2. c[k] = chunk[k].len + Long!Separator
    OBVIOUS
  <2>3. d[k] = more[k].len + Long!Separator
    <3>1. k \in 1 .. n + 1
      OBVIOUS
    <3> HIDE DEF n, more
    <3> QED BY <3>1
  <2> HIDE DEF c, d, more
  <2> QED BY <2>1, <2>2, <2>3 DEF Turns, Long!Separator
<1>3. PICK g : Sum(g, n, -Long!Separator, c) /\ g[n] = Length(chunk)
  BY LengthRuns
<1>4. PICK h : Sum(h, n + 1, -Long!Separator, d) /\ h[n + 1] = Length(more)
  <2>1. \E h : Sum(h, Len(more), -Long!Separator, [k \in 1 .. Len(more) |-> more[k].len + Long!Separator])
               /\ h[Len(more)] = Length(more)
    <3> HIDE DEF more
    <3> QED BY <1>1, LengthRuns
  <2> QED BY <1>1, <2>1
<1>5. d[n + 1] = t.len + Long!Separator
  BY <1>1
<1> HIDE DEF n, more, c, d
<1> DEFINE h0 == [k \in 0 .. n |-> h[k]]
<1>6. Sum(h0, n, -Long!Separator, d) /\ h0[n] = h[n]
  <2>1. \A k \in 0 .. n : k \in 0 .. n + 1 /\ h[k] \in Int
    BY <1>1, <1>4 DEF Sum
  <2>2. \A k \in 1 .. n : k - 1 \in 0 .. n /\ k \in 0 .. n /\ k \in 1 .. n + 1 /\ h[k] = h[k - 1] + d[k]
    BY <1>1, <1>4 DEF Sum
  <2>3. h[0] = -Long!Separator /\ 0 \in 0 .. n /\ n \in 0 .. n
    BY <1>1, <1>4 DEF Sum
  <2> QED BY <2>1, <2>2, <2>3 DEF Sum
<1>7. h0[n] = g[n]
  <2> DEFINE a0 == -Long!Separator
             i == n + 1
             less == 0
  <2>1. a0 \in Int /\ i \in 1 .. n + 1 /\ less \in Int /\ ~(i <= n)
    BY <1>1 DEF Long!Separator
  <2>2. \A k \in 1 .. n : c[k] \in Int /\ d[k] = IF k = i THEN c[k] - less ELSE c[k]
    BY <1>1, <1>2
  <2>3. Sum(g, n, a0, c) /\ Sum(h0, n, a0, d)
    BY <1>3, <1>6
  <2> HIDE DEF h0, a0, i, less
  <2>4. Differ(n, a0, c, d, g, h0, i, less)
    BY <1>1, <2>1, <2>2, <2>3 DEF Differ
  <2>5. h0[n] = IF i <= n THEN g[n] - less ELSE g[n]
    BY <2>4, SumsDiffer
  <2> QED BY <2>1, <2>5
<1>8. h[n + 1] = h[n] + d[n + 1] /\ g[n] \in Int
  <2>1. n + 1 \in 1 .. n + 1 /\ (n + 1) - 1 = n /\ n \in 0 .. n
    BY <1>1
  <2> QED BY <1>3, <1>4, <2>1 DEF Sum
<1>9. t.len \in Int /\ Long!Separator \in Int
  BY DEF Turns, Long!Separator
<1>10. h[n + 1] = g[n] + t.len + Long!Separator
  BY <1>5, <1>6, <1>7, <1>8, <1>9
<1> QED BY <1>3, <1>4, <1>8, <1>10 DEF more

(* The length of a chunk of one turn. *)
LEMMA LengthFew ==
    ASSUME NEW t \in Turns
    PROVE  Length(<<t>>) = t.len
<1>1. <<>> \in Seq(Turns) /\ Append(<<>>, t) = <<t>> /\ Len(<<>>) = 0
  OBVIOUS
<1>2. Length(<<>>) = -Long!Separator
  <2>1. PICK h : Sum(h, 0, -Long!Separator, [k \in 1 .. 0 |-> <<>>[k].len + Long!Separator])
                 /\ h[0] = Length(<<>>)
    BY <1>1, LengthRuns
  <2> QED BY <2>1 DEF Sum
<1>3. Length(<<t>>) = Length(<<>>) + t.len + Long!Separator
  BY <1>1, LengthAppend
<1> QED BY <1>2, <1>3 DEF Long!Separator, Turns

(* What the chunks and the turns of the last one hold, and how long they are. *)
InChunks(a) == FlattenSeq(a.out) \o a.turns
Short(limit, chunks) == \A i \in DOMAIN chunks : Len(chunks[i]) > 1 => Length(chunks[i]) <= limit
CutInv(limit, a) ==
    /\ Short(limit, a.out)
    /\ a.len = IF a.turns = <<>> THEN 0 ELSE Length(a.turns)
    /\ Len(a.turns) > 1 => a.len <= limit

(* The last chunk is cut. *)
LEMMA CutKeeps ==
    ASSUME NEW limit \in Nat, NEW a \in Pieces, CutInv(limit, a)
    PROVE  Long!Cut(a) \in Seq(Seq(Turns)) /\ FlattenSeq(Long!Cut(a)) = InChunks(a) /\ Short(limit, Long!Cut(a))
<1>1. a.out \in Seq(Seq(Turns)) /\ a.turns \in Seq(Turns)
  BY DEF Pieces
<1>2. CASE a.turns = <<>>
  <2>1. FlattenSeq(a.out) \in Seq(Turns)
    BY <1>1, FlatAppend
  <2>2. FlattenSeq(a.out) \o a.turns = FlattenSeq(a.out)
    BY <1>2, <2>1, ConcatEmptySeq
  <2> QED BY <1>1, <1>2, <2>2 DEF Long!Cut, InChunks, CutInv
<1>3. CASE a.turns # <<>>
  <2> DEFINE more == Append(a.out, a.turns)
  <2>1. Long!Cut(a) = more
    BY <1>3 DEF Long!Cut
  <2>2. FlattenSeq(more) = FlattenSeq(a.out) \o a.turns
    BY <1>1, FlatAppend
  <2>3. more \in Seq(Seq(Turns)) /\ DOMAIN more = 1 .. Len(a.out) + 1 /\ more[Len(a.out) + 1] = a.turns
        /\ \A i \in DOMAIN a.out : more[i] = a.out[i]
    <3>1. \A X : \A s \in Seq(X), x \in X :
            /\ Append(s, x) \in Seq(X) /\ DOMAIN Append(s, x) = 1 .. Len(s) + 1
            /\ Append(s, x)[Len(s) + 1] = x
            /\ \A i \in DOMAIN s : Append(s, x)[i] = s[i]
      OBVIOUS
    <3> QED BY <1>1, <3>1
  <2>4. Len(a.turns) > 1 => Length(a.turns) <= limit
    BY <1>3 DEF CutInv
  <2>5. Short(limit, more)
    <3> SUFFICES ASSUME NEW i \in DOMAIN more, Len(more[i]) > 1 PROVE Length(more[i]) <= limit
      BY DEF Short
    <3>1. CASE i \in DOMAIN a.out
      <4>1. more[i] = a.out[i]
        BY <2>3, <3>1
      <4> HIDE DEF more
      <4> QED BY <3>1, <4>1 DEF CutInv, Short
    <3>2. CASE i \notin DOMAIN a.out
      <4>1. i = Len(a.out) + 1
        <5> HIDE DEF more
        <5> QED BY <1>1, <2>3, <3>2
      <4> HIDE DEF more
      <4> QED BY <2>3, <2>4, <4>1
    <3> QED BY <3>1, <3>2
  <2> HIDE DEF more
  <2> QED BY <2>1, <2>2, <2>3, <2>5 DEF InChunks
<1> QED BY <1>2, <1>3

(* One turn more: it is held, at the end, and what has several turns is short enough. *)
LEMMA WithKeeps ==
    ASSUME NEW limit \in Nat, NEW a \in Pieces, NEW t \in Turns, CutInv(limit, a)
    PROVE  /\ CutInv(limit, With(limit, a, t))
           /\ InChunks(With(limit, a, t)) = Append(InChunks(a), t)
<1> DEFINE more == t.len + IF a.turns = <<>> THEN 0 ELSE Long!Separator
           new == [out |-> Long!Cut(a), turns |-> <<t>>, len |-> t.len]
           on == [a EXCEPT !.turns = Append(a.turns, t), !.len = a.len + more]
<1>1. /\ a.out \in Seq(Seq(Turns)) /\ a.turns \in Seq(Turns) /\ a.len \in Int /\ t.len \in Int
      /\ FlattenSeq(a.out) \in Seq(Turns) /\ Long!Separator = 2
  <2>1. a.out \in Seq(Seq(Turns)) /\ a.turns \in Seq(Turns) /\ a.len \in Int
    BY DEF Pieces
  <2>2. FlattenSeq(a.out) \in Seq(Turns)
    BY <2>1, FlatAppend
  <2> QED BY <2>1, <2>2 DEF Turns, Long!Separator
<1>2. With(limit, a, t) = IF a.turns # <<>> /\ a.len + more > limit THEN new ELSE on
  BY DEF With
<1>3. CASE a.turns # <<>> /\ a.len + more > limit
  <2>1. CutInv(limit, new)
    <3>1. Short(limit, Long!Cut(a)) /\ Length(<<t>>) = t.len /\ Len(<<t>>) = 1 /\ <<t>> # <<>>
      BY CutKeeps, LengthFew
    <3> QED BY <3>1 DEF CutInv
  <2>2. FlattenSeq(Long!Cut(a)) \o <<t>> = Append(InChunks(a), t)
    <3>1. FlattenSeq(Long!Cut(a)) = InChunks(a) /\ InChunks(a) \in Seq(Turns)
      BY <1>1, CutKeeps, ConcatProperties DEF InChunks
    <3>2. \A s \in Seq(Turns) : s \o <<t>> = Append(s, t)
      OBVIOUS
    <3> QED BY <3>1, <3>2
  <2>3. InChunks(new) = FlattenSeq(Long!Cut(a)) \o <<t>>
    BY DEF InChunks
  <2> HIDE DEF new, on, more
  <2> QED BY <1>2, <1>3, <2>1, <2>2, <2>3
<1>4. CASE ~(a.turns # <<>> /\ a.len + more > limit)
  <2> DEFINE turns == Append(a.turns, t)
             len == a.len + more
  <2>1. on.out = a.out /\ on.turns = turns /\ on.len = len
    BY DEF Pieces
  <2>2. turns # <<>> /\ Len(turns) = Len(a.turns) + 1 /\ Len(a.turns) \in Nat
    <3>1. \A s \in Seq(Turns) : Append(s, t) # <<>> /\ Len(Append(s, t)) = Len(s) + 1 /\ Len(s) \in Nat
      OBVIOUS
    <3> QED BY <1>1, <3>1
  <2>3. len = Length(turns) /\ (Len(turns) > 1 => len <= limit)
    <3>1. CASE a.turns = <<>>
      <4>1. a.len = 0 /\ more = t.len /\ turns = <<t>> /\ Len(turns) = 1
        BY <1>1, <3>1 DEF CutInv
      <4> HIDE DEF more, turns
      <4> QED BY <1>1, <4>1, LengthFew
    <3>2. CASE a.turns # <<>>
      <4>1. a.len = Length(a.turns) /\ more = t.len + 2 /\ Length(turns) = Length(a.turns) + t.len + 2
        BY <1>1, <3>2, LengthAppend DEF CutInv
      <4>2. len <= limit
        <5>1. more \in Int
          BY <1>1, <4>1
        <5> HIDE DEF more
        <5> QED BY <1>1, <1>4, <3>2, <5>1
      <4> HIDE DEF more, turns
      <4> QED BY <1>1, <4>1, <4>2
    <3> QED BY <3>1, <3>2
  <2> HIDE DEF turns, len
  <2>4. CutInv(limit, on)
    BY <2>1, <2>2, <2>3 DEF CutInv
  <2>5. InChunks(on) = FlattenSeq(a.out) \o turns
    BY <2>1 DEF InChunks
  <2>6. FlattenSeq(a.out) \o turns = Append(InChunks(a), t)
    <3>1. FlattenSeq(a.out) \o Append(a.turns, t) = Append(FlattenSeq(a.out) \o a.turns, t)
      <4>1. \A p, q \in Seq(Turns) : p \o Append(q, t) = Append(p \o q, t)
        BY ConcatAppend
      <4> QED BY <1>1, <4>1
    <3> QED BY <3>1 DEF InChunks, turns
  <2> HIDE DEF new, on, more
  <2> QED BY <1>2, <1>4, <2>4, <2>5, <2>6
<1> QED BY <1>3, <1>4

(* The chunks of a note. *)
LEMMA ChunksWhole ==
    ASSUME NEW max \in Nat, NEW turns \in Seq(Turns)
    PROVE  /\ Long!Chunks(turns, max) \in Seq(Seq(Turns))
           /\ FlattenSeq(Long!Chunks(turns, max)) = turns
           /\ Short(Limit(max), Long!Chunks(turns, max))
<1> DEFINE n == Len(turns)
           limit == Limit(max)
<1>1. PICK h : Cuts(turns, max, n, h)
  BY ChunksRun DEF HasCuts
<1>2. n \in Nat /\ limit \in Nat
  BY DEF Limit, Long!Least
<1>3. \A k \in 0 .. n : h[k] \in Pieces
  BY <1>1 DEF Cuts
<1> DEFINE S == {k \in Nat : k <= n => CutInv(limit, h[k]) /\ InChunks(h[k]) = First(turns, k)}
<1>4. 0 \in S
  <2>1. h[0] = [out |-> <<>>, turns |-> <<>>, len |-> 0]
    BY <1>1 DEF Cuts, Long!Empty
  <2>2. Len(<<>>) = 0 /\ DOMAIN <<>> = {} /\ <<>> \o <<>> = <<>> /\ First(turns, 0) = <<>>
    BY FirstGrows, ConcatEmptySeq, EmptySeq
  <2>3. CutInv(limit, h[0]) /\ InChunks(h[0]) = <<>>
    BY <2>1, <2>2, FlatFew DEF CutInv, Short, InChunks
  <2> QED BY <2>2, <2>3
<1>5. ASSUME NEW k \in Nat, k \in S PROVE k + 1 \in S
  <2> SUFFICES ASSUME k + 1 <= n
               PROVE  CutInv(limit, h[k + 1]) /\ InChunks(h[k + 1]) = First(turns, k + 1)
    OBVIOUS
  <2>1. k + 1 \in 1 .. n /\ (k + 1) - 1 = k /\ k \in 0 .. n /\ k <= n
    BY <1>2
  <2>2. h[k + 1] = With(limit, h[k], turns[k + 1])
    BY <1>1, <2>1 DEF Cuts
  <2>3. turns[k + 1] \in Turns /\ First(turns, k + 1) = Append(First(turns, k), turns[k + 1])
    BY FirstGrows
  <2>4. CutInv(limit, h[k]) /\ InChunks(h[k]) = First(turns, k)
    BY <1>5, <2>1
  <2>5. h[k] \in Pieces
    BY <1>3, <2>1
  <2> QED BY ZenonT(30), <1>2, <2>1, <2>2, <2>3, <2>4, <2>5, WithKeeps
<1>6. n \in S
  <2> HIDE DEF S, n
  <2> QED BY <1>2, <1>4, <1>5, SetInduction
<1>7. CutInv(limit, h[n]) /\ InChunks(h[n]) = turns /\ h[n] \in Pieces
  BY <1>2, <1>3, <1>6, FirstGrows
<1>8. Long!Chunks(turns, max) = Long!Cut(h[n])
  BY <1>1 DEF Cuts
<1> HIDE DEF limit
<1> QED BY <1>2, <1>7, <1>8, CutKeeps DEF limit

(* A bullet says all that its item says. *)
LEMMA BulletTells ==
    ASSUME NEW key \in {"text", "title", "topic"}, NEW item, Fact(item, key)
    PROVE  {item[f] : f \in Stated(item)} \subseteq Long!Bullet(item, key)
<1> DEFINE named == Stated(item) \cap Long!Names(key)
<1>1. PICK m : named = {m}
  <2>1. IsFiniteSet({key} \cup {"title"}) /\ IsFiniteSet(({key} \cup {"title"}) \cup {"topic"})
    BY FS_Singleton, FS_AddElement
  <2>2. IsFiniteSet(Long!Names(key))
    <3>1. Long!Names(key) = ({key} \cup {"title"}) \cup {"topic"}
      BY DEF Long!Names
    <3> QED BY <2>1, <3>1
  <2>3. IsFiniteSet(named)
    BY <2>2, FS_Subset
  <2>4. Cardinality(named) = 1
    BY DEF Fact
  <2> HIDE DEF named
  <2> QED BY <2>3, <2>4, FS_Singleton
<1>2. m \in Stated(item) /\ m \in Long!Names(key) /\ \A x \in Stated(item) : x \in Long!Names(key) => x = m
  BY <1>1
<1>3. \A x : x \in Stated(item) <=> x \in DOMAIN item /\ item[x] # Long!Missing
  BY DEF Stated
<1>s. \A x \in Stated(item) : x \in Long!Names(key) \cup Long!Extras(key)
  BY DEF Fact
<1>4. Long!Title(item, key) = item[m] /\ item[m] # Long!Missing
  <2>1. \A x \in Long!Names(key) : Long!Field(item, x) = IF x = m THEN item[m] ELSE Long!Missing
    BY <1>2, <1>3 DEF Long!Field
  <2>2. Long!Names(key) = {key, "title", "topic"}
    BY DEF Long!Names
  <2> QED BY <1>2, <1>3, <2>1, <2>2 DEF Long!Title
<1>5. ASSUME NEW f \in Stated(item) PROVE item[f] \in Long!Bullet(item, key)
  <2>1. CASE f = m
    BY <1>4, <2>1 DEF Long!Bullet
  <2>2. CASE f # m
    <3>1. f \in Long!Extras(key) /\ Long!Field(item, f) = item[f] /\ item[f] # Long!Missing
      BY <1>2, <1>3, <1>s, <2>2 DEF Long!Field
    <3>2. item[f] \in {Long!Field(item, name) : name \in Long!Extras(key)} \ {Long!Missing}
      BY <3>1
    <3> QED BY <1>4, <3>2 DEF Long!Bullet
  <2> QED BY <2>1, <2>2
<1> QED BY <1>5

(* A list of the result is told where its section is. *)
LEMMA SectionTells ==
    ASSUME NEW result \in Results, NEW key \in Long!SynthesisKeys, NEW sections,
           Long!Section(result, key) \in ToSet(sections)
    PROVE  Told(result[key], sections)
<1> DEFINE items == result[key]
           asks == Long!Asks(key)
           section == Long!Section(result, key)
<1>1. asks \in {"text", "title", "topic"}
  BY DEF Long!Asks, Long!SynthesisKeys, Long!Lists
<1>2. ASSUME NEW i \in DOMAIN items
      PROVE  \E s \in ToSet(sections) : \E bullet \in ToSet(s) : {items[i][f] : f \in Stated(items[i])} \subseteq bullet
  <2> DEFINE bullet == Long!Bullet(items[i], asks)
  <2>1. Fact(items[i], asks)
    BY MeetingAssumption
  <2>2. {items[i][f] : f \in Stated(items[i])} \subseteq bullet
    <3> HIDE DEF asks, items
    <3> QED BY <1>1, <2>1, BulletTells
  <2>3. bullet \in ToSet(section)
    BY DEF ToSet, Long!Section, Long!Bullets
  <2> HIDE DEF bullet, section, items
  <2> QED BY <2>2, <2>3 DEF section
<1> QED BY <1>2 DEF Told

(* The questions end at the first answer that cannot be read. *)
LEMMA QuestionsEnd ==
    ASSUME NEW turns, NEW max, NEW replies, NEW n \in Nat, n = Len(Long!Chunks(turns, max)),
           NEW bad \in 0 .. n + 1,
           \A i \in 1 .. n + 1 : Long!Reads(replies[i], Long!Question(i, n)) <=> i # bad
    PROVE  Long!Process(turns, max, replies) = [asked |-> IF bad = 0 THEN n + 1 ELSE bad, read |-> bad = 0]
<1> DEFINE seq == [i \in 1 .. n + 1 |-> Long!Reads(replies[i], Long!Question(i, n))]
           I == {i \in 1 .. Len(seq) : ~seq[i]}
           first == IF I # {} THEN Long!Min(I) ELSE 0
<1>1. Len(seq) = n + 1
  OBVIOUS
<1>2. I = {bad} \ {0}
  <2>1. ASSUME NEW i \in 1 .. n + 1 PROVE ~seq[i] <=> i = bad
    <3>1. seq[i] <=> Long!Reads(replies[i], Long!Question(i, n))
      BY Zenon
    <3> HIDE DEF seq
    <3> QED BY <3>1
  <2> HIDE DEF seq
  <2>2. \A x : x \in I <=> x \in {bad} \ {0}
    BY <1>1, <2>1
  <2> HIDE DEF I
  <2> QED BY <2>2
<1>3. first = bad
  <2>1. CASE bad = 0
    BY <1>2, <2>1
  <2>2. CASE bad # 0
    <3>1. I = {bad}
      BY <1>2, <2>2
    <3>2. Long!Min({bad}) = bad
      BY DEF Long!Min
    <3> HIDE DEF I
    <3> QED BY <3>1, <3>2
  <2> QED BY <2>1, <2>2
<1>4. Long!Process(turns, max, replies) = [asked |-> IF first = 0 THEN n + 1 ELSE first, read |-> first = 0]
  BY Zenon DEF Long!Process, Long!SelectInSeq
<1> HIDE DEF first
<1> QED BY <1>3, <1>4

(* What DraftsWhole says of a note that is processed. *)
DraftsOf(turns, max, replies, write, fails, bad) ==
    LET chunks == Long!Chunks(turns, max)
        done == Long!Process(turns, max, replies)
        drafts == Long!Run(turns, max, replies, write, fails)
        result == replies[Len(replies)]
    IN /\ FlattenSeq(chunks) = turns
       /\ \A c \in ToSet(chunks) :
            Len(c) > 1 => Length(c) <= IF max < Long!Least THEN Long!Least ELSE max
       /\ done.asked = IF bad = 0 THEN Len(chunks) + 1 ELSE bad
       /\ bad # 0 \/ ~write => drafts = Long!NoDrafts
       /\ bad = 0 /\ write /\ fails # 1 =>
            \A key \in {"meeting_map", "decisions", "open_questions", "uncertainties"} :
              Told(result[key], drafts.protocol)
       /\ bad = 0 /\ write /\ fails = 0 => Told(result["tasks"], drafts.tasks)
       /\ drafts.tasks # <<>> => drafts.protocol # <<>>

(* The replies of which at most one cannot be read. *)
Replied(answer, result, reply, bad, n) ==
    LET good == [i \in 1 .. n + 1 |-> IF i <= n THEN answer ELSE result]
    IN IF bad = 0 THEN good ELSE [good EXCEPT ![bad] = reply]

(* That is so for every note, whichever reply cannot be read and whichever write fails. *)
LEMMA DraftsRight ==
    ASSUME NEW turns \in Notes, NEW max \in Caps, NEW answer \in Answers, NEW result \in Results,
           NEW write \in BOOLEAN, NEW fails \in 0 .. 2, NEW reply,
           NEW bad \in 0 .. Len(Long!Chunks(turns, max)) + 1,
           bad # 0 => fails = 0 /\ ~Long!Reads(reply, Long!Question(bad, Len(Long!Chunks(turns, max))))
    PROVE  DraftsOf(turns, max, Replied(answer, result, reply, bad, Len(Long!Chunks(turns, max))), write, fails, bad)
<1> DEFINE chunks == Long!Chunks(turns, max)
           n == Len(chunks)
           replies == Replied(answer, result, reply, bad, n)
           done == Long!Process(turns, max, replies)
           drafts == Long!Run(turns, max, replies, write, fails)
<1>1. turns \in Seq(Turns) /\ max \in Nat
  BY MeetingAssumption
<1>2. chunks \in Seq(Seq(Turns)) /\ FlattenSeq(chunks) = turns /\ Short(Limit(max), chunks)
  BY <1>1, ChunksWhole
<1>3. n \in Nat /\ bad \in 0 .. n + 1
  BY <1>2
<1>4. \A c \in ToSet(chunks) : Len(c) > 1 => Length(c) <= IF max < Long!Least THEN Long!Least ELSE max
  BY <1>2 DEF Short, ToSet, Limit
<1>5. bad # 0 => ~Long!Reads(reply, Long!Question(bad, n))
  OBVIOUS
<1> HIDE DEF chunks, n
<1>6. /\ Len(replies) = n + 1
      /\ \A i \in 1 .. n + 1 : replies[i] = IF i = bad THEN reply ELSE IF i <= n THEN answer ELSE result
  <2> DEFINE good == [i \in 1 .. n + 1 |-> IF i <= n THEN answer ELSE result]
  <2>1. CASE bad = 0
    BY <1>3, <2>1 DEF Replied
  <2>2. CASE bad # 0
    <3>1. replies = [good EXCEPT ![bad] = reply]
      BY <2>2 DEF Replied
    <3>2. good \in [1 .. n + 1 -> {answer, result}] /\ bad \in 1 .. n + 1
      BY <1>3, <2>2
    <3>3. replies = [i \in 1 .. n + 1 |-> IF i = bad THEN reply ELSE good[i]]
      BY <3>1, <3>2
    <3> HIDE DEF replies
    <3> QED BY <1>3, <3>3
  <2> QED BY <2>1, <2>2
<1> HIDE DEF replies
<1>7. ASSUME NEW i \in 1 .. n + 1 PROVE Long!Reads(replies[i], Long!Question(i, n)) <=> i # bad
  <2>1. CASE i = bad
    BY <1>3, <1>5, <1>6, <2>1
  <2>2. CASE i # bad /\ i <= n
    <3>1. replies[i] = answer /\ Long!Question(i, n) = Long!ChunkKeys
      BY <1>6, <2>2 DEF Long!Question
    <3> QED BY <2>2, <3>1, MeetingAssumption
  <2>3. CASE i # bad /\ ~(i <= n)
    <3>1. replies[i] = result /\ Long!Question(i, n) = Long!SynthesisKeys
      BY <1>6, <2>3 DEF Long!Question
    <3> QED BY <2>3, <3>1, MeetingAssumption
  <2> QED BY <2>1, <2>2, <2>3
<1>8. done = [asked |-> IF bad = 0 THEN n + 1 ELSE bad, read |-> bad = 0]
  BY <1>3, <1>7, QuestionsEnd DEF n, chunks
<1>9. done.asked = IF bad = 0 THEN n + 1 ELSE bad
  BY <1>8
<1>10. done.read <=> bad = 0
  <2>1. \A a, b : [asked |-> a, read |-> b].read = b
    OBVIOUS
  <2>2. done.read = (bad = 0)
    BY <1>8, <2>1, Zenon
  <2> HIDE DEF done
  <2> QED BY <2>2
<1>11. drafts = IF write /\ done.read THEN Long!Drafts(replies[done.asked], fails) ELSE Long!NoDrafts
  BY Zenon DEF Long!Run
<1> HIDE DEF done, drafts
<1>12. bad # 0 \/ ~write => drafts = Long!NoDrafts
  BY <1>10, <1>11
<1>13. bad = 0 /\ write => drafts = Long!Drafts(result, fails) /\ replies[Len(replies)] = result
  <2>1. bad = 0 => n + 1 \in 1 .. n + 1 /\ n + 1 # bad /\ ~(n + 1 <= n)
    BY <1>3
  <2>2. bad = 0 => replies[n + 1] = result
    BY <1>6, <2>1
  <2> QED BY <1>6, <1>9, <1>10, <1>11, <2>2
<1>14. ASSUME bad = 0, write, fails # 1, NEW key \in {"meeting_map", "decisions", "open_questions", "uncertainties"}
       PROVE  Told(replies[Len(replies)][key], drafts.protocol)
  <2>1. drafts.protocol = Long!Protocol(result)
    <3>1. CASE fails = 0
      BY <1>13, <1>14, <3>1 DEF Long!Drafts
    <3>2. CASE fails = 2
      BY <1>13, <1>14, <3>2 DEF Long!Drafts
    <3> QED BY <1>14, <3>1, <3>2
  <2>2. Long!Section(result, key) \in ToSet(Long!Protocol(result))
    <3>1. \A a, b, c, d : ToSet(<<a, b, c, d>>) = {a, b, c, d}
      BY DEF ToSet
    <3> QED BY <3>1 DEF Long!Protocol
  <2>3. key \in Long!SynthesisKeys
    BY DEF Long!SynthesisKeys, Long!Lists
  <2> QED BY <1>13, <1>14, <2>1, <2>2, <2>3, SectionTells
<1>15. ASSUME bad = 0, write, fails = 0
       PROVE  Told(replies[Len(replies)]["tasks"], drafts.tasks)
  <2>1. drafts.tasks = Long!Tasks(result)
    BY <1>13, <1>15 DEF Long!Drafts
  <2>2. Long!Section(result, "tasks") \in ToSet(Long!Tasks(result))
    <3>1. \A a : ToSet(<<a>>) = {a}
      BY DEF ToSet
    <3> QED BY <3>1 DEF Long!Tasks
  <2>3. "tasks" \in Long!SynthesisKeys
    BY DEF Long!SynthesisKeys, Long!Lists
  <2> QED BY <1>13, <1>15, <2>1, <2>2, <2>3, SectionTells
<1>16. drafts.tasks # <<>> => drafts.protocol # <<>>
  <2>1. CASE bad = 0 /\ write
    <3>1. Long!Protocol(result) # <<>>
      BY DEF Long!Protocol
    <3> QED BY <1>13, <2>1, <3>1 DEF Long!Drafts
  <2>2. CASE ~(bad = 0 /\ write)
    BY <1>12, <2>2 DEF Long!NoDrafts
  <2> QED BY <2>1, <2>2
<1>17. DraftsOf(turns, max, replies, write, fails, bad)
  BY <1>2, <1>4, <1>9, <1>12, <1>14, <1>15, <1>16 DEF DraftsOf, chunks, n, done, drafts
<1> QED BY <1>17 DEF replies, n, chunks

-----------------------------------------------------------------------------
(* What is made of the minutes.                                               *)

(* A text of words and holes. *)
Clear == PlainWords \cup {Model!Plain("date")}
FieldNames == {Model!Fields[i] : i \in 1 .. 6}
Written == Clear \cup {Model!Hole(name) : name \in FieldNames}
Put(text, name, value) == [i \in DOMAIN text |-> IF text[i] = Model!Hole(name) THEN value ELSE <<text[i]>>]

(* To fill a text is to put the value, or the same again, in the place of each of its parts. *)
LEMMA FillIs ==
    ASSUME NEW text \in Seq(Written), NEW name, NEW value \in Seq(Written)
    PROVE  /\ Put(text, name, value) \in Seq(Seq(Written))
           /\ Model!Fill(text, name, value) = FlattenSeq(Put(text, name, value))
           /\ Model!Fill(text, name, value) \in Seq(Written)
<1>1. \A s : Model!FlattenSeq(s) = FlattenSeq(s)
  BY DEF Model!FlattenSeq, FlattenSeq
<1>2. \A i \in 1 .. Len(text) : text[i] \in Written /\ <<text[i]>> \in Seq(Written)
  <2>1. \A X : \A x \in X : <<x>> \in Seq(X)
    OBVIOUS
  <2>2. \A i \in 1 .. Len(text) : text[i] \in Written
    OBVIOUS
  <2> QED BY <2>1, <2>2
<1>3. Put(text, name, value) \in Seq(Seq(Written))
  <2>1. DOMAIN text = 1 .. Len(text) /\ Len(text) \in Nat
    OBVIOUS
  <2>2. \A i \in 1 .. Len(text) : (IF text[i] = Model!Hole(name) THEN value ELSE <<text[i]>>) \in Seq(Written)
    BY <1>2
  <2> QED BY <2>1, <2>2 DEF Put
<1>4. Model!Fill(text, name, value) = FlattenSeq(Put(text, name, value))
  BY <1>1 DEF Model!Fill, Put
<1>5. FlattenSeq(Put(text, name, value)) \in Seq(Written)
  BY <1>3, FlatAppend, EmptySeq
<1> QED BY <1>3, <1>4, <1>5

(* A concatenation, place by place. *)
LEMMA ConcatIs ==
    ASSUME NEW X, NEW p \in Seq(X), NEW q \in Seq(X)
    PROVE  p \o q = [i \in 1 .. Len(p) + Len(q) |-> IF i <= Len(p) THEN p[i] ELSE q[i - Len(p)]]
<1> DEFINE n == Len(p) + Len(q)
           G(i) == IF i <= Len(p) THEN p[i] ELSE q[i - Len(p)]
<1>1. p \o q \in Seq(X) /\ Len(p \o q) = n /\ \A i \in 1 .. n : (p \o q)[i] = G(i)
  BY ConcatProperties
<1>2. \A s \in Seq(X) : s = [i \in 1 .. Len(s) |-> s[i]]
  OBVIOUS
<1> HIDE DEF G, n
<1>3. p \o q = [i \in 1 .. n |-> G(i)]
  BY <1>1, <1>2
<1> QED BY <1>3 DEF G, n

(* What is filled in of two texts after each other. *)
LEMMA FillConcat ==
    ASSUME NEW a \in Seq(Written), NEW b \in Seq(Written), NEW name, NEW value \in Seq(Written)
    PROVE  Model!Fill(a \o b, name, value) = Model!Fill(a, name, value) \o Model!Fill(b, name, value)
<1> DEFINE F(text) == Put(text, name, value)
<1>1. F(a) \in Seq(Seq(Written)) /\ F(b) \in Seq(Seq(Written)) /\ a \o b \in Seq(Written)
  BY FillIs, ConcatProperties
<1>2. F(a \o b) = F(a) \o F(b)
  <2>1. /\ DOMAIN a = 1 .. Len(a) /\ DOMAIN b = 1 .. Len(b) /\ Len(a) \in Nat /\ Len(b) \in Nat
        /\ DOMAIN (a \o b) = 1 .. Len(a) + Len(b)
        /\ \A i \in 1 .. Len(a) + Len(b) : (a \o b)[i] = IF i <= Len(a) THEN a[i] ELSE b[i - Len(a)]
    OBVIOUS
  <2> DEFINE G(x) == IF x = Model!Hole(name) THEN value ELSE <<x>>
             c == a \o b
             n == Len(a)
             m == Len(b)
  <2>2. F(a) = [i \in 1 .. n |-> G(a[i])] /\ F(b) = [i \in 1 .. m |-> G(b[i])] /\ F(c) = [i \in 1 .. n + m |-> G(c[i])]
    BY <2>1 DEF Put
  <2>4. n \in Nat /\ m \in Nat /\ \A i \in 1 .. n + m : c[i] = IF i <= n THEN a[i] ELSE b[i - n]
    BY <2>1
  <2> HIDE DEF G, c, n, m, F
  <2>5. Len(F(a)) = n /\ Len(F(b)) = m
    BY <2>2, <2>4
  <2>6. F(a) \o F(b) = [i \in 1 .. n + m |-> IF i <= n THEN F(a)[i] ELSE F(b)[i - n]]
    <3>1. F(a) \o F(b) = [i \in 1 .. Len(F(a)) + Len(F(b)) |-> IF i <= Len(F(a)) THEN F(a)[i] ELSE F(b)[i - Len(F(a))]]
      BY <1>1, ConcatIs
    <3> QED BY <2>5, <3>1
  <2>7. \A i \in 1 .. n + m : G(c[i]) = IF i <= n THEN F(a)[i] ELSE F(b)[i - n]
    <3> SUFFICES ASSUME NEW i \in 1 .. n + m PROVE G(c[i]) = IF i <= n THEN F(a)[i] ELSE F(b)[i - n]
      OBVIOUS
    <3>1. CASE i <= n
      <4>1. i \in 1 .. n /\ c[i] = a[i]
        BY <2>4, <3>1
      <4> QED BY <2>2, <3>1, <4>1
    <3>2. CASE ~(i <= n)
      <4>1. i - n \in 1 .. m /\ c[i] = b[i - n]
        BY <2>4, <3>2
      <4> QED BY <2>2, <3>2, <4>1
    <3> QED BY <3>1, <3>2
  <2>8. F(c) = F(a) \o F(b)
    BY <2>2, <2>6, <2>7
  <2> QED BY <2>8 DEF c
<1>3. FlattenSeq(F(a) \o F(b)) = FlattenSeq(F(a)) \o FlattenSeq(F(b))
  <2> HIDE DEF F
  <2> QED BY <1>1, FlatConcat
<1>4. \A text \in Seq(Written) : Model!Fill(text, name, value) = FlattenSeq(F(text))
  BY FillIs
<1>5. Model!Fill(a \o b, name, value) = FlattenSeq(F(a \o b))
  BY <1>1, <1>4
<1>6. Model!Fill(a, name, value) = FlattenSeq(F(a)) /\ Model!Fill(b, name, value) = FlattenSeq(F(b))
  BY <1>4
<1> HIDE DEF F
<1> QED BY <1>2, <1>3, <1>5, <1>6

(* What is filled in of the parts of a text. *)
LEMMA FillFlat ==
    ASSUME NEW parts \in Seq(Seq(Written)), NEW name, NEW value \in Seq(Written)
    PROVE  Model!Fill(FlattenSeq(parts), name, value)
             = FlattenSeq([i \in DOMAIN parts |-> Model!Fill(parts[i], name, value)])
<1>a. \A x, y \in Seq(Written) : Model!Fill(x \o y, name, value) = Model!Fill(x, name, value) \o Model!Fill(y, name, value)
  BY FillConcat
<1>c. \A s \in Seq(Seq(Written)), t \in Seq(Written) :
        FlattenSeq(s) \in Seq(Written) /\ FlattenSeq(Append(s, t)) = FlattenSeq(s) \o t
  BY FlatAppend
<1> DEFINE n == Len(parts)
           F(text) == Model!Fill(text, name, value)
           Of(k) == [i \in 1 .. k |-> F(parts[i])]
           S == {k \in Nat : k <= n => F(FlattenSeq(First(parts, k))) = FlattenSeq(Of(k))}
<1>1. n \in Nat /\ DOMAIN parts = 1 .. n /\ \A i \in 1 .. n : parts[i] \in Seq(Written) /\ F(parts[i]) \in Seq(Written)
  <2>1. n \in Nat /\ DOMAIN parts = 1 .. n /\ \A i \in 1 .. n : parts[i] \in Seq(Written)
    OBVIOUS
  <2> QED BY <2>1, FillIs
<1>2. 0 \in S
  <2>1. First(parts, 0) = <<>> /\ Of(0) = <<>>
    BY FirstGrows
  <2>2. F(<<>>) = <<>>
    <3>1. Put(<<>>, name, value) = <<>>
      BY DEF Put
    <3>2. <<>> \in Seq(Written)
      OBVIOUS
    <3>3. Model!Fill(<<>>, name, value) = FlattenSeq(Put(<<>>, name, value))
      BY <3>2, FillIs
    <3> QED BY <3>1, <3>3, FlatFew
  <2> HIDE DEF F, Of
  <2> QED BY <2>1, <2>2, FlatFew
<1>3. ASSUME NEW k \in Nat, k \in S PROVE k + 1 \in S
  <2> SUFFICES ASSUME k + 1 <= n PROVE F(FlattenSeq(First(parts, k + 1))) = FlattenSeq(Of(k + 1))
    OBVIOUS
  <2> DEFINE before == First(parts, k)
             part == parts[k + 1]
  <2>1. k \in 0 .. n /\ k <= n /\ k + 1 \in 1 .. n
    BY <1>1
  <2>2. before \in Seq(Seq(Written))
    BY <2>1, FirstGrows
  <2>3. part \in Seq(Written) /\ First(parts, k + 1) = Append(before, part)
    BY FirstGrows
  <2>4. FlattenSeq(First(parts, k + 1)) = FlattenSeq(before) \o part /\ FlattenSeq(before) \in Seq(Written)
    BY <1>c, <2>2, <2>3
  <2>5. F(FlattenSeq(before) \o part) = F(FlattenSeq(before)) \o F(part)
    <3> DEFINE text == FlattenSeq(before)
    <3>1. text \in Seq(Written) /\ part \in Seq(Written)
      BY <2>3, <2>4
    <3> HIDE DEF text, before, part
    <3>2. Model!Fill(text \o part, name, value) = Model!Fill(text, name, value) \o Model!Fill(part, name, value)
      BY <1>a, <3>1
    <3> QED BY <3>2 DEF text
  <2>6. F(FlattenSeq(before)) = FlattenSeq(Of(k))
    BY <1>3, <2>1
  <2>7. Of(k) \in Seq(Seq(Written)) /\ F(part) \in Seq(Written) /\ Of(k + 1) = Append(Of(k), F(part))
    <3>1. \A i \in 1 .. k : F(parts[i]) \in Seq(Written)
      BY <1>1, <2>1
    <3> HIDE DEF F
    <3>2. Of(k) \in Seq(Seq(Written))
      BY <3>1
    <3>3. Of(k + 1) = Append(Of(k), F(part))
      OBVIOUS
    <3> QED BY <1>1, <2>1, <3>2, <3>3
  <2>8. FlattenSeq(Append(Of(k), F(part))) = FlattenSeq(Of(k)) \o F(part)
    BY <1>c, <2>7
  <2> QED BY <2>4, <2>5, <2>6, <2>7, <2>8
<1>4. n \in S
  <2> HIDE DEF S, n, F, Of
  <2> QED BY <1>1, <1>2, <1>3, SetInduction
<1>5. F(FlattenSeq(First(parts, n))) = FlattenSeq(Of(n))
  BY <1>1, <1>4
<1>6. First(parts, n) = parts /\ Of(n) = [i \in DOMAIN parts |-> Model!Fill(parts[i], name, value)]
  BY <1>1, FirstGrows
<1> QED BY <1>5, <1>6

(* A text without holes, and one that is a hole. *)
LEMMA FillFew ==
    ASSUME NEW name \in FieldNames, NEW value \in Seq(Written)
    PROVE  /\ \A text \in Seq(Clear) : text \in Seq(Written) /\ Model!Fill(text, name, value) = text
           /\ \A other \in FieldNames :
                /\ <<Model!Hole(other)>> \in Seq(Written)
                /\ Model!Fill(<<Model!Hole(other)>>, name, value) = IF other = name THEN value ELSE <<Model!Hole(other)>>
<1>1. ASSUME NEW text \in Seq(Clear) PROVE text \in Seq(Written) /\ Model!Fill(text, name, value) = text
  <2>1. text \in Seq(Written)
    BY SeqMonotonic DEF Written
  <2>2. \A i \in DOMAIN text : text[i] # Model!Hole(name)
    <3>1. \A x \in Clear : x[1] = "word"
      BY DEF Clear, PlainWords, Model!Plain
    <3>2. Model!Hole(name)[1] = "hole"
      BY DEF Model!Hole
    <3>3. \A i \in DOMAIN text : text[i] \in Clear
      OBVIOUS
    <3> QED BY <3>1, <3>2, <3>3
  <2>3. Put(text, name, value) = [i \in DOMAIN text |-> <<text[i]>>]
    BY <2>2 DEF Put
  <2>4. Model!Fill(text, name, value) = FlattenSeq(Put(text, name, value))
    BY <2>1, FillIs
  <2>5. FlattenSeq([i \in DOMAIN text |-> <<text[i]>>]) = text
    BY <2>1, FlatSingles
  <2> QED BY <2>1, <2>3, <2>4, <2>5
<1>2. ASSUME NEW other \in FieldNames
      PROVE  /\ <<Model!Hole(other)>> \in Seq(Written)
             /\ Model!Fill(<<Model!Hole(other)>>, name, value) = IF other = name THEN value ELSE <<Model!Hole(other)>>
  <2> DEFINE hole == Model!Hole(other)
             filled == IF other = name THEN value ELSE <<hole>>
  <2>1. hole \in Written /\ (hole = Model!Hole(name) <=> other = name)
    BY DEF Written, Model!Hole
  <2> HIDE DEF hole
  <2>2. <<hole>> \in Seq(Written) /\ filled \in Seq(Written)
    <3>1. \A X : \A x \in X : <<x>> \in Seq(X)
      OBVIOUS
    <3> QED BY <2>1, <3>1
  <2>3. Put(<<hole>>, name, value) = <<filled>>
    <3>1. DOMAIN <<hole>> = {1} /\ <<hole>>[1] = hole
      OBVIOUS
    <3>2. Put(<<hole>>, name, value) = [i \in {1} |-> filled]
      BY <2>1, <3>1 DEF Put
    <3> HIDE DEF filled
    <3> QED BY <3>2
  <2> HIDE DEF filled
  <2>4. Model!Fill(<<hole>>, name, value) = filled
    <3>0. \A text \in Seq(Written) : Model!Fill(text, name, value) = FlattenSeq(Put(text, name, value))
      BY FillIs
    <3>1. Model!Fill(<<hole>>, name, value) = FlattenSeq(<<filled>>)
      BY <2>2, <2>3, <3>0
    <3>2. FlattenSeq(<<filled>>) = filled
      BY <2>2, FlatFew
    <3> QED BY <3>1, <3>2
  <2> QED BY <2>2, <2>4 DEF hole, filled
<1> QED BY <1>1, <1>2

(* The fields of the template. *)
LEMMA FieldsAre ==
    /\ Len(Model!Fields) = 6 /\ DOMAIN Model!Fields = 1 .. 6
    /\ \A i, j \in 1 .. 6 : Model!Fields[i] = Model!Fields[j] => i = j
    /\ \A i \in 1 .. 6 : Model!Fields[i] # "meeting_date" => Model!Fields[i] \in Model!Blocks
<1>1. Len(Model!Fields) = 6 /\ DOMAIN Model!Fields = 1 .. 6
  BY DEF Model!Fields
<1>2. /\ Model!Fields[1] = "meeting_type" /\ Model!Fields[2] = "meeting_date" /\ Model!Fields[3] = "participants"
      /\ Model!Fields[4] = "agenda" /\ Model!Fields[5] = "theses_and_decisions" /\ Model!Fields[6] = "action_items"
  BY DEF Model!Fields
<1>3. \A i \in 1 .. 6 : i = 1 \/ i = 2 \/ i = 3 \/ i = 4 \/ i = 5 \/ i = 6
  OBVIOUS
<1>4. \A i, j \in 1 .. 6 : Model!Fields[i] = Model!Fields[j] => i = j
  BY <1>2, <1>3
<1>5. \A i \in 1 .. 6 : Model!Fields[i] # "meeting_date" => Model!Fields[i] \in Model!Blocks
  BY <1>2, <1>3 DEF Model!Blocks
<1> QED BY <1>1, <1>4, <1>5

(* The fields are filled in one after the other. *)
Fills(values, h) ==
    /\ h \in [0 .. 6 -> Seq(Written)]
    /\ h[0] = Model!Template /\ h[6] = Model!Substitute(values)
    /\ \A k \in 1 .. 6 : h[k] = Model!Fill(h[k - 1], Model!Fields[k], values[Model!Fields[k]])
HasFills(values) == \E h : Fills(values, h)

(* The fold that substitute is modelled by fills in one field after the other. *)
LEMMA SubstituteRuns ==
    ASSUME NEW values, \A i \in 1 .. 6 : values[Model!Fields[i]] \in Seq(Written)
    PROVE  HasFills(values)
<1> DEFINE n == 6
           fields == Model!Fields
           A == Seq(Written)
           a0 == Model!Template
           Do(a, name) == Model!Fill(a, name, values[name])
           st == [p \in A \X (1 .. n) |-> Do(p[1], fields[p[2]])]
           Eq(g) == g = [s \in SUBSET DOMAIN fields |->
                           IF s = {} THEN a0 ELSE Do(g[s \ {Model!Max(s)}], fields[Model!Max(s)])]
           it == CHOOSE g : Eq(g)
<1>1. n \in Nat /\ DOMAIN fields = 1 .. n
  BY FieldsAre
<1>2. a0 \in A /\ \A a \in A, i \in 1 .. n : Do(a, fields[i]) \in A
  <2>1. a0 \in A
    <3>1. \A i \in 1 .. 6 : Model!Hole(Model!Fields[i]) \in Written
      BY DEF Written, FieldNames
    <3>2. a0 = [i \in 1 .. 6 |-> Model!Hole(Model!Fields[i])]
      BY FieldsAre DEF Model!Template
    <3> HIDE DEF a0
    <3> QED BY <3>1, <3>2
  <2> QED BY <2>1, FillIs
<1>3. st \in [A \X (1 .. n) -> A]
  <2> HIDE DEF A, n, Do, fields
  <2> QED BY <1>1, <1>2
<1>4. PICK g0 \in [SUBSET (1 .. n) -> A] : Folded(st, a0, g0, n)
  <2> HIDE DEF st, A, n, a0
  <2>1. HasFold(st, a0, A, n)
    BY <1>1, <1>2, <1>3, FoldExists
  <2> QED BY <2>1 DEF HasFold
<1>5. ASSUME NEW s \in SUBSET (1 .. n), s # {}
      PROVE  Max(s) \in 1 .. n /\ s \ {Max(s)} \in SUBSET (1 .. n)
  BY <1>1, <1>5, TopOf
<1>6. \A s : Model!Max(s) = Max(s)
  BY DEF Model!Max, Max
<1>7. ASSUME NEW a \in A, NEW k \in 1 .. n PROVE st[<<a, k>>] = Do(a, fields[k])
  <2> HIDE DEF A, n, Do, fields
  <2> QED OBVIOUS
<1> HIDE DEF st, A, n, Do, a0, fields
<1>8. Eq(g0)
  <2>1. ASSUME NEW s \in SUBSET (1 .. n)
        PROVE  g0[s] = IF s = {} THEN a0 ELSE Do(g0[s \ {Model!Max(s)}], fields[Model!Max(s)])
    <3>1. CASE s = {}
      BY <1>4, <3>1 DEF Folded
    <3>2. CASE s # {}
      <4>1. g0[s] = st[<<g0[s \ {Max(s)}], Max(s)>>] /\ g0[s \ {Max(s)}] \in A
        BY <1>4, <1>5, <3>2 DEF Folded
      <4> QED BY <1>5, <1>6, <1>7, <3>2, <4>1
    <3> QED BY <3>1, <3>2
  <2> QED BY <1>1, <2>1
<1>9. Eq(it)
  <2> HIDE DEF Eq
  <2> QED BY <1>8
<1>10. Model!Substitute(values) = it[DOMAIN fields]
  BY DEF Model!Substitute, Model!FoldLeft, Model!MapThenFoldSet, Do, a0, fields
<1>11. FoldsAlong(it, st, a0, A, n)
  <2> HIDE DEF it
  <2>1. \A s \in SUBSET (1 .. n) :
          it[s] = IF s = {} THEN a0 ELSE Do(it[s \ {Model!Max(s)}], fields[Model!Max(s)])
    BY <1>1, <1>9
  <2>2. it[{}] = a0
    BY <2>1
  <2>3. ASSUME NEW s \in SUBSET (1 .. n), s # {}, it[s \ {Max(s)}] \in A
        PROVE  it[s] = st[<<it[s \ {Max(s)}], Max(s)>>]
    BY <1>5, <1>6, <1>7, <2>1, <2>3
  <2> QED BY <2>2, <2>3 DEF FoldsAlong
<1> HIDE DEF it, Eq
<1>12. PICK h \in [0 .. n -> A] :
         /\ h[0] = a0 /\ h[n] = it[1 .. n]
         /\ \A k \in 1 .. n : h[k] = st[<<h[k - 1], k>>]
  <2>1. HasRun(st, a0, A, n, it[1 .. n])
    BY <1>1, <1>2, <1>3, <1>11, FoldRun
  <2> QED BY <2>1 DEF HasRun
<1>13. ASSUME NEW k \in 1 .. n PROVE h[k] = Do(h[k - 1], fields[k])
  <2>1. h[k - 1] \in A
    BY <1>1
  <2> QED BY <1>7, <1>12, <2>1
<1>14. Fills(values, h)
  BY <1>1, <1>10, <1>12, <1>13 DEF Fills, A, Do, a0, n, fields
<1> QED BY <1>14 DEF HasFills

(* Texts without holes stay where their fields are. *)
LEMMA SubstituteWhole ==
    ASSUME NEW values, \A i \in 1 .. 6 : values[Model!Fields[i]] \in Seq(Clear)
    PROVE  Model!Substitute(values) = FlattenSeq([i \in 1 .. 6 |-> values[Model!Fields[i]]])
<1> DEFINE Field(i) == Model!Fields[i]
           Hole(i) == <<Model!Hole(Field(i))>>
           Part(i, k) == IF i <= k THEN values[Field(i)] ELSE Hole(i)
           Parts(k) == [i \in 1 .. 6 |-> Part(i, k)]
<1>1. \A i \in 1 .. 6 : Field(i) \in FieldNames /\ values[Field(i)] \in Seq(Written)
  <2>1. \A i \in 1 .. 6 : Field(i) \in FieldNames
    BY DEF FieldNames
  <2>2. \A text \in Seq(Clear) : text \in Seq(Written)
    BY SeqMonotonic DEF Written
  <2> QED BY <2>1, <2>2
<1>2. PICK h : Fills(values, h)
  BY <1>1, SubstituteRuns DEF HasFills
<1>3. \A i \in 1 .. 6 : Hole(i) \in Seq(Written)
  BY <1>1, FillFew, EmptySeq
<1>4. \A k \in 0 .. 6 : Parts(k) \in Seq(Seq(Written)) /\ DOMAIN Parts(k) = 1 .. 6
  <2> SUFFICES ASSUME NEW k \in 0 .. 6 PROVE Parts(k) \in Seq(Seq(Written)) /\ DOMAIN Parts(k) = 1 .. 6
    OBVIOUS
  <2>1. \A i \in 1 .. 6 : Part(i, k) \in Seq(Written)
    BY <1>1, <1>3
  <2> HIDE DEF Part
  <2> QED BY <2>1
<1>5. h[0] = FlattenSeq(Parts(0))
  <2>1. Model!Template \in Seq(Written) /\ h[0] = Model!Template
    BY <1>2 DEF Fills
  <2>2. Model!Template = [i \in 1 .. 6 |-> Model!Hole(Field(i))]
    BY FieldsAre DEF Model!Template
  <2>3. Parts(0) = [i \in DOMAIN Model!Template |-> <<Model!Template[i]>>]
    <3>1. \A i \in 1 .. 6 : Part(i, 0) = <<Model!Hole(Field(i))>>
      OBVIOUS
    <3>2. Parts(0) = [i \in 1 .. 6 |-> <<Model!Hole(Field(i))>>]
      <4> HIDE DEF Part
      <4> QED BY <3>1
    <3> HIDE DEF Field, Parts
    <3> QED BY <2>2, <3>2
  <2> HIDE DEF Parts
  <2> QED BY <2>1, <2>3, FlatSingles
<1>6. ASSUME NEW k \in 0 .. 5, h[k] = FlattenSeq(Parts(k)) PROVE h[k + 1] = FlattenSeq(Parts(k + 1))
  <2> DEFINE name == Field(k + 1)
             value == values[name]
  <2>1. k + 1 \in 1 .. 6 /\ k \in 0 .. 6 /\ (k + 1) - 1 = k
    OBVIOUS
  <2>2. h[k + 1] = Model!Fill(h[k], name, value)
    BY <1>2, <2>1 DEF Fills
  <2>3. name \in FieldNames /\ value \in Seq(Written)
    BY <1>1, <2>1
  <2>4. Model!Fill(FlattenSeq(Parts(k)), name, value)
          = FlattenSeq([i \in DOMAIN Parts(k) |-> Model!Fill(Parts(k)[i], name, value)])
    <3> HIDE DEF Parts, name, value
    <3> QED BY <1>4, <2>1, <2>3, FillFlat
  <2>5. ASSUME NEW i \in 1 .. 6 PROVE Model!Fill(Part(i, k), name, value) = Part(i, k + 1)
    <3>1. CASE i <= k
      <4>0. \A text \in Seq(Clear) : Model!Fill(text, name, value) = text
        BY <2>3, FillFew
      <4>1. values[Field(i)] \in Seq(Clear) /\ Part(i, k) = values[Field(i)] /\ Part(i, k + 1) = values[Field(i)]
        BY <3>1, <2>1
      <4> HIDE DEF Part, name, value
      <4> QED BY <4>0, <4>1
    <3>2. CASE i = k + 1
      <4>0. \A other \in FieldNames : Model!Fill(<<Model!Hole(other)>>, name, value) = IF other = name THEN value ELSE <<Model!Hole(other)>>
        BY <2>3, FillFew
      <4>1. Part(i, k) = Hole(i) /\ Part(i, k + 1) = value /\ Field(i) = name /\ Field(i) \in FieldNames
        BY <1>1, <3>2, <2>1
      <4> HIDE DEF Part, name, value
      <4> QED BY <4>0, <4>1
    <3>3. CASE i > k + 1
      <4>0. \A other \in FieldNames : Model!Fill(<<Model!Hole(other)>>, name, value) = IF other = name THEN value ELSE <<Model!Hole(other)>>
        BY <2>3, FillFew
      <4>1. Part(i, k) = Hole(i) /\ Part(i, k + 1) = Hole(i) /\ Field(i) # name /\ Field(i) \in FieldNames
        <5>1. Field(i) # name
          BY <3>3, <2>1, FieldsAre
        <5>2. ~(i <= k) /\ ~(i <= k + 1)
          BY <3>3, <2>1
        <5> QED BY <1>1, <5>1, <5>2
      <4> HIDE DEF Part, name, value
      <4> QED BY <4>0, <4>1
    <3> QED BY <2>1, <3>1, <3>2, <3>3
  <2>6. [i \in DOMAIN Parts(k) |-> Model!Fill(Parts(k)[i], name, value)] = Parts(k + 1)
    <3>1. \A i \in 1 .. 6 : Parts(k)[i] = Part(i, k)
      <4> HIDE DEF Part
      <4> QED OBVIOUS
    <3>2. DOMAIN Parts(k) = 1 .. 6
      BY <1>4, <2>1
    <3> HIDE DEF Part, name, value
    <3> QED BY <2>5, <3>1, <3>2
  <2> HIDE DEF Parts, name, value
  <2> QED BY <1>6, <2>2, <2>4, <2>6
<1> HIDE DEF Parts
<1>7. h[6] = FlattenSeq(Parts(6))
  <2>1. h[1] = FlattenSeq(Parts(1))
    BY <1>5, <1>6
  <2>2. h[2] = FlattenSeq(Parts(2))
    BY <2>1, <1>6
  <2>3. h[3] = FlattenSeq(Parts(3))
    BY <2>2, <1>6
  <2>4. h[4] = FlattenSeq(Parts(4))
    BY <2>3, <1>6
  <2>5. h[5] = FlattenSeq(Parts(5))
    BY <2>4, <1>6
  <2> QED BY <2>5, <1>6
<1>8. Parts(6) = [i \in 1 .. 6 |-> values[Model!Fields[i]]]
  BY DEF Parts
<1>9. h[6] = Model!Substitute(values)
  BY <1>2 DEF Fills
<1> QED BY <1>7, <1>8, <1>9

(* What MinutesWhole says of the minutes. *)
MinutesOf(reply) ==
    LET date == <<Model!Plain("date")>>
        text == Model!Minutes(reply, date)
        LastOf(name) == CHOOSE i \in DOMAIN reply :
                          /\ reply[i].name = name
                          /\ \A j \in DOMAIN reply : reply[j].name = name => j <= i
    IN IF \E name \in Model!Blocks : \A b \in ToSet(reply) : b.name # name
       THEN text = <<>>
       ELSE text = FlattenSeq([i \in DOMAIN Model!Fields |->
                                IF Model!Fields[i] = "meeting_date" THEN date
                                ELSE reply[LastOf(Model!Fields[i])].text])
LastNamed(reply, name) ==
    CHOOSE i \in DOMAIN reply : reply[i].name = name /\ \A j \in DOMAIN reply : reply[j].name = name => j <= i

(* The last block of a name. *)
LEMMA LastBlock ==
    ASSUME NEW reply \in Headings, NEW name \in Model!Found(reply)
    PROVE  /\ Model!BlockOf(reply, name) = reply[LastNamed(reply, name)].text
           /\ Model!BlockOf(reply, name) \in Seq(Clear)
<1> DEFINE n == Len(reply)
           T == {i \in 1 .. n : reply[i].name = name}
           m == Max(T)
<1>1. n \in Nat /\ DOMAIN reply = 1 .. n /\ \A i \in 1 .. n : reply[i].text \in Seq(Clear)
  <2> DEFINE B == [name : STRING, text : Seq(PlainWords)]
  <2>1. reply \in Seq(B)
    BY MinutesAssumption
  <2>2. \A i \in 1 .. n : reply[i] \in B
    <3> HIDE DEF B
    <3> QED BY <2>1
  <2>3. \A text \in Seq(PlainWords) : text \in Seq(Clear)
    BY SeqMonotonic DEF Clear
  <2> QED BY <2>1, <2>2, <2>3
<1>2. T # {} /\ T \in SUBSET (1 .. n)
  BY <1>1 DEF Model!Found
<1>3. m \in T /\ \A y \in T : y <= m
  <2> HIDE DEF T, n
  <2> QED BY <1>1, <1>2, TopOf
<1> HIDE DEF m, n
<1>4. m \in DOMAIN reply /\ reply[m].name = name /\ \A j \in DOMAIN reply : reply[j].name = name => j <= m
  BY <1>1, <1>3
<1>5. LastNamed(reply, name) = m
  <2>1. \A i \in DOMAIN reply : i \in Nat
    BY <1>1
  <2>2. \A i \in DOMAIN reply :
          (reply[i].name = name /\ \A j \in DOMAIN reply : reply[j].name = name => j <= i) => i = m
    <3> SUFFICES ASSUME NEW i \in DOMAIN reply, reply[i].name = name,
                        \A j \in DOMAIN reply : reply[j].name = name => j <= i
                 PROVE  i = m
      OBVIOUS
    <3>1. m <= i /\ i <= m /\ i \in Nat /\ m \in Nat
      BY <1>4, <2>1
    <3> QED BY <3>1
  <2> QED BY <1>4, <2>2 DEF LastNamed
<1>6. Model!BlockOf(reply, name) = reply[m].text
  <2>1. \A s : Model!Max(s) = Max(s)
    BY DEF Model!Max, Max
  <2>2. Model!BlockOf(reply, name) = reply[IF T # {} THEN Model!Max(T) ELSE 0].text
    BY DEF Model!BlockOf, Model!SelectLastInSeq, n
  <2> HIDE DEF T
  <2> QED BY <1>2, <2>1, <2>2 DEF m
<1> QED BY <1>1, <1>4, <1>5, <1>6

(* That is so for every reply. *)
LEMMA MinutesRight ==
    ASSUME NEW reply \in Headings
    PROVE  MinutesOf(reply)
<1> DEFINE date == <<Model!Plain("date")>>
           values == [name \in Model!ToSet(Model!Fields) |->
                        IF name = "meeting_date" THEN date ELSE Model!BlockOf(reply, name)]
           Missed == \E name \in Model!Blocks : \A b \in ToSet(reply) : b.name # name
<1>1. Missed <=> ~Model!Readable(reply)
  BY DEF ToSet, Model!Readable, Model!Found
<1>2. CASE Missed
  <2>1. Model!Minutes(reply, date) = <<>>
    BY <1>1, <1>2 DEF Model!Minutes
  <2> QED BY <1>2, <2>1 DEF MinutesOf
<1>3. CASE ~Missed
  <2>1. Model!Minutes(reply, date) = Model!Substitute(values)
    BY <1>1, <1>3 DEF Model!Minutes
  <2>2. date \in Seq(Clear)
    <3>1. Model!Plain("date") \in Clear
      BY DEF Clear
    <3> QED BY <3>1
  <2>3. ASSUME NEW i \in 1 .. 6
        PROVE  /\ values[Model!Fields[i]] \in Seq(Clear)
               /\ values[Model!Fields[i]] = IF Model!Fields[i] = "meeting_date" THEN date
                                            ELSE reply[LastNamed(reply, Model!Fields[i])].text
    <3> DEFINE name == Model!Fields[i]
    <3>1. values[name] = IF name = "meeting_date" THEN date ELSE Model!BlockOf(reply, name)
      <4>1. name \in Model!ToSet(Model!Fields)
        BY FieldsAre DEF Model!ToSet
      <4> HIDE DEF name, date
      <4> QED BY <4>1
    <3>2. name # "meeting_date" => name \in Model!Found(reply)
      BY <1>1, <1>3, FieldsAre DEF Model!Readable
    <3> HIDE DEF name, values, date
    <3>3. name # "meeting_date" =>
            Model!BlockOf(reply, name) = reply[LastNamed(reply, name)].text /\ Model!BlockOf(reply, name) \in Seq(Clear)
      BY <3>2, LastBlock
    <3>4. values[name] \in Seq(Clear)
          /\ values[name] = IF name = "meeting_date" THEN date ELSE reply[LastNamed(reply, name)].text
      BY <2>2, <3>1, <3>3
    <3> QED BY <3>4 DEF name
  <2> DEFINE Text(i) == IF Model!Fields[i] = "meeting_date" THEN date ELSE reply[LastNamed(reply, Model!Fields[i])].text
  <2>4. Model!Substitute(values) = FlattenSeq([i \in 1 .. 6 |-> values[Model!Fields[i]]])
    <3> HIDE DEF values
    <3> QED BY <2>3, SubstituteWhole
  <2>5. [i \in 1 .. 6 |-> values[Model!Fields[i]]] = [i \in DOMAIN Model!Fields |-> Text(i)]
    <3> HIDE DEF values, date
    <3> QED BY <2>3, FieldsAre
  <2>6. Model!Minutes(reply, date) = FlattenSeq([i \in DOMAIN Model!Fields |-> Text(i)])
    BY <2>1, <2>4, <2>5
  <2> HIDE DEF values
  <2> QED BY <1>3, <2>6 DEF MinutesOf, LastNamed
<1> QED BY <1>2, <1>3

-----------------------------------------------------------------------------
(* The documents that are attached to a question.                             *)

(* Documents, and how much each counts. *)
Docs == [size : Nat, converts : BOOLEAN, len : Nat]
Counted(doc) == IF Model!Fits(doc) THEN doc.len ELSE 0
Counts(docs) == [k \in 1 .. Len(docs) |-> Counted(docs[k])]
Kept(docs) == {i \in DOMAIN docs : Model!Fits(docs[i])}
AttachedOf(docs, budget, total) ==
    [kept |-> Kept(docs), len |-> IF total > budget THEN budget ELSE total, cut |-> total > budget]
Totals(docs, budget, h) ==
    Sum(h, Len(docs), 0, Counts(docs)) /\ Model!Documents(docs, budget) = AttachedOf(docs, budget, h[Len(docs)])
HasTotals(docs, budget) == \E h : Totals(docs, budget, h)

(* The documents are counted one after the other. *)
LEMMA TotalRuns ==
    ASSUME NEW docs \in Seq(Docs), NEW budget
    PROVE  HasTotals(docs, budget)
<1> DEFINE n == Len(docs)
           A == Int
           a0 == 0
           Do(a, d) == a + IF Model!Fits(d) THEN d.len ELSE 0
           st == [p \in A \X (1 .. n) |-> Do(p[1], docs[p[2]])]
           Eq(g) == g = [s \in SUBSET DOMAIN docs |->
                           IF s = {} THEN a0 ELSE Do(g[s \ {Model!Max(s)}], docs[Model!Max(s)])]
           it == CHOOSE g : Eq(g)
<1>1. n \in Nat /\ DOMAIN docs = 1 .. n /\ \A i \in 1 .. n : docs[i] \in Docs
  OBVIOUS
<1>2. a0 \in A /\ \A a \in A, d \in Docs : Do(a, d) \in A
  BY DEF Docs
<1>3. st \in [A \X (1 .. n) -> A]
  <2> HIDE DEF A, n, Do
  <2> QED BY <1>1, <1>2
<1>4. PICK g0 \in [SUBSET (1 .. n) -> A] : Folded(st, a0, g0, n)
  <2> HIDE DEF st, A, n, a0
  <2>1. HasFold(st, a0, A, n)
    BY <1>1, <1>2, <1>3, FoldExists
  <2> QED BY <2>1 DEF HasFold
<1>5. ASSUME NEW s \in SUBSET (1 .. n), s # {}
      PROVE  Max(s) \in 1 .. n /\ s \ {Max(s)} \in SUBSET (1 .. n)
  BY <1>1, <1>5, TopOf
<1>6. \A s : Model!Max(s) = Max(s)
  BY DEF Model!Max, Max
<1>7. ASSUME NEW a \in A, NEW k \in 1 .. n PROVE st[<<a, k>>] = Do(a, docs[k])
  <2> HIDE DEF A, n, Do
  <2> QED OBVIOUS
<1> HIDE DEF st, A, n, Do, a0
<1>8. Eq(g0)
  <2>1. ASSUME NEW s \in SUBSET (1 .. n)
        PROVE  g0[s] = IF s = {} THEN a0 ELSE Do(g0[s \ {Model!Max(s)}], docs[Model!Max(s)])
    <3>1. CASE s = {}
      BY <1>4, <3>1 DEF Folded
    <3>2. CASE s # {}
      <4>1. g0[s] = st[<<g0[s \ {Max(s)}], Max(s)>>] /\ g0[s \ {Max(s)}] \in A
        BY <1>4, <1>5, <3>2 DEF Folded
      <4> QED BY <1>5, <1>6, <1>7, <3>2, <4>1
    <3> QED BY <3>1, <3>2
  <2> QED BY <1>1, <2>1
<1>9. Eq(it)
  <2> HIDE DEF Eq
  <2> QED BY <1>8
<1>10. Model!Documents(docs, budget) = AttachedOf(docs, budget, it[DOMAIN docs])
  BY DEF Model!Documents, Model!FoldLeft, Model!MapThenFoldSet, Do, a0, AttachedOf, Kept
<1>11. FoldsAlong(it, st, a0, A, n)
  <2> HIDE DEF it
  <2>1. \A s \in SUBSET (1 .. n) :
          it[s] = IF s = {} THEN a0 ELSE Do(it[s \ {Model!Max(s)}], docs[Model!Max(s)])
    BY <1>1, <1>9
  <2>2. it[{}] = a0
    BY <2>1
  <2>3. ASSUME NEW s \in SUBSET (1 .. n), s # {}, it[s \ {Max(s)}] \in A
        PROVE  it[s] = st[<<it[s \ {Max(s)}], Max(s)>>]
    BY <1>5, <1>6, <1>7, <2>1, <2>3
  <2> QED BY <2>2, <2>3 DEF FoldsAlong
<1> HIDE DEF it, Eq
<1>12. PICK h \in [0 .. n -> A] :
         /\ h[0] = a0 /\ h[n] = it[1 .. n]
         /\ \A k \in 1 .. n : h[k] = st[<<h[k - 1], k>>]
  <2>1. HasRun(st, a0, A, n, it[1 .. n])
    BY <1>1, <1>2, <1>3, <1>11, FoldRun
  <2> QED BY <2>1 DEF HasRun
<1>13. ASSUME NEW k \in 1 .. n PROVE h[k] = h[k - 1] + Counted(docs[k])
  <2>1. h[k - 1] \in A
    BY <1>1
  <2> QED BY <1>7, <1>12, <2>1 DEF Do, Counted
<1>14. Sum(h, n, 0, Counts(docs))
  BY <1>1, <1>12, <1>13 DEF Sum, A, a0, Counts, n
<1>15. Totals(docs, budget, h)
  BY <1>1, <1>10, <1>12, <1>14 DEF Totals, n
<1> QED BY <1>15 DEF HasTotals

(* What DocumentsKept says of the documents. *)
DocumentsOf(docs, budget) ==
    LET sent == Model!Documents(docs, budget)
        Alone(i) == Model!Documents(<<docs[i]>>, budget).kept # {}
        Emptied(i) == Model!Documents([docs EXCEPT ![i].len = 0], budget)
    IN /\ sent.len <= budget
       /\ sent.cut => sent.len = budget
       /\ \A i \in DOMAIN docs :
            /\ i \in sent.kept <=> Alone(i)
            /\ i \notin sent.kept => Emptied(i).len = sent.len /\ (Emptied(i).cut <=> sent.cut)
            /\ i \in sent.kept /\ ~sent.cut => Emptied(i).len = sent.len - docs[i].len

(* That is so for any documents: one that is left out adds nothing. *)
LEMMA DocumentsRight ==
    ASSUME NEW docs \in Seq(Docs), NEW budget \in Nat
    PROVE  DocumentsOf(docs, budget)
<1> DEFINE n == Len(docs)
           sent == Model!Documents(docs, budget)
<1>1. n \in Nat /\ DOMAIN docs = 1 .. n /\ \A i \in 1 .. n : docs[i] \in Docs
  OBVIOUS
<1>2. PICK g : Totals(docs, budget, g)
  BY TotalRuns DEF HasTotals
<1> DEFINE total == g[n]
<1>3. total \in Int /\ Sum(g, n, 0, Counts(docs)) /\ sent = AttachedOf(docs, budget, total)
  BY <1>1, <1>2 DEF Totals, Sum
<1>4. \A d \in Seq(Docs), t \in Int :
        /\ AttachedOf(d, budget, t).kept = Kept(d)
        /\ AttachedOf(d, budget, t).len = IF t > budget THEN budget ELSE t
        /\ AttachedOf(d, budget, t).cut <=> t > budget
  <2> SUFFICES ASSUME NEW d \in Seq(Docs), NEW t \in Int
               PROVE  /\ AttachedOf(d, budget, t).kept = Kept(d)
                      /\ AttachedOf(d, budget, t).len = IF t > budget THEN budget ELSE t
                      /\ AttachedOf(d, budget, t).cut <=> t > budget
    OBVIOUS
  <2>1. \A a, b, c : [kept |-> a, len |-> b, cut |-> c].kept = a /\ [kept |-> a, len |-> b, cut |-> c].len = b
                     /\ [kept |-> a, len |-> b, cut |-> c].cut = c
    OBVIOUS
  <2>2. AttachedOf(d, budget, t).cut = (t > budget)
    BY <2>1, Zenon DEF AttachedOf
  <2>3. AttachedOf(d, budget, t).cut <=> t > budget
    BY <2>2, Zenon
  <2> QED BY <2>1, <2>3 DEF AttachedOf
<1>5. sent.kept = Kept(docs) /\ sent.len = (IF total > budget THEN budget ELSE total) /\ (sent.cut <=> total > budget)
  BY <1>3, <1>4
<1> HIDE DEF n, sent, total
<1>6. sent.len <= budget /\ (sent.cut => sent.len = budget)
  BY <1>3, <1>5
<1>7. ASSUME NEW i \in DOMAIN docs PROVE i \in sent.kept <=> Model!Documents(<<docs[i]>>, budget).kept # {}
  <2> DEFINE one == <<docs[i]>>
  <2>1. one \in Seq(Docs) /\ DOMAIN one = {1} /\ one[1] = docs[i]
    BY <1>1
  <2>2. PICK h : Totals(one, budget, h)
    <3> HIDE DEF one
    <3> QED BY <2>1, TotalRuns DEF HasTotals
  <2>3. h[Len(one)] \in Int
    <3>1. Len(one) = 1
      OBVIOUS
    <3> HIDE DEF one
    <3> QED BY <2>2, <3>1 DEF Totals, Sum
  <2> HIDE DEF one
  <2>4. Model!Documents(one, budget).kept = Kept(one)
    BY <1>4, <2>1, <2>2, <2>3 DEF Totals
  <2>5. Kept(one) # {} <=> Model!Fits(docs[i])
    BY <2>1 DEF Kept
  <2>6. i \in Kept(docs) <=> Model!Fits(docs[i])
    BY DEF Kept
  <2> QED BY <1>5, <2>4, <2>5, <2>6 DEF one
<1>8. ASSUME NEW i \in DOMAIN docs
      PROVE  LET emptied == Model!Documents([docs EXCEPT ![i].len = 0], budget)
             IN /\ i \notin sent.kept => emptied.len = sent.len /\ (emptied.cut <=> sent.cut)
                /\ i \in sent.kept /\ ~sent.cut => emptied.len = sent.len - docs[i].len
  <2> DEFINE new == [docs EXCEPT ![i].len = 0]
             less == Counted(docs[i])
             emptied == Model!Documents(new, budget)
  <2>1. i \in 1 .. n /\ docs[i] \in Docs
    BY <1>1
  <2>2. [docs[i] EXCEPT !.len = 0] \in Docs /\ [docs[i] EXCEPT !.len = 0].len = 0
    BY <2>1 DEF Docs
  <2>3. new \in Seq(Docs) /\ Len(new) = n /\ \A k \in 1 .. n : new[k] = IF k = i THEN [docs[i] EXCEPT !.len = 0] ELSE docs[k]
    BY <2>1, <2>2 DEF n
  <2> HIDE DEF new
  <2>4. PICK h : Totals(new, budget, h)
    BY <2>3, TotalRuns DEF HasTotals
  <2>5. Sum(h, n, 0, Counts(new)) /\ emptied = AttachedOf(new, budget, h[n]) /\ h[n] \in Int
    BY <1>1, <2>3, <2>4 DEF Totals, Sum
  <2>6. ASSUME NEW k \in 1 .. n
        PROVE  Counts(docs)[k] \in Int /\ Counts(new)[k] = IF k = i THEN Counts(docs)[k] - less ELSE Counts(docs)[k]
    <3>1. Counts(docs)[k] = Counted(docs[k]) /\ Counts(new)[k] = Counted(new[k])
      BY <1>1, <2>3 DEF Counts, n
    <3>2. Counted(docs[k]) \in Int
      BY <1>1 DEF Counted, Docs
    <3>3. CASE k = i
      <4>1. Counted(new[k]) = 0
        BY <2>2, <2>3, <3>3 DEF Counted
      <4> QED BY <3>1, <3>2, <3>3, <4>1
    <3>4. CASE k # i
      BY <2>3, <3>1, <3>2, <3>4
    <3> QED BY <3>3, <3>4
  <2>7. less \in Nat
    BY <2>1 DEF Counted, Docs
  <2>8. h[n] = total - less
    <3> DEFINE a0 == 0
    <3>1. Differ(n, a0, Counts(docs), Counts(new), g, h, i, less)
      <4>1. i \in 1 .. n + 1 /\ less \in Int
        BY <1>1, <2>1, <2>7
      <4> HIDE DEF less
      <4> QED BY <1>1, <1>3, <2>5, <2>6, <4>1 DEF Differ
    <3> HIDE DEF a0, less
    <3>2. h[n] = IF i <= n THEN g[n] - less ELSE g[n]
      BY <3>1, SumsDiffer
    <3>3. i <= n
      BY <1>1, <2>1
    <3> QED BY <3>2, <3>3 DEF total
  <2>9. emptied.len = (IF h[n] > budget THEN budget ELSE h[n]) /\ (emptied.cut <=> h[n] > budget)
    BY <1>4, <2>3, <2>5
  <2>10. i \in sent.kept <=> Model!Fits(docs[i])
    BY <1>5 DEF Kept
  <2> HIDE DEF emptied
  <2>11. i \notin sent.kept => emptied.len = sent.len /\ (emptied.cut <=> sent.cut)
    <3>1. i \notin sent.kept => less = 0
      BY <2>10 DEF Counted
    <3>2. i \notin sent.kept => h[n] = total
      BY <1>3, <2>8, <3>1
    <3> QED BY <1>5, <2>9, <3>2
  <2>12. i \in sent.kept /\ ~sent.cut => emptied.len = sent.len - docs[i].len
    <3>1. i \in sent.kept => less = docs[i].len
      BY <2>10 DEF Counted
    <3>2. ~sent.cut => h[n] <= budget /\ sent.len = total
      BY <1>3, <1>5, <2>7, <2>8
    <3> HIDE DEF less
    <3> QED BY <1>3, <2>5, <2>8, <2>9, <3>1, <3>2
  <2> QED BY <2>11, <2>12 DEF emptied, new
<1> QED BY <1>6, <1>7, <1>8 DEF DocumentsOf, sent

(* The drafts. *)
LEMMA DraftsComeWhole == SomethingComes => DraftsWhole'
<1> DEFINE Body == DraftsOf(input.turns, input.max, input.replies, input.write, input.fails, input.bad)
<1>1. DraftsWhole' <=> (input'.of = "meeting" => Body')
  BY DEF DraftsWhole, DraftsOf
<1>2. MeetingIsProcessed => Body'
  <2> SUFFICES ASSUME MeetingIsProcessed PROVE Body'
    OBVIOUS
  <2> DEFINE Count(turns, max) == Len(Long!Chunks(turns, max))
             Came(turns, max, answer, result, write, fails, bad, reply) ==
               /\ bad # 0 => fails = 0 /\ ~Long!Reads(reply, Long!Question(bad, Count(turns, max)))
               /\ input' = [of |-> "meeting", turns |-> turns, max |-> max, write |-> write, fails |-> fails, bad |-> bad,
                            replies |-> Replied(answer, result, reply, bad, Count(turns, max))]
  <2>0. PICK turns \in Notes, max \in Caps, answer \in Answers, result \in Results, write \in BOOLEAN, fails \in 0 .. 2 :
          \E bad \in 0 .. Count(turns, max) + 1, reply \in Garbled : Came(turns, max, answer, result, write, fails, bad, reply)
    BY Zenon DEF MeetingIsProcessed, Replied
  <2>1. PICK bad \in 0 .. Count(turns, max) + 1, reply \in Garbled :
          Came(turns, max, answer, result, write, fails, bad, reply)
    BY <2>0
  <2>2. DraftsOf(turns, max, Replied(answer, result, reply, bad, Len(Long!Chunks(turns, max))), write, fails, bad)
    BY <2>1, DraftsRight
  <2>3. /\ input'.turns = turns /\ input'.max = max /\ input'.write = write /\ input'.fails = fails /\ input'.bad = bad
        /\ input'.replies = Replied(answer, result, reply, bad, Len(Long!Chunks(turns, max)))
    <3> DEFINE replies == Replied(answer, result, reply, bad, Len(Long!Chunks(turns, max)))
    <3>1. input' = [of |-> "meeting", turns |-> turns, max |-> max, write |-> write, fails |-> fails, bad |-> bad,
                    replies |-> replies]
      BY <2>1
    <3> HIDE DEF replies
    <3>2. /\ input'.turns = turns /\ input'.max = max /\ input'.write = write /\ input'.fails = fails /\ input'.bad = bad
          /\ input'.replies = replies
      BY <3>1
    <3> QED BY <3>2 DEF replies
  <2>4. Body' <=> DraftsOf(input'.turns, input'.max, input'.replies, input'.write, input'.fails, input'.bad)
    BY DEF DraftsOf
  <2> QED BY <2>2, <2>3, <2>4, Zenon
<1> HIDE DEF Body
<1>3. CASE input'.of # "meeting"
  BY <1>1, <1>3
<1> QED BY <1>1, <1>2, <1>3, InputComes DEF SomethingComes

(* The minutes. *)
LEMMA MinutesComeWhole == SomethingComes => MinutesWhole'
<1> DEFINE Body == MinutesOf(input.reply)
<1>1. MinutesWhole' <=> (input'.of = "minutes" => Body')
  BY DEF MinutesWhole, MinutesOf
<1>2. MinutesAreRead => Body'
  <2> SUFFICES ASSUME NEW reply \in Headings, input' = [of |-> "minutes", reply |-> reply] PROVE Body'
    BY DEF MinutesAreRead
  <2>1. MinutesOf(reply) /\ input'.reply = reply
    BY MinutesRight
  <2>2. Body' <=> MinutesOf(input'.reply)
    BY DEF MinutesOf
  <2> QED BY <2>1, <2>2, Zenon
<1> HIDE DEF Body
<1>3. CASE input'.of # "minutes"
  BY <1>1, <1>3
<1> QED BY <1>1, <1>2, <1>3, InputComes DEF SomethingComes

(* The documents. *)
LEMMA DocumentsComeKept == SomethingComes => DocumentsKept'
<1> DEFINE Body == DocumentsOf(input.docs, input.budget)
<1>1. DocumentsKept' <=> (input'.of = "documents" => Body')
  BY DEF DocumentsKept, DocumentsOf
<1>2. DocumentsAreAttached => Body'
  <2> SUFFICES ASSUME NEW docs \in Attached, NEW budget \in Budgets,
                      input' = [of |-> "documents", docs |-> docs, budget |-> budget]
               PROVE  Body'
    BY DEF DocumentsAreAttached
  <2>1. docs \in Seq(Docs) /\ budget \in Nat
    BY DocumentsAssumption DEF Docs
  <2>2. DocumentsOf(docs, budget) /\ input'.docs = docs /\ input'.budget = budget
    BY <2>1, DocumentsRight
  <2>3. Body' <=> DocumentsOf(input'.docs, input'.budget)
    BY DEF DocumentsOf
  <2> QED BY <2>2, <2>3, Zenon
<1> HIDE DEF Body
<1>3. CASE input'.of # "documents"
  BY <1>1, <1>3
<1> QED BY <1>1, <1>2, <1>3, InputComes DEF SomethingComes

(* Every turn of a long meeting is asked about once, nothing is written of a   *)
(* reply that cannot be read, the drafts tell all of the result; the minutes   *)
(* hold the last text of each block; and a bad document costs no other its     *)
(* place: for notes, replies, minutes and documents of any length. *)
THEOREM DraftsAreWhole == ServiceSpec => []DraftsAndMinutes
<1>1. Idle => DraftsAndMinutes
  <2> SUFFICES ASSUME Idle PROVE DraftsAndMinutes
    OBVIOUS
  <2>1. input.of = "nothing"
    BY InputComes
  <2> QED BY <2>1 DEF DraftsAndMinutes, DraftsWhole, MinutesWhole, DocumentsKept
<1>2. DraftsAndMinutes /\ [SomethingComes]_input => DraftsAndMinutes'
  <2>1. SomethingComes => DraftsAndMinutes'
    BY DraftsComeWhole, MinutesComeWhole, DocumentsComeKept DEF DraftsAndMinutes
  <2>2. DraftsAndMinutes /\ UNCHANGED input => DraftsAndMinutes'
    <3>1. DraftsWhole /\ UNCHANGED input => DraftsWhole'
      BY Zenon DEF DraftsWhole
    <3>2. MinutesWhole /\ UNCHANGED input => MinutesWhole'
      <4>1. MinutesWhole <=> (input.of = "minutes" => MinutesOf(input.reply))
        BY DEF MinutesWhole, MinutesOf
      <4>2. MinutesWhole' <=> (input'.of = "minutes" => MinutesOf(input'.reply))
        BY DEF MinutesWhole, MinutesOf
      <4> QED BY <4>1, <4>2, Zenon
    <3>3. DocumentsKept /\ UNCHANGED input => DocumentsKept'
      <4>1. DocumentsKept <=> (input.of = "documents" => DocumentsOf(input.docs, input.budget))
        BY DEF DocumentsKept, DocumentsOf
      <4>2. DocumentsKept' <=> (input'.of = "documents" => DocumentsOf(input'.docs, input'.budget))
        BY DEF DocumentsKept, DocumentsOf
      <4> QED BY <4>1, <4>2, Zenon
    <3> QED BY <3>1, <3>2, <3>3 DEF DraftsAndMinutes
  <2> QED BY <2>1, <2>2
<1> QED BY <1>1, <1>2, PTL DEF ServiceSpec
=============================================================================
