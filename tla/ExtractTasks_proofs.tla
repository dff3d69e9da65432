------------------------ MODULE ExtractTasks_proofs ------------------------
(* What the dialog guarantees for any trackers, any number of threads, tasks  *)
(* in an answer, changes by hand and faults.                                  *)
EXTENDS ExtractTasks, FiniteSetTheorems, SequenceTheorems, TLAPS

-----------------------------------------------------------------------------
(* Types.                                                                     *)
Names == [by : Works \cup {None}, n : Nat]
Metas == [backend : Backends, of : Backends \cup {None}]
FetchRecord == [pc : {"unused", "asking", "done"}, of : Backends \cup {None}]
WorkRecord ==
  [kind : {"none", "extract", "fill"},
   pc : {"unused", "clients", "context", "ask", "askagain", "commit", "protocol", "prompt", "minutes",
         "recent", "board", "check", "choose", "match", "matchagain", "post", "done"},
   meta : Metas \cup {None}, target : Names \cup {None}, k : Nat,
   committed : BOOLEAN, shown : BOOLEAN, lost : {"no", "config", "reply"}, late : Nat]
Callbacks ==
  [do : {"loaded"}, of : Backends \cup {None}]
  \cup [do : {"unloaded", "failed", "idle"}]
  \cup [do : {"extracted"}, by : Works, meta : Metas \cup {None}]
  \cup [do : {"filled"}, ok : BOOLEAN, target : Names \cup {None}]

Shape ==
  /\ picked \in Backends /\ keys \subseteq Backends
  /\ team \in Backends \cup {None}
  /\ cached \in [Backends -> Backends \cup {None}]
  /\ fetches \in [Fetches -> FetchRecord]
  /\ works \in [Works -> WorkRecord]
  /\ tkq \in Seq(Callbacks)
  /\ tasks \in Seq(Names) /\ selected \in Names \cup {None}
  /\ meta \in Metas \cup {None}
  /\ edits \in Nat
  /\ busy \in BOOLEAN /\ closed \in BOOLEAN

(* A thread: what it committed is not lost on the way, and how many calls it  *)
(* can have begun after the close when it is where it is.                     *)
WorkOK(r, isClosed) ==
  /\ r.pc \notin {"unused", "done"} => r.kind \in {"extract", "fill"}
  /\ r.kind = "fill" => r.pc \in {"ask", "askagain", "done"} /\ ~r.committed
  /\ r.committed => r.pc \in {"protocol", "prompt", "minutes", "recent", "board", "check", "choose",
                              "match", "matchagain", "post", "done"}
  /\ r.pc = "done" /\ r.committed /\ r.lost = "no" => r.shown \/ isClosed
  /\ r.lost # "no" => r.pc = "done"
  /\ r.late <= 2 /\ (~isClosed => r.late = 0)
  /\ r.pc \in {"unused", "clients", "context", "commit", "protocol", "prompt", "board", "choose"} => r.late = 0
  /\ r.pc \in {"ask", "minutes", "recent", "match"} => r.late <= 1
WorkInv == \A w \in Works : WorkOK(works[w], closed)

(* While nothing overlaps, one thread is alive or the callback that ends the  *)
(* work waits, and the window is busy then.                                   *)
Enders == {i \in 1 .. Len(tkq) : tkq[i].do \in {"idle", "filled"}}
TurnInv ==
  /\ closed => tkq = <<>>
  /\ overlapped \/ /\ \A v, w \in Works : Alive(v) /\ Alive(w) => v = w
                   /\ ~closed /\ (\E w \in Works : Alive(w)) => busy /\ Enders = {}
                   /\ Enders # {} => busy
                   /\ \A i, j \in Enders : i = j

(* While nothing moved, every filling under way is for the selected task.     *)
FillInv ==
  /\ astray => moved
  /\ closed \/ moved \/ /\ \A w \in Works : Alive(w) /\ works[w].kind = "fill" => works[w].target = selected
                        /\ \A i \in 1 .. Len(tkq) : tkq[i].do = "filled" => tkq[i].target = selected

(* While nothing crossed, what is under way is of the backend of the          *)
(* dropdown, and what an extraction will be sent to of one backend.           *)
OneBackend(m) == m # None => m.of = m.backend
FetchInv ==
  crossed \/ /\ team \in {None, picked}
             /\ \A b \in Backends : cached[b] \in {None, b}
             /\ OneBackend(meta)
             /\ \A f \in Fetches : fetches[f].pc = "asking" => fetches[f].of = picked
             /\ \A w \in Works : OneBackend(works[w].meta)
             /\ \A i \in 1 .. Len(tkq) : /\ tkq[i].do = "loaded" => tkq[i].of = picked
                                         /\ tkq[i].do = "extracted" => OneBackend(tkq[i].meta)

ExtractInv == Shape /\ WorkInv /\ TurnInv /\ FillInv /\ FetchInv

-----------------------------------------------------------------------------
(* The callbacks: after what was there comes what is posted.                  *)
LEMMA Posted ==
  ASSUME NEW cbs \in Seq(Callbacks), tkq \in Seq(Callbacks), Post(cbs)
  PROVE  /\ tkq' \in Seq(Callbacks)
         /\ closed => tkq' = tkq
         /\ ~closed => /\ Len(tkq') = Len(tkq) + Len(cbs)
                       /\ \A i \in 1 .. Len(tkq') :
                            tkq'[i] = IF i <= Len(tkq) THEN tkq[i] ELSE cbs[i - Len(tkq)]
BY ConcatProperties DEF Post

(* Taking the first callback of Tk's queue moves the others up by one. *)
LEMMA Popped ==
  ASSUME tkq \in Seq(Callbacks), tkq # <<>>, tkq' = Tail(tkq)
  PROVE  /\ Head(tkq) \in Callbacks /\ Head(tkq) = tkq[1]
         /\ Len(tkq) \in Nat /\ Len(tkq) >= 1
         /\ tkq' \in Seq(Callbacks) /\ Len(tkq') = Len(tkq) - 1
         /\ \A i \in 1 .. Len(tkq') : i + 1 \in 1 .. Len(tkq) /\ tkq'[i] = tkq[i + 1]
<1>1. Len(tkq) \in Nat /\ Len(tkq) >= 1 /\ Head(tkq) = tkq[1]
  BY EmptySeq
<1> QED
  BY <1>1, HeadTailProperties

-----------------------------------------------------------------------------
(* A step of a thread goes on, or ends it and posts one callback that ends    *)
(* the work, or ends it after the close.                                      *)
GoesOn(w, r) ==
  /\ r.pc \notin {"unused", "done"} /\ r.kind = works[w].kind
  /\ r.meta = works[w].meta /\ r.target = works[w].target
  /\ UNCHANGED tkq
Ends(w, r) ==
  /\ r.pc = "done"
  /\ \/ closed /\ UNCHANGED tkq
     \/ \E cbs \in Seq(Callbacks) :
          /\ Post(cbs) /\ Len(cbs) \in 1 .. 2
          /\ cbs[Len(cbs)].do \in {"idle", "filled"}
          /\ Len(cbs) = 2 => cbs[1].do \in {"failed", "extracted"}
          /\ \A i \in 1 .. Len(cbs) :
               /\ cbs[i].do = "extracted" => cbs[i].meta = works[w].meta
               /\ cbs[i].do = "filled" => works[w].kind = "fill" /\ cbs[i].target = works[w].target
StepOf(w, r) ==
  /\ works' = [works EXCEPT ![w] = r]
  /\ r \in WorkRecord /\ WorkOK(r, closed) /\ r.meta \in {works[w].meta, None}
  /\ Alive(w) /\ OnlyWork
  /\ GoesOn(w, r) \/ Ends(w, r)

(* A thread that goes on to its next call makes a step of the kind StepOf describes. *)
LEMMA Going ==
  ASSUME Shape, NEW w \in Works, Alive(w), NEW r \in WorkRecord, WorkOK(r, closed),
         r.pc \notin {"unused", "done"}, r.kind = works[w].kind, r.meta = works[w].meta,
         r.target = works[w].target,
         works' = [works EXCEPT ![w] = r], OnlyWork, UNCHANGED tkq
  PROVE  \E s : StepOf(w, s)
<1>1. StepOf(w, r)
  BY DEF StepOf, GoesOn
<1> QED
  BY <1>1

(* So does a thread that ends: it leaves its one ending callback, or the dialog is closed. *)
LEMMA Ending ==
  ASSUME Shape, WorkInv, NEW w \in Works, Alive(w), OnlyWork,
         NEW lost \in {"no", "config", "reply"}, Done(w, lost),
         lost = "no" => ~works[w].committed \/ closed,
         \/ closed /\ UNCHANGED tkq
         \/ Post(<<[do |-> "failed"], [do |-> "idle"]>>)
         \/ works[w].kind = "fill" /\ \E ok \in BOOLEAN :
                Post(<<[do |-> "filled", ok |-> ok, target |-> works[w].target]>>)
  PROVE  \E r : StepOf(w, r)
<1> DEFINE r == [works[w] EXCEPT !.pc = "done", !.lost = lost, !.k = 0, !.target = None, !.meta = None]
<1>1. works[w] \in WorkRecord /\ WorkOK(works[w], closed)
  BY DEF Shape, WorkInv
<1>2. r \in WorkRecord /\ r.pc = "done" /\ r.kind = works[w].kind /\ r.meta = None /\ r.lost = lost
      /\ r.committed = works[w].committed /\ r.late = works[w].late
  BY <1>1 DEF WorkRecord
<1>3. works' = [works EXCEPT ![w] = r]
  BY <1>1 DEF Done, Shape
<1>4. WorkOK(r, closed)
  <2> HIDE DEF r
  <2> QED
    BY <1>1, <1>2 DEF WorkOK
<1>5. Ends(w, r)
  <2>1. CASE closed /\ UNCHANGED tkq
    BY <2>1, <1>2 DEF Ends
  <2>2. CASE Post(<<[do |-> "failed"], [do |-> "idle"]>>)
    <3> DEFINE cbs == <<[do |-> "failed"], [do |-> "idle"]>>
    <3>1. cbs \in Seq(Callbacks) /\ Len(cbs) = 2 /\ cbs[1].do = "failed" /\ cbs[2].do = "idle"
      <4>1. [do |-> "failed"] \in Callbacks /\ [do |-> "idle"] \in Callbacks
        BY DEF Callbacks
      <4> QED
        BY <4>1
    <3>2. Post(cbs)
      BY <2>2
    <3> HIDE DEF cbs, r
    <3>3. Len(cbs) \in 1 .. 2 /\ \A i \in 1 .. Len(cbs) : i = 1 \/ i = 2
      BY <3>1
    <3> QED
      BY <3>1, <3>2, <3>3, <1>2 DEF Ends
  <2>3. CASE works[w].kind = "fill" /\ \E ok \in BOOLEAN :
                Post(<<[do |-> "filled", ok |-> ok, target |-> works[w].target]>>)
    <3>1. PICK ok \in BOOLEAN : Post(<<[do |-> "filled", ok |-> ok, target |-> works[w].target]>>)
      BY <2>3
    <3> DEFINE cb == [do |-> "filled", ok |-> ok, target |-> works[w].target]
               cbs == <<cb>>
    <3>2. cb \in Callbacks /\ cb.do = "filled" /\ cb.target = works[w].target
      BY <1>1 DEF Callbacks, WorkRecord
    <3>3. Post(cbs)
      BY <3>1
    <3> HIDE DEF cb
    <3>4. cbs \in Seq(Callbacks) /\ Len(cbs) = 1 /\ cbs[1] = cb
      BY <3>2
    <3> HIDE DEF cbs, r
    <3>5. Len(cbs) \in 1 .. 2 /\ \A i \in 1 .. Len(cbs) : i = 1
      BY <3>4
    <3>6. \A i \in 1 .. Len(cbs) : cbs[i].do = "filled" /\ cbs[i].target = works[w].target
      BY <3>2, <3>4, <3>5
    <3>7. cbs[Len(cbs)].do = "filled" /\ ~(Len(cbs) = 2)
      BY <3>2, <3>4
    <3>8. "filled" # "extracted"
      OBVIOUS
    <3> QED
      BY <3>3, <3>4, <3>5, <3>6, <3>7, <3>8, <2>3, <1>2 DEF Ends
  <2> QED
    BY <2>1, <2>2, <2>3
<1> HIDE DEF r
<1>6. StepOf(w, r)
  BY <1>2, <1>3, <1>4, <1>5 DEF StepOf
<1> QED
  BY <1>6

(* Every step of a thread of work is therefore of that kind. *)
LEMMA WorkStep ==
  ASSUME Shape, WorkInv, NEW w \in Works, Work(w)
  PROVE  \E r : StepOf(w, r)
<1> DEFINE r == works[w]
<1>0. r \in WorkRecord /\ WorkOK(r, closed) /\ r.k \in Nat /\ r.late \in Nat /\ r.committed \in BOOLEAN
      /\ r.pc \in {"clients", "context", "ask", "askagain", "commit", "protocol", "prompt", "minutes",
                   "recent", "board", "check", "choose", "match", "matchagain", "post"}
      /\ Alive(w) /\ works \in [Works -> WorkRecord] /\ Late \in {0, 1} /\ (Late = 1 <=> closed)
  <2>1. r \in WorkRecord /\ WorkOK(r, closed) /\ works \in [Works -> WorkRecord]
    BY DEF Shape, WorkInv
  <2>2. r.pc \in {"clients", "context", "ask", "askagain", "commit", "protocol", "prompt", "minutes",
                   "recent", "board", "check", "choose", "match", "matchagain", "post"}
    BY DEF Work, Clients, Context, AskExtract, Commit, Protocol, Minutes, RememberModel, Board, CheckTask,
           ChooseMatch, Match, Show, AskFill
  <2>3. Alive(w)
    BY <2>2 DEF Alive
  <2>4. Late \in {0, 1} /\ (Late = 1 <=> closed)
    BY DEF Late, Shape
  <2> QED
    BY <2>1, <2>2, <2>3, <2>4 DEF WorkRecord
<1>1. ASSUME NEW pc \in {"clients", "context", "ask", "askagain", "commit", "protocol", "prompt", "minutes",
                         "recent", "board", "check", "choose", "match", "matchagain", "post"},
             To(w, pc), WorkOK([r EXCEPT !.pc = pc], closed), OnlyWork, UNCHANGED tkq
      PROVE  \E s : StepOf(w, s)
  <2> DEFINE new == [r EXCEPT !.pc = pc]
  <2>1. works' = [works EXCEPT ![w] = new]
    BY <1>0, <1>1 DEF To
  <2>2. new \in WorkRecord /\ new.pc = pc /\ new.kind = r.kind /\ new.meta = r.meta /\ new.target = r.target
    BY <1>0 DEF WorkRecord
  <2>3. WorkOK(new, closed)
    BY <1>1
  <2>4. pc \notin {"unused", "done"}
    BY <1>1
  <2> HIDE DEF new
  <2> QED
    BY <1>0, <1>1, <2>1, <2>2, <2>3, <2>4, Going
<1>2. ASSUME NEW pc \in {"clients", "context", "ask", "askagain", "commit", "protocol", "prompt", "minutes",
                         "recent", "board", "check", "choose", "match", "matchagain", "post"},
             Call(w, pc), WorkOK([r EXCEPT !.pc = pc, !.late = @ + Late], closed), OnlyWork, UNCHANGED tkq
      PROVE  \E s : StepOf(w, s)
  <2> DEFINE new == [r EXCEPT !.pc = pc, !.late = @ + Late]
  <2>1. works' = [works EXCEPT ![w] = new]
    BY <1>0, <1>2 DEF Call
  <2>2. new \in WorkRecord /\ new.pc = pc /\ new.kind = r.kind /\ new.meta = r.meta /\ new.target = r.target
    <3>1. r.late + Late \in Nat
      BY <1>0
    <3> QED
      BY <1>0, <3>1 DEF WorkRecord
  <2>3. WorkOK(new, closed)
    BY <1>2
  <2>4. pc \notin {"unused", "done"}
    BY <1>2
  <2> HIDE DEF new
  <2> QED
    BY <1>0, <1>2, <2>1, <2>2, <2>3, <2>4, Going
<1>3. CASE Clients(w)
  <2>1. ~r.committed
    BY <1>0, <1>3 DEF Clients, WorkOK
  <2>2. CASE closed /\ Abandon(w)
    BY <1>0, <2>1, <2>2, Ending DEF Abandon, Quiet
  <2>3. CASE ~closed /\ To(w, "context") /\ Quiet
    <3>1. WorkOK([r EXCEPT !.pc = "context"], closed)
      BY <1>0, <1>3, <2>3 DEF Clients, WorkOK, WorkRecord
    <3> QED
      BY <1>1, <2>3, <3>1 DEF Quiet
  <2>4. CASE Fails(w, "no") /\ OnlyWork
    BY <1>0, <2>1, <2>4, Ending DEF Fails
  <2> QED
    BY <1>3, <2>2, <2>3, <2>4 DEF Clients
<1>4. CASE Context(w)
  <2>1. ~r.committed
    BY <1>0, <1>4 DEF Context, WorkOK
  <2>2. CASE Call(w, "ask") /\ Quiet
    <3>1. WorkOK([r EXCEPT !.pc = "ask", !.late = @ + Late], closed)
      BY <1>0, <1>4 DEF Context, WorkOK, WorkRecord
    <3> QED
      BY <1>2, <2>2, <3>1 DEF Quiet
  <2>3. CASE Fails(w, "no") /\ OnlyWork
    BY <1>0, <2>1, <2>3, Ending DEF Fails
  <2> QED
    BY <1>4, <2>2, <2>3 DEF Context
<1>5. CASE AskExtract(w)
  <2>0. r.kind = "extract" /\ r.pc \in {"ask", "askagain"} /\ ~r.committed
    BY <1>0, <1>5 DEF AskExtract, WorkOK
  <2>1. CASE closed /\ Abandon(w)
    BY <1>0, <2>0, <2>1, Ending DEF Abandon, Quiet
  <2>2. CASE ~closed /\ To(w, "commit") /\ Quiet
    <3>1. WorkOK([r EXCEPT !.pc = "commit"], closed)
      BY <1>0, <2>0, <2>2 DEF WorkOK, WorkRecord
    <3> QED
      BY <1>1, <2>2, <3>1 DEF Quiet
  <2>3. CASE r.pc = "ask" /\ Call(w, "askagain") /\ OnlyWork /\ UNCHANGED tkq
    <3>1. WorkOK([r EXCEPT !.pc = "askagain", !.late = @ + Late], closed)
      BY <1>0, <2>0, <2>3 DEF WorkOK, WorkRecord
    <3> QED
      BY <1>2, <2>3, <3>1
  <2>4. CASE Fails(w, "no") /\ OnlyWork
    BY <1>0, <2>0, <2>4, Ending DEF Fails
  <2> QED
    BY <1>5, <2>1, <2>2, <2>3, <2>4 DEF AskExtract
<1>6. CASE Commit(w)
  <2>1. CASE SaveRaw(w) /\ Quiet
    <3> DEFINE new == [r EXCEPT !.pc = "protocol", !.committed = TRUE]
    <3>1. works' = [works EXCEPT ![w] = new]
      BY <1>0, <2>1 DEF SaveRaw
    <3>2. new \in WorkRecord /\ new.pc = "protocol" /\ new.kind = r.kind /\ new.meta = r.meta /\ new.target = r.target
      BY <1>0 DEF WorkRecord
    <3>3. WorkOK(new, closed)
      BY <1>0, <1>6 DEF Commit, WorkOK, WorkRecord
    <3> HIDE DEF new
    <3> QED
      BY <1>0, <2>1, <3>1, <3>2, <3>3, Going DEF Quiet
  <2>2. CASE Fails(w, "no") /\ OnlyWork
    <3>1. ~r.committed
      BY <1>0, <1>6 DEF Commit, WorkOK
    <3> QED
      BY <1>0, <2>2, <3>1, Ending DEF Fails
  <2> QED
    BY <1>6, <2>1, <2>2 DEF Commit
<1>7. CASE Protocol(w)
  <2>1. CASE r.pc \in {"protocol", "minutes"} /\ To(w, "recent")
    <3>1. WorkOK([r EXCEPT !.pc = "recent"], closed)
      BY <1>0, <2>1 DEF WorkOK, WorkRecord
    <3> QED
      BY <1>1, <1>7, <2>1, <3>1 DEF Protocol, Quiet
  <2>2. CASE r.pc = "protocol" /\ To(w, "prompt")
    <3>1. WorkOK([r EXCEPT !.pc = "prompt"], closed)
      BY <1>0, <2>2 DEF WorkOK, WorkRecord
    <3> QED
      BY <1>1, <1>7, <2>2, <3>1 DEF Protocol, Quiet
  <2>3. CASE r.pc = "prompt" /\ Call(w, "minutes")
    <3>1. WorkOK([r EXCEPT !.pc = "minutes", !.late = @ + Late], closed)
      BY <1>0, <2>3 DEF WorkOK, WorkRecord
    <3> QED
      BY <1>2, <1>7, <2>3, <3>1 DEF Protocol, Quiet
  <2> QED
    BY <1>7, <2>1, <2>2, <2>3 DEF Protocol, Minutes
<1>8. CASE RememberModel(w)
  <2>1. CASE closed /\ To(w, "post") /\ Quiet
    <3>1. WorkOK([r EXCEPT !.pc = "post"], closed)
      BY <1>0, <1>8, <2>1 DEF RememberModel, WorkOK, WorkRecord
    <3> QED
      BY <1>1, <2>1, <3>1 DEF Quiet
  <2>2. CASE ~closed /\ To(w, "board") /\ Quiet
    <3>1. WorkOK([r EXCEPT !.pc = "board"], closed)
      BY <1>0, <1>8, <2>2 DEF RememberModel, WorkOK, WorkRecord
    <3> QED
      BY <1>1, <2>2, <3>1 DEF Quiet
  <2>3. CASE Fails(w, "config") /\ OnlyWork
    BY <1>0, <2>3, Ending DEF Fails
  <2> QED
    BY <1>8, <2>1, <2>2, <2>3 DEF RememberModel
<1>9. CASE Board(w)
  <2>1. CASE works' = [works EXCEPT ![w].pc = "check", ![w].k = 1] /\ Quiet
    <3> DEFINE new == [r EXCEPT !.pc = "check", !.k = 1]
    <3>1. works' = [works EXCEPT ![w] = new]
      BY <1>0, <2>1
    <3>2. new \in WorkRecord /\ new.pc = "check" /\ new.kind = r.kind /\ new.meta = r.meta /\ new.target = r.target
      BY <1>0 DEF WorkRecord
    <3>3. WorkOK(new, closed)
      BY <1>0, <1>9 DEF Board, WorkOK, WorkRecord
    <3> HIDE DEF new
    <3> QED
      BY <1>0, <2>1, <3>1, <3>2, <3>3, Going DEF Quiet
  <2>2. CASE To(w, "post") /\ Quiet
    <3>1. WorkOK([r EXCEPT !.pc = "post"], closed)
      BY <1>0, <1>9 DEF Board, WorkOK, WorkRecord
    <3> QED
      BY <1>1, <2>2, <3>1 DEF Quiet
  <2> QED
    BY <1>9, <2>1, <2>2 DEF Board
<1>10. CASE CheckTask(w)
  <2>1. CASE To(w, "post")
    <3>1. WorkOK([r EXCEPT !.pc = "post"], closed)
      BY <1>0, <1>10 DEF CheckTask, WorkOK, WorkRecord
    <3> QED
      BY <1>1, <1>10, <2>1, <3>1 DEF CheckTask, Quiet
  <2>2. CASE ~closed /\ To(w, "choose")
    <3>1. WorkOK([r EXCEPT !.pc = "choose"], closed)
      BY <1>0, <1>10, <2>2 DEF CheckTask, WorkOK, WorkRecord
    <3> QED
      BY <1>1, <1>10, <2>2, <3>1 DEF CheckTask, Quiet
  <2> QED
    BY <1>10, <2>1, <2>2 DEF CheckTask
<1>11. ASSUME r.pc \in {"choose", "match", "matchagain"}, NextTask(w), Quiet
       PROVE  \E s : StepOf(w, s)
  <2> DEFINE new == [r EXCEPT !.pc = "check", !.k = @ + 1]
  <2>1. works' = [works EXCEPT ![w] = new]
    BY <1>0, <1>11 DEF NextTask
  <2>2. new \in WorkRecord /\ new.pc = "check" /\ new.kind = r.kind /\ new.meta = r.meta /\ new.target = r.target
    <3>1. r.k + 1 \in Nat
      BY <1>0
    <3> QED
      BY <1>0, <3>1 DEF WorkRecord
  <2>3. WorkOK(new, closed)
    BY <1>0, <1>11 DEF WorkOK, WorkRecord
  <2> HIDE DEF new
  <2> QED
    BY <1>0, <1>11, <2>1, <2>2, <2>3, Going DEF Quiet
<1>12. CASE ChooseMatch(w)
  <2>1. CASE Call(w, "match")
    <3>1. WorkOK([r EXCEPT !.pc = "match", !.late = @ + Late], closed)
      BY <1>0, <1>12 DEF ChooseMatch, WorkOK, WorkRecord
    <3> QED
      BY <1>2, <1>12, <2>1, <3>1 DEF ChooseMatch, Quiet
  <2> QED
    BY <1>11, <1>12, <2>1 DEF ChooseMatch
<1>13. CASE Match(w)
  <2>1. CASE r.pc = "match" /\ Call(w, "matchagain") /\ OnlyWork /\ UNCHANGED tkq
    <3>1. WorkOK([r EXCEPT !.pc = "matchagain", !.late = @ + Late], closed)
      BY <1>0, <2>1 DEF WorkOK, WorkRecord
    <3> QED
      BY <1>2, <2>1, <3>1
  <2>2. CASE Fails(w, "reply") /\ OnlyWork
    BY <1>0, <2>2, Ending DEF Fails
  <2> QED
    BY <1>11, <1>13, <2>1, <2>2 DEF Match
<1>14. CASE Show(w)
  <2> DEFINE new == [r EXCEPT !.pc = "done", !.shown = ~closed, !.k = 0, !.meta = None]
             one == [do |-> "extracted", by |-> w, meta |-> r.meta]
             two == [do |-> "idle"]
             cbs == <<one, two>>
  <2>1. works' = [works EXCEPT ![w] = new] /\ OnlyWork /\ Post(cbs)
    BY <1>0, <1>14 DEF Show
  <2>2. new \in WorkRecord /\ new.pc = "done" /\ new.meta = None
    BY <1>0, <1>14 DEF WorkRecord
  <2>3. WorkOK(new, closed)
    BY <1>0, <1>14 DEF Show, WorkOK, WorkRecord
  <2>4. one \in Callbacks /\ one.do = "extracted" /\ one.meta = r.meta /\ two \in Callbacks /\ two.do = "idle"
    BY <1>0 DEF Callbacks, WorkRecord
  <2> HIDE DEF one, two, new
  <2>5. cbs \in Seq(Callbacks) /\ Len(cbs) = 2 /\ cbs[1] = one /\ cbs[2] = two
    BY <2>4
  <2> HIDE DEF cbs
  <2>6. Ends(w, new)
    <3>1. Len(cbs) \in 1 .. 2 /\ \A i \in 1 .. Len(cbs) : i = 1 \/ i = 2
      BY <2>5
    <3> QED
      BY <2>1, <2>2, <2>4, <2>5, <3>1 DEF Ends
  <2>7. StepOf(w, new)
    BY <1>0, <2>1, <2>2, <2>3, <2>6 DEF StepOf
  <2> QED
    BY <2>7
<1>15. CASE AskFill(w)
  <2>0. r.kind = "fill" /\ r.pc \in {"ask", "askagain"} /\ ~r.committed /\ OnlyWork
    BY <1>0, <1>15 DEF AskFill, WorkOK
  <2>1. CASE \E ok \in BOOLEAN : Answered(w, ok)
    BY <1>0, <2>0, <2>1, Ending DEF Answered
  <2>2. CASE r.pc = "ask" /\ Call(w, "askagain") /\ UNCHANGED tkq
    <3>1. WorkOK([r EXCEPT !.pc = "askagain", !.late = @ + Late], closed)
      BY <1>0, <2>0, <2>2 DEF WorkOK, WorkRecord
    <3> QED
      BY <1>2, <2>0, <2>2, <3>1
  <2> QED
    BY <1>15, <2>1, <2>2 DEF AskFill
<1> QED
  BY <1>3, <1>4, <1>5, <1>6, <1>7, <1>8, <1>9, <1>10, <1>12, <1>13, <1>14, <1>15 DEF Work

-----------------------------------------------------------------------------
(* The invariant is kept by a thread.                                         *)
LEMMA ThreadStep ==
  ASSUME ExtractInv, NEW w \in Works, NEW r, StepOf(w, r)
  PROVE  ExtractInv'
<1>0. /\ UNCHANGED <<picked, keys, team, cached, fetches, crossed, tasks, selected, meta, moved, astray,
                     busy, closed, edits, overlapped>>
      /\ works' = [works EXCEPT ![w] = r] /\ r \in WorkRecord /\ WorkOK(r, closed)
      /\ r.meta \in {works[w].meta, None}
      /\ Alive(w)
      /\ works \in [Works -> WorkRecord] /\ tkq \in Seq(Callbacks) /\ Len(tkq) \in Nat
  BY DEF StepOf, OnlyWork, picker, editor, ExtractInv, Shape
<1>1. works' \in [Works -> WorkRecord] /\ \A v \in Works : works'[v] = IF v = w THEN r ELSE works[v]
  BY <1>0
<1>2. tkq' \in Seq(Callbacks) /\ (closed => tkq' = tkq)
  BY <1>0, Posted DEF StepOf, GoesOn, Ends
<1>3. Shape'
  BY <1>0, <1>1, <1>2 DEF Shape, ExtractInv
<1>4. WorkInv'
  BY <1>0, <1>1 DEF WorkInv, ExtractInv
<1>5. CASE GoesOn(w, r)
  <2>1. \A v \in Works : /\ Alive(v)' <=> Alive(v) /\ works'[v].kind = works[v].kind
                         /\ works'[v].target = works[v].target /\ works'[v].meta = works[v].meta
    BY <1>0, <1>1, <1>5 DEF GoesOn, Alive
  <2>2. tkq' = tkq
    BY <1>5 DEF GoesOn
  <2>3. TurnInv'
    BY <1>0, <2>1, <2>2 DEF TurnInv, Enders, ExtractInv
  <2>4. FillInv' /\ FetchInv'
    BY <1>0, <2>1, <2>2 DEF FillInv, FetchInv, OneBackend, ExtractInv
  <2> QED
    BY <1>3, <1>4, <2>3, <2>4 DEF ExtractInv
<1>6. CASE Ends(w, r)
  <2>1. ~Alive(w)' /\ \A v \in Works : Alive(v)' => Alive(v) /\ v # w /\ works'[v] = works[v]
    BY <1>0, <1>1, <1>6 DEF Ends, Alive
  <2>2. CASE closed
    <3>1. tkq' = tkq /\ tkq = <<>>
      BY <1>2, <2>2 DEF TurnInv, ExtractInv
    <3>2. TurnInv'
      BY <1>0, <2>1, <2>2, <3>1 DEF TurnInv, Enders, ExtractInv
    <3>3. FillInv' /\ FetchInv'
      BY <1>0, <1>1, <2>1, <2>2, <3>1 DEF FillInv, FetchInv, OneBackend, ExtractInv
    <3> QED
      BY <1>3, <1>4, <3>2, <3>3 DEF ExtractInv
  <2>3. CASE ~closed
    <3>1. PICK cbs \in Seq(Callbacks) :
            /\ Post(cbs) /\ Len(cbs) \in 1 .. 2
            /\ cbs[Len(cbs)].do \in {"idle", "filled"}
            /\ Len(cbs) = 2 => cbs[1].do \in {"failed", "extracted"}
            /\ \A i \in 1 .. Len(cbs) :
                 /\ cbs[i].do = "extracted" => cbs[i].meta = works[w].meta
                 /\ cbs[i].do = "filled" => works[w].kind = "fill" /\ cbs[i].target = works[w].target
      BY <1>6, <2>3 DEF Ends
    <3>2. /\ Len(tkq') = Len(tkq) + Len(cbs)
          /\ \A i \in 1 .. Len(tkq') : tkq'[i] = IF i <= Len(tkq) THEN tkq[i] ELSE cbs[i - Len(tkq)]
      BY <1>0, <2>3, <3>1, Posted
    <3>3. \A i \in 1 .. Len(tkq') : \/ i \in 1 .. Len(tkq) /\ tkq'[i] = tkq[i]
                                    \/ /\ i - Len(tkq) \in 1 .. Len(cbs) /\ tkq'[i] = cbs[i - Len(tkq)]
                                       /\ i = Len(tkq') \/ (Len(cbs) = 2 /\ i - Len(tkq) = 1)
      BY <1>0, <3>1, <3>2
    <3>4. TurnInv'
      <4>1. overlapped \/ (busy /\ Enders = {} /\ \A v \in Works : ~Alive(v)')
        BY <1>0, <2>1, <2>3 DEF TurnInv, ExtractInv
      <4>2. Enders = {} => Enders' \subseteq {Len(tkq')}
        <5> SUFFICES ASSUME Enders = {}, NEW i \in Enders' PROVE i = Len(tkq')
          OBVIOUS
        <5>1. i \in 1 .. Len(tkq') /\ tkq'[i].do \in {"idle", "filled"}
          BY DEF Enders
        <5>2. ~(i \in 1 .. Len(tkq) /\ tkq'[i] = tkq[i])
          BY <5>1 DEF Enders
        <5>3. ~(Len(cbs) = 2 /\ i - Len(tkq) = 1 /\ tkq'[i] = cbs[i - Len(tkq)])
          BY <5>1, <3>1
        <5> QED
          BY <3>3, <5>1, <5>2, <5>3
      <4> QED
        BY <1>0, <2>3, <4>1, <4>2 DEF TurnInv
    <3>5. FillInv'
      BY <1>0, <2>1, <2>3, <3>1, <3>3 DEF FillInv, ExtractInv
    <3>6. FetchInv'
      <4>1. crossed \/ \A v \in Works : OneBackend(works'[v].meta)
        BY <1>0, <1>1 DEF FetchInv, OneBackend, ExtractInv
      <4>2. ASSUME ~crossed, NEW i \in 1 .. Len(tkq')
            PROVE  /\ tkq'[i].do = "loaded" => tkq'[i].of = picked
                   /\ tkq'[i].do = "extracted" => OneBackend(tkq'[i].meta)
        <5>1. CASE i \in 1 .. Len(tkq) /\ tkq'[i] = tkq[i]
          BY <4>2, <5>1 DEF FetchInv, ExtractInv
        <5>2. CASE i - Len(tkq) \in 1 .. Len(cbs) /\ tkq'[i] = cbs[i - Len(tkq)]
          <6>1. OneBackend(works[w].meta)
            BY <4>2 DEF FetchInv, ExtractInv
          <6>2. tkq'[i].do # "loaded"
            BY <3>1, <3>2, <3>3, <5>2
          <6> QED
            BY <3>1, <5>2, <6>1, <6>2
        <5> QED
          BY <3>3, <5>1, <5>2
      <4> QED
        BY <1>0, <4>1, <4>2 DEF FetchInv, OneBackend, ExtractInv
    <3> QED
      BY <1>3, <1>4, <3>4, <3>5, <3>6 DEF ExtractInv
  <2> QED
    BY <2>2, <2>3
<1> QED
  BY <1>5, <1>6 DEF StepOf

-----------------------------------------------------------------------------
(* The invariant is kept by the fetches, the user and the callbacks.          *)
LEMMA FetchStarted ==
  ASSUME Shape, NEW b \in Backends, StartFetch(b)
  PROVE  /\ fetches' \in [Fetches -> FetchRecord]
         /\ \A f \in Fetches : fetches'[f] = fetches[f] \/ fetches'[f].of = b
<1>1. CASE UNCHANGED fetches
  BY <1>1 DEF Shape
<1>2. CASE fetches' = [fetches EXCEPT ![Free(fetches)] = [pc |-> "asking", of |-> b]]
  <2> DEFINE new == [pc |-> "asking", of |-> b]
  <2>1. new \in FetchRecord /\ new.of = b
    BY DEF FetchRecord
  <2>2. fetches' = [fetches EXCEPT ![Free(fetches)] = new]
    BY <1>2
  <2> HIDE DEF new
  <2> QED
    BY <2>1, <2>2 DEF Shape
<1> QED
  BY <1>1, <1>2 DEF StartFetch

(* A thread that fetches containers keeps the invariant. *)
LEMMA FetchStep ==
  ASSUME ExtractInv, NEW f \in Fetches, Fetch(f)
  PROVE  ExtractInv'
<1>0. /\ UNCHANGED <<picked, team, crossed, keys, works, tasks, selected, meta, moved, astray, busy, closed,
                     edits, overlapped>>
      /\ fetches[f].pc = "asking"
      /\ fetches' = [fetches EXCEPT ![f] = [NoFetch EXCEPT !.pc = "done"]]
      /\ cached' \in {cached, [cached EXCEPT ![picked] = fetches[f].of]}
      /\ Shape /\ Len(tkq) \in Nat
  BY DEF Fetch, FetchAnswers, FetchFails, editor, ExtractInv, Shape
<1>1. fetches' \in [Fetches -> FetchRecord] /\ fetches'[f].pc = "done"
      /\ \A g \in Fetches \ {f} : fetches'[g] = fetches[g]
  BY <1>0 DEF NoFetch, FetchRecord, Shape
<1>2. fetches[f].of \in Backends \cup {None}
  BY <1>0 DEF Shape, FetchRecord
<1>3. \/ UNCHANGED tkq
      \/ \E cb \in Callbacks : /\ Post(<<cb>>) /\ cb.do \in {"loaded", "unloaded"}
                               /\ cb.do = "loaded" => cb.of = fetches[f].of
  <2>1. [do |-> "loaded", of |-> fetches[f].of] \in Callbacks /\ [do |-> "unloaded"] \in Callbacks
    BY <1>2 DEF Callbacks
  <2>2. CASE FetchAnswers(f)
    <3>1. CASE Post(<<[do |-> "loaded", of |-> fetches[f].of]>>)
      BY <2>1, <3>1
    <3> QED
      BY <2>2, <3>1 DEF FetchAnswers
  <2>3. CASE FetchFails(f)
    BY <2>1, <2>3 DEF FetchFails
  <2> QED
    BY <2>2, <2>3 DEF Fetch
<1>4. /\ tkq' \in Seq(Callbacks) /\ (closed => tkq' = tkq)
      /\ \A i \in 1 .. Len(tkq') :
            \/ i \in 1 .. Len(tkq) /\ tkq'[i] = tkq[i]
            \/ tkq'[i].do \in {"loaded", "unloaded"} /\ (tkq'[i].do = "loaded" => tkq'[i].of = fetches[f].of)
  <2>1. CASE UNCHANGED tkq
    BY <1>0, <2>1 DEF Shape
  <2>2. CASE \E cb \in Callbacks : /\ Post(<<cb>>) /\ cb.do \in {"loaded", "unloaded"}
                                   /\ cb.do = "loaded" => cb.of = fetches[f].of
    <3>1. PICK cb \in Callbacks : /\ Post(<<cb>>) /\ cb.do \in {"loaded", "unloaded"}
                                  /\ cb.do = "loaded" => cb.of = fetches[f].of
      BY <2>2
    <3> DEFINE cbs == <<cb>>
    <3>2. cbs \in Seq(Callbacks) /\ Len(cbs) = 1 /\ cbs[1] = cb /\ Post(cbs)
      BY <3>1
    <3> HIDE DEF cbs
    <3>3. tkq \in Seq(Callbacks)
      BY <1>0 DEF Shape
    <3>4. /\ tkq' \in Seq(Callbacks) /\ (closed => tkq' = tkq)
          /\ ~closed => /\ Len(tkq') = Len(tkq) + 1
                        /\ \A i \in 1 .. Len(tkq') :
                             tkq'[i] = IF i <= Len(tkq) THEN tkq[i] ELSE cbs[i - Len(tkq)]
      BY <3>2, <3>3, Posted
    <3>5. CASE closed
      BY <3>4, <3>5
    <3>6. CASE ~closed
      <4>1. \A i \in 1 .. Len(tkq') : i \in 1 .. Len(tkq) \/ i - Len(tkq) = 1
        BY <1>0, <3>4, <3>6
      <4> QED
        BY <1>0, <3>1, <3>2, <3>4, <3>6, <4>1
    <3> QED
      BY <3>5, <3>6
  <2> QED
    BY <1>3, <2>1, <2>2
<1>5. Shape'
  BY <1>0, <1>1, <1>2, <1>4 DEF Shape
<1>6. WorkInv'
  BY <1>0 DEF WorkInv, ExtractInv
<1>7. TurnInv'
  <2>1. Enders' \subseteq Enders /\ \A w \in Works : Alive(w)' <=> Alive(w)
    BY <1>0, <1>4 DEF Enders, Alive
  <2> QED
    BY <1>0, <1>4, <2>1 DEF TurnInv, ExtractInv
<1>8. FillInv'
  BY <1>0, <1>4 DEF FillInv, Alive, ExtractInv
<1>9. FetchInv'
  <2>1. crossed \/ fetches[f].of = picked
    BY <1>0 DEF FetchInv, ExtractInv
  <2>2. crossed \/ \A b \in Backends : cached'[b] \in {None, b}
    BY <1>0, <2>1 DEF FetchInv, Shape, ExtractInv
  <2> QED
    BY <1>0, <1>1, <1>4, <2>1, <2>2 DEF FetchInv, OneBackend, ExtractInv
<1> QED
  BY <1>5, <1>6, <1>7, <1>8, <1>9 DEF ExtractInv

(* The record of a thread not started yet is well typed. *)
LEMMA NoWorkTyped ==
  /\ NoWork \in WorkRecord /\ NoWork.pc = "unused" /\ NoWork.kind = "none" /\ NoWork.meta = None
  /\ ~NoWork.committed /\ NoWork.lost = "no" /\ NoWork.late = 0
BY DEF NoWork, WorkRecord

(* What the user does in the dialog keeps the invariant. *)
LEMMA UserStep ==
  ASSUME ExtractInv, User
  PROVE  ExtractInv'
<1> USE DEF ExtractInv
<1>0. Shape /\ Len(tkq) \in Nat /\ EnsuredMeta \in Metas \cup {None}
      /\ (MetaReady /\ ~crossed => OneBackend(EnsuredMeta))
      /\ Blank \in Names
  BY DEF Shape, EnsuredMeta, MetaReady, Metas, FetchInv, OneBackend, Blank, Names
<1>00. /\ DOMAIN tkq = 1 .. Len(tkq)
       /\ ~FillUnderway => /\ \A w \in Works : ~(Alive(w) /\ works[w].kind = "fill")
                           /\ \A i \in 1 .. Len(tkq) : tkq[i].do # "filled"
       /\ \A b : ~Underway(b) => /\ \A f \in Fetches : fetches[f].pc = "asking" => fetches[f].of = b
                                 /\ \A i \in 1 .. Len(tkq) : tkq[i].do = "loaded" => tkq[i].of = b
  <2>1. DOMAIN tkq = 1 .. Len(tkq)
    BY <1>0 DEF Shape
  <2> QED
    BY <2>1 DEF FillUnderway, Underway
<1>1. ASSUME NEW b \in Backends, ChangeBackend(b) PROVE ExtractInv'
  <2>0. /\ ~closed /\ picked' = b /\ crossed' = (crossed \/ Underway(b))
        /\ team' \in {cached[b], None}
        /\ UNCHANGED <<keys, cached, works, tkq, tasks, selected, meta, moved, astray, busy, closed, edits, overlapped>>
        /\ UNCHANGED fetches \/ StartFetch(b)
    BY <1>1 DEF ChangeBackend, editor
  <2>1. fetches' \in [Fetches -> FetchRecord]
        /\ \A f \in Fetches : fetches'[f] = fetches[f] \/ fetches'[f].of = b
    BY <1>0, <2>0, FetchStarted DEF Shape
  <2>2. Shape'
    BY <2>0, <2>1 DEF Shape
  <2>3. WorkInv' /\ TurnInv' /\ FillInv'
    BY <2>0 DEF WorkInv, TurnInv, FillInv, Enders, Alive
  <2>4. FetchInv'
    <3>1. crossed' \/ /\ \A f \in Fetches : fetches[f].pc = "asking" => fetches[f].of = b
                      /\ \A i \in 1 .. Len(tkq) : tkq[i].do = "loaded" => tkq[i].of = b
      BY <1>00, <2>0
    <3> QED
      BY <1>1, <2>0, <2>1, <3>1 DEF FetchInv, OneBackend
  <2> QED
    BY <2>2, <2>3, <2>4
<1>2. CASE Refresh
  <2>0. /\ team' = None /\ StartFetch(picked)
        /\ UNCHANGED <<picked, crossed, keys, cached, works, tkq, tasks, selected, meta, moved, astray, busy,
                       closed, edits, overlapped>>
    BY <1>2 DEF Refresh, editor
  <2>1. fetches' \in [Fetches -> FetchRecord]
        /\ \A f \in Fetches : fetches'[f] = fetches[f] \/ fetches'[f].of = picked
    BY <1>0, <2>0, FetchStarted DEF Shape
  <2>2. Shape'
    BY <2>0, <2>1 DEF Shape
  <2>3. WorkInv' /\ TurnInv' /\ FillInv'
    BY <2>0 DEF WorkInv, TurnInv, FillInv, Enders, Alive
  <2>4. FetchInv'
    BY <2>0, <2>1 DEF FetchInv, OneBackend
  <2> QED
    BY <2>2, <2>3, <2>4
<1>3. CASE AddTask
  <2>0. /\ MetaReady /\ edits' = edits + 1 /\ meta' = EnsuredMeta /\ selected' = Blank
        /\ tasks' = Append(tasks, Blank) /\ moved' = (moved \/ FillUnderway)
        /\ UNCHANGED <<picked, team, cached, fetches, crossed, keys, works, tkq, astray, busy, closed, overlapped>>
    BY <1>3 DEF AddTask, Stirred, picker
  <2>1. Shape'
    BY <1>0, <2>0, AppendProperties DEF Shape
  <2>2. WorkInv' /\ TurnInv'
    BY <2>0 DEF WorkInv, TurnInv, Enders, Alive
  <2>3. FillInv'
    BY <1>00, <2>0 DEF FillInv, Alive
  <2>4. FetchInv'
    BY <1>0, <2>0 DEF FetchInv, OneBackend
  <2> QED
    BY <2>1, <2>2, <2>3, <2>4
<1>4. CASE SelectTask
  <2>0. /\ edits' = edits + 1 /\ selected' \in ToSet(tasks) /\ moved' = (moved \/ FillUnderway)
        /\ UNCHANGED <<picked, team, cached, fetches, crossed, keys, works, tkq, tasks, meta, astray, busy, closed,
                       overlapped>>
    BY <1>4 DEF SelectTask, Stirred, picker
  <2>1. ToSet(tasks) \subseteq Names
    BY <1>0 DEF Shape, ToSet
  <2>2. Shape'
    BY <1>0, <2>0, <2>1 DEF Shape
  <2>3. WorkInv' /\ TurnInv' /\ FetchInv'
    BY <2>0 DEF WorkInv, TurnInv, Enders, Alive, FetchInv, OneBackend
  <2>4. FillInv'
    BY <1>00, <2>0 DEF FillInv, Alive
  <2> QED
    BY <2>2, <2>3, <2>4
<1>5. CASE Close
  <2>0. /\ ~closed /\ closed' = TRUE /\ tkq' = <<>> /\ busy' = FALSE /\ team' = None
        /\ tasks' = <<>> /\ selected' = None /\ meta' = None
        /\ UNCHANGED <<picked, cached, fetches, crossed, keys, works, moved, astray, edits, overlapped>>
    BY <1>5 DEF Close
  <2>1. <<>> \in Seq(Callbacks) /\ <<>> \in Seq(Names) /\ Len(<<>>) = 0 /\ 1 .. 0 = {}
    OBVIOUS
  <2>2. Shape'
    BY <2>0, <2>1 DEF Shape
  <2>3. WorkInv'
    BY <2>0 DEF WorkInv, WorkOK
  <2>4. TurnInv' /\ FillInv' /\ FetchInv'
    BY <2>0, <2>1 DEF TurnInv, Enders, Alive, FillInv, FetchInv, OneBackend
  <2> QED
    BY <2>2, <2>3, <2>4
<1>6. ASSUME NEW w \in Works, Extract(w) PROVE ExtractInv'
  <2> DEFINE new == [NoWork EXCEPT !.kind = "extract", !.pc = "clients",
                                   !.meta = [backend |-> picked, of |-> team]]
  <2>0. /\ ~closed /\ ~busy /\ busy' = TRUE /\ team # None /\ works[w].pc = "unused"
        /\ tasks' = <<>> /\ selected' = None /\ moved' = (moved \/ FillUnderway)
        /\ works' = [works EXCEPT ![w] = new]
        /\ UNCHANGED <<picked, team, cached, fetches, crossed, keys, tkq, meta, astray, closed, edits, overlapped>>
    BY <1>6 DEF Extract, Stirred, picker
  <2>1. /\ new \in WorkRecord /\ new.pc = "clients" /\ new.kind = "extract" /\ WorkOK(new, closed)
        /\ new.meta = [backend |-> picked, of |-> team]
    <3> DEFINE m == [backend |-> picked, of |-> team]
    <3>1. m \in Metas
      BY <1>0 DEF Metas, Shape
    <3> HIDE DEF m
    <3> DEFINE n == [NoWork EXCEPT !.kind = "extract", !.pc = "clients", !.meta = m]
    <3>2. /\ n \in WorkRecord /\ n.pc = "clients" /\ n.kind = "extract" /\ n.meta = m
          /\ ~n.committed /\ n.lost = "no" /\ n.late = 0
      BY <3>1, NoWorkTyped DEF WorkRecord
    <3> HIDE DEF n
    <3>3. WorkOK(n, closed)
      BY <3>2 DEF WorkOK
    <3> QED
      BY <3>2, <3>3 DEF n, m
  <2> HIDE DEF new
  <2>2. \A v \in Works : works'[v] = IF v = w THEN new ELSE works[v]
    BY <1>0, <2>0 DEF Shape
  <2>3. Shape'
    BY <1>0, <2>0, <2>1, EmptySeq DEF Shape
  <2>4. WorkInv'
    BY <2>0, <2>1, <2>2 DEF WorkInv
  <2>5. TurnInv'
    <3>1. overlapped \/ (Enders = {} /\ \A v \in Works : ~Alive(v))
      BY <2>0 DEF TurnInv
    <3>2. \A v \in Works \ {w} : Alive(v)' => Alive(v)
      BY <2>2 DEF Alive
    <3>3. Enders' = Enders
      BY <2>0 DEF Enders
    <3> QED
      BY <2>0, <3>1, <3>2, <3>3 DEF TurnInv
  <2>6. FillInv'
    <3>1. \A v \in Works : Alive(v)' /\ works'[v].kind = "fill" => Alive(v) /\ works'[v] = works[v]
      BY <2>1, <2>2 DEF Alive
    <3>2. moved' \/ ~FillUnderway
      BY <2>0
    <3> QED
      BY <1>00, <2>0, <3>1, <3>2 DEF FillInv
  <2>7. FetchInv'
    <3>1. crossed \/ OneBackend(new.meta)
      BY <2>0, <2>1 DEF FetchInv, OneBackend
    <3> QED
      BY <2>0, <2>2, <3>1 DEF FetchInv, OneBackend
  <2> QED
    BY <2>3, <2>4, <2>5, <2>6, <2>7
<1>7. ASSUME NEW w \in Works, Fill(w) PROVE ExtractInv'
  <2> DEFINE new == [NoWork EXCEPT !.kind = "fill", !.pc = "ask", !.target = selected']
  <2>0. /\ ~closed /\ MetaReady /\ works[w].pc = "unused" /\ meta' = EnsuredMeta
        /\ edits' \in 0 .. MaxEdits /\ overlapped' = (overlapped \/ busy) /\ busy' = TRUE
        /\ works' = [works EXCEPT ![w] = new]
        /\ UNCHANGED <<picked, team, cached, fetches, crossed, keys, tkq, astray, closed>>
    BY <1>7 DEF Fill, picker
  <2>1. \/ /\ tasks' = Append(tasks, Blank) /\ selected' = Blank
           /\ moved' = (moved \/ FillUnderway)
        \/ UNCHANGED <<tasks, selected, moved>>
    BY <1>7 DEF Fill, Stirred
  <2>2. selected' \in Names \cup {None} /\ tasks' \in Seq(Names) /\ edits' \in Nat
    <3>1. edits' \in Nat
      BY <2>0, ExtractAssumption
    <3>2. CASE tasks' = Append(tasks, Blank) /\ selected' = Blank
      BY <1>0, <3>1, <3>2, AppendProperties DEF Shape
    <3>3. CASE UNCHANGED <<tasks, selected>>
      BY <1>0, <3>1, <3>3 DEF Shape
    <3> QED
      BY <2>1, <3>2, <3>3
  <2>3. /\ new \in WorkRecord /\ new.pc = "ask" /\ new.kind = "fill" /\ WorkOK(new, closed)
        /\ new.meta = None /\ new.target = selected'
    <3> DEFINE t == selected'
    <3>1. t \in Names \cup {None}
      BY <2>2
    <3> HIDE DEF t
    <3> DEFINE n == [NoWork EXCEPT !.kind = "fill", !.pc = "ask", !.target = t]
    <3>2. /\ n \in WorkRecord /\ n.pc = "ask" /\ n.kind = "fill" /\ n.meta = None /\ n.target = t
          /\ ~n.committed /\ n.lost = "no" /\ n.late = 0
      BY <3>1, NoWorkTyped DEF WorkRecord
    <3> HIDE DEF n
    <3>3. WorkOK(n, closed)
      BY <3>2 DEF WorkOK
    <3> QED
      BY <3>2, <3>3 DEF n, t
  <2> HIDE DEF new
  <2>4. \A v \in Works : works'[v] = IF v = w THEN new ELSE works[v]
    BY <1>0, <2>0 DEF Shape
  <2>5. Shape'
    BY <1>0, <2>0, <2>2, <2>3 DEF Shape
  <2>6. WorkInv'
    BY <2>0, <2>3, <2>4 DEF WorkInv
  <2>7. TurnInv'
    <3>1. overlapped' \/ (Enders = {} /\ \A v \in Works : ~Alive(v))
      BY <2>0 DEF TurnInv
    <3>2. \A v \in Works \ {w} : Alive(v)' => Alive(v)
      BY <2>4 DEF Alive
    <3>3. Enders' = Enders
      BY <2>0 DEF Enders
    <3> QED
      BY <2>0, <3>1, <3>2, <3>3 DEF TurnInv
  <2>8. FillInv'
    <3>1. \A v \in Works : Alive(v)' => v = w \/ (Alive(v) /\ works'[v] = works[v])
      BY <2>4 DEF Alive
    <3>2. works'[w].target = selected'
      BY <2>3, <2>4
    <3>3. CASE UNCHANGED <<selected, moved>>
      BY <2>0, <3>1, <3>2, <3>3 DEF FillInv
    <3>4. CASE moved' = (moved \/ FillUnderway)
      BY <1>00, <2>0, <3>1, <3>2, <3>4 DEF FillInv
    <3> QED
      BY <2>1, <3>3, <3>4
  <2>9. FetchInv'
    BY <1>0, <2>0, <2>3, <2>4 DEF FetchInv, OneBackend
  <2> QED
    BY <2>5, <2>6, <2>7, <2>8, <2>9
<1> QED
  BY <1>1, <1>2, <1>3, <1>4, <1>5, <1>6, <1>7 DEF User

(* A callback of Tk's queue keeps the invariant. *)
LEMMA CallbackStep ==
  ASSUME ExtractInv, Callback
  PROVE  ExtractInv'
<1> USE DEF ExtractInv
<1> DEFINE cb == Head(tkq)
<1>0. /\ tkq # <<>> /\ ~closed /\ tkq' = Tail(tkq) /\ Shape
      /\ UNCHANGED <<picked, cached, fetches, crossed, keys, works, closed, edits, overlapped>>
      /\ \/ cb.do = "loaded" /\ Loaded(cb)
         \/ cb.do = "unloaded" /\ Unloaded
         \/ cb.do = "extracted" /\ Extracted(cb)
         \/ cb.do = "failed" /\ UNCHANGED <<team, editor, busy>>
         \/ cb.do = "filled" /\ Filled(cb)
         \/ cb.do = "idle" /\ Idle
  BY DEF Callback
<1>1. /\ cb \in Callbacks /\ cb = tkq[1]
      /\ Len(tkq) \in Nat /\ Len(tkq) >= 1
      /\ tkq' \in Seq(Callbacks) /\ Len(tkq') = Len(tkq) - 1
      /\ \A i \in 1 .. Len(tkq') : i + 1 \in 1 .. Len(tkq) /\ tkq'[i] = tkq[i + 1]
  BY <1>0, Popped DEF Shape
<1> HIDE DEF cb
<1>2. /\ \A i \in Enders' : i + 1 \in Enders
      /\ cb.do \in {"idle", "filled"} => 1 \in Enders
      /\ \A w \in Works : Alive(w)' <=> Alive(w)
      /\ Enders' \subseteq Int /\ Enders \subseteq Int /\ 0 \notin Enders'
  BY <1>0, <1>1 DEF Enders, Alive
<1>20. /\ Enders = {} => Enders' = {}
       /\ (\A i, j \in Enders : i = j) => \A i, j \in Enders' : i = j
       /\ (\A i, j \in Enders : i = j) /\ 1 \in Enders => Enders' = {}
       /\ (\E w \in Works : Alive(w)') <=> (\E w \in Works : Alive(w))
       /\ (\A v, w \in Works : Alive(v) /\ Alive(w) => v = w)
             => (\A v, w \in Works : Alive(v)' /\ Alive(w)' => v = w)
  <2>1. \A i \in Enders' : i + 1 \in Enders /\ i \in Int /\ i # 0
    BY <1>2
  <2>2. ASSUME \A i, j \in Enders : i = j, NEW i \in Enders', NEW j \in Enders'
        PROVE  i = j
    <3>1. i + 1 \in Enders /\ j + 1 \in Enders /\ i \in Int /\ j \in Int
      BY <2>1
    <3>2. i + 1 = j + 1
      BY <2>2, <3>1
    <3> QED
      BY <3>1, <3>2
  <2>3. ASSUME \A i, j \in Enders : i = j, 1 \in Enders, NEW i \in Enders'
        PROVE  FALSE
    <3>1. i + 1 = 1 /\ i \in Int /\ i # 0
      BY <2>1, <2>3
    <3> QED
      BY <3>1
  <2>4. Enders = {} => Enders' = {}
    BY <2>1
  <2>5. /\ (\E w \in Works : Alive(w)') <=> (\E w \in Works : Alive(w))
        /\ (\A v, w \in Works : Alive(v) /\ Alive(w) => v = w)
              => (\A v, w \in Works : Alive(v)' /\ Alive(w)' => v = w)
    BY <1>2
  <2> QED
    BY <2>2, <2>3, <2>4, <2>5
<1>3. WorkInv'
  BY <1>0 DEF WorkInv
<1>4. CASE cb.do \in {"loaded", "unloaded", "failed"}
  <2>1. /\ UNCHANGED <<tasks, selected, meta, moved, astray, busy>>
        /\ team' = team \/ team' = None \/ (cb.do = "loaded" /\ team' = cb.of)
    BY <1>0, <1>4 DEF Loaded, Unloaded, editor
  <2>2. cb.do = "loaded" => cb.of \in Backends \cup {None}
    BY <1>1 DEF Callbacks
  <2>3. Shape'
    BY <1>0, <1>1, <2>1, <2>2 DEF Shape
  <2>4. TurnInv'
    BY <1>0, <1>20, <2>1 DEF TurnInv
  <2>5. FillInv'
    BY <1>0, <1>1, <1>2, <2>1 DEF FillInv
  <2>6. FetchInv'
    <3>1. crossed \/ (cb.do = "loaded" => cb.of = picked)
      BY <1>1 DEF FetchInv
    <3> QED
      BY <1>0, <1>1, <2>1, <3>1 DEF FetchInv, OneBackend
  <2> QED
    BY <1>3, <2>3, <2>4, <2>5, <2>6
<1>5. CASE cb.do = "extracted"
  <2>1. /\ tasks' = [k \in 1 .. Found |-> [by |-> cb.by, n |-> k]]
        /\ selected' = tasks'[1] /\ meta' = cb.meta /\ moved' = (moved \/ FillUnderway)
        /\ UNCHANGED <<team, busy, astray>>
    BY <1>0, <1>5 DEF Extracted, Stirred
  <2>2. cb.by \in Works /\ cb.meta \in Metas \cup {None}
    BY <1>1, <1>5 DEF Callbacks
  <2>3. tasks' \in Seq(Names) /\ selected' \in Names
    <3>1. Found \in Nat /\ 1 \in 1 .. Found
      BY ExtractAssumption
    <3>2. \A k \in 1 .. Found : [by |-> cb.by, n |-> k] \in Names
      BY <2>2 DEF Names
    <3>3. tasks' \in [1 .. Found -> Names]
      BY <2>1, <3>2
    <3> QED
      BY <2>1, <3>1, <3>3, SeqDef
  <2>4. Shape'
    BY <1>0, <1>1, <2>1, <2>2, <2>3 DEF Shape
  <2>5. TurnInv'
    BY <1>0, <1>20, <2>1 DEF TurnInv
  <2>6. FillInv'
    <3>1. ~FillUnderway => /\ \A w \in Works : ~(Alive(w) /\ works[w].kind = "fill")
                           /\ \A i \in 1 .. Len(tkq) : tkq[i].do # "filled"
      <4>1. DOMAIN tkq = 1 .. Len(tkq)
        BY <1>0 DEF Shape
      <4> QED
        BY <4>1 DEF FillUnderway
    <3> QED
      BY <1>0, <1>1, <1>2, <2>1, <3>1 DEF FillInv
  <2>7. FetchInv'
    <3>1. crossed \/ OneBackend(cb.meta)
      BY <1>1, <1>5 DEF FetchInv
    <3> QED
      BY <1>0, <1>1, <2>1, <3>1 DEF FetchInv, OneBackend
  <2> QED
    BY <1>3, <2>4, <2>5, <2>6, <2>7
<1>6. CASE cb.do \in {"filled", "idle"}
  <2>1. /\ busy' = FALSE /\ UNCHANGED <<team, tasks, selected, meta, moved>>
        /\ \/ astray' = astray
           \/ /\ cb.do = "filled"
              /\ astray' = (astray \/ (cb.ok /\ selected \notin {None, cb.target}))
    BY <1>0, <1>6 DEF Filled, Idle, editor
  <2>2. Shape'
    BY <1>0, <1>1, <2>1 DEF Shape
  <2>3. TurnInv'
    <3>1. overlapped \/ (Enders' = {} /\ \A w \in Works : ~Alive(w)')
      BY <1>0, <1>2, <1>6, <1>20 DEF TurnInv
    <3> QED
      BY <1>0, <3>1 DEF TurnInv
  <2>4. FillInv'
    <3>1. moved \/ (cb.do = "filled" => cb.target = selected)
      BY <1>0, <1>1 DEF FillInv
    <3> QED
      <4>1. astray' => moved
        BY <2>1, <3>1 DEF FillInv
      <4>2. \A i \in 1 .. Len(tkq') : i + 1 \in 1 .. Len(tkq) /\ tkq'[i] = tkq[i + 1]
        BY <1>1
      <4>3. moved \/ \A i \in 1 .. Len(tkq') : tkq'[i].do = "filled" => tkq'[i].target = selected
        BY <1>0, <4>2 DEF FillInv
      <4> QED
        BY <1>0, <1>2, <2>1, <4>1, <4>3 DEF FillInv
  <2>5. FetchInv'
    BY <1>0, <1>1, <2>1 DEF FetchInv, OneBackend
  <2> QED
    BY <1>3, <2>2, <2>3, <2>4, <2>5
<1> QED
  BY <1>0, <1>4, <1>5, <1>6

(* The inductive invariant behind the three theorems below. *)
LEMMA ExtractInvariant == Spec => []ExtractInv
<1>1. Init => ExtractInv
  <2> SUFFICES ASSUME Init PROVE ExtractInv
    OBVIOUS
  <2> DEFINE none == [f \in Fetches |-> NoFetch]
  <2>0. /\ picked \in Backends /\ keys \subseteq Backends /\ team = None
        /\ cached = [b \in Backends |-> None] /\ works = [w \in Works |-> NoWork]
        /\ tkq = <<>> /\ tasks = <<>> /\ selected = None /\ meta = None
        /\ ~busy /\ ~closed /\ edits = 0 /\ ~astray /\ busy \in BOOLEAN /\ closed \in BOOLEAN
        /\ fetches = (IF picked \in keys
                      THEN [none EXCEPT ![Free(none)] = [pc |-> "asking", of |-> picked]] ELSE none)
    BY DEF Init
  <2>1. fetches \in [Fetches -> FetchRecord] /\ \A f \in Fetches : fetches[f].pc = "asking" => fetches[f].of = picked
    <3> DEFINE one == [pc |-> "asking", of |-> picked]
    <3>1. NoFetch \in FetchRecord /\ NoFetch.pc = "unused" /\ one \in FetchRecord /\ one.of = picked
      BY <2>0 DEF NoFetch, FetchRecord
    <3>2. none \in [Fetches -> FetchRecord] /\ \A f \in Fetches : none[f].pc = "unused"
      BY <3>1
    <3>3. fetches = none \/ fetches = [none EXCEPT ![Free(none)] = one]
      BY <2>0
    <3> HIDE DEF none, one
    <3> QED
      BY <3>1, <3>2, <3>3
  <2>2. Shape
    BY <2>0, <2>1, NoWorkTyped, EmptySeq DEF Shape
  <2>3. WorkInv
    BY <2>0, NoWorkTyped DEF WorkInv, WorkOK
  <2>4. Len(tkq) = 0 /\ 1 .. Len(tkq) = {} /\ \A w \in Works : ~Alive(w) /\ works[w].meta = None
    BY <2>0, NoWorkTyped DEF Alive
  <2>5. TurnInv /\ FillInv
    BY <2>0, <2>4 DEF TurnInv, FillInv, Enders
  <2>6. FetchInv
    BY <2>0, <2>1, <2>4 DEF FetchInv, OneBackend
  <2> QED
    BY <2>2, <2>3, <2>5, <2>6 DEF ExtractInv
<1>2. ExtractInv /\ [Next]_vars => ExtractInv'
  <2> SUFFICES ASSUME ExtractInv, [Next]_vars PROVE ExtractInv'
    OBVIOUS
  <2>1. ASSUME NEW w \in Works, Work(w) PROVE ExtractInv'
    <3>1. PICK r : StepOf(w, r)
      BY <2>1, WorkStep DEF ExtractInv
    <3> QED
      BY <3>1, ThreadStep
  <2>2. CASE UNCHANGED vars
    <3>1. UNCHANGED <<picked, team, cached, fetches, crossed, keys, works, tkq, tasks, selected, meta, moved,
                      astray, busy, closed, edits, overlapped>>
      BY <2>2 DEF vars, picker, editor
    <3> QED
      BY <3>1 DEF ExtractInv, Shape, WorkInv, TurnInv, FillInv, FetchInv, Enders, Alive, OneBackend
  <2> QED
    BY <2>1, <2>2, UserStep, CallbackStep, FetchStep DEF Next
<1> QED
  BY <1>1, <1>2, PTL DEF Spec

-----------------------------------------------------------------------------
(* The theorems.                                                              *)

(* Containers are offered, cached and sent to under the tracker they belong   *)
(* to unless the dropdown changed before an answer, and a filled text lands   *)
(* in the task it was asked for unless the list moved under it.               *)
THEOREM LateAnswersLand == Spec => []AnswersLand
<1>1. ExtractInv => AnswersLand
  BY DEF ExtractInv, FetchInv, FillInv, OneBackend, AnswersLand, ContainersOfBackend, FillHitsItsTask
<1> QED
  BY <1>1, ExtractInvariant, PTL

(* An extraction that has written tasks_raw.json is shown, unless the window  *)
(* was closed, the configuration could not be saved or the reply broke the    *)
(* search for duplicates.                                                     *)
THEOREM CommittedTasksShown == Spec => []CommittedIsShown
<1>1. ExtractInv => CommittedIsShown
  BY DEF ExtractInv, WorkInv, WorkOK, CommittedIsShown
<1> QED
  BY <1>1, ExtractInvariant, PTL

(* After the close a thread begins at most two calls of the language model,   *)
(* and one extraction runs at a time unless a filling overlapped.             *)
THEOREM CallsNotWasted == Spec => []NoWastedCalls
<1>1. ExtractInv => NoWastedCalls
  <2> SUFFICES ASSUME ExtractInv PROVE NoWastedCalls
    OBVIOUS
  <2>1. FewLateCalls
    BY DEF ExtractInv, WorkInv, WorkOK, FewLateCalls
  <2>2. OneExtraction
    <3> DEFINE running == {w \in Works : Alive(w) /\ works[w].kind = "extract"}
    <3>1. overlapped \/ \A v, w \in running : v = w
      BY DEF ExtractInv, TurnInv
    <3>2. CASE running = {}
      BY <3>2, FS_EmptySet DEF OneExtraction
    <3>3. CASE running # {} /\ ~overlapped
      <4>1. PICK w \in running : TRUE
        BY <3>3
      <4>2. running = {w}
        BY <3>1, <3>3, <4>1
      <4>3. Cardinality({w}) = 1
        BY FS_Singleton
      <4> QED
        BY <4>2, <4>3 DEF OneExtraction
    <3> QED
      BY <3>2, <3>3 DEF OneExtraction
  <2> QED
    BY <2>1, <2>2 DEF NoWastedCalls
<1> QED
  BY <1>1, ExtractInvariant, PTL

=============================================================================
