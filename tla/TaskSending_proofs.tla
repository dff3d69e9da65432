------------------------- MODULE TaskSending_proofs -------------------------
(***************************************************************************)
(* What sending guarantees for any tasks, any number of send threads,       *)
(* edits, uses of Ctrl+Z, openings of the dialog, failed saves and lost     *)
(* answers.                                                                 *)
(***************************************************************************)
EXTENDS TaskSending, FiniteSetTheorems, SequenceTheorems, TLAPS

-----------------------------------------------------------------------------
(* The invariants *)

Done   == {"sent", "commented"}
TakenUp   == {"sending", "sent", "commented"}    \* neither Send nor Retry takes it up
Flight == {"create", "look", "comment", "settle"}

InFlight(w, t) == worker[w].pc \in Flight /\ worker[w].task = t
Taken(t) == cards[t] + comments[t] > 0 \/ \E w \in Worker : InFlight(w, t)
Busy(w)  == worker[w].pc # "idle"

(* Threads: which task they have and what they answered; the threads of a
   dialog that was closed never share a list with those of a later one. *)
ThreadInv ==
    /\ \A w \in Worker :
          /\ worker[w].pc \in Flight \cup {"mark"} => worker[w].task \in Task
          /\ worker[w].pc = "settle" => worker[w].result \in {"failed", "sent", "commented"}
          /\ Busy(w) /\ ~worker[w].cancelled => open
          /\ Busy(w) /\ worker[w].cancelled /\ open => Walks(w) # shown
    /\ \A v, w \in Worker : Busy(v) /\ Busy(w) /\ worker[v].cancelled /\ ~worker[w].cancelled
                              => Walks(v) # Walks(w)

(* Every task that is or was in a list is known, and Ctrl+Z has nothing to
   take back when the dialog is closed. *)
KnownInv ==
    /\ \A s \in Slot : ToSet(lists[s].rows) \subseteq known
    /\ \A u \in ToSet(undo) : ToSet(u.rows) \subseteq known
    /\ ToSet(file.rows) \subseteq known
    /\ \A w \in Worker : worker[w].pc \in Flight \cup {"mark"} => worker[w].task \in known
    /\ \A t \in Task : cards[t] + comments[t] > 0 => t \in known
    /\ ~open => undo = <<>>

(* A task that was dropped from the list for good *)
Away(t) == ~In(t, Current) /\ ~In(t, file) /\ \A u \in ToSet(undo) : ~In(t, u)

(* What the file knows of a task, the list that is shown knows. *)
AheadOf(t) ==
    open /\ In(t, file) /\ file.status[t] # "pending" /\ "undone" \notin causes[t]
                      => Current.status[t] # "pending"
AheadInv == \A t \in Task : AheadOf(t)

(* Nothing that was taken is pending again. *)
FileOf(t) ==
    Taken(t) /\ causes[t] \cap {"unsaved", "undone"} = {} =>
        /\ In(t, file) => file.status[t] # "pending"
        /\ open => Current.status[t] # "pending" \/ Away(t)
FileInv == \A t \in Task : FileOf(t)

(* Without any cause one thread at a time has a task, whose status in its list
   is "sending", and what was taken can be taken up nowhere. *)
CleanOf(t) ==
    causes[t] = {} =>
        /\ \A v, w \in Worker : InFlight(v, t) /\ InFlight(w, t) => v = w
        /\ \A w \in Worker : InFlight(w, t) =>
              /\ worker[w].pc # "settle" \/ worker[w].result = "failed" => cards[t] + comments[t] = 0
              /\ ~worker[w].cancelled => Walks(w) = shown
        /\ cards[t] + comments[t] <= 1
        /\ Taken(t) => /\ In(t, file) => file.status[t] \in TakenUp
                       /\ open => Current.status[t] \in TakenUp \/ Away(t)
        /\ \A w \in Worker : Busy(w) /\ ~worker[w].cancelled /\ Walks(w) # shown
                               => Its(w).status[t] \in Done
CleanInv == \A t \in Task : CleanOf(t)

(* Without Ctrl+Z and without a race, of two lists that may comment on a task
   one is through with it, and one thread at a time has it in a list. *)
Live(s) == (open /\ s = shown) \/ \E w \in Worker : Busy(w) /\ Walks(w) = s
CommentOf(t) ==
    /\ \A u \in ToSet(undo) : u.dup[t] = "none" <=> Current.dup[t] = "none"
    /\ causes[t] \cap {"undone", "raced"} = {} =>
        /\ \A r, s \in Slot : /\ r # s /\ Live(r) /\ Live(s)
                              /\ lists[r].dup[t] # "none" /\ lists[s].dup[t] # "none"
                              => lists[r].status[t] \in Done \/ lists[s].status[t] \in Done
        /\ \A w \in Worker : InFlight(w, t) => Its(w).status[t] = "sending"
        /\ \A v, w \in Worker : InFlight(v, t) /\ InFlight(w, t) /\ Walks(v) = Walks(w) => v = w
        /\ \A w \in Worker : InFlight(w, t) /\ worker[w].pc \in {"look", "comment"}
                               => Its(w).dup[t] # "none"
        /\ \A w \in Worker : InFlight(w, t) /\ worker[w].pc = "comment" => comments[t] = 0
        /\ comments[t] <= 1
CommentInv == \A t \in Task : CommentOf(t)

SendingInv == TypeOK /\ ThreadInv /\ KnownInv /\ AheadInv /\ FileInv /\ CleanInv /\ CommentInv

-----------------------------------------------------------------------------
(* Lists, slots and saves *)

(* There is one slot more than there are threads. *)
LEMMA FreeSlotFree ==
    ASSUME worker \in [Worker -> Thread]
    PROVE  FreeSlot \in Slot /\ FreeSlot \notin Walked
<1>1. \E s \in Slot : s \notin Walked
  <2> SUFFICES ASSUME \A s \in Slot : s \in Walked PROVE FALSE
    OBVIOUS
  <2> DEFINE f == [s \in Slot |-> CHOOSE w \in Worker : worker[w].slot = s]
  <2>1. \A s \in Slot : f[s] \in Worker /\ worker[f[s]].slot = s
    <3> TAKE s \in Slot
    <3>1. \E w \in Worker : worker[w].slot = s
      BY DEF Walked
    <3> QED
      BY <3>1
  <2>2. Cardinality(Worker) \in Nat /\ IsFiniteSet(Worker)
    BY SendingAssumption, FS_CardinalityType
  <2>3. IsFiniteSet(Slot) /\ Cardinality(Slot) = Cardinality(Worker) + 1
    <3>1. 0 \in Int /\ Cardinality(Worker) \in Int /\ ~(0 > Cardinality(Worker))
      BY <2>2
    <3>2. IsFiniteSet(0..Cardinality(Worker)) /\ Cardinality(0..Cardinality(Worker)) = Cardinality(Worker) - 0 + 1
      BY <3>1, FS_Interval
    <3> QED
      BY <3>2, <2>2 DEF Slot
  <2>4. f \in [Slot -> Worker]
    BY <2>1
  <2> HIDE DEF f
  <2>5. Cardinality(Worker) < Cardinality(Slot)
    BY <2>2, <2>3
  <2>6. PICK x, y \in Slot : x # y /\ f[x] = f[y]
    BY <2>2, <2>3, <2>4, <2>5, FS_PigeonHole
  <2> QED
    BY <2>1, <2>6
<1> QED
  BY <1>1 DEF FreeSlot

(* A list is walked when a busy thread walks it. *)
LEMMA WalkedOf == \A s : s \in Walked <=> \E w \in Worker : Busy(w) /\ Walks(w) = s
BY DEF Walked, Busy, Walks

(* What is saved of a list are its rows and their status. *)
LEMMA ToFileTyped ==
    ASSUME NEW l \in List
    PROVE  /\ ToFile(l) \in Saved /\ ToFile(l).rows = l.rows
           /\ \A t \in Task : /\ In(t, ToFile(l)) <=> In(t, l)
                              /\ ToFile(l).status[t] = IF In(t, l) THEN l.status[t] ELSE "pending"
BY DEF ToFile, Saved, List, In, Status

(* A list that is loaded has the rows and the status of the file, and no old card. *)
LEMMA FromFileTyped ==
    ASSUME NEW f \in Saved
    PROVE  /\ FromFile(f) \in List /\ FromFile(f).rows = f.rows /\ FromFile(f).status = f.status
           /\ \A t \in Task : FromFile(f).dup[t] = "none"
BY DEF FromFile, Saved, List

(* The empty list is well typed, without rows and without old cards. *)
LEMMA EmptyTyped ==
    /\ Empty \in List /\ ToSet(Empty.rows) = {}
    /\ \A t \in Task : Empty.dup[t] = "none" /\ Empty.status[t] = "pending"
BY DEF Empty, List, Status, ToSet

(* A save that is not "ok" leaves the file as it was before. *)
LEMMA SavedOver ==
    ASSUME NEW before, NEW l, NEW o \in Outcome, NEW n \in {0, 1}, SaveOver(before, l, o, n),
           trouble \in 0..MaxTrouble
    PROVE  /\ trouble' \in 0..MaxTrouble
           /\ file' \in {before, ToFile(l)}
           /\ o = "ok" /\ l.rows # <<>> => file' = ToFile(l)
           /\ o # "ok" => file' = before
BY SendingAssumption DEF SaveOver, Outcome

(* The undo stack keeps its limit, and gets nothing but the list that is shown. *)
LEMMA RememberTyped ==
    ASSUME undo \in Seq(List), Len(undo) <= UndoDepth, Current \in List
    PROVE  /\ Remember \in Seq(List) /\ Len(Remember) <= UndoDepth
           /\ \A u \in ToSet(Remember) : u \in ToSet(undo) \/ u = Current
<1> DEFINE all == Append(undo, Current)
<1>1. /\ all \in Seq(List) /\ Len(all) = Len(undo) + 1 /\ Len(undo) \in Nat /\ all # <<>>
      /\ \A i \in 1..Len(undo) : all[i] = undo[i]
      /\ all[Len(undo) + 1] = Current
  BY AppendProperties
<1>2. \A u \in ToSet(all) : u \in ToSet(undo) \/ u = Current
  BY <1>1 DEF ToSet
<1>3. CASE Len(all) > UndoDepth
  <2> HIDE DEF all
  <2>1. /\ Tail(all) \in Seq(List) /\ Len(Tail(all)) = Len(all) - 1
        /\ \A i \in 1..Len(Tail(all)) : Tail(all)[i] = all[i + 1]
    BY <1>1, HeadTailProperties
  <2>2. ToSet(Tail(all)) \subseteq ToSet(all)
    BY <1>1, <2>1 DEF ToSet
  <2>3. Remember = Tail(all)
    BY <1>3 DEF Remember, all
  <2> QED
    BY <1>1, <1>2, <2>1, <2>2, <2>3
<1>4. CASE ~(Len(all) > UndoDepth)
  <2>1. Remember = all
    BY <1>4 DEF Remember
  <2> HIDE DEF all
  <2> QED
    BY <1>1, <1>2, <1>4, <2>1, SendingAssumption
<1> QED
  BY <1>3, <1>4

(* The undo stack gives back its last list and keeps the others. *)
LEMMA LastUndo ==
    ASSUME undo \in Seq(List), undo # <<>>
    PROVE  /\ Front(undo) \in Seq(List) /\ Len(Front(undo)) = Len(undo) - 1
           /\ Last(undo) \in List /\ Last(undo) \in ToSet(undo)
           /\ ToSet(Front(undo)) \subseteq ToSet(undo)
<1>1. Len(undo) \in Nat /\ Len(undo) >= 1 /\ DOMAIN undo = 1..Len(undo)
      /\ \A i \in 1..Len(undo) : undo[i] \in List
  BY EmptySeq
<1> DEFINE n == Len(undo) - 1
<1>2. n \in Nat /\ \A i \in 1..n : i \in 1..Len(undo)
  BY <1>1
<1>3. /\ Front(undo) \in Seq(List) /\ Len(Front(undo)) = n
      /\ \A i \in 1..n : Front(undo)[i] = undo[i]
  <2> HIDE DEF n
  <2>1. 1 \in Int /\ n \in Int /\ \A i \in 1..n : undo[i] \in List
    BY <1>1, <1>2
  <2>2. Len(SubSeq(undo, 1, n)) = IF 1 <= n THEN n - 1 + 1 ELSE 0
    BY <2>1, SubSeqProperties
  <2>3. /\ SubSeq(undo, 1, n) \in Seq(List)
        /\ \A i \in 1..(n - 1 + 1) : SubSeq(undo, 1, n)[i] = undo[1 + i - 1]
    BY <2>1, SubSeqProperties
  <2>4. Front(undo) = SubSeq(undo, 1, n)
    BY DEF Front, n
  <2> QED
    BY <1>2, <2>2, <2>3, <2>4
<1> QED
  BY <1>1, <1>2, <1>3 DEF Last, ToSet

(* Deleting a row brings in no other task. *)
LEMMA RemoveAtTyped ==
    ASSUME NEW rows \in Seq(Task), NEW i \in 1..Len(rows)
    PROVE  RemoveAt(rows, i) \in Seq(Task) /\ ToSet(RemoveAt(rows, i)) \subseteq ToSet(rows)
<1> DEFINE S == ToSet(rows)
           a == SubSeq(rows, 1, i - 1)
           b == SubSeq(rows, i + 1, Len(rows))
<1>1. Len(rows) \in Nat /\ DOMAIN rows = 1..Len(rows) /\ S \subseteq Task
      /\ \A j \in 1..Len(rows) : rows[j] \in S
  BY DEF ToSet
<1>2. a \in Seq(S)
  <2>1. 1 \in Int /\ i - 1 \in Int /\ \A j \in 1..(i - 1) : rows[j] \in S
    BY <1>1
  <2> HIDE DEF S
  <2> QED
    BY <2>1, SubSeqProperties
<1>3. b \in Seq(S)
  <2>1. i + 1 \in Int /\ Len(rows) \in Int /\ \A j \in (i + 1)..Len(rows) : rows[j] \in S
    BY <1>1
  <2> HIDE DEF S
  <2> QED
    BY <2>1, SubSeqProperties
<1> HIDE DEF a, b
<1>4. a \o b \in Seq(S)
  BY <1>2, <1>3, ConcatProperties
<1>5. a \o b \in Seq(Task)
  <2> HIDE DEF S
  <2> QED
    BY <1>1, <1>4, SeqMonotonic
<1>6. ToSet(a \o b) \subseteq S
  <2> HIDE DEF S
  <2> QED
    BY <1>4 DEF ToSet
<1> QED
  BY <1>5, <1>6 DEF RemoveAt, a, b

(* A list put in a free slot leaves alone those that threads walk. *)
LEMMA PlaceTyped ==
    ASSUME lists \in [Slot -> List], NEW l \in List, NEW slot \in Slot
    PROVE  /\ Place(l, slot) \in [Slot -> List] /\ Place(l, slot)[slot] = l
           /\ \A s \in Walked \cap Slot : s # slot => Place(l, slot)[s] = lists[s]
           /\ \A s \in Slot \ Walked : s # slot => Place(l, slot)[s] = Empty
BY EmptyTyped DEF Place

-----------------------------------------------------------------------------
(* What the edits have in common: they change the rows of the list that is
   shown, and no status; the file stays or gets that list; a thread may start. *)

Started(w) == /\ worker[w].pc = "idle" /\ worker'[w].pc = "next" /\ worker'[w].slot = shown
              /\ ~worker'[w].cancelled

Edited ==
    /\ open /\ open' /\ UNCHANGED <<shown, cards, comments, causes>>
    /\ \A s \in Slot : /\ lists'[s].status = lists[s].status
                       /\ \A t \in Task : lists'[s].dup[t] = "none" <=> lists[s].dup[t] = "none"
    /\ \A s \in Slot \ {shown} : lists'[s].rows = lists[s].rows
    /\ ToSet(lists'[shown].rows) \subseteq ToSet(Current.rows) \cup (known' \ known)
    /\ known \subseteq known'
    /\ \A u \in ToSet(undo') : u \in ToSet(undo) \/ u = Current
    /\ file' \in {file, ToFile(lists'[shown])}
    /\ \A w \in Worker : worker'[w] = worker[w] \/ Started(w)

(* An edit changes the shown list only, remembers it, and may save it. *)
LEMMA ChangeEffect ==
    ASSUME TypeOK, NEW new \in List, NEW o \in Outcome, Change(new, o)
    PROVE  /\ lists' \in [Slot -> List] /\ lists'[shown] = new
           /\ \A s \in Slot \ {shown} : lists'[s] = lists[s]
           /\ undo' \in Seq(List) /\ Len(undo') <= UndoDepth
           /\ \A u \in ToSet(undo') : u \in ToSet(undo) \/ u = Current
           /\ file' \in {file, ToFile(new)} /\ file' \in Saved
           /\ trouble' \in 0..MaxTrouble
<1>1. lists \in [Slot -> List] /\ shown \in Slot /\ Current \in List /\ trouble \in 0..MaxTrouble
  BY DEF TypeOK, Current
<1>2. /\ Remember \in Seq(List) /\ Len(Remember) <= UndoDepth
      /\ \A u \in ToSet(Remember) : u \in ToSet(undo) \/ u = Current
  BY <1>1, RememberTyped DEF TypeOK
<1>3. trouble' \in 0..MaxTrouble /\ file' \in {file, ToFile(new)}
  BY <1>1, SavedOver DEF Change
<1>4. file' \in Saved
  BY <1>3, ToFileTyped DEF TypeOK
<1> QED
  BY <1>1, <1>2, <1>3, <1>4 DEF Change

(* A save writes the shown list or nothing. *)
LEMMA SaveEffect ==
    ASSUME TypeOK, NEW o \in Outcome, Save(Current, o)
    PROVE  trouble' \in 0..MaxTrouble /\ file' \in {file, ToFile(Current)} /\ file' \in Saved
<1>1. Current \in List /\ trouble \in 0..MaxTrouble
  BY DEF TypeOK, Current
<1>2. trouble' \in 0..MaxTrouble /\ file' \in {file, ToFile(Current)}
  BY <1>1, SavedOver DEF Save
<1> QED
  BY <1>1, <1>2, ToFileTyped DEF TypeOK

(* Every edit keeps the types, and is of the kind Edited describes. *)
LEMMA EditEffect ==
    ASSUME TypeOK, NEW o \in Outcome,
           \/ Autosave(o) \/ SelectAll(o)
           \/ \E t \in Task : AddTask(t, o)
           \/ \E i \in 1..Len(Current.rows) : DeleteTask(i, o)
           \/ \E w \in Worker, retry \in BOOLEAN : StartSend(w, retry, o)
           \/ \E t \in Task : ToggleDup(t)
    PROVE  TypeOK' /\ Edited
<1>0. /\ lists \in [Slot -> List] /\ shown \in Slot /\ Current \in List /\ Current = lists[shown]
      /\ worker \in [Worker -> Thread]
  BY DEF TypeOK, Current
<1>1. CASE Autosave(o)
  <2>1. trouble' \in 0..MaxTrouble /\ file' \in {file, ToFile(Current)} /\ file' \in Saved
    BY <1>1, SaveEffect DEF Autosave
  <2>2. open /\ UNCHANGED <<lists, shown, undo, known, worker, open, busy, posted, cards, comments, causes>>
        /\ frozen' \in BOOLEAN
    BY <1>1 DEF Autosave, dialog, tracker, RefreshUnless, TypeOK
  <2>3. TypeOK'
    BY <2>1, <2>2 DEF TypeOK
  <2>4. Edited
    BY <1>0, <2>1, <2>2 DEF Edited
  <2> QED
    BY <2>3, <2>4
<1>2. CASE SelectAll(o)
  <2>0. Change(Current, o)
    BY <1>2 DEF SelectAll
  <2>1. /\ lists' \in [Slot -> List] /\ lists'[shown] = Current
        /\ \A s \in Slot \ {shown} : lists'[s] = lists[s]
        /\ undo' \in Seq(List) /\ Len(undo') <= UndoDepth
        /\ \A u \in ToSet(undo') : u \in ToSet(undo) \/ u = Current
        /\ file' \in {file, ToFile(Current)} /\ file' \in Saved
        /\ trouble' \in 0..MaxTrouble
    BY <1>0, <2>0, ChangeEffect
  <2>2. open /\ UNCHANGED <<shown, known, worker, open, busy, posted, cards, comments, causes>>
        /\ frozen' \in BOOLEAN
    BY <1>2 DEF SelectAll, tracker, RefreshUnless, TypeOK
  <2>3. TypeOK'
    BY <2>1, <2>2 DEF TypeOK
  <2>4. \A s \in Slot : lists'[s] = lists[s]
    BY <1>0, <2>1
  <2>5. Edited
    BY <1>0, <2>1, <2>2, <2>4 DEF Edited
  <2> QED
    BY <2>3, <2>5
<1>3. ASSUME NEW t \in Task, AddTask(t, o) PROVE TypeOK' /\ Edited
  <2> DEFINE new == [Current EXCEPT !.rows = Append(@, t)]
  <2>0. Change(new, o) /\ t \notin known /\ known' = known \cup {t} /\ open /\ frozen' = FALSE
        /\ UNCHANGED <<shown, worker, open, busy, posted, cards, comments, causes>>
    BY <1>3 DEF AddTask, tracker, Refresh
  <2>1. Append(Current.rows, t) \in Seq(Task) /\ ToSet(Append(Current.rows, t)) \subseteq ToSet(Current.rows) \cup {t}
    <3>1. Current.rows \in Seq(Task)
      BY <1>0 DEF List
    <3>2. /\ Append(Current.rows, t) \in Seq(Task) /\ Len(Append(Current.rows, t)) = Len(Current.rows) + 1
          /\ \A j \in 1..Len(Current.rows) : Append(Current.rows, t)[j] = Current.rows[j]
          /\ Append(Current.rows, t)[Len(Current.rows) + 1] = t
      BY <3>1, AppendProperties
    <3> QED
      BY <3>1, <3>2 DEF ToSet
  <2>2. new \in List /\ new.rows = Append(Current.rows, t) /\ new.status = Current.status /\ new.dup = Current.dup
    BY <1>0, <2>1 DEF List
  <2> HIDE DEF new
  <2>3. /\ lists' \in [Slot -> List] /\ lists'[shown] = new
        /\ \A s \in Slot \ {shown} : lists'[s] = lists[s]
        /\ undo' \in Seq(List) /\ Len(undo') <= UndoDepth
        /\ \A u \in ToSet(undo') : u \in ToSet(undo) \/ u = Current
        /\ file' \in {file, ToFile(new)} /\ file' \in Saved
        /\ trouble' \in 0..MaxTrouble
    BY <2>0, <2>2, ChangeEffect
  <2>4. TypeOK'
    BY <2>0, <2>3 DEF TypeOK
  <2>5. \A s \in Slot : lists'[s].status = lists[s].status /\ lists'[s].dup = lists[s].dup
    BY <1>0, <2>2, <2>3
  <2>6. Edited
    BY <1>0, <2>0, <2>1, <2>2, <2>3, <2>5 DEF Edited
  <2> QED
    BY <2>4, <2>6
<1>4. ASSUME NEW i \in 1..Len(Current.rows), DeleteTask(i, o) PROVE TypeOK' /\ Edited
  <2> DEFINE new == [Current EXCEPT !.rows = RemoveAt(@, i)]
  <2>0. Change(new, o) /\ open /\ frozen' = FALSE
        /\ UNCHANGED <<shown, known, worker, open, busy, posted, cards, comments, causes>>
    BY <1>4 DEF DeleteTask, tracker, Refresh
  <2>1. RemoveAt(Current.rows, i) \in Seq(Task) /\ ToSet(RemoveAt(Current.rows, i)) \subseteq ToSet(Current.rows)
    <3>1. Current.rows \in Seq(Task)
      BY <1>0 DEF List
    <3> QED
      BY <3>1, RemoveAtTyped
  <2>2. new \in List /\ new.rows = RemoveAt(Current.rows, i) /\ new.status = Current.status /\ new.dup = Current.dup
    BY <1>0, <2>1 DEF List
  <2> HIDE DEF new
  <2>3. /\ lists' \in [Slot -> List] /\ lists'[shown] = new
        /\ \A s \in Slot \ {shown} : lists'[s] = lists[s]
        /\ undo' \in Seq(List) /\ Len(undo') <= UndoDepth
        /\ \A u \in ToSet(undo') : u \in ToSet(undo) \/ u = Current
        /\ file' \in {file, ToFile(new)} /\ file' \in Saved
        /\ trouble' \in 0..MaxTrouble
    BY <2>0, <2>2, ChangeEffect
  <2>4. TypeOK'
    BY <2>0, <2>3 DEF TypeOK
  <2>5. \A s \in Slot : lists'[s].status = lists[s].status /\ lists'[s].dup = lists[s].dup
    BY <1>0, <2>2, <2>3
  <2>6. Edited
    BY <1>0, <2>0, <2>1, <2>2, <2>3, <2>5 DEF Edited
  <2> QED
    BY <2>4, <2>6
<1>5. ASSUME NEW w \in Worker, NEW retry \in BOOLEAN, StartSend(w, retry, o) PROVE TypeOK' /\ Edited
  <2> DEFINE new == [Idle EXCEPT !.pc = "next", !.slot = shown, !.retry = retry]
  <2>0. /\ open /\ worker[w].pc = "idle" /\ Save(Current, o)
        /\ worker' \in {worker, [worker EXCEPT ![w] = new]}
        /\ busy' \in {busy, TRUE} /\ frozen' \in {frozen, TRUE}
        /\ UNCHANGED <<lists, shown, undo, known, open, posted, cards, comments, causes>>
    BY <1>5 DEF StartSend, dialog, tracker
  <2>1. trouble' \in 0..MaxTrouble /\ file' \in {file, ToFile(Current)} /\ file' \in Saved
    BY <2>0, SaveEffect
  <2>2. new \in Thread /\ new.pc = "next" /\ new.slot = shown /\ ~new.cancelled
    <3>1. Idle \in Thread
      BY SendingAssumption, FS_CardinalityType DEF Idle, Thread, Status, Slot
    <3> HIDE DEF Idle
    <3>2. [Idle EXCEPT !.pc = "next", !.slot = shown, !.retry = retry] \in Thread
      BY <1>0, <3>1 DEF Thread
    <3>3. Idle.cancelled = FALSE
      BY DEF Idle
    <3> QED
      BY <3>1, <3>2, <3>3 DEF Thread
  <2> HIDE DEF new
  <2>3. worker' \in [Worker -> Thread] /\ \A v \in Worker : worker'[v] = worker[v] \/ (v = w /\ worker'[v] = new)
    BY <1>0, <2>0, <2>2
  <2>4. TypeOK'
    BY <2>0, <2>1, <2>3 DEF TypeOK
  <2>5. Edited
    BY <1>0, <2>0, <2>1, <2>2, <2>3 DEF Edited, Started
  <2> QED
    BY <2>4, <2>5
<1>6. ASSUME NEW t \in Task, ToggleDup(t) PROVE TypeOK' /\ Edited
  <2> DEFINE flip == IF Current.dup[t] = "comment" THEN "create" ELSE "comment"
             new == [Current EXCEPT !.dup[t] = flip]
  <2>0. /\ open /\ Current.dup[t] # "none" /\ lists' = [lists EXCEPT ![shown] = new]
        /\ UNCHANGED <<shown, undo, known, file, worker, open, busy, frozen, posted, cards, comments, causes, trouble>>
    BY <1>0, <1>6 DEF ToggleDup, screen, tracker
  <2>1. /\ new \in List /\ new.rows = Current.rows /\ new.status = Current.status
        /\ \A u \in Task : new.dup[u] = "none" <=> Current.dup[u] = "none"
    <3>1. flip \in {"none", "comment", "create"} /\ flip # "none"
      OBVIOUS
    <3> HIDE DEF flip
    <3>2. Current.dup \in [Task -> {"none", "comment", "create"}]
      BY <1>0 DEF List
    <3> QED
      BY <1>0, <2>0, <3>1, <3>2 DEF List
  <2> HIDE DEF new
  <2>2. lists' \in [Slot -> List] /\ lists'[shown] = new /\ \A s \in Slot \ {shown} : lists'[s] = lists[s]
    BY <1>0, <2>0, <2>1
  <2>3. TypeOK'
    BY <2>0, <2>2 DEF TypeOK
  <2>4. \A s \in Slot : /\ lists'[s].status = lists[s].status
                        /\ \A u \in Task : lists'[s].dup[u] = "none" <=> lists[s].dup[u] = "none"
    BY <1>0, <2>1, <2>2
  <2>5. Edited
    BY <1>0, <2>0, <2>1, <2>2, <2>4 DEF Edited
  <2> QED
    BY <2>3, <2>5
<1> QED
  BY <1>1, <1>2, <1>3, <1>4, <1>5, <1>6

(* An edit keeps all that is said of the lists, the file and the threads. *)
LEMMA EditStep ==
    ASSUME SendingInv, TypeOK', Edited
    PROVE  SendingInv'
<1>0. /\ lists \in [Slot -> List] /\ lists' \in [Slot -> List] /\ shown \in Slot /\ shown' = shown
      /\ Current = lists[shown] /\ Current' = lists'[shown]
      /\ Current \in List /\ Current' \in List
      /\ worker \in [Worker -> Thread] /\ worker' \in [Worker -> Thread]
      /\ open /\ open' /\ cards' = cards /\ comments' = comments /\ causes' = causes
      /\ file \in Saved /\ file' \in Saved
  BY DEF SendingInv, TypeOK, Current, Edited
<1>1. /\ \A s \in Slot : /\ lists'[s].status = lists[s].status
                         /\ \A t \in Task : lists'[s].dup[t] = "none" <=> lists[s].dup[t] = "none"
      /\ \A s \in Slot \ {shown} : lists'[s].rows = lists[s].rows
      /\ ToSet(Current'.rows) \subseteq ToSet(Current.rows) \cup (known' \ known)
      /\ known \subseteq known'
      /\ \A u \in ToSet(undo') : u \in ToSet(undo) \/ u = Current
      /\ file' \in {file, ToFile(Current')}
      /\ \A w \in Worker : worker'[w] = worker[w] \/ Started(w)
  BY <1>0 DEF Edited
<1>2. /\ Current'.status = Current.status
      /\ \A t \in Task : Current'.dup[t] = "none" <=> Current.dup[t] = "none"
  BY <1>0, <1>1
<1>3. /\ \A t \in Task : In(t, ToFile(Current')) <=> In(t, Current')
      /\ \A t \in Task : In(t, Current') => ToFile(Current').status[t] = Current.status[t]
      /\ ToFile(Current').rows = Current'.rows
  BY <1>0, <1>2, ToFileTyped
<1>4. \A w \in Worker : /\ \A t \in Task : InFlight(w, t)' <=> InFlight(w, t)
                        /\ worker[w].pc \in Flight \cup {"mark"} \/ worker'[w].pc \in Flight \cup {"mark"}
                             => worker'[w] = worker[w]
                        /\ \A t \in Task : InFlight(w, t) => worker'[w] = worker[w]
                        /\ Busy(w)' => worker'[w] = worker[w] \/ (~worker'[w].cancelled /\ Walks(w)' = shown)
                        /\ Busy(w) => worker'[w] = worker[w]
  BY <1>1 DEF InFlight, Flight, Started, Busy, Walks
<1>5. \A t \in Task : Taken(t)' <=> Taken(t)
  BY <1>0, <1>4 DEF Taken
<1>6. \A t \in Task : Taken(t) => t \in known
  BY DEF Taken, SendingInv, KnownInv, InFlight
<1>7. ASSUME NEW t \in Task, t \in known
      PROVE  /\ In(t, Current') => In(t, Current)
             /\ In(t, file') => In(t, file) \/ (file' = ToFile(Current') /\ In(t, Current))
             /\ Away(t) => Away(t)'
  <2>1. In(t, Current') => In(t, Current)
    BY <1>1, <1>7 DEF In
  <2>2. In(t, file') => In(t, file) \/ (file' = ToFile(Current') /\ In(t, Current))
    BY <1>1, <1>3, <2>1
  <2>3. Away(t) => Away(t)'
    <3> SUFFICES ASSUME Away(t) PROVE Away(t)'
      OBVIOUS
    <3>1. ~In(t, Current) /\ ~In(t, file) /\ \A u \in ToSet(undo) : ~In(t, u)
      BY DEF Away
    <3>2. ~In(t, Current') /\ ~In(t, file')
      BY <2>1, <2>2, <3>1
    <3>3. \A u \in ToSet(undo') : ~In(t, u)
      BY <1>1, <3>1
    <3> QED
      BY <3>2, <3>3 DEF Away
  <2> QED
    BY <2>1, <2>2, <2>3
<1>8. ThreadInv'
  <2>1. ASSUME NEW w \in Worker
        PROVE  /\ worker'[w].pc \in Flight \cup {"mark"} => worker'[w].task \in Task
               /\ worker'[w].pc = "settle" => worker'[w].result \in {"failed", "sent", "commented"}
               /\ Busy(w)' /\ worker'[w].cancelled => worker'[w] = worker[w] /\ Busy(w) /\ Walks(w) # shown
    <3>1. worker'[w].pc = "settle" => worker'[w].pc \in Flight
      BY DEF Flight
    <3> QED
      BY <1>0, <1>4, <3>1 DEF SendingInv, ThreadInv, Busy
  <2>2. \A v, w \in Worker : (Busy(v) /\ Busy(w) /\ worker[v].cancelled /\ ~worker[w].cancelled)'
                              => Walks(v)' # Walks(w)'
    <3> SUFFICES ASSUME NEW v \in Worker, NEW w \in Worker,
                        Busy(v)', Busy(w)', worker'[v].cancelled, ~worker'[w].cancelled
                 PROVE  Walks(v)' # Walks(w)'
      OBVIOUS
    <3>1. worker'[v] = worker[v] /\ Busy(v) /\ Walks(v) # shown /\ Walks(v)' = Walks(v)
      BY <2>1 DEF Walks
    <3>2. CASE worker'[w] = worker[w]
      BY <3>1, <3>2 DEF SendingInv, ThreadInv, Busy, Walks
    <3>3. CASE Walks(w)' = shown
      BY <3>1, <3>3
    <3> QED
      BY <1>4, <3>2, <3>3
  <2>3. \A w \in Worker : Busy(w)' /\ worker'[w].cancelled => Walks(w)' # shown
    BY <2>1 DEF Walks
  <2> QED
    BY <1>0, <2>1, <2>2, <2>3 DEF ThreadInv
<1>9. KnownInv'
  <2>1. /\ \A s \in Slot : ToSet(lists[s].rows) \subseteq known
        /\ \A u \in ToSet(undo) : ToSet(u.rows) \subseteq known
        /\ ToSet(file.rows) \subseteq known
        /\ \A w \in Worker : worker[w].pc \in Flight \cup {"mark"} => worker[w].task \in known
        /\ \A t \in Task : cards[t] + comments[t] > 0 => t \in known
    BY DEF SendingInv, KnownInv
  <2>2. ToSet(Current.rows) \subseteq known /\ ToSet(Current'.rows) \subseteq known'
    BY <1>0, <1>1, <2>1
  <2>3. \A s \in Slot : ToSet(lists'[s].rows) \subseteq known'
    BY <1>0, <1>1, <2>1, <2>2
  <2>4. \A u \in ToSet(undo') : ToSet(u.rows) \subseteq known'
    BY <1>1, <2>1, <2>2
  <2>5. ToSet(file'.rows) \subseteq known'
    BY <1>1, <1>3, <2>1, <2>2
  <2>6. \A w \in Worker : worker'[w].pc \in Flight \cup {"mark"} => worker'[w].task \in known'
    BY <1>1, <1>4, <2>1
  <2> QED
    BY <1>0, <1>1, <2>1, <2>3, <2>4, <2>5, <2>6 DEF KnownInv
<1>10. AheadInv'
  <2> SUFFICES ASSUME NEW t \in Task, In(t, file'), file'.status[t] # "pending", "undone" \notin causes[t]
               PROVE  Current'.status[t] # "pending"
    BY <1>0 DEF AheadInv, AheadOf
  <2>1. CASE file' = file
    BY <1>0, <1>2, <2>1 DEF SendingInv, AheadInv, AheadOf
  <2>2. CASE file' = ToFile(Current')
    BY <1>2, <1>3, <2>2
  <2> QED
    BY <1>1, <2>1, <2>2
<1>11. FileInv'
  <2> SUFFICES ASSUME NEW t \in Task, Taken(t), causes[t] \cap {"unsaved", "undone"} = {}
               PROVE  /\ In(t, file') => file'.status[t] # "pending"
                      /\ Current'.status[t] # "pending" \/ Away(t)'
    BY <1>0, <1>5 DEF FileInv, FileOf
  <2>1. /\ In(t, file) => file.status[t] # "pending"
        /\ Current.status[t] # "pending" \/ Away(t)
    BY <1>0 DEF SendingInv, FileInv, FileOf
  <2>2. Current'.status[t] # "pending" \/ Away(t)'
    BY <1>2, <1>6, <1>7, <2>1
  <2>3. In(t, file') => file'.status[t] # "pending"
    BY <1>1, <1>2, <1>3, <1>6, <1>7, <2>1 DEF Away
  <2> QED
    BY <2>2, <2>3
<1>12. CleanInv'
  <2> SUFFICES ASSUME NEW t \in Task, causes[t] = {}
               PROVE  /\ \A v, w \in Worker : InFlight(v, t)' /\ InFlight(w, t)' => v = w
                      /\ \A w \in Worker : InFlight(w, t)' =>
                            /\ worker'[w].pc # "settle" \/ worker'[w].result = "failed" => cards[t] + comments[t] = 0
                            /\ ~worker'[w].cancelled => Walks(w)' = shown
                      /\ cards[t] + comments[t] <= 1
                      /\ Taken(t)' => /\ In(t, file') => file'.status[t] \in TakenUp
                                      /\ Current'.status[t] \in TakenUp \/ Away(t)'
                      /\ \A w \in Worker : Busy(w)' /\ ~worker'[w].cancelled /\ Walks(w)' # shown
                                             => Its(w)'.status[t] \in Done
    BY <1>0 DEF CleanInv, CleanOf
  <2>1. /\ \A v, w \in Worker : InFlight(v, t) /\ InFlight(w, t) => v = w
        /\ \A w \in Worker : InFlight(w, t) =>
              /\ worker[w].pc # "settle" \/ worker[w].result = "failed" => cards[t] + comments[t] = 0
              /\ ~worker[w].cancelled => Walks(w) = shown
        /\ cards[t] + comments[t] <= 1
        /\ Taken(t) => /\ In(t, file) => file.status[t] \in TakenUp
                       /\ Current.status[t] \in TakenUp \/ Away(t)
        /\ \A w \in Worker : Busy(w) /\ ~worker[w].cancelled /\ Walks(w) # shown
                               => Its(w).status[t] \in Done
    BY <1>0 DEF SendingInv, CleanInv, CleanOf
  <2>2. \A v, w \in Worker : InFlight(v, t)' /\ InFlight(w, t)' => v = w
    BY <1>4, <2>1
  <2>3. ASSUME NEW w \in Worker, InFlight(w, t)'
        PROVE  /\ worker'[w].pc # "settle" \/ worker'[w].result = "failed" => cards[t] + comments[t] = 0
               /\ ~worker'[w].cancelled => Walks(w)' = shown
    BY <1>4, <2>1, <2>3 DEF Walks
  <2>4. Taken(t) => /\ In(t, file') => file'.status[t] \in TakenUp
                    /\ Current'.status[t] \in TakenUp \/ Away(t)'
    <3> SUFFICES ASSUME Taken(t) PROVE /\ In(t, file') => file'.status[t] \in TakenUp
                                       /\ Current'.status[t] \in TakenUp \/ Away(t)'
      OBVIOUS
    <3>1. Current'.status[t] \in TakenUp \/ Away(t)'
      BY <1>2, <1>6, <1>7, <2>1
    <3>2. In(t, file') => file'.status[t] \in TakenUp
      BY <1>1, <1>2, <1>3, <1>6, <1>7, <2>1 DEF Away
    <3> QED
      BY <3>1, <3>2
  <2>5. ASSUME NEW w \in Worker, Busy(w)', ~worker'[w].cancelled, Walks(w)' # shown
        PROVE  Its(w)'.status[t] \in Done
    <3>1. worker'[w] = worker[w] /\ Busy(w) /\ Walks(w)' = Walks(w) /\ Walks(w) \in Slot
      BY <1>0, <1>4, <2>5 DEF Busy, Walks, Thread
    <3>2. Its(w).status[t] \in Done
      BY <2>1, <2>5, <3>1
    <3>3. Its(w)'.status = Its(w).status
      BY <1>1, <3>1 DEF Its
    <3> QED
      BY <3>2, <3>3
  <2> QED
    BY <1>5, <2>1, <2>2, <2>3, <2>4, <2>5
<1>13. CommentInv'
  <2>0. \A s \in Slot : Live(s)' <=> Live(s)
    <3>1. ASSUME NEW s \in Slot, NEW w \in Worker, Busy(w)', Walks(w)' = s
          PROVE  Live(s)
      BY <1>0, <1>4, <3>1 DEF Live, Busy, Walks
    <3>2. ASSUME NEW s \in Slot, NEW w \in Worker, Busy(w), Walks(w) = s
          PROVE  Busy(w)' /\ Walks(w)' = s
      BY <1>4, <3>2 DEF Busy, Walks
    <3> QED
      BY <1>0, <3>1, <3>2 DEF Live
  <2> SUFFICES ASSUME NEW t \in Task
               PROVE  /\ \A u \in ToSet(undo') : u.dup[t] = "none" <=> Current'.dup[t] = "none"
                      /\ causes[t] \cap {"undone", "raced"} = {} =>
                        /\ \A r, s \in Slot : /\ r # s /\ Live(r)' /\ Live(s)'
                                              /\ lists'[r].dup[t] # "none" /\ lists'[s].dup[t] # "none"
                                              => lists'[r].status[t] \in Done \/ lists'[s].status[t] \in Done
                        /\ \A w \in Worker : InFlight(w, t)' => Its(w)'.status[t] = "sending"
                        /\ \A v, w \in Worker : InFlight(v, t)' /\ InFlight(w, t)' /\ Walks(v)' = Walks(w)' => v = w
                        /\ \A w \in Worker : InFlight(w, t)' /\ worker'[w].pc \in {"look", "comment"}
                                               => Its(w)'.dup[t] # "none"
                        /\ \A w \in Worker : InFlight(w, t)' /\ worker'[w].pc = "comment" => comments[t] = 0
                        /\ comments[t] <= 1
    BY <1>0 DEF CommentInv, CommentOf
  <2>1. \A u \in ToSet(undo') : u.dup[t] = "none" <=> Current'.dup[t] = "none"
    BY <1>1, <1>2 DEF SendingInv, CommentInv, CommentOf
  <2> SUFFICES ASSUME causes[t] \cap {"undone", "raced"} = {}
               PROVE  /\ \A r, s \in Slot : /\ r # s /\ Live(r)' /\ Live(s)'
                                            /\ lists'[r].dup[t] # "none" /\ lists'[s].dup[t] # "none"
                                            => lists'[r].status[t] \in Done \/ lists'[s].status[t] \in Done
                      /\ \A w \in Worker : InFlight(w, t)' => Its(w)'.status[t] = "sending"
                      /\ \A v, w \in Worker : InFlight(v, t)' /\ InFlight(w, t)' /\ Walks(v)' = Walks(w)' => v = w
                      /\ \A w \in Worker : InFlight(w, t)' /\ worker'[w].pc \in {"look", "comment"}
                                             => Its(w)'.dup[t] # "none"
                      /\ \A w \in Worker : InFlight(w, t)' /\ worker'[w].pc = "comment" => comments[t] = 0
                      /\ comments[t] <= 1
    BY <2>1
  <2>2. /\ \A r, s \in Slot : /\ r # s /\ Live(r) /\ Live(s)
                              /\ lists[r].dup[t] # "none" /\ lists[s].dup[t] # "none"
                              => lists[r].status[t] \in Done \/ lists[s].status[t] \in Done
        /\ \A w \in Worker : InFlight(w, t) => Its(w).status[t] = "sending"
        /\ \A v, w \in Worker : InFlight(v, t) /\ InFlight(w, t) /\ Walks(v) = Walks(w) => v = w
        /\ \A w \in Worker : InFlight(w, t) /\ worker[w].pc \in {"look", "comment"}
                               => Its(w).dup[t] # "none"
        /\ \A w \in Worker : InFlight(w, t) /\ worker[w].pc = "comment" => comments[t] = 0
        /\ comments[t] <= 1
    BY DEF SendingInv, CommentInv, CommentOf
  <2>3. \A r, s \in Slot : /\ r # s /\ Live(r)' /\ Live(s)'
                           /\ lists'[r].dup[t] # "none" /\ lists'[s].dup[t] # "none"
                           => lists'[r].status[t] \in Done \/ lists'[s].status[t] \in Done
    BY <1>1, <2>0, <2>2
  <2>4. ASSUME NEW w \in Worker, InFlight(w, t)'
        PROVE  /\ InFlight(w, t) /\ worker'[w] = worker[w] /\ Walks(w)' = Walks(w)
               /\ Its(w)'.status = Its(w).status /\ (Its(w)'.dup[t] = "none" <=> Its(w).dup[t] = "none")
    <3>1. InFlight(w, t) /\ worker'[w] = worker[w] /\ Walks(w)' = Walks(w) /\ Walks(w) \in Slot
      BY <1>0, <1>4, <2>4 DEF Walks, Thread
    <3> QED
      BY <1>1, <3>1 DEF Its
  <2> QED
    BY <2>2, <2>3, <2>4
<1> QED
  BY <1>8, <1>9, <1>10, <1>11, <1>12, <1>13 DEF SendingInv

-----------------------------------------------------------------------------
(* Another list is shown, or none: what the threads walk is kept. *)

SameThreads ==
    \A w \in Worker : /\ worker'[w].pc = worker[w].pc /\ worker'[w].slot = worker[w].slot
                      /\ worker'[w].task = worker[w].task /\ worker'[w].result = worker[w].result

(* Bringing back a list finds a free slot and leaves every thread its own list. *)
LEMMA WalkedKept ==
    ASSUME TypeOK, NEW l \in List, lists' = Place(l, FreeSlot), SameThreads,
           UNCHANGED <<cards, comments>>
    PROVE  /\ FreeSlot \in Slot /\ lists' \in [Slot -> List] /\ lists'[FreeSlot] = l
           /\ \A s \in Slot : s # FreeSlot => lists'[s] \in {lists[s], Empty}
           /\ \A w \in Worker : /\ Busy(w)' <=> Busy(w)
                                /\ Walks(w)' = Walks(w) /\ Walks(w) \in Slot
                                /\ \A t \in Task : InFlight(w, t)' <=> InFlight(w, t)
                                /\ \A t \in Task : InFlight(w, t) => Busy(w)
                                /\ Busy(w) => /\ Walks(w) # FreeSlot /\ Its(w)' = Its(w)
                                              /\ Walks(w) \in Walked
                                              /\ lists'[Walks(w)] = lists[Walks(w)]
           /\ \A t \in Task : Taken(t)' <=> Taken(t)
<1>1. lists \in [Slot -> List] /\ worker \in [Worker -> Thread]
  BY DEF TypeOK
<1>2. FreeSlot \in Slot /\ FreeSlot \notin Walked
  BY <1>1, FreeSlotFree
<1>3. /\ lists' \in [Slot -> List] /\ lists'[FreeSlot] = l
      /\ \A s \in Walked \cap Slot : s # FreeSlot => lists'[s] = lists[s]
      /\ \A s \in Slot \ Walked : s # FreeSlot => lists'[s] = Empty
  BY <1>1, <1>2, PlaceTyped
<1>4. ASSUME NEW w \in Worker
      PROVE  /\ Busy(w)' <=> Busy(w)
             /\ Walks(w)' = Walks(w) /\ Walks(w) \in Slot
             /\ \A t \in Task : InFlight(w, t)' <=> InFlight(w, t)
             /\ \A t \in Task : InFlight(w, t) => Busy(w)
             /\ Busy(w) => /\ Walks(w) # FreeSlot /\ Its(w)' = Its(w)
                           /\ Walks(w) \in Walked
                           /\ lists'[Walks(w)] = lists[Walks(w)]
  <2>1. Busy(w)' <=> Busy(w)
    BY DEF SameThreads, Busy
  <2>2. Walks(w)' = Walks(w) /\ Walks(w) \in Slot
    BY <1>1 DEF SameThreads, Walks, Thread
  <2>3. ASSUME NEW t \in Task PROVE (InFlight(w, t)' <=> InFlight(w, t)) /\ (InFlight(w, t) => Busy(w))
    BY DEF SameThreads, InFlight, Busy, Flight
  <2>4. Busy(w) => Walks(w) \in Walked
    BY WalkedOf
  <2>5. Busy(w) => Walks(w) # FreeSlot /\ lists'[Walks(w)] = lists[Walks(w)]
    BY <1>2, <1>3, <2>2, <2>4
  <2>6. Busy(w) => Its(w)' = Its(w)
    BY <2>2, <2>5 DEF Its
  <2> QED
    BY <2>1, <2>2, <2>3, <2>4, <2>5, <2>6
<1>5. \A t \in Task : Taken(t)' <=> Taken(t)
  BY <1>4 DEF Taken
<1> QED
  BY <1>2, <1>3, <1>4, <1>5

(* Ctrl+Z: what is not "undone" has the status of the snapshot, and a thread
   that walks the list that goes is through with it. *)
LEMMA UndoStep ==
    ASSUME SendingInv, NEW o \in Outcome, Undo(o)
    PROVE  SendingInv'
<1> DEFINE P == Last(undo)
           k == FreeSlot
<1>0. /\ lists \in [Slot -> List] /\ shown \in Slot /\ Current = lists[shown] /\ Current \in List
      /\ undo \in Seq(List) /\ Len(undo) <= UndoDepth /\ trouble \in 0..MaxTrouble
      /\ worker \in [Worker -> Thread] /\ file \in Saved
  BY DEF SendingInv, TypeOK, Current
<1>1. /\ open /\ undo # <<>> /\ undo' = Front(undo) /\ shown' = k /\ lists' = Place(P, k)
      /\ SaveOver(IF Current.rows = <<>> THEN file ELSE ToFile(Current), P, o, 1)
      /\ causes' = Because(Forgotten(P), "undone") /\ frozen' = FALSE
      /\ UNCHANGED <<known, worker, open, busy, posted, cards, comments>>
  BY DEF Undo, tracker, Refresh
<1>2. /\ undo' \in Seq(List) /\ Len(undo') <= UndoDepth /\ P \in List /\ P \in ToSet(undo)
      /\ ToSet(undo') \subseteq ToSet(undo)
  <2>1. Len(undo) \in Nat
    BY <1>0
  <2> HIDE DEF P
  <2> QED
    BY <1>0, <1>1, <2>1, LastUndo, SendingAssumption DEF P
<1> HIDE DEF P
<1>3. /\ k \in Slot /\ lists' \in [Slot -> List] /\ lists'[k] = P
      /\ \A s \in Slot : s # k => lists'[s] \in {lists[s], Empty}
      /\ \A w \in Worker : /\ Busy(w)' <=> Busy(w)
                           /\ Walks(w)' = Walks(w) /\ Walks(w) \in Slot
                           /\ \A t \in Task : InFlight(w, t)' <=> InFlight(w, t)
                           /\ \A t \in Task : InFlight(w, t) => Busy(w)
                           /\ Busy(w) => /\ Walks(w) # k /\ Its(w)' = Its(w)
                                         /\ Walks(w) \in Walked
                                         /\ lists'[Walks(w)] = lists[Walks(w)]
      /\ \A t \in Task : Taken(t)' <=> Taken(t)
  <2>1. SameThreads
    BY <1>1 DEF SameThreads
  <2> QED
    BY <1>1, <1>2, <2>1, WalkedKept DEF SendingInv
<1>4. Current' = P
  BY <1>1, <1>3 DEF Current
<1>5. trouble' \in 0..MaxTrouble /\ file' \in {file, ToFile(Current), ToFile(P)} /\ file' \in Saved
  <2>1. trouble' \in 0..MaxTrouble
        /\ file' \in {IF Current.rows = <<>> THEN file ELSE ToFile(Current), ToFile(P)}
    BY <1>0, <1>1, SavedOver
  <2> QED
    BY <1>0, <1>2, <2>1, ToFileTyped
<1>6. /\ \A t \in Task : In(t, ToFile(Current)) <=> In(t, Current)
      /\ \A t \in Task : In(t, Current) => ToFile(Current).status[t] = Current.status[t]
      /\ \A t \in Task : In(t, ToFile(P)) <=> In(t, P)
      /\ \A t \in Task : In(t, P) => ToFile(P).status[t] = P.status[t]
      /\ ToFile(Current).rows = Current.rows /\ ToFile(P).rows = P.rows
  BY <1>0, <1>2, ToFileTyped
<1>7. ASSUME NEW t \in Task, "undone" \notin causes'[t]
      PROVE  /\ causes'[t] = causes[t]
             /\ Current.status[t] \in {"pending", P.status[t]}
             /\ shown \in Walked => Current.status[t] \in Done
  <2>1. causes'[t] = causes[t] /\ t \notin Forgotten(P)
    BY <1>1, <1>7 DEF Because
  <2>2. Current.status[t] \in {"pending", P.status[t]}
        /\ (shown \in Walked => Current.status[t] \notin {"pending", "failed", "sending"})
    BY <2>1 DEF Forgotten
  <2>3. Current.status[t] \in Status
    BY <1>0 DEF List
  <2> QED
    BY <2>1, <2>2, <2>3 DEF Status, Done
<1>8. \A t \in Task : causes[t] \subseteq causes'[t]
  BY <1>1 DEF Because
<1>9. ASSUME NEW t \in Task, Away(t)
      PROVE  Away(t)' /\ ~In(t, P) /\ ~In(t, Current) /\ ~In(t, file)
  <2>1. ~In(t, P) /\ ~In(t, Current) /\ ~In(t, file) /\ \A u \in ToSet(undo) : ~In(t, u)
    BY <1>2, <1>9 DEF Away
  <2>2. ~In(t, Current') /\ ~In(t, file')
    BY <1>4, <1>5, <1>6, <2>1
  <2> QED
    BY <1>2, <2>1, <2>2 DEF Away
<1>10. TypeOK'
  <2>1. causes' \in [Task -> SUBSET Cause]
    <3>1. causes \in [Task -> SUBSET Cause] /\ "undone" \in Cause
      BY DEF SendingInv, TypeOK, Cause
    <3> QED
      BY <1>1, <3>1 DEF Because
  <2> QED
    BY <1>1, <1>2, <1>3, <1>5, <2>1 DEF SendingInv, TypeOK
<1>11. ThreadInv'
  BY <1>1, <1>3 DEF SendingInv, ThreadInv
<1>12. KnownInv'
  <2>1. /\ \A s \in Slot : ToSet(lists[s].rows) \subseteq known
        /\ \A u \in ToSet(undo) : ToSet(u.rows) \subseteq known
        /\ ToSet(file.rows) \subseteq known
        /\ \A w \in Worker : worker[w].pc \in Flight \cup {"mark"} => worker[w].task \in known
        /\ \A t \in Task : cards[t] + comments[t] > 0 => t \in known
    BY DEF SendingInv, KnownInv
  <2>2. ToSet(P.rows) \subseteq known /\ ToSet(Current.rows) \subseteq known
    BY <1>0, <1>2, <2>1
  <2>3. \A s \in Slot : ToSet(lists'[s].rows) \subseteq known
    BY <1>3, <2>1, <2>2, EmptyTyped
  <2>4. ToSet(file'.rows) \subseteq known
    BY <1>5, <1>6, <2>1, <2>2
  <2> QED
    BY <1>1, <1>2, <2>1, <2>3, <2>4 DEF KnownInv
<1>13. AheadInv'
  <2> SUFFICES ASSUME NEW t \in Task, In(t, file'), file'.status[t] # "pending", "undone" \notin causes'[t]
               PROVE  P.status[t] # "pending"
    BY <1>4 DEF AheadInv, AheadOf
  <2>1. causes'[t] = causes[t] /\ Current.status[t] \in {"pending", P.status[t]}
    BY <1>7
  <2>2. CASE file' = file
    BY <1>1, <2>1, <2>2 DEF SendingInv, AheadInv, AheadOf
  <2>3. CASE file' = ToFile(Current)
    BY <1>6, <2>1, <2>3
  <2>4. CASE file' = ToFile(P)
    BY <1>6, <2>4
  <2> QED
    BY <1>5, <2>2, <2>3, <2>4
<1>14. FileInv'
  <2> SUFFICES ASSUME NEW t \in Task, Taken(t), causes'[t] \cap {"unsaved", "undone"} = {}
               PROVE  /\ In(t, file') => file'.status[t] # "pending"
                      /\ P.status[t] # "pending" \/ Away(t)'
    BY <1>3, <1>4 DEF FileInv, FileOf
  <2>1. causes'[t] = causes[t] /\ Current.status[t] \in {"pending", P.status[t]}
    BY <1>7
  <2>2. /\ In(t, file) => file.status[t] # "pending"
        /\ Current.status[t] # "pending" \/ Away(t)
    BY <1>1, <2>1 DEF SendingInv, FileInv, FileOf
  <2>3. P.status[t] # "pending" \/ Away(t)'
    BY <1>9, <2>1, <2>2
  <2>4. In(t, file') => file'.status[t] # "pending"
    BY <1>5, <1>6, <1>9, <2>1, <2>2
  <2> QED
    BY <2>3, <2>4
<1>15. CleanInv'
  <2> SUFFICES ASSUME NEW t \in Task, causes'[t] = {}
               PROVE  /\ \A v, w \in Worker : InFlight(v, t)' /\ InFlight(w, t)' => v = w
                      /\ \A w \in Worker : InFlight(w, t)' =>
                            /\ worker'[w].pc # "settle" \/ worker'[w].result = "failed"
                                 => cards'[t] + comments'[t] = 0
                            /\ ~worker'[w].cancelled => Walks(w)' = shown'
                      /\ cards'[t] + comments'[t] <= 1
                      /\ Taken(t)' => /\ In(t, file') => file'.status[t] \in TakenUp
                                      /\ Current'.status[t] \in TakenUp \/ Away(t)'
                      /\ \A w \in Worker : Busy(w)' /\ ~worker'[w].cancelled /\ Walks(w)' # shown'
                                             => Its(w)'.status[t] \in Done
    BY DEF CleanInv, CleanOf
  <2>0. /\ causes[t] = {} /\ Current.status[t] \in {"pending", P.status[t]}
        /\ shown \in Walked => Current.status[t] \in Done
    BY <1>7
  <2>1. /\ \A v, w \in Worker : InFlight(v, t) /\ InFlight(w, t) => v = w
        /\ \A w \in Worker : InFlight(w, t) =>
              /\ worker[w].pc # "settle" \/ worker[w].result = "failed" => cards[t] + comments[t] = 0
              /\ ~worker[w].cancelled => Walks(w) = shown
        /\ cards[t] + comments[t] <= 1
        /\ Taken(t) => /\ In(t, file) => file.status[t] \in TakenUp
                       /\ Current.status[t] \in TakenUp \/ Away(t)
        /\ \A w \in Worker : Busy(w) /\ ~worker[w].cancelled /\ Walks(w) # shown
                               => Its(w).status[t] \in Done
    BY <1>1, <2>0 DEF SendingInv, CleanInv, CleanOf
  <2>2. ASSUME NEW w \in Worker, InFlight(w, t), ~worker[w].cancelled PROVE FALSE
    <3>1. Walks(w) = shown /\ Busy(w) /\ Walks(w) \in Walked
      BY <1>3, <2>1, <2>2
    <3>2. Its(w).status[t] = "sending"
      BY <2>0, <2>2 DEF SendingInv, CommentInv, CommentOf
    <3> QED
      BY <1>0, <2>0, <3>1, <3>2 DEF Its, Done
  <2>3. P.status[t] \in TakenUp \/ Current.status[t] \notin TakenUp
    BY <2>0 DEF TakenUp
  <2>4. Taken(t) => P.status[t] \in TakenUp \/ Away(t)'
    BY <1>9, <2>1, <2>3
  <2>5. Taken(t) /\ In(t, file') => file'.status[t] \in TakenUp
    BY <1>5, <1>6, <1>9, <2>1, <2>3
  <2>6. ASSUME NEW w \in Worker, Busy(w), ~worker[w].cancelled PROVE Its(w).status[t] \in Done
    <3>1. Walks(w) \in Walked
      BY <1>3, <2>6
    <3> QED
      BY <1>0, <2>0, <2>1, <2>6, <3>1 DEF Its
  <2> QED
    BY <1>1, <1>3, <1>4, <2>1, <2>2, <2>4, <2>5, <2>6
<1>16. CommentInv'
  <2>0. \A s \in Slot : Live(s)' <=> s = k \/ \E w \in Worker : Busy(w) /\ Walks(w) = s
    BY <1>1, <1>3 DEF Live
  <2> SUFFICES ASSUME NEW t \in Task
               PROVE  /\ \A u \in ToSet(undo') : u.dup[t] = "none" <=> P.dup[t] = "none"
                      /\ causes'[t] \cap {"undone", "raced"} = {} =>
                        /\ \A r, s \in Slot : /\ r # s /\ Live(r)' /\ Live(s)'
                                              /\ lists'[r].dup[t] # "none" /\ lists'[s].dup[t] # "none"
                                              => lists'[r].status[t] \in Done \/ lists'[s].status[t] \in Done
                        /\ \A w \in Worker : InFlight(w, t)' => Its(w)'.status[t] = "sending"
                        /\ \A v, w \in Worker : InFlight(v, t)' /\ InFlight(w, t)' /\ Walks(v)' = Walks(w)' => v = w
                        /\ \A w \in Worker : InFlight(w, t)' /\ worker'[w].pc \in {"look", "comment"}
                                               => Its(w)'.dup[t] # "none"
                        /\ \A w \in Worker : InFlight(w, t)' /\ worker'[w].pc = "comment" => comments'[t] = 0
                        /\ comments'[t] <= 1
    BY <1>4 DEF CommentInv, CommentOf
  <2>1. \A u \in ToSet(undo) : u.dup[t] = "none" <=> Current.dup[t] = "none"
    BY DEF SendingInv, CommentInv, CommentOf
  <2>2. \A u \in ToSet(undo') : u.dup[t] = "none" <=> P.dup[t] = "none"
    BY <1>2, <2>1
  <2> SUFFICES ASSUME causes'[t] \cap {"undone", "raced"} = {}
               PROVE  /\ \A r, s \in Slot : /\ r # s /\ Live(r)' /\ Live(s)'
                                            /\ lists'[r].dup[t] # "none" /\ lists'[s].dup[t] # "none"
                                            => lists'[r].status[t] \in Done \/ lists'[s].status[t] \in Done
                      /\ \A w \in Worker : InFlight(w, t)' => Its(w)'.status[t] = "sending"
                      /\ \A v, w \in Worker : InFlight(v, t)' /\ InFlight(w, t)' /\ Walks(v)' = Walks(w)' => v = w
                      /\ \A w \in Worker : InFlight(w, t)' /\ worker'[w].pc \in {"look", "comment"}
                                             => Its(w)'.dup[t] # "none"
                      /\ \A w \in Worker : InFlight(w, t)' /\ worker'[w].pc = "comment" => comments'[t] = 0
                      /\ comments'[t] <= 1
    BY <2>2
  <2>3. /\ causes[t] \cap {"undone", "raced"} = {} /\ Current.status[t] \in {"pending", P.status[t]}
        /\ shown \in Walked => Current.status[t] \in Done
    BY <1>7
  <2>4. /\ \A r, s \in Slot : /\ r # s /\ Live(r) /\ Live(s)
                              /\ lists[r].dup[t] # "none" /\ lists[s].dup[t] # "none"
                              => lists[r].status[t] \in Done \/ lists[s].status[t] \in Done
        /\ \A w \in Worker : InFlight(w, t) => Its(w).status[t] = "sending"
        /\ \A v, w \in Worker : InFlight(v, t) /\ InFlight(w, t) /\ Walks(v) = Walks(w) => v = w
        /\ \A w \in Worker : InFlight(w, t) /\ worker[w].pc \in {"look", "comment"}
                               => Its(w).dup[t] # "none"
        /\ \A w \in Worker : InFlight(w, t) /\ worker[w].pc = "comment" => comments[t] = 0
        /\ comments[t] <= 1
    BY <2>3 DEF SendingInv, CommentInv, CommentOf
  <2>5. ASSUME NEW w \in Worker, Busy(w), P.dup[t] # "none", lists[Walks(w)].dup[t] # "none"
        PROVE  P.status[t] \in Done \/ lists[Walks(w)].status[t] \in Done
    <3>1. Walks(w) \in Slot /\ Walks(w) \in Walked
      BY <1>3, <2>5
    <3>2. CASE Walks(w) = shown
      BY <1>0, <2>3, <3>1, <3>2
    <3>3. CASE Walks(w) # shown
      <4>1. Live(shown) /\ Live(Walks(w)) /\ Current.dup[t] # "none"
        BY <1>1, <1>2, <2>1, <2>5 DEF Live
      <4>2. Current.status[t] \in Done \/ lists[Walks(w)].status[t] \in Done
        BY <1>0, <2>4, <2>5, <3>1, <3>3, <4>1
      <4> QED
        BY <2>3, <4>2 DEF Done
    <3> QED
      BY <3>2, <3>3
  <2>6. ASSUME NEW r \in Slot, NEW s \in Slot, r # s, Live(r)', Live(s)',
               lists'[r].dup[t] # "none", lists'[s].dup[t] # "none"
        PROVE  lists'[r].status[t] \in Done \/ lists'[s].status[t] \in Done
    <3>1. CASE r = k
      <4>1. PICK w \in Worker : Busy(w) /\ Walks(w) = s
        BY <2>0, <2>6, <3>1
      <4> QED
        BY <1>3, <2>5, <2>6, <3>1, <4>1
    <3>2. CASE s = k
      <4>1. PICK w \in Worker : Busy(w) /\ Walks(w) = r
        BY <2>0, <2>6, <3>2
      <4> QED
        BY <1>3, <2>5, <2>6, <3>2, <4>1
    <3>3. CASE r # k /\ s # k
      <4>1. PICK v \in Worker : Busy(v) /\ Walks(v) = r
        BY <2>0, <2>6, <3>3
      <4>2. PICK w \in Worker : Busy(w) /\ Walks(w) = s
        BY <2>0, <2>6, <3>3
      <4>3. Live(r) /\ Live(s)
        BY <4>1, <4>2 DEF Live
      <4>4. lists'[r] = lists[r] /\ lists'[s] = lists[s]
        BY <1>3, <4>1, <4>2
      <4> QED
        BY <2>4, <2>6, <4>3, <4>4
    <3> QED
      BY <3>1, <3>2, <3>3
  <2>7. comments' = comments /\ worker' = worker
    BY <1>1
  <2> QED
    BY <1>3, <2>4, <2>6, <2>7
<1> QED
  BY <1>10, <1>11, <1>12, <1>13, <1>14, <1>15, <1>16 DEF SendingInv

(* Closing the dialog: every thread is cancelled. *)
LEMMA CloseStep ==
    ASSUME SendingInv, NEW o \in Outcome, Close(o)
    PROVE  SendingInv'
<1>0. /\ lists \in [Slot -> List] /\ shown \in Slot /\ Current = lists[shown] /\ Current \in List
      /\ worker \in [Worker -> Thread] /\ file \in Saved /\ trouble \in 0..MaxTrouble
      /\ causes \in [Task -> SUBSET Cause]
  BY DEF SendingInv, TypeOK, Current
<1>1. /\ open /\ Save(Current, o) /\ lists' = Place(Empty, FreeSlot)
      /\ worker' = [w \in Worker |-> IF worker[w].pc = "idle" THEN worker[w]
                                     ELSE [worker[w] EXCEPT !.cancelled = TRUE]]
      /\ open' = FALSE /\ busy' = FALSE /\ frozen' = FALSE /\ posted' = {} /\ undo' = <<>>
      /\ UNCHANGED <<shown, known, cards, comments, causes>>
  BY DEF Close, Gone, tracker
<1>2. /\ trouble' \in 0..MaxTrouble /\ file' \in {file, ToFile(Current)} /\ file' \in Saved
      /\ \A t \in Task : In(t, ToFile(Current)) <=> In(t, Current)
      /\ \A t \in Task : In(t, Current) => ToFile(Current).status[t] = Current.status[t]
      /\ ToFile(Current).rows = Current.rows
  BY <1>0, <1>1, SaveEffect, ToFileTyped DEF SendingInv
<1>3. ASSUME NEW w \in Worker
      PROVE  /\ worker'[w] \in Thread
             /\ worker'[w].pc = worker[w].pc /\ worker'[w].slot = worker[w].slot
             /\ worker'[w].task = worker[w].task /\ worker'[w].result = worker[w].result
             /\ Busy(w) => worker'[w].cancelled
  <2>1. worker[w] \in Thread
    BY <1>0
  <2>2. CASE worker[w].pc = "idle"
    BY <1>1, <2>1, <2>2 DEF Busy
  <2>3. CASE worker[w].pc # "idle"
    <3>1. worker'[w] = [worker[w] EXCEPT !.cancelled = TRUE]
      BY <1>1, <2>3
    <3> QED
      BY <2>1, <3>1 DEF Thread
  <2> QED
    BY <2>2, <2>3
<1>4. SameThreads /\ worker' \in [Worker -> Thread]
  <2>1. SameThreads
    BY <1>3 DEF SameThreads
  <2>2. worker' = [w \in Worker |-> worker'[w]]
    BY <1>1
  <2> QED
    BY <1>3, <2>1, <2>2
<1>5. /\ FreeSlot \in Slot /\ lists' \in [Slot -> List] /\ lists'[FreeSlot] = Empty
      /\ \A s \in Slot : s # FreeSlot => lists'[s] \in {lists[s], Empty}
      /\ \A w \in Worker : /\ Busy(w)' <=> Busy(w)
                           /\ Walks(w)' = Walks(w) /\ Walks(w) \in Slot
                           /\ \A t \in Task : InFlight(w, t)' <=> InFlight(w, t)
                           /\ \A t \in Task : InFlight(w, t) => Busy(w)
                           /\ Busy(w) => /\ Walks(w) # FreeSlot /\ Its(w)' = Its(w)
                                         /\ Walks(w) \in Walked
                                         /\ lists'[Walks(w)] = lists[Walks(w)]
      /\ \A t \in Task : Taken(t)' <=> Taken(t)
  BY <1>1, <1>4, WalkedKept, EmptyTyped DEF SendingInv
<1>6. TypeOK'
  <2>1. <<>> \in Seq(List) /\ Len(<<>>) <= UndoDepth
    BY SendingAssumption
  <2> QED
    BY <1>1, <1>2, <1>4, <1>5, <2>1 DEF SendingInv, TypeOK
<1>7. ThreadInv'
  <2>1. \A w \in Worker : Busy(w)' => worker'[w].cancelled
    BY <1>3, <1>5
  <2>2. \A w \in Worker : /\ worker'[w].pc \in Flight \cup {"mark"} => worker'[w].task \in Task
                          /\ worker'[w].pc = "settle" => worker'[w].result \in {"failed", "sent", "commented"}
    BY <1>3 DEF SendingInv, ThreadInv
  <2> QED
    BY <1>1, <2>1, <2>2 DEF ThreadInv
<1>8. KnownInv'
  <2>1. /\ \A s \in Slot : ToSet(lists[s].rows) \subseteq known
        /\ ToSet(file.rows) \subseteq known
        /\ \A w \in Worker : worker[w].pc \in Flight \cup {"mark"} => worker[w].task \in known
        /\ \A t \in Task : cards[t] + comments[t] > 0 => t \in known
    BY DEF SendingInv, KnownInv
  <2>2. \A s \in Slot : ToSet(lists'[s].rows) \subseteq known
    BY <1>5, <2>1, EmptyTyped
  <2>3. ToSet(file'.rows) \subseteq known
    BY <1>0, <1>2, <2>1
  <2>4. \A w \in Worker : worker'[w].pc \in Flight \cup {"mark"} => worker'[w].task \in known
    BY <1>3, <2>1
  <2>5. \A u \in ToSet(undo') : ToSet(u.rows) \subseteq known
    BY <1>1 DEF ToSet
  <2> QED
    BY <1>1, <2>1, <2>2, <2>3, <2>4, <2>5 DEF KnownInv
<1>9. AheadInv'
  BY <1>1 DEF AheadInv, AheadOf
<1>10. FileInv'
  <2> SUFFICES ASSUME NEW t \in Task, Taken(t), causes[t] \cap {"unsaved", "undone"} = {}, In(t, file')
               PROVE  file'.status[t] # "pending"
    BY <1>1, <1>5 DEF FileInv, FileOf
  <2>1. /\ In(t, file) => file.status[t] # "pending"
        /\ Current.status[t] # "pending" \/ Away(t)
    BY <1>1 DEF SendingInv, FileInv, FileOf
  <2> QED
    BY <1>2, <2>1 DEF Away
<1>11. CleanInv'
  <2> SUFFICES ASSUME NEW t \in Task, causes[t] = {}
               PROVE  /\ \A v, w \in Worker : InFlight(v, t)' /\ InFlight(w, t)' => v = w
                      /\ \A w \in Worker : InFlight(w, t)' =>
                            /\ worker'[w].pc # "settle" \/ worker'[w].result = "failed"
                                 => cards'[t] + comments'[t] = 0
                            /\ ~worker'[w].cancelled => Walks(w)' = shown'
                      /\ cards'[t] + comments'[t] <= 1
                      /\ Taken(t)' => /\ In(t, file') => file'.status[t] \in TakenUp
                                      /\ open' => Current'.status[t] \in TakenUp \/ Away(t)'
                      /\ \A w \in Worker : Busy(w)' /\ ~worker'[w].cancelled /\ Walks(w)' # shown'
                                             => Its(w)'.status[t] \in Done
    BY <1>1 DEF CleanInv, CleanOf
  <2>1. /\ \A v, w \in Worker : InFlight(v, t) /\ InFlight(w, t) => v = w
        /\ \A w \in Worker : InFlight(w, t) =>
              /\ worker[w].pc # "settle" \/ worker[w].result = "failed" => cards[t] + comments[t] = 0
              /\ ~worker[w].cancelled => Walks(w) = shown
        /\ cards[t] + comments[t] <= 1
        /\ Taken(t) => /\ In(t, file) => file.status[t] \in TakenUp
                       /\ open => Current.status[t] \in TakenUp \/ Away(t)
        /\ \A w \in Worker : Busy(w) /\ ~worker[w].cancelled /\ Walks(w) # shown
                               => Its(w).status[t] \in Done
    BY DEF SendingInv, CleanInv, CleanOf
  <2>2. Taken(t) /\ In(t, file') => file'.status[t] \in TakenUp
    BY <1>1, <1>2, <2>1 DEF Away
  <2> QED
    BY <1>1, <1>3, <1>5, <2>1, <2>2
<1>12. CommentInv'
  <2>0. \A s \in Slot : Live(s)' => Live(s) /\ lists'[s] = lists[s]
    BY <1>1, <1>5 DEF Live
  <2>1. \A t \in Task : \A u \in ToSet(undo') : u.dup[t] = "none" <=> Current'.dup[t] = "none"
    BY <1>1 DEF ToSet
  <2> SUFFICES ASSUME NEW t \in Task, causes[t] \cap {"undone", "raced"} = {}
               PROVE  /\ \A r, s \in Slot : /\ r # s /\ Live(r)' /\ Live(s)'
                                            /\ lists'[r].dup[t] # "none" /\ lists'[s].dup[t] # "none"
                                            => lists'[r].status[t] \in Done \/ lists'[s].status[t] \in Done
                      /\ \A w \in Worker : InFlight(w, t)' => Its(w)'.status[t] = "sending"
                      /\ \A v, w \in Worker : InFlight(v, t)' /\ InFlight(w, t)' /\ Walks(v)' = Walks(w)' => v = w
                      /\ \A w \in Worker : InFlight(w, t)' /\ worker'[w].pc \in {"look", "comment"}
                                             => Its(w)'.dup[t] # "none"
                      /\ \A w \in Worker : InFlight(w, t)' /\ worker'[w].pc = "comment" => comments'[t] = 0
                      /\ comments'[t] <= 1
    BY <1>1, <2>1 DEF CommentInv, CommentOf
  <2>2. /\ \A r, s \in Slot : /\ r # s /\ Live(r) /\ Live(s)
                              /\ lists[r].dup[t] # "none" /\ lists[s].dup[t] # "none"
                              => lists[r].status[t] \in Done \/ lists[s].status[t] \in Done
        /\ \A w \in Worker : InFlight(w, t) => Its(w).status[t] = "sending"
        /\ \A v, w \in Worker : InFlight(v, t) /\ InFlight(w, t) /\ Walks(v) = Walks(w) => v = w
        /\ \A w \in Worker : InFlight(w, t) /\ worker[w].pc \in {"look", "comment"}
                               => Its(w).dup[t] # "none"
        /\ \A w \in Worker : InFlight(w, t) /\ worker[w].pc = "comment" => comments[t] = 0
        /\ comments[t] <= 1
    BY DEF SendingInv, CommentInv, CommentOf
  <2>3. \A r, s \in Slot : /\ r # s /\ Live(r)' /\ Live(s)'
                           /\ lists'[r].dup[t] # "none" /\ lists'[s].dup[t] # "none"
                           => lists'[r].status[t] \in Done \/ lists'[s].status[t] \in Done
    BY <2>0, <2>2
  <2> QED
    BY <1>1, <1>3, <1>5, <2>2, <2>3
<1> QED
  BY <1>6, <1>7, <1>8, <1>9, <1>10, <1>11, <1>12 DEF SendingInv

(* Opening it: a thread that still runs is one of a dialog that was closed,
   and a list from the file has no comments to make. *)
LEMMA OpenStep ==
    ASSUME SendingInv, Open
    PROVE  SendingInv'
<1> DEFINE L == FromFile(file)
<1>0. /\ lists \in [Slot -> List] /\ shown \in Slot
      /\ worker \in [Worker -> Thread] /\ file \in Saved /\ trouble \in 0..MaxTrouble
  BY DEF SendingInv, TypeOK
<1>1. /\ ~open /\ open' = TRUE /\ trouble' = trouble + 1 /\ trouble' <= MaxTrouble
      /\ shown' = FreeSlot /\ lists' = Place(L, FreeSlot) /\ frozen' = FALSE
      /\ UNCHANGED <<undo, known, file, worker, busy, posted, cards, comments, causes>>
  BY DEF Open, tracker, Refresh
<1>2. L \in List /\ L.rows = file.rows /\ L.status = file.status /\ \A t \in Task : L.dup[t] = "none"
  BY <1>0, FromFileTyped
<1> HIDE DEF L
<1>3. /\ FreeSlot \in Slot /\ lists' \in [Slot -> List] /\ lists'[FreeSlot] = L
      /\ \A s \in Slot : s # FreeSlot => lists'[s] \in {lists[s], Empty}
      /\ \A w \in Worker : /\ Busy(w)' <=> Busy(w)
                           /\ Walks(w)' = Walks(w) /\ Walks(w) \in Slot
                           /\ \A t \in Task : InFlight(w, t)' <=> InFlight(w, t)
                           /\ \A t \in Task : InFlight(w, t) => Busy(w)
                           /\ Busy(w) => /\ Walks(w) # FreeSlot /\ Its(w)' = Its(w)
                                         /\ Walks(w) \in Walked
                                         /\ lists'[Walks(w)] = lists[Walks(w)]
      /\ \A t \in Task : Taken(t)' <=> Taken(t)
  <2>1. SameThreads
    BY <1>1 DEF SameThreads
  <2> QED
    BY <1>1, <1>2, <2>1, WalkedKept DEF SendingInv
<1>4. Current' = L /\ undo = <<>>
  BY <1>1, <1>3 DEF Current, SendingInv, KnownInv
<1>5. \A w \in Worker : Busy(w) => worker[w].cancelled
  BY <1>1 DEF SendingInv, ThreadInv
<1>6. \A t \in Task : ~In(t, file) => Away(t)'
  BY <1>1, <1>2, <1>4 DEF Away, In, ToSet
<1>7. TypeOK'
  <2>1. trouble' \in 0..MaxTrouble
    BY <1>0, <1>1, SendingAssumption
  <2> QED
    BY <1>1, <1>3, <2>1 DEF SendingInv, TypeOK
<1>8. ThreadInv'
  <2>1. \A w \in Worker : /\ worker[w].pc \in Flight \cup {"mark"} => worker[w].task \in Task
                          /\ worker[w].pc = "settle" => worker[w].result \in {"failed", "sent", "commented"}
    BY DEF SendingInv, ThreadInv
  <2> QED
    BY <1>1, <1>3, <1>5, <2>1 DEF ThreadInv
<1>9. KnownInv'
  <2>1. /\ \A s \in Slot : ToSet(lists[s].rows) \subseteq known
        /\ \A u \in ToSet(undo) : ToSet(u.rows) \subseteq known
        /\ ToSet(file.rows) \subseteq known
        /\ \A w \in Worker : worker[w].pc \in Flight \cup {"mark"} => worker[w].task \in known
        /\ \A t \in Task : cards[t] + comments[t] > 0 => t \in known
    BY DEF SendingInv, KnownInv
  <2>2. \A s \in Slot : ToSet(lists'[s].rows) \subseteq known
    BY <1>2, <1>3, <2>1, EmptyTyped
  <2> QED
    BY <1>1, <2>1, <2>2 DEF KnownInv
<1>10. AheadInv'
  BY <1>1, <1>2, <1>4 DEF AheadInv, AheadOf
<1>11. FileInv'
  <2> SUFFICES ASSUME NEW t \in Task, Taken(t), causes[t] \cap {"unsaved", "undone"} = {}
               PROVE  /\ In(t, file) => file.status[t] # "pending"
                      /\ file.status[t] # "pending" \/ Away(t)'
    BY <1>1, <1>2, <1>3, <1>4 DEF FileInv, FileOf
  <2> QED
    BY <1>6 DEF SendingInv, FileInv, FileOf
<1>12. CleanInv'
  <2> SUFFICES ASSUME NEW t \in Task, causes[t] = {}
               PROVE  /\ \A v, w \in Worker : InFlight(v, t)' /\ InFlight(w, t)' => v = w
                      /\ \A w \in Worker : InFlight(w, t)' =>
                            /\ worker'[w].pc # "settle" \/ worker'[w].result = "failed"
                                 => cards'[t] + comments'[t] = 0
                            /\ ~worker'[w].cancelled => Walks(w)' = shown'
                      /\ cards'[t] + comments'[t] <= 1
                      /\ Taken(t)' => /\ In(t, file') => file'.status[t] \in TakenUp
                                      /\ open' => Current'.status[t] \in TakenUp \/ Away(t)'
                      /\ \A w \in Worker : Busy(w)' /\ ~worker'[w].cancelled /\ Walks(w)' # shown'
                                             => Its(w)'.status[t] \in Done
    BY <1>1 DEF CleanInv, CleanOf
  <2>1. /\ \A v, w \in Worker : InFlight(v, t) /\ InFlight(w, t) => v = w
        /\ \A w \in Worker : InFlight(w, t) =>
              /\ worker[w].pc # "settle" \/ worker[w].result = "failed" => cards[t] + comments[t] = 0
              /\ ~worker[w].cancelled => Walks(w) = shown
        /\ cards[t] + comments[t] <= 1
        /\ Taken(t) => /\ In(t, file) => file.status[t] \in TakenUp
                       /\ open => Current.status[t] \in TakenUp \/ Away(t)
        /\ \A w \in Worker : Busy(w) /\ ~worker[w].cancelled /\ Walks(w) # shown
                               => Its(w).status[t] \in Done
    BY DEF SendingInv, CleanInv, CleanOf
  <2>2. Taken(t) => file.status[t] \in TakenUp \/ Away(t)'
    BY <1>6, <2>1
  <2> QED
    BY <1>1, <1>2, <1>3, <1>4, <1>5, <2>1, <2>2
<1>13. CommentInv'
  <2>0. \A s \in Slot, t \in Task : Live(s)' /\ lists'[s].dup[t] # "none" => Live(s) /\ lists'[s] = lists[s]
    BY <1>1, <1>2, <1>3 DEF Live
  <2>1. \A t \in Task : \A u \in ToSet(undo') : u.dup[t] = "none" <=> Current'.dup[t] = "none"
    BY <1>1, <1>4 DEF ToSet
  <2> SUFFICES ASSUME NEW t \in Task, causes[t] \cap {"undone", "raced"} = {}
               PROVE  /\ \A r, s \in Slot : /\ r # s /\ Live(r)' /\ Live(s)'
                                            /\ lists'[r].dup[t] # "none" /\ lists'[s].dup[t] # "none"
                                            => lists'[r].status[t] \in Done \/ lists'[s].status[t] \in Done
                      /\ \A w \in Worker : InFlight(w, t)' => Its(w)'.status[t] = "sending"
                      /\ \A v, w \in Worker : InFlight(v, t)' /\ InFlight(w, t)' /\ Walks(v)' = Walks(w)' => v = w
                      /\ \A w \in Worker : InFlight(w, t)' /\ worker'[w].pc \in {"look", "comment"}
                                             => Its(w)'.dup[t] # "none"
                      /\ \A w \in Worker : InFlight(w, t)' /\ worker'[w].pc = "comment" => comments'[t] = 0
                      /\ comments'[t] <= 1
    BY <1>1, <2>1 DEF CommentInv, CommentOf
  <2>2. /\ \A r, s \in Slot : /\ r # s /\ Live(r) /\ Live(s)
                              /\ lists[r].dup[t] # "none" /\ lists[s].dup[t] # "none"
                              => lists[r].status[t] \in Done \/ lists[s].status[t] \in Done
        /\ \A w \in Worker : InFlight(w, t) => Its(w).status[t] = "sending"
        /\ \A v, w \in Worker : InFlight(v, t) /\ InFlight(w, t) /\ Walks(v) = Walks(w) => v = w
        /\ \A w \in Worker : InFlight(w, t) /\ worker[w].pc \in {"look", "comment"}
                               => Its(w).dup[t] # "none"
        /\ \A w \in Worker : InFlight(w, t) /\ worker[w].pc = "comment" => comments[t] = 0
        /\ comments[t] <= 1
    BY DEF SendingInv, CommentInv, CommentOf
  <2>3. \A r, s \in Slot : /\ r # s /\ Live(r)' /\ Live(s)'
                           /\ lists'[r].dup[t] # "none" /\ lists'[s].dup[t] # "none"
                           => lists'[r].status[t] \in Done \/ lists'[s].status[t] \in Done
    BY <2>0, <2>2
  <2>4. comments' = comments /\ worker' = worker
    BY <1>1
  <2> QED
    BY <1>3, <2>2, <2>3, <2>4
<1> QED
  BY <1>7, <1>8, <1>9, <1>10, <1>11, <1>12, <1>13 DEF SendingInv

(* The end of the application: no list, no thread. *)
LEMMA ExitStep ==
    ASSUME SendingInv, Exit
    PROVE  SendingInv'
<1>1. /\ lists' = [s \in Slot |-> Empty] /\ worker' = [w \in Worker |-> Idle]
      /\ open' = FALSE /\ busy' = FALSE /\ frozen' = FALSE /\ posted' = {} /\ undo' = <<>>
      /\ UNCHANGED <<shown, known, file, cards, comments, causes, trouble>>
  BY DEF Exit, Gone, tracker
<1>2. Idle \in Thread /\ Idle.pc = "idle"
  BY SendingAssumption, FS_CardinalityType DEF Idle, Thread, Status, Slot
<1>3. \A w \in Worker : ~Busy(w)' /\ worker'[w].pc \notin Flight \cup {"mark"} /\ \A t \in Task : ~InFlight(w, t)'
  BY <1>1, <1>2 DEF Busy, InFlight, Flight
<1>4. \A t \in Task : Taken(t)' => Taken(t)
  BY <1>1, <1>3 DEF Taken
<1>5. ToSet(undo') = {} /\ undo' \in Seq(List) /\ Len(undo') = 0
  BY <1>1 DEF ToSet
<1>6. TypeOK'
  <2>1. lists' \in [Slot -> List] /\ worker' \in [Worker -> Thread]
    BY <1>1, <1>2, EmptyTyped
  <2>2. Len(undo') <= UndoDepth
    BY <1>5, SendingAssumption
  <2> QED
    BY <1>1, <1>5, <2>1, <2>2 DEF SendingInv, TypeOK
<1>7. ThreadInv'
  <2>1. \A w \in Worker : worker'[w].pc # "settle"
    BY <1>3 DEF Flight
  <2> QED
    BY <1>3, <2>1 DEF ThreadInv
<1>8. KnownInv'
  BY <1>1, <1>3, <1>5, EmptyTyped DEF SendingInv, KnownInv
<1>9. AheadInv'
  BY <1>1 DEF AheadInv, AheadOf
<1>10. FileInv'
  BY <1>1, <1>4 DEF SendingInv, FileInv, FileOf
<1>11. CleanInv'
  BY <1>1, <1>3, <1>4 DEF SendingInv, CleanInv, CleanOf
<1>12. CommentInv'
  <2>1. \A s \in Slot : ~Live(s)'
    BY <1>1, <1>3 DEF Live
  <2> QED
    BY <1>1, <1>3, <1>5, <2>1 DEF SendingInv, CommentInv, CommentOf
<1> QED
  BY <1>6, <1>7, <1>8, <1>9, <1>10, <1>11, <1>12 DEF SendingInv

-----------------------------------------------------------------------------
(* Steps that change no list, no file and no count *)

Quiet ==
    /\ UNCHANGED <<lists, shown, undo, known, file, open, cards, comments, causes>>
    /\ \A w \in Worker : worker'[w] = worker[w] \/
          /\ worker[w].pc = "next" /\ worker'[w].pc \in {"next", "mark", "end"}
          /\ worker'[w].slot = worker[w].slot /\ worker'[w].cancelled = worker[w].cancelled
          /\ worker'[w].pc = "mark" => worker'[w].task \in Task \cap known

(* A step that changes no list, no file and no count keeps the invariant. *)
LEMMA QuietStep ==
    ASSUME SendingInv, TypeOK', Quiet
    PROVE  SendingInv'
<1>1. UNCHANGED <<lists, shown, undo, known, file, open, cards, comments, causes>>
  BY DEF Quiet
<1>2. \A w \in Worker : /\ Busy(w)' <=> Busy(w)
                        /\ Walks(w)' = Walks(w) /\ Its(w)' = Its(w)
                        /\ worker'[w].cancelled = worker[w].cancelled
                        /\ \A t \in Task : InFlight(w, t)' <=> InFlight(w, t)
                        /\ \A t \in Task : InFlight(w, t)' => worker'[w] = worker[w]
                        /\ worker'[w].pc \in Flight => worker'[w] = worker[w]
  BY <1>1 DEF Quiet, Busy, Walks, Its, InFlight, Flight
<1>3. \A t \in Task : Taken(t)' <=> Taken(t)
  BY <1>1, <1>2 DEF Taken
<1>4. Current' = Current /\ \A t \in Task : Away(t)' <=> Away(t)
  BY <1>1 DEF Current, Away
<1>5. ThreadInv'
  <2>1. \A w \in Worker : /\ worker'[w].pc \in Flight \cup {"mark"} => worker'[w].task \in Task
                          /\ worker'[w].pc = "settle" => worker'[w].result \in {"failed", "sent", "commented"}
    BY <1>2 DEF Quiet, SendingInv, ThreadInv, Flight
  <2> QED
    BY <1>1, <1>2, <2>1 DEF SendingInv, ThreadInv
<1>6. KnownInv'
  <2>1. \A w \in Worker : worker'[w].pc \in Flight \cup {"mark"} => worker'[w].task \in known
    BY <1>2 DEF Quiet, SendingInv, KnownInv
  <2> QED
    BY <1>1, <2>1 DEF SendingInv, KnownInv
<1>7. AheadInv' /\ FileInv'
  BY <1>1, <1>3, <1>4 DEF SendingInv, AheadInv, AheadOf, FileInv, FileOf
<1>8. CleanInv'
  BY <1>1, <1>2, <1>3, <1>4 DEF SendingInv, CleanInv, CleanOf
<1>9. CommentInv'
  <2>1. \A s \in Slot : Live(s)' <=> Live(s)
    BY <1>1, <1>2 DEF Live
  <2>2. \A t \in Task : \A u \in ToSet(undo') : u.dup[t] = "none" <=> Current'.dup[t] = "none"
    BY <1>1, <1>4 DEF SendingInv, CommentInv, CommentOf
  <2> SUFFICES ASSUME NEW t \in Task, causes[t] \cap {"undone", "raced"} = {}
               PROVE  /\ \A r, s \in Slot : /\ r # s /\ Live(r)' /\ Live(s)'
                                            /\ lists'[r].dup[t] # "none" /\ lists'[s].dup[t] # "none"
                                            => lists'[r].status[t] \in Done \/ lists'[s].status[t] \in Done
                      /\ \A w \in Worker : InFlight(w, t)' => Its(w)'.status[t] = "sending"
                      /\ \A v, w \in Worker : InFlight(v, t)' /\ InFlight(w, t)' /\ Walks(v)' = Walks(w)' => v = w
                      /\ \A w \in Worker : InFlight(w, t)' /\ worker'[w].pc \in {"look", "comment"}
                                             => Its(w)'.dup[t] # "none"
                      /\ \A w \in Worker : InFlight(w, t)' /\ worker'[w].pc = "comment" => comments'[t] = 0
                      /\ comments'[t] <= 1
    BY <1>1, <2>2 DEF CommentInv, CommentOf
  <2>3. /\ \A r, s \in Slot : /\ r # s /\ Live(r) /\ Live(s)
                              /\ lists[r].dup[t] # "none" /\ lists[s].dup[t] # "none"
                              => lists[r].status[t] \in Done \/ lists[s].status[t] \in Done
        /\ \A w \in Worker : InFlight(w, t) => Its(w).status[t] = "sending"
        /\ \A v, w \in Worker : InFlight(v, t) /\ InFlight(w, t) /\ Walks(v) = Walks(w) => v = w
        /\ \A w \in Worker : InFlight(w, t) /\ worker[w].pc \in {"look", "comment"}
                               => Its(w).dup[t] # "none"
        /\ \A w \in Worker : InFlight(w, t) /\ worker[w].pc = "comment" => comments[t] = 0
        /\ comments[t] <= 1
    BY DEF SendingInv, CommentInv, CommentOf
  <2> QED
    BY <1>1, <1>2, <2>1, <2>3
<1> QED
  BY <1>5, <1>6, <1>7, <1>8, <1>9 DEF SendingInv

(* Every position of a walk is one of the list or its end. *)
LEMMA PickStep ==
    ASSUME SendingInv, NEW w \in Worker, Pick(w)
    PROVE  SendingInv'
<1> DEFINE me == worker[w]
           t  == Its(w).rows[me.pos]
<1>0. /\ worker \in [Worker -> Thread] /\ me \in Thread /\ me.pc = "next"
      /\ lists \in [Slot -> List] /\ Its(w) \in List
      /\ UNCHANGED <<lists, shown, undo, known, file, open, busy, frozen, posted, cards, comments, causes, trouble>>
  BY DEF SendingInv, TypeOK, Pick, At, Its, Walks, Thread, dialog, screen, tracker
<1>1. PICK new \in Thread : /\ worker' = [worker EXCEPT ![w] = new]
                            /\ new.pc \in {"next", "mark", "end"}
                            /\ new.slot = me.slot /\ new.cancelled = me.cancelled
                            /\ new.pc = "mark" => new.task \in Task \cap known
  <2>1. CASE me.cancelled \/ me.pos > Len(Its(w).rows)
    <3>1. worker' = [worker EXCEPT ![w] = [me EXCEPT !.pc = "end"]]
      BY <1>0, <2>1 DEF Pick, Goto
    <3> DEFINE new == [me EXCEPT !.pc = "end"]
    <3>2. new \in Thread /\ new.pc = "end" /\ new.slot = me.slot /\ new.cancelled = me.cancelled
      BY <1>0 DEF Thread
    <3> QED
      BY <3>1, <3>2
  <2>2. CASE ~(me.cancelled \/ me.pos > Len(Its(w).rows))
    <3>1. t \in Task \cap known
      <4>1. Its(w).rows \in Seq(Task) /\ me.pos \in Nat \ {0}
        BY <1>0 DEF List, Thread
      <4>2. me.pos \in 1..Len(Its(w).rows)
        BY <2>2, <4>1
      <4>3. Walks(w) \in Slot
        BY <1>0 DEF Walks, Thread
      <4> QED
        BY <4>1, <4>2, <4>3 DEF SendingInv, KnownInv, ToSet, Its
    <3>2. PICK selected \in BOOLEAN :
             worker' = [worker EXCEPT ![w] =
                          IF selected /\ ShouldSend(Its(w), t, me.retry)
                          THEN [me EXCEPT !.pc = "mark", !.task = t, !.pos = @ + 1]
                          ELSE [me EXCEPT !.pos = @ + 1]]
      BY <2>2 DEF Pick
    <3> DEFINE chosen == [me EXCEPT !.pc = "mark", !.task = t, !.pos = @ + 1]
               passed == [me EXCEPT !.pos = @ + 1]
    <3>3. me.pos + 1 \in Nat \ {0}
      BY <1>0 DEF Thread
    <3> HIDE DEF t
    <3>4. chosen \in Thread /\ chosen.pc = "mark" /\ chosen.task = t
          /\ chosen.slot = me.slot /\ chosen.cancelled = me.cancelled
      BY <1>0, <3>1, <3>3 DEF Thread
    <3>5. passed \in Thread /\ passed.pc = "next" /\ passed.slot = me.slot /\ passed.cancelled = me.cancelled
      BY <1>0, <3>3 DEF Thread
    <3> HIDE DEF chosen, passed
    <3>6. worker' \in {[worker EXCEPT ![w] = chosen], [worker EXCEPT ![w] = passed]}
      BY <3>2 DEF chosen, passed
    <3> QED
      BY <3>1, <3>4, <3>5, <3>6
  <2> QED
    BY <2>1, <2>2
<1>2. worker' \in [Worker -> Thread] /\ \A v \in Worker : v # w => worker'[v] = worker[v]
  BY <1>0, <1>1
<1>3. worker'[w] = new
  BY <1>0, <1>1
<1>4. TypeOK'
  BY <1>0, <1>2 DEF SendingInv, TypeOK
<1>5. Quiet
  BY <1>0, <1>1, <1>2, <1>3 DEF Quiet
<1> QED
  BY <1>4, <1>5, QuietStep

(* A callback in Tk's queue keeps the invariant. *)
LEMMA CallbackStep ==
    ASSUME SendingInv, Callback \/ UNCHANGED vars
    PROVE  SendingInv'
<1>1. UNCHANGED <<lists, shown, undo, known, file, open, worker, cards, comments, causes, trouble>>
      /\ busy' \in BOOLEAN /\ frozen' \in BOOLEAN /\ posted' \subseteq {"row", "finished"}
  BY DEF Callback, RowCallback, FinishedCallback, Refresh, SendingInv, TypeOK, vars, dialog, screen, tracker
<1>2. TypeOK'
  BY <1>1 DEF SendingInv, TypeOK
<1>3. Quiet
  BY <1>1 DEF Quiet
<1> QED
  BY <1>2, <1>3, QuietStep

-----------------------------------------------------------------------------
(* The requests of a thread: the task was taken before, and is. *)

Asked(w, t) ==
    /\ UNCHANGED <<lists, shown, undo, known, file, open>>
    /\ \A v \in Worker : v # w => worker'[v] = worker[v]
    /\ worker[w].task = t /\ worker'[w].task = t
    /\ worker'[w].slot = worker[w].slot /\ worker'[w].cancelled = worker[w].cancelled
    /\ worker[w].pc \in {"create", "look", "comment"}
    /\ \/ /\ worker'[w].pc = "comment" /\ worker[w].pc = "look"
          /\ comments[t] = 0 /\ UNCHANGED <<cards, comments, causes>>
       \/ /\ worker'[w].pc = "settle" /\ worker'[w].result \in {"failed", "sent", "commented"}
          /\ \A u \in Task : u # t => /\ cards'[u] = cards[u] /\ comments'[u] = comments[u]
                                      /\ causes'[u] = causes[u]
          /\ causes'[t] \in {causes[t], causes[t] \cup {"lost"}}
          /\ \/ cards'[t] = cards[t] /\ comments'[t] = comments[t]
             \/ /\ cards'[t] + comments'[t] = cards[t] + comments[t] + 1
                /\ "lost" \in causes'[t] \/ worker'[w].result # "failed"
          /\ comments'[t] = comments[t] \/ (worker[w].pc = "comment" /\ comments'[t] = comments[t] + 1)

(* An answer takes its thread to "settle", and no other anywhere. *)
LEMMA AnswerTyped ==
    ASSUME TypeOK, NEW w \in Worker, NEW result \in Status, Answer(w, result)
    PROVE  /\ worker' \in [Worker -> Thread] /\ \A v \in Worker : v # w => worker'[v] = worker[v]
           /\ worker'[w].pc = "settle" /\ worker'[w].result = result
           /\ worker'[w].task = worker[w].task
           /\ worker'[w].slot = worker[w].slot /\ worker'[w].cancelled = worker[w].cancelled
<1> DEFINE new == [worker[w] EXCEPT !.pc = "settle", !.result = result]
<1>1. worker \in [Worker -> Thread] /\ worker[w] \in Thread
  BY DEF TypeOK
<1>2. /\ new \in Thread /\ new.pc = "settle" /\ new.result = result /\ new.task = worker[w].task
      /\ new.slot = worker[w].slot /\ new.cancelled = worker[w].cancelled
  BY <1>1 DEF Thread
<1>3. worker' = [worker EXCEPT ![w] = new]
  BY <1>1 DEF Answer
<1> HIDE DEF new
<1>4. worker' \in [Worker -> Thread] /\ worker'[w] = new /\ \A v \in Worker : v # w => worker'[v] = worker[v]
  BY <1>1, <1>2, <1>3
<1> QED
  BY <1>2, <1>4

(* A request that writes, for the counter it may raise *)
LEMMA RequestEffect ==
    ASSUME TypeOK, NEW w \in Worker, worker[w].task \in Task,
           NEW result \in {"sent", "commented"},
           \/ Request(w, cards, result) /\ UNCHANGED comments
           \/ Request(w, comments, result) /\ UNCHANGED cards /\ worker[w].pc = "comment"
    PROVE  LET t == worker[w].task IN
           /\ worker' \in [Worker -> Thread] /\ \A v \in Worker : v # w => worker'[v] = worker[v]
           /\ worker'[w].pc = "settle" /\ worker'[w].result \in {"failed", "sent", "commented"}
           /\ worker'[w].task = t
           /\ worker'[w].slot = worker[w].slot /\ worker'[w].cancelled = worker[w].cancelled
           /\ cards' \in [Task -> Nat] /\ comments' \in [Task -> Nat]
           /\ causes' \in [Task -> SUBSET Cause] /\ trouble' \in 0..MaxTrouble
           /\ \A u \in Task : u # t => /\ cards'[u] = cards[u] /\ comments'[u] = comments[u]
                                       /\ causes'[u] = causes[u]
           /\ causes'[t] \in {causes[t], causes[t] \cup {"lost"}}
           /\ \/ cards'[t] = cards[t] /\ comments'[t] = comments[t]
              \/ /\ cards'[t] + comments'[t] = cards[t] + comments[t] + 1
                 /\ "lost" \in causes'[t] \/ worker'[w].result # "failed"
           /\ comments'[t] = comments[t] \/ (worker[w].pc = "comment" /\ comments'[t] = comments[t] + 1)
<1> DEFINE t == worker[w].task
<1>0. /\ cards \in [Task -> Nat] /\ comments \in [Task -> Nat] /\ causes \in [Task -> SUBSET Cause]
      /\ trouble \in 0..MaxTrouble /\ t \in Task
  BY DEF TypeOK
<1>1. \/ /\ Answer(w, "failed") /\ UNCHANGED <<cards, comments, causes, trouble>>
      \/ \E r \in {"failed", result} :
           /\ Answer(w, r)
           /\ \/ cards' = [cards EXCEPT ![t] = @ + 1] /\ comments' = comments
              \/ cards' = cards /\ comments' = [comments EXCEPT ![t] = @ + 1] /\ worker[w].pc = "comment"
           /\ \/ r # "failed" /\ UNCHANGED <<causes, trouble>>
              \/ /\ causes' = Because({t}, "lost")
                 /\ trouble' = trouble + 1 /\ trouble' <= MaxTrouble
  BY DEF Request
<1>2. CASE Answer(w, "failed") /\ UNCHANGED <<cards, comments, causes, trouble>>
  BY <1>0, <1>2, AnswerTyped DEF Status
<1>3. ASSUME NEW r \in {"failed", result}, Answer(w, r),
             \/ cards' = [cards EXCEPT ![t] = @ + 1] /\ comments' = comments
             \/ cards' = cards /\ comments' = [comments EXCEPT ![t] = @ + 1] /\ worker[w].pc = "comment",
             \/ r # "failed" /\ UNCHANGED <<causes, trouble>>
             \/ /\ causes' = Because({t}, "lost")
                /\ trouble' = trouble + 1 /\ trouble' <= MaxTrouble
      PROVE  /\ r \in Status /\ r \in {"failed", "sent", "commented"}
             /\ cards' \in [Task -> Nat] /\ comments' \in [Task -> Nat]
             /\ causes' \in [Task -> SUBSET Cause] /\ trouble' \in 0..MaxTrouble
             /\ \A u \in Task : u # t => /\ cards'[u] = cards[u] /\ comments'[u] = comments[u]
                                         /\ causes'[u] = causes[u]
             /\ causes'[t] \in {causes[t], causes[t] \cup {"lost"}}
             /\ cards'[t] + comments'[t] = cards[t] + comments[t] + 1
             /\ "lost" \in causes'[t] \/ r # "failed"
             /\ comments'[t] = comments[t] \/ (worker[w].pc = "comment" /\ comments'[t] = comments[t] + 1)
  <2>1. r \in Status /\ r \in {"failed", "sent", "commented"}
    BY DEF Status
  <2> HIDE DEF t
  <2>2. /\ cards' \in [Task -> Nat] /\ comments' \in [Task -> Nat]
        /\ \A u \in Task : u # t => cards'[u] = cards[u] /\ comments'[u] = comments[u]
        /\ cards'[t] + comments'[t] = cards[t] + comments[t] + 1
        /\ comments'[t] = comments[t] \/ (worker[w].pc = "comment" /\ comments'[t] = comments[t] + 1)
    BY <1>0, <1>3
  <2>3. /\ causes' \in [Task -> SUBSET Cause] /\ trouble' \in 0..MaxTrouble
        /\ \A u \in Task : u # t => causes'[u] = causes[u]
        /\ causes'[t] \in {causes[t], causes[t] \cup {"lost"}}
        /\ "lost" \in causes'[t] \/ r # "failed"
    <3>1. CASE r # "failed" /\ UNCHANGED <<causes, trouble>>
      BY <1>0, <3>1
    <3>2. CASE causes' = Because({t}, "lost") /\ trouble' = trouble + 1 /\ trouble' <= MaxTrouble
      <4>1. trouble' \in 0..MaxTrouble
        BY <1>0, <3>2, SendingAssumption
      <4> QED
        BY <1>0, <3>2, <4>1 DEF Because, Cause
    <3> QED
      BY <1>3, <3>1, <3>2
  <2> QED
    BY <2>1, <2>2, <2>3
<1> QED
  BY <1>1, <1>2, <1>3, AnswerTyped

(* A request keeps the invariant, carried out or not, answered or not. *)
LEMMA AskedStep ==
    ASSUME SendingInv, TypeOK', NEW w \in Worker, NEW t \in Task, Asked(w, t)
    PROVE  SendingInv'
<1>0. /\ worker \in [Worker -> Thread] /\ cards \in [Task -> Nat] /\ comments \in [Task -> Nat]
      /\ cards' \in [Task -> Nat] /\ comments' \in [Task -> Nat] /\ lists \in [Slot -> List]
  BY DEF SendingInv, TypeOK
<1>1. /\ UNCHANGED <<lists, shown, undo, known, file, open>>
      /\ \A v \in Worker : v # w => worker'[v] = worker[v]
      /\ worker[w].task = t /\ worker'[w].task = t
      /\ worker'[w].slot = worker[w].slot /\ worker'[w].cancelled = worker[w].cancelled
      /\ worker[w].pc \in {"create", "look", "comment"} /\ worker'[w].pc \in {"comment", "settle"}
      /\ worker'[w].pc = "settle" => worker'[w].result \in {"failed", "sent", "commented"}
      /\ worker'[w].pc = "comment" => /\ worker[w].pc = "look" /\ comments[t] = 0
                                      /\ UNCHANGED <<cards, comments, causes>>
      /\ \A u \in Task : u # t => /\ cards'[u] = cards[u] /\ comments'[u] = comments[u]
                                  /\ causes'[u] = causes[u]
      /\ causes'[t] \in {causes[t], causes[t] \cup {"lost"}}
      /\ \/ cards'[t] = cards[t] /\ comments'[t] = comments[t]
         \/ /\ cards'[t] + comments'[t] = cards[t] + comments[t] + 1
            /\ worker'[w].pc = "settle" /\ ("lost" \in causes'[t] \/ worker'[w].result # "failed")
      /\ comments'[t] = comments[t] \/ (worker[w].pc = "comment" /\ comments'[t] = comments[t] + 1)
  BY DEF Asked
<1>2. \A v \in Worker : /\ Busy(v)' <=> Busy(v)
                        /\ Walks(v)' = Walks(v) /\ Its(v)' = Its(v) /\ Walks(v) \in Slot
                        /\ worker'[v].cancelled = worker[v].cancelled
                        /\ \A u \in Task : InFlight(v, u)' <=> InFlight(v, u)
  <2> TAKE v \in Worker
  <2>1. Walks(v)' = Walks(v) /\ Walks(v) \in Slot /\ worker'[v].cancelled = worker[v].cancelled
    BY <1>0, <1>1 DEF Walks, Thread
  <2>2. Its(v)' = Its(v)
    BY <1>1, <2>1 DEF Its
  <2>3. (Busy(v)' <=> Busy(v)) /\ \A u \in Task : InFlight(v, u)' <=> InFlight(v, u)
    BY <1>1 DEF Busy, InFlight, Flight
  <2> QED
    BY <2>1, <2>2, <2>3
<1>3. InFlight(w, t) /\ Busy(w) /\ \A u \in Task : InFlight(w, u) => u = t
  BY <1>1 DEF InFlight, Flight, Busy
<1>4. \A u \in Task : Taken(u)' <=> Taken(u)
  <2>1. \A u \in Task : u # t => (Taken(u)' <=> Taken(u))
    BY <1>1, <1>2 DEF Taken
  <2>2. Taken(t) /\ Taken(t)'
    BY <1>2, <1>3 DEF Taken
  <2> QED
    BY <2>1, <2>2
<1>5. Current' = Current /\ \A u \in Task : Away(u)' <=> Away(u)
  BY <1>1 DEF Current, Away
<1>6. \A u \in Task : /\ causes[u] \subseteq causes'[u]
                      /\ \A c \in {"undone", "unsaved", "raced"} : c \in causes'[u] => c \in causes[u]
  BY <1>1
<1>7. ThreadInv'
  <2>1. \A v \in Worker : /\ worker'[v].pc \in Flight \cup {"mark"} => worker'[v].task \in Task
                          /\ worker'[v].pc = "settle" => worker'[v].result \in {"failed", "sent", "commented"}
    BY <1>1 DEF SendingInv, ThreadInv
  <2> QED
    BY <1>1, <1>2, <2>1 DEF SendingInv, ThreadInv
<1>8. KnownInv'
  <2>1. t \in known
    BY <1>1 DEF SendingInv, KnownInv, Flight
  <2>2. \A v \in Worker : worker'[v].pc \in Flight \cup {"mark"} => worker'[v].task \in known
    BY <1>1, <2>1 DEF SendingInv, KnownInv
  <2>3. \A u \in Task : cards'[u] + comments'[u] > 0 => u \in known
    BY <1>1, <2>1 DEF SendingInv, KnownInv
  <2> QED
    BY <1>1, <2>2, <2>3 DEF SendingInv, KnownInv
<1>9. AheadInv' /\ FileInv'
  <2>1. AheadInv'
    BY <1>1, <1>5, <1>6 DEF SendingInv, AheadInv, AheadOf
  <2>2. \A u \in Task : causes'[u] \cap {"unsaved", "undone"} = {} => causes[u] \cap {"unsaved", "undone"} = {}
    BY <1>6
  <2>3. FileInv'
    BY <1>1, <1>4, <1>5, <2>2 DEF SendingInv, FileInv, FileOf
  <2> QED
    BY <2>1, <2>3
<1>10. CleanInv'
  <2> SUFFICES ASSUME NEW u \in Task, causes'[u] = {}
               PROVE  /\ \A v, y \in Worker : InFlight(v, u)' /\ InFlight(y, u)' => v = y
                      /\ \A y \in Worker : InFlight(y, u)' =>
                            /\ worker'[y].pc # "settle" \/ worker'[y].result = "failed"
                                 => cards'[u] + comments'[u] = 0
                            /\ ~worker'[y].cancelled => Walks(y)' = shown'
                      /\ cards'[u] + comments'[u] <= 1
                      /\ Taken(u)' => /\ In(u, file') => file'.status[u] \in TakenUp
                                      /\ open' => Current'.status[u] \in TakenUp \/ Away(u)'
                      /\ \A y \in Worker : Busy(y)' /\ ~worker'[y].cancelled /\ Walks(y)' # shown'
                                             => Its(y)'.status[u] \in Done
    BY DEF CleanInv, CleanOf
  <2>0. causes[u] = {}
    BY <1>6
  <2>1. /\ \A v, y \in Worker : InFlight(v, u) /\ InFlight(y, u) => v = y
        /\ \A y \in Worker : InFlight(y, u) =>
              /\ worker[y].pc # "settle" \/ worker[y].result = "failed" => cards[u] + comments[u] = 0
              /\ ~worker[y].cancelled => Walks(y) = shown
        /\ cards[u] + comments[u] <= 1
        /\ Taken(u) => /\ In(u, file) => file.status[u] \in TakenUp
                       /\ open => Current.status[u] \in TakenUp \/ Away(u)
        /\ \A y \in Worker : Busy(y) /\ ~worker[y].cancelled /\ Walks(y) # shown
                               => Its(y).status[u] \in Done
    BY <2>0 DEF SendingInv, CleanInv, CleanOf
  <2>2. ASSUME NEW v \in Worker, InFlight(v, u),
               worker'[v].pc # "settle" \/ worker'[v].result = "failed"
        PROVE  cards'[u] + comments'[u] = 0
    <3>1. CASE u = t
      <4>1. v = w
        BY <1>3, <2>1, <2>2, <3>1
      <4>2. cards[t] + comments[t] = 0
        BY <1>1, <1>3, <2>1, <3>1
      <4>3. cards'[t] = cards[t] /\ comments'[t] = comments[t]
        BY <1>1, <2>2, <3>1, <4>1
      <4> QED
        BY <3>1, <4>2, <4>3
    <3>2. CASE u # t
      <4>1. v # w
        BY <1>3, <2>2, <3>2
      <4>2. worker'[v] = worker[v] /\ cards'[u] = cards[u] /\ comments'[u] = comments[u]
        BY <1>1, <3>2, <4>1
      <4> QED
        BY <2>1, <2>2, <4>2
    <3> QED
      BY <3>1, <3>2
  <2>3. cards'[u] + comments'[u] <= 1
    <3>1. CASE u = t
      <4>1. cards[t] + comments[t] = 0
        BY <1>1, <1>3, <2>1, <3>1
      <4> QED
        BY <1>0, <1>1, <3>1, <4>1
    <3>2. CASE u # t
      BY <1>1, <2>1, <3>2
    <3> QED
      BY <3>1, <3>2
  <2> QED
    BY <1>1, <1>2, <1>4, <1>5, <2>1, <2>2, <2>3
<1>11. CommentInv'
  <2>1. \A s \in Slot : Live(s)' <=> Live(s)
    BY <1>1, <1>2 DEF Live
  <2>2. \A u \in Task : \A x \in ToSet(undo') : x.dup[u] = "none" <=> Current'.dup[u] = "none"
    BY <1>1, <1>5 DEF SendingInv, CommentInv, CommentOf
  <2> SUFFICES ASSUME NEW u \in Task, causes'[u] \cap {"undone", "raced"} = {}
               PROVE  /\ \A r, s \in Slot : /\ r # s /\ Live(r)' /\ Live(s)'
                                            /\ lists'[r].dup[u] # "none" /\ lists'[s].dup[u] # "none"
                                            => lists'[r].status[u] \in Done \/ lists'[s].status[u] \in Done
                      /\ \A y \in Worker : InFlight(y, u)' => Its(y)'.status[u] = "sending"
                      /\ \A v, y \in Worker : InFlight(v, u)' /\ InFlight(y, u)' /\ Walks(v)' = Walks(y)' => v = y
                      /\ \A y \in Worker : InFlight(y, u)' /\ worker'[y].pc \in {"look", "comment"}
                                             => Its(y)'.dup[u] # "none"
                      /\ \A y \in Worker : InFlight(y, u)' /\ worker'[y].pc = "comment" => comments'[u] = 0
                      /\ comments'[u] <= 1
    BY <2>2 DEF CommentInv, CommentOf
  <2>0. causes[u] \cap {"undone", "raced"} = {}
    BY <1>6
  <2>3. /\ \A r, s \in Slot : /\ r # s /\ Live(r) /\ Live(s)
                              /\ lists[r].dup[u] # "none" /\ lists[s].dup[u] # "none"
                              => lists[r].status[u] \in Done \/ lists[s].status[u] \in Done
        /\ \A y \in Worker : InFlight(y, u) => Its(y).status[u] = "sending"
        /\ \A v, y \in Worker : InFlight(v, u) /\ InFlight(y, u) /\ Walks(v) = Walks(y) => v = y
        /\ \A y \in Worker : InFlight(y, u) /\ worker[y].pc \in {"look", "comment"}
                               => Its(y).dup[u] # "none"
        /\ \A y \in Worker : InFlight(y, u) /\ worker[y].pc = "comment" => comments[u] = 0
        /\ comments[u] <= 1
    BY <2>0 DEF SendingInv, CommentInv, CommentOf
  <2>4. \A v \in Worker : InFlight(v, u)' /\ worker'[v].pc \in {"look", "comment"}
                            => Its(v)'.dup[u] # "none"
    <3> SUFFICES ASSUME NEW v \in Worker, InFlight(v, u), worker'[v].pc \in {"look", "comment"}
                 PROVE  Its(v).dup[u] # "none"
      BY <1>2
    <3>1. worker[v].pc \in {"look", "comment"}
      BY <1>1
    <3> QED
      BY <2>3, <3>1
  <2>5. ASSUME NEW v \in Worker, InFlight(v, u), worker'[v].pc = "comment" PROVE comments'[u] = 0
    <3>1. CASE u # t
      <4>1. v # w
        BY <1>3, <2>5, <3>1
      <4> QED
        BY <1>1, <2>3, <2>5, <3>1, <4>1
    <3>2. CASE u = t /\ v = w
      BY <1>1, <2>5, <3>2
    <3>3. CASE u = t /\ v # w
      <4>1. worker[v].pc = "comment" /\ comments[t] = 0
        BY <1>1, <2>3, <2>5, <3>3
      <4>2. worker[w].pc # "comment"
        <5> SUFFICES ASSUME worker[w].pc = "comment" PROVE FALSE
          OBVIOUS
        <5>1. Its(v).dup[t] # "none" /\ Its(w).dup[t] # "none"
          BY <1>3, <2>3, <2>5, <3>3, <4>1
        <5>2. Its(v).status[t] = "sending" /\ Its(w).status[t] = "sending"
          BY <1>3, <2>3, <2>5, <3>3
        <5>3. Walks(v) # Walks(w)
          BY <1>3, <2>3, <2>5, <3>3
        <5>4. Live(Walks(v)) /\ Live(Walks(w))
          <6>1. Busy(v)
            BY <4>1 DEF Busy
          <6> QED
            BY <1>3, <6>1 DEF Live
        <5>5. lists[Walks(v)].status[t] \in Done \/ lists[Walks(w)].status[t] \in Done
          BY <1>2, <2>3, <3>3, <5>1, <5>3, <5>4 DEF Its
        <5> QED
          BY <5>2, <5>5 DEF Its, Done
      <4> QED
        BY <1>1, <3>3, <4>1, <4>2
    <3> QED
      BY <3>1, <3>2, <3>3
  <2>6. comments'[u] <= 1
    <3>1. CASE u = t
      BY <1>0, <1>1, <1>3, <2>3, <3>1
    <3>2. CASE u # t
      BY <1>1, <2>3, <3>2
    <3> QED
      BY <3>1, <3>2
  <2> QED
    BY <1>1, <1>2, <2>1, <2>3, <2>4, <2>5, <2>6
<1> QED
  BY <1>7, <1>8, <1>9, <1>10, <1>11 DEF SendingInv

(* The three requests to the tracker are of that kind. *)
LEMMA RequestStep ==
    ASSUME SendingInv, NEW w \in Worker, Create(w) \/ Look(w) \/ AddComment(w)
    PROVE  SendingInv'
<1> DEFINE t == worker[w].task
<1>0. /\ worker[w].pc \in {"create", "look", "comment"} /\ t \in Task /\ TypeOK
      /\ worker \in [Worker -> Thread] /\ comments \in [Task -> Nat]
      /\ UNCHANGED <<lists, shown, undo, known, file, open, busy, frozen, posted>>
  <2>1. worker[w].pc \in {"create", "look", "comment"}
    BY DEF Create, Look, AddComment, At
  <2>2. t \in Task
    BY <2>1 DEF SendingInv, ThreadInv, Flight
  <2> QED
    BY <2>1, <2>2 DEF SendingInv, TypeOK, Create, Look, AddComment, dialog, screen
<1>1. CASE Create(w) \/ AddComment(w)
  <2>1. \/ Request(w, cards, "sent") /\ UNCHANGED comments
        \/ Request(w, comments, "commented") /\ UNCHANGED cards /\ worker[w].pc = "comment"
    BY <1>1 DEF Create, AddComment, At
  <2>2. /\ worker' \in [Worker -> Thread] /\ \A v \in Worker : v # w => worker'[v] = worker[v]
        /\ worker'[w].pc = "settle" /\ worker'[w].result \in {"failed", "sent", "commented"}
        /\ worker'[w].task = t
        /\ worker'[w].slot = worker[w].slot /\ worker'[w].cancelled = worker[w].cancelled
        /\ cards' \in [Task -> Nat] /\ comments' \in [Task -> Nat]
        /\ causes' \in [Task -> SUBSET Cause] /\ trouble' \in 0..MaxTrouble
        /\ \A u \in Task : u # t => /\ cards'[u] = cards[u] /\ comments'[u] = comments[u]
                                    /\ causes'[u] = causes[u]
        /\ causes'[t] \in {causes[t], causes[t] \cup {"lost"}}
        /\ \/ cards'[t] = cards[t] /\ comments'[t] = comments[t]
           \/ /\ cards'[t] + comments'[t] = cards[t] + comments[t] + 1
              /\ "lost" \in causes'[t] \/ worker'[w].result # "failed"
        /\ comments'[t] = comments[t] \/ (worker[w].pc = "comment" /\ comments'[t] = comments[t] + 1)
    BY <1>0, <2>1, RequestEffect
  <2>3. TypeOK'
    BY <1>0, <2>2 DEF TypeOK
  <2>4. Asked(w, t)
    BY <1>0, <2>2 DEF Asked
  <2> QED
    BY <1>0, <2>3, <2>4, AskedStep
<1>2. CASE Look(w)
  <2>0. worker[w].pc = "look" /\ UNCHANGED <<cards, comments, causes, trouble>>
    BY <1>2 DEF Look, At, tracker
  <2>1. CASE \E r \in {"failed", "commented"} : Answer(w, r)
    <3>1. PICK r \in {"failed", "commented"} : Answer(w, r)
      BY <2>1
    <3>2. /\ worker' \in [Worker -> Thread] /\ \A v \in Worker : v # w => worker'[v] = worker[v]
          /\ worker'[w].pc = "settle" /\ worker'[w].result = r
          /\ worker'[w].task = worker[w].task
          /\ worker'[w].slot = worker[w].slot /\ worker'[w].cancelled = worker[w].cancelled
      <4>1. r \in Status
        BY DEF Status
      <4> QED
        BY <1>0, <3>1, <4>1, AnswerTyped
    <3>3. TypeOK'
      BY <1>0, <2>0, <3>2 DEF TypeOK
    <3>4. Asked(w, t)
      BY <1>0, <2>0, <3>2 DEF Asked
    <3> QED
      BY <1>0, <3>3, <3>4, AskedStep
  <2>2. CASE ~(comments[t] > 0) /\ Goto(w, "comment")
    <3> DEFINE new == [worker[w] EXCEPT !.pc = "comment"]
    <3>1. /\ new \in Thread /\ new.pc = "comment" /\ new.task = t
          /\ new.slot = worker[w].slot /\ new.cancelled = worker[w].cancelled
      BY <1>0 DEF Thread
    <3>2. worker' = [worker EXCEPT ![w] = new]
      BY <1>0, <2>2 DEF Goto
    <3> HIDE DEF new
    <3>3. worker' \in [Worker -> Thread] /\ worker'[w] = new /\ \A v \in Worker : v # w => worker'[v] = worker[v]
      BY <1>0, <3>1, <3>2
    <3>4. comments[t] = 0
      BY <1>0, <2>2
    <3>5. TypeOK'
      BY <1>0, <2>0, <3>3 DEF TypeOK
    <3>6. Asked(w, t)
      BY <1>0, <2>0, <3>1, <3>3, <3>4 DEF Asked
    <3> QED
      BY <1>0, <3>5, <3>6, AskedStep
  <2> QED
    BY <1>2, <2>1, <2>2 DEF Look
<1> QED
  BY <1>1, <1>2

-----------------------------------------------------------------------------
(* A thread writes a status and has the list that is shown saved. *)

(* A save by a thread writes what is shown, unless the dialog was closed. *)
LEMMA NotifyEffect ==
    ASSUME TypeOK, NEW w \in Worker, NEW pc \in {"look", "create", "next"}, NEW o \in Outcome,
           lists'[shown] \in List, Notify(w, pc, o)
    PROVE  /\ worker' \in [Worker -> Thread] /\ \A x \in Worker : x # w => worker'[x] = worker[x]
           /\ worker'[w].slot = worker[w].slot /\ worker'[w].cancelled = worker[w].cancelled
           /\ worker'[w].pc = IF o = "raise" THEN "end" ELSE pc
           /\ worker'[w].pc \in {"look", "create"} => worker'[w].task = worker[w].task
           /\ file' \in {file, ToFile(lists'[shown])} /\ file' \in Saved
           /\ worker[w].cancelled => file' = file /\ o = "ok"
           /\ o # "ok" => file' = file
           /\ trouble' \in 0..MaxTrouble /\ posted' \subseteq {"row", "finished"}
<1>0. /\ worker \in [Worker -> Thread] /\ worker[w] \in Thread /\ trouble \in 0..MaxTrouble
      /\ posted \subseteq {"row", "finished"} /\ file \in Saved
  BY DEF TypeOK
<1>1. ASSUME NEW p \in {"look", "create", "next", "end"}, MoveOn(w, p)
      PROVE  /\ worker' \in [Worker -> Thread] /\ \A x \in Worker : x # w => worker'[x] = worker[x]
             /\ worker'[w].slot = worker[w].slot /\ worker'[w].cancelled = worker[w].cancelled
             /\ worker'[w].pc = p
             /\ p \in {"look", "create"} => worker'[w].task = worker[w].task
  <2> DEFINE bare == [worker[w] EXCEPT !.pc = p, !.task = NoTask, !.result = "pending"]
             kept == [worker[w] EXCEPT !.pc = p]
  <2>1. /\ bare \in Thread /\ bare.pc = p /\ bare.slot = worker[w].slot
        /\ bare.cancelled = worker[w].cancelled
    BY <1>0 DEF Thread, Status
  <2>2. /\ kept \in Thread /\ kept.pc = p /\ kept.slot = worker[w].slot
        /\ kept.cancelled = worker[w].cancelled /\ kept.task = worker[w].task
    BY <1>0 DEF Thread
  <2>3. worker' = [worker EXCEPT ![w] = IF p \in {"next", "end"} THEN bare ELSE kept]
    BY <1>0, <1>1 DEF MoveOn
  <2> HIDE DEF bare, kept
  <2>4. worker' \in [Worker -> Thread] /\ worker'[w] = (IF p \in {"next", "end"} THEN bare ELSE kept)
        /\ \A x \in Worker : x # w => worker'[x] = worker[x]
    BY <1>0, <2>1, <2>2, <2>3
  <2> QED
    BY <2>1, <2>2, <2>4
<1>2. CASE worker[w].cancelled
  <2>1. o = "ok" /\ MoveOn(w, pc) /\ UNCHANGED <<file, trouble, posted>>
    BY <1>2 DEF Notify
  <2> QED
    BY <1>0, <1>1, <2>1
<1>3. CASE ~worker[w].cancelled
  <2>1. /\ Save(lists'[shown], o) /\ MoveOn(w, IF o = "raise" THEN "end" ELSE pc)
        /\ posted' \subseteq {"row", "finished"}
    BY <1>0, <1>3 DEF Notify
  <2>2. /\ trouble' \in 0..MaxTrouble /\ file' \in {file, ToFile(lists'[shown])}
        /\ o # "ok" => file' = file
    BY <1>0, <2>1, SavedOver DEF Save
  <2>3. file' \in Saved
    BY <1>0, <2>2, ToFileTyped
  <2>4. (IF o = "raise" THEN "end" ELSE pc) \in {"look", "create", "next", "end"}
    OBVIOUS
  <2> QED
    BY <1>1, <1>3, <2>1, <2>2, <2>3, <2>4
<1> QED
  BY <1>2, <1>3

(* Mark and Settle: thread w writes the status st of task t. *)
Wrote(w, t, st) ==
    /\ UNCHANGED <<shown, undo, known, open, cards, comments>>
    /\ lists' \in [Slot -> List] /\ worker' \in [Worker -> Thread] /\ file' \in Saved
    /\ \A s \in Slot : lists'[s].rows = lists[s].rows /\ lists'[s].dup = lists[s].dup
    /\ \A s \in Slot, u \in Task :
          lists'[s].status[u] = IF s = Walks(w) /\ u = t THEN st ELSE lists[s].status[u]
    /\ \A x \in Worker : x # w => worker'[x] = worker[x]
    /\ worker'[w].slot = worker[w].slot /\ worker'[w].cancelled = worker[w].cancelled
    /\ worker[w].pc \in {"mark", "settle"} /\ worker[w].task = t
    /\ worker'[w].pc \in {"look", "create", "next", "end"}
    /\ worker'[w].pc \in {"look", "create"} => worker'[w].task = t
    /\ file' \in {file, ToFile(lists'[shown])}
    /\ worker[w].cancelled => file' = file
    /\ \A u \in Task : u # t => causes'[u] = causes[u]

(* What a write leaves as it was: the rows, the threads but one, what is said
   of the other tasks. *)
LEMMA WroteEffect ==
    ASSUME SendingInv, NEW w \in Worker, NEW t \in Task, NEW st \in Status, Wrote(w, t, st)
    PROVE  /\ ThreadInv' /\ KnownInv'
           /\ Current \in List /\ Current' \in List
           /\ \A u \in Task : Current'.status[u] =
                 IF Walks(w) = shown /\ u = t THEN st ELSE Current.status[u]
           /\ Current'.dup = Current.dup
           /\ \A u \in Task : In(u, Current') <=> In(u, Current)
           /\ \A u \in Task : In(u, file') <=> IF file' = file THEN In(u, file) ELSE In(u, Current)
           /\ \A u \in Task : file' # file /\ In(u, file') => file'.status[u] = Current'.status[u]
           /\ \A u \in Task : Away(u) => Away(u)' /\ ~In(u, file) /\ ~In(u, Current) /\ ~In(u, file')
           /\ \A x \in Worker : /\ Busy(x)' <=> Busy(x)
                                /\ Walks(x)' = Walks(x) /\ Walks(x) \in Slot
                                /\ worker'[x].cancelled = worker[x].cancelled
                                /\ Its(x)'.dup = Its(x).dup
                                /\ \A u \in Task : Its(x)'.status[u] =
                                      IF Walks(x) = Walks(w) /\ u = t THEN st ELSE Its(x).status[u]
                                /\ \A u \in Task : u # t \/ x # w => (InFlight(x, u)' <=> InFlight(x, u))
                                /\ \A u \in Task : InFlight(x, u) /\ x = w => u = t
           /\ \A u \in Task : u # t => (Taken(u)' <=> Taken(u))
           /\ \A s \in Slot : Live(s)' <=> Live(s)
           /\ Busy(w) /\ Live(Walks(w))
<1>0. /\ lists \in [Slot -> List] /\ shown \in Slot /\ Current = lists[shown] /\ Current \in List
      /\ worker \in [Worker -> Thread] /\ file \in Saved
  BY DEF SendingInv, TypeOK, Current
<1>1. /\ UNCHANGED <<shown, undo, known, open, cards, comments>>
      /\ lists' \in [Slot -> List] /\ worker' \in [Worker -> Thread] /\ file' \in Saved
      /\ \A s \in Slot : lists'[s].rows = lists[s].rows /\ lists'[s].dup = lists[s].dup
      /\ \A s \in Slot, u \in Task :
            lists'[s].status[u] = IF s = Walks(w) /\ u = t THEN st ELSE lists[s].status[u]
      /\ \A x \in Worker : x # w => worker'[x] = worker[x]
      /\ worker'[w].slot = worker[w].slot /\ worker'[w].cancelled = worker[w].cancelled
      /\ worker[w].pc \in {"mark", "settle"} /\ worker[w].task = t
      /\ worker'[w].pc \in {"look", "create", "next", "end"}
      /\ worker'[w].pc \in {"look", "create"} => worker'[w].task = t
      /\ file' \in {file, ToFile(lists'[shown])}
  BY DEF Wrote
<1>2. /\ Current' = lists'[shown] /\ Current' \in List
      /\ \A u \in Task : Current'.status[u] =
            IF Walks(w) = shown /\ u = t THEN st ELSE Current.status[u]
      /\ Current'.dup = Current.dup /\ Current'.rows = Current.rows
  <2>1. Current' = lists'[shown]
    BY <1>1 DEF Current
  <2> QED
    BY <1>0, <1>1, <2>1
<1>3. \A u \in Task : In(u, Current') <=> In(u, Current)
  BY <1>2 DEF In
<1>4. /\ \A u \in Task : In(u, file') <=> IF file' = file THEN In(u, file) ELSE In(u, Current)
      /\ \A u \in Task : file' # file /\ In(u, file') => file'.status[u] = Current'.status[u]
      /\ file' = file \/ file'.rows = Current.rows
  <2>1. /\ \A u \in Task : In(u, ToFile(Current')) <=> In(u, Current')
        /\ \A u \in Task : In(u, Current') => ToFile(Current').status[u] = Current'.status[u]
        /\ ToFile(Current').rows = Current'.rows
    BY <1>2, ToFileTyped
  <2>2. file' \in {file, ToFile(Current')}
    BY <1>1, <1>2
  <2> QED
    BY <1>2, <1>3, <2>1, <2>2
<1>5. \A u \in Task : Away(u) => Away(u)' /\ ~In(u, file) /\ ~In(u, Current) /\ ~In(u, file')
  BY <1>1, <1>3, <1>4 DEF Away
<1>6. ASSUME NEW x \in Worker
      PROVE  /\ Busy(x)' <=> Busy(x)
             /\ Walks(x)' = Walks(x) /\ Walks(x) \in Slot
             /\ worker'[x].cancelled = worker[x].cancelled
             /\ Its(x)'.dup = Its(x).dup
             /\ \A u \in Task : Its(x)'.status[u] =
                   IF Walks(x) = Walks(w) /\ u = t THEN st ELSE Its(x).status[u]
             /\ \A u \in Task : u # t \/ x # w => (InFlight(x, u)' <=> InFlight(x, u))
             /\ \A u \in Task : InFlight(x, u) /\ x = w => u = t
  <2>1. Walks(x)' = Walks(x) /\ Walks(x) \in Slot /\ worker'[x].cancelled = worker[x].cancelled
    BY <1>0, <1>1 DEF Walks, Thread
  <2>2. Its(x)' = lists'[Walks(x)] /\ Its(x) = lists[Walks(x)]
    BY <2>1 DEF Its
  <2>3. Busy(x)' <=> Busy(x)
    BY <1>1 DEF Busy
  <2>4. ASSUME NEW u \in Task
        PROVE  /\ u # t \/ x # w => (InFlight(x, u)' <=> InFlight(x, u))
               /\ InFlight(x, u) /\ x = w => u = t
    BY <1>1 DEF InFlight, Flight
  <2>5. Its(x)'.dup = Its(x).dup
    BY <1>1, <2>1, <2>2
  <2>6. \A u \in Task : Its(x)'.status[u] =
           IF Walks(x) = Walks(w) /\ u = t THEN st ELSE Its(x).status[u]
    BY <1>1, <2>1, <2>2
  <2> QED
    BY <2>1, <2>3, <2>4, <2>5, <2>6
<1>7. \A u \in Task : u # t => (Taken(u)' <=> Taken(u))
  BY <1>1, <1>6 DEF Taken
<1>8. \A s \in Slot : Live(s)' <=> Live(s)
  BY <1>1, <1>6 DEF Live
<1>9. Busy(w) /\ Live(Walks(w))
  <2>1. Busy(w)
    BY <1>1 DEF Busy
  <2> QED
    BY <2>1 DEF Live
<1>10. ThreadInv'
  <2>1. \A x \in Worker : /\ worker'[x].pc \in Flight \cup {"mark"} => worker'[x].task \in Task
                          /\ worker'[x].pc = "settle" => worker'[x].result \in {"failed", "sent", "commented"}
    BY <1>1 DEF SendingInv, ThreadInv, Flight
  <2> QED
    BY <1>1, <1>6, <2>1 DEF SendingInv, ThreadInv
<1>11. KnownInv'
  <2>1. \A x \in Worker : worker[x].pc \in Flight \cup {"mark"} => worker[x].task \in known
    BY DEF SendingInv, KnownInv
  <2>2. t \in known
    BY <1>1, <2>1 DEF Flight
  <2>3. \A x \in Worker : worker'[x].pc \in Flight \cup {"mark"} => worker'[x].task \in known
    BY <1>1, <2>1, <2>2 DEF Flight
  <2>4. ToSet(file'.rows) \subseteq known
    BY <1>0, <1>4 DEF SendingInv, KnownInv
  <2> QED
    BY <1>1, <2>3, <2>4 DEF SendingInv, KnownInv
<1> QED
  BY <1>0, <1>2, <1>3, <1>4, <1>5, <1>6, <1>7, <1>8, <1>9, <1>10, <1>11

(* What a thread writes of its task leaves every other task's part of the invariant. *)
LEMMA WroteOthers ==
    ASSUME SendingInv, NEW w \in Worker, NEW t \in Task, NEW st \in Status, Wrote(w, t, st),
           NEW z \in Task, z # t
    PROVE  AheadOf(z)' /\ FileOf(z)' /\ CleanOf(z)' /\ CommentOf(z)'
<1>0. /\ ThreadInv' /\ KnownInv'
      /\ Current \in List /\ Current' \in List
      /\ \A u \in Task : Current'.status[u] =
            IF Walks(w) = shown /\ u = t THEN st ELSE Current.status[u]
      /\ Current'.dup = Current.dup
      /\ \A u \in Task : In(u, Current') <=> In(u, Current)
      /\ \A u \in Task : In(u, file') <=> IF file' = file THEN In(u, file) ELSE In(u, Current)
      /\ \A u \in Task : file' # file /\ In(u, file') => file'.status[u] = Current'.status[u]
      /\ \A u \in Task : Away(u) => Away(u)' /\ ~In(u, file) /\ ~In(u, Current) /\ ~In(u, file')
      /\ \A x \in Worker : /\ Busy(x)' <=> Busy(x)
                           /\ Walks(x)' = Walks(x) /\ Walks(x) \in Slot
                           /\ worker'[x].cancelled = worker[x].cancelled
                           /\ Its(x)'.dup = Its(x).dup
                           /\ \A u \in Task : Its(x)'.status[u] =
                                 IF Walks(x) = Walks(w) /\ u = t THEN st ELSE Its(x).status[u]
                           /\ \A u \in Task : u # t \/ x # w => (InFlight(x, u)' <=> InFlight(x, u))
                           /\ \A u \in Task : InFlight(x, u) /\ x = w => u = t
      /\ \A u \in Task : u # t => (Taken(u)' <=> Taken(u))
      /\ \A s \in Slot : Live(s)' <=> Live(s)
      /\ Busy(w) /\ Live(Walks(w))
  BY WroteEffect
<1>1. /\ UNCHANGED <<shown, undo, known, open, cards, comments>>
      /\ \A s \in Slot : lists'[s].dup = lists[s].dup
      /\ \A s \in Slot, u \in Task :
            lists'[s].status[u] = IF s = Walks(w) /\ u = t THEN st ELSE lists[s].status[u]
      /\ \A x \in Worker : x # w => worker'[x] = worker[x]
      /\ \A u \in Task : u # t => causes'[u] = causes[u]
  BY DEF Wrote
<1>2. Current'.status[z] = Current.status[z] /\ causes'[z] = causes[z] /\ (Taken(z)' <=> Taken(z))
  BY <1>0, <1>1
<1>3. In(z, file') => \/ In(z, file) /\ file'.status[z] = file.status[z]
                      \/ In(z, Current) /\ file'.status[z] = Current.status[z]
  BY <1>0, <1>2
<1>4. \A x \in Worker : (InFlight(x, z)' <=> InFlight(x, z)) /\ (InFlight(x, z) => worker'[x] = worker[x])
  BY <1>0, <1>1
<1>5. \A x \in Worker : Its(x)'.status[z] = Its(x).status[z] /\ Its(x)'.dup = Its(x).dup
  BY <1>0
<1>6. \A s \in Slot : lists'[s].status[z] = lists[s].status[z] /\ lists'[s].dup = lists[s].dup
  BY <1>1
<1>7. AheadOf(z)'
  <2>1. AheadOf(z)
    BY DEF SendingInv, AheadInv
  <2> QED
    BY <1>1, <1>2, <1>3, <2>1 DEF AheadOf
<1>8. FileOf(z)'
  <2>1. FileOf(z)
    BY DEF SendingInv, FileInv
  <2>2. FileOf(z) /\ open' = open /\ ThreadInv
    BY <1>1, <2>1 DEF SendingInv
  <2> SUFFICES ASSUME Taken(z), causes[z] \cap {"unsaved", "undone"} = {}
               PROVE  /\ In(z, file') => file'.status[z] # "pending"
                      /\ open => Current.status[z] # "pending" \/ Away(z)'
    BY <1>1, <1>2 DEF FileOf
  <2>3. /\ In(z, file) => file.status[z] # "pending"
        /\ open => Current.status[z] # "pending" \/ Away(z)
    BY <2>1 DEF FileOf
  <2>4. file' # file => open
    BY <1>0 DEF Wrote, SendingInv, ThreadInv
  <2> QED
    BY <1>0, <1>2, <2>3, <2>4
<1>9. CleanOf(z)'
  <2> SUFFICES ASSUME causes[z] = {}
               PROVE  /\ \A y, x \in Worker : InFlight(y, z)' /\ InFlight(x, z)' => y = x
                      /\ \A x \in Worker : InFlight(x, z)' =>
                            /\ worker'[x].pc # "settle" \/ worker'[x].result = "failed"
                                 => cards'[z] + comments'[z] = 0
                            /\ ~worker'[x].cancelled => Walks(x)' = shown'
                      /\ cards'[z] + comments'[z] <= 1
                      /\ Taken(z)' => /\ In(z, file') => file'.status[z] \in TakenUp
                                      /\ open' => Current'.status[z] \in TakenUp \/ Away(z)'
                      /\ \A x \in Worker : Busy(x)' /\ ~worker'[x].cancelled /\ Walks(x)' # shown'
                                             => Its(x)'.status[z] \in Done
    BY <1>2 DEF CleanOf
  <2>1. /\ \A y, x \in Worker : InFlight(y, z) /\ InFlight(x, z) => y = x
        /\ \A x \in Worker : InFlight(x, z) =>
              /\ worker[x].pc # "settle" \/ worker[x].result = "failed" => cards[z] + comments[z] = 0
              /\ ~worker[x].cancelled => Walks(x) = shown
        /\ cards[z] + comments[z] <= 1
        /\ Taken(z) => /\ In(z, file) => file.status[z] \in TakenUp
                       /\ open => Current.status[z] \in TakenUp \/ Away(z)
        /\ \A x \in Worker : Busy(x) /\ ~worker[x].cancelled /\ Walks(x) # shown
                               => Its(x).status[z] \in Done
    BY DEF SendingInv, CleanInv, CleanOf
  <2>2. file' # file => open
    BY <1>0 DEF Wrote, SendingInv, ThreadInv
  <2>3. Taken(z) => /\ In(z, file') => file'.status[z] \in TakenUp
                    /\ open => Current.status[z] \in TakenUp \/ Away(z)'
    BY <1>0, <1>2, <2>1, <2>2
  <2>4. \A x \in Worker : InFlight(x, z)' =>
            /\ worker'[x].pc # "settle" \/ worker'[x].result = "failed" => cards'[z] + comments'[z] = 0
            /\ ~worker'[x].cancelled => Walks(x)' = shown'
    BY <1>0, <1>1, <1>4, <2>1
  <2>5. \A x \in Worker : Busy(x)' /\ ~worker'[x].cancelled /\ Walks(x)' # shown' => Its(x)'.status[z] \in Done
    BY <1>0, <1>1, <1>5, <2>1
  <2> QED
    BY <1>1, <1>2, <1>4, <2>1, <2>3, <2>4, <2>5
<1>10. CommentOf(z)'
  <2>0. CommentOf(z)
    BY DEF SendingInv, CommentInv
  <2>1. \A x \in ToSet(undo') : x.dup[z] = "none" <=> Current'.dup[z] = "none"
    BY <1>0, <1>1, <2>0 DEF CommentOf
  <2> SUFFICES ASSUME causes[z] \cap {"undone", "raced"} = {}
               PROVE  /\ \A r, s \in Slot : /\ r # s /\ Live(r)' /\ Live(s)'
                                            /\ lists'[r].dup[z] # "none" /\ lists'[s].dup[z] # "none"
                                            => lists'[r].status[z] \in Done \/ lists'[s].status[z] \in Done
                      /\ \A x \in Worker : InFlight(x, z)' => Its(x)'.status[z] = "sending"
                      /\ \A y, x \in Worker : InFlight(y, z)' /\ InFlight(x, z)' /\ Walks(y)' = Walks(x)' => y = x
                      /\ \A x \in Worker : InFlight(x, z)' /\ worker'[x].pc \in {"look", "comment"}
                                             => Its(x)'.dup[z] # "none"
                      /\ \A x \in Worker : InFlight(x, z)' /\ worker'[x].pc = "comment" => comments'[z] = 0
                      /\ comments'[z] <= 1
    BY <1>2, <2>1 DEF CommentOf
  <2>2. /\ \A r, s \in Slot : /\ r # s /\ Live(r) /\ Live(s)
                              /\ lists[r].dup[z] # "none" /\ lists[s].dup[z] # "none"
                              => lists[r].status[z] \in Done \/ lists[s].status[z] \in Done
        /\ \A x \in Worker : InFlight(x, z) => Its(x).status[z] = "sending"
        /\ \A y, x \in Worker : InFlight(y, z) /\ InFlight(x, z) /\ Walks(y) = Walks(x) => y = x
        /\ \A x \in Worker : InFlight(x, z) /\ worker[x].pc \in {"look", "comment"}
                               => Its(x).dup[z] # "none"
        /\ \A x \in Worker : InFlight(x, z) /\ worker[x].pc = "comment" => comments[z] = 0
        /\ comments[z] <= 1
    BY <2>0 DEF CommentOf
  <2>3. \A r, s \in Slot : /\ r # s /\ Live(r)' /\ Live(s)'
                           /\ lists'[r].dup[z] # "none" /\ lists'[s].dup[z] # "none"
                           => lists'[r].status[z] \in Done \/ lists'[s].status[z] \in Done
    BY <1>0, <1>6, <2>2
  <2>4. \A x, y \in Worker : InFlight(x, z)' /\ InFlight(y, z)' /\ Walks(x)' = Walks(y)' => x = y
    BY <1>0, <1>4, <2>2
  <2> QED
    BY <1>1, <1>4, <1>5, <2>2, <2>3, <2>4
<1> QED
  BY <1>7, <1>8, <1>9, <1>10

(* A task is marked. *)
LEMMA MarkStep ==
    ASSUME SendingInv, NEW w \in Worker, NEW o \in Outcome, Mark(w, o)
    PROVE  SendingInv'
<1>x. PICK t \in Task : t = worker[w].task
  BY DEF SendingInv, ThreadInv, Mark, At
<1>y. PICK st \in Status : st = "sending"
  BY DEF Status
<1> DEFINE byComment == Its(w).dup[t] = "comment"
           pc == IF byComment THEN "look" ELSE "create"
<1>a. /\ TypeOK /\ worker \in [Worker -> Thread] /\ worker[w].pc = "mark" /\ worker[w].task = t
      /\ lists \in [Slot -> List] /\ shown \in Slot /\ causes \in [Task -> SUBSET Cause]
      /\ Walks(w) \in Slot
  BY <1>x DEF SendingInv, TypeOK, Mark, At, Walks, Thread
<1>b. /\ lists' = [lists EXCEPT ![Walks(w)].status[t] = st]
      /\ Notify(w, pc, o)
      /\ causes' = [causes EXCEPT ![t] = @
             \cup (IF ShouldSend(Its(w), t, worker[w].retry) THEN {} ELSE {"raced"})
             \cup (IF o = "raise" \/ (~worker[w].cancelled /\ Records(file', t))
                   THEN {} ELSE {"unsaved"})]
      /\ UNCHANGED <<shown, undo, known, open, busy, frozen, cards, comments>>
  BY <1>x, <1>y DEF Mark, tracker
<1>c. /\ lists' \in [Slot -> List]
      /\ \A s \in Slot : lists'[s].rows = lists[s].rows /\ lists'[s].dup = lists[s].dup
      /\ \A s \in Slot, u \in Task :
            lists'[s].status[u] = IF s = Walks(w) /\ u = t THEN st ELSE lists[s].status[u]
  <2> DEFINE new == [lists[Walks(w)] EXCEPT !.status[t] = st]
  <2>1. /\ new \in List /\ new.rows = Its(w).rows /\ new.dup = Its(w).dup
        /\ \A u \in Task : new.status[u] = IF u = t THEN st ELSE Its(w).status[u]
    BY <1>a DEF List, Its
  <2>2. lists' = [lists EXCEPT ![Walks(w)] = new]
    BY <1>a, <1>b
  <2> HIDE DEF new
  <2>3. lists' \in [Slot -> List] /\ lists'[Walks(w)] = new /\ \A s \in Slot : s # Walks(w) => lists'[s] = lists[s]
    BY <1>a, <2>1, <2>2
  <2> QED
    BY <1>a, <2>1, <2>3 DEF Its
<1>d. /\ worker' \in [Worker -> Thread] /\ \A x \in Worker : x # w => worker'[x] = worker[x]
      /\ worker'[w].slot = worker[w].slot /\ worker'[w].cancelled = worker[w].cancelled
      /\ worker'[w].pc = IF o = "raise" THEN "end" ELSE pc
      /\ worker'[w].pc \in {"look", "create"} => worker'[w].task = worker[w].task
      /\ file' \in {file, ToFile(lists'[shown])} /\ file' \in Saved
      /\ worker[w].cancelled => file' = file /\ o = "ok"
      /\ o # "ok" => file' = file
      /\ trouble' \in 0..MaxTrouble /\ posted' \subseteq {"row", "finished"}
  <2>1. lists'[shown] \in List /\ pc \in {"look", "create", "next"}
    BY <1>a, <1>c
  <2> HIDE DEF pc
  <2> QED
    BY <1>a, <1>b, <2>1, NotifyEffect
<1>e. /\ causes' \in [Task -> SUBSET Cause] /\ \A u \in Task : u # t => causes'[u] = causes[u]
      /\ causes[t] \subseteq causes'[t]
      /\ "raced" \notin causes'[t] => ShouldSend(Its(w), t, worker[w].retry)
      /\ "unsaved" \notin causes'[t] => o = "raise" \/ (~worker[w].cancelled /\ Records(file', t))
  <2> DEFINE new == causes[t]
             \cup (IF ShouldSend(Its(w), t, worker[w].retry) THEN {} ELSE {"raced"})
             \cup (IF o = "raise" \/ (~worker[w].cancelled /\ Records(file', t))
                   THEN {} ELSE {"unsaved"})
  <2>1. new \in SUBSET Cause
    BY <1>a DEF Cause
  <2>2. /\ causes[t] \subseteq new
        /\ "raced" \notin new => ShouldSend(Its(w), t, worker[w].retry)
        /\ "unsaved" \notin new => o = "raise" \/ (~worker[w].cancelled /\ Records(file', t))
    OBVIOUS
  <2>3. causes' = [causes EXCEPT ![t] = new]
    BY <1>b
  <2> HIDE DEF new
  <2> QED
    BY <1>a, <2>1, <2>2, <2>3
<1>f. Wrote(w, t, st)
  <2>1. worker'[w].pc \in {"look", "create", "end"} /\ worker[w].task = t
    BY <1>a, <1>d
  <2> QED
    BY <1>a, <1>b, <1>c, <1>d, <1>e, <2>1 DEF Wrote
<1>0. /\ ThreadInv' /\ KnownInv'
      /\ Current \in List /\ Current' \in List
      /\ \A u \in Task : Current'.status[u] =
            IF Walks(w) = shown /\ u = t THEN st ELSE Current.status[u]
      /\ Current'.dup = Current.dup
      /\ \A u \in Task : In(u, Current') <=> In(u, Current)
      /\ \A u \in Task : In(u, file') <=> IF file' = file THEN In(u, file) ELSE In(u, Current)
      /\ \A u \in Task : file' # file /\ In(u, file') => file'.status[u] = Current'.status[u]
      /\ \A u \in Task : Away(u) => Away(u)' /\ ~In(u, file) /\ ~In(u, Current) /\ ~In(u, file')
      /\ \A x \in Worker : /\ Busy(x)' <=> Busy(x)
                           /\ Walks(x)' = Walks(x) /\ Walks(x) \in Slot
                           /\ worker'[x].cancelled = worker[x].cancelled
                           /\ Its(x)'.dup = Its(x).dup
                           /\ \A u \in Task : Its(x)'.status[u] =
                                 IF Walks(x) = Walks(w) /\ u = t THEN st ELSE Its(x).status[u]
                           /\ \A u \in Task : u # t \/ x # w => (InFlight(x, u)' <=> InFlight(x, u))
                           /\ \A u \in Task : InFlight(x, u) /\ x = w => u = t
      /\ \A u \in Task : u # t => (Taken(u)' <=> Taken(u))
      /\ \A s \in Slot : Live(s)' <=> Live(s)
      /\ Busy(w) /\ Live(Walks(w))
  BY <1>a, <1>f, WroteEffect
<1>2. TypeOK'
  BY <1>a, <1>b, <1>c, <1>d, <1>e DEF TypeOK
<1>3. \A z \in Task : z # t => AheadOf(z)' /\ FileOf(z)' /\ CleanOf(z)' /\ CommentOf(z)'
  BY <1>a, <1>f, WroteOthers
<1>4. /\ ~worker[w].cancelled => open
      /\ \A x \in Worker : InFlight(x, t) => x # w
      /\ st = "sending" /\ st \in TakenUp /\ st \notin Done
      /\ "raced" \notin causes'[t] => Its(w).status[t] \in {"pending", "failed"}
      /\ \A x \in Worker : InFlight(x, t)' => InFlight(x, t) \/ (x = w /\ o # "raise")
  <2>1. ~worker[w].cancelled => open
    BY <1>0 DEF SendingInv, ThreadInv
  <2>2. \A x \in Worker : InFlight(x, t) => x # w
    BY <1>a DEF InFlight, Flight
  <2>3. "raced" \notin causes'[t] => Its(w).status[t] \in {"pending", "failed"}
    BY <1>e DEF ShouldSend
  <2>4. \A x \in Worker : InFlight(x, t)' => InFlight(x, t) \/ (x = w /\ o # "raise")
    BY <1>0, <1>a, <1>d DEF InFlight, Flight
  <2> QED
    BY <1>y, <2>1, <2>2, <2>3, <2>4 DEF TakenUp, Done
<1>5. AheadOf(t)'
  <2> SUFFICES ASSUME open, In(t, file'), file'.status[t] # "pending", "undone" \notin causes'[t]
               PROVE  Current'.status[t] # "pending"
    BY <1>b DEF AheadOf
  <2>1. CASE file' = file
    <3>1. Current.status[t] # "pending"
      BY <1>a, <1>e, <2>1 DEF SendingInv, AheadInv, AheadOf
    <3> QED
      BY <1>0, <1>4, <1>a, <3>1
  <2>2. CASE file' # file
    BY <1>0, <1>a, <2>2
  <2> QED
    BY <2>1, <2>2
<1>6. FileOf(t)'
  <2> SUFFICES ASSUME Taken(t)', causes'[t] \cap {"unsaved", "undone"} = {}
               PROVE  /\ In(t, file') => file'.status[t] # "pending"
                      /\ open => Current'.status[t] # "pending" \/ Away(t)'
    BY <1>b DEF FileOf
  <2>1. CASE o = "raise"
    <3>1. Taken(t)
      BY <1>4, <1>b, <2>1 DEF Taken
    <3>2. /\ In(t, file) => file.status[t] # "pending"
          /\ open => Current.status[t] # "pending" \/ Away(t)
      BY <1>a, <1>e, <3>1 DEF SendingInv, FileInv, FileOf
    <3>3. file' = file
      BY <1>d, <2>1
    <3> QED
      BY <1>0, <1>4, <1>a, <3>2, <3>3
  <2>2. CASE o # "raise"
    <3>1. Records(file', t) /\ open
      BY <1>4, <1>e, <2>2
    <3>2. In(t, file') /\ file'.status[t] = "sending"
      BY <3>1 DEF Records
    <3>3. Current'.status[t] # "pending"
      BY <1>5, <1>b, <3>1, <3>2 DEF AheadOf
    <3> QED
      BY <3>2, <3>3
  <2> QED
    BY <2>1, <2>2
<1>7. CleanOf(t)'
  <2> SUFFICES ASSUME causes'[t] = {}
               PROVE  /\ \A y, x \in Worker : InFlight(y, t)' /\ InFlight(x, t)' => y = x
                      /\ \A x \in Worker : InFlight(x, t)' =>
                            /\ worker'[x].pc # "settle" \/ worker'[x].result = "failed"
                                 => cards'[t] + comments'[t] = 0
                            /\ ~worker'[x].cancelled => Walks(x)' = shown'
                      /\ cards'[t] + comments'[t] <= 1
                      /\ Taken(t)' => /\ In(t, file') => file'.status[t] \in TakenUp
                                      /\ open' => Current'.status[t] \in TakenUp \/ Away(t)'
                      /\ \A x \in Worker : Busy(x)' /\ ~worker'[x].cancelled /\ Walks(x)' # shown'
                                             => Its(x)'.status[t] \in Done
    BY DEF CleanOf
  <2>0. /\ causes[t] = {} /\ Its(w).status[t] \in {"pending", "failed"}
        /\ o = "raise" \/ (~worker[w].cancelled /\ Records(file', t))
    BY <1>4, <1>e
  <2>1. /\ \A y, x \in Worker : InFlight(y, t) /\ InFlight(x, t) => y = x
        /\ \A x \in Worker : InFlight(x, t) =>
              /\ worker[x].pc # "settle" \/ worker[x].result = "failed" => cards[t] + comments[t] = 0
              /\ ~worker[x].cancelled => Walks(x) = shown
        /\ cards[t] + comments[t] <= 1
        /\ Taken(t) => /\ In(t, file) => file.status[t] \in TakenUp
                       /\ open => Current.status[t] \in TakenUp \/ Away(t)
        /\ \A x \in Worker : Busy(x) /\ ~worker[x].cancelled /\ Walks(x) # shown
                               => Its(x).status[t] \in Done
    BY <1>a, <2>0 DEF SendingInv, CleanInv, CleanOf
  <2>2. ~worker[w].cancelled /\ Walks(w) = shown /\ open
    <3>1. ~worker[w].cancelled
      BY <1>d, <2>0
    <3>2. Walks(w) = shown
      BY <1>0, <2>0, <2>1, <3>1 DEF Done
    <3> QED
      BY <1>4, <3>1, <3>2
  <2>3. Current'.status[t] \in TakenUp /\ Current.status[t] \notin TakenUp
    BY <1>0, <1>4, <1>a, <2>0, <2>2 DEF Its, Current, TakenUp
  <2>4. \A x \in Worker : Busy(x) /\ ~worker[x].cancelled /\ Walks(x) # shown => Its(x)'.status[t] \in Done
    BY <1>0, <1>a, <2>1, <2>2
  <2>5. CASE o = "raise"
    <3>1. \A x \in Worker : InFlight(x, t)' => InFlight(x, t) /\ worker'[x] = worker[x]
      BY <1>4, <1>d, <2>5
    <3>2. (Taken(t)' => Taken(t)) /\ file' = file
      BY <1>b, <1>d, <2>5, <3>1 DEF Taken
    <3> QED
      BY <1>0, <1>b, <2>1, <2>3, <2>4, <3>1, <3>2
  <2>6. CASE o # "raise"
    <3>1. In(t, file') /\ file'.status[t] = "sending"
      BY <2>0, <2>6 DEF Records
    <3>2. ~Away(t)
      BY <1>0, <1>a, <3>1
    <3>3. ~Taken(t)
      BY <2>1, <2>2, <2>3, <3>2
    <3>4. cards[t] + comments[t] = 0 /\ \A x \in Worker : ~InFlight(x, t)
      <4>1. cards[t] \in Nat /\ comments[t] \in Nat
        BY <1>a DEF TypeOK
      <4> QED
        BY <3>3, <4>1 DEF Taken
    <3>5. \A x \in Worker : InFlight(x, t)' => x = w
      BY <1>4, <3>4
    <3>6. file'.status[t] \in TakenUp
      BY <3>1 DEF TakenUp
    <3> QED
      BY <1>0, <1>b, <2>2, <2>3, <2>4, <3>4, <3>5, <3>6
  <2> QED
    BY <2>5, <2>6
<1>8. CommentOf(t)'
  <2>0. CommentOf(t)
    BY <1>a DEF SendingInv, CommentInv
  <2>1. \A x \in ToSet(undo') : x.dup[t] = "none" <=> Current'.dup[t] = "none"
    BY <1>0, <1>b, <2>0 DEF CommentOf
  <2> SUFFICES ASSUME causes'[t] \cap {"undone", "raced"} = {}
               PROVE  /\ \A r, s \in Slot : /\ r # s /\ Live(r)' /\ Live(s)'
                                            /\ lists'[r].dup[t] # "none" /\ lists'[s].dup[t] # "none"
                                            => lists'[r].status[t] \in Done \/ lists'[s].status[t] \in Done
                      /\ \A x \in Worker : InFlight(x, t)' => Its(x)'.status[t] = "sending"
                      /\ \A y, x \in Worker : InFlight(y, t)' /\ InFlight(x, t)' /\ Walks(y)' = Walks(x)' => y = x
                      /\ \A x \in Worker : InFlight(x, t)' /\ worker'[x].pc \in {"look", "comment"}
                                             => Its(x)'.dup[t] # "none"
                      /\ \A x \in Worker : InFlight(x, t)' /\ worker'[x].pc = "comment" => comments'[t] = 0
                      /\ comments'[t] <= 1
    BY <2>1 DEF CommentOf
  <2>2. causes[t] \cap {"undone", "raced"} = {} /\ Its(w).status[t] \in {"pending", "failed"}
    BY <1>4, <1>e
  <2>3. /\ \A r, s \in Slot : /\ r # s /\ Live(r) /\ Live(s)
                              /\ lists[r].dup[t] # "none" /\ lists[s].dup[t] # "none"
                              => lists[r].status[t] \in Done \/ lists[s].status[t] \in Done
        /\ \A x \in Worker : InFlight(x, t) => Its(x).status[t] = "sending"
        /\ \A y, x \in Worker : InFlight(y, t) /\ InFlight(x, t) /\ Walks(y) = Walks(x) => y = x
        /\ \A x \in Worker : InFlight(x, t) /\ worker[x].pc \in {"look", "comment"}
                               => Its(x).dup[t] # "none"
        /\ \A x \in Worker : InFlight(x, t) /\ worker[x].pc = "comment" => comments[t] = 0
        /\ comments[t] <= 1
    BY <2>0, <2>2 DEF CommentOf
  <2>4. ASSUME NEW r \in Slot, NEW s \in Slot, r # s, Live(r), Live(s),
               lists[r].dup[t] # "none", lists[s].dup[t] # "none"
        PROVE  lists'[r].status[t] \in Done \/ lists'[s].status[t] \in Done
    <3>1. lists[r].status[t] \in Done \/ lists[s].status[t] \in Done
      BY <2>3, <2>4
    <3>2. lists[Walks(w)].status[t] \notin Done
      BY <2>2 DEF Its, Done
    <3>3. \A q \in Slot : lists[q].status[t] \in Done => lists'[q].status[t] \in Done
      BY <1>a, <1>c, <3>2
    <3> QED
      BY <3>1, <3>3
  <2>5. \A x \in Worker : InFlight(x, t)' => Its(x)'.status[t] = "sending"
    <3> SUFFICES ASSUME NEW x \in Worker, InFlight(x, t)' PROVE Its(x)'.status[t] = "sending"
      OBVIOUS
    <3>1. CASE Walks(x) = Walks(w)
      BY <1>0, <1>4, <1>a, <3>1
    <3>2. CASE Walks(x) # Walks(w)
      BY <1>0, <1>4, <1>a, <2>3, <3>2
    <3> QED
      BY <3>1, <3>2
  <2>6. \A x \in Worker : InFlight(x, t) => Walks(x) # Walks(w)
    <3> SUFFICES ASSUME NEW x \in Worker, InFlight(x, t), Walks(x) = Walks(w) PROVE FALSE
      OBVIOUS
    <3>1. Its(x).status[t] = "sending"
      BY <2>3
    <3> QED
      BY <2>2, <3>1 DEF Its
  <2>7. \A x, y \in Worker : InFlight(x, t)' /\ InFlight(y, t)' /\ Walks(x)' = Walks(y)' => x = y
    BY <1>0, <1>4, <2>3, <2>6
  <2>8. \A x \in Worker : InFlight(x, t)' /\ worker'[x].pc \in {"look", "comment"} => Its(x)'.dup[t] # "none"
    <3> SUFFICES ASSUME NEW x \in Worker, InFlight(x, t)', worker'[x].pc \in {"look", "comment"}
                 PROVE  Its(x).dup[t] # "none"
      BY <1>0
    <3>1. CASE x = w
      BY <1>d, <3>1
    <3>2. CASE x # w
      BY <1>4, <1>d, <2>3, <3>2
    <3> QED
      BY <3>1, <3>2
  <2>9. \A x \in Worker : InFlight(x, t)' /\ worker'[x].pc = "comment" => comments'[t] = 0
    BY <1>4, <1>b, <1>d, <2>3
  <2> QED
    BY <1>0, <1>b, <2>3, <2>4, <2>5, <2>7, <2>8, <2>9
<1> QED
  BY <1>0, <1>2, <1>3, <1>5, <1>6, <1>7, <1>8 DEF SendingInv, AheadInv, FileInv, CleanInv, CommentInv

(* A task is settled: its thread was the one that had it. *)
LEMMA SettleStep ==
    ASSUME SendingInv, NEW w \in Worker, NEW o \in Outcome, Settle(w, o)
    PROVE  SendingInv'
<1>x. PICK t \in Task : t = worker[w].task
  BY DEF SendingInv, ThreadInv, Settle, At, Flight
<1>y. PICK st \in Status : st = worker[w].result /\ st \in {"failed", "sent", "commented"}
  BY DEF SendingInv, ThreadInv, Settle, At, Status
<1>a. /\ TypeOK /\ worker \in [Worker -> Thread] /\ worker[w].pc = "settle" /\ worker[w].task = t
      /\ worker[w].result = st
      /\ lists \in [Slot -> List] /\ shown \in Slot
      /\ Walks(w) \in Slot
  BY <1>x, <1>y DEF SendingInv, TypeOK, Settle, At, Walks, Thread
<1>b. /\ lists' = [lists EXCEPT ![Walks(w)].status[t] = st]
      /\ Notify(w, "next", o)
      /\ UNCHANGED <<shown, undo, known, open, busy, frozen, cards, comments, causes>>
  BY <1>x, <1>y DEF Settle, tracker
<1>c. /\ lists' \in [Slot -> List]
      /\ \A s \in Slot : lists'[s].rows = lists[s].rows /\ lists'[s].dup = lists[s].dup
      /\ \A s \in Slot, u \in Task :
            lists'[s].status[u] = IF s = Walks(w) /\ u = t THEN st ELSE lists[s].status[u]
  <2> DEFINE new == [lists[Walks(w)] EXCEPT !.status[t] = st]
  <2>1. /\ new \in List /\ new.rows = Its(w).rows /\ new.dup = Its(w).dup
        /\ \A u \in Task : new.status[u] = IF u = t THEN st ELSE Its(w).status[u]
    BY <1>a DEF List, Its
  <2>2. lists' = [lists EXCEPT ![Walks(w)] = new]
    BY <1>a, <1>b
  <2> HIDE DEF new
  <2>3. lists' \in [Slot -> List] /\ lists'[Walks(w)] = new /\ \A s \in Slot : s # Walks(w) => lists'[s] = lists[s]
    BY <1>a, <2>1, <2>2
  <2> QED
    BY <1>a, <2>1, <2>3 DEF Its
<1>d. /\ worker' \in [Worker -> Thread] /\ \A x \in Worker : x # w => worker'[x] = worker[x]
      /\ worker'[w].slot = worker[w].slot /\ worker'[w].cancelled = worker[w].cancelled
      /\ worker'[w].pc \in {"next", "end"}
      /\ file' \in {file, ToFile(lists'[shown])} /\ file' \in Saved
      /\ worker[w].cancelled => file' = file
      /\ trouble' \in 0..MaxTrouble /\ posted' \subseteq {"row", "finished"}
  <2>1. lists'[shown] \in List /\ "next" \in {"look", "create", "next"}
    BY <1>a, <1>c
  <2> QED
    BY <1>a, <1>b, <2>1, NotifyEffect
<1>f. Wrote(w, t, st)
  BY <1>a, <1>b, <1>c, <1>d DEF Wrote
<1>0. /\ ThreadInv' /\ KnownInv'
      /\ Current \in List /\ Current' \in List
      /\ \A u \in Task : Current'.status[u] =
            IF Walks(w) = shown /\ u = t THEN st ELSE Current.status[u]
      /\ Current'.dup = Current.dup
      /\ \A u \in Task : In(u, Current') <=> In(u, Current)
      /\ \A u \in Task : In(u, file') <=> IF file' = file THEN In(u, file) ELSE In(u, Current)
      /\ \A u \in Task : file' # file /\ In(u, file') => file'.status[u] = Current'.status[u]
      /\ \A u \in Task : Away(u) => Away(u)' /\ ~In(u, file) /\ ~In(u, Current) /\ ~In(u, file')
      /\ \A x \in Worker : /\ Busy(x)' <=> Busy(x)
                           /\ Walks(x)' = Walks(x) /\ Walks(x) \in Slot
                           /\ worker'[x].cancelled = worker[x].cancelled
                           /\ Its(x)'.dup = Its(x).dup
                           /\ \A u \in Task : Its(x)'.status[u] =
                                 IF Walks(x) = Walks(w) /\ u = t THEN st ELSE Its(x).status[u]
                           /\ \A u \in Task : u # t \/ x # w => (InFlight(x, u)' <=> InFlight(x, u))
                           /\ \A u \in Task : InFlight(x, u) /\ x = w => u = t
      /\ \A u \in Task : u # t => (Taken(u)' <=> Taken(u))
      /\ \A s \in Slot : Live(s)' <=> Live(s)
      /\ Busy(w) /\ Live(Walks(w))
  BY <1>f, WroteEffect
<1>2. TypeOK'
  BY <1>a, <1>b, <1>c, <1>d DEF TypeOK
<1>3. \A z \in Task : z # t => AheadOf(z)' /\ FileOf(z)' /\ CleanOf(z)' /\ CommentOf(z)'
  BY <1>f, WroteOthers
<1>4. /\ InFlight(w, t) /\ Taken(t)
      /\ file' # file => open
      /\ \A x \in Worker : InFlight(x, t)' => InFlight(x, t) /\ x # w /\ worker'[x] = worker[x]
  <2>1. InFlight(w, t)
    BY <1>a DEF InFlight, Flight
  <2>2. Taken(t)
    BY <2>1 DEF Taken
  <2>3. file' # file => open
    BY <1>0, <1>d DEF SendingInv, ThreadInv
  <2>4. ~InFlight(w, t)'
    BY <1>d DEF InFlight, Flight
  <2>5. \A x \in Worker : InFlight(x, t)' => InFlight(x, t) /\ x # w /\ worker'[x] = worker[x]
    BY <1>0, <1>d, <2>4
  <2> QED
    BY <2>1, <2>2, <2>3, <2>5
<1>5. AheadOf(t)'
  <2> SUFFICES ASSUME open, In(t, file'), file'.status[t] # "pending", "undone" \notin causes[t]
               PROVE  Current'.status[t] # "pending"
    BY <1>b DEF AheadOf
  <2>1. CASE file' = file
    <3>1. Current.status[t] # "pending"
      BY <1>a, <2>1 DEF SendingInv, AheadInv, AheadOf
    <3> QED
      BY <1>0, <1>y, <3>1
  <2>2. CASE file' # file
    BY <1>0, <2>2
  <2> QED
    BY <2>1, <2>2
<1>6. FileOf(t)'
  <2> SUFFICES ASSUME causes[t] \cap {"unsaved", "undone"} = {}
               PROVE  /\ In(t, file') => file'.status[t] # "pending"
                      /\ open => Current'.status[t] # "pending" \/ Away(t)'
    BY <1>b DEF FileOf
  <2>1. /\ In(t, file) => file.status[t] # "pending"
        /\ open => Current.status[t] # "pending" \/ Away(t)
    BY <1>4 DEF SendingInv, FileInv, FileOf
  <2>2. open => Current'.status[t] # "pending" \/ Away(t)'
    BY <1>0, <1>y, <2>1
  <2>3. In(t, file') => file'.status[t] # "pending"
    BY <1>0, <1>4, <1>y, <2>1
  <2> QED
    BY <2>2, <2>3
<1>7. CleanOf(t)'
  <2> SUFFICES ASSUME causes[t] = {}
               PROVE  /\ \A y, x \in Worker : InFlight(y, t)' /\ InFlight(x, t)' => y = x
                      /\ \A x \in Worker : InFlight(x, t)' =>
                            /\ worker'[x].pc # "settle" \/ worker'[x].result = "failed"
                                 => cards'[t] + comments'[t] = 0
                            /\ ~worker'[x].cancelled => Walks(x)' = shown'
                      /\ cards'[t] + comments'[t] <= 1
                      /\ Taken(t)' => /\ In(t, file') => file'.status[t] \in TakenUp
                                      /\ open' => Current'.status[t] \in TakenUp \/ Away(t)'
                      /\ \A x \in Worker : Busy(x)' /\ ~worker'[x].cancelled /\ Walks(x)' # shown'
                                             => Its(x)'.status[t] \in Done
    BY <1>b DEF CleanOf
  <2>1. /\ \A y, x \in Worker : InFlight(y, t) /\ InFlight(x, t) => y = x
        /\ \A x \in Worker : InFlight(x, t) =>
              /\ worker[x].pc # "settle" \/ worker[x].result = "failed" => cards[t] + comments[t] = 0
              /\ ~worker[x].cancelled => Walks(x) = shown
        /\ cards[t] + comments[t] <= 1
        /\ Taken(t) => /\ In(t, file) => file.status[t] \in TakenUp
                       /\ open => Current.status[t] \in TakenUp \/ Away(t)
        /\ \A x \in Worker : Busy(x) /\ ~worker[x].cancelled /\ Walks(x) # shown
                               => Its(x).status[t] \in Done
    BY DEF SendingInv, CleanInv, CleanOf
  <2>2. \A x \in Worker : ~InFlight(x, t)'
    BY <1>4, <2>1
  <2>3. Taken(t)' => st \in TakenUp
    <3> SUFFICES ASSUME Taken(t)', st = "failed" PROVE FALSE
      BY <1>y DEF TakenUp
    <3>1. cards[t] + comments[t] = 0
      BY <1>4, <1>a, <2>1
    <3> QED
      BY <1>b, <2>2, <3>1 DEF Taken
  <2>4. Taken(t)' /\ open => Current'.status[t] \in TakenUp \/ Away(t)'
    BY <1>0, <1>4, <2>1, <2>3
  <2>5. Taken(t)' /\ In(t, file') => file'.status[t] \in TakenUp
    <3>1. Away(t)' => ~In(t, file')
      BY DEF Away
    <3> QED
      BY <1>0, <1>4, <2>1, <2>4, <3>1
  <2>6. \A x \in Worker : Busy(x) /\ ~worker[x].cancelled /\ Walks(x) # shown => Its(x)'.status[t] \in Done
    <3> SUFFICES ASSUME NEW x \in Worker, Busy(x), ~worker[x].cancelled, Walks(x) # shown
                 PROVE  Its(x)'.status[t] \in Done
      OBVIOUS
    <3>1. Its(x).status[t] \in Done
      BY <2>1
    <3>2. Walks(x) # Walks(w)
      <4>1. CASE worker[w].cancelled
        BY <1>0, <4>1 DEF SendingInv, ThreadInv
      <4>2. CASE ~worker[w].cancelled
        BY <1>4, <2>1, <4>2
      <4> QED
        BY <4>1, <4>2
    <3> QED
      BY <1>0, <3>1, <3>2
  <2> QED
    BY <1>0, <1>b, <2>1, <2>2, <2>4, <2>5, <2>6
<1>8. CommentOf(t)'
  <2>0. CommentOf(t)
    BY DEF SendingInv, CommentInv
  <2>1. \A x \in ToSet(undo') : x.dup[t] = "none" <=> Current'.dup[t] = "none"
    BY <1>0, <1>b, <2>0 DEF CommentOf
  <2> SUFFICES ASSUME causes[t] \cap {"undone", "raced"} = {}
               PROVE  /\ \A r, s \in Slot : /\ r # s /\ Live(r)' /\ Live(s)'
                                            /\ lists'[r].dup[t] # "none" /\ lists'[s].dup[t] # "none"
                                            => lists'[r].status[t] \in Done \/ lists'[s].status[t] \in Done
                      /\ \A x \in Worker : InFlight(x, t)' => Its(x)'.status[t] = "sending"
                      /\ \A y, x \in Worker : InFlight(y, t)' /\ InFlight(x, t)' /\ Walks(y)' = Walks(x)' => y = x
                      /\ \A x \in Worker : InFlight(x, t)' /\ worker'[x].pc \in {"look", "comment"}
                                             => Its(x)'.dup[t] # "none"
                      /\ \A x \in Worker : InFlight(x, t)' /\ worker'[x].pc = "comment" => comments'[t] = 0
                      /\ comments'[t] <= 1
    BY <1>b, <2>1 DEF CommentOf
  <2>3. /\ \A r, s \in Slot : /\ r # s /\ Live(r) /\ Live(s)
                              /\ lists[r].dup[t] # "none" /\ lists[s].dup[t] # "none"
                              => lists[r].status[t] \in Done \/ lists[s].status[t] \in Done
        /\ \A x \in Worker : InFlight(x, t) => Its(x).status[t] = "sending"
        /\ \A y, x \in Worker : InFlight(y, t) /\ InFlight(x, t) /\ Walks(y) = Walks(x) => y = x
        /\ \A x \in Worker : InFlight(x, t) /\ worker[x].pc \in {"look", "comment"}
                               => Its(x).dup[t] # "none"
        /\ \A x \in Worker : InFlight(x, t) /\ worker[x].pc = "comment" => comments[t] = 0
        /\ comments[t] <= 1
    BY <2>0 DEF CommentOf
  <2>4. ASSUME NEW r \in Slot, NEW s \in Slot, r # s, Live(r), Live(s),
               lists[r].dup[t] # "none", lists[s].dup[t] # "none"
        PROVE  lists'[r].status[t] \in Done \/ lists'[s].status[t] \in Done
    <3>1. lists[r].status[t] \in Done \/ lists[s].status[t] \in Done
      BY <2>3, <2>4
    <3>2. lists[Walks(w)].status[t] = "sending"
      BY <1>4, <2>3 DEF Its
    <3>3. \A q \in Slot : lists[q].status[t] \in Done => lists'[q].status[t] \in Done
      BY <1>a, <1>c, <3>2 DEF Done
    <3> QED
      BY <3>1, <3>3
  <2>5. \A x \in Worker : InFlight(x, t)' => Its(x)'.status[t] = "sending"
    BY <1>0, <1>4, <2>3
  <2>6. \A x, y \in Worker : InFlight(x, t)' /\ InFlight(y, t)' /\ Walks(x)' = Walks(y)' => x = y
    BY <1>0, <1>4, <2>3
  <2>7. \A x \in Worker : InFlight(x, t)' /\ worker'[x].pc \in {"look", "comment"} => Its(x)'.dup[t] # "none"
    BY <1>0, <1>4, <2>3
  <2>8. \A x \in Worker : InFlight(x, t)' /\ worker'[x].pc = "comment" => comments'[t] = 0
    BY <1>4, <1>b, <2>3
  <2> QED
    BY <1>0, <1>b, <1>c, <2>3, <2>4, <2>5, <2>6, <2>7, <2>8
<1> QED
  BY <1>0, <1>2, <1>3, <1>5, <1>6, <1>7, <1>8 DEF SendingInv, AheadInv, FileInv, CleanInv, CommentInv

(* A thread ends: its list is dropped unless it is shown or walked. *)
LEMMA FinishStep ==
    ASSUME SendingInv, NEW w \in Worker, Finish(w)
    PROVE  SendingInv'
<1>0. /\ worker[w].pc = "end" /\ worker' = [worker EXCEPT ![w] = Idle]
      /\ posted' \subseteq posted \cup {"finished"}
      /\ lists' = [s \in Slot |->
            IF (open /\ s = shown) \/ \E x \in Worker \ {w} : ~At(x, "idle") /\ Walks(x) = s
            THEN lists[s] ELSE Empty]
      /\ UNCHANGED <<shown, undo, known, file, open, busy, frozen, cards, comments, causes, trouble>>
  BY DEF Finish, At, LastPost, tracker
<1>1. Idle \in Thread /\ Idle.pc = "idle"
  BY SendingAssumption, FS_CardinalityType DEF Idle, Thread, Status, Slot
<1>2. /\ worker \in [Worker -> Thread] /\ lists \in [Slot -> List] /\ shown \in Slot
      /\ posted \subseteq {"row", "finished"}
  BY DEF SendingInv, TypeOK
<1>3. /\ worker' \in [Worker -> Thread] /\ worker'[w].pc = "idle"
      /\ \A x \in Worker : x # w => worker'[x] = worker[x]
  BY <1>0, <1>1, <1>2
<1>4. /\ lists' \in [Slot -> List]
      /\ \A s \in Slot : lists'[s] \in {lists[s], Empty}
      /\ open => lists'[shown] = lists[shown]
      /\ \A x \in Worker : x # w /\ Busy(x) => lists'[Walks(x)] = lists[Walks(x)]
  <2>1. \A x \in Worker : Walks(x) \in Slot
    BY <1>2 DEF Walks, Thread
  <2> QED
    BY <1>0, <1>2, <2>1, EmptyTyped DEF Busy, At
<1>5. \A x \in Worker : /\ Busy(x)' => x # w /\ Busy(x) /\ worker'[x] = worker[x]
                        /\ Busy(x)' => Walks(x)' = Walks(x) /\ Its(x)' = Its(x)
                        /\ \A t \in Task : InFlight(x, t)' <=> InFlight(x, t)
                        /\ \A t \in Task : InFlight(x, t) => Busy(x)'
  <2> TAKE x \in Worker
  <2>1. CASE x = w
    BY <1>0, <1>3, <2>1 DEF Busy, InFlight, Flight
  <2>2. CASE x # w
    <3>1. worker'[x] = worker[x] /\ (Busy(x)' <=> Busy(x)) /\ Walks(x)' = Walks(x)
      BY <1>3, <2>2 DEF Busy, Walks
    <3>2. \A t \in Task : (InFlight(x, t)' <=> InFlight(x, t)) /\ (InFlight(x, t) => Busy(x)')
      BY <3>1 DEF InFlight, Busy, Flight
    <3>3. Busy(x) => Its(x)' = Its(x)
      BY <1>4, <2>2, <3>1 DEF Its
    <3> QED
      BY <2>2, <3>1, <3>2, <3>3
  <2> QED
    BY <2>1, <2>2
<1>6. \A t \in Task : Taken(t)' <=> Taken(t)
  BY <1>0, <1>5 DEF Taken
<1>7. open => Current' = Current /\ \A t \in Task : Away(t)' <=> Away(t)
  BY <1>0, <1>4 DEF Current, Away
<1>8. TypeOK'
  BY <1>0, <1>2, <1>3, <1>4 DEF SendingInv, TypeOK
<1>9. ThreadInv'
  <2>1. \A x \in Worker : /\ worker'[x].pc \in Flight \cup {"mark"} => worker'[x].task \in Task
                          /\ worker'[x].pc = "settle" => worker'[x].result \in {"failed", "sent", "commented"}
    BY <1>3 DEF SendingInv, ThreadInv, Flight
  <2> QED
    BY <1>0, <1>5, <2>1 DEF SendingInv, ThreadInv
<1>10. KnownInv'
  <2>1. \A x \in Worker : worker'[x].pc \in Flight \cup {"mark"} => worker'[x].task \in known
    BY <1>3 DEF SendingInv, KnownInv, Flight
  <2>2. \A s \in Slot : ToSet(lists'[s].rows) \subseteq known
    BY <1>4, EmptyTyped DEF SendingInv, KnownInv
  <2> QED
    BY <1>0, <2>1, <2>2 DEF SendingInv, KnownInv
<1>11. AheadInv' /\ FileInv'
  BY <1>0, <1>6, <1>7 DEF SendingInv, AheadInv, AheadOf, FileInv, FileOf
<1>12. CleanInv'
  <2> SUFFICES ASSUME NEW t \in Task, causes[t] = {}
               PROVE  /\ \A y, x \in Worker : InFlight(y, t)' /\ InFlight(x, t)' => y = x
                      /\ \A x \in Worker : InFlight(x, t)' =>
                            /\ worker'[x].pc # "settle" \/ worker'[x].result = "failed"
                                 => cards'[t] + comments'[t] = 0
                            /\ ~worker'[x].cancelled => Walks(x)' = shown'
                      /\ cards'[t] + comments'[t] <= 1
                      /\ Taken(t)' => /\ In(t, file') => file'.status[t] \in TakenUp
                                      /\ open' => Current'.status[t] \in TakenUp \/ Away(t)'
                      /\ \A x \in Worker : Busy(x)' /\ ~worker'[x].cancelled /\ Walks(x)' # shown'
                                             => Its(x)'.status[t] \in Done
    BY <1>0 DEF CleanInv, CleanOf
  <2>1. /\ \A y, x \in Worker : InFlight(y, t) /\ InFlight(x, t) => y = x
        /\ \A x \in Worker : InFlight(x, t) =>
              /\ worker[x].pc # "settle" \/ worker[x].result = "failed" => cards[t] + comments[t] = 0
              /\ ~worker[x].cancelled => Walks(x) = shown
        /\ cards[t] + comments[t] <= 1
        /\ Taken(t) => /\ In(t, file) => file.status[t] \in TakenUp
                       /\ open => Current.status[t] \in TakenUp \/ Away(t)
        /\ \A x \in Worker : Busy(x) /\ ~worker[x].cancelled /\ Walks(x) # shown
                               => Its(x).status[t] \in Done
    BY DEF SendingInv, CleanInv, CleanOf
  <2> QED
    BY <1>0, <1>5, <1>6, <1>7, <2>1
<1>13. CommentInv'
  <2>1. \A s \in Slot : Live(s)' => Live(s) /\ lists'[s] = lists[s]
    BY <1>0, <1>4, <1>5 DEF Live
  <2>2. \A t \in Task : \A x \in ToSet(undo') : x.dup[t] = "none" <=> Current'.dup[t] = "none"
    <3>1. CASE open
      BY <1>0, <1>7, <3>1 DEF SendingInv, CommentInv, CommentOf
    <3>2. CASE ~open
      BY <1>0, <3>2 DEF SendingInv, KnownInv, ToSet
    <3> QED
      BY <3>1, <3>2
  <2> SUFFICES ASSUME NEW t \in Task, causes[t] \cap {"undone", "raced"} = {}
               PROVE  /\ \A r, s \in Slot : /\ r # s /\ Live(r)' /\ Live(s)'
                                            /\ lists'[r].dup[t] # "none" /\ lists'[s].dup[t] # "none"
                                            => lists'[r].status[t] \in Done \/ lists'[s].status[t] \in Done
                      /\ \A x \in Worker : InFlight(x, t)' => Its(x)'.status[t] = "sending"
                      /\ \A y, x \in Worker : InFlight(y, t)' /\ InFlight(x, t)' /\ Walks(y)' = Walks(x)' => y = x
                      /\ \A x \in Worker : InFlight(x, t)' /\ worker'[x].pc \in {"look", "comment"}
                                             => Its(x)'.dup[t] # "none"
                      /\ \A x \in Worker : InFlight(x, t)' /\ worker'[x].pc = "comment" => comments'[t] = 0
                      /\ comments'[t] <= 1
    BY <1>0, <2>2 DEF CommentInv, CommentOf
  <2>3. /\ \A r, s \in Slot : /\ r # s /\ Live(r) /\ Live(s)
                              /\ lists[r].dup[t] # "none" /\ lists[s].dup[t] # "none"
                              => lists[r].status[t] \in Done \/ lists[s].status[t] \in Done
        /\ \A x \in Worker : InFlight(x, t) => Its(x).status[t] = "sending"
        /\ \A y, x \in Worker : InFlight(y, t) /\ InFlight(x, t) /\ Walks(y) = Walks(x) => y = x
        /\ \A x \in Worker : InFlight(x, t) /\ worker[x].pc \in {"look", "comment"}
                               => Its(x).dup[t] # "none"
        /\ \A x \in Worker : InFlight(x, t) /\ worker[x].pc = "comment" => comments[t] = 0
        /\ comments[t] <= 1
    BY DEF SendingInv, CommentInv, CommentOf
  <2>4. \A r, s \in Slot : /\ r # s /\ Live(r)' /\ Live(s)'
                           /\ lists'[r].dup[t] # "none" /\ lists'[s].dup[t] # "none"
                           => lists'[r].status[t] \in Done \/ lists'[s].status[t] \in Done
    BY <2>1, <2>3
  <2> QED
    BY <1>0, <1>5, <2>3, <2>4
<1> QED
  BY <1>8, <1>9, <1>10, <1>11, <1>12, <1>13 DEF SendingInv

-----------------------------------------------------------------------------
(* The invariant *)

(* The invariant holds when the dialog is first opened. *)
LEMMA SendingInit == Init => SendingInv
<1> SUFFICES ASSUME Init PROVE SendingInv
  OBVIOUS
<1>1. /\ lists = [s \in Slot |-> IF s = 0 THEN Fresh ELSE Empty] /\ shown = 0
      /\ undo = <<>> /\ known = ToSet(Extracted) /\ file = ToFile(Fresh)
      /\ worker = [w \in Worker |-> Idle]
      /\ open = TRUE /\ busy = FALSE /\ frozen = FALSE /\ posted = {}
      /\ cards = [t \in Task |-> 0] /\ comments = [t \in Task |-> 0]
      /\ causes = [t \in Task |-> {}] /\ trouble = 0
  BY DEF Init
<1>2. Extracted \in Seq(Task) /\ ToSet(Extracted) \subseteq Task
  BY SendingAssumption DEF ToSet
<1>3. Fresh \in List /\ Fresh.rows = Extracted /\ \A t \in Task : Fresh.status[t] = "pending"
  BY <1>2 DEF Fresh, Empty, List, Status
<1>4. /\ ToFile(Fresh) \in Saved /\ ToFile(Fresh).rows = Fresh.rows
      /\ \A t \in Task : /\ In(t, ToFile(Fresh)) <=> In(t, Fresh)
                         /\ ToFile(Fresh).status[t] = IF In(t, Fresh) THEN Fresh.status[t] ELSE "pending"
  BY <1>3, ToFileTyped
<1>5. Idle \in Thread /\ Idle.pc = "idle"
  BY SendingAssumption, FS_CardinalityType DEF Idle, Thread, Status, Slot
<1>6. 0 \in Slot
  BY SendingAssumption, FS_CardinalityType DEF Slot
<1>7. lists \in [Slot -> List] /\ Current = Fresh
  BY <1>1, <1>3, <1>6, EmptyTyped DEF Current
<1>8. ToSet(undo) = {} /\ undo \in Seq(List) /\ Len(undo) = 0
  BY <1>1 DEF ToSet
<1>9. TypeOK
  <2>1. worker \in [Worker -> Thread] /\ Len(undo) <= UndoDepth /\ trouble \in 0..MaxTrouble
    BY <1>1, <1>5, <1>8, SendingAssumption
  <2> QED
    BY <1>1, <1>2, <1>4, <1>6, <1>7, <1>8, <2>1 DEF TypeOK
<1>10. \A w \in Worker : ~Busy(w) /\ worker[w].pc \notin Flight \cup {"mark"} /\ \A t \in Task : ~InFlight(w, t)
  BY <1>1, <1>5 DEF Busy, InFlight, Flight
<1>11. \A t \in Task : ~Taken(t) /\ cards[t] + comments[t] = 0 /\ comments[t] = 0
  BY <1>1, <1>10 DEF Taken
<1>12. ThreadInv
  <2>1. \A w \in Worker : worker[w].pc # "settle"
    BY <1>10 DEF Flight
  <2> QED
    BY <1>10, <2>1 DEF ThreadInv
<1>13. KnownInv
  <2>1. \A s \in Slot : ToSet(lists[s].rows) \subseteq known
    BY <1>1, <1>3, EmptyTyped
  <2> QED
    BY <1>1, <1>3, <1>4, <1>8, <1>10, <1>11, <2>1 DEF KnownInv
<1>14. AheadInv /\ FileInv
  <2>1. \A t \in Task : In(t, file) => file.status[t] = "pending"
    BY <1>1, <1>3, <1>4
  <2> QED
    BY <1>11, <2>1 DEF AheadInv, AheadOf, FileInv, FileOf
<1>15. CleanInv
  <2>1. \A t \in Task : cards[t] + comments[t] <= 1
    BY <1>11
  <2> QED
    BY <1>10, <1>11, <2>1 DEF CleanInv, CleanOf
<1>16. CommentInv
  <2>1. \A s \in Slot : Live(s) => s = shown
    BY <1>10 DEF Live
  <2>2. \A t \in Task : comments[t] <= 1
    BY <1>11
  <2> QED
    BY <1>8, <1>10, <2>1, <2>2 DEF CommentInv, CommentOf
<1> QED
  BY <1>9, <1>12, <1>13, <1>14, <1>15, <1>16 DEF SendingInv

(* The inductive invariant behind the four theorems below. *)
LEMMA SendingInvariant == Spec => []SendingInv
<1>1. SendingInv /\ [Next]_vars => SendingInv'
  <2> SUFFICES ASSUME SendingInv, [Next]_vars PROVE SendingInv'
    OBVIOUS
  <2>1. CASE User
    <3>1. ASSUME NEW o \in Outcome,
                 \/ Autosave(o) \/ SelectAll(o)
                 \/ \E t \in Task : AddTask(t, o)
                 \/ \E i \in 1..Len(Current.rows) : DeleteTask(i, o)
                 \/ \E w \in Worker, retry \in BOOLEAN : StartSend(w, retry, o)
                 \/ \E t \in Task : ToggleDup(t)
          PROVE  SendingInv'
      <4>1. TypeOK' /\ Edited
        BY <3>1, EditEffect DEF SendingInv
      <4> QED
        BY <4>1, EditStep
    <3>2. "ok" \in Outcome
      BY DEF Outcome
    <3>3. \/ Exit \/ Open \/ \E t \in Task : ToggleDup(t)
          \/ \E o \in Outcome :
                \/ Undo(o) \/ Close(o) \/ Autosave(o) \/ SelectAll(o)
                \/ \E t \in Task : AddTask(t, o)
                \/ \E i \in 1..Len(Current.rows) : DeleteTask(i, o)
                \/ \E w \in Worker, retry \in BOOLEAN : StartSend(w, retry, o)
      BY <2>1 DEF User, Edit
    <3> QED
      BY <3>1, <3>2, <3>3, UndoStep, CloseStep, OpenStep, ExitStep
  <2>2. CASE Callback \/ UNCHANGED vars
    BY <2>2, CallbackStep
  <2>3. ASSUME NEW w \in Worker, Step(w) PROVE SendingInv'
    <3>1. \/ Pick(w) \/ Create(w) \/ Look(w) \/ AddComment(w) \/ Finish(w)
          \/ \E o \in Outcome : Mark(w, o) \/ Settle(w, o)
      BY <2>3 DEF Step
    <3> QED
      BY <3>1, PickStep, RequestStep, FinishStep, MarkStep, SettleStep
  <2> QED
    BY <2>1, <2>2, <2>3 DEF Next
<1> QED
  BY <1>1, SendingInit, PTL DEF Spec

-----------------------------------------------------------------------------
(* What the user relies on *)

(* The states are those the types say. *)
THEOREM SendingTyped == Spec => []TypeOK
<1>1. SendingInv => TypeOK
  BY DEF SendingInv
<1> QED
  BY <1>1, SendingInvariant, PTL

(* A second card for a task has a cause: a lost answer, a save that left the
   sending out, Ctrl+Z, or two threads at once (the filters of sender.py and
   the save before the request). *)
THEOREM CardsNeedCauses == Spec => []CardNeedsCause
<1>1. SendingInv => CardNeedsCause
  <2> SUFFICES ASSUME SendingInv, NEW t \in Task, cards[t] > 1, causes[t] = {} PROVE FALSE
    BY DEF CardNeedsCause
  <2>1. cards[t] \in Nat /\ comments[t] \in Nat
    BY DEF SendingInv, TypeOK
  <2>2. cards[t] + comments[t] <= 1
    BY DEF SendingInv, CleanInv, CleanOf
  <2> QED
    BY <2>1, <2>2
<1> QED
  BY <1>1, SendingInvariant, PTL

(* A second comment on the old card of a task needs Ctrl+Z or a race: the
   marker on the card stops every other repetition (comment_exists). *)
THEOREM CommentsNeedRaces == Spec => []CommentNeedsRace
<1>1. SendingInv => CommentNeedsRace
  <2> SUFFICES ASSUME SendingInv, NEW t \in Task, comments[t] > 1, causes[t] \cap {"undone", "raced"} = {}
               PROVE  FALSE
    BY DEF CommentNeedsRace
  <2>1. comments[t] \in Nat
    BY DEF SendingInv, TypeOK
  <2>2. comments[t] <= 1
    BY DEF SendingInv, CommentInv, CommentOf
  <2> QED
    BY <2>1, <2>2
<1> QED
  BY <1>1, SendingInvariant, PTL

(* tasks.json never offers a task again that was sent, but for a save that was
   left out, Ctrl+Z, a race or a lost answer (_on_send_status_change saves
   before the request). *)
THEOREM FileKnows == Spec => []FileKnowsSent
<1>1. SendingInv => FileKnowsSent
  <2> SUFFICES ASSUME SendingInv, NEW t \in Task, cards[t] + comments[t] > 0, In(t, file)
               PROVE  \/ file.status[t] \in {"sending", "sent", "commented"}
                      \/ causes[t] \cap {"unsaved", "undone"} # {}
                      \/ file.status[t] = "failed" /\ causes[t] \cap {"lost", "raced"} # {}
    BY DEF FileKnowsSent
  <2>1. file.status[t] \in Status /\ causes[t] \in SUBSET Cause
    BY DEF SendingInv, TypeOK, Saved
  <2>2. Taken(t)
    BY DEF Taken
  <2>3. causes[t] \cap {"unsaved", "undone"} = {} => file.status[t] # "pending"
    BY <2>2 DEF SendingInv, FileInv, FileOf
  <2>4. causes[t] = {} => file.status[t] \in {"sending", "sent", "commented"}
    BY <2>2 DEF SendingInv, CleanInv, CleanOf, TakenUp
  <2> QED
    BY <2>1, <2>3, <2>4 DEF Status, Cause
<1> QED
  BY <1>1, SendingInvariant, PTL
=============================================================================
