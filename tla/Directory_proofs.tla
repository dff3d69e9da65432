-------------------------- MODULE Directory_proofs --------------------------
(***************************************************************************)
(* What the directory guarantees for any people, projects, voices and      *)
(* meetings, and any number of reads and saves that fail.                  *)
(***************************************************************************)
EXTENDS Directory, SequenceTheorems, TLAPS

-----------------------------------------------------------------------------
(* The store and what it promises *)

(* Saving a person sets its projects and touches nothing else. *)
LEMMA UpsertTyped ==
    ASSUME NEW s \in Store, NEW p \in Person, NEW X \in SUBSET Project
    PROVE  /\ Upsert(s, p, X) \in Store
           /\ Upsert(s, p, X).people = s.people \cup {p}
           /\ Upsert(s, p, X).projects = s.projects
           /\ Upsert(s, p, X).prints = s.prints
           /\ Upsert(s, p, X).member = [s.member EXCEPT ![p] = X]
BY DEF Upsert, Store

(* Deleting a person takes its memberships and voiceprints along, nobody else's. *)
LEMMA WithoutTyped ==
    ASSUME NEW s \in Store, NEW p \in Person
    PROVE  /\ Without(s, p) \in Store
           /\ Without(s, p).people = s.people \ {p}
           /\ Without(s, p).projects = s.projects
           /\ Without(s, p).member = [s.member EXCEPT ![p] = {}]
           /\ Without(s, p).prints[p] = <<>>
           /\ \A q \in Person \ {p} : Without(s, p).prints[q] = s.prints[q]
<1>1. <<>> \in Seq(Voice) /\ s.prints \in [Person -> Seq(Voice)]
  BY DEF Store
<1>2. Without(s, p).prints = [s.prints EXCEPT ![p] = <<>>]
  BY DEF Without, Store
<1> QED
  BY <1>1, <1>2 DEF Without, Store

(* Deleting a project takes it out of every person's list. *)
LEMMA WithoutProjectTyped ==
    ASSUME NEW s \in Store, NEW q
    PROVE  /\ WithoutProject(s, q) \in Store
           /\ WithoutProject(s, q).people = s.people
           /\ WithoutProject(s, q).projects = s.projects \ {q}
           /\ WithoutProject(s, q).prints = s.prints
           /\ \A p \in Person : WithoutProject(s, q).member[p] = s.member[p] \ {q}
BY DEF WithoutProject, Store

(* The cap keeps the newest voiceprints, the last one of all. *)
LEMMA CappedTyped ==
    ASSUME NEW prints \in Seq(Voice), NEW v \in Voice
    PROVE  /\ Capped(Append(prints, v)) \in Seq(Voice)
           /\ ToSet(Capped(Append(prints, v))) \subseteq ToSet(prints) \cup {v}
<1> DEFINE all == Append(prints, v)
           from == Len(all) - VoiceprintCap + 1
<1>1. /\ all \in Seq(Voice) /\ Len(all) = Len(prints) + 1 /\ Len(prints) \in Nat
      /\ \A i \in 1..Len(all) : all[i] = IF i = Len(all) THEN v ELSE prints[i]
      /\ DOMAIN all = 1..Len(all) /\ DOMAIN prints = 1..Len(prints)
  OBVIOUS
<1>2. ToSet(all) \subseteq ToSet(prints) \cup {v}
  BY <1>1 DEF ToSet
<1>3. CASE Len(all) > VoiceprintCap
  <2>1. from \in Int /\ Len(all) \in Int /\ \A i \in from..Len(all) : i \in 1..Len(all)
    BY <1>1, <1>3, DirectoryAssumption
  <2>2. \A i \in from..Len(all) : all[i] \in Voice
    BY <1>1, <2>1
  <2> DEFINE c == SubSeq(all, from, Len(all))
  <2>3. c \in Seq(Voice) /\ \A i \in 1..(Len(all) - from + 1) : c[i] = all[from + i - 1]
    <3> HIDE DEF all, from
    <3> QED
      BY <2>1, <2>2, SubSeqProperties
  <2>4. Len(c) = Len(all) - from + 1
    <3> HIDE DEF all
    <3>1. Len(all) \in Nat /\ VoiceprintCap \in Nat
      BY <1>1, DirectoryAssumption
    <3>2. from <= Len(all)
      BY <1>3, <3>1, DirectoryAssumption
    <3> HIDE DEF from
    <3> QED
      BY <2>1, <2>2, <3>2, SubSeqProperties
  <2>5. \A i \in DOMAIN c : c[i] \in ToSet(all)
    <3>1. DOMAIN c = 1..Len(c)
      BY <2>3
    <3>2. \A i \in 1..Len(c) : from + i - 1 \in from..Len(all)
      BY <2>1, <2>4
    <3> HIDE DEF from
    <3> QED
      BY <3>1, <3>2, <2>1, <2>3, <2>4, <1>1 DEF ToSet
  <2>6. Capped(all) = c
    BY <1>3 DEF Capped
  <2> QED
    BY <2>3, <2>5, <2>6, <1>2 DEF ToSet
<1>4. CASE ~(Len(all) > VoiceprintCap)
  BY <1>1, <1>2, <1>4 DEF Capped
<1> QED
  BY <1>3, <1>4

(* A voiceprint goes to one person; the oldest may go, no other voice comes in. *)
LEMMA WithPrintTyped ==
    ASSUME NEW s \in Store, NEW p \in Person, NEW v \in Voice
    PROVE  /\ WithPrint(s, p, v) \in Store
           /\ WithPrint(s, p, v).people = s.people
           /\ WithPrint(s, p, v).projects = s.projects
           /\ WithPrint(s, p, v).member = s.member
           /\ \A q \in Person \ {p} : WithPrint(s, p, v).prints[q] = s.prints[q]
           /\ ToSet(WithPrint(s, p, v).prints[p]) \subseteq ToSet(s.prints[p]) \cup {v}
<1>1. s.prints[p] \in Seq(Voice) /\ s.prints \in [Person -> Seq(Voice)]
  BY DEF Store
<1>2. WithPrint(s, p, v).prints = [s.prints EXCEPT ![p] = Capped(Append(s.prints[p], v))]
  BY DEF WithPrint, Store
<1>3. Capped(Append(s.prints[p], v)) \in Seq(Voice)
  BY <1>1, CappedTyped
<1> QED
  BY <1>1, <1>2, <1>3, CappedTyped DEF WithPrint, Store

(* A fact is a person, or a voice of a person. *)
LEMMA FactsOf ==
    ASSUME NEW s, NEW f
    PROVE  f \in Facts(s) <=> \/ \E p \in s.people : f = <<p>>
                              \/ \E p \in s.people : \E v \in ToSet(s.prints[p]) : f = <<p, v>>
BY DEF Facts

(* Saving a person keeps every fact the user may have been told. *)
LEMMA FactsOfUpsert ==
    ASSUME NEW s \in Store, NEW p \in Person, NEW X \in SUBSET Project
    PROVE  /\ Facts(s) \subseteq Facts(Upsert(s, p, X))
           /\ <<p>> \in Facts(Upsert(s, p, X))
           /\ s.prints[p] = <<>> => Facts(Upsert(s, p, X)) \subseteq Facts(s) \cup {<<p>>}
<1>1. /\ Upsert(s, p, X).people = s.people \cup {p}
      /\ Upsert(s, p, X).prints = s.prints
  BY UpsertTyped
<1>2. ToSet(<<>>) = {}
  BY DEF ToSet
<1> QED
  BY <1>1, <1>2, FactsOf

(* Deleting a person keeps every fact about the others. *)
LEMMA FactsOfWithout ==
    ASSUME NEW s \in Store, NEW p \in Person
    PROVE  \A f \in Facts(s) : f[1] # p => f \in Facts(Without(s, p))
<1> DEFINE new == Without(s, p)
<1>1. /\ new.people = s.people \ {p}
      /\ \A q \in Person \ {p} : new.prints[q] = s.prints[q]
  BY WithoutTyped
<1>2. s.people \subseteq Person
  BY DEF Store
<1> HIDE DEF new
<1>3. ASSUME NEW f \in Facts(s), f[1] # p
      PROVE  f \in Facts(new)
  <2>1. CASE \E q \in s.people : f = <<q>>
    BY <2>1, <1>1, <1>3, FactsOf
  <2>2. CASE \E q \in s.people : \E v \in ToSet(s.prints[q]) : f = <<q, v>>
    <3>1. PICK q \in s.people : \E v \in ToSet(s.prints[q]) : f = <<q, v>>
      BY <2>2
    <3>2. q \in new.people /\ new.prints[q] = s.prints[q]
      BY <3>1, <1>1, <1>2, <1>3
    <3> QED
      BY <3>1, <3>2, FactsOf
  <2> QED
    BY <2>1, <2>2, <1>3, FactsOf
<1> QED
  BY <1>3 DEF new

(* Adding a voiceprint keeps every fact but those of the prints pushed out. *)
LEMMA FactsOfWithPrint ==
    ASSUME NEW s \in Store, NEW p \in Person, NEW v \in Voice
    PROVE  LET new == WithPrint(s, p, v)
           IN  /\ Facts(new) \subseteq Facts(s) \cup {<<p, v>>}
               /\ Facts(s) \ {<<p, w>> : w \in Voice \ ToSet(new.prints[p])} \subseteq Facts(new)
<1> DEFINE new == WithPrint(s, p, v)
           gone == {<<p, w>> : w \in Voice \ ToSet(new.prints[p])}
<1>1. /\ new.people = s.people
      /\ \A q \in Person \ {p} : new.prints[q] = s.prints[q]
      /\ ToSet(new.prints[p]) \subseteq ToSet(s.prints[p]) \cup {v}
  BY WithPrintTyped
<1>2. s.people \subseteq Person /\ \A q \in Person : ToSet(s.prints[q]) \subseteq Voice
  BY DEF Store, ToSet
<1> HIDE DEF new
<1>3. ASSUME NEW f \in Facts(new)
      PROVE  f \in Facts(s) \cup {<<p, v>>}
  <2>1. CASE \E q \in new.people : f = <<q>>
    BY <2>1, <1>1, FactsOf
  <2>2. CASE \E q \in new.people : \E w \in ToSet(new.prints[q]) : f = <<q, w>>
    <3>0. PICK q \in s.people : \E w \in ToSet(new.prints[q]) : f = <<q, w>>
      BY <2>2, <1>1
    <3>1. PICK w \in ToSet(new.prints[q]) : f = <<q, w>>
      BY <3>0
    <3>2. w \in ToSet(s.prints[q]) \/ (q = p /\ w = v)
      BY <3>1, <1>1, <1>2
    <3> QED
      BY <3>1, <3>2, FactsOf
  <2> QED
    BY <2>1, <2>2, <1>3, FactsOf
<1>4. ASSUME NEW f \in Facts(s), f \notin gone
      PROVE  f \in Facts(new)
  <2>1. CASE \E q \in s.people : f = <<q>>
    BY <2>1, <1>1, FactsOf
  <2>2. CASE \E q \in s.people : \E w \in ToSet(s.prints[q]) : f = <<q, w>>
    <3>0. PICK q \in s.people : \E w \in ToSet(s.prints[q]) : f = <<q, w>>
      BY <2>2
    <3>1. PICK w \in ToSet(s.prints[q]) : f = <<q, w>>
      BY <3>0
    <3>2. w \in ToSet(new.prints[q])
      <4>1. CASE q = p
        BY <3>1, <4>1, <1>2, <1>4
      <4>2. CASE q # p
        BY <3>1, <4>2, <1>1, <1>2
      <4> QED
        BY <4>1, <4>2
    <3> QED
      BY <3>1, <3>2, <1>1, FactsOf
  <2> QED
    BY <2>1, <2>2, <1>4, FactsOf
<1> QED
  BY <1>3, <1>4 DEF new

-----------------------------------------------------------------------------
(* The invariants *)

Shape ==
    /\ file \in Store /\ app \in Store
    /\ dialog \in [open : BOOLEAN, store : Store, editing : Person \cup {Nobody},
                   offered : SUBSET Project, ticked : SUBSET Project]
    /\ bind \in [pc : {"closed", "form", "note", "enroll", "voiceprint", "drain"},
                 meeting : Meeting, left : Seq(Voice), who : [Voice -> Person \cup {Nobody}]]
    /\ reader \in [on : BOOLEAN, alone : BOOLEAN, left : SUBSET Person, got : SUBSET Person,
                   roster : SUBSET Person, size : {0} \cup {Cardinality(S) : S \in SUBSET Person}]

(* A binding under way has somebody for each voice that is left, whom the
   store has got before the voiceprint is added; the editor is closed then. *)
BindInv ==
    /\ bind.pc \in {"note", "enroll", "voiceprint"} =>
           \A v \in ToSet(bind.left) : bind.who[v] \in Person
    /\ bind.pc = "voiceprint" => bind.left # <<>> /\ Whom \in app.people
    /\ dialog.open => bind.pc = "closed"

(* Nobody has voiceprints who is not there. *)
Clean(s) == \A p \in Person \ s.people : s.prints[p] = <<>>
PrintsInv == Clean(file) /\ Clean(app) /\ Clean(dialog.store)

(* Every copy is sound, and so is the form that is being filled in. *)
Sound(s) == \A p \in s.people : s.member[p] \subseteq s.projects
RefsInv ==
    undeleted \/ /\ Sound(file) /\ Sound(app) /\ Sound(dialog.store)
                 /\ dialog.ticked \cup dialog.offered \subseteq dialog.store.projects

(* The copy that will be written next holds what was told; the window's also
   says nothing that the file does not. *)
Kept(s) == told \subseteq Facts(s) \cup unsaved
KeptInv ==
    unread \/ /\ Kept(file)
              /\ dialog.open => Kept(dialog.store)
              /\ ~dialog.open => Kept(app) /\ Facts(app) \subseteq Facts(file) \cup unsaved

(* What is missing in the roster is yet to be read. *)
RosterInv == reader.on => reader.roster = reader.got \cup (reader.left \cap reader.roster)

DirectoryInv == Shape /\ BindInv /\ PrintsInv /\ RefsInv /\ KeptInv /\ RosterInv

(* The empty store keeps all the promises of a store. *)
LEMMA EmptyTyped == /\ EmptyStore \in Store /\ Clean(EmptyStore) /\ Sound(EmptyStore)
                    /\ EmptyStore.people = {} /\ Facts(EmptyStore) = {}
<1>1. EmptyStore \in Store /\ EmptyStore.people = {}
  BY DEF EmptyStore, Store
<1>2. Clean(EmptyStore) /\ Sound(EmptyStore)
  BY DEF EmptyStore, Clean, Sound
<1>3. Facts(EmptyStore) = {}
  BY <1>1, FactsOf
<1> QED
  BY <1>1, <1>2, <1>3

(* The editor's form is well typed whatever it is filled from. *)
LEMMA FormTyped ==
    ASSUME NEW s \in Store, NEW editing \in Person \cup {Nobody}, NEW ticked
    PROVE  Form(s, editing, ticked) \in [open : BOOLEAN, store : Store, editing : Person \cup {Nobody},
                                          offered : SUBSET Project, ticked : SUBSET Project]
BY DEF Form, Store

(* A load() under the reader keeps its types, and the roster it will end with. *)
LEMMA ReaderTyped ==
    ASSUME Shape
    PROVE  /\ Resting \in [on : BOOLEAN, alone : BOOLEAN, left : SUBSET Person, got : SUBSET Person,
                           roster : SUBSET Person, size : {0} \cup {Cardinality(S) : S \in SUBSET Person}]
           /\ LoadUnder \in [on : BOOLEAN, alone : BOOLEAN, left : SUBSET Person, got : SUBSET Person,
                             roster : SUBSET Person, size : {0} \cup {Cardinality(S) : S \in SUBSET Person}]
           /\ RosterInv /\ LoadUnder.on => LoadUnder.roster = LoadUnder.got \cup (LoadUnder.left \cap LoadUnder.roster)
BY DEF Resting, LoadUnder, Shape, RosterInv

(* The closed binding dialog is well typed. *)
LEMMA UnboundTyped ==
    /\ Unbound \in [pc : {"closed", "form", "note", "enroll", "voiceprint", "drain"},
                    meeting : Meeting, left : Seq(Voice), who : [Voice -> Person \cup {Nobody}]]
    /\ Unbound.pc = "closed" /\ Unbound.left = <<>>
<1>1. (CHOOSE m \in Meeting : TRUE) \in Meeting
  BY DirectoryAssumption
<1> QED
  BY <1>1 DEF Unbound

(* Step by step: a step of the editor. *)
LEMMA EditStep ==
    ASSUME DirectoryInv, NEW ok \in BOOLEAN, Edit(ok)
    PROVE  DirectoryInv'
<1> USE DEF DirectoryInv
<1>1. CASE OpenDialog(ok)
  <2> DEFINE s == IF ok THEN file ELSE EmptyStore
  <2>1. s \in Store /\ Clean(s) /\ (undeleted \/ Sound(s))
    BY EmptyTyped DEF Shape, PrintsInv, RefsInv
  <2>2. dialog' = Form(s, Nobody, {}) /\ bind.pc = "closed" /\ unread' = (unread \/ ~ok)
        /\ UNCHANGED <<file, app, bind, reader, told, unsaved, undeleted>>
    BY <1>1 DEF OpenDialog, NobodyBinds, stores
  <2>3. dialog'.store = s /\ dialog'.open = TRUE
        /\ dialog'.ticked \cup dialog'.offered \subseteq s.projects
    BY <2>2 DEF Form
  <2>4. unread \/ ~ok \/ Kept(s)
    BY DEF KeptInv, Kept
  <2> HIDE DEF s
  <2>5. Shape'
    BY <2>1, <2>2, FormTyped DEF Shape
  <2>6. BindInv' /\ PrintsInv' /\ RosterInv'
    BY <2>1, <2>2, <2>3 DEF BindInv, PrintsInv, RosterInv, Clean, NextVoice, Whom
  <2>7. RefsInv'
    BY <2>1, <2>2, <2>3 DEF RefsInv, Sound
  <2>8. KeptInv'
    BY <2>2, <2>3, <2>4 DEF KeptInv, Kept
  <2> QED
    BY <2>5, <2>6, <2>7, <2>8
<1>2. CASE CloseDialog(ok)
  <2>1. /\ dialog.open /\ dialog' = Closed /\ unread' = (unread \/ ~ok)
        /\ IF ok THEN app' = file /\ reader' = LoadUnder ELSE UNCHANGED <<app, reader>>
        /\ UNCHANGED <<file, bind, told, unsaved, undeleted>>
    BY <1>2 DEF CloseDialog, CloseLoads, LoadApp
  <2>2. /\ Closed \in [open : BOOLEAN, store : Store, editing : Person \cup {Nobody},
                       offered : SUBSET Project, ticked : SUBSET Project]
        /\ Closed.store = EmptyStore /\ Closed.open = FALSE /\ Closed.ticked = {} /\ Closed.offered = {}
    BY EmptyTyped DEF Closed
  <2>3. Shape'
    BY <2>1, <2>2, ReaderTyped DEF Shape
  <2>4. BindInv'
    BY <2>1, <2>2 DEF BindInv, NextVoice, Whom
  <2>5. PrintsInv'
    BY <2>1, <2>2, EmptyTyped DEF PrintsInv
  <2>6. RefsInv'
    BY <2>1, <2>2, EmptyTyped DEF RefsInv
  <2>7. KeptInv'
    BY <2>1, <2>2 DEF KeptInv, Kept
  <2>8. RosterInv'
    BY <2>1, ReaderTyped DEF RosterInv
  <2> QED
    BY <2>3, <2>4, <2>5, <2>6, <2>7, <2>8
<1>3. ASSUME NEW p \in Person, SavePerson(p, ok) PROVE DirectoryInv'
  <2> DEFINE new == Upsert(dialog.store, p, dialog.ticked)
  <2>1. /\ dialog.open /\ file' = (IF ok THEN new ELSE file)
        /\ dialog' = IF ok THEN Form(new, Nobody, {}) ELSE [dialog EXCEPT !.store = new]
        /\ told' = IF ok THEN told \cup {<<p>>} ELSE told
        /\ UNCHANGED <<app, bind, reader, unread, unsaved, undeleted>>
    BY <1>3 DEF SavePerson, Save, AfterSave
  <2>2. dialog.store \in Store /\ dialog.ticked \in SUBSET Project
    BY DEF Shape
  <2>3. /\ new \in Store /\ new.people = dialog.store.people \cup {p}
        /\ new.projects = dialog.store.projects /\ new.prints = dialog.store.prints
        /\ new.member = [dialog.store.member EXCEPT ![p] = dialog.ticked]
    BY <2>2, UpsertTyped
  <2>4. Facts(dialog.store) \subseteq Facts(new) /\ <<p>> \in Facts(new)
    BY <2>2, FactsOfUpsert
  <2>5. Clean(new) /\ (undeleted \/ Sound(new))
    BY <2>2, <2>3 DEF PrintsInv, RefsInv, Clean, Sound, Store
  <2> HIDE DEF new
  <2>6. /\ dialog'.store = new /\ dialog'.open = TRUE
        /\ undeleted \/ dialog'.ticked \cup dialog'.offered \subseteq new.projects
    BY <2>1, <2>3 DEF Form, Shape, RefsInv
  <2>7. Shape'
    BY <2>1, <2>3, FormTyped DEF Shape
  <2>8. BindInv' /\ RosterInv'
    BY <2>1, <2>6 DEF BindInv, RosterInv, NextVoice, Whom
  <2>9. PrintsInv'
    BY <2>1, <2>5, <2>6 DEF PrintsInv
  <2>10. RefsInv'
    BY <2>1, <2>3, <2>5, <2>6 DEF RefsInv
  <2>11. KeptInv'
    BY <2>1, <2>4, <2>6 DEF KeptInv, Kept
  <2> QED
    BY <2>7, <2>8, <2>9, <2>10, <2>11
<1>4. ASSUME NEW p \in Person, DeletePerson(p, ok) PROVE DirectoryInv'
  <2> DEFINE new == Without(dialog.store, p)
  <2>1. /\ dialog.open /\ file' = (IF ok THEN new ELSE file)
        /\ dialog' = IF ok THEN Form(new, Nobody, {}) ELSE [dialog EXCEPT !.store = new]
        /\ told' = told \ About(p)
        /\ UNCHANGED <<app, bind, reader, unread, unsaved, undeleted>>
    BY <1>4 DEF DeletePerson, Save, AfterSave
  <2>2. dialog.store \in Store
    BY DEF Shape
  <2>3. /\ new \in Store /\ new.people = dialog.store.people \ {p}
        /\ new.projects = dialog.store.projects
        /\ new.prints[p] = <<>> /\ \A q \in Person \ {p} : new.prints[q] = dialog.store.prints[q]
        /\ new.member = [dialog.store.member EXCEPT ![p] = {}]
    BY <2>2, WithoutTyped
  <2>4. \A f \in Facts(dialog.store) : f[1] # p => f \in Facts(new)
    BY <2>2, FactsOfWithout
  <2>5. Clean(new) /\ (undeleted \/ Sound(new))
    BY <2>2, <2>3 DEF PrintsInv, RefsInv, Clean, Sound, Store
  <2> HIDE DEF new
  <2>6. /\ dialog'.store = new /\ dialog'.open = TRUE
        /\ undeleted \/ dialog'.ticked \cup dialog'.offered \subseteq new.projects
    BY <2>1, <2>3 DEF Form, Shape, RefsInv
  <2>7. Shape'
    BY <2>1, <2>3, FormTyped DEF Shape
  <2>8. BindInv' /\ RosterInv'
    BY <2>1, <2>6 DEF BindInv, RosterInv, NextVoice, Whom
  <2>9. PrintsInv'
    BY <2>1, <2>5, <2>6 DEF PrintsInv
  <2>10. RefsInv'
    BY <2>1, <2>3, <2>5, <2>6 DEF RefsInv
  <2>11. KeptInv'
    BY <2>1, <2>4, <2>6 DEF KeptInv, Kept, About
  <2> QED
    BY <2>7, <2>8, <2>9, <2>10, <2>11
<1>5. ASSUME NEW q \in Project, SaveProject(q, ok) PROVE DirectoryInv'
  <2> DEFINE new == [dialog.store EXCEPT !.projects = @ \cup {q}]
  <2>1. /\ dialog.open /\ file' = (IF ok THEN new ELSE file)
        /\ dialog' = [dialog EXCEPT !.store = new]
        /\ UNCHANGED <<app, bind, reader, told, unread, unsaved, undeleted>>
    BY <1>5 DEF SaveProject, Save
  <2>2. dialog.store \in Store
    BY DEF Shape
  <2>3. /\ new \in Store /\ new.people = dialog.store.people
        /\ new.projects = dialog.store.projects \cup {q}
        /\ new.prints = dialog.store.prints /\ new.member = dialog.store.member
    BY <2>2 DEF Store
  <2> HIDE DEF new
  <2>4. Facts(new) = Facts(dialog.store)
    BY <2>3 DEF Facts
  <2>5. Clean(new) /\ (undeleted \/ Sound(new))
    BY <2>2, <2>3 DEF PrintsInv, RefsInv, Clean, Sound
  <2>6. dialog'.store = new /\ dialog'.open = dialog.open
        /\ dialog'.ticked = dialog.ticked /\ dialog'.offered = dialog.offered
    BY <2>1 DEF Shape
  <2>7. Shape'
    BY <2>1, <2>3 DEF Shape
  <2>8. BindInv' /\ RosterInv'
    BY <2>1, <2>6 DEF BindInv, RosterInv, NextVoice, Whom
  <2>9. PrintsInv'
    BY <2>1, <2>5, <2>6 DEF PrintsInv
  <2>10. RefsInv'
    BY <2>1, <2>3, <2>5, <2>6 DEF RefsInv
  <2>11. KeptInv'
    BY <2>1, <2>4, <2>6 DEF KeptInv, Kept
  <2> QED
    BY <2>7, <2>8, <2>9, <2>10, <2>11
<1>6. ASSUME NEW q \in Project, DeleteProject(q, ok) PROVE DirectoryInv'
  <2> DEFINE new == WithoutProject(dialog.store, q)
  <2>1. /\ dialog.open /\ file' = (IF ok THEN new ELSE file)
        /\ dialog' = IF ok THEN Form(new, dialog.editing, dialog.ticked) ELSE [dialog EXCEPT !.store = new]
        /\ undeleted' = (undeleted \/ ~ok)
        /\ UNCHANGED <<app, bind, reader, told, unread, unsaved>>
    BY <1>6 DEF DeleteProject, Save, Reform
  <2>2. dialog.store \in Store /\ dialog.editing \in Person \cup {Nobody}
    BY DEF Shape
  <2>3. /\ new \in Store /\ new.people = dialog.store.people
        /\ new.projects = dialog.store.projects \ {q} /\ new.prints = dialog.store.prints
        /\ \A p \in Person : new.member[p] = dialog.store.member[p] \ {q}
    BY <2>2, WithoutProjectTyped
  <2> HIDE DEF new
  <2>4. Facts(new) = Facts(dialog.store)
    BY <2>3 DEF Facts
  <2>5. Clean(new) /\ (undeleted \/ Sound(new))
    BY <2>2, <2>3 DEF PrintsInv, RefsInv, Clean, Sound, Store
  <2>6. dialog'.store = new /\ dialog'.open = TRUE /\ (ok => dialog'.ticked \cup dialog'.offered \subseteq new.projects)
    BY <2>1 DEF Form, Shape
  <2>7. Shape'
    BY <2>1, <2>2, <2>3, FormTyped DEF Shape
  <2>8. BindInv' /\ RosterInv'
    BY <2>1, <2>6 DEF BindInv, RosterInv, NextVoice, Whom
  <2>9. PrintsInv'
    BY <2>1, <2>5, <2>6 DEF PrintsInv
  <2>10. RefsInv'
    BY <2>1, <2>5, <2>6 DEF RefsInv
  <2>11. KeptInv'
    BY <2>1, <2>4, <2>6 DEF KeptInv, Kept
  <2> QED
    BY <2>7, <2>8, <2>9, <2>10, <2>11
<1> QED
  BY <1>1, <1>2, <1>3, <1>4, <1>5, <1>6 DEF Edit

(* A step of the binding. *)
LEMMA BindStep ==
    ASSUME DirectoryInv, NEW ok \in BOOLEAN,
           \/ WriteNote(ok) \/ Enroll(ok) \/ AddVoiceprint(ok) \/ Drain(ok)
    PROVE  DirectoryInv'
<1> USE DEF DirectoryInv
<1> DEFINE Bound == [pc : {"closed", "form", "note", "enroll", "voiceprint", "drain"},
                     meeting : Meeting, left : Seq(Voice), who : [Voice -> Person \cup {Nobody}]]
           Raised == [Unbound EXCEPT !.pc = "form", !.meeting = bind.meeting]
<1>0. bind \in Bound /\ app \in Store /\ Raised \in Bound /\ Raised.pc = "form"
  BY UnboundTyped DEF Shape
<1>1. CASE WriteNote(ok)
  <2>1. /\ bind.pc = "note"
        /\ bind' = IF ok THEN [bind EXCEPT !.pc = "enroll"] ELSE Raised
        /\ UNCHANGED <<file, app, dialog, reader, told, unread, unsaved, undeleted>>
    BY <1>1 DEF WriteNote, Raise, stores, past
  <2>2. /\ bind' \in Bound /\ bind'.pc \in {"enroll", "form"}
        /\ bind'.pc = "enroll" => bind'.left = bind.left /\ bind'.who = bind.who
    BY <1>0, <2>1
  <2> HIDE DEF Raised
  <2>3. Shape'
    BY <2>1, <2>2 DEF Shape
  <2>4. BindInv'
    BY <2>1, <2>2 DEF BindInv
  <2>5. PrintsInv' /\ RefsInv' /\ KeptInv' /\ RosterInv'
    BY <2>1 DEF PrintsInv, RefsInv, KeptInv, Kept, RosterInv
  <2> QED
    BY <2>3, <2>4, <2>5
<1>2. CASE Enroll(ok) /\ Whom \in app.people
  <2>1. /\ bind.pc = "enroll" /\ bind.left # <<>>
        /\ bind' = [bind EXCEPT !.pc = "voiceprint"]
        /\ UNCHANGED <<file, app, dialog, reader, told, unread, unsaved, undeleted>>
    BY <1>2 DEF Enroll, stores
  <2>2. bind' \in Bound /\ bind'.pc = "voiceprint" /\ bind'.left = bind.left /\ bind'.who = bind.who
    BY <1>0, <2>1
  <2>3. Shape'
    BY <2>1, <2>2 DEF Shape
  <2>4. BindInv'
    BY <1>2, <2>1, <2>2 DEF BindInv, Whom, NextVoice
  <2>5. PrintsInv' /\ RefsInv' /\ KeptInv' /\ RosterInv'
    BY <2>1 DEF PrintsInv, RefsInv, KeptInv, Kept, RosterInv
  <2> QED
    BY <2>3, <2>4, <2>5
<1>3. CASE Enroll(ok) /\ Whom \notin app.people
  <2> DEFINE new == Upsert(app, Whom, {})
  <2>1. /\ bind.pc = "enroll" /\ bind.left # <<>>
        /\ app' = new /\ file' = (IF ok THEN new ELSE file)
        /\ unsaved' = IF ok THEN unsaved ELSE unsaved \cup {<<Whom>>}
        /\ bind' = IF ok THEN [bind EXCEPT !.pc = "voiceprint"] ELSE Raised
        /\ UNCHANGED <<dialog, reader, told, unread, undeleted>>
    BY <1>3 DEF Enroll, Save, Raise
  <2>2. Whom \in Person
    <3>1. Head(bind.left) \in ToSet(bind.left)
      BY <1>0, <2>1 DEF ToSet
    <3> QED
      BY <2>1, <3>1 DEF BindInv, Whom, NextVoice
  <2>3. app.prints[Whom] = <<>>
    BY <1>3, <2>2 DEF PrintsInv, Clean
  <2>4. /\ new \in Store /\ new.people = app.people \cup {Whom}
        /\ new.projects = app.projects /\ new.prints = app.prints
        /\ new.member = [app.member EXCEPT ![Whom] = {}]
    <3>1. app \in Store /\ {} \in SUBSET Project
      BY <1>0
    <3> HIDE DEF Bound, Raised, DirectoryInv
    <3>2. PICK none \in SUBSET Project : none = {}
      BY <3>1
    <3>3. app \in Store /\ Whom \in Person /\ none \in SUBSET Project
      BY <2>2, <3>1
    <3>4. /\ Upsert(app, Whom, none) \in Store
          /\ Upsert(app, Whom, none).people = app.people \cup {Whom}
          /\ Upsert(app, Whom, none).projects = app.projects
          /\ Upsert(app, Whom, none).prints = app.prints
          /\ Upsert(app, Whom, none).member = [app.member EXCEPT ![Whom] = none]
      BY <3>3, UpsertTyped
    <3> QED
      BY <3>2, <3>4
  <2>5. Facts(app) \subseteq Facts(new) /\ Facts(new) \subseteq Facts(app) \cup {<<Whom>>}
    BY <1>0, <2>2, <2>3, FactsOfUpsert
  <2>6. Clean(new) /\ (undeleted \/ Sound(new))
    BY <1>0, <2>2, <2>4 DEF PrintsInv, RefsInv, Clean, Sound, Store
  <2> HIDE DEF new, Raised
  <2>7. /\ bind' \in Bound /\ bind'.pc \in {"voiceprint", "form"}
        /\ bind'.pc = "voiceprint" => bind'.left = bind.left /\ bind'.who = bind.who
    BY <1>0, <2>1
  <2>8. ~dialog.open
    BY <2>1 DEF BindInv
  <2>9. Shape'
    BY <2>1, <2>4, <2>7 DEF Shape
  <2>10. BindInv'
    BY <2>1, <2>4, <2>7, <2>8 DEF BindInv, Whom, NextVoice
  <2>11. PrintsInv' /\ RosterInv'
    BY <2>1, <2>6 DEF PrintsInv, RosterInv
  <2>12. RefsInv'
    BY <2>1, <2>6 DEF RefsInv
  <2>13. KeptInv'
    BY <2>1, <2>5, <2>8 DEF KeptInv, Kept
  <2> QED
    BY <2>9, <2>10, <2>11, <2>12, <2>13
<1>4. CASE AddVoiceprint(ok)
  <2> DEFINE on == [bind EXCEPT !.pc = "enroll", !.left = Tail(@)]
             new == WithPrint(app, Whom, NextVoice)
             gone == {<<Whom, v>> : v \in Voice \ ToSet(new.prints[Whom])}
  <2>1. /\ bind.pc = "voiceprint" /\ bind.left # <<>> /\ Whom \in app.people /\ Whom \in Person
        /\ ~dialog.open /\ UNCHANGED <<dialog, reader, unread, undeleted>>
    BY <1>0, <1>4 DEF AddVoiceprint, BindInv, Store
  <2>2. NextVoice \in Voice
    BY <1>0, <2>1, HeadTailProperties DEF NextVoice
  <2>3. on \in Bound /\ on.pc = "enroll" /\ on.who = bind.who /\ ToSet(on.left) \subseteq ToSet(bind.left)
    <3>1. Tail(bind.left) \in Seq(Voice) /\ ToSet(Tail(bind.left)) \subseteq ToSet(bind.left)
      <4>1. /\ bind.left \in Seq(Voice) /\ Len(Tail(bind.left)) = Len(bind.left) - 1
            /\ \A i \in 1..Len(Tail(bind.left)) : Tail(bind.left)[i] = bind.left[i + 1]
            /\ Tail(bind.left) \in Seq(Voice)
        BY <1>0, <2>1, HeadTailProperties
      <4> QED
        BY <4>1 DEF ToSet
    <3> QED
      BY <1>0, <3>1
  <2>4. bind' \in {on, Raised}
    BY <1>4 DEF AddVoiceprint, Raise
  <2>5. CASE UNCHANGED <<file, app, told, unsaved>>
    <3> HIDE DEF on, Raised
    <3>1. Shape'
      BY <1>0, <2>1, <2>3, <2>4, <2>5 DEF Shape
    <3>2. BindInv'
      BY <1>0, <2>1, <2>3, <2>4, <2>5 DEF BindInv
    <3>3. PrintsInv' /\ RefsInv' /\ KeptInv' /\ RosterInv'
      BY <2>1, <2>5 DEF PrintsInv, RefsInv, KeptInv, Kept, RosterInv
    <3> QED
      BY <3>1, <3>2, <3>3
  <2>6. CASE /\ app' = new /\ file' = (IF ok THEN new ELSE file)
             /\ told' = told \ gone
             /\ unsaved' = IF ok THEN unsaved ELSE unsaved \cup {<<Whom, NextVoice>>}
    <3>1. /\ new \in Store /\ new.people = app.people /\ new.projects = app.projects
          /\ new.member = app.member
          /\ \A q \in Person \ {Whom} : new.prints[q] = app.prints[q]
      BY <1>0, <2>1, <2>2, WithPrintTyped
    <3>2. /\ Facts(new) \subseteq Facts(app) \cup {<<Whom, NextVoice>>}
          /\ Facts(app) \ gone \subseteq Facts(new)
      BY <1>0, <2>1, <2>2, FactsOfWithPrint
    <3>3. Clean(new) /\ (undeleted \/ Sound(new))
      BY <1>0, <2>1, <3>1 DEF PrintsInv, RefsInv, Clean, Sound
    <3> HIDE DEF new, gone, on, Raised
    <3>4. Shape'
      BY <1>0, <2>1, <2>3, <2>4, <2>6, <3>1 DEF Shape
    <3>5. BindInv'
      BY <1>0, <2>1, <2>3, <2>4, <2>6 DEF BindInv
    <3>6. PrintsInv' /\ RosterInv'
      BY <2>1, <2>6, <3>3 DEF PrintsInv, RosterInv
    <3>7. RefsInv'
      BY <2>1, <2>6, <3>3 DEF RefsInv
    <3>8. KeptInv'
      BY <2>1, <2>6, <3>2 DEF KeptInv, Kept
    <3> QED
      BY <3>4, <3>5, <3>6, <3>7, <3>8
  <2> QED
    BY <1>4, <2>5, <2>6 DEF AddVoiceprint, Save, stores
<1>5. CASE Drain(ok)
  <2>1. /\ bind.pc = "enroll" /\ bind' = Unbound
        /\ told \subseteq told' /\ told' \subseteq told \cup Facts(app)
        /\ UNCHANGED <<file, app, dialog, reader, unread, unsaved, undeleted>>
    BY <1>5 DEF Drain, stores
  <2>2. ~dialog.open
    BY <2>1 DEF BindInv
  <2>3. Shape' /\ BindInv'
    BY <2>1, <2>2, UnboundTyped DEF Shape, BindInv
  <2>4. PrintsInv' /\ RefsInv' /\ RosterInv'
    BY <2>1 DEF PrintsInv, RefsInv, RosterInv
  <2>5. KeptInv'
    BY <2>1, <2>2 DEF KeptInv, Kept
  <2> QED
    BY <2>3, <2>4, <2>5
<1> QED
  BY <1>1, <1>2, <1>3, <1>4, <1>5

(* What neither saves nor loads. *)
LEMMA OtherStep ==
    ASSUME DirectoryInv,
           \/ \E p \in Person \cup {Nobody} : LoadPerson(p)
           \/ \E q \in Project : Tick(q) \/ ReadRoster(q)
           \/ \E p \in Person : ReadPerson(p)
           \/ \E m \in Meeting : OpenBind(m)
           \/ CloseBind \/ RosterRead \/ Restart
           \/ \E who \in [Voice -> Person \cup {Nobody}] : Apply(who)
           \/ UNCHANGED vars
    PROVE  DirectoryInv'
<1> USE DEF DirectoryInv
<1>1. ASSUME NEW p \in Person \cup {Nobody}, LoadPerson(p) PROVE DirectoryInv'
  <2> DEFINE ticked == IF p = Nobody THEN {} ELSE dialog.store.member[p]
  <2>1. /\ dialog.open /\ dialog' = Form(dialog.store, p, ticked)
        /\ UNCHANGED <<file, app, bind, reader, told, unread, unsaved, undeleted>>
    BY <1>1 DEF LoadPerson, stores, past
  <2> HIDE DEF ticked
  <2>2. dialog'.store = dialog.store /\ dialog'.open = TRUE
        /\ dialog'.ticked \cup dialog'.offered \subseteq dialog.store.projects
    BY <2>1 DEF Form
  <2>3. Shape'
    BY <2>1, FormTyped DEF Shape
  <2>4. BindInv' /\ PrintsInv' /\ RefsInv' /\ KeptInv' /\ RosterInv'
    BY <2>1, <2>2 DEF BindInv, PrintsInv, RefsInv, KeptInv, Kept, RosterInv, Whom, NextVoice
  <2> QED
    BY <2>3, <2>4
<1>2. ASSUME NEW q \in Project, Tick(q) PROVE DirectoryInv'
  <2>1. /\ dialog.open /\ q \in dialog.offered
        /\ dialog' = [dialog EXCEPT !.ticked = (dialog.ticked \ {q}) \cup ({q} \ dialog.ticked)]
        /\ UNCHANGED <<file, app, bind, reader, told, unread, unsaved, undeleted>>
    BY <1>2 DEF Tick, stores, past, SymDiff
  <2>2. /\ dialog'.store = dialog.store /\ dialog'.open = TRUE /\ dialog'.offered = dialog.offered
        /\ dialog'.ticked \subseteq dialog.ticked \cup dialog.offered
    BY <2>1 DEF Shape
  <2>3. Shape'
    BY <2>1 DEF Shape
  <2>4. BindInv' /\ PrintsInv' /\ RosterInv'
    BY <2>1, <2>2 DEF BindInv, PrintsInv, RosterInv, Whom, NextVoice
  <2>5. RefsInv' /\ KeptInv'
    BY <2>1, <2>2 DEF RefsInv, KeptInv, Kept
  <2> QED
    BY <2>3, <2>4, <2>5
<1>3. ASSUME UNCHANGED <<file, app, dialog, bind, told, unread, unsaved, undeleted>>,
             \/ \E q \in Project : ReadRoster(q)
             \/ \E p \in Person : ReadPerson(p)
             \/ RosterRead
             \/ UNCHANGED reader
      PROVE  DirectoryInv'
  <2>1. reader' \in [on : BOOLEAN, alone : BOOLEAN, left : SUBSET Person, got : SUBSET Person,
                     roster : SUBSET Person, size : {0} \cup {Cardinality(S) : S \in SUBSET Person}]
        /\ RosterInv'
    <3>1. CASE \E q \in Project : ReadRoster(q)
      BY <3>1 DEF ReadRoster, Shape, RosterInv, Store
    <3>2. CASE \E p \in Person : ReadPerson(p)
      <4>1. PICK p \in Person : ReadPerson(p)
        BY <3>2
      <4>2. CASE reader' = Resting
        BY <4>2, ReaderTyped DEF RosterInv, Resting
      <4>3. CASE reader' = [reader EXCEPT !.left = @ \ {p}, !.got = @ \cup ({p} \cap reader.roster)]
        BY <4>1, <4>3 DEF Shape, RosterInv
      <4> QED
        BY <4>1, <4>2, <4>3 DEF ReadPerson
    <3>3. CASE RosterRead
      BY <3>3, ReaderTyped DEF RosterRead, RosterInv, Resting
    <3>4. CASE UNCHANGED reader
      BY <3>4 DEF Shape, RosterInv
    <3> QED
      BY <1>3, <3>1, <3>2, <3>3, <3>4
  <2>2. Shape'
    BY <1>3, <2>1 DEF Shape
  <2>3. BindInv' /\ PrintsInv' /\ RefsInv' /\ KeptInv'
    BY <1>3 DEF BindInv, PrintsInv, RefsInv, KeptInv, Kept, Whom, NextVoice
  <2> QED
    BY <2>1, <2>2, <2>3
<1>4. CASE (\E m \in Meeting : OpenBind(m)) \/ CloseBind
  <2>1. /\ ~dialog.open
        /\ bind' \in [pc : {"closed", "form", "note", "enroll", "voiceprint", "drain"},
                      meeting : Meeting, left : Seq(Voice), who : [Voice -> Person \cup {Nobody}]]
        /\ bind'.pc \in {"closed", "form"}
        /\ UNCHANGED <<file, app, dialog, reader, told, unread, unsaved, undeleted>>
    BY <1>4, UnboundTyped DEF OpenBind, CloseBind, BindInv, stores, past
  <2>2. Shape' /\ BindInv'
    BY <2>1 DEF Shape, BindInv
  <2>3. PrintsInv' /\ RefsInv' /\ KeptInv' /\ RosterInv'
    BY <2>1 DEF PrintsInv, RefsInv, KeptInv, Kept, RosterInv
  <2> QED
    BY <2>2, <2>3
<1>5. CASE Restart
  <2>1. /\ app' = file /\ dialog' = Closed /\ bind' = Unbound /\ reader' = Resting
        /\ UNCHANGED <<file, told, unread, unsaved, undeleted>>
    BY <1>5 DEF Restart, past
  <2>2. /\ Closed \in [open : BOOLEAN, store : Store, editing : Person \cup {Nobody},
                       offered : SUBSET Project, ticked : SUBSET Project]
        /\ Closed.store = EmptyStore /\ Closed.open = FALSE /\ Closed.ticked = {} /\ Closed.offered = {}
    BY EmptyTyped DEF Closed
  <2>3. Shape'
    BY <2>1, <2>2, UnboundTyped, ReaderTyped DEF Shape
  <2>4. BindInv' /\ PrintsInv' /\ RefsInv'
    BY <2>1, <2>2, UnboundTyped, EmptyTyped DEF BindInv, PrintsInv, RefsInv
  <2>5. KeptInv' /\ RosterInv'
    BY <2>1, <2>2 DEF KeptInv, Kept, RosterInv, Resting
  <2> QED
    BY <2>3, <2>4, <2>5
<1>6. ASSUME NEW who \in [Voice -> Person \cup {Nobody}], Apply(who) PROVE DirectoryInv'
  <2>1. /\ bind.pc = "form"
        /\ \A v \in ToSet(Pending[bind.meeting]) \cap Voice : who[v] \in app.people \cup (Person \ used)
        /\ bind' = [bind EXCEPT !.pc = "note", !.left = Pending[bind.meeting], !.who = who]
        /\ UNCHANGED <<file, app, dialog, reader, told, unread, unsaved, undeleted>>
    BY <1>6 DEF Apply, stores, past
  <2>2. Pending[bind.meeting] \in Seq(Voice) /\ app.people \subseteq Person
    BY DirectoryAssumption DEF Shape, Store
  <2>3. ToSet(Pending[bind.meeting]) \subseteq Voice
    BY <2>2 DEF ToSet
  <2>4. /\ bind' \in [pc : {"closed", "form", "note", "enroll", "voiceprint", "drain"},
                      meeting : Meeting, left : Seq(Voice), who : [Voice -> Person \cup {Nobody}]]
        /\ bind'.pc = "note" /\ bind'.who = who /\ bind'.left = Pending[bind.meeting]
    BY <1>6, <2>1, <2>2 DEF Shape
  <2>5. Shape'
    BY <2>1, <2>4 DEF Shape
  <2>6. BindInv'
    BY <2>1, <2>2, <2>3, <2>4 DEF BindInv
  <2>7. PrintsInv' /\ RefsInv' /\ KeptInv' /\ RosterInv'
    BY <2>1 DEF PrintsInv, RefsInv, KeptInv, Kept, RosterInv
  <2> QED
    BY <2>5, <2>6, <2>7
<1>7. CASE \/ \E q \in Project : ReadRoster(q)
           \/ \E p \in Person : ReadPerson(p)
           \/ RosterRead
           \/ UNCHANGED vars
  BY <1>3, <1>7 DEF ReadRoster, ReadPerson, RosterRead, vars, stores, past
<1> QED
  BY <1>1, <1>2, <1>4, <1>5, <1>6, <1>7

(* The inductive invariant behind the three theorems below. *)
LEMMA DirectoryInvariant == Spec => []DirectoryInv
<1>1. Init => DirectoryInv
  <2> SUFFICES ASSUME Init PROVE DirectoryInv
    OBVIOUS
  <2>1. /\ Closed \in [open : BOOLEAN, store : Store, editing : Person \cup {Nobody},
                       offered : SUBSET Project, ticked : SUBSET Project]
        /\ Closed.store = EmptyStore /\ Closed.open = FALSE /\ Closed.ticked = {} /\ Closed.offered = {}
    BY EmptyTyped DEF Closed
  <2>2. Shape
    BY <2>1, EmptyTyped, UnboundTyped DEF Init, Shape, Resting
  <2>3. BindInv /\ PrintsInv /\ RefsInv
    BY <2>1, EmptyTyped, UnboundTyped DEF Init, BindInv, PrintsInv, RefsInv
  <2>4. KeptInv /\ RosterInv
    BY <2>1, EmptyTyped DEF Init, KeptInv, Kept, RosterInv, Resting
  <2> QED
    BY <2>2, <2>3, <2>4 DEF DirectoryInv
<1>2. DirectoryInv /\ [Next]_vars => DirectoryInv'
  BY EditStep, BindStep, OtherStep DEF Next
<1> QED
  BY <1>1, <1>2, PTL DEF Spec

-----------------------------------------------------------------------------
(* The theorems *)

(* What the editor or the binding reported as saved stays in directory.json,
   whichever copy is written next, unless a load has failed or it is something
   whose own save failed in a binding. *)
THEOREM SavedStay == Spec => []SavedStays
<1>1. DirectoryInv => SavedStays
  BY DEF DirectoryInv, KeptInv, Kept, SavedStays
<1> QED
  BY <1>1, DirectoryInvariant, PTL

(* No person of the file belongs to a project that is gone, unless the save of
   a deletion failed: delete_project takes the id from everyone, and the form
   that is being filled in loses its tick. *)
THEOREM RefsStayValid == Spec => []RefsValid
<1>1. DirectoryInv => RefsValid
  BY DEF DirectoryInv, RefsInv, Sound, RefsValid
<1> QED
  BY <1>1, DirectoryInvariant, PTL

(* The queue's thread returns the whole roster of the moment it began to read,
   whatever the window's thread loads and binds meanwhile. *)
THEOREM RostersWhole == Spec => []RosterWhole
<1>1. DirectoryInv => RosterWhole
  BY DEF DirectoryInv, RosterInv, RosterWhole
<1> QED
  BY <1>1, DirectoryInvariant, PTL

=============================================================================
