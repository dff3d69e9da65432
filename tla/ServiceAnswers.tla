--------------------------- MODULE ServiceAnswers --------------------------
(* What the program asks of a speech service and what it makes of an answer;  *)
(* what it makes of a call to any service that fails, of the pages and boards *)
(* of a tracker, and of the reply of a language model: one state for every    *)
(* job, answer, failure, board and reply.                                     *)
EXTENDS Integers, FiniteSets, Sequences, SequencesExt, Inputs

CONSTANTS
  Languages,        \* what a job may name as its language
  Lengths,          \* of a recording, in minutes
  Sizes,            \* of a file, in GB; 0 when it cannot be read
  Voices, People,   \* the speakers of a service: numbered voices and known people
  MaxWords,         \* the longest answer
  Statuses,         \* of HTTP, of calls that fail
  Numbers,          \* what other numbers like these the text of a failure has
  Boards,           \* what a tracker has: the pages of its issues, or its lists by board
  Limits,           \* how many issues are asked for
  Teams,            \* the members and labels of a board, as the tracker tells them
  Replies,          \* the items that a language model makes of a meeting
  Notes,            \* of long meetings, as turns
  Caps,             \* how long a chunk of a note may be
  Answers,          \* that can be read, about a chunk
  Results,          \* of the question about the answers
  Garbled,          \* replies that cannot be read
  Headings,         \* what a language model writes of the minutes
  Attached,         \* the documents attached to a question
  Budgets           \* how long they may be together

ASSUME SpeechAssumption == Lengths \subseteq Nat /\ Sizes \subseteq Nat /\ MaxWords \in Nat

Speech == INSTANCE SpeechService
Tracker == INSTANCE TrackerReplies

Model == INSTANCE ModelReplies
Long == INSTANCE LongMeeting

Issues == [title : STRING, ref : STRING \ {Tracker!Absent}]
ASSUME TrackerAssumption ==
  /\ Statuses \subseteq 400 .. 599 /\ Numbers \subseteq Seq(400 .. 599)
  /\ Boards \subseteq Seq(Seq(Issues)) /\ Limits \subseteq Nat

RawItems == [object : BOOLEAN, title : STRING, description : STRING, priority : STRING, assignee : STRING,
             labels : Seq(STRING), due : [text : STRING, day : Int]]
ASSUME ReplyAssumption == Replies \subseteq Seq(RawItems)

Turns == [id : Nat, len : Nat]
Stated(item) == {f \in DOMAIN item : item[f] # Long!Missing}
Fact(item, key) ==    \* one of its fields says what it is, the others what is asked for besides
  /\ Stated(item) \subseteq Long!Names(key) \cup Long!Extras(key)
  /\ Cardinality(Stated(item) \cap Long!Names(key)) = 1
ASSUME MeetingAssumption ==
  /\ Notes \subseteq Seq(Turns) \ {<<>>} /\ Caps \subseteq Nat
  /\ \A answer \in Answers : Long!Reads(answer, Long!ChunkKeys)
  /\ \A result \in Results :
       /\ Long!Reads(result, Long!SynthesisKeys)
       /\ \A key \in Long!SynthesisKeys :
            \A i \in DOMAIN result[key] : Fact(result[key][i], Long!Asks(key))

PlainWords == {"word"} \X STRING
ASSUME MinutesAssumption == Headings \subseteq Seq([name : STRING, text : Seq(PlainWords)])
ASSUME DocumentsAssumption ==
  Attached \subseteq Seq([size : Nat, converts : BOOLEAN, len : Nat]) /\ Budgets \subseteq Nat

SeqsUpTo(S, n) == UNION {[1 .. k -> S] : k \in 0 .. n}

-----------------------------------------------------------------------------
(* A job as this program queues it, or as an older one did, which knew no     *)
(* modes.                                                                     *)
Queued(service) ==
  {Speech!Options(service, l, d, c) : l \in Languages, d \in BOOLEAN, c \in DOMAIN Speech!Counts}
Older == [language : Languages, diarize : BOOLEAN, asrOnly : {FALSE},
          count : {Speech!Counts[c] : c \in DOMAIN Speech!Counts}, enroll : {FALSE}, known : {{}}]

AskService ==
  \E service \in Speech!Services, voiceid \in BOOLEAN, people \in SUBSET People :
    \E o \in Queued(service) \cup Older, header, ffmpeg \in Lengths \cup {Speech!Unknown}, size \in Sizes :
      input' = [of |-> "request", service |-> service, options |-> o, voiceid |-> voiceid, people |-> people,
                header |-> header, ffmpeg |-> ffmpeg, size |-> size]

(* What is sent for a job: a service that cannot tell speakers apart is not   *)
(* asked to, a number of speakers is sent only with the question who speaks   *)
(* (but for a job without a mode, whose number the worker passes on),         *)
(* the program's own word for three languages never leaves it as a code, and  *)
(* known voices are sent only to the service that tells them apart - however  *)
(* old the queued options are.  A length that either reader of the file can   *)
(* tell is enough to keep a recording too long for the service from it, and   *)
(* to keep one too long to be cleaned of noise from that.                     *)
RequestHonest ==
  input.of = "request" =>
    LET service == input.service
        o == Speech!Job(service, input.options, input.voiceid, input.people)
        asked == Speech!Asked(service, o)
    IN \/ o.language = Speech!Mixed /\ service \notin Speech!Mixing /\ Speech!Refused(service, o)
       \/ /\ ~Speech!Refused(service, o)
          /\ asked.language.named # Speech!Mixed
          /\ asked.language.named # Speech!None => asked.language.named = o.language
          /\ asked.apart => service \in Speech!Diarizing
          /\ asked.count # Speech!Uncounted => asked.apart \/ input.options \in Older
          /\ asked.voices # {} => asked.apart /\ asked.voices = input.people
          /\ LET told == {input.header, input.ffmpeg} \ {Speech!Unknown}
                 length == Speech!Duration(input.header, input.ffmpeg)
                 Over(minutes) == told # {} /\ \A t \in told : t > minutes
                 Under(minutes) == \A t \in told : t <= minutes
             IN /\ Over(45) => ~Speech!Denoised(length, TRUE)
                /\ Under(45) => Speech!Denoised(length, TRUE)
                /\ Over(135) /\ service = "Gladia" => ~Speech!WithinLimits(service, length, input.size)
                /\ Under(135) /\ input.size < 3 => Speech!WithinLimits(service, length, input.size)
                /\ told # {} /\ service # "Groq" => Speech!Cost(service, length) # Speech!Unknown

-----------------------------------------------------------------------------
(* Words as the services send them: marks on their own only from Speechmatics,*)
(* which also may know a person; the others number the voices.                *)
Word(speakers, marks) ==
  [blank : {FALSE}, ends : BOOLEAN, mark : marks, speaker : speakers \cup {Speech!None}]
  \cup [blank : {TRUE}, ends : {FALSE}, mark : {FALSE}, speaker : {Speech!None}]
Words(service) ==
  IF service = "Speechmatics" THEN Word(Voices \cup People, BOOLEAN) ELSE Word(Voices, {FALSE})

AnswerComes ==
  \E service \in Speech!Services, diarize, text, enroll, turns \in BOOLEAN :
    \E items \in SeqsUpTo(Words(service), MaxWords) :
      /\ diarize => service \in Speech!Diarizing
      /\ enroll => service = "Speechmatics" /\ diarize
      /\ turns => service \in {"AssemblyAI", "Gladia", "Groq"}
      /\ service = "Gladia" => turns
      /\ service = "AssemblyAI" /\ ~turns => ~diarize
      /\ text => items = <<>>
      /\ input' = [of |-> "answer", service |-> service,
                   options |-> [language |-> Speech!None, count |-> Speech!Uncounted, diarize |-> diarize,
                                enroll |-> enroll, known |-> IF enroll THEN People ELSE {}],
                   reply |-> [turns |-> IF turns THEN items ELSE <<>>,
                              words |-> IF turns THEN <<>> ELSE items, text |-> text]]

(* What the segments hold, and that it is in the order of the answer, each    *)
(* word once.                                                                 *)
Held(segs) == UNION {ToSet(segs[s].toks) : s \in DOMAIN segs}
InOrder(segs) ==
  \A s, t \in DOMAIN segs : \A p \in DOMAIN segs[s].toks, q \in DOMAIN segs[t].toks :
    s < t \/ (s = t /\ p < q) => segs[s].toks[p] < segs[t].toks[q]

(* Every word of an answer is in exactly one segment, in the order it was     *)
(* said, but for the marks that follow no word; where speakers are told apart *)
(* a word that names one is in a segment of that speaker, and where they are  *)
(* not no segment has a speaker.                                              *)
AnswerWhole ==
  input.of = "answer" =>
    LET service == input.service
        reply == input.reply
        o == input.options
        items == Speech!Read(service, reply, o)
        segs == Speech!ToSegments(service, reply, o)
        said == {i \in DOMAIN items : ~items[i].blank /\ ~Speech!Leading(items, i)}
    IN /\ Held(segs) = IF reply.text /\ service # "Speechmatics" THEN {0} ELSE said
       /\ InOrder(segs)
       /\ \A s \in DOMAIN segs :
            IF o.diarize
            THEN \A i \in ToSet(segs[s].toks) \ {0} :
                   items[i].speaker # Speech!None /\ ~items[i].mark
                     => segs[s].speaker = Speech!LabelOf(items[i].speaker, o.known)
            ELSE segs[s].speaker = Speech!NoOne

-----------------------------------------------------------------------------
(* A call that fails, of each kind, with what else its text may say; and the  *)
(* pages and boards that a tracker answers with.                              *)
CallFails ==
  \E service \in ToSet(Tracker!Known), kind \in Tracker!Kinds, cause \in Tracker!Causes, port \in BOOLEAN,
     status \in Statuses, words \in SUBSET {"timeout", "tasks"}, numbers \in Numbers :
    /\ kind # "offline" => cause = "other" /\ ~port
    /\ kind = "timeout" => words = {}
    /\ input' = [of |-> "failure", service |-> service,
                 failure |-> [kind |-> kind, status |-> status, cause |-> cause, port |-> port,
                              words |-> words, numbers |-> numbers]]

TrackerAnswers ==
  \E pages \in Boards, max \in Limits : input' = [of |-> "board", max |-> max, pages |-> pages]

(* A call that fails is put down to its cause whatever else its text says: a  *)
(* connection that was not made, or not in time, is never blamed on the key   *)
(* or on the tracker, although its text may have numbers such as the port;    *)
(* a status is told by its own number, and named by it unless the text speaks *)
(* of a timeout.  Of a board everything with a title is looked at for         *)
(* duplicates, or at least the first Max issues; every list of every board is *)
(* a place for cards.                                                         *)
TrackerHeard ==
  /\ input.of = "failure" =>
       LET f == input.failure
           msg == Tracker!Message(input.service, f)
       IN /\ Tracker!Service(msg) = input.service
          /\ f.kind = "offline" => Tracker!Humanized(msg) \in {"unresolved", "refused", "no connection"}
          /\ f.kind = "timeout" => Tracker!Humanized(msg) = "timeout" /\ Tracker!ShortCode(msg) = "timeout"
          /\ f.kind = "status" =>
               /\ Tracker!ShortCode(msg) = f.status
               /\ "timeout" \notin f.words => Tracker!Humanized(msg) = Tracker!OfStatus(f.status)
  /\ input.of = "board" =>
       LET all == FlattenSeq(input.pages)
           seen == Tracker!Existing(Tracker!Listed(input.pages, input.max))
           boards == [p \in DOMAIN input.pages |->
                        [i \in DOMAIN input.pages[p] |-> [id |-> IF input.pages[p][i].title = "" THEN ""
                                                                 ELSE input.pages[p][i].ref]]]
       IN /\ \A i \in DOMAIN all : i <= input.max /\ all[i].title # "" => all[i] \in seen
          /\ {l.id : l \in Tracker!Places(boards)} = {r.ref : r \in {x \in ToSet(all) : x.title # ""}}

-----------------------------------------------------------------------------
ItemsAreRead ==
  \E items \in Replies, board \in Teams, service \in ToSet(Tracker!Trackers) :
    input' = [of |-> "items", items |-> items, board |-> board, service |-> service]

TeamOf(board) ==
  LET team == Tracker!Team(board)
  IN [members |-> {m.id : m \in team.members}, labels |-> {l.id : l \in team.labels}]

(* Whatever of a reply does not reach a task is counted: each item that is no *)
(* task, and each that is another task than it says, is at least one          *)
(* correction; nobody and nothing is assigned that the team does not have.    *)
(* The task then reaches the file and the card of its tracker as it is: each  *)
(* field the card is to have is there, with what the task says, and no other. *)
(* What a comment on the card is addressed to is in the file from then on.    *)
Faithful(task, item) ==
  /\ task.title = item.title /\ task.description = item.description
  /\ task.priority = item.priority \/ (task.priority = "none" /\ item.priority = Model!Absent)
  /\ task.assignee = item.assignee /\ task.labels = item.labels
  /\ task.due = IF item.due.text = Model!Absent THEN Model!NoDay ELSE item.due.day
ItemReachesCard ==
  input.of = "items" =>
    LET items == input.items
        team == TeamOf(input.board)
        read == Model!Parsed(items, team)
        kept == {i \in DOMAIN items : ~Model!Dropped(items[i])}
        changed == {i \in kept : ~Faithful(read.tasks[i], items[i])}
        wanted(task) == {"title"}
          \cup (IF task.priority = "none" THEN {} ELSE {IF input.service = "trello" THEN "description" ELSE "priority"})
          \cup (IF task.description = "" THEN {} ELSE {"description"})
          \cup (IF input.service = "glide" THEN {"key"}
                ELSE (IF task.assignee = "" THEN {} ELSE {"assignee"})
                     \cup (IF task.labels = <<>> THEN {} ELSE {"labels"})
                     \cup (IF task.due = Model!NoDay THEN {} ELSE {"due"}))
    IN read.outcome = "tasks" =>
         /\ DOMAIN read.tasks = kept
         /\ Cardinality((DOMAIN items \ kept) \cup changed) <= read.corrections
         /\ \A i \in kept :
              LET task == Model!Loaded(Model!Saved(Model!Fresh(read.tasks[i])))
                  card == Tracker!Card(input.service, task, i)
                  made == Tracker!Created(input.service, [id |-> "id", number |-> "", short |-> "short"])
                  sent == [task EXCEPT !.status = "sent", !.ref = made.ref, !.identifier = made.shown]
              IN /\ Model!Loaded(Model!Saved(sent)) = sent
                 /\ sent.ref # "" /\ (input.service # "linear" => sent.identifier # "")
                 /\ task.assignee \in team.members \cup {""}
                 /\ ToSet(task.labels) \subseteq team.labels
                 /\ task = Model!Fresh(read.tasks[i])
                 /\ Model!Loaded(Model!Raw(task)) = task
                 /\ DOMAIN card = wanted(task)
                 /\ \A f \in DOMAIN card \ {"priority", "description", "key"} : card[f] = task[f]

-----------------------------------------------------------------------------
(* A note of a long meeting: one of the replies may be unreadable, and one    *)
(* write may fail.                                                            *)
MeetingIsProcessed ==
  \E turns \in Notes, max \in Caps, answer \in Answers, result \in Results, write \in BOOLEAN, fails \in 0 .. 2 :
    LET n == Len(Long!Chunks(turns, max))
        good == [i \in 1 .. n + 1 |-> IF i <= n THEN answer ELSE result]
    IN \E bad \in 0 .. n + 1, reply \in Garbled :
         /\ bad # 0 => fails = 0 /\ ~Long!Reads(reply, Long!Question(bad, n))
         /\ input' = [of |-> "meeting", turns |-> turns, max |-> max, write |-> write, fails |-> fails,
                      bad |-> bad, replies |-> IF bad = 0 THEN good ELSE [good EXCEPT ![bad] = reply]]

(* Every turn of a long meeting is asked about once and in order, in chunks   *)
(* no longer than allowed unless they are one turn; nothing is asked after a  *)
(* reply that cannot be read, and no draft is written of it; the drafts hold  *)
(* every item of the result with its text, its owner and its evidence; and    *)
(* there is no list of tasks without the minutes.                             *)
Told(items, sections) ==
  \A i \in DOMAIN items :
    \E s \in ToSet(sections) : \E bullet \in ToSet(s) : {items[i][f] : f \in Stated(items[i])} \subseteq bullet
Length(chunk) ==
  LET Add(n, turn) == n + turn.len + Long!Separator
  IN FoldLeft(Add, -Long!Separator, chunk)
DraftsWhole ==
  input.of = "meeting" =>
    LET turns == input.turns
        chunks == Long!Chunks(turns, input.max)
        done == Long!Process(turns, input.max, input.replies)
        drafts == Long!Run(turns, input.max, input.replies, input.write, input.fails)
        result == input.replies[Len(input.replies)]
    IN /\ FlattenSeq(chunks) = turns
       /\ \A c \in ToSet(chunks) :
            Len(c) > 1 => Length(c) <= IF input.max < Long!Least THEN Long!Least ELSE input.max
       /\ done.asked = IF input.bad = 0 THEN Len(chunks) + 1 ELSE input.bad
       /\ input.bad # 0 \/ ~input.write => drafts = Long!NoDrafts
       /\ input.bad = 0 /\ input.write /\ input.fails # 1 =>
            \A key \in {"meeting_map", "decisions", "open_questions", "uncertainties"} :
              Told(result[key], drafts.protocol)
       /\ input.bad = 0 /\ input.write /\ input.fails = 0 => Told(result["tasks"], drafts.tasks)
       /\ drafts.tasks # <<>> => drafts.protocol # <<>>

-----------------------------------------------------------------------------
MinutesAreRead == \E reply \in Headings : input' = [of |-> "minutes", reply |-> reply]

(* The minutes are written when the reply has the five blocks, and only then; *)
(* they then hold the last text of each block and the date, each once, in the *)
(* order of the template.                                                     *)
MinutesWhole ==
  input.of = "minutes" =>
    LET date == <<Model!Plain("date")>>
        text == Model!Minutes(input.reply, date)
        LastOf(name) == CHOOSE i \in DOMAIN input.reply :
                          /\ input.reply[i].name = name
                          /\ \A j \in DOMAIN input.reply : input.reply[j].name = name => j <= i
    IN IF \E name \in Model!Blocks : \A b \in ToSet(input.reply) : b.name # name
       THEN text = <<>>
       ELSE text = FlattenSeq([i \in DOMAIN Model!Fields |->
                                IF Model!Fields[i] = "meeting_date" THEN date
                                ELSE input.reply[LastOf(Model!Fields[i])].text])

-----------------------------------------------------------------------------
DocumentsAreAttached ==
  \E docs \in Attached, budget \in Budgets : input' = [of |-> "documents", docs |-> docs, budget |-> budget]

(* One bad document never costs another its place in the question: which are  *)
(* there is told by each alone, and each adds its own length, or nothing, up  *)
(* to the budget.                                                             *)
DocumentsKept ==
  input.of = "documents" =>
    LET docs == input.docs
        sent == Model!Documents(docs, input.budget)
        Alone(i) == Model!Documents(<<docs[i]>>, input.budget).kept # {}
        Emptied(i) == Model!Documents([docs EXCEPT ![i].len = 0], input.budget)
    IN /\ sent.len <= input.budget
       /\ sent.cut => sent.len = input.budget
       /\ \A i \in DOMAIN docs :
            /\ i \in sent.kept <=> Alone(i)
            /\ i \notin sent.kept => Emptied(i).len = sent.len /\ (Emptied(i).cut <=> sent.cut)
            /\ i \in sent.kept /\ ~sent.cut => Emptied(i).len = sent.len - docs[i].len

DraftsAndMinutes == DraftsWhole /\ MinutesWhole /\ DocumentsKept

-----------------------------------------------------------------------------
SomethingComes ==
  /\ Idle
  /\ \/ AskService \/ AnswerComes \/ CallFails \/ TrackerAnswers \/ ItemsAreRead
     \/ MeetingIsProcessed \/ MinutesAreRead \/ DocumentsAreAttached
ServiceSpec == Idle /\ [][SomethingComes]_input
=============================================================================
