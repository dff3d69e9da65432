---------------------------- MODULE ModelReplies ----------------------------
(* What is made of the reply of a language model: the tasks of                *)
(* tasks/extractor.py and their records in tasks.json (tasks/schema.py), the  *)
(* minutes of tasks/protocol_generator.py, and the documents attached to the  *)
(* question (tasks/doc_context.py).  A field of a reply holds a text, is      *)
(* Absent, or holds a number where something else was asked for: Foreign.     *)
(* A definition named Bug... is the one below it with a plausible mistake.    *)
EXTENDS Integers, FiniteSets, Sequences, SequencesExt

Absent == ""
Foreign == "foreign"
NoDay == -1000

(* priority_from_string.                                                      *)
Priorities == {"urgent", "high", "medium", "low"}
Priority(name) == IF name \in Priorities THEN name ELSE "none"

(* _validate_due_date: a date that is at most thirty days past, as an offset  *)
(* from today.                                                                *)
Tolerance == 30
Due(due) == IF due.text = "date" /\ due.day >= -Tolerance THEN due.day ELSE NoDay

-----------------------------------------------------------------------------
(* parse_and_validate.  An item without a title is dropped; what the team     *)
(* does not have is taken out of the others; each is one correction.  Tasks   *)
(* and labels keep the places of what they were made of, which tell their     *)
(* order.                                                                     *)
Dropped(item) == ~item.object \/ item.title = Absent
Ghosts(item, team) == {p \in DOMAIN item.labels : item.labels[p] \notin team.labels}
TaskOf(item, team) ==
  [title |-> item.title, description |-> IF item.description = Foreign THEN Absent ELSE item.description,
   priority |-> Priority(item.priority),
   assignee |-> IF item.assignee \in team.members THEN item.assignee ELSE Absent,
   labels |-> Restrict(item.labels, DOMAIN item.labels \ Ghosts(item, team)), due |-> Due(item.due)]

Count(b) == IF b THEN 1 ELSE 0
BugCorrections(item, team) ==    \* a date that is cleared is not counted
  IF Dropped(item) THEN 1
  ELSE Count(item.priority \notin Priorities \cup {"none", Absent})
       + Count(item.assignee \notin team.members \cup {Absent})
       + Cardinality(Ghosts(item, team))
       + Count(item.description = Foreign)
Corrections(item, team) ==
  IF Dropped(item) THEN 1
  ELSE Count(item.priority \notin Priorities \cup {"none", Absent})
       + Count(item.assignee \notin team.members \cup {Absent})
       + Cardinality(Ghosts(item, team))
       + Count(item.due.text # Absent /\ Due(item.due) = NoDay)
       + Count(item.description = Foreign)

(* A title or a priority that is a number has no strip(): the whole reply is  *)
(* lost to an AttributeError.                                                 *)
Raises(item) ==
  /\ item.object
  /\ item.title = Foreign \/ (item.title # Absent /\ item.priority = Foreign)

Refused == [outcome |-> "refused", tasks |-> <<>>, corrections |-> 0]
Parsed(items, team) ==
  LET kept == {i \in DOMAIN items : ~Dropped(items[i])}
      Add(n, item) == n + Corrections(item, team)
  IN IF \E i \in ToSet(items) : Raises(i) THEN [Refused EXCEPT !.outcome = "raised"]
     ELSE IF kept = {} THEN Refused
     ELSE [outcome |-> "tasks", tasks |-> [i \in kept |-> TaskOf(items[i], team)],
           corrections |-> FoldLeft(Add, 0, items)]

-----------------------------------------------------------------------------
(* Task, with the defaults of its fields; to_dict, which leaves out what the  *)
(* board was found to have already; and from_dict, where a missing field      *)
(* other than the title has its default.                                      *)
Defaults ==
  [title |-> Absent, description |-> Absent, priority |-> "none", assignee |-> Absent, labels |-> <<>>,
   due |-> NoDay, selected |-> TRUE, status |-> "pending", identifier |-> Absent, url |-> Absent,
   ref |-> Absent, error |-> Absent, match |-> Absent, action |-> "comment"]
Fresh(task) == [f \in DOMAIN Defaults |-> IF f \in DOMAIN task THEN task[f] ELSE Defaults[f]]
Saved(task) == [f \in DOMAIN Defaults \ {"match", "action"} |-> task[f]]
Loaded(record) ==
  Fresh([f \in DOMAIN record |-> IF f = "priority" THEN Priority(record[f]) ELSE record[f]])

(* _task_to_raw_dict: tasks_raw.json keeps what the model said.               *)
RawFields == {"title", "description", "priority", "assignee", "labels", "due"}
Raw(task) == [f \in RawFields |-> task[f]]

-----------------------------------------------------------------------------
(* parse_llm_response: headings with their text; of two with one name the     *)
(* last counts, and five must be there.                                       *)
Blocks == {"meeting_type", "participants", "agenda", "theses_and_decisions", "action_items"}
Found(reply) == {reply[i].name : i \in DOMAIN reply}
BlockOf(reply, name) == reply[SelectLastInSeq(reply, LAMBDA b : b.name = name)].text
Readable(reply) == Blocks \subseteq Found(reply)

(* The template and substitute: fields are filled in one after the other, so  *)
(* that what stands in the text of one is filled in by those after it.  A     *)
(* text is a sequence of words; a word Hole(name) is "{name}".                *)
Fields == <<"meeting_type", "meeting_date", "participants", "agenda", "theses_and_decisions", "action_items">>
Hole(name) == <<"hole", name>>
Plain(word) == <<"word", word>>
Template == [i \in 1 .. Len(Fields) |-> Hole(Fields[i])]
Fill(text, name, value) ==
  FlattenSeq([i \in DOMAIN text |-> IF text[i] = Hole(name) THEN value ELSE <<text[i]>>])
Substitute(values) ==
  LET Put(text, name) == Fill(text, name, values[name])
  IN FoldLeft(Put, Template, Fields)

Minutes(reply, date) ==
  IF ~Readable(reply) THEN <<>>
  ELSE Substitute([name \in ToSet(Fields) |->
                     IF name = "meeting_date" THEN date ELSE BlockOf(reply, name)])

-----------------------------------------------------------------------------
(* convert_documents: one that is too large, cannot be converted or is empty  *)
(* is left out, and the rest cut to the budget.  A document is                *)
(* [size, converts, len]; the result says which are there and how long.       *)
MaxBytes == 50      \* MB
Fits(doc) == doc.size <= MaxBytes /\ doc.converts /\ doc.len > 0
Documents(docs, budget) ==
  LET Add(n, doc) == n + IF Fits(doc) THEN doc.len ELSE 0
      total == FoldLeft(Add, 0, docs)
  IN [kept |-> {i \in DOMAIN docs : Fits(docs[i])},
      len |-> IF total > budget THEN budget ELSE total, cut |-> total > budget]
=============================================================================
