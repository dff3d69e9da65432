----------------------------- MODULE LongMeeting -----------------------------
(* tasks/long_meeting.py: the note of a long meeting is cut into chunks, each *)
(* is asked about on its own, the answers are put together by one more        *)
(* question, and the result becomes two drafts beside the note.  A turn is    *)
(* [id, len]; a reply is a function from the keys it has to what they hold:   *)
(* a sequence of items, or Other; or it is no object at all.                  *)
(* A definition named Bug... is the one below it with a plausible mistake.    *)
EXTENDS Integers, Sequences, SequencesExt

NoObject == [key \in {} |-> <<>>]   \* not JSON, or JSON of another kind
Other == "other"                    \* a key that holds no list
Missing == ""                       \* a field that is absent, null or empty

Least == 1000                       \* chunk_transcript goes no lower
Separator == 2                      \* the blank line between two turns

-----------------------------------------------------------------------------
(* chunk_transcript: turns are added while they fit; one that fits nowhere is *)
(* a chunk of its own, longer than allowed.                                   *)
Empty == [out |-> <<>>, turns |-> <<>>, len |-> 0]
Cut(a) == IF a.turns = <<>> THEN a.out ELSE Append(a.out, a.turns)
BugChunks(turns, max) ==    \* the turn that did not fit is not carried over
  LET limit == IF max < Least THEN Least ELSE max
      Add(a, t) ==
        LET more == t.len + IF a.turns = <<>> THEN 0 ELSE Separator
        IN IF a.turns # <<>> /\ a.len + more > limit THEN [Empty EXCEPT !.out = Cut(a)]
           ELSE [a EXCEPT !.turns = Append(@, t), !.len = @ + more]
  IN Cut(FoldLeft(Add, Empty, turns))
Chunks(turns, max) ==
  LET limit == IF max < Least THEN Least ELSE max
      Add(a, t) ==
        LET more == t.len + IF a.turns = <<>> THEN 0 ELSE Separator
        IN IF a.turns # <<>> /\ a.len + more > limit
           THEN [out |-> Cut(a), turns |-> <<t>>, len |-> t.len]
           ELSE [a EXCEPT !.turns = Append(@, t), !.len = @ + more]
  IN Cut(FoldLeft(Add, Empty, turns))

(* parse_chunk_response and parse_synthesis_response.                         *)
Lists == {"decisions", "tasks", "open_questions", "uncertainties"}
ChunkKeys == Lists \cup {"topics"}
SynthesisKeys == Lists \cup {"meeting_map"}
Reads(reply, keys) == \A key \in keys : key \in DOMAIN reply /\ reply[key] # Other

-----------------------------------------------------------------------------
(* _bullet_items: the text of an item is what the section asks for, else its  *)
(* title, else its topic; what else the item says follows in brackets, unless *)
(* there is no text.  A bullet is the set of what it says.                    *)
Extras(key) == {"confidence", "owner", "deadline", "evidence"} \cup (IF key = "topic" THEN {"summary"} ELSE {})
Names(key) == {key, "title", "topic"}
Field(item, name) == IF name \in DOMAIN item THEN item[name] ELSE Missing
Title(item, key) ==
  IF Field(item, key) # Missing THEN Field(item, key)
  ELSE IF Field(item, "title") # Missing THEN Field(item, "title") ELSE Field(item, "topic")
Bullet(item, key) ==
  IF Title(item, key) = Missing THEN {}
  ELSE {Title(item, key)} \cup ({Field(item, name) : name \in Extras(key)} \ {Missing})
Bullets(items, key) == [i \in DOMAIN items |-> Bullet(items[i], key)]

Asks(list) == CASE list = "meeting_map" -> "topic" [] list = "tasks" -> "title" [] OTHER -> "text"
Section(result, list) == Bullets(result[list], Asks(list))
Protocol(result) == <<Section(result, "meeting_map"), Section(result, "decisions"),
                      Section(result, "open_questions"), Section(result, "uncertainties")>>
Tasks(result) == <<Section(result, "tasks")>>

-----------------------------------------------------------------------------
(* process_meeting_note: question i is about chunk i, the last one about the  *)
(* answers.  The first answer that cannot be read ends it; whatever was asked *)
(* is billed.  replies[i] answers question i.                                 *)
Question(i, n) == IF i <= n THEN ChunkKeys ELSE SynthesisKeys
Process(turns, max, replies) ==
  LET n == Len(Chunks(turns, max))
      bad == SelectInSeq([i \in 1 .. n + 1 |-> Reads(replies[i], Question(i, n))],
                         LAMBDA readable : ~readable)
  IN [asked |-> IF bad = 0 THEN n + 1 ELSE bad, read |-> bad = 0]

(* write_meeting_outputs: protocol.md, then tasks.md, each whole or not at    *)
(* all; fails is the number of the write that fails, 0 when none does.        *)
Drafts(result, fails) ==
  CASE fails = 1 -> [protocol |-> <<>>, tasks |-> <<>>]
    [] fails = 2 -> [protocol |-> Protocol(result), tasks |-> <<>>]
    [] OTHER -> [protocol |-> Protocol(result), tasks |-> Tasks(result)]

(* run_process_meeting, which writes only when it is told to.                 *)
NoDrafts == [protocol |-> <<>>, tasks |-> <<>>]
Run(turns, max, replies, write, fails) ==
  LET done == Process(turns, max, replies)
  IN IF write /\ done.read THEN Drafts(replies[done.asked], fails) ELSE NoDrafts
=============================================================================
