--------------------------- MODULE TrackerReplies ---------------------------
(* What the clients of the trackers and of OpenRouter say when a call fails,  *)
(* and what is made of it (tasks/errors.py, _short_error_code of              *)
(* tasks/sender.py); the pages of a list of issues, what a list of boards and *)
(* cards is turned into, and what a tracker is told of a task                 *)
(* (tasks/*_client.py, tasks/backends/*.py).                                  *)
(* A definition named Bug... is the one below it with a plausible mistake.    *)
EXTENDS Integers, FiniteSets, Sequences, SequencesExt

Absent == ""
NoDay == -1000
Trackers == <<"linear", "glide", "trello">>
Known == Trackers \o <<"openrouter">>

-----------------------------------------------------------------------------
(* A failure is [kind, status, cause, port, words, numbers]: the kind of the  *)
(* exception or "status"; why there was no connection, and whether its text   *)
(* names the port, as that of requests does; and which of the words below and *)
(* which numbers from 400 to 599 the rest of the text has.                    *)
Kinds == {"offline", "timeout", "network", "status", "reply", "graphql"}
Causes == {"dns", "refused", "other"}
Https == 443

(* _request, _graphql and complete: the text of the exception they raise.     *)
Message(service, f) ==
  [services |-> {service},
   words |-> f.words \cup CASE f.kind = "offline" -> {"connection", f.cause}
                            [] f.kind = "timeout" -> {"timeout"}
                            [] f.kind = "reply" -> {"json"}
                            [] OTHER -> {},
   numbers |-> CASE f.kind = "offline" -> (IF f.port THEN <<Https>> ELSE <<>>) \o f.numbers
                 [] f.kind = "status" -> <<f.status>> \o f.numbers
                 [] f.kind = "timeout" -> <<>>
                 [] OTHER -> f.numbers]

(* _detect_backend and _extract_http_status.                                  *)
Service(msg) == LET i == SelectInSeq(Known, LAMBDA s : s \in msg.services)
                IN IF i = 0 THEN Absent ELSE Known[i]
Status(msg) == IF msg.numbers = <<>> THEN 0 ELSE msg.numbers[1]

(* humanize: the first that applies.                                          *)
OfStatus(status) ==
  CASE status = 401 -> "key"
    [] status = 403 -> "rights"
    [] status = 404 -> "missing"
    [] status = 429 -> "limit"
    [] status \in 500 .. 599 -> "server"
    [] OTHER -> "refused request"
BugHumanized(msg) ==    \* the status is looked at first
  IF Status(msg) # 0 THEN OfStatus(Status(msg))
  ELSE IF "dns" \in msg.words THEN "unresolved"
  ELSE IF "refused" \in msg.words THEN "refused"
  ELSE IF "connection" \in msg.words THEN "no connection"
  ELSE IF "timeout" \in msg.words THEN "timeout" ELSE "other"
Humanized(msg) ==
  IF "dns" \in msg.words THEN "unresolved"
  ELSE IF "refused" \in msg.words THEN "refused"
  ELSE IF "connection" \in msg.words THEN "no connection"
  ELSE IF "timeout" \in msg.words THEN "timeout"
  ELSE IF Status(msg) # 0 THEN OfStatus(Status(msg))
  ELSE IF "tasks" \in msg.words THEN "no tasks"
  ELSE IF "json" \in msg.words THEN "bad reply" ELSE "other"

(* _short_error_code, the badge of a task that failed: a number first.        *)
ShortCode(msg) ==
  IF Status(msg) # 0 THEN Status(msg)
  ELSE IF "connection" \in msg.words THEN "network"
  ELSE IF "timeout" \in msg.words THEN "timeout" ELSE Absent

-----------------------------------------------------------------------------
(* list_issues: pages are asked for until the last or until there are Max     *)
(* issues or more.  A page is the issues it has.                              *)
Listed(pages, max) ==
  LET Take(all, page) == IF Len(all) >= max THEN all ELSE all \o page
  IN FoldLeft(Take, <<>>, pages)

(* list_containers: a list with an identifier is a place for cards, a board   *)
(* without lists is none.  Boards are sequences of lists.                     *)
Places(boards) == {l \in UNION {ToSet(boards[b]) : b \in DOMAIN boards} : l.id # Absent}

(* board_context: members with an identifier, labels that have a name too.    *)
Team(board) ==
  [members |-> {m \in board.members : m.id # Absent},
   labels |-> {l \in board.labels : l.id # Absent /\ l.name # Absent}]

(* list_existing and the registry of what may be a duplicate.                 *)
Existing(items) == {i \in ToSet(items) : i.title # Absent /\ i.ref # Absent}

-----------------------------------------------------------------------------
(* create of each backend: what the new card is told; a field that is empty  *)
(* is not sent and keeps the tracker's default.  Trello has no priorities: it *)
(* stands before the description.  Glide takes no people, labels and dates,   *)
(* and a key that tells a retry.                                              *)
Levels == [urgent |-> 1, high |-> 2, medium |-> 3, low |-> 4]
Glides == [urgent |-> "critical", high |-> "high", medium |-> "medium", low |-> "low"]
Empty == [description |-> Absent, priority |-> "none", assignee |-> Absent, labels |-> <<>>, due |-> NoDay]
Given(task) == {f \in DOMAIN Empty : task[f] # Empty[f]}
Fields(service, given) ==
  CASE service = "linear" -> {"title"} \cup given
    [] service = "glide" -> {"title", "key"} \cup (given \cap {"description", "priority"})
    [] service = "trello" -> {"title"} \cup (given \ {"priority"})
                             \cup (IF "priority" \in given THEN {"description"} ELSE {})
Card(service, task, local) ==
  [f \in Fields(service, Given(task)) |->
     CASE f = "key" -> local
       [] f = "priority" -> IF service = "linear" THEN Levels[task.priority] ELSE Glides[task.priority]
       [] f = "description" /\ service = "trello" /\ task.priority # "none" -> <<task.priority, task.description>>
       [] OTHER -> task[f]]

(* CreatedIssue: what the row of the task shows, and what a later comment is  *)
(* addressed to.                                                              *)
Created(service, reply) ==
  [ref |-> reply.id,
   shown |-> CASE service = "linear" -> reply.number
               [] service = "trello" -> IF reply.number # Absent THEN reply.number ELSE reply.short
               [] OTHER -> reply.id]
=============================================================================
