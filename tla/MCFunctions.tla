---------------------------- MODULE MCFunctions ----------------------------
(* The functions of the program that keep no state, on every input of a       *)
(* bounded set: one state per input, and a property of what each computes     *)
(* of it.                                                                     *)
EXTENDS ServiceAnswers, MeetingTexts, MeetingsShown

CONSTANTS MaxTurns   \* the longest notes that are enumerated

-----------------------------------------------------------------------------
(* The voices of a meeting and of an answer: Ann is known, one voice has      *)
(* nothing to be enrolled by.                                                 *)
SmallSpeakers == {Text!NoOne, <<"SPEAKER", "1">>, <<"SPEAKER", "2">>, <<"Ann">>}
Voice(raw, id) == [raw |-> raw, id |-> id]
SmallVoiceLists == {<<>>, <<Voice("S2", "b"), Voice("Ann", "c"), Voice("S1", "a")>>,
                    <<Voice("S3", "d"), Voice("S1", ""), Voice("S2", "b")>>}
SmallNormal == [raw \in {"S1", "S2", "S3", "Ann"} |-> Speech!Anonymous(raw)]
SmallBindings == {<<>>, <<"SPEAKER", "1">> :> <<"Bob">>, <<"SPEAKER", "2">> :> <<"Ann">>,
                  <<"SPEAKER", "1">> :> <<"Bob">> @@ <<"SPEAKER", "2">> :> <<"Bob">>}
SmallClips == [n : {0, 1, 50, 99, 100}, rate : {0, 10}, first : -1 .. 12, window : {0, 1, 4},
               ms : {0, 999, 1000, 59999, 60000, 3599999, 3600000, 86400001}]

-----------------------------------------------------------------------------
(* A note of a long meeting: turns that fit together, fit just, do not, and   *)
(* one that fits nowhere; results with items of every shape, and replies that *)
(* cannot be read.                                                            *)
SmallNotes ==
  {[i \in DOMAIN lens |-> [id |-> i, len |-> lens[i]]] :
     lens \in UNION {[1 .. k -> {300, 499, 500, 1200}] : k \in 1 .. MaxTurns}}
Lists == {<<>>, <<[title |-> "T", owner |-> "O", evidence |-> "E"],
                  [topic |-> "X", title |-> Long!Missing, confidence |-> "high"]>>}
SmallResults ==
  {[meeting_map |-> <<[topic |-> "M", summary |-> "S"]>>, decisions |-> decisions, tasks |-> tasks,
    open_questions |-> <<[text |-> "Q"]>>, uncertainties |-> <<[text |-> "U"]>>] : decisions, tasks \in Lists}
SmallAnswers == {[key \in Long!ChunkKeys |-> <<>>]}
AllKeys == Long!ChunkKeys \cup Long!SynthesisKeys
SmallGarbled == {Long!NoObject, [key \in AllKeys \ {"tasks"} |-> <<>>],
                 [key \in AllKeys |-> IF key = "tasks" THEN Long!Other ELSE <<>>]}

-----------------------------------------------------------------------------
(* The items of a reply, whose fields may be of another kind, unknown to the  *)
(* team, too old or absent; two of them are taken from a smaller set.         *)
SmallTeams == {[members |-> {[id |-> "m"], [id |-> ""]}, labels |-> {[id |-> "l", name |-> "L"], [id |-> "x", name |-> ""]}]}
Dates == {[text |-> Model!Absent, day |-> 0], [text |-> "date", day |-> -30],
          [text |-> "date", day |-> -31], [text |-> "soon", day |-> 0]}
Items(titles, descriptions) ==
  [object : {TRUE}, title : titles, description : descriptions,
   priority : {Model!Absent, "high", "none", "soon", Model!Foreign},
   assignee : {Model!Absent, "m", "ghost"}, labels : {<<>>, <<"l">>, <<"ghost", "l">>}, due : Dates]
Few == {[object |-> o, title |-> t, description |-> "d", priority |-> p, assignee |-> a,
         labels |-> <<"l">>, due |-> [text |-> "date", day |-> d]] :
          o \in BOOLEAN, t \in {"", "t"}, p \in {"low", "soon"}, a \in {"m", "ghost"}, d \in {-31, 1}}
SmallReplies == {<<i>> : i \in Items({"", "t", Model!Foreign}, {"", "d", Model!Foreign})} \cup (Few \X Few)

-----------------------------------------------------------------------------
(* The minutes: headings in any order, some twice or missing.                 *)
Texts == <<"a", "b", "c", "d", "e", "f">>
SmallHeadings ==
  {[i \in DOMAIN names |-> [name |-> names[i], text |-> <<Model!Plain(Texts[i])>>]] :
     names \in {SelectSeq(order, LAMBDA n : n # missing) \o more :
                  order \in {SetToSeq(Model!Blocks), Reverse(SetToSeq(Model!Blocks))},
                  more \in {<<>>, <<"agenda">>, <<"next">>}, missing \in Model!Blocks \cup {""}}}

(* Documents: one too large, one that cannot be converted, empty ones, in any *)
(* order.                                                                     *)
SmallDocuments == SeqsUpTo([size : {1, 50, 51}, converts : BOOLEAN, len : {0, 5, 6}], 3)

-----------------------------------------------------------------------------
(* The pages of a tracker: issues that differ, some of them without a title.  *)
Ref == <<"r1", "r2", "r3", "r4", "r5", "r6">>
SmallBoards ==
  LET First(pages, p) == LET Add(n, q) == n + pages[q]
                         IN FoldLeft(Add, 0, [q \in 1 .. p - 1 |-> q])
      Paged(pages, gaps) ==
        [p \in DOMAIN pages |->
           [i \in 1 .. pages[p] |->
              [title |-> IF First(pages, p) + i \in gaps THEN "" ELSE "t", ref |-> Ref[First(pages, p) + i]]]]
  IN {Paged(pages, gaps) : pages \in SeqsUpTo({0, 1, 2}, 3), gaps \in SUBSET (1 .. 4)}

(* Numbers that the text of a failure may have besides.                       *)
SmallNumbers == {<<>>, <<401>>, <<500, 404>>}

-----------------------------------------------------------------------------
(* The meetings directory: a meeting, a folder of a project with one, the     *)
(* recordings, and what is neither; and up to two jobs of the queue, of which *)
(* the first may have a folder there.                                         *)
Files == {{}, {"transcript.md"}, {"transcript.txt", "tasks.md"}, {"description.md", "protocol.md"},
          {"notes.md"}}
Entry(path, files, subs) ==
  [path |-> path, dir |-> TRUE, files |-> files, subs |-> subs, project |-> IF path = "p/m" THEN "p" ELSE "none",
   voices |-> 2]
SmallTrees ==
  {<<Entry("m", root, <<>>), Entry("p", inP, <<Entry("p/m", nested, <<>>)>>)>> \o recordings :
     root, nested, inP \in Files, recordings \in {<<>>, <<Entry("recordings", {"transcript.md"}, <<>>)>>}}
Jobs(id, folders, projects) ==    \* one that is done has a folder
  LET records == [id : {id}, folder : folders, audio : {"down/a.wav"}, auto : {TRUE}, project : projects,
                  status : View!States \cup {"paused"}, protocol : {FALSE}, tasks : {FALSE}, voices : {-1}]
  IN {View!Item(r) : r \in {j \in records : j.status = "done" => j.folder # "none"}}
SmallJobLists ==
  {<<>>} \cup {<<j>> : j \in Jobs("j", {"none", "m", "p/m"}, {"none", "p"})}
  \cup (Jobs("j", {"m"}, {"none"}) \X Jobs("k", {"none", "new"}, {"p"}))
SmallArchived == [j |-> "done/j", k |-> "done/k"]
SmallNames == [none |-> View!NoProject, p |-> "p"]

-----------------------------------------------------------------------------
Init == Idle
Next == SomethingComes \/ TextComes \/ MeetingsCome
Spec == Init /\ [][Next]_input
=============================================================================
