SPECIFICATION Spec
CONSTANTS
  Languages = {"none", "ru", "mixed"}
  Lengths = {40, 140}
  Sizes = {0, 1, 3}
  Voices = {"S1", "S2"}
  People = {"Ann"}
  MaxWords = 3
  Statuses = {400, 401, 403, 404, 429, 500}
  Numbers <- SmallNumbers
  Boards <- SmallBoards
  Limits = {1, 2, 3, 4}
  Teams <- SmallTeams
  Replies <- SmallReplies
  Notes <- SmallNotes
  Caps = {800, 1000, 1200}
  Answers <- SmallAnswers
  Results <- SmallResults
  Garbled <- SmallGarbled
  Headings <- SmallHeadings
  Attached <- SmallDocuments
  Budgets = {5, 9, 15}
  Speakers <- SmallSpeakers
  MaxSegments = 4
  VoiceLists <- SmallVoiceLists
  KnownVoices = {"Ann"}
  Normal <- SmallNormal
  Bindings <- SmallBindings
  Clips <- SmallClips
  Trees <- SmallTrees
  JobLists <- SmallJobLists
  NameOf <- SmallNames
  Archived <- SmallArchived
  MaxTurns = 4
INVARIANTS
  RequestHonest
  
  
  
  ItemReachesCard
  
  ViewWhole
CHECK_DEADLOCK FALSE
