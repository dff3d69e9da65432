\* The configuration file, the keys in it and the folder it names.
SPECIFICATION MCSpec
CONSTANTS
  Providers = {assembly, deepgram}
  FirstProvider = assembly
  Keys = {k1, k2}
  NoKey = NoKey
  Cloud = Cloud
  Pairs = {Trello}
  Singles = {OpenRouter}
  Tk = Tk
  Threads = {t1}
  Torn = Torn
  NoFile = NoFile
  NoFolder = NoFolder
  MaxEdits = 2
  MaxFaults = 1
  MaxCrashes = 1
  Default = Default
  Legacy = Legacy
  Other = Other
  m1 = m1
  m2 = m2
  n1 = n1
  Meetings = {m1, m2}
  NewMeetings = {n1}
  NameOf <- MCNameOf
  MaxNames = 2
INVARIANTS
  FileRight
  KeyOfSlot
  
PROPERTIES
  ProgressEnds
CHECK_DEADLOCK FALSE
