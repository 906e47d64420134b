SPECIFICATION FairSpec
CONSTANTS
  MaxCalls = 3
  Streams = {s1, s2}
  Syncs = {y1}
  Opener = s1
  Stores <- BothStores
  Endings <- TwoEndings
  MaxCrashes = 1
  MaxAnswers = 3
  NoCall = NoCall
INVARIANTS TypeOK ExecutedAsDecided ContinuesWhenAnswered
PROPERTIES DecisionStands NeverLeftBetween
CHECK_DEADLOCK FALSE
