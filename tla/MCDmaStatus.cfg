SPECIFICATION FairSpec
INVARIANTS
  TypeOK
  CompletionNotLost
PROPERTIES
  OverflowShown
  CompletionShown
