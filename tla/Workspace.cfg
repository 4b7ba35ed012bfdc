SPECIFICATION Spec
CONSTANTS
  c1 = c1
  Site = {A, B}
  Ctrl = {c1}
  Edit = {e1}
  home <- MCHome
  Legacy = {B}
  MaxLoads = 3
  MaxPosts = 2
  MaxFails = 1
  NoSite = NoSite
  NoDesign = NoDesign
  NoRemoval = NoRemoval
CHECK_DEADLOCK FALSE
INVARIANTS TypeOK OpensWhatWasAsked DrawingKept DirtyHasASave
PROPERTY AnswerMeansSaved
