CONSTANTS
  Requests = {r1, r2}
  Dispatches = {}
  Absent = Absent
  MaxAnswers = 2
  MaxJournal = 9
  c1 = c1 c2 = c2 t1 = t1 t2 = t2 t3 = t3
  root = root child = child grandchild = grandchild stranger = stranger
  ChatIds = {c1, c2}
  PageLimit = 1
  TaskItems = {t1, t2, t3}
  Owner = root
  ParentRun <- MCParentRun
  Drafts <- MCDrafts
  MaxEdits = 2
  TransactionIds = {x1}
  ViewIds = {v1}
  Ranges <- MCRanges
  Citations <- MCCitations
  MaxBusy = 1
  Pages <- MCPages
  Stories <- MCStories
SYMMETRY Symmetric
SPECIFICATION Spec
INVARIANTS RecordsFollowJournal EditsKeepTheTree MessagesAreWhole WalksReadEveryMessageOnce
CHECK_DEADLOCK FALSE
