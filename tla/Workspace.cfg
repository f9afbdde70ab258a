CONSTANTS
  Requests = {r1, r2}
  Dispatches = {d1}
  Absent = Absent
  MaxAnswers = 2
  s1 = s1  c1 = c1
  i1 = i1  i2 = i2  i3 = i3  i4 = i4  i5 = i5
  p1 = p1  p2 = p2  p3 = p3
  g1 = g1  e1 = e1  n1 = n1
  sc1 = sc1 sc2 = sc2 sh1 = sh1 sh2 = sh2 u1 = u1 u2 = u2
  SequenceIds = {s1, s2}
  Canvases = {c1}
  Items = {i1, i2, i3, i4, i5, i6, i7}
  Scenes = {sc1, sc2}
  Shots = {sh1, sh2}
  Results = {u1, u2}
  ShotOf <- MCShotOf
  Placements = {p1, p2, p3, p4}
  Groups = {g1, g2}
  Edges = {e1}
  Notes = {n1}
  Views = {v1, v2}
  MaxZ = 6
  MaxBatch = 4
  Seeds <- MCSeeds
  Spots <- MCSpots
  ZIndexes = {1, 5}
  Spacings = {1}
  Restless = {sc1}
SYMMETRY Symmetric
SPECIFICATION Spec
INVARIANT DocumentsWellFormed EventsTellTheStory AnswersAgree
PROPERTY ToolsAreToldWhatChanged ArrangedStandApart
CHECK_DEADLOCK FALSE
