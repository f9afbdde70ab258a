CONSTANTS
  Requests = {r1}
  Dispatches = {d1, d2}
  Absent = Absent
  MaxAnswers = 2
  sc1 = sc1 sh1 = sh1 u1 = u1 u2 = u2 k1 = k1 k2 = k2 k3 = k3 k4 = k4 D1 = D1 i1 = i1 i2 = i2
  ObjectIds = {sc1, sh1, r1, d1, d2}
  Contents = {"plain", "rich"}
  Results = {u1, u2}
  ShotOf <- MCShotOf
  DecisionActions = {"select", "reject", "use_as_reference"}
  Protectable = {"content", "relations", "result"}
  DeliveryIds <- MCDeliveryIds
  ItemIds = {i1, i2, r1, d1, d2}
  Settings = {"cut"}
  EditFields = {"trim"}
  Edits = {0, 1}
  Duration = 1
  MaxManifests = 1
  MaxMedia = 0
  Runs = {d1, d2}
  RunOf <- OneEach
  UserTools = {"project.update", "production.mutate", "decision.record", "decision.protect"}
  RunTools = {"production.mutate", "decision.record", "decision.protect"}
  Leavers = {d1, d2}
  Seeds <- DecisionSeeds
SYMMETRY BySubmission
SPECIFICATION Spec
INVARIANT ContainmentIsForest DecisionsCiteTheirChoices
PROPERTY DecisionsRule
CHECK_DEADLOCK FALSE
