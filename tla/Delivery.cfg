CONSTANTS
  Requests = {r1, r2}
  Dispatches = {d1}
  Absent = Absent
  MaxAnswers = 2
  sc1 = sc1 sh1 = sh1 u1 = u1 u2 = u2 k1 = k1 k2 = k2 k3 = k3 k4 = k4 D1 = D1 i1 = i1 i2 = i2
  ObjectIds = {sc1, sh1, r1, r2, d1}
  Contents = {"plain"}
  Results = {u1}
  ShotOf <- MCShotOf
  DecisionActions = {"select"}
  Protectable = {}
  DeliveryIds <- MCDeliveryIds
  ItemIds = {i1, i2, r1, r2, d1}
  Settings = {"cut", "trailer"}
  EditFields = {"trim"}
  Edits = {0, 2}
  Duration = 1
  MaxManifests = 1
  MaxMedia = 1
  Runs = {d1, d2}
  RunOf <- OneEach
  UserTools = {"delivery.mutate", "decision.record", "decision.protect"}
  RunTools = {"delivery.mutate", "decision.record"}
  Leavers = {}
  Seeds <- DeliverySeeds
SYMMETRY Symmetric
SPECIFICATION Spec
INVARIANT PlanCitesItsChoices
PROPERTY DecisionsRule
CHECK_DEADLOCK FALSE
