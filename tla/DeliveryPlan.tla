----------------------------- MODULE DeliveryPlan -----------------------------
(* The Delivery of a Project: an ordered list of Shot results, the Choice    *)
(* each of its fields comes from, what of it is protected, the undo of its   *)
(* last change, and the Manifest that a revision of it is frozen into.       *)
EXTENDS UserChoices

CONSTANTS
  DeliveryIds,   \* Delivery plans: those there from the start, and <<a>> for each author a of a command
  ItemIds,       \* Delivery items, likewise
  Settings,      \* name and format intent of a plan
  EditFields,    \* the fields of an item that are edited in place here
  Edits,         \* what those fields may hold; of trim, its end
  Duration,      \* the end of every result's media
  MaxManifests,  \* bound: Manifests
  MaxMedia       \* bound: how often the project media of a result is changed

ItemFields == {"trim", "transition", "audioPolicy", "reviewState"}
ItemRows ==
  [trim : Nat, transition : Nat, audioPolicy : Nat, reviewState : Nat, lifecycle : {"active", "removed"}, order : Nat,
   shot : ObjectIds \X Nat, result : Results, media : Nat]
ASSUME DeliveryAssumption ==
  /\ ObjectIds \cap DeliveryIds = {} /\ {<<a>> : a \in Authors} \subseteq DeliveryIds /\ Authors \subseteq ItemIds /\ EditFields \subseteq ItemFields
  /\ Edits \subseteq Nat /\ 0 \in Edits /\ Duration \in Nat
  /\ Absent \notin ItemIds /\ Absent \notin ItemRows
  /\ Absent \notin Settings \X Lifecycles /\ Absent \notin Seq(ItemIds)

VARIABLES
  deliveries,  \* delivery_plans by id, with their items, current choices and protections
  manifests,   \* delivery_manifests, by plan and revision
  media        \* the project media of each result: lifecycle, revision, the objects it is linked to
delivered == <<deliveries, manifests, media>>

OpenDeliveries == DOMAIN deliveries
deliveryRef(d) == <<d, deliveries[d].revision>>
requireExactPlan(ref) == ref[1] \in OpenDeliveries /\ deliveries[ref[1]].revision = ref[2]

planField(d, name) == Field(d, name, Absent)
itemField(d, item, name) == Field(d, name, item)
planFields(d) == {planField(d, n) : n \in {"name", "lifecycle", "formatIntent", "order"}}
itemFields(d, item) == {itemField(d, item, n) : n \in {"clip", "itemLifecycle"} \cup ItemFields}

activeIds(items) == {i \in DOMAIN items : items[i].lifecycle = "active"}
\* The active items in the order of their numbers, which differ.
Rising(numbers, order) == \A m, n \in DOMAIN order : m < n => numbers[order[m]] < numbers[order[n]]
InOrder(numbers) == CHOOSE order \in SetToSeqs(DOMAIN numbers) : Rising(numbers, order)
activeItems(items) == InOrder([i \in activeIds(items) |-> items[i].order])
PlaceIn(order, i) == (CHOOSE n \in DOMAIN order : order[n] = i) - 1
\* The items named by a sequence are numbered by their place in it.
Renumbered(items, order) ==
  [i \in DOMAIN items |-> IF i \in ToSet(order) THEN [items[i] EXCEPT !.order = PlaceIn(order, i)] ELSE items[i]]
withChoiceHeads(heads, fields, choice) == [f \in fields \cup DOMAIN heads |-> IF f \in fields THEN choice ELSE heads[f]]
supersededChoiceIds(heads, fields) == Choosers(heads, fields)

ItemEffect(items, i) == IF i \in DOMAIN items THEN items[i] ELSE Absent
settingsSnapshot(plan) == <<plan.settings, plan.lifecycle>>
effectOf(d, plan, affected, settings, order) ==
  [kind |-> "delivery", delivery |-> d, settings |-> IF settings THEN settingsSnapshot(plan) ELSE Absent,
   items |-> [i \in affected |-> ItemEffect(plan.items, i)],
   order |-> IF order THEN activeItems(plan.items) ELSE Absent]

deliveryPlan(tool, d, fields, before, effect, supersedes, undoes, row) ==
  [tool |-> tool, owner |-> IF d \in OpenDeliveries THEN deliveryRef(d) ELSE Absent, fields |-> fields,
   active |-> IF d \in OpenDeliveries THEN Choosers(deliveries[d].protections, fields) ELSE {},
   before |-> before, effect |-> effect, supersedes |-> supersedes, undoes |-> undoes,
   rows |-> <<>>, plans |-> [p \in {d} |-> row]]

\* A mutant: the edited field keeps naming the Choice it came from before.
KeepsFirstHead(a, d, after, names, affected, settings, order) ==
  LET before == deliveries[d] IN
  {deliveryPlan("delivery.mutate", d, names,
     effectOf(d, before, affected, settings, order), effectOf(d, after, affected, settings, order),
     supersededChoiceIds(before.heads, names), Absent,
     [after EXCEPT !.revision = @ + 1, !.heads = @ @@ [f \in names |-> a]])}
\* The plan of an author for a Delivery: after it the changed fields name the author's Choice.
Changed(a, d, after, names, affected, settings, order) ==
  LET before == deliveries[d] IN
  {deliveryPlan("delivery.mutate", d, names,
     effectOf(d, before, affected, settings, order), effectOf(d, after, affected, settings, order),
     supersededChoiceIds(before.heads, names), Absent,
     [after EXCEPT !.revision = @ + 1, !.heads = withChoiceHeads(@, names, a)])}

planCreate(a, in) ==
  LET d == <<a>>
      names == planFields(d)
      row == [revision |-> 0, settings |-> in.settings, lifecycle |-> "active", items |-> <<>>,
              heads |-> [f \in names |-> a], protections |-> <<>>]
      nothing == [kind |-> "delivery", delivery |-> d, settings |-> Absent, items |-> <<>>, order |-> Absent] IN
  IF requireProject /\ d \notin OpenDeliveries /\ in.settings \in Settings
    THEN {deliveryPlan("delivery.mutate", d, names, nothing, effectOf(d, row, {}, TRUE, TRUE), {}, Absent, row)}
    ELSE {}

\* A result can be placed while its Shot is active and exact and its media is there; its trim ends in the media.
deliverable(shot, result) ==
  /\ requireProductionRef(shot) /\ objects[shot[1]].type = "shot" /\ objects[shot[1]].lifecycle = "active"
  /\ result \in Results /\ ShotOf[result] = shot[1] /\ media[result].lifecycle = "active"
\* A mutant: an item is placed past the order.
OnlyTheItem(d, item) == itemFields(d, item)
placedFields(d, item) == {planField(d, "order")} \cup itemFields(d, item)
planPlace(a, in) ==
  LET d == in.plan[1]
      before == deliveries[d]
      current == activeItems(before.items)
      item == [trim |-> in.trim, transition |-> 0, audioPolicy |-> 0, reviewState |-> 0, lifecycle |-> "active", order |-> 0,
               shot |-> in.shot, result |-> in.result, media |-> media[in.result].revision]
      items == Renumbered(WithRow(before.items, a, item),
                          InsertAt(current, in.order + 1, a))
      moved == {i \in DOMAIN items : ItemEffect(before.items, i) # items[i]} IN
  IF in.order \notin 0..Len(current) \/ ~deliverable(in.shot, in.result) \/ in.trim \notin 0..Duration THEN {}
  ELSE Changed(a, d, [before EXCEPT !.items = items], placedFields(d, a), moved, FALSE, TRUE)

planRemove(a, in) ==
  LET d == in.plan[1]
      before == deliveries[d]
      current == activeItems(before.items)
      items == Renumbered([before.items EXCEPT ![in.item].lifecycle = "removed"],
                          RemoveAt(current, PlaceIn(current, in.item) + 1)) IN
  IF in.item \notin activeIds(before.items) THEN {}
  ELSE Changed(a, d, [before EXCEPT !.items = items],
               {planField(d, "order"), itemField(d, in.item, "itemLifecycle")},
               {i \in DOMAIN items : before.items[i] # items[i]}, FALSE, TRUE)

planReorder(a, in) ==
  LET d == in.plan[1]
      before == deliveries[d] IN
  IF in.order \notin SetToSeqs(activeIds(before.items)) \/ in.order = activeItems(before.items) THEN {}
  ELSE Changed(a, d, [before EXCEPT !.items = Renumbered(@, in.order)], {planField(d, "order")},
               ToSet(in.order), FALSE, TRUE)

\* The end of a trim is not compared with the media here: freezing does.
planEditItem(a, in) ==
  LET d == in.plan[1]
      before == deliveries[d] IN
  IF in.item \notin activeIds(before.items) \/ in.field \notin EditFields \/ in.value \notin Edits THEN {}
  ELSE IF before.items[in.item][in.field] = in.value THEN {}
  ELSE Changed(a, d, [before EXCEPT !.items[in.item][in.field] = in.value],
               {itemField(d, in.item, in.field)}, {in.item}, FALSE, FALSE)

planUpdateSettings(a, in) ==
  LET d == in.plan[1] IN
  IF deliveries[d].settings = in.settings \/ in.settings \notin Settings THEN {}
  ELSE Changed(a, d, [deliveries[d] EXCEPT !.settings = in.settings],
               {planField(d, "name"), planField(d, "formatIntent")}, {}, TRUE, FALSE)

planShelve(a, in) ==
  LET d == in.plan[1]
      lifecycle == IF in.action = "archive" THEN "archived" ELSE "active" IN
  IF in.action = "restore" /\ deliveries[d].lifecycle # "archived" THEN {}
  ELSE Changed(a, d, [deliveries[d] EXCEPT !.lifecycle = lifecycle], {planField(d, "lifecycle")}, {}, TRUE, FALSE)

\* Nothing but a restore is done to an archived Delivery.
planDeliveryMutation(a, in) ==
  IF in.action = "create" THEN planCreate(a, in)
  ELSE IF ~requireExactPlan(in.plan) THEN {}
  ELSE IF in.action # "restore" /\ deliveries[in.plan[1]].lifecycle # "active" THEN {}
  ELSE CASE in.action = "place" -> planPlace(a, in)
         [] in.action = "remove" -> planRemove(a, in)
         [] in.action = "reorder" -> planReorder(a, in)
         [] in.action = "edit" -> planEditItem(a, in)
         [] in.action = "updateSettings" -> planUpdateSettings(a, in)
         [] OTHER -> planShelve(a, in)

deliveryFields(d, items) == planFields(d) \cup UNION {itemFields(d, i) : i \in DOMAIN items}
planDeliveryProtectionDecisionMutation(a, in) ==
  LET d == in.owner[1]
      before == deliveries[d]
      active == in.field \in DOMAIN before.protections IN
  IF ~(/\ requireExactPlan(in.owner) /\ in.field \in deliveryFields(d, before.items)
       /\ active = (in.action = "unprotect")) THEN {}
  ELSE {deliveryPlan("decision.protect", d, {in.field},
          ProtectionEffect(in.field, active), ProtectionEffect(in.field, ~active),
          Choosers(before.protections, {in.field}), Absent,
          [before EXCEPT !.revision = @ + 1,
                         !.protections = WithProtection(@, in.field, ~active, a)])}

\* Of an item that the Choice added, removed since is not there.
currentDeliveryEffect(plan, effect) ==
  [effect EXCEPT
     !.settings = IF @ = Absent THEN Absent ELSE settingsSnapshot(plan),
     !.items = [i \in DOMAIN effect.items |->
                  IF effect.items[i] = Absent /\ i \notin activeIds(plan.items) THEN Absent
                  ELSE ItemEffect(plan.items, i)],
     !.order = IF @ = Absent THEN Absent ELSE activeItems(plan.items)]
restoredItems(plan, effect) ==
  [i \in DOMAIN plan.items |->
     IF i \notin DOMAIN effect.items THEN plan.items[i]
     ELSE IF effect.items[i] = Absent THEN [plan.items[i] EXCEPT !.lifecycle = "removed"] ELSE effect.items[i]]
\* An item that was not there before is removed; the order must name what is then active.  No item is ever deleted.
restoreDeliveryEffect(plan, effect) ==
  LET items == restoredItems(plan, effect) IN
  IF effect.order # Absent /\ ToSet(effect.order) # activeIds(items) THEN {}
  ELSE {[plan EXCEPT !.settings = IF effect.settings = Absent THEN @ ELSE effect.settings[1],
                     !.lifecycle = IF effect.settings = Absent THEN @ ELSE effect.settings[2],
                     !.items = IF effect.order = Absent THEN items ELSE Renumbered(items, effect.order)]}
currentDeliveryChoiceFields(plan, choice) == {f \in DOMAIN plan.heads : plan.heads[f] = choice}

planDeliveryUndoDecisionMutation(a, in) ==
  LET d == in.owner[1]
      target == choices[in.target]
      before == deliveries[d]
      Undo(fields, row) ==
        deliveryPlan("decision.record", d, fields, target.effect, target.before, {in.target}, in.target,
                     [row EXCEPT !.revision = @ + 1])
      fields == currentDeliveryChoiceFields(before, in.target)
      field == target.effect.field IN
  IF ~(in.target \in DOMAIN choices /\ target.ownerBefore # Absent /\ target.ownerAfter = in.owner /\ requireExactPlan(in.owner))
    THEN {}
  ELSE IF target.effect.kind = "delivery"
    THEN IF currentDeliveryEffect(before, target.effect) # target.effect \/ fields = {} THEN {}
         ELSE {Undo(fields, [row EXCEPT !.heads = withChoiceHeads(@, fields, a)]) :
                 row \in restoreDeliveryEffect(before, target.before)}
  ELSE IF target.effect.kind # "protection" THEN {}
  ELSE IF target.effect.active # (field \in DOMAIN before.protections) THEN {}
  ELSE IF target.effect.active /\ before.protections[field] # in.target THEN {}
  ELSE {Undo({field}, [before EXCEPT !.protections = WithProtection(@, field, target.before.active, a)])}

\* An active item can be frozen while everything it names is still exact and its trim ends in its media.
freezeItem(item) ==
  /\ deliverable(item.shot, item.result) /\ media[item.result].revision = item.media
  /\ item.trim <= Duration
relevant(plan, field) == field[3] = Absent \/ field[3] \in activeIds(plan.items)
Relevant(plan, f) == [x \in {y \in DOMAIN f : relevant(plan, y)} |-> f[x]]
requiredFields(d, plan) ==
  {planField(d, "order")} \cup {itemField(d, i, n) : i \in activeIds(plan.items), n \in {"clip", "reviewState"}}
FrozenRevisions == DOMAIN manifests

\* A revision is frozen once; asking again gives the Manifest there is, whatever became of the plan.
freezeDelivery(ref) ==
  LET d == ref[1]
      plan == deliveries[d] IN
  /\ ref \notin FrozenRevisions /\ Cardinality(FrozenRevisions) < MaxManifests
  /\ requireExactPlan(ref) /\ plan.lifecycle = "active" /\ activeIds(plan.items) # {}
  /\ requiredFields(d, plan) \subseteq DOMAIN plan.heads
  /\ \A i \in activeIds(plan.items) : freezeItem(plan.items[i])
  /\ manifests' = WithRow(manifests, ref,
                     [settings |-> plan.settings, items |-> [i \in activeIds(plan.items) |-> plan.items[i]],
                      heads |-> Relevant(plan, plan.heads), protections |-> Relevant(plan, plan.protections)])
  /\ appendProjectEvent(<<"freeze", ref>>, d, ref[2], ref[2], ref[2])
  /\ UNCHANGED <<project, receipts, answers, objects, choices, deliveries, media>>

\* What the user does with the project media of a result meanwhile; the events of that are not kept here.
MediaRevised(r, row) ==
  /\ media[r].revision < MaxMedia
  /\ media' = [media EXCEPT ![r] = [row EXCEPT !.revision = @ + 1]]
  /\ UNCHANGED <<ledger, objects, choices, deliveries, manifests>>
\* Attached again under other labels, or after it was detached; its links stay.
attachProjectMedia(r) == projectFromRow /\ MediaRevised(r, [media[r] EXCEPT !.lifecycle = "active"])
detachProjectMedia(r) == media[r].lifecycle = "active" /\ MediaRevised(r, [media[r] EXCEPT !.lifecycle = "detached"])
\* A link is added where there is none, or removed where there is one, to an object that is active.
linkProjectMedia(r, o, mode) ==
  /\ media[r].lifecycle = "active" /\ objects[o].lifecycle = "active" /\ (mode = "link") = (o \notin media[r].links)
  /\ MediaRevised(r, [media[r] EXCEPT !.links = IF mode = "link" THEN @ \cup {o} ELSE @ \ {o}])

\* What a delivery.mutate call, or the user's delivery.apply, may ask of the plan its author reads now.
DeliveryInputs ==
  LET In(action, S) == {[tool |-> "delivery.mutate", action |-> action] @@ s : s \in S}
      Of(d) == [plan : {deliveryRef(d)}]
      shots == {productionRef(o) : o \in OpenObjects} IN
  In("create", [settings : Settings])
  \cup (UNION {In("updateSettings", [plan : {deliveryRef(d)}, settings : Settings])
              \cup In("place", [plan : {deliveryRef(d)}, order : 0..Cardinality(activeIds(deliveries[d].items)),
                                shot : shots, result : Results, trim : Edits])
              \cup In("remove", [plan : {deliveryRef(d)}, item : DOMAIN deliveries[d].items])
              \cup In("reorder", [plan : {deliveryRef(d)}, order : SetToSeqs(activeIds(deliveries[d].items))])
              \cup In("edit", [plan : {deliveryRef(d)}, item : DOMAIN deliveries[d].items,
                               field : EditFields, value : Edits])
              \cup (UNION {In(action, Of(d)) : action \in {"archive", "restore"}}) : d \in OpenDeliveries})
DeliveryDecisionInputs ==
  UNION {{[tool |-> "decision.record", action |-> "undo", owner |-> deliveryRef(d), target |-> c] :
            c \in DOMAIN choices}
         \cup {[tool |-> "decision.protect", action |-> action, owner |-> deliveryRef(d), field |-> f] :
                 action \in {"protect", "unprotect"},
                 f \in {planField(d, "order")} \cup {itemField(d, i, n) : i \in DOMAIN deliveries[d].items, n \in {"clip"} \cup EditFields}} :
           d \in OpenDeliveries}

-----------------------------------------------------------------------------
\* What a plan, or a Manifest, says in one of its fields, and what the effect of a Choice says of it.
DeliveryValue(plan, f) ==
  CASE f[2] = "order" -> activeItems(plan.items)
    [] f[2] = "lifecycle" -> plan.lifecycle
    [] f[2] \in {"name", "formatIntent"} -> plan.settings
    [] f[2] = "itemLifecycle" -> plan.items[f[3]].lifecycle
    [] f[2] = "clip" -> LET item == plan.items[f[3]] IN <<item.shot, item.result, item.media>>
    [] OTHER -> plan.items[f[3]][f[2]]
FieldSays(value, effect, f) ==
  LET n == f[2] IN
  IF f[3] # Absent
    THEN /\ f[3] \in DOMAIN effect.items
         /\ CASE n = "clip" -> effect.items[f[3]] = Absent \/ effect.items[f[3]].result = value.items[f[3]].result
              [] n = "itemLifecycle" -> IF effect.items[f[3]] = Absent THEN value.items[f[3]].lifecycle = "removed"
                                        ELSE effect.items[f[3]].lifecycle = value.items[f[3]].lifecycle
              [] OTHER -> effect.items[f[3]] = Absent \/ effect.items[f[3]][n] = value.items[f[3]][n]
  ELSE CASE n = "order" -> effect.order = activeItems(value.items)
         [] n = "lifecycle" -> effect.settings[2] = value.lifecycle
         [] OTHER -> effect.settings[1] = value.settings

ShownDelivery(plan) ==
  <<settingsSnapshot(plan), [i \in activeIds(plan.items) |-> plan.items[i]], DOMAIN plan.protections>>

\* What a plan keeps to: its active items are numbered through, every field of it names a Choice whose effect it
\* is, and an item named after a command is there since that command.
Numbered(items) ==
  \E order \in SetToSeqs(activeIds(items)) : \A n \in DOMAIN order : items[order[n]].order = n - 1
ContentStands(plan) ==
  /\ plan.settings \in Settings /\ plan.lifecycle \in Lifecycles
  /\ plan.items \in [DOMAIN plan.items -> ItemRows] /\ DOMAIN plan.items \subseteq ItemIds
  /\ IsFiniteSet(DOMAIN plan.items) /\ Numbered(plan.items)
PlanColumns == {"revision", "settings", "lifecycle", "items", "heads", "protections"}
PlanStands(table, d, plan) ==
  /\ DOMAIN plan = PlanColumns /\ plan.revision \in Nat /\ ContentStands(plan)
  /\ DOMAIN plan.heads = deliveryFields(d, plan.items) /\ DOMAIN plan.protections \subseteq deliveryFields(d, plan.items)
  /\ \A f \in DOMAIN plan.heads : plan.heads[f] \in DOMAIN table /\ FieldSays(plan, table[plan.heads[f]].effect, f)
  /\ DOMAIN plan.items \cap Authors \subseteq DOMAIN table

\* What a Choice about a Delivery keeps to: while nothing else has happened to the Delivery, undoing it gives a
\* plan that stands, that shows what was shown before, whose fields that the Choice set are what they were and
\* whose other fields are what they are; and redoing it gives the plan back.
SameContent(plan, other) ==
  plan.settings = other.settings /\ plan.lifecycle = other.lifecycle /\ plan.items = other.items
Returns(c, choice, plan) ==
  \E was \in restoreDeliveryEffect(plan, choice.before) :
    /\ ContentStands(was) /\ ShownDelivery(was) = choice.seen
    /\ \E again \in restoreDeliveryEffect(was, choice.effect) : SameContent(again, plan)
    /\ \A f \in DOMAIN plan.heads :
         IF plan.heads[f] = c THEN FieldSays(was, choice.before, f) ELSE DeliveryValue(was, f) = DeliveryValue(plan, f)
DeliveryChoiceStands(c, choice, table) ==
  LET d == choice.ownerAfter[1] IN
  /\ d \in DOMAIN table /\ choice.ownerAfter[2] \in Nat /\ choice.ownerAfter[2] <= table[d].revision
  /\ choice.ownerBefore # Absent /\ choice.ownerAfter[2] = table[d].revision =>
       \/ /\ Toggles(choice.before, choice.effect, deliveryFields(d, table[d].items))
          /\ choice.seen = ShownDelivery([table[d] EXCEPT !.protections =
                                            WithProtection(@, choice.before.field, choice.before.active, Absent)])
       \/ choice.before.kind = "delivery" /\ choice.effect.kind = "delivery" /\ Returns(c, choice, table[d])
ChoiceStands(c, choice, objectTable, planTable) ==
  /\ choice.ownerAfter[1] \in ObjectIds => ObjectChoiceStands(choice, objectTable)
  /\ choice.ownerAfter[1] \in DeliveryIds => DeliveryChoiceStands(c, choice, planTable)
==============================================================================
