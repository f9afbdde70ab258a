-------------------------- MODULE ProtectedMutations --------------------------
(* The user and the Runs change the same Production objects, Choices and     *)
(* Deliveries.  What the user asks is done; what a Run asks is done when it  *)
(* touches nothing protected, and otherwise waits for the user's answer to   *)
(* exactly that change, while everybody else goes on.                        *)
EXTENDS DeliveryPlan

CONSTANTS
  Runs,       \* Commander Runs
  RunOf,      \* the Run of each dispatch
  UserTools,  \* what the user does here, of production.mutate, decision.record, decision.protect, delivery.mutate
  RunTools,   \* what Runs do here
  Leavers,    \* Runs that may be cancelled
  Seeds       \* Projects to start from

\* A Project that the commands below lead to, in a process before: its rows stand, and its Choices.
SeedStands(seed) ==
  /\ ObjectTable(seed.objects) /\ ContainmentStands(seed.objects)
  /\ \A o \in DOMAIN seed.objects : DecisionsStand(seed.choices, o, seed.objects[o])
  /\ \A d \in DOMAIN seed.deliveries : d \in DeliveryIds /\ PlanStands(seed.choices, d, seed.deliveries[d])
  /\ \A c \in DOMAIN seed.choices : ChoiceStands(c, seed.choices[c], seed.objects, seed.deliveries)
ASSUME RunsAssumption ==
  /\ RunOf \in [Dispatches -> Runs] /\ Absent \notin [status : {"succeeded", "permission_denied"}]
  /\ \A seed \in Seeds : SeedStands(seed)

VARIABLES
  runs,        \* Runs: status, whether an activation is open, the tool step that is open, answers in the inbox
  dispatches   \* dispatch_operations by id: input, guard outcome, confirmation, project event, outcome
owned == <<objects, choices, delivered>>
vars == <<ledger, owned, runs, dispatches>>

Tool(in) == in.tool
planProtectedMutation(a, in) ==
  CASE in.tool = "production.mutate" -> planProductionMutation(a, in)
    [] in.tool = "delivery.mutate" -> planDeliveryMutation(a, in)
    [] in.tool = "decision.protect" ->
         IF in.owner[1] \in ObjectIds THEN planProductionProtectionDecisionMutation(a, in)
         ELSE planDeliveryProtectionDecisionMutation(a, in)
    [] OTHER ->
         IF in.action # "undo" THEN planProductionResultDecisionMutation(a, in)
         ELSE IF in.owner[1] \in ObjectIds THEN planProductionUndoDecisionMutation(a, in)
         ELSE planDeliveryUndoDecisionMutation(a, in)

protectedMutationRequiresConfirmation(plan) == plan.tool = "decision.protect" \/ plan.active # {}
protectedMutationConfirmationTarget(d, plan) ==
  [dispatch |-> d, owner |-> plan.owner, fields |-> plan.fields, active |-> plan.active, effect |-> plan.effect]

\* A change of a protected field by a Run needs its approved confirmation of that owner, fields and effect.
loadApprovedRunConfirmation(row) == row.confirmation # Absent /\ row.confirmation.decision = "approved"
requireToolDispatch(row) == row.guardOutcome = "allowed" /\ row.outcome = Absent
authorizeChoiceMutation(a, row, plan) ==
  a \in Dispatches =>
    /\ requireToolDispatch(row)
    /\ protectedMutationRequiresConfirmation(plan) =>
         loadApprovedRunConfirmation(row) /\ row.confirmation.target = protectedMutationConfirmationTarget(a, plan)
assertProductionProtectionMutation(a, row, plan) ==
  a \in Dispatches /\ plan.active # {} =>
    /\ requireToolDispatch(row) /\ loadApprovedRunConfirmation(row)
    /\ row.confirmation.target = protectedMutationConfirmationTarget(a, plan)

\* What the owner of a Choice shows.
Shown(id) == IF id \in ObjectIds THEN ShownObject(objects[id]) ELSE ShownDelivery(deliveries[id])

Event(key, subject, before, after) ==
  [key |-> key, subject |-> subject, base |-> before, before |-> before, after |-> after]
\* One event for each production object, the created one first.
productionEvents(a, rows) ==
  LET order == SetToSeq(DOMAIN rows \cap {a}) \o SetToSeq(DOMAIN rows \ {a}) IN
  [i \in DOMAIN order |-> Event(<<a, order[i]>>, order[i], rows[order[i]].revision - 1, rows[order[i]].revision)]
choiceEvent(a) == <<Event(<<a>>, a, -1, 0)>>
deliveryEvent(a, plan) ==
  LET d == plan.effect.delivery IN
  <<Event(<<a>>, d, IF plan.owner = Absent THEN 0 ELSE plan.owner[2], plan.plans[d].revision)>>

writeProductionObjectRecord(rows) == objects' = WithRows(objects, rows)
writeDeliveryPlanRecord(plans) == deliveries' = WithRows(deliveries, plans)
\* An insert: the id of a Choice is not taken.
insertUserChoiceRecord(a, choice) ==
  /\ a \notin DOMAIN choices
  /\ choices' = WithRow(choices, a, choice)
ownerAfter(plan) ==
  IF DOMAIN plan.rows # {} THEN <<plan.owner[1], plan.rows[plan.owner[1]].revision>>
  ELSE LET d == CHOOSE x \in DOMAIN plan.plans : TRUE IN <<d, plan.plans[d].revision>>
Recorded(a, plan) ==
  insertUserChoiceRecord(a, finalizedChoiceForPlan(a, plan, ownerAfter(plan), a \in Dispatches /\ plan.active # {},
                                                   IF plan.owner = Absent THEN Absent ELSE Shown(plan.owner[1])))

\* What commits with a planned change, on the rows it was planned on: the change, its Choice, its events.
assertProductionPlanCurrent(rows) ==
  \A o \in DOMAIN rows : IF rows[o].revision = 0 THEN o \notin OpenObjects
                         ELSE o \in OpenObjects /\ objects[o].revision + 1 = rows[o].revision
commitPlannedProductionMutation(a, row, plan) ==
  /\ assertProductionProtectionMutation(a, row, plan) /\ assertProductionPlanCurrent(plan.rows)
  /\ writeProductionObjectRecord(plan.rows) /\ events' = events \o productionEvents(a, plan.rows)
  /\ UNCHANGED <<choices, deliveries>>
commitPlannedDeliveryMutation(a, row, plan) ==
  /\ authorizeChoiceMutation(a, row, plan)
  /\ writeDeliveryPlanRecord(plan.plans) /\ Recorded(a, plan) /\ events' = events \o deliveryEvent(a, plan)
  /\ UNCHANGED objects
commitPlannedDecisionMutation(a, row, plan) ==
  /\ authorizeChoiceMutation(a, row, plan) /\ assertProductionPlanCurrent(plan.rows)
  /\ writeProductionObjectRecord(plan.rows) /\ writeDeliveryPlanRecord(plan.plans)
  /\ Recorded(a, plan) /\ events' = events \o choiceEvent(a)
commitPlannedProtectedMutation(a, row, plan) ==
  /\ CASE plan.tool = "production.mutate" -> commitPlannedProductionMutation(a, row, plan)
       [] plan.tool = "delivery.mutate" -> commitPlannedDeliveryMutation(a, row, plan)
       [] OTHER -> commitPlannedDecisionMutation(a, row, plan)
  /\ UNCHANGED <<project, manifests, media>>

protectedMutationOutcome(plan) == [status |-> "succeeded"]
protectedMutationDeniedOutcome == [status |-> "permission_denied"]

\* The user's production.apply, decision.record, decision.protect and delivery.apply.
executeWireMutation(r, in) ==
  \E plan \in planProtectedMutation(r, in) :
    /\ commitPlannedProtectedMutation(r, Absent, plan) /\ Respond(r, <<in>>, protectedMutationOutcome(plan))
    /\ UNCHANGED <<runs, dispatches>>

\* The life of a dispatch: prepared for a confirmation, bound to one or allowed at once, allowed or denied by
\* its answer, bound to the event of what it did, settled.
prepareProtectedMutationRuntimeDispatch(in) ==
  [input |-> in, guardOutcome |-> "confirmation_required", confirmation |-> Absent, event |-> Absent, outcome |-> Absent]
bindRuntimeDispatchConfirmation(row, target) ==
  [row EXCEPT !.confirmation = [target |-> target, decision |-> Absent]]
answerConfirmation(row, decision) == [row EXCEPT !.confirmation.decision = decision]
transitionRuntimeDispatchGuard(row, outcome) == [row EXCEPT !.guardOutcome = outcome]
\* The last event of the change; a change that does nothing has none.
protectedMutationProjectEventId(a, plan) ==
  CASE plan.tool = "production.mutate" ->
         (LET told == productionEvents(a, plan.rows) IN IF told = <<>> THEN Absent ELSE Last(told).key)
    [] OTHER -> <<a>>
bindRuntimeDispatchProjectEvent(row, key) == [row EXCEPT !.event = key]
settleValidatedRuntimeDispatch(row, outcome) == [row EXCEPT !.outcome = outcome]
Settled(d, row) == dispatches' = WithRow(dispatches, d, row) /\ Respond(d, <<row.input>>, row.outcome)
CommittedAndSettled(d, row, plan) ==
  /\ commitPlannedProtectedMutation(d, row, plan)
  /\ Settled(d, settleValidatedRuntimeDispatch(
                  bindRuntimeDispatchProjectEvent(row, protectedMutationProjectEventId(d, plan)),
                  protectedMutationOutcome(plan)))

\* A call of a running Run, in an open activation and between two tool steps, is planned at once.
BetweenSteps(q) == runs[q].status = "running" /\ runs[q].activation /\ runs[q].step = Absent
MayPrepare(q) == BetweenSteps(q) /\ requireProject

\* What touches nothing protected is allowed, done and settled, its step closed.
AllowedAtOnce(d, row, plan) ==
  /\ ~protectedMutationRequiresConfirmation(plan)
  /\ CommittedAndSettled(d, transitionRuntimeDispatchGuard(row, "allowed"), plan)
  /\ UNCHANGED runs

\* The rest waits for the answer to exactly this change, its step open.
ConfirmationRequested(d, row, plan) ==
  /\ protectedMutationRequiresConfirmation(plan)
  /\ dispatches' = WithRow(dispatches, d,
                      bindRuntimeDispatchConfirmation(row, protectedMutationConfirmationTarget(d, plan)))
  /\ runs' = [runs EXCEPT ![RunOf[d]].status = "waiting_confirmation", ![RunOf[d]].step = d]
  /\ UNCHANGED <<ledger, owned>>

prepareProtectedMutationBoundary(d, in) ==
  /\ d \notin DOMAIN dispatches /\ MayPrepare(RunOf[d])
  /\ LET row == prepareProtectedMutationRuntimeDispatch(in) IN
     \E plan \in planProtectedMutation(d, in) : AllowedAtOnce(d, row, plan) \/ ConfirmationRequested(d, row, plan)

\* The user approves: the change is planned again, on what everything is now, and must be the one shown.
assertProtectedMutationPlanMatchesTarget(d, plan) ==
  /\ protectedMutationRequiresConfirmation(plan)
  /\ dispatches[d].confirmation.target = protectedMutationConfirmationTarget(d, plan)
planConfirmedProtectedMutation(d) ==
  {plan \in planProtectedMutation(d, dispatches[d].input) : assertProtectedMutationPlanMatchesTarget(d, plan)}

\* The answer is a message in the inbox of the Run; its step and its activation end, and it may go on.
recordConfirmationAnswer(run) == [run EXCEPT !.inbox = @ + 1]
completePendingProtectedMutationStep(d, run) ==
  [run EXCEPT !.status = "running", !.step = IF @ = d THEN Absent ELSE @, !.activation = FALSE]

Pending(d) == d \in DOMAIN dispatches /\ dispatches[d].confirmation # Absent /\ dispatches[d].outcome = Absent
respondProtectedMutationConfirmation(d, decision) ==
  LET answered == answerConfirmation(dispatches[d], decision) IN
  /\ Pending(d) /\ runs[RunOf[d]].status = "waiting_confirmation" /\ requireProject
  /\ runs' = [runs EXCEPT ![RunOf[d]] = completePendingProtectedMutationStep(d, recordConfirmationAnswer(@))]
  /\ IF decision = "denied"
       THEN /\ Settled(d, settleValidatedRuntimeDispatch(transitionRuntimeDispatchGuard(answered, "denied"),
                                                         protectedMutationDeniedOutcome))
            /\ UNCHANGED <<owned, project, events>>
       ELSE \E plan \in planConfirmedProtectedMutation(d) :
              CommittedAndSettled(d, transitionRuntimeDispatchGuard(answered, "allowed"), plan)

\* A Run is cancelled, and with it the confirmation it waits for; cancelled before its call it changes nothing.
RunLeaves(q) ==
  /\ runs[q].status = "waiting_confirmation"
  /\ runs' = [runs EXCEPT ![q].status = "cancelled", ![q].activation = FALSE]
  /\ UNCHANGED <<ledger, owned, dispatches>>

Inputs(a, tools) ==
  {in \in (IF "production.mutate" \in tools THEN ProductionInputs(a) ELSE {})
          \cup (IF {"decision.record", "decision.protect"} \cap tools # {}
                 THEN DecisionInputs \cup ProductionProtectionInputs \cup DeliveryDecisionInputs ELSE {})
          \cup (IF "delivery.mutate" \in tools THEN DeliveryInputs ELSE {}) : Tool(in) \in tools}

Init == \E seed \in Seeds :
  /\ project = [name |-> "first", lifecycle |-> "active", revision |-> 0]
  /\ objects = seed.objects /\ choices = seed.choices /\ deliveries = seed.deliveries
  /\ manifests = <<>> /\ media = [r \in Results |-> [lifecycle |-> "active", revision |-> 0, links |-> {}]]
  /\ receipts = <<>> /\ events = <<>> /\ answers = {}
  /\ runs = [q \in Runs |-> [status |-> "running", activation |-> TRUE, step |-> Absent, inbox |-> 0]] /\ dispatches = <<>>

\* Only Runs freeze: delivery.freeze, or a preview call, opens and closes its step in the batch that writes the Manifest.
settleDeliveryFreezeBoundary(q, ref) == BetweenSteps(q) /\ freezeDelivery(ref) /\ UNCHANGED <<runs, dispatches>>

Next ==
  \/ \E r \in Requests : MayRun(r) /\ \E in \in Inputs(r, UserTools) : executeWireMutation(r, in)
  \/ \E d \in Dispatches : MayRun(d) /\ d \notin DOMAIN dispatches
                           /\ \E in \in Inputs(d, RunTools) : prepareProtectedMutationBoundary(d, in)
  \/ \E d \in Dispatches, decision \in {"approved", "denied"} : respondProtectedMutationConfirmation(d, decision)
  \/ \E r \in Requests, lifecycle \in {"active", "archived"} :
       /\ "project.update" \in UserTools /\ updateProject(r, project.revision, project.name, lifecycle)
       /\ UNCHANGED <<owned, runs, dispatches>>
  \/ \E q \in Runs, d \in OpenDeliveries : settleDeliveryFreezeBoundary(q, deliveryRef(d))
  \/ \E r \in Results : (attachProjectMedia(r) \/ detachProjectMedia(r)) /\ UNCHANGED <<runs, dispatches>>
  \/ \E r \in Results, o \in OpenObjects, mode \in {"link", "unlink"} :
       linkProjectMedia(r, o, mode) /\ UNCHANGED <<runs, dispatches>>
  \/ \E q \in Leavers : RunLeaves(q)

Spec == Init /\ [][Next]_vars
-----------------------------------------------------------------------------
\* Whatever the user and the Runs link and unlink, an object is contained in at most one other and never in
\* itself, however far up (production.ts: assertChildHasNoParent, assertNoContainmentCycle).
Parents(o) == {p \in OpenObjects : <<"contains", o>> \in objects[p].relations}
ContainmentIsForest ==
  \A o \in OpenObjects : Cardinality(Parents(o)) <= 1 /\ \A p \in Parents(o) : p \notin Reached(o)

\* Every decision and every protection of an object was made by the Choice it names, whose effect it is, and of
\* the results of a Shot one is selected at most (user-choices.ts: applyDecisionRows, persistUndoEffect).
DecisionsCiteTheirChoices ==
  \A o \in OpenObjects :
    /\ \A r \in DOMAIN objects[o].decisions :
         LET decision == objects[o].decisions[r]
             effect == choices[decision.choice].effect IN
         effect.kind = "result_decisions" /\ effect.shot = o /\ effect.entries[r] = decision.value
    /\ \A f \in DOMAIN objects[o].protections :
         choices[objects[o].protections[f]].effect = ProtectionEffect(f, TRUE)
    /\ Cardinality({r \in DOMAIN objects[o].decisions : objects[o].decisions[r].value = "selected"}) <= 1

\* Every field of a Delivery names the Choice that gave it the value it has, through edits and undos, and a
\* Manifest keeps what the frozen revision had (delivery.ts: withChoiceHeads, freezeDeliveryInTransaction).
PlanCitesItsChoices ==
  /\ \A d \in OpenDeliveries : \A f \in DOMAIN deliveries[d].heads :
       FieldSays(deliveries[d], choices[deliveries[d].heads[f]].effect, f)
  /\ \A ref \in FrozenRevisions : \A f \in DOMAIN manifests[ref].heads :
       f[2] # "lifecycle" => FieldSays(manifests[ref], choices[manifests[ref].heads[f]].effect, f)

ObjectValue(f) == IF f[2] = "result" THEN ValueOf(objects[f[1]].decisions, f[3]) ELSE objects[f[1]][f[2]]
FieldValue(f) == IF f[1] \in ObjectIds THEN ObjectValue(f) ELSE DeliveryValue(deliveries[f[1]], f)
ProtectedFields ==
  UNION ({DOMAIN objects[o].protections : o \in OpenObjects} \cup {DOMAIN deliveries[d].protections : d \in OpenDeliveries})

\* A protected field changes, or stops being protected, only when the user does it or approves it; approved is
\* exactly that field of exactly that revision, with exactly the effect that was shown, whatever else changed
\* while the Run waited (target-authorities.md: protected changes need an exact confirmation).
Approved(d, f) ==
  LET target == dispatches[d].confirmation.target IN
  /\ Pending(d) /\ f \in target.fields
  /\ target.owner = (IF f[1] \in ObjectIds THEN productionRef(f[1]) ELSE deliveryRef(f[1]))
  /\ IF dispatches[d].input.tool = "production.mutate"
       THEN \A o \in DOMAIN target.effect.rows : objects'[o] = target.effect.rows[o]
       ELSE choices'[d].effect = target.effect
ProtectedFieldsHoldStill ==
  [][\A f \in ProtectedFields :
       FieldValue(f)' # FieldValue(f) \/ f \notin ProtectedFields' =>
         \E a \in answers' \ answers : a.author \in Requests \/ Approved(a.author, f)]_vars

\* An undo brings back all that the owner of the undone Choice showed before it: what was displaced is selected
\* again, items return to their place, and nothing else moves (user-choices.ts: applyUndoEffect, restoreDeliveryEffect).
UndoRestores ==
  [][\A c \in DOMAIN choices' \ DOMAIN choices : choices'[c].undoes # Absent =>
       \A o \in OpenObjects \cup OpenDeliveries :
         o = choices'[c].ownerAfter[1] => Shown(o)' = choices[choices'[c].undoes].seen]_vars

\* Only the user moves what a user decided, and an undo takes back a whole decision, whatever the Runs did in between
\* (user-choices.ts, protected-mutation.ts).
DecisionsRule == ProtectedFieldsHoldStill /\ UndoRestores
==============================================================================
