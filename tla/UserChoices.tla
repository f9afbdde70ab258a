----------------------------- MODULE UserChoices -----------------------------
(* What was decided about the results of a Shot, which fields are protected, *)
(* and the record of every such Choice: its effect, the effect before it and *)
(* the Choices it supersedes, from which the last one can be undone.         *)
EXTENDS ProductionAuthority

CONSTANTS
  DecisionActions,  \* what may be decided about a result here
  Protectable       \* the fields of an object that may be protected here

ASSUME ChoicesAssumption ==
  /\ DecisionActions \subseteq {"select", "reject", "refine", "use_as_reference"}
  /\ Protectable \subseteq {"content", "relations", "lifecycle", "result"}
  /\ Absent \notin {"selected", "rejected", "refine", "reference"}

VARIABLES choices    \* user_choices by id

decisionValue(action) ==
  CASE action = "select" -> "selected" [] action = "reject" -> "rejected"
    [] action = "refine" -> "refine" [] OTHER -> "reference"

resultField(shot, result) == Field(shot, "result", result)
Without(f, S) == [x \in DOMAIN f \ S |-> f[x]]

\* What a decision, a protection or an undo would do to the Shot or the object it belongs to.
plannedDecision(tool, owner, fields, before, effect, supersedes, undoes, row) ==
  [tool |-> tool, owner |-> owner, fields |-> fields, active |-> activeProductionChoiceIds(owner[1], fields),
   before |-> before, effect |-> effect, supersedes |-> supersedes, undoes |-> undoes,
   rows |-> [o \in {owner[1]} |-> reviseObjectChange(o, row)], plans |-> <<>>]

ValueOf(decisions, result) == IF result \in DOMAIN decisions THEN decisions[result].value ELSE Absent
ResultEffect(shot, ids, decisions) ==
  [kind |-> "result_decisions", shot |-> shot, entries |-> [r \in ids |-> ValueOf(decisions, r)]]
ProtectionEffect(field, active) == [kind |-> "protection", field |-> field, active |-> active]

\* A mutant: selecting one result leaves another one selected.
OnlyTheResult(decisions, in) == {in.result}
\* Selecting a result takes the selection from every other result of the Shot.
AffectedResults(decisions, in) ==
  {in.result} \cup IF in.action # "select" THEN {} ELSE {r \in DOMAIN decisions : decisions[r].value = "selected"}

DecidedFields(shot, in, ids) == {resultField(shot, r) : r \in ids}

planProductionResultDecisionMutation(a, in) ==
  LET shot == in.owner[1]
      before == objects[shot].decisions
      ids == AffectedResults(before, in)
      after == WithRow(Without(before, ids), in.result, [value |-> decisionValue(in.action), choice |-> a]) IN
  IF ~(requireProductionRef(in.owner) /\ objects[shot].type = "shot" /\ ShotOf[in.result] = shot) THEN {}
  ELSE {plannedDecision("decision.record", in.owner, DecidedFields(shot, in, ids),
          ResultEffect(shot, ids, before), ResultEffect(shot, ids, after),
          {before[r].choice : r \in ids \cap DOMAIN before}, Absent, [objects[shot] EXCEPT !.decisions = after])}

\* A field is protected once, and unprotected only while it is; either way a Choice is recorded.
WithProtection(protections, field, active, a) ==
  IF active THEN WithRow(protections, field, a) ELSE Without(protections, {field})
ProductionProtectedFields(o) ==
  {Field(o, n, Absent) : n \in {"content", "relations", "lifecycle"}} \cup {resultField(o, r) : r \in Results}
planProductionProtectionDecisionMutation(a, in) ==
  LET before == objects[in.owner[1]].protections
      active == in.field \in DOMAIN before IN
  IF ~(requireProductionRef(in.owner) /\ in.field \in ProductionProtectedFields(in.owner[1]) /\ active = (in.action = "unprotect")) THEN {}
  ELSE {plannedDecision("decision.protect", in.owner, {in.field},
          ProtectionEffect(in.field, active), ProtectionEffect(in.field, ~active),
          Choosers(before, {in.field}), Absent,
          [objects[in.owner[1]] EXCEPT !.protections = WithProtection(before, in.field, ~active, a)])}

\* The effect a Choice had, read off the Shot as it is now.
currentEffect(row, effect) ==
  IF effect.kind = "result_decisions" THEN ResultEffect(effect.shot, DOMAIN effect.entries, row.decisions)
  ELSE ProtectionEffect(effect.field, effect.field \in DOMAIN row.protections)
effectFields(effect) ==
  IF effect.kind = "result_decisions" THEN {resultField(effect.shot, r) : r \in DOMAIN effect.entries}
  ELSE {effect.field}
\* What the effect left on the Shot still comes from the Choice that is undone.
StillCites(row, effect, target) ==
  IF effect.kind = "result_decisions"
    THEN \A r \in DOMAIN effect.entries : effect.entries[r] # Absent => row.decisions[r].choice = target
    ELSE effect.active => row.protections[effect.field] = target

Restored(decisions, entries, a) ==
  [r \in {s \in DOMAIN entries : entries[s] # Absent} \cup DOMAIN Without(decisions, DOMAIN entries) |->
     IF r \in DOMAIN entries THEN [value |-> entries[r], choice |-> a] ELSE decisions[r]]
\* A mutant: what was displaced by the undone Choice does not come back.
UndoneAlone(row, effect, a) ==
  IF effect.kind = "result_decisions"
    THEN [row EXCEPT !.decisions = Without(@, DOMAIN effect.entries)]
    ELSE [row EXCEPT !.protections = WithProtection(@, effect.field, effect.active, a)]
applyUndoEffect(row, effect, a) ==
  IF effect.kind = "result_decisions"
    THEN [row EXCEPT !.decisions = Restored(@, effect.entries, a)]
    ELSE [row EXCEPT !.protections = WithProtection(@, effect.field, effect.active, a)]

\* The last Choice about a Shot is undone: nothing else happened to the Shot since, and what the Choice left is
\* still there.  The undo is a Choice itself, with the effects swapped.
planProductionUndoDecisionMutation(a, in) ==
  LET target == choices[in.target]
      row == objects[in.owner[1]] IN
  IF ~(/\ in.target \in DOMAIN choices /\ target.ownerBefore # Absent /\ target.ownerAfter = in.owner
       /\ requireProductionRef(in.owner) /\ row.type = "shot"
       /\ currentEffect(row, target.effect) = target.effect /\ StillCites(row, target.effect, in.target)) THEN {}
  ELSE {plannedDecision("decision.record", in.owner, effectFields(target.effect), target.effect, target.before,
          {in.target}, in.target, applyUndoEffect(row, target.before, a))}

\* What an object shows: its decisions, and what of it is protected.
ShownObject(row) == <<[r \in DOMAIN row.decisions |-> row.decisions[r].value], DOMAIN row.protections>>

\* The record of a Choice.  seen is what its owner showed before it (history, for UndoRestores).
finalizedChoiceForPlan(a, plan, ownerAfter, confirmed, seen) ==
  [actor |-> IF a \in Requests THEN "user" ELSE "commander", confirmed |-> confirmed,
   ownerBefore |-> plan.owner, ownerAfter |-> ownerAfter, before |-> plan.before, effect |-> plan.effect,
   supersedes |-> plan.supersedes, undoes |-> plan.undoes, seen |-> seen]

DecisionInputs ==
  LET shots == {o \in OpenObjects : objects[o].type = "shot"} IN
  {[tool |-> "decision.record", action |-> action, owner |-> productionRef(ShotOf[r]), result |-> r] :
     action \in DecisionActions, r \in {s \in Results : ShotOf[s] \in shots}}
  \cup {[tool |-> "decision.record", action |-> "undo", owner |-> productionRef(o), target |-> c] :
          o \in shots, c \in DOMAIN choices}
ProductionFields(o) ==
  {Field(o, n, Absent) : n \in Protectable \ {"result"}}
    \cup {resultField(o, r) : r \in {s \in Results : "result" \in Protectable /\ ShotOf[s] = o}}
ProductionProtectionInputs ==
  UNION {{[tool |-> "decision.protect", action |-> action, owner |-> productionRef(o), field |-> f] :
            action \in {"protect", "unprotect"}, f \in ProductionFields(o)} : o \in OpenObjects}

-----------------------------------------------------------------------------
\* What the decisions and the protections of an object keep to: each is the effect of the Choice it names, and
\* one result is selected at most.
SelectedOnce(values) == \A r, s \in DOMAIN values : values[r] = "selected" /\ values[s] = "selected" => r = s
DecidedBy(table, shot, r, decision) ==
  /\ decision.value # Absent /\ decision.choice \in DOMAIN table
  /\ LET effect == table[decision.choice].effect IN
     /\ effect.kind = "result_decisions" /\ effect.shot = shot
     /\ r \in DOMAIN effect.entries /\ effect.entries[r] = decision.value
ProtectedBy(table, o, f, choice) ==
  f \in ProductionProtectedFields(o) /\ choice \in DOMAIN table /\ table[choice].effect = ProtectionEffect(f, TRUE)
DecisionsStand(table, o, row) ==
  /\ \A r \in DOMAIN row.decisions : DecidedBy(table, o, r, row.decisions[r])
  /\ \A f \in DOMAIN row.protections : ProtectedBy(table, o, f, row.protections[f])
  /\ SelectedOnce(ShownObject(row)[1])

\* What a Choice about an object keeps to: the effects it swaps are of one kind and about the same, and while
\* nothing else has happened to the object, undoing it shows what the object showed before.
Toggles(before, effect, fields) ==
  \E f \in fields, active \in BOOLEAN : before = ProtectionEffect(f, active) /\ effect = ProtectionEffect(f, ~active)
Redecides(before, effect, shot) ==
  /\ before.kind = "result_decisions" /\ before.shot = shot
  /\ effect.kind = "result_decisions" /\ effect.shot = shot /\ DOMAIN before.entries = DOMAIN effect.entries
ObjectChoiceStands(choice, table) ==
  LET o == choice.ownerAfter[1] IN
  /\ o \in DOMAIN table /\ choice.ownerAfter[2] \in Nat /\ choice.ownerAfter[2] <= table[o].revision
  /\ \/ Redecides(choice.before, choice.effect, o)
     \/ Toggles(choice.before, choice.effect, ProductionProtectedFields(o))
  /\ SelectedOnce(choice.seen[1])
  /\ choice.ownerAfter[2] = table[o].revision =>
       ShownObject(applyUndoEffect(table[o], choice.before, Absent)) = choice.seen
==============================================================================
