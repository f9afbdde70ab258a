----------------------- MODULE ProtectedMutationsProofs -----------------------
(* Proofs about ProtectedMutations: containment stays a forest, decisions    *)
(* and plans cite the Choices they come from, protected fields hold still,   *)
(* and an undo restores.                                                     *)
EXTENDS ProtectedMutations, FiniteSetTheorems, SequenceTheorems, TLAPS

-----------------------------------------------------------------------------
\* Containment.  A table whose objects contain no more than they did, whatever objects are new.
LEMMA FewerLinks ==
  ASSUME NEW old, NEW new, ContainmentStands(old), DOMAIN old \subseteq DOMAIN new,
         \A p \in DOMAIN new : \A r \in new[p].relations : r[1] = "contains" => p \in DOMAIN old /\ r \in old[p].relations
  PROVE  ContainmentStands(new)
<1>1. ASSUME NEW p \in DOMAIN new, NEW o, Holds(new, p, o)
      PROVE  p \in DOMAIN old /\ o \in DOMAIN old /\ Holds(old, p, o)
  <2>1. <<"contains", o>>[1] = "contains" /\ <<"contains", o>>[2] = o
    OBVIOUS
  <2>2. p \in DOMAIN old /\ <<"contains", o>> \in old[p].relations
    BY <1>1, <2>1 DEF Holds
  <2> QED BY <2>1, <2>2 DEF ContainmentStands, Holds
<1>2. \A p \in DOMAIN new : \A r \in new[p].relations : r[1] = "contains" => r[2] \in DOMAIN new
  BY DEF ContainmentStands
<1>3. \A p, q, o \in DOMAIN new : Holds(new, p, o) /\ Holds(new, q, o) => p = q
  BY <1>1 DEF ContainmentStands
<1>4. ASSUME NEW p \in DOMAIN new, NEW o \in DOMAIN new, Holds(new, p, o)
      PROVE  \E S \in SUBSET DOMAIN new : o \in S /\ p \notin S /\ ClosedDownwards(new, S)
  <2>1. PICK S \in SUBSET DOMAIN old : o \in S /\ p \notin S /\ ClosedDownwards(old, S)
    BY <1>1, <1>4 DEF ContainmentStands
  <2>2. ClosedDownwards(new, S)
    BY <1>1, <2>1 DEF ClosedDownwards
  <2> QED BY <2>1, <2>2
<1> QED BY <1>2, <1>3, <1>4 DEF ContainmentStands

\* One object s comes to contain another one t, that no object contained, while a set that holds t and what t
\* leads to does not hold s.
LEMMA OneLink ==
  ASSUME NEW old, NEW new, ContainmentStands(old), DOMAIN old \subseteq DOMAIN new,
         NEW s \in DOMAIN old, NEW T \in SUBSET DOMAIN new, NEW t \in T, s \notin T, ClosedDownwards(new, T),
         \A p \in DOMAIN old : ~Holds(old, p, t),
         \A p \in DOMAIN new : \A r \in new[p].relations : r[1] = "contains" =>
           (p \in DOMAIN old /\ r \in old[p].relations) \/ (p = s /\ r = <<"contains", t>>)
  PROVE  ContainmentStands(new)
<1>1. ASSUME NEW p \in DOMAIN new, NEW o, Holds(new, p, o)
      PROVE  \/ p \in DOMAIN old /\ o \in DOMAIN old /\ Holds(old, p, o) /\ o # t
             \/ p = s /\ o = t
  <2>1. <<"contains", o>>[1] = "contains" /\ <<"contains", o>>[2] = o /\ <<"contains", t>>[2] = t
    OBVIOUS
  <2>2. \/ p \in DOMAIN old /\ <<"contains", o>> \in old[p].relations
        \/ p = s /\ <<"contains", o>> = <<"contains", t>>
    BY <1>1, <2>1 DEF Holds
  <2> QED BY <2>1, <2>2 DEF ContainmentStands, Holds
<1>2. ASSUME NEW p \in DOMAIN new, NEW r \in new[p].relations, r[1] = "contains" PROVE r[2] \in DOMAIN new
  <2>1. CASE p \in DOMAIN old /\ r \in old[p].relations
    BY <1>2, <2>1 DEF ContainmentStands
  <2>2. CASE p = s /\ r = <<"contains", t>>
    BY <2>2
  <2> QED BY <1>2, <2>1, <2>2
<1>3. \A p, q, o \in DOMAIN new : Holds(new, p, o) /\ Holds(new, q, o) => p = q
  BY <1>1 DEF ContainmentStands
<1>4. ASSUME NEW p \in DOMAIN new, NEW o \in DOMAIN new, Holds(new, p, o)
      PROVE  \E S \in SUBSET DOMAIN new : o \in S /\ p \notin S /\ ClosedDownwards(new, S)
  <2>1. CASE p = s /\ o = t
    BY <2>1
  <2>2. CASE p \in DOMAIN old /\ o \in DOMAIN old /\ Holds(old, p, o)
    <3>1. PICK S \in SUBSET DOMAIN old : o \in S /\ p \notin S /\ ClosedDownwards(old, S)
      BY <2>2 DEF ContainmentStands
    <3>2. CASE s \notin S
      <4>1. ClosedDownwards(new, S)
        BY <1>1, <3>1, <3>2 DEF ClosedDownwards
      <4> QED BY <3>1, <4>1
    <3>3. CASE s \in S /\ p \notin T
      <4>1. ClosedDownwards(new, S \cup T)
        BY <1>1, <3>1 DEF ClosedDownwards
      <4>2. S \cup T \in SUBSET DOMAIN new /\ o \in S \cup T /\ p \notin S \cup T
        BY <3>1, <3>3
      <4> QED BY <4>1, <4>2
    <3>4. CASE p \in T
      <4>1. o \in T
        BY <1>4, <3>4 DEF ClosedDownwards
      <4>2. ClosedDownwards(new, S \cap T)
        BY <1>1, <3>1 DEF ClosedDownwards
      <4>3. S \cap T \in SUBSET DOMAIN new /\ o \in S \cap T /\ p \notin S \cap T
        BY <3>1, <4>1
      <4> QED BY <4>2, <4>3
    <3> QED BY <3>2, <3>3, <3>4
  <2> QED BY <1>1, <1>4, <2>1, <2>2
<1> QED BY <1>2, <1>3, <1>4 DEF ContainmentStands

-----------------------------------------------------------------------------
\* What a production command plans.  An object that is revised: on its head, its decisions and protections kept, and only in fields that are named.
Revised(plan, o) ==
  LET row == plan.rows[o] IN
  /\ o \in OpenObjects /\ plan.owner = productionRef(o)
  /\ DOMAIN row = ObjectColumns /\ row.revision = objects[o].revision + 1
  /\ row.decisions = objects[o].decisions /\ row.protections = objects[o].protections
  /\ row.content # objects[o].content => Field(o, "content", Absent) \in plan.fields
  /\ row.relations # objects[o].relations => Field(o, "relations", Absent) \in plan.fields
  /\ row.lifecycle # objects[o].lifecycle => Field(o, "lifecycle", Absent) \in plan.fields
  /\ plan.active = Choosers(objects[o].protections, plan.fields)
Created(a, plan, o) ==
  LET row == plan.rows[o] IN
  /\ o = a /\ o \notin OpenObjects
  /\ DOMAIN row = ObjectColumns /\ row.revision = 0 /\ row.decisions = <<>> /\ row.protections = <<>>
ProductionPlanned(a, plan) ==
  /\ plan.tool = "production.mutate" /\ plan.undoes = Absent /\ plan.effect.rows = plan.rows
  /\ \A o \in DOMAIN plan.rows : Revised(plan, o) \/ Created(a, plan, o)
  /\ ContainmentStands(WithRows(objects, plan.rows))

ObjectsStand == ObjectTable(objects) /\ ContainmentStands(objects)

\* A plan that writes nothing.
LEMMA EmptyPlan ==
  ASSUME ObjectsStand, NEW a, NEW owner, NEW plan \in Empty(owner)
  PROVE  ProductionPlanned(a, plan)
<1>1. plan = plannedProductionMutation(owner, {}, <<>>)
  BY DEF Empty
<1>2. plan.tool = "production.mutate" /\ plan.undoes = Absent /\ plan.rows = <<>> /\ plan.effect.rows = <<>>
  BY <1>1 DEF plannedProductionMutation
<1>3. DOMAIN plan.rows = {}
  BY <1>2
<1>4. ContainmentStands(WithRows(objects, plan.rows))
  <2>1. DOMAIN WithRows(objects, plan.rows) = DOMAIN objects /\ \A o \in DOMAIN objects : WithRows(objects, plan.rows)[o] = objects[o]
    <3>1. /\ DOMAIN WithRows(objects, plan.rows) = DOMAIN plan.rows \cup DOMAIN objects
          /\ \A k \in DOMAIN objects \ DOMAIN plan.rows : WithRows(objects, plan.rows)[k] = objects[k]
      BY DEF WithRows
    <3> QED BY <1>3, <3>1
  <2> QED BY <2>1, FewerLinks DEF ObjectsStand
<1> QED BY <1>2, <1>3, <1>4 DEF ProductionPlanned

\* A plan that revises its owner: all but what becomes of containment.
LEMMA RevisePlan ==
  ASSUME ObjectsStand, NEW owner, requireProductionRef(owner), NEW names, NEW row, NEW plan \in Revise(owner, names, row),
         DOMAIN row = ObjectColumns, row.decisions = objects[owner[1]].decisions,
         row.protections = objects[owner[1]].protections,
         row.content # objects[owner[1]].content => "content" \in names,
         row.relations # objects[owner[1]].relations => "relations" \in names,
         row.lifecycle # objects[owner[1]].lifecycle => "lifecycle" \in names
  PROVE  /\ plan.tool = "production.mutate" /\ plan.undoes = Absent /\ plan.effect.rows = plan.rows
         /\ DOMAIN plan.rows = {owner[1]} /\ Revised(plan, owner[1]) /\ plan.rows[owner[1]].relations = row.relations
<1> DEFINE o == owner[1]
           fields == {Field(o, n, Absent) : n \in names}
<1>1. o \in OpenObjects /\ owner = productionRef(o)
  BY DEF requireProductionRef, loadProductionObject
<1>2. plan = plannedProductionMutation(owner, names, [x \in {o} |-> reviseObjectChange(x, row)])
  BY DEF Revise
<1>3. owner # Absent
  <2>1. o \in ObjectIds /\ objects[o].revision \in Nat
    BY <1>1 DEF ObjectsStand, ObjectTable, OpenObjects
  <2>2. owner \in ObjectIds \X Nat
    BY <1>1, <2>1 DEF productionRef
  <2> QED BY <2>2, ProductionAssumption
<1>4. /\ plan.tool = "production.mutate" /\ plan.undoes = Absent /\ plan.effect.rows = plan.rows
      /\ plan.owner = owner /\ plan.fields = fields
      /\ plan.rows = [x \in {o} |-> reviseObjectChange(x, row)]
      /\ plan.active = activeProductionChoiceIds(o, fields)
  BY <1>2, <1>3 DEF plannedProductionMutation
<1>5. DOMAIN plan.rows = {o} /\ plan.rows[o] = [row EXCEPT !.revision = objects[o].revision + 1]
  BY <1>4 DEF reviseObjectChange
<1>6. /\ DOMAIN plan.rows[o] = ObjectColumns /\ plan.rows[o].revision = objects[o].revision + 1
      /\ plan.rows[o].decisions = row.decisions /\ plan.rows[o].protections = row.protections
      /\ plan.rows[o].content = row.content /\ plan.rows[o].relations = row.relations
      /\ plan.rows[o].lifecycle = row.lifecycle
  BY <1>5 DEF ObjectColumns
<1>7. \A n \in names : Field(o, n, Absent) \in plan.fields
  BY <1>4
<1> QED BY <1>1, <1>4, <1>5, <1>6, <1>7 DEF Revised, activeProductionChoiceIds

\* A plan that revises its owner, which then contains no more than before.
LEMMA PlainRevision ==
  ASSUME ObjectsStand, NEW a, NEW owner, requireProductionRef(owner), NEW names, NEW row, NEW plan \in Revise(owner, names, row),
         DOMAIN row = ObjectColumns, row.decisions = objects[owner[1]].decisions,
         row.protections = objects[owner[1]].protections,
         row.content # objects[owner[1]].content => "content" \in names,
         row.relations # objects[owner[1]].relations => "relations" \in names,
         row.lifecycle # objects[owner[1]].lifecycle => "lifecycle" \in names,
         \A r \in row.relations : r[1] = "contains" => r \in objects[owner[1]].relations
  PROVE  ProductionPlanned(a, plan)
<1> DEFINE new == WithRows(objects, plan.rows)
<1>1. /\ plan.tool = "production.mutate" /\ plan.undoes = Absent /\ plan.effect.rows = plan.rows
      /\ DOMAIN plan.rows = {owner[1]} /\ Revised(plan, owner[1]) /\ plan.rows[owner[1]].relations = row.relations
  BY RevisePlan
<1>2. owner[1] \in DOMAIN objects
  BY <1>1 DEF Revised, OpenObjects
<1>3. /\ DOMAIN new = DOMAIN objects /\ new[owner[1]] = plan.rows[owner[1]]
      /\ \A o \in DOMAIN objects : o # owner[1] => new[o] = objects[o]
  <2>1. /\ DOMAIN new = DOMAIN plan.rows \cup DOMAIN objects /\ \A k \in DOMAIN plan.rows : new[k] = plan.rows[k]
        /\ \A k \in DOMAIN objects \ DOMAIN plan.rows : new[k] = objects[k]
    BY DEF WithRows
  <2> HIDE DEF new
  <2> QED BY <1>1, <1>2, <2>1
<1>4. ContainmentStands(new)
  <2> HIDE DEF new
  <2>1. \A p \in DOMAIN new : \A r \in new[p].relations : r[1] = "contains" => p \in DOMAIN objects /\ r \in objects[p].relations
    BY <1>1, <1>3
  <2> QED BY <1>3, <2>1, FewerLinks DEF ObjectsStand
<1> QED BY <1>1, <1>4 DEF ProductionPlanned

LEMMA UpdatePlan ==
  ASSUME ObjectsStand, NEW a, NEW in, NEW plan \in planUpdateMutation(in)
  PROVE  ProductionPlanned(a, plan)
<1> DEFINE before == objects[in.ref[1]]
           row == [before EXCEPT !.content = in.content]
<1>1. requireProductionRef(in.ref)
  BY DEF planUpdateMutation
<1>2. plan \in Empty(in.ref) \/ plan \in Revise(in.ref, {"content"}, row)
  BY <1>1 DEF planUpdateMutation
<1>3. DOMAIN before = ObjectColumns
  BY <1>1 DEF requireProductionRef, loadProductionObject, OpenObjects, ObjectsStand, ObjectTable
<1>4. /\ DOMAIN row = ObjectColumns /\ row.decisions = before.decisions /\ row.protections = before.protections
      /\ row.relations = before.relations /\ row.lifecycle = before.lifecycle
  BY <1>3 DEF ObjectColumns
<1> HIDE DEF row
<1> QED BY <1>1, <1>2, <1>4, EmptyPlan, PlainRevision

LEMMA LifecyclePlan ==
  ASSUME ObjectsStand, NEW a, NEW in, NEW plan \in planLifecycleMutation(in)
  PROVE  ProductionPlanned(a, plan)
<1> DEFINE before == objects[in.ref[1]]
           row == [before EXCEPT !.lifecycle = IF in.action = "archive" THEN "archived" ELSE "active"]
<1>1. requireProductionRef(in.ref)
  BY DEF planLifecycleMutation
<1>2. plan \in Empty(in.ref) \/ plan \in Revise(in.ref, {"lifecycle"}, row)
  BY <1>1 DEF planLifecycleMutation
<1>3. DOMAIN before = ObjectColumns
  BY <1>1 DEF requireProductionRef, loadProductionObject, OpenObjects, ObjectsStand, ObjectTable
<1>4. /\ DOMAIN row = ObjectColumns /\ row.decisions = before.decisions /\ row.protections = before.protections
      /\ row.relations = before.relations /\ row.content = before.content
  BY <1>3 DEF ObjectColumns
<1> HIDE DEF row
<1> QED BY <1>1, <1>2, <1>4, EmptyPlan, PlainRevision

LEMMA CitationPlan ==
  ASSUME ObjectsStand, NEW a, NEW in, NEW plan \in planCitationMutation(in)
  PROVE  ProductionPlanned(a, plan)
<1> DEFINE before == objects[in.ref[1]]
           row == [before EXCEPT !.cites = @ \cup {[source |-> in.source, relation |-> in.relation]}]
<1>1. requireProductionRef(in.ref)
  BY DEF planCitationMutation
<1>2. plan \in Empty(in.ref) \/ plan \in Revise(in.ref, {}, row)
  BY <1>1 DEF planCitationMutation
<1>3. DOMAIN before = ObjectColumns
  BY <1>1 DEF requireProductionRef, loadProductionObject, OpenObjects, ObjectsStand, ObjectTable
<1>4. /\ DOMAIN row = ObjectColumns /\ row.decisions = before.decisions /\ row.protections = before.protections
      /\ row.relations = before.relations /\ row.content = before.content /\ row.lifecycle = before.lifecycle
  BY <1>3 DEF ObjectColumns
<1> HIDE DEF row
<1> QED BY <1>1, <1>2, <1>4, EmptyPlan, PlainRevision

LEMMA ReplacePlan ==
  ASSUME ObjectsStand, NEW a, NEW in, NEW plan \in planReplaceMutation(in)
  PROVE  ProductionPlanned(a, plan)
<1> DEFINE before == objects[in.ref[1]]
           row == [before EXCEPT !.content = in.content, !.lifecycle = in.lifecycle,
                                 !.relations = nonContainmentReplacementWrites(in.ref[1], in.relations)]
           names == {n \in {"content", "relations", "lifecycle"} : before[n] # row[n]}
<1>1. requireProductionRef(in.ref) /\ validateNonContainmentRelations(in.ref[1], in.relations)
  BY DEF planReplaceMutation
<1>2. plan \in Empty(in.ref) \/ plan \in Revise(in.ref, names, row)
  BY <1>1 DEF planReplaceMutation
<1>3. DOMAIN before = ObjectColumns
  BY <1>1 DEF requireProductionRef, loadProductionObject, OpenObjects, ObjectsStand, ObjectTable
<1>4. /\ DOMAIN row = ObjectColumns /\ row.decisions = before.decisions /\ row.protections = before.protections
      /\ row.relations = nonContainmentReplacementWrites(in.ref[1], in.relations)
  BY <1>3 DEF ObjectColumns
<1>5. \A r \in row.relations : r[1] = "contains" => r \in before.relations
  BY <1>1, <1>4 DEF nonContainmentReplacementWrites, validateNonContainmentRelations
<1> HIDE DEF row
<1>6. /\ row.content # before.content => "content" \in names
      /\ row.relations # before.relations => "relations" \in names
      /\ row.lifecycle # before.lifecycle => "lifecycle" \in names
  OBVIOUS
<1> HIDE DEF names
<1> QED BY <1>1, <1>2, <1>4, <1>5, <1>6, EmptyPlan, PlainRevision

\* A link joins an object that is in no other to one that it does not lead to.
LEMMA LinkStands ==
  ASSUME ObjectsStand, NEW s \in OpenObjects, NEW t \in OpenObjects, NEW plan,
         DOMAIN plan.rows = {s}, plan.rows[s].relations = objects[s].relations \cup {<<"contains", t>>},
         assertChildHasNoParent(t), assertNoContainmentCycle(s, t)
  PROVE  ContainmentStands(WithRows(objects, plan.rows))
<1> DEFINE new == WithRows(objects, plan.rows)
<1>1. /\ DOMAIN new = DOMAIN plan.rows \cup DOMAIN objects /\ \A k \in DOMAIN plan.rows : new[k] = plan.rows[k]
      /\ \A k \in DOMAIN objects \ DOMAIN plan.rows : new[k] = objects[k]
  BY DEF WithRows
<1> HIDE DEF new
<1>2. /\ DOMAIN new = DOMAIN objects /\ new[s].relations = objects[s].relations \cup {<<"contains", t>>}
      /\ \A k \in DOMAIN objects : k # s => new[k] = objects[k]
  BY <1>1 DEF OpenObjects
<1>3. PICK T \in SUBSET OpenObjects : t \in T /\ ClosedDownwards(objects, T) /\ s \notin T
  BY DEF assertNoContainmentCycle, Reached
<1>4. T \in SUBSET DOMAIN new /\ s \in DOMAIN objects
  BY <1>2 DEF OpenObjects
<1>5. ClosedDownwards(new, T)
  <2>1. \A p \in T : new[p] = objects[p]
    BY <1>2, <1>3 DEF OpenObjects
  <2> QED BY <1>2, <1>3, <2>1 DEF ClosedDownwards, Holds
<1>6. \A p \in DOMAIN objects : ~Holds(objects, p, t)
  BY DEF assertChildHasNoParent, Holds, OpenObjects
<1>7. \A p \in DOMAIN new : \A r \in new[p].relations : r[1] = "contains" =>
        (p \in DOMAIN objects /\ r \in objects[p].relations) \/ (p = s /\ r = <<"contains", t>>)
  BY <1>2
<1>8. ContainmentStands(objects)
  BY DEF ObjectsStand
<1> QED BY <1>2, <1>3, <1>4, <1>5, <1>6, <1>7, <1>8, OneLink DEF new

LEMMA RelatePlan ==
  ASSUME ObjectsStand, NEW a, NEW in, NEW plan \in planRelateMutation(in)
  PROVE  ProductionPlanned(a, plan)
<1> DEFINE s == in.ref[1]
           t == in.target[1]
           source == objects[s]
           link == <<in.relation, t>>
           row == [source EXCEPT !.relations = IF in.action = "link" THEN @ \cup {link} ELSE @ \ {link}]
           joins == in.action = "link" /\ in.relation = "contains"
<1>1. requireProductionRef(in.ref) /\ requireProductionRef(in.target)
  BY DEF planRelateMutation
<1>2. \/ plan \in Empty(in.ref)
      \/ /\ plan \in Revise(in.ref, {"relations"}, row)
         /\ joins => assertChildHasNoParent(t) /\ assertNoContainmentCycle(s, t)
  BY <1>1 DEF planRelateMutation
<1>3. s \in OpenObjects /\ t \in OpenObjects /\ DOMAIN source = ObjectColumns
  BY <1>1 DEF requireProductionRef, loadProductionObject, OpenObjects, ObjectsStand, ObjectTable
<1>4. /\ DOMAIN row = ObjectColumns /\ row.decisions = source.decisions /\ row.protections = source.protections
      /\ row.content = source.content /\ row.lifecycle = source.lifecycle
      /\ row.relations = IF in.action = "link" THEN source.relations \cup {link} ELSE source.relations \ {link}
  BY <1>3 DEF ObjectColumns
<1> HIDE DEF row
<1>5. CASE plan \in Empty(in.ref)
  BY <1>5, EmptyPlan
<1>6. CASE plan \in Revise(in.ref, {"relations"}, row) /\ ~joins
  <2>1. \A r \in row.relations : r[1] = "contains" => r \in source.relations
    BY <1>4, <1>6
  <2> HIDE DEF link
  <2> QED BY <1>1, <1>4, <1>6, <2>1, PlainRevision
<1>7. CASE plan \in Revise(in.ref, {"relations"}, row) /\ joins /\ assertChildHasNoParent(t) /\ assertNoContainmentCycle(s, t)
  <2>1. /\ plan.tool = "production.mutate" /\ plan.undoes = Absent /\ plan.effect.rows = plan.rows
        /\ DOMAIN plan.rows = {s} /\ Revised(plan, s) /\ plan.rows[s].relations = row.relations
    BY <1>1, <1>4, <1>7, RevisePlan
  <2>2. plan.rows[s].relations = source.relations \cup {<<"contains", t>>}
    BY <1>4, <1>7, <2>1
  <2>3. ContainmentStands(WithRows(objects, plan.rows))
    BY <1>3, <1>7, <2>1, <2>2, LinkStands
  <2> QED BY <2>1, <2>3 DEF ProductionPlanned
<1> QED BY <1>2, <1>5, <1>6, <1>7

\* An object is created: alone, or in a parent that is revised.
LEMMA CreatePlan ==
  ASSUME ObjectsStand, NEW a, NEW in, NEW plan \in planCreateMutation(a, in)
  PROVE  ProductionPlanned(a, plan)
<1> DEFINE child == createObjectChange(in.type, in.content, in.relations)
           s == in.parent[1]
           parent == objects[s]
           joined == [parent EXCEPT !.relations = @ \cup {<<"contains", a>>}]
           rows == [o \in {a, s} |-> IF o = a THEN child ELSE reviseObjectChange(o, joined)]
           new == WithRows(objects, plan.rows)
<1>1. /\ a \notin OpenObjects /\ validateNonContainmentRelations(a, in.relations)
      /\ in.parent # Absent => requireProductionRef(in.parent)
  BY DEF planCreateMutation
<1>2. /\ in.parent = Absent => plan = plannedProductionMutation(Absent, {}, [o \in {a} |-> child])
      /\ in.parent # Absent => plan = plannedProductionMutation(in.parent, {"relations"}, rows)
  BY <1>1 DEF planCreateMutation
<1>3. /\ DOMAIN child = ObjectColumns /\ child.revision = 0 /\ child.decisions = <<>> /\ child.protections = <<>>
      /\ child.relations = in.relations /\ \A r \in child.relations : r[1] # "contains"
  BY <1>1 DEF createObjectChange, ObjectColumns, validateNonContainmentRelations
<1> HIDE DEF child
<1>4. ASSUME plan.rows[a] = child PROVE Created(a, plan, a)
  BY <1>1, <1>3, <1>4 DEF Created
<1>5. CASE in.parent = Absent
  <2>1. /\ plan.tool = "production.mutate" /\ plan.undoes = Absent /\ plan.effect.rows = plan.rows
        /\ plan.rows = [o \in {a} |-> child]
    BY <1>2, <1>5 DEF plannedProductionMutation
  <2>2. DOMAIN plan.rows = {a} /\ plan.rows[a] = child
    BY <2>1
  <2>3. ContainmentStands(new)
    <3>1. /\ DOMAIN new = {a} \cup DOMAIN objects /\ new[a] = child /\ \A k \in DOMAIN objects \ {a} : new[k] = objects[k]
      BY <2>2 DEF WithRows
    <3> HIDE DEF new
    <3>2. \A p \in DOMAIN new : \A r \in new[p].relations : r[1] = "contains" => p \in DOMAIN objects /\ r \in objects[p].relations
      BY <1>3, <3>1
    <3> QED BY <3>1, <3>2, FewerLinks DEF ObjectsStand
  <2> QED BY <1>4, <2>1, <2>2, <2>3 DEF ProductionPlanned
<1>6. CASE in.parent # Absent
  <2>1. s \in OpenObjects /\ in.parent = productionRef(s) /\ s # a
    BY <1>1, <1>6 DEF requireProductionRef, loadProductionObject
  <2>2. /\ plan.tool = "production.mutate" /\ plan.undoes = Absent /\ plan.effect.rows = plan.rows /\ plan.rows = rows
        /\ plan.owner = in.parent /\ plan.fields = {Field(s, n, Absent) : n \in {"relations"}}
        /\ plan.active = Choosers(objects[s].protections, plan.fields)
    <3> HIDE DEF rows, parent
    <3>1. plan = plannedProductionMutation(in.parent, {"relations"}, rows)
      BY <1>2, <1>6
    <3>2. plan.fields = {Field(s, n, Absent) : n \in {"relations"}}
      BY <3>1 DEF plannedProductionMutation
    <3>3. plan.active = activeProductionChoiceIds(s, plan.fields)
      BY <1>6, <3>1, <3>2 DEF plannedProductionMutation
    <3> QED BY <3>1, <3>2, <3>3 DEF plannedProductionMutation, activeProductionChoiceIds
  <2>3. DOMAIN plan.rows = {a, s} /\ plan.rows[a] = child /\ plan.rows[s] = [joined EXCEPT !.revision = objects[s].revision + 1]
    BY <2>1, <2>2 DEF reviseObjectChange
  <2>4. DOMAIN parent = ObjectColumns
    BY <2>1 DEF ObjectsStand, ObjectTable, OpenObjects
  <2>5. /\ DOMAIN plan.rows[s] = ObjectColumns /\ plan.rows[s].revision = objects[s].revision + 1
        /\ plan.rows[s].decisions = parent.decisions /\ plan.rows[s].protections = parent.protections
        /\ plan.rows[s].content = parent.content /\ plan.rows[s].lifecycle = parent.lifecycle
        /\ plan.rows[s].relations = parent.relations \cup {<<"contains", a>>}
    BY <2>3, <2>4 DEF ObjectColumns
  <2>6. Revised(plan, s)
    <3>1. Field(s, "relations", Absent) \in plan.fields
      BY <2>2
    <3> QED BY <2>1, <2>2, <2>5, <3>1 DEF Revised
  <2>7. ContainmentStands(new)
    <3>1. /\ DOMAIN new = {a, s} \cup DOMAIN objects /\ new[a] = child /\ new[s] = plan.rows[s]
          /\ \A k \in DOMAIN objects \ {a, s} : new[k] = objects[k]
      BY <2>3 DEF WithRows
    <3> HIDE DEF new
    <3>2. /\ s \in DOMAIN objects /\ a \notin DOMAIN objects /\ DOMAIN new = {a} \cup DOMAIN objects
          /\ \A k \in DOMAIN objects : k # s => new[k] = objects[k]
      BY <1>1, <2>1, <3>1 DEF OpenObjects
    <3>3. ClosedDownwards(new, {a})
      <4>1. \A o : ~Holds(new, a, o)
        <5>1. \A o : <<"contains", o>>[1] = "contains"
          OBVIOUS
        <5> QED BY <1>3, <3>1, <5>1 DEF Holds
      <4> QED BY <4>1 DEF ClosedDownwards
    <3>4. ContainmentStands(objects)
      BY DEF ObjectsStand
    <3>5. \A p \in DOMAIN objects : ~Holds(objects, p, a)
      <4>1. <<"contains", a>>[1] = "contains" /\ <<"contains", a>>[2] = a
        OBVIOUS
      <4> QED BY <3>2, <3>4, <4>1 DEF ContainmentStands, Holds
    <3>6. \A p \in DOMAIN new : \A r \in new[p].relations : r[1] = "contains" =>
            (p \in DOMAIN objects /\ r \in objects[p].relations) \/ (p = s /\ r = <<"contains", a>>)
      <4>1. new[s].relations = objects[s].relations \cup {<<"contains", a>>}
        BY <2>5, <3>1
      <4> QED BY <1>3, <3>1, <3>2, <4>1
    <3>7. {a} \in SUBSET DOMAIN new /\ s \notin {a}
      BY <2>1, <3>2
    <3> QED BY <3>2, <3>3, <3>4, <3>5, <3>6, <3>7, OneLink
  <2> QED BY <1>4, <2>2, <2>3, <2>6, <2>7 DEF ProductionPlanned
<1> QED BY <1>5, <1>6

LEMMA ProductionPlans ==
  ASSUME ObjectsStand, NEW a, NEW in, NEW plan \in planProductionMutation(a, in)
  PROVE  ProductionPlanned(a, plan)
<1>1. \/ plan \in planCreateMutation(a, in) \/ plan \in planUpdateMutation(in) \/ plan \in planRelateMutation(in)
      \/ plan \in planLifecycleMutation(in) \/ plan \in planCitationMutation(in) \/ plan \in planReplaceMutation(in)
  BY Zenon DEF planProductionMutation
<1> QED BY <1>1, CreatePlan, UpdatePlan, RelatePlan, LifecyclePlan, CitationPlan, ReplacePlan

-----------------------------------------------------------------------------
\* What a decision, a protection or an undo plans for the object it is about.  An object shows the values of its
\* decisions, and what of it is protected.
Values(decisions) == [r \in DOMAIN decisions |-> decisions[r].value]
LEMMA ShownIs == \A row : ShownObject(row) = <<Values(row.decisions), DOMAIN row.protections>>
  BY DEF ShownObject, Values

LEMMA RowWith ==
  ASSUME NEW row, DOMAIN row = ObjectColumns, NEW x
  PROVE  /\ LET new == [row EXCEPT !.decisions = x] IN
            /\ DOMAIN new = ObjectColumns /\ new.decisions = x /\ new.protections = row.protections
            /\ new.revision = row.revision /\ new.relations = row.relations /\ new.content = row.content
            /\ new.lifecycle = row.lifecycle /\ new.type = row.type
         /\ LET new == [row EXCEPT !.protections = x] IN
            /\ DOMAIN new = ObjectColumns /\ new.protections = x /\ new.decisions = row.decisions
            /\ new.revision = row.revision /\ new.relations = row.relations /\ new.content = row.content
            /\ new.lifecycle = row.lifecycle /\ new.type = row.type
         /\ LET new == [row EXCEPT !.revision = x] IN
            /\ DOMAIN new = ObjectColumns /\ new.revision = x /\ new.decisions = row.decisions
            /\ new.protections = row.protections /\ new.relations = row.relations /\ new.content = row.content
            /\ new.lifecycle = row.lifecycle /\ new.type = row.type
BY DEF ObjectColumns

\* Decisions that are restored.
LEMMA RestoredIs ==
  ASSUME NEW decisions, NEW entries, NEW a
  PROVE  LET new == Restored(decisions, entries, a) IN
         /\ \A r : r \in DOMAIN new <=>
              \/ r \in DOMAIN entries /\ entries[r] # Absent
              \/ r \in DOMAIN decisions /\ r \notin DOMAIN entries
         /\ \A r \in DOMAIN new : r \in DOMAIN entries => new[r] = [value |-> entries[r], choice |-> a]
         /\ \A r \in DOMAIN new : r \notin DOMAIN entries => new[r] = decisions[r]
BY DEF Restored, Without

\* Restored are the values that the entries were read from, where nothing else has changed.
LEMMA RestoredShows ==
  ASSUME NEW then, NEW now, NEW entries, NEW a,
         \A r \in DOMAIN then : then[r].value # Absent,
         \A r \in DOMAIN entries : entries[r] = ValueOf(then, r),
         \A r : r \notin DOMAIN entries => (r \in DOMAIN now <=> r \in DOMAIN then),
         \A r \in DOMAIN now \ DOMAIN entries : now[r].value = then[r].value
  PROVE  Values(Restored(now, entries, a)) = Values(then)
<1> DEFINE new == Restored(now, entries, a)
<1>1. /\ \A r : r \in DOMAIN new <=> \/ r \in DOMAIN entries /\ entries[r] # Absent
                                     \/ r \in DOMAIN now /\ r \notin DOMAIN entries
      /\ \A r \in DOMAIN new : r \in DOMAIN entries => new[r] = [value |-> entries[r], choice |-> a]
      /\ \A r \in DOMAIN new : r \notin DOMAIN entries => new[r] = now[r]
  BY RestoredIs
<1> HIDE DEF new
<1>2. \A r : r \in DOMAIN new <=> r \in DOMAIN then
  BY <1>1 DEF ValueOf
<1>3. DOMAIN new = DOMAIN then
  BY <1>2
<1>4. \A r \in DOMAIN new : new[r].value = then[r].value
  BY <1>1, <1>2 DEF ValueOf
<1> QED BY <1>3, <1>4 DEF Values, new

\* What was decided and protected by Choices is so in any table that holds them.
Extends(table) == \A c \in DOMAIN choices : c \in DOMAIN table /\ table[c] = choices[c]
ObjectDecided(a, plan) ==
  LET o == plan.owner[1]
      row == plan.rows[o] IN
  /\ plan.tool \in {"decision.record", "decision.protect"} /\ plan.plans = <<>> /\ DOMAIN plan.rows = {o}
  /\ o \in OpenObjects /\ plan.owner = productionRef(o)
  /\ DOMAIN row = ObjectColumns /\ row.revision = objects[o].revision + 1
  /\ row.relations = objects[o].relations /\ row.content = objects[o].content /\ row.lifecycle = objects[o].lifecycle
  /\ plan.active = Choosers(objects[o].protections, plan.fields)
  /\ \A r : ValueOf(row.decisions, r) # ValueOf(objects[o].decisions, r) => resultField(o, r) \in plan.fields
  /\ \A f \in DOMAIN objects[o].protections \ DOMAIN row.protections : f \in plan.fields
  /\ \A table : Extends(table) /\ a \in DOMAIN table /\ table[a].effect = plan.effect => DecisionsStand(table, o, row)
  /\ \/ Redecides(plan.before, plan.effect, o)
     \/ Toggles(plan.before, plan.effect, ProductionProtectedFields(o))
  /\ ShownObject(applyUndoEffect(row, plan.before, Absent)) = ShownObject(objects[o])
  /\ plan.undoes # Absent => plan.undoes \in DOMAIN choices /\ ShownObject(row) = choices[plan.undoes].seen

DecisionRows == \A o \in OpenObjects : DecisionsStand(choices, o, objects[o])
ChoicesStand == \A c \in DOMAIN choices : ChoiceStands(c, choices[c], objects, deliveries)

LEMMA StillStands ==
  ASSUME NEW table, Extends(table), NEW o, NEW row, DecisionsStand(choices, o, row)
  PROVE  DecisionsStand(table, o, row)
<1>1. \A r, decision : DecidedBy(choices, o, r, decision) => DecidedBy(table, o, r, decision)
  BY DEF DecidedBy, Extends
<1>2. \A f, c : ProtectedBy(choices, o, f, c) => ProtectedBy(table, o, f, c)
  BY DEF ProtectedBy, Extends
<1> QED BY <1>1, <1>2 DEF DecisionsStand

\* What every plan of a decision has in common.
LEMMA PlannedDecisionIs ==
  ASSUME ObjectsStand, NEW tool, NEW owner, requireProductionRef(owner), NEW fields, NEW before, NEW effect,
         NEW supersedes, NEW undoes, NEW row, DOMAIN row = ObjectColumns,
         NEW plan, plan = plannedDecision(tool, owner, fields, before, effect, supersedes, undoes, row)
  PROVE  /\ plan.tool = tool /\ plan.owner = owner /\ plan.fields = fields /\ plan.before = before /\ plan.effect = effect
         /\ plan.undoes = undoes /\ plan.plans = <<>> /\ DOMAIN plan.rows = {owner[1]}
         /\ plan.active = Choosers(objects[owner[1]].protections, fields)
         /\ owner[1] \in OpenObjects /\ owner = productionRef(owner[1])
         /\ DOMAIN plan.rows[owner[1]] = ObjectColumns /\ plan.rows[owner[1]].revision = objects[owner[1]].revision + 1
         /\ plan.rows[owner[1]].relations = row.relations
         /\ plan.rows[owner[1]].content = row.content /\ plan.rows[owner[1]].lifecycle = row.lifecycle
         /\ plan.rows[owner[1]].decisions = row.decisions /\ plan.rows[owner[1]].protections = row.protections
<1> DEFINE o == owner[1]
<1>1. o \in OpenObjects /\ owner = productionRef(o)
  BY DEF requireProductionRef, loadProductionObject
<1>2. /\ plan.tool = tool /\ plan.owner = owner /\ plan.fields = fields /\ plan.before = before /\ plan.effect = effect
      /\ plan.undoes = undoes /\ plan.plans = <<>> /\ plan.rows = [x \in {o} |-> reviseObjectChange(x, row)]
      /\ plan.active = Choosers(objects[o].protections, fields)
  BY DEF plannedDecision, activeProductionChoiceIds
<1>3. DOMAIN plan.rows = {o} /\ plan.rows[o] = [row EXCEPT !.revision = objects[o].revision + 1]
  BY <1>2 DEF reviseObjectChange
<1>4. /\ DOMAIN plan.rows[o] = ObjectColumns /\ plan.rows[o].revision = objects[o].revision + 1
      /\ plan.rows[o].relations = row.relations
      /\ plan.rows[o].content = row.content /\ plan.rows[o].lifecycle = row.lifecycle
      /\ plan.rows[o].decisions = row.decisions /\ plan.rows[o].protections = row.protections
  BY <1>3, RowWith
<1> QED BY <1>1, <1>2, <1>3, <1>4

\* A result is decided.
LEMMA DecidePlan ==
  ASSUME ObjectsStand, DecisionRows, NEW a, NEW in, NEW plan \in planProductionResultDecisionMutation(a, in)
  PROVE  ObjectDecided(a, plan)
<1> DEFINE o == in.owner[1]
           before == objects[o].decisions
           ids == AffectedResults(before, in)
           mine == [value |-> decisionValue(in.action), choice |-> a]
           after == WithRow(Without(before, ids), in.result, mine)
           row == [objects[o] EXCEPT !.decisions = after]
           new == plan.rows[o]
<1>1. /\ requireProductionRef(in.owner)
      /\ plan = plannedDecision("decision.record", in.owner, DecidedFields(o, in, ids),
                  ResultEffect(o, ids, before), ResultEffect(o, ids, after),
                  {before[r].choice : r \in ids \cap DOMAIN before}, Absent, row)
  BY DEF planProductionResultDecisionMutation
<1>2. o \in OpenObjects /\ DOMAIN objects[o] = ObjectColumns /\ DecisionsStand(choices, o, objects[o])
  BY <1>1 DEF requireProductionRef, loadProductionObject, OpenObjects, ObjectsStand, ObjectTable, DecisionRows
<1>3. /\ DOMAIN row = ObjectColumns /\ row.decisions = after /\ row.protections = objects[o].protections
      /\ row.relations = objects[o].relations /\ row.content = objects[o].content /\ row.lifecycle = objects[o].lifecycle
  BY <1>2, RowWith
<1> HIDE DEF row
<1>4. /\ plan.tool = "decision.record" /\ plan.owner = in.owner /\ plan.fields = DecidedFields(o, in, ids)
      /\ plan.before = ResultEffect(o, ids, before) /\ plan.effect = ResultEffect(o, ids, after)
      /\ plan.undoes = Absent /\ plan.plans = <<>> /\ DOMAIN plan.rows = {o}
      /\ plan.active = Choosers(objects[o].protections, plan.fields) /\ in.owner = productionRef(o)
      /\ DOMAIN new = ObjectColumns /\ new.revision = objects[o].revision + 1 /\ new.relations = row.relations
      /\ new.content = row.content /\ new.lifecycle = row.lifecycle
      /\ new.decisions = after /\ new.protections = objects[o].protections
  <2> DEFINE fields == DecidedFields(o, in, ids)
             then == ResultEffect(o, ids, before)
             effect == ResultEffect(o, ids, after)
             superseded == {before[r].choice : r \in ids \cap DOMAIN before}
  <2>1. plan = plannedDecision("decision.record", in.owner, fields, then, effect, superseded, Absent, row)
    BY <1>1
  <2> HIDE DEF ids, after, fields, then, effect, superseded
  <2>2. /\ plan.tool = "decision.record" /\ plan.owner = in.owner /\ plan.fields = fields
        /\ plan.before = then /\ plan.effect = effect
        /\ plan.undoes = Absent /\ plan.plans = <<>> /\ DOMAIN plan.rows = {o}
        /\ plan.active = Choosers(objects[o].protections, fields) /\ in.owner = productionRef(o)
        /\ DOMAIN new = ObjectColumns /\ new.revision = objects[o].revision + 1 /\ new.relations = row.relations
        /\ new.content = row.content /\ new.lifecycle = row.lifecycle
        /\ new.decisions = row.decisions /\ new.protections = row.protections
    <3>1. requireProductionRef(in.owner) /\ DOMAIN row = ObjectColumns
      BY <1>1, <1>3
    <3> QED BY <2>1, <3>1, PlannedDecisionIs
  <2> QED BY <1>3, <2>2 DEF fields, then, effect
<1> HIDE DEF new
<1>5. /\ in.result \in ids /\ DOMAIN after = {in.result} \cup (DOMAIN before \ ids)
      /\ after[in.result] = mine /\ \A r \in DOMAIN before \ ids : after[r] = before[r]
  BY DEF AffectedResults, WithRow, Without
<1>6. in.action = "select" => \A r \in DOMAIN before \ ids : before[r].value # "selected"
  BY DEF AffectedResults
<1>7. mine.value # Absent /\ (mine.value = "selected" => in.action = "select") /\ mine.choice = a
  <2>1. mine.value \in {"selected", "rejected", "refine", "reference"}
    BY DEF decisionValue
  <2> QED BY <2>1, ChoicesAssumption DEF decisionValue
<1> HIDE DEF ids, after, mine
<1>8. \A r : ValueOf(after, r) # ValueOf(before, r) => r \in ids
  BY <1>5 DEF ValueOf
<1>9. /\ plan.before.kind = "result_decisions" /\ plan.before.shot = o /\ DOMAIN plan.before.entries = ids
      /\ plan.effect.kind = "result_decisions" /\ plan.effect.shot = o /\ DOMAIN plan.effect.entries = ids
      /\ \A r \in ids : plan.before.entries[r] = ValueOf(before, r) /\ plan.effect.entries[r] = ValueOf(after, r)
  BY <1>4 DEF ResultEffect
<1>10. \A r \in DOMAIN before : before[r].value # Absent
  BY <1>2 DEF DecisionsStand, DecidedBy
<1>11. SelectedOnce(Values(after))
  <2>1. SelectedOnce(Values(before))
    BY <1>2, ShownIs DEF DecisionsStand
  <2>2. SUFFICES ASSUME NEW r \in DOMAIN after, NEW s \in DOMAIN after, after[r].value = "selected", after[s].value = "selected"
                 PROVE  r = s
    BY DEF SelectedOnce, Values
  <2>3. CASE r \in DOMAIN before \ ids /\ s \in DOMAIN before \ ids
    BY <1>5, <2>1, <2>2, <2>3 DEF SelectedOnce, Values
  <2>4. CASE r = in.result \/ s = in.result
    BY <1>5, <1>6, <1>7, <2>2, <2>4
  <2> QED BY <1>5, <2>3, <2>4
<1>12. ASSUME NEW table, Extends(table), a \in DOMAIN table, table[a].effect = plan.effect
       PROVE  DecisionsStand(table, o, new)
  <2>1. DecisionsStand(table, o, objects[o])
    BY <1>2, <1>12, StillStands
  <2>2. DecidedBy(table, o, in.result, mine)
    BY <1>5, <1>7, <1>9, <1>12 DEF DecidedBy, ValueOf
  <2>3. \A r \in DOMAIN before : DecidedBy(table, o, r, before[r])
    BY <2>1 DEF DecisionsStand
  <2>4. \A r \in DOMAIN new.decisions : DecidedBy(table, o, r, new.decisions[r])
    BY <1>4, <1>5, <2>2, <2>3
  <2>5. \A f \in DOMAIN new.protections : ProtectedBy(table, o, f, new.protections[f])
    BY <1>4, <2>1 DEF DecisionsStand
  <2>6. SelectedOnce(ShownObject(new)[1])
    BY <1>4, <1>11, ShownIs
  <2> QED BY <2>4, <2>5, <2>6 DEF DecisionsStand
<1>13. ShownObject(applyUndoEffect(new, plan.before, Absent)) = ShownObject(objects[o])
  <2> DEFINE back == applyUndoEffect(new, plan.before, Absent)
  <2>1. back = [new EXCEPT !.decisions = Restored(after, plan.before.entries, Absent)]
    BY <1>4, <1>9 DEF applyUndoEffect
  <2>2. back.decisions = Restored(after, plan.before.entries, Absent) /\ back.protections = objects[o].protections
    BY <1>4, <2>1, RowWith
  <2>3. Values(Restored(after, plan.before.entries, Absent)) = Values(before)
    BY <1>5, <1>9, <1>10, RestoredShows
  <2> HIDE DEF back
  <2>4. ShownObject(back) = <<Values(back.decisions), DOMAIN back.protections>>
    BY ShownIs
  <2>5. ShownObject(objects[o]) = <<Values(before), DOMAIN objects[o].protections>>
    BY ShownIs
  <2>6. Values(back.decisions) = Values(before) /\ DOMAIN back.protections = DOMAIN objects[o].protections
    BY <2>2, <2>3
  <2> QED BY <2>4, <2>5, <2>6 DEF back
<1>14. \A r : ValueOf(new.decisions, r) # ValueOf(before, r) => resultField(o, r) \in plan.fields
  BY <1>4, <1>8 DEF DecidedFields
<1>15. Redecides(plan.before, plan.effect, o)
  BY <1>9 DEF Redecides
<1>16. \A f \in DOMAIN objects[o].protections \ DOMAIN new.protections : f \in plan.fields
  BY <1>4
<1> QED BY <1>2, <1>3, <1>4, <1>12, <1>13, <1>14, <1>15, <1>16 DEF ObjectDecided, new

\* A field is protected or unprotected.
LEMMA ProtectPlan ==
  ASSUME ObjectsStand, DecisionRows, NEW a, NEW in, NEW plan \in planProductionProtectionDecisionMutation(a, in)
  PROVE  ObjectDecided(a, plan)
<1> DEFINE o == in.owner[1]
           before == objects[o].protections
           active == in.field \in DOMAIN before
           after == WithProtection(before, in.field, ~active, a)
           row == [objects[o] EXCEPT !.protections = after]
           new == plan.rows[o]
<1>1. /\ requireProductionRef(in.owner) /\ in.field \in ProductionProtectedFields(o)
      /\ plan = plannedDecision("decision.protect", in.owner, {in.field}, ProtectionEffect(in.field, active),
                  ProtectionEffect(in.field, ~active), Choosers(before, {in.field}), Absent, row)
  BY DEF planProductionProtectionDecisionMutation
<1>2. o \in OpenObjects /\ DOMAIN objects[o] = ObjectColumns /\ DecisionsStand(choices, o, objects[o])
  BY <1>1 DEF requireProductionRef, loadProductionObject, OpenObjects, ObjectsStand, ObjectTable, DecisionRows
<1>3. /\ DOMAIN row = ObjectColumns /\ row.decisions = objects[o].decisions /\ row.protections = after
      /\ row.relations = objects[o].relations /\ row.content = objects[o].content /\ row.lifecycle = objects[o].lifecycle
  BY <1>2, RowWith
<1> HIDE DEF row
<1>4. /\ plan.tool = "decision.protect" /\ plan.owner = in.owner /\ plan.fields = {in.field}
      /\ plan.before = ProtectionEffect(in.field, active) /\ plan.effect = ProtectionEffect(in.field, ~active)
      /\ plan.undoes = Absent /\ plan.plans = <<>> /\ DOMAIN plan.rows = {o}
      /\ plan.active = Choosers(objects[o].protections, plan.fields) /\ in.owner = productionRef(o)
      /\ DOMAIN new = ObjectColumns /\ new.revision = objects[o].revision + 1 /\ new.relations = row.relations
      /\ new.content = row.content /\ new.lifecycle = row.lifecycle
      /\ new.decisions = objects[o].decisions /\ new.protections = after
  <2> DEFINE then == ProtectionEffect(in.field, active)
             effect == ProtectionEffect(in.field, ~active)
             superseded == Choosers(before, {in.field})
             fields == {in.field}
  <2>1. plan = plannedDecision("decision.protect", in.owner, fields, then, effect, superseded, Absent, row)
    BY <1>1
  <2> HIDE DEF active, after, then, effect, superseded, fields
  <2>2. /\ plan.tool = "decision.protect" /\ plan.owner = in.owner /\ plan.fields = fields
        /\ plan.before = then /\ plan.effect = effect
        /\ plan.undoes = Absent /\ plan.plans = <<>> /\ DOMAIN plan.rows = {o}
        /\ plan.active = Choosers(objects[o].protections, fields) /\ in.owner = productionRef(o)
        /\ DOMAIN new = ObjectColumns /\ new.revision = objects[o].revision + 1 /\ new.relations = row.relations
        /\ new.content = row.content /\ new.lifecycle = row.lifecycle
        /\ new.decisions = row.decisions /\ new.protections = row.protections
    <3>1. requireProductionRef(in.owner) /\ DOMAIN row = ObjectColumns
      BY <1>1, <1>3
    <3> QED BY <2>1, <3>1, PlannedDecisionIs
  <2> QED BY <1>3, <2>2 DEF then, effect, fields
<1> HIDE DEF new
<1>5. /\ \A g : g \in DOMAIN after <=> IF g = in.field THEN ~active ELSE g \in DOMAIN before
      /\ \A g \in DOMAIN after : after[g] = IF g = in.field THEN a ELSE before[g]
  BY DEF WithProtection, WithRow, Without
<1>6. active \in BOOLEAN /\ (active <=> in.field \in DOMAIN before)
  OBVIOUS
<1>7. DOMAIN WithProtection(after, in.field, active, Absent) = DOMAIN before
  <2>1. CASE active
    <3>1. after = Without(before, {in.field})
      BY <2>1 DEF WithProtection
    <3>2. WithProtection(after, in.field, active, Absent) = WithRow(after, in.field, Absent)
      BY <2>1 DEF WithProtection
    <3> QED BY <2>1, <3>1, <3>2 DEF WithRow, Without
  <2>2. CASE ~active
    <3>1. after = WithRow(before, in.field, a)
      BY <2>2 DEF WithProtection
    <3>2. WithProtection(after, in.field, active, Absent) = Without(after, {in.field})
      BY <2>2 DEF WithProtection
    <3> QED BY <2>2, <3>1, <3>2 DEF WithRow, Without
  <2> QED BY <2>1, <2>2
<1> HIDE DEF active, after
<1>8. /\ plan.before.kind = "protection" /\ plan.before.field = in.field /\ plan.before.active = active
  BY <1>4 DEF ProtectionEffect
<1>9. Toggles(plan.before, plan.effect, ProductionProtectedFields(o))
  BY <1>1, <1>4, <1>6 DEF Toggles
<1>10. ASSUME NEW table, Extends(table), a \in DOMAIN table, table[a].effect = plan.effect
       PROVE  DecisionsStand(table, o, new)
  <2>1. DecisionsStand(table, o, objects[o])
    BY <1>2, <1>10, StillStands
  <2>2. ASSUME NEW f \in DOMAIN after PROVE ProtectedBy(table, o, f, after[f])
    <3>1. CASE f = in.field
      <4>1. plan.effect = ProtectionEffect(f, TRUE)
        BY <1>4, <1>5, <2>2, <3>1
      <4> QED BY <1>1, <1>5, <1>10, <2>2, <3>1, <4>1 DEF ProtectedBy
    <3>2. CASE f # in.field
      BY <1>5, <2>1, <2>2, <3>2 DEF DecisionsStand
    <3> QED BY <3>1, <3>2
  <2>3. ShownObject(new)[1] = ShownObject(objects[o])[1]
    BY <1>4, ShownIs
  <2> QED BY <1>4, <2>1, <2>2, <2>3 DEF DecisionsStand
<1>11. ShownObject(applyUndoEffect(new, plan.before, Absent)) = ShownObject(objects[o])
  <2> DEFINE back == applyUndoEffect(new, plan.before, Absent)
  <2>1. back = [new EXCEPT !.protections = WithProtection(after, in.field, active, Absent)]
    BY <1>4, <1>8 DEF applyUndoEffect
  <2>2. back.protections = WithProtection(after, in.field, active, Absent) /\ back.decisions = objects[o].decisions
    BY <1>4, <2>1, RowWith
  <2> HIDE DEF back
  <2>4. ShownObject(back) = <<Values(back.decisions), DOMAIN back.protections>>
    BY ShownIs
  <2>5. ShownObject(objects[o]) = <<Values(objects[o].decisions), DOMAIN before>>
    BY ShownIs
  <2>6. Values(back.decisions) = Values(objects[o].decisions) /\ DOMAIN back.protections = DOMAIN before
    BY <1>7, <2>2
  <2> QED BY <2>4, <2>5, <2>6 DEF back
<1>12. \A f \in DOMAIN before \ DOMAIN new.protections : f \in plan.fields
  BY <1>4, <1>5
<1> QED BY <1>2, <1>3, <1>4, <1>9, <1>10, <1>11, <1>12 DEF ObjectDecided, new

\* A Choice is undone: what it decided is restored.
LEMMA UndoDecidePlan ==
  ASSUME ObjectsStand, DecisionRows, NEW a, NEW owner, requireProductionRef(owner), NEW c \in DOMAIN choices, NEW fields,
         NEW supersedes, NEW plan,
         plan = plannedDecision("decision.record", owner, fields, choices[c].effect, choices[c].before, supersedes, c,
                                applyUndoEffect(objects[owner[1]], choices[c].before, a)),
         fields = effectFields(choices[c].effect),
         currentEffect(objects[owner[1]], choices[c].effect) = choices[c].effect,
         Redecides(choices[c].before, choices[c].effect, owner[1]), SelectedOnce(choices[c].seen[1]),
         ShownObject(applyUndoEffect(objects[owner[1]], choices[c].before, Absent)) = choices[c].seen
  PROVE  ObjectDecided(a, plan)
<1> DEFINE o == owner[1]
           effect == choices[c].effect
           was == choices[c].before
           seen == choices[c].seen
           before == objects[o].decisions
           after == Restored(before, was.entries, a)
           bare == Restored(before, was.entries, Absent)
           row == applyUndoEffect(objects[o], was, a)
           new == plan.rows[o]
<1>1. /\ was.kind = "result_decisions" /\ was.shot = o /\ effect.kind = "result_decisions" /\ effect.shot = o
      /\ DOMAIN was.entries = DOMAIN effect.entries
  BY DEF Redecides
<1>2. o \in OpenObjects /\ DOMAIN objects[o] = ObjectColumns /\ DecisionsStand(choices, o, objects[o])
  BY DEF requireProductionRef, loadProductionObject, OpenObjects, ObjectsStand, ObjectTable, DecisionRows
<1>3. /\ DOMAIN row = ObjectColumns /\ row.decisions = after /\ row.protections = objects[o].protections
      /\ row.relations = objects[o].relations /\ row.content = objects[o].content /\ row.lifecycle = objects[o].lifecycle
  <2>1. row = [objects[o] EXCEPT !.decisions = after]
    BY <1>1 DEF applyUndoEffect
  <2> HIDE DEF row, after
  <2> QED BY <1>2, <2>1, RowWith
<1>4. \A r \in DOMAIN effect.entries : effect.entries[r] = ValueOf(before, r)
  <2>1. effect = ResultEffect(effect.shot, DOMAIN effect.entries, before)
    BY <1>1 DEF currentEffect
  <2> HIDE DEF effect, before
  <2> QED BY <2>1 DEF ResultEffect
<1>5. fields = {resultField(o, r) : r \in DOMAIN was.entries}
  BY <1>1 DEF effectFields
<1>6. /\ plan.tool = "decision.record" /\ plan.owner = owner /\ plan.fields = fields
      /\ plan.before = effect /\ plan.effect = was /\ plan.undoes = c /\ plan.plans = <<>> /\ DOMAIN plan.rows = {o}
      /\ plan.active = Choosers(objects[o].protections, fields) /\ owner = productionRef(o)
      /\ DOMAIN new = ObjectColumns /\ new.revision = objects[o].revision + 1 /\ new.relations = objects[o].relations
      /\ new.content = objects[o].content /\ new.lifecycle = objects[o].lifecycle
      /\ new.decisions = after /\ new.protections = objects[o].protections
  <2>1. plan = plannedDecision("decision.record", owner, fields, effect, was, supersedes, c, row)
    OBVIOUS
  <2>2. ObjectsStand /\ requireProductionRef(owner) /\ DOMAIN row = ObjectColumns
    BY <1>3
  <2> HIDE DEF row, effect, was, after
  <2>3. /\ plan.tool = "decision.record" /\ plan.owner = owner /\ plan.fields = fields
        /\ plan.before = effect /\ plan.effect = was /\ plan.undoes = c /\ plan.plans = <<>> /\ DOMAIN plan.rows = {o}
        /\ plan.active = Choosers(objects[o].protections, fields) /\ owner = productionRef(o)
        /\ DOMAIN new = ObjectColumns /\ new.revision = objects[o].revision + 1 /\ new.relations = row.relations
        /\ new.content = row.content /\ new.lifecycle = row.lifecycle
        /\ new.decisions = row.decisions /\ new.protections = row.protections
    BY ONLY <2>1, <2>2, PlannedDecisionIs DEF o, new
  <2> QED BY <1>3, <2>3
<1> HIDE DEF new, row
<1>7. /\ \A r : r \in DOMAIN after <=>
            \/ r \in DOMAIN was.entries /\ was.entries[r] # Absent
            \/ r \in DOMAIN before /\ r \notin DOMAIN was.entries
      /\ \A r \in DOMAIN after : r \in DOMAIN was.entries => after[r] = [value |-> was.entries[r], choice |-> a]
      /\ \A r \in DOMAIN after : r \notin DOMAIN was.entries => after[r] = before[r]
  <2> HIDE DEF was, before
  <2> QED BY RestoredIs
<1>8. Values(after) = Values(bare)
  <2>1. /\ \A r : r \in DOMAIN bare <=>
              \/ r \in DOMAIN was.entries /\ was.entries[r] # Absent
              \/ r \in DOMAIN before /\ r \notin DOMAIN was.entries
        /\ \A r \in DOMAIN bare : r \in DOMAIN was.entries => bare[r] = [value |-> was.entries[r], choice |-> Absent]
        /\ \A r \in DOMAIN bare : r \notin DOMAIN was.entries => bare[r] = before[r]
    <3> HIDE DEF was, before
    <3> QED BY RestoredIs
  <2> HIDE DEF bare, after, was, before
  <2>2. \A r : r \in DOMAIN after <=> r \in DOMAIN bare
    BY <1>7, <2>1
  <2>3. DOMAIN after = DOMAIN bare
    BY <2>2
  <2>4. \A r \in DOMAIN after : after[r].value = bare[r].value
    BY <1>7, <2>1, <2>2
  <2> QED BY <2>3, <2>4 DEF Values
<1> HIDE DEF after
<1>9. ShownObject(new) = seen
  <2> DEFINE back == applyUndoEffect(objects[o], was, Absent)
  <2>1. back = [objects[o] EXCEPT !.decisions = bare]
    BY <1>1 DEF applyUndoEffect
  <2>2. ShownObject(back) = seen
    OBVIOUS
  <2> HIDE DEF back, bare, seen
  <2>3. back.decisions = bare /\ back.protections = objects[o].protections
    BY <1>2, <2>1, RowWith
  <2>4. /\ ShownObject(back) = <<Values(back.decisions), DOMAIN back.protections>>
        /\ ShownObject(new) = <<Values(new.decisions), DOMAIN new.protections>>
    BY ShownIs
  <2> QED BY <1>6, <1>8, <2>2, <2>3, <2>4
<1>10. \A r \in DOMAIN before : before[r].value # Absent
  BY <1>2 DEF DecisionsStand, DecidedBy
<1>11. ShownObject(applyUndoEffect(new, effect, Absent)) = ShownObject(objects[o])
  <2> DEFINE back == applyUndoEffect(new, effect, Absent)
             redone == Restored(after, effect.entries, Absent)
  <2>1. back = [new EXCEPT !.decisions = redone]
    BY <1>1, <1>6 DEF applyUndoEffect
  <2>2. Values(redone) = Values(before)
    <3>1. \A r : r \notin DOMAIN effect.entries => (r \in DOMAIN after <=> r \in DOMAIN before)
      BY <1>1, <1>7
    <3>2. \A r \in DOMAIN after \ DOMAIN effect.entries : after[r].value = before[r].value
      BY <1>1, <1>7
    <3> HIDE DEF effect, before
    <3> QED BY <1>4, <1>10, <3>1, <3>2, RestoredShows
  <2> HIDE DEF back, redone
  <2>3. back.decisions = redone /\ back.protections = objects[o].protections
    BY <1>6, <2>1, RowWith
  <2>4. /\ ShownObject(back) = <<Values(back.decisions), DOMAIN back.protections>>
        /\ ShownObject(objects[o]) = <<Values(before), DOMAIN objects[o].protections>>
    BY ShownIs
  <2> QED BY <2>2, <2>3, <2>4 DEF back
<1>12. ASSUME NEW table, Extends(table), a \in DOMAIN table, table[a].effect = plan.effect
       PROVE  DecisionsStand(table, o, new)
  <2>1. DecisionsStand(table, o, objects[o])
    BY <1>2, <1>12, StillStands
  <2>2. ASSUME NEW r \in DOMAIN after PROVE DecidedBy(table, o, r, after[r])
    <3>1. CASE r \in DOMAIN was.entries
      <4>1. after[r].value = was.entries[r] /\ after[r].choice = a /\ was.entries[r] # Absent
        BY <1>7, <2>2, <3>1
      <4>2. table[a].effect = was
        BY <1>6, <1>12
      <4> QED BY <1>1, <1>12, <3>1, <4>1, <4>2 DEF DecidedBy
    <3>2. CASE r \notin DOMAIN was.entries
      BY <1>7, <2>1, <2>2, <3>2 DEF DecisionsStand
    <3> QED BY <3>1, <3>2
  <2>3. \A f \in DOMAIN new.protections : ProtectedBy(table, o, f, new.protections[f])
    BY <1>6, <2>1 DEF DecisionsStand
  <2>4. SelectedOnce(ShownObject(new)[1])
    BY <1>9
  <2> QED BY <1>6, <2>2, <2>3, <2>4 DEF DecisionsStand
<1>13. \A r : ValueOf(new.decisions, r) # ValueOf(before, r) => resultField(o, r) \in plan.fields
  BY <1>5, <1>6, <1>7 DEF ValueOf
<1>14. Redecides(effect, was, o)
  BY <1>1 DEF Redecides
<1>15. \A f \in DOMAIN objects[o].protections \ DOMAIN new.protections : f \in plan.fields
  BY <1>6
<1>16. /\ plan.tool \in {"decision.record", "decision.protect"} /\ plan.owner[1] = o
       /\ ShownObject(applyUndoEffect(new, plan.before, Absent)) = ShownObject(objects[o])
       /\ plan.undoes \in DOMAIN choices /\ ShownObject(new) = choices[plan.undoes].seen
       /\ Redecides(plan.before, plan.effect, o)
  BY <1>6, <1>9, <1>11, <1>14
<1> QED BY <1>2, <1>6, <1>12, <1>13, <1>15, <1>16 DEF ObjectDecided, new

\* A Choice is undone: what it protected is so no more, or is so again.
LEMMA UndoProtectPlan ==
  ASSUME ObjectsStand, DecisionRows, NEW a, NEW owner, requireProductionRef(owner), NEW c \in DOMAIN choices, NEW fields,
         NEW supersedes, NEW plan,
         plan = plannedDecision("decision.record", owner, fields, choices[c].effect, choices[c].before, supersedes, c,
                                applyUndoEffect(objects[owner[1]], choices[c].before, a)),
         fields = effectFields(choices[c].effect),
         currentEffect(objects[owner[1]], choices[c].effect) = choices[c].effect,
         NEW f \in ProductionProtectedFields(owner[1]), NEW active \in BOOLEAN,
         choices[c].before = ProtectionEffect(f, active), choices[c].effect = ProtectionEffect(f, ~active),
         SelectedOnce(choices[c].seen[1]),
         ShownObject(applyUndoEffect(objects[owner[1]], choices[c].before, Absent)) = choices[c].seen
  PROVE  ObjectDecided(a, plan)
<1> DEFINE o == owner[1]
           effect == choices[c].effect
           was == choices[c].before
           seen == choices[c].seen
           before == objects[o].protections
           after == WithProtection(before, f, active, a)
           bare == WithProtection(before, f, active, Absent)
           row == applyUndoEffect(objects[o], was, a)
           new == plan.rows[o]
<1>1. /\ was.kind = "protection" /\ was.field = f /\ was.active = active
      /\ effect.kind = "protection" /\ effect.field = f /\ effect.active = ~active
  BY DEF ProtectionEffect
<1>2. o \in OpenObjects /\ DOMAIN objects[o] = ObjectColumns /\ DecisionsStand(choices, o, objects[o])
  BY DEF requireProductionRef, loadProductionObject, OpenObjects, ObjectsStand, ObjectTable, DecisionRows
<1>3. /\ DOMAIN row = ObjectColumns /\ row.decisions = objects[o].decisions /\ row.protections = after
      /\ row.relations = objects[o].relations /\ row.content = objects[o].content /\ row.lifecycle = objects[o].lifecycle
  <2>1. row = [objects[o] EXCEPT !.protections = after]
    BY <1>1 DEF applyUndoEffect
  <2> HIDE DEF row, after
  <2> QED BY <1>2, <2>1, RowWith
<1>4. f \in DOMAIN before <=> ~active
  <2>1. effect = ProtectionEffect(f, f \in DOMAIN before)
    BY <1>1 DEF currentEffect
  <2>2. effect.active = (f \in DOMAIN before)
    BY <2>1 DEF ProtectionEffect
  <2> QED BY <1>1, <2>2
<1>5. fields = {f}
  BY <1>1 DEF effectFields
<1>6. /\ plan.tool = "decision.record" /\ plan.owner = owner /\ plan.fields = fields
      /\ plan.before = effect /\ plan.effect = was /\ plan.undoes = c /\ plan.plans = <<>> /\ DOMAIN plan.rows = {o}
      /\ plan.active = Choosers(objects[o].protections, fields) /\ owner = productionRef(o)
      /\ DOMAIN new = ObjectColumns /\ new.revision = objects[o].revision + 1 /\ new.relations = objects[o].relations
      /\ new.content = objects[o].content /\ new.lifecycle = objects[o].lifecycle
      /\ new.decisions = objects[o].decisions /\ new.protections = after
  <2>1. plan = plannedDecision("decision.record", owner, fields, effect, was, supersedes, c, row)
    OBVIOUS
  <2>2. ObjectsStand /\ requireProductionRef(owner) /\ DOMAIN row = ObjectColumns
    BY <1>3
  <2> HIDE DEF row, effect, was, after
  <2>3. /\ plan.tool = "decision.record" /\ plan.owner = owner /\ plan.fields = fields
        /\ plan.before = effect /\ plan.effect = was /\ plan.undoes = c /\ plan.plans = <<>> /\ DOMAIN plan.rows = {o}
        /\ plan.active = Choosers(objects[o].protections, fields) /\ owner = productionRef(o)
        /\ DOMAIN new = ObjectColumns /\ new.revision = objects[o].revision + 1 /\ new.relations = row.relations
        /\ new.content = row.content /\ new.lifecycle = row.lifecycle
        /\ new.decisions = row.decisions /\ new.protections = row.protections
    BY ONLY <2>1, <2>2, PlannedDecisionIs DEF o, new
  <2> QED BY <1>3, <2>3
<1> HIDE DEF new, row
<1>7. /\ \A g : g \in DOMAIN after <=> IF g = f THEN active ELSE g \in DOMAIN before
      /\ \A g \in DOMAIN after : after[g] = IF g = f THEN a ELSE before[g]
  <2>1. active \in BOOLEAN
    OBVIOUS
  <2> QED BY <2>1 DEF WithProtection, WithRow, Without
<1>8. DOMAIN after = DOMAIN bare
  <2>1. CASE active
    BY <2>1 DEF WithProtection, WithRow
  <2>2. CASE ~active
    BY <2>2 DEF WithProtection, Without
  <2> QED BY <2>1, <2>2
<1>9. DOMAIN WithProtection(after, f, ~active, Absent) = DOMAIN before
  <2>1. CASE active
    <3>1. after = WithRow(before, f, a)
      BY <2>1 DEF WithProtection
    <3>2. WithProtection(after, f, ~active, Absent) = Without(after, {f})
      BY <2>1 DEF WithProtection
    <3> QED BY <1>4, <2>1, <3>1, <3>2 DEF WithRow, Without
  <2>2. CASE ~active
    <3>1. after = Without(before, {f})
      BY <2>2 DEF WithProtection
    <3>2. WithProtection(after, f, ~active, Absent) = WithRow(after, f, Absent)
      BY <2>2 DEF WithProtection
    <3> QED BY <1>4, <2>2, <3>1, <3>2 DEF WithRow, Without
  <2> QED BY <2>1, <2>2
<1> HIDE DEF after
<1>10. ShownObject(new) = seen
  <2> DEFINE back == applyUndoEffect(objects[o], was, Absent)
  <2>1. back = [objects[o] EXCEPT !.protections = bare]
    BY <1>1 DEF applyUndoEffect
  <2>2. ShownObject(back) = seen
    OBVIOUS
  <2> HIDE DEF back, bare, seen
  <2>3. back.protections = bare /\ back.decisions = objects[o].decisions
    BY <1>2, <2>1, RowWith
  <2>4. /\ ShownObject(back) = <<Values(back.decisions), DOMAIN back.protections>>
        /\ ShownObject(new) = <<Values(new.decisions), DOMAIN new.protections>>
    BY ShownIs
  <2> QED BY <1>6, <1>8, <2>2, <2>3, <2>4
<1>11. ShownObject(applyUndoEffect(new, effect, Absent)) = ShownObject(objects[o])
  <2> DEFINE back == applyUndoEffect(new, effect, Absent)
             redone == WithProtection(after, f, ~active, Absent)
  <2>1. back = [new EXCEPT !.protections = redone]
    BY <1>1, <1>6 DEF applyUndoEffect
  <2> HIDE DEF back, redone
  <2>3. back.protections = redone /\ back.decisions = objects[o].decisions
    BY <1>6, <2>1, RowWith
  <2>4. /\ ShownObject(back) = <<Values(back.decisions), DOMAIN back.protections>>
        /\ ShownObject(objects[o]) = <<Values(objects[o].decisions), DOMAIN before>>
    BY ShownIs
  <2> QED BY <1>9, <2>3, <2>4 DEF back, redone
<1>12. ASSUME NEW table, Extends(table), a \in DOMAIN table, table[a].effect = plan.effect
       PROVE  DecisionsStand(table, o, new)
  <2>1. DecisionsStand(table, o, objects[o])
    BY <1>2, <1>12, StillStands
  <2>2. ASSUME NEW g \in DOMAIN after PROVE ProtectedBy(table, o, g, after[g])
    <3>1. CASE g = f
      <4>1. active = TRUE
        BY <1>7, <2>2, <3>1
      <4>2. plan.effect = ProtectionEffect(g, TRUE)
        BY <1>6, <3>1, <4>1
      <4> QED BY <1>7, <1>12, <2>2, <3>1, <4>2 DEF ProtectedBy
    <3>2. CASE g # f
      BY <1>7, <2>1, <2>2, <3>2 DEF DecisionsStand
    <3> QED BY <3>1, <3>2
  <2>3. \A r \in DOMAIN new.decisions : DecidedBy(table, o, r, new.decisions[r])
    BY <1>6, <2>1 DEF DecisionsStand
  <2>4. SelectedOnce(ShownObject(new)[1])
    BY <1>10
  <2> QED BY <1>6, <2>2, <2>3, <2>4 DEF DecisionsStand
<1>13. \A r : ValueOf(new.decisions, r) # ValueOf(objects[o].decisions, r) => resultField(o, r) \in plan.fields
  BY <1>6
<1>14. Toggles(effect, was, ProductionProtectedFields(o))
  <2>1. effect = ProtectionEffect(f, ~active) /\ was = ProtectionEffect(f, ~~active) /\ (~active) \in BOOLEAN
    OBVIOUS
  <2> HIDE DEF effect, was
  <2> QED BY <2>1 DEF Toggles
<1>15. \A g \in DOMAIN before \ DOMAIN new.protections : g \in plan.fields
  BY <1>5, <1>6, <1>7
<1>16. /\ plan.tool \in {"decision.record", "decision.protect"} /\ plan.owner[1] = o
       /\ ShownObject(applyUndoEffect(new, plan.before, Absent)) = ShownObject(objects[o])
       /\ plan.undoes \in DOMAIN choices /\ ShownObject(new) = choices[plan.undoes].seen
       /\ Toggles(plan.before, plan.effect, ProductionProtectedFields(o))
  BY <1>6, <1>10, <1>11, <1>14
<1> QED BY <1>2, <1>6, <1>12, <1>13, <1>15, <1>16 DEF ObjectDecided, new

LEMMA UndoPlan ==
  ASSUME ObjectsStand, DecisionRows, ChoicesStand, NEW a, NEW in, NEW plan \in planProductionUndoDecisionMutation(a, in)
  PROVE  ObjectDecided(a, plan)
<1> DEFINE o == in.owner[1]
           c == in.target
           target == choices[c]
<1>1. /\ c \in DOMAIN choices /\ target.ownerAfter = in.owner /\ requireProductionRef(in.owner)
      /\ currentEffect(objects[o], target.effect) = target.effect
      /\ plan = plannedDecision("decision.record", in.owner, effectFields(target.effect), target.effect, target.before,
                  {c}, c, applyUndoEffect(objects[o], target.before, a))
  BY DEF planProductionUndoDecisionMutation
<1>2. o \in OpenObjects /\ in.owner = productionRef(o) /\ o \in ObjectIds
  BY <1>1 DEF requireProductionRef, loadProductionObject, OpenObjects, ObjectsStand, ObjectTable
<1>3. target.ownerAfter[1] = o /\ target.ownerAfter[2] = objects[o].revision
  BY <1>1, <1>2 DEF productionRef
<1>4. ObjectChoiceStands(target, objects)
  BY <1>1, <1>2, <1>3 DEF ChoicesStand, ChoiceStands
<1>5. /\ \/ Redecides(target.before, target.effect, o)
         \/ Toggles(target.before, target.effect, ProductionProtectedFields(o))
      /\ SelectedOnce(target.seen[1])
      /\ ShownObject(applyUndoEffect(objects[o], target.before, Absent)) = target.seen
  BY <1>3, <1>4 DEF ObjectChoiceStands
<1>6. CASE Redecides(target.before, target.effect, o)
  <2> DEFINE fields == effectFields(target.effect)
             supersedes == {c}
  <2>1. fields = effectFields(target.effect) /\ plan = plannedDecision("decision.record", in.owner, fields, target.effect, target.before,
                  supersedes, c, applyUndoEffect(objects[o], target.before, a))
    BY <1>1
  <2> HIDE DEF fields, supersedes
  <2> QED BY <1>1, <1>5, <1>6, <2>1, UndoDecidePlan
<1>7. CASE Toggles(target.before, target.effect, ProductionProtectedFields(o))
  <2> DEFINE fields == effectFields(target.effect)
             supersedes == {c}
  <2>1. fields = effectFields(target.effect) /\ plan = plannedDecision("decision.record", in.owner, fields, target.effect, target.before,
                  supersedes, c, applyUndoEffect(objects[o], target.before, a))
    BY <1>1
  <2>2. PICK f \in ProductionProtectedFields(o), active \in BOOLEAN :
          target.before = ProtectionEffect(f, active) /\ target.effect = ProtectionEffect(f, ~active)
    BY <1>7 DEF Toggles
  <2> HIDE DEF fields, supersedes
  <2> QED BY <1>1, <1>5, <2>1, <2>2, UndoProtectPlan
<1> QED BY <1>5, <1>6, <1>7

-----------------------------------------------------------------------------
\* The order of the items of a Delivery.  A sequence that lists a finite set once lists all of it.
LEMMA ListsAll ==
  ASSUME NEW S, IsFiniteSet(S), NEW order \in SetToSeqs(S)
  PROVE  /\ Cardinality(S) \in Nat /\ order \in [1..Cardinality(S) -> S] /\ DOMAIN order = 1..Cardinality(S)
         /\ \A m, n \in DOMAIN order : order[m] = order[n] => m = n
         /\ ToSet(order) = S /\ \A i \in S : \E n \in DOMAIN order : order[n] = i
         /\ order \in Seq(S) /\ Len(order) = Cardinality(S)
<1> DEFINE D == 1..Cardinality(S)
<1>1. Cardinality(S) \in Nat
  BY FS_CardinalityType
<1>2. order \in [D -> S] /\ \A i, j \in D : i # j => order[i] # order[j]
  BY DEF SetToSeqs
<1>3. IsFiniteSet(D) /\ Cardinality(D) = Cardinality(S)
  BY <1>1, FS_Interval
<1>4. order \in Injection(D, S)
  BY <1>2 DEF Injection, IsInjective
<1>5. order \in Surjection(D, S)
  BY <1>3, <1>4, FS_Injection
<1>6. \A i \in S : \E n \in D : order[n] = i
  BY <1>5 DEF Surjection
<1>7. order \in Seq(S) /\ Len(order) = Cardinality(S)
  BY <1>1, <1>2
<1> QED BY <1>1, <1>2, <1>6, <1>7 DEF ToSet

\* In a rising order, an item comes after as many as have a smaller number.
LEMMA CountBelow ==
  ASSUME NEW S, IsFiniteSet(S), NEW order \in SetToSeqs(S), NEW numbers,
         \A i \in S : numbers[i] \in Nat, Rising(numbers, order), NEW n \in DOMAIN order
  PROVE  n \in Nat /\ Cardinality({j \in S : numbers[j] < numbers[order[n]]}) = n - 1
<1> DEFINE N == Cardinality(S)
           Below == {j \in S : numbers[j] < numbers[order[n]]}
           first == [m \in 1..(n - 1) |-> order[m]]
<1>1. /\ N \in Nat /\ order \in [1..N -> S] /\ DOMAIN order = 1..N
      /\ \A l, m \in DOMAIN order : order[l] = order[m] => l = m
      /\ \A i \in S : \E m \in DOMAIN order : order[m] = i
  BY ListsAll
<1>2. n \in 1..N /\ n \in Nat
  BY <1>1
<1>3. \A m \in 1..N : m < n <=> numbers[order[m]] < numbers[order[n]]
  <2>1. SUFFICES ASSUME NEW m \in 1..N PROVE m < n <=> numbers[order[m]] < numbers[order[n]]
    OBVIOUS
  <2>2. /\ numbers[order[m]] \in Nat /\ numbers[order[n]] \in Nat
        /\ m < n => numbers[order[m]] < numbers[order[n]]
        /\ n < m => numbers[order[n]] < numbers[order[m]]
    BY <1>1, <1>2 DEF Rising
  <2> QED BY <1>2, <2>2
<1>4. first \in Bijection(1..(n - 1), Below)
  <2>1. \A m \in 1..(n - 1) : m \in 1..N /\ m < n
    BY <1>1, <1>2
  <2>2. \A m \in 1..(n - 1) : first[m] = order[m] /\ order[m] \in Below
    BY <1>1, <1>3, <2>1
  <2>3. \A l, m \in 1..(n - 1) : first[l] = first[m] => l = m
    BY <1>1, <2>1, <2>2
  <2>4. ASSUME NEW j \in Below PROVE \E m \in 1..(n - 1) : first[m] = j
    <3>1. PICK m \in 1..N : order[m] = j
      BY <1>1
    <3>2. m < n
      BY <1>3, <3>1
    <3> QED BY <1>1, <1>2, <2>2, <3>1, <3>2
  <2>5. first \in [1..(n - 1) -> Below]
    BY <2>2
  <2> HIDE DEF first, Below
  <2> QED BY <2>3, <2>4, <2>5 DEF Bijection, Injection, Surjection, IsInjective
<1>5. IsFiniteSet(1..(n - 1)) /\ Cardinality(1..(n - 1)) = n - 1
  <2>1. /\ IsFiniteSet(1..(n - 1))
        /\ Cardinality(1..(n - 1)) = IF 1 > n - 1 THEN 0 ELSE (n - 1) - 1 + 1
    <3>1. 1 \in Int /\ n - 1 \in Int
      BY <1>2
    <3> DEFINE k == n - 1
    <3> HIDE DEF k
    <3> QED BY <3>1, FS_Interval
  <2>2. n \in Nat /\ n >= 1
    BY <1>2
  <2> QED BY <2>1, <2>2
<1>6. Cardinality(Below) = Cardinality(1..(n - 1))
  <2> HIDE DEF first, Below
  <2>1. ExistsBijection(1..(n - 1), Below)
    BY <1>4 DEF ExistsBijection
  <2> QED BY <1>5, <2>1, FS_Bijection
<1> QED BY <1>2, <1>5, <1>6

\* Items that are numbered through are in the order of their numbers, in no other, and are numbered again as they are.
ItemsStand(items) == IsFiniteSet(DOMAIN items) /\ \A i \in DOMAIN items : items[i] \in ItemRows
LEMMA NumberedOrder ==
  ASSUME NEW items, ItemsStand(items), NEW order \in SetToSeqs(activeIds(items)),
         \A n \in DOMAIN order : items[order[n]].order = n - 1
  PROVE  activeItems(items) = order
<1> DEFINE S == activeIds(items)
           numbers == [i \in S |-> items[i].order]
           chosen == activeItems(items)
<1>1. /\ S \in SUBSET DOMAIN items /\ IsFiniteSet(S)
  BY FS_Subset DEF ItemsStand, activeIds
<1>2. DOMAIN numbers = S /\ \A i \in S : numbers[i] = items[i].order /\ numbers[i] \in Nat
  BY <1>1 DEF ItemsStand, ItemRows
<1> HIDE DEF S
<1>3. order \in SetToSeqs(S)
  BY DEF S
<1>4. /\ Cardinality(S) \in Nat /\ DOMAIN order = 1..Cardinality(S) /\ order \in [1..Cardinality(S) -> S]
      /\ \A i \in S : \E n \in DOMAIN order : order[n] = i
  BY <1>1, <1>3, ListsAll
<1>5. \A n \in DOMAIN order : numbers[order[n]] = n - 1 /\ n \in Nat
  BY <1>2, <1>4
<1>6. Rising(numbers, order)
  <2> HIDE DEF numbers
  <2> QED BY <1>4, <1>5 DEF Rising
<1>7. chosen \in SetToSeqs(S) /\ Rising(numbers, chosen)
  <2>1. chosen = CHOOSE o \in SetToSeqs(DOMAIN numbers) : Rising(numbers, o)
    BY DEF activeItems, InOrder, S
  <2> HIDE DEF chosen, numbers
  <2> QED BY <1>2, <1>3, <1>6, <2>1
<1>8. /\ DOMAIN chosen = 1..Cardinality(S) /\ chosen \in [1..Cardinality(S) -> S]
  <2> HIDE DEF chosen
  <2> QED BY <1>1, <1>7, ListsAll
<1> HIDE DEF chosen, numbers
<1>9. ASSUME NEW n \in 1..Cardinality(S) PROVE chosen[n] = order[n]
  <2>1. PICK m \in DOMAIN order : order[m] = chosen[n]
    BY <1>4, <1>8
  <2>2. n \in Nat /\ Cardinality({j \in S : numbers[j] < numbers[chosen[n]]}) = n - 1
    <3>1. n \in DOMAIN chosen /\ chosen \in SetToSeqs(S) /\ Rising(numbers, chosen)
      BY <1>7, <1>8
    <3> QED BY <1>1, <1>2, <3>1, CountBelow
  <2>3. m \in Nat /\ Cardinality({j \in S : numbers[j] < numbers[order[m]]}) = m - 1
    BY <1>1, <1>2, <1>3, <1>6, CountBelow
  <2>4. m - 1 = n - 1
    BY <2>1, <2>2, <2>3
  <2> QED BY <2>1, <2>2, <2>3, <2>4
<1>10. chosen = order
  <2>1. chosen = [n \in 1..Cardinality(S) |-> chosen[n]] /\ order = [n \in 1..Cardinality(S) |-> order[n]]
    BY <1>4, <1>8
  <2> QED BY <1>9, <2>1
<1> QED BY <1>10 DEF chosen

LEMMA NumberedThrough ==
  ASSUME NEW items, ItemsStand(items), Numbered(items)
  PROVE  /\ activeItems(items) \in SetToSeqs(activeIds(items)) /\ ToSet(activeItems(items)) = activeIds(items)
         /\ IsFiniteSet(activeIds(items))
         /\ \A n \in DOMAIN activeItems(items) : items[activeItems(items)[n]].order = n - 1
         /\ activeItems(items) \in Seq(ItemIds) \/ ~(DOMAIN items \subseteq ItemIds)
<1>1. PICK order \in SetToSeqs(activeIds(items)) : \A n \in DOMAIN order : items[order[n]].order = n - 1
  BY DEF Numbered
<1>2. activeItems(items) = order
  BY <1>1, NumberedOrder
<1>3. IsFiniteSet(activeIds(items)) /\ activeIds(items) \subseteq DOMAIN items
  BY FS_Subset DEF ItemsStand, activeIds
<1>4. ToSet(order) = activeIds(items) /\ order \in Seq(activeIds(items))
  BY <1>3, ListsAll
<1>5. DOMAIN items \subseteq ItemIds => order \in Seq(ItemIds)
  <2>1. Len(order) \in Nat /\ order \in [1..Len(order) -> activeIds(items)]
    BY <1>4, LenProperties
  <2> QED BY <1>3, <2>1
<1> QED BY <1>1, <1>2, <1>3, <1>4, <1>5

\* Items that are numbered by a list of the active ones.
ItemColumns == {"trim", "transition", "audioPolicy", "reviewState", "lifecycle", "shot", "result", "media"}
SameItems(items, other) == DOMAIN items = DOMAIN other /\ \A i \in DOMAIN items : \A n \in ItemColumns : items[i][n] = other[i][n]
LEMMA RenumberedStands ==
  ASSUME NEW items, ItemsStand(items), NEW order \in SetToSeqs(activeIds(items)),
         NEW new, new = Renumbered(items, order)
  PROVE  /\ ItemsStand(new) /\ SameItems(new, items) /\ activeIds(new) = activeIds(items)
         /\ Numbered(new) /\ activeItems(new) = order
<1> DEFINE S == activeIds(items)
<1>1. /\ S \in SUBSET DOMAIN items /\ IsFiniteSet(S)
  BY FS_Subset DEF ItemsStand, activeIds
<1>2. /\ DOMAIN order = 1..Cardinality(S) /\ ToSet(order) = S /\ Cardinality(S) \in Nat
      /\ \A m, n \in DOMAIN order : order[m] = order[n] => m = n
      /\ \A i \in S : \E n \in DOMAIN order : order[n] = i
      /\ \A n \in DOMAIN order : order[n] \in S
  BY <1>1, ListsAll
<1>3. /\ DOMAIN new = DOMAIN items
      /\ \A i \in S : new[i] = [items[i] EXCEPT !.order = PlaceIn(order, i)]
      /\ \A i \in DOMAIN items \ S : new[i] = items[i]
  BY <1>1, <1>2 DEF Renumbered
<1>4. \A n \in DOMAIN order : PlaceIn(order, order[n]) = n - 1 /\ n - 1 \in Nat
  <2>1. SUFFICES ASSUME NEW n \in DOMAIN order PROVE PlaceIn(order, order[n]) = n - 1 /\ n - 1 \in Nat
    OBVIOUS
  <2>2. (CHOOSE m \in DOMAIN order : order[m] = order[n]) = n
    BY <1>2
  <2> QED BY <1>2, <2>2 DEF PlaceIn
<1>5. \A i \in S : PlaceIn(order, i) \in Nat
  BY <1>2, <1>4
<1>6. ASSUME NEW i \in DOMAIN items
      PROVE  new[i] \in ItemRows /\ (\A n \in ItemColumns : new[i][n] = items[i][n]) /\ (i \in S => new[i].order = PlaceIn(order, i))
  <2>1. items[i] \in ItemRows
    BY DEF ItemsStand
  <2>2. CASE i \in S
    BY <1>3, <1>5, <2>1, <2>2 DEF ItemRows, ItemColumns
  <2>3. CASE i \notin S
    BY <1>3, <2>1, <2>3
  <2> QED BY <2>2, <2>3
<1>7. ItemsStand(new) /\ SameItems(new, items)
  BY <1>3, <1>6 DEF ItemsStand, SameItems
<1>8. activeIds(new) = S
  BY <1>3, <1>6 DEF activeIds, ItemColumns
<1>9. \A n \in DOMAIN order : new[order[n]].order = n - 1
  BY <1>1, <1>2, <1>4, <1>6
<1>10. Numbered(new)
  BY <1>8, <1>9 DEF Numbered
<1>11. activeItems(new) = order
  BY <1>7, <1>8, <1>9, NumberedOrder
<1> QED BY <1>7, <1>8, <1>10, <1>11

\* Numbered again by the order they are in, they stay what they are.
LEMMA RenumberedSame ==
  ASSUME NEW items, ItemsStand(items), DOMAIN items \subseteq ItemIds, Numbered(items),
         items = [i \in DOMAIN items |-> items[i]]
  PROVE  Renumbered(items, activeItems(items)) = items
<1> DEFINE order == activeItems(items)
           new == Renumbered(items, order)
<1>1. /\ order \in SetToSeqs(activeIds(items)) /\ ToSet(order) = activeIds(items) /\ IsFiniteSet(activeIds(items))
      /\ \A n \in DOMAIN order : items[order[n]].order = n - 1
  BY NumberedThrough
<1> HIDE DEF order
<1>2. \A m, n \in DOMAIN order : order[m] = order[n] => m = n
  BY <1>1, ListsAll
<1>3. \A i \in activeIds(items) : \E n \in DOMAIN order : order[n] = i
  BY <1>1, ListsAll
<1>4. ASSUME NEW i \in activeIds(items) PROVE [items[i] EXCEPT !.order = PlaceIn(order, i)] = items[i]
  <2>1. PICK n \in DOMAIN order : order[n] = i
    BY <1>3
  <2>2. (CHOOSE m \in DOMAIN order : order[m] = i) = n
    BY <1>2, <2>1
  <2>3. PlaceIn(order, i) = items[i].order
    BY <1>1, <2>1, <2>2 DEF PlaceIn
  <2>4. items[i] \in ItemRows
    BY DEF activeIds, ItemsStand
  <2> QED BY <2>3, <2>4 DEF ItemRows
<1>5. \A i \in DOMAIN items : new[i] = items[i]
  BY <1>1, <1>4 DEF Renumbered
<1>6. new = [i \in DOMAIN items |-> new[i]]
  BY DEF Renumbered
<1> QED BY <1>5, <1>6 DEF order

\* An element put into a list of others is listed with them.
LEMMA InsertLists ==
  ASSUME NEW S, IsFiniteSet(S), NEW order \in SetToSeqs(S), NEW x, x \notin S, NEW k \in 0..Cardinality(S)
  PROVE  InsertAt(order, k + 1, x) \in SetToSeqs(S \cup {x})
<1> DEFINE N == Cardinality(S)
           T == S \cup {x}
           head == SubSeq(order, 1, k)
           tail == SubSeq(order, k + 1, N)
           placed == InsertAt(order, k + 1, x)
<1>1. /\ N \in Nat /\ order \in [1..N -> S] /\ ToSet(order) = S
      /\ \A m, n \in 1..N : order[m] = order[n] => m = n
  BY ListsAll
<1>2. order \in Seq(T) /\ Len(order) = N /\ k \in Nat /\ k <= N
  BY <1>1
<1>3. /\ head \in Seq(T) /\ Len(head) = k /\ \A i \in 1..k : head[i] = order[i]
  BY <1>1, <1>2
<1>4. /\ tail \in Seq(T) /\ Len(tail) = N - k /\ \A i \in 1..(N - k) : tail[i] = order[k + i]
  BY <1>1, <1>2
<1>5. placed = (head \o <<x>>) \o tail
  <2>1. (k + 1) - 1 = k
    BY <1>2
  <2> QED BY <1>2, <2>1 DEF InsertAt
<1> HIDE DEF head, tail, placed
<1>6. /\ head \o <<x>> \in Seq(T) /\ Len(head \o <<x>>) = k + 1
      /\ \A i \in 1..k : (head \o <<x>>)[i] = order[i]
      /\ (head \o <<x>>)[k + 1] = x
  BY <1>2, <1>3
<1> DEFINE left == head \o <<x>>
<1> HIDE DEF left
<1>7. /\ placed \in Seq(T) /\ Len(placed) = N + 1
      /\ \A i \in 1..(k + 1) : placed[i] = left[i]
      /\ \A i \in (k + 2)..(N + 1) : placed[i] = tail[i - (k + 1)]
  <2>1. left \in Seq(T) /\ Len(left) = k + 1 /\ placed = left \o tail
    BY <1>5, <1>6 DEF left
  <2>2. /\ placed \in Seq(T) /\ Len(placed) = Len(left) + Len(tail)
        /\ \A i \in 1..(Len(left) + Len(tail)) : placed[i] = IF i <= Len(left) THEN left[i] ELSE tail[i - Len(left)]
    BY <1>4, <2>1, ConcatProperties
  <2> QED BY <1>1, <1>2, <1>4, <2>1, <2>2
<1>8. \A i \in 1..(N + 1) :
        placed[i] = IF i <= k THEN order[i] ELSE IF i = k + 1 THEN x ELSE order[i - 1]
  <2>1. SUFFICES ASSUME NEW i \in 1..(N + 1)
                 PROVE  placed[i] = IF i <= k THEN order[i] ELSE IF i = k + 1 THEN x ELSE order[i - 1]
    OBVIOUS
  <2>2. CASE i <= k + 1
    BY <1>1, <1>2, <1>6, <1>7, <2>2 DEF left
  <2>3. CASE i > k + 1
    <3>1. i \in (k + 2)..(N + 1) /\ i - (k + 1) \in 1..(N - k) /\ k + (i - (k + 1)) = i - 1
      BY <1>1, <1>2, <2>3
    <3> QED BY <1>2, <1>4, <1>7, <2>3, <3>1
  <2> QED BY <1>1, <1>2, <2>2, <2>3
<1>9. IsFiniteSet(T) /\ Cardinality(T) = N + 1
  BY FS_AddElement
<1>10. placed \in [1..(N + 1) -> T]
  BY <1>1, <1>7
<1>11. \A i, j \in 1..(N + 1) : placed[i] = placed[j] => i = j
  <2>1. SUFFICES ASSUME NEW i \in 1..(N + 1), NEW j \in 1..(N + 1), placed[i] = placed[j] PROVE i = j
    OBVIOUS
  <2> DEFINE was(a) == IF a <= k THEN a ELSE a - 1
  <2>2. \A a \in 1..(N + 1) : a # k + 1 => was(a) \in 1..N /\ placed[a] = order[was(a)] /\ order[was(a)] \in S
    BY <1>1, <1>2, <1>8
  <2>3. placed[k + 1] = x
    BY <1>1, <1>2, <1>8
  <2>4. CASE i = k + 1 \/ j = k + 1
    BY <2>1, <2>2, <2>3, <2>4
  <2>5. CASE i # k + 1 /\ j # k + 1
    <3>1. was(i) = was(j)
      BY <1>1, <2>1, <2>2, <2>5
    <3> QED BY <1>1, <1>2, <2>5, <3>1
  <2> QED BY <2>4, <2>5
<1>12. \A i, j \in 1..(N + 1) : i # j => placed[i] # placed[j]
  BY <1>11
<1> QED BY <1>9, <1>10, <1>12 DEF SetToSeqs, placed

\* What is left of a list when an element is taken out lists the others.
LEMMA RemoveLists ==
  ASSUME NEW S, IsFiniteSet(S), NEW order \in SetToSeqs(S), NEW k \in DOMAIN order
  PROVE  RemoveAt(order, k) \in SetToSeqs(S \ {order[k]})
<1> DEFINE N == Cardinality(S)
           T == S \ {order[k]}
           head == SubSeq(order, 1, k - 1)
           tail == SubSeq(order, k + 1, N)
           left == RemoveAt(order, k)
<1>1. /\ N \in Nat /\ order \in [1..N -> S] /\ DOMAIN order = 1..N /\ order \in Seq(S) /\ Len(order) = N
      /\ \A m, n \in 1..N : order[m] = order[n] => m = n
  BY ListsAll
<1>2. k \in 1..N /\ k \in Nat /\ k - 1 \in Nat /\ k - 1 <= N /\ N - k \in Nat
  BY <1>1
<1>3. /\ head \in Seq(S) /\ Len(head) = k - 1 /\ \A i \in 1..(k - 1) : head[i] = order[i]
  BY <1>1, <1>2
<1>4. /\ tail \in Seq(S) /\ Len(tail) = N - k /\ \A i \in 1..(N - k) : tail[i] = order[k + i]
  BY <1>1, <1>2
<1>5. left = head \o tail
  BY <1>1 DEF RemoveAt
<1> HIDE DEF head, tail, left
<1>6. /\ left \in Seq(S) /\ Len(left) = N - 1
      /\ \A i \in 1..(N - 1) : left[i] = IF i <= k - 1 THEN head[i] ELSE tail[i - (k - 1)]
  <2>1. /\ left \in Seq(S) /\ Len(left) = Len(head) + Len(tail)
        /\ \A i \in 1..(Len(head) + Len(tail)) : left[i] = IF i <= Len(head) THEN head[i] ELSE tail[i - Len(head)]
    BY <1>3, <1>4, <1>5, ConcatProperties
  <2>2. Len(head) + Len(tail) = N - 1
    BY <1>1, <1>2, <1>3, <1>4
  <2> QED BY <1>3, <2>1, <2>2
<1> DEFINE was(i) == IF i <= k - 1 THEN i ELSE i + 1
<1>7. \A i \in 1..(N - 1) : was(i) \in 1..N /\ was(i) # k /\ left[i] = order[was(i)]
  <2>1. SUFFICES ASSUME NEW i \in 1..(N - 1) PROVE was(i) \in 1..N /\ was(i) # k /\ left[i] = order[was(i)]
    OBVIOUS
  <2>2. CASE i <= k - 1
    BY <1>1, <1>2, <1>3, <1>6, <2>2
  <2>3. CASE ~(i <= k - 1)
    <3>1. i - (k - 1) \in 1..(N - k) /\ k + (i - (k - 1)) = i + 1
      BY <1>1, <1>2, <2>3
    <3>2. left[i] = tail[i - (k - 1)]
      BY <1>6, <2>3
    <3>3. tail[i - (k - 1)] = order[i + 1]
      BY <1>4, <3>1
    <3>4. was(i) = i + 1 /\ i + 1 \in 1..N /\ i + 1 # k
      BY <1>1, <1>2, <2>3
    <3> QED BY <3>2, <3>3, <3>4
  <2> QED BY <2>2, <2>3
<1>8. \A i, j \in 1..(N - 1) : i # j => left[i] # left[j]
  <2>1. SUFFICES ASSUME NEW i \in 1..(N - 1), NEW j \in 1..(N - 1), i # j PROVE left[i] # left[j]
    OBVIOUS
  <2>2. was(i) # was(j)
    BY <1>1, <1>2, <2>1
  <2> QED BY <1>1, <1>7, <2>2
<1>9. \A i \in 1..(N - 1) : left[i] \in T
  BY <1>1, <1>2, <1>7
<1>10. left \in [1..(N - 1) -> T]
  <2>1. DOMAIN left = 1..(N - 1) /\ left = [i \in DOMAIN left |-> left[i]]
    BY <1>6, LenProperties
  <2> QED BY <1>9, <2>1
<1>11. order[k] \in S /\ Cardinality(T) = N - 1
  <2>1. order[k] \in S
    BY <1>1, <1>2
  <2> QED BY <2>1, FS_RemoveElement
<1> QED BY <1>8, <1>10, <1>11 DEF SetToSeqs, left

-----------------------------------------------------------------------------
\* The content of a Delivery, and what its fields say of it.
LEMMA ContentIs ==
  ASSUME NEW plan, ContentStands(plan)
  PROVE  /\ ItemsStand(plan.items) /\ DOMAIN plan.items \subseteq ItemIds /\ Numbered(plan.items)
         /\ plan.items = [i \in DOMAIN plan.items |-> plan.items[i]]
         /\ \A i \in DOMAIN plan.items : plan.items[i] \in ItemRows /\ plan.items[i] # Absent /\ i # Absent
         /\ settingsSnapshot(plan) # Absent /\ activeItems(plan.items) # Absent
         /\ settingsSnapshot(plan)[1] = plan.settings /\ settingsSnapshot(plan)[2] = plan.lifecycle
<1>1. /\ ItemsStand(plan.items) /\ DOMAIN plan.items \subseteq ItemIds /\ Numbered(plan.items)
      /\ plan.items = [i \in DOMAIN plan.items |-> plan.items[i]] /\ \A i \in DOMAIN plan.items : plan.items[i] \in ItemRows
  BY DEF ContentStands, ItemsStand
<1>2. \A i \in DOMAIN plan.items : plan.items[i] # Absent /\ i # Absent
  BY <1>1, DeliveryAssumption
<1>3. settingsSnapshot(plan) # Absent /\ settingsSnapshot(plan)[1] = plan.settings /\ settingsSnapshot(plan)[2] = plan.lifecycle
  BY DeliveryAssumption DEF ContentStands, settingsSnapshot
<1>4. activeItems(plan.items) \in Seq(ItemIds)
  BY <1>1, NumberedThrough
<1>5. activeItems(plan.items) # Absent
  BY <1>4, DeliveryAssumption
<1> QED BY <1>1, <1>2, <1>3, <1>5

PlanNames == {"name", "lifecycle", "formatIntent", "order"}
ItemNames == {"clip", "itemLifecycle", "trim", "transition", "audioPolicy", "reviewState"}
LEMMA FieldIs ==
  ASSUME NEW d, NEW items, DOMAIN items \subseteq ItemIds, NEW f \in deliveryFields(d, items)
  PROVE  /\ f[1] = d /\ f = Field(d, f[2], f[3])
         /\ \/ f[3] = Absent /\ f[2] \in PlanNames
            \/ f[3] # Absent /\ f[3] \in DOMAIN items /\ f[2] \in ItemNames
<1>1. CASE f \in planFields(d)
  BY <1>1 DEF planFields, planField, Field, PlanNames
<1>2. CASE f \notin planFields(d)
  <2>1. PICK i \in DOMAIN items : f \in itemFields(d, i)
    BY <1>2 DEF deliveryFields
  <2>2. f[1] = d /\ f[3] = i /\ f[2] \in ItemNames /\ f = Field(d, f[2], f[3])
    BY <2>1 DEF itemFields, itemField, Field, ItemNames, ItemFields
  <2>3. i # Absent
    BY <2>1, DeliveryAssumption
  <2> QED BY <2>2, <2>3
<1> QED BY <1>1, <1>2

\* An effect says of an item's field what is true where it holds the item as it is, or where it holds none and
\* the item is removed.
LEMMA ItemFieldSays ==
  ASSUME NEW plan, NEW effect, NEW f, f[3] # Absent, f[2] \in ItemNames, f[3] \in DOMAIN effect.items,
         \/ effect.items[f[3]] = plan.items[f[3]] /\ plan.items[f[3]] # Absent
         \/ effect.items[f[3]] = Absent /\ plan.items[f[3]].lifecycle = "removed"
  PROVE  FieldSays(plan, effect, f)
<1>1. CASE f[2] = "clip"
  BY <1>1 DEF FieldSays
<1>2. CASE f[2] = "itemLifecycle"
  BY <1>2 DEF FieldSays
<1>3. CASE f[2] \notin {"clip", "itemLifecycle"}
  BY <1>3 DEF FieldSays
<1> QED BY <1>1, <1>2, <1>3

LEMMA PlanFieldSays ==
  ASSUME NEW plan, NEW effect, NEW f, f[3] = Absent, f[2] \in PlanNames,
         f[2] = "order" => effect.order = activeItems(plan.items),
         f[2] # "order" => effect.settings = settingsSnapshot(plan)
  PROVE  FieldSays(plan, effect, f)
<1>1. settingsSnapshot(plan)[1] = plan.settings /\ settingsSnapshot(plan)[2] = plan.lifecycle
  BY DEF settingsSnapshot
<1> QED BY <1>1 DEF FieldSays, PlanNames

\* What is said of a field holds of every plan in which the field has the same value.
LEMMA SameValueSays ==
  ASSUME NEW plan, NEW other, NEW effect, NEW f, (f[3] # Absent /\ f[2] \in ItemNames) \/ (f[3] = Absent /\ f[2] \in PlanNames),
         FieldSays(plan, effect, f), DeliveryValue(other, f) = DeliveryValue(plan, f)
  PROVE  FieldSays(other, effect, f)
<1>1. CASE f[3] # Absent /\ f[2] = "clip"
  <2>1. other.items[f[3]].result = plan.items[f[3]].result
    BY <1>1 DEF DeliveryValue
  <2> QED BY <1>1, <2>1 DEF FieldSays
<1>2. CASE f[3] # Absent /\ f[2] = "itemLifecycle"
  <2>1. other.items[f[3]].lifecycle = plan.items[f[3]].lifecycle
    BY <1>2 DEF DeliveryValue
  <2> QED BY <1>2, <2>1 DEF FieldSays
<1>3. CASE f[3] # Absent /\ f[2] \in ItemFields
  <2>1. other.items[f[3]][f[2]] = plan.items[f[3]][f[2]]
    BY <1>3 DEF DeliveryValue, ItemFields
  <2> QED BY <1>3, <2>1 DEF FieldSays, ItemFields
<1>4. CASE f[3] = Absent /\ f[2] \in PlanNames
  BY <1>4 DEF DeliveryValue, FieldSays, PlanNames
<1> QED BY <1>1, <1>2, <1>3, <1>4 DEF ItemNames, ItemFields

\* The value of a field is in the content of a plan.
LEMMA ValueOfContent ==
  ASSUME NEW plan, NEW other, SameContent(plan, other), NEW f
  PROVE  DeliveryValue(plan, f) = DeliveryValue(other, f)
BY DEF SameContent, DeliveryValue

LEMMA ItemValueIs ==
  ASSUME NEW plan, NEW other, NEW f, f[2] \in ItemNames, \A n \in ItemColumns : plan.items[f[3]][n] = other.items[f[3]][n]
  PROVE  DeliveryValue(plan, f) = DeliveryValue(other, f)
<1>1. /\ plan.items[f[3]].shot = other.items[f[3]].shot /\ plan.items[f[3]].result = other.items[f[3]].result
      /\ plan.items[f[3]].media = other.items[f[3]].media /\ plan.items[f[3]].lifecycle = other.items[f[3]].lifecycle
      /\ f[2] \in {"trim", "transition", "audioPolicy", "reviewState"} => plan.items[f[3]][f[2]] = other.items[f[3]][f[2]]
  BY DEF ItemColumns
<1>2. CASE f[2] = "clip"
  BY <1>1, <1>2 DEF DeliveryValue
<1>3. CASE f[2] = "itemLifecycle"
  BY <1>1, <1>3 DEF DeliveryValue
<1>4. CASE f[2] \in {"trim", "transition", "audioPolicy", "reviewState"}
  BY <1>1, <1>4 DEF DeliveryValue
<1> QED BY <1>2, <1>3, <1>4 DEF ItemNames

\* What restoring an effect gives.
LEMMA RestoreIs ==
  ASSUME NEW plan, DOMAIN plan = PlanColumns, NEW effect, NEW was \in restoreDeliveryEffect(plan, effect)
  PROVE  /\ DOMAIN was = PlanColumns /\ was.revision = plan.revision /\ was.heads = plan.heads
         /\ was.protections = plan.protections
         /\ was.settings = (IF effect.settings = Absent THEN plan.settings ELSE effect.settings[1])
         /\ was.lifecycle = (IF effect.settings = Absent THEN plan.lifecycle ELSE effect.settings[2])
         /\ was.items = (IF effect.order = Absent THEN restoredItems(plan, effect)
                         ELSE Renumbered(restoredItems(plan, effect), effect.order))
         /\ effect.order # Absent => ToSet(effect.order) = activeIds(restoredItems(plan, effect))
<1> DEFINE items == restoredItems(plan, effect)
           settings == IF effect.settings = Absent THEN plan.settings ELSE effect.settings[1]
           lifecycle == IF effect.settings = Absent THEN plan.lifecycle ELSE effect.settings[2]
           placed == IF effect.order = Absent THEN items ELSE Renumbered(items, effect.order)
<1>1. effect.order # Absent => ToSet(effect.order) = activeIds(items)
  BY DEF restoreDeliveryEffect
<1>2. was = [plan EXCEPT !.settings = settings, !.lifecycle = lifecycle, !.items = placed]
  BY DEF restoreDeliveryEffect, PlanColumns
<1> HIDE DEF settings, lifecycle, placed, items
<1>3. /\ DOMAIN was = PlanColumns /\ was.revision = plan.revision /\ was.heads = plan.heads
      /\ was.protections = plan.protections /\ was.settings = settings /\ was.lifecycle = lifecycle /\ was.items = placed
  BY <1>2 DEF PlanColumns
<1> QED BY <1>1, <1>3 DEF settings, lifecycle, placed, items

LEMMA RestoreCan ==
  ASSUME NEW plan, NEW effect, effect.order # Absent => ToSet(effect.order) = activeIds(restoredItems(plan, effect))
  PROVE  \E was \in restoreDeliveryEffect(plan, effect) : TRUE
BY DEF restoreDeliveryEffect

\* Restoring an effect in a plan of the same content gives the same content.
LEMMA RestoreSame ==
  ASSUME NEW plan, DOMAIN plan = PlanColumns, NEW other, DOMAIN other = PlanColumns, SameContent(plan, other),
         NEW effect, NEW was \in restoreDeliveryEffect(plan, effect)
  PROVE  \E again \in restoreDeliveryEffect(other, effect) :
           SameContent(again, was) /\ again.heads = other.heads /\ again.protections = other.protections
<1>1. restoredItems(plan, effect) = restoredItems(other, effect)
  BY DEF SameContent, restoredItems
<1>2. effect.order # Absent => ToSet(effect.order) = activeIds(restoredItems(other, effect))
  BY <1>1, RestoreIs
<1>3. PICK again \in restoreDeliveryEffect(other, effect) : TRUE
  BY <1>2, RestoreCan
<1>4. /\ again.heads = other.heads /\ again.protections = other.protections
      /\ again.settings = (IF effect.settings = Absent THEN other.settings ELSE effect.settings[1])
      /\ again.lifecycle = (IF effect.settings = Absent THEN other.lifecycle ELSE effect.settings[2])
      /\ again.items = (IF effect.order = Absent THEN restoredItems(other, effect)
                        ELSE Renumbered(restoredItems(other, effect), effect.order))
  BY <1>3, RestoreIs
<1>5. /\ was.settings = (IF effect.settings = Absent THEN plan.settings ELSE effect.settings[1])
      /\ was.lifecycle = (IF effect.settings = Absent THEN plan.lifecycle ELSE effect.settings[2])
      /\ was.items = (IF effect.order = Absent THEN restoredItems(plan, effect)
                      ELSE Renumbered(restoredItems(plan, effect), effect.order))
  BY RestoreIs
<1> QED BY <1>1, <1>3, <1>4, <1>5 DEF SameContent

-----------------------------------------------------------------------------
\* A change of the content of a Delivery: the effects hold what it was and what it becomes, and the fields that
\* are named are those that the effects are about.
Change(d, before, after, names, affected, was, becomes) ==
  /\ DOMAIN after = PlanColumns /\ after.revision = before.revision
  /\ after.heads = before.heads /\ after.protections = before.protections
  /\ ContentStands(after) /\ DOMAIN before.items \subseteq DOMAIN after.items
  /\ deliveryFields(d, after.items) = names \cup deliveryFields(d, before.items)
  /\ was.kind = "delivery" /\ becomes.kind = "delivery"
  /\ affected \subseteq DOMAIN after.items /\ DOMAIN was.items = affected /\ DOMAIN becomes.items = affected
  /\ \A i \in affected : was.items[i] = ItemEffect(before.items, i) /\ becomes.items[i] = after.items[i]
  /\ \A i \in DOMAIN after.items \ affected : i \in DOMAIN before.items /\ after.items[i] = before.items[i]
  /\ \/ was.settings = settingsSnapshot(before) /\ becomes.settings = settingsSnapshot(after)
     \/ /\ was.settings = Absent /\ becomes.settings = Absent
        /\ after.settings = before.settings /\ after.lifecycle = before.lifecycle
  /\ \/ was.order = activeItems(before.items) /\ becomes.order = activeItems(after.items)
     \/ was.order = Absent /\ becomes.order = Absent
  /\ \A f \in names : /\ f[3] # Absent => f[3] \in affected
                      /\ f[3] = Absent /\ f[2] = "order" => becomes.order # Absent
                      /\ f[3] = Absent /\ f[2] # "order" => becomes.settings # Absent
  /\ \A f \in deliveryFields(d, before.items) \ names : DeliveryValue(after, f) = DeliveryValue(before, f)

\* What a change leaves can be restored to what it was, item by item: an item that is new is then removed.
LEMMA ChangeRestores ==
  ASSUME NEW d, NEW before, NEW after, NEW names, NEW affected, NEW was, NEW becomes,
         Change(d, before, after, names, affected, was, becomes), ContentStands(before),
         NEW plan, DOMAIN plan = PlanColumns, SameContent(plan, after)
  PROVE  \E back \in restoreDeliveryEffect(plan, was) :
           /\ ContentStands(back) /\ back.settings = before.settings /\ back.lifecycle = before.lifecycle
           /\ DOMAIN back.items = DOMAIN after.items /\ activeItems(back.items) = activeItems(before.items)
           /\ activeIds(back.items) = activeIds(before.items)
           /\ \A i \in DOMAIN before.items : back.items[i] = before.items[i]
           /\ \A i \in DOMAIN after.items \ DOMAIN before.items : back.items[i].lifecycle = "removed"
<1> DEFINE W == restoredItems(plan, was)
<1>1. /\ ItemsStand(before.items) /\ DOMAIN before.items \subseteq ItemIds /\ Numbered(before.items)
      /\ \A i \in DOMAIN before.items : before.items[i] \in ItemRows /\ before.items[i] # Absent
      /\ settingsSnapshot(before) # Absent /\ activeItems(before.items) # Absent
      /\ settingsSnapshot(before)[1] = before.settings /\ settingsSnapshot(before)[2] = before.lifecycle
  BY ContentIs
<1>2. /\ ItemsStand(after.items) /\ DOMAIN after.items \subseteq ItemIds
      /\ \A i \in DOMAIN after.items : after.items[i] \in ItemRows
  BY ContentIs DEF Change
<1>3. plan.items = after.items /\ plan.settings = after.settings /\ plan.lifecycle = after.lifecycle
  BY DEF SameContent
<1>4. /\ DOMAIN before.items \subseteq DOMAIN after.items /\ affected \subseteq DOMAIN after.items /\ DOMAIN was.items = affected
      /\ \A i \in affected : was.items[i] = IF i \in DOMAIN before.items THEN before.items[i] ELSE Absent
      /\ \A i \in DOMAIN after.items \ affected : i \in DOMAIN before.items /\ after.items[i] = before.items[i]
  BY DEF Change, ItemEffect
<1>5. /\ DOMAIN W = DOMAIN after.items /\ W = [i \in DOMAIN W |-> W[i]]
      /\ \A i \in DOMAIN before.items : W[i] = before.items[i]
      /\ \A i \in DOMAIN after.items \ DOMAIN before.items : W[i] = [after.items[i] EXCEPT !.lifecycle = "removed"]
  <2>1. W = [i \in DOMAIN after.items |->
               IF i \notin affected THEN after.items[i]
               ELSE IF was.items[i] = Absent THEN [after.items[i] EXCEPT !.lifecycle = "removed"] ELSE was.items[i]]
    BY <1>3, <1>4 DEF restoredItems
  <2> HIDE DEF W
  <2> QED BY <1>1, <1>4, <2>1
<1> HIDE DEF W
<1>6. \A i \in DOMAIN W : W[i] \in ItemRows /\ (i \notin DOMAIN before.items => W[i].lifecycle = "removed")
  <2>1. ASSUME NEW i \in DOMAIN after.items \ DOMAIN before.items PROVE W[i] \in ItemRows /\ W[i].lifecycle = "removed"
    <3>1. after.items[i] \in ItemRows /\ W[i] = [after.items[i] EXCEPT !.lifecycle = "removed"]
      BY <1>2, <1>5
    <3> QED BY <3>1 DEF ItemRows
  <2> QED BY <1>1, <1>5, <2>1
<1>7. ItemsStand(W)
  BY <1>2, <1>5, <1>6 DEF ItemsStand
<1>8. activeIds(W) = activeIds(before.items)
  BY <1>4, <1>5, <1>6 DEF activeIds
<1>9. activeItems(W) = activeItems(before.items)
  <2>1. \A i \in activeIds(W) : W[i].order = before.items[i].order
    BY <1>5, <1>8 DEF activeIds
  <2>2. [i \in activeIds(W) |-> W[i].order] = [i \in activeIds(before.items) |-> before.items[i].order]
    BY <1>8, <2>1
  <2> QED BY <2>2 DEF activeItems
<1>10. Numbered(W)
  <2>1. PICK order \in SetToSeqs(activeIds(before.items)) : \A n \in DOMAIN order : before.items[order[n]].order = n - 1
    BY <1>1 DEF Numbered
  <2>2. IsFiniteSet(activeIds(before.items)) /\ activeIds(before.items) \subseteq DOMAIN before.items
    BY <1>1, FS_Subset DEF ItemsStand, activeIds
  <2>3. \A n \in DOMAIN order : order[n] \in DOMAIN before.items
    BY <2>2, ListsAll
  <2>4. \A n \in DOMAIN order : W[order[n]].order = n - 1
    BY <1>5, <2>1, <2>3
  <2> QED BY <1>8, <2>4 DEF Numbered
<1>11. was.order = activeItems(before.items) \/ was.order = Absent
  BY DEF Change
<1>12. was.order # Absent => ToSet(was.order) = activeIds(restoredItems(plan, was))
  <2>1. ToSet(activeItems(before.items)) = activeIds(before.items)
    BY <1>1, NumberedThrough
  <2> QED BY <1>8, <1>11, <2>1 DEF W
<1>13. PICK back \in restoreDeliveryEffect(plan, was) : TRUE
  BY <1>12, RestoreCan
<1>14. /\ back.settings = (IF was.settings = Absent THEN plan.settings ELSE was.settings[1])
       /\ back.lifecycle = (IF was.settings = Absent THEN plan.lifecycle ELSE was.settings[2])
       /\ back.items = (IF was.order = Absent THEN W ELSE Renumbered(W, was.order))
  BY <1>13, RestoreIs DEF W
<1>15. back.items = W
  <2>1. Renumbered(W, activeItems(W)) = W
    BY <1>2, <1>5, <1>7, <1>10, RenumberedSame
  <2> QED BY <1>9, <1>11, <1>14, <2>1
<1>16. back.settings = before.settings /\ back.lifecycle = before.lifecycle
  <2>1. \/ was.settings = settingsSnapshot(before)
        \/ was.settings = Absent /\ after.settings = before.settings /\ after.lifecycle = before.lifecycle
    BY DEF Change
  <2> QED BY <1>1, <1>3, <1>14, <2>1
<1>17. ContentStands(back)
  <2>1. before.settings \in Settings /\ before.lifecycle \in Lifecycles
    BY DEF ContentStands
  <2>2. W \in [DOMAIN W -> ItemRows] /\ DOMAIN W \subseteq ItemIds /\ IsFiniteSet(DOMAIN W)
    BY <1>2, <1>5, <1>6, <1>7 DEF ItemsStand
  <2> QED BY <1>10, <1>15, <1>16, <2>1, <2>2 DEF ContentStands
<1>18. \A i \in DOMAIN after.items \ DOMAIN before.items : back.items[i].lifecycle = "removed"
  BY <1>5, <1>6, <1>15
<1> QED BY <1>5, <1>8, <1>9, <1>13, <1>15, <1>16, <1>17, <1>18

\* And from that, to what it became.
LEMMA ChangeComesBack ==
  ASSUME NEW d, NEW before, NEW after, NEW names, NEW affected, NEW was, NEW becomes,
         Change(d, before, after, names, affected, was, becomes), ContentStands(before),
         NEW back, DOMAIN back = PlanColumns, back.settings = before.settings, back.lifecycle = before.lifecycle,
         DOMAIN back.items = DOMAIN after.items, \A i \in DOMAIN before.items : back.items[i] = before.items[i]
  PROVE  \E again \in restoreDeliveryEffect(back, becomes) : SameContent(again, after)
<1> DEFINE W == restoredItems(back, becomes)
<1>1. /\ ItemsStand(after.items) /\ DOMAIN after.items \subseteq ItemIds /\ Numbered(after.items)
      /\ after.items = [i \in DOMAIN after.items |-> after.items[i]]
      /\ \A i \in DOMAIN after.items : after.items[i] # Absent
      /\ settingsSnapshot(after) # Absent /\ activeItems(after.items) # Absent
      /\ settingsSnapshot(after)[1] = after.settings /\ settingsSnapshot(after)[2] = after.lifecycle
  BY ContentIs DEF Change
<1>2. /\ affected \subseteq DOMAIN after.items /\ DOMAIN becomes.items = affected
      /\ \A i \in affected : becomes.items[i] = after.items[i]
      /\ \A i \in DOMAIN after.items \ affected : i \in DOMAIN before.items /\ after.items[i] = before.items[i]
  BY DEF Change
<1>3. W = after.items
  <2>1. W = [i \in DOMAIN after.items |->
               IF i \notin affected THEN back.items[i]
               ELSE IF becomes.items[i] = Absent THEN [back.items[i] EXCEPT !.lifecycle = "removed"] ELSE becomes.items[i]]
    BY <1>2 DEF restoredItems
  <2> HIDE DEF W
  <2>2. DOMAIN W = DOMAIN after.items /\ W = [i \in DOMAIN W |-> W[i]]
    BY <2>1
  <2>3. \A i \in DOMAIN after.items : W[i] = after.items[i]
    BY <1>1, <1>2, <2>1
  <2> QED BY <1>1, <2>2, <2>3
<1>4. becomes.order = activeItems(after.items) \/ becomes.order = Absent
  BY DEF Change
<1>5. becomes.order # Absent => ToSet(becomes.order) = activeIds(restoredItems(back, becomes))
  <2>1. ToSet(activeItems(after.items)) = activeIds(after.items)
    BY <1>1, NumberedThrough
  <2> QED BY <1>3, <1>4, <2>1
<1> HIDE DEF W
<1>6. PICK again \in restoreDeliveryEffect(back, becomes) : TRUE
  BY <1>5, RestoreCan
<1>7. /\ again.settings = (IF becomes.settings = Absent THEN back.settings ELSE becomes.settings[1])
      /\ again.lifecycle = (IF becomes.settings = Absent THEN back.lifecycle ELSE becomes.settings[2])
      /\ again.items = (IF becomes.order = Absent THEN W ELSE Renumbered(W, becomes.order))
  BY <1>6, RestoreIs DEF W
<1>8. again.items = after.items
  <2>1. Renumbered(after.items, activeItems(after.items)) = after.items
    BY <1>1, RenumberedSame
  <2> QED BY <1>3, <1>4, <1>7, <2>1
<1>9. again.settings = after.settings /\ again.lifecycle = after.lifecycle
  <2>1. \/ becomes.settings = settingsSnapshot(after)
        \/ becomes.settings = Absent /\ after.settings = before.settings /\ after.lifecycle = before.lifecycle
    BY DEF Change
  <2> QED BY <1>1, <1>7, <2>1
<1> QED BY <1>6, <1>8, <1>9 DEF SameContent

\* The effects of a change say of each field that is named what it becomes, and what it was.
LEMMA ChangeSays ==
  ASSUME NEW d, NEW before, NEW after, NEW names, NEW affected, NEW was, NEW becomes,
         Change(d, before, after, names, affected, was, becomes), NEW f \in names
  PROVE  FieldSays(after, becomes, f)
<1>1. /\ DOMAIN after.items \subseteq ItemIds /\ \A i \in DOMAIN after.items : after.items[i] # Absent
  BY ContentIs DEF Change
<1>2. f \in deliveryFields(d, after.items)
  BY DEF Change
<1>3. \/ f[3] = Absent /\ f[2] \in PlanNames
      \/ f[3] # Absent /\ f[3] \in DOMAIN after.items /\ f[2] \in ItemNames
  BY <1>1, <1>2, FieldIs
<1>4. /\ f[3] # Absent => f[3] \in DOMAIN becomes.items /\ becomes.items[f[3]] = after.items[f[3]]
      /\ f[3] = Absent /\ f[2] = "order" => becomes.order = activeItems(after.items)
      /\ f[3] = Absent /\ f[2] # "order" => becomes.settings = settingsSnapshot(after)
  BY DEF Change
<1>5. CASE f[3] = Absent
  BY <1>3, <1>4, <1>5, PlanFieldSays
<1>6. CASE f[3] # Absent
  BY <1>1, <1>3, <1>4, <1>6, ItemFieldSays
<1> QED BY <1>5, <1>6

LEMMA ChangeSaid ==
  ASSUME NEW d, NEW before, NEW after, NEW names, NEW affected, NEW was, NEW becomes,
         Change(d, before, after, names, affected, was, becomes), ContentStands(before), NEW f \in names,
         NEW back, back.settings = before.settings, back.lifecycle = before.lifecycle,
         activeItems(back.items) = activeItems(before.items),
         \A i \in DOMAIN before.items : back.items[i] = before.items[i],
         \A i \in DOMAIN after.items \ DOMAIN before.items : back.items[i].lifecycle = "removed"
  PROVE  FieldSays(back, was, f)
<1>1. /\ DOMAIN after.items \subseteq ItemIds
  BY ContentIs DEF Change
<1>2. f \in deliveryFields(d, after.items)
  BY DEF Change
<1>3. \/ f[3] = Absent /\ f[2] \in PlanNames
      \/ f[3] # Absent /\ f[3] \in DOMAIN after.items /\ f[2] \in ItemNames
  BY <1>1, <1>2, FieldIs
<1>4. \A i \in DOMAIN before.items : before.items[i] # Absent
  BY ContentIs
<1>5. settingsSnapshot(back) = settingsSnapshot(before)
  BY DEF settingsSnapshot
<1>6. /\ f[3] # Absent => f[3] \in DOMAIN was.items /\ was.items[f[3]] = ItemEffect(before.items, f[3])
      /\ f[3] = Absent /\ f[2] = "order" => was.order = activeItems(before.items)
      /\ f[3] = Absent /\ f[2] # "order" => was.settings = settingsSnapshot(before)
  BY DEF Change
<1>7. CASE f[3] = Absent
  BY <1>3, <1>5, <1>6, <1>7, PlanFieldSays
<1>8. CASE f[3] # Absent /\ f[3] \in DOMAIN before.items
  <2>1. was.items[f[3]] = back.items[f[3]] /\ back.items[f[3]] # Absent
    BY <1>4, <1>6, <1>8 DEF ItemEffect
  <2> QED BY <1>3, <1>6, <1>8, <2>1, ItemFieldSays
<1>9. CASE f[3] # Absent /\ f[3] \notin DOMAIN before.items
  <2>1. was.items[f[3]] = Absent /\ back.items[f[3]].lifecycle = "removed"
    BY <1>3, <1>6, <1>9 DEF ItemEffect
  <2> QED BY <1>3, <1>6, <1>9, <2>1, ItemFieldSays
<1> QED BY <1>7, <1>8, <1>9

\* What a command plans for a Delivery.
GoesBack(c, choice, d, plan) ==
  \/ /\ Toggles(choice.before, choice.effect, deliveryFields(d, plan.items))
     /\ choice.seen = ShownDelivery([plan EXCEPT !.protections =
                                       WithProtection(@, choice.before.field, choice.before.active, Absent)])
  \/ choice.before.kind = "delivery" /\ choice.effect.kind = "delivery" /\ Returns(c, choice, plan)
DeliveryRevised(a, plan, d) ==
  LET row == plan.plans[d] IN
  /\ plan.rows = <<>> /\ DOMAIN plan.plans = {d} /\ d \in OpenDeliveries /\ plan.owner = deliveryRef(d)
  /\ plan.tool # "production.mutate" /\ row.revision = deliveries[d].revision + 1
  /\ plan.active = Choosers(deliveries[d].protections, plan.fields)
  /\ \A f \in deliveryFields(d, deliveries[d].items) :
       DeliveryValue(row, f) # DeliveryValue(deliveries[d], f) => f \in plan.fields
  /\ \A f \in DOMAIN deliveries[d].protections \ DOMAIN row.protections : f \in plan.fields
  /\ \A table : Extends(table) /\ a \in DOMAIN table /\ table[a].effect = plan.effect => PlanStands(table, d, row)
  /\ \A choice : choice.before = plan.before /\ choice.effect = plan.effect /\ choice.seen = ShownDelivery(deliveries[d]) =>
       GoesBack(a, choice, d, row)
  /\ plan.undoes # Absent => plan.undoes \in DOMAIN choices /\ ShownDelivery(row) = choices[plan.undoes].seen
DeliveryCreated(a, plan, d) ==
  /\ plan.rows = <<>> /\ DOMAIN plan.plans = {d} /\ d \notin OpenDeliveries /\ d \in DeliveryIds /\ plan.owner = Absent
  /\ plan.tool # "production.mutate" /\ plan.undoes = Absent /\ plan.plans[d].revision = 0
  /\ \A table : Extends(table) /\ a \in DOMAIN table /\ table[a].effect = plan.effect => PlanStands(table, d, plan.plans[d])
DeliveryPlanned(a, plan) == \E d : DeliveryRevised(a, plan, d) \/ DeliveryCreated(a, plan, d)
PlansStand == \A d \in DOMAIN deliveries : d \in DeliveryIds /\ PlanStands(choices, d, deliveries[d])

LEMMA ShownSame ==
  ASSUME NEW plan, NEW other, plan.settings = other.settings, plan.lifecycle = other.lifecycle,
         activeIds(plan.items) = activeIds(other.items), \A i \in activeIds(plan.items) : plan.items[i] = other.items[i],
         DOMAIN plan.protections = DOMAIN other.protections
  PROVE  ShownDelivery(plan) = ShownDelivery(other)
<1>1. [i \in activeIds(plan.items) |-> plan.items[i]] = [i \in activeIds(other.items) |-> other.items[i]]
  OBVIOUS
<1>2. settingsSnapshot(plan) = settingsSnapshot(other)
  BY DEF settingsSnapshot
<1> QED BY <1>1, <1>2 DEF ShownDelivery

\* The record of a change leads back.
LEMMA ChangeReturns ==
  ASSUME NEW d, NEW before, NEW after, NEW names, NEW affected, NEW was, NEW becomes,
         Change(d, before, after, names, affected, was, becomes), PlanStands(choices, d, before),
         NEW plan, DOMAIN plan = PlanColumns, SameContent(plan, after), plan.protections = before.protections,
         NEW a, a \notin DOMAIN choices, DOMAIN plan.heads = deliveryFields(d, after.items),
         \A f \in DOMAIN plan.heads : plan.heads[f] = IF f \in names THEN a ELSE before.heads[f],
         NEW choice, choice.before = was, choice.effect = becomes, choice.seen = ShownDelivery(before)
  PROVE  Returns(a, choice, plan)
<1>1. ContentStands(before) /\ DOMAIN before.heads = deliveryFields(d, before.items)
  BY DEF PlanStands
<1>2. PICK back \in restoreDeliveryEffect(plan, was) :
        /\ ContentStands(back) /\ back.settings = before.settings /\ back.lifecycle = before.lifecycle
        /\ DOMAIN back.items = DOMAIN after.items /\ activeItems(back.items) = activeItems(before.items)
        /\ activeIds(back.items) = activeIds(before.items)
        /\ \A i \in DOMAIN before.items : back.items[i] = before.items[i]
        /\ \A i \in DOMAIN after.items \ DOMAIN before.items : back.items[i].lifecycle = "removed"
  BY <1>1, ChangeRestores
<1>3. DOMAIN back = PlanColumns /\ back.protections = plan.protections
  BY <1>2, RestoreIs
<1>4. ShownDelivery(back) = ShownDelivery(before)
  <2>1. \A i \in activeIds(back.items) : back.items[i] = before.items[i]
    BY <1>2 DEF activeIds
  <2> QED BY <1>2, <1>3, <2>1, ShownSame
<1>5. \E again \in restoreDeliveryEffect(back, becomes) : SameContent(again, plan)
  <2>1. PICK again \in restoreDeliveryEffect(back, becomes) : SameContent(again, after)
    BY <1>1, <1>2, <1>3, ChangeComesBack
  <2> QED BY <2>1 DEF SameContent
<1>6. ASSUME NEW f \in DOMAIN plan.heads
      PROVE  IF plan.heads[f] = a THEN FieldSays(back, was, f) ELSE DeliveryValue(back, f) = DeliveryValue(plan, f)
  <2>1. CASE f \in names
    BY <1>1, <1>2, <2>1, ChangeSaid
  <2>2. CASE f \notin names
    <3>1. f \in deliveryFields(d, before.items) /\ DeliveryValue(after, f) = DeliveryValue(before, f)
      BY <2>2 DEF Change
    <3>2. plan.heads[f] = before.heads[f] /\ before.heads[f] \in DOMAIN choices
      BY <1>1, <2>2, <3>1 DEF PlanStands
    <3>3. DeliveryValue(plan, f) = DeliveryValue(after, f)
      BY ValueOfContent
    <3>4. \/ f[3] = Absent /\ f[2] \in PlanNames
          \/ f[3] # Absent /\ f[3] \in DOMAIN before.items /\ f[2] \in ItemNames
      <4>1. DOMAIN before.items \subseteq ItemIds
        BY <1>1 DEF ContentStands
      <4> QED BY <3>1, <4>1, FieldIs
    <3>5. DeliveryValue(back, f) = DeliveryValue(before, f)
      <4>1. CASE f[3] = Absent /\ f[2] \in PlanNames
        BY <1>2, <4>1 DEF DeliveryValue, PlanNames
      <4>2. CASE f[3] \in DOMAIN before.items /\ f[2] \in ItemNames
        BY <1>2, <4>2, ItemValueIs
      <4> QED BY <3>4, <4>1, <4>2
    <3> QED BY <3>1, <3>2, <3>3, <3>5
  <2> QED BY <2>1, <2>2
<1> QED BY <1>2, <1>4, <1>5, <1>6 DEF Returns

\* After a change the plan stands: each field names the Choice of the change, or what it named before.
LEMMA ChangeStands ==
  ASSUME NEW d, NEW before, NEW after, NEW names, NEW affected, NEW was, NEW becomes,
         Change(d, before, after, names, affected, was, becomes), PlanStands(choices, d, before),
         NEW plan, DOMAIN plan = PlanColumns, SameContent(plan, after), plan.protections = before.protections,
         plan.revision \in Nat,
         NEW a, DOMAIN plan.heads = deliveryFields(d, after.items),
         \A f \in DOMAIN plan.heads : plan.heads[f] = IF f \in names THEN a ELSE before.heads[f],
         DOMAIN after.items \subseteq {a} \cup DOMAIN before.items,
         NEW table, Extends(table), a \in DOMAIN table, table[a].effect = becomes
  PROVE  PlanStands(table, d, plan)
<1>1. /\ ContentStands(before) /\ DOMAIN before.heads = deliveryFields(d, before.items)
      /\ DOMAIN before.protections \subseteq deliveryFields(d, before.items)
      /\ DOMAIN before.items \cap Authors \subseteq DOMAIN choices
  BY DEF PlanStands
<1>2. plan.items = after.items /\ plan.settings = after.settings /\ plan.lifecycle = after.lifecycle
  BY DEF SameContent
<1>3. ContentStands(plan)
  BY <1>2 DEF Change, ContentStands
<1>4. deliveryFields(d, plan.items) = names \cup deliveryFields(d, before.items)
  BY <1>2 DEF Change
<1>5. ASSUME NEW f \in DOMAIN plan.heads PROVE plan.heads[f] \in DOMAIN table /\ FieldSays(plan, table[plan.heads[f]].effect, f)
  <2>1. CASE f \in names
    <3>1. FieldSays(after, becomes, f)
      BY <2>1, ChangeSays
    <3>2. DeliveryValue(plan, f) = DeliveryValue(after, f)
      BY ValueOfContent
    <3>3. (f[3] # Absent /\ f[2] \in ItemNames) \/ (f[3] = Absent /\ f[2] \in PlanNames)
      <4>1. DOMAIN after.items \subseteq ItemIds /\ f \in deliveryFields(d, after.items)
        BY <1>3, <1>2 DEF ContentStands
      <4> QED BY <4>1, FieldIs
    <3>4. FieldSays(plan, becomes, f)
      BY <3>1, <3>2, <3>3, SameValueSays
    <3> QED BY <2>1, <3>4
  <2>2. CASE f \notin names
    <3>1. f \in deliveryFields(d, before.items) /\ DeliveryValue(after, f) = DeliveryValue(before, f)
      BY <2>2 DEF Change
    <3>2. /\ plan.heads[f] = before.heads[f] /\ before.heads[f] \in DOMAIN choices
          /\ FieldSays(before, choices[before.heads[f]].effect, f)
      BY <1>1, <2>2, <3>1 DEF PlanStands
    <3>3. DeliveryValue(plan, f) = DeliveryValue(after, f)
      BY ValueOfContent
    <3>4. (f[3] # Absent /\ f[2] \in ItemNames) \/ (f[3] = Absent /\ f[2] \in PlanNames)
      <4>1. DOMAIN before.items \subseteq ItemIds
        BY <1>1 DEF ContentStands
      <4> QED BY <3>1, <4>1, FieldIs
    <3>5. FieldSays(plan, choices[before.heads[f]].effect, f)
      BY <3>1, <3>2, <3>3, <3>4, SameValueSays
    <3> QED BY <3>2, <3>5 DEF Extends
  <2> QED BY <2>1, <2>2
<1>6. DOMAIN plan.items \cap Authors \subseteq DOMAIN table
  BY <1>1, <1>2 DEF Extends
<1> QED BY <1>1, <1>2, <1>3, <1>4, <1>5, <1>6 DEF PlanStands

\* The plan of a change.
LEMMA ChangedPlan ==
  ASSUME NEW d \in OpenDeliveries, PlansStand, NEW after, NEW names, NEW affected, NEW was, NEW becomes,
         Change(d, deliveries[d], after, names, affected, was, becomes),
         NEW a, a \notin DOMAIN choices, DOMAIN after.items \subseteq {a} \cup DOMAIN deliveries[d].items, NEW supersedes, NEW plan,
         plan = deliveryPlan("delivery.mutate", d, names, was, becomes, supersedes, Absent,
                             [after EXCEPT !.revision = @ + 1, !.heads = withChoiceHeads(@, names, a)])
  PROVE  DeliveryPlanned(a, plan)
<1> DEFINE before == deliveries[d]
           row == [after EXCEPT !.revision = @ + 1, !.heads = withChoiceHeads(@, names, a)]
<1>1. PlanStands(choices, d, before)
  BY DEF PlansStand, OpenDeliveries
<1>2. /\ DOMAIN after = PlanColumns /\ after.revision = before.revision /\ after.heads = before.heads
      /\ after.protections = before.protections /\ deliveryFields(d, after.items) = names \cup deliveryFields(d, before.items)
  BY DEF Change
<1>3. before.revision \in Nat /\ DOMAIN before.heads = deliveryFields(d, before.items)
  BY <1>1 DEF PlanStands
<1>4. /\ DOMAIN row = PlanColumns /\ row.revision = before.revision + 1 /\ row.heads = withChoiceHeads(before.heads, names, a)
      /\ row.protections = before.protections /\ SameContent(row, after)
  BY <1>2 DEF PlanColumns, SameContent
<1>5. /\ plan.rows = <<>> /\ plan.plans = [p \in {d} |-> row] /\ plan.owner = deliveryRef(d) /\ plan.fields = names
      /\ plan.tool = "delivery.mutate" /\ plan.active = Choosers(before.protections, names) /\ plan.before = was
      /\ plan.effect = becomes /\ plan.undoes = Absent
  <2> HIDE DEF row
  <2>1. plan = deliveryPlan("delivery.mutate", d, names, was, becomes, supersedes, Absent, row)
    BY DEF row
  <2> QED BY <2>1 DEF deliveryPlan
<1> HIDE DEF row
<1>6. DOMAIN plan.plans = {d} /\ plan.plans[d] = row
  BY <1>5
<1>7. /\ DOMAIN row.heads = deliveryFields(d, after.items)
      /\ \A f \in DOMAIN row.heads : row.heads[f] = IF f \in names THEN a ELSE before.heads[f]
  BY <1>2, <1>3, <1>4 DEF withChoiceHeads
<1>8. \A f \in deliveryFields(d, before.items) : DeliveryValue(row, f) # DeliveryValue(before, f) => f \in names
  <2>1. \A f : DeliveryValue(row, f) = DeliveryValue(after, f)
    BY <1>4, ValueOfContent
  <2> QED BY <2>1 DEF Change
<1>9. ASSUME NEW table, Extends(table), a \in DOMAIN table, table[a].effect = becomes PROVE PlanStands(table, d, row)
  <2>1. row.revision \in Nat
    BY <1>3, <1>4
  <2> QED BY <1>1, <1>4, <1>7, <1>9, <2>1, ChangeStands
<1>10. ASSUME NEW choice, choice.before = was, choice.effect = becomes, choice.seen = ShownDelivery(before)
       PROVE  GoesBack(a, choice, d, row)
  <2>1. Returns(a, choice, row)
    BY <1>1, <1>4, <1>7, <1>10, ChangeReturns
  <2>2. choice.before.kind = "delivery" /\ choice.effect.kind = "delivery"
    BY <1>10 DEF Change
  <2> QED BY <2>1, <2>2 DEF GoesBack
<1>11. \A f \in DOMAIN before.protections \ DOMAIN row.protections : f \in names
  BY <1>4
<1>12. DeliveryRevised(a, plan, d)
  BY <1>4, <1>5, <1>6, <1>8, <1>9, <1>10, <1>11 DEF DeliveryRevised
<1> QED BY <1>12 DEF DeliveryPlanned

\* The items of a Delivery are changed, and their order with them.
LEMMA ItemsChange ==
  ASSUME NEW d, NEW before, PlanStands(choices, d, before), NEW items, ItemsStand(items), Numbered(items),
         items = [i \in DOMAIN items |-> items[i]], DOMAIN before.items \subseteq DOMAIN items, DOMAIN items \subseteq ItemIds,
         NEW after, after = [before EXCEPT !.items = items], NEW names, NEW affected \in SUBSET DOMAIN items,
         deliveryFields(d, items) = names \cup deliveryFields(d, before.items), planField(d, "order") \in names,
         \A i \in DOMAIN items \ affected : i \in DOMAIN before.items /\ items[i] = before.items[i],
         \A f \in names : (f[3] # Absent => f[3] \in affected) /\ (f[3] = Absent => f[2] = "order"),
         \A i \in DOMAIN before.items, n \in ItemNames :
           itemField(d, i, n) \notin names => DeliveryValue(after, itemField(d, i, n)) = DeliveryValue(before, itemField(d, i, n))
  PROVE  Change(d, before, after, names, affected, effectOf(d, before, affected, FALSE, TRUE), effectOf(d, after, affected, FALSE, TRUE))
<1> DEFINE was == effectOf(d, before, affected, FALSE, TRUE)
           becomes == effectOf(d, after, affected, FALSE, TRUE)
<1>1. DOMAIN before = PlanColumns /\ ContentStands(before)
  BY DEF PlanStands
<1>2. /\ DOMAIN after = PlanColumns /\ after.items = items /\ after.revision = before.revision
      /\ after.heads = before.heads /\ after.protections = before.protections
      /\ after.settings = before.settings /\ after.lifecycle = before.lifecycle
  BY <1>1 DEF PlanColumns
<1>3. ContentStands(after)
  <2>1. items \in [DOMAIN items -> ItemRows] /\ IsFiniteSet(DOMAIN items)
    BY DEF ItemsStand
  <2> QED BY <1>1, <1>2, <2>1 DEF ContentStands
<1>4. activeItems(items) # Absent
  BY <1>2, <1>3, ContentIs
<1>5. /\ was.kind = "delivery" /\ was.settings = Absent /\ was.order = activeItems(before.items)
      /\ DOMAIN was.items = affected /\ \A i \in affected : was.items[i] = ItemEffect(before.items, i)
  BY DEF effectOf
<1>6. /\ becomes.kind = "delivery" /\ becomes.settings = Absent /\ becomes.order = activeItems(items)
      /\ DOMAIN becomes.items = affected /\ \A i \in affected : becomes.items[i] = items[i]
  BY <1>2 DEF effectOf, ItemEffect
<1> HIDE DEF was, becomes
<1>7. ASSUME NEW f \in deliveryFields(d, before.items) \ names PROVE DeliveryValue(after, f) = DeliveryValue(before, f)
  <2>1. /\ f = Field(d, f[2], f[3])
        /\ \/ f[3] = Absent /\ f[2] \in PlanNames
           \/ f[3] # Absent /\ f[3] \in DOMAIN before.items /\ f[2] \in ItemNames
    <3>1. DOMAIN before.items \subseteq ItemIds
      BY <1>1 DEF ContentStands
    <3> QED BY <1>7, <3>1, FieldIs
  <2>2. CASE f[3] = Absent
    <3>1. f[2] # "order"
      BY <1>7, <2>1, <2>2 DEF planField
    <3> QED BY <1>2, <2>1, <2>2, <3>1 DEF DeliveryValue, PlanNames
  <2>3. CASE f[3] # Absent
    <3>1. f = itemField(d, f[3], f[2])
      BY <2>1 DEF itemField
    <3> QED BY <1>7, <2>1, <2>3, <3>1
  <2> QED BY <2>2, <2>3
<1>8. \A f \in names : /\ f[3] # Absent => f[3] \in affected
                       /\ f[3] = Absent /\ f[2] = "order" => becomes.order # Absent
                       /\ f[3] = Absent /\ f[2] # "order" => becomes.settings # Absent
  BY <1>4, <1>6
<1> QED BY <1>2, <1>3, <1>5, <1>6, <1>7, <1>8 DEF Change, was, becomes

\* The hypotheses on a command about a Delivery.
Authored(a) == a \in Authors /\ a \notin DOMAIN choices
MediaRows ==
  /\ DOMAIN media = Results
  /\ \A r \in Results : DOMAIN media[r] = {"lifecycle", "revision", "links"} /\ media[r].revision \in Nat
DeliveriesStand == ObjectsStand /\ PlansStand /\ MediaRows

LEMMA PlaceNames ==
  ASSUME NEW d, NEW a, a # Absent, NEW f \in placedFields(d, a)
  PROVE  (f[3] # Absent => f[3] = a) /\ (f[3] = Absent => f[2] = "order")
BY DEF placedFields, planField, itemFields, itemField, Field

LEMMA PlacePlan ==
  ASSUME DeliveriesStand, NEW a, Authored(a), NEW in, requireExactPlan(in.plan), NEW plan \in planPlace(a, in)
  PROVE  DeliveryPlanned(a, plan)
<1> DEFINE d == in.plan[1]
           before == deliveries[d]
           current == activeItems(before.items)
           S == activeIds(before.items)
           item == [trim |-> in.trim, transition |-> 0, audioPolicy |-> 0, reviewState |-> 0, lifecycle |-> "active", order |-> 0,
                    shot |-> in.shot, result |-> in.result, media |-> media[in.result].revision]
           wider == WithRow(before.items, a, item)
           order == InsertAt(current, in.order + 1, a)
           items == Renumbered(wider, order)
           moved == {i \in DOMAIN items : ItemEffect(before.items, i) # items[i]}
           names == placedFields(d, a)
           after == [before EXCEPT !.items = items]
<1>1. /\ in.order \in 0..Len(current) /\ deliverable(in.shot, in.result) /\ in.trim \in 0..Duration
      /\ plan \in Changed(a, d, after, names, moved, FALSE, TRUE)
  BY DEF planPlace
<1>2. d \in OpenDeliveries /\ PlanStands(choices, d, before)
  BY DEF requireExactPlan, DeliveriesStand, PlansStand, OpenDeliveries
<1>3. /\ ContentStands(before) /\ DOMAIN before.items \subseteq ItemIds /\ ItemsStand(before.items) /\ Numbered(before.items)
      /\ \A i \in DOMAIN before.items : before.items[i] # Absent
  BY <1>2, ContentIs DEF PlanStands
<1>4. a \notin DOMAIN before.items /\ a \in ItemIds /\ a # Absent
  BY <1>2, DeliveryAssumption DEF PlanStands, Authored
<1>5. item \in ItemRows
  <2>1. in.trim \in Nat
    BY <1>1, DeliveryAssumption
  <2>2. in.result \in Results /\ media[in.result].revision \in Nat
    BY <1>1 DEF deliverable, DeliveriesStand, MediaRows
  <2>3. in.shot \in ObjectIds \X Nat
    <3>1. in.shot[1] \in OpenObjects /\ in.shot = productionRef(in.shot[1])
      BY <1>1 DEF deliverable, requireProductionRef, loadProductionObject
    <3>2. in.shot[1] \in ObjectIds /\ objects[in.shot[1]].revision \in Nat
      BY <3>1 DEF DeliveriesStand, ObjectsStand, ObjectTable, OpenObjects
    <3> QED BY <3>1, <3>2 DEF productionRef
  <2> QED BY <2>1, <2>2, <2>3 DEF ItemRows
<1>6. item.lifecycle = "active"
  OBVIOUS
<1> HIDE DEF item
<1>7. /\ DOMAIN wider = {a} \cup DOMAIN before.items /\ wider[a] = item
      /\ \A i \in DOMAIN before.items : wider[i] = before.items[i]
  BY <1>4 DEF WithRow
<1> HIDE DEF wider
<1>8. ItemsStand(wider)
  <2>1. IsFiniteSet({a} \cup DOMAIN before.items)
    <3>1. IsFiniteSet(DOMAIN before.items \cup {a})
      BY <1>3, FS_AddElement DEF ItemsStand
    <3>2. DOMAIN before.items \cup {a} = {a} \cup DOMAIN before.items
      OBVIOUS
    <3> QED BY <3>1, <3>2
  <2> QED BY <1>3, <1>5, <1>7, <2>1 DEF ItemsStand
<1>9. activeIds(wider) = S \cup {a} /\ a \notin S
  BY <1>4, <1>6, <1>7 DEF activeIds
<1>10. order \in SetToSeqs(S \cup {a})
  <2>1. current \in SetToSeqs(S) /\ IsFiniteSet(S)
    BY <1>3, NumberedThrough
  <2>2. Len(current) = Cardinality(S)
    BY <2>1, ListsAll
  <2>3. in.order \in 0..Cardinality(S)
    BY <1>1, <2>2
  <2> HIDE DEF current, S
  <2> QED BY <1>9, <2>1, <2>3, InsertLists
<1> HIDE DEF order
<1>11. /\ ItemsStand(items) /\ SameItems(items, wider) /\ Numbered(items)
  <2>1. order \in SetToSeqs(activeIds(wider))
    BY <1>9, <1>10
  <2> QED BY <1>8, <2>1, RenumberedStands
<1>12. items = [i \in DOMAIN items |-> items[i]]
  BY DEF Renumbered
<1> HIDE DEF items
<1>13. DOMAIN items = {a} \cup DOMAIN before.items
  BY <1>7, <1>11 DEF SameItems
<1>14. deliveryFields(d, items) = names \cup deliveryFields(d, before.items) /\ planField(d, "order") \in names
  BY <1>13 DEF deliveryFields, placedFields, planFields
<1>15. moved \in SUBSET DOMAIN items /\ a \in moved
  <2>1. items[a] \in ItemRows /\ Absent \notin ItemRows
    BY <1>11, <1>13, DeliveryAssumption DEF ItemsStand
  <2> QED BY <1>4, <1>13, <2>1 DEF ItemEffect
<1>16. \A i \in DOMAIN items \ moved : i \in DOMAIN before.items /\ items[i] = before.items[i]
  <2>1. \A i \in DOMAIN items : items[i] # Absent
    BY <1>11, DeliveryAssumption DEF ItemsStand
  <2> QED BY <1>4, <1>13, <2>1 DEF ItemEffect
<1>17. \A f \in names : (f[3] # Absent => f[3] \in moved) /\ (f[3] = Absent => f[2] = "order")
  <2> HIDE DEF moved, names
  <2> QED BY <1>4, <1>15, PlaceNames DEF names
<1>18. DOMAIN before = PlanColumns
  BY <1>2 DEF PlanStands
<1>19. ASSUME NEW i \in DOMAIN before.items, NEW n \in ItemNames
       PROVE  DeliveryValue(after, itemField(d, i, n)) = DeliveryValue(before, itemField(d, i, n))
  <2>1. after.items = items
    BY <1>18 DEF PlanColumns
  <2>2. \A m \in ItemColumns : items[i][m] = before.items[i][m]
    BY <1>7, <1>11, <1>13 DEF SameItems
  <2>3. itemField(d, i, n)[2] = n /\ itemField(d, i, n)[3] = i
    BY DEF itemField, Field
  <2> HIDE DEF after
  <2> QED BY <2>1, <2>2, <2>3, ItemValueIs
<1>20. Change(d, before, after, names, moved, effectOf(d, before, moved, FALSE, TRUE), effectOf(d, after, moved, FALSE, TRUE))
  <2>1. after = [before EXCEPT !.items = items] /\ DOMAIN items \subseteq ItemIds /\ DOMAIN before.items \subseteq DOMAIN items
    BY <1>3, <1>4, <1>13
  <2> HIDE DEF after, names, moved, before, d
  <2> QED BY <1>2, <1>11, <1>12, <1>14, <1>15, <1>16, <1>17, <1>19, <2>1, ItemsChange
<1>21. DOMAIN after.items \subseteq {a} \cup DOMAIN before.items
  BY <1>13, <1>18 DEF PlanColumns
<1> HIDE DEF after, names, moved
<1> DEFINE was == effectOf(d, before, moved, FALSE, TRUE)
           becomes == effectOf(d, after, moved, FALSE, TRUE)
           supersedes == supersededChoiceIds(before.heads, names)
<1>22. plan = deliveryPlan("delivery.mutate", d, names, was, becomes, supersedes, Absent,
                           [after EXCEPT !.revision = @ + 1, !.heads = withChoiceHeads(@, names, a)])
  BY <1>1 DEF Changed
<1>23. Change(d, before, after, names, moved, was, becomes)
  BY <1>20
<1>24. PlansStand /\ a \notin DOMAIN choices
  BY DEF DeliveriesStand, Authored
<1> HIDE DEF was, becomes, supersedes
<1> QED BY <1>2, <1>21, <1>22, <1>23, <1>24, ChangedPlan

LEMMA RemovePlan ==
  ASSUME DeliveriesStand, NEW a, Authored(a), NEW in, requireExactPlan(in.plan), NEW plan \in planRemove(a, in)
  PROVE  DeliveryPlanned(a, plan)
<1> DEFINE d == in.plan[1]
           before == deliveries[d]
           x == in.item
           current == activeItems(before.items)
           S == activeIds(before.items)
           fewer == [before.items EXCEPT ![x].lifecycle = "removed"]
           order == RemoveAt(current, PlaceIn(current, x) + 1)
           items == Renumbered(fewer, order)
           moved == {i \in DOMAIN items : before.items[i] # items[i]}
           names == {planField(d, "order"), itemField(d, x, "itemLifecycle")}
           after == [before EXCEPT !.items = items]
<1>1. x \in S /\ plan \in Changed(a, d, after, names, moved, FALSE, TRUE)
  BY DEF planRemove
<1>2. d \in OpenDeliveries /\ PlanStands(choices, d, before)
  BY DEF requireExactPlan, DeliveriesStand, PlansStand, OpenDeliveries
<1>3. /\ ContentStands(before) /\ DOMAIN before.items \subseteq ItemIds /\ ItemsStand(before.items) /\ Numbered(before.items)
      /\ \A i \in DOMAIN before.items : before.items[i] \in ItemRows /\ i # Absent
  BY <1>2, ContentIs DEF PlanStands
<1>4. x \in DOMAIN before.items /\ before.items[x].lifecycle = "active"
  BY <1>1 DEF activeIds
<1>5. /\ DOMAIN fewer = DOMAIN before.items /\ fewer[x] = [before.items[x] EXCEPT !.lifecycle = "removed"]
      /\ \A i \in DOMAIN before.items : i # x => fewer[i] = before.items[i]
  BY <1>4
<1> HIDE DEF fewer
<1>6. /\ fewer[x] \in ItemRows /\ fewer[x].lifecycle = "removed"
      /\ \A n \in ItemColumns : n # "lifecycle" => fewer[x][n] = before.items[x][n]
  <2> DEFINE row == before.items[x]
  <2>1. row \in ItemRows /\ fewer[x] = [row EXCEPT !.lifecycle = "removed"]
    BY <1>3, <1>4, <1>5
  <2> HIDE DEF row
  <2>2. fewer[x] \in ItemRows /\ fewer[x].lifecycle = "removed"
    BY <2>1 DEF ItemRows
  <2>3. /\ fewer[x].trim = row.trim /\ fewer[x].transition = row.transition /\ fewer[x].audioPolicy = row.audioPolicy
        /\ fewer[x].reviewState = row.reviewState /\ fewer[x].shot = row.shot /\ fewer[x].result = row.result
        /\ fewer[x].media = row.media
    BY <2>1 DEF ItemRows
  <2> QED BY <2>2, <2>3 DEF ItemColumns, row
<1>7. ItemsStand(fewer)
  BY <1>3, <1>5, <1>6 DEF ItemsStand
<1>8. activeIds(fewer) = S \ {x}
  <2>1. \A i \in DOMAIN before.items : fewer[i].lifecycle = "active" <=> before.items[i].lifecycle = "active" /\ i # x
    BY <1>4, <1>5, <1>6
  <2> QED BY <1>5, <2>1 DEF activeIds
<1>9. order \in SetToSeqs(S \ {x})
  <2>1. current \in SetToSeqs(S) /\ IsFiniteSet(S)
    BY <1>3, NumberedThrough
  <2>2. /\ DOMAIN current = 1..Cardinality(S) /\ \A i \in S : \E n \in DOMAIN current : current[n] = i
    BY <2>1, ListsAll
  <2> DEFINE k == CHOOSE n \in DOMAIN current : current[n] = x
  <2>3. k \in DOMAIN current /\ current[k] = x
    <3> HIDE DEF current, S
    <3> QED BY <1>1, <2>2
  <2>4. PlaceIn(current, x) + 1 = k
    <3>1. k \in Int
      <4> HIDE DEF k, current
      <4> QED BY <2>2, <2>3
    <3>2. PlaceIn(current, x) = k - 1
      BY DEF PlaceIn
    <3> HIDE DEF k
    <3> QED BY <3>1, <3>2
  <2> HIDE DEF k, current, S
  <2>5. RemoveAt(current, k) \in SetToSeqs(S \ {current[k]})
    BY <2>1, <2>3, RemoveLists
  <2> QED BY <2>3, <2>4, <2>5 DEF order
<1> HIDE DEF order
<1>10. /\ ItemsStand(items) /\ SameItems(items, fewer) /\ Numbered(items)
  <2>1. order \in SetToSeqs(activeIds(fewer))
    BY <1>8, <1>9
  <2> QED BY <1>7, <2>1, RenumberedStands
<1>11. items = [i \in DOMAIN items |-> items[i]]
  BY DEF Renumbered
<1> HIDE DEF items
<1>12. DOMAIN items = DOMAIN before.items
  BY <1>5, <1>10 DEF SameItems
<1>13. planField(d, "order") \in deliveryFields(d, before.items) /\ itemField(d, x, "itemLifecycle") \in deliveryFields(d, before.items)
  BY <1>4 DEF deliveryFields, planFields, itemFields
<1>14. deliveryFields(d, items) = names \cup deliveryFields(d, before.items) /\ planField(d, "order") \in names
  BY <1>12, <1>13 DEF deliveryFields
<1>15. moved \in SUBSET DOMAIN items /\ x \in moved
  <2>1. items[x].lifecycle = "removed"
    BY <1>4, <1>6, <1>10, <1>12 DEF SameItems, ItemColumns
  <2> QED BY <1>4, <1>12, <2>1
<1>16. \A i \in DOMAIN items \ moved : i \in DOMAIN before.items /\ items[i] = before.items[i]
  BY <1>12
<1>17. \A f \in names : (f[3] # Absent => f[3] \in moved) /\ (f[3] = Absent => f[2] = "order")
  <2> HIDE DEF moved
  <2> QED BY <1>3, <1>4, <1>15 DEF planField, itemField, Field
<1>18. DOMAIN before = PlanColumns
  BY <1>2 DEF PlanStands
<1>19. ASSUME NEW i \in DOMAIN before.items, NEW n \in ItemNames, itemField(d, i, n) \notin names
       PROVE  DeliveryValue(after, itemField(d, i, n)) = DeliveryValue(before, itemField(d, i, n))
  <2>1. after.items = items
    BY <1>18 DEF PlanColumns
  <2>2. \A m \in ItemColumns : m # "lifecycle" \/ i # x => items[i][m] = before.items[i][m]
    <3>1. \A m \in ItemColumns : items[i][m] = fewer[i][m]
      BY <1>10, <1>12 DEF SameItems
    <3>2. i # x => fewer[i] = before.items[i]
      BY <1>5
    <3>3. i = x => \A m \in ItemColumns : m # "lifecycle" => fewer[i][m] = before.items[i][m]
      BY <1>6
    <3> QED BY <3>1, <3>2, <3>3
  <2>3. itemField(d, i, n)[2] = n /\ itemField(d, i, n)[3] = i
    BY DEF itemField, Field
  <2> HIDE DEF after
  <2>4. CASE i # x
    BY <2>1, <2>2, <2>3, <2>4, ItemValueIs
  <2>5. CASE i = x
    <3>1. n # "itemLifecycle"
      BY <1>19, <2>5
    <3>2. /\ items[i].shot = before.items[i].shot /\ items[i].result = before.items[i].result /\ items[i].media = before.items[i].media
          /\ items[i].trim = before.items[i].trim /\ items[i].transition = before.items[i].transition
          /\ items[i].audioPolicy = before.items[i].audioPolicy /\ items[i].reviewState = before.items[i].reviewState
      BY <2>2 DEF ItemColumns
    <3>3. CASE n = "clip"
      BY <2>1, <2>3, <3>2, <3>3 DEF DeliveryValue
    <3>4. CASE n \in {"trim", "transition", "audioPolicy", "reviewState"}
      BY <2>1, <2>3, <3>2, <3>4 DEF DeliveryValue
    <3> QED BY <3>1, <3>3, <3>4 DEF ItemNames
  <2> QED BY <2>4, <2>5
<1>20. Change(d, before, after, names, moved, effectOf(d, before, moved, FALSE, TRUE), effectOf(d, after, moved, FALSE, TRUE))
  <2>1. after = [before EXCEPT !.items = items] /\ DOMAIN items \subseteq ItemIds /\ DOMAIN before.items \subseteq DOMAIN items
    BY <1>3, <1>12
  <2> HIDE DEF after, names, moved, before, d
  <2> QED BY <1>2, <1>10, <1>11, <1>14, <1>15, <1>16, <1>17, <1>19, <2>1, ItemsChange
<1>21. DOMAIN after.items \subseteq {a} \cup DOMAIN before.items
  BY <1>12, <1>18 DEF PlanColumns
<1> HIDE DEF after, names, moved
<1> DEFINE was == effectOf(d, before, moved, FALSE, TRUE)
           becomes == effectOf(d, after, moved, FALSE, TRUE)
           supersedes == supersededChoiceIds(before.heads, names)
<1>22. plan = deliveryPlan("delivery.mutate", d, names, was, becomes, supersedes, Absent,
                           [after EXCEPT !.revision = @ + 1, !.heads = withChoiceHeads(@, names, a)])
  BY <1>1 DEF Changed
<1>23. Change(d, before, after, names, moved, was, becomes)
  BY <1>20
<1>24. PlansStand /\ a \notin DOMAIN choices
  BY DEF DeliveriesStand, Authored
<1> HIDE DEF was, becomes, supersedes
<1> QED BY <1>2, <1>21, <1>22, <1>23, <1>24, ChangedPlan

LEMMA ReorderPlan ==
  ASSUME DeliveriesStand, NEW a, Authored(a), NEW in, requireExactPlan(in.plan), NEW plan \in planReorder(a, in)
  PROVE  DeliveryPlanned(a, plan)
<1> DEFINE d == in.plan[1]
           before == deliveries[d]
           order == in.order
           items == Renumbered(before.items, order)
           moved == ToSet(order)
           names == {planField(d, "order")}
           after == [before EXCEPT !.items = items]
<1>1. d \in OpenDeliveries /\ PlanStands(choices, d, before)
  BY DEF requireExactPlan, DeliveriesStand, PlansStand, OpenDeliveries
<1>2. DOMAIN before = PlanColumns
  BY <1>1 DEF PlanStands
<1>3. order \in SetToSeqs(activeIds(before.items)) /\ plan \in Changed(a, d, after, names, moved, FALSE, TRUE)
  BY DEF planReorder
<1>4. /\ ContentStands(before) /\ DOMAIN before.items \subseteq ItemIds /\ ItemsStand(before.items)
  BY <1>1, ContentIs DEF PlanStands
<1>5. /\ ItemsStand(items) /\ SameItems(items, before.items) /\ Numbered(items)
  BY <1>3, <1>4, RenumberedStands
<1>6. items = [i \in DOMAIN items |-> items[i]]
  BY DEF Renumbered
<1>7. DOMAIN items = DOMAIN before.items
  BY <1>5 DEF SameItems
<1>8. deliveryFields(d, items) = names \cup deliveryFields(d, before.items) /\ planField(d, "order") \in names
  BY <1>7 DEF deliveryFields, planFields
<1>9. moved \in SUBSET DOMAIN items
  <2>1. IsFiniteSet(activeIds(before.items)) /\ activeIds(before.items) \subseteq DOMAIN before.items
    BY <1>4, FS_Subset DEF ItemsStand, activeIds
  <2>2. ToSet(order) = activeIds(before.items)
    BY <1>3, <2>1, ListsAll
  <2> QED BY <1>7, <2>1, <2>2
<1>10. \A i \in DOMAIN items \ moved : i \in DOMAIN before.items /\ items[i] = before.items[i]
  BY <1>7 DEF Renumbered
<1> HIDE DEF items
<1>11. \A f \in names : (f[3] # Absent => f[3] \in moved) /\ (f[3] = Absent => f[2] = "order")
  BY DEF planField, Field
<1>12. ASSUME NEW i \in DOMAIN before.items, NEW n \in ItemNames
       PROVE  DeliveryValue(after, itemField(d, i, n)) = DeliveryValue(before, itemField(d, i, n))
  <2>1. after.items = items
    BY <1>2 DEF PlanColumns
  <2>2. \A m \in ItemColumns : items[i][m] = before.items[i][m]
    BY <1>5, <1>7 DEF SameItems
  <2>3. itemField(d, i, n)[2] = n /\ itemField(d, i, n)[3] = i
    BY DEF itemField, Field
  <2> HIDE DEF after
  <2> QED BY <2>1, <2>2, <2>3, ItemValueIs
<1>13. Change(d, before, after, names, moved, effectOf(d, before, moved, FALSE, TRUE), effectOf(d, after, moved, FALSE, TRUE))
  <2>1. after = [before EXCEPT !.items = items] /\ DOMAIN items \subseteq ItemIds /\ DOMAIN before.items \subseteq DOMAIN items
    BY <1>4, <1>7
  <2> HIDE DEF after, names, moved, before, d
  <2> QED BY <1>1, <1>5, <1>6, <1>8, <1>9, <1>10, <1>11, <1>12, <2>1, ItemsChange
<1>14. DOMAIN after.items \subseteq {a} \cup DOMAIN before.items
  BY <1>7, <1>2 DEF PlanColumns
<1> HIDE DEF after, names, moved
<1> DEFINE was == effectOf(d, before, moved, FALSE, TRUE)
           becomes == effectOf(d, after, moved, FALSE, TRUE)
           supersedes == supersededChoiceIds(before.heads, names)
<1>15. plan = deliveryPlan("delivery.mutate", d, names, was, becomes, supersedes, Absent,
                           [after EXCEPT !.revision = @ + 1, !.heads = withChoiceHeads(@, names, a)])
  BY <1>3 DEF Changed
<1>16. Change(d, before, after, names, moved, was, becomes)
  BY <1>13
<1>17. PlansStand /\ a \notin DOMAIN choices
  BY DEF DeliveriesStand, Authored
<1> HIDE DEF was, becomes, supersedes
<1> QED BY <1>1, <1>14, <1>15, <1>16, <1>17, ChangedPlan

\* A field of an active item is edited.
LEMMA EditPlan ==
  ASSUME DeliveriesStand, NEW a, Authored(a), NEW in, requireExactPlan(in.plan), NEW plan \in planEditItem(a, in)
  PROVE  DeliveryPlanned(a, plan)
<1> DEFINE d == in.plan[1]
           before == deliveries[d]
           x == in.item
           edited == [before.items[x] EXCEPT ![in.field] = in.value]
           items == [before.items EXCEPT ![x] = edited]
           after == [before EXCEPT !.items[x][in.field] = in.value]
           affected == {x}
           names == {itemField(d, x, in.field)}
           was == effectOf(d, before, affected, FALSE, FALSE)
           becomes == effectOf(d, after, affected, FALSE, FALSE)
<1>1. /\ x \in activeIds(before.items) /\ in.field \in EditFields /\ in.value \in Edits
      /\ plan \in Changed(a, d, after, names, affected, FALSE, FALSE)
  BY DEF planEditItem
<1>2. d \in OpenDeliveries /\ PlanStands(choices, d, before)
  BY DEF requireExactPlan, DeliveriesStand, PlansStand, OpenDeliveries
<1>3. /\ ContentStands(before) /\ DOMAIN before.items \subseteq ItemIds /\ ItemsStand(before.items) /\ Numbered(before.items)
      /\ \A i \in DOMAIN before.items : before.items[i] \in ItemRows /\ i # Absent
      /\ before.items = [i \in DOMAIN before.items |-> before.items[i]]
  BY <1>2, ContentIs DEF PlanStands
<1>4. x \in DOMAIN before.items /\ DOMAIN before = PlanColumns /\ in.field \in ItemFields /\ in.value \in Nat
  BY <1>1, <1>2, DeliveryAssumption DEF activeIds, PlanStands
<1>5. /\ DOMAIN after = PlanColumns /\ after.items = items /\ after.revision = before.revision
      /\ after.heads = before.heads /\ after.protections = before.protections
      /\ after.settings = before.settings /\ after.lifecycle = before.lifecycle
  BY <1>4 DEF PlanColumns
<1> HIDE DEF after
<1>6. /\ edited \in ItemRows /\ edited.lifecycle = before.items[x].lifecycle /\ edited.order = before.items[x].order
      /\ edited.shot = before.items[x].shot /\ edited.result = before.items[x].result /\ edited.media = before.items[x].media
      /\ \A n \in ItemFields : n # in.field => edited[n] = before.items[x][n]
  <2> DEFINE row == before.items[x]
  <2>1. row \in ItemRows /\ edited = [row EXCEPT ![in.field] = in.value]
    BY <1>3, <1>4
  <2> HIDE DEF row, edited
  <2>2. DOMAIN edited = DOMAIN row /\ \A n \in DOMAIN row : n # in.field => edited[n] = row[n]
    BY <2>1
  <2>3. DOMAIN row = {"trim", "transition", "audioPolicy", "reviewState", "lifecycle", "order", "shot", "result", "media"}
    BY <2>1 DEF ItemRows
  <2>4. edited \in ItemRows
    <3>1. CASE in.field = "trim"
      BY <1>4, <2>1, <3>1 DEF ItemRows
    <3>2. CASE in.field = "transition"
      BY <1>4, <2>1, <3>2 DEF ItemRows
    <3>3. CASE in.field = "audioPolicy"
      BY <1>4, <2>1, <3>3 DEF ItemRows
    <3>4. CASE in.field = "reviewState"
      BY <1>4, <2>1, <3>4 DEF ItemRows
    <3> QED BY <1>4, <3>1, <3>2, <3>3, <3>4 DEF ItemFields
  <2>5. in.field \notin {"lifecycle", "order", "shot", "result", "media"}
    BY <1>4 DEF ItemFields
  <2>6. \A n \in ItemFields : n # in.field => edited[n] = row[n]
    BY <2>2, <2>3 DEF ItemFields
  <2> QED BY <2>2, <2>3, <2>4, <2>5, <2>6 DEF row
<1> HIDE DEF edited
<1>7. /\ DOMAIN items = DOMAIN before.items /\ items[x] = edited /\ \A i \in DOMAIN items : i # x => items[i] = before.items[i]
      /\ items = [i \in DOMAIN items |-> items[i]]
  BY <1>4
<1> HIDE DEF items
<1>8. \A i \in DOMAIN before.items : /\ items[i] \in ItemRows /\ items[i].lifecycle = before.items[i].lifecycle
                                     /\ items[i].order = before.items[i].order
  BY <1>3, <1>6, <1>7
<1>9. ItemsStand(items)
  BY <1>3, <1>7, <1>8 DEF ItemsStand
<1>10. activeIds(items) = activeIds(before.items)
  BY <1>7, <1>8 DEF activeIds
<1>11. activeItems(items) = activeItems(before.items)
  <2>1. [i \in activeIds(items) |-> items[i].order] = [i \in activeIds(before.items) |-> before.items[i].order]
    BY <1>8, <1>10 DEF activeIds
  <2> QED BY <2>1 DEF activeItems
<1>12. Numbered(items)
  <2>1. PICK order \in SetToSeqs(activeIds(before.items)) : \A n \in DOMAIN order : before.items[order[n]].order = n - 1
    BY <1>3 DEF Numbered
  <2>2. IsFiniteSet(activeIds(before.items)) /\ activeIds(before.items) \subseteq DOMAIN before.items
    BY <1>3, FS_Subset DEF ItemsStand, activeIds
  <2>3. \A n \in DOMAIN order : order[n] \in DOMAIN before.items
    BY <2>2, ListsAll
  <2>4. \A n \in DOMAIN order : items[order[n]].order = n - 1
    BY <1>8, <2>1, <2>3
  <2> QED BY <1>10, <2>4 DEF Numbered
<1>13. ContentStands(after)
  <2>1. items \in [DOMAIN items -> ItemRows] /\ IsFiniteSet(DOMAIN items) /\ DOMAIN items \subseteq ItemIds
    BY <1>3, <1>7, <1>8, <1>9 DEF ItemsStand
  <2> QED BY <1>3, <1>5, <1>12, <2>1 DEF ContentStands
<1>14. itemField(d, x, in.field) \in deliveryFields(d, before.items)
  BY <1>4 DEF deliveryFields, itemFields
<1>15. deliveryFields(d, items) = names \cup deliveryFields(d, before.items)
  BY <1>7, <1>14 DEF deliveryFields
<1>16. /\ was.kind = "delivery" /\ was.settings = Absent /\ was.order = Absent
       /\ DOMAIN was.items = affected /\ \A i \in affected : was.items[i] = ItemEffect(before.items, i)
  BY DEF effectOf
<1>17. /\ becomes.kind = "delivery" /\ becomes.settings = Absent /\ becomes.order = Absent
       /\ DOMAIN becomes.items = affected /\ \A i \in affected : becomes.items[i] = items[i]
  BY <1>4, <1>5, <1>7 DEF effectOf, ItemEffect
<1> HIDE DEF was, becomes
<1>18. ASSUME NEW f \in deliveryFields(d, before.items) \ names PROVE DeliveryValue(after, f) = DeliveryValue(before, f)
  <2>1. /\ f = Field(d, f[2], f[3])
        /\ \/ f[3] = Absent /\ f[2] \in PlanNames
           \/ f[3] # Absent /\ f[3] \in DOMAIN before.items /\ f[2] \in ItemNames
    BY <1>3, <1>18, FieldIs
  <2>2. CASE f[3] = Absent
    BY <1>5, <1>11, <2>1, <2>2 DEF DeliveryValue, PlanNames
  <2>3. CASE f[3] # Absent /\ f[3] # x
    <3>1. after.items[f[3]] = before.items[f[3]]
      BY <1>5, <1>7, <2>1, <2>3
    <3> QED BY <2>1, <2>3, <3>1, ItemValueIs
  <2>4. CASE f[3] # Absent /\ f[3] = x
    <3>1. f = itemField(d, x, f[2])
      BY <2>1, <2>4 DEF itemField
    <3>2. f[2] # in.field
      BY <1>18, <3>1
    <3>3. after.items[f[3]] = edited
      BY <1>5, <1>7, <2>4
    <3>4. CASE f[2] = "clip"
      BY <1>6, <2>4, <3>3, <3>4 DEF DeliveryValue
    <3>5. CASE f[2] = "itemLifecycle"
      BY <1>6, <2>4, <3>3, <3>5 DEF DeliveryValue
    <3>6. CASE f[2] \in ItemFields
      <4>1. edited[f[2]] = before.items[x][f[2]]
        BY <1>6, <3>2, <3>6
      <4> QED BY <2>4, <3>3, <3>6, <4>1 DEF DeliveryValue, ItemFields
    <3> QED BY <2>1, <2>4, <3>4, <3>5, <3>6 DEF ItemNames, ItemFields
  <2> QED BY <2>2, <2>3, <2>4
<1>19. \A f \in names : f[3] = x /\ f[3] # Absent
  BY <1>3, <1>4 DEF itemField, Field
<1>20. Change(d, before, after, names, affected, was, becomes)
  <2>1. affected \subseteq DOMAIN after.items /\ x \in affected
    BY <1>4, <1>5, <1>7
  <2>2. \A i \in DOMAIN after.items \ affected : i \in DOMAIN before.items /\ after.items[i] = before.items[i]
    BY <1>5, <1>7
  <2>3. \A i \in affected : was.items[i] = ItemEffect(before.items, i) /\ becomes.items[i] = after.items[i]
    BY <1>5, <1>16, <1>17
  <2> HIDE DEF names, affected
  <2>4. \A f \in names : /\ f[3] # Absent => f[3] \in affected
                         /\ f[3] = Absent /\ f[2] = "order" => becomes.order # Absent
                         /\ f[3] = Absent /\ f[2] # "order" => becomes.settings # Absent
    BY <1>19, <2>1
  <2> QED BY <1>5, <1>7, <1>13, <1>15, <1>16, <1>17, <1>18, <2>1, <2>2, <2>3, <2>4 DEF Change
<1>21. DOMAIN after.items \subseteq {a} \cup DOMAIN before.items
  BY <1>5, <1>7
<1> DEFINE supersedes == supersededChoiceIds(before.heads, names)
<1>22. plan = deliveryPlan("delivery.mutate", d, names, was, becomes, supersedes, Absent,
                           [after EXCEPT !.revision = @ + 1, !.heads = withChoiceHeads(@, names, a)])
  BY <1>1 DEF Changed, was, becomes
<1>23. PlansStand /\ a \notin DOMAIN choices
  BY DEF DeliveriesStand, Authored
<1> HIDE DEF names, affected, supersedes
<1> QED BY <1>2, <1>20, <1>21, <1>22, <1>23, ChangedPlan

\* The settings or the lifecycle of a Delivery change.
LEMMA SettingsPlan ==
  ASSUME PlansStand, NEW a, Authored(a), NEW d \in OpenDeliveries, NEW after, DOMAIN after = PlanColumns,
         after.revision = deliveries[d].revision, after.heads = deliveries[d].heads,
         after.protections = deliveries[d].protections, after.items = deliveries[d].items,
         after.settings \in Settings, after.lifecycle \in Lifecycles,
         NEW names, names \subseteq {planField(d, n) : n \in {"name", "lifecycle", "formatIntent"}},
         after.settings # deliveries[d].settings => planField(d, "name") \in names /\ planField(d, "formatIntent") \in names,
         after.lifecycle # deliveries[d].lifecycle => planField(d, "lifecycle") \in names,
         NEW plan \in Changed(a, d, after, names, {}, TRUE, FALSE)
  PROVE  DeliveryPlanned(a, plan)
<1> DEFINE before == deliveries[d]
           affected == {}
           was == effectOf(d, before, affected, TRUE, FALSE)
           becomes == effectOf(d, after, affected, TRUE, FALSE)
<1>1. PlanStands(choices, d, before)
  BY DEF PlansStand, OpenDeliveries
<1>2. ContentStands(before) /\ DOMAIN before.items \subseteq ItemIds
  BY <1>1 DEF PlanStands, ContentStands
<1>3. ContentStands(after)
  BY <1>2 DEF ContentStands
<1>4. settingsSnapshot(after) # Absent
  BY <1>3, ContentIs
<1>5. /\ was.kind = "delivery" /\ was.settings = settingsSnapshot(before) /\ was.order = Absent /\ DOMAIN was.items = affected
      /\ becomes.kind = "delivery" /\ becomes.settings = settingsSnapshot(after) /\ becomes.order = Absent
      /\ DOMAIN becomes.items = affected
  BY DEF effectOf
<1> HIDE DEF was, becomes
<1>6. \A f \in names : f \in planFields(d) /\ f[3] = Absent /\ f[2] # "order"
  BY DEF planField, Field, planFields
<1>7. deliveryFields(d, after.items) = names \cup deliveryFields(d, before.items)
  BY <1>6 DEF deliveryFields
<1>8. ASSUME NEW f \in deliveryFields(d, before.items) \ names PROVE DeliveryValue(after, f) = DeliveryValue(before, f)
  <2>1. /\ f = Field(d, f[2], f[3])
        /\ \/ f[3] = Absent /\ f[2] \in PlanNames
           \/ f[3] # Absent /\ f[3] \in DOMAIN before.items /\ f[2] \in ItemNames
    BY <1>2, <1>8, FieldIs
  <2>2. CASE f[3] = Absent /\ f[2] \in {"name", "formatIntent"}
    <3>1. after.settings = before.settings
      BY <1>8, <2>1, <2>2 DEF planField
    <3> QED BY <2>2, <3>1 DEF DeliveryValue
  <2>3. CASE f[3] = Absent /\ f[2] = "lifecycle"
    <3>1. after.lifecycle = before.lifecycle
      BY <1>8, <2>1, <2>3 DEF planField
    <3> QED BY <2>3, <3>1 DEF DeliveryValue
  <2>4. CASE f[3] = Absent /\ f[2] = "order"
    BY <2>4 DEF DeliveryValue
  <2>5. CASE f[3] # Absent
    BY <2>1, <2>5, ItemValueIs
  <2> QED BY <2>1, <2>2, <2>3, <2>4, <2>5 DEF PlanNames
<1>9. Change(d, before, after, names, affected, was, becomes)
  BY <1>3, <1>4, <1>5, <1>6, <1>7, <1>8 DEF Change
<1>10. DOMAIN after.items \subseteq {a} \cup DOMAIN before.items
  OBVIOUS
<1> DEFINE supersedes == supersededChoiceIds(before.heads, names)
<1>11. plan = deliveryPlan("delivery.mutate", d, names, was, becomes, supersedes, Absent,
                           [after EXCEPT !.revision = @ + 1, !.heads = withChoiceHeads(@, names, a)])
  BY DEF Changed, was, becomes
<1>12. a \notin DOMAIN choices
  BY DEF Authored
<1> HIDE DEF affected, supersedes
<1> QED BY <1>9, <1>10, <1>11, <1>12, ChangedPlan

LEMMA UpdateSettingsPlan ==
  ASSUME DeliveriesStand, NEW a, Authored(a), NEW in, requireExactPlan(in.plan), NEW plan \in planUpdateSettings(a, in)
  PROVE  DeliveryPlanned(a, plan)
<1> DEFINE d == in.plan[1]
           after == [deliveries[d] EXCEPT !.settings = in.settings]
           names == {planField(d, "name"), planField(d, "formatIntent")}
<1>1. in.settings \in Settings /\ plan \in Changed(a, d, after, names, {}, TRUE, FALSE)
  BY DEF planUpdateSettings
<1>2. d \in OpenDeliveries /\ PlansStand /\ PlanStands(choices, d, deliveries[d])
  BY DEF requireExactPlan, DeliveriesStand, PlansStand, OpenDeliveries
<1>3. DOMAIN deliveries[d] = PlanColumns /\ deliveries[d].lifecycle \in Lifecycles
  BY <1>2 DEF PlanStands, ContentStands
<1>4. /\ DOMAIN after = PlanColumns /\ after.revision = deliveries[d].revision /\ after.heads = deliveries[d].heads
      /\ after.protections = deliveries[d].protections /\ after.items = deliveries[d].items
      /\ after.settings = in.settings /\ after.lifecycle = deliveries[d].lifecycle
  BY <1>3 DEF PlanColumns
<1>5. names \subseteq {planField(d, n) : n \in {"name", "lifecycle", "formatIntent"}} /\ planField(d, "name") \in names /\ planField(d, "formatIntent") \in names
  OBVIOUS
<1> HIDE DEF after, names
<1> QED BY <1>1, <1>2, <1>3, <1>4, <1>5, SettingsPlan

LEMMA ShelvePlan ==
  ASSUME DeliveriesStand, NEW a, Authored(a), NEW in, requireExactPlan(in.plan), NEW plan \in planShelve(a, in)
  PROVE  DeliveryPlanned(a, plan)
<1> DEFINE d == in.plan[1]
           lifecycle == IF in.action = "archive" THEN "archived" ELSE "active"
           after == [deliveries[d] EXCEPT !.lifecycle = lifecycle]
           names == {planField(d, "lifecycle")}
<1>1. plan \in Changed(a, d, after, names, {}, TRUE, FALSE)
  BY DEF planShelve
<1>2. d \in OpenDeliveries /\ PlansStand /\ PlanStands(choices, d, deliveries[d])
  BY DEF requireExactPlan, DeliveriesStand, PlansStand, OpenDeliveries
<1>3. DOMAIN deliveries[d] = PlanColumns /\ deliveries[d].settings \in Settings /\ lifecycle \in Lifecycles
  BY <1>2 DEF PlanStands, ContentStands, Lifecycles
<1>4. /\ DOMAIN after = PlanColumns /\ after.revision = deliveries[d].revision /\ after.heads = deliveries[d].heads
      /\ after.protections = deliveries[d].protections /\ after.items = deliveries[d].items
      /\ after.settings = deliveries[d].settings /\ after.lifecycle = lifecycle
  BY <1>3 DEF PlanColumns
<1>5. names \subseteq {planField(d, n) : n \in {"name", "lifecycle", "formatIntent"}} /\ planField(d, "lifecycle") \in names
  OBVIOUS
<1> HIDE DEF after, names, lifecycle
<1> QED BY <1>1, <1>2, <1>3, <1>4, <1>5, SettingsPlan

\* A Delivery is created: it is empty, and its fields name the Choice that says so.
LEMMA EmptyStands ==
  ASSUME NEW a, NEW d, NEW settings \in Settings, NEW row,
         row = [revision |-> 0, settings |-> settings, lifecycle |-> "active", items |-> <<>>,
                heads |-> [f \in planFields(d) |-> a], protections |-> <<>>],
         NEW table, a \in DOMAIN table, table[a].effect = effectOf(d, row, {}, TRUE, TRUE)
  PROVE  PlanStands(table, d, row)
<1>1. /\ DOMAIN row = PlanColumns /\ row.revision = 0 /\ row.settings = settings /\ row.lifecycle = "active"
      /\ row.items = <<>> /\ row.heads = [f \in planFields(d) |-> a] /\ row.protections = <<>>
  BY DEF PlanColumns
<1>2. DOMAIN row.items = {} /\ DOMAIN row.protections = {}
  BY <1>1
<1>3. activeIds(row.items) = {}
  BY <1>2 DEF activeIds
<1>4. Numbered(row.items)
  <2>1. <<>> \in SetToSeqs({})
    <3>1. IsFiniteSet({}) /\ Cardinality({}) = 0
      BY FS_EmptySet
    <3> QED BY <3>1 DEF SetToSeqs
  <2>2. DOMAIN <<>> = {}
    OBVIOUS
  <2> QED BY <1>3, <2>1, <2>2 DEF Numbered
<1>5. ContentStands(row)
  <2>1. IsFiniteSet(DOMAIN row.items) /\ DOMAIN row.items \subseteq ItemIds
    BY <1>2, FS_EmptySet
  <2>2. row.items \in [DOMAIN row.items -> ItemRows]
    <3>1. row.items = <<>> /\ <<>> \in [{} -> ItemRows]
      BY <1>1
    <3> QED BY <1>2, <3>1
  <2> QED BY <1>1, <1>4, <2>1, <2>2 DEF ContentStands, Lifecycles
<1>6. deliveryFields(d, row.items) = planFields(d)
  BY <1>2 DEF deliveryFields
<1>7. ASSUME NEW f \in DOMAIN row.heads PROVE row.heads[f] \in DOMAIN table /\ FieldSays(row, table[row.heads[f]].effect, f)
  <2>1. row.heads[f] = a /\ f[3] = Absent /\ f[2] \in PlanNames
    BY <1>1, <1>7 DEF planFields, planField, Field, PlanNames
  <2> DEFINE effect == table[a].effect
  <2>2. effect.settings = settingsSnapshot(row) /\ effect.order = activeItems(row.items)
    BY DEF effectOf
  <2> HIDE DEF effect
  <2>3. FieldSays(row, effect, f)
    BY <2>1, <2>2, PlanFieldSays
  <2> QED BY <2>1, <2>3 DEF effect
<1>8. DOMAIN row.heads = planFields(d)
  BY <1>1
<1> HIDE DEF PlanStands
<1>9. DOMAIN row = PlanColumns /\ row.revision \in Nat
  BY <1>1
<1>10. DOMAIN row.heads = deliveryFields(d, row.items)
  BY <1>6, <1>8
<1> QED BY ONLY <1>2, <1>5, <1>7, <1>9, <1>10 DEF PlanStands

LEMMA CreateDeliveryPlan ==
  ASSUME NEW a, Authored(a), NEW in, NEW plan \in planCreate(a, in)
  PROVE  DeliveryPlanned(a, plan)
<1> DEFINE d == <<a>>
           names == planFields(d)
           row == [revision |-> 0, settings |-> in.settings, lifecycle |-> "active", items |-> <<>>,
                   heads |-> [f \in names |-> a], protections |-> <<>>]
           nothing == [kind |-> "delivery", delivery |-> d, settings |-> Absent, items |-> <<>>, order |-> Absent]
           effect == effectOf(d, row, {}, TRUE, TRUE)
           supersedes == {}
<1>1. /\ d \notin OpenDeliveries /\ in.settings \in Settings
      /\ plan = deliveryPlan("delivery.mutate", d, names, nothing, effect, supersedes, Absent, row)
  BY DEF planCreate
<1>2. d \in DeliveryIds
  BY DeliveryAssumption DEF Authored
<1>3. row.revision = 0
  OBVIOUS
<1>4. ASSUME NEW table, a \in DOMAIN table, table[a].effect = effect PROVE PlanStands(table, d, row)
  BY <1>1, <1>4, EmptyStands
<1> HIDE DEF row, nothing, effect, names, d, supersedes
<1>5. /\ plan.rows = <<>> /\ plan.plans = [p \in {d} |-> row] /\ plan.owner = Absent
      /\ plan.tool = "delivery.mutate" /\ plan.effect = effect /\ plan.undoes = Absent
  BY <1>1 DEF deliveryPlan
<1>6. DOMAIN plan.plans = {d} /\ plan.plans[d] = row
  BY <1>5
<1>7. DeliveryCreated(a, plan, d)
  BY <1>1, <1>2, <1>3, <1>4, <1>5, <1>6 DEF DeliveryCreated
<1> QED BY <1>7 DEF DeliveryPlanned

\* What a command about a Delivery plans.
LEMMA DeliveryMutationPlans ==
  ASSUME DeliveriesStand, NEW a, Authored(a), NEW in, NEW plan \in planDeliveryMutation(a, in)
  PROVE  DeliveryPlanned(a, plan)
<1>1. \/ plan \in planCreate(a, in)
      \/ /\ requireExactPlan(in.plan)
         /\ \/ plan \in planPlace(a, in) \/ plan \in planRemove(a, in) \/ plan \in planReorder(a, in)
            \/ plan \in planEditItem(a, in) \/ plan \in planUpdateSettings(a, in) \/ plan \in planShelve(a, in)
  BY Zenon DEF planDeliveryMutation
<1> QED BY <1>1, CreateDeliveryPlan, PlacePlan, RemovePlan, ReorderPlan, EditPlan, UpdateSettingsPlan, ShelvePlan

-----------------------------------------------------------------------------
\* What a protection plans for a Delivery.  A plan that stands does so in any table that holds the Choices.
LEMMA PlanStillStands ==
  ASSUME NEW table, Extends(table), NEW d, NEW plan, PlanStands(choices, d, plan)
  PROVE  PlanStands(table, d, plan)
<1>1. \A f \in DOMAIN plan.heads : plan.heads[f] \in DOMAIN table /\ FieldSays(plan, table[plan.heads[f]].effect, f)
  BY DEF PlanStands, Extends
<1>2. DOMAIN plan.items \cap Authors \subseteq DOMAIN table
  BY DEF PlanStands, Extends
<1> QED BY <1>1, <1>2 DEF PlanStands

\* A plan with the content and the heads of one that stands.
LEMMA SamePlanStands ==
  ASSUME NEW table, NEW d, NEW plan, PlanStands(table, d, plan), NEW other, DOMAIN other = PlanColumns,
         other.revision \in Nat, SameContent(plan, other), other.heads = plan.heads,
         DOMAIN other.protections \subseteq deliveryFields(d, plan.items)
  PROVE  PlanStands(table, d, other)
<1>1. other.items = plan.items /\ other.settings = plan.settings /\ other.lifecycle = plan.lifecycle
  BY DEF SameContent
<1>2. ContentStands(plan) /\ DOMAIN plan.items \subseteq ItemIds /\ DOMAIN plan.heads = deliveryFields(d, plan.items)
  BY DEF PlanStands, ContentStands
<1>3. ContentStands(other)
  BY <1>1, <1>2 DEF ContentStands
<1>4. ASSUME NEW f \in DOMAIN plan.heads PROVE FieldSays(other, table[plan.heads[f]].effect, f)
  <2>1. (f[3] # Absent /\ f[2] \in ItemNames) \/ (f[3] = Absent /\ f[2] \in PlanNames)
    BY <1>2, <1>4, FieldIs
  <2>2. FieldSays(plan, table[plan.heads[f]].effect, f)
    BY <1>4 DEF PlanStands
  <2>3. DeliveryValue(other, f) = DeliveryValue(plan, f)
    BY ValueOfContent
  <2> QED BY <2>1, <2>2, <2>3, SameValueSays
<1> QED BY <1>1, <1>3, <1>4 DEF PlanStands

\* A protection set, and removed again.
Flipped(was, becomes, protections, f) ==
  \/ was = TRUE /\ becomes = FALSE /\ f \in DOMAIN protections
  \/ was = FALSE /\ becomes = TRUE /\ f \notin DOMAIN protections
LEMMA ProtectionReturns ==
  ASSUME NEW protections, NEW f, NEW was, NEW becomes, Flipped(was, becomes, protections, f), NEW a, NEW b
  PROVE  DOMAIN WithProtection(WithProtection(protections, f, becomes, a), f, was, b) = DOMAIN protections
<1> DEFINE after == WithProtection(protections, f, becomes, a)
<1>1. CASE was = TRUE /\ becomes = FALSE /\ f \in DOMAIN protections
  <2>1. after = Without(protections, {f})
    BY <1>1 DEF WithProtection
  <2>2. WithProtection(after, f, was, b) = WithRow(after, f, b)
    BY <1>1 DEF WithProtection
  <2> QED BY <1>1, <2>1, <2>2 DEF WithRow, Without
<1>2. CASE was = FALSE /\ becomes = TRUE /\ f \notin DOMAIN protections
  <2>1. after = WithRow(protections, f, a)
    BY <1>2 DEF WithProtection
  <2>2. WithProtection(after, f, was, b) = Without(after, {f})
    BY <1>2 DEF WithProtection
  <2> QED BY <1>2, <2>1, <2>2 DEF WithRow, Without
<1> QED BY <1>1, <1>2 DEF Flipped

\* A field of a Delivery is protected or unprotected, by a decision or by an undo.
LEMMA FieldProtected ==
  ASSUME PlansStand, NEW a, NEW d \in OpenDeliveries, NEW f \in deliveryFields(d, deliveries[d].items),
         NEW was, NEW becomes, Flipped(was, becomes, deliveries[d].protections, f),
         NEW tool \in {"decision.record", "decision.protect"}, NEW before, NEW effect, NEW supersedes, NEW undoes, NEW row, NEW plan,
         before = ProtectionEffect(f, was), effect = ProtectionEffect(f, becomes),
         row = [deliveries[d] EXCEPT !.revision = @ + 1, !.protections = WithProtection(@, f, becomes, a)],
         plan = deliveryPlan(tool, d, {f}, before, effect, supersedes, undoes, row),
         undoes # Absent => undoes \in DOMAIN choices /\ ShownDelivery(row) = choices[undoes].seen
  PROVE  DeliveryPlanned(a, plan)
<1> DEFINE old == deliveries[d]
           after == WithProtection(old.protections, f, becomes, a)
<1>1. PlanStands(choices, d, old)
  BY DEF PlansStand, OpenDeliveries
<1>2. DOMAIN old = PlanColumns /\ old.revision \in Nat /\ DOMAIN old.protections \subseteq deliveryFields(d, old.items)
  BY <1>1 DEF PlanStands
<1>3. /\ DOMAIN row = PlanColumns /\ row.revision = old.revision + 1 /\ row.heads = old.heads
      /\ row.protections = after /\ SameContent(old, row)
  BY <1>2 DEF PlanColumns, SameContent
<1>4. \A g : g # f => (g \in DOMAIN after <=> g \in DOMAIN old.protections)
  BY DEF WithProtection, WithRow, Without, Flipped
<1>5. /\ plan.rows = <<>> /\ plan.plans = [p \in {d} |-> row] /\ plan.owner = deliveryRef(d) /\ plan.fields = {f}
      /\ plan.tool = tool /\ plan.active = Choosers(old.protections, {f}) /\ plan.before = before
      /\ plan.effect = effect /\ plan.undoes = undoes
  BY DEF deliveryPlan
<1>6. DOMAIN plan.plans = {d} /\ plan.plans[d] = row
  BY <1>5
<1>7. row.items = old.items /\ row.settings = old.settings /\ row.lifecycle = old.lifecycle
  BY <1>3 DEF SameContent
<1>8. \A g : DeliveryValue(row, g) = DeliveryValue(old, g)
  BY <1>3, ValueOfContent
<1>9. ASSUME NEW table, Extends(table) PROVE PlanStands(table, d, row)
  <2>1. PlanStands(table, d, old)
    BY <1>1, <1>9, PlanStillStands
  <2>2. DOMAIN row.protections \subseteq deliveryFields(d, old.items)
    BY <1>2, <1>3, <1>4
  <2>3. row.revision \in Nat
    BY <1>2, <1>3
  <2> QED BY <1>3, <2>1, <2>2, <2>3, SamePlanStands
<1>10. ASSUME NEW choice, choice.before = before, choice.effect = effect, choice.seen = ShownDelivery(old)
       PROVE  GoesBack(a, choice, d, row)
  <2>1. /\ before.field = f /\ before.active = was
    BY DEF ProtectionEffect
  <2> DEFINE undone == WithProtection(after, f, was, Absent)
             back == [row EXCEPT !.protections = WithProtection(@, choice.before.field, choice.before.active, Absent)]
  <2>2. back = [row EXCEPT !.protections = undone]
    BY <1>3, <1>10, <2>1
  <2>3. DOMAIN undone = DOMAIN old.protections
    BY ProtectionReturns
  <2> HIDE DEF undone, back
  <2>4. back.protections = undone /\ back.items = old.items /\ back.settings = old.settings /\ back.lifecycle = old.lifecycle
    BY <1>3, <1>7, <2>2 DEF PlanColumns
  <2>5. ShownDelivery(back) = ShownDelivery(old)
    BY <2>3, <2>4, ShownSame
  <2>6. Toggles(before, effect, deliveryFields(d, row.items))
    <3>1. CASE was = TRUE /\ becomes = FALSE
      <4>1. before = ProtectionEffect(f, TRUE) /\ effect = ProtectionEffect(f, ~TRUE)
        BY <3>1
      <4> QED BY ONLY <1>7, <4>1, f \in deliveryFields(d, deliveries[d].items) DEF Toggles, old
    <3>2. CASE was = FALSE /\ becomes = TRUE
      <4>1. before = ProtectionEffect(f, FALSE) /\ effect = ProtectionEffect(f, ~FALSE)
        BY <3>2
      <4> QED BY ONLY <1>7, <4>1, f \in deliveryFields(d, deliveries[d].items) DEF Toggles, old
    <3> QED BY <3>1, <3>2 DEF Flipped
  <2> QED BY <1>10, <2>5, <2>6 DEF GoesBack, back
<1>11. \A g \in DOMAIN old.protections \ DOMAIN row.protections : g \in plan.fields
  BY <1>3, <1>4, <1>5
<1>12. plan.tool # "production.mutate"
  BY <1>5
<1>13. row.revision = old.revision + 1 /\ d \in OpenDeliveries
  BY <1>3
<1>14. plan.undoes # Absent => plan.undoes \in DOMAIN choices /\ ShownDelivery(row) = choices[plan.undoes].seen
  BY <1>5
<1>15. plan.active = Choosers(old.protections, plan.fields)
  BY <1>5
<1>16. \A table : Extends(table) /\ a \in DOMAIN table /\ table[a].effect = plan.effect => PlanStands(table, d, row)
  BY <1>9
<1>17. \A choice : choice.before = plan.before /\ choice.effect = plan.effect /\ choice.seen = ShownDelivery(old) =>
         GoesBack(a, choice, d, row)
  BY <1>5, <1>10
<1>18. DeliveryRevised(a, plan, d)
  BY ONLY <1>5, <1>6, <1>8, <1>11, <1>12, <1>13, <1>14, <1>15, <1>16, <1>17 DEF DeliveryRevised
<1> QED BY <1>18 DEF DeliveryPlanned

LEMMA DeliveryProtectPlan ==
  ASSUME PlansStand, NEW a, NEW in, NEW plan \in planDeliveryProtectionDecisionMutation(a, in)
  PROVE  DeliveryPlanned(a, plan)
<1> DEFINE d == in.owner[1]
           was == in.field \in DOMAIN deliveries[d].protections
           becomes == ~was
           before == ProtectionEffect(in.field, was)
           effect == ProtectionEffect(in.field, becomes)
           supersedes == Choosers(deliveries[d].protections, {in.field})
           row == [deliveries[d] EXCEPT !.revision = @ + 1, !.protections = WithProtection(@, in.field, becomes, a)]
           f == in.field
           undoes == Absent
<1>1. /\ d \in OpenDeliveries /\ f \in deliveryFields(d, deliveries[d].items)
      /\ plan = deliveryPlan("decision.protect", d, {f}, before, effect, supersedes, undoes, row)
  BY DEF planDeliveryProtectionDecisionMutation, requireExactPlan
<1>2. /\ before = ProtectionEffect(f, was) /\ effect = ProtectionEffect(f, becomes) /\ undoes = Absent
      /\ row = [deliveries[d] EXCEPT !.revision = @ + 1, !.protections = WithProtection(@, f, becomes, a)]
  OBVIOUS
<1>4. Flipped(was, becomes, deliveries[d].protections, f)
  BY DEF Flipped
<1> DEFINE tool == "decision.protect"
<1>3. tool \in {"decision.record", "decision.protect"} /\ plan = deliveryPlan(tool, d, {f}, before, effect, supersedes, undoes, row)
  BY <1>1
<1> HIDE DEF d, f, was, becomes, before, effect, supersedes, row, undoes, tool
<1> QED BY <1>1, <1>2, <1>3, <1>4, FieldProtected

-----------------------------------------------------------------------------
\* What an undo plans for a Delivery.  A Delivery is restored in one way, and keeps its items.
LEMMA RestoredOne ==
  ASSUME NEW plan, NEW effect, NEW was \in restoreDeliveryEffect(plan, effect), NEW other \in restoreDeliveryEffect(plan, effect)
  PROVE  was = other
BY DEF restoreDeliveryEffect

LEMMA RestoredKeeps ==
  ASSUME NEW plan, DOMAIN plan = PlanColumns, NEW effect, NEW was \in restoreDeliveryEffect(plan, effect)
  PROVE  DOMAIN was.items = DOMAIN plan.items
<1>1. was.items = (IF effect.order = Absent THEN restoredItems(plan, effect)
                   ELSE Renumbered(restoredItems(plan, effect), effect.order))
  BY RestoreIs
<1>2. DOMAIN restoredItems(plan, effect) = DOMAIN plan.items
  BY DEF restoredItems
<1>3. DOMAIN Renumbered(restoredItems(plan, effect), effect.order) = DOMAIN restoredItems(plan, effect)
  BY DEF Renumbered
<1> QED BY <1>1, <1>2, <1>3

\* Of what a Choice has restored, the record leads back too.
LEMMA UndoReturns ==
  ASSUME NEW d, NEW plan, PlanStands(choices, d, plan), NEW c \in DOMAIN choices,
         NEW was \in restoreDeliveryEffect(plan, choices[c].before),
         \E again \in restoreDeliveryEffect(was, choices[c].effect) : SameContent(again, plan),
         \A f \in DOMAIN plan.heads : plan.heads[f] # c => DeliveryValue(was, f) = DeliveryValue(plan, f),
         NEW a, a \notin DOMAIN choices, NEW row, DOMAIN row = PlanColumns, SameContent(was, row),
         row.protections = plan.protections, DOMAIN row.heads = DOMAIN plan.heads,
         \A f \in DOMAIN plan.heads : row.heads[f] = IF plan.heads[f] = c THEN a ELSE plan.heads[f],
         NEW choice, choice.before = choices[c].effect, choice.effect = choices[c].before, choice.seen = ShownDelivery(plan)
  PROVE  Returns(a, choice, row)
<1>1. /\ DOMAIN plan = PlanColumns /\ ContentStands(plan) /\ DOMAIN plan.items \subseteq ItemIds
      /\ DOMAIN plan.heads = deliveryFields(d, plan.items)
      /\ \A f \in DOMAIN plan.heads : plan.heads[f] \in DOMAIN choices /\ FieldSays(plan, choices[plan.heads[f]].effect, f)
  BY DEF PlanStands, ContentStands
<1>2. DOMAIN was = PlanColumns
  BY <1>1, RestoreIs
<1>3. PICK again \in restoreDeliveryEffect(was, choices[c].effect) : SameContent(again, plan)
  OBVIOUS
<1>4. PICK back \in restoreDeliveryEffect(row, choices[c].effect) :
        SameContent(back, again) /\ back.heads = row.heads /\ back.protections = row.protections
  BY <1>2, <1>3, RestoreSame
<1>5. SameContent(back, plan) /\ SameContent(plan, back) /\ DOMAIN back = PlanColumns
  BY <1>3, <1>4, RestoreIs DEF SameContent
<1>6. back.items = plan.items /\ back.settings = plan.settings /\ back.lifecycle = plan.lifecycle
  BY <1>5 DEF SameContent
<1>7. ContentStands(back)
  BY <1>1, <1>6 DEF ContentStands
<1>8. ShownDelivery(back) = ShownDelivery(plan)
  BY <1>4, <1>6, ShownSame
<1>9. \E redone \in restoreDeliveryEffect(back, choices[c].before) : SameContent(redone, row)
  <2>1. PICK redone \in restoreDeliveryEffect(back, choices[c].before) : SameContent(redone, was)
    BY <1>1, <1>5, RestoreSame
  <2>2. SameContent(redone, row)
    BY <2>1 DEF SameContent
  <2> QED BY <2>2
<1>10. ASSUME NEW f \in DOMAIN row.heads
       PROVE  IF row.heads[f] = a THEN FieldSays(back, choices[c].effect, f) ELSE DeliveryValue(back, f) = DeliveryValue(row, f)
  <2>1. DeliveryValue(back, f) = DeliveryValue(plan, f) /\ DeliveryValue(was, f) = DeliveryValue(row, f)
    BY <1>5, ValueOfContent
  <2>2. CASE plan.heads[f] = c
    <3>1. (f[3] # Absent /\ f[2] \in ItemNames) \/ (f[3] = Absent /\ f[2] \in PlanNames)
      BY <1>1, FieldIs
    <3>2. FieldSays(plan, choices[c].effect, f)
      BY <1>1, <2>2
    <3>3. FieldSays(back, choices[c].effect, f)
      BY <2>1, <3>1, <3>2, SameValueSays
    <3> QED BY <2>2, <3>3
  <2>3. CASE plan.heads[f] # c
    <3>1. row.heads[f] # a
      BY <1>1, <2>3
    <3> QED BY <2>1, <2>3, <3>1
  <2> QED BY <2>2, <2>3
<1> QED BY <1>4, <1>7, <1>8, <1>9, <1>10 DEF Returns

\* And what it has restored stands.
LEMMA UndoStands ==
  ASSUME NEW d, NEW plan, PlanStands(choices, d, plan), NEW c \in DOMAIN choices,
         NEW was, DOMAIN was.items = DOMAIN plan.items, ContentStands(was),
         \A f \in DOMAIN plan.heads :
           IF plan.heads[f] = c THEN FieldSays(was, choices[c].before, f) ELSE DeliveryValue(was, f) = DeliveryValue(plan, f),
         NEW a, NEW row, DOMAIN row = PlanColumns, SameContent(was, row), row.revision \in Nat,
         row.protections = plan.protections, DOMAIN row.heads = DOMAIN plan.heads,
         \A f \in DOMAIN plan.heads : row.heads[f] = IF plan.heads[f] = c THEN a ELSE plan.heads[f],
         NEW table, Extends(table), a \in DOMAIN table, table[a].effect = choices[c].before
  PROVE  PlanStands(table, d, row)
<1>1. /\ DOMAIN plan.items \subseteq ItemIds /\ DOMAIN plan.items \cap Authors \subseteq DOMAIN choices
      /\ DOMAIN plan.heads = deliveryFields(d, plan.items) /\ DOMAIN plan.protections \subseteq deliveryFields(d, plan.items)
      /\ \A f \in DOMAIN plan.heads : plan.heads[f] \in DOMAIN choices /\ FieldSays(plan, choices[plan.heads[f]].effect, f)
  BY DEF PlanStands, ContentStands
<1>2. row.items = was.items /\ row.settings = was.settings /\ row.lifecycle = was.lifecycle
  BY DEF SameContent
<1>3. ContentStands(row)
  BY <1>2 DEF ContentStands
<1>4. deliveryFields(d, row.items) = deliveryFields(d, plan.items)
  BY <1>2 DEF deliveryFields
<1>5. ASSUME NEW f \in DOMAIN plan.heads PROVE row.heads[f] \in DOMAIN table /\ FieldSays(row, table[row.heads[f]].effect, f)
  <2>1. (f[3] # Absent /\ f[2] \in ItemNames) \/ (f[3] = Absent /\ f[2] \in PlanNames)
    BY <1>1, FieldIs
  <2>2. DeliveryValue(row, f) = DeliveryValue(was, f)
    BY ValueOfContent
  <2>3. CASE plan.heads[f] = c
    <3>1. FieldSays(row, choices[c].before, f)
      BY <2>1, <2>2, <2>3, SameValueSays
    <3> QED BY <2>3, <3>1
  <2>4. CASE plan.heads[f] # c
    <3>1. FieldSays(plan, choices[plan.heads[f]].effect, f) /\ DeliveryValue(row, f) = DeliveryValue(plan, f)
      BY <1>1, <2>2, <2>4
    <3>2. FieldSays(row, choices[plan.heads[f]].effect, f)
      BY <2>1, <3>1, SameValueSays
    <3> QED BY <1>1, <2>4, <3>2 DEF Extends
  <2> QED BY <2>3, <2>4
<1>6. DOMAIN row.items \cap Authors \subseteq DOMAIN table
  BY <1>1, <1>2 DEF Extends
<1> QED BY <1>1, <1>3, <1>4, <1>5, <1>6 DEF PlanStands

\* A Choice about a Delivery is undone: its content comes back.
LEMMA UndoContentPlan ==
  ASSUME PlansStand, NEW a, a \notin DOMAIN choices, NEW d \in OpenDeliveries, NEW c \in DOMAIN choices,
         choices[c].before.kind = "delivery", choices[c].effect.kind = "delivery", Returns(c, choices[c], deliveries[d]),
         NEW fields, fields = currentDeliveryChoiceFields(deliveries[d], c),
         NEW was \in restoreDeliveryEffect(deliveries[d], choices[c].before),
         NEW supersedes, NEW row, row = [was EXCEPT !.revision = @ + 1, !.heads = withChoiceHeads(@, fields, a)],
         NEW plan, plan = deliveryPlan("decision.record", d, fields, choices[c].effect, choices[c].before, supersedes, c, row)
  PROVE  DeliveryPlanned(a, plan)
<1> DEFINE old == deliveries[d]
<1>1. PlanStands(choices, d, old)
  BY DEF PlansStand, OpenDeliveries
<1>2. DOMAIN old = PlanColumns /\ old.revision \in Nat /\ DOMAIN old.heads = deliveryFields(d, old.items)
  BY <1>1 DEF PlanStands
<1>3. /\ ContentStands(was) /\ ShownDelivery(was) = choices[c].seen
      /\ \E again \in restoreDeliveryEffect(was, choices[c].effect) : SameContent(again, old)
      /\ \A f \in DOMAIN old.heads :
           IF old.heads[f] = c THEN FieldSays(was, choices[c].before, f) ELSE DeliveryValue(was, f) = DeliveryValue(old, f)
  <2>1. PICK other \in restoreDeliveryEffect(old, choices[c].before) :
          /\ ContentStands(other) /\ ShownDelivery(other) = choices[c].seen
          /\ \E again \in restoreDeliveryEffect(other, choices[c].effect) : SameContent(again, old)
          /\ \A f \in DOMAIN old.heads :
               IF old.heads[f] = c THEN FieldSays(other, choices[c].before, f) ELSE DeliveryValue(other, f) = DeliveryValue(old, f)
    BY DEF Returns
  <2>2. other = was
    BY <2>1, RestoredOne
  <2> QED BY <2>1, <2>2
<1>4. /\ DOMAIN was = PlanColumns /\ was.revision = old.revision /\ was.heads = old.heads /\ was.protections = old.protections
      /\ DOMAIN was.items = DOMAIN old.items
  BY <1>2, RestoreIs, RestoredKeeps
<1>5. /\ DOMAIN row = PlanColumns /\ row.revision = old.revision + 1 /\ row.heads = withChoiceHeads(old.heads, fields, a)
      /\ row.protections = old.protections /\ SameContent(was, row)
  BY <1>4 DEF PlanColumns, SameContent
<1>6. /\ DOMAIN row.heads = DOMAIN old.heads
      /\ \A f \in DOMAIN old.heads : row.heads[f] = IF old.heads[f] = c THEN a ELSE old.heads[f]
  BY <1>5 DEF withChoiceHeads, currentDeliveryChoiceFields
<1>7. /\ plan.rows = <<>> /\ plan.plans = [p \in {d} |-> row] /\ plan.owner = deliveryRef(d) /\ plan.fields = fields
      /\ plan.tool = "decision.record" /\ plan.active = Choosers(old.protections, fields) /\ plan.before = choices[c].effect
      /\ plan.effect = choices[c].before /\ plan.undoes = c
  BY DEF deliveryPlan
<1>8. DOMAIN plan.plans = {d} /\ plan.plans[d] = row
  BY <1>7
<1>9. ASSUME NEW f \in deliveryFields(d, old.items), DeliveryValue(row, f) # DeliveryValue(old, f) PROVE f \in plan.fields
  <2>1. DeliveryValue(row, f) = DeliveryValue(was, f)
    BY <1>5, ValueOfContent
  <2>2. old.heads[f] = c
    BY <1>2, <1>3, <1>9, <2>1
  <2> QED BY <1>2, <1>7, <1>9, <2>2 DEF currentDeliveryChoiceFields
<1>10. row.revision \in Nat
  BY <1>2, <1>5
<1> HIDE DEF old
<1>11. ASSUME NEW table, Extends(table), a \in DOMAIN table, table[a].effect = plan.effect PROVE PlanStands(table, d, row)
  <2>1. table[a].effect = choices[c].before
    BY <1>7, <1>11
  <2>2. c \in DOMAIN choices
    OBVIOUS
  <2> QED BY ONLY <1>1, <1>3, <1>4, <1>5, <1>6, <1>10, <1>11, <2>1, <2>2, UndoStands
<1>12. ASSUME NEW choice, choice.before = plan.before, choice.effect = plan.effect, choice.seen = ShownDelivery(old)
       PROVE  GoesBack(a, choice, d, row)
  <2>1. choice.before = choices[c].effect /\ choice.effect = choices[c].before
    BY <1>7, <1>12
  <2>2. was \in restoreDeliveryEffect(old, choices[c].before)
    BY DEF old
  <2>3. \A f \in DOMAIN old.heads : old.heads[f] # c => DeliveryValue(was, f) = DeliveryValue(old, f)
    BY <1>3
  <2>4. Returns(a, choice, row)
    <3>1. c \in DOMAIN choices /\ a \notin DOMAIN choices
      OBVIOUS
    <3>2. choice.seen = ShownDelivery(old)
      BY <1>12
    <3> QED BY ONLY <1>1, <1>3, <1>5, <1>6, <2>1, <2>2, <2>3, <3>1, <3>2, UndoReturns
  <2> QED BY <2>1, <2>4 DEF GoesBack
<1>13. ShownDelivery(row) = choices[c].seen
  <2>1. row.settings = was.settings /\ row.lifecycle = was.lifecycle /\ row.items = was.items
    BY <1>5 DEF SameContent
  <2>2. ShownDelivery(row) = ShownDelivery(was)
    BY <1>4, <1>5, <2>1, ShownSame
  <2> QED BY <1>3, <2>2
<1>14. \A f \in DOMAIN old.protections \ DOMAIN row.protections : f \in plan.fields
  BY <1>5
<1>15. row.revision = old.revision + 1 /\ d \in OpenDeliveries
  BY <1>5
<1>16. plan.undoes # Absent => plan.undoes \in DOMAIN choices /\ ShownDelivery(row) = choices[plan.undoes].seen
  BY <1>7, <1>13
<1>17. plan.active = Choosers(old.protections, plan.fields) /\ plan.tool # "production.mutate"
  BY <1>7
<1>18. \A table : Extends(table) /\ a \in DOMAIN table /\ table[a].effect = plan.effect => PlanStands(table, d, row)
  BY <1>11
<1>19. \A choice : choice.before = plan.before /\ choice.effect = plan.effect /\ choice.seen = ShownDelivery(old) =>
         GoesBack(a, choice, d, row)
  BY <1>12
<1>20. \A f \in deliveryFields(d, old.items) : DeliveryValue(row, f) # DeliveryValue(old, f) => f \in plan.fields
  BY <1>9
<1>21. DeliveryRevised(a, plan, d)
  BY ONLY <1>7, <1>8, <1>14, <1>15, <1>16, <1>17, <1>18, <1>19, <1>20 DEF DeliveryRevised, old
<1> QED BY <1>21 DEF DeliveryPlanned

LEMMA DeliveryUndoPlan ==
  ASSUME PlansStand, ChoicesStand, NEW a, a \notin DOMAIN choices, NEW in, NEW plan \in planDeliveryUndoDecisionMutation(a, in)
  PROVE  DeliveryPlanned(a, plan)
<1> DEFINE d == in.owner[1]
           c == in.target
           target == choices[c]
           old == deliveries[d]
           supersedes == {c}
<1>1. c \in DOMAIN choices /\ target.ownerBefore # Absent /\ target.ownerAfter = in.owner /\ requireExactPlan(in.owner)
  BY DEF planDeliveryUndoDecisionMutation
<1>2. d \in OpenDeliveries /\ d \in DeliveryIds /\ target.ownerAfter[1] = d /\ target.ownerAfter[2] = old.revision
  BY <1>1 DEF requireExactPlan, PlansStand, OpenDeliveries
<1>3. DeliveryChoiceStands(c, target, deliveries)
  BY <1>1, <1>2 DEF ChoicesStand, ChoiceStands
<1>4. \/ /\ Toggles(target.before, target.effect, deliveryFields(d, old.items))
         /\ target.seen = ShownDelivery([old EXCEPT !.protections =
                                           WithProtection(@, target.before.field, target.before.active, Absent)])
      \/ target.before.kind = "delivery" /\ target.effect.kind = "delivery" /\ Returns(c, target, old)
  BY <1>1, <1>2, <1>3 DEF DeliveryChoiceStands
<1>5. CASE target.before.kind = "delivery" /\ target.effect.kind = "delivery" /\ Returns(c, target, old)
  <2> DEFINE fields == currentDeliveryChoiceFields(old, c)
  <2>1. PICK was \in restoreDeliveryEffect(old, target.before) :
          plan = deliveryPlan("decision.record", d, fields, target.effect, target.before, {c}, c,
                   [[was EXCEPT !.heads = withChoiceHeads(@, fields, a)] EXCEPT !.revision = @ + 1])
    BY <1>5 DEF planDeliveryUndoDecisionMutation
  <2>2. DOMAIN was = PlanColumns
    <3>1. DOMAIN old = PlanColumns
      BY <1>2 DEF PlansStand, OpenDeliveries, PlanStands
    <3> QED BY <3>1, RestoreIs
  <2> DEFINE row == [was EXCEPT !.revision = @ + 1, !.heads = withChoiceHeads(@, fields, a)]
  <2>3. row = [[was EXCEPT !.heads = withChoiceHeads(@, fields, a)] EXCEPT !.revision = @ + 1]
    <3> DEFINE heads == withChoiceHeads(was.heads, fields, a)
               revision == was.revision + 1
    <3>1. /\ row = [was EXCEPT !.revision = revision, !.heads = heads]
          /\ [[was EXCEPT !.heads = withChoiceHeads(@, fields, a)] EXCEPT !.revision = @ + 1]
               = [[was EXCEPT !.heads = heads] EXCEPT !.revision = revision]
      BY <2>2 DEF PlanColumns
    <3> HIDE DEF heads, revision, row, fields
    <3> QED BY <2>2, <3>1 DEF PlanColumns
  <2>4. plan = deliveryPlan("decision.record", d, fields, target.effect, target.before, supersedes, c, row)
    BY <2>1, <2>3
  <2>5. fields = currentDeliveryChoiceFields(deliveries[d], c) /\ row = [was EXCEPT !.revision = @ + 1, !.heads = withChoiceHeads(@, fields, a)]
    OBVIOUS
  <2> HIDE DEF row, fields, supersedes, c, d
  <2>6. PlansStand /\ a \notin DOMAIN choices
    OBVIOUS
  <2>7. was \in restoreDeliveryEffect(deliveries[d], choices[c].before)
    OBVIOUS
  <2> QED BY ONLY <1>1, <1>2, <1>5, <2>4, <2>5, <2>6, <2>7, UndoContentPlan
<1>6. CASE /\ Toggles(target.before, target.effect, deliveryFields(d, old.items))
           /\ target.seen = ShownDelivery([old EXCEPT !.protections =
                                             WithProtection(@, target.before.field, target.before.active, Absent)])
  <2>1. PICK f \in deliveryFields(d, old.items), active \in BOOLEAN :
          target.before = ProtectionEffect(f, active) /\ target.effect = ProtectionEffect(f, ~active)
    BY <1>6 DEF Toggles
  <2>2. /\ target.before.kind = "protection" /\ target.before.field = f /\ target.before.active = active
        /\ target.effect.kind = "protection" /\ target.effect.field = f /\ target.effect.active = ~active
    BY <2>1 DEF ProtectionEffect
  <2> DEFINE after == WithProtection(old.protections, f, active, a)
             row == [old EXCEPT !.revision = @ + 1, !.protections = after]
  <2>3. /\ plan = deliveryPlan("decision.record", d, {f}, target.effect, target.before, supersedes, c, row)
        /\ (~active) = (f \in DOMAIN old.protections)
    BY <2>2 DEF planDeliveryUndoDecisionMutation
  <2>4. DOMAIN old = PlanColumns
    BY <1>2 DEF PlansStand, OpenDeliveries, PlanStands
  <2>5. ShownDelivery(row) = target.seen
    <3> DEFINE bare == WithProtection(old.protections, f, active, Absent)
               back == [old EXCEPT !.protections = bare]
    <3>1. target.seen = ShownDelivery(back)
      BY <1>6, <2>2, <2>4 DEF PlanColumns
    <3>2. DOMAIN after = DOMAIN bare
      <4>1. CASE active
        BY <4>1 DEF WithProtection, WithRow
      <4>2. CASE ~active
        BY <4>2 DEF WithProtection, Without
      <4> QED BY <4>1, <4>2
    <3> HIDE DEF after, bare
    <3>3. /\ row.items = old.items /\ row.settings = old.settings /\ row.lifecycle = old.lifecycle /\ row.protections = after
          /\ back.items = old.items /\ back.settings = old.settings /\ back.lifecycle = old.lifecycle /\ back.protections = bare
      BY <2>4 DEF PlanColumns
    <3> HIDE DEF row, back
    <3> QED BY <3>1, <3>2, <3>3, ShownSame
  <2> DEFINE was == ~active
             becomes == active
             tool == "decision.record"
  <2>6. Flipped(was, becomes, old.protections, f)
    BY <2>3 DEF Flipped
  <2>7. /\ target.effect = ProtectionEffect(f, was) /\ tool \in {"decision.record", "decision.protect"}
        /\ row = [old EXCEPT !.revision = @ + 1, !.protections = WithProtection(@, f, becomes, a)] /\ target.before = ProtectionEffect(f, becomes)
        /\ plan = deliveryPlan(tool, d, {f}, target.effect, target.before, supersedes, c, row)
    BY <2>1, <2>3, <2>4 DEF PlanColumns
  <2> HIDE DEF row, after, was, becomes, tool, supersedes, c, d
  <2>8. PlansStand /\ f \in deliveryFields(d, old.items)
    OBVIOUS
  <2>9. c # Absent => c \in DOMAIN choices /\ ShownDelivery(row) = choices[c].seen
    BY <1>1, <2>5
  <2>10. d \in OpenDeliveries /\ Flipped(was, becomes, deliveries[d].protections, f)
    BY <1>2, <2>6
  <2>11. row = [deliveries[d] EXCEPT !.revision = @ + 1, !.protections = WithProtection(@, f, becomes, a)]
    BY <2>7
  <2> DEFINE then == target.effect
             effect == target.before
  <2>12. /\ then = ProtectionEffect(f, was) /\ effect = ProtectionEffect(f, becomes)
         /\ tool \in {"decision.record", "decision.protect"}
         /\ plan = deliveryPlan(tool, d, {f}, then, effect, supersedes, c, row)
    BY <2>7
  <2>13. f \in deliveryFields(d, deliveries[d].items)
    OBVIOUS
  <2> HIDE DEF then, effect
  <2> QED BY ONLY <2>8, <2>9, <2>10, <2>11, <2>12, <2>13, FieldProtected
<1> QED BY <1>4, <1>5, <1>6

-----------------------------------------------------------------------------
\* What any protected mutation plans.
LEMMA DeliveryTool ==
  ASSUME NEW a, NEW in, NEW plan \in planDeliveryMutation(a, in)
  PROVE  plan.tool = "delivery.mutate"
<1>1. \A d, fields, before, effect, supersedes, undoes, row :
        deliveryPlan("delivery.mutate", d, fields, before, effect, supersedes, undoes, row).tool = "delivery.mutate"
  BY DEF deliveryPlan
<1>2. \A d, after, names, affected, settings, order : \A p \in Changed(a, d, after, names, affected, settings, order) : p.tool = "delivery.mutate"
  BY <1>1 DEF Changed
<1>3. \A p \in planCreate(a, in) : p.tool = "delivery.mutate"
  BY <1>1 DEF planCreate
<1>4. \A p \in planPlace(a, in) : p.tool = "delivery.mutate"
  BY <1>2 DEF planPlace
<1>5. \A p \in planRemove(a, in) : p.tool = "delivery.mutate"
  BY <1>2 DEF planRemove
<1>6. \A p \in planReorder(a, in) : p.tool = "delivery.mutate"
  BY <1>2 DEF planReorder
<1>7. ASSUME NEW p \in planEditItem(a, in) PROVE p.tool = "delivery.mutate"
  <2> DEFINE d == in.plan[1]
             after == [deliveries[d] EXCEPT !.items[in.item][in.field] = in.value]
             names == {itemField(d, in.item, in.field)}
             affected == {in.item}
  <2>1. p \in Changed(a, d, after, names, affected, FALSE, FALSE)
    BY DEF planEditItem
  <2> HIDE DEF d, after, names, affected
  <2> QED BY <1>2, <2>1
<1>8. ASSUME NEW p \in planUpdateSettings(a, in) PROVE p.tool = "delivery.mutate"
  <2> DEFINE d == in.plan[1]
             after == [deliveries[d] EXCEPT !.settings = in.settings]
             names == {planField(d, "name"), planField(d, "formatIntent")}
             affected == {}
  <2>1. p \in Changed(a, d, after, names, affected, TRUE, FALSE)
    BY DEF planUpdateSettings
  <2> HIDE DEF d, after, names, affected
  <2> QED BY <1>2, <2>1
<1>9. ASSUME NEW p \in planShelve(a, in) PROVE p.tool = "delivery.mutate"
  <2> DEFINE d == in.plan[1]
             lifecycle == IF in.action = "archive" THEN "archived" ELSE "active"
             after == [deliveries[d] EXCEPT !.lifecycle = lifecycle]
             names == {planField(d, "lifecycle")}
             affected == {}
  <2>1. p \in Changed(a, d, after, names, affected, TRUE, FALSE)
    BY DEF planShelve
  <2> HIDE DEF d, after, names, affected
  <2> QED BY <1>2, <2>1
<1>10. \/ plan \in planCreate(a, in) \/ plan \in planPlace(a, in) \/ plan \in planRemove(a, in) \/ plan \in planReorder(a, in)
       \/ plan \in planEditItem(a, in) \/ plan \in planUpdateSettings(a, in) \/ plan \in planShelve(a, in)
  BY Zenon DEF planDeliveryMutation
<1> QED BY <1>3, <1>4, <1>5, <1>6, <1>7, <1>8, <1>9, <1>10

Stands == ObjectsStand /\ DecisionRows /\ PlansStand /\ ChoicesStand /\ MediaRows
LEMMA ProtectedPlans ==
  ASSUME Stands, NEW a \in Authors, NEW in, NEW plan \in planProtectedMutation(a, in),
         plan.tool # "production.mutate" => a \notin DOMAIN choices
  PROVE  /\ in.tool = "production.mutate" => ProductionPlanned(a, plan)
         /\ in.tool # "production.mutate" => ObjectDecided(a, plan) \/ DeliveryPlanned(a, plan)
<1>1. ObjectsStand /\ DecisionRows /\ PlansStand /\ ChoicesStand /\ DeliveriesStand
  BY DEF Stands, DeliveriesStand
<1>2. CASE in.tool = "production.mutate"
  <2>1. plan \in planProductionMutation(a, in)
    BY <1>2 DEF planProtectedMutation
  <2> QED BY <1>1, <1>2, <2>1, ProductionPlans
<1>3. CASE in.tool = "delivery.mutate"
  <2>1. plan \in planDeliveryMutation(a, in)
    BY <1>3 DEF planProtectedMutation
  <2>2. Authored(a)
    BY <2>1, DeliveryTool DEF Authored
  <2> QED BY <1>1, <1>3, <2>1, <2>2, DeliveryMutationPlans
<1>4. CASE in.tool \notin {"production.mutate", "delivery.mutate"}
  <2>1. \/ plan \in planProductionProtectionDecisionMutation(a, in) \/ plan \in planDeliveryProtectionDecisionMutation(a, in)
        \/ plan \in planProductionResultDecisionMutation(a, in) \/ plan \in planProductionUndoDecisionMutation(a, in)
        \/ plan \in planDeliveryUndoDecisionMutation(a, in)
    BY <1>4, Zenon DEF planProtectedMutation
  <2>2. CASE plan \in planDeliveryUndoDecisionMutation(a, in)
    <3>1. plan.tool = "decision.record"
      <4>1. \A d, fields, before, effect, supersedes, undoes, row :
              deliveryPlan("decision.record", d, fields, before, effect, supersedes, undoes, row).tool = "decision.record"
        BY DEF deliveryPlan
      <4> DEFINE d == in.owner[1]
                 target == choices[in.target]
                 old == deliveries[d]
                 field == target.effect.field
                 fields == currentDeliveryChoiceFields(old, in.target)
      <4>2. CASE target.effect.kind = "delivery"
        <5>1. PICK was \in restoreDeliveryEffect(old, target.before) :
                plan = deliveryPlan("decision.record", d, fields, target.effect, target.before, {in.target}, in.target,
                         [[was EXCEPT !.heads = withChoiceHeads(@, fields, a)] EXCEPT !.revision = @ + 1])
          BY <2>2, <4>2 DEF planDeliveryUndoDecisionMutation
        <5> DEFINE row == [[was EXCEPT !.heads = withChoiceHeads(@, fields, a)] EXCEPT !.revision = @ + 1]
                   supersedes == {in.target}
        <5>2. plan = deliveryPlan("decision.record", d, fields, target.effect, target.before, supersedes, in.target, row)
          BY <5>1
        <5> HIDE DEF row, supersedes, fields, d
        <5> QED BY <4>1, <5>2
      <4>3. CASE target.effect.kind # "delivery"
        <5> DEFINE row == [[old EXCEPT !.protections = WithProtection(@, field, target.before.active, a)] EXCEPT !.revision = @ + 1]
                   supersedes == {in.target}
                   only == {field}
        <5>1. plan = deliveryPlan("decision.record", d, only, target.effect, target.before, supersedes, in.target, row)
          BY <2>2, <4>3 DEF planDeliveryUndoDecisionMutation
        <5> HIDE DEF row, supersedes, only, d
        <5> QED BY <4>1, <5>1
      <4> QED BY <4>2, <4>3
    <3>2. a \notin DOMAIN choices
      BY <3>1
    <3> QED BY <1>1, <1>4, <2>2, <3>2, DeliveryUndoPlan
  <2> QED BY <1>1, <1>4, <2>1, <2>2, ProtectPlan, DeliveryProtectPlan, DecidePlan, UndoPlan
<1> QED BY <1>2, <1>3, <1>4

\* A Choice stands while nothing else happens to what it is about, and after that too.
LEMMA ObjectChoiceStillStands ==
  ASSUME NEW choice, NEW old, NEW new, ObjectChoiceStands(choice, old), DOMAIN old \subseteq DOMAIN new,
         \A o \in DOMAIN old : old[o].revision \in Nat,
         \A o \in DOMAIN old : new[o] = old[o] \/ new[o].revision = old[o].revision + 1
  PROVE  ObjectChoiceStands(choice, new)
<1> DEFINE o == choice.ownerAfter[1]
<1>1. o \in DOMAIN old /\ choice.ownerAfter[2] \in Nat /\ choice.ownerAfter[2] <= old[o].revision
  BY DEF ObjectChoiceStands
<1>2. CASE new[o] = old[o]
  <2>1. /\ \/ Redecides(choice.before, choice.effect, o)
           \/ Toggles(choice.before, choice.effect, ProductionProtectedFields(o))
        /\ SelectedOnce(choice.seen[1])
        /\ choice.ownerAfter[2] = old[o].revision => ShownObject(applyUndoEffect(old[o], choice.before, Absent)) = choice.seen
    BY DEF ObjectChoiceStands
  <2> QED BY <1>1, <1>2, <2>1 DEF ObjectChoiceStands
<1>3. CASE new[o].revision = old[o].revision + 1
  <2>1. /\ \/ Redecides(choice.before, choice.effect, o)
           \/ Toggles(choice.before, choice.effect, ProductionProtectedFields(o))
        /\ SelectedOnce(choice.seen[1])
    BY DEF ObjectChoiceStands
  <2>2. o \in DOMAIN new /\ choice.ownerAfter[2] <= new[o].revision /\ choice.ownerAfter[2] # new[o].revision
    BY <1>1, <1>3
  <2> QED BY <1>1, <2>1, <2>2 DEF ObjectChoiceStands
<1> QED BY <1>1, <1>2, <1>3

LEMMA DeliveryChoiceStillStands ==
  ASSUME NEW c, NEW choice, NEW old, NEW new, DeliveryChoiceStands(c, choice, old), DOMAIN old \subseteq DOMAIN new,
         \A d \in DOMAIN old : old[d].revision \in Nat,
         \A d \in DOMAIN old : new[d] = old[d] \/ new[d].revision = old[d].revision + 1
  PROVE  DeliveryChoiceStands(c, choice, new)
<1> DEFINE d == choice.ownerAfter[1]
<1>1. d \in DOMAIN old /\ choice.ownerAfter[2] \in Nat /\ choice.ownerAfter[2] <= old[d].revision
  BY DEF DeliveryChoiceStands
<1>2. CASE new[d] = old[d]
  <2>1. choice.ownerBefore # Absent /\ choice.ownerAfter[2] = old[d].revision => GoesBack(c, choice, d, old[d])
    BY DEF DeliveryChoiceStands, GoesBack
  <2>2. choice.ownerBefore # Absent /\ choice.ownerAfter[2] = new[d].revision => GoesBack(c, choice, d, new[d])
    BY <1>2, <2>1
  <2>3. d \in DOMAIN new /\ choice.ownerAfter[2] <= new[d].revision
    BY <1>1, <1>2
  <2> QED BY ONLY <1>1, <2>2, <2>3 DEF DeliveryChoiceStands, GoesBack
<1>3. CASE new[d].revision = old[d].revision + 1
  <2>1. d \in DOMAIN new /\ choice.ownerAfter[2] <= new[d].revision /\ choice.ownerAfter[2] # new[d].revision
    BY <1>1, <1>3
  <2> QED BY ONLY <1>1, <2>1 DEF DeliveryChoiceStands
<1> QED BY <1>1, <1>2, <1>3

-----------------------------------------------------------------------------
\* What a committed change writes.
LEMMA CommitsProduction ==
  ASSUME NEW a, NEW row, NEW plan, plan.tool = "production.mutate", commitPlannedProtectedMutation(a, row, plan)
  PROVE  /\ objects' = WithRows(objects, plan.rows) /\ choices' = choices /\ deliveries' = deliveries
         /\ manifests' = manifests /\ media' = media
BY DEF commitPlannedProtectedMutation, commitPlannedProductionMutation, writeProductionObjectRecord

Choice(a, plan) ==
  finalizedChoiceForPlan(a, plan, ownerAfter(plan), a \in Dispatches /\ plan.active # {},
                         IF plan.owner = Absent THEN Absent ELSE Shown(plan.owner[1]))
LEMMA CommitsChoice ==
  ASSUME NEW a, NEW row, NEW plan, plan.tool # "production.mutate", commitPlannedProtectedMutation(a, row, plan)
  PROVE  /\ a \notin DOMAIN choices /\ choices' = WithRow(choices, a, Choice(a, plan))
         /\ deliveries' = WithRows(deliveries, plan.plans)
         /\ objects' = WithRows(objects, plan.rows) \/ (objects' = objects /\ plan.tool = "delivery.mutate")
         /\ manifests' = manifests /\ media' = media
<1>1. (commitPlannedDeliveryMutation(a, row, plan) /\ plan.tool = "delivery.mutate") \/ commitPlannedDecisionMutation(a, row, plan)
  BY DEF commitPlannedProtectedMutation
<1>2. Recorded(a, plan) /\ writeDeliveryPlanRecord(plan.plans)
  BY <1>1 DEF commitPlannedDeliveryMutation, commitPlannedDecisionMutation
<1>3. writeProductionObjectRecord(plan.rows) \/ (objects' = objects /\ plan.tool = "delivery.mutate")
  BY <1>1 DEF commitPlannedDeliveryMutation, commitPlannedDecisionMutation
<1>4. manifests' = manifests /\ media' = media
  BY DEF commitPlannedProtectedMutation
<1> QED BY <1>2, <1>3, <1>4 DEF Recorded, insertUserChoiceRecord, Choice, writeDeliveryPlanRecord, writeProductionObjectRecord

\* The record of a Choice, and the tables it is in.
LEMMA ChoiceIs ==
  ASSUME NEW a, NEW plan, NEW c, c = Choice(a, plan)
  PROVE  /\ c.ownerBefore = plan.owner /\ c.ownerAfter = ownerAfter(plan) /\ c.before = plan.before /\ c.effect = plan.effect
         /\ c.undoes = plan.undoes /\ (plan.owner # Absent => c.seen = Shown(plan.owner[1]))
BY DEF Choice, finalizedChoiceForPlan

\* A production command leaves everything standing.
LEMMA ProductionStands ==
  ASSUME Stands, NEW a \in Authors, NEW plan, ProductionPlanned(a, plan), NEW table, table = WithRows(objects, plan.rows)
  PROVE  /\ ObjectTable(table) /\ ContainmentStands(table)
         /\ \A o \in DOMAIN table : DecisionsStand(choices, o, table[o])
         /\ \A c \in DOMAIN choices : ChoiceStands(c, choices[c], table, deliveries)
         /\ OpenObjects \subseteq DOMAIN table
<1>1. /\ DOMAIN table = DOMAIN plan.rows \cup DOMAIN objects
      /\ \A k \in DOMAIN plan.rows : table[k] = plan.rows[k]
      /\ \A k \in DOMAIN objects : k \notin DOMAIN plan.rows => table[k] = objects[k]
  BY DEF WithRows
<1>2. ObjectTable(objects) /\ DecisionRows /\ ChoicesStand
  BY DEF Stands, ObjectsStand
<1>3. ASSUME NEW o \in DOMAIN plan.rows PROVE Revised(plan, o) \/ Created(a, plan, o)
  BY <1>3 DEF ProductionPlanned
<1>4. ASSUME NEW o \in DOMAIN table
      PROVE  /\ o \in ObjectIds /\ DOMAIN table[o] = ObjectColumns /\ table[o].revision \in Nat
             /\ o \in DOMAIN objects => table[o] = objects[o] \/ table[o].revision = objects[o].revision + 1
             /\ DecisionsStand(choices, o, table[o])
  <2>1. CASE o \notin DOMAIN plan.rows
    <3>1. o \in DOMAIN objects /\ table[o] = objects[o]
      BY <1>1, <1>4, <2>1
    <3> QED BY <1>2, <3>1 DEF ObjectTable, DecisionRows, OpenObjects
  <2>2. CASE o \in DOMAIN plan.rows /\ Revised(plan, o)
    <3>1. /\ o \in DOMAIN objects /\ DOMAIN table[o] = ObjectColumns /\ table[o].revision = objects[o].revision + 1
          /\ table[o].decisions = objects[o].decisions /\ table[o].protections = objects[o].protections
      BY <1>1, <2>2 DEF Revised, OpenObjects
    <3>2. o \in ObjectIds /\ objects[o].revision \in Nat /\ DecisionsStand(choices, o, objects[o])
      BY <1>2, <3>1 DEF ObjectTable, DecisionRows, OpenObjects
    <3>3. ShownObject(table[o]) = ShownObject(objects[o])
      BY <3>1, ShownIs
    <3>4. DecisionsStand(choices, o, table[o])
      BY <3>1, <3>2, <3>3 DEF DecisionsStand
    <3> QED BY <3>1, <3>2, <3>4
  <2>3. CASE o \in DOMAIN plan.rows /\ Created(a, plan, o)
    <3>1. /\ o = a /\ o \notin DOMAIN objects /\ DOMAIN table[o] = ObjectColumns /\ table[o].revision = 0
          /\ table[o].decisions = <<>> /\ table[o].protections = <<>>
      BY <1>1, <2>3 DEF Created, OpenObjects
    <3>2. DOMAIN table[o].decisions = {} /\ DOMAIN table[o].protections = {}
      BY <3>1
    <3>3. SelectedOnce(ShownObject(table[o])[1])
      <4>1. ShownObject(table[o])[1] = Values(table[o].decisions)
        BY ShownIs
      <4>2. DOMAIN Values(table[o].decisions) = {}
        BY <3>2 DEF Values
      <4> QED BY <4>1, <4>2 DEF SelectedOnce
    <3>4. DecisionsStand(choices, o, table[o])
      BY <3>2, <3>3 DEF DecisionsStand
    <3> QED BY <3>1, <3>4, ProductionAssumption
  <2> QED BY <1>3, <2>1, <2>2, <2>3
<1>5. ContainmentStands(table)
  BY DEF ProductionPlanned
<1>6. ASSUME NEW c \in DOMAIN choices PROVE ChoiceStands(c, choices[c], table, deliveries)
  <2>1. ChoiceStands(c, choices[c], objects, deliveries)
    BY <1>2, <1>6 DEF ChoicesStand
  <2>2. \A o \in DOMAIN objects : objects[o].revision \in Nat
    BY <1>2 DEF ObjectTable
  <2>3. /\ DOMAIN objects \subseteq DOMAIN table
        /\ \A o \in DOMAIN objects : table[o] = objects[o] \/ table[o].revision = objects[o].revision + 1
    BY <1>1, <1>4
  <2>4. \A choice : ObjectChoiceStands(choice, objects) => ObjectChoiceStands(choice, table)
    BY <2>2, <2>3, ObjectChoiceStillStands
  <2> QED BY <2>1, <2>4 DEF ChoiceStands
<1> QED BY <1>1, <1>4, <1>5, <1>6 DEF ObjectTable, OpenObjects

\* A decision about an object leaves everything standing, itself included.
LEMMA ObjectDecisionStands ==
  ASSUME Stands, NEW a \in Authors, a \notin DOMAIN choices, NEW plan, ObjectDecided(a, plan),
         NEW table, table = WithRows(objects, plan.rows), NEW choice, choice = Choice(a, plan),
         NEW chosen, chosen = WithRow(choices, a, choice), NEW shelf, DOMAIN shelf = DOMAIN deliveries,
         \A d \in DOMAIN deliveries : shelf[d] = deliveries[d]
  PROVE  /\ ObjectTable(table) /\ ContainmentStands(table)
         /\ \A o \in DOMAIN table : DecisionsStand(chosen, o, table[o])
         /\ \A d \in DOMAIN shelf : d \in DeliveryIds /\ PlanStands(chosen, d, shelf[d])
         /\ \A c \in DOMAIN chosen : ChoiceStands(c, chosen[c], table, shelf)
<1> DEFINE o == plan.owner[1]
           row == plan.rows[o]
<1>1. /\ DOMAIN plan.rows = {o} /\ o \in DOMAIN objects /\ plan.owner = productionRef(o)
      /\ DOMAIN row = ObjectColumns /\ row.revision = objects[o].revision + 1 /\ row.relations = objects[o].relations
      /\ \/ Redecides(plan.before, plan.effect, o)
         \/ Toggles(plan.before, plan.effect, ProductionProtectedFields(o))
      /\ ShownObject(applyUndoEffect(row, plan.before, Absent)) = ShownObject(objects[o])
      /\ plan.owner[1] = o /\ plan.rows[o] = row
  BY DEF ObjectDecided, OpenObjects
<1>2. ASSUME NEW x, Extends(x), a \in DOMAIN x, x[a].effect = plan.effect PROVE DecisionsStand(x, o, row)
  BY <1>2 DEF ObjectDecided
<1> HIDE DEF o, row
<1>3. /\ DOMAIN table = DOMAIN objects /\ table[o] = row
      /\ \A k \in DOMAIN objects : k # o => table[k] = objects[k]
  BY <1>1 DEF WithRows
<1>4. ObjectTable(objects) /\ ContainmentStands(objects) /\ DecisionRows /\ PlansStand /\ ChoicesStand
  BY DEF Stands, ObjectsStand
<1>5. /\ choice.ownerBefore = plan.owner /\ choice.ownerAfter = ownerAfter(plan) /\ choice.before = plan.before
      /\ choice.effect = plan.effect /\ (plan.owner # Absent => choice.seen = Shown(o))
  BY <1>1, ChoiceIs
<1>6. /\ Extends(chosen) /\ DOMAIN chosen = {a} \cup DOMAIN choices /\ chosen[a] = choice
      /\ \A c \in DOMAIN choices : chosen[c] = choices[c]
  BY DEF Extends, WithRow
<1>7. o \in ObjectIds /\ objects[o].revision \in Nat /\ o \notin DeliveryIds
  BY <1>1, <1>4, DeliveryAssumption DEF ObjectTable
<1>8. choice.ownerAfter = <<o, row.revision>> /\ choice.seen = ShownObject(objects[o])
  <2>1. plan.owner \in ObjectIds \X Nat
    BY <1>1, <1>7 DEF productionRef
  <2>2. plan.owner # Absent
    BY <2>1, ProductionAssumption
  <2> QED BY <1>1, <1>5, <1>7, <2>2 DEF ownerAfter, Shown
<1>9. \A k \in DOMAIN table : DecisionsStand(chosen, k, table[k])
  <2>1. \A k \in DOMAIN objects : DecisionsStand(chosen, k, objects[k])
    BY <1>4, <1>6, StillStands DEF DecisionRows, OpenObjects
  <2>2. chosen[a].effect = plan.effect
    BY <1>5, <1>6
  <2>3. DecisionsStand(chosen, o, row)
    BY <1>6, <1>2, <2>2
  <2> QED BY <1>3, <2>1, <2>3
<1>10. ObjectTable(table)
  BY <1>1, <1>3, <1>4, <1>7 DEF ObjectTable
<1>11. ContainmentStands(table)
  <2>1. \A k \in DOMAIN table : k \in DOMAIN objects /\ table[k].relations = objects[k].relations
    BY <1>1, <1>3
  <2> QED BY <1>3, <1>4, <2>1, FewerLinks
<1>12. \A d \in DOMAIN shelf : d \in DeliveryIds /\ PlanStands(chosen, d, shelf[d])
  BY <1>4, <1>6, PlanStillStands DEF PlansStand
<1>13. ASSUME NEW c \in DOMAIN choices PROVE ChoiceStands(c, choices[c], table, shelf)
  <2>1. ChoiceStands(c, choices[c], objects, deliveries)
    BY <1>4, <1>13 DEF ChoicesStand
  <2>2. \A k \in DOMAIN objects : objects[k].revision \in Nat
    BY <1>4 DEF ObjectTable
  <2>3. \A k \in DOMAIN objects : table[k] = objects[k] \/ table[k].revision = objects[k].revision + 1
    BY <1>1, <1>3
  <2>4. \A x : ObjectChoiceStands(x, objects) => ObjectChoiceStands(x, table)
    BY <1>3, <2>2, <2>3, ObjectChoiceStillStands
  <2>5. \A d \in DOMAIN deliveries : deliveries[d].revision \in Nat
    BY <1>4 DEF PlansStand, PlanStands
  <2>6. \A x : DeliveryChoiceStands(c, x, deliveries) => DeliveryChoiceStands(c, x, shelf)
    BY <2>5, DeliveryChoiceStillStands
  <2> QED BY <2>1, <2>4, <2>6 DEF ChoiceStands
<1>14. ChoiceStands(a, choice, table, shelf)
  <2>1. SelectedOnce(choice.seen[1])
    BY <1>1, <1>4, <1>8 DEF DecisionRows, OpenObjects, DecisionsStand
  <2>2. choice.ownerAfter[1] = o /\ choice.ownerAfter[2] = row.revision /\ row.revision \in Nat
    BY <1>1, <1>7, <1>8
  <2>3. /\ \/ Redecides(choice.before, choice.effect, o)
           \/ Toggles(choice.before, choice.effect, ProductionProtectedFields(o))
        /\ ShownObject(applyUndoEffect(table[o], choice.before, Absent)) = choice.seen
    BY <1>1, <1>3, <1>5, <1>8
  <2>4. o \in DOMAIN table /\ choice.ownerAfter[2] <= table[o].revision
    BY <1>1, <1>3, <2>2
  <2>5. ObjectChoiceStands(choice, table)
    BY ONLY <2>1, <2>2, <2>3, <2>4 DEF ObjectChoiceStands
  <2> QED BY <1>7, <2>2, <2>5 DEF ChoiceStands
<1>15. \A c \in DOMAIN chosen : ChoiceStands(c, chosen[c], table, shelf)
  BY <1>6, <1>13, <1>14
<1> QED BY <1>9, <1>10, <1>11, <1>12, <1>15

\* A change of a Delivery leaves everything standing, itself included.
LEMMA OwnerAfter ==
  ASSUME NEW plan, plan.rows = <<>>, NEW d, DOMAIN plan.plans = {d}
  PROVE  ownerAfter(plan) = <<d, plan.plans[d].revision>>
<1>1. DOMAIN plan.rows = {}
  OBVIOUS
<1>2. (CHOOSE x \in DOMAIN plan.plans : TRUE) = d
  OBVIOUS
<1> QED BY <1>1, <1>2 DEF ownerAfter

\* What a plan for a Delivery says of the one Delivery that it is about.
LEMMA DeliveryPlanIs ==
  ASSUME Stands, NEW a, NEW plan, DeliveryPlanned(a, plan)
  PROVE  \E d \in DeliveryIds :
           /\ d \notin ObjectIds /\ plan.rows = <<>> /\ DOMAIN plan.plans = {d}
           /\ plan.plans[d].revision \in Nat
           /\ \A table : Extends(table) /\ a \in DOMAIN table /\ table[a].effect = plan.effect => PlanStands(table, d, plan.plans[d])
           /\ \/ DeliveryRevised(a, plan, d) /\ d \in DOMAIN deliveries
              \/ DeliveryCreated(a, plan, d) /\ d \notin DOMAIN deliveries
<1>1. PICK d : DeliveryRevised(a, plan, d) \/ DeliveryCreated(a, plan, d)
  BY DEF DeliveryPlanned
<1>2. CASE DeliveryRevised(a, plan, d)
  <2>1. d \in DOMAIN deliveries
    BY <1>2 DEF DeliveryRevised, OpenDeliveries
  <2>2. d \in DeliveryIds /\ deliveries[d].revision \in Nat
    BY <2>1 DEF Stands, PlansStand, PlanStands
  <2>3. plan.plans[d].revision = deliveries[d].revision + 1 /\ plan.rows = <<>> /\ DOMAIN plan.plans = {d}
    BY <1>2 DEF DeliveryRevised
  <2>4. \A table : Extends(table) /\ a \in DOMAIN table /\ table[a].effect = plan.effect => PlanStands(table, d, plan.plans[d])
    BY <1>2 DEF DeliveryRevised
  <2>5. d \notin ObjectIds
    BY <2>2, DeliveryAssumption
  <2> QED BY <1>2, <2>1, <2>2, <2>3, <2>4, <2>5
<1>3. CASE DeliveryCreated(a, plan, d)
  <2>1. d \notin DOMAIN deliveries /\ d \in DeliveryIds
    BY <1>3 DEF DeliveryCreated, OpenDeliveries
  <2>3. plan.plans[d].revision = 0 /\ plan.rows = <<>> /\ DOMAIN plan.plans = {d}
    BY <1>3 DEF DeliveryCreated
  <2>4. \A table : Extends(table) /\ a \in DOMAIN table /\ table[a].effect = plan.effect => PlanStands(table, d, plan.plans[d])
    BY <1>3 DEF DeliveryCreated
  <2>5. d \notin ObjectIds
    BY <2>1, DeliveryAssumption
  <2> QED BY <1>3, <2>1, <2>3, <2>4, <2>5
<1> QED BY <1>1, <1>2, <1>3

LEMMA DeliveryChangeStands ==
  ASSUME Stands, NEW a \in Authors, a \notin DOMAIN choices, NEW plan, DeliveryPlanned(a, plan),
         NEW shelf, shelf = WithRows(deliveries, plan.plans), NEW choice, choice = Choice(a, plan),
         NEW chosen, chosen = WithRow(choices, a, choice), NEW table, DOMAIN table = DOMAIN objects,
         \A o \in DOMAIN objects : table[o] = objects[o]
  PROVE  /\ ObjectTable(table) /\ ContainmentStands(table)
         /\ \A o \in DOMAIN table : DecisionsStand(chosen, o, table[o])
         /\ \A d \in DOMAIN shelf : d \in DeliveryIds /\ PlanStands(chosen, d, shelf[d])
         /\ \A c \in DOMAIN chosen : ChoiceStands(c, chosen[c], table, shelf)
<1>1. PICK d \in DeliveryIds :
        /\ d \notin ObjectIds /\ plan.rows = <<>> /\ DOMAIN plan.plans = {d}
        /\ plan.plans[d].revision \in Nat
        /\ \A x : Extends(x) /\ a \in DOMAIN x /\ x[a].effect = plan.effect => PlanStands(x, d, plan.plans[d])
        /\ \/ DeliveryRevised(a, plan, d) /\ d \in DOMAIN deliveries
           \/ DeliveryCreated(a, plan, d) /\ d \notin DOMAIN deliveries
  BY DeliveryPlanIs
<1> DEFINE row == plan.plans[d]
<1>2. /\ DOMAIN shelf = {d} \cup DOMAIN deliveries /\ shelf[d] = row
      /\ \A k \in DOMAIN deliveries : k # d => shelf[k] = deliveries[k]
  BY <1>1 DEF WithRows
<1>3. ObjectTable(objects) /\ ContainmentStands(objects) /\ DecisionRows /\ PlansStand /\ ChoicesStand
  BY DEF Stands, ObjectsStand
<1>4. /\ choice.ownerBefore = plan.owner /\ choice.ownerAfter = <<d, row.revision>> /\ choice.before = plan.before
      /\ choice.effect = plan.effect /\ (plan.owner # Absent => choice.seen = Shown(plan.owner[1]))
  BY <1>1, ChoiceIs, OwnerAfter
<1>5. /\ Extends(chosen) /\ DOMAIN chosen = {a} \cup DOMAIN choices /\ chosen[a] = choice
      /\ \A c \in DOMAIN choices : chosen[c] = choices[c]
  BY DEF Extends, WithRow
<1>6. PlanStands(chosen, d, row)
  <2>1. chosen[a].effect = plan.effect
    BY <1>4, <1>5
  <2> QED BY <1>1, <1>5, <2>1
<1>7. \A k \in DOMAIN shelf : k \in DeliveryIds /\ PlanStands(chosen, k, shelf[k])
  <2>1. \A k \in DOMAIN deliveries : k \in DeliveryIds /\ PlanStands(chosen, k, deliveries[k])
    BY <1>3, <1>5, PlanStillStands DEF PlansStand
  <2> QED BY <1>1, <1>2, <1>6, <2>1
<1> HIDE DEF row
<1>8. \A o \in DOMAIN table : DecisionsStand(chosen, o, table[o])
  BY <1>3, <1>5, StillStands DEF DecisionRows, OpenObjects
<1>9. ObjectTable(table)
  BY <1>3 DEF ObjectTable
<1>10. ContainmentStands(table)
  <2>1. \A k \in DOMAIN table : k \in DOMAIN objects /\ table[k].relations = objects[k].relations
    OBVIOUS
  <2> QED BY <1>3, <2>1, FewerLinks
<1>11. \A k \in DOMAIN deliveries : shelf[k] = deliveries[k] \/ shelf[k].revision = deliveries[k].revision + 1
  <2>1. d \in DOMAIN deliveries => row.revision = deliveries[d].revision + 1
    BY <1>1 DEF DeliveryRevised, row
  <2> QED BY <1>2, <2>1
<1>12. ASSUME NEW c \in DOMAIN choices PROVE ChoiceStands(c, choices[c], table, shelf)
  <2>1. ChoiceStands(c, choices[c], objects, deliveries)
    BY <1>3, <1>12 DEF ChoicesStand
  <2>2. \A o \in DOMAIN objects : objects[o].revision \in Nat
    BY <1>3 DEF ObjectTable
  <2>3. \A x : ObjectChoiceStands(x, objects) => ObjectChoiceStands(x, table)
    BY <2>2, ObjectChoiceStillStands
  <2>4. \A k \in DOMAIN deliveries : deliveries[k].revision \in Nat
    BY <1>3 DEF PlansStand, PlanStands
  <2>5. \A x : DeliveryChoiceStands(c, x, deliveries) => DeliveryChoiceStands(c, x, shelf)
    BY <1>2, <1>11, <2>4, DeliveryChoiceStillStands
  <2> QED BY <2>1, <2>3, <2>5 DEF ChoiceStands
<1>13. ChoiceStands(a, choice, table, shelf)
  <2>1. choice.ownerAfter[1] = d /\ choice.ownerAfter[2] = row.revision /\ row.revision \in Nat
    BY <1>1, <1>4 DEF row
  <2>2. d \in DOMAIN shelf /\ choice.ownerAfter[2] <= shelf[d].revision
    BY <1>2, <2>1
  <2>3. ASSUME choice.ownerBefore # Absent PROVE GoesBack(a, choice, d, shelf[d])
    <3>1. DeliveryRevised(a, plan, d)
      BY <1>1, <1>4, <2>3 DEF DeliveryCreated
    <3>2. plan.owner = deliveryRef(d)
      BY <3>1 DEF DeliveryRevised
    <3>3. plan.owner[1] = d
      BY <3>2 DEF deliveryRef
    <3>4. choice.seen = ShownDelivery(deliveries[d])
      BY <1>1, <1>4, <2>3, <3>3 DEF Shown
    <3>5. GoesBack(a, choice, d, row)
      BY <1>4, <3>1, <3>4 DEF DeliveryRevised, row
    <3> QED BY <1>2, <3>5
  <2>4. DeliveryChoiceStands(a, choice, shelf)
    BY ONLY <2>1, <2>2, <2>3 DEF DeliveryChoiceStands, GoesBack
  <2> QED BY <1>1, <2>1, <2>4 DEF ChoiceStands
<1>14. \A c \in DOMAIN chosen : ChoiceStands(c, chosen[c], table, shelf)
  BY <1>5, <1>12, <1>13
<1> QED BY <1>7, <1>8, <1>9, <1>10, <1>14

-----------------------------------------------------------------------------
\* Protected fields.  Where a protected field is.
ProtectedObject(f) ==
  /\ f[1] \in DOMAIN objects /\ f[1] \in ObjectIds /\ f \in DOMAIN objects[f[1]].protections
  /\ f \in ProductionProtectedFields(f[1])
ProtectedDelivery(f) ==
  /\ f[1] \in DOMAIN deliveries /\ f[1] \notin ObjectIds /\ f \in DOMAIN deliveries[f[1]].protections
  /\ f \in deliveryFields(f[1], deliveries[f[1]].items)
LEMMA ProtectedWhere ==
  ASSUME Stands, NEW f \in ProtectedFields
  PROVE  ProtectedObject(f) \/ ProtectedDelivery(f)
<1>1. CASE \E o \in OpenObjects : f \in DOMAIN objects[o].protections
  <2>1. PICK o \in OpenObjects : f \in DOMAIN objects[o].protections
    BY <1>1
  <2>2. o \in DOMAIN objects /\ o \in ObjectIds /\ f \in ProductionProtectedFields(o)
    BY <2>1 DEF Stands, ObjectsStand, ObjectTable, DecisionRows, DecisionsStand, ProtectedBy, OpenObjects
  <2>3. f[1] = o
    BY <2>2 DEF ProductionProtectedFields, resultField, Field
  <2> QED BY <2>1, <2>2, <2>3 DEF ProtectedObject
<1>2. CASE \E d \in OpenDeliveries : f \in DOMAIN deliveries[d].protections
  <2>1. PICK d \in OpenDeliveries : f \in DOMAIN deliveries[d].protections
    BY <1>2
  <2>2. /\ d \in DOMAIN deliveries /\ d \in DeliveryIds /\ f \in deliveryFields(d, deliveries[d].items)
        /\ DOMAIN deliveries[d].items \subseteq ItemIds
    BY <2>1 DEF Stands, PlansStand, PlanStands, ContentStands, OpenDeliveries
  <2>3. f[1] = d
    BY <2>2, FieldIs
  <2>4. d \notin ObjectIds
    BY <2>2, DeliveryAssumption
  <2> QED BY <2>1, <2>2, <2>3, <2>4 DEF ProtectedDelivery
<1> QED BY <1>1, <1>2 DEF ProtectedFields

\* Where nothing is written, nothing changes.
Moved(f) == FieldValue(f)' # FieldValue(f) \/ f \notin ProtectedFields'
LEMMA StillThere ==
  ASSUME NEW f
  PROVE  /\ ProtectedObject(f) /\ f[1] \in DOMAIN objects' /\ objects'[f[1]] = objects[f[1]] => ~Moved(f)
         /\ ProtectedDelivery(f) /\ f[1] \in DOMAIN deliveries' /\ deliveries'[f[1]] = deliveries[f[1]] => ~Moved(f)
<1>1. ASSUME ProtectedObject(f), f[1] \in DOMAIN objects', objects'[f[1]] = objects[f[1]] PROVE ~Moved(f)
  <2>1. f \in DOMAIN objects'[f[1]].protections /\ f[1] \in ObjectIds
    BY <1>1 DEF ProtectedObject
  <2>2. f \in ProtectedFields'
    BY <1>1, <2>1 DEF ProtectedFields, OpenObjects
  <2>3. FieldValue(f)' = FieldValue(f)
    BY <1>1, <2>1 DEF FieldValue, ObjectValue
  <2> QED BY <2>2, <2>3 DEF Moved
<1>2. ASSUME ProtectedDelivery(f), f[1] \in DOMAIN deliveries', deliveries'[f[1]] = deliveries[f[1]] PROVE ~Moved(f)
  <2>1. f \in DOMAIN deliveries'[f[1]].protections /\ f[1] \notin ObjectIds
    BY <1>2 DEF ProtectedDelivery
  <2>2. f \in ProtectedFields'
    BY <1>2, <2>1 DEF ProtectedFields, OpenDeliveries
  <2>3. FieldValue(f)' = FieldValue(f)
    BY <1>2, <2>1 DEF FieldValue
  <2> QED BY <2>2, <2>3 DEF Moved
<1> QED BY <1>1, <1>2

\* A field of an object moves only when its value does or its protection ends.
LEMMA MovedObject ==
  ASSUME NEW f, ProtectedObject(f), f[1] \in DOMAIN objects', Moved(f)
  PROVE  \/ f[2] = "result" /\ ValueOf(objects'[f[1]].decisions, f[3]) # ValueOf(objects[f[1]].decisions, f[3])
         \/ f[2] # "result" /\ objects'[f[1]][f[2]] # objects[f[1]][f[2]]
         \/ f \notin DOMAIN objects'[f[1]].protections
<1>1. f[1] \in ObjectIds
  BY DEF ProtectedObject
<1>2. CASE f \notin ProtectedFields'
  BY <1>2 DEF ProtectedFields, OpenObjects
<1>3. CASE FieldValue(f)' # FieldValue(f)
  BY <1>1, <1>3 DEF FieldValue, ObjectValue
<1> QED BY <1>2, <1>3 DEF Moved

LEMMA MovedDelivery ==
  ASSUME NEW f, ProtectedDelivery(f), f[1] \in DOMAIN deliveries', Moved(f)
  PROVE  \/ DeliveryValue(deliveries'[f[1]], f) # DeliveryValue(deliveries[f[1]], f)
         \/ f \notin DOMAIN deliveries'[f[1]].protections
<1>1. f[1] \notin ObjectIds
  BY DEF ProtectedDelivery
<1>2. CASE f \notin ProtectedFields'
  BY <1>2 DEF ProtectedFields, OpenDeliveries
<1>3. CASE FieldValue(f)' # FieldValue(f)
  BY <1>1, <1>3 DEF FieldValue
<1> QED BY <1>2, <1>3 DEF Moved

LEMMA ObjectFieldIs ==
  ASSUME NEW o, NEW f \in ProductionProtectedFields(o)
  PROVE  \/ f[2] = "result" /\ f = resultField(o, f[3])
         \/ f[2] \in {"content", "relations", "lifecycle"} /\ f = Field(o, f[2], Absent)
BY DEF ProductionProtectedFields, resultField, Field

\* What a change moves of what is protected, it names, and with it who protects it.
NamesIt(plan, f) ==
  /\ f \in plan.fields /\ plan.active # {}
  /\ plan.owner = IF f[1] \in ObjectIds THEN productionRef(f[1]) ELSE deliveryRef(f[1])
LEMMA ActiveIs ==
  ASSUME NEW protections, NEW fields, NEW f \in fields, f \in DOMAIN protections
  PROVE  Choosers(protections, fields) # {}
BY DEF Choosers

LEMMA ProductionNames ==
  ASSUME Stands, NEW a \in Authors, NEW plan, ProductionPlanned(a, plan), objects' = WithRows(objects, plan.rows),
         deliveries' = deliveries, NEW f \in ProtectedFields, Moved(f)
  PROVE  NamesIt(plan, f)
<1>1. ProtectedObject(f) \/ ProtectedDelivery(f)
  BY ProtectedWhere
<1>2. ~ProtectedDelivery(f)
  BY StillThere DEF ProtectedDelivery
<1> DEFINE o == f[1]
<1>3. o \in DOMAIN objects /\ o \in ObjectIds /\ f \in DOMAIN objects[o].protections /\ f \in ProductionProtectedFields(o)
  BY <1>1, <1>2 DEF ProtectedObject
<1>4. /\ o \notin DOMAIN plan.rows => objects'[o] = objects[o]
      /\ o \in DOMAIN plan.rows => objects'[o] = plan.rows[o]
  BY <1>3 DEF WithRows
<1>5. o \in DOMAIN objects'
  BY <1>3 DEF WithRows
<1>6. o \in DOMAIN plan.rows
  BY <1>1, <1>2, <1>4, <1>5, StillThere
<1>7. Revised(plan, o)
  <2>1. ~Created(a, plan, o)
    BY <1>3 DEF Created, OpenObjects
  <2> QED BY <1>6, <2>1 DEF ProductionPlanned
<1>8. /\ plan.owner = productionRef(o)
      /\ objects'[o].decisions = objects[o].decisions /\ objects'[o].protections = objects[o].protections
      /\ objects'[o].content # objects[o].content => Field(o, "content", Absent) \in plan.fields
      /\ objects'[o].relations # objects[o].relations => Field(o, "relations", Absent) \in plan.fields
      /\ objects'[o].lifecycle # objects[o].lifecycle => Field(o, "lifecycle", Absent) \in plan.fields
      /\ plan.active = Choosers(objects[o].protections, plan.fields)
  BY <1>4, <1>6, <1>7 DEF Revised
<1>9. f[2] # "result" /\ objects'[o][f[2]] # objects[o][f[2]]
  BY <1>1, <1>2, <1>3, <1>5, <1>8, MovedObject
<1>10. f[2] \in {"content", "relations", "lifecycle"} /\ f = Field(o, f[2], Absent)
  BY <1>3, <1>9, ObjectFieldIs
<1>11. f \in plan.fields
  BY <1>8, <1>9, <1>10
<1> QED BY <1>3, <1>8, <1>11, ActiveIs DEF NamesIt

LEMMA DecisionNames ==
  ASSUME Stands, NEW a, NEW plan, ObjectDecided(a, plan), objects' = WithRows(objects, plan.rows),
         DOMAIN deliveries' = DOMAIN deliveries, \A d \in DOMAIN deliveries : deliveries'[d] = deliveries[d],
         NEW f \in ProtectedFields, Moved(f)
  PROVE  NamesIt(plan, f)
<1>1. ProtectedObject(f) \/ ProtectedDelivery(f)
  BY ProtectedWhere
<1>2. ~ProtectedDelivery(f)
  BY StillThere DEF ProtectedDelivery
<1> DEFINE o == f[1]
<1>3. o \in DOMAIN objects /\ o \in ObjectIds /\ f \in DOMAIN objects[o].protections /\ f \in ProductionProtectedFields(o)
  BY <1>1, <1>2 DEF ProtectedObject
<1> DEFINE p == plan.owner[1]
           row == plan.rows[p]
<1>4. /\ DOMAIN plan.rows = {p} /\ plan.owner = productionRef(p)
      /\ row.relations = objects[p].relations /\ row.content = objects[p].content /\ row.lifecycle = objects[p].lifecycle
      /\ plan.active = Choosers(objects[p].protections, plan.fields)
      /\ \A r : ValueOf(row.decisions, r) # ValueOf(objects[p].decisions, r) => resultField(p, r) \in plan.fields
      /\ \A g \in DOMAIN objects[p].protections \ DOMAIN row.protections : g \in plan.fields
      /\ plan.rows[p] = row
  BY DEF ObjectDecided
<1> HIDE DEF p, row
<1>5. o \in DOMAIN objects' /\ (o # p => objects'[o] = objects[o]) /\ (o = p => objects'[o] = row)
  BY <1>3, <1>4 DEF WithRows
<1>6. o = p
  BY <1>1, <1>2, <1>5, StillThere
<1>7. \/ f[2] = "result" /\ ValueOf(row.decisions, f[3]) # ValueOf(objects[o].decisions, f[3])
      \/ f[2] # "result" /\ row[f[2]] # objects[o][f[2]]
      \/ f \notin DOMAIN row.protections
  BY <1>1, <1>2, <1>5, <1>6, MovedObject
<1>8. \/ f[2] = "result" /\ f = resultField(o, f[3])
      \/ f[2] \in {"content", "relations", "lifecycle"} /\ f = Field(o, f[2], Absent)
  BY <1>3, ObjectFieldIs
<1>9. f \in plan.fields
  BY <1>3, <1>4, <1>6, <1>7, <1>8
<1> QED BY <1>3, <1>4, <1>6, <1>9, ActiveIs DEF NamesIt

LEMMA DeliveryNames ==
  ASSUME Stands, NEW a, NEW plan, DeliveryPlanned(a, plan), deliveries' = WithRows(deliveries, plan.plans),
         DOMAIN objects' = DOMAIN objects, \A o \in DOMAIN objects : objects'[o] = objects[o],
         NEW f \in ProtectedFields, Moved(f)
  PROVE  NamesIt(plan, f)
<1>1. ProtectedObject(f) \/ ProtectedDelivery(f)
  BY ProtectedWhere
<1>2. ~ProtectedObject(f)
  BY StillThere DEF ProtectedObject
<1> DEFINE p == f[1]
<1>3. p \in DOMAIN deliveries /\ p \notin ObjectIds /\ f \in DOMAIN deliveries[p].protections /\ f \in deliveryFields(p, deliveries[p].items)
  BY <1>1, <1>2 DEF ProtectedDelivery
<1>4. PICK d \in DeliveryIds :
        /\ d \notin ObjectIds /\ plan.rows = <<>> /\ DOMAIN plan.plans = {d}
        /\ plan.plans[d].revision \in Nat
        /\ \A x : Extends(x) /\ a \in DOMAIN x /\ x[a].effect = plan.effect => PlanStands(x, d, plan.plans[d])
        /\ \/ DeliveryRevised(a, plan, d) /\ d \in DOMAIN deliveries
           \/ DeliveryCreated(a, plan, d) /\ d \notin DOMAIN deliveries
  BY DeliveryPlanIs
<1>5. DOMAIN plan.plans = {d}
  BY <1>4
<1>6. p \in DOMAIN deliveries' /\ (p # d => deliveries'[p] = deliveries[p]) /\ (p = d => deliveries'[p] = plan.plans[p])
  BY <1>3, <1>5 DEF WithRows
<1>7. p = d
  BY <1>1, <1>2, <1>6, StillThere
<1>8. DeliveryRevised(a, plan, p)
  BY <1>3, <1>4, <1>7
<1>9. /\ plan.owner = deliveryRef(p) /\ plan.active = Choosers(deliveries[p].protections, plan.fields)
      /\ \A g \in deliveryFields(p, deliveries[p].items) :
           DeliveryValue(plan.plans[p], g) # DeliveryValue(deliveries[p], g) => g \in plan.fields
      /\ \A g \in DOMAIN deliveries[p].protections \ DOMAIN plan.plans[p].protections : g \in plan.fields
  BY <1>8 DEF DeliveryRevised
<1>10. \/ DeliveryValue(plan.plans[p], f) # DeliveryValue(deliveries[p], f)
       \/ f \notin DOMAIN plan.plans[p].protections
  BY <1>1, <1>2, <1>6, <1>7, MovedDelivery
<1>11. f \in plan.fields
  BY <1>3, <1>9, <1>10
<1> QED BY <1>3, <1>9, <1>11, ActiveIs DEF NamesIt

-----------------------------------------------------------------------------
\* What a committed change does: everything stands after it, what was chosen stays, what it moves of what is
\* protected it names, and an undo restores.
ChoicesKept == \A c \in DOMAIN choices : c \in DOMAIN choices' /\ choices'[c] = choices[c]
UndoStep ==
  \A c \in DOMAIN choices' \ DOMAIN choices : choices'[c].undoes # Absent =>
    \A o \in OpenObjects \cup OpenDeliveries :
      o = choices'[c].ownerAfter[1] => Shown(o)' = choices[choices'[c].undoes].seen
Done(a, in, plan) ==
  IF in.tool = "production.mutate" THEN \A o \in DOMAIN plan.effect.rows : objects'[o] = plan.effect.rows[o]
  ELSE choices'[a].effect = plan.effect

LEMMA ProductionCommits ==
  ASSUME Stands, NEW a \in Authors, NEW in, in.tool = "production.mutate", NEW plan, ProductionPlanned(a, plan), NEW row,
         commitPlannedProtectedMutation(a, row, plan)
  PROVE  /\ Stands' /\ ChoicesKept /\ UndoStep /\ Done(a, in, plan)
         /\ \A f \in ProtectedFields : Moved(f) => NamesIt(plan, f)
<1>1. /\ objects' = WithRows(objects, plan.rows) /\ choices' = choices /\ deliveries' = deliveries
      /\ manifests' = manifests /\ media' = media
  BY CommitsProduction DEF ProductionPlanned
<1>2. /\ ObjectTable(objects') /\ ContainmentStands(objects')
      /\ \A o \in DOMAIN objects' : DecisionsStand(choices', o, objects'[o])
      /\ \A c \in DOMAIN choices' : ChoiceStands(c, choices'[c], objects', deliveries')
  BY <1>1, ProductionStands
<1>3. PlansStand' /\ MediaRows'
  BY <1>1 DEF Stands, PlansStand, MediaRows
<1>4. Stands'
  BY <1>2, <1>3 DEF Stands, ObjectsStand, DecisionRows, ChoicesStand, OpenObjects
<1>5. ChoicesKept /\ UndoStep
  BY <1>1 DEF ChoicesKept, UndoStep
<1>6. Done(a, in, plan)
  BY <1>1 DEF Done, ProductionPlanned, WithRows
<1> QED BY <1>1, <1>4, <1>5, <1>6, ProductionNames

LEMMA DecisionCommits ==
  ASSUME Stands, NEW a \in Authors, NEW in, in.tool # "production.mutate", NEW plan, ObjectDecided(a, plan), NEW row,
         commitPlannedProtectedMutation(a, row, plan)
  PROVE  /\ Stands' /\ ChoicesKept /\ UndoStep /\ Done(a, in, plan)
         /\ \A f \in ProtectedFields : Moved(f) => NamesIt(plan, f)
<1> DEFINE choice == Choice(a, plan)
<1>1. plan.tool \in {"decision.record", "decision.protect"} /\ plan.plans = <<>>
  BY DEF ObjectDecided
<1>2. /\ a \notin DOMAIN choices /\ choices' = WithRow(choices, a, choice)
      /\ deliveries' = WithRows(deliveries, plan.plans) /\ objects' = WithRows(objects, plan.rows)
      /\ manifests' = manifests /\ media' = media
  BY <1>1, CommitsChoice
<1>3. DOMAIN deliveries' = DOMAIN deliveries /\ \A d \in DOMAIN deliveries : deliveries'[d] = deliveries[d]
  <2>1. DOMAIN plan.plans = {}
    BY <1>1
  <2> QED BY <1>2, <2>1 DEF WithRows
<1> HIDE DEF choice
<1>4. choice = Choice(a, plan)
  BY DEF choice
<1>5. /\ ObjectTable(objects') /\ ContainmentStands(objects')
      /\ \A o \in DOMAIN objects' : DecisionsStand(choices', o, objects'[o])
      /\ \A d \in DOMAIN deliveries' : d \in DeliveryIds /\ PlanStands(choices', d, deliveries'[d])
      /\ \A c \in DOMAIN choices' : ChoiceStands(c, choices'[c], objects', deliveries')
  BY <1>2, <1>3, <1>4, ObjectDecisionStands
<1>6. MediaRows'
  BY <1>2 DEF Stands, MediaRows
<1>7. Stands'
  BY <1>5, <1>6 DEF Stands, ObjectsStand, DecisionRows, PlansStand, ChoicesStand, OpenObjects
<1>8. /\ DOMAIN choices' = {a} \cup DOMAIN choices /\ choices'[a] = choice
      /\ \A c \in DOMAIN choices : choices'[c] = choices[c]
  BY <1>2 DEF WithRow
<1>9. choice.effect = plan.effect /\ choice.undoes = plan.undoes /\ choice.ownerAfter = ownerAfter(plan)
  BY <1>4, ChoiceIs
<1>10. ASSUME plan.undoes # Absent, NEW o \in OpenObjects \cup OpenDeliveries, o = choice.ownerAfter[1]
       PROVE  Shown(o)' = choices[plan.undoes].seen
  <2> DEFINE p == plan.owner[1]
  <2>1. DOMAIN plan.rows = {p} /\ p \in DOMAIN objects /\ ShownObject(plan.rows[p]) = choices[plan.undoes].seen
    BY <1>10 DEF ObjectDecided, OpenObjects
  <2>2. ownerAfter(plan) = <<p, plan.rows[p].revision>>
    BY <2>1 DEF ownerAfter
  <2> HIDE DEF p
  <2>3. o = p
    BY <1>9, <1>10, <2>2
  <2>4. objects'[p] = plan.rows[p] /\ p \in ObjectIds
    BY <1>2, <2>1 DEF WithRows, Stands, ObjectsStand, ObjectTable
  <2> QED BY <2>1, <2>3, <2>4 DEF Shown
<1>11. UndoStep
  <2>1. \A c \in DOMAIN choices' \ DOMAIN choices : c = a
    BY <1>8
  <2> QED BY <1>8, <1>9, <1>10, <2>1 DEF UndoStep
<1>12. ChoicesKept /\ Done(a, in, plan)
  BY <1>8, <1>9 DEF ChoicesKept, Done
<1> QED BY <1>2, <1>3, <1>7, <1>11, <1>12, DecisionNames

LEMMA DeliveryCommits ==
  ASSUME Stands, NEW a \in Authors, NEW in, in.tool # "production.mutate", NEW plan, DeliveryPlanned(a, plan), NEW row,
         commitPlannedProtectedMutation(a, row, plan)
  PROVE  /\ Stands' /\ ChoicesKept /\ UndoStep /\ Done(a, in, plan)
         /\ \A f \in ProtectedFields : Moved(f) => NamesIt(plan, f)
<1> DEFINE choice == Choice(a, plan)
<1>1. PICK d \in DeliveryIds :
        /\ d \notin ObjectIds /\ plan.rows = <<>> /\ DOMAIN plan.plans = {d}
        /\ plan.plans[d].revision \in Nat
        /\ \A x : Extends(x) /\ a \in DOMAIN x /\ x[a].effect = plan.effect => PlanStands(x, d, plan.plans[d])
        /\ \/ DeliveryRevised(a, plan, d) /\ d \in DOMAIN deliveries
           \/ DeliveryCreated(a, plan, d) /\ d \notin DOMAIN deliveries
  BY DeliveryPlanIs
<1>2. plan.tool # "production.mutate"
  BY <1>1 DEF DeliveryRevised, DeliveryCreated
<1>3. /\ a \notin DOMAIN choices /\ choices' = WithRow(choices, a, choice)
      /\ deliveries' = WithRows(deliveries, plan.plans)
      /\ objects' = WithRows(objects, plan.rows) \/ objects' = objects
      /\ manifests' = manifests /\ media' = media
  BY <1>2, CommitsChoice
<1>4. DOMAIN objects' = DOMAIN objects /\ \A o \in DOMAIN objects : objects'[o] = objects[o]
  <2>1. DOMAIN plan.rows = {}
    BY <1>1
  <2> QED BY <1>3, <2>1 DEF WithRows
<1> HIDE DEF choice
<1>5. choice = Choice(a, plan)
  BY DEF choice
<1>6. /\ ObjectTable(objects') /\ ContainmentStands(objects')
      /\ \A o \in DOMAIN objects' : DecisionsStand(choices', o, objects'[o])
      /\ \A k \in DOMAIN deliveries' : k \in DeliveryIds /\ PlanStands(choices', k, deliveries'[k])
      /\ \A c \in DOMAIN choices' : ChoiceStands(c, choices'[c], objects', deliveries')
  BY <1>3, <1>4, <1>5, DeliveryChangeStands
<1>7. MediaRows'
  BY <1>3 DEF Stands, MediaRows
<1>8. Stands'
  BY <1>6, <1>7 DEF Stands, ObjectsStand, DecisionRows, PlansStand, ChoicesStand, OpenObjects
<1>9. /\ DOMAIN choices' = {a} \cup DOMAIN choices /\ choices'[a] = choice
      /\ \A c \in DOMAIN choices : choices'[c] = choices[c]
  BY <1>3 DEF WithRow
<1>10. choice.effect = plan.effect /\ choice.undoes = plan.undoes /\ choice.ownerAfter[1] = d
  BY <1>1, <1>5, ChoiceIs, OwnerAfter
<1>11. ASSUME plan.undoes # Absent PROVE Shown(d)' = choices[plan.undoes].seen
  <2>1. ShownDelivery(plan.plans[d]) = choices[plan.undoes].seen
    BY <1>1, <1>11 DEF DeliveryRevised, DeliveryCreated
  <2>2. deliveries'[d] = plan.plans[d]
    BY <1>1, <1>3 DEF WithRows
  <2> QED BY <1>1, <2>1, <2>2 DEF Shown
<1>12. UndoStep
  <2>1. \A c \in DOMAIN choices' \ DOMAIN choices : c = a
    BY <1>9
  <2> QED BY <1>9, <1>10, <1>11, <2>1 DEF UndoStep
<1>13. ChoicesKept /\ Done(a, in, plan)
  BY <1>9, <1>10 DEF ChoicesKept, Done
<1> QED BY <1>3, <1>4, <1>8, <1>12, <1>13, DeliveryNames

LEMMA Commits ==
  ASSUME Stands, NEW a \in Authors, NEW in, NEW plan \in planProtectedMutation(a, in), NEW row,
         commitPlannedProtectedMutation(a, row, plan)
  PROVE  /\ Stands' /\ ChoicesKept /\ UndoStep /\ Done(a, in, plan)
         /\ \A f \in ProtectedFields : Moved(f) => NamesIt(plan, f)
<1>1. plan.tool # "production.mutate" => a \notin DOMAIN choices
  BY CommitsChoice
<1>2. /\ in.tool = "production.mutate" => ProductionPlanned(a, plan)
      /\ in.tool # "production.mutate" => ObjectDecided(a, plan) \/ DeliveryPlanned(a, plan)
  BY <1>1, ProtectedPlans
<1>3. CASE in.tool = "production.mutate"
  BY <1>2, <1>3, ProductionCommits
<1>4. CASE in.tool # "production.mutate" /\ ObjectDecided(a, plan)
  BY <1>4, DecisionCommits
<1>5. CASE in.tool # "production.mutate" /\ DeliveryPlanned(a, plan)
  BY <1>5, DeliveryCommits
<1> QED BY <1>2, <1>3, <1>4, <1>5

-----------------------------------------------------------------------------
\* What the other tables keep to: a Manifest says of its fields what the Choices it names say, and a call that was
\* answered has its receipt or its outcome.
ManifestsStand ==
  \A ref \in DOMAIN manifests : \A f \in DOMAIN manifests[ref].heads :
    /\ manifests[ref].heads[f] \in DOMAIN choices
    /\ f[2] # "lifecycle" => FieldSays(manifests[ref], choices[manifests[ref].heads[f]].effect, f)
DispatchColumns == {"input", "guardOutcome", "confirmation", "event", "outcome"}
DispatchRows == \A d \in DOMAIN dispatches : DOMAIN dispatches[d] = DispatchColumns
AnswersKnown ==
  \A a \in answers : /\ a.author \in Requests => a.author \in DOMAIN receipts
                     /\ a.author \in Dispatches => a.author \in DOMAIN dispatches /\ dispatches[a.author].outcome # Absent
Invariant == Stands /\ ManifestsStand /\ DispatchRows /\ AnswersKnown

LEMMA ManifestsStay ==
  ASSUME ManifestsStand, ChoicesKept, manifests' = manifests
  PROVE  ManifestsStand'
BY DEF ManifestsStand, ChoicesKept

LEMMA FreezeStands ==
  ASSUME Stands, ManifestsStand, NEW ref, freezeDelivery(ref)
  PROVE  ManifestsStand'
<1> DEFINE d == ref[1]
           plan == deliveries[d]
           items == [i \in activeIds(plan.items) |-> plan.items[i]]
           manifest == [settings |-> plan.settings, items |-> items,
                        heads |-> Relevant(plan, plan.heads), protections |-> Relevant(plan, plan.protections)]
<1>1. d \in OpenDeliveries /\ manifests' = WithRow(manifests, ref, manifest) /\ choices' = choices
  BY DEF freezeDelivery, requireExactPlan
<1>2. PlanStands(choices, d, plan)
  BY <1>1 DEF Stands, PlansStand, OpenDeliveries
<1>3. DOMAIN plan.items \subseteq ItemIds
  BY <1>2 DEF PlanStands, ContentStands
<1>4. activeItems(items) = activeItems(plan.items)
  <2>1. activeIds(items) = activeIds(plan.items)
    BY DEF activeIds
  <2>2. [i \in activeIds(items) |-> items[i].order] = [i \in activeIds(plan.items) |-> plan.items[i].order]
    BY <2>1
  <2> QED BY <2>2 DEF activeItems
<1>5. ASSUME NEW f \in DOMAIN plan.heads, relevant(plan, f), f[2] # "lifecycle"
      PROVE  FieldSays(manifest, choices[plan.heads[f]].effect, f)
  <2>1. FieldSays(plan, choices[plan.heads[f]].effect, f) /\ f \in deliveryFields(d, plan.items)
    BY <1>2, <1>5 DEF PlanStands
  <2>2. \/ f[3] = Absent /\ f[2] \in PlanNames
        \/ f[3] # Absent /\ f[3] \in DOMAIN plan.items /\ f[2] \in ItemNames
    BY <1>3, <2>1, FieldIs
  <2>3. DeliveryValue(manifest, f) = DeliveryValue(plan, f)
    <3>1. CASE f[3] = Absent /\ f[2] = "order"
      BY <1>4, <3>1 DEF DeliveryValue
    <3>2. CASE f[3] = Absent /\ f[2] \in {"name", "formatIntent"}
      BY <3>2 DEF DeliveryValue
    <3>3. CASE f[3] # Absent
      <4>1. f[3] \in activeIds(plan.items)
        BY <1>5, <3>3 DEF relevant
      <4>2. manifest.items[f[3]] = plan.items[f[3]]
        BY <4>1
      <4> HIDE DEF manifest
      <4> QED BY <2>2, <3>3, <4>2, ItemValueIs
    <3> QED BY <1>5, <2>2, <3>1, <3>2, <3>3 DEF PlanNames
  <2> HIDE DEF manifest, plan
  <2> QED BY <2>1, <2>2, <2>3, SameValueSays
<1>6. ASSUME NEW f \in DOMAIN manifest.heads
      PROVE  f \in DOMAIN plan.heads /\ relevant(plan, f) /\ manifest.heads[f] = plan.heads[f]
  BY <1>6 DEF Relevant
<1> HIDE DEF manifest
<1>7. \A f \in DOMAIN manifest.heads :
        /\ manifest.heads[f] \in DOMAIN choices
        /\ f[2] # "lifecycle" => FieldSays(manifest, choices[manifest.heads[f]].effect, f)
  BY <1>2, <1>5, <1>6 DEF PlanStands
<1>8. /\ DOMAIN manifests' = {ref} \cup DOMAIN manifests /\ manifests'[ref] = manifest
      /\ \A k \in DOMAIN manifests : k # ref => manifests'[k] = manifests[k]
  BY <1>1 DEF WithRow
<1> QED BY <1>1, <1>7, <1>8 DEF ManifestsStand

\* The user's work on the media of a result.
LEMMA MediaStand ==
  ASSUME MediaRows, NEW r \in Results, NEW row, MediaRevised(r, row), DOMAIN row = DOMAIN media[r], row.revision = media[r].revision
  PROVE  MediaRows'
<1> DEFINE new == [row EXCEPT !.revision = @ + 1]
<1>1. media' = [media EXCEPT ![r] = new]
  BY DEF MediaRevised
<1>2. DOMAIN new = {"lifecycle", "revision", "links"} /\ new.revision \in Nat
  BY DEF MediaRows
<1> HIDE DEF new
<1> QED BY <1>1, <1>2 DEF MediaRows

LEMMA MediaSteps ==
  ASSUME MediaRows, NEW r \in Results, attachProjectMedia(r) \/ detachProjectMedia(r) \/ \E o, mode : linkProjectMedia(r, o, mode)
  PROVE  MediaRows' /\ UNCHANGED <<ledger, objects, choices, deliveries, manifests>>
<1>0. DOMAIN media[r] = {"lifecycle", "revision", "links"}
  BY DEF MediaRows
<1>1. CASE attachProjectMedia(r)
  <2> DEFINE row == [media[r] EXCEPT !.lifecycle = "active"]
  <2>1. MediaRevised(r, row)
    BY <1>1 DEF attachProjectMedia
  <2>2. DOMAIN row = DOMAIN media[r] /\ row.revision = media[r].revision
    BY <1>0
  <2> HIDE DEF row
  <2>3. MediaRows'
    BY <2>1, <2>2, MediaStand
  <2> QED BY <2>1, <2>3 DEF MediaRevised
<1>2. CASE detachProjectMedia(r)
  <2> DEFINE row == [media[r] EXCEPT !.lifecycle = "detached"]
  <2>1. MediaRevised(r, row)
    BY <1>2 DEF detachProjectMedia
  <2>2. DOMAIN row = DOMAIN media[r] /\ row.revision = media[r].revision
    BY <1>0
  <2> HIDE DEF row
  <2>3. MediaRows'
    BY <2>1, <2>2, MediaStand
  <2> QED BY <2>1, <2>3 DEF MediaRevised
<1>3. CASE \E o, mode : linkProjectMedia(r, o, mode)
  <2>0. PICK o, mode : linkProjectMedia(r, o, mode)
    BY <1>3
  <2> DEFINE row == [media[r] EXCEPT !.links = IF mode = "link" THEN @ \cup {o} ELSE @ \ {o}]
  <2>1. MediaRevised(r, row)
    BY <2>0 DEF linkProjectMedia
  <2>2. DOMAIN row = DOMAIN media[r] /\ row.revision = media[r].revision
    BY <1>0
  <2> HIDE DEF row
  <2>3. MediaRows'
    BY <2>1, <2>2, MediaStand
  <2> QED BY <2>1, <2>3 DEF MediaRevised
<1> QED BY <1>1, <1>2, <1>3

-----------------------------------------------------------------------------
\* Answers.  A Wire request that may run was not answered before, and neither was a call without an outcome.
Quiet == objects' = objects /\ choices' = choices /\ deliveries' = deliveries
LEMMA QuietSteps ==
  ASSUME Stands, Quiet
  PROVE  ObjectsStand' /\ DecisionRows' /\ PlansStand' /\ ChoicesStand' /\ ChoicesKept /\ UndoStep /\ \A f \in ProtectedFields : ~Moved(f)
<1>1. ObjectsStand' /\ DecisionRows' /\ PlansStand' /\ ChoicesStand'
  BY DEF Stands, Quiet, ObjectsStand, DecisionRows, PlansStand, ChoicesStand, OpenObjects
<1>2. ChoicesKept /\ UndoStep
  BY DEF Quiet, ChoicesKept, UndoStep
<1>3. ASSUME NEW f \in ProtectedFields PROVE ~Moved(f)
  <2>1. ProtectedObject(f) \/ ProtectedDelivery(f)
    BY ProtectedWhere
  <2> QED BY <2>1, StillThere DEF Quiet, ProtectedObject, ProtectedDelivery
<1> QED BY <1>1, <1>2, <1>3

NewAnswer(author) == \E a \in answers' \ answers : a.author = author
LEMMA RequestAnswered ==
  ASSUME AnswersKnown, NEW r \in Requests, r \notin DOMAIN receipts, NEW input, NEW answer, Respond(r, input, answer),
         dispatches' = dispatches
  PROVE  AnswersKnown' /\ NewAnswer(r)
<1> DEFINE e == [author |-> r, input |-> input, answer |-> answer]
<1>1. e.author = r
  OBVIOUS
<1>2. answers' = answers \cup {e} /\ DOMAIN receipts' = {r} \cup DOMAIN receipts
  BY DEF Respond, WithRow
<1> HIDE DEF e
<1>3. r \notin Dispatches
  BY LedgerAssumption
<1>4. e \notin answers
  BY <1>1 DEF AnswersKnown
<1> QED BY <1>1, <1>2, <1>3, <1>4 DEF AnswersKnown, NewAnswer

LEMMA DispatchAnswered ==
  ASSUME AnswersKnown, DispatchRows, NEW d \in Dispatches, d \notin DOMAIN dispatches \/ dispatches[d].outcome = Absent,
         NEW row, DOMAIN row = DispatchColumns, row.outcome # Absent, Settled(d, row)
  PROVE  AnswersKnown' /\ DispatchRows' /\ NewAnswer(d)
<1> DEFINE e == [author |-> d, input |-> <<row.input>>, answer |-> row.outcome]
<1>1. e.author = d
  OBVIOUS
<1>2. d \notin Requests
  BY LedgerAssumption
<1>3. answers' = answers \cup {e} /\ receipts' = receipts
  BY <1>2 DEF Settled, Respond
<1> HIDE DEF e
<1>4. e \notin answers
  BY <1>1 DEF AnswersKnown
<1>5. /\ DOMAIN dispatches' = {d} \cup DOMAIN dispatches /\ dispatches'[d] = row
      /\ \A k \in DOMAIN dispatches : k # d => dispatches'[k] = dispatches[k]
  BY DEF Settled, WithRow
<1>6. AnswersKnown'
  BY <1>1, <1>2, <1>3, <1>5 DEF AnswersKnown
<1>7. DispatchRows'
  BY <1>5 DEF DispatchRows
<1> QED BY <1>1, <1>3, <1>4, <1>6, <1>7 DEF NewAnswer

\* The columns of the row of a dispatch.
LEMMA RowColumns ==
  ASSUME NEW row, DOMAIN row = DispatchColumns, NEW x
  PROVE  /\ DOMAIN answerConfirmation(row, x) = DispatchColumns
         /\ DOMAIN bindRuntimeDispatchConfirmation(row, x) = DispatchColumns
         /\ DOMAIN transitionRuntimeDispatchGuard(row, x) = DispatchColumns
         /\ DOMAIN bindRuntimeDispatchProjectEvent(row, x) = DispatchColumns
         /\ DOMAIN settleValidatedRuntimeDispatch(row, x) = DispatchColumns
         /\ settleValidatedRuntimeDispatch(row, x).outcome = x
BY DEF answerConfirmation, bindRuntimeDispatchConfirmation, transitionRuntimeDispatchGuard, bindRuntimeDispatchProjectEvent,
       settleValidatedRuntimeDispatch, DispatchColumns

LEMMA Outcomes == protectedMutationDeniedOutcome # Absent /\ \A plan : protectedMutationOutcome(plan) # Absent
<1>1. \A x \in {"succeeded", "permission_denied"} : [status |-> x] # Absent
  BY RunsAssumption
<1> QED BY <1>1 DEF protectedMutationDeniedOutcome, protectedMutationOutcome

\* What a protected field needs to move, and what an undo does.
Agreed(f) == \E a \in answers' \ answers : a.author \in Requests \/ Approved(a.author, f)
StepRules == UndoStep /\ \A f \in ProtectedFields : Moved(f) => Agreed(f)

-----------------------------------------------------------------------------
\* The steps.
LEMMA UserStep ==
  ASSUME Invariant, NEW r \in Requests, MayRun(r), NEW in, executeWireMutation(r, in)
  PROVE  Invariant' /\ StepRules
<1>1. PICK plan \in planProtectedMutation(r, in) :
        /\ commitPlannedProtectedMutation(r, Absent, plan) /\ Respond(r, <<in>>, protectedMutationOutcome(plan))
        /\ UNCHANGED <<runs, dispatches>>
  BY DEF executeWireMutation
<1>2. /\ Stands' /\ ChoicesKept /\ UndoStep
      /\ \A f \in ProtectedFields : Moved(f) => NamesIt(plan, f)
  BY <1>1, Commits DEF Invariant, Authors
<1>3. manifests' = manifests
  BY <1>1 DEF commitPlannedProtectedMutation
<1>4. AnswersKnown' /\ NewAnswer(r)
  BY <1>1, RequestAnswered DEF Invariant, MayRun
<1>5. ManifestsStand' /\ DispatchRows'
  BY <1>1, <1>2, <1>3, ManifestsStay DEF Invariant, DispatchRows
<1>6. \A f : Agreed(f)
  BY <1>4 DEF NewAnswer, Agreed
<1> QED BY <1>2, <1>4, <1>5, <1>6 DEF Invariant, StepRules

\* A call that is done settles its dispatch.
LEMMA SettledStep ==
  ASSUME Invariant, NEW d \in Dispatches, d \notin DOMAIN dispatches \/ dispatches[d].outcome = Absent,
         NEW in, NEW plan \in planProtectedMutation(d, in), NEW row, DOMAIN row = DispatchColumns, CommittedAndSettled(d, row, plan)
  PROVE  /\ Invariant' /\ UndoStep /\ NewAnswer(d) /\ Done(d, in, plan)
         /\ \A f \in ProtectedFields : Moved(f) => NamesIt(plan, f)
<1> DEFINE bound == bindRuntimeDispatchProjectEvent(row, protectedMutationProjectEventId(d, plan))
           settled == settleValidatedRuntimeDispatch(bound, protectedMutationOutcome(plan))
<1>1. commitPlannedProtectedMutation(d, row, plan) /\ Settled(d, settled)
  BY DEF CommittedAndSettled
<1>2. DOMAIN bound = DispatchColumns
  BY RowColumns
<1> HIDE DEF bound
<1>3. DOMAIN settled = DispatchColumns /\ settled.outcome = protectedMutationOutcome(plan)
  BY <1>2, RowColumns
<1>4. settled.outcome # Absent
  BY <1>3, Outcomes
<1> HIDE DEF settled
<1>5. AnswersKnown' /\ DispatchRows' /\ NewAnswer(d)
  BY <1>1, <1>3, <1>4, DispatchAnswered DEF Invariant
<1>6. /\ Stands' /\ ChoicesKept /\ UndoStep /\ Done(d, in, plan)
      /\ \A f \in ProtectedFields : Moved(f) => NamesIt(plan, f)
  BY <1>1, Commits DEF Invariant, Authors
<1>7. manifests' = manifests
  BY <1>1 DEF commitPlannedProtectedMutation
<1>8. ManifestsStand'
  BY <1>6, <1>7, ManifestsStay DEF Invariant
<1> QED BY <1>5, <1>6, <1>8 DEF Invariant

LEMMA CallStep ==
  ASSUME Invariant, NEW d \in Dispatches, NEW in, prepareProtectedMutationBoundary(d, in)
  PROVE  Invariant' /\ StepRules
<1> DEFINE row == prepareProtectedMutationRuntimeDispatch(in)
<1>1. d \notin DOMAIN dispatches
  BY DEF prepareProtectedMutationBoundary
<1>2. PICK plan \in planProtectedMutation(d, in) : AllowedAtOnce(d, row, plan) \/ ConfirmationRequested(d, row, plan)
  BY DEF prepareProtectedMutationBoundary
<1>3. DOMAIN row = DispatchColumns
  BY DEF prepareProtectedMutationRuntimeDispatch, DispatchColumns
<1> HIDE DEF row
<1>4. CASE AllowedAtOnce(d, row, plan)
  <2> DEFINE allowed == transitionRuntimeDispatchGuard(row, "allowed")
  <2>1. ~protectedMutationRequiresConfirmation(plan) /\ CommittedAndSettled(d, allowed, plan)
    BY <1>4 DEF AllowedAtOnce
  <2>2. DOMAIN allowed = DispatchColumns
    BY <1>3, RowColumns
  <2> HIDE DEF allowed
  <2>3. /\ Invariant' /\ UndoStep
        /\ \A f \in ProtectedFields : Moved(f) => NamesIt(plan, f)
    BY <1>1, <2>1, <2>2, SettledStep
  <2>4. \A f : ~NamesIt(plan, f)
    BY <2>1 DEF protectedMutationRequiresConfirmation, NamesIt
  <2> QED BY <2>3, <2>4 DEF StepRules
<1>5. CASE ConfirmationRequested(d, row, plan)
  <2> DEFINE waiting == bindRuntimeDispatchConfirmation(row, protectedMutationConfirmationTarget(d, plan))
  <2>1. dispatches' = WithRow(dispatches, d, waiting) /\ UNCHANGED <<ledger, owned>>
    BY <1>5 DEF ConfirmationRequested
  <2>2. DOMAIN waiting = DispatchColumns
    BY <1>3, RowColumns
  <2> HIDE DEF waiting
  <2>3. Quiet /\ manifests' = manifests /\ media' = media /\ answers' = answers /\ receipts' = receipts
    BY <2>1 DEF Quiet, ledger, owned, delivered
  <2>4. /\ ObjectsStand' /\ DecisionRows' /\ PlansStand' /\ ChoicesStand' /\ ChoicesKept /\ UndoStep
        /\ \A f \in ProtectedFields : ~Moved(f)
    BY <2>3, QuietSteps DEF Invariant
  <2>5. ManifestsStand' /\ MediaRows'
    BY <2>3, <2>4, ManifestsStay DEF Invariant, Stands, MediaRows
  <2>6. /\ DOMAIN dispatches' = {d} \cup DOMAIN dispatches /\ dispatches'[d] = waiting
        /\ \A k \in DOMAIN dispatches : dispatches'[k] = dispatches[k]
    BY <1>1, <2>1 DEF WithRow
  <2>7. DispatchRows' /\ AnswersKnown'
    BY <2>2, <2>3, <2>6 DEF Invariant, DispatchRows, AnswersKnown
  <2> QED BY <2>4, <2>5, <2>7 DEF Invariant, Stands, StepRules
<1> QED BY <1>2, <1>4, <1>5

\* The user answers: what is approved is what was shown.
LEMMA ResponseStep ==
  ASSUME Invariant, NEW d \in Dispatches, NEW decision, respondProtectedMutationConfirmation(d, decision)
  PROVE  Invariant' /\ StepRules
<1> DEFINE answered == answerConfirmation(dispatches[d], decision)
<1>1. Pending(d)
  BY DEF respondProtectedMutationConfirmation
<1>2. d \in DOMAIN dispatches /\ dispatches[d].outcome = Absent /\ DOMAIN dispatches[d] = DispatchColumns
  BY <1>1 DEF Pending, Invariant, DispatchRows
<1>3. DOMAIN answered = DispatchColumns
  BY <1>2, RowColumns
<1>4. CASE decision = "denied"
  <2> DEFINE denied == transitionRuntimeDispatchGuard(answered, "denied")
             settled == settleValidatedRuntimeDispatch(denied, protectedMutationDeniedOutcome)
  <2>1. Settled(d, settled) /\ UNCHANGED <<owned, project, events>>
    BY <1>4 DEF respondProtectedMutationConfirmation
  <2> HIDE DEF answered
  <2>2. DOMAIN denied = DispatchColumns
    BY <1>3, RowColumns
  <2> HIDE DEF denied
  <2>3. DOMAIN settled = DispatchColumns /\ settled.outcome # Absent
    BY <2>2, RowColumns, Outcomes
  <2> HIDE DEF settled
  <2>4. AnswersKnown' /\ DispatchRows'
    BY <1>2, <2>1, <2>3, DispatchAnswered DEF Invariant
  <2>5. Quiet /\ manifests' = manifests /\ media' = media
    BY <2>1 DEF Quiet, owned, delivered
  <2>6. /\ ObjectsStand' /\ DecisionRows' /\ PlansStand' /\ ChoicesStand' /\ ChoicesKept /\ UndoStep
        /\ \A f \in ProtectedFields : ~Moved(f)
    BY <2>5, QuietSteps DEF Invariant
  <2>7. ManifestsStand' /\ MediaRows'
    BY <2>5, <2>6, ManifestsStay DEF Invariant, Stands, MediaRows
  <2> QED BY <2>4, <2>6, <2>7 DEF Invariant, Stands, StepRules
<1>5. CASE decision # "denied"
  <2> DEFINE allowed == transitionRuntimeDispatchGuard(answered, "allowed")
  <2>1. PICK plan \in planConfirmedProtectedMutation(d) : CommittedAndSettled(d, allowed, plan)
    BY <1>5 DEF respondProtectedMutationConfirmation
  <2> HIDE DEF answered
  <2>2. DOMAIN allowed = DispatchColumns
    BY <1>3, RowColumns
  <2> HIDE DEF allowed
  <2>3. /\ plan \in planProtectedMutation(d, dispatches[d].input)
        /\ dispatches[d].confirmation.target = protectedMutationConfirmationTarget(d, plan)
    BY DEF planConfirmedProtectedMutation, assertProtectedMutationPlanMatchesTarget
  <2>4. /\ Invariant' /\ UndoStep /\ NewAnswer(d) /\ Done(d, dispatches[d].input, plan)
        /\ \A f \in ProtectedFields : Moved(f) => NamesIt(plan, f)
    BY <1>2, <2>1, <2>2, <2>3, SettledStep
  <2>5. ASSUME NEW f, NamesIt(plan, f) PROVE Agreed(f)
    <3>1. /\ dispatches[d].confirmation.target.owner = plan.owner /\ dispatches[d].confirmation.target.fields = plan.fields
          /\ dispatches[d].confirmation.target.effect = plan.effect
      BY <2>3 DEF protectedMutationConfirmationTarget
    <3>2. Approved(d, f)
      BY <1>1, <2>4, <2>5, <3>1 DEF NamesIt, Done, Approved
    <3> QED BY <2>4, <3>2 DEF NewAnswer, Agreed
  <2> QED BY <2>4, <2>5 DEF StepRules
<1> QED BY <1>4, <1>5

\* What else happens leaves objects, Choices and Deliveries alone.
LEMMA QuietStep ==
  ASSUME Invariant, Quiet, MediaRows', DispatchRows', AnswersKnown', manifests' = manifests \/ \E ref : freezeDelivery(ref)
  PROVE  Invariant' /\ StepRules
<1>1. /\ ObjectsStand' /\ DecisionRows' /\ PlansStand' /\ ChoicesStand' /\ ChoicesKept /\ UndoStep
      /\ \A f \in ProtectedFields : ~Moved(f)
  BY QuietSteps DEF Invariant
<1>2. ManifestsStand'
  BY <1>1, ManifestsStay, FreezeStands DEF Invariant
<1> QED BY <1>1, <1>2 DEF Invariant, Stands, StepRules

LEMMA ProjectStep ==
  ASSUME Invariant, NEW r \in Requests, NEW base, NEW name, NEW lifecycle, updateProject(r, base, name, lifecycle),
         UNCHANGED <<owned, runs, dispatches>>
  PROVE  Invariant' /\ StepRules
<1>1. Quiet /\ manifests' = manifests /\ media' = media /\ dispatches' = dispatches
  BY DEF Quiet, owned, delivered
<1>2. r \notin DOMAIN receipts /\ \E input, answer : Respond(r, input, answer)
  BY DEF updateProject, MayRun
<1>3. AnswersKnown'
  BY <1>1, <1>2, RequestAnswered DEF Invariant
<1>4. MediaRows' /\ DispatchRows'
  BY <1>1 DEF Invariant, Stands, MediaRows, DispatchRows
<1> QED BY <1>1, <1>3, <1>4, QuietStep

LEMMA FreezeStep ==
  ASSUME Invariant, NEW q, NEW ref, settleDeliveryFreezeBoundary(q, ref)
  PROVE  Invariant' /\ StepRules
<1>1. freezeDelivery(ref) /\ dispatches' = dispatches
  BY DEF settleDeliveryFreezeBoundary
<1>2. Quiet /\ media' = media /\ receipts' = receipts /\ answers' = answers
  BY <1>1 DEF freezeDelivery, Quiet
<1>3. MediaRows' /\ DispatchRows' /\ AnswersKnown'
  BY <1>1, <1>2 DEF Invariant, Stands, MediaRows, DispatchRows, AnswersKnown
<1> QED BY <1>1, <1>2, <1>3, QuietStep

LEMMA MediaStep ==
  ASSUME Invariant, NEW r \in Results, attachProjectMedia(r) \/ detachProjectMedia(r) \/ \E o, mode : linkProjectMedia(r, o, mode),
         UNCHANGED <<runs, dispatches>>
  PROVE  Invariant' /\ StepRules
<1>1. MediaRows' /\ UNCHANGED <<ledger, objects, choices, deliveries, manifests>>
  BY MediaSteps DEF Invariant, Stands
<1>2. Quiet /\ manifests' = manifests /\ receipts' = receipts /\ answers' = answers /\ dispatches' = dispatches
  BY <1>1 DEF Quiet, ledger
<1>3. DispatchRows' /\ AnswersKnown'
  BY <1>2 DEF Invariant, DispatchRows, AnswersKnown
<1> QED BY <1>1, <1>2, <1>3, QuietStep

LEMMA OtherSteps ==
  ASSUME Invariant, (\E q : RunLeaves(q)) \/ UNCHANGED vars
  PROVE  Invariant' /\ StepRules
<1>1. UNCHANGED <<ledger, owned, dispatches>>
  BY DEF RunLeaves, vars
<1>2. /\ Quiet /\ manifests' = manifests /\ media' = media /\ receipts' = receipts /\ answers' = answers
      /\ dispatches' = dispatches
  BY <1>1 DEF Quiet, ledger, owned, delivered
<1>3. MediaRows' /\ DispatchRows' /\ AnswersKnown'
  BY <1>2 DEF Invariant, Stands, MediaRows, DispatchRows, AnswersKnown
<1> QED BY <1>2, <1>3, QuietStep

-----------------------------------------------------------------------------
LEMMA Step ==
  ASSUME Invariant, [Next]_vars
  PROVE  Invariant' /\ StepRules
<1>1. CASE \E r \in Requests : MayRun(r) /\ \E in \in Inputs(r, UserTools) : executeWireMutation(r, in)
  BY <1>1, UserStep
<1>2. CASE \E d \in Dispatches : MayRun(d) /\ d \notin DOMAIN dispatches
                                 /\ \E in \in Inputs(d, RunTools) : prepareProtectedMutationBoundary(d, in)
  BY <1>2, CallStep
<1>3. CASE \E d \in Dispatches, decision \in {"approved", "denied"} : respondProtectedMutationConfirmation(d, decision)
  BY <1>3, ResponseStep
<1>4. CASE \E r \in Requests, lifecycle \in {"active", "archived"} :
             /\ "project.update" \in UserTools /\ updateProject(r, project.revision, project.name, lifecycle)
             /\ UNCHANGED <<owned, runs, dispatches>>
  BY <1>4, ProjectStep
<1>5. CASE \E q \in Runs, d \in OpenDeliveries : settleDeliveryFreezeBoundary(q, deliveryRef(d))
  BY <1>5, FreezeStep
<1>6. CASE \E r \in Results : (attachProjectMedia(r) \/ detachProjectMedia(r)) /\ UNCHANGED <<runs, dispatches>>
  BY <1>6, MediaStep
<1>7. CASE \E r \in Results, o \in OpenObjects, mode \in {"link", "unlink"} :
             linkProjectMedia(r, o, mode) /\ UNCHANGED <<runs, dispatches>>
  BY <1>7, MediaStep
<1>8. CASE (\E q \in Leavers : RunLeaves(q)) \/ UNCHANGED vars
  BY <1>8, OtherSteps
<1> QED BY <1>1, <1>2, <1>3, <1>4, <1>5, <1>6, <1>7, <1>8, Zenon DEF Next

LEMMA Start == Init => Invariant
<1> SUFFICES ASSUME Init PROVE Invariant
  OBVIOUS
<1>1. PICK seed \in Seeds :
        /\ objects = seed.objects /\ choices = seed.choices /\ deliveries = seed.deliveries
        /\ manifests = <<>> /\ media = [r \in Results |-> [lifecycle |-> "active", revision |-> 0, links |-> {}]]
        /\ receipts = <<>> /\ events = <<>> /\ answers = {} /\ dispatches = <<>>
  BY DEF Init
<1>2. SeedStands(seed)
  BY RunsAssumption
<1>3. /\ ObjectsStand /\ DecisionRows /\ PlansStand /\ ChoicesStand
  BY <1>1, <1>2 DEF SeedStands, ObjectsStand, DecisionRows, PlansStand, ChoicesStand, OpenObjects
<1>4. MediaRows
  BY <1>1 DEF MediaRows
<1>5. DOMAIN manifests = {} /\ DOMAIN dispatches = {}
  BY <1>1
<1> QED BY <1>1, <1>3, <1>4, <1>5 DEF Invariant, Stands, ManifestsStand, DispatchRows, AnswersKnown

\* In every state the rows stand: the objects contain each other as a forest, decisions, protections and plans are what
\* the Choices they name say, a Choice that was the last change can be taken back, Manifests keep what was frozen, and
\* what was answered is recorded (production.ts, user-choices.ts, delivery.ts, protected-mutation.ts).
THEOREM ProtectedInvariant == Spec => []Invariant
<1>1. Invariant /\ [Next]_vars => Invariant'
  BY Step
<1> QED BY <1>1, Start, PTL DEF Spec

\* However many users and Runs link and unlink, containment stays a forest (production.ts: assertChildHasNoParent,
\* assertNoContainmentCycle).
THEOREM ContainmentStaysForest == Spec => []ContainmentIsForest
<1>1. Invariant => ContainmentIsForest
  <2> SUFFICES ASSUME Invariant, NEW o \in OpenObjects
               PROVE  Cardinality(Parents(o)) <= 1 /\ \A p \in Parents(o) : p \notin Reached(o)
    BY DEF ContainmentIsForest
  <2>1. ContainmentStands(objects)
    BY DEF Invariant, Stands, ObjectsStand
  <2>2. \A p, q \in Parents(o) : p = q
    BY <2>1 DEF ContainmentStands, Parents, Holds, OpenObjects
  <2>3. Cardinality(Parents(o)) <= 1
    <3>1. CASE Parents(o) = {}
      <4>1. Cardinality(Parents(o)) = 0
        BY <3>1, FS_EmptySet
      <4> QED BY <4>1
    <3>2. CASE Parents(o) # {}
      <4>1. PICK p : p \in Parents(o)
        BY <3>2
      <4>2. Parents(o) = {p}
        BY <2>2, <4>1
      <4>3. Cardinality(Parents(o)) = 1
        BY <4>2, FS_Singleton
      <4> QED BY <4>3
    <3> QED BY <3>1, <3>2
  <2>4. ASSUME NEW p \in Parents(o) PROVE p \notin Reached(o)
    <3>1. p \in DOMAIN objects /\ Holds(objects, p, o)
      BY <2>4 DEF Parents, Holds, OpenObjects
    <3>2. PICK S \in SUBSET DOMAIN objects : o \in S /\ p \notin S /\ ClosedDownwards(objects, S)
      BY <2>1, <3>1 DEF ContainmentStands, OpenObjects
    <3> QED BY <3>2 DEF Reached, OpenObjects
  <2> QED BY <2>3, <2>4
<1> QED BY <1>1, ProtectedInvariant, PTL

\* Every decision and every protection of an object cites the Choice that made it, and of the results of a Shot one is
\* selected at most, through any number of decisions and undos (user-choices.ts).
THEOREM DecisionsCite == Spec => []DecisionsCiteTheirChoices
<1>1. Invariant => DecisionsCiteTheirChoices
  <2> SUFFICES ASSUME Invariant, NEW o \in OpenObjects
               PROVE  /\ \A r \in DOMAIN objects[o].decisions :
                           /\ choices[objects[o].decisions[r].choice].effect.kind = "result_decisions"
                           /\ choices[objects[o].decisions[r].choice].effect.shot = o
                           /\ choices[objects[o].decisions[r].choice].effect.entries[r] = objects[o].decisions[r].value
                      /\ \A f \in DOMAIN objects[o].protections :
                           choices[objects[o].protections[f]].effect = ProtectionEffect(f, TRUE)
                      /\ Cardinality({r \in DOMAIN objects[o].decisions : objects[o].decisions[r].value = "selected"}) <= 1
    BY DEF DecisionsCiteTheirChoices
  <2>1. DecisionsStand(choices, o, objects[o])
    BY DEF Invariant, Stands, DecisionRows
  <2> DEFINE Selected == {r \in DOMAIN objects[o].decisions : objects[o].decisions[r].value = "selected"}
  <2>2. \A r, s \in Selected : r = s
    <3>1. SelectedOnce(Values(objects[o].decisions))
      BY <2>1, ShownIs DEF DecisionsStand
    <3> QED BY <3>1 DEF SelectedOnce, Values
  <2>3. Cardinality(Selected) <= 1
    <3>1. CASE Selected = {}
      <4>1. Cardinality(Selected) = 0
        BY <3>1, FS_EmptySet
      <4> QED BY <4>1
    <3>2. CASE Selected # {}
      <4>1. PICK r : r \in Selected
        BY <3>2
      <4> HIDE DEF Selected
      <4>2. Selected = {r}
        BY <2>2, <4>1
      <4>3. Cardinality(Selected) = 1
        BY <4>2, FS_Singleton
      <4> QED BY <4>3
    <3> QED BY <3>1, <3>2
  <2> HIDE DEF Selected
  <2>4. \A r \in DOMAIN objects[o].decisions :
          /\ choices[objects[o].decisions[r].choice].effect.kind = "result_decisions"
          /\ choices[objects[o].decisions[r].choice].effect.shot = o
          /\ choices[objects[o].decisions[r].choice].effect.entries[r] = objects[o].decisions[r].value
    BY <2>1 DEF DecisionsStand, DecidedBy
  <2>5. \A f \in DOMAIN objects[o].protections : choices[objects[o].protections[f]].effect = ProtectionEffect(f, TRUE)
    BY <2>1 DEF DecisionsStand, ProtectedBy
  <2> QED BY <2>3, <2>4, <2>5 DEF Selected
<1> QED BY <1>1, ProtectedInvariant, PTL

\* Every field of a Delivery names the Choice that gave it its value, and a Manifest what the frozen revision had, through
\* edits, undos and freezes (delivery.ts: withChoiceHeads, freezeDeliveryInTransaction).
THEOREM PlanCites == Spec => []PlanCitesItsChoices
<1>1. Invariant => PlanCitesItsChoices
  BY DEF Invariant, Stands, PlansStand, PlanStands, ManifestsStand, PlanCitesItsChoices, OpenDeliveries, FrozenRevisions
<1> QED BY <1>1, ProtectedInvariant, PTL

\* A protected field moves only when the user does it or approved exactly that, and an undo brings back all that the owner
\* of the undone Choice showed, whatever users and Runs did meanwhile (protected-mutation.ts, user-choices.ts).
THEOREM DecisionsRuled == Spec => DecisionsRule
<1>1. Invariant /\ [Next]_vars =>
        [\A f \in ProtectedFields :
           FieldValue(f)' # FieldValue(f) \/ f \notin ProtectedFields' =>
             \E a \in answers' \ answers : a.author \in Requests \/ Approved(a.author, f)]_vars
  <2> SUFFICES ASSUME Invariant, [Next]_vars
               PROVE  \A f \in ProtectedFields :
                        FieldValue(f)' # FieldValue(f) \/ f \notin ProtectedFields' =>
                          \E a \in answers' \ answers : a.author \in Requests \/ Approved(a.author, f)
    OBVIOUS
  <2>1. \A f \in ProtectedFields : Moved(f) => Agreed(f)
    BY Step DEF StepRules
  <2> QED BY <2>1 DEF Moved, Agreed
<1>2. Invariant /\ [Next]_vars =>
        [\A c \in DOMAIN choices' \ DOMAIN choices : choices'[c].undoes # Absent =>
           \A o \in OpenObjects \cup OpenDeliveries :
             o = choices'[c].ownerAfter[1] => Shown(o)' = choices[choices'[c].undoes].seen]_vars
  BY Step DEF StepRules, UndoStep
<1> QED BY <1>1, <1>2, ProtectedInvariant, PTL DEF Spec, DecisionsRule, ProtectedFieldsHoldStill, UndoRestores
==============================================================================
