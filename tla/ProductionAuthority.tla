------------------------- MODULE ProductionAuthority -------------------------
(* The Production objects of a Project (scenes, shots, what they show), the  *)
(* relations between them and the sources they cite.  A command is planned   *)
(* first: the plan says what it would write, which protected fields that     *)
(* touches and which Choices protect them; a refused command has no plan.    *)
EXTENDS ProjectLedger

CONSTANTS
  ObjectIds,   \* Production objects: those there from the start, and one named after each author of a command
  Contents,    \* what an object may say
  Results,     \* generated results
  ShotOf       \* the Shot each result was generated for

ASSUME ProductionAssumption ==
  /\ Authors \subseteq ObjectIds /\ ShotOf \in [Results -> ObjectIds]
  /\ Absent \notin ObjectIds \cup Results /\ Absent \notin ObjectIds \X Nat

VARIABLES objects  \* production_objects by id, with their relations, fact sources, protections and decisions

Types == {"scene", "shot"}
Relations == {"contains", "uses"}
ObjectLifecycles == {"active", "archived", "deleted"}

\* A protectable field: of an object or a Delivery, its name, and the result or the item it is about, or Absent.
Field(owner, name, part) == <<owner, name, part>>

OpenObjects == DOMAIN objects
productionRef(o) == <<o, objects[o].revision>>
loadProductionObject(o) == o \in OpenObjects
requireProductionRef(ref) == loadProductionObject(ref[1]) /\ ref = productionRef(ref[1])
\* Of a cited source the current head counts, whatever its authority; here another Production object.
requireCurrentDomainObject(ref) == requireProductionRef(ref)
requireProjectRevision(revision) == projectFromRow /\ project.revision = revision

Choosers(protections, fields) == {protections[f] : f \in DOMAIN protections \cap fields}
activeProductionChoiceIds(o, fields) == Choosers(objects[o].protections, fields)

createObjectChange(type, content, relations) ==
  [type |-> type, revision |-> 0, lifecycle |-> "active", content |-> content, relations |-> relations,
   cites |-> {}, protections |-> <<>>, decisions |-> <<>>]
reviseObjectChange(o, row) == [row EXCEPT !.revision = objects[o].revision + 1]

\* What a production command writes, and of the object that owns the change, the fields it touches.
plannedProductionMutation(owner, names, rows) ==
  LET fields == {Field(owner[1], n, Absent) : n \in names} IN
  [tool |-> "production.mutate", owner |-> owner, fields |-> fields,
   active |-> IF owner = Absent THEN {} ELSE activeProductionChoiceIds(owner[1], fields),
   before |-> Absent, effect |-> [kind |-> "production", rows |-> rows], supersedes |-> {}, undoes |-> Absent, rows |-> rows, plans |-> <<>>]

Empty(owner) == {plannedProductionMutation(owner, {}, <<>>)}
Revise(owner, names, row) ==
  {plannedProductionMutation(owner, names, [o \in {owner[1]} |-> reviseObjectChange(o, row)])}

\* A mutant: an object may have two parents.
AnyParent(child) == TRUE
assertChildHasNoParent(child) == \A p \in OpenObjects : <<"contains", child>> \notin objects[p].relations
\* What every set that holds an object, and with an object all that it contains, holds.
Holds(table, p, o) == <<"contains", o>> \in table[p].relations
ClosedDownwards(table, S) == \A p \in S, o \in DOMAIN table : Holds(table, p, o) => o \in S
Reached(from) ==
  {o \in OpenObjects : \A S \in SUBSET OpenObjects : from \in S /\ ClosedDownwards(objects, S) => o \in S}
assertNoContainmentCycle(source, target) == source \notin Reached(target)

\* Relations given whole never hold containment, lead to objects that are there, and not to the object itself.
validateNonContainmentRelations(o, relations) ==
  \A r \in relations : r[1] # "contains" /\ r[2] # o /\ loadProductionObject(r[2])
nonContainmentReplacementWrites(o, relations) ==
  {r \in objects[o].relations : r[1] = "contains"} \cup relations

\* An object is created on the Project revision its author read, under a parent whose relations it joins.
planCreateMutation(a, in) ==
  LET child == createObjectChange(in.type, in.content, in.relations)
      parent == objects[in.parent[1]] IN
  IF ~(/\ requireProjectRevision(in.base) /\ a \notin OpenObjects
       /\ validateNonContainmentRelations(a, in.relations)
       /\ in.parent # Absent => requireProductionRef(in.parent))
    THEN {}
  ELSE IF in.parent = Absent THEN {plannedProductionMutation(Absent, {}, [o \in {a} |-> child])}
  ELSE LET joined == [parent EXCEPT !.relations = @ \cup {<<"contains", a>>}] IN
       {plannedProductionMutation(in.parent, {"relations"},
          [o \in {a, in.parent[1]} |-> IF o = a THEN child ELSE reviseObjectChange(o, joined)])}

planUpdateMutation(in) ==
  LET before == objects[in.ref[1]] IN
  IF ~requireProductionRef(in.ref) THEN {}
  ELSE IF before.content = in.content THEN Empty(in.ref)
  ELSE Revise(in.ref, {"content"}, [before EXCEPT !.content = in.content])

\* A link that is there, or an unlink of one that is not, changes nothing; a contained object has one parent
\* and contains neither itself nor what contains it.
planRelateMutation(in) ==
  LET source == objects[in.ref[1]]
      link == <<in.relation, in.target[1]>> IN
  IF ~(requireProductionRef(in.ref) /\ requireProductionRef(in.target) /\ in.ref[1] # in.target[1]) THEN {}
  ELSE IF (link \in source.relations) = (in.action = "link") THEN Empty(in.ref)
  ELSE IF /\ in.action = "link" /\ in.relation = "contains"
          /\ ~(assertChildHasNoParent(in.target[1]) /\ assertNoContainmentCycle(in.ref[1], in.target[1])) THEN {}
  ELSE Revise(in.ref, {"relations"},
              [source EXCEPT !.relations = IF in.action = "link" THEN @ \cup {link} ELSE @ \ {link}])

planLifecycleMutation(in) ==
  LET before == objects[in.ref[1]]
      expected == IF in.action = "archive" THEN "archived" ELSE "active" IN
  IF ~requireProductionRef(in.ref) THEN {}
  ELSE IF before.lifecycle = "deleted" THEN {}
  ELSE IF before.lifecycle = expected THEN Empty(in.ref)
  ELSE Revise(in.ref, {"lifecycle"}, [before EXCEPT !.lifecycle = expected])

\* A citation touches no protected field; a source cited already keeps its relation.
planCitationMutation(in) ==
  LET before == objects[in.ref[1]]
      same == {c \in before.cites : c.source = in.source} IN
  IF ~(requireProductionRef(in.ref) /\ requireCurrentDomainObject(in.source)) THEN {}
  ELSE IF same # {} THEN IF \A c \in same : c.relation = in.relation THEN Empty(in.ref) ELSE {}
  ELSE Revise(in.ref, {}, [before EXCEPT !.cites = @ \cup {[source |-> in.source, relation |-> in.relation]}])

\* The user's whole replacement: content, relations other than containment, and any lifecycle at all.
planReplaceMutation(in) ==
  LET before == objects[in.ref[1]]
      after == [before EXCEPT !.content = in.content, !.lifecycle = in.lifecycle,
                              !.relations = nonContainmentReplacementWrites(in.ref[1], in.relations)]
      changed == {n \in {"content", "relations", "lifecycle"} : before[n] # after[n]} IN
  IF ~(requireProductionRef(in.ref) /\ validateNonContainmentRelations(in.ref[1], in.relations)) THEN {}
  ELSE IF changed = {} THEN Empty(in.ref) ELSE Revise(in.ref, changed, after)

planProductionMutation(a, in) ==
  CASE in.action = "create" -> planCreateMutation(a, in)
    [] in.action = "update" -> planUpdateMutation(in)
    [] in.action \in {"link", "unlink"} -> planRelateMutation(in)
    [] in.action \in {"archive", "restore"} -> planLifecycleMutation(in)
    [] in.action = "cite" -> planCitationMutation(in)
    [] OTHER -> planReplaceMutation(in)

\* What a production.mutate call, or the user's production.apply, may ask, of the heads its author reads now; of
\* a whole replacement one part at a time.
ProductionInputs(a) ==
  LET refs == {productionRef(o) : o \in OpenObjects}
      In(action, S) == {[tool |-> "production.mutate", action |-> action] @@ s : s \in S}
      Whole(o) == [ref |-> productionRef(o), content |-> objects[o].content, lifecycle |-> objects[o].lifecycle,
                   relations |-> {r \in objects[o].relations : r[1] # "contains"}] IN
  In("create", [type : Types, content : {CHOOSE c \in Contents : TRUE}, base : {project.revision},
                parent : refs \cup {Absent}, relations : {{}}])
  \cup In("cite", [ref : refs, source : refs, relation : {"supports", "contradicts"}])
  \cup IF a \in Requests
         THEN UNION {In("replace", {[Whole(o) EXCEPT !.content = c] : c \in Contents}
                                     \cup {[Whole(o) EXCEPT !.lifecycle = l] : l \in ObjectLifecycles}
                                     \cup {[Whole(o) EXCEPT !.relations = {<<"uses", t>>}] : t \in OpenObjects}) :
                       o \in OpenObjects}
         ELSE In("update", [ref : refs, content : Contents])
              \cup (UNION {In(action, [ref : refs, target : refs, relation : Relations]) : action \in {"link", "unlink"}})
              \cup (UNION {In(action, [ref : refs]) : action \in {"archive", "restore"}})

-----------------------------------------------------------------------------
\* What the table of objects keeps to.  Its rows have their columns.
ObjectColumns == {"type", "revision", "lifecycle", "content", "relations", "cites", "protections", "decisions"}
ObjectTable(table) ==
  \A o \in DOMAIN table : o \in ObjectIds /\ DOMAIN table[o] = ObjectColumns /\ table[o].revision \in Nat

\* What an object contains is there, in no other object, and does not lead back to it.
ContainmentStands(table) ==
  /\ \A p \in DOMAIN table : \A r \in table[p].relations : r[1] = "contains" => r[2] \in DOMAIN table
  /\ \A p, q, o \in DOMAIN table : Holds(table, p, o) /\ Holds(table, q, o) => p = q
  /\ \A p, o \in DOMAIN table : Holds(table, p, o) =>
       \E S \in SUBSET DOMAIN table : o \in S /\ p \notin S /\ ClosedDownwards(table, S)
==============================================================================
