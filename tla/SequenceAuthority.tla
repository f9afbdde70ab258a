-------------------------- MODULE SequenceAuthority --------------------------
(* The Sequence documents of a Project: scenes, the shots under them and the *)
(* clips under the shots, each row with the ordinal it has among its         *)
(* siblings.  One Wire command replaces the whole document.                  *)
EXTENDS ProjectLedger

CONSTANTS
  SequenceIds, Items,   \* ids the program may create
  Scenes, Shots,        \* Production objects a scene or a shot item may show
  Results,              \* generated results a clip may show
  ShotOf                \* the Shot each result was generated for

ASSUME SequenceAssumption ==
  /\ Scenes \cap Shots = {} /\ ShotOf \in [Results -> Shots]

VARIABLES
  sequences,  \* sequence_documents with their items: a document for each row
  heads       \* Production objects: current revision, and whether they are active

Objects == Scenes \cup Shots
Heads == [revision : Nat, active : BOOLEAN]
TargetsOf(kind) == CASE kind = "scene" -> Scenes [] kind = "shot" -> Shots [] kind = "clip" -> Results
SequenceItem == [kind : {"scene", "shot", "clip"}, parent : Items \cup {Absent}, ordinal : Nat,
                 target : Objects \cup Results, pinned : Nat]
\* A table has a row for some of the ids.
KeyedBy(table, ids) == table = [i \in DOMAIN table |-> table[i]] /\ DOMAIN table \subseteq ids
Table(table, ids, rows) == KeyedBy(table, ids) /\ \A i \in DOMAIN table : table[i] \in rows
SequenceDocument(doc) ==
  /\ doc \in [revision : Nat, name : Names, lifecycle : {"active", "archived"}, items : {doc.items}]
  /\ Table(doc.items, Items, SequenceItem)

createEmptySequence == [revision |-> 0, name |-> "first", lifecycle |-> "active", items |-> <<>>]

siblings(doc, parent) == {i \in DOMAIN doc.items : doc.items[i].parent = parent}
\* The items in the order of their ordinals, which differ among siblings.
Rising(doc, order) ==
  \A m, n \in DOMAIN order : m < n => doc.items[order[m]].ordinal < doc.items[order[n]].ordinal
InOrder(doc, ids) == CHOOSE order \in SetToSeqs(ids) : Rising(doc, order)

\* SequenceDocumentSchema: what finalizeSequence parses every document against before it is written.
ShapeOK(doc, i) ==
  LET parent == doc.items[i].parent IN
  CASE doc.items[i].kind = "scene" -> parent = Absent
    [] doc.items[i].kind = "shot" -> parent \in DOMAIN doc.items /\ doc.items[parent].kind = "scene"
    [] doc.items[i].kind = "clip" -> parent \in DOMAIN doc.items /\ doc.items[parent].kind = "shot"
Dense(doc, parent) ==
  {doc.items[i].ordinal : i \in siblings(doc, parent)} = 0..(Cardinality(siblings(doc, parent)) - 1)
WellFormedSequence(doc) ==
  /\ \A i \in DOMAIN doc.items : ShapeOK(doc, i)
  /\ \A parent \in DOMAIN doc.items \cup {Absent} : Dense(doc, parent)

\* A clip shows a result of the very Shot it stands under, wherever it has been moved since.
ClipsShowTheirShot(doc) ==
  \A i \in DOMAIN doc.items : doc.items[i].kind = "clip" =>
    ShotOf[doc.items[i].target] = doc.items[doc.items[i].parent].target

\* updateSiblingOrdinals: order becomes the sequence of the children of parent.
updateSiblingOrdinals(items, parent, order) ==
  [i \in DOMAIN items |->
     IF i \in ToSet(order)
       THEN [items[i] EXCEPT !.parent = parent, !.ordinal = (CHOOSE n \in DOMAIN order : order[n] = i) - 1]
       ELSE items[i]]

AppendedItem(doc, id, kind, parent, target, pinned) ==
  [doc EXCEPT !.items =
     [i \in DOMAIN @ \cup {id} |->
        IF i # id THEN @[i]
        ELSE [kind |-> kind, parent |-> parent, ordinal |-> Cardinality(siblings(doc, parent)),
              target |-> target, pinned |-> pinned]]]

\* The clip's result takes its place; trim, audio, transition and review state are left out.
ClipUpdated(doc, id, result) == [doc EXCEPT !.items[id].target = result]

MovedItem(doc, id, parent, index) ==
  LET from == doc.items[id].parent
      sourceIds == InOrder(doc, siblings(doc, from) \ {id})
      targetIds == IF from = parent THEN sourceIds ELSE InOrder(doc, siblings(doc, parent))
      placed == InsertAt(targetIds, index + 1, id)
      left == IF from = parent THEN doc.items ELSE updateSiblingOrdinals(doc.items, from, sourceIds) IN
  [doc EXCEPT !.items = updateSiblingOrdinals(left, parent, placed)]

ReorderedItems(doc, parent, order) == [doc EXCEPT !.items = updateSiblingOrdinals(@, parent, order)]

\* The subtree below an item: the loop adds children until nothing changes.
Subtree(doc, id) ==
  LET children == {i \in DOMAIN doc.items : doc.items[i].parent = id} IN
  {id} \cup children \cup {i \in DOMAIN doc.items : doc.items[i].parent \in children}

RemovedItem(doc, id) ==
  LET removed == Subtree(doc, id)
      rest == InOrder(doc, siblings(doc, doc.items[id].parent) \ removed)
      items == updateSiblingOrdinals(doc.items, doc.items[id].parent, rest) IN
  [doc EXCEPT !.items = [i \in DOMAIN items \ removed |-> items[i]]]

\* The current head of a Production object: its revision (and the hash, which goes with it).
resolveCurrentDomainObject(o) == heads[o]
\* The Production object is active and at the revision read; the result was generated for the Shot of the item.
requireProduction(o, pinned) == heads[o].active /\ resolveCurrentDomainObject(o).revision = pinned
requireClipResult(doc, result, shotItem) == ShotOf[result] = doc.items[shotItem].target

-----------------------------------------------------------------------------
\* The row and its item rows, read back into the document they were written from.
loadSequenceDocument(s) == sequences[s]
requireExactSequence(s, base) == s \in DOMAIN sequences /\ loadSequenceDocument(s).revision = base
SequenceRef(s) == <<s, sequences[s].revision>>

\* The document row and one row per item are inserted; the ids must be new.
insertSequence(s, doc) ==
  /\ s \notin DOMAIN sequences
  /\ sequences' = [t \in DOMAIN sequences \cup {s} |-> IF t = s THEN doc ELSE sequences[t]]
\* The row is updated where it still has the revision the change was computed from, and its items are replaced.
replaceSequenceRows(s, base, doc) == sequences[s].revision = base /\ sequences' = [sequences EXCEPT ![s] = doc]

\* A changed document replaces the old one on the revision it was computed from, and the change is an event.
replaceSequence(r, input, s, base, after) ==
  LET next == [after EXCEPT !.revision = sequences[s].revision + 1] IN
  /\ replaceSequenceRows(s, base, next)
  /\ appendProjectEvent(<<r, s>>, s, base, sequences[s].revision, next.revision)
  /\ Respond(r, input, next.revision)

\* A command that would change nothing answers with the current document and writes nothing.
SameSequence(r, input, s) ==
  /\ Respond(r, input, sequences[s].revision) /\ UNCHANGED <<sequences, events>>

\* A structural command works on an active document; that its Project is active is not asked.
EditSequence(r, input, s, base, guard, after) ==
  /\ MayRun(r) /\ requireExactSequence(s, base) /\ sequences[s].lifecycle = "active"
  /\ guard /\ replaceSequence(r, input, s, base, after)
  /\ UNCHANGED <<project, heads>>

createSequence(r, s) ==
  /\ MayRun(r) /\ requireProject /\ insertSequence(s, createEmptySequence)
  /\ appendProjectEvent(<<r, s>>, s, 0, -1, 0)
  /\ Respond(r, <<"sequence.create">>, 0)
  /\ UNCHANGED <<project, heads>>

renameSequence(r, s, base, name) ==
  LET input == <<"sequence.rename", s, base, name>> IN
  /\ MayRun(r) /\ requireExactSequence(s, base)
  /\ IF sequences[s].name = name THEN SameSequence(r, input, s)
     ELSE replaceSequence(r, input, s, base, [sequences[s] EXCEPT !.name = name])
  /\ UNCHANGED <<project, heads>>

setSequenceLifecycle(r, s, base, lifecycle) ==
  LET input == <<"sequence.lifecycle", s, base, lifecycle>> IN
  /\ MayRun(r) /\ requireExactSequence(s, base)
  /\ IF sequences[s].lifecycle = lifecycle THEN SameSequence(r, input, s)
     ELSE replaceSequence(r, input, s, base, [sequences[s] EXCEPT !.lifecycle = lifecycle])
  /\ UNCHANGED <<project, heads>>

FreshItem(id) == \A s \in DOMAIN sequences : id \notin DOMAIN sequences[s].items
ItemsOf(s, kind) == {i \in DOMAIN sequences[s].items : sequences[s].items[i].kind = kind}

append_scene(r, s, base, scene, pinned, id) ==
  EditSequence(r, <<"append_scene", s, base, scene>>, s, base, FreshItem(id) /\ requireProduction(scene, pinned),
               AppendedItem(sequences[s], id, "scene", Absent, scene, pinned))

append_shot(r, s, base, sceneItem, shot, pinned, id) ==
  /\ sceneItem \in ItemsOf(s, "scene")
  /\ EditSequence(r, <<"append_shot", s, base, sceneItem, shot>>, s, base,
                  FreshItem(id) /\ requireProduction(shot, pinned),
                  AppendedItem(sequences[s], id, "shot", sceneItem, shot, pinned))

append_clip(r, s, base, shotItem, result, id) ==
  /\ shotItem \in ItemsOf(s, "shot")
  /\ EditSequence(r, <<"append_clip", s, base, shotItem, result>>, s, base,
                  FreshItem(id) /\ requireClipResult(sequences[s], result, shotItem),
                  AppendedItem(sequences[s], id, "clip", shotItem, result, 0))

update_clip(r, s, base, id, result) ==
  /\ id \in ItemsOf(s, "clip")
  /\ EditSequence(r, <<"update_clip", s, base, id, result>>, s, base,
                  requireClipResult(sequences[s], result, sequences[s].items[id].parent),
                  ClipUpdated(sequences[s], id, result))

\* assertParent: a scene stays a root, a shot goes under a scene, a clip under a shot of its own result.
assertParent(doc, id, parent) ==
  CASE doc.items[id].kind = "scene" -> parent = Absent
    [] doc.items[id].kind = "shot" -> parent \in DOMAIN doc.items /\ doc.items[parent].kind = "scene"
    [] doc.items[id].kind = "clip" -> /\ parent \in DOMAIN doc.items /\ doc.items[parent].kind = "shot"
                                      /\ requireClipResult(doc, doc.items[id].target, parent)

moveItem(r, s, base, id, parent, index) ==
  /\ s \in DOMAIN sequences /\ id \in DOMAIN sequences[s].items
  /\ index <= Cardinality(siblings(sequences[s], parent) \ {id})
  /\ EditSequence(r, <<"move", s, base, id, parent, index>>, s, base,
                  assertParent(sequences[s], id, parent), MovedItem(sequences[s], id, parent, index))

\* order names every current sibling exactly once.
reorderItems(r, s, base, parent, order) ==
  LET input == <<"reorder", s, base, parent, order>> IN
  /\ MayRun(r) /\ requireExactSequence(s, base) /\ sequences[s].lifecycle = "active"
  /\ ToSet(order) = siblings(sequences[s], parent) /\ Len(order) = Cardinality(ToSet(order))
  /\ IF order = InOrder(sequences[s], ToSet(order)) THEN SameSequence(r, input, s)
     ELSE replaceSequence(r, input, s, base, ReorderedItems(sequences[s], parent, order))
  /\ UNCHANGED <<project, heads>>

removeItem(r, s, base, id) ==
  /\ s \in DOMAIN sequences /\ id \in DOMAIN sequences[s].items
  /\ EditSequence(r, <<"remove", s, base, id>>, s, base, TRUE, RemovedItem(sequences[s], id))
==============================================================================
