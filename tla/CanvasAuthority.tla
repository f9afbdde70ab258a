--------------------------- MODULE CanvasAuthority ---------------------------
(* The Canvas documents of a Project: placements bound to the objects they  *)
(* show, groups, edges, annotations and saved views.  The user edits them   *)
(* with Wire commands, the Commander with canvas.mutate, whose planned ids  *)
(* come from its dispatch and whose receipts tell it what it changed.       *)
EXTENDS SequenceAuthority, FiniteSetsExt

CONSTANTS
  Canvases, Placements, Groups, Edges, Notes, Views,  \* ids the program may create
  MaxZ,         \* Number.MAX_SAFE_INTEGER
  MaxBatch      \* MAX_MUTATION_BATCH: receipts a tool call may return

VARIABLE canvases   \* canvas_documents with their child rows: a document for each row

Layouts == {"row", "column", "grid"}   \* "timeline" is laid out as "row"
Texts == Names
Viewports == {0, 1}

\* The columns of the document and of its child rows; where a placement is and how large is left open.
PlacementRow(row) ==
  row \in [target : [id : Scenes, revision : Nat], position : {row.position}, size : {row.size}, z : Nat]
CanvasDocument(doc) ==
  /\ doc \in [revision : Nat, name : Names, lifecycle : {"active", "archived"}, primary : {doc.primary},
               placements : {doc.placements}, groups : {doc.groups}, edges : {doc.edges}, notes : {doc.notes},
               views : {doc.views}, viewport : Viewports, nextZ : Nat]
  /\ KeyedBy(doc.placements, Placements) /\ \A p \in DOMAIN doc.placements : PlacementRow(doc.placements[p])
  /\ Table(doc.groups, Groups, SUBSET Placements) /\ Table(doc.edges, Edges, [from : Placements, to : Placements])
  /\ Table(doc.notes, Notes, [on : Placements \cup {Absent}, text : Texts])
  /\ Table(doc.views, Views, [name : Names, viewport : Viewports])

createEmptyCanvas(primary) ==
  [revision |-> 0, name |-> "first", lifecycle |-> "active", primary |-> primary,
   placements |-> <<>>, groups |-> <<>>, edges |-> <<>>, notes |-> <<>>, views |-> <<>>,
   viewport |-> 0, nextZ |-> 0]

\* Functions on the ids in use: an entry added or replaced, and entries dropped.
With(f, k, v) == [i \in DOMAIN f \cup {k} |-> IF i = k THEN v ELSE f[i]]
Without(f, ks) == [i \in DOMAIN f \ ks |-> f[i]]

\* CanvasDocumentSchema: what finalizeCanvas parses every document against before it is written.
WellFormedCanvas(doc) ==
  /\ \A g \in DOMAIN doc.groups : doc.groups[g] \subseteq DOMAIN doc.placements
  /\ \A g, h \in DOMAIN doc.groups : g # h => doc.groups[g] \cap doc.groups[h] = {}
  /\ \A e \in DOMAIN doc.edges : /\ doc.edges[e].from # doc.edges[e].to
                                 /\ {doc.edges[e].from, doc.edges[e].to} \subseteq DOMAIN doc.placements
  /\ \A n \in DOMAIN doc.notes : doc.notes[n].on \in DOMAIN doc.placements \cup {Absent}
  /\ \A v, w \in DOMAIN doc.views : v # w => doc.views[v].name # doc.views[w].name

\* Ids are keys of their tables: one id names one row, whatever Canvas it is on.
Unused(id, key) == \A c \in DOMAIN canvases : id \notin DOMAIN canvases[c][key]

\* The target's current revision and hash are pinned when the placement is made.
bindTarget(t) == [id |-> t, revision |-> heads[t].revision]

Placed(doc, p, t, at, z) ==
  LET zIndex == IF z = Absent THEN doc.nextZ ELSE z IN
  [doc EXCEPT !.placements = With(@, p, [target |-> bindTarget(t), position |-> at.position,
                                          size |-> at.size, z |-> zIndex]),
              !.nextZ = IF zIndex + 1 > @ THEN zIndex + 1 ELSE @]

Moved(doc, p, position) == [doc EXCEPT !.placements[p].position = position]
Resized(doc, p, size) == [doc EXCEPT !.placements[p].size = size]

\* A mutant: the groups keep the placements that are gone.
RemovedButGrouped(doc, ps) ==
  [doc EXCEPT
     !.placements = Without(@, ps),
     !.edges = Without(@, {e \in DOMAIN @ : @[e].from \in ps \/ @[e].to \in ps}),
     !.notes = [n \in DOMAIN @ |-> IF @[n].on \in ps THEN [@[n] EXCEPT !.on = Absent] ELSE @[n]]]

Removed(doc, ps) ==
  [doc EXCEPT
     !.placements = Without(@, ps),
     !.groups = [g \in DOMAIN @ |-> @[g] \ ps],
     !.edges = Without(@, {e \in DOMAIN @ : @[e].from \in ps \/ @[e].to \in ps}),
     !.notes = [n \in DOMAIN @ |-> IF @[n].on \in ps THEN [@[n] EXCEPT !.on = Absent] ELSE @[n]]]

Grouped(doc, g, ps) == [doc EXCEPT !.groups = With(@, g, ps)]
FreeToGroup(doc, g, ps) == \A h \in DOMAIN doc.groups \ {g} : doc.groups[h] \cap ps = {}

Ungrouped(doc, g) == [doc EXCEPT !.groups = Without(@, {g})]
Connected(doc, e, p, q) == [doc EXCEPT !.edges = With(@, e, [from |-> p, to |-> q])]
Disconnected(doc, e) == [doc EXCEPT !.edges = Without(@, {e})]
Annotated(doc, n, on, text) == [doc EXCEPT !.notes = With(@, n, [on |-> on, text |-> text])]
ViewSaved(doc, v, name, viewport) ==
  [doc EXCEPT !.views = With(@, v, [name |-> name, viewport |-> viewport])]
ViewRestored(doc, v) == [doc EXCEPT !.viewport = doc.views[v].viewport]

\* arrangedPositions: order is the sequence of placements the tool names; the first one is the anchor.
SumOver(f, n) == FoldFunctionOnSet(+, 0, f, 1..n)

RowPositions(doc, order, spacing) ==
  LET at == doc.placements[order[1]].position
      step == [i \in DOMAIN order |-> doc.placements[order[i]].size.w + spacing] IN
  [i \in DOMAIN order |-> [x |-> at.x + SumOver(step, i - 1), y |-> at.y]]

ColumnPositions(doc, order, spacing) ==
  LET at == doc.placements[order[1]].position
      step == [i \in DOMAIN order |-> doc.placements[order[i]].size.h + spacing] IN
  [i \in DOMAIN order |-> [x |-> at.x, y |-> at.y + SumOver(step, i - 1)]]

\* A mutant: every column and row of the grid is as large as the first placement.
UniformGrid(doc, order, spacing) ==
  LET first == doc.placements[order[1]]
      columns == IF Len(order) = 1 THEN 1 ELSE 2 IN
  [i \in DOMAIN order |->
     [x |-> first.position.x + ((i - 1) % columns) * (first.size.w + spacing),
      y |-> first.position.y + ((i - 1) \div columns) * (first.size.h + spacing)]]

GridPositions(doc, order, spacing) ==
  LET at == doc.placements[order[1]].position
      columns == CHOOSE k \in 1..Len(order) : /\ k * k >= Len(order)
                                              /\ \A j \in 1..(k - 1) : j * j < Len(order)
      col(i) == (i - 1) % columns
      row(i) == (i - 1) \div columns
      width == [k \in 1..columns |->
                  Max({doc.placements[order[i]].size.w : i \in {j \in DOMAIN order : col(j) = k - 1}}) + spacing]
      height == [k \in 1..(row(Len(order)) + 1) |->
                  Max({doc.placements[order[i]].size.h : i \in {j \in DOMAIN order : row(j) = k - 1}}) + spacing]
  IN [i \in DOMAIN order |-> [x |-> at.x + SumOver(width, col(i)), y |-> at.y + SumOver(height, row(i))]]

arrangedPositions(doc, order, layout, spacing) ==
  CASE layout = "row" -> RowPositions(doc, order, spacing)
    [] layout = "column" -> ColumnPositions(doc, order, spacing)
    [] layout = "grid" -> GridPositions(doc, order, spacing)

Arranged(doc, order, layout, spacing) ==
  LET to == arrangedPositions(doc, order, layout, spacing) IN
  [doc EXCEPT !.placements =
     [p \in DOMAIN @ |-> IF p \in ToSet(order)
                           THEN [@[p] EXCEPT !.position = to[CHOOSE i \in DOMAIN order : order[i] = p]]
                           ELSE @[p]]]

\* The placements with the highest z-index: the last row of the document is one of them, ties go by id.
TopPlacements(doc) ==
  {p \in DOMAIN doc.placements : \A q \in DOMAIN doc.placements : doc.placements[q].z <= doc.placements[p].z}

\* canvasToolMutationReceipts, one case per action: the objects the tool call is told it changed.
ChangedKeys(before, after, key) ==
  {i \in DOMAIN before[key] \cap DOMAIN after[key] : before[key][i] # after[key][i]}

\* One object moved, resized, grouped, ungrouped, connected, disconnected or annotated is one receipt.
OneReceipt(kind, id) == {<<kind, id>>}
ViewReceipt(v) == OneReceipt("saved_view", v)
PlaceReceipts(after) == {<<"placement", CHOOSE p \in TopPlacements(after) : TRUE>>}
ArrangeReceipts(before, after) == {<<"placement", p>> : p \in ChangedKeys(before, after, "placements")}

\* A mutant: annotations that lose their placement are not named.
RemoveReceiptsButNotes(before, ps) ==
  {<<"placement", p>> : p \in ps}
  \cup {<<"group", g>> : g \in {g \in DOMAIN before.groups : before.groups[g] \cap ps # {}}}
  \cup {<<"edge", e>> : e \in {e \in DOMAIN before.edges : {before.edges[e].from, before.edges[e].to} \cap ps # {}}}

RemoveReceipts(before, ps) ==
  {<<"placement", p>> : p \in ps}
  \cup {<<"group", g>> : g \in {g \in DOMAIN before.groups : before.groups[g] \cap ps # {}}}
  \cup {<<"edge", e>> : e \in {e \in DOMAIN before.edges : {before.edges[e].from, before.edges[e].to} \cap ps # {}}}
  \cup {<<"annotation", n>> : n \in {n \in DOMAIN before.notes : before.notes[n].on \in ps}}

\* What really differs between two revisions of a Canvas.
Differences(before, after) ==
  LET of(kind, key) == {<<kind, i>> : i \in ChangedKeys(before, after, key)
                                          \cup (DOMAIN before[key] \ DOMAIN after[key])
                                          \cup (DOMAIN after[key] \ DOMAIN before[key])} IN
  of("placement", "placements") \cup of("group", "groups") \cup of("edge", "edges")
    \cup of("annotation", "notes") \cup of("saved_view", "views")

-----------------------------------------------------------------------------
\* The row and its child rows, read back into the document they were written from.
loadCanvasDocument(c) == canvases[c]

\* The document row and one row per placement, group, edge, annotation and view are inserted; ids are new.
insertCanvas(c, doc) == c \notin DOMAIN canvases /\ canvases' = With(canvases, c, doc)
\* The row is updated where it still has the revision the change was computed from; its child rows are replaced.
replaceCanvasRows(c, base, doc) == canvases[c].revision = base /\ canvases' = [canvases EXCEPT ![c] = doc]

\* A mutant: the Canvas is there, at whatever revision.
RequireCanvas(c, base) == c \in DOMAIN canvases
requireExactCanvas(c, base) == c \in DOMAIN canvases /\ loadCanvasDocument(c).revision = base
requireCurrentCanvas(c, base) ==
  requireExactCanvas(c, base) /\ requireProject /\ canvases[c].lifecycle = "active"

\* The Sequence named must be at the revision the caller read.
requireExactPrimarySequence(ref) ==
  ref # Absent => ref[1] \in DOMAIN sequences /\ sequences[ref[1]].revision = ref[2]
SequenceRefs == {Absent} \cup {SequenceRef(s) : s \in DOMAIN sequences}

\* replaceCanvas with its event: the row is replaced on the revision the change was computed from.
replaceCanvas(a, input, c, base, after, told) ==
  LET next == [after EXCEPT !.revision = canvases[c].revision + 1] IN
  /\ replaceCanvasRows(c, canvases[c].revision, next)
  /\ appendProjectEvent(<<a, c>>, c, base, canvases[c].revision, next.revision)
  /\ Respond(a, input, [revision |-> next.revision, told |-> told])

\* A Wire command that would change nothing answers with the current document and writes nothing.
SameCanvas(a, input, c) ==
  /\ a \in Requests /\ Respond(a, input, [revision |-> canvases[c].revision, told |-> {}])
  /\ UNCHANGED <<canvases, events>>

\* canvas.apply: a command that would change nothing writes nothing.
applyCanvas(r, input, c, base, guard, after) ==
  /\ MayRun(r) /\ requireCurrentCanvas(c, base) /\ guard
  /\ IF after = canvases[c] THEN SameCanvas(r, input, c)
     ELSE replaceCanvas(r, input, c, base, after, {})
  /\ UNCHANGED <<project, sequences, heads>>

\* A tool call that would change nothing, or more objects than its receipts may name, is refused.  The
\* placement, group, edge and view revisions the tool names go with the Canvas revision it names.
planCanvasMutationInTransaction(d, c, base, guard, after, told) ==
  /\ MayRun(d) /\ requireCurrentCanvas(c, base) /\ guard
  /\ after # canvases[c] /\ Cardinality(told) \in 1..MaxBatch

\* The plan is made again and must come out the same before its rows and its event are written.
commitPlannedCanvasMutationInTransaction(d, input, c, base, guard, after, told) ==
  /\ planCanvasMutationInTransaction(d, c, base, guard, after, told)
  /\ replaceCanvas(d, input, c, base, after, told)
  /\ UNCHANGED <<project, sequences, heads>>

\* canvas.mutate: plan and commit are one transaction.
mutateCanvasTool(d, input, c, base, guard, after, told) ==
  /\ planCanvasMutationInTransaction(d, c, base, guard, after, told)
  /\ commitPlannedCanvasMutationInTransaction(d, input, c, base, guard, after, told)

\* The same core mutation is planned for a request and for a dispatch.
EditCanvas(a, input, c, base, guard, after, told) ==
  IF a \in Requests THEN applyCanvas(a, input, c, base, guard, after)
  ELSE mutateCanvasTool(a, input, c, base, guard, after, told)

createCanvas(r, c, ref) ==
  /\ MayRun(r) /\ requireProject /\ requireExactPrimarySequence(ref)
  /\ insertCanvas(c, createEmptyCanvas(ref))
  /\ appendProjectEvent(<<r, c>>, c, 0, -1, 0)
  /\ Respond(r, <<"canvas.create", ref>>, 0)
  /\ UNCHANGED <<project, sequences, heads>>

\* canvas.update works on an archived Canvas too.
updateCanvas(r, input, c, base, guard, after) ==
  /\ MayRun(r) /\ requireExactCanvas(c, base) /\ requireProject /\ guard
  /\ IF after = canvases[c] THEN SameCanvas(r, input, c)
     ELSE replaceCanvas(r, input, c, base, after, {})
  /\ UNCHANGED <<project, sequences, heads>>

renameCanvas(r, c, base, name) ==
  updateCanvas(r, <<"canvas.rename", c, base, name>>, c, base, TRUE, [canvases[c] EXCEPT !.name = name])
setCanvasLifecycle(r, c, base, lifecycle) ==
  updateCanvas(r, <<"canvas.lifecycle", c, base, lifecycle>>, c, base, TRUE,
               [canvases[c] EXCEPT !.lifecycle = lifecycle])
set_primary_sequence(r, c, base, ref) ==
  updateCanvas(r, <<"canvas.primary", c, base, ref>>, c, base, requireExactPrimarySequence(ref),
               [canvases[c] EXCEPT !.primary = ref])

\* The id of a new row: environment.createId of a request, the planned id of a dispatch; a request may choose
\* the ids of groups, edges, annotations and views itself and name one that is there.
NewId(ids, key) == CHOOSE i \in ids : Unused(i, key)
HasNewId(ids, key) == \E i \in ids : Unused(i, key)
ChosenIds(a, c, ids, key) ==
  (IF HasNewId(ids, key) THEN {NewId(ids, key)} ELSE {})
  \cup (IF a \in Requests THEN DOMAIN canvases[c][key] ELSE {})

place(a, c, base, t, at, z) ==
  /\ HasNewId(Placements, "placements")
  /\ a \in Dispatches => z = Absent
  /\ LET after == Placed(canvases[c], NewId(Placements, "placements"), t, at, z) IN
     EditCanvas(a, <<"place", c, base, t, at, z>>, c, base,
                (IF z = Absent THEN canvases[c].nextZ ELSE z) # MaxZ, after, PlaceReceipts(after))

move(a, c, base, p, position) ==
  EditCanvas(a, <<"move", c, base, p, position>>, c, base, p \in DOMAIN canvases[c].placements,
             Moved(canvases[c], p, position), OneReceipt("placement", p))

resize(a, c, base, p, size) ==
  EditCanvas(a, <<"resize", c, base, p, size>>, c, base, p \in DOMAIN canvases[c].placements,
             Resized(canvases[c], p, size), OneReceipt("placement", p))

\* remove always writes a revision, whatever is left of it.
remove(a, c, base, ps) ==
  EditCanvas(a, <<"remove", c, base, ps>>, c, base, ps # {} /\ ps \subseteq DOMAIN canvases[c].placements,
             Removed(canvases[c], ps), RemoveReceipts(canvases[c], ps))

group(a, c, base, g, ps) ==
  EditCanvas(a, <<"group", c, base, g, ps>>, c, base,
             ps \subseteq DOMAIN canvases[c].placements /\ FreeToGroup(canvases[c], g, ps),
             Grouped(canvases[c], g, ps), OneReceipt("group", g))

\* Of a group that is not there a request is told the current document, a dispatch is refused.
ungroup(a, c, base, g) ==
  EditCanvas(a, <<"ungroup", c, base, g>>, c, base, TRUE, Ungrouped(canvases[c], g), OneReceipt("group", g))

connect(a, c, base, e, p, q) ==
  EditCanvas(a, <<"connect", c, base, e, p, q>>, c, base,
             p # q /\ {p, q} \subseteq DOMAIN canvases[c].placements,
             Connected(canvases[c], e, p, q), OneReceipt("edge", e))

disconnect(a, c, base, e) ==
  EditCanvas(a, <<"disconnect", c, base, e>>, c, base, TRUE, Disconnected(canvases[c], e), OneReceipt("edge", e))

annotate(a, c, base, n, on, text) ==
  EditCanvas(a, <<"annotate", c, base, n, on, text>>, c, base,
             on \in DOMAIN canvases[c].placements \cup {Absent},
             Annotated(canvases[c], n, on, text), OneReceipt("annotation", n))

\* arrange is a tool action only.
arrange(a, c, base, order, layout, spacing) ==
  /\ a \in Dispatches
  /\ LET after == Arranged(canvases[c], order, layout, spacing) IN
     EditCanvas(a, <<"arrange", c, base, order, layout, spacing>>, c, base,
                ToSet(order) \subseteq DOMAIN canvases[c].placements,
                after, ArrangeReceipts(canvases[c], after))

save_view(a, c, base, v, name, viewport) ==
  EditCanvas(a, <<"save_view", c, base, v, name, viewport>>, c, base,
             \A w \in DOMAIN canvases[c].views : w # v => canvases[c].views[w].name # name,
             ViewSaved(canvases[c], v, name, viewport), ViewReceipt(v))

\* The receipt names the view that was restored; the viewport is the Canvas's own.
restore_view(a, c, base, v) ==
  EditCanvas(a, <<"restore_view", c, base, v>>, c, base, v \in DOMAIN canvases[c].views,
             ViewRestored(canvases[c], v), ViewReceipt(v))
==============================================================================
