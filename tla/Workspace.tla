------------------------------ MODULE Workspace ------------------------------
(* A Project with its Sequences and Canvases, edited by the user's Wire     *)
(* requests and by the Commander's canvas.mutate calls, each command on the *)
(* revision its author last read.  Responses may be lost: a request is sent *)
(* again, with its own or with another input.                               *)
EXTENDS CanvasAuthority

CONSTANTS
  Seeds,         \* Projects to start from: the empty store, and states edited before
  Spots,         \* positions and sizes a placement may be given
  ZIndexes,      \* z-indexes a request may ask for
  Spacings,      \* distances an arrangement may keep
  Restless       \* bound: Production objects that change meanwhile, once each

vars == <<ledger, sequences, heads, canvases>>

\* What project_events tell of: the Project, its settings (once) and its documents.
SubjectNames == {"project", "project_settings"} \cup SequenceIds \cup Canvases
EventRows == [key : (Authors \cup SubjectNames) \X (SequenceIds \cup Canvases \cup Nat), subject : SubjectNames,
              base : Int, before : Int, after : Int]
SequenceStands(doc) == SequenceDocument(doc) /\ WellFormedSequence(doc) /\ ClipsShowTheirShot(doc)
NextZAbove(doc) == \A p \in DOMAIN doc.placements : doc.placements[p].z < doc.nextZ
CanvasStands(doc) == CanvasDocument(doc) /\ WellFormedCanvas(doc) /\ NextZAbove(doc)
RevisionIn(store, subject) ==
  CASE subject = "project" -> store.project.revision
    [] subject \in SequenceIds -> store.sequences[subject].revision
    [] subject \in Canvases -> store.canvases[subject].revision
    [] OTHER -> 0
StoryStands(store) ==
  /\ store.events \in Seq(EventRows) /\ Continuous(store.events)
  /\ \A i \in DOMAIN store.events :
       Latest(store.events, i) => store.events[i].after = RevisionIn(store, store.events[i].subject)

\* A Project to start from is one that its commands can have made: none, or one whose documents their validators
\* took and whose events tell of each of them.
SeedStands(seed) ==
  LET told == SubjectsOf(seed.events) IN
  /\ seed.project \in ProjectRows \cup {Absent}
  /\ KeyedBy(seed.sequences, SequenceIds) /\ \A s \in DOMAIN seed.sequences : SequenceStands(seed.sequences[s])
  /\ KeyedBy(seed.canvases, Canvases) /\ \A c \in DOMAIN seed.canvases : CanvasStands(seed.canvases[c])
  /\ StoryStands(seed)
  /\ told \subseteq {"project", "project_settings"} \cup DOMAIN seed.sequences \cup DOMAIN seed.canvases
  /\ IF seed.project = Absent THEN told \cup DOMAIN seed.sequences \cup DOMAIN seed.canvases = {}
     ELSE {"project"} \cup DOMAIN seed.sequences \cup DOMAIN seed.canvases \subseteq told

ASSUME WorkspaceAssumption ==
  /\ Absent \notin ProjectRows /\ Absent \notin Items \cup Placements
  /\ SequenceIds \cap Canvases = {} /\ {"project", "project_settings"} \cap (SequenceIds \cup Canvases) = {}
  /\ IsFiniteSet(Items) /\ ZIndexes \subseteq Nat
ASSUME SeedsAssumption == \A seed \in Seeds : SeedStands(seed)

Fresh(ids, used) == IF ids \subseteq used THEN {} ELSE {CHOOSE i \in ids : i \notin used}
\* What the author of a command may have read last: the current revision, or the one before it.
Read(row) == {row.revision - 1, row.revision} \cap Nat

UsedItems == UNION {DOMAIN sequences[s].items : s \in DOMAIN sequences}
OpenSequences == DOMAIN sequences
OpenCanvases == DOMAIN canvases

\* project.create: the Project, its settings, its main Sequence and its Production Canvas in one transaction.
createProject(r, s, c) ==
  /\ MayRun(r) /\ project = Absent
  /\ project' = [name |-> "first", lifecycle |-> "active", revision |-> 0]
  /\ insertSequence(s, createEmptySequence) /\ insertCanvas(c, createEmptyCanvas(<<s, 0>>))
  /\ events' = <<[key |-> <<r, 0>>, subject |-> "project", base |-> 0, before |-> -1, after |-> 0],
                 [key |-> <<r, 1>>, subject |-> "project_settings", base |-> 0, before |-> -1, after |-> 0],
                 [key |-> <<r, s>>, subject |-> s, base |-> 0, before |-> -1, after |-> 0],
                 [key |-> <<r, c>>, subject |-> c, base |-> 0, before |-> -1, after |-> 0]>>
  /\ Respond(r, <<"project.create">>, project')
  /\ UNCHANGED heads

ProjectCommand(r) ==
  /\ \E base \in Read(project), name \in Names, lifecycle \in Lifecycles :
       updateProject(r, base, name, lifecycle)
  /\ UNCHANGED <<sequences, heads, canvases>>

SequenceCommand(r) ==
  /\ \/ \E s \in SequenceIds : createSequence(r, s)
     \/ \E s \in OpenSequences : \E base \in Read(sequences[s]) :
          \/ \E name \in Names : renameSequence(r, s, base, name)
          \/ \E lifecycle \in {"active", "archived"} : setSequenceLifecycle(r, s, base, lifecycle)
          \/ \E o \in Scenes, id \in Fresh(Items, UsedItems) : append_scene(r, s, base, o, heads[o].revision, id)
          \/ \E i \in ItemsOf(s, "scene"), o \in Shots, id \in Fresh(Items, UsedItems) :
               append_shot(r, s, base, i, o, heads[o].revision, id)
          \/ \E i \in ItemsOf(s, "shot"), u \in Results, id \in Fresh(Items, UsedItems) :
               append_clip(r, s, base, i, u, id)
          \/ \E i \in ItemsOf(s, "clip"), u \in Results : update_clip(r, s, base, i, u)
          \/ \E i \in DOMAIN sequences[s].items, parent \in DOMAIN sequences[s].items \cup {Absent} :
               \E n \in 0..Cardinality(siblings(sequences[s], parent)) : moveItem(r, s, base, i, parent, n)
          \/ \E parent \in DOMAIN sequences[s].items \cup {Absent} :
               \E order \in SetToSeqs(siblings(sequences[s], parent)) :
                 order # <<>> /\ reorderItems(r, s, base, parent, order)
          \/ \E i \in DOMAIN sequences[s].items : removeItem(r, s, base, i)
  /\ UNCHANGED canvases

CanvasCommand(r) ==
  \/ \E c \in Canvases, ref \in SequenceRefs : createCanvas(r, c, ref)
  \/ \E c \in OpenCanvases : \E base \in Read(canvases[c]) :
       \/ \E name \in Names : renameCanvas(r, c, base, name)
       \/ \E lifecycle \in {"active", "archived"} : setCanvasLifecycle(r, c, base, lifecycle)
       \/ \E ref \in SequenceRefs : set_primary_sequence(r, c, base, ref)

CanvasEdit(a) ==
  \E c \in OpenCanvases : \E base \in Read(canvases[c]) :
    LET doc == canvases[c]
        here == DOMAIN doc.placements IN
    \/ \E t \in Scenes, at \in Spots, z \in (IF a \in Requests THEN ZIndexes ELSE {Absent}) :
         place(a, c, base, t, at, z)
    \/ \E p \in here, at \in Spots : move(a, c, base, p, at.position)
    \/ \E p \in here, at \in Spots : resize(a, c, base, p, at.size)
    \/ \E ps \in SUBSET here : remove(a, c, base, ps)
    \/ \E g \in ChosenIds(a, c, Groups, "groups"), ps \in SUBSET here : group(a, c, base, g, ps)
    \/ \E g \in DOMAIN doc.groups : ungroup(a, c, base, g)
    \/ \E e \in ChosenIds(a, c, Edges, "edges"), p, q \in here : connect(a, c, base, e, p, q)
    \/ \E e \in DOMAIN doc.edges : disconnect(a, c, base, e)
    \/ \E n \in ChosenIds(a, c, Notes, "notes"), on \in here \cup {Absent} :
         annotate(a, c, base, n, on, "first")
    \/ \E ps \in SUBSET here \ {{}} : \E order \in SetToSeqs(ps), layout \in Layouts, gap \in Spacings :
         arrange(a, c, base, order, layout, gap)
    \/ \E v \in ChosenIds(a, c, Views, "views") \cup DOMAIN doc.views, name \in Names, viewport \in Viewports :
         save_view(a, c, base, v, name, viewport)
    \/ \E v \in DOMAIN doc.views : restore_view(a, c, base, v)

\* A canvas.mutate call of the Commander is served once, with its dispatch settled in the same batch.
settleCanvasMutateBoundary(d) == MayRun(d) /\ CanvasEdit(d)

\* Another authority gives a Production object a new revision, or archives it.
HeadMoves(o) ==
  /\ heads[o].revision = 0
  /\ \E active \in BOOLEAN : heads' = [heads EXCEPT ![o] = [revision |-> @.revision + 1, active |-> active]]
  /\ UNCHANGED <<ledger, sequences, canvases>>

Init == \E seed \in Seeds :
  /\ project = seed.project /\ sequences = seed.sequences /\ canvases = seed.canvases
  /\ events = seed.events
  /\ receipts = <<>> /\ answers = {}
  /\ heads = [o \in Objects |-> [revision |-> 0, active |-> TRUE]]

Next ==
  \/ \E r \in Requests :
       \/ \E s \in SequenceIds, c \in Canvases : createProject(r, s, c)
       \/ project # Absent /\ MayRun(r) /\ (ProjectCommand(r) \/ SequenceCommand(r) \/ CanvasCommand(r) \/ CanvasEdit(r))
       \/ \E input \in Retries : Replay(r, input) /\ UNCHANGED <<sequences, heads, canvases>>
  \/ \E d \in Dispatches : settleCanvasMutateBoundary(d)
  \/ \E o \in Restless : HeadMoves(o)

Spec == Init /\ [][Next]_vars
-----------------------------------------------------------------------------
\* Whatever the user and the Commander do to it, a Canvas keeps its shape: groups share no placement and name
\* only placements that are there, edges join two of them, annotations sit on one or on none, view names
\* differ, and the next z-index is above every placement.  (finalizeCanvas would refuse the document.)
CanvasesWellFormed ==
  \A c \in OpenCanvases : WellFormedCanvas(canvases[c]) /\ NextZAbove(canvases[c])

\* Whatever order scenes, shots and clips are added, moved, reordered and removed in, every item stands under
\* a parent of the right kind, siblings are numbered 0, 1, ... without gaps, and a clip shows a result of the
\* Shot it stands under.  (finalizeSequence would refuse the first two.)
SequencesWellFormed ==
  \A s \in OpenSequences : WellFormedSequence(sequences[s]) /\ ClipsShowTheirShot(sequences[s])

\* Neither document is ever one its own validator would refuse, whoever edits it (finalizeCanvas, finalizeSequence).
DocumentsWellFormed == CanvasesWellFormed /\ SequencesWellFormed

\* The Project events tell the whole story of every object: created once, then each event continues the one
\* before it, up to the revision the row has, and each change was made by an author who had read exactly the
\* revision it replaced: no update is lost between the user and the Commander.
Store == [project |-> project, sequences |-> sequences, canvases |-> canvases, events |-> events]
EventsTellTheStory ==
  /\ StoryStands(Store)
  /\ OpenSequences \cup OpenCanvases \subseteq SubjectsOf(events)

\* A canvas.mutate call is told exactly the objects it changed: nothing it moved, detached or removed on the
\* way is missing, and nothing else is named.  (restore_view names the view it restored.)
ToolsAreToldWhatChanged ==
  [][\A c \in OpenCanvases, a \in answers' \ answers :
       a.author \in Dispatches /\ canvases[c] # canvases'[c] /\ a.input[1] # "restore_view" =>
         a.answer.told = Differences(canvases[c], canvases'[c])]_vars

\* An arrangement never lays one placement it arranges over another, whatever their sizes.
Apart(p, q) == \/ p.position.x + p.size.w <= q.position.x \/ q.position.x + q.size.w <= p.position.x
               \/ p.position.y + p.size.h <= q.position.y \/ q.position.y + q.size.h <= p.position.y
ArrangedStandApart ==
  [][\A c \in OpenCanvases, a \in answers' \ answers :
       a.input[1] = "arrange" /\ a.input[2] = c =>
         \A i, j \in DOMAIN a.input[4] : i # j =>
           Apart(canvases'[c].placements[a.input[4][i]], canvases'[c].placements[a.input[4][j]])]_vars
==============================================================================
