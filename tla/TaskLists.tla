------------------------------ MODULE TaskLists ------------------------------
(* The TaskList a Run may keep: a forest of items in sibling order, changed *)
(* by task.manage calls that name the revision the model was shown last.    *)
EXTENDS RunJournal

CONSTANTS
  TaskItems,     \* ids of items
  Owner,         \* the Run that keeps the list
  ParentRun,     \* function: each Run of the same root to its parent Run, or Absent
  Drafts,        \* the item trees a create call may ask for, well formed or not
  MaxEdits       \* bound: revisions of the list

VARIABLES taskList    \* task_lists and task_items rows of the Run, or Absent

ItemStates == {"pending", "in_progress", "blocked", "completed", "cancelled"}
TaskItemStateTransitions ==
  [pending     |-> {"in_progress", "blocked", "completed", "cancelled"},
   in_progress |-> {"pending", "blocked", "completed", "cancelled"},
   blocked     |-> {"pending", "in_progress", "cancelled"},
   completed   |-> {},
   cancelled   |-> {}]

ItemRows == [parent : TaskItems \cup {Absent}, order : Nat, state : ItemStates, children : SUBSET DOMAIN ParentRun]
ItemTables == [TaskItems -> ItemRows \cup {Absent}]
ListRows == [title : Names, state : {"active", "completed", "cancelled"}, revision : Nat \ {0}, items : ItemTables]

ASSUME TaskListsAssumption ==
  /\ IsFiniteSet(TaskItems) /\ Absent \notin TaskItems \cup ItemRows \cup ListRows /\ Owner # Absent
  /\ Drafts \subseteq ItemTables

Listed(items) == {i \in TaskItems : items[i] # Absent}
Siblings(items, parent) == {i \in Listed(items) : items[i].parent = parent}
assertParent(items, parent) == parent \in Listed(items) \cup {Absent}
NewItem(parent, order) == [parent |-> parent, order |-> order, state |-> "pending", children |-> {}]

\* assertLinkedChild: the Run is strictly below the owner.
Above[q \in DOMAIN ParentRun] == IF ParentRun[q] = Absent THEN {} ELSE {ParentRun[q]} \cup Above[ParentRun[q]]
assertLinkedChild(q) == Owner \in Above[q]

-----------------------------------------------------------------------------
(* The edits: a relation between the items before and the items after; what  *)
(* the guards of an edit refuse is no edit.                                  *)

itemAdded(items, id, parent, order) ==
  [i \in TaskItems |->
     IF i = id THEN NewItem(parent, order)
     ELSE IF i \in Siblings(items, parent) /\ items[i].order >= order THEN [items[i] EXCEPT !.order = @ + 1]
     ELSE items[i]]
addItem(items) ==
  UNION {{itemAdded(items, id, parent, order) : order \in 0..Cardinality(Siblings(items, parent))}
         : id \in TaskItems \ Listed(items), parent \in Listed(items) \cup {Absent}}

updateState(items) ==
  UNION {{[items EXCEPT ![i].state = state] : state \in TaskItemStateTransitions[items[i].state]} : i \in Listed(items)}

linkChild(items) ==
  {[items EXCEPT ![i].children = @ \cup {q}] :
     i \in Listed(items),
     q \in {p \in DOMAIN ParentRun : assertLinkedChild(p) /\ \A j \in Listed(items) : p \notin items[j].children}}

\* The call names every sibling once, in the order they are to have.
Places(siblings) == Bijection(siblings, 0..(Cardinality(siblings) - 1))
reorderSiblings(items) ==
  UNION {{[i \in TaskItems |-> IF i \in Siblings(items, parent) THEN [items[i] EXCEPT !.order = place[i]] ELSE items[i]]
          : place \in Places(Siblings(items, parent))}
         : parent \in {p \in Listed(items) \cup {Absent} : Siblings(items, p) # {}}}

\* Mutant: the siblings after the item keep their places.
removeAndLeaveGap(items) ==
  {[items EXCEPT ![id] = Absent] : id \in {id \in Listed(items) : Siblings(items, id) = {}}}

removeItem(items) ==
  {[i \in TaskItems |->
      IF i = id THEN Absent
      ELSE IF i \in Siblings(items, items[id].parent) /\ items[i].order > items[id].order
        THEN [items[i] EXCEPT !.order = @ - 1] ELSE items[i]]
   : id \in {id \in Listed(items) : Siblings(items, id) = {}}}

\* One update call may change a state and link a child; it is those two edits at once.
Edits(items) == addItem(items) \cup updateState(items) \cup linkChild(items)
                \cup (UNION {linkChild(updated) : updated \in updateState(items)})
                \cup reorderSiblings(items) \cup removeItem(items)

\* canonicalTaskItems and TaskListSchema: what a list must be, or the command fails after its guards.
ClosedUpwards(items, S) == \A a \in S \cap Listed(items) : items[a].parent \in S
\* What every set that holds the parent of i, and with an item its parent, holds.
Ancestors(items, i) ==
  {a \in Listed(items) \cup {Absent} :
     \A S \in SUBSET (Listed(items) \cup {Absent}) : items[i].parent \in S /\ ClosedUpwards(items, S) => a \in S}
finalizeTaskList(items) ==
  /\ \A i \in Listed(items) : assertParent(items, items[i].parent) /\ i \notin Ancestors(items, i)
  /\ \A i, j \in Listed(items) : i # j => items[i].children \cap items[j].children = {}
  /\ \A parent \in Listed(items) \cup {Absent} :
       {items[i].order : i \in Siblings(items, parent)} = 0..(Cardinality(Siblings(items, parent)) - 1)

-----------------------------------------------------------------------------
(* task.manage, which its boundary calls with the Run as the request read it *)

createList ==
  /\ taskList = Absent
  /\ \E items \in {d \in Drafts : finalizeTaskList(d)} :
       taskList' = [title |-> "first", state |-> "active", revision |-> 1, items |-> items]

requireActiveList(expected) == taskList # Absent /\ taskList.revision = expected /\ taskList.state = "active"

replaceTaskList(candidate) ==
  /\ finalizeTaskList(candidate.items) /\ taskList.revision < MaxEdits
  /\ taskList' = [candidate EXCEPT !.revision = taskList.revision + 1]

editList(expected) ==
  /\ requireActiveList(expected)
  /\ \/ \E title \in Names \ {taskList.title} : replaceTaskList([taskList EXCEPT !.title = title])
     \/ \E items \in Edits(taskList.items) \ {taskList.items} : replaceTaskList([taskList EXCEPT !.items = items])
     \/ \E state \in {"completed", "cancelled"} : replaceTaskList([taskList EXCEPT !.state = state])

\* sameTaskSemantics: an edit that changes nothing, like get, leaves the list and its revision alone.
manageTaskListInTransaction(expected) == createList \/ editList(expected) \/ UNCHANGED taskList

\* taskListEvent: the event of a list that changed, in the batch of the call that changed it.
taskListEvents == IF taskList' = taskList THEN <<>> ELSE <<[type |-> "task_list_changed", revision |-> taskList'.revision]>>
=============================================================================
