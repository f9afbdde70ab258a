---------------------------- MODULE ProjectLedger ----------------------------
(* What every command on a Project shares: the Project row, the receipts by *)
(* which a repeated Wire request is answered without running again, and the *)
(* chained Project events.  A command is one immediate transaction; an      *)
(* error rolls it back, so a refused command is a command not taken.        *)
EXTENDS Integers, SequencesExt

CONSTANTS
  Requests,     \* ids of Wire requests
  Dispatches,   \* ids of dispatched tool calls
  Absent,       \* no such row or object
  MaxAnswers    \* bound: commands answered

ASSUME LedgerAssumption == Requests \cap Dispatches = {} /\ MaxAnswers \in Nat

VARIABLES
  project,    \* projects row: name, lifecycle and revision, or Absent
  receipts,   \* wire_command_receipts: of each answered request the semantic input and the response
  events,     \* project_events in sequence order
  answers     \* every response a caller was given (history)
ledger == <<project, receipts, events, answers>>

Lifecycles == {"active", "archived", "deleted"}
Names == {"first", "second"}
Authors == Requests \cup Dispatches

\* A table with a row that is new or takes the place of the one under its key.
WithRow(table, key, row) == [k \in {key} \cup DOMAIN table |-> IF k = key THEN row ELSE table[k]]
\* The same of any number of rows.
WithRows(table, rows) == [k \in DOMAIN rows \cup DOMAIN table |-> IF k \in DOMAIN rows THEN rows[k] ELSE table[k]]

ProjectRows == [name : Names, lifecycle : Lifecycles, revision : Nat]

\* The project_events table keeps (project_id, idempotency_key) unique.
EventKeys == {events[i].key : i \in DOMAIN events}

\* base is the revision the author of the command had read (history); before is -1 of a creation.
appendProjectEvent(key, subject, base, before, after) ==
  /\ key \notin EventKeys
  /\ events' = Append(events, [key |-> key, subject |-> subject, base |-> base,
                               before |-> before, after |-> after])

\* A mutant: the receipt answers whatever is asked under its id.
AnyReceipt(r, input) == r \in DOMAIN receipts
readValidatedReceipt(r, input) == r \in DOMAIN receipts /\ receipts[r].input = input

\* The response leaves: of a Wire request it is stored with the input it answers.
Respond(author, input, answer) ==
  /\ answers' = answers \cup {[author |-> author, input |-> input, answer |-> answer]}
  /\ receipts' = IF author \in Requests
                   THEN WithRow(receipts, author, [input |-> input, answer |-> answer])
                   ELSE receipts

\* A command may run for a request that has no receipt; a dispatch has no receipt, its planned event id is its own.
MayRun(author) ==
  /\ author \notin DOMAIN receipts
  /\ Cardinality(answers) < MaxAnswers

\* executeWireMutation finds the receipt: the stored response is the answer, nothing else happens.
Replay(r, input) ==
  /\ readValidatedReceipt(r, input)
  /\ answers' = answers \cup {[author |-> r, input |-> input, answer |-> receipts[r].answer]}
  /\ UNCHANGED <<project, receipts, events>>

Retries == {a.input : a \in answers}

projectFromRow == project # Absent
requireProject == projectFromRow /\ project.lifecycle = "active"

\* project.update: the revision the caller read, a name, a lifecycle; any lifecycle leads to any other.
updateProject(r, base, name, lifecycle) ==
  LET after == [name |-> name, lifecycle |-> lifecycle, revision |-> project.revision + 1] IN
  /\ MayRun(r) /\ projectFromRow /\ base = project.revision
  /\ IF name = project.name /\ lifecycle = project.lifecycle
       THEN /\ Respond(r, <<"project.update", base, name, lifecycle>>, project)
            /\ UNCHANGED <<project, events>>
       ELSE /\ project' = after
            /\ appendProjectEvent(<<r, 0>>, "project", base, project.revision, after.revision)
            /\ Respond(r, <<"project.update", base, name, lifecycle>>, after)

SubjectsOf(log) == {log[i].subject : i \in DOMAIN log}
\* The places in a log where the same object was told of before place i, and the last of them.
ToldBefore(log, i) == {j \in 1..(i - 1) : log[j].subject = log[i].subject}
LastOf(places, j) == j \in places /\ \A k \in places : k <= j

\* An object is created once, every later event continues the one before it, and its author had read exactly
\* the revision that it replaced.
Continuous(log) ==
  \A i \in DOMAIN log :
    /\ log[i].after = log[i].before + 1
    /\ ToldBefore(log, i) = {} => log[i].before = -1
    /\ \A j \in DOMAIN log : LastOf(ToldBefore(log, i), j) => log[i].before = log[j].after /\ log[i].base = log[i].before
\* No later event is about the object of this one.
Latest(log, i) == i \in DOMAIN log /\ \A j \in DOMAIN log : i < j => log[j].subject # log[i].subject

\* A repeated request gives the answer of its first execution to the input it was first sent with, however
\* far its object has moved since; it is never answered for other semantics (command.ts).
AnswersAgree ==
  \A a, b \in answers : a.author = b.author /\ a.author \in Requests => a = b
==============================================================================
