------------------------------ MODULE RunJournal ------------------------------
(* The journal of one root Run: a command appends its batch of events once, *)
(* and the Run row follows the head of the journal.  Neighbours in a batch  *)
(* that no other record refers to (usage, steps, calls, state changes) are  *)
(* one event of type plain.                                                 *)
EXTENDS ProjectLedger, RunContract

CONSTANTS MaxJournal    \* bound: events of the Run

VARIABLES
  run,       \* runs row, its Activation, Model Attempt, question and Inbox, or Absent
  journal    \* run_events in sequence order: the command that appended each and its payload

\* A sequence of whatever it holds.
IsList(s) == s \in Seq({s[i] : i \in DOMAIN s})
Plain == [type |-> "plain"]
\* The events of a type in a log.
Told(log, type) == {i \in DOMAIN log : log[i].payload.type = type}

\* loadRunEventForCommand: the events that a command appended, if it ran.
loadRunEventForCommand(command) == {i \in DOMAIN journal : journal[i].command = command}

appendRunEventBatch(command, payloads) ==
  /\ loadRunEventForCommand(command) = {}
  /\ Len(journal) + Len(payloads) <= MaxJournal
  /\ journal' = journal \o [i \in DOMAIN payloads |-> [command |-> command, payload |-> payloads[i]]]

\* The revision moves with every batch; a transition is written with the events that tell it.
advanceRunJournalHead(row) == run' = [row EXCEPT !.revision = run.revision + 1]

Appended(command, payloads, row) == appendRunEventBatch(command, payloads) /\ advanceRunJournalHead(row)
===============================================================================
