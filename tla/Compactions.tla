----------------------------- MODULE Compactions -----------------------------
(* Compaction transactions of a Run: a range of its journal is summarised   *)
(* in stages, each stage a row change and an event in one transaction, on   *)
(* the Run revision the caller has read, and repeatable as it was asked.    *)
EXTENDS RunJournal

CONSTANTS
  TransactionIds,   \* ids callers choose for transactions
  ViewIds,          \* ids callers choose for derived views
  Ranges,           \* bound: the first and last event that callers ask to summarise
  Citations         \* bound: the events that summaries cite

VARIABLES
  transactions,   \* compaction_transactions rows, or Absent
  views           \* compaction_views rows, or Absent
compactions == <<transactions, views>>

Reasons == {"process_restarted", "cancelled"}
CompactionStates == {"started", "view_derived", "completed", "interrupted"}
TransactionRows == [state : CompactionStates, from : Nat, to : Nat, reason : Reasons \cup {Absent}]
ViewRows == [tx : TransactionIds, cited : SUBSET Nat]

ASSUME CompactionsAssumption ==
  Absent \notin TransactionRows \cup ViewRows /\ Ranges \subseteq Nat \X Nat /\ Citations \subseteq SUBSET Nat

\* What a caller last read of the Run: its revision now, or one batch ago.
ReadOfRun == {run.revision - 1, run.revision} \cap Nat
assertRunCas(expected) == run.revision = expected /\ run.status \in {"running", "recovering"}

stageCommandId(t, stage) == <<"compaction", t, stage>>

\* replayStage: a stage that ran is answered from its event and moves nothing; asked otherwise, it is refused.
NotReplayed(t, stage) == loadRunEventForCommand(stageCommandId(t, stage)) = {}

appendStage(t, stage, semantics) ==
  Appended(stageCommandId(t, stage), <<[type |-> "compaction", stage |-> stage, tx |-> t, semantics |-> semantics]>>, run)

assertCommittedRange(from, to) == from <= to /\ to <= Len(journal)

startCompaction(t, expected, activation, from, to) ==
  /\ NotReplayed(t, "started") /\ assertRunCas(expected)
  /\ activation = run.activation /\ activation > 0
  /\ assertCommittedRange(from, to) /\ transactions[t] = Absent
  /\ transactions' = [transactions EXCEPT ![t] = [state |-> "started", from |-> from, to |-> to, reason |-> Absent]]
  /\ appendStage(t, "started", <<from, to>>)
  /\ UNCHANGED views

deriveCompactionView(t, expected, v, cited) ==
  /\ NotReplayed(t, "view_derived") /\ assertRunCas(expected)
  /\ transactions[t] # Absent /\ transactions[t].state = "started"
  /\ cited \subseteq transactions[t].from..transactions[t].to /\ cited \subseteq DOMAIN journal
  /\ views[v] = Absent
  /\ views' = [views EXCEPT ![v] = [tx |-> t, cited |-> cited]]
  /\ transactions' = [transactions EXCEPT ![t].state = "view_derived"]
  /\ appendStage(t, "view_derived", <<transactions[t].from, transactions[t].to, v, cited>>)

viewsOf(t) == {v \in ViewIds : views[v] # Absent /\ views[v].tx = t}

completeCompaction(t, expected, v) ==
  /\ NotReplayed(t, "completed") /\ assertRunCas(expected)
  /\ transactions[t] # Absent /\ transactions[t].state = "view_derived" /\ v \in viewsOf(t)
  /\ transactions' = [transactions EXCEPT ![t].state = "completed"]
  /\ appendStage(t, "completed", <<v>>)
  /\ UNCHANGED views

\* interruptAfterRestart is this with the reason of a restart; a view that was derived stays.
interruptCompaction(t, expected, reason) ==
  /\ NotReplayed(t, "interrupted") /\ assertRunCas(expected)
  /\ transactions[t] # Absent /\ transactions[t].state \in {"started", "view_derived"}
  /\ transactions' = [transactions EXCEPT ![t].state = "interrupted", ![t].reason = reason]
  /\ appendStage(t, "interrupted", <<reason>>)
  /\ UNCHANGED views

Compact ==
  \E t \in TransactionIds, expected \in ReadOfRun :
    \/ \E range \in Ranges : startCompaction(t, expected, run.activation, range[1], range[2])
    \/ \E v \in ViewIds : \/ \E cited \in Citations : deriveCompactionView(t, expected, v, cited)
                          \/ completeCompaction(t, expected, v)
    \/ \E reason \in Reasons : interruptCompaction(t, expected, reason)

-----------------------------------------------------------------------------
\* availableCompactionStages, of one transaction: the events that tell of it.
StagesOf(t) == {i \in Told(journal, "compaction") : journal[i].payload.tx = t}

\* assertCompactionJournalProjection: the rows that the events of a transaction call for.
Projection(t) ==
  LET row == transactions[t]
      first == journal[Min(StagesOf(t))].payload
      last == journal[Max(StagesOf(t))].payload
      derived == {i \in StagesOf(t) : journal[i].payload.stage = "view_derived"} IN
  /\ first.stage = "started" /\ first.semantics = <<row.from, row.to>>
  /\ viewsOf(t) = {journal[i].payload.semantics[3] : i \in derived}
  /\ \A i \in derived, v \in viewsOf(t) :
       /\ journal[i].payload.semantics = <<row.from, row.to, v, views[v].cited>>
       /\ views[v].cited \subseteq row.from..row.to
  /\ last.stage = row.state
  /\ row.state = "completed" => {last.semantics[1]} = viewsOf(t)
  /\ row.state = "interrupted" => last.semantics = <<row.reason>>
  /\ Cardinality(StagesOf(t)) = Cardinality(viewsOf(t)) + IF row.state \in {"completed", "interrupted"} THEN 2 ELSE 1

\* Every stage of a compaction is told by the journal exactly once, in order and with what its row says now:
\* the check that every stage and every load of a Run ends in (compaction-records.ts) never finds corruption.
CompactionsFollowJournal ==
  \A t \in TransactionIds : IF transactions[t] = Absent THEN StagesOf(t) = {} /\ viewsOf(t) = {}
                            ELSE StagesOf(t) # {} /\ Projection(t)
=============================================================================
