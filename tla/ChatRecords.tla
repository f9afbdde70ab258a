----------------------------- MODULE ChatRecords -----------------------------
(* A Chat, the root Run that its Messages start and feed, and the records   *)
(* the Run keeps: its journal, its TaskList and its compactions.  Commands  *)
(* on the Chat are served between any two transactions of the Run.          *)
EXTENDS Conversations, TaskLists, Compactions

CONSTANTS
  Stories,     \* the states a behaviour may begin in
  Pages,       \* bound: the bounds between which readers ask for Messages
  MaxBusy      \* bound: of a reader, a TaskList and a compaction, how many a behaviour has at a time

vars == <<ledger, conversations, run, journal, taskList, compactions>>
runRecords == <<run, journal, taskList, compactions>>

RunRows == [status : RunStates, revision : Nat, chat : ChatIds, first : Nat \ {0}, inbox : Seq(InboxStates), activation : Nat,
            asked : Nat \cup {Absent}, question : Nat]
MessageKeys == (Requests \X {"message"}) \cup ({"settle", "earlier"} \X Nat)
MessageRows == [role : {"user", "assistant"}, run : DOMAIN ParentRun \cup {Owner, Absent}, key : MessageKeys,
                supersedes : Nat, document : {"current", "historical", Absent}]

\* What a Chat's row says of its Messages, once it was changed so often.
ChatStands(chat, rows, changes) ==
  /\ chat.count = Len(rows) /\ chat.head = Len(rows) /\ chat.revision = Len(rows) + changes
  /\ \A n \in DOMAIN rows :
       rows[n].document \in {Absent, IF chat.lifecycle = "active" THEN "current" ELSE "historical"}

UserInputs(rows, first) == {n \in DOMAIN rows : n >= first /\ rows[n].role = "user"}
Answers(rows) == {n \in DOMAIN rows : rows[n].run = Owner}
\* The Inbox of a Run is the user Messages since its first; it has said one Message, the one its journal names, exactly when it completed.
RunSaid(row, rows, log) ==
  /\ row.first \in DOMAIN rows /\ Len(row.inbox) = Cardinality(UserInputs(rows, row.first))
  /\ Answers(rows) = {log[i].payload.message : i \in Told(log, "message_ref")}
  /\ Cardinality(Answers(rows)) = IF row.status = "completed" THEN 1 ELSE 0
\* The journal told the revisions of a list one by one.
ListTold(list, log) ==
  LET told == Told(log, "task_list_changed") IN
  /\ \A i \in told : log[i].payload.revision = Cardinality({j \in told : j <= i})
  /\ Cardinality(told) = IF list = Absent THEN 0 ELSE list.revision

\* A story to begin with is one that the commands can have told: without a Run nothing was recorded of it, and no
\* compaction has begun.
StoryStands(s) ==
  /\ s.chats \in [ChatIds -> ChatRows \cup {Absent}] /\ s.messages \in [ChatIds -> Seq(MessageRows)]
  /\ \A c \in ChatIds : IF s.chats[c] = Absent THEN s.messages[c] = <<>> ELSE ChatStands(s.chats[c], s.messages[c], 0)
  /\ IsList(s.journal) /\ Told(s.journal, "compaction") = {}
  /\ IF s.run = Absent
       THEN s.journal = <<>> /\ s.taskList = Absent /\ \A c \in ChatIds : Answers(s.messages[c]) = {}
       ELSE s.run \in RunRows /\ s.chats[s.run.chat] # Absent /\ RunSaid(s.run, s.messages[s.run.chat], s.journal)
  /\ ListTold(s.taskList, s.journal)
  /\ s.taskList = Absent \/ /\ s.taskList \in ListRows /\ finalizeTaskList(s.taskList.items)
                            /\ s.taskList.state = "active" => s.run.status \notin TerminalStates

ASSUME StoriesAssumption ==
  Absent \notin RunRows /\ Pages \subseteq Nat \X Nat /\ \A s \in Stories : StoryStands(s)

Terminal == run.status \in TerminalStates
Pending(i) == run.inbox[i] \in {"queued", "delivered"}
Earliest(i) == i \in DOMAIN run.inbox /\ Pending(i) /\ \A j \in 1..(i - 1) : ~Pending(j)
PendingAfterTrigger == \E i \in DOMAIN run.inbox : i > run.activation /\ Pending(i)

UserMessage(r, text, supersedes) == Message("user", Absent, <<r, "message">>, text, supersedes)
Say(r, c, m) == MayRun(r) /\ appendMessage(c, m) /\ UNCHANGED <<project, walk>>

-----------------------------------------------------------------------------
(* message.send, run.sendFollowup, interaction.answer and run.control cancel *)

\* The Chat has no Run under way; the Message is the first input of a new one.
acceptRootRun(r, c, text, supersedes) ==
  /\ run = Absent /\ requireProject
  /\ Say(r, c, UserMessage(r, text, supersedes))
  /\ run' = [status |-> "accepted", revision |-> 0, chat |-> c, first |-> chats[c].head + 1, inbox |-> <<"queued">>, activation |-> 0,
             asked |-> Absent, question |-> 0]
  /\ Respond(r, <<"message.send", c, text, supersedes>>, [chat |-> c, message |-> chats[c].head + 1])
  /\ UNCHANGED <<journal, taskList, compactions>>

\* To a Run that is going; once it has ended a follow-up starts the next root Run, which is acceptRootRun again.
sendFollowup(r, expected) ==
  /\ run # Absent /\ ~Terminal /\ expected = run.revision
  /\ Say(r, run.chat, UserMessage(r, TRUE, 0))
  /\ Appended(r, <<Plain>>, [run EXCEPT !.inbox = Append(@, "queued")])
  /\ Respond(r, <<"run.sendFollowup", expected>>, [inbox |-> Len(run.inbox) + 1])
  /\ UNCHANGED <<taskList, compactions>>

\* pendingQuestionInteraction binds the question to the revision that it was asked at.
answer(r) ==
  /\ run # Absent /\ run.status = "waiting_question" /\ run.question = run.revision
  /\ Say(r, run.chat, UserMessage(r, TRUE, 0))
  /\ Appended(r, <<[type |-> "interaction_answered", message |-> chats[run.chat].head + 1], Plain>>,
              [run EXCEPT !.inbox = Append(@, "queued"), !.status = "running", !.question = 0])
  /\ Respond(r, <<"interaction.answer">>, [answered |-> chats[run.chat].head + 1])
  /\ UNCHANGED <<taskList, compactions>>

\* Mutant: only a cancellation ends the list.
terminalizeCancelledTaskList(state) ==
  IF taskList # Absent /\ taskList.state = "active" /\ state = "cancelled"
    THEN taskList' = [taskList EXCEPT !.state = state, !.revision = @ + 1] ELSE UNCHANGED taskList

\* terminalizeActiveTaskList: the list of a Run ends in the batch that ends the Run.
terminalizeActiveTaskList(state) ==
  IF taskList # Absent /\ taskList.state = "active"
    THEN taskList' = [taskList EXCEPT !.state = state, !.revision = @ + 1] ELSE UNCHANGED taskList

\* The Run as an end of this status leaves it; only a cancellation withdraws what is queued and asked.
Ended(status) ==
  [run EXCEPT !.status = status, !.activation = 0, !.asked = Absent,
              !.question = IF status = "cancelled" THEN 0 ELSE @,
              !.inbox = IF status = "cancelled"
                          THEN [i \in DOMAIN run.inbox |-> IF run.inbox[i] = "queued" THEN "cancelled" ELSE run.inbox[i]]
                          ELSE @]

terminalizeRun(command, status, leading) ==
  /\ RunMayBecome(run.status, status)
  /\ terminalizeActiveTaskList(IF status = "completed" THEN "completed" ELSE "cancelled")
  /\ Appended(command, leading \o <<Plain>> \o taskListEvents \o <<Plain>>, Ended(status))
  /\ UNCHANGED compactions

cancelRun(r, expected) ==
  /\ MayRun(r) /\ run # Absent /\ expected = run.revision
  /\ terminalizeRun(r, "cancelled", <<>>)
  /\ Respond(r, <<"run.control", expected>>, [revision |-> run'.revision])
  /\ UNCHANGED <<project, events, conversations>>

-----------------------------------------------------------------------------
(* The Run: an Activation takes the earliest Inbox message and asks a model  *)

RunStep == run # Absent /\ UNCHANGED <<ledger, conversations, taskList, compactions>>

deliver ==
  /\ RunStep /\ run.status \in {"accepted", "running"} /\ run.activation = 0
  /\ \E i \in DOMAIN run.inbox :
       /\ Earliest(i) /\ run.inbox[i] = "queued"
       /\ Appended(<<"deliver", i>>, <<Plain>>, [run EXCEPT !.inbox[i] = "delivered"])

startActivation ==
  /\ RunStep /\ run.status \in {"accepted", "running"} /\ run.activation = 0
  /\ \E i \in DOMAIN run.inbox :
       /\ Earliest(i) /\ run.inbox[i] = "delivered"
       /\ Appended(<<"start", i>>, <<Plain>>, [run EXCEPT !.status = "running", !.activation = i])

consume ==
  /\ RunStep /\ run.activation > 0 /\ run.inbox[run.activation] = "delivered"
  /\ Appended(<<"consume", run.activation>>, <<Plain>>, [run EXCEPT !.inbox[run.activation] = "consumed"])

MayAsk == run.activation > 0 /\ run.inbox[run.activation] = "consumed" /\ run.status = "running" /\ run.asked = Absent

\* prepareModelBoundary: the attempt keeps the Run revision its request was built from, or gives way to newer input.
ask ==
  /\ RunStep /\ MayAsk
  /\ IF PendingAfterTrigger
       THEN Appended(<<"ask", run.revision>>, <<Plain>>, [run EXCEPT !.activation = 0])
       ELSE Appended(<<"ask", run.revision>>, <<Plain>>, [run EXCEPT !.asked = run.revision])

\* assertAtomicModelToolPreparationSuffix: nothing but the start of its own step came since the request.
SuffixIsTheStep == run # Absent /\ run.status = "running" /\ run.asked # Absent /\ run.revision = run.asked + 1

\* settleTaskManageBoundary: the answer, the dispatch and the list in one batch.
settleTaskManage(expected) ==
  /\ SuffixIsTheStep /\ manageTaskListInTransaction(expected)
  /\ Appended(<<"task.manage", run.asked>>, <<Plain>> \o taskListEvents \o <<Plain>>,
              [run EXCEPT !.asked = Absent])
  /\ UNCHANGED <<ledger, conversations, compactions>>

settleInteractionAsk ==
  /\ RunStep /\ SuffixIsTheStep /\ run.question = 0 /\ RunMayBecome(run.status, "waiting_question")
  /\ Appended(<<"interaction.ask", run.asked>>,
              <<Plain>>, [run EXCEPT !.asked = Absent, !.activation = 0, !.status = "waiting_question", !.question = run.revision + 1])

AssistantMessage == Message("assistant", Owner, <<"settle", run.asked>>, TRUE, 0)

\* settleModelAttempt with a final answer: it is said and the Run completes, unless newer input waits.
settleFinalAnswer ==
  /\ run # Absent /\ run.asked # Absent /\ run.status = "running"
  /\ IF PendingAfterTrigger
       THEN /\ Appended(<<"settle", run.asked>>, <<Plain>>,
                        [run EXCEPT !.asked = Absent, !.activation = 0])
            /\ UNCHANGED <<chats, messages, events, taskList, compactions>>
       ELSE /\ appendMessage(run.chat, AssistantMessage)
            /\ terminalizeRun(<<"settle", run.asked>>, "completed",
                              <<Plain, [type |-> "message_ref", message |-> chats[run.chat].head + 1]>>)
  /\ UNCHANGED <<project, receipts, answers, walk>>

\* The process exits in the middle of an attempt: the next start closes the Activation before it serves anything.
closeInterruptedActivation ==
  /\ run # Absent /\ run.asked # Absent
  /\ terminalizeRun(<<"close", run.asked>>, "blocked", <<>>)
  /\ walk' = NoWalk
  /\ UNCHANGED <<ledger, chats, messages>>

-----------------------------------------------------------------------------
Init == \E s \in Stories :
  /\ project = [name |-> "first", lifecycle |-> "active", revision |-> 0]
  /\ receipts = <<>> /\ answers = {} /\ events = <<>>
  /\ chats = s.chats /\ messages = s.messages /\ walk = NoWalk
  /\ run = s.run /\ journal = s.journal /\ taskList = s.taskList
  /\ transactions = [t \in TransactionIds |-> Absent] /\ views = [v \in ViewIds |-> Absent]

\* What a caller last read: the revision now, or one change ago.
ReadOfChat(c) == IF chats[c] = Absent THEN {} ELSE {chats[c].revision - 1, chats[c].revision}
ReadOfList == IF taskList = Absent THEN {0} ELSE {taskList.revision - 1, taskList.revision}

ChatCommands == \E r \in Requests, c \in ChatIds :
  /\ \/ \E title \in Names : createChat(r, c, title)
     \/ \E method \in ChatMethods, title \in Names, base \in ReadOfChat(c) : mutateChat(r, c, base, method, title)
  /\ UNCHANGED <<walk, runRecords>>
ProjectCommands == \E r \in Requests, lifecycle \in Lifecycles :
  updateProject(r, project.revision, project.name, lifecycle) /\ UNCHANGED <<conversations, runRecords>>
Talk == \E r \in Requests :
  \/ \E c \in ChatIds, text \in BOOLEAN, supersedes \in 0..2 : acceptRootRun(r, c, text, supersedes)
  \/ run # Absent /\ \E expected \in ReadOfRun : sendFollowup(r, expected) \/ cancelRun(r, expected)
  \/ answer(r)
Repeat == \E r \in Requests : \E input \in Retries : Replay(r, input) /\ UNCHANGED <<conversations, runRecords>>
Summarise == run # Absent /\ Compact /\ UNCHANGED <<ledger, conversations, taskList>>
Read == Walk(Pages) /\ UNCHANGED <<ledger, runRecords>>

\* The bound MaxBusy, not the code, of the steps that begin one of the three.
Busy == Cardinality({b \in {"reader", "list", "compaction"} :
                       \/ b = "reader" /\ walk # NoWalk
                       \/ b = "list" /\ taskList # Absent
                       \/ b = "compaction" /\ \E t \in TransactionIds : transactions[t] # Absent})
Bounded == Busy' <= MaxBusy

Next == \/ ChatCommands \/ ProjectCommands \/ Talk \/ Repeat
        \/ deliver \/ startActivation \/ consume \/ ask
        \/ settleInteractionAsk \/ settleFinalAnswer \/ closeInterruptedActivation
        \/ (\E expected \in ReadOfList : settleTaskManage(expected)) /\ Bounded
        \/ Summarise /\ Bounded
        \/ Read /\ Bounded

-----------------------------------------------------------------------------
\* The TaskList is what the journal told: its revisions are announced one by one, each in the batch of the call or
\* of the end of the Run that made it, and no list stays active under a Run that has ended (runs.ts, task-lists.ts).
TaskListFollowsRun ==
  /\ ListTold(taskList, journal)
  /\ taskList # Absent /\ taskList.state = "active" => ~Terminal

\* What a Run keeps beside its journal, its compactions and its TaskList, is what the journal tells of it, through
\* crashes between the stages, replayed calls and the end of the Run (compaction-records.ts, task-lists.ts).
RecordsFollowJournal == CompactionsFollowJournal /\ TaskListFollowsRun

\* Whatever sequence of edits led to an active list, an edit whose guards accept it leaves a tree: siblings numbered
\* from zero without gaps, parents that exist, a child Run on one item (finalizeTaskList; the list's size is not modelled).
EditsKeepTheTree ==
  taskList # Absent /\ taskList.state = "active" => \A items \in Edits(taskList.items) : finalizeTaskList(items)

\* A Chat's count, head, revision and search documents follow its Messages through every order of renames,
\* archives, restores and what a Run says; the Run's Inbox is its user Messages, and it has said one assistant
\* Message, the one its journal names, exactly when it completed.
MessagesAreWhole ==
  /\ \A c \in ChatIds : chats[c] # Absent =>
       ChatStands(chats[c], messages[c], Cardinality({i \in DOMAIN events : events[i].subject = c /\ events[i].before >= 0}))
  /\ run # Absent => RunSaid(run, messages[run.chat], journal)

\* A reader that follows cursors from page to page has, at every page, been shown each Message between the cursor
\* and where it began exactly once and in order, whatever was said meanwhile (conversations.ts message.list, chat.query).
WalksReadEveryMessageOnce ==
  walk # NoWalk =>
    LET low == IF walk.cursor > 0 THEN walk.cursor ELSE walk.after + 1
    IN walk.shown = [n \in 1..(walk.top - low + 1) |-> low + n - 1]

Spec == Init /\ [][Next]_vars
=============================================================================
