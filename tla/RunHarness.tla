----------------------------- MODULE RunHarness -----------------------------
(* One Run of a Chat: the durable rows of the run and harness authorities,  *)
(* and the one in-process task that drives the Run while the desktop host   *)
(* is up.  Every action is one immediate SQLite transaction, or one         *)
(* resumption of the task after an await.  The task's program counter names *)
(* what it does next: at an Awaiting point the event loop may serve a user  *)
(* command first; everywhere else ("held") the JavaScript thread runs on to *)
(* its next transaction, so only a crash can come between.                  *)
EXTENDS RunContract, Sequences

CONSTANTS
  MaxInbox,      \* bound: messages ever queued for the Run
  MaxAttempts,   \* bound: Model Attempts of one Activation
  MaxControls,   \* bound: pause and resume commands
  MaxCrashes,    \* bound: process exits
  IsRoot,        \* TRUE: a root Run; FALSE: a child Run (agent.spawn)
  Replies,       \* what the model provider may answer
  Faults         \* which host-side steps may throw

AllReplies == {"stop", "read", "control", "bound", "export", "ask", "protected",
               "failed", "unknown", "cancelled", "lost", "throw"}
AllFaults == {"quote", "tool", "stale_plan"}

ASSUME BoundsAssumption == /\ MaxInbox \in Nat \ {0} /\ MaxAttempts \in Nat \ {0}
                           /\ MaxControls \in Nat /\ MaxCrashes \in Nat
ASSUME KindAssumption == IsRoot \in BOOLEAN /\ Replies \subseteq AllReplies
                         /\ Faults \subseteq AllFaults

VARIABLES
  status,       \* runs.status
  revision,     \* runs.revision: one more for every journal head the Run advances to
  inbox,        \* run_inbox: the state of each message, in sequence order
  activation,   \* the latest row of run_activations
  attempt,      \* the latest row of model_attempts of that Activation
  call,         \* the latest model tool call and its dispatch_operations row
  step,         \* kind of the journal step left open: "none", "model" or "tool"
  interaction,  \* the latest run_interactions or confirmations row
  task,         \* the coordination task: program counter, request head, abort signal
  host,         \* the desktop main process
  woken,        \* the notification generation moved since the last coordination attempt
  spent         \* bound counters: user controls and crashes so far

durable == <<status, revision, inbox, activation, attempt, call, step, interaction>>
vars == <<durable, task, host, woken, spent>>

ActivationStates == {"none", "active", "ended"}
EndReasons == {"none", "safe_boundary", "waiting", "terminal", "process_exit"}
AttemptStates == {"none", "prepared", "running", "succeeded", "failed", "cancelled", "unknown"}
Tools == {"none", "read", "control", "bound", "export", "protected"}
DispatchStates == {"none", "undispatched", "held", "open", "settled"}
Pcs == {"off", "coordinate", "starting", "consuming", "quoting", "marking", "streaming",
        "dispatching", "executing", "protecting", "failing"}
HostStates == {"up", "down", "resuming", "reconciling", "failed"}

ActivationRows == [number : Nat, trigger : Nat, state : ActivationStates, reason : EndReasons]
AttemptRows == [number : Nat, state : AttemptStates, local : BOOLEAN]
CallRows == [tool : Tools, dispatch : DispatchStates]
Steps == {"none", "model", "tool"}
InteractionRows == [kind : {"none", "question", "confirmation"},
                    state : {"none", "pending", "answered", "cancelled"}, revision : Nat]
Tasks == [pc : Pcs, request : Nat, seen : Nat, aborted : BOOLEAN]
Counters == [controls : Nat, crashes : Nat]

TypeOK ==
  /\ status \in RunStates
  /\ revision \in Nat
  /\ inbox \in Seq(InboxStates)
  /\ activation \in ActivationRows
  /\ attempt \in AttemptRows
  /\ call \in CallRows
  /\ step \in Steps
  /\ interaction \in InteractionRows
  /\ task \in Tasks
  /\ host \in HostStates
  /\ woken \in BOOLEAN
  /\ spent \in Counters

NoAttempt == [number |-> 0, state |-> "none", local |-> FALSE]
NoCall == [tool |-> "none", dispatch |-> "none"]
TaskOff == [pc |-> "off", request |-> 0, seen |-> 0, aborted |-> FALSE]

\* Root acceptance and agent.spawn both insert the Run "accepted" with one queued message.
Init ==
  /\ status = "accepted"
  /\ revision = 0
  /\ inbox = <<"queued">>
  /\ activation = [number |-> 0, trigger |-> 0, state |-> "none", reason |-> "none"]
  /\ attempt = NoAttempt
  /\ call = NoCall
  /\ step = "none"
  /\ interaction = [kind |-> "none", state |-> "none", revision |-> 0]
  /\ task = TaskOff
  /\ host = "up"
  /\ woken = TRUE
  /\ spent = [controls |-> 0, crashes |-> 0]

-----------------------------------------------------------------------------
(* Reading the durable rows *)

Pending(i) == inbox[i] \in {"queued", "delivered"}

\* coordinatorInbox: the first message neither consumed nor cancelled.
Earliest(i) == i \in DOMAIN inbox /\ Pending(i) /\ \A j \in 1..(i - 1) : ~Pending(j)

\* Mutant: the messages are those the request was built from.
PendingAfterTriggerAtRequest == \E i \in DOMAIN inbox : i > activation.trigger /\ i <= task.seen /\ Pending(i)

\* earliestPendingInboxAfterTrigger: something newer than this Activation's trigger waits.
PendingAfterTrigger == \E i \in DOMAIN inbox : i > activation.trigger /\ Pending(i)

Unresolved == attempt.state \in {"prepared", "running", "unknown"}

\* HarnessActivationSnapshot.recoveryRequired; a held protected mutation is a suspension.
RecoveryRequired == Unresolved \/ call.dispatch \in {"open", "undispatched"}

\* The latest response ends in model_failed.
LastFailed == attempt.state \in {"failed", "cancelled", "unknown"}

\* isRunActivationActive
Active == status = "running" /\ activation.state = "active"

\* terminalModelFailure with its exclusions: the provider's own terminal failure.
ModelFailed == LastFailed /\ ~attempt.local /\ Active

\* unresolved*Dispatch: an owner-bound operation is re-entered by its dispatch id.
Resumable == call.tool \in {"bound", "export"} /\ call.dispatch = "open"

Schedulable == status \in {"accepted", "running"}

Awaiting == {"quoting", "streaming", "executing"}
Booting == host \in {"resuming", "reconciling"}

-----------------------------------------------------------------------------
(* Writing them: each helper is one clause of a transaction *)

Advance(n) == revision' = revision + n

SetInbox(i, s) == inbox' = [inbox EXCEPT ![i] = s]

Enqueue == inbox' = Append(inbox, "queued")

EndActivation(why) == activation' = [activation EXCEPT !.state = "ended", !.reason = why]

\* Run control settles an in-flight attempt itself: a prepared one as never submitted, a running one as cancelled.
HostSettled ==
  CASE attempt.state = "prepared" -> [attempt EXCEPT !.state = "failed", !.local = TRUE]
    [] attempt.state = "running"  -> [attempt EXCEPT !.state = "cancelled", !.local = TRUE]
    [] OTHER                      -> attempt

InFlight == attempt.state \in {"prepared", "running"}

\* Mutant: only the earliest message is withdrawn.
WithdrawnEarliest == [i \in DOMAIN inbox |-> IF Earliest(i) /\ inbox[i] = "queued" THEN "cancelled" ELSE inbox[i]]

\* cancelPendingRunWork: queued messages are withdrawn; a delivered one stays delivered.
Withdrawn == [i \in DOMAIN inbox |-> IF inbox[i] = "queued" THEN "cancelled" ELSE inbox[i]]

Goto(pc) == task' = [task EXCEPT !.pc = pc]

\* The coordination returns: the task loops while the Run can be scheduled; boot calls it once.
Returned(st) == Goto(IF host = "up" /\ st \in {"accepted", "running"} THEN "coordinate" ELSE "off")

\* An error leaves the task; thrown while booting it fails the application start.
Throws == Goto("off") /\ host' = IF Booting THEN "failed" ELSE host

\* runModelAttempt is entered with a request frozen at the current head, unless the signal is aborted.
NextAttempt(rev, n) ==
  IF task.aborted THEN Returned(status)
  ELSE task' = [task EXCEPT !.pc = "quoting", !.request = rev, !.seen = n]

-----------------------------------------------------------------------------
(* User commands.  They reach the main process through IPC between two tasks *)
(* of the event loop, and each one notifies the runtime controller.          *)

UserTurn == host = "up" /\ task.pc \in Awaiting \cup {"off"}

\* run.sendFollowup to a Run that is not terminal.
SendFollowup ==
  /\ UserTurn /\ status \notin TerminalStates /\ Len(inbox) < MaxInbox
  /\ Enqueue /\ Advance(1) /\ woken' = TRUE
  /\ UNCHANGED <<status, activation, attempt, call, step, interaction, task, host, spent>>

Control == /\ UserTurn /\ spent.controls < MaxControls
           /\ spent' = [spent EXCEPT !.controls = @ + 1] /\ woken' = TRUE

\* run.control pause: settle the attempt in flight, then running -> paused.
Pause ==
  /\ Control /\ status = "running"
  /\ attempt' = HostSettled /\ step' = IF InFlight THEN "none" ELSE step
  /\ status' = "paused" /\ Advance(IF InFlight THEN 2 ELSE 1)
  /\ UNCHANGED <<inbox, activation, call, interaction, task, host>>

Resume ==
  /\ Control /\ status = "paused"
  /\ status' = "running" /\ Advance(1)
  /\ UNCHANGED <<inbox, activation, attempt, call, step, interaction, task, host>>

\* run.control cancel: terminalizeRunInTransaction("cancelled").
Cancel ==
  /\ Control /\ status \notin TerminalStates
  /\ attempt' = HostSettled /\ step' = IF InFlight THEN "none" ELSE step
  /\ inbox' = Withdrawn
  /\ interaction' = IF interaction.state = "pending"
                    THEN [interaction EXCEPT !.state = "cancelled"] ELSE interaction
  /\ IF activation.state = "active" THEN EndActivation("terminal") ELSE UNCHANGED activation
  /\ status' = "cancelled" /\ Advance(IF InFlight THEN 2 ELSE 1)
  /\ UNCHANGED <<call, task, host>>

\* pendingQuestionInteraction accepts the answer only at the revision the question was asked at.
Answerable == /\ interaction.kind = "question" /\ interaction.state = "pending"
              /\ status = "waiting_question" /\ interaction.revision = revision

AnswerQuestion ==
  /\ UserTurn /\ Answerable /\ Len(inbox) < MaxInbox
  /\ interaction' = [interaction EXCEPT !.state = "answered"]
  /\ Enqueue /\ status' = "running" /\ Advance(1) /\ woken' = TRUE
  /\ UNCHANGED <<activation, attempt, call, step, task, host, spent>>

Confirmable == /\ interaction.kind = "confirmation" /\ interaction.state = "pending"
               /\ status = "waiting_confirmation" /\ call.dispatch = "held"

\* A protected mutation is decided in one transaction: guard, effect, settlement and the answer message.
RespondProtected ==
  /\ UserTurn /\ Confirmable /\ call.tool = "protected" /\ Len(inbox) < MaxInbox
  /\ interaction' = [interaction EXCEPT !.state = "answered"]
  /\ call' = [call EXCEPT !.dispatch = "settled"] /\ step' = "none"
  /\ EndActivation("waiting") /\ Enqueue
  /\ status' = "running" /\ Advance(1) /\ woken' = TRUE
  /\ UNCHANGED <<attempt, task, host, spent>>

\* An export is answered first (d: "open" when approved, "settled" when denied) and runs afterwards.
RespondExport(d) ==
  /\ UserTurn /\ Confirmable /\ call.tool = "export"
  /\ interaction' = [interaction EXCEPT !.state = "answered"]
  /\ call' = [call EXCEPT !.dispatch = d]
  /\ step' = IF d = "settled" THEN "none" ELSE step
  /\ status' = "running" /\ Advance(1) /\ woken' = TRUE
  /\ UNCHANGED <<inbox, activation, attempt, task, host, spent>>

ApproveExport == RespondExport("open")
DenyExport == RespondExport("settled")

\* A command for another Chat moves the shared notification generation.
OtherWork ==
  /\ UserTurn /\ ~woken /\ woken' = TRUE
  /\ UNCHANGED <<durable, task, host, spent>>

-----------------------------------------------------------------------------
(* runtime-controller.ts: a sweep starts and aborts coordination tasks *)

StartTask ==
  /\ host = "up" /\ task.pc = "off" /\ woken /\ Schedulable
  /\ task' = [TaskOff EXCEPT !.pc = "coordinate"] /\ woken' = FALSE
  /\ UNCHANGED <<durable, host, spent>>

AbortTask ==
  /\ host = "up" /\ task.pc \in Awaiting /\ ~Schedulable /\ ~task.aborted
  /\ task' = [task EXCEPT !.aborted = TRUE]
  /\ UNCHANGED <<durable, host, woken, spent>>

-----------------------------------------------------------------------------
(* coordinateRun: one pass decides what the durable rows call for.  A pass   *)
(* over an active Activation with an aborted signal does nothing and is      *)
(* repeated at once: that busy loop is a stuttering step here.               *)

Coordinating == task.pc = "coordinate"

\* deferred or idle: another state machine must move first.
Defer ==
  /\ Coordinating
  /\ \/ ~Schedulable
     \/ activation.state = "active" /\ RecoveryRequired /\ ~ModelFailed /\ ~Resumable
     \/ activation.state # "active" /\ ~\E i \in DOMAIN inbox : Earliest(i)
  /\ Goto("off")
  /\ UNCHANGED <<durable, host, woken, spent>>

CoordinateFailure ==
  /\ Coordinating /\ ModelFailed
  /\ Goto("failing")
  /\ UNCHANGED <<durable, host, woken, spent>>

\* Re-enter the active Activation: its open owner operation first, else its trigger, else a new attempt.
ReenterActivation ==
  /\ Coordinating /\ Active /\ ~ModelFailed /\ (Resumable \/ ~RecoveryRequired) /\ ~task.aborted
  /\ IF Resumable THEN Goto("executing")
     ELSE IF inbox[activation.trigger] = "delivered" THEN Goto("consuming")
     ELSE NextAttempt(revision, Len(inbox))
  /\ UNCHANGED <<durable, host, woken, spent>>

\* No Activation: deliver the earliest message if it is still queued.
Deliver ==
  /\ Coordinating /\ Schedulable /\ activation.state # "active"
  /\ \E i \in DOMAIN inbox :
       /\ Earliest(i)
       /\ IF inbox[i] = "queued" THEN SetInbox(i, "delivered") /\ Advance(1)
          ELSE UNCHANGED <<inbox, revision>>
  /\ Goto("starting")
  /\ UNCHANGED <<status, activation, attempt, call, step, interaction, host, woken, spent>>

StartActivation ==
  /\ task.pc = "starting" /\ Schedulable /\ activation.state # "active"
  /\ \E i \in DOMAIN inbox :
       /\ Earliest(i) /\ inbox[i] = "delivered" /\ activation.trigger < i
       /\ activation' = [number |-> activation.number + 1, trigger |-> i,
                         state |-> "active", reason |-> "none"]
  /\ status' = "running" /\ Advance(1)
  /\ attempt' = NoAttempt /\ call' = NoCall
  /\ Goto("consuming")
  /\ UNCHANGED <<inbox, step, interaction, host, woken, spent>>

-----------------------------------------------------------------------------
(* runActivation: consume the trigger, then attempt after attempt *)

ConsumeInbox ==
  /\ task.pc = "consuming" /\ Earliest(activation.trigger)
  /\ SetInbox(activation.trigger, "consumed") /\ Advance(1)
  /\ NextAttempt(revision + 1, Len(inbox))
  /\ UNCHANGED <<status, activation, attempt, call, step, interaction, host, woken, spent>>

Quoting == task.pc = "quoting"

\* The quote came back to a Run that was paused, cancelled or aborted meanwhile.
QuoteDiscarded ==
  /\ Quoting /\ (task.aborted \/ ~Active)
  /\ Returned(status)
  /\ UNCHANGED <<durable, host, woken, spent>>

\* assertRequestSupersededOnlyByPendingInbox: only messages joined the journal since the request.
OnlyInboxGrew == revision - task.request = Len(inbox) - task.seen

\* prepareModelBoundary yields the Activation to a newer message before spending a model call.
QuoteYields ==
  /\ Quoting /\ ~task.aborted /\ Active /\ ~RecoveryRequired
  /\ PendingAfterTrigger /\ OnlyInboxGrew
  /\ EndActivation("safe_boundary") /\ Advance(1) /\ Returned(status)
  /\ UNCHANGED <<status, inbox, attempt, call, step, interaction, host, woken, spent>>

PrepareAttempt ==
  /\ Quoting /\ ~task.aborted /\ Active /\ ~RecoveryRequired
  /\ ~PendingAfterTrigger /\ revision = task.request /\ attempt.number < MaxAttempts
  /\ attempt' = [number |-> attempt.number + 1, state |-> "prepared", local |-> FALSE]
  /\ step' = "model" /\ Advance(1) /\ Goto("marking")
  /\ UNCHANGED <<status, inbox, activation, call, interaction, host, woken, spent>>

\* The request no longer matches the Run: it was paused and resumed.
RequestSuperseded ==
  /\ ~task.aborted /\ Active
  /\ \/ RecoveryRequired
     \/ PendingAfterTrigger /\ ~OnlyInboxGrew
     \/ ~PendingAfterTrigger /\ revision # task.request

\* prepareModelBoundary or the adapter throws.
QuoteThrows ==
  /\ Quoting /\ ("quote" \in Faults \/ RequestSuperseded)
  /\ Throws
  /\ UNCHANGED <<durable, woken, spent>>

MarkRunning ==
  /\ task.pc = "marking" /\ attempt.state = "prepared"
  /\ attempt' = [attempt EXCEPT !.state = "running"] /\ Goto("streaming")
  /\ UNCHANGED <<status, revision, inbox, activation, call, step, interaction, host, woken, spent>>

-----------------------------------------------------------------------------
(* The provider answers *)

Streaming == task.pc = "streaming"

StreamDiscarded ==
  /\ Streaming /\ (task.aborted \/ ~Active)
  /\ Returned(status)
  /\ UNCHANGED <<durable, host, woken, spent>>

\* The attempt was settled by run control meanwhile.
AnswerSuperseded == Active /\ attempt.state # "running"

\* Mutant: the generation is taken note of when the task ends, with the notifications that came meanwhile.
StreamThrowsUnwoken ==
  /\ Streaming /\ ~task.aborted /\ ("throw" \in Replies \/ AnswerSuperseded)
  /\ Throws /\ woken' = FALSE /\ UNCHANGED <<durable, spent>>

\* settleModelAttempt or the adapter throws: nothing is written.
StreamThrows ==
  /\ Streaming /\ ~task.aborted /\ ("throw" \in Replies \/ AnswerSuperseded)
  /\ Throws
  /\ UNCHANGED <<durable, woken, spent>>

\* Mutant: an attempt that run control settled meanwhile is settled again.
AnsweredTwice(r, result) ==
  /\ Streaming /\ ~task.aborted /\ Active /\ r \in Replies
  /\ attempt' = [attempt EXCEPT !.state = result]
  /\ step' = "none"
  /\ UNCHANGED <<woken, spent>>

\* Mutant: the Run is not read again after the await.
AnsweredUnread(r, result) ==
  /\ Streaming /\ ~task.aborted /\ r \in Replies
  /\ attempt' = [attempt EXCEPT !.state = result]
  /\ step' = "none"
  /\ UNCHANGED <<woken, spent>>

\* Answer r is settled on the running attempt of the Activation the task drives.
Answered(r, result) ==
  /\ Streaming /\ ~task.aborted /\ Active /\ attempt.state = "running" /\ r \in Replies
  /\ attempt' = [attempt EXCEPT !.state = result]
  /\ step' = "none"
  /\ UNCHANGED <<woken, spent>>

\* finishReason "stop": the Run completes, unless a newer message takes the Activation's place.
FinalAnswer ==
  /\ Answered("stop", "succeeded") /\ Advance(1)
  /\ IF PendingAfterTrigger
     THEN EndActivation("safe_boundary") /\ status' = status
     ELSE EndActivation("terminal") /\ status' = "completed"
  /\ Returned(status')
  /\ UNCHANGED <<inbox, call, interaction, host>>

\* A tool call needs a later attempt to carry on: MaxAttempts bounds the chain.
CallsTool(t, d) == attempt.number < MaxAttempts /\ call' = [tool |-> t, dispatch |-> d]

ReadCall ==
  /\ Answered("read", "succeeded") /\ CallsTool("read", "undispatched")
  /\ Advance(1) /\ Goto("dispatching")
  /\ UNCHANGED <<status, inbox, activation, interaction, host>>

ProtectedCall ==
  /\ Answered("protected", "succeeded") /\ CallsTool("protected", "undispatched")
  /\ Advance(1) /\ Goto("protecting")
  /\ UNCHANGED <<status, inbox, activation, interaction, host>>

\* assertAtomicModelToolPreparationSuffix: since the request only the attempt's own step was journalled.
SuffixLegal == revision = task.request + 1

\* agent.*, canvas.mutate, task.manage ...: settle attempt, dispatch and effect together.
ControlCall ==
  /\ Answered("control", "succeeded") /\ SuffixLegal /\ CallsTool("control", "settled")
  /\ Advance(1) /\ NextAttempt(revision + 1, Len(inbox))
  /\ UNCHANGED <<status, inbox, activation, interaction, host>>

\* generation.submit, media.derive, agent.wait ...: the dispatch stays open while its owner works.
BoundCall ==
  /\ Streaming /\ ~task.aborted /\ Active /\ attempt.state = "running" /\ "bound" \in Replies
  /\ SuffixLegal /\ CallsTool("bound", "open")
  /\ attempt' = [attempt EXCEPT !.state = "succeeded"] /\ step' = "tool"
  /\ Advance(1) /\ Goto("executing")
  /\ UNCHANGED <<status, inbox, activation, interaction, host, woken, spent>>

\* A step waits for the user: the Run leaves "running" and the task ends.
AsksUser(kind, st) ==
  /\ interaction' = [kind |-> kind, state |-> "pending", revision |-> revision + 1]
  /\ status' = st /\ Advance(1) /\ Goto("off")

ExportCall ==
  /\ Streaming /\ ~task.aborted /\ Active /\ attempt.state = "running" /\ "export" \in Replies
  /\ SuffixLegal /\ CallsTool("export", "held")
  /\ attempt' = [attempt EXCEPT !.state = "succeeded"] /\ step' = "tool"
  /\ AsksUser("confirmation", "waiting_confirmation")
  /\ UNCHANGED <<inbox, activation, host, woken, spent>>

AskQuestion ==
  /\ Answered("ask", "succeeded") /\ SuffixLegal
  /\ EndActivation("waiting") /\ AsksUser("question", "waiting_question")
  /\ UNCHANGED <<inbox, call, host>>

\* The suffix is illegal: the boundary rolls back and the attempt stays "running".
AtomicCallRejected ==
  /\ Streaming /\ ~task.aborted /\ Active /\ attempt.state = "running" /\ ~SuffixLegal
  /\ Replies \cap {"control", "bound", "export", "ask"} # {}
  /\ Throws
  /\ UNCHANGED <<durable, woken, spent>>

\* model_failed from the provider: settled first, the Run is terminalized by a second transaction.
ProviderFailure ==
  /\ \E r \in {"failed", "unknown", "cancelled"} : Answered(r, r)
  /\ Advance(1) /\ Goto("failing")
  /\ UNCHANGED <<status, inbox, activation, call, interaction, host>>

\* The adapter lost the request without a provider verdict: settled as locally cancelled, Run kept.
ProviderLost ==
  /\ Streaming /\ ~task.aborted /\ Active /\ attempt.state = "running" /\ "lost" \in Replies
  /\ attempt.number < MaxAttempts
  /\ attempt' = [attempt EXCEPT !.state = "cancelled", !.local = TRUE]
  /\ step' = "none" /\ Advance(1) /\ Returned(status)
  /\ UNCHANGED <<status, inbox, activation, call, interaction, host, woken, spent>>

\* terminalizeModelFailure
FailRun ==
  /\ task.pc = "failing" /\ ModelFailed
  /\ status' = IF attempt.state = "cancelled" THEN "cancelled" ELSE "failed"
  /\ inbox' = IF attempt.state = "cancelled" THEN Withdrawn ELSE inbox
  /\ EndActivation("terminal") /\ Advance(1) /\ Goto("off")
  /\ UNCHANGED <<attempt, call, step, interaction, host, woken, spent>>

-----------------------------------------------------------------------------
(* Tools *)

PrepareDispatch ==
  /\ task.pc = "dispatching" /\ activation.state = "active" /\ call.dispatch = "undispatched"
  /\ call' = [call EXCEPT !.dispatch = "open"] /\ step' = "tool"
  /\ Advance(1) /\ Goto("executing")
  /\ UNCHANGED <<status, inbox, activation, attempt, interaction, host, woken, spent>>

Executing == task.pc = "executing" /\ call.dispatch = "open"

Settles == call' = [call EXCEPT !.dispatch = "settled"] /\ step' = "none" /\ Advance(1)

\* Mutant: a read that returns to a paused Run is not settled.
ReadReturnsIfRunning ==
  /\ Executing /\ call.tool = "read" /\ Active
  /\ Settles
  /\ IF PendingAfterTrigger
     THEN EndActivation("safe_boundary") /\ Returned(status)
     ELSE UNCHANGED activation /\ NextAttempt(revision + 1, Len(inbox))
  /\ UNCHANGED <<status, inbox, attempt, interaction, host, woken, spent>>

\* settleDispatch needs the Activation, not a running Run: a read that returns late is kept while paused.
ReadReturns ==
  /\ Executing /\ call.tool = "read" /\ activation.state = "active"
  /\ Settles
  /\ IF PendingAfterTrigger
     THEN EndActivation("safe_boundary") /\ Returned(status)
     ELSE /\ UNCHANGED activation
          /\ IF Active THEN NextAttempt(revision + 1, Len(inbox)) ELSE Returned(status)
  /\ UNCHANGED <<status, inbox, attempt, interaction, host, woken, spent>>

\* An owner operation is settled only while the Run is active; its dispatch stays open otherwise.
OwnerReturns ==
  /\ Executing /\ Resumable /\ ~task.aborted /\ Active
  /\ Settles /\ NextAttempt(revision + 1, Len(inbox))
  /\ UNCHANGED <<status, inbox, activation, attempt, interaction, host, woken, spent>>

OwnerDiscarded ==
  /\ Executing /\ Resumable /\ (task.aborted \/ ~Active)
  /\ Returned(status)
  /\ UNCHANGED <<durable, host, woken, spent>>

\* The Run ended while the read was out.
ReadSuperseded == call.tool = "read" /\ activation.state # "active"

ToolThrows ==
  /\ Executing /\ (("tool" \in Faults /\ ~task.aborted) \/ ReadSuperseded)
  /\ Throws
  /\ UNCHANGED <<durable, woken, spent>>

Protecting == task.pc = "protecting" /\ Active /\ call.dispatch = "undispatched"

\* No protection covers the targets: dispatch, effect and settlement are one transaction.
ProtectedCommits ==
  /\ Protecting
  /\ call' = [call EXCEPT !.dispatch = "settled"] /\ Advance(1)
  /\ NextAttempt(revision + 1, Len(inbox))
  /\ UNCHANGED <<status, inbox, activation, attempt, step, interaction, host, woken, spent>>

ProtectedHolds ==
  /\ Protecting
  /\ call' = [call EXCEPT !.dispatch = "held"] /\ step' = "tool"
  /\ AsksUser("confirmation", "waiting_confirmation")
  /\ UNCHANGED <<inbox, activation, attempt, host, woken, spent>>

\* The plan meets a stale revision: the transaction rolls back and the call stays undispatched.
ProtectedThrows ==
  /\ Protecting /\ "stale_plan" \in Faults
  /\ Throws
  /\ UNCHANGED <<durable, woken, spent>>

-----------------------------------------------------------------------------
(* The process dies, starts again and reconciles the interrupted Run *)

Exit == host' = "down" /\ task' = TaskOff /\ woken' = TRUE
        /\ spent' = [spent EXCEPT !.crashes = @ + 1] /\ UNCHANGED durable

Crash == host # "down" /\ spent.crashes < MaxCrashes /\ Exit

\* reconcileInterruptedRun: only a running Run with an interrupted Activation is touched.
Boot ==
  /\ host = "down"
  /\ IF Active /\ (LastFailed \/ RecoveryRequired)
     THEN /\ host' = IF LastFailed THEN "resuming" ELSE "reconciling"
          /\ task' = [TaskOff EXCEPT !.pc = "coordinate"]
     ELSE host' = "up" /\ UNCHANGED task
  /\ UNCHANGED <<durable, woken, spent>>

Interrupted == Active /\ RecoveryRequired

\* Mutant: an interrupted read call cannot be closed.
ClosableModel == IsRoot /\ Unresolved

\* closeInterruptedActivation closes a root's model attempt or unowned read call, nothing else.
Closable == IsRoot /\ (Unresolved \/ call.tool = "read")

ReconcileDone ==
  /\ Booting /\ task.pc = "off"
  /\ host = "resuming" \/ ~Interrupted
  /\ host' = "up"
  /\ UNCHANGED <<durable, task, woken, spent>>

\* A prepared attempt was never submitted; what became of a running one is unknown.
Interruption ==
  CASE attempt.state = "prepared" -> [attempt EXCEPT !.state = "failed", !.local = TRUE]
    [] attempt.state = "running"  -> [attempt EXCEPT !.state = "unknown", !.local = TRUE]
    [] OTHER                      -> attempt

CloseInterrupted ==
  /\ host = "reconciling" /\ task.pc = "off" /\ Interrupted /\ Closable
  /\ attempt' = Interruption
  /\ call' = IF Unresolved THEN call ELSE [call EXCEPT !.dispatch = "settled"]
  /\ step' = "none"
  /\ EndActivation("process_exit") /\ status' = "blocked" /\ Advance(1)
  /\ host' = "up"
  /\ UNCHANGED <<inbox, interaction, task, woken, spent>>

\* Reconciliation throws: composition-root awaits it, so the application does not start.
ReconcileThrows ==
  /\ host = "reconciling" /\ task.pc = "off" /\ Interrupted /\ ~Closable
  /\ host' = "failed"
  /\ UNCHANGED <<durable, task, woken, spent>>

-----------------------------------------------------------------------------
User == SendFollowup \/ Pause \/ Resume \/ Cancel \/ AnswerQuestion \/ RespondProtected
        \/ ApproveExport \/ DenyExport \/ OtherWork

Coordinate == Defer \/ CoordinateFailure \/ ReenterActivation \/ Deliver \/ StartActivation

Attempt == ConsumeInbox \/ QuoteDiscarded \/ QuoteYields \/ PrepareAttempt \/ QuoteThrows
           \/ MarkRunning \/ FailRun

Stream == StreamDiscarded \/ StreamThrows \/ FinalAnswer \/ ReadCall \/ ProtectedCall
          \/ ControlCall \/ BoundCall \/ ExportCall \/ AskQuestion \/ AtomicCallRejected
          \/ ProviderFailure \/ ProviderLost

Tool == PrepareDispatch \/ ReadReturns \/ OwnerReturns \/ OwnerDiscarded \/ ToolThrows
        \/ ProtectedCommits \/ ProtectedHolds \/ ProtectedThrows

Recovery == Boot \/ ReconcileDone \/ CloseInterrupted \/ ReconcileThrows

TaskStep == Coordinate \/ Attempt \/ Stream \/ Tool

Next == User \/ StartTask \/ AbortTask \/ TaskStep \/ Crash \/ Recovery

Spec == Init /\ [][Next]_vars

\* The event loop keeps resuming the task, sweeps run, awaited promises settle, a dead host is relaunched.
Fairness == WF_vars(TaskStep) /\ WF_vars(StartTask) /\ WF_vars(AbortTask) /\ WF_vars(Recovery)

FairSpec == Spec /\ Fairness

-----------------------------------------------------------------------------
(* Properties *)

\* Journal steps bracket the work: a model step is open exactly while its attempt is in flight, a tool
\* step exactly while its dispatch is open or held (assertOpenStep, assertTailOpenStep, openDispatchStep).
StepBracketsWork ==
  /\ step = "model" <=> InFlight
  /\ step = "tool" <=> call.dispatch \in {"open", "held"}

\* An Activation has at most one unsettled piece of work, so a crash at any point leaves one frontier for
\* closeInterruptedActivation ("Recovery requires exactly one unresolved ...").
OneFrontier == ~(Unresolved /\ call.dispatch \in {"undispatched", "held", "open"})

\* A Run waits for the user exactly while something is there to be decided: the question of an ended
\* Activation, or the confirmation of a held call whose Activation stays open (pendingQuestionInteraction,
\* pendingConfirmation).
WaitingHasInteraction ==
  /\ status = "waiting_question" =>
       interaction.kind = "question" /\ activation.state = "ended" /\ activation.reason = "waiting"
  /\ status = "waiting_confirmation" =>
       interaction.kind = "confirmation" /\ activation.state = "active" /\ call.dispatch = "held"
  /\ interaction.state = "pending" <=> status \in {"waiting_question", "waiting_confirmation"}

\* A Run never completes over a message it has not consumed, however late the message came
\* (settleModelAttempt: earliestPendingInboxAfterTrigger before terminalization).
CompletedRunAnsweredEverything ==
  status = "completed" => \A i \in DOMAIN inbox : inbox[i] = "consumed"

\* FIFO, exactly once: the n-th Activation serves the n-th message, nothing newer than its trigger has been
\* consumed, and a message is delivered or consumed only when all before it are consumed (transitionInbox,
\* startActivation, contracts assertInboxOrdering).
ServedInOrder ==
  /\ activation.number = activation.trigger /\ activation.trigger <= Len(inbox)
  /\ \A i \in DOMAIN inbox : /\ i < activation.trigger => inbox[i] = "consumed"
                             /\ i > activation.trigger => inbox[i] # "consumed"
  /\ \A i \in DOMAIN inbox : inbox[i] \in {"delivered", "consumed"} =>
                               \A j \in 1..(i - 1) : inbox[j] = "consumed"

\* What the transactions of user, task and recovery keep true of a Run between them, all at once: its journal, its
\* work in flight, what it waits for and its messages agree (the assertions of harness-runtime.ts and runs.ts).
RunSafety ==
  /\ StepBracketsWork /\ OneFrontier /\ WaitingHasInteraction
  /\ CompletedRunAnsweredEverything /\ ServedInOrder

\* Work starts only for a Run that is being driven: no attempt is prepared, no call dispatched and no
\* Activation started for a Run that is paused, waiting or over, whatever was awaited meanwhile.
StartsWork == \/ attempt' # attempt /\ attempt'.state = "prepared"
              \/ call'.dispatch = "open" /\ call.dispatch # "open"
              \/ activation'.number # activation.number
NothingStartsUnlessRunning ==
  [][StartsWork => /\ status \in {"accepted", "running", "waiting_confirmation"}
                   /\ status' = "running"]_vars

\* What is settled stays settled while its Activation lasts: an attempt's verdict and a dispatch's outcome
\* are written once, although a late provider answer, run control and recovery all try to write them
\* (settleModelAttemptRecord, settleRuntimeDispatch).
SameAttempt == activation'.number = activation.number /\ attempt'.number = attempt.number
SettledOnce ==
  [][SameAttempt =>
       /\ attempt.state \in {"succeeded", "failed", "cancelled"} => attempt' = attempt
       /\ call.dispatch = "settled" /\ attempt' = attempt => call' = call]_vars

\* After a Run has ended no transaction of it commits any more: a task that is still streaming, quoting or
\* executing for it only finds out (isRunActivationActive, activeActivation, RunStateTransitions).
NothingAfterTheEnd == [][(status \in TerminalStates) => UNCHANGED durable]_vars

\* Every status and message change is one the shared contract tables allow (assertRunStateTransition,
\* assertInboxStateTransition), and no message disappears.
FollowsContract ==
  [][/\ status' # status => RunMayBecome(status, status')
     /\ Len(inbox') >= Len(inbox)
     /\ \A i \in DOMAIN inbox : inbox'[i] # inbox[i] => InboxMayBecome(inbox[i], inbox'[i])]_vars

\* The Run implements the mailbox it promises to be.
MessageOf(s) == CASE s = "consumed" -> "taken" [] s = "cancelled" -> "withdrawn" [] OTHER -> "waiting"
PhaseOf(st) == CASE st \in {"completed", "cancelled"} -> st
                 [] st \in {"failed", "blocked"} -> "stopped"
                 [] OTHER -> "open"
Mailbox == INSTANCE RunMailbox WITH messages <- [i \in DOMAIN inbox |-> MessageOf(inbox[i])],
                                    phase <- PhaseOf(status)
ImplementsMailbox == Mailbox!Spec

\* The task holds a signal that was aborted for a pause already over, and coordinateRun answers it "executed" over
\* an open Activation without awaiting anything: the loop of startRunCoordination spins until the process exits.
Spins == Coordinating /\ task.aborted /\ Active /\ ~ModelFailed /\ (Resumable \/ ~RecoveryRequired)

\* The process exited while the Run was paused over an open read: reconcileInterruptedRun looks at running Runs
\* only, so once resumed the Run is deferred for the sake of a read that nobody is at.
LeftOpen == spent.crashes > 0 /\ Active /\ call = [tool |-> "read", dispatch |-> "open"] /\ task.pc # "executing"

\* Liveness: whenever the Run may be driven, a queued message is consumed in the end, unless the Run is paused,
\* waits or ends instead, spins for ever or was left with an open read (coordinateRun and the sweep lose no wake-up).
MessageServed(i) == i \in DOMAIN inbox /\ inbox[i] = "consumed"
QueuedEventuallyServed ==
  \A i \in 1..MaxInbox : (i \in DOMAIN inbox) ~> (MessageServed(i) \/ ~Schedulable \/ []Spins \/ []LeftOpen)

\* Liveness: a Run that is paused, waiting or over releases its task (AbortController of the sweep).
StoppedRunReleasesTask == (host = "up" /\ ~Schedulable) ~> (task.pc = "off" \/ Schedulable)

\* Liveness: after every process exit the host comes up again, and no interrupted work is left behind.
RestartRecovers == (host = "down") ~> (host = "up" /\ (task.pc = "off" => ~Interrupted))

-----------------------------------------------------------------------------
(* The inductive invariant: what every transaction relies on without reading it again *)

\* Between two resumptions a held task has the Run to itself: nothing but the task can have moved it.
HeldTaskDrivesRun ==
  task.pc \in {"consuming", "marking", "dispatching", "protecting"} => Active

\* An attempt belongs to an Activation whose trigger is consumed; a call belongs to an attempt.
WorkFollowsTrigger ==
  /\ activation.trigger > 0 => inbox[activation.trigger] \in {"delivered", "consumed"}
  /\ activation.state # "none" <=> activation.trigger > 0
  /\ attempt.state # "none" \/ task.pc \in {"quoting", "marking", "streaming", "executing"} =>
       activation.trigger > 0 /\ inbox[activation.trigger] = "consumed"
  /\ call.dispatch # "none" => attempt.state # "none"

\* Only an active Activation of a live Run has work in flight; a held call means the Run waits for the user.
WorkNeedsActivation ==
  /\ activation.state # "active" /\ status \notin TerminalStates =>
       step = "none" /\ call.dispatch \in {"none", "settled"}
  /\ status \in TerminalStates => activation.state # "active"
  /\ call.dispatch = "held" => status \in {"waiting_confirmation", "cancelled"}

\* Messages are withdrawn by cancellation only.
WithdrawnOnlyByCancel == status # "cancelled" => \A i \in DOMAIN inbox : inbox[i] # "cancelled"

WorkInv == /\ StepBracketsWork /\ OneFrontier /\ WaitingHasInteraction
           /\ HeldTaskDrivesRun /\ WorkNeedsActivation

InboxInv == /\ CompletedRunAnsweredEverything /\ ServedInOrder
            /\ WorkFollowsTrigger /\ WithdrawnOnlyByCancel

IndInv == TypeOK /\ WorkInv /\ InboxInv

-----------------------------------------------------------------------------
(* What the repository says and the code does not do *)

\* host/index.ts: a pending question of a waiting Run satisfies the binding its answer is checked against.
QuestionStaysAnswerable == status = "waiting_question" => Answerable

\* The redesign plan promises restart recovery: starting the application never fails on a Run's state.
ApplicationStarts == host # "failed"

=============================================================================
