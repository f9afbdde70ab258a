-------------------------- MODULE RunHarnessProofs --------------------------
(* Proofs about RunHarness for every value of its constants.                *)
EXTENDS RunHarness, SequenceTheorems, TLAPS

-----------------------------------------------------------------------------
(* What the helpers of a transaction do to the rows they write *)

LEMMA SetInboxType ==
  ASSUME inbox \in Seq(InboxStates), NEW i \in DOMAIN inbox, NEW s \in InboxStates
  PROVE  /\ [inbox EXCEPT ![i] = s] \in Seq(InboxStates)
         /\ Len([inbox EXCEPT ![i] = s]) = Len(inbox)
         /\ DOMAIN [inbox EXCEPT ![i] = s] = DOMAIN inbox
  OBVIOUS

LEMMA WithdrawnType ==
  ASSUME inbox \in Seq(InboxStates)
  PROVE  /\ Withdrawn \in Seq(InboxStates)
         /\ Len(Withdrawn) = Len(inbox)
         /\ DOMAIN Withdrawn = DOMAIN inbox
         /\ \A i \in DOMAIN inbox :
              Withdrawn[i] = IF inbox[i] = "queued" THEN "cancelled" ELSE inbox[i]
  BY DEF Withdrawn, InboxStates

LEMMA HostSettledType ==
  ASSUME attempt \in AttemptRows
  PROVE  /\ HostSettled \in AttemptRows
         /\ InFlight => HostSettled.state \in {"failed", "cancelled"}
         /\ ~InFlight => HostSettled = attempt
  BY DEF HostSettled, InFlight, AttemptRows, AttemptStates

LEMMA InterruptionType ==
  ASSUME attempt \in AttemptRows
  PROVE  /\ Interruption \in AttemptRows
         /\ InFlight => Interruption.state \in {"failed", "unknown"}
         /\ ~InFlight => Interruption = attempt
  BY DEF Interruption, InFlight, AttemptRows, AttemptStates

LEMMA NextAttemptType ==
  ASSUME NEW rev \in Nat, NEW n \in Nat, NextAttempt(rev, n), task \in Tasks
  PROVE  /\ task' \in Tasks
         /\ task'.pc \in {"quoting", "coordinate", "off"}
  BY DEF NextAttempt, Returned, Goto, Tasks, Pcs

LEMMA GotoType ==
  ASSUME NEW pc \in Pcs, Goto(pc), task \in Tasks
  PROVE  task' \in Tasks /\ task'.pc = pc
  BY DEF Goto, Tasks

LEMMA ReturnedType ==
  ASSUME NEW st, Returned(st), task \in Tasks
  PROVE  task' \in Tasks /\ task'.pc \in {"coordinate", "off"}
  BY DEF Returned, Goto, Tasks, Pcs

LEMMA ThrowsType ==
  ASSUME Throws, task \in Tasks, host \in HostStates
  PROVE  task' \in Tasks /\ task'.pc = "off" /\ host' \in HostStates
  BY DEF Throws, Goto, Tasks, Pcs, HostStates

LEMMA EndActivationType ==
  ASSUME NEW why \in EndReasons, EndActivation(why), activation \in ActivationRows
  PROVE  /\ activation' \in ActivationRows
         /\ activation'.number = activation.number /\ activation'.trigger = activation.trigger
         /\ activation'.state = "ended" /\ activation'.reason = why
  BY DEF EndActivation, ActivationRows, ActivationStates

LEMMA AsksUserType ==
  ASSUME NEW kind \in {"question", "confirmation"}, NEW st, AsksUser(kind, st),
         revision \in Nat, task \in Tasks
  PROVE  /\ interaction' \in InteractionRows
         /\ interaction'.kind = kind /\ interaction'.state = "pending"
         /\ status' = st /\ revision' \in Nat
         /\ task' \in Tasks /\ task'.pc = "off"
  BY DEF AsksUser, Advance, Goto, InteractionRows, Tasks, Pcs

LEMMA CallType ==
  ASSUME NEW d \in DispatchStates, call \in CallRows
  PROVE  /\ [call EXCEPT !.dispatch = d] \in CallRows
         /\ [call EXCEPT !.dispatch = d].dispatch = d
         /\ [call EXCEPT !.dispatch = d].tool = call.tool
  BY DEF CallRows

LEMMA CallsToolType ==
  ASSUME NEW t \in Tools, NEW d \in DispatchStates, CallsTool(t, d)
  PROVE  call' \in CallRows /\ call'.tool = t /\ call'.dispatch = d
  BY DEF CallsTool, CallRows

LEMMA LocalType ==
  ASSUME NEW result \in AttemptStates, attempt \in AttemptRows
  PROVE  /\ [attempt EXCEPT !.state = result, !.local = TRUE] \in AttemptRows
         /\ [attempt EXCEPT !.state = result, !.local = TRUE].state = result
         /\ [attempt EXCEPT !.state = result, !.local = TRUE].number = attempt.number
         /\ [attempt EXCEPT !.state = result, !.local = TRUE].local = TRUE
         /\ [attempt EXCEPT !.state = result] \in AttemptRows
         /\ [attempt EXCEPT !.state = result].state = result
         /\ [attempt EXCEPT !.state = result].number = attempt.number
  BY DEF AttemptRows

LEMMA AnsweredType ==
  ASSUME NEW r, NEW result \in AttemptStates, Answered(r, result), attempt \in AttemptRows
  PROVE  /\ attempt' \in AttemptRows /\ attempt'.state = result
         /\ attempt'.number = attempt.number /\ step' = "none"
  BY DEF Answered, AttemptRows

LEMMA InteractionType ==
  ASSUME NEW st \in {"answered", "cancelled"}, interaction \in InteractionRows
  PROVE  /\ [interaction EXCEPT !.state = st] \in InteractionRows
         /\ [interaction EXCEPT !.state = st].state = st
         /\ [interaction EXCEPT !.state = st].kind = interaction.kind
  BY DEF InteractionRows

LEMMA ControlType ==
  ASSUME Control, spent \in Counters
  PROVE  spent' \in Counters /\ woken' = TRUE /\ UserTurn
  BY DEF Control, Counters

LEMMA TasksConstants ==
  /\ TaskOff \in Tasks
  /\ [TaskOff EXCEPT !.pc = "coordinate"] \in Tasks
  /\ NoAttempt \in AttemptRows
  /\ NoCall \in CallRows
  BY DEF TaskOff, NoAttempt, NoCall, Tasks, Pcs, AttemptRows, AttemptStates, CallRows, Tools,
         DispatchStates

-----------------------------------------------------------------------------
(* Type correctness *)

LEMMA TypeStep == TypeOK /\ [Next]_vars => TypeOK'
<1> SUFFICES ASSUME TypeOK, [Next]_vars PROVE TypeOK'
    OBVIOUS
<1> USE DEF TypeOK
<1>1. CASE User
  <2>1. CASE SendFollowup
    BY <2>1 DEF SendFollowup, Enqueue, Advance, InboxStates
  <2>2. CASE Pause
    BY <2>2, HostSettledType, ControlType DEF Pause, Advance, Steps, RunStates
  <2>3. CASE Resume
    BY <2>3, ControlType DEF Resume, Advance, RunStates
  <2>4. CASE Cancel
    BY <2>4, HostSettledType, WithdrawnType, ControlType, InteractionType, EndActivationType
       DEF Cancel, Advance, Steps, RunStates, EndReasons
  <2>5. CASE AnswerQuestion
    BY <2>5, InteractionType DEF AnswerQuestion, Enqueue, Advance, InboxStates, RunStates
  <2>6. CASE RespondProtected
    BY <2>6, InteractionType, CallType, EndActivationType
       DEF RespondProtected, Enqueue, Advance, InboxStates, RunStates, DispatchStates, Steps, EndReasons
  <2>7. CASE ApproveExport
    BY <2>7, InteractionType, CallType
       DEF ApproveExport, RespondExport, Advance, RunStates, DispatchStates, Steps
  <2>8. CASE DenyExport
    BY <2>8, InteractionType, CallType
       DEF DenyExport, RespondExport, Advance, RunStates, DispatchStates, Steps
  <2>9. CASE OtherWork
    BY <2>9 DEF OtherWork, durable
  <2> QED BY <1>1, <2>1, <2>2, <2>3, <2>4, <2>5, <2>6, <2>7, <2>8, <2>9 DEF User
<1>2. CASE Coordinate
  <2>1. CASE Defer
    BY <2>1, GotoType DEF Defer, Pcs, durable
  <2>2. CASE CoordinateFailure
    BY <2>2, GotoType DEF CoordinateFailure, Pcs, durable
  <2>3. CASE ReenterActivation
    BY <2>3, NextAttemptType, GotoType DEF ReenterActivation, Pcs, durable
  <2>4. CASE Deliver
    BY <2>4, SetInboxType, GotoType DEF Deliver, Earliest, SetInbox, InboxStates, Advance, Pcs
  <2>5. CASE StartActivation
    BY <2>5, TasksConstants, GotoType
       DEF StartActivation, ActivationRows, ActivationStates, EndReasons, RunStates, Advance, Pcs
  <2> QED BY <1>2, <2>1, <2>2, <2>3, <2>4, <2>5 DEF Coordinate
<1>3. CASE Attempt
  <2>1. CASE ConsumeInbox
    BY <2>1, SetInboxType, NextAttemptType
       DEF ConsumeInbox, SetInbox, Earliest, InboxStates, Advance
  <2>2. CASE QuoteDiscarded
    BY <2>2, ReturnedType DEF QuoteDiscarded, durable
  <2>3. CASE QuoteYields
    BY <2>3, ReturnedType, EndActivationType DEF QuoteYields, EndReasons, Advance
  <2>4. CASE PrepareAttempt
    BY <2>4, GotoType DEF PrepareAttempt, AttemptRows, AttemptStates, Steps, Pcs, Advance
  <2>5. CASE QuoteThrows
    BY <2>5, ThrowsType DEF QuoteThrows, durable
  <2>6. CASE MarkRunning
    BY <2>6, GotoType DEF MarkRunning, AttemptRows, AttemptStates, Pcs
  <2>7. CASE FailRun
    BY <2>7, WithdrawnType, EndActivationType, GotoType
       DEF FailRun, RunStates, EndReasons, Advance, Pcs
  <2> QED BY <1>3, <2>1, <2>2, <2>3, <2>4, <2>5, <2>6, <2>7 DEF Attempt
<1>4. CASE Stream
  <2>1. CASE StreamDiscarded
    BY <2>1, ReturnedType DEF StreamDiscarded, durable
  <2>2. CASE StreamThrows
    BY <2>2, ThrowsType DEF StreamThrows, durable
  <2>3. CASE FinalAnswer
    <3>1. task' \in Tasks
      BY <2>3 DEF FinalAnswer, Returned, Goto, Tasks, Pcs
    <3>2. attempt' \in AttemptRows /\ step' = "none"
      BY <2>3, AnsweredType DEF FinalAnswer, AttemptStates
    <3>3. activation' \in ActivationRows /\ status' \in RunStates
      BY <2>3, EndActivationType DEF FinalAnswer, EndReasons, RunStates
    <3> QED BY <2>3, <3>1, <3>2, <3>3 DEF FinalAnswer, Answered, Steps, Advance
  <2>4. CASE ReadCall
    <3>1. attempt' \in AttemptRows /\ step' \in Steps
      BY <2>4, AnsweredType DEF ReadCall, AttemptStates, Steps
    <3>2. call' \in CallRows
      BY <2>4, CallsToolType DEF ReadCall, Tools, DispatchStates
    <3>3. task' \in Tasks
      BY <2>4, GotoType DEF ReadCall, Pcs
    <3> QED BY <2>4, <3>1, <3>2, <3>3 DEF ReadCall, Answered, Advance
  <2>5. CASE ProtectedCall
    <3>1. attempt' \in AttemptRows /\ step' \in Steps
      BY <2>5, AnsweredType DEF ProtectedCall, AttemptStates, Steps
    <3>2. call' \in CallRows
      BY <2>5, CallsToolType DEF ProtectedCall, Tools, DispatchStates
    <3>3. task' \in Tasks
      BY <2>5, GotoType DEF ProtectedCall, Pcs
    <3> QED BY <2>5, <3>1, <3>2, <3>3 DEF ProtectedCall, Answered, Advance
  <2>6. CASE ControlCall
    <3>1. attempt' \in AttemptRows /\ step' \in Steps
      BY <2>6, AnsweredType DEF ControlCall, AttemptStates, Steps
    <3>2. call' \in CallRows
      BY <2>6, CallsToolType DEF ControlCall, Tools, DispatchStates
    <3>3. task' \in Tasks
      BY <2>6, NextAttemptType DEF ControlCall, Advance
    <3> QED BY <2>6, <3>1, <3>2, <3>3 DEF ControlCall, Answered, Advance
  <2>7. CASE BoundCall
    BY <2>7, GotoType, CallsToolType, LocalType
       DEF BoundCall, AttemptStates, Tools, DispatchStates, Steps, Pcs, Advance
  <2>8. CASE ExportCall
    BY <2>8, AsksUserType, CallsToolType, LocalType
       DEF ExportCall, AttemptStates, Tools, DispatchStates, Steps, RunStates
  <2>9. CASE AskQuestion
    BY <2>9, AnsweredType, EndActivationType, AsksUserType
       DEF AskQuestion, AttemptStates, EndReasons, Steps, RunStates, Answered
  <2>10. CASE AtomicCallRejected
    BY <2>10, ThrowsType DEF AtomicCallRejected, durable
  <2>11. CASE ProviderFailure
    <3>1. PICK r \in {"failed", "unknown", "cancelled"} : Answered(r, r)
      BY <2>11 DEF ProviderFailure
    <3>2. r \in AttemptStates
      BY DEF AttemptStates
    <3> QED BY <2>11, <3>1, <3>2, AnsweredType, GotoType
            DEF ProviderFailure, Steps, Pcs, Advance, Answered
  <2>12. CASE ProviderLost
    <3>1. task' \in Tasks
      BY <2>12, ReturnedType DEF ProviderLost
    <3> QED BY <2>12, <3>1, LocalType DEF ProviderLost, AttemptStates, Steps, Advance
  <2> QED BY <1>4, <2>1, <2>2, <2>3, <2>4, <2>5, <2>6, <2>7, <2>8, <2>9, <2>10, <2>11, <2>12 DEF Stream
<1>5. CASE Tool
  <2>1. CASE PrepareDispatch
    BY <2>1, CallType, GotoType DEF PrepareDispatch, DispatchStates, Steps, Pcs, Advance
  <2>2. CASE ReadReturns
    BY <2>2, CallType, EndActivationType, ReturnedType, NextAttemptType
       DEF ReadReturns, Settles, DispatchStates, Steps, EndReasons, Advance
  <2>3. CASE OwnerReturns
    BY <2>3, CallType, NextAttemptType DEF OwnerReturns, Settles, DispatchStates, Steps, Advance
  <2>4. CASE OwnerDiscarded
    BY <2>4, ReturnedType DEF OwnerDiscarded, durable
  <2>5. CASE ToolThrows
    BY <2>5, ThrowsType DEF ToolThrows, durable
  <2>6. CASE ProtectedCommits
    BY <2>6, CallType, NextAttemptType DEF ProtectedCommits, DispatchStates, Advance
  <2>7. CASE ProtectedHolds
    BY <2>7, CallType, AsksUserType DEF ProtectedHolds, DispatchStates, Steps, RunStates
  <2>8. CASE ProtectedThrows
    BY <2>8, ThrowsType DEF ProtectedThrows, durable
  <2> QED BY <1>5, <2>1, <2>2, <2>3, <2>4, <2>5, <2>6, <2>7, <2>8 DEF Tool
<1>6. CASE Recovery
  <2>1. CASE Boot
    BY <2>1, TasksConstants DEF Boot, HostStates, durable
  <2>2. CASE ReconcileDone
    BY <2>2 DEF ReconcileDone, HostStates, durable
  <2>3. CASE CloseInterrupted
    BY <2>3, InterruptionType, CallType, EndActivationType
       DEF CloseInterrupted, RunStates, DispatchStates, Steps, EndReasons, HostStates, Advance
  <2>4. CASE ReconcileThrows
    BY <2>4 DEF ReconcileThrows, HostStates, durable
  <2> QED BY <1>6, <2>1, <2>2, <2>3, <2>4 DEF Recovery
<1>7. CASE StartTask
  BY <1>7, TasksConstants DEF StartTask, durable
<1>8. CASE AbortTask
  BY <1>8 DEF AbortTask, durable, Tasks
<1>9. CASE Crash
  BY <1>9, TasksConstants DEF Crash, Exit, HostStates, Counters, durable
<1>10. CASE UNCHANGED vars
  BY <1>10 DEF vars, durable
<1> QED BY <1>1, <1>2, <1>3, <1>4, <1>5, <1>6, <1>7, <1>8, <1>9, <1>10 DEF Next, TaskStep

-----------------------------------------------------------------------------
(* Work in flight: the half of the invariant that does not read the messages *)

LEMMA WorkStep == IndInv /\ TypeOK' /\ [Next]_vars => WorkInv'
<1> SUFFICES ASSUME IndInv, TypeOK', [Next]_vars PROVE WorkInv'
    OBVIOUS
<1> USE DEF IndInv, WorkInv, StepBracketsWork, OneFrontier, WaitingHasInteraction, HeldTaskDrivesRun,
            WorkNeedsActivation, InFlight, Unresolved, Active, TypeOK, TerminalStates
<1>1. CASE User
  <2>1. CASE SendFollowup
    BY <2>1, SMTT(30) DEF SendFollowup, Enqueue, UserTurn, Awaiting
  <2>2. CASE Pause
    BY <2>2, HostSettledType, ControlType, SMTT(30) DEF Pause, UserTurn, Awaiting
  <2>3. CASE Resume
    BY <2>3, ControlType, SMTT(30) DEF Resume, UserTurn, Awaiting
  <2>4. CASE Cancel
    BY <2>4, HostSettledType, ControlType, InteractionType, EndActivationType, WithdrawnType, SMTT(30)
       DEF Cancel, UserTurn, Awaiting, EndReasons
  <2>5. CASE AnswerQuestion
    BY <2>5, InteractionType, SMTT(30) DEF AnswerQuestion, Answerable, Enqueue, UserTurn, Awaiting
  <2>6. CASE RespondProtected
    BY <2>6, InteractionType, CallType, EndActivationType, SMTT(30)
       DEF RespondProtected, Confirmable, Enqueue, UserTurn, Awaiting, DispatchStates, EndReasons
  <2>7. CASE ApproveExport
    BY <2>7, InteractionType, CallType, SMTT(30)
       DEF ApproveExport, RespondExport, Confirmable, UserTurn, Awaiting, DispatchStates
  <2>8. CASE DenyExport
    BY <2>8, InteractionType, CallType, SMTT(30)
       DEF DenyExport, RespondExport, Confirmable, UserTurn, Awaiting, DispatchStates
  <2>9. CASE OtherWork
    BY <2>9, SMTT(30) DEF OtherWork, durable
  <2> QED BY <1>1, <2>1, <2>2, <2>3, <2>4, <2>5, <2>6, <2>7, <2>8, <2>9 DEF User
<1>2. CASE Coordinate
  <2>1. CASE Defer
    BY <2>1, GotoType, SMTT(30) DEF Defer, durable, Pcs
  <2>2. CASE CoordinateFailure
    BY <2>2, GotoType, SMTT(30) DEF CoordinateFailure, durable, Pcs
  <2>3. CASE ReenterActivation
    BY <2>3, NextAttemptType, GotoType, SMTT(30) DEF ReenterActivation, durable, Pcs
  <2>4. CASE Deliver
    BY <2>4, SetInboxType, GotoType, SMTT(30) DEF Deliver, Earliest, SetInbox, InboxStates, Pcs
  <2>5. CASE StartActivation
    BY <2>5, GotoType, SMTT(30) DEF StartActivation, NoAttempt, NoCall, Pcs, Schedulable
  <2> QED BY <1>2, <2>1, <2>2, <2>3, <2>4, <2>5 DEF Coordinate
<1>3. CASE Attempt
  <2>1. CASE ConsumeInbox
    BY <2>1, SetInboxType, NextAttemptType, SMTT(30)
       DEF ConsumeInbox, SetInbox, Earliest, InboxStates, Advance
  <2>2. CASE QuoteDiscarded
    BY <2>2, ReturnedType, SMTT(30) DEF QuoteDiscarded, durable
  <2>3. CASE QuoteYields
    BY <2>3, ReturnedType, EndActivationType, SMTT(30)
       DEF QuoteYields, EndReasons, RecoveryRequired, CallRows, DispatchStates, Steps
  <2>4. CASE PrepareAttempt
    BY <2>4, GotoType, SMTT(30)
       DEF PrepareAttempt, Pcs, RecoveryRequired, Steps, CallRows, DispatchStates
  <2>5. CASE QuoteThrows
    BY <2>5, ThrowsType, SMTT(30) DEF QuoteThrows, durable
  <2>6. CASE MarkRunning
    BY <2>6, GotoType, LocalType, SMTT(30) DEF MarkRunning, Pcs, AttemptStates
  <2>7. CASE FailRun
    BY <2>7, GotoType, EndActivationType, WithdrawnType, SMTT(30)
       DEF FailRun, Pcs, EndReasons, ModelFailed, LastFailed
  <2> QED BY <1>3, <2>1, <2>2, <2>3, <2>4, <2>5, <2>6, <2>7 DEF Attempt
<1>4. CASE Stream
  <2>1. CASE StreamDiscarded
    BY <2>1, ReturnedType, SMTT(30) DEF StreamDiscarded, durable
  <2>2. CASE StreamThrows
    BY <2>2, ThrowsType, SMTT(30) DEF StreamThrows, durable
  <2>3. CASE FinalAnswer
    BY <2>3, AnsweredType, EndActivationType, SMTT(30)
       DEF FinalAnswer, Answered, Streaming, AttemptStates, EndReasons, Returned, Goto, Pcs, Tasks,
           CallRows, DispatchStates
  <2>4. CASE ReadCall
    BY <2>4, AnsweredType, CallsToolType, GotoType, SMTT(30)
       DEF ReadCall, Answered, Streaming, AttemptStates, Tools, DispatchStates, Pcs
  <2>5. CASE ProtectedCall
    BY <2>5, AnsweredType, CallsToolType, GotoType, SMTT(30)
       DEF ProtectedCall, Answered, Streaming, AttemptStates, Tools, DispatchStates, Pcs
  <2>6. CASE ControlCall
    BY <2>6, AnsweredType, CallsToolType, NextAttemptType, SMTT(30)
       DEF ControlCall, Answered, Streaming, AttemptStates, Tools, DispatchStates, Advance
  <2>7. CASE BoundCall
    BY <2>7, LocalType, CallsToolType, GotoType, SMTT(30)
       DEF BoundCall, Streaming, AttemptStates, Tools, DispatchStates, Pcs
  <2>8. CASE ExportCall
    BY <2>8, LocalType, CallsToolType, AsksUserType, SMTT(30)
       DEF ExportCall, Streaming, AttemptStates, Tools, DispatchStates
  <2>9. CASE AskQuestion
    BY <2>9, AnsweredType, EndActivationType, AsksUserType, SMTT(30)
       DEF AskQuestion, Answered, Streaming, AttemptStates, EndReasons, CallRows, DispatchStates
  <2>10. CASE AtomicCallRejected
    BY <2>10, ThrowsType, SMTT(30) DEF AtomicCallRejected, durable
  <2>11. CASE ProviderFailure
    BY <2>11, AnsweredType, GotoType, SMTT(30)
       DEF ProviderFailure, Answered, Streaming, AttemptStates, Pcs
  <2>12. CASE ProviderLost
    BY <2>12, LocalType, ReturnedType, SMTT(30) DEF ProviderLost, Streaming, AttemptStates
  <2> QED BY <1>4, <2>1, <2>2, <2>3, <2>4, <2>5, <2>6, <2>7, <2>8, <2>9, <2>10, <2>11, <2>12 DEF Stream
<1>5. CASE Tool
  <2>1. CASE PrepareDispatch
    BY <2>1, CallType, GotoType, SMTT(30) DEF PrepareDispatch, DispatchStates, Pcs
  <2>2. CASE ReadReturns
    BY <2>2, CallType, EndActivationType, ReturnedType, NextAttemptType, SMTT(30)
       DEF ReadReturns, Settles, Executing, DispatchStates, EndReasons, Advance
  <2>3. CASE OwnerReturns
    BY <2>3, CallType, NextAttemptType, SMTT(30)
       DEF OwnerReturns, Settles, Executing, DispatchStates, Advance
  <2>4. CASE OwnerDiscarded
    BY <2>4, ReturnedType, SMTT(30) DEF OwnerDiscarded, durable
  <2>5. CASE ToolThrows
    BY <2>5, ThrowsType, SMTT(30) DEF ToolThrows, durable
  <2>6. CASE ProtectedCommits
    BY <2>6, CallType, NextAttemptType, SMTT(30)
       DEF ProtectedCommits, Protecting, DispatchStates, Advance
  <2>7. CASE ProtectedHolds
    BY <2>7, CallType, AsksUserType, SMTT(30) DEF ProtectedHolds, Protecting, DispatchStates
  <2>8. CASE ProtectedThrows
    BY <2>8, ThrowsType, SMTT(30) DEF ProtectedThrows, durable
  <2> QED BY <1>5, <2>1, <2>2, <2>3, <2>4, <2>5, <2>6, <2>7, <2>8 DEF Tool
<1>6. CASE Recovery
  <2>1. CASE Boot
    BY <2>1, SMTT(30) DEF Boot, durable, TaskOff
  <2>2. CASE ReconcileDone
    BY <2>2, SMTT(30) DEF ReconcileDone, durable
  <2>3. CASE CloseInterrupted
    BY <2>3, InterruptionType, CallType, EndActivationType, SMTT(30)
       DEF CloseInterrupted, DispatchStates, EndReasons, Interrupted
  <2>4. CASE ReconcileThrows
    BY <2>4, SMTT(30) DEF ReconcileThrows, durable
  <2> QED BY <1>6, <2>1, <2>2, <2>3, <2>4 DEF Recovery
<1>7. CASE StartTask
  BY <1>7, SMTT(30) DEF StartTask, durable, TaskOff
<1>8. CASE AbortTask
  BY <1>8, SMTT(30) DEF AbortTask, durable, Tasks
<1>9. CASE Crash
  BY <1>9, SMTT(30) DEF Crash, Exit, durable, TaskOff
<1>10. CASE UNCHANGED vars
  BY <1>10, SMTT(30) DEF vars, durable
<1> QED BY <1>1, <1>2, <1>3, <1>4, <1>5, <1>6, <1>7, <1>8, <1>9, <1>10
    DEF Next, TaskStep

-----------------------------------------------------------------------------
(* The messages: what each way of writing the Inbox preserves *)

LEMMA EnqueueType ==
  ASSUME inbox \in Seq(InboxStates), Enqueue
  PROVE  /\ Len(inbox') = Len(inbox) + 1
         /\ DOMAIN inbox = 1..Len(inbox)
         /\ DOMAIN inbox' = 1..(Len(inbox) + 1)
         /\ \A i \in 1..Len(inbox) : inbox'[i] = inbox[i]
         /\ inbox'[Len(inbox) + 1] = "queued"
  BY DEF Enqueue

\* The trigger is consumed: what an attempt, and a task that drives one, rely on.
Started == activation.trigger > 0 /\ inbox[activation.trigger] = "consumed"
Driving == {"quoting", "marking", "streaming", "executing"}

LEMMA SameInbox ==
  ASSUME IndInv, UNCHANGED inbox,
         activation'.number = activation.number, activation'.trigger = activation.trigger,
         activation'.state # "none" <=> activation.state # "none",
         attempt'.state # "none" \/ task'.pc \in Driving => Started,
         call'.dispatch # "none" => attempt'.state # "none",
         status' = "completed" => \A i \in DOMAIN inbox : inbox[i] = "consumed",
         status = "cancelled" => status' = "cancelled"
  PROVE  InboxInv'
  BY DEF IndInv, InboxInv, ServedInOrder, CompletedRunAnsweredEverything, WorkFollowsTrigger,
         WithdrawnOnlyByCancel, Started, Driving

LEMMA MoreInbox ==
  ASSUME IndInv, Enqueue, status # "cancelled", status' # "completed",
         activation'.number = activation.number, activation'.trigger = activation.trigger,
         activation'.state # "none" <=> activation.state # "none",
         attempt' = attempt, task' = task,
         call'.dispatch # "none" => call.dispatch # "none"
  PROVE  InboxInv'
<1> USE EnqueueType DEF IndInv, InboxInv, TypeOK, ActivationRows
<1>0. activation.trigger \in Nat /\ activation.trigger <= Len(inbox)
  BY DEF ServedInOrder
<1>1. ServedInOrder'
  BY <1>0 DEF ServedInOrder
<1>2. WithdrawnOnlyByCancel'
  BY DEF WithdrawnOnlyByCancel
<1>3. activation.trigger > 0 => inbox'[activation.trigger] = inbox[activation.trigger]
  BY <1>0
<1>4. WorkFollowsTrigger'
  BY <1>3 DEF WorkFollowsTrigger
<1> QED BY <1>1, <1>2, <1>4 DEF InboxInv, CompletedRunAnsweredEverything

LEMMA WithdrawnInbox ==
  ASSUME TypeOK, ServedInOrder, inbox' = Withdrawn,
         activation'.number = activation.number, activation'.trigger = activation.trigger
  PROVE  /\ ServedInOrder'
         /\ activation.trigger > 0 /\ inbox[activation.trigger] \in {"delivered", "consumed"} =>
              inbox'[activation.trigger] = inbox[activation.trigger]
<1> USE WithdrawnType DEF TypeOK, ActivationRows
<1>1. ServedInOrder'
  BY DEF ServedInOrder
<1> QED BY <1>1 DEF ServedInOrder

LEMMA SetInboxAt ==
  ASSUME inbox \in Seq(InboxStates), NEW i \in DOMAIN inbox, NEW s, SetInbox(i, s)
  PROVE  /\ Len(inbox') = Len(inbox)
         /\ DOMAIN inbox = 1..Len(inbox)
         /\ DOMAIN inbox' = 1..Len(inbox)
         /\ inbox'[i] = s
         /\ \A j \in 1..Len(inbox) : j # i => inbox'[j] = inbox[j]
  BY DEF SetInbox

LEMMA InboxStep == IndInv /\ TypeOK' /\ [Next]_vars => InboxInv'
<1> SUFFICES ASSUME IndInv, TypeOK', [Next]_vars PROVE InboxInv'
    OBVIOUS
<1>0. /\ TypeOK /\ ServedInOrder /\ WithdrawnOnlyByCancel
      /\ activation.state # "none" <=> activation.trigger > 0
      /\ attempt.state # "none" \/ task.pc \in Driving => Started
      /\ call.dispatch # "none" => attempt.state # "none"
      /\ activation.trigger > 0 => inbox[activation.trigger] \in {"delivered", "consumed"}
      /\ status = "completed" => \A i \in DOMAIN inbox : inbox[i] = "consumed"
  BY DEF IndInv, InboxInv, WorkFollowsTrigger, Driving, Started, CompletedRunAnsweredEverything
<1>1. CASE User
  <2>1. CASE SendFollowup
    BY <1>0, <2>1, MoreInbox DEF SendFollowup, TypeOK, ActivationRows, TerminalStates
  <2>2. CASE Pause
    BY <1>0, <2>2, SameInbox, HostSettledType DEF Pause, Control, InFlight, TypeOK, Driving
  <2>3. CASE Resume
    BY <1>0, <2>3, SameInbox, ControlType
       DEF Resume, TypeOK, ActivationRows, Driving, TerminalStates, Active
  <2>4. CASE Cancel
    <3>1. /\ UNCHANGED <<task, call>> /\ inbox' = Withdrawn /\ status' = "cancelled"
          /\ activation'.number = activation.number /\ activation'.trigger = activation.trigger
          /\ activation'.state # "none" <=> activation.state # "none"
      BY <1>0, <2>4, EndActivationType DEF Cancel, Control, EndReasons, TypeOK
    <3>2. attempt'.state # "none" <=> attempt.state # "none"
      BY <1>0, <2>4, HostSettledType DEF Cancel, InFlight, TypeOK
    <3> QED BY <1>0, <3>1, <3>2, WithdrawnInbox
            DEF InboxInv, Started, Driving, CompletedRunAnsweredEverything, WorkFollowsTrigger,
                WithdrawnOnlyByCancel
  <2>5. CASE AnswerQuestion
    BY <1>0, <2>5, MoreInbox, InteractionType
       DEF AnswerQuestion, Answerable, TypeOK, ActivationRows, TerminalStates
  <2>6. CASE RespondProtected
    <3>1. /\ Enqueue /\ UNCHANGED <<attempt, task>> /\ status = "waiting_confirmation" /\ status' = "running"
          /\ activation'.number = activation.number /\ activation'.trigger = activation.trigger
          /\ activation'.state = "ended"
      BY <1>0, <2>6, EndActivationType DEF RespondProtected, Confirmable, EndReasons, TypeOK
    <3>2. call.dispatch = "held"
      BY <2>6 DEF RespondProtected, Confirmable
    <3>3. activation.state # "none"
      BY <1>0, <3>2 DEF Started
    <3> QED BY <3>1, <3>2, <3>3, MoreInbox
  <2>7. CASE ApproveExport
    BY <1>0, <2>7, SameInbox, InteractionType, CallType
       DEF ApproveExport, RespondExport, Confirmable, DispatchStates, TypeOK, ActivationRows,
           Driving, TerminalStates, Active
  <2>8. CASE DenyExport
    BY <1>0, <2>8, SameInbox, InteractionType, CallType
       DEF DenyExport, RespondExport, Confirmable, DispatchStates, TypeOK, ActivationRows, Driving,
           TerminalStates, Active
  <2>9. CASE OtherWork
    BY <1>0, <2>9, SameInbox
       DEF OtherWork, durable, TypeOK, ActivationRows, Driving, TerminalStates, Active
  <2> QED BY <1>1, <2>1, <2>2, <2>3, <2>4, <2>5, <2>6, <2>7, <2>8, <2>9 DEF User
<1>2. CASE Coordinate
  <2>1. CASE Defer
    BY <1>0, <2>1, SameInbox, GotoType
       DEF Defer, durable, Pcs, TypeOK, ActivationRows, Driving, TerminalStates, Active
  <2>2. CASE CoordinateFailure
    BY <1>0, <2>2, SameInbox, GotoType
       DEF CoordinateFailure, durable, Pcs, TypeOK, ActivationRows, Driving, TerminalStates, Active
  <2>3. CASE ReenterActivation
    <3>1. task'.pc \in Driving => Started
      <4>1. CASE Resumable
        BY <1>0, <4>1 DEF Resumable
      <4>2. CASE ~Resumable /\ inbox[activation.trigger] = "delivered"
        BY <1>0, <2>3, <4>2, GotoType DEF ReenterActivation, Pcs, Driving, TypeOK
      <4>3. CASE inbox[activation.trigger] # "delivered"
        BY <1>0, <2>3, <4>3 DEF ReenterActivation, Active, Started
      <4> QED BY <4>1, <4>2, <4>3
    <3> QED BY <1>0, <2>3, <3>1, SameInbox DEF ReenterActivation, durable
  <2>4. CASE Deliver
    <3>1. PICK m \in DOMAIN inbox : /\ Earliest(m)
            /\ IF inbox[m] = "queued" THEN SetInbox(m, "delivered") ELSE UNCHANGED inbox
      BY <2>4 DEF Deliver
    <3>2. /\ UNCHANGED <<status, activation, attempt, call>> /\ task'.pc = "starting"
          /\ status \notin {"completed", "cancelled"}
      BY <1>0, <2>4, GotoType DEF Deliver, Schedulable, Pcs, TypeOK
    <3>3. CASE UNCHANGED inbox
      BY <1>0, <3>2, <3>3, SameInbox DEF Driving
    <3>4. CASE inbox[m] = "queued" /\ SetInbox(m, "delivered")
      <4>1. \A j \in 1..(m - 1) : inbox[j] = "consumed"
        BY <1>0, <3>1, <3>2 DEF Earliest, Pending, WithdrawnOnlyByCancel, TypeOK, InboxStates
      <4>2. activation.trigger # m /\ activation.trigger \in Nat /\ activation.trigger <= Len(inbox)
        BY <1>0, <3>4 DEF TypeOK, ActivationRows, ServedInOrder
      <4>3. ServedInOrder'
        <5>1. /\ activation'.number = activation'.trigger /\ activation'.trigger <= Len(inbox')
          BY <1>0, <3>2, <3>4, <4>2, SetInboxAt DEF ServedInOrder, TypeOK
        <5>2. m > activation.trigger
          BY <1>0, <3>2, <3>4, <4>2, SetInboxAt DEF ServedInOrder, TypeOK
        <5>3. \A j \in DOMAIN inbox' : /\ j < activation'.trigger => inbox'[j] = "consumed"
                                       /\ j > activation'.trigger => inbox'[j] # "consumed"
          BY <1>0, <3>2, <3>4, <5>2, SetInboxAt DEF ServedInOrder, TypeOK
        <5>4. \A k \in DOMAIN inbox' : inbox'[k] \in {"delivered", "consumed"} =>
                                   \A j \in 1..(k - 1) : inbox'[j] = "consumed"
          BY <1>0, <3>4, <4>1, SetInboxAt DEF ServedInOrder, TypeOK
        <5> QED BY <5>1, <5>3, <5>4 DEF ServedInOrder
      <4>4. WithdrawnOnlyByCancel'
        BY <1>0, <3>2, <3>4, SetInboxAt DEF WithdrawnOnlyByCancel, TypeOK
      <4>5. activation.trigger > 0 => inbox'[activation.trigger] = inbox[activation.trigger]
        BY <1>0, <3>4, <4>2, SetInboxAt DEF TypeOK
      <4> QED BY <1>0, <3>2, <4>3, <4>4, <4>5
              DEF InboxInv, Started, Driving, CompletedRunAnsweredEverything, WorkFollowsTrigger
    <3> QED BY <3>1, <3>3, <3>4
  <2>5. CASE StartActivation
    <3>1. PICK i \in DOMAIN inbox : /\ Earliest(i) /\ inbox[i] = "delivered" /\ activation.trigger < i
            /\ activation' = [number |-> activation.number + 1, trigger |-> i,
                              state |-> "active", reason |-> "none"]
      BY <2>5 DEF StartActivation
    <3>2. /\ UNCHANGED inbox /\ status' = "running" /\ task'.pc = "consuming"
          /\ attempt'.state = "none" /\ call'.dispatch = "none" /\ status # "cancelled"
      BY <1>0, <2>5, GotoType DEF StartActivation, Schedulable, NoAttempt, NoCall, Pcs, TypeOK
    <3>3. \A j \in 1..(i - 1) : inbox[j] = "consumed"
      BY <1>0, <3>1 DEF ServedInOrder
    <3>4. i \in Nat /\ i > 0 /\ i <= Len(inbox) /\ activation.trigger \in Nat /\ DOMAIN inbox = 1..Len(inbox)
      BY <1>0, <3>1 DEF TypeOK, ActivationRows
    <3>5. i = activation.trigger + 1
      <4>1. activation.trigger + 1 < i => FALSE
        BY <1>0, <3>3, <3>4 DEF ServedInOrder
      <4> QED BY <3>1, <3>4, <4>1
    <3>6. ServedInOrder'
      BY <1>0, <3>1, <3>2, <3>3, <3>4, <3>5 DEF ServedInOrder
    <3> QED BY <1>0, <3>1, <3>2, <3>4, <3>6
            DEF InboxInv, CompletedRunAnsweredEverything, WorkFollowsTrigger, WithdrawnOnlyByCancel
  <2> QED BY <1>2, <2>1, <2>2, <2>3, <2>4, <2>5 DEF Coordinate
<1>3. CASE Attempt
  <2>1. CASE ConsumeInbox
    <3>1. /\ activation.trigger \in DOMAIN inbox /\ Earliest(activation.trigger)
          /\ SetInbox(activation.trigger, "consumed") /\ UNCHANGED <<status, activation, attempt, call>>
      BY <2>1 DEF ConsumeInbox, Earliest
    <3>2. status = "running" /\ activation.trigger \in Nat /\ activation.trigger > 0
      BY <1>0, <2>1, <3>1
         DEF ConsumeInbox, IndInv, WorkInv, HeldTaskDrivesRun, Active, TypeOK, ActivationRows
    <3>3. /\ DOMAIN inbox' = DOMAIN inbox /\ Len(inbox') = Len(inbox)
          /\ inbox'[activation.trigger] = "consumed"
          /\ \A j \in DOMAIN inbox : j # activation.trigger => inbox'[j] = inbox[j]
      BY <1>0, <3>1, SetInboxAt DEF TypeOK
    <3>4. ServedInOrder'
      <4>1. /\ activation'.number = activation'.trigger /\ activation'.trigger <= Len(inbox')
            /\ activation' = activation
        BY <1>0, <3>1, <3>3 DEF ServedInOrder
      <4>2. \A j \in 1..(activation.trigger - 1) : inbox[j] = "consumed"
        BY <1>0, <3>1, <3>2, <3>3 DEF ServedInOrder, TypeOK
      <4>3. \A j \in DOMAIN inbox' : /\ j < activation'.trigger => inbox'[j] = "consumed"
                                     /\ j > activation'.trigger => inbox'[j] # "consumed"
        BY <1>0, <3>2, <3>3, <4>1 DEF ServedInOrder
      <4>4. \A k \in DOMAIN inbox' : inbox'[k] \in {"delivered", "consumed"} =>
                                     \A j \in 1..(k - 1) : inbox'[j] = "consumed"
        <5>1. SUFFICES ASSUME NEW k \in DOMAIN inbox', inbox'[k] \in {"delivered", "consumed"},
                              NEW j \in 1..(k - 1)
                       PROVE  inbox'[j] = "consumed"
          OBVIOUS
        <5>2. inbox[j] = "consumed" \/ j = activation.trigger
          BY <1>0, <3>3, <4>2, <5>1 DEF ServedInOrder
        <5>3. j \in DOMAIN inbox
          BY <1>0, <3>3, <5>1 DEF TypeOK
        <5> QED BY <3>3, <5>2, <5>3
      <4> QED BY <4>1, <4>3, <4>4 DEF ServedInOrder
    <3>5. WithdrawnOnlyByCancel'
      BY <1>0, <3>1, <3>3 DEF WithdrawnOnlyByCancel
    <3> QED BY <1>0, <3>1, <3>2, <3>3, <3>4, <3>5
            DEF InboxInv, CompletedRunAnsweredEverything, WorkFollowsTrigger
  <2>2. CASE QuoteDiscarded
    BY <1>0, <2>2, SameInbox, ReturnedType
       DEF QuoteDiscarded, durable, TypeOK, ActivationRows, Driving, TerminalStates, Active
  <2>3. CASE QuoteYields
    <3>1. /\ UNCHANGED <<inbox, attempt, call, status>> /\ task.pc = "quoting" /\ status = "running"
          /\ activation'.number = activation.number /\ activation'.trigger = activation.trigger
          /\ activation'.state # "none" <=> activation.state # "none"
      BY <1>0, <2>3, EndActivationType DEF QuoteYields, Quoting, Active, EndReasons, TypeOK
    <3> QED BY <1>0, <3>1, SameInbox DEF Driving
  <2>4. CASE PrepareAttempt
    <3>1. Started
      BY <1>0, <2>4 DEF PrepareAttempt, Quoting, Driving
    <3> QED BY <1>0, <2>4, <3>1, SameInbox DEF PrepareAttempt, Active
  <2>5. CASE QuoteThrows
    BY <1>0, <2>5, SameInbox, ThrowsType
       DEF QuoteThrows, durable, TypeOK, ActivationRows, Driving, TerminalStates, Active
  <2>6. CASE MarkRunning
    BY <1>0, <2>6, SameInbox, GotoType, LocalType
       DEF MarkRunning, Pcs, AttemptStates, TypeOK, ActivationRows, Driving, TerminalStates, Active
  <2>7. CASE FailRun
    <3>1. /\ UNCHANGED <<attempt, call>> /\ status' \in {"failed", "cancelled"} /\ task'.pc = "off"
          /\ inbox' = inbox \/ (inbox' = Withdrawn /\ status' = "cancelled")
          /\ activation'.number = activation.number /\ activation'.trigger = activation.trigger
          /\ status = "running" /\ (activation'.state # "none" <=> activation.state # "none")
      BY <1>0, <2>7, EndActivationType, GotoType
         DEF FailRun, EndReasons, Pcs, ModelFailed, Active, TypeOK
    <3>2. CASE inbox' = inbox
      BY <1>0, <3>1, <3>2, SameInbox DEF Driving
    <3>3. CASE inbox' = Withdrawn /\ status' = "cancelled"
      BY <1>0, <3>1, <3>3, WithdrawnInbox
         DEF InboxInv, Started, Driving, CompletedRunAnsweredEverything, WorkFollowsTrigger,
             WithdrawnOnlyByCancel
    <3> QED BY <3>1, <3>2, <3>3
  <2> QED BY <1>3, <2>1, <2>2, <2>3, <2>4, <2>5, <2>6, <2>7 DEF Attempt
<1>4. CASE Stream
  <2>1. CASE StreamDiscarded
    BY <1>0, <2>1, SameInbox, ReturnedType
       DEF StreamDiscarded, durable, TypeOK, ActivationRows, Driving, TerminalStates, Active
  <2>2. CASE StreamThrows
    BY <1>0, <2>2, SameInbox, ThrowsType
       DEF StreamThrows, durable, TypeOK, ActivationRows, Driving, TerminalStates, Active
  <2>3. CASE FinalAnswer
    <3>1. /\ UNCHANGED <<inbox, call>> /\ status = "running" /\ task.pc = "streaming"
          /\ activation'.number = activation.number /\ activation'.trigger = activation.trigger
          /\ attempt.state = "running" /\ (activation'.state # "none" <=> activation.state # "none")
      BY <1>0, <2>3, EndActivationType
         DEF FinalAnswer, Answered, Streaming, Active, EndReasons, TypeOK
    <3>2. Started
      BY <1>0, <3>1
    <3>3. status' = "completed" => \A i \in DOMAIN inbox : inbox[i] = "consumed"
      <4>1. status' = "completed" => ~PendingAfterTrigger
        BY <2>3, <3>1 DEF FinalAnswer
      <4> QED BY <1>0, <3>1, <3>2, <4>1
              DEF PendingAfterTrigger, Pending, ServedInOrder, WithdrawnOnlyByCancel, Started,
                  TypeOK, InboxStates, ActivationRows
    <3>4. attempt'.state # "none"
      BY <1>0, <2>3, AnsweredType DEF FinalAnswer, TypeOK, AttemptStates
    <3> QED BY <1>0, <3>1, <3>2, <3>3, <3>4, SameInbox
  <2>4. CASE ReadCall
    BY <1>0, <2>4, SameInbox, AnsweredType, CallsToolType, GotoType
       DEF ReadCall, Answered, Streaming, AttemptStates, Tools, DispatchStates, Pcs, TypeOK,
           ActivationRows, Driving, TerminalStates, Active
  <2>5. CASE ProtectedCall
    BY <1>0, <2>5, SameInbox, AnsweredType, CallsToolType, GotoType
       DEF ProtectedCall, Answered, Streaming, AttemptStates, Tools, DispatchStates, Pcs, TypeOK,
           ActivationRows, Driving, TerminalStates, Active
  <2>6. CASE ControlCall
    BY <1>0, <2>6, SameInbox, AnsweredType, CallsToolType, NextAttemptType
       DEF ControlCall, Answered, Streaming, AttemptStates, Tools, DispatchStates, Advance, TypeOK,
           ActivationRows, Driving, TerminalStates, Active
  <2>7. CASE BoundCall
    BY <1>0, <2>7, SameInbox, LocalType, CallsToolType, GotoType
       DEF BoundCall, Streaming, AttemptStates, Tools, DispatchStates, Pcs, TypeOK, ActivationRows,
           Driving, TerminalStates, Active
  <2>8. CASE ExportCall
    BY <1>0, <2>8, SameInbox, LocalType, CallsToolType, AsksUserType
       DEF ExportCall, Streaming, AttemptStates, Tools, DispatchStates, TypeOK, ActivationRows,
           Driving, TerminalStates, Active
  <2>9. CASE AskQuestion
    BY <1>0, <2>9, SameInbox, AnsweredType, EndActivationType, AsksUserType
       DEF AskQuestion, Answered, Streaming, AttemptStates, EndReasons, CallRows, DispatchStates,
           TypeOK, ActivationRows, Driving, TerminalStates, Active
  <2>10. CASE AtomicCallRejected
    BY <1>0, <2>10, SameInbox, ThrowsType
       DEF AtomicCallRejected, durable, TypeOK, ActivationRows, Driving, TerminalStates, Active
  <2>11. CASE ProviderFailure
    BY <1>0, <2>11, SameInbox, AnsweredType, GotoType
       DEF ProviderFailure, Answered, Streaming, AttemptStates, Pcs, TypeOK, ActivationRows,
           Driving, TerminalStates, Active
  <2>12. CASE ProviderLost
    BY <1>0, <2>12, SameInbox, LocalType, ReturnedType
       DEF ProviderLost, Streaming, AttemptStates, TypeOK, ActivationRows, Driving, TerminalStates,
           Active
  <2> QED BY <1>4, <2>1, <2>2, <2>3, <2>4, <2>5, <2>6, <2>7, <2>8, <2>9, <2>10, <2>11, <2>12 DEF Stream
<1>5. CASE Tool
  <2>1. CASE PrepareDispatch
    BY <1>0, <2>1, SameInbox, CallType, GotoType
       DEF PrepareDispatch, DispatchStates, Pcs, TypeOK, ActivationRows, Driving, TerminalStates,
           Active
  <2>2. CASE ReadReturns
    BY <1>0, <2>2, SameInbox, CallType, EndActivationType, ReturnedType, NextAttemptType
       DEF ReadReturns, Settles, Executing, DispatchStates, EndReasons, Advance, TypeOK,
           ActivationRows, Driving, TerminalStates, Active
  <2>3. CASE OwnerReturns
    BY <1>0, <2>3, SameInbox, CallType, NextAttemptType
       DEF OwnerReturns, Settles, Executing, DispatchStates, Advance, TypeOK, ActivationRows,
           Driving, TerminalStates, Active
  <2>4. CASE OwnerDiscarded
    BY <1>0, <2>4, SameInbox, ReturnedType
       DEF OwnerDiscarded, durable, TypeOK, ActivationRows, Driving, TerminalStates, Active
  <2>5. CASE ToolThrows
    BY <1>0, <2>5, SameInbox, ThrowsType
       DEF ToolThrows, durable, TypeOK, ActivationRows, Driving, TerminalStates, Active
  <2>6. CASE ProtectedCommits
    BY <1>0, <2>6, SameInbox, CallType, NextAttemptType
       DEF ProtectedCommits, Protecting, DispatchStates, Advance, TypeOK, ActivationRows, Driving,
           TerminalStates, Active
  <2>7. CASE ProtectedHolds
    BY <1>0, <2>7, SameInbox, CallType, AsksUserType
       DEF ProtectedHolds, Protecting, DispatchStates, TypeOK, ActivationRows, Driving,
           TerminalStates, Active
  <2>8. CASE ProtectedThrows
    BY <1>0, <2>8, SameInbox, ThrowsType
       DEF ProtectedThrows, durable, TypeOK, ActivationRows, Driving, TerminalStates, Active
  <2> QED BY <1>5, <2>1, <2>2, <2>3, <2>4, <2>5, <2>6, <2>7, <2>8 DEF Tool
<1>6. CASE Recovery
  <2>1. CASE Boot
    BY <1>0, <2>1, SameInbox
       DEF Boot, durable, TaskOff, TypeOK, ActivationRows, Driving, TerminalStates, Active
  <2>2. CASE ReconcileDone
    BY <1>0, <2>2, SameInbox
       DEF ReconcileDone, durable, TypeOK, ActivationRows, Driving, TerminalStates, Active
  <2>3. CASE CloseInterrupted
    <3>1. /\ UNCHANGED <<inbox, task>> /\ status' = "blocked" /\ status = "running"
          /\ activation'.number = activation.number /\ activation'.trigger = activation.trigger
          /\ activation'.state # "none" <=> activation.state # "none"
      BY <1>0, <2>3, EndActivationType DEF CloseInterrupted, Interrupted, Active, EndReasons, TypeOK
    <3>2. attempt'.state # "none" <=> attempt.state # "none"
      BY <1>0, <2>3, InterruptionType DEF CloseInterrupted, InFlight, TypeOK
    <3>3. call'.dispatch # "none" => call.dispatch # "none"
      BY <1>0, <2>3, CallType DEF CloseInterrupted, Interrupted, RecoveryRequired
    <3> QED BY <1>0, <3>1, <3>2, <3>3, SameInbox
  <2>4. CASE ReconcileThrows
    BY <1>0, <2>4, SameInbox
       DEF ReconcileThrows, durable, TypeOK, ActivationRows, Driving, TerminalStates, Active
  <2> QED BY <1>6, <2>1, <2>2, <2>3, <2>4 DEF Recovery
<1>7. CASE StartTask
  BY <1>0, <1>7, SameInbox
     DEF StartTask, durable, TaskOff, TypeOK, ActivationRows, Driving, TerminalStates, Active
<1>8. CASE AbortTask
  BY <1>0, <1>8, SameInbox
     DEF AbortTask, durable, Tasks, TypeOK, ActivationRows, Driving, TerminalStates, Active
<1>9. CASE Crash
  BY <1>0, <1>9, SameInbox
     DEF Crash, Exit, durable, TaskOff, TypeOK, ActivationRows, Driving, TerminalStates, Active
<1>10. CASE UNCHANGED vars
  BY <1>0, <1>10, SameInbox
     DEF vars, durable, TypeOK, ActivationRows, Driving, TerminalStates, Active
<1> QED BY <1>1, <1>2, <1>3, <1>4, <1>5, <1>6, <1>7, <1>8, <1>9, <1>10
    DEF Next, TaskStep

-----------------------------------------------------------------------------
(* The invariants of the specification *)

LEMMA InitInv == Init => IndInv
<1> SUFFICES ASSUME Init PROVE IndInv
    OBVIOUS
<1> USE DEF Init, NoAttempt, NoCall, TaskOff
<1>1. TypeOK
  BY DEF TypeOK, RunStates, InboxStates, ActivationRows, ActivationStates, EndReasons, AttemptRows,
         AttemptStates, CallRows, Tools, DispatchStates, Steps, InteractionRows, Tasks, Pcs,
         HostStates, Counters
<1>2. WorkInv
  BY DEF WorkInv, StepBracketsWork, OneFrontier, WaitingHasInteraction, HeldTaskDrivesRun,
         WorkNeedsActivation, InFlight, Unresolved, Active, TerminalStates
<1>3. InboxInv
  BY DEF InboxInv, CompletedRunAnsweredEverything, ServedInOrder, WorkFollowsTrigger,
         WithdrawnOnlyByCancel
<1> QED BY <1>1, <1>2, <1>3 DEF IndInv

LEMMA NextInv == IndInv /\ [Next]_vars => IndInv'
  BY TypeStep, WorkStep, InboxStep DEF IndInv

\* Every reachable state satisfies the inductive invariant.
THEOREM Invariant == Spec => []IndInv
<1>1. Init => IndInv
  BY InitInv
<1>2. IndInv /\ [Next]_vars => IndInv'
  BY NextInv
<1> QED BY <1>1, <1>2, PTL DEF Spec

\* The rows keep their types.
THEOREM TypeCorrect == Spec => []TypeOK
<1>1. IndInv => TypeOK
  BY DEF IndInv
<1> QED BY <1>1, Invariant, PTL

\* Open journal steps bracket the work in flight, for every bound, kind of Run and provider.
THEOREM StepsBracketWork == Spec => []StepBracketsWork
<1>1. IndInv => StepBracketsWork
  BY DEF IndInv, WorkInv
<1> QED BY <1>1, Invariant, PTL

\* A crash at any point of any length of execution leaves at most one frontier to reconcile.
THEOREM CrashLeavesOneFrontier == Spec => []OneFrontier
<1>1. IndInv => OneFrontier
  BY DEF IndInv, WorkInv
<1> QED BY <1>1, Invariant, PTL

\* A Run waits for the user exactly while an interaction is there to be decided.
THEOREM WaitingIsDecidable == Spec => []WaitingHasInteraction
<1>1. IndInv => WaitingHasInteraction
  BY DEF IndInv, WorkInv
<1> QED BY <1>1, Invariant, PTL

\* However many messages arrive and whenever they do, a completed Run has consumed them all.
THEOREM CompletionAnswersEverything == Spec => []CompletedRunAnsweredEverything
<1>1. IndInv => CompletedRunAnsweredEverything
  BY DEF IndInv, InboxInv
<1> QED BY <1>1, Invariant, PTL

\* Messages are served first in, first out and exactly once, through any number of crashes.
THEOREM MessagesServedInOrder == Spec => []ServedInOrder
<1>1. IndInv => ServedInOrder
  BY DEF IndInv, InboxInv
<1> QED BY <1>1, Invariant, PTL

\* All of them at once, as the run core checks them: journal, work in flight, waiting and messages agree.
THEOREM RunsAreSafe == Spec => []RunSafety
<1>1. IndInv => RunSafety
  BY DEF IndInv, WorkInv, InboxInv, RunSafety
<1> QED BY <1>1, Invariant, PTL

-----------------------------------------------------------------------------
(* What no step may do: the action properties, from the inductive invariant *)

(* A Run that has ended *)

LEMMA EndedIsIdle ==
  ASSUME IndInv, status \in TerminalStates
  PROVE  /\ status \notin {"accepted", "running", "paused", "waiting_question", "waiting_confirmation"}
         /\ activation.state # "active" /\ ~Active /\ ~Schedulable /\ ~ModelFailed
         /\ task.pc \notin {"consuming", "marking", "dispatching", "protecting"}
  BY DEF IndInv, WorkInv, WorkNeedsActivation, HeldTaskDrivesRun, TerminalStates, Active, Schedulable,
         ModelFailed

LEMMA EndedStep == IndInv /\ [Next]_vars => (status \in TerminalStates => UNCHANGED durable)
<1> SUFFICES ASSUME IndInv, [Next]_vars, status \in TerminalStates PROVE UNCHANGED durable
    OBVIOUS
<1>0. /\ status \notin {"accepted", "running", "paused", "waiting_question", "waiting_confirmation"}
      /\ activation.state # "active" /\ ~Active /\ ~Schedulable /\ ~ModelFailed
      /\ task.pc \notin {"consuming", "marking", "dispatching", "protecting"}
  BY EndedIsIdle
<1>1. CASE User
  BY <1>0, <1>1
     DEF User, SendFollowup, Pause, Resume, Cancel, AnswerQuestion, Answerable, RespondProtected,
         ApproveExport, DenyExport, RespondExport, Confirmable, OtherWork
<1>2. CASE StartTask \/ AbortTask
  BY <1>2 DEF StartTask, AbortTask
<1>3. CASE Coordinate
  BY <1>0, <1>3 DEF Coordinate, Defer, CoordinateFailure, ReenterActivation, Deliver, StartActivation
<1>4. CASE Attempt
  BY <1>0, <1>4
     DEF Attempt, ConsumeInbox, QuoteDiscarded, QuoteYields, PrepareAttempt, QuoteThrows, MarkRunning,
         FailRun
<1>5. CASE Stream
  BY <1>0, <1>5
     DEF Stream, StreamDiscarded, StreamThrows, FinalAnswer, ReadCall, ProtectedCall, ControlCall,
         BoundCall, ExportCall, AskQuestion, AtomicCallRejected, ProviderFailure, ProviderLost, Answered
<1>6. CASE Tool
  BY <1>0, <1>6
     DEF Tool, PrepareDispatch, ReadReturns, OwnerReturns, OwnerDiscarded, ToolThrows,
         ProtectedCommits, ProtectedHolds, ProtectedThrows, Protecting
<1>7. CASE Crash \/ Recovery
  BY <1>0, <1>7
     DEF Crash, Exit, Recovery, Boot, ReconcileDone, CloseInterrupted, Interrupted, ReconcileThrows
<1>8. CASE UNCHANGED vars
  BY <1>8 DEF vars
<1> QED BY <1>1, <1>2, <1>3, <1>4, <1>5, <1>6, <1>7, <1>8 DEF Next, TaskStep

\* After a Run has ended, no transaction of it commits any more, whatever its task still awaits.
THEOREM EndedRunIsFinal == Spec => NothingAfterTheEnd
<1>1. IndInv /\ [Next]_vars => [(status \in TerminalStates) => UNCHANGED durable]_vars
  BY EndedStep
<1> QED BY <1>1, Invariant, PTL DEF Spec, NothingAfterTheEnd

-----------------------------------------------------------------------------
(* Work starts only for a Run that is being driven *)

LEMMA StartStep ==
  IndInv /\ [Next]_vars =>
    (StartsWork => /\ status \in {"accepted", "running", "waiting_confirmation"}
                   /\ status' = "running")
<1> SUFFICES ASSUME IndInv, [Next]_vars, StartsWork
             PROVE  status \in {"accepted", "running", "waiting_confirmation"} /\ status' = "running"
    OBVIOUS
<1>0. /\ TypeOK
      /\ task.pc \in {"consuming", "marking", "dispatching", "protecting"} => status = "running"
  BY DEF IndInv, WorkInv, HeldTaskDrivesRun, Active
<1>1. CASE User
  <2>1. CASE Pause
    BY <1>0, <2>1, HostSettledType
       DEF Pause, StartsWork, TypeOK
  <2>2. CASE Cancel
    BY <1>0, <2>2, HostSettledType, EndActivationType
       DEF Cancel, StartsWork, EndReasons, TypeOK
  <2>3. CASE RespondProtected
    BY <1>0, <2>3, CallType, EndActivationType
       DEF RespondProtected, StartsWork, DispatchStates, EndReasons, TypeOK
  <2>4. CASE ApproveExport \/ DenyExport
    BY <2>4 DEF ApproveExport, DenyExport, RespondExport, Confirmable, StartsWork
  <2>5. CASE SendFollowup \/ Resume \/ AnswerQuestion \/ OtherWork
    BY <2>5 DEF SendFollowup, Resume, AnswerQuestion, OtherWork, durable, StartsWork
  <2> QED BY <1>1, <2>1, <2>2, <2>3, <2>4, <2>5 DEF User
<1>2. CASE StartTask \/ AbortTask
  BY <1>2 DEF StartTask, AbortTask, durable, StartsWork
<1>3. CASE Coordinate
  BY <1>3
     DEF Coordinate, Defer, CoordinateFailure, ReenterActivation, Deliver, StartActivation, Schedulable,
         durable, StartsWork
<1>4. CASE Attempt
  <2>1. CASE QuoteYields
    BY <1>0, <2>1, EndActivationType DEF QuoteYields, StartsWork, EndReasons, TypeOK
  <2>2. CASE PrepareAttempt
    BY <2>2 DEF PrepareAttempt, Active
  <2>3. CASE FailRun
    BY <1>0, <2>3, EndActivationType DEF FailRun, StartsWork, EndReasons, TypeOK
  <2>4. CASE MarkRunning
    BY <1>0, <2>4, LocalType DEF MarkRunning, StartsWork, AttemptStates, TypeOK
  <2>5. CASE ConsumeInbox \/ QuoteDiscarded \/ QuoteThrows
    BY <2>5 DEF ConsumeInbox, QuoteDiscarded, QuoteThrows, durable, StartsWork
  <2> QED BY <1>4, <2>1, <2>2, <2>3, <2>4, <2>5 DEF Attempt
<1>5. CASE Stream
  <2>1. CASE FinalAnswer
    BY <1>0, <2>1, AnsweredType, EndActivationType
       DEF FinalAnswer, StartsWork, AttemptStates, EndReasons, TypeOK
  <2>2. CASE ReadCall \/ ProtectedCall \/ ControlCall
    BY <1>0, <2>2, AnsweredType, CallsToolType
       DEF ReadCall, ProtectedCall, ControlCall, StartsWork, AttemptStates, Tools, DispatchStates, TypeOK
  <2>3. CASE BoundCall
    BY <2>3 DEF BoundCall, Active
  <2>4. CASE ExportCall
    BY <1>0, <2>4, LocalType, CallsToolType
       DEF ExportCall, StartsWork, AttemptStates, Tools, DispatchStates, TypeOK
  <2>5. CASE AskQuestion
    BY <1>0, <2>5, AnsweredType, EndActivationType
       DEF AskQuestion, StartsWork, AttemptStates, EndReasons, TypeOK
  <2>6. CASE ProviderFailure
    BY <1>0, <2>6, AnsweredType DEF ProviderFailure, StartsWork, AttemptStates, TypeOK
  <2>7. CASE ProviderLost
    BY <1>0, <2>7, LocalType DEF ProviderLost, StartsWork, AttemptStates, TypeOK
  <2>8. CASE StreamDiscarded \/ StreamThrows \/ AtomicCallRejected
    BY <2>8 DEF StreamDiscarded, StreamThrows, AtomicCallRejected, durable, StartsWork
  <2> QED BY <1>5, <2>1, <2>2, <2>3, <2>4, <2>5, <2>6, <2>7, <2>8 DEF Stream
<1>6. CASE Tool
  <2>1. CASE PrepareDispatch
    BY <1>0, <2>1 DEF PrepareDispatch
  <2>2. CASE ReadReturns \/ OwnerReturns
    BY <1>0, <2>2, CallType, EndActivationType
       DEF ReadReturns, OwnerReturns, Settles, StartsWork, DispatchStates, EndReasons, TypeOK
  <2>3. CASE ProtectedCommits \/ ProtectedHolds
    BY <1>0, <2>3, CallType
       DEF ProtectedCommits, ProtectedHolds, StartsWork, DispatchStates, TypeOK
  <2>4. CASE OwnerDiscarded \/ ToolThrows \/ ProtectedThrows
    BY <2>4 DEF OwnerDiscarded, ToolThrows, ProtectedThrows, durable, StartsWork
  <2> QED BY <1>6, <2>1, <2>2, <2>3, <2>4 DEF Tool
<1>7. CASE Crash \/ Recovery
  <2>1. CASE CloseInterrupted
    BY <1>0, <2>1, InterruptionType, CallType, EndActivationType
       DEF CloseInterrupted, StartsWork, DispatchStates, EndReasons, TypeOK
  <2>2. CASE Crash \/ Boot \/ ReconcileDone \/ ReconcileThrows
    BY <2>2 DEF Crash, Exit, Boot, ReconcileDone, ReconcileThrows, durable, StartsWork
  <2> QED BY <1>7, <2>1, <2>2 DEF Recovery
<1>8. CASE UNCHANGED vars
  BY <1>8 DEF vars, durable, StartsWork
<1> QED BY <1>1, <1>2, <1>3, <1>4, <1>5, <1>6, <1>7, <1>8 DEF Next, TaskStep

\* No attempt, dispatch or Activation starts for a Run that is paused, waiting or over.
THEOREM WorkStartsOnlyWhileRunning == Spec => NothingStartsUnlessRunning
<1>1. IndInv /\ [Next]_vars =>
        [StartsWork => /\ status \in {"accepted", "running", "waiting_confirmation"}
                       /\ status' = "running"]_vars
  BY StartStep
<1> QED BY <1>1, Invariant, PTL DEF Spec, NothingStartsUnlessRunning

-----------------------------------------------------------------------------
(* What is settled stays settled *)

LEMMA SettleStep ==
  IndInv /\ [Next]_vars =>
    (SameAttempt =>
       /\ attempt.state \in {"succeeded", "failed", "cancelled"} => attempt' = attempt
       /\ call.dispatch = "settled" /\ attempt' = attempt => call' = call)
<1> SUFFICES ASSUME IndInv, [Next]_vars, SameAttempt
             PROVE  /\ attempt.state \in {"succeeded", "failed", "cancelled"} => attempt' = attempt
                    /\ call.dispatch = "settled" /\ attempt' = attempt => call' = call
    OBVIOUS
<1>0. TypeOK
  BY DEF IndInv
<1>1. CASE User
  <2>1. CASE Pause
    BY <1>0, <2>1, HostSettledType DEF Pause, InFlight, TypeOK
  <2>2. CASE Cancel
    BY <1>0, <2>2, HostSettledType DEF Cancel, InFlight, TypeOK
  <2>3. CASE RespondProtected \/ ApproveExport \/ DenyExport
    BY <2>3 DEF RespondProtected, ApproveExport, DenyExport, RespondExport, Confirmable
  <2>4. CASE SendFollowup \/ Resume \/ AnswerQuestion \/ OtherWork
    BY <2>4 DEF SendFollowup, Resume, AnswerQuestion, OtherWork, durable
  <2> QED BY <1>1, <2>1, <2>2, <2>3, <2>4 DEF User
<1>2. CASE StartTask \/ AbortTask
  BY <1>2 DEF StartTask, AbortTask, durable
<1>3. CASE Coordinate
  <2>1. CASE StartActivation
    <3>1. activation'.number = activation.number + 1 /\ activation.number \in Nat
      BY <1>0, <2>1 DEF StartActivation, TypeOK, ActivationRows
    <3> QED BY <3>1 DEF SameAttempt
  <2>2. CASE Defer \/ CoordinateFailure \/ ReenterActivation \/ Deliver
    BY <2>2 DEF Defer, CoordinateFailure, ReenterActivation, Deliver, durable
  <2> QED BY <1>3, <2>1, <2>2 DEF Coordinate
<1>4. CASE Attempt
  <2>1. CASE PrepareAttempt
    <3>1. attempt'.number = attempt.number + 1 /\ attempt.number \in Nat
      BY <1>0, <2>1 DEF PrepareAttempt, TypeOK, AttemptRows
    <3> QED BY <3>1 DEF SameAttempt
  <2>2. CASE MarkRunning
    BY <2>2 DEF MarkRunning
  <2>3. CASE ConsumeInbox \/ QuoteDiscarded \/ QuoteYields \/ QuoteThrows \/ FailRun
    BY <2>3 DEF ConsumeInbox, QuoteDiscarded, QuoteYields, QuoteThrows, FailRun, durable
  <2> QED BY <1>4, <2>1, <2>2, <2>3 DEF Attempt
<1>5. CASE Stream
  <2>1. CASE StreamDiscarded \/ StreamThrows \/ AtomicCallRejected
    BY <2>1 DEF StreamDiscarded, StreamThrows, AtomicCallRejected, durable
  <2>2. CASE FinalAnswer \/ AskQuestion \/ ProviderFailure
    BY <2>2 DEF FinalAnswer, AskQuestion, ProviderFailure, Answered
  <2>3. CASE ReadCall \/ ProtectedCall \/ ControlCall
    <3>1. attempt.state = "running" /\ attempt'.state = "succeeded"
      BY <1>0, <2>3, AnsweredType
         DEF ReadCall, ProtectedCall, ControlCall, Answered, AttemptStates, TypeOK
    <3> QED BY <3>1
  <2>4. CASE BoundCall \/ ExportCall
    <3>1. attempt.state = "running" /\ attempt'.state = "succeeded"
      <4>1. attempt.state = "running" /\ attempt' = [attempt EXCEPT !.state = "succeeded"]
        BY <2>4 DEF BoundCall, ExportCall
      <4> QED BY <1>0, <4>1, LocalType DEF AttemptStates, TypeOK
    <3> QED BY <3>1
  <2>5. CASE ProviderLost
    BY <2>5 DEF ProviderLost
  <2> QED BY <1>5, <2>1, <2>2, <2>3, <2>4, <2>5 DEF Stream
<1>6. CASE Tool
  BY <1>6
     DEF Tool, PrepareDispatch, ReadReturns, OwnerReturns, Executing, OwnerDiscarded, ToolThrows,
         ProtectedCommits, ProtectedHolds, ProtectedThrows, Protecting, durable
<1>7. CASE Crash \/ Recovery
  <2>1. CASE CloseInterrupted
    BY <1>0, <2>1, InterruptionType
       DEF CloseInterrupted, Interrupted, RecoveryRequired, InFlight, TypeOK
  <2>2. CASE Crash \/ Boot \/ ReconcileDone \/ ReconcileThrows
    BY <2>2 DEF Crash, Exit, Boot, ReconcileDone, ReconcileThrows, durable
  <2> QED BY <1>7, <2>1, <2>2 DEF Recovery
<1>8. CASE UNCHANGED vars
  BY <1>8 DEF vars, durable
<1> QED BY <1>1, <1>2, <1>3, <1>4, <1>5, <1>6, <1>7, <1>8 DEF Next, TaskStep

\* An attempt's verdict and a dispatch's outcome are written once, by whoever comes first.
THEOREM VerdictsAreFinal == Spec => SettledOnce
<1>1. IndInv /\ [Next]_vars =>
        [SameAttempt =>
           /\ attempt.state \in {"succeeded", "failed", "cancelled"} => attempt' = attempt
           /\ call.dispatch = "settled" /\ attempt' = attempt => call' = call]_vars
  BY SettleStep
<1> QED BY <1>1, Invariant, PTL DEF Spec, SettledOnce

-----------------------------------------------------------------------------
(* Every step is one of five moves of the mailbox *)

StatusStep == status' = status \/ RunMayBecome(status, status')

Posted == /\ Enqueue /\ StatusStep
          /\ status \notin TerminalStates /\ status' \notin TerminalStates

HandedOver == \E i \in DOMAIN inbox :
                inbox[i] = "queued" /\ SetInbox(i, "delivered") /\ status' = status

Consumed == \E i \in DOMAIN inbox :
              /\ Earliest(i) /\ inbox[i] = "delivered" /\ SetInbox(i, "consumed")
              /\ status = "running" /\ status' = status

Withdrew == inbox' = Withdrawn /\ status \notin TerminalStates /\ status' = "cancelled"

Kept == inbox' = inbox /\ StatusStep /\ (status' = "cancelled" => status = "cancelled")

MailMove == Posted \/ HandedOver \/ Consumed \/ Withdrew \/ Kept

LEMMA RunTable ==
  /\ RunMayBecome("accepted", "running") /\ RunMayBecome("paused", "running")
  /\ RunMayBecome("waiting_question", "running") /\ RunMayBecome("waiting_confirmation", "running")
  /\ \A st \in {"waiting_question", "waiting_confirmation", "paused", "completed", "blocked",
               "failed", "cancelled"} : RunMayBecome("running", st)
  /\ \A st \in RunStates \ TerminalStates : RunMayBecome(st, "cancelled")
  BY DEF RunMayBecome, RunStateTransitions, TerminalStates, RunStates

LEMMA MailStep == IndInv /\ [Next]_vars => MailMove
<1> SUFFICES ASSUME IndInv, [Next]_vars PROVE MailMove
    OBVIOUS
<1>0. /\ TypeOK
      /\ task.pc \in {"consuming", "marking", "dispatching", "protecting"} => Active
  BY DEF IndInv, WorkInv, HeldTaskDrivesRun
<1>1. CASE User
  <2>1. CASE SendFollowup
    BY <2>1 DEF SendFollowup, MailMove, Posted, StatusStep
  <2>2. CASE Pause \/ Resume
    BY <2>2, RunTable DEF Pause, Resume, MailMove, Kept, StatusStep
  <2>3. CASE Cancel
    BY <2>3 DEF Cancel, MailMove, Withdrew
  <2>4. CASE AnswerQuestion \/ RespondProtected
    BY <2>4, RunTable
       DEF AnswerQuestion, Answerable, RespondProtected, Confirmable, MailMove, Posted, StatusStep,
           TerminalStates
  <2>5. CASE ApproveExport \/ DenyExport
    BY <2>5, RunTable
       DEF ApproveExport, DenyExport, RespondExport, Confirmable, MailMove, Kept, StatusStep
  <2>6. CASE OtherWork
    BY <2>6 DEF OtherWork, durable, MailMove, Kept, StatusStep
  <2> QED BY <1>1, <2>1, <2>2, <2>3, <2>4, <2>5, <2>6 DEF User
<1>2. CASE StartTask \/ AbortTask
  BY <1>2 DEF StartTask, AbortTask, durable, MailMove, Kept, StatusStep
<1>3. CASE Coordinate
  <2>1. CASE Deliver
    BY <2>1 DEF Deliver, MailMove, HandedOver, Kept, StatusStep
  <2>2. CASE StartActivation
    BY <2>2, RunTable DEF StartActivation, Schedulable, MailMove, Kept, StatusStep
  <2>3. CASE Defer \/ CoordinateFailure \/ ReenterActivation
    BY <2>3 DEF Defer, CoordinateFailure, ReenterActivation, durable, MailMove, Kept, StatusStep
  <2> QED BY <1>3, <2>1, <2>2, <2>3 DEF Coordinate
<1>4. CASE Attempt
  <2>1. CASE ConsumeInbox
    <3>1. /\ Earliest(activation.trigger) /\ activation.trigger \in DOMAIN inbox
          /\ SetInbox(activation.trigger, "consumed") /\ status' = status /\ status = "running"
      BY <1>0, <2>1 DEF ConsumeInbox, Earliest, Active
    <3>2. inbox[activation.trigger] = "delivered"
      BY <1>0, <3>1
         DEF Earliest, Pending, IndInv, InboxInv, WorkFollowsTrigger, TypeOK, ActivationRows
    <3> QED BY <3>1, <3>2 DEF MailMove, Consumed
  <2>2. CASE FailRun
    BY <2>2, RunTable
       DEF FailRun, ModelFailed, Active, MailMove, Withdrew, Kept, StatusStep, TerminalStates
  <2>3. CASE QuoteDiscarded \/ QuoteYields \/ PrepareAttempt \/ QuoteThrows \/ MarkRunning
    BY <2>3
       DEF QuoteDiscarded, QuoteYields, PrepareAttempt, QuoteThrows, MarkRunning, durable, MailMove,
           Kept, StatusStep
  <2> QED BY <1>4, <2>1, <2>2, <2>3 DEF Attempt
<1>5. CASE Stream
  <2>1. CASE FinalAnswer
    BY <2>1, RunTable DEF FinalAnswer, Answered, Active, MailMove, Kept, StatusStep
  <2>2. CASE ExportCall \/ AskQuestion
    BY <2>2, RunTable
       DEF ExportCall, AskQuestion, Answered, AsksUser, Active, MailMove, Kept, StatusStep
  <2>3. CASE ReadCall \/ ProtectedCall \/ ControlCall \/ BoundCall
    BY <2>3 DEF ReadCall, ProtectedCall, ControlCall, BoundCall, MailMove, Kept, StatusStep
  <2>4. CASE StreamDiscarded \/ StreamThrows \/ AtomicCallRejected \/ ProviderFailure \/ ProviderLost
    BY <2>4
       DEF StreamDiscarded, StreamThrows, AtomicCallRejected, ProviderFailure, ProviderLost, durable,
           MailMove, Kept, StatusStep
  <2> QED BY <1>5, <2>1, <2>2, <2>3, <2>4 DEF Stream
<1>6. CASE Tool
  <2>1. CASE ProtectedHolds
    BY <2>1, RunTable DEF ProtectedHolds, Protecting, AsksUser, Active, MailMove, Kept, StatusStep
  <2>2. CASE PrepareDispatch \/ ReadReturns \/ OwnerReturns \/ OwnerDiscarded \/ ToolThrows
             \/ ProtectedCommits \/ ProtectedThrows
    BY <2>2
       DEF PrepareDispatch, ReadReturns, OwnerReturns, OwnerDiscarded, ToolThrows, ProtectedCommits,
           ProtectedThrows, durable, MailMove, Kept, StatusStep
  <2> QED BY <1>6, <2>1, <2>2 DEF Tool
<1>7. CASE Crash \/ Recovery
  <2>1. CASE CloseInterrupted
    BY <2>1, RunTable DEF CloseInterrupted, Interrupted, Active, MailMove, Kept, StatusStep
  <2>2. CASE Crash \/ Boot \/ ReconcileDone \/ ReconcileThrows
    BY <2>2 DEF Crash, Exit, Boot, ReconcileDone, ReconcileThrows, durable, MailMove, Kept, StatusStep
  <2> QED BY <1>7, <2>1, <2>2 DEF Recovery
<1>8. CASE UNCHANGED vars
  BY <1>8 DEF vars, durable, MailMove, Kept, StatusStep
<1> QED BY <1>1, <1>2, <1>3, <1>4, <1>5, <1>6, <1>7, <1>8 DEF Next, TaskStep

LEMMA InboxTable ==
  /\ InboxMayBecome("queued", "delivered") /\ InboxMayBecome("queued", "cancelled")
  /\ InboxMayBecome("delivered", "consumed")
  BY DEF InboxMayBecome, InboxStateTransitions

LEMMA ContractStep ==
  IndInv /\ [Next]_vars =>
    /\ status' # status => RunMayBecome(status, status')
    /\ Len(inbox') >= Len(inbox)
    /\ \A i \in DOMAIN inbox : inbox'[i] # inbox[i] => InboxMayBecome(inbox[i], inbox'[i])
<1> SUFFICES ASSUME IndInv, [Next]_vars
             PROVE  /\ status' # status => RunMayBecome(status, status')
                    /\ Len(inbox') >= Len(inbox)
                    /\ \A i \in DOMAIN inbox :
                         inbox'[i] # inbox[i] => InboxMayBecome(inbox[i], inbox'[i])
    OBVIOUS
<1>0. TypeOK
  BY DEF IndInv
<1>1. CASE Posted
  BY <1>0, <1>1, EnqueueType DEF Posted, StatusStep, TypeOK
<1>2. CASE HandedOver
  <2>1. PICK i \in DOMAIN inbox : inbox[i] = "queued" /\ SetInbox(i, "delivered") /\ status' = status
    BY <1>2 DEF HandedOver
  <2> QED BY <1>0, <2>1, SetInboxAt, InboxTable DEF TypeOK
<1>3. CASE Consumed
  <2>1. PICK i \in DOMAIN inbox :
          inbox[i] = "delivered" /\ SetInbox(i, "consumed") /\ status' = status
    BY <1>3 DEF Consumed
  <2> QED BY <1>0, <2>1, SetInboxAt, InboxTable DEF TypeOK
<1>4. CASE Withdrew
  BY <1>0, <1>4, WithdrawnType, InboxTable, RunTable DEF Withdrew, TypeOK
<1>5. CASE Kept
  BY <1>0, <1>5 DEF Kept, StatusStep, TypeOK
<1> QED BY <1>1, <1>2, <1>3, <1>4, <1>5, MailStep DEF MailMove

\* Every write of a Run's status or of a message's state is one the shared tables allow.
THEOREM WritesFollowContract == Spec => FollowsContract
<1>1. IndInv /\ [Next]_vars =>
        [/\ status' # status => RunMayBecome(status, status')
         /\ Len(inbox') >= Len(inbox)
         /\ \A i \in DOMAIN inbox :
              inbox'[i] # inbox[i] => InboxMayBecome(inbox[i], inbox'[i])]_vars
  BY ContractStep
<1> QED BY <1>1, Invariant, PTL DEF Spec, FollowsContract

-----------------------------------------------------------------------------
(* A Run implements its mailbox *)

Messages == [i \in DOMAIN inbox |-> MessageOf(inbox[i])]

LEMMA MessageTable ==
  /\ MessageOf("queued") = "waiting" /\ MessageOf("delivered") = "waiting"
  /\ MessageOf("consumed") = "taken" /\ MessageOf("cancelled") = "withdrawn"
  BY DEF MessageOf

LEMMA PhaseTable ==
  /\ \A st \in RunStates \ TerminalStates : PhaseOf(st) = "open"
  /\ PhaseOf("completed") = "completed" /\ PhaseOf("cancelled") = "cancelled"
  /\ PhaseOf("failed") = "stopped" /\ PhaseOf("blocked") = "stopped"
  BY DEF PhaseOf, RunStates, TerminalStates

LEMMA MailboxInit == Init => Mailbox!Init
<1> SUFFICES ASSUME Init PROVE Mailbox!Init
    OBVIOUS
<1>1. inbox = <<"queued">> /\ status = "accepted"
  BY DEF Init
<1>2. Messages = <<"waiting">>
  BY <1>1 DEF Messages, MessageOf
<1> QED BY <1>1, <1>2, PhaseTable DEF Mailbox!Init, Messages, RunStates, TerminalStates

LEMMA MailboxStep == IndInv /\ IndInv' /\ [Next]_vars => [Mailbox!Next]_<<Messages, PhaseOf(status)>>
<1> SUFFICES ASSUME IndInv, IndInv', [Next]_vars
             PROVE  Mailbox!Next \/ UNCHANGED <<Messages, PhaseOf(status)>>
    OBVIOUS
<1>0. /\ inbox \in Seq(InboxStates) /\ inbox' \in Seq(InboxStates)
      /\ status \in RunStates /\ status' \in RunStates
  BY DEF IndInv, TypeOK
<1>1. CASE Posted
  <2>1. Messages' = Append(Messages, "waiting")
    <3>1. /\ DOMAIN inbox = 1..Len(inbox) /\ DOMAIN inbox' = 1..(Len(inbox) + 1)
          /\ \A i \in 1..Len(inbox) : inbox'[i] = inbox[i]
          /\ inbox'[Len(inbox) + 1] = "queued"
      BY <1>0, <1>1, EnqueueType DEF Posted
    <3>2. Messages \in Seq({"waiting", "taken", "withdrawn"}) /\ Len(Messages) = Len(inbox)
      <4>1. Messages = [i \in 1..Len(inbox) |-> MessageOf(inbox[i])] /\ Len(inbox) \in Nat
        BY <1>0, <3>1 DEF Messages
      <4>2. \A i \in 1..Len(inbox) : MessageOf(inbox[i]) \in {"waiting", "taken", "withdrawn"}
        BY <1>0, <3>1, MessageTable DEF InboxStates
      <4>3. Messages \in [1..Len(inbox) -> {"waiting", "taken", "withdrawn"}]
        BY <4>1, <4>2
      <4> QED BY <4>1, <4>3
    <3>3. Messages' \in Seq({"waiting", "taken", "withdrawn"}) /\ Len(Messages') = Len(inbox) + 1
      <4>1. /\ Messages' = [i \in 1..(Len(inbox) + 1) |-> MessageOf(inbox'[i])]
            /\ Len(inbox) + 1 \in Nat
        BY <1>0, <3>1 DEF Messages
      <4>2. \A i \in 1..(Len(inbox) + 1) : inbox'[i] \in InboxStates
        BY <1>0, <3>1
      <4>3. \A i \in 1..(Len(inbox) + 1) : MessageOf(inbox'[i]) \in {"waiting", "taken", "withdrawn"}
        BY <4>2, MessageTable DEF InboxStates
      <4>4. Messages' \in [1..(Len(inbox) + 1) -> {"waiting", "taken", "withdrawn"}]
        BY <4>1, <4>3
      <4> QED BY <4>1, <4>4
    <3>4. /\ \A i \in 1..Len(inbox) : Messages'[i] = Messages[i]
          /\ Messages'[Len(inbox) + 1] = "waiting"
      BY <1>0, <3>1, MessageTable DEF Messages
    <3>5. /\ Append(Messages, "waiting") \in Seq({"waiting", "taken", "withdrawn"})
          /\ Len(Append(Messages, "waiting")) = Len(inbox) + 1
          /\ \A i \in 1..Len(inbox) : Append(Messages, "waiting")[i] = Messages[i]
          /\ Append(Messages, "waiting")[Len(inbox) + 1] = "waiting"
      BY <3>2, AppendProperties
    <3>6. \A i \in 1..Len(Messages') : Messages'[i] = Append(Messages, "waiting")[i]
      BY <1>0, <3>3, <3>4, <3>5
    <3> QED BY <3>3, <3>5, <3>6, SeqEqual
  <2>2. PhaseOf(status) = "open" /\ PhaseOf(status') = "open"
    BY <1>0, <1>1, PhaseTable DEF Posted
  <2> QED BY <2>1, <2>2 DEF Mailbox!Next, Mailbox!Post, Messages
<1>2. CASE HandedOver
  <2>1. PICK i \in DOMAIN inbox : inbox[i] = "queued" /\ SetInbox(i, "delivered") /\ status' = status
    BY <1>2 DEF HandedOver
  <2>2. Messages' = Messages
    BY <1>0, <2>1, SetInboxAt DEF Messages, MessageOf
  <2> QED BY <2>1, <2>2
<1>3. CASE Consumed
  <2>1. PICK i \in DOMAIN inbox : /\ Earliest(i) /\ inbox[i] = "delivered"
                                 /\ SetInbox(i, "consumed")
                                 /\ status = "running" /\ status' = status
    BY <1>3 DEF Consumed
  <2>2. Messages' = [Messages EXCEPT ![i] = "taken"]
    BY <1>0, <2>1, SetInboxAt, MessageTable DEF Messages, InboxStates
  <2>3. /\ i \in DOMAIN Messages /\ Messages[i] = "waiting"
        /\ \A j \in 1..(i - 1) : Messages[j] # "waiting"
    <3>1. DOMAIN inbox = 1..Len(inbox) /\ i \in 1..Len(inbox) /\ Len(inbox) \in Nat
      BY <1>0
    <3>2. \A j \in 1..(i - 1) : j \in DOMAIN inbox /\ inbox[j] \in {"consumed", "cancelled"}
      BY <1>0, <2>1, <3>1 DEF Earliest, Pending, InboxStates
    <3>3. \A j \in 1..(i - 1) : Messages[j] \in {"taken", "withdrawn"}
      BY <3>2, MessageTable DEF Messages
    <3> QED BY <2>1, <3>3, MessageTable DEF Messages
  <2>4. PhaseOf(status) = "open"
    BY <2>1, PhaseTable DEF RunStates, TerminalStates
  <2> QED BY <2>1, <2>2, <2>3, <2>4 DEF Mailbox!Next, Mailbox!Take, Mailbox!Oldest, Messages
<1>4. CASE Withdrew
  <2>1. PhaseOf(status) = "open" /\ PhaseOf(status') = "cancelled"
    BY <1>0, <1>4, PhaseTable DEF Withdrew
  <2>2. /\ DOMAIN inbox' = DOMAIN inbox
        /\ \A i \in DOMAIN inbox :
             inbox'[i] = IF inbox[i] = "queued" THEN "cancelled" ELSE inbox[i]
    BY <1>0, <1>4, WithdrawnType DEF Withdrew
  <2>3. ASSUME NEW i \in DOMAIN Messages
        PROVE  IF Messages[i] # "waiting" THEN Messages'[i] = Messages[i]
               ELSE \/ Messages'[i] = "withdrawn"
                    \/ /\ Messages'[i] = "waiting"
                       /\ Messages[i] = "waiting" /\ \A j \in 1..(i - 1) : Messages[j] # "waiting"
    <3>1. /\ i \in DOMAIN inbox /\ inbox[i] \in InboxStates
          /\ Messages[i] = MessageOf(inbox[i]) /\ Messages'[i] = MessageOf(inbox'[i])
      BY <1>0, <2>2 DEF Messages
    <3>2. CASE inbox[i] = "delivered"
      <4>1. \A j \in 1..(i - 1) : inbox[j] = "consumed" /\ j \in DOMAIN inbox
        BY <1>0, <3>1, <3>2 DEF IndInv, InboxInv, ServedInOrder
      <4>2. \A j \in 1..(i - 1) : Messages[j] = "taken"
        BY <4>1, MessageTable DEF Messages, InboxStates
      <4>3. inbox'[i] = "delivered"
        BY <2>2, <3>1, <3>2
      <4>4. Messages[i] = "waiting" /\ Messages'[i] = "waiting"
        BY <3>1, <3>2, <4>3, MessageTable DEF InboxStates
      <4> QED BY <4>2, <4>4
    <3>3. CASE inbox[i] = "queued"
      BY <2>2, <3>1, <3>3, MessageTable DEF InboxStates
    <3>4. CASE inbox[i] \in {"consumed", "cancelled"}
      BY <2>2, <3>1, <3>4, MessageTable DEF InboxStates
    <3> QED BY <3>1, <3>2, <3>3, <3>4 DEF InboxStates
  <2>4. DOMAIN Messages' = DOMAIN Messages
    BY <2>2 DEF Messages
  <2> QED BY <2>1, <2>3, <2>4 DEF Mailbox!Next, Mailbox!Cancel, Mailbox!Oldest, Messages
<1>5. CASE Kept
  <2>1. Messages' = Messages
    BY <1>5 DEF Kept, Messages
  <2>2. CASE PhaseOf(status') = PhaseOf(status)
    BY <2>1, <2>2
  <2>3. CASE PhaseOf(status') # PhaseOf(status)
    <3>1. status \notin TerminalStates /\ status' # status /\ status' # "cancelled"
      BY <1>0, <1>5, <2>3 DEF Kept, StatusStep, RunMayBecome, TerminalStates
    <3>2. PhaseOf(status) = "open"
      BY <1>0, <3>1, PhaseTable
    <3>3. status' \in {"completed", "failed", "blocked"}
      BY <1>0, <2>3, <3>1, <3>2, PhaseTable DEF TerminalStates
    <3>4. CASE status' = "completed"
      <4>1. \A i \in DOMAIN inbox : inbox[i] = "consumed"
        BY <1>5, <3>4 DEF Kept, IndInv, InboxInv, CompletedRunAnsweredEverything
      <4>2. \A i \in DOMAIN Messages : Messages[i] # "waiting"
        BY <4>1, MessageTable DEF Messages, InboxStates
      <4> QED BY <2>1, <3>2, <3>4, <4>2, PhaseTable DEF Mailbox!Next, Mailbox!Complete, Messages
    <3>5. CASE status' \in {"failed", "blocked"}
      BY <2>1, <3>2, <3>5, PhaseTable DEF Mailbox!Next, Mailbox!Stop, Messages
    <3> QED BY <3>3, <3>4, <3>5
  <2> QED BY <2>2, <2>3
<1> QED BY <1>1, <1>2, <1>3, <1>4, <1>5, MailStep DEF MailMove

\* The Run, with its Activations, attempts, pauses, crashes and restarts, implements its mailbox.
THEOREM Refinement == Spec => ImplementsMailbox
<1>1. Init => Mailbox!Init
  BY MailboxInit
<1>2. IndInv /\ IndInv' /\ [Next]_vars => [Mailbox!Next]_(Mailbox!mailbox)
  BY MailboxStep DEF Mailbox!mailbox, Messages
<1> QED BY <1>1, <1>2, Invariant, PTL DEF Spec, ImplementsMailbox, Mailbox!Spec
=============================================================================
