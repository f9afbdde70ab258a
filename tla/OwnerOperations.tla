-------------------------- MODULE OwnerOperations --------------------------
(* The owners of long work put together: the Run's task that starts,        *)
(* continues and settles each call, the sweep that drains requested         *)
(* cancellations next to it, the local adapters, the content-addressed      *)
(* store, the provider, edits of what a call froze, and process exits.      *)
(* Every action is one resumption of one client, or one event around it.    *)
EXTENDS MediaDerivations, ResultAssessments, DeliveryOperations

-----------------------------------------------------------------------------
(* The calls: the harness writes the dispatch, and a Review Cut's attempt with it *)

Live(o) == run = "running" /\ dispatch[o] = "open"

Called(o, d) ==
  /\ run = "running" /\ dispatch[o] = "none"
  /\ dispatch' = [dispatch EXCEPT ![o] = d]
  /\ UNCHANGED <<kind, run, moved, cas, file, job, client, crashes>>

CallDerivation(o) == Derives(o) /\ Called(o, "open") /\ UNCHANGED <<row, granted>>
CallEvaluation(o) == Assesses(o) /\ Called(o, "open") /\ UNCHANGED <<row, granted>>
CallPreview(o) ==
  /\ kind[o] = "preview" /\ Called(o, "open")
  /\ row' = [row EXCEPT ![o] = registerOperationDispatch(o)] /\ UNCHANGED granted

CallExport(o) == kind[o] = "export" /\ Called(o, "asked") /\ UNCHANGED <<row, granted>>

unchangedByHost == UNCHANGED <<kind, row, run, moved, cas, file, job, client, crashes>>

\* The user picks a destination, which the gateway keeps in memory for a while, then approves or denies.
PickDestination(o) ==
  dispatch[o] = "asked" /\ o \notin granted /\ granted' = granted \cup {o} /\ unchangedByHost /\ UNCHANGED dispatch
GrantExpires(o) ==
  "expire" \in Events /\ o \in granted /\ granted' = granted \ {o} /\ unchangedByHost /\ UNCHANGED dispatch
AnswerExport(o) ==
  /\ run = "running" /\ dispatch[o] = "asked"
  /\ \/ o \in granted /\ dispatch' = [dispatch EXCEPT ![o] = "open"]
     \/ dispatch' = [dispatch EXCEPT ![o] = "settled"]
  /\ unchangedByHost /\ UNCHANGED granted

-----------------------------------------------------------------------------
(* The Run's task *)

Idle(c) == client[c].pc = "off"
unchangedByClients == UNCHANGED <<kind, dispatch, run, moved, cas, file, granted, crashes>>

\* Mutant: a call is started, and not continued when it is taken up again.
executeMediaDeriveOnce(o) == row[o] = Absent /\ resolveSource(o) /\ Goes("task", At("starting", o)) /\ UNCHANGED job

\* Only this row is written; the assessment starts with a quote, the derivation with a look at its source.
executeMediaDeriveBoundary(o) ==
  IF row[o] = Absent
  THEN resolveSource(o) /\ Goes("task", At("starting", o)) /\ UNCHANGED job
  ELSE Goes("task", At("continuing", o)) /\ UNCHANGED job
executeEvaluationRunBoundary(o) ==
  IF row[o] = Absent
  THEN resolveSubjects(o) /\ Goes("task", At("starting", o)) /\ UNCHANGED job
  ELSE Goes("task", At("continuing", o)) /\ UNCHANGED job
executeDeliveryPreviewBoundary(o) == Goes("task", At("continuing", o)) /\ UNCHANGED job

\* prepareExport: the attempt is prepared by the first execution after the confirmation.
executeDeliveryExportBoundary(o) ==
  IF row[o] = Absent THEN Write("task", o, registerOperationDispatch(o), TRUE, At("continuing", o)) /\ UNCHANGED job
  ELSE Goes("task", At("continuing", o)) /\ UNCHANGED job

Executes(o) ==
  CASE Derives(o) -> executeMediaDeriveBoundary(o)
    [] Assesses(o) -> executeEvaluationRunBoundary(o)
    [] kind[o] = "preview" -> executeDeliveryPreviewBoundary(o)
    [] OTHER -> executeDeliveryExportBoundary(o)
Execute(o) == Idle("task") /\ Live(o) /\ Executes(o) /\ unchangedByClients

\* Nothing here asks whether the Run still runs: only the boundary around it does.
Prepared(c, o) ==
  IF o \in moved THEN Throws(c, o)
  ELSE Write(c, o, registerOperationDispatch(o), TRUE,
             IF run = "running" THEN [Off(o) EXCEPT !.pc = "continuing"] ELSE Off(o))
PrepareDerivation(c) ==
  LET o == client[c].op IN
  client[c].pc = "starting" /\ Derives(o) /\ Prepared(c, o) /\ unchangedByClients /\ UNCHANGED job
PrepareAssessment(c) ==
  LET o == client[c].op IN
  client[c].pc = "starting" /\ Assesses(o) /\ Prepared(c, o) /\ unchangedByClients /\ UNCHANGED job

Continue(c) ==
  LET o == client[c].op IN
  /\ client[c].pc = "continuing" /\ unchangedByClients
  /\ IF run = "ended" THEN Throws(c, o) /\ UNCHANGED job
     ELSE CASE Derives(o) -> continueDerivation(c, o)
            [] Assesses(o) -> IF Terminal(row[o]) THEN Goes(c, Returned(c, o, row[o])) /\ UNCHANGED job
                              ELSE continueAssessment(c, o)
            [] kind[o] = "preview" -> renderReview(c, o)
            [] OTHER -> exportDelivery(c, o)

\* The result in hand is what the owner shows at this moment, and a derivation is really over.
assertMediaDeriveSettlementState(o) == IF Provided(o) THEN row[o].state # "running" ELSE Terminal(row[o])
settleMediaDeriveBoundary(c, o) == Derives(o) /\ client[c].fresh /\ assertMediaDeriveSettlementState(o)
settleEvaluationRunBoundary(c, o) == Assesses(o) /\ client[c].fresh
settleDeliveryPreviewBoundary(c, o) == kind[o] = "preview" /\ client[c].fresh
settleDeliveryExportBoundary(c, o) == kind[o] = "export" /\ client[c].fresh

Settle(c) ==
  LET o == client[c].op
      settles == \/ settleMediaDeriveBoundary(c, o) \/ settleEvaluationRunBoundary(c, o)
                 \/ settleDeliveryPreviewBoundary(c, o) \/ settleDeliveryExportBoundary(c, o) IN
  /\ client[c].pc = "settling" /\ Throws(c, o)
  /\ dispatch' = [dispatch EXCEPT ![o] = IF Live(o) /\ settles THEN "settled" ELSE @]
  /\ UNCHANGED <<kind, run, moved, cas, file, job, granted, crashes>>

-----------------------------------------------------------------------------
(* The sweep *)

\* listCancellationRequestedOperations, then drainRequestedOperationCancellation of one of them.
Requested(o) == row[o].cancel /\ ~Terminal(row[o])
Sweep(o) ==
  /\ Idle("sweep") /\ Requested(o) /\ unchangedByClients
  /\ \/ Derives(o) /\ continueDerivation("sweep", o)
     \/ Assesses(o) /\ acknowledgeAssessment("sweep", o)
     \/ Delivers(o) /\ acknowledgeDelivery("sweep", o)

-----------------------------------------------------------------------------
(* Resumptions of either client *)

Verified(c) ==
  LET o == client[c].op IN
  /\ client[c].pc = "verifying" /\ unchangedByClients
  /\ IF Provided(o) THEN submitTranscription(c, o) ELSE deriveLocal(c, o)

Resolved(c) == client[c].pc = "resolving" /\ resolveGrant(c, client[c].op) /\ unchangedByClients

Worked(c) ==
  LET o == client[c].op IN
  /\ client[c].pc = "working" /\ unchangedByClients
  /\ IF Delivers(o) THEN rendered(c, o) ELSE derivedLocal(c, o)

\* Mutant: the outputs are published before they are stored.
PublishUnstored(c) ==
  LET o == client[c].op IN
  /\ client[c].pc = "storing" /\ UNCHANGED <<kind, dispatch, run, moved, file, job, granted, crashes>>
  /\ Goes(c, [client[c] EXCEPT !.pc = "stored"]) /\ UNCHANGED cas

\* persistOutputBlobs and the first half of delivery's publishOutput: putVerified, then verify.
PutBlob(c) ==
  LET o == client[c].op IN
  /\ client[c].pc = "storing" /\ UNCHANGED <<kind, dispatch, run, moved, file, job, granted, crashes>>
  /\ \/ cas' = cas \cup {o} /\ Goes(c, [client[c] EXCEPT !.pc = "stored"])
     \/ "disk" \in Events /\ Throws(c, o) /\ UNCHANGED cas

Publish(c) ==
  LET o == client[c].op IN
  /\ client[c].pc = "stored" /\ unchangedByClients
  /\ IF Delivers(o) THEN Finish(c, o, row[o], publishOutput(row[o]), FALSE) /\ UNCHANGED job
     ELSE IF Provided(o) THEN Finish(c, o, row[o], publishOutputs(o, row[o]), FALSE) /\ UNCHANGED job
     ELSE publishLocal(c, o)

Stopped(c) ==
  LET o == client[c].op IN
  /\ client[c].pc = "stopping" /\ unchangedByClients /\ UNCHANGED job
  /\ Finish(c, o, row[o], IF Delivers(o) THEN acknowledgeStopped(row[o])
                       ELSE finishDerivation(o, row[o], "cancelled", FALSE, FALSE, FALSE), FALSE)

HasReceipt(answer) == answer \in {"submitted"} \cup Ended

Answered(c) ==
  LET o == client[c].op
      a == client[c].answer
      receipt == HasReceipt(a) IN
  /\ client[c].pc \in Asking /\ a # "none" /\ unchangedByClients
  /\ \/ Derives(o) /\ client[c].pc = "submitting" /\ submittedTranscription(c, o, a, receipt)
     \/ Derives(o) /\ client[c].pc # "submitting" /\ processDerivationState(c, o, a, receipt)
     \/ Assesses(o) /\ client[c].pc = "submitting" /\ submittedAssessment(c, o, a, receipt)
     \/ Assesses(o) /\ client[c].pc = "reconciling" /\ reconciledAssessment(c, o, a, receipt)
     \/ Assesses(o) /\ client[c].pc = "cancelling" /\ cancelledAssessment(c, o, a, receipt)

-----------------------------------------------------------------------------
(* The provider.  Its answers are true when they are given. *)

unchangedByProvider == UNCHANGED <<kind, row, dispatch, run, moved, cas, file, granted, crashes>>
Truth(state) == CASE state = "none" -> "not_submitted" [] state = "sent" -> "unknown"
                  [] state = "accepted" -> "submitted" [] OTHER -> state

Reply(c) ==
  LET o == client[c].op
      state == IF client[c].pc = "cancelling" /\ job[o] = "accepted" THEN "cancelled" ELSE job[o] IN
  /\ client[c].pc \in Asking /\ client[c].answer = "none" /\ unchangedByProvider
  /\ job' = [job EXCEPT ![o] = state]
  /\ client' = [client EXCEPT ![c].answer = Truth(state)]
Vague(c) ==
  /\ "vague" \in Events /\ client[c].pc \in Asking /\ client[c].answer = "none"
  /\ client' = [client EXCEPT ![c].answer = "lost"] /\ unchangedByProvider /\ UNCHANGED job

Provide(o) ==
  /\ Provided(o) /\ unchangedByProvider /\ UNCHANGED client
  /\ \/ job[o] = "sent" /\ job' = [job EXCEPT ![o] = "accepted"]
     \/ job[o] = "sent" /\ "loss" \in Events /\ job' = [job EXCEPT ![o] = "none"]
     \/ job[o] = "accepted" /\ \E end \in {"succeeded", "failed"} : job' = [job EXCEPT ![o] = end]

-----------------------------------------------------------------------------
(* Around them *)

Work(o) ==
  /\ ~Provided(o) /\ (DeriveFiles(o) \/ RenderCut(o) \/ BeginWrite(o) \/ EndWrite(o))
  /\ UNCHANGED <<kind, row, dispatch, run, moved, cas, granted, client, crashes>>

Edit(o) ==
  /\ "edit" \in Events /\ o \notin moved /\ moved' = moved \cup {o}
  /\ UNCHANGED <<kind, row, dispatch, run, cas, file, job, granted, client, crashes>>

\* operation.cancel, which the user may also ask for through the host.
CancelOperation(o) ==
  /\ "cancel" \in Events /\ run = "running" /\ Cancellable(o) /\ requestOperationOwnerCancellation({o})
  /\ UNCHANGED <<kind, dispatch, run, moved, cas, file, job, granted, crashes>>

\* The Run is cancelled: bound attempts are asked to stop, and the task's signal is aborted.
CancelRun ==
  /\ run = "running" /\ run' = "ended"
  /\ requestOperationOwnerCancellation({o \in Operations : Cancellable(o)})
  /\ job' = [o \in Operations |-> IF client["task"].pc = "working" /\ client["task"].op = o THEN Aborted(o) ELSE job[o]]
  /\ UNCHANGED <<kind, dispatch, moved, cas, file, granted, crashes>>

\* Rows, files and the provider's work outlive the process; children, grants and clients do not.
Crash ==
  /\ crashes < MaxCrashes /\ crashes' = crashes + 1
  /\ client' = [c \in Clients |-> Off(client[c].op)]
  /\ job' = [o \in Operations |-> IF Provided(o) THEN job[o] ELSE "none"]
  /\ granted' = {}
  /\ UNCHANGED <<kind, row, dispatch, run, moved, cas, file>>

Next ==
  \/ \E o \in Operations : \/ CallDerivation(o) \/ CallEvaluation(o) \/ CallPreview(o) \/ CallExport(o)
                           \/ PickDestination(o) \/ GrantExpires(o) \/ AnswerExport(o) \/ Execute(o) \/ Sweep(o) \/ Provide(o) \/ Work(o)
                           \/ Edit(o) \/ CancelOperation(o)
  \/ \E c \in Clients : \/ PrepareDerivation(c) \/ PrepareAssessment(c) \/ Continue(c) \/ Settle(c) \/ Verified(c) \/ Resolved(c)
                        \/ Worked(c) \/ PutBlob(c) \/ Publish(c) \/ Stopped(c) \/ Answered(c)
                        \/ Reply(c) \/ Vague(c)
  \/ CancelRun \/ Crash

Spec == Init /\ [][Next]_vars

-----------------------------------------------------------------------------
(* Properties *)

\* What an ended attempt promises is really there: its output in the store (persistOutputBlobs and putVerified
\* before the transaction that publishes), and a whole film at the destination of an export.
SucceededOutputsExist ==
  \A o \in Operations : row[o].state = "succeeded" =>
    /\ ~Assesses(o) => o \in cas
    /\ kind[o] = "export" => file[o] = "complete"

\* A provider that took the work up is paid for or may still be: its reservation is never released, and the
\* attempt never ends as failed or cancelled behind the back of work under way or done.
PaidWorkIsAccounted ==
  \A o \in Operations : Provided(o) =>
    /\ job[o] \in {"accepted"} \cup Ended => row[o].cost \in {"reserved", "charged"}
    /\ row[o].state \in {"failed", "cancelled"} => job[o] \notin {"sent", "accepted", "succeeded"}

\* LocalCancellationRace: work the program does itself never succeeds once a cancellation of it is recorded,
\* however far it had come between two looks at the row.
LocalCancellationWins ==
  [][\A o \in Operations : kind[o] \in {"derive", "check"} /\ row[o].cancel /\ ~Terminal(row[o])
       => row'[o].state # "succeeded"]_vars
=============================================================================
