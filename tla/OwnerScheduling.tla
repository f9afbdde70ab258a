-------------------------- MODULE OwnerScheduling --------------------------
(* Who takes an open call up again.  The Run's coordination task executes   *)
(* its calls; an executor or a settlement that throws ends the task, and a  *)
(* sweep starts another one only if the notification generation has moved   *)
(* since: there is no timer.                                                *)
EXTENDS OwnerOperations

VARIABLE coordination  \* "none"; "going"; "again": notified since the task was started

scheduled == <<vars, coordination>>

ScheduledInit == Init /\ coordination = "going"

\* notifyDurableRunWork and the sweep it asks for: a task that goes is not started twice, but remembered.
Notified == coordination' = IF coordination = "none" THEN "going" ELSE "again"

\* A task that ends, with a throw or to wait for the user, is started again for a notification that came meanwhile.
TaskEnds == coordination' = IF coordination = "again" THEN "going" ELSE "none"

Going == coordination # "none"

-----------------------------------------------------------------------------
(* The task *)

Makes(o) == Going /\ (CallDerivation(o) \/ CallEvaluation(o) \/ CallPreview(o)) /\ UNCHANGED coordination
AsksFor(o) == Going /\ CallExport(o) /\ TaskEnds
TakesUp(o) == Going /\ Execute(o) /\ UNCHANGED coordination

\* A resumption that leaves the call open with nobody at it has thrown.
Threw(c) == c = "task" /\ client[c].pc # "off" /\ client'[c].pc = "off" /\ run = "running" /\ dispatch'[client[c].op] = "open"

AfterStep(c) == IF Threw(c) THEN TaskEnds ELSE UNCHANGED coordination

GoesOn(c) == \/ PrepareDerivation(c) \/ PrepareAssessment(c) \/ Continue(c) \/ Settle(c) \/ Verified(c) \/ Resolved(c)
             \/ Worked(c) \/ Publish(c) \/ Stopped(c) \/ Answered(c)
ClientStep(c) == (GoesOn(c) \/ PutBlob(c)) /\ AfterStep(c)

-----------------------------------------------------------------------------
(* Around it *)

\* confirmation.respond, run.control and the user's operation.cancel notify when they are done.
Decides == (CancelRun \/ \E o \in Operations : AnswerExport(o) \/ CancelOperation(o)) /\ Notified

\* So does any command that may give a Run work, whichever Chat it is for: message.send, run.sendFollowup, ...
OtherCommand == Notified /\ UNCHANGED vars

\* The next start re-enters what is open, and notifies once it is up.
Restart == Crash /\ coordination' = "going"

\* operation.cancel as a tool of a Run notifies nobody.
Beside == /\ \/ \E o \in Operations : \/ PickDestination(o) \/ GrantExpires(o) \/ CancelOperation(o)
                                     \/ Sweep(o) \/ Provide(o) \/ Work(o) \/ Edit(o)
             \/ \E c \in Clients : Reply(c) \/ Vague(c)
          /\ UNCHANGED coordination

ScheduledNext ==
  \/ \E o \in Operations : Makes(o) \/ AsksFor(o) \/ TakesUp(o)
  \/ \E c \in Clients : ClientStep(c)
  \/ Decides \/ OtherCommand \/ Restart \/ Beside

\* A client that is not between two awaits goes on; the provider answers, and works; a local child ends.
\* The sweep is run again after a failure (a notification or a restart). Nobody owes a notification.
Fairness ==
  /\ \A o \in Operations : /\ WF_scheduled(Sweep(o) /\ UNCHANGED coordination)
                           /\ WF_scheduled((Provide(o) \/ Work(o)) /\ UNCHANGED coordination)
                           /\ WF_scheduled(TakesUp(o))
  /\ \A c \in Clients :
       /\ WF_scheduled(GoesOn(c) /\ AfterStep(c))
       /\ SF_scheduled(Reply(c) /\ UNCHANGED coordination)
       /\ SF_scheduled(PutBlob(c) /\ client'[c].pc = "stored" /\ UNCHANGED coordination)
ScheduledSpec == ScheduledInit /\ [][ScheduledNext]_scheduled /\ Fairness

-----------------------------------------------------------------------------
(* Properties *)

\* A requested cancellation ends the attempt; the exception is provided work that can no longer be
\* published because what it was made from moved on.
RequestedCancellationsEnd ==
  \A o \in Operations : Requested(o) ~> (Terminal(row[o]) \/ (Provided(o) /\ o \in moved))

\* The task threw over an open call: until somebody notifies, nothing in the program comes back to it.
Stranded(o) == Live(o) /\ ~Going

\* While the Run runs, an open call is answered in the end, however often the store fails, the provider is vague,
\* the process exits or a settlement meets a row that moved, unless its source or subjects moved on, or its task
\* threw and stays away for good, because no command and no start follows (startRunCoordination, drainRunnableRuns).
OpenCallsReturn ==
  \A o \in Operations : Live(o) ~> (dispatch[o] = "settled" \/ run = "ended" \/ o \in moved \/ []Stranded(o))
=============================================================================
