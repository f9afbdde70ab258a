----------------------------- MODULE AgentTools -----------------------------
(* One pass of a Run's coordination, and the model answers that act on the  *)
(* Runs below it: agent.spawn, agent.send, agent.wait, agent.result and     *)
(* agent.cancel, next to the answers that end the Run.                      *)
EXTENDS RunTree

-----------------------------------------------------------------------------
(* coordinateRun, up to its next await *)

Coordinating(r) == task[r] = "coordinate" /\ Running

\* Deferred, idle, or another state machine must move first.
Defer(r) ==
  /\ Coordinating(r)
  /\ \/ ~isDurablyRunnable(r)
     \/ isDurablyRunnable(r) /\ runs[r].active /\ recoveryRequired(r)
     \/ isDurablyRunnable(r) /\ ~runs[r].active /\ runs[r].inbox = 0
  /\ Leaves(r) /\ UNCHANGED <<runs, programs>> /\ unchangedByTasks

\* terminalizeModelFailure: refused, again and again, while a Run below is not ended.
Fail(r) ==
  /\ Coordinating(r) /\ isDurablyRunnable(r) /\ runs[r].open = "failed"
  /\ IF NoLiveBelow(runs, r)
     THEN Write([runs EXCEPT ![r] = [Terminalized(@, "failed") EXCEPT !.open = "none"]], {r}) /\ Leaves(r)
     ELSE Throws(r) /\ UNCHANGED runs
  /\ UNCHANGED programs /\ unchangedByTasks

\* materializedToolsFor needs every control and mutation tool in the frozen catalog: the Activation has
\* started, and the task leaves with an error.  A program's child has no model context at all.
CanAsk(r) == runs[r].kind # "program" /\ Essential \subseteq runs[r].grant

StartActivation(row) == [row EXCEPT !.status = "running", !.active = TRUE, !.inbox = @ - 1]

\* runModelAttempt: preparing a request moves the Run, and the request is frozen at the new revision.
Attempt(rs, r) == runs' = [Moved(rs, {r}) EXCEPT ![r].open = "attempt", ![r].fresh = TRUE]

Begin(r) ==
  /\ Coordinating(r) /\ isDurablyRunnable(r) /\ ~runs[r].active /\ runs[r].inbox > 0
  /\ runs[r].kind # "program"
  /\ IF CanAsk(r)
     THEN Attempt([runs EXCEPT ![r] = StartActivation(@)], r) /\ Goes(r, "thinking")
     ELSE Write([runs EXCEPT ![r] = StartActivation(@)], {r}) /\ Throws(r)
  /\ UNCHANGED programs /\ unchangedByTasks

\* A sweep may find a program's child before its parent has started it: its message is delivered, if it
\* was not, and stays with it.
RefuseProgram(r) ==
  /\ Coordinating(r) /\ isDurablyRunnable(r) /\ ~runs[r].active /\ runs[r].inbox > 0
  /\ runs[r].kind = "program"
  /\ \E moving \in {{}, {r}} : Write(runs, moving)
  /\ Throws(r) /\ UNCHANGED programs /\ unchangedByTasks

\* An Activation with nothing open is taken up again.
Resumed(r) ==
  /\ Coordinating(r) /\ isDurablyRunnable(r) /\ runs[r].active /\ runs[r].open = "none" /\ ~recoveryRequired(r)
  /\ IF CanAsk(r) THEN Goes(r, "running") ELSE Throws(r)
  /\ UNCHANGED <<runs, programs>> /\ unchangedByTasks

\* runActivation, between two attempts: only the Run and its Activation are looked at again, not the
\* Runs above.  A newer message takes the Activation's place.
Continue(r) ==
  /\ task[r] = "running" /\ Running
  /\ IF ~isRunActivationActive(r) THEN Goes(r, "coordinate") /\ UNCHANGED runs
     ELSE IF runs[r].inbox > 0
     THEN Write([runs EXCEPT ![r].active = FALSE], {r}) /\ Goes(r, "coordinate")
     ELSE Attempt(runs, r) /\ Goes(r, "thinking")
  /\ UNCHANGED programs /\ unchangedByTasks

ReenterWait(r) ==
  /\ Coordinating(r) /\ isDurablyRunnable(r) /\ runs[r].active /\ runs[r].open = "wait"
  /\ Goes(r, "waiting") /\ UNCHANGED <<runs, programs>> /\ unchangedByTasks

-----------------------------------------------------------------------------
(* The model answers.  assertAtomicModelToolPreparationSuffix accepts an    *)
(* answer only if nothing but its own preparation has moved the Run.        *)

Thinking(r) == task[r] = "thinking" /\ Running

Settleable(r) == Thinking(r) /\ isRunActivationActive(r) /\ runs[r].open = "attempt" /\ runs[r].fresh

\* The Run ended or was stopped while the model was thinking.
Discard(r) ==
  /\ Thinking(r) /\ ~isRunActivationActive(r)
  /\ Leaves(r) /\ UNCHANGED <<runs, programs>> /\ unchangedByTasks

\* The answer cannot be settled (it is stale, refused, or the provider failed to give one): it stays open.
Throw(r) ==
  /\ Thinking(r) /\ isRunActivationActive(r)
  /\ Throws(r) /\ UNCHANGED <<runs, programs>> /\ unchangedByTasks

ModelFails(r) ==
  /\ Settleable(r)
  /\ Write([runs EXCEPT ![r].open = "failed", ![r].fresh = FALSE], {r})
  /\ Goes(r, "coordinate") /\ UNCHANGED programs /\ unchangedByTasks

\* Mutant: the Runs below are not looked at.
mayEndAnyway(r) == TRUE

mayEnd(r) == NoLiveBelow(runs, r)

\* A final answer ends the Run, or gives way to a message that came with it.
FinalAnswer(r) ==
  /\ Thinking(r) /\ isRunActivationActive(r) /\ runs[r].open = "attempt"
  /\ \/ runs[r].inbox > 0 /\ Write([runs EXCEPT ![r].open = "none", ![r].active = FALSE], {r})
     \/ /\ runs[r].inbox = 0 /\ runs[r].fresh /\ mayEnd(r)
        /\ \E s \in {"completed", "blocked"} : Write([runs EXCEPT ![r] = Terminalized(@, s)], {r})
  /\ Goes(r, "coordinate") /\ UNCHANGED programs /\ unchangedByTasks

Called(r) == Settleable(r) /\ spent.calls < MaxCalls /\ spent' = [spent EXCEPT !.calls = @ + 1]
After(row) == [row EXCEPT !.open = "none", !.fresh = FALSE]

\* settleAgentSpawnBoundary.  No sweep is asked for: the child waits for somebody else's.
settleAgentSpawn(r) ==
  /\ Called(r)
  /\ \E c \in Unused(Children), g \in SUBSET Rights :
       /\ assertNarrowing(r, g)
       /\ Write(delegateChildRun([runs EXCEPT ![r] = After(@)], r, c, "agent", g), {r})
  /\ Goes(r, "running") /\ UNCHANGED programs /\ unchangedByCalls

\* Mutant: the context of the receiver counts, not the sender's.
sendAnyContext(r) == Topics

\* agentSendSelectedContext: taken from the sender's own manifest.
agentSendSelectedContext(r) == runs[r].grant \cap Topics

\* insertRunInboxMessage: one more message, and with it what the sender selected.
Sent(row, g) == [row EXCEPT !.inbox = @ + 1, !.told = @ \cup g]

\* settleAgentSendBoundary
settleAgentSend(r) ==
  /\ Called(r)
  /\ \E c \in Under(r), g \in SUBSET Topics :
       /\ Live(c) /\ runs[c].kind # "program" /\ runs[c].inbox < MaxInbox
       /\ g \subseteq agentSendSelectedContext(r)
       /\ Write([runs EXCEPT ![r] = After(@), ![c] = Sent(@, g)], {r, c})
  /\ Goes(r, "running") /\ UNCHANGED programs /\ unchangedByCalls

\* terminalChildRunSummary: there is one of every Run that has ended, and of no other.
terminalChildRunSummary(c) == Terminal(c)

\* settleAgentResultBoundary
settleAgentResult(r) ==
  /\ Called(r) /\ \E c \in Under(r) : terminalChildRunSummary(c)
  /\ Write([runs EXCEPT ![r] = After(@)], {r})
  /\ Goes(r, "running") /\ UNCHANGED programs /\ unchangedByCalls

agentCancelTarget(c) == Live(c) /\ listRunControlSubtree(c)

\* settleAgentCancelBoundary: the tasks of the cancelled Runs find out by themselves.
settleAgentCancel(r) ==
  /\ Called(r)
  /\ \E c \in Under(r) :
       /\ agentCancelTarget(c)
       /\ Write([cancelSubtree(c) EXCEPT ![r] = After(@)], {r} \cup Reached(c))
  /\ Goes(r, "running") /\ UNCHANGED programs /\ unchangedByCalls

-----------------------------------------------------------------------------
(* agent.wait *)

\* settleAgentWaitStartBoundary: the watermark is taken now, whatever happened since the Run last looked.
settleAgentWaitStart(r) ==
  /\ Called(r)
  /\ \E S \in SUBSET Under(r) \ {{}}, u \in {"any", "all", "change"} :
       Write([runs EXCEPT ![r] = [After(@) EXCEPT !.open = "wait", !.on = S, !.until = u, !.moved = FALSE]], {r})
  /\ Goes(r, "waiting") /\ UNCHANGED programs /\ unchangedByCalls

\* agentWaitConditionMet
agentWaitConditionMet(r) ==
  CASE runs[r].until = "any"    -> \E c \in runs[r].on : Terminal(c)
    [] runs[r].until = "all"    -> \A c \in runs[r].on : Terminal(c)
    [] runs[r].until = "change" -> runs[r].moved

Waited(row) == [row EXCEPT !.open = "none", !.on = {}, !.until = "none", !.moved = FALSE]

\* Mutant: a wait is only ever settled by its condition.
waitsForever(r) == FALSE

\* The clock is not kept: a deadline may have passed by any poll.
agentWaitDeadlineReached(r) == TRUE

\* settleAgentWaitBoundary
settleAgentWait(r) ==
  /\ isRunActivationActive(r)
  /\ Write([runs EXCEPT ![r] = Waited(@)], {r}) /\ Goes(r, "running")

\* executeAgentWaitBoundary: one poll.
PollWait(r) ==
  /\ task[r] = "waiting" /\ Running
  /\ IF ~isRunActivationActive(r) THEN Leaves(r) /\ UNCHANGED runs
     ELSE agentWaitConditionMet(r) /\ settleAgentWait(r)
  /\ UNCHANGED programs /\ unchangedByTasks

WaitTimesOut(r) ==
  /\ task[r] = "waiting" /\ Running
  /\ ~agentWaitConditionMet(r) /\ agentWaitDeadlineReached(r) /\ settleAgentWait(r)
  /\ UNCHANGED programs /\ unchangedByTasks
=============================================================================
