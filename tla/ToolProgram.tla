---------------------------- MODULE ToolProgram ----------------------------
(* tool.program: a child Run that carries a program of read tools instead   *)
(* of a model.  Its parent's task executes it: it starts the child's        *)
(* Activation, prepares each step's calls, settles their outcomes, ends the *)
(* child, and settles the parent's dispatch with what the child became.     *)
EXTENDS AgentTools, Sequences

CONSTANTS
  Steps,       \* the program: each step's kind, and its calls
  Uses,        \* the rights its calls and selections need
  Concurrency  \* how many calls of one map step run at a time

ASSUME StepsAssumption ==
  /\ Steps \in Seq([kind : {"call", "pure", "validate"}, calls : Nat])
  /\ Concurrency \in Nat \ {0} /\ Uses \subseteq Rights

CallStates == {"open", "succeeded", "failed", "blocked", "cancelled"}
NoProgram == [at |-> 0, calls |-> <<>>, state |-> "succeeded", told |-> "none"]
Programs == [at : 0..(Len(Steps) + 1), calls : Seq(CallStates), state : CallStates,
             told : {"none"} \cup TerminalStates]

programOf(r) == CHOOSE c \in runs[r].on : TRUE
Executing(r) == task[r] \in {"program", "stopped"} /\ Running

\* combineToolProgramStates: the worst of what the steps came to.
Severity == [succeeded |-> 0, blocked |-> 1, failed |-> 2, cancelled |-> 3]
Worst(states) == CHOOSE s \in states : \A t \in states : Severity[s] >= Severity[t]
States(calls) == {calls[i] : i \in DOMAIN calls}

\* terminalizeToolProgramChild
ChildBecomes == [succeeded |-> "completed", blocked |-> "blocked", failed |-> "failed", cancelled |-> "cancelled"]
terminalizeToolProgramChild(c, state) ==
  Write([runs EXCEPT ![c] = Terminalized(@, ChildBecomes[state])], {c})

-----------------------------------------------------------------------------
\* delegateToolProgramChildRunInTransaction: the tools and selections of the program, and the parent's policy.
delegateToolProgramChild(r, c) == delegateChildRun(runs, r, c, "program", Uses)

\* settleToolProgramBoundary: the child is delegated and the parent's dispatch stays open.
settleToolProgram(r) ==
  /\ Called(r) /\ assertNarrowing(r, Uses)
  /\ \E c \in Unused(Children) :
       /\ Write([delegateToolProgramChild(r, c) EXCEPT
                   ![r] = [After(@) EXCEPT !.open = "program", !.on = {c}]], {r})
       /\ programs' = [programs EXCEPT ![c] = NoProgram]
  /\ Goes(r, "coordinate") /\ unchangedByCalls

\* Mutant: the calls a cancelled child left open stay open.
leaveCalls(c) == programs[c].calls

\* settleCancelledToolProgramCalls
settleCancelledCalls(c) ==
  IF runs[c].status = "cancelled"
  THEN [i \in DOMAIN programs[c].calls |->
          IF programs[c].calls[i] = "open" THEN "cancelled" ELSE programs[c].calls[i]]
  ELSE programs[c].calls

\* toolProgramAggregateOutcome: a completed child must have run every step.
toolProgramAggregateOutcome(c) == runs[c].status
assertAggregate(c) == runs[c].status = "completed" => programs[c].at = Len(Steps) + 1

\* settleToolProgramParent
settleToolProgramParent(r, c) ==
  /\ assertAggregate(c)
  /\ Write([runs EXCEPT ![r].open = "none", ![r].on = {}], {r})
  /\ programs' = [programs EXCEPT ![c].told = toolProgramAggregateOutcome(c), ![c].calls = settleCancelledCalls(c)]
  /\ IF task[r] = "stopped" THEN AbortedReturns(r) ELSE Goes(r, "running")

\* executeToolProgramBoundary with startToolProgramChildActivation
ExecuteToolProgram(r) ==
  /\ Coordinating(r) /\ isDurablyRunnable(r) /\ runs[r].active /\ runs[r].open = "program"
  /\ LET c == programOf(r) IN
     IF Terminal(c) THEN settleToolProgramParent(r, c)
     ELSE IF runs[c].active THEN Goes(r, "program") /\ UNCHANGED <<runs, programs>>
     ELSE /\ Write([runs EXCEPT ![c] = StartActivation(@)], {c})
          /\ Goes(r, "program") /\ UNCHANGED programs
  /\ unchangedByTasks

\* evaluatePureToolProgramStep: filter, sort and take always succeed.
mayFail(step) == step.kind = "validate"

\* A validation that fails ends the program at its step.
failValidation(c) ==
  /\ terminalizeToolProgramChild(c, "failed")
  /\ programs' = [programs EXCEPT ![c].state = "failed"]

\* The program's step counter counts the steps that have begun; what the last one left is folded in.
stepState(c) == Worst({programs[c].state} \cup States(programs[c].calls))

\* prepareProgramRuntimeDispatch, once for every invocation of the step that begins.
prepareCalls(c, step, state) ==
  /\ programs' = [programs EXCEPT ![c].at = @ + 1, ![c].state = state, ![c].calls = [i \in 1..step.calls |-> "open"]]
  /\ Write(runs, {c})

\* advanceToolProgramChild: end the step whose calls are settled, then take the next step.
advanceStep(c) ==
  LET p == programs[c]
      now == stepState(c) IN
  IF "cancelled" \in States(p.calls)
  THEN terminalizeToolProgramChild(c, "cancelled") /\ UNCHANGED programs
  ELSE IF p.at >= Len(Steps)
  THEN /\ terminalizeToolProgramChild(c, now)
       /\ programs' = [programs EXCEPT ![c].at = Len(Steps) + 1, ![c].state = now]
  ELSE LET step == Steps[p.at + 1] IN
       \/ prepareCalls(c, step, now)
       \/ mayFail(step) /\ failValidation(c)

\* advanceToolProgramChild as the executor meets it: between two rounds of calls.
AdvanceToolProgramChild(r) ==
  /\ Executing(r)
  /\ LET c == programOf(r) IN
     /\ ~isRunActivationActive(c) \/ pendingCalls(c) = {}
     /\ IF ~isRunActivationActive(r) THEN Leaves(r) /\ UNCHANGED <<runs, programs>>
        ELSE IF Terminal(c) THEN settleToolProgramParent(r, c)
        ELSE IF runs[c].status # "running" THEN Throws(r) /\ UNCHANGED <<runs, programs>>
        ELSE advanceStep(c) /\ UNCHANGED <<task, sweep, host>>
  /\ unchangedByTasks

\* settleToolProgramChildCall: one worker brings back an outcome; workers take the calls in their order.
SettleToolProgramChildCall(r) ==
  /\ Executing(r)
  /\ LET c == programOf(r) IN
     /\ isRunActivationActive(c)
     /\ \E i \in pendingCalls(c), s \in {"succeeded", "failed", "blocked", "cancelled"} :
          /\ Cardinality({j \in pendingCalls(c) : j < i}) < Concurrency
          /\ programs' = [programs EXCEPT ![c].calls[i] = s]
  /\ UNCHANGED <<runs, task, sweep, host>> /\ unchangedByTasks

\* A tool throws: the worker's error leaves the task, the calls stay open.
ToolProgramThrows(r) ==
  /\ Executing(r) /\ isRunActivationActive(programOf(r)) /\ pendingCalls(programOf(r)) # {}
  /\ Throws(r) /\ UNCHANGED <<runs, programs>> /\ unchangedByTasks
=============================================================================
