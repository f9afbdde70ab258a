----------------------------- MODULE RunForest -----------------------------
(* The Runs of one Chat put together: messages that start a root, the tree  *)
(* the agent tools and programs grow below it, user control, process exits, *)
(* and the start of the application, which closes what was interrupted and  *)
(* gives it a retry.                                                        *)
EXTENDS ToolProgram

-----------------------------------------------------------------------------
(* Root acceptance *)

\* findActiveRootRun: one live root in a Chat.
assertNoActiveRootRun == \A r \in Roots : ~Live(r)

\* validateProvider, assertSelectedContext, resolveProjectMedia and the states of Chat and Project.
chatTakesRuns == usable

\* acceptRootRunInTransaction, by message.send: the settings give the rights.
acceptRootRun ==
  /\ UserTurn /\ chatTakesRuns /\ assertNoActiveRootRun
  /\ \E r \in Unused(Roots) : Write([runs EXCEPT ![r] = Accepted("root", "none", {}, Rights)], {})
  /\ Notified /\ UNCHANGED usable

\* The Chat or Project is archived, the provider is disconnected, or a selected entity moves on.
Retract ==
  /\ UserTurn /\ usable /\ usable' = FALSE
  /\ UNCHANGED <<runs, task, sweep, attempted>>

-----------------------------------------------------------------------------
(* Process exits and the start of the application *)

Crash ==
  /\ Running \/ host = "hung"
  /\ spent.crashes < MaxCrashes
  /\ spent' = [spent EXCEPT !.crashes = @ + 1]
  /\ host' = "down" /\ task' = [r \in Runs |-> "off"] /\ sweep' = FALSE /\ attempted' = {}
  /\ todo' = [r \in Runs |-> "done"]
  /\ UNCHANGED <<runs, programs, usable>>

\* An application that failed to start is started again.
Restart ==
  /\ host = "failed" /\ host' = "down"
  /\ UNCHANGED <<runs, programs, task, sweep, attempted, todo, usable, spent>>

\* recoverAndReconcile walks over the Runs that have not ended.
Boot ==
  /\ host = "down" /\ host' = "booting"
  /\ todo' = [r \in Runs |-> IF Live(r) THEN "reconcile" ELSE "done"]
  /\ UNCHANGED <<runs, programs, task, sweep, attempted, usable, spent>>

Booting == host = "booting" /\ \A r \in Runs : task[r] = "off"
Next1(r, s) == todo' = [todo EXCEPT ![r] = s]
unchangedByBoot == UNCHANGED <<programs, sweep, attempted, usable, spent>>

Interrupted(r) ==
  /\ runs[r].status = "running" /\ isRunSchedulingAllowed(r) /\ runs[r].active
  /\ runs[r].open # "none" \/ recoveryRequired(r)

\* reconcileInterruptedRun: what can be re-entered is coordinated once and awaited; the rest is closed.
reconcileInterruptedRun(r) ==
  /\ Booting /\ \A q \in Runs : todo[q] \in {"reconcile", "done"}
  /\ todo[r] = "reconcile"
  /\ IF ~Interrupted(r) THEN Next1(r, "done") /\ UNCHANGED <<task, host>>
     ELSE Next1(r, "recover") /\ UNCHANGED host
          /\ IF recoveryRequired(r) THEN UNCHANGED task ELSE Goto(r, "coordinate")
  /\ UNCHANGED runs /\ unchangedByBoot

\* closeInterruptedActivation: only a root; what lives below it is not looked at.
closeInterruptedActivation(r) ==
  /\ Write([runs EXCEPT ![r] = [Terminalized(@, "blocked") EXCEPT !.interrupted = TRUE, !.open = "none"]], {r})
  /\ Next1(r, "retry") /\ UNCHANGED host

\* recoverRun, its first transaction: a child is no recovery root, and the application does not start.
recoverRun(r) ==
  /\ Booting /\ todo[r] = "recover"
  /\ IF ~Interrupted(r) THEN Next1(r, "done") /\ UNCHANGED <<runs, host>>
     ELSE IF runs[r].parent = "none" THEN closeInterruptedActivation(r)
     ELSE host' = "failed" /\ UNCHANGED <<runs, todo>>
  /\ UNCHANGED task /\ unchangedByBoot

\* assertExpectedRecoverySource: the Run that was closed, as it was closed.
recoverySource(r) == runs[r].status = "blocked" /\ runs[r].interrupted

\* acceptCrashRetryRootRun, its second: a new root with the same context and the current settings.
acceptCrashRetryRootRun(r) ==
  /\ Booting /\ todo[r] = "retry"
  /\ IF chatTakesRuns /\ recoverySource(r) /\ assertNoActiveRootRun
     THEN /\ \E q \in Unused(Roots) :
               Write([runs EXCEPT ![q] = [Accepted("root", "none", {}, runs[r].grant) EXCEPT !.retryOf = r]], {})
          /\ Next1(r, "done") /\ UNCHANGED host
     ELSE host' = "failed" /\ UNCHANGED <<runs, todo>>
  /\ UNCHANGED task /\ unchangedByBoot

\* The window opens, and the composition root notifies the controller once.
Started ==
  /\ Booting /\ \A r \in Runs : todo[r] = "done"
  /\ host' = "up" /\ sweep' = TRUE /\ attempted' = {}
  /\ UNCHANGED <<runs, programs, task, todo, usable, spent>>

-----------------------------------------------------------------------------
Init ==
  /\ \E given \in {Rights, Rights \ Topics} :
       runs = [r \in Runs |-> IF r = CHOOSE x \in Roots : TRUE
                                 THEN Accepted("root", "none", {}, given) ELSE NoRun]
  /\ programs = [c \in Children |-> NoProgram]
  /\ task = [r \in Runs |-> "off"] /\ sweep = TRUE /\ attempted = {}
  /\ host = "up" /\ todo = [r \in Runs |-> "done"] /\ usable = TRUE
  /\ spent = [user |-> 0, calls |-> 0, crashes |-> 0]

Coordinate(r) ==
  \/ Defer(r) \/ Fail(r) \/ Begin(r) \/ RefuseProgram(r) \/ Resumed(r) \/ Continue(r) \/ ReenterWait(r)
  \/ ExecuteToolProgram(r)
Answer(r) ==
  \/ FinalAnswer(r) \/ ModelFails(r) \/ settleAgentSpawn(r) \/ settleAgentSend(r) \/ settleAgentResult(r)
  \/ settleAgentCancel(r) \/ settleAgentWaitStart(r) \/ settleToolProgram(r)
Program(r) == SettleToolProgramChildCall(r) \/ AdvanceToolProgramChild(r)

User == acceptRootRun \/ Retract \/ \E r \in Runs : enqueueFollowup(r) \/ Pause(r) \/ Resume(r) \/ Cancel(r)
Process ==
  \/ Crash \/ Restart \/ Boot \/ Started
  \/ \E r \in Runs : reconcileInterruptedRun(r) \/ recoverRun(r) \/ acceptCrashRetryRootRun(r)

Next ==
  \/ Sweep \/ User \/ Process
  \/ \E r \in Runs :
       \/ Coordinate(r) \/ Answer(r) \/ Discard(r) \/ Throw(r)
       \/ PollWait(r) \/ WaitTimesOut(r)
       \/ Program(r) \/ ToolProgramThrows(r)

Spec == Init /\ [][Next]_vars

\* The event loop runs what is ready, timers fire, and a read tool returns.
Fairness ==
  /\ WF_vars(Sweep)
  /\ \A r \in Runs :
       /\ WF_vars(Coordinate(r)) /\ WF_vars(PollWait(r)) /\ WF_vars(WaitTimesOut(r)) /\ WF_vars(Program(r))

FairSpec == Spec /\ Fairness

-----------------------------------------------------------------------------
Opened(r, work) == Exists(r) /\ runs[r].open = work

TypeOK ==
  /\ runs \in [Runs -> RunRows \cup {NoRun}]
  /\ programs \in [Children -> Programs]
  /\ task \in [Runs -> Pcs] /\ sweep \in BOOLEAN /\ attempted \subseteq Runs
  /\ host \in {"up", "down", "booting", "failed", "hung"}
  /\ todo \in [Runs -> {"done", "reconcile", "recover", "retry"}] /\ usable \in BOOLEAN

\* Only a Run that recovery closed (harness-runtime.ts:12651) ever leaves live Runs below it, whoever ends
\* it: an answer, a failure, a program, user control or agent.cancel from above.
OnlyRecoveryOrphans ==
  \A r \in Runs : Live(r) => \A q \in runs[r].above : Live(q) \/ runs[q].interrupted

\* What a Run was given or told by Runs above it never exceeds what its parent, or the root of its tree,
\* was given (child-run-delegation.ts:131-210, harness-runtime.ts:2835).
AuthorityNarrows ==
  \A r \in Runs : Exists(r) /\ runs[r].parent # "none" =>
    /\ runs[r].grant \subseteq runs[runs[r].parent].grant
    /\ \E q \in runs[r].above : runs[q].parent = "none" /\ runs[r].told \subseteq runs[q].grant

\* While a Run is paused, no Run below it asks the model, whatever is resumed, started or woken there
\* (run-control.ts:56; the loop between attempts does not look up).
PausedTreesRest ==
  [][\A r \in Runs : Exists(r) /\ runs'[r].fresh /\ ~runs[r].fresh =>
       \A q \in runs[r].above : runs[q].status # "paused"]_vars

\* A parent is told of its program when the child has ended and no call of it is open, and a program
\* that completed ran to its end (harness-runtime.ts:9646-9929).
ProgramsEndWithTheirChild ==
  \A c \in Children :
    /\ programs[c].told # "none" => programs[c].told = runs[c].status /\ pendingCalls(c) = {}
    /\ Exists(c) /\ runs[c].kind = "program" /\ runs[c].status = "completed" =>
         programs[c].at = Len(Steps) + 1 /\ programs[c].state = "succeeded" /\ pendingCalls(c) = {}

\* A wait on Runs below ends, whatever they do, while its own Run may run and the host is up, and so does
\* a program unless its executor is thrown out of it (runtime/index.ts:1864, :2238).
CallsBelowReturn ==
  \A r \in Runs :
    /\ Opened(r, "wait") ~> ~Opened(r, "wait") \/ ~isDurablyRunnable(r) \/ host # "up"
    /\ Opened(r, "program") /\ task[r] = "program" ~>
         ~Opened(r, "program") \/ ~isDurablyRunnable(r) \/ task[r] = "off"

=============================================================================
