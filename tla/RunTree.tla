------------------------------ MODULE RunTree ------------------------------
(* Runs under Runs: what delegation hands down, what user control and the   *)
(* end of a Run do to the tree below it, and the coordination tasks that    *)
(* drive the Runs while the host is up.  A Run is seen here between its     *)
(* model answers; RunHarness takes one Run apart further.                   *)
EXTENDS RunContract, FiniteSets

CONSTANTS
  Roots,       \* Runs a message or a crash retry may create
  Children,    \* Runs a delegation may create
  Rights,      \* what a Run may be given: tools, policy, budget and selected context
  Essential,   \* the rights without which no model request can be put together
  Topics,      \* the rights that are selected context
  MaxInbox,    \* bound: messages waiting for one Run
  MaxCalls,    \* bound: calls of agent tools and programs
  MaxSubtree,  \* the Runs one control command may reach (100 in the code)
  MaxUser,     \* bound: commands of the user
  MaxCrashes   \* bound: process exits

ASSUME TreeAssumption ==
  /\ Roots # {} /\ Roots \cap Children = {} /\ IsFiniteSet(Roots \cup Children) /\ "none" \notin Roots \cup Children
  /\ Essential \subseteq Rights /\ Topics \subseteq Rights
  /\ {MaxInbox, MaxCalls, MaxSubtree, MaxUser, MaxCrashes} \subseteq Nat /\ MaxInbox # 0

Runs == Roots \cup Children

VARIABLES
  runs,       \* the runs table, each row with what its Activation has open
  programs,   \* the programs of the Tool Program children
  task,       \* runtime-controller.ts activeCoordination: where each Run's task is
  sweep,      \* sweepRequested
  attempted,  \* Runs started since the last notification (lastAttemptGeneration)
  host,       \* the desktop main process
  todo,       \* boot: interrupted Runs still to reconcile, and how far each one is
  usable,     \* the Chat takes a new Run: Chat, Project, provider and context are all current
  spent       \* bound counters

vars == <<runs, programs, task, sweep, attempted, host, todo, usable, spent>>

NoRun == [status |-> "none", parent |-> "none", above |-> {}]

RunKinds == {"root", "agent", "program"}
OpenWork == {"none", "attempt", "failed", "wait", "program"}
RunRows == [status : RunStates, parent : Runs \cup {"none"}, above : SUBSET Runs, kind : RunKinds,
            grant : SUBSET Rights, told : SUBSET Rights, inbox : 0..MaxInbox,
            active : BOOLEAN, open : OpenWork, on : SUBSET Runs, until : {"none", "any", "all", "change"},
            moved : BOOLEAN, fresh : BOOLEAN,
            retryOf : Runs \cup {"none"}, interrupted : BOOLEAN]

Accepted(kind, parent, above, grant) ==
  [status |-> "accepted", parent |-> parent, above |-> above, kind |-> kind, grant |-> grant, told |-> {},
   inbox |-> 1, active |-> FALSE, open |-> "none", on |-> {}, until |-> "none", moved |-> FALSE,
   fresh |-> FALSE, retryOf |-> "none", interrupted |-> FALSE]

Exists(r) == runs[r] # NoRun
Terminal(r) == Exists(r) /\ runs[r].status \in TerminalStates
Live(r) == Exists(r) /\ runs[r].status \notin TerminalStates
\* isStrictDescendant: an agent tool reaches only Runs below its own.
Under(r) == {c \in Runs : r \in runs[c].above}
subtree(r) == {r} \cup Under(r)

\* listRunControlSubtree refuses a larger tree.
listRunControlSubtree(r) == Cardinality(subtree(r)) <= MaxSubtree

\* Mutant: only the Run itself is looked at.
selfNotPaused(r) == runs[r].status # "paused"

\* A paused Run stops itself and everything below it.
isRunSchedulingAllowed(r) == \A q \in {r} \cup runs[r].above : runs[q].status # "paused"

isDurablyRunnable(r) ==
  Exists(r) /\ runs[r].status \in {"accepted", "running"} /\ isRunSchedulingAllowed(r)

isRunActivationActive(r) == runs[r].status = "running" /\ runs[r].active

\* The calls of a program's step that are not settled.
pendingCalls(c) == {i \in DOMAIN programs[c].calls : programs[c].calls[i] = "open"}

\* What only its own task, the executor of its program or recovery may close.
recoveryRequired(r) == runs[r].open = "attempt" \/ (runs[r].kind = "program" /\ pendingCalls(r) # {})

\* assertNoNonterminalDescendants, in the rows of this transaction.
NoLiveBelow(rs, r) == \A c \in Runs : r \in rs[c].above => rs[c].status \in TerminalStates

-----------------------------------------------------------------------------
(* Writing.  "moving" names the Runs whose revision a transaction advances  *)
(* from outside their own attempt: an attempt in flight no longer matches   *)
(* its request, and the watermark of a wait on them is no longer current.   *)

Moved(rs, moving) ==
  [r \in Runs |->
     IF rs[r] = NoRun THEN NoRun
     ELSE [rs[r] EXCEPT !.fresh = @ /\ r \notin moving,
                        !.moved = @ \/ (rs[r].open = "wait" /\ rs[r].on \cap moving # {})]]

Write(rs, moving) == runs' = Moved(rs, moving)

\* terminalizeRunInTransaction on one row: the Activation ends; only a cancelled Run drops its queued messages.
Terminalized(row, s) ==
  [row EXCEPT !.status = s, !.active = FALSE, !.fresh = FALSE,
              !.inbox = IF s = "cancelled" THEN 0 ELSE @,
              !.open = IF @ = "attempt" THEN "none" ELSE @]

\* settleRunControlActivationInTransaction: the attempt in flight is settled by the host.
Settled(row) == [row EXCEPT !.open = IF @ = "attempt" THEN "none" ELSE @, !.fresh = FALSE]

\* controlRunSubtreeInTransaction: cancel deepest first, so that every Run ends above an ended subtree.
cancelSubtree(r) ==
  [c \in Runs |-> IF c \in subtree(r) /\ Live(c) THEN Terminalized(runs[c], "cancelled") ELSE runs[c]]

\* A Run that never started has nothing to pause: it stays accepted, held by its paused ancestor.
pauseSubtree(r) ==
  [c \in Runs |-> IF c \in subtree(r) /\ runs[c].status = "running"
                  THEN [Settled(runs[c]) EXCEPT !.status = "paused"] ELSE runs[c]]

resumeSubtree(r) ==
  [c \in Runs |-> IF c \in subtree(r) /\ runs[c].status = "paused"
                  THEN [runs[c] EXCEPT !.status = "running"] ELSE runs[c]]

Reached(r) == {c \in subtree(r) : Live(c)}

-----------------------------------------------------------------------------
(* Delegation *)

\* derivePolicy, deriveCatalog, assertAuthorizedContext: nothing the parent was not given.
assertNarrowing(r, g) == g \subseteq runs[r].grant

\* createDelegatedChildInTransaction: the child's row and its first message, and one more event of the parent.
delegateChildRun(rs, r, c, kind, g) ==
  [rs EXCEPT ![c] = Accepted(kind, r, {r} \cup runs[r].above, g)]

\* Identifiers are drawn in some fixed order.
Unused(S) ==
  LET free == {x \in S : ~Exists(x)} IN IF free = {} THEN {} ELSE {CHOOSE x \in free : TRUE}

-----------------------------------------------------------------------------
(* Tasks and sweeps *)

\* A "stopped" task executes a program although its signal is aborted: a read tool is not given the signal.
Pcs == {"off", "coordinate", "running", "thinking", "waiting", "program", "stopped"}
Held == {"coordinate", "running"}  \* the JavaScript thread is in this task

Running == host \in {"up", "booting"}

Goto(r, pc) == task' = [task EXCEPT ![r] = pc]
Goes(r, pc) == Goto(r, pc) /\ UNCHANGED <<sweep, host>>

\* A task that ends requests a sweep; while the application starts nobody sweeps.
Leaves(r) == Goto(r, "off") /\ sweep' = (sweep \/ host = "up") /\ UNCHANGED host

\* An error leaves the task; thrown while the application starts, it stops the start.
Throws(r) ==
  /\ Goto(r, "off") /\ sweep' = (sweep \/ host = "up")
  /\ host' = IF host = "booting" THEN "failed" ELSE host

\* The signal of an aborted task stays aborted.  If its Run may run again by the time the task gets back
\* to it, every pass returns at once and is repeated at once: the event loop is never given back.
AbortedReturns(r) ==
  IF isDurablyRunnable(r) THEN Goto(r, "off") /\ host' = "hung" /\ UNCHANGED sweep ELSE Leaves(r)

MayStillRun(r) ==
  /\ runs'[r].status \in {"accepted", "running"}
  /\ \A q \in {r} \cup runs'[r].above : runs'[q].status # "paused"

\* notifyDurableRunWork after a command: every Run may be tried again, and tasks of Runs that may no
\* longer run are aborted.  A model request and a wait end in the same turn of the event loop.
Notified ==
  /\ sweep' = TRUE /\ attempted' = {}
  /\ task' = [r \in Runs |-> IF MayStillRun(r) THEN task[r]
                             ELSE CASE task[r] \in {"thinking", "waiting"} -> "off"
                                    [] task[r] = "program" -> "stopped"
                                    [] OTHER -> task[r]]

\* drainRunnableRuns
Sweep ==
  /\ host = "up" /\ sweep /\ sweep' = FALSE
  /\ LET start == {r \in Runs : isDurablyRunnable(r) /\ task[r] = "off" /\ r \notin attempted} IN
     /\ task' = [r \in Runs |-> IF r \in start THEN "coordinate" ELSE task[r]]
     /\ attempted' = attempted \cup start
  /\ UNCHANGED <<runs, programs, host, todo, usable, spent>>

unchangedByCalls == UNCHANGED <<attempted, todo, usable>>
unchangedByTasks == unchangedByCalls /\ UNCHANGED spent

-----------------------------------------------------------------------------
(* Commands of the user *)

UserTurn ==
  /\ host = "up" /\ \A r \in Runs : task[r] \notin Held
  /\ spent.user < MaxUser /\ spent' = [spent EXCEPT !.user = @ + 1]
  /\ UNCHANGED <<programs, host, todo>>

\* run.sendFollowup
enqueueFollowup(r) ==
  /\ UserTurn /\ Live(r) /\ runs[r].inbox < MaxInbox
  /\ Write([runs EXCEPT ![r].inbox = @ + 1], {r}) /\ Notified /\ UNCHANGED usable

\* run.control; a pause or a resume that changes nothing succeeds as well.
Control(r, after) ==
  /\ UserTurn /\ Live(r) /\ listRunControlSubtree(r)
  /\ Write(after, Reached(r)) /\ Notified /\ UNCHANGED usable
Pause(r) == Exists(r) /\ runs[r].status \in {"accepted", "running"} /\ Control(r, pauseSubtree(r))
Resume(r) == Exists(r) /\ runs[r].status = "paused" /\ Control(r, resumeSubtree(r))
Cancel(r) == Control(r, cancelSubtree(r))
=============================================================================
