------------------------ MODULE OwnerOperationsProofs ------------------------
(* Proofs about the owners of long work, for any number of operations: that  *)
(* what an ended attempt promises exists, that work a provider took up is    *)
(* paid for or reserved, and that work the program does itself does not      *)
(* succeed behind a recorded cancellation.                                   *)
EXTENDS OwnerOperations, TLAPS

-----------------------------------------------------------------------------
(* The inductive invariant                                                   *)

Delivered == {"preview", "export"}

\* Which client may stand where, and in which kind of work.
Posted(c, pc, kd) ==
  /\ pc = "starting" => c = "task" /\ kd \in {"derive", "transcribe", "check", "judge"}
  /\ pc \in {"continuing", "settling"} => c = "task"
  /\ pc = "verifying" => c = "task" /\ kd \in {"derive", "transcribe"}
  /\ pc = "resolving" => c = "task" /\ kd = "export"
  /\ pc = "working" => c = "task" /\ kd \in {"derive", "preview", "export"}
  /\ pc \in {"storing", "stored"} => kd = "transcribe" \/ (c = "task" /\ kd \in {"derive", "preview", "export"})
  /\ pc = "stopping" => kd \in {"derive", "preview", "export"}
  /\ pc = "submitting" => c = "task" /\ kd \in {"transcribe", "judge"}
  /\ pc \in {"reconciling", "cancelling"} => kd \in {"transcribe", "judge"}

\* An answer is still true when it is read.
Holds(answer, j) ==
  /\ answer = "not_submitted" => j = "none"
  /\ answer = "submitted" => j \in {"accepted"} \cup Ended
  /\ answer \in Ended => j = answer

\* What the client c, standing at k, may rely on: its attempt's row r, job j, the store st, its dispatch dp.
Stands(c, k, r, j, st, dp) ==
  /\ Posted(c, k.pc, kind[k.op])
  /\ k.pc # "off" => dp # "none"
  /\ k.pc # "off" /\ c = "sweep" => r.cancel
  /\ k.pc \notin {"off", "starting"} => r.state # "absent"
  /\ k.pc = "starting" => r = Absent
  /\ k.pc = "verifying" /\ Provided(k.op) => r.cancel \/ r.state = "running"
  /\ k.pc = "stored" => st
  /\ kind[k.op] = "export" /\ k.pc \in {"storing", "stored"} => j = "made"
  /\ kind[k.op] = "export" /\ k.pc \in {"resolving", "working", "storing", "stored"} => r.state # "succeeded"
  /\ k.pc \in Asking => Holds(k.answer, j)
  /\ kind[k.op] = "judge" /\ k.pc \in Asking /\ c = "sweep" => k.asked
  /\ kind[k.op] = "judge" /\ k.pc = "reconciling" /\ k.fresh => ~Terminal(r) /\ k.asked = r.cancel

\* A row of an operation o, and the job, file and dispatch beside it.
Fits(o, r, j, st, f, dp) ==
  /\ r.state = "absent" => r = Absent /\ (Provided(o) => j = "none")
  /\ dp = "none" => r = Absent
  /\ kind[o] = "preview" /\ dp # "none" => r.state # "absent"
  /\ j \in IF Provided(o) THEN ProviderJobs ELSE LocalJobs
  /\ Provided(o) /\ r.state \in {"running", "submitted", "unknown"} => r.cost = "reserved"
  /\ Provided(o) /\ r.state = "succeeded" => r.cost = "charged"
  /\ Provided(o) /\ r.state \in {"failed", "cancelled"} =>
       /\ j \in {"none", "failed", "cancelled"}
       /\ r.cost = "charged" \/ (r.cost = "released" /\ j = "none")
  /\ kind[o] = "transcribe" /\ r.state = "running" => j = "none"
  /\ r.state = "succeeded" /\ ~Assesses(o) => st
  /\ r.state = "succeeded" /\ kind[o] = "export" => f = "complete" /\ j \in {"none", "made"}
  /\ kind[o] = "export" /\ j = "made" => f = "complete"

Typed ==
  /\ TypeOK
  /\ Kinds \subseteq {"derive", "transcribe", "check", "judge", "preview", "export"}

RowsFit == \A o \in Operations : Fits(o, row[o], job[o], o \in cas, file[o], dispatch[o])
ClientsStand ==
  \A c \in Clients :
    LET o == client[c].op IN Stands(c, client[c], row[o], job[o], o \in cas, dispatch[o])

OwnersInv == Typed /\ RowsFit /\ ClientsStand

-----------------------------------------------------------------------------
(* What one turn of a client may do to the row it writes and to the job      *)

\* The attempt ends: n is the row that ends it.
Closes(c, o, n, j) ==
  \/ /\ n.state = "succeeded"
     /\ Provided(o) => n.cost = "charged"
     /\ ~Assesses(o) => o \in cas
     /\ kind[o] = "export" => c = "task" /\ j = "made"
     /\ kind[o] \in {"derive", "check"} => ~n.cancel
  \/ /\ n.state \in {"failed", "cancelled"}
     /\ Provided(o) => \/ n.cost = "charged" /\ j \in {"failed", "cancelled"}
                       \/ n.cost = "released" /\ j = "none"

\* From the row r of an attempt to n, in one transaction or several.
Advances(c, o, r, n, j) ==
  /\ r \in Rows /\ r.state # "absent" /\ n \in Rows /\ n.state # "absent" /\ n.cancel = r.cancel
  /\ n.state = "running" => r.state = "running"
  /\ Terminal(r) => n.state = r.state /\ n.cost = r.cost
  /\ ~Terminal(r) /\ ~Terminal(n) /\ Provided(o) => n.cost = r.cost
  /\ ~Terminal(r) /\ Terminal(n) => Closes(c, o, n, j)

\* What a turn may make of the job j of its operation, when it leaves the row at n.
Engages(c, o, n, j) ==
  \/ j = job[o]
  \/ ~Provided(o) /\ j = Aborted(o)
  \/ ~Provided(o) /\ c = "task" /\ j = "working" /\ (kind[o] = "export" => n.state # "succeeded")
  \/ /\ Provided(o) /\ c = "task" /\ job[o] = "none" /\ j = "sent"
     /\ n.state \notin {"absent"} \cup Ended /\ ~n.cancel /\ (kind[o] = "transcribe" => n.state # "running")

\* The whole turn: the row of o becomes n, the client c stands at k, the job of o is j.
Turn(c, o, n, b, k, j) ==
  /\ Write(c, o, n, b, k)
  /\ job' = [job EXCEPT ![o] = j]
  /\ c = "sweep" => row[o].cancel
  /\ n = row[o] \/ (row[o] = Absent /\ n = registerOperationDispatch(o)) \/ Advances(c, o, row[o], n, job[o])
  /\ Engages(c, o, n, j)
  /\ k \in ClientStates /\ k.op = o

\* Beside it stay the kinds, the files, the crashes; calls only settle; the store only grows.
Beside ==
  /\ kind' = kind /\ file' = file /\ crashes' = crashes /\ run' = run /\ moved' = moved /\ granted' = granted
  /\ cas \subseteq cas' /\ cas' \subseteq Operations
  /\ dispatch' \in [Operations -> {"none", "asked", "open", "settled"}]
  /\ \A o \in Operations : dispatch'[o] = "none" <=> dispatch[o] = "none"

Wins ==
  \A o \in Operations : kind[o] \in {"derive", "check"} /\ row[o].cancel /\ ~Terminal(row[o])
    => row'[o].state # "succeeded"

\* The six kinds of work.
LEMMA SixKinds ==
  ASSUME Typed, NEW o \in Operations
  PROVE  kind[o] \in {"derive", "transcribe", "check", "judge", "preview", "export"}
BY DEF Typed, TypeOK

LEMMA AbsentIsRow == Absent \in Rows /\ Refused \notin Rows /\ Refused # Absent
BY DEF Absent, Refused, Rows, States, Ended

LEMMA RegisteredIsRow ==
  ASSUME NEW o
  PROVE  /\ registerOperationDispatch(o) \in Rows
         /\ registerOperationDispatch(o).state = "running" /\ ~registerOperationDispatch(o).cancel
         /\ registerOperationDispatch(o).receipt = "none"
         /\ Provided(o) => registerOperationDispatch(o).cost = "reserved"
BY DEF registerOperationDispatch, Absent, Rows, States

LEMMA AbortedIsLocal ==
  ASSUME NEW o, job[o] \in LocalJobs
  PROVE  Aborted(o) \in LocalJobs /\ (Aborted(o) = "made" <=> job[o] = "made") /\ (Aborted(o) = "none" <=> job[o] = "none")
BY DEF Aborted, LocalJobs

\* What a turn leaves of the row it wrote fits.
LEMMA TurnFits ==
  ASSUME OwnersInv, NEW c \in Clients, NEW o \in Operations, NEW n, NEW b, NEW k, NEW j, Turn(c, o, n, b, k, j), Beside,
         dispatch[o] # "none"
  PROVE  Fits(o, n, j, o \in cas, file[o], dispatch[o])' /\ n \in Rows /\ j \in LocalJobs \cup ProviderJobs
<1>1. Fits(o, row[o], job[o], o \in cas, file[o], dispatch[o]) /\ row[o] \in Rows /\ kind' = kind /\ file' = file
      /\ dispatch'[o] # "none" /\ (o \in cas => o \in cas')
  BY DEF OwnersInv, RowsFit, Typed, TypeOK, Beside
<1>2. n \in Rows
  BY <1>1, RegisteredIsRow DEF Turn, Advances
<1>3. kind[o] \in {"derive", "transcribe", "check", "judge", "preview", "export"}
  BY SixKinds DEF OwnersInv
<1>4. job[o] \in (IF Provided(o) THEN ProviderJobs ELSE LocalJobs)
  BY <1>1 DEF Fits
<1>5. j \in (IF Provided(o) THEN ProviderJobs ELSE LocalJobs)
  BY <1>4, AbortedIsLocal DEF Turn, Engages, ProviderJobs, LocalJobs
<1>6. CASE n = row[o]
  <2>1. CASE j = job[o]
    BY <1>1, <1>6, <2>1 DEF Fits, Provided, Assesses
  <2>2. CASE ~Provided(o) /\ j = Aborted(o)
    BY <1>1, <1>4, <1>5, <1>6, <2>2, AbortedIsLocal DEF Fits, Provided, Assesses
  <2>3. CASE ~Provided(o) /\ c = "task" /\ j = "working" /\ (kind[o] = "export" => n.state # "succeeded")
    BY <1>1, <1>5, <1>6, <2>3 DEF Fits, Provided, Assesses
  <2>4. CASE /\ Provided(o) /\ c = "task" /\ job[o] = "none" /\ j = "sent"
             /\ n.state \notin {"absent"} \cup Ended /\ ~n.cancel /\ (kind[o] = "transcribe" => n.state # "running")
    BY <1>1, <1>5, <1>6, <2>4 DEF Fits, Provided, Assesses, Ended
  <2> QED BY <2>1, <2>2, <2>3, <2>4, <1>2, <1>5 DEF Turn, Engages
<1>7. CASE row[o] = Absent /\ n = registerOperationDispatch(o)
  <2>1. n.state = "running" /\ (Provided(o) => n.cost = "reserved") /\ ~n.cancel
    BY <1>7, RegisteredIsRow
  <2>2. Provided(o) => job[o] = "none"
    BY <1>1, <1>7 DEF Fits, Absent
  <2>3. (Provided(o) => j \in ProviderJobs) /\ (~Provided(o) => j \in LocalJobs)
    BY <1>5
  <2>4. kind[o] = "transcribe" => j = "none"
    BY <2>1, <2>2, AbortedIsLocal DEF Turn, Engages, Provided
  <2>5. kind[o] = "export" /\ j = "made" => file[o] = "complete"
    BY <1>1, <1>4 DEF Fits, Turn, Engages, Provided, Aborted
  <2>6. kind' = kind /\ file' = file /\ dispatch'[o] # "none"
    BY <1>1
  <2> QED BY <2>1, <2>3, <2>4, <2>5, <2>6, <1>2 DEF Fits, Provided
<1>8. CASE Advances(c, o, row[o], n, job[o])
  <2>1. CASE j = job[o]
    BY <1>1, <1>2, <1>5, <1>8, <2>1 DEF Fits, Provided, Assesses, Advances, Closes, Terminal, Ended, Rows, States
  <2>2. CASE ~Provided(o) /\ j = Aborted(o)
    BY <1>1, <1>2, <1>4, <1>5, <1>8, <2>2, AbortedIsLocal
       DEF Fits, Provided, Assesses, Advances, Closes, Terminal, Ended, Rows, States
  <2>3. CASE ~Provided(o) /\ c = "task" /\ j = "working" /\ (kind[o] = "export" => n.state # "succeeded")
    BY <1>1, <1>2, <1>5, <1>8, <2>3 DEF Fits, Provided, Assesses, Advances, Closes, Terminal, Ended, Rows, States
  <2>4. CASE /\ Provided(o) /\ c = "task" /\ job[o] = "none" /\ j = "sent"
             /\ n.state \notin {"absent"} \cup Ended /\ ~n.cancel /\ (kind[o] = "transcribe" => n.state # "running")
    BY <1>1, <1>2, <1>5, <1>8, <2>4 DEF Fits, Provided, Assesses, Advances, Closes, Terminal, Ended, Rows, States
  <2> QED BY <2>1, <2>2, <2>3, <2>4, <1>2, <1>5 DEF Turn, Engages
<1> QED BY <1>6, <1>7, <1>8, <1>2, <1>5 DEF Turn

\* The other client, on the same operation, stands as it stood or is no longer fresh.
LEMMA OtherStands ==
  ASSUME OwnersInv, NEW c \in Clients, NEW o \in Operations, NEW n, NEW b, NEW k, NEW j, Turn(c, o, n, b, k, j), Beside,
         NEW d \in Clients, d # c, client[d].op = o
  PROVE  Stands(d, client[d], n, j, o \in cas, dispatch[o])'
<1> DEFINE l == client[d]
<1> DEFINE m == client'[d]
<1>1. Stands(d, l, row[o], job[o], o \in cas, dispatch[o]) /\ l \in ClientStates /\ row[o] \in Rows
  BY DEF OwnersInv, ClientsStand, Typed, TypeOK
<1>2. /\ m = l \/ m = [l EXCEPT !.fresh = FALSE]
      /\ n # row[o] => m = [l EXCEPT !.fresh = FALSE]
  BY DEF Turn, Write
<1>3. /\ m.pc = l.pc /\ m.op = o /\ m.asked = l.asked /\ m.answer = l.answer /\ (m.fresh => l.fresh /\ n = row[o])
  BY <1>1, <1>2 DEF ClientStates
<1>4. kind' = kind /\ (o \in cas => o \in cas') /\ (dispatch[o] = "none" <=> dispatch'[o] = "none")
  BY DEF Beside
<1>16. l.op = o
  OBVIOUS
<1> HIDE DEF l, m
<1>5. l.pc # "off" /\ d = "sweep" => row[o] # Absent /\ row[o].cancel
  BY <1>1 DEF Stands, Absent
<1>6. n = row[o] \/ (row[o] = Absent /\ d = "task" => l.pc \in {"off", "starting"})
  BY <1>1 DEF Stands, Absent
<1>7. (d = "task" /\ c = "sweep") \/ (d = "sweep" /\ c = "task")
  BY DEF Clients
<1>8. c = "sweep" => row[o].cancel /\ row[o] # Absent
  BY DEF Turn, Absent
<1>9. n = row[o] \/ Advances(c, o, row[o], n, job[o]) \/ l.pc = "off"
  BY <1>5, <1>7, <1>8 DEF Turn
<1>10. n.cancel = row[o].cancel \/ l.pc = "off"
  BY <1>9 DEF Advances
<1>11. row[o].state # "absent" => n.state # "absent" \/ l.pc = "off"
  BY <1>9 DEF Advances
<1>12. Provided(o) => j = job[o] \/ l.pc = "off"
  <2>1. SUFFICES ASSUME Provided(o), j # job[o] PROVE l.pc = "off"
    OBVIOUS
  <2>2. c = "task" /\ ~n.cancel
    BY <2>1 DEF Turn, Engages
  <2> QED BY <2>2, <1>5, <1>7, <1>10
<1>13. kind[o] = "export" => n.state # "succeeded" \/ row[o].state = "succeeded" \/ l.pc \notin {"resolving", "working", "storing", "stored"}
  BY <1>1, <1>7, <1>9, <1>16 DEF Advances, Closes, Terminal, Ended, Stands, Posted
<1>14. kind[o] = "export" /\ l.pc \in {"storing", "stored"} => j = "made"
  <2>1. SUFFICES ASSUME kind[o] = "export", l.pc \in {"storing", "stored"} PROVE j = "made"
    OBVIOUS
  <2>2. d = "task" /\ c = "sweep" /\ job[o] = "made"
    BY <1>1, <1>3, <2>1, <1>7 DEF Stands, Posted, l
  <2> QED BY <2>1, <2>2 DEF Turn, Engages, Aborted, Provided
<1>15. l.pc = "verifying" /\ Provided(o) => n.cancel \/ l.pc = "off"
  BY <1>1, <1>7, <1>8, <1>10 DEF Stands, Posted
<1>17. CASE l.pc = "off"
  BY <1>1, <1>3, <1>4, <1>17 DEF Stands, Posted, Provided, Asking, m
<1>18. CASE l.pc # "off"
  <2>1. Posted(d, m.pc, kind[o]) /\ dispatch'[o] # "none"
    BY <1>1, <1>3, <1>4, <1>16, <1>18 DEF Stands
  <2>2. (d = "sweep" => n.cancel) /\ (l.pc # "starting" => n.state # "absent") /\ (l.pc = "stored" => o \in cas')
    BY <1>1, <1>4, <1>10, <1>11, <1>16, <1>18 DEF Stands
  <2>3. l.pc # "starting"
    BY <1>1, <1>7, <1>8, <1>16, <1>18 DEF Stands, Posted
  <2>4. l.pc \in Asking => Holds(m.answer, j)
    BY <1>1, <1>3, <1>12, <1>16, <1>18 DEF Stands, Posted, Asking, Provided
  <2>5. kind[o] = "judge" /\ l.pc = "reconciling" /\ m.fresh => ~Terminal(n) /\ m.asked = n.cancel
    BY <1>1, <1>3, <1>16 DEF Stands
  <2>6. kind[o] = "judge" /\ l.pc \in Asking /\ d = "sweep" => m.asked
    BY <1>1, <1>3, <1>16 DEF Stands
  <2>7. kind[o] = "export" /\ l.pc \in {"resolving", "working", "storing", "stored"} => n.state # "succeeded"
    BY <1>1, <1>13, <1>16 DEF Stands
  <2> QED BY <2>1, <2>2, <2>3, <2>4, <2>5, <2>6, <2>7, <1>3, <1>4, <1>14, <1>15 DEF Stands, Provided, m
<1> QED BY <1>17, <1>18

\* A client that stands nowhere relies on nothing.
LEMMA OffStands ==
  ASSUME NEW c, NEW k, k.pc = "off", NEW r, NEW j, NEW st, NEW dp
  PROVE  Stands(c, k, r, j, st, dp)
BY DEF Stands, Posted, Asking

\* A whole turn keeps the invariant, if the client stands well where it goes.
LEMMA TurnKeeps ==
  ASSUME OwnersInv, NEW c \in Clients, NEW o \in Operations, NEW n, NEW b, NEW k, NEW j, Turn(c, o, n, b, k, j), Beside,
         dispatch[o] # "none", Stands(c, k, n, j, o \in cas, dispatch[o])'
  PROVE  OwnersInv' /\ Wins
<1>1. Fits(o, n, j, o \in cas, file[o], dispatch[o])' /\ n \in Rows /\ j \in LocalJobs \cup ProviderJobs
  BY TurnFits
<1>2. TypeOK /\ Typed
  BY DEF OwnersInv, Typed
<1>3. /\ row' \in [Operations -> Rows] /\ row'[o] = n /\ \A p \in Operations : p # o => row'[p] = row[p]
      /\ job' \in [Operations -> LocalJobs \cup ProviderJobs] /\ job'[o] = j /\ \A p \in Operations : p # o => job'[p] = job[p]
  BY <1>1, <1>2 DEF Turn, Write, TypeOK
<1>4. /\ client' \in [Clients -> ClientStates] /\ client'[c] = k
      /\ \A d \in Clients : d # c => \/ client'[d] = client[d]
                                     \/ client[d].op = o /\ client'[d] = [client[d] EXCEPT !.fresh = FALSE]
  BY <1>2 DEF Turn, Write, TypeOK, ClientStates
<1>5. Typed'
  BY <1>2, <1>3, <1>4 DEF Typed, TypeOK, Beside
<1>6. RowsFit'
  <2>1. SUFFICES ASSUME NEW p \in Operations PROVE Fits(p, row[p], job[p], p \in cas, file[p], dispatch[p])'
    BY DEF RowsFit
  <2>2. CASE p = o
    BY <1>1, <1>3, <2>2
  <2>3. CASE p # o
    <3>1. Fits(p, row[p], job[p], p \in cas, file[p], dispatch[p])
      BY DEF OwnersInv, RowsFit
    <3>2. row'[p] = row[p] /\ job'[p] = job[p] /\ kind' = kind /\ file' = file /\ (p \in cas => p \in cas')
          /\ (dispatch'[p] = "none" <=> dispatch[p] = "none")
      BY <1>3, <2>3 DEF Beside
    <3> QED BY <3>1, <3>2 DEF Fits, Provided, Assesses
  <2> QED BY <2>2, <2>3
<1>7. ClientsStand'
  <2>1. SUFFICES ASSUME NEW d \in Clients
                 PROVE  LET p == client[d].op IN Stands(d, client[d], row[p], job[p], p \in cas, dispatch[p])'
    BY DEF ClientsStand
  <2>2. CASE d = c
    BY <1>3, <1>4, <2>2 DEF Turn
  <2>3. CASE d # c /\ client[d].op = o
    <3>1. Stands(d, client[d], n, j, o \in cas, dispatch[o])'
      BY <2>3, OtherStands
    <3>2. client'[d].op = o
      BY <1>2, <1>4, <2>3 DEF TypeOK, ClientStates
    <3> QED BY <1>3, <3>1, <3>2
  <2>4. CASE d # c /\ client[d].op # o
    <3>1. PICK p \in Operations : p = client[d].op
      BY <1>2 DEF TypeOK, ClientStates
    <3>2. client'[d] = client[d] /\ client'[d].op = p /\ p # o
      BY <1>4, <2>4, <3>1
    <3>3. Stands(d, client[d], row[p], job[p], p \in cas, dispatch[p])
      BY <3>1 DEF OwnersInv, ClientsStand
    <3>4. row'[p] = row[p] /\ job'[p] = job[p] /\ kind' = kind /\ (p \in cas => p \in cas')
          /\ (dispatch'[p] = "none" <=> dispatch[p] = "none")
      BY <1>3, <3>2 DEF Beside
    <3>5. Stands(d, client[d], row[p], job[p], p \in cas, dispatch[p])'
      BY <3>1, <3>2, <3>3, <3>4 DEF Stands, Provided
    <3> QED BY <3>2, <3>5
  <2> QED BY <2>2, <2>3, <2>4
<1>8. Wins
  <2>1. SUFFICES ASSUME NEW p \in Operations, kind[p] \in {"derive", "check"}, row[p].cancel, ~Terminal(row[p])
                 PROVE  row'[p].state # "succeeded"
    BY DEF Wins
  <2>2. CASE p # o
    BY <1>3, <2>1, <2>2 DEF Terminal, Ended
  <2>3. CASE p = o
    <3>1. row[o] # Absent
      BY <2>1, <2>3 DEF Absent
    <3>2. CASE n = row[o]
      BY <1>3, <2>1, <2>3, <3>2 DEF Terminal, Ended
    <3>3. CASE Advances(c, o, row[o], n, job[o])
      BY <1>3, <2>1, <2>3, <3>3 DEF Terminal, Ended, Advances, Closes
    <3> QED BY <3>1, <3>2, <3>3 DEF Turn
  <2> QED BY <2>2, <2>3
<1> QED BY <1>5, <1>6, <1>7, <1>8 DEF OwnersInv

-----------------------------------------------------------------------------
(* What the transactions make of a row: they refuse it, or advance it        *)

\* A transition of an ended row changes its state no more, and no row starts running again.
LEMMA TransitionsEnd ==
  ASSUME NEW r \in Rows, r.state # "absent", NEW n, assertAttemptStateTransition(r, n)
  PROVE  ~Terminal(r) /\ n.state # "running" /\ n.state # "absent"
<1>1. /\ AttemptStateTransitions["succeeded"] = {} /\ AttemptStateTransitions["failed"] = {}
      /\ AttemptStateTransitions["cancelled"] = {}
      /\ AttemptStateTransitions["running"] = {"submitted", "unknown", "succeeded", "failed", "cancelled"}
      /\ AttemptStateTransitions["submitted"] = {"unknown", "succeeded", "failed", "cancelled"}
      /\ AttemptStateTransitions["unknown"] = {"submitted", "succeeded", "failed", "cancelled"}
  BY DEF AttemptStateTransitions, Ended
<1>2. r.state \in {"running", "submitted", "unknown", "succeeded", "failed", "cancelled"}
  BY DEF Rows, States, Ended
<1> QED BY <1>1, <1>2 DEF assertAttemptStateTransition, Terminal, Ended

LEMMA FinishDerivationAdvances ==
  ASSUME NEW c, NEW o, NEW r \in Rows, r.state # "absent", NEW s \in {"failed", "cancelled"},
         NEW receipt \in BOOLEAN, NEW usage \in BOOLEAN, NEW reconciled \in BOOLEAN, NEW j,
         Provided(o) => IF usage THEN j \in {"failed", "cancelled"} ELSE j = "none"
  PROVE  LET n == finishDerivation(o, r, s, receipt, usage, reconciled) IN n = Refused \/ Advances(c, o, r, n, j)
<1> DEFINE m == [r EXCEPT !.state = s, !.receipt = IF receipt THEN "reconciled" ELSE @]
           n == IF usage THEN settleCost(o, m) ELSE releaseCost(o, m)
<1>1. /\ n \in Rows /\ n.cancel = r.cancel /\ n.state = s
      /\ Provided(o) => n.cost = IF usage THEN "charged" ELSE "released"
  BY DEF settleCost, releaseCost, Rows, States, Ended
<1>2. finishDerivation(o, r, s, receipt, usage, reconciled) \in {r, Refused, n}
  BY DEF finishDerivation, transitionMediaDerivationOwner
<1>3. Terminal(r) => finishDerivation(o, r, s, receipt, usage, reconciled) = r
  BY DEF finishDerivation
<1> HIDE DEF n
<1>4. ~Terminal(r) => Advances(c, o, r, n, j)
  BY <1>1 DEF Advances, Closes, Terminal, Ended
<1>5. Advances(c, o, r, r, j)
  BY DEF Advances
<1> QED BY <1>2, <1>3, <1>4, <1>5

LEMMA DerivationUnknownAdvances ==
  ASSUME NEW c, NEW o, NEW r \in Rows, r.state # "absent", NEW j
  PROVE  LET n == markDerivationUnknown(o, r) IN n = Refused \/ Advances(c, o, r, n, j)
BY DEF markDerivationUnknown, transitionMediaDerivationOwner, Advances, Closes, Terminal, Ended, Rows, States

LEMMA DerivationSubmittedAdvances ==
  ASSUME NEW c, NEW o, NEW r \in Rows, r.state # "absent", NEW j
  PROVE  LET n == markDerivationSubmitted(o, r) IN n = Refused \/ Advances(c, o, r, n, j)
BY DEF markDerivationSubmitted, transitionMediaDerivationOwner, Advances, Closes, Terminal, Ended, Rows, States

LEMMA DerivationReceiptAdvances ==
  ASSUME NEW c, NEW o, NEW r \in Rows, r.state # "absent", NEW j, NEW reconciled \in BOOLEAN
  PROVE  Advances(c, o, r, persistDerivationReceipt(r, reconciled), j)
BY DEF persistDerivationReceipt, Advances, Closes, Terminal, Ended, Rows, States

LEMMA PublishOutputsAdvances ==
  ASSUME NEW c, NEW o, NEW r \in Rows, r.state # "absent", NEW j, o \in cas, kind[o] \in {"derive", "transcribe"}
  PROVE  LET n == publishOutputs(o, r) IN n = Refused \/ Advances(c, o, r, n, j)
BY DEF publishOutputs, transitionMediaDerivationOwner, settleCost, Advances, Closes, Terminal, Ended, Rows, States, Provided

LEMMA FinishAssessmentAdvances ==
  ASSUME NEW c, NEW o, NEW r \in Rows, r.state # "absent", NEW s \in {"failed", "cancelled"},
         NEW usage \in BOOLEAN, NEW reconciled \in BOOLEAN, NEW j,
         Provided(o) => IF usage THEN j \in {"failed", "cancelled"} ELSE j = "none"
  PROVE  LET n == finishAssessment(o, r, s, usage, reconciled) IN n = Refused \/ Advances(c, o, r, n, j)
BY DEF finishAssessment, transitionResultAssessmentOwner, settleCost, releaseCost, Advances, Closes, Terminal, Ended,
       Rows, States

LEMMA AssessmentUnknownAdvances ==
  ASSUME NEW c, NEW o, NEW r \in Rows, r.state # "absent", NEW j
  PROVE  LET n == markAssessmentUnknown(r) IN n = Refused \/ Advances(c, o, r, n, j)
BY DEF markAssessmentUnknown, transitionResultAssessmentOwner, Advances, Closes, Terminal, Ended, Rows, States

LEMMA AssessmentSubmittedAdvances ==
  ASSUME NEW c, NEW o, NEW r \in Rows, r.state # "absent", NEW j
  PROVE  LET n == markAssessmentSubmitted(r) IN n = Refused \/ Advances(c, o, r, n, j)
BY DEF markAssessmentSubmitted, transitionResultAssessmentOwner, Advances, Closes, Terminal, Ended, Rows, States

\* The receipt of an ended assessment is refused, since the write would move its state.
LEMMA AssessmentReceiptAdvances ==
  ASSUME NEW c, NEW o, NEW r \in Rows, r.state # "absent", NEW j
  PROVE  LET m == persistAssessmentReceipt(r) IN m = Refused \/ Advances(c, o, r, m, j)
<1> DEFINE n == [r EXCEPT !.receipt = "reconciled", !.state = IF @ = "unknown" THEN @ ELSE "submitted"]
<1>1. n \in Rows /\ n.cancel = r.cancel /\ n.cost = r.cost /\ n.state \in {"unknown", "submitted"}
      /\ (n.state = "unknown" <=> r.state = "unknown")
  BY DEF Rows, States
<1>2. assertAttemptCommonTransition(r, n, TRUE) => ~Terminal(r)
  BY <1>1, TransitionsEnd DEF assertAttemptCommonTransition, Terminal, Ended
<1>3. CASE r.receipt = "reconciled"
  BY <1>3 DEF persistAssessmentReceipt, Advances, Closes, Terminal, Ended, Rows, States
<1>4. CASE r.receipt # "reconciled"
  <2> HIDE DEF n
  <2>1. persistAssessmentReceipt(r) = Refused \/ (persistAssessmentReceipt(r) = n /\ ~Terminal(r))
    BY <1>2, <1>4 DEF persistAssessmentReceipt, transitionResultAssessmentOwner, n
  <2>2. ~Terminal(r) => Advances(c, o, r, n, j)
    BY <1>1 DEF Advances, Terminal, Ended
  <2> QED BY <2>1, <2>2
<1> QED BY <1>3, <1>4

LEMMA PublishAssessmentAdvances ==
  ASSUME NEW c, NEW o, NEW r \in Rows, r.state # "absent", NEW j, kind[o] \in {"check", "judge"},
         kind[o] = "check" => ~r.cancel
  PROVE  LET n == publishAssessment(o, r) IN n = Refused \/ Advances(c, o, r, n, j)
BY DEF publishAssessment, transitionResultAssessmentOwner, settleCost, Advances, Closes, Terminal, Ended, Rows, States,
       Provided, Assesses

LEMMA WithoutOutputAdvances ==
  ASSUME NEW c, NEW o, NEW r \in Rows, r.state # "absent", NEW j, ~Provided(o)
  PROVE  LET n == finishWithoutOutput(r) IN n = Refused \/ Advances(c, o, r, n, j)
BY DEF finishWithoutOutput, transitionLocalDeliveryOwner, Advances, Closes, Terminal, Ended, Rows, States

LEMMA PublishOutputAdvances ==
  ASSUME NEW c, NEW o, NEW r \in Rows, r.state # "absent", NEW j, o \in cas, kind[o] \in {"preview", "export"},
         kind[o] = "export" => c = "task" /\ j = "made"
  PROVE  LET n == publishOutput(r) IN n = Refused \/ Advances(c, o, r, n, j)
BY DEF publishOutput, transitionLocalDeliveryOwner, Advances, Closes, Terminal, Ended, Rows, States, Provided

LEMMA StoppedAdvances ==
  ASSUME NEW c, NEW o, NEW r \in Rows, r.state # "absent", NEW j, ~Provided(o)
  PROVE  LET n == acknowledgeStopped(r) IN n = Refused \/ Advances(c, o, r, n, j)
BY DEF acknowledgeStopped, transitionLocalDeliveryOwner, Advances, Closes, Terminal, Ended, Rows, States

\* Two transactions of one turn advance a row as one does.
LEMMA AdvancesOn ==
  ASSUME NEW c, NEW o, NEW r, NEW m, NEW n, NEW j, Advances(c, o, r, m, j), Advances(c, o, m, n, j)
  PROVE  Advances(c, o, r, n, j)
BY DEF Advances, Closes, Terminal, Ended

LEMMA AdvancesStill ==
  ASSUME NEW c, NEW o, NEW r \in Rows, r.state # "absent", NEW j
  PROVE  Advances(c, o, r, r, j)
BY DEF Advances

-----------------------------------------------------------------------------
(* The forms a turn takes                                                    *)

\* Where a client goes: nowhere, back to its task, or to a place with a snapshot of the row.
LEMMA PlacesAreStates ==
  ASSUME OwnersInv, NEW c \in Clients, NEW o \in Operations
  PROVE  /\ Off(o) \in ClientStates /\ Off(o).op = o /\ Off(o).pc = "off"
         /\ \A r : LET k == Returned(c, o, r) IN
              /\ k \in ClientStates /\ k.op = o /\ k.pc \in {"off", "continuing", "settling"}
              /\ k.pc # "off" => c = "task"
         /\ \A pc \in Pcs : LET k == At(pc, o) IN
              /\ k \in ClientStates /\ k.op = o /\ k.pc = pc /\ k.fresh /\ k.answer = "none"
              /\ kind[o] = "judge" => k.asked = row[o].cancel
<1>1. row[o].cancel \in BOOLEAN /\ row[o].state \in States
  BY DEF OwnersInv, Typed, TypeOK, Rows
<1>2. Off(o) \in ClientStates /\ Off(o).op = o /\ Off(o).pc = "off"
  BY DEF Off, ClientStates, Pcs, States, Answers
<1>3. ASSUME NEW r PROVE LET k == Returned(c, o, r) IN
              /\ k \in ClientStates /\ k.op = o /\ k.pc \in {"off", "continuing", "settling"}
              /\ k.pc # "off" => c = "task"
  <2> DEFINE k1 == [Off(o) EXCEPT !.pc = "continuing", !.turn = 2]
             k2 == [Off(o) EXCEPT !.pc = "settling"]
  <2>1. 2 \in 1..2 /\ "continuing" \in Pcs /\ "settling" \in Pcs
    BY DEF Pcs
  <2>3. k1 \in ClientStates /\ k1.op = o /\ k1.pc = "continuing"
    BY <1>2, <2>1 DEF ClientStates
  <2>4. k2 \in ClientStates /\ k2.op = o /\ k2.pc = "settling"
    BY <1>2, <2>1 DEF ClientStates
  <2>2. Returned(c, o, r) = Off(o) \/ (c = "task" /\ Returned(c, o, r) \in {k1, k2})
    BY DEF Returned, Clients
  <2> HIDE DEF k1, k2
  <2> QED BY <1>2, <2>2, <2>3, <2>4
<1>4. ASSUME NEW pc \in Pcs PROVE LET k == At(pc, o) IN
              /\ k \in ClientStates /\ k.op = o /\ k.pc = pc /\ k.fresh /\ k.answer = "none"
              /\ kind[o] = "judge" => k.asked = row[o].cancel
  <2>1. /\ Off(o).fresh /\ Off(o).answer = "none"
    BY DEF Off
  <2> DEFINE k1 == [Off(o) EXCEPT !.pc = pc, !.asked = row[o].cancel, !.seen = row[o].state]
             k2 == [Off(o) EXCEPT !.pc = pc]
  <2>2. k1 \in ClientStates /\ k1.op = o /\ k1.pc = pc /\ k1.fresh /\ k1.answer = "none" /\ k1.asked = row[o].cancel
    BY <1>1, <1>2, <2>1 DEF ClientStates
  <2>3. k2 \in ClientStates /\ k2.op = o /\ k2.pc = pc /\ k2.fresh /\ k2.answer = "none"
    BY <1>2, <2>1 DEF ClientStates
  <2>4. At(pc, o) = IF kind[o] = "judge" THEN k1 ELSE k2
    BY DEF At
  <2> HIDE DEF k1, k2
  <2> QED BY <2>2, <2>3, <2>4
<1> QED BY <1>2, <1>3, <1>4

\* What a client that stands somewhere knows of its attempt.
LEMMA Standing ==
  ASSUME OwnersInv, NEW c \in Clients, client[c].pc # "off", NEW o, o = client[c].op
  PROVE  /\ o \in Operations /\ dispatch[o] # "none" /\ row[o] \in Rows /\ client[c] \in ClientStates
         /\ Stands(c, client[c], row[o], job[o], o \in cas, dispatch[o])
         /\ c = "sweep" => row[o].cancel
         /\ client[c].pc # "starting" => row[o].state # "absent"
         /\ kind[o] \in {"derive", "transcribe", "check", "judge", "preview", "export"}
         /\ Posted(c, client[c].pc, kind[o])
BY SixKinds DEF OwnersInv, ClientsStand, Typed, TypeOK, Stands, ClientStates

LEMMA ClientsBeside ==
  ASSUME OwnersInv, unchangedByClients
  PROVE  Beside
BY DEF OwnersInv, Typed, TypeOK, unchangedByClients, Beside

\* A client that goes on without writing.
LEMMA GoesKeeps ==
  ASSUME OwnersInv, NEW c \in Clients, NEW o \in Operations, NEW k \in ClientStates, k.op = o, NEW j,
         Goes(c, k), job' = [job EXCEPT ![o] = j], Engages(c, o, row[o], j), Beside, dispatch[o] # "none",
         c = "sweep" => row[o].cancel,
         NEW r, r = row[o], Stands(c, k, r, j, o \in cas, dispatch[o])'
  PROVE  OwnersInv' /\ Wins
<1>1. row \in [Operations -> Rows] /\ client \in [Clients -> ClientStates]
  BY DEF OwnersInv, Typed, TypeOK
<1>2. Write(c, o, r, FALSE, k)
  BY <1>1 DEF Write, Goes
<1>3. Turn(c, o, r, FALSE, k, j)
  BY <1>2 DEF Turn
<1> QED BY <1>3, TurnKeeps

LEMMA SameJob ==
  ASSUME OwnersInv, NEW o \in Operations, UNCHANGED job
  PROVE  job' = [job EXCEPT ![o] = job[o]]
BY DEF OwnersInv, Typed, TypeOK

\* The plain cases: a client that leaves, or returns to its task, with the row as it is.
LEMMA ReturnsKeeps ==
  ASSUME OwnersInv, NEW c \in Clients, NEW o \in Operations, NEW k, k = Off(o) \/ \E r : k = Returned(c, o, r),
         Goes(c, k), UNCHANGED job, Beside, dispatch[o] # "none", row[o].state # "absent" \/ k = Off(o),
         c = "sweep" => row[o].cancel
  PROVE  OwnersInv' /\ Wins
<1>1. k \in ClientStates /\ k.op = o /\ k.pc \in {"off", "continuing", "settling"} /\ (k.pc # "off" => c = "task")
  BY PlacesAreStates
<1>2. job' = [job EXCEPT ![o] = job[o]] /\ dispatch'[o] # "none" /\ kind' = kind
  BY SameJob DEF Beside
<1>3. k.pc # "off" => row[o].state # "absent"
  BY PlacesAreStates
<1>4. \E s, j : s = row[o] /\ j = job[o] /\ Stands(c, k, s, j, o \in cas, dispatch[o])'
  <2>1. PICK s, j : s = row[o] /\ j = job[o]
    OBVIOUS
  <2>2. Stands(c, k, s, j, o \in cas, dispatch[o])'
    BY <1>1, <1>2, <1>3, <2>1 DEF Stands, Posted, Asking, Clients
  <2> QED BY <2>1, <2>2
<1>5. PICK s, j : s = row[o] /\ j = job[o] /\ Stands(c, k, s, j, o \in cas, dispatch[o])'
  BY <1>4
<1>6. Engages(c, o, row[o], j)
  BY <1>5 DEF Engages
<1> QED BY <1>1, <1>2, <1>5, <1>6, GoesKeeps

\* A client that writes what one or two transactions made of the row, and leaves or returns.
LEMMA FinishKeeps ==
  ASSUME OwnersInv, NEW c \in Clients, NEW o \in Operations, NEW m, NEW n, NEW b \in BOOLEAN,
         Finish(c, o, m, n, b), UNCHANGED job, Beside, dispatch[o] # "none", c = "sweep" => row[o].cancel,
         Advances(c, o, row[o], m, job[o]), n = Refused \/ Advances(c, o, row[o], n, job[o])
  PROVE  OwnersInv' /\ Wins
<1> DEFINE w == IF n = Refused THEN m ELSE n
           k == IF n = Refused THEN Off(o) ELSE Returned(c, o, n)
<1>1. Write(c, o, w, b, k)
  BY DEF Finish
<1>2. Advances(c, o, row[o], w, job[o])
  OBVIOUS
<1>3. k \in ClientStates /\ k.op = o /\ k.pc \in {"off", "continuing", "settling"} /\ (k.pc # "off" => c = "task")
  BY PlacesAreStates
<1>4. job' = [job EXCEPT ![o] = job[o]] /\ dispatch'[o] # "none" /\ kind' = kind
  BY SameJob DEF Beside
<1> HIDE DEF w, k
<1>5. w.state # "absent"
  BY <1>2 DEF Advances
<1>6. PICK v, l, j : v = w /\ l = k /\ j = job[o]
  OBVIOUS
<1>7. Stands(c, l, v, j, o \in cas, dispatch[o])'
  BY <1>3, <1>4, <1>5, <1>6 DEF Stands, Posted, Asking, Clients
<1>8. Turn(c, o, v, b, l, j)
  BY <1>1, <1>2, <1>3, <1>4, <1>6 DEF Turn, Engages
<1> QED BY <1>7, <1>8, TurnKeeps

-----------------------------------------------------------------------------
(* The turns of a client, one lemma for each action                          *)

\* A client that looks at the row and goes on to another place of the same attempt, its job as it is.
LEMMA LooksKeeps ==
  ASSUME OwnersInv, NEW c \in Clients, NEW o \in Operations, NEW pc \in Pcs \ Asking, Goes(c, At(pc, o)), UNCHANGED job,
         Beside, dispatch[o] # "none", c = "sweep" => row[o].cancel,
         Posted(c, pc, kind[o]), pc # "starting" => row[o].state # "absent", pc = "starting" => row[o] = Absent,
         pc = "verifying" /\ Provided(o) => row[o].state = "running", pc # "stored",
         kind[o] = "export" /\ pc = "storing" => job[o] = "made",
         kind[o] = "export" /\ pc \in {"resolving", "working", "storing"} => row[o].state # "succeeded"
  PROVE  OwnersInv' /\ Wins
<1> DEFINE k == At(pc, o)
<1>1. k \in ClientStates /\ k.op = o /\ k.pc = pc
  BY PlacesAreStates
<1>2. job' = [job EXCEPT ![o] = job[o]] /\ dispatch'[o] # "none" /\ kind' = kind
  BY SameJob DEF Beside
<1> HIDE DEF k
<1>3. PICK l, r, j : l = k /\ r = row[o] /\ j = job[o]
  OBVIOUS
<1>4. Stands(c, l, r, j, o \in cas, dispatch[o])'
  BY <1>1, <1>2, <1>3 DEF Stands, Provided, Asking
<1>5. Engages(c, o, row[o], j)
  BY <1>3 DEF Engages
<1>6. Goes(c, l)
  BY <1>3 DEF k
<1> QED BY <1>1, <1>2, <1>3, <1>4, <1>5, <1>6, GoesKeeps

LEMMA ExecuteKeeps ==
  ASSUME OwnersInv, NEW o \in Operations, Execute(o)
  PROVE  OwnersInv' /\ Wins
<1> DEFINE c == "task"
<1>1. c \in Clients /\ Beside /\ dispatch[o] = "open"
  BY ClientsBeside DEF Execute, Clients, Live
<1>2. kind[o] \in {"derive", "transcribe", "check", "judge", "preview", "export"}
  BY SixKinds DEF OwnersInv
<1>3. Fits(o, row[o], job[o], o \in cas, file[o], dispatch[o])
  BY DEF OwnersInv, RowsFit
<1>4. row[o].state = "absent" <=> row[o] = Absent
  BY <1>3 DEF Fits, Absent
<1>5. {"starting", "continuing"} \subseteq Pcs \ Asking
  BY DEF Pcs, Asking
<1>6. CASE Goes("task", At("starting", o)) /\ UNCHANGED job /\ row[o] = Absent /\ kind[o] \notin {"preview", "export"}
  <2>1. Posted(c, "starting", kind[o])
    BY <1>2, <1>6 DEF Posted
  <2> QED BY <1>1, <1>5, <1>6, <2>1, LooksKeeps
<1>7. CASE Goes("task", At("continuing", o)) /\ UNCHANGED job /\ row[o] # Absent
  <2>1. Posted(c, "continuing", kind[o])
    BY DEF Posted
  <2> QED BY <1>1, <1>4, <1>5, <1>7, <2>1, LooksKeeps
<1>8. CASE /\ Write("task", o, registerOperationDispatch(o), TRUE, At("continuing", o)) /\ UNCHANGED job
           /\ row[o] = Absent /\ kind[o] = "export"
  <2>1. PICK k, n, j : k = At("continuing", o) /\ n = registerOperationDispatch(o) /\ j = job[o]
    OBVIOUS
  <2>2. k \in ClientStates /\ k.op = o /\ k.pc = "continuing"
    BY <1>1, <1>5, <2>1, PlacesAreStates
  <2>3. n.state = "running"
    BY <2>1, RegisteredIsRow
  <2>4. job' = [job EXCEPT ![o] = job[o]]
    BY <1>8, SameJob
  <2>5. Turn(c, o, n, TRUE, k, j)
    BY <1>8, <2>1, <2>2, <2>4 DEF Turn, Engages
  <2>6. dispatch'[o] # "none" /\ kind' = kind
    BY <1>1 DEF Beside
  <2>7. Stands(c, k, n, j, o \in cas, dispatch[o])'
    BY <2>2, <2>3, <2>6 DEF Stands, Posted, Asking
  <2> QED BY <1>1, <2>5, <2>7, TurnKeeps
<1>9. kind[o] = "preview" => row[o] # Absent
  BY <1>1, <1>3 DEF Fits, Absent
<1> QED BY <1>2, <1>6, <1>7, <1>8, <1>9
        DEF Execute, Executes, Derives, Assesses, executeMediaDeriveBoundary, executeEvaluationRunBoundary,
            executeDeliveryPreviewBoundary, executeDeliveryExportBoundary

LEMMA PreparedKeeps ==
  ASSUME OwnersInv, NEW c \in Clients, NEW o, o = client[c].op, client[c].pc = "starting", Prepared(c, o),
         unchangedByClients, UNCHANGED job
  PROVE  OwnersInv' /\ Wins
<1>1. /\ o \in Operations /\ dispatch[o] # "none" /\ row[o] = Absent /\ c = "task" /\ Beside
  BY Standing, ClientsBeside DEF Stands, Posted
<1>2. CASE Throws(c, o)
  BY <1>1, <1>2, ReturnsKeeps DEF Throws
<1>3. ASSUME NEW k, k = Off(o) \/ k = [Off(o) EXCEPT !.pc = "continuing"], Write(c, o, registerOperationDispatch(o), TRUE, k)
      PROVE  OwnersInv' /\ Wins
  <2>1. PICK n, j : n = registerOperationDispatch(o) /\ j = job[o]
    OBVIOUS
  <2>2. Off(o) \in ClientStates /\ Off(o).op = o /\ Off(o).pc = "off" /\ "continuing" \in Pcs
    BY <1>1, PlacesAreStates DEF Pcs
  <2>3. k \in ClientStates /\ k.op = o /\ k.pc \in {"off", "continuing"}
    BY <1>3, <2>2 DEF ClientStates
  <2>4. n.state = "running"
    BY <2>1, RegisteredIsRow
  <2>5. job' = [job EXCEPT ![o] = job[o]]
    BY <1>1, SameJob
  <2>6. Turn(c, o, n, TRUE, k, j)
    BY <1>1, <1>3, <2>1, <2>3, <2>5 DEF Turn, Engages
  <2>7. dispatch'[o] # "none" /\ kind' = kind
    BY <1>1 DEF Beside
  <2>8. Stands(c, k, n, j, o \in cas, dispatch[o])'
    BY <1>1, <2>3, <2>4, <2>7 DEF Stands, Posted, Asking
  <2> QED BY <1>1, <2>6, <2>8, TurnKeeps
<1> QED BY <1>2, <1>3 DEF Prepared

\* An operation of the host that aborts the work of a child and waits for it to stop.
LEMMA StopsKeeps ==
  ASSUME OwnersInv, NEW c \in Clients, NEW o \in Operations, NEW b \in BOOLEAN, Write(c, o, row[o], b, At("stopping", o)),
         AbortJob(o), Beside, dispatch[o] # "none", c = "sweep" => row[o].cancel, row[o].state # "absent",
         kind[o] \in {"derive", "preview", "export"}
  PROVE  OwnersInv' /\ Wins
<1>1. PICK k, n, j : k = At("stopping", o) /\ n = row[o] /\ j = Aborted(o)
  OBVIOUS
<1>2. k \in ClientStates /\ k.op = o /\ k.pc = "stopping"
  BY <1>1, PlacesAreStates DEF Pcs
<1>3. Turn(c, o, n, b, k, j)
  BY <1>1, <1>2 DEF Turn, Engages, AbortJob, Provided
<1>4. dispatch'[o] # "none" /\ kind' = kind
  BY DEF Beside
<1>5. Stands(c, k, n, j, o \in cas, dispatch[o])'
  BY <1>1, <1>2, <1>4 DEF Stands, Posted, Asking
<1> QED BY <1>3, <1>5, TurnKeeps

LEMMA CancelLocalKeeps ==
  ASSUME OwnersInv, NEW c \in Clients, NEW o \in Operations, cancelLocal(c, o), Beside, dispatch[o] # "none",
         c = "sweep" => row[o].cancel, row[o].state # "absent", kind[o] = "derive"
  PROVE  OwnersInv' /\ Wins
<1>1. CASE Goes(c, Returned(c, o, row[o])) /\ UNCHANGED job
  BY <1>1, ReturnsKeeps
<1>2. CASE Goes(c, At("stopping", o)) /\ AbortJob(o)
  <2>1. row \in [Operations -> Rows] /\ client \in [Clients -> ClientStates]
    BY DEF OwnersInv, Typed, TypeOK
  <2>2. PICK k : k = At("stopping", o)
    OBVIOUS
  <2>3. k \in ClientStates /\ Goes(c, k)
    BY <1>2, <2>2, PlacesAreStates DEF Pcs
  <2>4. Write(c, o, row[o], FALSE, k)
    BY <2>1, <2>3 DEF Write, Goes
  <2> QED BY <1>2, <2>2, <2>4, StopsKeeps
<1> QED BY <1>1, <1>2 DEF cancelLocal

\* A derivation's child, or a delivery's, is started.
LEMMA WorksKeeps ==
  ASSUME OwnersInv, NEW c \in Clients, NEW o \in Operations, Goes(c, At("working", o)), job' = [job EXCEPT ![o] = "working"],
         Beside, dispatch[o] # "none", c = "task", row[o].state # "absent", kind[o] \in {"derive", "preview", "export"},
         kind[o] = "export" => row[o].state # "succeeded"
  PROVE  OwnersInv' /\ Wins
<1>1. PICK k, n, j : k = At("working", o) /\ n = row[o] /\ j = "working"
  OBVIOUS
<1>2. k \in ClientStates /\ k.op = o /\ k.pc = "working"
  BY <1>1, PlacesAreStates DEF Pcs
<1>3. Engages(c, o, row[o], j)
  BY <1>1 DEF Engages, Provided
<1>4. dispatch'[o] # "none" /\ kind' = kind
  BY DEF Beside
<1>5. Stands(c, k, n, j, o \in cas, dispatch[o])'
  BY <1>1, <1>2, <1>4 DEF Stands, Posted, Asking, Provided
<1> QED BY <1>1, <1>2, <1>3, <1>5, GoesKeeps

\* A client that asks a provider, with the row as it is or as the transaction before left it.
LEMMA AsksKeeps ==
  ASSUME OwnersInv, NEW c \in Clients, NEW o \in Operations, NEW n, NEW b \in BOOLEAN, NEW k \in ClientStates,
         Write(c, o, n, b, k), UNCHANGED job, Beside, dispatch[o] # "none", c = "sweep" => row[o].cancel,
         Advances(c, o, row[o], n, job[o]), k.op = o, k.pc \in {"reconciling", "cancelling"}, k.answer = "none",
         kind[o] \in {"transcribe", "judge"}, kind[o] = "judge" /\ c = "sweep" => k.asked,
         kind[o] = "judge" /\ k.pc = "reconciling" /\ k.fresh => ~Terminal(n) /\ k.asked = n.cancel
  PROVE  OwnersInv' /\ Wins
<1>1. job' = [job EXCEPT ![o] = job[o]]
  BY SameJob
<1>2. PICK j : j = job[o]
  OBVIOUS
<1>3. Turn(c, o, n, b, k, j)
  BY <1>1, <1>2 DEF Turn, Engages
<1>4. dispatch'[o] # "none" /\ kind' = kind
  BY DEF Beside
<1>5. n.cancel = row[o].cancel /\ n.state # "absent"
  BY DEF Advances
<1>6. Holds(k.answer, j)
  BY DEF Holds, Ended
<1>7. Stands(c, k, n, j, o \in cas, dispatch[o])'
  BY <1>4, <1>5, <1>6 DEF Stands, Posted, Asking, Provided
<1> QED BY <1>3, <1>7, TurnKeeps

\* reconcileOrCancelDerivation on a row that one transaction, or none, advanced.
LEMMA ReconcilesKeeps ==
  ASSUME OwnersInv, NEW c \in Clients, NEW o \in Operations, NEW n, NEW b \in BOOLEAN,
         reconcileOrCancelDerivation(c, o, n, b), UNCHANGED job, Beside, dispatch[o] # "none",
         c = "sweep" => row[o].cancel, Advances(c, o, row[o], n, job[o]), kind[o] = "transcribe"
  PROVE  OwnersInv' /\ Wins
<1>1. CASE Terminal(n) /\ Write(c, o, n, b, Returned(c, o, n))
  <2>1. Finish(c, o, n, n, b)
    BY <1>1, AbsentIsRow DEF Finish, Advances
  <2> QED BY <2>1, FinishKeeps
<1>2. ASSUME NEW pc \in {"reconciling", "cancelling"}, Write(c, o, n, b, At(pc, o)) PROVE OwnersInv' /\ Wins
  <2>1. PICK k : k = At(pc, o)
    OBVIOUS
  <2>2. k \in ClientStates /\ k.op = o /\ k.pc = pc /\ k.answer = "none"
    BY <2>1, PlacesAreStates DEF Pcs
  <2> QED BY <1>2, <2>1, <2>2, AsksKeeps
<1> QED BY <1>1, <1>2 DEF reconcileOrCancelDerivation

LEMMA ContinueDerivationKeeps ==
  ASSUME OwnersInv, NEW c \in Clients, NEW o \in Operations, continueDerivation(c, o), Derives(o), Beside,
         dispatch[o] # "none", c = "sweep" => row[o].cancel, row[o].state # "absent"
  PROVE  OwnersInv' /\ Wins
<1>1. row[o] \in Rows /\ Fits(o, row[o], job[o], o \in cas, file[o], dispatch[o])
  BY DEF OwnersInv, Typed, TypeOK, RowsFit
<1>2. c # "task" => row[o].cancel
  BY DEF Clients
<1>3. CASE Terminal(row[o])
  BY <1>3, ReturnsKeeps DEF continueDerivation
<1>4. CASE ~Terminal(row[o]) /\ Provided(o)
  <2>1. kind[o] = "transcribe" /\ continueTranscription(c, o) /\ UNCHANGED job
    BY <1>4 DEF continueDerivation, continueTranscription, Derives, Provided
  <2>2. CASE row[o].state \in {"unknown", "submitted"}
    <3>1. PICK n : n = row[o]
      OBVIOUS
    <3>2. reconcileOrCancelDerivation(c, o, n, FALSE) /\ Advances(c, o, row[o], n, job[o])
      BY <1>1, <2>1, <2>2, <3>1, AdvancesStill DEF continueTranscription
    <3> QED BY <2>1, <3>2, ReconcilesKeeps
  <2>3. CASE row[o].state \notin {"unknown", "submitted"}
    <3>1. row[o].state = "running" /\ job[o] = "none"
      BY <1>1, <1>4, <2>1, <2>3 DEF Rows, States, Terminal, Fits
    <3>2. CASE row[o].cancel
      <4>1. Finish(c, o, row[o], finishDerivation(o, row[o], "cancelled", FALSE, FALSE, FALSE), FALSE)
        BY <2>1, <2>3, <3>2 DEF continueTranscription
      <4>2. PICK m, n : m = row[o] /\ n = finishDerivation(o, row[o], "cancelled", FALSE, FALSE, FALSE)
        OBVIOUS
      <4>3. n = Refused \/ Advances(c, o, row[o], n, job[o])
        BY <1>1, <3>1, <4>2, FinishDerivationAdvances
      <4>4. Advances(c, o, row[o], m, job[o])
        BY <1>1, <4>2, AdvancesStill
      <4> QED BY <2>1, <4>1, <4>2, <4>3, <4>4, FinishKeeps
    <3>3. CASE ~row[o].cancel
      <4>1. c = "task" /\ (Goes(c, At("verifying", o)) \/ Throws(c, o))
        BY <1>2, <2>1, <2>3, <3>3 DEF continueTranscription
      <4>2. CASE Goes(c, At("verifying", o))
        <5>1. Posted(c, "verifying", kind[o]) /\ "verifying" \in Pcs \ Asking
          BY <2>1, <4>1 DEF Posted, Pcs, Asking
        <5> QED BY <2>1, <3>1, <4>2, <5>1, LooksKeeps
      <4> QED BY <2>1, <4>1, <4>2, ReturnsKeeps DEF Throws
    <3> QED BY <3>2, <3>3
  <2> QED BY <2>2, <2>3
<1>5. CASE ~Terminal(row[o]) /\ ~Provided(o)
  <2>1. kind[o] = "derive" /\ continueLocal(c, o)
    BY <1>5 DEF continueDerivation, Derives, Provided
  <2>2. CASE row[o].cancel
    BY <2>1, <2>2, CancelLocalKeeps DEF continueLocal
  <2>3. CASE ~row[o].cancel
    <3>1. c = "task" /\ UNCHANGED job /\ (Goes(c, At("verifying", o)) \/ Throws(c, o))
      BY <1>2, <2>1, <2>3 DEF continueLocal
    <3>2. CASE Goes(c, At("verifying", o))
      <4>1. Posted(c, "verifying", kind[o]) /\ "verifying" \in Pcs \ Asking /\ ~Provided(o)
        BY <2>1, <3>1 DEF Posted, Pcs, Asking, Provided
      <4> QED BY <2>1, <3>1, <3>2, <4>1, LooksKeeps
    <3> QED BY <3>1, <3>2, ReturnsKeeps DEF Throws
  <2> QED BY <2>2, <2>3
<1> QED BY <1>3, <1>4, <1>5

\* The program's own assessment, in its one transaction.
LEMMA ExecuteLocalKeeps ==
  ASSUME OwnersInv, NEW c \in Clients, NEW o, o = client[c].op, client[c].pc = "continuing", executeLocal(c, o), kind[o] = "check", Beside
  PROVE  OwnersInv' /\ Wins
<1>1. /\ o \in Operations /\ dispatch[o] # "none" /\ row[o] \in Rows /\ row[o].state # "absent" /\ c = "task"
      /\ UNCHANGED job /\ ~Provided(o)
  BY Standing DEF executeLocal, Posted, Provided
<1>2. Advances(c, o, row[o], row[o], job[o])
  BY <1>1, AdvancesStill
<1>3. CASE Throws(c, o)
  BY <1>1, <1>3, ReturnsKeeps DEF Throws
<1>4. ASSUME NEW n, Finish(c, o, row[o], n, FALSE), n = Refused \/ Advances(c, o, row[o], n, job[o])
      PROVE  OwnersInv' /\ Wins
  <2>1. PICK m : m = row[o]
    OBVIOUS
  <2> QED BY <1>1, <1>2, <1>4, <2>1, FinishKeeps
<1>5. ASSUME NEW s \in {"failed", "cancelled"}, NEW n, n = finishAssessment(o, row[o], s, FALSE, FALSE)
      PROVE  n = Refused \/ Advances(c, o, row[o], n, job[o])
  BY <1>1, <1>5, FinishAssessmentAdvances
<1>6. ASSUME NEW n, n = publishAssessment(o, row[o]), ~row[o].cancel
      PROVE  n = Refused \/ Advances(c, o, row[o], n, job[o])
  BY <1>1, <1>6, PublishAssessmentAdvances
<1> QED BY <1>3, <1>4, <1>5, <1>6 DEF executeLocal

\* A judgement's first question, or none.
LEMMA ReconcilesAssessmentKeeps ==
  ASSUME OwnersInv, NEW c \in Clients, NEW o \in Operations, NEW k, Goes(c, k),
         k = At("reconciling", o) \/ k = [At("reconciling", o) EXCEPT !.turn = client[c].turn],
         UNCHANGED job, Beside, dispatch[o] # "none", c = "sweep" => row[o].cancel, row[o].state # "absent",
         ~Terminal(row[o]), kind[o] = "judge"
  PROVE  OwnersInv' /\ Wins
<1>1. /\ row \in [Operations -> Rows] /\ client \in [Clients -> ClientStates] /\ client[c].turn \in 1..2
  BY DEF OwnersInv, Typed, TypeOK, ClientStates
<1>2. PICK a : a = At("reconciling", o)
  OBVIOUS
<1>3. a \in ClientStates /\ a.op = o /\ a.pc = "reconciling" /\ a.answer = "none" /\ a.asked = row[o].cancel
  BY <1>2, PlacesAreStates DEF Pcs
<1>4. k \in ClientStates /\ k.op = o /\ k.pc = "reconciling" /\ k.answer = "none" /\ k.asked = row[o].cancel
  BY <1>1, <1>2, <1>3 DEF ClientStates
<1>5. PICK n : n = row[o]
  OBVIOUS
<1>6. Write(c, o, n, FALSE, k)
  BY <1>1, <1>5 DEF Write, Goes
<1>7. Advances(c, o, row[o], n, job[o])
  BY <1>1, <1>5, AdvancesStill
<1> QED BY <1>4, <1>5, <1>6, <1>7, AsksKeeps

\* The sweep, or the Run's task, acknowledges that a delivery is to stop.
LEMMA AcknowledgeDeliveryKeeps ==
  ASSUME OwnersInv, NEW c \in Clients, NEW o \in Operations, acknowledgeDelivery(c, o), Delivers(o), Beside,
         dispatch[o] # "none", c = "sweep" => row[o].cancel, row[o].state # "absent"
  PROVE  OwnersInv' /\ Wins
BY StopsKeeps DEF acknowledgeDelivery, Delivers

LEMMA SweepKeeps ==
  ASSUME OwnersInv, NEW o \in Operations, Sweep(o)
  PROVE  OwnersInv' /\ Wins
<1> DEFINE c == "sweep"
<1>1. c \in Clients /\ Beside /\ row[o].cancel /\ ~Terminal(row[o])
  BY ClientsBeside DEF Sweep, Clients, Requested
<1>2. row[o] # Absent /\ row[o] \in Rows /\ Fits(o, row[o], job[o], o \in cas, file[o], dispatch[o])
  BY <1>1 DEF Absent, OwnersInv, Typed, TypeOK, RowsFit
<1>3. dispatch[o] # "none" /\ row[o].state # "absent"
  BY <1>2 DEF Fits
<1>4. kind[o] \in {"derive", "transcribe", "check", "judge", "preview", "export"}
  BY SixKinds DEF OwnersInv
<1>5. CASE Derives(o)
  <2>1. continueDerivation("sweep", o)
    BY <1>5 DEF Sweep, Derives, Assesses, Delivers
  <2> QED BY <1>1, <1>3, <1>5, <2>1, ContinueDerivationKeeps
<1>6. CASE kind[o] = "check"
  <2>1. /\ Finish(c, o, row[o], finishAssessment(o, row[o], "cancelled", FALSE, FALSE), FALSE)
        /\ UNCHANGED job /\ ~Provided(o)
    BY <1>6 DEF Sweep, Derives, Assesses, Delivers, acknowledgeAssessment, Provided
  <2>2. PICK m, n : m = row[o] /\ n = finishAssessment(o, row[o], "cancelled", FALSE, FALSE)
    OBVIOUS
  <2>3. n = Refused \/ Advances(c, o, row[o], n, job[o])
    BY <1>2, <1>3, <2>1, <2>2, FinishAssessmentAdvances
  <2>4. Advances(c, o, row[o], m, job[o])
    BY <1>2, <1>3, <2>2, AdvancesStill
  <2> QED BY <1>1, <1>3, <2>1, <2>2, <2>3, <2>4, FinishKeeps
<1>7. CASE kind[o] = "judge"
  <2>1. PICK k : k = At("reconciling", o)
    OBVIOUS
  <2>2. Goes(c, k) /\ UNCHANGED job
    BY <1>7, <2>1 DEF Sweep, Derives, Assesses, Delivers, acknowledgeAssessment
  <2> QED BY <1>1, <1>3, <1>7, <2>1, <2>2, ReconcilesAssessmentKeeps
<1>8. CASE Delivers(o)
  BY <1>1, <1>3, <1>8, AcknowledgeDeliveryKeeps DEF Sweep, Derives, Assesses, Delivers
<1> QED BY <1>4, <1>5, <1>6, <1>7, <1>8 DEF Derives, Delivers

LEMMA ContinueKeeps ==
  ASSUME OwnersInv, NEW c \in Clients, Continue(c)
  PROVE  OwnersInv' /\ Wins
<1>1. PICK o : o = client[c].op
  OBVIOUS
<1>2. client[c].pc = "continuing" /\ Beside
  BY ClientsBeside DEF Continue
<1>3. /\ o \in Operations /\ dispatch[o] # "none" /\ row[o] \in Rows /\ row[o].state # "absent" /\ c = "task"
      /\ kind[o] \in {"derive", "transcribe", "check", "judge", "preview", "export"}
  BY <1>1, <1>2, Standing DEF Posted
<1>4. CASE Throws(c, o) /\ UNCHANGED job
  BY <1>2, <1>3, <1>4, ReturnsKeeps DEF Throws
<1>5. CASE Goes(c, Returned(c, o, row[o])) /\ UNCHANGED job
  BY <1>2, <1>3, <1>5, ReturnsKeeps
<1>6. CASE Derives(o) /\ continueDerivation(c, o)
  BY <1>2, <1>3, <1>6, ContinueDerivationKeeps
<1>7. CASE Assesses(o) /\ ~Terminal(row[o]) /\ continueAssessment(c, o)
  <2>1. CASE kind[o] = "check"
    BY <1>1, <1>2, <1>7, <2>1, ExecuteLocalKeeps DEF continueAssessment
  <2>2. CASE kind[o] = "judge"
    <3>1. UNCHANGED job /\ (Throws(c, o) \/ Goes(c, [At("reconciling", o) EXCEPT !.turn = client[c].turn]))
      BY <1>7, <2>2 DEF continueAssessment, reconcileOrCancelAssessment
    <3>2. CASE Goes(c, [At("reconciling", o) EXCEPT !.turn = client[c].turn])
      BY <1>2, <1>3, <1>7, <2>2, <3>1, <3>2, ReconcilesAssessmentKeeps
    <3> QED BY <1>4, <3>1, <3>2
  <2> QED BY <1>7, <2>1, <2>2 DEF Assesses
<1>8. CASE Delivers(o) /\ acknowledgeDelivery(c, o)
  BY <1>2, <1>3, <1>8, AcknowledgeDeliveryKeeps
<1>9. CASE /\ kind[o] = "preview" /\ Goes(c, At("working", o)) /\ job' = [job EXCEPT ![o] = "working"]
  BY <1>2, <1>3, <1>9, WorksKeeps
<1>10. CASE kind[o] = "export" /\ ~Terminal(row[o]) /\ Goes(c, At("resolving", o)) /\ UNCHANGED job
  <2>1. Posted(c, "resolving", kind[o]) /\ "resolving" \in Pcs \ Asking /\ row[o].state # "succeeded"
    BY <1>3, <1>10 DEF Posted, Pcs, Asking, Terminal, Ended
  <2> QED BY <1>2, <1>3, <1>10, <2>1, LooksKeeps
<1> QED BY <1>1, <1>3, <1>4, <1>5, <1>6, <1>7, <1>8, <1>9, <1>10
        DEF Continue, Derives, Assesses, Delivers, renderReview, exportDelivery

\* A settled dispatch is not one that was never made.
LEMMA SettleKeeps ==
  ASSUME OwnersInv, NEW c \in Clients, Settle(c)
  PROVE  OwnersInv' /\ Wins
<1>1. PICK o : o = client[c].op
  OBVIOUS
<1>2. client[c].pc = "settling" /\ Throws(c, o) /\ UNCHANGED job
  BY <1>1 DEF Settle
<1>3. o \in Operations /\ dispatch[o] # "none" /\ (c = "sweep" => row[o].cancel)
  BY <1>1, <1>2, Standing
<1>4. PICK s : dispatch' = [dispatch EXCEPT ![o] = s] /\ s \in {dispatch[o], "settled"}
  BY <1>1 DEF Settle
<1>5. Beside
  <2>1. dispatch \in [Operations -> {"none", "asked", "open", "settled"}] /\ cas \subseteq Operations
    BY DEF OwnersInv, Typed, TypeOK
  <2>2. /\ dispatch' \in [Operations -> {"none", "asked", "open", "settled"}]
        /\ \A p \in Operations : dispatch'[p] = "none" <=> dispatch[p] = "none"
    BY <1>3, <1>4, <2>1
  <2>3. UNCHANGED <<kind, run, moved, cas, file, granted, crashes>>
    BY DEF Settle
  <2> QED BY <2>1, <2>2, <2>3 DEF Beside
<1> QED BY <1>2, <1>3, <1>5, ReturnsKeeps DEF Throws

\* The doubt is written, and the request leaves.
LEMMA SubmitTranscriptionKeeps ==
  ASSUME OwnersInv, NEW c \in Clients, NEW o, o = client[c].op, client[c].pc = "verifying", kind[o] = "transcribe",
         submitTranscription(c, o), Beside
  PROVE  OwnersInv' /\ Wins
<1>1. /\ o \in Operations /\ dispatch[o] # "none" /\ row[o] \in Rows /\ row[o].state # "absent" /\ c = "task"
      /\ Stands(c, client[c], row[o], job[o], o \in cas, dispatch[o])
  BY Standing DEF Posted
<1>2. row[o].cancel \/ row[o].state = "running"
  BY <1>1 DEF Stands, Provided
<1>3. PICK n : n = markDerivationUnknown(o, row[o])
  OBVIOUS
<1>4. n = Refused \/ Advances(c, o, row[o], n, job[o])
  BY <1>1, <1>3, DerivationUnknownAdvances
<1>5. n # Refused /\ (n.cancel \/ n.state = "unknown")
  <2>1. "unknown" \in AttemptStateTransitions["running"] /\ "unknown" \in AttemptStateTransitions["submitted"]
    BY DEF AttemptStateTransitions
  <2>2. CASE Terminal(row[o]) \/ row[o].state = "unknown"
    BY <1>1, <1>2, <1>3, <2>2, AbsentIsRow DEF markDerivationUnknown, Terminal, Ended
  <2>3. CASE ~(Terminal(row[o]) \/ row[o].state = "unknown")
    <3> DEFINE m == [row[o] EXCEPT !.state = "unknown"]
    <3>1. row[o].state \in {"running", "submitted"} /\ m.cancel = row[o].cancel /\ m.state = "unknown" /\ m.receipt = row[o].receipt
          /\ m \in Rows
      BY <1>1, <2>3 DEF Rows, States, Terminal
    <3> HIDE DEF m
    <3>2. transitionMediaDerivationOwner(o, row[o], m, FALSE) = m
      BY <2>1, <3>1 DEF transitionMediaDerivationOwner, assertAttemptCommonTransition, assertAttemptStateTransition, Provided
    <3>3. n = m
      BY <1>3, <2>3, <3>2 DEF markDerivationUnknown, m
    <3> QED BY <3>1, <3>3, AbsentIsRow
  <2> QED BY <2>2, <2>3
<1>6. n.cancel = row[o].cancel /\ Advances(c, o, row[o], n, job[o])
  BY <1>4, <1>5 DEF Advances
<1>7. CASE n.cancel
  <2>1. reconcileOrCancelDerivation(c, o, n, FALSE) /\ UNCHANGED job
    BY <1>3, <1>7 DEF submitTranscription
  <2> QED BY <1>1, <1>6, <2>1, ReconcilesKeeps
<1>8. CASE ~n.cancel
  <2>1. PICK k, j : k = At("submitting", o) /\ j = IF job[o] = "none" THEN "sent" ELSE job[o]
    OBVIOUS
  <2>2. k \in ClientStates /\ k.op = o /\ k.pc = "submitting" /\ k.answer = "none"
    BY <1>1, <2>1, PlacesAreStates DEF Pcs
  <2>3. Write(c, o, n, FALSE, k) /\ job' = [job EXCEPT ![o] = j]
    BY <1>3, <1>8, <2>1 DEF submitTranscription, Sends
  <2>4. Engages(c, o, n, j)
    BY <1>1, <1>5, <1>8, <2>1 DEF Engages, Provided, Ended
  <2>5. Turn(c, o, n, FALSE, k, j)
    BY <1>1, <1>6, <2>2, <2>3, <2>4 DEF Turn
  <2>6. dispatch'[o] # "none" /\ kind' = kind
    BY <1>1 DEF Beside
  <2>7. Stands(c, k, n, j, o \in cas, dispatch[o])'
    BY <1>1, <1>5, <1>8, <2>2, <2>6 DEF Stands, Posted, Asking, Holds, Ended
  <2> QED BY <1>1, <2>5, <2>7, TurnKeeps
<1> QED BY <1>7, <1>8

LEMMA VerifiedKeeps ==
  ASSUME OwnersInv, NEW c \in Clients, Verified(c)
  PROVE  OwnersInv' /\ Wins
<1>1. PICK o : o = client[c].op
  OBVIOUS
<1>2. client[c].pc = "verifying" /\ Beside
  BY ClientsBeside DEF Verified
<1>3. /\ o \in Operations /\ dispatch[o] # "none" /\ row[o] \in Rows /\ row[o].state # "absent" /\ c = "task"
      /\ kind[o] \in {"derive", "transcribe"}
  BY <1>1, <1>2, Standing DEF Posted
<1>4. CASE kind[o] = "transcribe"
  BY <1>1, <1>2, <1>4, SubmitTranscriptionKeeps DEF Verified, Provided
<1>5. CASE kind[o] = "derive"
  <2>1. deriveLocal(c, o)
    BY <1>1, <1>5 DEF Verified, Provided
  <2>2. CASE cancelLocal(c, o)
    BY <1>2, <1>3, <1>5, <2>2, CancelLocalKeeps
  <2>3. CASE Goes(c, At("working", o)) /\ job' = [job EXCEPT ![o] = "working"]
    BY <1>2, <1>3, <1>5, <2>3, WorksKeeps
  <2> QED BY <2>1, <2>2, <2>3 DEF deriveLocal
<1> QED BY <1>3, <1>4, <1>5

\* One transaction on the row as it stands.
LEMMA OneTransactionKeeps ==
  ASSUME OwnersInv, NEW c \in Clients, NEW o \in Operations, NEW n, Finish(c, o, row[o], n, FALSE), UNCHANGED job, Beside,
         dispatch[o] # "none", c = "sweep" => row[o].cancel, row[o].state # "absent",
         n = Refused \/ Advances(c, o, row[o], n, job[o])
  PROVE  OwnersInv' /\ Wins
<1>1. PICK m : m = row[o]
  OBVIOUS
<1>2. Advances(c, o, row[o], m, job[o])
  BY <1>1, AdvancesStill DEF OwnersInv, Typed, TypeOK
<1> QED BY <1>1, <1>2, FinishKeeps

LEMMA ResolvedKeeps ==
  ASSUME OwnersInv, NEW c \in Clients, Resolved(c)
  PROVE  OwnersInv' /\ Wins
<1>1. PICK o : o = client[c].op
  OBVIOUS
<1>2. client[c].pc = "resolving" /\ Beside /\ resolveGrant(c, o)
  BY <1>1, ClientsBeside DEF Resolved
<1>3. /\ o \in Operations /\ dispatch[o] # "none" /\ row[o] \in Rows /\ row[o].state # "absent" /\ c = "task"
      /\ kind[o] = "export" /\ Stands(c, client[c], row[o], job[o], o \in cas, dispatch[o])
  BY <1>1, <1>2, Standing DEF Posted
<1>4. row[o].state # "succeeded" /\ ~Provided(o)
  BY <1>1, <1>2, <1>3 DEF Stands, Provided
<1>5. CASE Goes(c, At("working", o)) /\ job' = [job EXCEPT ![o] = "working"]
  BY <1>2, <1>3, <1>4, <1>5, WorksKeeps
<1>6. CASE Finish(c, o, row[o], finishWithoutOutput(row[o]), FALSE) /\ UNCHANGED job
  <2>1. PICK n : n = finishWithoutOutput(row[o])
    OBVIOUS
  <2>2. n = Refused \/ Advances(c, o, row[o], n, job[o])
    BY <1>3, <1>4, <2>1, WithoutOutputAdvances
  <2> QED BY <1>2, <1>3, <1>6, <2>1, <2>2, OneTransactionKeeps
<1> QED BY <1>2, <1>5, <1>6 DEF resolveGrant

LEMMA WorkedKeeps ==
  ASSUME OwnersInv, NEW c \in Clients, Worked(c)
  PROVE  OwnersInv' /\ Wins
<1>1. PICK o : o = client[c].op
  OBVIOUS
<1>2. client[c].pc = "working" /\ Beside
  BY ClientsBeside DEF Worked
<1>3. /\ o \in Operations /\ dispatch[o] # "none" /\ row[o] \in Rows /\ row[o].state # "absent" /\ c = "task"
      /\ kind[o] \in {"derive", "preview", "export"} /\ Stands(c, client[c], row[o], job[o], o \in cas, dispatch[o])
  BY <1>1, <1>2, Standing DEF Posted
<1>4. ~Provided(o) /\ (kind[o] = "export" => row[o].state # "succeeded")
  BY <1>1, <1>2, <1>3 DEF Stands, Provided
<1>5. CASE job[o] = "made" /\ Goes(c, At("storing", o)) /\ UNCHANGED job
  <2>1. Posted(c, "storing", kind[o]) /\ "storing" \in Pcs \ Asking
    BY <1>3 DEF Posted, Pcs, Asking
  <2> QED BY <1>2, <1>3, <1>4, <1>5, <2>1, LooksKeeps
<1>6. CASE Finish(c, o, row[o], finishWithoutOutput(row[o]), FALSE) /\ UNCHANGED job
  <2>1. PICK n : n = finishWithoutOutput(row[o])
    OBVIOUS
  <2>2. n = Refused \/ Advances(c, o, row[o], n, job[o])
    BY <1>3, <1>4, <2>1, WithoutOutputAdvances
  <2> QED BY <1>2, <1>3, <1>6, <2>1, <2>2, OneTransactionKeeps
<1>7. CASE Finish(c, o, row[o], finishDerivation(o, row[o], "failed", FALSE, FALSE, FALSE), FALSE) /\ UNCHANGED job
  <2>1. PICK n : n = finishDerivation(o, row[o], "failed", FALSE, FALSE, FALSE)
    OBVIOUS
  <2>2. n = Refused \/ Advances(c, o, row[o], n, job[o])
    BY <1>3, <1>4, <2>1, FinishDerivationAdvances
  <2> QED BY <1>2, <1>3, <1>7, <2>1, <2>2, OneTransactionKeeps
<1>8. CASE kind[o] = "derive" /\ cancelLocal(c, o)
  BY <1>2, <1>3, <1>8, CancelLocalKeeps
<1> QED BY <1>1, <1>3, <1>5, <1>6, <1>7, <1>8 DEF Worked, Delivers, rendered, derivedLocal

\* The output is in the store before anything names it.
LEMMA PutBlobKeeps ==
  ASSUME OwnersInv, NEW c \in Clients, PutBlob(c)
  PROVE  OwnersInv' /\ Wins
<1>1. PICK o : o = client[c].op
  OBVIOUS
<1>2. client[c].pc = "storing"
  BY DEF PutBlob
<1>3. /\ o \in Operations /\ dispatch[o] # "none" /\ row[o] \in Rows /\ row[o].state # "absent"
      /\ Stands(c, client[c], row[o], job[o], o \in cas, dispatch[o]) /\ client[c] \in ClientStates
      /\ (c = "sweep" => row[o].cancel) /\ Posted(c, client[c].pc, kind[o])
  BY <1>1, <1>2, Standing
<1>4. Beside /\ UNCHANGED job
  BY <1>1, <1>3 DEF PutBlob, Beside, OwnersInv, Typed, TypeOK
<1>5. CASE Throws(c, o)
  BY <1>3, <1>4, <1>5, ReturnsKeeps DEF Throws
<1>6. CASE cas' = cas \cup {o} /\ Goes(c, [client[c] EXCEPT !.pc = "stored"])
  <2>1. PICK k, r, j : k = [client[c] EXCEPT !.pc = "stored"] /\ r = row[o] /\ j = job[o]
    OBVIOUS
  <2>2. "stored" \in Pcs
    BY DEF Pcs
  <2>3. k \in ClientStates /\ k.op = o /\ k.pc = "stored"
    BY <1>1, <1>3, <2>1, <2>2 DEF ClientStates
  <2>4. job' = [job EXCEPT ![o] = j] /\ Engages(c, o, row[o], j) /\ Goes(c, k)
    BY <1>3, <1>4, <1>6, <2>1, SameJob DEF Engages
  <2>5. dispatch'[o] # "none" /\ kind' = kind /\ o \in cas'
    BY <1>3, <1>4, <1>6 DEF Beside
  <2>6. Posted(c, "stored", kind[o])
    BY <1>2, <1>3 DEF Posted
  <2>7. kind[o] = "export" => j = "made" /\ r.state # "succeeded"
    BY <1>1, <1>2, <1>3, <2>1 DEF Stands
  <2>8. Stands(c, k, r, j, o \in cas, dispatch[o])'
    BY <1>3, <2>1, <2>3, <2>5, <2>6, <2>7 DEF Stands, Asking
  <2>9. o \in Operations /\ dispatch[o] # "none" /\ (c = "sweep" => row[o].cancel) /\ r = row[o] /\ Goes(c, k)
    BY <1>3, <2>1, <2>4
  <2> QED BY <1>4, <2>3, <2>4, <2>8, <2>9, GoesKeeps
<1> QED BY <1>1, <1>5, <1>6 DEF PutBlob

LEMMA PublishKeeps ==
  ASSUME OwnersInv, NEW c \in Clients, Publish(c)
  PROVE  OwnersInv' /\ Wins
<1>1. PICK o : o = client[c].op
  OBVIOUS
<1>2. client[c].pc = "stored" /\ Beside
  BY ClientsBeside DEF Publish
<1>3. /\ o \in Operations /\ dispatch[o] # "none" /\ row[o] \in Rows /\ row[o].state # "absent"
      /\ (c = "sweep" => row[o].cancel) /\ Stands(c, client[c], row[o], job[o], o \in cas, dispatch[o])
      /\ Posted(c, client[c].pc, kind[o])
  BY <1>1, <1>2, Standing
<1>4. /\ kind[o] = "transcribe" \/ (c = "task" /\ kind[o] \in {"derive", "preview", "export"})
      /\ o \in cas /\ (kind[o] = "export" => job[o] = "made")
  BY <1>1, <1>2, <1>3 DEF Stands, Posted
<1>5. CASE Delivers(o)
  <2>1. PICK n : n = publishOutput(row[o])
    OBVIOUS
  <2>2. Finish(c, o, row[o], n, FALSE) /\ UNCHANGED job
    BY <1>1, <1>5, <2>1 DEF Publish
  <2>3. n = Refused \/ Advances(c, o, row[o], n, job[o])
    BY <1>3, <1>4, <1>5, <2>1, PublishOutputAdvances DEF Delivers
  <2> QED BY <1>2, <1>3, <2>2, <2>3, OneTransactionKeeps
<1>6. CASE ~Delivers(o) /\ Finish(c, o, row[o], publishOutputs(o, row[o]), FALSE) /\ UNCHANGED job
  <2>1. PICK n : n = publishOutputs(o, row[o])
    OBVIOUS
  <2>2. n = Refused \/ Advances(c, o, row[o], n, job[o])
    BY <1>3, <1>4, <1>6, <2>1, PublishOutputsAdvances DEF Delivers
  <2> QED BY <1>2, <1>3, <1>6, <2>1, <2>2, OneTransactionKeeps
<1>7. CASE kind[o] = "derive" /\ cancelLocal(c, o)
  BY <1>2, <1>3, <1>7, CancelLocalKeeps
<1> QED BY <1>1, <1>4, <1>5, <1>6, <1>7 DEF Publish, publishLocal, Delivers, Provided

LEMMA StoppedKeeps ==
  ASSUME OwnersInv, NEW c \in Clients, Stopped(c)
  PROVE  OwnersInv' /\ Wins
<1>1. PICK o : o = client[c].op
  OBVIOUS
<1>2. client[c].pc = "stopping" /\ Beside /\ UNCHANGED job
  BY ClientsBeside DEF Stopped
<1>3. /\ o \in Operations /\ dispatch[o] # "none" /\ row[o] \in Rows /\ row[o].state # "absent"
      /\ (c = "sweep" => row[o].cancel) /\ ~Provided(o)
  BY <1>1, <1>2, Standing DEF Posted, Provided
<1>4. PICK n : n = IF Delivers(o) THEN acknowledgeStopped(row[o])
                   ELSE finishDerivation(o, row[o], "cancelled", FALSE, FALSE, FALSE)
  OBVIOUS
<1>5. Finish(c, o, row[o], n, FALSE)
  BY <1>1, <1>4 DEF Stopped
<1>6. n = Refused \/ Advances(c, o, row[o], n, job[o])
  BY <1>3, <1>4, StoppedAdvances, FinishDerivationAdvances
<1> QED BY <1>2, <1>3, <1>5, <1>6, OneTransactionKeeps

\* What the client knows when it reads an answer that is still true.
LEMMA Reading ==
  ASSUME OwnersInv, NEW c \in Clients, client[c].pc \in Asking, client[c].answer # "none", NEW o, o = client[c].op, NEW a, a = client[c].answer
  PROVE  /\ o \in Operations /\ dispatch[o] # "none" /\ row[o] \in Rows /\ row[o].state # "absent"
         /\ c = "sweep" => row[o].cancel
         /\ kind[o] \in {"transcribe", "judge"}
         /\ client[c].pc = "submitting" => c = "task"
         /\ a \in {"lost", "not_submitted", "unknown", "submitted", "succeeded", "failed", "cancelled"}
         /\ a = "not_submitted" => job[o] = "none"
         /\ a \in {"failed", "cancelled"} => job[o] = a
         /\ kind[o] = "judge" /\ c = "sweep" => client[c].asked
         /\ kind[o] = "judge" /\ client[c].pc = "reconciling" /\ client[c].fresh =>
              ~Terminal(row[o]) /\ client[c].asked = row[o].cancel
         /\ client[c] \in ClientStates
<1>1. client[c].pc # "off" /\ client[c].pc # "starting"
  BY DEF Asking
<1>2. /\ o \in Operations /\ dispatch[o] # "none" /\ row[o] \in Rows /\ row[o].state # "absent"
      /\ (c = "sweep" => row[o].cancel) /\ Stands(c, client[c], row[o], job[o], o \in cas, dispatch[o])
      /\ Posted(c, client[c].pc, kind[o]) /\ client[c] \in ClientStates
  BY <1>1, Standing
<1>3. a \in {"lost", "not_submitted", "unknown", "submitted", "succeeded", "failed", "cancelled"}
  BY <1>2 DEF ClientStates, Answers, Ended
<1> QED BY <1>1, <1>2, <1>3 DEF Stands, Posted, Asking, Holds, Ended

LEMMA SubmittedTranscriptionKeeps ==
  ASSUME OwnersInv, NEW c \in Clients, client[c].pc \in Asking, client[c].answer # "none", NEW o, o = client[c].op,
         NEW a, NEW receipt \in BOOLEAN, kind[o] = "transcribe", submittedTranscription(c, o, a, receipt), Beside
  PROVE  OwnersInv' /\ Wins
<1>1. /\ o \in Operations /\ dispatch[o] # "none" /\ row[o] \in Rows /\ row[o].state # "absent"
      /\ (c = "sweep" => row[o].cancel) /\ UNCHANGED job
  BY Reading DEF submittedTranscription
<1>2. CASE Goes(c, Returned(c, o, row[o]))
  BY <1>1, <1>2, ReturnsKeeps
<1>3. ASSUME reconcileOrCancelDerivation(c, o, IF receipt THEN persistDerivationReceipt(row[o], FALSE) ELSE row[o], receipt)
      PROVE  OwnersInv' /\ Wins
  <2>1. PICK n : n = IF receipt THEN persistDerivationReceipt(row[o], FALSE) ELSE row[o]
    OBVIOUS
  <2>2. Advances(c, o, row[o], n, job[o])
    BY <1>1, <2>1, DerivationReceiptAdvances, AdvancesStill
  <2> QED BY <1>1, <1>3, <2>1, <2>2, ReconcilesKeeps
<1> QED BY <1>2, <1>3 DEF submittedTranscription

LEMMA ProcessDerivationStateKeeps ==
  ASSUME OwnersInv, NEW c \in Clients, client[c].pc \in Asking, client[c].answer # "none", NEW o, o = client[c].op,
         NEW a, a = client[c].answer, NEW receipt \in BOOLEAN, kind[o] = "transcribe",
         processDerivationState(c, o, a, receipt), Beside
  PROVE  OwnersInv' /\ Wins
<1>1. /\ o \in Operations /\ dispatch[o] # "none" /\ row[o] \in Rows /\ row[o].state # "absent"
      /\ (c = "sweep" => row[o].cancel) /\ UNCHANGED job
  BY Reading DEF processDerivationState
<1>2. /\ a \in {"lost", "not_submitted", "unknown", "submitted", "succeeded", "failed", "cancelled"}
      /\ (a = "not_submitted" => job[o] = "none") /\ (a \in {"failed", "cancelled"} => job[o] = a)
  BY Reading
<1>3. PICK r, m : r = row[o] /\ m = IF receipt THEN persistDerivationReceipt(row[o], TRUE) ELSE row[o]
  OBVIOUS
<1>4. PICK moves \in BOOLEAN : moves = (receipt /\ ~Terminal(row[o]))
  OBVIOUS
<1>5. Advances(c, o, row[o], m, job[o]) /\ Advances(c, o, row[o], r, job[o])
  BY <1>1, <1>3, DerivationReceiptAdvances, AdvancesStill
<1>6. m \in Rows /\ m.state # "absent"
  BY <1>5 DEF Advances
\* The second transaction, on r or on m.
<1>7. ASSUME NEW n, NEW q \in {r, m}, n = Refused \/ Advances(c, o, q, n, job[o]), NEW b \in BOOLEAN, Finish(c, o, q, n, b)
      PROVE  OwnersInv' /\ Wins
  <2>1. Advances(c, o, row[o], q, job[o])
    BY <1>5
  <2>2. n = Refused \/ Advances(c, o, row[o], n, job[o])
    BY <1>7, <2>1, AdvancesOn
  <2> QED BY <1>1, <1>7, <2>1, <2>2, FinishKeeps
<1>8. CASE a = "lost"
  <2>1. Finish(c, o, r, markDerivationUnknown(o, r), FALSE)
    BY <1>3, <1>8 DEF processDerivationState
  <2> QED BY <1>1, <1>3, <1>7, <2>1, DerivationUnknownAdvances
<1>9. CASE a = "not_submitted"
  <2>1. Finish(c, o, r, finishDerivation(o, r, IF r.cancel THEN "cancelled" ELSE "failed", FALSE, FALSE, TRUE), FALSE)
    BY <1>3, <1>9 DEF processDerivationState
  <2>2. PICK s \in {"failed", "cancelled"} : s = IF r.cancel THEN "cancelled" ELSE "failed"
    OBVIOUS
  <2>3. Finish(c, o, r, finishDerivation(o, r, s, FALSE, FALSE, TRUE), FALSE)
    BY <2>1, <2>2
  <2>4. PICK n : n = finishDerivation(o, r, s, FALSE, FALSE, TRUE)
    OBVIOUS
  <2>5. n = Refused \/ Advances(c, o, r, n, job[o])
    BY <1>1, <1>2, <1>3, <1>9, <2>4, FinishDerivationAdvances
  <2> QED BY <1>7, <2>3, <2>4, <2>5
<1>10. CASE a = "unknown"
  <2>1. Finish(c, o, m, markDerivationUnknown(o, m), moves)
    BY <1>3, <1>4, <1>10 DEF processDerivationState
  <2> QED BY <1>6, <1>7, <2>1, DerivationUnknownAdvances
<1>11. CASE a = "submitted"
  <2>1. Finish(c, o, m, markDerivationSubmitted(o, m), moves)
    BY <1>3, <1>4, <1>11 DEF processDerivationState
  <2> QED BY <1>6, <1>7, <2>1, DerivationSubmittedAdvances
<1>12. CASE a = "succeeded"
  <2>1. PICK k, j : k = At("storing", o) /\ j = job[o]
    OBVIOUS
  <2>2. Write(c, o, m, moves, k)
    BY <1>3, <1>4, <1>12, <2>1 DEF processDerivationState
  <2>3. k \in ClientStates /\ k.op = o /\ k.pc = "storing"
    BY <1>1, <2>1, PlacesAreStates DEF Pcs
  <2>4. job' = [job EXCEPT ![o] = j]
    BY <1>1, <2>1, SameJob
  <2>5. Turn(c, o, m, moves, k, j)
    BY <1>1, <1>5, <2>1, <2>2, <2>3, <2>4 DEF Turn, Engages
  <2>6. dispatch'[o] # "none" /\ kind' = kind /\ (c = "sweep" => m.cancel)
    BY <1>1, <1>5 DEF Beside, Advances
  <2>7. Stands(c, k, m, j, o \in cas, dispatch[o])'
    BY <1>6, <2>3, <2>6 DEF Stands, Posted, Asking
  <2> QED BY <1>1, <2>5, <2>7, TurnKeeps
<1>13. CASE a \in {"failed", "cancelled"}
  <2>1. Finish(c, o, m, finishDerivation(o, m, a, TRUE, TRUE, TRUE), moves)
    BY <1>3, <1>4, <1>13 DEF processDerivationState
  <2>2. PICK n : n = finishDerivation(o, m, a, TRUE, TRUE, TRUE)
    OBVIOUS
  <2>3. n = Refused \/ Advances(c, o, m, n, job[o])
    BY <1>2, <1>6, <1>13, <2>2, FinishDerivationAdvances
  <2> QED BY <1>7, <2>1, <2>2, <2>3
<1> QED BY <1>2, <1>8, <1>9, <1>10, <1>11, <1>12, <1>13

\* processAssessmentState makes one transaction, or two of which the second may be refused.
LEMMA ProcessAssessmentStateAdvances ==
  ASSUME OwnersInv, NEW c \in Clients, NEW o \in Operations, kind[o] = "judge", row[o] \in Rows, row[o].state # "absent",
         NEW a \in {"not_submitted", "unknown", "submitted", "succeeded", "failed", "cancelled"},
         a = "not_submitted" => job[o] = "none", a \in {"failed", "cancelled"} => job[o] = a,
         NEW receipt \in BOOLEAN, NEW m, NEW n,
         m = processAssessmentState(o, row[o], a, receipt)[1], n = processAssessmentState(o, row[o], a, receipt)[2]
  PROVE  Advances(c, o, row[o], m, job[o]) /\ (n = Refused \/ Advances(c, o, row[o], n, job[o]))
<1> DEFINE r == row[o]
           p == IF receipt THEN persistAssessmentReceipt(r) ELSE r
           q == CASE a = "unknown" -> markAssessmentUnknown(p)
                  [] a = "submitted" -> markAssessmentSubmitted(p)
                  [] a = "succeeded" -> publishAssessment(o, p)
                  [] OTHER -> finishAssessment(o, p, a, TRUE, TRUE)
           f == finishAssessment(o, r, "failed", FALSE, TRUE)
<1>1. Advances(c, o, r, r, job[o])
  BY AdvancesStill
<1>2. p = Refused \/ Advances(c, o, r, p, job[o])
  BY <1>1, AssessmentReceiptAdvances
<1>3. a = "not_submitted" => f = Refused \/ Advances(c, o, r, f, job[o])
  BY FinishAssessmentAdvances
<1>4. ASSUME p # Refused, a # "not_submitted" PROVE q = Refused \/ Advances(c, o, p, q, job[o])
  <2>1. p \in Rows /\ p.state # "absent"
    BY <1>2, <1>4 DEF Advances
  <2> HIDE DEF p
  <2>2. CASE a = "unknown"
    BY <2>1, <2>2, AssessmentUnknownAdvances
  <2>3. CASE a = "submitted"
    BY <2>1, <2>3, AssessmentSubmittedAdvances
  <2>4. CASE a = "succeeded"
    BY <2>1, <2>4, PublishAssessmentAdvances
  <2>5. CASE a \in {"failed", "cancelled"}
    <3>1. q = finishAssessment(o, p, a, TRUE, TRUE)
      BY <2>5
    <3> HIDE DEF q
    <3>2. PICK s : s = finishAssessment(o, p, a, TRUE, TRUE)
      OBVIOUS
    <3>3. s = Refused \/ Advances(c, o, p, s, job[o])
      BY <2>1, <2>5, <3>2, FinishAssessmentAdvances
    <3> QED BY <3>1, <3>2, <3>3
  <2> QED BY <1>4, <2>2, <2>3, <2>4, <2>5
<1>5. processAssessmentState(o, row[o], a, receipt) =
        IF a = "not_submitted" THEN <<r, f>> ELSE IF p = Refused THEN <<r, Refused>> ELSE <<p, q>>
  BY DEF processAssessmentState
<1> HIDE DEF r, p, q, f
<1>6. CASE a = "not_submitted"
  BY <1>1, <1>3, <1>5, <1>6 DEF r
<1>7. CASE a # "not_submitted" /\ p = Refused
  BY <1>1, <1>5, <1>7 DEF r
<1>8. CASE a # "not_submitted" /\ p # Refused
  <2>1. m = p /\ n = q /\ Advances(c, o, r, p, job[o]) /\ (q = Refused \/ Advances(c, o, p, q, job[o]))
    BY <1>2, <1>4, <1>5, <1>8
  <2>2. q = Refused \/ Advances(c, o, r, q, job[o])
    BY <2>1, AdvancesOn
  <2> QED BY <2>1, <2>2 DEF r
<1> QED BY <1>6, <1>7, <1>8

LEMMA SubmittedAssessmentKeeps ==
  ASSUME OwnersInv, NEW c \in Clients, client[c].pc \in Asking, client[c].answer # "none", NEW o, o = client[c].op,
         NEW a, a = client[c].answer, NEW receipt \in BOOLEAN, kind[o] = "judge",
         submittedAssessment(c, o, a, receipt), Beside
  PROVE  OwnersInv' /\ Wins
<1>1. /\ o \in Operations /\ dispatch[o] # "none" /\ row[o] \in Rows /\ row[o].state # "absent"
      /\ (c = "sweep" => row[o].cancel) /\ UNCHANGED job
  BY Reading DEF submittedAssessment
<1>2. /\ a \in {"lost", "not_submitted", "unknown", "submitted", "succeeded", "failed", "cancelled"}
      /\ (a = "not_submitted" => job[o] = "none") /\ (a \in {"failed", "cancelled"} => job[o] = a)
  BY Reading
<1>3. CASE a = "lost"
  <2>1. PICK n : n = markAssessmentUnknown(row[o])
    OBVIOUS
  <2>2. Finish(c, o, row[o], n, FALSE)
    BY <1>3, <2>1 DEF submittedAssessment
  <2>3. n = Refused \/ Advances(c, o, row[o], n, job[o])
    BY <1>1, <2>1, AssessmentUnknownAdvances
  <2> QED BY <1>1, <2>2, <2>3, OneTransactionKeeps
<1>4. CASE a # "lost"
  <2>1. PICK m, n : m = processAssessmentState(o, row[o], a, receipt)[1] /\ n = processAssessmentState(o, row[o], a, receipt)[2]
    OBVIOUS
  <2>2. Finish(c, o, m, n, FALSE)
    BY <1>4, <2>1 DEF submittedAssessment
  <2>3. Advances(c, o, row[o], m, job[o]) /\ (n = Refused \/ Advances(c, o, row[o], n, job[o]))
    BY <1>1, <1>2, <1>4, <2>1, ProcessAssessmentStateAdvances
  <2> QED BY <1>1, <2>2, <2>3, FinishKeeps
<1> QED BY <1>3, <1>4

LEMMA CancelledAssessmentKeeps ==
  ASSUME OwnersInv, NEW c \in Clients, client[c].pc \in Asking, client[c].answer # "none", NEW o, o = client[c].op,
         NEW a, a = client[c].answer, NEW receipt \in BOOLEAN, kind[o] = "judge",
         cancelledAssessment(c, o, a, receipt), Beside
  PROVE  OwnersInv' /\ Wins
<1>1. CASE a = "not_submitted"
  <2>1. PICK n : n = markAssessmentUnknown(row[o])
    OBVIOUS
  <2>2. Finish(c, o, row[o], n, FALSE) /\ UNCHANGED job
    BY <1>1, <2>1 DEF cancelledAssessment
  <2>3. o \in Operations /\ dispatch[o] # "none" /\ row[o] \in Rows /\ row[o].state # "absent" /\ (c = "sweep" => row[o].cancel)
    BY Reading
  <2>4. n = Refused \/ Advances(c, o, row[o], n, job[o])
    BY <2>1, <2>3, AssessmentUnknownAdvances
  <2> QED BY <2>2, <2>3, <2>4, OneTransactionKeeps
<1>2. CASE a # "not_submitted"
  <2>1. submittedAssessment(c, o, a, receipt)
    BY <1>2 DEF cancelledAssessment
  <2> QED BY <2>1, SubmittedAssessmentKeeps
<1> QED BY <1>1, <1>2

\* The only judgement that leaves is one whose attempt nobody moved, and which nobody asked to stop.
LEMMA SubmitAfterNotSubmittedKeeps ==
  ASSUME OwnersInv, NEW c \in Clients, client[c].pc = "reconciling", client[c].answer = "not_submitted", NEW o, o = client[c].op,
         kind[o] = "judge", submitAfterNotSubmitted(c, o), Beside
  PROVE  OwnersInv' /\ Wins
<1>1. /\ o \in Operations /\ dispatch[o] # "none" /\ row[o] \in Rows /\ row[o].state # "absent" /\ job[o] = "none"
      /\ (c = "sweep" => row[o].cancel /\ client[c].asked) /\ client[c] \in ClientStates
      /\ (client[c].fresh => ~Terminal(row[o]) /\ client[c].asked = row[o].cancel)
  BY Reading DEF Asking
<1>2. CASE client[c].asked
  <2>1. PICK reconciled \in BOOLEAN : reconciled = (client[c].seen = "unknown")
    OBVIOUS
  <2>2. PICK n : n = finishAssessment(o, row[o], "cancelled", FALSE, reconciled)
    OBVIOUS
  <2>3. Finish(c, o, row[o], n, FALSE) /\ UNCHANGED job
    BY <1>2, <2>1, <2>2 DEF submitAfterNotSubmitted
  <2>4. n = Refused \/ Advances(c, o, row[o], n, job[o])
    BY <1>1, <2>2, FinishAssessmentAdvances
  <2> QED BY <1>1, <2>3, <2>4, OneTransactionKeeps
<1>3. CASE Throws(c, o) /\ UNCHANGED job
  BY <1>1, <1>3, ReturnsKeeps DEF Throws
<1>4. CASE /\ ~client[c].asked /\ claimProviderAction(c) /\ Sends(o)
           /\ Write(c, o, row[o], TRUE, [client[c] EXCEPT !.pc = "submitting", !.answer = "none"])
  <2>1. PICK k, r, j : /\ k = [client[c] EXCEPT !.pc = "submitting", !.answer = "none"]
                       /\ r = row[o] /\ j = "sent"
    OBVIOUS
  <2>2. "submitting" \in Pcs /\ "none" \in Answers
    BY DEF Pcs, Answers
  <2>3. k \in ClientStates /\ k.op = o /\ k.pc = "submitting" /\ k.answer = "none" /\ k.asked = client[c].asked
    BY <1>1, <2>1, <2>2 DEF ClientStates
  <2>4. c = "task" /\ ~r.cancel /\ r.state \notin {"absent"} \cup Ended
    BY <1>1, <1>4, <2>1 DEF claimProviderAction, Terminal, Clients
  <2>5. job' = [job EXCEPT ![o] = j]
    BY <1>1, <1>4, <2>1 DEF Sends
  <2>6. Engages(c, o, r, j)
    BY <1>1, <2>1, <2>4 DEF Engages, Provided
  <2>7. Turn(c, o, r, TRUE, k, j)
    BY <1>4, <2>1, <2>3, <2>4, <2>5, <2>6 DEF Turn
  <2>8. dispatch'[o] # "none" /\ kind' = kind
    BY <1>1 DEF Beside
  <2>9. Stands(c, k, r, j, o \in cas, dispatch[o])'
    BY <2>3, <2>4, <2>8 DEF Stands, Posted, Asking, Holds, Ended
  <2> QED BY <1>1, <2>7, <2>9, TurnKeeps
<1> QED BY <1>2, <1>3, <1>4 DEF submitAfterNotSubmitted

LEMMA ReconciledAssessmentKeeps ==
  ASSUME OwnersInv, NEW c \in Clients, client[c].pc = "reconciling", client[c].answer # "none", NEW o, o = client[c].op,
         NEW a, a = client[c].answer, NEW receipt \in BOOLEAN, kind[o] = "judge",
         reconciledAssessment(c, o, a, receipt), Beside
  PROVE  OwnersInv' /\ Wins
<1>1. /\ o \in Operations /\ dispatch[o] # "none" /\ row[o] \in Rows /\ row[o].state # "absent"
      /\ (c = "sweep" => row[o].cancel /\ client[c].asked) /\ client[c] \in ClientStates
      /\ a \in {"lost", "not_submitted", "unknown", "submitted", "succeeded", "failed", "cancelled"}
      /\ (a = "not_submitted" => job[o] = "none") /\ (a \in {"failed", "cancelled"} => job[o] = a)
  BY Reading DEF Asking
<1>2. CASE a = "not_submitted"
  BY <1>2, SubmitAfterNotSubmittedKeeps DEF reconciledAssessment
<1>3. CASE a = "lost"
  <2>1. PICK n : n = markAssessmentUnknown(row[o])
    OBVIOUS
  <2>2. Finish(c, o, row[o], n, FALSE) /\ UNCHANGED job
    BY <1>3, <2>1 DEF reconciledAssessment
  <2>3. n = Refused \/ Advances(c, o, row[o], n, job[o])
    BY <1>1, <2>1, AssessmentUnknownAdvances
  <2> QED BY <1>1, <2>2, <2>3, OneTransactionKeeps
<1>4. CASE a \notin {"lost", "not_submitted"}
  <2>1. PICK m, n : m = processAssessmentState(o, row[o], a, receipt)[1] /\ n = processAssessmentState(o, row[o], a, receipt)[2]
    OBVIOUS
  <2>2. Advances(c, o, row[o], m, job[o]) /\ (n = Refused \/ Advances(c, o, row[o], n, job[o]))
    BY <1>1, <1>4, <2>1, ProcessAssessmentStateAdvances
  <2>3. UNCHANGED job
    BY <1>4 DEF reconciledAssessment
  <2>4. CASE Finish(c, o, m, n, FALSE)
    BY <1>1, <2>2, <2>3, <2>4, FinishKeeps
  <2>5. CASE n # Refused /\ Write(c, o, n, TRUE, [client[c] EXCEPT !.pc = "cancelling", !.answer = "none"])
    <3>1. PICK k : k = [client[c] EXCEPT !.pc = "cancelling", !.answer = "none"]
      OBVIOUS
    <3>2. "cancelling" \in Pcs /\ "none" \in Answers
      BY DEF Pcs, Answers
    <3>3. k \in ClientStates /\ k.op = o /\ k.pc = "cancelling" /\ k.answer = "none" /\ k.asked = client[c].asked
      BY <1>1, <3>1, <3>2 DEF ClientStates
    <3> QED BY <1>1, <2>2, <2>3, <2>5, <3>1, <3>3, AsksKeeps
  <2> QED BY <1>4, <2>1, <2>4, <2>5 DEF reconciledAssessment
<1> QED BY <1>1, <1>2, <1>3, <1>4

LEMMA AnsweredKeeps ==
  ASSUME OwnersInv, NEW c \in Clients, Answered(c)
  PROVE  OwnersInv' /\ Wins
<1>1. PICK o, a : o = client[c].op /\ a = client[c].answer
  OBVIOUS
<1>2. PICK receipt \in BOOLEAN : receipt = HasReceipt(a)
  <2>1. HasReceipt(a) \in BOOLEAN
    BY DEF HasReceipt
  <2> QED BY <2>1
<1>3. client[c].pc \in Asking /\ a # "none" /\ Beside
  BY <1>1, ClientsBeside DEF Answered
<1>4. kind[o] \in {"transcribe", "judge"}
  BY <1>1, <1>3, Reading
<1>5. \/ kind[o] = "transcribe" /\ submittedTranscription(c, o, a, receipt)
      \/ kind[o] = "transcribe" /\ processDerivationState(c, o, a, receipt)
      \/ kind[o] = "judge" /\ submittedAssessment(c, o, a, receipt)
      \/ kind[o] = "judge" /\ client[c].pc = "reconciling" /\ reconciledAssessment(c, o, a, receipt)
      \/ kind[o] = "judge" /\ cancelledAssessment(c, o, a, receipt)
  BY <1>1, <1>2, <1>4 DEF Answered, Derives, Assesses
<1> QED BY <1>1, <1>3, <1>5, SubmittedTranscriptionKeeps, ProcessDerivationStateKeeps, SubmittedAssessmentKeeps,
           ReconciledAssessmentKeeps, CancelledAssessmentKeeps

-----------------------------------------------------------------------------
(* The steps around the clients                                              *)

\* Where neither a row nor a client moves, no operation succeeds.
LEMMA SameRowsWin ==
  ASSUME OwnersInv, \A o \in Operations : row'[o].state = row[o].state
  PROVE  Wins
BY DEF Wins, Terminal, Ended

\* A step that leaves the clients alone: what they rely on must still be so.
LEMMA AroundKeeps ==
  ASSUME OwnersInv, Typed', RowsFit', UNCHANGED <<kind, client, cas>>,
         \A o \in Operations : row'[o] = row[o] \/ dispatch[o] = "none",
         \A o \in Operations : dispatch[o] # "none" => dispatch'[o] # "none",
         \A o \in Operations : job'[o] = job[o]
  PROVE  ClientsStand'
<1>1. SUFFICES ASSUME NEW c \in Clients
               PROVE  LET o == client[c].op IN Stands(c, client[c], row[o], job[o], o \in cas, dispatch[o])'
  BY DEF ClientsStand
<1>2. PICK o \in Operations : o = client[c].op
  BY DEF OwnersInv, Typed, TypeOK, ClientStates
<1>3. Stands(c, client[c], row[o], job[o], o \in cas, dispatch[o])
  BY <1>2 DEF OwnersInv, ClientsStand
<1>4. CASE client[c].pc = "off"
  BY <1>4, OffStands DEF Stands, Posted, Asking
<1>5. CASE client[c].pc # "off"
  <2>1. row'[o] = row[o] /\ dispatch'[o] # "none" /\ job'[o] = job[o]
    BY <1>3, <1>5 DEF Stands
  <2>2. Stands(c, client[c], row[o], job[o], o \in cas, dispatch[o])'
    BY <1>2, <1>3, <1>5, <2>1 DEF Stands, Provided
  <2> QED BY <1>2, <2>2
<1> QED BY <1>4, <1>5

\* The calls, the answers of the user, and edits: no row that a client stands on moves.
LEMMA CallKeeps ==
  ASSUME OwnersInv, NEW o \in Operations,
         CallDerivation(o) \/ CallEvaluation(o) \/ CallPreview(o) \/ CallExport(o) \/ PickDestination(o) \/ GrantExpires(o)
           \/ AnswerExport(o) \/ Edit(o)
  PROVE  OwnersInv' /\ Wins
<1>1. TypeOK /\ Typed /\ Fits(o, row[o], job[o], o \in cas, file[o], dispatch[o])
  BY DEF OwnersInv, Typed, RowsFit
<1>2. UNCHANGED <<kind, run, cas, file, job, client, crashes>>
  BY DEF CallDerivation, CallEvaluation, CallPreview, CallExport, PickDestination, GrantExpires, AnswerExport, Edit, Called,
         unchangedByHost
<1>3. moved' \subseteq Operations /\ granted' \subseteq Operations
  BY <1>1 DEF TypeOK, CallDerivation, CallEvaluation, CallPreview, CallExport, PickDestination, GrantExpires, AnswerExport,
              Edit, Called, unchangedByHost
<1>4. PICK s \in {"none", "asked", "open", "settled"} :
        dispatch' = [dispatch EXCEPT ![o] = s] /\ (s = "none" => dispatch[o] = "none")
  <2>1. dispatch \in [Operations -> {"none", "asked", "open", "settled"}]
    BY <1>1 DEF TypeOK
  <2>2. CASE UNCHANGED dispatch
    <3>1. dispatch' = [dispatch EXCEPT ![o] = dispatch[o]] /\ dispatch[o] \in {"none", "asked", "open", "settled"}
      BY <2>1, <2>2
    <3> QED BY <3>1
  <2>3. CASE ~(UNCHANGED dispatch)
    <3>1. \/ dispatch' = [dispatch EXCEPT ![o] = "asked"] \/ dispatch' = [dispatch EXCEPT ![o] = "open"]
          \/ dispatch' = [dispatch EXCEPT ![o] = "settled"]
      BY <2>3 DEF CallDerivation, CallEvaluation, CallPreview, CallExport, PickDestination, GrantExpires, AnswerExport, Edit,
                  Called, unchangedByHost
    <3> QED BY <3>1
  <2> QED BY <2>2, <2>3
<1>5. PICK n \in Rows : /\ row' = [row EXCEPT ![o] = n]
                        /\ n = row[o] \/ (dispatch[o] = "none" /\ kind[o] = "preview" /\ n = registerOperationDispatch(o))
                        /\ dispatch[o] = "none" /\ s # "none" /\ kind[o] = "preview" => n # row[o]
  <2>1. row \in [Operations -> Rows]
    BY <1>1 DEF TypeOK
  <2>2. CASE CallPreview(o)
    <3>1. registerOperationDispatch(o) # row[o]
      BY <1>1, <2>2, RegisteredIsRow DEF CallPreview, Called, Fits, Absent
    <3> QED BY <2>2, <3>1, RegisteredIsRow DEF CallPreview, Called
  <2>3. CASE ~CallPreview(o)
    <3>1. UNCHANGED row
      BY <2>3 DEF CallDerivation, CallEvaluation, CallExport, PickDestination, GrantExpires, AnswerExport, Edit, unchangedByHost
    <3>2. row' = [row EXCEPT ![o] = row[o]]
      BY <2>1, <3>1
    <3>3. dispatch[o] = "none" /\ kind[o] = "preview" => s = "none"
      <4>1. dispatch[o] = "none" /\ kind[o] = "preview" => UNCHANGED dispatch
        BY <2>3 DEF CallDerivation, CallEvaluation, CallExport, PickDestination, GrantExpires, AnswerExport, Edit, Derives,
                    Assesses, unchangedByHost, Called
      <4>2. dispatch'[o] = s
        BY <1>1, <1>4 DEF TypeOK
      <4> QED BY <4>1, <4>2
    <3> QED BY <2>1, <3>2, <3>3
  <2> QED BY <2>2, <2>3
<1>6. /\ row' \in [Operations -> Rows] /\ row'[o] = n /\ dispatch'[o] = s
      /\ dispatch' \in [Operations -> {"none", "asked", "open", "settled"}]
      /\ \A p \in Operations : p # o => row'[p] = row[p] /\ dispatch'[p] = dispatch[p]
  BY <1>1, <1>4, <1>5 DEF TypeOK
<1>7. Typed'
  BY <1>1, <1>2, <1>3, <1>6 DEF Typed, TypeOK
<1>8. RowsFit'
  <2>1. SUFFICES ASSUME NEW p \in Operations PROVE Fits(p, row[p], job[p], p \in cas, file[p], dispatch[p])'
    BY DEF RowsFit
  <2>2. Fits(p, row[p], job[p], p \in cas, file[p], dispatch[p])
    BY DEF OwnersInv, RowsFit
  <2>3. CASE p # o
    BY <1>2, <1>6, <2>2, <2>3 DEF Fits, Provided, Assesses
  <2>4. CASE p = o /\ n = row[o]
    BY <1>2, <1>4, <1>5, <1>6, <2>2, <2>4 DEF Fits, Provided, Assesses, Absent
  <2>5. CASE p = o /\ n # row[o]
    <3>1. n.state = "running" /\ kind[o] = "preview" /\ dispatch[o] = "none" /\ row[o] = Absent
      BY <1>1, <1>5, <2>5, RegisteredIsRow DEF Fits
    <3>2. s # "none"
      <4>1. CallPreview(o)
        BY <1>1, <1>6, <2>5 DEF CallDerivation, CallEvaluation, CallExport, PickDestination, GrantExpires, AnswerExport, Edit,
                         unchangedByHost
      <4> QED BY <1>1, <1>6, <4>1 DEF CallPreview, Called, TypeOK
    <3> QED BY <1>2, <1>6, <2>2, <2>5, <3>1, <3>2 DEF Fits, Provided, Assesses
  <2> QED BY <2>3, <2>4, <2>5
<1>9. ClientsStand'
  <2>1. \A p \in Operations : row'[p] = row[p] \/ dispatch[p] = "none"
    BY <1>5, <1>6
  <2>2. \A p \in Operations : dispatch[p] # "none" => dispatch'[p] # "none"
    BY <1>4, <1>6
  <2> QED BY <1>2, <1>7, <1>8, <2>1, <2>2, AroundKeeps
<1>10. Wins
  <2>1. SUFFICES ASSUME NEW p \in Operations, ~Terminal(row[p]) PROVE row'[p].state # "succeeded"
    BY DEF Wins
  <2>2. row'[p] = row[p] \/ row'[p] = registerOperationDispatch(p)
    BY <1>5, <1>6
  <2> QED BY <2>1, <2>2, RegisteredIsRow DEF Terminal, Ended
<1> QED BY <1>7, <1>8, <1>9, <1>10 DEF OwnersInv

\* What the provider does, and says: the answers that were given stay true.
LEMMA ProviderKeeps ==
  ASSUME OwnersInv, NEW o \in Operations, Provided(o), NEW j \in ProviderJobs, job' = [job EXCEPT ![o] = j],
         UNCHANGED <<kind, row, dispatch, run, moved, cas, file, granted, crashes>>,
         \/ j = job[o]
         \/ job[o] \in {"sent", "accepted"}
            /\ (job[o] = "accepted" => j \in Ended) /\ (job[o] = "sent" => j \in {"none", "accepted"}),
         client' \in [Clients -> ClientStates],
         \A c \in Clients : \/ client'[c] = client[c]
                            \/ /\ client[c].op = o
                               /\ \E a : client'[c] = [client[c] EXCEPT !.answer = a] /\ Holds(a, j)
  PROVE  OwnersInv' /\ Wins
<1>1. TypeOK /\ Typed
  BY DEF OwnersInv, Typed
<1>2. job'[o] = j /\ (\A p \in Operations : p # o => job'[p] = job[p]) /\ job' \in [Operations -> LocalJobs \cup ProviderJobs]
  BY <1>1 DEF TypeOK
<1>3. Typed'
  BY <1>1, <1>2 DEF Typed, TypeOK
<1>4. RowsFit'
  <2>1. SUFFICES ASSUME NEW p \in Operations PROVE Fits(p, row[p], job[p], p \in cas, file[p], dispatch[p])'
    BY DEF RowsFit
  <2>2. Fits(p, row[p], job[p], p \in cas, file[p], dispatch[p]) /\ row[p] \in Rows
    BY <1>1 DEF OwnersInv, RowsFit, TypeOK
  <2>3. CASE p # o \/ j = job[o]
    BY <1>2, <2>2, <2>3 DEF Fits, Provided, Assesses
  <2>4. CASE p = o /\ j # job[o]
    <3>1. job[o] \in {"sent", "accepted"} /\ kind[o] # "export" /\ j \in ProviderJobs
      BY <2>4 DEF Provided
    <3> QED BY <1>2, <2>2, <2>4, <3>1 DEF Fits, Provided, Assesses, Ended
  <2> QED BY <2>3, <2>4
<1>5. ClientsStand'
  <2>1. SUFFICES ASSUME NEW c \in Clients
                 PROVE  LET p == client[c].op IN Stands(c, client[c], row[p], job[p], p \in cas, dispatch[p])'
    BY DEF ClientsStand
  <2>2. PICK p \in Operations : p = client[c].op
    BY <1>1 DEF TypeOK, ClientStates
  <2>3. Stands(c, client[c], row[p], job[p], p \in cas, dispatch[p]) /\ client[c] \in ClientStates
    BY <1>1, <2>2 DEF OwnersInv, ClientsStand, TypeOK
  <2>4. CASE client'[c] = client[c]
    <3>1. p = o /\ Holds(client[c].answer, job[o]) => Holds(client[c].answer, j)
      BY DEF Holds, Ended
    <3>2. kind[p] = "export" => p # o
      BY DEF Provided
    <3> QED BY <1>2, <2>2, <2>3, <2>4, <3>1, <3>2 DEF Stands, Provided
  <2>5. CASE client'[c] # client[c]
    <3>1. p = o
      BY <2>2, <2>5
    <3>2. PICK a : client'[c] = [client[c] EXCEPT !.answer = a] /\ Holds(a, j)
      BY <2>5
    <3>3. /\ client'[c].pc = client[c].pc /\ client'[c].op = o /\ client'[c].asked = client[c].asked
          /\ client'[c].fresh = client[c].fresh /\ client'[c].answer = a
      BY <2>2, <2>3, <3>1, <3>2 DEF ClientStates
    <3>4. kind[o] # "export"
      BY DEF Provided
    <3> QED BY <1>2, <2>2, <2>3, <3>1, <3>2, <3>3, <3>4 DEF Stands, Provided
  <2> QED BY <2>4, <2>5
<1> QED BY <1>3, <1>4, <1>5, SameRowsWin DEF OwnersInv

LEMMA ProvideKeeps ==
  ASSUME OwnersInv, NEW o \in Operations, Provide(o)
  PROVE  OwnersInv' /\ Wins
<1>1. PICK j \in ProviderJobs : /\ job' = [job EXCEPT ![o] = j]
                                /\ job[o] = "accepted" => j \in Ended
                                /\ job[o] = "sent" => j \in {"none", "accepted"}
                                /\ job[o] \in {"sent", "accepted"}
  BY DEF Provide, ProviderJobs, Ended
<1>2. Provided(o) /\ UNCHANGED <<kind, row, dispatch, run, moved, cas, file, granted, client, crashes>>
  BY DEF Provide, unchangedByProvider
<1>3. client' \in [Clients -> ClientStates]
  BY <1>2 DEF OwnersInv, Typed, TypeOK
<1> QED BY <1>1, <1>2, <1>3, ProviderKeeps

LEMMA ReplyKeeps ==
  ASSUME OwnersInv, NEW c \in Clients, Reply(c) \/ Vague(c)
  PROVE  OwnersInv' /\ Wins
<1>1. PICK o : o = client[c].op
  OBVIOUS
<1>2. client[c].pc \in Asking /\ client \in [Clients -> ClientStates]
  BY DEF Reply, Vague, OwnersInv, Typed, TypeOK
<1>3. o \in Operations /\ kind[o] \in {"transcribe", "judge"} /\ client[c] \in ClientStates
  BY <1>1, <1>2, Standing DEF Posted, Asking
<1>4. Provided(o) /\ job[o] \in ProviderJobs /\ job \in [Operations -> LocalJobs \cup ProviderJobs]
  BY <1>3 DEF Provided, OwnersInv, RowsFit, Fits, Typed, TypeOK
<1>5. PICK j, a : /\ j = IF client[c].pc = "cancelling" /\ job[o] = "accepted" /\ Reply(c) THEN "cancelled" ELSE job[o]
                  /\ a = IF Reply(c) THEN Truth(j) ELSE "lost"
  OBVIOUS
<1>6. j \in ProviderJobs /\ (j = job[o] \/ (job[o] = "accepted" /\ j = "cancelled"))
  BY <1>4, <1>5 DEF ProviderJobs, Ended
<1>7. a \in Answers /\ Holds(a, j)
  BY <1>5, <1>6 DEF Truth, Answers, Holds, ProviderJobs, Ended
<1>8. job' = [job EXCEPT ![o] = j] /\ client' = [client EXCEPT ![c].answer = a]
      /\ UNCHANGED <<kind, row, dispatch, run, moved, cas, file, granted, crashes>>
  <2>1. CASE Reply(c)
    BY <1>1, <1>5, <2>1 DEF Reply, unchangedByProvider
  <2>2. CASE ~Reply(c)
    BY <1>1, <1>3, <1>4, <1>5, <2>2 DEF Vague, unchangedByProvider
  <2> QED BY <2>1, <2>2
<1>9. [client[c] EXCEPT !.answer = a] \in ClientStates
  BY <1>3, <1>7 DEF ClientStates
<1>10. client'[c] = [client[c] EXCEPT !.answer = a] /\ (\A d \in Clients : d # c => client'[d] = client[d])
       /\ client' \in [Clients -> ClientStates]
  BY <1>2, <1>8, <1>9
<1>11. \A d \in Clients : \/ client'[d] = client[d]
                          \/ /\ client[d].op = o
                             /\ \E e : client'[d] = [client[d] EXCEPT !.answer = e] /\ Holds(e, j)
  BY <1>1, <1>7, <1>10
<1> QED BY <1>3, <1>4, <1>6, <1>8, <1>10, <1>11, ProviderKeeps DEF Ended

\* A local child goes on, writes, and ends.
LEMMA WorkKeeps ==
  ASSUME OwnersInv, NEW o \in Operations, Work(o)
  PROVE  OwnersInv' /\ Wins
<1>1. TypeOK /\ Typed /\ Fits(o, row[o], job[o], o \in cas, file[o], dispatch[o])
  BY DEF OwnersInv, Typed, RowsFit
<1>2. UNCHANGED <<kind, row, dispatch, run, moved, cas, granted, client, crashes>> /\ ~Provided(o)
  BY DEF Work
<1>3. PICK j \in LocalJobs, f \in {"absent", "partial", "complete"} :
        /\ job' = [job EXCEPT ![o] = j] /\ file' = [file EXCEPT ![o] = f]
        /\ job[o] \in {"working", "aborted", "writing", "aborting"}
        /\ kind[o] = "export" /\ j = "made" => f = "complete"
  <2>1. file' = [file EXCEPT ![o] = file[o]] \/ ~(UNCHANGED file)
    BY <1>1 DEF TypeOK
  <2>2. file[o] \in {"absent", "partial", "complete"}
    BY <1>1 DEF TypeOK
  <2>3. CASE DeriveFiles(o)
    BY <2>1, <2>2, <2>3 DEF DeriveFiles, LocalJobs
  <2>4. CASE RenderCut(o)
    BY <2>1, <2>2, <2>4 DEF RenderCut, LocalJobs
  <2>5. CASE BeginWrite(o)
    <3>1. CASE job' = [job EXCEPT ![o] = "failed"] /\ UNCHANGED file
      BY <2>1, <2>2, <2>5, <3>1 DEF BeginWrite, LocalJobs
    <3>2. CASE /\ job' = [job EXCEPT ![o] = IF @ = "working" THEN "writing" ELSE "aborting"]
               /\ file' = [file EXCEPT ![o] = "partial"]
      <4>1. PICK j \in {"writing", "aborting"} : j = IF job[o] = "working" THEN "writing" ELSE "aborting"
        OBVIOUS
      <4>2. job' = [job EXCEPT ![o] = j]
        BY <1>1, <3>2, <4>1 DEF TypeOK
      <4>3. job[o] \in {"working", "aborted", "writing", "aborting"} /\ j \in LocalJobs /\ j # "made"
        BY <2>5, <4>1 DEF BeginWrite, LocalJobs
      <4> QED BY <3>2, <4>2, <4>3
    <3> QED BY <2>5, <3>1, <3>2 DEF BeginWrite
  <2>6. CASE EndWrite(o)
    BY <2>1, <2>2, <2>6 DEF EndWrite, LocalJobs
  <2> QED BY <2>3, <2>4, <2>5, <2>6 DEF Work
<1>4. /\ job'[o] = j /\ file'[o] = f /\ \A p \in Operations : p # o => job'[p] = job[p] /\ file'[p] = file[p]
      /\ job' \in [Operations -> LocalJobs \cup ProviderJobs]
      /\ file' \in [Operations -> {"absent", "partial", "complete"}]
  BY <1>1, <1>3 DEF TypeOK
<1>5. Typed'
  BY <1>1, <1>2, <1>4 DEF Typed, TypeOK
<1>6. RowsFit'
  <2>1. SUFFICES ASSUME NEW p \in Operations PROVE Fits(p, row[p], job[p], p \in cas, file[p], dispatch[p])'
    BY DEF RowsFit
  <2>2. Fits(p, row[p], job[p], p \in cas, file[p], dispatch[p])
    BY DEF OwnersInv, RowsFit
  <2>3. CASE p # o
    BY <1>2, <1>4, <2>2, <2>3 DEF Fits, Provided, Assesses
  <2>4. CASE p = o
    BY <1>2, <1>3, <1>4, <2>2, <2>4 DEF Fits, Provided, Assesses
  <2> QED BY <2>3, <2>4
<1>7. ClientsStand'
  <2>1. SUFFICES ASSUME NEW c \in Clients
                 PROVE  LET p == client[c].op IN Stands(c, client[c], row[p], job[p], p \in cas, dispatch[p])'
    BY DEF ClientsStand
  <2>2. PICK p \in Operations : p = client[c].op
    BY <1>1 DEF TypeOK, ClientStates
  <2>3. Stands(c, client[c], row[p], job[p], p \in cas, dispatch[p])
    BY <2>2 DEF OwnersInv, ClientsStand
  <2>4. CASE p # o
    BY <1>2, <1>4, <2>2, <2>3, <2>4 DEF Stands, Provided
  <2>5. CASE p = o
    <3>1. client[c].pc \notin Asking
      BY <1>2, <2>2, <2>3, <2>5 DEF Stands, Posted, Provided, Asking
    <3>2. kind[o] = "export" => client[c].pc \notin {"storing", "stored"}
      BY <1>3, <2>2, <2>3, <2>5 DEF Stands
    <3> QED BY <1>2, <2>2, <2>3, <2>5, <3>1, <3>2 DEF Stands, Provided, Asking
  <2> QED BY <2>4, <2>5
<1> QED BY <1>2, <1>5, <1>6, <1>7, SameRowsWin DEF OwnersInv

\* A cancellation is recorded: on rows that are there, and no client that read one of them is fresh any more.
LEMMA CancellationKeeps ==
  ASSUME OwnersInv, NEW os \in SUBSET Operations, \A o \in os : row[o].state # "absent",
         requestOperationOwnerCancellation(os), NEW j \in [Operations -> LocalJobs \cup ProviderJobs], job' = j,
         \A o \in Operations : j[o] = job[o] \/ (~Provided(o) /\ j[o] = Aborted(o)),
         run' \in {"running", "ended"}, UNCHANGED <<kind, dispatch, moved, cas, file, granted, crashes>>
  PROVE  OwnersInv' /\ Wins
<1>1. TypeOK /\ Typed
  BY DEF OwnersInv, Typed
<1>2. \A o \in Operations : /\ row[o] \in Rows /\ row'[o] \in Rows
                            /\ row'[o].state = row[o].state /\ row'[o].cost = row[o].cost
                            /\ row[o].cancel => row'[o].cancel
                            /\ row[o].state = "absent" => row'[o] = row[o]
                            /\ o \notin os => row'[o] = row[o]
  <2>1. SUFFICES ASSUME NEW o \in Operations
                 PROVE  /\ row[o] \in Rows /\ row'[o] \in Rows
                        /\ row'[o].state = row[o].state /\ row'[o].cost = row[o].cost
                        /\ row[o].cancel => row'[o].cancel
                        /\ row[o].state = "absent" => row'[o] = row[o]
                        /\ o \notin os => row'[o] = row[o]
    OBVIOUS
  <2>2. row[o] \in Rows
    BY <1>1 DEF TypeOK
  <2>3. row'[o] = IF o \in os THEN [row[o] EXCEPT !.cancel = TRUE] ELSE row[o]
    BY DEF requestOperationOwnerCancellation
  <2> QED BY <2>2, <2>3 DEF Rows
<1>3. row' \in [Operations -> Rows]
  BY <1>2 DEF requestOperationOwnerCancellation
<1>4. \A c \in Clients : /\ client[c] \in ClientStates /\ client'[c] \in ClientStates
                         /\ client'[c].pc = client[c].pc /\ client'[c].op = client[c].op
                         /\ client'[c].asked = client[c].asked /\ client'[c].answer = client[c].answer
                         /\ client'[c].fresh => client[c].fresh /\ client[c].op \notin os
  <2>1. SUFFICES ASSUME NEW c \in Clients
                 PROVE   /\ client[c] \in ClientStates /\ client'[c] \in ClientStates
                         /\ client'[c].pc = client[c].pc /\ client'[c].op = client[c].op
                         /\ client'[c].asked = client[c].asked /\ client'[c].answer = client[c].answer
                         /\ client'[c].fresh => client[c].fresh /\ client[c].op \notin os
    OBVIOUS
  <2>2. client[c] \in ClientStates
    BY <1>1 DEF TypeOK
  <2>3. client'[c] = IF client[c].op \in os THEN [client[c] EXCEPT !.fresh = FALSE] ELSE client[c]
    BY DEF requestOperationOwnerCancellation
  <2> QED BY <2>2, <2>3 DEF ClientStates
<1>5. client' \in [Clients -> ClientStates]
  BY <1>4 DEF requestOperationOwnerCancellation
<1>6. Typed'
  BY <1>1, <1>3, <1>5 DEF Typed, TypeOK
<1>7. RowsFit'
  <2>1. SUFFICES ASSUME NEW p \in Operations PROVE Fits(p, row[p], job[p], p \in cas, file[p], dispatch[p])'
    BY DEF RowsFit
  <2>2. Fits(p, row[p], job[p], p \in cas, file[p], dispatch[p])
    BY DEF OwnersInv, RowsFit
  <2>3. j[p] = job[p] \/ (~Provided(p) /\ job[p] \in LocalJobs /\ j[p] = Aborted(p))
    BY <2>2 DEF Fits
  <2>4. /\ row'[p].state = row[p].state /\ row'[p].cost = row[p].cost /\ (row[p].state = "absent" => row'[p] = row[p])
    BY <1>2
  <2>5. CASE j[p] = job[p]
    BY <2>2, <2>4, <2>5 DEF Fits, Provided, Assesses, Absent
  <2>6. CASE ~Provided(p) /\ job[p] \in LocalJobs /\ j[p] = Aborted(p)
    BY <2>2, <2>4, <2>6, AbortedIsLocal DEF Fits, Provided, Assesses, Absent
  <2> QED BY <2>3, <2>5, <2>6
<1>8. ClientsStand'
  <2>1. SUFFICES ASSUME NEW c \in Clients
                 PROVE  LET p == client[c].op IN Stands(c, client[c], row[p], job[p], p \in cas, dispatch[p])'
    BY DEF ClientsStand
  <2>2. PICK p \in Operations : p = client[c].op /\ p = client'[c].op
    BY <1>1, <1>4 DEF TypeOK, ClientStates
  <2>3. Stands(c, client[c], row[p], job[p], p \in cas, dispatch[p]) /\ Fits(p, row[p], job[p], p \in cas, file[p], dispatch[p])
    BY <2>2 DEF OwnersInv, ClientsStand, RowsFit
  <2>4. /\ row'[p].state = row[p].state /\ (row[p].state = "absent" => row'[p] = row[p]) /\ (p \notin os => row'[p] = row[p])
        /\ (row[p].cancel => row'[p].cancel)
    BY <1>2
  <2>5. /\ client'[c].pc = client[c].pc /\ client'[c].asked = client[c].asked /\ client'[c].answer = client[c].answer
        /\ (client'[c].fresh => client[c].fresh /\ p \notin os)
    BY <1>4, <2>2
  <2>6. kind[p] = "export" /\ client[c].pc \in {"storing", "stored"} => job'[p] = "made"
    BY <2>2, <2>3, AbortedIsLocal DEF Stands, Fits, Provided
  <2>7. client[c].pc \in Asking => Holds(client[c].answer, job[p])'
    <3>1. client[c].pc \in Asking => Provided(p) /\ Holds(client[c].answer, job[p])
      BY <2>2, <2>3 DEF Stands, Posted, Asking, Provided
    <3> QED BY <2>5, <3>1
  <2>8. client[c].pc = "starting" => row'[p] = Absent
    BY <2>3, <2>4 DEF Stands, Absent
  <2>9. Stands(c, client[c], row[p], job[p], p \in cas, dispatch[p])'
    BY <2>2, <2>3, <2>4, <2>5, <2>6, <2>7, <2>8 DEF Stands, Provided, Terminal
  <2> QED BY <2>2, <2>9
<1> QED BY <1>2, <1>6, <1>7, <1>8, SameRowsWin DEF OwnersInv

LEMMA CancelKeeps ==
  ASSUME OwnersInv, (\E o \in Operations : CancelOperation(o)) \/ CancelRun
  PROVE  OwnersInv' /\ Wins
<1>1. TypeOK
  BY DEF OwnersInv, Typed
<1>2. \A o \in Operations : Cancellable(o) => row[o].state # "absent"
  BY DEF Cancellable
<1>3. ASSUME NEW o \in Operations, CancelOperation(o) PROVE OwnersInv' /\ Wins
  <2>1. {o} \in SUBSET Operations /\ \A p \in {o} : row[p].state # "absent"
    BY <1>2, <1>3 DEF CancelOperation
  <2>2. job \in [Operations -> LocalJobs \cup ProviderJobs] /\ run \in {"running", "ended"}
    BY <1>1 DEF TypeOK
  <2>3. PICK os, j : os = {o} /\ j = job
    OBVIOUS
  <2>4. requestOperationOwnerCancellation(os) /\ job' = j /\ run' = run
        /\ UNCHANGED <<kind, dispatch, moved, cas, file, granted, crashes>>
    BY <1>3, <2>3 DEF CancelOperation
  <2> QED BY <2>1, <2>2, <2>3, <2>4, CancellationKeeps
<1>4. CASE CancelRun
  <2>1. PICK os : os = {o \in Operations : Cancellable(o)}
    OBVIOUS
  <2>2. PICK j : j = [o \in Operations |-> IF client["task"].pc = "working" /\ client["task"].op = o THEN Aborted(o) ELSE job[o]]
    OBVIOUS
  <2>3. "task" \in Clients /\ client["task"] \in ClientStates
    BY <1>1 DEF Clients, TypeOK
  <2>4. \A o \in Operations : /\ j[o] = job[o] \/ (~Provided(o) /\ j[o] = Aborted(o))
                              /\ j[o] \in LocalJobs \cup ProviderJobs
    <3>1. SUFFICES ASSUME NEW o \in Operations
                   PROVE  /\ j[o] = job[o] \/ (~Provided(o) /\ j[o] = Aborted(o))
                          /\ j[o] \in LocalJobs \cup ProviderJobs
      OBVIOUS
    <3>2. CASE client["task"].pc = "working" /\ client["task"].op = o
      <4>1. kind[o] \in {"derive", "preview", "export"}
        BY <2>3, <3>2, Standing DEF Posted
      <4>2. ~Provided(o) /\ job[o] \in LocalJobs
        BY <4>1 DEF Provided, OwnersInv, RowsFit, Fits
      <4> QED BY <2>2, <3>2, <4>2, AbortedIsLocal
    <3>3. CASE ~(client["task"].pc = "working" /\ client["task"].op = o)
      BY <1>1, <2>2, <3>3 DEF TypeOK
    <3> QED BY <3>2, <3>3
  <2>5. j \in [Operations -> LocalJobs \cup ProviderJobs]
    BY <2>2, <2>4
  <2>6. requestOperationOwnerCancellation(os) /\ job' = j /\ run' = "ended"
        /\ UNCHANGED <<kind, dispatch, moved, cas, file, granted, crashes>>
    BY <1>4, <2>1, <2>2 DEF CancelRun
  <2>7. os \in SUBSET Operations /\ \A o \in os : row[o].state # "absent"
    BY <1>2, <2>1
  <2> QED BY <2>4, <2>5, <2>6, <2>7, CancellationKeeps
<1> QED BY <1>3, <1>4

\* After an exit nobody stands anywhere.
LEMMA CrashKeeps ==
  ASSUME OwnersInv, Crash
  PROVE  OwnersInv' /\ Wins
<1>1. TypeOK /\ Typed /\ UNCHANGED <<kind, row, dispatch, run, moved, cas, file>> /\ granted' = {} /\ crashes' = crashes + 1
  BY DEF OwnersInv, Typed, Crash
<1>2. \A c \in Clients : client'[c] \in ClientStates /\ client'[c].pc = "off"
  <2>1. SUFFICES ASSUME NEW c \in Clients PROVE client'[c] \in ClientStates /\ client'[c].pc = "off"
    OBVIOUS
  <2>2. PICK o \in Operations : o = client[c].op
    BY <1>1 DEF TypeOK, ClientStates
  <2>3. client'[c] = Off(o)
    BY <2>2 DEF Crash
  <2> QED BY <2>3, PlacesAreStates
<1>3. \A o \in Operations : job'[o] = IF Provided(o) THEN job[o] ELSE "none"
  BY DEF Crash
<1>4. job' \in [Operations -> LocalJobs \cup ProviderJobs] /\ client' \in [Clients -> ClientStates]
  <2>1. job' \in [Operations -> LocalJobs \cup ProviderJobs]
    BY <1>1 DEF Crash, TypeOK, LocalJobs
  <2>2. client' \in [Clients -> ClientStates]
    BY <1>2 DEF Crash
  <2> QED BY <2>1, <2>2
<1>5. Typed'
  BY <1>1, <1>4 DEF Typed, TypeOK
<1>6. RowsFit'
  <2>1. SUFFICES ASSUME NEW p \in Operations PROVE Fits(p, row[p], job[p], p \in cas, file[p], dispatch[p])'
    BY DEF RowsFit
  <2>2. Fits(p, row[p], job[p], p \in cas, file[p], dispatch[p])
    BY DEF OwnersInv, RowsFit
  <2> QED BY <1>1, <1>3, <2>2 DEF Fits, Provided, Assesses, LocalJobs
<1>7. ClientsStand'
  BY <1>2, OffStands DEF ClientsStand, Stands, Posted, Asking
<1> QED BY <1>1, <1>5, <1>6, <1>7, SameRowsWin DEF OwnersInv

-----------------------------------------------------------------------------
(* The theorems                                                              *)

LEMMA InitOwners ==
  ASSUME Init
  PROVE  OwnersInv
<1>1. Typed
  <2>1. \A o \in Operations : Off(o) \in ClientStates
    BY DEF Off, ClientStates, Pcs, States, Answers
  <2>2. Absent \in Rows
    BY AbsentIsRow
  <2> QED BY OwnerAssumption, <2>1, <2>2 DEF Init, Typed, TypeOK, LocalJobs
<1>2. RowsFit
  BY DEF Init, RowsFit, Fits, Absent, ProviderJobs, LocalJobs
<1>3. ClientsStand
  <2>1. SUFFICES ASSUME NEW c \in Clients
                 PROVE  LET o == client[c].op IN Stands(c, client[c], row[o], job[o], o \in cas, dispatch[o])
    BY DEF ClientsStand
  <2>2. client[c].pc = "off"
    BY DEF Init, Off
  <2> QED BY <2>2, OffStands
<1> QED BY <1>1, <1>2, <1>3 DEF OwnersInv

LEMMA StepOwners ==
  ASSUME OwnersInv, [Next]_vars
  PROVE  OwnersInv' /\ Wins
<1>1. CASE UNCHANGED vars
  <2>1. OwnersInv'
    BY <1>1 DEF vars, OwnersInv, Typed, TypeOK, RowsFit, ClientsStand, Fits, Stands, Provided, Assesses
  <2>2. Wins
    BY <1>1, SameRowsWin DEF vars
  <2> QED BY <2>1, <2>2
<1>2. ASSUME NEW o \in Operations,
             \/ CallDerivation(o) \/ CallEvaluation(o) \/ CallPreview(o) \/ CallExport(o)
             \/ PickDestination(o) \/ GrantExpires(o) \/ AnswerExport(o) \/ Edit(o)
      PROVE  OwnersInv' /\ Wins
  BY <1>2, CallKeeps
<1>3. ASSUME NEW o \in Operations, Execute(o) \/ Sweep(o) \/ Provide(o) \/ Work(o)
      PROVE  OwnersInv' /\ Wins
  BY <1>3, ExecuteKeeps, SweepKeeps, ProvideKeeps, WorkKeeps
<1>4. ASSUME NEW c \in Clients, PrepareDerivation(c) \/ PrepareAssessment(c)
      PROVE  OwnersInv' /\ Wins
  BY <1>4, PreparedKeeps DEF PrepareDerivation, PrepareAssessment
<1>5. ASSUME NEW c \in Clients,
             \/ Continue(c) \/ Settle(c) \/ Verified(c) \/ Resolved(c) \/ Worked(c) \/ PutBlob(c) \/ Publish(c)
             \/ Stopped(c) \/ Answered(c) \/ Reply(c) \/ Vague(c)
      PROVE  OwnersInv' /\ Wins
  BY <1>5, ContinueKeeps, SettleKeeps, VerifiedKeeps, ResolvedKeeps, WorkedKeeps, PutBlobKeeps, PublishKeeps, StoppedKeeps,
     AnsweredKeeps, ReplyKeeps
<1>6. CASE (\E o \in Operations : CancelOperation(o)) \/ CancelRun
  BY <1>6, CancelKeeps
<1>7. CASE Crash
  BY <1>7, CrashKeeps
<1> QED BY <1>1, <1>2, <1>3, <1>4, <1>5, <1>6, <1>7 DEF Next

\* What a client relies on between two awaits is so when it goes on, and every row fits the job, the file and the
\* dispatch beside it: the inductive invariant of the owners' transactions and of the turns between them.
THEOREM OwnersInvariant == Spec => []OwnersInv
<1>1. Init => OwnersInv
  BY InitOwners
<1>2. OwnersInv /\ [Next]_vars => OwnersInv'
  BY StepOwners
<1> QED BY <1>1, <1>2, PTL DEF Spec

\* Rows, dispatches, jobs and clients always have their types, whatever the two clients and the provider do.
THEOREM OwnerTypes == Spec => []TypeOK
<1>1. OwnersInv => TypeOK
  BY DEF OwnersInv, Typed
<1> QED BY <1>1, OwnersInvariant, PTL

\* An attempt that succeeded has its output in the store, and an export its whole film at the destination
\* (persistOutputBlobs and putVerified before the transaction that publishes), for any number of operations.
THEOREM SucceededExists == Spec => []SucceededOutputsExist
<1>1. OwnersInv => SucceededOutputsExist
  BY DEF OwnersInv, RowsFit, Fits, SucceededOutputsExist
<1> QED BY <1>1, OwnersInvariant, PTL

\* Work that a provider took up is reserved or charged, and no attempt ends as failed or cancelled while its work is
\* under way or done, whatever answers are lost and however often the process exits.
THEOREM PaidWork == Spec => []PaidWorkIsAccounted
<1>1. OwnersInv => PaidWorkIsAccounted
  <2>1. SUFFICES ASSUME OwnersInv, NEW o \in Operations, Provided(o)
                 PROVE  /\ job[o] \in {"accepted"} \cup Ended => row[o].cost \in {"reserved", "charged"}
                        /\ row[o].state \in {"failed", "cancelled"} => job[o] \notin {"sent", "accepted", "succeeded"}
    BY DEF PaidWorkIsAccounted
  <2>2. Fits(o, row[o], job[o], o \in cas, file[o], dispatch[o]) /\ row[o] \in Rows
    BY <2>1 DEF OwnersInv, RowsFit, Typed, TypeOK
  <2> QED BY <2>1, <2>2 DEF Fits, Ended, Rows, States
<1> QED BY <1>1, OwnersInvariant, PTL

\* Work the program does itself never succeeds once a cancellation of it is recorded, whichever client writes the row.
THEOREM CancellationWins == Spec => LocalCancellationWins
<1>1. OwnersInv /\ [Next]_vars =>
        [\A o \in Operations : kind[o] \in {"derive", "check"} /\ row[o].cancel /\ ~Terminal(row[o])
           => row'[o].state # "succeeded"]_vars
  BY StepOwners DEF Wins
<1> QED BY <1>1, OwnersInvariant, PTL DEF Spec, LocalCancellationWins
=============================================================================
