-------------------------- MODULE RunForestProofs --------------------------
(* What holds of every forest of Runs, whatever the number of Runs, rights,  *)
(* messages, calls, commands and exits: the invariant of RunForest and the   *)
(* properties that follow from it.                                           *)
EXTENDS RunForest, TLAPS

Rows == RunRows \cup {NoRun}
Table == [Runs -> Rows]

\* Two rows that differ at most in what other Runs' transactions do to them: fresh and moved.
Like(a, b) ==
  /\ a = NoRun <=> b = NoRun
  /\ a.status = b.status /\ a.parent = b.parent /\ a.above = b.above /\ a.kind = b.kind
  /\ a.grant = b.grant /\ a.told = b.told /\ a.inbox = b.inbox /\ a.active = b.active
  /\ a.open = b.open /\ a.on = b.on /\ a.until = b.until /\ a.interrupted = b.interrupted

LEMMA RowFields ==
  ASSUME NEW r \in RunRows
  PROVE  /\ r.status \in RunStates /\ r.parent \in Runs \cup {"none"} /\ r.above \subseteq Runs
         /\ r.kind \in RunKinds /\ r.grant \subseteq Rights /\ r.told \subseteq Rights
         /\ r.inbox \in 0..MaxInbox /\ r.active \in BOOLEAN /\ r.open \in OpenWork /\ r.on \subseteq Runs
         /\ r.until \in {"none", "any", "all", "change"} /\ r.moved \in BOOLEAN /\ r.fresh \in BOOLEAN
         /\ r.retryOf \in Runs \cup {"none"} /\ r.interrupted \in BOOLEAN
BY DEF RunRows

LEMMA NoRunIsNoRow == NoRun \notin RunRows
BY DEF NoRun, RunRows, RunStates

LEMMA MovedRows ==
  ASSUME NEW rs \in Table, NEW M
  PROVE  Moved(rs, M) \in Table /\ \A q \in Runs : Like(Moved(rs, M)[q], rs[q])
<1> SUFFICES ASSUME NEW q \in Runs PROVE Moved(rs, M)[q] \in Rows /\ Like(Moved(rs, M)[q], rs[q])
  BY DEF Table, Moved
<1>1. CASE rs[q] = NoRun BY <1>1 DEF Moved, Like, Rows
<1>2. CASE rs[q] # NoRun
  <2> DEFINE f == rs[q].fresh /\ q \notin M
             m == rs[q].moved \/ (rs[q].open = "wait" /\ rs[q].on \cap M # {})
  <2>1. rs[q] \in RunRows BY <1>2 DEF Table, Rows
  <2>2. Moved(rs, M)[q] = [rs[q] EXCEPT !.fresh = f, !.moved = m] BY <1>2 DEF Moved
  <2>3. f \in BOOLEAN /\ m \in BOOLEAN OBVIOUS
  <2> HIDE DEF f, m
  <2>4. [rs[q] EXCEPT !.fresh = f, !.moved = m] \in RunRows BY <2>1, <2>3 DEF RunRows
  <2>5. Like([rs[q] EXCEPT !.fresh = f, !.moved = m], rs[q]) BY <2>1, <2>4, NoRunIsNoRow, <1>2 DEF Like, RunRows
  <2> QED BY <2>2, <2>4, <2>5 DEF Rows
<1> QED BY <1>1, <1>2

-----------------------------------------------------------------------------
(* The invariant, said of a table rs, programs ps and tasks tk, so that it   *)
(* can be followed through a transaction that writes several rows.           *)

Present(rs, r) == rs[r] # NoRun
Ended(rs, r) == rs[r].status \in TerminalStates
Alive(rs, r) == Present(rs, r) /\ ~Ended(rs, r)
IsRoot(rs, r) == rs[r].parent = "none"

\* above is what is reached by going from parent to parent.
Tree(rs) ==
  \A r \in Runs : Present(rs, r) =>
    /\ rs[r].above \subseteq {q \in Runs : Present(rs, q)} /\ r \notin rs[r].above
    /\ \A q \in rs[r].above : rs[q].above \subseteq rs[r].above
    /\ IF IsRoot(rs, r) THEN rs[r].above = {} ELSE rs[r].parent \in rs[r].above

\* A tree has one root, whose rights bound what is given and told below it.
Told(rs, r, told) == \A q \in rs[r].above : IsRoot(rs, q) => told \subseteq rs[q].grant
Rules(rs) ==
  \A r \in Runs : Present(rs, r) =>
    /\ ~IsRoot(rs, r) => \E q \in rs[r].above : IsRoot(rs, q)
    /\ \A p \in rs[r].above, q \in rs[r].above : IsRoot(rs, p) /\ IsRoot(rs, q) => p = q
    /\ Told(rs, r, rs[r].grant) /\ Told(rs, r, rs[r].told)
    /\ ~IsRoot(rs, r) => rs[r].grant \subseteq rs[rs[r].parent].grant

Orphans(rs) ==
  \A r \in Runs : Alive(rs, r) => \A q \in rs[r].above : Alive(rs, q) \/ rs[q].interrupted

\* A program's child carries nothing but its program: nobody lives below it, and once started its
\* Activation lasts as long as it does.
Carries(row) ==
  /\ row.status \in {"accepted", "running", "paused"} \cup TerminalStates
  /\ row.status = "accepted" => row.inbox > 0
  /\ row.status \in {"running", "paused"} => row.active
  /\ row.open = "none"
Carriers(rs) ==
  \A c \in Runs : Present(rs, c) /\ rs[c].kind = "program" =>
    /\ c \in Children /\ ~IsRoot(rs, c) /\ Carries(rs[c])
    /\ \A r \in Runs : c \notin rs[r].above

Carrying(rs, S) == S # {} /\ \A c \in S : Present(rs, c) /\ rs[c].kind = "program"
Calling(rs) == \A r \in Runs : Present(rs, r) /\ rs[r].open = "program" => Carrying(rs, rs[r].on)

Forest(rs) == Tree(rs) /\ Rules(rs) /\ Orphans(rs) /\ Carriers(rs) /\ Calling(rs)

\* What a program has come to agrees with what its child has become.
NoneOpen(p) == \A i \in DOMAIN p.calls : p.calls[i] # "open"
Agrees(rs, ps, c) ==
  /\ ps[c].state # "open"
  /\ ps[c].told # "none" => /\ Present(rs, c) /\ rs[c].kind = "program" /\ Ended(rs, c)
                            /\ ps[c].told = rs[c].status /\ NoneOpen(ps[c])
  /\ Present(rs, c) /\ rs[c].kind = "program" /\ Ended(rs, c) /\ rs[c].status # "cancelled" => NoneOpen(ps[c])
  /\ Present(rs, c) /\ rs[c].kind = "program" /\ rs[c].status = "completed" =>
       ps[c].at = Len(Steps) + 1 /\ ps[c].state = "succeeded"
Outcomes(rs, ps) == \A c \in Children : Agrees(rs, ps, c)

\* Where a task stands says what its Run is at, and that nothing holds the Run or its ancestors.
Unpaused(rs, r) == \A q \in {r} \cup rs[r].above : rs[q].status # "paused"
Stands(rs, r, pc) ==
  /\ pc # "off" => Present(rs, r)
  /\ pc \in {"program", "stopped"} => rs[r].open = "program"
  /\ pc \notin {"off", "coordinate"} => rs[r].kind # "program"
  /\ pc \in {"running", "thinking", "waiting", "program"} => Unpaused(rs, r)
Tasks(rs, tk) == \A r \in Runs : Stands(rs, r, tk[r])

IndInv == TypeOK /\ Forest(runs) /\ Outcomes(runs, programs) /\ Tasks(runs, task)

-----------------------------------------------------------------------------
(* Transactions.  Most write one row and leave the shape of the tree alone.  *)

LEMMA LikeForest ==
  ASSUME NEW rs \in Table, NEW ss \in Table, \A q \in Runs : Like(ss[q], rs[q]), Forest(rs)
  PROVE  Forest(ss)
<1>0. \A q \in Runs : /\ Present(ss, q) <=> Present(rs, q)
                      /\ Ended(ss, q) <=> Ended(rs, q)
                      /\ IsRoot(ss, q) <=> IsRoot(rs, q)
                      /\ ss[q].above = rs[q].above /\ ss[q].parent = rs[q].parent /\ ss[q].kind = rs[q].kind
                      /\ ss[q].grant = rs[q].grant /\ ss[q].told = rs[q].told /\ ss[q].open = rs[q].open
                      /\ ss[q].on = rs[q].on /\ ss[q].interrupted = rs[q].interrupted
                      /\ Carries(ss[q]) <=> Carries(rs[q])
  BY DEF Like, Present, Ended, IsRoot, Carries
<1>a. \A q \in Runs : Present(rs, q) => rs[q].above \subseteq Runs
  BY DEF Forest, Tree
<1>b. \A q \in Runs : Present(rs, q) /\ ~IsRoot(rs, q) => rs[q].parent \in Runs
  BY <1>a DEF Forest, Tree
<1>1. Tree(ss) BY <1>0, <1>a DEF Forest, Tree
<1>2. Rules(ss) BY <1>0, <1>a, <1>b DEF Forest, Rules, Told
<1>3. Orphans(ss) BY <1>0, <1>a DEF Forest, Orphans, Alive
<1>4. Carriers(ss) BY <1>0 DEF Forest, Carriers
<1>5. Calling(ss)
  <2> SUFFICES ASSUME NEW r \in Runs, Present(ss, r), ss[r].open = "program" PROVE Carrying(ss, ss[r].on)
    BY DEF Calling
  <2>1. Carrying(rs, rs[r].on) /\ rs[r] \in RunRows BY <1>0 DEF Forest, Calling, Table, Rows, Present
  <2>2. rs[r].on \subseteq Runs BY <2>1, RowFields
  <2> QED BY <2>1, <2>2, <1>0 DEF Carrying
<1> QED BY <1>1, <1>2, <1>3, <1>4, <1>5 DEF Forest

\* Run r becomes row X: what holds of it under a tree that stays as it is.
NobodyBelow(rs, r) == \A c \in Runs : r \in rs[c].above => Ended(rs, c)
RowStep(rs, r, X) ==
  /\ X.parent = rs[r].parent /\ X.above = rs[r].above /\ X.kind = rs[r].kind /\ X.grant = rs[r].grant
  /\ Told(rs, r, X.told)
  /\ Ended(rs, r) => X.status = rs[r].status
  /\ rs[r].interrupted => X.interrupted
  /\ X.status \in TerminalStates /\ ~Ended(rs, r) /\ ~X.interrupted => NobodyBelow(rs, r)
  /\ X.open = "program" => Carrying(rs, X.on)
  /\ X.kind = "program" => Carries(X)

\* Table ss is table rs with row X for Run r.
Becomes(rs, ss, r, X) == ss \in Table /\ ss[r] = X /\ \A q \in Runs : q # r => ss[q] = rs[q]

LEMMA Updated ==
  ASSUME NEW rs \in Table, NEW r \in Runs, NEW X \in RunRows
  PROVE  Becomes(rs, [rs EXCEPT ![r] = X], r, X)
BY DEF Becomes, Table, Rows

LEMMA OneRow ==
  ASSUME NEW rs \in Table, Forest(rs), NEW r \in Runs, Present(rs, r), NEW X \in RunRows, RowStep(rs, r, X),
         NEW ss, Becomes(rs, ss, r, X)
  PROVE  ss \in Table /\ Forest(ss)
<1>1. ss \in Table /\ ss[r] = X /\ \A q \in Runs : q # r => ss[q] = rs[q] BY DEF Becomes
<1>2. X # NoRun BY NoRunIsNoRow
<1>3. \A q \in Runs : /\ Present(ss, q) <=> Present(rs, q)
                      /\ IsRoot(ss, q) <=> IsRoot(rs, q)
                      /\ Ended(rs, q) => Ended(ss, q)
                      /\ ss[q].above = rs[q].above /\ ss[q].parent = rs[q].parent /\ ss[q].kind = rs[q].kind
                      /\ ss[q].grant = rs[q].grant
                      /\ rs[q].interrupted => ss[q].interrupted
  BY <1>1, <1>2 DEF RowStep, Present, IsRoot, Ended
<1>a. \A q \in Runs : Present(rs, q) => rs[q].above \subseteq Runs
  BY DEF Forest, Tree
<1>b. \A q \in Runs : Present(rs, q) /\ ~IsRoot(rs, q) => rs[q].parent \in Runs
  BY <1>a DEF Forest, Tree
<1>4. Tree(ss) BY <1>3, <1>a DEF Forest, Tree
<1>5. Rules(ss)
  <2> SUFFICES ASSUME NEW q \in Runs, Present(ss, q)
               PROVE  /\ ~IsRoot(ss, q) => \E p \in ss[q].above : IsRoot(ss, p)
                      /\ \A p1 \in ss[q].above, p2 \in ss[q].above : IsRoot(ss, p1) /\ IsRoot(ss, p2) => p1 = p2
                      /\ Told(ss, q, ss[q].grant) /\ Told(ss, q, ss[q].told)
                      /\ ~IsRoot(ss, q) => ss[q].grant \subseteq ss[ss[q].parent].grant
    BY DEF Rules
  <2>1. \A told : Told(rs, q, told) => Told(ss, q, told) BY <1>3, <1>a DEF Told
  <2>2. Told(ss, q, ss[q].told)
    <3>1. CASE q = r BY <3>1, <2>1, <1>1 DEF RowStep
    <3>2. CASE q # r BY <3>2, <2>1, <1>1, <1>3 DEF Forest, Rules
    <3> QED BY <3>1, <3>2
  <2> QED BY <2>1, <2>2, <1>3, <1>a, <1>b DEF Forest, Rules
<1>6. Orphans(ss)
  <2> SUFFICES ASSUME NEW c \in Runs, Alive(ss, c), NEW q \in ss[c].above, ~ss[q].interrupted PROVE Alive(ss, q)
    BY DEF Orphans
  <2>1. Alive(rs, c) BY <1>3 DEF Alive
  <2>2. q \in Runs /\ q \in rs[c].above BY <1>3, <1>a, <2>1 DEF Alive
  <2>3. Alive(rs, q) BY <2>1, <2>2, <1>3 DEF Forest, Orphans
  <2>4. CASE q = r
    <3>1. Ended(ss, r) => NobodyBelow(rs, r) BY <1>1, <2>3, <2>4 DEF RowStep, Ended, Alive
    <3> QED BY <3>1, <2>1, <2>2, <2>3, <2>4, <1>3 DEF NobodyBelow, Alive
  <2>5. CASE q # r BY <2>5, <2>2, <2>3, <1>1 DEF Alive, Present, Ended
  <2> QED BY <2>4, <2>5
<1>7. Carriers(ss)
  <2> SUFFICES ASSUME NEW c \in Runs, Present(ss, c), ss[c].kind = "program"
               PROVE  c \in Children /\ ~IsRoot(ss, c) /\ Carries(ss[c]) /\ \A q \in Runs : c \notin ss[q].above
    BY DEF Carriers
  <2>1. c \in Children /\ ~IsRoot(rs, c) /\ Carries(rs[c]) /\ \A q \in Runs : c \notin rs[q].above
    BY <1>3 DEF Forest, Carriers
  <2> QED BY <2>1, <1>1, <1>3 DEF RowStep
<1>8. Calling(ss)
  <2> SUFFICES ASSUME NEW q \in Runs, Present(ss, q), ss[q].open = "program" PROVE Carrying(ss, ss[q].on)
    BY DEF Calling
  <2>1. ss[q] \in RunRows BY <1>1 DEF Present, Table, Rows
  <2>2. ss[q].on \subseteq Runs BY <2>1, RowFields
  <2>3. Carrying(rs, ss[q].on) BY <1>1, <1>3 DEF RowStep, Forest, Calling
  <2> QED BY <2>2, <2>3, <1>3 DEF Carrying
<1> QED BY <1>1, <1>4, <1>5, <1>6, <1>7, <1>8 DEF Forest

LEMMA ManyRows ==
  ASSUME NEW rs \in Table, NEW ss \in Table, Forest(rs),
         \A q \in Runs :
           /\ Present(ss, q) <=> Present(rs, q)
           /\ Present(rs, q) =>
                /\ ss[q].parent = rs[q].parent /\ ss[q].above = rs[q].above /\ ss[q].kind = rs[q].kind
                /\ ss[q].grant = rs[q].grant /\ ss[q].told = rs[q].told
                /\ ss[q].interrupted = rs[q].interrupted
                /\ ss[q].open = "program" => rs[q].open = "program" /\ ss[q].on = rs[q].on
                /\ rs[q].kind = "program" => Carries(ss[q])
                /\ Ended(rs, q) => Ended(ss, q)
                /\ Ended(ss, q) /\ ~Ended(rs, q) => NobodyBelow(ss, q)
  PROVE  Forest(ss)
<1>0. \A q \in Runs : ~Present(rs, q) => rs[q] = NoRun /\ ss[q] = NoRun BY DEF Present
<1>1. \A q \in Runs : /\ ss[q].above = rs[q].above /\ ss[q].parent = rs[q].parent
                      /\ IsRoot(ss, q) <=> IsRoot(rs, q)
  BY <1>0 DEF IsRoot
<1>a. \A q \in Runs : Present(rs, q) => rs[q].above \subseteq {p \in Runs : Present(rs, p)}
  BY DEF Forest, Tree
<1>b. \A q \in Runs : Present(rs, q) /\ ~IsRoot(rs, q) => rs[q].parent \in {p \in Runs : Present(rs, p)}
  BY <1>a DEF Forest, Tree
<1>2. Tree(ss) BY <1>1, <1>a DEF Forest, Tree
<1>3. Rules(ss) BY <1>1, <1>a, <1>b DEF Forest, Rules, Told
<1>4. Orphans(ss)
  <2> SUFFICES ASSUME NEW c \in Runs, Alive(ss, c), NEW q \in ss[c].above, ~ss[q].interrupted PROVE Alive(ss, q)
    BY DEF Orphans
  <2>1. Alive(rs, c) BY DEF Alive
  <2>2. q \in Runs /\ q \in rs[c].above /\ Present(rs, q) BY <1>1, <1>a, <2>1 DEF Alive
  <2>3. Alive(rs, q) BY <2>1, <2>2 DEF Forest, Orphans
  <2>4. Ended(ss, q) => NobodyBelow(ss, q) BY <2>2, <2>3 DEF Alive
  <2> QED BY <2>2, <2>4 DEF NobodyBelow, Alive
<1>5. Carriers(ss) BY <1>1 DEF Forest, Carriers
<1>6. Calling(ss)
  <2> SUFFICES ASSUME NEW q \in Runs, Present(ss, q), ss[q].open = "program" PROVE Carrying(ss, ss[q].on)
    BY DEF Calling
  <2>1. ss[q] \in RunRows BY DEF Present, Table, Rows
  <2>2. ss[q].on \subseteq Runs BY <2>1, RowFields
  <2> QED BY <2>2 DEF Forest, Calling, Carrying
<1> QED BY <1>2, <1>3, <1>4, <1>5, <1>6 DEF Forest

\* A Run that begins: a root, or a child of a Run that is at work.
Newborn(rs, c, X) ==
  /\ X.status = "accepted" /\ X.told = {} /\ X.open = "none" /\ X.inbox > 0
  /\ \/ X.parent = "none" /\ X.above = {} /\ X.kind # "program"
     \/ /\ X.parent \in Runs /\ Alive(rs, X.parent) /\ rs[X.parent].kind # "program"
        /\ X.above = {X.parent} \cup rs[X.parent].above
        /\ X.grant \subseteq rs[X.parent].grant
        /\ X.kind = "program" => c \in Children

LEMMA Born ==
  ASSUME NEW rs \in Table, Forest(rs), NEW c \in Runs, ~Present(rs, c), NEW X \in RunRows, Newborn(rs, c, X),
         NEW ss, Becomes(rs, ss, c, X)
  PROVE  ss \in Table /\ Forest(ss)
<1>1. ss \in Table /\ ss[c] = X /\ \A q \in Runs : q # c => ss[q] = rs[q] BY DEF Becomes
<1>2. Present(ss, c) /\ \A q \in Runs : Present(rs, q) => Present(ss, q) /\ ss[q] = rs[q]
  BY <1>1, NoRunIsNoRow DEF Present
<1>a. \A q \in Runs : rs[q].above \subseteq {p \in Runs : Present(rs, p)}
  BY DEF Forest, Tree, Present, NoRun
<1>b. \A q \in Runs : c \notin rs[q].above BY <1>a
<1>c. IsRoot(ss, c) <=> X.parent = "none" BY <1>1 DEF IsRoot
<1>d. "none" \notin Runs BY TreeAssumption DEF Runs
<1>e. ~IsRoot(ss, c) => /\ X.parent \in Runs /\ Present(rs, X.parent) /\ X.parent # c
                        /\ X.above = {X.parent} \cup rs[X.parent].above /\ X.grant \subseteq rs[X.parent].grant
  BY <1>c DEF Newborn, Alive
<1>f. IsRoot(ss, c) => X.above = {} BY <1>c, <1>d DEF Newborn
<1>3. Tree(ss)
  <2> SUFFICES ASSUME NEW q \in Runs, Present(ss, q)
               PROVE  /\ ss[q].above \subseteq {p \in Runs : Present(ss, p)} /\ q \notin ss[q].above
                      /\ \A p \in ss[q].above : ss[p].above \subseteq ss[q].above
                      /\ IF IsRoot(ss, q) THEN ss[q].above = {} ELSE ss[q].parent \in ss[q].above
    BY DEF Tree
  <2>1. CASE q # c
    <3>1. Present(rs, q) /\ ss[q] = rs[q] BY <2>1, <1>1 DEF Present
    <3> QED BY <3>1, <1>2, <1>a DEF Forest, Tree, IsRoot
  <2>2. CASE q = c /\ IsRoot(ss, c) BY <2>2, <1>1, <1>f
  <2>3. CASE q = c /\ ~IsRoot(ss, c)
    <3>1. X.above \subseteq {p \in Runs : Present(rs, p)} BY <2>3, <1>e, <1>a
    <3>2. \A p \in X.above : rs[p].above \subseteq X.above BY <2>3, <1>e DEF Forest, Tree
    <3> QED BY <3>1, <3>2, <2>3, <1>1, <1>2, <1>e
  <2> QED BY <2>1, <2>2, <2>3
<1>4. Rules(ss)
  <2> SUFFICES ASSUME NEW q \in Runs, Present(ss, q)
               PROVE  /\ ~IsRoot(ss, q) => \E p \in ss[q].above : IsRoot(ss, p)
                      /\ \A p1 \in ss[q].above, p2 \in ss[q].above : IsRoot(ss, p1) /\ IsRoot(ss, p2) => p1 = p2
                      /\ Told(ss, q, ss[q].grant) /\ Told(ss, q, ss[q].told)
                      /\ ~IsRoot(ss, q) => ss[q].grant \subseteq ss[ss[q].parent].grant
    BY DEF Rules
  <2>1. CASE q # c
    <3>1. Present(rs, q) /\ ss[q] = rs[q] BY <2>1, <1>1 DEF Present
    <3>2. \A p \in rs[q].above : p \in Runs /\ ss[p] = rs[p] BY <1>2, <1>a
    <3>3. ~IsRoot(rs, q) => rs[q].parent \in rs[q].above BY <3>1 DEF Forest, Tree
    <3> QED BY <3>1, <3>2, <3>3 DEF Forest, Rules, IsRoot, Told
  <2>2. CASE q = c /\ IsRoot(ss, c) BY <2>2, <1>1, <1>f DEF Told
  <2>3. CASE q = c /\ ~IsRoot(ss, c)
    <3> DEFINE r == X.parent
    <3>1. r \in Runs /\ Present(rs, r) /\ X.above = {r} \cup rs[r].above /\ X.grant \subseteq rs[r].grant
      BY <2>3, <1>e
    <3>2. \A p \in X.above : p \in Runs /\ ss[p] = rs[p] BY <1>2, <1>a, <3>1
    <3>3. X.told = {} BY DEF Newborn
    <3>4. CASE IsRoot(rs, r)
      <4>1. X.above = {r} BY <3>1, <3>4 DEF Forest, Tree
      <4> QED BY <4>1, <3>1, <3>2, <3>3, <3>4, <2>3, <1>1 DEF IsRoot, Told
    <3>5. CASE ~IsRoot(rs, r)
      <4>1. \A p \in X.above : IsRoot(rs, p) => p \in rs[r].above BY <3>1, <3>5
      <4>2. \E p \in rs[r].above : IsRoot(rs, p) BY <3>1, <3>5 DEF Forest, Rules
      <4>3. \A p1 \in rs[r].above, p2 \in rs[r].above : IsRoot(rs, p1) /\ IsRoot(rs, p2) => p1 = p2
        BY <3>1 DEF Forest, Rules
      <4>4. Told(rs, r, rs[r].grant) BY <3>1 DEF Forest, Rules
      <4> QED BY <4>1, <4>2, <4>3, <4>4, <3>1, <3>2, <3>3, <2>3, <1>1 DEF IsRoot, Told
    <3> QED BY <3>4, <3>5
  <2> QED BY <2>1, <2>2, <2>3
<1>5. Orphans(ss)
  <2> SUFFICES ASSUME NEW q \in Runs, Alive(ss, q), NEW p \in ss[q].above PROVE Alive(ss, p) \/ ss[p].interrupted
    BY DEF Orphans
  <2>1. CASE q # c
    <3>1. Alive(rs, q) /\ ss[q] = rs[q] BY <2>1, <1>1 DEF Alive, Present, Ended
    <3>2. p \in Runs /\ ss[p] = rs[p] BY <3>1, <1>2, <1>a
    <3> QED BY <3>1, <3>2 DEF Forest, Orphans, Alive, Present, Ended
  <2>2. CASE q = c
    <3>1. X.parent \in Runs /\ Alive(rs, X.parent) /\ p \in {X.parent} \cup rs[X.parent].above
      BY <2>2, <1>1 DEF Newborn
    <3>2. p \in Runs /\ ss[p] = rs[p] BY <3>1, <1>2, <1>a DEF Alive
    <3> QED BY <3>1, <3>2 DEF Forest, Orphans, Alive, Present, Ended
  <2> QED BY <2>1, <2>2
<1>6. Carriers(ss)
  <2> SUFFICES ASSUME NEW q \in Runs, Present(ss, q), ss[q].kind = "program"
               PROVE  q \in Children /\ ~IsRoot(ss, q) /\ Carries(ss[q]) /\ \A p \in Runs : q \notin ss[p].above
    BY DEF Carriers
  <2>1. CASE q # c
    <3>1. Present(rs, q) /\ ss[q] = rs[q] BY <2>1, <1>1 DEF Present
    <3>2. q \in Children /\ ~IsRoot(rs, q) /\ Carries(rs[q]) /\ \A p \in Runs : q \notin rs[p].above
      BY <3>1 DEF Forest, Carriers
    <3>3. q \notin X.above BY <3>1, <3>2 DEF Newborn
    <3> QED BY <3>1, <3>2, <3>3, <1>1 DEF IsRoot
  <2>2. CASE q = c
    <3>1. X.kind = "program" BY <2>2, <1>1
    <3>2. q \in Children /\ ~IsRoot(ss, q) /\ Carries(X)
      BY <2>2, <3>1, <1>c, <1>d DEF Newborn, Carries, TerminalStates
    <3>3. c \notin X.above BY <1>e, <1>f, <1>b
    <3> QED BY <3>2, <3>3, <2>2, <1>1, <1>b
  <2> QED BY <2>1, <2>2
<1>7. Calling(ss)
  <2> SUFFICES ASSUME NEW q \in Runs, Present(ss, q), ss[q].open = "program" PROVE Carrying(ss, ss[q].on)
    BY DEF Calling
  <2>1. q # c BY <1>1 DEF Newborn
  <2>2. Present(rs, q) /\ ss[q] = rs[q] BY <2>1, <1>1 DEF Present
  <2>3. ss[q] \in RunRows BY <1>1 DEF Present, Table, Rows
  <2>4. ss[q].on \subseteq Runs BY <2>3, RowFields
  <2> QED BY <2>2, <2>4, <1>2 DEF Forest, Calling, Carrying
<1> QED BY <1>1, <1>3, <1>4, <1>5, <1>6, <1>7 DEF Forest

-----------------------------------------------------------------------------
(* What a transaction leaves of what tasks and programs rely on, from table  *)
(* rs to table ss.                                                           *)

\* Rows stay, an end is final, and a program is left open but in S.
Follows(rs, ss, S) ==
  \A q \in Runs :
    /\ Present(rs, q) => /\ Present(ss, q) /\ ss[q].kind = rs[q].kind /\ ss[q].above = rs[q].above
                         /\ Ended(rs, q) => ss[q].status = rs[q].status
                         /\ q \notin S /\ rs[q].open = "program" => ss[q].open = "program"
    /\ ~Present(rs, q) => ~Ended(ss, q)
Calm(rs, ss) == \A q \in Runs : ss[q].status = "paused" => rs[q].status = "paused"
\* No program's child ends but by a cancellation.
Endings(rs, ss) ==
  \A q \in Runs : Present(rs, q) /\ rs[q].kind = "program" /\ ~Ended(rs, q) /\ Ended(ss, q) =>
                    ss[q].status = "cancelled"

LEMMA LikeFollows ==
  ASSUME NEW rs \in Table, NEW ss \in Table, NEW tt \in Table, NEW S,
         \A q \in Runs : Like(tt[q], ss[q]), Follows(rs, ss, S)
  PROVE  /\ Follows(rs, tt, S)
         /\ Calm(rs, ss) => Calm(rs, tt)
         /\ Endings(rs, ss) => Endings(rs, tt)
BY DEF Like, Follows, Calm, Endings, Present, Ended

LEMMA FollowsSelf == ASSUME NEW rs \in Table PROVE Follows(rs, rs, {}) /\ Calm(rs, rs) /\ Endings(rs, rs)
<1>1. \A q \in Runs : ~Present(rs, q) => ~Ended(rs, q) BY DEF Present, Ended, NoRun, TerminalStates
<1> QED BY <1>1 DEF Follows, Calm, Endings

LEMMA FollowsOn ==
  ASSUME NEW rs \in Table, NEW ss \in Table, NEW tt \in Table, NEW S, NEW T, Follows(rs, ss, S), Follows(ss, tt, T),
         \A q \in Runs : ~Present(rs, q) /\ Present(ss, q) => ~Ended(tt, q)
  PROVE  /\ Follows(rs, tt, S \cup T)
         /\ Calm(rs, ss) /\ Calm(ss, tt) => Calm(rs, tt)
         /\ Endings(rs, ss) /\ Endings(ss, tt) => Endings(rs, tt)
<1>1. Follows(rs, tt, S \cup T)
  <2> SUFFICES ASSUME NEW q \in Runs
               PROVE  /\ Present(rs, q) => /\ Present(tt, q) /\ tt[q].kind = rs[q].kind /\ tt[q].above = rs[q].above
                                           /\ Ended(rs, q) => tt[q].status = rs[q].status
                                           /\ q \notin S \cup T /\ rs[q].open = "program" => tt[q].open = "program"
                      /\ ~Present(rs, q) => ~Ended(tt, q)
    BY DEF Follows
  <2>1. CASE Present(rs, q) BY <2>1 DEF Follows, Ended
  <2>2. CASE ~Present(rs, q) BY <2>2 DEF Follows
  <2> QED BY <2>1, <2>2
<1>2. Calm(rs, ss) /\ Calm(ss, tt) => Calm(rs, tt) BY DEF Calm
<1>3. Endings(rs, ss) /\ Endings(ss, tt) => Endings(rs, tt) BY DEF Endings, Follows, Ended
<1> QED BY <1>1, <1>2, <1>3

\* One row: what the three relations ask of it.
LEMMA OneRowFollows ==
  ASSUME NEW rs \in Table, NEW r \in Runs, Present(rs, r), NEW X \in RunRows, RowStep(rs, r, X),
         NEW ss, Becomes(rs, ss, r, X)
  PROVE  /\ Follows(rs, ss, {r})
         /\ (rs[r].open = "program" => X.open = "program") => Follows(rs, ss, {})
         /\ (X.status = "paused" => rs[r].status = "paused") => Calm(rs, ss)
         /\ (rs[r].kind = "program" /\ ~Ended(rs, r) /\ X.status \in TerminalStates => X.status = "cancelled") =>
              Endings(rs, ss)
<1>1. ss[r] = X /\ \A q \in Runs : q # r => ss[q] = rs[q] BY DEF Becomes
<1>2. \A q \in Runs : ~Present(rs, q) => ~Ended(rs, q) BY DEF Present, Ended, NoRun, TerminalStates
<1>3. Present(ss, r) BY <1>1, NoRunIsNoRow DEF Present
<1>4. Follows(rs, ss, {r})
  <2> SUFFICES ASSUME NEW q \in Runs
               PROVE  /\ Present(rs, q) => /\ Present(ss, q) /\ ss[q].kind = rs[q].kind /\ ss[q].above = rs[q].above
                                           /\ Ended(rs, q) => ss[q].status = rs[q].status
                                           /\ q \notin {r} /\ rs[q].open = "program" => ss[q].open = "program"
                      /\ ~Present(rs, q) => ~Ended(ss, q)
    BY DEF Follows
  <2>1. CASE q = r BY <2>1, <1>1, <1>3 DEF RowStep
  <2>2. CASE q # r BY <2>2, <1>1, <1>2 DEF Present, Ended
  <2> QED BY <2>1, <2>2
<1>5. ASSUME rs[r].open = "program" => X.open = "program" PROVE Follows(rs, ss, {})
  BY <1>4, <1>5, <1>1 DEF Follows
<1>6. ASSUME X.status = "paused" => rs[r].status = "paused" PROVE Calm(rs, ss) BY <1>6, <1>1 DEF Calm
<1>7. ASSUME rs[r].kind = "program" /\ ~Ended(rs, r) /\ X.status \in TerminalStates => X.status = "cancelled"
      PROVE  Endings(rs, ss)
  BY <1>7, <1>1 DEF Endings, Ended
<1> QED BY <1>4, <1>5, <1>6, <1>7

LEMMA BornFollows ==
  ASSUME NEW rs \in Table, NEW c \in Runs, ~Present(rs, c), NEW X \in RunRows, Newborn(rs, c, X),
         NEW ss, Becomes(rs, ss, c, X)
  PROVE  Follows(rs, ss, {}) /\ Calm(rs, ss) /\ Endings(rs, ss)
<1>1. ss[c] = X /\ \A q \in Runs : q # c => ss[q] = rs[q] BY DEF Becomes
<1>2. \A q \in Runs : ~Present(rs, q) => ~Ended(rs, q) BY DEF Present, Ended, NoRun, TerminalStates
<1>3. ~Ended(ss, c) /\ ss[c].status # "paused" BY <1>1 DEF Newborn, Ended, TerminalStates
<1>4. Follows(rs, ss, {}) BY <1>1, <1>2, <1>3 DEF Follows, Present, Ended
<1>5. Calm(rs, ss) BY <1>1, <1>3 DEF Calm
<1>6. Endings(rs, ss) BY <1>1, <1>3 DEF Endings, Ended
<1> QED BY <1>4, <1>5, <1>6

\* The write that ends a transaction.
LEMMA Written ==
  ASSUME NEW rs \in Table, NEW ss \in Table, Forest(ss), NEW S, Follows(rs, ss, S), NEW M
  PROVE  LET tt == Moved(ss, M) IN
         /\ tt \in Table /\ Forest(tt) /\ Follows(rs, tt, S)
         /\ Calm(rs, ss) => Calm(rs, tt)
         /\ Endings(rs, ss) => Endings(rs, tt)
         /\ \A q \in Runs : Like(tt[q], ss[q])
BY MovedRows, LikeForest, LikeFollows

-----------------------------------------------------------------------------
(* Tasks and programs after a transaction.                                   *)

LEMMA FollowTask ==
  ASSUME NEW rs \in Table, NEW ss \in Table, NEW S, Tree(rs), Follows(rs, ss, S), Calm(rs, ss),
         NEW q \in Runs, NEW pc, Stands(rs, q, pc), q \notin S \/ pc \notin {"program", "stopped"}
  PROVE  Stands(ss, q, pc)
<1>1. CASE pc = "off" BY <1>1 DEF Stands
<1>2. CASE pc # "off"
  <2>1. Present(rs, q) BY <1>2 DEF Stands
  <2>2. /\ Present(ss, q) /\ ss[q].kind = rs[q].kind /\ ss[q].above = rs[q].above
        /\ q \notin S /\ rs[q].open = "program" => ss[q].open = "program"
    BY <2>1 DEF Follows
  <2>3. rs[q].above \subseteq Runs BY <2>1 DEF Tree
  <2>4. Unpaused(rs, q) => Unpaused(ss, q) BY <2>2, <2>3 DEF Unpaused, Calm
  <2> QED BY <2>2, <2>4 DEF Stands
<1> QED BY <1>1, <1>2

LEMMA FollowAgrees ==
  ASSUME NEW rs \in Table, NEW ss \in Table, NEW S, Follows(rs, ss, S), NEW ps, NEW c \in Children, Agrees(rs, ps, c),
         rs[c].kind = "program" /\ ~Ended(rs, c) /\ Ended(ss, c) => ss[c].status = "cancelled"
  PROVE  Agrees(ss, ps, c)
<1>1. c \in Runs BY DEF Runs
<1>2. Present(ss, c) /\ ss[c].kind = "program" /\ Ended(ss, c) /\ ss[c].status # "cancelled" =>
        Present(rs, c) /\ rs[c].kind = "program" /\ Ended(rs, c) /\ rs[c].status = ss[c].status
  BY <1>1 DEF Follows, Ended
<1>3. ps[c].told # "none" => /\ Present(ss, c) /\ ss[c].kind = "program" /\ Ended(ss, c)
                            /\ ps[c].told = ss[c].status
  BY <1>1 DEF Agrees, Follows, Ended
<1>4. ss[c].status = "completed" => (Ended(ss, c) /\ ss[c].status # "cancelled") BY DEF Ended, TerminalStates
<1> QED BY <1>1, <1>2, <1>3, <1>4 DEF Agrees

LEMMA FollowOutcomes ==
  ASSUME NEW rs \in Table, NEW ss \in Table, NEW S, Follows(rs, ss, S), Endings(rs, ss), NEW ps, Outcomes(rs, ps)
  PROVE  Outcomes(ss, ps)
<1> SUFFICES ASSUME NEW c \in Children PROVE Agrees(ss, ps, c) BY DEF Outcomes
<1>1. c \in Runs /\ Agrees(rs, ps, c) BY DEF Runs, Outcomes
<1>2. rs[c].kind = "program" /\ ~Ended(rs, c) /\ Ended(ss, c) => ss[c].status = "cancelled"
  BY <1>1 DEF Endings, Follows
<1> QED BY <1>1, <1>2, FollowAgrees

Rest == /\ sweep \in BOOLEAN /\ attempted \subseteq Runs /\ host \in {"up", "down", "booting", "failed", "hung"}
        /\ todo \in [Runs -> {"done", "reconcile", "recover", "retry"}] /\ usable \in BOOLEAN

LEMMA Facts == ASSUME IndInv PROVE /\ runs \in Table /\ Forest(runs) /\ Outcomes(runs, programs) /\ Tasks(runs, task)
                                   /\ programs \in [Children -> Programs] /\ task \in [Runs -> Pcs] /\ Rest
                                   /\ Tree(runs)
BY DEF IndInv, TypeOK, Table, Rows, Rest, Forest

\* Nothing but tasks and the process.
LEMMA SameRows ==
  ASSUME IndInv, UNCHANGED <<runs, programs>>, task' \in [Runs -> Pcs], Rest',
         \A q \in Runs : Stands(runs, q, task'[q])
  PROVE  IndInv'
BY Facts DEF IndInv, TypeOK, Rest, Tasks, Table, Rows

\* Rows and programs, and where each task is now.
LEMMA NewRows ==
  ASSUME runs' \in Table, Forest(runs'), Outcomes(runs', programs'), programs' \in [Children -> Programs],
         task' \in [Runs -> Pcs], Rest', \A q \in Runs : Stands(runs', q, task'[q])
  PROVE  IndInv'
BY DEF IndInv, TypeOK, Rest, Tasks, Table, Rows

\* A transaction of the task of r, which then stands at pc.
LEMMA TaskStep ==
  ASSUME IndInv, runs' \in Table, Forest(runs'), Outcomes(runs', programs'), programs' \in [Children -> Programs],
         NEW r \in Runs, NEW pc \in Pcs, task' = [task EXCEPT ![r] = pc], Rest',
         Follows(runs, runs', {r}), Calm(runs, runs'), Stands(runs', r, pc)
  PROVE  IndInv'
<1>1. runs \in Table /\ Tree(runs) /\ Tasks(runs, task) /\ task \in [Runs -> Pcs] BY Facts
<1>2. task' \in [Runs -> Pcs] /\ task'[r] = pc /\ \A q \in Runs : q # r => task'[q] = task[q] BY <1>1
<1>3. ASSUME NEW q \in Runs, q # r PROVE Stands(runs', q, task[q])
  <2>1. Stands(runs, q, task[q]) BY <1>1 DEF Tasks
  <2> QED BY <1>1, <1>3, <2>1, FollowTask
<1> QED BY <1>2, <1>3, NewRows

LEMMA MoveTask ==
  ASSUME IndInv, unchangedByCalls, NEW r \in Runs
  PROVE  /\ \A pc \in Pcs : Goes(r, pc) => Rest' /\ task' = [task EXCEPT ![r] = pc]
         /\ Leaves(r) \/ Throws(r) => Rest' /\ task' = [task EXCEPT ![r] = "off"]
<1> Rest BY Facts
<1> QED BY DEF Rest, unchangedByCalls, Goes, Goto, Leaves, Throws

\* The task of r moves to where the rows let it be.
LEMMA SameRowsStep ==
  ASSUME IndInv, UNCHANGED <<runs, programs>>, NEW r \in Runs, NEW pc \in Pcs,
         task' = [task EXCEPT ![r] = pc], Rest', Stands(runs, r, pc)
  PROVE  IndInv'
<1>1. task \in [Runs -> Pcs] /\ Tasks(runs, task) BY Facts
<1>2. task' \in [Runs -> Pcs] /\ \A q \in Runs : Stands(runs, q, task'[q]) BY <1>1 DEF Tasks
<1> QED BY <1>2, SameRows

LEMMA WriteStep ==
  ASSUME IndInv, NEW r \in Runs, NEW ss \in Table, Forest(ss), NEW M, Write(ss, M), Follows(runs, ss, {r}), Calm(runs, ss),
         Endings(runs, ss), UNCHANGED programs, NEW pc \in Pcs, task' = [task EXCEPT ![r] = pc],
         Rest', Stands(runs, r, pc), Follows(runs, ss, {}) \/ pc \notin {"program", "stopped"}
  PROVE  IndInv'
<1>1. runs \in Table /\ Tree(runs) /\ Outcomes(runs, programs) /\ programs \in [Children -> Programs] BY Facts
<1>2. /\ runs' \in Table /\ Forest(runs') /\ Follows(runs, runs', {r}) /\ Calm(runs, runs')
      /\ Endings(runs, runs')
  BY <1>1, Written DEF Write
<1>3. Outcomes(runs', programs') BY <1>1, <1>2, FollowOutcomes
<1>4. Stands(runs', r, pc)
  <2>1. CASE pc \notin {"program", "stopped"} BY <1>1, <1>2, <2>1, FollowTask
  <2>2. CASE Follows(runs, ss, {})
    <3>1. Follows(runs, runs', {}) BY <1>1, <2>2, Written DEF Write
    <3> QED BY <1>1, <1>2, <3>1, FollowTask
  <2> QED BY <2>1, <2>2
<1> QED BY <1>1, <1>2, <1>3, <1>4, TaskStep

\* A row keeps its place in the tree and what it was given.
Kin(X, row) ==
  /\ X.parent = row.parent /\ X.above = row.above /\ X.kind = row.kind /\ X.grant = row.grant /\ X.told = row.told
  /\ X.interrupted = row.interrupted

LEMMA RowStepFrom ==
  ASSUME NEW rs \in Table, Forest(rs), NEW r \in Runs, Present(rs, r), NEW X \in RunRows, Kin(X, rs[r]),
         Ended(rs, r) => X.status = rs[r].status,
         X.status \in TerminalStates /\ ~Ended(rs, r) => NobodyBelow(rs, r),
         X.open = "program" => rs[r].open = "program" /\ X.on = rs[r].on,
         rs[r].kind = "program" => Carries(X)
  PROVE  RowStep(rs, r, X)
BY DEF RowStep, Forest, Rules, Calling, Kin

\* The task of r writes row q, and moves to where the rows let it be.
LEMMA OneRowStep ==
  ASSUME IndInv, NEW q \in Runs, Present(runs, q), NEW X \in RunRows, RowStep(runs, q, X),
         NEW M, Write([runs EXCEPT ![q] = X], M), UNCHANGED programs,
         X.status = "paused" => runs[q].status = "paused",
         runs[q].kind = "program" /\ ~Ended(runs, q) /\ X.status \in TerminalStates => X.status = "cancelled",
         NEW r \in Runs, NEW pc \in Pcs, task' = [task EXCEPT ![r] = pc], Rest', Stands(runs, r, pc),
         \/ q = r /\ pc \notin {"program", "stopped"}
         \/ runs[q].open = "program" => X.open = "program"
  PROVE  IndInv'
<1> DEFINE ss == [runs EXCEPT ![q] = X]
<1>1. runs \in Table /\ Forest(runs) BY Facts
<1>2. /\ ss \in Table /\ Forest(ss) /\ Follows(runs, ss, {q})
      /\ (runs[q].open = "program" => X.open = "program") => Follows(runs, ss, {})
      /\ Calm(runs, ss) /\ Endings(runs, ss) /\ Write(ss, M)
  <2>1. Becomes(runs, ss, q, X) /\ Write(ss, M) BY <1>1, Updated
  <2> HIDE DEF ss
  <2>2. ss \in Table /\ Forest(ss) BY <1>1, <2>1, OneRow
  <2>3. Follows(runs, ss, {q}) BY <1>1, <2>1, OneRowFollows
  <2>4. (runs[q].open = "program" => X.open = "program") => Follows(runs, ss, {})
    BY <1>1, <2>1, OneRowFollows
  <2>5. Calm(runs, ss) BY <1>1, <2>1, OneRowFollows
  <2>6. Endings(runs, ss) BY <1>1, <2>1, OneRowFollows
  <2> QED BY <2>1, <2>2, <2>3, <2>4, <2>5, <2>6
<1> HIDE DEF ss
<1>3. CASE q = r /\ pc \notin {"program", "stopped"}
  <2>1. Follows(runs, ss, {r}) BY <1>2, <1>3
  <2> QED BY <1>2, <1>3, <2>1, WriteStep
<1>4. CASE runs[q].open = "program" => X.open = "program"
  <2>1. Follows(runs, ss, {}) BY <1>2, <1>4
  <2>2. Follows(runs, ss, {r}) BY <2>1 DEF Follows
  <2> QED BY <1>2, <2>1, <2>2, WriteStep
<1> QED BY <1>3, <1>4

LEMMA TheProgram ==
  ASSUME IndInv, NEW r \in Runs, Present(runs, r), runs[r].open = "program"
  PROVE  LET c == programOf(r) IN
         /\ c \in runs[r].on /\ c \in Children /\ c \in Runs /\ c # r /\ Present(runs, c) /\ runs[c].kind = "program"
         /\ Carries(runs[c]) /\ NobodyBelow(runs, c) /\ programs[c] \in Programs /\ Agrees(runs, programs, c)
<1>1. runs \in Table /\ Forest(runs) /\ Outcomes(runs, programs) /\ programs \in [Children -> Programs] BY Facts
<1>2. Carrying(runs, runs[r].on) BY <1>1 DEF Forest, Calling
<1>3. programOf(r) \in runs[r].on BY <1>2 DEF programOf, Carrying
<1>4. runs[r].on \subseteq Runs BY <1>1, RowFields DEF Table, Rows, Present
<1>5. programOf(r) \in Runs /\ Present(runs, programOf(r)) /\ runs[programOf(r)].kind = "program"
  BY <1>2, <1>3, <1>4 DEF Carrying
<1>6. programOf(r) \in Children /\ Carries(runs[programOf(r)]) /\ \A q \in Runs : programOf(r) \notin runs[q].above
  BY <1>1, <1>5 DEF Forest, Carriers
<1>7. programOf(r) # r BY <1>6 DEF Carries
<1> QED BY <1>1, <1>3, <1>5, <1>6, <1>7 DEF NobodyBelow, Outcomes

\* Only an agent or a root has a task that went past its first look.
LEMMA NotAProgram ==
  ASSUME IndInv, NEW r \in Runs, Present(runs, r), runs[r].open # "none"
  PROVE  runs[r].kind # "program"
BY Facts DEF Forest, Carriers, Carries

LEMMA Standing == ASSUME IndInv, NEW r \in Runs PROVE Stands(runs, r, task[r])
BY Facts DEF Tasks

-----------------------------------------------------------------------------
(* One pass of a coordination, step by step.                                 *)

LEMMA StopSteps ==
  ASSUME IndInv, NEW r \in Runs, Defer(r) \/ Discard(r) \/ Throw(r) \/ ToolProgramThrows(r)
  PROVE  IndInv'
<1>1. unchangedByCalls /\ UNCHANGED <<runs, programs>> /\ (Leaves(r) \/ Throws(r))
  BY DEF Defer, Discard, Throw, ToolProgramThrows, unchangedByTasks
<1>2. Stands(runs, r, "off") BY DEF Stands
<1> QED BY <1>1, <1>2, MoveTask, SameRowsStep DEF Pcs

LEMMA ReenterWaitStep == ASSUME IndInv, NEW r \in Runs, ReenterWait(r) PROVE IndInv'
<1>1. Present(runs, r) BY DEF ReenterWait, isDurablyRunnable, Exists, Present
<1>2. runs[r].kind # "program" BY <1>1, NotAProgram DEF ReenterWait
<1>3. Unpaused(runs, r) BY DEF ReenterWait, isDurablyRunnable, isRunSchedulingAllowed, Unpaused
<1>4. Stands(runs, r, "waiting") BY <1>1, <1>2, <1>3 DEF Stands
<1>5. unchangedByCalls /\ UNCHANGED <<runs, programs>> /\ Goes(r, "waiting") BY DEF ReenterWait, unchangedByTasks
<1> QED BY <1>4, <1>5, MoveTask, SameRowsStep DEF Pcs

LEMMA ResumedStep == ASSUME IndInv, NEW r \in Runs, Resumed(r) PROVE IndInv'
<1>1. unchangedByCalls /\ UNCHANGED <<runs, programs>> BY DEF Resumed, unchangedByTasks
<1>2. CASE CanAsk(r)
  <2>1. Goes(r, "running") BY <1>2 DEF Resumed
  <2>2. Present(runs, r) /\ Unpaused(runs, r) /\ runs[r].kind # "program"
    BY <1>2 DEF Resumed, isDurablyRunnable, isRunSchedulingAllowed, Unpaused, Exists, Present, CanAsk
  <2>3. Stands(runs, r, "running") BY <2>2 DEF Stands
  <2> QED BY <1>1, <2>1, <2>3, MoveTask, SameRowsStep DEF Pcs
<1>3. CASE ~CanAsk(r)
  <2>1. Throws(r) BY <1>3 DEF Resumed
  <2>2. Stands(runs, r, "off") BY DEF Stands
  <2> QED BY <1>1, <2>1, <2>2, MoveTask, SameRowsStep DEF Pcs
<1> QED BY <1>2, <1>3

LEMMA TerminalizedRow ==
  ASSUME NEW row \in RunRows, NEW s \in TerminalStates
  PROVE  LET X == Terminalized(row, s) IN
         /\ X \in RunRows /\ X.status = s /\ Kin(X, row) /\ X.on = row.on
         /\ X.open \in {row.open, "none"}
<1> DEFINE i == IF s = "cancelled" THEN 0 ELSE row.inbox
           o == IF row.open = "attempt" THEN "none" ELSE row.open
           Y == [row EXCEPT !.status = s, !.active = FALSE, !.fresh = FALSE, !.inbox = i, !.open = o]
<1>1. i \in 0..MaxInbox
  <2>1. 0 \in 0..MaxInbox BY TreeAssumption
  <2> QED BY <2>1, RowFields
<1>2. o \in OpenWork /\ o \in {row.open, "none"} BY RowFields DEF OpenWork
<1>3. s \in RunStates BY DEF RunStates, TerminalStates
<1>4. Terminalized(row, s) = Y BY DEF Terminalized
<1> HIDE DEF i, o
<1>5. Y \in RunRows BY <1>1, <1>2, <1>3 DEF RunRows
<1>6. /\ Y.status = s /\ Kin(Y, row) /\ Y.on = row.on /\ Y.open = o
  BY DEF RunRows, Kin
<1> QED BY <1>2, <1>4, <1>5, <1>6

LEMMA Closed ==
  ASSUME NEW row \in RunRows, NEW o \in OpenWork, NEW f \in BOOLEAN
  PROVE  LET X == [row EXCEPT !.open = o, !.fresh = f] IN
         /\ X \in RunRows /\ X.status = row.status /\ Kin(X, row) /\ X.on = row.on
         /\ X.open = o /\ X.inbox = row.inbox /\ X.active = row.active
BY RowFields DEF RunRows, Kin

LEMMA Looks ==
  ASSUME IndInv, NEW r \in Runs, isDurablyRunnable(r)
  PROVE  /\ Present(runs, r) /\ runs[r] \in RunRows /\ Unpaused(runs, r) /\ ~Ended(runs, r)
         /\ runs \in Table /\ Forest(runs)
         /\ Stands(runs, r, "off") /\ Stands(runs, r, "coordinate")
         /\ runs[r].kind # "program" => \A pc \in {"running", "thinking", "waiting"} : Stands(runs, r, pc)
<1>1. Present(runs, r) /\ Unpaused(runs, r) /\ ~Ended(runs, r)
  BY DEF isDurablyRunnable, isRunSchedulingAllowed, Unpaused, Exists, Present, Ended, TerminalStates
<1> QED BY <1>1, Facts DEF Stands, Table, Rows, Present

\* A task past its first look.
LEMMA Past ==
  ASSUME IndInv, NEW r \in Runs, task[r] \in {"running", "thinking", "waiting"}
  PROVE  /\ Present(runs, r) /\ runs[r] \in RunRows /\ runs[r].kind # "program" /\ Unpaused(runs, r)
         /\ runs \in Table /\ Forest(runs)
         /\ Stands(runs, r, "off") /\ Stands(runs, r, "coordinate")
         /\ \A pc \in {"running", "thinking", "waiting"} : Stands(runs, r, pc)
<1>1. Present(runs, r) /\ Unpaused(runs, r) /\ runs[r].kind # "program" BY Standing DEF Stands
<1> QED BY <1>1, Facts DEF Stands, Table, Rows, Present

\* A request to the model: the row ss[r] is moved and frozen.
LEMMA Asked ==
  ASSUME IndInv, NEW r \in Runs, NEW ss \in Table, Forest(ss), Present(runs, r), ss[r].kind # "program",
         Follows(runs, ss, {r}), Calm(runs, ss), Endings(runs, ss), Attempt(ss, r), UNCHANGED programs,
         task' = [task EXCEPT ![r] = "thinking"], Rest', Stands(runs, r, "thinking")
  PROVE  IndInv'
<1> DEFINE tt == Moved(ss, {r})
           X == [tt[r] EXCEPT !.open = "attempt", !.fresh = TRUE]
<1>1. runs \in Table /\ Tree(runs) /\ Outcomes(runs, programs) /\ programs \in [Children -> Programs] BY Facts
<1>2. /\ tt \in Table /\ Forest(tt) /\ Follows(runs, tt, {r}) /\ Calm(runs, tt) /\ Endings(runs, tt)
      /\ Like(tt[r], ss[r])
  BY <1>1, Written
<1>3. runs' = [tt EXCEPT ![r] = X] BY <1>2 DEF Attempt, Table
<1> HIDE DEF tt
<1>4. Present(tt, r) /\ tt[r] \in RunRows /\ tt[r].kind # "program"
  BY <1>2 DEF Follows, Table, Rows, Present, Like
<1>5. /\ X \in RunRows /\ X.status = tt[r].status /\ Kin(X, tt[r]) /\ X.on = tt[r].on /\ X.open = "attempt"
  BY <1>4, Closed DEF OpenWork
<1> HIDE DEF X
<1>6a. Becomes(tt, runs', r, X) BY <1>2, <1>3, <1>5, Updated
<1>6. RowStep(tt, r, X) BY <1>2, <1>4, <1>5, RowStepFrom DEF Ended
<1>7. runs' \in Table /\ Forest(runs') BY <1>2, <1>4, <1>5, <1>6, <1>6a, OneRow
<1>8. Follows(tt, runs', {r}) /\ Calm(tt, runs') /\ Endings(tt, runs')
  BY <1>2, <1>4, <1>5, <1>6, <1>6a, OneRowFollows
<1>9. \A q \in Runs : ~Present(runs, q) /\ Present(tt, q) => ~Ended(runs', q)
  <2> SUFFICES ASSUME NEW q \in Runs, ~Present(runs, q) PROVE ~Ended(runs', q) OBVIOUS
  <2>1. q # r OBVIOUS
  <2>2. runs'[q] = tt[q] BY <1>6a, <2>1 DEF Becomes
  <2> QED BY <1>2, <2>2 DEF Follows, Ended
<1>10. Follows(runs, runs', {r}) /\ Calm(runs, runs') /\ Endings(runs, runs')
  <2>1. {r} \cup {r} = {r} OBVIOUS
  <2> QED BY <1>1, <1>2, <1>7, <1>8, <1>9, <2>1, FollowsOn
<1>11. Outcomes(runs', programs') BY <1>1, <1>7, <1>10, FollowOutcomes
<1>12. Stands(runs', r, "thinking") BY <1>1, <1>7, <1>10, FollowTask
<1> QED BY <1>1, <1>7, <1>10, <1>11, <1>12, TaskStep DEF Pcs

LEMMA FailStep == ASSUME IndInv, NEW r \in Runs, Fail(r) PROVE IndInv'
<1>1. unchangedByCalls /\ UNCHANGED programs /\ isDurablyRunnable(r) /\ runs[r].open = "failed"
  BY DEF Fail, unchangedByTasks
<1>2. CASE NoLiveBelow(runs, r)
  <2> DEFINE Y == Terminalized(runs[r], "failed")
             X == [Y EXCEPT !.open = "none"]
  <2>1. Write([runs EXCEPT ![r] = X], {r}) /\ Leaves(r) BY <1>2 DEF Fail
  <2>2. Y \in RunRows /\ Y.status = "failed" /\ Kin(Y, runs[r])
    BY <1>1, Looks, TerminalizedRow DEF TerminalStates
  <2> HIDE DEF Y
  <2>3. X \in RunRows /\ X.status = "failed" /\ Kin(X, runs[r]) /\ X.open = "none"
    BY <2>2 DEF RunRows, OpenWork, Kin
  <2>4. runs[r].kind # "program" BY <1>1, Looks, NotAProgram
  <2>5. NobodyBelow(runs, r) BY <1>2 DEF NoLiveBelow, NobodyBelow, Ended
  <2> HIDE DEF X
  <2>6. RowStep(runs, r, X) BY <1>1, <2>3, <2>4, <2>5, Looks, RowStepFrom DEF Ended
  <2>7. Rest' /\ task' = [task EXCEPT ![r] = "off"] BY <1>1, <2>1, MoveTask
  <2> QED BY <1>1, <2>1, <2>3, <2>4, <2>6, <2>7, Looks, OneRowStep DEF Pcs
<1>3. CASE ~NoLiveBelow(runs, r)
  <2>1. Throws(r) /\ UNCHANGED runs BY <1>3 DEF Fail
  <2> QED BY <1>1, <2>1, Looks, MoveTask, SameRowsStep DEF Pcs
<1> QED BY <1>2, <1>3

LEMMA StartedRow ==
  ASSUME NEW row \in RunRows, row.inbox > 0
  PROVE  LET X == StartActivation(row) IN
         /\ X \in RunRows /\ X.status = "running" /\ X.active /\ Kin(X, row) /\ X.on = row.on /\ X.open = row.open
<1>1. row.inbox - 1 \in 0..MaxInbox BY RowFields, TreeAssumption
<1>2. "running" \in RunStates BY DEF RunStates
<1> QED BY <1>1, <1>2 DEF StartActivation, RunRows, Kin

LEMMA BeginStep == ASSUME IndInv, NEW r \in Runs, Begin(r) PROVE IndInv'
<1> DEFINE X == StartActivation(runs[r])
           ss == [runs EXCEPT ![r] = X]
<1>1. unchangedByCalls /\ UNCHANGED programs /\ isDurablyRunnable(r) /\ runs[r].kind # "program"
  BY DEF Begin, unchangedByTasks
<1>2. X \in RunRows /\ X.status = "running" /\ Kin(X, runs[r]) /\ X.on = runs[r].on /\ X.open = runs[r].open
  BY <1>1, Looks, StartedRow DEF Begin
<1>3. CASE CanAsk(r)
  <2>1. Attempt(ss, r) /\ Goes(r, "thinking") BY <1>3 DEF Begin
  <2> HIDE DEF X
  <2>2. RowStep(runs, r, X) BY <1>1, <1>2, Looks, RowStepFrom DEF TerminalStates
  <2>3. Becomes(runs, ss, r, X) BY <1>1, <1>2, Looks, Updated
  <2>4. ss[r] = X BY <2>3 DEF Becomes
  <2> HIDE DEF ss
  <2>5. ss \in Table /\ Forest(ss) BY <1>1, <1>2, <2>2, <2>3, Looks, OneRow
  <2>6. Follows(runs, ss, {r}) /\ Calm(runs, ss) /\ Endings(runs, ss)
    BY <1>1, <1>2, <2>2, <2>3, Looks, OneRowFollows
  <2>7. Rest' /\ task' = [task EXCEPT ![r] = "thinking"] BY <1>1, <2>1, MoveTask DEF Pcs
  <2>8. ss[r].kind # "program" BY <1>1, <1>2, <2>4 DEF Kin
  <2> QED BY <1>1, <2>1, <2>5, <2>6, <2>7, <2>8, Looks, Asked
<1>4. CASE ~CanAsk(r)
  <2>1. Write(ss, {r}) /\ Throws(r) BY <1>4 DEF Begin
  <2> HIDE DEF X
  <2>2. RowStep(runs, r, X) BY <1>1, <1>2, Looks, RowStepFrom DEF TerminalStates
  <2>3. Rest' /\ task' = [task EXCEPT ![r] = "off"] BY <1>1, <2>1, MoveTask
  <2> QED BY <1>1, <1>2, <2>1, <2>2, <2>3, Looks, OneRowStep DEF Pcs
<1> QED BY <1>3, <1>4

LEMMA RefuseProgramStep == ASSUME IndInv, NEW r \in Runs, RefuseProgram(r) PROVE IndInv'
<1>1. unchangedByCalls /\ UNCHANGED programs /\ isDurablyRunnable(r) /\ Throws(r)
  BY DEF RefuseProgram, unchangedByTasks
<1>2. PICK moving \in {{}, {r}} : Write(runs, moving) BY DEF RefuseProgram
<1>3. runs \in Table /\ Forest(runs) BY Facts
<1>4. Follows(runs, runs, {}) /\ Follows(runs, runs, {r}) /\ Calm(runs, runs) /\ Endings(runs, runs)
  BY <1>3, FollowsSelf DEF Follows
<1>5. Rest' /\ task' = [task EXCEPT ![r] = "off"] BY <1>1, MoveTask
<1> QED BY <1>1, <1>2, <1>3, <1>4, <1>5, Looks, WriteStep DEF Pcs

LEMMA ContinueStep == ASSUME IndInv, NEW r \in Runs, Continue(r) PROVE IndInv'
<1>1. unchangedByCalls /\ UNCHANGED programs /\ task[r] = "running" BY DEF Continue, unchangedByTasks
<1>2. CASE ~isRunActivationActive(r)
  <2>1. Goes(r, "coordinate") /\ UNCHANGED runs BY <1>2 DEF Continue
  <2> QED BY <1>1, <2>1, Past, MoveTask, SameRowsStep DEF Pcs
<1>3. CASE isRunActivationActive(r) /\ runs[r].inbox > 0
  <2> DEFINE X == [runs[r] EXCEPT !.active = FALSE]
  <2>1. Write([runs EXCEPT ![r] = X], {r}) /\ Goes(r, "coordinate") BY <1>3 DEF Continue
  <2>2. X \in RunRows /\ X.status = runs[r].status /\ Kin(X, runs[r]) /\ X.on = runs[r].on /\ X.open = runs[r].open
    BY <1>1, Past DEF RunRows, Kin
  <2> HIDE DEF X
  <2>3. RowStep(runs, r, X) BY <1>1, <2>2, Past, RowStepFrom DEF Ended
  <2>4. Rest' /\ task' = [task EXCEPT ![r] = "coordinate"] BY <1>1, <2>1, MoveTask DEF Pcs
  <2> QED BY <1>1, <2>1, <2>2, <2>3, <2>4, Past, OneRowStep DEF Pcs
<1>4. CASE isRunActivationActive(r) /\ ~(runs[r].inbox > 0)
  <2>1. Attempt(runs, r) /\ Goes(r, "thinking") BY <1>4 DEF Continue
  <2>2. Follows(runs, runs, {r}) /\ Calm(runs, runs) /\ Endings(runs, runs)
    BY <1>1, Past, FollowsSelf DEF Follows
  <2>3. Rest' /\ task' = [task EXCEPT ![r] = "thinking"] BY <1>1, <2>1, MoveTask DEF Pcs
  <2> QED BY <1>1, <2>1, <2>2, <2>3, Past, Asked
<1> QED BY <1>2, <1>3, <1>4

-----------------------------------------------------------------------------
(* The answers.                                                              *)

\* An attempt of the task of r closes: nothing but the row of r changes.
LEMMA ClosingStep ==
  ASSUME IndInv, NEW r \in Runs, Present(runs, r), runs[r].kind # "program", NEW X \in RunRows, Kin(X, runs[r]),
         Ended(runs, r) => X.status = runs[r].status,
         X.status \in TerminalStates /\ ~Ended(runs, r) => NobodyBelow(runs, r),
         X.status = "paused" => runs[r].status = "paused", X.open # "program",
         NEW M, Write([runs EXCEPT ![r] = X], M), UNCHANGED programs, unchangedByCalls,
         NEW pc \in {"coordinate", "running", "waiting"}, Goes(r, pc), Stands(runs, r, pc)
  PROVE  IndInv'
<1>1. runs \in Table /\ Forest(runs) BY Facts
<1>2. RowStep(runs, r, X) BY <1>1, RowStepFrom
<1>3. pc \in Pcs /\ pc \notin {"program", "stopped"} BY DEF Pcs
<1>4. Rest' /\ task' = [task EXCEPT ![r] = pc] BY <1>3, MoveTask
<1> QED BY <1>2, <1>3, <1>4, OneRowStep

LEMMA ModelFailsStep == ASSUME IndInv, NEW r \in Runs, ModelFails(r) PROVE IndInv'
<1> DEFINE X == [runs[r] EXCEPT !.open = "failed", !.fresh = FALSE]
<1>1. unchangedByCalls /\ UNCHANGED programs /\ task[r] = "thinking" /\ Write([runs EXCEPT ![r] = X], {r})
      /\ Goes(r, "coordinate")
  BY DEF ModelFails, Settleable, Thinking, unchangedByTasks
<1>2. X \in RunRows /\ X.status = runs[r].status /\ Kin(X, runs[r]) /\ X.open = "failed"
  BY <1>1, Past, Closed DEF OpenWork
<1> HIDE DEF X
<1> QED BY <1>1, <1>2, Past, ClosingStep DEF Ended

LEMMA FinalAnswerStep == ASSUME IndInv, NEW r \in Runs, FinalAnswer(r) PROVE IndInv'
<1>1. unchangedByCalls /\ UNCHANGED programs /\ task[r] = "thinking" /\ Goes(r, "coordinate")
  BY DEF FinalAnswer, Thinking, unchangedByTasks
<1>2. CASE Write([runs EXCEPT ![r].open = "none", ![r].active = FALSE], {r})
  <2> DEFINE X == [runs[r] EXCEPT !.open = "none", !.active = FALSE]
  <2>1. [runs EXCEPT ![r].open = "none", ![r].active = FALSE] = [runs EXCEPT ![r] = X]
    BY <1>1, Past DEF Table
  <2>2. Write([runs EXCEPT ![r] = X], {r}) BY <1>2, <2>1
  <2>3. X \in RunRows /\ X.status = runs[r].status /\ Kin(X, runs[r]) /\ X.open = "none"
    BY <1>1, Past DEF RunRows, OpenWork, Kin
  <2> HIDE DEF X
  <2> QED BY <1>1, <2>2, <2>3, Past, ClosingStep DEF Ended
<1>3. ASSUME isRunActivationActive(r), mayEnd(r), NEW s \in {"completed", "blocked"}, runs[r].open = "attempt",
             Write([runs EXCEPT ![r] = Terminalized(@, s)], {r})
      PROVE  IndInv'
  <2> DEFINE X == Terminalized(runs[r], s)
  <2>1. s \in TerminalStates BY DEF TerminalStates
  <2>2. X \in RunRows /\ X.status = s /\ Kin(X, runs[r]) /\ X.open # "program"
    BY <1>1, <1>3, <2>1, Past, TerminalizedRow
  <2>3. Write([runs EXCEPT ![r] = X], {r}) BY <1>3
  <2> HIDE DEF X
  <2>4. ~Ended(runs, r) BY <1>3 DEF isRunActivationActive, Ended, TerminalStates
  <2>5. NobodyBelow(runs, r) BY <1>3 DEF mayEnd, NoLiveBelow, NobodyBelow, Ended
  <2> QED BY <1>1, <2>2, <2>3, <2>4, <2>5, Past, ClosingStep
<1> QED BY <1>2, <1>3 DEF FinalAnswer

LEMMA AfterRow ==
  ASSUME NEW row \in RunRows
  PROVE  LET X == After(row) IN
         /\ X \in RunRows /\ X.status = row.status /\ Kin(X, row) /\ X.on = row.on /\ X.open = "none"
         /\ X.active = row.active /\ X.inbox = row.inbox
BY RowFields DEF After, RunRows, Kin, OpenWork

\* Whoever calls an agent tool is at work.
LEMMA Caller ==
  ASSUME IndInv, NEW r \in Runs, Called(r)
  PROVE  task[r] = "thinking" /\ runs[r].status = "running" /\ ~Ended(runs, r)
BY DEF Called, Settleable, Thinking, isRunActivationActive, Ended, TerminalStates

LEMMA settleAgentResultStep == ASSUME IndInv, NEW r \in Runs, settleAgentResult(r) PROVE IndInv'
<1> DEFINE X == After(runs[r])
<1>1. unchangedByCalls /\ UNCHANGED programs /\ Called(r) /\ Write([runs EXCEPT ![r] = X], {r}) /\ Goes(r, "running")
  BY DEF settleAgentResult
<1>2. X \in RunRows /\ X.status = runs[r].status /\ Kin(X, runs[r]) /\ X.open = "none"
  BY <1>1, Caller, Past, AfterRow
<1> HIDE DEF X
<1> QED BY <1>1, <1>2, Caller, Past, ClosingStep DEF Ended

LEMMA settleAgentWaitStartStep == ASSUME IndInv, NEW r \in Runs, settleAgentWaitStart(r) PROVE IndInv'
<1>1. unchangedByCalls /\ UNCHANGED programs /\ Called(r) /\ Goes(r, "waiting") BY DEF settleAgentWaitStart
<1>2. PICK S \in SUBSET Under(r) \ {{}}, u \in {"any", "all", "change"} :
        Write([runs EXCEPT ![r] = [After(@) EXCEPT !.open = "wait", !.on = S, !.until = u, !.moved = FALSE]], {r})
  BY DEF settleAgentWaitStart
<1> DEFINE Y == After(runs[r])
           X == [Y EXCEPT !.open = "wait", !.on = S, !.until = u, !.moved = FALSE]
<1>3. Write([runs EXCEPT ![r] = X], {r}) BY <1>2
<1>4. Y \in RunRows /\ Y.status = runs[r].status /\ Kin(Y, runs[r]) BY <1>1, Caller, Past, AfterRow
<1> HIDE DEF Y
<1>5. S \subseteq Runs BY <1>2 DEF Under
<1>6. X \in RunRows /\ X.status = runs[r].status /\ Kin(X, runs[r]) /\ X.open = "wait"
  BY <1>4, <1>5 DEF RunRows, OpenWork, Kin
<1> HIDE DEF X
<1> QED BY <1>1, <1>3, <1>6, Caller, Past, ClosingStep DEF Ended

LEMMA WaitSteps ==
  ASSUME IndInv, NEW r \in Runs, PollWait(r) \/ WaitTimesOut(r)
  PROVE  IndInv'
<1>1. unchangedByCalls /\ UNCHANGED programs /\ task[r] = "waiting" BY DEF PollWait, WaitTimesOut, unchangedByTasks
<1>2. CASE Leaves(r) /\ UNCHANGED runs BY <1>1, <1>2, Past, MoveTask, SameRowsStep DEF Pcs
<1>3. CASE settleAgentWait(r)
  <2> DEFINE X == Waited(runs[r])
  <2>1. Write([runs EXCEPT ![r] = X], {r}) /\ Goes(r, "running") BY <1>3 DEF settleAgentWait
  <2>2. X \in RunRows /\ X.status = runs[r].status /\ Kin(X, runs[r]) /\ X.open = "none"
    BY <1>1, Past DEF Waited, RunRows, OpenWork, Kin
  <2> HIDE DEF X
  <2> QED BY <1>1, <2>1, <2>2, Past, ClosingStep DEF Ended
<1> QED BY <1>2, <1>3 DEF PollWait, WaitTimesOut

\* The row of a Run that begins.
BeginsAs(X, kind, parent, above, g) ==
  /\ X \in RunRows /\ X.status = "accepted" /\ X.told = {} /\ X.open = "none" /\ X.inbox = 1
  /\ X.parent = parent /\ X.above = above /\ X.kind = kind /\ X.grant = g

LEMMA NewRow ==
  ASSUME NEW kind \in RunKinds, NEW parent \in Runs \cup {"none"}, NEW above, above \subseteq Runs,
         NEW g, g \subseteq Rights
  PROVE  BeginsAs(Accepted(kind, parent, above, g), kind, parent, above, g)
<1>1. 1 \in 0..MaxInbox BY TreeAssumption
<1>2. "accepted" \in RunStates /\ "none" \in OpenWork BY DEF RunStates, OpenWork
<1> QED BY <1>1, <1>2 DEF Accepted, RunRows, BeginsAs

LEMMA UnusedRun == ASSUME NEW S \in SUBSET Runs, NEW c \in Unused(S) PROVE c \in S /\ c \in Runs /\ ~Present(runs, c)
<1> DEFINE free == {x \in S : ~Exists(x)}
<1>1. free # {} /\ c = CHOOSE x \in free : TRUE BY DEF Unused
<1>2. c \in free BY <1>1
<1> QED BY <1>2 DEF Exists, Present

\* The row of r becomes Z, and a child c of r begins.
LEMMA Delegated ==
  ASSUME IndInv, NEW r \in Runs, Called(r), NEW c \in Runs, c \in Children, ~Present(runs, c),
         NEW kind, NEW g, g \subseteq runs[r].grant,
         NEW A, BeginsAs(A, kind, r, {r} \cup runs[r].above, g),
         NEW Z \in RunRows, Kin(Z, runs[r]), Z.status = runs[r].status,
         NEW rs, Becomes(runs, rs, c, A), Z.open = "program" => Carrying(rs, Z.on), NEW ss, Becomes(rs, ss, r, Z)
  PROVE  ss \in Table /\ Forest(ss) /\ Follows(runs, ss, {r}) /\ Calm(runs, ss) /\ Endings(runs, ss)
<1>1. /\ runs \in Table /\ Forest(runs) /\ Present(runs, r) /\ runs[r] \in RunRows /\ runs[r].kind # "program"
      /\ Alive(runs, r) /\ c # r
  BY Caller, Past DEF Alive
<1>2. /\ A \in RunRows /\ A.status = "accepted" /\ A.told = {} /\ A.open = "none" /\ A.inbox = 1
      /\ A.parent = r /\ A.above = {r} \cup runs[r].above /\ A.kind = kind /\ A.grant = g
  BY DEF BeginsAs
<1>3. Newborn(runs, c, A)
  <2>1. A.inbox > 0 BY <1>2
  <2>2. A.parent \in Runs /\ Alive(runs, A.parent) /\ runs[A.parent].kind # "program" BY <1>1, <1>2
  <2>3. A.above = {A.parent} \cup runs[A.parent].above /\ A.grant \subseteq runs[A.parent].grant BY <1>2
  <2> QED BY <1>2, <2>1, <2>2, <2>3 DEF Newborn
<1>4. rs \in Table /\ Forest(rs) BY <1>1, <1>2, <1>3, Born
<1>5. rs[r] = runs[r] /\ rs[c] = A BY <1>1 DEF Becomes
<1>6. Follows(runs, rs, {}) /\ Calm(runs, rs) /\ Endings(runs, rs) BY <1>1, <1>2, <1>3, BornFollows
<1>8. Present(rs, r) BY <1>1, <1>5 DEF Present
<1>9. RowStep(rs, r, Z)
  <2>1. Told(rs, r, Z.told) BY <1>4, <1>5, <1>8 DEF Forest, Rules, Kin
  <2> QED BY <1>1, <1>5, <2>1 DEF RowStep, Kin, Alive, Ended
<1>10. ss \in Table /\ Forest(ss) BY <1>4, <1>8, <1>9, OneRow
<1>11. Follows(rs, ss, {r}) /\ Calm(rs, ss)
  BY <1>4, <1>5, <1>8, <1>9, OneRowFollows
<1>12. Endings(rs, ss) BY <1>1, <1>4, <1>5, <1>8, <1>9, OneRowFollows
<1>14. \A q \in Runs : ~Present(runs, q) /\ Present(rs, q) => ~Ended(ss, q)
  <2> SUFFICES ASSUME NEW q \in Runs, ~Present(runs, q) PROVE ~Ended(ss, q) OBVIOUS
  <2>1. q # r BY <1>1
  <2>2. ss[q] = rs[q] BY <2>1 DEF Becomes
  <2> QED BY <1>6, <2>2 DEF Follows, Ended
<1>15. runs \in Table BY <1>1
<1>16. Follows(runs, ss, {} \cup {r}) /\ Calm(runs, ss) /\ Endings(runs, ss)
  BY <1>4, <1>6, <1>10, <1>11, <1>12, <1>14, <1>15, FollowsOn
<1>17. {} \cup {r} = {r} OBVIOUS
<1> QED BY <1>10, <1>16, <1>17

LEMMA settleAgentSpawnStep == ASSUME IndInv, NEW r \in Runs, settleAgentSpawn(r) PROVE IndInv'
<1> DEFINE Z == After(runs[r])
<1>1. unchangedByCalls /\ UNCHANGED programs /\ Called(r) /\ Goes(r, "running") BY DEF settleAgentSpawn
<1>2. PICK c \in Unused(Children), g \in SUBSET Rights :
        /\ assertNarrowing(r, g)
        /\ Write(delegateChildRun([runs EXCEPT ![r] = After(@)], r, c, "agent", g), {r})
  BY DEF settleAgentSpawn
<1>3. c \in Children /\ c \in Runs /\ ~Present(runs, c) BY UnusedRun DEF Runs
<1>4. Present(runs, r) /\ runs \in Table /\ runs[r] \in RunRows BY <1>1, Caller, Past
<1>5. Z \in RunRows /\ Z.status = runs[r].status /\ Kin(Z, runs[r]) /\ Z.open = "none" BY <1>4, AfterRow
<1>6. g \subseteq runs[r].grant BY <1>2 DEF assertNarrowing
<1> DEFINE A == Accepted("agent", r, {r} \cup runs[r].above, g)
           rs == [runs EXCEPT ![c] = A]
           ss == [[runs EXCEPT ![r] = Z] EXCEPT ![c] = A]
<1>7. BeginsAs(A, "agent", r, {r} \cup runs[r].above, g)
  <2> DEFINE up == {r} \cup runs[r].above
  <2>1. "agent" \in RunKinds /\ up \subseteq Runs /\ g \subseteq Rights BY <1>4, RowFields DEF RunKinds
  <2> HIDE DEF up
  <2>2. BeginsAs(Accepted("agent", r, up, g), "agent", r, up, g) BY <2>1, NewRow
  <2> QED BY <2>2 DEF up
<1>8. Write(ss, {r}) BY <1>2 DEF delegateChildRun
<1> HIDE DEF A, Z
<1>9. Becomes(runs, rs, c, A) BY <1>3, <1>4, <1>7, Updated DEF BeginsAs
<1>10. Becomes(rs, ss, r, Z) BY <1>3, <1>4, <1>5, <1>7 DEF Becomes, Table, Rows, BeginsAs
<1> HIDE DEF rs, ss
<1>11. ss \in Table /\ Forest(ss) /\ Follows(runs, ss, {r}) /\ Calm(runs, ss) /\ Endings(runs, ss)
  BY <1>1, <1>3, <1>5, <1>6, <1>7, <1>9, <1>10, Delegated
<1>12. Rest' /\ task' = [task EXCEPT ![r] = "running"] BY <1>1, MoveTask DEF Pcs
<1>13. Stands(runs, r, "running") BY <1>1, Caller, Past
<1> QED BY <1>1, <1>8, <1>11, <1>12, <1>13, WriteStep DEF Pcs

LEMMA settleToolProgramStep == ASSUME IndInv, NEW r \in Runs, settleToolProgram(r) PROVE IndInv'
<1>1. unchangedByCalls /\ Called(r) /\ Goes(r, "coordinate") /\ Uses \subseteq runs[r].grant
  BY DEF settleToolProgram, assertNarrowing
<1>2. PICK c \in Unused(Children) :
        /\ Write([delegateToolProgramChild(r, c) EXCEPT
                    ![r] = [After(@) EXCEPT !.open = "program", !.on = {c}]], {r})
        /\ programs' = [programs EXCEPT ![c] = NoProgram]
  BY DEF settleToolProgram
<1>3. c \in Children /\ c \in Runs /\ ~Present(runs, c) BY UnusedRun DEF Runs
<1>4. /\ Present(runs, r) /\ runs \in Table /\ runs[r] \in RunRows /\ c # r
      /\ Outcomes(runs, programs) /\ programs \in [Children -> Programs]
  BY <1>1, <1>3, Caller, Past, Facts
<1> DEFINE Y == After(runs[r])
           Z == [Y EXCEPT !.open = "program", !.on = {c}]
           A == Accepted("program", r, {r} \cup runs[r].above, Uses)
           rs == [runs EXCEPT ![c] = A]
           ss == [rs EXCEPT ![r] = Z]
<1>5. Y \in RunRows /\ Y.status = runs[r].status /\ Kin(Y, runs[r]) BY <1>4, AfterRow
<1>6. Write(ss, {r})
  <2>1. rs[r] = runs[r] BY <1>4 DEF Table
  <2> HIDE DEF A
  <2>2. Write([rs EXCEPT ![r] = [After(@) EXCEPT !.open = "program", !.on = {c}]], {r})
    BY <1>2 DEF delegateToolProgramChild, delegateChildRun, A
  <2> HIDE DEF rs
  <2> QED BY <2>1, <2>2
<1> HIDE DEF Y
<1>7. Z \in RunRows /\ Z.status = runs[r].status /\ Kin(Z, runs[r]) /\ Z.open = "program" /\ Z.on = {c}
  BY <1>3, <1>5 DEF RunRows, OpenWork, Kin
<1>8. BeginsAs(A, "program", r, {r} \cup runs[r].above, Uses)
  <2> DEFINE up == {r} \cup runs[r].above
  <2>1. "program" \in RunKinds /\ up \subseteq Runs /\ Uses \subseteq Rights
    BY <1>4, RowFields, StepsAssumption DEF RunKinds
  <2> HIDE DEF up
  <2>2. BeginsAs(Accepted("program", r, up, Uses), "program", r, up, Uses) BY <2>1, NewRow
  <2> QED BY <2>2 DEF up
<1> HIDE DEF A, Z
<1>9. Becomes(runs, rs, c, A) BY <1>3, <1>4, <1>8, Updated DEF BeginsAs
<1> HIDE DEF rs
<1>10. Becomes(rs, ss, r, Z) BY <1>7, <1>9, Updated DEF Becomes
<1> HIDE DEF ss
<1>11. ss \in Table /\ Forest(ss) /\ Follows(runs, ss, {r}) /\ Calm(runs, ss) /\ Endings(runs, ss)
  <2>1. Carrying(rs, Z.on) BY <1>7, <1>8, <1>9, NoRunIsNoRow DEF Becomes, BeginsAs, Carrying, Present
  <2> QED BY <1>1, <1>3, <1>7, <1>8, <1>9, <1>10, <2>1, Delegated
<1>11a. ss[c].status = "accepted" BY <1>3, <1>4, <1>8, <1>9, <1>10 DEF Becomes, BeginsAs
<1>12. /\ runs' \in Table /\ Forest(runs') /\ Follows(runs, runs', {r}) /\ Calm(runs, runs')
       /\ Endings(runs, runs') /\ runs'[c].status = "accepted"
  BY <1>3, <1>4, <1>6, <1>11, <1>11a, Written DEF Write, Like
<1>13. Outcomes(runs', programs) BY <1>4, <1>12, FollowOutcomes
<1>14. NoProgram \in Programs /\ NoProgram.state = "succeeded" /\ NoProgram.told = "none"
  <2>1. <<>> \in Seq(CallStates) /\ 0 \in 0..(Len(Steps) + 1) BY StepsAssumption
  <2> QED BY <2>1 DEF NoProgram, Programs, CallStates
<1>15. programs' \in [Children -> Programs] /\ programs'[c] = NoProgram
       /\ \A p \in Children : p # c => programs'[p] = programs[p]
  BY <1>2, <1>3, <1>4, <1>14
<1>16. Outcomes(runs', programs')
  <2> SUFFICES ASSUME NEW p \in Children PROVE Agrees(runs', programs', p) BY DEF Outcomes
  <2>1. CASE p = c BY <2>1, <1>12, <1>14, <1>15 DEF Agrees, Ended, TerminalStates
  <2>2. CASE p # c BY <2>2, <1>13, <1>15 DEF Outcomes, Agrees
  <2> QED BY <2>1, <2>2
<1>17. Rest' /\ task' = [task EXCEPT ![r] = "coordinate"] BY <1>1, MoveTask DEF Pcs
<1>18. Stands(runs', r, "coordinate") BY <1>4, <1>12 DEF Stands, Follows
<1> QED BY <1>12, <1>15, <1>16, <1>17, <1>18, TaskStep DEF Pcs

\* Selected context goes down: the root above both bounds what the sender has.
LEMMA ToldByAbove ==
  ASSUME NEW rs \in Table, Forest(rs), NEW r \in Runs, NEW c \in Runs, Present(rs, c), r \in rs[c].above,
         NEW g, g \subseteq rs[r].grant
  PROVE  Told(rs, c, rs[c].told \cup g)
<1> SUFFICES ASSUME NEW q \in rs[c].above, IsRoot(rs, q) PROVE rs[c].told \cup g \subseteq rs[q].grant
  BY DEF Told
<1>1. Present(rs, r) /\ rs[r].above \subseteq rs[c].above BY DEF Forest, Tree
<1>2. rs[c].told \subseteq rs[q].grant BY DEF Forest, Rules, Told
<1>3. CASE IsRoot(rs, r)
  <2>1. r = q BY <1>3 DEF Forest, Rules
  <2> QED BY <1>2, <2>1
<1>4. CASE ~IsRoot(rs, r)
  <2>1. PICK p \in rs[r].above : IsRoot(rs, p) BY <1>1, <1>4 DEF Forest, Rules
  <2>2. p = q BY <1>1, <2>1 DEF Forest, Rules
  <2>3. rs[r].grant \subseteq rs[p].grant BY <1>1, <2>1 DEF Forest, Rules, Told
  <2> QED BY <1>2, <2>2, <2>3
<1> QED BY <1>3, <1>4

LEMMA settleAgentSendStep == ASSUME IndInv, NEW r \in Runs, settleAgentSend(r) PROVE IndInv'
<1>1. unchangedByCalls /\ UNCHANGED programs /\ Called(r) /\ Goes(r, "running") BY DEF settleAgentSend
<1>2. PICK c \in Under(r), g \in SUBSET Topics :
        /\ Live(c) /\ runs[c].kind # "program" /\ runs[c].inbox < MaxInbox
        /\ g \subseteq agentSendSelectedContext(r)
        /\ Write([runs EXCEPT ![r] = After(@), ![c] = Sent(@, g)], {r, c})
  BY DEF settleAgentSend
<1>3. /\ Present(runs, r) /\ runs \in Table /\ Forest(runs) /\ runs[r] \in RunRows /\ runs[r].kind # "program"
      /\ Stands(runs, r, "running")
  BY <1>1, Caller, Past
<1>4. c \in Runs /\ r \in runs[c].above /\ Present(runs, c) /\ ~Ended(runs, c)
  BY <1>2 DEF Under, Live, Exists, Present, Ended
<1>5. c # r BY <1>3, <1>4 DEF Forest, Tree
<1>6. runs[c] \in RunRows /\ g \subseteq Rights /\ g \subseteq runs[r].grant
  BY <1>2, <1>3, <1>4, TreeAssumption DEF Table, Rows, Present, agentSendSelectedContext
<1> DEFINE Y == After(runs[r])
           X == Sent(runs[c], g)
           rs == [runs EXCEPT ![c] = X]
           ss == [runs EXCEPT ![r] = After(@), ![c] = Sent(@, g)]
<1>7. Write(ss, {r, c}) BY <1>2
<1>8. Y \in RunRows /\ Y.status = runs[r].status /\ Kin(Y, runs[r]) /\ Y.open = "none" BY <1>3, AfterRow
<1>9. /\ X \in RunRows /\ X.status = runs[c].status /\ X.parent = runs[c].parent /\ X.above = runs[c].above
      /\ X.kind = runs[c].kind /\ X.grant = runs[c].grant /\ X.interrupted = runs[c].interrupted
      /\ X.open = runs[c].open /\ X.on = runs[c].on /\ X.told = runs[c].told \cup g
  <2>1. runs[c].inbox + 1 \in 0..MaxInbox BY <1>2, <1>6, RowFields, TreeAssumption
  <2>2. runs[c].told \cup g \subseteq Rights BY <1>6, RowFields
  <2> QED BY <1>6, <2>1, <2>2 DEF RunRows, Sent
<1>7a. \A q \in Runs : ss[q] = IF q = r THEN Y ELSE IF q = c THEN X ELSE runs[q]
  <2>1. DOMAIN runs = Runs BY <1>3 DEF Table
  <2>2. ss[r] = After(runs[r]) BY <1>4, <1>5, <2>1
  <2>3. ss[c] = Sent(runs[c], g) BY <1>4, <1>5, <2>1
  <2>4. \A q \in Runs : q # r /\ q # c => ss[q] = runs[q] BY <2>1
  <2>5. ss[r] = Y /\ ss[c] = X BY <2>2, <2>3
  <2> HIDE DEF X, Y, ss
  <2> QED BY <2>4, <2>5
<1>7b. ss = [q \in Runs |-> ss[q]] BY <1>3 DEF Table
<1> HIDE DEF X, Y, ss
<1>10. Becomes(runs, rs, c, X) BY <1>3, <1>4, <1>9, Updated
<1>11. Becomes(rs, ss, r, Y)
  <2>1. ss \in Table
    <3>1. \A q \in Runs : ss[q] \in Rows BY <1>3, <1>7a, <1>8, <1>9 DEF Table, Rows
    <3> QED BY <1>7b, <3>1 DEF Table
  <2> QED BY <1>5, <1>7a, <1>10, <2>1 DEF Becomes
<1> HIDE DEF rs
<1>12. RowStep(runs, c, X)
  <2>1. Told(runs, c, X.told) BY <1>3, <1>4, <1>6, <1>9, ToldByAbove
  <2>2. X.open = "program" => Carrying(runs, X.on) BY <1>3, <1>4, <1>9 DEF Forest, Calling
  <2> QED BY <1>2, <1>4, <1>9, <2>1, <2>2 DEF RowStep, Ended
<1>13. rs \in Table /\ Forest(rs) BY <1>3, <1>4, <1>9, <1>10, <1>12, OneRow
<1>14. Follows(runs, rs, {}) /\ Calm(runs, rs) BY <1>3, <1>4, <1>9, <1>10, <1>12, OneRowFollows
<1>15. Endings(runs, rs) BY <1>2, <1>3, <1>4, <1>9, <1>10, <1>12, OneRowFollows
<1>16. rs[r] = runs[r] /\ Present(rs, r) BY <1>3, <1>5, <1>10 DEF Becomes, Present
<1>17. RowStep(rs, r, Y) BY <1>3, <1>8, <1>13, <1>16, Caller, <1>1, RowStepFrom DEF Ended
<1>18. ss \in Table /\ Forest(ss) BY <1>8, <1>11, <1>13, <1>16, <1>17, OneRow
<1>19. Follows(rs, ss, {r}) /\ Calm(rs, ss) BY <1>8, <1>11, <1>13, <1>16, <1>17, OneRowFollows
<1>20. Endings(rs, ss) BY <1>3, <1>8, <1>11, <1>13, <1>16, <1>17, OneRowFollows
<1>21. \A q \in Runs : ~Present(runs, q) /\ Present(rs, q) => ~Ended(ss, q)
  BY <1>4, <1>10 DEF Becomes, Present
<1>22. {} \cup {r} = {r} OBVIOUS
<1>23. Follows(runs, ss, {r}) /\ Calm(runs, ss) /\ Endings(runs, ss)
  BY <1>3, <1>13, <1>14, <1>15, <1>18, <1>19, <1>20, <1>21, <1>22, FollowsOn
<1>24. Rest' /\ task' = [task EXCEPT ![r] = "running"] BY <1>1, MoveTask DEF Pcs
<1> QED BY <1>1, <1>3, <1>7, <1>18, <1>23, <1>24, WriteStep DEF Pcs

LEMMA CancelRows ==
  ASSUME IndInv, NEW c \in Runs, NEW ss, ss = cancelSubtree(c)
  PROVE  /\ ss \in Table /\ Forest(ss) /\ Follows(runs, ss, {}) /\ Calm(runs, ss) /\ Endings(runs, ss)
         /\ \A q \in Runs : q \notin subtree(c) => ss[q] = runs[q]
<1>1. runs \in Table /\ Forest(runs) BY Facts
<1>2. \A q \in Runs : ss[q] = IF q \in subtree(c) /\ Live(q) THEN Terminalized(runs[q], "cancelled") ELSE runs[q]
  BY DEF cancelSubtree
<1>3. \A q \in Runs : Live(q) <=> Alive(runs, q) BY DEF Live, Alive, Exists, Present, Ended
<1>4. ASSUME NEW q \in Runs, q \in subtree(c), Alive(runs, q)
      PROVE  /\ ss[q] \in RunRows /\ ss[q].status = "cancelled" /\ Kin(ss[q], runs[q]) /\ ss[q].on = runs[q].on
             /\ ss[q].open \in {runs[q].open, "none"} /\ (runs[q].open = "program" => ss[q].open = "program")
  <2>1. runs[q] \in RunRows BY <1>1, <1>4 DEF Table, Rows, Alive, Present
  <2>2. ss[q] = Terminalized(runs[q], "cancelled") /\ "cancelled" \in TerminalStates
    BY <1>2, <1>3, <1>4 DEF TerminalStates
  <2>3. /\ ss[q] \in RunRows /\ ss[q].status = "cancelled" /\ Kin(ss[q], runs[q]) /\ ss[q].on = runs[q].on
        /\ ss[q].open \in {runs[q].open, "none"}
    BY <2>1, <2>2, TerminalizedRow
  <2>4. runs[q].open = "program" => ss[q].open = "program" BY <2>1, <2>2 DEF Terminalized, RunRows
  <2> QED BY <2>3, <2>4
<1>5. ASSUME NEW q \in Runs, ~(q \in subtree(c) /\ Alive(runs, q)) PROVE ss[q] = runs[q]
  BY <1>2, <1>3, <1>5
<1>6. ss \in Table
  <2>1. \A q \in Runs : ss[q] \in Rows BY <1>1, <1>4, <1>5 DEF Table, Rows
  <2>2. ss = [q \in Runs |-> ss[q]] BY DEF cancelSubtree
  <2> QED BY <2>1, <2>2 DEF Table
<1>7. \A q \in Runs : Present(ss, q) <=> Present(runs, q) BY <1>4, <1>5, NoRunIsNoRow DEF Present, Alive
<1>8. ASSUME NEW q \in Runs, Ended(ss, q), ~Ended(runs, q) PROVE NobodyBelow(ss, q)
  <2> SUFFICES ASSUME NEW x \in Runs, q \in ss[x].above PROVE Ended(ss, x) BY DEF NobodyBelow
  <2>1. q \in subtree(c) /\ Alive(runs, q) BY <1>5, <1>8 DEF Ended
  <2>2. q \in runs[x].above BY <1>4, <1>5 DEF Kin
  <2>3. Present(runs, x) BY <2>2 DEF Present, NoRun
  <2>4. x \in subtree(c) BY <1>1, <2>1, <2>2, <2>3 DEF Forest, Tree, subtree, Under
  <2>5. CASE Ended(runs, x) BY <1>5, <2>5 DEF Alive, Ended
  <2>6. CASE ~Ended(runs, x) BY <1>4, <2>3, <2>4, <2>6 DEF Alive, Ended, TerminalStates
  <2> QED BY <2>5, <2>6
<1>9. Forest(ss)
  <2>1. ASSUME NEW q \in Runs, Present(runs, q)
        PROVE  /\ Kin(ss[q], runs[q])
               /\ ss[q].open = "program" => runs[q].open = "program" /\ ss[q].on = runs[q].on
               /\ runs[q].kind = "program" => Carries(ss[q])
               /\ Ended(runs, q) => Ended(ss, q)
    <3>1. runs[q].kind = "program" => Carries(runs[q]) BY <1>1, <2>1 DEF Forest, Carriers
    <3>2. CASE q \in subtree(c) /\ Alive(runs, q) BY <1>4, <3>1, <3>2 DEF Carries, Alive, TerminalStates
    <3>3. CASE ~(q \in subtree(c) /\ Alive(runs, q)) BY <1>5, <3>1, <3>3 DEF Kin, Ended
    <3> QED BY <3>2, <3>3
  <2> QED BY <1>1, <1>6, <1>7, <1>8, <2>1, ManyRows DEF Kin
<1>10. Follows(runs, ss, {})
  <2> SUFFICES ASSUME NEW q \in Runs
               PROVE  /\ Present(runs, q) => /\ Present(ss, q) /\ ss[q].kind = runs[q].kind
                                             /\ ss[q].above = runs[q].above
                                             /\ Ended(runs, q) => ss[q].status = runs[q].status
                                             /\ runs[q].open = "program" => ss[q].open = "program"
                      /\ ~Present(runs, q) => ~Ended(ss, q)
    BY DEF Follows
  <2>1. CASE q \in subtree(c) /\ Alive(runs, q) BY <1>4, <1>7, <2>1 DEF Alive, Kin
  <2>2. CASE ~(q \in subtree(c) /\ Alive(runs, q))
    <3>1. ~Present(runs, q) => ~Ended(runs, q) BY DEF Present, Ended, NoRun, TerminalStates
    <3> QED BY <1>5, <1>7, <2>2, <3>1 DEF Ended
  <2> QED BY <2>1, <2>2
<1>11. Calm(runs, ss) BY <1>4, <1>5 DEF Calm
<1>12. Endings(runs, ss) BY <1>4, <1>5 DEF Endings, Ended
<1> QED BY <1>5, <1>6, <1>9, <1>10, <1>11, <1>12

LEMMA settleAgentCancelStep == ASSUME IndInv, NEW r \in Runs, settleAgentCancel(r) PROVE IndInv'
<1>1. unchangedByCalls /\ UNCHANGED programs /\ Called(r) /\ Goes(r, "running") BY DEF settleAgentCancel
<1>2. PICK c \in Under(r) : Write([cancelSubtree(c) EXCEPT ![r] = After(@)], {r} \cup Reached(c))
  BY DEF settleAgentCancel
<1>3. /\ Present(runs, r) /\ runs \in Table /\ Forest(runs) /\ runs[r] \in RunRows /\ runs[r].kind # "program"
      /\ Stands(runs, r, "running") /\ ~Ended(runs, r)
  BY <1>1, Caller, Past
<1>4. c \in Runs /\ r \in runs[c].above /\ Present(runs, c) BY <1>2 DEF Under, Present, NoRun
<1>5. r \notin subtree(c)
  <2>1. r # c /\ c \notin runs[r].above BY <1>3, <1>4 DEF Forest, Tree
  <2> QED BY <2>1 DEF subtree, Under
<1> DEFINE Y == After(runs[r])
           rs == cancelSubtree(c)
           ss == [rs EXCEPT ![r] = After(@)]
<1>6. Write(ss, {r} \cup Reached(c)) BY <1>2
<1>7. /\ rs \in Table /\ Forest(rs) /\ Follows(runs, rs, {}) /\ Calm(runs, rs) /\ Endings(runs, rs)
      /\ rs[r] = runs[r]
  BY <1>4, <1>5, CancelRows
<1>8. Y \in RunRows /\ Y.status = runs[r].status /\ Kin(Y, runs[r]) /\ Y.open = "none" BY <1>3, AfterRow
<1> HIDE DEF rs
<1>9. ss = [rs EXCEPT ![r] = Y] BY <1>7
<1> HIDE DEF Y, ss
<1>10. Becomes(rs, ss, r, Y) BY <1>7, <1>8, <1>9, Updated
<1>11. Present(rs, r) BY <1>3, <1>7 DEF Present
<1>12. RowStep(rs, r, Y) BY <1>3, <1>7, <1>8, <1>11, RowStepFrom DEF Ended
<1>13. ss \in Table /\ Forest(ss) BY <1>7, <1>8, <1>10, <1>11, <1>12, OneRow
<1>14. Follows(rs, ss, {r}) /\ Calm(rs, ss) BY <1>7, <1>8, <1>10, <1>11, <1>12, OneRowFollows
<1>15. Endings(rs, ss) BY <1>3, <1>7, <1>8, <1>10, <1>11, <1>12, OneRowFollows
<1>16. \A q \in Runs : ~Present(runs, q) /\ Present(rs, q) => ~Ended(ss, q)
  BY <1>3, <1>7, <1>10 DEF Becomes, Follows, Ended, Present
<1>17. runs \in Table BY <1>3
<1>18. Follows(runs, ss, {} \cup {r}) /\ Calm(runs, ss) /\ Endings(runs, ss)
  BY <1>7, <1>13, <1>14, <1>15, <1>16, <1>17, FollowsOn
<1>19. {} \cup {r} = {r} OBVIOUS
<1>20. Rest' /\ task' = [task EXCEPT ![r] = "running"] BY <1>1, MoveTask DEF Pcs
<1> QED BY <1>1, <1>3, <1>6, <1>13, <1>18, <1>19, <1>20, WriteStep DEF Pcs

-----------------------------------------------------------------------------
(* Programs.                                                                 *)

\* The row of c and its program change together; other programs stay.
LEMMA ProgramStep ==
  ASSUME IndInv, NEW ss \in Table, Forest(ss), NEW M, Write(ss, M), NEW r \in Runs, Follows(runs, ss, {r}),
         Calm(runs, ss), NEW c \in Children, programs' \in [Children -> Programs],
         \A p \in Children : p # c => /\ programs'[p] = programs[p]
                                      /\ runs[p].kind = "program" /\ ~Ended(runs, p) => ~Ended(ss, p),
         Agrees(ss, programs', c), NEW pc \in Pcs, task' = [task EXCEPT ![r] = pc], Rest',
         Stands(runs, r, pc), Follows(runs, ss, {}) \/ pc \notin {"program", "stopped"}
  PROVE  IndInv'
<1>1. runs \in Table /\ Tree(runs) /\ Outcomes(runs, programs) BY Facts
<1>2. /\ runs' \in Table /\ Forest(runs') /\ Follows(runs, runs', {r}) /\ Calm(runs, runs')
      /\ \A q \in Runs : Like(runs'[q], ss[q])
  BY <1>1, Written DEF Write
<1>3. Outcomes(runs', programs')
  <2> SUFFICES ASSUME NEW p \in Children PROVE Agrees(runs', programs', p) BY DEF Outcomes
  <2>1. p \in Runs /\ Like(runs'[p], ss[p]) BY <1>2 DEF Runs
  <2>2. CASE p = c BY <2>1, <2>2 DEF Agrees, Like, Present, Ended
  <2>3. CASE p # c
    <3>1. Agrees(runs, programs, p) BY <1>1 DEF Outcomes
    <3>2. runs[p].kind = "program" /\ ~Ended(runs, p) /\ Ended(runs', p) => runs'[p].status = "cancelled"
      BY <2>1, <2>3 DEF Like, Ended
    <3>3. Agrees(runs', programs, p) BY <1>1, <1>2, <3>1, <3>2, FollowAgrees
    <3> QED BY <2>3, <3>3 DEF Agrees
  <2> QED BY <2>2, <2>3
<1>4. Stands(runs', r, pc)
  <2>1. CASE pc \notin {"program", "stopped"} BY <1>1, <1>2, <2>1, FollowTask
  <2>2. CASE Follows(runs, ss, {})
    <3>1. Follows(runs, runs', {}) BY <1>1, <2>2, Written DEF Write
    <3> QED BY <1>1, <1>2, <3>1, FollowTask
  <2> QED BY <2>1, <2>2
<1> QED BY <1>1, <1>2, <1>3, <1>4, TaskStep

LEMMA CallsKept ==
  ASSUME NEW p \in Programs, NEW f, DOMAIN f = DOMAIN p.calls, \A i \in DOMAIN p.calls : f[i] \in CallStates,
         f = [i \in DOMAIN p.calls |-> f[i]]
  PROVE  f \in Seq(CallStates)
<1>1. p.calls \in Seq(CallStates) BY DEF Programs
<1>2. Len(p.calls) \in Nat /\ DOMAIN p.calls = 1..Len(p.calls) BY <1>1
<1>3. f \in [1..Len(p.calls) -> CallStates] BY <1>2
<1> QED BY <1>2, <1>3

LEMMA settleParentStep ==
  ASSUME IndInv, unchangedByCalls, NEW r \in Runs, Present(runs, r), runs[r].open = "program",
         Terminal(programOf(r)), Unpaused(runs, r) \/ task[r] = "stopped",
         settleToolProgramParent(r, programOf(r))
  PROVE  IndInv'
<1> DEFINE c == programOf(r)
           X == [runs[r] EXCEPT !.open = "none", !.on = {}]
           ss == [runs EXCEPT ![r].open = "none", ![r].on = {}]
<1>1. /\ c \in Children /\ c \in Runs /\ c # r /\ Present(runs, c) /\ runs[c].kind = "program"
      /\ programs[c] \in Programs /\ Agrees(runs, programs, c) /\ Ended(runs, c)
  BY TheProgram DEF Terminal, Ended
<1>2. /\ Write(ss, {r})
      /\ programs' = [programs EXCEPT ![c].told = runs[c].status, ![c].calls = settleCancelledCalls(c)]
      /\ IF task[r] = "stopped" THEN AbortedReturns(r) ELSE Goes(r, "running")
  BY DEF settleToolProgramParent, toolProgramAggregateOutcome
<1> HIDE DEF c
<1>3. /\ runs \in Table /\ Forest(runs) /\ programs \in [Children -> Programs] /\ runs[r] \in RunRows
      /\ runs[r].kind # "program"
  BY Facts, NotAProgram DEF Table, Rows, Present
<1>4. X \in RunRows /\ X.status = runs[r].status /\ Kin(X, runs[r]) /\ X.open = "none"
  BY <1>3 DEF RunRows, OpenWork, Kin
<1>5. Becomes(runs, ss, r, X)
  <2>1. ss = [runs EXCEPT ![r] = X] BY <1>3 DEF Table
  <2> QED BY <1>3, <1>4, <2>1, Updated
<1> HIDE DEF X, ss
<1>6. RowStep(runs, r, X) BY <1>3, <1>4, RowStepFrom DEF Ended
<1>7. ss \in Table /\ Forest(ss) BY <1>3, <1>4, <1>5, <1>6, OneRow
<1>8. Follows(runs, ss, {r}) /\ Calm(runs, ss) BY <1>3, <1>4, <1>5, <1>6, OneRowFollows
<1>9. /\ settleCancelledCalls(c) \in Seq(CallStates)
      /\ \A i \in DOMAIN settleCancelledCalls(c) : settleCancelledCalls(c)[i] # "open"
  <2>1. CASE runs[c].status = "cancelled"
    <3> DEFINE f == [i \in DOMAIN programs[c].calls |->
                       IF programs[c].calls[i] = "open" THEN "cancelled" ELSE programs[c].calls[i]]
    <3>1. settleCancelledCalls(c) = f BY <2>1 DEF settleCancelledCalls
    <3>2. programs[c].calls \in Seq(CallStates) BY <1>1 DEF Programs
    <3>3. \A i \in DOMAIN programs[c].calls : programs[c].calls[i] \in CallStates BY <3>2
    <3>4. \A i \in DOMAIN programs[c].calls : f[i] \in CallStates /\ f[i] # "open" BY <3>3 DEF CallStates
    <3>5. DOMAIN f = DOMAIN programs[c].calls /\ f = [i \in DOMAIN programs[c].calls |-> f[i]] OBVIOUS
    <3> HIDE DEF f
    <3>6. f \in Seq(CallStates) BY <1>1, <3>4, <3>5, CallsKept
    <3> QED BY <3>1, <3>4, <3>5, <3>6
  <2>2. CASE runs[c].status # "cancelled"
    <3>1. settleCancelledCalls(c) = programs[c].calls BY <2>2 DEF settleCancelledCalls
    <3> QED BY <1>1, <2>2, <3>1 DEF Programs, Agrees, NoneOpen
  <2> QED BY <2>1, <2>2
<1>10. /\ programs' \in [Children -> Programs] /\ \A p \in Children : p # c => programs'[p] = programs[p]
       /\ programs'[c].state = programs[c].state /\ programs'[c].at = programs[c].at
       /\ programs'[c].told = runs[c].status /\ programs'[c].calls = settleCancelledCalls(c)
  <2> DEFINE P == [programs[c] EXCEPT !.told = runs[c].status, !.calls = settleCancelledCalls(c)]
  <2>1. P \in Programs BY <1>1, <1>9 DEF Programs, Ended
  <2>2. programs' = [programs EXCEPT ![c] = P] BY <1>1, <1>2, <1>3
  <2>3. P.state = programs[c].state /\ P.at = programs[c].at /\ P.told = runs[c].status
        /\ P.calls = settleCancelledCalls(c)
    BY <1>1 DEF Programs
  <2> HIDE DEF P
  <2> QED BY <1>1, <1>3, <2>1, <2>2, <2>3
<1>11. ss[c] = runs[c] BY <1>1, <1>5 DEF Becomes
<1>12. Agrees(ss, programs', c)
  BY <1>1, <1>9, <1>10, <1>11 DEF Agrees, NoneOpen, Present, Ended
<1>13. \A p \in Children : p # c => /\ programs'[p] = programs[p]
                                    /\ runs[p].kind = "program" /\ ~Ended(runs, p) => ~Ended(ss, p)
  BY <1>3, <1>5, <1>10 DEF Becomes, Runs, Ended
<1>14. \E pc \in {"off", "running"} : Rest' /\ task' = [task EXCEPT ![r] = pc] /\ Stands(runs, r, pc)
  <2>1. CASE task[r] = "stopped"
    <3>1. Rest' /\ task' = [task EXCEPT ![r] = "off"]
      BY <1>2, <2>1, Facts, MoveTask DEF AbortedReturns, Rest, unchangedByCalls, Goto
    <3> QED BY <3>1 DEF Stands
  <2>2. CASE task[r] # "stopped"
    <3>1. Rest' /\ task' = [task EXCEPT ![r] = "running"] BY <1>2, <2>2, MoveTask DEF Pcs
    <3> QED BY <1>3, <2>2, <3>1 DEF Stands
  <2> QED BY <2>1, <2>2
<1>15. PICK pc \in {"off", "running"} : Rest' /\ task' = [task EXCEPT ![r] = pc] /\ Stands(runs, r, pc) BY <1>14
<1>16. pc \in Pcs /\ pc \notin {"program", "stopped"} BY DEF Pcs
<1>17. Write(ss, {r}) /\ programs' \in [Children -> Programs] BY <1>2, <1>10
<1> QED BY <1>1, <1>7, <1>8, <1>12, <1>13, <1>15, <1>16, <1>17, ProgramStep

LEMMA ExecuteToolProgramStep == ASSUME IndInv, NEW r \in Runs, ExecuteToolProgram(r) PROVE IndInv'
<1> DEFINE c == programOf(r)
           X == StartActivation(runs[c])
<1>1. unchangedByCalls /\ isDurablyRunnable(r) /\ runs[r].open = "program"
  BY DEF ExecuteToolProgram, unchangedByTasks
<1>2. Present(runs, r) /\ Unpaused(runs, r) /\ runs \in Table /\ Forest(runs) BY <1>1, Looks
<1>3. c \in Runs /\ Present(runs, c) /\ runs[c].kind = "program" /\ Carries(runs[c]) BY <1>1, <1>2, TheProgram
<1>4. runs[r].kind # "program" BY <1>1, <1>2, NotAProgram
<1>5. Stands(runs, r, "program") BY <1>1, <1>2, <1>4 DEF Stands
<1>6. CASE Terminal(c)
  <2>1. settleToolProgramParent(r, c) BY <1>6 DEF ExecuteToolProgram
  <2> QED BY <1>1, <1>2, <1>6, <2>1, settleParentStep
<1>7. CASE ~Terminal(c) /\ runs[c].active
  <2>1. Goes(r, "program") /\ UNCHANGED <<runs, programs>> BY <1>7 DEF ExecuteToolProgram
  <2>2. Rest' /\ task' = [task EXCEPT ![r] = "program"] BY <1>1, <2>1, MoveTask DEF Pcs
  <2> QED BY <1>5, <2>1, <2>2, SameRowsStep DEF Pcs
<1>8. CASE ~Terminal(c) /\ ~runs[c].active
  <2>1. Write([runs EXCEPT ![c] = X], {c}) /\ Goes(r, "program") /\ UNCHANGED programs
    BY <1>8 DEF ExecuteToolProgram
  <2>2. runs[c] \in RunRows /\ runs[c].inbox > 0 /\ ~Ended(runs, c) /\ runs[c].open = "none"
    BY <1>2, <1>3, <1>8 DEF Terminal, Exists, Present, Ended, Carries, Table, Rows
  <2>3. X \in RunRows /\ X.status = "running" /\ X.active /\ Kin(X, runs[c]) /\ X.on = runs[c].on
        /\ X.open = runs[c].open
    BY <2>2, StartedRow
  <2> HIDE DEF X, c
  <2>4. Carries(X) BY <2>2, <2>3 DEF Carries, TerminalStates
  <2>5. RowStep(runs, c, X) BY <1>2, <1>3, <2>2, <2>3, <2>4, RowStepFrom DEF TerminalStates
  <2>6. Rest' /\ task' = [task EXCEPT ![r] = "program"] BY <1>1, <2>1, MoveTask DEF Pcs
  <2>7. "program" \in Pcs /\ "running" \notin TerminalStates BY DEF Pcs, TerminalStates
  <2> QED BY <1>3, <1>5, <2>1, <2>2, <2>3, <2>5, <2>6, <2>7, OneRowStep
<1> QED BY <1>6, <1>7, <1>8

\* The executor of a program, and what it executes.
LEMMA Executor ==
  ASSUME IndInv, NEW r \in Runs, Executing(r)
  PROVE  LET c == programOf(r) IN
         /\ Present(runs, r) /\ runs[r].open = "program" /\ runs \in Table /\ Forest(runs)
         /\ Unpaused(runs, r) \/ task[r] = "stopped"
         /\ Stands(runs, r, task[r]) /\ Stands(runs, r, "off") /\ task[r] \in Pcs
         /\ c \in Children /\ c \in Runs /\ Present(runs, c) /\ runs[c] \in RunRows
         /\ runs[c].kind = "program" /\ Carries(runs[c]) /\ NobodyBelow(runs, c)
         /\ programs[c] \in Programs /\ programs \in [Children -> Programs] /\ Agrees(runs, programs, c)
<1>1. task[r] \in {"program", "stopped"} /\ Stands(runs, r, task[r]) BY Standing DEF Executing
<1>2. Present(runs, r) /\ runs[r].open = "program" /\ (Unpaused(runs, r) \/ task[r] = "stopped")
  BY <1>1 DEF Stands
<1>3. runs \in Table /\ Forest(runs) /\ task \in [Runs -> Pcs] /\ programs \in [Children -> Programs] BY Facts
<1>4. Stands(runs, r, "off") BY DEF Stands
<1> QED BY <1>1, <1>2, <1>3, <1>4, TheProgram DEF Table, Rows, Present

\* The task of r ends the child it executes.
LEMMA ChildEnds ==
  ASSUME IndInv, NEW r \in Runs, Executing(r), NEW c, c = programOf(r), runs[c].status = "running",
         NEW state \in {"succeeded", "blocked", "failed", "cancelled"}, terminalizeToolProgramChild(c, state),
         programs' \in [Children -> Programs], \A p \in Children : p # c => programs'[p] = programs[p],
         programs'[c].state # "open", programs'[c].told = programs[c].told, NoneOpen(programs'[c]),
         state = "succeeded" => programs'[c].at = Len(Steps) + 1 /\ programs'[c].state = "succeeded",
         UNCHANGED task, Rest'
  PROVE  IndInv'
<1> DEFINE s == ChildBecomes[state]
           X == Terminalized(runs[c], s)
           ss == [runs EXCEPT ![c] = X]
<1>1. Write(ss, {c}) BY DEF terminalizeToolProgramChild
<1>2. s \in TerminalStates /\ (s = "completed" => state = "succeeded") BY DEF ChildBecomes, TerminalStates
<1>3. /\ runs \in Table /\ Forest(runs) /\ c \in Children /\ c \in Runs /\ Present(runs, c) /\ runs[c] \in RunRows
      /\ runs[c].kind = "program" /\ Carries(runs[c]) /\ NobodyBelow(runs, c) /\ Agrees(runs, programs, c)
      /\ Stands(runs, r, task[r]) /\ task[r] \in Pcs
  BY Executor
<1>4. ~Ended(runs, c) BY DEF Ended, TerminalStates
<1> HIDE DEF s
<1>5. X \in RunRows /\ X.status = s /\ Kin(X, runs[c]) /\ X.on = runs[c].on /\ X.open = "none"
  BY <1>2, <1>3, TerminalizedRow DEF Carries
<1>6. Carries(X) BY <1>2, <1>5 DEF Carries, TerminalStates
<1> HIDE DEF X
<1>7. Becomes(runs, ss, c, X) BY <1>3, <1>5, Updated
<1> HIDE DEF ss
<1>8. RowStep(runs, c, X) BY <1>3, <1>4, <1>5, <1>6, RowStepFrom
<1>9. ss \in Table /\ Forest(ss) BY <1>3, <1>5, <1>7, <1>8, OneRow
<1>10. X.status # "paused" /\ runs[c].open # "program" BY <1>2, <1>3, <1>5 DEF Carries, TerminalStates
<1>11. Follows(runs, ss, {}) /\ Calm(runs, ss) BY <1>3, <1>5, <1>7, <1>8, <1>10, OneRowFollows
<1>12. Follows(runs, ss, {r}) BY <1>11 DEF Follows
<1>13. programs[c].told = "none" BY <1>3, <1>4 DEF Agrees
<1>14. Agrees(ss, programs', c) BY <1>2, <1>5, <1>7, <1>13 DEF Agrees, Becomes
<1>15. \A p \in Children : p # c => /\ programs'[p] = programs[p]
                                    /\ runs[p].kind = "program" /\ ~Ended(runs, p) => ~Ended(ss, p)
  BY <1>7 DEF Becomes, Runs, Ended
<1>16. task' = [task EXCEPT ![r] = task[r]] BY Facts
<1> QED BY <1>1, <1>3, <1>9, <1>11, <1>12, <1>14, <1>15, <1>16, ProgramStep
LEMMA WorstIsOne ==
  ASSUME NEW S, S # {}, S \subseteq {"succeeded", "blocked", "failed", "cancelled"}
  PROVE  Worst(S) \in S
<1> DEFINE worse(s) == \A t \in S : Severity[s] >= Severity[t]
<1>1. /\ Severity["succeeded"] = 0 /\ Severity["blocked"] = 1 /\ Severity["failed"] = 2 /\ Severity["cancelled"] = 3
  BY DEF Severity
<1>2. \E s \in S : worse(s)
  <2>1. CASE "cancelled" \in S
    <3>1. worse("cancelled") BY <1>1
    <3> QED BY <2>1, <3>1
  <2>2. CASE "failed" \in S /\ "cancelled" \notin S
    <3>1. worse("failed") BY <1>1, <2>2
    <3> QED BY <2>2, <3>1
  <2>3. CASE "blocked" \in S /\ "failed" \notin S /\ "cancelled" \notin S
    <3>1. worse("blocked") BY <1>1, <2>3
    <3> QED BY <2>3, <3>1
  <2>4. CASE S = {"succeeded"}
    <3>1. worse("succeeded") BY <1>1, <2>4
    <3> QED BY <2>4, <3>1
  <2> QED BY <2>1, <2>2, <2>3, <2>4
<1> QED BY <1>2 DEF Worst

\* The program of c changes: the fields that the executor writes.
LEMMA ProgramWritten ==
  ASSUME programs \in [Children -> Programs], NEW c \in Children, NEW P \in Programs, programs' = [programs EXCEPT ![c] = P]
  PROVE  /\ programs' \in [Children -> Programs] /\ programs'[c] = P
         /\ \A p \in Children : p # c => programs'[p] = programs[p]
OBVIOUS

LEMMA advanceStepStep ==
  ASSUME IndInv, NEW r \in Runs, Executing(r), NEW c, c = programOf(r), runs[c].status = "running",
         ~isRunActivationActive(c) \/ pendingCalls(c) = {},
         advanceStep(c), UNCHANGED <<task, sweep, host>>, unchangedByCalls
  PROVE  IndInv'
<1> DEFINE p == programs[c]
           now == stepState(c)
<1>1. /\ Present(runs, r) /\ runs \in Table /\ Forest(runs) /\ Stands(runs, r, task[r]) /\ task[r] \in Pcs
      /\ c \in Children /\ c \in Runs /\ Present(runs, c) /\ runs[c].kind = "program" /\ Carries(runs[c])
      /\ p \in Programs /\ programs \in [Children -> Programs] /\ Agrees(runs, programs, c)
  BY Executor
<1>2. Rest' BY Facts DEF Rest, unchangedByCalls
<1>3. isRunActivationActive(c) BY <1>1 DEF Carries, isRunActivationActive
<1>4. NoneOpen(p) BY <1>3 DEF pendingCalls, NoneOpen
<1>5. /\ p.at \in 0..(Len(Steps) + 1) /\ p.calls \in Seq(CallStates) /\ p.state \in CallStates
      /\ p.told \in {"none"} \cup TerminalStates
  BY <1>1 DEF Programs
<1>6. ~Ended(runs, c) BY DEF Ended, TerminalStates
<1>7. p.told = "none" /\ p.state # "open" BY <1>1, <1>6 DEF Agrees
<1>8. now \in CallStates \ {"open"}
  <2> DEFINE S == {p.state} \cup States(p.calls)
  <2>1. S \subseteq {"succeeded", "blocked", "failed", "cancelled"} BY <1>4, <1>5, <1>7 DEF CallStates, NoneOpen, States
  <2>2. S # {} OBVIOUS
  <2> HIDE DEF S
  <2>3. Worst(S) \in S BY <2>1, <2>2, WorstIsOne
  <2>4. now = Worst(S) BY DEF S, stepState
  <2> HIDE DEF now
  <2> QED BY <2>1, <2>3, <2>4 DEF CallStates
<1> HIDE DEF now
<1>9. Len(Steps) \in Nat BY StepsAssumption
<1>10. CASE "cancelled" \in States(p.calls)
  <2>1. terminalizeToolProgramChild(c, "cancelled") /\ UNCHANGED programs BY <1>10 DEF advanceStep
  <2> QED BY <1>1, <1>2, <1>4, <1>7, <2>1, ChildEnds
<1>11. CASE "cancelled" \notin States(p.calls) /\ p.at >= Len(Steps)
  <2> DEFINE P == [p EXCEPT !.at = Len(Steps) + 1, !.state = now]
  <2>1. /\ terminalizeToolProgramChild(c, now)
        /\ programs' = [programs EXCEPT ![c].at = Len(Steps) + 1, ![c].state = now]
    BY <1>11 DEF advanceStep, now
  <2>2. P \in Programs
    <3>1. Len(Steps) + 1 \in 0..(Len(Steps) + 1) BY <1>9
    <3>2. now \in CallStates BY <1>8
    <3> QED BY <1>1, <3>1, <3>2 DEF Programs
  <2>3. programs' = [programs EXCEPT ![c] = P] BY <1>1, <2>1
  <2>4. P.at = Len(Steps) + 1 /\ P.state = now /\ P.told = p.told /\ P.calls = p.calls BY <1>1 DEF Programs
  <2> HIDE DEF P
  <2>5. /\ programs' \in [Children -> Programs] /\ programs'[c] = P
        /\ \A q \in Children : q # c => programs'[q] = programs[q]
    BY <1>1, <2>2, <2>3, ProgramWritten
  <2>6. now \in {"succeeded", "blocked", "failed", "cancelled"} BY <1>8 DEF CallStates
  <2>7. NoneOpen(P) BY <1>4, <2>4 DEF NoneOpen
  <2>8. UNCHANGED task OBVIOUS
  <2> QED BY <1>2, <1>8, <2>1, <2>4, <2>5, <2>6, <2>7, <2>8, ChildEnds
<1>12. CASE "cancelled" \notin States(p.calls) /\ ~(p.at >= Len(Steps))
  <2> DEFINE step == Steps[p.at + 1]
  <2>0. p.at + 1 \in 1..Len(Steps) /\ p.at + 1 \in 0..(Len(Steps) + 1) BY <1>5, <1>9, <1>12
  <2>1. step.calls \in Nat
    <3> DEFINE K == [kind : {"call", "pure", "validate"}, calls : Nat]
    <3>1. Steps \in Seq(K) BY StepsAssumption
    <3> HIDE DEF K
    <3>2. step \in K BY <2>0, <3>1
    <3> QED BY <3>2 DEF K
  <2>2. prepareCalls(c, step, now) \/ failValidation(c) BY <1>12 DEF advanceStep, now
  <2>3. CASE failValidation(c)
    <3> DEFINE P == [p EXCEPT !.state = "failed"]
    <3>1. P \in Programs BY <1>1 DEF Programs, CallStates
    <3>2. programs' = [programs EXCEPT ![c] = P] BY <1>1, <2>3 DEF failValidation
    <3>3. P.state = "failed" /\ P.told = p.told /\ P.calls = p.calls BY <1>1 DEF Programs
    <3> HIDE DEF P
    <3>4. /\ programs' \in [Children -> Programs] /\ programs'[c] = P
          /\ \A q \in Children : q # c => programs'[q] = programs[q]
      BY <1>1, <3>1, <3>2, ProgramWritten
    <3>5. NoneOpen(P) BY <1>4, <3>3 DEF NoneOpen
    <3>6. terminalizeToolProgramChild(c, "failed") BY <2>3 DEF failValidation
    <3>7. UNCHANGED task OBVIOUS
    <3> QED BY <1>2, <3>3, <3>4, <3>5, <3>6, <3>7, ChildEnds
  <2>4. CASE prepareCalls(c, step, now)
    <3> DEFINE calls == [i \in 1..step.calls |-> "open"]
               P == [p EXCEPT !.at = p.at + 1, !.state = now, !.calls = calls]
    <3>1. calls \in Seq(CallStates)
      <4>1. step.calls \in Nat BY <2>1
      <4>2. "open" \in CallStates BY DEF CallStates
      <4> HIDE DEF step
      <4>3. calls \in [1..step.calls -> CallStates] BY <4>2
      <4> QED BY <4>1, <4>3
    <3> HIDE DEF calls
    <3>2. P \in Programs BY <1>1, <1>8, <2>0, <3>1 DEF Programs
    <3>3. programs' = [programs EXCEPT ![c] = P] /\ Write(runs, {c}) BY <1>1, <2>4 DEF prepareCalls, calls
    <3>4. P.state = now /\ P.told = p.told BY <1>1 DEF Programs
    <3> HIDE DEF P
    <3>5. /\ programs' \in [Children -> Programs] /\ programs'[c] = P
          /\ \A q \in Children : q # c => programs'[q] = programs[q]
      BY <1>1, <3>2, <3>3, ProgramWritten
    <3>6. Agrees(runs, programs', c)
      <4>1. runs[c].status # "completed" OBVIOUS
      <4> QED BY <1>6, <1>7, <1>8, <3>4, <3>5, <4>1 DEF Agrees
    <3>7. Follows(runs, runs, {}) /\ Follows(runs, runs, {r}) /\ Calm(runs, runs)
      BY <1>1, FollowsSelf DEF Follows
    <3>8. task' = [task EXCEPT ![r] = task[r]] BY Facts
    <3>9. \A q \in Children : q # c => /\ programs'[q] = programs[q]
                                       /\ runs[q].kind = "program" /\ ~Ended(runs, q) => ~Ended(runs, q)
      BY <3>5
    <3> QED BY <1>1, <1>2, <3>3, <3>5, <3>6, <3>7, <3>8, <3>9, ProgramStep
  <2> QED BY <2>2, <2>3, <2>4
<1> QED BY <1>10, <1>11, <1>12

LEMMA AdvanceToolProgramChildStep == ASSUME IndInv, NEW r \in Runs, AdvanceToolProgramChild(r) PROVE IndInv'
<1> DEFINE c == programOf(r)
<1>1. /\ Executing(r) /\ unchangedByCalls
      /\ ~isRunActivationActive(c) \/ pendingCalls(c) = {}
      /\ IF ~isRunActivationActive(r) THEN Leaves(r) /\ UNCHANGED <<runs, programs>>
         ELSE IF Terminal(c) THEN settleToolProgramParent(r, c)
         ELSE IF runs[c].status # "running" THEN Throws(r) /\ UNCHANGED <<runs, programs>>
         ELSE advanceStep(c) /\ UNCHANGED <<task, sweep, host>>
  BY DEF AdvanceToolProgramChild, unchangedByTasks
<1>2. /\ Present(runs, r) /\ runs[r].open = "program" /\ Stands(runs, r, "off")
      /\ Unpaused(runs, r) \/ task[r] = "stopped"
  BY <1>1, Executor
<1>3. CASE (Leaves(r) \/ Throws(r)) /\ UNCHANGED <<runs, programs>>
  BY <1>1, <1>2, <1>3, MoveTask, SameRowsStep DEF Pcs
<1>4. CASE Terminal(c) /\ settleToolProgramParent(r, c) BY <1>1, <1>2, <1>4, settleParentStep
<1>5. CASE runs[c].status = "running" /\ advanceStep(c) /\ UNCHANGED <<task, sweep, host>>
  <2> HIDE DEF c
  <2>1. c = programOf(r) BY DEF c
  <2> QED BY <1>1, <1>5, <2>1, advanceStepStep
<1> QED BY <1>1, <1>3, <1>4, <1>5

LEMMA SettleToolProgramChildCallStep == ASSUME IndInv, NEW r \in Runs, SettleToolProgramChildCall(r) PROVE IndInv'
<1> DEFINE c == programOf(r)
           p == programs[c]
<1>1. /\ Executing(r) /\ unchangedByCalls /\ isRunActivationActive(c) /\ UNCHANGED <<runs, task, sweep, host>>
  BY DEF SettleToolProgramChildCall, unchangedByTasks
<1>2. PICK i \in pendingCalls(c), s \in {"succeeded", "failed", "blocked", "cancelled"} :
        programs' = [programs EXCEPT ![c].calls[i] = s]
  BY DEF SettleToolProgramChildCall
<1>3. /\ runs \in Table /\ Forest(runs) /\ c \in Children /\ p \in Programs /\ programs \in [Children -> Programs]
      /\ Agrees(runs, programs, c)
  BY <1>1, Executor
<1>4. ~Ended(runs, c) /\ runs[c].status # "completed" BY <1>1 DEF isRunActivationActive, Ended, TerminalStates
<1> HIDE DEF c
<1> DEFINE f == [p.calls EXCEPT ![i] = s]
           P == [p EXCEPT !.calls = f]
<1>5. f \in Seq(CallStates)
  <2>1. p.calls \in Seq(CallStates) BY <1>3 DEF Programs
  <2>2. s \in CallStates BY DEF CallStates
  <2>3. DOMAIN f = DOMAIN p.calls BY <2>1
  <2>4. f = [j \in DOMAIN p.calls |-> f[j]] BY <2>1
  <2>5. \A j \in DOMAIN p.calls : f[j] \in CallStates BY <2>1, <2>2
  <2> HIDE DEF f
  <2> QED BY <1>3, <2>3, <2>4, <2>5, CallsKept
<1> HIDE DEF f
<1>6. P \in Programs /\ P.state = p.state /\ P.told = p.told BY <1>3, <1>5 DEF Programs
<1>7. programs' = [programs EXCEPT ![c] = P] BY <1>2, <1>3 DEF f, Programs
<1> HIDE DEF P
<1>8. /\ programs' \in [Children -> Programs] /\ programs'[c] = P
      /\ \A q \in Children : q # c => programs'[q] = programs[q]
  BY <1>3, <1>6, <1>7, ProgramWritten
<1>9. Agrees(runs, programs', c) BY <1>3, <1>4, <1>6, <1>8 DEF Agrees
<1>10. Outcomes(runs, programs')
  <2> SUFFICES ASSUME NEW q \in Children PROVE Agrees(runs, programs', q) BY DEF Outcomes
  <2>1. Agrees(runs, programs, q) BY Facts DEF Outcomes
  <2>2. CASE q # c BY <1>8, <2>1, <2>2 DEF Agrees
  <2> QED BY <1>9, <2>2
<1>11. Tasks(runs, task) /\ task \in [Runs -> Pcs] /\ Rest' BY <1>1, Facts DEF Rest, unchangedByCalls
<1>12. runs' = runs /\ task' = task BY <1>1
<1>13. \A q \in Runs : Stands(runs', q, task'[q]) BY <1>11, <1>12 DEF Tasks
<1> QED BY <1>3, <1>8, <1>10, <1>11, <1>12, <1>13, NewRows
-----------------------------------------------------------------------------
(* The user.                                                                 *)

\* A command of the user, and with it the notification of the controller.
LEMMA UserStep ==
  ASSUME IndInv, NEW ss \in Table, Forest(ss), NEW M, Write(ss, M), Follows(runs, ss, {}), Endings(runs, ss),
         UserTurn, Notified, usable' \in BOOLEAN
  PROVE  IndInv'
<1>1. /\ runs \in Table /\ Outcomes(runs, programs) /\ programs \in [Children -> Programs]
      /\ task \in [Runs -> Pcs] /\ Rest
  BY Facts
<1>2. runs' \in Table /\ Forest(runs') /\ Follows(runs, runs', {}) /\ Endings(runs, runs') BY <1>1, Written DEF Write
<1>3. programs' = programs /\ Rest' BY <1>1 DEF UserTurn, Notified, Rest
<1>4. Outcomes(runs', programs') BY <1>1, <1>2, <1>3, FollowOutcomes
<1>5. ASSUME NEW q \in Runs PROVE task'[q] \in Pcs /\ Stands(runs', q, task'[q])
  <2> DEFINE pc == task[q]
  <2>1. pc \in Pcs \ Held /\ Stands(runs, q, pc) BY <1>1, Standing DEF UserTurn
  <2>2. pc # "off" => /\ Present(runs', q)
                      /\ pc \in {"program", "stopped"} => runs'[q].open = "program"
                      /\ pc # "coordinate" => runs'[q].kind # "program"
    BY <1>2, <2>1 DEF Stands, Follows
  <2>3. task'[q] = IF MayStillRun(q) THEN pc
                   ELSE CASE pc \in {"thinking", "waiting"} -> "off"
                          [] pc = "program" -> "stopped"
                          [] OTHER -> pc
    BY DEF Notified
  <2> HIDE DEF pc
  <2>4. CASE MayStillRun(q)
    <3>1. Unpaused(runs', q) BY <2>4 DEF MayStillRun, Unpaused
    <3> QED BY <2>1, <2>2, <2>3, <2>4, <3>1 DEF Stands
  <2>5. CASE ~MayStillRun(q)
    <3>1. CASE pc \in {"thinking", "waiting"} BY <2>3, <2>5, <3>1 DEF Stands, Pcs
    <3>2. CASE pc = "program"
      <4>1. task'[q] = "stopped" BY <2>3, <2>5, <3>2
      <4> QED BY <2>2, <3>2, <4>1 DEF Stands, Pcs
    <3>3. CASE pc \in {"off", "stopped"}
      <4>1. task'[q] = pc BY <2>3, <2>5, <3>3
      <4> QED BY <2>2, <3>3, <4>1 DEF Stands, Pcs
    <3> QED BY <2>1, <3>1, <3>2, <3>3 DEF Pcs, Held
  <2> QED BY <2>4, <2>5
<1>6. task' \in [Runs -> Pcs]
  <2>1. task' = [q \in Runs |-> task'[q]] BY DEF Notified
  <2> QED BY <1>5, <2>1
<1> QED BY <1>1, <1>2, <1>3, <1>4, <1>5, <1>6, NewRows

LEMMA enqueueFollowupStep == ASSUME IndInv, NEW r \in Runs, enqueueFollowup(r) PROVE IndInv'
<1> DEFINE X == [runs[r] EXCEPT !.inbox = runs[r].inbox + 1]
           ss == [runs EXCEPT ![r] = X]
<1>1. UserTurn /\ Notified /\ UNCHANGED usable /\ Live(r) /\ runs[r].inbox < MaxInbox BY DEF enqueueFollowup
<1>2. runs \in Table /\ Forest(runs) /\ usable \in BOOLEAN BY Facts DEF Rest
<1>3. Present(runs, r) /\ ~Ended(runs, r) /\ runs[r] \in RunRows
  BY <1>1, <1>2 DEF Live, Exists, Present, Ended, Table, Rows
<1>4. Write(ss, {r})
  <2>1. [runs EXCEPT ![r].inbox = @ + 1] = ss BY <1>2 DEF Table
  <2> QED BY <2>1 DEF enqueueFollowup
<1>5. /\ X \in RunRows /\ X.status = runs[r].status /\ Kin(X, runs[r]) /\ X.open = runs[r].open /\ X.on = runs[r].on
      /\ X.inbox > 0 /\ X.active = runs[r].active
  <2>1. runs[r].inbox + 1 \in 0..MaxInbox /\ runs[r].inbox + 1 > 0 BY <1>1, <1>3, RowFields, TreeAssumption
  <2> QED BY <1>3, <2>1 DEF RunRows, Kin
<1> HIDE DEF X
<1>6. Becomes(runs, ss, r, X) BY <1>2, <1>5, Updated
<1> HIDE DEF ss
<1>7. runs[r].kind = "program" => Carries(X)
  <2>1. runs[r].kind = "program" => Carries(runs[r]) BY <1>2, <1>3 DEF Forest, Carriers
  <2> QED BY <1>5, <2>1 DEF Carries
<1>8. RowStep(runs, r, X) BY <1>2, <1>3, <1>5, <1>7, RowStepFrom DEF Ended
<1>9. ss \in Table /\ Forest(ss) BY <1>2, <1>3, <1>5, <1>6, <1>8, OneRow
<1>10. Follows(runs, ss, {}) BY <1>2, <1>3, <1>5, <1>6, <1>8, OneRowFollows
<1>11. ~(X.status \in TerminalStates) BY <1>3, <1>5 DEF Ended
<1>12. Endings(runs, ss) BY <1>2, <1>3, <1>5, <1>6, <1>8, <1>11, OneRowFollows
<1> QED BY <1>1, <1>2, <1>4, <1>9, <1>10, <1>12, UserStep

\* A pause or a resume: rows of Runs at work change gear, and nothing ends.
Geared(row, X) ==
  /\ X \in RunRows /\ Kin(X, row) /\ {row.status, X.status} \subseteq {"running", "paused"}
  /\ X.on = row.on /\ X.active = row.active /\ X.open \in {row.open, "none"}
  /\ row.open = "program" => X.open = "program"

LEMMA GearRows ==
  ASSUME IndInv, NEW ss, ss = [q \in Runs |-> ss[q]], \A q \in Runs : ss[q] = runs[q] \/ Geared(runs[q], ss[q])
  PROVE  ss \in Table /\ Forest(ss) /\ Follows(runs, ss, {}) /\ Endings(runs, ss)
<1>1. runs \in Table /\ Forest(runs) BY Facts
<1>2. ss \in Table
  <2>1. \A q \in Runs : ss[q] \in Rows BY <1>1 DEF Table, Rows, Geared
  <2> QED BY <2>1 DEF Table
<1>3. ASSUME NEW q \in Runs
      PROVE  /\ Present(ss, q) <=> Present(runs, q)
             /\ Ended(ss, q) <=> Ended(runs, q)
             /\ Ended(runs, q) => ss[q].status = runs[q].status
             /\ Kin(ss[q], runs[q])
             /\ ss[q].open = "program" => runs[q].open = "program" /\ ss[q].on = runs[q].on
             /\ runs[q].open = "program" => ss[q].open = "program"
             /\ Carries(runs[q]) => Carries(ss[q])
  <2>1. CASE ss[q] = runs[q] BY <2>1 DEF Present, Ended, Kin
  <2>2. CASE Geared(runs[q], ss[q])
    <3>1. runs[q] # NoRun BY <2>2 DEF Geared, NoRun
    <3>2. ss[q] # NoRun BY <2>2, NoRunIsNoRow DEF Geared
    <3> QED BY <2>2, <3>1, <3>2 DEF Geared, Present, Ended, Carries, TerminalStates
  <2> QED BY <2>1, <2>2
<1>4. \A q \in Runs : Present(runs, q) /\ runs[q].kind = "program" => Carries(runs[q]) BY <1>1 DEF Forest, Carriers
<1>5. Forest(ss) BY <1>1, <1>2, <1>3, <1>4, ManyRows DEF Kin
<1>6. \A q \in Runs : ~Present(runs, q) => ~Ended(runs, q) BY DEF Present, Ended, NoRun, TerminalStates
<1>7. Follows(runs, ss, {}) BY <1>3, <1>6 DEF Follows, Kin
<1>8. Endings(runs, ss) BY <1>3 DEF Endings
<1> QED BY <1>2, <1>5, <1>7, <1>8

LEMMA PauseStep == ASSUME IndInv, NEW r \in Runs, Pause(r) PROVE IndInv'
<1> DEFINE ss == pauseSubtree(r)
<1>1. UserTurn /\ Notified /\ UNCHANGED usable /\ Write(ss, Reached(r)) BY DEF Pause, Control
<1>2. runs \in Table /\ usable \in BOOLEAN BY Facts DEF Rest
<1>3. ASSUME NEW q \in Runs PROVE ss[q] = runs[q] \/ Geared(runs[q], ss[q])
  <2> DEFINE o == IF runs[q].open = "attempt" THEN "none" ELSE runs[q].open
             X == [runs[q] EXCEPT !.open = o, !.fresh = FALSE, !.status = "paused"]
  <2>1. CASE q \in subtree(r) /\ runs[q].status = "running"
    <3>1. runs[q] \in RunRows BY <1>2, <2>1 DEF Table, Rows, NoRun
    <3>2. ss[q] = [Settled(runs[q]) EXCEPT !.status = "paused"] BY <2>1 DEF pauseSubtree
    <3>3. ss[q] = X BY <3>1, <3>2 DEF Settled, RunRows
    <3>4. o \in OpenWork /\ o \in {runs[q].open, "none"} /\ (runs[q].open = "program" => o = "program")
      BY <3>1, RowFields DEF OpenWork
    <3> HIDE DEF o
    <3>5. X \in RunRows BY <3>1, <3>4 DEF RunRows, RunStates
    <3>6. /\ X.status = "paused" /\ Kin(X, runs[q]) /\ X.on = runs[q].on /\ X.active = runs[q].active /\ X.open = o
      BY <3>1 DEF RunRows, Kin
    <3> HIDE DEF X
    <3> QED BY <2>1, <3>3, <3>4, <3>5, <3>6 DEF Geared
  <2>2. CASE ~(q \in subtree(r) /\ runs[q].status = "running") BY <2>2 DEF pauseSubtree
  <2> QED BY <2>1, <2>2
<1>4. ss = [q \in Runs |-> ss[q]] BY DEF pauseSubtree
<1> HIDE DEF ss
<1>5. ss \in Table /\ Forest(ss) /\ Follows(runs, ss, {}) /\ Endings(runs, ss) BY <1>3, <1>4, GearRows
<1> QED BY <1>1, <1>2, <1>5, UserStep

LEMMA ResumeStep == ASSUME IndInv, NEW r \in Runs, Resume(r) PROVE IndInv'
<1> DEFINE ss == resumeSubtree(r)
<1>1. UserTurn /\ Notified /\ UNCHANGED usable /\ Write(ss, Reached(r)) BY DEF Resume, Control
<1>2. runs \in Table /\ usable \in BOOLEAN BY Facts DEF Rest
<1>3. ASSUME NEW q \in Runs PROVE ss[q] = runs[q] \/ Geared(runs[q], ss[q])
  <2> DEFINE X == [runs[q] EXCEPT !.status = "running"]
  <2>1. CASE q \in subtree(r) /\ runs[q].status = "paused"
    <3>1. runs[q] \in RunRows BY <1>2, <2>1 DEF Table, Rows, NoRun
    <3>2. ss[q] = X BY <2>1 DEF resumeSubtree
    <3>3. X \in RunRows BY <3>1 DEF RunRows, RunStates
    <3>4. /\ X.status = "running" /\ Kin(X, runs[q]) /\ X.on = runs[q].on /\ X.active = runs[q].active
          /\ X.open = runs[q].open
      BY <3>1 DEF RunRows, Kin
    <3> HIDE DEF X
    <3> QED BY <2>1, <3>2, <3>3, <3>4 DEF Geared
  <2>2. CASE ~(q \in subtree(r) /\ runs[q].status = "paused") BY <2>2 DEF resumeSubtree
  <2> QED BY <2>1, <2>2
<1>4. ss = [q \in Runs |-> ss[q]] BY DEF resumeSubtree
<1> HIDE DEF ss
<1>5. ss \in Table /\ Forest(ss) /\ Follows(runs, ss, {}) /\ Endings(runs, ss) BY <1>3, <1>4, GearRows
<1> QED BY <1>1, <1>2, <1>5, UserStep

LEMMA CancelStep == ASSUME IndInv, NEW r \in Runs, Cancel(r) PROVE IndInv'
<1> DEFINE ss == cancelSubtree(r)
<1>1. UserTurn /\ Notified /\ UNCHANGED usable /\ Write(ss, Reached(r)) BY DEF Cancel, Control
<1>2. usable \in BOOLEAN BY Facts DEF Rest
<1>3. ss \in Table /\ Forest(ss) /\ Follows(runs, ss, {}) /\ Endings(runs, ss) BY CancelRows
<1> HIDE DEF ss
<1> QED BY <1>1, <1>2, <1>3, UserStep

\* A root that begins.
LEMMA RootRow ==
  ASSUME NEW rs \in Table, NEW q \in Runs, NEW g, g \subseteq Rights, NEW X,
         X = Accepted("root", "none", {}, g) \/ \E r \in Runs : X = [Accepted("root", "none", {}, g) EXCEPT !.retryOf = r]
  PROVE  X \in RunRows /\ Newborn(rs, q, X)
<1> DEFINE A == Accepted("root", "none", {}, g)
<1>1. BeginsAs(A, "root", "none", {}, g) BY NewRow DEF RunKinds
<1>2. CASE X = A BY <1>1, <1>2 DEF BeginsAs, Newborn
<1>3. CASE \E r \in Runs : X = [A EXCEPT !.retryOf = r]
  <2>1. PICK r \in Runs : X = [A EXCEPT !.retryOf = r] BY <1>3
  <2> HIDE DEF A
  <2>2. X \in RunRows BY <1>1, <2>1 DEF BeginsAs, RunRows
  <2>3. /\ X.status = A.status /\ X.told = A.told /\ X.open = A.open /\ X.inbox = A.inbox
        /\ X.parent = A.parent /\ X.above = A.above /\ X.kind = A.kind
    BY <1>1, <2>1 DEF BeginsAs, RunRows
  <2> QED BY <1>1, <2>2, <2>3 DEF BeginsAs, Newborn
<1> QED BY <1>2, <1>3

LEMMA RootBorn ==
  ASSUME IndInv, NEW q \in Unused(Roots), NEW g, g \subseteq Rights, NEW X,
         X = Accepted("root", "none", {}, g) \/ \E r \in Runs : X = [Accepted("root", "none", {}, g) EXCEPT !.retryOf = r]
  PROVE  LET ss == [runs EXCEPT ![q] = X] IN
         ss \in Table /\ Forest(ss) /\ Follows(runs, ss, {}) /\ Calm(runs, ss) /\ Endings(runs, ss)
<1> DEFINE ss == [runs EXCEPT ![q] = X]
<1>1. runs \in Table /\ Forest(runs) BY Facts
<1>2. q \in Runs /\ ~Present(runs, q) BY UnusedRun DEF Runs
<1>3. X \in RunRows /\ Newborn(runs, q, X) BY <1>1, <1>2, RootRow
<1>4. Becomes(runs, ss, q, X) BY <1>1, <1>2, <1>3, Updated
<1> HIDE DEF ss
<1>5. ss \in Table /\ Forest(ss) BY <1>1, <1>2, <1>3, <1>4, Born
<1>6. Follows(runs, ss, {}) /\ Calm(runs, ss) /\ Endings(runs, ss) BY <1>1, <1>2, <1>3, <1>4, BornFollows
<1> QED BY <1>5, <1>6 DEF ss

LEMMA acceptRootRunStep == ASSUME IndInv, acceptRootRun PROVE IndInv'
<1>1. UserTurn /\ Notified /\ UNCHANGED usable BY DEF acceptRootRun
<1>2. PICK q \in Unused(Roots) : Write([runs EXCEPT ![q] = Accepted("root", "none", {}, Rights)], {})
  BY DEF acceptRootRun
<1>3. usable \in BOOLEAN BY Facts DEF Rest
<1> DEFINE ss == [runs EXCEPT ![q] = Accepted("root", "none", {}, Rights)]
<1>4. ss \in Table /\ Forest(ss) /\ Follows(runs, ss, {}) /\ Endings(runs, ss) BY RootBorn
<1>5. Write(ss, {}) BY <1>2
<1> HIDE DEF ss
<1> QED BY <1>1, <1>3, <1>4, <1>5, UserStep

LEMMA RetractStep == ASSUME IndInv, Retract PROVE IndInv'
<1>1. UNCHANGED <<runs, programs, task>> /\ Rest' BY Facts DEF Retract, UserTurn, Rest
<1>2. task' \in [Runs -> Pcs] /\ \A q \in Runs : Stands(runs, q, task'[q]) BY <1>1, Facts DEF Tasks
<1> QED BY <1>1, <1>2, SameRows

LEMMA UserSteps == ASSUME IndInv, User PROVE IndInv'
BY acceptRootRunStep, RetractStep, enqueueFollowupStep, PauseStep, ResumeStep, CancelStep DEF User
-----------------------------------------------------------------------------
(* The process.                                                              *)

\* Only tasks and the process move, and each task that moves goes where its Run lets it be.
LEMMA ProcessStep ==
  ASSUME IndInv, UNCHANGED <<runs, programs>>, task' \in [Runs -> Pcs], Rest',
         \A q \in Runs : task'[q] \in {task[q], "off"} \/ (task'[q] = "coordinate" /\ Present(runs, q))
  PROVE  IndInv'
<1> SUFFICES ASSUME NEW q \in Runs PROVE Stands(runs, q, task'[q]) BY SameRows
<1>1. CASE task'[q] = task[q] BY <1>1, Standing
<1>2. CASE task'[q] = "off" BY <1>2 DEF Stands
<1>3. CASE task'[q] = "coordinate" /\ Present(runs, q) BY <1>3 DEF Stands
<1> QED BY <1>1, <1>2, <1>3

LEMMA SweepStep == ASSUME IndInv, Sweep PROVE IndInv'
<1> DEFINE start == {r \in Runs : isDurablyRunnable(r) /\ task[r] = "off" /\ r \notin attempted}
<1>1. /\ task' = [r \in Runs |-> IF r \in start THEN "coordinate" ELSE task[r]]
      /\ sweep' = FALSE /\ attempted' = attempted \cup start /\ UNCHANGED <<runs, programs, host, todo, usable>>
  BY DEF Sweep
<1>2. \A q \in start : q \in Runs /\ Present(runs, q) BY Looks
<1> HIDE DEF start
<1>3. task \in [Runs -> Pcs] /\ Rest BY Facts
<1>4. task' \in [Runs -> Pcs] BY <1>1, <1>3 DEF Pcs
<1>5. Rest' BY <1>1, <1>2, <1>3 DEF Rest
<1>6. \A q \in Runs : task'[q] = task[q] \/ (task'[q] = "coordinate" /\ Present(runs, q)) BY <1>1, <1>2
<1> QED BY <1>1, <1>4, <1>5, <1>6, ProcessStep

LEMMA ExitSteps == ASSUME IndInv, Crash \/ Restart \/ Boot \/ Started PROVE IndInv'
<1>1. task \in [Runs -> Pcs] /\ Rest BY Facts
<1>2. UNCHANGED <<runs, programs>> BY DEF Crash, Restart, Boot, Started
<1>3. task' \in [Runs -> Pcs] /\ \A q \in Runs : task'[q] \in {task[q], "off"}
  BY <1>1 DEF Crash, Restart, Boot, Started, Pcs
<1>4. Rest'
  <2>1. CASE Crash BY <1>1, <2>1 DEF Crash, Rest
  <2>2. CASE Restart BY <1>1, <2>2 DEF Restart, Rest
  <2>3. CASE Boot BY <1>1, <2>3 DEF Boot, Rest
  <2>4. CASE Started BY <1>1, <2>4 DEF Started, Rest
  <2> QED BY <2>1, <2>2, <2>3, <2>4
<1> QED BY <1>2, <1>3, <1>4, ProcessStep

LEMMA reconcileInterruptedRunStep == ASSUME IndInv, NEW r \in Runs, reconcileInterruptedRun(r) PROVE IndInv'
<1>1. task \in [Runs -> Pcs] /\ Rest BY Facts
<1>2. UNCHANGED <<runs, programs>> /\ Rest' BY <1>1 DEF reconcileInterruptedRun, unchangedByBoot, Next1, Rest
<1>3. UNCHANGED task \/ (Interrupted(r) /\ Goto(r, "coordinate")) BY DEF reconcileInterruptedRun
<1>4. Interrupted(r) => Present(runs, r) BY DEF Interrupted, Present, NoRun
<1>5. task' \in [Runs -> Pcs] /\ \A q \in Runs : task'[q] = task[q] \/ (task'[q] = "coordinate" /\ Present(runs, q))
  BY <1>1, <1>3, <1>4 DEF Goto, Pcs
<1> QED BY <1>2, <1>5, ProcessStep

\* Nothing of a start but rows: programs and tasks stay.
LEMMA BootStep ==
  ASSUME IndInv, NEW ss \in Table, Forest(ss), NEW M, Write(ss, M), Follows(runs, ss, {}), Calm(runs, ss),
         Endings(runs, ss), UNCHANGED <<programs, task>>, Rest'
  PROVE  IndInv'
<1>1. PICK r \in Runs : TRUE BY TreeAssumption DEF Runs
<1>2. Follows(runs, ss, {r}) BY DEF Follows
<1>3. Stands(runs, r, task[r]) BY Standing
<1>4. task[r] \in Pcs /\ task' = [task EXCEPT ![r] = task[r]] BY Facts
<1> QED BY <1>2, <1>3, <1>4, WriteStep

LEMMA closeInterruptedActivationStep ==
  ASSUME IndInv, NEW r \in Runs, Interrupted(r), runs[r].parent = "none", closeInterruptedActivation(r), Booting,
         UNCHANGED task, unchangedByBoot
  PROVE  IndInv'
<1> DEFINE Y == Terminalized(runs[r], "blocked")
           X == [Y EXCEPT !.interrupted = TRUE, !.open = "none"]
           ss == [runs EXCEPT ![r] = X]
<1>1. runs \in Table /\ Forest(runs) BY Facts
<1>2. Present(runs, r) /\ runs[r] \in RunRows /\ ~Ended(runs, r)
  BY <1>1 DEF Interrupted, Present, NoRun, Ended, TerminalStates, Table, Rows
<1>3. Y \in RunRows /\ Y.status = "blocked" /\ Kin(Y, runs[r]) BY <1>2, TerminalizedRow DEF TerminalStates
<1>4. Write(ss, {r}) BY DEF closeInterruptedActivation
<1> HIDE DEF Y
<1>5. /\ X \in RunRows /\ X.status = "blocked" /\ X.interrupted /\ X.open = "none"
      /\ X.parent = runs[r].parent /\ X.above = runs[r].above /\ X.kind = runs[r].kind
      /\ X.grant = runs[r].grant /\ X.told = runs[r].told
  BY <1>3 DEF RunRows, OpenWork, Kin
<1> HIDE DEF X
<1>6. runs[r].kind # "program" BY <1>1, <1>2 DEF Forest, Carriers, IsRoot
<1>7. RowStep(runs, r, X)
  <2>1. Told(runs, r, X.told) BY <1>1, <1>2, <1>5 DEF Forest, Rules
  <2> QED BY <1>2, <1>5, <1>6, <2>1 DEF RowStep
<1>8. task[r] = "off" BY DEF Booting
<1>9. task' = [task EXCEPT ![r] = "off"] BY <1>8, Facts
<1>10. UNCHANGED programs /\ Rest' BY Facts DEF closeInterruptedActivation, unchangedByBoot, Next1, Rest
<1>11. Stands(runs, r, "off") BY DEF Stands
<1> QED BY <1>2, <1>4, <1>5, <1>6, <1>7, <1>9, <1>10, <1>11, OneRowStep DEF Pcs

LEMMA recoverRunStep == ASSUME IndInv, NEW r \in Runs, recoverRun(r) PROVE IndInv'
<1>1. Booting /\ UNCHANGED task /\ unchangedByBoot BY DEF recoverRun
<1>2. CASE UNCHANGED runs
  <2>1. task \in [Runs -> Pcs] /\ Rest BY Facts
  <2>2. Rest' BY <2>1 DEF recoverRun, closeInterruptedActivation, unchangedByBoot, Next1, Rest
  <2>3. UNCHANGED <<runs, programs>> BY <1>1, <1>2 DEF unchangedByBoot
  <2> QED BY <1>1, <2>1, <2>2, <2>3, ProcessStep
<1>3. CASE Interrupted(r) /\ runs[r].parent = "none" /\ closeInterruptedActivation(r)
  BY <1>1, <1>3, closeInterruptedActivationStep
<1> QED BY <1>2, <1>3 DEF recoverRun

LEMMA acceptCrashRetryRootRunStep == ASSUME IndInv, NEW r \in Runs, acceptCrashRetryRootRun(r) PROVE IndInv'
<1>1. UNCHANGED task /\ unchangedByBoot BY DEF acceptCrashRetryRootRun
<1>2. task \in [Runs -> Pcs] /\ Rest /\ runs \in Table BY Facts
<1>3. Rest' BY <1>2 DEF acceptCrashRetryRootRun, unchangedByBoot, Next1, Rest
<1>4. UNCHANGED programs BY <1>1 DEF unchangedByBoot
<1>5. CASE UNCHANGED runs BY <1>1, <1>2, <1>3, <1>4, <1>5, ProcessStep
<1>6. CASE recoverySource(r) /\ \E q \in Unused(Roots) :
             Write([runs EXCEPT ![q] = [Accepted("root", "none", {}, runs[r].grant) EXCEPT !.retryOf = r]], {})
  <2>1. PICK q \in Unused(Roots) :
          Write([runs EXCEPT ![q] = [Accepted("root", "none", {}, runs[r].grant) EXCEPT !.retryOf = r]], {})
    BY <1>6
  <2> DEFINE X == [Accepted("root", "none", {}, runs[r].grant) EXCEPT !.retryOf = r]
             ss == [runs EXCEPT ![q] = X]
  <2>2. runs[r].grant \subseteq Rights BY <1>2, <1>6, RowFields DEF recoverySource, Table, Rows, NoRun
  <2>3. ss \in Table /\ Forest(ss) /\ Follows(runs, ss, {}) /\ Calm(runs, ss) /\ Endings(runs, ss)
    BY <2>2, RootBorn
  <2>4. Write(ss, {}) BY <2>1
  <2> HIDE DEF ss
  <2> QED BY <1>1, <1>3, <1>4, <2>3, <2>4, BootStep
<1> QED BY <1>5, <1>6 DEF acceptCrashRetryRootRun

LEMMA ProcessSteps == ASSUME IndInv, Process PROVE IndInv'
BY ExitSteps, reconcileInterruptedRunStep, recoverRunStep, acceptCrashRetryRootRunStep DEF Process

-----------------------------------------------------------------------------
(* The invariant and what it says.                                           *)

LEMMA InitStep == Init => IndInv
<1> SUFFICES ASSUME Init PROVE IndInv OBVIOUS
<1> DEFINE first == CHOOSE x \in Roots : TRUE
           none == [q \in Runs |-> NoRun]
<1>1. PICK given \in {Rights, Rights \ Topics} :
        runs = [r \in Runs |-> IF r = first THEN Accepted("root", "none", {}, given) ELSE NoRun]
  BY DEF Init
<1> DEFINE X == Accepted("root", "none", {}, given)
<1>2. first \in Runs BY TreeAssumption DEF Runs
<1> HIDE DEF first
<1>3. none \in Table /\ \A q \in Runs : none[q] = NoRun BY DEF Table, Rows
<1> HIDE DEF none
<1>4. \A q \in Runs : ~Present(none, q) /\ ~Ended(none, q) BY <1>3 DEF Present, Ended, NoRun, TerminalStates
<1>5. Forest(none)
  <2>1. \A c \in Runs, q \in Runs : c \notin none[q].above BY <1>3 DEF NoRun
  <2> QED BY <1>4, <2>1 DEF Forest, Tree, Rules, Orphans, Alive, Carriers, Calling
<1>6. X \in RunRows /\ Newborn(none, first, X)
  <2>1. given \subseteq Rights OBVIOUS
  <2> QED BY <1>2, <1>3, <2>1, RootRow
<1>7. X.status = "accepted" BY DEF Accepted
<1> HIDE DEF X
<1>8. Becomes(none, runs, first, X)
  <2>1. runs \in [Runs -> Rows] BY <1>1, <1>6 DEF Rows, X
  <2> QED BY <1>1, <1>2, <1>3, <2>1 DEF Becomes, Table, X
<1>9. runs \in Table /\ Forest(runs) BY <1>2, <1>3, <1>4, <1>5, <1>6, <1>8, Born
<1>10. Follows(none, runs, {}) BY <1>2, <1>3, <1>4, <1>6, <1>8, BornFollows
<1>11. \A q \in Runs : ~Ended(runs, q) BY <1>4, <1>10 DEF Follows
<1>12. NoProgram \in Programs /\ NoProgram.state = "succeeded" /\ NoProgram.told = "none"
  <2>1. <<>> \in Seq(CallStates) /\ 0 \in 0..(Len(Steps) + 1) BY StepsAssumption
  <2> QED BY <2>1 DEF NoProgram, Programs, CallStates
<1>13. programs \in [Children -> Programs] /\ \A c \in Children : programs[c] = NoProgram BY <1>12 DEF Init
<1>14. Outcomes(runs, programs)
  <2> SUFFICES ASSUME NEW c \in Children PROVE Agrees(runs, programs, c) BY DEF Outcomes
  <2>1. ~Ended(runs, c) /\ runs[c].status # "completed" BY <1>11 DEF Runs, Ended, TerminalStates
  <2> QED BY <1>12, <1>13, <2>1 DEF Agrees
<1>15. task \in [Runs -> Pcs] /\ Tasks(runs, task) BY DEF Init, Pcs, Tasks, Stands
<1>16. Rest BY DEF Init, Rest
<1> QED BY <1>9, <1>13, <1>14, <1>15, <1>16 DEF IndInv, TypeOK, Rest, Table, Rows

LEMMA CoordinateStep == ASSUME IndInv, NEW r \in Runs, Coordinate(r) PROVE IndInv'
BY StopSteps, FailStep, BeginStep, RefuseProgramStep, ResumedStep, ContinueStep, ReenterWaitStep, ExecuteToolProgramStep
   DEF Coordinate

LEMMA AnswerStep == ASSUME IndInv, NEW r \in Runs, Answer(r) PROVE IndInv'
BY FinalAnswerStep, ModelFailsStep, settleAgentSpawnStep, settleAgentSendStep, settleAgentResultStep,
   settleAgentCancelStep, settleAgentWaitStartStep, settleToolProgramStep
   DEF Answer

LEMMA NextStep == IndInv /\ [Next]_vars => IndInv'
<1> SUFFICES ASSUME IndInv, [Next]_vars PROVE IndInv' OBVIOUS
<1>1. CASE UNCHANGED vars
  <2>1. UNCHANGED <<runs, programs, task, sweep, attempted, host, todo, usable>> BY <1>1 DEF vars
  <2>2. task \in [Runs -> Pcs] /\ Rest BY Facts
  <2>3. Rest' BY <2>1, <2>2 DEF Rest
  <2> QED BY <2>1, <2>2, <2>3, ProcessStep
<1>2. CASE Sweep BY <1>2, SweepStep
<1>3. CASE User BY <1>3, UserSteps
<1>4. CASE Process BY <1>4, ProcessSteps
<1>5. ASSUME NEW r \in Runs,
             \/ Coordinate(r) \/ Answer(r) \/ Discard(r) \/ Throw(r)
             \/ PollWait(r) \/ WaitTimesOut(r)
             \/ Program(r) \/ ToolProgramThrows(r)
      PROVE  IndInv'
  BY <1>5, CoordinateStep, AnswerStep, StopSteps, WaitSteps, SettleToolProgramChildCallStep, AdvanceToolProgramChildStep
     DEF Program
<1> QED BY <1>1, <1>2, <1>3, <1>4, <1>5 DEF Next

\* Every reachable state of the forest satisfies the invariant: rows, tasks and the process are of their
\* types, Runs form trees, and programs and tasks agree with the rows they work on.
THEOREM ForestInvariant == Spec => []IndInv
BY InitStep, NextStep, PTL DEF Spec

\* Every row, program, task and mark of the process has its type, whatever the forest, its user and its
\* exits do.
THEOREM ForestTypes == Spec => []TypeOK
BY ForestInvariant, PTL DEF IndInv

\* Whoever ends a Run ends it above an ended subtree, but for recovery at the start.
THEOREM OrphansOnlyByRecovery == Spec => []OnlyRecoveryOrphans
<1>1. IndInv => OnlyRecoveryOrphans
  <2> SUFFICES ASSUME IndInv, NEW r \in Runs, Live(r), NEW q \in runs[r].above PROVE Live(q) \/ runs[q].interrupted
    BY DEF OnlyRecoveryOrphans
  <2>1. Forest(runs) BY Facts
  <2>2. Alive(runs, r) BY DEF Alive, Live, Exists, Present, Ended
  <2>3. Alive(runs, q) \/ runs[q].interrupted BY <2>1, <2>2 DEF Forest, Orphans
  <2> QED BY <2>3 DEF Alive, Live, Exists, Present, Ended
<1> QED BY <1>1, ForestInvariant, PTL

\* No chain of delegations and messages, however long, hands a Run more than its parent and the root of
\* its tree were given.
THEOREM AuthorityOnlyNarrows == Spec => []AuthorityNarrows
<1>1. IndInv => AuthorityNarrows
  <2> SUFFICES ASSUME IndInv, NEW r \in Runs, Exists(r), runs[r].parent # "none"
               PROVE  /\ runs[r].grant \subseteq runs[runs[r].parent].grant
                      /\ \E q \in runs[r].above : runs[q].parent = "none" /\ runs[r].told \subseteq runs[q].grant
    BY DEF AuthorityNarrows
  <2>1. Forest(runs) BY Facts
  <2>2. Present(runs, r) /\ ~IsRoot(runs, r) BY DEF Exists, Present, IsRoot
  <2> QED BY <2>1, <2>2 DEF Forest, Rules, Told, IsRoot
<1> QED BY <1>1, ForestInvariant, PTL

\* A parent learns what became of its program from a child that has ended with every call settled.
THEOREM ProgramsEnd == Spec => []ProgramsEndWithTheirChild
<1>1. IndInv => ProgramsEndWithTheirChild
  <2> SUFFICES ASSUME IndInv, NEW c \in Children
               PROVE  /\ programs[c].told # "none" => programs[c].told = runs[c].status /\ pendingCalls(c) = {}
                      /\ Exists(c) /\ runs[c].kind = "program" /\ runs[c].status = "completed" =>
                           programs[c].at = Len(Steps) + 1 /\ programs[c].state = "succeeded" /\ pendingCalls(c) = {}
    BY DEF ProgramsEndWithTheirChild
  <2>1. Agrees(runs, programs, c) BY Facts DEF Outcomes
  <2>2. NoneOpen(programs[c]) => pendingCalls(c) = {} BY DEF NoneOpen, pendingCalls
  <2>3. runs[c].status = "completed" => Ended(runs, c) /\ runs[c].status # "cancelled" BY DEF Ended, TerminalStates
  <2> QED BY <2>1, <2>2, <2>3 DEF Agrees, Exists, Present
<1> QED BY <1>1, ForestInvariant, PTL
-----------------------------------------------------------------------------
(* Who asks the model.                                                       *)

\* No Run that was there has a request in flight that it did not have.
Lowers(rs, ss) == \A q \in Runs : Present(rs, q) => ss[q] \in RunRows /\ (ss[q].fresh => rs[q].fresh)

LEMMA LowersSelf == ASSUME NEW rs \in Table PROVE Lowers(rs, rs)
BY DEF Lowers, Table, Rows, Present

LEMMA LowersOn ==
  ASSUME NEW rs, NEW ss, NEW tt, Lowers(rs, ss), Lowers(ss, tt)
  PROVE  Lowers(rs, tt)
BY NoRunIsNoRow DEF Lowers, Present

LEMMA MovedLowers ==
  ASSUME NEW rs, NEW ss, Lowers(rs, ss), NEW M
  PROVE  Lowers(rs, Moved(ss, M))
<1> SUFFICES ASSUME NEW q \in Runs, Present(rs, q)
             PROVE  Moved(ss, M)[q] \in RunRows /\ (Moved(ss, M)[q].fresh => rs[q].fresh)
  BY DEF Lowers
<1> DEFINE f == ss[q].fresh /\ q \notin M
           m == ss[q].moved \/ (ss[q].open = "wait" /\ ss[q].on \cap M # {})
           X == [ss[q] EXCEPT !.fresh = f, !.moved = m]
<1>1. ss[q] \in RunRows /\ (ss[q].fresh => rs[q].fresh) BY DEF Lowers
<1>2. Moved(ss, M)[q] = X BY <1>1, NoRunIsNoRow DEF Moved
<1>3. f \in BOOLEAN /\ m \in BOOLEAN /\ (f => rs[q].fresh) BY <1>1
<1> HIDE DEF f, m
<1>4. X \in RunRows /\ X.fresh = f BY <1>1, <1>3 DEF RunRows
<1> QED BY <1>2, <1>3, <1>4

LEMMA RowLowers ==
  ASSUME NEW rs \in Table, NEW r \in Runs, NEW X \in RunRows, X.fresh => rs[r].fresh \/ ~Present(rs, r)
  PROVE  Lowers(rs, [rs EXCEPT ![r] = X])
<1> DEFINE ss == [rs EXCEPT ![r] = X]
<1>1. Becomes(rs, ss, r, X) BY Updated
<1> HIDE DEF ss
<1>2. Lowers(rs, ss) BY <1>1 DEF Becomes, Lowers, Table, Rows, Present
<1> QED BY <1>2 DEF ss

\* One row is written.
LEMMA RowWritten ==
  ASSUME runs \in Table, NEW r \in Runs, NEW X \in RunRows, X.fresh => runs[r].fresh \/ ~Present(runs, r),
         NEW M, Write([runs EXCEPT ![r] = X], M)
  PROVE  Lowers(runs, runs')
BY RowLowers, MovedLowers DEF Write

\* Two rows are written.
LEMMA RowsWritten ==
  ASSUME runs \in Table, NEW c \in Runs, NEW X \in RunRows, X.fresh => runs[c].fresh \/ ~Present(runs, c),
         NEW rs, Becomes(runs, rs, c, X),
         NEW r \in Runs, NEW Y \in RunRows, Y.fresh => rs[r].fresh,
         NEW ss, Becomes(rs, ss, r, Y), NEW M, Write(ss, M)
  PROVE  Lowers(runs, runs')
<1>1. Lowers(runs, rs) BY DEF Becomes, Lowers, Table, Rows, Present
<1>2. Lowers(rs, ss) BY DEF Becomes, Lowers, Table, Rows, Present
<1>3. Lowers(runs, ss) BY <1>1, <1>2, LowersOn
<1> QED BY <1>3, MovedLowers DEF Write

LEMMA RowsDim ==
  ASSUME NEW row \in RunRows
  PROVE  /\ \A s \in TerminalStates : Terminalized(row, s) \in RunRows /\ ~Terminalized(row, s).fresh
         /\ After(row) \in RunRows /\ ~After(row).fresh
         /\ Waited(row) \in RunRows /\ Waited(row).fresh = row.fresh
         /\ row.inbox > 0 => StartActivation(row) \in RunRows /\ StartActivation(row).fresh = row.fresh
<1>1. ASSUME NEW s \in TerminalStates PROVE Terminalized(row, s) \in RunRows /\ ~Terminalized(row, s).fresh
  <2>1. Terminalized(row, s) \in RunRows BY TerminalizedRow
  <2>2. ~Terminalized(row, s).fresh BY DEF Terminalized, RunRows
  <2> QED BY <2>1, <2>2
<1>2. After(row) \in RunRows /\ ~After(row).fresh
  <2>1. After(row) \in RunRows BY AfterRow
  <2> QED BY <2>1 DEF After, RunRows
<1>3. Waited(row) \in RunRows /\ Waited(row).fresh = row.fresh BY DEF Waited, RunRows, OpenWork
<1>4. ASSUME row.inbox > 0 PROVE StartActivation(row) \in RunRows /\ StartActivation(row).fresh = row.fresh
  <2>1. StartActivation(row) \in RunRows BY <1>4, StartedRow
  <2> QED BY <2>1 DEF StartActivation, RunRows
<1> QED BY <1>1, <1>2, <1>3, <1>4

\* A request is made by the Run whose task it is, with nothing paused above it.
Asks(r) == /\ \A q \in Runs : q # r /\ Present(runs, q) /\ runs'[q].fresh => runs[q].fresh
           /\ Present(runs, r) /\ Unpaused(runs, r)
Quiet == Lowers(runs, runs')

LEMMA AttemptAsks ==
  ASSUME NEW r \in Runs, NEW ss \in Table, Lowers(runs, ss), Attempt(ss, r), Present(runs, r), Unpaused(runs, r)
  PROVE  Asks(r)
<1> DEFINE tt == Moved(ss, {r})
<1>1. Lowers(runs, tt) BY MovedLowers
<1>0. tt \in Table BY MovedRows
<1>2. \A q \in Runs : q # r => runs'[q] = tt[q] BY <1>0 DEF Attempt, Table
<1> HIDE DEF tt
<1> QED BY <1>1, <1>2 DEF Asks, Lowers

LEMMA BeginAsks == ASSUME IndInv, NEW r \in Runs, Begin(r) PROVE Quiet \/ Asks(r)
<1> DEFINE X == StartActivation(runs[r])
           ss == [runs EXCEPT ![r] = X]
<1>1. Present(runs, r) /\ Unpaused(runs, r) /\ runs \in Table /\ runs[r] \in RunRows BY Looks DEF Begin
<1>2. X \in RunRows /\ X.fresh = runs[r].fresh BY <1>1, RowsDim DEF Begin
<1>3. Attempt(ss, r) \/ Write(ss, {r}) BY DEF Begin
<1> HIDE DEF X
<1>4. Lowers(runs, ss) BY <1>1, <1>2, RowLowers
<1>5. Becomes(runs, ss, r, X) BY <1>1, <1>2, Updated
<1>6. ss \in Table BY <1>5 DEF Becomes
<1> HIDE DEF ss
<1>7. CASE Attempt(ss, r) BY <1>1, <1>4, <1>6, <1>7, AttemptAsks
<1>8. CASE Write(ss, {r}) BY <1>4, <1>8, MovedLowers DEF Write, Quiet
<1> QED BY <1>3, <1>7, <1>8

LEMMA ContinueAsks == ASSUME IndInv, NEW r \in Runs, Continue(r) PROVE Quiet \/ Asks(r)
<1> DEFINE X == [runs[r] EXCEPT !.active = FALSE]
<1>1. Present(runs, r) /\ Unpaused(runs, r) /\ runs \in Table /\ runs[r] \in RunRows BY Past DEF Continue
<1>2. X \in RunRows /\ X.fresh = runs[r].fresh BY <1>1 DEF RunRows
<1>3. Lowers(runs, runs) BY <1>1, LowersSelf
<1>4. UNCHANGED runs \/ Write([runs EXCEPT ![r] = X], {r}) \/ Attempt(runs, r) BY DEF Continue
<1> HIDE DEF X
<1>5. CASE UNCHANGED runs BY <1>3, <1>5 DEF Quiet
<1>6. CASE Write([runs EXCEPT ![r] = X], {r}) BY <1>1, <1>2, <1>6, RowWritten DEF Quiet
<1>7. CASE Attempt(runs, r) BY <1>1, <1>3, <1>7, AttemptAsks
<1> QED BY <1>4, <1>5, <1>6, <1>7

LEMMA RestingSteps ==
  ASSUME IndInv, NEW r \in Runs,
         \/ Defer(r) \/ Discard(r) \/ Throw(r) \/ ToolProgramThrows(r) \/ ReenterWait(r) \/ Resumed(r)
         \/ RefuseProgram(r) \/ SettleToolProgramChildCall(r) \/ reconcileInterruptedRun(r)
  PROVE  Quiet
<1>1. Lowers(runs, runs) BY Facts, LowersSelf
<1>2. CASE RefuseProgram(r)
  <2>1. PICK moving \in {{}, {r}} : Write(runs, moving) BY <1>2 DEF RefuseProgram
  <2> QED BY <1>1, <2>1, MovedLowers DEF Write, Quiet
<1>3. CASE UNCHANGED runs BY <1>1, <1>3 DEF Quiet
<1> QED BY <1>2, <1>3
    DEF Defer, Discard, Throw, ToolProgramThrows, ReenterWait, Resumed, SettleToolProgramChildCall, reconcileInterruptedRun

LEMMA FailQuiet == ASSUME IndInv, NEW r \in Runs, Fail(r) PROVE Quiet
<1> DEFINE Y == Terminalized(runs[r], "failed")
           X == [Y EXCEPT !.open = "none"]
<1>1. runs \in Table /\ runs[r] \in RunRows BY Looks DEF Fail
<1>2. Y \in RunRows /\ ~Y.fresh BY <1>1, RowsDim DEF TerminalStates
<1>3. Write([runs EXCEPT ![r] = X], {r}) \/ UNCHANGED runs BY DEF Fail
<1> HIDE DEF Y
<1>4. X \in RunRows /\ ~X.fresh BY <1>2 DEF RunRows, OpenWork
<1> HIDE DEF X
<1>5. CASE Write([runs EXCEPT ![r] = X], {r}) BY <1>1, <1>4, <1>5, RowWritten DEF Quiet
<1>6. CASE UNCHANGED runs BY <1>1, <1>6, LowersSelf DEF Quiet
<1> QED BY <1>3, <1>5, <1>6

LEMMA FinalAnswerQuiet == ASSUME IndInv, NEW r \in Runs, FinalAnswer(r) PROVE Quiet
<1>1. runs \in Table /\ runs[r] \in RunRows BY Past DEF FinalAnswer, Thinking
<1>2. CASE Write([runs EXCEPT ![r].open = "none", ![r].active = FALSE], {r})
  <2> DEFINE X == [runs[r] EXCEPT !.open = "none", !.active = FALSE]
  <2>1. [runs EXCEPT ![r].open = "none", ![r].active = FALSE] = [runs EXCEPT ![r] = X] BY <1>1 DEF Table
  <2>2. X \in RunRows /\ X.fresh = runs[r].fresh BY <1>1 DEF RunRows, OpenWork
  <2> HIDE DEF X
  <2> QED BY <1>1, <1>2, <2>1, <2>2, RowWritten DEF Quiet
<1>3. CASE \E s \in {"completed", "blocked"} : Write([runs EXCEPT ![r] = Terminalized(@, s)], {r})
  <2>1. PICK s \in {"completed", "blocked"} : Write([runs EXCEPT ![r] = Terminalized(@, s)], {r}) BY <1>3
  <2>2. s \in TerminalStates BY DEF TerminalStates
  <2> DEFINE X == Terminalized(runs[r], s)
  <2>3. X \in RunRows /\ ~X.fresh BY <1>1, <2>2, RowsDim
  <2>4. Write([runs EXCEPT ![r] = X], {r}) BY <2>1
  <2> HIDE DEF X
  <2> QED BY <1>1, <2>3, <2>4, RowWritten DEF Quiet
<1> QED BY <1>2, <1>3 DEF FinalAnswer

LEMMA ModelFailsQuiet == ASSUME IndInv, NEW r \in Runs, ModelFails(r) PROVE Quiet
<1> DEFINE X == [runs[r] EXCEPT !.open = "failed", !.fresh = FALSE]
<1>1. runs \in Table /\ runs[r] \in RunRows BY Past DEF ModelFails, Settleable, Thinking
<1>2. [runs EXCEPT ![r].open = "failed", ![r].fresh = FALSE] = [runs EXCEPT ![r] = X] BY <1>1 DEF Table
<1>3. X \in RunRows /\ ~X.fresh BY <1>1 DEF RunRows, OpenWork
<1> HIDE DEF X
<1> QED BY <1>1, <1>2, <1>3, RowWritten DEF Quiet, ModelFails

LEMMA CallsQuiet ==
  ASSUME IndInv, NEW r \in Runs, settleAgentResult(r) \/ settleAgentWaitStart(r) \/ PollWait(r) \/ WaitTimesOut(r)
  PROVE  Quiet
<1>1. runs \in Table /\ runs[r] \in RunRows
  BY Past DEF settleAgentResult, settleAgentWaitStart, PollWait, WaitTimesOut, Called, Settleable, Thinking
<1>2. CASE settleAgentResult(r)
  <2> DEFINE X == After(runs[r])
  <2>1. Write([runs EXCEPT ![r] = X], {r}) BY <1>2 DEF settleAgentResult
  <2>2. X \in RunRows /\ ~X.fresh BY <1>1, RowsDim
  <2> HIDE DEF X
  <2> QED BY <1>1, <2>1, <2>2, RowWritten DEF Quiet
<1>3. CASE settleAgentWaitStart(r)
  <2>1. PICK S \in SUBSET Under(r) \ {{}}, u \in {"any", "all", "change"} :
          Write([runs EXCEPT ![r] = [After(@) EXCEPT !.open = "wait", !.on = S, !.until = u, !.moved = FALSE]], {r})
    BY <1>3 DEF settleAgentWaitStart
  <2> DEFINE Y == After(runs[r])
             X == [Y EXCEPT !.open = "wait", !.on = S, !.until = u, !.moved = FALSE]
  <2>2. Write([runs EXCEPT ![r] = X], {r}) BY <2>1
  <2>3. Y \in RunRows /\ ~Y.fresh BY <1>1, RowsDim
  <2> HIDE DEF Y
  <2>4. S \subseteq Runs BY <2>1 DEF Under
  <2>5. X \in RunRows /\ ~X.fresh BY <2>3, <2>4 DEF RunRows, OpenWork
  <2> HIDE DEF X
  <2> QED BY <1>1, <2>2, <2>5, RowWritten DEF Quiet
<1>4. CASE settleAgentWait(r)
  <2> DEFINE X == Waited(runs[r])
  <2>1. Write([runs EXCEPT ![r] = X], {r}) BY <1>4 DEF settleAgentWait
  <2>2. X \in RunRows /\ X.fresh = runs[r].fresh BY <1>1, RowsDim
  <2> HIDE DEF X
  <2> QED BY <1>1, <2>1, <2>2, RowWritten DEF Quiet
<1>5. CASE UNCHANGED runs BY <1>1, <1>5, LowersSelf DEF Quiet
<1> QED BY <1>2, <1>3, <1>4, <1>5 DEF PollWait, WaitTimesOut
LEMMA settleAgentSpawnQuiet == ASSUME IndInv, NEW r \in Runs, settleAgentSpawn(r) PROVE Quiet
<1>1. runs \in Table /\ Present(runs, r) /\ runs[r] \in RunRows
  BY Past DEF settleAgentSpawn, Called, Settleable, Thinking
<1>2. PICK c \in Unused(Children), g \in SUBSET Rights :
        /\ assertNarrowing(r, g)
        /\ Write(delegateChildRun([runs EXCEPT ![r] = After(@)], r, c, "agent", g), {r})
  BY DEF settleAgentSpawn
<1>3. c \in Runs /\ ~Present(runs, c) BY UnusedRun DEF Runs
<1> DEFINE Y == After(runs[r])
           A == Accepted("agent", r, {r} \cup runs[r].above, g)
           rs == [runs EXCEPT ![r] = Y]
           ss == [rs EXCEPT ![c] = A]
<1>4. Write(ss, {r}) BY <1>2 DEF delegateChildRun
<1>5. Y \in RunRows /\ ~Y.fresh BY <1>1, RowsDim
<1> HIDE DEF A, Y
<1>6. Lowers(runs, rs) BY <1>1, <1>5, RowLowers
<1>7. \A q \in Runs : q # c => ss[q] = rs[q] BY <1>1 DEF Table
<1> HIDE DEF ss, rs
<1>8. Lowers(runs, ss) BY <1>3, <1>6, <1>7 DEF Lowers
<1> QED BY <1>4, <1>8, MovedLowers DEF Write, Quiet

LEMMA settleToolProgramQuiet == ASSUME IndInv, NEW r \in Runs, settleToolProgram(r) PROVE Quiet
<1>1. runs \in Table /\ Present(runs, r) /\ runs[r] \in RunRows
  BY Past DEF settleToolProgram, Called, Settleable, Thinking
<1>2. PICK c \in Unused(Children) :
        Write([delegateToolProgramChild(r, c) EXCEPT ![r] = [After(@) EXCEPT !.open = "program", !.on = {c}]], {r})
  BY DEF settleToolProgram
<1>3. c \in Runs /\ ~Present(runs, c) /\ c # r BY <1>1, UnusedRun DEF Runs
<1> DEFINE Y == After(runs[r])
           Z == [Y EXCEPT !.open = "program", !.on = {c}]
           A == Accepted("program", r, {r} \cup runs[r].above, Uses)
           rs == [runs EXCEPT ![c] = A]
           ss == [rs EXCEPT ![r] = Z]
<1>4. Write(ss, {r})
  <2>1. rs[r] = runs[r] BY <1>3
  <2> HIDE DEF A
  <2>2. Write([rs EXCEPT ![r] = [After(@) EXCEPT !.open = "program", !.on = {c}]], {r})
    BY <1>2 DEF delegateToolProgramChild, delegateChildRun, A
  <2> HIDE DEF rs
  <2> QED BY <2>1, <2>2
<1>5. Y \in RunRows /\ ~Y.fresh BY <1>1, RowsDim
<1> HIDE DEF A, Y
<1>6. Z \in RunRows /\ ~Z.fresh BY <1>3, <1>5 DEF RunRows, OpenWork
<1> HIDE DEF Z
<1>7. ss[r] = Z /\ \A q \in Runs : q # c /\ q # r => ss[q] = runs[q] BY <1>1 DEF Table
<1> HIDE DEF ss, rs
<1>8. Lowers(runs, ss) BY <1>1, <1>3, <1>6, <1>7, LowersSelf DEF Lowers
<1> QED BY <1>4, <1>8, MovedLowers DEF Write, Quiet

LEMMA settleAgentSendQuiet == ASSUME IndInv, NEW r \in Runs, settleAgentSend(r) PROVE Quiet
<1>1. runs \in Table /\ Forest(runs) /\ Present(runs, r) /\ runs[r] \in RunRows
  BY Past DEF settleAgentSend, Called, Settleable, Thinking
<1>2. PICK c \in Under(r), g \in SUBSET Topics :
        /\ Live(c) /\ runs[c].inbox < MaxInbox
        /\ Write([runs EXCEPT ![r] = After(@), ![c] = Sent(@, g)], {r, c})
  BY DEF settleAgentSend
<1>3. c \in Runs /\ Present(runs, c) /\ r \in runs[c].above BY <1>2 DEF Under, Live, Exists, Present
<1>4. c # r BY <1>1, <1>3 DEF Forest, Tree
<1>5. runs[c] \in RunRows /\ g \subseteq Rights BY <1>1, <1>3, TreeAssumption DEF Table, Rows, Present
<1> DEFINE Y == After(runs[r])
           X == Sent(runs[c], g)
           ss == [runs EXCEPT ![r] = After(@), ![c] = Sent(@, g)]
<1>6. Write(ss, {r, c}) BY <1>2
<1>7. Y \in RunRows /\ ~Y.fresh BY <1>1, RowsDim
<1>8. X \in RunRows /\ X.fresh = runs[c].fresh
  <2>1. runs[c].inbox + 1 \in 0..MaxInbox BY <1>2, <1>5, RowFields, TreeAssumption
  <2>2. runs[c].told \cup g \subseteq Rights BY <1>5, RowFields
  <2> QED BY <1>5, <2>1, <2>2 DEF RunRows, Sent
<1>9. ss[r] = Y /\ ss[c] = X /\ \A q \in Runs : q # r /\ q # c => ss[q] = runs[q]
  BY <1>1, <1>3, <1>4 DEF Table
<1> HIDE DEF X, Y, ss
<1>10. Lowers(runs, ss) BY <1>1, <1>7, <1>8, <1>9, LowersSelf DEF Lowers
<1> QED BY <1>6, <1>10, MovedLowers DEF Write, Quiet

LEMMA CancelLowers == ASSUME IndInv, NEW c \in Runs PROVE Lowers(runs, cancelSubtree(c))
<1> SUFFICES ASSUME NEW q \in Runs, Present(runs, q)
             PROVE  cancelSubtree(c)[q] \in RunRows /\ (cancelSubtree(c)[q].fresh => runs[q].fresh)
  BY DEF Lowers
<1>1. runs[q] \in RunRows BY Facts DEF Table, Rows, Present
<1>2. Terminalized(runs[q], "cancelled") \in RunRows /\ ~Terminalized(runs[q], "cancelled").fresh
  BY <1>1, RowsDim DEF TerminalStates
<1> QED BY <1>1, <1>2 DEF cancelSubtree

LEMMA settleAgentCancelQuiet == ASSUME IndInv, NEW r \in Runs, settleAgentCancel(r) PROVE Quiet
<1>1. PICK c \in Under(r) : Write([cancelSubtree(c) EXCEPT ![r] = After(@)], {r} \cup Reached(c))
  BY DEF settleAgentCancel
<1>2. runs \in Table /\ Present(runs, r) BY Past DEF settleAgentCancel, Called, Settleable, Thinking
<1>3. c \in Runs BY DEF Under
<1> DEFINE rs == cancelSubtree(c)
           Y == After(rs[r])
           ss == [rs EXCEPT ![r] = Y]
<1>4. Lowers(runs, rs) /\ rs \in Table BY <1>3, CancelLowers, CancelRows
<1>5. Write(ss, {r} \cup Reached(c)) BY <1>1
<1> HIDE DEF rs
<1>6. rs[r] \in RunRows BY <1>2, <1>4 DEF Lowers
<1>7. Y \in RunRows /\ ~Y.fresh BY <1>6, RowsDim
<1> HIDE DEF Y
<1>8. Lowers(rs, ss) BY <1>4, <1>7, RowLowers
<1> HIDE DEF ss
<1>9. Lowers(runs, ss) BY <1>4, <1>8, LowersOn
<1> QED BY <1>5, <1>9, MovedLowers DEF Write, Quiet

LEMMA settleParentQuiet ==
  ASSUME IndInv, NEW r \in Runs, Present(runs, r), NEW c, settleToolProgramParent(r, c)
  PROVE  Quiet
<1> DEFINE X == [runs[r] EXCEPT !.open = "none", !.on = {}]
<1>1. runs \in Table /\ runs[r] \in RunRows BY Facts DEF Table, Rows, Present
<1>2. Write([runs EXCEPT ![r].open = "none", ![r].on = {}], {r}) BY DEF settleToolProgramParent
<1>3. [runs EXCEPT ![r].open = "none", ![r].on = {}] = [runs EXCEPT ![r] = X] BY <1>1 DEF Table
<1>4. X \in RunRows /\ X.fresh = runs[r].fresh BY <1>1 DEF RunRows, OpenWork
<1> HIDE DEF X
<1> QED BY <1>1, <1>2, <1>3, <1>4, RowWritten DEF Quiet

LEMMA ExecuteToolProgramQuiet == ASSUME IndInv, NEW r \in Runs, ExecuteToolProgram(r) PROVE Quiet
<1> DEFINE c == programOf(r)
           X == StartActivation(runs[c])
<1>1. Present(runs, r) /\ runs[r].open = "program" /\ runs \in Table BY Looks DEF ExecuteToolProgram
<1>2. c \in Runs /\ Present(runs, c) /\ Carries(runs[c]) BY <1>1, TheProgram
<1>3. CASE settleToolProgramParent(r, c) BY <1>1, <1>3, settleParentQuiet
<1>4. CASE UNCHANGED runs BY <1>1, <1>4, LowersSelf DEF Quiet
<1>5. CASE ~Terminal(c) /\ ~runs[c].active /\ Write([runs EXCEPT ![c] = StartActivation(@)], {c})
  <2>1. Write([runs EXCEPT ![c] = X], {c}) BY <1>5
  <2>2. runs[c] \in RunRows /\ runs[c].inbox > 0
    BY <1>1, <1>2, <1>5 DEF Terminal, Exists, Present, Carries, Table, Rows
  <2>3. X \in RunRows /\ X.fresh = runs[c].fresh BY <2>2, RowsDim
  <2> HIDE DEF X, c
  <2> QED BY <1>1, <1>2, <2>1, <2>3, RowWritten DEF Quiet
<1> QED BY <1>3, <1>4, <1>5 DEF ExecuteToolProgram

LEMMA AdvanceToolProgramChildQuiet == ASSUME IndInv, NEW r \in Runs, AdvanceToolProgramChild(r) PROVE Quiet
<1> DEFINE c == programOf(r)
<1>1. Executing(r) BY DEF AdvanceToolProgramChild
<1>2. /\ Present(runs, r) /\ runs \in Table /\ c \in Children /\ c \in Runs /\ runs[c] \in RunRows /\ Carries(runs[c])
      /\ programs[c] \in Programs /\ Agrees(runs, programs, c)
  BY <1>1, Executor
<1>3. CASE settleToolProgramParent(r, c) BY <1>2, <1>3, settleParentQuiet
<1>4. CASE UNCHANGED runs BY <1>2, <1>4, LowersSelf DEF Quiet
<1>5. CASE ~Terminal(c) /\ runs[c].status = "running" /\ advanceStep(c)
  <2> HIDE DEF c
  <2>1. Write(runs, {c}) \/ \E s \in TerminalStates : Write([runs EXCEPT ![c] = Terminalized(@, s)], {c})
    <3>1. ASSUME NEW state \in {"succeeded", "blocked", "failed", "cancelled"}
          PROVE  ChildBecomes[state] \in TerminalStates
      BY DEF ChildBecomes, TerminalStates
    <3>2. stepState(c) \in {"succeeded", "blocked", "failed", "cancelled"}
      <4> DEFINE S == {programs[c].state} \cup States(programs[c].calls)
      <4>1. pendingCalls(c) = {}
        BY <1>2, <1>5 DEF AdvanceToolProgramChild, isRunActivationActive, Carries, c
      <4>2. programs[c].state # "open" BY <1>2 DEF Agrees
      <4>3. programs[c].state \in CallStates /\ programs[c].calls \in Seq(CallStates) BY <1>2 DEF Programs
      <4>4. S \subseteq {"succeeded", "blocked", "failed", "cancelled"}
        BY <4>1, <4>2, <4>3 DEF CallStates, pendingCalls, States
      <4> HIDE DEF S
      <4>5. S # {} BY DEF S
      <4>6. Worst(S) \in S BY <4>4, <4>5, WorstIsOne
      <4> QED BY <4>4, <4>6 DEF stepState, S
    <3>3. CASE terminalizeToolProgramChild(c, "cancelled") \/ terminalizeToolProgramChild(c, "failed")
               \/ terminalizeToolProgramChild(c, stepState(c))
      BY <3>1, <3>2, <3>3 DEF terminalizeToolProgramChild
    <3>4. CASE Write(runs, {c}) BY <3>4
    <3> QED BY <1>5, <3>3, <3>4 DEF advanceStep, failValidation, prepareCalls
  <2>2. CASE Write(runs, {c}) BY <1>2, <2>2, LowersSelf, MovedLowers DEF Write, Quiet
  <2>3. CASE \E s \in TerminalStates : Write([runs EXCEPT ![c] = Terminalized(@, s)], {c})
    <3>1. PICK s \in TerminalStates : Write([runs EXCEPT ![c] = Terminalized(@, s)], {c}) BY <2>3
    <3> DEFINE X == Terminalized(runs[c], s)
    <3>2. X \in RunRows /\ ~X.fresh BY <1>2, RowsDim
    <3>3. Write([runs EXCEPT ![c] = X], {c}) BY <3>1
    <3> HIDE DEF X
    <3> QED BY <1>2, <3>2, <3>3, RowWritten DEF Quiet
  <2> QED BY <2>1, <2>2, <2>3
<1> QED BY <1>3, <1>4, <1>5 DEF AdvanceToolProgramChild

LEMMA UserQuiet == ASSUME IndInv, User PROVE Quiet
<1>1. runs \in Table BY Facts
<1>2. CASE acceptRootRun
  <2>1. PICK q \in Unused(Roots) : Write([runs EXCEPT ![q] = Accepted("root", "none", {}, Rights)], {})
    BY <1>2 DEF acceptRootRun
  <2> DEFINE X == Accepted("root", "none", {}, Rights)
  <2>2. q \in Runs /\ ~Present(runs, q) BY UnusedRun DEF Runs
  <2>3. X \in RunRows BY <1>1, <2>2, RootRow
  <2> HIDE DEF X
  <2> QED BY <1>1, <2>1, <2>2, <2>3, RowWritten DEF Quiet, X
<1>3. CASE Retract BY <1>1, <1>3, LowersSelf DEF Retract, Quiet
<1>4. ASSUME NEW r \in Runs, enqueueFollowup(r) PROVE Quiet
  <2> DEFINE X == [runs[r] EXCEPT !.inbox = runs[r].inbox + 1]
  <2>1. runs[r] \in RunRows /\ runs[r].inbox < MaxInbox
    BY <1>1, <1>4 DEF enqueueFollowup, Live, Exists, Table, Rows
  <2>2. [runs EXCEPT ![r].inbox = @ + 1] = [runs EXCEPT ![r] = X] BY <1>1 DEF Table
  <2>3. X \in RunRows /\ X.fresh = runs[r].fresh
    <3>1. runs[r].inbox + 1 \in 0..MaxInbox BY <2>1, RowFields, TreeAssumption
    <3> QED BY <2>1, <3>1 DEF RunRows
  <2>4. Write([runs EXCEPT ![r] = X], {r}) BY <1>4, <2>2 DEF enqueueFollowup
  <2> HIDE DEF X
  <2> QED BY <1>1, <2>3, <2>4, RowWritten DEF Quiet
<1>5. ASSUME NEW r \in Runs, Cancel(r) PROVE Quiet
  BY <1>5, CancelLowers, MovedLowers DEF Cancel, Control, Write, Quiet
<1>6. ASSUME NEW r \in Runs, Pause(r) PROVE Quiet
  <2>1. Lowers(runs, pauseSubtree(r))
    <3> SUFFICES ASSUME NEW q \in Runs, Present(runs, q)
                 PROVE  pauseSubtree(r)[q] \in RunRows /\ (pauseSubtree(r)[q].fresh => runs[q].fresh)
      BY DEF Lowers
    <3>1. runs[q] \in RunRows BY <1>1 DEF Table, Rows, Present
    <3> DEFINE o == IF runs[q].open = "attempt" THEN "none" ELSE runs[q].open
               X == [runs[q] EXCEPT !.open = o, !.fresh = FALSE, !.status = "paused"]
    <3>2. pauseSubtree(r)[q] = runs[q] \/ pauseSubtree(r)[q] = X BY <3>1 DEF pauseSubtree, Settled, RunRows
    <3>3. o \in OpenWork BY <3>1, RowFields DEF OpenWork
    <3> HIDE DEF o
    <3>4. X \in RunRows /\ ~X.fresh BY <3>1, <3>3 DEF RunRows, RunStates
    <3> QED BY <3>1, <3>2, <3>4
  <2> QED BY <1>6, <2>1, MovedLowers DEF Pause, Control, Write, Quiet
<1>7. ASSUME NEW r \in Runs, Resume(r) PROVE Quiet
  <2>1. Lowers(runs, resumeSubtree(r))
    <3> SUFFICES ASSUME NEW q \in Runs, Present(runs, q)
                 PROVE  resumeSubtree(r)[q] \in RunRows /\ (resumeSubtree(r)[q].fresh => runs[q].fresh)
      BY DEF Lowers
    <3>1. runs[q] \in RunRows BY <1>1 DEF Table, Rows, Present
    <3>2. resumeSubtree(r)[q] = runs[q] \/ resumeSubtree(r)[q] = [runs[q] EXCEPT !.status = "running"]
      BY DEF resumeSubtree
    <3> QED BY <3>1, <3>2 DEF RunRows, RunStates
  <2> QED BY <1>7, <2>1, MovedLowers DEF Resume, Control, Write, Quiet
<1> QED BY <1>2, <1>3, <1>4, <1>5, <1>6, <1>7 DEF User

LEMMA ProcessQuiet == ASSUME IndInv, Process PROVE Quiet
<1>1. runs \in Table BY Facts
<1>2. CASE UNCHANGED runs BY <1>1, <1>2, LowersSelf DEF Quiet
<1>3. ASSUME NEW r \in Runs, recoverRun(r), closeInterruptedActivation(r), Interrupted(r) PROVE Quiet
  <2> DEFINE Y == Terminalized(runs[r], "blocked")
             X == [Y EXCEPT !.interrupted = TRUE, !.open = "none"]
  <2>1. runs[r] \in RunRows BY <1>1, <1>3 DEF Interrupted, Table, Rows, NoRun
  <2>2. Y \in RunRows /\ ~Y.fresh BY <2>1, RowsDim DEF TerminalStates
  <2>3. Write([runs EXCEPT ![r] = X], {r}) BY <1>3 DEF closeInterruptedActivation
  <2> HIDE DEF Y
  <2>4. X \in RunRows /\ ~X.fresh BY <2>2 DEF RunRows, OpenWork
  <2> HIDE DEF X
  <2> QED BY <1>1, <2>3, <2>4, RowWritten DEF Quiet
<1>4. ASSUME NEW r \in Runs, acceptCrashRetryRootRun(r), recoverySource(r),
             NEW q \in Unused(Roots),
             Write([runs EXCEPT ![q] = [Accepted("root", "none", {}, runs[r].grant) EXCEPT !.retryOf = r]], {})
      PROVE  Quiet
  <2> DEFINE X == [Accepted("root", "none", {}, runs[r].grant) EXCEPT !.retryOf = r]
  <2>1. q \in Runs /\ ~Present(runs, q) BY UnusedRun DEF Runs
  <2>2. runs[r].grant \subseteq Rights BY <1>1, <1>4, RowFields DEF recoverySource, Table, Rows, NoRun
  <2>3. X \in RunRows BY <1>1, <2>1, <2>2, RootRow
  <2>4. Write([runs EXCEPT ![q] = X], {}) BY <1>4
  <2> HIDE DEF X
  <2> QED BY <1>1, <2>1, <2>3, <2>4, RowWritten DEF Quiet
<1>5. ASSUME NEW r \in Runs, recoverRun(r) PROVE Quiet
  BY <1>2, <1>3, <1>5 DEF recoverRun
<1>6. ASSUME NEW r \in Runs, acceptCrashRetryRootRun(r) PROVE Quiet
  BY <1>2, <1>4, <1>6 DEF acceptCrashRetryRootRun
<1>7. ASSUME NEW r \in Runs, reconcileInterruptedRun(r) PROVE Quiet BY <1>7, RestingSteps
<1> QED BY <1>2, <1>5, <1>6, <1>7 DEF Process, Crash, Restart, Boot, Started

LEMMA NobodyAsksUnderAPause == IndInv /\ [Next]_vars => Quiet \/ \E r \in Runs : Asks(r)
<1> SUFFICES ASSUME IndInv, [Next]_vars PROVE Quiet \/ \E r \in Runs : Asks(r) OBVIOUS
<1>1. CASE UNCHANGED runs BY <1>1, Facts, LowersSelf DEF Quiet
<1>2. CASE User BY <1>2, UserQuiet
<1>3. CASE Process BY <1>3, ProcessQuiet
<1>4. ASSUME NEW r \in Runs,
             \/ Coordinate(r) \/ Answer(r) \/ Discard(r) \/ Throw(r)
             \/ PollWait(r) \/ WaitTimesOut(r)
             \/ Program(r) \/ ToolProgramThrows(r)
      PROVE  Quiet \/ Asks(r)
  <2>1. CASE Coordinate(r)
    BY <2>1, RestingSteps, FailQuiet, BeginAsks, ContinueAsks, ExecuteToolProgramQuiet DEF Coordinate
  <2>2. CASE Answer(r)
    BY <2>2, FinalAnswerQuiet, ModelFailsQuiet, settleAgentSpawnQuiet, settleAgentSendQuiet, CallsQuiet,
       settleAgentCancelQuiet, settleToolProgramQuiet DEF Answer
  <2>3. CASE Program(r) BY <2>3, RestingSteps, AdvanceToolProgramChildQuiet DEF Program
  <2> QED BY <1>4, <2>1, <2>2, <2>3, RestingSteps, CallsQuiet
<1> QED BY <1>1, <1>2, <1>3, <1>4 DEF Next, Sweep, vars

\* No resume, start, message or sweep lets a Run below a paused one ask the model.
THEOREM RestUnderPause == Spec => PausedTreesRest
<1> DEFINE rests == \A r \in Runs : Exists(r) /\ runs'[r].fresh /\ ~runs[r].fresh =>
                      \A q \in runs[r].above : runs[q].status # "paused"
<1>1. IndInv /\ [Next]_vars => rests
  <2> SUFFICES ASSUME IndInv, [Next]_vars, NEW r \in Runs, Exists(r), runs'[r].fresh, ~runs[r].fresh,
                      NEW q \in runs[r].above
               PROVE  runs[q].status # "paused"
    OBVIOUS
  <2>1. Present(runs, r) BY DEF Exists, Present
  <2>2. ~Quiet BY <2>1 DEF Quiet, Lowers
  <2>3. PICK p \in Runs : Asks(p) BY <2>2, NobodyAsksUnderAPause
  <2>4. p = r BY <2>1, <2>3 DEF Asks
  <2> QED BY <2>3, <2>4 DEF Asks, Unpaused
<1>2. Spec => [][rests]_vars BY <1>1, ForestInvariant, PTL DEF Spec
<1> QED BY <1>2 DEF PausedTreesRest
=============================================================================
