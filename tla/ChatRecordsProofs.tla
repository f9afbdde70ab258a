--------------------------- MODULE ChatRecordsProofs ---------------------------
(* Proofs about a Chat and the records of its Run, for any number of Chats,  *)
(* requests, task items and compactions, and pages of any length: what is    *)
(* kept beside the Messages and the journal says what they say, edits keep   *)
(* a TaskList a tree, and a reader of pages is shown each Message once.      *)
EXTENDS ChatRecords, FiniteSetTheorems, SequenceTheorems, TLAPS

-----------------------------------------------------------------------------
(* The inductive invariant                                                    *)

\* The rows of every table have the shapes that their modules declare.
Typed ==
  /\ chats \in [ChatIds -> ChatRows \cup {Absent}] /\ messages \in [ChatIds -> Seq(MessageRows)] /\ walk \in WalkRows
  /\ run \in RunRows \cup {Absent} /\ IsList(journal) /\ IsList(events)
  /\ taskList \in ListRows \cup {Absent}
  /\ transactions \in [TransactionIds -> TransactionRows \cup {Absent}] /\ views \in [ViewIds -> ViewRows \cup {Absent}]

Changes(c) == {i \in DOMAIN events : events[i].subject = c /\ events[i].before >= 0}
ChatsStand ==
  \A c \in ChatIds : IF chats[c] = Absent THEN messages[c] = <<>> /\ Changes(c) = {}
                     ELSE ChatStands(chats[c], messages[c], Cardinality(Changes(c)))

\* Before there is a Run it has said nothing and no record of it is kept.
RunStands ==
  IF run = Absent THEN /\ journal = <<>> /\ taskList = Absent
                       /\ \A c \in ChatIds : Answers(messages[c]) = {}
                       /\ \A t \in TransactionIds : transactions[t] = Absent
                  ELSE chats[run.chat] # Absent /\ RunSaid(run, messages[run.chat], journal)

\* A list that is kept is a tree, whatever became of the Run.
ListStands == TaskListFollowsRun /\ (taskList # Absent => finalizeTaskList(taskList.items))

\* The events that tell of a transaction, in the order of its stages.
Starts(t, a) == journal[a].payload.stage = "started" /\ journal[a].payload.semantics = <<transactions[t].from, transactions[t].to>>
Derives(t, b) == \E v \in ViewIds :
  /\ viewsOf(t) = {v} /\ views[v].cited \subseteq transactions[t].from..transactions[t].to
  /\ journal[b].payload.stage = "view_derived"
  /\ journal[b].payload.semantics = <<transactions[t].from, transactions[t].to, v, views[v].cited>>
Ends(t, d) ==
  /\ transactions[t].state \in {"completed", "interrupted"} /\ journal[d].payload.stage = transactions[t].state
  /\ IF transactions[t].state = "completed" THEN \E v \in ViewIds : viewsOf(t) = {v} /\ journal[d].payload.semantics = <<v>>
     ELSE journal[d].payload.semantics = <<transactions[t].reason>>
Staged(t) ==
  IF transactions[t] = Absent THEN StagesOf(t) = {} /\ viewsOf(t) = {}
  ELSE \E a \in StagesOf(t) : Starts(t, a) /\
         \/ transactions[t].state = "started" /\ StagesOf(t) = {a} /\ viewsOf(t) = {}
         \/ \E b \in StagesOf(t) : a < b /\
              \/ transactions[t].state = "view_derived" /\ StagesOf(t) = {a, b} /\ Derives(t, b)
              \/ transactions[t].state = "interrupted" /\ StagesOf(t) = {a, b} /\ Ends(t, b) /\ viewsOf(t) = {}
              \/ \E d \in StagesOf(t) : b < d /\ StagesOf(t) = {a, b, d} /\ Derives(t, b) /\ Ends(t, d)
CompactionsStand == \A t \in TransactionIds : Staged(t)

\* The reader has seen what lies between its cursor and where it began; what it reads next is still there.
WalkStands ==
  walk # NoWalk =>
    /\ walk.chat \in ChatIds /\ walk.top <= Len(messages[walk.chat])
    /\ walk.after <= walk.top /\ (walk.cursor > 0 => walk.after < walk.cursor /\ walk.cursor <= walk.top + 1)
    /\ WalksReadEveryMessageOnce

ChatInv == Typed /\ ChatsStand /\ RunStands /\ ListStands /\ CompactionsStand /\ WalkStands

-----------------------------------------------------------------------------
(* Lemmas about lists and finite sets of positions                           *)

LEMMA Lists ==
  ASSUME NEW S, NEW s \in Seq(S)
  PROVE  IsList(s)
<1>1. \A i \in 1..Len(s) : s[i] \in {s[i_1] : i_1 \in DOMAIN s}
  BY LenProperties
<1>2. s \in [1..Len(s) -> {s[i] : i \in DOMAIN s}] /\ Len(s) \in Nat
  BY <1>1, LenProperties
<1> QED BY <1>2, SeqDef DEF IsList

LEMMA ListShape ==
  ASSUME NEW s, IsList(s)
  PROVE  Len(s) \in Nat /\ DOMAIN s = 1..Len(s) /\ s = [i \in 1..Len(s) |-> s[i]]
<1> DEFINE S == {s[i] : i \in DOMAIN s}
<1>1. s \in Seq(S)
  BY DEF IsList
<1> HIDE DEF S
<1> QED BY <1>1, LenProperties

\* Rows numbered from one are a list.
LEMMA ListOf ==
  ASSUME NEW n \in Nat, NEW s, s = [i \in 1..n |-> s[i]]
  PROVE  IsList(s) /\ Len(s) = n /\ DOMAIN s = 1..n
<1> DEFINE S == {s[i] : i \in DOMAIN s}
<1>1. DOMAIN s = 1..n
  OBVIOUS
<1>2. s \in [1..n -> S]
  <2>1. \A i \in 1..n : s[i] \in S
    BY <1>1
  <2> HIDE DEF S
  <2> QED BY <2>1
<1>3. s \in Seq(S)
  <2> HIDE DEF S
  <2> QED BY <1>2, SeqDef
<1>4. Len(s) = n
  <2> HIDE DEF S
  <2>1. Len(s) \in Nat /\ 1..Len(s) = 1..n
    BY <1>3, <1>1, LenProperties
  <2> QED BY <2>1
<1> QED BY <1>1, <1>3, <1>4 DEF IsList

LEMMA ListJoined ==
  ASSUME NEW s, NEW t, IsList(s), IsList(t)
  PROVE  /\ IsList(s \o t) /\ Len(s \o t) = Len(s) + Len(t)
         /\ \A i \in 1..Len(s) : (s \o t)[i] = s[i]
         /\ \A k \in 1..Len(t) : (s \o t)[Len(s) + k] = t[k]
<1> DEFINE S == {s[i] : i \in DOMAIN s}
           T == {t[i] : i \in DOMAIN t}
<1>1. s \in Seq(S) /\ t \in Seq(T)
  BY DEF IsList
<1> HIDE DEF S, T
<1>2. s \in Seq(S \cup T) /\ t \in Seq(S \cup T)
  BY <1>1, SeqMonotonic
<1>3. Len(s) \in Nat /\ Len(t) \in Nat
  BY <1>1, LenProperties
<1>4. /\ s \o t \in Seq(S \cup T)
      /\ Len(s \o t) = Len(s) + Len(t)
      /\ \A i \in 1..Len(s) + Len(t) : (s \o t)[i] = IF i <= Len(s) THEN s[i] ELSE t[i - Len(s)]
  BY <1>2, ConcatProperties
<1>5. IsList(s \o t)
  BY <1>4, Lists
<1>6. ASSUME NEW k \in 1..Len(t)
      PROVE  (s \o t)[Len(s) + k] = t[k]
  <2>1. Len(s) + k \in 1..Len(s) + Len(t) /\ ~(Len(s) + k <= Len(s)) /\ Len(s) + k - Len(s) = k
    BY <1>3
  <2> QED BY <2>1, <1>4
<1>7. \A i \in 1..Len(s) : (s \o t)[i] = s[i]
  BY <1>3, <1>4
<1> QED BY <1>4, <1>5, <1>6, <1>7

LEMMA ListAppended ==
  ASSUME NEW s, NEW x, IsList(s)
  PROVE  /\ IsList(Append(s, x)) /\ Len(Append(s, x)) = Len(s) + 1
         /\ \A i \in 1..Len(s) : Append(s, x)[i] = s[i]
         /\ Append(s, x)[Len(s) + 1] = x
<1> DEFINE S == {s[i] : i \in DOMAIN s}
<1>1. s \in Seq(S)
  BY DEF IsList
<1> HIDE DEF S
<1>2. s \in Seq(S \cup {x}) /\ x \in S \cup {x} /\ Len(s) \in Nat
  BY <1>1, SeqMonotonic, LenProperties
<1>3. /\ Append(s, x) \in Seq(S \cup {x}) /\ Len(Append(s, x)) = Len(s) + 1
      /\ \A i \in 1..Len(s) : Append(s, x)[i] = s[i]
      /\ Append(s, x)[Len(s) + 1] = x
  BY <1>2, AppendProperties
<1> QED BY <1>3, Lists

LEMMA Single ==
  ASSUME NEW x
  PROVE  IsList(<<x>>) /\ Len(<<x>>) = 1 /\ <<x>>[1] = x
<1>1. <<x>> \in Seq({x}) /\ Len(<<x>>) = 1 /\ <<x>>[1] = x
  OBVIOUS
<1> QED BY <1>1, Lists

LEMMA Two ==
  ASSUME NEW x, NEW y
  PROVE  IsList(<<x, y>>) /\ Len(<<x, y>>) = 2 /\ <<x, y>>[1] = x /\ <<x, y>>[2] = y
<1>1. <<x, y>> \in Seq({x, y}) /\ Len(<<x, y>>) = 2 /\ <<x, y>>[1] = x /\ <<x, y>>[2] = y
  OBVIOUS
<1> QED BY <1>1, Lists

LEMMA Nothing == IsList(<<>>) /\ Len(<<>>) = 0 /\ DOMAIN <<>> = {}
<1>1. <<>> \in Seq({}) /\ Len(<<>>) = 0
  BY EmptySeq
<1>2. DOMAIN <<>> = {}
  OBVIOUS
<1> QED BY <1>1, <1>2, Lists

\* Positions of a list are finitely many, and one more is counted as one more.
LEMMA Positions ==
  ASSUME NEW s, IsList(s), NEW P \in SUBSET DOMAIN s
  PROVE  IsFiniteSet(P) /\ Cardinality(P) \in Nat
<1>1. IsFiniteSet(1..Len(s))
  <2>1. 1 \in Int /\ Len(s) \in Int
    BY ListShape
  <2> QED BY <2>1, FS_Interval
<1>2. P \in SUBSET (1..Len(s))
  BY ListShape
<1> QED BY <1>1, <1>2, FS_Subset, FS_CardinalityType

LEMMA OneMore ==
  ASSUME NEW P, IsFiniteSet(P), NEW x, x \notin P
  PROVE  IsFiniteSet(P \cup {x}) /\ Cardinality(P \cup {x}) = Cardinality(P) + 1
BY FS_AddElement

-----------------------------------------------------------------------------
(* What a batch adds to the journal                                          *)

\* The payloads of a type in a batch.
Kinds(payloads, type) == {k \in DOMAIN payloads : payloads[k].type = type}

LEMMA Batch ==
  ASSUME IsList(journal), NEW command, NEW payloads, IsList(payloads), appendRunEventBatch(command, payloads)
  PROVE  /\ IsList(journal') /\ Len(journal') = Len(journal) + Len(payloads)
         /\ \A i \in 1..Len(journal) : journal'[i] = journal[i]
         /\ \A k \in 1..Len(payloads) : journal'[Len(journal) + k].payload = payloads[k]
<1> DEFINE rows == [i \in DOMAIN payloads |-> [command |-> command, payload |-> payloads[i]]]
<1>1. Len(payloads) \in Nat /\ DOMAIN payloads = 1..Len(payloads)
  BY ListShape
<1>2. rows = [i \in 1..Len(payloads) |-> rows[i]]
  BY <1>1
<1>3. IsList(rows) /\ Len(rows) = Len(payloads)
  <2> HIDE DEF rows
  <2> QED BY <1>1, <1>2, ListOf
<1>4. journal' = journal \o rows
  BY DEF appendRunEventBatch
<1>5. \A k \in 1..Len(payloads) : rows[k].payload = payloads[k]
  BY <1>1
<1> HIDE DEF rows
<1>6. /\ IsList(journal \o rows) /\ Len(journal \o rows) = Len(journal) + Len(rows)
      /\ \A i \in 1..Len(journal) : (journal \o rows)[i] = journal[i]
      /\ \A k \in 1..Len(rows) : (journal \o rows)[Len(journal) + k] = rows[k]
  BY <1>3, ListJoined
<1> QED BY <1>3, <1>4, <1>5, <1>6

\* What was told stays told, and the batch tells its payloads behind it.
LEMMA TellsMore ==
  ASSUME IsList(journal), NEW command, NEW payloads, IsList(payloads), appendRunEventBatch(command, payloads), NEW type
  PROVE  /\ Told(journal', type) = Told(journal, type) \cup {Len(journal) + k : k \in Kinds(payloads, type)}
         /\ \A i \in Told(journal, type) : journal'[i] = journal[i] /\ i <= Len(journal) /\ i \in Nat
         /\ \A k \in Kinds(payloads, type) :
              journal'[Len(journal) + k].payload = payloads[k] /\ Len(journal) + k > Len(journal)
<1>1. /\ IsList(journal') /\ Len(journal') = Len(journal) + Len(payloads)
      /\ \A i \in 1..Len(journal) : journal'[i] = journal[i]
      /\ \A k \in 1..Len(payloads) : journal'[Len(journal) + k].payload = payloads[k]
  BY Batch
<1>2. /\ Len(journal) \in Nat /\ DOMAIN journal = 1..Len(journal)
      /\ Len(payloads) \in Nat /\ DOMAIN payloads = 1..Len(payloads)
      /\ DOMAIN journal' = 1..Len(journal')
  BY <1>1, ListShape
<1>3. DOMAIN journal' = 1..Len(journal) \cup {Len(journal) + k : k \in 1..Len(payloads)}
  <2>1. \A i \in 1..Len(journal') : i \in 1..Len(journal) \/ (i - Len(journal) \in 1..Len(payloads) /\ i = Len(journal) + (i - Len(journal)))
    BY <1>1, <1>2
  <2>2. \A k \in 1..Len(payloads) : Len(journal) + k \in 1..Len(journal')
    BY <1>1, <1>2
  <2>3. 1..Len(journal) \subseteq 1..Len(journal')
    BY <1>1, <1>2
  <2>4. DOMAIN journal' = 1..Len(journal')
    BY <1>2
  <2> QED BY <2>1, <2>2, <2>3, <2>4
<1>4. ASSUME NEW i \in Told(journal', type)
      PROVE  i \in Told(journal, type) \cup {Len(journal) + k : k \in Kinds(payloads, type)}
  <2>1. CASE i \in 1..Len(journal)
    BY <2>1, <1>1, <1>2 DEF Told
  <2>2. CASE \E k \in 1..Len(payloads) : i = Len(journal) + k
    BY <2>2, <1>1, <1>2 DEF Told, Kinds
  <2> QED BY <1>3, <2>1, <2>2 DEF Told
<1>5. Told(journal, type) \subseteq Told(journal', type)
  BY <1>1, <1>2, <1>3 DEF Told
<1>6. ASSUME NEW k \in Kinds(payloads, type)
      PROVE  /\ Len(journal) + k \in Told(journal', type)
             /\ journal'[Len(journal) + k].payload = payloads[k] /\ Len(journal) + k > Len(journal)
  BY <1>1, <1>2, <1>3 DEF Told, Kinds
<1>7. \A i \in Told(journal, type) : journal'[i] = journal[i] /\ i <= Len(journal) /\ i \in Nat
  BY <1>1, <1>2 DEF Told
<1> QED BY <1>4, <1>5, <1>6, <1>7

\* A batch without an event of the type leaves what the journal tells of the type as it was.
LEMMA TellsNoMore ==
  ASSUME IsList(journal), NEW command, NEW payloads, IsList(payloads), appendRunEventBatch(command, payloads), NEW type,
         Kinds(payloads, type) = {}
  PROVE  Told(journal', type) = Told(journal, type) /\ \A i \in Told(journal, type) : journal'[i] = journal[i]
BY TellsMore

\* A batch with one event of the type.
LEMMA TellsOneMore ==
  ASSUME IsList(journal), NEW command, NEW payloads, IsList(payloads), appendRunEventBatch(command, payloads), NEW type,
         NEW k, Kinds(payloads, type) = {k}
  PROVE  \E n \in Nat : /\ n > Len(journal) /\ Told(journal', type) = Told(journal, type) \cup {n}
                        /\ n \notin Told(journal, type) /\ journal'[n].payload = payloads[k]
                        /\ \A i \in Told(journal, type) : journal'[i] = journal[i] /\ i < n /\ i \in Nat
<1>1. k \in DOMAIN payloads /\ Len(journal) \in Nat /\ k \in Nat
  BY ListShape DEF Kinds
<1>2. Len(journal) + k \in Nat
  BY <1>1
<1>3. \A i \in Told(journal, type) : i < Len(journal) + k
  BY TellsMore, <1>1
<1> QED BY TellsMore, <1>1, <1>2, <1>3

\* The batches that the commands of a Run append.
Tells(payloads, changed, said) ==
  /\ IsList(payloads) /\ Kinds(payloads, "compaction") = {}
  /\ IF changed = 0 THEN Kinds(payloads, "task_list_changed") = {}
     ELSE \E k \in Nat : Kinds(payloads, "task_list_changed") = {k} /\ payloads[k].revision = changed
  /\ IF said = 0 THEN Kinds(payloads, "message_ref") = {}
     ELSE \E k \in Nat : Kinds(payloads, "message_ref") = {k} /\ payloads[k].message = said

LEMMA KindsJoined ==
  ASSUME NEW s, NEW t, IsList(s), IsList(t), NEW type
  PROVE  Kinds(s \o t, type) = Kinds(s, type) \cup {Len(s) + k : k \in Kinds(t, type)}
<1>1. /\ IsList(s \o t) /\ Len(s \o t) = Len(s) + Len(t)
      /\ \A i \in 1..Len(s) : (s \o t)[i] = s[i]
      /\ \A k \in 1..Len(t) : (s \o t)[Len(s) + k] = t[k]
  BY ListJoined
<1>2. /\ Len(s) \in Nat /\ DOMAIN s = 1..Len(s) /\ Len(t) \in Nat /\ DOMAIN t = 1..Len(t)
      /\ DOMAIN (s \o t) = 1..Len(s) + Len(t)
  BY <1>1, ListShape
<1>3. \A i \in 1..Len(s) + Len(t) : i \in 1..Len(s) \/ (i - Len(s) \in 1..Len(t) /\ i = Len(s) + (i - Len(s)))
  BY <1>2
<1>4. ASSUME NEW i \in Kinds(s \o t, type)
      PROVE  i \in Kinds(s, type) \cup {Len(s) + k : k \in Kinds(t, type)}
  <2>1. CASE i \in 1..Len(s)
    BY <2>1, <1>1, <1>2 DEF Kinds
  <2>2. CASE \E k \in 1..Len(t) : i = Len(s) + k
    BY <2>2, <1>1, <1>2 DEF Kinds
  <2> QED BY <1>2, <1>3, <2>1, <2>2 DEF Kinds
<1>5. Kinds(s, type) \subseteq Kinds(s \o t, type)
  BY <1>1, <1>2 DEF Kinds
<1>6. ASSUME NEW k \in Kinds(t, type)
      PROVE  Len(s) + k \in Kinds(s \o t, type)
  BY <1>1, <1>2 DEF Kinds
<1> QED BY <1>4, <1>5, <1>6

LEMMA KindsOfOne ==
  ASSUME NEW x, NEW type
  PROVE  Kinds(<<x>>, type) = IF x.type = type THEN {1} ELSE {}
BY DEF Kinds

\* Batches joined tell what each of them tells, when not both tell the same.
LEMMA TellsJoined ==
  ASSUME NEW s, NEW t, NEW a \in Nat, NEW b \in Nat, NEW c \in Nat, NEW d \in Nat,
         Tells(s, a, b), Tells(t, c, d), a = 0 \/ c = 0, b = 0 \/ d = 0
  PROVE  Tells(s \o t, a + c, b + d)
<1>1. /\ IsList(s) /\ IsList(t) /\ IsList(s \o t) /\ Len(s) \in Nat
      /\ \A i \in 1..Len(s) : (s \o t)[i] = s[i]
      /\ \A k \in 1..Len(t) : (s \o t)[Len(s) + k] = t[k]
      /\ DOMAIN s = 1..Len(s) /\ DOMAIN t = 1..Len(t)
  BY ListJoined, ListShape DEF Tells
<1>2. \A type : Kinds(s \o t, type) = Kinds(s, type) \cup {Len(s) + k : k \in Kinds(t, type)}
  BY <1>1, KindsJoined
<1>3. \A type : Kinds(s, type) \subseteq 1..Len(s) /\ Kinds(t, type) \subseteq 1..Len(t)
  BY <1>1 DEF Kinds
<1>4. Kinds(s \o t, "compaction") = {}
  BY <1>2 DEF Tells
<1>5. IF a + c = 0 THEN Kinds(s \o t, "task_list_changed") = {}
      ELSE \E k \in Nat : Kinds(s \o t, "task_list_changed") = {k} /\ (s \o t)[k].revision = a + c
  <2>1. CASE a = 0 /\ c = 0
    BY <2>1, <1>2 DEF Tells
  <2>2. CASE a # 0 /\ c = 0
    <3>1. PICK k \in Nat : Kinds(s, "task_list_changed") = {k} /\ s[k].revision = a
      BY <2>2 DEF Tells
    <3>2. Kinds(t, "task_list_changed") = {}
      BY <2>2 DEF Tells
    <3>3. k \in 1..Len(s)
      BY <3>1, <1>3
    <3> QED BY <2>2, <3>1, <3>2, <3>3, <1>1, <1>2
  <2>3. CASE a = 0 /\ c # 0
    <3>1. PICK k \in Nat : Kinds(t, "task_list_changed") = {k} /\ t[k].revision = c
      BY <2>3 DEF Tells
    <3>2. Kinds(s, "task_list_changed") = {}
      BY <2>3 DEF Tells
    <3>3. k \in 1..Len(t)
      BY <3>1, <1>3
    <3>4. Kinds(s \o t, "task_list_changed") = {Len(s) + k}
      <4>1. Kinds(s \o t, "task_list_changed") = Kinds(s, "task_list_changed") \cup {Len(s) + j : j \in Kinds(t, "task_list_changed")}
        BY <1>2
      <4>2. {Len(s) + j : j \in {k}} = {Len(s) + k}
        OBVIOUS
      <4> QED BY <3>1, <3>2, <4>1, <4>2
    <3>5. (s \o t)[Len(s) + k].revision = c /\ Len(s) + k \in Nat
      BY <3>1, <3>3, <1>1
    <3>6. a + c = c /\ a + c # 0
      BY <2>3
    <3> QED BY <3>4, <3>5, <3>6
  <2> QED BY <2>1, <2>2, <2>3
<1>6. IF b + d = 0 THEN Kinds(s \o t, "message_ref") = {}
      ELSE \E k \in Nat : Kinds(s \o t, "message_ref") = {k} /\ (s \o t)[k].message = b + d
  <2>1. CASE b = 0 /\ d = 0
    BY <2>1, <1>2 DEF Tells
  <2>2. CASE b # 0 /\ d = 0
    <3>1. PICK k \in Nat : Kinds(s, "message_ref") = {k} /\ s[k].message = b
      BY <2>2 DEF Tells
    <3>2. Kinds(t, "message_ref") = {}
      BY <2>2 DEF Tells
    <3>3. k \in 1..Len(s)
      BY <3>1, <1>3
    <3> QED BY <2>2, <3>1, <3>2, <3>3, <1>1, <1>2
  <2>3. CASE b = 0 /\ d # 0
    <3>1. PICK k \in Nat : Kinds(t, "message_ref") = {k} /\ t[k].message = d
      BY <2>3 DEF Tells
    <3>2. Kinds(s, "message_ref") = {}
      BY <2>3 DEF Tells
    <3>3. k \in 1..Len(t)
      BY <3>1, <1>3
    <3>4. Kinds(s \o t, "message_ref") = {Len(s) + k}
      <4>1. Kinds(s \o t, "message_ref") = Kinds(s, "message_ref") \cup {Len(s) + j : j \in Kinds(t, "message_ref")}
        BY <1>2
      <4>2. {Len(s) + j : j \in {k}} = {Len(s) + k}
        OBVIOUS
      <4> QED BY <3>1, <3>2, <4>1, <4>2
    <3>5. (s \o t)[Len(s) + k].message = d /\ Len(s) + k \in Nat
      BY <3>1, <3>3, <1>1
    <3>6. b + d = d /\ b + d # 0
      BY <2>3
    <3> QED BY <3>4, <3>5, <3>6
  <2> QED BY <2>1, <2>2, <2>3
<1> QED BY <1>1, <1>4, <1>5, <1>6 DEF Tells

LEMMA TellsPlain == Tells(<<Plain>>, 0, 0)
BY Single, KindsOfOne DEF Tells, Plain

LEMMA TellsNothing == Tells(<<>>, 0, 0)
BY Nothing DEF Tells, Kinds

\* The event of a list tells its revision, when it moved.
LEMMA TellsOfList ==
  ASSUME taskList' # taskList => taskList'.revision \in Nat \ {0}
  PROVE  Tells(taskListEvents, IF taskList' = taskList THEN 0 ELSE taskList'.revision, 0)
<1> DEFINE e == [type |-> "task_list_changed", revision |-> taskList'.revision]
<1>1. CASE taskList' = taskList
  BY <1>1, TellsNothing DEF taskListEvents
<1>2. CASE taskList' # taskList
  <2>1. taskListEvents = <<e>> /\ taskList'.revision \in Nat \ {0}
    BY <1>2 DEF taskListEvents
  <2>2. IsList(<<e>>) /\ <<e>>[1] = e
    BY Single
  <2>3. Kinds(<<e>>, "compaction") = {} /\ Kinds(<<e>>, "message_ref") = {} /\ Kinds(<<e>>, "task_list_changed") = {1}
    BY KindsOfOne
  <2>4. e.revision = taskList'.revision
    OBVIOUS
  <2> HIDE DEF e
  <2>5. Tells(<<e>>, taskList'.revision, 0)
    BY <2>1, <2>2, <2>3, <2>4 DEF Tells
  <2> QED BY <1>2, <2>1, <2>5
<1> QED BY <1>1, <1>2

-----------------------------------------------------------------------------
(* Chats and their Messages                                                  *)

TypedChats ==
  /\ chats \in [ChatIds -> ChatRows \cup {Absent}] /\ messages \in [ChatIds -> Seq(MessageRows)] /\ IsList(events)

LEMMA MessagesAreLists ==
  ASSUME TypedChats, NEW c \in ChatIds
  PROVE  /\ messages[c] \in Seq(MessageRows) /\ IsList(messages[c])
         /\ Len(messages[c]) \in Nat /\ DOMAIN messages[c] = 1..Len(messages[c])
         /\ \A n \in DOMAIN messages[c] : messages[c][n] \in MessageRows
<1>1. messages[c] \in Seq(MessageRows)
  BY DEF TypedChats
<1> QED BY <1>1, Lists, LenProperties, ElementOfSeq

LEMMA ChatRow ==
  ASSUME TypedChats, NEW c \in ChatIds, chats[c] # Absent
  PROVE  /\ chats[c] \in ChatRows /\ chats[c].title \in Names /\ chats[c].lifecycle \in Lifecycles
         /\ chats[c].revision \in Nat /\ chats[c].count \in Nat /\ chats[c].head \in Nat
<1>1. chats[c] \in ChatRows
  BY DEF TypedChats
<1> QED BY <1>1 DEF ChatRows

\* One event more, of a change to the Chat or of anything else.
LEMMA EventAppended ==
  ASSUME IsList(events), NEW key, NEW subject, NEW base, NEW before, NEW after,
         appendProjectEvent(key, subject, base, before, after)
  PROVE  /\ IsList(events')
         /\ \A c : Changes(c)' = IF subject = c /\ before >= 0 THEN Changes(c) \cup {Len(events) + 1} ELSE Changes(c)
         /\ \A c : Len(events) + 1 \notin Changes(c) /\ IsFiniteSet(Changes(c)) /\ Cardinality(Changes(c)) \in Nat
<1> DEFINE e == [key |-> key, subject |-> subject, base |-> base, before |-> before, after |-> after]
<1>1. events' = Append(events, e) /\ e.subject = subject /\ e.before = before
  BY DEF appendProjectEvent
<1> HIDE DEF e
<1>2. /\ IsList(events') /\ Len(events') = Len(events) + 1
      /\ \A i \in 1..Len(events) : events'[i] = events[i]
      /\ events'[Len(events) + 1] = e
  BY <1>1, ListAppended
<1>3. Len(events) \in Nat /\ DOMAIN events = 1..Len(events) /\ DOMAIN events' = 1..Len(events) + 1
  BY <1>2, ListShape
<1>4. \A i \in 1..Len(events) + 1 : i \in 1..Len(events) \/ i = Len(events) + 1
  BY <1>3
<1>5. \A i \in 1..Len(events) : i \in 1..Len(events) + 1 /\ i # Len(events) + 1
  BY <1>3
<1>6. ASSUME NEW c
      PROVE  Changes(c)' = IF subject = c /\ before >= 0 THEN Changes(c) \cup {Len(events) + 1} ELSE Changes(c)
  <2>1. ASSUME NEW i
        PROVE  i \in Changes(c)' <=> i \in Changes(c) \/ (i = Len(events) + 1 /\ subject = c /\ before >= 0)
    <3>1. i \in Changes(c)' <=> i \in 1..Len(events) + 1 /\ events'[i].subject = c /\ events'[i].before >= 0
      BY <1>3 DEF Changes
    <3>2. i \in Changes(c) <=> i \in 1..Len(events) /\ events[i].subject = c /\ events[i].before >= 0
      BY <1>3 DEF Changes
    <3>3. CASE i \in 1..Len(events)
      BY <3>1, <3>2, <3>3, <1>2, <1>5
    <3>4. CASE i = Len(events) + 1
      <4>1. i \notin 1..Len(events) /\ i \in 1..Len(events) + 1
        BY <3>4, <1>3
      <4>2. events'[i].subject = subject /\ events'[i].before = before
        BY <3>4, <1>1, <1>2
      <4> QED BY <3>1, <3>2, <3>4, <4>1, <4>2
    <3> QED BY <3>1, <3>2, <3>3, <3>4, <1>4
  <2> QED BY <2>1
<1>7. ASSUME NEW c
      PROVE  Len(events) + 1 \notin Changes(c) /\ IsFiniteSet(Changes(c)) /\ Cardinality(Changes(c)) \in Nat
  <2>1. Changes(c) \in SUBSET DOMAIN events
    BY DEF Changes
  <2> QED BY <2>1, <1>3, Positions
<1> QED BY <1>2, <1>6, <1>7

\* What a command on a Chat leaves of what was said.
KeepsTalk ==
  \A x \in ChatIds :
    /\ chats'[x] = Absent => chats[x] = Absent
    /\ Len(messages'[x]) = Len(messages[x]) /\ Answers(messages'[x]) = Answers(messages[x])
    /\ DOMAIN messages'[x] = DOMAIN messages[x]
    /\ \A first : UserInputs(messages'[x], first) = UserInputs(messages[x], first)

LEMMA ChatCreated ==
  ASSUME TypedChats, ChatsStand, NEW r \in Requests, NEW c \in ChatIds, NEW title \in Names, createChat(r, c, title)
  PROVE  (TypedChats /\ ChatsStand)' /\ KeepsTalk
<1> DEFINE row == [title |-> title, lifecycle |-> "active", revision |-> 0, count |-> 0, head |-> 0]
<1>1. chats' = [chats EXCEPT ![c] = row] /\ messages' = messages /\ chats[c] = Absent
  BY DEF createChat
<1>2. row \in ChatRows
  BY DEF ChatRows, Lifecycles
<1>3. row # Absent
  BY <1>2, ConversationsAssumption
<1>4. -1 \in Int /\ ~(-1 >= 0) /\ appendProjectEvent(<<r, 0>>, c, -1, -1, 0)
  BY DEF createChat
<1>5. IsList(events') /\ \A x : Changes(x)' = Changes(x)
  BY <1>4, EventAppended DEF TypedChats
<1>6. TypedChats'
  BY <1>1, <1>2, <1>5 DEF TypedChats
<1>7. ASSUME NEW x \in ChatIds
      PROVE  IF chats'[x] = Absent THEN messages'[x] = <<>> /\ Changes(x)' = {}
             ELSE ChatStands(chats'[x], messages'[x], Cardinality(Changes(x)'))
  <2>1. CASE x = c
    <3>1. messages[c] = <<>> /\ Changes(c) = {}
      BY <1>1 DEF ChatsStand
    <3>2. Cardinality({}) = 0 /\ Len(<<>>) = 0 /\ DOMAIN <<>> = {}
      BY FS_EmptySet, Nothing
    <3>3. chats'[c] = row
      BY <1>1 DEF TypedChats
    <3>4. ChatStands(row, <<>>, 0)
      BY <3>2 DEF ChatStands
    <3> HIDE DEF row
    <3> QED BY <2>1, <1>1, <1>3, <1>5, <3>1, <3>2, <3>3, <3>4
  <2>2. CASE x # c
    <3>1. chats'[x] = chats[x] /\ messages'[x] = messages[x] /\ Changes(x)' = Changes(x)
      BY <2>2, <1>1, <1>5 DEF TypedChats
    <3> QED BY <3>1 DEF ChatsStand
  <2> QED BY <2>1, <2>2
<1>8. ChatsStand'
  BY <1>7 DEF ChatsStand
<1>9. KeepsTalk
  <2>1. \A x \in ChatIds : chats'[x] = Absent => chats[x] = Absent
    BY <1>1 DEF TypedChats
  <2> QED BY <2>1, <1>1 DEF KeepsTalk
<1> QED BY <1>6, <1>8, <1>9

\* The rows of a Chat as a state of its documents leaves them.
LEMMA Documents ==
  ASSUME NEW rows \in Seq(MessageRows), NEW state \in {"current", "historical"}
  PROVE  LET after == updateChatMessageSearchState(rows, state) IN
         /\ after \in Seq(MessageRows) /\ Len(after) = Len(rows) /\ DOMAIN after = DOMAIN rows
         /\ Answers(after) = Answers(rows) /\ \A first : UserInputs(after, first) = UserInputs(rows, first)
         /\ \A n \in DOMAIN after : after[n].document \in {Absent, state}
<1> DEFINE after == updateChatMessageSearchState(rows, state)
<1>1. Len(rows) \in Nat /\ DOMAIN rows = 1..Len(rows) /\ \A n \in DOMAIN rows : rows[n] \in MessageRows
  BY LenProperties, ElementOfSeq
<1>2. DOMAIN after = DOMAIN rows
  BY DEF updateChatMessageSearchState
<1>3. ASSUME NEW n \in DOMAIN rows
      PROVE  /\ after[n] \in MessageRows /\ after[n].document \in {Absent, state}
             /\ after[n].role = rows[n].role /\ after[n].run = rows[n].run
  <2>1. after[n] = IF rows[n].document = Absent THEN rows[n] ELSE [rows[n] EXCEPT !.document = state]
    BY DEF updateChatMessageSearchState
  <2>2. rows[n] \in MessageRows
    BY <1>1
  <2> HIDE DEF after
  <2> QED BY <2>1, <2>2 DEF MessageRows
<1>4. after \in [1..Len(rows) -> MessageRows]
  <2>1. after = [n \in DOMAIN rows |-> after[n]]
    BY DEF updateChatMessageSearchState
  <2> HIDE DEF after
  <2> QED BY <2>1, <1>1, <1>3
<1>5. after \in Seq(MessageRows) /\ Len(after) = Len(rows)
  <2> HIDE DEF after
  <2>1. after \in Seq(MessageRows)
    BY <1>1, <1>4, SeqDef
  <2>2. Len(after) \in Nat /\ 1..Len(after) = 1..Len(rows)
    BY <1>1, <1>2, <2>1, LenProperties
  <2> QED BY <2>1, <2>2, <1>1
<1> HIDE DEF after
<1>6. Answers(after) = Answers(rows)
  BY <1>2, <1>3 DEF Answers
<1>7. \A first : UserInputs(after, first) = UserInputs(rows, first)
  BY <1>2, <1>3 DEF UserInputs
<1> QED BY <1>2, <1>3, <1>5, <1>6, <1>7 DEF after

LEMMA ChatMutated ==
  ASSUME TypedChats, ChatsStand, NEW r \in Requests, NEW c \in ChatIds, NEW base, NEW method \in ChatMethods,
         NEW title \in Names, mutateChat(r, c, base, method, title)
  PROVE  (TypedChats /\ ChatsStand)' /\ KeepsTalk
<1> DEFINE changed == changedChat(chats[c], method, title)
           after == [changed EXCEPT !.revision = base + 1]
           state == IF method = "restore" THEN "current" ELSE "historical"
<1>1. chats[c] # Absent /\ base = chats[c].revision
  BY DEF mutateChat
<1>2. /\ chats[c] \in ChatRows /\ chats[c].title \in Names /\ chats[c].lifecycle \in Lifecycles
      /\ chats[c].revision \in Nat /\ chats[c].count \in Nat /\ chats[c].head \in Nat
  BY <1>1, ChatRow
<1>3. CASE changed = chats[c]
  <2>1. events' = events /\ chats' = chats /\ messages' = messages
    BY <1>3 DEF mutateChat
  <2> QED BY <2>1 DEF TypedChats, ChatsStand, Changes, KeepsTalk
<1>4. CASE changed # chats[c]
  <2>1. /\ chats' = [chats EXCEPT ![c] = after]
        /\ messages' = IF method = "rename" THEN messages
                       ELSE [messages EXCEPT ![c] = updateChatMessageSearchState(@, state)]
        /\ appendProjectEvent(<<r, 0>>, c, base, base, base + 1)
    BY <1>4 DEF mutateChat
  <2>2. /\ after \in ChatRows /\ after # Absent /\ after.count = chats[c].count /\ after.head = chats[c].head
        /\ after.revision = chats[c].revision + 1
        /\ after.lifecycle = IF method = "rename" THEN chats[c].lifecycle ELSE LifecycleAfter[method]
    <3>1. base + 1 \in Nat
      BY <1>1, <1>2
    <3>2. method # "rename" => LifecycleAfter[method] \in Lifecycles
      BY DEF ChatMethods, LifecycleAfter, Lifecycles
    <3>3. after \in ChatRows
      BY <3>1, <3>2, <1>2 DEF ChatRows, changedChat
    <3>4. /\ after.count = chats[c].count /\ after.head = chats[c].head /\ after.revision = chats[c].revision + 1
          /\ after.lifecycle = IF method = "rename" THEN chats[c].lifecycle ELSE LifecycleAfter[method]
      BY <1>1, <1>2 DEF ChatRows, changedChat
    <3> QED BY <3>3, <3>4, ConversationsAssumption
  <2>3. method # "rename" =>
          state \in {"current", "historical"} /\ state = (IF LifecycleAfter[method] = "active" THEN "current" ELSE "historical")
    BY DEF ChatMethods, LifecycleAfter
  <2> HIDE DEF after, state, changed
  <2>4. base \in Int /\ base >= 0
    BY <1>1, <1>2
  <2>5. /\ IsList(events')
        /\ \A x : Changes(x)' = IF c = x THEN Changes(x) \cup {Len(events) + 1} ELSE Changes(x)
        /\ Len(events) + 1 \notin Changes(c) /\ IsFiniteSet(Changes(c)) /\ Cardinality(Changes(c)) \in Nat
    BY <2>1, <2>4, EventAppended DEF TypedChats
  <2>6. messages[c] \in Seq(MessageRows)
    BY DEF TypedChats
  <2>7. /\ messages'[c] \in Seq(MessageRows) /\ Len(messages'[c]) = Len(messages[c])
        /\ DOMAIN messages'[c] = DOMAIN messages[c] /\ Answers(messages'[c]) = Answers(messages[c])
        /\ \A first : UserInputs(messages'[c], first) = UserInputs(messages[c], first)
        /\ \A n \in DOMAIN messages'[c] :
             messages'[c][n].document \in {Absent, IF after.lifecycle = "active" THEN "current" ELSE "historical"}
    <3>1. CASE method = "rename"
      <4>1. messages' = messages /\ after.lifecycle = chats[c].lifecycle
        BY <3>1, <2>1, <2>2
      <4>2. ChatStands(chats[c], messages[c], Cardinality(Changes(c)))
        BY <1>1 DEF ChatsStand
      <4> QED BY <4>1, <4>2, <2>6 DEF ChatStands
    <3>2. CASE method # "rename"
      <4>1. messages'[c] = updateChatMessageSearchState(messages[c], state)
        BY <3>2, <2>1 DEF TypedChats
      <4> QED BY <3>2, <4>1, <2>2, <2>3, <2>6, Documents
    <3> QED BY <3>1, <3>2
  <2>8. \A x \in ChatIds : x # c => messages'[x] = messages[x] /\ chats'[x] = chats[x]
    BY <2>1 DEF TypedChats
  <2>9. chats'[c] = after
    BY <2>1 DEF TypedChats
  <2>10. TypedChats'
    <3>1. chats' \in [ChatIds -> ChatRows \cup {Absent}]
      BY <2>1, <2>2 DEF TypedChats
    <3>2. messages' = [x \in ChatIds |-> messages'[x]]
      BY <2>1 DEF TypedChats
    <3>3. \A x \in ChatIds : messages'[x] \in Seq(MessageRows)
      BY <2>7, <2>8 DEF TypedChats
    <3> QED BY <3>1, <3>2, <3>3, <2>5 DEF TypedChats
  <2>11. ChatsStand'
    <3>1. ASSUME NEW x \in ChatIds
          PROVE  IF chats'[x] = Absent THEN messages'[x] = <<>> /\ Changes(x)' = {}
                 ELSE ChatStands(chats'[x], messages'[x], Cardinality(Changes(x)'))
      <4>1. CASE x = c
        <5>1. Cardinality(Changes(c)') = Cardinality(Changes(c)) + 1
          BY <2>5, OneMore
        <5>2. ChatStands(chats[c], messages[c], Cardinality(Changes(c)))
          BY <1>1 DEF ChatsStand
        <5>3. after.count = Len(messages'[c]) /\ after.head = Len(messages'[c])
          BY <2>2, <2>7, <5>2 DEF ChatStands
        <5>4. after.revision = Len(messages'[c]) + Cardinality(Changes(c)')
          <6>1. Len(messages[c]) \in Nat /\ chats[c].revision = Len(messages[c]) + Cardinality(Changes(c))
            BY <5>2, MessagesAreLists DEF ChatStands
          <6> QED BY <2>2, <2>5, <2>7, <5>1, <6>1
        <5>5. ChatStands(after, messages'[c], Cardinality(Changes(c)'))
          BY <2>7, <5>3, <5>4 DEF ChatStands
        <5> QED BY <4>1, <5>5, <2>2, <2>9
      <4>2. CASE x # c
        <5>1. chats'[x] = chats[x] /\ messages'[x] = messages[x] /\ Changes(x)' = Changes(x)
          BY <4>2, <2>5, <2>8
        <5> QED BY <5>1 DEF ChatsStand
      <4> QED BY <4>1, <4>2
    <3> QED BY <3>1 DEF ChatsStand
  <2>12. KeepsTalk
    BY <1>1, <2>2, <2>7, <2>8, <2>9 DEF KeepsTalk
  <2> QED BY <2>10, <2>11, <2>12
<1> QED BY <1>3, <1>4

\* A Message joins the Chat behind the others, and nothing else is said.
LEMMA MessageAppended ==
  ASSUME TypedChats, ChatsStand, NEW c \in ChatIds, NEW m \in MessageRows, m.document \in {Absent, "current"}, appendMessage(c, m)
  PROVE  /\ (TypedChats /\ ChatsStand)'
         /\ \A x \in ChatIds : x # c => messages'[x] = messages[x]
         /\ \A x \in ChatIds : chats'[x] = Absent => chats[x] = Absent
         /\ chats[c] # Absent /\ chats[c].head = Len(messages[c])
         /\ Len(messages[c]) \in Nat /\ Len(messages'[c]) = Len(messages[c]) + 1
         /\ \A i \in 1..Len(messages[c]) : messages'[c][i] = messages[c][i]
         /\ messages'[c][Len(messages[c]) + 1] = m
<1> DEFINE after == [chats[c] EXCEPT !.revision = @ + 1, !.count = @ + 1, !.head = @ + 1]
<1>1. /\ chats[c] # Absent /\ chats[c].lifecycle = "active"
      /\ messages' = [messages EXCEPT ![c] = Append(@, m)]
      /\ appendProjectEvent(m.key, <<"message", c, chats[c].head + 1>>, -1, -1, 0)
  BY DEF appendMessage
<1>2. chats' = [chats EXCEPT ![c] = after]
  BY DEF appendMessage
<1>3. /\ chats[c] \in ChatRows /\ chats[c].revision \in Nat /\ chats[c].count \in Nat /\ chats[c].head \in Nat
  BY <1>1, ChatRow
<1>4. /\ after \in ChatRows /\ after # Absent /\ after.revision = chats[c].revision + 1
      /\ after.count = chats[c].count + 1 /\ after.head = chats[c].head + 1 /\ after.lifecycle = "active"
  <2>1. after \in ChatRows
    <3>1. chats[c].revision + 1 \in Nat /\ chats[c].count + 1 \in Nat /\ chats[c].head + 1 \in Nat
      BY <1>3
    <3>2. after = [chats[c] EXCEPT !.revision = chats[c].revision + 1, !.count = chats[c].count + 1, !.head = chats[c].head + 1]
      OBVIOUS
    <3> QED BY <1>3, <3>1, <3>2 DEF ChatRows
  <2> QED BY <1>1, <1>3, <2>1, ConversationsAssumption DEF ChatRows
<1> HIDE DEF after
<1>5. IsList(events') /\ (\A x : Changes(x)' = Changes(x)) /\ \A x : Cardinality(Changes(x)) \in Nat
  <2>1. -1 \in Int /\ ~(-1 >= 0)
    OBVIOUS
  <2>2. /\ IsList(events')
        /\ \A x : Changes(x)' = IF <<"message", c, chats[c].head + 1>> = x /\ -1 >= 0 THEN Changes(x) \cup {Len(events) + 1}
                               ELSE Changes(x)
        /\ \A x : Cardinality(Changes(x)) \in Nat
    BY <1>1, <2>1, EventAppended DEF TypedChats
  <2> QED BY <2>1, <2>2
<1>6. ChatStands(chats[c], messages[c], Cardinality(Changes(c)))
  BY <1>1 DEF ChatsStand
<1>7. messages'[c] = Append(messages[c], m)
  BY <1>1 DEF TypedChats
<1>8. /\ Append(messages[c], m) \in Seq(MessageRows) /\ Len(messages'[c]) = Len(messages[c]) + 1
      /\ \A i \in 1..Len(messages[c]) : messages'[c][i] = messages[c][i]
      /\ messages'[c][Len(messages[c]) + 1] = m
  BY <1>7, MessagesAreLists, AppendProperties
<1>9. \A x \in ChatIds : x # c => messages'[x] = messages[x] /\ chats'[x] = chats[x]
  BY <1>1, <1>2 DEF TypedChats
<1>10. chats'[c] = after
  BY <1>2 DEF TypedChats
<1>11. TypedChats'
  <2>1. chats' \in [ChatIds -> ChatRows \cup {Absent}]
    BY <1>2, <1>4 DEF TypedChats
  <2>2. messages' \in [ChatIds -> Seq(MessageRows)]
    BY <1>1, <1>8, <1>7 DEF TypedChats
  <2> QED BY <2>1, <2>2, <1>5 DEF TypedChats
<1>12. Len(messages[c]) \in Nat /\ DOMAIN messages[c] = 1..Len(messages[c]) /\ chats[c].head = Len(messages[c])
  BY <1>6, MessagesAreLists DEF ChatStands
<1>13. ChatStands(after, messages'[c], Cardinality(Changes(c)))
  <2>1. /\ after.count = Len(messages'[c]) /\ after.head = Len(messages'[c])
        /\ after.revision = Len(messages'[c]) + Cardinality(Changes(c))
    <3>1. /\ chats[c].count = Len(messages[c]) /\ chats[c].head = Len(messages[c])
          /\ chats[c].revision = Len(messages[c]) + Cardinality(Changes(c)) /\ Cardinality(Changes(c)) \in Nat
      BY <1>5, <1>6 DEF ChatStands
    <3> QED BY <3>1, <1>4, <1>8, <1>12
  <2>2. ASSUME NEW n \in DOMAIN messages'[c]
        PROVE  messages'[c][n].document \in {Absent, "current"}
    <3>1. n \in 1..Len(messages[c]) \/ n = Len(messages[c]) + 1
      <4>1. DOMAIN messages'[c] = 1..Len(messages'[c])
        BY <1>7, <1>8, LenProperties
      <4> QED BY <4>1, <1>8, <1>12
    <3>2. CASE n \in 1..Len(messages[c])
      BY <3>2, <1>1, <1>6, <1>8, <1>12 DEF ChatStands
    <3>3. CASE n = Len(messages[c]) + 1
      BY <3>3, <1>8
    <3> QED BY <3>1, <3>2, <3>3
  <2> QED BY <2>1, <2>2, <1>4 DEF ChatStands
<1>14. ChatsStand'
  <2>1. ASSUME NEW x \in ChatIds
        PROVE  IF chats'[x] = Absent THEN messages'[x] = <<>> /\ Changes(x)' = {}
               ELSE ChatStands(chats'[x], messages'[x], Cardinality(Changes(x)'))
    <3>1. CASE x = c
      BY <3>1, <1>4, <1>5, <1>10, <1>13
    <3>2. CASE x # c
      <4>1. chats'[x] = chats[x] /\ messages'[x] = messages[x] /\ Changes(x)' = Changes(x)
        BY <3>2, <1>5, <1>9
      <4> QED BY <4>1 DEF ChatsStand
    <3> QED BY <3>1, <3>2
  <2> QED BY <2>1 DEF ChatsStand
<1> QED BY <1>1, <1>4, <1>8, <1>9, <1>10, <1>11, <1>12, <1>14

-----------------------------------------------------------------------------
(* The Run and what it says                                                  *)

LEMMA RunRow ==
  ASSUME NEW row \in RunRows
  PROVE  /\ row # Absent /\ row.status \in RunStates /\ row.revision \in Nat /\ row.chat \in ChatIds
         /\ row.first \in Nat \ {0} /\ row.inbox \in Seq(InboxStates) /\ row.activation \in Nat
         /\ row.asked \in Nat \cup {Absent} /\ row.question \in Nat
         /\ Len(row.inbox) \in Nat /\ DOMAIN row.inbox = 1..Len(row.inbox)
<1>1. /\ row.status \in RunStates /\ row.revision \in Nat /\ row.chat \in ChatIds
      /\ row.first \in Nat \ {0} /\ row.inbox \in Seq(InboxStates) /\ row.activation \in Nat
      /\ row.asked \in Nat \cup {Absent} /\ row.question \in Nat
  BY DEF RunRows
<1> QED BY <1>1, StoriesAssumption, LenProperties

\* The head of the journal moves, and the row says the rest.
LEMMA Advanced ==
  ASSUME run \in RunRows, NEW row \in RunRows, advanceRunJournalHead(row)
  PROVE  /\ run' \in RunRows /\ run' # Absent /\ run'.revision = run.revision + 1
         /\ run'.status = row.status /\ run'.chat = row.chat /\ run'.first = row.first /\ run'.inbox = row.inbox
<1>1. run.revision + 1 \in Nat
  BY RunRow
<1>2. run' = [row EXCEPT !.revision = run.revision + 1]
  BY DEF advanceRunJournalHead
<1>3. run' \in RunRows
  BY <1>1, <1>2 DEF RunRows
<1>4. /\ run'.revision = run.revision + 1
      /\ run'.status = row.status /\ run'.chat = row.chat /\ run'.first = row.first /\ run'.inbox = row.inbox
  BY <1>2 DEF RunRows
<1> QED BY <1>3, <1>4, RunRow

\* The user Messages and the answers of a Chat with one Message more.
LEMMA OneMessageMore ==
  ASSUME NEW rows, NEW after, IsList(rows), IsList(after), NEW m, Len(after) = Len(rows) + 1,
         \A i \in 1..Len(rows) : after[i] = rows[i], after[Len(rows) + 1] = m,
         NEW first \in Nat \ {0}, first <= Len(rows) + 1
  PROVE  /\ Answers(after) = IF m.run = Owner THEN Answers(rows) \cup {Len(rows) + 1} ELSE Answers(rows)
         /\ Len(rows) + 1 \notin Answers(rows) /\ Answers(rows) \subseteq Nat
         /\ Cardinality(UserInputs(after, first)) = Cardinality(UserInputs(rows, first)) + (IF m.role = "user" THEN 1 ELSE 0)
         /\ Cardinality(UserInputs(rows, first)) \in Nat
         /\ first \in DOMAIN after
<1>1. /\ Len(rows) \in Nat /\ DOMAIN rows = 1..Len(rows) /\ DOMAIN after = 1..Len(rows) + 1
      /\ \A i \in 1..Len(rows) + 1 : i \in 1..Len(rows) \/ i = Len(rows) + 1
      /\ \A i \in 1..Len(rows) : i \in 1..Len(rows) + 1 /\ i # Len(rows) + 1
      /\ Len(rows) + 1 \in 1..Len(rows) + 1 /\ Len(rows) + 1 \notin 1..Len(rows)
  <2>1. Len(rows) \in Nat /\ DOMAIN rows = 1..Len(rows) /\ DOMAIN after = 1..Len(after)
    BY ListShape
  <2> QED BY <2>1
<1>2. Answers(after) = IF m.run = Owner THEN Answers(rows) \cup {Len(rows) + 1} ELSE Answers(rows)
  BY <1>1 DEF Answers
<1>3. Len(rows) + 1 \notin Answers(rows) /\ Answers(rows) \subseteq Nat
  BY <1>1 DEF Answers
<1>4. UserInputs(rows, first) \in SUBSET DOMAIN rows /\ Len(rows) + 1 \notin UserInputs(rows, first)
  BY <1>1 DEF UserInputs
<1>5. IsFiniteSet(UserInputs(rows, first)) /\ Cardinality(UserInputs(rows, first)) \in Nat
  BY <1>4, Positions
<1>6. CASE m.role = "user"
  <2>1. UserInputs(after, first) = UserInputs(rows, first) \cup {Len(rows) + 1}
    <3>1. Len(rows) + 1 >= first
      BY <1>1
    <3> QED BY <3>1, <1>1, <1>6 DEF UserInputs
  <2>2. Cardinality(UserInputs(after, first)) = Cardinality(UserInputs(rows, first)) + 1
    BY <2>1, <1>4, <1>5, OneMore
  <2> QED BY <2>2, <1>1, <1>2, <1>3, <1>5, <1>6
<1>7. CASE m.role # "user"
  <2>1. UserInputs(after, first) = UserInputs(rows, first)
    BY <1>1, <1>7 DEF UserInputs
  <2> QED BY <2>1, <1>1, <1>2, <1>3, <1>5, <1>7
<1> QED BY <1>6, <1>7

\* What a Run has said is what it had said, when nothing was said and it neither completed nor took new input.
LEMMA SaysNothing ==
  ASSUME NEW before \in RunRows, NEW after \in RunRows, NEW rows, NEW log, NEW rowsAfter, NEW logAfter,
         RunSaid(before, rows, log), after.first = before.first, Len(after.inbox) = Len(before.inbox),
         after.status = "completed" <=> before.status = "completed",
         DOMAIN rowsAfter = DOMAIN rows, Answers(rowsAfter) = Answers(rows),
         UserInputs(rowsAfter, before.first) = UserInputs(rows, before.first),
         Told(logAfter, "message_ref") = Told(log, "message_ref"),
         \A i \in Told(log, "message_ref") : logAfter[i].payload = log[i].payload
  PROVE  RunSaid(after, rowsAfter, logAfter)
<1>1. {logAfter[i].payload.message : i \in Told(logAfter, "message_ref")} = {log[i].payload.message : i \in Told(log, "message_ref")}
  OBVIOUS
<1> QED BY <1>1 DEF RunSaid

-----------------------------------------------------------------------------
(* The records that follow the journal                                       *)

TypedRecords ==
  /\ run \in RunRows \cup {Absent} /\ IsList(journal) /\ taskList \in ListRows \cup {Absent}
  /\ transactions \in [TransactionIds -> TransactionRows \cup {Absent}] /\ views \in [ViewIds -> ViewRows \cup {Absent}]

LEMMA ListRow ==
  ASSUME NEW list \in ListRows
  PROVE  /\ list # Absent /\ list.revision \in Nat \ {0} /\ list.items \in ItemTables /\ list.title \in Names
         /\ list.state \in {"active", "completed", "cancelled"}
<1>1. /\ list.revision \in Nat \ {0} /\ list.items \in ItemTables /\ list.title \in Names
      /\ list.state \in {"active", "completed", "cancelled"}
  BY DEF ListRows
<1> QED BY <1>1, TaskListsAssumption

\* The next revision of a list, if it moved.
ListMoves == taskList' # taskList => /\ taskList' \in ListRows
                                     /\ taskList'.revision = IF taskList = Absent THEN 1 ELSE taskList.revision + 1

\* The journal that tells the revision goes on telling them one by one.
LEMMA ListToldOn ==
  ASSUME TypedRecords, ListTold(taskList, journal), ListMoves,
         NEW command, NEW payloads, NEW said \in Nat, appendRunEventBatch(command, payloads),
         Tells(payloads, IF taskList' = taskList THEN 0 ELSE taskList'.revision, said)
  PROVE  ListTold(taskList, journal)'
<1> DEFINE told == Told(journal, "task_list_changed")
<1>1. IsList(journal) /\ IsList(payloads)
  BY DEF TypedRecords, Tells
<1>2. /\ \A i \in told : journal[i].payload.revision = Cardinality({j \in told : j <= i})
      /\ Cardinality(told) = IF taskList = Absent THEN 0 ELSE taskList.revision
  BY DEF ListTold
<1>3. CASE taskList' = taskList
  <2>1. Kinds(payloads, "task_list_changed") = {}
    BY <1>3 DEF Tells
  <2>2. told' = told /\ \A i \in told : journal'[i] = journal[i]
    BY <1>1, <2>1, TellsNoMore
  <2> HIDE DEF told
  <2>3. \A i \in told' : journal'[i].payload.revision = Cardinality({j \in told' : j <= i})
    BY <1>2, <2>2
  <2>4. Cardinality(told') = IF taskList' = Absent THEN 0 ELSE taskList'.revision
    BY <1>2, <1>3, <2>2
  <2> QED BY <2>3, <2>4 DEF ListTold, told
<1>4. CASE taskList' # taskList
  <2>1. /\ taskList' \in ListRows /\ taskList' # Absent /\ taskList'.revision \in Nat \ {0}
        /\ taskList'.revision = IF taskList = Absent THEN 1 ELSE taskList.revision + 1
    BY <1>4, ListRow DEF ListMoves
  <2>2. PICK k \in Nat : Kinds(payloads, "task_list_changed") = {k} /\ payloads[k].revision = taskList'.revision
    BY <1>4, <2>1 DEF Tells
  <2>3. PICK n \in Nat : /\ told' = told \cup {n} /\ n \notin told /\ journal'[n].payload = payloads[k]
                         /\ \A i \in told : journal'[i] = journal[i] /\ i < n /\ i \in Nat
    BY <1>1, <2>2, TellsOneMore
  <2>4. told \in SUBSET DOMAIN journal
    BY DEF Told
  <2> HIDE DEF told
  <2>5. IsFiniteSet(told)
    BY <1>1, <2>4, Positions
  <2>6. Cardinality(told') = Cardinality(told) + 1
    BY <2>3, <2>5, OneMore
  <2>7. Cardinality(told') = taskList'.revision
    BY <1>2, <2>1, <2>6
  <2>8. ASSUME NEW i \in told'
        PROVE  journal'[i].payload.revision = Cardinality({j \in told' : j <= i})
    <3>1. CASE i = n
      <4>0. \A j \in told' : j <= i
        BY <2>3, <3>1
      <4>1. {j \in told' : j <= i} = told'
        BY <4>0
      <4> QED BY <2>2, <2>3, <2>7, <3>1, <4>1
    <3>2. CASE i \in told
      <4>1. {j \in told' : j <= i} = {j \in told : j <= i}
        BY <2>3, <3>2
      <4> QED BY <1>2, <2>3, <3>2, <4>1
    <3> QED BY <2>3, <3>1, <3>2
  <2> QED BY <2>1, <2>7, <2>8 DEF ListTold, told
<1> QED BY <1>3, <1>4

\* A batch that tells of no stage leaves the compactions as they were told.
LEMMA CompactionsKept ==
  ASSUME IsList(journal), CompactionsStand, UNCHANGED compactions, NEW command, NEW payloads, NEW a, NEW b,
         appendRunEventBatch(command, payloads), Tells(payloads, a, b)
  PROVE  CompactionsStand'
<1>1. Kinds(payloads, "compaction") = {} /\ IsList(payloads)
  BY DEF Tells
<1>2. /\ Told(journal', "compaction") = Told(journal, "compaction")
      /\ \A i \in Told(journal, "compaction") : journal'[i] = journal[i]
  BY <1>1, TellsNoMore
<1>3. transactions' = transactions /\ views' = views
  BY DEF compactions
<1>4. ASSUME NEW t \in TransactionIds
      PROVE  Staged(t)'
  <2>1. StagesOf(t)' = StagesOf(t) /\ \A i \in StagesOf(t) : journal'[i] = journal[i]
    BY <1>2 DEF StagesOf
  <2>2. viewsOf(t)' = viewsOf(t)
    BY <1>3 DEF viewsOf
  <2>3. \A i \in StagesOf(t) : /\ Starts(t, i)' <=> Starts(t, i)
                               /\ Derives(t, i)' <=> Derives(t, i)
                               /\ Ends(t, i)' <=> Ends(t, i)
    BY <1>3, <2>1, <2>2 DEF Starts, Derives, Ends
  <2>4. Staged(t)
    BY DEF CompactionsStand
  <2>5. CASE transactions[t] = Absent
    BY <2>5, <2>4, <2>1, <2>2, <1>3 DEF Staged
  <2>6. CASE transactions[t] # Absent
    BY <2>6, <2>4, <2>1, <2>2, <2>3, <1>3 DEF Staged
  <2> QED BY <2>5, <2>6
<1> QED BY <1>4 DEF CompactionsStand

-----------------------------------------------------------------------------
(* Compactions, stage by stage                                               *)

\* One stage more is told of a transaction; the other transactions are told of as before.
LEMMA StageTold ==
  ASSUME IsList(journal), NEW t, NEW stage, NEW semantics, appendStage(t, stage, semantics)
  PROVE  \E n \in Nat : /\ StagesOf(t)' = StagesOf(t) \cup {n} /\ n \notin StagesOf(t)
                        /\ journal'[n].payload.stage = stage /\ journal'[n].payload.semantics = semantics
                        /\ \A i \in StagesOf(t) : journal'[i] = journal[i] /\ i < n /\ i \in Nat
                        /\ \A u : u # t => StagesOf(u)' = StagesOf(u) /\ \A i \in StagesOf(u) : journal'[i] = journal[i]
<1> DEFINE e == [type |-> "compaction", stage |-> stage, tx |-> t, semantics |-> semantics]
<1>1. appendRunEventBatch(stageCommandId(t, stage), <<e>>)
  BY DEF appendStage, Appended
<1>2. IsList(<<e>>) /\ <<e>>[1] = e /\ Kinds(<<e>>, "compaction") = {1}
  BY Single, KindsOfOne
<1>3. e.stage = stage /\ e.tx = t /\ e.semantics = semantics
  OBVIOUS
<1> HIDE DEF e
<1>4. PICK n \in Nat : /\ Told(journal', "compaction") = Told(journal, "compaction") \cup {n}
                       /\ n \notin Told(journal, "compaction") /\ journal'[n].payload = e
                       /\ \A i \in Told(journal, "compaction") : journal'[i] = journal[i] /\ i < n /\ i \in Nat
  BY <1>1, <1>2, TellsOneMore
<1>5. StagesOf(t)' = StagesOf(t) \cup {n} /\ n \notin StagesOf(t)
  BY <1>3, <1>4 DEF StagesOf
<1>6. \A u : u # t => StagesOf(u)' = StagesOf(u) /\ \A i \in StagesOf(u) : journal'[i] = journal[i]
  BY <1>3, <1>4 DEF StagesOf
<1>7. \A i \in StagesOf(t) : journal'[i] = journal[i] /\ i < n /\ i \in Nat
  BY <1>4 DEF StagesOf
<1> QED BY <1>3, <1>4, <1>5, <1>6, <1>7

\* The transactions that a stage is not of stand as they stood.
LEMMA OthersStaged ==
  ASSUME CompactionsStand, NEW t, NEW u \in TransactionIds, u # t, transactions'[u] = transactions[u],
         viewsOf(u)' = viewsOf(u), \A v \in viewsOf(u) : views'[v] = views[v],
         StagesOf(u)' = StagesOf(u), \A i \in StagesOf(u) : journal'[i] = journal[i]
  PROVE  Staged(u)'
<1>1. \A i \in StagesOf(u) : /\ Starts(u, i)' <=> Starts(u, i)
                             /\ Ends(u, i)' <=> Ends(u, i)
  BY DEF Starts, Ends
<1>2. ASSUME NEW i \in StagesOf(u)
      PROVE  Derives(u, i)' <=> Derives(u, i)
  <2>1. \A v \in ViewIds : viewsOf(u) = {v} => views'[v] = views[v]
    OBVIOUS
  <2> QED BY <2>1 DEF Derives
<1>3. Staged(u)
  BY DEF CompactionsStand
<1>4. CASE transactions[u] = Absent
  BY <1>4, <1>3 DEF Staged
<1>5. CASE transactions[u] # Absent
  BY <1>5, <1>1, <1>2, <1>3 DEF Staged
<1> QED BY <1>4, <1>5

LEMMA TransactionRow ==
  ASSUME TypedRecords, NEW t \in TransactionIds, transactions[t] # Absent
  PROVE  /\ transactions[t] \in TransactionRows /\ transactions[t].state \in CompactionStates
         /\ transactions[t].from \in Nat /\ transactions[t].to \in Nat /\ transactions[t].reason \in Reasons \cup {Absent}
<1>1. transactions[t] \in TransactionRows
  BY DEF TypedRecords
<1> QED BY <1>1 DEF TransactionRows

LEMMA SameViews ==
  ASSUME views' = views, NEW t
  PROVE  viewsOf(t)' = viewsOf(t)
BY DEF viewsOf

TypedCompactions ==
  /\ transactions \in [TransactionIds -> TransactionRows \cup {Absent}] /\ views \in [ViewIds -> ViewRows \cup {Absent}]

LEMMA Started ==
  ASSUME TypedRecords, CompactionsStand, NEW t \in TransactionIds, NEW expected, NEW activation,
         NEW from \in Nat, NEW to \in Nat, startCompaction(t, expected, activation, from, to)
  PROVE  (TypedCompactions /\ CompactionsStand)'
<1> DEFINE row == [state |-> "started", from |-> from, to |-> to, reason |-> Absent]
<1>1. /\ transactions' = [transactions EXCEPT ![t] = row] /\ views' = views /\ transactions[t] = Absent
      /\ appendStage(t, "started", <<from, to>>)
  BY DEF startCompaction
<1>2. row \in TransactionRows /\ row.state = "started" /\ row.from = from /\ row.to = to
  BY DEF TransactionRows, CompactionStates
<1>3. row # Absent
  BY <1>2, CompactionsAssumption
<1> HIDE DEF row
<1>4. TypedCompactions'
  BY <1>1, <1>2 DEF TypedRecords, TypedCompactions
<1>5. PICK n \in Nat : /\ StagesOf(t)' = StagesOf(t) \cup {n}
                       /\ journal'[n].payload.stage = "started" /\ journal'[n].payload.semantics = <<from, to>>
                       /\ \A u : u # t => StagesOf(u)' = StagesOf(u) /\ \A i \in StagesOf(u) : journal'[i] = journal[i]
  BY <1>1, StageTold DEF TypedRecords
<1>6. StagesOf(t) = {} /\ viewsOf(t) = {}
  BY <1>1 DEF CompactionsStand, Staged
<1>7. transactions'[t] = row
  BY <1>1 DEF TypedRecords
<1>8. Staged(t)'
  <2>1. StagesOf(t)' = {n} /\ viewsOf(t)' = {}
    BY <1>1, <1>5, <1>6, SameViews
  <2>2. Starts(t, n)'
    BY <1>2, <1>5, <1>7 DEF Starts
  <2> QED BY <1>2, <1>3, <1>7, <2>1, <2>2 DEF Staged
<1>9. ASSUME NEW u \in TransactionIds, u # t
      PROVE  Staged(u)'
  <2>1. transactions'[u] = transactions[u] /\ viewsOf(u)' = viewsOf(u)
    BY <1>1, <1>9, SameViews DEF TypedRecords
  <2> QED BY <1>1, <1>5, <1>9, <2>1, OthersStaged
<1> QED BY <1>4, <1>8, <1>9 DEF CompactionsStand

LEMMA Derived ==
  ASSUME TypedRecords, CompactionsStand, NEW t \in TransactionIds, NEW expected, NEW v \in ViewIds,
         NEW cited \in SUBSET Nat, deriveCompactionView(t, expected, v, cited)
  PROVE  (TypedCompactions /\ CompactionsStand)'
<1> DEFINE row == [transactions[t] EXCEPT !.state = "view_derived"]
           view == [tx |-> t, cited |-> cited]
<1>1. /\ transactions' = [transactions EXCEPT ![t] = row] /\ views' = [views EXCEPT ![v] = view]
      /\ transactions[t] # Absent /\ transactions[t].state = "started" /\ views[v] = Absent
      /\ cited \subseteq transactions[t].from..transactions[t].to
      /\ appendStage(t, "view_derived", <<transactions[t].from, transactions[t].to, v, cited>>)
  BY DEF deriveCompactionView
<1>2. transactions[t] \in TransactionRows
  BY <1>1, TransactionRow
<1>3. /\ row \in TransactionRows /\ row.state = "view_derived" /\ row.from = transactions[t].from /\ row.to = transactions[t].to
      /\ view \in ViewRows /\ view.tx = t /\ view.cited = cited
  BY <1>2 DEF TransactionRows, CompactionStates, ViewRows
<1>4. row # Absent /\ view # Absent
  BY <1>3, CompactionsAssumption
<1> HIDE DEF row, view
<1>5. TypedCompactions'
  BY <1>1, <1>3 DEF TypedRecords, TypedCompactions
<1>6. PICK n \in Nat : /\ StagesOf(t)' = StagesOf(t) \cup {n}
                       /\ journal'[n].payload.stage = "view_derived"
                       /\ journal'[n].payload.semantics = <<transactions[t].from, transactions[t].to, v, cited>>
                       /\ \A i \in StagesOf(t) : journal'[i] = journal[i] /\ i < n /\ i \in Nat
                       /\ \A u : u # t => StagesOf(u)' = StagesOf(u) /\ \A i \in StagesOf(u) : journal'[i] = journal[i]
  BY <1>1, StageTold DEF TypedRecords
<1>7. PICK a \in StagesOf(t) : Starts(t, a) /\ StagesOf(t) = {a} /\ viewsOf(t) = {}
  <2>1. \A b : ~Ends(t, b)
    BY <1>1 DEF Ends
  <2>2. Staged(t)
    BY DEF CompactionsStand
  <2> QED BY <1>1, <2>1, <2>2 DEF Staged
<1>8. transactions'[t] = row /\ views'[v] = view /\ (\A w \in ViewIds : w # v => views'[w] = views[w])
      /\ \A u \in TransactionIds : u # t => transactions'[u] = transactions[u]
  BY <1>1 DEF TypedRecords
<1>9. viewsOf(t)' = {v}
  BY <1>3, <1>4, <1>7, <1>8 DEF viewsOf
<1>10. Staged(t)'
  <2>1. a < n /\ StagesOf(t)' = {a, n} /\ journal'[a] = journal[a]
    BY <1>6, <1>7
  <2>2. Starts(t, a)'
    BY <1>3, <1>7, <1>8, <2>1 DEF Starts
  <2>3. Derives(t, n)'
    BY <1>1, <1>3, <1>6, <1>8, <1>9 DEF Derives
  <2> QED BY <1>3, <1>4, <1>8, <2>1, <2>2, <2>3 DEF Staged
<1>11. ASSUME NEW u \in TransactionIds, u # t
       PROVE  Staged(u)'
  <2>1. viewsOf(u)' = viewsOf(u) /\ v \notin viewsOf(u)
    BY <1>1, <1>3, <1>8, <1>11 DEF viewsOf
  <2>2. \A w \in viewsOf(u) : views'[w] = views[w]
    BY <1>8, <2>1 DEF viewsOf
  <2> QED BY <1>6, <1>8, <1>11, <2>1, <2>2, OthersStaged
<1> QED BY <1>5, <1>10, <1>11 DEF CompactionsStand

LEMMA Completed ==
  ASSUME TypedRecords, CompactionsStand, NEW t \in TransactionIds, NEW expected, NEW v \in ViewIds,
         completeCompaction(t, expected, v)
  PROVE  (TypedCompactions /\ CompactionsStand)'
<1> DEFINE row == [transactions[t] EXCEPT !.state = "completed"]
<1>1. /\ transactions' = [transactions EXCEPT ![t] = row] /\ views' = views
      /\ transactions[t] # Absent /\ transactions[t].state = "view_derived" /\ v \in viewsOf(t)
      /\ appendStage(t, "completed", <<v>>)
  BY DEF completeCompaction
<1>2. transactions[t] \in TransactionRows
  BY <1>1, TransactionRow
<1>3. /\ row \in TransactionRows /\ row.state = "completed" /\ row.from = transactions[t].from /\ row.to = transactions[t].to
  BY <1>2 DEF TransactionRows, CompactionStates
<1>4. row # Absent
  BY <1>3, CompactionsAssumption
<1> HIDE DEF row
<1>5. TypedCompactions'
  BY <1>1, <1>3 DEF TypedRecords, TypedCompactions
<1>6. PICK n \in Nat : /\ StagesOf(t)' = StagesOf(t) \cup {n}
                       /\ journal'[n].payload.stage = "completed" /\ journal'[n].payload.semantics = <<v>>
                       /\ \A i \in StagesOf(t) : journal'[i] = journal[i] /\ i < n /\ i \in Nat
                       /\ \A u : u # t => StagesOf(u)' = StagesOf(u) /\ \A i \in StagesOf(u) : journal'[i] = journal[i]
  BY <1>1, StageTold DEF TypedRecords
<1>7. PICK a \in StagesOf(t), b \in StagesOf(t) : Starts(t, a) /\ a < b /\ StagesOf(t) = {a, b} /\ Derives(t, b)
  <2>1. \A i : ~Ends(t, i)
    BY <1>1 DEF Ends
  <2>2. Staged(t)
    BY DEF CompactionsStand
  <2> QED BY <1>1, <2>1, <2>2 DEF Staged
<1>8. transactions'[t] = row /\ \A u \in TransactionIds : u # t => transactions'[u] = transactions[u]
  BY <1>1 DEF TypedRecords
<1>9. viewsOf(t)' = {v} /\ viewsOf(t) = {v}
  BY <1>1, <1>7, SameViews DEF Derives
<1>10. Staged(t)'
  <2>1. a < b /\ b < n /\ StagesOf(t)' = {a, b, n} /\ journal'[a] = journal[a] /\ journal'[b] = journal[b]
    BY <1>6, <1>7
  <2>2. Starts(t, a)'
    BY <1>3, <1>7, <1>8, <2>1 DEF Starts
  <2>3. Derives(t, b)'
    BY <1>1, <1>3, <1>7, <1>8, <1>9, <2>1 DEF Derives
  <2>4. Ends(t, n)'
    BY <1>3, <1>6, <1>8, <1>9 DEF Ends
  <2> QED BY <1>4, <1>8, <2>1, <2>2, <2>3, <2>4 DEF Staged
<1>11. ASSUME NEW u \in TransactionIds, u # t
       PROVE  Staged(u)'
  <2>1. viewsOf(u)' = viewsOf(u)
    BY <1>1, SameViews
  <2> QED BY <1>1, <1>6, <1>8, <1>11, <2>1, OthersStaged
<1> QED BY <1>5, <1>10, <1>11 DEF CompactionsStand

LEMMA Interrupted ==
  ASSUME TypedRecords, CompactionsStand, NEW t \in TransactionIds, NEW expected, NEW reason \in Reasons,
         interruptCompaction(t, expected, reason)
  PROVE  (TypedCompactions /\ CompactionsStand)'
<1> DEFINE row == [transactions[t] EXCEPT !.state = "interrupted", !.reason = reason]
<1>1. /\ transactions' = [transactions EXCEPT ![t] = row] /\ views' = views
      /\ transactions[t] # Absent /\ transactions[t].state \in {"started", "view_derived"}
      /\ appendStage(t, "interrupted", <<reason>>)
  BY DEF interruptCompaction
<1>2. transactions[t] \in TransactionRows
  BY <1>1, TransactionRow
<1>3. /\ row \in TransactionRows /\ row.state = "interrupted" /\ row.from = transactions[t].from /\ row.to = transactions[t].to
      /\ row.reason = reason
  BY <1>2 DEF TransactionRows, CompactionStates
<1>4. row # Absent
  BY <1>3, CompactionsAssumption
<1> HIDE DEF row
<1>5. TypedCompactions'
  BY <1>1, <1>3 DEF TypedRecords, TypedCompactions
<1>6. PICK n \in Nat : /\ StagesOf(t)' = StagesOf(t) \cup {n}
                       /\ journal'[n].payload.stage = "interrupted" /\ journal'[n].payload.semantics = <<reason>>
                       /\ \A i \in StagesOf(t) : journal'[i] = journal[i] /\ i < n /\ i \in Nat
                       /\ \A u : u # t => StagesOf(u)' = StagesOf(u) /\ \A i \in StagesOf(u) : journal'[i] = journal[i]
  BY <1>1, StageTold DEF TypedRecords
<1>7. PICK a \in StagesOf(t) :
         Starts(t, a) /\ \/ StagesOf(t) = {a} /\ viewsOf(t) = {}
                         \/ \E b \in StagesOf(t) : a < b /\ StagesOf(t) = {a, b} /\ Derives(t, b)
  <2>1. \A i : ~Ends(t, i)
    BY <1>1 DEF Ends
  <2>2. Staged(t)
    BY DEF CompactionsStand
  <2> QED BY <1>1, <2>1, <2>2 DEF Staged
<1>8. transactions'[t] = row /\ \A u \in TransactionIds : u # t => transactions'[u] = transactions[u]
  BY <1>1 DEF TypedRecords
<1>9. viewsOf(t)' = viewsOf(t)
  BY <1>1, SameViews
<1>10. Ends(t, n)' /\ Starts(t, a)' /\ a < n
  <2>1. Ends(t, n)'
    BY <1>3, <1>6, <1>8 DEF Ends
  <2>2. Starts(t, a)'
    BY <1>3, <1>6, <1>7, <1>8 DEF Starts
  <2> QED BY <2>1, <2>2, <1>6, <1>7
<1>11. Staged(t)'
  <2>1. CASE StagesOf(t) = {a} /\ viewsOf(t) = {}
    <3>1. StagesOf(t)' = {a, n} /\ viewsOf(t)' = {}
      BY <2>1, <1>6, <1>9
    <3> QED BY <1>3, <1>4, <1>8, <1>10, <3>1 DEF Staged
  <2>2. CASE \E b \in StagesOf(t) : a < b /\ StagesOf(t) = {a, b} /\ Derives(t, b)
    <3>1. PICK b \in StagesOf(t) : a < b /\ StagesOf(t) = {a, b} /\ Derives(t, b)
      BY <2>2
    <3>2. b < n /\ StagesOf(t)' = {a, b, n} /\ journal'[b] = journal[b]
      BY <1>6, <3>1
    <3>3. Derives(t, b)'
      BY <1>1, <1>3, <1>8, <1>9, <3>1, <3>2 DEF Derives
    <3> QED BY <1>4, <1>8, <1>10, <3>1, <3>2, <3>3 DEF Staged
  <2> QED BY <1>7, <2>1, <2>2
<1>12. ASSUME NEW u \in TransactionIds, u # t
       PROVE  Staged(u)'
  <2>1. viewsOf(u)' = viewsOf(u)
    BY <1>1, SameViews
  <2> QED BY <1>1, <1>6, <1>8, <1>12, <2>1, OthersStaged
<1> QED BY <1>5, <1>11, <1>12 DEF CompactionsStand

\* The first and the last of the positions that tell of a transaction.
LEMMA FirstAndLast ==
  ASSUME NEW S \in SUBSET Nat, NEW a \in S, NEW d \in S, \A i \in S : a <= i /\ i <= d
  PROVE  Min(S) = a /\ Max(S) = d
<1>1. \A x \in S : (\A y \in S : x <= y) => x = a
  <2> TAKE x \in S
  <2> HAVE \A y \in S : x <= y
  <2>1. x <= a /\ a <= x /\ x \in Nat /\ a \in Nat
    OBVIOUS
  <2> QED BY <2>1
<1>2. \A x \in S : (\A y \in S : x >= y) => x = d
  <2> TAKE x \in S
  <2> HAVE \A y \in S : x >= y
  <2>1. x >= d /\ x <= d /\ x \in Nat /\ d \in Nat
    OBVIOUS
  <2> QED BY <2>1
<1>3. \A y \in S : d >= y
  <2> TAKE y \in S
  <2>1. y <= d /\ y \in Nat /\ d \in Nat
    OBVIOUS
  <2> QED BY <2>1
<1> QED BY <1>1, <1>2, <1>3 DEF Min, Max

LEMMA CountTwo ==
  ASSUME NEW x, NEW y, x # y
  PROVE  IsFiniteSet({x, y}) /\ Cardinality({x, y}) = 2
<1>1. IsFiniteSet({x}) /\ Cardinality({x}) = 1
  BY FS_Singleton
<1>2. {x, y} = {x} \cup {y} /\ y \notin {x}
  OBVIOUS
<1> QED BY <1>1, <1>2, OneMore

LEMMA CountThree ==
  ASSUME NEW x, NEW y, NEW z, x # y, x # z, y # z
  PROVE  Cardinality({x, y, z}) = 3
<1>1. {x, y, z} = {x, y} \cup {z} /\ z \notin {x, y}
  OBVIOUS
<1>2. IsFiniteSet({x, y}) /\ Cardinality({x, y}) = 2
  BY CountTwo
<1>3. Cardinality({x, y} \cup {z}) = Cardinality({x, y}) + 1
  BY <1>1, <1>2, OneMore
<1> QED BY <1>1, <1>2, <1>3

\* What a projection asks, with the first and the last event and the event of the view named.
LEMMA Projected ==
  ASSUME NEW t \in TransactionIds, NEW a \in StagesOf(t), NEW d \in StagesOf(t), Min(StagesOf(t)) = a, Max(StagesOf(t)) = d,
         Starts(t, a), journal[d].payload.stage = transactions[t].state,
         NEW D, D = {i \in StagesOf(t) : journal[i].payload.stage = "view_derived"},
         viewsOf(t) = {journal[i].payload.semantics[3] : i \in D},
         \A i \in D, v \in viewsOf(t) :
           /\ journal[i].payload.semantics = <<transactions[t].from, transactions[t].to, v, views[v].cited>>
           /\ views[v].cited \subseteq transactions[t].from..transactions[t].to,
         transactions[t].state = "completed" => {journal[d].payload.semantics[1]} = viewsOf(t),
         transactions[t].state = "interrupted" => journal[d].payload.semantics = <<transactions[t].reason>>,
         Cardinality(StagesOf(t)) = Cardinality(viewsOf(t)) + IF transactions[t].state \in {"completed", "interrupted"} THEN 2 ELSE 1
  PROVE  StagesOf(t) # {} /\ Projection(t)
BY DEF Projection, Starts

\* What stands as it was told is what the projection of the events calls for.
LEMMA StagedIsProjected ==
  ASSUME IsList(journal), NEW t \in TransactionIds, transactions[t] # Absent, Staged(t)
  PROVE  StagesOf(t) # {} /\ Projection(t)
<1> DEFINE row == transactions[t]
           derived == {i \in StagesOf(t) : journal[i].payload.stage = "view_derived"}
<1>1. StagesOf(t) \in SUBSET Nat
  BY ListShape DEF StagesOf, Told
<1>2. PICK a \in StagesOf(t) : Starts(t, a) /\
         \/ row.state = "started" /\ StagesOf(t) = {a} /\ viewsOf(t) = {}
         \/ \E b \in StagesOf(t) : a < b /\
              \/ row.state = "view_derived" /\ StagesOf(t) = {a, b} /\ Derives(t, b)
              \/ row.state = "interrupted" /\ StagesOf(t) = {a, b} /\ Ends(t, b) /\ viewsOf(t) = {}
              \/ \E d \in StagesOf(t) : b < d /\ StagesOf(t) = {a, b, d} /\ Derives(t, b) /\ Ends(t, d)
  BY DEF Staged
<1>3. journal[a].payload.stage = "started" /\ journal[a].payload.semantics = <<row.from, row.to>>
  BY <1>2 DEF Starts
<1>4. CASE row.state = "started" /\ StagesOf(t) = {a} /\ viewsOf(t) = {}
  <2>1. Min(StagesOf(t)) = a /\ Max(StagesOf(t)) = a
    <3>1. \A i \in StagesOf(t) : a <= i /\ i <= a
      BY <1>1, <1>4
    <3> QED BY <1>1, <3>1, FirstAndLast
  <2>2. derived = {}
    BY <1>3, <1>4
  <2>3. Cardinality(StagesOf(t)) = 1 /\ Cardinality(viewsOf(t)) = 0
    BY <1>4, FS_Singleton, FS_EmptySet
  <2>4. viewsOf(t) = {journal[i].payload.semantics[3] : i \in {}}
    BY <1>4
  <2>5. /\ journal[a].payload.stage = row.state /\ row.state # "completed" /\ row.state # "interrupted"
        /\ Cardinality(StagesOf(t)) = Cardinality(viewsOf(t)) + IF row.state \in {"completed", "interrupted"} THEN 2 ELSE 1
    BY <1>3, <1>4, <2>3
  <2> QED BY <1>2, <2>1, <2>2, <2>4, <2>5, Projected
<1>5. CASE \E b \in StagesOf(t) : a < b /\ row.state = "view_derived" /\ StagesOf(t) = {a, b} /\ Derives(t, b)
  <2>1. PICK b \in StagesOf(t) : a < b /\ row.state = "view_derived" /\ StagesOf(t) = {a, b} /\ Derives(t, b)
    BY <1>5
  <2>2. PICK v \in ViewIds :
          /\ viewsOf(t) = {v} /\ views[v].cited \subseteq row.from..row.to
          /\ journal[b].payload.stage = "view_derived"
          /\ journal[b].payload.semantics = <<row.from, row.to, v, views[v].cited>>
    BY <2>1 DEF Derives
  <2>3. Min(StagesOf(t)) = a /\ Max(StagesOf(t)) = b
    <3>1. \A i \in StagesOf(t) : a <= i /\ i <= b
      BY <1>1, <2>1
    <3> QED BY <1>1, <3>1, FirstAndLast
  <2>4. derived = {b}
    BY <1>3, <2>1, <2>2
  <2>5. Cardinality(StagesOf(t)) = 2 /\ Cardinality(viewsOf(t)) = 1
    <3>1. a # b
      BY <1>1, <2>1
    <3>2. Cardinality({a, b}) = 2
      BY <3>1, CountTwo
    <3>3. Cardinality({v}) = 1
      BY FS_Singleton
    <3> QED BY <2>1, <2>2, <3>2, <3>3
  <2>6. viewsOf(t) = {journal[i].payload.semantics[3] : i \in {b}}
    BY <2>2
  <2>7. \A i \in {b}, w \in viewsOf(t) :
          /\ journal[i].payload.semantics = <<row.from, row.to, w, views[w].cited>>
          /\ views[w].cited \subseteq row.from..row.to
    BY <2>2
  <2>8. /\ journal[b].payload.stage = row.state /\ row.state # "completed" /\ row.state # "interrupted"
        /\ Cardinality(StagesOf(t)) = Cardinality(viewsOf(t)) + IF row.state \in {"completed", "interrupted"} THEN 2 ELSE 1
    BY <2>1, <2>2, <2>5
  <2> QED BY <1>2, <2>3, <2>4, <2>6, <2>7, <2>8, Projected
<1>6. CASE \E b \in StagesOf(t) : a < b /\ row.state = "interrupted" /\ StagesOf(t) = {a, b} /\ Ends(t, b) /\ viewsOf(t) = {}
  <2>1. PICK b \in StagesOf(t) : a < b /\ row.state = "interrupted" /\ StagesOf(t) = {a, b} /\ Ends(t, b) /\ viewsOf(t) = {}
    BY <1>6
  <2>2. journal[b].payload.stage = "interrupted" /\ journal[b].payload.semantics = <<row.reason>>
    BY <2>1 DEF Ends
  <2>3. Min(StagesOf(t)) = a /\ Max(StagesOf(t)) = b
    <3>1. \A i \in StagesOf(t) : a <= i /\ i <= b
      BY <1>1, <2>1
    <3> QED BY <1>1, <3>1, FirstAndLast
  <2>4. derived = {}
    BY <1>3, <2>1, <2>2
  <2>5. Cardinality(StagesOf(t)) = 2 /\ Cardinality(viewsOf(t)) = 0
    <3>1. a # b
      BY <1>1, <2>1
    <3>2. Cardinality({a, b}) = 2
      BY <3>1, CountTwo
    <3>3. Cardinality({}) = 0
      BY FS_EmptySet
    <3> QED BY <2>1, <3>2, <3>3
  <2>6. viewsOf(t) = {journal[i].payload.semantics[3] : i \in {}}
    BY <2>1
  <2>7. Cardinality(StagesOf(t)) = Cardinality(viewsOf(t)) + IF row.state \in {"completed", "interrupted"} THEN 2 ELSE 1
    BY <2>1, <2>5
  <2> QED BY <1>2, <2>1, <2>2, <2>3, <2>4, <2>6, <2>7, Projected
<1>7. CASE \E b \in StagesOf(t) : a < b /\ \E d \in StagesOf(t) : b < d /\ StagesOf(t) = {a, b, d} /\ Derives(t, b) /\ Ends(t, d)
  <2>1. PICK b \in StagesOf(t), d \in StagesOf(t) : a < b /\ b < d /\ StagesOf(t) = {a, b, d} /\ Derives(t, b) /\ Ends(t, d)
    BY <1>7
  <2>2. PICK v \in ViewIds :
          /\ viewsOf(t) = {v} /\ views[v].cited \subseteq row.from..row.to
          /\ journal[b].payload.stage = "view_derived"
          /\ journal[b].payload.semantics = <<row.from, row.to, v, views[v].cited>>
    BY <2>1 DEF Derives
  <2>3. /\ row.state \in {"completed", "interrupted"} /\ journal[d].payload.stage = row.state
        /\ IF row.state = "completed" THEN journal[d].payload.semantics = <<v>>
           ELSE journal[d].payload.semantics = <<row.reason>>
    BY <2>1, <2>2 DEF Ends
  <2>4. Min(StagesOf(t)) = a /\ Max(StagesOf(t)) = d
    <3>1. \A i \in StagesOf(t) : a <= i /\ i <= d
      BY <1>1, <2>1
    <3> QED BY <1>1, <3>1, FirstAndLast
  <2>5. derived = {b}
    BY <1>3, <2>1, <2>2, <2>3
  <2>6. Cardinality(StagesOf(t)) = 3 /\ Cardinality(viewsOf(t)) = 1
    <3>1. a # b /\ d # a /\ d # b
      BY <1>1, <2>1
    <3>2. Cardinality({a, b, d}) = 3
      BY <3>1, CountThree
    <3>3. Cardinality({v}) = 1
      BY FS_Singleton
    <3> QED BY <2>1, <2>2, <3>2, <3>3
  <2>8. row.state = "completed" => {journal[d].payload.semantics[1]} = viewsOf(t)
    BY <2>2, <2>3
  <2>9. \A i \in {b}, w \in viewsOf(t) :
          /\ journal[i].payload.semantics = <<row.from, row.to, w, views[w].cited>>
          /\ views[w].cited \subseteq row.from..row.to
    BY <2>2
  <2>10. viewsOf(t) = {journal[i].payload.semantics[3] : i \in {b}}
    BY <2>2
  <2>11. Cardinality(StagesOf(t)) = Cardinality(viewsOf(t)) + IF row.state \in {"completed", "interrupted"} THEN 2 ELSE 1
    BY <2>3, <2>6
  <2> QED BY <1>2, <2>3, <2>4, <2>5, <2>8, <2>9, <2>10, <2>11, Projected
<1> QED BY <1>2, <1>4, <1>5, <1>6, <1>7

LEMMA CompactionsFollow ==
  ASSUME IsList(journal), CompactionsStand
  PROVE  CompactionsFollowJournal
<1>1. ASSUME NEW t \in TransactionIds
      PROVE  IF transactions[t] = Absent THEN StagesOf(t) = {} /\ viewsOf(t) = {} ELSE StagesOf(t) # {} /\ Projection(t)
  <2>1. Staged(t)
    BY DEF CompactionsStand
  <2>2. CASE transactions[t] = Absent
    BY <2>1, <2>2 DEF Staged
  <2>3. CASE transactions[t] # Absent
    BY <2>1, <2>3, StagedIsProjected
  <2> QED BY <2>2, <2>3
<1> QED BY <1>1 DEF CompactionsFollowJournal

-----------------------------------------------------------------------------
(* Readers                                                                   *)

\* The rows between two numbers, oldest first.
Between(low, high) == [n \in 1..(high - low + 1) |-> low + n - 1]

LEMMA IntervalSize ==
  ASSUME NEW a \in Int, NEW b \in Int, a <= b + 1
  PROVE  IsFiniteSet(a..b) /\ Cardinality(a..b) = b - a + 1
<1>1. IsFiniteSet(a..b) /\ Cardinality(a..b) = IF a > b THEN 0 ELSE b - a + 1
  BY FS_Interval
<1>2. CASE a > b
  <2>1. b - a + 1 = 0
    BY <1>2
  <2> QED BY <1>1, <1>2, <2>1
<1>3. CASE ~(a > b)
  BY <1>1, <1>3
<1> QED BY <1>2, <1>3

LEMMA OldestOfInterval ==
  ASSUME NEW low \in Nat, NEW high \in Nat, low <= high + 1
  PROVE  Oldest(low..high) = Between(low, high)
<1> DEFINE S == low..high
<1>1. Cardinality(S) = high - low + 1
  BY IntervalSize
<1>2. ASSUME NEW m \in S
      PROVE  Cardinality({k \in S : k <= m}) = m - low + 1
  <2>1. {k \in S : k <= m} = low..m
    OBVIOUS
  <2>2. Cardinality(low..m) = m - low + 1
    <3>1. m \in Int /\ low \in Int /\ low <= m + 1
      OBVIOUS
    <3> QED BY <3>1, IntervalSize
  <2> QED BY <2>1, <2>2
<1>3. ASSUME NEW n \in 1..(high - low + 1)
      PROVE  (CHOOSE m \in S : Cardinality({k \in S : k <= m}) = n) = low + n - 1
  <2>1. low + n - 1 \in S /\ (low + n - 1) - low + 1 = n
    OBVIOUS
  <2>2. \A m \in S : m - low + 1 = n => m = low + n - 1
    OBVIOUS
  <2> HIDE DEF S
  <2>3. \A m \in S : Cardinality({k \in S : k <= m}) = n <=> m = low + n - 1
    BY <1>2, <2>1, <2>2
  <2> QED BY <2>1, <2>3
<1> HIDE DEF S
<1>4. Oldest(S) = [n \in 1..(high - low + 1) |-> low + n - 1]
  BY <1>1, <1>3 DEF Oldest
<1> QED BY <1>4 DEF S, Between

LEMMA BetweenJoined ==
  ASSUME NEW low \in Nat, NEW mid \in Nat, NEW high \in Nat, low <= mid + 1, mid <= high
  PROVE  /\ Between(low, mid) \o Between(mid + 1, high) = Between(low, high)
         /\ Between(low, high) \in Seq(Nat)
<1>1. \A a \in Nat, b \in Nat : a <= b + 1 => /\ Between(a, b) \in Seq(Nat) /\ Len(Between(a, b)) = b - a + 1
                                              /\ \A n \in 1..(b - a + 1) : Between(a, b)[n] = a + n - 1
  <2> TAKE a \in Nat, b \in Nat
  <2> HAVE a <= b + 1
  <2>1. b - a + 1 \in Nat
    OBVIOUS
  <2>2. Between(a, b) = [n \in 1..(b - a + 1) |-> a + n - 1]
    BY DEF Between
  <2>3. Between(a, b) \in [1..(b - a + 1) -> Nat]
    BY <2>1, <2>2
  <2>4. Between(a, b) \in Seq(Nat)
    BY <2>1, <2>3, SeqDef
  <2>5. Len(Between(a, b)) = b - a + 1
    <3>1. Len(Between(a, b)) \in Nat /\ 1..Len(Between(a, b)) = 1..(b - a + 1)
      BY <2>3, <2>4, LenProperties
    <3> QED BY <3>1, <2>1
  <2> QED BY <2>2, <2>4, <2>5
<1> DEFINE s == Between(low, mid)
           t == Between(mid + 1, high)
           u == Between(low, high)
<1>2. mid + 1 \in Nat /\ mid + 1 <= high + 1 /\ low <= high + 1
  OBVIOUS
<1>3. s \in Seq(Nat) /\ Len(s) = mid - low + 1 /\ \A n \in 1..(mid - low + 1) : s[n] = low + n - 1
  BY <1>1
<1>4. t \in Seq(Nat) /\ Len(t) = high - mid /\ \A n \in 1..(high - mid) : t[n] = mid + n
  <2>1. /\ t \in Seq(Nat) /\ Len(t) = high - (mid + 1) + 1
        /\ \A n \in 1..(high - (mid + 1) + 1) : t[n] = (mid + 1) + n - 1
    BY <1>1, <1>2
  <2>2. high - (mid + 1) + 1 = high - mid
    OBVIOUS
  <2>3. \A n \in 1..(high - mid) : (mid + 1) + n - 1 = mid + n
    OBVIOUS
  <2> HIDE DEF t
  <2> QED BY <2>1, <2>2, <2>3
<1>5. u \in Seq(Nat) /\ Len(u) = high - low + 1 /\ \A n \in 1..(high - low + 1) : u[n] = low + n - 1
  BY <1>1, <1>2
<1> HIDE DEF s, t, u
<1>6. /\ s \o t \in Seq(Nat) /\ Len(s \o t) = Len(s) + Len(t)
      /\ \A i \in 1..Len(s) + Len(t) : (s \o t)[i] = IF i <= Len(s) THEN s[i] ELSE t[i - Len(s)]
  BY <1>3, <1>4, ConcatProperties
<1>7. ASSUME NEW i \in 1..Len(s \o t)
      PROVE  (s \o t)[i] = u[i]
  <2>1. i \in 1..(high - low + 1) /\ u[i] = low + i - 1
    BY <1>3, <1>4, <1>5, <1>6
  <2>2. CASE i <= Len(s)
    BY <2>1, <2>2, <1>3, <1>4, <1>6
  <2>3. CASE ~(i <= Len(s))
    <3>1. i - Len(s) \in 1..(high - mid) /\ mid + (i - Len(s)) = low + i - 1
      BY <2>1, <2>3, <1>3
    <3> QED BY <2>1, <2>3, <3>1, <1>4, <1>6
  <2> QED BY <2>2, <2>3
<1>8. Len(s \o t) = Len(u)
  BY <1>3, <1>4, <1>5, <1>6
<1>9. s \o t = u
  BY <1>5, <1>6, <1>7, <1>8, SeqEqual
<1> QED BY <1>5, <1>9 DEF s, t, u

\* Where the Messages begin that the reader was shown.
ShownFrom == IF walk.cursor > 0 THEN walk.cursor ELSE walk.after + 1

LEMMA WalkReads ==
  WalksReadEveryMessageOnce <=> (walk # NoWalk => walk.shown = Between(ShownFrom, walk.top))
BY DEF WalksReadEveryMessageOnce, Between, ShownFrom

LEMMA WalkRow ==
  ASSUME NEW row \in WalkRows
  PROVE  row.chat \in ChatIds \cup {Absent} /\ row.after \in Nat /\ row.cursor \in Nat /\ row.shown \in Seq(Nat) /\ row.top \in Nat
BY DEF WalkRows

\* A reader is not disturbed by what is said behind it.
LEMMA WalkUndisturbed ==
  ASSUME WalkStands, walk' = walk, TypedChats, TypedChats', \A c \in ChatIds : Len(messages'[c]) >= Len(messages[c]), walk \in WalkRows
  PROVE  WalkStands'
<1>1. ASSUME walk # NoWalk
      PROVE  /\ walk.chat \in ChatIds /\ walk.top <= Len(messages'[walk.chat])
             /\ walk.after <= walk.top /\ (walk.cursor > 0 => walk.after < walk.cursor /\ walk.cursor <= walk.top + 1)
  <2>1. /\ walk.chat \in ChatIds /\ walk.top <= Len(messages[walk.chat])
        /\ walk.after <= walk.top /\ (walk.cursor > 0 => walk.after < walk.cursor /\ walk.cursor <= walk.top + 1)
    BY <1>1 DEF WalkStands
  <2>2. Len(messages[walk.chat]) \in Nat /\ walk.top \in Nat
    BY <2>1, MessagesAreLists, WalkRow
  <2>3. Len(messages'[walk.chat]) \in Nat
    <3>1. messages' \in [ChatIds -> Seq(MessageRows)]
      BY DEF TypedChats
    <3>2. messages'[walk.chat] \in Seq(MessageRows)
      BY <2>1, <3>1
    <3> QED BY <3>2, LenProperties
  <2>4. Len(messages'[walk.chat]) >= Len(messages[walk.chat])
    BY <2>1
  <2> QED BY <2>1, <2>2, <2>3, <2>4
<1>2. WalkStands => WalksReadEveryMessageOnce'
  BY DEF WalkStands, WalksReadEveryMessageOnce
<1> QED BY <1>1, <1>2 DEF WalkStands

LEMMA WalkStarted ==
  ASSUME TypedChats, NEW c \in ChatIds, NEW after \in Nat, NEW before \in Nat, startWalk(c, after, before)
  PROVE  walk' \in WalkRows /\ WalkStands'
<1> DEFINE row == [chat |-> c, after |-> after, cursor |-> before, shown |-> <<>>, top |-> before - 1]
<1>1. walk' = row /\ before \in 1..(Len(messages[c]) + 1) /\ after < before /\ messages' = messages
  BY DEF startWalk
<1>2. before - 1 \in Nat /\ before >= 1 /\ before - 1 <= Len(messages[c])
  BY <1>1, MessagesAreLists
<1>3. row \in WalkRows
  <2>1. <<>> \in Seq(Nat)
    BY EmptySeq
  <2> QED BY <1>2, <2>1 DEF WalkRows
<1>4. /\ row.chat = c /\ row.after = after /\ row.cursor = before /\ row.shown = <<>> /\ row.top = before - 1
  OBVIOUS
<1> HIDE DEF row
<1>5. Between(before, before - 1) = <<>>
  <2>1. (before - 1) - before + 1 = 0
    BY <1>2
  <2>2. 1..0 = {}
    OBVIOUS
  <2>3. Between(before, before - 1) = [n \in {} |-> before + n - 1]
    BY <2>1, <2>2 DEF Between
  <2> QED BY <2>3
<1>6. WalksReadEveryMessageOnce'
  <2>1. before > 0
    BY <1>2
  <2> QED BY <1>1, <1>4, <1>5, <2>1 DEF WalksReadEveryMessageOnce, Between
<1>7. after <= before - 1 /\ before <= before - 1 + 1
  BY <1>1, <1>2
<1> QED BY <1>1, <1>2, <1>3, <1>4, <1>6, <1>7 DEF WalkStands

\* A page is the last rows before the cursor, as many as it holds.
LEMMA PageOfRows ==
  ASSUME TypedChats, WalkStands, walk \in WalkRows, walk # NoWalk, walk.cursor > 0
  PROVE  LET low == IF walk.cursor - 1 - walk.after > PageLimit THEN walk.cursor - PageLimit ELSE walk.after + 1 IN
         /\ Cardinality(pageRows) = walk.cursor - 1 - walk.after
         /\ Shown = low..(walk.cursor - 1)
         /\ low \in Nat /\ walk.after < low /\ low <= walk.cursor
         /\ walk.cursor - 1 - walk.after > PageLimit => Min(Shown) = low
<1> DEFINE low == IF walk.cursor - 1 - walk.after > PageLimit THEN walk.cursor - PageLimit ELSE walk.after + 1
           high == walk.cursor - 1
<1>1. /\ walk.chat \in ChatIds /\ walk.top <= Len(messages[walk.chat])
      /\ walk.after < walk.cursor /\ walk.cursor <= walk.top + 1
  BY DEF WalkStands
<1>2. walk.after \in Nat /\ walk.cursor \in Nat /\ walk.top \in Nat /\ PageLimit \in Nat /\ PageLimit >= 1
  BY WalkRow, ConversationsAssumption
<1>3. DOMAIN messages[walk.chat] = 1..Len(messages[walk.chat]) /\ Len(messages[walk.chat]) \in Nat
  BY <1>1, MessagesAreLists
<1>4. high \in Nat /\ walk.after + 1 <= high + 1 /\ high <= Len(messages[walk.chat])
  BY <1>1, <1>2, <1>3
<1>5. low \in Nat /\ walk.after < low /\ low <= walk.cursor
  BY <1>1, <1>2
<1>6. pageRows = (walk.after + 1)..high
  BY <1>1, <1>2, <1>3, <1>4 DEF pageRows
<1>7. Cardinality(pageRows) = walk.cursor - 1 - walk.after
  <2>1. Cardinality((walk.after + 1)..high) = high - (walk.after + 1) + 1
    <3>1. walk.after + 1 \in Int /\ high \in Int
      BY <1>2
    <3> QED BY <1>4, <3>1, IntervalSize
  <2>2. high - (walk.after + 1) + 1 = walk.cursor - 1 - walk.after
    BY <1>2
  <2> QED BY <1>6, <2>1, <2>2
<1>8. ASSUME NEW n \in pageRows
      PROVE  Cardinality({m \in pageRows : m > n}) = high - n
  <2>1. {m \in pageRows : m > n} = (n + 1)..high
    BY <1>2, <1>4, <1>6
  <2>2. n \in Int /\ n + 1 <= high + 1 /\ high - (n + 1) + 1 = high - n
    BY <1>2, <1>4, <1>6
  <2>3. Cardinality((n + 1)..high) = high - (n + 1) + 1
    <3>1. n + 1 \in Int /\ high \in Int /\ n + 1 <= high + 1
      BY <1>4, <2>2
    <3> HIDE DEF low, high
    <3> QED BY <3>1, IntervalSize
  <2> QED BY <2>1, <2>2, <2>3
<1>9. Shown = low..high
  <2>1. Shown = {n \in pageRows : high - n < PageLimit}
    BY <1>8 DEF Shown
  <2>2. \A n \in (walk.after + 1)..high : high - n < PageLimit <=> n \in low..high
    BY <1>1, <1>2
  <2>3. low..high \subseteq (walk.after + 1)..high
    BY <1>2, <1>4, <1>5
  <2> HIDE DEF low, high
  <2> QED BY <1>6, <2>1, <2>2, <2>3
<1>10. ASSUME walk.cursor - 1 - walk.after > PageLimit
       PROVE  Min(Shown) = low
  <2>1. low \in low..high /\ high \in low..high
    BY <1>2, <1>10
  <2>2. low..high \in SUBSET Nat /\ \A i \in low..high : low <= i /\ i <= high
    BY <1>2, <1>4, <1>5
  <2> HIDE DEF low, high
  <2> QED BY <1>9, <2>1, <2>2, FirstAndLast
<1> QED BY <1>5, <1>7, <1>9, <1>10

LEMMA WalkTurned ==
  ASSUME TypedChats, WalkStands, walk \in WalkRows, nextPage
  PROVE  walk' \in WalkRows /\ WalkStands'
<1> DEFINE more == walk.cursor - 1 - walk.after > PageLimit
           low == IF walk.cursor - 1 - walk.after > PageLimit THEN walk.cursor - PageLimit ELSE walk.after + 1
           cursor == IF more THEN low ELSE 0
<1>1. /\ walk.cursor > 0 /\ messages' = messages
      /\ walk' = [walk EXCEPT !.shown = Oldest(Shown) \o @,
                              !.cursor = IF Cardinality(pageRows) > PageLimit THEN Min(Shown) ELSE 0]
  BY DEF nextPage
<1>2. walk # NoWalk
  BY <1>1 DEF NoWalk
<1>3. /\ walk.chat \in ChatIds /\ walk.top <= Len(messages[walk.chat]) /\ walk.after <= walk.top
      /\ walk.after < walk.cursor /\ walk.cursor <= walk.top + 1
      /\ walk.shown = Between(walk.cursor, walk.top)
  BY <1>1, <1>2, WalkReads DEF WalkStands, ShownFrom
<1>4. walk.after \in Nat /\ walk.cursor \in Nat /\ walk.top \in Nat /\ PageLimit \in Nat /\ PageLimit >= 1
  BY WalkRow, ConversationsAssumption
<1>5. /\ Cardinality(pageRows) = walk.cursor - 1 - walk.after
      /\ Shown = low..(walk.cursor - 1)
      /\ low \in Nat /\ walk.after < low /\ low <= walk.cursor
      /\ more => Min(Shown) = low
  BY <1>1, <1>2, PageOfRows
<1>6. walk.cursor - 1 \in Nat /\ (walk.cursor - 1) + 1 = walk.cursor /\ walk.cursor - 1 <= walk.top
  BY <1>1, <1>3, <1>4
<1> HIDE DEF low
<1>7. Oldest(Shown) = Between(low, walk.cursor - 1)
  BY <1>5, <1>6, OldestOfInterval
<1>8. /\ Oldest(Shown) \o walk.shown = Between(low, walk.top)
      /\ Between(low, walk.top) \in Seq(Nat)
  <2>1. Between(low, walk.cursor - 1) \o Between((walk.cursor - 1) + 1, walk.top) = Between(low, walk.top)
        /\ Between(low, walk.top) \in Seq(Nat)
    BY <1>4, <1>5, <1>6, BetweenJoined
  <2> QED BY <1>3, <1>6, <1>7, <2>1
<1>9. cursor \in Nat /\ walk' = [walk EXCEPT !.shown = Between(low, walk.top), !.cursor = cursor]
  BY <1>1, <1>5, <1>8
<1> HIDE DEF cursor
<1>10. /\ walk' \in WalkRows /\ walk'.cursor = cursor /\ walk'.shown = Between(low, walk.top)
       /\ walk'.chat = walk.chat /\ walk'.after = walk.after /\ walk'.top = walk.top
  BY <1>8, <1>9 DEF WalkRows
<1>11. low = (IF cursor > 0 THEN cursor ELSE walk.after + 1) /\ (cursor > 0 => walk.after < cursor /\ cursor <= walk.top + 1)
  <2>1. CASE more
    <3>1. cursor = low /\ low > 0 /\ low <= walk.top + 1
      BY <2>1, <1>3, <1>4, <1>5 DEF cursor
    <3> QED BY <3>1, <1>5
  <2>2. CASE ~more
    BY <2>2 DEF cursor, low
  <2> QED BY <2>1, <2>2
<1>12. WalksReadEveryMessageOnce'
  BY <1>10, <1>11 DEF WalksReadEveryMessageOnce, Between
<1> QED BY <1>1, <1>3, <1>10, <1>11, <1>12 DEF WalkStands

LEMMA WalkEnded ==
  ASSUME walk' = NoWalk
  PROVE  walk' \in WalkRows /\ WalkStands'
<1>1. NoWalk \in WalkRows
  <2>1. <<>> \in Seq(Nat)
    BY EmptySeq
  <2> QED BY <2>1 DEF NoWalk, WalkRows
<1>2. NoWalk' = NoWalk
  BY DEF NoWalk
<1> QED BY <1>1, <1>2 DEF WalkStands, WalksReadEveryMessageOnce

-----------------------------------------------------------------------------
(* The edits of a TaskList                                                   *)

LEMMA ItemRow ==
  ASSUME NEW items \in ItemTables, NEW i \in Listed(items)
  PROVE  /\ i \in TaskItems /\ i # Absent /\ items[i] \in ItemRows /\ items[i] # Absent
         /\ items[i].parent \in TaskItems \cup {Absent} /\ items[i].order \in Nat
         /\ items[i].state \in ItemStates /\ items[i].children \in SUBSET DOMAIN ParentRun
<1>1. i \in TaskItems /\ items[i] # Absent
  BY DEF Listed
<1>2. items[i] \in ItemRows
  BY <1>1 DEF ItemTables
<1> QED BY <1>1, <1>2, TaskListsAssumption DEF ItemRows

LEMMA NewItemRow ==
  ASSUME NEW parent \in TaskItems \cup {Absent}, NEW order \in Nat
  PROVE  /\ NewItem(parent, order) \in ItemRows /\ NewItem(parent, order) # Absent
         /\ NewItem(parent, order).parent = parent /\ NewItem(parent, order).order = order
         /\ NewItem(parent, order).children = {}
<1>1. NewItem(parent, order) \in ItemRows
  BY DEF NewItem, ItemRows, ItemStates
<1> QED BY <1>1, TaskListsAssumption DEF NewItem

LEMMA SiblingsAreFew ==
  ASSUME NEW items, NEW parent
  PROVE  IsFiniteSet(Siblings(items, parent)) /\ Cardinality(Siblings(items, parent)) \in Nat
<1>1. Siblings(items, parent) \in SUBSET TaskItems /\ IsFiniteSet(TaskItems)
  BY TaskListsAssumption DEF Siblings, Listed
<1> QED BY <1>1, FS_Subset, FS_CardinalityType

\* No item is above itself: some set upwards of it leaves it out.
LEMMA NotAbove ==
  ASSUME NEW items, NEW i, NEW S \in SUBSET (Listed(items) \cup {Absent}), items[i].parent \in S, ClosedUpwards(items, S), i \notin S
  PROVE  i \notin Ancestors(items, i)
BY DEF Ancestors

LEMMA LeftOut ==
  ASSUME NEW items, NEW i \in Listed(items), i \notin Ancestors(items, i)
  PROVE  \E S \in SUBSET (Listed(items) \cup {Absent}) : items[i].parent \in S /\ ClosedUpwards(items, S) /\ i \notin S
BY DEF Ancestors

Placed(items, parent) == {items[i].order : i \in Siblings(items, parent)} = 0..(Cardinality(Siblings(items, parent)) - 1)

LEMMA Tree ==
  ASSUME NEW items
  PROVE  finalizeTaskList(items) <=>
           /\ \A i \in Listed(items) : assertParent(items, items[i].parent) /\ i \notin Ancestors(items, i)
           /\ \A i, j \in Listed(items) : i # j => items[i].children \cap items[j].children = {}
           /\ \A parent \in Listed(items) \cup {Absent} : Placed(items, parent)
BY DEF finalizeTaskList, Placed

\* An edit that moves no item to another parent and keeps the places taken keeps the tree.
LEMMA SameForest ==
  ASSUME NEW items \in ItemTables, NEW after, finalizeTaskList(items), Listed(after) = Listed(items),
         \A i \in Listed(items) : after[i].parent = items[i].parent,
         \A i, j \in Listed(items) : i # j => after[i].children \cap after[j].children = {},
         \A parent \in Listed(items) \cup {Absent} :
           {after[i].order : i \in Siblings(items, parent)} = {items[i].order : i \in Siblings(items, parent)}
  PROVE  finalizeTaskList(after)
<1>1. \A i \in Listed(after) : assertParent(after, after[i].parent)
  BY Tree DEF assertParent
<1>2. ASSUME NEW i \in Listed(after)
      PROVE  i \notin Ancestors(after, i)
  <2>1. i \notin Ancestors(items, i)
    BY Tree
  <2>2. PICK S \in SUBSET (Listed(items) \cup {Absent}) : items[i].parent \in S /\ ClosedUpwards(items, S) /\ i \notin S
    BY <2>1, LeftOut
  <2>3. after[i].parent \in S /\ ClosedUpwards(after, S)
    BY <2>2 DEF ClosedUpwards
  <2> QED BY <2>2, <2>3, NotAbove
<1>3. \A parent : Siblings(after, parent) = Siblings(items, parent)
  BY DEF Siblings
<1>4. ASSUME NEW parent \in Listed(after) \cup {Absent}
      PROVE  Placed(after, parent)
  <2>1. Placed(items, parent)
    BY Tree
  <2>2. {after[i].order : i \in Siblings(items, parent)} = {items[i].order : i \in Siblings(items, parent)}
    OBVIOUS
  <2>3. {after[i].order : i \in Siblings(items, parent)} = 0..(Cardinality(Siblings(items, parent)) - 1)
    BY <2>1, <2>2 DEF Placed
  <2>4. Siblings(after, parent) = Siblings(items, parent)
    BY <1>3
  <2> QED BY <2>3, <2>4 DEF Placed
<1> QED BY <1>1, <1>2, <1>4, Tree

LEMMA StateUpdated ==
  ASSUME NEW items \in ItemTables, finalizeTaskList(items), NEW after \in updateState(items)
  PROVE  after \in ItemTables /\ finalizeTaskList(after)
<1>1. PICK i \in Listed(items) : \E state \in TaskItemStateTransitions[items[i].state] : after = [items EXCEPT ![i].state = state]
  BY DEF updateState
<1>2. PICK state \in TaskItemStateTransitions[items[i].state] : after = [items EXCEPT ![i].state = state]
  BY <1>1
<1>3. state \in ItemStates /\ items[i] \in ItemRows /\ i \in TaskItems
  <2>1. items[i].state \in ItemStates /\ items[i] \in ItemRows /\ i \in TaskItems
    BY ItemRow
  <2>2. \A s \in ItemStates : TaskItemStateTransitions[s] \subseteq ItemStates
    BY DEF ItemStates, TaskItemStateTransitions
  <2> QED BY <2>1, <2>2
<1> DEFINE row == [items[i] EXCEPT !.state = state]
<1>4. row \in ItemRows /\ row.parent = items[i].parent /\ row.order = items[i].order /\ row.children = items[i].children
  BY <1>3 DEF ItemRows
<1>5. row # Absent
  BY <1>4, TaskListsAssumption
<1>6. after \in ItemTables /\ after[i] = row /\ \A j \in TaskItems : j # i => after[j] = items[j]
  BY <1>2, <1>3, <1>4 DEF ItemTables
<1> HIDE DEF row
<1>7. Listed(after) = Listed(items)
  BY <1>3, <1>5, <1>6 DEF Listed
<1>8. \A j \in Listed(items) : /\ after[j].parent = items[j].parent /\ after[j].order = items[j].order
                               /\ after[j].children = items[j].children
  BY <1>4, <1>6, ItemRow
<1>9. \A j, k \in Listed(items) : j # k => after[j].children \cap after[k].children = {}
  BY <1>8, Tree
<1>10. \A parent : {after[j].order : j \in Siblings(items, parent)} = {items[j].order : j \in Siblings(items, parent)}
  BY <1>8 DEF Siblings
<1> QED BY <1>6, <1>7, <1>8, <1>9, <1>10, SameForest

LEMMA ChildLinked ==
  ASSUME NEW items \in ItemTables, finalizeTaskList(items), NEW after \in linkChild(items)
  PROVE  after \in ItemTables /\ finalizeTaskList(after)
<1>1. PICK i \in Listed(items), q \in DOMAIN ParentRun :
        after = [items EXCEPT ![i].children = @ \cup {q}] /\ \A j \in Listed(items) : q \notin items[j].children
  BY DEF linkChild
<1>2. items[i] \in ItemRows /\ i \in TaskItems /\ items[i].children \in SUBSET DOMAIN ParentRun
  BY ItemRow
<1> DEFINE row == [items[i] EXCEPT !.children = @ \cup {q}]
<1>3. row \in ItemRows /\ row.parent = items[i].parent /\ row.order = items[i].order /\ row.children = items[i].children \cup {q}
  BY <1>2 DEF ItemRows
<1>4. row # Absent
  BY <1>3, TaskListsAssumption
<1>5. after \in ItemTables /\ after[i] = row /\ \A j \in TaskItems : j # i => after[j] = items[j]
  BY <1>1, <1>2, <1>3 DEF ItemTables
<1> HIDE DEF row
<1>6. Listed(after) = Listed(items)
  BY <1>2, <1>4, <1>5 DEF Listed
<1>7. \A j \in Listed(items) : /\ after[j].parent = items[j].parent /\ after[j].order = items[j].order
                               /\ j # i => after[j].children = items[j].children
  BY <1>3, <1>5, ItemRow
<1>8. \A j, k \in Listed(items) : j # k => after[j].children \cap after[k].children = {}
  <2> TAKE j, k \in Listed(items)
  <2> HAVE j # k
  <2>1. items[j].children \cap items[k].children = {} /\ q \notin items[j].children /\ q \notin items[k].children
    BY <1>1, Tree
  <2>2. after[i].children = items[i].children \cup {q}
    BY <1>3, <1>5
  <2> QED BY <1>7, <2>1, <2>2
<1>9. \A parent : {after[j].order : j \in Siblings(items, parent)} = {items[j].order : j \in Siblings(items, parent)}
  BY <1>7 DEF Siblings
<1> QED BY <1>5, <1>6, <1>7, <1>8, <1>9, SameForest

LEMMA SiblingsReordered ==
  ASSUME NEW items \in ItemTables, finalizeTaskList(items), NEW after \in reorderSiblings(items)
  PROVE  after \in ItemTables /\ finalizeTaskList(after)
<1>1. PICK parent \in Listed(items) \cup {Absent} : \E place \in Places(Siblings(items, parent)) :
        after = [i \in TaskItems |-> IF i \in Siblings(items, parent) THEN [items[i] EXCEPT !.order = place[i]] ELSE items[i]]
  BY DEF reorderSiblings
<1>2. PICK place \in Places(Siblings(items, parent)) :
        after = [i \in TaskItems |-> IF i \in Siblings(items, parent) THEN [items[i] EXCEPT !.order = place[i]] ELSE items[i]]
  BY <1>1
<1> DEFINE S == Siblings(items, parent)
           n == Cardinality(S)
<1>3. n \in Nat /\ S \subseteq Listed(items) /\ S \subseteq TaskItems
  BY SiblingsAreFew DEF Siblings, Listed
<1>4. /\ \A i \in S : place[i] \in 0..(n - 1)
      /\ \A k \in 0..(n - 1) : \E i \in S : place[i] = k
  BY DEF Places, Bijection, Injection, Surjection
<1>5. ASSUME NEW i \in S
      PROVE  /\ after[i] \in ItemRows /\ after[i] # Absent /\ after[i].parent = items[i].parent
             /\ after[i].order = place[i] /\ after[i].children = items[i].children
  <2>1. after[i] = [items[i] EXCEPT !.order = place[i]]
    BY <1>2, <1>3
  <2>2. items[i] \in ItemRows /\ place[i] \in Nat
    BY <1>3, <1>4, ItemRow
  <2>3. /\ after[i] \in ItemRows /\ after[i].parent = items[i].parent
        /\ after[i].order = place[i] /\ after[i].children = items[i].children
    BY <2>1, <2>2 DEF ItemRows
  <2> QED BY <2>3, TaskListsAssumption
<1>6. \A i \in TaskItems : i \notin S => after[i] = items[i]
  BY <1>2
<1>7. after \in ItemTables
  <2>1. after = [i \in TaskItems |-> after[i]]
    BY <1>2
  <2>2. \A i \in TaskItems : after[i] \in ItemRows \cup {Absent}
    BY <1>5, <1>6 DEF ItemTables
  <2> HIDE DEF S
  <2> QED BY <2>1, <2>2 DEF ItemTables
<1> HIDE DEF n
<1>8. Listed(after) = Listed(items)
  BY <1>3, <1>5, <1>6 DEF Listed
<1>9. \A i \in Listed(items) : after[i].parent = items[i].parent /\ after[i].children = items[i].children
  BY <1>5, <1>6, ItemRow
<1>10. \A i, j \in Listed(items) : i # j => after[i].children \cap after[j].children = {}
  BY <1>9, Tree
<1>11. ASSUME NEW p \in Listed(items) \cup {Absent}
       PROVE  {after[i].order : i \in Siblings(items, p)} = {items[i].order : i \in Siblings(items, p)}
  <2>1. CASE p = parent
    <3>1. {items[i].order : i \in S} = 0..(n - 1)
      BY Tree DEF Placed, n
    <3>2. {after[i].order : i \in S} = 0..(n - 1)
      BY <1>4, <1>5
    <3> QED BY <2>1, <3>1, <3>2
  <2>2. CASE p # parent
    <3>1. \A i \in Siblings(items, p) : after[i] = items[i]
      BY <2>2, <1>6 DEF Siblings, Listed
    <3> QED BY <3>1
  <2> QED BY <2>1, <2>2
<1> QED BY <1>7, <1>8, <1>9, <1>10, <1>11, SameForest

\* A new item takes its place, and the siblings from there on move up one.
LEMMA ItemAdded ==
  ASSUME NEW items \in ItemTables, finalizeTaskList(items), NEW after \in addItem(items)
  PROVE  after \in ItemTables /\ finalizeTaskList(after)
<1>1. PICK id \in TaskItems \ Listed(items), parent \in Listed(items) \cup {Absent} :
        \E order \in 0..Cardinality(Siblings(items, parent)) : after = itemAdded(items, id, parent, order)
  BY DEF addItem
<1>2. PICK order \in 0..Cardinality(Siblings(items, parent)) : after = itemAdded(items, id, parent, order)
  BY <1>1
<1> DEFINE S == Siblings(items, parent)
           n == Cardinality(S)
<1>3. n \in Nat /\ S \subseteq Listed(items) /\ IsFiniteSet(S) /\ order \in Nat /\ order <= n
  <2>1. n \in Nat /\ IsFiniteSet(S) /\ S \subseteq Listed(items)
    BY SiblingsAreFew DEF Siblings
  <2> QED BY <2>1
<1>4. /\ id \in TaskItems /\ id \notin Listed(items) /\ id # Absent /\ parent \in TaskItems \cup {Absent} /\ parent # id
      /\ Listed(items) \subseteq TaskItems
  BY TaskListsAssumption DEF Listed
<1>5. after = [i \in TaskItems |->
                 IF i = id THEN NewItem(parent, order)
                 ELSE IF i \in S /\ items[i].order >= order THEN [items[i] EXCEPT !.order = @ + 1]
                 ELSE items[i]]
  BY <1>2 DEF itemAdded
<1>6. /\ after[id] \in ItemRows /\ after[id] # Absent /\ after[id].parent = parent /\ after[id].order = order
      /\ after[id].children = {}
  BY <1>3, <1>4, <1>5, NewItemRow
<1>7. ASSUME NEW i \in Listed(items)
      PROVE  /\ i # id /\ after[i] \in ItemRows /\ after[i] # Absent /\ after[i].parent = items[i].parent
             /\ after[i].children = items[i].children
             /\ after[i].order = IF i \in S /\ items[i].order >= order THEN items[i].order + 1 ELSE items[i].order
  <2>1. items[i] \in ItemRows /\ items[i].order \in Nat /\ items[i].order + 1 \in Nat /\ i \in TaskItems /\ i # id
    BY <1>4, ItemRow
  <2>2. after[i] = IF i \in S /\ items[i].order >= order THEN [items[i] EXCEPT !.order = items[i].order + 1] ELSE items[i]
    BY <1>5, <2>1
  <2> HIDE DEF S
  <2>3. /\ after[i] \in ItemRows /\ after[i].parent = items[i].parent /\ after[i].children = items[i].children
        /\ after[i].order = IF i \in S /\ items[i].order >= order THEN items[i].order + 1 ELSE items[i].order
    BY <2>1, <2>2 DEF ItemRows
  <2> QED BY <2>1, <2>3, TaskListsAssumption
<1>8. ASSUME NEW i \in TaskItems, i # id, i \notin Listed(items)
      PROVE  after[i] = Absent
  BY <1>3, <1>5, <1>8 DEF Listed
<1>9. after \in ItemTables
  <2>1. after = [i \in TaskItems |-> after[i]]
    BY <1>5
  <2>2. \A i \in TaskItems : after[i] \in ItemRows \cup {Absent}
    BY <1>6, <1>7, <1>8
  <2> HIDE DEF S
  <2> QED BY <2>1, <2>2 DEF ItemTables
<1>10. Listed(after) = Listed(items) \cup {id}
  BY <1>4, <1>6, <1>7, <1>8 DEF Listed
<1>11. \A i \in Listed(items) : items[i].parent \in Listed(items) \cup {Absent}
  BY Tree DEF assertParent
<1> HIDE DEF S, n
<1>12. ASSUME NEW i \in Listed(after)
       PROVE  assertParent(after, after[i].parent) /\ i \notin Ancestors(after, i)
  <2>1. CASE i = id
    <3>1. after[i].parent \in Listed(items) \cup {Absent}
      BY <2>1, <1>6
    <3>2. ClosedUpwards(after, Listed(items) \cup {Absent})
      BY <1>4, <1>7, <1>10, <1>11 DEF ClosedUpwards
    <3>3. i \notin Listed(items) \cup {Absent} /\ Listed(items) \cup {Absent} \in SUBSET (Listed(after) \cup {Absent})
      BY <2>1, <1>4, <1>10
    <3>4. i \notin Ancestors(after, i)
      BY <3>1, <3>2, <3>3, NotAbove
    <3> QED BY <3>1, <3>4, <1>10 DEF assertParent
  <2>2. CASE i \in Listed(items)
    <3>1. i \notin Ancestors(items, i)
      BY <2>2, Tree
    <3>2. PICK T \in SUBSET (Listed(items) \cup {Absent}) : items[i].parent \in T /\ ClosedUpwards(items, T) /\ i \notin T
      BY <2>2, <3>1, LeftOut
    <3>3. T \in SUBSET (Listed(after) \cup {Absent}) /\ after[i].parent \in T /\ ClosedUpwards(after, T)
      BY <2>2, <3>2, <1>4, <1>7, <1>10 DEF ClosedUpwards
    <3>4. i \notin Ancestors(after, i)
      BY <3>2, <3>3, NotAbove
    <3> QED BY <2>2, <3>4, <1>7, <1>10, <1>11 DEF assertParent
  <2> QED BY <1>10, <2>1, <2>2
<1>13. \A i, j \in Listed(after) : i # j => after[i].children \cap after[j].children = {}
  <2>1. \A i, j \in Listed(items) : i # j => items[i].children \cap items[j].children = {}
    BY Tree
  <2> QED BY <1>6, <1>7, <1>10, <2>1
<1>14. ASSUME NEW p \in Listed(after) \cup {Absent}
       PROVE  Placed(after, p)
  <2>1. CASE p = parent
    <3>1. Siblings(after, p) = S \cup {id} /\ id \notin S
      BY <2>1, <1>3, <1>4, <1>6, <1>7, <1>10 DEF Siblings, S
    <3>2. Cardinality(Siblings(after, p)) = n + 1
      BY <3>1, <1>3, OneMore DEF n
    <3>3. {items[i].order : i \in S} = 0..(n - 1)
      BY Tree DEF Placed, S, n
    <3>4. ASSUME NEW i \in S \cup {id}
          PROVE  after[i].order \in 0..n
      <4>1. CASE i = id
        BY <4>1, <1>3, <1>6
      <4>2. CASE i \in S
        <5>1. items[i].order \in 0..(n - 1) /\ i \in Listed(items)
          BY <4>2, <3>3, <1>3
        <5> QED BY <4>2, <5>1, <1>3, <1>7
      <4> QED BY <4>1, <4>2
    <3>5. ASSUME NEW k \in 0..n
          PROVE  \E i \in S \cup {id} : after[i].order = k
      <4>1. CASE k < order
        <5>1. k \in 0..(n - 1)
          BY <4>1, <1>3
        <5>2. PICK i \in S : items[i].order = k
          BY <5>1, <3>3
        <5>3. after[i].order = k
          BY <4>1, <5>2, <1>3, <1>7
        <5> QED BY <5>3
      <4>2. CASE k = order
        BY <4>2, <1>6
      <4>3. CASE k > order
        <5>1. k - 1 \in 0..(n - 1) /\ k - 1 >= order
          BY <4>3, <1>3
        <5>2. PICK i \in S : items[i].order = k - 1
          BY <5>1, <3>3
        <5>3. after[i].order = k
          BY <5>1, <5>2, <1>3, <1>7
        <5> QED BY <5>3
      <4> QED BY <4>1, <4>2, <4>3, <1>3
    <3>6. {after[i].order : i \in S \cup {id}} = 0..n
      BY <3>4, <3>5
    <3>7. n + 1 - 1 = n
      BY <1>3
    <3>8. {after[i].order : i \in Siblings(after, p)} = 0..n
      BY <3>1, <3>6
    <3>9. Cardinality(Siblings(after, p)) - 1 = n
      BY <3>2, <1>3
    <3> QED BY <3>8, <3>9 DEF Placed
  <2>2. CASE p = id
    <3>1. Siblings(after, p) = {}
      BY <2>2, <1>4, <1>6, <1>7, <1>10, <1>11 DEF Siblings
    <3>2. Cardinality({}) = 0 /\ 0..(0 - 1) = {}
      BY FS_EmptySet
    <3> QED BY <3>1, <3>2 DEF Placed
  <2>3. CASE p # parent /\ p # id
    <3>1. Siblings(after, p) = Siblings(items, p) /\ Siblings(items, p) \subseteq Listed(items)
      BY <2>3, <1>6, <1>7, <1>10 DEF Siblings
    <3>2. \A i \in Siblings(items, p) : after[i].order = items[i].order
      BY <2>3, <3>1, <1>7 DEF Siblings, S
    <3>3. p \in Listed(items) \cup {Absent}
      BY <2>3, <1>10
    <3>4. Placed(items, p)
      BY <3>3, Tree
    <3>5. {after[i].order : i \in Siblings(items, p)} = {items[i].order : i \in Siblings(items, p)}
      BY <3>2
    <3> QED BY <3>1, <3>4, <3>5 DEF Placed
  <2> QED BY <2>1, <2>2, <2>3
<1> QED BY <1>9, <1>12, <1>13, <1>14, Tree

\* No two siblings have the same place.
LEMMA OrdersDiffer ==
  ASSUME NEW items, NEW parent, Placed(items, parent)
  PROVE  \A i, j \in Siblings(items, parent) : items[i].order = items[j].order => i = j
<1> DEFINE S == Siblings(items, parent)
           n == Cardinality(S)
           T == 0..(n - 1)
           f == [i \in S |-> items[i].order]
<1>1. n \in Nat /\ IsFiniteSet(S)
  BY SiblingsAreFew
<1>2. {items[i].order : i \in S} = T
  BY DEF Placed
<1>3. f \in Surjection(S, T)
  <2>1. \A i \in S : f[i] \in T
    BY <1>2
  <2>2. \A k \in T : \E i \in S : f[i] = k
    BY <1>2
  <2>3. f \in [S -> T]
    BY <2>1
  <2> HIDE DEF f, T, S
  <2> QED BY <2>2, <2>3 DEF Surjection
<1>4. Cardinality(T) = n
  <2>1. 0 \in Int /\ n - 1 \in Int /\ 0 <= (n - 1) + 1 /\ (n - 1) - 0 + 1 = n
    BY <1>1
  <2> QED BY <2>1, IntervalSize
<1>5. f \in Injection(S, T)
  <2> HIDE DEF f, T, S
  <2> QED BY <1>1, <1>3, <1>4, FS_Surjection DEF n
<1>6. \A i, j \in S : f[i] = f[j] => i = j
  <2> HIDE DEF T
  <2> QED BY <1>5 DEF Injection, IsInjective
<1> QED BY <1>6

\* An item without children goes, and the siblings behind it move down one.
LEMMA ItemRemoved ==
  ASSUME NEW items \in ItemTables, finalizeTaskList(items), NEW after \in removeItem(items)
  PROVE  after \in ItemTables /\ finalizeTaskList(after)
<1>1. PICK id \in Listed(items) :
        /\ Siblings(items, id) = {}
        /\ after = [i \in TaskItems |->
                      IF i = id THEN Absent
                      ELSE IF i \in Siblings(items, items[id].parent) /\ items[i].order > items[id].order
                        THEN [items[i] EXCEPT !.order = @ - 1] ELSE items[i]]
  BY DEF removeItem
<1> DEFINE parent == items[id].parent
           place == items[id].order
           S == Siblings(items, parent)
           n == Cardinality(S)
<1>2. n \in Nat /\ S \subseteq Listed(items) /\ IsFiniteSet(S) /\ id \in S /\ Listed(items) \subseteq TaskItems /\ place \in Nat
  <2>1. n \in Nat /\ IsFiniteSet(S)
    BY SiblingsAreFew
  <2>2. S \subseteq Listed(items) /\ id \in S /\ Listed(items) \subseteq TaskItems
    BY DEF Siblings, Listed
  <2>3. place \in Nat
    BY ItemRow
  <2> QED BY <2>1, <2>2, <2>3
<1>3. parent \in Listed(items) \cup {Absent} /\ \A i \in Listed(items) : items[i].parent \in Listed(items) \cup {Absent}
  BY Tree DEF assertParent
<1>4. \A i \in Listed(items) : items[i].parent # id
  BY <1>1 DEF Siblings
<1>5. Placed(items, parent)
  BY <1>3, Tree
<1>6. {items[i].order : i \in S} = 0..(n - 1)
  BY <1>5 DEF Placed
<1>7. \A i \in S : items[i].order \in 0..(n - 1) /\ (i # id => items[i].order # place)
  BY <1>2, <1>5, <1>6, OrdersDiffer
<1>8. after[id] = Absent
  BY <1>1, <1>2
<1>9. ASSUME NEW i \in Listed(items), i # id
      PROVE  /\ after[i] \in ItemRows /\ after[i] # Absent /\ after[i].parent = items[i].parent
             /\ after[i].children = items[i].children
             /\ after[i].order = IF i \in S /\ items[i].order > place THEN items[i].order - 1 ELSE items[i].order
  <2>1. items[i] \in ItemRows /\ items[i].order \in Nat /\ i \in TaskItems
    BY ItemRow
  <2>2. items[i].order > place => items[i].order - 1 \in Nat
    BY <2>1, <1>2
  <2>3. after[i] = IF i \in S /\ items[i].order > place THEN [items[i] EXCEPT !.order = items[i].order - 1] ELSE items[i]
    BY <1>1, <1>9, <2>1
  <2> HIDE DEF S, place
  <2>4. /\ after[i] \in ItemRows /\ after[i].parent = items[i].parent /\ after[i].children = items[i].children
        /\ after[i].order = IF i \in S /\ items[i].order > place THEN items[i].order - 1 ELSE items[i].order
    BY <2>1, <2>2, <2>3 DEF ItemRows
  <2> QED BY <2>4, TaskListsAssumption
<1>10. ASSUME NEW i \in TaskItems, i \notin Listed(items)
       PROVE  after[i] = Absent
  BY <1>1, <1>2, <1>10 DEF Listed
<1>11. after \in ItemTables
  <2>1. after = [i \in TaskItems |-> after[i]]
    BY <1>1
  <2>2. \A i \in TaskItems : after[i] \in ItemRows \cup {Absent}
    BY <1>8, <1>9, <1>10
  <2> QED BY <2>1, <2>2 DEF ItemTables
<1> HIDE DEF S, n, place, parent
<1>12. Listed(after) = Listed(items) \ {id}
  BY <1>2, <1>8, <1>9, <1>10 DEF Listed
<1>13. ASSUME NEW i \in Listed(after)
       PROVE  assertParent(after, after[i].parent) /\ i \notin Ancestors(after, i)
  <2>1. i \in Listed(items) /\ i # id
    BY <1>12
  <2>2. assertParent(after, after[i].parent)
    BY <2>1, <1>3, <1>4, <1>9, <1>12 DEF assertParent
  <2>3. i \notin Ancestors(items, i)
    BY <2>1, Tree
  <2>4. PICK T \in SUBSET (Listed(items) \cup {Absent}) : items[i].parent \in T /\ ClosedUpwards(items, T) /\ i \notin T
    BY <2>1, <2>3, LeftOut
  <2>5. /\ T \ {id} \in SUBSET (Listed(after) \cup {Absent}) /\ after[i].parent \in T \ {id} /\ i \notin T \ {id}
    BY <2>1, <2>4, <1>4, <1>9, <1>12
  <2>6. ClosedUpwards(after, T \ {id})
    BY <2>4, <1>4, <1>9, <1>12 DEF ClosedUpwards
  <2> QED BY <2>2, <2>5, <2>6, NotAbove
<1>14. \A i, j \in Listed(after) : i # j => after[i].children \cap after[j].children = {}
  <2>1. \A i, j \in Listed(items) : i # j => items[i].children \cap items[j].children = {}
    BY Tree
  <2> QED BY <1>9, <1>12, <2>1
<1>15. ASSUME NEW p \in Listed(after) \cup {Absent}
       PROVE  Placed(after, p)
  <2>1. CASE p = parent
    <3>1. Siblings(after, p) = S \ {id}
      BY <2>1, <1>2, <1>9, <1>12 DEF Siblings, S
    <3>2. Cardinality(Siblings(after, p)) = n - 1
      BY <3>1, <1>2, FS_RemoveElement DEF n
    <3>3. place \in 0..(n - 1)
      BY <1>2, <1>7 DEF place
    <3>4. ASSUME NEW i \in S \ {id}
          PROVE  after[i].order \in 0..(n - 1 - 1)
      <4>1. items[i].order \in 0..(n - 1) /\ items[i].order # place /\ i \in Listed(items) /\ i # id
        BY <1>2, <1>7
      <4>2. after[i].order = IF items[i].order > place THEN items[i].order - 1 ELSE items[i].order
        BY <4>1, <1>9
      <4> QED BY <4>1, <4>2, <3>3, <1>2
    <3>5. ASSUME NEW k \in 0..(n - 1 - 1)
          PROVE  \E i \in S \ {id} : after[i].order = k
      <4>1. CASE k < place
        <5>1. k \in 0..(n - 1)
          BY <4>1, <1>2
        <5>2. PICK i \in S : items[i].order = k
          BY <5>1, <1>6
        <5>3. i # id /\ i \in Listed(items)
          BY <4>1, <5>2, <1>2 DEF place
        <5>4. after[i].order = k
          BY <4>1, <5>2, <5>3, <3>3, <1>2, <1>9
        <5> QED BY <5>3, <5>4
      <4>2. CASE ~(k < place)
        <5>1. k + 1 \in 0..(n - 1) /\ k + 1 > place
          BY <4>2, <3>3, <1>2
        <5>2. PICK i \in S : items[i].order = k + 1
          BY <5>1, <1>6
        <5>3. i # id /\ i \in Listed(items)
          BY <5>1, <5>2, <3>3, <1>2 DEF place
        <5>4. after[i].order = k
          BY <5>1, <5>2, <5>3, <1>9
        <5> QED BY <5>3, <5>4
      <4> QED BY <4>1, <4>2
    <3>6. {after[i].order : i \in S \ {id}} = 0..(n - 1 - 1)
      BY <3>4, <3>5
    <3> QED BY <3>1, <3>2, <3>6 DEF Placed
  <2>2. CASE p # parent
    <3>1. Siblings(after, p) = Siblings(items, p) /\ Siblings(items, p) \subseteq Listed(items)
      BY <2>2, <1>9, <1>12 DEF Siblings, parent
    <3>2. \A i \in Siblings(items, p) : after[i].order = items[i].order
      BY <2>2, <3>1, <1>9, <1>12 DEF Siblings, S
    <3>3. p \in Listed(items) \cup {Absent}
      BY <1>12
    <3>4. Placed(items, p)
      BY <3>3, Tree
    <3>5. {after[i].order : i \in Siblings(items, p)} = {items[i].order : i \in Siblings(items, p)}
      BY <3>2
    <3> QED BY <3>1, <3>4, <3>5 DEF Placed
  <2> QED BY <2>1, <2>2
<1> QED BY <1>11, <1>13, <1>14, <1>15, Tree

\* No edit leaves the tree: what the list schema asks holds after every one of them.
LEMMA EditsKeepIt ==
  ASSUME NEW items \in ItemTables, finalizeTaskList(items), NEW after \in Edits(items)
  PROVE  after \in ItemTables /\ finalizeTaskList(after)
<1>1. CASE after \in addItem(items)
  BY <1>1, ItemAdded
<1>2. CASE after \in updateState(items)
  BY <1>2, StateUpdated
<1>3. CASE after \in linkChild(items)
  BY <1>3, ChildLinked
<1>4. CASE \E updated \in updateState(items) : after \in linkChild(updated)
  <2>1. PICK updated \in updateState(items) : after \in linkChild(updated)
    BY <1>4
  <2>2. updated \in ItemTables /\ finalizeTaskList(updated)
    BY StateUpdated
  <2> QED BY <2>1, <2>2, ChildLinked
<1>5. CASE after \in reorderSiblings(items)
  BY <1>5, SiblingsReordered
<1>6. CASE after \in removeItem(items)
  BY <1>6, ItemRemoved
<1>7. \/ after \in addItem(items) \/ after \in updateState(items) \/ after \in linkChild(items)
      \/ after \in UNION {linkChild(updated) : updated \in updateState(items)}
      \/ after \in reorderSiblings(items) \/ after \in removeItem(items)
  <2> DEFINE twice == UNION {linkChild(updated) : updated \in updateState(items)}
  <2>1. after \in addItem(items) \cup updateState(items) \cup linkChild(items) \cup twice \cup reorderSiblings(items)
                 \cup removeItem(items)
    BY Zenon DEF Edits
  <2> HIDE DEF twice
  <2>2. \/ after \in addItem(items) \/ after \in updateState(items) \/ after \in linkChild(items)
        \/ after \in twice \/ after \in reorderSiblings(items) \/ after \in removeItem(items)
    BY <2>1
  <2> QED BY <2>2 DEF twice
<1>8. after \in UNION {linkChild(updated) : updated \in updateState(items)} =>
        \E updated \in updateState(items) : after \in linkChild(updated)
  OBVIOUS
<1> QED BY <1>1, <1>2, <1>3, <1>4, <1>5, <1>6, <1>7, <1>8

-----------------------------------------------------------------------------
(* The steps                                                                 *)

LEMMA Parts == /\ Typed <=> TypedChats /\ TypedRecords /\ walk \in WalkRows
               /\ Typed' <=> TypedChats' /\ TypedRecords' /\ walk' \in WalkRows
BY DEF Typed, TypedChats, TypedRecords

\* Commands that say nothing, under a Run that does not move.
LEMMA RecordsKept ==
  ASSUME ChatInv, (TypedChats /\ ChatsStand)', KeepsTalk, UNCHANGED runRecords, walk' \in WalkRows, WalkStands'
  PROVE  ChatInv'
<1>1. /\ run' = run /\ journal' = journal /\ taskList' = taskList /\ compactions' = compactions
      /\ transactions' = transactions /\ views' = views
  BY DEF runRecords, compactions
<1>2. TypedChats /\ TypedRecords /\ walk \in WalkRows /\ RunStands /\ ListStands /\ CompactionsStand /\ WalkStands
  BY Parts DEF ChatInv
<1>3. Typed'
  BY <1>1, <1>2, Parts DEF TypedRecords
<1>4. RunStands'
  <2>1. CASE run = Absent
    BY <2>1, <1>1, <1>2 DEF RunStands, KeepsTalk
  <2>2. CASE run # Absent
    <3>1. run \in RunRows /\ run.chat \in ChatIds /\ chats[run.chat] # Absent /\ RunSaid(run, messages[run.chat], journal)
      BY <2>2, <1>2, RunRow DEF RunStands, TypedRecords
    <3>2. /\ chats'[run.chat] # Absent
          /\ DOMAIN messages'[run.chat] = DOMAIN messages[run.chat]
          /\ Answers(messages'[run.chat]) = Answers(messages[run.chat])
          /\ UserInputs(messages'[run.chat], run.first) = UserInputs(messages[run.chat], run.first)
      BY <3>1 DEF KeepsTalk
    <3>3. RunSaid(run, messages'[run.chat], journal)
      BY <3>1, <3>2, SaysNothing
    <3> QED BY <2>2, <1>1, <3>2, <3>3 DEF RunStands
  <2> QED BY <2>1, <2>2
<1>5. ListStands'
  BY <1>1, <1>2 DEF ListStands, TaskListFollowsRun, Terminal
<1>6. CompactionsStand'
  <2>1. \A t : /\ StagesOf(t)' = StagesOf(t) /\ viewsOf(t)' = viewsOf(t)
               /\ \A i : /\ Starts(t, i)' <=> Starts(t, i)
                         /\ Derives(t, i)' <=> Derives(t, i)
                         /\ Ends(t, i)' <=> Ends(t, i)
    BY <1>1 DEF StagesOf, viewsOf, Starts, Derives, Ends
  <2>2. \A t \in TransactionIds : Staged(t)' <=> Staged(t)
    BY <1>1, <2>1 DEF Staged
  <2> QED BY <1>2, <2>2 DEF CompactionsStand
<1> QED BY <1>3, <1>4, <1>5, <1>6 DEF ChatInv

LEMMA TalkKept ==
  ASSUME ChatInv, (TypedChats /\ ChatsStand)', KeepsTalk, UNCHANGED runRecords, walk' = walk
  PROVE  ChatInv'
<1>1. TypedChats /\ walk \in WalkRows /\ WalkStands
  BY Parts DEF ChatInv
<1>2. \A c \in ChatIds : Len(messages'[c]) >= Len(messages[c])
  BY <1>1, MessagesAreLists DEF KeepsTalk
<1>3. WalkStands'
  BY <1>1, <1>2, WalkUndisturbed
<1> QED BY <1>1, <1>3, RecordsKept

\* The batch of a command of the Run: what it does to its list, it tells.
LEMMA BatchKept ==
  ASSUME ChatInv, run # Absent, NEW command, NEW payloads, NEW row \in RunRows, Appended(command, payloads, row),
         NEW said \in Nat, Tells(payloads, IF taskList' = taskList THEN 0 ELSE taskList'.revision, said),
         ListMoves, taskList' # taskList => finalizeTaskList(taskList'.items),
         taskList' # Absent /\ taskList'.state = "active" => row.status \notin TerminalStates,
         UNCHANGED compactions
  PROVE  /\ (TypedRecords /\ ListStands /\ CompactionsStand)'
         /\ run' # Absent /\ run'.status = row.status /\ run'.chat = row.chat /\ run'.first = row.first /\ run'.inbox = row.inbox
<1>1. TypedRecords /\ ListStands /\ CompactionsStand
  BY Parts DEF ChatInv
<1>2. appendRunEventBatch(command, payloads) /\ advanceRunJournalHead(row) /\ run \in RunRows /\ IsList(payloads)
  BY <1>1 DEF Appended, TypedRecords, Tells
<1>3. /\ run' \in RunRows /\ run' # Absent /\ run'.status = row.status /\ run'.chat = row.chat /\ run'.first = row.first
      /\ run'.inbox = row.inbox
  BY <1>2, Advanced
<1>4. IsList(journal')
  BY <1>1, <1>2, Batch DEF TypedRecords
<1>5. taskList' \in ListRows \cup {Absent}
  BY <1>1 DEF ListMoves, TypedRecords
<1>6. TypedRecords'
  BY <1>1, <1>3, <1>4, <1>5 DEF TypedRecords, compactions
<1>7. ListTold(taskList, journal)'
  BY <1>1, <1>2, ListToldOn DEF ListStands, TaskListFollowsRun
<1>8. ListStands'
  <2>1. taskList' # Absent => finalizeTaskList(taskList'.items)
    BY <1>1 DEF ListStands
  <2> QED BY <1>3, <1>7, <2>1 DEF ListStands, TaskListFollowsRun, Terminal
<1>9. CompactionsStand'
  <2> DEFINE a == IF taskList' = taskList THEN 0 ELSE taskList'.revision
  <2>1. Tells(payloads, a, said)
    OBVIOUS
  <2> HIDE DEF a
  <2> QED BY <1>1, <1>2, <2>1, CompactionsKept DEF TypedRecords
<1> QED BY <1>3, <1>6, <1>8, <1>9

\* What a batch adds to the Messages that the journal names.
Says(said) ==
  /\ \A i \in Told(journal, "message_ref") : journal'[i].payload = journal[i].payload
  /\ IF said = 0 THEN Told(journal', "message_ref") = Told(journal, "message_ref")
     ELSE \E n \in Nat : Told(journal', "message_ref") = Told(journal, "message_ref") \cup {n} /\ journal'[n].payload.message = said

LEMMA BatchSays ==
  ASSUME IsList(journal), NEW command, NEW payloads, appendRunEventBatch(command, payloads), NEW a, NEW said, Tells(payloads, a, said)
  PROVE  Says(said)
<1>1. IsList(payloads)
  BY DEF Tells
<1>2. CASE said = 0
  BY <1>1, <1>2, TellsNoMore DEF Tells, Says
<1>3. CASE said # 0
  <2>1. PICK k \in Nat : Kinds(payloads, "message_ref") = {k} /\ payloads[k].message = said
    BY <1>3 DEF Tells
  <2>2. PICK n \in Nat : /\ Told(journal', "message_ref") = Told(journal, "message_ref") \cup {n}
                         /\ journal'[n].payload = payloads[k]
                         /\ \A i \in Told(journal, "message_ref") : journal'[i] = journal[i]
    BY <1>1, <2>1, TellsOneMore
  <2> QED BY <1>3, <2>1, <2>2 DEF Says
<1> QED BY <1>2, <1>3

\* Nothing is said in a Chat where nothing is said.
LEMMA SilentRun ==
  ASSUME ChatInv, run # Absent, Says(0),
         run' # Absent, run' \in RunRows, run'.chat = run.chat, run'.first = run.first, Len(run'.inbox) = Len(run.inbox),
         run'.status = "completed" <=> run.status = "completed", chats' = chats, messages' = messages
  PROVE  RunStands'
<1>1. TypedRecords /\ RunStands /\ run \in RunRows
  BY Parts DEF ChatInv, TypedRecords
<1>2. /\ Told(journal', "message_ref") = Told(journal, "message_ref")
      /\ \A i \in Told(journal, "message_ref") : journal'[i].payload = journal[i].payload
  BY DEF Says
<1>3. RunSaid(run, messages[run.chat], journal) /\ chats[run.chat] # Absent
  BY <1>1 DEF RunStands
<1>4. RunSaid(run', messages[run.chat], journal')
  BY <1>1, <1>2, <1>3, SaysNothing
<1> QED BY <1>3, <1>4 DEF RunStands

LEMMA NothingSaid ==
  ASSUME ChatInv, run # Absent, NEW command, NEW payloads, NEW row \in RunRows, Appended(command, payloads, row), NEW a, Tells(payloads, a, 0),
         run' # Absent, run' \in RunRows, run'.chat = run.chat, run'.first = run.first, Len(run'.inbox) = Len(run.inbox),
         run'.status = "completed" <=> run.status = "completed", chats' = chats, messages' = messages
  PROVE  RunStands'
<1>1. IsList(journal) /\ appendRunEventBatch(command, payloads)
  BY Parts DEF ChatInv, TypedRecords, Appended
<1>2. Says(0)
  BY <1>1, BatchSays
<1> QED BY <1>2, SilentRun

LEMMA SameConversation ==
  ASSUME ChatInv, chats' = chats, messages' = messages, events' = events
  PROVE  (TypedChats /\ ChatsStand)'
<1>1. TypedChats /\ ChatsStand
  BY Parts DEF ChatInv
<1> QED BY <1>1 DEF TypedChats, ChatsStand, Changes

LEMMA SameWalk ==
  ASSUME ChatInv, messages' = messages, walk' = walk
  PROVE  walk' \in WalkRows /\ WalkStands'
<1>1. WalkStands /\ walk \in WalkRows
  BY Parts DEF ChatInv
<1> QED BY <1>1 DEF WalkStands, WalksReadEveryMessageOnce

\* The Run moves and its other records stay.
LEMMA RunMoves ==
  ASSUME ChatInv, run # Absent, NEW command, NEW row \in RunRows, Appended(command, <<Plain>>, row),
         row.chat = run.chat, row.first = run.first, Len(row.inbox) = Len(run.inbox),
         row.status = run.status \/ (row.status \notin TerminalStates /\ run.status \notin TerminalStates),
         UNCHANGED <<events, conversations, taskList, compactions>>
  PROVE  ChatInv'
<1>1. chats' = chats /\ messages' = messages /\ walk' = walk /\ taskList' = taskList /\ UNCHANGED compactions /\ events' = events
  BY DEF conversations
<1>2. Tells(<<Plain>>, IF taskList' = taskList THEN 0 ELSE taskList'.revision, 0)
  BY <1>1, TellsPlain
<1>3. ListMoves /\ (taskList' # taskList => finalizeTaskList(taskList'.items))
  BY <1>1 DEF ListMoves
<1>4. /\ (TypedRecords /\ ListStands /\ CompactionsStand)'
      /\ run' # Absent /\ run'.status = row.status /\ run'.chat = row.chat /\ run'.first = row.first /\ run'.inbox = row.inbox
  <2>1. taskList' # Absent /\ taskList'.state = "active" => row.status \notin TerminalStates
    BY <1>1 DEF ChatInv, ListStands, TaskListFollowsRun, Terminal
  <2> QED BY <1>1, <1>2, <1>3, <2>1, BatchKept
<1>5. RunStands'
  <2>1. run' \in RunRows
    BY <1>4 DEF TypedRecords
  <2>2. run'.status = "completed" <=> run.status = "completed"
    BY <1>4 DEF TerminalStates
  <2> QED BY <1>1, <1>4, <2>1, <2>2, TellsPlain, NothingSaid
<1>6. (TypedChats /\ ChatsStand)' /\ walk' \in WalkRows /\ WalkStands'
  BY <1>1, SameConversation, SameWalk
<1> QED BY <1>4, <1>5, <1>6, Parts DEF ChatInv

\* A user says something to the Run, and its Inbox takes it.
LEMMA UserSpoke ==
  ASSUME ChatInv, run # Absent, NEW m \in MessageRows, m.role = "user", m.run # Owner, m.document \in {Absent, "current"},
         appendMessage(run.chat, m), NEW command, NEW payloads, NEW row \in RunRows, Appended(command, payloads, row), Tells(payloads, 0, 0),
         row.chat = run.chat, row.first = run.first, Len(row.inbox) = Len(run.inbox) + 1,
         row.status \notin TerminalStates, run.status \notin TerminalStates, UNCHANGED <<walk, taskList, compactions>>
  PROVE  ChatInv'
<1>1. TypedChats /\ TypedRecords /\ ChatsStand /\ RunStands /\ WalkStands /\ walk \in WalkRows
  BY Parts DEF ChatInv
<1>2. run \in RunRows /\ run.chat \in ChatIds /\ run.first \in Nat \ {0} /\ Len(run.inbox) \in Nat
  BY <1>1, RunRow DEF TypedRecords
<1> DEFINE c == run.chat
           rows == messages[c]
           after == messages'[c]
<1>3. /\ (TypedChats /\ ChatsStand)'
      /\ \A x \in ChatIds : x # c => messages'[x] = messages[x]
      /\ \A x \in ChatIds : chats'[x] = Absent => chats[x] = Absent
      /\ chats[c] # Absent /\ Len(rows) \in Nat /\ Len(after) = Len(rows) + 1
      /\ \A i \in 1..Len(rows) : after[i] = rows[i]
      /\ after[Len(rows) + 1] = m
  BY <1>1, <1>2, MessageAppended
<1>4. IsList(rows) /\ IsList(after) /\ DOMAIN rows = 1..Len(rows)
  <2>1. messages' \in [ChatIds -> Seq(MessageRows)]
    BY <1>3 DEF TypedChats
  <2>2. after \in Seq(MessageRows)
    BY <1>2, <2>1
  <2> QED BY <1>1, <1>2, <2>2, Lists, MessagesAreLists
<1>5. RunSaid(run, rows, journal)
  BY <1>1 DEF RunStands
<1>6. run.first <= Len(rows) + 1 /\ Len(run.inbox) = Cardinality(UserInputs(rows, run.first))
  BY <1>2, <1>3, <1>4, <1>5 DEF RunSaid
<1>7. /\ Answers(after) = Answers(rows)
      /\ Cardinality(UserInputs(after, run.first)) = Cardinality(UserInputs(rows, run.first)) + 1
      /\ run.first \in DOMAIN after
  <2> HIDE DEF rows, after, c
  <2>0. /\ IsList(rows) /\ IsList(after) /\ Len(after) = Len(rows) + 1
        /\ \A i \in 1..Len(rows) : after[i] = rows[i]
        /\ after[Len(rows) + 1] = m
        /\ run.first \in Nat \ {0} /\ run.first <= Len(rows) + 1
    BY <1>2, <1>3, <1>4, <1>6
  <2>1. /\ Answers(after) = IF m.run = Owner THEN Answers(rows) \cup {Len(rows) + 1} ELSE Answers(rows)
        /\ Cardinality(UserInputs(after, run.first)) = Cardinality(UserInputs(rows, run.first)) + (IF m.role = "user" THEN 1 ELSE 0)
        /\ run.first \in DOMAIN after
    BY <2>0, OneMessageMore
  <2> QED BY <2>1
<1>8. UNCHANGED compactions /\ taskList' = taskList /\ walk' = walk
  OBVIOUS
<1>9. Tells(payloads, IF taskList' = taskList THEN 0 ELSE taskList'.revision, 0)
  BY <1>8
<1>10. ListMoves /\ (taskList' # taskList => finalizeTaskList(taskList'.items))
  BY <1>8 DEF ListMoves
<1>11. /\ (TypedRecords /\ ListStands /\ CompactionsStand)'
       /\ run' # Absent /\ run'.status = row.status /\ run'.chat = row.chat /\ run'.first = row.first /\ run'.inbox = row.inbox
  BY <1>8, <1>9, <1>10, BatchKept
<1>12. RunStands'
  <2>1. /\ Told(journal', "message_ref") = Told(journal, "message_ref")
        /\ \A i \in Told(journal, "message_ref") : journal'[i].payload = journal[i].payload
    <3>1. appendRunEventBatch(command, payloads) /\ IsList(journal) /\ IsList(payloads) /\ Kinds(payloads, "message_ref") = {}
      BY <1>1 DEF Appended, TypedRecords, Tells
    <3> QED BY <3>1, TellsNoMore
  <2>2. {journal'[i].payload.message : i \in Told(journal', "message_ref")} = {journal[i].payload.message : i \in Told(journal, "message_ref")}
    BY <2>1
  <2>3. Len(run'.inbox) = Cardinality(UserInputs(after, run'.first)) /\ run'.first \in DOMAIN after
    BY <1>6, <1>7, <1>11
  <2>4. run'.status # "completed" /\ run.status # "completed"
    BY <1>11 DEF TerminalStates
  <2>5. Answers(after) = {journal'[i].payload.message : i \in Told(journal', "message_ref")} /\ Cardinality(Answers(after)) = 0
    BY <1>5, <1>7, <2>2, <2>4 DEF RunSaid
  <2>6. RunSaid(run', after, journal')
    BY <2>3, <2>4, <2>5 DEF RunSaid
  <2>7. chats'[c] # Absent /\ run'.chat = c
    BY <1>2, <1>3, <1>11
  <2> QED BY <1>11, <2>6, <2>7 DEF RunStands
<1>13. WalkStands' /\ walk' \in WalkRows
  <2>1. \A x \in ChatIds : Len(messages'[x]) >= Len(messages[x])
    <3> TAKE x \in ChatIds
    <3>1. Len(messages[x]) \in Nat
      BY <1>1, MessagesAreLists
    <3> QED BY <3>1, <1>3
  <2> QED BY <1>1, <1>3, <1>8, <2>1, WalkUndisturbed
<1> QED BY <1>3, <1>11, <1>12, <1>13, Parts DEF ChatInv

LEMMA ChatSteps ==
  ASSUME ChatInv, ChatCommands \/ ProjectCommands \/ Repeat
  PROVE  ChatInv'
<1>1. TypedChats /\ ChatsStand
  BY Parts DEF ChatInv
<1>2. CASE ChatCommands
  <2>1. UNCHANGED runRecords /\ walk' = walk
    BY <1>2 DEF ChatCommands
  <2>2. PICK r \in Requests, c \in ChatIds :
          \/ \E title \in Names : createChat(r, c, title)
          \/ \E method \in ChatMethods, title \in Names, base \in ReadOfChat(c) : mutateChat(r, c, base, method, title)
    BY <1>2 DEF ChatCommands
  <2>3. (TypedChats /\ ChatsStand)' /\ KeepsTalk
    BY <1>1, <2>2, ChatCreated, ChatMutated
  <2> QED BY <2>1, <2>3, TalkKept
<1>3. CASE ProjectCommands
  <2>1. UNCHANGED runRecords /\ walk' = walk /\ chats' = chats /\ messages' = messages
    BY <1>3 DEF ProjectCommands, conversations
  <2>2. PICK r \in Requests, lifecycle \in Lifecycles : updateProject(r, project.revision, project.name, lifecycle)
    BY <1>3 DEF ProjectCommands
  <2>3. events' = events \/ \E after : appendProjectEvent(<<r, 0>>, "project", project.revision, project.revision, after)
    BY <2>2 DEF updateProject
  <2>4. IsList(events') /\ \A c \in ChatIds : Changes(c)' = Changes(c)
    <3>1. CASE events' = events
      BY <3>1, <1>1 DEF Changes, TypedChats
    <3>2. CASE \E after : appendProjectEvent(<<r, 0>>, "project", project.revision, project.revision, after)
      BY <3>2, <1>1, EventAppended, ConversationsAssumption DEF TypedChats
    <3> QED BY <2>3, <3>1, <3>2
  <2>5. (TypedChats /\ ChatsStand)' /\ KeepsTalk
    BY <1>1, <2>1, <2>4 DEF TypedChats, ChatsStand, KeepsTalk
  <2> QED BY <2>1, <2>5, TalkKept
<1>4. CASE Repeat
  <2>1. UNCHANGED runRecords /\ walk' = walk /\ chats' = chats /\ messages' = messages /\ events' = events
    BY <1>4 DEF Repeat, Replay, conversations
  <2>2. (TypedChats /\ ChatsStand)' /\ KeepsTalk
    BY <2>1, SameConversation DEF KeepsTalk
  <2> QED BY <2>1, <2>2, TalkKept
<1> QED BY <1>2, <1>3, <1>4

LEMMA UserMessageRow ==
  ASSUME NEW r \in Requests, NEW text \in BOOLEAN, NEW supersedes \in Nat
  PROVE  LET m == UserMessage(r, text, supersedes) IN
         m \in MessageRows /\ m.role = "user" /\ m.run # Owner /\ m.document \in {Absent, "current"}
<1> DEFINE m == UserMessage(r, text, supersedes)
<1>1. m = [role |-> "user", run |-> Absent, key |-> <<r, "message">>, supersedes |-> supersedes,
           document |-> IF text THEN "current" ELSE Absent]
  BY DEF UserMessage, Message
<1> HIDE DEF m
<1>2. <<r, "message">> \in MessageKeys
  BY DEF MessageKeys
<1>3. m \in MessageRows
  BY <1>1, <1>2 DEF MessageRows
<1>4. m.role = "user" /\ m.run # Owner /\ m.document \in {Absent, "current"}
  BY <1>1, TaskListsAssumption
<1> QED BY <1>3, <1>4 DEF m

\* The first Message of the Run, and nothing recorded yet.
LEMMA RunAccepted ==
  ASSUME ChatInv, NEW r \in Requests, NEW c \in ChatIds, NEW text \in BOOLEAN, NEW supersedes \in Nat,
         acceptRootRun(r, c, text, supersedes)
  PROVE  ChatInv'
<1> DEFINE m == UserMessage(r, text, supersedes)
           row == [status |-> "accepted", revision |-> 0, chat |-> c, first |-> chats[c].head + 1, inbox |-> <<"queued">>,
                   activation |-> 0, asked |-> Absent, question |-> 0]
           rows == messages[c]
           after == messages'[c]
<1>1. /\ run = Absent /\ appendMessage(c, m) /\ run' = row /\ UNCHANGED <<journal, taskList, compactions>> /\ walk' = walk
  BY DEF acceptRootRun, Say
<1>2. TypedChats /\ TypedRecords /\ ChatsStand /\ RunStands /\ ListStands /\ CompactionsStand /\ WalkStands /\ walk \in WalkRows
  BY Parts DEF ChatInv
<1>3. m \in MessageRows /\ m.role = "user" /\ m.run # Owner /\ m.document \in {Absent, "current"}
  BY UserMessageRow
<1> HIDE DEF m
<1>4. /\ (TypedChats /\ ChatsStand)'
      /\ \A x \in ChatIds : x # c => messages'[x] = messages[x]
      /\ \A x \in ChatIds : chats'[x] = Absent => chats[x] = Absent
      /\ chats[c] # Absent /\ chats[c].head = Len(rows) /\ Len(rows) \in Nat /\ Len(after) = Len(rows) + 1
      /\ \A i \in 1..Len(rows) : after[i] = rows[i]
      /\ after[Len(rows) + 1] = m
  BY <1>1, <1>2, <1>3, MessageAppended
<1>5. IsList(rows) /\ IsList(after) /\ DOMAIN rows = 1..Len(rows)
  <2>1. messages' \in [ChatIds -> Seq(MessageRows)]
    BY <1>4 DEF TypedChats
  <2>2. after \in Seq(MessageRows)
    BY <2>1
  <2> QED BY <1>2, <2>2, Lists, MessagesAreLists
<1> HIDE DEF rows, after
<1>6. /\ Len(rows) + 1 \in Nat \ {0} /\ Len(rows) + 1 <= Len(rows) + 1
      /\ IsList(rows) /\ IsList(after) /\ Len(after) = Len(rows) + 1
      /\ \A i \in 1..Len(rows) : after[i] = rows[i]
      /\ after[Len(rows) + 1] = m
  BY <1>4, <1>5
<1>7. /\ Answers(after) = IF m.run = Owner THEN Answers(rows) \cup {Len(rows) + 1} ELSE Answers(rows)
      /\ Cardinality(UserInputs(after, Len(rows) + 1)) =
           Cardinality(UserInputs(rows, Len(rows) + 1)) + (IF m.role = "user" THEN 1 ELSE 0)
      /\ Len(rows) + 1 \in DOMAIN after
  BY <1>6, OneMessageMore
<1>8. UserInputs(rows, Len(rows) + 1) = {}
  BY <1>4, <1>5 DEF UserInputs
<1>9. /\ row \in RunRows /\ row.chat = c /\ row.first = Len(rows) + 1 /\ row.status = "accepted" /\ Len(row.inbox) = 1
  <2>1. <<"queued">> \in Seq(InboxStates) /\ Len(<<"queued">>) = 1
    BY DEF InboxStates
  <2>2. row \in RunRows
    BY <1>4, <1>6, <2>1 DEF RunRows, RunStates
  <2> QED BY <1>4, <2>1, <2>2
<1> HIDE DEF row
<1>10. RunSaid(row, after, journal)
  <2>1. Answers(rows) = {} /\ journal = <<>>
    BY <1>1, <1>2 DEF RunStands, rows
  <2>2. Told(journal, "message_ref") = {}
    BY <2>1 DEF Told
  <2>3. Answers(after) = {} /\ Cardinality(Answers(after)) = 0
    BY <1>3, <1>7, <2>1, FS_EmptySet
  <2>4. Cardinality(UserInputs(after, row.first)) = 1
    <3>1. Cardinality(UserInputs(rows, Len(rows) + 1)) = 0
      BY <1>8, FS_EmptySet
    <3> QED BY <1>3, <1>7, <1>9, <3>1
  <2>5. row.first \in DOMAIN after
    BY <1>7, <1>9
  <2> QED BY <1>9, <2>2, <2>3, <2>4, <2>5 DEF RunSaid
<1>11. RunStands'
  <2>1. chats'[c] # Absent /\ row # Absent
    BY <1>4, <1>9, RunRow
  <2> QED BY <1>1, <1>9, <1>10, <2>1 DEF RunStands, after
<1>12. TypedRecords'
  BY <1>1, <1>2, <1>9 DEF TypedRecords, compactions
<1>13. ListStands'
  <2>1. journal' = journal /\ taskList' = taskList /\ taskList = Absent
    BY <1>1, <1>2 DEF RunStands
  <2> QED BY <1>2, <2>1 DEF ListStands, TaskListFollowsRun
<1>14. CompactionsStand'
  <2>1. \A t \in TransactionIds : StagesOf(t)' = StagesOf(t) /\ viewsOf(t)' = viewsOf(t) /\ transactions'[t] = transactions[t]
    BY <1>1 DEF StagesOf, viewsOf, compactions
  <2>2. \A t \in TransactionIds : transactions[t] = Absent
    BY <1>1, <1>2 DEF RunStands
  <2> QED BY <1>2, <2>1, <2>2 DEF CompactionsStand, Staged
<1>15. WalkStands' /\ walk' \in WalkRows
  <2>1. \A x \in ChatIds : Len(messages'[x]) >= Len(messages[x])
    <3> TAKE x \in ChatIds
    <3>1. Len(messages[x]) \in Nat
      BY <1>2, MessagesAreLists
    <3> QED BY <3>1, <1>4 DEF rows, after
  <2> QED BY <1>1, <1>2, <1>4, <2>1, WalkUndisturbed
<1> QED BY <1>4, <1>11, <1>12, <1>13, <1>14, <1>15, Parts DEF ChatInv

LEMMA InboxTakes ==
  ASSUME NEW row \in RunRows, NEW status \in RunStates, NEW question \in Nat
  PROVE  LET after == [row EXCEPT !.inbox = Append(@, "queued"), !.status = status, !.question = question] IN
         /\ after \in RunRows /\ after.chat = row.chat /\ after.first = row.first /\ after.status = status
         /\ Len(after.inbox) = Len(row.inbox) + 1
<1>1. row.inbox \in Seq(InboxStates) /\ "queued" \in InboxStates
  BY RunRow DEF InboxStates
<1>2. Append(row.inbox, "queued") \in Seq(InboxStates) /\ Len(Append(row.inbox, "queued")) = Len(row.inbox) + 1
  BY <1>1, AppendProperties
<1> DEFINE after == [row EXCEPT !.inbox = Append(row.inbox, "queued"), !.status = status, !.question = question]
<1>3. after \in RunRows /\ after.inbox = Append(row.inbox, "queued") /\ after.status = status /\ after.chat = row.chat /\ after.first = row.first
  BY <1>2 DEF RunRows
<1> QED BY <1>2, <1>3

LEMMA FollowupSent ==
  ASSUME ChatInv, NEW r \in Requests, NEW expected, sendFollowup(r, expected)
  PROVE  ChatInv'
<1> DEFINE m == UserMessage(r, TRUE, 0)
           row == [run EXCEPT !.inbox = Append(@, "queued")]
<1>1. /\ run # Absent /\ run.status \notin TerminalStates /\ appendMessage(run.chat, m)
      /\ Appended(r, <<Plain>>, row) /\ UNCHANGED <<walk, taskList, compactions>>
  BY DEF sendFollowup, Say, Terminal
<1>2. m \in MessageRows /\ m.role = "user" /\ m.run # Owner /\ m.document \in {Absent, "current"}
  <2>1. TRUE \in BOOLEAN /\ 0 \in Nat
    OBVIOUS
  <2> QED BY <2>1, UserMessageRow
<1>3. run \in RunRows
  BY <1>1 DEF ChatInv, Typed
<1>4. row = [run EXCEPT !.inbox = Append(@, "queued"), !.status = run.status, !.question = run.question]
  BY <1>3 DEF RunRows
<1>5. /\ row \in RunRows /\ row.chat = run.chat /\ row.first = run.first /\ row.status = run.status
      /\ Len(row.inbox) = Len(run.inbox) + 1
  <2>1. run.status \in RunStates /\ run.question \in Nat
    BY <1>3, RunRow
  <2> DEFINE taken == [run EXCEPT !.inbox = Append(@, "queued"), !.status = run.status, !.question = run.question]
  <2>2. /\ taken \in RunRows /\ taken.chat = run.chat /\ taken.first = run.first /\ taken.status = run.status
        /\ Len(taken.inbox) = Len(run.inbox) + 1
    BY <1>3, <2>1, InboxTakes
  <2>3. row = taken
    BY <1>4
  <2> HIDE DEF row, taken
  <2> QED BY <2>2, <2>3
<1> HIDE DEF m, row
<1> QED BY <1>1, <1>2, <1>5, TellsPlain, UserSpoke

LEMMA Answered ==
  ASSUME ChatInv, NEW r \in Requests, answer(r)
  PROVE  ChatInv'
<1> DEFINE m == UserMessage(r, TRUE, 0)
           row == [run EXCEPT !.inbox = Append(@, "queued"), !.status = "running", !.question = 0]
           e == [type |-> "interaction_answered", message |-> chats[run.chat].head + 1]
<1>1. /\ run # Absent /\ run.status = "waiting_question" /\ appendMessage(run.chat, m)
      /\ Appended(r, <<e, Plain>>, row) /\ UNCHANGED <<walk, taskList, compactions>>
  BY DEF answer, Say
<1>2. m \in MessageRows /\ m.role = "user" /\ m.run # Owner /\ m.document \in {Absent, "current"}
  <2>1. TRUE \in BOOLEAN /\ 0 \in Nat
    OBVIOUS
  <2> QED BY <2>1, UserMessageRow
<1>3. run \in RunRows
  BY <1>1 DEF ChatInv, Typed
<1>4. /\ row \in RunRows /\ row.chat = run.chat /\ row.first = run.first /\ row.status = "running"
      /\ Len(row.inbox) = Len(run.inbox) + 1
  <2>1. "running" \in RunStates /\ 0 \in Nat
    BY DEF RunStates
  <2> QED BY <1>3, <2>1, InboxTakes
<1>5. Tells(<<e, Plain>>, 0, 0)
  <2>1. e.type = "interaction_answered" /\ Plain.type = "plain"
    BY DEF Plain
  <2> HIDE DEF e
  <2>2. IsList(<<e, Plain>>) /\ <<e, Plain>>[1] = e /\ <<e, Plain>>[2] = Plain /\ DOMAIN <<e, Plain>> = {1, 2}
    <3>1. IsList(<<e, Plain>>) /\ <<e, Plain>>[1] = e /\ <<e, Plain>>[2] = Plain /\ Len(<<e, Plain>>) = 2
      BY Two
    <3> QED BY <3>1, ListShape
  <2>3. \A type : type # "interaction_answered" /\ type # "plain" => Kinds(<<e, Plain>>, type) = {}
    BY <2>1, <2>2 DEF Kinds
  <2>4. Kinds(<<e, Plain>>, "compaction") = {} /\ Kinds(<<e, Plain>>, "task_list_changed") = {} /\ Kinds(<<e, Plain>>, "message_ref") = {}
    BY <2>3
  <2> QED BY <2>2, <2>4 DEF Tells
<1>6. "running" \notin TerminalStates /\ "waiting_question" \notin TerminalStates
  BY DEF TerminalStates
<1> HIDE DEF m, row, e
<1> QED BY <1>1, <1>2, <1>4, <1>5, <1>6, UserSpoke

\* An Activation from the delivery of its message to the request of its model; nothing of it ends the Run.
LEMMA ActivationSteps ==
  ASSUME ChatInv, deliver \/ startActivation \/ consume \/ ask
  PROVE  ChatInv'
<1>1. run # Absent /\ UNCHANGED <<events, conversations, taskList, compactions>>
  BY DEF deliver, startActivation, consume, ask, RunStep, ledger
<1>2. run \in RunRows
  BY <1>1 DEF ChatInv, Typed
<1>3. /\ run.status \in RunStates /\ run.inbox \in Seq(InboxStates) /\ run.revision \in Nat
      /\ Len(run.inbox) \in Nat /\ DOMAIN run.inbox = 1..Len(run.inbox)
  BY <1>2, RunRow
<1>4. ASSUME NEW i \in DOMAIN run.inbox, NEW state \in InboxStates
      PROVE  LET row == [run EXCEPT !.inbox[i] = state] IN
             /\ row \in RunRows /\ row.chat = run.chat /\ row.first = run.first /\ row.status = run.status
             /\ Len(row.inbox) = Len(run.inbox)
  <2> DEFINE inbox == [run.inbox EXCEPT ![i] = state]
             row == [run EXCEPT !.inbox = inbox]
  <2>1. inbox \in Seq(InboxStates) /\ Len(inbox) = Len(run.inbox)
    BY <1>3, ExceptSeq
  <2> HIDE DEF inbox
  <2>2. row \in RunRows /\ row.chat = run.chat /\ row.first = run.first /\ row.status = run.status /\ row.inbox = inbox
    BY <1>2, <2>1 DEF RunRows
  <2>3. row = [run EXCEPT !.inbox[i] = state]
    BY DEF inbox
  <2> HIDE DEF row
  <2> QED BY <2>1, <2>2, <2>3
<1>5. {"accepted", "running"} \cap TerminalStates = {} /\ "running" \in RunStates
  BY DEF TerminalStates, RunStates
<1>6. CASE deliver
  <2>1. PICK i \in DOMAIN run.inbox : Appended(<<"deliver", i>>, <<Plain>>, [run EXCEPT !.inbox[i] = "delivered"])
    BY <1>6 DEF deliver
  <2> DEFINE row == [run EXCEPT !.inbox[i] = "delivered"]
  <2>2. /\ row \in RunRows /\ row.chat = run.chat /\ row.first = run.first /\ row.status = run.status
        /\ Len(row.inbox) = Len(run.inbox)
    BY <1>4 DEF InboxStates
  <2>3. run.status \notin TerminalStates
    BY <1>5, <1>6 DEF deliver
  <2> HIDE DEF row
  <2>4. Appended(<<"deliver", i>>, <<Plain>>, row)
    BY <2>1 DEF row
  <2> QED BY <1>1, <2>2, <2>3, <2>4, RunMoves
<1>7. CASE startActivation
  <2>1. PICK i \in DOMAIN run.inbox : Appended(<<"start", i>>, <<Plain>>, [run EXCEPT !.status = "running", !.activation = i])
    BY <1>7 DEF startActivation
  <2> DEFINE row == [run EXCEPT !.status = "running", !.activation = i]
  <2>0. i \in Nat
    BY <1>3
  <2>2. /\ row \in RunRows /\ row.chat = run.chat /\ row.first = run.first /\ row.status = "running" /\ row.inbox = run.inbox
    BY <1>2, <1>5, <2>0 DEF RunRows
  <2>3. run.status \notin TerminalStates
    BY <1>5, <1>7 DEF startActivation
  <2> HIDE DEF row
  <2>4. Appended(<<"start", i>>, <<Plain>>, row)
    BY <2>1 DEF row
  <2> QED BY <1>1, <1>5, <2>2, <2>3, <2>4, RunMoves
<1>8. CASE consume
  <2> DEFINE i == run.activation
             row == [run EXCEPT !.inbox[i] = "consumed"]
  <2>1. Appended(<<"consume", i>>, <<Plain>>, row) /\ i > 0 /\ run.inbox[i] = "delivered"
    BY <1>8 DEF consume
  <2>2. /\ row \in RunRows /\ row.chat = run.chat /\ row.first = run.first /\ row.status = run.status
        /\ Len(row.inbox) = Len(run.inbox)
    <3>1. CASE i \in DOMAIN run.inbox
      BY <3>1, <1>4 DEF InboxStates
    <3>2. CASE i \notin DOMAIN run.inbox
      <4>1. [run.inbox EXCEPT ![i] = "consumed"] = run.inbox
        BY <3>2, <1>3
      <4>2. row = [run EXCEPT !.inbox = run.inbox]
        BY <4>1
      <4>3. [run EXCEPT !.inbox = run.inbox] = run
        BY <1>2 DEF RunRows
      <4> HIDE DEF row
      <4> QED BY <1>2, <4>2, <4>3
    <3> QED BY <3>1, <3>2
  <2> HIDE DEF row
  <2> QED BY <1>1, <2>1, <2>2, RunMoves
<1>9. CASE ask
  <2>1. run.status = "running" /\ run.status \notin TerminalStates
    BY <1>5, <1>9 DEF ask, MayAsk
  <2> DEFINE away == [run EXCEPT !.activation = 0]
             asking == [run EXCEPT !.asked = run.revision]
  <2>2. Appended(<<"ask", run.revision>>, <<Plain>>, away) \/ Appended(<<"ask", run.revision>>, <<Plain>>, asking)
    BY <1>9 DEF ask
  <2>3. /\ away \in RunRows /\ away.chat = run.chat /\ away.first = run.first /\ away.status = run.status /\ away.inbox = run.inbox
    BY <1>2 DEF RunRows
  <2>4. /\ asking \in RunRows /\ asking.chat = run.chat /\ asking.first = run.first /\ asking.status = run.status
        /\ asking.inbox = run.inbox
    BY <1>2, <1>3 DEF RunRows
  <2> HIDE DEF away, asking
  <2> QED BY <1>1, <2>1, <2>2, <2>3, <2>4, RunMoves
<1> QED BY <1>6, <1>7, <1>8, <1>9

LEMMA QuestionAsked ==
  ASSUME ChatInv, settleInteractionAsk
  PROVE  ChatInv'
<1> DEFINE row == [run EXCEPT !.asked = Absent, !.activation = 0, !.status = "waiting_question", !.question = run.revision + 1]
<1>1. /\ run # Absent /\ UNCHANGED <<events, conversations, taskList, compactions>> /\ run.status = "running"
      /\ Appended(<<"interaction.ask", run.asked>>, <<Plain>>, row)
  BY DEF settleInteractionAsk, RunStep, ledger, SuffixIsTheStep
<1>2. run \in RunRows
  BY <1>1 DEF ChatInv, Typed
<1>3. run.revision + 1 \in Nat /\ "waiting_question" \in RunStates
  BY <1>2, RunRow DEF RunStates
<1>4. row \in RunRows /\ row.chat = run.chat /\ row.first = run.first /\ row.status = "waiting_question" /\ row.inbox = run.inbox
  BY <1>2, <1>3 DEF RunRows
<1>5. "waiting_question" \notin TerminalStates /\ "running" \notin TerminalStates
  BY DEF TerminalStates
<1> HIDE DEF row
<1> QED BY <1>1, <1>4, <1>5, RunMoves

\* A list that moves takes the next revision, a tree again.
LEMMA ListManaged ==
  ASSUME ChatInv, NEW expected, settleTaskManage(expected)
  PROVE  ChatInv'
<1> DEFINE row == [run EXCEPT !.asked = Absent]
           revision == IF taskList' = taskList THEN 0 ELSE taskList'.revision
<1>1. /\ run # Absent /\ run.status = "running" /\ manageTaskListInTransaction(expected)
      /\ Appended(<<"task.manage", run.asked>>, <<Plain>> \o taskListEvents \o <<Plain>>, row)
      /\ UNCHANGED <<ledger, conversations, compactions>>
  BY DEF settleTaskManage, SuffixIsTheStep
<1>2. TypedRecords /\ ListStands
  BY Parts DEF ChatInv
<1>3. run \in RunRows
  BY <1>1, <1>2 DEF TypedRecords
<1>4. row \in RunRows /\ row.chat = run.chat /\ row.first = run.first /\ row.status = "running" /\ row.inbox = run.inbox
  BY <1>1, <1>3 DEF RunRows
<1>5. ASSUME taskList' # taskList
      PROVE  /\ taskList' \in ListRows /\ taskList'.revision = (IF taskList = Absent THEN 1 ELSE taskList.revision + 1)
             /\ finalizeTaskList(taskList'.items)
  <2>1. CASE createList
    <3>1. PICK items \in Drafts :
            finalizeTaskList(items) /\ taskList' = [title |-> "first", state |-> "active", revision |-> 1, items |-> items]
      BY <2>1 DEF createList
    <3>2. items \in ItemTables
      BY TaskListsAssumption
    <3>3. taskList' \in ListRows /\ taskList'.revision = 1 /\ taskList'.items = items
      BY <3>1, <3>2 DEF ListRows, Names
    <3> QED BY <2>1, <3>1, <3>3 DEF createList
  <2>2. CASE editList(expected)
    <3>1. taskList # Absent /\ taskList \in ListRows /\ finalizeTaskList(taskList.items)
      BY <2>2, <1>2 DEF editList, requireActiveList, TypedRecords, ListStands
    <3>2. taskList.revision \in Nat \ {0} /\ taskList.items \in ItemTables
      BY <3>1, ListRow
    <3>3. ASSUME NEW candidate \in ListRows, replaceTaskList(candidate)
          PROVE  taskList' \in ListRows /\ taskList'.revision = taskList.revision + 1 /\ finalizeTaskList(taskList'.items)
      <4>1. finalizeTaskList(candidate.items) /\ taskList' = [candidate EXCEPT !.revision = taskList.revision + 1]
        BY <3>3 DEF replaceTaskList
      <4>2. taskList.revision + 1 \in Nat \ {0}
        BY <3>2
      <4>3. taskList' \in ListRows /\ taskList'.revision = taskList.revision + 1 /\ taskList'.items = candidate.items
        BY <4>1, <4>2 DEF ListRows
      <4> QED BY <4>1, <4>3
    <3>4. \E candidate \in ListRows : replaceTaskList(candidate)
      <4>1. CASE \E title \in Names \ {taskList.title} : replaceTaskList([taskList EXCEPT !.title = title])
        <5>1. \A title \in Names : [taskList EXCEPT !.title = title] \in ListRows
          BY <3>1 DEF ListRows
        <5> QED BY <4>1, <5>1
      <4>2. CASE \E items \in Edits(taskList.items) \ {taskList.items} : replaceTaskList([taskList EXCEPT !.items = items])
        <5>1. PICK items \in Edits(taskList.items) : replaceTaskList([taskList EXCEPT !.items = items])
          BY <4>2
        <5>2. items \in ItemTables
          BY <3>1, <3>2, EditsKeepIt
        <5>3. [taskList EXCEPT !.items = items] \in ListRows
          BY <3>1, <5>2 DEF ListRows
        <5> QED BY <5>1, <5>3
      <4>3. CASE \E state \in {"completed", "cancelled"} : replaceTaskList([taskList EXCEPT !.state = state])
        <5>1. \A state \in {"completed", "cancelled"} : [taskList EXCEPT !.state = state] \in ListRows
          BY <3>1 DEF ListRows
        <5> QED BY <4>3, <5>1
      <4> QED BY <2>2, <4>1, <4>2, <4>3 DEF editList
    <3> QED BY <3>1, <3>3, <3>4
  <2> QED BY <1>1, <1>5, <2>1, <2>2 DEF manageTaskListInTransaction
<1>6. ListMoves /\ (taskList' # taskList => taskList'.revision \in Nat \ {0})
  BY <1>5, ListRow DEF ListMoves
<1>7. Tells(<<Plain>> \o taskListEvents \o <<Plain>>, revision, 0)
  <2>1. Tells(taskListEvents, revision, 0) /\ revision \in Nat
    BY <1>6, TellsOfList
  <2> HIDE DEF revision
  <2>2. 0 \in Nat /\ 0 + revision = revision /\ revision + 0 = revision /\ 0 + 0 = 0
    BY <2>1
  <2>3. Tells(<<Plain>> \o taskListEvents, 0 + revision, 0 + 0)
    BY <2>1, <2>2, TellsPlain, TellsJoined
  <2>4. Tells(<<Plain>> \o taskListEvents, revision, 0)
    BY <2>2, <2>3
  <2>5. Tells((<<Plain>> \o taskListEvents) \o <<Plain>>, revision + 0, 0 + 0)
    BY <2>1, <2>2, <2>4, TellsPlain, TellsJoined
  <2> QED BY <2>2, <2>5
<1>8. "running" \notin TerminalStates
  BY DEF TerminalStates
<1>9. chats' = chats /\ messages' = messages /\ events' = events /\ walk' = walk /\ UNCHANGED compactions
  BY <1>1 DEF ledger, conversations
<1>10. taskList' # taskList => finalizeTaskList(taskList'.items)
  BY <1>5
<1> HIDE DEF row
<1>11. /\ (TypedRecords /\ ListStands /\ CompactionsStand)'
       /\ run' # Absent /\ run'.status = row.status /\ run'.chat = row.chat /\ run'.first = row.first /\ run'.inbox = row.inbox
  BY <1>1, <1>4, <1>6, <1>7, <1>8, <1>9, <1>10, BatchKept
<1>12. RunStands'
  <2>1. run' \in RunRows
    BY <1>11 DEF TypedRecords
  <2>2. run'.status = "completed" <=> run.status = "completed"
    BY <1>1, <1>4, <1>11
  <2> HIDE DEF revision
  <2> QED BY <1>1, <1>4, <1>7, <1>9, <1>11, <2>1, <2>2, NothingSaid
<1>13. (TypedChats /\ ChatsStand)' /\ walk' \in WalkRows /\ WalkStands'
  BY <1>9, SameConversation, SameWalk
<1> QED BY <1>11, <1>12, <1>13, Parts DEF ChatInv

\* The end of a Run: its list ends with it, and the batch tells both.
LEMMA RunEnded ==
  ASSUME ChatInv, run # Absent, NEW command, NEW status \in TerminalStates, NEW leading, NEW said \in Nat, Tells(leading, 0, said),
         terminalizeRun(command, status, leading)
  PROVE  /\ (TypedRecords /\ ListStands /\ CompactionsStand)'
         /\ run' # Absent /\ run'.status = status /\ run'.chat = run.chat /\ run'.first = run.first
         /\ Len(run'.inbox) = Len(run.inbox)
         /\ run.status \notin TerminalStates
         /\ Says(said)
<1> DEFINE row == Ended(status)
           payloads == leading \o <<Plain>> \o taskListEvents \o <<Plain>>
           revision == IF taskList' = taskList THEN 0 ELSE taskList'.revision
           state == IF status = "completed" THEN "completed" ELSE "cancelled"
<1>1. /\ RunMayBecome(run.status, status) /\ terminalizeActiveTaskList(state)
      /\ Appended(command, payloads, row) /\ UNCHANGED compactions
  BY DEF terminalizeRun
<1>2. TypedRecords /\ ListStands /\ run \in RunRows
  BY Parts DEF ChatInv, TypedRecords
<1>3. /\ row \in RunRows /\ row.chat = run.chat /\ row.first = run.first /\ row.status = status
      /\ Len(row.inbox) = Len(run.inbox)
  <2> DEFINE inbox == IF status = "cancelled"
                        THEN [i \in DOMAIN run.inbox |-> IF run.inbox[i] = "queued" THEN "cancelled" ELSE run.inbox[i]]
                        ELSE run.inbox
             question == IF status = "cancelled" THEN 0 ELSE run.question
  <2>1. run.inbox \in Seq(InboxStates) /\ DOMAIN run.inbox = 1..Len(run.inbox) /\ Len(run.inbox) \in Nat /\ run.question \in Nat
    BY <1>2, RunRow
  <2>2. inbox \in Seq(InboxStates) /\ Len(inbox) = Len(run.inbox)
    <3>1. CASE status = "cancelled"
      <4>1. inbox = [i \in 1..Len(run.inbox) |-> IF run.inbox[i] = "queued" THEN "cancelled" ELSE run.inbox[i]]
        BY <2>1, <3>1
      <4>2. \A i \in 1..Len(run.inbox) : run.inbox[i] \in InboxStates
        BY <2>1, ElementOfSeq
      <4>3. inbox \in [1..Len(run.inbox) -> InboxStates]
        BY <4>1, <4>2 DEF InboxStates
      <4> HIDE DEF inbox
      <4>4. inbox \in Seq(InboxStates)
        BY <2>1, <4>3, SeqDef
      <4>5. Len(inbox) \in Nat /\ 1..Len(inbox) = 1..Len(run.inbox)
        BY <4>3, <4>4, LenProperties
      <4> QED BY <2>1, <4>4, <4>5
    <3>2. CASE status # "cancelled"
      BY <2>1, <3>2
    <3> QED BY <3>1, <3>2
  <2>3. question \in Nat /\ status \in RunStates
    BY <2>1 DEF TerminalStates, RunStates
  <2>4. row = [run EXCEPT !.status = status, !.activation = 0, !.asked = Absent, !.question = question, !.inbox = inbox]
    BY <1>2 DEF Ended
  <2> HIDE DEF inbox, question, row
  <2>5. row \in RunRows /\ row.chat = run.chat /\ row.first = run.first /\ row.status = status /\ row.inbox = inbox
    BY <1>2, <2>2, <2>3, <2>4 DEF RunRows
  <2> QED BY <2>2, <2>5
<1>4. run.status \notin TerminalStates
  BY <1>1 DEF RunMayBecome
<1>5. /\ taskList' # taskList => /\ taskList' \in ListRows /\ taskList # Absent /\ taskList'.revision = taskList.revision + 1
                                 /\ taskList'.items = taskList.items
      /\ taskList' # Absent => taskList'.state # "active"
  <2>1. CASE taskList # Absent /\ taskList.state = "active"
    <3>1. taskList' = [taskList EXCEPT !.state = state, !.revision = @ + 1]
      BY <1>1, <2>1 DEF terminalizeActiveTaskList
    <3>2. taskList \in ListRows /\ taskList.revision + 1 \in Nat \ {0} /\ state \in {"completed", "cancelled"}
      <4>1. taskList \in ListRows
        BY <1>2, <2>1 DEF TypedRecords
      <4> QED BY <4>1, ListRow
    <3> HIDE DEF state
    <3>3. /\ taskList' \in ListRows /\ taskList'.revision = taskList.revision + 1 /\ taskList'.items = taskList.items
          /\ taskList'.state = state
      BY <3>1, <3>2 DEF ListRows
    <3> QED BY <2>1, <3>2, <3>3
  <2>2. CASE ~(taskList # Absent /\ taskList.state = "active")
    BY <1>1, <2>2 DEF terminalizeActiveTaskList
  <2> QED BY <2>1, <2>2
<1>6. ListMoves /\ (taskList' # taskList => taskList'.revision \in Nat \ {0} /\ finalizeTaskList(taskList'.items))
  BY <1>2, <1>5, ListRow DEF ListMoves, ListStands
<1>7. Tells(payloads, revision, said) /\ revision \in Nat
  <2>1. Tells(taskListEvents, revision, 0) /\ revision \in Nat
    BY <1>6, TellsOfList
  <2> HIDE DEF revision
  <2>2. 0 \in Nat /\ 0 + revision = revision /\ revision + 0 = revision /\ said + 0 = said /\ 0 + 0 = 0
    BY <2>1
  <2>3. Tells(leading \o <<Plain>>, 0, said)
    <3>1. Tells(leading \o <<Plain>>, 0 + 0, said + 0)
      BY <2>2, TellsPlain, TellsJoined
    <3> QED BY <2>2, <3>1
  <2>4. Tells((leading \o <<Plain>>) \o taskListEvents, revision, said)
    <3>1. Tells((leading \o <<Plain>>) \o taskListEvents, 0 + revision, said + 0)
      BY <2>1, <2>2, <2>3, TellsJoined
    <3> QED BY <2>2, <3>1
  <2>5. Tells(((leading \o <<Plain>>) \o taskListEvents) \o <<Plain>>, revision + 0, said + 0)
    BY <2>1, <2>2, <2>4, TellsPlain, TellsJoined
  <2> QED BY <2>1, <2>2, <2>5
<1> HIDE DEF row, payloads
<1>8. /\ (TypedRecords /\ ListStands /\ CompactionsStand)'
      /\ run' # Absent /\ run'.status = row.status /\ run'.chat = row.chat /\ run'.first = row.first /\ run'.inbox = row.inbox
  BY <1>1, <1>3, <1>5, <1>6, <1>7, BatchKept
<1>9. /\ run' # Absent /\ run'.status = status /\ run'.chat = run.chat /\ run'.first = run.first
      /\ Len(run'.inbox) = Len(run.inbox)
  BY <1>3, <1>8
<1> HIDE DEF revision
<1>10. Says(said)
  BY <1>1, <1>2, <1>7, BatchSays DEF Appended, TypedRecords
<1> QED BY <1>4, <1>8, <1>9, <1>10

\* A Run that is cancelled or closed says nothing more.
LEMMA EndedInSilence ==
  ASSUME ChatInv, run # Absent, NEW command, NEW status \in TerminalStates, status # "completed", terminalizeRun(command, status, <<>>),
         chats' = chats, messages' = messages, events' = events
  PROVE  (TypedChats /\ ChatsStand /\ TypedRecords /\ RunStands /\ ListStands /\ CompactionsStand)'
<1>1. 0 \in Nat /\ Tells(<<>>, 0, 0)
  BY TellsNothing
<1>2. /\ (TypedRecords /\ ListStands /\ CompactionsStand)'
      /\ run' # Absent /\ run'.status = status /\ run'.chat = run.chat /\ run'.first = run.first
      /\ Len(run'.inbox) = Len(run.inbox)
      /\ run.status \notin TerminalStates
      /\ Says(0)
  BY <1>1, RunEnded
<1>3. run' \in RunRows /\ run.status # "completed"
  BY <1>2 DEF TypedRecords, TerminalStates
<1>4. RunStands'
  BY <1>2, <1>3, SilentRun
<1> QED BY <1>2, <1>4, SameConversation

LEMMA RunClosed ==
  ASSUME ChatInv, (\E r \in Requests, expected \in ReadOfRun : cancelRun(r, expected)) \/ closeInterruptedActivation
  PROVE  ChatInv'
<1>1. CASE \E r \in Requests, expected \in ReadOfRun : cancelRun(r, expected)
  <2>1. PICK r \in Requests, expected \in ReadOfRun : cancelRun(r, expected)
    BY <1>1
  <2>2. run # Absent /\ terminalizeRun(r, "cancelled", <<>>) /\ chats' = chats /\ messages' = messages /\ events' = events /\ walk' = walk
    BY <2>1 DEF cancelRun, conversations
  <2>3. "cancelled" \in TerminalStates
    BY DEF TerminalStates
  <2> QED BY <2>2, <2>3, EndedInSilence, SameWalk, Parts DEF ChatInv
<1>2. CASE closeInterruptedActivation
  <2>1. /\ run # Absent /\ terminalizeRun(<<"close", run.asked>>, "blocked", <<>>)
        /\ chats' = chats /\ messages' = messages /\ events' = events /\ walk' = NoWalk
    BY <1>2 DEF closeInterruptedActivation, ledger
  <2>2. "blocked" \in TerminalStates
    BY DEF TerminalStates
  <2> QED BY <2>1, <2>2, EndedInSilence, WalkEnded, Parts DEF ChatInv
<1> QED BY <1>1, <1>2

\* The one answer of a Run: it is said, told and completes the Run in one step.
LEMMA FinallyAnswered ==
  ASSUME ChatInv, settleFinalAnswer
  PROVE  ChatInv'
<1>1. run # Absent /\ run.status = "running" /\ run.asked # Absent /\ walk' = walk
  BY DEF settleFinalAnswer
<1>2. TypedChats /\ TypedRecords /\ ChatsStand /\ RunStands /\ WalkStands /\ walk \in WalkRows /\ run \in RunRows
  BY <1>1, Parts DEF ChatInv, TypedRecords
<1>3. /\ run.chat \in ChatIds /\ run.first \in Nat \ {0} /\ Len(run.inbox) \in Nat /\ run.asked \in Nat
  BY <1>1, <1>2, RunRow
<1>4. CASE PendingAfterTrigger
  <2> DEFINE row == [run EXCEPT !.asked = Absent, !.activation = 0]
  <2>1. /\ Appended(<<"settle", run.asked>>, <<Plain>>, row)
        /\ UNCHANGED <<events, conversations, taskList, compactions>>
    BY <1>4, <1>1 DEF settleFinalAnswer, conversations
  <2>2. row \in RunRows /\ row.chat = run.chat /\ row.first = run.first /\ row.status = run.status /\ row.inbox = run.inbox
    BY <1>2 DEF RunRows
  <2> HIDE DEF row
  <2> QED BY <1>1, <2>1, <2>2, RunMoves
<1>5. CASE ~PendingAfterTrigger
  <2> DEFINE c == run.chat
             m == AssistantMessage
             rows == messages[c]
             after == messages'[c]
             said == chats[c].head + 1
             ref == [type |-> "message_ref", message |-> chats[c].head + 1]
             command == <<"settle", run.asked>>
  <2>1. appendMessage(c, m) /\ terminalizeRun(command, "completed", <<Plain, ref>>)
    BY <1>5 DEF settleFinalAnswer
  <2>2. m \in MessageRows /\ m.role = "assistant" /\ m.run = Owner /\ m.document \in {Absent, "current"}
    <3>1. m = [role |-> "assistant", run |-> Owner, key |-> <<"settle", run.asked>>, supersedes |-> 0, document |-> "current"]
      BY DEF AssistantMessage, Message
    <3>2. <<"settle", run.asked>> \in MessageKeys
      BY <1>3 DEF MessageKeys
    <3> HIDE DEF m
    <3> QED BY <3>1, <3>2 DEF MessageRows
  <2> HIDE DEF m
  <2>3. /\ (TypedChats /\ ChatsStand)'
        /\ \A x \in ChatIds : x # c => messages'[x] = messages[x]
        /\ \A x \in ChatIds : chats'[x] = Absent => chats[x] = Absent
        /\ chats[c] # Absent /\ chats[c].head = Len(rows) /\ Len(rows) \in Nat /\ Len(after) = Len(rows) + 1
        /\ \A i \in 1..Len(rows) : after[i] = rows[i]
        /\ after[Len(rows) + 1] = m
    BY <1>2, <1>3, <2>1, <2>2, MessageAppended
  <2>4. IsList(rows) /\ IsList(after) /\ DOMAIN rows = 1..Len(rows)
    <3>1. messages' \in [ChatIds -> Seq(MessageRows)]
      BY <2>3 DEF TypedChats
    <3>2. after \in Seq(MessageRows)
      BY <1>3, <3>1
    <3> QED BY <1>2, <1>3, <3>2, Lists, MessagesAreLists
  <2>5. said \in Nat /\ said # 0 /\ said = Len(rows) + 1 /\ Tells(<<Plain, ref>>, 0, said)
    <3>1. said \in Nat /\ said # 0 /\ said = Len(rows) + 1
      BY <2>3
    <3>2. ref.type = "message_ref" /\ ref.message = said /\ Plain.type = "plain"
      BY DEF Plain
    <3> HIDE DEF ref, said
    <3>3. /\ IsList(<<Plain, ref>>) /\ <<Plain, ref>>[1] = Plain /\ <<Plain, ref>>[2] = ref /\ DOMAIN <<Plain, ref>> = {1, 2}
      <4>1. IsList(<<Plain, ref>>) /\ <<Plain, ref>>[1] = Plain /\ <<Plain, ref>>[2] = ref /\ Len(<<Plain, ref>>) = 2
        BY Two
      <4> QED BY <4>1, ListShape
    <3>4. /\ Kinds(<<Plain, ref>>, "compaction") = {} /\ Kinds(<<Plain, ref>>, "task_list_changed") = {}
          /\ Kinds(<<Plain, ref>>, "message_ref") = {2}
      BY <3>2, <3>3 DEF Kinds
    <3> QED BY <3>1, <3>2, <3>3, <3>4 DEF Tells
  <2> HIDE DEF ref, said, command
  <2>6. "completed" \in TerminalStates
    BY DEF TerminalStates
  <2>7. /\ (TypedRecords /\ ListStands /\ CompactionsStand)'
        /\ run' # Absent /\ run'.status = "completed" /\ run'.chat = run.chat /\ run'.first = run.first
        /\ Len(run'.inbox) = Len(run.inbox)
        /\ Says(said)
    BY <1>1, <2>1, <2>5, <2>6, RunEnded
  <2>8. RunSaid(run, rows, journal)
    BY <1>1, <1>2 DEF RunStands
  <2>9. /\ run.first \in Nat \ {0} /\ run.first <= Len(rows) + 1
        /\ IsList(rows) /\ IsList(after) /\ Len(after) = Len(rows) + 1
        /\ \A i \in 1..Len(rows) : after[i] = rows[i]
        /\ after[Len(rows) + 1] = m
    BY <1>3, <2>3, <2>4, <2>8 DEF RunSaid
  <2>10. Answers(rows) = {} /\ Told(journal, "message_ref") = {}
    <3>1. Answers(rows) \in SUBSET DOMAIN rows
      BY DEF Answers
    <3>2. Cardinality(Answers(rows)) = 0 /\ Answers(rows) = {journal[i].payload.message : i \in Told(journal, "message_ref")}
      BY <1>1, <2>8 DEF RunSaid
    <3>3. IsFiniteSet(Answers(rows))
      BY <2>4, <3>1, Positions
    <3>4. Answers(rows) = {}
      BY <3>2, <3>3, FS_EmptySet
    <3> QED BY <3>2, <3>4
  <2> HIDE DEF rows, after, c
  <2>11. /\ Answers(after) = IF m.run = Owner THEN Answers(rows) \cup {Len(rows) + 1} ELSE Answers(rows)
         /\ Cardinality(UserInputs(after, run.first)) = Cardinality(UserInputs(rows, run.first)) + (IF m.role = "user" THEN 1 ELSE 0)
         /\ Cardinality(UserInputs(rows, run.first)) \in Nat
         /\ run.first \in DOMAIN after
    BY <2>9, OneMessageMore
  <2>12. Answers(after) = {said} /\ Cardinality(Answers(after)) = 1
    <3>1. Answers(after) = {said}
      BY <2>2, <2>5, <2>10, <2>11
    <3> QED BY <3>1, FS_Singleton
  <2>13. {journal'[i].payload.message : i \in Told(journal', "message_ref")} = {said}
    <3>1. PICK n \in Nat : Told(journal', "message_ref") = Told(journal, "message_ref") \cup {n} /\ journal'[n].payload.message = said
      BY <2>5, <2>7 DEF Says
    <3> QED BY <2>10, <3>1
  <2>14. Len(run'.inbox) = Cardinality(UserInputs(after, run'.first)) /\ run'.first \in DOMAIN after
    <3>1. Len(run.inbox) = Cardinality(UserInputs(rows, run.first))
      BY <2>8 DEF RunSaid
    <3>2. Cardinality(UserInputs(after, run.first)) = Cardinality(UserInputs(rows, run.first))
      BY <2>2, <2>11
    <3> QED BY <2>7, <2>11, <3>1, <3>2
  <2>15. RunSaid(run', after, journal')
    BY <2>7, <2>12, <2>13, <2>14 DEF RunSaid
  <2>16. RunStands'
    <3>1. chats'[c] # Absent /\ run'.chat = c
      BY <1>3, <2>3, <2>7 DEF c
    <3> QED BY <2>7, <2>15, <3>1 DEF RunStands, after, c
  <2>17. WalkStands' /\ walk' \in WalkRows
    <3>1. \A x \in ChatIds : Len(messages'[x]) >= Len(messages[x])
      <4> TAKE x \in ChatIds
      <4>1. Len(messages[x]) \in Nat
        BY <1>2, MessagesAreLists
      <4> QED BY <4>1, <2>3 DEF rows, after
    <3> QED BY <1>1, <1>2, <2>3, <3>1, WalkUndisturbed
  <2> QED BY <2>3, <2>7, <2>16, <2>17, Parts DEF ChatInv
<1> QED BY <1>4, <1>5


-----------------------------------------------------------------------------
(* Stages of a compaction, readers, and the beginning                        *)

\* A stage of a compaction is all that the batch tells.
LEMMA StageAlone ==
  ASSUME ChatInv, run # Absent, NEW t, NEW stage, NEW semantics, appendStage(t, stage, semantics),
         (TypedCompactions /\ CompactionsStand)', UNCHANGED <<ledger, conversations, taskList>>
  PROVE  ChatInv'
<1> DEFINE e == [type |-> "compaction", stage |-> stage, tx |-> t, semantics |-> semantics]
           command == stageCommandId(t, stage)
<1>1. Appended(command, <<e>>, run)
  BY DEF appendStage
<1>2. IsList(<<e>>) /\ Kinds(<<e>>, "message_ref") = {} /\ Kinds(<<e>>, "task_list_changed") = {}
  BY Single, KindsOfOne
<1> HIDE DEF e, command
<1>3. TypedRecords /\ RunStands /\ ListStands /\ run \in RunRows
  BY Parts DEF ChatInv, TypedRecords
<1>4. /\ appendRunEventBatch(command, <<e>>) /\ advanceRunJournalHead(run)
      /\ chats' = chats /\ messages' = messages /\ events' = events /\ walk' = walk /\ taskList' = taskList
  BY <1>1 DEF Appended, ledger, conversations
<1>5. /\ run' \in RunRows /\ run' # Absent /\ run'.status = run.status /\ run'.chat = run.chat
      /\ run'.first = run.first /\ run'.inbox = run.inbox
  BY <1>3, <1>4, Advanced
<1>6. IsList(journal) /\ IsList(journal')
  BY <1>2, <1>3, <1>4, Batch DEF TypedRecords
<1>7. TypedRecords'
  BY <1>3, <1>4, <1>5, <1>6 DEF TypedRecords, TypedCompactions
<1>8. RunStands'
  <2>1. chats[run.chat] # Absent /\ RunSaid(run, messages[run.chat], journal)
    BY <1>3 DEF RunStands
  <2>2. /\ Told(journal', "message_ref") = Told(journal, "message_ref")
        /\ \A i \in Told(journal, "message_ref") : journal'[i] = journal[i]
    BY <1>2, <1>4, <1>6, TellsNoMore
  <2>3. RunSaid(run', messages[run.chat], journal')
    BY <1>3, <1>5, <2>1, <2>2, SaysNothing
  <2> QED BY <1>4, <1>5, <2>1, <2>3 DEF RunStands
<1>9. ListStands'
  <2>1. /\ Told(journal', "task_list_changed") = Told(journal, "task_list_changed")
        /\ \A i \in Told(journal, "task_list_changed") : journal'[i] = journal[i]
    BY <1>2, <1>4, <1>6, TellsNoMore
  <2>2. ListTold(taskList, journal)'
    BY <1>3, <1>4, <2>1 DEF ListStands, TaskListFollowsRun, ListTold
  <2>3. TaskListFollowsRun'
    BY <1>3, <1>4, <1>5, <2>2 DEF ListStands, TaskListFollowsRun, Terminal
  <2> QED BY <1>3, <1>4, <2>3 DEF ListStands
<1> QED BY <1>4, <1>7, <1>8, <1>9, SameConversation, SameWalk, Parts DEF ChatInv

LEMMA Compacted ==
  ASSUME ChatInv, Summarise
  PROVE  ChatInv'
<1>1. TypedRecords /\ CompactionsStand
  BY Parts DEF ChatInv
<1>2. run # Absent /\ Compact /\ UNCHANGED <<ledger, conversations, taskList>>
  BY DEF Summarise
<1>3. PICK t \in TransactionIds, expected \in ReadOfRun :
        \/ \E range \in Ranges : startCompaction(t, expected, run.activation, range[1], range[2])
        \/ \E v \in ViewIds : \/ \E cited \in Citations : deriveCompactionView(t, expected, v, cited)
                              \/ completeCompaction(t, expected, v)
        \/ \E reason \in Reasons : interruptCompaction(t, expected, reason)
  BY <1>2 DEF Compact
<1>4. /\ (TypedCompactions /\ CompactionsStand)'
      /\ \E stage, semantics : appendStage(t, stage, semantics)
  <2>1. CASE \E range \in Ranges : startCompaction(t, expected, run.activation, range[1], range[2])
    <3>1. PICK range \in Ranges : startCompaction(t, expected, run.activation, range[1], range[2])
      BY <2>1
    <3>2. range[1] \in Nat /\ range[2] \in Nat
      BY CompactionsAssumption
    <3>3. (TypedCompactions /\ CompactionsStand)'
      BY <1>1, <3>1, <3>2, Started
    <3>4. appendStage(t, "started", <<range[1], range[2]>>)
      BY <3>1 DEF startCompaction
    <3> QED BY <3>3, <3>4
  <2>2. CASE \E v \in ViewIds, cited \in Citations : deriveCompactionView(t, expected, v, cited)
    <3>1. PICK v \in ViewIds, cited \in Citations : deriveCompactionView(t, expected, v, cited)
      BY <2>2
    <3>2. cited \in SUBSET Nat
      BY CompactionsAssumption
    <3>3. (TypedCompactions /\ CompactionsStand)'
      BY <1>1, <3>1, <3>2, Derived
    <3>4. appendStage(t, "view_derived", <<transactions[t].from, transactions[t].to, v, cited>>)
      BY <3>1 DEF deriveCompactionView
    <3> QED BY <3>3, <3>4
  <2>3. CASE \E v \in ViewIds : completeCompaction(t, expected, v)
    <3>1. PICK v \in ViewIds : completeCompaction(t, expected, v)
      BY <2>3
    <3>2. (TypedCompactions /\ CompactionsStand)'
      BY <1>1, <3>1, Completed
    <3>3. appendStage(t, "completed", <<v>>)
      BY <3>1 DEF completeCompaction
    <3> QED BY <3>2, <3>3
  <2>4. CASE \E reason \in Reasons : interruptCompaction(t, expected, reason)
    <3>1. PICK reason \in Reasons : interruptCompaction(t, expected, reason)
      BY <2>4
    <3>2. (TypedCompactions /\ CompactionsStand)'
      BY <1>1, <3>1, Interrupted
    <3>3. appendStage(t, "interrupted", <<reason>>)
      BY <3>1 DEF interruptCompaction
    <3> QED BY <3>2, <3>3
  <2> QED BY <1>3, <2>1, <2>2, <2>3, <2>4
<1>5. PICK stage, semantics : appendStage(t, stage, semantics)
  BY <1>4
<1> QED BY <1>2, <1>4, <1>5, StageAlone

LEMMA PageRead ==
  ASSUME ChatInv, Read
  PROVE  ChatInv'
<1>1. TypedChats /\ walk \in WalkRows /\ WalkStands
  BY Parts DEF ChatInv
<1>2. UNCHANGED ledger /\ UNCHANGED runRecords
  BY DEF Read
<1>3. CASE \E c \in ChatIds, b \in Pages : startWalk(c, b[1], b[2])
  <2>1. PICK c \in ChatIds, b \in Pages : startWalk(c, b[1], b[2])
    BY <1>3
  <2>2. b[1] \in Nat /\ b[2] \in Nat
    BY StoriesAssumption
  <2>3. walk' \in WalkRows /\ WalkStands'
    BY <1>1, <2>1, <2>2, WalkStarted
  <2>4. chats' = chats /\ messages' = messages
    BY <2>1 DEF startWalk
  <2> QED BY <1>2, <2>3, <2>4, SameConversation, RecordsKept DEF KeepsTalk, ledger
<1>4. CASE nextPage
  <2>1. walk' \in WalkRows /\ WalkStands'
    BY <1>1, <1>4, WalkTurned
  <2>2. chats' = chats /\ messages' = messages
    BY <1>4 DEF nextPage
  <2> QED BY <1>2, <2>1, <2>2, SameConversation, RecordsKept DEF KeepsTalk, ledger
<1>5. CASE endWalk
  <2>1. walk' = NoWalk /\ chats' = chats /\ messages' = messages
    BY <1>5 DEF endWalk
  <2>2. walk' \in WalkRows /\ WalkStands'
    BY <2>1, WalkEnded
  <2> QED BY <1>2, <2>1, <2>2, SameConversation, RecordsKept DEF KeepsTalk, ledger
<1> QED BY <1>3, <1>4, <1>5 DEF Read, Walk

\* A behaviour begins where the story it begins with left off.
LEMMA Begun ==
  ASSUME Init
  PROVE  ChatInv
<1>1. PICK s \in Stories :
        /\ events = <<>> /\ chats = s.chats /\ messages = s.messages /\ walk = NoWalk
        /\ run = s.run /\ journal = s.journal /\ taskList = s.taskList
        /\ transactions = [t \in TransactionIds |-> Absent] /\ views = [v \in ViewIds |-> Absent]
  BY DEF Init
<1>2. StoryStands(s)
  BY StoriesAssumption
<1>3. /\ chats \in [ChatIds -> ChatRows \cup {Absent}] /\ messages \in [ChatIds -> Seq(MessageRows)]
      /\ \A c \in ChatIds : IF chats[c] = Absent THEN messages[c] = <<>> ELSE ChatStands(chats[c], messages[c], 0)
  BY <1>1, <1>2 DEF StoryStands
<1>4. /\ IsList(journal) /\ Told(journal, "compaction") = {}
      /\ IF run = Absent
           THEN journal = <<>> /\ taskList = Absent /\ \A c \in ChatIds : Answers(messages[c]) = {}
           ELSE run \in RunRows /\ chats[run.chat] # Absent /\ RunSaid(run, messages[run.chat], journal)
  BY <1>1, <1>2 DEF StoryStands
<1>5. /\ ListTold(taskList, journal)
      /\ taskList = Absent \/ /\ taskList \in ListRows /\ finalizeTaskList(taskList.items)
                              /\ taskList.state = "active" => run.status \notin TerminalStates
  BY <1>1, <1>2 DEF StoryStands
<1>6. Typed
  <2>1. IsList(events)
    BY <1>1, Nothing
  <2>2. walk \in WalkRows
    BY <1>1, EmptySeq DEF NoWalk, WalkRows
  <2> QED BY <1>1, <1>3, <1>4, <1>5, <2>1, <2>2 DEF Typed
<1>7. ChatsStand
  <2>1. \A c : Changes(c) = {}
    BY <1>1, Nothing DEF Changes
  <2>2. Cardinality({}) = 0
    BY FS_EmptySet
  <2> QED BY <1>3, <2>1, <2>2 DEF ChatsStand
<1>8. RunStands
  BY <1>1, <1>4 DEF RunStands
<1>9. ListStands
  BY <1>5 DEF ListStands, TaskListFollowsRun, Terminal
<1>10. CompactionsStand
  <2>1. \A t \in TransactionIds : StagesOf(t) = {} /\ viewsOf(t) = {} /\ transactions[t] = Absent
    BY <1>1, <1>4 DEF StagesOf, viewsOf
  <2> QED BY <2>1 DEF CompactionsStand, Staged
<1>11. WalkStands
  BY <1>1 DEF WalkStands
<1> QED BY <1>6, <1>7, <1>8, <1>9, <1>10, <1>11 DEF ChatInv

-----------------------------------------------------------------------------
(* Theorems                                                                  *)

LEMMA Stepped ==
  ASSUME ChatInv, [Next]_vars
  PROVE  ChatInv'
<1>1. CASE ChatCommands \/ ProjectCommands \/ Repeat
  BY <1>1, ChatSteps
<1>2. CASE Talk
  <2>1. PICK r \in Requests :
          \/ \E c \in ChatIds, text \in BOOLEAN, supersedes \in 0..2 : acceptRootRun(r, c, text, supersedes)
          \/ run # Absent /\ \E expected \in ReadOfRun : sendFollowup(r, expected) \/ cancelRun(r, expected)
          \/ answer(r)
    BY <1>2 DEF Talk
  <2>2. CASE \E c \in ChatIds, text \in BOOLEAN, supersedes \in 0..2 : acceptRootRun(r, c, text, supersedes)
    <3>1. PICK c \in ChatIds, text \in BOOLEAN, supersedes \in 0..2 : acceptRootRun(r, c, text, supersedes)
      BY <2>2
    <3>2. supersedes \in Nat
      OBVIOUS
    <3> QED BY <3>1, <3>2, RunAccepted
  <2>3. CASE \E expected \in ReadOfRun : sendFollowup(r, expected)
    BY <2>3, FollowupSent
  <2>4. CASE \E expected \in ReadOfRun : cancelRun(r, expected)
    BY <2>4, RunClosed
  <2>5. CASE answer(r)
    BY <2>5, Answered
  <2> QED BY <2>1, <2>2, <2>3, <2>4, <2>5
<1>3. CASE deliver \/ startActivation \/ consume \/ ask
  BY <1>3, ActivationSteps
<1>4. CASE settleInteractionAsk
  BY <1>4, QuestionAsked
<1>5. CASE settleFinalAnswer
  BY <1>5, FinallyAnswered
<1>6. CASE closeInterruptedActivation
  BY <1>6, RunClosed
<1>7. CASE \E expected \in ReadOfList : settleTaskManage(expected)
  BY <1>7, ListManaged
<1>8. CASE Summarise
  BY <1>8, Compacted
<1>9. CASE Read
  BY <1>9, PageRead
<1>10. CASE UNCHANGED vars
  <2>1. /\ chats' = chats /\ messages' = messages /\ events' = events /\ walk' = walk /\ UNCHANGED runRecords
    BY <1>10 DEF vars, ledger, conversations, runRecords
  <2> QED BY <2>1, SameConversation, TalkKept DEF KeepsTalk
<1> QED BY <1>1, <1>2, <1>3, <1>4, <1>5, <1>6, <1>7, <1>8, <1>9, <1>10 DEF Next

\* What a Chat, its Run and the records of the Run say of each other holds from every story on, after every step.
THEOREM ChatInvariant == Spec => []ChatInv
<1>1. Init => ChatInv
  BY Begun
<1>2. ChatInv /\ [Next]_vars => ChatInv'
  BY Stepped
<1> QED BY <1>1, <1>2, PTL DEF Spec

\* Compactions and the TaskList of a Run are what its journal tells of them, through every order of stages, calls,
\* repeated commands and ends of the Run (compaction-records.ts, task-lists.ts).
THEOREM RecordsAreTold == Spec => []RecordsFollowJournal
<1>1. ChatInv => RecordsFollowJournal
  <2>1. ChatInv => CompactionsFollowJournal
    BY Parts, CompactionsFollow DEF ChatInv, TypedRecords
  <2> QED BY <2>1 DEF ChatInv, ListStands, RecordsFollowJournal
<1> QED BY <1>1, ChatInvariant, PTL

\* No edit whose guards accept it leaves a list that is not a tree (task-lists.ts applyTaskListOperation).
THEOREM TreesStayTrees == Spec => []EditsKeepTheTree
<1>1. ChatInv => EditsKeepTheTree
  <2> SUFFICES ASSUME ChatInv, taskList # Absent, NEW items \in Edits(taskList.items)
               PROVE  finalizeTaskList(items)
    BY DEF EditsKeepTheTree
  <2>1. taskList.items \in ItemTables /\ finalizeTaskList(taskList.items)
    BY Parts, ListRow DEF ChatInv, TypedRecords, ListStands
  <2> QED BY <2>1, EditsKeepIt
<1> QED BY <1>1, ChatInvariant, PTL

\* A Chat's row counts its Messages, their documents follow its lifecycle, and its Run has taken every user Message
\* and said the one that its journal names exactly when it completed (conversation-write.ts, runs.ts).
THEOREM NothingIsHalfSaid == Spec => []MessagesAreWhole
<1>1. ChatInv => MessagesAreWhole
  BY DEF ChatInv, ChatsStand, RunStands, MessagesAreWhole, Changes
<1> QED BY <1>1, ChatInvariant, PTL

\* Pages of any length show a reader every Message once and in order, whatever is said meanwhile (conversations.ts).
THEOREM PagesShowAll == Spec => []WalksReadEveryMessageOnce
<1>1. ChatInv => WalksReadEveryMessageOnce
  BY DEF ChatInv, WalkStands, WalksReadEveryMessageOnce
<1> QED BY <1>1, ChatInvariant, PTL
===============================================================================
