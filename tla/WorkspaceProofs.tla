---------------------------- MODULE WorkspaceProofs ----------------------------
(* Proofs about Workspace: its documents keep their shape, its events tell  *)
(* the whole story of each of them, a repeated request is answered alike,   *)
(* and a tool call is told what it changed.                                 *)
EXTENDS Workspace, FiniteSetTheorems, SequenceTheorems, TLAPS

-----------------------------------------------------------------------------
\* A log continued by one event.
LEMMA Appended ==
  ASSUME NEW S, NEW log \in Seq(S), NEW e \in S
  PROVE  /\ Append(log, e) \in Seq(S) /\ Len(log) \in Nat
         /\ DOMAIN log = 1..Len(log) /\ DOMAIN Append(log, e) = 1..(Len(log) + 1)
         /\ \A i \in 1..Len(log) : Append(log, e)[i] = log[i]
         /\ Append(log, e)[Len(log) + 1] = e
  OBVIOUS

\* The event that is appended continues the last one of its object, or is the first one.
Continues(log, e) ==
  /\ e.after = e.before + 1
  /\ \/ e.subject \notin SubjectsOf(log) /\ e.before = -1
     \/ /\ e.subject \in SubjectsOf(log) /\ e.base = e.before
        /\ \A i \in DOMAIN log : Latest(log, i) /\ log[i].subject = e.subject => log[i].after = e.before

\* A log stays continuous, and for all other objects the latest event stays the latest.
LEMMA StoryGrows ==
  ASSUME NEW S, NEW log \in Seq(S), NEW e \in S, Continuous(log), Continues(log, e)
  PROVE  LET longer == Append(log, e) IN
         /\ Continuous(longer)
         /\ SubjectsOf(longer) = SubjectsOf(log) \cup {e.subject}
         /\ \A i \in DOMAIN longer : Latest(longer, i) =>
              \/ longer[i] = e
              \/ i \in DOMAIN log /\ Latest(log, i) /\ longer[i] = log[i] /\ log[i].subject # e.subject
<1> DEFINE longer == Append(log, e)
           n == Len(log) + 1
<1>1. /\ Len(log) \in Nat /\ DOMAIN log = 1..Len(log) /\ DOMAIN longer = 1..n
      /\ \A i \in 1..Len(log) : longer[i] = log[i]
      /\ longer[n] = e
  BY Appended
<1> HIDE DEF longer
<1>2. \A i \in 1..Len(log) : ToldBefore(longer, i) = ToldBefore(log, i)
  BY <1>1 DEF ToldBefore
<1>3. ToldBefore(longer, n) = {j \in DOMAIN log : log[j].subject = e.subject}
  BY <1>1 DEF ToldBefore
<1>4. SubjectsOf(longer) = SubjectsOf(log) \cup {e.subject}
  BY <1>1 DEF SubjectsOf
<1>5. \A i \in DOMAIN longer : Latest(longer, i) =>
         \/ longer[i] = e
         \/ i \in DOMAIN log /\ Latest(log, i) /\ longer[i] = log[i] /\ log[i].subject # e.subject
  BY <1>1 DEF Latest
<1>6. Continuous(longer)
  <2>1. SUFFICES ASSUME NEW i \in 1..n
                 PROVE  /\ longer[i].after = longer[i].before + 1
                        /\ ToldBefore(longer, i) = {} => longer[i].before = -1
                        /\ \A j \in 1..n : LastOf(ToldBefore(longer, i), j) =>
                             longer[i].before = longer[j].after /\ longer[i].base = longer[i].before
    BY <1>1 DEF Continuous
  <2>2. CASE i \in 1..Len(log)
    <3>1. \A j \in 1..n : LastOf(ToldBefore(log, i), j) => j \in 1..Len(log)
      BY <2>2, <1>1 DEF LastOf, ToldBefore
    <3> QED BY <2>2, <1>1, <1>2, <3>1 DEF Continuous
  <2>3. CASE i = n
    <3>1. CASE e.subject \notin SubjectsOf(log)
      <4>1. ToldBefore(longer, n) = {}
        BY <1>3, <3>1 DEF SubjectsOf
      <4> QED BY <1>1, <2>3, <3>1, <4>1 DEF Continues, LastOf
    <3>2. CASE e.subject \in SubjectsOf(log)
      <4>1. ToldBefore(longer, n) # {}
        BY <1>3, <3>2 DEF SubjectsOf
      <4>2. ASSUME NEW j \in 1..n, LastOf(ToldBefore(longer, n), j)
            PROVE  longer[n].before = longer[j].after /\ longer[n].base = longer[n].before
        <5>1. j \in DOMAIN log /\ log[j].subject = e.subject
          BY <1>3, <4>2 DEF LastOf
        <5>2. Latest(log, j)
          BY <1>1, <1>3, <4>2, <5>1 DEF Latest, LastOf
        <5> QED BY <1>1, <3>2, <5>1, <5>2 DEF Continues
      <4> QED BY <1>1, <2>3, <4>1, <4>2 DEF Continues
    <3> QED BY <3>1, <3>2
  <2> QED BY <2>2, <2>3, <1>1
<1> QED BY <1>4, <1>5, <1>6 DEF longer

-----------------------------------------------------------------------------
\* A sequence that lists a finite set once lists all of it.
LEMMA ListsAll ==
  ASSUME NEW S, IsFiniteSet(S), NEW order \in SetToSeqs(S)
  PROVE  /\ Cardinality(S) \in Nat /\ order \in [1..Cardinality(S) -> S]
         /\ \A n \in DOMAIN order : order[n] \in S
         /\ \A m, n \in DOMAIN order : order[m] = order[n] => m = n
         /\ ToSet(order) = S
<1> DEFINE D == 1..Cardinality(S)
<1>1. Cardinality(S) \in Nat
  BY FS_CardinalityType
<1>2. order \in [D -> S] /\ \A i, j \in D : i # j => order[i] # order[j]
  BY DEF SetToSeqs
<1>3. IsFiniteSet(D) /\ Cardinality(D) = Cardinality(S)
  BY <1>1, FS_Interval
<1>4. order \in Injection(D, S)
  BY <1>2 DEF Injection, IsInjective
<1>5. order \in Surjection(D, S)
  BY <1>3, <1>4, FS_Injection
<1>6. \A s \in S : \E n \in D : order[n] = s
  BY <1>5 DEF Surjection
<1> QED BY <1>1, <1>2, <1>6 DEF ToSet

\* The items below an ordinal are fewer the lower it is; so items whose ordinals differ can be put in order.
LEMMA Sorts ==
  ASSUME NEW S, IsFiniteSet(S), NEW at \in [S -> Nat], \A i, j \in S : at[i] = at[j] => i = j
  PROVE  \E order \in SetToSeqs(S) : \A m, n \in DOMAIN order : m < n => at[order[m]] < at[order[n]]
<1> DEFINE N == Cardinality(S)
           Below(i) == {j \in S : at[j] < at[i]}
<1>1. N \in Nat
  BY FS_CardinalityType
<1>2. ASSUME NEW i \in S PROVE /\ IsFiniteSet(Below(i)) /\ Cardinality(Below(i)) \in Nat
                               /\ Cardinality(Below(i)) < N
  <2>1. Below(i) \in SUBSET S /\ Below(i) # S
    OBVIOUS
  <2>2. IsFiniteSet(Below(i)) /\ Cardinality(Below(i)) <= N /\ (N = Cardinality(Below(i)) => S = Below(i))
    BY <2>1, FS_Subset
  <2>3. Cardinality(Below(i)) \in Nat
    BY <2>2, FS_CardinalityType
  <2> QED BY <1>1, <2>1, <2>2, <2>3
<1>3. ASSUME NEW i \in S, NEW j \in S, at[i] < at[j] PROVE Cardinality(Below(i)) < Cardinality(Below(j))
  <2>1. Below(i) \in SUBSET Below(j)
    BY <1>3
  <2>2. Below(i) # Below(j)
    BY <1>3
  <2>3. Cardinality(Below(i)) <= Cardinality(Below(j)) /\ (Cardinality(Below(j)) = Cardinality(Below(i)) => Below(j) = Below(i))
    BY <1>2, <2>1, FS_Subset
  <2>4. Cardinality(Below(i)) \in Nat /\ Cardinality(Below(j)) \in Nat
    BY <1>2
  <2> HIDE DEF Below
  <2> QED BY <2>2, <2>3, <2>4
<1> DEFINE rank == [i \in S |-> Cardinality(Below(i)) + 1]
<1> HIDE DEF Below
<1>4. /\ rank \in [S -> 1..N]
      /\ \A i \in S : rank[i] = Cardinality(Below(i)) + 1 /\ rank[i] \in 1..N
  <2>1. ASSUME NEW i \in S PROVE Cardinality(Below(i)) + 1 \in 1..N
    BY <1>1, <1>2
  <2>2. \A i \in S : rank[i] = Cardinality(Below(i)) + 1
    OBVIOUS
  <2>3. \A i \in S : rank[i] \in 1..N
    BY <2>1, <2>2
  <2>4. rank = [i \in S |-> rank[i]]
    OBVIOUS
  <2> HIDE DEF rank
  <2>5. rank \in [S -> 1..N]
    BY <2>3, <2>4
  <2> QED BY <2>2, <2>3, <2>5
<1>5. \A i, j \in S : (at[i] < at[j] => rank[i] < rank[j]) /\ (rank[i] = rank[j] => i = j) /\ (rank[i] < rank[j] => at[i] < at[j])
  <2> SUFFICES ASSUME NEW i \in S, NEW j \in S
               PROVE  (at[i] < at[j] => rank[i] < rank[j]) /\ (rank[i] = rank[j] => i = j) /\ (rank[i] < rank[j] => at[i] < at[j])
    OBVIOUS
  <2>1. at[i] \in Nat /\ at[j] \in Nat
    OBVIOUS
  <2>5. /\ rank[i] = Cardinality(Below(i)) + 1 /\ rank[j] = Cardinality(Below(j)) + 1
        /\ Cardinality(Below(i)) \in Nat /\ Cardinality(Below(j)) \in Nat
    BY <1>2, <1>4
  <2> HIDE DEF rank
  <2>2. at[i] < at[j] => rank[i] < rank[j]
    BY <1>3, <2>5
  <2>3. at[j] < at[i] => rank[j] < rank[i]
    BY <1>3, <2>5
  <2>4. at[i] = at[j] => i = j
    OBVIOUS
  <2> QED BY <2>1, <2>2, <2>3, <2>4, <2>5
<1> HIDE DEF rank
<1>6. IsFiniteSet(1..N) /\ Cardinality(1..N) = N
  BY <1>1, FS_Interval
<1>7. rank \in Injection(S, 1..N)
  BY <1>4, <1>5 DEF Injection, IsInjective
<1>8. rank \in Surjection(S, 1..N)
  BY <1>6, <1>7, FS_Injection
<1>9. \A n \in 1..N : \E i \in S : rank[i] = n
  BY <1>8 DEF Surjection
<1> DEFINE order == [n \in 1..N |-> CHOOSE i \in S : rank[i] = n]
<1>10. \A n \in 1..N : order[n] \in S /\ rank[order[n]] = n
  BY <1>9
<1>11. order \in [1..N -> S]
  BY <1>10
<1> HIDE DEF order
<1>12. order \in SetToSeqs(S)
  BY <1>10, <1>11 DEF SetToSeqs
<1>13. \A m, n \in 1..N : m < n => at[order[m]] < at[order[n]]
  BY <1>5, <1>10
<1> QED BY <1>11, <1>12, <1>13

-----------------------------------------------------------------------------
\* A sequence that lists a set: every element once.
Lists(order, S) ==
  /\ Cardinality(S) \in Nat /\ order \in [1..Cardinality(S) -> S] /\ ToSet(order) = S
  /\ \A m, n \in DOMAIN order : order[m] = order[n] => m = n
Kinds == {"scene", "shot", "clip"}
Parents == Items \cup {Absent}

\* Items have their columns.
LEMMA ItemFields ==
  ASSUME NEW doc, SequenceDocument(doc), NEW i \in DOMAIN doc.items
  PROVE  /\ i \in Items /\ i # Absent /\ doc.items[i] \in SequenceItem /\ doc.items[i].kind \in Kinds /\ doc.items[i].parent \in Parents
         /\ doc.items[i].ordinal \in Nat /\ doc.items[i].target \in Objects \cup Results /\ doc.items[i].pinned \in Nat
BY WorkspaceAssumption DEF SequenceDocument, Table, KeyedBy, SequenceItem, Kinds, Parents

\* The items under one parent are finitely many, and their ordinals differ.
LEMMA SiblingsDiffer ==
  ASSUME NEW doc, SequenceDocument(doc), NEW parent, Dense(doc, parent)
  PROVE  /\ IsFiniteSet(siblings(doc, parent)) /\ Cardinality(siblings(doc, parent)) \in Nat
         /\ \A i, j \in siblings(doc, parent) : doc.items[i].ordinal = doc.items[j].ordinal => i = j
<1> DEFINE S == siblings(doc, parent)
           N == Cardinality(S)
           at == [i \in S |-> doc.items[i].ordinal]
<1>1. IsFiniteSet(S) /\ N \in Nat
  <2>1. S \in SUBSET Items
    BY DEF siblings, SequenceDocument, Table, KeyedBy
  <2> QED BY <2>1, FS_Subset, FS_CardinalityType, WorkspaceAssumption
<1>2. IsFiniteSet(0..(N - 1)) /\ Cardinality(0..(N - 1)) = N
  <2>1. IsFiniteSet(0..(N - 1)) /\ Cardinality(0..(N - 1)) = IF 0 > N - 1 THEN 0 ELSE (N - 1) - 0 + 1
    BY <1>1, FS_Interval
  <2> QED BY <1>1, <2>1
<1>3. {doc.items[i].ordinal : i \in S} = 0..(N - 1)
  BY DEF Dense
<1> HIDE DEF S
<1>4. at \in Surjection(S, 0..(N - 1))
  BY <1>3 DEF Surjection
<1>5. at \in Injection(S, 0..(N - 1))
  BY <1>1, <1>2, <1>4, FS_Surjection
<1>6. \A i, j \in S : at[i] = at[j] => i = j
  BY <1>5 DEF Injection, IsInjective
<1> QED BY <1>1, <1>6 DEF S

\* Some of the items under one parent, in order.
LEMMA InOrderLists ==
  ASSUME NEW doc, SequenceDocument(doc), NEW parent, Dense(doc, parent), NEW ids \in SUBSET siblings(doc, parent)
  PROVE  IsFiniteSet(ids) /\ Lists(InOrder(doc, ids), ids)
<1> DEFINE at == [i \in ids |-> doc.items[i].ordinal]
<1>1. /\ IsFiniteSet(siblings(doc, parent))
      /\ \A i, j \in siblings(doc, parent) : doc.items[i].ordinal = doc.items[j].ordinal => i = j
  BY SiblingsDiffer
<1>2. IsFiniteSet(ids)
  BY <1>1, FS_Subset
<1>3. \A i \in ids : doc.items[i].ordinal \in Nat
  BY ItemFields DEF siblings
<1>4. at \in [ids -> Nat] /\ \A i, j \in ids : at[i] = at[j] => i = j
  BY <1>1, <1>3
<1>5. PICK order \in SetToSeqs(ids) : \A m, n \in DOMAIN order : m < n => at[order[m]] < at[order[n]]
  <2> HIDE DEF at
  <2> QED BY <1>2, <1>4, Sorts
<1>6. \A n \in DOMAIN order : order[n] \in ids
  BY <1>2, ListsAll
<1>7. Rising(doc, order)
  BY <1>5, <1>6 DEF Rising
<1>8. InOrder(doc, ids) \in SetToSeqs(ids)
  BY <1>5, <1>7 DEF InOrder
<1> QED BY <1>2, <1>8, ListsAll DEF Lists

\* The items of S come under parent, with the ordinals 0, 1, ...; the others stay.
Renumbers(after, items, parent, S) ==
  /\ Table(after, Items, SequenceItem) /\ DOMAIN after = DOMAIN items
  /\ \A i \in DOMAIN items : after[i].kind = items[i].kind /\ after[i].target = items[i].target
  /\ \A i \in S : after[i].parent = parent
  /\ \A i \in DOMAIN items \ S : after[i] = items[i]
  /\ {after[i].ordinal : i \in S} = 0..(Cardinality(S) - 1)
\* Items that are numbered in a list come under its parent, with the ordinals 0, 1, ...; the others stay.
LEMMA Numbered ==
  ASSUME NEW items, Table(items, Items, SequenceItem), NEW parent \in Parents,
         NEW S \in SUBSET DOMAIN items, NEW order, Lists(order, S)
  PROVE  Renumbers(updateSiblingOrdinals(items, parent, order), items, parent, S)
<1> DEFINE after == updateSiblingOrdinals(items, parent, order)
           rank(i) == CHOOSE n \in DOMAIN order : order[n] = i
           N == Cardinality(S)
<1>1. /\ N \in Nat /\ DOMAIN order = 1..N /\ ToSet(order) = S /\ \A n \in 1..N : order[n] \in S
      /\ \A m, n \in 1..N : order[m] = order[n] => m = n
  BY DEF Lists
<1>2. \A i \in S : rank(i) \in 1..N /\ order[rank(i)] = i
  <2>1. \A i \in S : \E n \in DOMAIN order : order[n] = i
    BY <1>1 DEF ToSet
  <2> QED BY <1>1, <2>1
<1>3. \A n \in 1..N : rank(order[n]) = n
  BY <1>1, <1>2
<1>4. /\ DOMAIN after = DOMAIN items /\ after = [i \in DOMAIN after |-> after[i]]
      /\ \A i \in S : after[i] = [items[i] EXCEPT !.parent = parent, !.ordinal = rank(i) - 1]
      /\ \A i \in DOMAIN items \ S : after[i] = items[i]
  <2>1. after = [i \in DOMAIN items |->
                   IF i \in S THEN [items[i] EXCEPT !.parent = parent, !.ordinal = rank(i) - 1] ELSE items[i]]
    BY <1>1 DEF updateSiblingOrdinals
  <2> HIDE DEF after, rank
  <2> QED BY <2>1
<1> HIDE DEF after, rank
<1>5. ASSUME NEW i \in S
      PROVE  /\ after[i] \in SequenceItem /\ after[i].parent = parent /\ after[i].ordinal = rank(i) - 1
             /\ after[i].kind = items[i].kind /\ after[i].target = items[i].target
  <2>1. items[i] \in SequenceItem
    BY DEF Table
  <2>2. rank(i) - 1 \in Nat
    BY <1>1, <1>2
  <2>3. after[i] = [items[i] EXCEPT !.parent = parent, !.ordinal = rank(i) - 1]
    BY <1>4
  <2> QED BY <2>1, <2>2, <2>3 DEF SequenceItem, Parents
<1>6. Table(after, Items, SequenceItem)
  BY <1>4, <1>5 DEF Table, KeyedBy
<1>7. {after[i].ordinal : i \in S} = 0..(N - 1)
  <2>1. ASSUME NEW i \in S PROVE after[i].ordinal \in 0..(N - 1)
    BY <1>1, <1>2, <1>5
  <2>2. ASSUME NEW k \in 0..(N - 1) PROVE \E i \in S : after[i].ordinal = k
    <3>1. k + 1 \in 1..N
      BY <1>1
    <3>2. order[k + 1] \in S /\ rank(order[k + 1]) = k + 1
      BY <1>1, <1>3, <3>1
    <3>3. after[order[k + 1]].ordinal = (k + 1) - 1
      BY <1>5, <3>2
    <3> QED BY <3>2, <3>3
  <2> QED BY <2>1, <2>2
<1>8. \A i \in DOMAIN items : after[i].kind = items[i].kind /\ after[i].target = items[i].target
  BY <1>4, <1>5
<1> QED BY <1>4, <1>5, <1>6, <1>7, <1>8 DEF after, Renumbers

\* A document with other items is a document.
LEMMA ItemsReplaced ==
  ASSUME NEW doc, SequenceDocument(doc), NEW items, Table(items, Items, SequenceItem)
  PROVE  /\ SequenceDocument([doc EXCEPT !.items = items]) /\ [doc EXCEPT !.items = items].items = items
BY DEF SequenceDocument

\* An element put into a list of others is listed with them.
LEMMA InsertLists ==
  ASSUME NEW S, IsFiniteSet(S), NEW order, Lists(order, S), NEW x, x \notin S, NEW k \in 0..Cardinality(S)
  PROVE  Lists(InsertAt(order, k + 1, x), S \cup {x})
<1> DEFINE N == Cardinality(S)
           T == S \cup {x}
           head == SubSeq(order, 1, k)
           tail == SubSeq(order, k + 1, N)
           placed == InsertAt(order, k + 1, x)
<1>1. /\ N \in Nat /\ order \in [1..N -> S] /\ ToSet(order) = S
      /\ \A m, n \in 1..N : order[m] = order[n] => m = n
  BY DEF Lists
<1>2. order \in Seq(T) /\ Len(order) = N /\ k \in Nat /\ k <= N
  BY <1>1
<1>3. /\ head \in Seq(T) /\ Len(head) = k /\ \A i \in 1..k : head[i] = order[i]
  BY <1>1, <1>2
<1>4. /\ tail \in Seq(T) /\ Len(tail) = N - k /\ \A i \in 1..(N - k) : tail[i] = order[k + i]
  BY <1>1, <1>2
<1>5. placed = (head \o <<x>>) \o tail
  <2>1. (k + 1) - 1 = k
    BY <1>2
  <2> QED BY <1>2, <2>1 DEF InsertAt
<1> HIDE DEF head, tail, placed
<1>6. /\ head \o <<x>> \in Seq(T) /\ Len(head \o <<x>>) = k + 1
      /\ \A i \in 1..k : (head \o <<x>>)[i] = order[i]
      /\ (head \o <<x>>)[k + 1] = x
  BY <1>2, <1>3
<1> DEFINE left == head \o <<x>>
<1> HIDE DEF left
<1>7. /\ placed \in Seq(T) /\ Len(placed) = N + 1
      /\ \A i \in 1..(k + 1) : placed[i] = left[i]
      /\ \A i \in (k + 2)..(N + 1) : placed[i] = tail[i - (k + 1)]
  <2>1. left \in Seq(T) /\ Len(left) = k + 1 /\ placed = left \o tail
    BY <1>5, <1>6 DEF left
  <2>2. /\ placed \in Seq(T) /\ Len(placed) = Len(left) + Len(tail)
        /\ \A i \in 1..(Len(left) + Len(tail)) : placed[i] = IF i <= Len(left) THEN left[i] ELSE tail[i - Len(left)]
    BY <1>4, <2>1, ConcatProperties
  <2> QED BY <1>1, <1>2, <1>4, <2>1, <2>2
<1>8. \A i \in 1..(N + 1) :
        placed[i] = IF i <= k THEN order[i] ELSE IF i = k + 1 THEN x ELSE order[i - 1]
  <2>1. SUFFICES ASSUME NEW i \in 1..(N + 1)
                 PROVE  placed[i] = IF i <= k THEN order[i] ELSE IF i = k + 1 THEN x ELSE order[i - 1]
    OBVIOUS
  <2>2. CASE i <= k + 1
    BY <1>1, <1>2, <1>6, <1>7, <2>2 DEF left
  <2>3. CASE i > k + 1
    <3>1. i \in (k + 2)..(N + 1) /\ i - (k + 1) \in 1..(N - k) /\ k + (i - (k + 1)) = i - 1
      BY <1>1, <1>2, <2>3
    <3> QED BY <1>2, <1>4, <1>7, <2>3, <3>1
  <2> QED BY <1>1, <1>2, <2>2, <2>3
<1>9. IsFiniteSet(T) /\ Cardinality(T) = N + 1
  BY FS_AddElement
<1>10. placed \in [1..(N + 1) -> T]
  BY <1>1, <1>7
<1>11. \A i, j \in 1..(N + 1) : placed[i] = placed[j] => i = j
  <2>1. SUFFICES ASSUME NEW i \in 1..(N + 1), NEW j \in 1..(N + 1), placed[i] = placed[j] PROVE i = j
    OBVIOUS
  <2> DEFINE was(a) == IF a <= k THEN a ELSE a - 1
  <2>2. \A a \in 1..(N + 1) : a # k + 1 => was(a) \in 1..N /\ placed[a] = order[was(a)] /\ order[was(a)] \in S
    BY <1>1, <1>2, <1>8
  <2>3. placed[k + 1] = x
    BY <1>1, <1>2, <1>8
  <2>4. CASE i = k + 1 \/ j = k + 1
    BY <2>1, <2>2, <2>3, <2>4
  <2>5. CASE i # k + 1 /\ j # k + 1
    <3>1. was(i) = was(j)
      BY <1>1, <2>1, <2>2, <2>5
    <3> QED BY <1>1, <1>2, <2>5, <3>1
  <2> QED BY <2>4, <2>5
<1>12. ToSet(placed) = T
  <2>1. \A i \in 1..(N + 1) : placed[i] \in T
    BY <1>10
  <2>2. x = placed[k + 1] /\ k + 1 \in 1..(N + 1)
    BY <1>1, <1>2, <1>8
  <2>3. ASSUME NEW s \in S PROVE \E i \in 1..(N + 1) : placed[i] = s
    <3>1. PICK n \in 1..N : order[n] = s
      BY <1>1 DEF ToSet
    <3>2. CASE n <= k
      BY <1>1, <1>2, <1>8, <3>1, <3>2
    <3>3. CASE n > k
      <4>1. n + 1 \in 1..(N + 1) /\ ~(n + 1 <= k) /\ n + 1 # k + 1 /\ (n + 1) - 1 = n
        BY <1>1, <1>2, <3>3
      <4> QED BY <1>8, <3>1, <4>1
    <3> QED BY <1>1, <1>2, <3>2, <3>3
  <2>4. DOMAIN placed = 1..(N + 1)
    BY <1>10
  <2> QED BY <2>1, <2>2, <2>3, <2>4 DEF ToSet
<1>13. DOMAIN placed = 1..(N + 1) /\ N + 1 \in Nat
  BY <1>1, <1>10
<1> QED BY <1>9, <1>10, <1>11, <1>12, <1>13 DEF Lists, placed

-----------------------------------------------------------------------------
\* The Sequence documents: what every operation leaves standing.
LEMMA EmptySequenceStands == SequenceStands(createEmptySequence)
<1> DEFINE doc == createEmptySequence
<1>1. doc.items = <<>> /\ DOMAIN doc.items = {}
  BY DEF createEmptySequence
<1>2. SequenceDocument(doc)
  BY DEF createEmptySequence, SequenceDocument, Table, KeyedBy, Names
<1>3. siblings(doc, Absent) = {}
  BY <1>1 DEF siblings
<1>4. Dense(doc, Absent)
  BY <1>3, FS_EmptySet DEF Dense
<1> QED BY <1>1, <1>2, <1>4 DEF SequenceStands, WellFormedSequence, ClipsShowTheirShot

\* Under which parent an item of a kind may stand.
Fits(doc, kind, parent) ==
  \/ kind = "scene" /\ parent = Absent
  \/ kind = "shot" /\ parent \in DOMAIN doc.items /\ doc.items[parent].kind = "scene"
  \/ kind = "clip" /\ parent \in DOMAIN doc.items /\ doc.items[parent].kind = "shot"
LEMMA ShapeIsFit ==
  ASSUME NEW doc, NEW i, doc.items[i].kind \in Kinds
  PROVE  ShapeOK(doc, i) <=> Fits(doc, doc.items[i].kind, doc.items[i].parent)
<1>1. CASE doc.items[i].kind = "scene"
  BY <1>1 DEF ShapeOK, Fits
<1>2. CASE doc.items[i].kind = "shot"
  BY <1>2 DEF ShapeOK, Fits
<1>3. CASE doc.items[i].kind = "clip"
  BY <1>3 DEF ShapeOK, Fits
<1> QED BY <1>1, <1>2, <1>3 DEF Kinds

\* A document stands when its items fit, its siblings are numbered and its clips show their Shot.
LEMMA StandsMeans ==
  ASSUME NEW doc, SequenceDocument(doc)
  PROVE  SequenceStands(doc) <=>
           /\ \A i \in DOMAIN doc.items : Fits(doc, doc.items[i].kind, doc.items[i].parent)
           /\ \A p \in DOMAIN doc.items \cup {Absent} : Dense(doc, p)
           /\ \A i \in DOMAIN doc.items : doc.items[i].kind = "clip" =>
                ShotOf[doc.items[i].target] = doc.items[doc.items[i].parent].target
BY ItemFields, ShapeIsFit DEF SequenceStands, WellFormedSequence, ClipsShowTheirShot

\* A name, a lifecycle or a revision leaves the items alone.
LEMMA SameItems ==
  ASSUME NEW doc, SequenceStands(doc), NEW other, SequenceDocument(other), other.items = doc.items
  PROVE  SequenceStands(other)
<1>1. SequenceDocument(doc)
  BY DEF SequenceStands
<1>2. \A p : siblings(other, p) = siblings(doc, p)
  BY DEF siblings
<1>3. \A p : Dense(doc, p) => Dense(other, p)
  BY <1>2 DEF Dense
<1>4. \A i \in DOMAIN doc.items : Fits(doc, doc.items[i].kind, doc.items[i].parent)
                                 => Fits(other, other.items[i].kind, other.items[i].parent)
  BY DEF Fits
<1> QED BY <1>1, <1>3, <1>4, StandsMeans

LEMMA HeaderStands ==
  ASSUME NEW doc, SequenceStands(doc)
  PROVE  /\ \A n \in Nat : SequenceStands([doc EXCEPT !.revision = n]) /\ [doc EXCEPT !.revision = n].revision = n
         /\ \A name \in Names : SequenceStands([doc EXCEPT !.name = name])
         /\ \A lifecycle \in {"active", "archived"} : SequenceStands([doc EXCEPT !.lifecycle = lifecycle])
<1>1. SequenceDocument(doc)
  BY DEF SequenceStands
<1>2. ASSUME NEW n \in Nat PROVE SequenceStands([doc EXCEPT !.revision = n]) /\ [doc EXCEPT !.revision = n].revision = n
  <2>1. SequenceDocument([doc EXCEPT !.revision = n]) /\ [doc EXCEPT !.revision = n].items = doc.items
        /\ [doc EXCEPT !.revision = n].revision = n
    BY <1>1 DEF SequenceDocument
  <2> QED BY <2>1, SameItems
<1>3. ASSUME NEW name \in Names PROVE SequenceStands([doc EXCEPT !.name = name])
  <2>1. SequenceDocument([doc EXCEPT !.name = name]) /\ [doc EXCEPT !.name = name].items = doc.items
    BY <1>1 DEF SequenceDocument
  <2> QED BY <2>1, SameItems
<1>4. ASSUME NEW lifecycle \in {"active", "archived"} PROVE SequenceStands([doc EXCEPT !.lifecycle = lifecycle])
  <2>1. SequenceDocument([doc EXCEPT !.lifecycle = lifecycle]) /\ [doc EXCEPT !.lifecycle = lifecycle].items = doc.items
    BY <1>1 DEF SequenceDocument
  <2> QED BY <2>1, SameItems
<1> QED BY <1>2, <1>3, <1>4

LEMMA AppendedStands ==
  ASSUME NEW doc, SequenceStands(doc), NEW id \in Items, id \notin DOMAIN doc.items, NEW kind \in Kinds, NEW parent,
         Fits(doc, kind, parent), NEW target \in Objects \cup Results, NEW pinned \in Nat,
         kind = "clip" => ShotOf[target] = doc.items[parent].target
  PROVE  SequenceStands(AppendedItem(doc, id, kind, parent, target, pinned))
<1> DEFINE S == siblings(doc, parent)
           new == [kind |-> kind, parent |-> parent, ordinal |-> Cardinality(S), target |-> target, pinned |-> pinned]
           items == [i \in DOMAIN doc.items \cup {id} |-> IF i # id THEN doc.items[i] ELSE new]
           after == AppendedItem(doc, id, kind, parent, target, pinned)
<1>1. /\ SequenceDocument(doc)
      /\ \A i \in DOMAIN doc.items : Fits(doc, doc.items[i].kind, doc.items[i].parent)
      /\ \A p \in DOMAIN doc.items \cup {Absent} : Dense(doc, p)
      /\ \A i \in DOMAIN doc.items : doc.items[i].kind = "clip" =>
           ShotOf[doc.items[i].target] = doc.items[doc.items[i].parent].target
  BY StandsMeans DEF SequenceStands
<1>2. parent \in DOMAIN doc.items \cup {Absent} /\ parent \in Parents /\ id # Absent /\ parent # id
  BY <1>1, ItemFields, WorkspaceAssumption DEF Fits, Kinds, Parents
<1>3. Dense(doc, parent)
  BY <1>1, <1>2
<1>4. IsFiniteSet(S) /\ Cardinality(S) \in Nat
  BY <1>1, <1>3, SiblingsDiffer
<1>5. new \in SequenceItem
  BY <1>2, <1>4 DEF SequenceItem, Kinds, Parents
<1>6. Table(items, Items, SequenceItem)
  BY <1>1, <1>5 DEF Table, KeyedBy, SequenceDocument
<1>7. after = [doc EXCEPT !.items = items]
  BY <1>1 DEF AppendedItem, SequenceDocument
<1>8. SequenceDocument(after) /\ after.items = items
  BY <1>1, <1>6, <1>7, ItemsReplaced
<1>9. /\ DOMAIN after.items = DOMAIN doc.items \cup {id} /\ after.items[id] = new
      /\ \A i \in DOMAIN doc.items : after.items[i] = doc.items[i]
  BY <1>8
<1>10. /\ new.kind = kind /\ new.parent = parent /\ new.ordinal = Cardinality(S) /\ new.target = target
  OBVIOUS
<1> HIDE DEF after, items, new
<1>11. \A i \in DOMAIN doc.items : doc.items[i].parent # id
  BY <1>1, <1>2, ItemFields DEF Fits
<1>12. \A i \in DOMAIN after.items : Fits(after, after.items[i].kind, after.items[i].parent)
  <2>1. ASSUME NEW i \in DOMAIN doc.items PROVE Fits(after, after.items[i].kind, after.items[i].parent)
    BY <1>1, <1>9, <2>1 DEF Fits
  <2>2. Fits(after, after.items[id].kind, after.items[id].parent)
    BY <1>9, <1>10 DEF Fits
  <2> QED BY <1>9, <2>1, <2>2
<1>13. ASSUME NEW p \in DOMAIN after.items \cup {Absent} PROVE Dense(after, p)
  <2>1. CASE p = parent
    <3>1. siblings(after, p) = S \cup {id} /\ id \notin S
      BY <1>9, <1>10, <2>1 DEF siblings
    <3>2. Cardinality(S \cup {id}) = Cardinality(S) + 1
      BY <1>4, <3>1, FS_AddElement
    <3>3. {doc.items[i].ordinal : i \in S} = 0..(Cardinality(S) - 1)
      BY <1>3 DEF Dense
    <3>4. \A i \in S : after.items[i].ordinal = doc.items[i].ordinal
      BY <1>9 DEF siblings
    <3>5. after.items[id].ordinal = Cardinality(S)
      BY <1>9, <1>10
    <3> HIDE DEF S
    <3>6. {after.items[i].ordinal : i \in S \cup {id}} = 0..Cardinality(S)
      BY <1>4, <3>3, <3>4, <3>5
    <3>7. (Cardinality(S) + 1) - 1 = Cardinality(S)
      BY <1>4
    <3> QED BY <3>1, <3>2, <3>6, <3>7 DEF Dense
  <2>2. CASE p # parent /\ p # id
    <3>1. siblings(after, p) = siblings(doc, p)
      BY <1>9, <1>10, <2>2 DEF siblings
    <3>2. Dense(doc, p)
      BY <1>1, <1>9, <2>2
    <3>3. \A i \in siblings(doc, p) : after.items[i].ordinal = doc.items[i].ordinal
      BY <1>9 DEF siblings
    <3> QED BY <3>1, <3>2, <3>3 DEF Dense
  <2>3. CASE p = id
    <3>1. siblings(after, p) = {}
      BY <1>2, <1>9, <1>10, <1>11, <2>3 DEF siblings
    <3> QED BY <3>1, FS_EmptySet DEF Dense
  <2> QED BY <2>1, <2>2, <2>3
<1>14. \A i \in DOMAIN after.items : after.items[i].kind = "clip" =>
         ShotOf[after.items[i].target] = after.items[after.items[i].parent].target
  <2>1. ASSUME NEW i \in DOMAIN doc.items, doc.items[i].kind = "clip"
        PROVE  ShotOf[after.items[i].target] = after.items[after.items[i].parent].target
    <3>1. doc.items[i].parent \in DOMAIN doc.items
      BY <1>1, <2>1 DEF Fits
    <3> QED BY <1>1, <1>9, <2>1, <3>1
  <2>2. ASSUME kind = "clip"
        PROVE  ShotOf[after.items[id].target] = after.items[after.items[id].parent].target
    <3>1. parent \in DOMAIN doc.items
      BY <2>2 DEF Fits
    <3> QED BY <1>9, <1>10, <2>2, <3>1
  <2> QED BY <1>9, <1>10, <2>1, <2>2
<1> QED BY <1>8, <1>12, <1>13, <1>14, StandsMeans DEF after

\* Another result for a clip of the same Shot.
LEMMA ClipUpdatedStands ==
  ASSUME NEW doc, SequenceStands(doc), NEW id \in DOMAIN doc.items, doc.items[id].kind = "clip", NEW result \in Results,
         requireClipResult(doc, result, doc.items[id].parent)
  PROVE  SequenceStands(ClipUpdated(doc, id, result))
<1> DEFINE new == [doc.items[id] EXCEPT !.target = result]
           items == [doc.items EXCEPT ![id] = new]
           after == ClipUpdated(doc, id, result)
<1>1. /\ SequenceDocument(doc) /\ doc.items[id] \in SequenceItem
      /\ \A i \in DOMAIN doc.items : Fits(doc, doc.items[i].kind, doc.items[i].parent)
      /\ \A p \in DOMAIN doc.items \cup {Absent} : Dense(doc, p)
      /\ \A i \in DOMAIN doc.items : doc.items[i].kind = "clip" =>
           ShotOf[doc.items[i].target] = doc.items[doc.items[i].parent].target
  BY StandsMeans DEF SequenceStands, SequenceDocument, Table
<1>2. /\ new \in SequenceItem /\ new.kind = "clip" /\ new.parent = doc.items[id].parent
      /\ new.ordinal = doc.items[id].ordinal /\ new.target = result
  BY <1>1 DEF SequenceItem
<1>3. Table(items, Items, SequenceItem)
  BY <1>1, <1>2 DEF Table, KeyedBy, SequenceDocument
<1>4. after = [doc EXCEPT !.items = items]
  BY <1>1 DEF ClipUpdated, SequenceDocument, Table, KeyedBy
<1>5. SequenceDocument(after) /\ after.items = items
  BY <1>1, <1>3, <1>4, ItemsReplaced
<1>6. /\ DOMAIN after.items = DOMAIN doc.items /\ after.items[id] = new
      /\ \A i \in DOMAIN doc.items \ {id} : after.items[i] = doc.items[i]
  BY <1>1, <1>5 DEF SequenceDocument, Table, KeyedBy
<1> HIDE DEF new, items, after
<1>7. \A i \in DOMAIN doc.items : /\ after.items[i].kind = doc.items[i].kind /\ after.items[i].parent = doc.items[i].parent
                                  /\ after.items[i].ordinal = doc.items[i].ordinal
                                  /\ (doc.items[i].kind = "clip" \/ after.items[i].target = doc.items[i].target)
  BY <1>2, <1>6
<1>8. \A i \in DOMAIN doc.items : Fits(after, after.items[i].kind, after.items[i].parent)
  BY <1>1, <1>6, <1>7 DEF Fits
<1>9. ASSUME NEW p \in DOMAIN doc.items \cup {Absent} PROVE Dense(after, p)
  <2>1. siblings(after, p) = siblings(doc, p)
    BY <1>6, <1>7 DEF siblings
  <2>2. \A i \in siblings(doc, p) : after.items[i].ordinal = doc.items[i].ordinal
    BY <1>7 DEF siblings
  <2>3. Dense(doc, p)
    BY <1>1
  <2> QED BY <2>1, <2>2, <2>3 DEF Dense
<1>10. ASSUME NEW i \in DOMAIN doc.items, after.items[i].kind = "clip"
       PROVE  ShotOf[after.items[i].target] = after.items[after.items[i].parent].target
  <2>1. doc.items[i].kind = "clip" /\ doc.items[i].parent \in DOMAIN doc.items /\ doc.items[doc.items[i].parent].kind = "shot"
    BY <1>1, <1>7, <1>10 DEF Fits
  <2>2. after.items[doc.items[i].parent].target = doc.items[doc.items[i].parent].target
    BY <1>7, <2>1
  <2>3. ShotOf[after.items[i].target] = doc.items[doc.items[i].parent].target
    BY <1>1, <1>2, <1>6, <2>1 DEF requireClipResult
  <2> QED BY <1>7, <2>2, <2>3
<1> QED BY <1>5, <1>6, <1>8, <1>9, <1>10, StandsMeans DEF after

\* What a document that stands is made of.
LEMMA StandingParts ==
  ASSUME NEW doc, SequenceStands(doc)
  PROVE  /\ SequenceDocument(doc) /\ Table(doc.items, Items, SequenceItem)
         /\ \A i \in DOMAIN doc.items : Fits(doc, doc.items[i].kind, doc.items[i].parent)
         /\ \A p \in DOMAIN doc.items \cup {Absent} : Dense(doc, p)
         /\ \A i \in DOMAIN doc.items : doc.items[i].kind = "clip" =>
              ShotOf[doc.items[i].target] = doc.items[doc.items[i].parent].target
         /\ \A i \in DOMAIN doc.items : doc.items[i].parent \in DOMAIN doc.items \cup {Absent}
         /\ \A p \in DOMAIN doc.items \cup {Absent} : p \in Parents
         /\ \A p : siblings(doc, p) \subseteq DOMAIN doc.items
BY StandsMeans, ItemFields DEF SequenceStands, SequenceDocument, Fits, Parents, siblings

\* The children of one parent are numbered 0, 1, ...
Counted(items, p) ==
  LET S == {i \in DOMAIN items : items[i].parent = p} IN {items[i].ordinal : i \in S} = 0..(Cardinality(S) - 1)
LEMMA DenseIsCounted == \A doc, p : Dense(doc, p) <=> Counted(doc.items, p)
BY DEF Dense, Counted, siblings
\* An item among other items, with the kind and the target it had in the document.
Keeps(doc, items, i) ==
  /\ items[i].kind = doc.items[i].kind /\ items[i].target = doc.items[i].target
  /\ Fits(doc, items[i].kind, items[i].parent)
  /\ items[i].kind = "clip" => ShotOf[items[i].target] = doc.items[items[i].parent].target

\* Where kinds and targets stay and parents fit, only the numbers of the siblings are left to be shown.
LEMMA Renumbered ==
  ASSUME NEW doc, SequenceStands(doc), NEW items, Table(items, Items, SequenceItem), DOMAIN items = DOMAIN doc.items,
         \A i \in DOMAIN items : Keeps(doc, items, i),
         \A p \in DOMAIN items \cup {Absent} : Counted(items, p)
  PROVE  SequenceStands([doc EXCEPT !.items = items])
<1> DEFINE after == [doc EXCEPT !.items = items]
<1>1. SequenceDocument(after) /\ after.items = items
  BY ItemsReplaced DEF SequenceStands
<1> HIDE DEF after
<1>2. \A i \in DOMAIN items : Fits(after, items[i].kind, items[i].parent)
  BY <1>1 DEF Fits, Keeps
<1>3. \A p \in DOMAIN items \cup {Absent} : Dense(after, p)
  BY <1>1, DenseIsCounted
<1>4. \A i \in DOMAIN items : items[i].kind = "clip" => ShotOf[items[i].target] = items[items[i].parent].target
  BY DEF Fits, Keeps
<1> QED BY <1>1, <1>2, <1>3, <1>4, StandsMeans DEF after

\* The children of one parent in another order.
LEMMA ReorderedStands ==
  ASSUME NEW doc, SequenceStands(doc), NEW parent \in DOMAIN doc.items \cup {Absent},
         NEW order \in SetToSeqs(siblings(doc, parent))
  PROVE  SequenceStands(ReorderedItems(doc, parent, order))
<1> DEFINE S == siblings(doc, parent)
           items == updateSiblingOrdinals(doc.items, parent, order)
<1>1. /\ Table(doc.items, Items, SequenceItem) /\ SequenceDocument(doc) /\ parent \in Parents /\ Dense(doc, parent)
      /\ S \in SUBSET DOMAIN doc.items
  BY StandingParts
<1>2. IsFiniteSet(S)
  BY <1>1, SiblingsDiffer
<1>3. Lists(order, S)
  BY <1>2, ListsAll DEF Lists
<1>4. /\ Table(items, Items, SequenceItem) /\ DOMAIN items = DOMAIN doc.items
      /\ \A i \in DOMAIN doc.items : items[i].kind = doc.items[i].kind /\ items[i].target = doc.items[i].target
      /\ \A i \in S : items[i].parent = parent
      /\ \A i \in DOMAIN doc.items \ S : items[i] = doc.items[i]
      /\ {items[i].ordinal : i \in S} = 0..(Cardinality(S) - 1)
  <2> HIDE DEF S, items
  <2>1. Renumbers(items, doc.items, parent, S)
    BY <1>1, <1>3, Numbered DEF items
  <2> QED BY <2>1 DEF Renumbers
<1>5. ReorderedItems(doc, parent, order) = [doc EXCEPT !.items = items]
  BY <1>1 DEF ReorderedItems, SequenceDocument
<1> HIDE DEF items
<1>6. \A i \in DOMAIN doc.items : items[i].parent = doc.items[i].parent
  BY <1>4 DEF siblings
<1>7. \A i \in DOMAIN items : Keeps(doc, items, i)
  BY <1>4, <1>6, StandingParts DEF Keeps
<1>8. ASSUME NEW p \in DOMAIN items \cup {Absent}
      PROVE  Counted(items, p)
  <2>1. {i \in DOMAIN items : items[i].parent = p} = siblings(doc, p)
    BY <1>4, <1>6 DEF siblings
  <2>2. CASE p = parent
    BY <1>4, <2>1, <2>2 DEF Counted
  <2>3. CASE p # parent
    <3>1. Dense(doc, p)
      BY <1>4, StandingParts
    <3>2. \A i \in siblings(doc, p) : items[i] = doc.items[i]
      BY <1>4, <2>3 DEF siblings
    <3> QED BY <2>1, <3>1, <3>2 DEF Dense, Counted
  <2> QED BY <2>2, <2>3
<1> QED BY <1>4, <1>5, <1>7, <1>8, Renumbered

\* An item goes to another place among its siblings, or to another parent of the right kind; both places close up.
LEMMA MovedStands ==
  ASSUME NEW doc, SequenceStands(doc), NEW id \in DOMAIN doc.items, NEW parent, assertParent(doc, id, parent),
         NEW index \in Nat, index <= Cardinality(siblings(doc, parent) \ {id})
  PROVE  SequenceStands(MovedItem(doc, id, parent, index))
<1> DEFINE from == doc.items[id].parent
           F == siblings(doc, from) \ {id}
           T == siblings(doc, parent) \ {id}
           sourceIds == InOrder(doc, F)
           targetIds == IF from = parent THEN sourceIds ELSE InOrder(doc, siblings(doc, parent))
           placed == InsertAt(targetIds, index + 1, id)
           left == IF from = parent THEN doc.items ELSE updateSiblingOrdinals(doc.items, from, sourceIds)
           items == updateSiblingOrdinals(left, parent, placed)
<1>1. /\ SequenceDocument(doc) /\ Table(doc.items, Items, SequenceItem)
      /\ \A i \in DOMAIN doc.items : Fits(doc, doc.items[i].kind, doc.items[i].parent)
      /\ \A p \in DOMAIN doc.items \cup {Absent} : Dense(doc, p) /\ p \in Parents
      /\ \A i \in DOMAIN doc.items : doc.items[i].kind = "clip" =>
           ShotOf[doc.items[i].target] = doc.items[doc.items[i].parent].target
      /\ from \in DOMAIN doc.items \cup {Absent}
  BY StandingParts
<1>2. Fits(doc, doc.items[id].kind, parent) /\ (doc.items[id].kind = "clip" => ShotOf[doc.items[id].target] = doc.items[parent].target)
  <2>1. doc.items[id].kind \in Kinds
    BY <1>1, ItemFields
  <2>2. CASE doc.items[id].kind = "scene"
    BY <2>2 DEF assertParent, Fits
  <2>3. CASE doc.items[id].kind = "shot"
    BY <2>3 DEF assertParent, Fits
  <2>4. CASE doc.items[id].kind = "clip"
    BY <2>4 DEF assertParent, Fits, requireClipResult
  <2> QED BY <2>1, <2>2, <2>3, <2>4 DEF Kinds
<1>3. parent \in DOMAIN doc.items \cup {Absent}
  BY <1>2 DEF Fits
<1>4. from = parent => F = T
  OBVIOUS
<1>5. from # parent => T = siblings(doc, parent)
  BY DEF siblings
<1>6. /\ IsFiniteSet(F) /\ Lists(sourceIds, F) /\ F \in SUBSET DOMAIN doc.items
      /\ IsFiniteSet(T) /\ Lists(targetIds, T) /\ T \in SUBSET DOMAIN doc.items
  <2>1. F \in SUBSET siblings(doc, from) /\ siblings(doc, parent) \in SUBSET siblings(doc, parent)
    OBVIOUS
  <2>2. IsFiniteSet(F) /\ Lists(sourceIds, F)
    BY <1>1, <2>1, InOrderLists
  <2>3. IsFiniteSet(siblings(doc, parent)) /\ Lists(InOrder(doc, siblings(doc, parent)), siblings(doc, parent))
    BY <1>1, <1>3, <2>1, InOrderLists
  <2>4. F \in SUBSET DOMAIN doc.items /\ T \in SUBSET DOMAIN doc.items
    BY DEF siblings
  <2>5. CASE from = parent
    <3>1. targetIds = sourceIds
      BY <2>5
    <3> HIDE DEF targetIds, sourceIds, F, T
    <3> QED BY <1>4, <2>2, <2>4, <2>5, <3>1
  <2>6. CASE from # parent
    <3>1. targetIds = InOrder(doc, siblings(doc, parent))
      BY <2>6
    <3> HIDE DEF targetIds, sourceIds, F, T
    <3> QED BY <1>5, <2>2, <2>3, <2>4, <2>6, <3>1
  <2> QED BY <2>5, <2>6
<1>7. id \notin T /\ id \notin F
  OBVIOUS
<1>8. Lists(placed, T \cup {id}) /\ T \cup {id} \in SUBSET DOMAIN doc.items
  <2>1. index \in 0..Cardinality(T)
    BY <1>6, FS_CardinalityType
  <2> HIDE DEF T, targetIds
  <2> QED BY <1>6, <1>7, <2>1, InsertLists
<1>9. /\ Table(left, Items, SequenceItem) /\ DOMAIN left = DOMAIN doc.items
      /\ \A i \in DOMAIN doc.items : left[i].kind = doc.items[i].kind /\ left[i].target = doc.items[i].target
                                     /\ left[i].parent = doc.items[i].parent
      /\ \A i \in DOMAIN doc.items \ F : left[i] = doc.items[i]
      /\ from # parent => {left[i].ordinal : i \in F} = 0..(Cardinality(F) - 1)
  <2>1. CASE from = parent
    BY <1>1, <2>1
  <2>2. CASE from # parent
    <3>1. left = updateSiblingOrdinals(doc.items, from, sourceIds) /\ from \in Parents
      BY <1>1, <2>2
    <3>2. \A i \in F : doc.items[i].parent = from
      BY DEF siblings
    <3> HIDE DEF left, sourceIds, F, from
    <3>3. Renumbers(left, doc.items, from, F)
      BY <1>1, <1>6, <3>1, Numbered
    <3> QED BY <3>2, <3>3 DEF Renumbers
  <2> QED BY <2>1, <2>2
<1>10. /\ Table(items, Items, SequenceItem) /\ DOMAIN items = DOMAIN left
       /\ \A i \in DOMAIN left : items[i].kind = left[i].kind /\ items[i].target = left[i].target
       /\ \A i \in T \cup {id} : items[i].parent = parent
       /\ \A i \in DOMAIN left \ (T \cup {id}) : items[i] = left[i]
       /\ {items[i].ordinal : i \in T \cup {id}} = 0..(Cardinality(T \cup {id}) - 1)
  <2>1. parent \in Parents
    BY <1>1, <1>3
  <2> HIDE DEF left, placed, T, items
  <2>2. Renumbers(items, left, parent, T \cup {id})
    BY <1>8, <1>9, <2>1, Numbered DEF items
  <2> QED BY <2>2 DEF Renumbers
<1>11. MovedItem(doc, id, parent, index) = [doc EXCEPT !.items = items]
  BY DEF MovedItem
<1> HIDE DEF items, left, placed, targetIds, sourceIds
<1>12. \A i \in DOMAIN doc.items : i # id => items[i].parent = doc.items[i].parent
  BY <1>9, <1>10 DEF siblings
<1>13. items[id].parent = parent
  BY <1>10
<1>14. \A i \in DOMAIN items : Keeps(doc, items, i)
  BY <1>1, <1>2, <1>9, <1>10, <1>12, <1>13 DEF Keeps
<1>15. ASSUME NEW p \in DOMAIN items \cup {Absent}
       PROVE  Counted(items, p)
  <2> DEFINE S == {i \in DOMAIN items : items[i].parent = p}
  <2>1. CASE p = parent
    <3>1. S = T \cup {id}
      BY <1>9, <1>10, <1>12, <1>13, <2>1 DEF siblings
    <3> HIDE DEF S, T
    <3>2. Counted(items, p) <=> {items[i].ordinal : i \in S} = 0..(Cardinality(S) - 1)
      BY DEF Counted, S
    <3> QED BY <1>10, <3>1, <3>2
  <2>2. CASE p # parent /\ p = from
    <3>1. S = F
      BY <1>9, <1>10, <1>12, <1>13, <2>2 DEF siblings
    <3>2. \A i \in F : items[i] = left[i]
      BY <1>6, <1>9, <1>10, <2>2 DEF siblings
    <3>3. {left[i].ordinal : i \in F} = 0..(Cardinality(F) - 1)
      BY <1>9, <2>2
    <3>4. Counted(items, p) <=> {items[i].ordinal : i \in S} = 0..(Cardinality(S) - 1)
      BY DEF Counted
    <3> HIDE DEF S, F
    <3> QED BY <3>1, <3>2, <3>3, <3>4
  <2>3. CASE p # parent /\ p # from
    <3>1. S = siblings(doc, p)
      BY <1>9, <1>10, <1>12, <1>13, <2>3 DEF siblings
    <3>2. \A i \in siblings(doc, p) : items[i] = doc.items[i]
      BY <1>9, <1>10, <2>3 DEF siblings
    <3>3. Dense(doc, p)
      BY <1>1, <1>9, <1>10
    <3>4. Counted(items, p) <=> {items[i].ordinal : i \in S} = 0..(Cardinality(S) - 1)
      BY DEF Counted
    <3> HIDE DEF S
    <3> QED BY <3>1, <3>2, <3>3, <3>4 DEF Dense
  <2> QED BY <2>1, <2>2, <2>3
<1> QED BY <1>9, <1>10, <1>11, <1>14, <1>15, Renumbered

\* An item goes with everything below it, and its siblings close up.
LEMMA RemovedStands ==
  ASSUME NEW doc, SequenceStands(doc), NEW id \in DOMAIN doc.items
  PROVE  SequenceStands(RemovedItem(doc, id))
<1> DEFINE from == doc.items[id].parent
           removed == Subtree(doc, id)
           R == siblings(doc, from) \ removed
           rest == InOrder(doc, R)
           items == updateSiblingOrdinals(doc.items, from, rest)
           kept == [i \in DOMAIN items \ removed |-> items[i]]
           after == RemovedItem(doc, id)
<1>1. /\ SequenceDocument(doc) /\ Table(doc.items, Items, SequenceItem)
      /\ \A i \in DOMAIN doc.items : Fits(doc, doc.items[i].kind, doc.items[i].parent)
      /\ \A p \in DOMAIN doc.items \cup {Absent} : Dense(doc, p) /\ p \in Parents
      /\ \A i \in DOMAIN doc.items : doc.items[i].kind = "clip" =>
           ShotOf[doc.items[i].target] = doc.items[doc.items[i].parent].target
      /\ from \in DOMAIN doc.items \cup {Absent}
  BY StandingParts
<1>2. IsFiniteSet(R) /\ Lists(rest, R) /\ R \in SUBSET DOMAIN doc.items
  <2>1. R \in SUBSET siblings(doc, from) /\ R \in SUBSET DOMAIN doc.items
    BY DEF siblings
  <2> HIDE DEF R
  <2> QED BY <1>1, <2>1, InOrderLists
<1>3. Renumbers(items, doc.items, from, R)
  <2> HIDE DEF R, rest
  <2> QED BY <1>1, <1>2, Numbered
<1>4. after = [doc EXCEPT !.items = kept]
  BY DEF RemovedItem
<1> HIDE DEF items, rest, after
<1>5. Table(kept, Items, SequenceItem)
  BY <1>3 DEF Renumbers, Table, KeyedBy
<1>6. SequenceDocument(after) /\ after.items = kept
  BY <1>1, <1>4, <1>5, ItemsReplaced
<1>7. /\ DOMAIN kept = DOMAIN doc.items \ removed
      /\ \A i \in DOMAIN kept : /\ kept[i].kind = doc.items[i].kind /\ kept[i].target = doc.items[i].target
                                /\ kept[i].parent = doc.items[i].parent
      /\ \A i \in DOMAIN kept \ R : kept[i] = doc.items[i]
      /\ \A i \in R : kept[i] = items[i]
      /\ {items[i].ordinal : i \in R} = 0..(Cardinality(R) - 1)
  <2>1. \A i \in R : doc.items[i].parent = from
    BY DEF siblings
  <2>2. R \cap removed = {}
    OBVIOUS
  <2> HIDE DEF R, removed
  <2> QED BY <1>2, <1>3, <2>1, <2>2 DEF Renumbers
<1> HIDE DEF kept
<1>8. /\ id \in removed
      /\ \A i \in DOMAIN doc.items : doc.items[i].parent \in removed => i \in removed
      /\ \A i \in removed : i = id \/ doc.items[i].parent \in removed
  <2>1. removed = {id} \cup {i \in DOMAIN doc.items : doc.items[i].parent = id}
                  \cup {i \in DOMAIN doc.items : doc.items[i].parent \in {k \in DOMAIN doc.items : doc.items[k].parent = id}}
    BY DEF Subtree
  <2>2. ASSUME NEW i \in DOMAIN doc.items, doc.items[i].parent \in removed PROVE i \in removed
    <3> DEFINE p == doc.items[i].parent
    <3>1. CASE p = id \/ p \in {k \in DOMAIN doc.items : doc.items[k].parent = id}
      BY <2>1, <3>1
    <3>2. CASE p \in DOMAIN doc.items /\ doc.items[p].parent \in {k \in DOMAIN doc.items : doc.items[k].parent = id}
      <4>1. PICK k \in DOMAIN doc.items : doc.items[p].parent = k /\ doc.items[k].parent = id
        BY <3>2
      <4>2. doc.items[k].kind \in {"shot", "clip"}
        BY <1>1, <4>1, ItemFields DEF Fits
      <4>3. doc.items[p].kind = "clip"
        BY <1>1, <3>2, <4>1, <4>2, ItemFields DEF Fits
      <4> QED BY <1>1, <3>2, <4>3, ItemFields DEF Fits
    <3> QED BY <2>1, <2>2, <3>1, <3>2
  <2> QED BY <2>1, <2>2
<1>9. \A i \in DOMAIN kept : Fits(after, kept[i].kind, kept[i].parent)
  BY <1>1, <1>6, <1>7, <1>8 DEF Fits
<1>10. \A i \in DOMAIN kept : kept[i].kind = "clip" => ShotOf[kept[i].target] = kept[kept[i].parent].target
  BY <1>1, <1>7, <1>8 DEF Fits
<1>11. ASSUME NEW p \in DOMAIN kept \cup {Absent} PROVE Dense(after, p)
  <2> DEFINE S == {i \in DOMAIN kept : kept[i].parent = p}
  <2>1. Counted(kept, p) <=> {kept[i].ordinal : i \in S} = 0..(Cardinality(S) - 1)
    BY DEF Counted
  <2>2. p \notin removed
    BY <1>1, <1>7, WorkspaceAssumption, ItemFields DEF Subtree
  <2>3. CASE p = from
    <3>1. S = R
      BY <1>7, <2>3, <1>1 DEF siblings
    <3> HIDE DEF S, R
    <3> QED BY <1>6, <1>7, <2>1, <3>1, DenseIsCounted
  <2>4. CASE p # from
    <3>1. S = siblings(doc, p)
      BY <1>7, <1>8, <2>2, <2>4 DEF siblings
    <3>2. \A i \in S : kept[i] = doc.items[i]
      BY <1>7, <2>4 DEF siblings
    <3>3. Dense(doc, p)
      BY <1>1, <1>7
    <3> HIDE DEF S
    <3> QED BY <1>6, <2>1, <3>1, <3>2, <3>3, DenseIsCounted DEF Dense
  <2> QED BY <2>3, <2>4
<1> HIDE DEF removed
<1> QED BY <1>6, <1>9, <1>10, <1>11, StandsMeans DEF after

-----------------------------------------------------------------------------
\* The Canvas documents: what every operation leaves standing.
LEMMA WithoutRows ==
  ASSUME NEW f, NEW ids, KeyedBy(f, ids), NEW ks
  PROVE  /\ KeyedBy(Without(f, ks), ids) /\ DOMAIN Without(f, ks) = DOMAIN f \ ks
         /\ \A i \in DOMAIN f \ ks : Without(f, ks)[i] = f[i]
         /\ \A rows : Table(f, ids, rows) => Table(Without(f, ks), ids, rows)
BY DEF Without, KeyedBy, Table

\* The fields of a Canvas, and the same fields where one is replaced.
CanvasRecord(doc) ==
  doc \in [revision : Nat, name : Names, lifecycle : {"active", "archived"}, primary : {doc.primary},
           placements : {doc.placements}, groups : {doc.groups}, edges : {doc.edges}, notes : {doc.notes},
           views : {doc.views}, viewport : Viewports, nextZ : Nat]
PlacementRows(doc) ==
  KeyedBy(doc.placements, Placements) /\ \A p \in DOMAIN doc.placements : PlacementRow(doc.placements[p])
GroupRows(doc) == Table(doc.groups, Groups, SUBSET Placements)
EdgeRows(doc) == Table(doc.edges, Edges, [from : Placements, to : Placements])
NoteRows(doc) == Table(doc.notes, Notes, [on : Placements \cup {Absent}, text : Texts])
ViewRows(doc) == Table(doc.views, Views, [name : Names, viewport : Viewports])
GroupsFit(doc) ==
  /\ \A g \in DOMAIN doc.groups : doc.groups[g] \subseteq DOMAIN doc.placements
  /\ \A g, h \in DOMAIN doc.groups : g # h => doc.groups[g] \cap doc.groups[h] = {}
EdgesFit(doc) ==
  \A e \in DOMAIN doc.edges : /\ doc.edges[e].from # doc.edges[e].to
                              /\ {doc.edges[e].from, doc.edges[e].to} \subseteq DOMAIN doc.placements
NotesFit(doc) == \A n \in DOMAIN doc.notes : doc.notes[n].on \in DOMAIN doc.placements \cup {Absent}
ViewsFit(doc) == \A v, w \in DOMAIN doc.views : v # w => doc.views[v].name # doc.views[w].name

LEMMA CanvasParts ==
  ASSUME NEW doc
  PROVE  CanvasStands(doc) <=>
           /\ CanvasRecord(doc) /\ PlacementRows(doc) /\ GroupRows(doc) /\ EdgeRows(doc) /\ NoteRows(doc) /\ ViewRows(doc)
           /\ GroupsFit(doc) /\ EdgesFit(doc) /\ NotesFit(doc) /\ ViewsFit(doc) /\ NextZAbove(doc)
BY DEF CanvasStands, CanvasDocument, CanvasRecord, PlacementRows, GroupRows, EdgeRows, NoteRows, ViewRows,
       WellFormedCanvas, GroupsFit, EdgesFit, NotesFit, ViewsFit

\* What two revisions of a Canvas have in common.
SameHeader(doc, after) ==
  /\ after.revision = doc.revision /\ after.name = doc.name /\ after.lifecycle = doc.lifecycle /\ after.primary = doc.primary
SameBut(doc, after, keys) ==
  /\ "placements" \in keys \/ after.placements = doc.placements
  /\ "groups" \in keys \/ after.groups = doc.groups
  /\ "edges" \in keys \/ after.edges = doc.edges
  /\ "notes" \in keys \/ after.notes = doc.notes
  /\ "views" \in keys \/ after.views = doc.views

LEMMA CanvasHeaderStands ==
  ASSUME NEW doc, CanvasStands(doc)
  PROVE  /\ \A n \in Nat : CanvasStands([doc EXCEPT !.revision = n]) /\ [doc EXCEPT !.revision = n].revision = n
                           /\ SameBut(doc, [doc EXCEPT !.revision = n], {})
         /\ \A name \in Names : CanvasStands([doc EXCEPT !.name = name])
         /\ \A lifecycle \in {"active", "archived"} : CanvasStands([doc EXCEPT !.lifecycle = lifecycle])
         /\ \A ref : CanvasStands([doc EXCEPT !.primary = ref])
         /\ \A at \in Viewports : CanvasStands([doc EXCEPT !.viewport = at])
<1>1. /\ CanvasRecord(doc) /\ PlacementRows(doc) /\ GroupRows(doc) /\ EdgeRows(doc) /\ NoteRows(doc) /\ ViewRows(doc)
      /\ GroupsFit(doc) /\ EdgesFit(doc) /\ NotesFit(doc) /\ ViewsFit(doc) /\ NextZAbove(doc)
  BY CanvasParts
<1>2. ASSUME NEW after, CanvasRecord(after), SameBut(doc, after, {}), after.nextZ = doc.nextZ
      PROVE  CanvasStands(after)
  <2>1. PlacementRows(after) /\ GroupRows(after) /\ EdgeRows(after) /\ NoteRows(after) /\ ViewRows(after)
    BY <1>1, <1>2 DEF SameBut, PlacementRows, GroupRows, EdgeRows, NoteRows, ViewRows
  <2>2. GroupsFit(after) /\ EdgesFit(after) /\ NotesFit(after) /\ ViewsFit(after) /\ NextZAbove(after)
    BY <1>1, <1>2 DEF SameBut, GroupsFit, EdgesFit, NotesFit, ViewsFit, NextZAbove
  <2> QED BY <1>2, <2>1, <2>2, CanvasParts
<1>3. ASSUME NEW n \in Nat
      PROVE  LET after == [doc EXCEPT !.revision = n] IN
             CanvasRecord(after) /\ SameBut(doc, after, {}) /\ after.nextZ = doc.nextZ /\ after.revision = n
  BY <1>1 DEF CanvasRecord, SameBut
<1>4. ASSUME NEW name \in Names
      PROVE  LET after == [doc EXCEPT !.name = name] IN CanvasRecord(after) /\ SameBut(doc, after, {}) /\ after.nextZ = doc.nextZ
  BY <1>1 DEF CanvasRecord, SameBut
<1>5. ASSUME NEW lifecycle \in {"active", "archived"}
      PROVE  LET after == [doc EXCEPT !.lifecycle = lifecycle] IN
             CanvasRecord(after) /\ SameBut(doc, after, {}) /\ after.nextZ = doc.nextZ
  BY <1>1 DEF CanvasRecord, SameBut
<1>6. ASSUME NEW ref
      PROVE  LET after == [doc EXCEPT !.primary = ref] IN
             CanvasRecord(after) /\ SameBut(doc, after, {}) /\ after.nextZ = doc.nextZ
  BY <1>1 DEF CanvasRecord, SameBut
<1>7. ASSUME NEW at \in Viewports
      PROVE  LET after == [doc EXCEPT !.viewport = at] IN
             CanvasRecord(after) /\ SameBut(doc, after, {}) /\ after.nextZ = doc.nextZ
  BY <1>1 DEF CanvasRecord, SameBut
<1> QED BY <1>2, <1>3, <1>4, <1>5, <1>6, <1>7

LEMMA EmptyCanvasStands == \A ref : CanvasStands(createEmptyCanvas(ref)) /\ createEmptyCanvas(ref).revision = 0
<1> SUFFICES ASSUME NEW ref PROVE CanvasStands(createEmptyCanvas(ref)) /\ createEmptyCanvas(ref).revision = 0
  OBVIOUS
<1> DEFINE doc == createEmptyCanvas(ref)
<1>1. CanvasRecord(doc) /\ doc.revision = 0
  BY DEF createEmptyCanvas, CanvasRecord, Names, Viewports
<1>2. doc.placements = <<>> /\ doc.groups = <<>> /\ doc.edges = <<>> /\ doc.notes = <<>> /\ doc.views = <<>>
  BY DEF createEmptyCanvas
<1> HIDE DEF doc
<1>3. PlacementRows(doc) /\ GroupRows(doc) /\ EdgeRows(doc) /\ NoteRows(doc) /\ ViewRows(doc)
  BY <1>2 DEF PlacementRows, GroupRows, EdgeRows, NoteRows, ViewRows, Table, KeyedBy
<1>4. GroupsFit(doc) /\ EdgesFit(doc) /\ NotesFit(doc) /\ ViewsFit(doc) /\ NextZAbove(doc)
  BY <1>2 DEF GroupsFit, EdgesFit, NotesFit, ViewsFit, NextZAbove
<1> QED BY <1>1, <1>3, <1>4, CanvasParts DEF doc

\* What differs between two revisions of a Canvas, table by table.
Diff(f, g) == {i \in DOMAIN f \cap DOMAIN g : f[i] # g[i]} \cup (DOMAIN f \ DOMAIN g) \cup (DOMAIN g \ DOMAIN f)
Tagged(kind, ids) == {<<kind, i>> : i \in ids}
LEMMA DifferencesAre ==
  \A doc, after : Differences(doc, after) =
    Tagged("placement", Diff(doc.placements, after.placements)) \cup Tagged("group", Diff(doc.groups, after.groups))
      \cup Tagged("edge", Diff(doc.edges, after.edges)) \cup Tagged("annotation", Diff(doc.notes, after.notes))
      \cup Tagged("saved_view", Diff(doc.views, after.views))
BY DEF Differences, ChangedKeys, Diff, Tagged
LEMMA NoDiff == \A f : Diff(f, f) = {}
BY DEF Diff
LEMMA Tags == \A kind, i : Tagged(kind, {}) = {} /\ Tagged(kind, {i}) = {<<kind, i>>}
BY DEF Tagged
LEMMA SameDifferences ==
  ASSUME NEW doc, NEW after, NEW other, SameBut(after, other, {})
  PROVE  Differences(doc, other) = Differences(doc, after)
BY DifferencesAre DEF SameBut

\* Placements as a Canvas may hold them.
GoodPlacements(rows, nextZ) ==
  /\ KeyedBy(rows, Placements) /\ nextZ \in Nat
  /\ \A p \in DOMAIN rows : PlacementRow(rows[p]) /\ rows[p].z < nextZ

\* A placement, new, moved or resized, or many arranged: the placements change and nothing goes.
WithPlacements(doc, rows, nextZ) == [doc EXCEPT !.placements = rows, !.nextZ = nextZ]
LEMMA PlacementsStand ==
  ASSUME NEW doc, CanvasStands(doc), NEW rows, NEW nextZ, GoodPlacements(rows, nextZ),
         DOMAIN doc.placements \subseteq DOMAIN rows
  PROVE  LET after == WithPlacements(doc, rows, nextZ) IN
         /\ CanvasStands(after) /\ SameHeader(doc, after) /\ SameBut(doc, after, {"placements"}) /\ after.placements = rows
         /\ Differences(doc, after) = Tagged("placement", Diff(doc.placements, rows))
<1> DEFINE after == WithPlacements(doc, rows, nextZ)
<1>1. /\ CanvasRecord(doc) /\ PlacementRows(doc) /\ GroupRows(doc) /\ EdgeRows(doc) /\ NoteRows(doc) /\ ViewRows(doc)
      /\ GroupsFit(doc) /\ EdgesFit(doc) /\ NotesFit(doc) /\ ViewsFit(doc) /\ NextZAbove(doc)
  BY CanvasParts
<1>2. CanvasRecord(after) /\ SameHeader(doc, after) /\ after.placements = rows /\ after.groups = doc.groups
      /\ after.edges = doc.edges /\ after.notes = doc.notes /\ after.views = doc.views /\ after.nextZ = nextZ
  BY <1>1 DEF CanvasRecord, SameHeader, GoodPlacements, WithPlacements
<1> HIDE DEF after
<1>3. PlacementRows(after) /\ GroupRows(after) /\ EdgeRows(after) /\ NoteRows(after) /\ ViewRows(after)
  BY <1>1, <1>2 DEF PlacementRows, GroupRows, EdgeRows, NoteRows, ViewRows, GoodPlacements
<1>4. GroupsFit(after) /\ EdgesFit(after) /\ NotesFit(after) /\ ViewsFit(after) /\ NextZAbove(after)
  BY <1>1, <1>2 DEF GroupsFit, EdgesFit, NotesFit, ViewsFit, NextZAbove, GoodPlacements
<1>5. Differences(doc, after) = Tagged("placement", Diff(doc.placements, rows))
  BY <1>2, DifferencesAre, NoDiff, Tags
<1> QED BY <1>2, <1>3, <1>4, <1>5, CanvasParts DEF SameBut, after

\* One placement more, with its z-index below the next one; without a z-index asked for it is the top one.
LEMMA PlacedStands ==
  ASSUME NEW doc, CanvasStands(doc), heads \in [Objects -> Heads], NEW p \in Placements, p \notin DOMAIN doc.placements,
         NEW t \in Scenes, NEW at, NEW z \in Nat \cup {Absent}
  PROVE  LET after == Placed(doc, p, t, at, z) IN
         CanvasStands(after) /\ (z = Absent => PlaceReceipts(after) = Differences(doc, after))
<1> DEFINE after == Placed(doc, p, t, at, z)
           zIndex == IF z = Absent THEN doc.nextZ ELSE z
           new == [target |-> bindTarget(t), position |-> at.position, size |-> at.size, z |-> zIndex]
           rows == With(doc.placements, p, new)
           nextZ == IF zIndex + 1 > doc.nextZ THEN zIndex + 1 ELSE doc.nextZ
<1>1. CanvasRecord(doc) /\ PlacementRows(doc) /\ NextZAbove(doc) /\ doc.nextZ \in Nat
  BY CanvasParts DEF CanvasRecord
<1>2. zIndex \in Nat /\ nextZ \in Nat /\ zIndex < nextZ /\ doc.nextZ <= nextZ
  BY <1>1
<1>3. PlacementRow(new) /\ new.z = zIndex
  <2>1. heads[t].revision \in Nat
    BY DEF Heads, Objects
  <2>2. bindTarget(t) \in [id : Scenes, revision : Nat]
    BY <2>1 DEF bindTarget
  <2> HIDE DEF zIndex
  <2> QED BY <1>2, <2>2 DEF PlacementRow
<1>4. after = WithPlacements(doc, rows, nextZ)
  BY <1>1 DEF Placed, CanvasRecord, WithPlacements
<1> HIDE DEF after, nextZ, new
<1>5. /\ KeyedBy(rows, Placements) /\ DOMAIN rows = DOMAIN doc.placements \cup {p} /\ rows[p] = new
      /\ \A q \in DOMAIN doc.placements : rows[q] = doc.placements[q]
  <2>1. KeyedBy(doc.placements, Placements) /\ \A q \in DOMAIN doc.placements : q # p
    BY <1>1 DEF PlacementRows
  <2> QED BY <2>1 DEF With, KeyedBy
<1> HIDE DEF rows
<1>6. \A q \in DOMAIN rows : PlacementRow(rows[q])
  BY <1>1, <1>3, <1>5 DEF PlacementRows
<1>7. \A q \in DOMAIN doc.placements : doc.placements[q].z \in Nat /\ doc.placements[q].z < doc.nextZ
  BY <1>1 DEF PlacementRows, PlacementRow, NextZAbove
<1>8. GoodPlacements(rows, nextZ)
  <2>1. \A q \in DOMAIN rows : rows[q].z < nextZ
    BY <1>1, <1>2, <1>3, <1>5, <1>7
  <2> QED BY <1>2, <1>5, <1>6, <2>1 DEF GoodPlacements
<1>9. /\ CanvasStands(after) /\ after.placements = rows
      /\ Differences(doc, after) = Tagged("placement", Diff(doc.placements, rows))
  <2>1. DOMAIN doc.placements \subseteq DOMAIN rows
    BY <1>5
  <2> QED BY <1>4, <1>8, <2>1, PlacementsStand
<1>10. Diff(doc.placements, rows) = {p}
  BY <1>5 DEF Diff
<1>11. ASSUME z = Absent PROVE TopPlacements(after) = {p}
  <2>1. rows[p].z = doc.nextZ
    BY <1>3, <1>5, <1>11
  <2> QED BY <1>1, <1>5, <1>7, <1>9, <2>1 DEF TopPlacements
<1>12. ASSUME z = Absent PROVE PlaceReceipts(after) = Differences(doc, after)
  <2>1. (CHOOSE q \in {p} : TRUE) = p
    OBVIOUS
  <2>2. PlaceReceipts(after) = {<<"placement", p>>}
    BY <1>11, <1>12, <2>1 DEF PlaceReceipts
  <2> QED BY <1>9, <1>10, <2>2, Tags
<1> QED BY <1>9, <1>12 DEF after

\* A placement moved or resized.
ReplacedPlacement(doc, p, row) == [doc EXCEPT !.placements = [doc.placements EXCEPT ![p] = row]]
LEMMA PlacementStands ==
  ASSUME NEW doc, CanvasStands(doc), NEW p \in DOMAIN doc.placements, NEW row, PlacementRow(row), row.z = doc.placements[p].z
  PROVE  LET after == ReplacedPlacement(doc, p, row) IN
         CanvasStands(after) /\ (after # doc => OneReceipt("placement", p) = Differences(doc, after))
<1> DEFINE rows == [doc.placements EXCEPT ![p] = row]
           after == ReplacedPlacement(doc, p, row)
<1>1. CanvasRecord(doc) /\ PlacementRows(doc) /\ NextZAbove(doc) /\ doc.nextZ \in Nat
  BY CanvasParts DEF CanvasRecord
<1>2. /\ KeyedBy(rows, Placements) /\ DOMAIN rows = DOMAIN doc.placements /\ rows[p] = row
      /\ \A q \in DOMAIN doc.placements : q # p => rows[q] = doc.placements[q]
  BY <1>1 DEF PlacementRows, KeyedBy
<1>3. after = WithPlacements(doc, rows, doc.nextZ) /\ (rows = doc.placements => after = doc)
  BY <1>1 DEF CanvasRecord, WithPlacements, ReplacedPlacement
<1> HIDE DEF rows, after
<1>4. GoodPlacements(rows, doc.nextZ)
  BY <1>1, <1>2 DEF PlacementRows, NextZAbove, GoodPlacements
<1>5. /\ CanvasStands(after) /\ after.placements = rows
      /\ Differences(doc, after) = Tagged("placement", Diff(doc.placements, rows))
  <2>1. DOMAIN doc.placements \subseteq DOMAIN rows
    BY <1>2
  <2> QED BY <1>3, <1>4, <2>1, PlacementsStand
<1>6. ASSUME after # doc PROVE Diff(doc.placements, rows) = {p}
  <2>1. rows[p] # doc.placements[p]
    <3>1. SUFFICES ASSUME rows[p] = doc.placements[p] PROVE FALSE
      OBVIOUS
    <3>2. rows = doc.placements
      BY <1>1, <1>2, <3>1 DEF PlacementRows, KeyedBy
    <3> QED BY <1>1, <1>3, <1>6, <3>2 DEF CanvasRecord
  <2> QED BY <1>2, <2>1 DEF Diff
<1> QED BY <1>5, <1>6, Tags DEF OneReceipt, after

LEMMA MovedAndResizedStand ==
  ASSUME NEW doc, CanvasStands(doc), NEW p \in DOMAIN doc.placements, NEW value
  PROVE  /\ CanvasStands(Moved(doc, p, value))
         /\ Moved(doc, p, value) # doc => OneReceipt("placement", p) = Differences(doc, Moved(doc, p, value))
         /\ CanvasStands(Resized(doc, p, value))
         /\ Resized(doc, p, value) # doc => OneReceipt("placement", p) = Differences(doc, Resized(doc, p, value))
<1>1. CanvasRecord(doc) /\ PlacementRows(doc) /\ PlacementRow(doc.placements[p])
  BY CanvasParts DEF PlacementRows
<1>2. /\ PlacementRow([doc.placements[p] EXCEPT !.position = value])
      /\ [doc.placements[p] EXCEPT !.position = value].z = doc.placements[p].z
      /\ PlacementRow([doc.placements[p] EXCEPT !.size = value])
      /\ [doc.placements[p] EXCEPT !.size = value].z = doc.placements[p].z
  BY <1>1 DEF PlacementRow
<1>3. /\ Moved(doc, p, value) = ReplacedPlacement(doc, p, [doc.placements[p] EXCEPT !.position = value])
      /\ Resized(doc, p, value) = ReplacedPlacement(doc, p, [doc.placements[p] EXCEPT !.size = value])
  BY <1>1 DEF Moved, Resized, CanvasRecord, PlacementRows, KeyedBy, ReplacedPlacement
<1>4. /\ CanvasStands(Moved(doc, p, value))
      /\ Moved(doc, p, value) # doc => OneReceipt("placement", p) = Differences(doc, Moved(doc, p, value))
  BY <1>2, <1>3, PlacementStands
<1>5. /\ CanvasStands(Resized(doc, p, value))
      /\ Resized(doc, p, value) # doc => OneReceipt("placement", p) = Differences(doc, Resized(doc, p, value))
  BY <1>2, <1>3, PlacementStands
<1> QED BY <1>4, <1>5

\* Placements arranged keep everything but their positions.
LEMMA ArrangedStands ==
  ASSUME NEW doc, CanvasStands(doc), NEW order, NEW layout, NEW spacing
  PROVE  LET after == Arranged(doc, order, layout, spacing) IN
         CanvasStands(after) /\ ArrangeReceipts(doc, after) = Differences(doc, after)
<1> DEFINE to == arrangedPositions(doc, order, layout, spacing)
           spot(p) == to[CHOOSE i \in DOMAIN order : order[i] = p]
           rows == [p \in DOMAIN doc.placements |->
                      IF p \in ToSet(order) THEN [doc.placements[p] EXCEPT !.position = spot(p)] ELSE doc.placements[p]]
           after == Arranged(doc, order, layout, spacing)
<1>1. CanvasRecord(doc) /\ PlacementRows(doc) /\ NextZAbove(doc) /\ doc.nextZ \in Nat
  BY CanvasParts DEF CanvasRecord
<1>2. after = [doc EXCEPT !.placements = rows]
  BY <1>1 DEF Arranged, CanvasRecord
<1> HIDE DEF spot, after
<1>3. KeyedBy(rows, Placements) /\ DOMAIN rows = DOMAIN doc.placements
  BY <1>1 DEF PlacementRows, KeyedBy
<1>4. ASSUME NEW p \in DOMAIN doc.placements PROVE PlacementRow(rows[p]) /\ rows[p].z < doc.nextZ
  <2>1. PlacementRow(doc.placements[p]) /\ doc.placements[p].z < doc.nextZ
    BY <1>1 DEF PlacementRows, NextZAbove
  <2>2. \A v : PlacementRow([doc.placements[p] EXCEPT !.position = v])
               /\ [doc.placements[p] EXCEPT !.position = v].z = doc.placements[p].z
    BY <2>1 DEF PlacementRow
  <2>3. rows[p] = doc.placements[p] \/ rows[p] = [doc.placements[p] EXCEPT !.position = spot(p)]
    OBVIOUS
  <2> HIDE DEF rows
  <2> QED BY <2>1, <2>2, <2>3
<1> HIDE DEF rows
<1>5. after = WithPlacements(doc, rows, doc.nextZ)
  BY <1>1, <1>2 DEF CanvasRecord, WithPlacements
<1>6. /\ CanvasStands(after) /\ after.placements = rows
      /\ Differences(doc, after) = Tagged("placement", Diff(doc.placements, rows))
  <2>1. GoodPlacements(rows, doc.nextZ) /\ DOMAIN doc.placements \subseteq DOMAIN rows
    BY <1>1, <1>3, <1>4 DEF GoodPlacements
  <2> QED BY <1>5, <2>1, PlacementsStand
<1>7. ArrangeReceipts(doc, after) = Tagged("placement", Diff(doc.placements, rows))
  <2>1. ChangedKeys(doc, after, "placements") = Diff(doc.placements, rows)
    BY <1>3, <1>6 DEF ChangedKeys, Diff
  <2> QED BY <2>1 DEF ArrangeReceipts, Tagged
<1> QED BY <1>6, <1>7 DEF after

\* Groups, edges, annotations and saved views: tables left alone keep standing, and where one table changes, what
\* differs is in it.
LEMMA SameTables ==
  ASSUME NEW doc, CanvasStands(doc), NEW after, after.placements = doc.placements, after.nextZ = doc.nextZ
  PROVE  /\ PlacementRows(after) /\ NextZAbove(after)
         /\ after.groups = doc.groups => GroupRows(after) /\ GroupsFit(after)
         /\ after.edges = doc.edges => EdgeRows(after) /\ EdgesFit(after)
         /\ after.notes = doc.notes => NoteRows(after) /\ NotesFit(after)
         /\ after.views = doc.views => ViewRows(after) /\ ViewsFit(after)
<1>1. /\ CanvasRecord(doc) /\ PlacementRows(doc) /\ GroupRows(doc) /\ EdgeRows(doc) /\ NoteRows(doc) /\ ViewRows(doc)
      /\ GroupsFit(doc) /\ EdgesFit(doc) /\ NotesFit(doc) /\ ViewsFit(doc) /\ NextZAbove(doc)
  BY CanvasParts
<1>2. PlacementRows(after) /\ NextZAbove(after)
  BY <1>1 DEF PlacementRows, NextZAbove
<1>3. ASSUME after.groups = doc.groups PROVE GroupRows(after) /\ GroupsFit(after)
  BY <1>1, <1>3 DEF GroupRows, GroupsFit
<1>4. ASSUME after.edges = doc.edges PROVE EdgeRows(after) /\ EdgesFit(after)
  BY <1>1, <1>4 DEF EdgeRows, EdgesFit
<1>5. ASSUME after.notes = doc.notes PROVE NoteRows(after) /\ NotesFit(after)
  BY <1>1, <1>5 DEF NoteRows, NotesFit
<1>6. ASSUME after.views = doc.views PROVE ViewRows(after) /\ ViewsFit(after)
  BY <1>1, <1>6 DEF ViewRows, ViewsFit
<1> QED BY <1>2, <1>3, <1>4, <1>5, <1>6

LEMMA GroupsStand ==
  ASSUME NEW doc, CanvasStands(doc), NEW after, CanvasRecord(after), after.nextZ = doc.nextZ,
         SameBut(doc, after, {"groups"}), GroupRows(after), GroupsFit(after)
  PROVE  CanvasStands(after) /\ Differences(doc, after) = Tagged("group", Diff(doc.groups, after.groups))
BY SameTables, CanvasParts, DifferencesAre, NoDiff, Tags DEF SameBut

LEMMA EdgesStand ==
  ASSUME NEW doc, CanvasStands(doc), NEW after, CanvasRecord(after), after.nextZ = doc.nextZ,
         SameBut(doc, after, {"edges"}), EdgeRows(after), EdgesFit(after)
  PROVE  CanvasStands(after) /\ Differences(doc, after) = Tagged("edge", Diff(doc.edges, after.edges))
BY SameTables, CanvasParts, DifferencesAre, NoDiff, Tags DEF SameBut

LEMMA NotesStand ==
  ASSUME NEW doc, CanvasStands(doc), NEW after, CanvasRecord(after), after.nextZ = doc.nextZ,
         SameBut(doc, after, {"notes"}), NoteRows(after), NotesFit(after)
  PROVE  CanvasStands(after) /\ Differences(doc, after) = Tagged("annotation", Diff(doc.notes, after.notes))
BY SameTables, CanvasParts, DifferencesAre, NoDiff, Tags DEF SameBut

LEMMA ViewsStand ==
  ASSUME NEW doc, CanvasStands(doc), NEW after, CanvasRecord(after), after.nextZ = doc.nextZ,
         SameBut(doc, after, {"views"}), ViewRows(after), ViewsFit(after)
  PROVE  CanvasStands(after) /\ Differences(doc, after) = Tagged("saved_view", Diff(doc.views, after.views))
BY SameTables, CanvasParts, DifferencesAre, NoDiff, Tags DEF SameBut

LEMMA WithTable ==
  ASSUME NEW f, NEW ids, NEW values, Table(f, ids, values), NEW k \in ids, NEW v \in values
  PROVE  Table(With(f, k, v), ids, values)
BY DEF With, KeyedBy, Table

LEMMA WithDiffers ==
  ASSUME NEW f, NEW ids, KeyedBy(f, ids), NEW k, NEW v, With(f, k, v) # f
  PROVE  Diff(f, With(f, k, v)) = {k}
<1>1. DOMAIN With(f, k, v) = DOMAIN f \cup {k} /\ \A i \in DOMAIN f \cup {k} : With(f, k, v)[i] = IF i = k THEN v ELSE f[i]
  BY DEF With
<1>2. ASSUME k \in DOMAIN f, f[k] = v PROVE With(f, k, v) = f
  BY <1>2 DEF With, KeyedBy
<1> QED BY <1>1, <1>2 DEF Diff

LEMMA WithoutDiffers == \A f : \A k \in DOMAIN f : Diff(f, Without(f, {k})) = {k}
BY DEF Without, Diff

LEMMA GroupedStands ==
  ASSUME NEW doc, CanvasStands(doc), NEW g \in Groups, NEW ps \in SUBSET DOMAIN doc.placements, FreeToGroup(doc, g, ps)
  PROVE  LET after == Grouped(doc, g, ps) IN
         CanvasStands(after) /\ (after # doc => OneReceipt("group", g) = Differences(doc, after))
<1> DEFINE after == Grouped(doc, g, ps)
           rows == With(doc.groups, g, ps)
<1>1. CanvasRecord(doc) /\ PlacementRows(doc) /\ GroupRows(doc) /\ GroupsFit(doc)
  BY CanvasParts
<1>2. CanvasRecord(after) /\ SameBut(doc, after, {"groups"}) /\ after.nextZ = doc.nextZ /\ after.groups = rows
      /\ after.placements = doc.placements /\ (rows = doc.groups => after = doc)
  BY <1>1 DEF Grouped, CanvasRecord, SameBut
<1>3. /\ ps \subseteq Placements /\ KeyedBy(doc.groups, Groups)
      /\ DOMAIN rows = DOMAIN doc.groups \cup {g} /\ rows[g] = ps
      /\ \A h \in DOMAIN doc.groups : h # g => rows[h] = doc.groups[h]
      /\ Table(rows, Groups, SUBSET Placements)
  <2>1. KeyedBy(doc.groups, Groups) /\ ps \in SUBSET Placements
    BY <1>1 DEF GroupRows, Table, PlacementRows, KeyedBy
  <2>2. /\ DOMAIN rows = DOMAIN doc.groups \cup {g} /\ rows[g] = ps
        /\ \A h \in DOMAIN doc.groups : h # g => rows[h] = doc.groups[h]
    BY DEF With
  <2>3. Table(rows, Groups, SUBSET Placements)
    BY <1>1, <2>1, WithTable DEF GroupRows
  <2> QED BY <2>1, <2>2, <2>3
<1> HIDE DEF after, rows
<1>4. GroupRows(after) /\ GroupsFit(after)
  BY <1>1, <1>2, <1>3 DEF GroupRows, GroupsFit, FreeToGroup
<1>5. after # doc => Diff(doc.groups, after.groups) = {g}
  <2>1. rows # doc.groups => Diff(doc.groups, rows) = {g}
    BY <1>3, WithDiffers DEF rows
  <2> QED BY <1>2, <2>1
<1>6. CanvasStands(after) /\ (after # doc => OneReceipt("group", g) = Differences(doc, after))
  <2>1. CanvasStands(after) /\ Differences(doc, after) = Tagged("group", Diff(doc.groups, after.groups))
    BY <1>2, <1>4, GroupsStand
  <2> QED BY <1>5, <2>1, Tags DEF OneReceipt
<1> QED BY <1>6 DEF after

LEMMA UngroupedStands ==
  ASSUME NEW doc, CanvasStands(doc), NEW g \in DOMAIN doc.groups
  PROVE  LET after == Ungrouped(doc, g) IN CanvasStands(after) /\ OneReceipt("group", g) = Differences(doc, after)
<1> DEFINE after == Ungrouped(doc, g)
           rows == Without(doc.groups, {g})
<1>1. CanvasRecord(doc) /\ GroupRows(doc) /\ GroupsFit(doc) /\ KeyedBy(doc.groups, Groups)
  BY CanvasParts DEF GroupRows, Table
<1>2. CanvasRecord(after) /\ SameBut(doc, after, {"groups"}) /\ after.nextZ = doc.nextZ /\ after.groups = rows
      /\ after.placements = doc.placements
  BY <1>1 DEF Ungrouped, CanvasRecord, SameBut
<1>3. /\ DOMAIN rows = DOMAIN doc.groups \ {g} /\ \A h \in DOMAIN doc.groups \ {g} : rows[h] = doc.groups[h]
      /\ Table(rows, Groups, SUBSET Placements)
  BY <1>1, WithoutRows DEF GroupRows
<1> HIDE DEF after, rows
<1>4. GroupRows(after) /\ GroupsFit(after)
  BY <1>1, <1>2, <1>3 DEF GroupRows, GroupsFit
<1>5. Diff(doc.groups, after.groups) = {g}
  BY <1>1, <1>2, WithoutDiffers DEF rows
<1>6. CanvasStands(after) /\ OneReceipt("group", g) = Differences(doc, after)
  <2>1. CanvasStands(after) /\ Differences(doc, after) = Tagged("group", Diff(doc.groups, after.groups))
    BY <1>2, <1>4, GroupsStand
  <2> QED BY <1>5, <2>1, Tags DEF OneReceipt
<1> QED BY <1>6 DEF after

LEMMA ConnectedStands ==
  ASSUME NEW doc, CanvasStands(doc), NEW e \in Edges, NEW p \in DOMAIN doc.placements, NEW q \in DOMAIN doc.placements, p # q
  PROVE  LET after == Connected(doc, e, p, q) IN
         CanvasStands(after) /\ (after # doc => OneReceipt("edge", e) = Differences(doc, after))
<1> DEFINE after == Connected(doc, e, p, q)
           new == [from |-> p, to |-> q]
           rows == With(doc.edges, e, new)
<1>1. CanvasRecord(doc) /\ PlacementRows(doc) /\ EdgeRows(doc) /\ EdgesFit(doc)
  BY CanvasParts
<1>2. CanvasRecord(after) /\ SameBut(doc, after, {"edges"}) /\ after.nextZ = doc.nextZ /\ after.edges = rows
      /\ after.placements = doc.placements /\ (rows = doc.edges => after = doc)
  BY <1>1 DEF Connected, CanvasRecord, SameBut
<1>3. /\ KeyedBy(doc.edges, Edges) /\ DOMAIN rows = DOMAIN doc.edges \cup {e} /\ rows[e].from = p /\ rows[e].to = q
      /\ \A h \in DOMAIN doc.edges : h # e => rows[h] = doc.edges[h]
      /\ Table(rows, Edges, [from : Placements, to : Placements])
  <2>1. KeyedBy(doc.edges, Edges) /\ new \in [from : Placements, to : Placements]
    BY <1>1 DEF EdgeRows, Table, PlacementRows, KeyedBy
  <2>2. new.from = p /\ new.to = q
    OBVIOUS
  <2> HIDE DEF new
  <2>3. DOMAIN rows = DOMAIN doc.edges \cup {e} /\ rows[e] = new /\ \A h \in DOMAIN doc.edges : h # e => rows[h] = doc.edges[h]
    BY DEF With
  <2>4. Table(rows, Edges, [from : Placements, to : Placements])
    BY <1>1, <2>1, WithTable DEF EdgeRows
  <2> QED BY <2>1, <2>2, <2>3, <2>4
<1> HIDE DEF after, rows
<1>4. EdgeRows(after) /\ EdgesFit(after)
  <2>1. ASSUME NEW h \in DOMAIN rows
        PROVE  rows[h].from # rows[h].to /\ {rows[h].from, rows[h].to} \subseteq DOMAIN doc.placements
    BY <1>1, <1>3, <2>1 DEF EdgesFit
  <2> QED BY <1>2, <1>3, <2>1 DEF EdgeRows, EdgesFit
<1>5. after # doc => Diff(doc.edges, after.edges) = {e}
  <2>1. rows # doc.edges => Diff(doc.edges, rows) = {e}
    BY <1>3, WithDiffers DEF rows
  <2> QED BY <1>2, <2>1
<1>6. CanvasStands(after) /\ (after # doc => OneReceipt("edge", e) = Differences(doc, after))
  <2>1. CanvasStands(after) /\ Differences(doc, after) = Tagged("edge", Diff(doc.edges, after.edges))
    BY <1>2, <1>4, EdgesStand
  <2> QED BY <1>5, <2>1, Tags DEF OneReceipt
<1> QED BY <1>6 DEF after

LEMMA DisconnectedStands ==
  ASSUME NEW doc, CanvasStands(doc), NEW e \in DOMAIN doc.edges
  PROVE  LET after == Disconnected(doc, e) IN CanvasStands(after) /\ OneReceipt("edge", e) = Differences(doc, after)
<1> DEFINE after == Disconnected(doc, e)
           rows == Without(doc.edges, {e})
<1>1. CanvasRecord(doc) /\ EdgeRows(doc) /\ EdgesFit(doc) /\ KeyedBy(doc.edges, Edges)
  BY CanvasParts DEF EdgeRows, Table
<1>2. CanvasRecord(after) /\ SameBut(doc, after, {"edges"}) /\ after.nextZ = doc.nextZ /\ after.edges = rows
      /\ after.placements = doc.placements
  BY <1>1 DEF Disconnected, CanvasRecord, SameBut
<1>3. /\ DOMAIN rows = DOMAIN doc.edges \ {e} /\ \A h \in DOMAIN doc.edges \ {e} : rows[h] = doc.edges[h]
      /\ Table(rows, Edges, [from : Placements, to : Placements])
  BY <1>1, WithoutRows DEF EdgeRows
<1> HIDE DEF after, rows
<1>4. EdgeRows(after) /\ EdgesFit(after)
  BY <1>1, <1>2, <1>3 DEF EdgeRows, EdgesFit
<1>5. Diff(doc.edges, after.edges) = {e}
  BY <1>1, <1>2, WithoutDiffers DEF rows
<1>6. CanvasStands(after) /\ OneReceipt("edge", e) = Differences(doc, after)
  <2>1. CanvasStands(after) /\ Differences(doc, after) = Tagged("edge", Diff(doc.edges, after.edges))
    BY <1>2, <1>4, EdgesStand
  <2> QED BY <1>5, <2>1, Tags DEF OneReceipt
<1> QED BY <1>6 DEF after

LEMMA AnnotatedStands ==
  ASSUME NEW doc, CanvasStands(doc), NEW n \in Notes, NEW on \in DOMAIN doc.placements \cup {Absent}, NEW text \in Texts
  PROVE  LET after == Annotated(doc, n, on, text) IN
         CanvasStands(after) /\ (after # doc => OneReceipt("annotation", n) = Differences(doc, after))
<1> DEFINE after == Annotated(doc, n, on, text)
           new == [on |-> on, text |-> text]
           rows == With(doc.notes, n, new)
<1>1. CanvasRecord(doc) /\ PlacementRows(doc) /\ NoteRows(doc) /\ NotesFit(doc)
  BY CanvasParts
<1>2. CanvasRecord(after) /\ SameBut(doc, after, {"notes"}) /\ after.nextZ = doc.nextZ /\ after.notes = rows
      /\ after.placements = doc.placements /\ (rows = doc.notes => after = doc)
  BY <1>1 DEF Annotated, CanvasRecord, SameBut
<1>3. /\ KeyedBy(doc.notes, Notes) /\ DOMAIN rows = DOMAIN doc.notes \cup {n} /\ rows[n].on = on
      /\ \A h \in DOMAIN doc.notes : h # n => rows[h] = doc.notes[h]
      /\ Table(rows, Notes, [on : Placements \cup {Absent}, text : Texts])
  <2>1. KeyedBy(doc.notes, Notes) /\ new \in [on : Placements \cup {Absent}, text : Texts]
    BY <1>1 DEF NoteRows, Table, PlacementRows, KeyedBy
  <2>2. new.on = on
    OBVIOUS
  <2> HIDE DEF new
  <2>3. DOMAIN rows = DOMAIN doc.notes \cup {n} /\ rows[n] = new /\ \A h \in DOMAIN doc.notes : h # n => rows[h] = doc.notes[h]
    BY DEF With
  <2>4. Table(rows, Notes, [on : Placements \cup {Absent}, text : Texts])
    BY <1>1, <2>1, WithTable DEF NoteRows
  <2> QED BY <2>1, <2>2, <2>3, <2>4
<1> HIDE DEF after, rows
<1>4. NoteRows(after) /\ NotesFit(after)
  BY <1>1, <1>2, <1>3 DEF NoteRows, NotesFit
<1>5. after # doc => Diff(doc.notes, after.notes) = {n}
  <2>1. rows # doc.notes => Diff(doc.notes, rows) = {n}
    BY <1>3, WithDiffers DEF rows
  <2> QED BY <1>2, <2>1
<1>6. CanvasStands(after) /\ (after # doc => OneReceipt("annotation", n) = Differences(doc, after))
  <2>1. CanvasStands(after) /\ Differences(doc, after) = Tagged("annotation", Diff(doc.notes, after.notes))
    BY <1>2, <1>4, NotesStand
  <2> QED BY <1>5, <2>1, Tags DEF OneReceipt
<1> QED BY <1>6 DEF after

LEMMA ViewSavedStands ==
  ASSUME NEW doc, CanvasStands(doc), NEW v \in Views, NEW name \in Names, NEW at \in Viewports,
         \A w \in DOMAIN doc.views : w # v => doc.views[w].name # name
  PROVE  LET after == ViewSaved(doc, v, name, at) IN
         CanvasStands(after) /\ (after # doc => ViewReceipt(v) = Differences(doc, after))
<1> DEFINE after == ViewSaved(doc, v, name, at)
           new == [name |-> name, viewport |-> at]
           rows == With(doc.views, v, new)
<1>1. CanvasRecord(doc) /\ ViewRows(doc) /\ ViewsFit(doc)
  BY CanvasParts
<1>2. CanvasRecord(after) /\ SameBut(doc, after, {"views"}) /\ after.nextZ = doc.nextZ /\ after.views = rows
      /\ (rows = doc.views => after = doc)
  BY <1>1 DEF ViewSaved, CanvasRecord, SameBut
<1>3. /\ KeyedBy(doc.views, Views) /\ DOMAIN rows = DOMAIN doc.views \cup {v} /\ rows[v].name = name
      /\ \A h \in DOMAIN doc.views : h # v => rows[h] = doc.views[h]
      /\ Table(rows, Views, [name : Names, viewport : Viewports])
  <2>1. KeyedBy(doc.views, Views) /\ new \in [name : Names, viewport : Viewports]
    BY <1>1 DEF ViewRows, Table, PlacementRows, KeyedBy
  <2>2. new.name = name
    OBVIOUS
  <2> HIDE DEF new
  <2>3. DOMAIN rows = DOMAIN doc.views \cup {v} /\ rows[v] = new /\ \A h \in DOMAIN doc.views : h # v => rows[h] = doc.views[h]
    BY DEF With
  <2>4. Table(rows, Views, [name : Names, viewport : Viewports])
    BY <1>1, <2>1, WithTable DEF ViewRows
  <2> QED BY <2>1, <2>2, <2>3, <2>4
<1> HIDE DEF after, rows
<1>4. ViewRows(after) /\ ViewsFit(after)
  BY <1>1, <1>2, <1>3 DEF ViewRows, ViewsFit
<1>5. after # doc => Diff(doc.views, after.views) = {v}
  <2>1. rows # doc.views => Diff(doc.views, rows) = {v}
    BY <1>3, WithDiffers DEF rows
  <2> QED BY <1>2, <2>1
<1>6. CanvasStands(after) /\ (after # doc => ViewReceipt(v) = Differences(doc, after))
  <2>1. CanvasStands(after) /\ Differences(doc, after) = Tagged("saved_view", Diff(doc.views, after.views))
    BY <1>2, <1>4, ViewsStand
  <2> QED BY <1>5, <2>1, Tags DEF OneReceipt, ViewReceipt
<1> QED BY <1>6 DEF after

LEMMA ViewRestoredStands ==
  ASSUME NEW doc, CanvasStands(doc), NEW v \in DOMAIN doc.views
  PROVE  CanvasStands(ViewRestored(doc, v))
<1>1. doc.views[v].viewport \in Viewports
  BY CanvasParts DEF ViewRows, Table
<1> QED BY <1>1, CanvasHeaderStands DEF ViewRestored

\* Placements removed go from their groups, with their edges, and their annotations stay without them; the
\* tool is told of each.
LEMMA PlacementsRemovedStand ==
  ASSUME NEW doc, CanvasStands(doc), NEW ps \in SUBSET DOMAIN doc.placements
  PROVE  LET after == Removed(doc, ps) IN CanvasStands(after) /\ RemoveReceipts(doc, ps) = Differences(doc, after)
<1> DEFINE after == Removed(doc, ps)
           cut == {e \in DOMAIN doc.edges : doc.edges[e].from \in ps \/ doc.edges[e].to \in ps}
           loose(n) == [doc.notes[n] EXCEPT !.on = Absent]
           placements == Without(doc.placements, ps)
           groups == [g \in DOMAIN doc.groups |-> doc.groups[g] \ ps]
           edges == Without(doc.edges, cut)
           notes == [n \in DOMAIN doc.notes |-> IF doc.notes[n].on \in ps THEN loose(n) ELSE doc.notes[n]]
<1>1. /\ CanvasRecord(doc) /\ PlacementRows(doc) /\ GroupRows(doc) /\ EdgeRows(doc) /\ NoteRows(doc) /\ ViewRows(doc)
      /\ GroupsFit(doc) /\ EdgesFit(doc) /\ NotesFit(doc) /\ ViewsFit(doc) /\ NextZAbove(doc)
  BY CanvasParts
<1>2. /\ CanvasRecord(after) /\ after.placements = placements /\ after.groups = groups /\ after.edges = edges
      /\ after.notes = notes /\ after.views = doc.views /\ after.nextZ = doc.nextZ
  BY <1>1 DEF Removed, CanvasRecord
<1>3. ps \subseteq Placements /\ Absent \notin ps
  BY <1>1, WorkspaceAssumption DEF PlacementRows, KeyedBy
<1>4. /\ KeyedBy(placements, Placements) /\ DOMAIN placements = DOMAIN doc.placements \ ps
      /\ \A p \in DOMAIN placements : placements[p] = doc.placements[p]
  BY <1>1 DEF PlacementRows, KeyedBy, Without
<1>5. /\ Table(groups, Groups, SUBSET Placements) /\ DOMAIN groups = DOMAIN doc.groups
      /\ \A g \in DOMAIN groups : groups[g] = doc.groups[g] \ ps
  BY <1>1 DEF GroupRows, Table, KeyedBy
<1>6. /\ Table(edges, Edges, [from : Placements, to : Placements]) /\ DOMAIN edges = DOMAIN doc.edges \ cut
      /\ \A e \in DOMAIN edges : edges[e] = doc.edges[e]
  BY <1>1 DEF EdgeRows, Table, KeyedBy, Without
<1>7. ASSUME NEW n \in DOMAIN doc.notes
      PROVE  /\ doc.notes[n].on \in ps => notes[n].on = Absent /\ notes[n] # doc.notes[n]
             /\ doc.notes[n].on \notin ps => notes[n] = doc.notes[n]
             /\ notes[n] \in [on : Placements \cup {Absent}, text : Texts]
  <2>1. doc.notes[n] \in [on : Placements \cup {Absent}, text : Texts]
    BY <1>1 DEF NoteRows, Table
  <2>2. loose(n) \in [on : Placements \cup {Absent}, text : Texts] /\ loose(n).on = Absent
    BY <2>1
  <2>3. notes[n] = IF doc.notes[n].on \in ps THEN loose(n) ELSE doc.notes[n]
    OBVIOUS
  <2> HIDE DEF loose, notes
  <2> QED BY <1>3, <2>1, <2>2, <2>3
<1>8. Table(notes, Notes, [on : Placements \cup {Absent}, text : Texts]) /\ DOMAIN notes = DOMAIN doc.notes
  <2>1. DOMAIN notes = DOMAIN doc.notes /\ notes = [n \in DOMAIN notes |-> notes[n]]
    OBVIOUS
  <2> HIDE DEF notes
  <2> QED BY <1>1, <1>7, <2>1 DEF NoteRows, Table, KeyedBy
<1> HIDE DEF after, placements, groups, edges, notes
<1>9. PlacementRows(after) /\ GroupRows(after) /\ EdgeRows(after) /\ NoteRows(after) /\ ViewRows(after)
  <2>1. PlacementRows(after)
    BY <1>1, <1>2, <1>4 DEF PlacementRows
  <2>2. GroupRows(after) /\ EdgeRows(after) /\ NoteRows(after) /\ ViewRows(after)
    BY <1>1, <1>2, <1>5, <1>6, <1>8 DEF GroupRows, EdgeRows, NoteRows, ViewRows
  <2> QED BY <2>1, <2>2
<1>10. GroupsFit(after) /\ NextZAbove(after) /\ ViewsFit(after)
  BY <1>1, <1>2, <1>4, <1>5 DEF GroupsFit, NextZAbove, ViewsFit
<1>11. EdgesFit(after)
  <2>1. ASSUME NEW e \in DOMAIN edges
        PROVE  edges[e].from # edges[e].to /\ {edges[e].from, edges[e].to} \subseteq DOMAIN placements
    BY <1>1, <1>4, <1>6, <2>1 DEF EdgesFit
  <2> QED BY <1>2, <2>1 DEF EdgesFit
<1>12. NotesFit(after)
  <2>1. ASSUME NEW n \in DOMAIN notes PROVE notes[n].on \in DOMAIN placements \cup {Absent}
    BY <1>1, <1>4, <1>7, <1>8, <2>1 DEF NotesFit
  <2> QED BY <1>2, <2>1 DEF NotesFit
<1>13. CanvasStands(after)
  BY <1>2, <1>9, <1>10, <1>11, <1>12, CanvasParts
<1>14. Diff(doc.placements, after.placements) = ps
  BY <1>2, <1>4 DEF Diff
<1>15. Diff(doc.groups, after.groups) = {g \in DOMAIN doc.groups : doc.groups[g] \cap ps # {}}
  <2>1. ASSUME NEW g \in DOMAIN doc.groups PROVE doc.groups[g] \ ps # doc.groups[g] <=> doc.groups[g] \cap ps # {}
    OBVIOUS
  <2> QED BY <1>2, <1>5, <2>1 DEF Diff
<1>16. Diff(doc.edges, after.edges) = {e \in DOMAIN doc.edges : {doc.edges[e].from, doc.edges[e].to} \cap ps # {}}
  <2>1. Diff(doc.edges, after.edges) = cut
    <3> HIDE DEF cut
    <3>1. cut \subseteq DOMAIN doc.edges
      BY DEF cut
    <3> QED BY <1>2, <1>6, <3>1 DEF Diff
  <2> QED BY <2>1
<1>17. Diff(doc.notes, after.notes) = {n \in DOMAIN doc.notes : doc.notes[n].on \in ps}
  BY <1>2, <1>7, <1>8 DEF Diff
<1>18. RemoveReceipts(doc, ps) = Differences(doc, after)
  <2>1. RemoveReceipts(doc, ps) =
          Tagged("placement", ps) \cup Tagged("group", {g \in DOMAIN doc.groups : doc.groups[g] \cap ps # {}})
          \cup Tagged("edge", {e \in DOMAIN doc.edges : {doc.edges[e].from, doc.edges[e].to} \cap ps # {}})
          \cup Tagged("annotation", {n \in DOMAIN doc.notes : doc.notes[n].on \in ps})
    BY DEF RemoveReceipts, Tagged
  <2>2. Tagged("saved_view", Diff(doc.views, after.views)) = {}
    BY <1>2, NoDiff, Tags
  <2> QED BY <1>14, <1>15, <1>16, <1>17, <2>1, <2>2, DifferencesAre
<1> QED BY <1>13, <1>18 DEF after

-----------------------------------------------------------------------------
\* The store: its tables and its events, one turn after the other.
LEMMA Revisions ==
  ASSUME NEW store
  PROVE  /\ RevisionIn(store, "project") = store.project.revision
         /\ RevisionIn(store, "project_settings") = 0
         /\ \A s \in SequenceIds : RevisionIn(store, s) = store.sequences[s].revision
         /\ \A c \in Canvases : RevisionIn(store, c) = store.canvases[c].revision
BY WorkspaceAssumption DEF RevisionIn

\* One event more, of an object that has the revision the event names, where the others told of are as they were.
LEMMA StoryStep ==
  ASSUME NEW store, StoryStands(store), NEW e \in EventRows, e.after = e.before + 1,
         \/ e.subject \notin SubjectsOf(store.events) /\ e.before = -1
         \/ e.subject \in SubjectsOf(store.events) /\ e.base = e.before /\ e.before = RevisionIn(store, e.subject),
         NEW after, after.events = Append(store.events, e), RevisionIn(after, e.subject) = e.after,
         \A x \in SubjectsOf(store.events) \ {e.subject} : RevisionIn(after, x) = RevisionIn(store, x)
  PROVE  StoryStands(after) /\ SubjectsOf(after.events) = SubjectsOf(store.events) \cup {e.subject}
<1>1. /\ store.events \in Seq(EventRows) /\ Continuous(store.events)
      /\ \A i \in DOMAIN store.events :
           Latest(store.events, i) => store.events[i].after = RevisionIn(store, store.events[i].subject)
  BY DEF StoryStands
<1>2. Continues(store.events, e)
  <2>1. \A i \in DOMAIN store.events :
          Latest(store.events, i) /\ store.events[i].subject = e.subject => store.events[i].after = RevisionIn(store, e.subject)
    BY <1>1
  <2> QED BY <2>1 DEF Continues
<1> DEFINE longer == Append(store.events, e)
<1>3. /\ Continuous(longer) /\ SubjectsOf(longer) = SubjectsOf(store.events) \cup {e.subject}
      /\ \A i \in DOMAIN longer : Latest(longer, i) =>
           \/ longer[i] = e
           \/ /\ i \in DOMAIN store.events /\ Latest(store.events, i)
              /\ longer[i] = store.events[i] /\ store.events[i].subject # e.subject
  BY <1>1, <1>2, StoryGrows
<1>4. longer \in Seq(EventRows)
  BY <1>1
<1> HIDE DEF longer
<1>5. ASSUME NEW i \in DOMAIN longer, Latest(longer, i)
      PROVE  longer[i].after = RevisionIn(after, longer[i].subject)
  <2>1. CASE longer[i] = e
    BY <2>1
  <2>2. CASE /\ i \in DOMAIN store.events /\ Latest(store.events, i)
             /\ longer[i] = store.events[i] /\ store.events[i].subject # e.subject
    <3>1. store.events[i].subject \in SubjectsOf(store.events)
      BY <2>2 DEF SubjectsOf
    <3> QED BY <1>1, <2>2, <3>1
  <2> QED BY <1>3, <1>5, <2>1, <2>2
<1>6. after.events = longer
  BY DEF longer
<1> QED BY <1>3, <1>4, <1>5, <1>6 DEF StoryStands

LEMMA ExceptIsWith ==
  ASSUME NEW f, NEW ids, KeyedBy(f, ids), NEW k \in DOMAIN f, NEW v
  PROVE  [f EXCEPT ![k] = v] = With(f, k, v)
BY DEF With, KeyedBy

\* What an event of a new object and one of an object that is there have to say.
Follows(e, there, revision) ==
  /\ e.after = e.before + 1
  /\ \/ ~there /\ e.before = -1
     \/ there /\ e.base = e.before /\ e.before = revision

\* A Sequence is created or replaced.
LEMMA SequenceTurn ==
  ASSUME NEW store, SeedStands(store), store.project # Absent,
         NEW s \in SequenceIds, NEW doc, SequenceStands(doc), NEW e \in EventRows, e.subject = s, doc.revision = e.after,
         Follows(e, s \in DOMAIN store.sequences, store.sequences[s].revision),
         NEW after, after.project = store.project, after.canvases = store.canvases,
         after.sequences = With(store.sequences, s, doc), after.events = Append(store.events, e)
  PROVE  SeedStands(after)
<1> DEFINE told == SubjectsOf(store.events)
<1>1. /\ store.project \in ProjectRows \cup {Absent}
      /\ KeyedBy(store.sequences, SequenceIds) /\ \A t \in DOMAIN store.sequences : SequenceStands(store.sequences[t])
      /\ KeyedBy(store.canvases, Canvases) /\ \A c \in DOMAIN store.canvases : CanvasStands(store.canvases[c])
      /\ StoryStands(store)
      /\ told \subseteq {"project", "project_settings"} \cup DOMAIN store.sequences \cup DOMAIN store.canvases
      /\ {"project"} \cup DOMAIN store.sequences \cup DOMAIN store.canvases \subseteq told
  BY DEF SeedStands
<1>2. /\ KeyedBy(after.sequences, SequenceIds) /\ DOMAIN after.sequences = DOMAIN store.sequences \cup {s}
      /\ after.sequences[s] = doc /\ \A t \in DOMAIN store.sequences : t # s => after.sequences[t] = store.sequences[t]
  BY <1>1 DEF With, KeyedBy
<1>3. s \in told <=> s \in DOMAIN store.sequences
  BY <1>1, WorkspaceAssumption DEF KeyedBy
<1>4. RevisionIn(after, s) = e.after /\ RevisionIn(store, s) = store.sequences[s].revision
  BY <1>2, Revisions
<1>5. ASSUME NEW x \in told \ {s} PROVE RevisionIn(after, x) = RevisionIn(store, x)
  <2>1. CASE x \in {"project", "project_settings"}
    BY <2>1, Revisions
  <2>2. CASE x \in DOMAIN store.sequences
    BY <1>1, <1>2, <1>5, <2>2, Revisions DEF KeyedBy
  <2>3. CASE x \in DOMAIN store.canvases
    BY <1>1, <2>3, Revisions DEF KeyedBy
  <2> QED BY <1>1, <2>1, <2>2, <2>3
<1>6. StoryStands(after) /\ SubjectsOf(after.events) = told \cup {s}
  BY <1>1, <1>3, <1>4, <1>5, StoryStep DEF Follows
<1> HIDE DEF told
<1>7. \A t \in DOMAIN after.sequences : SequenceStands(after.sequences[t])
  BY <1>1, <1>2
<1> QED BY <1>1, <1>2, <1>6, <1>7 DEF SeedStands

\* A Canvas is created or replaced.
LEMMA CanvasTurn ==
  ASSUME NEW store, SeedStands(store), store.project # Absent,
         NEW c \in Canvases, NEW doc, CanvasStands(doc), NEW e \in EventRows, e.subject = c, doc.revision = e.after,
         Follows(e, c \in DOMAIN store.canvases, store.canvases[c].revision),
         NEW after, after.project = store.project, after.sequences = store.sequences,
         after.canvases = With(store.canvases, c, doc), after.events = Append(store.events, e)
  PROVE  SeedStands(after)
<1> DEFINE told == SubjectsOf(store.events)
<1>1. /\ store.project \in ProjectRows \cup {Absent}
      /\ KeyedBy(store.sequences, SequenceIds) /\ \A s \in DOMAIN store.sequences : SequenceStands(store.sequences[s])
      /\ KeyedBy(store.canvases, Canvases) /\ \A d \in DOMAIN store.canvases : CanvasStands(store.canvases[d])
      /\ StoryStands(store)
      /\ told \subseteq {"project", "project_settings"} \cup DOMAIN store.sequences \cup DOMAIN store.canvases
      /\ {"project"} \cup DOMAIN store.sequences \cup DOMAIN store.canvases \subseteq told
  BY DEF SeedStands
<1>2. /\ KeyedBy(after.canvases, Canvases) /\ DOMAIN after.canvases = DOMAIN store.canvases \cup {c}
      /\ after.canvases[c] = doc /\ \A d \in DOMAIN store.canvases : d # c => after.canvases[d] = store.canvases[d]
  BY <1>1 DEF With, KeyedBy
<1>3. c \in told <=> c \in DOMAIN store.canvases
  BY <1>1, WorkspaceAssumption DEF KeyedBy
<1>4. RevisionIn(after, c) = e.after /\ RevisionIn(store, c) = store.canvases[c].revision
  BY <1>2, Revisions
<1>5. ASSUME NEW x \in told \ {c} PROVE RevisionIn(after, x) = RevisionIn(store, x)
  <2>1. CASE x \in {"project", "project_settings"}
    BY <2>1, Revisions
  <2>2. CASE x \in DOMAIN store.sequences
    BY <1>1, <2>2, Revisions DEF KeyedBy
  <2>3. CASE x \in DOMAIN store.canvases
    BY <1>1, <1>2, <1>5, <2>3, Revisions DEF KeyedBy
  <2> QED BY <1>1, <2>1, <2>2, <2>3
<1>6. StoryStands(after) /\ SubjectsOf(after.events) = told \cup {c}
  BY <1>1, <1>3, <1>4, <1>5, StoryStep DEF Follows
<1> HIDE DEF told
<1>7. \A d \in DOMAIN after.canvases : CanvasStands(after.canvases[d])
  BY <1>1, <1>2
<1> QED BY <1>1, <1>2, <1>6, <1>7 DEF SeedStands

\* The Project row gets its next revision.
LEMMA ProjectTurn ==
  ASSUME NEW store, SeedStands(store), store.project # Absent,
         NEW row \in ProjectRows, NEW e \in EventRows, e.subject = "project", row.revision = e.after,
         Follows(e, TRUE, store.project.revision),
         NEW after, after.project = row, after.sequences = store.sequences, after.canvases = store.canvases,
         after.events = Append(store.events, e)
  PROVE  SeedStands(after)
<1> DEFINE told == SubjectsOf(store.events)
<1>1. /\ KeyedBy(store.sequences, SequenceIds) /\ \A s \in DOMAIN store.sequences : SequenceStands(store.sequences[s])
      /\ KeyedBy(store.canvases, Canvases) /\ \A d \in DOMAIN store.canvases : CanvasStands(store.canvases[d])
      /\ StoryStands(store)
      /\ told \subseteq {"project", "project_settings"} \cup DOMAIN store.sequences \cup DOMAIN store.canvases
      /\ {"project"} \cup DOMAIN store.sequences \cup DOMAIN store.canvases \subseteq told
  BY DEF SeedStands
<1>2. RevisionIn(after, "project") = e.after /\ RevisionIn(store, "project") = store.project.revision
  BY Revisions
<1>3. ASSUME NEW x \in told \ {"project"} PROVE RevisionIn(after, x) = RevisionIn(store, x)
  <2>1. CASE x = "project_settings"
    BY <2>1, Revisions
  <2>2. CASE x \in DOMAIN store.sequences
    BY <1>1, <2>2, Revisions DEF KeyedBy
  <2>3. CASE x \in DOMAIN store.canvases
    BY <1>1, <2>3, Revisions DEF KeyedBy
  <2> QED BY <1>1, <1>3, <2>1, <2>2, <2>3
<1>4. StoryStands(after) /\ SubjectsOf(after.events) = told \cup {"project"}
  <2>1. e.subject \in told /\ e.after = e.before + 1 /\ e.base = e.before /\ e.before = RevisionIn(store, e.subject)
    BY <1>1, <1>2 DEF Follows
  <2>2. RevisionIn(after, e.subject) = e.after /\ \A x \in told \ {e.subject} : RevisionIn(after, x) = RevisionIn(store, x)
    BY <1>2, <1>3
  <2>3. StoryStands(store) /\ e \in EventRows /\ after.events = Append(store.events, e)
    BY <1>1
  <2> HIDE DEF told
  <2>4. told = SubjectsOf(store.events)
    BY DEF told
  <2>5. StoryStands(after) /\ SubjectsOf(after.events) = told \cup {e.subject}
    BY ONLY <2>1, <2>2, <2>3, <2>4, StoryStep
  <2> QED BY <2>5
<1> HIDE DEF told
<1>5. row # Absent
  BY WorkspaceAssumption
<1> QED BY <1>1, <1>4, <1>5 DEF SeedStands

-----------------------------------------------------------------------------
\* The inductive invariant: the store stands as a Project to start from does, a receipt is kept of every answer
\* to a request, and of no other.
AnswersKept ==
  /\ KeyedBy(receipts, Requests)
  /\ \A a \in answers : a.author \in Requests =>
       /\ a.author \in DOMAIN receipts
       /\ a = [author |-> a.author, input |-> receipts[a.author].input, answer |-> receipts[a.author].answer]
WorkspaceInv == SeedStands(Store) /\ heads \in [Objects -> Heads] /\ AnswersKept

LEMMA Responded ==
  ASSUME AnswersKept, NEW a \in Authors, a \notin DOMAIN receipts, NEW input, NEW answer, Respond(a, input, answer)
  PROVE  AnswersKept'
<1> DEFINE new == [author |-> a, input |-> input, answer |-> answer]
<1>1. answers' = answers \cup {new} /\ new.author = a
  BY DEF Respond
<1>2. CASE a \in Requests
  <2>1. receipts' = WithRow(receipts, a, [input |-> input, answer |-> answer])
    BY <1>2 DEF Respond
  <2>2. /\ KeyedBy(receipts', Requests) /\ DOMAIN receipts' = DOMAIN receipts \cup {a}
        /\ receipts'[a] = [input |-> input, answer |-> answer]
        /\ \A r \in DOMAIN receipts : receipts'[r] = receipts[r]
    BY <1>2, <2>1 DEF AnswersKept, KeyedBy, WithRow
  <2>3. new = [author |-> new.author, input |-> receipts'[new.author].input, answer |-> receipts'[new.author].answer]
    BY <1>1, <2>2
  <2> HIDE DEF new
  <2> QED BY <1>1, <2>2, <2>3 DEF AnswersKept
<1>3. CASE a \notin Requests
  <2>1. receipts' = receipts
    BY <1>3 DEF Respond
  <2> HIDE DEF new
  <2> QED BY <1>1, <1>3, <2>1 DEF AnswersKept
<1> QED BY <1>2, <1>3

LEMMA Replayed ==
  ASSUME AnswersKept, NEW r, NEW input, Replay(r, input)
  PROVE  AnswersKept'
<1> DEFINE new == [author |-> r, input |-> input, answer |-> receipts[r].answer]
<1>1. /\ answers' = answers \cup {new} /\ receipts' = receipts /\ r \in DOMAIN receipts /\ receipts[r].input = input
      /\ new.author = r
  BY DEF Replay, readValidatedReceipt
<1>2. new = [author |-> new.author, input |-> receipts'[new.author].input, answer |-> receipts'[new.author].answer]
  BY <1>1
<1> HIDE DEF new
<1> QED BY <1>1, <1>2 DEF AnswersKept

\* The parts of the store, and what may be asked of them where there is a Project.
LEMMA StoreParts ==
  ASSUME WorkspaceInv
  PROVE  /\ Store.project = project /\ Store.sequences = sequences /\ Store.canvases = canvases /\ Store.events = events
         /\ Store'.project = project' /\ Store'.sequences = sequences' /\ Store'.canvases = canvases'
         /\ Store'.events = events'
         /\ KeyedBy(sequences, SequenceIds) /\ KeyedBy(canvases, Canvases) /\ events \in Seq(EventRows)
         /\ \A s \in DOMAIN sequences : SequenceStands(sequences[s]) /\ sequences[s].revision \in Nat
         /\ \A c \in DOMAIN canvases : CanvasStands(canvases[c]) /\ canvases[c].revision \in Nat
         /\ project # Absent => project \in ProjectRows
<1>1. /\ Store.project = project /\ Store.sequences = sequences /\ Store.canvases = canvases /\ Store.events = events
      /\ Store'.project = project' /\ Store'.sequences = sequences' /\ Store'.canvases = canvases'
      /\ Store'.events = events'
  BY DEF Store
<1>2. /\ KeyedBy(sequences, SequenceIds) /\ KeyedBy(canvases, Canvases) /\ events \in Seq(EventRows)
      /\ \A s \in DOMAIN sequences : SequenceStands(sequences[s])
      /\ \A c \in DOMAIN canvases : CanvasStands(canvases[c])
      /\ project \in ProjectRows \cup {Absent}
  BY <1>1 DEF WorkspaceInv, SeedStands, StoryStands
<1>3. \A s \in DOMAIN sequences : sequences[s].revision \in Nat
  BY <1>2 DEF SequenceStands, SequenceDocument
<1>4. \A c \in DOMAIN canvases : canvases[c].revision \in Nat
  BY <1>2, CanvasParts DEF CanvasRecord
<1> QED BY <1>1, <1>2, <1>3, <1>4

LEMMA EventRow ==
  ASSUME NEW a \in Authors, NEW k \in SequenceIds \cup Canvases \cup Nat, NEW subject \in SubjectNames,
         NEW base \in Int, NEW before \in Int, NEW after \in Int
  PROVE  [key |-> <<a, k>>, subject |-> subject, base |-> base, before |-> before, after |-> after] \in EventRows
BY DEF EventRows

LEMMA SequenceReplaced ==
  ASSUME WorkspaceInv, project # Absent, NEW r \in Requests, MayRun(r), NEW input, NEW s \in DOMAIN sequences, NEW base,
         NEW after, SequenceStands(after), replaceSequence(r, input, s, base, after), UNCHANGED <<project, heads, canvases>>
  PROVE  WorkspaceInv'
<1> DEFINE n == sequences[s].revision
           next == [after EXCEPT !.revision = n + 1]
           e == [key |-> <<r, s>>, subject |-> s, base |-> base, before |-> n, after |-> next.revision]
<1>1. SequenceStands(next) /\ next.revision = n + 1 /\ n \in Nat /\ s \in SequenceIds
  <2>1. n \in Nat /\ n + 1 \in Nat /\ s \in SequenceIds
    BY StoreParts DEF KeyedBy
  <2> HIDE DEF n
  <2> QED BY <2>1, HeaderStands
<1>2. /\ n = base /\ sequences' = [sequences EXCEPT ![s] = next] /\ events' = Append(events, e)
      /\ Respond(r, input, next.revision)
  BY DEF replaceSequence, replaceSequenceRows, appendProjectEvent
<1> HIDE DEF next
<1>3. e \in EventRows /\ e.subject = s /\ next.revision = e.after /\ Follows(e, s \in DOMAIN sequences, n)
  <2>1. e \in EventRows
    BY <1>1, <1>2, EventRow DEF Authors, SubjectNames
  <2> QED BY <1>1, <1>2, <2>1 DEF Follows
<1> HIDE DEF e
<1>4. sequences' = With(sequences, s, next)
  BY <1>2, StoreParts, ExceptIsWith
<1>5. SeedStands(Store')
  <2>1. SeedStands(Store) /\ Store.project # Absent /\ Follows(e, s \in DOMAIN Store.sequences, Store.sequences[s].revision)
    BY <1>3, StoreParts DEF WorkspaceInv
  <2>2. /\ Store'.project = Store.project /\ Store'.canvases = Store.canvases
        /\ Store'.sequences = With(Store.sequences, s, next) /\ Store'.events = Append(Store.events, e)
    BY <1>2, <1>4, StoreParts
  <2> QED BY ONLY <1>1, <1>3, <2>1, <2>2, SequenceTurn
<1>6. AnswersKept'
  BY <1>2, Responded DEF WorkspaceInv, MayRun, Authors
<1> QED BY <1>5, <1>6 DEF WorkspaceInv

LEMMA SequenceCreated ==
  ASSUME WorkspaceInv, project # Absent, NEW r \in Requests, NEW s \in SequenceIds, createSequence(r, s), UNCHANGED canvases
  PROVE  WorkspaceInv'
<1> DEFINE e == [key |-> <<r, s>>, subject |-> s, base |-> 0, before |-> -1, after |-> 0]
<1>1. /\ s \notin DOMAIN sequences /\ sequences' = With(sequences, s, createEmptySequence)
      /\ events' = Append(events, e) /\ MayRun(r) /\ Respond(r, <<"sequence.create">>, 0)
      /\ project' = project /\ heads' = heads
  BY DEF createSequence, insertSequence, appendProjectEvent, With
<1>2. SequenceStands(createEmptySequence) /\ createEmptySequence.revision = 0
  BY EmptySequenceStands DEF createEmptySequence
<1>3. /\ e \in EventRows /\ e.subject = s /\ createEmptySequence.revision = e.after
      /\ Follows(e, s \in DOMAIN sequences, sequences[s].revision)
  <2>1. e \in EventRows
    BY EventRow DEF Authors, SubjectNames
  <2> QED BY <1>1, <1>2, <2>1 DEF Follows
<1> HIDE DEF e
<1>4. SeedStands(Store')
  BY <1>1, <1>2, <1>3, StoreParts, SequenceTurn DEF WorkspaceInv
<1>5. AnswersKept'
  BY <1>1, Responded DEF WorkspaceInv, MayRun, Authors
<1> QED BY <1>1, <1>4, <1>5 DEF WorkspaceInv

LEMMA CanvasReplaced ==
  ASSUME WorkspaceInv, project # Absent, NEW a \in Authors, MayRun(a), NEW input, NEW c \in DOMAIN canvases, NEW base,
         canvases[c].revision = base, NEW after, CanvasStands(after), NEW told,
         replaceCanvas(a, input, c, base, after, told), UNCHANGED <<project, sequences, heads>>
  PROVE  WorkspaceInv'
<1> DEFINE n == canvases[c].revision
           next == [after EXCEPT !.revision = n + 1]
           e == [key |-> <<a, c>>, subject |-> c, base |-> base, before |-> n, after |-> next.revision]
<1>1. CanvasStands(next) /\ next.revision = n + 1 /\ n \in Nat /\ c \in Canvases
  <2>1. n \in Nat /\ n + 1 \in Nat /\ c \in Canvases
    BY StoreParts DEF KeyedBy
  <2> HIDE DEF n
  <2> QED BY <2>1, CanvasHeaderStands
<1>2. /\ canvases' = [canvases EXCEPT ![c] = next] /\ events' = Append(events, e)
      /\ Respond(a, input, [revision |-> next.revision, told |-> told])
  BY DEF replaceCanvas, replaceCanvasRows, appendProjectEvent
<1> HIDE DEF next
<1>3. e \in EventRows /\ e.subject = c /\ next.revision = e.after /\ Follows(e, c \in DOMAIN canvases, n)
  <2>1. e \in EventRows
    BY <1>1, EventRow DEF SubjectNames
  <2> QED BY <1>1, <2>1 DEF Follows
<1> HIDE DEF e
<1>4. canvases' = With(canvases, c, next)
  BY <1>2, StoreParts, ExceptIsWith
<1>5. SeedStands(Store')
  <2>1. SeedStands(Store) /\ Store.project # Absent /\ Follows(e, c \in DOMAIN Store.canvases, Store.canvases[c].revision)
    BY <1>3, StoreParts DEF WorkspaceInv
  <2>2. /\ Store'.project = Store.project /\ Store'.sequences = Store.sequences
        /\ Store'.canvases = With(Store.canvases, c, next) /\ Store'.events = Append(Store.events, e)
    BY <1>2, <1>4, StoreParts
  <2> QED BY ONLY <1>1, <1>3, <2>1, <2>2, CanvasTurn
<1>6. AnswersKept'
  BY <1>2, Responded DEF WorkspaceInv, MayRun
<1> QED BY <1>5, <1>6 DEF WorkspaceInv

LEMMA CanvasCreated ==
  ASSUME WorkspaceInv, project # Absent, NEW r \in Requests, NEW c \in Canvases, NEW ref, createCanvas(r, c, ref)
  PROVE  WorkspaceInv'
<1> DEFINE doc == createEmptyCanvas(ref)
           e == [key |-> <<r, c>>, subject |-> c, base |-> 0, before |-> -1, after |-> 0]
<1>1. /\ c \notin DOMAIN canvases /\ canvases' = With(canvases, c, doc)
      /\ events' = Append(events, e) /\ MayRun(r) /\ Respond(r, <<"canvas.create", ref>>, 0)
      /\ project' = project /\ sequences' = sequences /\ heads' = heads
  BY DEF createCanvas, insertCanvas, appendProjectEvent
<1>2. CanvasStands(doc) /\ doc.revision = 0
  BY EmptyCanvasStands
<1> HIDE DEF doc
<1>3. /\ e \in EventRows /\ e.subject = c /\ doc.revision = e.after
      /\ Follows(e, c \in DOMAIN canvases, canvases[c].revision)
  <2>1. e \in EventRows
    BY EventRow DEF Authors, SubjectNames
  <2> QED BY <1>1, <1>2, <2>1 DEF Follows
<1> HIDE DEF e
<1>4. SeedStands(Store')
  BY <1>1, <1>2, <1>3, StoreParts, CanvasTurn DEF WorkspaceInv
<1>5. AnswersKept'
  BY <1>1, Responded DEF WorkspaceInv, MayRun, Authors
<1> QED BY <1>1, <1>4, <1>5 DEF WorkspaceInv

\* A command that writes nothing is answered.
LEMMA NothingWritten ==
  ASSUME WorkspaceInv, UNCHANGED <<project, sequences, heads, canvases, events>>, AnswersKept'
  PROVE  WorkspaceInv'
BY DEF WorkspaceInv, Store

LEMMA ProjectUpdated ==
  ASSUME WorkspaceInv, project # Absent, NEW r \in Requests, ProjectCommand(r)
  PROVE  WorkspaceInv'
<1>1. PICK base \in Read(project), name \in Names, lifecycle \in Lifecycles : updateProject(r, base, name, lifecycle)
  BY DEF ProjectCommand
<1>2. UNCHANGED <<sequences, heads, canvases>>
  BY DEF ProjectCommand
<1> DEFINE n == project.revision
           row == [name |-> name, lifecycle |-> lifecycle, revision |-> n + 1]
           e == [key |-> <<r, 0>>, subject |-> "project", base |-> base, before |-> n, after |-> row.revision]
<1>3. MayRun(r) /\ base = n /\ n \in Nat
  BY <1>1, StoreParts DEF updateProject, ProjectRows
<1>4. CASE name = project.name /\ lifecycle = project.lifecycle
  <2>1. Respond(r, <<"project.update", base, name, lifecycle>>, project) /\ UNCHANGED <<project, events>>
    BY <1>1, <1>4 DEF updateProject
  <2>2. AnswersKept'
    BY <1>3, <2>1, Responded DEF WorkspaceInv, MayRun, Authors
  <2> QED BY <1>2, <2>1, <2>2, NothingWritten
<1>5. CASE ~(name = project.name /\ lifecycle = project.lifecycle)
  <2>1. project' = row /\ events' = Append(events, e) /\ Respond(r, <<"project.update", base, name, lifecycle>>, row)
    BY <1>1, <1>5 DEF updateProject, appendProjectEvent
  <2>2. row \in ProjectRows /\ row.revision = n + 1
    BY <1>3 DEF ProjectRows
  <2> HIDE DEF row
  <2>3. e \in EventRows /\ e.subject = "project" /\ row.revision = e.after /\ Follows(e, TRUE, n)
    <3>1. e \in EventRows
      BY <1>3, <2>2, EventRow DEF Authors, SubjectNames
    <3> QED BY <1>3, <2>2, <3>1 DEF Follows
  <2> HIDE DEF e
  <2>4. SeedStands(Store')
    BY <1>2, <2>1, <2>2, <2>3, StoreParts, ProjectTurn DEF WorkspaceInv
  <2>5. AnswersKept'
    BY <1>3, <2>1, Responded DEF WorkspaceInv, MayRun, Authors
  <2> QED BY <1>2, <2>4, <2>5 DEF WorkspaceInv
<1> QED BY <1>4, <1>5

\* A Project is created where there is none: its four events are the first of their objects.
First(e) == e \in EventRows /\ e.before = -1 /\ e.after = 0
LEMMA FourEvents ==
  ASSUME NEW e1, NEW e2, NEW e3, NEW e4, First(e1), First(e2), First(e3), First(e4),
         e1.subject # e2.subject, e1.subject # e3.subject, e1.subject # e4.subject,
         e2.subject # e3.subject, e2.subject # e4.subject, e3.subject # e4.subject
  PROVE  LET log == <<e1, e2, e3, e4>> IN
         /\ log \in Seq(EventRows) /\ Continuous(log) /\ \A i \in DOMAIN log : log[i].after = 0
         /\ SubjectsOf(log) = {e1.subject, e2.subject, e3.subject, e4.subject}
<1> DEFINE log == <<e1, e2, e3, e4>>
<1>1. log \in Seq(EventRows) /\ DOMAIN log = 1..4 /\ log[1] = e1 /\ log[2] = e2 /\ log[3] = e3 /\ log[4] = e4
  BY DEF First
<1> HIDE DEF log
<1>2. \A i \in 1..4 : log[i].before = -1 /\ log[i].after = 0
  BY <1>1 DEF First
<1>3. \A i \in 1..4 : \A j \in 1..(i - 1) : log[j].subject # log[i].subject
  BY <1>1
<1>4. \A i \in 1..4 : ToldBefore(log, i) = {}
  BY <1>3 DEF ToldBefore
<1>5. Continuous(log)
  BY <1>1, <1>2, <1>4 DEF Continuous, LastOf
<1>6. SubjectsOf(log) = {e1.subject, e2.subject, e3.subject, e4.subject}
  <2>1. \A i \in 1..4 : i = 1 \/ i = 2 \/ i = 3 \/ i = 4
    OBVIOUS
  <2> QED BY <1>1, <2>1 DEF SubjectsOf
<1> QED BY <1>1, <1>2, <1>5, <1>6 DEF log

LEMMA ProjectCreated ==
  ASSUME WorkspaceInv, NEW r \in Requests, NEW s \in SequenceIds, NEW c \in Canvases, createProject(r, s, c)
  PROVE  WorkspaceInv'
<1> DEFINE row == [name |-> "first", lifecycle |-> "active", revision |-> 0]
           doc == createEmptyCanvas(<<s, 0>>)
           e1 == [key |-> <<r, 0>>, subject |-> "project", base |-> 0, before |-> -1, after |-> 0]
           e2 == [key |-> <<r, 1>>, subject |-> "project_settings", base |-> 0, before |-> -1, after |-> 0]
           e3 == [key |-> <<r, s>>, subject |-> s, base |-> 0, before |-> -1, after |-> 0]
           e4 == [key |-> <<r, c>>, subject |-> c, base |-> 0, before |-> -1, after |-> 0]
<1>1. /\ project = Absent /\ project' = row /\ MayRun(r) /\ Respond(r, <<"project.create">>, project') /\ heads' = heads
      /\ sequences' = With(sequences, s, createEmptySequence) /\ canvases' = With(canvases, c, doc)
      /\ events' = <<e1, e2, e3, e4>>
  BY DEF createProject, insertSequence, insertCanvas, With
<1>2. DOMAIN sequences = {} /\ DOMAIN canvases = {} /\ KeyedBy(sequences, SequenceIds) /\ KeyedBy(canvases, Canvases)
  BY <1>1, StoreParts DEF WorkspaceInv, SeedStands
<1>3. /\ row \in ProjectRows /\ row # Absent /\ row.revision = 0
  BY WorkspaceAssumption DEF ProjectRows, Names, Lifecycles
<1>4. /\ SequenceStands(createEmptySequence) /\ createEmptySequence.revision = 0
      /\ CanvasStands(doc) /\ doc.revision = 0
  BY EmptySequenceStands, EmptyCanvasStands DEF createEmptySequence
<1>5. First(e1) /\ First(e2) /\ First(e3) /\ First(e4)
  <2>1. e1 \in EventRows /\ e2 \in EventRows /\ e3 \in EventRows /\ e4 \in EventRows
    BY EventRow DEF Authors, SubjectNames
  <2> QED BY <2>1 DEF First
<1>6. e1.subject = "project" /\ e2.subject = "project_settings" /\ e3.subject = s /\ e4.subject = c
  OBVIOUS
<1>7. s # c /\ s \notin {"project", "project_settings"} /\ c \notin {"project", "project_settings"}
  BY WorkspaceAssumption
<1> HIDE DEF row, doc, e1, e2, e3, e4
<1>8. /\ events' \in Seq(EventRows) /\ Continuous(events') /\ \A i \in DOMAIN events' : events'[i].after = 0
      /\ SubjectsOf(events') = {"project", "project_settings", s, c}
  <2>1. /\ e1.subject # e2.subject /\ e1.subject # e3.subject /\ e1.subject # e4.subject
        /\ e2.subject # e3.subject /\ e2.subject # e4.subject /\ e3.subject # e4.subject
    BY <1>6, <1>7
  <2> QED BY <1>1, <1>5, <1>6, <2>1, FourEvents
<1>9. /\ DOMAIN sequences' = {s} /\ sequences'[s] = createEmptySequence /\ KeyedBy(sequences', SequenceIds)
      /\ DOMAIN canvases' = {c} /\ canvases'[c] = doc /\ KeyedBy(canvases', Canvases)
  BY <1>1, <1>2 DEF With, KeyedBy
<1>10. \A x \in {"project", "project_settings", s, c} : RevisionIn(Store', x) = 0
  BY <1>1, <1>3, <1>4, <1>9, StoreParts, Revisions
<1>11. StoryStands(Store')
  <2>1. \A i \in DOMAIN events' : events'[i].subject \in {"project", "project_settings", s, c}
    BY <1>8 DEF SubjectsOf
  <2>2. Store'.events = events'
    BY StoreParts
  <2> QED BY <1>8, <1>10, <2>1, <2>2 DEF StoryStands
<1>12. SeedStands(Store')
  <2>1. /\ Store'.project = row /\ Store'.sequences = sequences' /\ Store'.canvases = canvases' /\ Store'.events = events'
    BY <1>1, StoreParts
  <2> QED BY <1>3, <1>4, <1>8, <1>9, <1>11, <2>1 DEF SeedStands
<1>13. AnswersKept'
  BY <1>1, Responded DEF WorkspaceInv, MayRun, Authors
<1> QED BY <1>1, <1>12, <1>13 DEF WorkspaceInv

-----------------------------------------------------------------------------
\* The commands on a Sequence.
LEMMA SequenceSame ==
  ASSUME WorkspaceInv, NEW r \in Requests, MayRun(r), NEW input, NEW s, SameSequence(r, input, s),
         UNCHANGED <<project, heads, canvases>>
  PROVE  WorkspaceInv'
<1>1. Respond(r, input, sequences[s].revision) /\ UNCHANGED <<sequences, events>>
  BY DEF SameSequence
<1>2. AnswersKept'
  BY <1>1, Responded DEF WorkspaceInv, MayRun, Authors
<1> QED BY <1>1, <1>2, NothingWritten

\* A structural command leaves a Sequence that stands.
LEMMA SequenceEdited ==
  ASSUME WorkspaceInv, project # Absent, NEW r \in Requests, NEW input, NEW s \in DOMAIN sequences, NEW base, NEW after,
         EditSequence(r, input, s, base, TRUE, after), SequenceStands(after), UNCHANGED canvases
  PROVE  WorkspaceInv'
BY SequenceReplaced DEF EditSequence

LEMMA FreshOnes ==
  ASSUME NEW ids, NEW used, NEW id \in Fresh(ids, used)
  PROVE  id \in ids
BY DEF Fresh

LEMMA SequenceCommanded ==
  ASSUME WorkspaceInv, project # Absent, NEW r \in Requests, MayRun(r), SequenceCommand(r)
  PROVE  WorkspaceInv'
<1>1. UNCHANGED canvases
  BY DEF SequenceCommand
<1>2. ASSUME NEW s \in SequenceIds, createSequence(r, s) PROVE WorkspaceInv'
  BY <1>1, <1>2, SequenceCreated
<1>3. ASSUME NEW s \in DOMAIN sequences, NEW base,
             \/ \E name \in Names : renameSequence(r, s, base, name)
             \/ \E lifecycle \in {"active", "archived"} : setSequenceLifecycle(r, s, base, lifecycle)
      PROVE  WorkspaceInv'
  <2>1. SequenceStands(sequences[s])
    BY StoreParts
  <2>2. ASSUME NEW name \in Names, renameSequence(r, s, base, name) PROVE WorkspaceInv'
    <3> DEFINE input == <<"sequence.rename", s, base, name>>
               after == [sequences[s] EXCEPT !.name = name]
    <3>1. /\ SameSequence(r, input, s) \/ replaceSequence(r, input, s, base, after)
          /\ UNCHANGED <<project, heads, canvases>> /\ SequenceStands(after)
      BY <1>1, <2>1, <2>2, HeaderStands DEF renameSequence
    <3> HIDE DEF input, after
    <3> QED BY <3>1, SequenceSame, SequenceReplaced
  <2>3. ASSUME NEW lifecycle \in {"active", "archived"}, setSequenceLifecycle(r, s, base, lifecycle) PROVE WorkspaceInv'
    <3> DEFINE input == <<"sequence.lifecycle", s, base, lifecycle>>
               after == [sequences[s] EXCEPT !.lifecycle = lifecycle]
    <3>1. /\ SameSequence(r, input, s) \/ replaceSequence(r, input, s, base, after)
          /\ UNCHANGED <<project, heads, canvases>> /\ SequenceStands(after)
      BY <1>1, <2>1, <2>3, HeaderStands DEF setSequenceLifecycle
    <3> HIDE DEF input, after
    <3> QED BY <3>1, SequenceSame, SequenceReplaced
  <2> QED BY <1>3, <2>2, <2>3
<1>4. ASSUME NEW s \in DOMAIN sequences, NEW base, NEW id \in Fresh(Items, UsedItems),
             \/ \E o \in Scenes : append_scene(r, s, base, o, heads[o].revision, id)
             \/ \E i \in ItemsOf(s, "scene"), o \in Shots : append_shot(r, s, base, i, o, heads[o].revision, id)
             \/ \E i \in ItemsOf(s, "shot"), u \in Results : append_clip(r, s, base, i, u, id)
      PROVE  WorkspaceInv'
  <2> DEFINE doc == sequences[s]
  <2>1. SequenceStands(doc) /\ id \in Items /\ Absent \notin Items
    BY StoreParts, FreshOnes, WorkspaceAssumption
  <2>2. \A o \in Objects : heads[o].revision \in Nat
    BY DEF WorkspaceInv, Heads
  <2>3. ASSUME NEW o \in Scenes, append_scene(r, s, base, o, heads[o].revision, id) PROVE WorkspaceInv'
    <3> DEFINE after == AppendedItem(doc, id, "scene", Absent, o, heads[o].revision)
    <3>1. FreshItem(id) /\ EditSequence(r, <<"append_scene", s, base, o>>, s, base, TRUE, after)
      BY <2>3 DEF append_scene, EditSequence
    <3>2. id \notin DOMAIN doc.items /\ Fits(doc, "scene", Absent) /\ "scene" \in Kinds /\ o \in Objects
      BY <3>1 DEF FreshItem, Fits, Kinds, Objects
    <3>3. SequenceStands(after)
      BY <2>1, <2>2, <3>2, AppendedStands
    <3> HIDE DEF after
    <3> QED BY <1>1, <3>1, <3>3, SequenceEdited
  <2>4. ASSUME NEW i \in ItemsOf(s, "scene"), NEW o \in Shots, append_shot(r, s, base, i, o, heads[o].revision, id)
        PROVE  WorkspaceInv'
    <3> DEFINE after == AppendedItem(doc, id, "shot", i, o, heads[o].revision)
    <3>1. FreshItem(id) /\ EditSequence(r, <<"append_shot", s, base, i, o>>, s, base, TRUE, after)
      BY <2>4 DEF append_shot, EditSequence
    <3>2. id \notin DOMAIN doc.items /\ Fits(doc, "shot", i) /\ "shot" \in Kinds /\ o \in Objects
      BY <2>4, <3>1 DEF FreshItem, Fits, Kinds, Objects, ItemsOf
    <3>3. SequenceStands(after)
      BY <2>1, <2>2, <3>2, AppendedStands
    <3> HIDE DEF after
    <3> QED BY <1>1, <3>1, <3>3, SequenceEdited
  <2>5. ASSUME NEW i \in ItemsOf(s, "shot"), NEW u \in Results, append_clip(r, s, base, i, u, id) PROVE WorkspaceInv'
    <3> DEFINE after == AppendedItem(doc, id, "clip", i, u, 0)
    <3>1. /\ FreshItem(id) /\ requireClipResult(doc, u, i)
          /\ EditSequence(r, <<"append_clip", s, base, i, u>>, s, base, TRUE, after)
      BY <2>5 DEF append_clip, EditSequence
    <3>2. id \notin DOMAIN doc.items /\ Fits(doc, "clip", i) /\ "clip" \in Kinds /\ ShotOf[u] = doc.items[i].target
      BY <2>5, <3>1 DEF FreshItem, Fits, Kinds, ItemsOf, requireClipResult
    <3>3. SequenceStands(after)
      BY <2>1, <2>2, <3>2, AppendedStands
    <3> HIDE DEF after
    <3> QED BY <1>1, <3>1, <3>3, SequenceEdited
  <2> QED BY <1>4, <2>3, <2>4, <2>5
<1>5. ASSUME NEW s \in DOMAIN sequences, NEW base, NEW i \in ItemsOf(s, "clip"), NEW u \in Results,
             update_clip(r, s, base, i, u)
      PROVE  WorkspaceInv'
  <2> DEFINE doc == sequences[s]
             after == ClipUpdated(doc, i, u)
  <2>1. /\ EditSequence(r, <<"update_clip", s, base, i, u>>, s, base, TRUE, after)
        /\ requireClipResult(doc, u, doc.items[i].parent)
    BY <1>5 DEF update_clip, EditSequence
  <2>2. SequenceStands(doc) /\ i \in DOMAIN doc.items /\ doc.items[i].kind = "clip"
    BY <1>5, StoreParts DEF ItemsOf
  <2>3. SequenceStands(after)
    BY <2>1, <2>2, ClipUpdatedStands
  <2> HIDE DEF after
  <2> QED BY <1>1, <2>1, <2>3, SequenceEdited
<1>6. ASSUME NEW s \in DOMAIN sequences, NEW base, NEW i \in DOMAIN sequences[s].items, NEW parent,
             NEW n \in 0..Cardinality(siblings(sequences[s], parent)), moveItem(r, s, base, i, parent, n)
      PROVE  WorkspaceInv'
  <2> DEFINE doc == sequences[s]
             after == MovedItem(doc, i, parent, n)
  <2>1. /\ EditSequence(r, <<"move", s, base, i, parent, n>>, s, base, TRUE, after)
        /\ assertParent(doc, i, parent) /\ n <= Cardinality(siblings(doc, parent) \ {i})
    BY <1>6 DEF moveItem, EditSequence
  <2>2. SequenceStands(doc) /\ n \in Nat
    BY StoreParts
  <2>3. SequenceStands(after)
    BY <2>1, <2>2, MovedStands
  <2> HIDE DEF after
  <2> QED BY <1>1, <2>1, <2>3, SequenceEdited
<1>7. ASSUME NEW s \in DOMAIN sequences, NEW base, NEW parent \in DOMAIN sequences[s].items \cup {Absent},
             NEW order \in SetToSeqs(siblings(sequences[s], parent)), reorderItems(r, s, base, parent, order)
      PROVE  WorkspaceInv'
  <2> DEFINE doc == sequences[s]
             after == ReorderedItems(doc, parent, order)
             input == <<"reorder", s, base, parent, order>>
  <2>1. /\ SameSequence(r, input, s) \/ replaceSequence(r, input, s, base, after)
        /\ UNCHANGED <<project, heads, canvases>>
    BY <1>1, <1>7 DEF reorderItems
  <2>2. SequenceStands(after)
    BY StoreParts, ReorderedStands
  <2> HIDE DEF input, after
  <2> QED BY <2>1, <2>2, SequenceSame, SequenceReplaced
<1>8. ASSUME NEW s \in DOMAIN sequences, NEW base, NEW i \in DOMAIN sequences[s].items, removeItem(r, s, base, i)
      PROVE  WorkspaceInv'
  <2> DEFINE after == RemovedItem(sequences[s], i)
  <2>1. EditSequence(r, <<"remove", s, base, i>>, s, base, TRUE, after)
    BY <1>8 DEF removeItem, EditSequence
  <2>2. SequenceStands(after)
    BY StoreParts, RemovedStands
  <2> HIDE DEF after
  <2> QED BY <1>1, <2>1, <2>2, SequenceEdited
<1> QED BY <1>2, <1>3, <1>4, <1>5, <1>6, <1>7, <1>8 DEF SequenceCommand, OpenSequences

-----------------------------------------------------------------------------
\* The commands on a Canvas.
LEMMA CanvasSame ==
  ASSUME WorkspaceInv, NEW a, MayRun(a), NEW input, NEW c, SameCanvas(a, input, c),
         UNCHANGED <<project, sequences, heads>>
  PROVE  WorkspaceInv'
<1>1. a \in Requests /\ Respond(a, input, [revision |-> canvases[c].revision, told |-> {}])
      /\ UNCHANGED <<canvases, events>>
  BY DEF SameCanvas
<1>2. AnswersKept'
  BY <1>1, Responded DEF WorkspaceInv, MayRun, Authors
<1> QED BY <1>1, <1>2, NothingWritten

LEMMA CanvasUpdated ==
  ASSUME WorkspaceInv, NEW r \in Requests, NEW input, NEW c \in DOMAIN canvases, NEW base, NEW after,
         updateCanvas(r, input, c, base, TRUE, after), CanvasStands(after)
  PROVE  WorkspaceInv'
<1>1. /\ MayRun(r) /\ canvases[c].revision = base /\ project # Absent
      /\ SameCanvas(r, input, c) \/ replaceCanvas(r, input, c, base, after, {})
      /\ UNCHANGED <<project, sequences, heads>> /\ r \in Authors
  BY DEF updateCanvas, requireExactCanvas, loadCanvasDocument, requireProject, projectFromRow, Authors
<1> QED BY <1>1, CanvasSame, CanvasReplaced

LEMMA CanvasCommanded ==
  ASSUME WorkspaceInv, project # Absent, NEW r \in Requests, MayRun(r), CanvasCommand(r)
  PROVE  WorkspaceInv'
<1>1. ASSUME NEW c \in Canvases, NEW ref, createCanvas(r, c, ref) PROVE WorkspaceInv'
  BY <1>1, CanvasCreated
<1>2. ASSUME NEW c \in DOMAIN canvases, NEW base, NEW name \in Names, renameCanvas(r, c, base, name) PROVE WorkspaceInv'
  <2> DEFINE after == [canvases[c] EXCEPT !.name = name]
  <2>1. updateCanvas(r, <<"canvas.rename", c, base, name>>, c, base, TRUE, after)
    BY <1>2 DEF renameCanvas
  <2>2. CanvasStands(after)
    BY StoreParts, CanvasHeaderStands
  <2> HIDE DEF after
  <2> QED BY <2>1, <2>2, CanvasUpdated
<1>3. ASSUME NEW c \in DOMAIN canvases, NEW base, NEW lifecycle \in {"active", "archived"},
             setCanvasLifecycle(r, c, base, lifecycle)
      PROVE  WorkspaceInv'
  <2> DEFINE after == [canvases[c] EXCEPT !.lifecycle = lifecycle]
  <2>1. updateCanvas(r, <<"canvas.lifecycle", c, base, lifecycle>>, c, base, TRUE, after)
    BY <1>3 DEF setCanvasLifecycle
  <2>2. CanvasStands(after)
    BY StoreParts, CanvasHeaderStands
  <2> HIDE DEF after
  <2> QED BY <2>1, <2>2, CanvasUpdated
<1>4. ASSUME NEW c \in DOMAIN canvases, NEW base, NEW ref, set_primary_sequence(r, c, base, ref) PROVE WorkspaceInv'
  <2> DEFINE after == [canvases[c] EXCEPT !.primary = ref]
  <2>1. updateCanvas(r, <<"canvas.primary", c, base, ref>>, c, base, TRUE, after)
    BY <1>4 DEF set_primary_sequence, updateCanvas
  <2>2. CanvasStands(after)
    BY StoreParts, CanvasHeaderStands
  <2> HIDE DEF after
  <2> QED BY <2>1, <2>2, CanvasUpdated
<1> QED BY <1>1, <1>2, <1>3, <1>4 DEF CanvasCommand, OpenCanvases

-----------------------------------------------------------------------------
\* The edits on a Canvas, of a request and of a dispatch.
ToldWhatChanged ==
  \A c \in OpenCanvases, a \in answers' \ answers :
    a.author \in Dispatches /\ canvases[c] # canvases'[c] /\ a.input[1] # "restore_view" =>
      a.answer.told = Differences(canvases[c], canvases'[c])

\* Where an edit leaves a Canvas that stands and names what it changed, all stands and the tool is told.
LEMMA Edited ==
  ASSUME WorkspaceInv, NEW a \in Authors, MayRun(a), NEW input, NEW c \in DOMAIN canvases, NEW base, NEW after, NEW told,
         EditCanvas(a, input, c, base, TRUE, after, told), CanvasStands(after),
         \/ input[1] = "restore_view"
         \/ a \in Dispatches /\ after # canvases[c] => told = Differences(canvases[c], after)
  PROVE  WorkspaceInv' /\ ToldWhatChanged
<1>1. CASE a \in Requests
  <2>1. /\ canvases[c].revision = base /\ project # Absent
        /\ SameCanvas(a, input, c) \/ replaceCanvas(a, input, c, base, after, {})
        /\ UNCHANGED <<project, sequences, heads>>
    BY <1>1 DEF EditCanvas, applyCanvas, requireCurrentCanvas, requireExactCanvas, loadCanvasDocument, requireProject,
                projectFromRow
  <2>2. WorkspaceInv'
    BY <2>1, CanvasSame, CanvasReplaced
  <2>3. \A b \in answers' \ answers : b.author = a
    BY <2>1 DEF SameCanvas, replaceCanvas, Respond
  <2> QED BY <1>1, <2>2, <2>3, LedgerAssumption DEF ToldWhatChanged
<1>2. CASE a \in Dispatches
  <2>1. /\ canvases[c].revision = base /\ project # Absent /\ after # canvases[c]
        /\ replaceCanvas(a, input, c, base, after, told) /\ UNCHANGED <<project, sequences, heads>>
    BY <1>2, LedgerAssumption DEF EditCanvas, mutateCanvasTool, planCanvasMutationInTransaction,
         commitPlannedCanvasMutationInTransaction, requireCurrentCanvas, requireExactCanvas, loadCanvasDocument,
         requireProject, projectFromRow
  <2>2. WorkspaceInv'
    BY <2>1, CanvasReplaced
  <2> DEFINE next == [after EXCEPT !.revision = canvases[c].revision + 1]
  <2>3. /\ canvases' = [canvases EXCEPT ![c] = next]
        /\ answers' = answers \cup {[author |-> a, input |-> input, answer |-> [revision |-> next.revision, told |-> told]]}
    BY <2>1 DEF replaceCanvas, replaceCanvasRows, Respond
  <2>4. Differences(canvases[c], next) = Differences(canvases[c], after)
    <3>1. canvases[c].revision + 1 \in Nat
      BY StoreParts
    <3> QED BY <3>1, CanvasHeaderStands, SameDifferences
  <2> HIDE DEF next
  <2>5. KeyedBy(canvases, Canvases)
    BY StoreParts
  <2>6. ASSUME NEW d \in DOMAIN canvases, NEW b \in answers' \ answers, canvases[d] # canvases'[d],
               b.input[1] # "restore_view"
        PROVE  b.answer.told = Differences(canvases[d], canvases'[d])
    <3>1. b.input = input /\ b.answer.told = told
      BY <2>3, <2>6
    <3>2. d = c /\ canvases'[d] = next
      BY <2>3, <2>5, <2>6 DEF KeyedBy
    <3> QED BY <1>2, <2>1, <2>4, <2>6, <3>1, <3>2
  <2> QED BY <2>2, <2>6 DEF ToldWhatChanged, OpenCanvases
<1> QED BY <1>1, <1>2 DEF Authors

\* New ids are in no document.
LEMMA NewIds ==
  ASSUME NEW ids, NEW key, HasNewId(ids, key)
  PROVE  NewId(ids, key) \in ids /\ \A c \in DOMAIN canvases : NewId(ids, key) \notin DOMAIN canvases[c][key]
BY DEF HasNewId, NewId, Unused

LEMMA ChosenOnes ==
  ASSUME NEW a, NEW c \in DOMAIN canvases, NEW ids, NEW key, NEW id \in ChosenIds(a, c, ids, key), DOMAIN canvases[c][key] \subseteq ids
  PROVE  id \in ids
BY NewIds DEF ChosenIds

LEMMA CanvasEdited ==
  ASSUME WorkspaceInv, NEW a \in Authors, MayRun(a), CanvasEdit(a)
  PROVE  WorkspaceInv' /\ ToldWhatChanged
<1> DEFINE Goal == WorkspaceInv' /\ ToldWhatChanged
<1> USE DEF EditCanvas, applyCanvas, mutateCanvasTool, planCanvasMutationInTransaction,
            commitPlannedCanvasMutationInTransaction
<1>1. ASSUME NEW c \in DOMAIN canvases, NEW base, NEW t \in Scenes, NEW at,
             NEW z \in (IF a \in Requests THEN ZIndexes ELSE {Absent}), place(a, c, base, t, at, z)
      PROVE  Goal
  <2> DEFINE doc == canvases[c]
             p == NewId(Placements, "placements")
             after == Placed(doc, p, t, at, z)
             told == PlaceReceipts(after)
             input == <<"place", c, base, t, at, z>>
  <2>1. EditCanvas(a, input, c, base, TRUE, after, told) /\ HasNewId(Placements, "placements")
        /\ (a \in Dispatches => z = Absent)
    BY <1>1 DEF place
  <2>2. CanvasStands(doc) /\ heads \in [Objects -> Heads] /\ z \in Nat \cup {Absent}
    BY StoreParts, WorkspaceAssumption DEF WorkspaceInv
  <2>3. p \in Placements /\ p \notin DOMAIN doc.placements
    BY <2>1, NewIds
  <2> HIDE DEF p
  <2>4. CanvasStands(after) /\ (z = Absent => told = Differences(doc, after))
    BY <2>2, <2>3, PlacedStands
  <2> HIDE DEF after, told, input, EditCanvas
  <2> QED BY <2>1, <2>4, Edited
<1>2. ASSUME NEW c \in DOMAIN canvases, NEW base, NEW p \in DOMAIN canvases[c].placements, NEW value,
             move(a, c, base, p, value) \/ resize(a, c, base, p, value)
      PROVE  Goal
  <2> DEFINE doc == canvases[c]
             told == OneReceipt("placement", p)
             moved == Moved(doc, p, value)
             resized == Resized(doc, p, value)
             move_input == <<"move", c, base, p, value>>
             resize_input == <<"resize", c, base, p, value>>
  <2>1. \/ EditCanvas(a, move_input, c, base, TRUE, moved, told)
        \/ EditCanvas(a, resize_input, c, base, TRUE, resized, told)
    BY <1>2 DEF move, resize
  <2>2. CanvasStands(moved) /\ (moved # doc => told = Differences(doc, moved))
        /\ CanvasStands(resized) /\ (resized # doc => told = Differences(doc, resized))
    BY StoreParts, MovedAndResizedStand
  <2> HIDE DEF moved, resized, told, move_input, resize_input, EditCanvas
  <2> QED BY <2>1, <2>2, Edited
<1>3. ASSUME NEW c \in DOMAIN canvases, NEW base, NEW ps \in SUBSET DOMAIN canvases[c].placements, remove(a, c, base, ps)
      PROVE  Goal
  <2> DEFINE doc == canvases[c]
             after == Removed(doc, ps)
             told == RemoveReceipts(doc, ps)
             input == <<"remove", c, base, ps>>
  <2>1. EditCanvas(a, input, c, base, TRUE, after, told)
    BY <1>3 DEF remove
  <2>2. CanvasStands(after) /\ told = Differences(doc, after)
    BY StoreParts, PlacementsRemovedStand
  <2> HIDE DEF after, told, input, EditCanvas
  <2> QED BY <2>1, <2>2, Edited
<1>4. ASSUME NEW c \in DOMAIN canvases, NEW base, NEW g \in ChosenIds(a, c, Groups, "groups"),
             NEW ps \in SUBSET DOMAIN canvases[c].placements, group(a, c, base, g, ps)
      PROVE  Goal
  <2> DEFINE doc == canvases[c]
             after == Grouped(doc, g, ps)
             told == OneReceipt("group", g)
             input == <<"group", c, base, g, ps>>
  <2>1. EditCanvas(a, input, c, base, TRUE, after, told) /\ FreeToGroup(doc, g, ps)
    BY <1>4 DEF group
  <2>2. CanvasStands(doc) /\ DOMAIN doc.groups \subseteq Groups
    BY StoreParts, CanvasParts DEF GroupRows, Table, KeyedBy
  <2>3. g \in Groups
    BY <2>2, ChosenOnes
  <2>4. CanvasStands(after) /\ (after # doc => told = Differences(doc, after))
    BY <2>1, <2>2, <2>3, GroupedStands
  <2> HIDE DEF after, told, input, EditCanvas
  <2> QED BY <2>1, <2>4, Edited
<1>5. ASSUME NEW c \in DOMAIN canvases, NEW base, NEW g \in DOMAIN canvases[c].groups, ungroup(a, c, base, g)
      PROVE  Goal
  <2> DEFINE doc == canvases[c]
             after == Ungrouped(doc, g)
             told == OneReceipt("group", g)
             input == <<"ungroup", c, base, g>>
  <2>1. EditCanvas(a, input, c, base, TRUE, after, told)
    BY <1>5 DEF ungroup
  <2>2. CanvasStands(after) /\ told = Differences(doc, after)
    BY StoreParts, UngroupedStands
  <2> HIDE DEF after, told, input, EditCanvas
  <2> QED BY <2>1, <2>2, Edited
<1>6. ASSUME NEW c \in DOMAIN canvases, NEW base, NEW e \in ChosenIds(a, c, Edges, "edges"),
             NEW p \in DOMAIN canvases[c].placements, NEW q \in DOMAIN canvases[c].placements, connect(a, c, base, e, p, q)
      PROVE  Goal
  <2> DEFINE doc == canvases[c]
             after == Connected(doc, e, p, q)
             told == OneReceipt("edge", e)
             input == <<"connect", c, base, e, p, q>>
  <2>1. EditCanvas(a, input, c, base, TRUE, after, told) /\ p # q
    BY <1>6 DEF connect
  <2>2. CanvasStands(doc) /\ DOMAIN doc.edges \subseteq Edges
    BY StoreParts, CanvasParts DEF EdgeRows, Table, KeyedBy
  <2>3. e \in Edges
    BY <2>2, ChosenOnes
  <2>4. CanvasStands(after) /\ (after # doc => told = Differences(doc, after))
    BY <2>1, <2>2, <2>3, ConnectedStands
  <2> HIDE DEF after, told, input, EditCanvas
  <2> QED BY <2>1, <2>4, Edited
<1>7. ASSUME NEW c \in DOMAIN canvases, NEW base, NEW e \in DOMAIN canvases[c].edges, disconnect(a, c, base, e)
      PROVE  Goal
  <2> DEFINE doc == canvases[c]
             after == Disconnected(doc, e)
             told == OneReceipt("edge", e)
             input == <<"disconnect", c, base, e>>
  <2>1. EditCanvas(a, input, c, base, TRUE, after, told)
    BY <1>7 DEF disconnect
  <2>2. CanvasStands(after) /\ told = Differences(doc, after)
    BY StoreParts, DisconnectedStands
  <2> HIDE DEF after, told, input, EditCanvas
  <2> QED BY <2>1, <2>2, Edited
<1>8. ASSUME NEW c \in DOMAIN canvases, NEW base, NEW n \in ChosenIds(a, c, Notes, "notes"),
             NEW on \in DOMAIN canvases[c].placements \cup {Absent}, annotate(a, c, base, n, on, "first")
      PROVE  Goal
  <2> DEFINE doc == canvases[c]
             after == Annotated(doc, n, on, "first")
             told == OneReceipt("annotation", n)
             input == <<"annotate", c, base, n, on, "first">>
  <2>1. EditCanvas(a, input, c, base, TRUE, after, told)
    BY <1>8 DEF annotate
  <2>2. CanvasStands(doc) /\ DOMAIN doc.notes \subseteq Notes /\ "first" \in Texts
    BY StoreParts, CanvasParts DEF NoteRows, Table, KeyedBy, Texts, Names
  <2>3. n \in Notes
    BY <2>2, ChosenOnes
  <2>4. CanvasStands(after) /\ (after # doc => told = Differences(doc, after))
    BY <2>2, <2>3, AnnotatedStands
  <2> HIDE DEF after, told, input, EditCanvas
  <2> QED BY <2>1, <2>4, Edited
<1>9. ASSUME NEW c \in DOMAIN canvases, NEW base, NEW order, NEW layout, NEW gap, arrange(a, c, base, order, layout, gap)
      PROVE  Goal
  <2> DEFINE doc == canvases[c]
             after == Arranged(doc, order, layout, gap)
             told == ArrangeReceipts(doc, after)
             input == <<"arrange", c, base, order, layout, gap>>
  <2>1. EditCanvas(a, input, c, base, TRUE, after, told)
    BY <1>9 DEF arrange
  <2>2. CanvasStands(after) /\ told = Differences(doc, after)
    BY StoreParts, ArrangedStands
  <2> HIDE DEF after, told, input, EditCanvas
  <2> QED BY <2>1, <2>2, Edited
<1>10. ASSUME NEW c \in DOMAIN canvases, NEW base, NEW v \in ChosenIds(a, c, Views, "views") \cup DOMAIN canvases[c].views,
              NEW name \in Names, NEW viewport \in Viewports, save_view(a, c, base, v, name, viewport)
       PROVE  Goal
  <2> DEFINE doc == canvases[c]
             after == ViewSaved(doc, v, name, viewport)
             told == ViewReceipt(v)
             input == <<"save_view", c, base, v, name, viewport>>
  <2>1. /\ EditCanvas(a, input, c, base, TRUE, after, told)
        /\ \A w \in DOMAIN doc.views : w # v => doc.views[w].name # name
    BY <1>10 DEF save_view
  <2>2. CanvasStands(doc) /\ DOMAIN doc.views \subseteq Views
    BY StoreParts, CanvasParts DEF ViewRows, Table, KeyedBy
  <2>3. v \in Views
    BY <2>2, ChosenOnes
  <2>4. CanvasStands(after) /\ (after # doc => told = Differences(doc, after))
    BY <2>1, <2>2, <2>3, ViewSavedStands
  <2> HIDE DEF after, told, input, EditCanvas
  <2> QED BY <2>1, <2>4, Edited
<1>11. ASSUME NEW c \in DOMAIN canvases, NEW base, NEW v \in DOMAIN canvases[c].views, restore_view(a, c, base, v)
       PROVE  Goal
  <2> DEFINE after == ViewRestored(canvases[c], v)
             told == ViewReceipt(v)
             input == <<"restore_view", c, base, v>>
  <2>1. EditCanvas(a, input, c, base, TRUE, after, told) /\ input[1] = "restore_view"
    BY <1>11 DEF restore_view
  <2>2. CanvasStands(after)
    BY StoreParts, ViewRestoredStands
  <2> HIDE DEF after, told, input, EditCanvas
  <2> QED BY <2>1, <2>2, Edited
<1> HIDE DEF Goal, EditCanvas, applyCanvas, mutateCanvasTool
<1>12. Goal
  BY <1>1, <1>2, <1>3, <1>4, <1>5, <1>6, <1>7, <1>8, <1>9, <1>10, <1>11 DEF CanvasEdit, OpenCanvases
<1> QED BY <1>12 DEF Goal

\* A command answers its own request.
LEMMA AnswersOfSequences ==
  ASSUME NEW r, SequenceCommand(r)
  PROVE  \A b \in answers' \ answers : b.author = r
<1> USE DEF EditSequence, SameSequence, replaceSequence, Respond
<1>1. ASSUME NEW s, createSequence(r, s) PROVE \A b \in answers' \ answers : b.author = r
  BY <1>1 DEF createSequence
<1>2. ASSUME NEW s, NEW base, NEW value, renameSequence(r, s, base, value) \/ setSequenceLifecycle(r, s, base, value)
      PROVE  \A b \in answers' \ answers : b.author = r
  BY <1>2 DEF renameSequence, setSequenceLifecycle
<1>3. ASSUME NEW s, NEW base, NEW o, NEW n, NEW i, NEW id,
             append_scene(r, s, base, o, n, id) \/ append_shot(r, s, base, i, o, n, id) \/ append_clip(r, s, base, i, o, id)
      PROVE  \A b \in answers' \ answers : b.author = r
  BY <1>3 DEF append_scene, append_shot, append_clip
<1>4. ASSUME NEW s, NEW base, NEW i, NEW parent, NEW n,
             \/ update_clip(r, s, base, i, n) \/ moveItem(r, s, base, i, parent, n)
             \/ reorderItems(r, s, base, parent, n) \/ removeItem(r, s, base, i)
      PROVE  \A b \in answers' \ answers : b.author = r
  BY <1>4 DEF update_clip, moveItem, reorderItems, removeItem
<1> HIDE DEF EditSequence, SameSequence, replaceSequence, Respond
<1> QED BY <1>1, <1>2, <1>3, <1>4 DEF SequenceCommand

LEMMA AnswersOfCanvases ==
  ASSUME NEW r, CanvasCommand(r)
  PROVE  \A b \in answers' \ answers : b.author = r
<1> USE DEF updateCanvas, SameCanvas, replaceCanvas, Respond
<1>1. ASSUME NEW c, NEW ref, createCanvas(r, c, ref) PROVE \A b \in answers' \ answers : b.author = r
  BY <1>1 DEF createCanvas
<1>2. ASSUME NEW c, NEW base, NEW value,
             renameCanvas(r, c, base, value) \/ setCanvasLifecycle(r, c, base, value) \/ set_primary_sequence(r, c, base, value)
      PROVE  \A b \in answers' \ answers : b.author = r
  BY <1>2 DEF renameCanvas, setCanvasLifecycle, set_primary_sequence
<1> HIDE DEF updateCanvas, SameCanvas, replaceCanvas, Respond
<1> QED BY <1>1, <1>2 DEF CanvasCommand

-----------------------------------------------------------------------------
LEMMA InitWorkspace == Init => WorkspaceInv
<1> SUFFICES ASSUME Init PROVE WorkspaceInv
  OBVIOUS
<1>1. PICK seed \in Seeds :
        /\ project = seed.project /\ sequences = seed.sequences /\ canvases = seed.canvases /\ events = seed.events
        /\ receipts = <<>> /\ answers = {} /\ heads = [o \in Objects |-> [revision |-> 0, active |-> TRUE]]
  BY DEF Init
<1>2. SeedStands(seed)
  BY SeedsAssumption
<1>3. /\ Store.project = seed.project /\ Store.sequences = seed.sequences /\ Store.canvases = seed.canvases
      /\ Store.events = seed.events
  BY <1>1 DEF Store
<1>4. \A x \in SubjectNames : RevisionIn(Store, x) = RevisionIn(seed, x)
  BY <1>3, Revisions DEF SubjectNames
<1>5. StoryStands(Store)
  <2>1. /\ seed.events \in Seq(EventRows) /\ Continuous(seed.events)
        /\ \A i \in DOMAIN seed.events : Latest(seed.events, i) => seed.events[i].after = RevisionIn(seed, seed.events[i].subject)
    BY <1>2 DEF SeedStands, StoryStands
  <2>2. \A i \in DOMAIN seed.events : seed.events[i].subject \in SubjectNames
    <3>1. \A i \in DOMAIN seed.events : seed.events[i] \in EventRows
      BY <2>1
    <3> QED BY <3>1 DEF EventRows
  <2> QED BY <1>3, <1>4, <2>1, <2>2 DEF StoryStands
<1>6. SeedStands(Store)
  BY <1>2, <1>3, <1>5 DEF SeedStands
<1>7. heads \in [Objects -> Heads]
  BY <1>1 DEF Heads
<1>8. AnswersKept
  BY <1>1 DEF AnswersKept, KeyedBy
<1> QED BY <1>6, <1>7, <1>8 DEF WorkspaceInv

\* Every step keeps the invariant, and tells a tool what it changed.
LEMMA StepWorkspace ==
  ASSUME WorkspaceInv, [Next]_vars
  PROVE  WorkspaceInv' /\ (ToldWhatChanged \/ UNCHANGED vars)
<1>1. ASSUME NEW r \in Requests,
             \/ \E s \in SequenceIds, c \in Canvases : createProject(r, s, c)
             \/ project # Absent /\ MayRun(r) /\ (ProjectCommand(r) \/ SequenceCommand(r) \/ CanvasCommand(r))
      PROVE  WorkspaceInv' /\ ToldWhatChanged
  <2>1. WorkspaceInv'
    BY <1>1, ProjectCreated, ProjectUpdated, SequenceCommanded, CanvasCommanded
  <2>2. \A b \in answers' \ answers : b.author = r
    <3>1. CASE \E s \in SequenceIds, c \in Canvases : createProject(r, s, c)
      BY <3>1 DEF createProject, Respond
    <3>2. CASE ProjectCommand(r)
      BY <3>2 DEF ProjectCommand, updateProject, Respond
    <3>3. CASE SequenceCommand(r)
      BY <3>3, AnswersOfSequences
    <3>4. CASE CanvasCommand(r)
      BY <3>4, AnswersOfCanvases
    <3> QED BY <1>1, <3>1, <3>2, <3>3, <3>4
  <2> QED BY <2>1, <2>2, LedgerAssumption DEF ToldWhatChanged
<1>2. ASSUME NEW r \in Requests, MayRun(r), CanvasEdit(r) PROVE WorkspaceInv' /\ ToldWhatChanged
  BY <1>2, CanvasEdited DEF Authors
<1>3. ASSUME NEW d \in Dispatches, settleCanvasMutateBoundary(d) PROVE WorkspaceInv' /\ ToldWhatChanged
  BY <1>3, CanvasEdited DEF Authors, settleCanvasMutateBoundary
<1>4. ASSUME NEW r \in Requests, NEW input, Replay(r, input), UNCHANGED <<sequences, heads, canvases>>
      PROVE  WorkspaceInv' /\ ToldWhatChanged
  <2>1. AnswersKept'
    BY <1>4, Replayed DEF WorkspaceInv
  <2>2. WorkspaceInv'
    BY <1>4, <2>1, NothingWritten DEF Replay
  <2>3. \A b \in answers' \ answers : b.author = r
    BY <1>4 DEF Replay
  <2> QED BY <2>2, <2>3, LedgerAssumption DEF ToldWhatChanged
<1>5. ASSUME NEW o \in Restless, HeadMoves(o) PROVE WorkspaceInv' /\ ToldWhatChanged
  <2>1. UNCHANGED <<project, receipts, events, answers, sequences, canvases>>
    BY <1>5 DEF HeadMoves, ledger
  <2>2. heads' \in [Objects -> Heads]
    <3>1. PICK active \in BOOLEAN : heads' = [heads EXCEPT ![o] = [revision |-> heads[o].revision + 1, active |-> active]]
      BY <1>5 DEF HeadMoves
    <3>2. heads \in [Objects -> Heads] /\ heads[o].revision = 0
      BY <1>5 DEF HeadMoves, WorkspaceInv
    <3>3. [revision |-> heads[o].revision + 1, active |-> active] \in Heads
      BY <3>2 DEF Heads
    <3> QED BY <3>1, <3>2, <3>3
  <2>3. SeedStands(Store') /\ AnswersKept'
    BY <2>1 DEF WorkspaceInv, Store, AnswersKept
  <2> QED BY <2>1, <2>2, <2>3 DEF WorkspaceInv, ToldWhatChanged
<1>6. ASSUME UNCHANGED vars PROVE WorkspaceInv'
  BY <1>6 DEF vars, ledger, WorkspaceInv, Store, AnswersKept
<1>7. CASE Next
  BY <1>1, <1>2, <1>3, <1>4, <1>5, <1>7 DEF Next
<1> QED BY <1>6, <1>7

\* The store stands as a Project to start from does, whatever is asked of it, and a receipt is kept of every
\* answer: the inductive invariant of the Workspace.
THEOREM WorkspaceInvariant == Spec => []WorkspaceInv
<1> QED BY InitWorkspace, StepWorkspace, PTL DEF Spec

\* Neither document is ever one its own validator would refuse (finalizeCanvas, finalizeSequence), in whatever order
\* the user and the Commander place, move, group, connect, arrange, append, reorder and remove.
THEOREM DocumentsKeepTheirShape == Spec => []DocumentsWellFormed
<1>1. WorkspaceInv => DocumentsWellFormed
  <2> SUFFICES ASSUME WorkspaceInv PROVE DocumentsWellFormed
    OBVIOUS
  <2>1. CanvasesWellFormed
    BY StoreParts DEF CanvasesWellFormed, OpenCanvases, CanvasStands
  <2>2. SequencesWellFormed
    BY StoreParts DEF SequencesWellFormed, OpenSequences, SequenceStands
  <2> QED BY <2>1, <2>2 DEF DocumentsWellFormed
<1> QED BY <1>1, WorkspaceInvariant, PTL

\* The Project events tell the whole story of every object: each continues the one before it, was made by an author
\* who had read exactly the revision it replaced, and the last one has the revision of the row: no update is lost
\* (appendProjectEvent in the transaction that replaces the rows on the revision read).
THEOREM EventsTell == Spec => []EventsTellTheStory
<1>1. WorkspaceInv => EventsTellTheStory
  <2> SUFFICES ASSUME WorkspaceInv PROVE EventsTellTheStory
    OBVIOUS
  <2>1. SeedStands(Store)
    BY DEF WorkspaceInv
  <2>2. OpenSequences \cup OpenCanvases \subseteq SubjectsOf(events)
    BY <2>1, StoreParts DEF SeedStands, OpenSequences, OpenCanvases
  <2> QED BY <2>1, <2>2 DEF SeedStands, EventsTellTheStory
<1> QED BY <1>1, WorkspaceInvariant, PTL

\* A request that is sent again is given the answer of its first execution, to the input it was first sent with
\* (executeWireMutation on the receipt stored with the change).
THEOREM RequestsAnsweredAlike == Spec => []AnswersAgree
<1>1. WorkspaceInv => AnswersAgree
  <2> SUFFICES ASSUME WorkspaceInv, NEW a \in answers, NEW b \in answers, a.author = b.author, a.author \in Requests
               PROVE  a = b
    BY DEF AnswersAgree
  <2>1. /\ a = [author |-> a.author, input |-> receipts[a.author].input, answer |-> receipts[a.author].answer]
        /\ b = [author |-> b.author, input |-> receipts[b.author].input, answer |-> receipts[b.author].answer]
    BY DEF WorkspaceInv, AnswersKept
  <2> QED BY <2>1
<1> QED BY <1>1, WorkspaceInvariant, PTL

\* A canvas.mutate call is told exactly the objects it changed, also the ones that changed with the ones it named
\* (canvasToolMutationReceipts).
THEOREM ToolsAreTold == Spec => ToolsAreToldWhatChanged
<1>1. WorkspaceInv /\ [Next]_vars => [ToldWhatChanged]_vars
  BY StepWorkspace
<1> QED BY <1>1, WorkspaceInvariant, PTL DEF Spec, ToolsAreToldWhatChanged, ToldWhatChanged
==============================================================================
