------------------------- MODULE MediaLibraryProofs -------------------------
(* Proofs about the media library, for any number of assets, imports, pages  *)
(* and contents: what is recorded is backed by bytes, a request imports      *)
(* once, a preview shows the bytes it was granted for, and a list that is    *)
(* read page by page shows what stood still, and nothing twice.              *)
EXTENDS MediaLibrary, TLAPS, FiniteSetTheorems, WellFoundedInduction

-----------------------------------------------------------------------------
(* The inductive invariant                                                   *)

CapRecords == [hash : Contents, facts : Contents, live : BOOLEAN]
AssetRecords == [blob : Contents, request : Requests \cup {"none"}, created : Nat]
RefRecords == [state : {"none", "active", "detached"}, revision : Nat, updated : Nat]
CallRecords == [pc : {"writing", "linking", "verifying", "committing"}, part : Contents \cup {"none"}, request : Requests,
                hash : Contents, facts : Contents]
Grants == [asset : Assets, revision : Nat]
Readers == [pc : {"opening", "streaming"}, hash : Contents, of : Grants]

\* An object holds the content it is named after, unless something outside changed it.
DiskOK ==
  /\ file \in Contents /\ picking \in Contents \cup {NotPicking}
  /\ caps \in [Tokens -> CapRecords \cup {NoCap}]
  /\ objects \in [Contents -> Contents \cup {"absent", "damaged"}]
  /\ faults \in [edits : Nat, objects : Nat, crashes : Nat]
  /\ \A c \in Contents : objects[c] \in {"absent", c} \/ (objects[c] = "damaged" /\ faults.objects > 0)

\* Rows are dated, and back one another.
RowsOK ==
  /\ clock \in Nat
  /\ blobs \in [Contents -> Contents \cup {"none"}]
  /\ assets \in [Assets -> AssetRecords \cup {NoAsset, Removed}]
  /\ refs \in [Assets -> RefRecords]
  /\ results \subseteq Assets
  /\ \A a \in Assets : refs[a].updated <= clock
  /\ \A a \in Assets : refs[a] # NoRef \/ a \in results => Stored(a)
  /\ \A a \in Assets : Stored(a) => blobs[assets[a].blob] # "none"
  /\ \A c \in Contents : blobs[c] # "none" => objects[c] # "absent"

\* An import that comes to its transaction has put its bytes where they belong.
CallsOK ==
  /\ calls \in [Calls -> CallRecords \cup {Idle}]
  /\ \A c \in Calls : calls[c].pc = "linking" => calls[c].part = calls[c].hash
  /\ \A c \in Calls : calls[c].pc \in {"verifying", "committing"} => objects[calls[c].hash] # "absent"

\* The asset of a request is the one its receipt names.
OnceOK ==
  /\ receipts \in [Requests -> Assets \cup {0}]
  /\ \A a \in Assets : Stored(a) /\ assets[a].request \in Requests => receipts[assets[a].request] = a

\* What a reader reads is what its grant was given for: the asset is referenced, and cannot be removed.
PreviewsOK ==
  /\ grants \in Seq(Grants)
  /\ reader \in Readers \cup {NoReader}
  /\ reader # NoReader => refs[reader.of.asset] # NoRef /\ assets[reader.of.asset].blob = reader.hash

\* A list shows rows in the order of their keys, and the cursor divides what was shown from what is to come.
Key(list, a) == IF list = "global" THEN <<assets[a].created, a>> ELSE <<refs[a].updated, a>>
Showing(list, a) == IF list = "global" THEN Stored(a) ELSE refs[a].state = "active"
Shown == UNION {walk.pages[i] : i \in DOMAIN walk.pages}
Past(list, a) == (list = "global" => Stored(a)) => ~After(Key(list, a), walk.after)

WalkOK ==
  /\ walk \in [list : {"none", "global", "project", "read"}, after : {<<>>} \cup (Nat \X Assets),
               pages : Seq(SUBSET Assets), stood : SUBSET Assets]
  /\ \A i, j \in DOMAIN walk.pages : i < j => walk.pages[i] \cap walk.pages[j] = {}
  /\ walk.list = "read" => walk.stood \subseteq Shown
  /\ walk.list \in {"global", "project"} =>
       /\ walk.after = <<>> => walk.pages = <<>>
       /\ \A a \in Shown : assets[a] # NoAsset /\ Past(walk.list, a)
       /\ \A a \in walk.stood : Showing(walk.list, a) /\ (a \in Shown \/ After(Key(walk.list, a), walk.after))

LibraryInv == DiskOK /\ RowsOK /\ CallsOK /\ OnceOK /\ PreviewsOK /\ WalkOK

-----------------------------------------------------------------------------
(* Lemmas about finite sets of keys: the first, the last, and one page       *)

\* Every non-empty set of numbers has a least one.
LEMMA LeastOfNaturals ==
  ASSUME NEW S, S # {}, S \subseteq Nat
  PROVE  \E x \in S : \A y \in S : ~(y < x)
<1>1. IsWellFoundedOn(OpToRel(<, Nat), Nat)
  BY NatLessThanWellFounded
<1>2. \E x \in S : \A y \in S : ~(<<y, x>> \in OpToRel(<, Nat))
  BY <1>1, WFMin
<1> QED BY <1>2 DEF OpToRel

Keys == Nat \X Nat

\* The order of a list is a strict and total order of its keys.
LEMMA PrecedesIsAnOrder ==
  /\ \A k \in Keys : ~Precedes(k, k)
  /\ \A k, l \in Keys : k = l \/ Precedes(k, l) \/ Precedes(l, k)
  /\ \A k, l \in Keys : ~(Precedes(k, l) /\ Precedes(l, k))
  /\ \A k, l, m \in Keys : Precedes(k, l) /\ Precedes(l, m) => Precedes(k, m)
BY DEF Precedes, Keys

\* The part of a finite set that stands before a member of it shrinks as the member moves forward.
LEMMA RankIsMonotone ==
  ASSUME NEW S \in SUBSET Keys, IsFiniteSet(S), NEW k \in S, NEW l \in S, Precedes(k, l)
  PROVE  LET before(x) == {m \in S : Precedes(m, x)}
         IN  /\ Cardinality(before(k)) \in Nat /\ Cardinality(before(l)) \in Nat
             /\ Cardinality(before(k)) < Cardinality(before(l))
<1> DEFINE before(x) == {m \in S : Precedes(m, x)}
<1>1. IsFiniteSet(before(k)) /\ IsFiniteSet(before(l))
  BY FS_Subset
<1>2. Cardinality(before(k)) \in Nat /\ Cardinality(before(l)) \in Nat
  BY <1>1, FS_CardinalityType
<1>3. before(k) \subseteq before(l) /\ k \in before(l) /\ k \notin before(k)
  BY PrecedesIsAnOrder
<1>4. Cardinality(before(k)) <= Cardinality(before(l))
  BY <1>1, <1>3, FS_Subset
<1>5. Cardinality(before(k)) # Cardinality(before(l))
  BY <1>1, <1>3, FS_Subset
<1> QED BY <1>2, <1>4, <1>5

\* A finite set that is not empty has a first key.
LEMMA FirstKey ==
  ASSUME NEW S \in SUBSET Keys, IsFiniteSet(S), S # {}
  PROVE  \E k \in S : \A l \in S : ~Precedes(l, k)
<1> DEFINE before(x) == {m \in S : Precedes(m, x)}
           Ranks == {n \in Nat : \E k \in S : n = Cardinality(before(k))}
<1>1. \A k \in S : Cardinality(before(k)) \in Ranks
  BY FS_Subset, FS_CardinalityType
<1>2. PICK n \in Ranks : \A m \in Ranks : ~(m < n)
  <2>1. Ranks # {} /\ Ranks \subseteq Nat
    BY <1>1
  <2> HIDE DEF Ranks
  <2> QED BY <2>1, LeastOfNaturals
<1>3. PICK k \in S : n = Cardinality(before(k))
  OBVIOUS
<1>4. ASSUME NEW l \in S, Precedes(l, k)
      PROVE  FALSE
  <2>1. Cardinality(before(l)) < Cardinality(before(k))
    BY <1>4, RankIsMonotone
  <2> HIDE DEF Ranks, before
  <2> QED BY <2>1, <1>1, <1>2, <1>3
<1> QED BY <1>4

\* The mirror image: what stands after a member shrinks as the member moves back.
LEMMA LastKey ==
  ASSUME NEW S \in SUBSET Keys, IsFiniteSet(S), S # {}
  PROVE  \E k \in S : \A l \in S : l = k \/ Precedes(l, k)
<1> DEFINE behind(x) == {m \in S : Precedes(x, m)}
           Ranks == {n \in Nat : \E k \in S : n = Cardinality(behind(k))}
<1>1. \A k \in S : IsFiniteSet(behind(k)) /\ Cardinality(behind(k)) \in Nat
  BY FS_Subset, FS_CardinalityType
<1>2. PICK n \in Ranks : \A m \in Ranks : ~(m < n)
  <2>1. Ranks # {} /\ Ranks \subseteq Nat
    BY <1>1
  <2> HIDE DEF Ranks
  <2> QED BY <2>1, LeastOfNaturals
<1>3. PICK k \in S : n = Cardinality(behind(k))
  OBVIOUS
<1>4. ASSUME NEW l \in S, Precedes(k, l)
      PROVE  FALSE
  <2>1. behind(l) \subseteq behind(k) /\ l \in behind(k) /\ l \notin behind(l)
    BY <1>4, PrecedesIsAnOrder
  <2>2. Cardinality(behind(l)) <= Cardinality(behind(k)) /\ Cardinality(behind(l)) # Cardinality(behind(k))
    BY <1>1, <2>1, FS_Subset
  <2>3. Cardinality(behind(l)) \in Ranks
    BY <1>1
  <2> HIDE DEF Ranks, behind
  <2> QED BY <2>2, <2>3, <1>1, <1>2, <1>3
<1> QED BY <1>4, PrecedesIsAnOrder

\* A page of what is left: not empty unless nothing is left, in front of everything it leaves, with a last key.
LEMMA PageDivides ==
  ASSUME NEW rest \in SUBSET Keys, IsFiniteSet(rest)
  PROVE  /\ Page(rest) \subseteq rest
         /\ \A k \in Page(rest), l \in rest \ Page(rest) : Precedes(k, l)
         /\ rest # {} => /\ LastOf(Page(rest)) \in Page(rest)
                         /\ \A k \in Page(rest) : k = LastOf(Page(rest)) \/ Precedes(k, LastOf(Page(rest)))
<1>1. Page(rest) \subseteq rest
  BY DEF Page
<1>2. ASSUME NEW k \in Page(rest), NEW l \in rest \ Page(rest), ~Precedes(k, l)
      PROVE  FALSE
  <2>1. Precedes(l, k)
    BY <1>1, <1>2, PrecedesIsAnOrder
  <2>2. /\ Cardinality({m \in rest : Precedes(m, l)}) \in Nat /\ Cardinality({m \in rest : Precedes(m, k)}) \in Nat
        /\ Cardinality({m \in rest : Precedes(m, l)}) < Cardinality({m \in rest : Precedes(m, k)})
    BY <1>1, <2>1, RankIsMonotone
  <2>3. Cardinality({m \in rest : Precedes(m, k)}) < PageSize
    BY DEF Page
  <2>4. PageSize \in Nat
    BY MediaLibraryAssumption
  <2>5. ~(Cardinality({m \in rest : Precedes(m, l)}) < PageSize)
    BY DEF Page
  <2> QED BY <2>2, <2>3, <2>4, <2>5
<1>3. ASSUME rest # {}
      PROVE  Page(rest) # {}
  <2>1. PICK k \in rest : \A l \in rest : ~Precedes(l, k)
    BY <1>3, FirstKey
  <2>2. {m \in rest : Precedes(m, k)} = {}
    BY <2>1
  <2>3. Cardinality({m \in rest : Precedes(m, k)}) = 0
    BY <2>2, FS_EmptySet
  <2>4. 0 < PageSize
    BY MediaLibraryAssumption
  <2> QED BY <2>3, <2>4 DEF Page
<1>4. ASSUME rest # {}
      PROVE  \E k \in Page(rest) : \A l \in Page(rest) : l = k \/ Precedes(l, k)
  <2>1. IsFiniteSet(Page(rest))
    BY <1>1, FS_Subset
  <2> QED BY <1>1, <1>3, <1>4, <2>1, LastKey
<1> QED BY <1>1, <1>2, <1>4 DEF LastOf

-----------------------------------------------------------------------------
(* What the invariant says of a row, a call and a list                       *)

\* A stored asset is a full record; NoAsset and Removed are none.
LEMMA StoredIsARecord ==
  ASSUME RowsOK, NEW a \in Assets
  PROVE  /\ Stored(a) <=> assets[a] \in AssetRecords
         /\ Stored(a) => assets[a].blob \in Contents /\ assets[a].created \in Nat
         /\ assets[a] = NoAsset => refs[a] = NoRef /\ a \notin results
<1>1. assets[a] \in AssetRecords \cup {NoAsset, Removed}
  BY DEF RowsOK
<1>2. \A x \in AssetRecords : x # NoAsset /\ x # Removed
  BY MediaStoreAssumption DEF AssetRecords, NoAsset, Removed
<1>3. Stored(a) <=> assets[a] \in AssetRecords
  BY <1>1, <1>2 DEF Stored
<1>4. assets[a] = NoAsset => refs[a] = NoRef /\ a \notin results
  BY DEF RowsOK, Stored
<1> QED BY <1>3, <1>4 DEF AssetRecords

\* The rows of a list are finitely many keys, one for every asset the list shows.
LEMMA RowsAreKeys ==
  ASSUME RowsOK, NEW list \in {"global", "project"}
  PROVE  /\ Rows(list) \subseteq Keys /\ IsFiniteSet(Rows(list))
         /\ \A a \in Assets : Showing(list, a) => Key(list, a) \in Rows(list) /\ Key(list, a)[2] = a
         /\ \A k \in Rows(list) : k[2] \in Assets /\ Showing(list, k[2]) /\ k = Key(list, k[2])
<1> DEFINE shown == {a \in Assets : Showing(list, a)}
           f == [a \in shown |-> Key(list, a)]
<1>1. Rows(list) = {Key(list, a) : a \in shown}
  <2>1. CASE list = "global"
    BY <2>1 DEF Rows, Showing, Key
  <2>2. CASE list = "project"
    BY <2>2 DEF Rows, Showing, Key
  <2> QED BY <2>1, <2>2
<1>2. \A a \in shown : Key(list, a) \in Keys /\ Key(list, a)[2] = a
  <2>1. SUFFICES ASSUME NEW a \in shown
                 PROVE  Key(list, a) \in Keys /\ Key(list, a)[2] = a
    OBVIOUS
  <2>2. a \in Nat /\ refs[a].updated \in Nat
    BY MediaLibraryAssumption DEF RowsOK, RefRecords
  <2>3. list = "global" => assets[a].created \in Nat
    BY StoredIsARecord DEF Showing
  <2> QED BY <2>2, <2>3 DEF Key, Keys
<1>3. IsFiniteSet(shown)
  BY MediaLibraryAssumption, FS_Subset
<1>4. f \in Surjection(shown, Rows(list))
  <2>1. f \in [shown -> Rows(list)]
    BY <1>1
  <2>2. \A k \in Rows(list) : \E a \in shown : f[a] = k
    BY <1>1
  <2> QED BY <2>1, <2>2 DEF Surjection
<1>5. IsFiniteSet(Rows(list))
  <2> HIDE DEF f, shown
  <2> QED BY <1>3, <1>4, FS_Surjection
<1> HIDE DEF f
<1> QED BY <1>1, <1>2, <1>5

\* The row of an asset as it was, or revised or removed now.
StoodStill(a) == assets'[a] = assets[a] /\ refs'[a] = refs[a]
MovedOn(a) == assets'[a] \in {assets[a], Removed} /\ (refs'[a] = refs[a] \/ refs'[a].updated = clock')

\* Assets no longer stand still for the list that is being read.
Unsettles(moved) == walk' = [walk EXCEPT !.stood = @ \ moved]

\* What a list has shown and what stood still do not depend on rows that change elsewhere: a row is as it was, is new,
\* or has moved and stands no longer.
LEMMA RowsMoveUnderAWalk ==
  ASSUME RowsOK, RowsOK', WalkOK, clock <= clock', NEW moved, moved \subseteq Assets,
         Unsettles(moved),
         \A a \in Assets \ moved : StoodStill(a) \/ assets[a] = NoAsset, \A a \in moved : MovedOn(a)
  PROVE  WalkOK'
<1> DEFINE W == [list : {"none", "global", "project", "read"}, after : {<<>>} \cup (Nat \X Assets),
                 pages : Seq(SUBSET Assets), stood : SUBSET Assets]
<1>1. walk \in W
  BY DEF WalkOK
<1>2. walk' \in W /\ walk'.list = walk.list /\ walk'.after = walk.after /\ walk'.pages = walk.pages
      /\ walk'.stood = walk.stood \ moved
  BY <1>1 DEF Unsettles
<1>3. Shown' = Shown
  BY <1>2 DEF Shown
<1>4. Shown \subseteq Assets
  BY <1>1 DEF Shown
<1>5. ASSUME walk.list \in {"global", "project"}, NEW a \in Shown
      PROVE  assets'[a] # NoAsset /\ Past(walk.list, a)'
  <2>1. a \in Assets /\ assets[a] # NoAsset /\ Past(walk.list, a)
    BY <1>4, <1>5 DEF WalkOK
  <2>2. CASE StoodStill(a)
    BY <2>1, <2>2, <1>2 DEF Past, After, Key, Stored, StoodStill
  <2>3. CASE a \in moved
    <3>1. assets'[a] # NoAsset
      BY <2>1, <2>3 DEF NoAsset, Removed, MovedOn
    <3>2. CASE walk.list = "global"
      <4>1. ~Stored(a)' \/ assets'[a] = assets[a]
        BY <2>3 DEF Stored, MovedOn
      <4> QED BY <2>1, <3>1, <3>2, <4>1, <1>2 DEF Past, After, Key, Stored
    <3>3. CASE walk.list = "project"
      <4>1. /\ refs[a].updated \in Nat /\ refs'[a].updated \in Nat /\ clock \in Nat /\ clock' \in Nat
            /\ refs[a].updated <= clock
        BY <2>1 DEF RowsOK, RefRecords
      <4>2. refs[a].updated <= refs'[a].updated
        BY <2>3, <4>1 DEF MovedOn
      <4>3. walk.after # <<>> /\ ~Precedes(walk.after, <<refs[a].updated, a>>)
        BY <2>1, <3>3 DEF Past, After, Key
      <4>4. walk.after \in Nat \X Assets /\ a \in Nat /\ walk.after[1] \in Nat /\ walk.after[2] \in Nat
        BY <1>1, <2>1, <4>3, MediaLibraryAssumption
      <4>5. ~Precedes(walk.after, <<refs'[a].updated, a>>)
        BY <4>1, <4>2, <4>3, <4>4 DEF Precedes
      <4> QED BY <3>1, <3>3, <4>3, <4>5, <1>2 DEF Past, After, Key
    <3> QED BY <3>2, <3>3, <1>5
  <2> QED BY <2>1, <2>2, <2>3
<1>6. ASSUME walk.list \in {"global", "project"}, NEW a \in walk'.stood
      PROVE  Showing(walk.list, a)' /\ (a \in Shown' \/ After(Key(walk.list, a)', walk'.after))
  <2>1. a \in Assets \ moved /\ a \in walk.stood
    BY <1>1, <1>2, <1>6
  <2>2. Showing(walk.list, a) /\ (a \in Shown \/ After(Key(walk.list, a), walk.after))
    BY <2>1, <1>6 DEF WalkOK
  <2>3. assets[a] # NoAsset
    <3>1. assets[a] = NoAsset => refs[a] = NoRef /\ ~Stored(a)
      BY <2>1, StoredIsARecord DEF Stored
    <3> QED BY <2>2, <3>1 DEF Showing, NoRef
  <2>4. assets'[a] = assets[a] /\ refs'[a] = refs[a]
    BY <2>1, <2>3 DEF StoodStill
  <2> QED BY <2>2, <2>4, <1>2, <1>3 DEF Showing, Key, Stored
<1>7. \A i, j \in DOMAIN walk'.pages : i < j => walk'.pages[i] \cap walk'.pages[j] = {}
  BY <1>2 DEF WalkOK
<1>8. walk'.list = "read" => walk'.stood \subseteq Shown'
  BY <1>2, <1>3 DEF WalkOK
<1>9. walk'.list \in {"global", "project"} /\ walk'.after = <<>> => walk'.pages = <<>>
  BY <1>2 DEF WalkOK
<1>10. ASSUME walk'.list \in {"global", "project"}
       PROVE  /\ \A a \in Shown' : assets'[a] # NoAsset /\ Past(walk.list, a)'
              /\ \A a \in walk'.stood : Showing(walk.list, a)' /\ (a \in Shown' \/ After(Key(walk.list, a)', walk'.after))
  BY <1>2, <1>3, <1>5, <1>6, <1>10
<1> HIDE DEF W
<1>11. (walk \in W)'
  BY <1>2 DEF W
<1> QED BY <1>7, <1>8, <1>9, <1>10, <1>11 DEF WalkOK, W

-----------------------------------------------------------------------------
(* The disk                                                                  *)

ObjectsStay == \A c \in Contents : objects[c] # "absent" => objects'[c] # "absent"

\* Nothing that happens to the files makes an object disappear, or puts wrong bytes under its name unnoticed.
LEMMA DiskKeeps ==
  ASSUME DiskOK, Disk \/ DiskCrash
  PROVE  DiskOK' /\ ObjectsStay
<1>1. CASE EditFile
  BY <1>1 DEF DiskOK, EditFile, ObjectsStay
<1>2. CASE DamageObject
  <2>1. PICK c \in Contents : objects[c] \in Contents /\ objects' = [objects EXCEPT ![c] = "damaged"]
    BY <1>2 DEF DamageObject
  <2>2. UNCHANGED <<file, picking, caps>>
    BY <1>2 DEF DamageObject
  <2>3. faults' \in [edits : Nat, objects : Nat, crashes : Nat] /\ faults'.objects > 0
    BY <1>2 DEF DiskOK, DamageObject
  <2>4. objects' \in [Contents -> Contents \cup {"absent", "damaged"}]
    BY <2>1 DEF DiskOK
  <2>5. \A d \in Contents : objects'[d] \in {"absent", d} \/ (objects'[d] = "damaged" /\ faults'.objects > 0)
    BY <2>1, <2>3 DEF DiskOK
  <2>6. ObjectsStay
    BY <2>1 DEF DiskOK, ObjectsStay
  <2> QED BY <2>2, <2>3, <2>4, <2>5, <2>6 DEF DiskOK
<1>3. CASE technicalFacts
  BY <1>3 DEF DiskOK, technicalFacts, ObjectsStay
<1>4. CASE digestFile
  <2>1. PICK t \in Tokens : caps' = [caps EXCEPT ![t] = [hash |-> file, facts |-> picking, live |-> TRUE]]
    BY <1>4 DEF digestFile
  <2>2. [hash |-> file, facts |-> picking, live |-> TRUE] \in CapRecords
    BY <1>4 DEF digestFile, DiskOK, CapRecords
  <2>3. caps' \in [Tokens -> CapRecords \cup {NoCap}]
    BY <2>1, <2>2 DEF DiskOK
  <2> QED BY <1>4, <2>3 DEF DiskOK, digestFile, ObjectsStay
<1>5. CASE ExpireCapability
  <2>1. PICK t \in Tokens : Usable(t) /\ caps' = [caps EXCEPT ![t].live = FALSE]
    BY <1>5 DEF ExpireCapability
  <2>2. caps[t] \in CapRecords
    BY <2>1 DEF DiskOK, Usable
  <2>3. [caps[t] EXCEPT !.live = FALSE] \in CapRecords
    BY <2>2 DEF CapRecords
  <2>4. caps' = [caps EXCEPT ![t] = [caps[t] EXCEPT !.live = FALSE]]
    BY <2>1
  <2>5. caps' \in [Tokens -> CapRecords \cup {NoCap}]
    BY <2>3, <2>4 DEF DiskOK
  <2> QED BY <1>5, <2>5 DEF DiskOK, ExpireCapability, ObjectsStay
<1>6. CASE DiskCrash
  <2>1. \A t \in Tokens : caps[t] # NoCap => [caps[t] EXCEPT !.live = FALSE] \in CapRecords
    BY DEF DiskOK, CapRecords
  <2>2. caps' \in [Tokens -> CapRecords \cup {NoCap}]
    BY <1>6, <2>1 DEF DiskCrash
  <2>3. faults' \in [edits : Nat, objects : Nat, crashes : Nat] /\ faults'.objects = faults.objects
    BY <1>6 DEF DiskCrash, DiskOK
  <2>4. UNCHANGED <<file, objects>> /\ picking' \in Contents \cup {NotPicking}
    BY <1>6 DEF DiskCrash
  <2> QED BY <2>2, <2>3, <2>4 DEF DiskOK, ObjectsStay
<1> QED BY <1>1, <1>2, <1>3, <1>4, <1>5, <1>6 DEF Disk

\* Rows that do not change are backed by what stays.
LEMMA RowsStay == ASSUME RowsOK, ObjectsStay, UNCHANGED <<rows, clock>> PROVE RowsOK'
BY DEF RowsOK, ObjectsStay, rows, Stored

LEMMA OnceStays == ASSUME OnceOK, UNCHANGED <<assets, receipts>> PROVE OnceOK'
BY DEF OnceOK, Stored

LEMMA PreviewsStay == ASSUME PreviewsOK, UNCHANGED <<assets, refs, previews>> PROVE PreviewsOK'
BY DEF PreviewsOK, previews

LEMMA WalkStays == ASSUME WalkOK, UNCHANGED <<assets, refs, walk>> PROVE WalkOK'
BY DEF WalkOK, Past, After, Key, Showing, Shown, Stored

LEMMA CallsStay == ASSUME CallsOK, ObjectsStay, calls' = calls PROVE CallsOK'
<1>1. \A c \in Calls : calls[c].pc \in {"verifying", "committing"} => calls[c].hash \in Contents
  <2>1. SUFFICES ASSUME NEW c \in Calls, calls[c].pc \in {"verifying", "committing"}
                 PROVE  calls[c].hash \in Contents
    OBVIOUS
  <2>2. calls[c] \in CallRecords \cup {Idle} /\ Idle.pc = "idle"
    BY DEF CallsOK, Idle
  <2> QED BY <2>1, <2>2 DEF CallRecords
<1> QED BY <1>1 DEF CallsOK, ObjectsStay

\* Files change, and nothing else does.
LEMMA DiskStep ==
  ASSUME LibraryInv, Disk, UNCHANGED <<rows, imports, previews, walk, clock>>
  PROVE  LibraryInv'
<1>1. DiskOK' /\ ObjectsStay
  BY DiskKeeps DEF LibraryInv
<1>2. UNCHANGED <<rows, clock>> /\ UNCHANGED <<assets, receipts>> /\ UNCHANGED <<assets, refs, previews>>
      /\ UNCHANGED <<assets, refs, walk>> /\ calls' = calls
  BY DEF rows, imports
<1> QED BY <1>1, <1>2, RowsStay, OnceStays, PreviewsStay, WalkStays, CallsStay DEF LibraryInv

\* The end of the process takes imports, previews and lists with it.
LEMMA CrashStep ==
  ASSUME LibraryInv, Crash
  PROVE  LibraryInv'
<1>1. DiskOK' /\ ObjectsStay
  BY DiskKeeps DEF LibraryInv, Crash
<1>2. RowsOK'
  BY <1>1, RowsStay DEF LibraryInv, Crash
<1>3. OnceOK'
  BY OnceStays DEF LibraryInv, Crash, rows
<1>4. CallsOK'
  BY DEF Crash, CallsOK, Idle
<1>5. PreviewsOK'
  BY DEF Crash, PreviewsOK
<1>6. WalkOK'
  <2>1. walk' = NoWalk
    BY DEF Crash
  <2>2. NoWalk \in [list : {"none", "global", "project", "read"}, after : {<<>>} \cup (Nat \X Assets),
                    pages : Seq(SUBSET Assets), stood : SUBSET Assets]
    BY DEF NoWalk
  <2>3. NoWalk.list = "none" /\ NoWalk.pages = <<>>
    BY DEF NoWalk
  <2> QED BY <2>1, <2>2, <2>3 DEF WalkOK
<1> QED BY <1>1, <1>2, <1>3, <1>4, <1>5, <1>6 DEF LibraryInv

-----------------------------------------------------------------------------
(* Imports                                                                   *)

\* One import moves to where its bytes allow it to be.
LEMMA CallMoves ==
  ASSUME CallsOK, ObjectsStay, NEW c \in Calls, NEW k \in CallRecords \cup {Idle},
         calls' = [calls EXCEPT ![c] = k],
         k.pc = "linking" => k.part = k.hash,
         k.pc \in {"verifying", "committing"} => objects'[k.hash] # "absent"
  PROVE  CallsOK'
<1>1. calls' \in [Calls -> CallRecords \cup {Idle}]
  BY DEF CallsOK
<1>2. ASSUME NEW d \in Calls
      PROVE  /\ calls'[d].pc = "linking" => calls'[d].part = calls'[d].hash
             /\ calls'[d].pc \in {"verifying", "committing"} => objects'[calls'[d].hash] # "absent"
  <2>1. CASE d = c
    BY <2>1 DEF CallsOK
  <2>2. CASE d # c
    <3>1. calls'[d] = calls[d] /\ calls[d] \in CallRecords \cup {Idle} /\ Idle.pc = "idle"
      BY <2>2 DEF CallsOK, Idle
    <3>2. calls[d].pc \in {"verifying", "committing"} => calls[d].hash \in Contents
      BY <3>1 DEF CallRecords
    <3> QED BY <3>1, <3>2 DEF CallsOK, ObjectsStay
  <2> QED BY <2>1, <2>2
<1> QED BY <1>1, <1>2 DEF CallsOK

\* An import that has left its first await is a full record.
LEMMA CallIsARecord ==
  ASSUME CallsOK, NEW c \in Calls, NEW pc \in {"writing", "linking", "verifying", "committing"}, calls[c].pc = pc
  PROVE  calls[c] \in CallRecords
BY DEF CallsOK, Idle

\* Moves of one import that leave every file and row as they are.
LEMMA ImportMoves ==
  ASSUME LibraryInv, CallsOK', UNCHANGED <<disk, rows, receipts, previews, walk, clock>>
  PROVE  LibraryInv'
<1>1. DiskOK' /\ ObjectsStay
  BY DEF LibraryInv, DiskOK, ObjectsStay, disk
<1>2. UNCHANGED <<rows, clock>> /\ UNCHANGED <<assets, receipts>> /\ UNCHANGED <<assets, refs, previews>>
      /\ UNCHANGED <<assets, refs, walk>>
  BY DEF rows
<1> QED BY <1>1, <1>2, RowsStay, OnceStays, PreviewsStay, WalkStays DEF LibraryInv

LEMMA ImportGlobalStep ==
  ASSUME LibraryInv, NEW c \in Calls, NEW r \in Requests, importGlobal(c, r)
  PROVE  LibraryInv'
<1>1. PICK t \in Tokens :
        /\ Usable(t)
        /\ calls' = [calls EXCEPT ![c] = [pc |-> "writing", part |-> "none", request |-> r, hash |-> caps[t].hash,
                                          facts |-> caps[t].facts]]
  BY DEF importGlobal
<1>2. caps[t] \in CapRecords
  BY <1>1 DEF LibraryInv, DiskOK, Usable
<1> DEFINE k == [pc |-> "writing", part |-> "none", request |-> r, hash |-> caps[t].hash, facts |-> caps[t].facts]
<1>3. k \in CallRecords /\ k.pc = "writing"
  BY <1>2 DEF CallRecords, CapRecords
<1>4. UNCHANGED <<disk, rows, receipts, previews, walk, clock>>
  BY DEF importGlobal, unchangedByImports, rows
<1>5. ObjectsStay
  BY <1>4 DEF disk, ObjectsStay
<1>6. calls' = [calls EXCEPT ![c] = k]
  BY <1>1
<1> HIDE DEF k
<1>7. CallsOK'
  BY <1>3, <1>5, <1>6, CallMoves DEF LibraryInv
<1> QED BY <1>4, <1>7, ImportMoves

LEMMA WritePartStep ==
  ASSUME LibraryInv, NEW c \in Calls, WritePart(c)
  PROVE  LibraryInv'
<1>1. calls[c] \in CallRecords
  BY CallIsARecord DEF LibraryInv, WritePart
<1>2. UNCHANGED <<disk, rows, receipts, previews, walk, clock>> /\ ObjectsStay
  BY DEF WritePart, unchangedByImports, rows, disk, ObjectsStay
<1>3. CASE calls[c].hash = file
  <2> DEFINE k == [calls[c] EXCEPT !.pc = "linking", !.part = file]
  <2>1. file \in Contents
    BY DEF LibraryInv, DiskOK
  <2>2. k \in CallRecords /\ k.pc = "linking" /\ k.part = k.hash
    BY <1>1, <1>3, <2>1 DEF CallRecords
  <2>3. calls' = [calls EXCEPT ![c] = k]
    BY <1>3 DEF WritePart, assertActual
  <2> HIDE DEF k
  <2>4. CallsOK'
    BY <1>2, <2>2, <2>3, CallMoves DEF LibraryInv
  <2> QED BY <1>2, <2>4, ImportMoves
<1>4. CASE calls[c].hash # file
  <2>1. calls' = [calls EXCEPT ![c] = Idle]
    BY <1>4 DEF WritePart, assertActual, Ends
  <2>2. CallsOK'
    BY <1>2, <2>1, CallMoves DEF LibraryInv, Idle
  <2> QED BY <1>2, <2>2, ImportMoves
<1> QED BY <1>3, <1>4

LEMMA VerifyStep ==
  ASSUME LibraryInv, NEW c \in Calls, Verify(c)
  PROVE  LibraryInv'
<1>1. calls[c] \in CallRecords /\ objects[calls[c].hash] # "absent"
  BY CallIsARecord DEF LibraryInv, Verify, CallsOK
<1>2. UNCHANGED <<disk, rows, receipts, previews, walk, clock>> /\ ObjectsStay
  BY DEF Verify, unchangedByImports, rows, disk, ObjectsStay
<1>3. CASE verify(calls[c].hash)
  <2> DEFINE k == [calls[c] EXCEPT !.pc = "committing"]
  <2>1. k \in CallRecords /\ k.pc = "committing" /\ k.hash = calls[c].hash
    BY <1>1 DEF CallRecords
  <2>2. calls' = [calls EXCEPT ![c] = k]
    BY <1>3 DEF Verify, Becomes
  <2>3. objects'[k.hash] # "absent"
    BY <1>1, <1>2, <2>1 DEF disk
  <2> HIDE DEF k
  <2>4. CallsOK'
    BY <1>2, <2>1, <2>2, <2>3, CallMoves DEF LibraryInv
  <2> QED BY <1>2, <2>4, ImportMoves
<1>4. CASE ~verify(calls[c].hash)
  <2>1. calls' = [calls EXCEPT ![c] = Idle]
    BY <1>4 DEF Verify, Ends
  <2>2. CallsOK'
    BY <1>2, <2>1, CallMoves DEF LibraryInv, Idle
  <2> QED BY <1>2, <2>2, ImportMoves
<1> QED BY <1>3, <1>4

\* The link puts the import's own bytes under their name, or keeps an object that is whole.
LEMMA LinkPartStep ==
  ASSUME LibraryInv, NEW c \in Calls, LinkPart(c)
  PROVE  LibraryInv'
<1>1. calls[c] \in CallRecords /\ calls[c].part = calls[c].hash
  BY CallIsARecord DEF LibraryInv, LinkPart, CallsOK
<1>2. calls[c].hash \in Contents
  BY <1>1 DEF CallRecords
<1>3. /\ UNCHANGED <<file, picking, caps, faults>> /\ UNCHANGED <<rows, clock>> /\ UNCHANGED <<assets, receipts>>
      /\ UNCHANGED <<assets, refs, previews>> /\ UNCHANGED <<assets, refs, walk>>
  BY DEF LinkPart, unchangedByImports, rows
<1>4. CASE ~MayLink(calls[c].hash)
  <2>1. calls' = [calls EXCEPT ![c] = Idle] /\ objects' = objects
    BY <1>4 DEF LinkPart, Ends
  <2>2. ObjectsStay
    BY <2>1 DEF ObjectsStay
  <2>3. CallsOK'
    BY <2>1, <2>2, CallMoves DEF LibraryInv, Idle
  <2>4. DiskOK'
    BY <1>3, <2>1 DEF LibraryInv, DiskOK
  <2> QED BY <1>3, <2>2, <2>3, <2>4, RowsStay, OnceStays, PreviewsStay, WalkStays DEF LibraryInv
<1>5. CASE MayLink(calls[c].hash)
  <2> DEFINE k == [calls[c] EXCEPT !.pc = "verifying"]
  <2>1. k \in CallRecords /\ k.pc = "verifying" /\ k.hash = calls[c].hash
    BY <1>1 DEF CallRecords
  <2>2. calls' = [calls EXCEPT ![c] = k] /\ Linked(calls[c].hash, calls[c].part)
    BY <1>5 DEF LinkPart, Becomes
  <2>3. objects' = objects \/ (objects[calls[c].hash] = "absent" /\ objects' = [objects EXCEPT ![calls[c].hash] = calls[c].hash])
    BY <1>1, <2>2 DEF Linked
  <2>4. objects \in [Contents -> Contents \cup {"absent", "damaged"}]
    BY DEF LibraryInv, DiskOK
  <2>5. "absent" \notin Contents
    BY MediaStoreAssumption
  <2>6. ObjectsStay /\ objects' \in [Contents -> Contents \cup {"absent", "damaged"}]
    BY <1>2, <2>3, <2>4, <2>5 DEF ObjectsStay
  <2>7. objects'[calls[c].hash] # "absent"
    <3>1. objects[calls[c].hash] = "absent" => objects' = [objects EXCEPT ![calls[c].hash] = calls[c].hash]
      BY <1>1, <2>2 DEF Linked
    <3> QED BY <1>2, <3>1, <2>3, <2>4, <2>5
  <2>8. \A d \in Contents : objects'[d] \in {"absent", d} \/ (objects'[d] = "damaged" /\ faults.objects > 0)
    BY <1>2, <2>3, <2>4 DEF LibraryInv, DiskOK
  <2>9. DiskOK'
    BY <1>3, <2>6, <2>8 DEF LibraryInv, DiskOK
  <2> HIDE DEF k
  <2>10. CallsOK'
    BY <2>1, <2>2, <2>6, <2>7, CallMoves DEF LibraryInv
  <2> QED BY <1>3, <2>6, <2>9, <2>10, RowsStay, OnceStays, PreviewsStay, WalkStays DEF LibraryInv
<1> QED BY <1>4, <1>5

-----------------------------------------------------------------------------
(* Rows                                                                      *)

LEMMA UnusedIsFree == ASSUME NEW a \in Unused PROVE a \in Assets /\ assets[a] = NoAsset
BY DEF Unused

LEMMA StampMoves == ASSUME RowsOK, Stamp PROVE clock' \in Nat /\ clock <= clock'
BY DEF RowsOK, Stamp

\* A list does not notice that a row is added.
LEMMA WalkBesidesRows ==
  ASSUME RowsOK, RowsOK', WalkOK, clock <= clock', walk' = walk,
         \A a \in Assets : StoodStill(a) \/ assets[a] = NoAsset
  PROVE  WalkOK'
<1>1. walk \in [list : {"none", "global", "project", "read"}, after : {<<>>} \cup (Nat \X Assets),
                pages : Seq(SUBSET Assets), stood : SUBSET Assets]
  BY DEF WalkOK
<1>2. PICK none \in SUBSET Assets : none = {}
  OBVIOUS
<1>3. walk.stood \ none = walk.stood
  BY <1>2
<1>4. Unsettles(none)
  BY <1>1, <1>3 DEF Unsettles
<1>5. \A a \in Assets \ none : StoodStill(a) \/ assets[a] = NoAsset
  OBVIOUS
<1>6. \A a \in none : MovedOn(a)
  BY <1>2
<1>7. none \subseteq Assets
  OBVIOUS
<1> QED BY <1>4, <1>5, <1>6, <1>7, RowsMoveUnderAWalk

\* A granted preview keeps its asset: referenced assets are not removed, and an asset does not change its media.
LEMMA PreviewsKeepTheirAssets ==
  ASSUME PreviewsOK, UNCHANGED previews,
         \A a \in Assets : refs[a] # NoRef => refs'[a] # NoRef /\ assets'[a] = assets[a]
  PROVE  PreviewsOK'
<1>1. reader # NoReader => reader.of.asset \in Assets
  BY DEF PreviewsOK, Readers, Grants
<1> QED BY <1>1 DEF PreviewsOK, previews

\* A new asset of recorded media, beside its reference or without one.
LEMMA RowAdded ==
  ASSUME RowsOK, ObjectsStay, clock' \in Nat, clock <= clock',
         NEW a \in Assets, assets[a] = NoAsset,
         NEW h \in Contents, NEW f \in Contents, blobs' = [blobs EXCEPT ![h] = f], objects'[h] # "absent",
         NEW row \in AssetRecords, row.blob = h, assets' = [assets EXCEPT ![a] = row],
         \/ UNCHANGED <<refs, results>>
         \/ results' = results \cup {a} /\ refs' = [refs EXCEPT ![a] = Ref("active", 1)]
  PROVE  RowsOK'
<1>1. blobs' \in [Contents -> Contents \cup {"none"}] /\ assets' \in [Assets -> AssetRecords \cup {NoAsset, Removed}]
  BY DEF RowsOK
<1>2. "none" \notin Contents
  BY MediaStoreAssumption
<1>3. \A x \in Assets : Stored(x)' <=> x = a \/ Stored(x)
  <2>1. row # NoAsset /\ row # Removed
    BY MediaStoreAssumption DEF AssetRecords, NoAsset, Removed
  <2> QED BY <2>1 DEF RowsOK, Stored
<1>4. Ref("active", 1) \in RefRecords /\ Ref("active", 1).updated = clock'
  BY DEF Ref, RefRecords
<1>5. refs' \in [Assets -> RefRecords] /\ results' \subseteq Assets
  BY <1>4 DEF RowsOK
<1>6. \A x \in Assets : refs'[x].updated <= clock'
  <2>1. SUFFICES ASSUME NEW x \in Assets
                 PROVE  refs'[x].updated <= clock'
    OBVIOUS
  <2>2. refs[x].updated <= clock /\ refs[x].updated \in Nat /\ clock \in Nat
    BY DEF RowsOK, RefRecords
  <2>3. refs'[x] = refs[x] \/ refs'[x].updated = clock'
    BY <1>4 DEF RowsOK
  <2> QED BY <2>2, <2>3
<1>7. \A x \in Assets : refs'[x] # NoRef \/ x \in results' => Stored(x)'
  BY <1>3 DEF RowsOK
<1>8. \A x \in Assets : Stored(x)' => blobs'[assets'[x].blob] # "none"
  <2>1. SUFFICES ASSUME NEW x \in Assets, Stored(x)'
                 PROVE  blobs'[assets'[x].blob] # "none"
    OBVIOUS
  <2>2. CASE x = a
    BY <1>2, <2>2 DEF RowsOK
  <2>3. CASE x # a
    <3>1. assets'[x] = assets[x] /\ Stored(x)
      BY <1>3, <2>1, <2>3 DEF RowsOK
    <3>2. assets[x].blob \in Contents /\ blobs[assets[x].blob] # "none"
      BY <3>1, StoredIsARecord DEF RowsOK
    <3> QED BY <1>2, <3>1, <3>2 DEF RowsOK
  <2> QED BY <2>2, <2>3
<1>9. \A c \in Contents : blobs'[c] # "none" => objects'[c] # "absent"
  BY DEF RowsOK, ObjectsStay
<1> QED BY <1>1, <1>5, <1>6, <1>7, <1>8, <1>9 DEF RowsOK

\* The transaction of an import: the receipt is looked up again, so its request has one asset.
LEMMA CommitStep ==
  ASSUME LibraryInv, NEW c \in Calls, Commit(c)
  PROVE  LibraryInv'
<1>1. calls[c] \in CallRecords /\ objects[calls[c].hash] # "absent"
  BY CallIsARecord DEF LibraryInv, Commit, CallsOK
<1>2. UNCHANGED disk /\ ObjectsStay
  BY DEF Commit, disk, ObjectsStay
<1>3. CallsOK'
  <2>1. calls' = [calls EXCEPT ![c] = Idle]
    BY DEF Commit, Ends
  <2> QED BY <1>2, <2>1, CallMoves DEF LibraryInv, Idle
<1>4. CASE replayed(calls[c].request) \/ ~FactsAgree(calls[c].hash, calls[c].facts)
  <2>1. UNCHANGED <<disk, rows, receipts, previews, walk, clock>>
    BY <1>4 DEF Commit, unchangedByImports, rows
  <2> QED BY <1>3, <2>1, ImportMoves
<1>5. CASE ~(replayed(calls[c].request) \/ ~FactsAgree(calls[c].hash, calls[c].facts))
  <2>1. PICK a \in Unused :
          /\ Stamp
          /\ blobs' = Recorded(calls[c].hash, calls[c].facts)
          /\ assets' = [assets EXCEPT ![a] = Asset(calls[c].hash, calls[c].request)]
          /\ receipts' = [receipts EXCEPT ![calls[c].request] = a]
    BY <1>5 DEF Commit
  <2>2. UNCHANGED <<refs, results, previews, walk>>
    BY DEF Commit, unchangedByImports
  <2>3. PICK h, f, q, new : h = calls[c].hash /\ f = calls[c].facts /\ q = calls[c].request /\ new = Asset(h, q)
    OBVIOUS
  <2>4. h \in Contents /\ f \in Contents /\ q \in Requests /\ receipts[q] = 0
    BY <1>1, <1>5, <2>3 DEF CallRecords, replayed
  <2>5. clock' \in Nat /\ clock <= clock'
    BY <2>1, StampMoves DEF LibraryInv
  <2>6. new \in AssetRecords /\ new.blob = h /\ new.request = q
    BY <2>3, <2>4, <2>5 DEF Asset, AssetRecords
  <2>7. /\ blobs' = [blobs EXCEPT ![h] = f] /\ assets' = [assets EXCEPT ![a] = new]
        /\ receipts' = [receipts EXCEPT ![q] = a] /\ objects'[h] # "absent"
    BY <1>1, <1>2, <2>1, <2>3 DEF Recorded, disk
  <2>8. a \in Assets /\ assets[a] = NoAsset
    BY UnusedIsFree
  <2>9. RowsOK'
    BY <1>2, <2>2, <2>4, <2>5, <2>6, <2>7, <2>8, RowAdded DEF LibraryInv
  <2>10. OnceOK'
    <3>1. receipts' \in [Requests -> Assets \cup {0}]
      BY <2>4, <2>7, <2>8 DEF LibraryInv, OnceOK
    <3>2. ASSUME NEW x \in Assets, Stored(x)', assets'[x].request \in Requests
          PROVE  receipts'[assets'[x].request] = x
      <4>1. CASE x = a
        BY <4>1, <2>4, <2>6, <2>7, <2>8 DEF LibraryInv, OnceOK, RowsOK
      <4>2. CASE x # a
        <5>1. assets'[x] = assets[x] /\ Stored(x)
          BY <3>2, <4>2, <2>7 DEF LibraryInv, RowsOK, Stored
        <5>2. receipts[assets[x].request] = x /\ x # 0
          BY <3>2, <5>1, MediaLibraryAssumption DEF LibraryInv, OnceOK
        <5>3. assets[x].request # q
          BY <2>4, <5>2
        <5> QED BY <3>2, <5>1, <5>2, <5>3, <2>7 DEF LibraryInv, OnceOK
      <4> QED BY <4>1, <4>2
    <3> QED BY <3>1, <3>2 DEF OnceOK
  <2>11. \A x \in Assets : refs[x] # NoRef => assets'[x] = assets[x]
    BY <2>7, <2>8, StoredIsARecord DEF LibraryInv, RowsOK
  <2>12. PreviewsOK'
    BY <2>2, <2>11, PreviewsKeepTheirAssets DEF LibraryInv, previews
  <2>13. \A x \in Assets : StoodStill(x) \/ assets[x] = NoAsset
    BY <2>2, <2>7, <2>8 DEF LibraryInv, RowsOK, StoodStill
  <2>14. WalkOK'
    BY <2>2, <2>5, <2>9, <2>13, WalkBesidesRows DEF LibraryInv
  <2>15. DiskOK'
    BY <1>2 DEF LibraryInv, DiskOK, disk
  <2> QED BY <1>3, <2>9, <2>10, <2>12, <2>14, <2>15 DEF LibraryInv
<1> QED BY <1>4, <1>5

\* Files and imports do not notice that rows change.
LEMMA BesidesRows ==
  ASSUME LibraryInv, UNCHANGED <<disk, imports>>
  PROVE  DiskOK' /\ ObjectsStay /\ CallsOK'
<1>1. DiskOK' /\ ObjectsStay /\ calls' = calls
  BY DEF LibraryInv, DiskOK, disk, imports, ObjectsStay
<1> QED BY <1>1, CallsStay DEF LibraryInv

LEMMA PublishOutputStep ==
  ASSUME LibraryInv, PublishOutput
  PROVE  LibraryInv'
<1>1. PICK h \in Contents, a \in Unused :
        /\ verify(h) /\ Stamp
        /\ blobs' = Recorded(h, h)
        /\ assets' = [assets EXCEPT ![a] = Asset(h, "none")]
        /\ results' = results \cup {a}
        /\ refs' = [refs EXCEPT ![a] = Ref("active", 1)]
  BY DEF PublishOutput
<1>2. UNCHANGED <<disk, imports>> /\ UNCHANGED previews /\ walk' = walk /\ receipts' = receipts
  BY DEF PublishOutput, unchangedByRows, imports
<1>3. DiskOK' /\ ObjectsStay /\ CallsOK'
  BY <1>2, BesidesRows
<1>4. clock' \in Nat /\ clock <= clock' /\ a \in Assets /\ assets[a] = NoAsset
  BY <1>1, StampMoves, UnusedIsFree DEF LibraryInv
<1>5. PICK new : new = Asset(h, "none")
  OBVIOUS
<1>6. new \in AssetRecords /\ new.blob = h /\ new.request = "none" /\ assets' = [assets EXCEPT ![a] = new]
  BY <1>1, <1>4, <1>5 DEF Asset, AssetRecords
<1>7. objects'[h] # "absent" /\ blobs' = [blobs EXCEPT ![h] = h]
  BY <1>1, <1>2, MediaStoreAssumption DEF verify, assertActual, disk, Recorded
<1>8. RowsOK'
  BY <1>1, <1>3, <1>4, <1>6, <1>7, RowAdded DEF LibraryInv
<1>9. refs[a] = NoRef
  BY <1>4, StoredIsARecord DEF LibraryInv
<1>10. \A x \in Assets : x # a => assets'[x] = assets[x] /\ refs'[x] = refs[x]
  BY <1>1, <1>6 DEF LibraryInv, RowsOK
<1>11. PreviewsOK'
  BY <1>2, <1>9, <1>10, PreviewsKeepTheirAssets DEF LibraryInv
<1>12. OnceOK'
  <2>1. \A x \in Assets : Stored(x)' /\ assets'[x].request \in Requests => x # a
    BY <1>6, MediaLibraryAssumption DEF LibraryInv, RowsOK
  <2> QED BY <1>2, <1>10, <2>1 DEF LibraryInv, OnceOK, Stored
<1>13. WalkOK'
  BY <1>2, <1>4, <1>8, <1>10, WalkBesidesRows DEF LibraryInv, StoodStill
<1> QED BY <1>3, <1>8, <1>11, <1>12, <1>13 DEF LibraryInv

\* A reference that is attached, revised or detached: its asset is stored, and its key moves to the front.
LEMMA ReferenceStep ==
  ASSUME LibraryInv, NEW a \in Assets, attachProjectMedia(a) \/ detachProjectMedia(a)
  PROVE  LibraryInv'
<1>1. Stored(a)
  BY DEF attachProjectMedia, detachProjectMedia, LibraryInv, RowsOK, NoRef
<1>2. PICK state \in {"active", "detached"} : refs' = [refs EXCEPT ![a] = Ref(state, refs[a].revision + 1)]
  BY DEF attachProjectMedia, detachProjectMedia, LibraryInv, RowsOK
<1>3. /\ Stamp /\ Moves(a) /\ UNCHANGED <<blobs, assets, results>> /\ UNCHANGED <<disk, imports>> /\ UNCHANGED previews
      /\ UNCHANGED <<assets, receipts>>
  BY DEF attachProjectMedia, detachProjectMedia, unchangedByRows, imports
<1>4. clock' \in Nat /\ clock <= clock'
  BY <1>3, StampMoves DEF LibraryInv
<1>5. DiskOK' /\ ObjectsStay /\ CallsOK'
  BY <1>3, BesidesRows
<1>6. PICK new : new = Ref(state, refs[a].revision + 1)
  OBVIOUS
<1>7. new \in RefRecords /\ new # NoRef /\ new.updated = clock' /\ refs' = [refs EXCEPT ![a] = new]
  BY <1>2, <1>4, <1>6 DEF Ref, RefRecords, NoRef, LibraryInv, RowsOK
<1>8. RowsOK'
  <2>1. refs' \in [Assets -> RefRecords]
    BY <1>7 DEF LibraryInv, RowsOK
  <2>2. \A x \in Assets : refs'[x].updated <= clock'
    <3>1. SUFFICES ASSUME NEW x \in Assets
                   PROVE  refs'[x].updated <= clock'
      OBVIOUS
    <3>2. refs[x].updated <= clock /\ refs[x].updated \in Nat /\ clock \in Nat
      BY DEF LibraryInv, RowsOK, RefRecords
    <3>3. refs'[x] = refs[x] \/ refs'[x].updated = clock'
      BY <1>7 DEF LibraryInv, RowsOK
    <3> QED BY <1>4, <3>2, <3>3
  <2>3. \A x \in Assets : Stored(x)' <=> Stored(x)
    BY <1>3 DEF Stored
  <2>4. \A x \in Assets : refs'[x] # NoRef \/ x \in results' => Stored(x)'
    BY <1>1, <1>3, <1>7, <2>3 DEF LibraryInv, RowsOK
  <2>5. \A c \in Contents : blobs'[c] # "none" => objects'[c] # "absent"
    BY <1>3, <1>5 DEF LibraryInv, RowsOK, ObjectsStay
  <2> QED BY <1>3, <1>4, <2>1, <2>2, <2>3, <2>4, <2>5 DEF LibraryInv, RowsOK
<1>9. OnceOK'
  BY <1>3, OnceStays DEF LibraryInv
<1>10. PreviewsOK'
  <2>1. \A x \in Assets : refs[x] # NoRef => refs'[x] # NoRef /\ assets'[x] = assets[x]
    BY <1>3, <1>7 DEF LibraryInv, RowsOK
  <2> QED BY <1>3, <2>1, PreviewsKeepTheirAssets DEF LibraryInv
<1>11. WalkOK'
  <2>1. \A x \in Assets \ {a} : StoodStill(x) \/ assets[x] = NoAsset
    BY <1>3, <1>7 DEF LibraryInv, RowsOK, StoodStill
  <2>2. \A x \in {a} : MovedOn(x)
    BY <1>3, <1>7 DEF LibraryInv, RowsOK, MovedOn
  <2>3. Unsettles({a}) /\ {a} \subseteq Assets
    BY <1>3 DEF Unsettles, Moves
  <2> QED BY <1>4, <1>8, <2>1, <2>2, <2>3, RowsMoveUnderAWalk DEF LibraryInv
<1> QED BY <1>5, <1>8, <1>9, <1>10, <1>11 DEF LibraryInv

\* Only an asset that nothing names is removed, and its bytes stay.
LEMMA RemoveStep ==
  ASSUME LibraryInv, NEW a \in Assets, removeGlobal(a)
  PROVE  LibraryInv'
<1>1. Stored(a) /\ refs[a] = NoRef /\ a \notin results /\ assets' = [assets EXCEPT ![a] = Removed]
  BY DEF removeGlobal, referencedTable
<1>2. /\ Moves(a) /\ UNCHANGED <<blobs, refs, results, clock>> /\ UNCHANGED <<disk, imports>> /\ UNCHANGED previews
      /\ receipts' = receipts
  BY DEF removeGlobal, unchangedByRows, imports
<1>3. DiskOK' /\ ObjectsStay /\ CallsOK'
  BY <1>2, BesidesRows
<1>4. \A x \in Assets : (x # a => assets'[x] = assets[x]) /\ (Stored(x)' <=> x # a /\ Stored(x))
  BY <1>1 DEF LibraryInv, RowsOK, Stored
<1>5. RowsOK'
  <2>1. assets' \in [Assets -> AssetRecords \cup {NoAsset, Removed}]
    BY <1>1 DEF LibraryInv, RowsOK
  <2>2. \A x \in Assets : refs'[x] # NoRef \/ x \in results' => Stored(x)'
    BY <1>1, <1>2, <1>4 DEF LibraryInv, RowsOK
  <2>3. \A x \in Assets : Stored(x)' => blobs'[assets'[x].blob] # "none"
    BY <1>2, <1>4 DEF LibraryInv, RowsOK
  <2>4. \A c \in Contents : blobs'[c] # "none" => objects'[c] # "absent"
    BY <1>2, <1>3 DEF LibraryInv, RowsOK, ObjectsStay
  <2> QED BY <1>2, <2>1, <2>2, <2>3, <2>4 DEF LibraryInv, RowsOK
<1>6. OnceOK'
  BY <1>2, <1>4 DEF LibraryInv, OnceOK
<1>7. PreviewsOK'
  <2>1. \A x \in Assets : refs[x] # NoRef => refs'[x] # NoRef /\ assets'[x] = assets[x]
    BY <1>1, <1>2, <1>4
  <2> QED BY <1>2, <2>1, PreviewsKeepTheirAssets DEF LibraryInv
<1>8. WalkOK'
  <2>1. \A x \in Assets \ {a} : StoodStill(x) \/ assets[x] = NoAsset
    BY <1>2, <1>4 DEF StoodStill
  <2>2. \A x \in {a} : MovedOn(x)
    BY <1>1, <1>2 DEF LibraryInv, RowsOK, MovedOn
  <2>3. Unsettles({a}) /\ {a} \subseteq Assets
    BY <1>2 DEF Unsettles, Moves
  <2>4. clock <= clock'
    BY <1>2 DEF LibraryInv, RowsOK
  <2> QED BY <1>5, <2>1, <2>2, <2>3, <2>4, RowsMoveUnderAWalk DEF LibraryInv
<1> QED BY <1>3, <1>5, <1>6, <1>7, <1>8 DEF LibraryInv

-----------------------------------------------------------------------------
(* Previews                                                                  *)

\* Files, rows, imports and lists do not notice previews.
LEMMA BesidesPreviews ==
  ASSUME LibraryInv, unchangedByPreviews, PreviewsOK'
  PROVE  LibraryInv'
<1>1. DiskOK' /\ ObjectsStay
  BY DEF LibraryInv, unchangedByPreviews, disk, DiskOK, ObjectsStay
<1>2. UNCHANGED <<rows, clock>> /\ UNCHANGED <<assets, receipts>> /\ UNCHANGED <<assets, refs, walk>> /\ calls' = calls
  BY DEF unchangedByPreviews, rows, imports
<1> QED BY <1>1, <1>2, RowsStay, OnceStays, WalkStays, CallsStay DEF LibraryInv

LEMMA PreviewStep ==
  ASSUME LibraryInv, (\E a \in Assets : issue(a)) \/ pruneExpired \/ respond \/ openVerifiedFileRange \/ EndOfBody
  PROVE  LibraryInv'
<1>1. unchangedByPreviews /\ UNCHANGED <<assets, refs>>
  BY DEF issue, pruneExpired, respond, openVerifiedFileRange, EndOfBody, unchangedByPreviews, rows
<1>2. CASE \E a \in Assets : issue(a)
  <2>1. PICK a \in Assets : grants' = Append(Forgotten(grants), [asset |-> a, revision |-> refs[a].revision])
    BY <1>2 DEF issue
  <2>2. [asset |-> a, revision |-> refs[a].revision] \in Grants
    BY DEF LibraryInv, RowsOK, RefRecords, Grants
  <2>3. Forgotten(grants) \in Seq(Grants)
    <3>1. CASE Len(grants) >= MaxGrants
      <4>1. grants \in Seq(Grants) /\ grants # <<>>
        BY <3>1, MediaLibraryAssumption DEF LibraryInv, PreviewsOK
      <4> QED BY <3>1, <4>1 DEF Forgotten
    <3>2. CASE ~(Len(grants) >= MaxGrants)
      BY <3>2 DEF LibraryInv, PreviewsOK, Forgotten
    <3> QED BY <3>1, <3>2
  <2>4. grants' \in Seq(Grants) /\ reader' = reader
    BY <1>2, <2>1, <2>2, <2>3 DEF issue
  <2>5. PreviewsOK'
    BY <1>1, <2>4 DEF LibraryInv, PreviewsOK
  <2> QED BY <1>1, <2>5, BesidesPreviews
<1>3. CASE pruneExpired
  <2>1. grants \in Seq(Grants) /\ grants # <<>> /\ grants' = Tail(grants) /\ reader' = reader
    BY <1>3 DEF pruneExpired, LibraryInv, PreviewsOK
  <2>2. grants' \in Seq(Grants)
    BY <2>1
  <2>3. PreviewsOK'
    BY <1>1, <2>1, <2>2 DEF LibraryInv, PreviewsOK
  <2> QED BY <1>1, <2>3, BesidesPreviews
<1>4. CASE respond
  <2>1. PICK i \in DOMAIN grants :
          /\ resolves(grants[i].asset, grants[i].revision)
          /\ reader' = [pc |-> "opening", hash |-> assets[grants[i].asset].blob, of |-> grants[i]]
    BY <1>4 DEF respond
  <2>2. PICK g \in Grants : g = grants[i]
    BY DEF LibraryInv, PreviewsOK
  <2>3. g.asset \in Assets /\ refs[g.asset].state = "active" /\ Stored(g.asset)
    BY <2>1, <2>2 DEF resolves, Grants
  <2>4. assets[g.asset].blob \in Contents /\ refs[g.asset] # NoRef
    BY <2>3, StoredIsARecord DEF LibraryInv, NoRef
  <2>5. reader' \in Readers /\ reader'.of = g /\ reader'.hash = assets[g.asset].blob
    BY <2>1, <2>2, <2>4 DEF Readers
  <2>6. PreviewsOK'
    BY <1>1, <1>4, <2>4, <2>5 DEF LibraryInv, PreviewsOK, respond
  <2> QED BY <1>1, <2>6, BesidesPreviews
<1>5. CASE openVerifiedFileRange
  <2>1. reader \in Readers /\ refs[reader.of.asset] # NoRef /\ assets[reader.of.asset].blob = reader.hash
    BY <1>5 DEF openVerifiedFileRange, LibraryInv, PreviewsOK, NoReader
  <2>2. grants' = grants /\ (reader' = NoReader \/ reader' = [reader EXCEPT !.pc = "streaming"])
    BY <1>5 DEF openVerifiedFileRange
  <2>3. [reader EXCEPT !.pc = "streaming"] \in Readers /\ [reader EXCEPT !.pc = "streaming"].of = reader.of
        /\ [reader EXCEPT !.pc = "streaming"].hash = reader.hash
    BY <2>1 DEF Readers
  <2>4. PreviewsOK'
    BY <1>1, <2>1, <2>2, <2>3 DEF LibraryInv, PreviewsOK
  <2> QED BY <1>1, <2>4, BesidesPreviews
<1>6. CASE EndOfBody
  BY <1>1, <1>6, BesidesPreviews DEF EndOfBody, LibraryInv, PreviewsOK
<1> QED BY <1>2, <1>3, <1>4, <1>5, <1>6

-----------------------------------------------------------------------------
(* Lists                                                                     *)

Walks == [list : {"none", "global", "project", "read"}, after : {<<>>} \cup (Nat \X Assets),
          pages : Seq(SUBSET Assets), stood : SUBSET Assets]

\* Everything else does not notice lists.
LEMMA BesidesLists ==
  ASSUME LibraryInv, UNCHANGED <<disk, rows, imports, previews, clock>>, WalkOK'
  PROVE  LibraryInv'
<1>1. DiskOK' /\ ObjectsStay
  BY DEF LibraryInv, disk, DiskOK, ObjectsStay
<1>2. UNCHANGED <<rows, clock>> /\ UNCHANGED <<assets, receipts>> /\ UNCHANGED <<assets, refs, previews>> /\ calls' = calls
  BY DEF rows, imports
<1> QED BY <1>1, <1>2, RowsStay, OnceStays, PreviewsStay, CallsStay DEF LibraryInv

\* A list begins with everything still to come.
LEMMA BeginListStep ==
  ASSUME LibraryInv, BeginList
  PROVE  LibraryInv'
<1>1. PICK list \in {"global", "project"} :
        walk' = [list |-> list, after |-> <<>>, pages |-> <<>>, stood |-> {k[2] : k \in Rows(list)}]
  BY DEF BeginList
<1>2. UNCHANGED <<disk, rows, imports, previews, clock>> /\ UNCHANGED <<assets, refs>>
  BY DEF BeginList, rows
<1>3. \A k \in Rows(list) : k[2] \in Assets /\ Showing(list, k[2])
  BY RowsAreKeys DEF LibraryInv
<1>4. PICK stood \in SUBSET Assets : stood = {k[2] : k \in Rows(list)}
  BY <1>3
<1>5. walk' = [list |-> list, after |-> <<>>, pages |-> <<>>, stood |-> stood]
  BY <1>1, <1>4
<1>6. walk' \in Walks /\ walk'.list = list /\ walk'.after = <<>> /\ walk'.pages = <<>> /\ walk'.stood = stood
  BY <1>5 DEF Walks
<1>7. \A a \in stood : Showing(list, a)'
  BY <1>2, <1>3, <1>4 DEF Showing, Stored
<1>8. Shown' = {}
  BY <1>6 DEF Shown
<1>9. list # "read" /\ list # "none"
  OBVIOUS
<1>10. \A a \in walk'.stood : After(Key(walk.list, a)', walk'.after)
  BY <1>6 DEF After
<1>11. WalkOK'
  BY <1>6, <1>7, <1>8, <1>9, <1>10 DEF WalkOK, Walks, Showing, Key
<1> QED BY <1>2, <1>11, BesidesLists

\* A page shows the first of what is to come; what it leaves stands behind its last row, to which the cursor moves.
LEMMA ListPageStep ==
  ASSUME LibraryInv, ListPage
  PROVE  LibraryInv'
<1>1. walk \in Walks /\ walk.list \in {"global", "project"}
  BY DEF ListPage, LibraryInv, WalkOK, Walks
<1>2. PICK list \in {"global", "project"} : list = walk.list
  BY <1>1
<1>3. PICK after \in {<<>>} \cup (Nat \X Assets) : after = walk.after
  BY <1>1 DEF Walks
<1>4. PICK rest, page : rest = {k \in Rows(list) : After(k, after)} /\ page = Page(rest)
  OBVIOUS
<1>5. PICK show : show = {k[2] : k \in page}
  OBVIOUS
<1>6. walk' = [walk EXCEPT !.pages = Append(@, show),
                           !.list = IF rest = page THEN "read" ELSE @,
                           !.after = IF rest = page THEN <<>> ELSE LastOf(page)]
  BY <1>2, <1>3, <1>4, <1>5 DEF ListPage
<1>7. UNCHANGED <<disk, rows, imports, previews, clock>> /\ UNCHANGED <<assets, refs>>
  BY DEF ListPage, rows
<1>8. rest \in SUBSET Keys /\ IsFiniteSet(rest)
  <2>1. Rows(list) \subseteq Keys /\ IsFiniteSet(Rows(list))
    BY RowsAreKeys DEF LibraryInv
  <2>2. rest \subseteq Rows(list)
    BY <1>4
  <2> QED BY <2>1, <2>2, FS_Subset
<1>9. /\ page \subseteq rest
      /\ \A k \in page, l \in rest \ page : Precedes(k, l)
      /\ rest # {} => /\ LastOf(page) \in page
                      /\ \A k \in page : k = LastOf(page) \/ Precedes(k, LastOf(page))
  BY <1>4, <1>8, PageDivides
<1>10. \A a \in Assets : Showing(list, a) /\ After(Key(list, a), after) => Key(list, a) \in rest
  BY <1>4, RowsAreKeys DEF LibraryInv
<1>11. \A k \in rest : k[2] \in Assets /\ Showing(list, k[2]) /\ k = Key(list, k[2]) /\ After(k, after)
  BY <1>4, RowsAreKeys DEF LibraryInv
<1>12. show \subseteq Assets
       /\ \A a \in show : Showing(list, a) /\ Key(list, a) \in page /\ After(Key(list, a), after)
  BY <1>5, <1>9, <1>11
<1>13. Shown \cap show = {} /\ Shown \subseteq Assets
       /\ \A a \in Shown : assets[a] # NoAsset /\ ((list = "global" => Stored(a)) => ~After(Key(list, a), after))
  <2>1. \A a \in Shown : assets[a] # NoAsset /\ ((list = "global" => Stored(a)) => ~After(Key(list, a), after))
    BY <1>2, <1>3 DEF LibraryInv, WalkOK, Past
  <2>2. \A a \in show : (list = "global" => Stored(a)) /\ After(Key(list, a), after)
    BY <1>12 DEF Showing
  <2>3. Shown \subseteq Assets
    BY <1>1 DEF Shown, Walks
  <2> QED BY <2>1, <2>2, <2>3
<1>14. walk'.pages = Append(walk.pages, show) /\ walk'.stood = walk.stood
  BY <1>1, <1>6 DEF Walks
<1>15. walk.pages \in Seq(SUBSET Assets) /\ walk'.pages \in Seq(SUBSET Assets)
  BY <1>1, <1>12, <1>14 DEF Walks
<1>16. Shown' = Shown \cup show
  BY <1>14, <1>15 DEF Shown
<1>17. \A i, j \in DOMAIN walk'.pages : i < j => walk'.pages[i] \cap walk'.pages[j] = {}
  <2>1. SUFFICES ASSUME NEW i \in DOMAIN walk'.pages, NEW j \in DOMAIN walk'.pages, i < j
                 PROVE  walk'.pages[i] \cap walk'.pages[j] = {}
    OBVIOUS
  <2>2. i \in DOMAIN walk.pages /\ walk'.pages[i] = walk.pages[i]
    BY <2>1, <1>14, <1>15
  <2>3. CASE j \in DOMAIN walk.pages
    BY <2>1, <2>2, <2>3, <1>14, <1>15 DEF LibraryInv, WalkOK
  <2>4. CASE j \notin DOMAIN walk.pages
    <3>1. walk'.pages[j] = show
      BY <2>4, <1>14, <1>15
    <3>2. walk.pages[i] \subseteq Shown
      BY <2>2 DEF Shown
    <3> QED BY <2>2, <3>1, <3>2, <1>13
  <2> QED BY <2>3, <2>4
<1>18. \A a \in walk.stood : a \in Assets /\ Showing(list, a) /\ (a \in Shown \/ Key(list, a) \in rest)
  <2>1. \A a \in walk.stood : a \in Assets /\ Showing(list, a) /\ (a \in Shown \/ After(Key(list, a), after))
    BY <1>1, <1>2, <1>3 DEF LibraryInv, WalkOK, Walks
  <2> QED BY <2>1, <1>10
<1>19. \A a \in walk.stood : Key(list, a) \in page => a \in show
  <2>1. \A a \in walk.stood : Key(list, a)[2] = a
    BY <1>18, RowsAreKeys DEF LibraryInv
  <2> QED BY <2>1, <1>5
<1>20. CASE rest = page
  <2>1. walk' \in Walks /\ walk'.list = "read"
    BY <1>1, <1>6, <1>15, <1>20 DEF Walks
  <2>2. walk'.stood \subseteq Shown'
    BY <1>14, <1>16, <1>18, <1>19, <1>20
  <2>3. WalkOK'
    BY <2>1, <2>2, <1>17 DEF WalkOK, Walks
  <2> QED BY <2>3, <1>7, BesidesLists
<1>21. CASE rest # page
  <2>1. PICK last : last = LastOf(page)
    OBVIOUS
  <2>2. last \in page /\ \A k \in page : k = last \/ Precedes(k, last)
    BY <1>9, <1>21, <2>1
  <2>3. last \in Keys /\ last \in Nat \X Assets /\ last # <<>> /\ After(last, after)
    <3>1. last \in Keys /\ last[2] \in Assets /\ After(last, after)
      BY <1>8, <1>9, <1>11, <2>2
    <3>2. PICK x, y \in Nat : last = <<x, y>>
      BY <3>1 DEF Keys
    <3>3. y \in Assets
      BY <3>1, <3>2
    <3> QED BY <3>1, <3>2, <3>3
  <2>4. walk' \in Walks /\ walk'.list = list /\ walk'.after = last
    BY <1>1, <1>2, <1>6, <1>15, <1>21, <2>1, <2>3 DEF Walks
  <2>5. ASSUME NEW a \in Shown, list = "global" => Stored(a)
        PROVE  ~After(Key(list, a), last)
    <3>1. a \in Assets /\ ~After(Key(list, a), after)
      BY <2>5, <1>13
    <3>2. Key(list, a) \in Keys
      <4>1. a \in Nat /\ refs[a].updated \in Nat
        BY <3>1, MediaLibraryAssumption DEF LibraryInv, RowsOK, RefRecords
      <4>2. list = "global" => assets[a].created \in Nat
        BY <2>5, <3>1, StoredIsARecord DEF LibraryInv
      <4> QED BY <4>1, <4>2 DEF Key, Keys
    <3>3. after # <<>> /\ after \in Keys /\ Precedes(after, last) /\ ~Precedes(after, Key(list, a))
      <4>1. after # <<>> /\ ~Precedes(after, Key(list, a)) /\ Precedes(after, last)
        BY <2>3, <3>1 DEF After
      <4>2. after \in Nat \X Assets
        BY <4>1, <1>3
      <4> QED BY <4>1, <4>2, MediaLibraryAssumption DEF Keys
    <3>4. ~Precedes(last, Key(list, a))
      BY <2>3, <3>2, <3>3, PrecedesIsAnOrder
    <3> QED BY <2>3, <3>4 DEF After
  <2>6. ASSUME NEW a \in show
        PROVE  ~After(Key(list, a), last)
    <3>1. Key(list, a) \in page /\ Key(list, a) \in Keys
      BY <1>8, <1>9, <1>12
    <3>2. ~Precedes(last, Key(list, a))
      BY <2>2, <2>3, <3>1, PrecedesIsAnOrder
    <3> QED BY <2>3, <3>2 DEF After
  <2>7. ASSUME NEW a \in walk.stood
        PROVE  Showing(list, a) /\ (a \in Shown' \/ After(Key(list, a), last))
    <3>1. Showing(list, a) /\ (a \in Shown \/ Key(list, a) \in rest)
      BY <1>18
    <3>2. CASE Key(list, a) \in page
      BY <3>1, <3>2, <1>16, <1>19
    <3>3. CASE Key(list, a) \in rest \ page
      BY <3>1, <3>3, <1>9, <2>2 DEF After
    <3> QED BY <3>1, <3>2, <3>3, <1>16
  <2>8. \A a \in Shown' : assets[a] # NoAsset
    <3>1. \A a \in show : assets[a] # NoAsset
      <4>1. SUFFICES ASSUME NEW a \in show
                     PROVE  assets[a] # NoAsset
        OBVIOUS
      <4>2. a \in Assets /\ Showing(list, a)
        BY <1>12
      <4>3. assets[a] = NoAsset => refs[a] = NoRef /\ ~Stored(a)
        BY <4>2, StoredIsARecord DEF LibraryInv, Stored
      <4> QED BY <4>2, <4>3 DEF Showing, NoRef
    <3> QED BY <3>1, <1>13, <1>16
  <2>9. \A a \in Shown' : Past(walk.list, a)'
    <3>1. \A a \in Shown' : (list = "global" => Stored(a)) => ~After(Key(list, a), last)
      BY <2>5, <2>6, <1>16
    <3> QED BY <3>1, <2>4, <1>7 DEF Past, After, Key, Stored
  <2>10. \A a \in walk'.stood : Showing(walk.list, a)' /\ (a \in Shown' \/ After(Key(walk.list, a)', walk'.after))
    BY <2>4, <2>7, <1>7, <1>14 DEF Showing, Stored, Key
  <2>11. \A a \in Shown' : assets'[a] # NoAsset
    BY <2>8, <1>7
  <2>12. WalkOK'
    BY <2>3, <2>4, <2>9, <2>10, <2>11, <1>17 DEF WalkOK, Walks
  <2> QED BY <2>12, <1>7, BesidesLists
<1> QED BY <1>20, <1>21

LEMMA CloseListStep ==
  ASSUME LibraryInv, CloseList
  PROVE  LibraryInv'
<1>1. walk' = NoWalk /\ UNCHANGED <<disk, rows, imports, previews, clock>>
  BY DEF CloseList
<1>2. NoWalk \in Walks /\ NoWalk.list = "none" /\ NoWalk.pages = <<>>
  BY DEF NoWalk, Walks
<1>3. WalkOK'
  BY <1>1, <1>2 DEF WalkOK, Walks
<1> QED BY <1>1, <1>3, BesidesLists

-----------------------------------------------------------------------------
(* Theorems                                                                  *)

LEMMA InitLibrary == ASSUME Init PROVE LibraryInv
<1>1. DiskOK
  BY MediaStoreAssumption DEF Init, DiskInit, DiskOK, NoCap
<1>2. RowsOK
  <2>1. NoRef \in RefRecords /\ NoRef.updated = 0
    BY DEF NoRef, RefRecords
  <2>2. \A a \in Assets : assets[a] = NoAsset /\ refs[a] = NoRef
    BY DEF Init
  <2>3. blobs \in [Contents -> Contents \cup {"none"}] /\ assets \in [Assets -> AssetRecords \cup {NoAsset, Removed}]
        /\ refs \in [Assets -> RefRecords]
    BY <2>1 DEF Init
  <2> QED BY <2>1, <2>2, <2>3 DEF Init, RowsOK, Stored
<1>3. CallsOK
  BY DEF Init, CallsOK, Idle
<1>4. OnceOK
  BY DEF Init, OnceOK, Stored
<1>5. PreviewsOK
  BY DEF Init, PreviewsOK
<1>6. WalkOK
  <2>1. walk \in Walks /\ walk.list = "none" /\ walk.pages = <<>>
    BY DEF Init, NoWalk, Walks
  <2> QED BY <2>1 DEF WalkOK, Walks
<1> QED BY <1>1, <1>2, <1>3, <1>4, <1>5, <1>6 DEF LibraryInv

LEMMA StepLibrary == ASSUME LibraryInv, [Next]_vars PROVE LibraryInv'
<1>1. CASE UNCHANGED vars
  <2>1. UNCHANGED <<disk, rows, receipts, previews, walk, clock>> /\ calls' = calls
    BY <1>1 DEF vars, imports
  <2>2. ObjectsStay
    BY <2>1 DEF disk, ObjectsStay
  <2>3. CallsOK'
    BY <2>1, <2>2, CallsStay DEF LibraryInv
  <2> QED BY <2>1, <2>3, ImportMoves
<1>2. CASE Disk /\ UNCHANGED <<rows, imports, previews, walk, clock>>
  BY <1>2, DiskStep
<1>3. ASSUME NEW c \in Calls, Import(c)
      PROVE  LibraryInv'
  BY <1>3, ImportGlobalStep, WritePartStep, LinkPartStep, VerifyStep, CommitStep DEF Import
<1>4. CASE PublishOutput
  BY <1>4, PublishOutputStep
<1>5. ASSUME NEW a \in Assets, attachProjectMedia(a) \/ detachProjectMedia(a) \/ removeGlobal(a) \/ issue(a)
      PROVE  LibraryInv'
  BY <1>5, ReferenceStep, RemoveStep, PreviewStep
<1>6. CASE pruneExpired \/ respond \/ openVerifiedFileRange \/ EndOfBody
  BY <1>6, PreviewStep
<1>7. CASE BeginList \/ ListPage \/ CloseList
  BY <1>7, BeginListStep, ListPageStep, CloseListStep
<1>8. CASE Crash
  BY <1>8, CrashStep
<1> QED BY <1>1, <1>2, <1>3, <1>4, <1>5, <1>6, <1>7, <1>8 DEF Next

\* Objects hold what they are named after or are known to be damaged, rows are backed, an import that is under way has
\* put its bytes where it says, and a list is divided by its cursor: the inductive invariant of the library.
THEOREM LibraryInvariant == Spec => []LibraryInv
<1> QED BY InitLibrary, StepLibrary, PTL DEF Spec

\* What is recorded of media exists: every recorded hash has its object, with its bytes unless something outside
\* changed them, and every reference and result names a stored asset of recorded media.
THEOREM LibraryBacked == Spec => []LibraryIsBacked
<1>1. LibraryInv => LibraryIsBacked
  BY DEF LibraryInv, DiskOK, RowsOK, LibraryIsBacked
<1> QED BY <1>1, LibraryInvariant, PTL

\* A request that is sent again, during, after or across the end of the process, imports one asset (the receipt is
\* looked up in the transaction that inserts the row).
THEOREM ImportedOnce == Spec => []OneAssetPerRequest
<1>1. ASSUME LibraryInv
      PROVE  OneAssetPerRequest
  <2>1. SUFFICES ASSUME NEW r \in Requests
                 PROVE  Cardinality({a \in Assets : Stored(a) /\ assets[a].request = r}) <= 1
    BY DEF OneAssetPerRequest
  <2>2. PICK of : of = {a \in Assets : Stored(a) /\ assets[a].request = r}
    OBVIOUS
  <2>3. \A a \in of : a = receipts[r]
    BY <1>1, <2>2 DEF LibraryInv, OnceOK
  <2>4. of = {} \/ of = {receipts[r]}
    BY <2>3
  <2>5. Cardinality(of) \in {0, 1}
    BY <2>4, FS_EmptySet, FS_Singleton
  <2> QED BY <2>2, <2>5
<1>2. LibraryInv => OneAssetPerRequest
  BY <1>1
<1> QED BY <1>2, LibraryInvariant, PTL

\* A list read to its end shows every row that stood still meanwhile, and none twice, whatever is added, moved or
\* removed between two pages and however many rows share a timestamp: the cursor is a key of a total order.
THEOREM WalksShow == Spec => []WalksShowWhatStood
<1>1. LibraryInv => WalksShowWhatStood
  BY DEF LibraryInv, WalkOK, Shown, WalksShowWhatStood
<1> QED BY <1>1, LibraryInvariant, PTL

\* A preview that starts to stream shows the bytes its reference had when the preview was granted.
THEOREM PreviewsShow == Spec => PreviewsShowTheirMedia
<1> DEFINE Shows ==
      /\ reader = NoReader /\ reader' # NoReader => refs[reader'.of.asset].revision = reader'.of.revision
      /\ reader'.pc = "streaming" /\ reader.pc = "opening" => objects[assets[reader.of.asset].blob] = reader.hash
<1>1. ASSUME LibraryInv, Next
      PROVE  Shows \/ UNCHANGED vars
  <2>1. CASE reader' = reader
    BY <2>1
  <2>2. CASE reader' = NoReader
    BY <2>2 DEF NoReader
  <2>3. CASE respond
    <3>1. PICK i \in DOMAIN grants :
            /\ resolves(grants[i].asset, grants[i].revision)
            /\ reader' = [pc |-> "opening", hash |-> assets[grants[i].asset].blob, of |-> grants[i]]
      BY <2>3 DEF respond
    <3> QED BY <3>1 DEF resolves
  <2>4. CASE openVerifiedFileRange
    <3>1. reader # NoReader /\ reader.pc = "opening"
      BY <2>4 DEF openVerifiedFileRange, NoReader
    <3>2. assets[reader.of.asset].blob = reader.hash
      BY <1>1, <3>1 DEF LibraryInv, PreviewsOK
    <3>3. verify(reader.hash) \/ reader' = NoReader
      BY <2>4 DEF openVerifiedFileRange
    <3> QED BY <2>2, <3>1, <3>2, <3>3 DEF verify, assertActual
  <2>5. reader' = reader \/ reader' = NoReader \/ respond \/ openVerifiedFileRange
    <3>1. ASSUME NEW c \in Calls, Import(c)
          PROVE  reader' = reader
      BY <3>1 DEF Import, importGlobal, WritePart, LinkPart, Verify, Commit, unchangedByImports, previews
    <3>2. CASE PublishOutput
      BY <3>2 DEF PublishOutput, unchangedByRows, previews
    <3>3. ASSUME NEW a \in Assets, attachProjectMedia(a) \/ detachProjectMedia(a) \/ removeGlobal(a) \/ issue(a)
          PROVE  reader' = reader
      BY <3>3 DEF attachProjectMedia, detachProjectMedia, removeGlobal, issue, unchangedByRows, previews
    <3>4. CASE pruneExpired \/ EndOfBody
      BY <3>4 DEF pruneExpired, EndOfBody
    <3>5. CASE BeginList \/ ListPage \/ CloseList
      BY <3>5 DEF BeginList, ListPage, CloseList, previews
    <3>6. CASE Crash
      BY <3>6 DEF Crash
    <3>7. CASE Disk /\ UNCHANGED <<rows, imports, previews, walk, clock>>
      BY <3>7 DEF previews
    <3> QED BY <1>1, <3>1, <3>2, <3>3, <3>4, <3>5, <3>6, <3>7 DEF Next
  <2> QED BY <2>1, <2>2, <2>3, <2>4, <2>5
<1>2. LibraryInv /\ [Next]_vars => [Shows]_vars
  BY <1>1
<1> QED BY <1>2, LibraryInvariant, PTL DEF Spec, PreviewsShowTheirMedia
=============================================================================
