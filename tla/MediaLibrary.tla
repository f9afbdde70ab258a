---------------------------- MODULE MediaLibrary ----------------------------
(* The global media library and a Project's references into it: imports,    *)
(* which run over several awaits, beside repeats of their own request,      *)
(* other imports, removals and a process exit; previews, which are granted  *)
(* first and asked for later; and lists that are read page by page while    *)
(* the rows move.                                                           *)
EXTENDS MediaStore, Sequences

CONSTANTS
  Requests,   \* media.global.import requests, each with a stable requestId
  Calls,      \* how many imports may be on their way at a time
  Assets,     \* identifiers of global assets, in the order of their text (numbers)
  MaxRevision,  \* bound: revisions of a Project reference
  PageSize,   \* rows of one page
  MaxTime,    \* bound: distinct timestamps
  MaxGrants,  \* the preview gateway's capacity (1000 in the code)
  MaxBusy     \* bound: imports, picks, previews and lists under way at a time

ASSUME MediaLibraryAssumption ==
  /\ Assets \subseteq Nat \ {0} /\ IsFiniteSet(Assets) /\ "none" \notin Requests
  /\ {MaxRevision, MaxTime, MaxBusy} \subseteq Nat /\ {MaxGrants, PageSize} \subseteq Nat \ {0}

VARIABLES
  blobs,     \* media_blobs: hash to the technical facts recorded with it
  assets,    \* global_media_assets
  refs,      \* project_media_refs of one Project
  results,   \* assets that a generated result or a derivation output names
  asked,     \* the capability each import request names
  receipts,  \* wire_command_receipts of imports: the asset that was answered
  calls,     \* imports on their way
  grants,    \* preview capabilities, oldest first
  reader,    \* one preview response on its way
  walk,      \* one list read page by page
  clock

rows == <<blobs, assets, refs, results>>
imports == <<asked, receipts, calls>>
previews == <<grants, reader>>
vars == <<disk, rows, imports, previews, walk, clock>>

NoAsset == [blob |-> "none"]
NoRef == [state |-> "none", revision |-> 0, updated |-> 0]
Idle == [pc |-> "idle"]
NoReader == [pc |-> "none"]
Removed == [blob |-> "removed"]
NoWalk == [list |-> "none", after |-> <<>>, pages |-> <<>>, stood |-> {}]

Stored(a) == assets[a] \notin {NoAsset, Removed}
\* Identifiers are not used twice.
Unused == {a \in Assets : assets[a] = NoAsset /\ \A b \in Assets : assets[b] = NoAsset => a <= b}

Busy ==
  Cardinality({c \in Calls : calls[c] # Idle}) + (IF picking # NotPicking THEN 1 ELSE 0)
    + (IF reader # NoReader THEN 1 ELSE 0) + (IF walk # NoWalk THEN 1 ELSE 0)
MayStart == Busy < MaxBusy

\* The row of a new asset, and of a reference that was written.
Asset(hash, request) == [blob |-> hash, request |-> request, created |-> clock']
Ref(state, revision) == [state |-> state, revision |-> revision, updated |-> clock']

\* A write is stamped with the millisecond it happens in; the next one may fall into the same.
Stamp == clock' \in {clock, clock + 1} \cap 0..MaxTime

\* A row that changes does not stand still for the list that is being read.
Moves(a) == walk' = [walk EXCEPT !.stood = @ \ {a}]

-----------------------------------------------------------------------------
(* media.global.import *)

Becomes(c, pc) == calls' = [calls EXCEPT ![c].pc = pc]
Ends(c) == calls' = [calls EXCEPT ![c] = Idle]
unchangedByImports == UNCHANGED <<results, previews, refs>>

\* importGlobal up to its first await: a request that was answered is answered again.
importGlobal(c, r) ==
  /\ MayStart /\ calls[c] = Idle /\ receipts[r] = 0
  /\ \E t \in Tokens :
       /\ asked[r] \in {"none", t} /\ asked' = [asked EXCEPT ![r] = t]
       /\ Usable(t)
       /\ calls' = [calls EXCEPT ![c] = [pc |-> "writing", part |-> "none", request |-> r, hash |-> caps[t].hash, facts |-> caps[t].facts]]
  /\ UNCHANGED <<disk, blobs, assets, receipts, walk, clock>> /\ unchangedByImports

\* putVerified: the part file is written and synced, or removed with an error.
WritePart(c) ==
  /\ calls[c].pc = "writing"
  /\ IF assertActual(calls[c].hash, file)
     THEN calls' = [calls EXCEPT ![c] = [@ EXCEPT !.pc = "linking", !.part = file]] ELSE Ends(c)
  /\ UNCHANGED <<disk, blobs, assets, asked, receipts, walk, clock>> /\ unchangedByImports

LinkPart(c) ==
  /\ calls[c].pc = "linking"
  /\ IF MayLink(calls[c].hash)
     THEN Linked(calls[c].hash, calls[c].part) /\ Becomes(c, "verifying")
     ELSE Ends(c) /\ UNCHANGED objects
  /\ UNCHANGED <<file, picking, caps, faults, blobs, assets, asked, receipts, walk, clock>> /\ unchangedByImports

Verify(c) ==
  /\ calls[c].pc = "verifying"
  /\ IF verify(calls[c].hash) THEN Becomes(c, "committing") ELSE Ends(c)
  /\ UNCHANGED <<disk, blobs, assets, asked, receipts, walk, clock>> /\ unchangedByImports

\* insertOrValidateMediaBlob: what is known of these bytes must agree.
FactsAgree(hash, facts) == blobs[hash] \in {"none", facts}
Recorded(hash, facts) == [blobs EXCEPT ![hash] = facts]

\* Mutant: only the first look at the receipts counts.
neverAgain(r) == FALSE

\* executeWireMutation looks at the receipts again, in the transaction.
replayed(r) == receipts[r] # 0

Commit(c) ==
  /\ calls[c].pc = "committing" /\ Ends(c)
  /\ IF replayed(calls[c].request) \/ ~FactsAgree(calls[c].hash, calls[c].facts)
     THEN UNCHANGED <<blobs, assets, receipts, clock>>
     ELSE \E a \in Unused :
            /\ Stamp
            /\ blobs' = Recorded(calls[c].hash, calls[c].facts)
            /\ assets' = [assets EXCEPT ![a] = Asset(calls[c].hash, calls[c].request)]
            /\ receipts' = [receipts EXCEPT ![calls[c].request] = a]
  /\ UNCHANGED <<disk, asked, walk>> /\ unchangedByImports

-----------------------------------------------------------------------------
(* Other rows *)

unchangedByRows == UNCHANGED <<disk, imports, previews>>

\* publishOutputs of a generation or a derivation: its bytes are stored and verified before.
PublishOutput ==
  /\ \E h \in Contents, a \in Unused :
       /\ verify(h) /\ FactsAgree(h, h) /\ Stamp
       /\ blobs' = Recorded(h, h)
       /\ assets' = [assets EXCEPT ![a] = Asset(h, "none")]
       /\ results' = results \cup {a}
       /\ refs' = [refs EXCEPT ![a] = Ref("active", 1)]
  /\ UNCHANGED walk /\ unchangedByRows

\* attachProjectMediaInTransaction: a new reference, or the old one revised.
attachProjectMedia(a) ==
  /\ Stored(a) /\ refs[a].revision < MaxRevision /\ Stamp
  /\ refs' = [refs EXCEPT ![a] = Ref("active", @.revision + 1)]
  /\ Moves(a) /\ UNCHANGED <<blobs, assets, results>> /\ unchangedByRows

detachProjectMedia(a) ==
  /\ refs[a].state = "active" /\ refs[a].revision < MaxRevision /\ Stamp
  /\ refs' = [refs EXCEPT ![a] = Ref("detached", @.revision + 1)]
  /\ Moves(a) /\ UNCHANGED <<blobs, assets, results>> /\ unchangedByRows

\* Mutant: a detached reference is taken for none.
activelyReferenced(a) == refs[a].state = "active" \/ a \in results

\* referencedTable: detached references count, a Project may attach them again.
referencedTable(a) == refs[a] # NoRef \/ a \in results

\* The bytes stay.
removeGlobal(a) ==
  /\ Stored(a) /\ ~referencedTable(a)
  /\ assets' = [assets EXCEPT ![a] = Removed]
  /\ Moves(a) /\ UNCHANGED <<blobs, refs, results, clock>> /\ unchangedByRows

-----------------------------------------------------------------------------
(* Previews *)

unchangedByPreviews == UNCHANGED <<disk, rows, imports, walk, clock>>

\* Mutant: an attached reference will do, revised or not.
resolvesAnyRevision(a, revision) == refs[a].state = "active" /\ Stored(a)

\* resolveProjectMedia: the reference as it was when the preview was asked for, and attached.
resolves(a, revision) == refs[a].state = "active" /\ refs[a].revision = revision /\ Stored(a)

Forgotten(granted) == IF Len(granted) >= MaxGrants THEN Tail(granted) ELSE granted

issue(a) ==
  /\ resolves(a, refs[a].revision)
  /\ grants' = Append(Forgotten(grants), [asset |-> a, revision |-> refs[a].revision])
  /\ UNCHANGED reader /\ unchangedByPreviews

\* pruneExpired: all grants live equally long, the oldest expires first.
pruneExpired == grants # <<>> /\ grants' = Tail(grants) /\ UNCHANGED reader /\ unchangedByPreviews

\* respond: the grant is looked up and its source resolved again.
respond ==
  /\ MayStart /\ reader = NoReader
  /\ \E i \in DOMAIN grants :
       /\ resolves(grants[i].asset, grants[i].revision)
       /\ reader' = [pc |-> "opening", hash |-> assets[grants[i].asset].blob, of |-> grants[i]]
  /\ UNCHANGED grants /\ unchangedByPreviews

\* openVerifiedFileRange: the whole object is digested before its first byte leaves.
openVerifiedFileRange ==
  /\ reader.pc = "opening"
  /\ reader' = IF verify(reader.hash) THEN [reader EXCEPT !.pc = "streaming"] ELSE NoReader
  /\ UNCHANGED grants /\ unchangedByPreviews

\* The body ends, is cancelled, or breaks off.
EndOfBody == reader.pc = "streaming" /\ reader' = NoReader /\ UNCHANGED grants /\ unchangedByPreviews

-----------------------------------------------------------------------------
(* Lists, newest first.  A cursor names the last row of the page before.    *)

Precedes(k, l) == k[1] > l[1] \/ (k[1] = l[1] /\ k[2] > l[2])

Rows(list) ==
  IF list = "global" THEN {<<assets[a].created, a>> : a \in {b \in Assets : Stored(b)}}
  ELSE {<<refs[a].updated, a>> : a \in {b \in Assets : refs[b].state = "active"}}

\* Mutant: the cursor is a time alone.
afterTime(k, cursor) == cursor = <<>> \/ k[1] < cursor[1]

After(k, cursor) == cursor = <<>> \/ Precedes(cursor, k)

Page(rest) == {k \in rest : Cardinality({l \in rest : Precedes(l, k)}) < PageSize}
LastOf(page) == CHOOSE k \in page : \A l \in page : l = k \/ Precedes(l, k)

BeginList ==
  /\ MayStart /\ walk = NoWalk
  /\ \E list \in {"global", "project"} :
       walk' = [list |-> list, after |-> <<>>, pages |-> <<>>, stood |-> {k[2] : k \in Rows(list)}]
  /\ UNCHANGED <<disk, rows, imports, previews, clock>>

\* listGlobal, media.project.list: there is a next page if one row more was found.
ListPage ==
  /\ walk.list \in {"global", "project"}
  /\ LET rest == {k \in Rows(walk.list) : After(k, walk.after)}
         page == Page(rest) IN
     walk' = [walk EXCEPT !.pages = Append(@, {k[2] : k \in page}),
                          !.list = IF rest = page THEN "read" ELSE @,
                          !.after = IF rest = page THEN <<>> ELSE LastOf(page)]
  /\ UNCHANGED <<disk, rows, imports, previews, clock>>

CloseList == walk.list = "read" /\ walk' = NoWalk /\ UNCHANGED <<disk, rows, imports, previews, clock>>

-----------------------------------------------------------------------------
Crash ==
  /\ DiskCrash
  /\ calls' = [c \in Calls |-> Idle] /\ grants' = <<>> /\ reader' = NoReader /\ walk' = NoWalk
  /\ UNCHANGED <<rows, asked, receipts, clock>>

Init ==
  /\ DiskInit
  /\ blobs = [c \in Contents |-> "none"] /\ assets = [a \in Assets |-> NoAsset]
  /\ refs = [a \in Assets |-> NoRef] /\ results = {}
  /\ asked = [r \in Requests |-> "none"] /\ receipts = [r \in Requests |-> 0]
  /\ calls = [c \in Calls |-> Idle]
  /\ grants = <<>> /\ reader = NoReader /\ walk = NoWalk /\ clock = 0

Disk == EditFile \/ DamageObject \/ (MayStart /\ technicalFacts) \/ digestFile \/ ExpireCapability

Import(c) ==
  (\E r \in Requests : importGlobal(c, r)) \/ WritePart(c) \/ LinkPart(c) \/ Verify(c) \/ Commit(c)

Next ==
  \/ Disk /\ UNCHANGED <<rows, imports, previews, walk, clock>>
  \/ \E c \in Calls : Import(c)
  \/ PublishOutput
  \/ \E a \in Assets : attachProjectMedia(a) \/ detachProjectMedia(a) \/ removeGlobal(a) \/ issue(a)
  \/ pruneExpired \/ respond \/ openVerifiedFileRange \/ EndOfBody
  \/ BeginList \/ ListPage \/ CloseList
  \/ Crash

Spec == Init /\ [][Next]_vars

-----------------------------------------------------------------------------
\* What is recorded of media exists: the store holds an object under every recorded hash, with exactly its
\* bytes unless something outside changed them, and every reference and result names a stored asset of
\* recorded media (global-media.ts:210-216, :365; filesystem-media-cas.ts:162).
LibraryIsBacked ==
  /\ \A c \in Contents : blobs[c] # "none" => objects[c] = c \/ (objects[c] = "damaged" /\ faults.objects > 0)
  /\ \A a \in Assets : refs[a] # NoRef \/ a \in results => Stored(a)
  /\ \A a \in Assets : Stored(a) => blobs[assets[a].blob] # "none"

\* A request that is sent again, during, after or across the end of the process, imports once
\* (global-media.ts:183, command.ts:42).
OneAssetPerRequest ==
  \A r \in Requests : Cardinality({a \in Assets : Stored(a) /\ assets[a].request = r}) <= 1

\* A preview that starts to stream shows the bytes its reference had when the preview was granted: the
\* reference was not revised or detached before the request, and the bytes were inspected after it
\* (media-preview.ts:281, filesystem-media-cas.ts:91).
PreviewsShowTheirMedia ==
  [][/\ reader = NoReader /\ reader' # NoReader => refs[reader'.of.asset].revision = reader'.of.revision
     /\ reader'.pc = "streaming" /\ reader.pc = "opening" => objects[assets[reader.of.asset].blob] = reader.hash]_vars

\* A list read to its end shows every row that stood still meanwhile, and none twice, whatever is added,
\* moved or removed between two pages and however many rows share a timestamp (global-media.ts:277-310).
WalksShowWhatStood ==
  /\ walk.list = "read" => walk.stood \subseteq UNION {walk.pages[i] : i \in DOMAIN walk.pages}
  /\ \A i, j \in DOMAIN walk.pages : i < j => walk.pages[i] \cap walk.pages[j] = {}
=============================================================================
