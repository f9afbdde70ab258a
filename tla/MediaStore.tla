----------------------------- MODULE MediaStore -----------------------------
(* Media bytes on disk: the user's own file, the capabilities of the import *)
(* picker (held in memory), and the content-addressed store that takes a    *)
(* verified copy.  A content stands for its bytes and for their SHA-256.    *)
EXTENDS Naturals, FiniteSets

CONSTANTS
  Contents,   \* what a media file may hold
  Tokens,     \* import capabilities
  MaxFaults   \* bound: edits of the user's file, objects damaged from outside, process exits

\* A content is none of the words that say that there is none.
ASSUME MediaStoreAssumption ==
  /\ MaxFaults \in Nat /\ Contents # {}
  /\ Contents \cap {"none", "absent", "damaged", "removed"} = {}

VARIABLES
  file,     \* the user's file
  picking,  \* the technical facts the picker has read, before it reads the bytes
  caps,     \* the picker's capability records
  objects,  \* the store: sha256/<hash>
  faults    \* bound counters

disk == <<file, picking, caps, objects, faults>>
Faults == faults.edits + faults.objects + faults.crashes

NoCap == [hash |-> "none"]
NotPicking == "none"
ObjectStates == Contents \cup {"absent", "damaged"}

DiskInit ==
  /\ file \in Contents /\ picking = NotPicking
  /\ caps = [t \in Tokens |-> NoCap]
  /\ objects = [c \in Contents |-> "absent"]
  /\ faults = [edits |-> 0, objects |-> 0, crashes |-> 0]

Usable(t) == caps[t] # NoCap /\ caps[t].live

\* The user saves another content to the file.
EditFile ==
  /\ Faults < MaxFaults /\ faults' = [faults EXCEPT !.edits = @ + 1]
  /\ file' \in Contents \ {file}
  /\ UNCHANGED <<picking, caps, objects>>

\* Another program, or the disk, changes an object in place.
DamageObject ==
  /\ Faults < MaxFaults /\ faults' = [faults EXCEPT !.objects = @ + 1]
  /\ \E c \in Contents : objects[c] \in Contents /\ objects' = [objects EXCEPT ![c] = "damaged"]
  /\ UNCHANGED <<file, picking, caps>>

\* createImportDescriptor reads the facts first and digests the bytes in a second pass over the file.
technicalFacts == picking = NotPicking /\ picking' = file /\ UNCHANGED <<file, caps, objects, faults>>

digestFile ==
  /\ picking # NotPicking /\ picking' = NotPicking
  /\ \E t \in Tokens : /\ caps[t] = NoCap
                       /\ caps' = [caps EXCEPT ![t] = [hash |-> file, facts |-> picking, live |-> TRUE]]
  /\ UNCHANGED <<file, objects, faults>>

\* Five minutes pass, or the record is dropped.
ExpireCapability ==
  /\ \E t \in Tokens : Usable(t) /\ caps' = [caps EXCEPT ![t].live = FALSE]
  /\ UNCHANGED <<file, picking, objects, faults>>

\* Mutant: the bytes are not compared with the digest.
assertNothing(hash, read) == TRUE

\* assertActual: what was read, from the stream or from the store, is what the descriptor promised.
assertActual(hash, read) == read = hash

\* putVerified, the link: an object that is there already is kept, and must be whole.
Linked(hash, part) == objects' = IF objects[hash] = "absent" THEN [objects EXCEPT ![hash] = part] ELSE objects
MayLink(hash) == objects[hash] = "absent" \/ assertActual(hash, objects[hash])

\* verify and inspectOpenFile: the whole object is read.
verify(hash) == assertActual(hash, objects[hash])

\* A process that ends takes the capabilities and what the picker had read with it.
DiskCrash ==
  /\ Faults < MaxFaults /\ faults' = [faults EXCEPT !.crashes = @ + 1]
  /\ caps' = [t \in Tokens |-> IF caps[t] = NoCap THEN NoCap ELSE [caps[t] EXCEPT !.live = FALSE]]
  /\ picking' = NotPicking /\ UNCHANGED <<file, objects>>
=============================================================================
