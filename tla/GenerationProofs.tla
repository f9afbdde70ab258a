-------------------------- MODULE GenerationProofs --------------------------
(* What every resumption of a client does to the row it works on, whatever   *)
(* the other client did during its awaits, and the invariants of Generation  *)
(* that follow for every number of operations, quotes, charges and crashes.  *)
EXTENDS Generation, FiniteSetTheorems, WellFoundedInduction, TLAPS

\* What a row says about itself beyond its ledger: it has a receipt once it is submitted, and not
\* before.
RowInv(r) == /\ Entitled(r)
             /\ r.state = "running" => r.receipt = "none"
             /\ r.state = "absent" => ~r.cancel
Live(r) == r \in Rows /\ RowInv(r) /\ r.state # "absent"

\* One or several transactions of a resumption take a live row r to s; they may raise the revision of
\* one that ended.
Bare(r) == [r EXCEPT !.moves = 0]
Advance(r, s) == /\ Live(s) /\ Allowed(r, s)
                 /\ Terminal(r) => Bare(s) \in {Bare(r), Older(Bare(r))}
                 /\ s.moves >= r.moves
                 /\ s.moves = r.moves => s.state = r.state /\ s.cancel = r.cancel

LEMMA RowFields ==
  ASSUME NEW r \in Rows
  PROVE  /\ r.state \in States /\ r.receipt \in Receipts /\ r.cancel \in BOOLEAN
         /\ r.quote \in Quotes \cup {0} /\ r.charge \in Nat /\ r.moves \in Nat
         /\ r.cost \in {"none", "reserved", "settled", "released"}
         /\ r.count \in {"none", "reserved", "fresh", "dated", "released"}
BY DEF Rows

LEMMA AdvanceStays == ASSUME NEW r, Live(r) PROVE Advance(r, r)
BY RowFields DEF Advance, Live, Allowed, Receipts

LEMMA AdvanceOlder == ASSUME NEW r, Live(r) PROVE Advance(r, Older(r))
<1>1. r \in Rows BY DEF Live
<1>2. Bare(Older(r)) = Older(Bare(r)) BY <1>1 DEF Bare, Older, Rows
<1>3. Live(Older(r)) /\ Allowed(r, Older(r)) /\ Older(r).moves = r.moves
      /\ Older(r).state = r.state /\ Older(r).cancel = r.cancel
  BY RowFields DEF Live, Allowed, Receipts, Older, RowInv, Entitled, Rows, Terminal
<1> QED BY <1>1, <1>2, <1>3, RowFields DEF Advance

LEMMA AdvanceTwice ==
  ASSUME NEW r, NEW s, NEW t, Live(r), Advance(r, s), Advance(s, t) PROVE Advance(r, t)
<1>1. r \in Rows /\ s \in Rows /\ t \in Rows BY DEF Advance, Live
<1>2. /\ t.moves >= r.moves
      /\ t.moves = r.moves => t.state = r.state /\ t.cancel = r.cancel
  BY <1>1, RowFields DEF Advance
<1>3. Bare(r) \in Rows BY <1>1 DEF Bare, Rows
<1>4. Older(Older(Bare(r))) = Older(Bare(r)) BY <1>3 DEF Older, Rows
<1>5. Terminal(r) => Terminal(s) BY DEF Advance, Allowed, Terminal
<1>6. Terminal(r) => Bare(t) \in {Bare(r), Older(Bare(r))} BY <1>4, <1>5 DEF Advance
<1>7. Allowed(r, t)
  <2>1. r.state \in States /\ s.state \in States /\ t.state \in States BY <1>1, RowFields
  <2>2. r.state # "absent" /\ s.state # "absent" BY DEF Advance, Live
  <2>3. Allowed(r, s) /\ Allowed(s, t) BY DEF Advance
  <2>4. t.state # r.state => ~Terminal(r) /\ t.state \in AttemptStateTransitions[r.state]
    BY <2>1, <2>2, <2>3 DEF Allowed, AttemptStateTransitions, Terminal, States, Ended
  <2>5. r.state = "unknown" /\ t.state \in {"submitted", "succeeded"} => t.receipt = "reconciled"
    BY <2>1, <2>2, <2>3 DEF Allowed, AttemptStateTransitions, Terminal, States, Ended
  <2>6. /\ r.cancel => t.cancel
        /\ r.receipt # "none" => t.receipt \in {r.receipt, "reconciled"}
    BY <2>3 DEF Allowed
  <2> QED BY <2>4, <2>5, <2>6 DEF Allowed
<1> QED BY <1>2, <1>6, <1>7 DEF Advance

LEMMA RowSteps ==
  ASSUME NEW r \in Rows, ~Terminal(r)
  PROVE  /\ Unknown(r) = IF r.state = "unknown" THEN r
                         ELSE [r EXCEPT !.state = "unknown", !.moves = r.moves + 1]
         /\ \A end : GivenUp(r, end) = [r EXCEPT !.state = end, !.cost = "released",
                                                 !.count = "released", !.moves = r.moves + 1]
         /\ \A end, n : Paid(r, end, n) = [r EXCEPT !.state = end, !.cost = "settled",
                                                    !.charge = n, !.moves = r.moves + 1]
         /\ Claimed(r) = [r EXCEPT !.moves = r.moves + 1]
         /\ CancelRequested(r) = [r EXCEPT !.cancel = TRUE, !.moves = r.moves + 1]
         /\ Moved([r EXCEPT !.state = "submitted"]) = [r EXCEPT !.state = "submitted", !.moves = r.moves + 1]
BY DEF Unknown, GivenUp, Paid, Claimed, CancelRequested, Moved, Rows

LEMMA RowWrites ==
  ASSUME NEW r \in Rows, NEW m \in Nat, NEW end \in States, NEW n \in Nat, NEW got \in Receipts
  PROVE  /\ [r EXCEPT !.state = end, !.moves = m] \in Rows
         /\ [r EXCEPT !.state = end, !.cost = "released", !.count = "released", !.moves = m] \in Rows
         /\ [r EXCEPT !.state = end, !.cost = "settled", !.charge = n, !.moves = m] \in Rows
         /\ [r EXCEPT !.moves = m] \in Rows
         /\ [r EXCEPT !.cancel = TRUE, !.moves = m] \in Rows
         /\ [r EXCEPT !.count = "fresh", !.receipt = got, !.state = end, !.moves = m] \in Rows
         /\ [r EXCEPT !.count = "fresh", !.receipt = "reconciled", !.moves = m] \in Rows
<1>1. [r EXCEPT !.state = end, !.moves = m] \in Rows BY DEF Rows
<1>2. [r EXCEPT !.state = end, !.cost = "released", !.count = "released", !.moves = m] \in Rows
  BY DEF Rows
<1>3. [r EXCEPT !.state = end, !.cost = "settled", !.charge = n, !.moves = m] \in Rows BY DEF Rows
<1>4. [r EXCEPT !.moves = m] \in Rows BY DEF Rows
<1>5. [r EXCEPT !.cancel = TRUE, !.moves = m] \in Rows BY DEF Rows
<1>6. [r EXCEPT !.count = "fresh", !.receipt = got, !.state = end, !.moves = m] \in Rows BY DEF Rows
<1>7. [r EXCEPT !.count = "fresh", !.receipt = "reconciled", !.moves = m] \in Rows
  BY DEF Rows, Receipts
<1> QED BY <1>1, <1>2, <1>3, <1>4, <1>5, <1>6, <1>7

\* A revision of a live row that has not ended: what it must keep.
LEMMA AdvanceMoves ==
  ASSUME NEW r, NEW s, Live(r), ~Terminal(r), s \in Rows, s.moves = r.moves + 1,
         Allowed(r, s), RowInv(s), s.state # "absent"
  PROVE  Advance(r, s)
<1>1. r.moves \in Nat BY RowFields DEF Live
<1> QED BY <1>1 DEF Advance, Live

LEMMA AdvanceUnknown == ASSUME NEW r, Live(r) PROVE Advance(r, Unknown(r))
<1>1. CASE Terminal(r) \/ r.state = "unknown" BY <1>1, AdvanceStays DEF Unknown
<1>2. CASE ~Terminal(r) /\ r.state # "unknown"
  <2> DEFINE s == [r EXCEPT !.state = "unknown", !.moves = r.moves + 1]
  <2>1. r \in Rows /\ RowInv(r) /\ r.state \in {"running", "submitted"}
    BY <1>2, RowFields DEF Live, Terminal, States
  <2>2. /\ s \in Rows /\ s.moves = r.moves + 1 /\ s.state = "unknown" /\ s.receipt = r.receipt
        /\ s.cancel = r.cancel /\ s.cost = r.cost /\ s.count = r.count
    <3>1. r.moves + 1 \in Nat BY <2>1, RowFields
    <3>2. s \in Rows BY <2>1, <3>1, RowWrites DEF States, Receipts, Ended
    <3>3. /\ s.moves = r.moves + 1 /\ s.state = "unknown" /\ s.receipt = r.receipt
         /\ s.cancel = r.cancel /\ s.cost = r.cost /\ s.count = r.count
      BY <2>1 DEF Rows, States, Receipts, Ended
    <3> QED BY <3>2, <3>3
  <2>3. Allowed(r, s) BY <2>1, <2>2 DEF Allowed, AttemptStateTransitions, Terminal, Ended
  <2>4. RowInv(s) BY <2>1, <2>2 DEF RowInv, Entitled, Terminal, Ended
  <2>5. Advance(r, s) BY <1>2, <2>2, <2>3, <2>4, AdvanceMoves
  <2> QED BY <1>2, <2>1, <2>5, RowSteps
<1> QED BY <1>1, <1>2

LEMMA AdvanceGivenUp ==
  ASSUME NEW r, Live(r), NEW end \in {"failed", "cancelled"}, ~Terminal(r), r.receipt = "none"
  PROVE  Advance(r, GivenUp(r, end))
<1> DEFINE s == [r EXCEPT !.state = end, !.cost = "released", !.count = "released", !.moves = r.moves + 1]
<1>1. r \in Rows /\ RowInv(r) /\ r.state \in {"running", "submitted", "unknown"}
  BY RowFields DEF Live, Terminal, States
<1>2. /\ s \in Rows /\ s.moves = r.moves + 1 /\ s.state = end /\ s.receipt = "none"
      /\ s.cancel = r.cancel /\ s.cost = "released" /\ s.count = "released"
  <2>1. r.moves + 1 \in Nat BY <1>1, RowFields
  <2>2. s \in Rows BY <1>1, <2>1, RowWrites DEF States, Receipts, Ended
  <2>3. /\ s.moves = r.moves + 1 /\ s.state = end /\ s.receipt = "none"
       /\ s.cancel = r.cancel /\ s.cost = "released" /\ s.count = "released"
    BY <1>1 DEF Rows, States, Receipts, Ended
  <2> QED BY <2>2, <2>3
<1>w. GivenUp(r, end) = s BY <1>1, RowSteps
<1> HIDE DEF s
<1>3. Allowed(r, s) BY <1>1, <1>2 DEF Allowed, AttemptStateTransitions, Terminal, Ended
<1>4. RowInv(s) BY <1>1, <1>2 DEF RowInv, Entitled, Terminal, Ended
<1> QED BY <1>1, <1>2, <1>3, <1>4, <1>w, AdvanceMoves DEF Ended

LEMMA AdvancePaid ==
  ASSUME NEW r, Live(r), NEW end \in Ended, NEW n \in Nat, ~Terminal(r), r.receipt # "none", MayLeave(r)
  PROVE  Advance(r, Paid(r, end, n))
<1> DEFINE s == [r EXCEPT !.state = end, !.cost = "settled", !.charge = n, !.moves = r.moves + 1]
<1>1. r \in Rows /\ RowInv(r) /\ r.state \in {"submitted", "unknown"}
  BY RowFields DEF Live, Terminal, States, RowInv
<1>2. /\ s \in Rows /\ s.moves = r.moves + 1 /\ s.state = end /\ s.receipt = r.receipt
      /\ s.cancel = r.cancel /\ s.cost = "settled" /\ s.count = r.count
  <2>1. r.moves + 1 \in Nat BY <1>1, RowFields
  <2>2. s \in Rows BY <1>1, <2>1, RowWrites DEF States, Receipts, Ended
  <2>3. /\ s.moves = r.moves + 1 /\ s.state = end /\ s.receipt = r.receipt
       /\ s.cancel = r.cancel /\ s.cost = "settled" /\ s.count = r.count
    BY <1>1 DEF Rows, States, Receipts, Ended
  <2> QED BY <2>2, <2>3
<1>w. Paid(r, end, n) = s BY <1>1 DEF Paid, Moved, Rows
<1> HIDE DEF s
<1>3. Allowed(r, s) BY <1>1, <1>2 DEF Allowed, AttemptStateTransitions, Terminal, Ended, MayLeave
<1>4. RowInv(s) BY <1>1, <1>2 DEF RowInv, Entitled, Terminal, Ended
<1> QED BY <1>1, <1>2, <1>3, <1>4, <1>w, AdvanceMoves DEF Ended

LEMMA AdvanceSubmitted ==
  ASSUME NEW r, Live(r), r.state = "unknown", MayLeave(r)
  PROVE  Advance(r, Moved([r EXCEPT !.state = "submitted"]))
<1> DEFINE s == [r EXCEPT !.state = "submitted", !.moves = r.moves + 1]
<1>1. r \in Rows /\ RowInv(r) /\ r.receipt = "reconciled" /\ ~Terminal(r)
  BY DEF Live, MayLeave, Terminal, Ended
<1>2. /\ s \in Rows /\ s.moves = r.moves + 1 /\ s.state = "submitted" /\ s.receipt = r.receipt
      /\ s.cancel = r.cancel /\ s.cost = r.cost /\ s.count = r.count
  <2>1. r.moves + 1 \in Nat BY <1>1, RowFields
  <2>2. s \in Rows BY <1>1, <2>1, RowWrites DEF States, Receipts, Ended
  <2>3. /\ s.moves = r.moves + 1 /\ s.state = "submitted" /\ s.receipt = r.receipt
       /\ s.cancel = r.cancel /\ s.cost = r.cost /\ s.count = r.count
    BY <1>1 DEF Rows, States, Receipts, Ended
  <2> QED BY <2>2, <2>3
<1>w. Moved([r EXCEPT !.state = "submitted"]) = s BY <1>1, RowSteps
<1> HIDE DEF s
<1>3. Allowed(r, s) BY <1>1, <1>2 DEF Allowed, AttemptStateTransitions, Terminal, Ended
<1>4. RowInv(s) BY <1>1, <1>2 DEF RowInv, Entitled, Terminal, Ended
<1> QED BY <1>1, <1>2, <1>3, <1>4, <1>w, AdvanceMoves

LEMMA AdvanceClaimed == ASSUME NEW r, Live(r) PROVE Advance(r, Claimed(r))
<1> DEFINE s == [r EXCEPT !.moves = r.moves + 1]
<1>1. r \in Rows /\ RowInv(r) BY DEF Live
<1>2. /\ s \in Rows /\ s.moves = r.moves + 1 /\ s.state = r.state /\ s.receipt = r.receipt
      /\ s.cancel = r.cancel /\ s.cost = r.cost /\ s.count = r.count
  <2>1. r.moves + 1 \in Nat BY <1>1, RowFields
  <2>2. s \in Rows BY <1>1, <2>1, RowWrites DEF States, Receipts, Ended
  <2>3. /\ s.moves = r.moves + 1 /\ s.state = r.state /\ s.receipt = r.receipt
       /\ s.cancel = r.cancel /\ s.cost = r.cost /\ s.count = r.count
    BY <1>1 DEF Rows, States, Receipts, Ended
  <2> QED BY <2>2, <2>3
<1>w. Claimed(r) = s /\ Bare(s) = Bare(r) BY <1>1 DEF Claimed, Moved, Bare, Rows
<1> HIDE DEF s
<1>3. Allowed(r, s) BY <1>1, <1>2 DEF Allowed
<1>4. RowInv(s) /\ s.state # "absent" BY <1>1, <1>2 DEF RowInv, Entitled, Terminal, Live
<1> QED BY <1>1, <1>2, <1>3, <1>4, <1>w, RowFields DEF Advance, Live

LEMMA AdvanceCancel == ASSUME NEW r, Live(r), ~Terminal(r) PROVE Advance(r, CancelRequested(r))
<1> DEFINE s == [r EXCEPT !.cancel = TRUE, !.moves = r.moves + 1]
<1>1. r \in Rows /\ RowInv(r) BY DEF Live
<1>2. /\ s \in Rows /\ s.moves = r.moves + 1 /\ s.state = r.state /\ s.receipt = r.receipt
      /\ s.cancel /\ s.cost = r.cost /\ s.count = r.count
  <2>1. r.moves + 1 \in Nat BY <1>1, RowFields
  <2>2. s \in Rows BY <1>1, <2>1, RowWrites DEF States, Receipts, Ended
  <2>3. /\ s.moves = r.moves + 1 /\ s.state = r.state /\ s.receipt = r.receipt
       /\ s.cancel /\ s.cost = r.cost /\ s.count = r.count
    BY <1>1 DEF Rows, States, Receipts, Ended
  <2> QED BY <2>2, <2>3
<1>w. CancelRequested(r) = s BY <1>1, RowSteps
<1> HIDE DEF s
<1>3. Allowed(r, s) BY <1>1, <1>2 DEF Allowed
<1>4. RowInv(s) /\ s.state # "absent" BY <1>1, <1>2 DEF RowInv, Entitled, Terminal, Live
<1> QED BY <1>1, <1>2, <1>3, <1>4, <1>w, AdvanceMoves

\* Recording a receipt leaves the attempt submitted, unknown or ended.
LEMMA AdvanceRecorded ==
  ASSUME NEW r, Live(r), NEW rec \in BOOLEAN
  PROVE  /\ Advance(r, Recorded(r, rec))
         /\ Terminal(Recorded(r, rec)) <=> Terminal(r)
         /\ Recorded(r, rec).state \in {"submitted", "unknown"} \cup Ended
<1>1. r \in Rows /\ RowInv(r) /\ r.state \in {"running", "submitted", "unknown"} \cup Ended
  BY RowFields DEF Live, States
<1>2. CASE Terminal(r)
  <2>1. Recorded(r, rec) = r BY <1>2 DEF Recorded
  <2> QED BY <1>2, <2>1, AdvanceStays DEF Terminal
<1>3. CASE ~Terminal(r) /\ r.receipt = "none"
  <2> DEFINE got == IF rec THEN "reconciled" ELSE "held"
             st == IF r.state = "unknown" THEN "unknown" ELSE "submitted"
             s == [r EXCEPT !.count = "fresh", !.receipt = got, !.state = st, !.moves = r.moves + 1]
  <2>1. Recorded(r, rec) = s BY <1>1, <1>3 DEF Recorded, Moved, Rows
  <2>2. /\ s \in Rows /\ s.moves = r.moves + 1 /\ s.receipt \in {"reconciled", "held"}
        /\ s.state = IF r.state = "unknown" THEN "unknown" ELSE "submitted"
        /\ s.cancel = r.cancel /\ s.cost = r.cost /\ s.count = "fresh"
    <3>1. r.moves + 1 \in Nat BY <1>1, RowFields
    <3>2. got \in {"reconciled", "held"} /\ st \in {"unknown", "submitted"} OBVIOUS
    <3>3. st = IF r.state = "unknown" THEN "unknown" ELSE "submitted" OBVIOUS
    <3> HIDE DEF got, st
    <3>4. s \in Rows BY <1>1, <3>1, <3>2, RowWrites DEF States, Receipts
    <3>5. /\ s.moves = r.moves + 1 /\ s.receipt = got /\ s.state = st
          /\ s.cancel = r.cancel /\ s.cost = r.cost /\ s.count = "fresh"
      BY <1>1 DEF Rows
    <3> QED BY <3>2, <3>3, <3>4, <3>5
  <2> HIDE DEF s
  <2>3. r.state \in {"running", "submitted", "unknown"} BY <1>1, <1>3 DEF Terminal
  <2>4. Allowed(r, s) BY <1>3, <2>2, <2>3 DEF Allowed, AttemptStateTransitions, Terminal, Ended
  <2>5. RowInv(s) BY <1>1, <2>2, <2>3 DEF RowInv, Entitled, Terminal, Ended
  <2>6. Advance(r, s) BY <1>1, <1>3, <2>2, <2>4, <2>5, AdvanceMoves
  <2> QED BY <1>3, <2>1, <2>2, <2>6 DEF Terminal, Ended
<1>4. CASE ~Terminal(r) /\ r.receipt # "none"
  <2> DEFINE s == [r EXCEPT !.count = "fresh", !.receipt = "reconciled", !.moves = r.moves + 1]
  <2>1. r.state \in {"submitted", "unknown"} BY <1>1, <1>4 DEF Terminal, RowInv
  <2>2. CASE r.receipt = "held" /\ r.state = "unknown" /\ rec
    <3>1. Recorded(r, rec) = s BY <1>1, <1>4, <2>2 DEF Recorded, Moved, Rows
    <3>2. /\ s \in Rows /\ s.moves = r.moves + 1 /\ s.receipt = "reconciled" /\ s.state = "unknown"
          /\ s.cancel = r.cancel /\ s.cost = r.cost /\ s.count = "fresh"
      <4>1. r.moves + 1 \in Nat BY <1>1, <2>2, RowFields
      <4>2. s \in Rows BY <1>1, <2>2, <4>1, RowWrites DEF States, Receipts, Ended
      <4>3. /\ s.moves = r.moves + 1 /\ s.receipt = "reconciled" /\ s.state = "unknown"
           /\ s.cancel = r.cancel /\ s.cost = r.cost /\ s.count = "fresh"
        BY <1>1, <2>2 DEF Rows, States, Receipts, Ended
      <4> QED BY <4>2, <4>3
    <3> HIDE DEF s
    <3>3. Allowed(r, s) BY <2>2, <3>2 DEF Allowed
    <3>4. RowInv(s) BY <1>1, <2>2, <3>2 DEF RowInv, Entitled, Terminal, Ended
    <3>5. Advance(r, s) BY <1>1, <1>4, <3>2, <3>3, <3>4, AdvanceMoves
    <3> QED BY <1>4, <3>1, <3>2, <3>5 DEF Terminal, Ended
  <2>3. CASE ~(r.receipt = "held" /\ r.state = "unknown" /\ rec)
    <3>1. Recorded(r, rec) = r BY <1>4, <2>3 DEF Recorded
    <3> QED BY <2>1, <3>1, AdvanceStays
  <2> QED BY <2>2, <2>3
<1> QED BY <1>2, <1>3, <1>4

-----------------------------------------------------------------------------
(* Clients *)

\* What the provider can say: a job that runs or succeeded has a receipt, one that is not there has
\* none.
AnswerOK(a) == /\ a \in Answers
               /\ a.receipt => a.state \in {"unknown", "submitted"} \cup Ended
               /\ ~a.receipt => a.state \notin {"submitted", "succeeded"}
ClientOK(k) == k \in ClientStates /\ AnswerOK(k.answer) /\ (k.pc = "publishing" => k.answer.state \in Ended)

\* k is a state of client c beside row s.
Fits(c, s, k) == /\ ClientOK(k) /\ k.op = client[c].op /\ k.pc # "quoting"
                 /\ k.pc = "verifying" /\ k.behind = 0 => ~Terminal(s) /\ ~s.cancel

\* The resumption of c that started from row r ends.
Outcome(c, r) == \E s, k : Advance(r, s) /\ Fits(c, s, k) /\ Store(c, s, k)

LEMMA ClientFields ==
  ASSUME NEW k \in ClientStates
  PROVE  /\ k.pc \in Pcs /\ k.op \in Operations /\ k.behind \in 0..2 /\ k.cancelled \in BOOLEAN
         /\ k.reconciles \in BOOLEAN /\ k.answer \in Answers
BY DEF ClientStates

LEMMA NothingSaid == AnswerOK(NoAnswer)
BY DEF AnswerOK, NoAnswer, Answers

LEMMA AtFits ==
  ASSUME NEW c \in Clients, client[c] \in ClientStates, NEW pc \in Pcs
  PROVE  LET k == At(c, pc) IN k \in ClientStates /\ k.pc = pc /\ k.op = client[c].op
                               /\ k.answer = NoAnswer /\ k.behind = client[c].behind
                               /\ k.reconciles = client[c].reconciles
BY NothingSaid DEF At, ClientStates, AnswerOK

LEMMA FreshFits ==
  ASSUME NEW c \in Clients, client[c] \in ClientStates, NEW pc \in Pcs
  PROVE  LET k == Fresh(c, pc) IN k \in ClientStates /\ k.pc = pc /\ k.op = client[c].op
                                  /\ k.answer = NoAnswer /\ k.behind = 0
<1> DEFINE k == At(c, pc)
<1>1. k \in ClientStates /\ k.pc = pc /\ k.op = client[c].op /\ k.answer = NoAnswer BY AtFits
<1> HIDE DEF k
<1>2. [k EXCEPT !.behind = 0] \in ClientStates BY <1>1 DEF ClientStates
<1>3. LET n == [k EXCEPT !.behind = 0]
      IN n.pc = pc /\ n.op = client[c].op /\ n.answer = NoAnswer /\ n.behind = 0
  BY <1>1 DEF ClientStates
<1> QED BY <1>2, <1>3 DEF Fresh, k

LEMMA OffFits ==
  ASSUME NEW c \in Clients, client[c] \in ClientStates
  PROVE  LET k == Off(c) IN k \in ClientStates /\ k.pc = "off" /\ k.op = client[c].op
                            /\ k.answer = NoAnswer /\ k.behind = 0
<1> DEFINE k == Fresh(c, "off")
<1>1. k \in ClientStates /\ k.pc = "off" /\ k.op = client[c].op /\ k.answer = NoAnswer /\ k.behind = 0
  BY FreshFits DEF Pcs
<1> HIDE DEF k
<1>2. [k EXCEPT !.reconciles = FALSE] \in ClientStates BY <1>1 DEF ClientStates
<1>3. LET n == [k EXCEPT !.reconciles = FALSE]
      IN n.pc = "off" /\ n.op = client[c].op /\ n.answer = NoAnswer /\ n.behind = 0
  BY <1>1 DEF ClientStates
<1> QED BY <1>2, <1>3 DEF Off, k

LEMMA FitsAny ==
  ASSUME NEW c, NEW s, NEW k \in ClientStates, k.op = client[c].op, k.answer = NoAnswer,
         k.pc \notin {"quoting", "verifying", "publishing"}
  PROVE  Fits(c, s, k)
BY NothingSaid DEF Fits, ClientOK

LEMMA OutcomeLater ==
  ASSUME NEW c, NEW r, NEW s, Live(r), Advance(r, s), Outcome(c, s) PROVE Outcome(c, r)
BY AdvanceTwice DEF Outcome

LEMMA ThrowsOutcome ==
  ASSUME NEW c \in Clients, client[c] \in ClientStates, NEW r, Live(r), Throws(c, r)
  PROVE  Outcome(c, r)
BY OffFits, FitsAny, AdvanceStays DEF Outcome, Throws

LEMMA ReturnsOutcome ==
  ASSUME NEW c \in Clients, client[c] \in ClientStates, NEW r, Live(r), Returns(c, r)
  PROVE  Outcome(c, r)
<1>1. CASE Store(c, r, Off(c)) BY <1>1, OffFits, FitsAny, AdvanceStays DEF Outcome
<1>2. ASSUME NEW pc \in {"settling", "reconcile"}, Store(c, r, Fresh(c, pc)) PROVE Outcome(c, r)
  <2>1. pc \in Pcs BY DEF Pcs
  <2> QED BY <1>2, <2>1, FreshFits, FitsAny, AdvanceStays DEF Outcome
<1> QED BY <1>1, <1>2 DEF Returns

LEMMA ReturnsAfter ==
  ASSUME NEW c \in Clients, client[c] \in ClientStates, NEW r, NEW s, Live(r), Advance(r, s),
         Returns(c, s)
  PROVE  Outcome(c, r)
<1>1. Live(s) BY DEF Advance
<1>2. Outcome(c, s) BY <1>1, ReturnsOutcome
<1> QED BY <1>2, OutcomeLater

LEMMA WithoutReceiptOutcome ==
  ASSUME NEW c \in Clients, client[c] \in ClientStates, NEW r, Live(r), NEW end \in {"failed", "cancelled"},
         ReturnsWithoutReceipt(c, r, end)
  PROVE  Outcome(c, r)
<1>1. CASE Terminal(r) BY <1>1, ReturnsOutcome DEF ReturnsWithoutReceipt
<1>2. CASE ~Terminal(r) /\ r.receipt # "none" BY <1>2, ThrowsOutcome DEF ReturnsWithoutReceipt
<1>3. CASE ~Terminal(r) /\ r.receipt = "none"
  <2>1. Returns(c, GivenUp(r, end)) BY <1>3 DEF ReturnsWithoutReceipt
  <2> QED BY <1>3, <2>1, AdvanceGivenUp, ReturnsAfter
<1> QED BY <1>1, <1>2, <1>3

LEMMA WithReceiptOutcome ==
  ASSUME NEW c \in Clients, ClientOK(client[c]), NEW r, Live(r), NEW a, AnswerOK(a), a.receipt,
         a = client[c].answer,
         r.state \in {"submitted", "unknown"} \cup Ended, ReturnsWithReceipt(c, r, a)
  PROVE  Outcome(c, r)
<1> USE DEF ClientOK
<1>1. CASE a.state = "unknown"
  <2>1. Returns(c, Unknown(r)) BY <1>1 DEF ReturnsWithReceipt, Ended
  <2> QED BY <2>1, AdvanceUnknown, ReturnsAfter
<1>2. CASE a.state = "submitted" /\ (Terminal(r) \/ r.state = "submitted")
  <2>1. Returns(c, r)
    <3>1. ~(a.state = "submitted" /\ r.state = "unknown") BY <1>2 DEF Terminal, Ended
    <3> QED BY <1>2, <3>1 DEF ReturnsWithReceipt, Ended
  <2> QED BY <2>1, ReturnsOutcome
<1>3. CASE a.state = "submitted" /\ r.state = "unknown"
  <2>1. ~Terminal(r) BY <1>3 DEF Terminal, Ended
  <2>2. IF MayLeave(r) THEN Returns(c, Moved([r EXCEPT !.state = "submitted"])) ELSE Throws(c, r)
    BY <1>3, <2>1 DEF ReturnsWithReceipt, Ended
  <2> QED BY <1>3, <2>2, AdvanceSubmitted, ReturnsAfter, ThrowsOutcome
<1>4. CASE a.state \in Ended /\ Terminal(r)
  <2>1. Returns(c, r) BY <1>4 DEF ReturnsWithReceipt, Ended
  <2> QED BY <2>1, ReturnsOutcome
<1>5. CASE a.state \in Ended /\ ~Terminal(r)
  <2> DEFINE k == [client[c] EXCEPT !.pc = "publishing", !.behind = 0, !.cancelled = FALSE]
  <2>1. Store(c, r, k) BY <1>5 DEF ReturnsWithReceipt, Ended
  <2>2. k \in ClientStates /\ k.pc = "publishing" /\ k.answer = a /\ k.op = client[c].op
    <3>1. client[c] \in ClientStates /\ a = client[c].answer OBVIOUS
    <3>2. \A pc \in Pcs, n \in 0..2 :
            [client[c] EXCEPT !.pc = pc, !.behind = n, !.cancelled = FALSE] \in ClientStates
      BY <3>1 DEF ClientStates
    <3>3. k \in ClientStates
      <4>1. "publishing" \in Pcs /\ 0 \in 0..2 BY DEF Pcs
      <4> QED BY <3>2, <4>1, Zenon
    <3>4. k.pc = "publishing" /\ k.answer = a /\ k.op = client[c].op BY <3>1 DEF ClientStates
    <3> QED BY <3>3, <3>4
  <2> HIDE DEF k
  <2>3. Fits(c, r, k) BY <1>5, <2>2 DEF Fits
  <2> QED BY <2>1, <2>3, AdvanceStays DEF Outcome
<1> QED BY <1>1, <1>2, <1>3, <1>4, <1>5 DEF AnswerOK, Terminal, Ended

LEMMA ProcessesOutcome ==
  ASSUME NEW c \in Clients, ClientOK(client[c]), NEW r, Live(r), NEW a, a = client[c].answer,
         a.state \notin {"none", "lost"}, Processes(c, r, a)
  PROVE  Outcome(c, r)
<1>1. client[c] \in ClientStates /\ AnswerOK(a) BY DEF ClientOK
<1>2. a.receipt \in BOOLEAN /\ client[c].reconciles \in BOOLEAN
  BY <1>1, ClientFields DEF AnswerOK, Answers
<1>3. CASE a.state = "not_submitted"
  <2>1. ReturnsWithoutReceipt(c, r, "failed") BY <1>1, <1>3 DEF Processes, AnswerOK, Ended
  <2> QED BY <1>1, <2>1, WithoutReceiptOutcome
<1>4. CASE a.receipt /\ CountConflicts(r)
  <2>1. a.state # "not_submitted" BY <1>1, <1>4 DEF AnswerOK, Ended
  <2>2. Throws(c, r) BY <1>4, <2>1 DEF Processes
  <2> QED BY <1>1, <2>2, ThrowsOutcome
<1>5. CASE a.receipt /\ ~CountConflicts(r)
  <2> DEFINE s == Recorded(r, client[c].reconciles)
  <2>1. a.state # "not_submitted" BY <1>1, <1>5 DEF AnswerOK, Ended
  <2>2. ReturnsWithReceipt(c, s, a) BY <1>5, <2>1 DEF Processes
  <2>3. Advance(r, s) /\ s.state \in {"submitted", "unknown"} \cup Ended BY <1>2, AdvanceRecorded
  <2>4. Live(s) BY <2>3 DEF Advance
  <2>5. Outcome(c, s) BY <1>1, <1>5, <2>2, <2>3, <2>4, WithReceiptOutcome
  <2> QED BY <2>3, <2>5, OutcomeLater
<1>6. CASE ~a.receipt /\ a.state = "unknown"
  <2>1. Returns(c, Unknown(r)) BY <1>6 DEF Processes
  <2> QED BY <1>1, <2>1, AdvanceUnknown, ReturnsAfter
<1>7. CASE ~a.receipt /\ a.state \notin {"unknown", "not_submitted"}
  <2>1. a.state \in {"failed", "cancelled"} BY <1>1, <1>7 DEF AnswerOK, Answers, Ended
  <2>2. ReturnsWithoutReceipt(c, r, a.state) BY <1>7 DEF Processes
  <2> QED BY <1>1, <2>1, <2>2, WithoutReceiptOutcome
<1> QED BY <1>2, <1>3, <1>4, <1>5, <1>6, <1>7

-----------------------------------------------------------------------------
(* The inductive invariant *)

RowsOK == /\ row \in [Operations -> Rows]
          /\ \A o \in Operations : RowInv(row[o]) /\ row[o].moves = 0
ClientsOK == client \in [Clients -> ClientStates] /\ \A c \in Clients : ClientOK(client[c])

\* A client at work has an operation that exists, and one that quotes has one that does not yet.
Bound == \A c \in Clients :
  /\ client[c].pc \notin {"off", "quoting"} => Row(c).state # "absent"
  /\ client[c].pc = "quoting" => c = "task" /\ Row(c).state = "absent"

\* References are verified for an operation that was open and not to be cancelled when it was read; behind
\* says whether that is so still.
Verified == \A c \in Clients :
  client[c].pc = "verifying" /\ client[c].behind = 0 => ~Terminal(Row(c)) /\ ~Row(c).cancel

Core == RowsOK /\ ClientsOK /\ Bound /\ Verified
IndInv == TypeOK /\ Core

\* What a step may do to a row.
Kept == \A o \in Operations : /\ Allowed(row[o], row'[o])
                              /\ Terminal(row[o]) => row'[o] \in {row[o], Older(row[o])}

LEMMA ClientFacts ==
  ASSUME Core, NEW c \in Clients
  PROVE  /\ client[c] \in ClientStates /\ ClientOK(client[c]) /\ client[c].op \in Operations
         /\ Row(c) = row[client[c].op] /\ Row(c) \in Rows /\ Row(c).moves = 0 /\ RowInv(Row(c))
         /\ client[c].pc \notin {"off", "quoting"} => Live(Row(c))
<1>1. client[c] \in ClientStates /\ ClientOK(client[c]) BY DEF Core, ClientsOK
<1>2. client[c].op \in Operations BY <1>1, ClientFields
<1> QED BY <1>1, <1>2 DEF Core, RowsOK, Bound, Live, Row

\* What remains of an advance when it is committed.
LEMMA Committed ==
  ASSUME NEW r, NEW s, Live(r), r.moves = 0, Advance(r, s)
  PROVE  LET t == [s EXCEPT !.moves = 0] IN
         /\ Live(t) /\ t.moves = 0 /\ t.state = s.state /\ t.cancel = s.cancel /\ Allowed(r, t)
         /\ Terminal(r) => t \in {r, Older(r)}
<1>1. r \in Rows /\ s \in Rows /\ Live(s) /\ Allowed(r, s) BY DEF Advance, Live
<1> DEFINE t == [s EXCEPT !.moves = 0]
<1>2. t \in Rows BY <1>1 DEF Rows
<1>3. /\ t.moves = 0 /\ t.state = s.state /\ t.cancel = s.cancel /\ t.receipt = s.receipt
      /\ t.cost = s.cost /\ t.count = s.count
  BY <1>1 DEF Rows
<1>4. Terminal(r) => t \in {r, Older(r)}
  <2>1. Bare(r) = r BY <1>1 DEF Bare, Rows
  <2> QED BY <2>1 DEF Advance, Bare
<1> HIDE DEF t
<1>5. RowInv(t) /\ t.state # "absent" BY <1>1, <1>3 DEF Live, RowInv, Entitled, Terminal
<1>6. Allowed(r, t) BY <1>1, <1>3 DEF Allowed
<1> QED BY <1>2, <1>3, <1>4, <1>5, <1>6 DEF Live, t

\* Row s is committed as t, and client c goes on as k: the other client is told how far it fell behind.
LEMMA StoreStep ==
  ASSUME Core, NEW c \in Clients, NEW s, NEW k, Fits(c, s, k), Store(c, s, k),
         NEW t, t = [s EXCEPT !.moves = 0], Live(t), t.moves = 0, t.state = s.state,
         t.cancel = s.cancel, Allowed(Row(c), t),
         Terminal(Row(c)) => t \in {Row(c), Older(Row(c))},
         s.moves \in Nat, s.moves = 0 => s.state = Row(c).state /\ s.cancel = Row(c).cancel,
         Row(c).state = "absent" => c = "task"
  PROVE  Core' /\ Kept
<1> DEFINE o == client[c].op
           r == row[o]
<1>1. o \in Operations /\ r = Row(c) BY ClientFacts
<1>2. row' = [row EXCEPT ![o] = t]
  BY DEF Store
<1>3. /\ client'[c] = k
      /\ \A d \in Clients \ {c} : client'[d] = [client[d] EXCEPT !.behind = Behind(d, o, s.moves)]
      /\ DOMAIN client' = Clients /\ client' = [d \in Clients |-> client'[d]]
  BY DEF Store
<1>4. row \in [Operations -> Rows] /\ t \in Rows BY DEF Core, RowsOK, Live
<1>5. row'[o] = t /\ \A p \in Operations \ {o} : row'[p] = row[p] BY <1>1, <1>2, <1>4
<1>6. RowsOK'
  <2>1. row' \in [Operations -> Rows] BY <1>2, <1>4
  <2>2. \A p \in Operations : RowInv(row'[p]) /\ row'[p].moves = 0
    BY <1>5 DEF Core, RowsOK, Live
  <2> QED BY <2>1, <2>2 DEF RowsOK
<1>7. ASSUME NEW d \in Clients \ {c}
      PROVE  /\ client'[d] \in ClientStates /\ ClientOK(client'[d])
             /\ client'[d].op = client[d].op /\ client'[d].pc = client[d].pc
             /\ client'[d].behind = Behind(d, o, s.moves)
  <2>1. client[d] \in ClientStates /\ ClientOK(client[d]) /\ client[d].behind \in 0..2
    BY ClientFacts, ClientFields
  <2>3. Behind(d, o, s.moves) \in 0..2 BY <2>1 DEF Behind
  <2>4. ASSUME NEW n \in 0..2
        PROVE  LET l == [client[d] EXCEPT !.behind = n] IN
               /\ l \in ClientStates /\ l.op = client[d].op /\ l.pc = client[d].pc
               /\ l.answer = client[d].answer /\ l.behind = n
    BY <2>1 DEF ClientStates
  <2>5. /\ client'[d] \in ClientStates /\ client'[d].op = client[d].op
        /\ client'[d].pc = client[d].pc /\ client'[d].answer = client[d].answer
        /\ client'[d].behind = Behind(d, o, s.moves)
    <3> DEFINE n == Behind(d, o, s.moves)
    <3>1. client'[d] = [client[d] EXCEPT !.behind = n] BY <1>3
    <3>2. n \in 0..2 BY <2>3
    <3> HIDE DEF n
    <3>3. /\ client'[d] \in ClientStates /\ client'[d].op = client[d].op
          /\ client'[d].pc = client[d].pc /\ client'[d].answer = client[d].answer
          /\ client'[d].behind = n
      BY <2>4, <3>1, <3>2
    <3> QED BY <3>3 DEF n
  <2> QED BY <2>1, <2>5 DEF ClientOK
<1>8. ClientsOK'
  <2>1. ClientOK(k) /\ k \in ClientStates BY DEF Fits, ClientOK
  <2> QED BY <1>3, <1>7, <2>1 DEF ClientsOK
<1>9. Bound'
  <2>1. k.pc # "quoting" /\ k.op = o BY DEF Fits
  <2>2. t.state # "absent" BY DEF Live
  <2>3. ASSUME NEW d \in Clients \ {c}
        PROVE  /\ client'[d].pc \notin {"off", "quoting"} => row'[client'[d].op].state # "absent"
               /\ client'[d].pc = "quoting" => d = "task" /\ row'[client'[d].op].state = "absent"
    <3>1. client'[d].op = client[d].op /\ client'[d].pc = client[d].pc /\ client[d].op \in Operations
      BY <1>7, ClientFacts
    <3>2. /\ client[d].pc \notin {"off", "quoting"} => row[client[d].op].state # "absent"
          /\ client[d].pc = "quoting" => d = "task" /\ row[client[d].op].state = "absent"
      BY DEF Core, Bound, Row
    <3>3. CASE client[d].op # o BY <1>5, <3>1, <3>2, <3>3
    <3>4. CASE client[d].op = o
      <4>1. client[d].pc # "quoting" BY <1>1, <3>2, <3>4
      <4> QED BY <1>5, <2>2, <3>1, <3>4, <4>1
    <3> QED BY <3>3, <3>4
  <2>4. client'[c].pc # "quoting" /\ row'[client'[c].op].state # "absent" BY <1>3, <1>5, <2>1, <2>2
  <2> QED BY <2>3, <2>4 DEF Bound, Row
<1>10. Verified'
  <2>1. k.op = o /\ (k.pc = "verifying" /\ k.behind = 0 => ~Terminal(s) /\ ~s.cancel)
    BY DEF Fits
  <2>2. ASSUME NEW d \in Clients \ {c}, client'[d].pc = "verifying", client'[d].behind = 0
        PROVE  ~Terminal(row'[client'[d].op]) /\ ~row'[client'[d].op].cancel
    <3>1. client[d].pc = "verifying" /\ Behind(d, o, s.moves) = 0 BY <1>7, <2>2
    <3>2. client[d].behind \in 0..2 /\ s.moves \in Nat /\ client[d].op \in Operations
      BY ClientFacts, ClientFields
    <3>3. client[d].behind = 0 /\ (client[d].op = o => s.moves = 0)
      BY <3>1, <3>2 DEF Behind, Comparing
    <3>4. ~Terminal(Row(d)) /\ ~Row(d).cancel BY <3>1, <3>3 DEF Core, Verified
    <3>5. CASE client[d].op # o BY <1>5, <1>7, <3>2, <3>4, <3>5 DEF Row
    <3>6. CASE client[d].op = o
      <4>1. s.state = r.state /\ s.cancel = r.cancel BY <1>1, <3>3, <3>6
      <4>2. ~Terminal(r) /\ ~r.cancel BY <3>4, <3>6 DEF Row
      <4>3. ~Terminal(t) /\ ~t.cancel BY <4>1, <4>2 DEF Terminal
      <4>4. row'[client'[d].op] = t BY <1>5, <1>7, <3>6
      <4> QED BY <4>3, <4>4
    <3> QED BY <3>5, <3>6
  <2>3. client'[c].pc = "verifying" /\ client'[c].behind = 0
        => ~Terminal(row'[client'[c].op]) /\ ~row'[client'[c].op].cancel
    BY <1>3, <1>5, <2>1 DEF Terminal
  <2> QED BY <2>2, <2>3 DEF Verified, Row
<1>11. Kept
  <2>1. ASSUME NEW p \in Operations \ {o} PROVE Allowed(row[p], row'[p])
    BY <1>5 DEF Allowed, Core, RowsOK, Rows, Receipts
  <2> QED BY <1>1, <1>5, <2>1 DEF Kept
<1> QED BY <1>6, <1>8, <1>9, <1>10, <1>11 DEF Core

\* The end of a resumption keeps the invariant.
LEMMA OutcomeStep ==
  ASSUME Core, NEW c \in Clients, client[c].pc \notin {"off", "quoting"}, Outcome(c, Row(c))
  PROVE  Core' /\ Kept
<1>1. PICK s, k : Advance(Row(c), s) /\ Fits(c, s, k) /\ Store(c, s, k) BY DEF Outcome
<1> DEFINE t == [s EXCEPT !.moves = 0]
<1>2. Live(Row(c)) /\ Row(c).moves = 0 BY ClientFacts
<1>3. /\ Live(t) /\ t.moves = 0 /\ t.state = s.state /\ t.cancel = s.cancel /\ Allowed(Row(c), t)
      /\ Terminal(Row(c)) => t \in {Row(c), Older(Row(c))}
  BY <1>1, <1>2, Committed
<1>4. /\ s.moves \in Nat /\ (s.moves = 0 => s.state = Row(c).state /\ s.cancel = Row(c).cancel)
      /\ Row(c).state # "absent"
  BY <1>1, <1>2, RowFields DEF Advance, Live
<1> HIDE DEF t
<1> QED BY <1>1, <1>3, <1>4, StoreStep DEF t

-----------------------------------------------------------------------------
(* Every resumption of a client that is at work ends in an outcome *)

LEMMA CallsCancelOutcome ==
  ASSUME NEW c \in Clients, client[c] \in ClientStates, NEW r, Live(r), CallsCancel(c, r)
  PROVE  Outcome(c, r)
<1> DEFINE f == Fresh(c, "cancelling")
           k == [f EXCEPT !.reconciles = TRUE]
<1>1. f \in ClientStates /\ f.pc = "cancelling" /\ f.op = client[c].op /\ f.answer = NoAnswer
  BY FreshFits DEF Pcs
<1>2. Store(c, Claimed(r), k) BY DEF CallsCancel
<1> HIDE DEF f
<1>3. k \in ClientStates BY <1>1 DEF ClientStates
<1>4. k.pc = "cancelling" /\ k.op = client[c].op /\ k.answer = NoAnswer BY <1>1 DEF ClientStates
<1> HIDE DEF k
<1>5. Fits(c, Claimed(r), k) BY <1>3, <1>4, FitsAny
<1> QED BY <1>2, <1>5, AdvanceClaimed DEF Outcome

LEMMA ReconcileOutcome ==
  ASSUME Core, NEW c \in Clients, Reconcile(c) PROVE Outcome(c, Row(c))
<1> DEFINE r == Row(c)
<1>1. client[c].pc = "reconcile" /\ Live(r) /\ client[c] \in ClientStates BY ClientFacts DEF Reconcile
<1>2. CASE Terminal(r)
  <2>1. Returns(c, r) BY <1>2 DEF Reconcile
  <2> QED BY <1>1, <2>1, ReturnsOutcome
<1>3. CASE ~Terminal(r) /\ client[c].behind > 0
  <2>1. client[c].behind # 0 BY <1>1, <1>3, ClientFields
  <2>2. Throws(c, r) BY <1>3, <2>1 DEF Reconcile
  <2> QED BY <1>1, <2>2, ThrowsOutcome
<1>4. CASE ~Terminal(r) /\ client[c].behind = 0 /\ r.receipt # "none" /\ r.cancel
  <2>1. CallsCancel(c, r) BY <1>4 DEF Reconcile
  <2> QED BY <1>1, <1>4, <2>1, CallsCancelOutcome
<1>5. CASE ~Terminal(r) /\ client[c].behind = 0 /\ ~(r.receipt # "none" /\ r.cancel)
  <2> DEFINE f == Fresh(c, "reconciling")
             k == [f EXCEPT !.cancelled = r.cancel, !.reconciles = TRUE]
  <2>1. f \in ClientStates /\ f.pc = "reconciling" /\ f.op = client[c].op /\ f.answer = NoAnswer
    BY <1>1, FreshFits DEF Pcs
  <2>2. Store(c, r, k) BY <1>5 DEF Reconcile
  <2>3. r.cancel \in BOOLEAN BY <1>1, RowFields DEF Live
  <2> HIDE DEF f
  <2>4. k \in ClientStates BY <2>1, <2>3 DEF ClientStates
  <2>5. k.pc = "reconciling" /\ k.op = client[c].op /\ k.answer = NoAnswer BY <2>1 DEF ClientStates
  <2> HIDE DEF k
  <2>6. Fits(c, r, k) BY <2>4, <2>5, FitsAny
  <2> QED BY <1>1, <2>2, <2>6, AdvanceStays DEF Outcome
<1>6. client[c].behind \in 0..2 BY <1>1, ClientFields
<1> QED BY <1>2, <1>3, <1>4, <1>5, <1>6

\* An answer that was awaited says something.
LEMMA AnsweredFacts ==
  ASSUME Core, NEW c \in Clients, NEW pc \in Awaiting, Answered(c, pc)
  PROVE  /\ client[c] \in ClientStates /\ ClientOK(client[c]) /\ Live(Row(c))
         /\ AnswerOK(client[c].answer) /\ client[c].answer.state # "none"
<1>1. client[c] \in ClientStates /\ ClientOK(client[c]) /\ Live(Row(c))
  BY ClientFacts DEF Answered, Awaiting
<1> DEFINE a == client[c].answer
<1>2. AnswerOK(a) /\ a \in Answers /\ a # NoAnswer BY <1>1 DEF ClientOK, AnswerOK, Answered
<1>3. a.state = "none" => ~a.receipt BY <1>2 DEF AnswerOK, Ended
<1>4. a.state = "none" => a = [state |-> "none", receipt |-> FALSE] BY <1>2, <1>3 DEF Answers
<1> QED BY <1>1, <1>2, <1>4 DEF NoAnswer

LEMMA SubmittedOutcome ==
  ASSUME Core, NEW c \in Clients, Submitted(c) PROVE Outcome(c, Row(c))
<1>1. /\ client[c] \in ClientStates /\ ClientOK(client[c]) /\ Live(Row(c))
      /\ client[c].answer.state # "none"
  BY AnsweredFacts DEF Submitted, Awaiting
<1>2. CASE client[c].answer.state = "lost"
  BY <1>1, <1>2, AdvanceUnknown, ReturnsAfter DEF Submitted
<1>3. CASE client[c].answer.state # "lost"
  BY <1>1, <1>3, ProcessesOutcome DEF Submitted
<1> QED BY <1>2, <1>3

LEMMA CancelAnsweredOutcome ==
  ASSUME Core, NEW c \in Clients, CancelAnswered(c) PROVE Outcome(c, Row(c))
<1>1. /\ client[c] \in ClientStates /\ ClientOK(client[c]) /\ Live(Row(c))
      /\ client[c].answer.state # "none"
  BY AnsweredFacts DEF CancelAnswered, Awaiting
<1>2. CASE client[c].answer.state \in {"lost", "not_submitted"}
  BY <1>1, <1>2, AdvanceUnknown, ReturnsAfter DEF CancelAnswered
<1>3. CASE client[c].answer.state \notin {"lost", "not_submitted"}
  BY <1>1, <1>3, ProcessesOutcome DEF CancelAnswered
<1> QED BY <1>2, <1>3

LEMMA GoesOnOutcome ==
  ASSUME NEW c \in Clients, ClientOK(client[c]), NEW r, Live(r), NEW a, a = client[c].answer,
         a.state \notin {"none", "lost"}, GoesOn(c, r, a), a.receipt => r.state # "running"
  PROVE  Outcome(c, r)
<1>1. client[c] \in ClientStates BY DEF ClientOK
<1>2. CASE ~OnlyReceipt(c, r) BY <1>1, <1>2, ThrowsOutcome DEF GoesOn
<1>3. CASE /\ OnlyReceipt(c, r) /\ r.cancel /\ r.receipt # "none"
           /\ a.state \in {"unknown", "submitted"}
  <2>1. CallsCancel(c, r) BY <1>3 DEF GoesOn
  <2> QED BY <1>1, <2>1, CallsCancelOutcome
<1>4. CASE OnlyReceipt(c, r) /\ ~(r.cancel /\ r.receipt # "none" /\ a.state \in {"unknown", "submitted"})
  <2>1. PICK later \in Later(r) : Processes(c, later, a) BY <1>4 DEF GoesOn
  <2>2. Advance(r, later) BY AdvanceStays, AdvanceOlder DEF Later
  <2>3. Outcome(c, later) BY <2>1, <2>2, ProcessesOutcome DEF Advance
  <2> QED BY <2>2, <2>3, OutcomeLater
<1> QED BY <1>2, <1>3, <1>4

LEMMA NotSubmittedOutcome ==
  ASSUME NEW c \in Clients, ClientOK(client[c]), NEW r, Live(r), NotSubmitted(c, r)
  PROVE  Outcome(c, r)
<1>1. client[c] \in ClientStates /\ client[c].behind \in 0..2 BY ClientFields DEF ClientOK
<1>2. CASE Terminal(r) BY <1>1, <1>2, ReturnsOutcome DEF NotSubmitted
<1>3. CASE ~Terminal(r) /\ client[c].behind > 0
  <2>1. client[c].behind # 0 BY <1>1, <1>3
  <2> QED BY <1>1, <1>3, <2>1, ThrowsOutcome DEF NotSubmitted
<1>4. CASE ~Terminal(r) /\ client[c].behind = 0 /\ r.receipt # "none"
  <2>1. Returns(c, Unknown(r)) BY <1>4 DEF NotSubmitted
  <2> QED BY <1>1, <2>1, AdvanceUnknown, ReturnsAfter
<1>5. CASE ~Terminal(r) /\ client[c].behind = 0 /\ r.receipt = "none" /\ r.cancel
  <2>1. Returns(c, GivenUp(r, "cancelled")) BY <1>5 DEF NotSubmitted
  <2> QED BY <1>1, <1>5, <2>1, AdvanceGivenUp, ReturnsAfter
<1>6. CASE ~Terminal(r) /\ client[c].behind = 0 /\ r.receipt = "none" /\ ~r.cancel
  <2>1. CASE Returns(c, GivenUp(r, "failed")) BY <1>1, <1>6, <2>1, AdvanceGivenUp, ReturnsAfter
  <2>2. CASE Store(c, r, At(c, "verifying"))
    <3> DEFINE k == At(c, "verifying")
    <3>1. k \in ClientStates /\ k.pc = "verifying" /\ k.op = client[c].op /\ k.answer = NoAnswer
      BY <1>1, AtFits DEF Pcs
    <3> HIDE DEF k
    <3>2. Fits(c, r, k) BY <1>6, <3>1, NothingSaid DEF Fits, ClientOK
    <3> QED BY <2>2, <3>2, AdvanceStays DEF Outcome, k
  <2> QED BY <1>6, <2>1, <2>2 DEF NotSubmitted
<1> QED BY <1>1, <1>2, <1>3, <1>4, <1>5, <1>6

LEMMA ReconciledOutcome ==
  ASSUME Core, NEW c \in Clients, Reconciled(c) PROVE Outcome(c, Row(c))
<1> DEFINE r == Row(c)
           a == client[c].answer
<1>1. /\ client[c] \in ClientStates /\ ClientOK(client[c]) /\ Live(r)
      /\ AnswerOK(a) /\ a.state # "none" /\ a.receipt \in BOOLEAN
  BY AnsweredFacts DEF Reconciled, Awaiting, AnswerOK, Answers
<1> HIDE DEF r, a
<1>2. CASE a.state = "lost"
  <2>1. ~a.receipt BY <1>1, <1>2 DEF AnswerOK, Ended
  <2>2. Returns(c, Unknown(r)) BY <1>2, <2>1 DEF Reconciled, r, a
  <2> QED BY <1>1, <2>2, AdvanceUnknown, ReturnsAfter DEF r
<1>3. CASE a.state = "not_submitted"
  <2>1. ~a.receipt BY <1>1, <1>3 DEF AnswerOK, Ended
  <2>2. NotSubmitted(c, r) BY <1>3, <2>1 DEF Reconciled, r, a
  <2> QED BY <1>1, <2>2, NotSubmittedOutcome DEF r
<1>4. CASE a.receipt /\ CountConflicts(r)
  <2>1. a.state \notin {"lost", "not_submitted"} BY <1>1, <1>4 DEF AnswerOK, Ended
  <2>2. Throws(c, r) BY <1>4, <2>1 DEF Reconciled, r, a
  <2> QED BY <1>1, <2>2, ThrowsOutcome DEF r
<1>5. CASE a.receipt /\ ~CountConflicts(r)
  <2> DEFINE s == Recorded(r, TRUE)
  <2>1. a.state \notin {"lost", "not_submitted"} BY <1>1, <1>5 DEF AnswerOK, Ended
  <2>2. GoesOn(c, s, a) BY <1>5, <2>1 DEF Reconciled, r, a
  <2>3. Advance(r, s) /\ s.state # "running" BY <1>1, AdvanceRecorded DEF Ended
  <2>4. Outcome(c, s) BY <1>1, <2>1, <2>2, <2>3, GoesOnOutcome DEF Advance, a
  <2> QED BY <1>1, <2>3, <2>4, OutcomeLater DEF r
<1>6. CASE ~a.receipt /\ a.state \notin {"lost", "not_submitted"}
  <2>1. GoesOn(c, r, a) BY <1>6 DEF Reconciled, r, a
  <2> QED BY <1>1, <1>6, <2>1, GoesOnOutcome DEF r, a
<1> QED BY <1>1, <1>2, <1>3, <1>4, <1>5, <1>6

LEMMA VerifyFailsOutcome ==
  ASSUME Core, NEW c \in Clients, VerifyFails(c) PROVE Outcome(c, Row(c))
<1>1. client[c] \in ClientStates /\ Live(Row(c)) BY ClientFacts DEF VerifyFails
<1> QED BY <1>1, WithoutReceiptOutcome DEF VerifyFails

LEMMA ResubmitOutcome ==
  ASSUME Core, NEW c \in Clients, Resubmit(c) PROVE Outcome(c, Row(c))
<1>1. client[c] \in ClientStates /\ Live(Row(c)) BY ClientFacts DEF Resubmit
<1>2. CASE client[c].behind > 0 BY <1>1, <1>2, ThrowsOutcome DEF Resubmit
<1>3. CASE ~(client[c].behind > 0)
  <2>1. Store(c, Claimed(Row(c)), Fresh(c, "submitting")) BY <1>3 DEF Resubmit
  <2>2. "submitting" \in Pcs BY DEF Pcs
  <2>3. Fits(c, Claimed(Row(c)), Fresh(c, "submitting")) BY <1>1, <2>2, FreshFits, FitsAny
  <2> QED BY <1>1, <2>1, <2>3, AdvanceClaimed DEF Outcome
<1> QED BY <1>2, <1>3

LEMMA PublishOutcome ==
  ASSUME Core, job \in [Operations -> Jobs], NEW c \in Clients, Publish(c)
  PROVE  Outcome(c, Row(c))
<1> DEFINE r == Row(c)
           charge == job[client[c].op].charge
<1>1. /\ client[c] \in ClientStates /\ Live(r) /\ client[c].op \in Operations
      /\ client[c].answer.state \in Ended
  BY ClientFacts DEF Publish, ClientOK
<1>2. charge \in Nat BY <1>1 DEF Jobs
<1> HIDE DEF r, charge
<1>3. CASE Terminal(r) BY <1>1, <1>3, ReturnsOutcome DEF Publish, r
<1>4. CASE /\ ~Terminal(r)
           /\ \/ r.receipt = "none" \/ client[c].op \in stale \/ ~MayLeave(r)
              \/ Priced(r) /\ charge > r.quote
  <2>1. Throws(c, r) BY <1>4 DEF Publish, r, charge
  <2> QED BY <1>1, <2>1, ThrowsOutcome DEF r
<1>5. CASE /\ ~Terminal(r)
           /\ ~(\/ r.receipt = "none" \/ client[c].op \in stale \/ ~MayLeave(r)
                \/ Priced(r) /\ charge > r.quote)
  <2>1. PICK e \in Ended : Returns(c, Paid(r, e, charge)) BY <1>1, <1>5 DEF Publish, r, charge, Ended
  <2>2. Advance(r, Paid(r, e, charge)) BY <1>1, <1>2, <1>5, AdvancePaid
  <2> QED BY <1>1, <2>1, <2>2, ReturnsAfter DEF r
<1> QED BY <1>3, <1>4, <1>5

LEMMA ClientStepOutcome ==
  ASSUME Core, job \in [Operations -> Jobs], NEW c \in Clients, ClientStep(c)
  PROVE  Core' /\ Kept
<1>1. client[c].pc \notin {"off", "quoting"}
  BY DEF ClientStep, Reconcile, Submitted, CancelAnswered, Reconciled, VerifyFails, Resubmit, Publish, Answered
<1>2. Outcome(c, Row(c))
  BY ReconcileOutcome, SubmittedOutcome, CancelAnsweredOutcome, ReconciledOutcome, VerifyFailsOutcome,
     ResubmitOutcome, PublishOutcome DEF ClientStep
<1> QED BY <1>1, <1>2, OutcomeStep

-----------------------------------------------------------------------------
(* The other actions *)

LEMMA KeptRows == ASSUME RowsOK, row' = row PROVE RowsOK' /\ Kept
BY RowFields DEF RowsOK, Kept, Allowed, Receipts

\* One client is given a new state beside unchanged rows.
LEMMA ClientMoves ==
  ASSUME Core, row' = row, NEW c \in Clients, NEW k, client' = [client EXCEPT ![c] = k], ClientOK(k),
         k.pc \notin {"off", "quoting"} => row[k.op].state # "absent",
         k.pc = "quoting" => c = "task" /\ row[k.op].state = "absent",
         k.pc # "verifying" \/ (k.op = client[c].op /\ k.behind = client[c].behind /\ k.pc = client[c].pc)
  PROVE  Core' /\ Kept
<1>1. client \in [Clients -> ClientStates] BY DEF Core, ClientsOK
<1>2. client'[c] = k /\ \A d \in Clients \ {c} : client'[d] = client[d] BY <1>1
<1>3. RowsOK' /\ Kept BY KeptRows DEF Core
<1>4. ClientsOK'
  <2>1. client' \in [Clients -> ClientStates] BY <1>1 DEF ClientOK
  <2> QED BY <1>2, <2>1 DEF ClientsOK, Core
<1>5. Bound' BY <1>2 DEF Bound, Core, Row
<1>6. Verified' BY <1>2 DEF Verified, Core, Row
<1> QED BY <1>3, <1>4, <1>5, <1>6 DEF Core

LEMMA OffOK ==
  ASSUME NEW c \in Clients, client[c] \in ClientStates PROVE ClientOK(Off(c)) /\ Off(c).pc = "off"
BY OffFits, NothingSaid DEF ClientOK

LEMMA EnterStep == ASSUME Core, NEW o \in Operations, Enter(o) PROVE Core' /\ Kept
<1> DEFINE new == row[o].state # "absent"
           start == CASE row[o].state = "absent" -> "quoting"
                      [] Terminal(row[o]) -> "settling"
                      [] OTHER -> "reconcile"
           k == [op |-> o, behind |-> 0, cancelled |-> FALSE, answer |-> NoAnswer,
                 reconciles |-> new, pc |-> start]
<1>1. client' = [client EXCEPT !["task"] = k] /\ row' = row BY DEF Enter, durable
<1>2. start \in {"quoting", "settling", "reconcile"} /\ (start = "quoting" <=> row[o].state = "absent")
  BY DEF Terminal, Ended
<1>3. new \in BOOLEAN /\ "task" \in Clients BY DEF Clients
<1> HIDE DEF start, new
<1>4. k \in ClientStates /\ k.pc = start /\ k.op = o /\ k.answer = NoAnswer
  BY <1>2, <1>3, NothingSaid DEF ClientStates, Pcs, AnswerOK
<1> HIDE DEF k
<1>5. ClientOK(k) BY <1>2, <1>4, NothingSaid DEF ClientOK
<1> QED BY <1>1, <1>2, <1>3, <1>4, <1>5, ClientMoves

LEMMA SweepsStep == ASSUME Core, NEW o \in Operations, Sweep(o) PROVE Core' /\ Kept
<1> DEFINE k == [pc |-> "reconcile", op |-> o, behind |-> 0, cancelled |-> FALSE,
                 reconciles |-> TRUE, answer |-> NoAnswer]
<1>1. client' = [client EXCEPT !["sweep"] = k] /\ row' = row /\ "sweep" \in Clients
  BY DEF Sweep, durable, Clients
<1>2. k \in ClientStates /\ k.pc = "reconcile" /\ k.op = o /\ k.answer = NoAnswer
  BY NothingSaid DEF ClientStates, Pcs, AnswerOK
<1>3. row[o].state # "absent" BY DEF Sweep, Core, RowsOK, RowInv
<1> HIDE DEF k
<1>4. ClientOK(k) BY <1>2, NothingSaid DEF ClientOK
<1> QED BY <1>1, <1>2, <1>3, <1>4, ClientMoves

LEMMA QuoteRejectedStep == ASSUME Core, QuoteRejected PROVE Core' /\ Kept
<1>1. "task" \in Clients BY DEF Clients
<1>2. client["task"] \in ClientStates BY <1>1, ClientFacts
<1> QED BY <1>1, <1>2, OffOK, ClientMoves DEF QuoteRejected, durable

LEMMA SettleStep == ASSUME Core, Settle PROVE Core' /\ Kept
<1>1. "task" \in Clients BY DEF Clients
<1>2. client["task"] \in ClientStates BY <1>1, ClientFacts
<1> QED BY <1>1, <1>2, OffOK, ClientMoves DEF Settle

\* The provider's answers are what they can be.
LEMMA AnswersOK ==
  ASSUME NEW c \in Clients, NEW a \in Truth(c) \cup Vague(c) PROVE AnswerOK(a)
<1>1. CASE a \in Vague(c)
  <2>1. CASE a = [state |-> "lost", receipt |-> FALSE] BY <2>1 DEF AnswerOK, Answers, Ended
  <2>2. CASE a = [state |-> "unknown", receipt |-> FALSE] BY <2>2 DEF AnswerOK, Answers, Ended
  <2>3. CASE a = [state |-> "unknown", receipt |-> TRUE] BY <2>3 DEF AnswerOK, Answers, Ended
  <2> QED BY <1>1, <2>1, <2>2, <2>3 DEF Vague
<1>2. CASE a \in Truth(c)
  <2> DEFINE j == job[client[c].op].state
  <2> HIDE DEF j
  <2>1. CASE j \in Ended
    <3>1. a = [state |-> j, receipt |-> TRUE] BY <1>2, <2>1 DEF Truth, j, Ended
    <3> QED BY <2>1, <3>1 DEF AnswerOK, Answers, Ended
  <2>2. CASE j = "accepted"
    <3>1. a = [state |-> "submitted", receipt |-> TRUE] BY <1>2, <2>2 DEF Truth, j, Ended
    <3> QED BY <3>1 DEF AnswerOK, Answers, Ended
  <2>3. CASE j \notin Ended \cup {"accepted"}
    <3>1. a \in {[state |-> "failed", receipt |-> FALSE], [state |-> "not_submitted", receipt |-> FALSE]}
      BY <1>2, <2>3 DEF Truth, j, Ended
    <3>2. CASE a = [state |-> "failed", receipt |-> FALSE] BY <3>2 DEF AnswerOK, Answers, Ended
    <3>3. CASE a = [state |-> "not_submitted", receipt |-> FALSE] BY <3>3 DEF AnswerOK, Answers, Ended
    <3> QED BY <3>1, <3>2, <3>3
  <2> QED BY <2>1, <2>2, <2>3
<1> QED BY <1>1, <1>2

LEMMA RepliesStep ==
  ASSUME Core, NEW c \in Clients, RepliesTruly(c) \/ RepliesVaguely(c) PROVE Core' /\ Kept
<1>1. PICK a \in Truth(c) \cup Vague(c) : client' = [client EXCEPT ![c].answer = a]
  BY DEF RepliesTruly, RepliesVaguely, Replies
<1>2. row' = row /\ client[c].pc \in Awaiting BY DEF RepliesTruly, RepliesVaguely, Replies, durable
<1>3. client[c] \in ClientStates /\ AnswerOK(a) BY AnswersOK, ClientFacts
<1> DEFINE k == [client[c] EXCEPT !.answer = a]
<1>4. client' = [client EXCEPT ![c] = k] BY <1>1
<1>5. k \in ClientStates /\ k.pc = client[c].pc /\ k.op = client[c].op /\ k.answer = a
  BY <1>3 DEF ClientStates, AnswerOK
<1> HIDE DEF k
<1>6. ClientOK(k) /\ k.pc \notin {"off", "quoting", "verifying"}
  BY <1>2, <1>3, <1>5 DEF ClientOK, Awaiting
<1>7. row[k.op].state # "absent" BY <1>5, <1>6 DEF Core, Bound, Row
<1> QED BY <1>2, <1>4, <1>6, <1>7, ClientMoves

\* A process that exits forgets what its clients were about.
LEMMA AllOff ==
  ASSUME Core, client' = [d \in Clients |-> Off(d)] PROVE ClientsOK' /\ Bound' /\ Verified'
<1>1. \A d \in Clients : client'[d] \in ClientStates /\ ClientOK(client'[d]) /\ client'[d].pc = "off"
  BY OffOK, ClientFacts DEF ClientOK
<1> QED BY <1>1 DEF ClientsOK, Bound, Verified

LEMMA CrashStep == ASSUME Core, Crash PROVE Core' /\ Kept
<1>1. row' = row /\ client' = [d \in Clients |-> Off(d)] BY DEF Crash, durable
<1> QED BY <1>1, AllOff, KeptRows DEF Core

LEMMA SubmitStep == ASSUME Core, NEW q \in Quotes, Submit(q) PROVE Core' /\ Kept
<1> DEFINE s == Prepared(q)
           t == [s EXCEPT !.moves = 0]
           k == Fresh("task", "submitting")
<1>1. "task" \in Clients /\ client["task"].pc = "quoting" /\ Store("task", s, k)
  BY DEF Submit, Clients
<1>2. client["task"] \in ClientStates /\ Row("task").state = "absent" /\ Row("task") \in Rows
      /\ RowInv(Row("task")) /\ ~Row("task").cancel
  BY <1>1, ClientFacts DEF Core, Bound, RowInv
<1>3. s \in Rows /\ s.moves = 2 /\ s.state = "running" /\ s.receipt = "none" /\ ~s.cancel
      /\ s.cost = "reserved" /\ s.count = "reserved"
  <2> DEFINE a == Absent
  <2>1. a \in Rows BY DEF Absent, Rows, States, Receipts
  <2>2. a.receipt = "none" /\ ~a.cancel BY DEF Absent
  <2>3. s = [a EXCEPT !.state = "running", !.quote = q, !.cost = "reserved",
                      !.count = "reserved", !.moves = 2]
    BY DEF Prepared
  <2> HIDE DEF a, s
  <2>4. s \in Rows BY <2>1, <2>3 DEF Rows, States
  <2>5. /\ s.moves = 2 /\ s.state = "running" /\ s.receipt = "none" /\ ~s.cancel
        /\ s.cost = "reserved" /\ s.count = "reserved"
    BY <2>1, <2>2, <2>3 DEF Rows
  <2> QED BY <2>4, <2>5
<1> HIDE DEF s
<1>4. t \in Rows BY <1>3 DEF Rows
<1>5. /\ s.moves = 2 /\ t.moves = 0 /\ t.state = s.state /\ t.cancel = s.cancel
      /\ t.receipt = "none" /\ t.cost = "reserved" /\ t.count = "reserved" /\ t.state = "running"
  BY <1>3 DEF Rows
<1>6. t = [s EXCEPT !.moves = 0] OBVIOUS
<1> HIDE DEF t
<1>7. RowInv(t) BY <1>3, <1>5 DEF RowInv, Entitled, Terminal, Ended
<1>8. Allowed(Row("task"), t)
  BY <1>2, <1>5 DEF Allowed, AttemptStateTransitions, Terminal, Ended, RowInv, Entitled
<1>9. ~Terminal(Row("task")) BY <1>2 DEF Terminal, Ended
<1>10. k \in ClientStates /\ k.pc = "submitting" /\ k.op = client["task"].op /\ k.answer = NoAnswer
  BY <1>1, <1>2, FreshFits DEF Pcs
<1> HIDE DEF k
<1>11. Fits("task", s, k) BY <1>10, FitsAny
<1>12. Live(t) BY <1>4, <1>5, <1>7 DEF Live
<1>13. 2 \in Nat /\ 2 # 0 OBVIOUS
<1> QED BY <1>1, <1>5, <1>6, <1>8, <1>9, <1>11, <1>12, <1>13, StoreStep

\* A request to cancel advances every row it concerns and puts every client of one behind.
LEMMA RequestStep ==
  ASSUME Core, NEW S \in SUBSET Operations, \A o \in S : Cancellable(o), RequestCancellation(S)
  PROVE  Core' /\ Kept
<1>1. row \in [Operations -> Rows] BY DEF Core, RowsOK
<1>2. ASSUME NEW o \in S
      PROVE  LET t == row'[o] IN
             /\ Live(t) /\ t.moves = 0 /\ t.state = row[o].state /\ Allowed(row[o], t)
             /\ ~Terminal(row[o])
  <2>1. Live(row[o]) /\ ~Terminal(row[o]) /\ row[o].moves = 0
    BY <1>1 DEF Cancellable, Core, RowsOK, Live, Terminal
  <2> DEFINE s == CancelRequested(row[o])
  <2>2. Advance(row[o], s) BY <2>1, AdvanceCancel
  <2>3. s.state = row[o].state BY <1>1, <2>1 DEF CancelRequested, Moved, Rows
  <2>4. row'[o] = [s EXCEPT !.moves = 0] BY DEF RequestCancellation
  <2> HIDE DEF s
  <2> QED BY <2>1, <2>2, <2>3, <2>4, Committed
<1>3. \A o \in Operations \ S : row'[o] = row[o] BY DEF RequestCancellation
<1>4. RowsOK'
  <2>1. \A o \in Operations : row'[o] \in Rows /\ RowInv(row'[o]) /\ row'[o].moves = 0
    BY <1>1, <1>2, <1>3 DEF Live, Core, RowsOK
  <2>2. row' = [o \in Operations |-> row'[o]] BY DEF RequestCancellation
  <2> QED BY <2>1, <2>2 DEF RowsOK
<1>5. ASSUME NEW c \in Clients
      PROVE  /\ client'[c] \in ClientStates /\ ClientOK(client'[c])
             /\ client'[c].op = client[c].op /\ client'[c].pc = client[c].pc
             /\ client'[c].behind = IF client[c].op \in S THEN Behind(c, client[c].op, 1)
                                    ELSE client[c].behind
  <2> DEFINE n == IF client[c].op \in S THEN Behind(c, client[c].op, 1) ELSE client[c].behind
  <2>1. client[c] \in ClientStates /\ ClientOK(client[c]) /\ client[c].behind \in 0..2
    BY ClientFacts, ClientFields
  <2>2. n \in 0..2 BY <2>1 DEF Behind
  <2>3. client'[c] = [client[c] EXCEPT !.behind = n] BY DEF RequestCancellation
  <2> HIDE DEF n
  <2>4. client'[c] \in ClientStates BY <2>1, <2>2, <2>3 DEF ClientStates
  <2>5. /\ client'[c].op = client[c].op /\ client'[c].pc = client[c].pc
        /\ client'[c].answer = client[c].answer /\ client'[c].behind = n
    BY <2>1, <2>3 DEF ClientStates
  <2> QED BY <2>1, <2>4, <2>5 DEF ClientOK, n
<1>6. ClientsOK'
  <2>1. client' = [c \in Clients |-> client'[c]] BY DEF RequestCancellation
  <2> QED BY <1>5, <2>1 DEF ClientsOK
<1>7. \A o \in Operations : row'[o].state = row[o].state BY <1>2, <1>3
<1>8. Bound'
  <2>1. ASSUME NEW c \in Clients PROVE row'[client'[c].op].state = row[client[c].op].state
    BY <1>5, <1>7, ClientFacts
  <2> QED BY <1>5, <2>1 DEF Bound, Core, Row
<1>9. Verified'
  <2> SUFFICES ASSUME NEW c \in Clients, client'[c].pc = "verifying", client'[c].behind = 0
               PROVE  ~Terminal(row'[client'[c].op]) /\ ~row'[client'[c].op].cancel
    BY DEF Verified, Row
  <2>1. client[c].op \in Operations /\ client[c].behind \in 0..2 BY ClientFacts, ClientFields
  <2>2. client[c].pc = "verifying" BY <1>5
  <2>3. client[c].op \notin S
    <3>1. Behind(c, client[c].op, 1) # 0 BY <2>1, <2>2 DEF Behind, Comparing
    <3> QED BY <1>5, <3>1
  <2>4. client[c].behind = 0 BY <1>5, <2>3
  <2>5. ~Terminal(Row(c)) /\ ~Row(c).cancel BY <2>2, <2>4 DEF Core, Verified
  <2> QED BY <1>3, <1>5, <2>1, <2>3, <2>5 DEF Row
<1>10. Kept
  <2>1. ASSUME NEW o \in Operations \ S PROVE Allowed(row[o], row'[o])
    BY <1>1, <1>3 DEF Allowed, Rows, Receipts
  <2> QED BY <1>2, <1>3, <2>1 DEF Kept
<1> QED BY <1>4, <1>6, <1>8, <1>9, <1>10 DEF Core

LEMMA OlderKeeps ==
  ASSUME NEW r \in Rows, RowInv(r)
  PROVE  /\ Older(r) \in Rows /\ RowInv(Older(r)) /\ Older(r).moves = r.moves
         /\ Older(r).state = r.state /\ Older(r).cancel = r.cancel /\ Allowed(r, Older(r))
<1> DEFINE n == IF r.count = "fresh" THEN "dated" ELSE r.count
           s == [r EXCEPT !.count = n]
<1>1. Older(r) = s BY DEF Older
<1>2. n \in {"none", "reserved", "fresh", "dated", "released"}
      /\ (n # r.count => n = "dated" /\ r.count = "fresh")
  BY RowFields
<1> HIDE DEF n
<1>3. s \in Rows BY <1>2 DEF Rows
<1>4. /\ s.moves = r.moves /\ s.state = r.state /\ s.cancel = r.cancel /\ s.receipt = r.receipt
      /\ s.cost = r.cost /\ s.count = n
  BY DEF Rows
<1> HIDE DEF s
<1>5. RowInv(s) BY <1>2, <1>4, RowFields DEF RowInv, Entitled, Terminal, Receipts
<1>6. Allowed(r, s) BY <1>4 DEF Allowed
<1> QED BY <1>1, <1>3, <1>4, <1>5, <1>6

LEMMA TickStep == ASSUME Core, Tick PROVE Core' /\ Kept
<1>1. row' = [o \in Operations |-> Older(row[o])] /\ client' = client BY DEF Tick
<1>2. \A o \in Operations : row[o] \in Rows /\ RowInv(row[o]) /\ row[o].moves = 0 BY DEF Core, RowsOK
<1>3. ASSUME NEW o \in Operations
      PROVE  /\ row'[o] = Older(row[o]) /\ row'[o] \in Rows /\ RowInv(row'[o]) /\ row'[o].moves = 0
             /\ row'[o].state = row[o].state /\ row'[o].cancel = row[o].cancel
             /\ Allowed(row[o], row'[o])
  <2>1. row'[o] = Older(row[o]) BY <1>1
  <2> QED BY <1>2, <2>1, OlderKeeps
<1>4. RowsOK' BY <1>1, <1>3 DEF RowsOK
<1>5. ClientsOK' BY <1>1 DEF ClientsOK, Core
<1>6. ASSUME NEW c \in Clients
      PROVE  /\ client'[c] = client[c] /\ row'[client[c].op].state = row[client[c].op].state
             /\ row'[client[c].op].cancel = row[client[c].op].cancel
  BY <1>1, <1>3, ClientFacts
<1>7. Bound' BY <1>6 DEF Bound, Core, Row
<1>8. Verified' BY <1>6 DEF Verified, Core, Row, Terminal
<1>9. Kept BY <1>3 DEF Kept
<1> QED BY <1>4, <1>5, <1>7, <1>8, <1>9 DEF Core

LEMMA CrashAfterReceiptStep ==
  ASSUME Core, NEW c \in Clients, CrashAfterReceipt(c) PROVE Core' /\ Kept
<1> DEFINE o == client[c].op
           s == Recorded(row[o], client[c].reconciles)
           t == [s EXCEPT !.moves = 0]
<1>1. row' = [row EXCEPT ![o] = t] /\ client' = [d \in Clients |-> Off(d)] BY DEF CrashAfterReceipt
<1>2. client[c].pc \notin {"off", "quoting"} BY DEF CrashAfterReceipt, Answered, Awaiting
<1>3. o \in Operations /\ Live(row[o]) /\ row[o].moves = 0 /\ client[c].reconciles \in BOOLEAN
  BY <1>2, ClientFacts, ClientFields
<1>4. Advance(row[o], s) BY <1>3, AdvanceRecorded
<1>5. /\ Live(t) /\ t.moves = 0 /\ Allowed(row[o], t)
      /\ Terminal(row[o]) => t \in {row[o], Older(row[o])}
  <2> HIDE DEF s
  <2> QED BY <1>3, <1>4, Committed
<1> HIDE DEF t
<1>6. row \in [Operations -> Rows] /\ t \in Rows BY <1>5 DEF Core, RowsOK, Live
<1>7. row'[o] = t /\ \A p \in Operations \ {o} : row'[p] = row[p] BY <1>1, <1>3, <1>6
<1>8. RowsOK' BY <1>1, <1>5, <1>6, <1>7 DEF Core, RowsOK, Live
<1>9. Kept
  <2>1. ASSUME NEW p \in Operations \ {o} PROVE Allowed(row[p], row'[p])
    BY <1>6, <1>7 DEF Allowed, Rows, Receipts
  <2> QED BY <1>5, <1>7, <2>1 DEF Kept
<1> QED BY <1>1, <1>8, <1>9, AllOff DEF Core

-----------------------------------------------------------------------------
(* The invariant *)

LEMMA InitOK == Init => IndInv
<1> SUFFICES ASSUME Init PROVE IndInv OBVIOUS
<1>1. Absent \in Rows /\ RowInv(Absent) /\ Absent.moves = 0
  BY DEF Absent, Rows, States, Receipts, RowInv, Entitled, Ended
<1>2. RowsOK BY <1>1 DEF Init, RowsOK
<1>3. \A c \in Clients : /\ client[c].pc = "off" /\ client[c].op \in Operations /\ client[c].behind = 0
                         /\ client[c].cancelled = FALSE /\ client[c].reconciles = FALSE
                         /\ client[c].answer = NoAnswer
  BY DEF Init
<1>4. client \in [Clients -> ClientStates]
  <2> DEFINE Started == [pc : {"off"}, op : Operations, behind : {0}, cancelled : {FALSE},
                         reconciles : {FALSE}, answer : {NoAnswer}]
  <2>1. NoAnswer \in Answers /\ "off" \in Pcs /\ 0 \in 0..2 BY NothingSaid DEF AnswerOK, Pcs
  <2>2. Started \subseteq ClientStates BY <2>1 DEF ClientStates
  <2>3. client \in [Clients -> Started] BY DEF Init
  <2> HIDE DEF Started
  <2> QED BY <2>2, <2>3
<1>5. ClientsOK BY <1>3, <1>4, NothingSaid DEF ClientsOK, ClientOK
<1>6. Bound /\ Verified BY <1>3 DEF Bound, Verified
<1>7. TypeOK
  <2>1. row \in [Operations -> Rows] BY <1>2 DEF RowsOK
  <2>2. dispatch \in [Operations -> {"none", "open", "settled"}] BY DEF Init
  <2>3. job \in [Operations -> Jobs] BY DEF Init, Jobs
  <2>4. wire \in [Operations -> BOOLEAN] BY DEF Init
  <2> QED BY <1>4, <2>1, <2>2, <2>3, <2>4 DEF Init, TypeOK
<1> QED BY <1>2, <1>5, <1>6, <1>7 DEF IndInv, Core

LEMMA Idle == ASSUME Core, row' = row, client' = client PROVE Core' /\ Kept
<1>1. RowsOK' /\ Kept BY KeptRows DEF Core
<1> QED BY <1>1 DEF Core, ClientsOK, Bound, Verified, Row

LEMMA CoreStep == ASSUME IndInv, Next PROVE Core' /\ Kept
<1> USE DEF IndInv
<1>1. CASE TaskStep
  <2>1. "task" \in Clients BY DEF Clients
  <2> QED BY <1>1, <2>1, EnterStep, QuoteRejectedStep, SubmitStep, SettleStep, ClientStepOutcome
      DEF TaskStep, TypeOK
<1>2. CASE SweepStep
  <2>1. "sweep" \in Clients BY DEF Clients
  <2> QED BY <1>2, <2>1, SweepsStep, ClientStepOutcome DEF SweepStep, TypeOK
<1>3. CASE User
  <2>1. ASSUME NEW o \in Operations, Call(o) PROVE Core' /\ Kept BY <2>1, Idle DEF Call
  <2>2. ASSUME NEW o \in Operations, CancelOperation(o) PROVE Core' /\ Kept
    BY <2>2, RequestStep DEF CancelOperation
  <2>3. CASE CancelRun BY <2>3, RequestStep DEF CancelRun
  <2>4. CASE EditProject BY <2>4, Idle DEF EditProject
  <2> QED BY <1>3, <2>1, <2>2, <2>3, <2>4 DEF User
<1>4. CASE Provider
  <2>1. ASSUME NEW o \in Operations, Arrives(o) \/ Refuses(o) \/ LosesSubmission(o) \/ Ends(o)
        PROVE  Core' /\ Kept
    BY <2>1, Idle DEF Arrives, Refuses, LosesSubmission, Ends, durable
  <2> QED BY <1>4, <2>1, RepliesStep DEF Provider
<1>5. CASE Tick \/ Crash \/ \E c \in Clients : CrashAfterReceipt(c)
  BY <1>5, TickStep, CrashStep, CrashAfterReceiptStep
<1> QED BY <1>1, <1>2, <1>3, <1>4, <1>5 DEF Next

\* What surrounds the rows and the clients keeps its type.
Around ==
  /\ dispatch \in [Operations -> {"none", "open", "settled"}]
  /\ run \in {"running", "stopped"} /\ stale \subseteq Operations
  /\ job \in [Operations -> Jobs] /\ wire \in [Operations -> BOOLEAN] /\ crashes \in Nat

LEMMA AroundStep == ASSUME IndInv, Next PROVE Around'
<1>1. Around BY DEF IndInv, TypeOK, Around
<1>2. UNCHANGED World => Around' BY <1>1 DEF World, Around
<1>3. ASSUME NEW c \in Clients, ClientStep(c) PROVE Around'
  <2>1. CASE Resubmit(c) BY <1>1, <2>1 DEF Resubmit, Around
  <2> QED BY <1>2, <1>3, <2>1 DEF ClientStep, Reconcile, Submitted, CancelAnswered, Reconciled,
                                  VerifyFails, Publish
<1>4. CASE TaskStep
  <2>1. ASSUME NEW q \in Quotes, Submit(q) PROVE Around' BY <1>1, <2>1 DEF Submit, Around
  <2>2. CASE Settle BY <1>1, <2>2 DEF Settle, Around
  <2>3. ASSUME NEW o \in Operations, Enter(o) PROVE Around'
    BY <1>1, <2>3 DEF Enter, durable, Around
  <2>4. CASE QuoteRejected BY <1>1, <2>4 DEF QuoteRejected, durable, Around
  <2> QED BY <1>3, <1>4, <2>1, <2>2, <2>3, <2>4 DEF TaskStep, Clients
<1>5. CASE SweepStep
  <2>1. ASSUME NEW o \in Operations, Sweep(o) PROVE Around'
    BY <1>1, <2>1 DEF Sweep, durable, Around
  <2> QED BY <1>3, <1>5, <2>1 DEF SweepStep, Clients
<1>6. CASE User
  <2>1. ASSUME NEW o \in Operations, Call(o) PROVE Around' BY <1>1, <2>1 DEF Call, Around
  <2>2. ASSUME NEW o \in Operations, CancelOperation(o) PROVE Around'
    BY <1>2, <2>2 DEF CancelOperation
  <2>3. CASE CancelRun BY <1>1, <2>3 DEF CancelRun, Around
  <2>4. CASE EditProject BY <1>1, <2>4 DEF EditProject, Around
  <2> QED BY <1>6, <2>1, <2>2, <2>3, <2>4 DEF User
<1>7. CASE Provider
  <2>1. ASSUME NEW o \in Operations, Arrives(o) \/ Refuses(o) \/ LosesSubmission(o) PROVE Around'
    <3>1. \A j \in Jobs : \A st \in {"accepted", "refused"} : [j EXCEPT !.state = st] \in Jobs
      BY DEF Jobs
    <3>2. job[o] \in Jobs BY <1>1 DEF Around
    <3>3. job' \in [Operations -> Jobs]
      BY <1>1, <2>1, <3>1, <3>2 DEF Arrives, Refuses, LosesSubmission, Around
    <3> QED BY <1>1, <2>1, <3>3 DEF Arrives, Refuses, LosesSubmission, durable, Around
  <2>2. ASSUME NEW o \in Operations, Ends(o) PROVE Around'
    <3>1. PICK end \in Ended, charge \in Charges :
            job' = [job EXCEPT ![o] = [state |-> end, charge |-> charge]]
      BY <2>2 DEF Ends, Ended
    <3>2. [state |-> end, charge |-> charge] \in Jobs BY AmountAssumption DEF Jobs
    <3> QED BY <1>1, <2>2, <3>1, <3>2 DEF Ends, durable, Around
  <2>3. ASSUME NEW c \in Clients, RepliesTruly(c) \/ RepliesVaguely(c) PROVE Around'
    BY <1>1, <2>3 DEF RepliesTruly, RepliesVaguely, Replies, durable, Around
  <2> QED BY <1>7, <2>1, <2>2, <2>3 DEF Provider
<1>8. CASE Tick BY <1>2, <1>8 DEF Tick
<1>9. CASE Crash BY <1>1, <1>9 DEF Crash, durable, Around
<1>10. ASSUME NEW c \in Clients, CrashAfterReceipt(c) PROVE Around'
  BY <1>1, <1>10 DEF CrashAfterReceipt, Around
<1> QED BY <1>4, <1>5, <1>6, <1>7, <1>8, <1>9, <1>10 DEF Next

LEMMA IndStep == IndInv /\ [Next]_vars => IndInv'
<1> SUFFICES ASSUME IndInv, [Next]_vars PROVE IndInv' OBVIOUS
<1>1. CASE Next
  <2>1. Core' /\ Around' BY <1>1, CoreStep, AroundStep
  <2> QED BY <2>1 DEF IndInv, TypeOK, Core, RowsOK, ClientsOK, Around
<1>2. CASE UNCHANGED vars
  <2>1. Core' BY <1>2, Idle DEF IndInv, vars, durable
  <2> QED BY <1>2, <2>1 DEF IndInv, TypeOK, vars, durable
<1> QED BY <1>1, <1>2

LEMMA Invariance == Spec => []IndInv
<1> QED BY InitOK, IndStep, PTL DEF Spec

-----------------------------------------------------------------------------
(* Results *)

\* Every variable keeps its type, with any number of operations, charges and crashes.
THEOREM TypeCorrect == Spec => []TypeOK
<1>1. IndInv => TypeOK BY DEF IndInv
<1> QED BY <1>1, Invariance, PTL

\* The ledger of every operation says what its attempt is entitled to, in every reachable state:
\* it follows from the shape of the rows, which each outcome of a resumption keeps.
THEOREM LedgerCorrect == Spec => []LedgerFollowsAttempt
<1>1. IndInv => LedgerFollowsAttempt
  BY DEF IndInv, Core, RowsOK, RowInv, LedgerFollowsAttempt
<1> QED BY <1>1, Invariance, PTL

\* Every step keeps what Kept says of the rows.
LEMMA KeptStep == IndInv /\ [Next]_vars => Kept
<1> SUFFICES ASSUME IndInv, [Next]_vars PROVE Kept OBVIOUS
<1>1. CASE UNCHANGED vars BY <1>1, KeptRows DEF IndInv, Core, vars, durable
<1> QED BY <1>1, CoreStep

\* An attempt that ended never changes again, whichever client, answer or crash comes after.
THEOREM VerdictIsFinal == Spec => TerminalIsFinal
<1>1. IndInv /\ [Next]_vars =>
        [\A o \in Operations : Terminal(row[o]) => row'[o] \in {row[o], Older(row[o])}]_vars
  BY KeptStep DEF Kept
<1> QED BY <1>1, Invariance, PTL DEF TerminalIsFinal, Spec

\* Every write of an attempt follows the transition table, and no receipt or request to cancel is
\* ever lost.
THEOREM AttemptContract == Spec => FollowsAttemptContract
<1>1. IndInv /\ [Next]_vars => [\A o \in Operations : Allowed(row[o], row'[o])]_vars
  BY KeptStep DEF Kept
<1> QED BY <1>1, Invariance, PTL DEF FollowsAttemptContract, Spec

\* A request leaves for the provider only while its operation is open and nobody asked to cancel it.
THEOREM OnlyOpenSubmissions == Spec => NeverSubmitsCancelled
<1> DEFINE A == \A o \in Operations : wire'[o] /\ ~wire[o] => ~row[o].cancel /\ ~Terminal(row[o])
<1>1. IndInv /\ [Next]_vars => [A]_vars
  <2> SUFFICES ASSUME IndInv, Next, NEW o \in Operations, wire'[o], ~wire[o]
               PROVE  ~row[o].cancel /\ ~Terminal(row[o])
    OBVIOUS
  <2>1. wire \in [Operations -> BOOLEAN] /\ Core BY DEF IndInv, TypeOK
  <2>2. wire' # wire OBVIOUS
  <2>3. UNCHANGED World => FALSE BY <2>2 DEF World
  <2>4. ASSUME NEW c \in Clients, ClientStep(c) PROVE ~row[o].cancel /\ ~Terminal(row[o])
    <3>1. Resubmit(c)
      BY <2>3, <2>4 DEF ClientStep, Reconcile, Submitted, CancelAnswered, Reconciled, VerifyFails,
                        Publish
    <3>2. client[c].behind \in 0..2 BY <2>1, ClientFacts, ClientFields
    <3>3. /\ client[c].pc = "verifying" /\ ~(client[c].behind > 0)
          /\ wire' = [wire EXCEPT ![client[c].op] = TRUE]
      BY <2>2, <3>1 DEF Resubmit
    <3>4. client[c].op = o BY <2>1, <3>3
    <3> QED BY <2>1, <3>2, <3>3, <3>4 DEF Core, Verified, Row
  <2>5. ASSUME NEW q \in Quotes, Submit(q) PROVE ~row[o].cancel /\ ~Terminal(row[o])
    <3>1. client["task"].pc = "quoting" /\ wire' = [wire EXCEPT ![client["task"].op] = TRUE]
      BY <2>5 DEF Submit
    <3>2. client["task"].op = o BY <2>1, <3>1
    <3>3. row[o].state = "absent" BY <2>1, <3>1, <3>2 DEF Core, Bound, Row, Clients
    <3> QED BY <2>1, <3>3 DEF Core, RowsOK, RowInv, Terminal, Ended
  <2>6. CASE TaskStep
    BY <2>2, <2>4, <2>5, <2>6 DEF TaskStep, Clients, Enter, QuoteRejected, Settle
  <2>7. CASE SweepStep BY <2>2, <2>4, <2>7 DEF SweepStep, Clients, Sweep
  <2>8. ~User BY <2>2, <2>3 DEF User, Call, CancelOperation, CancelRun, EditProject
  <2>9. ~Provider
    <3>1. ASSUME NEW p \in Operations, Arrives(p) \/ Refuses(p) \/ LosesSubmission(p) PROVE FALSE
      <4>1. wire' = [wire EXCEPT ![p] = FALSE] BY <3>1 DEF Arrives, Refuses, LosesSubmission
      <4> QED BY <2>1, <4>1
    <3> QED BY <2>2, <3>1 DEF Provider, Ends, RepliesTruly, RepliesVaguely, Replies
  <2>10. ~Tick /\ ~Crash /\ ~(\E c \in Clients : CrashAfterReceipt(c))
    BY <2>2, <2>3 DEF Tick, Crash, CrashAfterReceipt
  <2> QED BY <2>6, <2>7, <2>8, <2>9, <2>10 DEF Next
<1> QED BY <1>1, Invariance, PTL DEF NeverSubmitsCancelled, Spec

-----------------------------------------------------------------------------
(* The limit on generations *)

\* Only a submission creates an attempt.
NoneCreated == \A o \in Operations : row[o].state = "absent" => row'[o].state = "absent"

LEMMA OnlySubmitCreates ==
  ASSUME IndInv, Next PROVE NoneCreated \/ \E q \in Quotes : Submit(q)
<1>1. Core /\ row \in [Operations -> Rows] /\ job \in [Operations -> Jobs]
  BY DEF IndInv, TypeOK
<1>2. row' = row => NoneCreated BY DEF NoneCreated
<1>3. ASSUME NEW o \in Operations, NEW t, row' = [row EXCEPT ![o] = t], row[o].state # "absent"
      PROVE  NoneCreated
  BY <1>1, <1>3 DEF NoneCreated
<1>4. ASSUME NEW c \in Clients, ClientStep(c) PROVE NoneCreated
  <2>1. client[c].pc \notin {"off", "quoting"}
    BY <1>4 DEF ClientStep, Reconcile, Submitted, CancelAnswered, Reconciled, VerifyFails, Resubmit,
                Publish, Answered
  <2>2. Outcome(c, Row(c))
    BY <1>1, <1>4, ReconcileOutcome, SubmittedOutcome, CancelAnsweredOutcome, ReconciledOutcome,
       VerifyFailsOutcome, ResubmitOutcome, PublishOutcome DEF ClientStep
  <2>3. PICK s, k : Store(c, s, k) BY <2>2 DEF Outcome
  <2>4. row' = [row EXCEPT ![client[c].op] = [s EXCEPT !.moves = 0]] BY <2>3 DEF Store
  <2>5. client[c].op \in Operations /\ row[client[c].op].state # "absent"
    BY <1>1, <2>1, ClientFacts DEF Live
  <2> QED BY <1>3, <2>4, <2>5
<1>5. CASE TaskStep
  BY <1>2, <1>4, <1>5 DEF TaskStep, Clients, Enter, QuoteRejected, Settle, durable
<1>6. CASE SweepStep BY <1>2, <1>4, <1>6 DEF SweepStep, Clients, Sweep, durable
<1>7. CASE User
  <2>1. ASSUME NEW S \in SUBSET Operations, \A o \in S : Cancellable(o), RequestCancellation(S)
        PROVE  NoneCreated
    BY <2>1 DEF NoneCreated, Cancellable, RequestCancellation
  <2>2. ASSUME NEW o \in Operations, CancelOperation(o) PROVE NoneCreated
    BY <2>1, <2>2 DEF CancelOperation
  <2>3. CASE CancelRun BY <2>1, <2>3 DEF CancelRun
  <2> QED BY <1>2, <1>7, <2>2, <2>3 DEF User, Call, EditProject
<1>8. CASE Provider
  BY <1>2, <1>8 DEF Provider, Arrives, Refuses, LosesSubmission, Ends, RepliesTruly, RepliesVaguely,
                    Replies, durable
<1>9. CASE Tick
  <2>1. ASSUME NEW o \in Operations PROVE row'[o].state = row[o].state
    <3>1. row'[o] = Older(row[o]) /\ row[o] \in Rows /\ RowInv(row[o])
      BY <1>1, <1>9 DEF Tick, Core, RowsOK
    <3> QED BY <3>1, OlderKeeps
  <2> QED BY <2>1 DEF NoneCreated
<1>10. CASE Crash BY <1>2, <1>10 DEF Crash, durable
<1>11. ASSUME NEW c \in Clients, CrashAfterReceipt(c) PROVE NoneCreated
  <2>1. client[c].pc \notin {"off", "quoting"} BY <1>11 DEF CrashAfterReceipt, Answered, Awaiting
  <2>2. client[c].op \in Operations /\ row[client[c].op].state # "absent"
    BY <1>1, <2>1, ClientFacts DEF Live
  <2>3. PICK t : row' = [row EXCEPT ![client[c].op] = t]
    <3> DEFINE t == [Recorded(row[client[c].op], client[c].reconciles) EXCEPT !.moves = 0]
    <3>1. row' = [row EXCEPT ![client[c].op] = t] BY <1>11 DEF CrashAfterReceipt
    <3> QED BY <3>1
  <2> QED BY <1>3, <2>2, <2>3
<1> QED BY <1>5, <1>6, <1>7, <1>8, <1>9, <1>10, <1>11 DEF Next

\* The reserved and counted generations stay within the Run's limit: an operation that exists is never
\* counted again once it was given up, and a new one is counted by the check that admits it.
THEOREM GenerationLimit == Spec => []GenerationsWithinBudget
<1> DEFINE Set == {o \in Operations : Counted(o)}
<1>1. Init => GenerationsWithinBudget
  <2> SUFFICES ASSUME Init PROVE GenerationsWithinBudget OBVIOUS
  <2>1. Set = {} BY DEF Init, Counted, Absent
  <2>2. Cardinality({}) = 0 BY FS_EmptySet
  <2> QED BY <2>1, <2>2, AmountAssumption DEF GenerationsWithinBudget
<1>2. IndInv /\ IndInv' /\ GenerationsWithinBudget /\ [Next]_vars => GenerationsWithinBudget'
  <2> SUFFICES ASSUME IndInv, IndInv', GenerationsWithinBudget, [Next]_vars
               PROVE  GenerationsWithinBudget'
    OBVIOUS
  <2>1. IsFiniteSet(Set) BY OperationAssumption, FS_Subset
  <2>2. Cardinality(Set) \in Nat BY <2>1, FS_CardinalityType
  <2>3. ASSUME NEW o \in Operations, row[o].state # "absent", Counted(o)' PROVE Counted(o)
    <3>1. Kept BY KeptStep
    <3>2. row[o] \in Rows /\ RowInv(row[o]) BY DEF IndInv, Core, RowsOK
    <3>3. CASE Terminal(row[o])
      <4>1. row'[o] \in {row[o], Older(row[o])} BY <3>1, <3>3 DEF Kept
      <4>2. Older(row[o]).count \in {"reserved", "fresh", "dated"}
            => row[o].count \in {"reserved", "fresh", "dated"}
        BY <3>2 DEF Older, Rows
      <4> QED BY <2>3, <4>1, <4>2 DEF Counted
    <3>4. CASE ~Terminal(row[o])
      BY <2>3, <3>2, <3>4, RowFields DEF Counted, RowInv, Entitled, Receipts, Terminal
    <3> QED BY <3>3, <3>4
  <2>4. ASSUME NEW o \in Operations, row'[o].state = "absent" PROVE ~Counted(o)'
    BY <2>4 DEF IndInv, Core, RowsOK, RowInv, Entitled, Counted
  <2>5. CASE NoneCreated
    <3>1. Set' \subseteq Set BY <2>3, <2>4, <2>5 DEF NoneCreated
    <3>2. Cardinality(Set') <= Cardinality(Set) /\ Cardinality(Set') \in Nat
      BY <2>1, <3>1, FS_Subset, FS_CardinalityType
    <3> QED BY <2>2, <3>2, AmountAssumption DEF GenerationsWithinBudget
  <2>6. ASSUME NEW q \in Quotes, Submit(q) PROVE GenerationsWithinBudget'
    <3> DEFINE o == client["task"].op
    <3>1. Cardinality(Set) + 1 <= MaxGenerations BY <2>6 DEF Submit, Affordable
    <3>2. \A p \in Operations : p # o => row'[p] = row[p] BY <2>6 DEF Submit, Store, IndInv, TypeOK
    <3>3. Set' \subseteq Set \cup {o} BY <3>2 DEF Counted
    <3>4. IsFiniteSet(Set \cup {o}) /\ Cardinality(Set \cup {o}) \in {Cardinality(Set), Cardinality(Set) + 1}
      BY <2>1, FS_AddElement
    <3>5. Cardinality(Set') <= Cardinality(Set \cup {o}) /\ Cardinality(Set') \in Nat
      BY <3>3, <3>4, FS_Subset, FS_CardinalityType
    <3> QED BY <2>2, <3>1, <3>4, <3>5, AmountAssumption DEF GenerationsWithinBudget
  <2>7. CASE UNCHANGED vars BY <2>7 DEF vars, durable, NoneCreated, GenerationsWithinBudget, Counted
  <2> QED BY <2>5, <2>6, <2>7, OnlySubmitCreates
<1> QED BY <1>1, <1>2, Invariance, PTL DEF Spec

-----------------------------------------------------------------------------
(* What the provider took on stays covered                                   *)

\* The provider has not taken the operation on, and nothing on the way to it will make it do so; nothing can be said
\* of that when not_submitted may be answered although a submission is on its way.
Untaken(o) == "late" \notin Events => job[o].state \in {"none", "refused"} /\ ~wire[o]
Unseen(o) == "late" \notin Events => job[o].state = "none" /\ ~wire[o]

\* An answer that nothing was submitted, or that it was refused, stays true while its client has it: only the task
\* submits, and the sweep looks at operations that are to be cancelled and are not submitted again.
SweepPcs == {"off", "reconcile", "reconciling", "cancelling", "publishing"}
Sweeping ==
  /\ client["sweep"].pc \in SweepPcs
  /\ client["sweep"].pc # "off" => Row("sweep").cancel
Truthful(c) ==
  /\ client[c].pc \in Awaiting /\ client[c].answer.state = "not_submitted" => Unseen(client[c].op)
  /\ client[c].pc \in Awaiting /\ client[c].answer.state \in Ended /\ ~client[c].answer.receipt => Untaken(client[c].op)
  /\ client[c].pc = "verifying" => Unseen(client[c].op)
ClosedRight ==
  \A o \in Operations : /\ row[o].cost = "released" => Untaken(o)
                        /\ row[o].state = "absent" => Unseen(o)

Covered == Sweeping /\ (\A c \in Clients : Truthful(c)) /\ ClosedRight

\* What a resumption of c does to the ledger entries of its row: nothing, or they are closed, with everything given
\* back to an operation the provider has not taken on, or with a charge the quote covers.
Quiet(r, s) == s.quote = r.quote /\ s.cost = r.cost /\ s.charge = r.charge
Booked(c, r, s) ==
  \/ Quiet(r, s)
  \/ s.quote = r.quote /\ r.cost = "reserved" /\ s.cost = "released" /\ Untaken(client[c].op)
  \/ /\ s.quote = r.quote /\ r.cost = "reserved" /\ s.cost = "settled"
     /\ s.charge \in Nat /\ (Priced(r) => s.charge <= r.quote)
GoesOnAs(c, k) ==
  /\ k.op = client[c].op
  /\ k.pc \in Awaiting => k.answer = NoAnswer
  /\ k.pc = "verifying" => c = "task" /\ Unseen(client[c].op)
  /\ c = "sweep" => k.pc \in SweepPcs
Does(c, r) == \E s, k : Booked(c, r, s) /\ GoesOnAs(c, k) /\ Store(c, s, k)

LEMMA QuietRows ==
  ASSUME NEW r \in Rows
  PROVE  /\ Quiet(r, Unknown(r)) /\ Quiet(r, Older(r)) /\ Quiet(r, Claimed(r)) /\ Quiet(r, CancelRequested(r))
         /\ Quiet(r, Moved([r EXCEPT !.state = "submitted"]))
         /\ \A b \in BOOLEAN : Quiet(r, Recorded(r, b))
<1>1. Quiet(r, Unknown(r)) /\ Quiet(r, Older(r)) /\ Quiet(r, Claimed(r)) /\ Quiet(r, CancelRequested(r))
      /\ Quiet(r, Moved([r EXCEPT !.state = "submitted"]))
  BY DEF Quiet, Unknown, Older, Claimed, CancelRequested, Moved, Rows
<1>2. ASSUME NEW b \in BOOLEAN PROVE Quiet(r, Recorded(r, b))
  BY DEF Quiet, Recorded, Moved, Rows
<1> QED BY <1>1, <1>2

\* Steps of an attempt that leave the ledger alone may come before.
LEMMA DoesLater == ASSUME NEW c, NEW r, NEW s, Quiet(r, s), Does(c, s) PROVE Does(c, r)
<1>1. PICK t, k : Booked(c, s, t) /\ GoesOnAs(c, k) /\ Store(c, t, k)
  BY DEF Does
<1>2. Booked(c, r, t)
  BY <1>1 DEF Booked, Quiet, Priced
<1> QED BY <1>1, <1>2 DEF Does

LEMMA DoesThrow ==
  ASSUME NEW c \in Clients, client[c] \in ClientStates, NEW r, NEW s, Booked(c, r, s), Throws(c, s) PROVE Does(c, r)
<1>1. GoesOnAs(c, Off(c))
  BY OffFits DEF GoesOnAs, Awaiting, SweepPcs
<1> QED BY <1>1 DEF Does, Throws

LEMMA DoesReturn ==
  ASSUME NEW c \in Clients, client[c] \in ClientStates, NEW r, NEW s, Booked(c, r, s), Returns(c, s) PROVE Does(c, r)
<1>1. GoesOnAs(c, Off(c))
  BY OffFits DEF GoesOnAs, Awaiting, SweepPcs
<1>2. ASSUME NEW pc \in {"settling", "reconcile"}, c = "task" PROVE GoesOnAs(c, Fresh(c, pc))
  <2>1. pc \in Pcs
    BY DEF Pcs
  <2>2. Fresh(c, pc).pc = pc /\ Fresh(c, pc).op = client[c].op
    BY <2>1, FreshFits
  <2> QED BY <1>2, <2>2 DEF GoesOnAs, Awaiting
<1> QED BY <1>1, <1>2 DEF Does, Returns

\* Both reservations are given back: of an operation the provider does not have.
LEMMA DoesWithoutReceipt ==
  ASSUME NEW c \in Clients, client[c] \in ClientStates, NEW r, Live(r), NEW end,
         Untaken(client[c].op), ReturnsWithoutReceipt(c, r, end)
  PROVE  Does(c, r)
<1>1. Quiet(r, r)
  BY DEF Quiet
<1>2. CASE Terminal(r)
  BY <1>1, <1>2, DoesReturn DEF ReturnsWithoutReceipt, Booked
<1>3. CASE ~Terminal(r) /\ r.receipt # "none"
  BY <1>1, <1>3, DoesThrow DEF ReturnsWithoutReceipt, Booked
<1>4. CASE ~Terminal(r) /\ r.receipt = "none"
  <2>1. Returns(c, GivenUp(r, end))
    BY <1>4 DEF ReturnsWithoutReceipt
  <2>2. r \in Rows /\ r.cost = "reserved"
    BY <1>4 DEF Live, RowInv, Entitled, Terminal
  <2>3. GivenUp(r, end).quote = r.quote /\ GivenUp(r, end).cost = "released"
    BY <2>2 DEF GivenUp, Moved, Rows
  <2>4. Booked(c, r, GivenUp(r, end))
    BY <2>2, <2>3 DEF Booked
  <2> QED BY <2>1, <2>4, DoesReturn
<1> QED BY <1>2, <1>3, <1>4

LEMMA DoesWithReceipt ==
  ASSUME NEW c \in Clients, client[c] \in ClientStates, NEW r \in Rows, NEW a, ReturnsWithReceipt(c, r, a)
  PROVE  Does(c, r)
<1>1. Booked(c, r, r) /\ Booked(c, r, Unknown(r)) /\ Booked(c, r, Moved([r EXCEPT !.state = "submitted"]))
  BY QuietRows DEF Booked, Quiet
<1> DEFINE k == [client[c] EXCEPT !.pc = "publishing", !.behind = 0, !.cancelled = FALSE]
<1>2. \/ Returns(c, Unknown(r)) \/ Returns(c, r) \/ Returns(c, Moved([r EXCEPT !.state = "submitted"])) \/ Throws(c, r)
      \/ Store(c, r, k)
  BY DEF ReturnsWithReceipt
<1>3. GoesOnAs(c, k)
  BY DEF GoesOnAs, ClientStates, Awaiting, SweepPcs
<1> HIDE DEF k
<1> QED BY <1>1, <1>2, <1>3, DoesReturn, DoesThrow DEF Does

LEMMA DoesProcess ==
  ASSUME NEW c \in Clients, client[c] \in ClientStates, NEW r, Live(r), NEW a, AnswerOK(a), Processes(c, r, a),
         a.state \in {"not_submitted"} \cup Ended /\ ~a.receipt => Untaken(client[c].op),
         a.state \notin {"none", "lost"}
  PROVE  Does(c, r)
<1>1. r \in Rows /\ client[c].reconciles \in BOOLEAN /\ a.state \in {"not_submitted", "unknown", "submitted"} \cup Ended
  BY ClientFields DEF Live, AnswerOK, Answers
<1>2. CASE a.state = "not_submitted"
  <2>1. ~a.receipt
    BY <1>2 DEF AnswerOK, Ended
  <2> QED BY <1>2, <2>1, DoesWithoutReceipt DEF Processes
<1>3. CASE a.state # "not_submitted" /\ a.receipt /\ CountConflicts(r)
  <2>1. Throws(c, r)
    BY <1>3 DEF Processes
  <2> QED BY <2>1, DoesThrow DEF Booked, Quiet
<1>4. CASE a.state # "not_submitted" /\ a.receipt /\ ~CountConflicts(r)
  <2>1. ReturnsWithReceipt(c, Recorded(r, client[c].reconciles), a)
    BY <1>4 DEF Processes
  <2>2. Recorded(r, client[c].reconciles) \in Rows
    BY <1>1, <1>4, AdvanceRecorded DEF Advance, Live
  <2>3. Does(c, Recorded(r, client[c].reconciles))
    BY <2>1, <2>2, DoesWithReceipt
  <2> QED BY <1>1, <2>3, QuietRows, DoesLater
<1>5. CASE ~a.receipt /\ a.state = "unknown"
  <2>1. Returns(c, Unknown(r))
    BY <1>5 DEF Processes
  <2> QED BY <1>1, <2>1, QuietRows, DoesReturn DEF Booked
<1>6. CASE ~a.receipt /\ a.state \notin {"unknown", "not_submitted"}
  <2>1. ReturnsWithoutReceipt(c, r, a.state) /\ a.state \in Ended
    BY <1>1, <1>6 DEF Processes, AnswerOK
  <2> QED BY <1>6, <2>1, DoesWithoutReceipt
<1> QED BY <1>2, <1>3, <1>4, <1>5, <1>6 DEF AnswerOK, Answers

LEMMA DoesReconcile == ASSUME Core, NEW c \in Clients, Reconcile(c) PROVE Does(c, Row(c))
<1>1. client[c] \in ClientStates /\ Row(c) \in Rows
  BY ClientFacts
<1>2. Booked(c, Row(c), Row(c)) /\ Booked(c, Row(c), Claimed(Row(c)))
  BY <1>1, QuietRows DEF Booked, Quiet
<1> DEFINE ask == [Fresh(c, "reconciling") EXCEPT !.cancelled = Row(c).cancel, !.reconciles = TRUE]
           stop == [Fresh(c, "cancelling") EXCEPT !.reconciles = TRUE]
<1>3. GoesOnAs(c, ask) /\ GoesOnAs(c, stop)
  <2>1. Fresh(c, "reconciling") \in ClientStates /\ Fresh(c, "cancelling") \in ClientStates
        /\ Fresh(c, "reconciling").pc = "reconciling" /\ Fresh(c, "cancelling").pc = "cancelling"
        /\ Fresh(c, "reconciling").op = client[c].op /\ Fresh(c, "cancelling").op = client[c].op
        /\ Fresh(c, "reconciling").answer = NoAnswer /\ Fresh(c, "cancelling").answer = NoAnswer
    BY <1>1, FreshFits DEF Pcs
  <2>2. ask.pc = "reconciling" /\ ask.op = client[c].op /\ ask.answer = NoAnswer
        /\ stop.pc = "cancelling" /\ stop.op = client[c].op /\ stop.answer = NoAnswer
    BY <2>1 DEF ClientStates
  <2> QED BY <2>2 DEF GoesOnAs, SweepPcs
<1>4. Returns(c, Row(c)) \/ Throws(c, Row(c)) \/ Store(c, Claimed(Row(c)), stop) \/ Store(c, Row(c), ask)
  BY DEF Reconcile, CallsCancel
<1> HIDE DEF ask, stop
<1> QED BY <1>1, <1>2, <1>3, <1>4, DoesReturn, DoesThrow DEF Does

LEMMA DoesSubmitted ==
  ASSUME Core, NEW c \in Clients, Truthful(c), Submitted(c) \/ CancelAnswered(c) PROVE Does(c, Row(c))
<1>1. Answered(c, "submitting") \/ Answered(c, "cancelling")
  BY DEF Submitted, CancelAnswered
<1>2. /\ client[c] \in ClientStates /\ Live(Row(c)) /\ AnswerOK(client[c].answer) /\ client[c].answer.state # "none"
      /\ client[c].pc \in Awaiting
  BY <1>1, AnsweredFacts DEF Awaiting, Answered
<1>3. CASE Returns(c, Unknown(Row(c)))
  BY <1>2, <1>3, QuietRows, DoesReturn DEF Booked, Live
<1>4. CASE Processes(c, Row(c), client[c].answer) /\ client[c].answer.state # "lost"
  <2>1. client[c].answer.state \in {"not_submitted"} \cup Ended /\ ~client[c].answer.receipt => Untaken(client[c].op)
    BY <1>2 DEF Truthful, Untaken, Unseen
  <2> QED BY <1>2, <1>4, <2>1, DoesProcess
<1> QED BY <1>3, <1>4 DEF Submitted, CancelAnswered

LEMMA DoesGoOn ==
  ASSUME NEW c \in Clients, client[c] \in ClientStates, NEW r, Live(r), NEW a, AnswerOK(a), GoesOn(c, r, a),
         a.state \in {"not_submitted"} \cup Ended /\ ~a.receipt => Untaken(client[c].op),
         a.state \notin {"none", "lost"}
  PROVE  Does(c, r)
<1>1. r \in Rows
  BY DEF Live
<1>2. Booked(c, r, r) /\ Booked(c, r, Claimed(r))
  BY <1>1, QuietRows DEF Booked, Quiet
<1>3. CASE Throws(c, r)
  BY <1>2, <1>3, DoesThrow
<1>4. CASE CallsCancel(c, r)
  <2> DEFINE stop == [Fresh(c, "cancelling") EXCEPT !.reconciles = TRUE]
  <2>1. Fresh(c, "cancelling") \in ClientStates /\ Fresh(c, "cancelling").pc = "cancelling"
        /\ Fresh(c, "cancelling").op = client[c].op /\ Fresh(c, "cancelling").answer = NoAnswer
    BY FreshFits DEF Pcs
  <2>2. stop.pc = "cancelling" /\ stop.op = client[c].op /\ stop.answer = NoAnswer
    BY <2>1 DEF ClientStates
  <2>3. GoesOnAs(c, stop)
    BY <2>2 DEF GoesOnAs, SweepPcs
  <2>4. Store(c, Claimed(r), stop)
    BY <1>4 DEF CallsCancel
  <2> HIDE DEF stop
  <2> QED BY <1>2, <2>3, <2>4 DEF Does
<1>5. CASE \E later \in Later(r) : Processes(c, later, a)
  <2>1. PICK later \in Later(r) : Processes(c, later, a)
    BY <1>5
  <2>2. later \in {r, Older(r)}
    BY DEF Later
  <2>3. Live(later) /\ Quiet(r, later)
    BY <1>1, <2>2, QuietRows, AdvanceOlder DEF Advance, Quiet
  <2>4. Does(c, later)
    BY <2>1, <2>3, DoesProcess
  <2> QED BY <2>3, <2>4, DoesLater
<1> QED BY <1>3, <1>4, <1>5 DEF GoesOn

\* The references of an operation that nobody cancelled are verified by the task, since the sweep takes up cancelled
\* operations only.
LEMMA DoesNotSubmitted ==
  ASSUME Core, NEW c \in Clients, Sweeping, Unseen(client[c].op), client[c].pc = "reconciling",
         NotSubmitted(c, Row(c))
  PROVE  Does(c, Row(c))
<1>1. client[c] \in ClientStates /\ Row(c) \in Rows /\ Live(Row(c))
  BY ClientFacts
<1>2. Booked(c, Row(c), Row(c)) /\ Booked(c, Row(c), Unknown(Row(c)))
  BY <1>1, QuietRows DEF Booked, Quiet
<1>3. Returns(c, Row(c)) \/ Throws(c, Row(c)) \/ Returns(c, Unknown(Row(c))) => Does(c, Row(c))
  BY <1>1, <1>2, DoesReturn, DoesThrow
<1>4. CASE ~Terminal(Row(c)) /\ client[c].behind = 0 /\ Row(c).receipt = "none"
  <2>1. Row(c).cost = "reserved"
    BY <1>1, <1>4 DEF Live, RowInv, Entitled, Terminal
  <2>2. ASSUME NEW end, Returns(c, GivenUp(Row(c), end)) PROVE Does(c, Row(c))
    <3>1. GivenUp(Row(c), end).quote = Row(c).quote /\ GivenUp(Row(c), end).cost = "released"
      BY <1>1 DEF GivenUp, Moved, Rows
    <3>2. Booked(c, Row(c), GivenUp(Row(c), end))
      BY <2>1, <3>1 DEF Booked, Unseen, Untaken
    <3> QED BY <1>1, <2>2, <3>2, DoesReturn
  <2>3. ASSUME Store(c, Row(c), At(c, "verifying")), ~Row(c).cancel PROVE Does(c, Row(c))
    <3>1. c = "task"
      BY <2>3 DEF Sweeping, Clients
    <3>2. At(c, "verifying").pc = "verifying" /\ At(c, "verifying").op = client[c].op
      BY <1>1, AtFits DEF Pcs
    <3>3. GoesOnAs(c, At(c, "verifying"))
      BY <3>1, <3>2 DEF GoesOnAs, Awaiting
    <3> QED BY <1>2, <2>3, <3>3 DEF Does
  <2>4. CASE Row(c).cancel
    BY <1>4, <2>2, <2>4 DEF NotSubmitted
  <2>5. CASE ~Row(c).cancel
    BY <1>4, <2>2, <2>3, <2>5 DEF NotSubmitted
  <2> QED BY <2>4, <2>5
<1>5. CASE ~(~Terminal(Row(c)) /\ client[c].behind = 0 /\ Row(c).receipt = "none")
  <2>1. client[c].behind = 0 \/ client[c].behind > 0
    BY <1>1, ClientFields
  <2>2. CASE Terminal(Row(c))
    BY <1>3, <2>2 DEF NotSubmitted
  <2>3. CASE ~Terminal(Row(c)) /\ client[c].behind > 0
    BY <1>3, <2>3 DEF NotSubmitted
  <2>4. CASE ~Terminal(Row(c)) /\ client[c].behind = 0 /\ Row(c).receipt # "none"
    BY <1>3, <2>4 DEF NotSubmitted
  <2> QED BY <1>5, <2>1, <2>2, <2>3, <2>4
<1> QED BY <1>4, <1>5

LEMMA DoesReconciled ==
  ASSUME Core, NEW c \in Clients, Sweeping, Truthful(c), Reconciled(c) PROVE Does(c, Row(c))
<1> DEFINE a == client[c].answer
<1>1. Answered(c, "reconciling") /\ client[c].pc = "reconciling"
  BY DEF Reconciled, Answered
<1>2. /\ client[c] \in ClientStates /\ Live(Row(c)) /\ Row(c) \in Rows /\ AnswerOK(a) /\ a.state # "none"
      /\ client[c].pc \in Awaiting
  BY <1>1, AnsweredFacts DEF Awaiting, Live
<1>3. a.state \in {"not_submitted"} \cup Ended /\ ~a.receipt => Untaken(client[c].op)
  BY <1>2 DEF Truthful, Untaken, Unseen
<1>4. CASE a.state = "lost"
  <2>1. Returns(c, Unknown(Row(c)))
    <3>1. ~a.receipt
      BY <1>2, <1>4 DEF AnswerOK, Ended
    <3> QED BY <1>4, <3>1 DEF Reconciled
  <2>2. Booked(c, Row(c), Unknown(Row(c)))
    BY <1>2, QuietRows DEF Booked
  <2> QED BY <1>2, <2>1, <2>2, DoesReturn
<1>5. CASE a.state = "not_submitted"
  <2>1. Unseen(client[c].op) /\ NotSubmitted(c, Row(c))
    <3>1. ~a.receipt
      BY <1>2, <1>5 DEF AnswerOK, Ended
    <3>2. NotSubmitted(c, Row(c))
      BY <1>5, <3>1 DEF Reconciled
    <3> QED BY <1>2, <1>5, <3>2 DEF Truthful
  <2> QED BY <1>1, <2>1, DoesNotSubmitted
<1>6. CASE a.state \notin {"lost", "not_submitted"}
  <2>1. CASE a.receipt /\ CountConflicts(Row(c))
    <3>1. Throws(c, Row(c))
      BY <1>6, <2>1 DEF Reconciled
    <3> QED BY <1>2, <3>1, DoesThrow DEF Booked, Quiet
  <2>2. CASE a.receipt /\ ~CountConflicts(Row(c))
    <3>1. GoesOn(c, Recorded(Row(c), TRUE), a)
      BY <1>6, <2>2 DEF Reconciled
    <3>2. Live(Recorded(Row(c), TRUE))
      BY <1>2, AdvanceRecorded DEF Advance
    <3>3. Does(c, Recorded(Row(c), TRUE))
      BY <1>2, <1>3, <1>6, <3>1, <3>2, DoesGoOn
    <3> QED BY <1>2, <3>3, QuietRows, DoesLater
  <2>3. CASE ~a.receipt
    <3>1. GoesOn(c, Row(c), a)
      BY <1>6, <2>3 DEF Reconciled
    <3> QED BY <1>2, <1>3, <1>6, <3>1, DoesGoOn
  <2> QED BY <2>1, <2>2, <2>3
<1> QED BY <1>4, <1>5, <1>6

LEMMA DoesVerified ==
  ASSUME Core, NEW c \in Clients, Sweeping, Truthful(c), VerifyFails(c) \/ Resubmit(c) PROVE Does(c, Row(c))
<1>1. client[c].pc = "verifying" /\ client[c] \in ClientStates /\ Row(c) \in Rows /\ Live(Row(c))
  BY ClientFacts DEF VerifyFails, Resubmit
<1>2. CASE VerifyFails(c)
  <2>1. Untaken(client[c].op)
    BY <1>1 DEF Truthful, Untaken, Unseen
  <2> QED BY <1>1, <1>2, <2>1, DoesWithoutReceipt DEF VerifyFails
<1>3. CASE Resubmit(c)
  <2>1. Booked(c, Row(c), Row(c)) /\ Booked(c, Row(c), Claimed(Row(c)))
    BY <1>1, QuietRows DEF Booked, Quiet
  <2>2. CASE client[c].behind > 0
    BY <1>1, <1>3, <2>1, <2>2, DoesThrow DEF Resubmit
  <2>3. CASE ~(client[c].behind > 0)
    <3>1. Store(c, Claimed(Row(c)), Fresh(c, "submitting"))
      BY <1>3, <2>3 DEF Resubmit
    <3>2. Fresh(c, "submitting").pc = "submitting" /\ Fresh(c, "submitting").op = client[c].op
          /\ Fresh(c, "submitting").answer = NoAnswer
      BY <1>1, FreshFits DEF Pcs
    <3>3. c # "sweep"
      BY <1>1 DEF Sweeping, SweepPcs
    <3>4. GoesOnAs(c, Fresh(c, "submitting"))
      BY <3>2, <3>3 DEF GoesOnAs
    <3> QED BY <2>1, <3>1, <3>4 DEF Does
  <2> QED BY <2>2, <2>3
<1> QED BY <1>2, <1>3

LEMMA DoesPublish ==
  ASSUME Core, job \in [Operations -> Jobs], NEW c \in Clients, Publish(c) PROVE Does(c, Row(c))
<1> DEFINE charge == job[client[c].op].charge
<1>1. client[c] \in ClientStates /\ Row(c) \in Rows /\ Live(Row(c)) /\ client[c].op \in Operations
  BY ClientFacts DEF Publish
<1>2. charge \in Nat
  BY <1>1 DEF Jobs
<1>3. Returns(c, Row(c)) \/ Throws(c, Row(c)) => Does(c, Row(c))
  BY <1>1, DoesReturn, DoesThrow DEF Booked, Quiet
<1>4. ASSUME ~Terminal(Row(c)), ~(Priced(Row(c)) /\ charge > Row(c).quote), NEW e, Returns(c, Paid(Row(c), e, charge))
      PROVE  Does(c, Row(c))
  <2>1. Row(c).cost = "reserved"
    BY <1>1, <1>4 DEF Live, RowInv, Entitled, Terminal
  <2>2. /\ Paid(Row(c), e, charge).quote = Row(c).quote /\ Paid(Row(c), e, charge).cost = "settled"
        /\ Paid(Row(c), e, charge).charge = charge
    BY <1>1 DEF Paid, Moved, Rows
  <2>3. Priced(Row(c)) => Row(c).quote \in Nat
    <3>1. Row(c).quote \in Quotes \cup {0}
      BY <1>1, RowFields
    <3>2. \A q \in Quotes \cup {0} : q # Unpriced => q \in Nat
      BY AmountAssumption
    <3> QED BY <3>1, <3>2 DEF Priced
  <2>4. Priced(Row(c)) => charge <= Row(c).quote
    BY <1>2, <1>4, <2>3
  <2>5. Booked(c, Row(c), Paid(Row(c), e, charge))
    BY <1>2, <2>1, <2>2, <2>4 DEF Booked
  <2> QED BY <1>1, <1>4, <2>5, DoesReturn
<1> QED BY <1>3, <1>4 DEF Publish

LEMMA ClientStepDoes ==
  ASSUME Core, job \in [Operations -> Jobs], Covered, NEW c \in Clients, ClientStep(c)
  PROVE  Does(c, Row(c)) /\ client[c].pc \notin {"off", "quoting"}
<1>1. Sweeping /\ Truthful(c)
  BY DEF Covered
<1>2. client[c].pc \notin {"off", "quoting"}
  BY DEF ClientStep, Reconcile, Submitted, CancelAnswered, Reconciled, VerifyFails, Resubmit, Publish, Answered
<1> QED BY <1>1, <1>2, DoesReconcile, DoesSubmitted, DoesReconciled, DoesVerified, DoesPublish DEF ClientStep

LEMMA CommittedFields ==
  ASSUME NEW s, [s EXCEPT !.moves = 0] \in Rows
  PROVE  LET t == [s EXCEPT !.moves = 0] IN t.cost = s.cost /\ t.charge = s.charge /\ t.quote = s.quote
BY DEF Rows

\* What a resumption shows once it is committed.
LEMMA DoesShows ==
  ASSUME Core, Core', NEW c \in Clients, Does(c, Row(c)), NEW o, o = client[c].op
  PROVE  /\ o \in Operations /\ Booked(c, row[o], row'[o]) /\ GoesOnAs(c, client'[c])
         /\ \A p \in Operations : p # o => row'[p] = row[p]
         /\ \A d \in Clients : d # c => /\ client'[d].pc = client[d].pc /\ client'[d].op = client[d].op
                                        /\ client'[d].answer = client[d].answer
<1>1. o \in Operations /\ row \in [Operations -> Rows] /\ row' \in [Operations -> Rows]
      /\ client \in [Clients -> ClientStates]
  BY ClientFacts DEF Core, RowsOK, ClientsOK
<1>2. PICK s, k : Booked(c, Row(c), s) /\ GoesOnAs(c, k) /\ Store(c, s, k)
  BY DEF Does
<1>3. row'[o] = [s EXCEPT !.moves = 0] /\ \A p \in Operations : p # o => row'[p] = row[p]
  BY <1>1, <1>2 DEF Store
<1>4. row'[o].cost = s.cost /\ row'[o].charge = s.charge /\ row'[o].quote = s.quote
  <2>1. [s EXCEPT !.moves = 0] \in Rows
    BY <1>1, <1>3
  <2> QED BY <1>3, <2>1, CommittedFields
<1>5. Booked(c, row[o], row'[o])
  BY <1>2, <1>4 DEF Booked, Quiet, Row
<1>6. client'[c] = k
  BY <1>2 DEF Store
<1>7. ASSUME NEW d \in Clients, d # c
      PROVE  client'[d].pc = client[d].pc /\ client'[d].op = client[d].op /\ client'[d].answer = client[d].answer
  <2>1. client'[d] = [client[d] EXCEPT !.behind = Behind(d, o, s.moves)]
    BY <1>2, <1>7 DEF Store
  <2>2. client[d] \in ClientStates
    BY <1>1, <1>7
  <2> QED BY <2>1, <2>2 DEF ClientStates
<1> QED BY <1>1, <1>2, <1>3, <1>5, <1>6, <1>7

\* A client at rest, and one whose state and job are as they were, is truthful.
LEMMA RestIsTruthful == ASSUME NEW c, client'[c].pc \notin Awaiting \cup {"verifying"} PROVE Truthful(c)'
BY DEF Truthful, Awaiting

LEMMA WaitIsTruthful ==
  ASSUME NEW c, client'[c].pc # "verifying", client'[c].answer = NoAnswer PROVE Truthful(c)'
BY DEF Truthful, Ended, NoAnswer

LEMMA StaysTruthful ==
  ASSUME NEW c \in Clients, Truthful(c), client'[c].pc = client[c].pc, client'[c].op = client[c].op,
         client'[c].answer = client[c].answer, job'[client[c].op] = job[client[c].op],
         wire'[client[c].op] => wire[client[c].op]
  PROVE  Truthful(c)'
BY DEF Truthful, Unseen, Untaken

\* The sweep's operation stays one that is to be cancelled.
LEMMA StaysSweeping ==
  ASSUME IndInv, Kept, Sweeping, client'["sweep"].pc \in SweepPcs, client'["sweep"].op = client["sweep"].op,
         client'["sweep"].pc # "off" => client["sweep"].pc # "off"
  PROVE  Sweeping'
<1>1. client["sweep"].op \in Operations
  BY ClientFacts DEF IndInv, Clients
<1> QED BY <1>1 DEF Sweeping, Row, Kept, Allowed

\* A row that exists does not vanish.
LEMMA NeverAbsent ==
  ASSUME Kept, NEW o \in Operations, row[o] \in Rows, row[o].state # "absent" PROVE row'[o].state # "absent"
<1>1. row'[o].state # row[o].state => ~Terminal(row[o]) /\ row'[o].state \in AttemptStateTransitions[row[o].state]
  BY DEF Kept, Allowed
<1>2. "absent" \notin AttemptStateTransitions.running /\ "absent" \notin AttemptStateTransitions.submitted
      /\ "absent" \notin AttemptStateTransitions.unknown
  BY DEF AttemptStateTransitions, Ended
<1>3. row[o].state \in States
  BY RowFields
<1> QED BY <1>1, <1>2, <1>3 DEF States, Terminal

\* A commit of c, beside the provider as it was or a submission of a row that is open and not to be cancelled.
LEMMA DoesCovered ==
  ASSUME IndInv, Core', Kept, Covered, NEW c \in Clients, Does(c, Row(c)), client[c].pc \notin {"off", "quoting"},
         job' = job,
         \/ wire' = wire
         \/ /\ c = "task" /\ ~Row(c).cancel /\ ~Terminal(Row(c)) /\ client'[c].pc = "submitting"
            /\ wire' = [wire EXCEPT ![client[c].op] = TRUE] /\ row'[client[c].op].cost # "released"
  PROVE  Covered'
<1>1. Core /\ wire \in [Operations -> BOOLEAN]
  BY DEF IndInv, TypeOK
<1>2. PICK o \in Operations : o = client[c].op
  BY <1>1, ClientFacts
<1>3. /\ Booked(c, row[o], row'[o]) /\ GoesOnAs(c, client'[c])
      /\ \A p \in Operations : p # o => row'[p] = row[p]
      /\ \A d \in Clients : d # c => /\ client'[d].pc = client[d].pc /\ client'[d].op = client[d].op
                                     /\ client'[d].answer = client[d].answer
  BY <1>1, <1>2, DoesShows
<1>4. Live(row[o]) /\ row[o] = Row(c) /\ RowInv(row[o])
  BY <1>1, <1>2, ClientFacts
<1>5. row'[o].state # "absent" /\ row'[o] \in Rows /\ RowInv(row'[o])
  <2>1. row'[o].state # "absent"
    BY <1>4, NeverAbsent DEF Live
  <2> QED BY <2>1 DEF Core, RowsOK
<1>6. Sweeping'
  <2>1. client'["sweep"].pc \in SweepPcs /\ client'["sweep"].op = client["sweep"].op
        /\ (client'["sweep"].pc # "off" => client["sweep"].pc # "off")
    BY <1>2, <1>3 DEF Covered, Sweeping, Clients, GoesOnAs
  <2> QED BY <2>1, StaysSweeping DEF Covered
<1>7. CASE wire' = wire
  <2>1. ASSUME NEW d \in Clients PROVE Truthful(d)'
    <3>1. CASE d = c
      BY <1>2, <1>3, <1>7, <3>1 DEF GoesOnAs, Truthful, Unseen, Ended, NoAnswer
    <3>2. CASE d # c
      BY <1>3, <1>7, <3>2, StaysTruthful DEF Covered
    <3> QED BY <3>1, <3>2
  <2>2. ASSUME NEW p \in Operations, row'[p].cost = "released" PROVE Untaken(p)'
    <3>1. row[p].cost = "released" \/ Untaken(p)
      BY <1>2, <1>3, <2>2 DEF Booked, Quiet
    <3> QED BY <1>7, <3>1 DEF Covered, ClosedRight, Untaken
  <2>3. ASSUME NEW p \in Operations, row'[p].state = "absent" PROVE Unseen(p)'
    <3>1. row[p].state = "absent"
      BY <1>3, <1>5, <2>3
    <3> QED BY <1>7, <3>1 DEF Covered, ClosedRight, Unseen
  <2> QED BY <1>6, <2>1, <2>2, <2>3 DEF Covered, ClosedRight
<1>8. CASE /\ c = "task" /\ ~Row(c).cancel /\ ~Terminal(Row(c)) /\ client'[c].pc = "submitting"
           /\ wire' = [wire EXCEPT ![client[c].op] = TRUE] /\ row'[client[c].op].cost # "released"
  <2>1. \A p \in Operations : p # o => wire'[p] = wire[p]
    BY <1>1, <1>2, <1>8
  <2>2. ASSUME NEW d \in Clients PROVE Truthful(d)'
    <3>1. CASE d = c
      <4>1. client'[c].answer = NoAnswer
        BY <1>3, <1>8 DEF GoesOnAs, Awaiting
      <4> QED BY <1>8, <3>1, <4>1, WaitIsTruthful
    <3>2. CASE d # c
      <4>1. d = "sweep"
        BY <1>8, <3>2 DEF Clients
      <4>2. CASE client["sweep"].op # o
        <5>1. client["sweep"].op \in Operations
          BY <1>1, <4>1, ClientFacts
        <5> QED BY <1>3, <2>1, <3>2, <4>1, <4>2, <5>1, StaysTruthful DEF Covered
      <4>3. CASE client["sweep"].op = o
        <5>1. client["sweep"].pc = "off"
          BY <1>2, <1>8, <4>3 DEF Covered, Sweeping, Row
        <5> QED BY <1>3, <3>2, <4>1, <5>1, RestIsTruthful DEF Awaiting
      <4> QED BY <4>2, <4>3
    <3> QED BY <3>1, <3>2
  <2>3. row'[o].cost # "released"
    BY <1>2, <1>8
  <2> QED BY <1>3, <1>5, <1>6, <2>1, <2>2, <2>3 DEF Covered, ClosedRight, Untaken, Unseen
<1> QED BY <1>7, <1>8

\* The steps that are neither a preparation nor a resumption after an await.
Aside ==
  \/ \E o \in Operations : Enter(o) \/ Sweep(o)
  \/ QuoteRejected \/ Settle \/ User \/ Provider \/ Tick \/ Crash
  \/ \E c \in Clients : CrashAfterReceipt(c)

LEMMA StepKinds == Next => Aside \/ (\E q \in Quotes : Submit(q)) \/ (\E c \in Clients : ClientStep(c))
BY DEF Next, TaskStep, SweepStep, Aside, Clients

\* They leave every operation's ledger entries alone.
LEMMA AsideIsQuiet == ASSUME Core, Core', Aside PROVE \A p \in Operations : Quiet(row[p], row'[p])
<1>1. row \in [Operations -> Rows] /\ row' \in [Operations -> Rows]
  BY DEF Core, RowsOK
<1>2. row' = row => \A p \in Operations : Quiet(row[p], row'[p])
  BY DEF Quiet
<1>3. ASSUME NEW o \in Operations, Enter(o) \/ Sweep(o) PROVE row' = row
  BY <1>3 DEF Enter, Sweep, durable
<1>4. QuoteRejected \/ Settle \/ Crash => row' = row
  BY DEF QuoteRejected, Settle, Crash, durable
<1>5. Provider => row' = row
  BY DEF Provider, Arrives, Refuses, LosesSubmission, Ends, RepliesTruly, RepliesVaguely, Replies, durable
<1>6. ASSUME NEW S, RequestCancellation(S) PROVE \A p \in Operations : Quiet(row[p], row'[p])
  <2>1. ASSUME NEW p \in Operations, row'[p] = [CancelRequested(row[p]) EXCEPT !.moves = 0]
        PROVE  Quiet(row[p], row'[p])
    <3>1. Quiet(row[p], CancelRequested(row[p]))
      BY <1>1, QuietRows
    <3>2. Quiet(CancelRequested(row[p]), row'[p])
      BY <1>1, <2>1, CommittedFields DEF Quiet
    <3> QED BY <3>1, <3>2 DEF Quiet
  <2>2. ASSUME NEW p \in Operations PROVE row'[p] = row[p] \/ row'[p] = [CancelRequested(row[p]) EXCEPT !.moves = 0]
    BY <1>6 DEF RequestCancellation
  <2> QED BY <2>1, <2>2 DEF Quiet
<1>7. CASE User
  <2>1. (\E o \in Operations : Call(o)) \/ EditProject => row' = row
    BY DEF Call, EditProject
  <2> QED BY <1>2, <1>6, <1>7, <2>1 DEF User, CancelOperation, CancelRun
<1>8. CASE Tick
  BY <1>1, <1>8, QuietRows DEF Tick
<1>9. ASSUME NEW c \in Clients, CrashAfterReceipt(c) PROVE \A p \in Operations : Quiet(row[p], row'[p])
  <2>1. PICK o \in Operations : o = client[c].op
    BY ClientFacts
  <2>2. client[c].reconciles \in BOOLEAN
    BY ClientFacts, ClientFields
  <2>3. PICK s : s = Recorded(row[o], client[c].reconciles)
    OBVIOUS
  <2>4. row'[o] = [s EXCEPT !.moves = 0] /\ \A p \in Operations : p # o => row'[p] = row[p]
    BY <1>1, <1>9, <2>1, <2>3 DEF CrashAfterReceipt
  <2>5. Quiet(row[o], s)
    BY <1>1, <2>2, <2>3, QuietRows
  <2>6. Quiet(s, row'[o])
    BY <1>1, <2>4, CommittedFields DEF Quiet
  <2> QED BY <2>4, <2>5, <2>6 DEF Quiet
<1> QED BY <1>2, <1>3, <1>4, <1>5, <1>7, <1>8, <1>9 DEF Aside

\* What nobody has taken on, or seen, stays so unless it is submitted.
Believes == \A p \in Operations : (Untaken(p) => Untaken(p)') /\ (Unseen(p) => Unseen(p)')

LEMMA AsideBelieves == ASSUME IndInv, Aside PROVE Believes
<1>1. job \in [Operations -> Jobs] /\ wire \in [Operations -> BOOLEAN]
  BY DEF IndInv, TypeOK
<1>2. job' = job /\ wire' = wire => Believes
  BY DEF Believes, Untaken, Unseen
<1>3. ASSUME NEW o \in Operations, Enter(o) \/ Sweep(o) PROVE job' = job /\ wire' = wire
  BY <1>3 DEF Enter, Sweep
<1>4. QuoteRejected \/ Settle \/ Crash \/ User \/ Tick => job' = job /\ wire' = wire
  BY DEF QuoteRejected, Settle, Crash, User, Tick, Call, CancelOperation, CancelRun, EditProject, World
<1>5. ASSUME NEW c \in Clients, CrashAfterReceipt(c) PROVE job' = job /\ wire' = wire
  BY <1>5 DEF CrashAfterReceipt
<1>6. CASE Provider
  <2>1. ASSUME NEW o \in Operations, Arrives(o) \/ Refuses(o) \/ LosesSubmission(o) \/ Ends(o) PROVE Believes
    <3>1. "late" \notin Events => ~Untaken(o) /\ ~Unseen(o)
      BY <2>1 DEF Arrives, Refuses, LosesSubmission, Ends, Untaken, Unseen
    <3>2. \A p \in Operations : p # o => job'[p] = job[p] /\ wire'[p] = wire[p]
      BY <1>1, <2>1 DEF Arrives, Refuses, LosesSubmission, Ends
    <3> QED BY <3>1, <3>2 DEF Believes, Untaken, Unseen
  <2>2. ASSUME NEW c \in Clients, RepliesTruly(c) \/ RepliesVaguely(c) PROVE job' = job /\ wire' = wire
    BY <2>2 DEF RepliesTruly, RepliesVaguely, Replies
  <2> QED BY <1>2, <1>6, <2>1, <2>2 DEF Provider
<1> QED BY <1>2, <1>3, <1>4, <1>5, <1>6 DEF Aside

\* What the other client does not touch.
SameTask(c) == client'[c].pc = client[c].pc /\ client'[c].op = client[c].op /\ client'[c].answer = client[c].answer

LEMMA BelieverStaysTruthful ==
  ASSUME Core, Believes, NEW c \in Clients, Truthful(c), SameTask(c) PROVE Truthful(c)'
<1>1. client[c].op \in Operations
  BY ClientFacts
<1> QED BY <1>1 DEF Believes, Truthful, SameTask, Awaiting

\* The provider's answers are true as long as they are held.
LEMMA AnswersTrue ==
  ASSUME IndInv, NEW c \in Clients, RepliesTruly(c) \/ RepliesVaguely(c)
  PROVE  Truthful(c)' /\ \A d \in Clients : d # c => SameTask(d)
<1>1. PICK a \in Truth(c) \cup Vague(c) : client' = [client EXCEPT ![c].answer = a]
  BY DEF RepliesTruly, RepliesVaguely, Replies
<1>2. client \in [Clients -> ClientStates] /\ client[c].pc \in Awaiting /\ job' = job /\ wire' = wire
  BY DEF RepliesTruly, RepliesVaguely, Replies, IndInv, TypeOK
<1>3. client'[c].answer = a /\ client'[c].pc = client[c].pc /\ client'[c].op = client[c].op
  BY <1>1, <1>2 DEF ClientStates
<1>4. \A d \in Clients : d # c => SameTask(d)
  BY <1>1, <1>2 DEF SameTask
<1> DEFINE j == job[client[c].op].state
           w == wire[client[c].op]
<1>5. CASE a \in Vague(c)
  <2>1. a.state \in {"lost", "unknown"}
    BY <1>5 DEF Vague
  <2> QED BY <1>2, <1>3, <1>4, <2>1 DEF Truthful, Awaiting, Ended
<1>6. CASE a \in Truth(c)
  <2>1. CASE a.receipt
    <3>1. a.state \notin {"not_submitted"}
      BY <1>6, <2>1, AnswersOK DEF AnswerOK, Ended
    <3> QED BY <1>2, <1>3, <1>4, <2>1, <3>1 DEF Truthful, Awaiting
  <2>2. CASE ~a.receipt
    <3>1. \/ a.state = "failed" /\ j = "refused" /\ ~w
          \/ a.state = "not_submitted" /\ j = "none" /\ ("late" \notin Events => ~w)
      <4> HIDE DEF j, w
      <4>1. Truth(c) = CASE j \in Ended -> {[state |-> j, receipt |-> TRUE]}
                         [] j = "accepted" -> {[state |-> "submitted", receipt |-> TRUE]}
                         [] j = "refused" /\ ~w -> {[state |-> "failed", receipt |-> FALSE]}
                         [] j = "none" /\ ("late" \in Events \/ ~w) -> {[state |-> "not_submitted", receipt |-> FALSE]}
                         [] OTHER -> {}
        BY DEF Truth, j, w
      <4>2. CASE j \in Ended
        <5>1. j \notin {"accepted", "refused", "none"}
          BY <4>2 DEF Ended
        <5>2. Truth(c) = {[state |-> j, receipt |-> TRUE]}
          BY <4>1, <4>2, <5>1
        <5> QED BY <1>6, <2>2, <5>2
      <4>3. CASE j \notin Ended
        BY <1>6, <2>2, <4>1, <4>3
      <4> QED BY <4>2, <4>3
    <3> QED BY <1>2, <1>3, <1>4, <3>1 DEF Truthful, Awaiting, Ended, Unseen, Untaken
  <2> QED BY <2>1, <2>2
<1> QED BY <1>5, <1>6

\* Beside what AnswersTrue covers, a client keeps to its task, or starts a new one, or stops.
LEMMA AsideClients ==
  ASSUME IndInv, Aside, ~\E c \in Clients : RepliesTruly(c) \/ RepliesVaguely(c), NEW c \in Clients
  PROVE  SameTask(c) \/ client'[c].pc \notin Awaiting \cup {"verifying"}
<1>1. client \in [Clients -> ClientStates] /\ "task" \in Clients /\ "sweep" \in Clients /\ Core
  BY DEF IndInv, TypeOK, Clients
<1>2. client' = client => SameTask(c)
  BY DEF SameTask
<1>3. \A d \in Clients : Off(d).pc = "off"
  BY <1>1, OffFits
<1>4. ASSUME NEW o \in Operations, Enter(o) PROVE SameTask(c) \/ client'[c].pc \notin Awaiting \cup {"verifying"}
  <2>1. PICK pc \in {"quoting", "settling", "reconcile"}, b \in BOOLEAN :
          client' = [client EXCEPT !["task"] =
            [op |-> o, behind |-> 0, cancelled |-> FALSE, answer |-> NoAnswer, reconciles |-> b, pc |-> pc]]
    <3> DEFINE start == CASE row[o].state = "absent" -> "quoting"
                          [] Terminal(row[o]) -> "settling"
                          [] OTHER -> "reconcile"
               b == row[o].state # "absent"
    <3>1. start \in {"quoting", "settling", "reconcile"} /\ b \in BOOLEAN
      OBVIOUS
    <3>2. client' = [client EXCEPT !["task"] =
            [op |-> o, behind |-> 0, cancelled |-> FALSE, answer |-> NoAnswer, reconciles |-> b, pc |-> start]]
      BY <1>4 DEF Enter
    <3> HIDE DEF start, b
    <3> QED BY <3>1, <3>2
  <2>2. client'["task"].pc = pc /\ \A d \in Clients : d # "task" => client'[d] = client[d]
    BY <1>1, <2>1
  <2> QED BY <2>1, <2>2 DEF SameTask, Awaiting
<1>5. ASSUME NEW o \in Operations, Sweep(o) PROVE SameTask(c) \/ client'[c].pc \notin Awaiting \cup {"verifying"}
  <2>1. client'["sweep"].pc = "reconcile" /\ \A d \in Clients : d # "sweep" => client'[d] = client[d]
    BY <1>1, <1>5 DEF Sweep
  <2> QED BY <2>1 DEF SameTask, Awaiting
<1>6. CASE QuoteRejected \/ Settle
  <2>1. client'["task"] = Off("task") /\ \A d \in Clients : d # "task" => client'[d] = client[d]
    BY <1>1, <1>6 DEF QuoteRejected, Settle
  <2> QED BY <1>1, <1>3, <2>1 DEF SameTask, Awaiting
<1>7. Crash \/ (\E d \in Clients : CrashAfterReceipt(d)) => client'[c].pc \notin Awaiting \cup {"verifying"}
  BY <1>3 DEF Crash, CrashAfterReceipt, Awaiting
<1>8. Provider => client' = client
  BY DEF Provider, Arrives, Refuses, LosesSubmission, Ends
<1>9. ASSUME NEW S, RequestCancellation(S) PROVE SameTask(c)
  <2>1. PICK n : client'[c] = [client[c] EXCEPT !.behind = n]
    BY <1>9 DEF RequestCancellation
  <2> QED BY <1>1, <2>1 DEF SameTask, ClientStates
<1>10. User => SameTask(c)
  BY <1>2, <1>9 DEF User, Call, CancelOperation, CancelRun, EditProject
<1>11. Tick => client' = client
  BY DEF Tick
<1> QED BY <1>2, <1>4, <1>5, <1>6, <1>7, <1>8, <1>10, <1>11 DEF Aside

LEMMA AsideSweeps == ASSUME IndInv, Kept, Sweeping, Aside PROVE Sweeping'
<1>1. client \in [Clients -> ClientStates] /\ row \in [Operations -> Rows] /\ "sweep" \in Clients /\ Core
  BY DEF IndInv, TypeOK, Clients
<1>2. SameTask("sweep") => Sweeping'
  BY StaysSweeping DEF Sweeping, SameTask
<1>3. client'["sweep"].pc = "off" => Sweeping'
  BY DEF Sweeping, SweepPcs
<1>4. client'["sweep"] = client["sweep"] => SameTask("sweep")
  BY DEF SameTask
<1>5. ASSUME NEW o \in Operations, Enter(o) PROVE client'["sweep"] = client["sweep"]
  BY <1>1, <1>5 DEF Enter
<1>6. ASSUME NEW o \in Operations, Sweep(o) PROVE Sweeping'
  <2>1. client'["sweep"].pc = "reconcile" /\ client'["sweep"].op = o /\ row' = row /\ row[o].cancel
    BY <1>1, <1>6 DEF Sweep, durable
  <2> QED BY <2>1 DEF Sweeping, SweepPcs, Row
<1>7. CASE QuoteRejected \/ Settle
  BY <1>1, <1>2, <1>4, <1>7 DEF QuoteRejected, Settle
<1>8. CASE Crash \/ (\E d \in Clients : CrashAfterReceipt(d))
  <2>1. client'["sweep"] = Off("sweep")
    BY <1>1, <1>8 DEF Crash, CrashAfterReceipt
  <2> QED BY <1>1, <1>3, <2>1, OffFits
<1>9. ASSUME NEW c \in Clients, RepliesTruly(c) \/ RepliesVaguely(c) PROVE SameTask("sweep") \/
                                     (client'["sweep"].pc = client["sweep"].pc /\ client'["sweep"].op = client["sweep"].op)
  <2>1. PICK a : client' = [client EXCEPT ![c].answer = a]
    BY <1>9 DEF RepliesTruly, RepliesVaguely, Replies
  <2> QED BY <1>1, <2>1 DEF ClientStates
<1>10. CASE \E c \in Clients : RepliesTruly(c) \/ RepliesVaguely(c)
  <2>1. client'["sweep"].pc = client["sweep"].pc /\ client'["sweep"].op = client["sweep"].op
    BY <1>9, <1>10 DEF SameTask
  <2> QED BY <2>1, StaysSweeping DEF Sweeping
<1>11. (\E o \in Operations : Arrives(o) \/ Refuses(o) \/ LosesSubmission(o) \/ Ends(o)) => client' = client
  BY DEF Arrives, Refuses, LosesSubmission, Ends
<1>12. ASSUME NEW S, RequestCancellation(S) PROVE SameTask("sweep")
  <2>1. PICK n : client'["sweep"] = [client["sweep"] EXCEPT !.behind = n]
    BY <1>1, <1>12 DEF RequestCancellation
  <2> QED BY <1>1, <2>1 DEF SameTask, ClientStates
<1>13. User => SameTask("sweep")
  BY <1>4, <1>12 DEF User, Call, CancelOperation, CancelRun, EditProject
<1>14. Tick => client' = client
  BY DEF Tick
<1> QED BY <1>2, <1>4, <1>5, <1>6, <1>7, <1>8, <1>10, <1>11, <1>13, <1>14 DEF Aside, Provider

LEMMA AsideCovered == ASSUME IndInv, Core', Kept, Covered, Aside PROVE Covered'
<1>1. Core /\ Believes /\ \A p \in Operations : Quiet(row[p], row'[p])
  BY AsideBelieves, AsideIsQuiet DEF IndInv
<1>2. Sweeping'
  BY AsideSweeps DEF Covered
<1>3. ASSUME NEW c \in Clients PROVE Truthful(c)'
  <2>1. Truthful(c)
    BY DEF Covered
  <2>2. CASE \E d \in Clients : RepliesTruly(d) \/ RepliesVaguely(d)
    <3>1. PICK d \in Clients : RepliesTruly(d) \/ RepliesVaguely(d)
      BY <2>2
    <3> QED BY <1>1, <2>1, <3>1, AnswersTrue, BelieverStaysTruthful
  <2>3. CASE ~\E d \in Clients : RepliesTruly(d) \/ RepliesVaguely(d)
    BY <1>1, <2>1, <2>3, AsideClients, BelieverStaysTruthful, RestIsTruthful
  <2> QED BY <2>2, <2>3
<1>4. ClosedRight'
  <2>1. ASSUME NEW o \in Operations, row'[o].cost = "released" PROVE Untaken(o)'
    BY <1>1, <2>1 DEF Quiet, Covered, ClosedRight, Believes
  <2>2. ASSUME NEW o \in Operations, row'[o].state = "absent" PROVE Unseen(o)'
    <3>1. row[o].state = "absent"
      BY <2>2, NeverAbsent DEF IndInv, TypeOK
    <3> QED BY <1>1, <3>1 DEF Covered, ClosedRight, Believes
  <2> QED BY <2>1, <2>2 DEF ClosedRight
<1> QED BY <1>2, <1>3, <1>4 DEF Covered

LEMMA ClientStepCovered ==
  ASSUME IndInv, Core', Kept, Covered, NEW c \in Clients, ClientStep(c) PROVE Covered'
<1>1. Core /\ job \in [Operations -> Jobs] /\ wire \in [Operations -> BOOLEAN]
  BY DEF IndInv, TypeOK
<1>2. Does(c, Row(c)) /\ client[c].pc \notin {"off", "quoting"}
  BY <1>1, ClientStepDoes
<1>3. CASE wire' = wire /\ job' = job
  BY <1>2, <1>3, DoesCovered
<1>4. CASE Resubmit(c) /\ client[c].behind = 0
  <2>1. client[c].pc = "verifying" /\ job' = job /\ wire' = [wire EXCEPT ![client[c].op] = TRUE]
        /\ Store(c, Claimed(Row(c)), Fresh(c, "submitting"))
    BY <1>4 DEF Resubmit
  <2>2. c = "task"
    BY <2>1 DEF Covered, Sweeping, SweepPcs, Clients
  <2>3. ~Row(c).cancel /\ ~Terminal(Row(c))
    BY <1>1, <1>4, <2>1 DEF Core, Verified
  <2>4. client[c].op \in Operations /\ Live(Row(c)) /\ Row(c) = row[client[c].op] /\ client[c] \in ClientStates
    BY <1>1, <1>2, ClientFacts
  <2>5. client'[c].pc = "submitting"
    <3>1. client'[c] = Fresh(c, "submitting")
      BY <2>1 DEF Store
    <3> QED BY <2>4, <3>1, FreshFits DEF Pcs
  <2>6. row'[client[c].op].cost # "released"
    <3>1. Row(c).cost = "reserved"
      BY <2>3, <2>4 DEF Live, RowInv, Entitled, Terminal
    <3>2. PICK s : s = Claimed(Row(c))
      OBVIOUS
    <3>3. s.cost = Row(c).cost
      BY <2>4, <3>2, QuietRows DEF Live, Quiet
    <3>4. row'[client[c].op] = [s EXCEPT !.moves = 0]
      BY <1>1, <2>1, <2>4, <3>2 DEF Store, Core, RowsOK
    <3>5. row'[client[c].op] \in Rows
      BY <2>4 DEF Core, RowsOK
    <3> QED BY <3>1, <3>3, <3>4, <3>5, CommittedFields
  <2> QED BY <1>2, <2>1, <2>2, <2>3, <2>5, <2>6, DoesCovered
<1>5. (wire' = wire /\ job' = job) \/ (Resubmit(c) /\ client[c].behind = 0)
  <2>1. client[c].behind \in 0..2
    BY <1>1, ClientFacts DEF ClientStates
  <2>2. Resubmit(c) => job' = job /\ (wire' = wire \/ client[c].behind = 0)
    BY <2>1 DEF Resubmit
  <2>3. ~Resubmit(c) => UNCHANGED World
    BY DEF ClientStep, Reconcile, Submitted, CancelAnswered, Reconciled, VerifyFails, Publish
  <2> QED BY <2>2, <2>3 DEF World
<1> QED BY <1>3, <1>4, <1>5

\* The first submission is of an operation nobody asked to cancel, for there was none.
LEMMA SubmitCovered ==
  ASSUME IndInv, Core', Kept, Covered, NEW q \in Quotes, Submit(q) PROVE Covered'
<1>1. Core /\ wire \in [Operations -> BOOLEAN] /\ row \in [Operations -> Rows] /\ "task" \in Clients /\ "sweep" \in Clients
  BY DEF IndInv, TypeOK, Clients
<1>2. PICK o \in Operations : o = client["task"].op
  BY <1>1, ClientFacts
<1>3. client["task"].pc = "quoting" /\ job' = job /\ wire' = [wire EXCEPT ![o] = TRUE]
      /\ Store("task", Prepared(q), Fresh("task", "submitting"))
  BY <1>2 DEF Submit
<1>4. row[o].state = "absent" /\ ~row[o].cancel
  BY <1>1, <1>2, <1>3, ClientFacts DEF Core, Bound, RowInv
<1>5. row'[o].cost = "reserved"
  <2>1. row'[o] = [Prepared(q) EXCEPT !.moves = 0]
    BY <1>1, <1>2, <1>3 DEF Store
  <2>2. Prepared(q).cost = "reserved"
    BY DEF Prepared, Absent
  <2>3. row'[o] \in Rows
    BY DEF Core, RowsOK
  <2> QED BY <2>1, <2>2, <2>3, CommittedFields
<1>6. row'[o].state # "absent"
  BY <1>5 DEF Core, RowsOK, RowInv, Entitled
<1>7. \A p \in Operations : p # o => row'[p] = row[p] /\ wire'[p] = wire[p]
  BY <1>1, <1>2, <1>3 DEF Store
<1>8. SameTask("sweep")
  <2>1. PICK n : client'["sweep"] = [client["sweep"] EXCEPT !.behind = n]
    BY <1>1, <1>3 DEF Store
  <2> QED BY <1>1, <2>1, ClientFacts DEF SameTask, ClientStates
<1>9. Sweeping'
  BY <1>8, StaysSweeping DEF Covered, Sweeping, SameTask
<1>10. Truthful("task")'
  <2>1. client'["task"] = Fresh("task", "submitting")
    BY <1>1, <1>3 DEF Store
  <2>2. client'["task"].answer = NoAnswer /\ client'["task"].pc = "submitting"
    BY <1>1, <2>1, ClientFacts, FreshFits DEF Pcs
  <2> QED BY <2>2, WaitIsTruthful
<1>11. Truthful("sweep")'
  <2>1. CASE client["sweep"].op = o
    <3>1. client["sweep"].pc = "off"
      BY <1>4, <2>1 DEF Covered, Sweeping, Row
    <3> QED BY <1>8, <3>1, RestIsTruthful DEF SameTask, Awaiting
  <2>2. CASE client["sweep"].op # o
    <3>1. client["sweep"].op \in Operations
      BY <1>1, ClientFacts
    <3> QED BY <1>1, <1>3, <1>7, <1>8, <2>2, <3>1, StaysTruthful DEF SameTask, Covered
  <2> QED BY <2>1, <2>2
<1>12. ClosedRight'
  BY <1>3, <1>5, <1>6, <1>7 DEF Covered, ClosedRight, Untaken, Unseen
<1> QED BY <1>9, <1>10, <1>11, <1>12 DEF Covered, Clients

LEMMA CoveredStep == IndInv /\ IndInv' /\ Covered /\ [Next]_vars => Covered'
<1> SUFFICES ASSUME IndInv, IndInv', Covered, [Next]_vars PROVE Covered'
  OBVIOUS
<1>1. CASE Next
  <2>1. Kept /\ Core'
    BY <1>1, CoreStep
  <2> QED BY <1>1, <2>1, StepKinds, AsideCovered, SubmitCovered, ClientStepCovered
<1>2. CASE UNCHANGED vars
  BY <1>2 DEF vars, durable, Covered, Sweeping, Truthful, ClosedRight, Untaken, Unseen, Row
<1> QED BY <1>1, <1>2

LEMMA CoveredInit == Init => Covered
<1> SUFFICES ASSUME Init PROVE Covered
  OBVIOUS
<1>1. \A c \in Clients : client[c].pc = "off"
  BY DEF Init
<1>2. Sweeping /\ \A c \in Clients : Truthful(c)
  BY <1>1 DEF Sweeping, SweepPcs, Truthful, Awaiting, Clients
<1>3. ClosedRight
  BY DEF Init, ClosedRight, Untaken, Unseen, Absent
<1> QED BY <1>2, <1>3 DEF Covered

LEMMA CoveredInvariant == Spec => []Covered
<1>1. IndInv /\ IndInv' /\ Covered /\ [Next]_vars => Covered'
  BY CoveredStep
<1> QED BY <1>1, Invariance, CoveredInit, PTL DEF Spec

\* Where a provider does not say not_submitted while the submission is still on its way (`late`), whatever it took
\* on is paid for or still reserved: no lost or vague answer, crash, cancellation or second client gives the cost
\* back.
THEOREM SpendCovered == ASSUME "late" \notin Events PROVE Spec => []SpendIsCovered
<1>1. IndInv /\ Covered => SpendIsCovered
  <2> SUFFICES ASSUME IndInv, Covered, NEW o \in Operations, job[o].state \notin {"none", "refused"}
               PROVE  row[o].cost \in {"reserved", "settled"}
    BY DEF SpendIsCovered
  <2>1. row[o] \in Rows /\ Entitled(row[o])
    BY DEF IndInv, Core, RowsOK, RowInv
  <2>2. row[o].cost # "released" /\ row[o].state # "absent"
    BY DEF Covered, ClosedRight, Untaken, Unseen
  <2> QED BY <2>1, <2>2, RowFields DEF Entitled, Terminal
<1> QED BY <1>1, Invariance, CoveredInvariant, PTL

-----------------------------------------------------------------------------
(* Sums over a finite set: MapThenSumSet takes its members one by one         *)

LEMMA LeastNatural ==
  ASSUME NEW N, N # {}, N \subseteq Nat
  PROVE  \E n \in N : \A m \in N : ~(m < n)
<1>1. IsWellFoundedOn(OpToRel(<, Nat), Nat)
  BY NatLessThanWellFounded
<1>2. \E n \in N : \A m \in N : ~(<<m, n>> \in OpToRel(<, Nat))
  BY <1>1, WFMin
<1> QED BY <1>2 DEF OpToRel

\* Of some subsets of a finite set one is smallest: with one member less it is none of them.
LEMMA SmallestSubset ==
  ASSUME NEW S, IsFiniteSet(S), NEW B \in SUBSET (SUBSET S), B # {}
  PROVE  \E s \in B : \A x \in s : s \ {x} \notin B
<1> DEFINE Sizes == {n \in Nat : \E s \in B : Cardinality(s) = n}
<1>1. \A s \in B : IsFiniteSet(s) /\ Cardinality(s) \in Nat
  BY FS_Subset, FS_CardinalityType
<1>2. PICK n \in Sizes : \A m \in Sizes : ~(m < n)
  <2>1. Sizes # {} /\ Sizes \subseteq Nat
    BY <1>1
  <2> HIDE DEF Sizes
  <2> QED BY <2>1, LeastNatural
<1>3. PICK s \in B : Cardinality(s) = n
  OBVIOUS
<1>4. ASSUME NEW x \in s, s \ {x} \in B PROVE FALSE
  <2>1. Cardinality(s \ {x}) = Cardinality(s) - 1
    BY <1>1, <1>4, FS_RemoveElement
  <2>2. Cardinality(s \ {x}) \in Sizes
    BY <1>1, <1>4
  <2> HIDE DEF Sizes
  <2> QED BY <1>1, <1>2, <1>3, <1>4, <2>1, <2>2
<1> QED BY <1>4

Taken(s) == CHOOSE x \in s : TRUE
Summed(g, F, s) == F[s] = IF s = {} THEN 0 ELSE g[Taken(s)] + F[s \ {Taken(s)}]
IsSum(g, S, F) == F \in [SUBSET S -> Nat] /\ \A s \in SUBSET S : Summed(g, F, s)

LEMMA SumExists == ASSUME NEW S, IsFiniteSet(S), NEW g \in [S -> Nat] PROVE \E F : IsSum(g, S, F)
<1> DEFINE Upto(n) == \E F \in [SUBSET S -> Nat] : \A s \in SUBSET S : Cardinality(s) <= n => Summed(g, F, s)
           Bad == {n \in Nat : ~Upto(n)}
<1>1. \A s \in SUBSET S : IsFiniteSet(s) /\ Cardinality(s) \in Nat
  BY FS_Subset, FS_CardinalityType
<1>2. Upto(0)
  <2> DEFINE F == [s \in SUBSET S |-> 0]
  <2>1. F \in [SUBSET S -> Nat]
    OBVIOUS
  <2>2. ASSUME NEW s \in SUBSET S, Cardinality(s) <= 0 PROVE Summed(g, F, s)
    <3>1. s = {}
      BY <1>1, <2>2, FS_EmptySet
    <3> QED BY <3>1 DEF Summed
  <2> QED BY <2>1, <2>2
<1>3. ASSUME NEW n \in Nat, Upto(n) PROVE Upto(n + 1)
  <2>1. PICK F \in [SUBSET S -> Nat] : \A s \in SUBSET S : Cardinality(s) <= n => Summed(g, F, s)
    BY <1>3
  <2> DEFINE G == [s \in SUBSET S |-> IF s = {} THEN 0 ELSE g[Taken(s)] + F[s \ {Taken(s)}]]
  <2>2. ASSUME NEW s \in SUBSET S, s # {}
        PROVE  Taken(s) \in s /\ Taken(s) \in S /\ s \ {Taken(s)} \in SUBSET S
               /\ Cardinality(s \ {Taken(s)}) = Cardinality(s) - 1
    <3>1. Taken(s) \in s
      BY <2>2 DEF Taken
    <3> QED BY <1>1, <3>1, FS_RemoveElement
  <2>3. G \in [SUBSET S -> Nat]
    <3>1. ASSUME NEW s \in SUBSET S PROVE (IF s = {} THEN 0 ELSE g[Taken(s)] + F[s \ {Taken(s)}]) \in Nat
      <4>1. CASE s = {}
        BY <4>1
      <4>2. CASE s # {}
        <5>1. g[Taken(s)] \in Nat /\ F[s \ {Taken(s)}] \in Nat
          BY <2>2, <4>2
        <5> QED BY <4>2, <5>1
      <4> QED BY <4>1, <4>2
    <3> QED BY <3>1
  <2>4. ASSUME NEW s \in SUBSET S, Cardinality(s) <= n PROVE G[s] = F[s]
    BY <2>1, <2>4 DEF Summed
  <2>5. ASSUME NEW s \in SUBSET S, Cardinality(s) <= n + 1 PROVE Summed(g, G, s)
    <3>1. CASE s = {}
      BY <3>1 DEF Summed
    <3>2. CASE s # {}
      <4>1. s \ {Taken(s)} \in SUBSET S /\ Cardinality(s \ {Taken(s)}) <= n
        BY <1>1, <2>2, <2>5, <3>2
      <4>2. G[s \ {Taken(s)}] = F[s \ {Taken(s)}]
        BY <2>4, <4>1
      <4>3. G[s] = g[Taken(s)] + F[s \ {Taken(s)}]
        BY <3>2
      <4> HIDE DEF G
      <4> QED BY <3>2, <4>2, <4>3 DEF Summed
    <3> QED BY <3>1, <3>2
  <2> HIDE DEF G
  <2> QED BY <2>3, <2>5
<1>4. ASSUME Bad # {} PROVE FALSE
  <2>1. Bad \subseteq Nat
    OBVIOUS
  <2>2. PICK n \in Bad : \A m \in Bad : ~(m < n)
    <3> HIDE DEF Bad
    <3> QED BY <1>4, <2>1, LeastNatural
  <2>3. n \in Nat /\ ~Upto(n)
    OBVIOUS
  <2> HIDE DEF Upto
  <2>4. n # 0 /\ n - 1 \in Nat
    BY <1>2, <2>3
  <2>5. Upto(n - 1)
    BY <2>2, <2>4
  <2> QED BY <1>3, <2>3, <2>4, <2>5
<1>5. Upto(Cardinality(S))
  <2> HIDE DEF Upto
  <2> QED BY <1>1, <1>4
<1>6. PICK F \in [SUBSET S -> Nat] : \A s \in SUBSET S : Cardinality(s) <= Cardinality(S) => Summed(g, F, s)
  BY <1>5
<1> QED BY <1>6, FS_Subset DEF IsSum

Apart(g, h, S, o, d) == \A p \in S : h[p] = IF p = o THEN g[p] + d ELSE g[p]

\* Sums of two functions that differ in one place, if at all, differ by as much.
LEMMA SumsDiffer ==
  ASSUME NEW S, IsFiniteSet(S), NEW g \in [S -> Nat], NEW h \in [S -> Nat], NEW F, NEW G, IsSum(g, S, F), IsSum(h, S, G),
         NEW o, NEW d \in Int, Apart(g, h, S, o, d)
  PROVE  G[S] = IF o \in S THEN F[S] + d ELSE F[S]
<1> DEFINE Right(s) == G[s] = IF o \in s THEN F[s] + d ELSE F[s]
           Bad == {s \in SUBSET S : ~Right(s)}
<1>1. ASSUME NEW s \in SUBSET S, \A x \in s : Right(s \ {x}) PROVE Right(s)
  <2>1. CASE s = {}
    BY <2>1 DEF IsSum, Summed
  <2>2. CASE s # {}
    <3>1. PICK x \in s : x = Taken(s)
      BY <2>2 DEF Taken
    <3>2. G[s] = h[x] + G[s \ {x}] /\ F[s] = g[x] + F[s \ {x}]
      BY <2>2, <3>1 DEF IsSum, Summed
    <3>3. g[x] \in Nat /\ h[x] \in Nat /\ F[s \ {x}] \in Nat /\ G[s \ {x}] \in Nat
      BY DEF IsSum
    <3>4. Right(s \ {x}) /\ h[x] = IF x = o THEN g[x] + d ELSE g[x]
      BY <1>1 DEF Apart
    <3> QED BY <3>2, <3>3, <3>4
  <2> QED BY <2>1, <2>2
<1>2. ASSUME Bad # {} PROVE FALSE
  <2>1. Bad \in SUBSET (SUBSET S)
    OBVIOUS
  <2>2. PICK s \in Bad : \A x \in s : s \ {x} \notin Bad
    <3> HIDE DEF Bad
    <3> QED BY <1>2, <2>1, SmallestSubset
  <2>3. s \in SUBSET S /\ ~Right(s) /\ \A x \in s : Right(s \ {x})
    <3> HIDE DEF Right
    <3>1. \A x \in s : s \ {x} \in SUBSET S
      OBVIOUS
    <3> QED BY <2>2, <3>1
  <2> HIDE DEF Right
  <2> QED BY <1>1, <2>3
<1> QED BY <1>2

\* A function that sums is what sums.
LEMMA SumIsOne ==
  ASSUME NEW S, IsFiniteSet(S), NEW g \in [S -> Nat], NEW F, IsSum(g, S, F), NEW G, \A s \in SUBSET S : Summed(g, G, s)
  PROVE  G[S] = F[S]
<1> DEFINE Bad == {s \in SUBSET S : G[s] # F[s]}
<1>1. ASSUME Bad # {} PROVE FALSE
  <2>1. Bad \in SUBSET (SUBSET S)
    OBVIOUS
  <2>2. PICK s \in Bad : \A x \in s : s \ {x} \notin Bad
    <3> HIDE DEF Bad
    <3> QED BY <1>1, <2>1, SmallestSubset
  <2>3. s # {}
    BY DEF IsSum, Summed
  <2>4. Taken(s) \in s
    BY <2>3 DEF Taken
  <2>5. G[s \ {Taken(s)}] = F[s \ {Taken(s)}]
    BY <2>2, <2>4
  <2> QED BY <2>3, <2>5 DEF IsSum, Summed
<1> QED BY <1>1

-----------------------------------------------------------------------------
(* The hard budget: the ledger implements SpendAccount *)

RowsTyped == row \in [Operations -> Rows]
Amounts == [o \in Operations |-> Held(row[o])]
Balanced == \E F : IsSum(Amounts, Operations, F) /\ Exposure = F[Operations]

LEMMA HeldIsAmount ==
  ASSUME NEW r \in Rows
  PROVE  /\ Held(r) \in Nat
         /\ r.cost \in {"none", "released"} => Held(r) = 0
         /\ r.cost = "settled" => Held(r) = r.charge
         /\ r.cost = "reserved" /\ Priced(r) => Held(r) = r.quote
BY AmountAssumption DEF Held, Priced, Rows

\* loadRunBudgetExposure adds up what the operations hold and were charged.
LEMMA ExposureSums == RowsTyped => Balanced
<1> SUFFICES ASSUME row \in [Operations -> Rows] PROVE Balanced
  BY DEF RowsTyped
<1>1. Amounts \in [Operations -> Nat]
  BY HeldIsAmount DEF Amounts
<1>2. PICK F : IsSum(Amounts, Operations, F)
  BY <1>1, OperationAssumption, SumExists
<1> DEFINE Step(f) == [s \in SUBSET Operations |->
             IF s = {} THEN 0 ELSE Held(row[CHOOSE x \in s : TRUE]) + f[s \ {CHOOSE x \in s : TRUE}]]
           iter == CHOOSE f : f = Step(f)
<1>3. Exposure = iter[Operations]
  BY DEF Exposure, MapThenSumSet, MapThenFoldSet
<1>4. ASSUME NEW s \in SUBSET Operations, s # {} PROVE Taken(s) \in Operations /\ Amounts[Taken(s)] = Held(row[Taken(s)])
  <2>1. Taken(s) \in s
    BY <1>4 DEF Taken
  <2> QED BY <2>1 DEF Amounts
<1>5. F = Step(F)
  <2>1. ASSUME NEW s \in SUBSET Operations PROVE F[s] = Step(F)[s]
    BY <1>2, <1>4 DEF IsSum, Summed, Taken
  <2>2. F \in [SUBSET Operations -> Nat]
    BY <1>2 DEF IsSum
  <2> QED BY <2>1, <2>2
<1>6. iter = Step(iter)
  <2> HIDE DEF Step
  <2> QED BY <1>5
<1>7. ASSUME NEW s \in SUBSET Operations PROVE Summed(Amounts, iter, s)
  <2>1. iter[s] = Step(iter)[s]
    BY <1>6
  <2> HIDE DEF iter
  <2>2. iter[s] = IF s = {} THEN 0 ELSE Held(row[Taken(s)]) + iter[s \ {Taken(s)}]
    BY <2>1 DEF Taken
  <2> QED BY <1>4, <2>2 DEF Summed
<1> HIDE DEF iter
<1>8. iter[Operations] = F[Operations]
  BY <1>1, <1>2, <1>7, OperationAssumption, SumIsOne
<1> QED BY <1>2, <1>3, <1>8 DEF Balanced

\* One operation's part changes, and the Run's exposure with it.
LEMMA ExposureMoves ==
  ASSUME RowsTyped, RowsTyped', NEW o \in Operations, NEW d \in Int,
         \A p \in Operations : Held(row'[p]) = IF p = o THEN Held(row[p]) + d ELSE Held(row[p])
  PROVE  Exposure \in Nat /\ Exposure' \in Nat /\ Exposure' = Exposure + d
<1>1. Balanced /\ Balanced'
  BY ExposureSums, PTL
<1>2. PICK g : g = Amounts
  OBVIOUS
<1>3. PICK h : h = Amounts'
  OBVIOUS
<1>4. g \in [Operations -> Nat] /\ h \in [Operations -> Nat]
  BY <1>2, <1>3, HeldIsAmount DEF Amounts, RowsTyped
<1>5. PICK F : IsSum(g, Operations, F) /\ Exposure = F[Operations]
  BY <1>1, <1>2 DEF Balanced
<1>6. PICK G : IsSum(h, Operations, G) /\ Exposure' = G[Operations]
  BY <1>1, <1>3 DEF Balanced
<1>7. Apart(g, h, Operations, o, d)
  BY <1>2, <1>3 DEF Amounts, Apart
<1>8. G[Operations] = F[Operations] + d
  <2>1. IsSum(g, Operations, F) /\ IsSum(h, Operations, G) /\ IsFiniteSet(Operations)
    BY <1>5, <1>6, OperationAssumption
  <2> QED BY <1>4, <1>7, <2>1, SumsDiffer
<1>9. F[Operations] \in Nat /\ G[Operations] \in Nat
  BY <1>5, <1>6 DEF IsSum
<1> QED BY <1>5, <1>6, <1>8, <1>9

\* No operation's part changes.
LEMMA ExposureStays ==
  ASSUME RowsTyped, RowsTyped',
         \A p \in Operations : Held(row'[p]) = Held(row[p])
  PROVE  Exposure' = Exposure
<1>1. Balanced /\ Balanced'
  BY ExposureSums, PTL
<1>2. PICK g : g = Amounts
  OBVIOUS
<1>3. Amounts' = g /\ g \in [Operations -> Nat]
  BY <1>2, HeldIsAmount DEF Amounts, RowsTyped
<1>4. PICK F : IsSum(g, Operations, F) /\ Exposure = F[Operations]
  BY <1>1, <1>2 DEF Balanced
<1>5. PICK G : IsSum(g, Operations, G) /\ Exposure' = G[Operations]
  BY <1>1, <1>3 DEF Balanced
<1>6. G[Operations] = F[Operations]
  BY <1>3, <1>4, <1>5, OperationAssumption, SumIsOne DEF IsSum
<1> QED BY <1>4, <1>5, <1>6

\* What an operation is quoted never exceeds a finite limit.
Fitting == \A o \in Operations : row[o].quote \in 0..Ceiling

LEMMA QuietKeepsHeld == ASSUME NEW r, NEW s, Quiet(r, s) PROVE Held(s) = Held(r)
BY DEF Quiet, Held, Priced

LEMMA QuietAccount ==
  ASSUME RowsTyped, RowsTyped', \A p \in Operations : Quiet(row[p], row'[p])
  PROVE  Account!account' = Account!account /\ (Fitting => Fitting')
<1>1. \A p \in Operations : Held(row'[p]) = Held(row[p]) /\ row'[p].cost = row[p].cost /\ row'[p].quote = row[p].quote
  BY QuietKeepsHeld DEF Quiet
<1>2. Exposure' = Exposure
  BY <1>1, ExposureStays
<1> QED BY <1>1, <1>2 DEF Account!account, Fitting

\* One operation holds an amount that fits, or gives back what it held, or pays at most that.
LEMMA HoldAccount ==
  ASSUME Ceiling \in Nat, RowsTyped, RowsTyped', NEW o \in Operations, \A p \in Operations : p # o => row'[p] = row[p],
         row[o].cost = "none", row'[o].cost = "reserved", row'[o].quote \in Nat,
         Exposure + row'[o].quote <= Ceiling
  PROVE  Account!Next /\ (Fitting => Fitting')
<1>1. PICK n \in Nat : n = row'[o].quote
  OBVIOUS
<1>2. Held(row[o]) = 0 /\ Held(row'[o]) = n
  BY <1>1, HeldIsAmount, AmountAssumption DEF Priced, RowsTyped
<1>3. \A p \in Operations : Held(row'[p]) = IF p = o THEN Held(row[p]) + n ELSE Held(row[p])
  BY <1>2
<1>4. Exposure \in Nat /\ Exposure' = Exposure + n
  BY <1>3, ExposureMoves
<1>5. n \in 0..Ceiling
  BY <1>1, <1>4
<1>6. Account!Hold(o, n)
  <2>1. \A p \in Operations : p # o => row'[p].cost = row[p].cost /\ Held(row'[p]) = Held(row[p])
    OBVIOUS
  <2> QED BY <1>1, <1>2, <1>4, <2>1 DEF Account!Hold
<1> QED BY <1>1, <1>5, <1>6 DEF Account!Next, Fitting

LEMMA CloseAccount ==
  ASSUME Ceiling \in Nat, RowsTyped, RowsTyped', Fitting, NEW o \in Operations,
         \A p \in Operations : p # o => row'[p] = row[p],
         row[o].cost = "reserved", row'[o].cost \in {"released", "settled"}, row'[o].quote = row[o].quote,
         row'[o].cost = "settled" => row'[o].charge <= row[o].quote
  PROVE  Account!Next /\ Fitting'
<1>1. row[o].quote \in 0..Ceiling /\ row[o] \in Rows /\ row'[o] \in Rows
  BY DEF Fitting, RowsTyped
<1>2. PICK n \in Nat : n = Held(row'[o])
  BY <1>1, HeldIsAmount
<1>3. Held(row[o]) = row[o].quote
  BY <1>1, HeldIsAmount, AmountAssumption DEF Priced
<1>4. n <= Held(row[o])
  BY <1>1, <1>2, <1>3, HeldIsAmount
<1>5. PICK m \in Nat : m = Held(row[o]) /\ m <= Ceiling
  BY <1>1, <1>3
<1>6. \A p \in Operations : Held(row'[p]) = IF p = o THEN Held(row[p]) + (n - m) ELSE Held(row[p])
  BY <1>2, <1>5
<1>7. Exposure \in Nat /\ Exposure' = Exposure + (n - m)
  BY <1>6, ExposureMoves
<1>8. n \in 0..Ceiling
  BY <1>4, <1>5
<1>9. Account!Close(o, n)
  <2>1. \A p \in Operations : p # o => row'[p].cost = row[p].cost /\ Held(row'[p]) = Held(row[p])
    OBVIOUS
  <2>2. Exposure' = Exposure + n - m
    BY <1>7
  <2> QED BY <1>2, <1>4, <1>5, <2>1, <2>2 DEF Account!Close
<1> QED BY <1>1, <1>8, <1>9 DEF Account!Next, Fitting

LEMMA AccountStep ==
  ASSUME Ceiling \in Nat, IndInv, IndInv', Covered, Fitting, [Next]_vars
  PROVE  Fitting' /\ [Account!Next]_(Account!account)
<1>1. Core /\ Core' /\ RowsTyped /\ RowsTyped' /\ row \in [Operations -> Rows] /\ row' \in [Operations -> Rows]
  BY DEF IndInv, TypeOK, RowsTyped
<1>2. CASE \A p \in Operations : Quiet(row[p], row'[p])
  BY <1>1, <1>2, QuietAccount
<1>3. ASSUME NEW q \in Quotes, Submit(q) PROVE Fitting' /\ Account!Next
  <2>1. PICK o \in Operations : o = client["task"].op
    BY <1>1, ClientFacts DEF Clients
  <2>2. client["task"].pc = "quoting" /\ Store("task", Prepared(q), Fresh("task", "submitting"))
        /\ q # Unpriced /\ Exposure + q <= Ceiling
    BY <1>3, AmountAssumption DEF Submit, Affordable
  <2>3. row[o].cost = "none"
    BY <1>1, <2>1, <2>2, ClientFacts DEF Core, Bound, RowInv, Entitled, Clients
  <2>4. row'[o] = [Prepared(q) EXCEPT !.moves = 0] /\ \A p \in Operations : p # o => row'[p] = row[p]
    BY <1>1, <2>1, <2>2 DEF Store
  <2>5. Prepared(q).cost = "reserved" /\ Prepared(q).quote = q
    BY DEF Prepared, Absent
  <2>6. row'[o].cost = "reserved" /\ row'[o].quote = q
    BY <1>1, <2>4, <2>5, CommittedFields
  <2>7. q \in Nat
    BY <2>2, AmountAssumption
  <2> QED BY <1>1, <2>2, <2>3, <2>4, <2>6, <2>7, HoldAccount
<1>4. ASSUME NEW c \in Clients, ClientStep(c) PROVE Fitting' /\ [Account!Next]_(Account!account)
  <2>1. Does(c, Row(c))
    BY <1>1, <1>4, ClientStepDoes DEF IndInv, TypeOK
  <2>2. PICK o \in Operations : o = client[c].op
    BY <1>1, ClientFacts
  <2>3. Booked(c, row[o], row'[o]) /\ \A p \in Operations : p # o => row'[p] = row[p]
    BY <1>1, <2>1, <2>2, DoesShows
  <2>4. CASE Quiet(row[o], row'[o])
    BY <1>2, <2>3, <2>4 DEF Quiet
  <2>5. CASE ~Quiet(row[o], row'[o])
    <3>1. Priced(row[o])
      BY AmountAssumption DEF Fitting, Priced
    <3>2. /\ row[o].cost = "reserved" /\ row'[o].cost \in {"released", "settled"} /\ row'[o].quote = row[o].quote
          /\ row'[o].cost = "settled" => row'[o].charge <= row[o].quote
      BY <2>3, <2>5, <3>1 DEF Booked
    <3> QED BY <1>1, <2>3, <3>2, CloseAccount
  <2> QED BY <2>4, <2>5
<1>5. CASE Next
  <2>1. CASE Aside
    BY <1>1, <1>2, <2>1, AsideIsQuiet
  <2> QED BY <1>3, <1>4, <1>5, <2>1, StepKinds
<1>6. CASE UNCHANGED vars
  <2>1. \A p \in Operations : Quiet(row[p], row'[p])
    BY <1>6 DEF vars, durable, Quiet
  <2> QED BY <1>2, <2>1
<1> QED BY <1>5, <1>6

LEMMA AccountInit == Ceiling \in Nat /\ Init => Fitting /\ Account!Init
<1> SUFFICES ASSUME Ceiling \in Nat, Init PROVE Fitting /\ Account!Init
  OBVIOUS
<1>1. \A o \in Operations : row[o] = Absent
  BY DEF Init
<1>2. RowsTyped
  BY InitOK DEF IndInv, TypeOK, RowsTyped
<1>3. \A o \in Operations : row[o].quote = 0 /\ row[o].cost = "none" /\ Held(row[o]) = 0
  BY <1>1, <1>2, HeldIsAmount DEF RowsTyped, Absent
<1>4. Exposure = 0
  <2>1. PICK F : IsSum(Amounts, Operations, F) /\ Exposure = F[Operations]
    BY <1>2, ExposureSums DEF Balanced
  <2>2. PICK g : g = Amounts
    OBVIOUS
  <2>3. g \in [Operations -> Nat] /\ \A o \in Operations : g[o] = 0
    BY <1>3, <2>2 DEF Amounts
  <2>4. PICK Z : Z = [s \in SUBSET Operations |-> 0]
    OBVIOUS
  <2>5. ASSUME NEW s \in SUBSET Operations PROVE Summed(g, Z, s)
    <3>1. s # {} => Taken(s) \in s
      BY DEF Taken
    <3> QED BY <2>3, <2>4, <3>1 DEF Summed
  <2>6. Z[Operations] = F[Operations]
    BY <2>1, <2>2, <2>3, <2>5, OperationAssumption, SumIsOne
  <2> QED BY <2>1, <2>4, <2>6
<1> QED BY <1>3, <1>4 DEF Fitting, Account!Init

\* With a finite budget, whatever the quotes and charges are and however many operations compete, every transaction of
\* the ledger is one the account allows: hold what still fits, or close once for at most what was held.
THEOREM LedgerIsAccount == ASSUME Ceiling \in Nat PROVE Spec => ImplementsAccount
<1>1. Init => Fitting /\ Account!Init
  BY AccountInit
<1>2. IndInv /\ IndInv' /\ Covered /\ Fitting /\ [Next]_vars => Fitting' /\ [Account!Next]_(Account!account)
  BY AccountStep
<1> QED BY <1>1, <1>2, Invariance, CoveredInvariant, PTL DEF Spec, ImplementsAccount, Account!Spec

\* Amounts are what they are said to be, and the balance is within the limit.
AccountInv == Account!AccountOK /\ Account!WithinLimit

\* An account whose operations hold before they cost, and are closed once for at most what they held, never exceeds
\* its limit, whatever is held, closed and given back in between: the promise of the hard budget
\* (assertPermissionAndBudget with settleOperationCostReservation).
THEOREM SpendWithinLimit == ASSUME Ceiling \in Nat PROVE Account!Spec => []Account!WithinLimit
<1>1. Account!Init => AccountInv
  BY DEF Account!Init, AccountInv, Account!AccountOK, Account!WithinLimit
<1>2. AccountInv /\ [Account!Next]_(Account!account) => AccountInv'
  <2> SUFFICES ASSUME AccountInv, [Account!Next]_(Account!account) PROVE AccountInv'
      OBVIOUS
  <2> USE DEF AccountInv, Account!AccountOK, Account!WithinLimit
  <2>1. CASE UNCHANGED Account!account
    BY <2>1 DEF Account!account
  <2>2. ASSUME NEW h \in Operations, NEW n \in 0..Ceiling, Account!Hold(h, n) \/ Account!Close(h, n) PROVE AccountInv'
    <3> DEFINE stage == [o \in Operations |-> CASE row[o].cost = "none" -> "new" [] row[o].cost = "reserved" -> "held"
                                                [] OTHER -> "closed"]
               amount == [o \in Operations |-> Held(row[o])]
               Types(s, a, b) == /\ s \in [Operations -> {"new", "held", "closed"}] /\ a \in [Operations -> Nat]
                                 /\ b \in Int /\ b <= Ceiling
    <3>1. Types(stage, amount, Exposure)
      OBVIOUS
    <3>2. \/ /\ Exposure + n <= Ceiling
             /\ stage' = [stage EXCEPT ![h] = "held"] /\ amount' = [amount EXCEPT ![h] = n] /\ Exposure' = Exposure + n
          \/ /\ n <= amount[h]
             /\ stage' = [stage EXCEPT ![h] = "closed"] /\ amount' = [amount EXCEPT ![h] = n]
             /\ Exposure' = Exposure + n - amount[h]
      BY <2>2 DEF Account!Hold, Account!Close
    <3> HIDE DEF stage, amount
    <3>3. Types(stage', amount', Exposure')
      BY <3>1, <3>2
    <3> QED BY <3>3 DEF stage, amount
  <2> QED BY <2>1, <2>2 DEF Account!Next
<1> QED BY <1>1, <1>2, PTL DEF Account!Spec, AccountInv

\* The hard budget itself: what the operations of a Run hold and were charged never exceeds its limit, for the account
\* never does (assertPermissionAndBudget, loadRunBudgetExposure).
THEOREM HardBudget == ASSUME Ceiling \in Nat PROVE Spec => [](Exposure <= Ceiling)
<1>1. Account!WithinLimit <=> Exposure <= Ceiling
  BY DEF Account!WithinLimit
<1> QED BY <1>1, SpendWithinLimit, LedgerIsAccount, PTL DEF ImplementsAccount
=============================================================================
