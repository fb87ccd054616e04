----------------------- MODULE BridgeInvocationsProofs -----------------------
(***************************************************************************)
(* Proofs about BridgeInvocations, for every set of keys and scopes: a         *)
(* mutation reaches the add-in at most once, and never while the effect of an   *)
(* earlier one on a conflicting scope is unknown and uncleared; the journal     *)
(* never holds a hold that its own validation would take for corruption, and a  *)
(* cleared hold keeps the evidence it was cleared on.                          *)
(***************************************************************************)
EXTENDS BridgeInvocations, TLAPS

Busy == {"owned", "called", "answered"}

\* What the dispatcher holds in its hand agrees with the journal.
RunBound ==
    /\ run.stage # "idle" => run.key \in Key
    /\ run.stage = "claimed" /\ row[run.key].state # "none" => run.req = row[run.key].req
    /\ run.stage \in Busy \cup {"admitted"} => row[run.key].req = run.req
    /\ run.stage \in Busy => row[run.key].state = "executing"
    /\ run.stage = "admitted" => row[run.key].state \in {"received", "executing"}
    /\ run.stage = "admitted" /\ run.req.kind = "mutation" => row[run.key].state = "received"

\* Nothing is sent before the row is executing, nor by a mutation that is yet to send.
Unsent ==
    /\ \A k \in Key : row[k].state = "none" => sent[k] = 0
    /\ \A k \in Key : Mutating(k) /\ row[k].state = "received" => sent[k] = 0
    /\ run.stage \in {"admitted", "owned"} /\ run.req.kind = "mutation" => sent[run.key] = 0

\* The check of the admission transaction still holds.
Checked ==
    run.req.kind = "mutation" /\ run.stage \in {"admitted", "owned", "called"} =>
        \A j \in Key \ {run.key} :
            Mutating(j) /\ Conflicts(row[j].req.scope, run.req.scope) => Settled(j)

IInv == TypeOK /\ RunBound /\ Unsent /\ NeverResent /\ Checked

RowType == [state : RowState, req : Request, link : Key \cup {NoKey}, fresh : BOOLEAN]
HoldType == [state : {"none", "active", "evidence", "cleared"},
             read : Key \cup {NoKey}, by : Key \cup {NoKey}]
RunType == [key : Key \cup {NoKey}, req : Request, outcome : Outcome,
            stage : {"idle", "claimed", "admitted", "owned", "called", "answered"}]

-----------------------------------------------------------------------------
(* Types of what the operations write *)

\* The constants of the model are well typed.
LEMMA ConstantTypes ==
    /\ Read(NoKey) \in Request /\ NoRow \in RowType /\ NoHold \in HoldType
    /\ ActiveHold \in HoldType /\ Idle \in RunType /\ Idle.stage = "idle"
<1>1. Read(NoKey) \in Request
  BY DEF Read, Request
<1> QED
  BY <1>1 DEF NoRow, RowType, RowState, NoHold, ActiveHold, HoldType, Idle, RunType, Outcome

\* A row is linked to a hold of a key.
LEMMA LinkIsKey ==
    ASSUME NEW k \in Key
    PROVE  LinkOf(k) \in Key
BY DEF LinkOf, ScopeHolds

\* Requests the Gateway may make are requests.
LEMMA RequestsTyped == Requests \subseteq Request
<1>1. ASSUME NEW s \in Scope, NEW c \in SUBSET Key PROVE Mutation(s, c) \in Request
  BY DEF Mutation, Request
<1>2. ASSUME NEW h \in Key \cup {NoKey} PROVE Read(h) \in Request
  BY DEF Read, Request
<1> QED
  BY <1>1, <1>2 DEF Requests

\* A request is a mutation or a read; only a read verifies.
LEMMA RequestKinds ==
    ASSUME NEW r \in Request
    PROVE  /\ r.kind \in {"mutation", "read"} /\ r.clears \in SUBSET Key
           /\ r.verifies \in Key \cup {NoKey} /\ (r.verifies # NoKey => r.kind = "read")
BY DEF Request

\* The admission writes rows and holds.
LEMMA AdmissionTypes ==
    ASSUME TypeOK, run.key \in Key
    PROVE  /\ RowAdmitted \in [Key -> RowType]
           /\ HoldAdmitted \in [Key -> HoldType]
<1>1. row \in [Key -> RowType] /\ hold \in [Key -> HoldType] /\ run.req \in Request
  BY DEF TypeOK, RowType, HoldType
<1>2. [state |-> "received", req |-> run.req, link |-> NoKey, fresh |-> run.req.verifies # NoKey]
          \in RowType
  <2>1. ASSUME NEW b \in BOOLEAN
        PROVE  [state |-> "received", req |-> run.req, link |-> NoKey, fresh |-> b] \in RowType
    BY <1>1 DEF RowType, RowState
  <2>2. (run.req.verifies # NoKey) \in BOOLEAN
    OBVIOUS
  <2> QED
    BY <2>1, <2>2, Zenon
<1>3. [row EXCEPT ![run.key].state = "indeterminate", ![run.key].link = LinkOf(run.key)]
          \in [Key -> RowType]
  BY <1>1, LinkIsKey DEF RowType, RowState, Terminal
<1>4. RowAdmitted \in [Key -> RowType]
  BY <1>1, <1>2, <1>3 DEF RowAdmitted
<1>5. HoldPlan \in [Key -> HoldType]
  <2>1. ASSUME NEW h \in Key
        PROVE  [hold[h] EXCEPT !.state = "cleared", !.by = run.key] \in HoldType
    BY Zenon, <1>1 DEF HoldType
  <2> QED
    BY Zenon, <1>1, <2>1, ConstantTypes DEF HoldPlan
<1>6. HoldAdmitted \in [Key -> HoldType]
  BY <1>1, <1>5, ConstantTypes DEF HoldAdmitted
<1> QED
  BY <1>4, <1>6

\* So does the decision.
LEMMA DecisionTypes ==
    ASSUME TypeOK, run.key \in Key, NEW evidence
    PROVE  /\ RowDecided \in [Key -> RowType]
           /\ evidence = FALSE \/ run.req.verifies # NoKey => HoldDecided(evidence) \in [Key -> HoldType]
           /\ StateDecided \in Terminal
<1>1. row \in [Key -> RowType] /\ hold \in [Key -> HoldType] /\ run.req \in Request
  BY DEF TypeOK, RowType, HoldType
<1>2. StateDecided \in Terminal
  BY DEF StateDecided, Terminal
<1>3. RowDecided \in [Key -> RowType]
  <2>1. ASSUME NEW k \in RowType, NEW s \in RowState, NEW l \in Key \cup {NoKey}
        PROVE  [k EXCEPT !.state = s, !.link = l] \in RowType
    BY Zenon DEF RowType
  <2>2. RowDecided = [row EXCEPT ![run.key] =
            [row[run.key] EXCEPT !.state = StateDecided,
                                 !.link = IF StateDecided = "indeterminate" THEN LinkOf(run.key) ELSE @]]
    BY Zenon, <1>1 DEF RowDecided
  <2>3. (IF StateDecided = "indeterminate" THEN LinkOf(run.key) ELSE row[run.key].link) \in Key \cup {NoKey}
    BY <1>1, LinkIsKey DEF RowType
  <2> QED
    BY Zenon, <1>1, <1>2, <2>1, <2>2, <2>3 DEF RowState
<1>4. run.req.verifies # NoKey => run.req.verifies \in Key
  BY <1>1, RequestKinds
<1>5. [state |-> "evidence", read |-> run.key, by |-> NoKey] \in HoldType
  BY DEF HoldType
<1>6. evidence = FALSE \/ run.req.verifies # NoKey => HoldDecided(evidence) \in [Key -> HoldType]
  BY <1>1, <1>4, <1>5, ConstantTypes DEF HoldDecided
<1> QED
  BY <1>2, <1>3, <1>6

-----------------------------------------------------------------------------
(* Admission *)

\* When the admission transaction lets a mutation in, every conflicting origin whose
\* effect is uncertain has a cleared hold: it would otherwise get a hold of its own, or
\* share its scope with a hold that blocks, or collide with one that is being cleared.
LEMMA AdmissionClears ==
    ASSUME TypeOK, run.key \in Key, InsertsMutation,
           NEW j \in Key, OriginUncertain(j), Conflicts(row[j].req.scope, run.req.scope)
    PROVE  HoldPlan[j].state = "cleared"
<1> DEFINE clears == run.req.clears
           scope == row[j].req.scope
<1> SUFFICES ASSUME HoldPlan[j].state # "cleared"
             PROVE  FALSE
  OBVIOUS
<1>1. hold \in [Key -> HoldType] /\ clears \in SUBSET Key
  BY RequestKinds DEF TypeOK, HoldType
<1>2. ~Blocked /\ ~ClearanceRefused
  BY DEF InsertsMutation
<1>3. Conflicts(run.req.scope, scope)
  BY DEF Conflicts
<1>4. ASSUME NEW h \in Key, row[h].req.scope = scope
      PROVE  HoldPlan[h].state \notin {"active", "evidence"}
  BY <1>2, <1>3, <1>4 DEF Blocked
<1>5. j \notin NewHolds(clears)
  <2>1. j \in NewHolds(clears) => HoldPlan[j].state = "active"
    BY DEF HoldPlan, ActiveHold
  <2> QED
    BY <1>4, <2>1
<1>6. j \notin clears
  <2>1. j \in clears => HoldPlan[j] = [hold[j] EXCEPT !.state = "cleared", !.by = run.key]
    BY <1>5 DEF HoldPlan
  <2> QED
    BY Zenon, <1>1, <2>1 DEF HoldType
<1>7. hold[j].state # "cleared"
  BY <1>5, <1>6 DEF HoldPlan
<1>8. j \in UnsafeRows /\ Unresolved(j, clears)
  BY <1>6, <1>7 DEF UnsafeRows, Unresolved
<1>9. PICK h \in Key : Uncleared(h) /\ row[h].req.scope = scope
  BY <1>5, <1>8 DEF NewHolds, ScopeHolds
<1>10. h \in clears
  <2>1. h \notin NewHolds(clears)
    BY <1>9 DEF NewHolds, ScopeHolds
  <2>2. h \notin clears => HoldPlan[h] = hold[h]
    BY <2>1 DEF HoldPlan
  <2> QED
    BY <1>4, <1>9, <2>2 DEF Uncleared
<1>11. Collides(j)
  BY <1>6, <1>9, <1>10 DEF Collides, ScopeHolds
<1>12. j \in Unsafe(run.req.scope, clears)
  BY <1>8, <1>11 DEF Unsafe
<1> QED
  BY <1>2, <1>10, <1>12 DEF ClearanceRefused

\* So every conflicting mutation that was sent is settled by what the transaction wrote.
LEMMA AdmissionSettles ==
    ASSUME TypeOK, Unsent, run.key \in Key, InsertsMutation,
           NEW j \in Key, Mutating(j), Conflicts(row[j].req.scope, run.req.scope)
    PROVE  \/ sent[j] = 0
           \/ row[j].state \in {"completed", "opaque", "guarded"}
           \/ HoldPlan[j].state = "cleared"
<1>1. \/ sent[j] = 0
      \/ row[j].state \in {"completed", "opaque", "guarded"}
      \/ OriginUncertain(j)
  BY DEF TypeOK, RowState, Terminal, Unsent, Mutating, OriginUncertain
<1> QED
  BY <1>1, AdmissionClears

\* What the admission does to a row: nothing, unless it is the row of the run.
LEMMA AdmissionRows ==
    ASSUME TypeOK, RunBound, run.stage = "claimed"
    PROVE  /\ run.key \in Key
           /\ \A k \in Key \ {run.key} : RowAdmitted[k] = row[k]
           /\ New /\ (InsertsMutation \/ InsertsRead) =>
                  RowAdmitted[run.key].state = "received" /\ RowAdmitted[run.key].req = run.req
           /\ ~(InsertsMutation \/ InsertsRead) =>
                  /\ RowAdmitted[run.key].req = row[run.key].req
                  /\ \/ RowAdmitted[run.key].state = row[run.key].state
                     \/ RowAdmitted[run.key].state = "indeterminate" /\ Mutating(run.key)
           /\ Executes /\ ~New => RowAdmitted = row
<1>1. run.key \in Key /\ row \in [Key -> RowType]
  BY DEF RunBound, TypeOK, RowType
<1>2. \A k \in Key \ {run.key} : RowAdmitted[k] = row[k]
  BY <1>1 DEF RowAdmitted
<1>3. InsertsMutation \/ InsertsRead =>
          RowAdmitted[run.key].state = "received" /\ RowAdmitted[run.key].req = run.req
  BY <1>1 DEF RowAdmitted
<1>4. ~(InsertsMutation \/ InsertsRead) =>
          /\ RowAdmitted[run.key].req = row[run.key].req
          /\ \/ RowAdmitted[run.key].state = row[run.key].state
             \/ RowAdmitted[run.key].state = "indeterminate" /\ Mutating(run.key)
  BY <1>1 DEF RowAdmitted, RefusesIndeterminate, RowType
<1>5. Executes /\ ~New => RowAdmitted = row
  BY <1>1 DEF Executes, New, InsertsMutation, InsertsRead, RowAdmitted, RefusesIndeterminate,
              Mutating, RunBound
<1> QED
  BY <1>1, <1>2, <1>3, <1>4, <1>5

-----------------------------------------------------------------------------
(* The inductive invariant *)

\* A step that changes neither rows nor what was sent, and leaves the dispatcher idle,
\* keeps the facts about them; so does one that changes the row of the run only.
LEMMA IdleKeeps ==
    ASSUME IInv, run' = Idle, sent' = sent, TypeOK',
           \A k \in Key : \/ row'[k].state = row[k].state /\ row'[k].req = row[k].req
                          \/ /\ row'[k].state \notin {"none"}
                             /\ row'[k].req.kind = "mutation" /\ row'[k].state = "received" => sent[k] = 0
                             /\ row'[k].req.kind = "mutation" => sent[k] <= 1
    PROVE  IInv'
<1>1. run'.stage = "idle" /\ Idle.stage = "idle"
  BY DEF Idle
<1>2. RunBound' /\ Checked'
  BY <1>1 DEF RunBound, Checked, Busy
<1>3. Unsent'
  BY <1>1 DEF IInv, Unsent, Mutating
<1>4. NeverResent'
  BY DEF IInv, NeverResent, Mutating
<1> QED
  BY <1>2, <1>3, <1>4 DEF IInv

\* The admission transaction, whether or not its answer reaches the dispatcher.
LEMMA AdmissionKeepsRows ==
    ASSUME IInv, run.stage = "claimed", row' = RowAdmitted, sent' = sent
    PROVE  \A k \in Key : \/ row'[k].state = row[k].state /\ row'[k].req = row[k].req
                          \/ /\ row'[k].state \notin {"none"}
                             /\ row'[k].req.kind = "mutation" /\ row'[k].state = "received" => sent[k] = 0
                             /\ row'[k].req.kind = "mutation" => sent[k] <= 1
<1>1. TypeOK /\ RunBound /\ Unsent /\ NeverResent
  BY DEF IInv
<1>2. run.key \in Key
  BY <1>1, AdmissionRows
<1>3. CASE InsertsMutation \/ InsertsRead
  <2>1. New /\ sent[run.key] = 0
    BY <1>1, <1>2, <1>3 DEF InsertsMutation, InsertsRead, New, Unsent
  <2> QED
    BY <1>1, <1>2, <1>3, <2>1, AdmissionRows
<1>4. CASE ~(InsertsMutation \/ InsertsRead)
  <2>1. Mutating(run.key) => sent[run.key] <= 1
    BY <1>1, <1>2 DEF NeverResent
  <2> QED
    BY <1>1, <1>2, <1>4, <2>1, AdmissionRows
<1> QED
  BY <1>3, <1>4

\* The types are kept by every step.
LEMMA TypeStep ==
    ASSUME TypeOK, RunBound, Next
    PROVE  TypeOK'
<1>1. /\ row \in [Key -> RowType] /\ hold \in [Key -> HoldType] /\ run \in RunType
      /\ quar \in {"free", "reserved", "owned"} /\ online \in BOOLEAN /\ sent \in [Key -> 0 .. 2]
  BY DEF TypeOK, RowType, HoldType, RunType
<1> SUFFICES /\ row' \in [Key -> RowType] /\ hold' \in [Key -> HoldType] /\ run' \in RunType
             /\ quar' \in {"free", "reserved", "owned"} /\ online' \in BOOLEAN
             /\ sent' \in [Key -> 0 .. 2]
  BY DEF TypeOK, RowType, HoldType, RunType
<1>2. run.stage # "idle" => run.key \in Key
  BY DEF RunBound
<1>3. ASSUME NEW k \in Key, Deliver(k) PROVE run' \in RunType
  <2>1. PICK r \in (IF row[k].state = "none" THEN Requests ELSE {row[k].req}) :
            run' = [Idle EXCEPT !.key = k, !.stage = "claimed", !.req = r]
    BY Zenon, <1>3 DEF Deliver
  <2>2. r \in Request
    BY <1>1, <2>1, RequestsTyped DEF RowType
  <2> QED
    BY Zenon, <2>1, <2>2, ConstantTypes DEF RunType
<1>4. CASE \E k \in Key : Deliver(k)
  BY Zenon, <1>1, <1>3, <1>4 DEF Deliver
<1>5. [row EXCEPT ![run.key].state = "executing"] \in [Key -> RowType]
  BY Zenon, <1>1 DEF RowType, RowState
<1>6. ASSUME NEW s \in {"admitted", "owned", "called"} PROVE [run EXCEPT !.stage = s] \in RunType
  BY <1>1 DEF RunType
<1>7. ASSUME NEW o \in Outcome PROVE [run EXCEPT !.stage = "answered", !.outcome = o] \in RunType
  BY Zenon, <1>1 DEF RunType
<1>8. CASE Admit
  BY <1>1, <1>2, <1>6, <1>8, AdmissionTypes, ConstantTypes DEF Admit
<1>9. CASE TakeOwnership
  BY <1>1, <1>5, <1>6, <1>9 DEF TakeOwnership
<1>10. CASE Cancelled
  BY <1>1, <1>10, ConstantTypes DEF Cancelled
<1>11. CASE FailBeforeSend
  BY Zenon, <1>1, <1>7, <1>11 DEF FailBeforeSend, Outcome
<1>12. CASE Send
  <2>1. run.key \in Key /\ run.stage = "owned"
    BY <1>2, <1>12 DEF Send
  <2>2. (IF sent[run.key] = 2 THEN 2 ELSE sent[run.key] + 1) \in 0 .. 2
    BY <1>1, <2>1
  <2>3. sent' \in [Key -> 0 .. 2]
    BY Zenon, <1>1, <1>12, <2>2 DEF Send
  <2> QED
    BY <1>1, <1>6, <1>12, <2>3 DEF Send
<1>13. CASE AddinAnswer
  BY Zenon, <1>1, <1>7, <1>13 DEF AddinAnswer
<1>14. ASSUME run.stage = "answered", NEW evidence \in {FALSE, MayBeEvidence}
       PROVE  HoldDecided(evidence) \in [Key -> HoldType] /\ RowDecided \in [Key -> RowType]
  <2>1. run.key \in Key
    BY <1>2, <1>14
  <2>2. CASE evidence = FALSE
    BY Zenon, <2>1, <2>2, DecisionTypes
  <2>3. CASE MayBeEvidence
    BY <2>1, <2>3, DecisionTypes DEF MayBeEvidence
  <2>4. evidence = FALSE \/ MayBeEvidence
    BY <1>14, Zenon DEF MayBeEvidence
  <2> QED
    BY Zenon, <2>2, <2>3, <2>4
<1>15. CASE Decide
  BY Zenon, <1>1, <1>14, <1>15, ConstantTypes DEF Decide
<1>16. CASE ProbeCancelled
  BY <1>1, <1>16, ConstantTypes DEF ProbeCancelled
<1>17. CASE JournalFault
  <2>1. row' \in [Key -> RowType] /\ hold' \in [Key -> HoldType]
    <3>1. CASE run.stage = "claimed" /\ row' = RowAdmitted /\ hold' = HoldAdmitted
      BY <1>2, <3>1, AdmissionTypes
    <3>2. CASE row' \in {row, [row EXCEPT ![run.key].state = "executing"]} /\ hold' = hold
      BY <1>1, <1>5, <3>2
    <3>3. CASE run.stage = "answered" /\ row' = RowDecided
                /\ \E evidence \in {FALSE, MayBeEvidence} : hold' = HoldDecided(evidence)
      BY Zenon, <1>14, <3>3
    <3> QED
      BY Zenon, <1>17, <3>1, <3>2, <3>3 DEF JournalFault
  <2> QED
    BY Zenon, <1>1, <1>17, <2>1, ConstantTypes DEF JournalFault
<1>18. CASE EndCycle
  BY Zenon, <1>1, <1>18 DEF EndCycle
<1>19. CASE Reconnect
  <2>1. ASSUME NEW r \in RowType PROVE [r EXCEPT !.fresh = FALSE] \in RowType
    BY Zenon DEF RowType
  <2> QED
    BY <1>1, <1>19, <2>1 DEF Reconnect
<1>20. CASE Crash
  BY Zenon, <1>1, <1>20, ConstantTypes DEF Crash
<1> QED
  BY <1>4, <1>8, <1>9, <1>10, <1>11, <1>12, <1>13, <1>15, <1>16, <1>17, <1>18, <1>19, <1>20 DEF Next

\* A run that takes its next step while rows, holds and what was sent stay as they are.
LEMMA StageKeeps ==
    ASSUME IInv, TypeOK', UNCHANGED <<row, hold, sent>>, run'.key = run.key, run'.req = run.req,
           \/ run'.stage = run.stage
           \/ run.stage \in Busy /\ run'.stage = "answered"
    PROVE  IInv'
<1>1. RunBound'
  BY DEF IInv, RunBound, Busy
<1>2. Unsent' /\ NeverResent'
  BY DEF IInv, Unsent, NeverResent, Mutating
<1>3. Checked'
  BY DEF IInv, Checked, Settled, Mutating, Conflicts
<1> QED
  BY <1>1, <1>2, <1>3 DEF IInv

\* The request of a delivery is the one its row was admitted with, if it has one.
LEMMA DeliverStep ==
    ASSUME IInv, TypeOK', NEW k \in Key, Deliver(k)
    PROVE  IInv'
<1>1. PICK r \in (IF row[k].state = "none" THEN Requests ELSE {row[k].req}) :
          run' = [Idle EXCEPT !.key = k, !.stage = "claimed", !.req = r]
  BY Zenon DEF Deliver
<1>2. run'.key = k /\ run'.stage = "claimed" /\ run'.req = r
  BY <1>1 DEF Idle
<1>3. UNCHANGED <<row, hold, sent>>
  BY DEF Deliver
<1>4. RunBound' /\ Checked'
  BY <1>1, <1>2, <1>3 DEF RunBound, Checked, Busy
<1>5. Unsent' /\ NeverResent'
  BY <1>2, <1>3 DEF IInv, Unsent, NeverResent, Mutating
<1> QED
  BY <1>4, <1>5 DEF IInv

\* The admission either ends the run or leaves it with a row it may execute.
LEMMA AdmitStep ==
    ASSUME IInv, TypeOK', Admit
    PROVE  IInv'
<1>1. TypeOK /\ RunBound /\ Unsent /\ NeverResent
  BY DEF IInv
<1>2. run.stage = "claimed" /\ row' = RowAdmitted /\ hold' = HoldAdmitted /\ sent' = sent
  BY DEF Admit
<1>3. run.key \in Key
  BY <1>1, <1>2, AdmissionRows
<1>4. CASE ~Executes
  <2>1. run' = Idle
    BY <1>4 DEF Admit
  <2> QED
    BY <1>2, <2>1, AdmissionKeepsRows, IdleKeeps
<1>5. CASE Executes
  <2>1. run'.key = run.key /\ run'.req = run.req /\ run'.stage = "admitted"
    BY <1>1, <1>5 DEF Admit, TypeOK
  <2>2. run.req \in Request /\ row[run.key] \in RowType
    BY <1>1, <1>3 DEF TypeOK, RowType
  <2>3. CASE InsertsMutation \/ InsertsRead
    <3>1. New
      BY <2>3 DEF InsertsMutation, InsertsRead
    <3>2. row'[run.key].state = "received" /\ row'[run.key].req = run.req
      BY <1>1, <1>2, <2>3, <3>1, AdmissionRows
    <3>3. sent[run.key] = 0
      BY <1>1, <1>3, <3>1 DEF New, Unsent
    <3>4. RunBound'
      BY <1>3, <2>1, <3>2 DEF RunBound, Busy
    <3>5. \A k \in Key \ {run.key} : row'[k] = row[k]
      BY <1>1, <1>2, AdmissionRows
    <3>6. Unsent'
      BY <1>1, <1>2, <1>3, <2>1, <3>2, <3>3, <3>5 DEF Unsent, Mutating
    <3>7. NeverResent'
      BY <1>1, <1>2, <1>3, <3>3, <3>5 DEF NeverResent, Mutating
    <3>8. Checked'
      <4> SUFFICES ASSUME run.req.kind = "mutation", NEW j \in Key \ {run.key}, Mutating(j),
                          Conflicts(row[j].req.scope, run.req.scope)
                   PROVE  Settled(j)'
        BY <2>1, <3>5 DEF Checked, Mutating, Conflicts
      <4>1. InsertsMutation
        BY <2>3 DEF InsertsRead
      <4>2. hold' = HoldPlan
        BY <1>2, <4>1 DEF HoldAdmitted, InsertsMutation
      <4> QED
        BY <1>1, <1>2, <1>3, <3>5, <4>1, <4>2, AdmissionSettles DEF Settled
    <3> QED
      BY <3>4, <3>6, <3>7, <3>8 DEF IInv
  <2>4. CASE ~(InsertsMutation \/ InsertsRead)
    <3>1. ~New /\ run.req.kind = "read" /\ row[run.key].state \notin Terminal
      BY <1>5, <2>4 DEF Executes
    <3>2. row' = row
      BY <1>1, <1>2, <1>5, <3>1, AdmissionRows
    <3>3. row[run.key].state \in {"received", "executing"} /\ row[run.key].req = run.req
      BY <1>1, <1>2, <2>2, <3>1 DEF RunBound, New, RowType, RowState
    <3>4. RunBound'
      BY <1>3, <2>1, <3>1, <3>2, <3>3 DEF RunBound, Busy
    <3>5. Unsent' /\ NeverResent'
      BY <1>1, <1>2, <2>1, <3>1, <3>2 DEF Unsent, NeverResent, Mutating
    <3>6. Checked'
      BY <2>1, <3>1 DEF Checked
    <3> QED
      BY <3>4, <3>5, <3>6 DEF IInv
  <2> QED
    BY <2>3, <2>4
<1> QED
  BY <1>4, <1>5

\* Taking ownership turns the row to executing before anything is sent.
LEMMA OwnStep ==
    ASSUME IInv, TypeOK', TakeOwnership
    PROVE  IInv'
<1>1. TypeOK /\ RunBound /\ Unsent /\ NeverResent /\ Checked
  BY DEF IInv
<1>2. run.stage = "admitted" /\ run.key \in Key /\ row[run.key].req = run.req
  BY <1>1 DEF TakeOwnership, RunBound
<1>3. run'.key = run.key /\ run'.req = run.req /\ run'.stage = "owned"
  BY <1>1 DEF TakeOwnership, TypeOK
<1>4. /\ \A k \in Key \ {run.key} : row'[k] = row[k]
      /\ row'[run.key].state = "executing" /\ row'[run.key].req = run.req
      /\ hold' = hold /\ sent' = sent
  BY <1>1, <1>2 DEF TakeOwnership, TypeOK
<1>5. RunBound'
  BY <1>2, <1>3, <1>4 DEF RunBound, Busy
<1>6. Unsent'
  BY <1>1, <1>2, <1>3, <1>4 DEF Unsent, Mutating
<1>7. NeverResent'
  <2>1. row[run.key].state # "none"
    BY <1>1, <1>2 DEF RunBound
  <2> QED
    BY <1>1, <1>2, <1>4, <2>1 DEF NeverResent, Mutating
<1>8. Checked'
  BY <1>1, <1>2, <1>3, <1>4 DEF Checked, Settled, Mutating, Conflicts
<1> QED
  BY <1>5, <1>6, <1>7, <1>8 DEF IInv

\* The one step that sends: a mutation that gets here has not been sent.
LEMMA SendStep ==
    ASSUME IInv, TypeOK', Send
    PROVE  IInv'
<1>1. TypeOK /\ RunBound /\ Unsent /\ NeverResent /\ Checked
  BY DEF IInv
<1>2. /\ run.stage = "owned" /\ run.key \in Key /\ row[run.key].req = run.req
      /\ row[run.key].state = "executing"
  BY <1>1 DEF Send, RunBound, Busy
<1>3. run'.key = run.key /\ run'.req = run.req /\ run'.stage = "called"
  BY <1>1 DEF Send, TypeOK
<1>4. /\ UNCHANGED <<row, hold>>
      /\ \A k \in Key \ {run.key} : sent'[k] = sent[k]
      /\ sent[run.key] = 0 => sent'[run.key] = 1
  BY <1>1, <1>2 DEF Send, TypeOK
<1>5. RunBound'
  BY <1>2, <1>3, <1>4 DEF RunBound, Busy
<1>6. Unsent'
  BY <1>1, <1>2, <1>3, <1>4 DEF Unsent, Mutating
<1>7. NeverResent'
  BY <1>1, <1>2, <1>4 DEF NeverResent, Mutating, Unsent
<1>8. Checked'
  BY <1>1, <1>2, <1>3, <1>4 DEF Checked, Settled, Mutating, Conflicts
<1> QED
  BY <1>5, <1>6, <1>7, <1>8 DEF IInv

\* The decision, whether or not its answer reaches the dispatcher.
LEMMA DecisionKeepsRows ==
    ASSUME IInv, run.stage = "answered", row' = RowDecided, sent' = sent
    PROVE  \A k \in Key : \/ row'[k].state = row[k].state /\ row'[k].req = row[k].req
                          \/ /\ row'[k].state \notin {"none"}
                             /\ row'[k].req.kind = "mutation" /\ row'[k].state = "received" => sent[k] = 0
                             /\ row'[k].req.kind = "mutation" => sent[k] <= 1
<1>1. TypeOK /\ RunBound /\ NeverResent
  BY DEF IInv
<1>2. run.key \in Key /\ row[run.key].state = "executing"
  BY <1>1 DEF RunBound, Busy
<1>3. \A k \in Key \ {run.key} : row'[k] = row[k]
  BY <1>1, <1>2 DEF RowDecided, TypeOK
<1>4. row'[run.key].state = StateDecided /\ row'[run.key].req = row[run.key].req
  BY <1>1, <1>2 DEF RowDecided, TypeOK
<1>5. StateDecided \in Terminal
  BY Zenon, <1>1, <1>2, DecisionTypes
<1>6. row[run.key].req.kind = "mutation" => sent[run.key] <= 1
  BY <1>1, <1>2 DEF NeverResent, Mutating
<1> QED
  BY <1>3, <1>4, <1>5, <1>6 DEF Terminal

\* A journal write that throws has written everything or nothing.
LEMMA JournalFaultStep ==
    ASSUME IInv, TypeOK', JournalFault
    PROVE  IInv'
<1>1. run' = Idle /\ sent' = sent
  BY DEF JournalFault
<1>2. CASE row' = row
  BY <1>1, <1>2, IdleKeeps
<1>3. CASE run.stage = "claimed" /\ row' = RowAdmitted
  BY <1>1, <1>3, AdmissionKeepsRows, IdleKeeps
<1>4. CASE run.stage = "admitted" /\ row' = [row EXCEPT ![run.key].state = "executing"]
  <2>1. TypeOK /\ RunBound /\ NeverResent
    BY DEF IInv
  <2>2. run.key \in Key /\ row[run.key].state # "none"
    BY <1>4, <2>1 DEF RunBound
  <2>3. /\ \A k \in Key \ {run.key} : row'[k] = row[k]
        /\ row'[run.key].state = "executing" /\ row'[run.key].req = row[run.key].req
    BY <1>4, <2>1, <2>2 DEF TypeOK
  <2>4. row[run.key].req.kind = "mutation" => sent[run.key] <= 1
    BY <2>1, <2>2 DEF NeverResent, Mutating
  <2> QED
    BY <1>1, <2>3, <2>4, IdleKeeps
<1>5. CASE run.stage = "answered" /\ row' = RowDecided
  BY <1>1, <1>5, DecisionKeepsRows, IdleKeeps
<1> QED
  BY Zenon, <1>2, <1>3, <1>4, <1>5 DEF JournalFault

\* The invariant holds initially.
LEMMA InitIInv == Init => IInv
<1> SUFFICES ASSUME Init PROVE IInv
  OBVIOUS
<1>1. TypeOK
  <2>1. row \in [Key -> RowType] /\ hold \in [Key -> HoldType] /\ run \in RunType
    BY ConstantTypes DEF Init
  <2>2. sent \in [Key -> 0 .. 2]
    BY DEF Init
  <2> QED
    BY <2>1, <2>2 DEF Init, TypeOK, RowType, HoldType, RunType
<1>2. run.stage = "idle"
  BY DEF Init, Idle
<1>3. RunBound /\ Checked
  BY <1>2 DEF RunBound, Checked, Busy
<1>4. Unsent /\ NeverResent
  BY <1>2 DEF Init, Unsent, NeverResent
<1> QED
  BY <1>1, <1>3, <1>4 DEF IInv

\* Every step keeps the invariant.
LEMMA StepIInv == IInv /\ [Next]_vars => IInv'
<1> SUFFICES ASSUME IInv, [Next]_vars PROVE IInv'
  OBVIOUS
<1>1. CASE UNCHANGED vars
  <2>1. TypeOK'
    BY <1>1 DEF IInv, TypeOK, vars
  <2> QED
    BY <1>1, <2>1, StageKeeps DEF vars
<1>2. CASE Next
  <2>1. TypeOK /\ TypeOK'
    BY <1>2, TypeStep DEF IInv
  <2>2. CASE \E k \in Key : Deliver(k)
    BY <2>1, <2>2, DeliverStep
  <2>3. CASE Admit
    BY <2>1, <2>3, AdmitStep
  <2>4. CASE TakeOwnership
    BY <2>1, <2>4, OwnStep
  <2>5. CASE Send
    BY <2>1, <2>5, SendStep
  <2>6. CASE JournalFault
    BY <2>1, <2>6, JournalFaultStep
  <2>7. CASE Decide
    <3>1. run.stage = "answered" /\ row' = RowDecided /\ sent' = sent /\ run' = Idle
      BY <2>7 DEF Decide
    <3> QED
      BY <2>1, <3>1, DecisionKeepsRows, IdleKeeps
  <2>8. CASE Cancelled \/ ProbeCancelled \/ Crash
    <3>1. run' = Idle /\ UNCHANGED <<row, sent>>
      BY <2>8 DEF Cancelled, ProbeCancelled, Crash
    <3> QED
      BY <2>1, <3>1, IdleKeeps
  <2>9. CASE Reconnect
    <3>1. run' = Idle /\ sent' = sent
      BY <2>9 DEF Reconnect
    <3>2. \A k \in Key : row'[k].state = row[k].state /\ row'[k].req = row[k].req
      BY <2>1, <2>9 DEF Reconnect, TypeOK
    <3> QED
      BY <2>1, <3>1, <3>2, IdleKeeps
  <2>10. CASE EndCycle
    <3>1. UNCHANGED <<row, hold, run, sent>>
      BY <2>10 DEF EndCycle
    <3> QED
      BY <2>1, <3>1, StageKeeps
  <2>11. CASE FailBeforeSend \/ AddinAnswer
    <3>1. /\ UNCHANGED <<row, hold, sent>> /\ run.stage \in Busy
          /\ \E o \in Outcome : run' = [run EXCEPT !.stage = "answered", !.outcome = o]
      BY Zenon, <2>11 DEF FailBeforeSend, AddinAnswer, Busy, Outcome
    <3>2. run'.key = run.key /\ run'.req = run.req /\ run'.stage = "answered"
      BY <2>1, <3>1 DEF TypeOK
    <3> QED
      BY <2>1, <3>1, <3>2, StageKeeps
  <2> QED
    BY <1>2, <2>2, <2>3, <2>4, <2>5, <2>6, <2>7, <2>8, <2>9, <2>10, <2>11 DEF Next
<1> QED
  BY <1>1, <1>2

-----------------------------------------------------------------------------
(* Theorems *)

\* Over every redelivery, journal fault, reconnection and crash the add-in gets the
\* request of a mutation at most once, for any number of keys and scopes.
THEOREM AtMostOneDispatch == Spec => []NeverResent
<1>1. IInv => NeverResent
  BY DEF IInv
<1> QED
  BY <1>1, InitIInv, StepIInv, PTL DEF Spec

\* The admission check is never stale: while a mutation is owned or at the add-in, every
\* conflicting mutation that may have reached it has a known effect or a cleared hold.
THEOREM DispatchIsInformed == Spec => []NoBlindDispatch
<1>1. IInv => NoBlindDispatch
  BY DEF IInv, Checked, NoBlindDispatch
<1> QED
  BY <1>1, InitIInv, StepIInv, PTL DEF Spec

\* The rows, the holds and the run keep their types.
THEOREM WellTyped == Spec => []TypeOK
<1>1. IInv => TypeOK
  BY DEF IInv
<1> QED
  BY <1>1, InitIInv, StepIInv, PTL DEF Spec

-----------------------------------------------------------------------------
(* The verification holds *)

\* Only an origin whose effect is uncertain is held.
HeldUncertain == \A h \in Key : hold[h].state # "none" => OriginUncertain(h)

\* An uncertain origin is linked to its own hold, or not yet to any.
UncertainBound == \A k \in Key : OriginUncertain(k) => OriginBound(k)

\* Of two uncertain origins on a scope, one has been cleared.
Alone ==
    \A j, k \in Key :
        /\ j # k /\ OriginUncertain(j) /\ OriginUncertain(k)
        /\ row[j].req.scope = row[k].req.scope
        => hold[j].state = "cleared" \/ hold[k].state = "cleared"

Stored == HeldUncertain /\ UncertainBound /\ Alone /\ ClearanceBacked

\* A cleared origin is not delivered, and a mutation runs on a scope without holds.
RunClear ==
    /\ run.stage = "claimed" => hold[run.key].state # "cleared"
    /\ run.req.kind = "mutation" /\ run.stage \in Busy \cup {"admitted"} =>
           hold[run.key].state = "none" /\ ScopeHolds(run.req.scope) = {}

HoldInv == IInv /\ Stored /\ RunClear

-----------------------------------------------------------------------------
(* Operators *)

\* An origin that no other one shares its scope with is linked to its own hold.
LEMMA LinkIsSelf ==
    ASSUME NEW k \in Key, \A h \in ScopeHolds(row[k].req.scope) : h = k
    PROVE  LinkOf(k) = k
BY DEF LinkOf

\* What the plan of an admission does to a hold.
LEMMA PlanHolds ==
    ASSUME TypeOK, Stored, run.key \in Key, New, ~ClearanceRefused, NEW h \in Key
    PROVE  /\ hold[h].state = "cleared" => HoldPlan[h] = hold[h]
           /\ HoldPlan[h].state # "none" => OriginUncertain(h)
           /\ HoldPlan[h].state = "cleared" /\ hold[h].state # "cleared" =>
                  /\ EligibleRead(h) /\ HoldPlan[h].read = hold[h].read /\ HoldPlan[h].by = run.key
                  /\ Conflicts(run.req.scope, row[h].req.scope) /\ ~Blocked
           /\ HoldPlan[run.key].state = "none"
<1> DEFINE clears == run.req.clears
<1>1. hold \in [Key -> HoldType] /\ clears \in SUBSET Key
  BY RequestKinds DEF TypeOK, HoldType
<1>2. ASSUME NEW x \in clears
      PROVE  ClearanceAccepted(x) /\ hold[x].state = "evidence" /\ ~Blocked
  BY DEF ClearanceRefused, ClearanceAccepted
<1>3. ASSUME NEW x \in NewHolds(clears)
      PROVE  OriginUncertain(x) /\ hold[x].state # "cleared"
  BY DEF NewHolds, UnsafeRows, Unresolved, Collides
<1>4. hold[h].state # "none" => OriginUncertain(h)
  BY DEF Stored, HeldUncertain
<1>5. hold[h].state = "cleared" => HoldPlan[h] = hold[h]
  BY <1>2, <1>3 DEF HoldPlan
<1>6. h \in clears => hold[h].state # "none"
  BY <1>2
<1>7. HoldPlan[h].state # "none" => OriginUncertain(h)
  BY <1>3, <1>4, <1>6 DEF HoldPlan
<1>8. HoldPlan[h].state = "cleared" /\ hold[h].state # "cleared" =>
          /\ h \in clears /\ HoldPlan[h] = [hold[h] EXCEPT !.state = "cleared", !.by = run.key]
  BY DEF HoldPlan, ActiveHold
<1>9. HoldPlan[h].state = "cleared" /\ hold[h].state # "cleared" =>
          /\ EligibleRead(h) /\ HoldPlan[h].read = hold[h].read /\ HoldPlan[h].by = run.key
          /\ Conflicts(run.req.scope, row[h].req.scope) /\ ~Blocked
  BY Zenon, <1>1, <1>2, <1>8 DEF ClearanceAccepted, HoldType
<1>10. HoldPlan[run.key].state = "none"
  <2>1. ~OriginUncertain(run.key)
    BY DEF New, OriginUncertain, Mutating
  <2>2. hold[run.key].state = "none"
    BY <2>1 DEF Stored, HeldUncertain
  <2>3. run.key \notin clears /\ run.key \notin NewHolds(clears)
    BY <1>2, <1>3, <2>1, <2>2
  <2> QED
    BY Zenon, <2>2, <2>3 DEF HoldPlan
<1> QED
  BY <1>5, <1>7, <1>9, <1>10

-----------------------------------------------------------------------------
(* The journal *)

\* Steps that leave holds, links and requests alone and at most start an execution.
LEMMA StoredStutter ==
    ASSUME TypeOK, Stored, hold' = hold,
           \A k \in Key : /\ row'[k].req = row[k].req /\ row'[k].link = row[k].link
                          /\ \/ row'[k].state = row[k].state
                             \/ row[k].state \in {"received", "executing"} /\ row'[k].state = "executing"
    PROVE  Stored'
<1>1. \A k \in Key : OriginUncertain(k)' <=> OriginUncertain(k)
  BY DEF OriginUncertain, Mutating
<1>2. \A k \in Key : OriginBound(k) => OriginBound(k)'
  BY <1>1 DEF OriginBound, Mutating
<1>3. \A h \in Key : EligibleRead(h) => EligibleRead(h)'
  BY DEF EligibleRead, TypeOK
<1>4. ClearanceBacked'
  BY <1>3 DEF Stored, ClearanceBacked, Mutating, Conflicts, TypeOK
<1>5. HeldUncertain' /\ UncertainBound' /\ Alone'
  BY <1>1, <1>2 DEF Stored, HeldUncertain, UncertainBound, Alone
<1> QED
  BY <1>4, <1>5 DEF Stored

\* A new mutation joins the journal with the plan of its transaction.
LEMMA StoredInsertMutation ==
    ASSUME TypeOK, RunBound, Stored, run.stage = "claimed", InsertsMutation,
           row' = RowAdmitted, hold' = HoldPlan
    PROVE  Stored'
<1>1. /\ run.key \in Key /\ New /\ ~ClearanceRefused /\ run.req.kind = "mutation"
      /\ row[run.key].state = "none"
  BY DEF RunBound, InsertsMutation, New
<1>2. /\ \A k \in Key \ {run.key} : row'[k] = row[k]
      /\ row'[run.key].state = "received" /\ row'[run.key].req = run.req
      /\ row'[run.key].link = NoKey
  BY <1>1 DEF RowAdmitted, TypeOK
<1>3. \A k \in Key \ {run.key} : /\ OriginUncertain(k)' <=> OriginUncertain(k)
                                 /\ OriginBound(k)' <=> OriginBound(k)
  BY <1>2 DEF OriginUncertain, OriginBound, Mutating
<1>4. UncertainBound'
  BY <1>2, <1>3 DEF Stored, UncertainBound, OriginBound
<1>5. HeldUncertain'
  BY <1>1, <1>3, PlanHolds DEF HeldUncertain
<1>6. Alone'
  <2> SUFFICES ASSUME NEW j \in Key, NEW k \in Key, j # k, OriginUncertain(j)', OriginUncertain(k)',
                      (row[j].req.scope = row[k].req.scope)'
               PROVE  HoldPlan[j].state = "cleared" \/ HoldPlan[k].state = "cleared"
    BY DEF Alone
  <2>1. CASE j # run.key /\ k # run.key
    <3>1. hold[j].state = "cleared" \/ hold[k].state = "cleared"
      BY <1>2, <1>3, <2>1 DEF Stored, Alone
    <3> QED
      BY <1>1, <3>1, PlanHolds
  <2>2. ASSUME NEW x \in Key \ {run.key}, OriginUncertain(x), row[x].req.scope = run.req.scope
        PROVE  HoldPlan[x].state = "cleared"
    BY <1>1, <2>2, AdmissionClears DEF Conflicts
  <2>3. CASE j = run.key
    BY <1>2, <1>3, <2>2, <2>3
  <2>4. CASE k = run.key
    BY <1>2, <1>3, <2>2, <2>4
  <2> QED
    BY <2>1, <2>3, <2>4
<1>7. ClearanceBacked'
  <2> SUFFICES ASSUME NEW h \in Key, HoldPlan[h].state = "cleared"
               PROVE  /\ EligibleRead(h)'
                      /\ HoldPlan[h].by # NoKey
                      /\ Mutating(hold[h].by)'
                      /\ Conflicts(row[h].req.scope, row[hold[h].by].req.scope)'
    BY DEF ClearanceBacked
  <2>1. h # run.key /\ row'[h] = row[h]
    BY <1>1, <1>2, PlanHolds
  <2>2. EligibleRead(h) /\ HoldPlan[h].read = hold[h].read
    BY <1>1, PlanHolds DEF Stored, ClearanceBacked
  <2>3. EligibleRead(h)'
    <3>1. hold[h].read \in Key \ {run.key}
      BY <1>1, <2>2 DEF EligibleRead, TypeOK
    <3> QED
      BY <1>2, <2>2, <3>1 DEF EligibleRead
  <2>4. CASE hold[h].state = "cleared"
    <3>1. HoldPlan[h] = hold[h]
      BY <1>1, <2>4, PlanHolds
    <3>2. /\ hold[h].by \in Key \ {run.key} /\ Mutating(hold[h].by)
          /\ Conflicts(row[h].req.scope, row[hold[h].by].req.scope)
      BY <1>1, <2>4 DEF Stored, ClearanceBacked, Mutating, TypeOK
    <3> QED
      BY <1>2, <2>1, <2>3, <3>1, <3>2, NoKeyAssumption DEF Mutating, Conflicts
  <2>5. CASE hold[h].state # "cleared"
    <3>1. HoldPlan[h].by = run.key /\ Conflicts(run.req.scope, row[h].req.scope)
      BY <1>1, <2>5, PlanHolds
    <3>2. run.key # NoKey
      BY <1>1, NoKeyAssumption
    <3> QED
      BY <1>1, <1>2, <2>1, <2>3, <3>1, <3>2 DEF Mutating, Conflicts
  <2> QED
    BY <2>4, <2>5
<1> QED
  BY <1>4, <1>5, <1>6, <1>7 DEF Stored

\* A read joins the journal, or a refused mutation leaves its plan there.
LEMMA StoredOthers ==
    ASSUME TypeOK, RunBound, Stored, run.stage = "claimed", New, ~InsertsMutation,
           row' = RowAdmitted, hold' = HoldAdmitted
    PROVE  Stored'
<1>1. run.key \in Key /\ row[run.key].state = "none" /\ ~Mutating(run.key)
  BY DEF RunBound, New, Mutating
<1>2. /\ \A k \in Key \ {run.key} : row'[k] = row[k]
      /\ row'[run.key] = row[run.key] \/ row'[run.key].req.kind = "read"
  BY <1>1 DEF RowAdmitted, RefusesIndeterminate, InsertsRead, TypeOK
<1>3. row'[run.key].state = "none" \/ row'[run.key].req.kind # "mutation"
  BY <1>1, <1>2 DEF Mutating
<1>4. /\ \A k \in Key : OriginUncertain(k)' <=> OriginUncertain(k)
      /\ \A k \in Key : OriginBound(k)' <=> OriginBound(k)
  <2>1. \A k \in Key : Mutating(k)' <=> Mutating(k)
    BY <1>1, <1>2, <1>3 DEF Mutating
  <2>2. \A k \in Key : Mutating(k) => row'[k] = row[k]
    BY <1>1, <1>2
  <2> QED
    BY <2>1, <2>2 DEF OriginUncertain, OriginBound
<1>5. ASSUME NEW h \in Key
      PROVE  /\ hold[h].state = "cleared" <=> hold'[h].state = "cleared"
             /\ hold[h].state = "cleared" => hold'[h] = hold[h]
             /\ hold'[h].state # "none" => OriginUncertain(h)
  <2>1. CASE run.req.kind = "mutation" /\ ~ClearanceRefused
    <3>1. hold' = HoldPlan /\ Blocked
      BY <2>1 DEF HoldAdmitted, InsertsMutation
    <3> QED
      BY <1>1, <2>1, <3>1, PlanHolds
  <2>2. CASE ~(run.req.kind = "mutation" /\ ~ClearanceRefused)
    <3>1. hold' = hold
      BY <1>1, <2>2 DEF HoldAdmitted, RefusesIndeterminate
    <3> QED
      BY <3>1 DEF Stored, HeldUncertain
  <2> QED
    BY <2>1, <2>2
<1>6. HeldUncertain' /\ UncertainBound'
  BY <1>4, <1>5 DEF Stored, HeldUncertain, UncertainBound
<1>7. Alone'
  <2> SUFFICES ASSUME NEW j \in Key, NEW k \in Key, j # k, OriginUncertain(j), OriginUncertain(k),
                      (row[j].req.scope = row[k].req.scope)'
               PROVE  (hold[j].state = "cleared" \/ hold[k].state = "cleared")'
    BY <1>4 DEF Alone
  <2>1. row'[j] = row[j] /\ row'[k] = row[k]
    BY <1>1, <1>2 DEF OriginUncertain
  <2>2. hold[j].state = "cleared" \/ hold[k].state = "cleared"
    BY <2>1 DEF Stored, Alone
  <2> QED
    BY <1>5, <2>2
<1>8. ClearanceBacked'
  <2> SUFFICES ASSUME NEW h \in Key, hold'[h].state = "cleared"
               PROVE  /\ EligibleRead(h)'
                      /\ hold'[h].by # NoKey
                      /\ Mutating(hold[h].by)'
                      /\ Conflicts(row[h].req.scope, row[hold[h].by].req.scope)'
    BY DEF ClearanceBacked
  <2>1. hold'[h] = hold[h] /\ hold[h].state = "cleared"
    BY <1>5
  <2>2. /\ EligibleRead(h) /\ Mutating(hold[h].by) /\ hold[h].by # NoKey
        /\ Conflicts(row[h].req.scope, row[hold[h].by].req.scope)
    BY <2>1 DEF Stored, ClearanceBacked
  <2>3. hold[h].read \in Key \ {run.key} /\ hold[h].by \in Key \ {run.key}
    BY <1>1, <2>2 DEF EligibleRead, TypeOK
  <2>4. row'[h] = row[h]
    BY <1>1, <1>2, <1>5, <2>1 DEF OriginUncertain
  <2> QED
    BY <1>2, <2>1, <2>2, <2>3, <2>4 DEF EligibleRead, Mutating, Conflicts
<1> QED
  BY <1>6, <1>7, <1>8 DEF Stored

\* A row whose state becomes terminal, with its own hold if it is indeterminate: rule 4 of
\* the admission, and the decision.
LEMMA StoredTerminal ==
    ASSUME TypeOK, Stored, NEW k \in Key, row[k].state \in {"received", "executing"},
           \A j \in Key \ {k} : row'[j] = row[j],
           row'[k].req = row[k].req, row'[k].state \in Terminal,
           row'[k].link = IF row'[k].state = "indeterminate" THEN LinkOf(k) ELSE row[k].link,
           hold[k].state # "cleared", hold'[k].state # "cleared",
           row[k].req.kind = "mutation" => \A h \in ScopeHolds(row[k].req.scope) : h = k,
           Mutating(k) /\ row'[k].state \in {"completed", "guarded"} => hold'[k].state = "none",
           hold'[k].state # "none" => Mutating(k),
           \A h \in Key \ {k} : \/ hold'[h] = hold[h]
                                \/ hold[h].state = "active" /\ hold'[h].state = "evidence"
    PROVE  Stored'
<1>1. Mutating(k)' <=> Mutating(k)
  BY DEF Mutating, Terminal
<1>2. \A j \in Key : OriginUncertain(j)' => OriginUncertain(j)
  BY <1>1 DEF OriginUncertain, Mutating
<1>3. \A j \in Key \ {k} : OriginUncertain(j)' <=> OriginUncertain(j)
  BY DEF OriginUncertain, Mutating
<1>4. \A j \in Key \ {k} : OriginBound(j) => OriginBound(j)'
  BY <1>3 DEF OriginBound, Mutating
<1>5. Mutating(k) => row[k].link = NoKey /\ LinkOf(k) = k
  <2>1. Mutating(k) => OriginUncertain(k)
    BY DEF OriginUncertain
  <2>2. Mutating(k) => row[k].link = NoKey
    BY <2>1 DEF Stored, UncertainBound, OriginBound
  <2>3. Mutating(k) => LinkOf(k) = k
    BY LinkIsSelf DEF Mutating
  <2> QED
    BY <2>2, <2>3
<1>6. OriginUncertain(k)' => OriginBound(k)'
  <2>1. OriginUncertain(k)' => Mutating(k)
    BY <1>1 DEF OriginUncertain
  <2> QED
    BY <1>1, <1>5, <2>1 DEF OriginBound
<1>7. UncertainBound'
  BY <1>3, <1>4, <1>6 DEF Stored, UncertainBound
<1>8. HeldUncertain'
  <2>1. hold'[k].state # "none" => OriginUncertain(k)'
    BY <1>1 DEF OriginUncertain, Terminal
  <2>2. \A h \in Key \ {k} : hold'[h].state # "none" => OriginUncertain(h)
    BY DEF Stored, HeldUncertain
  <2> QED
    BY <1>3, <2>1, <2>2 DEF HeldUncertain
<1>9. \A h \in Key : /\ hold[h].state = "cleared" <=> hold'[h].state = "cleared"
                     /\ hold[h].state = "cleared" => hold'[h] = hold[h] /\ h # k
  OBVIOUS
<1>10. Alone'
  BY <1>2, <1>9 DEF Stored, Alone
<1>11. ClearanceBacked'
  <2> SUFFICES ASSUME NEW h \in Key, hold'[h].state = "cleared"
               PROVE  /\ EligibleRead(h)'
                      /\ hold'[h].by # NoKey
                      /\ Mutating(hold[h].by)'
                      /\ Conflicts(row[h].req.scope, row[hold[h].by].req.scope)'
    BY DEF ClearanceBacked
  <2>1. hold'[h] = hold[h] /\ hold[h].state = "cleared" /\ row'[h] = row[h]
    BY <1>9
  <2>2. /\ EligibleRead(h) /\ Mutating(hold[h].by) /\ hold[h].by # NoKey
        /\ Conflicts(row[h].req.scope, row[hold[h].by].req.scope)
    BY <2>1 DEF Stored, ClearanceBacked
  <2>3. hold[h].read \in Key \ {k} /\ hold[h].by \in Key
    BY <2>2 DEF EligibleRead, TypeOK
  <2>4. EligibleRead(h)'
    BY <2>1, <2>2, <2>3 DEF EligibleRead
  <2>5. row'[hold[h].by].req = row[hold[h].by].req /\ row'[hold[h].by].state # "none"
    BY <2>2, <2>3 DEF Mutating, Terminal
  <2> QED
    BY <2>1, <2>2, <2>4, <2>5 DEF Mutating, Conflicts
<1> QED
  BY <1>7, <1>8, <1>10, <1>11 DEF Stored

\* The admission transaction.
LEMMA StoredAdmission ==
    ASSUME HoldInv, run.stage = "claimed", row' = RowAdmitted, hold' = HoldAdmitted
    PROVE  Stored'
<1>1. TypeOK /\ RunBound /\ Stored /\ RunClear
  BY DEF HoldInv, IInv
<1>2. run.key \in Key /\ hold[run.key].state # "cleared"
  BY <1>1 DEF RunBound, RunClear
<1>3. CASE InsertsMutation
  <2>1. hold' = HoldPlan
    BY <1>3 DEF InsertsMutation, HoldAdmitted
  <2> QED
    BY <1>1, <1>3, <2>1, StoredInsertMutation
<1>4. CASE New /\ ~InsertsMutation
  BY <1>1, <1>4, StoredOthers
<1>5. CASE ~New /\ RefusesIndeterminate
  <2>1. /\ Mutating(run.key) /\ row[run.key].state \in {"received", "executing"}
        /\ row[run.key].req.kind = "mutation" /\ OriginUncertain(run.key)
    BY <1>5 DEF RefusesIndeterminate, OriginUncertain, Mutating
  <2>2. row' = [row EXCEPT ![run.key].state = "indeterminate", ![run.key].link = LinkOf(run.key)]
    BY <1>5 DEF RowAdmitted, InsertsMutation, InsertsRead
  <2>3. /\ \A j \in Key \ {run.key} : row'[j] = row[j]
        /\ row'[run.key].req = row[run.key].req /\ row'[run.key].state = "indeterminate"
        /\ row'[run.key].link = LinkOf(run.key)
    BY <1>1, <1>2, <2>2 DEF TypeOK
  <2>4. /\ hold' = hold \/ hold' = [hold EXCEPT ![run.key] = ActiveHold]
    BY <1>5 DEF HoldAdmitted
  <2>5. /\ \A h \in Key \ {run.key} : hold'[h] = hold[h]
        /\ hold'[run.key].state # "cleared"
    BY <1>1, <1>2, <2>4 DEF TypeOK, ActiveHold
  <2>6. ASSUME NEW h \in ScopeHolds(row[run.key].req.scope) PROVE h = run.key
    <3>1. h \in Key /\ hold[h].state \in {"active", "evidence"}
             /\ row[h].req.scope = row[run.key].req.scope
      BY DEF ScopeHolds, Uncleared
    <3>2. OriginUncertain(h)
      BY <1>1, <3>1 DEF Stored, HeldUncertain
    <3> QED
      BY <1>1, <1>2, <2>1, <3>1, <3>2 DEF Stored, Alone
  <2> QED
    BY <1>1, <1>2, <2>1, <2>3, <2>5, <2>6, StoredTerminal DEF Terminal
<1>6. CASE ~New /\ ~RefusesIndeterminate
  <2>1. row' = row /\ hold' = hold
    BY <1>6 DEF RowAdmitted, HoldAdmitted, InsertsMutation, InsertsRead
  <2> QED
    BY <1>1, <2>1, StoredStutter
<1> QED
  BY <1>3, <1>4, <1>5, <1>6

\* The decision.
LEMMA StoredDecision ==
    ASSUME HoldInv, run.stage = "answered", row' = RowDecided,
           NEW evidence \in {FALSE, MayBeEvidence}, hold' = HoldDecided(evidence)
    PROVE  Stored'
<1>1. TypeOK /\ RunBound /\ Stored /\ RunClear
  BY DEF HoldInv, IInv
<1>2. run.key \in Key /\ row[run.key].state = "executing" /\ row[run.key].req = run.req
  BY <1>1 DEF RunBound, Busy
<1>3. run.req \in Request /\ run.req.kind \in {"mutation", "read"}
  BY <1>1, RequestKinds DEF TypeOK
<1>4. Mutating(run.key) <=> run.req.kind = "mutation"
  BY <1>2 DEF Mutating
<1>5. hold[run.key].state = "none"
  <2>1. CASE run.req.kind = "mutation"
    BY <1>1, <2>1 DEF RunClear, Busy
  <2>2. CASE run.req.kind # "mutation"
    BY <1>1, <1>2, <1>4, <2>2 DEF Stored, HeldUncertain, OriginUncertain
  <2> QED
    BY <2>1, <2>2
<1>6. StateDecided \in Terminal
  BY Zenon, <1>1, <1>2, DecisionTypes
<1>7. /\ \A j \in Key \ {run.key} : row'[j] = row[j]
      /\ row'[run.key].req = row[run.key].req /\ row'[run.key].state = StateDecided
      /\ row'[run.key].link = IF StateDecided = "indeterminate" THEN LinkOf(run.key)
                              ELSE row[run.key].link
  BY <1>1, <1>2 DEF RowDecided, TypeOK
<1>8. run.req.kind = "mutation" => ScopeHolds(run.req.scope) = {}
  BY <1>1 DEF RunClear, Busy
<1>9. StateDecided = "indeterminate" => run.req.kind = "mutation"
  BY <1>3 DEF StateDecided
<1>10. evidence = FALSE \/ MayBeEvidence
  BY Zenon DEF MayBeEvidence
<1>11. \/ hold' = hold
       \/ StateDecided = "indeterminate" /\ hold' = [hold EXCEPT ![run.key] = ActiveHold]
       \/ /\ hold[run.req.verifies].state = "active" /\ run.req.verifies # NoKey
          /\ hold' = [hold EXCEPT ![run.req.verifies] =
                         [state |-> "evidence", read |-> run.key, by |-> NoKey]]
  BY <1>10 DEF HoldDecided, MayBeEvidence
<1>12. run.req.verifies # NoKey => run.req.verifies \in Key
  BY <1>3, RequestKinds
<1>13. /\ \A h \in Key \ {run.key} : \/ hold'[h] = hold[h]
                                     \/ hold[h].state = "active" /\ hold'[h].state = "evidence"
       /\ \/ hold'[run.key] = hold[run.key]
          \/ StateDecided = "indeterminate" /\ hold'[run.key] = ActiveHold
  BY <1>1, <1>2, <1>5, <1>11, <1>12 DEF TypeOK
<1>14. /\ hold'[run.key].state # "cleared"
       /\ StateDecided \in {"completed", "guarded"} => hold'[run.key].state = "none"
       /\ hold'[run.key].state # "none" => Mutating(run.key)
  BY <1>4, <1>5, <1>9, <1>13 DEF ActiveHold
<1> QED
  BY <1>1, <1>2, <1>5, <1>6, <1>7, <1>8, <1>13, <1>14, StoredTerminal

-----------------------------------------------------------------------------
(* The inductive invariant *)

\* The invariant holds initially.
LEMMA InitHoldInv == Init => HoldInv
<1> SUFFICES ASSUME Init PROVE HoldInv
  OBVIOUS
<1>1. \A k \in Key : row[k].state = "none" /\ hold[k].state = "none"
  BY DEF Init, NoRow, NoHold
<1>2. run.stage = "idle"
  BY DEF Init, Idle
<1>3. \A k \in Key : ~OriginUncertain(k)
  BY <1>1 DEF OriginUncertain, Mutating
<1>4. Stored
  BY <1>1, <1>3 DEF Stored, HeldUncertain, UncertainBound, Alone, ClearanceBacked
<1>5. RunClear
  BY <1>2 DEF RunClear, Busy
<1> QED
  BY <1>4, <1>5, InitIInv DEF HoldInv

\* An admitted mutation finds its scope free of holds.
LEMMA AdmitRunClear ==
    ASSUME HoldInv, Admit
    PROVE  RunClear'
<1>1. TypeOK /\ RunBound /\ Stored /\ run.stage = "claimed"
  BY DEF HoldInv, IInv, Admit
<1>2. run.key \in Key
  BY <1>1 DEF RunBound
<1>3. CASE ~Executes
  BY <1>3 DEF Admit, Idle, RunClear, Busy
<1>4. CASE Executes
  <2>1. run'.key = run.key /\ run'.req = run.req /\ run'.stage = "admitted"
    BY <1>1, <1>4 DEF Admit, TypeOK
  <2> SUFFICES ASSUME run.req.kind = "mutation"
               PROVE  hold'[run.key].state = "none" /\ ScopeHolds(run.req.scope)' = {}
    BY <2>1 DEF RunClear, Busy
  <2>2. InsertsMutation /\ New /\ ~ClearanceRefused /\ ~Blocked
    BY <1>4 DEF Executes, InsertsRead, InsertsMutation
  <2>3. hold' = HoldPlan
    BY <2>2 DEF Admit, HoldAdmitted
  <2>4. HoldPlan[run.key].state = "none"
    BY <1>1, <1>2, <2>2, PlanHolds
  <2>5. \A k \in Key \ {run.key} : row'[k] = row[k]
    BY <1>1, AdmissionRows DEF Admit
  <2>6. \A h \in Key : ~(Uncleared(h)' /\ row'[h].req.scope = run.req.scope)
    BY <2>2, <2>3, <2>4, <2>5 DEF Uncleared, Blocked, Conflicts
  <2> QED
    BY <2>1, <2>3, <2>4, <2>6 DEF ScopeHolds
<1> QED
  BY <1>3, <1>4

\* A run that goes on while holds and requests stay as they are keeps its scope free.
LEMMA RunStaysClear ==
    ASSUME RunClear, hold' = hold, run'.key = run.key, run'.req = run.req,
           \A k \in Key : row'[k].req = row[k].req,
           \/ run'.stage = run.stage
           \/ run.stage \in Busy \cup {"admitted"} /\ run'.stage \in Busy
    PROVE  RunClear'
<1>1. ScopeHolds(run.req.scope)' = ScopeHolds(run.req.scope)
  BY DEF ScopeHolds, Uncleared
<1> QED
  BY <1>1 DEF RunClear, Busy

\* Every step keeps the invariant.
LEMMA StepHoldInv == HoldInv /\ [Next]_vars => HoldInv'
<1> SUFFICES ASSUME HoldInv, [Next]_vars PROVE HoldInv'
  OBVIOUS
<1>1. IInv'
  BY StepIInv DEF HoldInv
<1>2. TypeOK /\ RunBound /\ Stored /\ RunClear
  BY DEF HoldInv, IInv
<1> SUFFICES Stored' /\ RunClear'
  BY <1>1 DEF HoldInv
<1>3. ASSUME run' = Idle PROVE RunClear'
  BY <1>3 DEF Idle, RunClear, Busy
<1>4. CASE UNCHANGED <<row, hold, run>>
  BY <1>2, <1>4, StoredStutter, RunStaysClear
<1>5. CASE \E k \in Key : Deliver(k)
  <2>1. PICK k \in Key : Deliver(k)
    BY <1>5
  <2>2. UNCHANGED <<row, hold>> /\ hold[k].state # "cleared"
    BY <2>1 DEF Deliver
  <2>3. run'.key = k /\ run'.stage = "claimed"
    BY <2>1 DEF Deliver, Idle
  <2> QED
    BY <1>2, <2>2, <2>3, StoredStutter DEF RunClear, Busy
<1>6. CASE Admit
  BY <1>6, StoredAdmission, AdmitRunClear DEF Admit
<1>7. CASE TakeOwnership
  <2>1. run.stage = "admitted" /\ run.key \in Key /\ hold' = hold
        /\ row[run.key].state \in {"received", "executing"}
    BY <1>2, <1>7 DEF TakeOwnership, RunBound
  <2>2. run'.key = run.key /\ run'.req = run.req /\ run'.stage = "owned"
    BY <1>2, <1>7 DEF TakeOwnership, TypeOK
  <2>3. \A k \in Key : /\ row'[k].req = row[k].req /\ row'[k].link = row[k].link
                       /\ \/ row'[k].state = row[k].state
                          \/ row[k].state \in {"received", "executing"} /\ row'[k].state = "executing"
    BY <1>2, <1>7, <2>1 DEF TakeOwnership, TypeOK
  <2> QED
    BY <1>2, <2>1, <2>2, <2>3, StoredStutter, RunStaysClear DEF Busy
<1>8. CASE FailBeforeSend \/ Send \/ AddinAnswer
  <2>1. UNCHANGED <<row, hold>> /\ run.stage \in Busy
    BY ZenonT(60), <1>8 DEF FailBeforeSend, Send, AddinAnswer, Busy
  <2>2. run'.key = run.key /\ run'.req = run.req /\ run'.stage \in Busy
    BY Zenon, <1>2, <1>8 DEF FailBeforeSend, Send, AddinAnswer, Busy, TypeOK
  <2> QED
    BY <1>2, <2>1, <2>2, StoredStutter, RunStaysClear
<1>9. CASE Decide
  <2>1. PICK evidence \in {FALSE, MayBeEvidence} : hold' = HoldDecided(evidence)
    BY Zenon, <1>9 DEF Decide
  <2> QED
    BY Zenon, <1>3, <1>9, <2>1, StoredDecision DEF Decide
<1>10. CASE Cancelled \/ ProbeCancelled \/ Crash
  <2>1. run' = Idle /\ UNCHANGED <<row, hold>>
    BY <1>10 DEF Cancelled, ProbeCancelled, Crash
  <2> QED
    BY <1>2, <1>3, <2>1, StoredStutter
<1>11. CASE JournalFault
  <2> SUFFICES Stored'
    BY <1>3, <1>11 DEF JournalFault
  <2>1. CASE UNCHANGED <<row, hold>>
    BY <1>2, <2>1, StoredStutter
  <2>2. CASE run.stage = "claimed" /\ row' = RowAdmitted /\ hold' = HoldAdmitted
    BY <2>2, StoredAdmission
  <2>3. CASE /\ run.stage = "admitted" /\ hold' = hold
             /\ row' = [row EXCEPT ![run.key].state = "executing"]
    <3>1. run.key \in Key /\ row[run.key].state \in {"received", "executing"}
      BY <1>2, <2>3 DEF RunBound
    <3>2. \A k \in Key : /\ row'[k].req = row[k].req /\ row'[k].link = row[k].link
                         /\ \/ row'[k].state = row[k].state
                            \/ row[k].state \in {"received", "executing"} /\ row'[k].state = "executing"
      BY <1>2, <2>3, <3>1 DEF TypeOK
    <3> QED
      BY <1>2, <2>3, <3>2, StoredStutter
  <2>4. CASE /\ run.stage = "answered" /\ row' = RowDecided
             /\ \E evidence \in {FALSE, MayBeEvidence} : hold' = HoldDecided(evidence)
    BY Zenon, <2>4, StoredDecision
  <2> QED
    BY Zenon, <1>11, <2>1, <2>2, <2>3, <2>4 DEF JournalFault
<1>12. CASE Reconnect
  <2>1. run' = Idle /\ hold' = hold
    BY <1>12 DEF Reconnect
  <2>2. \A k \in Key : /\ row'[k].req = row[k].req /\ row'[k].link = row[k].link
                       /\ row'[k].state = row[k].state
    BY <1>2, <1>12 DEF Reconnect, TypeOK
  <2> QED
    BY <1>2, <1>3, <2>1, <2>2, StoredStutter
<1> QED
  BY <1>4, <1>5, <1>6, <1>7, <1>8, <1>9, <1>10, <1>11, <1>12 DEF Next, EndCycle, vars

-----------------------------------------------------------------------------
(* Theorems *)

\* Whatever is written to the origin's row or to the hold, in any order with faults and
\* crashes, every retained hold passes ValidateStoredLegacyHold: the journal never takes
\* itself for corrupt.
THEOREM HoldsStayValid == Spec => []StoredHoldsValid
<1>1. HoldInv => StoredHoldsValid
  BY DEF HoldInv, Stored, HeldUncertain, UncertainBound, ClearanceBacked, StoredHoldsValid,
         StoredHoldValid
<1> QED
  BY <1>1, InitHoldInv, StepHoldInv, PTL DEF Spec

\* A cleared hold keeps its completed verification read and the admitted mutation that
\* ApplyClearancePlan cleared it for.
THEOREM ClearanceKeepsEvidence == Spec => []ClearanceBacked
<1>1. HoldInv => ClearanceBacked
  BY DEF HoldInv, Stored
<1> QED
  BY <1>1, InitHoldInv, StepHoldInv, PTL DEF Spec

\* Two mutations of one scope are never both of unknown effect with neither cleared: the
\* journal admits the later one only once the earlier is settled.
THEOREM OneUncertainOrigin == Spec => []Alone
<1>1. HoldInv => Alone
  BY DEF HoldInv, Stored
<1> QED
  BY <1>1, InitHoldInv, StepHoldInv, PTL DEF Spec
=============================================================================
