------------------------ MODULE GatewayRecoveryProofs ------------------------
(***************************************************************************)
(* Proofs about GatewayRecovery for any number of attempts, documents, Gateway  *)
(* processes and faults: the window is exclusive, every stored record can be    *)
(* read again, a dispatch crosses no foreign hold, an indeterminate mutation is  *)
(* held until it is verified, a confirmation is consumed once, and a recorded    *)
(* outcome stays.                                                            *)
(*                                                                         *)
(* One section for each remaining conjunct of the inductive invariant Inv, from  *)
(* what GatewayRecoveryStepProofs shows of each step.                        *)
(***************************************************************************)
EXTENDS GatewayRecoveryStepProofs

\* With or without a conflict, the admitted mutation is what is pending.
LEMMA MutationPending ==
    ASSUME Inv, NEW a \in Attempt, MutationAdmitted(a)
    PROVE  \E I, cs : record'.pending = Pending(a, "mutation", I, cs)
<1>1. \/ record'.pending = Pending(a, "mutation", {}, {})
      \/ \E I \in SUBSET Id : record'.pending = Pending(a, "mutation", I, att[a].clearances)
  BY Zenon, MutationFields DEF Fields
<1> QED
  BY Zenon, <1>1

-----------------------------------------------------------------------------
(* The ledger                                                               *)

HoldsCleared(a) ==
    \E F : /\ Clears(record.holds, F, a)
           /\ \A g \in record.holds : F[g] # g => evidence[a].accepted
           /\ record'.holds = Image(record.holds, F)

HoldsInstalled(a) ==
    /\ Own(a) /\ record.pending.kind = "mutation"
    /\ a \in Retained' /\ evidence[a].accepted
    /\ \E F : /\ Clears(record.holds, F, a)
              /\ Image(record.holds, F) \subseteq record'.holds
              /\ \A g \in record'.holds : \/ g \in Image(record.holds, F)
                                          \/ g \in candidateHolds(mutationEntries(a))

HoldsConcluded ==
    \E F : \E g \in record.holds, e \in Evidence :
        /\ KeepsIds(record.holds, F)
        /\ \A x \in record.holds : F[x] = EvidenceOn(x, holdId(g), e)
        /\ OpenToEvidence(g) /\ record'.holds = Image(record.holds, F)
        /\ e.basis = "verification_read" =>
              /\ e.by \in Attempt /\ evidence[e.by].journal = "known_terminal"
              /\ \E i \in Indices' : /\ record'.history[i].envelope = e.by
                                     /\ holdId(g) \in record'.history[i].holdIds
        /\ e.basis = "late_terminal" /\ Conclusive(e) => g.origins = {e.by}

HoldsResolved(a) ==
    /\ record'.plan = NoPlan
    /\ \E F : /\ Resolves(record.holds, F, record.plan.clearances, a)
              /\ record'.holds = Image(record.holds, F)

\* The plan is kept, or one is stored for a hold that has its evidence.
PlansOn ==
    \/ record'.plan = record.plan
    \/ \E h \in record.holds, a \in Attempt :
          h.state = "evidence_recorded" /\ record'.plan.clearances = {Clearance(h, a)}

\* The ways in which a step changes the ledger and the plan.
LEMMA LedgerSteps ==
    ASSUME Inv, Next
    PROVE  \/ record'.holds = record.holds /\ PlansOn
           \/ HoldsConcluded /\ ~HasPlan /\ record'.plan = record.plan
           \/ \E a \in Attempt :
                 \/ HoldsCleared(a) /\ Own(a) /\ record'.plan = record.plan
                 \/ HoldsInstalled(a) /\ record'.plan = record.plan
                 \/ HoldsResolved(a) /\ MutationAdmitted(a)
<1> TypeOK /\ record.history \in Seq(Outcome) /\ record.holds \in SUBSET Hold
  BY RecordFacts DEF Inv
<1>1. ASSUME NEW a \in Attempt, RecordStep(a)
      PROVE  \/ record'.holds = record.holds /\ PlansOn
             \/ HoldsConcluded /\ ~HasPlan /\ record'.plan = record.plan
             \/ HoldsCleared(a) /\ Own(a) /\ record'.plan = record.plan
             \/ HoldsInstalled(a) /\ record'.plan = record.plan
             \/ HoldsResolved(a) /\ MutationAdmitted(a)
  <2>1. CASE Acquired(a) \/ Released(a)
    BY <2>1, WindowFields DEF Fields, PlansOn
  <2>2. CASE MutationAdmitted(a)
    <3>1. CASE Fields(record.window, record.holds, record.plan,
                      Pending(a, "mutation", {}, {}), record.history)
      BY <3>1 DEF Fields, PlansOn
    <3>2. CASE \E F : \E I \in SUBSET Id :
                 /\ Resolves(record.holds, F, record.plan.clearances, a)
                 /\ Fields(record.window, Image(record.holds, F), NoPlan,
                           Pending(a, "mutation", I, att[a].clearances), record.history)
      BY <2>2, <3>2 DEF Fields, HoldsResolved
    <3> QED
      BY <2>2, <3>1, <3>2, MutationFields
  <2>3. CASE VerificationAdmitted(a)
    BY <2>3, VerificationFields DEF Fields, PlansOn
  <2>4. CASE RedeliveryAdmitted(a)
    BY <2>4, RedeliveryFields DEF Fields, PlansOn
  <2>5. CASE TerminalClosed(a)
    <3>1. PICK F, h : /\ Clears(record.holds, F, a)
                      /\ \A g \in record.holds : F[g] # g => evidence[a].accepted
                      /\ Closing(a, Image(record.holds, F), h)
      BY <2>5, TerminalFields
    <3>2. Own(a)
      BY <2>5 DEF TerminalClosed
    <3> QED
      BY <3>1, <3>2 DEF Closing, Fields, HoldsCleared
  <2>6. CASE AcceptanceRecorded(a)
    <3>1. PICK F : \E p \in Dispatch :
              /\ Clears(record.holds, F, a) /\ evidence[a].accepted
              /\ Fields(record.window, Image(record.holds, F), record.plan, p, record.history)
      BY <2>6, AcceptanceFields
    <3>2. Own(a)
      BY <2>6 DEF AcceptanceRecorded
    <3> QED
      BY <3>1, <3>2 DEF Fields, HoldsCleared
  <2>7. CASE ReadRecorded(a)
    BY <2>7, ReadFields DEF Fields, PlansOn
  <2>8. CASE LateClosed(a)
    <3>1. PICK F, H : /\ Clears(record.holds, F, a) /\ evidence[a].accepted
                      /\ Fields(record.window, Image(record.holds, F), record.plan,
                                NoDispatch, H)
      BY <2>8, LateFields
    <3>2. Own(a)
      BY <2>8 DEF LateClosed
    <3> QED
      BY <3>1, <3>2 DEF Fields, HoldsCleared
  <2>9. CASE IndeterminateClosed(a)
    <3>1. PICK F, L, h :
               /\ Clears(record.holds, F, a) /\ evidence[a].accepted
               /\ Image(record.holds, F) \subseteq L
               /\ \A g \in L : \/ g \in Image(record.holds, F)
                               \/ g \in candidateHolds(mutationEntries(a))
               /\ Closing(a, L, h)
      BY <2>9, IndeterminateFields
    <3>2. Own(a) /\ record.pending.kind \notin {"redelivery", "verification"}
      BY <2>9 DEF IndeterminateClosed
    <3>3. record.pending.kind = "mutation"
      BY <3>2, OwnPending
    <3>4. /\ record'.holds = L /\ record'.plan = record.plan /\ h \in Outcome
          /\ record'.history = Append(record.history, h) /\ h.envelope = a
      BY <3>1 DEF Closing, Fields
    <3>5. a \in Retained'
      BY <3>4, AppendedHistory DEF Retained, Indices
    <3> QED
      BY <3>1, <3>2, <3>3, <3>4, <3>5 DEF HoldsInstalled
  <2>10. CASE RedeliveryClosed(a)
    BY <2>10, RedeliveryClosedFields DEF Closing, Fields, PlansOn
  <2>11. CASE Concluded(a)
    <3>1. PICK F, h : \E g \in record.holds, e \in Evidence :
               /\ KeepsIds(record.holds, F)
               /\ \A x \in record.holds : F[x] = EvidenceOn(x, holdId(g), e)
               /\ OpenToEvidence(g) /\ e.basis = "verification_read" /\ e.by = a
               /\ holdId(g) \in h.holdIds
               /\ Closing(a, Image(record.holds, F), h)
      BY ZenonT(60), <2>11, ConcludedFields
    <3>2. PICK g \in record.holds, e \in Evidence :
               /\ KeepsIds(record.holds, F)
               /\ \A x \in record.holds : F[x] = EvidenceOn(x, holdId(g), e)
               /\ OpenToEvidence(g) /\ e.basis = "verification_read" /\ e.by = a
               /\ holdId(g) \in h.holdIds
               /\ Closing(a, Image(record.holds, F), h)
      BY <3>1
    <3>3. /\ Own(a) /\ record.pending.kind = "verification"
          /\ record.pending.journal = "known_terminal"
      BY <2>11 DEF Concluded
    <3>4. ~HasPlan /\ evidence[a].journal = "known_terminal"
      BY <3>3 DEF Inv, PlanInv
    <3>5. /\ record'.holds = Image(record.holds, F) /\ record'.plan = record.plan
          /\ record'.history = Append(record.history, h) /\ h.envelope = a /\ h \in Outcome
      BY <3>2 DEF Closing, Fields
    <3>6. \E i \in Indices' : /\ record'.history[i].envelope = e.by
                              /\ holdId(g) \in record'.history[i].holdIds
      BY <3>2, <3>5, AppendedHistory DEF Indices
    <3>7. HoldsConcluded
      BY ZenonT(60), <3>2, <3>4, <3>5, <3>6 DEF HoldsConcluded
    <3> QED
      BY <3>4, <3>5, <3>7
  <2>12. CASE PlanStored(a)
    BY <2>12, PlanFields DEF Fields, PlansOn
  <2> QED
    BY <1>1, <2>1, <2>2, <2>3, <2>4, <2>5, <2>6, <2>7, <2>8, <2>9, <2>10, <2>11, <2>12
       DEF RecordStep
<1>2. CASE LateEvidence
  <2>1. PICK F : \E g \in record.holds, e \in Evidence :
                 /\ KeepsIds(record.holds, F)
                 /\ \A x \in record.holds : F[x] = EvidenceOn(x, holdId(g), e)
                 /\ OpenToEvidence(g) /\ e.basis = "late_terminal"
                 /\ Conclusive(e) => g.origins = {e.by}
                 /\ Fields(record.window, Image(record.holds, F), record.plan, record.pending,
                           record.history)
    BY Zenon, <1>2, LateEvidenceFields
  <2>2. HoldsConcluded /\ record'.plan = record.plan
    BY <2>1 DEF HoldsConcluded, Fields
  <2> QED
    BY <1>2, <2>2, LateEvidenceFields
<1> QED
  BY <1>1, <1>2, NextCases DEF Effect, Aside, PlansOn

\* What the evidence of a hold rests on is never taken back.
LEMMA GroundedKept ==
    ASSUME Inv, Next, NEW g \in Hold, Grounded(g), NEW h \in Hold,
           holdId(h) = holdId(g), h.evidence = g.evidence
    PROVE  Grounded(h)'
<1>1. h.origins = g.origins
  BY DEF holdId
<1>2. ASSUME h.evidence.basis = "verification_read"
      PROVE  /\ h.evidence.by \in Attempt
             /\ evidence'[h.evidence.by].journal = "known_terminal"
             /\ \E i \in Indices' : /\ record'.history[i].envelope = h.evidence.by
                                    /\ holdId(h) \in record'.history[i].holdIds
  BY <1>2, HistoryKept, NextCases DEF Grounded, KeepsHistory, Indices, EvidenceGrows
<1> QED
  BY <1>1, <1>2 DEF Grounded

\* A hold that moves on with the evidence it has.
LEMMA HoldMoves ==
    ASSUME Inv, Next, NEW g \in Hold, HoldOK(g), NEW h \in Hold,
           holdId(h) = holdId(g), h.evidence = g.evidence, Agrees(h),
           h.state # "active" => g.state # "active",
           h.state = "cleared" => h.clearedBy \in Attempt /\ evidence[h.clearedBy].accepted
    PROVE  HoldOK(h)'
<1>1. h.origins = g.origins /\ h.scope = g.scope
  BY DEF holdId
<1>2. \A k \in h.origins : k[1] \in Retained'
  BY <1>1, HistoryKept DEF HoldOK
<1>3. h.state = "cleared" => evidence'[h.clearedBy].accepted
  BY NextCases DEF EvidenceGrows
<1>4. h.state # "active" => Grounded(h)'
  BY GroundedKept DEF HoldOK
<1>5. Agrees(h)'
  BY DEF Agrees
<1> QED
  BY <1>2, <1>3, <1>4, <1>5 DEF HoldOK

\* A hold that a step leaves alone stays sound.
LEMMA HoldStays ==
    ASSUME Inv, Next, NEW h \in record.holds
    PROVE  HoldOK(h)'
<1>1. h \in Hold /\ HoldOK(h)
  BY RecordFacts DEF Inv, HoldsInv
<1>2. h.state = "cleared" => h.clearedBy \in Attempt /\ evidence[h.clearedBy].accepted
  BY <1>1 DEF HoldOK, Agrees, Hold
<1> QED
  BY <1>1, <1>2, HoldMoves DEF HoldOK

\* A hold that is cleared was resolved for the accepted envelope.
LEMMA ClearedOK ==
    ASSUME Inv, Next, NEW a \in Attempt, NEW F, Clears(record.holds, F, a),
           \A g \in record.holds : F[g] # g => evidence[a].accepted,
           NEW h \in Image(record.holds, F)
    PROVE  HoldOK(h)'
<1>1. PICK g \in record.holds : h = F[g]
  BY DEF Image
<1>2. CASE h = g
  BY <1>2, HoldStays
<1>3. CASE h # g
  <2>1. g \in Hold /\ HoldOK(g)
    BY RecordFacts DEF Inv, HoldsInv
  <2>2. /\ g.state = "resolved_pending_bridge" /\ g.authorized = a
        /\ h = ClearedFor(g, a) /\ evidence[a].accepted
    BY <1>1, <1>3 DEF Clears
  <2>3. /\ h \in Hold /\ holdId(h) = holdId(g) /\ h.state = "cleared" /\ h.clearedBy = a
        /\ h.authorized = g.authorized /\ h.evidence = g.evidence
    BY <2>1, <2>2, ClearedForType
  <2>4. Agrees(h)
    BY <2>1, <2>2, <2>3 DEF HoldOK, Agrees
  <2> QED
    BY <2>1, <2>2, <2>3, <2>4, HoldMoves
<1> QED
  BY <1>2, <1>3

\* The holds of an indeterminate dispatch start sound.
LEMMA CandidateOK ==
    ASSUME Inv, Next, NEW a \in Attempt, a \in Retained', origin(a) = a,
           NEW h \in candidateHolds(mutationEntries(a))
    PROVE  HoldOK(h)' /\ h \in Hold
<1>1. /\ h \in Hold /\ h = NewHold(h.scope, h.origins)
      /\ h.origins \subseteq keys(a)
  BY RequestFacts, CandidatesType DEF Inv
<1>2. /\ h.state = "active" /\ h.evidence = None /\ h.authorized = None
      /\ h.clearedBy = None
  BY <1>1 DEF NewHold
<1>3. \A k \in h.origins : k[1] \in Retained'
  BY <1>1 DEF keys
<1>4. Agrees(h)'
  BY <1>2 DEF Agrees
<1> QED
  BY <1>1, <1>2, <1>3, <1>4 DEF HoldOK

\* A hold that the plan names has the evidence of its clearance.
LEMMA PlannedHold ==
    ASSUME Inv, NEW h \in record.holds, NEW c \in record.plan.clearances,
           c.holdId = holdId(h)
    PROVE  h.state = "evidence_recorded" /\ h.evidence = c.evidence
<1>1. PICK g \in record.holds :
          /\ holdId(g) = c.holdId /\ g.state = "evidence_recorded"
          /\ g.evidence = c.evidence
  BY DEF Inv, PlanInv, Resolvable, findExactHold
<1>2. g = h
  BY <1>1 DEF Inv, HoldsInv, UniqueIds
<1> QED
  BY <1>1, <1>2

\* A hold that is resolved for an envelope keeps the evidence it was planned with.
LEMMA ResolvedOK ==
    ASSUME Inv, Next, NEW a \in Attempt, NEW F,
           Resolves(record.holds, F, record.plan.clearances, a),
           NEW h \in Image(record.holds, F)
    PROVE  HoldOK(h)'
<1>1. PICK g \in record.holds : h = F[g]
  BY DEF Image
<1>2. CASE ~Named(g, record.plan.clearances)
  BY <1>1, <1>2, HoldStays DEF Resolves
<1>3. CASE Named(g, record.plan.clearances)
  <2>1. g \in Hold /\ HoldOK(g) /\ g.state = "evidence_recorded"
    BY <1>3, PlannedHold, RecordFacts DEF Inv, HoldsInv, Named
  <2>2. PICK r \in Attempt : h = ResolvedFor(g, r, a)
    BY <1>1, <1>3 DEF Resolves
  <2>3. /\ h \in Hold /\ holdId(h) = holdId(g) /\ h.state = "resolved_pending_bridge"
        /\ h.authorized = a /\ h.evidence = g.evidence /\ h.clearedBy = g.clearedBy
    BY <2>1, <2>2, ResolvedForType
  <2>4. Agrees(h)
    BY <2>1, <2>3, NoneAssumption DEF HoldOK, Agrees
  <2> QED
    BY <2>1, <2>3, <2>4, HoldMoves
<1> QED
  BY <1>2, <1>3

\* Evidence goes to one open hold, and is grounded.
LEMMA ConcludedOK ==
    ASSUME Inv, Next, HoldsConcluded
    PROVE  UniqueIds(record'.holds) /\ \A h \in record'.holds : HoldOK(h)'
<1> record.holds \in SUBSET Hold /\ UniqueIds(record.holds)
  BY RecordFacts DEF Inv, HoldsInv
<1>1. PICK F : \E g \in record.holds, e \in Evidence :
        /\ KeepsIds(record.holds, F)
        /\ \A x \in record.holds : F[x] = EvidenceOn(x, holdId(g), e)
        /\ OpenToEvidence(g) /\ record'.holds = Image(record.holds, F)
        /\ e.basis = "verification_read" =>
              /\ e.by \in Attempt /\ evidence[e.by].journal = "known_terminal"
              /\ \E i \in Indices' : /\ record'.history[i].envelope = e.by
                                     /\ holdId(g) \in record'.history[i].holdIds
        /\ e.basis = "late_terminal" /\ Conclusive(e) => g.origins = {e.by}
  BY DEF HoldsConcluded
<1>2. PICK g \in record.holds, e \in Evidence :
        /\ KeepsIds(record.holds, F)
        /\ \A x \in record.holds : F[x] = EvidenceOn(x, holdId(g), e)
        /\ OpenToEvidence(g) /\ record'.holds = Image(record.holds, F)
        /\ e.basis = "verification_read" =>
              /\ e.by \in Attempt /\ evidence[e.by].journal = "known_terminal"
              /\ \E i \in Indices' : /\ record'.history[i].envelope = e.by
                                     /\ holdId(g) \in record'.history[i].holdIds
        /\ e.basis = "late_terminal" /\ Conclusive(e) => g.origins = {e.by}
  BY <1>1
<1>3. UniqueIds(record'.holds)
  BY <1>2, ImageUnique
<1>4. ASSUME NEW h \in record'.holds PROVE HoldOK(h)'
  <2>1. PICK x \in record.holds : h = EvidenceOn(x, holdId(g), e)
    BY <1>2, <1>4 DEF Image
  <2>2. CASE h = x
    BY <2>2, HoldStays
  <2>3. CASE h # x
    <3>1. /\ holdId(x) = holdId(g) /\ Conclusive(e)
          /\ h = [x EXCEPT !.state = "evidence_recorded", !.evidence = e]
      BY <2>1, <2>3 DEF EvidenceOn
    <3>2. x = g
      BY <3>1 DEF UniqueIds
    <3>3. g \in Hold /\ HoldOK(g) /\ OpenToEvidence(g)
      BY <1>2 DEF Inv, HoldsInv
    <3>4. /\ h.state = "evidence_recorded" /\ h.evidence = e /\ h.authorized = g.authorized
          /\ h.clearedBy = g.clearedBy /\ h.origins = g.origins /\ h.scope = g.scope
      BY <3>1, <3>2, <3>3 DEF Hold
    <3>5. e # None
      BY NoneAssumption
    <3>6. Agrees(h)'
      BY <3>1, <3>3, <3>4, <3>5 DEF HoldOK, Agrees, OpenToEvidence
    <3>7. holdId(h) = holdId(g)
      BY <3>4 DEF holdId
    <3>8. e.basis = "verification_read" => evidence'[e.by].journal = "known_terminal"
      BY <1>2, NextCases DEF EvidenceGrows
    <3>9. Grounded(h)'
      BY <1>2, <3>1, <3>4, <3>7, <3>8 DEF Grounded
    <3>10. \A k \in h.origins : k[1] \in Retained'
      BY <3>3, <3>4, HistoryKept DEF HoldOK
    <3> QED
      BY <3>4, <3>6, <3>9, <3>10 DEF HoldOK
  <2> QED
    BY <2>2, <2>3
<1> QED
  BY <1>3, <1>4

\* Every step preserves HoldsInv.
LEMMA HoldsStep ==
    ASSUME Inv, Next
    PROVE  HoldsInv'
<1> record.holds \in SUBSET Hold /\ UniqueIds(record.holds) /\ TypeOK
  BY RecordFacts DEF Inv, HoldsInv
<1>0. SUFFICES UniqueIds(record'.holds) /\ \A h \in record'.holds : HoldOK(h)'
  BY DEF HoldsInv, UniqueIds
<1>1. CASE record'.holds = record.holds
  BY <1>1, HoldStays
<1>2. CASE HoldsConcluded
  BY <1>2, ConcludedOK
<1>3. ASSUME NEW a \in Attempt, HoldsCleared(a)
      PROVE  UniqueIds(record'.holds) /\ \A h \in record'.holds : HoldOK(h)'
  BY <1>3, ClearedOK, ImageUnique DEF HoldsCleared, Clears
<1>4. ASSUME NEW a \in Attempt, HoldsResolved(a)
      PROVE  UniqueIds(record'.holds) /\ \A h \in record'.holds : HoldOK(h)'
  BY <1>4, ResolvedOK, ImageUnique DEF HoldsResolved, Resolves
<1>5. ASSUME NEW a \in Attempt, HoldsInstalled(a)
      PROVE  UniqueIds(record'.holds) /\ \A h \in record'.holds : HoldOK(h)'
  <2>1. PICK F : /\ Clears(record.holds, F, a)
                 /\ \A g \in record'.holds : \/ g \in Image(record.holds, F)
                                             \/ g \in candidateHolds(mutationEntries(a))
    BY <1>5 DEF HoldsInstalled
  <2>2. /\ Own(a) /\ record.pending.kind = "mutation" /\ a \in Retained'
        /\ evidence[a].accepted
    BY <1>5 DEF HoldsInstalled
  <2>3. a \notin Retained /\ origin(a) = a
    BY <2>2, OwnPending, FirstHand DEF Inv, DispatchInv, AsRequested
  <2>4. \A h \in record'.holds : HoldOK(h)'
    BY <2>1, <2>2, <2>3, ClearedOK, CandidateOK
  <2>5. ASSUME NEW g \in candidateHolds(mutationEntries(a)), NEW h \in Image(record.holds, F)
        PROVE  holdId(g) # holdId(h)
    <3>1. g.origins # {} /\ g.origins \subseteq keys(a)
      BY ZenonT(60), RequestFacts, CandidatesType
    <3>2. PICK x \in record.holds : h = F[x]
      BY DEF Image
    <3>3. holdId(h) = holdId(x)
      BY <2>1, <3>2 DEF Clears, KeepsIds
    <3>4. h.origins = x.origins
      BY <3>3 DEF holdId
    <3>5. \A k \in keys(a) : k \notin x.origins
      BY <2>3, NoHoldYet
    <3>6. g.origins # h.origins
      BY <3>1, <3>4, <3>5
    <3> QED
      BY <3>6 DEF holdId
  <2>6. ASSUME NEW g \in candidateHolds(mutationEntries(a)),
               NEW h \in candidateHolds(mutationEntries(a)), holdId(g) = holdId(h)
        PROVE  g = h
    <3>1. g = NewHold(g.scope, g.origins) /\ h = NewHold(h.scope, h.origins)
      BY RequestFacts, CandidatesType
    <3>2. g.scope = h.scope /\ g.origins = h.origins
      BY <2>6 DEF holdId
    <3> QED
      BY <3>1, <3>2
  <2>7. UniqueIds(Image(record.holds, F))
    BY <2>1, ImageUnique DEF Clears
  <2>8. UniqueIds(record'.holds)
    BY <2>1, <2>5, <2>6, <2>7 DEF UniqueIds
  <2> QED
    BY <2>4, <2>8
<1> QED
  BY <1>1, <1>2, <1>3, <1>4, <1>5, LedgerSteps

\* Clearing other holds leaves the planned ones resolvable.
LEMMA ClearancesKept ==
    ASSUME Inv, NEW F, NEW a \in Attempt, Clears(record.holds, F, a), NEW L,
           Image(record.holds, F) \subseteq L, NEW c \in record.plan.clearances
    PROVE  Resolvable(L, c)
<1>1. PICK h \in record.holds :
          /\ holdId(h) = c.holdId /\ h.state = "evidence_recorded"
          /\ h.evidence = c.evidence
  BY DEF Inv, PlanInv, Resolvable, findExactHold
<1>2. F[h] = h
  BY <1>1 DEF Clears
<1>3. h \in L
  BY <1>2 DEF Image
<1> QED
  BY <1>1, <1>3 DEF Resolvable, findExactHold

\* After every step the plan names holds that are still at their evidence.
LEMMA PlanResolvable ==
    ASSUME Inv, Next
    PROVE  \A c \in record'.plan.clearances : Resolvable(record'.holds, c)
<1>1. CASE record'.holds = record.holds /\ PlansOn
  <2>1. CASE record'.plan = record.plan
    BY <1>1, <2>1 DEF Inv, PlanInv
  <2>2. CASE \E h \in record.holds, a \in Attempt :
                h.state = "evidence_recorded" /\ record'.plan.clearances = {Clearance(h, a)}
    <3>1. PICK h \in record.holds, a \in Attempt :
              h.state = "evidence_recorded" /\ record'.plan.clearances = {Clearance(h, a)}
      BY <2>2
    <3>2. Clearance(h, a).holdId = holdId(h) /\ Clearance(h, a).evidence = h.evidence
      BY DEF Clearance
    <3>3. Resolvable(record'.holds, Clearance(h, a))
      BY <1>1, <3>1, <3>2 DEF Resolvable, findExactHold
    <3> QED
      BY <3>1, <3>3
  <2> QED
    BY <1>1, <2>1, <2>2 DEF PlansOn
<1>2. CASE record'.plan = record.plan /\ ~HasPlan
  BY <1>2 DEF HasPlan, NoPlan
<1>3. ASSUME NEW a \in Attempt, HoldsCleared(a), record'.plan = record.plan
      PROVE  \A c \in record'.plan.clearances : Resolvable(record'.holds, c)
  BY <1>3, ClearancesKept DEF HoldsCleared
<1>4. ASSUME NEW a \in Attempt, HoldsInstalled(a), record'.plan = record.plan
      PROVE  \A c \in record'.plan.clearances : Resolvable(record'.holds, c)
  BY <1>4, ClearancesKept DEF HoldsInstalled
<1>5. ASSUME NEW a \in Attempt, HoldsResolved(a)
      PROVE  \A c \in record'.plan.clearances : Resolvable(record'.holds, c)
  BY <1>5 DEF HoldsResolved, NoPlan
<1> QED
  BY <1>1, <1>2, <1>3, <1>4, <1>5, LedgerSteps

\* A verification that is pending after the step is the one that was, or a new one.
VerificationGoesOn ==
    /\ record.pending.kind = "verification"
    /\ record'.pending.envelope = record.pending.envelope /\ record'.plan = record.plan
    /\ \/ record'.pending.journal = record.pending.journal
       \/ \E a \in Attempt : Own(a) /\ evidence[a].journal = "known_terminal"

\* How a pending verification comes about and goes on.
LEMMA VerificationSteps ==
    ASSUME Inv, NEW a \in Attempt, RecordStep(a), record'.pending.kind = "verification"
    PROVE  \/ VerificationGoesOn
           \/ record'.plan = NoPlan /\ record'.pending.journal = "none"
<1> NoDispatch.kind = "none"
  BY DEF NoDispatch
<1> TypeOK
  BY DEF Inv
<1>1. CASE Acquired(a) \/ Released(a)
  BY <1>1, WindowFields DEF Fields, VerificationGoesOn
<1>2. CASE MutationAdmitted(a)
  <2>1. \A I, cs : Pending(a, "mutation", I, cs).kind = "mutation"
    BY DEF Pending, NoDispatch
  <2>2. \E I, cs : record'.pending = Pending(a, "mutation", I, cs)
    BY <1>2, MutationPending
  <2> QED
    BY <2>1, <2>2
<1>3. CASE VerificationAdmitted(a)
  BY ZenonT(60), <1>3, VerificationFields DEF Fields, VerificationAdmitted, HasPlan
<1>4. CASE RedeliveryAdmitted(a)
  BY <1>4, RedeliveryFields DEF Fields
<1>5. CASE TerminalClosed(a)
  BY <1>5, TerminalFields DEF Closing, Fields
<1>6. CASE AcceptanceRecorded(a)
  BY <1>6, AcceptanceFields DEF SameDispatch, Fields, VerificationGoesOn
<1>7. CASE ReadRecorded(a)
  BY Zenon, <1>7, ReadFields DEF ReadRecorded, SameDispatch, Fields, VerificationGoesOn
<1>8. CASE LateClosed(a)
  BY <1>8, LateFields DEF Fields
<1>9. CASE IndeterminateClosed(a)
  BY <1>9, IndeterminateFields DEF Closing, Fields
<1>10. CASE RedeliveryClosed(a)
  BY <1>10, RedeliveryClosedFields DEF Closing, Fields
<1>11. CASE Concluded(a)
  BY <1>11, ConcludedFields DEF Closing, Fields
<1>12. CASE PlanStored(a)
  BY <1>12, PlanFields DEF PlanStored, HasPending, Fields
<1> QED
  BY <1>1, <1>2, <1>3, <1>4, <1>5, <1>6, <1>7, <1>8, <1>9, <1>10, <1>11, <1>12
     DEF RecordStep

\* Every step preserves PlanInv.
LEMMA PlanStep ==
    ASSUME Inv, Next
    PROVE  PlanInv'
<1>1. record'.pending.kind = "verification" =>
          VerificationGoesOn \/ (record'.plan = NoPlan /\ record'.pending.journal = "none")
  <2>1. CASE record' = record
    BY <2>1 DEF VerificationGoesOn
  <2>2. CASE LateEvidence
    BY <2>2, LateEvidenceFields DEF Fields, VerificationGoesOn
  <2> QED
    BY <2>1, <2>2, VerificationSteps, NextCases DEF Effect, Aside
<1>2. record'.pending.kind = "verification" => ~HasPlan'
  BY <1>1 DEF VerificationGoesOn, Inv, PlanInv, HasPlan, NoPlan
<1>3. ASSUME NEW x \in Attempt, record'.pending.envelope = x,
             record'.pending.kind = "verification",
             record'.pending.journal = "known_terminal"
      PROVE  evidence'[x].journal = "known_terminal"
  BY <1>1, <1>3, NextCases DEF VerificationGoesOn, Inv, PlanInv, EvidenceGrows, Own
<1> QED
  BY <1>2, <1>3, PlanResolvable DEF PlanInv, Own, Resolvable, findExactHold

-----------------------------------------------------------------------------
(* Coverage                                                                 *)

\* No step takes the hold of a covered key away.
LEMMA CoversKept ==
    ASSUME Inv, Next, NEW x \in Attempt, NEW k \in keys(x), Covers(record.holds, x, k)
    PROVE  Covers(record'.holds, x, k)
<1>1. PICK h \in record.holds :
          k \in h.origins /\ mutationScopesConflict(h.scope, mutationEntries(x)[k])
  BY DEF Covers
<1>2. \E g \in record'.holds : holdId(g) = holdId(h)
  <2>1. CASE record'.holds = record.holds
    BY <2>1
  <2>2. CASE \E F : KeepsIds(record.holds, F) /\ Image(record.holds, F) \subseteq record'.holds
    BY <2>2 DEF KeepsIds, Image
  <2> QED
    BY Zenon, <2>1, <2>2, LedgerSteps
       DEF HoldsConcluded, HoldsCleared, HoldsInstalled, HoldsResolved, Clears, Resolves
<1>3. PICK g \in record'.holds : holdId(g) = holdId(h)
  BY <1>2
<1>4. g.scope = h.scope /\ g.origins = h.origins
  BY <1>3 DEF holdId
<1> QED
  BY <1>1, <1>3, <1>4 DEF Covers

\* The keys of a pending redelivery are covered by the holds of its origin.
LEMMA RedeliveryCovered ==
    ASSUME Inv, NEW a \in Attempt, Own(a), record.pending.kind = "redelivery",
           NEW k \in keys(a)
    PROVE  Covers(record.holds, a, k)
<1>1. Is(a, {"redeliver"}) /\ OriginIndeterminate(a)
  BY DEF Inv, DispatchInv, AsRequested
<1>2. PICK y \in Attempt :
        /\ y = origin(a) /\ ~Is(y, {"redeliver"}) /\ entries(a) = entries(y)
        /\ \E i \in Indices : /\ record.history[i].envelope = y
                              /\ record.history[i].status = "indeterminate"
  BY <1>1 DEF OriginIndeterminate
<1>3. origin(y) = y
  BY <1>2 DEF origin, Is
<1>4. keys(y) = keys(a)
  BY <1>2, <1>3 DEF keys
<1>5. mutationEntries(y) = mutationEntries(a)
  BY <1>2, <1>4 DEF mutationEntries
<1>6. Covers(record.holds, y, k)
  BY <1>2, <1>4 DEF Inv, CoverInv
<1> QED
  BY <1>5, <1>6 DEF Covers

\* An indeterminate entry of the history is an old one, or a covered dispatch's.
LEMMA CoverSteps ==
    ASSUME Inv, NEW a \in Attempt, RecordStep(a), NEW i \in DOMAIN record'.history,
           record'.history[i].status = "indeterminate"
    PROVE  \/ /\ i \in Indices /\ record.history[i].status = "indeterminate"
              /\ record'.history[i].envelope = record.history[i].envelope
           \/ /\ record'.history[i].envelope = a
              /\ \A k \in keys(a) : Covers(record'.holds, a, k)
<1> TypeOK /\ record.history \in Seq(Outcome)
  BY RecordFacts DEF Inv
<1>1. ASSUME NEW h \in Outcome, record'.history = Append(record.history, h),
             h.status = "indeterminate" => h.envelope = a
                                           /\ \A k \in keys(a) : Covers(record'.holds, a, k)
      PROVE  \/ /\ i \in Indices /\ record.history[i].status = "indeterminate"
                /\ record'.history[i].envelope = record.history[i].envelope
             \/ /\ record'.history[i].envelope = a
                /\ \A k \in keys(a) : Covers(record'.holds, a, k)
  BY <1>1, AppendedHistory DEF Indices
<1>4. CASE TerminalClosed(a)
  BY <1>1, <1>4, TerminalFields DEF Closing, Fields
<1>5. CASE Concluded(a)
  <2>1. PICK F, h : Closing(a, Image(record.holds, F), h) /\ h.status = "terminal"
    BY <1>5, ConcludedFields
  <2> QED
    BY <1>1, <2>1 DEF Closing, Fields
<1>6. CASE IndeterminateClosed(a)
  BY <1>1, <1>6, IndeterminateFields DEF Closing, Fields
<1>7. CASE RedeliveryClosed(a)
  <2>1. Own(a) /\ record.pending.kind = "redelivery"
    BY <1>7 DEF RedeliveryClosed
  <2>2. PICK h : Closing(a, record.holds, h) /\ h.status = "indeterminate"
    BY <1>7, RedeliveryClosedFields
  <2> QED
    BY <1>1, <2>1, <2>2, RedeliveryCovered DEF Closing, Fields
<1>8. CASE record'.history = record.history
  BY <1>8 DEF Indices
<1>9. CASE LateClosed(a)
  BY <1>9, LateFields DEF Fields, Marks, Indices
<1>10. \/ record'.history = record.history
       \/ TerminalClosed(a) \/ Concluded(a) \/ IndeterminateClosed(a)
       \/ RedeliveryClosed(a) \/ LateClosed(a)
  BY ZenonT(60), WindowFields, MutationFields, VerificationFields, RedeliveryFields, AcceptanceFields,
     ReadFields, PlanFields DEF RecordStep, Fields
<1> QED
  BY ZenonT(60), <1>4, <1>5, <1>6, <1>7, <1>8, <1>9, <1>10

\* Every step preserves CoverInv.
LEMMA CoverStep ==
    ASSUME Inv, Next
    PROVE  CoverInv'
<1>1. RequestsStay
  BY NextCases
<1>2. ASSUME NEW i \in DOMAIN record'.history, NEW x \in Attempt,
             record'.history[i].status = "indeterminate", record'.history[i].envelope = x,
             NEW k \in keys(x)
      PROVE  Covers(record'.holds, x, k)
  <2>1. CASE /\ i \in Indices /\ record.history[i].status = "indeterminate"
             /\ record'.history[i].envelope = record.history[i].envelope
    BY ZenonT(60), <1>2, <2>1, CoversKept DEF Inv, CoverInv
  <2>2. CASE record'.history = record.history
    BY <1>2, <2>1, <2>2 DEF Indices
  <2>3. ASSUME NEW a \in Attempt, RecordStep(a) PROVE Covers(record'.holds, x, k)
    BY <1>2, <2>1, <2>3, CoverSteps
  <2> QED
    BY ZenonT(60), <2>2, <2>3, NextCases, LateEvidenceFields DEF Effect, Aside, Fields
<1>3. ASSUME NEW x \in Attempt PROVE keys(x)' = keys(x) /\ mutationEntries(x)' = mutationEntries(x)
  BY <1>1, RequestOps
<1>4. ASSUME NEW x \in Attempt, NEW k, Covers(record'.holds, x, k)
      PROVE  Covers(record.holds, x, k)'
  BY <1>3, <1>4 DEF Covers
<1> QED
  BY <1>2, <1>3, <1>4 DEF CoverInv, Indices

-----------------------------------------------------------------------------
(* Dispatches and the holds in their way                                    *)

\* What ForeignInv says of one hold.
Passes(h, x, p) ==
    InTheWay(h, x) =>
        /\ holdId(h) \in p.holdIds
        /\ IF p.kind = "redelivery" THEN h.origins \subseteq keys(x) ELSE h.authorized = x

\* A dispatch becomes pending only by being prepared.
LEMMA NewDispatch ==
    ASSUME Inv, NEW a \in Attempt, RecordStep(a), ~HasPending, NEW x \in Attempt,
           record'.pending.envelope = x
    PROVE  /\ MutationAdmitted(a) \/ VerificationAdmitted(a) \/ RedeliveryAdmitted(a)
           /\ x = a
<1> TypeOK
  BY DEF Inv
<1>1. ~Own(a)
  BY OwnPending
<1>2. record.pending.envelope # x
  <2>1. NoDispatch.envelope = None
    BY DEF NoDispatch
  <2> QED
    BY <2>1, NoneAssumption DEF HasPending
<1>3. ~(Acquired(a) \/ Released(a) \/ PlanStored(a))
  BY <1>2, WindowFields, PlanFields DEF Fields
<1>4. MutationAdmitted(a) \/ VerificationAdmitted(a) \/ RedeliveryAdmitted(a)
  BY ZenonT(60), <1>1, <1>3 DEF RecordStep, TerminalClosed, AcceptanceRecorded, ReadRecorded, LateClosed,
     IndeterminateClosed, RedeliveryClosed, Concluded
<1>5. \A I, cs : Pending(a, "mutation", I, cs).envelope = a
  BY DEF Pending, NoDispatch
<1>6. MutationAdmitted(a) => \E I, cs : record'.pending = Pending(a, "mutation", I, cs)
  BY MutationPending
<1>7. CASE MutationAdmitted(a)
  BY Zenon, <1>5, <1>6, <1>7
<1>8. CASE VerificationAdmitted(a)
  BY Zenon, <1>8, VerificationFields DEF Fields
<1>9. CASE RedeliveryAdmitted(a)
  BY Zenon, <1>9, RedeliveryFields DEF Fields
<1> QED
  BY <1>4, <1>7, <1>8, <1>9

\* An admitted mutation was authorized for every hold in its way.
LEMMA MutationAcross ==
    ASSUME Inv, NEW a \in Attempt, MutationAdmitted(a), NEW h \in record'.holds
    PROVE  Passes(h, a, record'.pending)
<1>1. \A I, cs : /\ Pending(a, "mutation", I, cs).kind = "mutation"
                 /\ Pending(a, "mutation", I, cs).holdIds = I
  BY DEF Pending, NoDispatch
<1>2. CASE Conflicts(a) = {} /\ record'.holds = record.holds
  BY <1>2 DEF Passes, InTheWay, Conflicts, conflictingMutationHolds
<1>3. CASE \E F : \E I \in SUBSET Id :
              /\ record'.holds = Image(record.holds, F)
              /\ record'.pending = Pending(a, "mutation", I, att[a].clearances)
              /\ \A g \in conflictingMutationHolds(Image(record.holds, F), scopesOf(a)) :
                     holdId(g) \in I /\ g.authorized = a
  <2>1. PICK F : \E I \in SUBSET Id :
              /\ record'.holds = Image(record.holds, F)
              /\ record'.pending = Pending(a, "mutation", I, att[a].clearances)
              /\ \A g \in conflictingMutationHolds(Image(record.holds, F), scopesOf(a)) :
                     holdId(g) \in I /\ g.authorized = a
    BY <1>3
  <2>2. InTheWay(h, a) => h \in conflictingMutationHolds(Image(record.holds, F), scopesOf(a))
    BY <2>1 DEF InTheWay, conflictingMutationHolds
  <2> QED
    BY <1>1, <2>1, <2>2 DEF Passes
<1> QED
  BY Zenon, <1>2, <1>3, MutationFields DEF Fields

\* An admitted redelivery has in its way only the holds of its own origin.
LEMMA RedeliveryAcross ==
    ASSUME Inv, NEW a \in Attempt, RedeliveryAdmitted(a), NEW h \in record'.holds
    PROVE  Passes(h, a, record'.pending)
<1>1. PICK i \in Indices :
          /\ record'.pending.kind = "redelivery"
          /\ record'.pending.holdIds = ids(Conflicts(a)) /\ record'.holds = record.holds
          /\ IndeterminateOrigin(record.history[i], a)
          /\ \A g \in Conflicts(a) : g.origins \subseteq keys(record.history[i].envelope)
  BY RedeliveryFields DEF Fields
<1>2. keys(record.history[i].envelope) = keys(a)
  BY <1>1, RedeliveryOrigin DEF RedeliveryAdmitted
<1>3. InTheWay(h, a) => h \in Conflicts(a)
  BY <1>1 DEF InTheWay, Conflicts, conflictingMutationHolds
<1> QED
  BY <1>1, <1>2, <1>3 DEF Passes, ids

\* A dispatch that stays pending meets the holds it met before, or a cleared one.
LEMMA StillAcross ==
    ASSUME Inv, Next, NEW x \in Attempt, Own(x), record'.pending.envelope = x,
           SameDispatch(record.pending, record'.pending),
           record.pending.kind \in {"mutation", "redelivery"}, x \notin Retained',
           NEW h \in record'.holds
    PROVE  Passes(h, x, record'.pending)
<1>1. \A g \in record.holds : Passes(g, x, record.pending)
  BY DEF Inv, ForeignInv, Passes
<1>2. HasPending
  BY OwnPending
<1>3. ASSUME NEW g \in record.holds, holdId(g) = holdId(h), g.authorized = h.authorized,
             isUncleared(h) => isUncleared(g)
      PROVE  Passes(h, x, record'.pending)
  <2>1. g.scope = h.scope /\ g.origins = h.origins
    BY <1>3 DEF holdId
  <2> QED
    BY <1>1, <1>3, <2>1 DEF Passes, InTheWay, SameDispatch
<1>4. CASE record'.holds = record.holds
  BY <1>3, <1>4
<1>5. CASE HoldsConcluded
  <2>1. PICK g \in record.holds, e \in Evidence, y \in record.holds :
            OpenToEvidence(g) /\ h = EvidenceOn(y, holdId(g), e)
    BY <1>5 DEF HoldsConcluded, Image
  <2>2. y \in Hold /\ UniqueIds(record.holds)
    BY RecordFacts DEF Inv, HoldsInv
  <2>3. holdId(h) = holdId(y)
    BY <2>1, <2>2, EvidenceOnType
  <2>4. h.authorized = y.authorized
    BY <2>1, <2>2 DEF EvidenceOn, Hold
  <2>5. isUncleared(h) => isUncleared(y)
    BY <2>1, <2>2 DEF EvidenceOn, isUncleared, OpenToEvidence, UniqueIds
  <2> QED
    BY <1>3, <2>3, <2>4, <2>5
<1>6. ASSUME NEW a \in Attempt, HoldsCleared(a) PROVE Passes(h, x, record'.pending)
  <2>0. PICK F : Clears(record.holds, F, a) /\ record'.holds = Image(record.holds, F)
    BY <1>6 DEF HoldsCleared
  <2>1. PICK g \in record.holds : h = F[g]
    BY <2>0 DEF Image
  <2>2. CASE h = g
    BY <1>3, <2>2
  <2>3. CASE h # g
    <3>1. g \in Hold /\ h = ClearedFor(g, a)
      BY <2>0, <2>1, <2>3, RecordFacts DEF Clears, Inv
    <3> QED
      BY <3>1, ClearedForType DEF Passes, InTheWay, isUncleared
  <2> QED
    BY <2>2, <2>3
<1>7. ASSUME NEW a \in Attempt, HoldsInstalled(a) PROVE FALSE
  BY <1>7 DEF HoldsInstalled, Own
<1>8. ASSUME NEW a \in Attempt, MutationAdmitted(a) PROVE FALSE
  BY <1>2, <1>8 DEF MutationAdmitted, Dispatchable
<1> QED
  BY <1>4, <1>5, <1>6, <1>7, <1>8, LedgerSteps

\* Every step preserves ForeignInv.
LEMMA ForeignStep ==
    ASSUME Inv, Next
    PROVE  ForeignInv'
<1> TypeOK /\ RequestsStay
  BY NextCases DEF Inv
<1>1. ASSUME NEW x \in Attempt, record'.pending.envelope = x,
             record'.pending.kind \in {"mutation", "redelivery"}, NEW h \in record'.holds
      PROVE  Passes(h, x, record'.pending)
  <2>1. CASE Own(x) /\ SameDispatch(record.pending, record'.pending)
             /\ record'.history = record.history
    <3>1. x \notin Retained'
      BY <2>1, OwnPending DEF Retained, Indices
    <3> QED
      BY <1>1, <2>1, <3>1, StillAcross DEF SameDispatch
  <2>2. CASE record' = record
    BY <1>1, <2>1, <2>2 DEF SameDispatch, Own
  <2>3. CASE LateEvidence
    BY <1>1, <2>1, <2>3, LateEvidenceFields DEF SameDispatch, Own, Fields
  <2>4. ASSUME NEW a \in Attempt, RecordStep(a) PROVE Passes(h, x, record'.pending)
    <3>1. CASE Steady
      BY <1>1, <2>1, <3>1 DEF Steady, SameDispatch, Own
    <3>2. CASE Admits(a)
      <4>1. /\ MutationAdmitted(a) \/ VerificationAdmitted(a) \/ RedeliveryAdmitted(a)
            /\ x = a
        BY <1>1, <2>4, <3>2, NewDispatch DEF Admits
      <4>2. ~VerificationAdmitted(a)
        BY <1>1, VerificationFields DEF Fields
      <4> QED
        BY <4>1, <4>2, MutationAcross, RedeliveryAcross
    <3>3. CASE Closes(a) \/ MarksLate(a)
      BY <1>1, <3>3, NoneAssumption DEF Closes, MarksLate, NoDispatch
    <3> QED
      BY <2>4, <3>1, <3>2, <3>3, PendingSteps
  <2> QED
    BY ZenonT(60), <2>2, <2>3, <2>4, NextCases DEF Effect, Aside
<1>2. ASSUME NEW x \in Attempt PROVE keys(x)' = keys(x) /\ scopesOf(x)' = scopesOf(x)
  BY RequestOps
<1>3. ASSUME NEW x \in Attempt, NEW h, InTheWay(h, x)' PROVE InTheWay(h, x)
  BY <1>2, <1>3 DEF InTheWay
<1> QED
  BY <1>1, <1>2, <1>3 DEF ForeignInv, Passes, Own

-----------------------------------------------------------------------------
(* Confirmations                                                            *)

\* The late result of a redelivery ends it without an entry of its own.
LEMMA AdmittedKept ==
    ASSUME Inv, Next, NEW x \in Attempt, x \in Admitted
    PROVE  x \in Admitted' \/ Is(x, {"redeliver"})
<1> TypeOK /\ record.history \in Seq(Outcome)
  BY RecordFacts DEF Inv
<1>1. CASE x \in Retained
  BY <1>1, HistoryKept DEF Admitted
<1>2. CASE Own(x)
  <2>1. CASE record'.pending.envelope = record.pending.envelope
    BY <1>2, <2>1, NoneAssumption DEF Own, Admitted
  <2>2. ASSUME NEW a \in Attempt, RecordStep(a)
        PROVE  x \in Admitted' \/ Is(x, {"redeliver"})
    <3>1. CASE Steady
      BY <2>1, <3>1 DEF Steady, SameDispatch
    <3>2. CASE Admits(a)
      BY ZenonT(60), <1>2, <3>2, OwnPending DEF Admits
    <3>3. CASE Closes(a)
      <4>1. x = a
        BY <1>2, <3>3 DEF Closes, Own
      <4>2. PICK h \in Outcome : record'.history = Append(record.history, h) /\ h.envelope = a
        BY <3>3 DEF Closes
      <4>3. x \in Retained'
        BY <4>1, <4>2, AppendedHistory DEF Retained, Indices
      <4> QED
        BY <4>3 DEF Admitted
    <3>4. CASE MarksLate(a)
      BY <1>2, <3>4 DEF MarksLate, Own, Inv, DispatchInv, AsRequested
    <3> QED
      BY <2>2, <3>1, <3>2, <3>3, <3>4, PendingSteps
  <2> QED
    BY ZenonT(60), <2>1, <2>2, NextCases, LateEvidenceFields DEF Effect, Aside, Fields
<1> QED
  BY <1>1, <1>2 DEF Admitted, Own

\* A confirmed mutation is admitted by the write that consumes its confirmation.
LEMMA AdmittedByConsumption ==
    ASSUME Inv, Next, NEW x \in Attempt, x \in Admitted', x \notin Admitted, Confirmed(x)
    PROVE  ActionConsumed(x)
<1>1. Admits(x)
  <2>1. x \in Retained' \/ record'.pending.envelope = x
    BY DEF Admitted
  <2>2. x \notin Retained /\ ~Own(x)
    BY NoneAssumption DEF Admitted, Own
  <2>3. ASSUME NEW a \in Attempt, Admits(a), \A y : y \in Retained' => y \in Retained
        PROVE  Admits(x)
    BY Zenon, <2>1, <2>2, <2>3 DEF Admits
  <2>4. ASSUME NEW a \in Attempt, Closes(a), \A y \in Attempt : ~Own(y)',
               \A y : y \in Retained' => y \in Retained \cup {a}
        PROVE  FALSE
    <3>1. x = a
      BY <2>1, <2>2, <2>4 DEF Own
    <3> QED
      BY <2>2, <2>4, <3>1 DEF Closes
  <2> QED
    BY Zenon, <2>1, <2>2, <2>3, <2>4, AdmissionSteps DEF Own
<1>2. record' # record
  BY <1>1, NoneAssumption DEF Admits, HasPending, NoDispatch
<1>3. ~LateEvidence
  <2>1. record.pending = NoDispatch /\ record'.pending.envelope = x
    BY Zenon, <1>1 DEF Admits, HasPending
  <2>2. NoDispatch.envelope = None /\ x # None
    BY NoneAssumption DEF NoDispatch
  <2>3. LateEvidence => record'.pending = record.pending
    BY Zenon, LateEvidenceFields DEF Fields
  <2> QED
    BY Zenon, <2>1, <2>2, <2>3
<1>4. PICK a \in Attempt : Effect(a)
  BY <1>2, <1>3, NextCases DEF Aside
<1>5. x = a
  BY ZenonT(60), <1>1, <1>2, <1>4, NewDispatch DEF Admits, Effect
<1> QED
  BY ZenonT(60), <1>1, <1>2, <1>4, <1>5 DEF Effect, Admits, ActionIssued, ActionExpired

\* A step says of a confirmation what it said before, except at one token.
SameAction(b) ==
    /\ confirmation'[b].state = confirmation[b].state
    /\ confirmation'[b].entries = confirmation[b].entries
    /\ confirmation'[b].commit = confirmation[b].commit

IssuedAt(c) ==
    /\ att[c].step \in Unissued /\ confirmation'[c].state = "pending"

ExpiredAt(c) ==
    /\ confirmation[c].state \in {"pending", "expired"}
    /\ confirmation'[c].state = "expired"

ConsumedAt(c, a) ==
    /\ Confirmed(a) /\ att[a].request.of = c /\ MutationAdmitted(a)
    /\ confirmation[c].state = "pending" /\ confirmation[c].entries = entries(a)
    /\ confirmation'[c].state = "consumed" /\ confirmation'[c].commit = a
    /\ confirmation'[c].entries = confirmation[c].entries

OnlyAt(c) == \A b \in Attempt : b # c => confirmation'[b] = confirmation[b]

\* A confirmed mutation presents the token of some preview.
LEMMA TokenType ==
    ASSUME TypeOK, NEW a \in Attempt, Confirmed(a)
    PROVE  /\ att[a].request.of \in Attempt
           /\ confirmation \in [Attempt -> ConfirmationType]
           /\ token(a) = confirmation[att[a].request.of]
  BY DEF TypeOK, IsRequest, Confirmed, Is, ConfirmationType, token

\* A consumption is bound to the mutation that is admitted with it.
LEMMA ConsumedFields ==
    ASSUME TypeOK, NEW a \in Attempt, ActionConsumed(a)
    PROVE  /\ confirmation' \in [Attempt -> ConfirmationType]
           /\ \E c \in Attempt : OnlyAt(c) /\ ConsumedAt(c, a)
<1>1. PICK c \in Attempt : /\ c = att[a].request.of /\ token(a) = confirmation[c]
                           /\ confirmation \in [Attempt -> ConfirmationType]
  BY TokenType DEF ActionConsumed
<1> DEFINE t == [confirmation[c] EXCEPT !.state = "consumed", !.commit = a]
<1>2. /\ t \in ConfirmationType /\ t.state = "consumed" /\ t.commit = a
      /\ t.entries = confirmation[c].entries
  <2>1. confirmation[c] \in ConfirmationType
    BY <1>1
  <2> QED
    BY Zenon, <2>1 DEF ConfirmationType
<1>3. confirmation' = [confirmation EXCEPT ![c] = t]
  BY ZenonT(60), <1>1 DEF ActionConsumed, stageConsumption, ConfirmationType
<1> HIDE DEF t
<1> QED
  BY ZenonT(60), <1>1, <1>2, <1>3 DEF ActionConsumed, OnlyAt, ConsumedAt

\* A step changes one confirmation at most: it issues, expires or consumes it.
LEMMA ConfirmationSteps ==
    ASSUME Inv, Next
    PROVE  /\ confirmation' \in [Attempt -> ConfirmationType]
           /\ \/ \A b \in Attempt : SameAction(b)
              \/ \E c \in Attempt : OnlyAt(c) /\ (IssuedAt(c) \/ ExpiredAt(c))
              \/ \E c, a \in Attempt : OnlyAt(c) /\ ConsumedAt(c, a)
<1> confirmation \in [Attempt -> ConfirmationType] /\ TypeOK
  BY ZenonT(60) DEF Inv, TypeOK, ConfirmationType
<1>1. CASE confirmation' = confirmation
  BY <1>1 DEF SameAction
<1>2. CASE Aside
  BY <1>2 DEF Aside, SameAction
<1>3. ASSUME NEW a \in Attempt, ActionIssued(a)
      PROVE  /\ confirmation' \in [Attempt -> ConfirmationType]
             /\ OnlyAt(a) /\ IssuedAt(a)
  <2> DEFINE t == Issued(entries(a))
  <2>1. FALSE \in BOOLEAN /\ entries(a) \in Seq(Scopes)
    BY RequestFacts
  <2>2. t \in ConfirmationType /\ t.state = "pending"
    BY ZenonT(60), <2>1 DEF Issued, NoConfirmation, ConfirmationType
  <2>3. confirmation' = [confirmation EXCEPT ![a] = t]
    BY <1>3 DEF ActionIssued
  <2> HIDE DEF t
  <2> QED
    BY <1>3, <2>2, <2>3 DEF ActionIssued, OnlyAt, IssuedAt, At, Unissued
<1>4. ASSUME NEW a \in Attempt, ActionExpired(a)
      PROVE  /\ confirmation' \in [Attempt -> ConfirmationType]
             /\ \E c \in Attempt : OnlyAt(c) /\ ExpiredAt(c)
  <2>1. PICK c \in Attempt : c = att[a].request.of /\ token(a) = confirmation[c]
    BY <1>4, TokenType DEF ActionExpired
  <2> DEFINE t == [confirmation[c] EXCEPT !.state = "expired"]
  <2>2. t \in ConfirmationType /\ t.state = "expired"
    BY DEF ConfirmationType
  <2>3. confirmation' = [confirmation EXCEPT ![c] = t]
    BY <1>4, <2>1 DEF ActionExpired, expireConfirmation
  <2> HIDE DEF t
  <2> QED
    BY <1>4, <2>1, <2>2, <2>3 DEF ActionExpired, OnlyAt, ExpiredAt
<1>5. ASSUME NEW a \in Attempt, ActionConsumed(a)
      PROVE  /\ confirmation' \in [Attempt -> ConfirmationType]
             /\ \E c \in Attempt : OnlyAt(c) /\ ConsumedAt(c, a)
  BY <1>5, ConsumedFields
<1> QED
  BY Zenon, <1>1, <1>2, <1>3, <1>4, <1>5, NextCases, LateEvidenceFields DEF Effect

\* What a confirmation says of the mutation that consumed it.
ConsumedFor(x) ==
    \E c \in Attempt : /\ c = att[x].request.of
                       /\ confirmation[c].state = "consumed" /\ confirmation[c].commit = x
                       /\ confirmation[c].entries = entries(x)

\* A consumed confirmation stays as it is.
LEMMA StillConsumed ==
    ASSUME Inv, Next, NEW c \in Attempt, confirmation[c].state = "consumed"
    PROVE  SameAction(c)
<1>1. att[c].step \notin Unissued
  BY DEF Inv, ConfirmInv
<1> QED
  BY <1>1, ConfirmationSteps DEF OnlyAt, SameAction, IssuedAt, ExpiredAt, ConsumedAt

\* An admitted confirmed mutation has consumed its confirmation, after every step.
LEMMA ConsumedStep ==
    ASSUME Inv, Next, NEW x \in Attempt, x \in Admitted', Confirmed(x)
    PROVE  ConsumedFor(x)'
<1>1. TypeOK /\ RequestsStay /\ entries(x)' = entries(x)
  BY NextCases, RequestOps DEF Inv
<1>2. PICK c \in Attempt : c = att[x].request.of /\ token(x) = confirmation[c]
  BY <1>1, TokenType
<1>3. /\ confirmation'[c].state = "consumed" /\ confirmation'[c].commit = x
      /\ confirmation'[c].entries = entries(x)
  <2>1. CASE x \in Admitted
    <3>1. /\ confirmation[c].state = "consumed" /\ confirmation[c].commit = x
          /\ confirmation[c].entries = entries(x)
      BY <1>2, <2>1 DEF Inv, ConfirmInv, ConfirmedOnce
    <3> QED
      BY <3>1, StillConsumed DEF SameAction
  <2>2. CASE x \notin Admitted
    <3>1. ActionConsumed(x)
      BY <2>2, AdmittedByConsumption
    <3> QED
      BY <1>1, <1>2, <3>1, ConsumedFields DEF ConsumedAt
  <2> QED
    BY <2>1, <2>2
<1>4. c = att'[x].request.of
  BY <1>1, <1>2 DEF RequestsStay
<1> QED
  BY <1>1, <1>3, <1>4 DEF ConsumedFor

\* The mutation a confirmation was consumed by is admitted, after every step.
LEMMA CommitStep ==
    ASSUME Inv, Next, NEW c \in Attempt, confirmation'[c].state = "consumed"
    PROVE  \E x \in Attempt : confirmation'[c].commit = x /\ x \in Admitted' /\ Confirmed(x)
<1>1. CASE confirmation[c].state = "consumed"
  <2>1. PICK x \in Attempt : confirmation[c].commit = x /\ x \in Admitted /\ Confirmed(x)
    BY <1>1 DEF Inv, ConfirmInv, ConfirmedOnce
  <2>2. x \in Admitted'
    BY <2>1, AdmittedKept DEF Confirmed, Is
  <2> QED
    BY <1>1, <2>1, <2>2, StillConsumed DEF SameAction
<1>2. CASE confirmation[c].state # "consumed"
  <2>1. PICK a \in Attempt : ConsumedAt(c, a)
    BY <1>2, ConfirmationSteps DEF OnlyAt, SameAction, IssuedAt, ExpiredAt
  <2>2. MutationAdmitted(a) /\ Confirmed(a) /\ confirmation'[c].commit = a
    BY <2>1 DEF ConsumedAt
  <2>3. \A I, cs : Pending(a, "mutation", I, cs).envelope = a
    BY DEF Pending, NoDispatch
  <2>31. \E I, cs : record'.pending = Pending(a, "mutation", I, cs)
    BY <2>2, MutationPending
  <2>4. record'.pending.envelope = a
    BY Zenon, <2>3, <2>31
  <2> QED
    BY <2>2, <2>4, NoneAssumption DEF Admitted
<1> QED
  BY <1>1, <1>2

\* A preview that has not ended has issued nothing, after every step.
LEMMA UnissuedStep ==
    ASSUME Inv, Next, NEW b \in Attempt, att'[b].step \in Unissued
    PROVE  confirmation'[b].state = "none"
<1> TypeOK
  BY DEF Inv
<1>1. CASE Aside
  BY <1>1 DEF Aside, Unissued, Inv, ConfirmInv
<1>2. CASE LateEvidence
  BY <1>2, LateEvidenceFields DEF Inv, ConfirmInv
<1>3. ASSUME NEW a \in Attempt, Effect(a), \A d \in Attempt : d # a => att'[d] = att[d]
      PROVE  confirmation'[b].state = "none"
  <2>1. CASE b = a
    BY <1>3, <2>1 DEF Effect, Inv, ConfirmInv
  <2>2. CASE b # a
    <3>1. confirmation[b].state = "none" /\ att[b].step \in Unissued
      BY <1>3, <2>2 DEF Inv, ConfirmInv
    <3>2. CASE confirmation' = confirmation
      BY <3>1, <3>2
    <3>3. CASE ActionIssued(a)
      BY ZenonT(60), <2>2, <3>1, <3>3 DEF ActionIssued, Inv, TypeOK
    <3>4. CASE ActionExpired(a)
      BY <3>1, <3>4, TokenType DEF ActionExpired, expireConfirmation
    <3>5. CASE ActionConsumed(a)
      BY <3>1, <3>5, ConsumedFields DEF ConsumedAt, OnlyAt
    <3> QED
      BY ZenonT(60), <1>3, <3>2, <3>3, <3>4, <3>5 DEF Effect
  <2> QED
    BY <2>1, <2>2
<1> QED
  BY <1>1, <1>2, <1>3, NextCases

\* Every step preserves the types.
LEMMA TypeStep ==
    ASSUME Inv, Next
    PROVE  TypeOK'
<1>1. att' \in [Attempt -> AttType] /\ \A a \in Attempt : IsRequest(att'[a].request)
  BY NextCases DEF RequestsStay, Inv, TypeOK
<1>2. record' \in Record
  BY HistoryKept
<1>3. confirmation' \in [Attempt -> ConfirmationType]
  BY ConfirmationSteps
<1>4. evidence' \in [Attempt -> EvidenceType] /\ faults' \in 0 .. MaxFaults
  BY NextCases DEF EvidenceGrows
<1> QED
  BY <1>1, <1>2, <1>3, <1>4 DEF TypeOK, AttType, ConfirmationType, EvidenceType

\* Every step preserves ConfirmInv.
LEMMA ConfirmStep ==
    ASSUME Inv, Next
    PROVE  ConfirmInv'
<1>1. ASSUME NEW x \in Attempt PROVE Confirmed(x)' = Confirmed(x)
  BY Zenon, NextCases, RequestOps
<1>2. \A x \in Admitted' : x \in Attempt
  <2>1. record'.history \in Seq(Outcome) /\ WindowInv'
    BY HistoryKept, WindowStep DEF Record
  <2>2. \A x \in Retained' : x \in Attempt
    <3>1. \A i \in DOMAIN record'.history : record'.history[i] \in Outcome
      BY <2>1
    <3>2. \A i \in DOMAIN record'.history : record'.history[i].envelope \in Attempt
      BY <3>1 DEF Outcome
    <3> QED
      BY <3>2 DEF Retained, Indices
  <2>3. record'.pending.envelope # None => record'.pending.envelope \in Attempt
    BY <2>1 DEF WindowInv, HasPending, NoDispatch
  <2> QED
    BY <2>2, <2>3 DEF Admitted
<1>3. \A x \in Admitted' : Confirmed(x)' =>
          /\ token(x)'.state = "consumed" /\ token(x)'.commit = x
          /\ token(x)'.entries = entries(x)'
  BY <1>1, <1>2, ConsumedStep DEF ConsumedFor, token
<1>4. \A c \in Attempt : confirmation'[c].state = "consumed" =>
          confirmation'[c].commit \in Admitted'
  BY CommitStep
<1>5. ConfirmedOnce'
  BY <1>3, <1>4 DEF ConfirmedOnce
<1>6. ASSUME NEW c \in Attempt, confirmation'[c].state = "consumed"
      PROVE  confirmation'[c].commit \in Attempt /\ Confirmed(confirmation[c].commit)'
  <2>1. PICK x \in Attempt : confirmation'[c].commit = x /\ Confirmed(x)
    BY <1>6, CommitStep
  <2>2. Confirmed(x)'
    BY <1>1, <2>1
  <2> QED
    BY <2>1, <2>2 DEF Confirmed, Is
<1> QED
  BY <1>5, <1>6, UnissuedStep DEF ConfirmInv

-----------------------------------------------------------------------------
(* The inductive invariant                                                  *)

\* The invariant holds initially.
LEMMA InitInv ==
    ASSUME Init
    PROVE  Inv
<1>1. PICK w \in Workload :
        /\ att = [a \in Attempt |->
                      [step |-> IF w[a].kind = "previewed" THEN "done" ELSE "idle",
                       request |-> w[a], clearances |-> {}, inTime |-> FALSE]]
        /\ confirmation = [a \in Attempt |-> IF w[a].kind = "previewed"
                                             THEN Issued(w[a].entries) ELSE NoConfirmation]
  BY ZenonT(60) DEF Init
<1>2. \A a \in Attempt : IsRequest(w[a]) /\ w[a] \in Request
  BY WorkloadAssumption DEF IsRequest
<1>3. /\ record.window = None /\ record.holds = {} /\ record.plan = NoPlan
      /\ record.pending = NoDispatch /\ record.history = <<>> /\ record = emptyRecord
      /\ evidence = [a \in Attempt |-> NoEvidence] /\ faults = 0
  BY DEF Init, emptyRecord
<1>4. Indices = {} /\ Retained = {}
  BY <1>3 DEF Indices, Retained
<1>5. NoDispatch.envelope = None /\ NoDispatch.kind = "none" /\ NoPlan.clearances = {}
  BY DEF NoDispatch, NoPlan
<1>6. \A a \in Attempt :
          /\ att[a].request = w[a] /\ att[a].clearances = {} /\ att[a].inTime = FALSE
          /\ att[a].step = IF w[a].kind = "previewed" THEN "done" ELSE "idle"
  BY <1>1
<1>7. ~HasPending /\ ~HasPlan /\ \A x \in Attempt : ~Own(x)
  BY <1>3, <1>5, NoneAssumption DEF HasPending, HasPlan, Own
<1>8. \A a \in Attempt :
          /\ confirmation[a] \in ConfirmationType
          /\ confirmation[a].state = IF w[a].kind = "previewed" THEN "pending" ELSE "none"
  <2>1. TAKE a \in Attempt
  <2>2. w[a].entries \in Seq(Scopes) /\ FALSE \in BOOLEAN
    BY <1>2 DEF Request
  <2>3. /\ Issued(w[a].entries) \in ConfirmationType
        /\ Issued(w[a].entries).state = "pending"
    BY ZenonT(60), <2>2 DEF Issued, NoConfirmation, ConfirmationType
  <2>4. <<>> \in Seq(Scopes)
    OBVIOUS
  <2>5. NoConfirmation \in ConfirmationType /\ NoConfirmation.state = "none"
    BY <2>2, <2>4 DEF NoConfirmation, ConfirmationType
  <2> QED
    BY <1>1, <2>3, <2>5
<1>9. TypeOK
  <2>1. ASSUME NEW a \in Attempt
        PROVE  att[a] \in AttType
    <3> DEFINE s == IF w[a].kind = "previewed" THEN "done" ELSE "idle"
    <3>1. s \in Step /\ w[a] \in Request /\ FALSE \in BOOLEAN
          /\ {} \in SUBSET PlanClearance
      BY <1>2 DEF Step
    <3>2. att[a] = [step |-> s, request |-> w[a], clearances |-> {}, inTime |-> FALSE]
      BY <1>1
    <3> HIDE DEF s
    <3> QED
      BY <3>1, <3>2 DEF AttType
  <2>2. att \in [Attempt -> AttType]
    BY Zenon, <1>1, <2>1
  <2>3. record \in Record
    <3>1. NoPlan \in Plan /\ NoDispatch \in Dispatch /\ <<>> \in Seq(Outcome)
      BY NoneType
    <3> QED
      BY <1>3, <3>1 DEF emptyRecord, Record
  <2>4. evidence \in [Attempt -> EvidenceType]
    <3>1. FALSE \in BOOLEAN
      OBVIOUS
    <3>2. NoEvidence \in EvidenceType
      BY <3>1 DEF NoEvidence, EvidenceType, Journal
    <3> QED
      BY <1>3, <3>2
  <2>5. confirmation \in [Attempt -> ConfirmationType]
    BY <1>1, <1>8
  <2>6. faults \in 0 .. MaxFaults
    BY <1>3, BoundsAssumption
  <2> QED
    BY <1>2, <1>6, <2>2, <2>3, <2>4, <2>5, <2>6
       DEF TypeOK, AttType, ConfirmationType, EvidenceType
<1>10. WindowInv
  BY <1>6, <1>7 DEF WindowInv, WindowExclusive, InWindow
<1>11. DispatchInv
  BY <1>4, <1>7 DEF DispatchInv
<1>12. HoldsInv
  BY <1>3 DEF HoldsInv, UniqueIds
<1>13. PlanInv
  BY <1>3, <1>5, <1>7 DEF PlanInv
<1>14. CoverInv /\ ForeignInv
  BY <1>4, <1>7 DEF CoverInv, ForeignInv
<1>15. ConfirmInv
  <2>1. Admitted = {}
    BY <1>3, <1>4, <1>5 DEF Admitted
  <2>2. \A a \in Attempt : confirmation[a].state # "consumed"
    BY <1>8
  <2>3. \A a \in Attempt : att[a].step \in Unissued => confirmation[a].state = "none"
    BY <1>6, <1>8 DEF Unissued
  <2> QED
    BY <2>1, <2>2, <2>3 DEF ConfirmInv, ConfirmedOnce
<1> QED
  BY <1>9, <1>10, <1>11, <1>12, <1>13, <1>14, <1>15 DEF Inv

\* A step that changes nothing preserves the invariant.
LEMMA Stutter ==
    ASSUME Inv, UNCHANGED vars
    PROVE  Inv'
<1> USE DEF Inv, vars
<1>1. TypeOK'
  BY DEF TypeOK
<1>2. Retained' = Retained /\ Indices' = Indices /\ HasPending' = HasPending
      /\ HasPlan' = HasPlan /\ Admitted' = Admitted
  BY DEF Retained, Indices, HasPending, HasPlan, Admitted
<1>3. WindowInv'
  BY <1>2 DEF WindowInv, WindowExclusive
<1>4. RequestsStay
  BY DEF RequestsStay, TypeOK, AttType
<1>5. \A x : Own(x)' = Own(x) /\ OriginIndeterminate(x)' = OriginIndeterminate(x)
             /\ Is(x, {"redeliver"})' = Is(x, {"redeliver"})
             /\ \A kind : AsRequested(x, kind)' = AsRequested(x, kind)
  BY <1>2 DEF Own, OriginIndeterminate, AsRequested, Mutating, Is, origin, entries
<1>6. DispatchInv'
  BY ZenonT(60), <1>2, <1>5 DEF DispatchInv
<1>7. \A h : HoldOK(h)' = HoldOK(h)
  BY ZenonT(60), <1>2 DEF HoldOK, Agrees, Grounded
<1>8. HoldsInv'
  BY <1>7 DEF HoldsInv, UniqueIds
<1>9. PlanInv'
  BY ZenonT(60), <1>2, <1>5 DEF PlanInv
<1>10. CoverInv'
  BY ZenonT(60), <1>2, <1>4, RequestOps DEF CoverInv, Covers
<1>11. \A h, x : InTheWay(h, x)' = InTheWay(h, x) /\ keys(x)' = keys(x)
  BY ZenonT(60) DEF InTheWay, scopesOf, entries, keys, origin
<1>12. ForeignInv'
  BY ZenonT(60), <1>5, <1>11 DEF ForeignInv
<1>13. ConfirmInv'
  BY ZenonT(60), <1>2 DEF ConfirmInv, ConfirmedOnce, Confirmed, Is, token, entries
<1> QED
  BY <1>1, <1>3, <1>6, <1>8, <1>9, <1>10, <1>12, <1>13

\* Inv is inductive: no interleaving of requests, processes, faults and Bridge
\* reports leaves it.
LEMMA Inductive == Spec => []Inv
<1>1. Init => Inv
  BY InitInv
<1>2. Inv /\ [Next]_vars => Inv'
  <2>1. ASSUME Inv, Next PROVE Inv'
    BY <2>1, TypeStep, WindowStep, DispatchStep, HoldsStep, PlanStep, CoverStep, ForeignStep,
       ConfirmStep DEF Inv
  <2> QED
    BY <2>1, Stutter
<1> QED
  BY <1>1, <1>2, PTL DEF Spec

-----------------------------------------------------------------------------
(* What it implies                                                          *)

\* The window of the session is exclusive: an attempt between acquire and release
\* owns it, and a pending dispatch is the owner's.
THEOREM WindowHolds == Spec => []WindowExclusive
<1>1. Inv => WindowExclusive
  BY DEF Inv, WindowInv
<1> QED
  BY <1>1, Inductive, PTL

\* Every record that is written passes the checks with which it is read again
\* (decodeRecord, assertLedgerIntegrity, assertPlanIntegrity).
THEOREM RecordsDecode == Spec => []RecordDecodable
<1>1. ASSUME Inv PROVE RecordDecodable
  <2>1. HasPending => record.window # None
    BY <1>1, NoneAssumption DEF Inv, WindowInv, WindowExclusive
  <2> QED
    BY ZenonT(60), <1>1, <2>1 DEF RecordDecodable, Inv, HoldsInv, HoldOK, Agrees, UniqueIds, PlanInv,
       DispatchInv
<1> QED
  BY <1>1, Inductive, PTL

\* A pending mutation or redelivery meets no uncleared hold but those its own
\* envelope was authorized for, or those its own origin left.
THEOREM NoForeignHold == Spec => []PendingAcrossNoForeignHold
<1>1. ASSUME Inv PROVE PendingAcrossNoForeignHold
  <2>1. SUFFICES ASSUME record.pending.kind \in {"mutation", "redelivery"},
                        NEW h \in conflictingMutationHolds(record.holds,
                                                           scopesOf(record.pending.envelope))
                 PROVE  /\ holdId(h) \in record.pending.holdIds
                        /\ IF Redelivery(record.pending)
                           THEN h.origins \subseteq keys(record.pending.envelope)
                           ELSE h.authorized = record.pending.envelope
    BY DEF PendingAcrossNoForeignHold
  <2>2. PICK x \in Attempt : record.pending.envelope = x
    BY <1>1, <2>1 DEF Inv, WindowInv, HasPending, NoDispatch
  <2>3. h \in record.holds /\ InTheWay(h, x)
    BY <2>1, <2>2 DEF conflictingMutationHolds, InTheWay
  <2> QED
    BY <1>1, <2>1, <2>2, <2>3 DEF Inv, ForeignInv, Own, Redelivery
<1> QED
  BY <1>1, Inductive, PTL

\* A mutation recorded as indeterminate is covered by a hold, which is lifted only on
\* conclusive evidence about it and after the Bridge accepted the clearing envelope.
THEOREM HeldUntilVerified == Spec => []IndeterminateHeldUntilVerified
<1>1. ASSUME Inv PROVE IndeterminateHeldUntilVerified
  <2>1. SUFFICES ASSUME NEW i \in Indices, record.history[i].status = "indeterminate",
                        NEW k \in keys(record.history[i].envelope)
                 PROVE  \E h \in record.holds :
            /\ k \in h.origins
            /\ mutationScopesConflict(h.scope,
                                      mutationEntries(record.history[i].envelope)[k])
            /\ h.state = "cleared" =>
                  /\ evidence[h.clearedBy].accepted
                  /\ CASE h.evidence.basis = "verification_read" ->
                              /\ evidence[h.evidence.by].journal = "known_terminal"
                              /\ holdId(h) \in RetainedOf(h.evidence.by).holdIds
                       [] h.evidence.basis = "late_terminal" ->
                              h.origins = {h.evidence.by}
    BY ZenonT(60) DEF IndeterminateHeldUntilVerified
  <2>2. PICK x \in Attempt : record.history[i].envelope = x
    BY <1>1, RecordFacts DEF Inv, Outcome
  <2>3. PICK h \in record.holds :
            k \in h.origins /\ mutationScopesConflict(h.scope, mutationEntries(x)[k])
    BY <1>1, <2>1, <2>2 DEF Inv, CoverInv, Covers
  <2>4. ASSUME h.state = "cleared"
        PROVE  /\ evidence[h.clearedBy].accepted
               /\ h.evidence.basis \in {"verification_read", "late_terminal"}
               /\ h.evidence.basis = "verification_read" =>
                     /\ evidence[h.evidence.by].journal = "known_terminal"
                     /\ holdId(h) \in RetainedOf(h.evidence.by).holdIds
               /\ h.evidence.basis = "late_terminal" => h.origins = {h.evidence.by}
    <3>1. HoldOK(h) /\ h \in Hold
      BY <1>1, RecordFacts DEF Inv, HoldsInv
    <3>2. evidence[h.clearedBy].accepted /\ Grounded(h) /\ h.evidence # None
      BY <2>4, <3>1 DEF HoldOK, Agrees
    <3>3. h.evidence \in Evidence
      BY <3>1, <3>2 DEF Hold
    <3>4. h.evidence.basis \in {"verification_read", "late_terminal"}
      BY <3>3 DEF Evidence
    <3>5. ASSUME h.evidence.basis = "verification_read"
          PROVE  /\ evidence[h.evidence.by].journal = "known_terminal"
                 /\ holdId(h) \in RetainedOf(h.evidence.by).holdIds
      <4>1. PICK j \in Indices : /\ record.history[j].envelope = h.evidence.by
                                 /\ holdId(h) \in record.history[j].holdIds
        BY <3>2, <3>5 DEF Grounded
      <4> DEFINE n == CHOOSE m \in Indices : record.history[m].envelope = h.evidence.by
      <4>2. n \in Indices /\ record.history[n].envelope = h.evidence.by
        BY <4>1
      <4> HIDE DEF n
      <4>3. n = j
        BY ZenonT(60), <1>1, <4>1, <4>2 DEF Inv, DispatchInv
      <4> QED
        BY ZenonT(60), <3>2, <3>5, <4>1, <4>3 DEF n, RetainedOf, Grounded
    <3> QED
      BY <3>2, <3>4, <3>5 DEF Grounded
  <2> QED
    BY Zenon, <2>2, <2>3, <2>4
<1> QED
  BY <1>1, Inductive, PTL

\* A confirmation is consumed by exactly one admitted mutation, the one previewed;
\* an admitted confirmed mutation has consumed its confirmation.
THEOREM ConfirmationsOnce == Spec => []ConfirmedOnce
<1>1. Inv => ConfirmedOnce
  BY DEF Inv, ConfirmInv
<1> QED
  BY <1>1, Inductive, PTL

\* The history changes only when a dispatch is closed or a late result is marked.
LEMMA HistorySteps ==
    ASSUME Inv, Next
    PROVE  \/ record'.history = record.history
           \/ \E a \in Attempt : Closes(a) \/ MarksLate(a)
  BY ZenonT(60), NextCases, PendingSteps, LateEvidenceFields DEF Effect, Aside, Fields, Steady, Admits

\* An entry of the history is an attempt's.
LEMMA EntryType ==
    ASSUME Inv, NEW i \in Indices
    PROVE  record.history[i].envelope \in Attempt
<1>1. record.history[i] \in Outcome
  BY RecordFacts DEF Inv
<1> QED
  BY <1>1 DEF Outcome

\* The status a closed dispatch takes is one its invocations already have.
LEMMA SameOutcome ==
    ASSUME Inv, NEW a \in Attempt, Own(a), NEW h \in Outcome,
           h.status = "indeterminate" \/ record.pending.kind # "redelivery",
           NEW k \in keys(a), NEW i \in Indices, k \in keys(record.history[i].envelope)
    PROVE  \E j \in Indices : /\ k \in keys(record.history[j].envelope)
                              /\ record.history[j].status = h.status
<1>1. CASE record.pending.kind = "redelivery"
  <2>1. OriginIndeterminate(a)
    BY ZenonT(60), <1>1 DEF Inv, DispatchInv, AsRequested
  <2>2. PICK y \in Attempt, j \in Indices :
            /\ y = origin(a) /\ ~Is(y, {"redeliver"}) /\ entries(a) = entries(y)
            /\ record.history[j].envelope = y /\ record.history[j].status = "indeterminate"
    BY <2>1 DEF OriginIndeterminate
  <2>3. keys(y) = keys(a)
    BY ZenonT(60), <2>2 DEF keys, origin, Is
  <2> QED
    BY <1>1, <2>2, <2>3
<1>2. CASE record.pending.kind # "redelivery"
  <2>1. a \notin Retained /\ origin(a) = a
    BY ZenonT(60), <1>2, OwnPending, FirstHand DEF Inv, DispatchInv, AsRequested
  <2>2. PICK x \in Attempt : x = record.history[i].envelope /\ x \in Retained
    BY EntryType DEF Retained
  <2>3. origin(x) = a
    BY <2>1, <2>2, SameKeysOrigin
  <2>4. CASE ~Is(x, {"redeliver"})
    BY <2>1, <2>2, <2>3, <2>4 DEF origin, Is
  <2>5. CASE Is(x, {"redeliver"})
    <3>1. OriginIndeterminate(x)
      BY Zenon, <2>2, <2>5 DEF Inv, DispatchInv
    <3> QED
      BY Zenon, <2>1, <2>3, <3>1 DEF OriginIndeterminate, Retained
  <2> QED
    BY <2>4, <2>5
<1> QED
  BY <1>1, <1>2

\* An entry with a known journal stays as it is.
LEMMA JournalsStay ==
    ASSUME Inv, Next, NEW i \in Indices, record.history[i].journal # "indeterminate"
    PROVE  \E j \in DOMAIN record'.history : record'.history[j] = record.history[i]
<1> record.history \in Seq(Outcome)
  BY RecordFacts DEF Inv
<1>1. CASE record'.history = record.history
  BY <1>1 DEF Indices
<1>2. ASSUME NEW a \in Attempt, Closes(a)
      PROVE  \E j \in DOMAIN record'.history : record'.history[j] = record.history[i]
  BY <1>2, AppendedHistory DEF Closes, Indices
<1>3. ASSUME NEW a \in Attempt, MarksLate(a)
      PROVE  \E j \in DOMAIN record'.history : record'.history[j] = record.history[i]
  <2>1. PICK n \in Indices : /\ record.history[n].status = "indeterminate"
                             /\ Marks(record.history, n, record'.history)
    BY <1>3 DEF MarksLate
  <2>2. record.history[n].journal \in {"indeterminate", "late_terminal"}
    BY ZenonT(60), <2>1, EntryType DEF Inv, DispatchInv
  <2> QED
    BY <2>1, <2>2 DEF Marks, Indices
<1> QED
  BY <1>1, <1>2, <1>3, HistorySteps

\* An invocation with an outcome gets no other one.
LEMMA OutcomesKept ==
    ASSUME Inv, Next, NEW k, Outcomes(k) # {}
    PROVE  Outcomes(k)' = Outcomes(k)
<1> record.history \in Seq(Outcome) /\ RequestsStay
  BY RecordFacts, NextCases DEF Inv
<1>1. \A x \in Attempt : keys(x)' = keys(x)
  BY RequestOps
<1>2. PICK i \in Indices : k \in keys(record.history[i].envelope)
  BY DEF Outcomes
<1>3. ASSUME NEW n \in Indices, k \in keys(record.history[n].envelope)
      PROVE  record.history[n].status \in Outcomes(k)'
  <2>1. /\ n \in Indices' /\ record'.history[n].envelope = record.history[n].envelope
        /\ record'.history[n].status = record.history[n].status
    BY HistoryKept DEF KeepsHistory, Indices
  <2>2. PICK x \in Attempt : x = record.history[n].envelope
    BY EntryType
  <2>3. k \in keys(record.history[n].envelope)'
    BY ZenonT(60), <1>1, <1>3, <2>1, <2>2 DEF keys, origin, entries
  <2> QED
    BY <2>1, <2>3 DEF Outcomes
<1>4. ASSUME NEW n \in Indices', NEW x \in Attempt, record'.history[n].envelope = x,
             k \in keys(x)
      PROVE  record'.history[n].status \in Outcomes(k)
  <2>1. CASE /\ n \in Indices /\ record.history[n].envelope = x
             /\ record.history[n].status = record'.history[n].status
    BY <1>4, <2>1 DEF Outcomes
  <2>2. CASE record'.history = record.history
    BY <1>4, <2>1, <2>2 DEF Indices
  <2>3. ASSUME NEW a \in Attempt, MarksLate(a)
        PROVE  record'.history[n].status \in Outcomes(k)
    BY <1>4, <2>1, <2>3 DEF MarksLate, Marks, Indices
  <2>4. ASSUME NEW a \in Attempt, Closes(a)
        PROVE  record'.history[n].status \in Outcomes(k)
    <3>1. PICK h \in Outcome :
            /\ record'.history = Append(record.history, h) /\ h.envelope = a
            /\ h.status = "indeterminate" \/ record.pending.kind # "redelivery"
      BY <2>4 DEF Closes
    <3>2. CASE n \in Indices
      BY <1>4, <2>1, <3>1, <3>2, AppendedHistory DEF Indices
    <3>3. CASE n \notin Indices
      <4>1. record'.history[n] = h /\ x = a
        BY <1>4, <3>1, <3>3, AppendedHistory DEF Indices
      <4>2. \E j \in Indices : /\ k \in keys(record.history[j].envelope)
                               /\ record.history[j].status = h.status
        BY <1>2, <1>4, <2>4, <3>1, <4>1, SameOutcome DEF Closes
      <4> QED
        BY <4>1, <4>2 DEF Outcomes
    <3> QED
      BY <3>2, <3>3
  <2> QED
    BY <2>2, <2>3, <2>4, HistorySteps
<1>5. \A n \in Indices' : record'.history[n].envelope \in Attempt
  <2>1. record'.history \in Seq(Outcome)
    BY HistoryKept DEF Record
  <2>2. \A n \in DOMAIN record'.history : record'.history[n] \in Outcome
    BY <2>1
  <2> QED
    BY <2>2 DEF Indices, Outcome
<1>6. Outcomes(k) \subseteq Outcomes(k)'
  BY <1>3 DEF Outcomes
<1>7. ASSUME NEW s \in Outcomes(k)' PROVE s \in Outcomes(k)
  <2>1. PICK n \in Indices' : /\ k \in keys(record.history[n].envelope)'
                              /\ s = record'.history[n].status
    BY <1>7 DEF Outcomes
  <2>2. PICK x \in Attempt : x = record'.history[n].envelope
    BY <1>5
  <2>3. k \in keys(x)'
    BY ZenonT(60), <2>1, <2>2 DEF keys, origin, entries
  <2> QED
    BY <1>1, <1>4, <2>1, <2>2, <2>3
<1> QED
  BY ZenonT(60), <1>6, <1>7

\* What is recorded of an invocation is never taken back: an indeterminate outcome
\* never turns terminal, also under a redelivery, and a known journal stays.
THEOREM OutcomesNeverChange == Spec => OutcomesStay
<1>1. Inv /\ [Next]_vars =>
        [/\ \A k \in Keys : Outcomes(k) # {} => Outcomes(k)' = Outcomes(k)
         /\ \A i \in Indices : record.history[i].journal # "indeterminate" =>
               \E j \in DOMAIN record'.history : record'.history[j] = record.history[i]]_record
  <2>1. ASSUME Inv, Next
        PROVE  /\ \A k \in Keys : Outcomes(k) # {} => Outcomes(k)' = Outcomes(k)
               /\ \A i \in Indices : record.history[i].journal # "indeterminate" =>
                     \E j \in DOMAIN record'.history : record'.history[j] = record.history[i]
    BY <2>1, OutcomesKept, JournalsStay
  <2> QED
    BY <2>1 DEF vars
<1> QED
  BY <1>1, Inductive, PTL DEF Spec, OutcomesStay
=============================================================================
