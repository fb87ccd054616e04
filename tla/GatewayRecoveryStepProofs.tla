---------------------- MODULE GatewayRecoveryStepProofs ----------------------
(***************************************************************************)
(* What the steps of GatewayRecovery do to the record, for any number of        *)
(* attempts, documents, Gateway processes and faults.                        *)
(*                                                                         *)
(* First what the ledger's operators return; then what each step writes, as one  *)
(* of thirteen changes to the record, with the fields each one leaves; then the  *)
(* first two conjuncts of the inductive invariant Inv, about the window and      *)
(* about the dispatches and their history.                                   *)
(***************************************************************************)
EXTENDS GatewayRecovery, TLAPS

-----------------------------------------------------------------------------
(* The ledger's operators                                                   *)

Key == Attempt \X Nat

\* installMutationHolds writes holds of the record's type.
LEMMA NewHoldType ==
    ASSUME NEW s \in Scopes, NEW o \in SUBSET Key
    PROVE  NewHold(s, o) \in Hold
  BY DEF NewHold, Hold, Key

\* A set of holds has ids of the record's type.
LEMMA IdType ==
    ASSUME NEW S \in SUBSET Hold
    PROVE  ids(S) \in SUBSET Id
<1> SUFFICES ASSUME NEW h \in S PROVE holdId(h) \in Id
  BY DEF ids
<1> h \in Hold
  OBVIOUS
<1> QED
  BY DEF holdId, Hold, Id

\* The conflicting holds are holds of the ledger.
LEMMA ConflictsType ==
    ASSUME NEW L, NEW scopes
    PROVE  conflictingMutationHolds(L, scopes) \subseteq L
  BY DEF conflictingMutationHolds

\* What the candidates are, whichever way they are grouped.
LEMMA CandidatesType ==
    ASSUME NEW K \in SUBSET Key, NEW u \in [K -> Scopes]
    PROVE  /\ candidateHolds(u) \in SUBSET Hold
           /\ \A h \in candidateHolds(u) :
                 h = NewHold(h.scope, h.origins) /\ h.origins # {} /\ h.origins \subseteq K
           /\ \A k \in K : \E h \in candidateHolds(u) :
                 k \in h.origins /\ mutationScopesConflict(h.scope, u[k])
<1> \A k \in K : u[k] \in Range(u)
  BY DEF Range
<1>1. CASE Session \in Range(u)
  <2>1. candidateHolds(u) = {NewHold(Session, K)}
    BY <1>1 DEF candidateHolds
  <2>2. K # {}
    BY <1>1 DEF Range
  <2>3. NewHold(Session, K).scope = Session /\ NewHold(Session, K).origins = K
    BY DEF NewHold
  <2>4. NewHold(Session, K) \in Hold
    BY NewHoldType DEF Scopes
  <2> QED
    BY <2>1, <2>2, <2>3, <2>4 DEF mutationScopesConflict
<1>2. CASE Session \notin Range(u)
  <2> DEFINE Part(s) == {k \in K : u[k] = s}
  <2>1. candidateHolds(u) = {NewHold(s, Part(s)) : s \in Range(u)}
    BY <1>2 DEF candidateHolds
  <2>2. ASSUME NEW s \in Range(u)
        PROVE  /\ NewHold(s, Part(s)) \in Hold
               /\ NewHold(s, Part(s)).scope = s
               /\ NewHold(s, Part(s)).origins = Part(s)
               /\ Part(s) # {} /\ Part(s) \subseteq K
    <3>1. PICK k \in K : u[k] = s
      BY DEF Range
    <3>2. s \in Scopes
      BY <3>1
    <3> QED
      BY <3>1, <3>2, NewHoldType DEF NewHold
  <2>3. ASSUME NEW k \in K PROVE k \in Part(u[k])
    OBVIOUS
  <2> HIDE DEF Part
  <2>4. candidateHolds(u) \in SUBSET Hold
    BY <2>1, <2>2
  <2>5. ASSUME NEW h \in candidateHolds(u)
        PROVE  h = NewHold(h.scope, h.origins) /\ h.origins # {} /\ h.origins \subseteq K
    BY <2>1, <2>2
  <2>6. ASSUME NEW k \in K
        PROVE  \E h \in candidateHolds(u) :
                   k \in h.origins /\ mutationScopesConflict(h.scope, u[k])
    BY <2>1, <2>2, <2>3 DEF mutationScopesConflict
  <2> QED
    BY <2>4, <2>5, <2>6
<1> QED
  BY <1>1, <1>2

\* Updates of a ledger change holds one by one, and never a hold's identity.
Image(L, F) == {F[h] : h \in L}
KeepsIds(L, F) == F \in [L -> Hold] /\ \A h \in L : holdId(F[h]) = holdId(h)
UniqueIds(L) == \A g, h \in L : holdId(g) = holdId(h) => g = h

\* A rewriting of the ledger that keeps ids keeps them unique.
LEMMA ImageUnique ==
    ASSUME NEW L \in SUBSET Hold, NEW F, KeepsIds(L, F), UniqueIds(L)
    PROVE  UniqueIds(Image(L, F)) /\ Image(L, F) \in SUBSET Hold
  BY DEF UniqueIds, KeepsIds, Image

EvidenceOn(h, id, e) ==
    IF holdId(h) = id /\ Conclusive(e)
    THEN [h EXCEPT !.state = "evidence_recorded", !.evidence = e]
    ELSE h

\* Evidence changes neither the type nor the id of a hold.
LEMMA EvidenceOnType ==
    ASSUME NEW h \in Hold, NEW id, NEW e \in Evidence
    PROVE  EvidenceOn(h, id, e) \in Hold /\ holdId(EvidenceOn(h, id, e)) = holdId(h)
  BY Zenon DEF EvidenceOn, Hold, holdId

\* recordEvidence rewrites the ledger hold by hold.
LEMMA RecordEvidence ==
    ASSUME NEW L \in SUBSET Hold, NEW id, NEW e \in Evidence
    PROVE  \E F : /\ KeepsIds(L, F)
                  /\ recordEvidence(L, id, e) = Image(L, F)
                  /\ \A h \in L : F[h] = EvidenceOn(h, id, e)
<1> DEFINE F == [h \in L |-> EvidenceOn(h, id, e)]
<1>1. KeepsIds(L, F)
  BY EvidenceOnType DEF KeepsIds
<1>2. recordEvidence(L, id, e) = Image(L, F)
  BY Zenon DEF recordEvidence, updateHold, Image, EvidenceOn
<1>3. \A h \in L : F[h] = EvidenceOn(h, id, e)
  OBVIOUS
<1> QED
  BY <1>1, <1>2, <1>3

ResolvedFor(h, resolution, envelope) ==
    [h EXCEPT !.state = "resolved_pending_bridge", !.resolution = resolution,
              !.authorized = envelope]

\* What a resolution changes of a hold, and that its id stays.
LEMMA ResolvedForType ==
    ASSUME NEW h \in Hold, NEW r \in Attempt, NEW a \in Attempt
    PROVE  /\ ResolvedFor(h, r, a) \in Hold /\ holdId(ResolvedFor(h, r, a)) = holdId(h)
           /\ ResolvedFor(h, r, a).state = "resolved_pending_bridge"
           /\ ResolvedFor(h, r, a).authorized = a
           /\ ResolvedFor(h, r, a).evidence = h.evidence
           /\ ResolvedFor(h, r, a).clearedBy = h.clearedBy
           /\ ResolvedFor(h, r, a).origins = h.origins
  BY Zenon DEF ResolvedFor, Hold, holdId

\* The holds that clearances cs name are resolved for envelope a.
Named(h, cs) == \E c \in cs : c.holdId = holdId(h)
Resolves(L, F, cs, a) ==
    /\ KeepsIds(L, F)
    /\ \A h \in L : IF Named(h, cs)
                    THEN \E r \in Attempt : F[h] = ResolvedFor(h, r, a)
                    ELSE F[h] = h

\* resolveMutationHold rewrites the holds that the plan names and no other.
LEMMA ResolveHolds ==
    ASSUME NEW L \in SUBSET Hold, NEW cs \in SUBSET PlanClearance, NEW a \in Attempt
    PROVE  \E F : Resolves(L, F, cs, a) /\ resolveMutationHold(L, cs, a) = Image(L, F)
<1> DEFINE Chosen(h) == (CHOOSE c \in cs : c.holdId = holdId(h)).resolution
           F == [h \in L |-> IF Named(h, cs) THEN ResolvedFor(h, Chosen(h), a) ELSE h]
<1>1. ASSUME NEW h \in L, Named(h, cs) PROVE Chosen(h) \in Attempt
  BY <1>1 DEF Named, PlanClearance
<1>2. resolveMutationHold(L, cs, a) = Image(L, F)
  BY DEF resolveMutationHold, Image, Named, ResolvedFor
<1> HIDE DEF Chosen
<1>3. KeepsIds(L, F)
  BY <1>1, ResolvedForType DEF KeepsIds
<1>4. ASSUME NEW h \in L
      PROVE  IF Named(h, cs) THEN \E r \in Attempt : F[h] = ResolvedFor(h, r, a) ELSE F[h] = h
  BY <1>1
<1>5. Resolves(L, F, cs, a)
  BY <1>3, <1>4 DEF Resolves
<1> HIDE DEF F
<1> QED
  BY <1>2, <1>5

ClearedFor(h, envelope) == [h EXCEPT !.state = "cleared", !.clearedBy = envelope]

\* What the acceptance changes of a hold, and that its id stays.
LEMMA ClearedForType ==
    ASSUME NEW h \in Hold, NEW a \in Attempt
    PROVE  /\ ClearedFor(h, a) \in Hold /\ holdId(ClearedFor(h, a)) = holdId(h)
           /\ ClearedFor(h, a).state = "cleared" /\ ClearedFor(h, a).clearedBy = a
           /\ ClearedFor(h, a).authorized = h.authorized
           /\ ClearedFor(h, a).evidence = h.evidence
           /\ ClearedFor(h, a).origins = h.origins
  BY Zenon DEF ClearedFor, Hold, holdId

\* The holds that envelope a clears were resolved for it.
Clears(L, F, a) ==
    /\ KeepsIds(L, F)
    /\ \A h \in L : \/ F[h] = h
                    \/ /\ h.state = "resolved_pending_bridge" /\ h.authorized = a
                       /\ F[h] = ClearedFor(h, a)

\* An allowed dispatch clears holds resolved for its envelope only, and every
\* uncleared hold on its scopes is among them.
LEMMA AllowedDispatch ==
    ASSUME NEW L \in SUBSET Hold, NEW scopes, NEW cs, NEW a \in Attempt,
           authorizeMutationDispatch(L, scopes, cs, a).kind = "allowed"
    PROVE  /\ \E F : Clears(L, F, a)
                     /\ authorizeMutationDispatch(L, scopes, cs, a).ledger = Image(L, F)
           /\ LET conflicts == conflictingMutationHolds(L, scopes)
              IN  conflicts # {} =>
                    /\ authorizeMutationDispatch(L, scopes, cs, a).holdIds = ids(conflicts)
                    /\ \A h \in conflicts : h.authorized = a
<1> DEFINE conflicts == conflictingMutationHolds(L, scopes)
           matched == /\ Cardinality(cs) = Cardinality(conflicts)
                      /\ \A h \in conflicts :
                             /\ h.state = "resolved_pending_bridge"
                             /\ h.authorized = a
                             /\ \E c \in cs : clearanceMatches(h, c)
           repeated == \A c \in cs : \E h \in L :
                           /\ h.state = "cleared" /\ h.clearedBy = a
                           /\ \E s \in scopes : mutationScopesConflict(h.scope, s)
                           /\ clearanceMatches(h, c)
           R == authorizeMutationDispatch(L, scopes, cs, a)
           cleared == {IF h \in conflicts THEN ClearedFor(h, a) ELSE h : h \in L}
<1> HIDE DEF conflicts, matched, repeated, cleared
<1>1. R = CASE conflicts = {} /\ repeated ->
                   [kind |-> "allowed", ledger |-> L, holdIds |-> {c.holdId : c \in cs}]
            [] conflicts # {} /\ matched ->
                   [kind |-> "allowed", ledger |-> cleared, holdIds |-> ids(conflicts)]
            [] OTHER ->
                   [kind |-> "refused", ledger |-> L, holdIds |-> ids(conflicts)]
  BY DEF authorizeMutationDispatch, conflicts, matched, repeated, cleared, ClearedFor
<1> HIDE DEF R
<1>2. \/ conflicts = {} /\ R.ledger = L
      \/ conflicts # {} /\ matched /\ R.ledger = cleared /\ R.holdIds = ids(conflicts)
  BY <1>1 DEF R
<1>3. CASE conflicts = {} /\ R.ledger = L
  <2> DEFINE F == [h \in L |-> h]
  <2>1. Clears(L, F, a)
    BY DEF Clears, KeepsIds
  <2>2. R.ledger = Image(L, F)
    BY <1>3 DEF Image
  <2> QED
    BY <1>3, <2>1, <2>2 DEF R, conflicts
<1>4. CASE conflicts # {} /\ matched /\ R.ledger = cleared /\ R.holdIds = ids(conflicts)
  <2> DEFINE F == [h \in L |-> IF h \in conflicts THEN ClearedFor(h, a) ELSE h]
  <2>1. ASSUME NEW h \in conflicts
        PROVE  h.state = "resolved_pending_bridge" /\ h.authorized = a
    BY <1>4 DEF matched
  <2>2. Clears(L, F, a)
    BY <2>1, ClearedForType DEF Clears, KeepsIds
  <2>3. R.ledger = Image(L, F)
    BY <1>4 DEF Image, cleared
  <2> QED
    BY <1>4, <2>1, <2>2, <2>3 DEF R, conflicts
<1> QED
  BY <1>2, <1>3, <1>4

\* authorizeMutationDispatch returns ids of the record's type.
LEMMA DispatchIds ==
    ASSUME NEW L \in SUBSET Hold, NEW scopes, NEW cs \in SUBSET PlanClearance, NEW a
    PROVE  authorizeMutationDispatch(L, scopes, cs, a).holdIds \in SUBSET Id
<1> DEFINE conflicts == conflictingMutationHolds(L, scopes)
<1>1. ids(conflicts) \in SUBSET Id
  BY ConflictsType, IdType
<1>2. {c.holdId : c \in cs} \in SUBSET Id
  BY DEF PlanClearance
<1>3. authorizeMutationDispatch(L, scopes, cs, a).holdIds
          \in {ids(conflicts), {c.holdId : c \in cs}}
  BY DEF authorizeMutationDispatch
<1> QED
  BY <1>1, <1>2, <1>3

\* installMutationHolds adds to the ledger, and unless it is blocked it leaves a
\* hold for every key.
LEMMA InstallHolds ==
    ASSUME NEW L \in SUBSET Hold, NEW K \in SUBSET Key, NEW u \in [K -> Scopes]
    PROVE  LET R == installMutationHolds(L, u)
           IN  /\ R.ledger \in SUBSET Hold /\ R.holdIds \in SUBSET Id
               /\ L \subseteq R.ledger
               /\ \A h \in R.ledger : h \in L \/ h \in candidateHolds(u)
               /\ R.kind = "blocked" \/
                     \A k \in K : \E h \in R.ledger :
                         k \in h.origins /\ mutationScopesConflict(h.scope, u[k])
<1> DEFINE candidates == candidateHolds(u)
           conflicts == conflictingMutationHolds(L, {h.scope : h \in candidates})
           R == installMutationHolds(L, u)
           present == ids(candidates) \subseteq ids({h \in L : isUncleared(h)})
<1> HIDE DEF candidates, conflicts, present
<1>1. R = CASE present ->
                   [kind |-> "already_present", ledger |-> L, holdIds |-> ids(candidates)]
            [] OTHER ->
                   IF conflicts # {}
                   THEN [kind |-> "blocked", ledger |-> L, holdIds |-> ids(conflicts)]
                   ELSE [kind |-> "installed", ledger |-> L \cup candidates,
                         holdIds |-> ids(candidates)]
  BY DEF installMutationHolds, candidates, conflicts, present
<1> HIDE DEF R
<1>2. candidates \in SUBSET Hold /\ conflicts \in SUBSET Hold
  BY CandidatesType, ConflictsType DEF candidates, conflicts
<1>3. ids(candidates) \in SUBSET Id /\ ids(conflicts) \in SUBSET Id
  BY <1>2, IdType
<1>4. ASSUME NEW k \in K
      PROVE  \E h \in candidates : k \in h.origins /\ mutationScopesConflict(h.scope, u[k])
  BY CandidatesType DEF candidates
<1>5. CASE present
  <2>1. R.ledger = L /\ R.holdIds = ids(candidates)
    BY <1>1, <1>5
  <2>2. ASSUME NEW k \in K
        PROVE  \E h \in L : k \in h.origins /\ mutationScopesConflict(h.scope, u[k])
    <3>1. PICK h \in candidates : k \in h.origins /\ mutationScopesConflict(h.scope, u[k])
      BY <1>4
    <3>2. PICK g \in L : holdId(g) = holdId(h)
      BY <1>5, <3>1 DEF present, ids
    <3>3. g.scope = h.scope /\ g.origins = h.origins
      BY <3>2 DEF holdId
    <3> QED
      BY <3>1, <3>3
  <2> QED
    BY <2>1, <2>2, <1>3 DEF R
<1>6. CASE ~present /\ conflicts # {}
  <2>1. R.ledger = L /\ R.holdIds = ids(conflicts) /\ R.kind = "blocked"
    BY <1>1, <1>6
  <2> QED
    BY <2>1, <1>3 DEF R
<1>7. CASE ~present /\ conflicts = {}
  <2>1. R.ledger = L \cup candidates /\ R.holdIds = ids(candidates)
    BY <1>1, <1>7
  <2> QED
    BY <2>1, <1>2, <1>3, <1>4 DEF R, candidates
<1> QED
  BY <1>5, <1>6, <1>7

-----------------------------------------------------------------------------
(* What a step writes.  A transaction commits or leaves the record alone; what   *)
(* it reports decides only where its attempt goes on.                        *)

Mutating(a) == Is(a, {"auto", "commit", "next"})
Own(a) == record.pending.envelope = a
Allowed(p) == Accepted(p).kind = "allowed" /\ Accepted(p).holdIds = p.holdIds

Acquired(a) ==
    /\ record.window = None /\ ~HasPending
    /\ record' = [record EXCEPT !.window = a]

Released(a) ==
    /\ record.window = a /\ ~HasPending
    /\ record' = [record EXCEPT !.window = None]

MutationAdmitted(a) ==
    /\ At(a, "prepare") /\ Mutating(a) /\ Dispatchable(a)
    /\ record' = Prepared(a)

VerificationAdmitted(a) ==
    /\ At(a, "prepare") /\ Is(a, {"verify"})
    /\ record.window = a /\ ~HasPending /\ ~HasPlan
    /\ \E h \in record.holds :
          record' = [record EXCEPT !.pending = Pending(a, "verification", {holdId(h)}, {})]

RedeliveryAdmitted(a) ==
    /\ At(a, "prepare") /\ Is(a, {"redeliver"})
    /\ record.window = a /\ ~HasPending /\ entries(a) = entries(origin(a))
    /\ \E i \in Indices :
          /\ IndeterminateOrigin(record.history[i], a)
          /\ ids(Conflicts(a)) = record.history[i].holdIds
          /\ \A h \in Conflicts(a) : h.origins \subseteq keys(record.history[i].envelope)
          /\ record' = [record EXCEPT !.pending =
                            Pending(a, "redelivery", record.history[i].holdIds, {})]

\* A dispatch that was never sent, or whose known result is recorded.
TerminalClosed(a) ==
    LET p == record.pending
    IN  /\ Own(a) /\ p.kind # "redelivery"
        /\ \E L \in {record.holds, Accepted(p).ledger}, I \in {{}, p.holdIds},
              accepted \in BOOLEAN :
              /\ L # record.holds => evidence[a].accepted /\ Allowed(p)
              /\ record' = Closed(L, History("terminal", p, "known_terminal", accepted, I))

AcceptanceRecorded(a) ==
    LET p == record.pending
    IN  /\ Own(a) /\ evidence[a].accepted /\ Allowed(p)
        /\ record' = [record EXCEPT !.holds = Accepted(p).ledger, !.pending.accepted = TRUE]

ReadRecorded(a) ==
    /\ Own(a) /\ evidence[a].journal = "known_terminal"
    /\ record' = [record EXCEPT !.pending.accepted = TRUE,
                                !.pending.journal = "known_terminal"]

LateClosed(a) ==
    LET p == record.pending
    IN  /\ Own(a) /\ evidence[a].accepted /\ Allowed(p)
        /\ \E i \in Indices :
              /\ record.history[i].status = "indeterminate"
              /\ p.kind = "redelivery" \/ record.history[i].envelope = a
              /\ record' = [record EXCEPT !.holds = Accepted(p).ledger,
                                          !.pending = NoDispatch,
                                          !.history[i].journal = "late_terminal"]

IndeterminateClosed(a) ==
    LET p == record.pending
        installed == installMutationHolds(Accepted(p).ledger, mutationEntries(a))
    IN  /\ Own(a) /\ evidence[a].accepted /\ Allowed(p)
        /\ p.kind \notin {"redelivery", "verification"}
        /\ installed.kind = "blocked" =>
              \A k \in keys(a) : isOriginRedeliveryExempt(record.holds, k)
        /\ record' = Closed(installed.ledger,
                            History("indeterminate", p, "indeterminate", TRUE,
                                    installed.holdIds))

RedeliveryClosed(a) ==
    LET p == record.pending
    IN  /\ Own(a) /\ p.kind = "redelivery"
        /\ record' = Closed(record.holds,
                            History("indeterminate", p, "indeterminate", TRUE,
                                    ids(Conflicts(a))))

Concluded(a) ==
    LET p == record.pending
    IN  /\ Own(a) /\ p.kind = "verification" /\ p.journal = "known_terminal"
        /\ \E h \in record.holds, c \in Conclusions :
              /\ holdId(h) \in p.holdIds /\ OpenToEvidence(h)
              /\ record' = Closed(recordEvidence(record.holds, holdId(h),
                                                 EvidenceOf("verification_read", a, c)),
                                  History("terminal", p, "known_terminal", TRUE, p.holdIds))

PlanStored(a) ==
    /\ ~HasPending
    /\ \E h \in record.holds :
          /\ h.state = "evidence_recorded"
          /\ record' = [record EXCEPT !.plan = [id |-> a, scopes |-> {h.scope},
                                                clearances |-> {Clearance(h, a)}]]

RecordStep(a) ==
    \/ Acquired(a) \/ Released(a)
    \/ MutationAdmitted(a) \/ VerificationAdmitted(a) \/ RedeliveryAdmitted(a)
    \/ TerminalClosed(a) \/ AcceptanceRecorded(a) \/ ReadRecorded(a) \/ LateClosed(a)
    \/ IndeterminateClosed(a) \/ RedeliveryClosed(a)
    \/ Concluded(a) \/ PlanStored(a)

\* A transaction writes all it staged or nothing, whatever it reports.
LEMMA StageWrites ==
    ASSUME NEW a, NEW r, NEW c, NEW s, NEW f, StageAll(a, r, c, s, f)
    PROVE  /\ \/ record' = r /\ confirmation' = c
              \/ record' = record /\ confirmation' = confirmation
           /\ Goes(a, s) \/ Goes(a, f)
           /\ evidence' = evidence
           /\ faults' = faults \/ Fault
  BY DEF StageAll, Fault

\* A refused request leaves the record and the confirmations alone.
LEMMA RefuseKeeps ==
    ASSUME NEW a, NEW s, Refuse(a, s)
    PROVE  /\ record' = record /\ confirmation' = confirmation
           /\ evidence' = evidence /\ faults' = faults /\ Goes(a, s)
  BY DEF Refuse, Goes

\* The ways in which reconcilePendingDispatch writes the record.
LEMMA ReconcileWrites ==
    ASSUME NEW a \in Attempt, reconcilePendingDispatch(a), record' # record
    PROVE  /\ Own(a)
           /\ \/ TerminalClosed(a) \/ AcceptanceRecorded(a) \/ ReadRecorded(a)
              \/ LateClosed(a) \/ IndeterminateClosed(a) \/ RedeliveryClosed(a)
<1> DEFINE p == record.pending
<1> USE DEF Stage
<1>0. ~Refuse(a, "release")
  BY RefuseKeeps
<1>1. /\ p.envelope = a /\ Observed(a)
      /\ \/ reconcileNoSend(a, p)
         \/ /\ evidence[a].accepted
            /\ Allowed(p)
            /\ \/ reconcileAcceptance(a, p) \/ reconcileVerification(a, p)
               \/ reconcileKnown(a, p) \/ reconcileLate(a, p) \/ reconcileIndeterminate(a, p)
  BY <1>0 DEF reconcilePendingDispatch, Allowed
<1>2. CASE reconcileNoSend(a, p)
  <2> DEFINE I == IF p.kind = "verification" THEN {} ELSE p.holdIds
             r == Closed(record.holds, History("terminal", p, "known_terminal", FALSE, I))
  <2>1. StageAll(a, r, confirmation, "release", "release") /\ ~Redelivery(p)
    BY Zenon, <1>2 DEF reconcileNoSend
  <2> HIDE DEF r
  <2>2. record' = r
    BY <2>1, StageWrites
  <2> USE DEF r
  <2>3. I \in {{}, p.holdIds} /\ FALSE \in BOOLEAN
    OBVIOUS
  <2> HIDE DEF I
  <2>4. TerminalClosed(a)
    BY Zenon, <1>1, <2>1, <2>2, <2>3 DEF TerminalClosed, Redelivery, Own
  <2> QED
    BY <1>1, <2>4 DEF Own
<1>3. CASE reconcileAcceptance(a, p) /\ evidence[a].accepted /\ Allowed(p)
  <2>1. record' = [record EXCEPT !.holds = Accepted(p).ledger, !.pending.accepted = TRUE]
    BY <1>3, StageWrites DEF reconcileAcceptance
  <2> QED
    BY <1>1, <1>3, <2>1 DEF AcceptanceRecorded, Own
<1>4. CASE reconcileVerification(a, p)
  <2>1. record' = [record EXCEPT !.pending.accepted = TRUE,
                                 !.pending.journal = "known_terminal"]
    BY <1>4, StageWrites DEF reconcileVerification
  <2> QED
    BY <1>1, <1>4, <2>1 DEF ReadRecorded, Own, reconcileVerification
<1>5. CASE reconcileKnown(a, p) /\ evidence[a].accepted /\ Allowed(p)
  <2> DEFINE r == Closed(Accepted(p).ledger,
                         History("terminal", p, "known_terminal", TRUE, p.holdIds))
  <2>1. StageAll(a, r, confirmation, "release", "release") /\ p.kind = "mutation"
    BY Zenon, <1>5 DEF reconcileKnown
  <2>2. record' = r
    BY Zenon, <2>1, StageWrites
  <2>3. p.holdIds \in {{}, p.holdIds} /\ TRUE \in BOOLEAN
    OBVIOUS
  <2>4. TerminalClosed(a)
    BY ZenonT(60), <1>1, <1>5, <2>1, <2>2, <2>3 DEF TerminalClosed, Own
  <2> QED
    BY <1>1, <2>4 DEF Own
<1>6. CASE reconcileLate(a, p) /\ evidence[a].accepted /\ Allowed(p)
  <2>1. PICK i \in Newest(LAMBDA h : LateOrigin(h, p)) :
            StageAll(a, [record EXCEPT !.holds = Accepted(p).ledger,
                                       !.pending = NoDispatch,
                                       !.history[i].journal = "late_terminal"],
                     confirmation, "release", "release")
    BY Zenon, <1>6 DEF reconcileLate
  <2>2. /\ i \in Indices /\ record.history[i].status = "indeterminate"
        /\ p.kind = "redelivery" \/ record.history[i].envelope = a
    BY <1>1, <2>1 DEF Newest, LateOrigin, Redelivery
  <2>3. record' = [record EXCEPT !.holds = Accepted(p).ledger,
                                 !.pending = NoDispatch,
                                 !.history[i].journal = "late_terminal"]
    BY <2>1, StageWrites
  <2> QED
    BY Zenon, <1>1, <1>6, <2>2, <2>3 DEF LateClosed, Own
<1>7. CASE reconcileIndeterminate(a, p) /\ evidence[a].accepted /\ Allowed(p)
  <2> DEFINE installed == installMutationHolds(Accepted(p).ledger, mutationEntries(a))
             exempt == \A k \in keys(a) : isOriginRedeliveryExempt(record.holds, k)
             r == Closed(record.holds,
                         History("indeterminate", p, "indeterminate", TRUE, ids(Conflicts(a))))
             q == Closed(installed.ledger,
                         History("indeterminate", p, "indeterminate", TRUE, installed.holdIds))
  <2>1. \/ Redelivery(p) /\ StageAll(a, r, confirmation, "release", "release")
        \/ /\ ~Redelivery(p) /\ p.kind # "verification"
           /\ installed.kind = "blocked" => exempt
           /\ StageAll(a, q, confirmation, "release", "release")
    BY Zenon, <1>7 DEF reconcileIndeterminate
  <2>2. CASE Redelivery(p) /\ StageAll(a, r, confirmation, "release", "release")
    <3>1. record' = r
      BY Zenon, <2>2, StageWrites
    <3> QED
      BY <1>1, <2>2, <3>1 DEF RedeliveryClosed, Own, Redelivery
  <2>3. CASE /\ ~Redelivery(p) /\ p.kind # "verification"
             /\ installed.kind = "blocked" => exempt
             /\ StageAll(a, q, confirmation, "release", "release")
    <3>1. record' = q
      BY Zenon, <2>3, StageWrites
    <3> QED
      BY <1>1, <1>7, <2>3, <3>1 DEF IndeterminateClosed, Own, Redelivery
  <2> QED
    BY Zenon, <2>1, <2>2, <2>3
<1> QED
  BY <1>1, <1>2, <1>3, <1>4, <1>5, <1>6, <1>7

-----------------------------------------------------------------------------
(* Where a step takes its attempt, and what becomes of the confirmations.      *)

\* An attempt that has not prepared a dispatch, and one whose preview has not ended.
Fresh == {"idle", "acquire", "preview", "preflight", "build", "prepare"}
Unissued == {"idle", "acquire", "preview"}

ActionIssued(a) ==
    /\ At(a, "preview") /\ record' = record
    /\ confirmation' = [confirmation EXCEPT ![a] = Issued(entries(a))]

ActionExpired(a) ==
    /\ Confirmed(a) /\ record' = record
    /\ token(a).state \in {"pending", "expired"}
    /\ confirmation' = expireConfirmation(a)

ActionConsumed(a) ==
    /\ Confirmed(a) /\ MutationAdmitted(a)
    /\ token(a).state = "pending" /\ token(a).entries = entries(a)
    /\ confirmation' = stageConsumption(a)

\* What is the same for every step of attempt a.
Effect(a) ==
    /\ record' = record \/ RecordStep(a)
    /\ \/ record'.window = record.window
       \/ Acquired(a)
       \/ Released(a) /\ att'[a].step = "done"
    /\ att'[a].step \in InWindow => att[a].step \in InWindow \/ Acquired(a)
    /\ att'[a].step \in Fresh =>
          att[a].step \in Fresh /\ (record' = record \/ Acquired(a))
    /\ att'[a].step \in Unissued =>
          att[a].step \in Unissued /\ confirmation' = confirmation
    /\ \/ confirmation' = confirmation /\ (Confirmed(a) /\ At(a, "prepare") => record' = record)
       \/ ActionIssued(a) \/ ActionExpired(a) \/ ActionConsumed(a)

\* The attempt goes on; its request and the other attempts are untouched.
LEMMA GoesStep ==
    ASSUME TypeOK, NEW a \in Attempt, NEW s, Goes(a, s)
    PROVE  /\ att'[a].step = s
           /\ \A b \in Attempt : /\ b # a => att'[b] = att[b]
                                 /\ att'[b].request = att[b].request
                                 /\ att'[b].clearances = att[b].clearances
                                 /\ att'[b].inTime = att[b].inTime
  BY DEF TypeOK, Goes

\* Only acquisition and release write the window.
LEMMA WindowKept ==
    ASSUME TypeOK, NEW a \in Attempt,
           \/ MutationAdmitted(a) \/ VerificationAdmitted(a) \/ RedeliveryAdmitted(a)
           \/ TerminalClosed(a) \/ AcceptanceRecorded(a) \/ ReadRecorded(a) \/ LateClosed(a)
           \/ IndeterminateClosed(a) \/ RedeliveryClosed(a) \/ Concluded(a) \/ PlanStored(a)
    PROVE  record'.window = record.window
<1> record \in Record
  BY DEF TypeOK
<1> USE DEF Record
<1>1. CASE MutationAdmitted(a)
  BY <1>1 DEF MutationAdmitted, Prepared
<1>2. CASE VerificationAdmitted(a)
  BY <1>2 DEF VerificationAdmitted
<1>3. CASE RedeliveryAdmitted(a)
  BY <1>3 DEF RedeliveryAdmitted
<1>4. CASE TerminalClosed(a)
  BY Zenon, <1>4 DEF TerminalClosed, Closed
<1>5. CASE AcceptanceRecorded(a)
  BY <1>5 DEF AcceptanceRecorded
<1>6. CASE ReadRecorded(a)
  BY <1>6 DEF ReadRecorded
<1>7. CASE LateClosed(a)
  BY Zenon, <1>7 DEF LateClosed
<1>8. CASE IndeterminateClosed(a)
  BY <1>8 DEF IndeterminateClosed, Closed
<1>9. CASE RedeliveryClosed(a)
  BY <1>9 DEF RedeliveryClosed, Closed
<1>10. CASE Concluded(a)
  BY Zenon, <1>10 DEF Concluded, Closed
<1>11. CASE PlanStored(a)
  BY <1>11 DEF PlanStored
<1> QED
  BY <1>1, <1>2, <1>3, <1>4, <1>5, <1>6, <1>7, <1>8, <1>9, <1>10, <1>11

\* A step that leaves record and confirmations alone.
LEMMA QuietEffect ==
    ASSUME TypeOK, NEW a \in Attempt, record' = record, confirmation' = confirmation,
           att'[a].step \in InWindow => att[a].step \in InWindow,
           att'[a].step \in Fresh => att[a].step \in Fresh,
           att'[a].step \in Unissued => att[a].step \in Unissued
    PROVE  Effect(a)
  BY DEF Effect

\* The steps before a dispatch is prepared, and the release of the window.
LEMMA PreviewEffects ==
    ASSUME TypeOK, NEW a \in Attempt,
           Start(a) \/ acquireInvocationWindow(a) \/ createPendingAction(a)
           \/ preflightMutation(a) \/ prepareNext(a) \/ auditApproval(a) \/ executePrepared(a)
           \/ releaseInvocationWindow(a)
    PROVE  Effect(a)
<1> USE DEF Stage
<1> USE DEF InWindow, Fresh, Unissued
<1>0. ASSUME NEW s, Refuse(a, s), s \in {"acquire", "done", "release"}, s = "acquire" => At(a, "idle"),
             s = "release" => att[a].step \in InWindow
      PROVE  Effect(a)
  <2>1. att'[a].step = s
    BY <1>0, RefuseKeeps, GoesStep
  <2>2. record' = record /\ confirmation' = confirmation
    BY <1>0, RefuseKeeps
  <2> QED
    BY <1>0, <2>1, <2>2, QuietEffect DEF At
<1>1. CASE Start(a)
  BY <1>1, <1>0 DEF Start
<1>2. CASE acquireInvocationWindow(a)
  <2>1. CASE Refuse(a, "done")
    BY <2>1, <1>0
  <2>2. CASE /\ record.window = None /\ ~HasPending
             /\ StageAll(a, [record EXCEPT !.window = a], confirmation, FirstStep(a), "done")
    <3>1. /\ record' = [record EXCEPT !.window = a] \/ record' = record
          /\ confirmation' = confirmation
          /\ Goes(a, FirstStep(a)) \/ Goes(a, "done")
      BY <2>2, StageWrites
    <3>2. FirstStep(a) \in {"preview", "preflight", "build", "prepare"}
      BY DEF FirstStep, Is
    <3>3. att[a].step = "acquire"
      BY <1>2 DEF acquireInvocationWindow, At
    <3>4. record' = record => att'[a].step = "done"
      <4>1. SUFFICES ASSUME record' = record PROVE Goes(a, "done")
        BY GoesStep
      <4>2. [record EXCEPT !.window = a] # record
        BY <2>2, NoneAssumption DEF TypeOK, Record
      <4> QED
        BY <2>2, <4>1, <4>2 DEF StageAll, Goes
    <3>5. att'[a].step \in {FirstStep(a), "done"}
      BY <3>1, GoesStep
    <3>6. CASE record' = record
      BY <3>1, <3>4, <3>6, QuietEffect
    <3>7. CASE record' = [record EXCEPT !.window = a]
      <4>1. Acquired(a)
        BY <2>2, <3>7 DEF Acquired
      <4> QED
        BY <3>1, <3>2, <3>3, <3>5, <4>1 DEF Effect, RecordStep, At
    <3> QED
      BY <3>1, <3>6, <3>7
  <2> QED
    BY <1>2, <2>1, <2>2 DEF acquireInvocationWindow
<1>3. CASE createPendingAction(a)
  <2>1. att[a].step = "preview"
    BY <1>3 DEF createPendingAction, At
  <2>2. CASE Refuse(a, "release")
    BY <2>1, <2>2, <1>0
  <2>3. CASE StageAll(a, record, [confirmation EXCEPT ![a] = Issued(entries(a))],
                      "release", "release")
    <3>1. /\ record' = record
          /\ \/ confirmation' = confirmation
             \/ confirmation' = [confirmation EXCEPT ![a] = Issued(entries(a))]
          /\ att'[a].step = "release"
      BY <2>3, StageWrites, GoesStep
    <3> QED
      BY <2>1, <3>1 DEF Effect, ActionIssued, At
  <2> QED
    BY <1>3, <2>2, <2>3 DEF createPendingAction
<1>4. CASE preflightMutation(a)
  <2>1. att[a].step = "preflight" /\ record' = record /\ confirmation' = confirmation
    BY <1>4 DEF preflightMutation, At, Refuse
  <2>2. att'[a].step \in {"release", "prepare"}
    BY <1>4, GoesStep, RefuseKeeps DEF preflightMutation, TypeOK
  <2> QED
    BY <2>1, <2>2, QuietEffect
<1>5. CASE prepareNext(a)
  <2>1. att[a].step = "build" /\ record' = record /\ confirmation' = confirmation
    BY <1>5 DEF prepareNext, At
  <2>2. att'[a].step \in {"release", "prepare"}
    BY <1>5, GoesStep DEF prepareNext, TypeOK
  <2> QED
    BY <2>1, <2>2, QuietEffect
<1>6. CASE auditApproval(a)
  <2>1. att[a].step = "approve" /\ record' = record /\ confirmation' = confirmation
    BY <1>6 DEF auditApproval, At
  <2>2. att'[a].step \in {"execute", "release"}
    BY <1>6, GoesStep DEF auditApproval
  <2> QED
    BY <2>1, <2>2, QuietEffect
<1>7. CASE executePrepared(a)
  <2>1. att[a].step = "execute" /\ record' = record /\ confirmation' = confirmation
    BY <1>7 DEF executePrepared, At
  <2>2. att'[a].step = "reconcile"
    BY <1>7, GoesStep DEF executePrepared
  <2> QED
    BY <2>1, <2>2, QuietEffect
<1>8. CASE releaseInvocationWindow(a)
  <2>1. CASE Refuse(a, "done")
    BY <2>1, <1>0
  <2>2. CASE /\ record.window = a /\ ~HasPending
             /\ StageAll(a, [record EXCEPT !.window = None], confirmation, "done", "done")
    <3>1. /\ record' = [record EXCEPT !.window = None] \/ record' = record
          /\ confirmation' = confirmation
          /\ att'[a].step = "done"
      BY <2>2, StageWrites, GoesStep
    <3>2. CASE record' = record
      BY <3>1, <3>2, QuietEffect
    <3>3. CASE record' = [record EXCEPT !.window = None]
      <4>1. Released(a)
        BY <2>2, <3>3 DEF Released
      <4>2. ~At(a, "prepare")
        BY <1>8 DEF releaseInvocationWindow, At
      <4> QED
        BY <3>1, <4>1, <4>2 DEF Effect, RecordStep
    <3> QED
      BY <3>1, <3>2, <3>3
  <2> QED
    BY <1>8, <2>1, <2>2 DEF releaseInvocationWindow
<1> QED
  BY <1>1, <1>2, <1>3, <1>4, <1>5, <1>6, <1>7, <1>8

\* A step that is past the preparation, or is one.
LEMMA DispatchEffect ==
    ASSUME TypeOK, NEW a \in Attempt, att[a].step \in InWindow, att'[a].step \notin Fresh,
           \/ record' = record
           \/ MutationAdmitted(a) \/ VerificationAdmitted(a) \/ RedeliveryAdmitted(a)
           \/ TerminalClosed(a) \/ AcceptanceRecorded(a) \/ ReadRecorded(a) \/ LateClosed(a)
           \/ IndeterminateClosed(a) \/ RedeliveryClosed(a) \/ Concluded(a) \/ PlanStored(a),
           \/ /\ confirmation' = confirmation
              /\ Confirmed(a) /\ At(a, "prepare") => record' = record
           \/ ActionExpired(a) \/ ActionConsumed(a)
    PROVE  Effect(a)
<1>1. record'.window = record.window
  BY WindowKept
<1>2. record' = record \/ RecordStep(a)
  BY DEF RecordStep
<1>3. att'[a].step \notin Unissued
  BY DEF Fresh, Unissued
<1> QED
  BY <1>1, <1>2, <1>3 DEF Effect

\* The three ways to prepare a dispatch.
LEMMA PrepareEffects ==
    ASSUME TypeOK, NEW a \in Attempt,
           \/ prepareMutationDispatch(a) \/ prepareVerificationDispatch(a)
           \/ prepareOriginRedelivery(a)
    PROVE  Effect(a)
<1> USE DEF Stage
<1>1. At(a, "prepare") /\ att[a].step \in InWindow
  BY ZenonT(60) DEF prepareMutationDispatch, prepareVerificationDispatch, prepareOriginRedelivery, At,
         InWindow
<1>2. ASSUME NEW s \in {"execute", "approve", "release"}, Goes(a, s)
      PROVE  att'[a].step \notin Fresh
  BY <1>2, GoesStep DEF Fresh
<1>3. CASE Refuse(a, "release")
  BY <1>1, <1>2, <1>3, RefuseKeeps, DispatchEffect
<1>4. CASE prepareMutationDispatch(a) /\ ~Refuse(a, "release")
  <2>1. CASE Is(a, {"auto"}) /\ Dispatchable(a)
             /\ StageAll(a, Prepared(a), confirmation, "execute", "release")
    <3>1. /\ record' = Prepared(a) \/ record' = record
          /\ confirmation' = confirmation
          /\ Goes(a, "execute") \/ Goes(a, "release")
      BY <2>1, StageWrites
    <3>2. ~Confirmed(a) /\ Mutating(a)
      BY <2>1 DEF Confirmed, Is, Mutating
    <3>3. record' = record \/ MutationAdmitted(a)
      BY <1>1, <2>1, <3>1, <3>2 DEF MutationAdmitted
    <3> QED
      BY <1>1, <1>2, <3>1, <3>2, <3>3, DispatchEffect
  <2>2. CASE Confirmed(a) /\ confirmationRejection(a) = "validated" /\ Dispatchable(a)
             /\ StageAll(a, Prepared(a), stageConsumption(a), "approve", "release")
    <3>1. /\ \/ record' = Prepared(a) /\ confirmation' = stageConsumption(a)
             \/ record' = record /\ confirmation' = confirmation
          /\ Goes(a, "approve") \/ Goes(a, "release")
      BY <2>2, StageWrites
    <3>2. Mutating(a)
      BY <2>2 DEF Confirmed, Is, Mutating
    <3>3. token(a).state \in {"none", "pending", "consumed", "expired"}
      <4>1. att[a].request.of \in Attempt
        BY <2>2 DEF Confirmed, Is, TypeOK, IsRequest
      <4> QED
        BY <4>1 DEF token, TypeOK
    <3>4. token(a).state = "pending" /\ token(a).entries = entries(a)
      BY <2>2, <3>3 DEF confirmationRejection
    <3>5. \/ record' = record /\ confirmation' = confirmation
          \/ MutationAdmitted(a) /\ ActionConsumed(a)
      BY <1>1, <2>2, <3>1, <3>2, <3>4 DEF MutationAdmitted, ActionConsumed
    <3> QED
      BY <1>1, <1>2, <3>1, <3>5, DispatchEffect
  <2>3. CASE Confirmed(a) /\ confirmationRejection(a) = "expired"
             /\ StageAll(a, record, expireConfirmation(a), "release", "release")
    <3>1. /\ record' = record
          /\ confirmation' = expireConfirmation(a) \/ confirmation' = confirmation
          /\ Goes(a, "release")
      BY <2>3, StageWrites
    <3>3. token(a).state \in {"none", "pending", "consumed", "expired"}
      <4>1. att[a].request.of \in Attempt
        BY <2>3 DEF Confirmed, Is, TypeOK, IsRequest
      <4> QED
        BY <4>1 DEF token, TypeOK
    <3>4. token(a).state \in {"pending", "expired"}
      BY <2>3, <3>3 DEF confirmationRejection
    <3>5. confirmation' = confirmation \/ ActionExpired(a)
      BY <2>3, <3>1, <3>4 DEF ActionExpired
    <3> QED
      BY <1>1, <1>2, <3>1, <3>5, DispatchEffect
  <2> QED
    BY <1>4, <2>1, <2>2, <2>3 DEF prepareMutationDispatch
<1>5. CASE prepareVerificationDispatch(a) /\ ~Refuse(a, "release")
  <2>1. PICK h \in record.holds :
            StageAll(a, [record EXCEPT !.pending =
                             Pending(a, "verification", {holdId(h)}, {})],
                     confirmation, "execute", "release")
    BY Zenon, <1>5 DEF prepareVerificationDispatch
  <2>2. /\ \/ record' = [record EXCEPT !.pending =
                             Pending(a, "verification", {holdId(h)}, {})]
           \/ record' = record
        /\ confirmation' = confirmation
        /\ Goes(a, "execute") \/ Goes(a, "release")
    BY <2>1, StageWrites
  <2>3. ~Confirmed(a)
    BY <1>5 DEF prepareVerificationDispatch, Confirmed, Is
  <2>4. record' = record \/ VerificationAdmitted(a)
    BY Zenon, <1>5, <2>2 DEF prepareVerificationDispatch, VerificationAdmitted
  <2> QED
    BY <1>1, <1>2, <2>2, <2>3, <2>4, DispatchEffect
<1>6. CASE prepareOriginRedelivery(a) /\ ~Refuse(a, "release")
  <2>1. PICK i \in Newest(LAMBDA h : IndeterminateOrigin(h, a)) :
            /\ ids(Conflicts(a)) = record.history[i].holdIds
            /\ \A h \in Conflicts(a) : \A k \in h.origins :
                   k \in keys(record.history[i].envelope)
            /\ StageAll(a, [record EXCEPT !.pending =
                                Pending(a, "redelivery", record.history[i].holdIds, {})],
                        confirmation, "execute", "release")
    BY Zenon, <1>6 DEF prepareOriginRedelivery
  <2>2. i \in Indices /\ IndeterminateOrigin(record.history[i], a)
    BY <2>1 DEF Newest
  <2>3. /\ \/ record' = [record EXCEPT !.pending =
                             Pending(a, "redelivery", record.history[i].holdIds, {})]
           \/ record' = record
        /\ confirmation' = confirmation
        /\ Goes(a, "execute") \/ Goes(a, "release")
    BY <2>1, StageWrites
  <2>4. ~Confirmed(a)
    BY <1>6 DEF prepareOriginRedelivery, Confirmed, Is
  <2>5. \A h \in Conflicts(a) : h.origins \subseteq keys(record.history[i].envelope)
    BY <2>1
  <2>6. /\ Is(a, {"redeliver"}) /\ record.window = a /\ ~HasPending
        /\ entries(a) = entries(origin(a))
    BY Zenon, <1>6 DEF prepareOriginRedelivery
  <2>7. record' = record \/ RedeliveryAdmitted(a)
    BY <1>1, <2>1, <2>2, <2>3, <2>5, <2>6 DEF RedeliveryAdmitted
  <2> QED
    BY <1>1, <1>2, <2>3, <2>4, <2>7, DispatchEffect
<1> QED
  BY <1>3, <1>4, <1>5, <1>6

\* Reconciling, recording evidence and planning.
LEMMA ReconcileEffects ==
    ASSUME TypeOK, NEW a \in Attempt,
           \/ reconcilePendingDispatch(a) \/ recordVerificationEvidence(a)
           \/ planRecoveryClearances(a)
    PROVE  Effect(a)
<1> USE DEF Stage
<1>1. ~At(a, "prepare") /\ att[a].step \in InWindow
  BY ZenonT(60) DEF reconcilePendingDispatch, recordVerificationEvidence, planRecoveryClearances, At,
         InWindow
<1>2. ASSUME NEW s \in {"record", "plan", "release"}, Goes(a, s)
      PROVE  att'[a].step \notin Fresh
  BY <1>2, GoesStep DEF Fresh
<1>3. CASE Refuse(a, "release")
  BY <1>1, <1>2, <1>3, RefuseKeeps, DispatchEffect
<1>4. CASE reconcilePendingDispatch(a) /\ ~Refuse(a, "release")
  <2>1. /\ confirmation' = confirmation
        /\ Goes(a, "release") \/ Goes(a, "record")
    BY ZenonT(60), <1>4, StageWrites DEF reconcilePendingDispatch, reconcileNoSend, reconcileAcceptance,
       reconcileVerification, reconcileKnown, reconcileLate, reconcileIndeterminate
  <2> QED
    BY <1>1, <1>2, <1>4, <2>1, ReconcileWrites, DispatchEffect
<1>5. CASE recordVerificationEvidence(a) /\ ~Refuse(a, "release")
  <2> DEFINE p == record.pending
             Result(h, c) ==
                 Closed(recordEvidence(record.holds, holdId(h),
                                       EvidenceOf("verification_read", a, c)),
                        History("terminal", p, "known_terminal", TRUE, p.holdIds))
             Then(c) == IF Conclusive(EvidenceOf("verification_read", a, c))
                        THEN "plan" ELSE "release"
  <2>1. PICK h \in record.holds, c \in Conclusions :
            /\ holdId(h) \in p.holdIds /\ OpenToEvidence(h)
            /\ StageAll(a, Result(h, c), confirmation, Then(c), "release")
    BY Zenon, <1>5 DEF recordVerificationEvidence
  <2>2. Then(c) \in {"plan", "release"}
    OBVIOUS
  <2> HIDE DEF Result, Then
  <2>3. /\ record' = Result(h, c) \/ record' = record
        /\ confirmation' = confirmation
        /\ Goes(a, Then(c)) \/ Goes(a, "release")
    BY <2>1, StageWrites
  <2>4. p.kind = "verification" /\ p.envelope = a /\ p.journal = "known_terminal"
    BY Zenon, <1>5 DEF recordVerificationEvidence
  <2>5. record' = record \/ Concluded(a)
    BY Zenon, <2>1, <2>3, <2>4 DEF Result, Concluded, Own
  <2> QED
    BY <1>1, <1>2, <2>2, <2>3, <2>5, DispatchEffect
<1>6. CASE planRecoveryClearances(a) /\ ~Refuse(a, "release")
  <2> DEFINE Result(h) == [record EXCEPT !.plan = [id |-> a, scopes |-> {h.scope},
                                                   clearances |-> {Clearance(h, a)}]]
  <2>1. PICK h \in record.holds :
            /\ h.state = "evidence_recorded"
            /\ StageAll(a, Result(h), confirmation, "release", "release")
    BY Zenon, <1>6 DEF planRecoveryClearances
  <2> HIDE DEF Result
  <2>2. /\ record' = Result(h) \/ record' = record
        /\ confirmation' = confirmation
        /\ Goes(a, "release")
    BY <2>1, StageWrites
  <2>3. ~HasPending
    BY <1>6 DEF planRecoveryClearances
  <2>4. record' = record \/ PlanStored(a)
    BY <2>1, <2>2, <2>3 DEF Result, PlanStored
  <2> QED
    BY Zenon, <1>1, <1>2, <2>2, <2>4, DispatchEffect
<1> QED
  BY <1>3, <1>4, <1>5, <1>6

\* Every step of the dispatcher is one of the effects.
LEMMA DispatcherEffect ==
    ASSUME TypeOK, NEW a \in Attempt, Dispatcher(a)
    PROVE  Effect(a)
  BY PreviewEffects, PrepareEffects, ReconcileEffects DEF Dispatcher

-----------------------------------------------------------------------------
(* The inductive invariant                                                  *)

\* A pending dispatch names its attempt and what it is.
WindowInv ==
    /\ WindowExclusive
    /\ HasPending => record.pending.envelope \in Attempt /\ record.pending.kind # "none"

\* The origin of a redelivery is retained as indeterminate, with the same entries.
OriginIndeterminate(x) ==
    \E y \in Attempt :
        /\ y = origin(x) /\ ~Is(y, {"redeliver"}) /\ entries(x) = entries(y)
        /\ \E i \in Indices : /\ record.history[i].envelope = y
                              /\ record.history[i].status = "indeterminate"

\* What is pending for attempt x is the dispatch it asked for.
AsRequested(x, kind) ==
    /\ kind = "mutation" => Mutating(x)
    /\ kind = "verification" => Is(x, {"verify"})
    /\ kind = "redelivery" => Is(x, {"redeliver"})

\* An envelope is admitted once; it is pending or retained, and never both.
DispatchInv ==
    /\ \A x \in Attempt :
          /\ att[x].step \in Fresh => ~Own(x) /\ x \notin Retained
          /\ Own(x) => x \notin Retained /\ AsRequested(x, record.pending.kind)
          /\ (Own(x) \/ x \in Retained) /\ Is(x, {"redeliver"}) => OriginIndeterminate(x)
    /\ \A i, j \in Indices : record.history[i].envelope = record.history[j].envelope => i = j
    /\ \A i \in Indices, x \in Attempt : record.history[i].envelope = x =>
          IF record.history[i].status = "indeterminate"
          THEN record.history[i].journal \in {"indeterminate", "late_terminal"}
          ELSE ~Is(x, {"redeliver"})

\* What the evidence of a hold rests on.
Grounded(h) ==
    /\ h.evidence.basis = "verification_read" =>
          /\ h.evidence.by \in Attempt
          /\ evidence[h.evidence.by].journal = "known_terminal"
          /\ \E i \in Indices : /\ record.history[i].envelope = h.evidence.by
                                /\ holdId(h) \in record.history[i].holdIds
    /\ h.evidence.basis = "late_terminal" => h.origins = {h.evidence.by}

\* The fields of one hold agree.
Agrees(h) ==
    /\ h.state = "active" => h.evidence = None
    /\ h.state # "active" => h.evidence # None /\ Conclusive(h.evidence)
    /\ (h.authorized # None) = (h.state \in {"resolved_pending_bridge", "cleared"})
    /\ h.clearedBy = IF h.state = "cleared" THEN h.authorized ELSE None

HoldOK(h) ==
    /\ Agrees(h)
    /\ \A k \in h.origins : k[1] \in Retained
    /\ h.state = "cleared" => evidence[h.clearedBy].accepted
    /\ h.state # "active" => Grounded(h)

HoldsInv == UniqueIds(record.holds) /\ \A h \in record.holds : HoldOK(h)

\* While a verification is pending there is no plan, and its journal is the Bridge's.
PlanInv ==
    /\ \A c \in record.plan.clearances : Resolvable(record.holds, c)
    /\ record.pending.kind = "verification" => ~HasPlan
    /\ \A x \in Attempt :
          Own(x) /\ record.pending.kind = "verification"
          /\ record.pending.journal = "known_terminal" =>
              evidence[x].journal = "known_terminal"

\* Some hold of ledger L covers key k of envelope x.
Covers(L, x, k) ==
    \E h \in L : k \in h.origins /\ mutationScopesConflict(h.scope, mutationEntries(x)[k])

CoverInv ==
    \A i \in Indices, x \in Attempt :
        record.history[i].status = "indeterminate" /\ record.history[i].envelope = x =>
            \A k \in keys(x) : Covers(record.holds, x, k)

\* PendingAcrossNoForeignHold, by attempt.
InTheWay(h, x) ==
    isUncleared(h) /\ \E s \in scopesOf(x) : mutationScopesConflict(h.scope, s)

ForeignInv ==
    \A x \in Attempt : Own(x) /\ record.pending.kind \in {"mutation", "redelivery"} =>
        \A h \in record.holds : InTheWay(h, x) =>
            /\ holdId(h) \in record.pending.holdIds
            /\ IF record.pending.kind = "redelivery" THEN h.origins \subseteq keys(x)
                                                     ELSE h.authorized = x

ConfirmInv ==
    /\ ConfirmedOnce
    /\ \A a \in Attempt :
          /\ att[a].step \in Unissued => confirmation[a].state = "none"
          /\ confirmation[a].state = "consumed" =>
                confirmation[a].commit \in Attempt /\ Confirmed(confirmation[a].commit)

Inv ==
    /\ TypeOK /\ WindowInv /\ DispatchInv /\ HoldsInv /\ PlanInv /\ CoverInv
    /\ ForeignInv /\ ConfirmInv

-----------------------------------------------------------------------------
(* The fields that each write leaves                                        *)

Fields(w, L, q, p, H) ==
    /\ record' \in Record
    /\ record'.window = w /\ record'.holds = L /\ record'.plan = q
    /\ record'.pending = p /\ record'.history = H

\* What makePending builds.
LEMMA PendingType ==
    ASSUME NEW a \in Attempt, NEW k \in {"mutation", "verification", "redelivery"},
           NEW I \in SUBSET Id, NEW cs \in SUBSET PlanClearance
    PROVE  /\ Pending(a, k, I, cs) \in Dispatch
           /\ Pending(a, k, I, cs).envelope = a /\ Pending(a, k, I, cs).kind = k
           /\ Pending(a, k, I, cs).holdIds = I /\ Pending(a, k, I, cs).journal = "none"
           /\ Pending(a, k, I, cs) # NoDispatch
  BY Zenon, NoneAssumption DEF Pending, NoDispatch, Dispatch, Journal

\* The empty dispatch and the empty plan are of the record's type.
LEMMA NoneType ==
    NoDispatch \in Dispatch /\ NoPlan \in Plan
  BY DEF NoDispatch, Dispatch, Journal, NoPlan, Plan

\* What an entry of the history says.
LEMMA HistoryType ==
    ASSUME NEW p \in Dispatch, p.envelope \in Attempt,
           NEW s \in {"terminal", "indeterminate"}, NEW j \in Journal, NEW b \in BOOLEAN,
           NEW I \in SUBSET Id
    PROVE  /\ History(s, p, j, b, I) \in Outcome
           /\ History(s, p, j, b, I).envelope = p.envelope
           /\ History(s, p, j, b, I).status = s /\ History(s, p, j, b, I).journal = j
           /\ History(s, p, j, b, I).holdIds = I
  BY DEF History, Outcome

\* Closing a dispatch that is not retained appends its entry.
LEMMA ClosedFields ==
    ASSUME TypeOK, NEW L \in SUBSET Hold, NEW h \in Outcome, h.envelope \notin Retained,
           record' = Closed(L, h)
    PROVE  Fields(record.window, L, record.plan, NoDispatch, Append(record.history, h))
<1>1. historyWith(h) = Append(record.history, h)
  BY DEF historyWith
<1>2. record.history \in Seq(Outcome) /\ Append(record.history, h) \in Seq(Outcome)
  BY DEF TypeOK, Record
<1> QED
  BY Zenon, <1>1, <1>2, NoneType DEF Closed, Fields, TypeOK, Record

\* The history grows by one entry.
LEMMA AppendedHistory ==
    ASSUME NEW H \in Seq(Outcome), NEW h \in Outcome
    PROVE  /\ DOMAIN Append(H, h) = DOMAIN H \cup {Len(H) + 1}
           /\ \A i \in DOMAIN H : Append(H, h)[i] = H[i]
           /\ Append(H, h)[Len(H) + 1] = h
           /\ Len(H) + 1 \notin DOMAIN H
           /\ \A i \in DOMAIN H : H[i] \in Outcome
  OBVIOUS

\* Types of what a request is about.
LEMMA RequestFacts ==
    ASSUME TypeOK, NEW a \in Attempt
    PROVE  /\ entries(a) \in Seq(Scopes) /\ scopesOf(a) \in SUBSET Scopes
           /\ origin(a) \in Attempt
           /\ keys(a) \in SUBSET Key /\ mutationEntries(a) \in [keys(a) -> Scopes]
<1>1. att[a].request \in Request /\ IsRequest(att[a].request)
  BY DEF TypeOK
<1>2. entries(a) \in Seq(Scopes)
  BY <1>1 DEF entries, Request
<1>3. DOMAIN entries(a) = 1 .. Len(entries(a)) /\ Len(entries(a)) \in Nat
      /\ \A i \in DOMAIN entries(a) : entries(a)[i] \in Scopes
  BY <1>2
<1>4. origin(a) \in Attempt
  BY <1>1 DEF origin, IsRequest
<1>5. keys(a) \in SUBSET Key
  BY <1>3, <1>4 DEF keys, Key
<1>6. mutationEntries(a) \in [keys(a) -> Scopes]
  <2>1. ASSUME NEW k \in keys(a) PROVE entries(a)[k[2]] \in Scopes
    BY <1>3 DEF keys
  <2> QED
    BY <2>1 DEF mutationEntries
<1>7. scopesOf(a) \in SUBSET Scopes
  BY <1>3 DEF scopesOf, Range
<1> QED
  BY <1>2, <1>4, <1>5, <1>6, <1>7

\* Types of the fields of the record.
LEMMA RecordFacts ==
    ASSUME TypeOK
    PROVE  /\ record \in Record /\ record.holds \in SUBSET Hold /\ record.plan \in Plan
           /\ record.pending \in Dispatch /\ record.history \in Seq(Outcome)
           /\ record.plan.clearances \in SUBSET PlanClearance
           /\ record.pending.clearances \in SUBSET PlanClearance
           /\ record.pending.holdIds \in SUBSET Id
           /\ \A i \in Indices : record.history[i] \in Outcome
  BY DEF TypeOK, Record, Plan, Dispatch, Indices

\* Which holds the Bridge's acceptance of a pending dispatch clears.
LEMMA AcceptedLedger ==
    ASSUME TypeOK, NEW a \in Attempt, Own(a), Allowed(record.pending)
    PROVE  \E F : /\ Clears(record.holds, F, a)
                  /\ Accepted(record.pending).ledger = Image(record.holds, F)
<1> DEFINE p == record.pending
<1> record.holds \in SUBSET Hold
  BY RecordFacts
<1>1. CASE p.kind = "mutation" /\ p.holdIds # {}
  <2>1. Accepted(p) =
            authorizeMutationDispatch(record.holds, scopesOf(a), p.clearances, a)
    BY <1>1 DEF Accepted, Own
  <2>2. authorizeMutationDispatch(record.holds, scopesOf(a), p.clearances, a).kind = "allowed"
    BY <2>1 DEF Allowed
  <2> QED
    BY <2>1, <2>2, AllowedDispatch
<1>2. CASE ~(p.kind = "mutation" /\ p.holdIds # {})
  <2> DEFINE F == [h \in record.holds |-> h]
  <2>1. Accepted(p).ledger = record.holds
    BY <1>2 DEF Accepted
  <2>2. Clears(record.holds, F, a) /\ Image(record.holds, F) = record.holds
    BY Zenon DEF Clears, KeepsIds, Image
  <2> QED
    BY <2>1, <2>2
<1> QED
  BY <1>1, <1>2

\* The attempt whose envelope is pending owns the window, and it is not retained.
LEMMA OwnPending ==
    ASSUME Inv, NEW a \in Attempt, Own(a)
    PROVE  /\ HasPending /\ record.window = a /\ a \notin Retained
           /\ record.pending.kind \in {"mutation", "verification", "redelivery"}
<1>1. HasPending
  BY NoneAssumption DEF Own, HasPending, NoDispatch
<1>2. record.pending.kind # "none" /\ record.window = a
  BY <1>1 DEF Inv, WindowInv, WindowExclusive, Own
<1>3. record.pending.kind \in {"none", "mutation", "verification", "redelivery"}
  BY RecordFacts DEF Dispatch, Inv
<1>4. a \notin Retained
  BY DEF Inv, DispatchInv
<1> QED
  BY <1>1, <1>2, <1>3, <1>4

\* A dispatch is closed: entry h for envelope a, ledger L.
Closing(a, L, h) ==
    /\ Fields(record.window, L, record.plan, NoDispatch, Append(record.history, h))
    /\ h \in Outcome /\ h.envelope = a

\* The entry that closes the pending dispatch is its own.
LEMMA OwnHistory ==
    ASSUME TypeOK, NEW a \in Attempt, Own(a), NEW s \in {"terminal", "indeterminate"},
           NEW j \in Journal, NEW b \in BOOLEAN, NEW I \in SUBSET Id
    PROVE  \E h \in Outcome :
               /\ h = History(s, record.pending, j, b, I) /\ h.envelope = a
               /\ h.status = s /\ h.journal = j /\ h.holdIds = I
<1>1. record.pending \in Dispatch /\ record.pending.envelope = a
  BY RecordFacts DEF Own
<1> QED
  BY <1>1, HistoryType

\* Closing the pending dispatch appends its entry.
LEMMA ClosingFields ==
    ASSUME Inv, NEW a \in Attempt, Own(a), NEW L \in SUBSET Hold, NEW h \in Outcome,
           h.envelope = a, record' = Closed(L, h)
    PROVE  Closing(a, L, h)
<1>1. TypeOK /\ a \notin Retained
  BY OwnPending DEF Inv
<1> QED
  BY <1>1, ClosedFields DEF Closing

\* The terminal entry of the pending dispatch.
LEMMA TerminalHistory ==
    ASSUME TypeOK, NEW a \in Attempt, Own(a), NEW b \in BOOLEAN, NEW I \in SUBSET Id
    PROVE  \E h \in Outcome :
               /\ h = History("terminal", record.pending, "known_terminal", b, I)
               /\ h.envelope = a /\ h.holdIds = I
               /\ h.status = "terminal" /\ h.journal = "known_terminal"
<1>1. "terminal" \in {"terminal", "indeterminate"} /\ "known_terminal" \in Journal
  BY DEF Journal
<1> QED
  BY <1>1, OwnHistory

\* The indeterminate entry of the pending dispatch.
LEMMA IndeterminateHistory ==
    ASSUME TypeOK, NEW a \in Attempt, Own(a), NEW b \in BOOLEAN, NEW I \in SUBSET Id
    PROVE  \E h \in Outcome :
               /\ h = History("indeterminate", record.pending, "indeterminate", b, I)
               /\ h.envelope = a /\ h.holdIds = I
               /\ h.status = "indeterminate" /\ h.journal = "indeterminate"
<1>1. "indeterminate" \in {"terminal", "indeterminate"} /\ "indeterminate" \in Journal
  BY DEF Journal
<1> QED
  BY <1>1, OwnHistory

\* A known result clears at most the holds that were resolved for its envelope.
LEMMA TerminalFields ==
    ASSUME Inv, NEW a \in Attempt, TerminalClosed(a)
    PROVE  \E F, h : /\ Clears(record.holds, F, a)
                     /\ \A g \in record.holds : F[g] # g => evidence[a].accepted
                     /\ Closing(a, Image(record.holds, F), h)
                     /\ h.status = "terminal" /\ h.journal = "known_terminal"
<1> DEFINE p == record.pending
<1>1. PICK L \in {record.holds, Accepted(p).ledger}, I \in {{}, p.holdIds}, b \in BOOLEAN :
          /\ L # record.holds => evidence[a].accepted /\ Allowed(p)
          /\ record' = Closed(L, History("terminal", p, "known_terminal", b, I))
  BY DEF TerminalClosed
<1>2. Own(a) /\ TypeOK
  BY DEF TerminalClosed, Inv
<1>3. record.holds \in SUBSET Hold /\ I \in SUBSET Id
  BY <1>2, RecordFacts
<1>4. PICK F : /\ Clears(record.holds, F, a) /\ L = Image(record.holds, F)
               /\ \A g \in record.holds : F[g] # g => evidence[a].accepted
  <2>1. CASE L = record.holds
    <3> DEFINE F == [h \in record.holds |-> h]
    <3>1. Clears(record.holds, F, a) /\ Image(record.holds, F) = record.holds
      BY Zenon, <1>3 DEF Clears, KeepsIds, Image
    <3> QED
      BY <2>1, <3>1
  <2>2. CASE L # record.holds
    BY <1>1, <1>2, <2>2, AcceptedLedger
  <2> QED
    BY <2>1, <2>2
<1>5. L \in SUBSET Hold
  BY <1>3, <1>4 DEF Clears, KeepsIds, Image
<1>6. PICK h \in Outcome :
          /\ h = History("terminal", p, "known_terminal", b, I) /\ h.envelope = a
          /\ h.status = "terminal" /\ h.journal = "known_terminal"
  BY <1>2, <1>3, TerminalHistory
<1>7. record' = Closed(L, h)
  BY <1>1, <1>6
<1>8. Closing(a, L, h)
  BY <1>2, <1>5, <1>6, <1>7, ClosingFields
<1> QED
  BY <1>4, <1>6, <1>8

\* Only a redelivery has an origin other than itself.
LEMMA FirstHand ==
    ASSUME NEW a, Mutating(a) \/ Is(a, {"verify"})
    PROVE  origin(a) = a /\ ~Is(a, {"redeliver"})
  BY DEF Mutating, Is, origin

\* An envelope that is not retained has left no hold.
LEMMA NoHoldYet ==
    ASSUME Inv, NEW a \in Attempt, a \notin Retained, origin(a) = a,
           NEW h \in record.holds, NEW k \in keys(a)
    PROVE  k \notin h.origins
<1>1. k[1] = a
  BY DEF keys
<1> QED
  BY <1>1 DEF Inv, HoldsInv, HoldOK

\* An indeterminate outcome leaves every key of its envelope covered by a hold.
LEMMA IndeterminateFields ==
    ASSUME Inv, NEW a \in Attempt, IndeterminateClosed(a)
    PROVE  \E F, L, h :
               /\ Clears(record.holds, F, a) /\ evidence[a].accepted
               /\ Image(record.holds, F) \subseteq L
               /\ \A g \in L : \/ g \in Image(record.holds, F)
                               \/ g \in candidateHolds(mutationEntries(a))
               /\ Closing(a, L, h)
               /\ h.status = "indeterminate" /\ h.journal = "indeterminate"
               /\ \A k \in keys(a) : Covers(L, a, k)
<1> DEFINE p == record.pending
           installed == installMutationHolds(Accepted(p).ledger, mutationEntries(a))
           yes == TRUE
           h == History("indeterminate", record.pending, "indeterminate", yes,
                        installed.holdIds)
<1>1. /\ Own(a) /\ Allowed(p) /\ TypeOK /\ evidence[a].accepted
      /\ installed.kind = "blocked" =>
            \A k \in keys(a) : isOriginRedeliveryExempt(record.holds, k)
      /\ record' = Closed(installed.ledger, h) /\ yes \in BOOLEAN
      /\ p.kind \notin {"redelivery", "verification"}
  BY DEF IndeterminateClosed, Inv
<1> HIDE DEF installed, yes
<1>2. p.kind = "mutation" /\ a \notin Retained
  BY <1>1, OwnPending
<1>3. Mutating(a) /\ origin(a) = a
  BY <1>1, <1>2, FirstHand DEF Inv, DispatchInv, AsRequested
<1>4. PICK F : Clears(record.holds, F, a) /\ Accepted(p).ledger = Image(record.holds, F)
  BY <1>1, AcceptedLedger
<1>5. Image(record.holds, F) \in SUBSET Hold
  BY <1>4 DEF Clears, KeepsIds, Image
<1>6. /\ installed.ledger \in SUBSET Hold /\ installed.holdIds \in SUBSET Id
      /\ Image(record.holds, F) \subseteq installed.ledger
      /\ \A g \in installed.ledger : \/ g \in Image(record.holds, F)
                                     \/ g \in candidateHolds(mutationEntries(a))
      /\ \/ installed.kind = "blocked"
         \/ \A k \in keys(a) : \E g \in installed.ledger :
                k \in g.origins /\ mutationScopesConflict(g.scope, mutationEntries(a)[k])
  BY ZenonT(60), <1>1, <1>4, <1>5, RequestFacts, InstallHolds DEF installed
<1>7. \A k \in keys(a) : Covers(installed.ledger, a, k)
  <2>1. CASE installed.kind = "blocked"
    <3>1. \A k \in keys(a) : \E g \in record.holds : k \in g.origins
      BY <1>1, <2>1 DEF isOriginRedeliveryExempt
    <3>2. keys(a) = {}
      BY <1>2, <1>3, <3>1, NoHoldYet
    <3> QED
      BY <3>2
  <2>2. CASE installed.kind # "blocked"
    BY <1>6, <2>2 DEF Covers
  <2> QED
    BY <2>1, <2>2
<1>8. PICK x \in Outcome :
          /\ x = h /\ x.envelope = a
          /\ x.status = "indeterminate" /\ x.journal = "indeterminate"
  BY <1>1, <1>6, IndeterminateHistory
<1>9. record' = Closed(installed.ledger, x)
  BY <1>1, <1>8
<1>10. Closing(a, installed.ledger, x)
  BY ZenonT(60), <1>1, <1>6, <1>8, <1>9, ClosingFields
<1> HIDE DEF h
<1> QED
  BY Zenon, <1>1, <1>4, <1>6, <1>7, <1>8, <1>10

\* An indeterminate redelivery leaves the ledger alone.
LEMMA RedeliveryClosedFields ==
    ASSUME Inv, NEW a \in Attempt, RedeliveryClosed(a)
    PROVE  \E h : /\ Closing(a, record.holds, h)
                  /\ h.status = "indeterminate" /\ h.journal = "indeterminate"
<1> DEFINE yes == TRUE
           h == History("indeterminate", record.pending, "indeterminate", yes,
                        ids(Conflicts(a)))
<1>1. Own(a) /\ record' = Closed(record.holds, h) /\ yes \in BOOLEAN
  BY DEF RedeliveryClosed
<1> HIDE DEF yes
<1>2. record.holds \in SUBSET Hold
  BY RecordFacts DEF Inv
<1>3. ids(Conflicts(a)) \in SUBSET Id
  BY <1>2, ConflictsType, IdType DEF Conflicts
<1>4. PICK x \in Outcome :
          /\ x = h /\ x.envelope = a
          /\ x.status = "indeterminate" /\ x.journal = "indeterminate"
  BY <1>1, <1>3, IndeterminateHistory DEF Inv
<1>5. record' = Closed(record.holds, x)
  BY <1>1, <1>4
<1>6. Closing(a, record.holds, x)
  BY <1>1, <1>2, <1>4, <1>5, ClosingFields
<1> QED
  BY <1>4, <1>6

\* A verification read puts its evidence on the one hold that it was about.
LEMMA ConcludedFields ==
    ASSUME Inv, NEW a \in Attempt, Concluded(a)
    PROVE  \E F, h : \E g \in record.holds, e \in Evidence :
               /\ KeepsIds(record.holds, F)
               /\ \A x \in record.holds : F[x] = EvidenceOn(x, holdId(g), e)
               /\ OpenToEvidence(g) /\ e.basis = "verification_read" /\ e.by = a
               /\ holdId(g) \in h.holdIds
               /\ Closing(a, Image(record.holds, F), h)
               /\ h.status = "terminal" /\ h.journal = "known_terminal"
<1> DEFINE p == record.pending
           yes == TRUE
           h == History("terminal", record.pending, "known_terminal", yes, p.holdIds)
<1>1. PICK g \in record.holds, c \in Conclusions :
          /\ holdId(g) \in p.holdIds /\ OpenToEvidence(g)
          /\ record' = Closed(recordEvidence(record.holds, holdId(g),
                                             EvidenceOf("verification_read", a, c)), h)
          /\ yes \in BOOLEAN
  BY Zenon DEF Concluded
<1> HIDE DEF yes
<1> DEFINE e == EvidenceOf("verification_read", a, c)
<1>2. e \in Evidence /\ e.basis = "verification_read" /\ e.by = a
  BY DEF EvidenceOf, Evidence
<1> HIDE DEF e
<1>3. record.holds \in SUBSET Hold /\ p.holdIds \in SUBSET Id
  BY RecordFacts DEF Inv
<1>4. PICK F : /\ KeepsIds(record.holds, F)
               /\ recordEvidence(record.holds, holdId(g), e) = Image(record.holds, F)
               /\ \A x \in record.holds : F[x] = EvidenceOn(x, holdId(g), e)
  BY <1>2, <1>3, RecordEvidence
<1>5. Image(record.holds, F) \in SUBSET Hold
  BY <1>4 DEF KeepsIds, Image
<1>6. Own(a) /\ record' = Closed(Image(record.holds, F), h) /\ yes \in BOOLEAN
  BY ZenonT(60), <1>1, <1>4 DEF Concluded, e
<1>7. PICK x \in Outcome :
          /\ x = h /\ x.envelope = a /\ x.holdIds = p.holdIds
          /\ x.status = "terminal" /\ x.journal = "known_terminal"
  BY <1>3, <1>6, TerminalHistory DEF Inv
<1>8. record' = Closed(Image(record.holds, F), x)
  BY <1>6, <1>7
<1>9. Closing(a, Image(record.holds, F), x)
  BY <1>5, <1>6, <1>7, <1>8, ClosingFields
<1>10. holdId(g) \in x.holdIds /\ OpenToEvidence(g)
  BY <1>1, <1>7
<1> HIDE DEF h
<1> QED
  BY Zenon, <1>2, <1>4, <1>7, <1>9, <1>10

\* Acquire and release change the window only.
LEMMA WindowFields ==
    ASSUME TypeOK, NEW a \in Attempt
    PROVE  /\ Acquired(a) => Fields(a, record.holds, record.plan, record.pending, record.history)
           /\ Released(a) =>
                 Fields(None, record.holds, record.plan, record.pending, record.history)
  BY ZenonT(60) DEF Acquired, Released, Fields, TypeOK, Record

\* Without a conflict the mutation is simply pending; with one, the plan's holds are
\* resolved for it, and these are all the holds it conflicts with.
LEMMA MutationFields ==
    ASSUME Inv, NEW a \in Attempt, MutationAdmitted(a)
    PROVE  \/ /\ Conflicts(a) = {}
              /\ Fields(record.window, record.holds, record.plan,
                        Pending(a, "mutation", {}, {}), record.history)
              /\ Pending(a, "mutation", {}, {}) \in Dispatch
           \/ \E F : \E I \in SUBSET Id :
                 /\ Resolves(record.holds, F, record.plan.clearances, a)
                 /\ Fields(record.window, Image(record.holds, F), NoPlan,
                           Pending(a, "mutation", I, att[a].clearances), record.history)
                 /\ \A g \in conflictingMutationHolds(Image(record.holds, F), scopesOf(a)) :
                        holdId(g) \in I /\ g.authorized = a
<1> TypeOK /\ record \in Record /\ record.holds \in SUBSET Hold
  BY RecordFacts DEF Inv
<1>1. Dispatchable(a) /\ record' = Prepared(a)
  BY DEF MutationAdmitted
<1>2. CASE Conflicts(a) = {}
  <2>1. record' = [record EXCEPT !.pending = Pending(a, "mutation", {}, {})]
    BY <1>1, <1>2 DEF Prepared
  <2>2. Pending(a, "mutation", {}, {}) \in Dispatch
    BY PendingType
  <2> QED
    BY <1>2, <2>1, <2>2 DEF Fields, Record
<1>3. CASE Conflicts(a) # {}
  <2> DEFINE I == Authorized(a).holdIds
             p == Pending(a, "mutation", I, att[a].clearances)
  <2>1. record' = [record EXCEPT !.holds = Resolved(a), !.plan = NoPlan, !.pending = p]
    BY <1>1, <1>3 DEF Prepared
  <2>2. Authorized(a).kind = "allowed"
    BY <1>1, <1>3 DEF Dispatchable, HoldsAllow
  <2>3. PICK F : /\ Resolves(record.holds, F, record.plan.clearances, a)
                 /\ Resolved(a) = Image(record.holds, F)
    BY RecordFacts, ResolveHolds DEF Resolved
  <2>4. Resolved(a) \in SUBSET Hold
    BY <2>3 DEF Resolves, KeepsIds, Image
  <2>5. att[a].clearances \in SUBSET PlanClearance
    BY DEF TypeOK
  <2> DEFINE C == conflictingMutationHolds(Resolved(a), scopesOf(a))
  <2>6. C # {} => I = ids(C) /\ \A h \in C : h.authorized = a
    BY <2>2, <2>4, AllowedDispatch DEF Authorized
  <2>7. I \in SUBSET Id
    BY Zenon, <2>4, <2>5, DispatchIds DEF Authorized
  <2>8. p \in Dispatch
    BY <2>5, <2>7, PendingType
  <2> HIDE DEF p, I, C
  <2>9. Fields(record.window, Resolved(a), NoPlan, p, record.history)
    BY ZenonT(60), <2>1, <2>4, <2>8, NoneType DEF Fields, Record
  <2>10. \A g \in C : holdId(g) \in I /\ g.authorized = a
    BY <2>6 DEF ids
  <2>11. /\ Fields(record.window, Image(record.holds, F), NoPlan,
                   Pending(a, "mutation", I, att[a].clearances), record.history)
         /\ \A g \in conflictingMutationHolds(Image(record.holds, F), scopesOf(a)) :
                holdId(g) \in I /\ g.authorized = a
    BY Zenon, <2>3, <2>9, <2>10 DEF p, C
  <2> QED
    BY <2>3, <2>7, <2>11
<1> QED
  BY Zenon, <1>2, <1>3

\* An admitted verification leaves the ledger and the plan alone.
LEMMA VerificationFields ==
    ASSUME Inv, NEW a \in Attempt, VerificationAdmitted(a)
    PROVE  \E p \in Dispatch :
               /\ p.envelope = a /\ p.kind = "verification" /\ p.journal = "none"
               /\ p # NoDispatch
               /\ Fields(record.window, record.holds, record.plan, p, record.history)
<1> TypeOK /\ record \in Record /\ record.holds \in SUBSET Hold
  BY RecordFacts DEF Inv
<1>1. PICK h \in record.holds :
          record' = [record EXCEPT !.pending = Pending(a, "verification", {holdId(h)}, {})]
  BY Zenon DEF VerificationAdmitted
<1>2. {holdId(h)} \in SUBSET Id
  BY IdType DEF ids
<1> DEFINE p == Pending(a, "verification", {holdId(h)}, {})
<1>3. /\ p \in Dispatch /\ p.envelope = a /\ p.kind = "verification" /\ p.journal = "none"
      /\ p # NoDispatch
  BY <1>2, PendingType
<1> HIDE DEF p
<1>4. Fields(record.window, record.holds, record.plan, p, record.history)
  BY <1>1, <1>3 DEF p, Fields, Record
<1> QED
  BY <1>3, <1>4

\* An admitted redelivery names every hold on its scopes, all of its own origin.
LEMMA RedeliveryFields ==
    ASSUME Inv, NEW a \in Attempt, RedeliveryAdmitted(a)
    PROVE  \E p \in Dispatch, i \in Indices :
               /\ p.envelope = a /\ p.kind = "redelivery" /\ p.journal = "none"
               /\ p # NoDispatch /\ p.holdIds = ids(Conflicts(a))
               /\ Fields(record.window, record.holds, record.plan, p, record.history)
               /\ IndeterminateOrigin(record.history[i], a)
               /\ \A h \in Conflicts(a) : h.origins \subseteq keys(record.history[i].envelope)
<1> TypeOK /\ record \in Record
  BY ZenonT(60), RecordFacts DEF Inv
<1>1. PICK i \in Indices :
          /\ IndeterminateOrigin(record.history[i], a)
          /\ ids(Conflicts(a)) = record.history[i].holdIds
          /\ \A h \in Conflicts(a) : h.origins \subseteq keys(record.history[i].envelope)
          /\ record' = [record EXCEPT !.pending =
                            Pending(a, "redelivery", record.history[i].holdIds, {})]
  BY DEF RedeliveryAdmitted
<1> DEFINE p == Pending(a, "redelivery", record.history[i].holdIds, {})
<1>2. record.history[i].holdIds \in SUBSET Id
  BY RecordFacts DEF Outcome
<1>3. /\ p \in Dispatch /\ p.envelope = a /\ p.kind = "redelivery" /\ p.journal = "none"
      /\ p # NoDispatch /\ p.holdIds = ids(Conflicts(a))
  BY <1>1, <1>2, PendingType
<1>4. record' = [record EXCEPT !.pending = p]
  BY <1>1
<1> HIDE DEF p
<1>5. Fields(record.window, record.holds, record.plan, p, record.history)
  BY <1>3, <1>4 DEF Fields, Record
<1> QED
  BY <1>1, <1>3, <1>5

\* The pending dispatch p is still the same one in q.
SameDispatch(p, q) ==
    q.envelope = p.envelope /\ q.kind = p.kind /\ q.holdIds = p.holdIds

\* The acceptance keeps the dispatch pending and clears what was resolved for it.
LEMMA AcceptanceFields ==
    ASSUME Inv, NEW a \in Attempt, AcceptanceRecorded(a)
    PROVE  \E F : \E p \in Dispatch :
               /\ Clears(record.holds, F, a) /\ evidence[a].accepted
               /\ SameDispatch(record.pending, p) /\ p.journal = record.pending.journal
               /\ Fields(record.window, Image(record.holds, F), record.plan, p, record.history)
<1> TypeOK /\ record \in Record /\ record.pending \in Dispatch
  BY RecordFacts DEF Inv
<1>1. /\ Own(a) /\ Allowed(record.pending) /\ evidence[a].accepted
      /\ record' = [record EXCEPT !.holds = Accepted(record.pending).ledger,
                                  !.pending.accepted = TRUE]
  BY DEF AcceptanceRecorded
<1>2. PICK F : /\ Clears(record.holds, F, a)
               /\ Accepted(record.pending).ledger = Image(record.holds, F)
  BY <1>1, AcceptedLedger
<1>3. Image(record.holds, F) \in SUBSET Hold
  BY <1>2 DEF Clears, KeepsIds, Image
<1> DEFINE p == [record.pending EXCEPT !.accepted = TRUE]
<1>4. /\ p \in Dispatch /\ SameDispatch(record.pending, p)
      /\ p.journal = record.pending.journal
  BY Zenon DEF Dispatch, SameDispatch
<1>5. record' = [record EXCEPT !.holds = Image(record.holds, F), !.pending = p]
  BY <1>1, <1>2 DEF Record
<1> HIDE DEF p
<1>6. Fields(record.window, Image(record.holds, F), record.plan, p, record.history)
  BY Zenon, <1>3, <1>4, <1>5 DEF Fields, Record
<1> QED
  BY <1>1, <1>2, <1>4, <1>6

\* A verification's journal is kept with its pending dispatch.
LEMMA ReadFields ==
    ASSUME Inv, NEW a \in Attempt, ReadRecorded(a)
    PROVE  \E p \in Dispatch :
               /\ SameDispatch(record.pending, p) /\ evidence[a].journal = "known_terminal"
               /\ Fields(record.window, record.holds, record.plan, p, record.history)
<1> TypeOK /\ record \in Record /\ record.pending \in Dispatch
  BY RecordFacts DEF Inv
<1> DEFINE p == [record.pending EXCEPT !.accepted = TRUE, !.journal = "known_terminal"]
<1>1. p \in Dispatch /\ SameDispatch(record.pending, p)
  BY Zenon DEF Dispatch, SameDispatch, Journal
<1>2. record' = [record EXCEPT !.pending = p] /\ evidence[a].journal = "known_terminal"
  BY Zenon DEF Record, ReadRecorded
<1> HIDE DEF p
<1>3. Fields(record.window, record.holds, record.plan, p, record.history)
  BY <1>1, <1>2 DEF Fields, Record
<1> QED
  BY <1>1, <1>2, <1>3

\* Entry i takes the late journal; nothing else of the history changes.
Marks(H, i, G) ==
    /\ G \in Seq(Outcome) /\ DOMAIN G = DOMAIN H
    /\ G[i].journal = "late_terminal" /\ (H[i].journal = "late_terminal" => G[i] = H[i])
    /\ \A j \in DOMAIN H : /\ j # i => G[j] = H[j]
                           /\ G[j].envelope = H[j].envelope /\ G[j].status = H[j].status
                           /\ G[j].holdIds = H[j].holdIds

\* A late result marks an indeterminate entry, and adds none.
LEMMA LateFields ==
    ASSUME Inv, NEW a \in Attempt, LateClosed(a)
    PROVE  \E F, H : \E i \in Indices :
               /\ Clears(record.holds, F, a) /\ evidence[a].accepted
               /\ record.history[i].status = "indeterminate"
               /\ Marks(record.history, i, H)
               /\ Fields(record.window, Image(record.holds, F), record.plan, NoDispatch, H)
<1> TypeOK /\ record \in Record /\ record.history \in Seq(Outcome)
  BY RecordFacts DEF Inv
<1>1. PICK i \in Indices :
          /\ record.history[i].status = "indeterminate"
          /\ record' = [record EXCEPT !.holds = Accepted(record.pending).ledger,
                                      !.pending = NoDispatch,
                                      !.history[i].journal = "late_terminal"]
  BY Zenon DEF LateClosed
<1>2. Own(a) /\ Allowed(record.pending) /\ evidence[a].accepted
  BY DEF LateClosed
<1>3. PICK F : /\ Clears(record.holds, F, a)
               /\ Accepted(record.pending).ledger = Image(record.holds, F)
  BY <1>2, AcceptedLedger
<1>4. Image(record.holds, F) \in SUBSET Hold
  BY <1>3 DEF Clears, KeepsIds, Image
<1> DEFINE o == [record.history[i] EXCEPT !.journal = "late_terminal"]
           H == [record.history EXCEPT ![i] = o]
<1>5. record.history[i] \in Outcome /\ i \in DOMAIN record.history
  BY RecordFacts DEF Indices
<1>6. /\ o \in Outcome /\ o.journal = "late_terminal"
      /\ o.envelope = record.history[i].envelope /\ o.status = record.history[i].status
      /\ o.holdIds = record.history[i].holdIds
      /\ record.history[i].journal = "late_terminal" => o = record.history[i]
  BY <1>5 DEF Outcome, Journal
<1>7. record' = [record EXCEPT !.holds = Image(record.holds, F), !.pending = NoDispatch,
                               !.history = H]
  BY <1>1, <1>3, <1>5 DEF Record
<1> HIDE DEF o
<1>8. Marks(record.history, i, H)
  BY <1>5, <1>6 DEF Marks
<1> HIDE DEF H
<1>9. Fields(record.window, Image(record.holds, F), record.plan, NoDispatch, H)
  BY Zenon, <1>4, <1>7, <1>8, NoneType DEF Fields, Record, Marks
<1> QED
  BY <1>1, <1>2, <1>3, <1>8, <1>9

\* A plan is stored for a hold that has its evidence.
LEMMA PlanFields ==
    ASSUME Inv, NEW a \in Attempt, PlanStored(a)
    PROVE  \E h \in record.holds, q \in Plan :
               /\ h.state = "evidence_recorded" /\ q.clearances = {Clearance(h, a)}
               /\ Fields(record.window, record.holds, q, record.pending, record.history)
<1> TypeOK /\ record \in Record /\ record.holds \in SUBSET Hold
  BY RecordFacts DEF Inv
<1>1. PICK h \in record.holds :
          /\ h.state = "evidence_recorded"
          /\ record' = [record EXCEPT !.plan = [id |-> a, scopes |-> {h.scope},
                                                clearances |-> {Clearance(h, a)}]]
  BY ZenonT(60) DEF PlanStored
<1>2. h \in Hold /\ h.evidence \in Evidence /\ h.scope \in Scopes
  BY <1>1 DEF Inv, HoldsInv, HoldOK, Agrees, Hold
<1>3. holdId(h) \in Id
  BY <1>2 DEF holdId, Id, Hold
<1>4. Clearance(h, a) \in PlanClearance
  BY <1>2, <1>3 DEF Clearance, PlanClearance
<1> DEFINE q == [id |-> a, scopes |-> {h.scope}, clearances |-> {Clearance(h, a)}]
<1>5. q \in Plan /\ q.clearances = {Clearance(h, a)}
  BY <1>2, <1>4 DEF Plan
<1>6. record' = [record EXCEPT !.plan = q]
  BY <1>1
<1> HIDE DEF q
<1>7. Fields(record.window, record.holds, q, record.pending, record.history)
  BY <1>5, <1>6 DEF Fields, Record
<1> QED
  BY <1>1, <1>5, <1>7

\* Late evidence goes on the one hold whose only origin it is about.
LEMMA LateEvidenceFields ==
    ASSUME Inv, LateEvidence
    PROVE  /\ ~HasPlan
           /\ UNCHANGED <<att, confirmation, evidence, faults>>
           /\ \E F : \E g \in record.holds, e \in Evidence :
                 /\ KeepsIds(record.holds, F)
                 /\ \A x \in record.holds : F[x] = EvidenceOn(x, holdId(g), e)
                 /\ OpenToEvidence(g) /\ e.basis = "late_terminal"
                 /\ Conclusive(e) => g.origins = {e.by}
                 /\ Fields(record.window, Image(record.holds, F), record.plan, record.pending,
                           record.history)
<1> TypeOK /\ record \in Record /\ record.holds \in SUBSET Hold
  BY RecordFacts DEF Inv
<1>1. PICK g \in record.holds : \E k \in g.origins, c \in Conclusions :
          recordLateTerminalEvidence(g, k, c)
  BY DEF LateEvidence
<1>2. PICK k \in g.origins, c \in Conclusions : recordLateTerminalEvidence(g, k, c)
  BY <1>1
<1> DEFINE e == EvidenceOf("late_terminal", k, c)
<1>3. g \in Hold /\ k \in Key
  BY DEF Hold, Key
<1>4. e \in Evidence /\ e.basis = "late_terminal" /\ e.by = k
  BY <1>3 DEF EvidenceOf, Evidence, Key
<1>5. /\ ~HasPlan /\ OpenToEvidence(g)
      /\ Conclusive(e) => g.origins = {k}
      /\ record' = [record EXCEPT !.holds = recordEvidence(record.holds, holdId(g), e)]
      /\ UNCHANGED <<att, confirmation, evidence, faults>>
  BY <1>2 DEF recordLateTerminalEvidence
<1> HIDE DEF e
<1>6. PICK F : /\ KeepsIds(record.holds, F)
               /\ recordEvidence(record.holds, holdId(g), e) = Image(record.holds, F)
               /\ \A x \in record.holds : F[x] = EvidenceOn(x, holdId(g), e)
  BY <1>4, RecordEvidence
<1>7. Image(record.holds, F) \in SUBSET Hold
  BY <1>6 DEF KeepsIds, Image
<1>8. Fields(record.window, Image(record.holds, F), record.plan, record.pending,
             record.history)
  BY <1>5, <1>6, <1>7 DEF Fields, Record
<1> QED
  BY <1>4, <1>5, <1>6, <1>8

-----------------------------------------------------------------------------
(* What every step leaves alone                                             *)

AttType == [step : Step, request : Request, clearances : SUBSET PlanClearance,
            inTime : BOOLEAN]
ConfirmationType ==
    [state : {"none", "pending", "consumed", "expired"},
     entries : Seq(Scopes), due : BOOLEAN, commit : Attempt \cup {None}]
EvidenceType ==
    [lease : {"none", "reserved", "sent", "no_send"}, accepted : BOOLEAN, journal : Journal]

RequestsStay ==
    /\ att' \in [Attempt -> AttType]
    /\ \A b \in Attempt : att'[b].request = att[b].request

\* What the Bridge session knows it does not forget.
EvidenceGrows ==
    /\ evidence' \in [Attempt -> EvidenceType]
    /\ \A b \in Attempt :
          /\ evidence[b].accepted => evidence'[b].accepted
          /\ evidence[b].journal = "known_terminal" => evidence'[b].journal = "known_terminal"

\* An attempt's step changes no request.
LEMMA GoesFrame ==
    ASSUME TypeOK, NEW a \in Attempt, NEW s \in Step, Goes(a, s)
    PROVE  RequestsStay /\ \A b \in Attempt : b # a => att'[b] = att[b]
<1> att \in [Attempt -> AttType]
  BY DEF TypeOK, AttType
<1> DEFINE r == [att[a] EXCEPT !.step = s]
<1>1. r \in AttType /\ r.request = att[a].request
  BY DEF AttType
<1>2. att' = [att EXCEPT ![a] = r]
  BY DEF Goes
<1> HIDE DEF r
<1> QED
  BY <1>1, <1>2 DEF RequestsStay

\* The dispatcher's steps are among the steps of the model.
LEMMA StepNames ==
    {"idle", "acquire", "done", "dead", "preflight", "build", "preview", "prepare", "approve",
     "execute", "reconcile", "record", "plan", "release"} \subseteq Step
  BY DEF Step, InWindow

\* No step of the dispatcher changes a request or another attempt.
LEMMA DispatcherFrame ==
    ASSUME TypeOK, NEW a \in Attempt, Dispatcher(a)
    PROVE  RequestsStay /\ \A b \in Attempt : b # a => att'[b] = att[b]
<1> USE DEF Stage
<1>0. att \in [Attempt -> AttType] /\ att[a] \in AttType
  BY DEF TypeOK, AttType
<1>1. SUFFICES ASSUME ~\E s \in Step : Goes(a, s)
               PROVE  RequestsStay /\ \A b \in Attempt : b # a => att'[b] = att[b]
  BY GoesFrame
<1>2. ASSUME NEW s \in {"acquire", "done", "release"} PROVE ~Refuse(a, s)
  BY <1>1, StepNames, RefuseKeeps
<1>3. FirstStep(a) \in Step
  BY StepNames DEF FirstStep
<1>4. ASSUME NEW r, NEW c, NEW s \in Step, NEW f \in Step PROVE ~StageAll(a, r, c, s, f)
  BY <1>1, StageWrites
<1>5. preflightMutation(a) \/ prepareNext(a)
  <2>1. ~Start(a) /\ ~acquireInvocationWindow(a) /\ ~createPendingAction(a)
    BY <1>2, <1>3, <1>4, StepNames DEF Start, acquireInvocationWindow, createPendingAction
  <2>2. ~prepareMutationDispatch(a)
    BY <1>2, <1>4, StepNames DEF prepareMutationDispatch
  <2>3. ~prepareVerificationDispatch(a)
    BY Zenon, <1>2, <1>4, StepNames DEF prepareVerificationDispatch
  <2>4. ~prepareOriginRedelivery(a)
    BY ZenonT(60), <1>2, <1>4, StepNames DEF prepareOriginRedelivery
  <2>5. ~auditApproval(a) /\ ~executePrepared(a)
    BY <1>1, StepNames DEF auditApproval, executePrepared
  <2>6. ~reconcilePendingDispatch(a)
    BY ZenonT(60), <1>2, <1>4, StepNames DEF reconcilePendingDispatch, reconcileNoSend,
       reconcileAcceptance, reconcileVerification, reconcileKnown, reconcileLate,
       reconcileIndeterminate
  <2>7. ~recordVerificationEvidence(a)
    BY ZenonT(60), <1>2, <1>4, StepNames DEF recordVerificationEvidence
  <2>8. ~planRecoveryClearances(a) /\ ~releaseInvocationWindow(a)
    BY Zenon, <1>2, <1>4, StepNames DEF planRecoveryClearances, releaseInvocationWindow
  <2> QED
    BY <2>1, <2>2, <2>3, <2>4, <2>5, <2>6, <2>7, <2>8 DEF Dispatcher
<1>6. CASE preflightMutation(a)
  <2> DEFINE t == Confirmed(a) /\ ~token(a).due
             r == [att[a] EXCEPT !.step = "prepare", !.inTime = t]
  <2>1. att' = [att EXCEPT ![a] = r]
    BY Zenon, <1>1, <1>2, <1>6, StepNames DEF preflightMutation
  <2>2. t \in BOOLEAN
    OBVIOUS
  <2> HIDE DEF t
  <2>3. r \in AttType /\ r.request = att[a].request
    BY Zenon, <1>0, <2>2, StepNames DEF AttType
  <2> HIDE DEF r
  <2> QED
    BY <1>0, <2>1, <2>3 DEF RequestsStay
<1>7. CASE prepareNext(a)
  <2> DEFINE t == ~token(a).due
             r == [att[a] EXCEPT !.step = "prepare", !.inTime = t,
                                 !.clearances = record.plan.clearances]
  <2>1. att' = [att EXCEPT ![a] = r]
    BY Zenon, <1>1, <1>7, StepNames DEF prepareNext
  <2>2. t \in BOOLEAN
    OBVIOUS
  <2> HIDE DEF t
  <2>3. r \in AttType /\ r.request = att[a].request
    BY ZenonT(60), <1>0, <2>2, StepNames, RecordFacts DEF AttType
  <2> HIDE DEF r
  <2> QED
    BY <1>0, <2>1, <2>3 DEF RequestsStay
<1> QED
  BY <1>5, <1>6, <1>7

\* Evidence that grows for one envelope grows.
LEMMA EvidenceUpdate ==
    ASSUME TypeOK, NEW a \in Attempt, NEW e \in EvidenceType,
           evidence' = [evidence EXCEPT ![a] = e],
           evidence[a].accepted => e.accepted,
           evidence[a].journal = "known_terminal" => e.journal = "known_terminal"
    PROVE  EvidenceGrows
<1> evidence \in [Attempt -> EvidenceType]
  BY DEF TypeOK, EvidenceType
<1> QED
  BY DEF EvidenceGrows

\* Evidence that stays as it is grows.
LEMMA EvidenceSame ==
    ASSUME TypeOK, evidence' = evidence
    PROVE  EvidenceGrows
  BY DEF TypeOK, EvidenceType, EvidenceGrows

\* The dispatcher only reserves a lease; it takes back nothing the Bridge knows.
LEMMA DispatcherEvidence ==
    ASSUME TypeOK, NEW a \in Attempt, Dispatcher(a)
    PROVE  EvidenceGrows /\ (faults' = faults \/ Fault)
<1> USE DEF Stage
<1> faults' = faults => faults' = faults \/ Fault
  OBVIOUS
<1>1. CASE executePrepared(a)
  <2> DEFINE e == [evidence[a] EXCEPT !.lease = "reserved"]
  <2>1. evidence[a] \in EvidenceType
    BY DEF TypeOK, EvidenceType
  <2>2. e \in EvidenceType /\ e.accepted = evidence[a].accepted
        /\ e.journal = evidence[a].journal
    BY <2>1 DEF EvidenceType
  <2>3. evidence' = evidence \/ evidence' = [evidence EXCEPT ![a] = e]
    BY <1>1 DEF executePrepared
  <2> HIDE DEF e
  <2>4. EvidenceGrows
    BY <2>2, <2>3, EvidenceUpdate, EvidenceSame
  <2> QED
    BY <1>1, <2>4 DEF executePrepared
<1>2. CASE ~executePrepared(a)
  <2>0. ASSUME NEW s, Refuse(a, s) PROVE evidence' = evidence /\ faults' = faults
    BY <2>0, RefuseKeeps
  <2>00. ASSUME NEW r, NEW c, NEW s, NEW f, StageAll(a, r, c, s, f)
         PROVE  evidence' = evidence /\ (faults' = faults \/ Fault)
    BY <2>00, StageWrites
  <2> DEFINE Kept == evidence' = evidence /\ (faults' = faults \/ Fault)
  <2>1. Start(a) \/ acquireInvocationWindow(a) \/ createPendingAction(a) => Kept
    BY <2>0, <2>00 DEF Start, acquireInvocationWindow, createPendingAction
  <2>2. prepareMutationDispatch(a) => Kept
    BY <2>0, <2>00 DEF prepareMutationDispatch
  <2>3. prepareVerificationDispatch(a) => Kept
    BY Zenon, <2>0, <2>00 DEF prepareVerificationDispatch
  <2>4. prepareOriginRedelivery(a) => Kept
    BY ZenonT(60), <2>0, <2>00 DEF prepareOriginRedelivery
  <2>5. auditApproval(a) \/ preflightMutation(a) \/ prepareNext(a) => Kept
    BY <2>0 DEF auditApproval, preflightMutation, prepareNext
  <2>6. reconcilePendingDispatch(a) => Kept
    BY ZenonT(60), <2>0, <2>00 DEF reconcilePendingDispatch, reconcileNoSend,
       reconcileAcceptance, reconcileVerification, reconcileKnown, reconcileLate,
       reconcileIndeterminate
  <2>7. recordVerificationEvidence(a) => Kept
    BY ZenonT(60), <2>0, <2>00 DEF recordVerificationEvidence
  <2>8. planRecoveryClearances(a) \/ releaseInvocationWindow(a) => Kept
    BY ZenonT(60), <2>0, <2>00 DEF planRecoveryClearances, releaseInvocationWindow
  <2>9. Kept
    BY <1>2, <2>1, <2>2, <2>3, <2>4, <2>5, <2>6, <2>7, <2>8 DEF Dispatcher
  <2> QED
    BY <2>9, EvidenceSame
<1> QED
  BY <1>1, <1>2

\* What the Bridge session learns changes the evidence only.
LEMMA BridgeFrame ==
    ASSUME TypeOK, NEW a \in Attempt, BridgeSends(a) \/ BridgeAccepts(a) \/ BridgeJournals(a)
    PROVE  EvidenceGrows /\ UNCHANGED <<att, record, confirmation, faults>>
<1>1. evidence[a] \in EvidenceType
  BY DEF TypeOK, EvidenceType
<1>2. ASSUME NEW e \in EvidenceType, Learns(a, e),
             evidence[a].accepted => e.accepted,
             evidence[a].journal = "known_terminal" => e.journal = "known_terminal"
      PROVE  EvidenceGrows /\ UNCHANGED <<att, record, confirmation, faults>>
  BY Zenon, <1>2, EvidenceUpdate DEF Learns
<1>3. CASE BridgeSends(a)
  <2> DEFINE e == [evidence[a] EXCEPT !.lease = "sent"]
             f == [evidence[a] EXCEPT !.lease = "no_send", !.journal = "known_terminal"]
  <2>1. Learns(a, e) \/ Learns(a, f)
    BY <1>3 DEF BridgeSends
  <2>2. /\ e \in EvidenceType /\ e.accepted = evidence[a].accepted
        /\ e.journal = evidence[a].journal
        /\ f \in EvidenceType /\ f.accepted = evidence[a].accepted
        /\ f.journal = "known_terminal"
    BY Zenon, <1>1 DEF EvidenceType, Journal
  <2> HIDE DEF e, f
  <2> QED
    BY <1>2, <2>1, <2>2
<1>4. CASE BridgeAccepts(a)
  <2> DEFINE e == [evidence[a] EXCEPT !.accepted = TRUE]
  <2>1. Learns(a, e)
    BY <1>4 DEF BridgeAccepts
  <2>2. e \in EvidenceType /\ e.accepted /\ e.journal = evidence[a].journal
    BY Zenon, <1>1 DEF EvidenceType
  <2> HIDE DEF e
  <2> QED
    BY <1>2, <2>1, <2>2
<1>5. CASE BridgeJournals(a)
  <2> DEFINE e(k) == [evidence[a] EXCEPT !.journal = k]
  <2>1. /\ evidence[a].journal # "known_terminal"
        /\ \E k \in Journal : Learns(a, e(k))
    BY ZenonT(60), <1>5 DEF BridgeJournals, Journal
  <2>2. PICK k \in Journal : Learns(a, e(k))
    BY <2>1
  <2>3. e(k) \in EvidenceType /\ e(k).accepted = evidence[a].accepted
    BY <1>1 DEF EvidenceType
  <2> HIDE DEF e
  <2> QED
    BY <1>2, <2>1, <2>2, <2>3
<1> QED
  BY <1>3, <1>4, <1>5

\* Every step is a step of one attempt, a late conclusion about a hold, or one that
\* writes no record: it may mark a confirmation as due or end an attempt.
Aside ==
    /\ record' = record
    /\ confirmation' \in [Attempt -> ConfirmationType]
    /\ \A b \in Attempt :
          /\ att'[b].step = att[b].step \/ att'[b].step = "dead"
          /\ confirmation'[b].state = confirmation[b].state
          /\ confirmation'[b].entries = confirmation[b].entries
          /\ confirmation'[b].commit = confirmation[b].commit

\* The steps of the system, by what they may write.
LEMMA NextCases ==
    ASSUME Inv, Next
    PROVE  /\ RequestsStay /\ EvidenceGrows /\ faults' \in 0 .. MaxFaults
           /\ \/ \E a \in Attempt : Effect(a) /\ \A b \in Attempt : b # a => att'[b] = att[b]
              \/ LateEvidence
              \/ Aside
<1> TypeOK /\ confirmation \in [Attempt -> ConfirmationType] /\ att \in [Attempt -> AttType]
  BY ZenonT(60) DEF Inv, TypeOK, ConfirmationType, AttType
<1>0. faults' = faults \/ Fault => faults' \in 0 .. MaxFaults
  BY BoundsAssumption DEF TypeOK, Fault
<1>1. att' = att => RequestsStay
  BY DEF RequestsStay
<1>2. ASSUME NEW a \in Attempt, Dispatcher(a)
      PROVE  /\ RequestsStay /\ EvidenceGrows /\ faults' \in 0 .. MaxFaults
             /\ Effect(a) /\ \A b \in Attempt : b # a => att'[b] = att[b]
  BY <1>2, <1>0, DispatcherEffect, DispatcherFrame, DispatcherEvidence
<1>3. ASSUME NEW a \in Attempt, BridgeSends(a) \/ BridgeAccepts(a) \/ BridgeJournals(a)
      PROVE  RequestsStay /\ EvidenceGrows /\ faults' \in 0 .. MaxFaults /\ Aside
  BY <1>3, <1>0, <1>1, BridgeFrame DEF Aside
<1>4. ASSUME NEW a \in Attempt, ConfirmationDue(a)
      PROVE  RequestsStay /\ EvidenceGrows /\ faults' \in 0 .. MaxFaults /\ Aside
  <2> DEFINE c == [confirmation[a] EXCEPT !.due = TRUE]
  <2>1. /\ c \in ConfirmationType /\ c.state = confirmation[a].state
        /\ c.entries = confirmation[a].entries /\ c.commit = confirmation[a].commit
    BY ZenonT(60) DEF ConfirmationType
  <2>2. confirmation' = [confirmation EXCEPT ![a] = c]
        /\ UNCHANGED <<att, record, evidence, faults>>
    BY <1>4 DEF ConfirmationDue
  <2> HIDE DEF c
  <2>3. Aside
    BY <2>1, <2>2 DEF Aside
  <2> QED
    BY <1>0, <1>1, <2>2, <2>3, EvidenceSame
<1>5. ASSUME NEW a \in Attempt, Crash(a)
      PROVE  RequestsStay /\ EvidenceGrows /\ faults' \in 0 .. MaxFaults /\ Aside
  <2>1. Goes(a, "dead") /\ Fault /\ UNCHANGED <<record, confirmation, evidence>>
    BY <1>5 DEF Crash
  <2>2. RequestsStay /\ \A b \in Attempt : b # a => att'[b] = att[b]
    BY <2>1, StepNames, GoesFrame
  <2>3. att'[a].step = "dead"
    BY <2>1, GoesStep
  <2> QED
    BY <1>0, <2>1, <2>2, <2>3, EvidenceSame DEF Aside
<1>6. ASSUME LateEvidence
      PROVE  RequestsStay /\ EvidenceGrows /\ faults' \in 0 .. MaxFaults
  BY ZenonT(60), <1>6, <1>0, <1>1, LateEvidenceFields, EvidenceSame
<1> QED
  BY <1>2, <1>3, <1>4, <1>5, <1>6 DEF Next

-----------------------------------------------------------------------------
(* The pending dispatch and the history                                     *)

\* What an envelope is about never changes.
LEMMA RequestOps ==
    ASSUME RequestsStay, NEW x \in Attempt
    PROVE  /\ entries(x)' = entries(x) /\ scopesOf(x)' = scopesOf(x)
           /\ origin(x)' = origin(x) /\ keys(x)' = keys(x)
           /\ mutationEntries(x)' = mutationEntries(x)
           /\ Mutating(x)' = Mutating(x) /\ Confirmed(x)' = Confirmed(x)
           /\ Is(x, {"verify"})' = Is(x, {"verify"})
           /\ Is(x, {"redeliver"})' = Is(x, {"redeliver"})
<1>1. att'[x].request = att[x].request
  BY DEF RequestsStay
<1>2. entries(x)' = entries(x) /\ origin(x)' = origin(x)
  BY <1>1 DEF entries, origin
<1>3. scopesOf(x)' = scopesOf(x) /\ keys(x)' = keys(x)
  BY <1>2 DEF scopesOf, keys
<1>4. mutationEntries(x)' = mutationEntries(x)
  BY <1>2, <1>3 DEF mutationEntries
<1>5. /\ Mutating(x)' = Mutating(x) /\ Confirmed(x)' = Confirmed(x)
      /\ Is(x, {"verify"})' = Is(x, {"verify"})
      /\ Is(x, {"redeliver"})' = Is(x, {"redeliver"})
  BY <1>1 DEF Mutating, Confirmed, Is
<1> QED
  BY <1>2, <1>3, <1>4, <1>5

Steady ==
    /\ SameDispatch(record.pending, record'.pending) /\ record'.history = record.history
    /\ HasPending' => HasPending

Admits(a) ==
    /\ At(a, "prepare") /\ record.window = a /\ ~HasPending
    /\ record'.pending.envelope = a /\ AsRequested(a, record'.pending.kind)
    /\ record'.pending.kind \in {"mutation", "verification", "redelivery"}
    /\ record'.history = record.history
    /\ record'.pending.kind = "redelivery" =>
          /\ entries(a) = entries(origin(a))
          /\ \E i \in Indices : IndeterminateOrigin(record.history[i], a)

Closes(a) ==
    /\ Own(a) /\ record'.pending = NoDispatch
    /\ \E h \in Outcome :
          /\ record'.history = Append(record.history, h) /\ h.envelope = a
          /\ IF h.status = "indeterminate" THEN h.journal = "indeterminate"
                                           ELSE record.pending.kind # "redelivery"

MarksLate(a) ==
    /\ Own(a) /\ record.pending.kind = "redelivery" /\ record'.pending = NoDispatch
    /\ \E i \in Indices : /\ record.history[i].status = "indeterminate"
                          /\ Marks(record.history, i, record'.history)

\* A write keeps the pending dispatch, admits one, closes it, or marks a late result.
LEMMA PendingSteps ==
    ASSUME Inv, NEW a \in Attempt, RecordStep(a)
    PROVE  /\ record' \in Record
           /\ Steady \/ Admits(a) \/ Closes(a) \/ MarksLate(a)
<1> TypeOK
  BY DEF Inv
<1>0. SameDispatch(record.pending, record.pending)
  BY DEF SameDispatch
<1>1. CASE Acquired(a) \/ Released(a)
  BY <1>0, <1>1, WindowFields DEF Fields, Steady, HasPending
<1>2. CASE MutationAdmitted(a)
  <2>1. PICK I \in SUBSET Id, cs \in SUBSET PlanClearance :
            /\ record' \in Record /\ record'.history = record.history
            /\ record'.pending = Pending(a, "mutation", I, cs)
    <3>1. {} \in SUBSET Id /\ {} \in SUBSET PlanClearance
          /\ att[a].clearances \in SUBSET PlanClearance
      BY DEF TypeOK
    <3> QED
      BY ZenonT(60), <1>2, <3>1, MutationFields DEF Fields
  <2>2. record'.pending.envelope = a /\ record'.pending.kind = "mutation"
    BY <2>1, PendingType
  <2>3. Mutating(a) /\ At(a, "prepare") /\ record.window = a /\ ~HasPending
    BY <1>2 DEF MutationAdmitted, Dispatchable
  <2> QED
    BY ZenonT(60), <2>1, <2>2, <2>3 DEF Admits, AsRequested
<1>3. CASE VerificationAdmitted(a)
  <2>1. /\ record' \in Record /\ record'.history = record.history
        /\ record'.pending.envelope = a /\ record'.pending.kind = "verification"
    BY <1>3, VerificationFields DEF Fields
  <2> QED
    BY <1>3, <2>1 DEF Admits, AsRequested, VerificationAdmitted
<1>4. CASE RedeliveryAdmitted(a)
  <2>1. /\ record' \in Record /\ record'.history = record.history
        /\ record'.pending.envelope = a /\ record'.pending.kind = "redelivery"
        /\ \E i \in Indices : IndeterminateOrigin(record.history[i], a)
    BY <1>4, RedeliveryFields DEF Fields
  <2> QED
    BY <1>4, <2>1 DEF Admits, AsRequested, RedeliveryAdmitted
<1>5. CASE TerminalClosed(a)
  <2>1. Own(a) /\ record.pending.kind # "redelivery"
    BY <1>5 DEF TerminalClosed
  <2>2. PICK F, h : Closing(a, Image(record.holds, F), h) /\ h.status = "terminal"
    BY <1>5, TerminalFields
  <2> QED
    BY <2>1, <2>2 DEF Closing, Fields, Closes
<1>6. CASE AcceptanceRecorded(a)
  <2>1. PICK F : \E p \in Dispatch :
            /\ SameDispatch(record.pending, p)
            /\ Fields(record.window, Image(record.holds, F), record.plan, p, record.history)
    BY <1>6, AcceptanceFields
  <2>2. Own(a)
    BY <1>6 DEF AcceptanceRecorded
  <2> QED
    BY <2>1, <2>2, OwnPending DEF Fields, Steady
<1>7. CASE ReadRecorded(a)
  <2>1. Own(a)
    BY <1>7 DEF ReadRecorded
  <2> QED
    BY <1>7, <2>1, ReadFields, OwnPending DEF Fields, Steady
<1>8. CASE LateClosed(a)
  <2>0. Own(a) /\ (record.pending.kind = "redelivery" \/ a \in Retained)
    BY <1>8 DEF LateClosed, Retained
  <2>1. Own(a) /\ record.pending.kind = "redelivery"
    BY <2>0, OwnPending
  <2>2. PICK F, H : \E i \in Indices :
            /\ record.history[i].status = "indeterminate" /\ Marks(record.history, i, H)
            /\ Fields(record.window, Image(record.holds, F), record.plan, NoDispatch, H)
    BY <1>8, LateFields
  <2> QED
    BY <2>1, <2>2 DEF Fields, MarksLate
<1>9. CASE IndeterminateClosed(a)
  <2>1. Own(a)
    BY <1>9 DEF IndeterminateClosed
  <2>2. PICK L, h : /\ Closing(a, L, h)
                    /\ h.status = "indeterminate" /\ h.journal = "indeterminate"
    BY <1>9, IndeterminateFields
  <2> QED
    BY <2>1, <2>2 DEF Closing, Fields, Closes
<1>10. CASE RedeliveryClosed(a)
  <2>1. Own(a)
    BY <1>10 DEF RedeliveryClosed
  <2> QED
    BY <1>10, <2>1, RedeliveryClosedFields DEF Closing, Fields, Closes
<1>11. CASE Concluded(a)
  <2>1. Own(a) /\ record.pending.kind = "verification"
    BY <1>11 DEF Concluded
  <2>2. PICK F, h : Closing(a, Image(record.holds, F), h) /\ h.status = "terminal"
    BY <1>11, ConcludedFields
  <2> QED
    BY <2>1, <2>2 DEF Closing, Fields, Closes
<1>12. CASE PlanStored(a)
  BY <1>0, <1>12, PlanFields DEF Fields, Steady, HasPending
<1> QED
  BY <1>1, <1>2, <1>3, <1>4, <1>5, <1>6, <1>7, <1>8, <1>9, <1>10, <1>11, <1>12
     DEF RecordStep

-----------------------------------------------------------------------------
(* The window                                                               *)

\* Every step preserves WindowInv.
LEMMA WindowStep ==
    ASSUME Inv, Next
    PROVE  WindowInv'
<1>0. /\ \A b \in Attempt : att[b].step \in InWindow => record.window = b
      /\ HasPending => /\ record.pending.envelope = record.window
                       /\ record.pending.envelope \in Attempt /\ record.pending.kind # "none"
  BY DEF Inv, WindowInv, WindowExclusive
<1>1. ASSUME NEW a \in Attempt, Effect(a), \A b \in Attempt : b # a => att'[b] = att[b]
      PROVE  \A b \in Attempt : att'[b].step \in InWindow => record'.window = b
  <2>1. SUFFICES ASSUME NEW b \in Attempt, att'[b].step \in InWindow
                 PROVE  record'.window = b
    OBVIOUS
  <2>2. Acquired(a) => record.window = None /\ record'.window = a
    BY WindowFields DEF Acquired, Fields, Inv
  <2>3. Released(a) => record.window = a
    BY DEF Released
  <2>4. None \notin Attempt /\ "done" \notin InWindow
    BY NoneAssumption DEF InWindow
  <2>5. CASE b = a
    BY <1>0, <1>1, <2>1, <2>2, <2>3, <2>4, <2>5 DEF Effect
  <2>6. CASE b # a
    <3>1. record.window = b
      BY <1>0, <1>1, <2>1, <2>6
    <3> QED
      BY ZenonT(60), <1>1, <2>2, <2>3, <2>4, <2>6, <3>1 DEF Effect
  <2> QED
    BY <2>5, <2>6
<1>2. ASSUME NEW a \in Attempt, Effect(a)
      PROVE  HasPending' => /\ record'.pending.envelope = record'.window
                            /\ record'.pending.envelope \in Attempt
                            /\ record'.pending.kind # "none"
  <2>1. CASE record' = record
    BY <1>0, <2>1 DEF HasPending
  <2>2. CASE RecordStep(a) /\ record' # record
    <3>1. Steady \/ Admits(a) \/ Closes(a) \/ MarksLate(a)
      BY <2>2, PendingSteps
    <3>2. CASE Steady
      <4>1. HasPending' => HasPending /\ SameDispatch(record.pending, record'.pending)
        BY <3>2 DEF Steady
      <4>2. HasPending => ~Acquired(a) /\ ~Released(a)
        BY DEF Acquired, Released
      <4> QED
        BY ZenonT(60), <1>0, <1>2, <4>1, <4>2 DEF Effect, SameDispatch
    <3>3. CASE Admits(a)
      <4>1. record.window = a /\ a # None
        BY <3>3, NoneAssumption DEF Admits
      <4>2. ~Acquired(a)
        BY <4>1 DEF Acquired
      <4>3. ~Released(a)
        <5>1. record.pending = NoDispatch /\ record'.pending.envelope = a
          BY ZenonT(60), <3>3 DEF Admits, HasPending
        <5>2. Released(a) => record'.pending = record.pending
          BY WindowFields DEF Fields, Inv
        <5>3. NoDispatch.envelope = None
          BY DEF NoDispatch
        <5> QED
          BY Zenon, <4>1, <5>1, <5>2, <5>3
      <4> QED
        BY ZenonT(60), <1>2, <3>3, <4>1, <4>2, <4>3 DEF Admits, Effect
    <3>4. CASE Closes(a) \/ MarksLate(a)
      BY <3>4 DEF Closes, MarksLate, HasPending, NoDispatch
    <3> QED
      BY <3>1, <3>2, <3>3, <3>4
  <2> QED
    BY ZenonT(60), <1>2, <2>1, <2>2 DEF Effect
<1>3. CASE \E a \in Attempt : Effect(a) /\ \A b \in Attempt : b # a => att'[b] = att[b]
  BY <1>1, <1>2, <1>3 DEF WindowInv, WindowExclusive
<1>4. CASE LateEvidence
  <2>1. att' = att /\ record'.window = record.window /\ record'.pending = record.pending
    BY <1>4, LateEvidenceFields DEF Fields
  <2> QED
    BY <1>0, <2>1 DEF WindowInv, WindowExclusive, HasPending, NoDispatch
<1>5. CASE Aside
  <2>1. record' = record
        /\ \A b \in Attempt : att'[b].step \in InWindow => att[b].step \in InWindow
    BY <1>5 DEF Aside, InWindow
  <2> QED
    BY ZenonT(60), <1>0, <2>1 DEF WindowInv, WindowExclusive, HasPending, NoDispatch
<1> QED
  BY <1>3, <1>4, <1>5, NextCases

-----------------------------------------------------------------------------
(* Admission and retention                                                  *)

\* No entry of the history is dropped, and only its journal may change.
KeepsHistory ==
    \A i \in Indices : /\ i \in DOMAIN record'.history
                       /\ record'.history[i].envelope = record.history[i].envelope
                       /\ record'.history[i].status = record.history[i].status
                       /\ record'.history[i].holdIds = record.history[i].holdIds

\* No entry of the history is dropped or given another status.
LEMMA HistoryKept ==
    ASSUME Inv, Next
    PROVE  /\ KeepsHistory /\ record' \in Record
           /\ \A x : x \in Retained => x \in Retained'
<1>1. KeepsHistory /\ record' \in Record
  <2> record \in Record /\ record.history \in Seq(Outcome)
    BY RecordFacts DEF Inv
  <2>1. record'.history = record.history => KeepsHistory
    BY DEF KeepsHistory, Indices
  <2>2. ASSUME NEW a \in Attempt, RecordStep(a) PROVE KeepsHistory /\ record' \in Record
    <3>1. CASE Steady \/ Admits(a)
      BY ZenonT(60), <2>1, <2>2, <3>1, PendingSteps DEF Steady, Admits
    <3>2. CASE Closes(a)
      BY <2>2, <3>2, PendingSteps, AppendedHistory DEF Closes, KeepsHistory, Indices
    <3>3. CASE MarksLate(a)
      BY <2>2, <3>3, PendingSteps DEF MarksLate, Marks, KeepsHistory, Indices
    <3> QED
      BY <2>2, <3>1, <3>2, <3>3, PendingSteps
  <2>3. LateEvidence => KeepsHistory /\ record' \in Record
    BY ZenonT(60), <2>1, LateEvidenceFields DEF Fields
  <2> QED
    BY ZenonT(60), <2>1, <2>2, <2>3, NextCases DEF Effect, Aside
<1> QED
  BY <1>1 DEF KeepsHistory, Retained, Indices

\* An attempt that has just prepared its first dispatch is neither pending nor retained.
LEMMA AdmittedFresh ==
    ASSUME Inv, NEW a \in Attempt, At(a, "prepare")
    PROVE  ~Own(a) /\ a \notin Retained
  BY DEF Inv, DispatchInv, At, Fresh

\* Envelopes with a key in common have the same origin.
LEMMA SameKeysOrigin ==
    ASSUME NEW x, NEW y, keys(x) \cap keys(y) # {}
    PROVE  origin(x) = origin(y)
  BY DEF keys

\* The entry a redelivery is admitted by has the keys and the payload of its origin.
LEMMA RedeliveryOrigin ==
    ASSUME Inv, NEW a \in Attempt, entries(a) = entries(origin(a)), Is(a, {"redeliver"}),
           NEW i \in Indices, IndeterminateOrigin(record.history[i], a)
    PROVE  /\ OriginIndeterminate(a)
           /\ keys(record.history[i].envelope) = keys(a)
           /\ entries(record.history[i].envelope) = entries(a)
<1> DEFINE x == record.history[i].envelope
<1>1. x \in Attempt /\ x \in Retained /\ record.history[i].status = "indeterminate"
  BY ZenonT(60), RecordFacts DEF Inv, Outcome, IndeterminateOrigin, Retained
<1>2. origin(x) = origin(a)
  BY SameKeysOrigin DEF IndeterminateOrigin
<1>3. CASE Is(x, {"redeliver"})
  <2>1. OriginIndeterminate(x)
    BY Zenon, <1>1, <1>3 DEF Inv, DispatchInv
  <2>2. PICK y \in Attempt :
            /\ y = origin(x) /\ ~Is(y, {"redeliver"}) /\ entries(x) = entries(y)
            /\ \E j \in Indices : /\ record.history[j].envelope = y
                                  /\ record.history[j].status = "indeterminate"
    BY <2>1 DEF OriginIndeterminate
  <2>3. entries(x) = entries(a)
    BY <1>2, <2>2
  <2> QED
    BY <1>2, <2>2, <2>3 DEF OriginIndeterminate, keys
<1>4. CASE ~Is(x, {"redeliver"})
  <2>1. origin(x) = x
    BY <1>4 DEF Is, origin
  <2> QED
    BY <1>1, <1>2, <1>4, <2>1 DEF OriginIndeterminate, keys
<1> QED
  BY <1>3, <1>4

\* The origin of a redelivery stays retained as indeterminate.
LEMMA OriginKept ==
    ASSUME Inv, Next, NEW x \in Attempt, OriginIndeterminate(x)
    PROVE  OriginIndeterminate(x)'
<1>1. PICK y \in Attempt :
          /\ y = origin(x) /\ ~Is(y, {"redeliver"}) /\ entries(x) = entries(y)
          /\ \E i \in Indices : /\ record.history[i].envelope = y
                                /\ record.history[i].status = "indeterminate"
  BY DEF OriginIndeterminate
<1>2. PICK i \in Indices : /\ record.history[i].envelope = y
                           /\ record.history[i].status = "indeterminate"
  BY <1>1
<1>3. /\ i \in Indices' /\ record'.history[i].envelope = y
      /\ record'.history[i].status = "indeterminate"
  BY <1>2, HistoryKept DEF KeepsHistory, Indices
<1>4. /\ y = origin(x)' /\ ~Is(y, {"redeliver"})' /\ entries(x)' = entries(y)'
  BY ZenonT(60), <1>1, NextCases, RequestOps
<1> QED
  BY <1>3, <1>4 DEF OriginIndeterminate

\* Which attempts a step adds to the pending and the retained ones.
LEMMA AdmissionSteps ==
    ASSUME Inv, Next
    PROVE  \/ /\ \A x \in Attempt : Own(x)' => Own(x) /\ record'.pending.kind = record.pending.kind
              /\ \A x : x \in Retained' => x \in Retained
           \/ \E a \in Attempt : /\ Admits(a) /\ att'[a].step \notin Fresh
                                 /\ \A x : x \in Retained' => x \in Retained
           \/ \E a \in Attempt : /\ Closes(a) /\ att'[a].step \notin Fresh
                                 /\ \A x \in Attempt : ~Own(x)'
                                 /\ \A x : x \in Retained' => x \in Retained \cup {a}
<1> TypeOK /\ record.history \in Seq(Outcome)
  BY RecordFacts DEF Inv
<1>0. record'.history = record.history => \A x : x \in Retained' => x \in Retained
  BY DEF Retained, Indices
<1>1. ASSUME NEW a \in Attempt, Effect(a), RecordStep(a), record' # record
      PROVE  \/ /\ \A x \in Attempt : Own(x)' => Own(x) /\ record'.pending.kind = record.pending.kind
                /\ \A x : x \in Retained' => x \in Retained
             \/ /\ Admits(a) /\ att'[a].step \notin Fresh
                /\ \A x : x \in Retained' => x \in Retained
             \/ /\ Closes(a) /\ att'[a].step \notin Fresh
                /\ \A x \in Attempt : ~Own(x)'
                /\ \A x : x \in Retained' => x \in Retained \cup {a}
  <2>0. Acquired(a) => record'.pending = record.pending /\ record'.history = record.history
    BY WindowFields DEF Fields
  <2>00. record'.pending = NoDispatch => \A x \in Attempt : ~Own(x)'
    <3>1. NoDispatch.envelope = None /\ \A x \in Attempt : x # None
      BY NoneAssumption DEF NoDispatch
    <3> QED
      BY Zenon, <3>1 DEF Own
  <2>1. CASE Steady
    BY <1>0, <2>1 DEF Steady, SameDispatch, Own
  <2>2. CASE Admits(a)
    <3>1. record.pending = NoDispatch /\ record'.pending.envelope = a /\ a # None
      BY ZenonT(60), <2>2, NoneAssumption DEF Admits, HasPending
    <3>2. ~Acquired(a)
      BY <2>0, <3>1 DEF NoDispatch
    <3>3. att'[a].step \notin Fresh
      BY ZenonT(60), <1>1, <3>2 DEF Effect
    <3> QED
      BY ZenonT(60), <1>0, <2>2, <3>3 DEF Admits
  <2>3. CASE Closes(a)
    <3>1. PICK h \in Outcome :
              record'.history = Append(record.history, h) /\ h.envelope = a
      BY <2>3 DEF Closes
    <3>2. ASSUME NEW x, x \in Retained' PROVE x \in Retained \cup {a}
      <4>1. PICK j \in DOMAIN record'.history : record'.history[j].envelope = x
        BY <3>2 DEF Retained, Indices
      <4> QED
        BY <3>1, <4>1, AppendedHistory DEF Retained, Indices
    <3>3. ~Acquired(a)
      BY <2>0, <3>1, AppendedHistory
    <3> QED
      BY ZenonT(60), <1>1, <2>00, <2>3, <3>2, <3>3 DEF Effect, Closes
  <2>4. CASE MarksLate(a)
    <3>1. \A x : x \in Retained' => x \in Retained
      BY <2>4 DEF MarksLate, Marks, Retained, Indices
    <3> QED
      BY ZenonT(60), <2>00, <2>4, <3>1 DEF MarksLate
  <2> QED
    BY <1>1, <2>1, <2>2, <2>3, <2>4, PendingSteps
<1>2. ASSUME record'.pending = record.pending, record'.history = record.history
      PROVE  /\ \A x \in Attempt : Own(x)' => Own(x) /\ record'.pending.kind = record.pending.kind
             /\ \A x : x \in Retained' => x \in Retained
  BY <1>0, <1>2 DEF Own
<1>3. LateEvidence => record'.pending = record.pending /\ record'.history = record.history
  BY LateEvidenceFields DEF Fields
<1>4. CASE record'.pending = record.pending /\ record'.history = record.history
  BY <1>2, <1>4
<1>5. CASE \E a \in Attempt : Effect(a) /\ RecordStep(a) /\ record' # record
  BY <1>1, <1>5
<1> QED
  BY ZenonT(60), <1>3, <1>4, <1>5, NextCases DEF Effect, Aside

\* An attempt that has prepared its dispatch does not become fresh again.
LEMMA FreshStep ==
    ASSUME Inv, Next, NEW x \in Attempt, att'[x].step \in Fresh
    PROVE  att[x].step \in Fresh
<1>1. CASE Aside
  BY <1>1 DEF Aside, Fresh
<1>2. CASE LateEvidence
  BY ZenonT(60), <1>2, LateEvidenceFields
<1>3. ASSUME NEW a \in Attempt, Effect(a), \A b \in Attempt : b # a => att'[b] = att[b]
      PROVE  att[x].step \in Fresh
  BY <1>3 DEF Effect
<1> QED
  BY <1>1, <1>2, <1>3, NextCases

\* Every step preserves DispatchInv.
LEMMA DispatchStep ==
    ASSUME Inv, Next
    PROVE  DispatchInv'
<1> TypeOK /\ RequestsStay /\ record.history \in Seq(Outcome)
  BY NextCases, RecordFacts DEF Inv
<1>1. ASSUME NEW x \in Attempt, att'[x].step \in Fresh
      PROVE  ~Own(x)' /\ x \notin Retained'
  <2>1. att[x].step \in Fresh /\ ~Own(x) /\ x \notin Retained
    BY ZenonT(60), <1>1, FreshStep DEF Inv, DispatchInv
  <2> QED
    BY ZenonT(60), <1>1, <2>1, AdmissionSteps DEF Admits, Own
<1>2. ASSUME NEW x \in Attempt, Own(x)'
      PROVE  x \notin Retained' /\ AsRequested(x, record.pending.kind)'
  <2>0. ASSUME NEW k, AsRequested(x, k) PROVE AsRequested(x, k)'
    BY <2>0, RequestOps DEF AsRequested
  <2>1. CASE /\ Own(x) /\ record'.pending.kind = record.pending.kind
             /\ \A y : y \in Retained' => y \in Retained
    <3>1. x \notin Retained /\ AsRequested(x, record.pending.kind)
      BY <2>1 DEF Inv, DispatchInv
    <3>2. Mutating(x)' = Mutating(x) /\ Is(x, {"verify"})' = Is(x, {"verify"})
          /\ Is(x, {"redeliver"})' = Is(x, {"redeliver"})
      BY RequestOps
    <3> QED
      BY <2>1, <3>1, <3>2 DEF AsRequested
  <2>2. ASSUME NEW a \in Attempt, Admits(a), \A y : y \in Retained' => y \in Retained
        PROVE  x \notin Retained' /\ AsRequested(x, record.pending.kind)'
    <3>1. x = a /\ AsRequested(x, record'.pending.kind) /\ x \notin Retained
      BY <1>2, <2>2, AdmittedFresh DEF Admits, Own
    <3>2. Mutating(x)' = Mutating(x) /\ Is(x, {"verify"})' = Is(x, {"verify"})
          /\ Is(x, {"redeliver"})' = Is(x, {"redeliver"})
      BY RequestOps
    <3> QED
      BY <2>2, <3>1, <3>2 DEF AsRequested
  <2> QED
    BY ZenonT(60), <1>2, <2>1, <2>2, AdmissionSteps
<1>3. ASSUME NEW x \in Attempt, Own(x)' \/ x \in Retained', Is(x, {"redeliver"})'
      PROVE  OriginIndeterminate(x)'
  <2>0. Is(x, {"redeliver"})
    BY <1>3, RequestOps
  <2>1. CASE Own(x) \/ x \in Retained
    BY ZenonT(60), <2>0, <2>1, OriginKept DEF Inv, DispatchInv
  <2>2. CASE ~Own(x) /\ x \notin Retained
    <3>1. Admits(x)
      BY ZenonT(60), <1>3, <2>2, AdmissionSteps DEF Admits, Own, Closes
    <3>2. record'.pending.kind = "redelivery"
      BY <2>0, <3>1 DEF Admits, AsRequested, Mutating, Is
    <3>3. OriginIndeterminate(x)
      BY ZenonT(60), <2>0, <3>1, <3>2, RedeliveryOrigin DEF Admits
    <3> QED
      BY <3>3, OriginKept
  <2> QED
    BY <2>1, <2>2
<1>4. CASE record'.history = record.history
  <2>1. \A i, j \in Indices' : record'.history[i].envelope = record'.history[j].envelope => i = j
    BY <1>4 DEF Inv, DispatchInv, Indices
  <2>2. ASSUME NEW i \in Indices', NEW x \in Attempt, record'.history[i].envelope = x
        PROVE  IF record'.history[i].status = "indeterminate"
               THEN record'.history[i].journal \in {"indeterminate", "late_terminal"}
               ELSE ~Is(x, {"redeliver"})'
    BY ZenonT(60), <1>4, <2>2, RequestOps DEF Inv, DispatchInv, Indices
  <2> QED
    BY ZenonT(60), <1>1, <1>2, <1>3, <2>1, <2>2 DEF DispatchInv
<1>5. ASSUME NEW a \in Attempt, Closes(a)
      PROVE  DispatchInv'
  <2>0. PICK h \in Outcome :
            /\ record'.history = Append(record.history, h) /\ h.envelope = a
            /\ IF h.status = "indeterminate" THEN h.journal = "indeterminate"
                                             ELSE record.pending.kind # "redelivery"
    BY <1>5 DEF Closes
  <2>00. a \notin Retained /\ record.pending.kind \in {"mutation", "verification", "redelivery"}
         /\ AsRequested(a, record.pending.kind)
    BY ZenonT(60), <1>5, OwnPending DEF Closes, Inv, DispatchInv
  <2>1. ASSUME NEW i \in Indices', NEW j \in Indices',
               record'.history[i].envelope = record'.history[j].envelope
        PROVE  i = j
    <3>1. /\ \A x, y \in Indices :
                record.history[x].envelope = record.history[y].envelope => x = y
          /\ \A x \in Indices : record.history[x].envelope # a
      BY Zenon, <2>00 DEF Inv, DispatchInv, Retained
    <3> QED
      BY <2>0, <2>1, <3>1, AppendedHistory DEF Indices
  <2>2. ASSUME NEW i \in Indices', NEW x \in Attempt, record'.history[i].envelope = x
        PROVE  IF record'.history[i].status = "indeterminate"
               THEN record'.history[i].journal \in {"indeterminate", "late_terminal"}
               ELSE ~Is(x, {"redeliver"})'
    <3>1. CASE i \in Indices
      <4>1. record'.history[i] = record.history[i]
        BY <2>0, <3>1, AppendedHistory DEF Indices
      <4> QED
        BY ZenonT(60), <2>2, <3>1, <4>1, RequestOps DEF Inv, DispatchInv
    <3>2. CASE i \notin Indices
      <4>1. record'.history[i] = h /\ x = a
        BY <2>0, <2>2, <3>2, AppendedHistory DEF Indices
      <4>2. record.pending.kind # "redelivery" => ~Is(a, {"redeliver"})
        BY <2>00, FirstHand DEF AsRequested
      <4> QED
        BY ZenonT(60), <2>0, <4>1, <4>2, RequestOps
    <3> QED
      BY <3>1, <3>2
  <2> QED
    BY ZenonT(60), <1>1, <1>2, <1>3, <2>1, <2>2 DEF DispatchInv
<1>6. ASSUME NEW a \in Attempt, MarksLate(a)
      PROVE  DispatchInv'
  <2>0. PICK m \in Indices : /\ record.history[m].status = "indeterminate"
                             /\ Marks(record.history, m, record'.history)
    BY <1>6 DEF MarksLate
  <2>1. ASSUME NEW i \in Indices', NEW j \in Indices',
               record'.history[i].envelope = record'.history[j].envelope
        PROVE  i = j
    BY ZenonT(60), <2>0, <2>1 DEF Inv, DispatchInv, Indices, Marks
  <2>2. ASSUME NEW i \in Indices', NEW x \in Attempt, record'.history[i].envelope = x
        PROVE  IF record'.history[i].status = "indeterminate"
               THEN record'.history[i].journal \in {"indeterminate", "late_terminal"}
               ELSE ~Is(x, {"redeliver"})'
    <3>1. /\ i \in Indices /\ record.history[i].envelope = x
          /\ record'.history[i].status = record.history[i].status
          /\ i # m => record'.history[i] = record.history[i]
          /\ i = m => record'.history[i].journal = "late_terminal"
      BY <2>0, <2>2 DEF Marks, Indices
    <3>2. IF record.history[i].status = "indeterminate"
          THEN record.history[i].journal \in {"indeterminate", "late_terminal"}
          ELSE ~Is(x, {"redeliver"})
      BY ZenonT(60), <3>1 DEF Inv, DispatchInv
    <3> QED
      BY ZenonT(60), <2>0, <3>1, <3>2, RequestOps
  <2> QED
    BY ZenonT(60), <1>1, <1>2, <1>3, <2>1, <2>2 DEF DispatchInv
<1>7. LateEvidence => record'.history = record.history
  BY LateEvidenceFields DEF Fields
<1>8. ASSUME NEW a \in Attempt, RecordStep(a)
      PROVE  record'.history = record.history \/ Closes(a) \/ MarksLate(a)
  BY <1>8, PendingSteps DEF Steady, Admits
<1> QED
  BY ZenonT(60), <1>4, <1>5, <1>6, <1>7, <1>8, NextCases DEF Effect, Aside
=============================================================================
