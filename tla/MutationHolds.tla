---------------------------- MODULE MutationHolds ----------------------------
(***************************************************************************)
(* The hold ledger of one Revit session: packages/protocol/src/mutationHold.  *)
(* A mutation whose outcome nobody knows puts a hold on its scope; the hold    *)
(* is lifted only by conclusive evidence, a resolution bound to one envelope,   *)
(* and the Bridge's acceptance of that very envelope.                         *)
(*                                                                         *)
(* A ledger is a set of holds.  A hold's id is the digest of its scope and    *)
(* origin keys, so the pair stands for it; digests of envelopes are envelope   *)
(* identities.  Evidence that is malformed or foreign is rejected without a    *)
(* change, and is not represented.                                          *)
(***************************************************************************)
EXTENDS Naturals, FiniteSets, Functions

CONSTANTS Documents,    \* documents of the session that mutations name
          None

Session == "session"
Scopes == Documents \cup {Session}

mutationScopesConflict(s, t) == s = Session \/ t = Session \/ s = t

\* Evidence names what it rests on: the verification read, or the late terminal
\* result of an origin key.
Conclusions == {"non_execution_proven", "postcondition_verified", "inconclusive"}
Conclusive(e) == e.conclusion # "inconclusive"

holdId(h) == <<h.scope, h.origins>>

NewHold(scope, origins) ==
    [scope |-> scope, origins |-> origins, state |-> "active", evidence |-> None,
     resolution |-> None, authorized |-> None, clearedBy |-> None]

isUncleared(h) == h.state # "cleared"

conflictingMutationHolds(ledger, scopes) ==
    {h \in ledger : isUncleared(h) /\ \E s \in scopes : mutationScopesConflict(h.scope, s)}

\* Mutant: one hold for all uncertain mutations, on the scope of one of them.
OneCandidateHold(uncertain) ==
    {NewHold(CHOOSE s \in Range(uncertain) : TRUE, DOMAIN uncertain)}

\* uncertain maps the origin key of each uncertain mutation to its scope.
candidateHolds(uncertain) ==
    IF Session \in Range(uncertain)
    THEN {NewHold(Session, DOMAIN uncertain)}
    ELSE {NewHold(s, {k \in DOMAIN uncertain : uncertain[k] = s}) : s \in Range(uncertain)}

ids(holds) == {holdId(h) : h \in holds}

\* Either every candidate is there already, or none may conflict with the ledger.
installMutationHolds(ledger, uncertain) ==
    LET candidates == candidateHolds(uncertain)
        conflicts == conflictingMutationHolds(ledger, {h.scope : h \in candidates})
    IN  CASE ids(candidates) \subseteq ids({h \in ledger : isUncleared(h)}) ->
                 [kind |-> "already_present", ledger |-> ledger, holdIds |-> ids(candidates)]
          [] OTHER ->
                 IF conflicts # {}
                 THEN [kind |-> "blocked", ledger |-> ledger, holdIds |-> ids(conflicts)]
                 ELSE [kind |-> "installed", ledger |-> ledger \cup candidates,
                       holdIds |-> ids(candidates)]

findExactHold(ledger, id) == {h \in ledger : holdId(h) = id}

updateHold(ledger, id, update) ==
    {IF holdId(h) = id THEN update[h] ELSE h : h \in ledger}

\* recordVerificationEvidence and recordLateTerminalEvidence accept evidence for
\* a hold that is not resolved yet; inconclusive evidence is kept but selects nothing.
OpenToEvidence(h) == h.state \in {"active", "evidence_recorded"}

recordEvidence(ledger, id, e) ==
    updateHold(ledger, id,
               [h \in ledger |-> IF Conclusive(e)
                                 THEN [h EXCEPT !.state = "evidence_recorded", !.evidence = e]
                                 ELSE h])

\* A clearance names a hold, the resolution it was minted for and its evidence.
Clearance(h, resolution) ==
    [holdId |-> holdId(h), resolution |-> resolution, evidence |-> h.evidence]

Resolvable(ledger, c) ==
    \E h \in findExactHold(ledger, c.holdId) :
        h.state = "evidence_recorded" /\ h.evidence = c.evidence

\* Every clearance of the plan is bound to the envelope that will carry it.
resolveMutationHold(ledger, clearances, envelope) ==
    {IF \E c \in clearances : c.holdId = holdId(h)
     THEN [h EXCEPT !.state = "resolved_pending_bridge",
                    !.resolution = (CHOOSE c \in clearances : c.holdId = holdId(h)).resolution,
                    !.authorized = envelope]
     ELSE h : h \in ledger}

clearanceMatches(h, c) == c = Clearance(h, h.resolution)

authorizeMutationDispatch(ledger, scopes, clearances, envelope) ==
    LET conflicts == conflictingMutationHolds(ledger, scopes)
        matched == /\ Cardinality(clearances) = Cardinality(conflicts)
                   /\ \A h \in conflicts :
                          /\ h.state = "resolved_pending_bridge"
                          /\ h.authorized = envelope
                          /\ \E c \in clearances : clearanceMatches(h, c)
        \* the same envelope again, after it cleared these holds
        repeated == \A c \in clearances : \E h \in ledger :
                        /\ h.state = "cleared" /\ h.clearedBy = envelope
                        /\ \E s \in scopes : mutationScopesConflict(h.scope, s)
                        /\ clearanceMatches(h, c)
        cleared == {IF h \in conflicts
                    THEN [h EXCEPT !.state = "cleared", !.clearedBy = envelope]
                    ELSE h : h \in ledger}
    IN  CASE conflicts = {} /\ repeated ->
                 [kind |-> "allowed", ledger |-> ledger, holdIds |-> {c.holdId : c \in clearances}]
          [] conflicts # {} /\ matched ->
                 [kind |-> "allowed", ledger |-> cleared, holdIds |-> ids(conflicts)]
          [] OTHER ->
                 [kind |-> "refused", ledger |-> ledger, holdIds |-> ids(conflicts)]

isOriginRedeliveryExempt(ledger, key) ==
    \E h \in ledger : isUncleared(h) /\ key \in h.origins
=============================================================================
