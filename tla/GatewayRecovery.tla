--------------------------- MODULE GatewayRecovery ---------------------------
(***************************************************************************)
(* How the Gateway sends a mutation at most once: the dispatcher              *)
(* (gateway/src/dispatch.ts), the recovery authority's durable record of one   *)
(* Revit session (recoveryAuthority.ts) and the confirmation authority         *)
(* (confirmationAuthority.ts), over a store whose transactions are atomic but   *)
(* may fail, or commit and be reported as failed.                            *)
(*                                                                         *)
(* An attempt is one request: a preview, a confirmed or an unconfirmed        *)
(* mutation, a verification read, the mutation that carries a recovery plan,    *)
(* or the redelivery of an indeterminate origin.  Each attempt mints its own    *)
(* invocation and envelope, so the attempt's name is the envelope's digest and   *)
(* <<attempt, i>> the idempotency key of its i-th entry.  A confirmation is      *)
(* named by the preview that issued it; a preview may have ended before the      *)
(* behaviour starts ("previewed").                                            *)
(*                                                                         *)
(* What the Bridge session durably knows of an envelope is `evidence'; how it   *)
(* comes to know it is the subject of GatewaySession and RbpLink.             *)
(***************************************************************************)
EXTENDS MutationHolds, Sequences

CONSTANTS Attempt,      \* requests
          Workload,     \* the requests of the attempts: a set of alternatives
          MaxRunning,   \* Gateway processes that serve the session's requests
          MaxFaults     \* store failures, audit failures and process crashes

ASSUME BoundsAssumption == MaxRunning \in Nat /\ MaxFaults \in Nat

\* What a conclusion about a hold rests on: a verification read, or an origin key.
Evidence == [basis : {"verification_read", "late_terminal"},
             by : Attempt \cup (Attempt \X Nat), conclusion : Conclusions]

ASSUME NoneAssumption == None \notin Attempt \cup Documents \cup Evidence

VARIABLES att,          \* per attempt: its request, and where the dispatcher is
          record,       \* the durable recovery record of the session
          confirmation, \* per preview: the pending action it issued
          evidence,     \* per envelope: what the Bridge session knows durably
          faults

vars == <<att, record, confirmation, evidence, faults>>

Kind == {"preview", "previewed", "commit", "auto", "next", "verify", "redeliver"}
InWindow == {"preflight", "build", "preview", "prepare", "approve", "execute",
             "reconcile", "record", "plan", "release"}
Step == InWindow \cup {"idle", "acquire", "done", "dead"}

\* kind, the scopes of its entries in order, and what it refers to: the preview
\* whose token it presents, the scope whose hold it verifies, or its origin.
Request == [kind : Kind, entries : Seq(Scopes), of : Attempt \cup {None}]

IsRequest(r) ==
    /\ r \in Request
    /\ r.kind \in {"commit", "next", "redeliver"} => r.of \in Attempt

ASSUME WorkloadAssumption ==
    \A w \in Workload : DOMAIN w = Attempt /\ \A a \in Attempt : IsRequest(w[a])

-----------------------------------------------------------------------------
(* Envelopes (deriveEnvelope)                                               *)

entries(a) == att[a].request.entries
scopesOf(a) == Range(entries(a))

\* The attempt that first sent the invocations of a's envelope.
origin(a) == IF att[a].request.kind = "redeliver" THEN att[a].request.of ELSE a

keys(a) == {origin(a)} \X DOMAIN entries(a)

\* Origin key to mutation scope.
mutationEntries(a) == [k \in keys(a) |-> entries(a)[k[2]]]

-----------------------------------------------------------------------------
(* The durable record                                                       *)

NoDispatch == [envelope |-> None, kind |-> "none", holdIds |-> {}, clearances |-> {},
               accepted |-> FALSE, journal |-> "none"]
NoPlan == [id |-> None, scopes |-> {}, clearances |-> {}]
NoEvidence == [lease |-> "none", accepted |-> FALSE, journal |-> "none"]
NoConfirmation == [state |-> "none", entries |-> <<>>, due |-> FALSE, commit |-> None]
Issued(scopes) == [NoConfirmation EXCEPT !.state = "pending", !.entries = scopes]

HasPending == record.pending # NoDispatch
HasPlan == record.plan # NoPlan

Indices == DOMAIN record.history
Retained == {record.history[i].envelope : i \in Indices}

\* An entry of the same envelope, if there is one, makes place for the new one.
historyWith(h) ==
    Append(IF h.envelope \in Retained
           THEN SelectSeq(record.history, LAMBDA x : x.envelope # h.envelope)
           ELSE record.history, h)

History(status, p, journal, accepted, holdIds) ==
    [envelope |-> p.envelope, status |-> status, journal |-> journal,
     accepted |-> accepted, holdIds |-> holdIds]

\* makePending
Pending(a, kind, holdIds, clearances) ==
    [NoDispatch EXCEPT !.envelope = a, !.kind = kind, !.holdIds = holdIds,
                       !.clearances = clearances]

emptyRecord == [window |-> None, holds |-> {}, plan |-> NoPlan, pending |-> NoDispatch,
                history |-> <<>>]

Init ==
    /\ \E w \in Workload :
          /\ att = [a \in Attempt |->
                        [step |-> IF w[a].kind = "previewed" THEN "done" ELSE "idle",
                         request |-> w[a], clearances |-> {}, inTime |-> FALSE]]
          /\ confirmation = [a \in Attempt |->
                                 IF w[a].kind = "previewed" THEN Issued(w[a].entries)
                                                            ELSE NoConfirmation]
    /\ record = emptyRecord
    /\ evidence = [a \in Attempt |-> NoEvidence]
    /\ faults = 0

-----------------------------------------------------------------------------
(* One store transaction of attempt a: staged writes r (recovery record) and   *)
(* c (confirmations), the next step when it commits, and the next step when it  *)
(* fails.  durability_uncertain commits and is reported as a failure.         *)

Goes(a, step) == att' = [att EXCEPT ![a].step = step]

Fault == faults < MaxFaults /\ faults' = faults + 1

StageAll(a, r, c, committed, failed) ==
    /\ \/ record' = r /\ confirmation' = c /\ Goes(a, committed) /\ UNCHANGED faults
       \/ UNCHANGED <<record, confirmation>> /\ Goes(a, failed) /\ Fault
       \/ record' = r /\ confirmation' = c /\ Goes(a, failed) /\ Fault
    /\ UNCHANGED evidence

Stage(a, r, committed, failed) == StageAll(a, r, confirmation, committed, failed)

\* A transaction that stages nothing, and a step that makes none.
Refuse(a, step) == Goes(a, step) /\ UNCHANGED <<record, confirmation, evidence, faults>>

At(a, step) == att[a].step = step
Is(a, kinds) == att[a].request.kind \in kinds

-----------------------------------------------------------------------------
(* The invocation window                                                    *)

Running == {a \in Attempt : att[a].step \notin {"idle", "done", "dead"}}

\* #serialize: a process works on one request of the session at a time.
Start(a) ==
    /\ At(a, "idle")
    /\ Cardinality(Running) < MaxRunning
    /\ Refuse(a, "acquire")

FirstStep(a) == CASE Is(a, {"preview"}) -> "preview"
                  [] Is(a, {"commit", "auto"}) -> "preflight"
                  [] Is(a, {"next"}) -> "build"
                  [] OTHER -> "prepare"

\* Mutant: a window that another attempt holds is taken over.
AcquireTakesOver(a) ==
    /\ At(a, "acquire")
    /\ \/ ~HasPending /\ Stage(a, [record EXCEPT !.window = a], FirstStep(a), "done")
       \/ HasPending /\ Refuse(a, "done")

\* A failed acquisition returns before the block that releases the window.
acquireInvocationWindow(a) ==
    /\ At(a, "acquire")
    /\ \/ /\ record.window = None /\ ~HasPending
          /\ Stage(a, [record EXCEPT !.window = a], FirstStep(a), "done")
       \/ /\ record.window # None \/ HasPending
          /\ Refuse(a, "done")

releaseInvocationWindow(a) ==
    /\ At(a, "release")
    /\ \/ /\ record.window = a /\ ~HasPending
          /\ Stage(a, [record EXCEPT !.window = None], "done", "done")
       \/ /\ record.window # a \/ HasPending
          /\ Refuse(a, "done")

-----------------------------------------------------------------------------
(* Confirmations                                                            *)

\* The preview ran on the Bridge; the pending action is stored and its token
\* goes back to the client.  Nothing is stored for a preview that failed or is
\* not authorizable, nor for a plain read, which takes the same steps.
createPendingAction(a) ==
    /\ At(a, "preview")
    /\ \/ StageAll(a, record, [confirmation EXCEPT ![a] = Issued(entries(a))],
                   "release", "release")
       \/ Refuse(a, "release")

\* Tools of the class `confirm'; the one that carries a plan is among them.
Confirmed(a) == Is(a, {"commit", "next"})

\* GATEWAY_CONFIRMATION_TTL_MS after it was issued.  The clock is read on the way to
\* prepare, so only a request that has not come so far can see the difference.
ConfirmationDue(c) ==
    /\ confirmation[c].state = "pending" /\ ~confirmation[c].due
    /\ \E a \in Attempt : /\ Confirmed(a) /\ att[a].request.of = c
                          /\ att[a].step \in {"idle", "acquire", "preflight", "build"}
    /\ confirmation' = [confirmation EXCEPT ![c].due = TRUE]
    /\ UNCHANGED <<att, record, evidence, faults>>

token(a) == confirmation[att[a].request.of]

\* Mutant: a consumed confirmation is not told from a pending one.
RejectionMissesReplay(a) ==
    CASE token(a).state = "none" -> "not_found"
      [] token(a).state = "expired" -> "expired"
      [] token(a).state \in {"pending", "consumed"} /\ ~att[a].inTime -> "expired"
      [] token(a).state \in {"pending", "consumed"} /\ att[a].inTime ->
             IF token(a).entries = entries(a) THEN "validated" ELSE "binding_mismatch"

\* validatePendingAction; the clock was read before the transaction began.
confirmationRejection(a) ==
    CASE token(a).state = "none" -> "not_found"
      [] token(a).state = "consumed" -> "replayed"
      [] token(a).state = "expired" -> "expired"
      [] token(a).state = "pending" /\ ~att[a].inTime -> "expired"
      [] token(a).state = "pending" /\ att[a].inTime ->
             IF token(a).entries = entries(a) THEN "validated" ELSE "binding_mismatch"

expireConfirmation(a) ==
    [confirmation EXCEPT ![att[a].request.of].state = "expired"]

stageConsumption(a) ==
    [confirmation EXCEPT ![att[a].request.of].state = "consumed",
                         ![att[a].request.of].commit = a]

-----------------------------------------------------------------------------
(* Preparing a dispatch                                                     *)

Conflicts(a) == conflictingMutationHolds(record.holds, scopesOf(a))

\* preflightMutation, and the clock read with which prepare will judge a token.
preflightMutation(a) ==
    /\ At(a, "preflight")
    /\ \/ /\ HasPending \/ Conflicts(a) # {}
          /\ Refuse(a, "release")
       \/ /\ ~HasPending /\ Conflicts(a) = {}
          /\ att' = [att EXCEPT ![a].step = "prepare",
                                ![a].inTime = Confirmed(a) /\ ~token(a).due]
          /\ UNCHANGED <<record, confirmation, evidence, faults>>
       \/ Goes(a, "release") /\ Fault /\ UNCHANGED <<record, confirmation, evidence>>

\* prepareNext: the mutation that carries the clearances of the stored plan.  It is
\* refused when its context, connection or deadline is not the plan's.
prepareNext(a) ==
    /\ At(a, "build")
    /\ \/ /\ HasPlan /\ ~HasPending
          /\ att' = [att EXCEPT ![a].step = "prepare", ![a].inTime = ~token(a).due,
                                ![a].clearances = record.plan.clearances]
       \/ Goes(a, "release")
    /\ UNCHANGED <<record, confirmation, evidence, faults>>

\* Holds the envelope may clear, once each hold of the plan is resolved for it.
Resolved(a) == resolveMutationHold(record.holds, record.plan.clearances, a)
Authorized(a) == authorizeMutationDispatch(Resolved(a), scopesOf(a), att[a].clearances, a)

HoldsAllow(a) ==
    IF Conflicts(a) = {}
    THEN att[a].clearances = {}
    ELSE /\ att[a].clearances # {}
         /\ record.plan.scopes = scopesOf(a)
         /\ record.plan.clearances = att[a].clearances
         /\ \A c \in record.plan.clearances : Resolvable(record.holds, c)
         /\ Authorized(a).kind = "allowed"

\* Mutant: the plan is kept when a dispatch has taken its clearances.
PreparedKeepsPlan(a) ==
    IF Conflicts(a) = {}
    THEN [record EXCEPT !.pending = Pending(a, "mutation", {}, {})]
    ELSE [record EXCEPT !.holds = Resolved(a),
                        !.pending = Pending(a, "mutation", Authorized(a).holdIds,
                                            att[a].clearances)]

\* The clearing itself is discarded: only the Bridge's acceptance persists it.
Prepared(a) ==
    IF Conflicts(a) = {}
    THEN [record EXCEPT !.pending = Pending(a, "mutation", {}, {})]
    ELSE [record EXCEPT !.holds = Resolved(a),
                        !.plan = NoPlan,
                        !.pending = Pending(a, "mutation", Authorized(a).holdIds,
                                            att[a].clearances)]

\* What prepareMutationDispatch requires besides the confirmation and the target.
Dispatchable(a) == record.window = a /\ ~HasPending /\ HoldsAllow(a)

\* #authorizeDispatchTarget may refuse whatever the record says: the session's
\* connection, sequence number or capabilities have moved on.
prepareMutationDispatch(a) ==
    /\ At(a, "prepare")
    /\ \/ /\ Is(a, {"auto"}) /\ Dispatchable(a)
          /\ Stage(a, Prepared(a), "execute", "release")
       \/ /\ Confirmed(a) /\ confirmationRejection(a) = "validated" /\ Dispatchable(a)
          /\ StageAll(a, Prepared(a), stageConsumption(a), "approve", "release")
       \/ /\ Confirmed(a) /\ confirmationRejection(a) = "expired"
          /\ StageAll(a, record, expireConfirmation(a), "release", "release")
       \/ /\ Is(a, {"auto"}) \/ Confirmed(a)
          /\ Confirmed(a) => confirmationRejection(a) # "expired"
          /\ Refuse(a, "release")

\* A verification read for the hold that its origin left; the pending record's
\* holdIds is then verificationHoldId.
prepareVerificationDispatch(a) ==
    /\ At(a, "prepare") /\ Is(a, {"verify"})
    /\ \/ /\ record.window = a /\ ~HasPending /\ ~HasPlan
          /\ \E h \in record.holds :
                /\ <<att[a].request.of, 1>> \in h.origins
                /\ OpenToEvidence(h)
                /\ Stage(a, [record EXCEPT !.pending =
                                 Pending(a, "verification", {holdId(h)}, {})],
                         "execute", "release")
       \/ Refuse(a, "release")

Newest(Test(_)) == {i \in Indices : Test(record.history[i])
                                    /\ \A j \in Indices : j > i => ~Test(record.history[j])}

IndeterminateOrigin(h, a) ==
    h.status = "indeterminate" /\ keys(h.envelope) \cap keys(a) # {}

\* Mutant: any retained indeterminate origin may be redelivered, whoever holds its scope.
RedeliverUnderAnyHold(a) ==
    /\ At(a, "prepare") /\ Is(a, {"redeliver"})
    /\ \/ /\ record.window = a /\ ~HasPending /\ entries(a) = entries(origin(a))
          /\ \E i \in Newest(LAMBDA h : IndeterminateOrigin(h, a)) :
                Stage(a, [record EXCEPT !.pending =
                              Pending(a, "redelivery", record.history[i].holdIds, {})],
                      "execute", "release")
       \/ Refuse(a, "release")

\* The payload must be the origin's, and the holds on its scopes exactly the ones
\* that the retained dispatch left behind.
prepareOriginRedelivery(a) ==
    /\ At(a, "prepare") /\ Is(a, {"redeliver"})
    /\ \/ /\ record.window = a /\ ~HasPending /\ entries(a) = entries(origin(a))
          /\ \E i \in Newest(LAMBDA h : IndeterminateOrigin(h, a)) :
                /\ Conflicts(a) # {}
                /\ ids(Conflicts(a)) = record.history[i].holdIds
                /\ \A h \in Conflicts(a) : \A k \in h.origins :
                       /\ k \in keys(record.history[i].envelope)
                       /\ isOriginRedeliveryExempt(record.holds, k)
                /\ Stage(a, [record EXCEPT !.pending =
                                 Pending(a, "redelivery", record.history[i].holdIds, {})],
                         "execute", "release")
       \/ Refuse(a, "release")

\* The approval of a confirmed mutation must be audited before it is sent.
auditApproval(a) ==
    /\ At(a, "approve")
    /\ \/ Goes(a, "execute") /\ UNCHANGED faults
       \/ Goes(a, "release") /\ Fault
    /\ UNCHANGED <<record, confirmation, evidence>>

-----------------------------------------------------------------------------
(* Sending, and what the Bridge session learns                              *)

\* executePreparedMutation hands the envelope to the session, or throws.
executePrepared(a) ==
    /\ At(a, "execute")
    /\ Goes(a, "reconcile")
    /\ evidence' \in {evidence, [evidence EXCEPT ![a].lease = "reserved"]}
    /\ UNCHANGED <<record, confirmation, faults>>

Learns(a, e) ==
    /\ evidence' = [evidence EXCEPT ![a] = e]
    /\ UNCHANGED <<att, record, confirmation, faults>>

\* A reserved lease that never reached a transport is closed with a receipt.
BridgeSends(a) ==
    /\ evidence[a].lease = "reserved"
    /\ \/ Learns(a, [evidence[a] EXCEPT !.lease = "sent"])
       \/ Learns(a, [evidence[a] EXCEPT !.lease = "no_send", !.journal = "known_terminal"])

BridgeAccepts(a) ==
    /\ evidence[a].lease = "sent" /\ ~evidence[a].accepted
    /\ Learns(a, [evidence[a] EXCEPT !.accepted = TRUE])

\* The terminal journal, or the news that there will be none; and a result that
\* comes after that news.  A redelivered origin may be answered with either.
BridgeJournals(a) ==
    /\ evidence[a].lease = "sent"
    /\ \/ /\ evidence[a].journal = "none"
          /\ \E k \in {"known_terminal", "indeterminate"} \cup
                      (IF Is(a, {"redeliver"}) THEN {"late_terminal"} ELSE {}) :
                Learns(a, [evidence[a] EXCEPT !.journal = k])
       \/ /\ evidence[a].journal = "indeterminate" /\ ~Is(a, {"verify"})
          /\ Learns(a, [evidence[a] EXCEPT !.journal = "late_terminal"])

-----------------------------------------------------------------------------
(* Reconciling a pending dispatch with the evidence                         *)

\* inspectDispatch: a journal the peer has not acknowledged is not yet evidence.
Observed(a) == evidence[a].lease = "no_send" \/ evidence[a].accepted

Redelivery(p) == p.kind = "redelivery"

\* Acceptance of the envelope clears the holds it was authorized for.
Accepted(p) ==
    IF p.kind = "mutation" /\ p.holdIds # {}
    THEN authorizeMutationDispatch(record.holds, scopesOf(p.envelope), p.clearances, p.envelope)
    ELSE [kind |-> "allowed", ledger |-> record.holds, holdIds |-> p.holdIds]

\* An outcome once recorded as indeterminate cannot turn out to be known.
Reclassified(p) ==
    \E i \in Indices : /\ record.history[i].status = "indeterminate"
                       /\ keys(record.history[i].envelope) \cap keys(p.envelope) # {}

Closed(holds, h) ==
    [record EXCEPT !.holds = holds, !.pending = NoDispatch, !.history = historyWith(h)]

reconcileNoSend(a, p) ==
    /\ evidence[a].lease = "no_send" /\ ~Redelivery(p)
    /\ Stage(a, Closed(record.holds,
                       History("terminal", p, "known_terminal", FALSE,
                               IF p.kind = "verification" THEN {} ELSE p.holdIds)),
             "release", "release")

reconcileAcceptance(a, p) ==
    /\ evidence[a].journal = "none"
    /\ Stage(a, [record EXCEPT !.holds = Accepted(p).ledger, !.pending.accepted = TRUE],
             "release", "release")

reconcileVerification(a, p) ==
    /\ p.kind = "verification" /\ evidence[a].journal = "known_terminal"
    /\ Stage(a, [record EXCEPT !.pending.accepted = TRUE,
                               !.pending.journal = "known_terminal"],
             "record", "release")

\* Mutant: a known result of a redelivered origin is recorded as terminal.
KnownAfterIndeterminate(a, p) ==
    /\ p.kind # "verification" /\ evidence[a].journal = "known_terminal"
    /\ Stage(a, Closed(Accepted(p).ledger,
                       History("terminal", p, "known_terminal", TRUE, p.holdIds)),
             "release", "release")

reconcileKnown(a, p) ==
    /\ p.kind = "mutation" /\ evidence[a].journal = "known_terminal"
    /\ ~Reclassified(p)
    /\ Stage(a, Closed(Accepted(p).ledger,
                       History("terminal", p, "known_terminal", TRUE, p.holdIds)),
             "release", "release")

\* The newest retained dispatch of this origin takes the late journal.
LateOrigin(h, p) ==
    IF Redelivery(p)
    THEN /\ h.status = "indeterminate" /\ h.holdIds = p.holdIds
         /\ keys(p.envelope) \subseteq keys(h.envelope)
    ELSE h.status = "indeterminate" /\ h.envelope = p.envelope

reconcileLate(a, p) ==
    /\ p.kind # "verification" /\ evidence[a].journal = "late_terminal"
    /\ \E i \in Newest(LAMBDA h : LateOrigin(h, p)) :
          Stage(a, [record EXCEPT !.holds = Accepted(p).ledger,
                                  !.pending = NoDispatch,
                                  !.history[i].journal = "late_terminal"],
                "release", "release")

reconcileIndeterminate(a, p) ==
    LET installed == installMutationHolds(Accepted(p).ledger, mutationEntries(a))
        exempt == \A k \in keys(a) : isOriginRedeliveryExempt(record.holds, k)
    IN  /\ p.kind # "verification" /\ evidence[a].journal = "indeterminate"
        /\ \/ /\ Redelivery(p)
              /\ Stage(a, Closed(record.holds,
                                 History("indeterminate", p, "indeterminate", TRUE,
                                         ids(Conflicts(a)))),
                       "release", "release")
           \/ /\ ~Redelivery(p)
              /\ installed.kind = "blocked" => exempt
              /\ Stage(a, Closed(installed.ledger,
                                 History("indeterminate", p, "indeterminate", TRUE,
                                         installed.holdIds)),
                       "release", "release")

\* The evidence is not durable yet, contradicts the record, or was answered
\* from the history: nothing is staged.
reconcilePendingDispatch(a) ==
    LET p == record.pending
    IN  /\ At(a, "reconcile")
        /\ \/ /\ p.envelope = a /\ Observed(a)
              /\ \/ reconcileNoSend(a, p)
                 \/ /\ evidence[a].accepted
                    /\ Accepted(p).kind = "allowed" /\ Accepted(p).holdIds = p.holdIds
                    /\ \/ reconcileAcceptance(a, p)
                       \/ reconcileVerification(a, p)
                       \/ reconcileKnown(a, p)
                       \/ reconcileLate(a, p)
                       \/ reconcileIndeterminate(a, p)
           \/ Refuse(a, "release")

-----------------------------------------------------------------------------
(* Evidence and plans                                                       *)

EvidenceOf(basis, by, conclusion) == [basis |-> basis, by |-> by, conclusion |-> conclusion]

\* #authorizeEvidenceDecision draws the conclusion, or rejects the evidence.
recordVerificationEvidence(a) ==
    LET p == record.pending
    IN  /\ At(a, "record")
        /\ \/ /\ p.kind = "verification" /\ p.envelope = a
              /\ p.accepted /\ p.journal = "known_terminal"
              /\ \E h \in record.holds, c \in Conclusions :
                    LET e == EvidenceOf("verification_read", a, c)
                    IN  /\ holdId(h) \in p.holdIds /\ OpenToEvidence(h)
                        /\ Stage(a, Closed(recordEvidence(record.holds, holdId(h), e),
                                           History("terminal", p, "known_terminal", TRUE,
                                                   p.holdIds)),
                                 IF Conclusive(e) THEN "plan" ELSE "release", "release")
           \/ Refuse(a, "release")

\* The dispatcher plans for the hold it has just verified, with one decision.
planRecoveryClearances(a) ==
    /\ At(a, "plan")
    /\ \/ /\ ~HasPending /\ ~HasPlan
          /\ \E h \in record.holds :
                /\ <<att[a].request.of, 1>> \in h.origins
                /\ ids(conflictingMutationHolds(record.holds, {h.scope})) = {holdId(h)}
                /\ h.state = "evidence_recorded"
                /\ h.evidence.conclusion = "postcondition_verified"
                /\ Stage(a, [record EXCEPT !.plan =
                                 [id |-> a, scopes |-> {h.scope},
                                  clearances |-> {Clearance(h, a)}]],
                         "release", "release")
       \/ Refuse(a, "release")

\* A result that came after its mutation was recorded as indeterminate.  It can
\* speak for one origin only.
recordLateTerminalEvidence(h, k, c) ==
    LET e == EvidenceOf("late_terminal", k, c)
    IN  /\ ~HasPlan
        /\ k \in h.origins /\ OpenToEvidence(h)
        /\ \E i \in Indices :
              /\ record.history[i].status = "indeterminate"
              /\ record.history[i].journal = "late_terminal"
              /\ holdId(h) \in record.history[i].holdIds
              /\ k \in keys(record.history[i].envelope)
              /\ mutationEntries(record.history[i].envelope)[k] = h.scope
        /\ Conclusive(e) => h.origins = {k}
        /\ record' = [record EXCEPT !.holds = recordEvidence(record.holds, holdId(h), e)]
        /\ UNCHANGED <<att, confirmation, evidence, faults>>

-----------------------------------------------------------------------------

\* The process that serves the attempt ends; nothing else takes its window over.
Crash(a) ==
    /\ a \in Running
    /\ Fault
    /\ Goes(a, "dead")
    /\ UNCHANGED <<record, confirmation, evidence>>

LateEvidence ==
    \E h \in record.holds : \E k \in h.origins, c \in Conclusions :
        recordLateTerminalEvidence(h, k, c)

Dispatcher(a) ==
    \/ Start(a)
    \/ acquireInvocationWindow(a)
    \/ createPendingAction(a)
    \/ preflightMutation(a)
    \/ prepareNext(a)
    \/ prepareMutationDispatch(a)
    \/ prepareVerificationDispatch(a)
    \/ prepareOriginRedelivery(a)
    \/ auditApproval(a)
    \/ executePrepared(a)
    \/ reconcilePendingDispatch(a)
    \/ recordVerificationEvidence(a)
    \/ planRecoveryClearances(a)
    \/ releaseInvocationWindow(a)

Next ==
    \/ \E a \in Attempt : Dispatcher(a)
    \/ \E a \in Attempt : BridgeSends(a) \/ BridgeAccepts(a) \/ BridgeJournals(a)
    \/ \E a \in Attempt : ConfirmationDue(a)
    \/ \E a \in Attempt : Crash(a)
    \/ LateEvidence

Spec == Init /\ [][Next]_vars

-----------------------------------------------------------------------------
(* Properties                                                               *)

Admitted == Retained \cup ({record.pending.envelope} \ {None})
RetainedOf(a) == record.history[CHOOSE i \in Indices : record.history[i].envelope = a]

Id == Scopes \X SUBSET (Attempt \X Nat)
Hold ==
    [scope : Scopes, origins : SUBSET (Attempt \X Nat),
     state : {"active", "evidence_recorded", "resolved_pending_bridge", "cleared"},
     evidence : Evidence \cup {None}, resolution : Attempt \cup {None},
     authorized : Attempt \cup {None}, clearedBy : Attempt \cup {None}]
PlanClearance == [holdId : Id, resolution : Attempt, evidence : Evidence]
Plan == [id : Attempt \cup {None}, scopes : SUBSET Scopes, clearances : SUBSET PlanClearance]
Journal == {"none", "known_terminal", "indeterminate", "late_terminal"}
Dispatch ==
    [envelope : Attempt \cup {None},
     kind : {"none", "mutation", "verification", "redelivery"},
     holdIds : SUBSET Id, clearances : SUBSET PlanClearance,
     accepted : BOOLEAN, journal : Journal]
Outcome ==
    [envelope : Attempt, status : {"terminal", "indeterminate"}, journal : Journal,
     accepted : BOOLEAN, holdIds : SUBSET Id]
Record ==
    [window : Attempt \cup {None}, holds : SUBSET Hold, plan : Plan, pending : Dispatch,
     history : Seq(Outcome)]

\* Types of the record, the attempts, the confirmations and the evidence.
TypeOK ==
    /\ att \in [Attempt -> [step : Step, request : Request,
                            clearances : SUBSET PlanClearance, inTime : BOOLEAN]]
    /\ \A a \in Attempt : IsRequest(att[a].request)
    /\ record \in Record
    /\ confirmation \in
          [Attempt -> [state : {"none", "pending", "consumed", "expired"},
                       entries : Seq(Scopes), due : BOOLEAN, commit : Attempt \cup {None}]]
    /\ evidence \in
          [Attempt -> [lease : {"none", "reserved", "sent", "no_send"}, accepted : BOOLEAN,
                       journal : Journal]]
    /\ faults \in 0 .. MaxFaults

\* The stored record can always be read again.  Every operation starts by decoding
\* it (decodeRecord, assertLedgerIntegrity, assertPlanIntegrity) and fails when hold
\* ids repeat, a hold's state and evidence disagree, a plan names a hold that is no
\* longer at its evidence, or a dispatch is pending without a window: one bad write
\* would close the session to every request, and no single operation checks it all.
RecordDecodable ==
    /\ \A g, h \in record.holds : holdId(g) = holdId(h) => g = h
    /\ \A h \in record.holds :
          /\ h.state = "active" => h.evidence = None
          /\ h.state # "active" => h.evidence # None /\ Conclusive(h.evidence)
          /\ (h.authorized # None) = (h.state \in {"resolved_pending_bridge", "cleared"})
          /\ h.clearedBy = IF h.state = "cleared" THEN h.authorized ELSE None
    /\ \A c \in record.plan.clearances : Resolvable(record.holds, c)
    /\ HasPending => record.window # None
    /\ \A i, j \in Indices : record.history[i].envelope = record.history[j].envelope => i = j

\* While a mutation is pending, every uncleared hold on its scope is one that this
\* very envelope was authorized to clear, or one that its own origin left behind.
\* Conflicts are checked at preflight, planned by another request and re-checked at
\* prepare, so a hold or a plan can change in between.
PendingAcrossNoForeignHold ==
    LET p == record.pending
    IN  p.kind \in {"mutation", "redelivery"} =>
            \A h \in conflictingMutationHolds(record.holds, scopesOf(p.envelope)) :
                /\ holdId(h) \in p.holdIds
                /\ IF Redelivery(p) THEN h.origins \subseteq keys(p.envelope)
                                    ELSE h.authorized = p.envelope

\* Every mutation recorded as indeterminate is covered by a hold on its scope, and a
\* hold is lifted only after conclusive evidence about that hold and after the
\* Bridge accepted the envelope the resolution was bound to.  The evidence is a
\* verification read of this hold that ended, or the late result of its one origin.
IndeterminateHeldUntilVerified ==
    \A i \in Indices : record.history[i].status = "indeterminate" =>
        \A k \in keys(record.history[i].envelope) :
            \E h \in record.holds :
                /\ k \in h.origins
                /\ mutationScopesConflict(h.scope, mutationEntries(record.history[i].envelope)[k])
                /\ h.state = "cleared" =>
                      /\ evidence[h.clearedBy].accepted
                      /\ CASE h.evidence.basis = "verification_read" ->
                                  /\ evidence[h.evidence.by].journal = "known_terminal"
                                  /\ holdId(h) \in RetainedOf(h.evidence.by).holdIds
                           [] h.evidence.basis = "late_terminal" ->
                                  h.origins = {h.evidence.by}

\* A confirmation is consumed by exactly one admitted mutation, with the arguments
\* that were previewed; an admitted confirmed mutation has consumed its confirmation.
\* Two commits may present the token at once, in two processes, or at its expiry;
\* consumption and admission must be one write.
ConfirmedOnce ==
    /\ \A a \in Admitted : Confirmed(a) =>
          /\ token(a).state = "consumed" /\ token(a).commit = a
          /\ token(a).entries = entries(a)
    /\ \A c \in Attempt : confirmation[c].state = "consumed" =>
          confirmation[c].commit \in Admitted

\* The window is exclusive: an attempt between acquire and release owns it, whatever
\* the other processes do, and a pending dispatch is the window owner's own.
WindowExclusive ==
    /\ \A a \in Attempt : att[a].step \in InWindow => record.window = a
    /\ HasPending => record.pending.envelope = record.window

\* What is recorded of an invocation stays: once it is retained as indeterminate no
\* dispatch of it is ever retained as terminal, also when its origin is redelivered
\* under a new envelope and the Bridge then reports a known result; and a terminal
\* entry, or the late journal of an indeterminate one, is never taken back.
Outcomes(k) == {record.history[i].status : i \in {j \in Indices : k \in keys(record.history[j].envelope)}}
Keys == UNION {keys(a) : a \in Attempt}

OutcomesStay ==
    [][/\ \A k \in Keys : Outcomes(k) # {} => Outcomes(k)' = Outcomes(k)
       /\ \A i \in Indices : record.history[i].journal # "indeterminate" =>
             \E j \in DOMAIN record'.history : record'.history[j] = record.history[i]]_record
=============================================================================
