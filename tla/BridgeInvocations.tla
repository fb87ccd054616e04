-------------------------- MODULE BridgeInvocations --------------------------
(***************************************************************************)
(* How the Bridge runs the invocations of one routed session: the dispatcher *)
(* of Gateway/Dispatch over the idempotency journal and the verification     *)
(* holds of Gateway/Storage.                                                *)
(*                                                                         *)
(* row and hold are rows of the SQLite journal and survive a restart; run,   *)
(* quar and online belong to the process.  A hold id is derived from its     *)
(* scope and its one origin key, so holds are indexed by their origin.       *)
(***************************************************************************)
EXTENDS Integers, FiniteSets

CONSTANTS Key,     \* idempotency keys the Gateway may mint
          NoKey,
          Scope,   \* mutation scopes: the documents and the session
          SessionScope

ASSUME NoKeyAssumption == NoKey \notin Key
ASSUME ScopeAssumption == SessionScope \in Scope

VARIABLES row,      \* rbp_invocations
          hold,     \* rbp_verification_holds, by origin key
          run,      \* the invocation that has claimed the in-flight gate
          quar,     \* the session's entry in the decision quarantine
          online,   \* the token of the connection cycle is not cancelled
          sent      \* history: how often the add-in may have got the request

vars == <<row, hold, run, quar, online, sent>>

\* "opaque" is a completed row whose stored carrier the result classifier no
\* longer reads as completed: storing a result wraps it once more, and the
\* classifier follows two nested results only.
Terminal == {"completed", "opaque", "guarded", "failed", "indeterminate"}
RowState == {"none", "received", "executing"} \cup Terminal

Request == [kind : {"mutation"}, scope : Scope, verifies : {NoKey}, clears : SUBSET Key]
              \cup [kind : {"read"}, scope : {SessionScope},
                    verifies : Key \cup {NoKey}, clears : {{}}]

Mutation(s, c) == [kind |-> "mutation", scope |-> s, verifies |-> NoKey, clears |-> c]
Read(h) == [kind |-> "read", scope |-> SessionScope, verifies |-> h, clears |-> {}]

\* An admitted row keeps the identity of its request; fresh says that it was
\* admitted on the present connection generation.
NoRow == [state |-> "none", req |-> Read(NoKey), link |-> NoKey, fresh |-> FALSE]
NoHold == [state |-> "none", read |-> NoKey, by |-> NoKey]
ActiveHold == [state |-> "active", read |-> NoKey, by |-> NoKey]

Outcome == {"completed", "opaque", "guarded", "carrier", "refused", "error", "unknown"}

Idle == [key |-> NoKey, stage |-> "idle", req |-> Read(NoKey), outcome |-> "unknown"]

TypeOK ==
    /\ row \in [Key -> [state : RowState, req : Request,
                        link : Key \cup {NoKey}, fresh : BOOLEAN]]
    /\ hold \in [Key -> [state : {"none", "active", "evidence", "cleared"},
                         read : Key \cup {NoKey}, by : Key \cup {NoKey}]]
    /\ run \in [key : Key \cup {NoKey}, req : Request, outcome : Outcome,
                stage : {"idle", "claimed", "admitted", "owned", "called", "answered"}]
    /\ quar \in {"free", "reserved", "owned"}
    /\ online \in BOOLEAN
    /\ sent \in [Key -> 0 .. 2]

Init ==
    /\ row = [k \in Key |-> NoRow]
    /\ hold = [k \in Key |-> NoHold]
    /\ run = Idle
    /\ quar = "free"
    /\ online = TRUE
    /\ sent = [k \in Key |-> 0]

-----------------------------------------------------------------------------
(* Scopes and holds *)

Conflicts(s, t) == s = t \/ SessionScope \in {s, t}

Uncleared(h) == hold[h].state \in {"active", "evidence"}

Mutating(k) == row[k].state # "none" /\ row[k].req.kind = "mutation"

\* FindHoldByExactScope
ScopeHolds(s) == {h \in Key : Uncleared(h) /\ row[h].req.scope = s}

\* HasEligibleVerificationRead
EligibleRead(h) ==
    /\ hold[h].read # NoKey
    /\ row[hold[h].read].state = "completed"
    /\ row[hold[h].read].req = Read(h)

\* IsRawLegacyOriginUncertain
OriginUncertain(k) ==
    Mutating(k) /\ row[k].state \in {"received", "executing", "indeterminate", "failed", "opaque"}

\* The origin test of ValidateStoredLegacyHold and of RequireVerificationHold.
OriginBound(h) ==
    \/ Mutating(h) /\ row[h].state = "indeterminate" /\ row[h].link = h
    \/ OriginUncertain(h) /\ row[h].link = NoKey

\* ValidateStoredLegacyHold
StoredHoldValid(h) ==
    hold[h].state # "none" =>
        OriginBound(h) /\ (hold[h].state = "cleared" => EligibleRead(h))

-----------------------------------------------------------------------------
(* ClassifyLegacySafety: the mutations whose effect the journal cannot tell   *)

\* Mutant: a guarded mutation counts as unsafe.
UnsafeRows_Guarded ==
    {k \in Key : Mutating(k) /\ row[k].state # "completed" /\ hold[k].state # "cleared"}

UnsafeRows ==
    {k \in Key : /\ OriginUncertain(k)
                 /\ row[k].state \in {"indeterminate", "failed"} => hold[k].state # "cleared"}

\* Another origin's hold stands on the scope: the group counts as unresolved.
Collides(k) == ScopeHolds(row[k].req.scope) \ {k} # {}

\* ResolveLegacyGroup, with the holds the envelope would clear projected.
Unresolved(k, clears) == Collides(k) \/ ~(hold[k].state = "cleared" \/ k \in clears)

\* The groups that block an envelope with this scope and these clearances.
Unsafe(scope, clears) ==
    {k \in UnsafeRows : /\ Unresolved(k, clears)
                        /\ Collides(k) \/ Conflicts(row[k].req.scope, scope)}

\* NewHoldPlans: unresolved groups without any hold on their scope.
NewHolds(clears) ==
    {k \in UnsafeRows : Unresolved(k, clears) /\ ScopeHolds(row[k].req.scope) = {}}

-----------------------------------------------------------------------------
(* Admission: one transaction, of which RowAdmitted and HoldAdmitted are the  *)
(* writes and Executes says whether the dispatcher goes on to execute.        *)

New == row[run.key].state = "none"

\* Mutant: evidence for any scope is accepted.
ClearanceAccepted_AnyScope(h) == hold[h].state = "evidence" /\ EligibleRead(h)

\* ValidateClearance, for a new consumer.
ClearanceAccepted(h) ==
    /\ hold[h].state = "evidence"
    /\ Conflicts(run.req.scope, row[h].req.scope)
    /\ EligibleRead(h)

\* InstallLegacyHoldPlans, then ApplyClearancePlan.
HoldPlan ==
    [h \in Key |->
        IF h \in NewHolds(run.req.clears) THEN ActiveHold
        ELSE IF h \in run.req.clears THEN [hold[h] EXCEPT !.state = "cleared", !.by = run.key]
        ELSE hold[h]]

\* Mutant: only a hold on the same scope blocks.
Blocked_ExactScope ==
    \E h \in Key : /\ HoldPlan[h].state \in {"active", "evidence"}
                   /\ run.req.scope = row[h].req.scope

\* FindConflictingHold, after those writes.
Blocked ==
    \E h \in Key : /\ HoldPlan[h].state \in {"active", "evidence"}
                   /\ Conflicts(run.req.scope, row[h].req.scope)

\* A clearance envelope that is refused rolls its transaction back.
ClearanceRefused ==
    /\ run.req.clears # {}
    /\ \/ \E h \in run.req.clears : ~ClearanceAccepted(h)
       \/ Unsafe(run.req.scope, run.req.clears) # {}
       \/ Blocked

InsertsMutation == New /\ run.req.kind = "mutation" /\ ~ClearanceRefused /\ ~Blocked

InsertsRead ==
    /\ New
    /\ run.req.kind = "read"
    /\ run.req.verifies # NoKey => Uncleared(run.req.verifies) /\ OriginBound(run.req.verifies)

\* Section 12.2 rule 4.  InstallHold returns the uncleared hold on the scope,
\* or derives a new one, and refuses to derive one that was cleared.
RefusesIndeterminate ==
    /\ Mutating(run.key)
    /\ row[run.key].state \in {"received", "executing"}
    /\ ScopeHolds(run.req.scope) = {} => hold[run.key].state = "none"

LinkOf(k) ==
    IF ScopeHolds(row[k].req.scope) = {} THEN k
    ELSE CHOOSE h \in ScopeHolds(row[k].req.scope) : TRUE

\* RequireVerificationCorrelationMatch: a verification read is bound to the
\* connection that admitted it.
CorrelationMatches(k) == row[k].req.verifies # NoKey => row[k].fresh

\* Mutant: an unfinished mutation is executed again like a read.
Executes_Mutations ==
    \/ InsertsMutation
    \/ InsertsRead
    \/ ~New /\ CorrelationMatches(run.key) /\ row[run.key].state \notin Terminal

Executes ==
    \/ InsertsMutation
    \/ InsertsRead
    \/ /\ ~New
       /\ run.req.kind = "read"
       /\ CorrelationMatches(run.key)
       /\ row[run.key].state \notin Terminal

RowAdmitted ==
    IF InsertsMutation \/ InsertsRead
    THEN [row EXCEPT ![run.key] =
             [state |-> "received", req |-> run.req, link |-> NoKey,
              fresh |-> run.req.verifies # NoKey]]
    ELSE IF RefusesIndeterminate
    THEN [row EXCEPT ![run.key].state = "indeterminate", ![run.key].link = LinkOf(run.key)]
    ELSE row

HoldAdmitted ==
    IF New /\ run.req.kind = "mutation" /\ ~ClearanceRefused
    THEN HoldPlan
    ELSE IF RefusesIndeterminate /\ LinkOf(run.key) = run.key /\ hold[run.key] = NoHold
    THEN [hold EXCEPT ![run.key] = ActiveHold]
    ELSE hold

-----------------------------------------------------------------------------
(* The dispatcher *)

\* What the Gateway may ask for under a key without a row: a mutation with the
\* clearances of holds that have evidence, a read, or a verification read.
Requests ==
    {Mutation(s, c) : s \in Scope, c \in SUBSET {h \in Key : hold[h].state = "evidence"}}
        \cup {Read(h) : h \in {NoKey} \cup {x \in Key : hold[x].state # "none"}}

\* A delivery that finds the gate taken or the session quarantined is answered
\* with an error and changes nothing.  The Gateway's recovery authority
\* redelivers an origin only while its hold is not cleared.
Deliver(k) ==
    /\ online
    /\ run = Idle
    /\ quar = "free"
    /\ hold[k].state # "cleared"
    /\ \E r \in IF row[k].state = "none" THEN Requests ELSE {row[k].req} :
           run' = [Idle EXCEPT !.key = k, !.stage = "claimed", !.req = r]
    /\ UNCHANGED <<row, hold, quar, online, sent>>

\* ClassifyLegacySafety also throws on a hold that contradicts its rows; no
\* hold does (StoredHoldsValid).
Admit ==
    /\ run.stage = "claimed"
    /\ online
    /\ row' = RowAdmitted
    /\ hold' = HoldAdmitted
    /\ run' = IF Executes THEN [run EXCEPT !.stage = "admitted"] ELSE Idle
    /\ UNCHANGED <<quar, online, sent>>

\* ExecuteAsync: reserve the quarantine entry, then take dispatch ownership.
\* A read whose earlier delivery took it does not take it again.
TakeOwnership ==
    /\ run.stage = "admitted"
    /\ online \/ row[run.key].state = "executing"
    /\ quar' = "reserved"
    /\ row' = [row EXCEPT ![run.key].state = "executing"]
    /\ run' = [run EXCEPT !.stage = "owned"]
    /\ UNCHANGED <<hold, online, sent>>

\* The journal gate observes the cancelled token before it writes.
Cancelled ==
    /\ ~online
    /\ \/ run.stage = "claimed" /\ UNCHANGED quar
       \/ /\ run.stage = "admitted"
          /\ row[run.key].state = "received"
          /\ quar' = "reserved"
    /\ run' = Idle
    /\ UNCHANGED <<row, hold, online, sent>>

\* The channel or the router refuses, or the transport fails before its first
\* byte; only a failure that reports a request length of zero counts as refused.
FailBeforeSend ==
    /\ run.stage = "owned"
    /\ \E o \in {"refused", "unknown"} :
           run' = [run EXCEPT !.stage = "answered", !.outcome = o]
    /\ quar' = "owned"
    /\ UNCHANGED <<row, hold, online, sent>>

\* The transport detaches the caller's token and starts to write.
Send ==
    /\ run.stage = "owned"
    /\ online
    /\ run' = [run EXCEPT !.stage = "called"]
    /\ sent' = [sent EXCEPT ![run.key] = IF @ = 2 THEN 2 ELSE @ + 1]
    /\ UNCHANGED <<row, hold, quar, online>>

\* The add-in answers, or the call deadline passes.
AddinAnswer ==
    /\ run.stage = "called"
    /\ \E o \in Outcome \ {"refused"} :
          /\ o = "opaque" => run.req.kind = "mutation"
          /\ run' = [run EXCEPT !.stage = "answered", !.outcome = o]
    /\ quar' = "owned"
    /\ UNCHANGED <<row, hold, online, sent>>

-----------------------------------------------------------------------------
(* The durable decision *)

StateDecided ==
    IF run.outcome \in {"completed", "opaque", "guarded"} THEN run.outcome
    ELSE IF run.req.kind = "read" \/ run.outcome \in {"carrier", "refused"} THEN "failed"
    ELSE "indeterminate"

RowDecided ==
    [row EXCEPT ![run.key].state = StateDecided,
                ![run.key].link = IF StateDecided = "indeterminate" THEN LinkOf(run.key) ELSE @]

\* The completed read may be evidence: its connection is still the one that
\* admitted it, its route is current and its payload was not omitted.
MayBeEvidence ==
    /\ run.outcome = "completed"
    /\ run.req.verifies # NoKey
    /\ row[run.key].fresh
    /\ hold[run.req.verifies].state = "active"

HoldDecided(evidence) ==
    IF StateDecided = "indeterminate" THEN [hold EXCEPT ![run.key] = ActiveHold]
    ELSE IF evidence
    THEN [hold EXCEPT ![run.req.verifies] =
             [state |-> "evidence", read |-> run.key, by |-> NoKey]]
    ELSE hold

\* PersistInvocationTerminalAsync, then ReleaseProven.
Decide ==
    /\ run.stage = "answered"
    /\ \E evidence \in {FALSE, MayBeEvidence} : hold' = HoldDecided(evidence)
    /\ row' = RowDecided
    /\ run' = Idle
    /\ quar' = "free"
    /\ UNCHANGED <<online, sent>>

\* EnrichFailureWithLocalStatusAsync still listens to the cycle's token, and
\* runs before the decision is written.
ProbeCancelled ==
    /\ run.stage = "answered"
    /\ ~online
    /\ \/ run.outcome = "refused"
       \/ run.outcome = "unknown" /\ run.req.kind = "read"
    /\ run' = Idle
    /\ UNCHANGED <<row, hold, quar, online, sent>>

-----------------------------------------------------------------------------
(* Faults *)

\* A journal write throws, committed or not; the failure ends the cycle.
JournalFault ==
    /\ \/ /\ run.stage = "claimed"
          /\ online
          /\ \/ row' = RowAdmitted /\ hold' = HoldAdmitted
             \/ UNCHANGED <<row, hold>>
          /\ UNCHANGED quar
       \/ /\ run.stage = "admitted"
          /\ online
          /\ row[run.key].state = "received"
          /\ row' \in {row, [row EXCEPT ![run.key].state = "executing"]}
          /\ quar' = "reserved"
          /\ UNCHANGED hold
       \/ /\ run.stage = "answered"
          /\ \/ /\ row' = RowDecided
                /\ \E evidence \in {FALSE, MayBeEvidence} : hold' = HoldDecided(evidence)
             \/ UNCHANGED <<row, hold>>
          /\ UNCHANGED quar
    /\ run' = Idle
    /\ online' = FALSE
    /\ UNCHANGED sent

EndCycle ==
    /\ online
    /\ online' = FALSE
    /\ UNCHANGED <<row, hold, run, quar, sent>>

\* The next cycle starts once the invocations of the last one have drained.
Reconnect ==
    /\ ~online
    /\ run = Idle
    /\ online' = TRUE
    /\ row' = [k \in Key |-> [row[k] EXCEPT !.fresh = FALSE]]
    /\ UNCHANGED <<hold, run, quar, sent>>

\* The process dies, or is ended because its invocations did not drain.
Crash ==
    /\ run # Idle \/ quar # "free"
    /\ run' = Idle
    /\ quar' = "free"
    /\ online' = FALSE
    /\ UNCHANGED <<row, hold, sent>>

Next ==
    \/ \E k \in Key : Deliver(k)
    \/ Admit
    \/ TakeOwnership
    \/ Cancelled
    \/ FailBeforeSend
    \/ Send
    \/ AddinAnswer
    \/ Decide
    \/ ProbeCancelled
    \/ JournalFault
    \/ EndCycle
    \/ Reconnect
    \/ Crash

Spec == Init /\ [][Next]_vars

-----------------------------------------------------------------------------
(* Properties *)

\* The add-in gets the request of a mutation at most once, over every
\* redelivery, reconnection and restart: AdmitInvocation's rule 4 never
\* executes a row that may have been dispatched.
NeverResent == \A k \in Key : Mutating(k) => sent[k] <= 1

\* The journal knows the effect of the mutation, or an operator accepted it.
Settled(j) ==
    \/ sent[j] = 0
    \/ row[j].state \in {"completed", "opaque", "guarded"}
    \/ hold[j].state = "cleared"

\* No mutation is dispatched while the effect of an earlier one on a
\* conflicting scope is unknown and uncleared.  The admission transaction
\* checks it (ClassifyLegacySafety, FindConflictingHold), the add-in call
\* happens later, and nothing in between may make the check stale.
NoBlindDispatch ==
    run.req.kind = "mutation" /\ run.stage \in {"owned", "called"} =>
        \A j \in Key \ {run.key} :
            Mutating(j) /\ Conflicts(row[j].req.scope, run.req.scope) => Settled(j)

\* A cleared hold still has what ApplyClearancePlan cleared it on: a completed
\* verification read bound to it, and an admitted mutation on a scope that
\* conflicts with the origin's.
ClearanceBacked ==
    \A h \in Key : hold[h].state = "cleared" =>
        /\ EligibleRead(h)
        /\ hold[h].by # NoKey
        /\ Mutating(hold[h].by)
        /\ Conflicts(row[h].req.scope, row[hold[h].by].req.scope)

\* Every retained hold passes ValidateStoredLegacyHold: whatever was written to
\* the origin's row or to the hold since, ClassifyLegacySafety does not take
\* the journal for corrupt.
StoredHoldsValid == \A h \in Key : StoredHoldValid(h)

=============================================================================
