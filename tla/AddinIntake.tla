----------------------------- MODULE AddinIntake -----------------------------
(***************************************************************************)
(* The data plane of the Revit add-in: SocketService, the task status it     *)
(* reports, and the command wrappers whose ExternalEvent handlers Revit runs. *)
(*                                                                         *)
(* Every connection has a thread of its own; a request is served by the       *)
(* thread of its connection.  Command wrappers and handlers are process-wide  *)
(* singletons, so two requests for one command share a handler.               *)
(***************************************************************************)
EXTENDS Integers, FiniteSets

CONSTANTS Request,        \* requests the clients may send
          NoRequest,
          Command,        \* registered commands
          Deferring,      \* commands whose handler may finish in a later Idling turn
          Keeping,        \* commands whose handler is set up without clearing ResultInfo
          LateReset,      \* of those, the ones that reset their event in WaitForCompletion
                          \* (GetCurrentViewInfo, GetCurrentViewElements, GetSelectedElements)
          Silent,         \* of those, the ones that store nothing when Execute throws
                          \* (GetCurrentViewInfo, GetCurrentViewElements)
          Patching        \* of those, the ones that then write into the object that is
                          \* there (ExecuteCode)

ASSUME RequestAssumption == NoRequest \notin Request
ASSUME TraitAssumption ==
    /\ Deferring \subseteq Command /\ Keeping \subseteq Command
    /\ LateReset \cup Silent \cup Patching \subseteq Keeping

VARIABLES req,           \* per request: its command and how far its thread got
          gate,          \* the owner of _dataPlaneIntakeGate
          quarantined,   \* _dataPlaneIntakeQuarantined
          activeTask,    \* McpTaskStatusService._activeTask
          handler,       \* per command: the state of its singleton handler
          unfinished,    \* history: the requests whose raised handler has not finished
          threw          \* history: the requests whose run threw before it had a result

addinVars == <<req, gate, quarantined, activeTask, handler, unfinished, threw>>

Stage == {"none", "arrived", "begun", "raised", "waiting", "timedOut", "answered", "lost"}
Reply == {"none", "result", "refused", "timeout", "invalid"}

AnyCommand == CHOOSE c \in Command : TRUE

\* ResultInfo: the run that made the object, and the run whose success or failure
\* it reports.
ResultInfo == [data : Request \cup {NoRequest}, verdict : Request \cup {NoRequest}]
NullResult == [data |-> NoRequest, verdict |-> NoRequest]
ResultOf(r) == [data |-> r, verdict |-> r]

\* open: the client has not disconnected.
NoReq == [stage |-> "none", cmd |-> AnyCommand, open |-> TRUE,
          reply |-> "none", value |-> NullResult]
Dropped == [NoReq EXCEPT !.stage = "answered", !.open = FALSE]
IdleHandler == [params |-> NoRequest, raised |-> FALSE, deferred |-> FALSE,
                signalled |-> FALSE, result |-> NullResult]

AddinTypeOK ==
    /\ req \in [Request -> [stage : Stage, cmd : Command, open : BOOLEAN,
                            reply : Reply, value : ResultInfo]]
    /\ gate \in Request \cup {NoRequest}
    /\ quarantined \in BOOLEAN
    /\ activeTask \in Request \cup {NoRequest}
    /\ handler \in [Command -> [params : Request \cup {NoRequest}, raised : BOOLEAN,
                                deferred : BOOLEAN, signalled : BOOLEAN,
                                result : ResultInfo]]
    /\ unfinished \in [Command -> SUBSET Request]
    /\ threw \subseteq Request

AddinInit ==
    /\ req = [r \in Request |-> NoReq]
    /\ gate = NoRequest
    /\ quarantined = FALSE
    /\ activeTask = NoRequest
    /\ handler = [c \in Command |-> IdleHandler]
    /\ unfinished = [c \in Command |-> {}]
    /\ threw = {}

-----------------------------------------------------------------------------
(* The thread of the connection: ProcessJsonRPCRequest                        *)

\* The client wrote the request to its socket.
Arrive(r, c) ==
    /\ req[r].stage = "none"
    /\ req' = [req EXCEPT ![r].stage = "arrived", ![r].cmd = c]
    /\ UNCHANGED <<gate, quarantined, activeTask, handler, unfinished, threw>>

\* WriteResponse, which throws when the client is gone.
Answered(r, reply, value) ==
    [req EXCEPT ![r] = IF @.open
                       THEN [@ EXCEPT !.stage = "answered", !.reply = reply, !.value = value]
                       ELSE Dropped]

\* The client ends its connection: the thread finds out when it next writes.
Disconnected(r) ==
    [req EXCEPT ![r] = IF @.stage \in {"answered", "none", "lost"} THEN Dropped
                       ELSE [@ EXCEPT !.open = FALSE]]

\* Inside the gate, a request is refused once the intake is quarantined.
RefuseQuarantined(r) ==
    /\ req[r].stage = "arrived"
    /\ gate = NoRequest
    /\ quarantined
    /\ req' = Answered(r, "refused", NullResult)
    /\ UNCHANGED <<gate, quarantined, activeTask, handler, unfinished, threw>>

\* Monitor.Enter, then the task becomes the active one.
BeginTask(r) ==
    /\ req[r].stage = "arrived"
    /\ gate = NoRequest
    /\ ~quarantined
    /\ gate' = r
    /\ activeTask' = r
    /\ req' = [req EXCEPT ![r].stage = "begun"]
    /\ UNCHANGED <<quarantined, handler, unfinished, threw>>

\* The finally block, with the FinishTask that precedes it.
LeaveGate ==
    /\ activeTask' = NoRequest
    /\ gate' = NoRequest

\* The command refuses its parameters before it raises anything.
RejectParameters(r) ==
    /\ req[r].stage = "begun"
    /\ req' = Answered(r, "invalid", NullResult)
    /\ LeaveGate
    /\ UNCHANGED <<quarantined, handler, unfinished, threw>>

\* Most handlers forget their previous run here; some keep its result, and of those
\* some its signal.
SetRequest(h, c, r) ==
    [h EXCEPT !.params = r, !.signalled = @ /\ c \in LateReset,
              !.result = IF c \in Keeping THEN @ ELSE NullResult]

\* SetRequest and ExternalEvent.Raise.
SetAndRaise(r) ==
    LET c == req[r].cmd IN
    /\ req[r].stage = "begun"
    /\ handler' = [handler EXCEPT ![c] = [SetRequest(@, c, r) EXCEPT !.raised = TRUE]]
    /\ unfinished' = [unfinished EXCEPT ![c] = @ \cup {r}]
    /\ req' = [req EXCEPT ![r].stage = "raised"]
    /\ UNCHANGED <<gate, quarantined, activeTask, threw>>

\* Mutant: WaitForCompletion does not reset the event either.
Wait_KeepsSignal(r) ==
    /\ req[r].stage = "raised"
    /\ req' = [req EXCEPT ![r].stage = "waiting"]
    /\ UNCHANGED <<gate, quarantined, activeTask, handler, unfinished, threw>>

\* WaitForCompletion up to its WaitOne.
Wait(r) ==
    /\ req[r].stage = "raised"
    /\ handler' = [handler EXCEPT ![req[r].cmd].signalled = @ /\ req[r].cmd \notin LateReset]
    /\ req' = [req EXCEPT ![r].stage = "waiting"]
    /\ UNCHANGED <<gate, quarantined, activeTask, unfinished, threw>>

Complete(r) ==
    LET h == handler[req[r].cmd] IN
    /\ req[r].stage = "waiting"
    /\ h.signalled
    /\ req' = Answered(r, "result", h.result)
    /\ LeaveGate
    /\ UNCHANGED <<quarantined, handler, unfinished, threw>>

\* Mutant: a timed-out wait does not quarantine.
TimeOut_NoQuarantine(r) ==
    /\ req[r].stage = "waiting"
    /\ ~handler[req[r].cmd].signalled
    /\ req' = [req EXCEPT ![r].stage = "timedOut"]
    /\ UNCHANGED <<gate, quarantined, activeTask, handler, unfinished, threw>>

\* WaitOne returned false: the wrapper throws, and the intake is quarantined
\* while the gate is still held.
TimeOut(r) ==
    /\ req[r].stage = "waiting"
    /\ ~handler[req[r].cmd].signalled
    /\ quarantined' = TRUE
    /\ req' = [req EXCEPT ![r].stage = "timedOut"]
    /\ UNCHANGED <<gate, activeTask, handler, unfinished, threw>>

FailTimedOut(r) ==
    /\ req[r].stage = "timedOut"
    /\ req' = Answered(r, "timeout", NullResult)
    /\ LeaveGate
    /\ UNCHANGED <<quarantined, handler, unfinished, threw>>

-----------------------------------------------------------------------------
(* The Revit thread                                                          *)

Finished(c, result) ==
    /\ handler' = [handler EXCEPT ![c].raised = FALSE, ![c].deferred = FALSE,
                                  ![c].result = result, ![c].signalled = TRUE]
    /\ unfinished' = [unfinished EXCEPT ![c] = {}]

\* Execute runs to its end.
RunHandler(c) ==
    /\ handler[c].raised
    /\ Finished(c, ResultOf(handler[c].params))
    /\ UNCHANGED <<req, gate, quarantined, activeTask, threw>>

\* Execute throws and the catch stores a failure of its own.
ThrowInHandler(c) ==
    /\ c \notin Silent
    /\ handler[c].raised
    /\ Finished(c, ResultOf(handler[c].params))
    /\ UNCHANGED <<req, gate, quarantined, activeTask, threw>>

\* The catch shows a dialog and leaves the result that is there.
ThrowSilently(c) ==
    /\ c \in Silent
    /\ handler[c].raised
    /\ Finished(c, handler[c].result)
    /\ threw' = threw \cup {handler[c].params}
    /\ UNCHANGED <<req, gate, quarantined, activeTask>>

\* Execute throws before it makes its own object: the catch writes the failure
\* into the earlier one, or throws itself when there is none.
ThrowEarly(c) ==
    /\ c \in Patching
    /\ handler[c].raised
    /\ Finished(c, IF handler[c].result = NullResult THEN NullResult
                   ELSE [handler[c].result EXCEPT !.verdict = handler[c].params])
    /\ threw' = threw \cup {handler[c].params}
    /\ UNCHANGED <<req, gate, quarantined, activeTask>>

\* Execute asks for another view and subscribes to Idling.
DeferHandler(c) ==
    /\ handler[c].raised
    /\ c \in Deferring
    /\ handler' = [handler EXCEPT ![c].raised = FALSE, ![c].deferred = TRUE]
    /\ UNCHANGED <<req, gate, quarantined, activeTask, unfinished, threw>>

\* OnIdling reads the parameters of the handler again.
FinishInIdling(c) ==
    /\ handler[c].deferred
    /\ Finished(c, ResultOf(handler[c].params))
    /\ UNCHANGED <<req, gate, quarantined, activeTask, threw>>

\* Revit is restarted: what was being served is never answered.
RestartRevit ==
    /\ req' = [r \in Request |-> IF req[r].stage \in {"none", "answered"} THEN req[r]
                                 ELSE IF req[r].open THEN [NoReq EXCEPT !.stage = "lost"]
                                 ELSE Dropped]
    /\ gate' = NoRequest
    /\ quarantined' = FALSE
    /\ activeTask' = NoRequest
    /\ handler' = [c \in Command |-> IdleHandler]
    /\ unfinished' = [c \in Command |-> {}]
    /\ UNCHANGED threw

Serve(r) ==
    \/ RefuseQuarantined(r)
    \/ BeginTask(r)
    \/ RejectParameters(r)
    \/ SetAndRaise(r)
    \/ Wait(r)
    \/ Complete(r)
    \/ TimeOut(r)
    \/ FailTimedOut(r)

RevitTurn(c) ==
    \/ RunHandler(c)
    \/ ThrowInHandler(c)
    \/ ThrowSilently(c)
    \/ ThrowEarly(c)
    \/ DeferHandler(c)
    \/ FinishInIdling(c)
=============================================================================
