------------------------- MODULE DirectRuntimeProofs -------------------------
(***************************************************************************)
(* Proofs about DirectRuntime and the add-in intake it is composed with, for    *)
(* any number of processes, calls and commands: a handler serves one request    *)
(* at a time, its result goes to the request that raised it, and the lock       *)
(* directory excludes until one has outlived the stale limit.                  *)
(***************************************************************************)
EXTENDS DirectRuntime, TLAPS

ReqType == [stage : Stage, cmd : Command \cup {AnyCommand}, open : BOOLEAN,
            reply : Reply, value : ResultInfo]
HandlerType == [params : Request \cup {NoRequest}, raised : BOOLEAN, deferred : BOOLEAN,
                signalled : BOOLEAN, result : ResultInfo]

Types ==
    /\ req \in [Request -> ReqType]
    /\ quarantined \in BOOLEAN
    /\ handler \in [Command -> HandlerType]
    /\ unfinished \in [Command -> SUBSET Request]

Raising == {"raised", "waiting"}
Inside == {"begun", "timedOut"} \cup Raising

\* The thread inside the gate is the one whose task mcp_status shows, and the intake is
\* quarantined exactly from the moment its wait has timed out.
GateInv ==
    /\ activeTask = gate
    /\ \A r \in Request : req[r].stage \in Inside => gate = r
    /\ \A r \in Request : req[r].stage \in Inside \cup {"arrived"} => req[r].cmd \in Command
    /\ \A r \in Request : quarantined => req[r].stage \notin Raising \cup {"begun"}
    /\ \A r \in Request : req[r].stage = "timedOut" => quarantined

\* What a request that has raised a handler may rely on. The signal of a late-resetting
\* handler is relied on only once the wait has begun.
HandlerInv ==
    \A r \in Request : req[r].stage \in Raising =>
        LET c == req[r].cmd IN
        /\ handler[c].params = r
        /\ handler[c].signalled /\ (c \notin LateReset \/ req[r].stage = "waiting")
               => unfinished[c] = {} /\ Answers(r, c, handler[c].result)

\* Whoever still owes a handler run is inside the gate, or the intake is quarantined.
Owed ==
    \A c \in Command : unfinished[c] # {} =>
        /\ unfinished[c] = {handler[c].params}
        /\ \/ quarantined
           \/ \E r \in Request : gate = r /\ req[r].stage \in Raising /\ req[r].cmd = c

ReplyInv == \A r \in Request : req[r].stage # "answered" => req[r].reply = "none"

IntakeInv == Types /\ GateInv /\ HandlerInv /\ Owed /\ ReplyInv /\ OwnResult

-----------------------------------------------------------------------------
(* Types *)

\* The constants of the model are well typed.
LEMMA ConstantTypes ==
    /\ NoReq \in ReqType /\ Dropped \in ReqType /\ IdleHandler \in HandlerType
    /\ NullResult \in ResultInfo
    /\ NoReq.stage = "none" /\ NoReq.reply = "none"
    /\ Dropped.stage = "answered" /\ Dropped.reply = "none"
BY Zenon DEF NoReq, Dropped, IdleHandler, ReqType, HandlerType, Stage, Reply, NullResult, ResultInfo

\* Steps of a thread that only move its own stage.
LEMMA StageMoves ==
    ASSUME Types, NEW r \in Request, NEW s \in Stage, req' = [req EXCEPT ![r].stage = s]
    PROVE  /\ req' \in [Request -> ReqType]
           /\ \A x \in Request \ {r} : req'[x] = req[x]
           /\ req'[r].stage = s /\ req'[r].cmd = req[r].cmd
           /\ req'[r].reply = req[r].reply /\ req'[r].value = req[r].value
BY DEF Types, ReqType

\* What answering a request does to it.
LEMMA AnswerMoves ==
    ASSUME Types, NEW r \in Request, NEW rep \in Reply, NEW v \in ResultInfo,
           req' = Answered(r, rep, v)
    PROVE  /\ req' \in [Request -> ReqType]
           /\ \A x \in Request \ {r} : req'[x] = req[x]
           /\ req'[r].stage = "answered"
           /\ \/ req'[r].reply = "none"
              \/ req'[r].reply = rep /\ req'[r].value = v /\ req'[r].cmd = req[r].cmd
<1>0. req[r] \in ReqType
  BY DEF Types
<1>1. [req[r] EXCEPT !.stage = "answered", !.reply = rep, !.value = v] \in ReqType
  BY Zenon, <1>0 DEF ReqType, Stage
<1>2. /\ req' \in [Request -> ReqType]
      /\ \A x \in Request \ {r} : req'[x] = req[x]
      /\ req'[r] = IF req[r].open
                  THEN [req[r] EXCEPT !.stage = "answered", !.reply = rep, !.value = v]
                  ELSE Dropped
  BY <1>1, ConstantTypes DEF Types, Answered
<1> QED
  BY <1>0, <1>2, ConstantTypes DEF ReqType

-----------------------------------------------------------------------------
(* The thread of a connection *)

\* A thread that only moves within the gate, or into it when it is free.
LEMMA BeginTaskKeeps ==
    ASSUME IntakeInv, NEW r \in Request, BeginTask(r)
    PROVE  IntakeInv'
<1>1. /\ Types /\ req' = [req EXCEPT ![r].stage = "begun"] /\ req[r].stage = "arrived"
      /\ gate = NoRequest /\ gate' = r /\ activeTask' = r /\ ~quarantined
      /\ UNCHANGED <<quarantined, handler, unfinished, threw>>
  BY DEF IntakeInv, BeginTask
<1>2. /\ req' \in [Request -> ReqType]
      /\ \A x \in Request \ {r} : req'[x] = req[x]
      /\ req'[r].stage = "begun" /\ req'[r].cmd = req[r].cmd
      /\ req'[r].reply = req[r].reply /\ req'[r].value = req[r].value
  BY Zenon, <1>1, StageMoves DEF Stage
<1>3. \A x \in Request : req[x].stage \notin Inside
  BY <1>1, RequestAssumption DEF IntakeInv, GateInv
<1>4. \A c \in Command : unfinished[c] = {}
  BY <1>1, <1>3 DEF IntakeInv, Owed, Inside
<1>5. Types' /\ Owed'
  BY <1>1, <1>2, <1>4 DEF IntakeInv, Types, Owed
<1>6. GateInv'
  BY <1>1, <1>2, <1>3 DEF IntakeInv, GateInv, Inside, Raising
<1>7. HandlerInv'
  BY <1>1, <1>2, <1>3 DEF HandlerInv, Inside, Raising
<1>8. ReplyInv' /\ OwnResult'
  BY <1>1, <1>2 DEF IntakeInv, ReplyInv, OwnResult, Answers
<1> QED
  BY <1>5, <1>6, <1>7, <1>8 DEF IntakeInv

\* A thread that answers and leaves: nobody inside is left, and what it leaves behind is
\* finished or quarantined.
LEMMA LeaveKeeps ==
    ASSUME IntakeInv, NEW r \in Request, req[r].stage \in Inside,
           NEW rep \in Reply, NEW v \in ResultInfo, req' = Answered(r, rep, v),
           LeaveGate, UNCHANGED <<quarantined, handler, unfinished, threw>>,
           rep = "result" => Answers(r, req[r].cmd, v),
           quarantined \/ \A c \in Command : unfinished[c] = {}
    PROVE  IntakeInv'
<1>1. /\ req' \in [Request -> ReqType]
      /\ \A x \in Request \ {r} : req'[x] = req[x]
      /\ req'[r].stage = "answered"
      /\ \/ req'[r].reply = "none"
         \/ req'[r].reply = rep /\ req'[r].value = v /\ req'[r].cmd = req[r].cmd
  BY AnswerMoves DEF IntakeInv
<1>2. gate = r /\ gate' = NoRequest /\ activeTask' = NoRequest
  BY DEF IntakeInv, GateInv, LeaveGate
<1>3. \A x \in Request : req'[x].stage \notin Inside
  BY <1>1, <1>2 DEF IntakeInv, GateInv, Inside, Raising
<1>4. Types' /\ Owed' /\ HandlerInv'
  BY <1>1, <1>3 DEF IntakeInv, Types, Owed, HandlerInv, Inside, Answers
<1>5. GateInv'
  BY <1>1, <1>2, <1>3 DEF IntakeInv, GateInv, Inside, Raising
<1>6. ReplyInv'
  BY <1>1 DEF IntakeInv, ReplyInv
<1>7. OwnResult'
  BY <1>1 DEF IntakeInv, OwnResult, Answers
<1> QED
  BY <1>4, <1>5, <1>6, <1>7 DEF IntakeInv

\* A refused request was never inside.
LEMMA RefuseKeeps ==
    ASSUME IntakeInv, NEW r \in Request, RefuseQuarantined(r)
    PROVE  IntakeInv'
<1>1. /\ req' = Answered(r, "refused", NullResult) /\ req[r].stage = "arrived" /\ quarantined
      /\ UNCHANGED <<gate, quarantined, activeTask, handler, unfinished, threw>>
  BY DEF RefuseQuarantined
<1>2. /\ req' \in [Request -> ReqType]
      /\ \A x \in Request \ {r} : req'[x] = req[x]
      /\ req'[r].stage = "answered" /\ req'[r].reply # "result"
  BY <1>1, AnswerMoves, ConstantTypes DEF IntakeInv, Reply
<1>3. Types' /\ Owed' /\ ReplyInv' /\ OwnResult'
  BY <1>1, <1>2 DEF IntakeInv, Types, Owed, ReplyInv, OwnResult, Answers
<1>4. GateInv' /\ HandlerInv'
  BY <1>1, <1>2 DEF IntakeInv, GateInv, HandlerInv, Inside, Raising, Answers
<1> QED
  BY <1>3, <1>4 DEF IntakeInv

\* What a thread that has begun, or waits for a signalled handler, leaves behind.
LEMMA NothingOwed ==
    ASSUME IntakeInv, NEW r \in Request,
           \/ req[r].stage = "begun"
           \/ req[r].stage = "waiting" /\ handler[req[r].cmd].signalled
    PROVE  ~quarantined /\ \A c \in Command : unfinished[c] = {}
<1>1. ~quarantined /\ gate = r
  BY DEF IntakeInv, GateInv, Inside, Raising
<1> SUFFICES ASSUME NEW c \in Command, unfinished[c] # {} PROVE FALSE
  BY <1>1
<1>2. req[r].stage \in Raising /\ req[r].cmd = c
  BY <1>1 DEF IntakeInv, Owed
<1> QED
  BY <1>2 DEF IntakeInv, HandlerInv, Raising, Answers

\* SetRequest and Raise: the singleton is free.
LEMMA SetAndRaiseKeeps ==
    ASSUME IntakeInv, NEW r \in Request, SetAndRaise(r)
    PROVE  IntakeInv'
<1> DEFINE c == req[r].cmd
<1>1. /\ req[r].stage = "begun" /\ req' = [req EXCEPT ![r].stage = "raised"]
      /\ unfinished' = [unfinished EXCEPT ![c] = @ \cup {r}]
      /\ UNCHANGED <<gate, quarantined, activeTask, threw>>
  BY DEF SetAndRaise
<1>2. gate = r /\ c \in Command /\ ~quarantined /\ \A x \in Command : unfinished[x] = {}
  BY <1>1, NothingOwed DEF IntakeInv, GateInv, Inside
<1>3. /\ req' \in [Request -> ReqType]
      /\ \A x \in Request \ {r} : req'[x] = req[x]
      /\ req'[r].stage = "raised" /\ req'[r].cmd = c
      /\ req'[r].reply = req[r].reply /\ req'[r].value = req[r].value
  BY Zenon, <1>1, StageMoves DEF IntakeInv, Stage
<1>4. /\ handler' \in [Command -> HandlerType]
      /\ handler'[c].params = r
      /\ c \notin LateReset => ~handler'[c].signalled
  <2> DEFINE sig == handler[c].signalled /\ c \in LateReset
             res == IF c \in Keeping THEN handler[c].result ELSE NullResult
  <2>1. handler[c] \in HandlerType /\ handler \in [Command -> HandlerType]
    BY <1>2 DEF IntakeInv, Types
  <2>2. sig \in BOOLEAN /\ res \in ResultInfo /\ (c \notin LateReset => ~sig)
    BY <2>1, ConstantTypes DEF HandlerType
  <2> DEFINE h == [handler[c] EXCEPT !.params = r, !.signalled = sig, !.result = res]
  <2>3. handler' = [handler EXCEPT ![c] = [h EXCEPT !.raised = TRUE]]
    BY Zenon DEF SetAndRaise, SetRequest
  <2> HIDE DEF sig, res
  <2>4. h \in HandlerType /\ h.params = r /\ h.signalled = sig
    BY Zenon, <2>1, <2>2 DEF HandlerType
  <2> HIDE DEF h
  <2>5. /\ [h EXCEPT !.raised = TRUE] \in HandlerType
        /\ [h EXCEPT !.raised = TRUE].params = r /\ [h EXCEPT !.raised = TRUE].signalled = sig
    BY Zenon, <2>4 DEF HandlerType
  <2> QED
    BY <1>2, <2>1, <2>2, <2>3, <2>5
<1>5. /\ unfinished' \in [Command -> SUBSET Request]
      /\ unfinished'[c] = {r} /\ \A x \in Command \ {c} : unfinished'[x] = {}
  BY <1>1, <1>2 DEF IntakeInv, Types
<1>6. \A x \in Request \ {r} : req[x].stage \notin Inside
  BY <1>2 DEF IntakeInv, GateInv
<1>7. Types' /\ ReplyInv' /\ OwnResult'
  BY <1>1, <1>3, <1>4, <1>5 DEF IntakeInv, Types, ReplyInv, OwnResult, Answers
<1>8. GateInv'
  BY <1>1, <1>2, <1>3, <1>6 DEF IntakeInv, GateInv, Inside, Raising
<1>9. HandlerInv'
  BY <1>3, <1>4, <1>6 DEF HandlerInv, Inside, Raising, Answers
<1>10. Owed'
  BY <1>1, <1>2, <1>3, <1>4, <1>5 DEF Owed, Raising
<1> QED
  BY <1>7, <1>8, <1>9, <1>10 DEF IntakeInv

\* WaitForCompletion: a late-resetting handler loses its signal here.
LEMMA WaitKeeps ==
    ASSUME IntakeInv, NEW r \in Request, Wait(r)
    PROVE  IntakeInv'
<1> DEFINE c == req[r].cmd
           sig == handler[c].signalled /\ c \notin LateReset
<1>1. /\ req[r].stage = "raised" /\ req' = [req EXCEPT ![r].stage = "waiting"]
      /\ UNCHANGED <<gate, quarantined, activeTask, unfinished, threw>>
  BY DEF Wait
<1>2. gate = r /\ c \in Command /\ ~quarantined
  BY <1>1 DEF IntakeInv, GateInv, Inside, Raising
<1>3. /\ req' \in [Request -> ReqType]
      /\ \A x \in Request \ {r} : req'[x] = req[x]
      /\ req'[r].stage = "waiting" /\ req'[r].cmd = c
      /\ req'[r].reply = req[r].reply /\ req'[r].value = req[r].value
  BY Zenon, <1>1, StageMoves DEF IntakeInv, Stage
<1>4. /\ handler' \in [Command -> HandlerType]
      /\ \A x \in Command : handler'[x].params = handler[x].params
      /\ handler'[c].signalled = sig /\ handler'[c].result = handler[c].result
  <2>1. handler[c] \in HandlerType /\ handler \in [Command -> HandlerType]
    BY <1>2 DEF IntakeInv, Types
  <2>2. sig \in BOOLEAN
    OBVIOUS
  <2>3. handler' = [handler EXCEPT ![c] = [handler[c] EXCEPT !.signalled = sig]]
    BY <2>1 DEF Wait
  <2> HIDE DEF sig
  <2>4. [handler[c] EXCEPT !.signalled = sig] \in HandlerType
    BY <2>1, <2>2 DEF HandlerType
  <2> QED
    BY <1>2, <2>1, <2>3, <2>4 DEF HandlerType
<1>5. \A x \in Request \ {r} : req[x].stage \notin Inside
  BY <1>2 DEF IntakeInv, GateInv
<1>6. Types' /\ ReplyInv' /\ OwnResult'
  BY <1>1, <1>3, <1>4 DEF IntakeInv, Types, ReplyInv, OwnResult, Answers
<1>7. GateInv'
  BY <1>1, <1>2, <1>3, <1>5 DEF IntakeInv, GateInv, Inside, Raising
<1>8. HandlerInv'
  <2>1. /\ handler[c].params = r
        /\ handler[c].signalled /\ c \notin LateReset =>
               unfinished[c] = {} /\ Answers(r, c, handler[c].result)
    BY <1>1 DEF IntakeInv, HandlerInv, Raising, Answers
  <2>2. handler'[c].signalled => handler[c].signalled /\ c \notin LateReset
    BY Zenon, <1>4
  <2> HIDE DEF sig
  <2>3. /\ handler'[c].params = r
        /\ handler'[c].signalled => unfinished'[c] = {} /\ Answers(r, c, handler[c].result)
    BY <1>1, <1>2, <1>4, <2>1, <2>2
  <2>4. handler'[c].result = handler[c].result /\ threw' = threw
    BY <1>1, <1>4
  <2> QED
    BY <1>3, <1>5, <2>3, <2>4 DEF HandlerInv, Inside, Raising, Answers
<1>9. Owed'
  BY <1>1, <1>2, <1>3, <1>4 DEF IntakeInv, Owed, Raising
<1> QED
  BY <1>6, <1>7, <1>8, <1>9 DEF IntakeInv

\* The wait times out: from now on the intake is quarantined.
LEMMA TimeOutKeeps ==
    ASSUME IntakeInv, NEW r \in Request, TimeOut(r)
    PROVE  IntakeInv'
<1>1. /\ req[r].stage = "waiting" /\ req' = [req EXCEPT ![r].stage = "timedOut"]
      /\ quarantined' = TRUE /\ UNCHANGED <<gate, activeTask, handler, unfinished, threw>>
  BY DEF TimeOut
<1>2. gate = r
  BY <1>1 DEF IntakeInv, GateInv, Inside, Raising
<1>3. /\ req' \in [Request -> ReqType]
      /\ \A x \in Request \ {r} : req'[x] = req[x]
      /\ req'[r].stage = "timedOut" /\ req'[r].cmd = req[r].cmd
      /\ req'[r].reply = req[r].reply /\ req'[r].value = req[r].value
  BY Zenon, <1>1, StageMoves DEF IntakeInv, Stage
<1>4. \A x \in Request \ {r} : req[x].stage \notin Inside
  BY <1>2 DEF IntakeInv, GateInv
<1>5. Types' /\ ReplyInv' /\ OwnResult' /\ Owed'
  BY <1>1, <1>3 DEF IntakeInv, Types, ReplyInv, OwnResult, Owed, Answers
<1>6. GateInv' /\ HandlerInv'
  BY <1>1, <1>2, <1>3, <1>4 DEF IntakeInv, GateInv, HandlerInv, Inside, Raising, Answers
<1> QED
  BY <1>5, <1>6 DEF IntakeInv

\* Every step of a connection thread.
LEMMA ServeKeeps ==
    ASSUME IntakeInv, NEW r \in Request, Serve(r)
    PROVE  IntakeInv'
<1>1. CASE RejectParameters(r)
  <2>1. req[r].stage \in Inside /\ \A c \in Command : unfinished[c] = {}
    BY <1>1, NothingOwed DEF RejectParameters, Inside
  <2> QED
    BY <1>1, <2>1, LeaveKeeps, ConstantTypes DEF RejectParameters, Reply
<1>2. CASE Complete(r)
  <2>1. /\ req[r].stage = "waiting" /\ handler[req[r].cmd].signalled
        /\ req' = Answered(r, "result", handler[req[r].cmd].result)
        /\ LeaveGate /\ UNCHANGED <<quarantined, handler, unfinished, threw>>
    BY <1>2 DEF Complete
  <2>2. \A c \in Command : unfinished[c] = {}
    BY <2>1, NothingOwed
  <2>3. Answers(r, req[r].cmd, handler[req[r].cmd].result)
    BY <2>1 DEF IntakeInv, HandlerInv, Raising, Answers
  <2>4. handler[req[r].cmd].result \in ResultInfo /\ req[r].stage \in Inside
    BY <2>1 DEF IntakeInv, GateInv, Types, HandlerType, Inside, Raising
  <2> QED
    BY <2>1, <2>2, <2>3, <2>4, LeaveKeeps DEF Reply
<1>3. CASE FailTimedOut(r)
  <2>1. req[r].stage \in Inside /\ quarantined
    BY <1>3 DEF FailTimedOut, IntakeInv, GateInv, Inside
  <2> QED
    BY <1>3, <2>1, LeaveKeeps, ConstantTypes DEF FailTimedOut, Reply
<1> QED
  BY <1>1, <1>2, <1>3, RefuseKeeps, BeginTaskKeeps, SetAndRaiseKeeps, WaitKeeps, TimeOutKeeps
     DEF Serve

-----------------------------------------------------------------------------
(* The Revit thread *)

\* A handler that finishes owes nothing, and its result may answer whoever raised it.
LEMMA FinishedKeeps ==
    ASSUME IntakeInv, NEW c \in Command, NEW result \in ResultInfo, Finished(c, result),
           UNCHANGED <<req, gate, quarantined, activeTask>>, threw \subseteq threw',
           \/ result = ResultOf(handler[c].params)
           \/ handler[c].params \in threw' /\ c \in Silent
           \/ /\ handler[c].params \in threw' /\ c \in Patching
              /\ result.verdict \in {handler[c].params, NoRequest}
    PROVE  IntakeInv'
<1>1. /\ handler' \in [Command -> HandlerType]
      /\ \A x \in Command \ {c} : handler'[x] = handler[x]
      /\ handler'[c].params = handler[c].params /\ handler'[c].result = result
  <2> DEFINE h == [handler[c] EXCEPT !.raised = FALSE, !.deferred = FALSE,
                                     !.result = result, !.signalled = TRUE]
  <2>1. handler[c] \in HandlerType /\ handler \in [Command -> HandlerType]
    BY DEF IntakeInv, Types
  <2>2. handler' = [handler EXCEPT ![c] = h]
    BY Zenon, <2>1 DEF Finished
  <2>3. h \in HandlerType /\ h.params = handler[c].params /\ h.result = result
    BY Zenon, <2>1 DEF HandlerType
  <2> QED
    BY <2>1, <2>2, <2>3
<1>2. /\ unfinished' \in [Command -> SUBSET Request]
      /\ unfinished'[c] = {} /\ \A x \in Command \ {c} : unfinished'[x] = unfinished[x]
  BY DEF IntakeInv, Types, Finished
<1>3. Types' /\ GateInv' /\ ReplyInv' /\ OwnResult'
  BY <1>1, <1>2 DEF IntakeInv, Types, GateInv, ReplyInv, OwnResult, Answers
<1>4. Owed'
  BY <1>1, <1>2 DEF IntakeInv, Owed
<1>5. HandlerInv'
  <2> SUFFICES ASSUME NEW r \in Request, req[r].stage \in Raising
               PROVE  LET k == req[r].cmd IN
                      /\ handler'[k].params = r
                      /\ handler'[k].signalled /\ (k \notin LateReset \/ req[r].stage = "waiting")
                             => unfinished'[k] = {} /\ Answers(r, k, handler[k].result)'
    BY DEF HandlerInv
  <2>1. req[r].cmd \in Command
    BY DEF IntakeInv, GateInv, Inside
  <2> QED
    BY <1>1, <1>2, <2>1 DEF IntakeInv, HandlerInv, Answers
<1> QED
  BY <1>3, <1>4, <1>5 DEF IntakeInv

\* Every turn of the Revit thread.
LEMMA RevitKeeps ==
    ASSUME IntakeInv, NEW c \in Command, RevitTurn(c)
    PROVE  IntakeInv'
<1>1. handler[c] \in HandlerType /\ handler \in [Command -> HandlerType]
  BY DEF IntakeInv, Types
<1>2. /\ handler[c].params \in Request \cup {NoRequest} /\ handler[c].result \in ResultInfo
      /\ ResultOf(handler[c].params) \in ResultInfo
      /\ [handler[c].result EXCEPT !.verdict = handler[c].params] \in ResultInfo
      /\ [handler[c].result EXCEPT !.verdict = handler[c].params].verdict = handler[c].params
  BY <1>1 DEF HandlerType, ResultInfo, ResultOf
<1>3. CASE RunHandler(c) \/ ThrowInHandler(c) \/ FinishInIdling(c)
  BY <1>2, <1>3, FinishedKeeps DEF RunHandler, ThrowInHandler, FinishInIdling
<1>4. CASE ThrowSilently(c)
  BY <1>2, <1>4, FinishedKeeps DEF ThrowSilently
<1>5. CASE ThrowEarly(c)
  <2>1. NullResult \in ResultInfo /\ NullResult.verdict = NoRequest
    BY ConstantTypes DEF NullResult
  <2> QED
    BY <1>2, <1>5, <2>1, FinishedKeeps DEF ThrowEarly
<1>6. CASE DeferHandler(c)
  <2>1. /\ handler' = [handler EXCEPT ![c].raised = FALSE, ![c].deferred = TRUE]
        /\ UNCHANGED <<req, gate, quarantined, activeTask, unfinished, threw>>
    BY <1>6 DEF DeferHandler
  <2>2. /\ handler' \in [Command -> HandlerType]
        /\ \A x \in Command : /\ handler'[x].params = handler[x].params
                              /\ handler'[x].signalled = handler[x].signalled
                              /\ handler'[x].result = handler[x].result
    BY Zenon, <1>1, <2>1 DEF HandlerType
  <2>3. Types' /\ GateInv' /\ ReplyInv' /\ OwnResult' /\ Owed'
    BY <2>1, <2>2 DEF IntakeInv, Types, GateInv, ReplyInv, OwnResult, Owed, Answers
  <2>4. HandlerInv'
    BY <2>1, <2>2 DEF IntakeInv, GateInv, HandlerInv, Inside, Answers
  <2> QED
    BY <2>3, <2>4 DEF IntakeInv
<1> QED
  BY <1>3, <1>4, <1>5, <1>6 DEF RevitTurn

\* Revit is restarted: nobody is inside.
LEMMA RestartKeeps ==
    ASSUME IntakeInv, RestartRevit
    PROVE  IntakeInv'
<1>1. [NoReq EXCEPT !.stage = "lost"] \in ReqType /\ [NoReq EXCEPT !.stage = "lost"].stage = "lost"
      /\ [NoReq EXCEPT !.stage = "lost"].reply = "none"
  BY ConstantTypes DEF ReqType, Stage
<1>2. /\ req' \in [Request -> ReqType]
      /\ \A r \in Request : \/ req'[r] = req[r] /\ req[r].stage \in {"none", "answered"}
                            \/ req'[r].stage \in {"lost", "answered"} /\ req'[r].reply = "none"
  BY <1>1, ConstantTypes DEF RestartRevit, IntakeInv, Types
<1>3. handler' \in [Command -> HandlerType] /\ \A c \in Command : unfinished'[c] = {}
  BY ConstantTypes DEF RestartRevit
<1>4. Types' /\ Owed'
  BY Zenon, <1>2, <1>3 DEF RestartRevit, Types, Owed
<1>5. ReplyInv' /\ OwnResult'
  <2>1. threw' = threw
    BY DEF RestartRevit
  <2> QED
    BY <1>2, <2>1 DEF IntakeInv, ReplyInv, OwnResult, Answers
<1>6. \A r \in Request : req'[r].stage \in {"none", "answered", "lost"}
  BY <1>2
<1>7. GateInv' /\ HandlerInv'
  BY <1>6 DEF RestartRevit, GateInv, HandlerInv, Inside, Raising, Answers
<1> QED
  BY <1>4, <1>5, <1>7 DEF IntakeInv

-----------------------------------------------------------------------------
(* What the processes do to the intake *)

\* A request arrives under a number that has not been used.
LEMMA ArriveKeeps ==
    ASSUME IntakeInv, NEW r, NEW c \in Command, Arrive(r, c)
    PROVE  IntakeInv'
<1>1. /\ req' = [req EXCEPT ![r].stage = "arrived", ![r].cmd = c] /\ req[r].stage = "none"
      /\ UNCHANGED <<gate, quarantined, activeTask, handler, unfinished, threw>>
  BY DEF Arrive
<1>2. /\ req' \in [Request -> ReqType]
      /\ \A x \in Request \ {r} : req'[x] = req[x]
      /\ r \in Request => /\ req'[r].stage = "arrived" /\ req'[r].cmd = c
                          /\ req'[r].reply = req[r].reply
  <2>1. req \in [Request -> ReqType]
    BY DEF IntakeInv, Types
  <2>2. CASE r \in Request
    <3>1. req[r] \in ReqType
      BY <2>1, <2>2
    <3>2. [req[r] EXCEPT !.stage = "arrived", !.cmd = c] \in ReqType
      BY Zenon, <3>1 DEF ReqType, Stage
    <3>3. req' = [req EXCEPT ![r] = [req[r] EXCEPT !.stage = "arrived", !.cmd = c]]
      BY Zenon, <1>1, <2>1, <3>1 DEF ReqType
    <3> QED
      BY <2>1, <2>2, <3>1, <3>2, <3>3 DEF ReqType
  <2>3. CASE r \notin Request
    BY Zenon, <1>1, <2>1, <2>3
  <2> QED
    BY <2>2, <2>3
<1>3. Types' /\ ReplyInv' /\ OwnResult'
  BY <1>1, <1>2 DEF IntakeInv, Types, ReplyInv, OwnResult, Answers
<1>4. \A x \in Request : req'[x].stage \in Inside => req'[x] = req[x]
  BY <1>2 DEF Inside, Raising
<1>5. GateInv'
  BY <1>1, <1>2, <1>4 DEF IntakeInv, GateInv, Inside, Raising
<1>6. HandlerInv'
  BY <1>1, <1>2, <1>4 DEF IntakeInv, HandlerInv, Inside, Raising, Answers
<1>7. Owed'
  BY <1>1, <1>2 DEF IntakeInv, Owed, Raising
<1> QED
  BY <1>3, <1>5, <1>6, <1>7 DEF IntakeInv

\* A process ends its connection; the thread that serves it goes on.
LEMMA DisconnectKeeps ==
    ASSUME IntakeInv, NEW p \in Client, Disconnect(p)
    PROVE  IntakeInv'
<1> DEFINE r == RequestOf(p)
<1>1. /\ req' = [req EXCEPT ![r] = IF req[r].stage \in {"answered", "none", "lost"} THEN Dropped
                                   ELSE [req[r] EXCEPT !.open = FALSE]]
      /\ UNCHANGED <<gate, quarantined, activeTask, handler, unfinished, threw>>
  BY DEF Disconnect, Disconnected
<1> HIDE DEF r
<1>2. r \in Request => [req[r] EXCEPT !.open = FALSE] \in ReqType
  BY Zenon DEF IntakeInv, Types, ReqType
<1>3. /\ req' \in [Request -> ReqType]
      /\ \A x \in Request \ {r} : req'[x] = req[x]
  BY Zenon, <1>1, <1>2, ConstantTypes DEF IntakeInv, Types
<1>4. r \in Request =>
        \/ req'[r].stage = "answered" /\ req'[r].reply = "none"
           /\ req[r].stage \in {"answered", "none", "lost"}
        \/ /\ req'[r].stage = req[r].stage /\ req'[r].cmd = req[r].cmd
           /\ req'[r].reply = req[r].reply /\ req'[r].value = req[r].value
  BY <1>1, ConstantTypes DEF IntakeInv, Types, ReqType
<1>5. Types' /\ ReplyInv' /\ OwnResult'
  <2>1. Types'
    BY <1>1, <1>3 DEF IntakeInv, Types
  <2>2. ReplyInv'
    BY <1>3, <1>4 DEF IntakeInv, ReplyInv
  <2>3. OwnResult'
    BY <1>1, <1>3, <1>4 DEF IntakeInv, OwnResult, Answers
  <2> QED
    BY <2>1, <2>2, <2>3
<1>6. GateInv'
  BY <1>1, <1>3, <1>4 DEF IntakeInv, GateInv, Inside, Raising
<1>7. HandlerInv'
  <2> SUFFICES ASSUME NEW x \in Request, req'[x].stage \in Raising
               PROVE  LET c == req'[x].cmd IN
                      /\ handler[c].params = x
                      /\ handler[c].signalled /\ (c \notin LateReset \/ req'[x].stage = "waiting")
                            => unfinished[c] = {} /\ Answers(x, c, handler[c].result)
    BY <1>1 DEF HandlerInv, Answers
  <2>1. req'[x].stage = req[x].stage /\ req'[x].cmd = req[x].cmd
    BY <1>3, <1>4 DEF Raising
  <2> QED
    BY <2>1 DEF IntakeInv, HandlerInv
<1>8. Owed'
  BY <1>1, <1>3, <1>4 DEF IntakeInv, Owed, Raising
<1> QED
  BY <1>5, <1>6, <1>7, <1>8 DEF IntakeInv

-----------------------------------------------------------------------------
(* The lock directory *)

\* As long as no directory has outlived the stale limit, a process that believes to hold
\* the lock is the only one and its directory is there; nobody is about to remove it.
LockInv ==
    /\ client \in [Client -> [phase : Phase, call : Nat, polls : Nat]]
    /\ ~aged =>
        /\ lock \in {NoLock, FreshLock}
        /\ \A p \in Client : client[p].phase # "remove"
        /\ \A p \in Client : client[p].phase \in Holding => lock.exists
        /\ \A p, q \in Client : {client[p].phase, client[q].phase} \subseteq Holding => p = q

\* A process that moves to another phase without touching the directory.
LEMMA PhaseMoves ==
    ASSUME LockInv, NEW p \in Client, NEW phase \in Phase, Goes(p, phase), UNCHANGED <<lock, aged>>,
           phase = "remove" => aged,
           phase \in Holding => client[p].phase \in Holding
    PROVE  LockInv'
<1>1. /\ client' \in [Client -> [phase : Phase, call : Nat, polls : Nat]]
      /\ client'[p].phase = phase /\ \A q \in Client \ {p} : client'[q] = client[q]
  BY DEF LockInv, Goes
<1> QED
  BY <1>1 DEF LockInv

\* A process that takes the directory, or leaves it behind.
LEMMA DirectoryMade ==
    ASSUME LockInv, NEW p \in Client, NEW phase \in {"connecting", "idle"}, Goes(p, phase),
           ~lock.exists, lock' = FreshLock, UNCHANGED aged
    PROVE  LockInv'
<1>1. /\ client' \in [Client -> [phase : Phase, call : Nat, polls : Nat]]
      /\ client'[p].phase = phase /\ \A q \in Client \ {p} : client'[q] = client[q]
  BY DEF LockInv, Goes, Phase, Holding
<1>2. ~aged => \A q \in Client : client[q].phase \notin Holding
  BY DEF LockInv
<1> QED
  BY <1>1, <1>2 DEF LockInv, FreshLock

\* A process that removes the directory: its own, or any once one has aged.
LEMMA DirectoryRemoved ==
    ASSUME LockInv, NEW p \in Client, NEW phase \in {"poll", "idle"}, Goes(p, phase),
           client[p].phase \in {"remove", "releasing"}, lock' = NoLock, UNCHANGED aged
    PROVE  LockInv'
<1>1. /\ client' \in [Client -> [phase : Phase, call : Nat, polls : Nat]]
      /\ client'[p].phase = phase /\ \A q \in Client \ {p} : client'[q] = client[q]
  BY DEF LockInv, Goes, Phase, Holding
<1>2. ~aged => \A q \in Client \ {p} : client[q].phase \notin Holding
  BY DEF LockInv, Holding
<1> QED
  BY <1>1, <1>2 DEF LockInv, NoLock, Holding

-----------------------------------------------------------------------------
(* The composition *)

Inv == IntakeInv /\ LockInv

\* Only the intake changes, and not the directory.
LEMMA IntakeOnly ==
    ASSUME LockInv, UNCHANGED <<client, lock, aged>>
    PROVE  LockInv'
BY DEF LockInv

\* Nothing of the intake changes.
LEMMA IntakeSame ==
    ASSUME IntakeInv, UNCHANGED addinVars
    PROVE  IntakeInv'
BY DEF IntakeInv, addinVars, Types, GateInv, HandlerInv, Owed, ReplyInv, OwnResult, Answers

\* Steps of a call that leave the intake alone.
LEMMA CallKeeps ==
    ASSUME Inv, NEW p \in Client,
           \/ StartCall(p) \/ Mkdir(p) \/ OwnerNotWritten(p) \/ StatLock(p) \/ RemoveStaleLock(p)
           \/ PollLock(p) \/ Connect(p) \/ Preflight(p) \/ PreflightTimesOut(p)
           \/ ReceiveReply(p) \/ CommandTimesOut(p)
    PROVE  Inv'
<1>1. UNCHANGED addinVars
  BY DEF StartCall, Mkdir, OwnerNotWritten, StatLock, RemoveStaleLock, PollLock, Connect,
         Preflight, PreflightTimesOut, ReceiveReply, CommandTimesOut
<1>2. IntakeInv'
  BY <1>1, IntakeSame DEF Inv
<1>3. LockInv
  BY DEF Inv
<1>4. CASE StartCall(p)
  <2>1. /\ client' = [client EXCEPT ![p] = [phase |-> "mkdir", call |-> client[p].call + 1, polls |-> 0]]
        /\ UNCHANGED <<lock, aged>>
    BY <1>4 DEF StartCall
  <2>2. client[p].call + 1 \in Nat
    BY <1>3 DEF LockInv
  <2>3. /\ client' \in [Client -> [phase : Phase, call : Nat, polls : Nat]]
        /\ client'[p].phase = "mkdir" /\ \A q \in Client \ {p} : client'[q] = client[q]
    BY <1>3, <2>1, <2>2 DEF LockInv, Phase
  <2> QED
    BY <1>2, <1>3, <2>1, <2>3 DEF Inv, LockInv, Holding
<1>5. CASE PollLock(p)
  <2> DEFINE later == [client[p] EXCEPT !.phase = "mkdir", !.polls = client[p].polls + 1]
  <2>1. CASE client[p].polls = MaxPolls
    BY <1>2, <1>3, <1>5, <2>1, PhaseMoves DEF Inv, PollLock, Phase, Holding
  <2>2. CASE client[p].polls # MaxPolls
    <3>1. client[p] \in [phase : Phase, call : Nat, polls : Nat]
      BY <1>3 DEF LockInv
    <3>2. later \in [phase : Phase, call : Nat, polls : Nat] /\ later.phase = "mkdir"
      <4>1. "mkdir" \in Phase
        BY DEF Phase
      <4>2. client[p].polls + 1 \in Nat
        BY <3>1
      <4> QED
        BY Zenon, <3>1, <4>1, <4>2
    <3>3. client' = [client EXCEPT ![p] = later] /\ UNCHANGED <<lock, aged>>
      <4>1. /\ client' = [client EXCEPT ![p].phase = "mkdir", ![p].polls = @ + 1]
            /\ UNCHANGED <<lock, aged>>
        BY <1>5, <2>2 DEF PollLock
      <4>2. client \in [Client -> [phase : Phase, call : Nat, polls : Nat]]
        BY <1>3 DEF LockInv
      <4> QED
        BY <4>1, <4>2, <3>1
    <3> HIDE DEF later
    <3>4. /\ client' \in [Client -> [phase : Phase, call : Nat, polls : Nat]]
          /\ client'[p].phase = "mkdir" /\ \A q \in Client \ {p} : client'[q] = client[q]
      BY <1>3, <3>2, <3>3 DEF LockInv
    <3> QED
      BY <1>2, <1>3, <3>3, <3>4 DEF Inv, LockInv, Holding
  <2> QED
    BY <2>1, <2>2
<1>6. CASE Mkdir(p) \/ OwnerNotWritten(p)
  BY <1>2, <1>3, <1>6, DirectoryMade, PhaseMoves DEF Inv, Mkdir, OwnerNotWritten, Phase, Holding
<1>7. CASE RemoveStaleLock(p)
  BY <1>2, <1>3, <1>7, DirectoryRemoved DEF Inv, RemoveStaleLock
<1>8. CASE StatLock(p)
  <2>1. lock.exists /\ lock.stale => aged
    BY <1>3 DEF LockInv, NoLock, FreshLock
  <2> QED
    BY <1>2, <1>3, <1>8, <2>1, PhaseMoves DEF Inv, StatLock, Phase, Holding
<1>9. CASE \/ Connect(p) \/ Preflight(p) \/ PreflightTimesOut(p)
           \/ ReceiveReply(p) \/ CommandTimesOut(p)
  BY <1>2, <1>3, <1>9, PhaseMoves
     DEF Inv, Connect, Preflight, PreflightTimesOut, ReceiveReply, CommandTimesOut, Phase, Holding
<1> QED
  BY <1>4, <1>5, <1>6, <1>7, <1>8, <1>9

\* The invariant holds initially.
LEMMA InitInv == Init => Inv
<1> SUFFICES ASSUME Init PROVE Inv
  OBVIOUS
<1>1. Types
  BY Zenon, ConstantTypes DEF Init, AddinInit, Types
<1>2. \A r \in Request : req[r].stage = "none" /\ req[r].reply = "none"
  BY ConstantTypes DEF Init, AddinInit
<1>3. IntakeInv
  BY <1>1, <1>2
     DEF Init, AddinInit, IntakeInv, GateInv, HandlerInv, Owed, ReplyInv, OwnResult, Inside, Raising
<1>4. LockInv
  BY DEF Init, LockInv, Phase, Holding
<1> QED
  BY <1>3, <1>4 DEF Inv

\* Every step keeps the invariant.
LEMMA StepInv == Inv /\ [Next]_vars => Inv'
<1> SUFFICES ASSUME Inv, [Next]_vars PROVE Inv'
  OBVIOUS
<1>1. IntakeInv /\ LockInv
  BY DEF Inv
<1>2. CASE UNCHANGED vars
  BY <1>1, <1>2, IntakeSame, IntakeOnly DEF Inv, vars
<1>3. ASSUME NEW r \in Request, AddinStep(r) PROVE Inv'
  BY <1>1, <1>3, ServeKeeps, IntakeOnly DEF Inv, AddinStep
<1>4. ASSUME NEW c \in Command, RevitStep(c) PROVE Inv'
  BY <1>1, <1>4, RevitKeeps, IntakeOnly DEF Inv, RevitStep
<1>5. CASE LockAges
  <2>1. LockInv' /\ UNCHANGED addinVars
    BY <1>1, <1>5 DEF LockAges, LockInv
  <2> QED
    BY <1>1, <2>1, IntakeSame DEF Inv
<1>6. CASE Restart
  BY <1>1, <1>6, RestartKeeps, IntakeOnly DEF Inv, Restart
<1>7. ASSUME NEW p \in Client, NEW c \in Command, SendCommand(p, c) PROVE Inv'
  BY <1>1, <1>7, ArriveKeeps, PhaseMoves DEF Inv, SendCommand, Phase, Holding
<1>8. ASSUME NEW p \in Client, Release(p) PROVE Inv'
  BY <1>1, <1>8, DisconnectKeeps, DirectoryRemoved DEF Inv, Release
<1>9. ASSUME NEW p \in Client, CrashClient(p) PROVE Inv'
  BY <1>1, <1>9, DisconnectKeeps, PhaseMoves DEF Inv, CrashClient, Phase, Holding
<1> QED
  BY <1>2, <1>3, <1>4, <1>5, <1>6, <1>7, <1>8, <1>9, CallKeeps DEF Next, Call

\* The invariant of the intake and the lock is inductive.
LEMMA Inductive == Spec => []Inv
  BY InitInv, StepInv, PTL DEF Spec

-----------------------------------------------------------------------------
(* Theorems *)

\* However many processes believe they hold the lock and whatever timed out before, a
\* handler that has still to finish is the one request's that raised it, and either
\* mcp_status shows that task or the intake is quarantined.
THEOREM HandlersAreFenced == Spec => []UnfinishedIsFenced
<1>1. Inv => UnfinishedIsFenced
  BY RequestAssumption DEF Inv, IntakeInv, GateInv, Owed, UnfinishedIsFenced
<1> QED
  BY <1>1, Inductive, PTL

\* Over disconnections, time-outs, lost signals and restarts, a result that goes out was made
\* by the run of the request it answers, for every handler; only a run that itself threw before
\* it had a result, in a handler that keeps the last one, is answered with an earlier object.
THEOREM ResultsAreOwn == Spec => []OwnResult
<1>1. Inv => OwnResult
  BY DEF Inv, IntakeInv
<1> QED
  BY <1>1, Inductive, PTL

\* Until a lock directory has outlived the stale limit, mkdir and rm by name exclude any
\* number of processes, also when some crash or leave a directory behind.
THEOREM LockExcludes == Spec => []ExclusiveUntilStale
<1>1. Inv => ExclusiveUntilStale
  BY DEF Inv, LockInv, ExclusiveUntilStale
<1> QED
  BY <1>1, Inductive, PTL
=============================================================================
