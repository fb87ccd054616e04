------------------------- MODULE RevocationSyncProofs -------------------------
(***************************************************************************)
(* Proofs about RevocationSync, for every number of connections, devices,      *)
(* events and faults.  A Gateway never admits a hello or frame on an identity   *)
(* that had changed before it came in.  A synchronization leaves nothing of a   *)
(* revoked device: what is registered while it lists, revokes and closes is     *)
(* taken back by its handler, because the fence of the device is up before the  *)
(* list is made.                                                            *)
(***************************************************************************)
EXTENDS RevocationSync, FiniteSetTheorems, TLAPS

Rows == [Device -> [status: {"none", "active", "revoked"}, version: Nat]]

Ticketed == {"ticket", "commit", "stored", "activated"}
ConnPc == {"none", "open", "sync", "admit"} \cup Ticketed

Connection ==
    [pc: ConnPc, op: {"none", "hello", "message", "register"}, device: Device \cup {None},
     version: Nat, live: BOOLEAN, tick: BOOLEAN, fresh: BOOLEAN, row: BOOLEAN,
     act: BOOLEAN, det: BOOLEAN]

RunPc == {"none", "prepare", "list", "revoke", "commit", "commitRows", "catch"}
Prepared == {"list", "revoke", "commit", "commitRows"}

Run == [pc: RunPc, owner: Conn \cup {None}, head: Nat, rows: Rows \cup {None},
        todo: SUBSET (Conn \cup Device)]

Types ==
    /\ dev \in Rows /\ head \in Nat
    /\ conn \in [Conn -> Connection]
    /\ \A c \in Conn : conn[c].pc # "none" => conn[c].device \in Device
    /\ snap # None => snap \in [head: Nat, rows: Rows]
    /\ run \in Run
    /\ run.pc \in Prepared => run.rows \in Rows

\* The cached rows are those of now when the cached head is that of now: rows are read
\* after the head they are cached under, and every change of a row counts.
CacheSound == snap # None => snap.head <= head /\ (snap.head = head => snap.rows = dev)

CommitSound == run.pc = "commitRows" => run.head <= head

\* A synchronization ends before its hello or frame goes on.
OwnerWaits == run.pc # "none" /\ run.owner # None => conn[run.owner].pc = "sync"

\* A connection is never ahead of its device, so an identity that has changed does not
\* come back.
NotAhead == \A c \in Conn : conn[c].pc # "none" => conn[c].version <= dev[conn[c].device].version

Current(rows, k) == rows[k.device] = ActiveAt(k.version)

StaleStaysStale ==
    \A c \in Conn : conn[c].pc \in {"sync", "admit"} /\ ~conn[c].fresh => ~Current(dev, conn[c])

\* What a synchronization has cached since a stale frame came in shows that it is stale.
StaleIsRefused ==
    \A c \in Conn : conn[c].pc = "admit" /\ ~conn[c].fresh =>
        snap = None \/ ~Current(snap.rows, conn[c])

IInv ==
    /\ Types /\ CacheSound /\ CommitSound /\ OwnerWaits /\ NotAhead
    /\ StaleStaysStale /\ StaleIsRefused /\ NoStaleAdmission

-----------------------------------------------------------------------------
(* Steps that nobody has to be told of *)

SameIdentity(k, l) == l.device = k.device /\ l.version = k.version

\* From k to l a handler ends, goes on with its ticket, or does not move.
Quiet(k, l) ==
    \/ l.pc = "none"
    \/ l.pc = "open" /\ k.pc # "none" /\ SameIdentity(k, l)
    \/ SameIdentity(k, l) /\ l.fresh = k.fresh
       /\ (l.pc = k.pc \/ (k.pc \in Ticketed /\ l.pc \in Ticketed))

\* The running synchronization goes on with what it relies on.
RunGoesOn ==
    /\ run' \in Run
    /\ run'.pc \in Prepared => run'.rows \in Rows
    /\ run'.pc = "commitRows" => run'.head <= head
    /\ run'.pc # "none" /\ run'.owner # None => conn'[run'.owner].pc = "sync"

\* A step that leaves the authority alone, forgets the cache or leaves it, and is quiet on
\* every connection keeps the invariant.
LEMMA QuietStep ==
    ASSUME IInv, UNCHANGED <<dev, head>>, snap' = snap \/ snap' = None,
           conn' \in [Conn -> Connection],
           \A c \in Conn : Quiet(conn[c], conn'[c]),
           RunGoesOn
    PROVE  IInv'
<1>1. Types'
  BY DEF IInv, Types, RunGoesOn, Quiet, SameIdentity, Ticketed
<1>2. CacheSound' /\ CommitSound' /\ OwnerWaits'
  BY DEF IInv, CacheSound, CommitSound, OwnerWaits, RunGoesOn
<1>3. NotAhead'
  BY DEF IInv, NotAhead, Quiet, SameIdentity, Ticketed
<1>4. StaleStaysStale' /\ StaleIsRefused'
  BY DEF IInv, StaleStaysStale, StaleIsRefused, Quiet, SameIdentity, Current, Ticketed
<1>5. NoStaleAdmission'
  BY DEF IInv, NoStaleAdmission, Quiet, SameIdentity, Ticketed
<1> QED
  BY <1>1, <1>2, <1>3, <1>4, <1>5 DEF IInv

\* What ends a connection, or takes its session, is quiet.
LEMMA EndsQuietly ==
    ASSUME NEW k \in Connection
    PROVE  /\ Ended(k) \in Connection /\ Quiet(k, Ended(k)) /\ Ended(k).pc = "none"
           /\ Removed(k) \in Connection /\ Quiet(k, Removed(k))
           /\ k.pc # "open" => Removed(k).pc = k.pc
           /\ Unregistered(k) \in Connection /\ Quiet(k, Unregistered(k))
           /\ Unregistered(k).pc = k.pc
<1>1. Ended(k) \in Connection /\ Quiet(k, Ended(k)) /\ Ended(k).pc = "none"
  BY Zenon DEF Ended, Connection, Quiet, ConnPc
<1>2. /\ [k EXCEPT !.live = FALSE, !.det = TRUE] \in Connection
      /\ Quiet(k, [k EXCEPT !.live = FALSE, !.det = TRUE])
      /\ [k EXCEPT !.live = FALSE, !.det = TRUE].pc = k.pc
  BY Zenon DEF Connection, Quiet, SameIdentity
<1>3. /\ Unregistered(k) \in Connection /\ Quiet(k, Unregistered(k))
      /\ Unregistered(k).pc = k.pc
  BY Zenon DEF Unregistered, Connection, Quiet, SameIdentity
<1> QED
  BY <1>1, <1>2, <1>3 DEF Removed

\* Not to move is quiet.
LEMMA Still == ASSUME NEW k \in Connection PROVE Quiet(k, k)
BY DEF Quiet, SameIdentity

\* So is the loss of a ticket.
LEMMA TicketGoesQuietly ==
    ASSUME NEW k \in Connection
    PROVE  /\ [k EXCEPT !.tick = FALSE] \in Connection
           /\ Quiet(k, [k EXCEPT !.tick = FALSE])
           /\ [k EXCEPT !.tick = FALSE].pc = k.pc
BY Zenon DEF Connection, Quiet, SameIdentity

\* And after a quiet step it is still quiet.
LEMMA ThenTicketGoes ==
    ASSUME NEW k \in Connection, NEW l \in Connection, Quiet(k, l)
    PROVE  Quiet(k, [l EXCEPT !.tick = FALSE])
BY DEF Connection, Quiet, SameIdentity

\* Closing connections for a revocation is quiet and does not wake up a waiting handler.
LEMMA ClosesQuietly ==
    ASSUME conn \in [Conn -> Connection], NEW D
    PROVE  /\ CloseForRevocation(conn, D) \in [Conn -> Connection]
           /\ \A c \in Conn : /\ Quiet(conn[c], CloseForRevocation(conn, D)[c])
                              /\ conn[c].pc = "sync" => CloseForRevocation(conn, D)[c].pc = "sync"
BY EndsQuietly, Still DEF CloseForRevocation

\* A step of one connection that is quiet, while the synchronization does not move.
LEMMA QuietConnStep ==
    ASSUME IInv, UNCHANGED <<dev, head, run>>, snap' = snap \/ snap' = None,
           NEW c \in Conn, NEW l \in Connection,
           conn' = [conn EXCEPT ![c] = l],
           Quiet(conn[c], l),
           conn[c].pc = "sync" => l.pc = "sync"
    PROVE  IInv'
<1>1. conn' \in [Conn -> Connection]
  BY DEF IInv, Types
<1>2. \A x \in Conn : Quiet(conn[x], conn'[x])
  BY Still DEF IInv, Types
<1>3. RunGoesOn
  BY DEF RunGoesOn, IInv, Types, CommitSound, OwnerWaits, Run
<1> QED
  BY <1>1, <1>2, <1>3, QuietStep

-----------------------------------------------------------------------------
(* The device authority *)

\* Versions grow, a revoked device stays revoked, and every change counts.
LEMMA PlaneGrows ==
    ASSUME Types, PlaneNext
    PROVE  /\ dev' \in Rows /\ head' \in Nat
           /\ head' >= head /\ (dev' # dev => head' > head)
           /\ \A d \in Device :
                  /\ dev'[d].version >= dev[d].version
                  /\ \A v \in Nat : v <= dev[d].version /\ dev[d] # ActiveAt(v) => dev'[d] # ActiveAt(v)
<1> PICK d \in Device :
        \/ mintEnrollmentCode(d) \/ exchangeEnrollmentCode(d) \/ exchangeDenied(d)
        \/ rotateDeviceCredential(d) \/ revokeDevice(d)
  BY DEF PlaneNext
<1>1. CASE mintEnrollmentCode(d) \/ exchangeDenied(d)
  BY <1>1 DEF mintEnrollmentCode, exchangeDenied, CountedEvent, Types, Rows
<1>2. CASE exchangeEnrollmentCode(d)
  BY <1>2 DEF exchangeEnrollmentCode, CountedEvent, Types, Rows, ActiveAt, NoDevice
<1>3. CASE rotateDeviceCredential(d)
  BY <1>3 DEF rotateDeviceCredential, CountedEvent, Types, Rows, ActiveAt
<1>4. CASE revokeDevice(d)
  BY <1>4 DEF revokeDevice, CountedEvent, Types, Rows, ActiveAt
<1> QED
  BY <1>1, <1>2, <1>3, <1>4

\* A change of a device makes the cached head an old one.
LEMMA PlaneStep ==
    ASSUME IInv, PlaneNext, UNCHANGED gatewayVars
    PROVE  IInv'
<1> USE DEF IInv, gatewayVars
<1>1. Types' /\ OwnerWaits' /\ NoStaleAdmission' /\ StaleIsRefused'
  BY PlaneGrows DEF Types, OwnerWaits, NoStaleAdmission, StaleIsRefused, Current
<1>2. CacheSound' /\ CommitSound'
  BY PlaneGrows DEF Types, CacheSound, CommitSound, Run
<1>3. NotAhead' /\ StaleStaysStale'
  <2>1. \A c \in Conn : conn[c].pc # "none" => conn[c].device \in Device /\ conn[c].version \in Nat
    BY DEF Types, Connection
  <2>2. NotAhead'
    BY <2>1, PlaneGrows DEF NotAhead, Types, Rows
  <2>3. StaleStaysStale'
    BY <2>1, PlaneGrows DEF NotAhead, StaleStaysStale, Current, Types
  <2> QED
    BY <2>2, <2>3
<1> QED
  BY <1>1, <1>2, <1>3

-----------------------------------------------------------------------------
(* The synchronization *)

\* A hello or frame goes on when the cached rows are those of now.
LEMMA ReturnStep ==
    ASSUME IInv, NEW owner \in Conn \cup {None},
           owner # None => conn[owner].pc = "sync",
           UNCHANGED <<dev, head>>,
           conn' = Returned(conn, owner),
           run' \in Run, run'.pc = "none",
           snap' \in [head: Nat, rows: Rows],
           snap'.head <= head, snap'.rows = dev
    PROVE  IInv'
<1> USE DEF IInv
<1>1. conn' \in [Conn -> Connection]
  BY DEF Types, Returned, Connection, ConnPc
<1>2. \A c \in Conn : /\ conn'[c].device = conn[c].device
                      /\ conn'[c].version = conn[c].version
                      /\ conn'[c].fresh = conn[c].fresh
                      /\ conn'[c].pc = conn[c].pc \/ (conn[c].pc = "sync" /\ conn'[c].pc = "admit")
  BY DEF Types, Returned, Connection
<1>3. Types'
  BY <1>1, <1>2 DEF Types, Prepared
<1>4. CacheSound' /\ CommitSound' /\ OwnerWaits'
  BY DEF CacheSound, CommitSound, OwnerWaits
<1>5. NotAhead' /\ StaleStaysStale' /\ NoStaleAdmission'
  BY <1>2 DEF NotAhead, StaleStaysStale, NoStaleAdmission, Current
<1>6. StaleIsRefused'
  BY <1>2, <1>5 DEF StaleIsRefused, StaleStaysStale, Current
<1> QED
  BY <1>3, <1>4, <1>5, <1>6

\* An unchanged head is the current rows; any other starts a resynchronization.
LEMMA ConsumeStep ==
    ASSUME IInv, NEW owner \in Conn \cup {None}, Consume(owner)
    PROVE  IInv'
<1>1. /\ run.pc = "none" /\ UNCHANGED <<dev, head, snap>>
      /\ owner # None => conn[owner].pc = "sync"
  BY SyncAssumption DEF Consume, planeVars
<1>2. CASE Unchanged /\ conn' = Returned(conn, owner) /\ UNCHANGED run
  <2>1. snap \in [head: Nat, rows: Rows] /\ snap.head <= head /\ snap.rows = dev
    BY <1>2 DEF Unchanged, IInv, CacheSound, Types
  <2> QED
    BY <1>1, <1>2, <2>1, ReturnStep DEF IInv, Types
<1>3. CASE /\ run' = [NoRun EXCEPT !.pc = "prepare", !.owner = owner]
           /\ conn' = [c \in Conn |-> [conn[c] EXCEPT !.tick = FALSE]]
  <2>1. /\ conn' \in [Conn -> Connection]
        /\ \A c \in Conn : Quiet(conn[c], conn'[c]) /\ conn'[c].pc = conn[c].pc
    BY Zenon, <1>3, TicketGoesQuietly DEF IInv, Types
  <2>2. RunGoesOn
    BY Zenon, <1>1, <1>3, <2>1 DEF RunGoesOn, Run, RunPc, Prepared, NoRun
  <2> QED
    BY <1>1, <2>1, <2>2, QuietStep
<1>4. CASE /\ run' = [NoRun EXCEPT !.pc = "catch", !.owner = owner]
           /\ UNCHANGED conn
  <2>1. RunGoesOn
    BY Zenon, <1>1, <1>4 DEF RunGoesOn, Run, RunPc, Prepared, NoRun
  <2> QED
    BY <1>1, <1>4, <2>1, QuietStep, Still DEF IInv, Types
<1> QED
  BY <1>2, <1>3, <1>4 DEF Consume

\* The steps of a synchronization that leave the connections alone or only end some.
LEMMA RunStep ==
    ASSUME IInv, Prepare \/ List \/ CloseRevoked \/ CommitHead \/ RunFails
    PROVE  IInv'
<1>1. CASE Prepare \/ List \/ CommitHead \/ RunFails
  <2>1. UNCHANGED <<dev, head, snap, conn>>
    BY <1>1 DEF Prepare, List, CommitHead, RunFails, planeVars
  <2>2. RunGoesOn
    <3>1. CASE Prepare
      BY Zenon, <3>1, <2>1 DEF Prepare, RunGoesOn, IInv, Types, OwnerWaits, Run, RunPc, Prepared
    <3>2. CASE List
      <4>1. (orphan \cap RevokedIn(run.rows)) \cup
            {c \in Conn : conn[c].row /\ conn[c].device \in RevokedIn(run.rows)}
                \in SUBSET (Conn \cup Device)
        BY DEF RevokedIn
      <4> QED
        BY Zenon, <3>2, <4>1, <2>1 DEF List, RunGoesOn, IInv, Types, OwnerWaits, Run, RunPc, Prepared
    <3>3. CASE CommitHead
      <4>1. /\ run.pc = "commit" /\ run' \in Run /\ run'.pc = "commitRows" /\ run'.head = head
            /\ run'.rows = run.rows /\ run'.owner = run.owner
        BY Zenon, <3>3 DEF CommitHead, IInv, Types, Run, RunPc
      <4> QED
        BY <4>1, <2>1 DEF RunGoesOn, IInv, Types, OwnerWaits, Prepared
    <3>4. CASE RunFails
      BY <3>4, <2>1 DEF RunFails, RunGoesOn, IInv, Types, OwnerWaits, Run, RunPc, Prepared
    <3> QED
      BY <1>1, <3>1, <3>2, <3>3, <3>4
  <2> QED
    BY <2>1, <2>2, QuietStep, Still DEF IInv, Types
<1>2. CASE CloseRevoked
  <2>1. /\ UNCHANGED <<dev, head>> /\ (snap' = snap \/ snap' = None)
        /\ conn' = CloseForRevocation(conn, RevokedIn(run.rows))
        /\ run.pc = "revoke" /\ run' = [run EXCEPT !.pc = "commit"]
    BY <1>2 DEF CloseRevoked, Untrack, planeVars
  <2>2. /\ conn' \in [Conn -> Connection]
        /\ \A c \in Conn : Quiet(conn[c], conn'[c]) /\ (conn[c].pc = "sync" => conn'[c].pc = "sync")
    BY <2>1, ClosesQuietly DEF IInv, Types
  <2>3. RunGoesOn
    BY <2>1, <2>2 DEF RunGoesOn, IInv, Types, OwnerWaits, Run, RunPc, Prepared
  <2> QED
    BY <2>1, <2>2, <2>3, QuietStep
<1> QED
  BY <1>1, <1>2

\* The revocation of one session.
LEMMA RevokeStep ==
    ASSUME IInv, NEW x \in run.todo, Revoke(x)
    PROVE  IInv'
<1>1. /\ UNCHANGED <<dev, head>> /\ (snap' = snap \/ snap' = None)
      /\ run.pc = "revoke" /\ run' = [run EXCEPT !.todo = @ \ {x}]
      /\ \/ x \in Conn /\ conn' = [conn EXCEPT ![x] = Unregistered(@)]
         \/ UNCHANGED conn
  BY DEF Revoke, Untrack, planeVars
<1>2. /\ conn' \in [Conn -> Connection]
      /\ \A c \in Conn : Quiet(conn[c], conn'[c]) /\ conn'[c].pc = conn[c].pc
  BY <1>1, EndsQuietly, Still DEF IInv, Types
<1>3. RunGoesOn
  BY <1>1, <1>2 DEF RunGoesOn, IInv, Types, OwnerWaits, Run, Prepared
<1> QED
  BY <1>1, <1>2, <1>3, QuietStep

\* Rows that are the prepared ones are cached under a head that was read before them.
LEMMA CommitRowsStep ==
    ASSUME IInv, CommitRows
    PROVE  IInv'
<1>1. run.pc = "commitRows" /\ UNCHANGED <<dev, head>>
  BY DEF CommitRows, planeVars
<1>2. CASE dev = run.rows /\ snap' = [head |-> run.head, rows |-> run.rows]
           /\ run' = NoRun /\ conn' = Returned(conn, run.owner)
  BY <1>1, <1>2, ReturnStep DEF IInv, Types, CommitSound, OwnerWaits, Run, RunPc, NoRun, Prepared
<1>3. CASE run' = [run EXCEPT !.pc = "catch"] /\ UNCHANGED <<conn, snap>>
  <2>1. RunGoesOn
    BY <1>1, <1>3 DEF RunGoesOn, IInv, Types, OwnerWaits, Run, RunPc, Prepared
  <2> QED
    BY <1>1, <1>3, <2>1, QuietStep, Still DEF IInv, Types
<1> QED
  BY <1>2, <1>3 DEF CommitRows

\* The error path ends connections only.
LEMMA CatchStep ==
    ASSUME IInv, Catch
    PROVE  IInv'
<1> DEFINE closed == [c \in Conn |-> [CloseForRevocation(conn, Device)[c] EXCEPT !.tick = FALSE]]
<1>1. /\ UNCHANGED <<dev, head>> /\ (snap' = snap \/ snap' = None) /\ run' = NoRun
      /\ conn' = IF run.owner = None THEN closed ELSE [closed EXCEPT ![run.owner] = Ended(@)]
  BY DEF Catch, Untrack, planeVars
<1>2. closed \in [Conn -> Connection]
  BY Zenon, ClosesQuietly, TicketGoesQuietly DEF IInv, Types
<1>3. \A c \in Conn : Quiet(conn[c], closed[c])
  BY ClosesQuietly, ThenTicketGoes DEF IInv, Types
<1>4. /\ conn' \in [Conn -> Connection]
      /\ \A c \in Conn : Quiet(conn[c], conn'[c])
  <2>1. CASE run.owner = None
    BY Zenon, <1>1, <1>2, <1>3, <2>1
  <2>2. CASE run.owner \in Conn
    <3>1. /\ Ended(closed[run.owner]) \in Connection
          /\ Quiet(conn[run.owner], Ended(closed[run.owner]))
      BY <1>2, <2>2, EndsQuietly DEF Quiet
    <3>2. conn' = [closed EXCEPT ![run.owner] = Ended(closed[run.owner])]
      BY <1>1, <2>2, SyncAssumption
    <3> HIDE DEF closed
    <3> QED
      BY <1>2, <1>3, <2>2, <3>1, <3>2
  <2> QED
    BY <2>1, <2>2 DEF IInv, Types, Run
<1>5. RunGoesOn
  BY <1>1 DEF RunGoesOn, Run, RunPc, Prepared, NoRun
<1> QED
  BY Zenon, <1>1, <1>4, <1>5, QuietStep

-----------------------------------------------------------------------------
(* Hellos and frames *)

\* A step of one connection, not the end of a wait, that keeps what is said of the
\* connection.
LEMMA ConnStep ==
    ASSUME IInv, UNCHANGED <<dev, head, run>>, snap' = snap \/ snap' = None,
           NEW c \in Conn, NEW l \in Connection,
           conn' = [conn EXCEPT ![c] = l],
           conn[c].pc # "sync", l.pc \notin {"none", "admit"},
           l.device \in Device, l.version <= dev[l.device].version,
           l.pc = "sync" /\ ~l.fresh => ~Current(dev, l),
           l.pc \in Ticketed => l.fresh
    PROVE  IInv'
<1> USE DEF IInv
<1>1. /\ conn' \in [Conn -> Connection] /\ conn'[c] = l
      /\ \A x \in Conn : x # c => conn'[x] = conn[x]
  BY DEF Types
<1>2. Types' /\ CacheSound' /\ CommitSound'
  BY <1>1 DEF Types, CacheSound, CommitSound
<1>3. OwnerWaits' /\ NotAhead'
  BY <1>1 DEF OwnerWaits, NotAhead, Types, Run
<1>4. StaleStaysStale' /\ StaleIsRefused'
  BY <1>1 DEF StaleStaysStale, StaleIsRefused, Current
<1>5. NoStaleAdmission'
  BY <1>1 DEF NoStaleAdmission, Ticketed
<1> QED
  BY <1>2, <1>3, <1>4, <1>5

\* A hello comes with the identity of now.
LEMMA OpenStep ==
    ASSUME IInv, NEW c \in Conn, NEW d \in Device, Open(c, d)
    PROVE  IInv'
<1> DEFINE l == [Unused EXCEPT !.pc = "sync", !.op = "hello", !.device = d,
                               !.version = dev[d].version, !.fresh = TRUE]
<1>1. /\ l \in Connection /\ l.pc = "sync" /\ l.device = d /\ l.version = dev[d].version
      /\ l.fresh = TRUE
  BY Zenon DEF Unused, Connection, ConnPc, IInv, Types, Rows
<1>2. /\ UNCHANGED <<dev, head, run, snap>> /\ conn[c].pc = "none"
      /\ conn' = [conn EXCEPT ![c] = l]
  BY DEF Open, planeVars
<1>3. dev[d].version \in Nat
  BY DEF IInv, Types, Rows
<1> HIDE DEF l
<1>4. /\ l.version <= dev[l.device].version
      /\ l.pc = "sync" /\ ~l.fresh => ~Current(dev, l)
      /\ l.pc \in Ticketed => l.fresh
  BY <1>1, <1>3
<1> QED
  BY Zenon, <1>1, <1>2, <1>4, ConnStep

\* A frame is stale, or not, when it comes in.
LEMMA ReceiveStep ==
    ASSUME IInv, NEW c \in Conn, NEW op \in {"message", "register"}, Receive(c, op)
    PROVE  IInv'
<1> DEFINE l == [conn[c] EXCEPT !.pc = "sync", !.op = op,
                                !.fresh = (dev[conn[c].device] = ActiveAt(conn[c].version))]
<1>1. conn[c] \in Connection /\ conn[c].pc = "open" /\ conn[c].device \in Device
  BY DEF Receive, IInv, Types
<1>2. /\ l \in Connection /\ l.pc = "sync" /\ l.device = conn[c].device
      /\ l.version = conn[c].version
      /\ l.fresh = (dev[conn[c].device] = ActiveAt(conn[c].version))
  <2>1. ASSUME NEW k \in Connection, NEW b \in BOOLEAN
        PROVE  LET n == [k EXCEPT !.pc = "sync", !.op = op, !.fresh = b]
               IN  n \in Connection /\ n.pc = "sync" /\ n.device = k.device
                   /\ n.version = k.version /\ n.fresh = b
    BY Zenon DEF Connection, ConnPc
  <2>2. (dev[conn[c].device] = ActiveAt(conn[c].version)) \in BOOLEAN
    OBVIOUS
  <2> QED
    BY <1>1, <2>1, <2>2, Zenon
<1>3. /\ UNCHANGED <<dev, head, run, snap>>
      /\ conn' = [conn EXCEPT ![c] = l]
  BY Zenon DEF Receive, planeVars, IInv, Types
<1>4. l.version <= dev[l.device].version /\ (~l.fresh => ~Current(dev, l))
  BY Zenon, <1>1, <1>2 DEF IInv, NotAhead, Current
<1> HIDE DEF l
<1> QED
  BY Zenon, <1>1, <1>2, <1>3, <1>4, ConnStep DEF Ticketed

\* The heart of the matter: a frame that was stale when it came in does not match the
\* snapshot.
LEMMA AdmitStep ==
    ASSUME IInv, NEW c \in Conn, Admit(c)
    PROVE  IInv'
<1>1. /\ conn[c] \in Connection /\ conn[c].pc = "admit" /\ conn[c].device \in Device
      /\ UNCHANGED <<dev, head, run>> /\ (snap' = snap \/ snap' = None)
  BY DEF Admit, IInv, Types, Untrack, planeVars
<1>2. CASE MatchesSnapshot(conn[c]) /\ conn' = [conn EXCEPT ![c].pc = "ticket", ![c].tick = TRUE]
  <2> DEFINE l == [conn[c] EXCEPT !.pc = "ticket", !.tick = TRUE]
  <2>1. /\ l \in Connection /\ l.pc = "ticket" /\ l.device = conn[c].device
        /\ l.version = conn[c].version /\ l.fresh = conn[c].fresh
    BY Zenon, <1>1 DEF Connection, ConnPc, Ticketed
  <2>2. conn' = [conn EXCEPT ![c] = l]
    BY Zenon, <1>2 DEF IInv, Types
  <2>3. conn[c].fresh
    BY <1>1, <1>2 DEF MatchesSnapshot, IInv, StaleIsRefused, Current
  <2>4. l.version <= dev[l.device].version
    BY <1>1, <2>1 DEF IInv, NotAhead
  <2> HIDE DEF l
  <2> QED
    BY Zenon, <1>1, <2>1, <2>2, <2>3, <2>4, ConnStep
<1>3. CASE conn' = [conn EXCEPT ![c] = Ended(conn[c])]
  BY Zenon, <1>1, <1>3, EndsQuietly, QuietConnStep
<1> QED
  BY <1>2, <1>3 DEF Admit, Untrack

\* A handler goes on from its ticket.
LEMMA HandlerStep ==
    ASSUME IInv, NEW c \in Conn,
           UseTicket(c) \/ CommitRegistration(c) \/ Activate(c) \/ Acknowledge(c)
    PROVE  IInv'
<1> DEFINE k == conn[c]
<1>1. /\ k \in Connection /\ k.pc \in Ticketed
      /\ UNCHANGED <<dev, head, run>> /\ (snap' = snap \/ snap' = None)
  BY Zenon DEF UseTicket, CommitRegistration, Activate, Acknowledge, AssertAgain, CleanUp, Untrack,
         planeVars, IInv, Types, Ticketed
<1>2. /\ [k EXCEPT !.pc = "commit"] \in Connection /\ Quiet(k, [k EXCEPT !.pc = "commit"])
      /\ [k EXCEPT !.pc = "stored", !.row = TRUE] \in Connection
      /\ Quiet(k, [k EXCEPT !.pc = "stored", !.row = TRUE])
      /\ [k EXCEPT !.pc = "activated", !.act = TRUE] \in Connection
      /\ Quiet(k, [k EXCEPT !.pc = "activated", !.act = TRUE])
  BY Zenon, <1>1 DEF Connection, ConnPc, Ticketed, Quiet, SameIdentity
<1>3. /\ [k EXCEPT !.pc = "open", !.op = "none", !.live = TRUE, !.tick = FALSE, !.fresh = FALSE]
             \in Connection
      /\ Quiet(k, [k EXCEPT !.pc = "open", !.op = "none", !.live = TRUE, !.tick = FALSE,
                            !.fresh = FALSE])
      /\ [k EXCEPT !.pc = "open", !.op = "none", !.tick = FALSE, !.fresh = FALSE] \in Connection
      /\ Quiet(k, [k EXCEPT !.pc = "open", !.op = "none", !.tick = FALSE, !.fresh = FALSE])
  BY ZenonT(60), <1>1 DEF Connection, ConnPc, Ticketed, Quiet, SameIdentity
<1>4. /\ Ended(k) \in Connection /\ Quiet(k, Ended(k))
      /\ Ended(Unregistered(k)) \in Connection /\ Quiet(k, Ended(Unregistered(k)))
  BY <1>1, EndsQuietly DEF Quiet
<1>5. ASSUME NEW kept \in BOOLEAN
      PROVE  [Ended(k) EXCEPT !.row = kept] \in Connection /\ Quiet(k, [Ended(k) EXCEPT !.row = kept])
  <2>1. ASSUME NEW l \in Connection, l.pc = "none"
        PROVE  [l EXCEPT !.row = kept] \in Connection /\ Quiet(k, [l EXCEPT !.row = kept])
    BY <2>1 DEF Connection, Quiet
  <2> QED
    BY <1>1, <2>1, EndsQuietly
<1>6. \E l \in Connection : Quiet(k, l) /\ conn' = [conn EXCEPT ![c] = l]
  <2>1. CASE UseTicket(c)
    BY Zenon, <1>2, <1>3, <1>4, <2>1 DEF UseTicket, Untrack
  <2>2. CASE CommitRegistration(c)
    <3>1. CASE conn' = [conn EXCEPT ![c].pc = "stored", ![c].row = TRUE]
      <4>1. conn' = [conn EXCEPT ![c] = [k EXCEPT !.pc = "stored", !.row = TRUE]]
        BY Zenon, <3>1 DEF IInv, Types
      <4> QED
        BY Zenon, <1>2, <4>1
    <3>2. CASE \E kept \in BOOLEAN : conn' = [conn EXCEPT ![c] = [Ended(k) EXCEPT !.row = kept]]
      BY Zenon, <1>5, <3>2
    <3> QED
      BY Zenon, <2>2, <3>1, <3>2 DEF CommitRegistration, Untrack
  <2>3. CASE Activate(c)
    BY <1>2, <1>4, <2>3 DEF Activate, AssertAgain, CleanUp, Untrack
  <2>4. CASE Acknowledge(c)
    BY <1>3, <1>4, <2>4 DEF Acknowledge, AssertAgain, CleanUp, Untrack
  <2> QED
    BY <2>1, <2>2, <2>3, <2>4
<1> QED
  BY Zenon, <1>1, <1>6, QuietConnStep DEF Ticketed

\* A connection is lost, its session is detached.
LEMMA LossStep ==
    ASSUME IInv, NEW c \in Conn, Disconnect(c) \/ Detach(c)
    PROVE  IInv'
<1> DEFINE k == conn[c]
<1>1. /\ k \in Connection
      /\ UNCHANGED <<dev, head, run>> /\ (snap' = snap \/ snap' = None)
  BY DEF Disconnect, Detach, Untrack, planeVars, IInv, Types
<1>2. /\ [k EXCEPT !.det = FALSE, !.act = FALSE] \in Connection
      /\ Quiet(k, [k EXCEPT !.det = FALSE, !.act = FALSE])
      /\ [k EXCEPT !.det = FALSE, !.act = FALSE].pc = k.pc
      /\ [k EXCEPT !.det = FALSE] \in Connection /\ Quiet(k, [k EXCEPT !.det = FALSE])
      /\ [k EXCEPT !.det = FALSE].pc = k.pc
  BY Zenon, <1>1 DEF Connection, Quiet, SameIdentity
<1>3. \/ conn' = [conn EXCEPT ![c] = Removed(k)]
      \/ conn' = [conn EXCEPT ![c] = [k EXCEPT !.det = FALSE, !.act = FALSE]]
      \/ conn' = [conn EXCEPT ![c] = [k EXCEPT !.det = FALSE]]
  BY DEF Disconnect, Detach, Untrack, IInv, Types
<1> HIDE DEF k
<1>4. /\ Removed(k) \in Connection /\ Quiet(k, Removed(k))
      /\ k.pc = "sync" => Removed(k).pc = "sync"
  BY <1>1, EndsQuietly
<1>5. \E l \in Connection : /\ Quiet(k, l) /\ (k.pc = "sync" => l.pc = "sync")
                            /\ conn' = [conn EXCEPT ![c] = l]
  BY Zenon, <1>2, <1>3, <1>4
<1> QED
  BY Zenon, <1>1, <1>5, QuietConnStep DEF k

\* A restart forgets everything.
LEMMA RestartStep ==
    ASSUME IInv, Restart
    PROVE  IInv'
<1>1. UNCHANGED <<dev, head>> /\ snap' = None /\ run' = NoRun /\ conn' = [c \in Conn |-> Unused]
  BY DEF Restart, planeVars
<1>2. Unused \in Connection /\ Unused.pc = "none"
  BY DEF Unused, Connection, ConnPc
<1>3. conn' \in [Conn -> Connection] /\ \A c \in Conn : Quiet(conn[c], conn'[c])
  BY <1>1, <1>2 DEF Quiet
<1>4. RunGoesOn
  BY <1>1 DEF RunGoesOn, Run, RunPc, Prepared, NoRun
<1> QED
  BY <1>1, <1>3, <1>4, QuietStep

-----------------------------------------------------------------------------
(* The theorem *)

\* The invariant holds at the start, ...
LEMMA InitInv == Init => IInv
<1> SUFFICES ASSUME Init PROVE IInv
  OBVIOUS
<1>1. Unused \in Connection /\ Unused.pc = "none"
  BY DEF Unused, Connection, ConnPc
<1>2. dev \in Rows
  BY DEF Init, PlaneInit, Rows, ActiveAt, NoDevice
<1>3. head \in Nat
  BY PlaneAssumption, FS_Subset, FS_CardinalityType DEF Init, PlaneInit
<1>4. Types
  BY <1>1, <1>2, <1>3 DEF Init, Types, NoRun, Run, RunPc, Prepared
<1>5. /\ CacheSound /\ CommitSound /\ OwnerWaits /\ NotAhead
      /\ StaleStaysStale /\ StaleIsRefused /\ NoStaleAdmission
  BY <1>1 DEF Init, CacheSound, CommitSound, OwnerWaits, NotAhead, StaleStaysStale, StaleIsRefused,
              NoStaleAdmission, NoRun
<1> QED
  BY <1>4, <1>5 DEF IInv

\* ... is kept by every step, ...
LEMMA NextInv == IInv /\ [Next]_vars => IInv'
<1> SUFFICES ASSUME IInv, [Next]_vars PROVE IInv'
  OBVIOUS
<1>1. CASE UNCHANGED vars
  <2>1. UNCHANGED <<dev, head, conn, snap, run>>
    BY <1>1 DEF vars, planeVars, gatewayVars
  <2> QED
    BY <2>1 DEF IInv, Types, CacheSound, CommitSound, OwnerWaits, NotAhead, StaleStaysStale,
                StaleIsRefused, NoStaleAdmission, Current
<1>2. CASE PlaneNext /\ UNCHANGED gatewayVars
  BY <1>2, PlaneStep
<1>3. CASE Synchronize
  BY <1>3, RunStep, RevokeStep, CommitRowsStep, CatchStep DEF Synchronize
<1>4. CASE RunFails \/ Restart
  BY <1>4, RunStep, RestartStep
<1>5. CASE \E o \in Conn \cup {None} : Consume(o)
  BY <1>5, ConsumeStep
<1>6. ASSUME NEW c \in Conn,
             \/ \E d \in Device : Open(c, d)
             \/ \E op \in {"message", "register"} : Receive(c, op)
             \/ Handle(c) \/ Disconnect(c) \/ Detach(c)
      PROVE  IInv'
  BY <1>6, OpenStep, ReceiveStep, AdmitStep, HandlerStep, LossStep DEF Handle
<1> QED
  BY <1>1, <1>2, <1>3, <1>4, <1>5, <1>6 DEF Next

\* ... and so holds always.
LEMMA Inductive == Spec => []IInv
BY InitInv, NextInv, PTL DEF Spec

\* No hello or frame is admitted on an identity that had changed before it came in
\* (#acquireConnectionAuthorityTicket), although the Gateway compares a count of events and
\* a cached snapshot: for any devices, connections, interleaving and faults.
THEOREM FreshAdmission == Spec => []NoStaleAdmission
<1>1. IInv => NoStaleAdmission
  BY DEF IInv
<1> QED
  BY <1>1, Inductive, PTL

\* An unchanged head means unchanged devices (synchronizeIdentityRevocations returns early):
\* the snapshot that commitTenantResync leaves is never out of date under the current head.
THEOREM CacheIsSound == Spec => []CacheSound
<1>1. IInv => CacheSound
  BY DEF IInv
<1> QED
  BY <1>1, Inductive, PTL

-----------------------------------------------------------------------------
(* What a synchronization leaves of a revoked device *)

Tail == {"stored", "activated"}

\* Nothing of the devices D is left, but for failed cleanups and for sessions whose
\* handler is still to assert its ticket.
Settled(D) ==
    \A d \in D \ leftover :
        /\ d \notin orphan
        /\ \A c \in Conn : conn[c].device = d => ~conn[c].live /\ (conn[c].row => conn[c].pc \in Tail)

\* The same for sessions, but for those still to be revoked.
Listed(D, todo) ==
    \A d \in D \ leftover :
        /\ d \in orphan => d \in todo
        /\ \A c \in Conn : conn[c].device = d /\ conn[c].row => conn[c].pc \in Tail \/ c \in todo

RTypes ==
    /\ leftover \subseteq Device
    /\ blocked \in BOOLEAN
    /\ fence \in Rows

RevokedForGood ==
    /\ snap # None => \A d \in RevokedIn(snap.rows) : dev[d].status = "revoked"
    /\ run.pc \in Prepared => \A d \in RevokedIn(run.rows) : dev[d].status = "revoked"

\* The fence of a device is up while anything remembers that it is revoked.
Fenced ==
    /\ snap # None => \A d \in RevokedIn(snap.rows) : fence[d].status = "revoked"
    /\ run.pc \in Prepared => \A d \in RevokedIn(run.rows) : fence[d].status = "revoked"

BlockedInRun == run.pc \in Prepared \cup {"prepare"} => blocked

Progress ==
    /\ run.pc = "revoke" => Listed(RevokedIn(run.rows), run.todo)
    /\ run.pc \in {"commit", "commitRows"} => Settled(RevokedIn(run.rows))
    /\ ~blocked /\ snap # None => Settled(RevokedIn(snap.rows))

RInv == RTypes /\ RevokedForGood /\ Fenced /\ BlockedInRun /\ Progress

-----------------------------------------------------------------------------
(* Steps that bring nothing back *)

\* Connection c neither becomes live nor keeps a new session outside its handler when its
\* device is fenced or the tenant blocked.
Tame(k, l) ==
    /\ l.device = k.device
    /\ l.live => k.live \/ ~ScopeGone(k)
    /\ l.row => \/ l.pc \in Tail
                \/ k.row /\ k.pc \notin Tail
                \/ ~ScopeGone(k)
                \/ k.device \in leftover'

\* The synchronization does not move, or stops short of its list.
RunHolds ==
    \/ run' = run /\ blocked' = blocked
    \/ /\ run'.pc \in {"none", "prepare", "catch"}
       /\ run'.pc = "prepare" => blocked'
       /\ blocked => blocked'

\* A tame step on every connection, with the fences as they are, keeps the invariant.
LEMMA TameStep ==
    ASSUME Types, RInv, UNCHANGED <<dev, fence, orphan>>,
           leftover \subseteq leftover', leftover' \subseteq Device, blocked' \in BOOLEAN,
           snap' = snap \/ snap' = None,
           \A c \in Conn : Tame(conn[c], conn'[c]),
           RunHolds
    PROVE  RInv'
<1> USE DEF RInv
<1>1. RTypes' /\ BlockedInRun'
  BY DEF RTypes, BlockedInRun, RunHolds, Prepared
<1>2. RevokedForGood'
  BY DEF RevokedForGood, RunHolds, RevokedIn, Prepared
<1>3. Fenced'
  BY DEF Fenced, RunHolds, RevokedIn, Prepared
<1>4. ASSUME NEW D \in SUBSET Device, Settled(D),
             \A d \in D : blocked \/ fence[d].status = "revoked"
      PROVE  Settled(D)'
  <2> SUFFICES ASSUME NEW d \in D, d \notin leftover', NEW c \in Conn, conn'[c].device = d
               PROVE  ~conn'[c].live /\ (conn'[c].row => conn'[c].pc \in Tail)
    BY <1>4 DEF Settled
  <2>1. ScopeGone(conn[c]) /\ conn[c].device = d
    BY <1>4 DEF Tame, ScopeGone
  <2> QED
    BY <1>4, <2>1 DEF Tame, Settled
<1>5. \A rows : RevokedIn(rows) \in SUBSET Device
  BY DEF RevokedIn
<1>6. ~blocked' /\ snap' # None => Settled(RevokedIn(snap.rows))'
  <2> SUFFICES ASSUME ~blocked', snap' # None
               PROVE  Settled(RevokedIn(snap.rows))'
    OBVIOUS
  <2>1. ~blocked /\ snap' = snap /\ snap # None
    BY DEF RunHolds
  <2>2. /\ Settled(RevokedIn(snap.rows))
        /\ \A d \in RevokedIn(snap.rows) : fence[d].status = "revoked"
    BY <2>1 DEF Progress, Fenced
  <2> QED
    BY <1>4, <1>5, <2>1, <2>2 DEF Settled
<1>7. run'.pc \in {"commit", "commitRows"} => Settled(RevokedIn(run.rows))'
  <2> SUFFICES ASSUME run'.pc \in {"commit", "commitRows"}
               PROVE  Settled(RevokedIn(run.rows))'
    OBVIOUS
  <2>1. run' = run /\ blocked /\ Settled(RevokedIn(run.rows))
    BY DEF RunHolds, BlockedInRun, Prepared, Progress
  <2> QED
    BY <1>4, <1>5, <2>1 DEF Settled
<1>8. run'.pc = "revoke" => Listed(RevokedIn(run.rows), run.todo)'
  <2> SUFFICES ASSUME run'.pc = "revoke"
               PROVE  Listed(RevokedIn(run.rows), run.todo)'
    OBVIOUS
  <2>1. run' = run /\ blocked /\ Listed(RevokedIn(run.rows), run.todo)
    BY DEF RunHolds, BlockedInRun, Prepared, Progress
  <2>2. ASSUME NEW d \in RevokedIn(run.rows), d \notin leftover',
               NEW c \in Conn, conn'[c].device = d, conn'[c].row
        PROVE  conn'[c].pc \in Tail \/ c \in run.todo
    <3>1. ScopeGone(conn[c]) /\ conn[c].device = d
      BY <2>1, <2>2 DEF Tame, ScopeGone
    <3> QED
      BY <2>1, <2>2, <3>1 DEF Tame, Listed
  <2>3. \A d \in RevokedIn(run.rows) \ leftover' : d \in orphan' => d \in run.todo
    BY <2>1 DEF Listed
  <2>4. RevokedIn(run'.rows) = RevokedIn(run.rows) /\ run'.todo = run.todo
    BY <2>1
  <2> QED
    BY <2>2, <2>3, <2>4 DEF Listed
<1> QED
  BY <1>1, <1>2, <1>3, <1>6, <1>7, <1>8 DEF Progress

\* What the ends of connections do to device, liveness and session.
LEMMA EndsTamely ==
    ASSUME NEW k \in Connection
    PROVE  /\ Ended(k).device = k.device /\ Ended(k).live = FALSE /\ Ended(k).row = k.row
           /\ Removed(k).device = k.device /\ Removed(k).live = FALSE /\ Removed(k).row = k.row
           /\ k.pc # "open" => Removed(k).pc = k.pc
           /\ Unregistered(k).device = k.device /\ Unregistered(k).live = k.live
           /\ Unregistered(k).row = FALSE
<1>1. Ended(k).device = k.device /\ Ended(k).live = FALSE /\ Ended(k).row = k.row
  BY DEF Ended, Connection
<1>2. LET l == [k EXCEPT !.live = FALSE, !.det = TRUE]
      IN  l.device = k.device /\ l.live = FALSE /\ l.row = k.row /\ l.pc = k.pc
  BY DEF Connection
<1>3. /\ Unregistered(k).device = k.device /\ Unregistered(k).live = k.live
      /\ Unregistered(k).row = FALSE
  BY DEF Unregistered, Connection
<1> QED
  BY <1>1, <1>2, <1>3 DEF Removed

\* Not to move, to lose the ticket, and to be removed are tame.
LEMMA TameEnds ==
    ASSUME NEW k \in Connection
    PROVE  /\ Tame(k, k) /\ Tame(k, Removed(k))
           /\ k.pc \notin Tail => Tame(k, Ended(k))
           /\ Tame(k, [k EXCEPT !.tick = FALSE])
<1>1. Tame(k, k)
  BY DEF Tame
<1>2. Tame(k, Removed(k))
  BY Zenon, EndsTamely DEF Tame, Tail
<1>3. k.pc \notin Tail => Tame(k, Ended(k))
  BY Zenon, EndsTamely DEF Tame
<1>4. Tame(k, [k EXCEPT !.tick = FALSE])
  BY DEF Tame, Connection
<1> QED
  BY <1>1, <1>2, <1>3, <1>4

\* A tame step of one connection.
LEMMA TameConnStep ==
    ASSUME Types, RInv, UNCHANGED <<dev, fence, orphan, run, blocked>>,
           leftover \subseteq leftover', leftover' \subseteq Device,
           snap' = snap \/ snap' = None,
           NEW c \in Conn, NEW l, conn' = [conn EXCEPT ![c] = l],
           Tame(conn[c], l)
    PROVE  RInv'
<1>1. \A x \in Conn : Tame(conn[x], conn'[x])
  BY Zenon, TameEnds DEF Types
<1>2. RunHolds /\ blocked' \in BOOLEAN
  BY DEF RunHolds, RInv, RTypes
<1> QED
  BY <1>1, <1>2, TameStep

-----------------------------------------------------------------------------
(* Hellos, frames and ends of connections *)

\* A frame comes in, a connection is lost, a session is detached.
LEMMA LossIsTame ==
    ASSUME Types, RInv, NEW c \in Conn,
           (\E op \in {"message", "register"} : Receive(c, op)) \/ Disconnect(c) \/ Detach(c)
    PROVE  RInv'
<1> DEFINE k == conn[c]
<1>1. /\ k \in Connection
      /\ UNCHANGED <<dev, fence, orphan, run, blocked, leftover>>
      /\ snap' = snap \/ snap' = None
  BY DEF Receive, Disconnect, Detach, Untrack, planeVars, Types
<1>2. CASE \E op \in {"message", "register"} : Receive(c, op)
  <2>1. PICK op \in {"message", "register"}, b \in BOOLEAN :
            k.pc = "open" /\ conn' = [conn EXCEPT ![c] = [k EXCEPT !.pc = "sync", !.op = op, !.fresh = b]]
    <3>1. PICK op \in {"message", "register"} : Receive(c, op)
      BY <1>2
    <3>2. (dev[k.device] = ActiveAt(k.version)) \in BOOLEAN
      OBVIOUS
    <3>3. conn' = [conn EXCEPT ![c] = [k EXCEPT !.pc = "sync", !.op = op,
                                          !.fresh = (dev[k.device] = ActiveAt(k.version))]]
      BY Zenon, <3>1 DEF Receive, Types
    <3> QED
      BY Zenon, <3>1, <3>2, <3>3 DEF Receive
  <2>2. Tame(k, [k EXCEPT !.pc = "sync", !.op = op, !.fresh = b])
    BY <1>1, <2>1 DEF Tame, Connection, Tail
  <2> HIDE DEF k
  <2> QED
    BY Zenon, <1>1, <2>1, <2>2, TameConnStep DEF k, RInv, RTypes
<1>3. CASE Disconnect(c)
  BY Zenon, <1>1, <1>3, TameEnds, TameConnStep DEF Disconnect, Untrack, RInv, RTypes
<1>4. CASE Detach(c)
  <2>1. /\ Tame(k, [k EXCEPT !.det = FALSE, !.act = FALSE])
        /\ Tame(k, [k EXCEPT !.det = FALSE])
    BY <1>1 DEF Tame, Connection
  <2>2. \/ conn' = [conn EXCEPT ![c] = [k EXCEPT !.det = FALSE, !.act = FALSE]]
        \/ conn' = [conn EXCEPT ![c] = [k EXCEPT !.det = FALSE]]
    BY <1>4 DEF Detach, Untrack, Types
  <2> QED
    BY Zenon, <1>1, <2>1, <2>2, TameConnStep DEF RInv, RTypes
<1> QED
  BY <1>2, <1>3, <1>4

\* A handler that goes on holds a ticket of a device that is not fenced, or still has to
\* assert it; one that stops takes its session back or leaves it to leftover.
LEMMA HandlerIsTame ==
    ASSUME Types, RInv, NEW c \in Conn,
           UseTicket(c) \/ CommitRegistration(c) \/ Activate(c) \/ Acknowledge(c)
    PROVE  RInv'
<1> DEFINE k == conn[c]
<1>1. /\ k \in Connection /\ k.device \in Device
      /\ UNCHANGED <<dev, fence, orphan, run, blocked>>
      /\ snap' = snap \/ snap' = None
  BY Zenon DEF UseTicket, CommitRegistration, Activate, Acknowledge, AssertAgain, CleanUp, Untrack,
         planeVars, Types
<1>2. leftover \subseteq leftover' /\ leftover' \subseteq Device
  BY Zenon, <1>1 DEF UseTicket, CommitRegistration, Activate, Acknowledge, AssertAgain, CleanUp, RInv, RTypes
<1>3. \E l : Tame(k, l) /\ conn' = [conn EXCEPT ![c] = l]
  <2>1. CASE UseTicket(c)
    <3>1. k.pc \notin Tail
      BY <2>1 DEF UseTicket, Tail
    <3>2. CASE ~TicketHolds(k) /\ conn' = [conn EXCEPT ![c] = Ended(k)]
      BY Zenon, <1>1, <3>1, <3>2, TameEnds
    <3>3. CASE conn' = [conn EXCEPT ![c] = [k EXCEPT !.pc = "commit"]]
      <4>1. Tame(k, [k EXCEPT !.pc = "commit"])
        BY <1>1, <3>1 DEF Tame, Connection
      <4> QED
        BY Zenon, <3>3, <4>1
    <3>4. CASE TicketHolds(k) /\ conn' = [conn EXCEPT ![c] =
                   [k EXCEPT !.pc = "open", !.op = "none", !.live = TRUE, !.tick = FALSE,
                             !.fresh = FALSE]]
      <4>1. ~ScopeGone(k)
        BY <3>4 DEF TicketHolds
      <4>2. Tame(k, [k EXCEPT !.pc = "open", !.op = "none", !.live = TRUE, !.tick = FALSE,
                              !.fresh = FALSE])
        BY <1>1, <4>1 DEF Tame, Connection
      <4> QED
        BY Zenon, <3>4, <4>2
    <3> QED
      BY Zenon, <2>1, <3>2, <3>3, <3>4 DEF UseTicket, Untrack
  <2>2. CASE CommitRegistration(c)
    <3>1. CASE conn' = [conn EXCEPT ![c].pc = "stored", ![c].row = TRUE]
      <4>1. conn' = [conn EXCEPT ![c] = [k EXCEPT !.pc = "stored", !.row = TRUE]]
        BY Zenon, <3>1 DEF Types
      <4>2. Tame(k, [k EXCEPT !.pc = "stored", !.row = TRUE])
        BY <1>1 DEF Tame, Connection, Tail
      <4> QED
        BY Zenon, <4>1, <4>2
    <3>2. ASSUME NEW kept \in BOOLEAN, conn' = [conn EXCEPT ![c] = [Ended(k) EXCEPT !.row = kept]],
                 leftover' = leftover \cup {d \in {conn[c].device} : kept}
          PROVE  \E l : Tame(k, l) /\ conn' = [conn EXCEPT ![c] = l]
      <4>1. LET l == [Ended(k) EXCEPT !.row = kept]
            IN  l.device = k.device /\ l.live = FALSE /\ l.row = kept
        <5>1. ASSUME NEW e \in Connection
              PROVE  LET l == [e EXCEPT !.row = kept]
                     IN  l.device = e.device /\ l.live = e.live /\ l.row = kept
          BY DEF Connection
        <5>2. /\ Ended(k) \in Connection
              /\ Ended(k).device = k.device /\ Ended(k).live = FALSE
          BY Zenon, <1>1, EndsTamely, EndsQuietly
        <5> QED
          BY <5>1, <5>2, Zenon
      <4>2. kept => k.device \in leftover'
        BY <3>2
      <4>3. Tame(k, [Ended(k) EXCEPT !.row = kept])
        BY <4>1, <4>2 DEF Tame
      <4> QED
        BY Zenon, <3>2, <4>3
    <3> QED
      BY Zenon, <2>2, <3>1, <3>2 DEF CommitRegistration, Untrack
  <2>3. ASSUME NEW from, NEW to, AssertAgain(c, from, to), Tame(k, to) \/ ~TicketHolds(k)
        PROVE  \E l : Tame(k, l) /\ conn' = [conn EXCEPT ![c] = l]
    <3>1. CASE TicketHolds(k) /\ conn' = [conn EXCEPT ![c] = to]
      BY Zenon, <2>3, <3>1
    <3>2. CASE CleanUp(c)
      <4>1. CASE conn' = [conn EXCEPT ![c] = Ended(Unregistered(k))]
        <5>1. Ended(Unregistered(k)).device = k.device /\ Ended(Unregistered(k)).live = FALSE
              /\ Ended(Unregistered(k)).row = FALSE
          BY ZenonT(60), <1>1, EndsTamely, EndsQuietly
        <5>2. Tame(k, Ended(Unregistered(k)))
          BY <5>1 DEF Tame
        <5> QED
          BY Zenon, <4>1, <5>2
      <4>2. CASE conn' = [conn EXCEPT ![c] = Ended(k)] /\ leftover' = leftover \cup {k.device}
        <5>1. Tame(k, Ended(k))
          BY Zenon, <1>1, <4>2, EndsTamely DEF Tame
        <5> QED
          BY Zenon, <4>2, <5>1
      <4> QED
        BY <3>2, <4>1, <4>2 DEF CleanUp, Untrack
    <3>3. CASE ~ScopeGone(k) /\ conn' = [conn EXCEPT ![c] = Ended(k)]
      <4>1. Tame(k, Ended(k))
        BY Zenon, <1>1, <3>3, EndsTamely DEF Tame
      <4> QED
        BY Zenon, <3>3, <4>1
    <3> QED
      BY <2>3, <3>1, <3>2, <3>3 DEF AssertAgain, Untrack
  <2>4. CASE Activate(c)
    <3>1. Tame(k, [k EXCEPT !.pc = "activated", !.act = TRUE])
      BY <1>1 DEF Tame, Connection, Tail
    <3> QED
      BY <2>3, <2>4, <3>1 DEF Activate
  <2>5. CASE Acknowledge(c)
    <3>1. TicketHolds(k) =>
              Tame(k, [k EXCEPT !.pc = "open", !.op = "none", !.tick = FALSE, !.fresh = FALSE])
      BY <1>1 DEF Tame, Connection, TicketHolds
    <3> QED
      BY <2>3, <2>5, <3>1 DEF Acknowledge
  <2> QED
    BY <2>1, <2>2, <2>4, <2>5
<1> QED
  BY Zenon, <1>1, <1>2, <1>3, TameConnStep

\* A hello or frame is admitted when its device is active in the snapshot: the fence it
\* sets is not one that is up.
LEMMA AdmitIsTame ==
    ASSUME Types, RInv, NEW c \in Conn, Admit(c)
    PROVE  RInv'
<1> DEFINE k == conn[c]
<1>1. /\ k \in Connection /\ k.pc = "admit" /\ k.device \in Device
      /\ UNCHANGED <<dev, orphan, run, blocked, leftover>>
      /\ snap' = snap \/ snap' = None
  BY DEF Admit, Untrack, planeVars, Types
<1>2. CASE /\ ~blocked /\ MatchesSnapshot(k)
           /\ conn' = [conn EXCEPT ![c].pc = "ticket", ![c].tick = TRUE]
           /\ fence' = [fence EXCEPT ![k.device] = ActiveAt(k.version)]
  <2>1. /\ \A x \in Conn : /\ conn'[x].device = conn[x].device /\ conn'[x].live = conn[x].live
                           /\ conn'[x].row = conn[x].row
                           /\ conn[x].pc \in Tail => conn'[x].pc \in Tail
    BY <1>1, <1>2 DEF Types, Connection, Tail
  <2>2. run.pc \notin Prepared \cup {"prepare"}
    BY <1>2 DEF RInv, BlockedInRun
  <2>3. k.device \notin RevokedIn(snap.rows)
    BY <1>2 DEF MatchesSnapshot, RevokedIn, ActiveAt
  <2>4. RTypes' /\ BlockedInRun' /\ RevokedForGood'
    BY <1>1, <1>2 DEF RInv, RTypes, BlockedInRun, RevokedForGood, Rows, ActiveAt, Connection
  <2>5. Fenced'
    BY <1>1, <1>2, <2>2, <2>3 DEF RInv, RTypes, Fenced, Rows, RevokedIn
  <2>6. Progress'
    <3>1. Settled(RevokedIn(snap.rows))
      BY <1>2 DEF RInv, Progress, MatchesSnapshot
    <3>2. snap' # None => Settled(RevokedIn(snap.rows))'
      BY <1>1, <2>1, <3>1 DEF Settled
    <3> QED
      BY <1>1, <2>2, <3>2 DEF Progress, Prepared
  <2> QED
    BY <2>4, <2>5, <2>6 DEF RInv
<1>3. CASE conn' = [conn EXCEPT ![c] = Ended(k)] /\ UNCHANGED fence
  <2>1. Tame(k, Ended(k))
    BY Zenon, <1>1, TameEnds DEF Tail
  <2> QED
    BY Zenon, <1>1, <1>3, <2>1, TameConnStep DEF RInv, RTypes
<1> QED
  BY <1>2, <1>3 DEF Admit, Untrack

\* A slot is taken by a device that is active; what it left registered was of no revoked
\* device, or is known as left over.
LEMMA OpenIsTame ==
    ASSUME Types, RInv, NEW c \in Conn, NEW d \in Device, Open(c, d)
    PROVE  RInv'
<1> DEFINE k == conn[c]
<1>1. /\ k \in Connection /\ k.pc = "none"
      /\ k.row => run.pc # "revoke"
      /\ dev[d].status = "active"
      /\ UNCHANGED <<dev, fence, snap, run, blocked, leftover>>
      /\ orphan' = IF k.row THEN orphan \cup {k.device} ELSE orphan
  BY DEF Open, planeVars, Types
<1>2. /\ conn'[c].device = d
      /\ conn'[c].live = FALSE /\ conn'[c].row = FALSE
      /\ \A x \in Conn : x # c => conn'[x] = conn[x]
  BY DEF Open, Unused, Types
<1>3. RTypes' /\ BlockedInRun' /\ RevokedForGood' /\ Fenced'
  BY <1>1 DEF RInv, RTypes, BlockedInRun, RevokedForGood, Fenced
<1>4. ASSUME NEW D \in SUBSET Device, Settled(D), \A x \in D : dev[x].status = "revoked"
      PROVE  Settled(D)'
  <2>1. d \notin D
    BY <1>1, <1>4
  <2>2. k.row => k.device \notin D \ leftover
    BY <1>1, <1>4 DEF Settled, Tail
  <2> QED
    BY <1>1, <1>2, <1>4, <2>1, <2>2 DEF Settled
<1>5. \A rows : RevokedIn(rows) \in SUBSET Device
  BY DEF RevokedIn
<1>6. run.pc = "revoke" => Listed(RevokedIn(run.rows), run.todo)'
  <2> SUFFICES ASSUME run.pc = "revoke" PROVE Listed(RevokedIn(run.rows), run.todo)'
    OBVIOUS
  <2>1. d \notin RevokedIn(run.rows)
    BY <1>1 DEF RInv, RevokedForGood, Prepared
  <2>2. Listed(RevokedIn(run.rows), run.todo) /\ orphan' = orphan
    BY <1>1 DEF RInv, Progress
  <2> QED
    BY <1>1, <1>2, <2>1, <2>2 DEF Listed
<1>7. run.pc \in {"commit", "commitRows"} => Settled(RevokedIn(run.rows))'
  <2> SUFFICES ASSUME run.pc \in {"commit", "commitRows"} PROVE Settled(RevokedIn(run.rows))'
    OBVIOUS
  <2>1. Settled(RevokedIn(run.rows)) /\ \A x \in RevokedIn(run.rows) : dev[x].status = "revoked"
    BY DEF RInv, Progress, RevokedForGood, Prepared
  <2> QED
    BY <1>1, <1>4, <1>5, <2>1 DEF Settled
<1>8. ~blocked /\ snap # None => Settled(RevokedIn(snap.rows))'
  <2> SUFFICES ASSUME ~blocked, snap # None PROVE Settled(RevokedIn(snap.rows))'
    OBVIOUS
  <2>1. Settled(RevokedIn(snap.rows)) /\ \A x \in RevokedIn(snap.rows) : dev[x].status = "revoked"
    BY DEF RInv, Progress, RevokedForGood
  <2> QED
    BY <1>1, <1>4, <1>5, <2>1 DEF Settled
<1> QED
  BY <1>1, <1>3, <1>6, <1>7, <1>8 DEF RInv, Progress

-----------------------------------------------------------------------------
(* The authority and the synchronization *)

\* A revoked device stays revoked.
LEMMA PlaneIsTame ==
    ASSUME Types, RInv, PlaneNext, UNCHANGED gatewayVars
    PROVE  RInv'
<1>1. \A d \in Device : dev[d].status = "revoked" => dev'[d].status = "revoked"
  BY DEF PlaneNext, mintEnrollmentCode, exchangeEnrollmentCode, exchangeDenied,
         rotateDeviceCredential, revokeDevice, Types, Rows, NoDevice
<1>2. UNCHANGED <<conn, orphan, blocked, fence, snap, run, leftover>>
  BY DEF gatewayVars
<1>3. RevokedForGood'
  BY <1>1, <1>2 DEF RInv, RevokedForGood, RevokedIn
<1>4. RTypes' /\ Fenced' /\ BlockedInRun'
  BY <1>2 DEF RInv, RTypes, Fenced, BlockedInRun
<1>5. Progress'
  BY <1>2 DEF RInv, Progress, Settled, Listed
<1> QED
  BY <1>3, <1>4, <1>5 DEF RInv

\* A synchronization begins, fails, or is given up.
LEMMA ConsumeIsTame ==
    ASSUME Types, RInv, NEW owner \in Conn \cup {None}, Consume(owner)
    PROVE  RInv'
<1>1. /\ UNCHANGED <<dev, fence, orphan, snap, leftover>>
      /\ run.pc = "none" /\ (owner # None => owner \in Conn /\ conn[owner].pc = "sync")
  BY SyncAssumption DEF Consume, planeVars
<1>2. blocked' \in BOOLEAN /\ leftover' \subseteq Device
  BY Zenon, <1>1 DEF Consume, RInv, RTypes
<1>3. RunHolds
  <2>1. [NoRun EXCEPT !.pc = "prepare", !.owner = owner].pc = "prepare"
        /\ [NoRun EXCEPT !.pc = "catch", !.owner = owner].pc = "catch"
    BY DEF NoRun
  <2> QED
    BY Zenon, <2>1 DEF RunHolds, Consume
<1>4. \A c \in Conn : Tame(conn[c], conn'[c])
  <2>1. CASE conn' = Returned(conn, owner)
    <3>1. ASSUME NEW k \in Connection, k.pc = "sync" PROVE Tame(k, [k EXCEPT !.pc = "admit"])
      BY <3>1 DEF Tame, Connection, Tail
    <3>2. CASE owner = None
      BY Zenon, <2>1, <3>2, TameEnds DEF Returned, Types
    <3>3. CASE owner # None
      <4>1. conn' = [conn EXCEPT ![owner] = [conn[owner] EXCEPT !.pc = "admit"]]
        BY <1>1, <2>1, <3>3 DEF Returned, Types
      <4> QED
        BY Zenon, <1>1, <3>1, <3>3, <4>1, TameEnds DEF Types
    <3> QED
      BY <3>2, <3>3
  <2>2. CASE conn' = [c \in Conn |-> [conn[c] EXCEPT !.tick = FALSE]]
    BY <2>2, TameEnds DEF Types
  <2>3. CASE UNCHANGED conn
    BY Zenon, <2>3, TameEnds DEF Types
  <2> QED
    BY <2>1, <2>2, <2>3 DEF Consume
<1> QED
  BY <1>1, <1>2, <1>3, <1>4, TameStep

\* The error path ends connections and blocks the tenant.
LEMMA FailureIsTame ==
    ASSUME IInv, RInv, RunFails \/ Catch
    PROVE  RInv'
<1> Types
  BY DEF IInv
<1>1. CASE RunFails
  <2>1. /\ UNCHANGED <<dev, fence, orphan, snap, leftover, conn, blocked>>
        /\ run' = [run EXCEPT !.pc = "catch"]
    BY <1>1 DEF RunFails, planeVars
  <2>2. RunHolds /\ blocked' \in BOOLEAN /\ leftover' \subseteq Device
    BY <2>1 DEF RunHolds, RInv, RTypes, Types, Run
  <2> QED
    BY Zenon, <2>1, <2>2, TameEnds, TameStep DEF Types
<1>2. CASE Catch
  <2> DEFINE closed == [c \in Conn |-> [CloseForRevocation(conn, Device)[c] EXCEPT !.tick = FALSE]]
  <2>1. /\ UNCHANGED <<dev, fence, orphan, leftover>> /\ blocked' = TRUE /\ run' = NoRun
        /\ snap' = snap \/ snap' = None
        /\ conn' = IF run.owner = None THEN closed ELSE [closed EXCEPT ![run.owner] = Ended(@)]
    BY <1>2 DEF Catch, Untrack, planeVars
  <2>2. RunHolds /\ blocked' \in BOOLEAN /\ leftover' \subseteq Device
    BY <2>1 DEF RunHolds, NoRun, RInv, RTypes
  <2>3. ASSUME NEW c \in Conn
        PROVE  /\ closed[c] \in Connection
               /\ closed[c].device = conn[c].device /\ closed[c].row = conn[c].row
               /\ closed[c].live => conn[c].live
               /\ conn[c].pc \in Tail => closed[c].pc = conn[c].pc
    <3>1. conn[c] \in Connection
      BY DEF Types
    <3>2. PICK l \in Connection :
              /\ l = CloseForRevocation(conn, Device)[c]
              /\ l.device = conn[c].device /\ l.row = conn[c].row
              /\ l.live => conn[c].live
              /\ conn[c].pc \in Tail => l.pc = conn[c].pc
      <4>1. CloseForRevocation(conn, Device)[c] \in {Removed(conn[c]), conn[c]}
        BY DEF CloseForRevocation
      <4> QED
        BY Zenon, <3>1, <4>1, EndsTamely, EndsQuietly DEF Tail
    <3>3. ASSUME NEW e \in Connection
          PROVE  LET m == [e EXCEPT !.tick = FALSE]
                 IN  m \in Connection /\ m.device = e.device /\ m.row = e.row /\ m.live = e.live
                     /\ m.pc = e.pc
      BY Zenon DEF Connection
    <3>4. closed[c] = [l EXCEPT !.tick = FALSE]
      BY <3>2
    <3> HIDE DEF closed
    <3> QED
      BY <3>2, <3>3, <3>4
  <2> HIDE DEF closed
  <2>4. \A c \in Conn : Tame(conn[c], conn'[c])
    <3>1. \A c \in Conn : Tame(conn[c], closed[c])
      BY <2>3 DEF Tame
    <3>2. CASE run.owner = None
      BY <2>1, <3>1, <3>2
    <3>3. CASE run.owner # None
      <4>1. run.owner \in Conn /\ conn[run.owner].pc = "sync"
        BY <1>2, <3>3 DEF IInv, OwnerWaits, Types, Run, Catch
      <4>2. Tame(conn[run.owner], Ended(closed[run.owner]))
        <5>1. /\ Ended(closed[run.owner]).device = conn[run.owner].device
              /\ Ended(closed[run.owner]).live = FALSE
              /\ Ended(closed[run.owner]).row = conn[run.owner].row
          <6>1. PICK e \in Connection : /\ e = closed[run.owner]
                                        /\ e.device = conn[run.owner].device
                                        /\ e.row = conn[run.owner].row
            BY <2>3, <4>1
          <6>2. Ended(e).device = e.device /\ Ended(e).live = FALSE /\ Ended(e).row = e.row
            BY Zenon, EndsTamely
          <6> QED
            BY <6>1, <6>2
        <5> QED
          BY <4>1, <5>1 DEF Tame, Tail
      <4>3. \A c \in Conn : conn'[c] = IF c = run.owner THEN Ended(closed[c]) ELSE closed[c]
        <5>1. conn' = [closed EXCEPT ![run.owner] = Ended(closed[run.owner])]
          BY <2>1, <3>3
        <5>2. DOMAIN closed = Conn
          BY DEF closed
        <5> QED
          BY <4>1, <5>1, <5>2
      <4> QED
        BY <3>1, <4>1, <4>2, <4>3
    <3> QED
      BY <3>2, <3>3
  <2> QED
    BY <2>1, <2>2, <2>4, TameStep
<1> QED
  BY <1>1, <1>2

\* The fences go up before the sessions are listed.
LEMMA PrepareFences ==
    ASSUME Types, RInv, Prepare
    PROVE  RInv'
<1>1. /\ run.pc = "prepare" /\ run'.pc = "list" /\ run'.rows = dev /\ fence' = dev
      /\ UNCHANGED <<dev, conn, orphan, blocked, snap, leftover>>
  BY DEF Prepare, planeVars, Types, Run
<1>2. blocked
  BY <1>1 DEF RInv, BlockedInRun
<1>3. RTypes' /\ BlockedInRun' /\ Progress'
  BY <1>1, <1>2 DEF RInv, RTypes, BlockedInRun, Progress, Types
<1>4. RevokedForGood' /\ Fenced'
  BY <1>1 DEF RInv, RevokedForGood, Fenced, RevokedIn
<1> QED
  BY <1>3, <1>4 DEF RInv

\* The list has every session of a revoked device that no handler holds.
LEMMA ListIsComplete ==
    ASSUME Types, RInv, List
    PROVE  RInv'
<1>1. /\ run.pc = "list" /\ run'.pc = "revoke" /\ run'.rows = run.rows
      /\ run'.todo = (orphan \cap RevokedIn(run.rows)) \cup
                     {c \in Conn : conn[c].row /\ conn[c].device \in RevokedIn(run.rows)}
      /\ leftover' = {}
      /\ UNCHANGED <<dev, fence, conn, orphan, blocked, snap>>
  BY DEF List, planeVars, Types, Run
<1>2. blocked
  BY <1>1 DEF RInv, BlockedInRun, Prepared
<1>3. RTypes' /\ BlockedInRun' /\ RevokedForGood' /\ Fenced'
  BY <1>1, <1>2 DEF RInv, RTypes, BlockedInRun, RevokedForGood, Fenced, RevokedIn, Prepared
<1>4. Listed(RevokedIn(run.rows), run.todo)'
  BY <1>1 DEF Listed
<1> QED
  BY <1>1, <1>2, <1>3, <1>4 DEF RInv, Progress

\* One session after another is taken from the list and from the store.
LEMMA RevokeShortens ==
    ASSUME Types, RInv, NEW x \in run.todo, Revoke(x)
    PROVE  RInv'
<1>1. /\ run.pc = "revoke" /\ run'.pc = "revoke" /\ run'.rows = run.rows
      /\ run'.todo = run.todo \ {x} /\ orphan' = orphan \ {x}
      /\ UNCHANGED <<dev, fence, blocked, leftover>>
      /\ snap' = snap \/ snap' = None
  BY DEF Revoke, Untrack, planeVars, Types, Run
<1>2. \A c \in Conn : /\ conn'[c].device = conn[c].device
                      /\ conn'[c].row => conn[c].row /\ c # x
                      /\ conn'[c].pc = conn[c].pc
  <2>1. CASE x \in Conn
    <3>1. conn' = [conn EXCEPT ![x] = Unregistered(conn[x])]
      BY <2>1 DEF Revoke, Untrack
    <3>2. \A c \in Conn : conn'[c] = IF c = x THEN Unregistered(conn[c]) ELSE conn[c]
      BY <3>1 DEF Types
    <3>3. \A c \in Conn : /\ Unregistered(conn[c]).device = conn[c].device
                          /\ Unregistered(conn[c]).row = FALSE
                          /\ Unregistered(conn[c]).pc = conn[c].pc
      BY Zenon, EndsTamely, EndsQuietly DEF Types
    <3> QED
      BY <3>2, <3>3
  <2>2. CASE x \notin Conn
    BY <2>2 DEF Revoke
  <2> QED
    BY <2>1, <2>2
<1>3. blocked
  BY <1>1 DEF RInv, BlockedInRun, Prepared
<1>4. RTypes' /\ BlockedInRun' /\ RevokedForGood' /\ Fenced'
  <2>1. RTypes' /\ BlockedInRun'
    BY <1>1, <1>3 DEF RInv, RTypes, BlockedInRun
  <2>2. RevokedForGood'
    BY <1>1 DEF RInv, RevokedForGood, RevokedIn, Prepared
  <2>3. Fenced'
    BY <1>1 DEF RInv, Fenced, RevokedIn, Prepared
  <2> QED
    BY <2>1, <2>2, <2>3
<1>5. Listed(RevokedIn(run.rows), run.todo)'
  <2>1. Listed(RevokedIn(run.rows), run.todo) /\ RevokedIn(run.rows)' = RevokedIn(run.rows)
    BY <1>1 DEF RInv, Progress, RevokedIn
  <2> QED
    BY <1>1, <1>2, <2>1 DEF Listed
<1> QED
  BY <1>1, <1>3, <1>4, <1>5 DEF RInv, Progress

\* With the list done, closing the connections leaves nothing.
LEMMA CloseSettles ==
    ASSUME Types, RInv, CloseRevoked
    PROVE  RInv'
<1>1. /\ run.pc = "revoke" /\ run.todo = {} /\ run'.pc = "commit" /\ run'.rows = run.rows
      /\ UNCHANGED <<dev, fence, blocked, leftover, orphan>>
      /\ snap' = snap \/ snap' = None
      /\ conn' = CloseForRevocation(conn, RevokedIn(run.rows))
  BY DEF CloseRevoked, Untrack, planeVars, Types, Run
<1>2. \A c \in Conn : /\ conn'[c].device = conn[c].device
                      /\ conn'[c].row = conn[c].row
                      /\ conn[c].pc \in Tail => conn'[c].pc \in Tail
                      /\ conn[c].device \in RevokedIn(run.rows) => ~conn'[c].live
  BY Zenon, <1>1, EndsTamely DEF CloseForRevocation, Types, Tail
<1>3. blocked
  BY <1>1 DEF RInv, BlockedInRun, Prepared
<1>4. RTypes' /\ BlockedInRun' /\ RevokedForGood' /\ Fenced'
  <2>1. RTypes' /\ BlockedInRun'
    BY <1>1, <1>3 DEF RInv, RTypes, BlockedInRun
  <2>2. RevokedForGood'
    BY <1>1 DEF RInv, RevokedForGood, RevokedIn, Prepared
  <2>3. Fenced'
    BY <1>1 DEF RInv, Fenced, RevokedIn, Prepared
  <2> QED
    BY <2>1, <2>2, <2>3
<1>5. Settled(RevokedIn(run.rows))'
  <2>1. Listed(RevokedIn(run.rows), {}) /\ RevokedIn(run.rows)' = RevokedIn(run.rows)
    BY <1>1 DEF RInv, Progress, RevokedIn
  <2> SUFFICES ASSUME NEW d \in RevokedIn(run.rows) \ leftover
               PROVE  /\ d \notin orphan'
                      /\ \A c \in Conn : conn'[c].device = d =>
                             ~conn'[c].live /\ (conn'[c].row => conn'[c].pc \in Tail)
    BY <1>1, <2>1 DEF Settled
  <2>2. d \notin orphan
    BY <2>1 DEF Listed
  <2>3. \A c \in Conn : conn[c].device = d /\ conn[c].row => conn[c].pc \in Tail
    BY <2>1 DEF Listed
  <2> QED
    BY <1>1, <1>2, <2>2, <2>3
<1> QED
  BY <1>1, <1>3, <1>4, <1>5 DEF RInv, Progress

\* The rows that are cached are those whose devices are settled.
LEMMA CommitSettles ==
    ASSUME IInv, RInv, CommitHead \/ CommitRows
    PROVE  RInv'
<1> Types
  BY DEF IInv
<1>1. CASE CommitHead
  <2>1. /\ run.pc = "commit" /\ run'.pc = "commitRows" /\ run'.rows = run.rows
        /\ UNCHANGED <<dev, fence, blocked, leftover, orphan, snap, conn>>
    BY <1>1 DEF CommitHead, planeVars, Types, Run
  <2>2. RTypes' /\ BlockedInRun' /\ RevokedForGood' /\ Fenced'
    <3>1. RTypes' /\ BlockedInRun'
      BY <2>1 DEF RInv, RTypes, BlockedInRun, Prepared
    <3>2. RevokedForGood'
      BY <2>1 DEF RInv, RevokedForGood, RevokedIn, Prepared
    <3>3. Fenced'
      BY <2>1 DEF RInv, Fenced, RevokedIn, Prepared
    <3> QED
      BY <3>1, <3>2, <3>3
  <2>3. Progress'
    BY <2>1 DEF RInv, Progress, Settled
  <2> QED
    BY <2>2, <2>3 DEF RInv
<1>2. CASE /\ run.pc = "commitRows" /\ run' = [run EXCEPT !.pc = "catch"]
           /\ UNCHANGED <<conn, snap, blocked, dev, fence, orphan, leftover>>
  <2>1. RunHolds /\ blocked' \in BOOLEAN /\ leftover' \subseteq Device
    BY <1>2 DEF RunHolds, RInv, RTypes, Types, Run
  <2> QED
    BY Zenon, <1>2, <2>1, TameEnds, TameStep DEF Types
<1>3. CASE /\ run.pc = "commitRows" /\ run' = NoRun /\ blocked' = FALSE
           /\ snap' = [head |-> run.head, rows |-> run.rows]
           /\ conn' = Returned(conn, run.owner)
           /\ UNCHANGED <<dev, fence, orphan, leftover>>
  <2>1. run'.pc = "none" /\ snap'.rows = run.rows
    BY <1>3 DEF NoRun
  <2>2. \A c \in Conn : /\ conn'[c].device = conn[c].device /\ conn'[c].live = conn[c].live
                        /\ conn'[c].row = conn[c].row
                        /\ conn[c].pc \in Tail => conn'[c].pc \in Tail
    BY <1>3 DEF Returned, IInv, OwnerWaits, Types, Connection, Tail, Run
  <2>3. RTypes' /\ BlockedInRun' /\ RevokedForGood' /\ Fenced'
    BY Zenon, <1>3, <2>1 DEF RInv, RTypes, BlockedInRun, RevokedForGood, Fenced, RevokedIn, Prepared
  <2>4. Settled(RevokedIn(run.rows))
    BY <1>3 DEF RInv, Progress
  <2>5. Settled(RevokedIn(snap.rows))'
    BY <1>3, <2>1, <2>2, <2>4 DEF Settled
  <2> QED
    BY <2>1, <2>3, <2>5 DEF RInv, Progress
<1> QED
  BY Zenon, <1>1, <1>2, <1>3 DEF CommitRows, planeVars

\* After a restart nothing is remembered.
LEMMA RestartForgets ==
    ASSUME RInv, Restart
    PROVE  RInv'
<1>1. snap' = None /\ run'.pc = "none" /\ leftover' = leftover /\ blocked' = FALSE
  BY DEF Restart, NoRun
<1>2. fence' \in Rows
  BY DEF Restart, Rows, NoDevice
<1> QED
  BY Zenon, <1>1, <1>2 DEF RInv, RTypes, RevokedForGood, Fenced, BlockedInRun, Progress, Prepared

-----------------------------------------------------------------------------
(* The theorem *)

\* The invariant holds at the start, ...
LEMMA InitSettled == Init => RInv
<1> SUFFICES ASSUME Init PROVE RInv
  OBVIOUS
<1>1. snap = None /\ run.pc = "none" /\ leftover = {} /\ blocked = FALSE
  BY DEF Init, NoRun
<1>2. fence \in Rows
  BY DEF Init, Rows, NoDevice
<1> QED
  BY Zenon, <1>1, <1>2 DEF RInv, RTypes, RevokedForGood, Fenced, BlockedInRun, Progress, Prepared

\* ... is kept by every step from a state in which what is cached is sound, ...
LEMMA NextSettled == IInv /\ RInv /\ [Next]_vars => RInv'
<1> SUFFICES ASSUME IInv, RInv, [Next]_vars PROVE RInv'
  OBVIOUS
<1> Types
  BY DEF IInv
<1>1. CASE UNCHANGED vars
  <2>1. UNCHANGED <<dev, conn, orphan, blocked, fence, snap, run, leftover>>
    BY <1>1 DEF vars, planeVars, gatewayVars
  <2> QED
    BY <2>1 DEF RInv, RTypes, RevokedForGood, Fenced, BlockedInRun, Progress, Settled, Listed
<1>2. CASE PlaneNext /\ UNCHANGED gatewayVars
  BY <1>2, PlaneIsTame
<1>3. CASE Synchronize
  BY <1>3, PrepareFences, ListIsComplete, RevokeShortens, CloseSettles, CommitSettles, FailureIsTame
     DEF Synchronize
<1>4. CASE RunFails \/ Restart
  BY <1>4, FailureIsTame, RestartForgets
<1>5. CASE \E o \in Conn \cup {None} : Consume(o)
  BY <1>5, ConsumeIsTame
<1>6. ASSUME NEW c \in Conn,
             \/ \E d \in Device : Open(c, d)
             \/ \E op \in {"message", "register"} : Receive(c, op)
             \/ Handle(c) \/ Disconnect(c) \/ Detach(c)
      PROVE  RInv'
  BY <1>6, OpenIsTame, AdmitIsTame, HandlerIsTame, LossIsTame DEF Handle
<1> QED
  BY <1>1, <1>2, <1>3, <1>4, <1>5, <1>6 DEF Next

\* When a synchronization has taken in that a device is revoked, nothing of it is left
\* connected or registered (synchronizeIdentityRevocations, #register), but for what a failed
\* cleanup left: for any devices, connections, interleaving and faults.
THEOREM NothingOfRevoked == Spec => []RevokedLeavesNothing
<1>1. RInv => RevokedLeavesNothing
  BY DEF RInv, Progress, Settled, RevokedLeavesNothing, HoldsSessionTail, Tail
<1> QED
  BY <1>1, Inductive, InitSettled, NextSettled, PTL DEF Spec
=============================================================================
