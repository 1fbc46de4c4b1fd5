---------------------------- MODULE ConnectionPool ----------------------------
(***************************************************************************)
(* How the repositories reach MySQL: the pool that all threads share       *)
(* (app/repositories/db_pool.py) and the statements that                   *)
(* MySQLBaseRepository runs over a borrowed connection                     *)
(* (app/repositories/mysql_base.py).                                       *)
(*                                                                         *)
(* Connections do not commit by themselves.  A query commits nothing and   *)
(* rolls nothing back, and a write whose rollback fails, or that fails     *)
(* with anything but an Error of the connector, leaves its transaction     *)
(* open: only the reset on return keeps it from the next borrower.         *)
(***************************************************************************)
EXTENDS Integers, FiniteSets

CONSTANTS
  Threads,         \* of the event loop and of its executor
  PoolSize,        \* DB_POOL_SIZE
  BatchSize,       \* writes of the largest transaction
  MaxStatements, MaxPools   \* bounds

ASSUME PoolAssumption ==
  /\ 0 \notin Threads
  /\ PoolSize \in Nat /\ BatchSize \in Nat
  /\ MaxStatements \in Nat /\ MaxPools \in Nat

VARIABLES
  allow,        \* ALLOW_DB_FAILURE
  pool,         \* DatabasePool._pool: the number of a pool, 0 for None
  initialized,  \* DatabasePool._initialized
  keeper,       \* the thread that holds DatabasePool._lock, 0 for none
  handle,       \* the module's _db_pool is set
  free,         \* the connections in the queue of each pool
  session,      \* what the server keeps for each connection
  running,      \* what each thread does
  table,        \* the writes that are committed: <<statement, number>>
  statements, pools, closings,   \* how many so far
  withheld      \* for the properties only: statements that raised or did
                \* nothing, and never asked to commit

poolVars == <<allow, pool, initialized, keeper, handle, free, session, running, table,
              statements, pools, closings, withheld>>

Connections == (1..MaxPools) \X (1..PoolSize)
Writes      == (1..MaxStatements) \X (1..BatchSize)
NoCnx       == <<0, 0>>

(* A transaction: what was written in it, and the snapshot that its first  *)
(* query took (REPEATABLE READ).                                           *)
NewSession == [writes |-> {}, reading |-> FALSE, view |-> {}]

(* A statement of size 0 is a query; of more, that many writes. *)
Begun(st, id, size, before) ==
  [st |-> st, id |-> id, size |-> size, done |-> 0, cnx |-> NoCnx,
   before |-> before, saw |-> {}, answered |-> FALSE]

Rest == Begun("idle", 0, 0, {})

WritesOf(w) == {w.id} \X (1..w.size)

PoolInit ==
  /\ allow \in BOOLEAN
  /\ pool = 0 /\ initialized = FALSE /\ keeper = 0 /\ handle = FALSE
  /\ free = [g \in 1..MaxPools |-> {}]
  /\ session = [x \in Connections |-> NewSession]
  /\ running = [t \in Threads |-> Rest]
  /\ table = {} /\ statements = 0 /\ pools = 0 /\ closings = 0
  /\ withheld = {}

singleton == <<pool, initialized, keeper, handle, pools, closings>>
server    == <<free, session, table>>

Turned(t, st) == running' = [running EXCEPT ![t].st = st]

(***************************************************************************)
(* The singleton.                                                          *)
(***************************************************************************)
(* A request makes its repository, or uses one that is older. *)
StartStatement(t, size) ==
  /\ running[t].st = "idle" /\ statements < MaxStatements
  /\ statements' = statements + 1
  /\ \E st \in {"asking"} \cup (IF handle THEN {} ELSE {"constructing"}) :
       running' = [running EXCEPT ![t] = Begun(st, statements + 1, size, table)]
  /\ UNCHANGED <<allow, singleton, server, withheld>>

(* DatabasePool.__init__ looks at _initialized before and after it waits   *)
(* for the lock.                                                           *)
CheckInitialized(t) ==
  /\ running[t].st = "constructing"
  /\ IF initialized THEN Turned(t, "asking") /\ handle' = TRUE
                    ELSE Turned(t, "waiting") /\ UNCHANGED handle
  /\ UNCHANGED <<allow, pool, initialized, keeper, pools, closings, server, statements, withheld>>

EnterLock(t) ==
  /\ running[t].st = "waiting" /\ keeper = 0
  /\ keeper' = t /\ Turned(t, "inside")
  /\ UNCHANGED <<allow, pool, initialized, handle, pools, closings, server, statements, withheld>>

Withhold(t) == withheld' = withheld \cup {running[t].id}
DoNothing(t) == running' = [running EXCEPT ![t] = Rest] /\ Withhold(t)

(* DatabasePool._create_pool, after the second look. *)
CreatePool(t) ==
  /\ running[t].st = "inside"
  /\ \/ /\ initialized /\ Turned(t, "created")
        /\ UNCHANGED <<pool, pools, free, keeper, withheld>>
     \/ /\ ~initialized /\ pools < MaxPools
        /\ pool' = pools + 1 /\ pools' = pools + 1
        /\ free' = [free EXCEPT ![pools + 1] = {pools + 1} \X (1..PoolSize)]
        /\ Turned(t, "created") /\ UNCHANGED <<keeper, withheld>>
     \/ /\ ~initialized /\ allow       \* MySQL does not answer
        /\ pool' = 0 /\ Turned(t, "created") /\ UNCHANGED <<pools, free, keeper, withheld>>
     \/ /\ ~initialized /\ ~allow
        /\ keeper' = 0 /\ DoNothing(t) /\ UNCHANGED <<pool, pools, free>>
  /\ UNCHANGED <<allow, initialized, handle, closings, session, table, statements>>

LeaveLock(t) ==
  /\ running[t].st = "created"
  /\ initialized' = TRUE /\ keeper' = 0 /\ handle' = TRUE
  /\ Turned(t, "asking")
  /\ UNCHANGED <<allow, pool, pools, closings, server, statements, withheld>>

(* close_db_pool, at shutdown.  Connections that are out are not waited    *)
(* for; a request that comes later makes a new pool.                       *)
ClosePool ==
  /\ handle /\ keeper = 0
  /\ pool' = 0 /\ initialized' = FALSE /\ handle' = FALSE /\ closings' = closings + 1
  /\ UNCHANGED <<allow, keeper, pools, server, running, statements, withheld>>

(***************************************************************************)
(* A statement.                                                            *)
(***************************************************************************)
(* Without a connection (no pool, or its queue is empty) a statement       *)
(* raises, or answers 0 or nothing when failures are allowed.              *)
NoConnection(t) ==
  /\ running[t].st = "asking"
  /\ pool # 0 => free[pool] = {}
  /\ DoNothing(t)
  /\ UNCHANGED <<allow, singleton, server, statements>>

(* The connector reconnects a connection that is lost. *)
Borrow(t) ==
  /\ running[t].st = "asking" /\ pool # 0
  /\ \E x \in free[pool] :
       /\ free' = [free EXCEPT ![pool] = @ \ {x}]
       /\ running' = [running EXCEPT ![t].st = "holding", ![t].cnx = x]
  /\ UNCHANGED <<allow, singleton, session, table, statements, withheld>>

Query(t) ==
  LET x == running[t].cnx
      view == IF session[x].reading THEN session[x].view ELSE table
  IN /\ running[t].st = "holding" /\ running[t].size = 0
     /\ session' = [session EXCEPT ![x].reading = TRUE, ![x].view = view]
     /\ running' = [running EXCEPT ![t].st = "returning", ![t].saw = view, ![t].answered = TRUE]
     /\ UNCHANGED <<allow, singleton, free, table, statements, withheld>>

Write(t) ==
  LET w == running[t] IN
  /\ w.st = "holding" /\ w.done < w.size
  /\ session' = [session EXCEPT ![w.cnx].writes = @ \cup {<<w.id, w.done + 1>>}]
  /\ running' = [running EXCEPT ![t].done = @ + 1]
  /\ UNCHANGED <<allow, singleton, free, table, statements, withheld>>

(* The answer to a commit may be lost, before the server acts or after. *)
Commit(t) ==
  LET w == running[t]
      clears == session' = [session EXCEPT ![w.cnx] = NewSession]
  IN /\ w.st = "holding" /\ 0 < w.size /\ w.done = w.size
     /\ \/ /\ table' = table \cup session[w.cnx].writes /\ clears
           /\ running' = [running EXCEPT ![t].st = "returning", ![t].answered = TRUE]
        \/ /\ table' = table \cup session[w.cnx].writes /\ clears
           /\ Turned(t, "failed")
        \/ Turned(t, "failed") /\ UNCHANGED <<table, session>>
     /\ UNCHANGED <<allow, singleton, free, statements, withheld>>

(* A statement that fails: with an Error, after which a write is rolled    *)
(* back, or with anything else.                                            *)
StatementFails(t) ==
  /\ running[t].st = "holding"
  /\ \E st \in {"returning"} \cup (IF running[t].size > 0 THEN {"failed"} ELSE {}) : Turned(t, st)
  /\ Withhold(t)
  /\ UNCHANGED <<allow, singleton, server, statements>>

(* A rollback that fails is passed over. *)
Rollback(t) ==
  /\ running[t].st = "failed" /\ Turned(t, "returning")
  /\ \/ session' = [session EXCEPT ![running[t].cnx] = NewSession]
     \/ UNCHANGED session
  /\ UNCHANGED <<allow, singleton, free, table, statements, withheld>>

(* Mutant: connections are put back as they are (pool_reset_session). *)
PlainReturn(t) ==
  LET x == running[t].cnx IN
  /\ running[t].st = "returning"
  /\ free' = [free EXCEPT ![x[1]] = @ \cup {x}]
  /\ running' = [running EXCEPT ![t] = Rest]
  /\ UNCHANGED <<allow, singleton, session, table, statements, withheld>>

(* The finally of every statement: the session is reset, and the           *)
(* connection goes to the queue that it came from.                         *)
ReturnConnection(t) ==
  LET x == running[t].cnx IN
  /\ running[t].st = "returning"
  /\ session' = [session EXCEPT ![x] = NewSession]
  /\ free' = [free EXCEPT ![x[1]] = @ \cup {x}]
  /\ running' = [running EXCEPT ![t] = Rest]
  /\ UNCHANGED <<allow, singleton, table, statements, withheld>>

Statement(t) ==
  \/ \E size \in 0..BatchSize : StartStatement(t, size)
  \/ CheckInitialized(t) \/ EnterLock(t) \/ CreatePool(t) \/ LeaveLock(t)
  \/ NoConnection(t) \/ Borrow(t) \/ Query(t) \/ Write(t) \/ Commit(t)
  \/ StatementFails(t) \/ Rollback(t) \/ ReturnConnection(t)

PoolNext == ClosePool \/ \E t \in Threads : Statement(t)

PoolSpec == PoolInit /\ [][PoolNext]_poolVars

(***************************************************************************)
(* Properties.                                                             *)
(***************************************************************************)
PoolTypeOK ==
  /\ allow \in BOOLEAN /\ initialized \in BOOLEAN /\ handle \in BOOLEAN
  /\ pool \in 0..MaxPools /\ pools \in 0..MaxPools /\ keeper \in Threads \cup {0}
  /\ statements \in 0..MaxStatements /\ closings \in Nat
  /\ free \in [1..MaxPools -> SUBSET Connections]
  /\ session \in [Connections -> [writes : SUBSET Writes, reading : BOOLEAN, view : SUBSET Writes]]
  /\ running \in [Threads -> [st : {"idle", "constructing", "waiting", "inside", "created", "asking",
                                 "holding", "failed", "returning"},
                           id : 0..MaxStatements, size : 0..BatchSize, done : 0..BatchSize,
                           cnx : Connections \cup {NoCnx},
                           before : SUBSET Writes, saw : SUBSET Writes, answered : BOOLEAN]]
  /\ table \in SUBSET Writes
  /\ withheld \subseteq 1..MaxStatements

Out(t) == running[t].st \in {"holding", "failed", "returning"}

(* A connection is with one thread or in its queue, whatever failed and    *)
(* whenever the pool was closed: none is lost and none is shared.          *)
NoneIsLost ==
  \A x \in Connections : x[1] <= pools =>
    /\ x \in free[x[1]] <=> \A t \in Threads : Out(t) => running[t].cnx # x
    /\ \A s, t \in Threads : Out(s) /\ Out(t) /\ running[s].cnx = x /\ running[t].cnx = x => s = t

(* What a borrower finds holds nothing of the one before. *)
NothingIsLeft == \A g \in 1..MaxPools : \A x \in free[g] : session[x] = NewSession

(* A transaction is in the table with all its writes or with none; a       *)
(* statement that answered is there, and one that raised without having    *)
(* asked to commit never will be.                                          *)
AllOrNothing ==
  /\ \A t \in Threads : WritesOf(running[t]) \subseteq table \/ WritesOf(running[t]) \cap table = {}
  /\ \A t \in Threads : running[t].answered => WritesOf(running[t]) \subseteq table
  /\ \A w \in table : w[1] \notin withheld

(* A query sees everything that was committed before it was called. *)
ReadsAreFresh ==
  \A t \in Threads : running[t].size = 0 /\ running[t].answered => running[t].before \subseteq running[t].saw

(* Requests that come at once make one pool, not one each. *)
OnePool == pools <= closings + 1

(* What a repository counts on when it runs a statement. *)
StatementsHold == NoneIsLost /\ NothingIsLeft /\ AllOrNothing /\ ReadsAreFresh /\ OnePool
=============================================================================
