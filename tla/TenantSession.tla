---------------------------- MODULE TenantSession ----------------------------
(***************************************************************************)
(* Which schema a statement of a request works in. Every tenant has a      *)
(* schema, tables are named without it, and search_path decides. It is a   *)
(* setting of a database connection; a request has a session, which takes  *)
(* a connection from the pool of its process for a transaction and gives   *)
(* it back when the transaction ends.                                      *)
(***************************************************************************)
EXTENDS Naturals, Sequences

CONSTANTS
  Schema,       \* the tenants' schemas
  Public,       \* the path of a new connection and of exempt routes
  Session,      \* sessions of one process that can be open together
  Conn,         \* connections the pool may have open (30 in the code)
  Keep,         \* connections it keeps (pool_size, 10 in the code)
  NoSchema, NoConn

Path == Schema \union {Public}

VARIABLES
  home,         \* the schema a session was opened for, NoSchema when closed
  conn,         \* the connection of its transaction
  idle,         \* the pool's queue
  path,         \* search_path of a connection as its transaction sees it
  saved,        \* what a rollback makes of it
  sure,         \* (history) sessions that have set the path in this transaction
  overlapped,   \* (history) two sessions were open at once
  dropped       \* (history) a connection broke, or a session went on after rollback()

pool == <<conn, idle, path, saved>>
vars == <<home, pool, sure, overlapped, dropped>>

TypeOK ==
  /\ home \in [Session -> Path \union {NoSchema}]
  /\ conn \in [Session -> Conn \union {NoConn}]
  /\ idle \in Seq(Conn)
  /\ path \in [Conn -> Path]
  /\ saved \in [Conn -> Path]
  /\ sure \subseteq Session
  /\ overlapped \in BOOLEAN
  /\ dropped \in BOOLEAN

Init ==
  /\ home = [s \in Session |-> NoSchema]
  /\ conn = [s \in Session |-> NoConn]
  /\ idle = <<>>
  /\ path = [c \in Conn |-> Public]
  /\ saved = [c \in Conn |-> Public]
  /\ sure = {}
  /\ overlapped = FALSE
  /\ dropped = FALSE

IsOpen(s) == home[s] # NoSchema

Held == {conn[s] : s \in Session}

\* The pool's queue is first in, first out; an empty one opens a connection.
Checkout(s, c) ==
  /\ conn[s] = NoConn
  /\ IF idle = <<>> THEN c \notin Held ELSE c = Head(idle)
  /\ conn' = [conn EXCEPT ![s] = c]
  /\ idle' = IF idle = <<>> THEN <<>> ELSE Tail(idle)

\* pool_pre_ping replaces a connection that does not answer by a new one.
Finds(c, p) ==
  \/ p = path[c] /\ UNCHANGED dropped
  \/ p = Public /\ idle # <<>> /\ dropped' = TRUE

Becomes(c, now, kept) ==
  /\ path' = [path EXCEPT ![c] = now]
  /\ saved' = [saved EXCEPT ![c] = kept]

\* A connection comes back with the path p; one too many is closed.
GiveBack(s, p) ==
  LET c == conn[s] IN
  /\ conn' = [conn EXCEPT ![s] = NoConn]
  /\ IF Len(idle) < Keep THEN idle' = Append(idle, c) /\ Becomes(c, p, p)
                         ELSE idle' = idle /\ Becomes(c, Public, Public)

-----------------------------------------------------------------------------
\* async with AsyncSessionLocal(): the first statement sets the path.
Open(s, t, c) ==
  /\ ~IsOpen(s)
  /\ home' = [home EXCEPT ![s] = t]
  /\ Checkout(s, c)
  /\ \E p \in Path : Finds(c, p) /\ Becomes(c, t, p)
  /\ sure' = sure \union {s}
  /\ overlapped' = (overlapped \/ \E r \in Session : IsOpen(r))

\* The first statement after a commit takes a connection, and nobody sets the path.
Resume(s, c) ==
  /\ IsOpen(s)
  /\ Checkout(s, c)
  /\ \E p \in Path : Finds(c, p) /\ Becomes(c, p, p)
  /\ UNCHANGED <<home, sure, overlapped>>

\* _seed_tenant_schema sets the path once more, to another schema.
SetAgain(s, t) ==
  /\ IsOpen(s) /\ conn[s] # NoConn
  /\ home' = [home EXCEPT ![s] = t]
  /\ path' = [path EXCEPT ![conn[s]] = t]
  /\ sure' = sure \union {s}
  /\ UNCHANGED <<conn, idle, saved, overlapped, dropped>>

\* A commit keeps the path the transaction has set and returns the connection.
Commit(s) ==
  /\ conn[s] # NoConn
  /\ GiveBack(s, path[conn[s]])
  /\ sure' = sure \ {s}
  /\ UNCHANGED <<home, overlapped, dropped>>

\* rollback() in the middle: the path is again what it was.
RollBack(s) ==
  /\ conn[s] # NoConn
  /\ GiveBack(s, saved[conn[s]])
  /\ sure' = sure \ {s}
  /\ dropped' = TRUE
  /\ UNCHANGED <<home, overlapped>>

\* The end of a session rolls back what is open.
Close(s) ==
  /\ IsOpen(s)
  /\ home' = [home EXCEPT ![s] = NoSchema]
  /\ \/ conn[s] # NoConn /\ GiveBack(s, saved[conn[s]])
     \/ conn[s] = NoConn /\ UNCHANGED pool
  /\ sure' = sure \ {s}
  /\ UNCHANGED <<overlapped, dropped>>

Next ==
  \E s \in Session :
    \/ \E t \in Path, c \in Conn : Open(s, t, c)
    \/ \E c \in Conn : Resume(s, c)
    \/ \E t \in Path : SetAgain(s, t)
    \/ Commit(s) \/ RollBack(s) \/ Close(s)

Spec == Init /\ [][Next]_vars

-----------------------------------------------------------------------------
At(s) == path[conn[s]] = home[s]

\* Every transaction of a request works in the schema of its tenant: the
\* docstrings of api/deps.py, and what the services rely on when they read a row
\* again after their commit. (Connections that break and rollbacks set apart.)
LockedToTenant == dropped \/ \A s \in Session : conn[s] # NoConn => At(s)

\* The transaction that has set the path works in its tenant's schema, whatever
\* its connection was used for before and whatever the other sessions do.
FirstTransactionIsHome == \A s \in sure : conn[s] # NoConn /\ At(s)

\* As long as a process has served one session at a time, commits in the middle
\* of a request do no harm: which is why a test of one request does not show it.
AloneStaysHome == overlapped \/ LockedToTenant
=============================================================================
