--------------------------- MODULE OptimisticBoard ---------------------------
(***************************************************************************)
(* A page that shows a list of the server and changes it before the server *)
(* has agreed: the deals board, content ideas and optimization rules. One  *)
(* entry of the query cache, the fetch that fills it and the requests that *)
(* are under way, which may overlap and be answered in any order. A row is *)
(* in one of a few states, deleted among them, and the server may refuse   *)
(* any change, so that more is possible here than at the real pages.       *)
(***************************************************************************)
CONSTANTS
  Card,         \* rows of the list
  Value,        \* what a row can be: the stage of a deal, a switch, deleted
  Call,         \* requests that may be under way at once
  NoBoard, NoFetch, NoCall

VARIABLES
  server,       \* the rows in the database
  cache,        \* the data of the query, NoBoard before the first answer
  stale,        \* isInvalidated
  mounted,      \* the page is on the screen
  fetch,        \* the GET under way
  call,         \* the changes under way
  tangled,      \* (history) rows the screen may show wrongly, see ShowsServer
  last          \* (history) how the last request ended, or that others wrote since

vars == <<server, cache, stale, mounted, fetch, call, tangled, last>>

Board == [Card -> Value]

\* move: moveMutation and the deletions of ideas and rules; toggle: the switch of
\* a rule, whose success does not read the list again; save: the dialogs, which
\* show nothing in advance.
Op == {"move", "toggle", "save"}
Optimistic == {"move", "toggle"}
Refreshing == {"move", "save"}

Request ==
  [committed : BOOLEAN, op : Op, card : Card, value : Value,
   previous : Board \union {NoBoard},   \* what onMutate returned
   amid : SUBSET Card]                  \* (history) rows that changed since

\* A GET has its answer as soon as the server has read the rows.
Reading == [board : Board \union {NoBoard}, tangled : SUBSET Card]

\* "None" is no value of its kind.
ASSUME BoardAssumption ==
  NoBoard \notin Board /\ NoFetch \notin Reading /\ NoCall \notin Request

\* The variables hold values of their types, and a request that has changed the
\* screen (onMutate) has the snapshot onError needs.
TypeOK ==
  /\ server \in Board
  /\ cache \in Board \union {NoBoard}
  /\ stale \in BOOLEAN
  /\ mounted \in BOOLEAN
  /\ fetch \in {NoFetch} \union Reading
  /\ call \in [Call -> {NoCall} \union Request]
  /\ \A k \in Call : call[k] # NoCall =>
       (call[k].previous # NoBoard <=> call[k].op \in Optimistic)
  /\ tangled \subseteq Card
  /\ last \in {"nothing", "success", "joined", "kept", "failure", "foreign"}

Init ==
  /\ server \in Board
  /\ cache = NoBoard
  /\ stale = FALSE
  /\ mounted = FALSE
  /\ fetch = NoFetch
  /\ call = [k \in Call |-> NoCall]
  /\ tangled = {}
  /\ last = "nothing"

Flying == {k \in Call : call[k] # NoCall}

\* The requests that may put a snapshot back.
Armed == {k \in Flying : call[k].previous # NoBoard}

Unread == [board |-> NoBoard, tangled |-> {}]

HasRead == fetch # NoFetch /\ fetch.board # NoBoard

Differ(b, d) == {c \in Card : b[c] # d[c]}

\* The calls, after the snapshots of K have been overtaken in the rows C.
Overtaken(K, C) ==
  [k \in Call |-> IF k \in K THEN [call[k] EXCEPT !.amid = @ \union C] ELSE call[k]]

\* The same, when b has replaced what is on the screen.
Replaced(K, b) ==
  [k \in Call |->
     IF k \in K THEN [call[k] EXCEPT !.amid = @ \union Differ(call[k].previous, b)] ELSE call[k]]

-----------------------------------------------------------------------------
(* The query.                                                               *)

\* useQuery on mount: a fetch when there is no data, when it is invalidated or
\* older than staleTime; a fetch under way is joined.
Visit ==
  /\ ~mounted
  /\ mounted' = TRUE
  /\ \/ fetch # NoFetch /\ UNCHANGED fetch
     \/ fetch = NoFetch /\ fetch' = Unread
     \/ fetch = NoFetch /\ cache # NoBoard /\ ~stale /\ UNCHANGED fetch
  /\ UNCHANGED <<server, cache, stale, call, tangled, last>>

Leave ==
  /\ mounted
  /\ mounted' = FALSE
  /\ UNCHANGED <<server, cache, stale, fetch, call, tangled, last>>

\* The server answers the GET with what it has now.
Read ==
  /\ fetch # NoFetch /\ ~HasRead
  /\ fetch' = [fetch EXCEPT !.board = server]
  /\ UNCHANGED <<server, cache, stale, mounted, call, tangled, last>>

Arrive ==
  /\ HasRead
  /\ cache' = fetch.board
  /\ stale' = FALSE
  /\ tangled' = fetch.tangled
  /\ call' = Replaced(Armed, fetch.board)
  /\ fetch' = NoFetch
  /\ UNCHANGED <<server, mounted, last>>

\* After its retries; the data of before stays on the screen.
FetchFails ==
  /\ fetch # NoFetch
  /\ fetch' = NoFetch
  /\ UNCHANGED <<server, cache, stale, mounted, call, tangled, last>>

\* Rows that changed after the fetch under way had read them.
TooEarly(C) == IF HasRead THEN [fetch EXCEPT !.tangled = @ \union C] ELSE fetch

-----------------------------------------------------------------------------
(* A change.                                                                *)

\* Faulty variant: onMutate returns no snapshot.
Mutate_NoSnapshot(k, op, c, v) ==
  /\ mounted /\ call[k] = NoCall /\ op \in Optimistic
  /\ cache # NoBoard /\ cache[c] # v
  /\ fetch' = NoFetch
  /\ cache' = [cache EXCEPT ![c] = v]
  /\ stale' = FALSE
  /\ call' = [call EXCEPT ![k] = [committed |-> FALSE, op |-> op, card |-> c, value |-> v,
                                  previous |-> NoBoard, amid |-> {}]]
  /\ UNCHANGED <<server, mounted, tangled, last>>

\* The user drags a card or throws a switch: onMutate drops the fetch under way,
\* keeps a snapshot and shows the change.
Mutate(k, op, c, v) ==
  /\ mounted /\ call[k] = NoCall /\ op \in Optimistic
  /\ cache # NoBoard /\ cache[c] # v
  /\ fetch' = NoFetch
  /\ cache' = [cache EXCEPT ![c] = v]
  /\ stale' = FALSE
  /\ call' = [Overtaken(Armed, {c}) EXCEPT
                ![k] = [committed |-> FALSE, op |-> op, card |-> c, value |-> v,
                        previous |-> cache, amid |-> {}]]
  /\ UNCHANGED <<server, mounted, tangled, last>>

\* The user saves a dialog.
Submit(k, c, v) ==
  /\ mounted /\ call[k] = NoCall
  /\ call' = [call EXCEPT ![k] = [committed |-> FALSE, op |-> "save", card |-> c,
                                  value |-> v, previous |-> NoBoard, amid |-> {}]]
  /\ UNCHANGED <<server, cache, stale, mounted, fetch, tangled, last>>

\* The server carries the change out, in whatever order the requests reach it.
Commit(k) ==
  LET c == call[k].card
      v == call[k].value
  IN /\ call[k] # NoCall /\ ~call[k].committed
     /\ server' = [server EXCEPT ![c] = v]
     /\ call' = [Overtaken(Armed \ {k}, {c}) EXCEPT ![k].committed = TRUE]
     /\ fetch' = TooEarly({c})
     /\ tangled' = IF cache = NoBoard \/ cache[c] = v THEN tangled ELSE tangled \union {c}
     /\ UNCHANGED <<cache, stale, mounted, last>>

\* invalidateQueries starts a new fetch when the page is on the screen, and drops
\* the one under way only when there is data.
Joins == fetch # NoFetch /\ (cache = NoBoard \/ ~mounted)

\* Faulty variant: invalidateQueries with cancelRefetch: false.
Invalidate_Joins ==
  /\ stale' = TRUE
  /\ fetch' = IF fetch # NoFetch \/ ~mounted THEN fetch ELSE Unread

Invalidate ==
  /\ stale' = TRUE
  /\ fetch' = IF Joins \/ ~mounted THEN fetch ELSE Unread

Succeed(k) ==
  /\ call[k] # NoCall /\ call[k].committed
  /\ call' = [call EXCEPT ![k] = NoCall]
  /\ \/ /\ call[k].op \in Refreshing
        /\ Invalidate
        /\ last' = IF Joins THEN "joined" ELSE "success"
     \/ /\ call[k].op \notin Refreshing
        /\ last' = "kept"
        /\ UNCHANGED <<stale, fetch>>
  /\ UNCHANGED <<server, cache, mounted, tangled>>

\* Faulty variant: onError tells the user and restores nothing.
Fail_Keeps(k) ==
  /\ call[k] # NoCall
  /\ call' = [call EXCEPT ![k] = NoCall]
  /\ last' = "failure"
  /\ UNCHANGED <<server, cache, stale, mounted, fetch, tangled>>

\* onError restores the snapshot. An answer that is lost is an error too: the
\* change is in the database and leaves the screen.
Fail(k) ==
  LET previous == call[k].previous
      lost == IF call[k].committed THEN {call[k].card} ELSE {}
  IN /\ call[k] # NoCall
     /\ \/ /\ previous # NoBoard
           /\ cache' = previous
           /\ stale' = FALSE
           /\ tangled' = tangled \union call[k].amid \union lost
           /\ call' = [Replaced(Armed \ {k}, previous) EXCEPT ![k] = NoCall]
        \/ /\ previous = NoBoard
           /\ tangled' = IF cache = NoBoard THEN {} ELSE tangled \union lost
           /\ call' = [call EXCEPT ![k] = NoCall]
           /\ UNCHANGED <<cache, stale>>
     /\ last' = "failure"
     /\ UNCHANGED <<server, mounted, fetch>>

\* Another user, or a request of a page that is gone.
ForeignWrite(c, v) ==
  /\ server[c] # v
  /\ server' = [server EXCEPT ![c] = v]
  /\ fetch' = TooEarly({c})
  /\ tangled' = IF cache = NoBoard THEN {} ELSE tangled \union {c}
  /\ last' = "foreign"
  /\ UNCHANGED <<cache, stale, mounted, call>>

\* The application is loaded again, by the user, by logout or by a login that a
\* 401 has asked for: the query cache lives in the page.
Reload ==
  /\ cache' = NoBoard
  /\ stale' = FALSE
  /\ mounted' = FALSE
  /\ fetch' = NoFetch
  /\ call' = [k \in Call |-> NoCall]
  /\ tangled' = {}
  /\ last' = "nothing"
  /\ UNCHANGED server

Next ==
  \/ Visit \/ Leave \/ Read \/ Arrive \/ FetchFails \/ Reload
  \/ \E k \in Call : Commit(k) \/ Succeed(k) \/ Fail(k)
  \/ \E k \in Call, c \in Card, v \in Value :
       Submit(k, c, v) \/ \E op \in Optimistic : Mutate(k, op, c, v)
  \/ \E c \in Card, v \in Value : ForeignWrite(c, v)

Spec == Init /\ [][Next]_vars

-----------------------------------------------------------------------------
(* The invariant behind the properties.                                     *)

\* A change the page has shown and the server has not made.
Ahead(c, v) == \E k \in Armed : ~call[k].committed /\ call[k].card = c /\ call[k].value = v

Right(c, v) == server[c] = v \/ Ahead(c, v)

\* Every row of the screen that is not tangled is the server's, or ahead of it.
ScreenInv == cache # NoBoard => \A c \in Card \ tangled : Right(c, cache[c])

\* So is every row of a snapshot that nothing has overtaken; and what a change
\* shows is not what its snapshot holds.
SnapshotInv ==
  \A k \in Armed :
    /\ cache # NoBoard
    /\ call[k].previous[call[k].card] # call[k].value
    /\ \A c \in Card \ (tangled \union call[k].amid) :
         \/ call[k].committed /\ c = call[k].card
         \/ Right(c, call[k].previous[c])

\* What a GET has read is still so, but for the rows it counts.
FetchInv == HasRead => \A c \in Card \ fetch.tangled : fetch.board[c] = server[c]

\* After a success the list is being read, or has to be, or was.
CleanInv ==
  last = "success" /\ Flying = {} =>
    /\ fetch # NoFetch => fetch.tangled = {}
    /\ stale \/ tangled = {}

BoardInv == TypeOK /\ ScreenInv /\ SnapshotInv /\ FetchInv /\ CleanInv

-----------------------------------------------------------------------------
(* Properties.                                                              *)

\* Nothing is under way and the page has no reason to read the list again.
Rest == mounted /\ Flying = {} /\ fetch = NoFetch /\ cache # NoBoard /\ ~stale

\* A page at rest shows what is in the database, but for the rows that somebody
\* else has written since the list was read and for those that these ways of the
\* three pages tangle up: a rollback to a snapshot which another change, answer
\* or rollback has overtaken (onError of moveMutation), a change whose answer
\* is lost, and one that was committed after the list on the screen was read
\* (toggleMutation has no onSuccess, and the refetch of the others may fail).
ShowsServer ==
  Rest => \A c \in Card \ tangled : cache[c] = server[c]

\* Whatever overlapped before, a success that has its list read again leaves
\* nothing tangled once the page is at rest: a later drag that drops this fetch
\* ends in a success of its own, a rollback or a toggle. The exception is an
\* invalidation that joins a fetch older than the change ("joined").
SuccessCleans == Rest /\ last = "success" => tangled = {}
=============================================================================
