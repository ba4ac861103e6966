------------------------ MODULE OptimisticBoardProofs ------------------------
(***************************************************************************)
(* Proofs about OptimisticBoard, for any rows, any values and any number   *)
(* of requests under way.                                                  *)
(***************************************************************************)
EXTENDS OptimisticBoard, TLAPS

-----------------------------------------------------------------------------
(* Facts about the helpers.                                                 *)

LEMMA ArmedFacts ==
  ASSUME TypeOK
  PROVE  \A k \in Armed : /\ k \in Call
                          /\ call[k] # NoCall
                          /\ call[k] \in Request
                          /\ call[k].previous \in Board
                          /\ call[k].amid \subseteq Card
BY BoardAssumption DEF TypeOK, Armed, Flying, Request

LEMMA OvertakenType ==
  ASSUME TypeOK, NEW K, K \subseteq Armed, NEW C, C \subseteq Card
  PROVE  Overtaken(K, C) \in [Call -> {NoCall} \union Request]
<1>1. ASSUME NEW k \in K
      PROVE  [call[k] EXCEPT !.amid = @ \union C] \in Request
  BY <1>1, ArmedFacts DEF Request
<1>2. QED BY <1>1 DEF Overtaken, TypeOK

LEMMA ReplacedType ==
  ASSUME TypeOK, NEW K, K \subseteq Armed, NEW b
  PROVE  Replaced(K, b) \in [Call -> {NoCall} \union Request]
<1>1. ASSUME NEW k \in K
      PROVE  [call[k] EXCEPT !.amid = @ \union Differ(call[k].previous, b)] \in Request
  BY <1>1, ArmedFacts DEF Request, Differ
<1>2. QED BY <1>1 DEF Replaced, TypeOK

\* What the two leave of a request: everything but its amid.
Kept(new, old) ==
  /\ old = NoCall => new = NoCall
  /\ old # NoCall => /\ new # NoCall
                     /\ new.committed = old.committed
                     /\ new.op = old.op
                     /\ new.card = old.card
                     /\ new.value = old.value
                     /\ new.previous = old.previous

Overtakes(new, K, C) ==
  \A k \in Call : /\ Kept(new[k], call[k])
                  /\ k \in K => new[k].amid = call[k].amid \union C
                  /\ k \notin K => new[k] = call[k]

LEMMA OvertakenFacts ==
  ASSUME TypeOK, NEW K, K \subseteq Armed, NEW C, C \subseteq Card
  PROVE  Overtakes(Overtaken(K, C), K, C)
<1> SUFFICES ASSUME NEW k \in Call
    PROVE  /\ Kept(Overtaken(K, C)[k], call[k])
           /\ k \in K => Overtaken(K, C)[k].amid = call[k].amid \union C
           /\ k \notin K => Overtaken(K, C)[k] = call[k]
  BY DEF Overtakes
<1>1. CASE k \notin K
  BY <1>1 DEF Overtaken, Kept
<1>2. CASE k \in K
  <2>1. call[k] \in Request /\ call[k] # NoCall
    BY <1>2, ArmedFacts
  <2>2. Overtaken(K, C)[k] = [call[k] EXCEPT !.amid = @ \union C]
    BY <1>2 DEF Overtaken
  <2>3. Overtaken(K, C)[k] \in Request
    BY <2>1, <2>2 DEF Request
  <2>4. QED BY <1>2, <2>1, <2>2, <2>3, BoardAssumption DEF Request, Kept
<1>3. QED BY <1>1, <1>2

LEMMA ReplacedFacts ==
  ASSUME TypeOK, NEW K, K \subseteq Armed, NEW b
  PROVE  \A k \in Call :
           /\ Kept(Replaced(K, b)[k], call[k])
           /\ k \in K => Replaced(K, b)[k].amid = call[k].amid \union Differ(call[k].previous, b)
           /\ k \notin K => Replaced(K, b)[k] = call[k]
<1> SUFFICES ASSUME NEW k \in Call
    PROVE  /\ Kept(Replaced(K, b)[k], call[k])
           /\ k \in K => Replaced(K, b)[k].amid = call[k].amid \union Differ(call[k].previous, b)
           /\ k \notin K => Replaced(K, b)[k] = call[k]
  OBVIOUS
<1>1. CASE k \notin K
  BY <1>1 DEF Replaced, Kept
<1>2. CASE k \in K
  <2>1. call[k] \in Request /\ call[k] # NoCall
    BY <1>2, ArmedFacts
  <2>2. Replaced(K, b)[k] = [call[k] EXCEPT !.amid = @ \union Differ(call[k].previous, b)]
    BY <1>2 DEF Replaced
  <2>3. Replaced(K, b)[k] \in Request
    BY <2>1, <2>2 DEF Request, Differ
  <2>4. QED BY <1>2, <2>1, <2>2, <2>3, BoardAssumption DEF Request, Kept
<1>3. QED BY <1>1, <1>2

-----------------------------------------------------------------------------
(* Types.                                                                   *)

\* The part of TypeOK that speaks of the requests.
CallsOK ==
  /\ call \in [Call -> {NoCall} \union Request]
  /\ \A k \in Call : call[k] # NoCall =>
       (call[k].previous # NoBoard <=> call[k].op \in Optimistic)

LEMMA InitType == Init => TypeOK
BY DEF Init, TypeOK

LEMMA FetchType ==
  ASSUME TypeOK, NEW C \in SUBSET Card
  PROVE  TooEarly(C) \in {NoFetch} \union Reading
BY DEF TypeOK, TooEarly, HasRead, Reading

LEMMA UnreadType == Unread \in Reading
BY DEF Unread, Reading

LEMMA MutateCalls ==
  ASSUME TypeOK, NEW k \in Call, NEW op \in Op, NEW c \in Card, NEW v \in Value,
         Mutate(k, op, c, v)
  PROVE  CallsOK'
<1> DEFINE new == [committed |-> FALSE, op |-> op, card |-> c, value |-> v,
                   previous |-> cache, amid |-> {}]
           before == Overtaken(Armed, {c})
<1>1. new \in Request /\ new.previous # NoBoard /\ new.op \in Optimistic
  BY BoardAssumption DEF Mutate, Request, TypeOK
<1>2. before \in [Call -> {NoCall} \union Request] /\ \A n \in Call : Kept(before[n], call[n])
  <2>1. Overtakes(before, Armed, {c})
    BY OvertakenFacts
  <2>2. QED BY <2>1, OvertakenType DEF Overtakes
<1>3. call' = [before EXCEPT ![k] = new]
  BY DEF Mutate
<1>4. call'[k] = new /\ \A n \in Call \ {k} : call'[n] = before[n]
  BY <1>2, <1>3
<1>5. ASSUME NEW n \in Call, call'[n] # NoCall
      PROVE  call'[n].previous # NoBoard <=> call'[n].op \in Optimistic
  <2>1. CASE n = k
    BY <2>1, <1>1, <1>4
  <2>2. CASE n # k
    <3>1. call[n] # NoCall /\ before[n].previous = call[n].previous /\ before[n].op = call[n].op
      BY <2>2, <1>2, <1>4, <1>5 DEF Kept
    <3>2. QED BY <2>2, <3>1, <1>4 DEF TypeOK
  <2>3. QED BY <2>1, <2>2
<1>6. call' \in [Call -> {NoCall} \union Request]
  BY <1>1, <1>2, <1>3
<1>7. QED BY <1>5, <1>6 DEF CallsOK

LEMMA SubmitCalls ==
  ASSUME TypeOK, NEW k \in Call, NEW c \in Card, NEW v \in Value, Submit(k, c, v)
  PROVE  CallsOK'
<1> DEFINE new == [committed |-> FALSE, op |-> "save", card |-> c, value |-> v,
                   previous |-> NoBoard, amid |-> {}]
<1>1. new \in Request /\ new.previous = NoBoard /\ new.op \notin Optimistic
  BY DEF Request, Op, Optimistic
<1>2. call' = [call EXCEPT ![k] = new]
  BY DEF Submit
<1>3. QED BY <1>1, <1>2 DEF TypeOK, CallsOK

LEMMA CommitCalls ==
  ASSUME TypeOK, NEW k \in Call, Commit(k)
  PROVE  CallsOK'
<1> DEFINE before == Overtaken(Armed \ {k}, {call[k].card})
<1>1. call[k] \in Request /\ call[k] # NoCall
  BY DEF Commit, TypeOK
<1>2. /\ before \in [Call -> {NoCall} \union Request]
      /\ before[k] = call[k]
      /\ \A n \in Call : Kept(before[n], call[n])
  <2>1. {call[k].card} \subseteq Card /\ Armed \ {k} \subseteq Armed
    BY <1>1 DEF Request
  <2>2. before \in [Call -> {NoCall} \union Request]
    BY <2>1, OvertakenType
  <2>3. Overtakes(before, Armed \ {k}, {call[k].card})
    BY <2>1, OvertakenFacts
  <2>4. QED BY <2>2, <2>3 DEF Overtakes
<1>3. call' = [before EXCEPT ![k].committed = TRUE]
  BY DEF Commit
<1>4. call'[k] = [call[k] EXCEPT !.committed = TRUE] /\ \A n \in Call \ {k} : call'[n] = before[n]
  BY <1>2, <1>3
<1>5. call'[k] \in Request /\ call'[k].previous = call[k].previous /\ call'[k].op = call[k].op
  BY <1>1, <1>4 DEF Request
<1>6. ASSUME NEW n \in Call, call'[n] # NoCall
      PROVE  call'[n].previous # NoBoard <=> call'[n].op \in Optimistic
  <2>1. CASE n = k
    BY <2>1, <1>1, <1>5 DEF TypeOK
  <2>2. CASE n # k
    <3>1. call[n] # NoCall /\ before[n].previous = call[n].previous /\ before[n].op = call[n].op
      BY <2>2, <1>2, <1>4, <1>6 DEF Kept
    <3>2. QED BY <2>2, <3>1, <1>4 DEF TypeOK
  <2>3. QED BY <2>1, <2>2
<1>7. call' \in [Call -> {NoCall} \union Request]
  BY <1>2, <1>3, <1>4, <1>5
<1>8. QED BY <1>6, <1>7 DEF CallsOK

\* A request that is over leaves the others as before has them.
LEMMA OverCalls ==
  ASSUME TypeOK, NEW k \in Call,
         NEW before \in [Call -> {NoCall} \union Request],
         \A n \in Call : Kept(before[n], call[n]),
         call' = [before EXCEPT ![k] = NoCall]
  PROVE  CallsOK'
<1>1. call' \in [Call -> {NoCall} \union Request]
  OBVIOUS
<1>2. \A n \in Call : call'[n] # NoCall => n # k /\ call'[n] = before[n]
  OBVIOUS
<1>3. QED BY <1>1, <1>2 DEF CallsOK, TypeOK, Kept

LEMMA FailCalls ==
  ASSUME TypeOK, NEW k \in Call, Fail(k)
  PROVE  CallsOK'
<1>1. CASE call[k].previous # NoBoard /\ call' = [Replaced(Armed \ {k}, call[k].previous) EXCEPT ![k] = NoCall]
  <2> DEFINE before == Replaced(Armed \ {k}, call[k].previous)
  <2>1. before \in [Call -> {NoCall} \union Request]
    BY ReplacedType
  <2>2. \A n \in Call : Kept(before[n], call[n])
    BY ReplacedFacts
  <2> HIDE DEF before
  <2>3. QED BY <1>1, <2>1, <2>2, OverCalls DEF before
<1>2. CASE call' = [call EXCEPT ![k] = NoCall]
  <2>1. call \in [Call -> {NoCall} \union Request] /\ \A n \in Call : Kept(call[n], call[n])
    BY DEF TypeOK, Kept
  <2>2. QED BY <1>2, <2>1, OverCalls
<1>3. QED BY <1>1, <1>2 DEF Fail

LEMMA CallsNext == TypeOK /\ Next => CallsOK'
<1> SUFFICES ASSUME TypeOK, Next PROVE CallsOK'
  OBVIOUS
<1>1. CASE Visit \/ Leave \/ Read \/ FetchFails
  BY <1>1 DEF Visit, Leave, Read, FetchFails, TypeOK, CallsOK
<1>2. CASE Arrive
  <2>1. call' = Replaced(Armed, fetch.board)
    BY <1>2 DEF Arrive
  <2>2. call' \in [Call -> {NoCall} \union Request]
    BY <2>1, ReplacedType
  <2>3. \A n \in Call : Kept(call'[n], call[n])
    BY <2>1, ReplacedFacts
  <2>4. QED BY <2>2, <2>3 DEF CallsOK, TypeOK, Kept
<1>3. CASE Reload
  BY <1>3 DEF Reload, CallsOK
<1>4. CASE \E k \in Call : Commit(k)
  BY <1>4, CommitCalls
<1>5. CASE \E k \in Call : Succeed(k)
  <2>1. call \in [Call -> {NoCall} \union Request] /\ \A n \in Call : Kept(call[n], call[n])
    BY DEF TypeOK, Kept
  <2>2. QED BY <1>5, <2>1, OverCalls DEF Succeed
<1>6. CASE \E k \in Call : Fail(k)
  BY <1>6, FailCalls
<1>7. CASE \E k \in Call, c \in Card, v \in Value : Submit(k, c, v)
  BY <1>7, SubmitCalls
<1>8. CASE \E k \in Call, c \in Card, v \in Value : \E op \in Optimistic : Mutate(k, op, c, v)
  BY <1>8, MutateCalls DEF Optimistic, Op
<1>9. CASE \E c \in Card, v \in Value : ForeignWrite(c, v)
  BY <1>9 DEF ForeignWrite, TypeOK, CallsOK
<1>10. QED BY <1>1, <1>2, <1>3, <1>4, <1>5, <1>6, <1>7, <1>8, <1>9 DEF Next

LEMMA RequestFacts ==
  ASSUME TypeOK, NEW k \in Call, call[k] # NoCall
  PROVE  /\ call[k] \in Request
         /\ call[k].card \in Card
         /\ call[k].value \in Value
         /\ call[k].committed \in BOOLEAN
         /\ call[k].amid \subseteq Card
         /\ call[k].previous # NoBoard => call[k].previous \in Board /\ k \in Armed
BY DEF TypeOK, Request, Armed, Flying

\* The part of TypeOK that speaks of everything else.
RestOK ==
  /\ server \in Board
  /\ cache \in Board \union {NoBoard}
  /\ stale \in BOOLEAN
  /\ mounted \in BOOLEAN
  /\ fetch \in {NoFetch} \union Reading
  /\ tangled \subseteq Card
  /\ last \in {"nothing", "success", "joined", "kept", "failure", "foreign"}

LEMMA TypeParts == TypeOK <=> CallsOK /\ RestOK
BY Zenon DEF TypeOK, CallsOK, RestOK

LEMMA FetchedType ==
  ASSUME TypeOK, fetch # NoFetch
  PROVE  /\ fetch \in Reading
         /\ fetch.tangled \subseteq Card
         /\ fetch.board # NoBoard => fetch.board \in Board
BY DEF TypeOK, Reading

LEMMA BoardUpdate ==
  ASSUME NEW b \in Board, NEW c \in Card, NEW v \in Value
  PROVE  /\ [b EXCEPT ![c] = v] \in Board
         /\ [b EXCEPT ![c] = v][c] = v
         /\ \A d \in Card \ {c} : [b EXCEPT ![c] = v][d] = b[d]
BY DEF Board

LEMMA QueryRest ==
  ASSUME TypeOK, Visit \/ Leave \/ Read \/ Arrive \/ FetchFails \/ Reload
  PROVE  RestOK'
<1>1. CASE Visit
  BY <1>1, UnreadType DEF Visit, TypeOK, RestOK
<1>2. CASE Leave
  BY <1>2 DEF Leave, TypeOK, RestOK
<1>3. CASE Read
  <2>1. [fetch EXCEPT !.board = server] \in Reading
    BY <1>3, FetchedType DEF Read, Reading, TypeOK
  <2>2. QED BY <1>3, <2>1 DEF Read, TypeOK, RestOK
<1>4. CASE Arrive
  BY <1>4, FetchedType DEF Arrive, HasRead, TypeOK, RestOK
<1>5. CASE FetchFails
  BY <1>5 DEF FetchFails, TypeOK, RestOK
<1>6. CASE Reload
  BY <1>6 DEF Reload, TypeOK, RestOK
<1>7. QED BY <1>1, <1>2, <1>3, <1>4, <1>5, <1>6

LEMMA ChangeRest ==
  ASSUME TypeOK, NEW k \in Call, Commit(k) \/ Succeed(k) \/ Fail(k)
  PROVE  RestOK'
<1>0. call[k] # NoCall
  BY DEF Commit, Succeed, Fail
<1>1. CASE Commit(k)
  <2>1. server' \in Board
    BY <1>0, <1>1, RequestFacts, BoardUpdate DEF Commit, TypeOK
  <2>2. fetch' \in {NoFetch} \union Reading
    BY <1>0, <1>1, RequestFacts, FetchType DEF Commit
  <2>3. tangled' \subseteq Card
    BY <1>0, <1>1, RequestFacts DEF Commit, TypeOK
  <2>4. QED BY <1>1, <2>1, <2>2, <2>3 DEF Commit, TypeOK, RestOK
<1>2. CASE Succeed(k)
  <2>1. fetch' \in {NoFetch} \union Reading /\ stale' \in BOOLEAN
    BY <1>2, UnreadType DEF Succeed, Invalidate, TypeOK
  <2>2. QED BY <1>2, <2>1 DEF Succeed, TypeOK, RestOK
<1>3. CASE Fail(k)
  <2>1. cache' \in Board \union {NoBoard}
    BY <1>0, <1>3, RequestFacts DEF Fail, TypeOK
  <2>2. tangled' \subseteq Card
    BY <1>0, <1>3, RequestFacts DEF Fail, TypeOK
  <2>3. stale' \in BOOLEAN
    BY <1>3 DEF Fail, TypeOK
  <2>4. QED BY <1>3, <2>1, <2>2, <2>3 DEF Fail, TypeOK, RestOK
<1>4. QED BY <1>1, <1>2, <1>3

LEMMA RestNext == TypeOK /\ Next => RestOK'
<1> SUFFICES ASSUME TypeOK, Next PROVE RestOK'
  OBVIOUS
<1>1. CASE \E k \in Call, c \in Card, v \in Value : Submit(k, c, v)
  BY <1>1 DEF Submit, TypeOK, RestOK
<1>2. CASE \E k \in Call, c \in Card, v \in Value : \E op \in Optimistic : Mutate(k, op, c, v)
  <2>1. PICK k \in Call, c \in Card, v \in Value, op \in Optimistic : Mutate(k, op, c, v)
    BY <1>2
  <2>2. cache' \in Board
    BY <2>1, BoardUpdate DEF Mutate, TypeOK
  <2>3. QED BY <2>1, <2>2 DEF Mutate, TypeOK, RestOK
<1>3. CASE \E c \in Card, v \in Value : ForeignWrite(c, v)
  <2>1. PICK c \in Card, v \in Value : ForeignWrite(c, v)
    BY <1>3
  <2>2. server' \in Board /\ fetch' \in {NoFetch} \union Reading
    BY <2>1, BoardUpdate, FetchType DEF ForeignWrite, TypeOK
  <2>3. QED BY <2>1, <2>2 DEF ForeignWrite, TypeOK, RestOK
<1>4. QED BY <1>1, <1>2, <1>3, QueryRest, ChangeRest DEF Next

LEMMA TypeStep == TypeOK /\ [Next]_vars => TypeOK'
<1>1. TypeOK /\ UNCHANGED vars => TypeOK'
  BY DEF TypeOK, vars
<1>2. TypeOK /\ Next => TypeOK'
  <2>1. (CallsOK /\ RestOK)' => TypeOK'
    BY Zenon DEF TypeOK, CallsOK, RestOK
  <2>2. QED BY <2>1, CallsNext, RestNext
<1>3. QED BY <1>1, <1>2

\* The type invariant of the page, for any rows and any number of requests.
THEOREM BoardTypeCorrect == Spec => []TypeOK
<1>1. QED BY InitType, TypeStep, PTL DEF Spec

-----------------------------------------------------------------------------
(* What the screen, the snapshots and the fetch hold.                       *)

\* What is right stays so while the row is not written and the change that is
\* ahead in it is neither made nor over.
LEMMA RightKept ==
  ASSUME TypeOK, NEW k \in Call, \A n \in Call \ {k} : Kept(call'[n], call[n]),
         NEW c, NEW v, Right(c, v), server'[c] = server[c],
         k \in Armed => call[k].committed \/ call[k].card # c \/ call[k].value # v
  PROVE  Right(c, v)'
BY DEF Right, Ahead, Armed, Flying, Kept

LEMMA ArmedBack ==
  ASSUME TypeOK, NEW K, \A n \in Call \ K : Kept(call'[n], call[n])
  PROVE  \A n \in Armed' \ K : n \in Armed
BY DEF Armed, Flying, Kept

LEMMA SameInv ==
  ASSUME TypeOK, ScreenInv, SnapshotInv, UNCHANGED <<server, cache, tangled, call>>
  PROVE  ScreenInv' /\ SnapshotInv'
BY DEF ScreenInv, SnapshotInv, Right, Ahead, Armed, Flying

LEMMA DifferFacts ==
  ASSUME NEW b, NEW d, NEW c \in Card, c \notin Differ(b, d)
  PROVE  b[c] = d[c]
BY DEF Differ

\* One request's part of SnapshotInv.
Snapshot(k) ==
  /\ cache # NoBoard
  /\ call[k].previous[call[k].card] # call[k].value
  /\ \A c \in Card \ (tangled \union call[k].amid) :
       \/ call[k].committed /\ c = call[k].card
       \/ Right(c, call[k].previous[c])

LEMMA SnapshotIs == SnapshotInv <=> \A k \in Armed : Snapshot(k)
BY DEF SnapshotInv, Snapshot

\* A request the step leaves alone, but for its amid, keeps its snapshot's part.
LEMMA SnapshotKept ==
  ASSUME TypeOK, NEW k \in Armed, Snapshot(k), Kept(call'[k], call[k]),
         cache' # NoBoard, tangled \subseteq tangled', call[k].amid \subseteq call'[k].amid,
         \A c \in Card \ (tangled' \union call'[k].amid) : \A v :
            v = call[k].previous[c] /\ Right(c, v) => Right(c, v)'
  PROVE  Snapshot(k)'
<1>1. k \in Call /\ call[k] # NoCall
  BY ArmedFacts
<1>2. /\ call'[k].committed = call[k].committed
      /\ call'[k].card = call[k].card
      /\ call'[k].value = call[k].value
      /\ call'[k].previous = call[k].previous
  BY <1>1 DEF Kept
<1>3. ASSUME NEW c \in Card \ (tangled' \union call'[k].amid), NEW v, v = call'[k].previous[c]
      PROVE  (call'[k].committed /\ c = call'[k].card) \/ Right(c, v)'
  <2>1. (call[k].committed /\ c = call[k].card) \/ Right(c, v)
    BY <1>2, <1>3 DEF Snapshot
  <2>2. QED BY <1>2, <1>3, <2>1
<1>4. \A c \in Card \ (tangled' \union call'[k].amid) :
        (call'[k].committed /\ c = call'[k].card) \/ Right(c, call[k].previous[c])'
  BY <1>3 DEF Right, Ahead
<1>5. call'[k].previous[call'[k].card] # call'[k].value
  BY <1>2 DEF Snapshot
<1>6. QED BY <1>4, <1>5 DEF Snapshot

LEMMA ArriveInv ==
  ASSUME TypeOK, SnapshotInv, FetchInv, Arrive
  PROVE  ScreenInv' /\ SnapshotInv'
<1>1. \A k \in Call : /\ Kept(call'[k], call[k])
                      /\ k \in Armed => call'[k].amid = call[k].amid \union Differ(call[k].previous, fetch.board)
  BY ReplacedFacts DEF Arrive
<1>2. \A c \in Card \ tangled' : server'[c] = fetch.board[c]
  BY DEF Arrive, FetchInv
<1>3. ScreenInv'
  BY <1>2 DEF ScreenInv, Right, Arrive
<1>4. ASSUME NEW k \in Armed' PROVE Snapshot(k)'
  <2>1. k \in Armed /\ k \in Call
    BY <1>1, <1>4, ArmedBack, ArmedFacts
  <2>2. Snapshot(k) /\ call[k] # NoCall
    BY <2>1, SnapshotIs, ArmedFacts
  <2>3. /\ call'[k].card = call[k].card
        /\ call'[k].value = call[k].value
        /\ call'[k].previous = call[k].previous
        /\ call'[k].amid = call[k].amid \union Differ(call[k].previous, fetch.board)
    BY <1>1, <2>1, <2>2 DEF Kept
  <2>4. \A c \in Card \ (tangled' \union call'[k].amid) : call'[k].previous[c] = server'[c]
    BY <1>2, <2>3, DifferFacts
  <2>5. cache' # NoBoard
    BY BoardAssumption, FetchedType DEF Arrive, HasRead
  <2>6. QED BY <2>2, <2>3, <2>4, <2>5 DEF Snapshot, Right
<1>5. QED BY <1>3, <1>4, SnapshotIs DEF SnapshotInv, Snapshot

LEMMA ScreenIs ==
  ASSUME cache' # NoBoard => \A c \in Card \ tangled' : \A v : v = cache'[c] => Right(c, v)'
  PROVE  ScreenInv'
BY DEF ScreenInv, Right, Ahead

LEMMA SnapshotsAre ==
  ASSUME \A k \in Armed' : Snapshot(k)'
  PROVE  SnapshotInv'
BY DEF SnapshotInv, Snapshot, Right, Ahead

LEMMA MutateInv ==
  ASSUME TypeOK, ScreenInv, SnapshotInv,
         NEW k \in Call, NEW op \in Op, NEW c \in Card, NEW v \in Value, Mutate(k, op, c, v)
  PROVE  ScreenInv' /\ SnapshotInv'
<1> DEFINE new == [committed |-> FALSE, op |-> op, card |-> c, value |-> v,
                   previous |-> cache, amid |-> {}]
           before == Overtaken(Armed, {c})
<1>1. /\ cache \in Board /\ cache # NoBoard /\ cache[c] # v /\ k \notin Armed
      /\ cache' = [cache EXCEPT ![c] = v] /\ UNCHANGED <<server, tangled>>
  BY DEF Mutate, TypeOK, Armed, Flying
<1>2. cache' \in Board /\ cache'[c] = v /\ \A d \in Card \ {c} : cache'[d] = cache[d]
  BY <1>1 DEF Board
<1>3. before \in [Call -> {NoCall} \union Request]
  BY OvertakenType
<1>4. Overtakes(before, Armed, {c})
  BY OvertakenFacts
<1>5. call' = [before EXCEPT ![k] = new]
  BY DEF Mutate
<1>6. call'[k] = new /\ \A n \in Call \ {k} : call'[n] = before[n]
  BY <1>3, <1>5
<1>7. \A n \in Call \ {k} : /\ Kept(call'[n], call[n])
                            /\ n \in Armed => call'[n].amid = call[n].amid \union {c}
  BY <1>4, <1>6 DEF Overtakes
<1>8. \A d, u : Right(d, u) => Right(d, u)'
  BY <1>1, <1>7, RightKept
<1>9. new \in Request /\ k \in Armed'
  <2>1. new \in Request
    BY <1>1 DEF Request
  <2>2. QED BY <2>1, <1>1, <1>6, BoardAssumption DEF Armed, Flying
<1>10. Ahead(c, v)'
  BY <1>6, <1>9 DEF Ahead
<1>11. ASSUME NEW d \in Card \ tangled', NEW u, u = cache'[d]
       PROVE  Right(d, u)'
  <2>1. CASE d = c
    BY <2>1, <1>2, <1>10, <1>11 DEF Right
  <2>2. CASE d # c
    BY <2>2, <1>1, <1>2, <1>8, <1>11 DEF ScreenInv
  <2>3. QED BY <2>1, <2>2
<1>12. cache' # NoBoard
  BY <1>2, BoardAssumption
<1>13. ASSUME NEW n \in Armed' PROVE Snapshot(n)'
  <2>1. CASE n = k
    <3>1. \A d \in Card \ tangled : \A u : u = cache[d] => Right(d, u)'
      BY <1>1, <1>8 DEF ScreenInv
    <3>2. \A d \in Card \ tangled : Right(d, call[k].previous[d])'
      BY <3>1, <1>6 DEF Right, Ahead
    <3>3. QED BY <2>1, <3>2, <1>1, <1>6, <1>12 DEF Snapshot
  <2>2. CASE n # k
    <3>1. n \in Armed /\ n \in Call
      BY <2>2, <1>7, <1>13, ArmedBack, ArmedFacts
    <3>2. Snapshot(n)
      BY <3>1, SnapshotIs
    <3>3. Kept(call'[n], call[n]) /\ call[n].amid \subseteq call'[n].amid
      BY <2>2, <3>1, <1>7
    <3>4. QED BY <3>1, <3>2, <3>3, <1>1, <1>8, <1>12, SnapshotKept
  <2>3. QED BY <2>1, <2>2
<1>14. QED BY <1>11, <1>13, ScreenIs, SnapshotsAre

LEMMA SubmitInv ==
  ASSUME TypeOK, ScreenInv, SnapshotInv,
         NEW k \in Call, NEW c \in Card, NEW v \in Value, Submit(k, c, v)
  PROVE  ScreenInv' /\ SnapshotInv'
<1>1. k \notin Armed /\ k \notin Armed' /\ UNCHANGED <<server, cache, tangled>>
  BY DEF Submit, TypeOK, Armed, Flying
<1>2. \A n \in Call \ {k} : call'[n] = call[n] /\ Kept(call'[n], call[n])
  BY DEF Submit, TypeOK, Kept
<1>3. \A d, u : Right(d, u) => Right(d, u)'
  BY <1>1, <1>2, RightKept
<1>4. ASSUME NEW d \in Card \ tangled', NEW u, u = cache'[d], cache' # NoBoard
      PROVE  Right(d, u)'
  BY <1>1, <1>3, <1>4 DEF ScreenInv
<1>5. ASSUME NEW n \in Armed' PROVE Snapshot(n)'
  <2>1. n \in Armed /\ n \in Call /\ n # k
    BY <1>1, <1>2, <1>5, ArmedBack, ArmedFacts
  <2>2. Snapshot(n)
    BY <2>1, SnapshotIs
  <2>3. cache' # NoBoard
    BY <2>2, <1>1 DEF Snapshot
  <2>4. QED BY <2>1, <2>2, <2>3, <1>1, <1>2, <1>3, SnapshotKept
<1>6. QED BY <1>4, <1>5, ScreenIs, SnapshotsAre

LEMMA SucceedInv ==
  ASSUME TypeOK, ScreenInv, SnapshotInv, NEW k \in Call, Succeed(k)
  PROVE  ScreenInv' /\ SnapshotInv'
<1>1. call[k].committed /\ k \notin Armed' /\ UNCHANGED <<server, cache, tangled>>
  BY DEF Succeed, TypeOK, Armed, Flying
<1>2. \A n \in Call \ {k} : call'[n] = call[n] /\ Kept(call'[n], call[n])
  BY DEF Succeed, TypeOK, Kept
<1>3. \A d, u : Right(d, u) => Right(d, u)'
  BY <1>1, <1>2, RightKept
<1>4. ASSUME NEW d \in Card \ tangled', NEW u, u = cache'[d], cache' # NoBoard
      PROVE  Right(d, u)'
  BY <1>1, <1>3, <1>4 DEF ScreenInv
<1>5. ASSUME NEW n \in Armed' PROVE Snapshot(n)'
  <2>1. n \in Armed /\ n \in Call /\ n # k
    BY <1>1, <1>2, <1>5, ArmedBack, ArmedFacts
  <2>2. Snapshot(n)
    BY <2>1, SnapshotIs
  <2>3. cache' # NoBoard
    BY <2>2, <1>1 DEF Snapshot
  <2>4. QED BY <2>1, <2>2, <2>3, <1>1, <1>2, <1>3, SnapshotKept
<1>6. QED BY <1>4, <1>5, ScreenIs, SnapshotsAre

LEMMA CommitInv ==
  ASSUME TypeOK, ScreenInv, SnapshotInv, NEW k \in Call, Commit(k)
  PROVE  ScreenInv' /\ SnapshotInv'
<1> DEFINE c == call[k].card
           v == call[k].value
           before == Overtaken(Armed \ {k}, {c})
<1>1. call[k] \in Request /\ call[k] # NoCall /\ c \in Card /\ v \in Value
  BY RequestFacts DEF Commit
<1>2. /\ server' = [server EXCEPT ![c] = v]
      /\ tangled' = IF cache = NoBoard \/ cache[c] = v THEN tangled ELSE tangled \union {c}
      /\ UNCHANGED cache
      /\ call' = [before EXCEPT ![k].committed = TRUE]
  BY DEF Commit
<1>3. server'[c] = v /\ \A d \in Card \ {c} : server'[d] = server[d]
  BY <1>1, <1>2, BoardUpdate DEF TypeOK
<1>4. before \in [Call -> {NoCall} \union Request] /\ before[k] = call[k]
  <2>1. {c} \subseteq Card /\ Armed \ {k} \subseteq Armed
    BY <1>1
  <2>2. before \in [Call -> {NoCall} \union Request]
    BY <2>1, OvertakenType
  <2>3. before[k] = call[k]
    BY DEF Overtaken
  <2>4. QED BY <2>2, <2>3
<1>5. Overtakes(before, Armed \ {k}, {c})
  <2>1. {c} \subseteq Card /\ Armed \ {k} \subseteq Armed
    BY <1>1
  <2>2. QED BY <2>1, OvertakenFacts
<1>6. call'[k] = [call[k] EXCEPT !.committed = TRUE] /\ \A n \in Call \ {k} : call'[n] = before[n]
  BY <1>2, <1>4
<1>7. \A n \in Call \ {k} : /\ Kept(call'[n], call[n])
                            /\ n \in Armed => call'[n].amid = call[n].amid \union {c}
  BY <1>5, <1>6 DEF Overtakes
<1>8. /\ call'[k].committed = TRUE /\ call'[k].card = c /\ call'[k].value = v
      /\ call'[k].previous = call[k].previous /\ call'[k].amid = call[k].amid
  BY <1>1, <1>6 DEF Request
<1>9. \A d \in Card \ {c} : \A u : Right(d, u) => Right(d, u)'
  BY <1>3, <1>7, RightKept
<1>10. ASSUME NEW d \in Card \ tangled', NEW u, u = cache'[d], cache' # NoBoard
       PROVE  Right(d, u)'
  <2>1. CASE d = c
    BY <2>1, <1>2, <1>3, <1>10 DEF Right
  <2>2. CASE d # c
    <3>1. d \notin tangled
      BY <1>2, <1>10
    <3>2. QED BY <2>2, <3>1, <1>2, <1>9, <1>10 DEF ScreenInv
  <2>3. QED BY <2>1, <2>2
<1>11. ASSUME NEW n \in Armed' PROVE Snapshot(n)'
  <2>1. CASE n = k
    <3>1. k \in Armed
      BY <2>1, <1>1, <1>8, <1>11 DEF Armed, Flying
    <3>2. Snapshot(k)
      BY <3>1, SnapshotIs
    <3>3. \A d \in Card \ (tangled' \union call'[k].amid) : \A u :
            d # c /\ u = call'[k].previous[d] => Right(d, u)'
      <4>1. TAKE d \in Card \ (tangled' \union call'[k].amid)
      <4>2. d \in Card \ (tangled \union call[k].amid)
        BY <1>2, <1>8
      <4>3. QED BY <4>2, <3>2, <1>8, <1>9 DEF Snapshot
    <3>4. \A d \in Card \ (tangled' \union call'[k].amid) :
            d # c => Right(d, call[k].previous[d])'
      BY <3>3 DEF Right, Ahead
    <3>5. call'[k].previous[call'[k].card] # call'[k].value /\ cache' # NoBoard
      BY <3>2, <1>2, <1>8 DEF Snapshot
    <3>6. QED BY <2>1, <3>4, <3>5, <1>8 DEF Snapshot
  <2>2. CASE n # k
    <3>1. n \in Armed /\ n \in Call
      BY <2>2, <1>7, <1>11, ArmedBack, ArmedFacts
    <3>2. Snapshot(n)
      BY <3>1, SnapshotIs
    <3>3. Kept(call'[n], call[n]) /\ call'[n].amid = call[n].amid \union {c}
      BY <2>2, <3>1, <1>7
    <3>4. cache' # NoBoard /\ tangled \subseteq tangled'
      BY <3>2, <1>2 DEF Snapshot
    <3>5. QED BY <3>1, <3>2, <3>3, <3>4, <1>9, SnapshotKept
  <2>3. QED BY <2>1, <2>2
<1>12. QED BY <1>10, <1>11, ScreenIs, SnapshotsAre

\* onError puts a snapshot back that is right but for the rows it counts.
LEMMA RestoreInv ==
  ASSUME TypeOK, ScreenInv, SnapshotInv, NEW k \in Call, Fail(k), call[k].previous # NoBoard
  PROVE  ScreenInv' /\ SnapshotInv'
<1> DEFINE b == call[k].previous
           before == Replaced(Armed \ {k}, b)
<1>1. k \in Armed /\ b \in Board /\ Snapshot(k)
  BY RequestFacts, SnapshotIs DEF Fail
<1>2. /\ cache' = b
      /\ tangled' = tangled \union call[k].amid
                      \union (IF call[k].committed THEN {call[k].card} ELSE {})
      /\ UNCHANGED server
      /\ call' = [before EXCEPT ![k] = NoCall]
  BY DEF Fail
<1>3. \A n \in Call : /\ Kept(before[n], call[n])
                      /\ n \in Armed \ {k} => before[n].amid = call[n].amid \union Differ(call[n].previous, b)
  BY ReplacedFacts
<1>4. before \in [Call -> {NoCall} \union Request]
  BY ReplacedType
<1>5. call'[k] = NoCall /\ \A n \in Call \ {k} : call'[n] = before[n]
  BY <1>2, <1>4
<1>6. \A n \in Call \ {k} :
         /\ Kept(call'[n], call[n])
         /\ n \in Armed => call'[n].amid = call[n].amid \union Differ(call[n].previous, b)
  BY <1>3, <1>5
<1>7. ASSUME NEW d \in Card \ tangled', NEW u, u = b[d]
      PROVE  Right(d, u)'
  <2>1. d \notin tangled /\ d \notin call[k].amid /\ ~(call[k].committed /\ d = call[k].card)
    BY <1>2, <1>7
  <2>2. Right(d, u)
    BY <2>1, <1>1, <1>7 DEF Snapshot
  <2>3. call[k].committed \/ call[k].card # d \/ call[k].value # u
    BY <1>1, <1>7 DEF Snapshot
  <2>4. QED BY <2>2, <2>3, <1>2, <1>6, RightKept
<1>8. ScreenInv'
  BY <1>2, <1>7, ScreenIs
<1>9. ASSUME NEW n \in Armed' PROVE Snapshot(n)'
  <2>1. n # k
    BY <1>5, <1>9 DEF Armed, Flying
  <2>2. n \in Armed /\ n \in Call
    BY <2>1, <1>6, <1>9, ArmedBack, ArmedFacts
  <2>3. Snapshot(n) /\ Kept(call'[n], call[n])
    BY <2>1, <2>2, <1>6, SnapshotIs
  <2>4. call'[n].amid = call[n].amid \union Differ(call[n].previous, b)
    BY <2>1, <2>2, <1>6
  <2>5. \A d \in Card \ (tangled' \union call'[n].amid) : \A u :
          u = call[n].previous[d] => Right(d, u)'
    BY <2>4, <1>7, DifferFacts
  <2>6. cache' # NoBoard /\ tangled \subseteq tangled' /\ call[n].amid \subseteq call'[n].amid
    BY <2>4, <1>1, <1>2, BoardAssumption
  <2>7. QED BY <2>2, <2>3, <2>5, <2>6, SnapshotKept
<1>10. QED BY <1>8, <1>9, SnapshotsAre

LEMMA NoScreen ==
  ASSUME TypeOK, SnapshotInv, cache = NoBoard
  PROVE  Armed = {}
BY DEF SnapshotInv

LEMMA PlainFailInv ==
  ASSUME TypeOK, ScreenInv, SnapshotInv, NEW k \in Call, Fail(k), call[k].previous = NoBoard
  PROVE  ScreenInv' /\ SnapshotInv'
<1>1. /\ k \notin Armed
      /\ call' = [call EXCEPT ![k] = NoCall]
      /\ cache # NoBoard => tangled \subseteq tangled'
      /\ UNCHANGED <<server, cache>>
  BY DEF Fail, Armed, Flying
<1>2. /\ k \notin Armed'
      /\ \A n \in Call \ {k} : call'[n] = call[n] /\ Kept(call'[n], call[n])
  BY <1>1 DEF TypeOK, Kept, Armed, Flying
<1>3. \A d, u : Right(d, u) => Right(d, u)'
  BY <1>1, <1>2, RightKept
<1>4. ASSUME NEW d \in Card \ tangled', NEW u, u = cache'[d], cache' # NoBoard
      PROVE  Right(d, u)'
  BY <1>1, <1>3, <1>4 DEF ScreenInv
<1>5. ASSUME NEW n \in Armed' PROVE Snapshot(n)'
  <2>1. n \in Armed /\ n \in Call /\ n # k
    BY <1>1, <1>2, <1>5, ArmedBack, ArmedFacts
  <2>2. Snapshot(n)
    BY <2>1, SnapshotIs
  <2>3. cache' # NoBoard /\ tangled \subseteq tangled'
    BY <2>2, <1>1 DEF Snapshot
  <2>4. QED BY <2>1, <2>2, <2>3, <1>2, <1>3, SnapshotKept
<1>6. QED BY <1>4, <1>5, ScreenIs, SnapshotsAre

LEMMA ForeignInv ==
  ASSUME TypeOK, ScreenInv, SnapshotInv, NEW c \in Card, NEW v \in Value, ForeignWrite(c, v)
  PROVE  ScreenInv' /\ SnapshotInv'
<1>1. /\ cache # NoBoard => tangled' = tangled \union {c}
      /\ UNCHANGED <<cache, call>>
  BY DEF ForeignWrite
<1>2. \A d \in Card \ {c} : server'[d] = server[d]
  BY BoardUpdate DEF ForeignWrite, TypeOK
<1>3. \A d \in Card \ {c} : \A u : Right(d, u) => Right(d, u)'
  BY <1>1, <1>2 DEF Right, Ahead, Armed, Flying
<1>4. ASSUME NEW d \in Card \ tangled', NEW u, u = cache'[d], cache' # NoBoard
      PROVE  Right(d, u)'
  BY <1>1, <1>3, <1>4 DEF ScreenInv
<1>5. ASSUME NEW n \in Armed' PROVE Snapshot(n)'
  <2>1. n \in Armed
    BY <1>1, <1>5 DEF Armed, Flying
  <2>2. Snapshot(n)
    BY <2>1, SnapshotIs
  <2>3. cache' # NoBoard /\ tangled' = tangled \union {c} /\ call'[n] = call[n] /\ Kept(call'[n], call[n])
    BY <2>2, <1>1 DEF Snapshot, Kept
  <2>4. QED BY <2>1, <2>2, <2>3, <1>3, SnapshotKept
<1>6. QED BY <1>4, <1>5, ScreenIs, SnapshotsAre

LEMMA ReloadInv ==
  ASSUME Reload
  PROVE  ScreenInv' /\ SnapshotInv'
BY DEF Reload, ScreenInv, SnapshotInv, Armed, Flying

LEMMA ScreenStep ==
  ASSUME TypeOK, ScreenInv, SnapshotInv, FetchInv, [Next]_vars
  PROVE  ScreenInv' /\ SnapshotInv'
<1>1. CASE Visit \/ Leave \/ Read \/ FetchFails \/ UNCHANGED vars
  BY <1>1, SameInv DEF Visit, Leave, Read, FetchFails, vars
<1>2. CASE Arrive \/ Reload
  BY <1>2, ArriveInv, ReloadInv
<1>3. CASE \E k \in Call : Commit(k) \/ Succeed(k)
  BY <1>3, CommitInv, SucceedInv
<1>4. CASE \E k \in Call : Fail(k)
  BY <1>4, RestoreInv, PlainFailInv
<1>5. CASE \E k \in Call, c \in Card, v \in Value : Submit(k, c, v)
  BY <1>5, SubmitInv
<1>6. CASE \E k \in Call, c \in Card, v \in Value : \E op \in Optimistic : Mutate(k, op, c, v)
  BY <1>6, MutateInv DEF Optimistic, Op
<1>7. CASE \E c \in Card, v \in Value : ForeignWrite(c, v)
  BY <1>7, ForeignInv
<1>8. QED BY <1>1, <1>2, <1>3, <1>4, <1>5, <1>6, <1>7 DEF Next

-----------------------------------------------------------------------------
(* What a fetch has read.                                                   *)

LEMMA TooEarlyFacts ==
  ASSUME TypeOK, FetchInv, NEW c \in Card, fetch' = TooEarly({c}),
         \A d \in Card \ {c} : server'[d] = server[d]
  PROVE  FetchInv'
<1>1. CASE HasRead
  <2>1. fetch \in Reading
    BY <1>1, FetchedType DEF HasRead
  <2>2. fetch'.board = fetch.board /\ fetch'.tangled = fetch.tangled \union {c}
    BY <1>1, <2>1 DEF TooEarly, Reading
  <2>3. QED BY <1>1, <2>2 DEF FetchInv
<1>2. CASE ~HasRead
  BY <1>2 DEF TooEarly, HasRead, FetchInv
<1>3. QED BY <1>1, <1>2

LEMMA FetchStep ==
  ASSUME TypeOK, FetchInv, [Next]_vars
  PROVE  FetchInv'
<1>1. CASE Visit \/ Leave \/ FetchFails \/ Reload \/ Arrive \/ UNCHANGED vars
  BY <1>1 DEF Visit, Leave, FetchFails, Reload, Arrive, vars, FetchInv, HasRead, Unread
<1>2. CASE Read
  <2>1. fetch'.board = server'
    BY <1>2, FetchedType DEF Read, Reading
  <2>2. QED BY <2>1 DEF FetchInv
<1>3. CASE \E k \in Call : Commit(k)
  <2>1. PICK k \in Call : Commit(k)
    BY <1>3
  <2>2. call[k].card \in Card /\ call[k].value \in Value
    BY <2>1, RequestFacts DEF Commit
  <2>3. \A d \in Card \ {call[k].card} : server'[d] = server[d]
    BY <2>1, <2>2, BoardUpdate DEF Commit, TypeOK
  <2>4. QED BY <2>1, <2>2, <2>3, TooEarlyFacts DEF Commit
<1>4. CASE \E k \in Call : Succeed(k)
  BY <1>4 DEF Succeed, Invalidate, FetchInv, HasRead, Unread
<1>5. CASE \E k \in Call : Fail(k)
  BY <1>5 DEF Fail, FetchInv, HasRead
<1>6. CASE \E k \in Call, c \in Card, v \in Value :
             Submit(k, c, v) \/ \E op \in Optimistic : Mutate(k, op, c, v)
  BY <1>6 DEF Submit, Mutate, FetchInv, HasRead
<1>7. CASE \E c \in Card, v \in Value : ForeignWrite(c, v)
  <2>1. PICK c \in Card, v \in Value : ForeignWrite(c, v)
    BY <1>7
  <2>2. \A d \in Card \ {c} : server'[d] = server[d]
    BY <2>1, BoardUpdate DEF ForeignWrite, TypeOK
  <2>3. QED BY <2>1, <2>2, TooEarlyFacts DEF ForeignWrite
<1>8. QED BY <1>1, <1>2, <1>3, <1>4, <1>5, <1>6, <1>7 DEF Next

-----------------------------------------------------------------------------
(* What a success leaves.                                                   *)

LEMMA SubmitFlies ==
  ASSUME TypeOK, NEW k \in Call, NEW c \in Card, NEW v \in Value, Submit(k, c, v)
  PROVE  call'[k] # NoCall
<1> DEFINE new == [committed |-> FALSE, op |-> "save", card |-> c, value |-> v,
                   previous |-> NoBoard, amid |-> {}]
<1>1. new \in Request
  BY DEF Request, Op
<1>2. call'[k] = new
  BY DEF Submit, TypeOK
<1>3. QED BY <1>1, <1>2, BoardAssumption

LEMMA MutateFlies ==
  ASSUME TypeOK, NEW k \in Call, NEW op \in Op, NEW c \in Card, NEW v \in Value,
         Mutate(k, op, c, v)
  PROVE  call'[k] # NoCall
<1> DEFINE new == [committed |-> FALSE, op |-> op, card |-> c, value |-> v,
                   previous |-> cache, amid |-> {}]
<1>1. new \in Request
  BY DEF Mutate, TypeOK, Request
<1>2. Overtaken(Armed, {c}) \in [Call -> {NoCall} \union Request]
  BY OvertakenType
<1>3. call'[k] = new
  BY <1>2 DEF Mutate
<1>4. QED BY <1>1, <1>3, BoardAssumption

LEMMA CommitFlies ==
  ASSUME TypeOK, NEW k \in Call, Commit(k)
  PROVE  call'[k] # NoCall
<1> DEFINE before == Overtaken(Armed \ {k}, {call[k].card})
<1>1. call[k] \in Request /\ {call[k].card} \subseteq Card
  BY RequestFacts DEF Commit
<1>2. before \in [Call -> {NoCall} \union Request]
  BY <1>1, OvertakenType
<1>3. before[k] = call[k]
  BY DEF Overtaken
<1>4. call'[k] = [call[k] EXCEPT !.committed = TRUE]
  BY <1>2, <1>3 DEF Commit
<1>5. call'[k] \in Request
  BY <1>1, <1>4 DEF Request
<1>6. QED BY <1>5, BoardAssumption

LEMMA CleanStep ==
  ASSUME TypeOK, CleanInv, [Next]_vars
  PROVE  CleanInv'
<1> SUFFICES ASSUME last' = "success", Flying' = {}
    PROVE  (fetch # NoFetch => fetch.tangled = {})' /\ (stale \/ tangled = {})'
  BY DEF CleanInv
<1>1. CASE Visit \/ Leave \/ FetchFails \/ UNCHANGED vars
  BY <1>1 DEF Visit, Leave, FetchFails, vars, CleanInv, Flying, Unread
<1>2. CASE Read
  <2>1. fetch'.tangled = fetch.tangled
    BY <1>2, FetchedType DEF Read, Reading
  <2>2. QED BY <1>2, <2>1 DEF Read, CleanInv, Flying
<1>3. CASE Arrive
  <2>1. \A n \in Call : Kept(call'[n], call[n])
    BY <1>3, ReplacedFacts DEF Arrive
  <2>2. Flying = {}
    BY <2>1 DEF Flying, Kept
  <2>3. QED BY <1>3, <2>2 DEF Arrive, HasRead, CleanInv
<1>4. CASE \E k \in Call : Succeed(k)
  <2>1. PICK k \in Call : Succeed(k)
    BY <1>4
  <2>2. Invalidate /\ ~Joins
    BY <2>1 DEF Succeed
  <2>3. stale' /\ (fetch' = NoFetch \/ fetch' = Unread)
    BY <2>2 DEF Invalidate, Joins
  <2>4. QED BY <2>3 DEF Unread
<1>5. CASE \E k \in Call : Commit(k)
  BY <1>5, CommitFlies DEF Flying
<1>6. CASE Reload \/ \E k \in Call : Fail(k)
  BY <1>6 DEF Reload, Fail
<1>7. CASE \E c \in Card, v \in Value : ForeignWrite(c, v)
  BY <1>7 DEF ForeignWrite
<1>8. CASE \E k \in Call, c \in Card, v \in Value : Submit(k, c, v)
  BY <1>8, SubmitFlies DEF Flying
<1>9. CASE \E k \in Call, c \in Card, v \in Value : \E op \in Optimistic : Mutate(k, op, c, v)
  BY <1>9, MutateFlies DEF Flying, Optimistic, Op
<1>10. QED BY <1>1, <1>2, <1>3, <1>4, <1>5, <1>6, <1>7, <1>8, <1>9 DEF Next

-----------------------------------------------------------------------------

LEMMA InitInv == Init => BoardInv
<1> SUFFICES ASSUME Init PROVE BoardInv
  OBVIOUS
<1>1. TypeOK
  BY InitType
<1>2. ScreenInv /\ SnapshotInv /\ FetchInv /\ CleanInv
  BY DEF Init, ScreenInv, SnapshotInv, FetchInv, CleanInv, HasRead, Armed, Flying
<1>3. QED BY <1>1, <1>2 DEF BoardInv

LEMMA StepInv == BoardInv /\ [Next]_vars => BoardInv'
BY TypeStep, ScreenStep, FetchStep, CleanStep DEF BoardInv

LEMMA AlwaysInv == Spec => []BoardInv
BY InitInv, StepInv, PTL DEF Spec

\* Whatever overlaps, a page at rest shows what is in the database, but for the
\* rows that are counted as tangled.
THEOREM ShowsServerHolds == Spec => []ShowsServer
<1>1. BoardInv => ShowsServer
  BY DEF BoardInv, ScreenInv, Right, Ahead, Armed, ShowsServer, Rest
<1>2. QED BY <1>1, AlwaysInv, PTL

\* A success whose list has been read again leaves nothing tangled.
THEOREM SuccessCleansHolds == Spec => []SuccessCleans
<1>1. BoardInv => SuccessCleans
  BY DEF BoardInv, CleanInv, SuccessCleans, Rest
<1>2. QED BY <1>1, AlwaysInv, PTL
=============================================================================
