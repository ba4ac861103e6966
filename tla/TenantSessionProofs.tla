------------------------- MODULE TenantSessionProofs -------------------------
(***************************************************************************)
(* The invariants of TenantSession, for any sessions, schemas and          *)
(* connections and a pool that keeps at least one connection.              *)
(***************************************************************************)
EXTENDS TenantSession, TLAPS

\* What the constants have to be.
Names ==
  /\ NoConn \notin Conn
  /\ NoSchema \notin Path
  /\ Public \in Path
  /\ Keep \in Nat \ {0}

\* A connection is in the hands of one session or in one place of the queue.
Exclusive ==
  /\ \A r, s \in Session : conn[r] = conn[s] /\ conn[r] # NoConn => r = s
  /\ \A i \in 1..Len(idle) : idle[i] \notin Held
  /\ \A i, j \in 1..Len(idle) : idle[i] = idle[j] => i = j

Sure == \A s \in sure : conn[s] # NoConn /\ At(s)

OpenHolds == \A s \in Session : conn[s] # NoConn => IsOpen(s)

\* With one session at a time the pool has at most one connection, and it is the
\* one the session works with.
Single ==
  overlapped \/
  /\ \A r, s \in Session : IsOpen(r) /\ IsOpen(s) => r = s
  /\ \A s \in Session : conn[s] # NoConn => idle = <<>>
  /\ Len(idle) <= 1

SingleIsHome ==
  overlapped \/ dropped \/
  \A s \in Session : IsOpen(s) =>
    IF conn[s] # NoConn THEN At(s)
                        ELSE idle # <<>> /\ path[Head(idle)] = home[s]

PoolInv ==
  /\ TypeOK
  /\ Exclusive
  /\ Sure
  /\ OpenHolds
  /\ Single
  /\ SingleIsHome

LEMMA PoolInit == ASSUME Names, Init PROVE PoolInv
<1>1. TypeOK
  <2>1. idle \in Seq(Conn)
    BY DEF Init
  <2>2. overlapped \in BOOLEAN /\ dropped \in BOOLEAN /\ sure \subseteq Session
    BY DEF Init
  <2>3. QED
    BY <2>1, <2>2 DEF Names, Init, TypeOK
<1>2. idle = <<>> /\ Len(idle) = 0
  BY DEF Init
<1>3. Exclusive
  BY <1>2 DEF Init, Exclusive
<1>4. Sure /\ OpenHolds
  BY DEF Init, Sure, OpenHolds
<1>5. Single /\ SingleIsHome
  BY <1>2 DEF Init, Single, SingleIsHome, IsOpen
<1>6. QED
  BY <1>1, <1>3, <1>4, <1>5 DEF PoolInv

\* What taking a connection does, whatever its path.
LEMMA TakesOne ==
  ASSUME Names, PoolInv, NEW s \in Session, NEW c \in Conn, Checkout(s, c)
  PROVE  /\ Exclusive'
         /\ \A r \in Session : conn[r] # c
         /\ conn' \in [Session -> Conn \union {NoConn}] /\ idle' \in Seq(Conn)
         /\ conn'[s] = c /\ \A r \in Session : r # s => conn'[r] = conn[r]
         /\ overlapped \/ idle' = <<>>
         /\ idle # <<>> => c = Head(idle)
<1>1. /\ conn \in [Session -> Conn \union {NoConn}] /\ idle \in Seq(Conn)
      /\ c # NoConn /\ Exclusive /\ Single
  BY DEF PoolInv, TypeOK, Names
<1>2. c \notin Held
  BY <1>1 DEF Checkout, Exclusive
<1>3. \A r \in Session : conn[r] # c
  BY <1>2 DEF Held
<1>4. /\ conn' \in [Session -> Conn \union {NoConn}] /\ idle' \in Seq(Conn)
      /\ conn'[s] = c /\ \A r \in Session : r # s => conn'[r] = conn[r]
  BY <1>1 DEF Checkout
<1>5. \A i \in 1..Len(idle') : idle'[i] = idle[i + 1] /\ i + 1 \in 1..Len(idle)
  BY <1>1 DEF Checkout
<1>6. \A i \in 1..Len(idle') : idle'[i] # c
  BY <1>1, <1>5 DEF Checkout, Exclusive
<1>7. Exclusive'
  <2>1. \A q, r \in Session : conn'[q] = conn'[r] /\ conn'[q] # NoConn => q = r
    BY <1>1, <1>3, <1>4 DEF Exclusive
  <2>2. \A i \in 1..Len(idle') : idle'[i] \notin Held'
    BY <1>1, <1>4, <1>5, <1>6 DEF Exclusive, Held
  <2>3. \A i, j \in 1..Len(idle') : idle'[i] = idle'[j] => i = j
    BY <1>1, <1>5 DEF Exclusive
  <2>4. QED
    BY <2>1, <2>2, <2>3 DEF Exclusive
<1>8. overlapped \/ idle' = <<>>
  BY <1>1 DEF Single, Checkout
<1>9. QED
  BY <1>1, <1>3, <1>4, <1>7, <1>8 DEF Checkout

\* What giving one back does.
LEMMA GivesOne ==
  ASSUME Names, PoolInv, NEW s \in Session, conn[s] # NoConn, NEW p \in Path,
         GiveBack(s, p)
  PROVE  /\ Exclusive'
         /\ conn' \in [Session -> Conn \union {NoConn}] /\ idle' \in Seq(Conn)
         /\ path' \in [Conn -> Path] /\ saved' \in [Conn -> Path]
         /\ conn'[s] = NoConn /\ \A r \in Session : r # s => conn'[r] = conn[r]
         /\ \A r \in Session : r # s /\ conn[r] # NoConn => path'[conn[r]] = path[conn[r]]
         /\ overlapped \/ (idle' = <<conn[s]>> /\ path'[conn[s]] = p)
<1>1. /\ conn \in [Session -> Conn \union {NoConn}] /\ idle \in Seq(Conn)
      /\ path \in [Conn -> Path] /\ saved \in [Conn -> Path]
      /\ conn[s] \in Conn /\ Exclusive /\ Single /\ Public \in Path
  BY DEF PoolInv, TypeOK, Names
<1>2. /\ conn' \in [Session -> Conn \union {NoConn}]
      /\ conn'[s] = NoConn /\ \A r \in Session : r # s => conn'[r] = conn[r]
  BY <1>1 DEF GiveBack
<1>3. /\ path' \in [Conn -> Path] /\ saved' \in [Conn -> Path]
      /\ \A c \in Conn : c # conn[s] => path'[c] = path[c]
  BY <1>1 DEF GiveBack, Becomes
<1>4. idle' = idle \/ idle' = Append(idle, conn[s])
  BY DEF GiveBack
<1>5. idle' \in Seq(Conn)
  BY <1>1, <1>4
<1>6. \A i \in 1..Len(idle') :
        \/ i \in 1..Len(idle) /\ idle'[i] = idle[i]
        \/ i = Len(idle) + 1 /\ idle'[i] = conn[s]
  BY <1>1, <1>4
<1>7. Exclusive'
  <2>1. \A q, r \in Session : conn'[q] = conn'[r] /\ conn'[q] # NoConn => q = r
    BY <1>1, <1>2 DEF Exclusive
  <2>2. \A i \in 1..Len(idle') : idle'[i] \notin Held'
    BY <1>1, <1>2, <1>6 DEF Exclusive, Held, Names
  <2>3. \A i \in 1..Len(idle) : idle[i] # conn[s]
    BY <1>1 DEF Exclusive, Held
  <2>4. \A i, j \in 1..Len(idle') : idle'[i] = idle'[j] => i = j
    BY <1>1, <1>6, <2>3 DEF Exclusive
  <2>5. QED
    BY <2>1, <2>2, <2>4 DEF Exclusive
<1>8. \A r \in Session : r # s /\ conn[r] # NoConn => path'[conn[r]] = path[conn[r]]
  BY <1>1, <1>3 DEF Exclusive
<1>9. overlapped \/ (idle' = <<conn[s]>> /\ path'[conn[s]] = p)
  <2>1. overlapped \/ idle = <<>>
    BY <1>1 DEF Single
  <2>2. idle = <<>> => idle' = <<conn[s]>> /\ path'[conn[s]] = p
    BY <1>1 DEF GiveBack, Becomes, Names
  <2>3. QED
    BY <2>1, <2>2
<1>10. QED
  BY <1>2, <1>3, <1>5, <1>7, <1>8, <1>9

LEMMA OpenStep ==
  ASSUME Names, PoolInv, NEW s \in Session, NEW t \in Path, NEW c \in Conn, Open(s, t, c)
  PROVE  PoolInv'
<1>1. /\ TypeOK /\ Sure /\ OpenHolds /\ Single
      /\ home' = [home EXCEPT ![s] = t] /\ ~IsOpen(s) /\ sure' = sure \union {s}
      /\ overlapped' = (overlapped \/ \E r \in Session : IsOpen(r)) /\ Checkout(s, c)
  BY DEF PoolInv, Open
<1>2. PICK p \in Path : Finds(c, p) /\ Becomes(c, t, p)
  BY DEF Open
<1>3. /\ Exclusive'
      /\ \A r \in Session : conn[r] # c
      /\ conn' \in [Session -> Conn \union {NoConn}] /\ idle' \in Seq(Conn)
      /\ conn'[s] = c /\ \A r \in Session : r # s => conn'[r] = conn[r]
      /\ overlapped \/ idle' = <<>>
  BY <1>1, TakesOne
<1>4. /\ path' \in [Conn -> Path] /\ saved' \in [Conn -> Path] /\ path'[c] = t
      /\ \A d \in Conn : d # c => path'[d] = path[d]
  BY <1>1, <1>2 DEF TypeOK, Becomes
<1>5. home'[s] = t /\ \A r \in Session : r # s => home'[r] = home[r]
  BY <1>1 DEF TypeOK
<1>6. c # NoConn /\ t # NoSchema
  BY DEF Names
<1>7. TypeOK'
  BY <1>1, <1>2, <1>3, <1>4 DEF TypeOK, Finds
<1>8. Sure'
  <2>1. ASSUME NEW r \in sure', r # s PROVE conn'[r] # NoConn /\ At(r)'
    <3>1. r \in Session /\ r \in sure /\ conn[r] # NoConn /\ At(r) /\ conn[r] \in Conn
      BY <1>1, <2>1 DEF TypeOK, Sure
    <3>2. QED
      BY <3>1, <2>1, <1>3, <1>4, <1>5 DEF At
  <2>2. conn'[s] # NoConn /\ At(s)'
    BY <1>3, <1>4, <1>5, <1>6 DEF At
  <2>3. QED
    BY <2>1, <2>2 DEF Sure
<1>9. OpenHolds'
  BY <1>1, <1>3, <1>5, <1>6 DEF OpenHolds, IsOpen
<1>10. overlapped' \/ \A r \in Session : r # s => ~IsOpen(r) /\ ~IsOpen(r)'
  BY <1>1, <1>5 DEF IsOpen
<1>11. overlapped' \/ (~overlapped /\ idle' = <<>> /\ Len(idle') = 0)
  <2>1. CASE overlapped
    BY <1>1, <2>1
  <2>2. CASE ~overlapped
    BY <1>3, <2>2
  <2>3. QED
    BY <2>1, <2>2
<1>12. Single'
  BY <1>10, <1>11 DEF Single
<1>13. SingleIsHome'
  BY <1>3, <1>4, <1>5, <1>6, <1>10 DEF SingleIsHome, At
<1>14. QED
  BY <1>3, <1>7, <1>8, <1>9, <1>12, <1>13 DEF PoolInv

LEMMA ResumeStep ==
  ASSUME Names, PoolInv, NEW s \in Session, NEW c \in Conn, Resume(s, c)
  PROVE  PoolInv'
<1>1. /\ TypeOK /\ Sure /\ OpenHolds /\ Single /\ SingleIsHome /\ IsOpen(s)
      /\ home' = home /\ sure' = sure /\ overlapped' = overlapped /\ Checkout(s, c)
      /\ conn[s] = NoConn
  BY DEF PoolInv, Resume, Checkout
<1>2. PICK p \in Path : Finds(c, p) /\ Becomes(c, p, p)
  BY DEF Resume
<1>3. /\ Exclusive'
      /\ \A r \in Session : conn[r] # c
      /\ conn' \in [Session -> Conn \union {NoConn}] /\ idle' \in Seq(Conn)
      /\ conn'[s] = c /\ \A r \in Session : r # s => conn'[r] = conn[r]
      /\ overlapped \/ idle' = <<>>
      /\ idle # <<>> => c = Head(idle)
  BY <1>1, TakesOne
<1>4. /\ path' \in [Conn -> Path] /\ saved' \in [Conn -> Path] /\ path'[c] = p
      /\ \A d \in Conn : d # c => path'[d] = path[d]
  BY <1>1, <1>2 DEF TypeOK, Becomes
<1>5. c # NoConn
  BY DEF Names
<1>6. TypeOK'
  BY <1>1, <1>2, <1>3, <1>4 DEF TypeOK, Finds
<1>7. Sure'
  <2>1. ASSUME NEW r \in sure PROVE conn'[r] # NoConn /\ At(r)'
    <3>1. r \in Session /\ conn[r] # NoConn /\ At(r) /\ conn[r] \in Conn /\ r # s
      BY <1>1, <2>1 DEF TypeOK, Sure
    <3>2. QED
      BY <3>1, <1>1, <1>3, <1>4 DEF At
  <2>2. QED
    BY <1>1, <2>1 DEF Sure
<1>8. OpenHolds'
  BY <1>1, <1>3 DEF OpenHolds, IsOpen
<1>9. overlapped' \/ \A r \in Session : r # s => ~IsOpen(r)'
  BY <1>1 DEF Single, IsOpen
<1>10. Single'
  <2>1. overlapped' \/ (idle' = <<>> /\ Len(idle') = 0)
    BY <1>1, <1>3
  <2>2. QED
    BY <2>1, <1>9 DEF Single
<1>11. SingleIsHome'
  <2>1. overlapped \/ dropped \/ (idle # <<>> /\ path[Head(idle)] = home[s])
    BY <1>1 DEF SingleIsHome
  <2>2. overlapped \/ dropped' \/ p = home[s]
    BY <1>2, <1>3, <2>1 DEF Finds
  <2>3. QED
    BY <2>2, <1>1, <1>3, <1>4, <1>5, <1>9 DEF SingleIsHome, At
<1>12. QED
  BY <1>3, <1>6, <1>7, <1>8, <1>10, <1>11 DEF PoolInv

LEMMA SetAgainStep ==
  ASSUME Names, PoolInv, NEW s \in Session, NEW t \in Path, SetAgain(s, t)
  PROVE  PoolInv'
<1>1. /\ TypeOK /\ Sure /\ OpenHolds /\ Single /\ SingleIsHome /\ IsOpen(s) /\ Exclusive
      /\ conn[s] # NoConn /\ conn[s] \in Conn
      /\ home' = [home EXCEPT ![s] = t] /\ path' = [path EXCEPT ![conn[s]] = t]
      /\ sure' = sure \union {s} /\ conn' = conn /\ idle' = idle /\ saved' = saved
      /\ overlapped' = overlapped /\ dropped' = dropped /\ t # NoSchema
  BY DEF PoolInv, SetAgain, TypeOK, Names
<1>2. TypeOK'
  BY <1>1 DEF TypeOK
<1>3. Exclusive'
  BY <1>1 DEF Exclusive, Held
<1>4. \A r \in Session : r # s =>
        home'[r] = home[r] /\ (conn[r] # NoConn => path'[conn[r]] = path[conn[r]])
  BY <1>1 DEF TypeOK, Exclusive
<1>5. home'[s] = t /\ path'[conn[s]] = t
  BY <1>1 DEF TypeOK
<1>6. Sure'
  BY <1>1, <1>4, <1>5 DEF Sure, At, TypeOK
<1>7. OpenHolds' /\ Single'
  BY <1>1, <1>4, <1>5 DEF OpenHolds, Single, IsOpen
<1>8. SingleIsHome'
  BY <1>1, <1>4, <1>5 DEF SingleIsHome, Single, IsOpen, At
<1>9. QED
  BY <1>2, <1>3, <1>6, <1>7, <1>8 DEF PoolInv

\* A transaction ends: by a commit, a rollback or the end of the session.
LEMMA EndStep ==
  ASSUME Names, PoolInv, NEW s \in Session, conn[s] # NoConn, NEW p \in Path,
         GiveBack(s, p), sure' = sure \ {s}, overlapped' = overlapped,
         dropped' \in BOOLEAN, dropped => dropped',
         \/ home' = home /\ (dropped' \/ p = path[conn[s]])
         \/ home' = [home EXCEPT ![s] = NoSchema]
  PROVE  PoolInv'
<1>1. TypeOK /\ Sure /\ OpenHolds /\ Single /\ SingleIsHome
  BY DEF PoolInv
<1>2. /\ Exclusive'
      /\ conn' \in [Session -> Conn \union {NoConn}] /\ idle' \in Seq(Conn)
      /\ path' \in [Conn -> Path] /\ saved' \in [Conn -> Path]
      /\ conn'[s] = NoConn /\ \A r \in Session : r # s => conn'[r] = conn[r]
      /\ \A r \in Session : r # s /\ conn[r] # NoConn => path'[conn[r]] = path[conn[r]]
      /\ overlapped \/ (idle' = <<conn[s]>> /\ path'[conn[s]] = p)
  BY GivesOne
<1>3. /\ home' \in [Session -> Path \union {NoSchema}]
      /\ \A r \in Session : r # s => home'[r] = home[r]
      /\ \A r \in Session : IsOpen(r)' => IsOpen(r)
  BY <1>1 DEF TypeOK, IsOpen
<1>4. TypeOK'
  BY <1>1, <1>2, <1>3 DEF TypeOK
<1>5. Sure'
  BY <1>1, <1>2, <1>3 DEF Sure, At, TypeOK
<1>6. OpenHolds'
  BY <1>1, <1>2, <1>3 DEF OpenHolds, IsOpen
<1>7. IsOpen(s)
  BY <1>1 DEF OpenHolds
<1>8. overlapped \/ \A r \in Session : r # s => ~IsOpen(r)'
  BY <1>1, <1>3, <1>7 DEF Single
<1>9. /\ overlapped \/ (idle' # <<>> /\ Head(idle') = conn[s])
      /\ overlapped \/ Len(idle') = 1
  <2>1. CASE overlapped
    BY <2>1, Zenon
  <2>2. CASE ~overlapped
    <3>1. idle' = <<conn[s]>>
      BY <1>2, <2>2
    <3>2. Len(<<conn[s]>>) = 1 /\ Head(<<conn[s]>>) = conn[s] /\ <<conn[s]>> # <<>>
      OBVIOUS
    <3>3. QED
      BY <3>1, <3>2
  <2>3. QED
    BY <2>1, <2>2
<1>10. Single'
  <2>1. overlapped \/ \A r \in Session : conn'[r] = NoConn
    BY <1>2, <1>6, <1>8 DEF OpenHolds
  <2>2. overlapped \/ \A q, r \in Session : IsOpen(q)' /\ IsOpen(r)' => q = r
    BY <1>8
  <2>3. overlapped \/ Len(idle') = 1
    BY <1>9
  <2>4. Len(idle') = 1 => Len(idle') <= 1
    OBVIOUS
  <2>5. QED
    BY <2>1, <2>2, <2>3, <2>4 DEF Single
<1>11. SingleIsHome'
  <2>1. overlapped \/ dropped' \/ At(s)
    BY <1>1, <1>7 DEF SingleIsHome
  <2>2. overlapped \/ dropped' \/ ~IsOpen(s)' \/ p = home'[s]
    BY <2>1, <1>1 DEF IsOpen, At, TypeOK
  <2>3. QED
    BY <2>2, <1>2, <1>8, <1>9 DEF SingleIsHome
<1>12. QED
  BY <1>2, <1>4, <1>5, <1>6, <1>10, <1>11 DEF PoolInv

LEMMA PoolStep == ASSUME Names, PoolInv, [Next]_vars PROVE PoolInv'
<1>1. CASE UNCHANGED vars
  BY <1>1 DEF vars, pool, PoolInv, TypeOK, Exclusive, Held, Sure, OpenHolds, Single,
              SingleIsHome, IsOpen, At
<1>2. ASSUME NEW s \in Session, NEW t \in Path, NEW c \in Conn, Open(s, t, c)
      PROVE  PoolInv'
  BY <1>2, OpenStep
<1>3. ASSUME NEW s \in Session, NEW c \in Conn, Resume(s, c) PROVE PoolInv'
  BY <1>3, ResumeStep
<1>4. ASSUME NEW s \in Session, NEW t \in Path, SetAgain(s, t) PROVE PoolInv'
  BY <1>4, SetAgainStep
<1>5. \A s \in Session : conn[s] # NoConn => path[conn[s]] \in Path /\ saved[conn[s]] \in Path
  BY DEF PoolInv, TypeOK
<1>6. ASSUME NEW s \in Session, Commit(s) PROVE PoolInv'
  BY <1>5, <1>6, EndStep DEF Commit, PoolInv, TypeOK
<1>7. ASSUME NEW s \in Session, RollBack(s) PROVE PoolInv'
  BY <1>5, <1>7, EndStep DEF RollBack
<1>8. ASSUME NEW s \in Session, Close(s) PROVE PoolInv'
  <2>1. CASE conn[s] # NoConn
    BY <1>5, <1>8, <2>1, EndStep DEF Close, PoolInv, TypeOK
  <2>2. CASE conn[s] = NoConn
    <3>1. /\ home' = [home EXCEPT ![s] = NoSchema] /\ sure' = sure \ {s}
          /\ UNCHANGED <<conn, idle, path, saved, overlapped, dropped>>
      BY <1>8, <2>2 DEF Close, pool
    <3>2. TypeOK /\ TypeOK' /\ Exclusive'
      BY <3>1 DEF PoolInv, TypeOK, Exclusive, Held
    <3>3. /\ \A r \in Session : r # s => home'[r] = home[r]
          /\ ~IsOpen(s)'
      BY <3>1, <3>2 DEF TypeOK, IsOpen
    <3>4. Sure' /\ OpenHolds' /\ Single' /\ SingleIsHome'
      BY <2>2, <3>1, <3>2, <3>3
         DEF PoolInv, Sure, OpenHolds, Single, SingleIsHome, IsOpen, At, TypeOK
    <3>5. QED
      BY <3>2, <3>4 DEF PoolInv
  <2>3. QED
    BY <2>1, <2>2
<1>9. QED
  BY <1>1, <1>2, <1>3, <1>4, <1>6, <1>7, <1>8 DEF Next

LEMMA PoolAlways == ASSUME Names PROVE Spec => []PoolInv
<1>1. Init => PoolInv
  BY PoolInit
<1>2. PoolInv /\ [Next]_vars => PoolInv'
  BY PoolStep
<1>3. QED
  BY <1>1, <1>2, PTL DEF Spec

\* What SET search_path as the first statement of a session guarantees: the
\* transaction it begins works in the schema it names.
THEOREM FirstTransactionHolds == ASSUME Names PROVE Spec => []FirstTransactionIsHome
<1>1. PoolInv => FirstTransactionIsHome
  BY DEF PoolInv, Sure, FirstTransactionIsHome
<1>2. QED
  BY <1>1, PoolAlways, PTL

\* Sessions that follow one another stay in their schemas, whatever they commit.
THEOREM AloneHolds == ASSUME Names PROVE Spec => []AloneStaysHome
<1>1. PoolInv => AloneStaysHome
  BY DEF PoolInv, OpenHolds, SingleIsHome, AloneStaysHome, LockedToTenant
<1>2. QED
  BY <1>1, PoolAlways, PTL
=============================================================================
