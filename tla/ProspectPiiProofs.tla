-------------------------- MODULE ProspectPiiProofs --------------------------
(***************************************************************************)
(* Theorems about ProspectPii, for any number of rows, addresses, sessions *)
(* and officers, with or without an encryption key.                        *)
(***************************************************************************)
EXTENDS ProspectPii, TLAPS

-----------------------------------------------------------------------------
(* Values, rows and objects.                                                *)

LEMMA ValueType ==
  /\ \A t \in Texts : Clear(t) \in Values /\ Seal(t) \in Values
  /\ Purge \in Values
  /\ \A f \in Fields : Contents(f) \subseteq Texts
BY TextAssumption DEF Clear, Seal, Purge, Values, Texts, Contents

LEMMA EmptyType == NoRow \in Row /\ NoObject \in Object /\ Silence \in Answer
<1>1. [f \in Fields |-> Purge] \in [Fields -> Values]
  BY ValueType
<1>2. QED
  BY <1>1 DEF NoRow, Row, NoObject, Object, Silence, Answer

LEMMA FetchedType ==
  ASSUME TypeOK, NEW p \in Prospects
  PROVE  Fetched(p) \in Object
<1>1. row[p] \in Row
  BY DEF TypeOK
<1>2. QED
  BY <1>1 DEF Fetched, Row, Object

LEMMA DecryptType ==
  ASSUME NEW h \in Object
  PROVE  /\ Decrypt(h) \in Object
         /\ Decrypt(h).who = h.who
         /\ Decrypt(h).anonymized = h.anonymized
         /\ Decrypt(h).dirty \intersect {"suppressed", "anonymized"}
              = h.dirty \intersect {"suppressed", "anonymized"}
         /\ h.anonymized => Decrypt(h) = h
<1>1. CASE h.anonymized
  BY <1>1 DEF Decrypt
<1>2. CASE ~h.anonymized
  <2> DEFINE pii == [f \in Fields |-> Clear(h.pii[f].text)]
             sealed == {f \in Fields : h.pii[f].sealed}
  <2>1. pii \in [Fields -> Values]
    <3>1. \A f \in Fields : h.pii[f].text \in Texts
      BY DEF Object, Values
    <3>2. QED
      BY <3>1, ValueType
  <2>2. h.dirty \union sealed \in SUBSET Columns
    BY DEF Object, Columns
  <2>3. Decrypt(h) = [h EXCEPT !.pii = pii, !.dirty = h.dirty \union sealed]
    BY <1>2 DEF Decrypt
  <2>4. Decrypt(h) \in Object
    BY <2>1, <2>2, <2>3 DEF Object
  <2>5. sealed \intersect {"suppressed", "anonymized"} = {}
    BY DEF Fields
  <2>6. Decrypt(h).dirty = h.dirty \union sealed /\ Decrypt(h).who = h.who
        /\ Decrypt(h).anonymized = h.anonymized
    BY <2>3 DEF Object
  <2>7. QED
    BY <1>2, <2>4, <2>5, <2>6
<1>3. QED
  BY <1>1, <1>2

\* What a freshly read object is.
LEMMA GotFacts ==
  ASSUME TypeOK, NEW p \in Prospects
  PROVE  /\ Got(p) \in Object /\ Got(p).who = p
         /\ Got(p).anonymized = row[p].anonymized
         /\ Got(p).suppressed \in BOOLEAN
         /\ "suppressed" \notin Got(p).dirty /\ "anonymized" \notin Got(p).dirty
         /\ row[p].anonymized => Got(p).dirty = {}
         /\ Fetched(p).who = p /\ Fetched(p).dirty = {}
         /\ Fetched(p).anonymized = row[p].anonymized
<1>1. Fetched(p) \in Object
  BY FetchedType
<1>2. Fetched(p).dirty = {} /\ Fetched(p).who = p
      /\ Fetched(p).anonymized = row[p].anonymized
  BY DEF Fetched
<1>3. Got(p) \in Object /\ Got(p).who = p /\ Got(p).anonymized = row[p].anonymized
  BY <1>1, <1>2, DecryptType DEF Got
<1>4. Got(p).dirty \intersect {"suppressed", "anonymized"} = {}
  BY <1>1, <1>2, DecryptType DEF Got
<1>5. row[p].anonymized => Got(p).dirty = {}
  BY <1>1, <1>2, DecryptType DEF Got
<1>6. Got(p).suppressed \in BOOLEAN
  BY <1>3 DEF Object
<1>7. QED
  BY <1>2, <1>3, <1>4, <1>5, <1>6

LEMMA AssignFacts ==
  ASSUME NEW h \in Object, NEW g \in SUBSET Fields, NEW texts \in [g -> Texts],
         NEW flag \in BOOLEAN
  PROVE  /\ Assign(h, texts, flag) \in Object
         /\ Assign(h, texts, flag).who = h.who
         /\ Assign(h, texts, flag).anonymized = h.anonymized
         /\ "anonymized" \in Assign(h, texts, flag).dirty => "anonymized" \in h.dirty
<1> DEFINE pii == [f \in Fields |-> IF f \in g THEN Seal(texts[f]) ELSE h.pii[f]]
           new == {f \in g : Seal(texts[f]) # h.pii[f]}
           lift == IF flag = h.suppressed THEN {} ELSE {"suppressed"}
<1>1. pii \in [Fields -> Values]
  BY ValueType DEF Object
<1>2. h.dirty \union new \union lift \in SUBSET Columns
  BY DEF Object, Columns
<1>3. Assign(h, texts, flag)
        = [h EXCEPT !.pii = pii, !.suppressed = flag, !.dirty = h.dirty \union new \union lift]
  BY DEF Assign, Object
<1>4. "anonymized" \notin new \union lift
  BY DEF Fields
<1>5. QED
  BY <1>1, <1>2, <1>3, <1>4 DEF Object

LEMMA EraseFacts ==
  ASSUME NEW h \in Object
  PROVE  /\ Erase(h) \in Object
         /\ Erase(h).who = h.who
         /\ Erase(h).anonymized = TRUE
         /\ \A f \in Fields : Erase(h).pii[f] = Purge
         /\ "suppressed" \in Erase(h).dirty => "suppressed" \in h.dirty
<1> DEFINE pii == [f \in Fields |-> Purge]
           new == {f \in Fields : h.pii[f] # Purge}
           mark == IF h.anonymized THEN {} ELSE {"anonymized"}
<1>1. pii \in [Fields -> Values]
  BY ValueType
<1>2. h.dirty \union new \union mark \in SUBSET Columns
  BY DEF Object, Columns
<1>3. Erase(h) = [h EXCEPT !.pii = pii, !.anonymized = TRUE, !.dirty = h.dirty \union new \union mark]
  BY DEF Erase, Object
<1>4. "suppressed" \notin new \union mark
  BY DEF Fields
<1>5. /\ Erase(h).pii = pii /\ Erase(h).who = h.who
      /\ Erase(h).dirty = h.dirty \union new \union mark
  BY <1>3 DEF Object
<1>6. Erase(h).anonymized = TRUE
  BY <1>3 DEF Object
<1>7. Erase(h) \in Object
  BY <1>1, <1>2, <1>3 DEF Object
<1>8. \A f \in Fields : Erase(h).pii[f] = Purge
  BY <1>5
<1>9. "suppressed" \in Erase(h).dirty => "suppressed" \in h.dirty
  BY <1>4, <1>5
<1>10. QED
  BY <1>5, <1>6, <1>7, <1>8, <1>9

LEMMA FlushedFacts ==
  ASSUME NEW r \in Row, NEW h \in Object
  PROVE  /\ Flushed(r, h) \in Row
         /\ Flushed(r, h).present = r.present
         /\ \A f \in Fields : Flushed(r, h).pii[f] = IF f \in h.dirty THEN h.pii[f] ELSE r.pii[f]
         /\ Flushed(r, h).suppressed = IF "suppressed" \in h.dirty THEN h.suppressed ELSE r.suppressed
         /\ Flushed(r, h).anonymized = IF "anonymized" \in h.dirty THEN h.anonymized ELSE r.anonymized
<1> DEFINE pii == [f \in Fields |-> IF f \in h.dirty THEN h.pii[f] ELSE r.pii[f]]
           sup == IF "suppressed" \in h.dirty THEN h.suppressed ELSE r.suppressed
           anon == IF "anonymized" \in h.dirty THEN h.anonymized ELSE r.anonymized
<1>1. pii \in [Fields -> Values]
  BY DEF Row, Object
<1>2. sup \in BOOLEAN /\ anon \in BOOLEAN
  BY DEF Row, Object
<1>3. Flushed(r, h) = [r EXCEPT !.pii = pii, !.suppressed = sup, !.anonymized = anon]
  BY DEF Flushed, Row
<1>4. Flushed(r, h).pii = pii /\ Flushed(r, h).present = r.present
  BY <1>3 DEF Row
<1>5. Flushed(r, h).suppressed = sup
  BY <1>3 DEF Row
<1>6. Flushed(r, h).anonymized = anon
  BY <1>3 DEF Row
<1>7. Flushed(r, h) \in Row
  BY <1>1, <1>2, <1>3 DEF Row
<1>8. QED
  BY <1>4, <1>5, <1>6, <1>7

LEMMA SuppressedFacts ==
  ASSUME NEW rows \in [Prospects -> Row], NEW ps
  PROVE  /\ Suppressed(rows, ps) \in [Prospects -> Row]
         /\ \A p \in Prospects :
              /\ Suppressed(rows, ps)[p].present = rows[p].present
              /\ Suppressed(rows, ps)[p].pii = rows[p].pii
              /\ Suppressed(rows, ps)[p].anonymized = rows[p].anonymized
         /\ \A p \in Prospects : rows[p].suppressed => Suppressed(rows, ps)[p].suppressed
BY DEF Suppressed, Row

-----------------------------------------------------------------------------
(* The inductive invariant.                                                 *)

LEMMA InvInit == Init => PiiInv
<1> SUFFICES ASSUME Init PROVE PiiInv
  OBVIOUS
<1>1. TypeOK
  BY EmptyType DEF Init, TypeOK, Operation
<1>2. RowInv
  BY DEF Init, RowInv, NoRow
<1>3. ASSUME NEW s \in Sessions PROVE HandInv(s)
  BY DEF Init, HandInv, NoObject
<1>4. QED
  BY <1>1, <1>2, <1>3 DEF PiiInv

\* The rows may change, but none disappears: the sessions do not notice.
LEMMA RowFrame ==
  ASSUME PiiInv, UNCHANGED <<pc, op, hand>>,
         row' \in [Prospects -> Row],
         \A p \in Prospects : row[p].present => row'[p].present,
         \A p \in Prospects : row'[p].anonymized => row'[p].present,
         doomed' \in [Officers -> SUBSET Prospects],
         \A o \in Officers : \A p \in doomed'[o] : row[p].present,
         answer' \in Answer
  PROVE  PiiInv'
<1>1. TypeOK'
  BY DEF PiiInv, TypeOK
<1>2. RowInv'
  BY DEF RowInv, PiiInv, TypeOK
<1>3. ASSUME NEW s \in Sessions PROVE HandInv(s)'
  BY DEF PiiInv, HandInv
<1>4. QED
  BY <1>1, <1>2, <1>3 DEF PiiInv

\* A step of one session: what remains to be shown is about that session.
LEMMA SessionFrame ==
  ASSUME PiiInv, NEW s \in Sessions,
         NEW a \in {"idle", "commit", "refresh", "score"},
         NEW o \in Operation, NEW h \in Object,
         pc' = [pc EXCEPT ![s] = a],
         op' = [op EXCEPT ![s] = o],
         hand' = [hand EXCEPT ![s] = h],
         row' \in [Prospects -> Row],
         \A p \in Prospects : row[p].present => row'[p].present,
         \A p \in Prospects : row'[p].anonymized => row'[p].present,
         UNCHANGED doomed, answer' \in Answer,
         HandInv(s)'
  PROVE  PiiInv'
<1>1. TypeOK'
  BY DEF PiiInv, TypeOK
<1>2. RowInv'
  BY DEF RowInv, PiiInv, TypeOK
<1>3. ASSUME NEW t \in Sessions, t # s PROVE HandInv(t)'
  <2>1. pc'[t] = pc[t] /\ op'[t] = op[t] /\ hand'[t] = hand[t] /\ HandInv(t)
    BY <1>3 DEF PiiInv, TypeOK
  <2>2. QED
    BY <2>1 DEF HandInv
<1>4. QED
  BY <1>1, <1>2, <1>3 DEF PiiInv

LEMMA BeginInv ==
  ASSUME PiiInv, NEW s \in Sessions, NEW o \in Operation, NEW h \in Object,
         Begin(s, o, h), row[h.who].present, h.who \in Prospects,
         h.anonymized => \A f \in h.dirty \intersect Fields : h.pii[f] = Purge,
         "anonymized" \in h.dirty => h.anonymized,
         "suppressed" \in h.dirty => o = "update"
  PROVE  PiiInv'
<1>1. /\ pc' = [pc EXCEPT ![s] = "commit"] /\ op' = [op EXCEPT ![s] = o]
      /\ hand' = [hand EXCEPT ![s] = h] /\ row' = row /\ answer' = Silence
      /\ UNCHANGED doomed
  BY DEF Begin
<1>2. row \in [Prospects -> Row] /\ \A p \in Prospects : row[p].anonymized => row[p].present
  BY DEF PiiInv, TypeOK, RowInv
<1>3. pc'[s] = "commit" /\ op'[s] = o /\ hand'[s] = h
  BY <1>1 DEF PiiInv, TypeOK
<1>4. HandInv(s)'
  BY <1>1, <1>3 DEF HandInv
<1>5. QED
  BY <1>1, <1>2, <1>4, EmptyType, SessionFrame

LEMMA LoadInv ==
  ASSUME PiiInv, NEW s \in Sessions, NEW p \in Prospects,
         Update(s, p) \/ Enrich(s, p) \/ Profile(s, p) \/ Delete(s, p) \/ Withdraw(s, p)
  PROVE  PiiInv'
<1>1. TypeOK /\ row[p].present
  BY DEF PiiInv, Update, Enrich, Profile, Delete, Withdraw, Visible
<1>2. /\ Got(p) \in Object /\ Got(p).who = p /\ Got(p).suppressed \in BOOLEAN
      /\ "suppressed" \notin Got(p).dirty /\ "anonymized" \notin Got(p).dirty
      /\ Got(p).anonymized = row[p].anonymized
      /\ row[p].anonymized => Got(p).dirty = {}
  BY <1>1, GotFacts
<1>3. ASSUME NEW o \in Operation, Begin(s, o, Got(p)) PROVE PiiInv'
  BY <1>1, <1>2, <1>3, BeginInv
<1>4. CASE Enrich(s, p) \/ Profile(s, p) \/ Withdraw(s, p)
  BY <1>3, <1>4 DEF Enrich, Profile, Withdraw, Operation
<1>5. CASE Delete(s, p)
  <2>1. /\ Erase(Got(p)) \in Object /\ Erase(Got(p)).who = p
        /\ Erase(Got(p)).anonymized = TRUE
        /\ \A f \in Fields : Erase(Got(p)).pii[f] = Purge
        /\ "suppressed" \notin Erase(Got(p)).dirty
    BY <1>2, EraseFacts
  <2>2. Begin(s, "delete", Erase(Got(p))) /\ "delete" \in Operation
    BY <1>5 DEF Delete, Operation
  <2>3. QED
    BY <1>1, <2>1, <2>2, BeginInv
<1>6. CASE Update(s, p)
  <2>1. ~row[p].anonymized
    BY <1>6 DEF Update, Visible
  <2>2. PICK g \in SUBSET Fields, flag \in BOOLEAN :
          \E texts \in {t \in [g -> Texts] : \A f \in g : t[f] \in Contents(f)} :
            Begin(s, "update", Assign(Got(p), texts, flag))
    BY <1>6 DEF Update
  <2>3. PICK texts \in [g -> Texts] : Begin(s, "update", Assign(Got(p), texts, flag))
    BY <2>2
  <2>4. /\ Assign(Got(p), texts, flag) \in Object
        /\ Assign(Got(p), texts, flag).who = p
        /\ Assign(Got(p), texts, flag).anonymized = Got(p).anonymized
        /\ "anonymized" \notin Assign(Got(p), texts, flag).dirty
    BY <1>2, AssignFacts
  <2>5. "update" \in Operation
    BY DEF Operation
  <2>6. ~Assign(Got(p), texts, flag).anonymized
    BY <1>2, <2>1, <2>4
  <2>7. QED
    BY <1>1, <2>3, <2>4, <2>5, <2>6, BeginInv
<1>7. QED
  BY <1>4, <1>5, <1>6

\* What a commit of session s leaves of a row.
LEMMA CommittedFacts ==
  ASSUME PiiInv, NEW s \in Sessions, pc[s] # "idle", NEW ps,
         NEW p \in Prospects
  PROVE  LET rows == [Suppressed(row, ps) EXCEPT ![hand[s].who] = Flushed(@, hand[s])]
         IN /\ rows \in [Prospects -> Row]
            /\ rows[p].present = row[p].present
            /\ row[p].anonymized => rows[p].anonymized
            /\ rows[p].anonymized => rows[p].present
            /\ p # hand[s].who => rows[p].pii = row[p].pii
            /\ p # hand[s].who /\ row[p].suppressed => rows[p].suppressed
            /\ p = hand[s].who => \A f \in Fields :
                 rows[p].pii[f] = IF f \in hand[s].dirty THEN hand[s].pii[f] ELSE row[p].pii[f]
            /\ "suppressed" \notin hand[s].dirty /\ row[p].suppressed => rows[p].suppressed
<1> DEFINE raw == Suppressed(row, ps)
           h == hand[s]
           rows == [raw EXCEPT ![h.who] = Flushed(raw[h.who], h)]
<1>1. /\ row \in [Prospects -> Row] /\ h \in Object /\ h.who \in Prospects
      /\ row[h.who].present
      /\ "anonymized" \in h.dirty => h.anonymized
      /\ \A q \in Prospects : row[q].anonymized => row[q].present
  BY DEF PiiInv, TypeOK, HandInv, RowInv
<1>2. /\ raw \in [Prospects -> Row]
      /\ raw[p].present = row[p].present /\ raw[p].pii = row[p].pii
      /\ raw[p].anonymized = row[p].anonymized
      /\ row[p].suppressed => raw[p].suppressed
      /\ raw[h.who].present = row[h.who].present
  <2>1. raw \in [Prospects -> Row]
    BY <1>1, SuppressedFacts
  <2>2. \A q \in Prospects : /\ raw[q].present = row[q].present
                             /\ raw[q].pii = row[q].pii
                             /\ raw[q].anonymized = row[q].anonymized
    BY <1>1, SuppressedFacts
  <2>3. \A q \in Prospects : row[q].suppressed => raw[q].suppressed
    BY <1>1, SuppressedFacts, Zenon
  <2>4. QED
    BY <1>1, <2>1, <2>2, <2>3
<1>3. raw[h.who] \in Row
  BY <1>1, <1>2
<1>4. /\ Flushed(raw[h.who], h) \in Row
      /\ Flushed(raw[h.who], h).present = raw[h.who].present
      /\ \A f \in Fields : Flushed(raw[h.who], h).pii[f] = IF f \in h.dirty THEN h.pii[f] ELSE raw[h.who].pii[f]
      /\ Flushed(raw[h.who], h).suppressed = IF "suppressed" \in h.dirty THEN h.suppressed ELSE raw[h.who].suppressed
      /\ Flushed(raw[h.who], h).anonymized = IF "anonymized" \in h.dirty THEN h.anonymized ELSE raw[h.who].anonymized
  BY <1>1, <1>3, FlushedFacts
<1>5. rows \in [Prospects -> Row]
  BY <1>2, <1>4
<1>6. CASE p # h.who
  <2>1. rows[p] = raw[p]
    BY <1>2, <1>6
  <2>2. QED
    BY <1>1, <1>2, <1>5, <1>6, <2>1
<1>7. CASE p = h.who
  <2>1. rows[p] = Flushed(raw[h.who], h)
    BY <1>2, <1>7
  <2>2. rows[p].present = row[p].present /\ rows[p].present
    BY <1>1, <1>2, <1>4, <1>7, <2>1
  <2>3. row[p].anonymized => rows[p].anonymized
    <3>1. CASE "anonymized" \in h.dirty
      BY <1>1, <1>4, <2>1, <3>1
    <3>2. CASE "anonymized" \notin h.dirty
      BY <1>2, <1>4, <1>7, <2>1, <3>2
    <3>3. QED
      BY <3>1, <3>2
  <2>4. "suppressed" \notin h.dirty /\ row[p].suppressed => rows[p].suppressed
    BY <1>2, <1>4, <1>7, <2>1
  <2>5. \A f \in Fields : rows[p].pii[f] = IF f \in h.dirty THEN h.pii[f] ELSE row[p].pii[f]
    BY <1>2, <1>4, <1>7, <2>1
  <2>6. QED
    BY <1>5, <1>7, <2>2, <2>3, <2>4, <2>5
<1>8. QED
  BY <1>6, <1>7

LEMMA CommitRows ==
  ASSUME PiiInv, NEW s \in Sessions, Commit(s) \/ Score(s)
  PROVE  /\ pc[s] \in {"commit", "score"}
         /\ \E ps : row' = [Suppressed(row, ps) EXCEPT ![hand[s].who] = Flushed(@, hand[s])]
<1>1. CASE Commit(s)
  BY <1>1 DEF Commit
<1>2. CASE Score(s)
  <2>1. Suppressed(row, {}) = row
    BY DEF Suppressed, PiiInv, TypeOK
  <2>2. row' = [Suppressed(row, {}) EXCEPT ![hand[s].who] = Flushed(@, hand[s])]
    BY <1>2, <2>1 DEF Score
  <2>3. QED
    BY <1>2, <2>2 DEF Score
<1>3. QED
  BY <1>1, <1>2

LEMMA TellType ==
  ASSUME NEW ps \in SUBSET Prospects, TellErased(ps)
  PROVE  answer' \in Answer
BY DEF TellErased, Answer

LEMMA CommitInv ==
  ASSUME PiiInv, NEW s \in Sessions, Commit(s) \/ Score(s)
  PROVE  PiiInv'
<1>1. PICK ps : row' = [Suppressed(row, ps) EXCEPT ![hand[s].who] = Flushed(@, hand[s])]
  BY CommitRows
<1>2. pc[s] # "idle" /\ hand[s].who \in Prospects /\ hand[s] \in Object
  BY CommitRows DEF PiiInv, HandInv, TypeOK
<1>3. \A p \in Prospects : /\ row' \in [Prospects -> Row]
                           /\ row'[p].present = row[p].present
                           /\ row'[p].anonymized => row'[p].present
  BY <1>1, <1>2, CommittedFacts
<1>4. row' \in [Prospects -> Row]
  BY <1>2, <1>3
<1>5. UNCHANGED doomed
  BY DEF Commit, Score
<1>6. answer' \in Answer
  BY EmptyType DEF Commit, Score
<1>7. CASE /\ pc' = [pc EXCEPT ![s] = "idle"]
           /\ hand' = [hand EXCEPT ![s] = NoObject]
           /\ op' = [op EXCEPT ![s] = "none"]
  <2>1. pc'[s] = "idle" /\ hand'[s] = NoObject
    BY <1>7 DEF PiiInv, TypeOK
  <2>2. HandInv(s)'
    BY <2>1 DEF HandInv, NoObject
  <2>3. NoObject \in Object /\ "none" \in Operation
    BY EmptyType DEF Operation
  <2>4. QED
    BY <1>3, <1>4, <1>5, <1>6, <1>7, <2>2, <2>3, SessionFrame
<1>8. CASE /\ pc' = [pc EXCEPT ![s] = "refresh"]
           /\ hand' = [hand EXCEPT ![s].dirty = {}]
           /\ UNCHANGED op
  <2> DEFINE h == [hand[s] EXCEPT !.dirty = {}]
  <2>1. h \in Object /\ h.dirty = {} /\ h.who = hand[s].who
    BY <1>2 DEF Object
  <2>2. hand' = [hand EXCEPT ![s] = h] /\ op' = [op EXCEPT ![s] = op[s]] /\ op[s] \in Operation
    BY <1>8 DEF PiiInv, TypeOK
  <2>3. pc'[s] = "refresh" /\ hand'[s] = h /\ row[hand[s].who].present
    BY <1>2, <1>8, <2>2 DEF PiiInv, TypeOK, HandInv
  <2>4. HandInv(s)'
    BY <1>2, <1>3, <2>1, <2>3 DEF HandInv
  <2>5. QED
    BY <1>3, <1>4, <1>5, <1>6, <1>8, <2>1, <2>2, <2>4, SessionFrame
<1>9. QED
  BY <1>7, <1>8 DEF Commit, Score

LEMMA RefreshInv ==
  ASSUME PiiInv, NEW s \in Sessions, Refresh(s)
  PROVE  PiiInv'
<1> DEFINE w == hand[s].who
           h == IF op[s] = "update" THEN Got(w) ELSE Fetched(w)
<1>1. TypeOK /\ w \in Prospects /\ row[w].present /\ row \in [Prospects -> Row]
      /\ \A p \in Prospects : row[p].anonymized => row[p].present
  BY DEF Refresh, PiiInv, HandInv, RowInv, TypeOK
<1>2. /\ h \in Object /\ h.who = w /\ h.anonymized = row[w].anonymized
      /\ row[w].anonymized => h.dirty = {}
      /\ "suppressed" \notin h.dirty /\ "anonymized" \notin h.dirty
  <2>1. Fetched(w) \in Object
    BY <1>1, FetchedType
  <2>2. QED
    BY <1>1, <2>1, GotFacts
<1>3. /\ pc' = [pc EXCEPT ![s] = "score"] /\ hand' = [hand EXCEPT ![s] = h]
      /\ op' = [op EXCEPT ![s] = op[s]] /\ op[s] \in Operation
      /\ row' = row /\ UNCHANGED doomed /\ answer' = Silence
  BY <1>1 DEF Refresh, TypeOK
<1>4. pc'[s] = "score" /\ hand'[s] = h
  BY <1>1, <1>3 DEF TypeOK
<1>5. HandInv(s)'
  BY <1>1, <1>2, <1>3, <1>4 DEF HandInv
<1>6. QED
  BY <1>1, <1>2, <1>3, <1>5, EmptyType, SessionFrame

LEMMA CloseInv ==
  ASSUME PiiInv, NEW s \in Sessions, Close(s)
  PROVE  PiiInv'
<1>1. /\ pc' = [pc EXCEPT ![s] = "idle"] /\ hand' = [hand EXCEPT ![s] = NoObject]
      /\ op' = [op EXCEPT ![s] = "none"] /\ row' = row /\ UNCHANGED doomed
      /\ answer' = Silence
  BY DEF Close
<1>2. pc'[s] = "idle" /\ hand'[s] = NoObject
  BY <1>1 DEF PiiInv, TypeOK
<1>3. HandInv(s)'
  BY <1>2 DEF HandInv, NoObject
<1>4. row \in [Prospects -> Row] /\ \A p \in Prospects : row[p].anonymized => row[p].present
  BY DEF PiiInv, TypeOK, RowInv
<1>5. NoObject \in Object /\ "none" \in Operation /\ Silence \in Answer
  BY EmptyType DEF Operation
<1>6. QED
  BY <1>1, <1>3, <1>4, <1>5, SessionFrame

LEMMA CreateInv ==
  ASSUME PiiInv, NEW s \in Sessions, NEW p \in Prospects, Create(s, p)
  PROVE  PiiInv'
<1> DEFINE New(e) == [present |-> TRUE, suppressed |-> FALSE, anonymized |-> FALSE,
                      pii |-> [f \in Fields |-> Seal(IF f = "email" THEN e ELSE FullName)]]
           Own(e) == [who |-> p, pii |-> New(e).pii, suppressed |-> FALSE,
                      anonymized |-> FALSE, dirty |-> {}]
<1>1. PICK e \in Emails : row' = [row EXCEPT ![p] = New(e)]
                          /\ hand' = [hand EXCEPT ![s] = Decrypt(Own(e))]
  BY DEF Create
<1>2. [f \in Fields |-> Seal(IF f = "email" THEN e ELSE FullName)] \in [Fields -> Values]
  BY ValueType DEF Texts
<1>3. New(e) \in Row /\ Own(e) \in Object
  BY <1>2 DEF Row, Object
<1>4. /\ Decrypt(Own(e)) \in Object /\ Decrypt(Own(e)).who = p
      /\ Decrypt(Own(e)).anonymized = FALSE
      /\ Decrypt(Own(e)).dirty \intersect {"suppressed", "anonymized"} = {}
  BY <1>3, DecryptType
<1>5. /\ row \in [Prospects -> Row] /\ pc \in [Sessions -> {"idle", "commit", "refresh", "score"}]
      /\ hand \in [Sessions -> Object]
      /\ \A q \in Prospects : row[q].anonymized => row[q].present
  BY DEF PiiInv, TypeOK, RowInv
<1>6. row' \in [Prospects -> Row] /\ row'[p] = New(e)
      /\ \A q \in Prospects : q # p => row'[q] = row[q]
  BY <1>1, <1>3, <1>5
<1>7. row'[p].present /\ ~row'[p].anonymized
  BY <1>6
<1>8. /\ \A q \in Prospects : row[q].present => row'[q].present
      /\ \A q \in Prospects : row'[q].anonymized => row'[q].present
  BY <1>5, <1>6, <1>7
<1>9. pc'[s] = "score" /\ hand'[s] = Decrypt(Own(e))
  BY <1>1, <1>5 DEF Create
<1>10. HandInv(s)'
  BY <1>4, <1>7, <1>9 DEF HandInv
<1>11. pc' = [pc EXCEPT ![s] = "score"] /\ op' = [op EXCEPT ![s] = "create"]
       /\ "create" \in Operation /\ UNCHANGED doomed /\ answer' \in Answer
  BY EmptyType DEF Create, Operation
<1>12. QED
  BY <1>1, <1>4, <1>6, <1>8, <1>10, <1>11, SessionFrame

LEMMA SourceInv ==
  ASSUME PiiInv, NEW p \in Prospects, Source(p)
  PROVE  PiiInv'
<1> DEFINE New(e) == [present |-> TRUE, suppressed |-> FALSE, anonymized |-> FALSE,
                      pii |-> [f \in Fields |-> Clear(IF f = "email" THEN e ELSE FullName)]]
<1>1. PICK e \in Emails : row' = [row EXCEPT ![p] = New(e)]
  BY DEF Source
<1>2. [f \in Fields |-> Clear(IF f = "email" THEN e ELSE FullName)] \in [Fields -> Values]
  BY ValueType DEF Texts
<1>3. New(e) \in Row
  BY <1>2 DEF Row
<1>4. /\ row \in [Prospects -> Row] /\ doomed \in [Officers -> SUBSET Prospects]
      /\ \A q \in Prospects : row[q].anonymized => row[q].present
      /\ \A o \in Officers : \A q \in doomed[o] : row[q].present
  BY DEF PiiInv, TypeOK, RowInv
<1>5. row' \in [Prospects -> Row] /\ row'[p] = New(e)
      /\ \A q \in Prospects : q # p => row'[q] = row[q]
  BY <1>1, <1>3, <1>4
<1>6. row'[p].present /\ ~row'[p].anonymized
  BY <1>5
<1>7. /\ \A q \in Prospects : row[q].present => row'[q].present
      /\ \A q \in Prospects : row'[q].anonymized => row'[q].present
  BY <1>4, <1>5, <1>6
<1>8. UNCHANGED <<pc, op, hand, doomed>> /\ answer' \in Answer
  BY EmptyType DEF Source
<1>9. QED
  BY <1>4, <1>5, <1>7, <1>8, RowFrame

\* Raw SQL adds no row and removes none.
LEMMA PrivacyRows ==
  ASSUME PiiInv, Privacy
  PROVE  /\ row' \in [Prospects -> Row]
         /\ \A p \in Prospects : /\ row'[p].present = row[p].present
                                 /\ row[p].anonymized => row'[p].anonymized
                                 /\ row'[p].anonymized => row'[p].present
                                 /\ row[p].suppressed => row'[p].suppressed
                                 /\ Blank(row[p]) => Blank(row'[p])
<1>1. /\ row \in [Prospects -> Row] /\ doomed \in [Officers -> SUBSET Prospects]
      /\ \A q \in Prospects : row[q].anonymized => row[q].present
      /\ \A o \in Officers : \A q \in doomed[o] : row[q].present
  BY DEF PiiInv, TypeOK, RowInv
<1>2. CASE row' = row
  BY <1>1, <1>2
<1>3. ASSUME NEW ps, row' = Suppressed(row, ps)
      PROVE  /\ row' \in [Prospects -> Row]
             /\ \A p \in Prospects : /\ row'[p].present = row[p].present
                                     /\ row'[p].pii = row[p].pii
                                     /\ row'[p].anonymized = row[p].anonymized
             /\ \A p \in Prospects : row[p].suppressed => row'[p].suppressed
  <2>1. /\ Suppressed(row, ps) \in [Prospects -> Row]
        /\ \A p \in Prospects :
             /\ Suppressed(row, ps)[p].present = row[p].present
             /\ Suppressed(row, ps)[p].pii = row[p].pii
             /\ Suppressed(row, ps)[p].anonymized = row[p].anonymized
        /\ \A p \in Prospects : row[p].suppressed => Suppressed(row, ps)[p].suppressed
    BY <1>1, SuppressedFacts, Zenon
  <2>2. QED
    BY <1>3, <2>1, Zenon
<1>4. ASSUME NEW ps, row' = Suppressed(row, ps)
      PROVE  \A p \in Prospects : Blank(row[p]) => Blank(row'[p])
  BY <1>3, <1>4 DEF Blank
<1>5. ASSUME NEW ps, row' = Purged(row, ps), \A q \in ps \intersect Prospects : row[q].present
      PROVE  /\ row' \in [Prospects -> Row]
             /\ \A p \in Prospects : /\ row'[p].present = row[p].present
                                     /\ row'[p].suppressed = row[p].suppressed
                                     /\ IF p \in ps THEN row'[p].anonymized /\ row'[p].present
                                                         /\ row'[p].pii = [f \in Fields |-> Purge]
                                                    ELSE row'[p] = row[p]
  <2> DEFINE gone == Purged(row, ps)
  <2>1. gone \in [Prospects -> Row]
    <3>1. [f \in Fields |-> Purge] \in [Fields -> Values]
      BY ValueType
    <3>2. QED
      BY <1>1, <3>1 DEF Purged, Row
  <2>2. \A p \in Prospects : gone[p].present = row[p].present
    BY <1>1 DEF Purged, Row
  <2>3. \A p \in Prospects : gone[p].suppressed = row[p].suppressed
    BY <1>1 DEF Purged, Row
  <2>4. \A p \in Prospects : p \notin ps => gone[p] = row[p]
    BY <1>1 DEF Purged, Row
  <2>5. \A p \in Prospects : p \in ps => gone[p].anonymized = TRUE
    BY <1>1 DEF Purged, Row
  <2>6. \A p \in Prospects : p \in ps => gone[p].pii = [f \in Fields |-> Purge]
    BY <1>1 DEF Purged, Row
  <2>7. row' = gone
    BY <1>5
  <2> HIDE DEF gone
  <2>8. QED
    BY <1>5, <2>1, <2>2, <2>3, <2>4, <2>5, <2>6, <2>7
<1>6. ASSUME NEW ps, row' = Purged(row, ps), \A q \in ps \intersect Prospects : row[q].present
      PROVE  \A p \in Prospects : Blank(row[p]) => Blank(row'[p])
  BY <1>5, <1>6 DEF Blank
<1>7. ASSUME NEW e \in Emails, NEW fix \in Corrections, Rectify(e, fix)
      PROVE  /\ row' \in [Prospects -> Row]
             /\ \A p \in Prospects : /\ row'[p].present = row[p].present
                                     /\ row'[p].anonymized = row[p].anonymized
                                     /\ row'[p].suppressed = row[p].suppressed
                                     /\ Blank(row[p]) => row'[p] = row[p]
  <2> DEFINE fixed(p) == [f \in Fields |->
               CASE f = "email" /\ "email" \in DOMAIN fix -> Clear(e)
                 [] f = "name" /\ "name" \in DOMAIN fix -> Seal(fix["name"])
                 [] OTHER -> row[p].pii[f]]
  <2>1. "name" \in DOMAIN fix => fix["name"] \in Texts
    BY <1>7 DEF Corrections
  <2>2. ASSUME NEW p \in Prospects PROVE fixed(p) \in [Fields -> Values]
    <3>1. row[p].pii \in [Fields -> Values]
      BY <1>1 DEF Row
    <3>2. Clear(e) \in Values /\ ("name" \in DOMAIN fix => Seal(fix["name"]) \in Values)
      BY <2>1, ValueType DEF Texts
    <3>3. QED
      BY <3>1, <3>2
  <2>3. row' = [p \in Prospects |-> IF p \in Match(e) THEN [row[p] EXCEPT !.pii = fixed(p)] ELSE row[p]]
    BY <1>1, <1>7 DEF Rectify, Row
  <2>4. row' \in [Prospects -> Row]
    BY <1>1, <2>2, <2>3 DEF Row
  <2>5. \A p \in Prospects : /\ row'[p].present = row[p].present
                             /\ row'[p].anonymized = row[p].anonymized
                             /\ row'[p].suppressed = row[p].suppressed
    BY <1>1, <2>3 DEF Row
  <2>6. ASSUME NEW p \in Prospects, Blank(row[p]) PROVE p \notin Match(e)
    BY <2>6, TextAssumption DEF Match, Blank, Purge, Clear, Fields
  <2>7. QED
    BY <2>3, <2>4, <2>5, <2>6
<1>8. CASE \E e \in Emails : EraseNobody(e) \/ (\E o \in Officers : EraseSelect(o, e))
  BY <1>2, <1>8 DEF EraseNobody, EraseSelect
<1>9. CASE \E e \in Emails : Suppress(e)
  BY <1>1, <1>3, <1>4, <1>9 DEF Suppress
<1>10. CASE \E e \in Emails, fix \in Corrections : Rectify(e, fix)
  BY <1>1, <1>7, <1>10
<1>11. CASE \E o \in Officers : EraseUpdate(o)
  <2>1. PICK o \in Officers : row' = Purged(row, doomed[o])
    BY <1>11 DEF EraseUpdate
  <2>2. QED
    BY <1>1, <1>5, <1>6, <2>1
<1>12. CASE \E ps \in SUBSET Prospects : Retain(ps)
  <2>1. PICK ps \in SUBSET Prospects : row' = Purged(row, {p \in ps : Visible(p) /\ Old(p)})
    BY <1>12 DEF Retain
  <2>2. \A q \in {p \in ps : Visible(p) /\ Old(p)} : row[q].present
    BY DEF Visible
  <2>3. QED
    BY <1>1, <1>5, <1>6, <2>1, <2>2
<1>13. CASE \E p \in Prospects : Unsubscribe(p)
  BY <1>2, <1>13 DEF Unsubscribe
<1>14. QED
  BY <1>8, <1>9, <1>10, <1>11, <1>12, <1>13 DEF Privacy

LEMMA PrivacyInv ==
  ASSUME PiiInv, Privacy
  PROVE  PiiInv'
<1>1. /\ row \in [Prospects -> Row] /\ doomed \in [Officers -> SUBSET Prospects]
      /\ \A o \in Officers : \A q \in doomed[o] : row[q].present
  BY DEF PiiInv, TypeOK, RowInv
<1>2. /\ row' \in [Prospects -> Row]
      /\ \A p \in Prospects : row[p].present => row'[p].present
      /\ \A p \in Prospects : row'[p].anonymized => row'[p].present
  BY PrivacyRows
<1>3. UNCHANGED <<pc, op, hand>>
  BY DEF Privacy, EraseNobody, EraseSelect, EraseUpdate, Rectify, Suppress,
         Retain, Unsubscribe
<1>4. /\ doomed' \in [Officers -> SUBSET Prospects]
      /\ \A o \in Officers : \A p \in doomed'[o] : row[p].present
  <2>1. CASE \E o \in Officers, e \in Emails : EraseSelect(o, e)
    <3>1. PICK o \in Officers, e \in Emails :
            doomed' = [doomed EXCEPT ![o] = {p \in Match(e) : ~row[p].anonymized}]
      BY <2>1 DEF EraseSelect
    <3>2. \A p \in {p \in Match(e) : ~row[p].anonymized} : p \in Prospects /\ row[p].present
      BY DEF Match
    <3>3. QED
      BY <1>1, <3>1, <3>2
  <2>2. CASE \E o \in Officers : EraseUpdate(o)
    BY <1>1, <2>2 DEF EraseUpdate
  <2>3. CASE UNCHANGED doomed
    BY <1>1, <2>3
  <2>4. QED
    BY <2>1, <2>2, <2>3 DEF Privacy, EraseNobody, Rectify, Suppress, Retain, Unsubscribe
<1>5. answer' \in Answer
  <2>1. CASE answer' = Silence
    BY <2>1, EmptyType
  <2>2. ASSUME NEW e \in Emails, EraseNobody(e) PROVE answer' \in Answer
    BY <2>2, TellType DEF EraseNobody, Belongs
  <2>3. ASSUME NEW o \in Officers, EraseUpdate(o) PROVE answer' \in Answer
    BY <1>1, <2>3, TellType DEF EraseUpdate
  <2>4. QED
    BY <2>1, <2>2, <2>3 DEF Privacy, EraseSelect, Suppress, Retain, Rectify, Unsubscribe
<1>6. QED
  BY <1>2, <1>3, <1>4, <1>5, RowFrame

LEMMA ImportInv ==
  ASSUME PiiInv, NEW p \in Prospects, Import(p)
  PROVE  PiiInv'
<1>1. /\ row \in [Prospects -> Row] /\ doomed \in [Officers -> SUBSET Prospects]
      /\ \A q \in Prospects : row[q].anonymized => row[q].present
      /\ \A o \in Officers : \A q \in doomed[o] : row[q].present
  BY DEF PiiInv, TypeOK, RowInv
<1>2. row' = row /\ UNCHANGED <<pc, op, hand, doomed>>
  BY DEF Import
<1>3. answer' \in Answer
  BY EmptyType DEF Import
<1>4. QED
  BY <1>1, <1>2, <1>3, RowFrame

LEMMA InvNext == PiiInv /\ [Next]_vars => PiiInv'
<1> SUFFICES ASSUME PiiInv, [Next]_vars PROVE PiiInv'
  OBVIOUS
<1>1. ASSUME NEW s \in Sessions, Request(s) PROVE PiiInv'
  <2>1. ASSUME NEW p \in Prospects,
               Create(s, p) \/ Update(s, p) \/ Enrich(s, p) \/ Profile(s, p)
                 \/ Delete(s, p) \/ Withdraw(s, p)
        PROVE  PiiInv'
    BY <2>1, CreateInv, LoadInv
  <2>2. QED
    BY <1>1, <2>1, CommitInv, RefreshInv, CloseInv DEF Request
<1>2. CASE UNCHANGED vars
  BY <1>2 DEF vars, PiiInv, TypeOK, RowInv, HandInv
<1>3. QED
  BY <1>1, <1>2, ImportInv, SourceInv, PrivacyInv DEF Next

-----------------------------------------------------------------------------
(* The theorems.                                                            *)

\* Every reachable state satisfies the inductive invariant.
LEMMA PiiInvHolds == Spec => []PiiInv
<1>1. QED
  BY InvInit, InvNext, PTL DEF Spec

\* The variables keep their types: an UPDATE of dirty columns, the raw SQL and
\* the decryption of an object produce rows and objects again.
THEOREM PiiTypeCorrect == Spec => []TypeOK
<1>1. PiiInv => TypeOK
  BY DEF PiiInv
<1>2. QED
  BY <1>1, PiiInvHolds, PTL

\* What a commit of dirty columns does to a row, for both properties.
LEMMA CommitKeeps ==
  ASSUME PiiInv, NEW s \in Sessions, Commit(s) \/ Score(s), NEW p \in Prospects
  PROVE  /\ row[p].anonymized => row'[p].anonymized
         /\ row[p].suppressed /\ ~row'[p].suppressed =>
               op[s] = "update" /\ hand[s].who = p /\ "suppressed" \in hand[s].dirty
         /\ Blank(row[p]) /\ ~Blank(row'[p]) =>
               /\ pc[s] \in {"commit", "score"} /\ hand[s].who = p
               /\ ~hand[s].anonymized
<1>1. PICK ps : row' = [Suppressed(row, ps) EXCEPT ![hand[s].who] = Flushed(@, hand[s])]
  BY CommitRows
<1>2. /\ pc[s] \in {"commit", "score"} /\ pc[s] # "idle"
      /\ "suppressed" \in hand[s].dirty => op[s] = "update"
      /\ hand[s].anonymized => \A f \in hand[s].dirty \intersect Fields : hand[s].pii[f] = Purge
  BY CommitRows DEF PiiInv, HandInv
<1>3. row[p].anonymized => row'[p].anonymized
  BY <1>1, <1>2, CommittedFacts
<1>4. p # hand[s].who => row'[p].pii = row[p].pii
  BY <1>1, <1>2, CommittedFacts
<1>5. p # hand[s].who /\ row[p].suppressed => row'[p].suppressed
  BY <1>1, <1>2, CommittedFacts
<1>6. p = hand[s].who => \A f \in Fields :
        row'[p].pii[f] = IF f \in hand[s].dirty THEN hand[s].pii[f] ELSE row[p].pii[f]
  BY <1>1, <1>2, CommittedFacts
<1>7. "suppressed" \notin hand[s].dirty /\ row[p].suppressed => row'[p].suppressed
  BY <1>1, <1>2, CommittedFacts
<1>8. ASSUME Blank(row[p]), p # hand[s].who \/ hand[s].anonymized PROVE Blank(row'[p])
  BY <1>2, <1>3, <1>4, <1>6, <1>8 DEF Blank
<1>9. QED
  BY <1>2, <1>3, <1>5, <1>7, <1>8

\* A row of another request is as it was.
LEMMA OtherRows ==
  ASSUME PiiInv, [Next]_vars, ~Privacy,
         \A s \in Sessions : ~(Commit(s) \/ Score(s)),
         NEW p \in Prospects, row[p].present
  PROVE  row'[p] = row[p]
<1>1. row \in [Prospects -> Row]
  BY DEF PiiInv, TypeOK
<1>2. ASSUME NEW s \in Sessions, Request(s) PROVE row'[p] = row[p]
  <2>1. ASSUME NEW q \in Prospects, Create(s, q) PROVE row'[p] = row[p]
    BY <1>1, <2>1 DEF Create
  <2>2. ASSUME NEW q \in Prospects,
               Update(s, q) \/ Enrich(s, q) \/ Profile(s, q) \/ Delete(s, q) \/ Withdraw(s, q)
        PROVE  row'[p] = row[p]
    BY <2>2 DEF Update, Enrich, Profile, Delete, Withdraw, Begin
  <2>3. CASE Refresh(s) \/ Close(s)
    BY <2>3 DEF Refresh, Close
  <2>4. QED
    BY <1>2, <2>1, <2>2, <2>3 DEF Request
<1>3. ASSUME NEW q \in Prospects, Import(q) \/ Source(q) PROVE row'[p] = row[p]
  BY <1>1, <1>3 DEF Import, Source
<1>4. CASE UNCHANGED vars
  BY <1>4 DEF vars
<1>5. QED
  BY <1>2, <1>3, <1>4 DEF Next

\* Personal data comes back to an erased row only with the commit of a request
\* that loaded the row before it was erased.
THEOREM RestoredHolds == Spec => RestoredOnlyByEarlierReader
<1> DEFINE Step == \A p \in Prospects :
       Blank(row[p]) /\ ~Blank(row'[p]) =>
         \E s \in Sessions : /\ pc[s] \in {"commit", "score"}
                             /\ hand[s].who = p
                             /\ ~hand[s].anonymized
<1>1. PiiInv /\ [Next]_vars => [Step]_vars
  <2> SUFFICES ASSUME PiiInv, [Next]_vars, NEW p \in Prospects,
                      Blank(row[p]), ~Blank(row'[p])
               PROVE  \E s \in Sessions : /\ pc[s] \in {"commit", "score"}
                                          /\ hand[s].who = p
                                          /\ ~hand[s].anonymized
    OBVIOUS
  <2>1. row[p].present
    BY DEF Blank, PiiInv, RowInv
  <2>2. ~Privacy
    BY PrivacyRows
  <2>3. ASSUME \A s \in Sessions : ~(Commit(s) \/ Score(s)) PROVE FALSE
    BY <2>1, <2>2, <2>3, OtherRows
  <2>4. PICK s \in Sessions : Commit(s) \/ Score(s)
    BY <2>3
  <2>5. QED
    BY <2>4, CommitKeeps
<1>2. QED
  BY <1>1, PiiInvHolds, PTL DEF Spec, RestoredOnlyByEarlierReader

\* No request takes back an erasure, and none takes back a suppression except
\* the update whose user asked for it.
THEOREM FlagsSurviveHolds == Spec => FlagsSurvive
<1> DEFINE Step == \A p \in Prospects : row[p].present =>
       /\ row[p].anonymized => row'[p].anonymized
       /\ row[p].suppressed /\ ~row'[p].suppressed =>
            \E s \in Sessions : /\ op[s] = "update" /\ hand[s].who = p
                                /\ "suppressed" \in hand[s].dirty
<1>1. PiiInv /\ [Next]_vars => [Step]_vars
  <2> SUFFICES ASSUME PiiInv, [Next]_vars, NEW p \in Prospects, row[p].present
               PROVE  /\ row[p].anonymized => row'[p].anonymized
                      /\ row[p].suppressed /\ ~row'[p].suppressed =>
                           \E s \in Sessions : /\ op[s] = "update" /\ hand[s].who = p
                                               /\ "suppressed" \in hand[s].dirty
    OBVIOUS
  <2>1. CASE Privacy
    BY <2>1, PrivacyRows
  <2>2. CASE \E s \in Sessions : Commit(s) \/ Score(s)
    BY <2>2, CommitKeeps
  <2>3. CASE ~Privacy /\ \A s \in Sessions : ~(Commit(s) \/ Score(s))
    BY <2>3, OtherRows
  <2>4. QED
    BY <2>1, <2>2, <2>3
<1>2. QED
  BY <1>1, PiiInvHolds, PTL DEF Spec, FlagsSurvive
=============================================================================
