----------------------------- MODULE ProspectPii -----------------------------
(***************************************************************************)
(* The personal data of one tenant's Prospect rows: encrypted on write and *)
(* decrypted on read by ProspectService and ProspectAiService, erased and  *)
(* suppressed by GdprService, RetentionService and the unsubscribe link.   *)
(*                                                                         *)
(* A request of ProspectService works on an ORM object.  Decryption writes *)
(* the clear text into that object, so the next commit of the session      *)
(* carries it to the table: an UPDATE writes the columns that differ from  *)
(* what was loaded ("dirty") and leaves the others alone.  Sessions hold   *)
(* no row locks between their SELECT and their commit.  GdprService uses   *)
(* raw SQL that finds a row by the stored email, lower("email") = :email.  *)
(*                                                                         *)
(* firstName and lastName are one field, "name".  deleted_at and anonymized *)
(* are always written together and are one flag.  Emails are compared in   *)
(* lower case and are never NULL.                                          *)
(***************************************************************************)
EXTENDS FiniteSets

CONSTANTS
  Prospects,           \* the rows that may come to exist
  Emails,              \* email addresses in clear text
  FullName,            \* the name of a prospect in clear text
  Anonymized,          \* the text "[anonymized]"
  Sessions,            \* requests that work on a Prospect object
  Officers,            \* runs of an erasure request
  EncryptionEnabled,   \* ENCRYPTION_KEY is set
  NoProspect, NoText

ASSUME TextAssumption ==
  /\ EncryptionEnabled \in BOOLEAN
  /\ NoProspect \notin Prospects
  /\ Anonymized \notin Emails /\ Anonymized # FullName

Fields  == {"email", "name"}
Columns == Fields \union {"suppressed", "anonymized"}

\* _PROSPECT_PII_FIELDS: what users put into a field
Contents(f) == IF f = "email" THEN Emails ELSE {FullName}
Texts == Emails \union {FullName, Anonymized}

\* A stored or loaded value: a text, as a Fernet token or in the clear.
Values == [text : Texts, sealed : BOOLEAN]
Clear(t) == [text |-> t, sealed |-> FALSE]
Purge == Clear(Anonymized)

\* encrypt_field: passes the value through when no key is configured
Seal(t) == [text |-> t, sealed |-> EncryptionEnabled]

VARIABLES
  row,      \* the Prospect table, committed
  pc,       \* where a request is
  op,       \* which request it is
  hand,     \* the Prospect object of its session
  doomed,   \* ids an erasure has selected and not yet updated
  answer    \* what the step told its caller, for the properties

vars == <<row, pc, op, hand, doomed, answer>>

Row == [present : BOOLEAN, pii : [Fields -> Values],
        suppressed : BOOLEAN, anonymized : BOOLEAN]

Object == [who : Prospects \union {NoProspect}, pii : [Fields -> Values],
           suppressed : BOOLEAN, anonymized : BOOLEAN,
           dirty : SUBSET Columns]

Operation == {"none", "create", "update", "enrich", "profile", "delete", "withdraw"}

Answer == [kind : {"none", "erased"}, who : SUBSET Prospects]

NoRow == [present |-> FALSE, pii |-> [f \in Fields |-> Purge],
          suppressed |-> FALSE, anonymized |-> FALSE]
NoObject == [who |-> NoProspect, pii |-> [f \in Fields |-> Purge],
             suppressed |-> FALSE, anonymized |-> FALSE, dirty |-> {}]
Silence == [kind |-> "none", who |-> {}]

\* An erasure request about these people is completed.
TellErased(ps) == answer' = [kind |-> "erased", who |-> ps]

Init ==
  /\ row = [p \in Prospects |-> NoRow]
  /\ pc = [s \in Sessions |-> "idle"]
  /\ op = [s \in Sessions |-> "none"]
  /\ hand = [s \in Sessions |-> NoObject]
  /\ doomed = [o \in Officers |-> {}]
  /\ answer = Silence

-----------------------------------------------------------------------------
(* ORM objects. *)

\* A SELECT builds the object, nothing is dirty.
Fetched(p) == [who |-> p, pii |-> row[p].pii, suppressed |-> row[p].suppressed,
               anonymized |-> row[p].anonymized, dirty |-> {}]

\* _decrypt_prospect_pii: in place, skipped for anonymised rows.  A field
\* that was a token is now different from what the table holds.
Decrypt(h) ==
  IF h.anonymized THEN h
  ELSE [h EXCEPT !.pii = [f \in Fields |-> Clear(h.pii[f].text)],
                 !.dirty = @ \union {f \in Fields : h.pii[f].sealed}]

\* get(): the SELECT and the decryption
Got(p) == Decrypt(Fetched(p))

\* update(): the payload's texts, encrypted anew (a new token every time, so
\* the column is dirty even when the text is the same) and the new flag.
Assign(h, texts, flag) ==
  [h EXCEPT
    !.pii = [f \in Fields |-> IF f \in DOMAIN texts THEN Seal(texts[f]) ELSE @[f]],
    !.suppressed = flag,
    !.dirty = @ \union {f \in DOMAIN texts : Seal(texts[f]) # h.pii[f]}
                \union (IF flag = h.suppressed THEN {} ELSE {"suppressed"})]

\* delete(): what the object becomes
Erase(h) ==
  [h EXCEPT !.pii = [f \in Fields |-> Purge], !.anonymized = TRUE,
            !.dirty = @ \union {f \in Fields : h.pii[f] # Purge}
                        \union (IF h.anonymized THEN {} ELSE {"anonymized"})]

\* faulty variant: every column, as a session without change tracking would
Flushed_Whole(r, h) ==
  [r EXCEPT !.pii = h.pii, !.suppressed = h.suppressed, !.anonymized = h.anonymized]

\* The UPDATE of a commit: dirty columns only.
Flushed(r, h) ==
  [r EXCEPT !.pii = [f \in Fields |-> IF f \in h.dirty THEN h.pii[f] ELSE @[f]],
            !.suppressed = IF "suppressed" \in h.dirty THEN h.suppressed ELSE @,
            !.anonymized = IF "anonymized" \in h.dirty THEN h.anonymized ELSE @]

Begin(s, o, h) ==
  /\ pc[s] = "idle"
  /\ pc' = [pc EXCEPT ![s] = "commit"]
  /\ op' = [op EXCEPT ![s] = o]
  /\ hand' = [hand EXCEPT ![s] = h]
  /\ answer' = Silence
  /\ UNCHANGED <<row, doomed>>

\* faulty variant: without the filter of get()
Visible_Deleted(p) == row[p].present

\* deleted_at IS NULL
Visible(p) == row[p].present /\ ~row[p].anonymized

-----------------------------------------------------------------------------
(* ProspectService and ProspectAiService. *)

\* create(): INSERT of tokens, commit, decryption of the object
Create(s, p) ==
  /\ pc[s] = "idle" /\ ~row[p].present
  /\ \E e \in Emails :
       LET new == [present |-> TRUE, suppressed |-> FALSE, anonymized |-> FALSE,
                   pii |-> [f \in Fields |-> Seal(IF f = "email" THEN e ELSE FullName)]]
       IN /\ row' = [row EXCEPT ![p] = new]
          /\ hand' = [hand EXCEPT ![s] =
                Decrypt([who |-> p, pii |-> new.pii, suppressed |-> FALSE,
                         anonymized |-> FALSE, dirty |-> {}])]
  /\ pc' = [pc EXCEPT ![s] = "score"]
  /\ op' = [op EXCEPT ![s] = "create"]
  /\ answer' = Silence
  /\ UNCHANGED doomed

\* update(): get, then any subset of the fields and the suppressed flag
Update(s, p) ==
  /\ Visible(p)
  /\ \E g \in SUBSET Fields, flag \in BOOLEAN :
       \E texts \in {t \in [g -> Texts] : \A f \in g : t[f] \in Contents(f)} :
         Begin(s, "update", Assign(Got(p), texts, flag))

\* enrich(): by id, or by the stored email and then deleted rows too
Enrich(s, p) ==
  /\ \/ Visible(p)
     \/ row[p].present /\ \E e \in Emails : row[p].pii["email"] = Clear(e)
  /\ Begin(s, "enrich", Got(p))

\* ultimate_profile (web search and LLM before its commit), and
\* consent/grant of the prospects router: get, then a commit
Profile(s, p) == Visible(p) /\ Begin(s, "profile", Got(p))

\* delete(): include_deleted
Delete(s, p) == row[p].present /\ Begin(s, "delete", Erase(Got(p)))

\* consent/withdraw of the prospects router, consents on file
Withdraw(s, p) == Visible(p) /\ Begin(s, "withdraw", Got(p))

\* Rows whose stored email is this clear text.
Match(e) == {p \in Prospects : row[p].present /\ row[p].pii["email"] = Clear(e)}

\* withdraw_consent, objection, restriction: the raw UPDATE
Suppressed(rows, ps) ==
  [p \in Prospects |->
     IF p \in ps THEN [rows[p] EXCEPT !.suppressed = TRUE] ELSE rows[p]]

Commit(s) ==
  /\ pc[s] = "commit"
  /\ LET hit == IF op[s] = "withdraw" THEN Match(hand[s].pii["email"].text) ELSE {}
     IN row' = [Suppressed(row, hit) EXCEPT ![hand[s].who] = Flushed(@, hand[s])]
  /\ answer' = Silence
  /\ IF op[s] \in {"update", "enrich"}
     THEN /\ pc' = [pc EXCEPT ![s] = "refresh"]
          /\ hand' = [hand EXCEPT ![s].dirty = {}]
          /\ UNCHANGED op
     ELSE /\ pc' = [pc EXCEPT ![s] = "idle"]
          /\ hand' = [hand EXCEPT ![s] = NoObject]
          /\ op' = [op EXCEPT ![s] = "none"]
  /\ UNCHANGED doomed

\* db.refresh; update decrypts again, enrich does not
Refresh(s) ==
  /\ pc[s] = "refresh"
  /\ hand' = [hand EXCEPT ![s] = IF op[s] = "update" THEN Got(hand[s].who)
                                                     ELSE Fetched(hand[s].who)]
  /\ pc' = [pc EXCEPT ![s] = "score"]
  /\ answer' = Silence
  /\ UNCHANGED <<row, op, doomed>>

\* _apply_icp_scoring: an ICP is linked, the score is committed
Score(s) ==
  /\ pc[s] = "score"
  /\ row' = [row EXCEPT ![hand[s].who] = Flushed(@, hand[s])]
  /\ pc' = [pc EXCEPT ![s] = "idle"]
  /\ hand' = [hand EXCEPT ![s] = NoObject]
  /\ op' = [op EXCEPT ![s] = "none"]
  /\ answer' = Silence
  /\ UNCHANGED doomed

\* The session ends without a commit: no ICP, nothing relevant changed, no
\* consents on file, an error, or the process dies.
Close(s) ==
  /\ pc[s] # "idle"
  /\ pc' = [pc EXCEPT ![s] = "idle"]
  /\ hand' = [hand EXCEPT ![s] = NoObject]
  /\ op' = [op EXCEPT ![s] = "none"]
  /\ answer' = Silence
  /\ UNCHANGED <<row, doomed>>

\* import_csv: INSERT and flush; the request's session closes uncommitted
Import(p) ==
  /\ ~row[p].present
  /\ answer' = Silence
  /\ UNCHANGED <<row, pc, op, hand, doomed>>

\* _step_prospect_sourcing of the autopilot: the texts as the LLM gave them
Source(p) ==
  /\ ~row[p].present
  /\ \E e \in Emails :
       row' = [row EXCEPT ![p] =
                 [present |-> TRUE, suppressed |-> FALSE, anonymized |-> FALSE,
                  pii |-> [f \in Fields |-> Clear(IF f = "email" THEN e ELSE FullName)]]]
  /\ answer' = Silence
  /\ UNCHANGED <<pc, op, hand, doomed>>

-----------------------------------------------------------------------------
(* GdprService, RetentionService, the unsubscribe link: sessions of their  *)
(* own and raw SQL.                                                        *)

\* faulty variant: NULL into columns that are NOT NULL
Purged_Null(rows, ps) ==
  [p \in Prospects |->
     IF p \in ps THEN [rows[p] EXCEPT !.pii = [f \in Fields |-> Clear(NoText)], !.anonymized = TRUE]
                 ELSE rows[p]]

\* The anonymising UPDATE of erasure and retention.
Purged(rows, ps) ==
  [p \in Prospects |->
     IF p \in ps THEN [rows[p] EXCEPT !.pii = [f \in Fields |-> Purge], !.anonymized = TRUE]
                 ELSE rows[p]]

\* The people an address belongs to, however it is stored.
Belongs(e) == {p \in Prospects : row[p].present /\ row[p].pii["email"].text = e}

\* process_erasure_request: nothing found, the request is completed
EraseNobody(e) ==
  /\ {p \in Match(e) : ~row[p].anonymized} = {}
  /\ TellErased(Belongs(e))
  /\ UNCHANGED <<row, pc, op, hand, doomed>>

\* process_erasure_request: SELECT id, then UPDATE ... WHERE id = ANY(:ids)
EraseSelect(o, e) ==
  /\ doomed[o] = {}
  /\ {p \in Match(e) : ~row[p].anonymized} # {}
  /\ doomed' = [doomed EXCEPT ![o] = {p \in Match(e) : ~row[p].anonymized}]
  /\ answer' = Silence
  /\ UNCHANGED <<row, pc, op, hand>>

EraseUpdate(o) ==
  /\ doomed[o] # {}
  /\ row' = Purged(row, doomed[o])
  /\ doomed' = [doomed EXCEPT ![o] = {}]
  /\ TellErased(doomed[o])
  /\ UNCHANGED <<pc, op, hand>>

\* process_rectification_request: params["email"] is both the new email and
\* the one in the WHERE clause, and the second assignment wins.
Rectify(e, fix) ==
  /\ row' = [p \in Prospects |->
        IF p \in Match(e)
        THEN [row[p] EXCEPT !.pii = [f \in Fields |->
               CASE f = "email" /\ "email" \in DOMAIN fix -> Clear(e)
                 [] f = "name" /\ "name" \in DOMAIN fix -> Seal(fix["name"])
                 [] OTHER -> @[f]]]
        ELSE row[p]]
  /\ answer' = Silence
  /\ UNCHANGED <<pc, op, hand, doomed>>

\* process_objection_request, process_restriction_request, and
\* gdpr/consent/withdraw by email
Suppress(e) ==
  /\ row' = Suppressed(row, Match(e))
  /\ answer' = Silence
  /\ UNCHANGED <<pc, op, hand, doomed>>

\* prospects_inactive of enforce_all_policies: rows whose updatedAt is old,
\* which no row is that a session has just written.
Old(p) == \A s \in Sessions : hand[s].who = p => pc[s] = "commit"

Retain(ps) ==
  /\ row' = Purged(row, {p \in ps : Visible(p) /\ Old(p)})
  /\ answer' = Silence
  /\ UNCHANGED <<pc, op, hand, doomed>>

\* _process_unsubscribe: the timestamps are bound as text and the log table
\* is not called "ConsentLog", so the transaction fails and is rolled back.
Unsubscribe(p) ==
  /\ row[p].present
  /\ answer' = Silence
  /\ UNCHANGED <<row, pc, op, hand, doomed>>

-----------------------------------------------------------------------------
Request(s) ==
  \/ \E p \in Prospects :
       Create(s, p) \/ Update(s, p) \/ Enrich(s, p) \/ Profile(s, p)
         \/ Delete(s, p) \/ Withdraw(s, p)
  \/ Commit(s) \/ Refresh(s) \/ Score(s) \/ Close(s)

Corrections == UNION {{t \in [g -> Texts] : \A f \in g : t[f] \in Contents(f)} :
                        g \in SUBSET Fields \ {{}}}

Privacy ==
  \/ \E e \in Emails :
       \/ EraseNobody(e) \/ Suppress(e)
       \/ \E o \in Officers : EraseSelect(o, e)
       \/ \E fix \in Corrections : Rectify(e, fix)
  \/ \E o \in Officers : EraseUpdate(o)
  \/ \E ps \in SUBSET Prospects : Retain(ps)
  \/ \E p \in Prospects : Unsubscribe(p)

Next ==
  \/ \E s \in Sessions : Request(s)
  \/ \E p \in Prospects : Import(p) \/ Source(p)
  \/ Privacy

Spec == Init /\ [][Next]_vars

-----------------------------------------------------------------------------
(* Properties. *)

TypeOK ==
  /\ row \in [Prospects -> Row]
  /\ pc \in [Sessions -> {"idle", "commit", "refresh", "score"}]
  /\ op \in [Sessions -> Operation]
  /\ hand \in [Sessions -> Object]
  /\ doomed \in [Officers -> SUBSET Prospects]
  /\ answer \in Answer

\* A row that was erased and holds no personal data.
Blank(r) == r.anonymized /\ \A f \in Fields : r.pii[f] = Purge

\* Personal data returns to an erased row only by the commit of a request that
\* had loaded the row before it was erased; whoever comes later finds no row
\* or does not touch its texts.  (get and its filter, the skip in
\* _decrypt_prospect_pii, the second SELECT of update and enrich.)
RestoredOnlyByEarlierReader ==
  [][\A p \in Prospects :
       Blank(row[p]) /\ ~Blank(row'[p]) =>
         \E s \in Sessions : /\ pc[s] \in {"commit", "score"}
                             /\ hand[s].who = p
                             /\ ~hand[s].anonymized]_vars

\* An old object never takes a flag back: what GDPR or a user has suppressed or
\* erased stays so, whatever sessions loaded before commit, unless a user asked
\* to lift the suppression on a row that was suppressed when it was loaded.
FlagsSurvive ==
  [][\A p \in Prospects : row[p].present =>
       /\ row[p].anonymized => row'[p].anonymized
       /\ row[p].suppressed /\ ~row'[p].suppressed =>
            \E s \in Sessions : /\ op[s] = "update" /\ hand[s].who = p
                                /\ "suppressed" \in hand[s].dirty]_vars

\* The inductive part of the two properties.  A session's object is of a row
\* that exists; an object that was loaded erased, or that delete erased, can
\* write nothing but "[anonymized]"; a flag is only dirty in one direction.
HandInv(s) ==
  /\ pc[s] # "idle" => hand[s].who \in Prospects /\ row[hand[s].who].present
  /\ pc[s] = "idle" => hand[s].dirty = {}
  /\ hand[s].anonymized => \A f \in hand[s].dirty \intersect Fields : hand[s].pii[f] = Purge
  /\ "anonymized" \in hand[s].dirty => hand[s].anonymized
  /\ "suppressed" \in hand[s].dirty => op[s] = "update"

RowInv ==
  /\ \A p \in Prospects : row[p].anonymized => row[p].present
  /\ \A o \in Officers : \A p \in doomed[o] : row[p].present

PiiInv == TypeOK /\ RowInv /\ \A s \in Sessions : HandInv(s)

-----------------------------------------------------------------------------
(* What the repository says of this code and what it does not keep.        *)

\* "the anonymised flag is set so future reads know the row is no longer PII"
\* (features/prospects/service.py:190)
AnonymisedIsNotPii ==
  \A p \in Prospects : row[p].anonymized => Blank(row[p])

\* "Anonymise the prospect + soft-delete" (features/gdpr/service.py:220)
ErasureAnonymises ==
  answer.kind = "erased" => \A p \in answer.who : row[p].anonymized
=============================================================================
