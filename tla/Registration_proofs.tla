------------------------- MODULE Registration_proofs -------------------------
(***************************************************************************)
(* Proofs about Registration for every value of its constants.             *)
(*                                                                         *)
(* The writes by email hit the row that has the email when they run.  The  *)
(* inductive invariant says why that is the row that was checked: the      *)
(* unique keys hold, a request has found one row at most, and what a       *)
(* verification has checked still holds unless it is marked as changed.    *)
(***************************************************************************)
EXTENDS Registration, TLAPS

KeysUnique ==
  \A i, j \in Rows :
    Present(i) /\ Present(j) /\ (user[i].email = user[j].email \/ user[i].doc = user[j].doc)
      => i = j

FoundOne ==
  \A r \in Requests : req[r] # Idle => \A i, j \in req[r].found : i = j

ChecksHold ==
  \A r \in Requests : req[r] # Idle /\ req[r].op = "verify" =>
    /\ req[r].found # {}
    /\ ~req[r].changed =>
         \A i \in req[r].found :
           Present(i) /\ user[i].email = req[r].email /\ Matches(i, req[r].code)

IInv == TypeOK /\ KeysUnique /\ FoundOne /\ ChecksHold

-----------------------------------------------------------------------------
(* Records.                                                                *)

Deleted == {Gone("removed"), Gone("cleaned")}

LEMMA DeletedIsNoRow ==
  /\ NoRow \notin Row /\ Deleted \cap Row = {}
  /\ Gone("removed") # Gone("cleaned") /\ NoRow \notin Deleted
<1>1. ASSUME NEW w PROVE [is |-> w] \notin Row
  <2> SUFFICES ASSUME [is |-> w] \in Row PROVE FALSE
    OBVIOUS
  <2>1. "email" \in DOMAIN [is |-> w]
    BY DEF Row
  <2>2. DOMAIN [is |-> w] = {"is"}
    OBVIOUS
  <2> QED
    BY <2>1, <2>2
<1>2. ASSUME NEW v, NEW w, v # w PROVE [is |-> v] # [is |-> w]
  <2>1. [is |-> v].is = v /\ [is |-> w].is = w
    OBVIOUS
  <2> QED
    BY <1>2, <2>1
<1>3. NoRow \notin Row /\ Gone("removed") \notin Row /\ Gone("cleaned") \notin Row
  BY <1>1 DEF NoRow, Gone
<1>4. /\ Gone("removed") # Gone("cleaned")
      /\ NoRow # Gone("removed") /\ NoRow # Gone("cleaned")
  BY <1>2 DEF NoRow, Gone
<1> QED
  BY <1>3, <1>4 DEF Deleted

LEMMA IdleIsNoRequest == Idle \notin Request
<1> SUFFICES ASSUME Idle \in Request PROVE FALSE
  OBVIOUS
<1>1. DOMAIN Idle = {"at"}
  BY DEF Idle
<1>2. "op" \in DOMAIN Idle
  BY DEF Request
<1> QED
  BY <1>1, <1>2

LEMMA RowOfUser ==
  ASSUME TypeOK, NEW i \in Rows
  PROVE  /\ Present(i) <=> user[i] \in Row
         /\ Present(i) \/ user[i] = NoRow \/ user[i] \in Deleted
BY DeletedIsNoRow DEF TypeOK, Present, Deleted

(* The ways to change a row. *)
LEMMA CodeChange ==
  ASSUME NEW row \in Row, NEW c \in Codes
  PROVE  LET n == [row EXCEPT !.code = c, !.late = FALSE] IN
         n \in Row /\ n.email = row.email /\ n.doc = row.doc /\ n.verified = row.verified
<1>1. [row EXCEPT !.code = c, !.late = FALSE] \in Row
  BY DEF Row
<1> QED
  BY <1>1 DEF Row

LEMMA CodeCleared ==
  ASSUME NEW row \in Row
  PROVE  /\ Cleared(row) \in Row
         /\ Cleared(row).email = row.email /\ Cleared(row).doc = row.doc
         /\ Cleared(row).verified = row.verified
<1>1. 0 \in Codes
  BY RegistrationAssumption DEF Codes
<1> QED
  BY <1>1, CodeChange DEF Cleared

LEMMA VerifiedRow ==
  ASSUME NEW row \in Row
  PROVE  LET n == [Cleared(row) EXCEPT !.verified = TRUE] IN
         n \in Row /\ n.email = row.email /\ n.doc = row.doc
<1>1. PICK m \in Row : m = Cleared(row) /\ m.email = row.email /\ m.doc = row.doc
  BY CodeCleared
<1>2. [m EXCEPT !.verified = TRUE] \in Row
  BY DEF Row
<1> QED
  BY <1>1, <1>2 DEF Row

LEMMA MovedRow ==
  ASSUME NEW row \in Row, NEW e \in Emails
  PROVE  LET n == [Cleared(row) EXCEPT !.email = e] IN
         n \in Row /\ n.email = e /\ n.doc = row.doc /\ n.verified = row.verified
<1>1. PICK m \in Row : m = Cleared(row) /\ m.doc = row.doc /\ m.verified = row.verified
  BY CodeCleared
<1>2. [m EXCEPT !.email = e] \in Row
  BY DEF Row
<1> QED
  BY <1>1, <1>2 DEF Row

LEMMA LateRow ==
  ASSUME NEW row \in Row, row.code # 0
  PROVE  LET n == [row EXCEPT !.late = TRUE] IN
         /\ n \in Row /\ n.email = row.email /\ n.doc = row.doc
         /\ n.verified = row.verified /\ n.code = row.code
<1>1. [row EXCEPT !.late = TRUE] \in Row
  BY DEF Row
<1> QED
  BY <1>1 DEF Row

-----------------------------------------------------------------------------
(* Requests. *)

(* What Touched does to a request. *)
LEMMA TouchedRequests ==
  ASSUME NEW rs \in [Requests -> Request \cup {Idle}], NEW I \in SUBSET Rows
  PROVE  /\ Touched(rs, I) \in [Requests -> Request \cup {Idle}]
         /\ \A q \in Requests :
              LET t == Touched(rs, I)[q] IN
              /\ rs[q] = Idle <=> t = Idle
              /\ rs[q] # Idle =>
                   /\ t.op = rs[q].op /\ t.email = rs[q].email
                   /\ t.found = rs[q].found /\ t.code = rs[q].code
                   /\ ~t.changed /\ rs[q].op = "verify"
                        => ~rs[q].changed /\ rs[q].found \cap I = {}
<1>1. ASSUME NEW q \in Requests
      PROVE  \/ /\ Touched(rs, I)[q] = rs[q]
                /\ ~(rs[q] # Idle /\ rs[q].op = "verify" /\ rs[q].found \cap I # {})
             \/ /\ rs[q] \in Request
                /\ Touched(rs, I)[q] = [rs[q] EXCEPT !.changed = TRUE]
  BY DEF Touched
<1>2. ASSUME NEW x \in Request
      PROVE  /\ [x EXCEPT !.changed = TRUE] \in Request
             /\ [x EXCEPT !.changed = TRUE].op = x.op
             /\ [x EXCEPT !.changed = TRUE].email = x.email
             /\ [x EXCEPT !.changed = TRUE].found = x.found
             /\ [x EXCEPT !.changed = TRUE].code = x.code
             /\ [x EXCEPT !.changed = TRUE].changed
  BY DEF Request
<1>3. Touched(rs, I) \in [Requests -> Request \cup {Idle}]
  BY <1>1, <1>2 DEF Touched
<1>4. ASSUME NEW q \in Requests
      PROVE  LET t == Touched(rs, I)[q] IN
             /\ rs[q] = Idle <=> t = Idle
             /\ rs[q] # Idle =>
                  /\ t.op = rs[q].op /\ t.email = rs[q].email
                  /\ t.found = rs[q].found /\ t.code = rs[q].code
                  /\ ~t.changed /\ rs[q].op = "verify"
                       => ~rs[q].changed /\ rs[q].found \cap I = {}
  <2>1. PICK t : t = Touched(rs, I)[q]
    OBVIOUS
  <2>2. \/ /\ t = rs[q]
           /\ ~(rs[q] # Idle /\ rs[q].op = "verify" /\ rs[q].found \cap I # {})
        \/ /\ rs[q] \in Request /\ t \in Request
           /\ t.op = rs[q].op /\ t.email = rs[q].email
           /\ t.found = rs[q].found /\ t.code = rs[q].code /\ t.changed
    <3>1. CASE rs[q] \in Request /\ t = [rs[q] EXCEPT !.changed = TRUE]
      BY <1>2, <3>1
    <3> QED
      BY <1>1, <2>1, <3>1
  <2>3. rs[q] = Idle <=> t = Idle
    BY <2>2, IdleIsNoRequest
  <2>4. rs[q] # Idle =>
           /\ t.op = rs[q].op /\ t.email = rs[q].email
           /\ t.found = rs[q].found /\ t.code = rs[q].code
           /\ ~t.changed /\ rs[q].op = "verify"
                => ~rs[q].changed /\ rs[q].found \cap I = {}
    BY <2>2
  <2> QED
    BY <2>1, <2>3, <2>4
<1> QED
  BY <1>3, <1>4

LEMMA TouchNone ==
  ASSUME NEW rs \in [Requests -> Request \cup {Idle}]
  PROVE  rs = Touched(rs, {})
BY DEF Touched

LEMMA Closed ==
  ASSUME TypeOK, NEW r \in Requests
  PROVE  LET rs == [req EXCEPT ![r] = Idle] IN
         /\ rs \in [Requests -> Request \cup {Idle}]
         /\ rs[r] = Idle
         /\ \A q \in Requests : rs[q] = req[q] \/ rs[q] = Idle
BY DEF TypeOK

(* A step that changes the rows I at most, and marks what has checked them, *)
(* keeps what the open requests have found.                                *)
LEMMA RequestsOutside ==
  ASSUME IInv, NEW I \in SUBSET Rows,
         NEW rs \in [Requests -> Request \cup {Idle}],
         \A q \in Requests : rs[q] = req[q] \/ rs[q] = Idle,
         req' = Touched(rs, I),
         \A i \in Rows \ I : Present(i) => /\ Present(i)'
                                           /\ user'[i].email = user[i].email
                                           /\ user'[i].code = user[i].code
  PROVE  req' \in [Requests -> Request \cup {Idle}] /\ FoundOne' /\ ChecksHold'
<1>1. req' \in [Requests -> Request \cup {Idle}]
  BY TouchedRequests
<1>2. ASSUME NEW q \in Requests, req'[q] # Idle
      PROVE  /\ req[q] # Idle
             /\ req'[q].op = req[q].op /\ req'[q].email = req[q].email
             /\ req'[q].found = req[q].found /\ req'[q].code = req[q].code
             /\ ~req'[q].changed /\ req[q].op = "verify"
                  => ~req[q].changed /\ req[q].found \cap I = {}
  BY <1>2, TouchedRequests
<1>3. FoundOne'
  BY <1>2 DEF IInv, FoundOne
<1>4. ASSUME NEW q \in Requests, req'[q] # Idle, req'[q].op = "verify", ~req'[q].changed,
             NEW i \in req'[q].found
      PROVE  Present(i)' /\ user'[i].email = req'[q].email /\ Matches(i, req[q].code)'
  <2>1. /\ req[q] # Idle /\ ~req[q].changed /\ req[q].op = "verify"
        /\ i \in req[q].found /\ i \notin I
        /\ req'[q].email = req[q].email /\ req'[q].code = req[q].code
    BY <1>2, <1>4
  <2>2. i \in Rows \ I
    BY <2>1 DEF IInv, TypeOK, Request
  <2>3. /\ Present(i) /\ user[i].email = req[q].email
        /\ user[i].code # 0 /\ user[i].code = req[q].code
    BY <2>1 DEF IInv, ChecksHold, Matches
  <2>4. Present(i)' /\ user'[i].email = user[i].email /\ user'[i].code = user[i].code
    BY <2>2, <2>3
  <2> QED
    BY <2>1, <2>3, <2>4 DEF Matches
<1>5. ASSUME NEW q \in Requests, req'[q] # Idle, req'[q].op = "verify"
      PROVE  req'[q].found # {}
  BY <1>2, <1>5 DEF IInv, ChecksHold
<1>6. ChecksHold'
  BY <1>4, <1>5 DEF ChecksHold
<1> QED
  BY <1>1, <1>3, <1>6

(* A request begins with the one row it has found. *)
LEMMA BeginKeeps ==
  ASSUME IInv, NEW r \in Requests, NEW o \in Ops, NEW s \in Stages,
         NEW e \in Emails, NEW d \in Documents, NEW to \in Emails, NEW c \in Codes,
         NEW found \in SUBSET Rows, Begin(r, o, s, e, d, to, c, found),
         \A i, j \in found : i = j,
         o = "verify" =>
           /\ found # {}
           /\ \A i \in found : Present(i) /\ user[i].email = e /\ Matches(i, c)
  PROVE  IInv'
<1> DEFINE new == [at |-> s, op |-> o, email |-> e, doc |-> d, to |-> to,
                   code |-> c, found |-> found, changed |-> FALSE]
<1>1. new \in Request
  BY DEF Request
<1>2. /\ req' \in [Requests -> Request \cup {Idle}]
      /\ req'[r] = new
      /\ \A q \in Requests : q # r => req'[q] = req[q]
  BY <1>1 DEF Begin, IInv, TypeOK
<1>3. new.op = o /\ new.email = e /\ new.code = c /\ new.found = found
  OBVIOUS
<1> HIDE DEF new
<1>4. user' = user /\ codes' = codes /\ mail' = mail /\ cron' = cron
  BY DEF Begin
<1>5. TypeOK'
  BY <1>2, <1>4 DEF IInv, TypeOK
<1>6. KeysUnique'
  BY <1>4 DEF IInv, KeysUnique, Present
<1>7. FoundOne'
  BY <1>2, <1>3 DEF IInv, FoundOne
<1>8. ChecksHold'
  BY <1>2, <1>3, <1>4 DEF IInv, ChecksHold, Present, Matches
<1> QED
  BY <1>5, <1>6, <1>7, <1>8 DEF IInv

LEMMA BeginsKeep ==
  ASSUME IInv, NEW r \in Requests, BeginSome(r)
  PROVE  IInv'
<1>0. 0 \in Codes /\ \A e \in Emails : mail[e] \subseteq Codes
  BY RegistrationAssumption DEF Codes, IInv, TypeOK
<1>1. Register(r) => IInv'
  BY <1>0, BeginKeeps DEF Register, Ops, Stages
<1>2. VerifyEmail(r) => IInv'
  <2> SUFFICES ASSUME NEW e \in Emails, NEW c \in mail[e], NEW i \in With(e), Matches(i, c),
                      Begin(r, "verify", "expiry", e, AnyDoc, e, c, {i})
               PROVE  IInv'
    BY DEF VerifyEmail
  <2>1. i \in Rows /\ Present(i) /\ user[i].email = e /\ c \in Codes
    BY <1>0 DEF With
  <2>2. AnyDoc \in Documents
    BY <2>1, RowOfUser DEF IInv, Row, AnyDoc
  <2> QED
    BY <2>1, <2>2, BeginKeeps DEF Ops, Stages
<1>3. ASSUME NEW o \in {"resend", "request", "confirm"}, NEW s \in {"write", "check"},
             NEW e \in Emails, NEW to \in Emails, NEW c \in Codes, NEW i \in With(e),
             Begin(r, o, s, e, AnyDoc, to, c, {i})
      PROVE  IInv'
  <2>1. i \in Rows /\ Present(i)
    BY DEF With
  <2>2. AnyDoc \in Documents
    BY <2>1, RowOfUser DEF IInv, Row, AnyDoc
  <2> QED
    BY <1>3, <2>1, <2>2, BeginKeeps DEF Ops, Stages
<1>4. ResendEmailConfirmation(r) => IInv'
  BY <1>0, <1>3 DEF ResendEmailConfirmation
<1>5. RequestEmailChange(r) => IInv'
  BY <1>0, <1>3 DEF RequestEmailChange
<1>6. ConfirmEmailChange(r) => IInv'
  BY <1>0, <1>3 DEF ConfirmEmailChange
<1> QED
  BY <1>1, <1>2, <1>4, <1>5, <1>6 DEF BeginSome

-----------------------------------------------------------------------------
(* The steps of a request. *)

LEMMA SameKeysStayUnique ==
  ASSUME IInv,
         \A j \in Rows : Present(j)' => /\ Present(j) /\ user'[j].email = user[j].email
                                        /\ user'[j].doc = user[j].doc
  PROVE  KeysUnique'
BY DEF IInv, KeysUnique

(* A write to the rows I, of which every verification that has found one   *)
(* is told.                                                                *)
LEMMA WriteKeeps ==
  ASSUME IInv, NEW I \in SUBSET Rows, NEW rs \in [Requests -> Request \cup {Idle}],
         \A q \in Requests : rs[q] = req[q] \/ rs[q] = Idle,
         req' = Touched(rs, I),
         codes' \in Codes, mail' \in [Emails -> SUBSET (1 .. MaxCodes)],
         cron' \in [at : {"idle", "found"}, ids : SUBSET Rows],
         user' \in [Rows -> Row \cup {NoRow, Gone("removed"), Gone("cleaned")}],
         \A j \in Rows \ I : Present(j) => user'[j] = user[j],
         KeysUnique'
  PROVE  IInv'
<1>1. \A j \in Rows \ I : Present(j) =>
        Present(j)' /\ user'[j].email = user[j].email /\ user'[j].code = user[j].code
  BY DEF Present
<1>2. req' \in [Requests -> Request \cup {Idle}] /\ FoundOne' /\ ChecksHold'
  BY <1>1, RequestsOutside
<1> QED
  BY <1>2 DEF IInv, TypeOK

(* A request that ends without a write. *)
LEMMA CloseKeeps ==
  ASSUME IInv, NEW r \in Requests, Close(r), UNCHANGED <<user, codes, mail, cron>>
  PROVE  IInv'
<1>1. PICK rs : rs = [req EXCEPT ![r] = Idle]
  OBVIOUS
<1>2. /\ rs \in [Requests -> Request \cup {Idle}]
      /\ \A q \in Requests : rs[q] = req[q] \/ rs[q] = Idle
      /\ req' = Touched(rs, {})
  BY <1>1, Closed, TouchNone DEF Close, IInv
<1>3. KeysUnique'
  BY DEF IInv, KeysUnique, Present
<1> QED
  BY <1>2, <1>3, WriteKeeps DEF IInv, TypeOK

(* A request that goes on to its write. *)
LEMMA GoToKeeps ==
  ASSUME IInv, NEW r \in Requests, req[r] # Idle, GoTo(r, "write"),
         UNCHANGED <<user, codes, mail, cron>>
  PROVE  IInv'
<1>1. req[r] \in Request /\ req' = [req EXCEPT ![r].at = "write"]
  BY DEF GoTo, IInv, TypeOK
<1>2. PICK new : new = [req[r] EXCEPT !.at = "write"]
  OBVIOUS
<1>3. /\ new \in Request /\ new.op = req[r].op /\ new.email = req[r].email
      /\ new.found = req[r].found /\ new.code = req[r].code /\ new.changed = req[r].changed
  BY <1>1, <1>2 DEF Request, Stages
<1>4. /\ req' \in [Requests -> Request \cup {Idle}] /\ req'[r] = new
      /\ \A q \in Requests : q # r => req'[q] = req[q]
  BY <1>1, <1>2, <1>3 DEF IInv, TypeOK
<1>5. TypeOK' /\ KeysUnique'
  BY <1>4 DEF IInv, TypeOK, KeysUnique, Present
<1>6. FoundOne'
  BY <1>3, <1>4 DEF IInv, FoundOne
<1>7. ChecksHold'
  BY <1>3, <1>4 DEF IInv, ChecksHold, Present, Matches
<1> QED
  BY <1>5, <1>6, <1>7 DEF IInv

LEMMA InsertKeeps ==
  ASSUME IInv, NEW r \in Requests, Insert(r)
  PROVE  IInv'
<1>1. PICK rs : rs = [req EXCEPT ![r] = Idle]
  OBVIOUS
<1>2. /\ rs \in [Requests -> Request \cup {Idle}]
      /\ \A q \in Requests : rs[q] = req[q] \/ rs[q] = Idle
      /\ req' = Touched(rs, {})
  BY <1>1, Closed, TouchNone DEF Close, IInv, Insert
<1>3. req[r] \in Request
  BY DEF Insert, At, Idle, IInv, TypeOK
<1>4. ASSUME With(req[r].email) \cup WithDoc(req[r].doc) = {}
      PROVE  IInv'
  <2>1. PICK i : i = CHOOSE f \in Free : TRUE
    OBVIOUS
  <2>2. PICK c : c = IF req[r].op = "create" THEN codes + 1 ELSE 0
    OBVIOUS
  <2> DEFINE row == [email |-> req[r].email, doc |-> req[r].doc,
                     verified |-> req[r].op = "direct", code |-> c, late |-> FALSE]
  <2>3. /\ Free # {} /\ c <= MaxCodes
        /\ user' = [user EXCEPT ![i] = row]
        /\ IF c = 0 THEN UNCHANGED <<codes, mail>>
           ELSE codes' = c /\ SendMail(req[r].email, c)
        /\ cron' = cron
    BY <1>4, <2>1, <2>2 DEF Insert
  <2>4. i \in Rows /\ user[i] = NoRow /\ ~Present(i)
    BY <2>1, <2>3 DEF Free, Present
  <2>5. codes \in Nat /\ c \in Codes
    BY <2>2, <2>3, RegistrationAssumption DEF IInv, TypeOK, Codes
  <2>6. row \in Row /\ row.email = req[r].email /\ row.doc = req[r].doc
    BY <1>3, <2>5 DEF Row, Request
  <2> HIDE DEF row
  <2>7. /\ user' \in [Rows -> Row \cup {NoRow, Gone("removed"), Gone("cleaned")}]
        /\ \A j \in Rows : j # i => user'[j] = user[j]
        /\ user'[i] = row
    BY <2>3, <2>4, <2>6 DEF IInv, TypeOK
  <2>8. KeysUnique'
    <3>1. \A j \in Rows : Present(j) => user[j].email # row.email /\ user[j].doc # row.doc
      BY <1>4, <2>6 DEF With, WithDoc
    <3>2. \A j \in Rows : j # i => (Present(j)' <=> Present(j))
      BY <2>7 DEF Present
    <3> QED
      BY <2>7, <3>1, <3>2 DEF IInv, KeysUnique
  <2>9. codes' \in Codes /\ mail' \in [Emails -> SUBSET (1 .. MaxCodes)]
    <3>1. c = 0 => codes' = codes /\ mail' = mail
      BY <2>3
    <3>2. c # 0 => c \in 1 .. MaxCodes
      BY <2>5, RegistrationAssumption DEF Codes
    <3>3. c # 0 => codes' = c /\ mail' \in {mail, [mail EXCEPT ![req[r].email] = @ \cup {c}]}
      BY <2>3 DEF SendMail
    <3> QED
      BY <2>5, <3>1, <3>2, <3>3 DEF IInv, TypeOK
  <2>10. \A j \in Rows \ {} : Present(j) => user'[j] = user[j]
    BY <2>4, <2>7
  <2>11. cron' \in [at : {"idle", "found"}, ids : SUBSET Rows]
    BY <2>3 DEF IInv, TypeOK
  <2> QED
    BY <1>2, <2>7, <2>8, <2>9, <2>10, <2>11, WriteKeeps
<1>5. ASSUME With(req[r].email) \cup WithDoc(req[r].doc) # {}
      PROVE  IInv'
  BY <1>5, CloseKeeps DEF Insert
<1> QED
  BY <1>4, <1>5

LEMMA ChecksKeep ==
  ASSUME IInv, NEW r \in Requests, CheckExpiry(r) \/ CheckNewEmail(r)
  PROVE  IInv'
<1>1. req[r] # Idle
  BY DEF CheckExpiry, CheckNewEmail, At, Idle
<1> QED
  BY <1>1, GoToKeeps, CloseKeeps DEF CheckExpiry, CheckNewEmail

(* A write by a request to rows that stay rows, and keep their document.   *)
LEMMA RowsWritten ==
  ASSUME IInv, NEW r \in Requests, NEW I \in SUBSET Rows,
         req' = Touched([req EXCEPT ![r] = Idle], I),
         codes' \in Codes, mail' \in [Emails -> SUBSET (1 .. MaxCodes)], cron' = cron,
         NEW new, user' = [i \in Rows |-> IF i \in I THEN new[i] ELSE user[i]],
         \A i \in I : Present(i) /\ new[i] \in Row,
         KeysUnique'
  PROVE  IInv'
<1>1. PICK rs : rs = [req EXCEPT ![r] = Idle]
  OBVIOUS
<1>2. /\ rs \in [Requests -> Request \cup {Idle}]
      /\ \A q \in Requests : rs[q] = req[q] \/ rs[q] = Idle
      /\ req' = Touched(rs, I)
  BY <1>1, Closed DEF IInv
<1>3. user' \in [Rows -> Row \cup {NoRow, Gone("removed"), Gone("cleaned")}]
  <2>1. \A i \in Rows : user'[i] \in Row \cup {NoRow, Gone("removed"), Gone("cleaned")}
    BY DEF IInv, TypeOK
  <2>2. user' = [i \in Rows |-> user'[i]]
    OBVIOUS
  <2> QED
    BY <2>1, <2>2
<1>4. \A j \in Rows \ I : Present(j) => user'[j] = user[j]
  OBVIOUS
<1>5. cron' \in [at : {"idle", "found"}, ids : SUBSET Rows]
  BY DEF IInv, TypeOK
<1> QED
  BY <1>2, <1>3, <1>4, <1>5, WriteKeeps

(* If the rows keep their address as well, the keys stay unique.           *)
LEMMA DataWritten ==
  ASSUME IInv, NEW I \in SUBSET Rows, NEW new,
         user' = [i \in Rows |-> IF i \in I THEN new[i] ELSE user[i]],
         \A i \in I : /\ Present(i) /\ new[i].email = user[i].email
                      /\ new[i].doc = user[i].doc
  PROVE  KeysUnique'
<1>1. \A j \in Rows : Present(j)' => /\ Present(j) /\ user'[j].email = user[j].email
                                     /\ user'[j].doc = user[j].doc
  BY DEF Present
<1> QED
  BY <1>1, SameKeysStayUnique

LEMMA MarkVerifiedKeeps ==
  ASSUME IInv, NEW r \in Requests, MarkVerified(r)
  PROVE  IInv'
<1>1. PICK I \in SUBSET Rows : I = With(req[r].email)
  BY DEF With
<1>2. PICK new : new = [i \in Rows |-> [Cleared(user[i]) EXCEPT !.verified = TRUE]]
  OBVIOUS
<1>3. /\ user' = [i \in Rows |-> IF i \in I THEN new[i] ELSE user[i]]
      /\ req' = Touched([req EXCEPT ![r] = Idle], I)
      /\ codes' = codes /\ mail' = mail /\ cron' = cron
  BY <1>1, <1>2 DEF MarkVerified
<1>4. ASSUME NEW i \in I
      PROVE  /\ Present(i) /\ new[i] \in Row /\ new[i].email = user[i].email
             /\ new[i].doc = user[i].doc
  <2>1. i \in Rows /\ Present(i) /\ user[i] \in Row
    BY <1>1, RowOfUser DEF With, IInv
  <2>2. new[i] = [Cleared(user[i]) EXCEPT !.verified = TRUE]
    BY <1>2, <2>1
  <2> QED
    BY <2>1, <2>2, VerifiedRow
<1>5. KeysUnique'
  BY <1>3, <1>4, DataWritten
<1>6. codes' \in Codes /\ mail' \in [Emails -> SUBSET (1 .. MaxCodes)]
  BY <1>3 DEF IInv, TypeOK
<1> QED
  BY <1>3, <1>4, <1>5, <1>6, RowsWritten

LEMMA NewCodeKeeps ==
  ASSUME IInv, NEW r \in Requests, NewCode(r)
  PROVE  IInv'
<1>0. req[r] \in Request /\ req[r].found \subseteq Rows
  <2>0. At(r, "write")
    BY DEF NewCode
  <2>1. req[r] # Idle
    BY <2>0 DEF At, Idle
  <2>2. req[r] \in Request
    BY <2>1 DEF IInv, TypeOK
  <2> QED
    BY <2>2 DEF Request
<1>1. PICK I \in SUBSET Rows : I = IF req[r].op = "resend" THEN With(req[r].email)
                                   ELSE {i \in req[r].found : Present(i)}
  <2>1. With(req[r].email) \in SUBSET Rows
    BY DEF With
  <2>2. {i \in req[r].found : Present(i)} \in SUBSET Rows
    BY <1>0
  <2> QED
    BY <2>1, <2>2
<1>2. (Close(r) /\ UNCHANGED <<user, codes, mail>> /\ cron' = cron) => IInv'
  BY CloseKeeps
<1>3. ASSUME codes < MaxCodes, codes' = codes + 1,
             user' = [i \in Rows |-> IF i \in I
                        THEN [user[i] EXCEPT !.code = codes', !.late = FALSE] ELSE user[i]],
             SendMail(req[r].to, codes'),
             req' = Touched([req EXCEPT ![r] = Idle], I), cron' = cron
      PROVE  IInv'
  <2>1. codes \in Codes /\ codes < MaxCodes /\ codes' = codes + 1
    BY <1>3 DEF IInv, TypeOK
  <2>2. codes' \in Codes /\ codes' \in 1 .. MaxCodes
    BY <2>1, RegistrationAssumption DEF Codes
  <2>3. PICK c \in Codes : c = codes'
    BY <2>2
  <2>4. PICK new : new = [i \in Rows |-> [user[i] EXCEPT !.code = c, !.late = FALSE]]
    OBVIOUS
  <2>5. user' = [i \in Rows |-> IF i \in I THEN new[i] ELSE user[i]]
    BY <1>3, <2>3, <2>4
  <2>6. ASSUME NEW i \in I
        PROVE  /\ Present(i) /\ new[i] \in Row /\ new[i].email = user[i].email
               /\ new[i].doc = user[i].doc
    <3>1. i \in Rows /\ Present(i) /\ user[i] \in Row
      BY <1>1, RowOfUser DEF With, IInv
    <3>2. PICK u \in Row : u = user[i]
      BY <3>1
    <3>3. new[i] = [u EXCEPT !.code = c, !.late = FALSE]
      BY <2>4, <3>1, <3>2
    <3>4. new[i] \in Row /\ new[i].email = u.email /\ new[i].doc = u.doc
      BY <3>3, CodeChange, ZenonT(60)
    <3> QED
      BY <3>1, <3>2, <3>4
  <2>7. KeysUnique'
    BY <2>5, <2>6, DataWritten
  <2>8. mail' \in [Emails -> SUBSET (1 .. MaxCodes)]
    <3>1. mail' = mail \/ mail' = [mail EXCEPT ![req[r].to] = @ \cup {codes'}]
      BY <1>3 DEF SendMail
    <3>2. mail \in [Emails -> SUBSET (1 .. MaxCodes)]
      BY DEF IInv, TypeOK
    <3> QED
      BY <2>2, <3>1, <3>2
  <2> QED
    BY <1>3, <2>2, <2>5, <2>6, <2>7, <2>8, RowsWritten
<1> QED
  BY <1>1, <1>2, <1>3 DEF NewCode

LEMMA ChangeEmailKeeps ==
  ASSUME IInv, NEW r \in Requests, ChangeEmail(r)
  PROVE  IInv'
<1>0. req[r] \in Request /\ req[r].to \in Emails
  BY DEF ChangeEmail, At, Idle, IInv, TypeOK, Request
<1>1. PICK I \in SUBSET Rows : I = {i \in req[r].found : Present(i)}
  BY <1>0 DEF Request
<1>2. \A i, j \in I : i = j
  BY <1>0, <1>1, IdleIsNoRequest DEF IInv, FoundOne
<1>3. PICK to \in Emails : to = req[r].to
  BY <1>0
<1>4. ASSUME With(to) \ I # {}
      PROVE  IInv'
  BY <1>1, <1>3, <1>4, CloseKeeps DEF ChangeEmail
<1>5. ASSUME With(to) \ I = {}
      PROVE  IInv'
  <2>1. PICK new : new = [i \in Rows |-> [Cleared(user[i]) EXCEPT !.email = to]]
    OBVIOUS
  <2>2. /\ user' = [i \in Rows |-> IF i \in I THEN new[i] ELSE user[i]]
        /\ req' = Touched([req EXCEPT ![r] = Idle], I)
        /\ codes' = codes /\ mail' = mail /\ cron' = cron
    BY <1>1, <1>3, <1>5, <2>1 DEF ChangeEmail
  <2>3. ASSUME NEW i \in I
        PROVE  /\ Present(i) /\ new[i] \in Row /\ new[i].email = to
               /\ new[i].doc = user[i].doc
    <3>1. i \in Rows /\ Present(i) /\ user[i] \in Row
      BY <1>1, RowOfUser DEF IInv
    <3>2. new[i] = [Cleared(user[i]) EXCEPT !.email = to]
      BY <2>1, <3>1
    <3> QED
      BY <3>1, <3>2, MovedRow
  <2>4. KeysUnique'
    <3>1. \A j \in Rows : /\ Present(j)' => Present(j)
                          /\ j \in I => user'[j].email = to /\ user'[j].doc = user[j].doc
                          /\ j \notin I => user'[j] = user[j]
      BY <2>2, <2>3 DEF Present
    <3>2. \A j \in Rows \ I : Present(j) => user[j].email # to
      BY <1>5 DEF With
    <3>3. ASSUME NEW j \in Rows, NEW k \in Rows, Present(j)', Present(k)',
                 user'[j].email = user'[k].email \/ user'[j].doc = user'[k].doc
          PROVE  j = k
      <4>1. j \in I /\ k \in I => j = k
        BY <1>2
      <4>2. j \notin I /\ k \notin I => j = k
        BY <3>1, <3>3 DEF IInv, KeysUnique
      <4>3. user'[j].doc = user'[k].doc => j = k
        BY <3>1, <3>3 DEF IInv, KeysUnique
      <4>4. user'[j].email = user'[k].email => (j \in I <=> k \in I)
        BY <3>1, <3>2, <3>3
      <4> QED
        BY <3>3, <4>1, <4>2, <4>3, <4>4
    <3> QED
      BY <3>3 DEF KeysUnique
  <2>5. codes' \in Codes /\ mail' \in [Emails -> SUBSET (1 .. MaxCodes)]
    BY <2>2 DEF IInv, TypeOK
  <2> QED
    BY <2>2, <2>3, <2>4, <2>5, RowsWritten
<1> QED
  BY <1>4, <1>5

-----------------------------------------------------------------------------
(* The cleanup, the removal of a user, and time. *)

(* Rows that are deleted. *)
LEMMA RowsDeleted ==
  ASSUME IInv, NEW I \in SUBSET Rows, NEW gone \in Deleted,
         user' = [i \in Rows |-> IF i \in I THEN gone ELSE user[i]],
         req' = Touched(req, I), codes' = codes, mail' = mail,
         cron' \in [at : {"idle", "found"}, ids : SUBSET Rows]
  PROVE  IInv'
<1>1. PICK rs : rs = req
  OBVIOUS
<1>2. /\ rs \in [Requests -> Request \cup {Idle}]
      /\ \A q \in Requests : rs[q] = req[q] \/ rs[q] = Idle
      /\ req' = Touched(rs, I)
  BY <1>1 DEF IInv, TypeOK
<1>3. user' \in [Rows -> Row \cup {NoRow, Gone("removed"), Gone("cleaned")}]
  BY DEF IInv, TypeOK, Deleted
<1>4. \A j \in Rows \ I : Present(j) => user'[j] = user[j]
  OBVIOUS
<1>5. \A j \in Rows : Present(j)' => Present(j) /\ user'[j] = user[j]
  BY DEF Present, Deleted
<1>6. KeysUnique'
  BY <1>5, SameKeysStayUnique
<1>7. codes' \in Codes /\ mail' \in [Emails -> SUBSET (1 .. MaxCodes)]
  BY DEF IInv, TypeOK
<1> QED
  BY <1>2, <1>3, <1>4, <1>6, <1>7, WriteKeeps

LEMMA CronKeeps ==
  ASSUME IInv, FindExpired \/ CleanupUnverifiedUsers
  PROVE  IInv'
<1>1. Expired \in SUBSET Rows
  BY DEF Expired
<1>2. FindExpired => IInv'
  <2> SUFFICES ASSUME FindExpired PROVE IInv'
    OBVIOUS
  <2>1. cron' \in [at : {"idle", "found"}, ids : SUBSET Rows]
    BY <1>1 DEF FindExpired
  <2>2. UNCHANGED <<user, codes, mail, req>>
    BY DEF FindExpired
  <2>3. TypeOK'
    BY <2>1, <2>2 DEF IInv, TypeOK
  <2>4. KeysUnique' /\ FoundOne' /\ ChecksHold'
    BY <2>2 DEF IInv, KeysUnique, FoundOne, ChecksHold, Present, Matches
  <2> QED
    BY <2>3, <2>4 DEF IInv
<1>3. CleanupUnverifiedUsers => IInv'
  <2> SUFFICES ASSUME CleanupUnverifiedUsers PROVE IInv'
    OBVIOUS
  <2>1. /\ user' = [i \in Rows |-> IF i \in Expired THEN Gone("cleaned") ELSE user[i]]
        /\ req' = Touched(req, Expired) /\ codes' = codes /\ mail' = mail
        /\ cron' \in [at : {"idle", "found"}, ids : SUBSET Rows]
    BY DEF CleanupUnverifiedUsers, ToDelete
  <2>2. Gone("cleaned") \in Deleted
    BY DEF Deleted
  <2> QED
    BY <1>1, <2>1, <2>2, RowsDeleted
<1> QED
  BY <1>2, <1>3

LEMMA RemoveKeeps ==
  ASSUME IInv, NEW k \in Rows, Remove(k)
  PROVE  IInv'
<1>1. user' = [i \in Rows |-> IF i \in {k} THEN Gone("removed") ELSE user[i]]
  BY DEF Remove, IInv, TypeOK
<1>2. Gone("removed") \in Deleted /\ {k} \in SUBSET Rows
  BY DEF Deleted
<1>3. /\ req' = Touched(req, {k}) /\ codes' = codes /\ mail' = mail
      /\ cron' \in [at : {"idle", "found"}, ids : SUBSET Rows]
  BY DEF Remove, IInv, TypeOK
<1> QED
  BY <1>1, <1>2, <1>3, RowsDeleted

LEMMA ExpiryKeeps ==
  ASSUME IInv, NEW k \in Rows, CodeExpires(k)
  PROVE  IInv'
<1>1. PICK row \in Row : row = user[k] /\ row.code # 0
  BY RowOfUser DEF CodeExpires, IInv
<1>2. PICK new \in Row :
        /\ new = [row EXCEPT !.late = TRUE] /\ new.email = row.email /\ new.doc = row.doc
        /\ new.verified = row.verified /\ new.code = row.code
  BY <1>1, LateRow
<1>3. user' = [user EXCEPT ![k] = new]
  BY <1>1, <1>2 DEF CodeExpires
<1>4. /\ user' \in [Rows -> Row \cup {NoRow, Gone("removed"), Gone("cleaned")}]
      /\ user'[k] = new /\ \A j \in Rows : j # k => user'[j] = user[j]
  BY <1>3 DEF IInv, TypeOK
<1>5. new \notin {NoRow, Gone("removed"), Gone("cleaned")}
  BY DeletedIsNoRow DEF Deleted
<1>6. ASSUME NEW j \in Rows
      PROVE  /\ Present(j)' => Present(j)
             /\ Present(j) => Present(j)'
             /\ Present(j) => /\ user'[j].email = user[j].email
                              /\ user'[j].doc = user[j].doc
                              /\ user'[j].code = user[j].code
  BY <1>1, <1>2, <1>4, <1>5 DEF Present, CodeExpires
<1>7. KeysUnique'
  <2>1. \A j \in Rows : Present(j)' => /\ Present(j) /\ user'[j].email = user[j].email
                                       /\ user'[j].doc = user[j].doc
    BY <1>6
  <2> QED
    BY <2>1, SameKeysStayUnique
<1>8. PICK rs : rs = req
  OBVIOUS
<1>9. /\ rs \in [Requests -> Request \cup {Idle}]
      /\ \A q \in Requests : rs[q] = req[q] \/ rs[q] = Idle
      /\ req' = Touched(rs, {})
  BY <1>8, TouchNone DEF IInv, TypeOK, CodeExpires
<1>10. FoundOne' /\ ChecksHold'
  <2>1. \A j \in Rows \ {} : Present(j) => /\ Present(j)'
                                           /\ user'[j].email = user[j].email
                                           /\ user'[j].code = user[j].code
    BY <1>6
  <2>2. {} \in SUBSET Rows
    OBVIOUS
  <2> QED
    BY <1>9, <2>1, <2>2, RequestsOutside
<1>11. TypeOK'
  BY <1>4 DEF IInv, TypeOK, CodeExpires
<1> QED
  BY <1>7, <1>10, <1>11 DEF IInv

-----------------------------------------------------------------------------
(* The invariant. *)

LEMMA InitInv == Init => IInv
<1> SUFFICES ASSUME Init PROVE IInv
  OBVIOUS
<1>1. TypeOK
  BY RegistrationAssumption DEF Init, TypeOK, Codes
<1>2. \A i \in Rows : ~Present(i)
  BY DEF Init, Present
<1>3. KeysUnique
  BY <1>2 DEF KeysUnique
<1>4. FoundOne /\ ChecksHold
  BY DEF Init, FoundOne, ChecksHold
<1> QED
  BY <1>1, <1>3, <1>4 DEF IInv

LEMMA StepInv == IInv /\ [Next]_vars => IInv'
<1> SUFFICES ASSUME IInv, [Next]_vars PROVE IInv'
  OBVIOUS
<1>1. ASSUME NEW r \in Requests, BeginSome(r)
      PROVE  IInv'
  BY <1>1, BeginsKeep
<1>2. ASSUME NEW r \in Requests, RequestStep(r)
      PROVE  IInv'
  BY <1>2, InsertKeeps, ChecksKeep, MarkVerifiedKeeps, NewCodeKeeps, ChangeEmailKeeps
     DEF RequestStep
<1>3. FindExpired \/ CleanupUnverifiedUsers => IInv'
  BY CronKeeps
<1>4. ASSUME NEW i \in Rows, Remove(i) \/ CodeExpires(i)
      PROVE  IInv'
  BY <1>4, RemoveKeeps, ExpiryKeeps
<1>5. UNCHANGED vars => IInv'
  BY DEF vars, IInv, TypeOK, KeysUnique, FoundOne, ChecksHold, Present, Matches
<1> QED
  BY <1>1, <1>2, <1>3, <1>4, <1>5 DEF Next

(* The keys stay unique and the open verifications keep what they found:   *)
(* verifyEmail, resendEmailConfirmation and confirmEmailChange may be      *)
(* interleaved with each other, with the cleanup and with removals.        *)
THEOREM Invariant == Spec => []IInv
<1>1. Init => IInv
  BY InitInv
<1>2. IInv /\ [Next]_vars => IInv'
  BY StepInv
<1> QED
  BY <1>1, <1>2, PTL DEF Spec

(* Every table, mailbox and request keeps its type.                        *)
THEOREM TypeCorrect == Spec => []TypeOK
<1>1. IInv => TypeOK
  BY DEF IInv
<1> QED
  BY <1>1, Invariant, PTL

-----------------------------------------------------------------------------
(* What a step writes. *)

(* A row that changes keeps verified, loses it with its deletion, or gets  *)
(* it by MarkVerified; the cleanup alone writes "cleaned".                 *)
LEMMA Writes ==
  ASSUME IInv, [Next]_vars, NEW i \in Rows, Present(i)
  PROVE  \/ user'[i] = user[i]
         \/ user'[i] = Gone("removed")
         \/ user'[i] \in Row /\ user'[i].verified = user[i].verified
         \/ user'[i] = Gone("cleaned") /\ ~user[i].verified
         \/ \E r \in Requests : MarkVerified(r) /\ i \in With(req[r].email) /\ user'[i] \in Row
<1>0. user[i] \in Row
  BY RowOfUser DEF IInv
<1>1. ASSUME NEW r \in Requests, BeginSome(r) PROVE user'[i] = user[i]
  BY <1>1 DEF BeginSome, Register, VerifyEmail, ResendEmailConfirmation,
              RequestEmailChange, ConfirmEmailChange, Begin
<1>2. ASSUME NEW r \in Requests, Insert(r) PROVE user'[i] = user[i]
  <2>1. PICK k : k = CHOOSE f \in Free : TRUE
    OBVIOUS
  <2>2. \/ user' = user
        \/ Free # {} /\ \E row : user' = [user EXCEPT ![k] = row]
    BY <1>2, <2>1 DEF Insert
  <2>3. Free # {} => k # i
    BY <2>1 DEF Free, Present
  <2> QED
    BY <2>2, <2>3 DEF IInv, TypeOK
<1>3. ASSUME NEW r \in Requests, CheckExpiry(r) \/ CheckNewEmail(r) PROVE user'[i] = user[i]
  BY <1>3 DEF CheckExpiry, CheckNewEmail
<1>4. ASSUME NEW r \in Requests, MarkVerified(r)
      PROVE  \/ user'[i] = user[i]
             \/ i \in With(req[r].email) /\ user'[i] \in Row
  BY <1>0, <1>4, VerifiedRow DEF MarkVerified
<1>5. ASSUME NEW r \in Requests, NewCode(r)
      PROVE  \/ user'[i] = user[i]
             \/ user'[i] \in Row /\ user'[i].verified = user[i].verified
  <2>1. PICK hit : hit = IF req[r].op = "resend" THEN With(req[r].email)
                         ELSE {k \in req[r].found : Present(k)}
    OBVIOUS
  <2>2. \/ user' = user
        \/ /\ codes < MaxCodes /\ codes' = codes + 1
           /\ user' = [k \in Rows |-> IF k \in hit
                 THEN [user[k] EXCEPT !.code = codes', !.late = FALSE] ELSE user[k]]
    BY <1>5, <2>1 DEF NewCode
  <2>3. codes \in Codes
    BY DEF IInv, TypeOK
  <2>4. codes < MaxCodes /\ codes' = codes + 1 => codes' \in Codes
    BY <2>3, RegistrationAssumption DEF Codes
  <2>5. \/ user'[i] = user[i]
        \/ codes' \in Codes /\ user'[i] = [user[i] EXCEPT !.code = codes', !.late = FALSE]
    BY <2>2, <2>4
  <2> QED
    BY <1>0, <2>5, CodeChange, ZenonT(60)
<1>6. ASSUME NEW r \in Requests, ChangeEmail(r)
      PROVE  \/ user'[i] = user[i]
             \/ user'[i] \in Row /\ user'[i].verified = user[i].verified
  <2>1. PICK to \in Emails : to = req[r].to
    BY <1>6 DEF ChangeEmail, At, Idle, IInv, TypeOK, Request
  <2>2. \/ user'[i] = user[i]
        \/ user'[i] = [Cleared(user[i]) EXCEPT !.email = to]
    BY <1>6, <2>1 DEF ChangeEmail
  <2>3. PICK n \in Row : /\ n = [Cleared(user[i]) EXCEPT !.email = to]
                         /\ n.verified = user[i].verified
    BY <1>0, <2>1, MovedRow
  <2> QED
    BY <2>2, <2>3
<1>7. FindExpired => user'[i] = user[i]
  BY DEF FindExpired
<1>8. CleanupUnverifiedUsers =>
        user'[i] = user[i] \/ (user'[i] = Gone("cleaned") /\ ~user[i].verified)
  BY DEF CleanupUnverifiedUsers, ToDelete, Expired
<1>9. ASSUME NEW k \in Rows, Remove(k)
      PROVE  user'[i] = user[i] \/ user'[i] = Gone("removed")
  BY <1>9 DEF Remove, IInv, TypeOK
<1>10. ASSUME NEW k \in Rows, CodeExpires(k)
       PROVE  \/ user'[i] = user[i]
              \/ user'[i] \in Row /\ user'[i].verified = user[i].verified
  <2>1. user'[i] = user[i] \/ (k = i /\ user'[i] = [user[i] EXCEPT !.late = TRUE])
    BY <1>10 DEF CodeExpires, IInv, TypeOK
  <2> QED
    BY <1>0, <1>10, <2>1, LateRow DEF CodeExpires
<1>11. UNCHANGED vars => user'[i] = user[i]
  BY DEF vars
<1> QED
  BY <1>1, <1>2, <1>3, <1>4, <1>5, <1>6, <1>7, <1>8, <1>9, <1>10, <1>11
     DEF Next, RequestStep

(* The cleanup of any number of accounts deletes no verified one, whatever *)
(* runs between its findMany and its deleteMany.                           *)
THEOREM CleanupSparesVerified == Spec => VerifiedNotCleaned
<1>1. ASSUME IInv, [Next]_vars, NEW i \in Rows, Present(i), user[i].verified
      PROVE  user'[i] # Gone("cleaned")
  <2>1. user[i] \in Row
    BY <1>1, RowOfUser DEF IInv
  <2> QED
    BY <1>1, <2>1, Writes, DeletedIsNoRow DEF Deleted
<1>2. IInv /\ [Next]_vars
        => [\A i \in Rows : Present(i) /\ user[i].verified => user'[i] # Gone("cleaned")]_vars
  BY <1>1
<1> QED
  BY <1>2, Invariant, PTL DEF Spec, VerifiedNotCleaned

(* With any number of users and requests, a code verifies the account it   *)
(* was generated for: verifyEmail writes by email what it checked by code, *)
(* and if the row is not marked as changed it is the one it found.         *)
THEOREM OwnCodeVerifies == Spec => VerifiedByOwnCode
<1>1. ASSUME IInv, [Next]_vars, NEW i \in Rows, Present(i), ~user[i].verified,
             user'[i] # user[i], user'[i] \notin {Gone("removed"), Gone("cleaned")},
             user'[i].verified
      PROVE  \E r \in Requests :  /\ At(r, "write") /\ req'[r] = Idle
                                  /\ req[r].code = user[i].code \/ req[r].changed
  <2>1. PICK r \in Requests : MarkVerified(r) /\ i \in With(req[r].email)
    BY <1>1, Writes
  <2>2. PICK rs : rs = [req EXCEPT ![r] = Idle]
    OBVIOUS
  <2>3. rs \in [Requests -> Request \cup {Idle}] /\ rs[r] = Idle
    BY <1>1, <2>2, Closed DEF IInv
  <2>4. With(req[r].email) \in SUBSET Rows
    BY DEF With
  <2>5. req' = Touched(rs, With(req[r].email))
    BY <2>1, <2>2 DEF MarkVerified
  <2>6. req'[r] = Idle
    BY <2>3, <2>4, <2>5, TouchedRequests
  <2>7. At(r, "write") /\ req[r].op = "verify" /\ req[r] # Idle
    BY <2>1 DEF MarkVerified, At, Idle
  <2>8. ~req[r].changed => req[r].code = user[i].code
    <3>1. SUFFICES ASSUME ~req[r].changed PROVE req[r].code = user[i].code
      OBVIOUS
    <3>2. PICK j \in req[r].found : TRUE
      BY <1>1, <2>7 DEF IInv, ChecksHold
    <3>3. Present(j) /\ user[j].email = req[r].email /\ Matches(j, req[r].code)
      BY <1>1, <2>7, <3>1 DEF IInv, ChecksHold
    <3>4. j \in Rows
      BY <1>1, <2>7 DEF IInv, TypeOK, Request
    <3>5. i = j
      BY <1>1, <2>1, <3>3, <3>4 DEF With, IInv, KeysUnique
    <3> QED
      BY <3>3, <3>5 DEF Matches
  <2>9. req[r].code = user[i].code \/ req[r].changed
    BY <2>8
  <2> QED
    BY <2>6, <2>7, <2>9
<1>2. IInv /\ [Next]_vars =>
        [\A i \in Rows : Present(i) /\ ~user[i].verified /\ user'[i] # user[i]
            /\ user'[i] \notin {Gone("removed"), Gone("cleaned")} /\ user'[i].verified
           => \E r \in Requests : /\ At(r, "write") /\ req'[r] = Idle
                                  /\ req[r].code = user[i].code \/ req[r].changed]_vars
  BY <1>1
<1> QED
  BY <1>2, Invariant, PTL DEF Spec, VerifiedByOwnCode
=============================================================================
