------------------------- MODULE UserAccounts_proofs -------------------------
(***************************************************************************)
(* Proofs about UserAccounts for every value of its constants.             *)
(*                                                                         *)
(* Three things make the inductive invariant: the unique indexes hold      *)
(* between any two rows; a demotion on its way to its update is of someone *)
(* else of the same store; and what a request has checked still holds,     *)
(* unless the request is marked as out of date.                            *)
(***************************************************************************)
EXTENDS UserAccounts, TLAPS

KeysHold ==
  \A i, j \in Users : Present(i) /\ Present(j) => Keys(i, user[i], j, user[j])

DemotesOther ==
  \A r \in Requests : req[r] # Idle /\ req[r].op = "demote" =>
    /\ req[r].by # req[r].on
    /\ req[r].at = "write" => Home[req[r].on] = Home[req[r].by]

ChecksHold ==
  \A r \in Requests :
    req[r] # Idle /\ req[r].op \in {"reset", "change"} =>
      LET i == req[r].on IN
      /\ req[r].at = "write"
      /\ ~req[r].changed =>
           /\ Present(i)
           /\ req[r].op = "change" => Knows(i, req[r].password)
           /\ req[r].op = "reset" => user[i].email = req[r].email /\ RightCode(i, req[r].code)

IInv == TypeOK /\ KeysHold /\ DemotesOther /\ ChecksHold

-----------------------------------------------------------------------------
(* Records.                                                                *)

LEMMA GoneIsNoRow == Gone \notin Row
<1> SUFFICES ASSUME Gone \in Row PROVE FALSE
  OBVIOUS
<1>1. Gone \in [email : Emails, role : Roles, password : Passwords, code : Codes, late : BOOLEAN]
  BY DEF Row
<1>2. DOMAIN Gone = {"is"}
  BY DEF Gone
<1>3. "email" \in DOMAIN Gone
  BY <1>1
<1> QED
  BY <1>2, <1>3

LEMMA IdleIsNoRequest == Idle \notin Request
<1> SUFFICES ASSUME Idle \in Request PROVE FALSE
  OBVIOUS
<1>1. DOMAIN Idle = {"at"}
  BY DEF Idle
<1>2. "op" \in DOMAIN Idle
  BY DEF Request
<1> QED
  BY <1>1, <1>2

(* A change of one or two fields of a row gives a row.                     *)
LEMMA RoleChange ==
  ASSUME NEW row \in Row, NEW x \in Roles
  PROVE  LET n == [row EXCEPT !.role = x] IN
         /\ n \in Row
         /\ n.email = row.email /\ n.password = row.password /\ n.code = row.code
<1>1. [row EXCEPT !.role = x] \in Row
  BY DEF Row
<1> QED
  BY <1>1 DEF Row

LEMMA PasswordChange ==
  ASSUME NEW row \in Row, NEW p \in Passwords
  PROVE  LET n == [row EXCEPT !.password = p] IN
         n \in Row /\ n.email = row.email /\ n.role = row.role
<1>1. [row EXCEPT !.password = p] \in Row
  BY DEF Row
<1> QED
  BY <1>1 DEF Row

LEMMA CodeChange ==
  ASSUME NEW row \in Row, NEW c \in Codes
  PROVE  LET n == [row EXCEPT !.code = c, !.late = FALSE] IN
         n \in Row /\ n.email = row.email /\ n.role = row.role
<1>1. [row EXCEPT !.code = c, !.late = FALSE] \in Row
  BY DEF Row
<1> QED
  BY <1>1 DEF Row

LEMMA ResetChange ==
  ASSUME NEW row \in Row, NEW p \in Passwords
  PROVE  LET n == NewPassword(row, p) IN
         n \in Row /\ n.email = row.email /\ n.role = row.role
<1>1. 0 \in Codes
  BY AccountsAssumption DEF Codes
<1>2. PICK m \in Row : m = [row EXCEPT !.password = p]
  BY PasswordChange
<1>3. m.email = row.email /\ m.role = row.role
  BY <1>2, PasswordChange
<1>4. NewPassword(row, p) = [m EXCEPT !.code = 0, !.late = FALSE]
  BY <1>2 DEF NewPassword
<1> QED
  BY <1>1, <1>3, <1>4, CodeChange

LEMMA DataChange ==
  ASSUME NEW row \in Row, NEW e \in Emails, NEW p \in Passwords
  PROVE  [row EXCEPT !.email = e, !.password = p] \in Row
BY DEF Row

LEMMA CodeTooLate ==
  ASSUME NEW row \in Row, row.code # 0
  PROVE  LET n == [row EXCEPT !.late = TRUE] IN
         /\ n \in Row
         /\ n.email = row.email /\ n.role = row.role
         /\ n.password = row.password /\ n.code = row.code
<1>1. [row EXCEPT !.late = TRUE] \in Row
  BY DEF Row
<1> QED
  BY <1>1 DEF Row

(* What Touched does to a request. *)
LEMMA TouchedRequests ==
  ASSUME NEW rs \in [Requests -> Request \cup {Idle}], NEW I \in SUBSET Users
  PROVE  /\ Touched(rs, I) \in [Requests -> Request \cup {Idle}]
         /\ \A q \in Requests :
              LET t == Touched(rs, I)[q] IN
              /\ rs[q] = Idle <=> t = Idle
              /\ rs[q] # Idle =>
                   /\ t.at = rs[q].at /\ t.op = rs[q].op /\ t.by = rs[q].by
                   /\ t.on = rs[q].on /\ t.email = rs[q].email
                   /\ t.password = rs[q].password /\ t.code = rs[q].code
                   /\ ~t.changed /\ rs[q].op \in {"reset", "change"}
                        => ~rs[q].changed /\ rs[q].on \notin I
<1>1. ASSUME NEW q \in Requests
      PROVE  \/ /\ Touched(rs, I)[q] = rs[q]
                /\ ~(rs[q] # Idle /\ rs[q].op \in {"reset", "change"} /\ rs[q].on \in I)
             \/ /\ rs[q] \in Request
                /\ Touched(rs, I)[q] = [rs[q] EXCEPT !.changed = TRUE]
  BY DEF Touched
<1>2. ASSUME NEW x \in Request
      PROVE  /\ [x EXCEPT !.changed = TRUE] \in Request
             /\ \A f \in {"at", "op", "by", "on", "email", "password", "code"} :
                  [x EXCEPT !.changed = TRUE][f] = x[f]
             /\ [x EXCEPT !.changed = TRUE].changed = TRUE
  BY DEF Request
<1>3. Touched(rs, I) \in [Requests -> Request \cup {Idle}]
  BY <1>1, <1>2 DEF Touched
<1>4. ASSUME NEW q \in Requests
      PROVE  LET t == Touched(rs, I)[q] IN
              /\ rs[q] = Idle <=> t = Idle
              /\ rs[q] # Idle =>
                   /\ t.at = rs[q].at /\ t.op = rs[q].op /\ t.by = rs[q].by
                   /\ t.on = rs[q].on /\ t.email = rs[q].email
                   /\ t.password = rs[q].password /\ t.code = rs[q].code
                   /\ ~t.changed /\ rs[q].op \in {"reset", "change"}
                        => ~rs[q].changed /\ rs[q].on \notin I
  <2> DEFINE t == Touched(rs, I)[q]
  <2>1. rs[q] \in Request \/ rs[q] = Idle
    OBVIOUS
  <2>2. t = rs[q] \/ (rs[q] \in Request /\ t = [rs[q] EXCEPT !.changed = TRUE])
    BY <1>1
  <2>3. rs[q] = Idle <=> t = Idle
    BY <1>2, <2>1, <2>2, IdleIsNoRequest
  <2>4. rs[q] \in Request /\ t = [rs[q] EXCEPT !.changed = TRUE] =>
          /\ t.at = rs[q].at /\ t.op = rs[q].op /\ t.by = rs[q].by
          /\ t.on = rs[q].on /\ t.email = rs[q].email
          /\ t.password = rs[q].password /\ t.code = rs[q].code /\ t.changed
    BY DEF Request
  <2>5. rs[q] # Idle =>
          /\ t.at = rs[q].at /\ t.op = rs[q].op /\ t.by = rs[q].by
          /\ t.on = rs[q].on /\ t.email = rs[q].email
          /\ t.password = rs[q].password /\ t.code = rs[q].code
    <3> HIDE DEF t
    <3> QED
      BY <2>2, <2>4
  <2>6. ~t.changed /\ rs[q] # Idle /\ rs[q].op \in {"reset", "change"}
           => ~rs[q].changed /\ rs[q].on \notin I
    <3> HIDE DEF t
    <3>1. \/ t = rs[q] /\ ~(rs[q] # Idle /\ rs[q].op \in {"reset", "change"} /\ rs[q].on \in I)
          \/ t.changed
      <4>1. \/ t = rs[q] /\ ~(rs[q] # Idle /\ rs[q].op \in {"reset", "change"} /\ rs[q].on \in I)
            \/ rs[q] \in Request /\ t = [rs[q] EXCEPT !.changed = TRUE]
        BY <1>1 DEF t
      <4> QED
        BY <4>1, <2>4
    <3> QED
      BY <3>1
  <2> QED
    BY <2>3, <2>5, <2>6
<1> QED
  BY <1>3, <1>4

-----------------------------------------------------------------------------
(* What a write leaves alone. *)

LEMMA RowOfUser ==
  ASSUME TypeOK, NEW i \in Users
  PROVE  Present(i) => user[i] \in Row
BY DEF TypeOK, Present

(* A row that may be stored keeps the indexes. *)
LEMMA FittingRowKeepsKeys ==
  ASSUME TypeOK, KeysHold, NEW i \in Users, NEW row, Fits(i, row),
         user' = [user EXCEPT ![i] = row]
  PROVE  KeysHold'
<1> SUFFICES ASSUME NEW j \in Users, NEW k \in Users, Present(j)', Present(k)'
             PROVE  Keys(j, user[j], k, user[k])'
  BY DEF KeysHold
<1>1. \A m \in Users : m # i => user'[m] = user[m] /\ (Present(m)' => Present(m))
  BY DEF TypeOK, Present
<1>2. user'[i] = row
  BY DEF TypeOK
<1>3. j # i /\ k # i => Keys(j, user'[j], k, user'[k])
  BY <1>1 DEF KeysHold
<1>4. j = i /\ k # i => Keys(j, user'[j], k, user'[k])
  BY <1>1, <1>2 DEF Fits
<1>5. j # i /\ k = i => Keys(j, user'[j], k, user'[k])
  BY <1>1, <1>2 DEF Fits, Keys, StoreKeys
<1>6. j = k => Keys(j, user'[j], k, user'[k])
  BY DEF Keys, StoreKeys
<1>7. Keys(j, user'[j], k, user'[k])
  BY <1>3, <1>4, <1>5, <1>6
<1> QED
  BY <1>7 DEF Keys, StoreKeys

(* So does a write of neither addresses nor roles, and a removal. *)
LEMMA SameAddressesKeepKeys ==
  ASSUME KeysHold,
         \A i \in Users : Present(i)' => /\ Present(i)
                                         /\ user'[i].email = user[i].email
                                         /\ user'[i].role = user[i].role
  PROVE  KeysHold'
BY DEF KeysHold, Keys, StoreKeys

(* What has been checked of the rows outside I still holds. *)
LEMMA ChecksOutside ==
  ASSUME IInv, NEW I \in SUBSET Users,
         NEW rs \in [Requests -> Request \cup {Idle}],
         \A q \in Requests : rs[q] = req[q] \/ rs[q] = Idle,
         req' = Touched(rs, I),
         \A i \in Users \ I : Present(i) => /\ Present(i)'
                                            /\ user'[i].email = user[i].email
                                            /\ user'[i].password = user[i].password
                                            /\ user'[i].code = user[i].code
  PROVE  req' \in [Requests -> Request \cup {Idle}] /\ DemotesOther' /\ ChecksHold'
<1>1. req' \in [Requests -> Request \cup {Idle}]
  BY TouchedRequests
<1>2. ASSUME NEW q \in Requests, req'[q] # Idle
      PROVE  /\ req[q] # Idle
             /\ req'[q].at = req[q].at /\ req'[q].op = req[q].op /\ req'[q].by = req[q].by
             /\ req'[q].on = req[q].on /\ req'[q].email = req[q].email
             /\ req'[q].password = req[q].password /\ req'[q].code = req[q].code
             /\ ~req'[q].changed /\ req[q].op \in {"reset", "change"}
                  => ~req[q].changed /\ req[q].on \notin I
  BY <1>2, TouchedRequests
<1>3. DemotesOther'
  BY <1>2 DEF IInv, DemotesOther
<1>4. ASSUME NEW q \in Requests, req'[q] # Idle, ~req'[q].changed,
             req'[q].op \in {"reset", "change"}
      PROVE  /\ Present(req[q].on)'
             /\ req'[q].op = "change" => Knows(req[q].on, req[q].password)'
             /\ req'[q].op = "reset" => /\ user'[req'[q].on].email = req'[q].email
                                        /\ RightCode(req[q].on, req[q].code)'
  <2> PICK i : i = req[q].on
    OBVIOUS
  <2>0. /\ req[q] # Idle /\ ~req[q].changed /\ req[q].op \in {"reset", "change"} /\ i \notin I
        /\ req'[q].op = req[q].op /\ req'[q].on = i /\ req'[q].email = req[q].email
        /\ req'[q].password = req[q].password /\ req'[q].code = req[q].code
    BY <1>2, <1>4
  <2>1. req[q] \in Request
    BY <2>0 DEF IInv, TypeOK
  <2>2. i \in Users \ I
    BY <2>0, <2>1 DEF Request
  <2>3. /\ Present(i)
        /\ req[q].op = "change" => Knows(i, req[q].password)
        /\ req[q].op = "reset" => user[i].email = req[q].email /\ RightCode(i, req[q].code)
    BY <2>0 DEF IInv, ChecksHold
  <2>4. /\ Present(i)' /\ user'[i].email = user[i].email
        /\ user'[i].password = user[i].password /\ user'[i].code = user[i].code
    BY <2>2, <2>3 DEF Present
  <2>5. user'[i] # Gone
    BY <2>4 DEF Present
  <2>6. req[q].op = "change" => user'[i].password = req[q].password
    BY <2>3, <2>4 DEF Knows
  <2>7. req[q].op = "reset" => /\ user'[i].email = req[q].email
                              /\ user'[i].code # 0 /\ user'[i].code = req[q].code
    BY <2>3, <2>4 DEF RightCode
  <2> QED
    BY <2>0, <2>5, <2>6, <2>7 DEF Present, Knows, RightCode
<1>5. ASSUME NEW q \in Requests, req'[q] # Idle, req'[q].op \in {"reset", "change"}
      PROVE  req'[q].at = "write"
  BY <1>2, <1>5 DEF IInv, ChecksHold
<1>6. ChecksHold'
  BY <1>4, <1>5 DEF ChecksHold
<1> QED
  BY <1>1, <1>3, <1>6

LEMMA TouchNone ==
  ASSUME NEW rs \in [Requests -> Request \cup {Idle}]
  PROVE  rs = Touched(rs, {})
BY DEF Touched

LEMMA Closed ==
  ASSUME TypeOK, NEW r \in Requests
  PROVE  /\ Close(r) \in [Requests -> Request \cup {Idle}]
         /\ \A q \in Requests : Close(r)[q] = req[q] \/ Close(r)[q] = Idle
BY DEF TypeOK, Close

(* A request ends, or another may have seen nothing of it. *)
LEMMA RefuseKeeps ==
  ASSUME IInv, NEW r \in Requests, Refuse(r)
  PROVE  IInv'
<1>1. req' = Touched(Close(r), {})
  BY Closed, TouchNone DEF IInv, Refuse
<1>2. \A i \in Users : Present(i) <=> Present(i)'
  BY DEF Refuse, Present
<1>3. req' \in [Requests -> Request \cup {Idle}] /\ DemotesOther' /\ ChecksHold'
  BY <1>1, <1>2, Closed, ChecksOutside DEF IInv, Refuse
<1>4. KeysHold'
  BY <1>2, SameAddressesKeepKeys DEF IInv, Refuse
<1> QED
  BY <1>3, <1>4 DEF IInv, TypeOK, Refuse

-----------------------------------------------------------------------------
(* The invariant holds initially and every action keeps it. *)

LEMMA InitInv == Init => IInv
<1> SUFFICES ASSUME Init PROVE IInv
  OBVIOUS
<1>1. TypeOK
  BY AccountsAssumption DEF Init, TypeOK, Codes
<1>2. KeysHold
  BY DEF Init, KeysHold
<1>3. DemotesOther /\ ChecksHold
  BY DEF Init, DemotesOther, ChecksHold
<1> QED
  BY <1>1, <1>2, <1>3 DEF IInv

(* A request that begins is of use only for what its checks have shown.    *)
LEMMA BeginKeeps ==
  ASSUME IInv, NEW r \in Requests, NEW s \in {"find", "other", "write"},
         NEW o \in {"promote", "demote", "forgot", "reset", "change"},
         NEW by \in Users, NEW on \in Users, NEW e \in Emails \cup {None},
         NEW p \in Passwords \cup {None}, NEW c \in Codes,
         Begin(r, s, o, by, on, e, p, c),
         o = "demote" => by # on /\ s # "write",
         o \in {"reset", "change"} =>
           /\ s = "write" /\ Present(on)
           /\ o = "change" => Knows(on, p)
           /\ o = "reset" => user[on].email = e /\ RightCode(on, c)
  PROVE  IInv'
<1> DEFINE new == [at |-> s, op |-> o, by |-> by, on |-> on, email |-> e,
                   password |-> p, code |-> c, changed |-> FALSE]
<1>1. new \in Request
  BY DEF Request
<1>2. /\ req' \in [Requests -> Request \cup {Idle}]
      /\ req'[r] = new
      /\ \A q \in Requests : q # r => req'[q] = req[q]
  BY <1>1 DEF Begin, IInv, TypeOK
<1>3. /\ new.at = s /\ new.op = o /\ new.by = by /\ new.on = on /\ new.email = e
      /\ new.password = p /\ new.code = c
  OBVIOUS
<1> HIDE DEF new
<1>4. user' = user /\ codes' = codes
  BY DEF Begin
<1>5. TypeOK'
  BY <1>2, <1>4 DEF IInv, TypeOK
<1>6. KeysHold'
  BY <1>4 DEF IInv, KeysHold, Present
<1>7. DemotesOther'
  BY <1>2, <1>3 DEF IInv, DemotesOther
<1>8. ChecksHold'
  BY <1>2, <1>3, <1>4 DEF IInv, ChecksHold, Present, Knows, RightCode
<1> QED
  BY <1>5, <1>6, <1>7, <1>8 DEF IInv

LEMMA BeginsKeep ==
  ASSUME IInv, NEW r \in Requests, BeginSome(r)
  PROVE  IInv'
<1>0. 0 \in Codes
  BY AccountsAssumption DEF Codes
<1>1. ChangeRole(r) => IInv'
  <2> SUFFICES ASSUME NEW by \in Users, NEW on \in Users, NEW o \in {"promote", "demote"},
                      o = "demote" => MayDemote(by, on),
                      Begin(r, "find", o, by, on, None, None, 0)
               PROVE  IInv'
    BY DEF ChangeRole
  <2> QED
    BY <1>0, BeginKeeps DEF MayDemote
<1>2. ForgotPassword(r) => IInv'
  <2> SUFFICES ASSUME NEW i \in Users, Present(i),
                      Begin(r, "write", "forgot", i, i, user[i].email, None, 0)
               PROVE  IInv'
    BY DEF ForgotPassword
  <2>1. user[i].email \in Emails
    BY RowOfUser DEF IInv, Row
  <2> QED
    BY <1>0, <2>1, BeginKeeps
<1>3. ResetPassword(r) => IInv'
  <2> SUFFICES ASSUME NEW i \in Users, NEW c \in 1 .. codes, Present(i), RightCode(i, c),
                      Begin(r, "write", "reset", i, i, user[i].email, None, c)
               PROVE  IInv'
    BY DEF ResetPassword
  <2>1. user[i].email \in Emails
    BY RowOfUser DEF IInv, Row
  <2>2. c \in Codes
    BY AccountsAssumption DEF IInv, TypeOK, Codes
  <2> QED
    BY <2>1, <2>2, BeginKeeps
<1>4. ChangePassword(r) => IInv'
  <2> SUFFICES ASSUME NEW i \in Users, NEW p \in Passwords, Knows(i, p),
                      Begin(r, "write", "change", i, i, None, p, 0)
               PROVE  IInv'
    BY DEF ChangePassword
  <2> QED
    BY <1>0, BeginKeeps DEF Knows
<1> QED
  BY <1>1, <1>2, <1>3, <1>4 DEF BeginSome

(* A request whose stage alone moves on, with the address it has read.     *)
LEMMA MoveKeeps ==
  ASSUME IInv, NEW r \in Requests, req[r] # Idle, req[r].op \notin {"reset", "change"},
         NEW s \in {"find", "other", "write"}, NEW e \in Emails \cup {None},
         req' = [req EXCEPT ![r] = [req[r] EXCEPT !.at = s, !.email = e]],
         req[r].op = "demote" /\ s = "write" => Home[req[r].on] = Home[req[r].by],
         UNCHANGED <<user, codes>>
  PROVE  IInv'
<1>1. req[r] \in Request
  BY DEF IInv, TypeOK
<1> DEFINE new == [req[r] EXCEPT !.at = s, !.email = e]
<1>2. /\ new \in Request /\ new.at = s /\ new.op = req[r].op
      /\ new.by = req[r].by /\ new.on = req[r].on
  BY <1>1 DEF Request
<1>3. /\ req' \in [Requests -> Request \cup {Idle}]
      /\ req'[r] = new
      /\ \A q \in Requests : q # r => req'[q] = req[q]
  BY <1>2 DEF IInv, TypeOK
<1> HIDE DEF new
<1>4. TypeOK'
  BY <1>3 DEF IInv, TypeOK
<1>5. KeysHold'
  BY DEF IInv, KeysHold, Present
<1>6. DemotesOther'
  BY <1>2, <1>3 DEF IInv, DemotesOther
<1>7. ChecksHold'
  BY <1>2, <1>3 DEF IInv, ChecksHold, Present, Knows, RightCode
<1> QED
  BY <1>4, <1>5, <1>6, <1>7 DEF IInv

LEMMA StagesKeep ==
  ASSUME IInv, NEW r \in Requests, FindUser(r) \/ FindOtherStore(r)
  PROVE  IInv'
<1>1. ASSUME NEW t \in Request
      PROVE  /\ t.email \in Emails \cup {None}
             /\ [t EXCEPT !.at = "write"] = [t EXCEPT !.at = "write", !.email = t.email]
  BY DEF Request
<1>2. req[r] # Idle => req[r] \in Request
  BY DEF IInv, TypeOK
<1>3. ASSUME FindUser(r), req' # Close(r)
      PROVE  IInv'
  <2>1. /\ req[r] # Idle /\ UNCHANGED <<user, codes>>
        /\ Present(req[r].on) /\ Home[req[r].on] = Home[req[r].by]
        /\ req' = IF req[r].op = "demote" THEN [req EXCEPT ![r].at = "write"]
                  ELSE [req EXCEPT ![r].at = "other", ![r].email = user[req[r].on].email]
        /\ user[req[r].on].role = IF req[r].op = "promote" THEN "user" ELSE "reseller"
    BY <1>3 DEF FindUser
  <2>2. req[r].on \in Users /\ user[req[r].on].email \in Emails
    BY <1>2, <2>1, RowOfUser DEF IInv, Request, Row
  <2>3. req[r].op \notin {"reset", "change"}
    BY <1>3, <2>1 DEF FindUser, IInv, ChecksHold
  <2>4. req[r].op = "demote" => IInv'
    <3> SUFFICES ASSUME req[r].op = "demote" PROVE IInv'
      OBVIOUS
    <3>1. req' = [req EXCEPT ![r] = [req[r] EXCEPT !.at = "write", !.email = req[r].email]]
      BY <1>1, <1>2, <2>1
    <3> QED
      BY <1>1, <1>2, <2>1, <2>3, <3>1, MoveKeeps
  <2>5. req[r].op # "demote" => IInv'
    <3> SUFFICES ASSUME req[r].op # "demote" PROVE IInv'
      OBVIOUS
    <3> DEFINE e == user[req[r].on].email
    <3>1. req' = [req EXCEPT ![r].at = "other", ![r].email = e]
      BY <2>1
    <3>2. req' = [req EXCEPT ![r] = [req[r] EXCEPT !.at = "other", !.email = e]]
      BY <3>1, <1>2, <2>1 DEF IInv, TypeOK, Request
    <3>3. e \in Emails \cup {None}
      BY <2>2
    <3> HIDE DEF e
    <3> QED
      BY <2>1, <2>3, <3>2, <3>3, MoveKeeps
  <2> QED
    BY <2>4, <2>5
<1>4. ASSUME FindUser(r), req' = Close(r)
      PROVE  IInv'
  BY <1>4, RefuseKeeps DEF FindUser, Refuse
<1>5. ASSUME FindOtherStore(r)
      PROVE  IInv'
  <2>1. Refuse(r) => IInv'
    BY RefuseKeeps
  <2>2. req[r] # Idle /\ req[r].op = "promote"
    BY <1>5 DEF FindOtherStore, At, Idle
  <2>3. GoTo(r, "write") =>
          /\ req' = [req EXCEPT ![r] = [req[r] EXCEPT !.at = "write", !.email = req[r].email]]
          /\ UNCHANGED <<user, codes>>
    BY <1>1, <1>2, <2>2 DEF GoTo
  <2>4. GoTo(r, "write") => IInv'
    BY <1>1, <1>2, <2>2, <2>3, MoveKeeps
  <2> QED
    BY <1>5, <2>1, <2>4 DEF FindOtherStore
<1> QED
  BY <1>3, <1>4, <1>5

LEMMA WriteRoleKeeps ==
  ASSUME IInv, NEW r \in Requests, WriteRole(r)
  PROVE  IInv'
<1>1. PICK i : i = req[r].on
  OBVIOUS
<1>2. i \in Users
  BY <1>1 DEF WriteRole, IInv, TypeOK, Request
<1>3. PICK x \in Roles : x = IF req[r].op = "promote" THEN "reseller" ELSE "user"
  BY DEF Roles
<1> DEFINE row == [user[i] EXCEPT !.role = x]
<1>4. /\ \/ Present(i) /\ Fits(i, row) /\ user' = [user EXCEPT ![i] = row]
         \/ UNCHANGED user
      /\ req' = Close(r) /\ codes' = codes
  BY <1>1, <1>3 DEF WriteRole
<1>5. Present(i) => /\ row \in Row /\ row.email = user[i].email
                    /\ row.password = user[i].password /\ row.code = user[i].code
  BY <1>2, RowOfUser, RoleChange DEF IInv
<1> HIDE DEF row
<1>6. ASSUME NEW j \in Users, Present(j)
      PROVE  /\ Present(j)' /\ user'[j].email = user[j].email
             /\ user'[j].password = user[j].password /\ user'[j].code = user[j].code
  BY <1>4, <1>5, <1>6, GoneIsNoRow DEF IInv, TypeOK, Present
<1>7. req' = Touched(Close(r), {})
  BY <1>4, Closed, TouchNone DEF IInv
<1>8. req' \in [Requests -> Request \cup {Idle}] /\ DemotesOther' /\ ChecksHold'
  BY <1>6, <1>7, Closed, ChecksOutside DEF IInv
<1>9. KeysHold'
  <2>1. user' = user => KeysHold'
    BY DEF IInv, KeysHold, Present
  <2> QED
    BY <1>2, <1>4, <2>1, FittingRowKeepsKeys DEF IInv
<1>10. user' \in [Users -> Row \cup {Gone}]
  BY <1>4, <1>5 DEF IInv, TypeOK
<1> QED
  BY <1>4, <1>8, <1>9, <1>10 DEF IInv, TypeOK

(* A write to some rows which changes neither addresses nor roles: every   *)
(* open request that has checked one of them is marked.                    *)
LEMMA WriteSomeKeeps ==
  ASSUME IInv, NEW I \in SUBSET Users, NEW rs \in [Requests -> Request \cup {Idle}],
         \A q \in Requests : rs[q] = req[q] \/ rs[q] = Idle,
         req' = Touched(rs, I), codes' \in Codes,
         user' \in [Users -> Row \cup {Gone}],
         \A j \in Users \ I : user'[j] = user[j],
         \A j \in I : Present(j)' => /\ Present(j) /\ user'[j].email = user[j].email
                                     /\ user'[j].role = user[j].role
  PROVE  IInv'
<1>1. req' \in [Requests -> Request \cup {Idle}] /\ DemotesOther' /\ ChecksHold'
  <2>1. \A j \in Users \ I : Present(j) =>
          /\ Present(j)' /\ user'[j].email = user[j].email
          /\ user'[j].password = user[j].password /\ user'[j].code = user[j].code
    BY DEF Present
  <2> QED
    BY <2>1, ChecksOutside
<1>2. \A j \in Users : Present(j)' => /\ Present(j) /\ user'[j].email = user[j].email
                                      /\ user'[j].role = user[j].role
  BY DEF Present
<1>3. KeysHold'
  BY <1>2, SameAddressesKeepKeys DEF IInv
<1> QED
  BY <1>1, <1>3 DEF IInv, TypeOK

LEMMA WriteCodeKeeps ==
  ASSUME IInv, NEW r \in Requests, WriteCode(r)
  PROVE  IInv'
<1>1. PICK I \in SUBSET Users : I = With(req[r].email, Home[req[r].on])
  BY DEF With
<1>2. /\ codes' = codes + 1 /\ codes < MaxCodes
      /\ user' = [i \in Users |-> IF i \in I
           THEN [user[i] EXCEPT !.code = codes', !.late = FALSE] ELSE user[i]]
      /\ req' = Touched(Close(r), I)
  BY <1>1 DEF WriteCode
<1>3. codes' \in Codes
  <2>1. codes \in Codes /\ codes < MaxCodes /\ codes' = codes + 1
    BY <1>2 DEF IInv, TypeOK
  <2> QED
    BY <2>1, AccountsAssumption DEF Codes
<1>4. PICK c \in Codes : c = codes'
  BY <1>3
<1>5. ASSUME NEW j \in I
      PROVE  /\ user'[j] \in Row /\ Present(j) /\ user'[j].email = user[j].email
             /\ user'[j].role = user[j].role
  <2>1. Present(j) /\ user[j] \in Row
    BY <1>1, RowOfUser DEF With, IInv
  <2>2. PICK u \in Row : u = user[j]
    BY <2>1
  <2>3. user'[j] = [u EXCEPT !.code = c, !.late = FALSE]
    BY <1>2, <1>4, <2>2
  <2>4. user'[j] \in Row /\ user'[j].email = u.email /\ user'[j].role = u.role
    BY <2>3, CodeChange, ZenonT(60)
  <2> QED
    BY <2>1, <2>2, <2>4
<1>6. \A j \in Users \ I : user'[j] = user[j]
  BY <1>2
<1>7. user' \in [Users -> Row \cup {Gone}]
  <2>1. \A j \in Users : user'[j] \in Row \cup {Gone}
    BY <1>5, <1>6 DEF IInv, TypeOK
  <2>2. user' = [j \in Users |-> user'[j]]
    BY <1>2
  <2> QED
    BY <2>1, <2>2
<1> QED
  BY <1>2, <1>3, <1>5, <1>6, <1>7, Closed, WriteSomeKeeps DEF IInv

LEMMA WriteResetKeeps ==
  ASSUME IInv, NEW r \in Requests, WriteReset(r)
  PROVE  IInv'
<1>1. PICK I \in SUBSET Users : I = With(req[r].email, Home[req[r].on])
  BY DEF With
<1>2. PICK p \in Passwords :
        user' = [i \in Users |-> IF i \in I THEN NewPassword(user[i], p) ELSE user[i]]
  BY <1>1 DEF WriteReset
<1>3. req' = Touched(Close(r), I) /\ codes' \in Codes
  BY <1>1 DEF WriteReset, IInv, TypeOK
<1>5. ASSUME NEW j \in I
      PROVE  /\ user'[j] \in Row /\ Present(j) /\ user'[j].email = user[j].email
             /\ user'[j].role = user[j].role
  <2>1. Present(j) /\ user[j] \in Row
    BY <1>1, RowOfUser DEF With, IInv
  <2>2. user'[j] = NewPassword(user[j], p)
    BY <1>2
  <2> QED
    BY <2>1, <2>2, ResetChange
<1>6. \A j \in Users \ I : user'[j] = user[j]
  BY <1>2
<1>7. user' \in [Users -> Row \cup {Gone}]
  <2>1. \A j \in Users : user'[j] \in Row \cup {Gone}
    BY <1>5, <1>6 DEF IInv, TypeOK
  <2>2. user' = [j \in Users |-> user'[j]]
    BY <1>2
  <2> QED
    BY <2>1, <2>2
<1> QED
  BY <1>3, <1>5, <1>6, <1>7, Closed, WriteSomeKeeps DEF IInv

LEMMA WriteChangeKeeps ==
  ASSUME IInv, NEW r \in Requests, WriteChange(r)
  PROVE  IInv'
<1>1. PICK i : i = req[r].on
  OBVIOUS
<1>2. i \in Users
  BY <1>1 DEF WriteChange, At, IInv, TypeOK, Request, Idle
<1>3. codes' \in Codes
  BY DEF WriteChange, IInv, TypeOK
<1>4. ASSUME NEW p \in Passwords, Present(i), user' = [user EXCEPT ![i].password = p],
             req' = Touched(Close(r), {i})
      PROVE  IInv'
  <2>1. user[i] \in Row
    BY <1>2, <1>4, RowOfUser DEF IInv
  <2>2. user'[i] = [user[i] EXCEPT !.password = p]
    BY <1>2, <1>4 DEF IInv, TypeOK
  <2>3. /\ user'[i] \in Row /\ user'[i].email = user[i].email
        /\ user'[i].role = user[i].role
    BY <2>1, <2>2, PasswordChange
  <2>4. user' \in [Users -> Row \cup {Gone}] /\ \A j \in Users \ {i} : user'[j] = user[j]
    BY <1>2, <1>4, <2>2, <2>3 DEF IInv, TypeOK
  <2>5. \A j \in {i} : Present(j)' => /\ Present(j) /\ user'[j].email = user[j].email
                                       /\ user'[j].role = user[j].role
    BY <1>4, <2>3 DEF Present
  <2>6. /\ Close(r) \in [Requests -> Request \cup {Idle}]
        /\ \A q \in Requests : Close(r)[q] = req[q] \/ Close(r)[q] = Idle
    BY Closed DEF IInv
  <2>7. {i} \in SUBSET Users
    BY <1>2
  <2> QED
    BY <1>3, <1>4, <2>4, <2>5, <2>6, <2>7, WriteSomeKeeps
<1>5. Refuse(r) => IInv'
  BY RefuseKeeps
<1> QED
  BY <1>1, <1>4, <1>5 DEF WriteChange, Refuse

LEMMA RestKeeps ==
  ASSUME IInv, NEW i \in Users, Update(i) \/ Remove(i) \/ CodeExpires(i)
  PROVE  IInv'
<1>0. req \in [Requests -> Request \cup {Idle}]
  BY DEF IInv, TypeOK
<1>1. ASSUME Update(i)
      PROVE  IInv'
  <2>1. PICK e \in Emails, p \in Passwords :
          /\ Present(i) /\ Fits(i, [user[i] EXCEPT !.email = e, !.password = p])
          /\ user' = [user EXCEPT ![i] = [user[i] EXCEPT !.email = e, !.password = p]]
          /\ req' = Touched(req, {i}) /\ codes' = codes
    BY <1>1 DEF Update
  <2> DEFINE row == [user[i] EXCEPT !.email = e, !.password = p]
  <2>2. row \in Row
    BY <2>1, RowOfUser, DataChange DEF IInv
  <2>3. Fits(i, row) /\ user' = [user EXCEPT ![i] = row]
    BY <2>1
  <2> HIDE DEF row
  <2>4. user' \in [Users -> Row \cup {Gone}] /\ \A j \in Users \ {i} : user'[j] = user[j]
    BY <2>2, <2>3 DEF IInv, TypeOK
  <2>5. KeysHold'
    BY <2>3, FittingRowKeepsKeys DEF IInv
  <2>6. \A j \in Users \ {i} : Present(j) =>
          /\ Present(j)' /\ user'[j].email = user[j].email
          /\ user'[j].password = user[j].password /\ user'[j].code = user[j].code
    BY <2>4 DEF Present
  <2>7. req' \in [Requests -> Request \cup {Idle}] /\ DemotesOther' /\ ChecksHold'
    BY <1>0, <2>1, <2>6, ChecksOutside
  <2> QED
    BY <2>1, <2>4, <2>5, <2>7 DEF IInv, TypeOK
<1>2. ASSUME Remove(i)
      PROVE  IInv'
  <2>1. /\ user' = [user EXCEPT ![i] = Gone] /\ req' = Touched(req, {i}) /\ codes' = codes
    BY <1>2 DEF Remove
  <2>2. /\ user' \in [Users -> Row \cup {Gone}] /\ ~Present(i)' /\ codes' \in Codes
        /\ \A j \in Users \ {i} : user'[j] = user[j]
    BY <2>1 DEF IInv, TypeOK, Present
  <2> QED
    BY <1>0, <2>1, <2>2, WriteSomeKeeps
<1>3. ASSUME CodeExpires(i)
      PROVE  IInv'
  <2>1. /\ Present(i) /\ user[i].code # 0
        /\ user' = [user EXCEPT ![i].late = TRUE] /\ UNCHANGED <<codes, req>>
    BY <1>3 DEF CodeExpires
  <2>2. user[i] \in Row /\ user'[i] = [user[i] EXCEPT !.late = TRUE]
    BY <2>1, RowOfUser DEF IInv, TypeOK
  <2>3. /\ user'[i] \in Row /\ user'[i].email = user[i].email /\ user'[i].role = user[i].role
        /\ user'[i].password = user[i].password /\ user'[i].code = user[i].code
    BY <2>1, <2>2, CodeTooLate
  <2>4. user' \in [Users -> Row \cup {Gone}] /\ \A j \in Users \ {i} : user'[j] = user[j]
    BY <2>1, <2>2, <2>3 DEF IInv, TypeOK
  <2>5. \A j \in Users :
          /\ Present(j) <=> Present(j)'
          /\ user'[j].email = user[j].email /\ user'[j].role = user[j].role
          /\ user'[j].password = user[j].password /\ user'[j].code = user[j].code
    BY <2>1, <2>3, <2>4, GoneIsNoRow DEF Present
  <2>6. KeysHold'
    BY <2>5, SameAddressesKeepKeys DEF IInv
  <2>7. req' = Touched(req, {})
    BY <1>0, <2>1, TouchNone
  <2>8. req' \in [Requests -> Request \cup {Idle}] /\ DemotesOther' /\ ChecksHold'
    BY <1>0, <2>5, <2>7, ChecksOutside
  <2> QED
    BY <2>1, <2>4, <2>6, <2>8 DEF IInv, TypeOK
<1> QED
  BY <1>1, <1>2, <1>3

LEMMA StepInv == IInv /\ [Next]_vars => IInv'
<1> SUFFICES ASSUME IInv, [Next]_vars PROVE IInv'
  OBVIOUS
<1>1. ASSUME NEW r \in Requests, BeginSome(r) PROVE IInv'
  BY <1>1, BeginsKeep
<1>2. ASSUME NEW r \in Requests, RequestStep(r) PROVE IInv'
  BY <1>2, StagesKeep, WriteRoleKeeps, WriteCodeKeeps, WriteResetKeeps, WriteChangeKeeps
     DEF RequestStep
<1>3. ASSUME NEW i \in Users, Update(i) \/ Remove(i) \/ CodeExpires(i) PROVE IInv'
  BY <1>3, RestKeeps
<1>4. ASSUME UNCHANGED vars PROVE IInv'
  <2>1. user' = user /\ codes' = codes /\ req' = req
    BY <1>4 DEF vars
  <2> QED
    BY <2>1 DEF IInv, TypeOK, KeysHold, DemotesOther, ChecksHold, Present, Knows, RightCode
<1> QED
  BY <1>1, <1>2, <1>3, <1>4 DEF Next

LEMMA Invariant == Spec => []IInv
<1>1. Init => IInv
  BY InitInv
<1>2. IInv /\ [Next]_vars => IInv'
  BY StepInv
<1> QED
  BY <1>1, <1>2, PTL DEF Spec

-----------------------------------------------------------------------------
(* Results *)

(* Types: a row has one of the roles and no expired code without a code;   *)
(* a request is at one of its stages.                                      *)
THEOREM TypeCorrect == Spec => []TypeOK
<1>1. IInv => TypeOK
  BY DEF IInv
<1> QED
  BY <1>1, Invariant, PTL

(* Whatever requests overlap, an address leads adminLogin to one reseller  *)
(* at most: the partial index decides, whose test WriteRole repeats, and   *)
(* not the search of promoteToAdmin in the other stores.                   *)
THEOREM OneResellerPerAddress == Spec => []ResellerCanSignIn
<1>1. IInv => ResellerCanSignIn
  <2> SUFFICES ASSUME IInv, NEW i \in Users, IsAdmin(i), NEW j \in AdminAccounts(user[i].email),
                      j # i
               PROVE  user[j].role = "master"
    BY DEF ResellerCanSignIn
  <2>1. /\ j \in Users /\ Present(j) /\ user[j].email = user[i].email
        /\ user[j].role \in {"reseller", "master"}
    BY DEF AdminAccounts
  <2>2. Present(i) /\ user[i].role = "reseller"
    BY DEF IsAdmin
  <2>3. Keys(i, user[i], j, user[j])
    BY <2>1, <2>2 DEF IInv, KeysHold
  <2> QED
    BY <2>1, <2>2, <2>3 DEF Keys
<1> QED
  BY <1>1, Invariant, PTL

-----------------------------------------------------------------------------
(* What the actions do to a role and to a password. *)

(* Which requests a step ends. *)
LEMMA EndedByClose ==
  ASSUME TypeOK, NEW r \in Requests, NEW q \in Requests, NEW I \in SUBSET Users,
         NEW rs \in [Requests -> Request \cup {Idle}],
         rs = req \/ rs = Close(r), req' = Touched(rs, I) \/ req' = rs,
         req[q] # Idle, req'[q] = Idle
  PROVE  q = r /\ rs = Close(r)
<1>1. rs[q] = Idle
  BY TouchedRequests
<1>2. q # r => Close(r)[q] = req[q]
  BY DEF TypeOK, Close
<1> QED
  BY <1>1, <1>2

(* The rows after a step of those who read or begin. *)
LEMMA ReadersWriteNothing ==
  ASSUME NEW r \in Requests, BeginSome(r) \/ FindUser(r) \/ FindOtherStore(r)
  PROVE  user' = user
BY DEF BeginSome, ChangeRole, ForgotPassword, ResetPassword, ChangePassword, Begin,
       FindUser, FindOtherStore, Refuse, GoTo

LEMMA CodeWritesNoPassword ==
  ASSUME IInv, NEW r \in Requests, WriteCode(r), NEW i \in Users, Present(i)
  PROVE  user'[i].role = user[i].role /\ user'[i].password = user[i].password
<1>1. user'[i] \in {user[i], [user[i] EXCEPT !.code = codes', !.late = FALSE]}
  BY DEF WriteCode
<1>2. user[i] \in Row
  BY RowOfUser DEF IInv
<1> QED
  BY <1>1, <1>2 DEF Row

LEMMA ResetWritesNoRole ==
  ASSUME IInv, NEW r \in Requests, WriteReset(r), NEW i \in Users, Present(i)
  PROVE  user'[i].role = user[i].role
<1>1. PICK p \in Passwords : user'[i] \in {user[i], NewPassword(user[i], p)}
  BY DEF WriteReset
<1>2. user[i] \in Row
  BY RowOfUser DEF IInv
<1> QED
  BY <1>1, <1>2, ResetChange

LEMMA ChangeWritesOne ==
  ASSUME IInv, NEW r \in Requests, WriteChange(r), NEW i \in Users, Present(i)
  PROVE  user'[i].role = user[i].role /\ (user'[i] = user[i] \/ i = req[r].on)
<1>1. user' = user \/ \E p \in Passwords : user' = [user EXCEPT ![req[r].on].password = p]
  BY DEF WriteChange
<1>2. user[i] \in Row
  BY RowOfUser DEF IInv
<1>3. ASSUME NEW p \in Passwords, user' = [user EXCEPT ![req[r].on].password = p]
      PROVE  /\ user'[i] \in {user[i], [user[i] EXCEPT !.password = p]}
             /\ user'[i] = user[i] \/ i = req[r].on
  BY <1>3 DEF IInv, TypeOK
<1>4. PICK u \in Row : u = user[i]
  BY <1>2
<1>5. ASSUME NEW p \in Passwords PROVE [u EXCEPT !.password = p].role = u.role
  BY PasswordChange
<1> QED
  BY <1>1, <1>3, <1>4, <1>5

LEMMA RestWritesNoRole ==
  ASSUME IInv, NEW j \in Users, Update(j) \/ Remove(j) \/ CodeExpires(j),
         NEW i \in Users, Present(i), user'[i] # Gone
  PROVE  user'[i].role = user[i].role
<1>1. user[i] \in Row
  BY RowOfUser DEF IInv
<1>2. ASSUME Update(j)
      PROVE  user'[i].role = user[i].role
  <2>1. PICK e \in Emails, p \in Passwords :
          user' = [user EXCEPT ![j] = [user[j] EXCEPT !.email = e, !.password = p]]
    BY <1>2 DEF Update
  <2>2. user'[i] \in {user[i], [user[i] EXCEPT !.email = e, !.password = p]}
    BY <2>1 DEF IInv, TypeOK
  <2> QED
    BY <1>1, <2>2 DEF Row
<1>3. ASSUME Remove(j)
      PROVE  user'[i].role = user[i].role
  BY <1>3 DEF Remove, IInv, TypeOK
<1>4. ASSUME CodeExpires(j)
      PROVE  user'[i].role = user[i].role
  <2>1. user'[i] \in {user[i], [user[i] EXCEPT !.late = TRUE]}
    BY <1>4 DEF CodeExpires, IInv, TypeOK
  <2> QED
    BY <1>1, <2>1 DEF Row
<1> QED
  BY <1>2, <1>3, <1>4

(* Only WriteRole changes a role. *)
LEMMA RoleWriter ==
  ASSUME IInv, [Next]_vars, NEW i \in Users, Present(i), user'[i] # Gone,
         user'[i].role # user[i].role
  PROVE  \E r \in Requests : WriteRole(r)
<1>1. ASSUME NEW r \in Requests, BeginSome(r) \/ RequestStep(r)
      PROVE  WriteRole(r)
  BY <1>1, ReadersWriteNothing, CodeWritesNoPassword, ResetWritesNoRole, ChangeWritesOne
     DEF RequestStep
<1>2. ASSUME NEW j \in Users, Update(j) \/ Remove(j) \/ CodeExpires(j)
      PROVE  FALSE
  BY <1>2, RestWritesNoRole
<1>3. user' # user
  OBVIOUS
<1> QED
  BY <1>1, <1>2, <1>3 DEF Next, vars

(* The step that ends a request and writes a password is that request's.   *)
LEMMA PasswordWriter ==
  ASSUME IInv, [Next]_vars, NEW i \in Users, Present(i), user'[i] # Gone,
         user'[i].password # user[i].password,
         NEW q \in Requests, req[q] # Idle, req'[q] = Idle
  PROVE  \/ WriteReset(q) /\ user'[i] # user[i]
         \/ WriteChange(q) /\ user'[i] # user[i]
<1>0. TypeOK /\ req \in [Requests -> Request \cup {Idle}] /\ user'[i] # user[i]
  BY DEF IInv, TypeOK
<1>1. ASSUME NEW r \in Requests, BeginSome(r) \/ FindUser(r) \/ FindOtherStore(r)
      PROVE  FALSE
  BY <1>1, ReadersWriteNothing
<1>2. ASSUME NEW r \in Requests, WriteRole(r)
      PROVE  FALSE
  <2>1. \/ user'[i] = user[i]
        \/ \E x \in Roles : user'[i] = [user[i] EXCEPT !.role = x]
    BY <1>0, <1>2 DEF WriteRole, Roles, TypeOK
  <2> QED
    BY <1>0, <2>1, RowOfUser, RoleChange
<1>3. ASSUME NEW r \in Requests, WriteCode(r)
      PROVE  FALSE
  BY <1>3, CodeWritesNoPassword
<1>4. ASSUME NEW r \in Requests, WriteReset(r)
      PROVE  q = r
  <2>1. PICK I \in SUBSET Users : I = With(req[r].email, Home[req[r].on])
    BY DEF With
  <2>2. req' = Touched(Close(r), I)
    BY <1>4, <2>1 DEF WriteReset
  <2>3. Close(r) \in [Requests -> Request \cup {Idle}]
    BY <1>0, Closed
  <2> QED
    BY <1>0, <2>2, <2>3, EndedByClose
<1>5. ASSUME NEW r \in Requests, WriteChange(r)
      PROVE  q = r
  <2>1. req' = Touched(Close(r), {req[r].on}) \/ req' = Close(r)
    BY <1>5 DEF WriteChange
  <2>2. Close(r) \in [Requests -> Request \cup {Idle}]
    BY <1>0, Closed
  <2>3. {req[r].on} \in SUBSET Users
    BY <1>0, <1>5 DEF WriteChange, At, TypeOK, Request, Idle
  <2> QED
    BY <1>0, <2>1, <2>2, <2>3, EndedByClose
<1>6. ASSUME NEW j \in Users, Update(j) \/ Remove(j) \/ CodeExpires(j)
      PROVE  FALSE
  <2>1. req' = Touched(req, {j}) \/ req' = req
    BY <1>6 DEF Update, Remove, CodeExpires
  <2>2. {j} \in SUBSET Users
    OBVIOUS
  <2> QED
    BY <1>0, <2>1, <2>2, TouchedRequests
<1> QED
  BY <1>0, <1>1, <1>2, <1>3, <1>4, <1>5, <1>6 DEF Next, RequestStep, vars

(* Two resellers who demote each other at the same time can leave a store  *)
(* with none; nothing else but a removal can.                              *)
THEOREM LastResellerLeaves == Spec => StoreKeepsReseller
<1>1. ASSUME IInv, [Next]_vars, NEW s \in Stores, Resellers(s) # {}, Resellers(s)' = {},
             \A i \in Resellers(s) : user'[i] # Gone
      PROVE  \E r \in Requests : /\ At(r, "write", "demote") /\ req'[r] = Idle
                                 /\ Home[req[r].by] = s /\ req[r].by \notin Resellers(s)
  <2>1. PICK i \in Resellers(s) : TRUE
    BY <1>1
  <2>2. /\ i \in Users /\ Present(i) /\ user[i].role = "reseller" /\ Home[i] = s
        /\ user'[i] # Gone
    BY <1>1, <2>1 DEF Resellers, IsAdmin
  <2>3. \A j \in Users : user'[j] # Gone /\ user'[j].role = "reseller" => Home[j] # s
    BY <1>1 DEF Resellers, IsAdmin, Present
  <2>4. user'[i].role # user[i].role
    BY <2>2, <2>3
  <2>5. PICK r \in Requests : WriteRole(r)
    BY <1>1, <2>2, <2>4, RoleWriter
  <2>6. req[r] \in Request /\ req[r].at = "write" /\ req[r].op \in {"promote", "demote"}
    BY <1>1, <2>5 DEF WriteRole, IInv, TypeOK
  <2>7. /\ user' = [user EXCEPT ![req[r].on].role =
                      IF req[r].op = "promote" THEN "reseller" ELSE "user"]
        /\ req'[r] = Idle
    BY <1>1, <2>4, <2>5 DEF WriteRole, IInv, TypeOK, Close
  <2>8. user[i] \in Row
    BY <1>1, <2>2, RowOfUser DEF IInv
  <2>9. req[r].on = i /\ req[r].op = "demote"
    <3>1. req[r].on # i => user'[i] = user[i]
      BY <1>1, <2>2, <2>7 DEF IInv, TypeOK
    <3>2. req[r].on = i /\ req[r].op = "promote" => user'[i] = [user[i] EXCEPT !.role = "reseller"]
      BY <1>1, <2>2, <2>7 DEF IInv, TypeOK
    <3>3. [user[i] EXCEPT !.role = "reseller"].role = "reseller"
      BY <2>8 DEF Row
    <3> QED
      BY <2>2, <2>4, <2>6, <3>1, <3>2, <3>3
  <2>10. req[r].by # i /\ Home[req[r].by] = s /\ req[r].by \in Users
    BY <1>1, <2>2, <2>6, <2>9, IdleIsNoRequest DEF IInv, DemotesOther, Request
  <2>11. user'[req[r].by] = user[req[r].by]
    BY <1>1, <2>7, <2>9, <2>10 DEF IInv, TypeOK
  <2>12. req[r].by \notin Resellers(s)
    BY <2>3, <2>10, <2>11 DEF Resellers, IsAdmin, Present
  <2> QED
    BY <2>6, <2>7, <2>9, <2>10, <2>12 DEF At
<1>2. IInv /\ [Next]_vars =>
        \A s \in Stores : Resellers(s) # {} /\ Resellers(s)' = {} =>
          \/ \E i \in Resellers(s) : user'[i] = Gone
          \/ \E r \in Requests : /\ At(r, "write", "demote") /\ req'[r] = Idle
                                 /\ Home[req[r].by] = s /\ req[r].by \notin Resellers(s)
  BY <1>1
<1> QED
  BY <1>2, Invariant, PTL DEF Spec, StoreKeepsReseller

(* resetPassword and changePassword hash between their check and their     *)
(* write, and the write names the row by address and store, or by id: it   *)
(* still hits the row whose code or password was checked, or the request   *)
(* is marked as out of date.                                               *)
THEOREM OwnSecretChangesPassword == Spec => PasswordChangeKnows
<1>1. ASSUME IInv, [Next]_vars, NEW i \in Users, NEW r \in Requests,
             req[r] # Idle, req'[r] = Idle, Present(i), user'[i] # Gone,
             user'[i].password # user[i].password, ~req[r].changed
      PROVE  \/ req[r].op = "change" /\ req[r].on = i /\ Knows(i, req[r].password)
             \/ req[r].op = "reset" /\ RightCode(i, req[r].code)
  <2>1. \/ WriteReset(r) /\ user'[i] # user[i]
        \/ WriteChange(r) /\ user'[i] # user[i]
    BY <1>1, PasswordWriter
  <2>2. req[r].on \in Users
    BY <1>1 DEF IInv, TypeOK, Request
  <2>3. ASSUME WriteReset(r), user'[i] # user[i]
        PROVE  req[r].op = "reset" /\ RightCode(i, req[r].code)
    <3>1. PICK j \in Users : j = req[r].on
      BY <2>2
    <3>2. /\ req[r].op = "reset" /\ Present(j)
          /\ user[j].email = req[r].email /\ RightCode(j, req[r].code)
      BY <1>1, <2>3, <3>1 DEF WriteReset, At, IInv, ChecksHold
    <3>3. i \in With(req[r].email, Home[j])
      BY <1>1, <2>3, <3>1 DEF WriteReset
    <3>4. Keys(i, user[i], j, user[j])
      BY <1>1, <3>2 DEF IInv, KeysHold
    <3>5. i = j
      BY <3>2, <3>3, <3>4 DEF Keys, StoreKeys, With
    <3> QED
      BY <3>2, <3>5
  <2>4. ASSUME WriteChange(r), user'[i] # user[i]
        PROVE  req[r].op = "change" /\ req[r].on = i /\ Knows(i, req[r].password)
    <3>1. req[r].on = i
      BY <1>1, <2>4, ChangeWritesOne
    <3>2. req[r].op = "change"
      BY <2>4 DEF WriteChange, At
    <3> QED
      BY <1>1, <3>1, <3>2 DEF IInv, ChecksHold
  <2> QED
    BY <2>1, <2>3, <2>4
<1>2. IInv /\ [Next]_vars =>
        \A i \in Users, r \in Requests :
          (req[r] # Idle /\ req'[r] = Idle /\ Present(i) /\ user'[i] # Gone
             /\ user'[i].password # user[i].password)
          => \/ req[r].changed
             \/ req[r].op = "change" /\ req[r].on = i /\ Knows(i, req[r].password)
             \/ req[r].op = "reset" /\ RightCode(i, req[r].code)
  BY <1>1
<1> QED
  BY <1>2, Invariant, PTL DEF Spec, PasswordChangeKnows

=============================================================================
