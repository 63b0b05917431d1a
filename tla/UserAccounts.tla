----------------------------- MODULE UserAccounts -----------------------------
(***************************************************************************)
(* What the accounts of several stores go through once their addresses     *)
(* are confirmed: UserService.promoteToAdmin, demoteToUser, update and     *)
(* remove; AuthService.forgotPassword, resetPassword and changePassword;   *)
(* and which accounts adminLogin may find.  Registration has the way there.*)
(*                                                                         *)
(* Every query that another request may come between is a step.  The role  *)
(* of the caller is read once, by JwtStrategy, before a request begins.    *)
(* A partial unique index, which only a migration declares, keeps the      *)
(* address of a reseller unique across the stores.                         *)
(***************************************************************************)
EXTENDS Integers, FiniteSets

CONSTANTS
  Users,      \* rows of the table User
  Home,       \* Home[i]: the store of i
  Emails, Passwords,
  Requests,   \* places for the requests of the users
  MaxCodes    \* bound: how many reset codes are generated

Stores == {Home[i] : i \in Users}
ASSUME AccountsAssumption == MaxCodes \in Nat /\ Home \in [Users -> Stores]

VARIABLES
  user,   \* user[i]: the row, or Gone
  codes,  \* the codes generated so far are 1..codes
  req     \* req[r]: what the request in place r is doing

vars == <<user, codes, req>>

Codes == 0..MaxCodes  \* 0: null
Roles == {"user", "reseller", "master"}
Row   == {row \in [email : Emails, role : Roles, password : Passwords,
                   code : Codes, late : BOOLEAN] : row.late => row.code # 0}
Gone  == [is |-> "removed"]

None  == "none"  \* what a request does not use

(* A request: its stage, who makes it, the address and store or the row it *)
(* is about, the password or the code it was called with, and whether what *)
(* it has checked has changed since.                                       *)
Request == [at : {"find", "other", "write"},
            op : {"promote", "demote", "forgot", "reset", "change"},
            by : Users, on : Users, email : Emails \cup {None},
            password : Passwords \cup {None}, code : Codes, changed : BOOLEAN]
Idle    == [at |-> "idle"]

TypeOK ==
  /\ user \in [Users -> Row \cup {Gone}]
  /\ codes \in Codes
  /\ req \in [Requests -> Request \cup {Idle}]

Present(i)  == user[i] # Gone
IsAdmin(i)  == Present(i) /\ user[i].role = "reseller"
Knows(i, p) == Present(i) /\ user[i].password = p

(* The row with an address in a store (WithEmail forgets the store). *)
WithEmail(e, s) == {i \in Users : Present(i) /\ user[i].email = e /\ s \in Stores}
With(e, s) == {i \in Users : Present(i) /\ Home[i] = s /\ user[i].email = e}
Resellers(s) == {i \in Users : IsAdmin(i) /\ Home[i] = s}

(* Rows that may be stored next to each other: @@unique([email, storeId])  *)
(* and the index of the migration.                                         *)
StoreKeys(i, a, j, b) == i # j /\ a.email = b.email => Home[i] # Home[j]
Keys(i, a, j, b) ==
  /\ StoreKeys(i, a, j, b)
  /\ i # j /\ a.email = b.email => {a.role, b.role} # {"reseller"}

(* Whether row i may be written (FitsStore does without the index). *)
FitsStore(i, row) == \A j \in Users : Present(j) => StoreKeys(i, row, j, user[j])
Fits(i, row) == \A j \in Users : Present(j) => Keys(i, row, j, user[j])

Init ==
  /\ user \in [Users -> {row \in Row : row.code = 0}]
  /\ \A i, j \in Users : Keys(i, user[i], j, user[j])
  /\ codes = 0
  /\ req = [r \in Requests |-> Idle]

(* Requests that have checked a password or code of I are out of date. *)
Touched(rs, I) == [q \in Requests |->
  IF rs[q] # Idle /\ rs[q].op \in {"reset", "change"} /\ rs[q].on \in I THEN [rs[q] EXCEPT !.changed = TRUE] ELSE rs[q]]
Close(r)   == [req EXCEPT ![r] = Idle]
GoTo(r, s) == req' = [req EXCEPT ![r].at = s] /\ UNCHANGED <<user, codes>>
Refuse(r)  == req' = Close(r) /\ UNCHANGED <<user, codes>>
At(r, s, o) == req[r].at = s /\ req[r].op = o

----------------------------------------------------------------------------
(* A request begins with its first checks; one that is refused there       *)
(* leaves no trace.                                                        *)

Begin(r, s, o, by, on, e, p, c) ==
  /\ req[r] = Idle
  /\ req' = [req EXCEPT ![r] = [at |-> s, op |-> o, by |-> by, on |-> on, email |-> e,
                               password |-> p, code |-> c, changed |-> FALSE]]
  /\ UNCHANGED <<user, codes>>

(* A reseller changes the role of another user.  Nobody demotes himself    *)
(* (MayDemoteAny lets him).                                                *)
MayDemoteAny(by, on) == by \in Users /\ on \in Users
MayDemote(by, on) == by # on

(* JwtStrategy and RoleGuard read the caller; the password is his. *)
ChangeRole(r) == \E by, on \in Users, o \in {"promote", "demote"} :
  /\ IsAdmin(by) /\ Present(on)
  /\ o = "demote" => MayDemote(by, on)
  /\ Begin(r, "find", o, by, on, None, None, 0)

ForgotPassword(r) == \E i \in Users :
  Present(i) /\ Begin(r, "write", "forgot", i, i, user[i].email, None, 0)

RightCode(i, c) == user[i].code # 0 /\ user[i].code = c

(* resetPassword until the new password is hashed; verifyCode is the same  *)
(* test alone.                                                             *)
ResetPassword(r) == \E i \in Users, c \in 1..codes :
  /\ Present(i) /\ RightCode(i, c) /\ ~user[i].late
  /\ Begin(r, "write", "reset", i, i, user[i].email, None, c)

(* changePassword until the new password is hashed: the current password   *)
(* has been compared.                                                      *)
ChangePassword(r) == \E i \in Users, p \in Passwords :
  Knows(i, p) /\ Begin(r, "write", "change", i, i, None, p, 0)

----------------------------------------------------------------------------
(* Roles. *)

(* The user is read: promoteToAdmin goes on if he is not an administrator, *)
(* demoteToUser if he is a reseller, both if he is of the caller's store.  *)
FindUser(r) ==
  /\ req[r] # Idle /\ req[r].at = "find"
  /\ LET i == req[r].on
         role == IF req[r].op = "promote" THEN "user" ELSE "reseller"
     IN  IF Present(i) /\ Home[i] = Home[req[r].by] /\ user[i].role = role
         THEN req' = IF req[r].op = "demote" THEN [req EXCEPT ![r].at = "write"]
                     ELSE [req EXCEPT ![r].at = "other", ![r].email = user[i].email]
         ELSE req' = Close(r)
  /\ UNCHANGED <<user, codes>>

(* promoteToAdmin looks for a reseller with that address in other stores.  *)
FindOtherStore(r) ==
  /\ At(r, "other", "promote")
  /\ IF \E j \in Users : /\ IsAdmin(j) /\ Home[j] # Home[req[r].by]
                         /\ user[j].email = req[r].email
     THEN Refuse(r) ELSE GoTo(r, "write")

(* The update by id; it fails if the user is gone or the index refuses.    *)
WriteRole(r) ==
  /\ req[r] # Idle /\ req[r].at = "write" /\ req[r].op \in {"promote", "demote"}
  /\ LET i   == req[r].on
         row == [user[i] EXCEPT !.role = IF req[r].op = "promote" THEN "reseller" ELSE "user"]
     IN  IF Present(i) /\ Fits(i, row)
         THEN user' = [user EXCEPT ![i] = row] ELSE UNCHANGED user
  /\ req' = Close(r)
  /\ UNCHANGED codes

----------------------------------------------------------------------------
(* Passwords. *)

(* updateMany by address and store: the row that has them now. *)
WriteCode(r) ==
  /\ At(r, "write", "forgot")
  /\ codes < MaxCodes
  /\ codes' = codes + 1
  /\ LET hit == With(req[r].email, Home[req[r].on])
     IN  /\ user' = [i \in Users |-> IF i \in hit
              THEN [user[i] EXCEPT !.code = codes', !.late = FALSE] ELSE user[i]]
         /\ req' = Touched(Close(r), hit)

(* What a reset writes to a row. *)
NewPassword(row, p) == [row EXCEPT !.password = p, !.code = 0, !.late = FALSE]

WriteReset(r) ==
  /\ At(r, "write", "reset")
  /\ LET hit == With(req[r].email, Home[req[r].on])
     IN  /\ \E p \in Passwords : user' = [i \in Users |->
              IF i \in hit THEN NewPassword(user[i], p) ELSE user[i]]
         /\ req' = Touched(Close(r), hit)
  /\ UNCHANGED codes

(* The update by id, which fails if the user is gone. *)
WriteChange(r) ==
  /\ At(r, "write", "change")
  /\ LET i == req[r].on
     IN  IF Present(i)
         THEN \E p \in Passwords :
                /\ user' = [user EXCEPT ![i].password = p]
                /\ req' = Touched(Close(r), {i})
         ELSE req' = Close(r) /\ UNCHANGED user
  /\ UNCHANGED codes

----------------------------------------------------------------------------
(* Steps that a single write decides. *)

(* update by a signed-in user: the role is left out, the address must be   *)
(* free.  A new address also comes from confirmEmailChange.                *)
Update(i) == \E e \in Emails, p \in Passwords :
  LET row == [user[i] EXCEPT !.email = e, !.password = p]
  IN  /\ Present(i) /\ Fits(i, row)
      /\ user' = [user EXCEPT ![i] = row]
      /\ req' = Touched(req, {i})
      /\ UNCHANGED codes

Remove(i) ==
  /\ Present(i)
  /\ user' = [user EXCEPT ![i] = Gone]
  /\ req' = Touched(req, {i})
  /\ UNCHANGED codes

CodeExpires(i) ==
  /\ Present(i) /\ user[i].code # 0 /\ ~user[i].late
  /\ user' = [user EXCEPT ![i].late = TRUE]
  /\ UNCHANGED <<codes, req>>

----------------------------------------------------------------------------
BeginSome(r) ==
  ChangeRole(r) \/ ForgotPassword(r) \/ ResetPassword(r) \/ ChangePassword(r)

RequestStep(r) ==
  \/ FindUser(r) \/ FindOtherStore(r) \/ WriteRole(r)
  \/ WriteCode(r) \/ WriteReset(r) \/ WriteChange(r)

Next ==
  \/ \E r \in Requests : BeginSome(r) \/ RequestStep(r)
  \/ \E i \in Users : Update(i) \/ Remove(i) \/ CodeExpires(i)

Spec == Init /\ [][Next]_vars

----------------------------------------------------------------------------
(* Properties *)

(* The accounts among which adminLogin takes the first. *)
AdminAccounts(e) ==
  {i \in Users : Present(i) /\ user[i].email = e /\ user[i].role \in {"reseller", "master"}}

(* adminLogin, which is told no store, finds the account of a reseller and *)
(* not that of another store, unless a master administrator shares the     *)
(* address.                                                                *)
ResellerCanSignIn ==
  \A i \in Users : IsAdmin(i) =>
    \A j \in AdminAccounts(user[i].email) : j = i \/ user[j].role = "master"

(* A store loses its last reseller only with his account, or to a request  *)
(* of someone of that store who was demoted, or removed, while it was open. *)
StoreKeepsReseller ==
  [][\A s \in Stores : Resellers(s) # {} /\ Resellers(s)' = {} =>
       \/ \E i \in Resellers(s) : user'[i] = Gone
       \/ \E r \in Requests : /\ At(r, "write", "demote") /\ req'[r] = Idle
                              /\ Home[req[r].by] = s /\ req[r].by \notin Resellers(s)]_vars

(* Who sets a password without being signed in, or by naming the current   *)
(* one, has the code or the password that the row has now, or the row has  *)
(* changed since it was checked.                                           *)
PasswordChangeKnows ==
  [][\A i \in Users, r \in Requests :
       (req[r] # Idle /\ req'[r] = Idle /\ Present(i) /\ user'[i] # Gone
          /\ user'[i].password # user[i].password)
       => \/ req[r].changed
          \/ req[r].op = "change" /\ req[r].on = i /\ Knows(i, req[r].password)
          \/ req[r].op = "reset" /\ RightCode(i, req[r].code)]_vars

=============================================================================
