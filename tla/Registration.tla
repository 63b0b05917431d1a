----------------------------- MODULE Registration -----------------------------
(***************************************************************************)
(* UserService.create and createDirect, the confirmation codes of          *)
(* AuthService (verifyEmail, resendEmailConfirmation, requestEmailChange,  *)
(* confirmEmailChange) and the cron job of UserCleanupService, for the     *)
(* accounts of one store.                                                  *)
(*                                                                         *)
(* The same two columns, emailConfirmationCode and its expiry, confirm a   *)
(* registration and a change of address.  Most writes are updateMany by    *)
(* email: they hit the row that has the email when they run, which need    *)
(* not be the row that was checked.  Every query is a step.                *)
(***************************************************************************)
EXTENDS Integers, FiniteSets

CONSTANTS
  Rows,       \* rows of the table User, each created once at most
  Emails, Documents,
  Requests,   \* places for the requests of the users
  MaxCodes    \* bound: how many codes are generated

ASSUME RegistrationAssumption == MaxCodes \in Nat

VARIABLES
  user,   \* user[i]: "absent", "removed", "cleaned" (deleted), or the row
  codes,  \* the codes generated so far are 1..codes
  mail,   \* mail[e]: codes mailed to address e
  req,    \* req[r]: what the request in place r is doing
  cron    \* whether the cleanup has found expired accounts, and which

vars == <<user, codes, mail, req, cron>>

Codes == 0..MaxCodes  \* 0: null
Row   == {row \in [email : Emails, doc : Documents, verified : BOOLEAN,
                   code : Codes, late : BOOLEAN] : row.late => row.code # 0}
NoRow == [is |-> "absent"]
Gone(why) == [is |-> why]
Present(i) == user[i] \notin {NoRow, Gone("removed"), Gone("cleaned")}

(* A request: its stage, the email it is about, what it was called with    *)
(* (document, new email, code), the row it found, and whether that row, or *)
(* its code, has changed since.                                            *)
Stages  == {"insert", "expiry", "check", "write"}
Ops     == {"create", "direct", "verify", "resend", "request", "confirm"}
Request == [at : Stages, op : Ops, email : Emails, doc : Documents, to : Emails,
            code : Codes, found : SUBSET Rows, changed : BOOLEAN]
Idle    == [at |-> "idle"]

TypeOK ==
  /\ user \in [Rows -> Row \cup {NoRow, Gone("removed"), Gone("cleaned")}]
  /\ codes \in Codes
  /\ mail \in [Emails -> SUBSET (1..MaxCodes)]
  /\ req \in [Requests -> Request \cup {Idle}]
  /\ cron \in [at : {"idle", "found"}, ids : SUBSET Rows]

Init ==
  /\ user = [i \in Rows |-> NoRow]
  /\ codes = 0
  /\ mail = [e \in Emails |-> {}]
  /\ req = [r \in Requests |-> Idle]
  /\ cron = [at |-> "idle", ids |-> {}]

With(e)    == {i \in Rows : Present(i) /\ user[i].email = e}
WithDoc(d) == {i \in Rows : Present(i) /\ user[i].doc = d}
Free == {i \in Rows : user[i] = NoRow}
At(r, s)   == req[r].at = s
GoTo(r, s) == req' = [req EXCEPT ![r].at = s]
Close(r)   == req' = [req EXCEPT ![r] = Idle]

(* The code has been used: it and its expiry become null. *)
Cleared(row) == [row EXCEPT !.code = 0, !.late = FALSE]

(* Rows I change: a verification that holds one of them is out of date. *)
Touched(rs, I) == [q \in Requests |->
  IF rs[q] # Idle /\ rs[q].op = "verify" /\ rs[q].found \cap I # {} THEN [rs[q] EXCEPT !.changed = TRUE] ELSE rs[q]]

----------------------------------------------------------------------------
(* A request begins with its first query; one that is refused there leaves *)
(* no trace.                                                               *)

Begin(r, o, s, e, d, to, c, found) ==
  /\ req[r] = Idle
  /\ req' = [req EXCEPT ![r] = [at |-> s, op |-> o, email |-> e, doc |-> d, to |-> to,
                               code |-> c, found |-> found, changed |-> FALSE]]
  /\ UNCHANGED <<user, codes, mail, cron>>

(* create and createDirect.  The queries for the email and the document    *)
(* are one step: the unique keys of the table have the last word.          *)
Register(r) == \E e \in Emails, d \in Documents, o \in {"create", "direct"} :
  /\ With(e) \cup WithDoc(d) = {}
  /\ Begin(r, o, "insert", e, d, e, 0, {})

AnyDoc == CHOOSE d \in Documents : TRUE

(* Whether code c is that of row i (AnyCode accepts every code). *)
AnyCode(i, c) == user[i].code # 0
Matches(i, c) == user[i].code # 0 /\ user[i].code = c

(* The user enters a code that has been mailed to that address. *)
VerifyEmail(r) == \E e \in Emails : \E c \in mail[e], i \in With(e) :
  /\ ~user[i].verified /\ Matches(i, c)
  /\ Begin(r, "verify", "expiry", e, AnyDoc, e, c, {i})

ResendEmailConfirmation(r) == \E e \in Emails : \E i \in With(e) :
  /\ ~user[i].verified
  /\ Begin(r, "resend", "write", e, AnyDoc, e, 0, {i})

RequestEmailChange(r) == \E e, to \in Emails : \E i \in With(e) :
  /\ user[i].verified
  /\ Begin(r, "request", "check", e, AnyDoc, to, 0, {i})

(* Any address may be named: the code is compared with that of the row,    *)
(* which does not say to whom it was mailed.                               *)
ConfirmEmailChange(r) ==
  \E e, to, a \in Emails : \E c \in mail[a], i \in With(e) :
    /\ user[i].verified /\ Matches(i, c) /\ ~user[i].late
    /\ Begin(r, "confirm", "check", e, AnyDoc, to, c, {i})

----------------------------------------------------------------------------
(* Registration. *)

(* The code is mailed to e in the end, or every attempt fails and nobody   *)
(* hears of it.                                                            *)
SendMail(e, c) == mail' \in {mail, [mail EXCEPT ![e] = @ \cup {c}]}

(* The unique keys of the table decide between overlapping registrations.  *)
Insert(r) ==
  /\ At(r, "insert")
  /\ IF With(req[r].email) \cup WithDoc(req[r].doc) = {}
     THEN
       LET i == CHOOSE f \in Free : TRUE  \* rows are interchangeable
           c == IF req[r].op = "create" THEN codes + 1 ELSE 0
       IN  /\ Free # {}
           /\ c <= MaxCodes
           /\ user' = [user EXCEPT ![i] =
                [email |-> req[r].email, doc |-> req[r].doc,
                 verified |-> req[r].op = "direct", code |-> c, late |-> FALSE]]
           /\ IF c = 0 THEN UNCHANGED <<codes, mail>>
              ELSE codes' = c /\ SendMail(req[r].email, c)
     ELSE UNCHANGED <<user, codes, mail>>
  /\ Close(r)
  /\ UNCHANGED cron

----------------------------------------------------------------------------
(* Codes. *)

(* verifyEmail reads the expiry with a second query; a row that is gone by *)
(* then has not expired.                                                   *)
CheckExpiry(r) ==
  /\ At(r, "expiry")
  /\ IF \E i \in With(req[r].email) : user[i].late THEN Close(r) ELSE GoTo(r, "write")
  /\ UNCHANGED <<user, codes, mail, cron>>

CheckNewEmail(r) ==
  /\ At(r, "check")
  /\ IF With(req[r].to) = {} THEN GoTo(r, "write") ELSE Close(r)
  /\ UNCHANGED <<user, codes, mail, cron>>

(* updateMany by email: the row that has it now. *)
MarkVerified(r) ==
  /\ At(r, "write") /\ req[r].op = "verify"
  /\ LET hit == With(req[r].email)
     IN  /\ user' = [i \in Rows |-> IF i \in hit
              THEN [Cleared(user[i]) EXCEPT !.verified = TRUE] ELSE user[i]]
         /\ req' = Touched([req EXCEPT ![r] = Idle], hit)
  /\ UNCHANGED <<codes, mail, cron>>

(* A new code: by email for resend, by id for request.  The update by id   *)
(* of a row that is gone fails.                                            *)
NewCode(r) ==
  /\ At(r, "write") /\ req[r].op \in {"resend", "request"}
  /\ LET hit == IF req[r].op = "resend" THEN With(req[r].email)
                ELSE {i \in req[r].found : Present(i)}
     IN  IF req[r].op = "request" /\ hit = {}
         THEN Close(r) /\ UNCHANGED <<user, codes, mail>>
         ELSE /\ codes < MaxCodes
              /\ codes' = codes + 1
              /\ user' = [i \in Rows |-> IF i \in hit
                   THEN [user[i] EXCEPT !.code = codes', !.late = FALSE] ELSE user[i]]
              /\ SendMail(req[r].to, codes')
              /\ req' = Touched([req EXCEPT ![r] = Idle], hit)
  /\ UNCHANGED cron

ChangeEmail(r) ==
  /\ At(r, "write") /\ req[r].op = "confirm"
  /\ LET hit == {i \in req[r].found : Present(i)}
     IN  IF With(req[r].to) \ hit # {}
         THEN Close(r) /\ UNCHANGED user
         ELSE /\ user' = [i \in Rows |-> IF i \in hit
                   THEN [Cleared(user[i]) EXCEPT !.email = req[r].to] ELSE user[i]]
              /\ req' = Touched([req EXCEPT ![r] = Idle], hit)
  /\ UNCHANGED <<codes, mail, cron>>

----------------------------------------------------------------------------
(* The cleanup, the removal of a user, and time. *)

(* Whose registration has run out (LateVerified has the flag the wrong way). *)
LateVerified == {i \in Rows : Present(i) /\ user[i].verified /\ user[i].late}
Expired == {i \in Rows : Present(i) /\ ~user[i].verified /\ user[i].late}

FindExpired ==
  /\ cron.at = "idle" /\ Expired # {}
  /\ cron' = [at |-> "found", ids |-> Expired]
  /\ UNCHANGED <<user, codes, mail, req>>

(* deleteMany repeats the condition (FoundBefore deletes what was found). *)
FoundBefore == {i \in cron.ids : Present(i)}
ToDelete == Expired

CleanupUnverifiedUsers ==
  /\ cron.at = "found"
  /\ user' = [i \in Rows |-> IF i \in ToDelete THEN Gone("cleaned") ELSE user[i]]
  /\ req' = Touched(req, ToDelete)
  /\ cron' = [at |-> "idle", ids |-> {}]
  /\ UNCHANGED <<codes, mail>>

Remove(i) ==
  /\ Present(i)
  /\ user' = [user EXCEPT ![i] = Gone("removed")]
  /\ req' = Touched(req, {i})
  /\ UNCHANGED <<codes, mail, cron>>

CodeExpires(i) ==
  /\ Present(i) /\ user[i].code # 0 /\ ~user[i].late
  /\ user' = [user EXCEPT ![i].late = TRUE]
  /\ UNCHANGED <<codes, mail, req, cron>>

----------------------------------------------------------------------------
BeginSome(r) ==
  \/ Register(r) \/ VerifyEmail(r) \/ ResendEmailConfirmation(r)
  \/ RequestEmailChange(r) \/ ConfirmEmailChange(r)

RequestStep(r) ==
  \/ Insert(r) \/ CheckExpiry(r) \/ CheckNewEmail(r)
  \/ MarkVerified(r) \/ NewCode(r) \/ ChangeEmail(r)

Next ==
  \/ \E r \in Requests : BeginSome(r) \/ RequestStep(r)
  \/ FindExpired \/ CleanupUnverifiedUsers
  \/ \E i \in Rows : Remove(i) \/ CodeExpires(i)

Spec == Init /\ [][Next]_vars

(* The cron job runs again and again, and time passes. *)
FairSpec ==
  /\ Spec
  /\ WF_vars(FindExpired) /\ WF_vars(CleanupUnverifiedUsers)
  /\ \A i \in Rows : WF_vars(CodeExpires(i))

----------------------------------------------------------------------------
(* Properties *)

(* The cleanup deletes no account that has been verified: not one that was *)
(* verified after it looked, and not one whose pending change of address   *)
(* has expired.                                                            *)
VerifiedNotCleaned ==
  [][\A i \in Rows : Present(i) /\ user[i].verified => user'[i] # Gone("cleaned")]_vars

(* An account that is marked verified is so by its own code, unless it has *)
(* changed, or taken the place of another, while the request was open.     *)
VerifiedByOwnCode ==
  [][\A i \in Rows : Present(i) /\ ~user[i].verified /\ user'[i] # user[i]
        /\ user'[i] \notin {Gone("removed"), Gone("cleaned")} /\ user'[i].verified
       => \E r \in Requests : /\ At(r, "write") /\ req'[r] = Idle
                              /\ req[r].code = user[i].code \/ req[r].changed]_vars

(* A registration does not hold its email and document on one code for     *)
(* ever: it is verified in the end, or deleted, or its owner has asked for *)
(* another code, as he may again and again.                                *)
RegistrationSettles ==
  \A i \in Rows, k \in 1..MaxCodes :
    (Present(i) /\ ~user[i].verified /\ user[i].code = k)
      ~> (Present(i) => user[i].verified \/ user[i].code # k)
=============================================================================
