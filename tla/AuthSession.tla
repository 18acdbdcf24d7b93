----------------------------- MODULE AuthSession -----------------------------
(***************************************************************************)
(* Signing in and staying signed in (auth.service.ts): a password, counted *)
(* and locked when wrong, then a one-time code from the mail, then tokens  *)
(* that are refreshed until the session is ended.                          *)
(*                                                                         *)
(* Every handler reads the account, computes, and writes back: requests    *)
(* run in between.  A request is a record in req with what it has read.    *)
(* Whether a password is right, and whether a refresh token other than the *)
(* one stored last still compares equal to the stored hash, is left open.  *)
(***************************************************************************)
EXTENDS Naturals, FiniteSets

CONSTANTS Users,
          Admins,        \* users with role ADMIN
          Requests,      \* bound: requests served at the same time
          Codes,         \* one-time codes: of the mail, and reset tokens
          MaxFailedAttempts,
          NoCode, Nobody

ASSUME AdminsAssumption == Admins \subseteq Users
ASSUME AttemptsAssumption == MaxFailedAttempts \in Nat \ {0}
ASSUME NoneAssumption == NoCode \notin Codes /\ Nobody \notin Users

VARIABLES account,   \* the row of a user
          req,       \* requests being served
          wrong,     \* history: wrong passwords since the last reset or lock
          mixed,     \* history: the count was written by overlapping requests
          ended,     \* history: the session was ended, and no new one begun
          crossed,   \* history: while a request was about to store a token
          uses,      \* history: how often a code has been accepted
          shared     \* history: codes presented by overlapping requests

history == <<wrong, mixed, ended, crossed, uses, shared>>
vars == <<account, req, history>>

Account == [approved : BOOLEAN, fails : 0 .. MaxFailedAttempts - 1,
            locked : BOOLEAN, otp : Codes \cup {NoCode},
            reset : Codes \cup {NoCode}, session : BOOLEAN]

Free == [pc |-> "free", user |-> Nobody, fails |-> 0, code |-> NoCode]

PC == {"free", "login.approve", "login.refuse", "login.fail", "login.reset", "login.otp",
       "otp.clear", "otp.store", "refresh.store", "refresh.revoke",
       "reset.store", "change.store"}

TypeOK ==
  /\ account \in [Users -> Account]
  /\ req \in [Requests -> [pc : PC, user : Users \cup {Nobody},
                           fails : 0 .. MaxFailedAttempts - 1,
                           code : Codes \cup {NoCode}]]
  /\ wrong \in [Users -> 0 .. MaxFailedAttempts]
  /\ mixed \subseteq Users /\ ended \subseteq Users /\ crossed \subseteq Users
  /\ uses \in [Codes -> Nat]
  /\ shared \subseteq Codes

\* Active accounts; an administrator's may be older than the approval flow.
Init ==
  /\ account \in [Users -> {[approved |-> a, fails |-> 0, locked |-> FALSE,
                             otp |-> NoCode, reset |-> NoCode, session |-> FALSE] :
                              a \in BOOLEAN}]
  /\ \A u \in Users \ Admins : account[u].approved
  /\ req = [r \in Requests |-> Free]
  /\ wrong = [u \in Users |-> 0]
  /\ mixed = {} /\ ended = {} /\ crossed = {}
  /\ uses = [c \in Codes |-> 0] /\ shared = {}

-----------------------------------------------------------------------------
LoginPCs == {"login.approve", "login.refuse", "login.fail", "login.reset"}
TokenPCs == {"otp.clear", "otp.store", "refresh.store"}

At(pcs, u) == {r \in Requests : req[r].user = u /\ req[r].pc \in pcs}

Answer(r) == req' = [req EXCEPT ![r] = Free]

Continue(r, pc) == req' = [req EXCEPT ![r].pc = pc]

Begin(r, u, pc, code) ==
  req' = [req EXCEPT ![r] = [pc |-> pc, user |-> u, fails |-> account[u].fails,
                             code |-> code]]

\* The counter is set back; requests about to count are then counting from what
\* was there before.
Forget(u, others) ==
  /\ wrong' = [wrong EXCEPT ![u] = 0]
  /\ mixed' = IF others = {} THEN mixed \ {u} ELSE mixed \cup {u}

\* The stored refresh token is deleted.
End(u) ==
  /\ ended' = ended \cup {u}
  /\ crossed' = IF At(TokenPCs, u) = {} THEN crossed ELSE crossed \cup {u}

-----------------------------------------------------------------------------
(* login *)

\* The request counts or resets what it has read now.
BeginLogin(r, u, pc) ==
  /\ Begin(r, u, pc, NoCode)
  /\ mixed' = IF At(LoginPCs, u) = {} THEN mixed ELSE mixed \cup {u}

\* The account is read; bcrypt then compares the password with what was read.
\* Nothing is counted while the account is locked.
LoginRead(r, u) ==
  /\ req[r].pc = "free" /\ account[u].approved /\ ~ account[u].locked
  /\ \E right \in BOOLEAN : BeginLogin(r, u, IF right THEN "login.reset" ELSE "login.fail")
  /\ UNCHANGED <<account, wrong, ended, crossed, uses, shared>>

\* The recovery path: an administrator is approved by his first login.
LoginUnapproved(r, u) ==
  /\ req[r].pc = "free" /\ ~ account[u].approved /\ u \in Admins
  /\ BeginLogin(r, u, IF account[u].locked THEN "login.refuse" ELSE "login.approve")
  /\ UNCHANGED <<account, wrong, ended, crossed, uses, shared>>

LoginApprove(r) ==
  /\ account' = [account EXCEPT ![req[r].user].approved = TRUE]
  /\ \/ req[r].pc = "login.refuse" /\ Answer(r)
     \/ req[r].pc = "login.approve" /\ \E pc \in {"login.fail", "login.reset"} : Continue(r, pc)
  /\ UNCHANGED history

\* History: one more wrong password, whatever the handler makes of it.
OneMoreWrong(u) ==
  wrong' = [wrong EXCEPT ![u] = IF @ < MaxFailedAttempts THEN @ + 1 ELSE @]

\* Mutant: what was read is written back.
LoginFail_NotCounted(r) ==
  LET u == req[r].user
  IN  /\ req[r].pc = "login.fail"
      /\ account' = [account EXCEPT ![u].fails = req[r].fails]
      /\ OneMoreWrong(u)
      /\ Answer(r)
      /\ UNCHANGED <<mixed, ended, crossed, uses, shared>>

\* Mutant: the account is locked one attempt late.
LoginFail_OneMore(r) ==
  LET u == req[r].user
      attempts == req[r].fails + 1
  IN  /\ req[r].pc = "login.fail"
      /\ IF attempts > MaxFailedAttempts
           THEN account' = [account EXCEPT ![u].locked = TRUE, ![u].fails = 0]
           ELSE account' = [account EXCEPT ![u].fails = attempts]
      /\ OneMoreWrong(u)
      /\ Answer(r)
      /\ UNCHANGED <<mixed, ended, crossed, uses, shared>>

LoginFail(r) ==
  LET u == req[r].user
      attempts == req[r].fails + 1
  IN  /\ req[r].pc = "login.fail"
      /\ IF attempts >= MaxFailedAttempts
           THEN account' = [account EXCEPT ![u].locked = TRUE, ![u].fails = 0]
           ELSE account' = [account EXCEPT ![u].fails = attempts]
      /\ OneMoreWrong(u)
      /\ Answer(r)
      /\ UNCHANGED <<mixed, ended, crossed, uses, shared>>

LoginReset(r) ==
  LET u == req[r].user
  IN  /\ req[r].pc = "login.reset"
      /\ account' = [account EXCEPT ![u].fails = 0, ![u].locked = FALSE]
      /\ Forget(u, At(LoginPCs, u) \ {r})
      /\ Continue(r, "login.otp")
      /\ UNCHANGED <<ended, crossed, uses, shared>>

NewCodes == Codes \ ({account[u].otp : u \in Users} \cup {account[u].reset : u \in Users}
                      \cup {req[r].code : r \in Requests})

\* A new code replaces the last one; it stays when the mail cannot be sent.
LoginOtp(r) ==
  /\ req[r].pc = "login.otp"
  /\ NewCodes # {}
  /\ LET c == CHOOSE c \in NewCodes : TRUE IN
       /\ account' = [account EXCEPT ![req[r].user].otp = c]
       /\ uses' = [uses EXCEPT ![c] = 0] /\ shared' = shared \ {c}
  /\ Answer(r)
  /\ UNCHANGED <<wrong, mixed, ended, crossed>>

-----------------------------------------------------------------------------
(* verifyOtp *)

Present(c) ==
  shared' = IF \E q \in Requests : req[q].code = c THEN shared \cup {c} ELSE shared

\* A wrong or expired code changes nothing.
VerifyRead(r, u) ==
  /\ req[r].pc = "free" /\ account[u].approved
  /\ account[u].otp # NoCode
  /\ Begin(r, u, "otp.clear", account[u].otp)
  /\ Present(account[u].otp)
  /\ UNCHANGED <<account, wrong, mixed, ended, crossed, uses>>

\* Mutant: the code stays until it expires.
VerifyClear_Kept(r) ==
  /\ req[r].pc = "otp.clear"
  /\ Continue(r, "otp.store")
  /\ UNCHANGED <<account, history>>

VerifyClear(r) ==
  /\ req[r].pc = "otp.clear"
  /\ account' = [account EXCEPT ![req[r].user].otp = NoCode]
  /\ Continue(r, "otp.store")
  /\ UNCHANGED history

VerifyStore(r) ==
  LET u == req[r].user
  IN  /\ req[r].pc = "otp.store"
      /\ account' = [account EXCEPT ![u].session = TRUE]
      /\ uses' = [uses EXCEPT ![req[r].code] = IF @ < 2 THEN @ + 1 ELSE @]
      /\ ended' = ended \ {u} /\ crossed' = crossed \ {u}
      /\ Answer(r)
      /\ UNCHANGED <<wrong, mixed, shared>>

-----------------------------------------------------------------------------
(* refreshTokens *)

RefreshRead(r, u) ==
  /\ req[r].pc = "free" /\ account[u].approved /\ account[u].session
  /\ \E matches \in BOOLEAN :
       Begin(r, u, IF matches THEN "refresh.store" ELSE "refresh.revoke", NoCode)
  /\ UNCHANGED <<account, history>>

RefreshStore(r) ==
  /\ req[r].pc = "refresh.store"
  /\ account' = [account EXCEPT ![req[r].user].session = TRUE]
  /\ Answer(r)
  /\ UNCHANGED history

EndSession(u) == account' = [account EXCEPT ![u].session = FALSE] /\ End(u)

\* A token that was used before: all tokens are revoked.
RefreshRevoke(r) ==
  /\ req[r].pc = "refresh.revoke"
  /\ EndSession(req[r].user)
  /\ Answer(r)
  /\ UNCHANGED <<wrong, mixed, uses, shared>>

\* Mutant: logging out leaves the stored token alone.
Logout_InTheBrowser(u) ==
  /\ ended' = ended \cup {u}
  /\ UNCHANGED <<account, req, wrong, mixed, crossed, uses, shared>>

Logout(u) ==
  /\ EndSession(u)
  /\ UNCHANGED <<req, wrong, mixed, uses, shared>>

-----------------------------------------------------------------------------
(* Passwords *)

\* The account is read only to see that it is there and active.
ForgotPassword(u) ==
  /\ NewCodes # {}
  /\ LET c == CHOOSE c \in NewCodes : TRUE IN
       /\ account' = [account EXCEPT ![u].reset = c]
       /\ uses' = [uses EXCEPT ![c] = 0] /\ shared' = shared \ {c}
  /\ UNCHANGED <<req, wrong, mixed, ended, crossed>>

\* findMany over all users with a reset token; the one that matches is u's.
ResetRead(r, u) ==
  /\ req[r].pc = "free" /\ account[u].reset # NoCode
  /\ Begin(r, u, "reset.store", account[u].reset)
  /\ Present(account[u].reset)
  /\ UNCHANGED <<account, wrong, mixed, ended, crossed, uses>>

ResetStore(r) ==
  LET u == req[r].user
  IN  /\ req[r].pc = "reset.store"
      /\ account' = [account EXCEPT ![u].reset = NoCode, ![u].session = FALSE,
                                    ![u].fails = 0, ![u].locked = FALSE]
      /\ uses' = [uses EXCEPT ![req[r].code] = IF @ < 2 THEN @ + 1 ELSE @]
      /\ End(u) /\ Forget(u, At(LoginPCs, u))
      /\ Answer(r)
      /\ UNCHANGED shared

ChangeRead(r, u) ==
  /\ req[r].pc = "free"
  /\ Begin(r, u, "change.store", NoCode)
  /\ UNCHANGED <<account, history>>

ChangeStore(r) ==
  /\ req[r].pc = "change.store"
  /\ EndSession(req[r].user)
  /\ Answer(r)
  /\ UNCHANGED <<wrong, mixed, uses, shared>>

\* UsersService.resetUserPassword, by an administrator.
ResetUserPassword(u) ==
  /\ account' = [account EXCEPT ![u].session = FALSE, ![u].fails = 0, ![u].locked = FALSE]
  /\ End(u) /\ Forget(u, At(LoginPCs, u))
  /\ UNCHANGED <<req, uses, shared>>

-----------------------------------------------------------------------------
(* Time and failures *)

ExpireLock(u) ==
  /\ account[u].locked
  /\ account' = [account EXCEPT ![u].locked = FALSE]
  /\ wrong' = [wrong EXCEPT ![u] = 0]
  /\ UNCHANGED <<req, mixed, ended, crossed, uses, shared>>

ExpireOtp(u) ==
  /\ account[u].otp # NoCode
  /\ account' = [account EXCEPT ![u].otp = NoCode]
  /\ UNCHANGED <<req, history>>

ExpireReset(u) ==
  /\ account[u].reset # NoCode
  /\ account' = [account EXCEPT ![u].reset = NoCode]
  /\ UNCHANGED <<req, history>>

\* A call rejects, or the process ends: the rest of the handler does not run.
Fail(r) ==
  /\ req[r].pc # "free"
  /\ Answer(r)
  /\ UNCHANGED <<account, history>>

-----------------------------------------------------------------------------
Steps(r) ==
  \/ LoginApprove(r) \/ LoginFail(r) \/ LoginReset(r) \/ LoginOtp(r)
  \/ VerifyClear(r) \/ VerifyStore(r)
  \/ RefreshStore(r) \/ RefreshRevoke(r)
  \/ ResetStore(r) \/ ChangeStore(r)

Next ==
  \/ \E r \in Requests : Steps(r) \/ Fail(r)
  \/ \E r \in Requests, u \in Users :
       \/ LoginRead(r, u) \/ LoginUnapproved(r, u)
       \/ VerifyRead(r, u) \/ RefreshRead(r, u)
       \/ ResetRead(r, u) \/ ChangeRead(r, u)
  \/ \E u \in Users :
       \/ Logout(u) \/ ForgotPassword(u) \/ ResetUserPassword(u)
       \/ ExpireLock(u) \/ ExpireOtp(u) \/ ExpireReset(u)

\* Whatever is being served comes to an end.
Spec == Init /\ [][Next]_vars /\ \A r \in Requests : WF_vars(Steps(r) \/ Fail(r))

-----------------------------------------------------------------------------
(* Properties *)

\* As long as the requests that count or reset the wrong passwords of an account
\* do not overlap, the account is locked by the last wrong one it allows, not
\* before and not later, and stays locked until the lock runs out or the counter
\* is reset.
LockoutExact ==
  TypeOK /\ \A u \in Users \ mixed :
    account[u].locked <=> wrong[u] = MaxFailedAttempts

\* A session that was ended, by a logout, a new password or a token used twice,
\* stays ended until a code is verified; only a request that was about to store
\* a token when it ended can bring it back.
EndedSessionStaysEnded ==
  \A u \in ended \ crossed : ~ account[u].session

\* A code from the mail or a reset token is accepted once, unless requests that
\* overlap present it.
CodesUsedOnce == \A c \in Codes \ shared : uses[c] <= 1

\* Even when overlapping requests overwrite the counter, going on with wrong
\* passwords locks the account again and again, unless the counter is reset by a
\* right password or a new one.
CountsWrong(u) == \E r \in Requests : req[r].user = u /\ LoginFail(r)

Resets(u) ==
  \/ \E r \in Requests : req[r].user = u /\ (LoginReset(r) \/ ResetStore(r))
  \/ ResetUserPassword(u)

GuessingLocks ==
  \A u \in Users :
    []<><<CountsWrong(u)>>_vars => []<>(account[u].locked) \/ []<><<Resets(u)>>_vars
=============================================================================
