------------------------- MODULE AuthSessionProofs -------------------------
(***************************************************************************)
(* Proofs about AuthSession for any number of users, requests, codes and   *)
(* attempts.                                                               *)
(***************************************************************************)
EXTENDS AuthSession, TLAPS

\* A request goes on, is answered or fails.
RequestStep ==
  \E r \in Requests :
    \/ LoginApprove(r) \/ LoginFail(r) \/ LoginReset(r) \/ LoginOtp(r)
    \/ VerifyClear(r) \/ VerifyStore(r) \/ RefreshStore(r) \/ RefreshRevoke(r)
    \/ ResetStore(r) \/ ChangeStore(r) \/ Fail(r)

\* A request begins: what it has read is all that changes.
BeginStep ==
  \E r \in Requests, u \in Users :
    \/ LoginRead(r, u) \/ LoginUnapproved(r, u) \/ VerifyRead(r, u)
    \/ RefreshRead(r, u) \/ ResetRead(r, u) \/ ChangeRead(r, u)

\* A handler of a single call, or the passing of time.
OneCallStep ==
  \E u \in Users :
    \/ Logout(u) \/ ForgotPassword(u) \/ ResetUserPassword(u)
    \/ ExpireLock(u) \/ ExpireOtp(u) \/ ExpireReset(u)

\* Every step is of one of these kinds.
LEMMA NextKinds == [Next]_vars => RequestStep \/ BeginStep \/ OneCallStep \/ UNCHANGED vars
BY DEF Next, RequestStep, BeginStep, OneCallStep, Steps

-----------------------------------------------------------------------------
(* Types *)

\* A code that is not in use.
LEMMA NewCode == NewCodes # {} => (CHOOSE c \in NewCodes : TRUE) \in NewCodes
OBVIOUS

\* An account is never created, nor left, with as many failures as lock it.
LEMMA NoFailures == 0 \in 0 .. MaxFailedAttempts - 1
BY AttemptsAssumption

\* A request being served is somebody's.
Row == {q \in [pc : PC, user : Users \cup {Nobody}, fails : 0 .. MaxFailedAttempts - 1,
               code : Codes \cup {NoCode}] : q.pc # "free" => q.user \in Users}

\* The part of TypeOK about the history variables.
HistoryOK ==
  /\ wrong \in [Users -> 0 .. MaxFailedAttempts]
  /\ mixed \subseteq Users /\ ended \subseteq Users /\ crossed \subseteq Users
  /\ uses \in [Codes -> Nat]
  /\ shared \subseteq Codes

\* The inductive form of TypeOK.
WellTyped == account \in [Users -> Account] /\ req \in [Requests -> Row] /\ HistoryOK

\* It says more than TypeOK.
LEMMA WellTypedTypeOK == WellTyped => TypeOK
BY DEF WellTyped, TypeOK, Row, HistoryOK

\* An answered request is free, and one that goes on keeps what it has read.
LEMMA RowStep ==
  ASSUME req \in [Requests -> Row], NEW r \in Requests, NEW pc \in PC,
         Answer(r) \/ (Continue(r, pc) /\ req[r].pc # "free")
  PROVE  req' \in [Requests -> Row]
<1>1. Free \in Row
  BY NoFailures DEF Free, Row, PC
<1>2. req[r].pc # "free" => [req[r] EXCEPT !.pc = pc] \in Row
  BY DEF Row
<1> QED BY <1>1, <1>2 DEF Answer, Continue

\* Init gives every variable its type.
LEMMA TypeInit == Init => WellTyped
<1> SUFFICES ASSUME Init PROVE WellTyped
  OBVIOUS
<1>1. account \in [Users -> Account]
  <2>1. ASSUME NEW a \in BOOLEAN
        PROVE  [approved |-> a, fails |-> 0, locked |-> FALSE, otp |-> NoCode,
                reset |-> NoCode, session |-> FALSE] \in Account
    BY NoFailures DEF Account
  <2> QED BY <2>1 DEF Init
<1>2. Free \in Row
  BY NoFailures DEF Free, Row, PC
<1>3. req \in [Requests -> Row] /\ HistoryOK
  BY <1>2, AttemptsAssumption DEF Init, HistoryOK
<1> QED BY <1>1, <1>3 DEF WellTyped

\* Counting the use of a code.
LEMMA UsedOnceMore ==
  ASSUME uses \in [Codes -> Nat], NEW c
  PROVE  [uses EXCEPT ![c] = IF @ < 2 THEN @ + 1 ELSE @] \in [Codes -> Nat]
<1>1. c \in Codes => (IF uses[c] < 2 THEN uses[c] + 1 ELSE uses[c]) \in Nat
  OBVIOUS
<1> QED BY <1>1

\* Writing one column, or those that a new password resets.
LEMMA ColumnWritten ==
  ASSUME account \in [Users -> Account], NEW u, NEW b \in BOOLEAN, NEW c \in Codes \cup {NoCode}
  PROVE  /\ [account EXCEPT ![u].session = b] \in [Users -> Account]
         /\ [account EXCEPT ![u].otp = c] \in [Users -> Account]
         /\ [account EXCEPT ![u].fails = 0, ![u].locked = FALSE] \in [Users -> Account]
         /\ [account EXCEPT ![u].reset = NoCode, ![u].session = FALSE,
                            ![u].fails = 0, ![u].locked = FALSE] \in [Users -> Account]
<1>1. u \in Users => account[u] \in Account
  OBVIOUS
<1>2. u \in Users => [account[u] EXCEPT !.session = b] \in Account
  BY <1>1 DEF Account
<1>3. u \in Users => [account[u] EXCEPT !.otp = c] \in Account
  BY <1>1 DEF Account
<1>4. u \in Users => [account[u] EXCEPT !.fails = 0, !.locked = FALSE] \in Account
  BY <1>1, NoFailures DEF Account
<1>5. u \in Users => [account[u] EXCEPT !.reset = NoCode, !.session = FALSE,
                                        !.fails = 0, !.locked = FALSE] \in Account
  BY <1>1, NoFailures DEF Account
<1>6. [account EXCEPT ![u].session = b] \in [Users -> Account]
  BY <1>2
<1>7. [account EXCEPT ![u].otp = c] \in [Users -> Account]
  BY <1>3
<1>8. [account EXCEPT ![u].fails = 0, ![u].locked = FALSE] \in [Users -> Account]
  BY <1>4
<1>9. [account EXCEPT ![u].reset = NoCode, ![u].session = FALSE,
                     ![u].fails = 0, ![u].locked = FALSE] \in [Users -> Account]
  BY <1>5
<1> QED BY <1>6, <1>7, <1>8, <1>9

\* What a request does after it began.
LEMMA TypeRequest == WellTyped /\ RequestStep => WellTyped'
<1> SUFFICES ASSUME WellTyped, NEW r \in Requests,
                    \/ LoginApprove(r) \/ LoginFail(r) \/ LoginReset(r) \/ LoginOtp(r)
                    \/ VerifyClear(r) \/ VerifyStore(r) \/ RefreshStore(r) \/ RefreshRevoke(r)
                    \/ ResetStore(r) \/ ChangeStore(r) \/ Fail(r)
             PROVE  account' \in [Users -> Account] /\ req' \in [Requests -> Row] /\ HistoryOK'
  BY DEF RequestStep, WellTyped
<1>a. account \in [Users -> Account] /\ req \in [Requests -> Row] /\ HistoryOK
  BY DEF WellTyped
<1>1. CASE LoginApprove(r)
  <2>1. account' \in [Users -> Account]
    BY <1>1, <1>a DEF LoginApprove, Account
  <2>2. req' \in [Requests -> Row]
    BY <1>1, <1>a, RowStep DEF LoginApprove, PC, history
  <2>3. HistoryOK'
    BY <1>1, <1>a, AttemptsAssumption DEF LoginApprove, HistoryOK, Row, history
  <2> QED BY <2>1, <2>2, <2>3
<1>2. CASE LoginFail(r)
  <2>1. account' \in [Users -> Account]
    <3>1. req[r].fails \in 0 .. MaxFailedAttempts - 1
      BY <1>a DEF Row
    <3>2. CASE req[r].fails + 1 >= MaxFailedAttempts
      <4>1. account' = [account EXCEPT ![req[r].user].locked = TRUE, ![req[r].user].fails = 0]
        BY <1>2, <3>2 DEF LoginFail
      <4> QED BY <1>a, <4>1, NoFailures DEF Account
    <3>3. CASE ~ (req[r].fails + 1 >= MaxFailedAttempts)
      <4>1. req[r].fails + 1 \in 0 .. MaxFailedAttempts - 1
        BY <3>1, <3>3, AttemptsAssumption
      <4>2. account' = [account EXCEPT ![req[r].user].fails = req[r].fails + 1]
        BY <1>2, <3>3 DEF LoginFail
      <4> QED BY <1>a, <4>1, <4>2 DEF Account
    <3> QED BY <3>2, <3>3
  <2>2. req' \in [Requests -> Row]
    BY <1>2, <1>a, RowStep DEF LoginFail, PC, history
  <2>3. HistoryOK'
    BY <1>2, <1>a, AttemptsAssumption DEF LoginFail, OneMoreWrong, HistoryOK, Row, history
  <2> QED BY <2>1, <2>2, <2>3
<1>3. CASE LoginReset(r)
  <2>1. account' \in [Users -> Account]
    BY <1>3, <1>a, ColumnWritten DEF LoginReset
  <2>2. req' \in [Requests -> Row]
    BY <1>3, <1>a, RowStep DEF LoginReset, PC, history
  <2>3. HistoryOK'
    BY <1>3, <1>a, AttemptsAssumption DEF LoginReset, HistoryOK, Row, history, Forget
  <2> QED BY <2>1, <2>2, <2>3
<1>4. CASE LoginOtp(r)
  <2>1. account' \in [Users -> Account]
    BY <1>4, <1>a, NewCode, ColumnWritten DEF LoginOtp, NewCodes
  <2>2. req' \in [Requests -> Row]
    BY <1>4, <1>a, RowStep DEF LoginOtp, PC, history
  <2>3. HistoryOK'
    BY <1>4, <1>a, NewCode, AttemptsAssumption DEF LoginOtp, HistoryOK, Row, history, NewCodes
  <2> QED BY <2>1, <2>2, <2>3
<1>5. CASE VerifyClear(r)
  <2>1. account' \in [Users -> Account]
    BY <1>5, <1>a, ColumnWritten DEF VerifyClear
  <2>2. req' \in [Requests -> Row]
    BY <1>5, <1>a, RowStep DEF VerifyClear, PC, history
  <2>3. HistoryOK'
    BY <1>5, <1>a, AttemptsAssumption DEF VerifyClear, HistoryOK, Row, history
  <2> QED BY <2>1, <2>2, <2>3
<1>6. CASE VerifyStore(r)
  <2>1. account' \in [Users -> Account]
    BY <1>6, <1>a, ColumnWritten DEF VerifyStore
  <2>2. req' \in [Requests -> Row]
    BY <1>6, <1>a, RowStep DEF VerifyStore, PC, history
  <2>3. HistoryOK'
    <3>1. uses' \in [Codes -> Nat]
      BY <1>6, <1>a, UsedOnceMore DEF VerifyStore, HistoryOK
    <3> QED BY <1>6, <1>a, <3>1 DEF VerifyStore, HistoryOK
  <2> QED BY <2>1, <2>2, <2>3
<1>7. CASE RefreshStore(r)
  <2>1. account' \in [Users -> Account]
    BY <1>7, <1>a, ColumnWritten DEF RefreshStore
  <2>2. req' \in [Requests -> Row]
    BY <1>7, <1>a, RowStep DEF RefreshStore, PC, history
  <2>3. HistoryOK'
    BY <1>7, <1>a, AttemptsAssumption DEF RefreshStore, HistoryOK, Row, history
  <2> QED BY <2>1, <2>2, <2>3
<1>8. CASE RefreshRevoke(r)
  <2>1. account' \in [Users -> Account]
    BY <1>8, <1>a, ColumnWritten DEF RefreshRevoke, EndSession
  <2>2. req' \in [Requests -> Row]
    BY <1>8, <1>a, RowStep DEF RefreshRevoke, PC, history
  <2>3. HistoryOK'
    BY <1>8, <1>a, AttemptsAssumption DEF RefreshRevoke, HistoryOK, Row, history, EndSession, End
  <2> QED BY <2>1, <2>2, <2>3
<1>9. CASE ResetStore(r)
  <2>1. account' \in [Users -> Account]
    BY <1>9, <1>a, ColumnWritten DEF ResetStore
  <2>2. req' \in [Requests -> Row]
    BY <1>9, <1>a, RowStep DEF ResetStore, PC, history
  <2>3. HistoryOK'
    <3>1. uses' \in [Codes -> Nat]
      BY <1>9, <1>a, UsedOnceMore DEF ResetStore, HistoryOK
    <3>2. req[r].user \in Users
      BY <1>9, <1>a DEF ResetStore, Row
    <3> QED BY <1>9, <1>a, <3>1, <3>2, AttemptsAssumption DEF ResetStore, HistoryOK, End, Forget
  <2> QED BY <2>1, <2>2, <2>3
<1>10. CASE ChangeStore(r)
  <2>1. account' \in [Users -> Account]
    BY <1>10, <1>a, ColumnWritten DEF ChangeStore, EndSession
  <2>2. req' \in [Requests -> Row]
    BY <1>10, <1>a, RowStep DEF ChangeStore, PC, history
  <2>3. HistoryOK'
    BY <1>10, <1>a, AttemptsAssumption DEF ChangeStore, HistoryOK, Row, history, EndSession, End
  <2> QED BY <2>1, <2>2, <2>3
<1>11. CASE Fail(r)
  <2>1. account' \in [Users -> Account]
    BY <1>11, <1>a DEF Fail, history
  <2>2. req' \in [Requests -> Row]
    BY <1>11, <1>a, RowStep DEF Fail, PC, history
  <2>3. HistoryOK'
    BY <1>11, <1>a, AttemptsAssumption DEF Fail, HistoryOK, Row, history
  <2> QED BY <2>1, <2>2, <2>3
<1> QED BY <1>1, <1>2, <1>3, <1>4, <1>5, <1>6, <1>7, <1>8, <1>9, <1>10, <1>11

\* How a request begins.
LEMMA TypeBegin == WellTyped /\ BeginStep => WellTyped'
<1> SUFFICES ASSUME WellTyped, NEW r \in Requests, NEW u \in Users,
                    \/ LoginRead(r, u) \/ LoginUnapproved(r, u) \/ VerifyRead(r, u)
                    \/ RefreshRead(r, u) \/ ResetRead(r, u) \/ ChangeRead(r, u)
             PROVE  account' = account /\ req' \in [Requests -> Row] /\ HistoryOK'
  BY DEF BeginStep, WellTyped
<1>a. account \in [Users -> Account] /\ req \in [Requests -> Row] /\ HistoryOK
  BY DEF WellTyped
<1>b. ASSUME NEW pc \in PC, NEW code \in Codes \cup {NoCode}, Begin(r, u, pc, code)
      PROVE  req' \in [Requests -> Row]
  <2>1. [pc |-> pc, user |-> u, fails |-> account[u].fails, code |-> code] \in Row
    BY <1>a DEF Row, Account
  <2> QED BY <1>a, <1>b, <2>1 DEF Begin
<1>1. CASE LoginRead(r, u)
  <2>1. req' \in [Requests -> Row]
    BY <1>1, <1>a, <1>b DEF LoginRead, PC, Account, BeginLogin
  <2> QED BY <1>1, <1>a, <2>1 DEF LoginRead, HistoryOK, Account, BeginLogin
<1>2. CASE LoginUnapproved(r, u)
  <2>1. req' \in [Requests -> Row]
    BY <1>2, <1>a, <1>b DEF LoginUnapproved, PC, Account, BeginLogin
  <2> QED BY <1>2, <1>a, <2>1 DEF LoginUnapproved, HistoryOK, Account, BeginLogin
<1>3. CASE VerifyRead(r, u)
  <2>1. req' \in [Requests -> Row]
    BY <1>3, <1>a, <1>b DEF VerifyRead, PC, Account
  <2> QED BY <1>3, <1>a, <2>1 DEF VerifyRead, HistoryOK, Account, Present
<1>4. CASE RefreshRead(r, u)
  <2>1. req' \in [Requests -> Row]
    BY <1>4, <1>a, <1>b DEF RefreshRead, PC, Account
  <2> QED BY <1>4, <1>a, <2>1 DEF RefreshRead, HistoryOK, Account, history
<1>5. CASE ResetRead(r, u)
  <2>1. req' \in [Requests -> Row]
    BY <1>5, <1>a, <1>b DEF ResetRead, PC, Account
  <2> QED BY <1>5, <1>a, <2>1 DEF ResetRead, HistoryOK, Account, Present
<1>6. CASE ChangeRead(r, u)
  <2>1. req' \in [Requests -> Row]
    BY <1>6, <1>a, <1>b DEF ChangeRead, PC, Account
  <2> QED BY <1>6, <1>a, <2>1 DEF ChangeRead, HistoryOK, Account, history
<1> QED BY <1>1, <1>2, <1>3, <1>4, <1>5, <1>6

\* Handlers of one call, and time.
LEMMA TypeOneCall == WellTyped /\ OneCallStep => WellTyped'
<1> SUFFICES ASSUME WellTyped, NEW u \in Users,
                    \/ Logout(u) \/ ForgotPassword(u) \/ ResetUserPassword(u)
                    \/ ExpireLock(u) \/ ExpireOtp(u) \/ ExpireReset(u)
             PROVE  account' \in [Users -> Account] /\ req' = req /\ HistoryOK'
  BY DEF OneCallStep, WellTyped
<1>a. account \in [Users -> Account] /\ HistoryOK
  BY DEF WellTyped
<1>1. CASE Logout(u)
  BY <1>1, <1>a DEF Logout, Account, HistoryOK, EndSession, End
<1>2. CASE ForgotPassword(u)
  BY <1>2, <1>a, NewCode DEF ForgotPassword, NewCodes, Account, HistoryOK
<1>3. CASE ResetUserPassword(u)
  <2>1. account' \in [Users -> Account]
    BY <1>3, <1>a, NoFailures DEF ResetUserPassword, Account
  <2> QED BY <1>3, <1>a, <2>1, AttemptsAssumption DEF ResetUserPassword, HistoryOK, End, Forget
<1>4. CASE ExpireLock(u) \/ ExpireOtp(u) \/ ExpireReset(u)
  <2>1. account' \in [Users -> Account]
    <3>1. CASE ExpireLock(u)
      BY <3>1, <1>a DEF ExpireLock, Account
    <3>2. CASE ExpireOtp(u)
      BY <3>2, <1>a DEF ExpireOtp, Account
    <3>3. CASE ExpireReset(u)
      BY <3>3, <1>a DEF ExpireReset, Account
    <3> QED BY <1>4, <3>1, <3>2, <3>3
  <2>2. req' = req /\ HistoryOK'
    <3>1. CASE ExpireLock(u)
      BY <3>1, <1>a, AttemptsAssumption DEF ExpireLock, HistoryOK
    <3>2. CASE ExpireOtp(u) \/ ExpireReset(u)
      BY <3>2, <1>a DEF ExpireOtp, ExpireReset, HistoryOK, history
    <3> QED BY <1>4, <3>1, <3>2
  <2> QED BY <2>1, <2>2
<1> QED BY <1>1, <1>2, <1>3, <1>4

\* Types are an invariant.
LEMMA WellTypedHolds == Spec => []WellTyped
<1>1. WellTyped /\ [Next]_vars => WellTyped'
  <2>1. WellTyped /\ UNCHANGED vars => WellTyped'
    BY DEF vars, history, WellTyped, HistoryOK
  <2> QED BY <2>1, NextKinds, TypeRequest, TypeBegin, TypeOneCall
<1> QED BY <1>1, TypeInit, PTL DEF Spec

\* Every variable has its type; among the rest, a counter that has reached the
\* maximum is never stored.
THEOREM AuthTypeCorrect == Spec => []TypeOK
<1> QED BY WellTypedHolds, WellTypedTypeOK, PTL

-----------------------------------------------------------------------------
(* Sessions that ended *)

\* EndedSessionStaysEnded, and why: no request is about to bring the session back.
EndedInv ==
  \A u \in ended \ crossed :
    ~ account[u].session /\ \A r \in Requests : ~ (req[r].user = u /\ req[r].pc = "refresh.store")

\* What a step may do without touching sessions.
SessionsAsBefore ==
  /\ ended' = ended /\ crossed' = crossed
  /\ \A u \in Users : account'[u].session = account[u].session
  /\ \A r \in Requests : req'[r].pc = "refresh.store" => req'[r] = req[r]

\* Such a step keeps EndedInv.
LEMMA EndedQuiet == HistoryOK /\ EndedInv /\ SessionsAsBefore => EndedInv'
BY DEF HistoryOK, EndedInv, SessionsAsBefore

\* A step that ends the session of u, leaving no refresh of it uncounted.
LEMMA EndedEnds ==
  ASSUME WellTyped, EndedInv, NEW u \in Users, End(u),
         ~ account'[u].session,
         \A v \in Users \ {u} : account'[v].session = account[v].session,
         \A r \in Requests : req'[r].pc = "refresh.store" => req'[r] = req[r]
  PROVE  EndedInv'
<1> SUFFICES ASSUME NEW v \in ended' \ crossed'
             PROVE  /\ ~ account'[v].session
                    /\ \A r \in Requests : ~ (req'[r].user = v /\ req'[r].pc = "refresh.store")
  BY DEF EndedInv
<1>1. CASE v = u
  <2>1. At(TokenPCs, u) = {}
    BY <1>1 DEF End
  <2> QED BY <1>1, <2>1 DEF At, TokenPCs
<1>2. CASE v # u
  <2>1. v \in ended \ crossed /\ v \in Users
    BY <1>2 DEF End, WellTyped, HistoryOK
  <2> QED BY <1>2, <2>1 DEF EndedInv
<1> QED BY <1>1, <1>2

\* Every step keeps EndedInv.
LEMMA EndedStep == WellTyped /\ EndedInv /\ [Next]_vars => EndedInv'
<1> SUFFICES ASSUME WellTyped, EndedInv, [Next]_vars PROVE EndedInv'
  OBVIOUS
<1>a. account \in [Users -> Account] /\ req \in [Requests -> Row] /\ HistoryOK
  BY DEF WellTyped
<1>1. ASSUME NEW r \in Requests,
             LoginApprove(r) \/ LoginFail(r) \/ LoginReset(r)
             \/ LoginOtp(r) \/ VerifyClear(r) \/ VerifyStore(r)
             \/ RefreshStore(r) \/ RefreshRevoke(r) \/ ResetStore(r)
             \/ ChangeStore(r) \/ Fail(r)
      PROVE  EndedInv'
  <2>1. CASE LoginApprove(r)
    <3>1. SessionsAsBefore
      BY <2>1, <1>a DEF LoginApprove, SessionsAsBefore, Account, Row, Free, Answer, Continue, history
    <3> QED BY <3>1, <1>a, EndedQuiet
  <2>2. CASE LoginFail(r)
    <3>1. /\ ended' = ended /\ crossed' = crossed
          /\ req' = [req EXCEPT ![r] = Free]
      BY <2>2 DEF LoginFail, Answer
    <3>2. ASSUME NEW u \in Users
          PROVE  account'[u].session = account[u].session
      <4>1. CASE req[r].fails + 1 >= MaxFailedAttempts
        <5>1. account' = [account EXCEPT ![req[r].user].locked = TRUE, ![req[r].user].fails = 0]
          BY <2>2, <4>1 DEF LoginFail
        <5> QED BY <5>1, <1>a DEF Account
      <4>2. CASE ~ (req[r].fails + 1 >= MaxFailedAttempts)
        <5>1. account' = [account EXCEPT ![req[r].user].fails = req[r].fails + 1]
          BY <2>2, <4>2 DEF LoginFail
        <5> QED BY <5>1, <1>a DEF Account
      <4> QED BY <4>1, <4>2
    <3>3. \A q \in Requests : req'[q].pc = "refresh.store" => req'[q] = req[q]
      BY <3>1, <1>a DEF Free, Row
    <3>4. SessionsAsBefore
      BY <3>1, <3>2, <3>3 DEF SessionsAsBefore
    <3> QED BY <3>4, <1>a, EndedQuiet
  <2>3. CASE LoginReset(r)
    <3>1. SessionsAsBefore
      BY <2>3, <1>a DEF LoginReset, SessionsAsBefore, Account, Row, Free, Continue, Forget
    <3> QED BY <3>1, <1>a, EndedQuiet
  <2>4. CASE LoginOtp(r)
    <3>1. SessionsAsBefore
      BY <2>4, <1>a DEF LoginOtp, SessionsAsBefore, Account, Row, Free, Answer
    <3> QED BY <3>1, <1>a, EndedQuiet
  <2>5. CASE VerifyClear(r)
    <3>1. SessionsAsBefore
      BY <2>5, <1>a DEF VerifyClear, SessionsAsBefore, Account, Row, Free, Continue, history
    <3> QED BY <3>1, <1>a, EndedQuiet
  <2>6. CASE VerifyStore(r)
    BY <2>6, <1>a DEF VerifyStore, EndedInv, Answer, Free, Row, Account, HistoryOK
  <2>7. CASE RefreshStore(r)
    <3>1. req[r].user \notin ended \ crossed
      BY <2>7 DEF RefreshStore, EndedInv
    <3> QED BY <2>7, <1>a, <3>1 DEF RefreshStore, EndedInv, Answer, Free, Row, Account, HistoryOK, history
  <2>8. CASE RefreshRevoke(r)
    <3>1. /\ End(req[r].user) /\ ~ account'[req[r].user].session
          /\ \A v \in Users \ {req[r].user} : account'[v].session = account[v].session
          /\ \A q \in Requests : req'[q].pc = "refresh.store" => req'[q] = req[q]
      BY <2>8, <1>a DEF RefreshRevoke, EndSession, Answer, Free, Row, Account
    <3>2. req[r].user \in Users
      BY <2>8, <1>a DEF RefreshRevoke, Row
    <3> QED BY <3>1, <3>2, EndedEnds
  <2>9. CASE ResetStore(r)
    <3>1. /\ End(req[r].user) /\ ~ account'[req[r].user].session
          /\ \A v \in Users \ {req[r].user} : account'[v].session = account[v].session
          /\ \A q \in Requests : req'[q].pc = "refresh.store" => req'[q] = req[q]
      BY <2>9, <1>a DEF ResetStore, EndSession, Answer, Free, Row, Account
    <3>2. req[r].user \in Users
      BY <2>9, <1>a DEF ResetStore, Row
    <3> QED BY <3>1, <3>2, EndedEnds
  <2>10. CASE ChangeStore(r)
    <3>1. /\ End(req[r].user) /\ ~ account'[req[r].user].session
          /\ \A v \in Users \ {req[r].user} : account'[v].session = account[v].session
          /\ \A q \in Requests : req'[q].pc = "refresh.store" => req'[q] = req[q]
      BY <2>10, <1>a DEF ChangeStore, EndSession, Answer, Free, Row, Account
    <3>2. req[r].user \in Users
      BY <2>10, <1>a DEF ChangeStore, Row
    <3> QED BY <3>1, <3>2, EndedEnds
  <2>11. CASE Fail(r)
    <3>1. SessionsAsBefore
      BY <2>11, <1>a DEF Fail, SessionsAsBefore, Account, Row, Free, Answer, history
    <3> QED BY <3>1, <1>a, EndedQuiet
  <2> QED BY <1>1, <2>1, <2>2, <2>3, <2>4, <2>5, <2>6, <2>7, <2>8, <2>9, <2>10, <2>11
<1>2. ASSUME NEW r \in Requests, NEW u \in Users,
             LoginRead(r, u) \/ LoginUnapproved(r, u) \/ VerifyRead(r, u)
             \/ RefreshRead(r, u) \/ ResetRead(r, u) \/ ChangeRead(r, u)
      PROVE  EndedInv'
  <2>1. CASE LoginRead(r, u)
    <3>1. SessionsAsBefore
      BY <2>1, <1>a DEF LoginRead, SessionsAsBefore, Account, Row, Free, Begin, BeginLogin
    <3> QED BY <3>1, <1>a, EndedQuiet
  <2>2. CASE LoginUnapproved(r, u)
    <3>1. SessionsAsBefore
      BY <2>2, <1>a DEF LoginUnapproved, SessionsAsBefore, Account, Row, Free, Begin, BeginLogin
    <3> QED BY <3>1, <1>a, EndedQuiet
  <2>3. CASE VerifyRead(r, u)
    <3>1. SessionsAsBefore
      BY <2>3, <1>a DEF VerifyRead, SessionsAsBefore, Account, Row, Free, Begin
    <3> QED BY <3>1, <1>a, EndedQuiet
  <2>4. CASE RefreshRead(r, u)
    <3>1. u \notin ended \ crossed
      BY <2>4 DEF RefreshRead, EndedInv
    <3> QED BY <2>4, <1>a, <3>1 DEF RefreshRead, EndedInv, Begin, Row, HistoryOK, history
  <2>5. CASE ResetRead(r, u)
    <3>1. SessionsAsBefore
      BY <2>5, <1>a DEF ResetRead, SessionsAsBefore, Account, Row, Free, Begin
    <3> QED BY <3>1, <1>a, EndedQuiet
  <2>6. CASE ChangeRead(r, u)
    <3>1. SessionsAsBefore
      BY <2>6, <1>a DEF ChangeRead, SessionsAsBefore, Account, Row, Free, Begin, history
    <3> QED BY <3>1, <1>a, EndedQuiet
  <2> QED BY <1>2, <2>1, <2>2, <2>3, <2>4, <2>5, <2>6
<1>3. ASSUME NEW u \in Users,
             Logout(u) \/ ForgotPassword(u) \/ ResetUserPassword(u)
             \/ ExpireLock(u) \/ ExpireOtp(u) \/ ExpireReset(u)
      PROVE  EndedInv'
  <2>1. CASE Logout(u)
    <3>1. /\ End(u) /\ ~ account'[u].session
          /\ \A v \in Users \ {u} : account'[v].session = account[v].session
          /\ req' = req
      BY <2>1, <1>a DEF Logout, EndSession, Account
    <3> QED BY <3>1, EndedEnds
  <2>2. CASE ForgotPassword(u)
    <3>1. SessionsAsBefore
      BY <2>2, <1>a DEF ForgotPassword, SessionsAsBefore, Account, Row, Free
    <3> QED BY <3>1, <1>a, EndedQuiet
  <2>3. CASE ResetUserPassword(u)
    <3>1. /\ End(u) /\ ~ account'[u].session
          /\ \A v \in Users \ {u} : account'[v].session = account[v].session
          /\ req' = req
      BY <2>3, <1>a DEF ResetUserPassword, EndSession, Account
    <3> QED BY <3>1, EndedEnds
  <2>4. CASE ExpireLock(u)
    <3>1. SessionsAsBefore
      BY <2>4, <1>a DEF ExpireLock, SessionsAsBefore, Account, Row, Free, history
    <3> QED BY <3>1, <1>a, EndedQuiet
  <2>5. CASE ExpireOtp(u)
    <3>1. SessionsAsBefore
      BY <2>5, <1>a DEF ExpireOtp, SessionsAsBefore, Account, Row, Free, history
    <3> QED BY <3>1, <1>a, EndedQuiet
  <2>6. CASE ExpireReset(u)
    <3>1. SessionsAsBefore
      BY <2>6, <1>a DEF ExpireReset, SessionsAsBefore, Account, Row, Free, history
    <3> QED BY <3>1, <1>a, EndedQuiet
  <2> QED BY <1>3, <2>1, <2>2, <2>3, <2>4, <2>5, <2>6
<1>4. CASE UNCHANGED vars
  BY <1>4 DEF vars, history, EndedInv
<1> QED BY <1>1, <1>2, <1>3, <1>4, NextKinds DEF RequestStep, BeginStep, OneCallStep

\* A session that was ended by a logout, a new password or a token used twice
\* stays ended until a code is verified, whatever requests of whatever users
\* overlap: only one that was about to store a token when it ended can bring it
\* back.
THEOREM EndedSessionsStayEnded == Spec => []EndedSessionStaysEnded
<1>1. Init => EndedInv
  BY DEF Init, EndedInv
<1>2. EndedInv => EndedSessionStaysEnded
  BY DEF EndedInv, EndedSessionStaysEnded
<1> QED BY <1>1, <1>2, EndedStep, WellTypedHolds, PTL DEF Spec

-----------------------------------------------------------------------------
(* The lockout counter *)

\* LockoutExact, and why: an account that is not mixed has at most one request
\* that will write the counter, and this has read the counter as it is, and the
\* lock as well.
CounterInv ==
  \A u \in Users \ mixed :
    /\ account[u].locked <=> wrong[u] = MaxFailedAttempts
    /\ account[u].fails = IF account[u].locked THEN 0 ELSE wrong[u]
    /\ \A r, q \in At(LoginPCs, u) : r = q
    /\ \A r \in At(LoginPCs, u) :
         req[r].fails = account[u].fails /\ (account[u].locked => req[r].pc = "login.refuse")

\* A request that has yet to count or to reset.
StillLogin(r) ==
  /\ req[r].pc \in LoginPCs /\ req'[r].user = req[r].user /\ req'[r].fails = req[r].fails
  /\ req[r].pc = "login.refuse" => req'[r].pc = "login.refuse"

\* What a step may do without touching the counter or the lock.
CounterAsBefore ==
  /\ mixed' = mixed /\ wrong' = wrong
  /\ \A u \in Users : account'[u].fails = account[u].fails /\ account'[u].locked = account[u].locked
  /\ \A r \in Requests : req'[r].pc \in LoginPCs => StillLogin(r)

\* Such a step keeps CounterInv.
LEMMA CounterQuiet == CounterInv /\ CounterAsBefore => CounterInv'
BY DEF CounterInv, CounterAsBefore, StillLogin, At

\* A step keeps what is known of an account it does not concern.
LEMMA CounterElsewhere ==
  ASSUME CounterInv, NEW v \in Users, v \notin mixed,
         wrong'[v] = wrong[v],
         account'[v].fails = account[v].fails, account'[v].locked = account[v].locked,
         \A r \in Requests : req'[r].pc \in LoginPCs /\ req'[r].user = v => req'[r] = req[r]
  PROVE  /\ account'[v].locked <=> wrong'[v] = MaxFailedAttempts
         /\ account'[v].fails = IF account'[v].locked THEN 0 ELSE wrong'[v]
         /\ \A r, q \in At(LoginPCs, v)' : r = q
         /\ \A r \in At(LoginPCs, v)' :
              req'[r].fails = account'[v].fails /\ (account'[v].locked => req'[r].pc = "login.refuse")
BY DEF CounterInv, At

\* A step that sets the counter of u back, when nobody else is about to write it.
LEMMA CounterForgets ==
  ASSUME WellTyped, CounterInv, NEW u \in Users, NEW others, Forget(u, others),
         account'[u].fails = 0, account'[u].locked = FALSE,
         \A v \in Users \ {u} : account'[v].fails = account[v].fails
                                /\ account'[v].locked = account[v].locked,
         \A r \in Requests : req'[r].pc \in LoginPCs =>
           req'[r] = req[r] /\ (req[r].user = u => r \in others)
  PROVE  CounterInv'
<1> SUFFICES ASSUME NEW v \in Users \ mixed'
             PROVE  /\ account'[v].locked <=> wrong'[v] = MaxFailedAttempts
                    /\ account'[v].fails = IF account'[v].locked THEN 0 ELSE wrong'[v]
                    /\ \A r, q \in At(LoginPCs, v)' : r = q
                    /\ \A r \in At(LoginPCs, v)' :
                         /\ req'[r].fails = account'[v].fails
                         /\ account'[v].locked => req'[r].pc = "login.refuse"
  BY DEF CounterInv
<1>1. CASE v = u
  <2>1. others = {}
    BY <1>1 DEF Forget
  <2>2. At(LoginPCs, v)' = {}
    BY <1>1, <2>1 DEF At
  <2>3. wrong'[v] = 0 /\ 0 # MaxFailedAttempts
    BY <1>1, AttemptsAssumption DEF Forget, WellTyped, HistoryOK
  <2> QED BY <1>1, <2>2, <2>3
<1>2. CASE v # u
  <2>1. v \notin mixed /\ wrong'[v] = wrong[v]
    BY <1>2 DEF Forget, WellTyped, HistoryOK
  <2>2. account'[v].fails = account[v].fails /\ account'[v].locked = account[v].locked
    BY <1>2
  <2>3. \A r \in Requests : req'[r].pc \in LoginPCs /\ req'[r].user = v => req'[r] = req[r]
    OBVIOUS
  <2> QED BY <2>1, <2>2, <2>3, CounterElsewhere
<1> QED BY <1>1, <1>2

\* A login that has read the counter and the lock: if another one is under way as
\* well, the account is mixed from now on.
LEMMA CounterBegins ==
  ASSUME WellTyped, CounterInv, NEW u \in Users, NEW r \in Requests, NEW pc,
         account[u].locked => pc = "login.refuse",
         req[r].pc = "free", BeginLogin(r, u, pc), UNCHANGED <<account, wrong>>
  PROVE  CounterInv'
<1> SUFFICES ASSUME NEW v \in Users \ mixed'
             PROVE  /\ account'[v].locked <=> wrong'[v] = MaxFailedAttempts
                    /\ account'[v].fails = IF account'[v].locked THEN 0 ELSE wrong'[v]
                    /\ \A q, p \in At(LoginPCs, v)' : q = p
                    /\ \A q \in At(LoginPCs, v)' :
                         /\ req'[q].fails = account'[v].fails
                         /\ account'[v].locked => req'[q].pc = "login.refuse"
  BY DEF CounterInv
<1>1. /\ req' = [req EXCEPT ![r] = [pc |-> pc, user |-> u, fails |-> account[u].fails,
                                    code |-> NoCode]]
      /\ v \notin mixed
      /\ req \in [Requests -> Row]
  BY DEF BeginLogin, Begin, WellTyped
<1>2. CASE v = u
  <2>1. At(LoginPCs, u) = {}
    BY <1>2 DEF BeginLogin
  <2>2. At(LoginPCs, v)' \subseteq {r}
    BY <1>1, <1>2, <2>1 DEF At
  <2>3. req'[r].fails = account[v].fails /\ req'[r].pc = pc
    BY <1>1, <1>2
  <2> QED BY <1>1, <1>2, <2>2, <2>3 DEF CounterInv
<1>3. CASE v # u
  <2>1. \A q \in Requests : req'[q].pc \in LoginPCs /\ req'[q].user = v => req'[q] = req[q]
    BY <1>1, <1>3
  <2> QED BY <1>1, <1>3, <2>1, CounterElsewhere
<1> QED BY <1>2, <1>3

\* One more wrong password.
LEMMA CounterCounts ==
  ASSUME WellTyped, CounterInv, NEW r \in Requests, LoginFail(r)
  PROVE  CounterInv'
<1> DEFINE u == req[r].user
<1>a. account \in [Users -> Account] /\ req \in [Requests -> Row] /\ HistoryOK
  BY DEF WellTyped
<1>1. /\ req[r].pc = "login.fail" /\ u \in Users
      /\ mixed' = mixed /\ req' = [req EXCEPT ![r] = Free] /\ OneMoreWrong(u)
  BY <1>a DEF LoginFail, Answer, Row
<1>2. /\ req[r].fails + 1 >= MaxFailedAttempts =>
           account' = [account EXCEPT ![u].locked = TRUE, ![u].fails = 0]
      /\ ~ (req[r].fails + 1 >= MaxFailedAttempts) =>
           account' = [account EXCEPT ![u].fails = req[r].fails + 1]
  BY DEF LoginFail
<1> SUFFICES ASSUME NEW v \in Users \ mixed'
             PROVE  /\ account'[v].locked <=> wrong'[v] = MaxFailedAttempts
                    /\ account'[v].fails = IF account'[v].locked THEN 0 ELSE wrong'[v]
                    /\ \A q, p \in At(LoginPCs, v)' : q = p
                    /\ \A q \in At(LoginPCs, v)' :
                         /\ req'[q].fails = account'[v].fails
                         /\ account'[v].locked => req'[q].pc = "login.refuse"
  BY DEF CounterInv
<1>3. CASE v = u
  <2>1. r \in At(LoginPCs, v) /\ v \notin mixed
    BY <1>1, <1>3 DEF At, LoginPCs
  <2>2. At(LoginPCs, v)' = {}
    BY <1>1, <1>3, <1>a, <2>1 DEF CounterInv, At, LoginPCs, Free
  <2>3. ~ account[v].locked /\ req[r].fails = wrong[v] /\ wrong[v] # MaxFailedAttempts
    BY <1>1, <2>1 DEF CounterInv
  <2>4. wrong[v] \in 0 .. MaxFailedAttempts - 1
    BY <1>a, <2>3, AttemptsAssumption DEF HistoryOK
  <2>5. wrong'[v] = wrong[v] + 1
    BY <1>1, <1>3, <1>a, <2>4, AttemptsAssumption DEF OneMoreWrong, HistoryOK
  <2>6. CASE wrong[v] + 1 = MaxFailedAttempts
    <3>1. account' = [account EXCEPT ![u].locked = TRUE, ![u].fails = 0]
      BY <1>2, <2>3, <2>6, AttemptsAssumption
    <3>2. account'[v].locked = TRUE /\ account'[v].fails = 0
      BY <1>3, <1>a, <3>1 DEF Account
    <3> QED BY <2>2, <2>5, <2>6, <3>2
  <2>7. CASE wrong[v] + 1 # MaxFailedAttempts
    <3>1. account' = [account EXCEPT ![u].fails = req[r].fails + 1]
      BY <1>2, <2>3, <2>4, <2>7, AttemptsAssumption
    <3>2. account'[v].locked = account[v].locked /\ account'[v].fails = wrong[v] + 1
      BY <1>3, <1>a, <2>3, <3>1 DEF Account
    <3> QED BY <2>2, <2>3, <2>5, <2>7, <3>2
  <2> QED BY <2>6, <2>7
<1>4. CASE v # u
  <2>1. account'[v] = account[v] /\ wrong'[v] = wrong[v] /\ v \notin mixed
    BY <1>1, <1>2, <1>4, <1>a DEF OneMoreWrong, HistoryOK
  <2>2. \A q \in Requests : req'[q].pc \in LoginPCs /\ req'[q].user = v => req'[q] = req[q]
    BY <1>1, <1>a DEF Free, LoginPCs
  <2> QED BY <1>4, <2>1, <2>2, CounterElsewhere
<1> QED BY <1>3, <1>4

\* The lock runs out: the counter was set back when the account was locked.
LEMMA CounterExpires ==
  ASSUME WellTyped, CounterInv, NEW u \in Users, ExpireLock(u)
  PROVE  CounterInv'
<1>a. account \in [Users -> Account] /\ HistoryOK
  BY DEF WellTyped
<1>1. /\ account[u].locked /\ account' = [account EXCEPT ![u].locked = FALSE]
      /\ wrong' = [wrong EXCEPT ![u] = 0] /\ req' = req /\ mixed' = mixed
  BY DEF ExpireLock
<1> SUFFICES ASSUME NEW v \in Users \ mixed
             PROVE  /\ account'[v].locked <=> wrong'[v] = MaxFailedAttempts
                    /\ account'[v].fails = IF account'[v].locked THEN 0 ELSE wrong'[v]
                    /\ \A q, p \in At(LoginPCs, v)' : q = p
                    /\ \A q \in At(LoginPCs, v)' :
                         /\ req'[q].fails = account'[v].fails
                         /\ account'[v].locked => req'[q].pc = "login.refuse"
  BY <1>1 DEF CounterInv
<1>2. CASE v = u
  <2>1. account'[v].locked = FALSE /\ account'[v].fails = account[v].fails /\ wrong'[v] = 0
    BY <1>1, <1>2, <1>a DEF Account, HistoryOK
  <2>2. account[v].fails = 0
    BY <1>1, <1>2 DEF CounterInv
  <2>3. At(LoginPCs, v)' = At(LoginPCs, v)
    BY <1>1 DEF At
  <2>4. 0 # MaxFailedAttempts
    BY AttemptsAssumption
  <2> QED BY <1>1, <2>1, <2>2, <2>3, <2>4 DEF CounterInv, At
<1>3. CASE v # u
  <2>1. account'[v] = account[v] /\ wrong'[v] = wrong[v]
    BY <1>1, <1>3, <1>a DEF HistoryOK
  <2> QED BY <1>1, <1>3, <2>1, CounterElsewhere
<1> QED BY <1>2, <1>3

\* Every step keeps CounterInv.
LEMMA CounterStep == WellTyped /\ CounterInv /\ [Next]_vars => CounterInv'
<1> SUFFICES ASSUME WellTyped, CounterInv, [Next]_vars PROVE CounterInv'
  OBVIOUS
<1>a. account \in [Users -> Account] /\ req \in [Requests -> Row] /\ HistoryOK
  BY DEF WellTyped
<1>1. ASSUME NEW r \in Requests,
             LoginApprove(r) \/ LoginFail(r) \/ LoginReset(r)
             \/ LoginOtp(r) \/ VerifyClear(r) \/ VerifyStore(r)
             \/ RefreshStore(r) \/ RefreshRevoke(r) \/ ResetStore(r)
             \/ ChangeStore(r) \/ Fail(r)
      PROVE  CounterInv'
  <2>1. CASE LoginApprove(r)
    <3>1. CounterAsBefore
      BY <2>1, <1>a DEF LoginApprove, CounterAsBefore, StillLogin, LoginPCs, Account, Row, Free, Answer, Continue, history
    <3> QED BY <3>1, CounterQuiet
  <2>2. CASE LoginFail(r)
    BY <2>2, CounterCounts
  <2>3. CASE LoginReset(r)
    <3>1. /\ Forget(req[r].user, At(LoginPCs, req[r].user) \ {r})
          /\ account'[req[r].user].fails = 0 /\ account'[req[r].user].locked = FALSE
          /\ \A v \in Users \ {req[r].user} : account'[v].fails = account[v].fails
                                             /\ account'[v].locked = account[v].locked
          /\ \A q \in Requests : req'[q].pc \in LoginPCs => q # r /\ req'[q] = req[q]
      BY <2>3, <1>a DEF LoginReset, Answer, Continue, Free, Row, Account, LoginPCs
    <3>2. req[r].user \in Users
      BY <2>3, <1>a DEF LoginReset, Row
    <3>3. \A q \in Requests : req'[q].pc \in LoginPCs =>
            req'[q] = req[q] /\ (req[q].user = req[r].user => q \in At(LoginPCs, req[r].user) \ {r})
      BY <3>1 DEF At
    <3> QED BY <3>1, <3>2, <3>3, CounterForgets
  <2>4. CASE LoginOtp(r)
    <3>1. CounterAsBefore
      BY <2>4, <1>a DEF LoginOtp, CounterAsBefore, StillLogin, LoginPCs, Account, Row, Free, Answer
    <3> QED BY <3>1, CounterQuiet
  <2>5. CASE VerifyClear(r)
    <3>1. CounterAsBefore
      BY <2>5, <1>a DEF VerifyClear, CounterAsBefore, StillLogin, LoginPCs, Account, Row, Free, Continue, history
    <3> QED BY <3>1, CounterQuiet
  <2>6. CASE VerifyStore(r)
    <3>1. CounterAsBefore
      BY <2>6, <1>a DEF VerifyStore, CounterAsBefore, StillLogin, LoginPCs, Account, Row, Free, Answer
    <3> QED BY <3>1, CounterQuiet
  <2>7. CASE RefreshStore(r)
    <3>1. CounterAsBefore
      BY <2>7, <1>a DEF RefreshStore, CounterAsBefore, StillLogin, LoginPCs, Account, Row, Free, Answer, history
    <3> QED BY <3>1, CounterQuiet
  <2>8. CASE RefreshRevoke(r)
    <3>1. CounterAsBefore
      BY <2>8, <1>a DEF RefreshRevoke, CounterAsBefore, StillLogin, LoginPCs, Account, Row, Free, Answer, EndSession, End
    <3> QED BY <3>1, CounterQuiet
  <2>9. CASE ResetStore(r)
    <3>1. /\ Forget(req[r].user, At(LoginPCs, req[r].user))
          /\ account'[req[r].user].fails = 0 /\ account'[req[r].user].locked = FALSE
          /\ \A v \in Users \ {req[r].user} : account'[v].fails = account[v].fails
                                             /\ account'[v].locked = account[v].locked
          /\ \A q \in Requests : req'[q].pc \in LoginPCs => q # r /\ req'[q] = req[q]
      <4>1. account' = [account EXCEPT ![req[r].user].reset = NoCode, ![req[r].user].session = FALSE,
                                       ![req[r].user].fails = 0, ![req[r].user].locked = FALSE]
        BY <2>9 DEF ResetStore
      <4>2. req[r].pc = "reset.store" /\ req' = [req EXCEPT ![r] = Free]
            /\ Forget(req[r].user, At(LoginPCs, req[r].user)) /\ req[r].user \in Users
        BY <2>9, <1>a DEF ResetStore, Answer, Row
      <4>3. \A q \in Requests : req'[q].pc \in LoginPCs => q # r /\ req'[q] = req[q]
        BY <4>2, <1>a DEF Free, LoginPCs
      <4>4. account'[req[r].user].fails = 0 /\ account'[req[r].user].locked = FALSE
        BY <4>1, <4>2, <1>a DEF Account
      <4>5. \A v \in Users \ {req[r].user} : account'[v] = account[v]
        BY <4>1, <1>a
      <4> QED BY <4>2, <4>3, <4>4, <4>5
    <3>2. req[r].user \in Users
      BY <2>9, <1>a DEF ResetStore, Row
    <3>3. \A q \in Requests : req'[q].pc \in LoginPCs =>
            req'[q] = req[q] /\ (req[q].user = req[r].user => q \in At(LoginPCs, req[r].user))
      BY <3>1 DEF At
    <3> QED BY <3>1, <3>2, <3>3, CounterForgets
  <2>10. CASE ChangeStore(r)
    <3>1. CounterAsBefore
      BY <2>10, <1>a DEF ChangeStore, CounterAsBefore, StillLogin, LoginPCs, Account, Row, Free, Answer, EndSession, End
    <3> QED BY <3>1, CounterQuiet
  <2>11. CASE Fail(r)
    <3>1. CounterAsBefore
      BY <2>11, <1>a DEF Fail, CounterAsBefore, StillLogin, LoginPCs, Account, Row, Free, Answer, history
    <3> QED BY <3>1, CounterQuiet
  <2> QED BY <1>1, <2>1, <2>2, <2>3, <2>4, <2>5, <2>6, <2>7, <2>8, <2>9, <2>10, <2>11
<1>2. ASSUME NEW r \in Requests, NEW u \in Users,
             LoginRead(r, u) \/ LoginUnapproved(r, u) \/ VerifyRead(r, u)
             \/ RefreshRead(r, u) \/ ResetRead(r, u) \/ ChangeRead(r, u)
      PROVE  CounterInv'
  <2>1. CASE LoginRead(r, u)
    BY <2>1, CounterBegins DEF LoginRead
  <2>2. CASE LoginUnapproved(r, u)
    BY <2>2, CounterBegins DEF LoginUnapproved
  <2>3. CASE VerifyRead(r, u)
    <3>1. CounterAsBefore
      BY <2>3, <1>a DEF VerifyRead, CounterAsBefore, StillLogin, LoginPCs, Account, Row, Free, Begin
    <3> QED BY <3>1, CounterQuiet
  <2>4. CASE RefreshRead(r, u)
    <3>1. CounterAsBefore
      BY <2>4, <1>a DEF RefreshRead, CounterAsBefore, StillLogin, LoginPCs, Account, Row, Free, Begin, history
    <3> QED BY <3>1, CounterQuiet
  <2>5. CASE ResetRead(r, u)
    <3>1. CounterAsBefore
      BY <2>5, <1>a DEF ResetRead, CounterAsBefore, StillLogin, LoginPCs, Account, Row, Free, Begin
    <3> QED BY <3>1, CounterQuiet
  <2>6. CASE ChangeRead(r, u)
    <3>1. CounterAsBefore
      BY <2>6, <1>a DEF ChangeRead, CounterAsBefore, StillLogin, LoginPCs, Account, Row, Free, Begin, history
    <3> QED BY <3>1, CounterQuiet
  <2> QED BY <1>2, <2>1, <2>2, <2>3, <2>4, <2>5, <2>6
<1>3. ASSUME NEW u \in Users,
             Logout(u) \/ ForgotPassword(u) \/ ResetUserPassword(u)
             \/ ExpireLock(u) \/ ExpireOtp(u) \/ ExpireReset(u)
      PROVE  CounterInv'
  <2>1. CASE Logout(u)
    <3>1. CounterAsBefore
      BY <2>1, <1>a DEF Logout, CounterAsBefore, StillLogin, LoginPCs, Account, Row, Free, EndSession, End
    <3> QED BY <3>1, CounterQuiet
  <2>2. CASE ForgotPassword(u)
    <3>1. CounterAsBefore
      BY <2>2, <1>a DEF ForgotPassword, CounterAsBefore, StillLogin, LoginPCs, Account, Row, Free
    <3> QED BY <3>1, CounterQuiet
  <2>3. CASE ResetUserPassword(u)
    <3>1. /\ Forget(u, At(LoginPCs, u)) /\ account'[u].fails = 0 /\ req' = req
          /\ account'[u].locked = FALSE
          /\ \A v \in Users \ {u} : account'[v].fails = account[v].fails
                                 /\ account'[v].locked = account[v].locked
      BY <2>3, <1>a DEF ResetUserPassword, Account
    <3>2. \A q \in Requests : req'[q].pc \in LoginPCs =>
            req'[q] = req[q] /\ (req[q].user = u => q \in At(LoginPCs, u))
      BY <3>1 DEF At
    <3> QED BY <3>1, <3>2, CounterForgets
  <2>4. CASE ExpireLock(u)
    BY <2>4, CounterExpires
  <2>5. CASE ExpireOtp(u)
    <3>1. CounterAsBefore
      BY <2>5, <1>a DEF ExpireOtp, CounterAsBefore, StillLogin, LoginPCs, Account, Row, Free, history
    <3> QED BY <3>1, CounterQuiet
  <2>6. CASE ExpireReset(u)
    <3>1. CounterAsBefore
      BY <2>6, <1>a DEF ExpireReset, CounterAsBefore, StillLogin, LoginPCs, Account, Row, Free, history
    <3> QED BY <3>1, CounterQuiet
  <2> QED BY <1>3, <2>1, <2>2, <2>3, <2>4, <2>5, <2>6
<1>4. CASE UNCHANGED vars
  BY <1>4 DEF vars, history, CounterInv, At
<1> QED BY <1>1, <1>2, <1>3, <1>4, NextKinds DEF RequestStep, BeginStep, OneCallStep

\* Every account whose logins and resets have not overlapped since its counter was
\* last set back is locked exactly from the last wrong password it allows until the
\* lock runs out or is taken away, whatever happens to the other accounts.
THEOREM LockoutIsExact == Spec => []LockoutExact
<1>1. Init => CounterInv
  BY AttemptsAssumption DEF Init, CounterInv, At, LoginPCs, Free
<1>2. WellTyped /\ CounterInv => LockoutExact
  BY WellTypedTypeOK DEF CounterInv, LockoutExact
<1> QED BY <1>1, <1>2, CounterStep, WellTypedHolds, PTL DEF Spec
-----------------------------------------------------------------------------
(* Codes *)

\* A code is stored once, if at all.
CodesApart ==
  \A u, v \in Users :
    /\ account[u].otp # NoCode =>
         account[u].otp # account[v].reset /\ (account[u].otp = account[v].otp => u = v)
    /\ account[u].reset # NoCode /\ account[u].reset = account[v].reset => u = v

\* A code a request has presented is stored at most where it was read, and no more
\* when its tokens are about to be stored.
CodesPresented ==
  \A r \in Requests : req[r].code # NoCode =>
    /\ req[r].pc \in {"otp.clear", "otp.store", "reset.store"}
    /\ \A u \in Users :
         /\ account[u].otp = req[r].code => req[r].pc = "otp.clear" /\ u = req[r].user
         /\ account[u].reset = req[r].code => req[r].pc = "reset.store" /\ u = req[r].user

\* Nobody can present a code that was accepted, and two requests none.
CodesSpent ==
  \A c \in Codes \ shared :
    /\ \A r, q \in Requests : req[r].code = c /\ req[q].code = c => r = q
    /\ \/ uses[c] = 0
       \/ /\ uses[c] = 1
          /\ \A u \in Users : c \notin {account[u].otp, account[u].reset}
          /\ \A r \in Requests : req[r].code # c

CodesOK == CodesApart /\ CodesPresented /\ CodesSpent

\* What a step may do without presenting, making or accepting a code.
SlotsShrink ==
  \A u \in Users : /\ account'[u].otp \in {account[u].otp, NoCode}
                   /\ account'[u].reset \in {account[u].reset, NoCode}

CodesAsBefore ==
  /\ SlotsShrink /\ uses' = uses /\ shared' = shared
  /\ \A r \in Requests :
       \/ req'[r].code = NoCode
       \/ req'[r].code = req[r].code /\ req'[r].pc = req[r].pc /\ req'[r].user = req[r].user

\* Such a step keeps CodesOK.
LEMMA CodesQuiet ==
  ASSUME CodesOK, CodesAsBefore, NoCode \notin Codes
  PROVE  CodesOK'
<1>1. CodesApart'
  BY DEF CodesOK, CodesApart, CodesAsBefore, SlotsShrink
<1>2. CodesPresented'
  BY DEF CodesOK, CodesPresented, CodesAsBefore, SlotsShrink
<1>3. CodesSpent'
  <2> SUFFICES ASSUME NEW c \in Codes \ shared'
               PROVE  /\ \A r, q \in Requests : req'[r].code = c /\ req'[q].code = c => r = q
                      /\ \/ uses'[c] = 0
                         \/ /\ uses'[c] = 1
                            /\ \A u \in Users : c \notin {account'[u].otp, account'[u].reset}
                            /\ \A r \in Requests : req'[r].code # c
    BY DEF CodesSpent
  <2>1. \A r \in Requests : req'[r].code = c => req[r].code = c
    BY DEF CodesAsBefore
  <2>2. \A u \in Users : c \in {account'[u].otp, account'[u].reset} =>
                           c \in {account[u].otp, account[u].reset}
    BY DEF CodesAsBefore, SlotsShrink
  <2>3. c \in Codes \ shared /\ uses' = uses
    BY DEF CodesAsBefore
  <2> QED BY <2>1, <2>2, <2>3 DEF CodesOK, CodesSpent
<1> QED BY <1>1, <1>2, <1>3 DEF CodesOK

\* A code that is in no place goes to one, as if it had not been used.
LEMMA CodesNew ==
  ASSUME WellTyped, CodesOK, NEW c \in NewCodes, NEW u \in Users,
         \/ account' = [account EXCEPT ![u].otp = c]
         \/ account' = [account EXCEPT ![u].reset = c],
         uses' = [uses EXCEPT ![c] = 0], shared' = shared \ {c},
         \A r \in Requests : req'[r].code = NoCode \/ req'[r] = req[r]
  PROVE  CodesOK'
<1>1. /\ c \in Codes /\ c # NoCode
      /\ \A v \in Users : account[v].otp # c /\ account[v].reset # c
      /\ \A r \in Requests : req[r].code # c
      /\ account \in [Users -> Account] /\ uses \in [Codes -> Nat]
  BY NoneAssumption DEF NewCodes, WellTyped, HistoryOK
<1>2. /\ \A v \in Users \ {u} : account'[v] = account[v]
      /\ \/ account'[u].otp = c /\ account'[u].reset = account[u].reset
         \/ account'[u].reset = c /\ account'[u].otp = account[u].otp
  BY <1>1 DEF Account
<1>3. \A r \in Requests : req'[r].code # c
  BY <1>1
<1>4. CodesApart'
  BY <1>1, <1>2 DEF CodesOK, CodesApart
<1>5. CodesPresented'
  BY <1>1, <1>2, <1>3 DEF CodesOK, CodesPresented
<1>6. CodesSpent'
  <2> SUFFICES ASSUME NEW d \in Codes \ shared'
               PROVE  /\ \A r, q \in Requests : req'[r].code = d /\ req'[q].code = d => r = q
                      /\ \/ uses'[d] = 0
                         \/ /\ uses'[d] = 1
                            /\ \A v \in Users : d \notin {account'[v].otp, account'[v].reset}
                            /\ \A r \in Requests : req'[r].code # d
    BY DEF CodesSpent
  <2>1. CASE d = c
    BY <1>1, <1>3, <2>1
  <2>2. CASE d # c
    <3>1. d \in Codes \ shared /\ uses'[d] = uses[d] /\ d # NoCode
      BY <1>1, <2>2, NoneAssumption
    <3>2. \A r \in Requests : req'[r].code = d => req[r].code = d
      BY <3>1
    <3>3. \A v \in Users : d \in {account'[v].otp, account'[v].reset} =>
                             d \in {account[v].otp, account[v].reset}
      BY <1>2, <2>2
    <3> QED BY <3>1, <3>2, <3>3 DEF CodesOK, CodesSpent
  <2> QED BY <2>1, <2>2
<1> QED BY <1>4, <1>5, <1>6 DEF CodesOK

\* A stored code is presented.
LEMMA CodesRead ==
  ASSUME WellTyped, CodesOK, NEW r \in Requests, NEW u \in Users, NEW c \in Codes,
         account' = account, uses' = uses, Present(c),
         \/ c = account[u].otp /\ Begin(r, u, "otp.clear", c)
         \/ c = account[u].reset /\ Begin(r, u, "reset.store", c)
  PROVE  CodesOK'
<1>1. req \in [Requests -> Row] /\ c # NoCode
  BY NoneAssumption DEF WellTyped
<1>2. /\ \A q \in Requests \ {r} : req'[q] = req[q]
      /\ req'[r].code = c /\ req'[r].user = u
      /\ \/ c = account[u].otp /\ req'[r].pc = "otp.clear"
         \/ c = account[u].reset /\ req'[r].pc = "reset.store"
  BY <1>1 DEF Begin
<1>3. /\ shared \subseteq shared'
      /\ c \notin shared' => \A q \in Requests : req[q].code # c
  BY DEF Present
<1>4. CodesApart'
  BY DEF CodesOK, CodesApart
<1>5. CodesPresented'
  BY <1>1, <1>2 DEF CodesOK, CodesPresented, CodesApart
<1>6. CodesSpent'
  BY <1>1, <1>2, <1>3 DEF CodesOK, CodesSpent
<1> QED BY <1>4, <1>5, <1>6 DEF CodesOK

\* A code is accepted by the request that has presented it, and is stored no more.
LEMMA CodesAccepted ==
  ASSUME WellTyped, CodesOK, SlotsShrink, NEW r \in Requests, Answer(r), shared' = shared,
         uses' = [uses EXCEPT ![req[r].code] = IF @ < 2 THEN @ + 1 ELSE @],
         \A u \in Users : req[r].code # NoCode => req[r].code \notin {account'[u].otp, account'[u].reset}
  PROVE  CodesOK'
<1>1. req \in [Requests -> Row] /\ uses \in [Codes -> Nat] /\ NoCode \notin Codes
  BY NoneAssumption DEF WellTyped, HistoryOK
<1>2. req'[r].code = NoCode /\ \A q \in Requests \ {r} : req'[q] = req[q]
  BY <1>1 DEF Answer, Free
<1>3. CodesApart' /\ CodesPresented'
  BY <1>2 DEF CodesOK, CodesApart, CodesPresented, SlotsShrink
<1>4. CodesSpent'
  <2> SUFFICES ASSUME NEW c \in Codes \ shared
               PROVE  /\ \A p, q \in Requests : req'[p].code = c /\ req'[q].code = c => p = q
                      /\ \/ uses'[c] = 0
                         \/ /\ uses'[c] = 1
                            /\ \A u \in Users : c \notin {account'[u].otp, account'[u].reset}
                            /\ \A q \in Requests : req'[q].code # c
    BY DEF CodesSpent
  <2>1. /\ \A p, q \in Requests : req[p].code = c /\ req[q].code = c => p = q
        /\ \/ uses[c] = 0
           \/ /\ uses[c] = 1
              /\ \A u \in Users : c \notin {account[u].otp, account[u].reset}
              /\ \A q \in Requests : req[q].code # c
    BY DEF CodesOK, CodesSpent
  <2>2. \A q \in Requests : req'[q].code = c => req[q].code = c /\ q # r
    BY <1>1, <1>2
  <2>3. \A u \in Users : c \in {account'[u].otp, account'[u].reset} =>
                           c \in {account[u].otp, account[u].reset}
    BY <1>1 DEF SlotsShrink
  <2>4. CASE c = req[r].code
    <3>1. uses[c] = 0 /\ uses'[c] = 1
      BY <1>1, <2>1, <2>4
    <3> QED BY <1>1, <2>1, <2>2, <2>4, <3>1
  <2>5. CASE c # req[r].code
    <3>1. uses'[c] = uses[c]
      BY <1>1, <2>5
    <3> QED BY <2>1, <2>2, <2>3, <3>1
  <2> QED BY <2>4, <2>5
<1> QED BY <1>3, <1>4 DEF CodesOK

\* A request that holds no code and goes on, is answered or fails.
LEMMA CodesStepOn ==
  ASSUME WellTyped, CodesOK, SlotsShrink, NEW r \in Requests, uses' = uses, shared' = shared,
         \/ Answer(r)
         \/ (req[r].pc \notin {"otp.clear", "otp.store", "reset.store"} /\ \E pc : Continue(r, pc))
  PROVE  CodesOK'
<1>1. req \in [Requests -> Row]
  BY DEF WellTyped
<1>2. /\ \A q \in Requests \ {r} : req'[q] = req[q]
      /\ req'[r].code = NoCode
  BY <1>1 DEF Answer, Free, Continue, CodesOK, CodesPresented, Row
<1>3. CodesAsBefore
  BY <1>2 DEF CodesAsBefore
<1> QED BY <1>3, CodesQuiet, NoneAssumption

\* A request after it began.
LEMMA CodesRequest ==
  ASSUME WellTyped, CodesOK, RequestStep
  PROVE  CodesOK'
<1>a. account \in [Users -> Account] /\ req \in [Requests -> Row]
  BY DEF WellTyped
<1>1. ASSUME NEW r \in Requests,
             \/ LoginApprove(r) \/ LoginFail(r) \/ LoginReset(r)
             \/ RefreshStore(r) \/ RefreshRevoke(r) \/ ChangeStore(r) \/ Fail(r)
      PROVE  CodesOK'
  <2>1. uses' = uses /\ shared' = shared
    BY <1>1 DEF LoginApprove, LoginFail, LoginReset, RefreshStore, RefreshRevoke, ChangeStore,
                Fail, history
  <2>2. \/ Answer(r)
        \/ (req[r].pc \notin {"otp.clear", "otp.store", "reset.store"} /\ \E pc : Continue(r, pc))
    BY <1>1 DEF LoginApprove, LoginFail, LoginReset, RefreshStore, RefreshRevoke, ChangeStore, Fail
  <2>3. SlotsShrink
    <3>1. CASE LoginApprove(r)
      BY <1>a, <3>1 DEF LoginApprove, SlotsShrink, Account
    <3>2. CASE LoginFail(r)
      <4>1. \/ account' = [account EXCEPT ![req[r].user].locked = TRUE, ![req[r].user].fails = 0]
            \/ account' = [account EXCEPT ![req[r].user].fails = req[r].fails + 1]
        BY <3>2 DEF LoginFail
      <4> QED BY <1>a, <4>1 DEF SlotsShrink, Account
    <3>3. CASE LoginReset(r)
      BY <1>a, <3>3 DEF LoginReset, SlotsShrink, Account
    <3>4. CASE RefreshStore(r)
      BY <1>a, <3>4 DEF RefreshStore, SlotsShrink, Account
    <3>5. CASE RefreshRevoke(r) \/ ChangeStore(r)
      BY <1>a, <3>5 DEF RefreshRevoke, ChangeStore, EndSession, SlotsShrink, Account
    <3>6. CASE Fail(r)
      BY <1>a, <3>6 DEF Fail, SlotsShrink
    <3> QED BY <1>1, <3>1, <3>2, <3>3, <3>4, <3>5, <3>6
  <2> QED BY <2>1, <2>2, <2>3, CodesStepOn
<1>2. ASSUME NEW r \in Requests, LoginOtp(r) PROVE CodesOK'
  <2>1. PICK c \in NewCodes :
          /\ account' = [account EXCEPT ![req[r].user].otp = c]
          /\ uses' = [uses EXCEPT ![c] = 0] /\ shared' = shared \ {c}
    BY <1>2, NewCode DEF LoginOtp
  <2>2. req[r].user \in Users
    BY <1>2, <1>a DEF LoginOtp, Row
  <2>3. \A q \in Requests : req'[q].code = NoCode \/ req'[q] = req[q]
    BY <1>2, <1>a DEF LoginOtp, Answer, Free
  <2>4. PICK u \in Users : u = req[r].user
    BY <2>2
  <2> QED BY <2>1, <2>3, <2>4, CodesNew
<1>3. ASSUME NEW r \in Requests, VerifyClear(r) PROVE CodesOK'
  <2>1. /\ req[r].user \in Users /\ req[r].pc = "otp.clear"
        /\ account' = [account EXCEPT ![req[r].user].otp = NoCode]
        /\ req' = [req EXCEPT ![r].pc = "otp.store"] /\ uses' = uses /\ shared' = shared
    BY <1>3, <1>a DEF VerifyClear, Continue, Row, history
  <2>2. /\ SlotsShrink /\ account'[req[r].user].otp = NoCode
        /\ \A u \in Users : account'[u].reset = account[u].reset
    BY <1>a, <2>1 DEF SlotsShrink, Account
  <2>3. /\ \A q \in Requests \ {r} : req'[q] = req[q]
        /\ req'[r].code = req[r].code /\ req'[r].pc = "otp.store" /\ req'[r].user = req[r].user
    BY <1>a, <2>1 DEF Row
  <2>4. CodesApart'
    BY <2>2 DEF CodesOK, CodesApart, SlotsShrink
  <2>5. CodesPresented'
    BY <2>1, <2>2, <2>3 DEF CodesOK, CodesPresented, SlotsShrink
  <2>6. CodesSpent'
    <3>1. \A q \in Requests : req'[q].code = req[q].code
      BY <2>3
    <3>2. \A c \in Codes, u \in Users : c \in {account'[u].otp, account'[u].reset} =>
                                        c \in {account[u].otp, account[u].reset}
      BY <2>2, NoneAssumption DEF SlotsShrink
    <3> QED BY <2>1, <3>1, <3>2 DEF CodesOK, CodesSpent
  <2> QED BY <2>4, <2>5, <2>6 DEF CodesOK
<1>4. ASSUME NEW r \in Requests, VerifyStore(r) PROVE CodesOK'
  <2>1. SlotsShrink /\ \A u \in Users : account'[u].otp = account[u].otp
                                        /\ account'[u].reset = account[u].reset
    BY <1>4, <1>a DEF VerifyStore, SlotsShrink, Account
  <2>2. \A u \in Users : req[r].code # NoCode =>
          req[r].code \notin {account'[u].otp, account'[u].reset}
    BY <1>4, <2>1 DEF VerifyStore, CodesOK, CodesPresented
  <2> QED BY <1>4, <2>1, <2>2, CodesAccepted DEF VerifyStore
<1>5. ASSUME NEW r \in Requests, ResetStore(r) PROVE CodesOK'
  <2>1. /\ SlotsShrink /\ account'[req[r].user].reset = NoCode
        /\ \A u \in Users : account'[u].otp = account[u].otp
        /\ \A u \in Users \ {req[r].user} : account'[u] = account[u]
    BY <1>5, <1>a DEF ResetStore, SlotsShrink, Account, Row
  <2>2. \A u \in Users : req[r].code # NoCode =>
          req[r].code \notin {account'[u].otp, account'[u].reset}
    <3> SUFFICES ASSUME NEW u \in Users, req[r].code # NoCode
                 PROVE  req[r].code # account'[u].otp /\ req[r].code # account'[u].reset
      OBVIOUS
    <3>1. /\ req[r].code # account[u].otp
          /\ req[r].code = account[u].reset => u = req[r].user
      BY <1>5 DEF ResetStore, CodesOK, CodesPresented
    <3> QED BY <2>1, <3>1
  <2>3. /\ Answer(r) /\ shared' = shared
        /\ uses' = [uses EXCEPT ![req[r].code] = IF @ < 2 THEN @ + 1 ELSE @]
    BY <1>5 DEF ResetStore
  <2> QED BY <2>1, <2>2, <2>3, CodesAccepted
<1> QED BY <1>1, <1>2, <1>3, <1>4, <1>5 DEF RequestStep

\* A request begins.
LEMMA CodesBegin ==
  ASSUME WellTyped, CodesOK, BeginStep
  PROVE  CodesOK'
<1>a. account \in [Users -> Account] /\ req \in [Requests -> Row] /\ NoCode \notin Codes
  BY NoneAssumption DEF WellTyped
<1>1. ASSUME NEW r \in Requests, NEW u \in Users,
             \/ LoginRead(r, u) \/ LoginUnapproved(r, u) \/ RefreshRead(r, u) \/ ChangeRead(r, u)
      PROVE  CodesOK'
  <2>1. /\ account' = account /\ uses' = uses /\ shared' = shared
        /\ \E pc : Begin(r, u, pc, NoCode)
    BY <1>1 DEF LoginRead, LoginUnapproved, RefreshRead, ChangeRead, BeginLogin, history
  <2>2. CodesAsBefore
    BY <1>a, <2>1 DEF Begin, CodesAsBefore, SlotsShrink
  <2> QED BY <1>a, <2>2, CodesQuiet
<1>2. ASSUME NEW r \in Requests, NEW u \in Users, VerifyRead(r, u) PROVE CodesOK'
  <2>1. account[u].otp \in Codes
    BY <1>2, <1>a DEF VerifyRead, Account
  <2> QED BY <1>2, <2>1, CodesRead DEF VerifyRead
<1>3. ASSUME NEW r \in Requests, NEW u \in Users, ResetRead(r, u) PROVE CodesOK'
  <2>1. account[u].reset \in Codes
    BY <1>3, <1>a DEF ResetRead, Account
  <2> QED BY <1>3, <2>1, CodesRead DEF ResetRead
<1> QED BY <1>1, <1>2, <1>3 DEF BeginStep

\* A handler of one call, or time.
LEMMA CodesOneCall ==
  ASSUME WellTyped, CodesOK, OneCallStep
  PROVE  CodesOK'
<1>a. account \in [Users -> Account] /\ NoCode \notin Codes
  BY NoneAssumption DEF WellTyped
<1>1. ASSUME NEW u \in Users,
             \/ Logout(u) \/ ResetUserPassword(u) \/ ExpireLock(u) \/ ExpireOtp(u) \/ ExpireReset(u)
      PROVE  CodesOK'
  <2>1. req' = req /\ uses' = uses /\ shared' = shared
    BY <1>1 DEF Logout, ResetUserPassword, ExpireLock, ExpireOtp, ExpireReset, history
  <2>2. SlotsShrink
    <3>1. CASE Logout(u)
      BY <1>a, <3>1 DEF Logout, EndSession, SlotsShrink, Account
    <3>2. CASE ResetUserPassword(u)
      BY <1>a, <3>2 DEF ResetUserPassword, SlotsShrink, Account
    <3>3. CASE ExpireLock(u)
      BY <1>a, <3>3 DEF ExpireLock, SlotsShrink, Account
    <3>4. CASE ExpireOtp(u)
      BY <1>a, <3>4 DEF ExpireOtp, SlotsShrink, Account
    <3>5. CASE ExpireReset(u)
      BY <1>a, <3>5 DEF ExpireReset, SlotsShrink, Account
    <3> QED BY <1>1, <3>1, <3>2, <3>3, <3>4, <3>5
  <2>3. CodesAsBefore
    BY <2>1, <2>2 DEF CodesAsBefore
  <2> QED BY <1>a, <2>3, CodesQuiet
<1>2. ASSUME NEW u \in Users, ForgotPassword(u) PROVE CodesOK'
  <2>1. PICK c \in NewCodes :
          /\ account' = [account EXCEPT ![u].reset = c]
          /\ uses' = [uses EXCEPT ![c] = 0] /\ shared' = shared \ {c}
    BY <1>2, NewCode DEF ForgotPassword
  <2>2. \A q \in Requests : req'[q].code = NoCode \/ req'[q] = req[q]
    BY <1>2 DEF ForgotPassword
  <2> QED BY <2>1, <2>2, CodesNew
<1> QED BY <1>1, <1>2 DEF OneCallStep

\* verifyOtp clears the code before it stores tokens, resetPassword as it stores the
\* password: a code is accepted a second time only when requests that overlap had
\* both read it, and every code is drawn anew.
THEOREM CodesOnce == Spec => []CodesUsedOnce
<1>1. Init => CodesOK
  BY NoneAssumption DEF Init, CodesOK, CodesApart, CodesPresented, CodesSpent, Free
<1>2. WellTyped /\ CodesOK /\ [Next]_vars => CodesOK'
  <2>1. CodesOK /\ UNCHANGED vars => CodesOK'
    BY DEF vars, history, CodesOK, CodesApart, CodesPresented, CodesSpent
  <2> QED BY <2>1, NextKinds, CodesRequest, CodesBegin, CodesOneCall
<1>3. WellTyped /\ CodesOK => CodesUsedOnce
  BY DEF CodesOK, CodesSpent, CodesUsedOnce, WellTyped, HistoryOK
<1> QED BY <1>1, <1>2, <1>3, WellTypedHolds, PTL DEF Spec
=============================================================================
