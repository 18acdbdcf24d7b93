--------------------------- MODULE DirectoryProofs ---------------------------
(***************************************************************************)
(* Theorems about Directory, for any sets of accounts, rows and requests,  *)
(* and for behaviours about any mix of topics.                             *)
(***************************************************************************)
EXTENDS Directory, FiniteSetTheorems, SequenceTheorems, TLAPS

-----------------------------------------------------------------------------
(* The inductive invariant: NamesExist, and why; what each request has made *)
(* sure of; and who is checking in.                                         *)

PeopleOK ==
  /\ accounts \in PartialMap(Users, Account)
  /\ Person \subseteq born
  /\ \A u, v \in Person : accounts[u].email = accounts[v].email => u = v
  /\ \A u \in Person : ~ CodeTaken(accounts[u].code, u)

TasksOK ==
  \A t \in DOMAIN tasks : tasks[t] \in [assignee : Person \cup {Nobody},
                                        allotter : Person \cup {Nobody}]

TeamsOK ==
  /\ DOMAIN teams \subseteq Teams
  /\ \A g \in DOMAIN teams : ~ NameTaken(teams[g].name, g)
  /\ \A g \in DOMAIN teams : teams[g] \in [name : TeamNames, manager : Person \cup {Nobody},
                                          members : SUBSET Person]

DevicesOK ==
  /\ \A d \in DOMAIN devices : devices[d] \in [user : Person, revoked : BOOLEAN]
  /\ DOMAIN devices \subseteq born

\* The rows that keep an account.
DaysOK ==
  /\ today \in [Users -> Seq(BOOLEAN)]
  /\ projections \subseteq [employee : Person, creator : Person]
  /\ \A u \in Users : Restricted(u) => u \in Person

RowsOK == TasksOK /\ TeamsOK /\ DevicesOK

\* What a request that has come to a step holds.
FieldsOK(x) ==
  /\ x.op = "free" => x = Free
  /\ x.op \in {"register.code", "register.store"} =>
       x.user = Nobody /\ x.key \in Emails /\ x.code \in Empcodes \cup {NoCode}
  /\ x.op \in {"profile.code", "profile.store"} =>
       x.user \in Users /\ x.key \in Emails /\ x.code \in Empcodes \cup {NoCode}
  /\ x.op \in {"empcode.code", "empcode.store"} => x.user \in Users
  /\ x.op \in {"remove.unassign", "remove.delete"} => x.user \in Users
  /\ x.op = "team.create" => x.key \in TeamNames /\ x.target = None
  /\ x.op = "team.update" => x.key \in TeamNames \cup {None} /\ x.target \in Teams
  /\ x.op \in {"device.user", "device.sign"} =>
       x.user \in Users /\ x.user \in born /\ x.target \in born
  /\ x.op = "attend.in" => x.user \in Users
  /\ x.op = "attend.out" => x.user \in Users /\ x.target \in DOMAIN today[x.user]

RequestsOK ==
  /\ req \in [Requests -> Request]
  /\ \A r \in Requests : FieldsOK(req[r])

\* What it has looked up, unless a write has overtaken it.
LookedAt(x) ==
  ~ x.behind =>
    /\ x.op \in {"register.code", "register.store", "profile.code", "profile.store"} =>
         ~ EmailTaken(x.key, x.user)
    /\ x.op \in {"register.store", "profile.store", "empcode.store"} /\ x.code # Blank =>
         ~ CodeTaken(x.code, x.user)
    /\ x.op \in {"team.create", "team.update"} => ~ NameTaken(x.key, x.target)

LookedOK == \A r \in Requests : LookedAt(req[r])

\* What a sign-in has read of the device and of the account.
SignedAt(x) ==
  /\ x.op \in {"device.user", "device.sign"} /\ x.target \in DOMAIN devices =>
       /\ devices[x.target].user = x.user
       /\ devices[x.target].revoked => x.behind
  /\ x.op = "device.sign" /\ x.user \in Person => accounts[x.user].active

SigningOK == \A r \in Requests : SignedAt(req[r])

Attending(u) == {r \in Requests : req[r].op = "attend.in" /\ req[r].user = u}

\* The record of a check-in under way is the first, unless check-ins overlapped; and
\* there are no more records of a day than requests can have overlapped.
OnceOK ==
  \A u \in Users :
    /\ Len(today[u]) > 1 => u \in doubled
    /\ \A r, q \in Attending(u) : r = q \/ u \in doubled
    /\ Attending(u) # {} /\ Len(today[u]) > 0 => u \in doubled
    /\ Len(today[u]) + Cardinality(Attending(u)) <= Cardinality(Requests)

IInv ==
  PeopleOK /\ RowsOK /\ DaysOK /\ RequestsOK /\ LookedOK /\ SigningOK /\ OnceOK

-----------------------------------------------------------------------------
(* Requests that go on unchanged, are answered, or are overtaken.          *)

Overtaken(x) == [x EXCEPT !.behind = TRUE]

\* No request begins or goes on.
NoneGoesOn ==
  /\ req' \in [Requests -> Request]
  /\ \A q \in Requests :
       \/ req'[q] \in {req[q], Free}
       \/ req[q].op # "free" /\ req'[q] = Overtaken(req[q])

\* Nobody has taken a key, or a new name.
NoTakers ==
  /\ \A u \in Person' : u \in Person /\ accounts'[u].email = accounts[u].email
                        /\ accounts'[u].code = accounts[u].code
  /\ \A g \in DOMAIN teams' : g \in DOMAIN teams /\ teams'[g].name = teams[g].name

\* No account known to a request is made, or made inactive, and no device changed.
SameSignIns ==
  /\ \A u \in Person' \cap born : u \in Person /\ (accounts[u].active => accounts'[u].active)
  /\ \A d \in DOMAIN devices' \cap born : d \in DOMAIN devices /\ devices'[d] = devices[d]

\* What is a request's target on the day is still there.
SameDays == \A u \in Users : DOMAIN today[u] \subseteq DOMAIN today'[u]

LEMMA FreeFacts ==
  /\ Free \in Request /\ Free.op = "free" /\ ~ Free.behind /\ FieldsOK(Free)
  /\ Free.user = Nobody /\ Free.key = None /\ Free.code = NoCode /\ Free.target = None
BY DEF Free, Request, Steps, Code, FieldsOK

LEMMA OvertakenFacts ==
  ASSUME NEW x \in Request
  PROVE  /\ Overtaken(x) \in Request /\ Overtaken(x).behind
         /\ Overtaken(x).op = x.op /\ Overtaken(x).user = x.user /\ Overtaken(x).key = x.key
         /\ Overtaken(x).code = x.code /\ Overtaken(x).target = x.target
         /\ x.op = "free" /\ x = Free => Overtaken(x).op = "free"
BY DEF Overtaken, Request

\* Fields stay as they should be.
LEMMA FieldsKept ==
  ASSUME NEW x \in Request, FieldsOK(x), born \subseteq born', SameDays
  PROVE  FieldsOK(x)'
BY DEF FieldsOK, SameDays

LEMMA FieldsOvertaken ==
  ASSUME NEW x \in Request, FieldsOK(x), x.op # "free"
  PROVE  FieldsOK(Overtaken(x))
BY OvertakenFacts DEF FieldsOK

\* Looks stay good while nobody takes a key.
LEMMA LookedKept ==
  ASSUME NEW x \in Request, LookedAt(x), NoTakers
  PROVE  LookedAt(x)'
BY DEF LookedAt, NoTakers, EmailTaken, CodeTaken, NameTaken

LEMMA SignedKept ==
  ASSUME NEW x \in Request, FieldsOK(x), SignedAt(x), SameSignIns
  PROVE  SignedAt(x)'
BY DEF FieldsOK, SignedAt, SameSignIns

\* So the requests are in order.
LEMMA RequestsKept ==
  ASSUME RequestsOK, NoneGoesOn, born \subseteq born', SameDays
  PROVE  RequestsOK'
<1> SUFFICES ASSUME NEW q \in Requests PROVE FieldsOK(req[q])'
  BY DEF RequestsOK, NoneGoesOn
<1>1. req[q] \in Request /\ FieldsOK(req[q])
  BY DEF RequestsOK
<1>2. PICK x \in Request : x = req'[q] /\ FieldsOK(x)
  BY <1>1, OvertakenFacts, FieldsOvertaken, FreeFacts DEF NoneGoesOn
<1>3. FieldsOK(x)'
  BY <1>2, FieldsKept
<1> QED BY <1>2, <1>3 DEF FieldsOK

LEMMA AllLookedKept ==
  ASSUME RequestsOK, LookedOK, NoTakers, \A q \in Requests : req'[q] \in {req[q], Free}
  PROVE  LookedOK'
<1> SUFFICES ASSUME NEW q \in Requests PROVE LookedAt(req[q])'
  BY DEF LookedOK
<1>1. req[q] \in Request /\ LookedAt(req[q])
  BY DEF RequestsOK, LookedOK
<1>2. PICK x \in Request : x = req'[q] /\ LookedAt(x)
  BY <1>1, FreeFacts DEF LookedAt
<1>3. LookedAt(x)'
  BY <1>2, LookedKept
<1> QED BY <1>2, <1>3 DEF LookedAt

\* Nobody has looked who was not overtaken.
LEMMA OvertakenLooked ==
  ASSUME RequestsOK, NEW r \in Requests, AnswerAhead(r)
  PROVE  NoneGoesOn /\ LookedOK'
<1>1. \A q \in Requests : req[q] \in Request
  BY DEF RequestsOK
<1>2. /\ req' \in [Requests -> Request]
      /\ \A q \in Requests :
           req'[q] = Free \/ (req[q].op # "free" /\ req'[q] = Overtaken(req[q]))
  BY <1>1, OvertakenFacts, FreeFacts DEF AnswerAhead, Overtaken
<1>3. \A q \in Requests : req'[q].op = "free" \/ req'[q].behind
  BY <1>1, <1>2, OvertakenFacts, FreeFacts
<1> QED BY <1>2, <1>3 DEF NoneGoesOn, LookedOK, LookedAt

LEMMA AllSignedKept ==
  ASSUME RequestsOK, SigningOK, NoneGoesOn, SameSignIns
  PROVE  SigningOK'
<1> SUFFICES ASSUME NEW q \in Requests PROVE SignedAt(req[q])'
  BY DEF SigningOK
<1>1. req[q] \in Request /\ SignedAt(req[q]) /\ FieldsOK(req[q])
  BY DEF RequestsOK, SigningOK
<1>2. PICK x \in Request : x = req'[q] /\ SignedAt(x) /\ FieldsOK(x)
  BY <1>1, FreeFacts, OvertakenFacts, FieldsOvertaken DEF NoneGoesOn, SignedAt
<1>3. SignedAt(x)'
  BY <1>2, SignedKept
<1> QED BY <1>2, <1>3 DEF SignedAt

\* Check-ins that are not begun, and records that are not written, keep the count.
LEMMA OnceKept ==
  ASSUME OnceOK, RequestsOK, today \in [Users -> Seq(BOOLEAN)],
         \A u \in Users : Len(today'[u]) = Len(today[u]),
         \A q \in Requests : req'[q].op = "attend.in" =>
           req[q].op = "attend.in" /\ req'[q].user = req[q].user,
         doubled' = doubled
  PROVE  OnceOK'
<1> SUFFICES ASSUME NEW u \in Users
             PROVE  /\ Len(today'[u]) > 1 => u \in doubled
                    /\ \A r, q \in Attending(u)' : r = q \/ u \in doubled
                    /\ Attending(u)' # {} /\ Len(today'[u]) > 0 => u \in doubled
                    /\ Len(today'[u]) + Cardinality(Attending(u)') <= Cardinality(Requests)
  BY DEF OnceOK
<1>1. Attending(u)' \subseteq Attending(u) /\ Attending(u) \subseteq Requests
  BY DEF Attending
<1>2. /\ Cardinality(Attending(u)') <= Cardinality(Attending(u))
      /\ Cardinality(Attending(u)') \in Nat /\ Cardinality(Attending(u)) \in Nat
      /\ Cardinality(Requests) \in Nat
  <2>1. IsFiniteSet(Attending(u)) /\ IsFiniteSet(Attending(u)')
    BY <1>1, SmallAssumption, FS_Subset
  <2> QED BY <1>1, <2>1, SmallAssumption, FS_Subset, FS_CardinalityType
<1>3. Len(today[u]) \in Nat
  BY LenProperties
<1> QED BY <1>1, <1>2, <1>3 DEF OnceOK

\* The check-ins under way, when none begins.
LEMMA NoneAttends ==
  ASSUME RequestsOK, NoneGoesOn
  PROVE  \A q \in Requests : req'[q].op = "attend.in" =>
           req[q].op = "attend.in" /\ req'[q].user = req[q].user
BY FreeFacts, OvertakenFacts DEF RequestsOK, NoneGoesOn

-----------------------------------------------------------------------------
(* Requests that begin, look, and go on.                                   *)

rows == <<accounts, born, tasks, teams, devices, today, kept, projections>>

\* A request that goes on with what it holds in order; tasks may change.
LEMMA OneGoesOnWithTasks ==
  ASSUME IInv, NEW r \in Requests, NEW x \in Request, req' = [req EXCEPT ![r] = x],
         UNCHANGED <<accounts, born, teams, devices, today, kept, projections, doubled>>, TasksOK',
         FieldsOK(x), LookedAt(x), SignedAt(x), x.op # "attend.in"
  PROVE  IInv'
<1>1. PeopleOK' /\ RowsOK' /\ DaysOK'
  BY DEF IInv, PeopleOK, RowsOK, DaysOK, TeamsOK, DevicesOK, Person, EmailTaken,
         CodeTaken, NameTaken, Restricted
<1>2. req \in [Requests -> Request] /\ RequestsOK
  BY DEF IInv, RequestsOK
<1>3. req'[r] = x /\ \A q \in Requests \ {r} : req'[q] = req[q]
  BY <1>2
<1>4. RequestsOK'
  <2>1. \A q \in Requests : FieldsOK(req'[q])
    BY <1>2, <1>3 DEF RequestsOK
  <2> QED BY <1>2, <2>1 DEF RequestsOK, FieldsOK
<1>5. LookedOK'
  <2>1. \A q \in Requests : LookedAt(req'[q])
    BY <1>3 DEF IInv, LookedOK
  <2> QED BY <2>1 DEF LookedOK, LookedAt, EmailTaken, CodeTaken, NameTaken, Person
<1>6. SigningOK'
  <2>1. \A q \in Requests : SignedAt(req'[q])
    BY <1>3 DEF IInv, SigningOK
  <2> QED BY <2>1 DEF SigningOK, SignedAt, Person
<1>7. OnceOK'
  <2>1. \A q \in Requests : req'[q].op = "attend.in" =>
          req[q].op = "attend.in" /\ req'[q].user = req[q].user
    BY <1>3
  <2> QED BY <1>2, <2>1, OnceKept DEF IInv, DaysOK
<1> QED BY <1>1, <1>4, <1>5, <1>6, <1>7 DEF IInv

\* Nothing else does.
LEMMA OneGoesOn ==
  ASSUME IInv, NEW r \in Requests, NEW x \in Request, req' = [req EXCEPT ![r] = x],
         UNCHANGED rows, UNCHANGED doubled,
         FieldsOK(x), LookedAt(x), SignedAt(x), x.op # "attend.in"
  PROVE  IInv'
<1>1. TasksOK'
  BY DEF IInv, RowsOK, TasksOK, rows, Person
<1> QED BY <1>1, OneGoesOnWithTasks DEF rows

\* A request that is answered, and has written nothing.
LEMMA OneAnswered ==
  ASSUME IInv, NEW r \in Requests, Answer(r), UNCHANGED rows, UNCHANGED doubled
  PROVE  IInv'
<1>1. FieldsOK(Free) /\ LookedAt(Free) /\ SignedAt(Free) /\ Free.op # "attend.in"
  BY FreeFacts DEF LookedAt, SignedAt
<1> QED BY <1>1, FreeFacts, OneGoesOn DEF Answer

\* A request's next step holds what the last one held.
LEMMA NextStepFields ==
  ASSUME NEW x \in Request, NEW op \in Steps, NEW y, y = [x EXCEPT !.op = op]
  PROVE  /\ y \in Request /\ y.op = op /\ y.user = x.user /\ y.key = x.key
         /\ y.code = x.code /\ y.target = x.target /\ y.behind = x.behind
BY DEF Request

LEMMA CheckCodeStep ==
  ASSUME IInv, NEW r \in Requests, CheckCode(r)
  PROVE  IInv'
<1>1. UNCHANGED rows /\ UNCHANGED doubled
  BY DEF CheckCode, Directed, rows
<1>2. req[r] \in Request /\ FieldsOK(req[r]) /\ LookedAt(req[r]) /\ req \in [Requests -> Request]
  BY DEF IInv, RequestsOK, LookedOK
<1>3. CASE Answer(r)
  BY <1>1, <1>3, OneAnswered
<1>4. CASE ~ CodeTaken(req[r].code, req[r].user) /\ Continue(r, Checked(req[r].op))
  <2> DEFINE op == Checked(req[r].op)
             x == [req[r] EXCEPT !.op = op]
  <2>1. req[r].op \in {"register.code", "profile.code", "empcode.code"}
    BY DEF CheckCode
  <2>2. /\ op \in Steps
        /\ \/ req[r].op = "register.code" /\ op = "register.store"
           \/ req[r].op = "profile.code" /\ op = "profile.store"
           \/ req[r].op = "empcode.code" /\ op = "empcode.store"
    BY <2>1 DEF Checked, Steps
  <2> HIDE DEF op
  <2>3. /\ x \in Request /\ x.op = op /\ x.user = req[r].user /\ x.key = req[r].key
        /\ x.code = req[r].code /\ x.target = req[r].target /\ x.behind = req[r].behind
    BY <1>2, <2>2, NextStepFields
  <2>4. req' = [req EXCEPT ![r] = x]
    BY <1>4 DEF Continue, op
  <2> HIDE DEF x
  <2>5. FieldsOK(x)
    BY <1>2, <2>2, <2>3 DEF FieldsOK
  <2>6. LookedAt(x)
    BY <1>2, <1>4, <2>2, <2>3 DEF LookedAt
  <2>7. SignedAt(x) /\ x.op # "attend.in"
    BY <2>2, <2>3 DEF SignedAt
  <2> QED BY <1>1, <2>3, <2>4, <2>5, <2>6, <2>7, OneGoesOn
<1> QED BY <1>3, <1>4 DEF CheckCode

LEMMA AccountAsked ==
  ASSUME IInv, NEW r \in Requests,
         \/ Register(r)
         \/ \E u \in Users : UpdateProfile(r, u) \/ SetEmpcode(r, u) \/ RemoveUser(r, u)
  PROVE  IInv'
<1>1. UNCHANGED rows /\ UNCHANGED doubled
  BY DEF Register, UpdateProfile, SetEmpcode, RemoveUser, Directed, rows
<1>3. CASE Register(r)
  <2>1. PICK e \in Emails, c \in Empcodes \cup {NoCode} :
          /\ ~ EmailTaken(e, Nobody)
          /\ Begin(r, [Free EXCEPT !.op = "register.code", !.key = e, !.code = c])
    BY <1>3 DEF Register
  <2> DEFINE x == [Free EXCEPT !.op = "register.code", !.key = e, !.code = c]
  <2>2. req' = [req EXCEPT ![r] = x]
    BY <2>1 DEF Begin
  <2> HIDE DEF x
  <2>3. /\ x \in Request /\ x.op = "register.code" /\ x.user = Nobody /\ x.key = e
        /\ x.code = c
    BY DEF Free, Request, Steps, Code, x
  <2>4. FieldsOK(x) /\ LookedAt(x) /\ SignedAt(x)
    BY <2>1, <2>3 DEF FieldsOK, LookedAt, SignedAt
  <2> QED BY <1>1, <2>2, <2>3, <2>4, OneGoesOn
<1>4. ASSUME NEW u \in Users, UpdateProfile(r, u) PROVE IInv'
  <2>1. PICK e \in Emails, c \in Empcodes \cup {NoCode} :
          /\ ~ EmailTaken(e, u)
          /\ Begin(r, [Free EXCEPT !.op = "profile.code", !.user = u, !.key = e, !.code = c])
    BY <1>4 DEF UpdateProfile
  <2> DEFINE x == [Free EXCEPT !.op = "profile.code", !.user = u, !.key = e, !.code = c]
  <2>2. req' = [req EXCEPT ![r] = x]
    BY <2>1 DEF Begin
  <2> HIDE DEF x
  <2>3. x \in Request /\ x.op = "profile.code" /\ x.user = u /\ x.key = e /\ x.code = c
    BY DEF Free, Request, Steps, Code, x
  <2>4. FieldsOK(x) /\ LookedAt(x) /\ SignedAt(x)
    BY <2>1, <2>3 DEF FieldsOK, LookedAt, SignedAt
  <2> QED BY <1>1, <2>2, <2>3, <2>4, OneGoesOn
<1>5. ASSUME NEW u \in Users, SetEmpcode(r, u) PROVE IInv'
  <2>1. PICK c \in Code :
          Begin(r, [Free EXCEPT !.op = IF c \in {Blank, NoCode} THEN "empcode.store" ELSE "empcode.code",
                                !.user = u, !.code = c])
    BY <1>5 DEF SetEmpcode
  <2> DEFINE op == IF c \in {Blank, NoCode} THEN "empcode.store" ELSE "empcode.code"
             x == [Free EXCEPT !.op = op, !.user = u, !.code = c]
  <2>2. req' = [req EXCEPT ![r] = x]
    BY <2>1 DEF Begin
  <2> HIDE DEF x
  <2>3. x \in Request /\ x.op = op /\ x.user = u /\ x.code = c
    BY DEF Free, Request, Steps, x
  <2>4. FieldsOK(x) /\ LookedAt(x) /\ SignedAt(x) /\ x.op # "attend.in"
    BY <2>3 DEF FieldsOK, LookedAt, SignedAt, CodeTaken
  <2> QED BY <1>1, <2>2, <2>3, <2>4, OneGoesOn
<1>6. ASSUME NEW u \in Users, RemoveUser(r, u) PROVE IInv'
  <2> DEFINE x == [Free EXCEPT !.op = "remove.unassign", !.user = u]
  <2>2. req' = [req EXCEPT ![r] = x]
    BY <1>6 DEF RemoveUser, Begin
  <2> HIDE DEF x
  <2>3. x \in Request /\ x.op = "remove.unassign" /\ x.user = u
    BY DEF Free, Request, Steps, Code, x
  <2>4. FieldsOK(x) /\ LookedAt(x) /\ SignedAt(x)
    BY <2>3 DEF FieldsOK, LookedAt, SignedAt
  <2> QED BY <1>1, <2>2, <2>3, <2>4, OneGoesOn
<1> QED BY <1>3, <1>4, <1>5, <1>6

LEMMA TeamAsked ==
  ASSUME IInv, NEW r \in Requests, CreateTeam(r) \/ \E g \in Teams : UpdateTeam(r, g)
  PROVE  IInv'
<1>1. UNCHANGED rows /\ UNCHANGED doubled
  BY DEF CreateTeam, UpdateTeam, Directed, rows
<1>2. CASE CreateTeam(r)
  <2>1. PICK n \in TeamNames :
          ~ NameTaken(n, None) /\ Begin(r, [Free EXCEPT !.op = "team.create", !.key = n])
    BY <1>2 DEF CreateTeam
  <2> DEFINE x == [Free EXCEPT !.op = "team.create", !.key = n]
  <2>2. req' = [req EXCEPT ![r] = x]
    BY <2>1 DEF Begin
  <2>3. x \in Request /\ x.op = "team.create" /\ x.key = n /\ x.target = None
    BY DEF Free, Request, Steps, Code
  <2> HIDE DEF x
  <2>4. FieldsOK(x) /\ LookedAt(x) /\ SignedAt(x)
    BY <2>1, <2>3 DEF FieldsOK, LookedAt, SignedAt
  <2> QED BY <1>1, <2>2, <2>3, <2>4, OneGoesOn
<1>3. ASSUME NEW g \in Teams, NEW n \in TeamNames \cup {None}, ~ NameTaken(n, g),
             NEW x, req' = [req EXCEPT ![r] = x],
             x = [Free EXCEPT !.op = "team.update", !.target = g, !.key = n]
      PROVE  IInv'
  <2>1. x \in Request /\ x.op = "team.update" /\ x.key = n /\ x.target = g
    BY <1>3 DEF Free, Request, Steps, Code
  <2>2. FieldsOK(x) /\ LookedAt(x) /\ SignedAt(x)
    BY <1>3, <2>1 DEF FieldsOK, LookedAt, SignedAt
  <2> QED BY <1>1, <1>3, <2>1, <2>2, OneGoesOn
<1>4. ASSUME NEW g \in Teams, Begin(r, [Free EXCEPT !.op = "team.update", !.target = g])
      PROVE  IInv'
  <2> DEFINE x == [Free EXCEPT !.op = "team.update", !.target = g]
  <2>1. ~ NameTaken(None, g)
    BY NullAssumption DEF NameTaken, IInv, RowsOK, TeamsOK
  <2>2. x \in Request /\ x.op = "team.update" /\ x.key = None /\ x.target = g
    BY DEF Free, Request, Steps, Code
  <2>3. req' = [req EXCEPT ![r] = x]
    BY <1>4 DEF Begin
  <2> HIDE DEF x
  <2>4. FieldsOK(x) /\ LookedAt(x) /\ SignedAt(x)
    BY <2>1, <2>2 DEF FieldsOK, LookedAt, SignedAt
  <2> QED BY <1>1, <2>2, <2>3, <2>4, OneGoesOn
<1> QED BY <1>2, <1>3, <1>4 DEF UpdateTeam, Begin

LEMMA DeviceAsked ==
  ASSUME IInv, NEW r \in Requests,
         (\E d \in Devices : AuthenticateDevice(r, d)) \/ DeviceUser(r) \/ DeviceSign(r) \/ Fail(r)
  PROVE  IInv'
<1>1. UNCHANGED rows /\ UNCHANGED doubled
  BY DEF AuthenticateDevice, DeviceUser, DeviceSign, Fail, Directed, rows
<1>2. req[r] \in Request /\ FieldsOK(req[r]) /\ SignedAt(req[r])
  BY DEF IInv, RequestsOK, SigningOK
<1>3. ASSUME NEW d \in Devices, AuthenticateDevice(r, d) PROVE IInv'
  <2> DEFINE x == [Free EXCEPT !.op = "device.user", !.user = devices[d].user, !.target = d]
  <2>0. Person \subseteq Users /\ Person \subseteq born
    BY DEF IInv, PeopleOK, PartialMap, Person
  <2>1. /\ devices[d].user \in Users /\ devices[d].user \in born
        /\ d \in born /\ ~ devices[d].revoked
    <3>1. d \in DOMAIN devices /\ ~ devices[d].revoked
      BY <1>3 DEF AuthenticateDevice
    <3>2. devices[d] \in [user : Person, revoked : BOOLEAN] /\ d \in born
      BY <3>1 DEF IInv, RowsOK, DevicesOK
    <3> QED BY <2>0, <3>1, <3>2
  <2>2. req' = [req EXCEPT ![r] = x]
    BY <1>3 DEF AuthenticateDevice, Begin
  <2>3. x \in Request /\ x.op = "device.user" /\ x.user = devices[d].user /\ x.target = d
    BY <2>1 DEF Free, Request, Steps, Code
  <2> HIDE DEF x
  <2>4. FieldsOK(x) /\ LookedAt(x) /\ SignedAt(x)
    BY <2>1, <2>3 DEF FieldsOK, LookedAt, SignedAt
  <2> QED BY <1>1, <2>2, <2>3, <2>4, OneGoesOn
<1>4. CASE DeviceUser(r) /\ ~ Answer(r)
  <2> DEFINE x == [req[r] EXCEPT !.op = "device.sign"]
  <2>1. /\ req[r].op = "device.user" /\ accounts[req[r].user].active
        /\ req' = [req EXCEPT ![r] = x]
    BY <1>4 DEF DeviceUser, Continue
  <2>2. /\ x \in Request /\ x.op = "device.sign" /\ x.user = req[r].user
        /\ x.target = req[r].target /\ x.behind = req[r].behind
    BY <1>2, NextStepFields DEF Steps
  <2> HIDE DEF x
  <2>3. FieldsOK(x) /\ LookedAt(x) /\ SignedAt(x)
    BY <1>2, <2>1, <2>2 DEF FieldsOK, LookedAt, SignedAt
  <2> QED BY <1>1, <2>1, <2>2, <2>3, OneGoesOn
<1>5. CASE Answer(r)
  BY <1>1, <1>5, OneAnswered
<1> QED BY <1>3, <1>4, <1>5 DEF DeviceUser, DeviceSign, Fail

LEMMA CheckOutStep ==
  ASSUME IInv, NEW r \in Requests, NEW u \in Users, CheckOut(r, u)
  PROVE  IInv'
<1> DEFINE n == Len(today[u])
           x == [Free EXCEPT !.op = "attend.out", !.user = u, !.target = n]
<1>1. UNCHANGED rows /\ UNCHANGED doubled
  BY DEF CheckOut, Directed, rows
<1>2. n > 0 /\ req' = [req EXCEPT ![r] = x]
  BY DEF CheckOut, Begin
<1>3. n \in Nat /\ DOMAIN today[u] = 1 .. n
  BY LenProperties DEF IInv, DaysOK
<1>4. n \in 1 .. Cardinality(Requests)
  <2>1. IsFiniteSet(Attending(u))
    BY SmallAssumption, FS_Subset DEF Attending
  <2>2. Cardinality(Attending(u)) \in Nat /\ Cardinality(Requests) \in Nat
    BY <2>1, SmallAssumption, FS_CardinalityType
  <2>3. n + Cardinality(Attending(u)) <= Cardinality(Requests)
    BY DEF IInv, OnceOK
  <2> HIDE DEF n
  <2> QED BY <1>2, <1>3, <2>2, <2>3
<1> HIDE DEF n
<1>5. x \in Request /\ x.op = "attend.out" /\ x.user = u /\ x.target = n
  BY <1>4 DEF Free, Request, Steps, Code
<1> HIDE DEF x
<1>6. n \in DOMAIN today[u]
  BY <1>2, <1>3
<1>7. FieldsOK(x) /\ LookedAt(x) /\ SignedAt(x)
  BY <1>5, <1>6 DEF FieldsOK, LookedAt, SignedAt
<1> QED BY <1>1, <1>2, <1>5, <1>7, OneGoesOn

-----------------------------------------------------------------------------
(* Writes of rows.                                                         *)

\* A write keeps the invariant if it keeps the rows and the looks in order.
LEMMA Written ==
  ASSUME IInv, PeopleOK', RowsOK', DaysOK', LookedOK', SigningOK', NoneGoesOn,
         born \subseteq born', today' = today, doubled' = doubled
  PROVE  IInv'
<1>1. RequestsOK /\ OnceOK /\ today \in [Users -> Seq(BOOLEAN)]
  BY DEF IInv, DaysOK
<1>2. RequestsOK'
  BY <1>1, RequestsKept DEF SameDays
<1>3. OnceOK'
  BY <1>1, NoneAttends, OnceKept
<1> QED BY <1>2, <1>3 DEF IInv

\* One that touches no request and takes no key keeps them.
LEMMA WrittenQuietly ==
  ASSUME IInv, PeopleOK', RowsOK', DaysOK', NoTakers, SameSignIns, UNCHANGED req,
         born \subseteq born', today' = today, doubled' = doubled
  PROVE  IInv'
<1>1. RequestsOK /\ LookedOK /\ SigningOK /\ NoneGoesOn
  BY DEF IInv, RequestsOK, NoneGoesOn
<1>2. LookedOK' /\ SigningOK'
  BY <1>1, AllLookedKept, AllSignedKept
<1> QED BY <1>1, <1>2, Written

\* More people, and the same rows.
LEMMA MorePeople ==
  ASSUME RowsOK, DaysOK, Person \subseteq Person', born \subseteq born',
         UNCHANGED <<tasks, teams, devices, today, kept, projections>>
  PROVE  RowsOK' /\ DaysOK'
<1>1. TasksOK'
  BY DEF RowsOK, TasksOK
<1>2. TeamsOK'
  <2>1. \A g \in DOMAIN teams : teams[g] \in [name : TeamNames, manager : Person' \cup {Nobody},
                                             members : SUBSET Person']
    BY DEF RowsOK, TeamsOK
  <2> QED BY <2>1 DEF RowsOK, TeamsOK, NameTaken
<1>3. DevicesOK' /\ DaysOK'
  BY DEF RowsOK, DevicesOK, DaysOK, Restricted
<1> QED BY <1>1, <1>2, <1>3 DEF RowsOK

LEMMA StoreRegistrationStep ==
  ASSUME IInv, NEW r \in Requests, StoreRegistration(r)
  PROVE  IInv'
<1>1. CASE Answer(r) /\ UNCHANGED <<accounts, born>>
  BY <1>1, OneAnswered DEF StoreRegistration, Directed, rows
<1>2. ASSUME NEW u \in Users \ born, Acceptable(req[r].key, req[r].code, Nobody),
             accounts' = Insert(accounts, u,
               [email |-> req[r].key, code |-> req[r].code, active |-> FALSE]),
             born' = born \cup {u}, AnswerAhead(r)
      PROVE  IInv'
  <2> DEFINE row == [email |-> req[r].key, code |-> req[r].code, active |-> FALSE]
  <2>1. /\ PeopleOK /\ RequestsOK /\ SigningOK /\ RowsOK /\ DaysOK
        /\ UNCHANGED <<tasks, teams, devices, today, kept, projections, area, doubled>>
    BY DEF IInv, StoreRegistration, Directed
  <2>2. row \in Account /\ row.email = req[r].key /\ row.code = req[r].code
    <3>1. /\ req[r] \in Request /\ req[r].op = "register.store"
          /\ FieldsOK(req[r])
      BY <2>1 DEF RequestsOK, StoreRegistration
    <3> QED BY <3>1 DEF Account, Code, FieldsOK
  <2> HIDE DEF row
  <2>3. /\ accounts' = Insert(accounts, u, row) /\ u \notin Person /\ Person \subseteq Users
        /\ \A v \in Person : accounts[v] \in Account
    BY <1>2, <2>1 DEF PeopleOK, PartialMap, Person, row
  <2>4. /\ Person' = Person \cup {u} /\ accounts'[u] = row
        /\ \A v \in Person : accounts'[v] = accounts[v]
    BY <2>3 DEF Insert, Person
  <2>5. PeopleOK'
    <3>1. accounts' \in PartialMap(Users, Account)
      <4>1. accounts' \in [Person' -> Account]
        BY <2>2, <2>3, <2>4 DEF Insert, Person
      <4> QED BY <2>3, <2>4, <4>1 DEF PartialMap
    <3>2. \A v \in Person : accounts[v].email # row.email
      BY <1>2, <2>2, <2>3, NullAssumption DEF Acceptable, EmailTaken
    <3>3. row.code = NoCode \/ \A v \in Person : accounts[v].code # row.code
      BY <1>2, <2>2, <2>3, NullAssumption DEF Acceptable, CodeTaken
    <3>4. \A v, w \in Person' : accounts'[v].email = accounts'[w].email => v = w
      BY <2>1, <2>4, <3>2 DEF PeopleOK
    <3>5. \A v, w \in Person' :
            accounts'[v].code = accounts'[w].code => v = w \/ accounts'[v].code = NoCode
      BY <2>1, <2>4, <3>3 DEF PeopleOK, CodeTaken
    <3> QED BY <1>2, <2>1, <2>4, <3>1, <3>4, <3>5 DEF PeopleOK, CodeTaken
  <2>6. RowsOK' /\ DaysOK'
    BY <1>2, <2>1, <2>4, MorePeople
  <2>7. NoneGoesOn /\ LookedOK'
    BY <1>2, <2>1, OvertakenLooked
  <2>8. SigningOK'
    <3>1. SameSignIns
      BY <2>1, <2>4 DEF SameSignIns
    <3> QED BY <2>1, <2>7, <3>1, AllSignedKept
  <2> QED BY <1>2, <2>1, <2>5, <2>6, <2>7, <2>8, Written
<1> QED BY <1>1, <1>2 DEF StoreRegistration

LEMMA StoreAccountStep ==
  ASSUME IInv, NEW r \in Requests, StoreAccount(r)
  PROVE  IInv'
<1> DEFINE u == req[r].user
           e == IF req[r].op = "profile.store" THEN req[r].key ELSE accounts[u].email
           c == req[r].code
<1>1. CASE Answer(r) /\ UNCHANGED accounts
  BY <1>1, OneAnswered DEF StoreAccount, Directed, rows
<1>2. CASE /\ u \in Person /\ Acceptable(e, c, u)
           /\ accounts' = [accounts EXCEPT ![u].email = e, ![u].code = c]
           /\ AnswerAhead(r)
  <2>1. /\ PeopleOK /\ RequestsOK /\ SigningOK /\ RowsOK /\ DaysOK
        /\ UNCHANGED <<born, tasks, teams, devices, today, kept, projections, area, doubled>>
    BY DEF IInv, StoreAccount, Directed
  <2>2. /\ Person \subseteq Users /\ accounts \in [Person -> Account]
    BY <2>1 DEF PeopleOK, PartialMap, Person
  <2>3. e \in Emails /\ c \in Code
    <3>1. /\ req[r] \in Request /\ FieldsOK(req[r])
          /\ req[r].op \in {"profile.store", "empcode.store"}
      BY <2>1 DEF RequestsOK, StoreAccount
    <3>2. accounts[u].email \in Emails
      BY <1>2, <2>2 DEF Account
    <3> QED BY <3>1, <3>2 DEF FieldsOK, Request
  <2> HIDE DEF e, c, u
  <2> DEFINE row == [accounts[u] EXCEPT !.email = e, !.code = c]
  <2>4. /\ row \in Account /\ row.email = e /\ row.code = c /\ row.active = accounts[u].active
    BY <1>2, <2>2, <2>3 DEF Account
  <2>5. accounts' = [accounts EXCEPT ![u] = row]
    BY <1>2
  <2> HIDE DEF row
  <2>6. /\ accounts' \in [Person -> Account] /\ Person' = Person /\ accounts'[u] = row
        /\ \A v \in Person \ {u} : accounts'[v] = accounts[v]
    BY <1>2, <2>2, <2>4, <2>5 DEF Person
  <2>7. PeopleOK'
    <3>1. \A v, w \in Person : accounts'[v].email = accounts'[w].email => v = w
      BY <1>2, <2>1, <2>4, <2>6 DEF PeopleOK, Acceptable, EmailTaken
    <3>2. \A v, w \in Person :
            accounts'[v].code = accounts'[w].code => v = w \/ accounts'[v].code = NoCode
      BY <1>2, <2>1, <2>4, <2>6 DEF PeopleOK, Acceptable, CodeTaken
    <3>3. accounts' \in PartialMap(Users, Account)
      BY <2>2, <2>6 DEF PartialMap
    <3> QED BY <2>1, <2>6, <3>1, <3>2, <3>3 DEF PeopleOK, CodeTaken
  <2>8. RowsOK' /\ DaysOK'
    BY <2>1, <2>6, MorePeople
  <2>9. NoneGoesOn /\ LookedOK'
    BY <1>2, <2>1, OvertakenLooked
  <2>10. SigningOK'
    <3>1. SameSignIns
      BY <2>1, <2>4, <2>6 DEF SameSignIns
    <3> QED BY <2>1, <2>9, <3>1, AllSignedKept
  <2> QED BY <2>1, <2>7, <2>8, <2>9, <2>10, Written
<1> QED BY <1>1, <1>2 DEF StoreAccount

LEMMA ApproveUserStep ==
  ASSUME IInv, NEW u \in Users, ApproveUser(u)
  PROVE  IInv'
<1>1. /\ PeopleOK /\ RowsOK /\ DaysOK /\ u \in Person
      /\ accounts' = [accounts EXCEPT ![u].active = TRUE]
      /\ UNCHANGED <<born, req, tasks, teams, devices, today, kept, projections, area, doubled>>
  BY DEF IInv, ApproveUser, Directed
<1>2. Person \subseteq Users /\ accounts \in [Person -> Account]
  BY <1>1 DEF PeopleOK, PartialMap, Person
<1>3. ASSUME NEW v \in Person
      PROVE  /\ accounts'[v] \in Account
             /\ accounts'[v].email = accounts[v].email /\ accounts'[v].code = accounts[v].code
             /\ accounts[v].active => accounts'[v].active
  <2>1. accounts[v] \in Account
    BY <1>2
  <2>2. accounts'[v] = IF v = u THEN [accounts[v] EXCEPT !.active = TRUE] ELSE accounts[v]
    BY <1>1, <1>2
  <2> QED BY <2>1, <2>2 DEF Account
<1>4. Person' = Person /\ accounts' \in [Person -> Account]
  BY <1>1, <1>2, <1>3 DEF Person
<1>5. PeopleOK'
  BY <1>1, <1>2, <1>3, <1>4 DEF PeopleOK, PartialMap, CodeTaken
<1>6. RowsOK' /\ DaysOK'
  BY <1>1, <1>4, MorePeople
<1>7. NoTakers /\ SameSignIns
  BY <1>1, <1>3, <1>4 DEF NoTakers, SameSignIns
<1> QED BY <1>1, <1>5, <1>6, <1>7, WrittenQuietly

-----------------------------------------------------------------------------
(* Removals, and tasks.                                                    *)

\* An answer lets no request go on.
LEMMA AnswerGoesOn ==
  ASSUME RequestsOK, NEW r \in Requests, Answer(r)
  PROVE  NoneGoesOn /\ \A q \in Requests : req'[q] \in {req[q], Free}
BY FreeFacts DEF RequestsOK, Answer, NoneGoesOn

LEMMA RemoveUnassignStep ==
  ASSUME IInv, NEW r \in Requests, RemoveUnassign(r)
  PROVE  IInv'
<1> DEFINE x == [req[r] EXCEPT !.op = "remove.delete"]
<1>1. /\ req[r] \in Request /\ FieldsOK(req[r]) /\ req[r].op = "remove.unassign"
      /\ req' = [req EXCEPT ![r] = x]
      /\ UNCHANGED <<accounts, born, teams, devices, today, kept, projections, doubled>>
  BY DEF IInv, RequestsOK, RemoveUnassign, Continue
<1>2. x \in Request /\ x.op = "remove.delete" /\ x.user = req[r].user
  BY <1>1, NextStepFields DEF Steps
<1> HIDE DEF x
<1>3. FieldsOK(x) /\ LookedAt(x) /\ SignedAt(x)
  BY <1>1, <1>2 DEF FieldsOK, LookedAt, SignedAt
<1>4. TasksOK'
  BY <1>1 DEF IInv, RowsOK, TasksOK, RemoveUnassign, Person
<1> QED BY <1>1, <1>2, <1>3, <1>4, OneGoesOnWithTasks

\* What the database lets go of with an account, and what it keeps.
LEMMA RemoveDeleteStep ==
  ASSUME IInv, NEW r \in Requests, RemoveDelete(r)
  PROVE  IInv'
<1> DEFINE u == req[r].user
<1>1. CASE UNCHANGED <<accounts, tasks, teams, devices, projections>>
  BY <1>1, OneAnswered DEF RemoveDelete, rows
<1>2. CASE /\ u \in Person /\ ~ Restricted(u) /\ accounts' = Delete(accounts, {u}) /\ Cascade(u)
  <2>1. /\ PeopleOK /\ RowsOK /\ DaysOK /\ RequestsOK /\ LookedOK /\ SigningOK
        /\ Answer(r) /\ UNCHANGED <<born, today, kept, area, doubled>>
    BY DEF IInv, RemoveDelete
  <2> HIDE DEF u
  <2>2. /\ accounts \in [Person -> Account] /\ Person \subseteq Users /\ Person \subseteq born
        /\ Nobody \notin Person
    BY <2>1, NullAssumption DEF PeopleOK, PartialMap, Person
  <2>3. /\ Person' = Person \ {u} /\ accounts' \in [Person' -> Account]
        /\ \A v \in Person' : accounts'[v] = accounts[v]
    BY <1>2, <2>2 DEF Delete, Person
  <2>4. PeopleOK'
    <3>1. accounts' \in PartialMap(Users, Account)
      BY <2>2, <2>3 DEF PartialMap
    <3> QED BY <2>1, <2>2, <2>3, <3>1 DEF PeopleOK, CodeTaken
  <2>5. TasksOK'
    <3> SUFFICES ASSUME NEW t \in DOMAIN tasks
                 PROVE  tasks'[t] \in [assignee : Person' \cup {Nobody}, allotter : Person' \cup {Nobody}]
      BY <1>2 DEF Cascade, TasksOK
    <3>1. tasks[t] \in [assignee : Person \cup {Nobody}, allotter : Person \cup {Nobody}]
      BY <2>1 DEF RowsOK, TasksOK
    <3>2. tasks'[t] = [assignee |-> Without(u, tasks[t].assignee),
                       allotter |-> Without(u, tasks[t].allotter)]
      BY <1>2 DEF Cascade
    <3> QED BY <2>3, <3>1, <3>2 DEF Without
  <2>6. TeamsOK' /\ DOMAIN teams' = DOMAIN teams
        /\ \A g \in DOMAIN teams : teams'[g].name = teams[g].name
    <3>1. ASSUME NEW g \in DOMAIN teams
          PROVE  /\ teams'[g] \in [name : TeamNames, manager : Person' \cup {Nobody},
                                   members : SUBSET Person']
                 /\ teams'[g].name = teams[g].name
      <4>1. teams[g] \in [name : TeamNames, manager : Person \cup {Nobody}, members : SUBSET Person]
        BY <2>1 DEF RowsOK, TeamsOK
      <4>2. teams'[g] = [teams[g] EXCEPT !.manager = Without(u, teams[g].manager),
                                         !.members = teams[g].members \ {u}]
        BY <1>2 DEF Cascade
      <4>3. Without(u, teams[g].manager) \in Person' \cup {Nobody}
        BY <2>3, <4>1 DEF Without
      <4>4. teams[g].members \ {u} \in SUBSET Person'
        BY <2>3, <4>1
      <4> QED BY <4>1, <4>2, <4>3, <4>4
    <3>2. DOMAIN teams' = DOMAIN teams
      BY <1>2 DEF Cascade
    <3> QED BY <2>1, <3>1, <3>2 DEF RowsOK, TeamsOK, NameTaken
  <2>7. /\ DevicesOK'
        /\ \A d \in DOMAIN devices' : d \in DOMAIN devices /\ devices'[d] = devices[d]
    <3>1. \A d \in DOMAIN devices' :
            d \in DOMAIN devices /\ devices'[d] = devices[d] /\ devices[d].user # u
      BY <1>2 DEF Cascade, Delete
    <3>2. ASSUME NEW d \in DOMAIN devices' PROVE devices'[d] \in [user : Person', revoked : BOOLEAN]
      <4>1. devices[d] \in [user : Person, revoked : BOOLEAN]
        BY <2>1, <3>1 DEF RowsOK, DevicesOK
      <4> QED BY <2>3, <3>1, <4>1
    <3> QED BY <2>1, <3>1, <3>2 DEF RowsOK, DevicesOK
  <2>8. DaysOK'
    <3>1. projections' = {p \in projections : p.employee # u}
      BY <1>2 DEF Cascade
    <3>2. projections' \subseteq [employee : Person', creator : Person']
      <4>1. \A p \in projections : p \in [employee : Person, creator : Person] /\ p.creator # u
        BY <1>2, <2>1 DEF DaysOK, Restricted
      <4> QED BY <2>3, <3>1, <4>1
    <3>3. \A v \in Users : Restricted(v)' => Restricted(v) /\ v # u
      BY <1>2, <2>1, <3>1 DEF Restricted
    <3> QED BY <2>1, <2>3, <3>2, <3>3 DEF DaysOK
  <2>9. NoTakers /\ SameSignIns
    BY <2>3, <2>6, <2>7 DEF NoTakers, SameSignIns
  <2>10. NoneGoesOn /\ LookedOK'
    BY <2>1, <2>9, AnswerGoesOn, AllLookedKept
  <2>11. SigningOK'
    BY <2>1, <2>9, <2>10, AllSignedKept
  <2> QED BY <2>1, <2>4, <2>5, <2>6, <2>7, <2>8, <2>10, <2>11, Written DEF RowsOK
<1> QED BY <1>1, <1>2 DEF RemoveDelete

LEMMA TaskStep ==
  ASSUME IInv, \E t \in Tasks : RemoveTask(t) \/ \E u, v \in Users : CreateTask(t, u, v)
  PROVE  IInv'
<1>1. /\ UNCHANGED <<accounts, teams, devices, today, kept, projections, req, area, doubled>>
      /\ born \subseteq born'
  BY DEF RemoveTask, CreateTask
<1>2. TasksOK'
  BY DEF IInv, RowsOK, TasksOK, RemoveTask, CreateTask, Insert, Delete, Person
<1>3. PeopleOK' /\ TeamsOK' /\ DevicesOK' /\ DaysOK'
  BY <1>1 DEF IInv, RowsOK, PeopleOK, TeamsOK, DevicesOK, DaysOK, Person, EmailTaken, CodeTaken,
              NameTaken, Restricted
<1>4. NoTakers /\ SameSignIns
  BY <1>1 DEF NoTakers, SameSignIns, Person
<1> QED BY <1>1, <1>2, <1>3, <1>4, WrittenQuietly DEF RowsOK

-----------------------------------------------------------------------------
(* Teams and devices.                                                      *)

\* A write of teams is in order when the teams are.
LEMMA TeamsWritten ==
  ASSUME IInv, UNCHANGED <<accounts, tasks, devices, today, kept, projections, doubled>>, born \subseteq born',
         TeamsOK', NoneGoesOn, LookedOK'
  PROVE  IInv'
<1>1. PeopleOK' /\ TasksOK' /\ DevicesOK' /\ DaysOK'
  BY DEF IInv, RowsOK, PeopleOK, TasksOK, DevicesOK, DaysOK, Person, EmailTaken, CodeTaken,
         Restricted
<1>2. SigningOK'
  <2>1. SameSignIns
    BY DEF SameSignIns, Person
  <2> QED BY <2>1, AllSignedKept DEF IInv
<1> QED BY <1>1, <1>2, Written DEF RowsOK

Team == [name : TeamNames, manager : Person \cup {Nobody}, members : SUBSET Person]

LEMMA StoreNewTeamStep ==
  ASSUME IInv, NEW r \in Requests, StoreNewTeam(r)
  PROVE  IInv'
<1>1. /\ RequestsOK /\ TeamsOK /\ req[r].op = "team.create" /\ FieldsOK(req[r])
      /\ UNCHANGED <<accounts, tasks, devices, today, kept, projections, doubled>>
  BY DEF IInv, RowsOK, RequestsOK, StoreNewTeam
<1>2. CASE Answer(r) /\ UNCHANGED <<born, teams>>
  BY <1>1, <1>2, OneAnswered DEF rows
<1>3. ASSUME ~ NameTaken(req[r].key, None), AnswerAhead(r),
             NEW g \in Teams, NEW m \in Person \cup {Nobody}, NEW ms \in SUBSET Person,
             teams' = Insert(teams, g, TeamRow(req[r].key, m, ms)), born' = born \cup {g}
      PROVE  IInv'
  <2>1. req[r].key \in TeamNames /\ \A h \in DOMAIN teams : teams[h].name # req[r].key \/ h = None
    BY <1>1, <1>3 DEF FieldsOK, NameTaken
  <2> DEFINE row == TeamRow(req[r].key, m, ms)
  <2>2. row \in Team /\ row.name = req[r].key
    BY <2>1 DEF TeamRow, Team
  <2> HIDE DEF row
  <2>3. /\ DOMAIN teams' = DOMAIN teams \cup {g}
        /\ \A h \in DOMAIN teams' : teams'[h] = IF h = g THEN row ELSE teams[h]
    BY <1>3 DEF Insert, row
  <2>4. TeamsOK'
    <3>1. \A h, k \in DOMAIN teams' : teams'[h].name = teams'[k].name => h = k
      BY <1>1, <2>1, <2>2, <2>3, NullAssumption DEF TeamsOK, NameTaken
    <3>2. \A h \in DOMAIN teams' : teams'[h] \in Team
      BY <1>1, <2>2, <2>3 DEF TeamsOK, Team
    <3> QED BY <1>1, <2>3, <3>1, <3>2 DEF TeamsOK, NameTaken, Team, Person
  <2>5. NoneGoesOn /\ LookedOK'
    BY <1>1, <1>3, OvertakenLooked
  <2> QED BY <1>1, <1>3, <2>4, <2>5, TeamsWritten
<1> QED BY <1>2, <1>3 DEF StoreNewTeam

LEMMA StoreTeamStep ==
  ASSUME IInv, NEW r \in Requests, StoreTeam(r)
  PROVE  IInv'
<1> DEFINE g == req[r].target
           n == req[r].key
<1>1. /\ RequestsOK /\ TeamsOK /\ req[r].op = "team.update" /\ FieldsOK(req[r])
      /\ UNCHANGED <<accounts, born, tasks, devices, today, kept, projections, doubled>>
  BY DEF IInv, RowsOK, RequestsOK, StoreTeam
<1>2. CASE Answer(r) /\ UNCHANGED teams
  BY <1>1, <1>2, OneAnswered DEF rows
<1>3. ASSUME g \in DOMAIN teams, ~ NameTaken(n, g), AnswerAhead(r),
             NEW m \in Person \cup {Nobody}, NEW ms \in SUBSET Person,
             teams' = [teams EXCEPT ![g] = TeamRow(IF n = None THEN @.name ELSE n, m, ms)]
      PROVE  IInv'
  <2> DEFINE name == IF n = None THEN teams[g].name ELSE n
             row == TeamRow(name, m, ms)
  <2>1. name \in TeamNames /\ \A h \in DOMAIN teams \ {g} : teams[h].name # name
    BY <1>1, <1>3 DEF FieldsOK, TeamsOK, NameTaken
  <2>2. row \in Team /\ row.name = name
    BY <2>1 DEF TeamRow, Team
  <2>3. /\ DOMAIN teams' = DOMAIN teams
        /\ \A h \in DOMAIN teams : teams'[h] = IF h = g THEN row ELSE teams[h]
    BY <1>3
  <2> HIDE DEF row, name, g, n
  <2>4. TeamsOK'
    <3>1. \A h, k \in DOMAIN teams' : teams'[h].name = teams'[k].name => h = k
      BY <1>1, <2>1, <2>2, <2>3 DEF TeamsOK, NameTaken
    <3>2. \A h \in DOMAIN teams' : teams'[h] \in Team
      BY <1>1, <2>2, <2>3 DEF TeamsOK, Team
    <3> QED BY <1>1, <2>3, <3>1, <3>2 DEF TeamsOK, NameTaken, Team, Person
  <2>5. NoneGoesOn /\ LookedOK'
    BY <1>1, <1>3, OvertakenLooked
  <2> QED BY <1>1, <2>4, <2>5, TeamsWritten
<1> QED BY <1>2, <1>3 DEF StoreTeam

\* Teams that lose or gain members, or go.
LEMMA TeamStep ==
  ASSUME IInv, NEW g \in Teams,
         RemoveTeam(g) \/ \E u \in Users : AddMember(g, u) \/ RemoveMember(g, u)
  PROVE  IInv'
<1>1. /\ RequestsOK /\ TeamsOK /\ LookedOK
      /\ UNCHANGED <<accounts, born, tasks, devices, today, kept, projections, req, doubled>>
  BY DEF IInv, RowsOK, RemoveTeam, AddMember, RemoveMember
<1>2. \A h \in DOMAIN teams' :
        h \in DOMAIN teams /\ teams'[h] \in Team /\ teams'[h].name = teams[h].name
  <2>1. \A h \in DOMAIN teams : teams[h] \in Team
    BY <1>1 DEF TeamsOK, Team
  <2>2. CASE RemoveTeam(g)
    BY <2>1, <2>2 DEF RemoveTeam, Delete
  <2>3. ASSUME NEW u \in Users, NEW ms, g \in DOMAIN teams, ms \in SUBSET Person,
               teams' = [teams EXCEPT ![g].members = ms]
        PROVE  \A h \in DOMAIN teams' :
                 h \in DOMAIN teams /\ teams'[h] \in Team /\ teams'[h].name = teams[h].name
    BY <2>1, <2>3 DEF Team
  <2>4. ASSUME NEW u \in Users, AddMember(g, u)
        PROVE  /\ g \in DOMAIN teams /\ teams[g].members \cup {u} \in SUBSET Person
               /\ teams' = [teams EXCEPT ![g].members = teams[g].members \cup {u}]
    BY <2>1, <2>4 DEF AddMember, Team
  <2>5. ASSUME NEW u \in Users, RemoveMember(g, u)
        PROVE  /\ g \in DOMAIN teams /\ teams[g].members \ {u} \in SUBSET Person
               /\ teams' = [teams EXCEPT ![g].members = teams[g].members \ {u}]
    BY <2>1, <2>5 DEF RemoveMember, Team
  <2> QED BY <2>2, <2>3, <2>4, <2>5
<1>3. TeamsOK'
  BY <1>1, <1>2 DEF TeamsOK, NameTaken, Team, Person
<1>4. NoTakers /\ NoneGoesOn
  BY <1>1, <1>2 DEF NoTakers, NoneGoesOn, RequestsOK, Person
<1>5. LookedOK'
  BY <1>1, <1>4, AllLookedKept
<1> QED BY <1>1, <1>3, <1>4, <1>5, TeamsWritten


LEMMA RegisterDeviceStep ==
  ASSUME IInv, NEW d \in Devices, NEW u \in Users, RegisterDevice(d, u)
  PROVE  IInv'
<1>1. /\ UNCHANGED <<accounts, tasks, teams, today, kept, projections, req, area, doubled>>
      /\ born' = born \cup {d} /\ d \notin born /\ u \in Person
      /\ devices' = Insert(devices, d, [user |-> u, revoked |-> FALSE])
  BY DEF RegisterDevice
<1>2. /\ DOMAIN devices' = DOMAIN devices \cup {d}
      /\ devices'[d] = [user |-> u, revoked |-> FALSE]
      /\ \A b \in DOMAIN devices \ {d} : devices'[b] = devices[b]
  BY <1>1 DEF Insert
<1>3. DevicesOK'
  <2>1. \A b \in DOMAIN devices : devices[b] \in [user : Person, revoked : BOOLEAN] /\ b \in born
    BY DEF IInv, RowsOK, DevicesOK
  <2>2. [user |-> u, revoked |-> FALSE] \in [user : Person, revoked : BOOLEAN]
    BY <1>1
  <2>3. Person' = Person
    BY <1>1 DEF Person
  <2>4. \A b \in DOMAIN devices' : devices'[b] \in [user : Person, revoked : BOOLEAN] /\ b \in born'
    BY <1>1, <1>2, <2>1, <2>2
  <2> QED BY <2>3, <2>4 DEF DevicesOK
<1>4. PeopleOK' /\ TeamsOK' /\ TasksOK' /\ DaysOK'
  BY <1>1 DEF IInv, RowsOK, PeopleOK, TeamsOK, TasksOK, DaysOK, Person, EmailTaken, CodeTaken,
              NameTaken, Restricted
<1>5. NoTakers /\ SameSignIns
  BY <1>1, <1>2 DEF NoTakers, SameSignIns, Person
<1> QED BY <1>1, <1>3, <1>4, <1>5, WrittenQuietly DEF RowsOK

\* A revocation overtakes the sign-ins that have read the device.
LEMMA RevokeDeviceStep ==
  ASSUME IInv, NEW d \in Devices, RevokeDevice(d)
  PROVE  IInv'
<1>1. /\ UNCHANGED <<accounts, born, tasks, teams, today, kept, projections, area, doubled>>
      /\ d \in DOMAIN devices /\ devices' = [devices EXCEPT ![d].revoked = TRUE]
      /\ req' = [r \in Requests |->
           IF req[r].op \in {"device.user", "device.sign"} /\ req[r].target = d
             THEN Overtaken(req[r]) ELSE req[r]]
      /\ RequestsOK /\ LookedOK /\ SigningOK
  BY DEF IInv, RevokeDevice, Overtaken
<1>2. /\ DOMAIN devices' = DOMAIN devices
      /\ \A b \in DOMAIN devices :
           /\ devices'[b] \in [user : Person, revoked : BOOLEAN]
           /\ devices'[b].user = devices[b].user
           /\ b # d => devices'[b] = devices[b]
  <2>1. \A b \in DOMAIN devices : devices[b] \in [user : Person, revoked : BOOLEAN]
    BY DEF IInv, RowsOK, DevicesOK
  <2> QED BY <1>1, <2>1
<1>3. DevicesOK'
  BY <1>1, <1>2 DEF IInv, RowsOK, DevicesOK, Person
<1>4. PeopleOK' /\ TeamsOK' /\ TasksOK' /\ DaysOK'
  BY <1>1 DEF IInv, RowsOK, PeopleOK, TeamsOK, TasksOK, DaysOK, Person, EmailTaken, CodeTaken,
              NameTaken, Restricted
<1>5. NoneGoesOn
  <2>1. \A q \in Requests : req[q] \in Request /\ Overtaken(req[q]) \in Request
    BY <1>1, OvertakenFacts DEF RequestsOK
  <2> QED BY <1>1, <2>1 DEF NoneGoesOn
<1>6. LookedOK'
  <2> SUFFICES ASSUME NEW q \in Requests PROVE LookedAt(req[q])'
    BY DEF LookedOK
  <2>1. LookedAt(req[q]) /\ req[q] \in Request
    BY <1>1 DEF LookedOK, RequestsOK
  <2>2. req'[q] = req[q] \/ req'[q].behind
    BY <1>1, <2>1, OvertakenFacts
  <2> QED BY <1>1, <2>1, <2>2 DEF LookedAt, EmailTaken, CodeTaken, NameTaken, Person
<1>7. SigningOK'
  <2> SUFFICES ASSUME NEW q \in Requests PROVE SignedAt(req[q])'
    BY DEF SigningOK
  <2>1. SignedAt(req[q]) /\ req[q] \in Request
    BY <1>1 DEF SigningOK, RequestsOK
  <2>2. CASE req[q].op \in {"device.user", "device.sign"} /\ req[q].target = d
    <3>1. /\ req'[q].behind /\ req'[q].op = req[q].op /\ req'[q].user = req[q].user
          /\ req'[q].target = req[q].target
      BY <1>1, <2>1, <2>2, OvertakenFacts
    <3> QED BY <1>1, <1>2, <2>1, <2>2, <3>1 DEF SignedAt, Person
  <2>3. CASE ~ (req[q].op \in {"device.user", "device.sign"} /\ req[q].target = d)
    <3>1. req'[q] = req[q]
      BY <1>1, <2>3
    <3> QED BY <1>1, <1>2, <2>1, <2>3, <3>1 DEF SignedAt, Person
  <2> QED BY <2>2, <2>3
<1> QED BY <1>1, <1>3, <1>4, <1>5, <1>6, <1>7, Written DEF RowsOK

-----------------------------------------------------------------------------
(* Attendance.                                                             *)

\* What attendance leaves alone.
LEMMA OthersUnchanged ==
  ASSUME IInv, UNCHANGED <<accounts, born, tasks, teams, devices>>
  PROVE  /\ PeopleOK' /\ RowsOK' /\ NoTakers /\ SameSignIns
BY DEF IInv, RowsOK, PeopleOK, TasksOK, TeamsOK, DevicesOK, Person, EmailTaken, CodeTaken,
       NameTaken, NoTakers, SameSignIns

\* A set of requests is finite, and has as many members as there are or fewer.
LEMMA SomeRequests ==
  ASSUME NEW S \in SUBSET Requests
  PROVE  /\ IsFiniteSet(S) /\ Cardinality(S) \in Nat /\ Cardinality(Requests) \in Nat
         /\ Cardinality(S) <= Cardinality(Requests)
BY SmallAssumption, FS_Subset, FS_CardinalityType

LEMMA CheckInStep ==
  ASSUME IInv, NEW r \in Requests, NEW u \in Users, CheckIn(r, u)
  PROVE  IInv'
<1> DEFINE x == [Free EXCEPT !.op = "attend.in", !.user = u]
<1>1. /\ UNCHANGED <<accounts, born, tasks, teams, devices, today, kept, projections>>
      /\ RequestsOK /\ LookedOK /\ SigningOK /\ OnceOK /\ DaysOK
      /\ req' = [req EXCEPT ![r] = x] /\ today[u] = << >>
      /\ doubled' = IF \E q \in Requests : req[q].op = "attend.in" /\ req[q].user = u
                      THEN doubled \cup {u} ELSE doubled
  BY DEF IInv, CheckIn, Begin, Admitted
<1>2. x \in Request /\ x.op = "attend.in" /\ x.user = u
  BY DEF Free, Request, Steps, Code
<1> HIDE DEF x
<1>3. /\ req' \in [Requests -> Request] /\ req'[r] = x
      /\ \A q \in Requests \ {r} : req'[q] = req[q]
  BY <1>1, <1>2 DEF RequestsOK
<1>4. FieldsOK(x) /\ LookedAt(x) /\ SignedAt(x)
  BY <1>2 DEF FieldsOK, LookedAt, SignedAt
<1>5. RequestsOK'
  <2>1. \A q \in Requests : FieldsOK(req'[q])
    BY <1>1, <1>3, <1>4 DEF RequestsOK
  <2> QED BY <1>1, <1>3, <2>1 DEF RequestsOK, FieldsOK
<1>6. LookedOK'
  <2>1. \A q \in Requests : LookedAt(req'[q])
    BY <1>1, <1>3, <1>4 DEF LookedOK
  <2> QED BY <1>1, <2>1 DEF LookedOK, LookedAt, EmailTaken, CodeTaken, NameTaken, Person
<1>7. SigningOK'
  <2>1. \A q \in Requests : SignedAt(req'[q])
    BY <1>1, <1>3, <1>4 DEF SigningOK
  <2> QED BY <1>1, <2>1 DEF SigningOK, SignedAt, Person
<1>8. OnceOK'
  <2> SUFFICES ASSUME NEW v \in Users
               PROVE  /\ Len(today[v]) > 1 => v \in doubled'
                      /\ \A p, q \in Attending(v)' : p = q \/ v \in doubled'
                      /\ Attending(v)' # {} /\ Len(today[v]) > 0 => v \in doubled'
                      /\ Len(today[v]) + Cardinality(Attending(v)') <= Cardinality(Requests)
    BY <1>1 DEF OnceOK
  <2>0. doubled \subseteq doubled'
    BY <1>1
  <2>1. CASE v = u
    <3>1. Len(today[v]) = 0
      BY <1>1, <2>1, EmptySeq
    <3>2. Attending(v)' \in SUBSET Requests
      BY DEF Attending
    <3>3. \A p, q \in Attending(v)' : p = q \/ v \in doubled'
      BY <1>1, <1>3, <2>1 DEF Attending
    <3> QED BY <3>1, <3>2, <3>3, SomeRequests
  <2>2. CASE v # u
    <3>1. Attending(v)' \subseteq Attending(v) /\ Attending(v) \subseteq Attending(v)'
      <4>1. req[r].op # "attend.in"
        BY DEF CheckIn, Idle
      <4> QED BY <1>2, <1>3, <2>2, <4>1 DEF Attending
    <3>2. Attending(v)' = Attending(v)
      BY <3>1
    <3> QED BY <1>1, <2>0, <3>2 DEF OnceOK
  <2> QED BY <2>1, <2>2
<1>9. PeopleOK' /\ RowsOK' /\ DaysOK'
  BY <1>1, OthersUnchanged DEF DaysOK, Restricted, Person
<1> QED BY <1>5, <1>6, <1>7, <1>8, <1>9 DEF IInv

\* A write of records that answers a request, if the days and their count are in order.
LEMMA DaysWritten ==
  ASSUME IInv, UNCHANGED <<accounts, born, tasks, teams, devices>>, DaysOK', OnceOK', SameDays,
         NoneGoesOn, \A q \in Requests : req'[q] \in {req[q], Free}
  PROVE  IInv'
<1>1. PeopleOK' /\ RowsOK' /\ NoTakers /\ SameSignIns
  BY OthersUnchanged
<1>2. RequestsOK' /\ LookedOK' /\ SigningOK'
  BY <1>1, RequestsKept, AllLookedKept, AllSignedKept DEF IInv
<1> QED BY <1>1, <1>2 DEF IInv

LEMMA CreateRecordStep ==
  ASSUME IInv, NEW r \in Requests, CreateRecord(r)
  PROVE  IInv'
<1>1. /\ UNCHANGED <<accounts, born, tasks, teams, devices, kept, projections, doubled>>
      /\ RequestsOK /\ OnceOK /\ DaysOK /\ Answer(r) /\ req[r].op = "attend.in"
  BY DEF IInv, CreateRecord
<1>2. NoneGoesOn /\ \A q \in Requests : req'[q] \in {req[q], Free}
  BY <1>1, AnswerGoesOn
<1>3. CASE req[r].user \notin Person
  <2>1. today' = today
    BY <1>3 DEF CreateRecord
  <2> QED BY <1>1, <2>1, OneAnswered DEF rows
<1>4. ASSUME NEW u \in Users, u = req[r].user, u \in Person PROVE IInv'
  <2>1. today' = [today EXCEPT ![u] = Append(today[u], TRUE)]
    BY <1>1, <1>4 DEF CreateRecord
  <2>2. /\ Append(today[u], TRUE) \in Seq(BOOLEAN)
        /\ Len(Append(today[u], TRUE)) = Len(today[u]) + 1
        /\ \A v \in Users : Len(today[v]) \in Nat /\ DOMAIN today[v] = 1 .. Len(today[v])
    BY <1>1, <2>1, AppendProperties, LenProperties DEF DaysOK
  <2>3. /\ today' \in [Users -> Seq(BOOLEAN)] /\ Len(today'[u]) = Len(today[u]) + 1
        /\ \A v \in Users \ {u} : today'[v] = today[v]
    BY <1>1, <2>1, <2>2 DEF DaysOK
  <2>4. DaysOK'
    BY <1>1, <1>4, <2>3 DEF DaysOK, Restricted, Person
  <2>5. SameDays
    <3>1. DOMAIN today'[u] = 1 .. Len(today[u]) + 1
      BY <2>1, <2>3, LenProperties
    <3>2. DOMAIN today[u] \subseteq DOMAIN today'[u]
      BY <2>1, <2>2, <3>1
    <3> QED BY <2>3, <3>2 DEF SameDays
  <2>6. r \in Attending(u) /\ Attending(u)' = Attending(u) \ {r}
        /\ \A v \in Users \ {u} : Attending(v)' = Attending(v)
    <3>1. req'[r].op = "free" /\ \A q \in Requests \ {r} : req'[q] = req[q]
      BY <1>1, FreeFacts DEF Answer, RequestsOK
    <3> QED BY <1>1, <1>4, <3>1 DEF Attending
  <2>7. OnceOK'
    <3> SUFFICES ASSUME NEW v \in Users
                 PROVE  /\ Len(today'[v]) > 1 => v \in doubled
                        /\ \A p, q \in Attending(v)' : p = q \/ v \in doubled
                        /\ Attending(v)' # {} /\ Len(today'[v]) > 0 => v \in doubled
                        /\ Len(today'[v]) + Cardinality(Attending(v)') <= Cardinality(Requests)
      BY <1>1 DEF OnceOK
    <3>1. CASE v = u
      <4>1. Attending(u) \in SUBSET Requests
        BY DEF Attending
      <4>2. /\ Cardinality(Attending(u)') = Cardinality(Attending(u)) - 1
            /\ Cardinality(Attending(u)) \in Nat /\ Cardinality(Requests) \in Nat
        BY <2>6, <4>1, SomeRequests, FS_RemoveElement
      <4>3. /\ \A p, q \in Attending(u) : p = q \/ u \in doubled
            /\ Attending(u) # {} /\ Len(today[u]) > 0 => u \in doubled
            /\ Len(today[u]) + Cardinality(Attending(u)) <= Cardinality(Requests)
            /\ Len(today[u]) \in Nat
        BY <1>1, <2>2 DEF OnceOK
      <4>4. Len(today'[u]) > 1 => u \in doubled
        BY <2>3, <2>6, <4>3
      <4>5. \A p, q \in Attending(u)' : p = q \/ u \in doubled
        BY <2>6, <4>3
      <4>6. Attending(u)' # {} => u \in doubled
        BY <2>6, <4>3
      <4> QED BY <2>3, <3>1, <4>2, <4>3, <4>4, <4>5, <4>6
    <3>2. CASE v # u
      BY <1>1, <2>3, <2>6, <3>2 DEF OnceOK
    <3> QED BY <3>1, <3>2
  <2> QED BY <1>1, <1>2, <2>4, <2>5, <2>7, DaysWritten
<1>5. req[r].user \in Users
  BY <1>1 DEF RequestsOK, FieldsOK
<1> QED BY <1>3, <1>4, <1>5

LEMMA CloseRecordStep ==
  ASSUME IInv, NEW r \in Requests, CloseRecord(r)
  PROVE  IInv'
<1> DEFINE u == req[r].user
           n == req[r].target
<1>1. /\ UNCHANGED <<accounts, born, tasks, teams, devices, kept, projections, doubled>>
      /\ RequestsOK /\ OnceOK /\ DaysOK /\ Answer(r) /\ req[r].op = "attend.out"
      /\ today' = [today EXCEPT ![u][n] = FALSE]
  BY DEF IInv, CloseRecord
<1>2. NoneGoesOn /\ \A q \in Requests : req'[q] \in {req[q], Free}
  BY <1>1, AnswerGoesOn
<1>3. u \in Users /\ n \in DOMAIN today[u]
  BY <1>1 DEF RequestsOK, FieldsOK
<1> HIDE DEF u, n
<1> DEFINE new == [today[u] EXCEPT ![n] = FALSE]
<1>4. /\ today[u] \in Seq(BOOLEAN) /\ DOMAIN today[u] = 1 .. Len(today[u])
      /\ \A v \in Users : Len(today[v]) \in Nat
  BY <1>1, <1>3, LenProperties DEF DaysOK
<1>5. new \in Seq(BOOLEAN) /\ Len(new) = Len(today[u]) /\ DOMAIN new = DOMAIN today[u]
  BY <1>3, <1>4, ExceptSeq
<1> HIDE DEF new
<1>6. today' = [today EXCEPT ![u] = new]
  BY <1>1 DEF new
<1>7. /\ today' \in [Users -> Seq(BOOLEAN)] /\ today'[u] = new
      /\ \A v \in Users \ {u} : today'[v] = today[v]
  BY <1>1, <1>3, <1>5, <1>6 DEF DaysOK
<1>8. DaysOK' /\ SameDays
  <2>1. today[u] # << >>
    BY <1>3, <1>4, EmptySeq
  <2> QED BY <1>1, <1>3, <1>5, <1>7, <2>1 DEF DaysOK, SameDays, Restricted, Person
<1>9. OnceOK'
  <2>1. \A v \in Users : Len(today'[v]) = Len(today[v])
    BY <1>5, <1>7
  <2>2. today \in [Users -> Seq(BOOLEAN)]
    BY <1>1 DEF DaysOK
  <2> QED BY <1>1, <1>2, <2>1, <2>2, NoneAttends, OnceKept
<1> QED BY <1>1, <1>2, <1>8, <1>9, DaysWritten

LEMMA NewDayStep ==
  ASSUME IInv, NewDay
  PROVE  IInv'
<1>1. /\ UNCHANGED <<accounts, born, tasks, teams, devices, projections, req>>
      /\ RequestsOK /\ LookedOK /\ SigningOK /\ DaysOK
      /\ \A r \in Requests : req[r].op \notin {"attend.in", "attend.out"}
      /\ kept' = kept \cup {u \in Users : today[u] # << >>}
      /\ today' = [u \in Users |-> << >>]
  BY DEF IInv, NewDay
<1>2. PeopleOK' /\ RowsOK' /\ NoTakers /\ SameSignIns
  BY <1>1, OthersUnchanged
<1>3. DaysOK'
  <2>1. << >> \in Seq(BOOLEAN)
    BY EmptySeq
  <2> QED BY <1>1, <2>1 DEF DaysOK, Restricted, Person
<1>4. RequestsOK'
  BY <1>1 DEF RequestsOK, FieldsOK
<1>5. LookedOK' /\ SigningOK'
  <2>1. NoneGoesOn
    BY <1>1 DEF NoneGoesOn, RequestsOK
  <2> QED BY <1>1, <1>2, <2>1, AllLookedKept, AllSignedKept
<1>6. OnceOK'
  <2> SUFFICES ASSUME NEW u \in Users
               PROVE  /\ Len(today'[u]) = 0
                      /\ Attending(u)' = {}
                      /\ Cardinality(Attending(u)') <= Cardinality(Requests)
                      /\ Cardinality(Attending(u)') \in Nat
    BY DEF OnceOK
  <2>1. Len(today'[u]) = 0
    BY <1>1, EmptySeq
  <2>2. Attending(u)' = {}
    BY <1>1 DEF Attending
  <2> QED BY <2>1, <2>2, SomeRequests
<1> QED BY <1>2, <1>3, <1>4, <1>5, <1>6 DEF IInv

LEMMA ApplyForLeaveStep ==
  ASSUME IInv, NEW u \in Users, ApplyForLeave(u)
  PROVE  IInv'
<1>1. /\ UNCHANGED <<accounts, born, tasks, teams, devices, today, projections, req, area, doubled>>
      /\ kept' = kept \cup {u} /\ u \in Person
  BY DEF ApplyForLeave
<1>2. PeopleOK' /\ RowsOK' /\ NoTakers /\ SameSignIns
  BY <1>1, OthersUnchanged
<1>3. DaysOK'
  BY <1>1 DEF IInv, DaysOK, Restricted, Person
<1> QED BY <1>1, <1>2, <1>3, WrittenQuietly

\* Projections name people, and keep the one who created them.
LEMMA ProjectionStep ==
  ASSUME IInv, \/ \E u, v \in Users : CreateProjection(u, v)
               \/ \E p \in projections : CancelProjection(p)
  PROVE  IInv'
<1>1. /\ UNCHANGED <<accounts, born, tasks, teams, devices, today, kept, req, area, doubled>>
      /\ \/ projections' \subseteq projections
         \/ \E u, v \in Person : projections' = projections \cup {[employee |-> u, creator |-> v]}
  BY DEF CreateProjection, CancelProjection
<1>2. PeopleOK' /\ RowsOK' /\ NoTakers /\ SameSignIns
  BY <1>1, OthersUnchanged
<1>3. DaysOK'
  <2>1. \A q \in projections' : q \in [employee : Person, creator : Person]
    BY <1>1 DEF IInv, DaysOK
  <2>2. \A u \in Users : Restricted(u)' => u \in Person
    BY <1>1, <2>1 DEF IInv, DaysOK, Restricted
  <2> QED BY <1>1, <2>1, <2>2 DEF IInv, DaysOK, Person
<1> QED BY <1>1, <1>2, <1>3, WrittenQuietly

-----------------------------------------------------------------------------
(* The invariant holds.                                                    *)

LEMMA InitIInv == Init => IInv
<1> SUFFICES ASSUME Init PROVE IInv
  OBVIOUS
<1>1. PICK S \in SUBSET Users :
        accounts \in [S -> [email : Emails, code : {NoCode}, active : BOOLEAN]]
  BY DEF Init
<1>2. /\ Person = S /\ born = S
      /\ tasks = << >> /\ teams = << >> /\ devices = << >>
      /\ today = [u \in Users |-> << >>] /\ kept = {} /\ projections = {} /\ doubled = {}
      /\ req = [r \in Requests |-> Free]
      /\ \A u, v \in Person : accounts[u].email = accounts[v].email => u = v
  BY <1>1 DEF Init, Person
<1>3. PeopleOK
  <2>1. \A u \in S : accounts[u] \in Account /\ accounts[u].code = NoCode
    BY <1>1 DEF Account, Code
  <2>2. accounts \in [S -> Account]
    BY <1>1, <2>1
  <2>3. accounts \in PartialMap(Users, Account)
    BY <2>2 DEF PartialMap
  <2> QED BY <1>2, <2>1, <2>3 DEF PeopleOK, CodeTaken
<1>4. RowsOK
  BY <1>2 DEF RowsOK, TasksOK, TeamsOK, DevicesOK
<1>5. DaysOK
  <2>1. << >> \in Seq(BOOLEAN)
    BY EmptySeq
  <2> QED BY <1>2, <2>1 DEF DaysOK, Restricted
<1>6. RequestsOK /\ LookedOK /\ SigningOK
  BY <1>2, FreeFacts DEF RequestsOK, LookedOK, LookedAt, SigningOK, SignedAt
<1>7. OnceOK
  <2>1. \A u \in Users : Attending(u) = {}
    BY <1>2, FreeFacts DEF Attending
  <2>2. \A u \in Users : Len(today[u]) = 0
    BY <1>2, EmptySeq
  <2>3. Cardinality({}) = 0
    BY FS_EmptySet
  <2>4. Cardinality(Requests) \in Nat
    BY SomeRequests
  <2> SUFFICES ASSUME NEW u \in Users
               PROVE  /\ ~ (Len(today[u]) > 1)
                      /\ Attending(u) = {}
                      /\ Len(today[u]) + Cardinality(Attending(u)) <= Cardinality(Requests)
    BY <2>1 DEF OnceOK
  <2>5. Len(today[u]) = 0 /\ Cardinality(Attending(u)) = 0
    BY <2>1, <2>2, <2>3
  <2> QED BY <2>1, <2>4, <2>5
<1> QED BY <1>3, <1>4, <1>5, <1>6, <1>7 DEF IInv

\* No step breaks the invariant.
LEMMA NextIInv == IInv /\ [Next]_vars => IInv'
<1> SUFFICES ASSUME IInv, [Next]_vars PROVE IInv'
  OBVIOUS
<1>1. CASE NewDay
  BY <1>1, NewDayStep
<1>2. ASSUME NEW r \in Requests,
             \/ Register(r)
             \/ \E u \in Users : UpdateProfile(r, u) \/ SetEmpcode(r, u) \/ RemoveUser(r, u)
      PROVE  IInv'
  BY <1>2, AccountAsked
<1>3. ASSUME NEW r \in Requests,
             \/ CheckCode(r) \/ StoreRegistration(r) \/ StoreAccount(r)
             \/ RemoveUnassign(r) \/ RemoveDelete(r)
      PROVE  IInv'
  BY <1>3, CheckCodeStep, StoreRegistrationStep, StoreAccountStep, RemoveUnassignStep,
     RemoveDeleteStep
<1>4. ASSUME NEW r \in Requests, CreateTeam(r) \/ \E g \in Teams : UpdateTeam(r, g)
      PROVE  IInv'
  BY <1>4, TeamAsked
<1>5. ASSUME NEW r \in Requests, StoreNewTeam(r) \/ StoreTeam(r) PROVE IInv'
  BY <1>5, StoreNewTeamStep, StoreTeamStep
<1>6. ASSUME NEW r \in Requests,
             \/ \E d \in Devices : AuthenticateDevice(r, d)
             \/ DeviceUser(r) \/ DeviceSign(r) \/ Fail(r)
      PROVE  IInv'
  BY <1>6, DeviceAsked
<1>7. ASSUME NEW r \in Requests,
             \/ CreateRecord(r) \/ CloseRecord(r)
             \/ \E u \in Users : CheckIn(r, u) \/ CheckOut(r, u)
      PROVE  IInv'
  BY <1>7, CreateRecordStep, CloseRecordStep, CheckInStep, CheckOutStep
<1>8. ASSUME NEW u \in Users, ApproveUser(u) \/ ApplyForLeave(u) PROVE IInv'
  BY <1>8, ApproveUserStep, ApplyForLeaveStep
<1>9. CASE \E t \in Tasks : RemoveTask(t) \/ \E u, v \in Users : CreateTask(t, u, v)
  BY <1>9, TaskStep
<1>10. ASSUME NEW g \in Teams,
              RemoveTeam(g) \/ \E u \in Users : AddMember(g, u) \/ RemoveMember(g, u)
       PROVE  IInv'
  BY <1>10, TeamStep
<1>11. ASSUME NEW d \in Devices, RevokeDevice(d) \/ \E u \in Users : RegisterDevice(d, u)
       PROVE  IInv'
  BY <1>11, RevokeDeviceStep, RegisterDeviceStep
<1>12. CASE \/ \E u, v \in Users : CreateProjection(u, v)
            \/ \E p \in projections : CancelProjection(p)
  BY <1>12, ProjectionStep
<1>13. CASE UNCHANGED vars
  <2>1. PeopleOK' /\ RowsOK' /\ DaysOK' /\ NoTakers /\ SameSignIns
    BY <1>13, OthersUnchanged DEF vars, IInv, DaysOK, Restricted, Person
  <2> QED BY <1>13, <2>1, WrittenQuietly DEF vars
<1> QED BY <1>1, <1>2, <1>3, <1>4, <1>5, <1>6, <1>7, <1>8, <1>9, <1>10, <1>11, <1>12, <1>13 DEF Next

\* The inductive invariant holds in every state.
LEMMA IInvHolds == Spec => []IInv
BY InitIInv, NextIInv, PTL DEF Spec

\* Handlers look before they write, the database keeps its keys and foreign keys,
\* and removal unassigns what the account was given before and during it: no row
\* is left that names an account that is gone, and no two share a key.
THEOREM RowsNameAccounts == Spec => []NamesExist
<1>1. IInv => NamesExist
  BY DEF IInv, PeopleOK, RowsOK, TasksOK, TeamsOK, DevicesOK, DaysOK, RequestsOK, NamesExist
<1> QED BY <1>1, IInvHolds, PTL

\* What a handler has looked up before its write is as it found it, unless another
\* request wrote to the table meanwhile: only then can the key be refused.
THEOREM LooksSuffice == Spec => []ChecksSuffice
<1>1. IInv => ChecksSuffice
  BY DEF IInv, LookedOK, LookedAt, ChecksSuffice
<1> QED BY <1>1, IInvHolds, PTL

\* checkIn reads the records of the day and then creates one: a second one needs a
\* second check-in of the user before the first one has been written.
THEOREM OneRecordADay == Spec => []OneRecordPerDay
<1>1. IInv => OneRecordPerDay
  BY DEF IInv, OnceOK, OneRecordPerDay
<1> QED BY <1>1, IInvHolds, PTL

\* authenticateDevice signs a token for the account it found active, whose device
\* was not revoked when it was read.
THEOREM SignInsCurrent == Spec => []SignInCurrent
<1>1. IInv => SignInCurrent
  <2> SUFFICES ASSUME IInv, NEW r \in Requests, req[r].op = "device.sign",
                      req[r].target \in DOMAIN devices
               PROVE  /\ req[r].user \in Person /\ accounts[req[r].user].active
                      /\ devices[req[r].target].revoked => req[r].behind
    BY DEF SignInCurrent
  <2>1. SignedAt(req[r]) /\ devices[req[r].target] \in [user : Person, revoked : BOOLEAN]
    BY DEF IInv, SigningOK, RowsOK, DevicesOK
  <2> QED BY <2>1 DEF SignedAt
<1> QED BY <1>1, IInvHolds, PTL
==============================================================================
