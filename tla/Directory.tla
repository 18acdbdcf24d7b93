------------------------------ MODULE Directory ------------------------------
(***************************************************************************)
(* The people of the system and the rows that name them: accounts          *)
(* (users.service.ts, register and updateProfile of auth.service.ts),      *)
(* the assignment of tasks, teams, the device tokens of the desktop agent  *)
(* and the attendance of the day.                                          *)
(*                                                                         *)
(* Handlers look first and write later, with other requests in between;    *)
(* the database refuses what its keys forbid (schema.prisma).  An account  *)
(* is removed in two writes, and the second may be refused.                *)
(***************************************************************************)
EXTENDS Integers, Sequences, FiniteSets, Rows

CONSTANTS Users,      \* ids of accounts: never used again
          Emails,
          Empcodes,   \* employee codes as they are stored
          Tasks, Teams, TeamNames, Devices,
          Requests,   \* bound: requests served at the same time
          Areas,      \* bound: a behaviour is about the topics of one of these
          Nobody,     \* NULL for a user
          NoCode,     \* NULL for an employee code
          Blank,      \* the employee code '': what setEmpcode makes of '0' or '  '
          None        \* a field of a request that is not used

ASSUME NullAssumption ==
  /\ Nobody \notin Users /\ NoCode # Blank /\ {NoCode, Blank} \cap Empcodes = {}
  /\ None \notin TeamNames \cup Teams
ASSUME AreaAssumption == Areas \subseteq SUBSET {"profile", "work", "projection", "team", "device"}
ASSUME SmallAssumption == IsFiniteSet(Requests)

VARIABLES accounts,  \* the users there are, by id
          born,      \* ids given out so far, in every table
          tasks, teams, devices,
          today,     \* a user's records of today, oldest first: is it open?
          kept,      \* users in rows nothing deletes: leaves, earlier records
          projections,   \* who works for whom in at least one projection
          req,       \* requests being served
          area,      \* bound: what the requests of this behaviour are about
          doubled    \* history: users whose check-ins of the day overlapped

vars == <<accounts, born, tasks, teams, devices, today, kept, projections, req, area, doubled>>

Code == Empcodes \cup {NoCode, Blank}
Account == [email : Emails, code : Code, active : BOOLEAN]
Person == DOMAIN accounts

Free == [op |-> "free", user |-> Nobody, key |-> None, code |-> NoCode,
         target |-> None, behind |-> FALSE]

Steps == {"free", "register.code", "register.store", "profile.code", "profile.store",
          "empcode.code", "empcode.store", "remove.unassign", "remove.delete",
          "team.create", "team.update", "device.user", "device.sign",
          "attend.in", "attend.out"}

\* What a handler keeps between two awaits: the unique key it wants to write, the
\* row it means, and whether another write has overtaken what it looked at.
Request == [op : Steps, user : Users \cup {Nobody}, key : Emails \cup TeamNames \cup {None},
            code : Code, target : Teams \cup Devices \cup {None} \cup (1 .. Cardinality(Requests)),
            behind : BOOLEAN]

PartialMap(D, R) == UNION {[S -> R] : S \in SUBSET D}

Init ==
  /\ area \in Areas
  /\ \E S \in SUBSET Users : accounts \in [S -> [email : Emails, code : {NoCode}, active : BOOLEAN]]
  /\ \A u, v \in Person : accounts[u].email = accounts[v].email => u = v
  /\ born = Person
  /\ tasks = << >> /\ teams = << >> /\ devices = << >>
  /\ today = [u \in Users |-> << >>] /\ kept = {} /\ projections = {}
  /\ doubled = {}
  /\ req = [r \in Requests |-> Free]

-----------------------------------------------------------------------------
Idle(r, a) == req[r].op = "free" /\ a \in area

Begin(r, fields) == req' = [req EXCEPT ![r] = fields]

Continue(r, op) == req' = [req EXCEPT ![r].op = op]

Answer(r) == req' = [req EXCEPT ![r] = Free]

\* The request has written what other requests may have checked.
AnswerAhead(r) ==
  req' = [q \in Requests |-> IF q = r \/ req[q].op = "free" THEN Free
                                ELSE [req[q] EXCEPT !.behind = TRUE]]

\* A call rejects, or the process ends.
Fail(r) == Answer(r) /\ req[r].op # "free"
           /\ UNCHANGED <<accounts, born, tasks, teams, devices, today, kept, projections, area, doubled>>

-----------------------------------------------------------------------------
(* Accounts: register, updateProfile, setEmpcode. *)

Directed == <<tasks, teams, devices, today, kept, projections, area, doubled>>

EmailTaken(e, self) == \E u \in Person \ {self} : accounts[u].email = e
CodeTaken(c, self) == c # NoCode /\ \E u \in Person \ {self} : accounts[u].code = c

\* Bound: codes are given where a behaviour is about profiles.
Register(r) ==
  /\ req[r].op = "free"
  /\ \E e \in Emails, c \in (IF "profile" \in area THEN Empcodes ELSE {}) \cup {NoCode} :
       /\ ~ EmailTaken(e, Nobody)
       /\ Begin(r, [Free EXCEPT !.op = "register.code", !.key = e, !.code = c])
  /\ UNCHANGED <<accounts, born>> /\ UNCHANGED Directed

\* What the form leaves out is NULL, and is written as such.
UpdateProfile(r, u) ==
  /\ Idle(r, "profile") /\ u \in Person
  /\ \E e \in Emails, c \in Empcodes \cup {NoCode} :
       /\ ~ EmailTaken(e, u)
       /\ Begin(r, [Free EXCEPT !.op = "profile.code", !.user = u, !.key = e, !.code = c])
  /\ UNCHANGED <<accounts, born>> /\ UNCHANGED Directed

\* A code that is left out, or empty, is NULL; one of zeros or blanks is stripped to
\* an empty string, and stored.  Neither is looked up.
SetEmpcode(r, u) ==
  /\ Idle(r, "profile") /\ u \in Person
  /\ \E c \in Code :
       Begin(r, [Free EXCEPT !.op = IF c \in {Blank, NoCode} THEN "empcode.store" ELSE "empcode.code",
                             !.user = u, !.code = c])
  /\ UNCHANGED <<accounts, born>> /\ UNCHANGED Directed

Checked(op) == CASE op = "register.code" -> "register.store"
                 [] op = "profile.code" -> "profile.store"
                 [] op = "empcode.code" -> "empcode.store"

\* Mutant: only registrations are looked up.
CheckCode_Registrations(r) ==
  /\ req[r].op \in {"register.code", "profile.code", "empcode.code"}
  /\ IF req[r].user = Nobody /\ CodeTaken(req[r].code, Nobody)
       THEN Answer(r) ELSE Continue(r, Checked(req[r].op))
  /\ UNCHANGED <<accounts, born>> /\ UNCHANGED Directed

CheckCode(r) ==
  /\ req[r].op \in {"register.code", "profile.code", "empcode.code"}
  /\ IF CodeTaken(req[r].code, req[r].user)
       THEN Answer(r) ELSE Continue(r, Checked(req[r].op))
  /\ UNCHANGED <<accounts, born>> /\ UNCHANGED Directed

\* The keys of the table: one account an email, one an employee code.
Acceptable(e, c, self) == ~ EmailTaken(e, self) /\ ~ CodeTaken(c, self)

StoreRegistration(r) ==
  /\ req[r].op = "register.store"
  /\ IF Acceptable(req[r].key, req[r].code, Nobody)
       THEN \E u \in Users \ born :
              /\ accounts' = Insert(accounts, u,
                   [email |-> req[r].key, code |-> req[r].code, active |-> FALSE])
              /\ born' = born \cup {u}
              /\ AnswerAhead(r)
       ELSE Answer(r) /\ UNCHANGED <<accounts, born>>
  /\ UNCHANGED Directed

\* The update fails when a key forbids it or the account is gone.
StoreAccount(r) ==
  LET u == req[r].user
      e == IF req[r].op = "profile.store" THEN req[r].key ELSE accounts[u].email
  IN  /\ req[r].op \in {"profile.store", "empcode.store"}
      /\ IF u \in Person /\ Acceptable(e, req[r].code, u)
           THEN /\ accounts' = [accounts EXCEPT ![u].email = e, ![u].code = req[r].code]
                /\ AnswerAhead(r)
           ELSE Answer(r) /\ UNCHANGED accounts
      /\ UNCHANGED born /\ UNCHANGED Directed

\* Approval of any account makes it active; setRole and the flags that list a
\* user for assignment are looked at nowhere else and left out.
ApproveUser(u) ==
  /\ u \in Person
  /\ accounts' = [accounts EXCEPT ![u].active = TRUE]
  /\ UNCHANGED <<born, req>> /\ UNCHANGED Directed

-----------------------------------------------------------------------------
(* removeUser and rejectUser: the same calls, whoever the user is. *)

RemoveUser(r, u) ==
  /\ req[r].op = "free" /\ u \in Person
  /\ Begin(r, [Free EXCEPT !.op = "remove.unassign", !.user = u])
  /\ UNCHANGED <<accounts, born>> /\ UNCHANGED Directed

\* Both people are taken off a task of which the user was one.
RemoveUnassign(r) ==
  /\ req[r].op = "remove.unassign"
  /\ tasks' = [t \in DOMAIN tasks |->
                 IF req[r].user \in {tasks[t].assignee, tasks[t].allotter}
                   THEN [assignee |-> Nobody, allotter |-> Nobody] ELSE tasks[t]]
  /\ Continue(r, "remove.delete")
  /\ UNCHANGED <<accounts, born, teams, devices, today, kept, projections, area, doubled>>

\* Rows without a rule of their own keep the account from being deleted, and so do
\* the projections it has created.
Restricted(u) ==
  u \in kept \/ today[u] # << >> \/ \E p \in projections : p.creator = u

Without(u, someone) == IF someone = u THEN Nobody ELSE someone

\* Mutant: after the tasks were unassigned, none can name the user.
Cascade_NotTasks(u) ==
  /\ tasks' = tasks
  /\ teams' = [g \in DOMAIN teams |-> [teams[g] EXCEPT !.manager = Without(u, @),
                                                       !.members = @ \ {u}]]
  /\ devices' = Delete(devices, {d \in DOMAIN devices : devices[d].user = u})
  /\ projections' = {p \in projections : p.employee # u}

\* What the database does to the rows that name the account (onDelete).
Cascade(u) ==
  /\ tasks' = [t \in DOMAIN tasks |-> [assignee |-> Without(u, tasks[t].assignee),
                                       allotter |-> Without(u, tasks[t].allotter)]]
  /\ teams' = [g \in DOMAIN teams |-> [teams[g] EXCEPT !.manager = Without(u, @),
                                                       !.members = @ \ {u}]]
  /\ devices' = Delete(devices, {d \in DOMAIN devices : devices[d].user = u})
  /\ projections' = {p \in projections : p.employee # u}

RemoveDelete(r) ==
  LET u == req[r].user
  IN  /\ req[r].op = "remove.delete"
      /\ IF u \notin Person \/ Restricted(u)
           THEN UNCHANGED <<accounts, tasks, teams, devices, projections>>
           ELSE accounts' = Delete(accounts, {u}) /\ Cascade(u)
      /\ Answer(r)
      /\ UNCHANGED <<born, today, kept, area, doubled>>

-----------------------------------------------------------------------------
(* Tasks: only what names a user.  The assignee is given once. *)

CreateTask(t, assignee, allotter) ==
  /\ "work" \in area /\ t \notin born
  /\ born' = born \cup {t}
  /\ {assignee, allotter} \subseteq Person
  /\ tasks' = Insert(tasks, t, [assignee |-> assignee, allotter |-> allotter])
  /\ UNCHANGED <<accounts, teams, devices, today, kept, projections, req, area, doubled>>

RemoveTask(t) ==
  /\ t \in DOMAIN tasks
  /\ tasks' = Delete(tasks, {t})
  /\ UNCHANGED <<accounts, born, teams, devices, today, kept, projections, req, area, doubled>>

-----------------------------------------------------------------------------
(* Projections: who works for whom. *)

\* The employee must be active: once he is, he stays so until he is removed.
CreateProjection(employee, creator) ==
  /\ "projection" \in area
  /\ {employee, creator} \subseteq Person /\ accounts[employee].active
  /\ projections' = projections \cup {[employee |-> employee, creator |-> creator]}
  /\ UNCHANGED <<accounts, born, tasks, teams, devices, today, kept, req, area, doubled>>

\* The last one of the two.
CancelProjection(p) ==
  /\ p \in projections
  /\ projections' = projections \ {p}
  /\ UNCHANGED <<accounts, born, tasks, teams, devices, today, kept, req, area, doubled>>

-----------------------------------------------------------------------------
(* Attendance of the day, and leaves. *)

\* Mutant: an open record is the only obstacle.
Admitted_Again(u) == today[u] # << >> => ~ Head(today[u])

\* The newest record of today decides: there is none that is neither open nor
\* complete, and so none to be updated.
Admitted(u) == today[u] = << >>

CheckIn(r, u) ==
  /\ Idle(r, "work") /\ u \in Person /\ Admitted(u)
  /\ Begin(r, [Free EXCEPT !.op = "attend.in", !.user = u])
  /\ doubled' = IF \E q \in Requests : req[q].op = "attend.in" /\ req[q].user = u
                  THEN doubled \cup {u} ELSE doubled
  /\ UNCHANGED <<accounts, born, tasks, teams, devices, today, kept, projections, area>>

CreateRecord(r) ==
  LET u == req[r].user
  IN  /\ req[r].op = "attend.in"
      /\ today' = IF u \notin Person THEN today
                    ELSE [today EXCEPT ![u] = Append(@, TRUE)]
      /\ Answer(r)
      /\ UNCHANGED <<accounts, born, tasks, teams, devices, kept, projections, area, doubled>>

CheckOut(r, u) ==
  LET n == Len(today[u])
  IN  /\ Idle(r, "work") /\ n > 0 /\ today[u][n]
      /\ Begin(r, [Free EXCEPT !.op = "attend.out", !.user = u, !.target = n])
      /\ UNCHANGED <<accounts, born>> /\ UNCHANGED Directed

CloseRecord(r) ==
  /\ req[r].op = "attend.out"
  /\ today' = [today EXCEPT ![req[r].user][req[r].target] = FALSE]
  /\ Answer(r)
  /\ UNCHANGED <<accounts, born, tasks, teams, devices, kept, projections, area, doubled>>

\* Midnight, with no check-in or check-out half way: open records stay open.
NewDay ==
  /\ \A r \in Requests : req[r].op \notin {"attend.in", "attend.out"}
  /\ kept' = kept \cup {u \in Users : today[u] # << >>}
  /\ today' = [u \in Users |-> << >>] /\ doubled' = {}
  /\ today # today'
  /\ UNCHANGED <<accounts, born, tasks, teams, devices, projections, req, area>>

ApplyForLeave(u) ==
  /\ "work" \in area /\ u \in Person
  /\ kept' = kept \cup {u}
  /\ UNCHANGED <<accounts, born, tasks, teams, devices, today, projections, req, area, doubled>>

-----------------------------------------------------------------------------
(* Teams *)

NameTaken(n, self) == \E g \in DOMAIN teams \ {self} : teams[g].name = n

CreateTeam(r) ==
  /\ Idle(r, "team")
  /\ \E n \in TeamNames :
       ~ NameTaken(n, None) /\ Begin(r, [Free EXCEPT !.op = "team.create", !.key = n])
  /\ UNCHANGED <<accounts, born>> /\ UNCHANGED Directed

\* A name that is not given is not checked, nor written.
UpdateTeam(r, g) ==
  /\ Idle(r, "team") /\ g \in DOMAIN teams
  /\ \/ \E n \in TeamNames :
          ~ NameTaken(n, g) /\ Begin(r, [Free EXCEPT !.op = "team.update", !.target = g, !.key = n])
     \/ Begin(r, [Free EXCEPT !.op = "team.update", !.target = g])
  /\ UNCHANGED <<accounts, born>> /\ UNCHANGED Directed

TeamRow(n, m, ms) == [name |-> n, manager |-> m, members |-> ms]

\* The people a team is given must exist, or the write fails.
StoreNewTeam(r) ==
  /\ req[r].op = "team.create"
  /\ IF NameTaken(req[r].key, None)
       THEN Answer(r) /\ UNCHANGED <<born, teams>>
       ELSE \E g \in Teams \ born, m \in Person \cup {Nobody}, ms \in SUBSET Person :
              /\ teams' = Insert(teams, g, TeamRow(req[r].key, m, ms))
              /\ born' = born \cup {g}
              /\ AnswerAhead(r)
  /\ UNCHANGED <<accounts, tasks, devices, today, kept, projections, area, doubled>>

StoreTeam(r) ==
  LET g == req[r].target
      n == req[r].key
  IN  /\ req[r].op = "team.update"
      /\ IF g \notin DOMAIN teams \/ NameTaken(n, g)
           THEN Answer(r) /\ UNCHANGED teams
           ELSE \E m \in Person \cup {Nobody}, ms \in SUBSET Person :
                  /\ teams' = [teams EXCEPT ![g] =
                                 TeamRow(IF n = None THEN @.name ELSE n, m, ms)]
                  /\ AnswerAhead(r)
      /\ UNCHANGED <<accounts, born, tasks, devices, today, kept, projections, area, doubled>>

RemoveTeam(g) ==
  /\ g \in DOMAIN teams
  /\ teams' = Delete(teams, {g})
  /\ UNCHANGED <<accounts, born, tasks, devices, today, kept, projections, req, area, doubled>>

AddMember(g, u) ==
  /\ g \in DOMAIN teams /\ u \in Person
  /\ teams' = [teams EXCEPT ![g].members = @ \cup {u}]
  /\ UNCHANGED <<accounts, born, tasks, devices, today, kept, projections, req, area, doubled>>

RemoveMember(g, u) ==
  /\ g \in DOMAIN teams
  /\ teams' = [teams EXCEPT ![g].members = @ \ {u}]
  /\ UNCHANGED <<accounts, born, tasks, devices, today, kept, projections, req, area, doubled>>

-----------------------------------------------------------------------------
(* Device tokens of the agent *)

RegisterDevice(d, u) ==
  /\ "device" \in area /\ d \notin born /\ u \in Person
  /\ born' = born \cup {d}
  /\ devices' = Insert(devices, d, [user |-> u, revoked |-> FALSE])
  /\ UNCHANGED <<accounts, tasks, teams, today, kept, projections, req, area, doubled>>

\* A request that has read the device is not told.
RevokeDevice(d) ==
  /\ d \in DOMAIN devices
  /\ devices' = [devices EXCEPT ![d].revoked = TRUE]
  /\ req' = [r \in Requests |-> IF req[r].op \in {"device.user", "device.sign"} /\ req[r].target = d
                                  THEN [req[r] EXCEPT !.behind = TRUE] ELSE req[r]]
  /\ UNCHANGED <<accounts, born, tasks, teams, today, kept, projections, area, doubled>>

\* Mutant: any device that is known.
AuthenticateDevice_Known(r, d) ==
  /\ Idle(r, "device") /\ d \in DOMAIN devices
  /\ Begin(r, [Free EXCEPT !.op = "device.user", !.user = devices[d].user, !.target = d])
  /\ UNCHANGED <<accounts, born>> /\ UNCHANGED Directed

AuthenticateDevice(r, d) ==
  /\ Idle(r, "device") /\ d \in DOMAIN devices /\ ~ devices[d].revoked
  /\ Begin(r, [Free EXCEPT !.op = "device.user", !.user = devices[d].user, !.target = d])
  /\ UNCHANGED <<accounts, born>> /\ UNCHANGED Directed

DeviceUser(r) ==
  LET u == req[r].user
  IN  /\ req[r].op = "device.user"
      /\ IF u \in Person /\ accounts[u].active THEN Continue(r, "device.sign") ELSE Answer(r)
      /\ UNCHANGED <<accounts, born>> /\ UNCHANGED Directed

\* lastUsedAt is stored and the token signed; without the row the update fails.
DeviceSign(r) ==
  /\ req[r].op = "device.sign"
  /\ Answer(r)
  /\ UNCHANGED <<accounts, born>> /\ UNCHANGED Directed

-----------------------------------------------------------------------------
Next ==
  \/ NewDay
  \/ \E r \in Requests :
       \/ Register(r) \/ CheckCode(r) \/ StoreRegistration(r) \/ StoreAccount(r)
       \/ RemoveUnassign(r) \/ RemoveDelete(r)
       \/ CreateRecord(r) \/ CloseRecord(r)
       \/ CreateTeam(r) \/ StoreNewTeam(r) \/ StoreTeam(r)
       \/ DeviceUser(r) \/ DeviceSign(r) \/ Fail(r)
       \/ \E u \in Users : \/ UpdateProfile(r, u) \/ SetEmpcode(r, u) \/ RemoveUser(r, u)
                            \/ CheckIn(r, u) \/ CheckOut(r, u)
       \/ \E g \in Teams : UpdateTeam(r, g)
       \/ \E d \in Devices : AuthenticateDevice(r, d)
  \/ \E u \in Users :
       \/ ApproveUser(u) \/ ApplyForLeave(u)
       \/ \E t \in Tasks, v \in Users : CreateTask(t, u, v)
       \/ \E v \in Users : CreateProjection(u, v)
       \/ \E g \in Teams : AddMember(g, u) \/ RemoveMember(g, u)
       \/ \E d \in Devices : RegisterDevice(d, u)
  \/ \E t \in Tasks : RemoveTask(t)
  \/ \E p \in projections : CancelProjection(p)
  \/ \E g \in Teams : RemoveTeam(g)
  \/ \E d \in Devices : RevokeDevice(d)

Spec == Init /\ [][Next]_vars

-----------------------------------------------------------------------------
(* Properties *)

\* Whoever a row names exists, also when the row was written while the account
\* was being removed, and no two accounts or teams share a key.
NamesExist ==
  /\ accounts \in PartialMap(Users, Account)
  /\ Person \subseteq born
  /\ \A u, v \in Person : accounts[u].email = accounts[v].email => u = v
  /\ \A u \in Person : ~ CodeTaken(accounts[u].code, u)
  /\ \A g \in DOMAIN teams : ~ NameTaken(teams[g].name, g)
  /\ \A t \in DOMAIN tasks : tasks[t] \in [assignee : Person \cup {Nobody},
                                          allotter : Person \cup {Nobody}]
  /\ \A g \in DOMAIN teams : teams[g] \in [name : TeamNames, manager : Person \cup {Nobody},
                                          members : SUBSET Person]
  /\ \A d \in DOMAIN devices : devices[d] \in [user : Person, revoked : BOOLEAN]
  /\ projections \subseteq [employee : Person, creator : Person]
  /\ \A u \in Users : today[u] \in Seq(BOOLEAN) /\ (Restricted(u) => u \in Person)
  /\ req \in [Requests -> Request]

\* The look before the write is enough: a request that no other write overtook is
\* not refused by the keys of the database, but for the empty employee code that
\* is left of zeros and blanks, which setEmpcode does not look up.
ChecksSuffice ==
  \A r \in Requests : ~ req[r].behind =>
    /\ req[r].op \in {"register.store", "profile.store"} => ~ EmailTaken(req[r].key, req[r].user)
    /\ req[r].op \in {"register.store", "profile.store", "empcode.store"} /\ req[r].code # Blank =>
         ~ CodeTaken(req[r].code, req[r].user)
    /\ req[r].op \in {"team.create", "team.update"} => ~ NameTaken(req[r].key, req[r].target)

\* A user has one attendance record a day, unless check-ins overlapped.
OneRecordPerDay ==
  \A u \in Users : Len(today[u]) > 1 => u \in doubled

\* An agent is signed in for an account that is there and active, with a device
\* that was revoked at most since the request looked: the row of the device goes
\* with its account, and so stops the sign-in under way.
SignInCurrent ==
  \A r \in Requests :
    req[r].op = "device.sign" /\ req[r].target \in DOMAIN devices =>
      /\ req[r].user \in Person /\ accounts[req[r].user].active
      /\ devices[req[r].target].revoked => req[r].behind
=============================================================================
