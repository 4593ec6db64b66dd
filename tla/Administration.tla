--------------------------- MODULE Administration ---------------------------
(***************************************************************************)
(* The people of a tenant: users and their memberships (auth.service.ts,   *)
(* team-members.service.ts), the employee record a STAFF login is linked   *)
(* to, the services an employee performs (employees.service.ts) and the    *)
(* slug a tenant is found under (tenants.service.ts).                      *)
(*                                                                         *)
(* Every operation reads first and writes later, most of them in a         *)
(* transaction that holds the locks of its statements.  One action is one  *)
(* query; the last statement of a transaction is one action with COMMIT,   *)
(* for no lock it takes outlives it.  A row carries, as `by`, the request  *)
(* that last wrote it.                                                     *)
(***************************************************************************)
EXTENDS Integers

CONSTANTS Requests,   \* HTTP requests, each served once
          Ops,        \* the kinds of request the instance admits
          Emails,     \* e-mail addresses; User.email is unique
          TeamRoles,  \* the roles a manager may choose, of those the DTOs let through
          Owner,      \* the address of the OWNER of the tenant in view
          Bases,      \* slugs that generateSlug makes of company names
          HomeSlug,   \* the slug of the tenant in view
          Employees,  \* the employees of the tenant in view
          Services,   \* its active services
          Home,       \* the tenant in view
          None

AllOps == {"register", "create", "role", "link", "unlink", "services", "slug"}
Staff == "STAFF"
Roles == TeamRoles \cup {"OWNER"}

ASSUME OpsAssumption == Ops \subseteq AllOps
ASSUME RolesAssumption == TeamRoles \subseteq {"ADMIN", "RECEPTIONIST", Staff}
ASSUME HomeAssumption == Owner \in Emails /\ HomeSlug \in Bases
ASSUME NoneAssumption == 
    /\ None \notin Requests \cup Emails \cup Employees \cup Services \cup Bases \cup Roles
    /\ Home \notin Requests \cup {None}
ASSUME BasesAssumption == Bases \cap (Bases \X Requests) = {}

VARIABLES 
    users,     \* the addresses that have a User row
    member,    \* the Membership of each user
    slug,      \* the slug of each tenant
    link,      \* Employee.membershipId: the member an employee is linked to
    performs,  \* the EmployeeService rows
    pc,        \* where each request is
    arg,       \* what each request was given and has read
    missed     \* history: <<a, b>> where b took effect between a's first read and a's end

vars == <<users, member, slug, link, performs, pc, arg, missed>>

----------------------------------------------------------------------------
(* Data *)

Who == Requests \cup {None}

\* Each registration founds the tenant named after its request.
Tenants == Requests \cup {Home}

\* generateUniqueSlug appends a fresh suffix to a base that is taken.
Slugs == Bases \cup (Bases \X Requests)

Membership == [tenant : Tenants, role : Roles, by : Who]
Link == [member : Emails \cup {None}, by : Who]
Row == [employee : Employees, service : Services, by : Who]

ASSUME SortsAssumption == None \notin Membership \cup Slugs

\* `old` is the employee the membership was read with; `seen` and `gone` are the
\* rows a DELETE saw and those it deleted; `put` are the services an INSERT has added
\* and `next` is the one it is at.
Arg == [email : Emails \cup {None}, role : Roles \cup {None}, slug : Slugs \cup {None},
        employee : Employees \cup {None}, old : Employees \cup {None},
        new : SUBSET Services, seen : SUBSET Row, gone : SUBSET Row,
        put : SUBSET Services, next : Services \cup {None}]

Blank == [email |-> None, role |-> None, slug |-> None, employee |-> None, old |-> None,
          new |-> {}, seen |-> {}, gone |-> {}, put |-> {}, next |-> None]

PC == {"idle", "slug", "user", "owner", "member", "unlinkForRole", "role", "employee",
       "unlinkOld", "link", "clear", "see", "delete", "insert", "rename", "done", "failed"}
Ended == {"done", "failed"}

TypeOK ==
    /\ users \subseteq Emails
    /\ member \in [Emails -> Membership \cup {None}]
    /\ slug \in [Tenants -> Slugs \cup {None}]
    /\ link \in [Employees -> Link]
    /\ performs \subseteq Row
    /\ pc \in [Requests -> PC]
    /\ arg \in [Requests -> Arg]
    /\ missed \subseteq Requests \X Requests
    \* A request that needs a value has it.
    /\ \A r \in Requests :
         /\ pc[r] \in {"slug", "user", "owner", "member", "unlinkForRole", "role", "employee",
                       "unlinkOld", "link"} => arg[r].email # None
         /\ pc[r] \in {"owner", "rename"} => arg[r].slug # None
         /\ pc[r] \in {"member", "unlinkForRole", "role"} => arg[r].role # None
         /\ pc[r] \in {"employee", "unlinkOld", "link", "see", "delete", "insert"} => 
               arg[r].employee # None
         /\ pc[r] \in {"unlinkForRole", "unlinkOld", "clear"} => arg[r].old # None

\* The tenant has its OWNER, a team, and employees some STAFF logins are linked to.
Init ==
    /\ \E team \in [Emails \ {Owner} -> TeamRoles \cup {None}] :
          member = [e \in Emails |->
              IF e = Owner THEN [tenant |-> Home, role |-> "OWNER", by |-> None]
              ELSE IF team[e] = None THEN None
              ELSE [tenant |-> Home, role |-> team[e], by |-> None]]
    /\ users = {e \in Emails : member[e] # None}
    /\ slug = [t \in Tenants |-> IF t = Home THEN HomeSlug ELSE None]
    /\ link \in [Employees -> [member : users \cup {None}, by : {None}]]
    /\ \A x, y \in Employees : link[x].member # None =>
          /\ member[link[x].member].role = Staff
          /\ link[x].member = link[y].member => x = y
    /\ performs = {}
    /\ pc = [r \in Requests |-> "idle"]
    /\ arg = [r \in Requests |-> Blank]
    /\ missed = {}

Goto(r, label) == pc' = [pc EXCEPT ![r] = label]

\* A request takes effect: those that have read and not ended may have missed it.
Missed(r) == missed \cup {<<q, r>> : q \in {p \in Requests \ {r} : pc[p] \notin Ended \cup {"idle"}}}

TakesEffect(r) == Goto(r, "done") /\ missed' = Missed(r)

----------------------------------------------------------------------------
(* Locks: what an open transaction has written makes others wait.            *)

\* The User row it has inserted,
Inserted(q) == IF pc[q] \in {"owner", "member"} THEN {arg[q].email} ELSE {}

\* the Employee rows it has updated,
Held(q) == CASE pc[q] = "role" /\ arg[q].role # Staff -> {arg[q].old} \ {None}
             [] pc[q] = "link" -> {arg[q].old} \ {None, arg[q].employee}
             [] OTHER -> {}

\* the EmployeeService rows it has deleted,
Deleted(q) == IF pc[q] = "insert" THEN arg[q].gone ELSE {}

\* and those it has inserted.
PutKeys(q) == IF pc[q] = "insert" THEN {arg[q].employee} \X arg[q].put ELSE {}

LinkedTo(e) == {x \in Employees : link[x].member = e}
NewRows(r) == {[employee |-> arg[r].employee, service |-> s, by |-> r] : s \in arg[r].new}
Keys(rows) == {<<p.employee, p.service>> : p \in rows}
NextKey(r) == <<arg[r].employee, arg[r].next>>

\* Rows of its statement, and entries of a unique index its statement adds to.
WaitsFor(r, q) ==
    \/ pc[r] = "user" /\ arg[r].email \in Inserted(q)
    \/ pc[r] \in {"unlinkForRole", "unlinkOld", "clear"} /\ arg[r].old \in Held(q)
    \/ pc[r] = "link" /\ ({arg[r].employee} \cup LinkedTo(arg[r].email)) \cap Held(q) # {}
    \/ pc[r] = "delete" /\ arg[r].seen \cap Deleted(q) # {}
    \/ pc[r] = "insert" /\ NextKey(r) \in Keys(Deleted(q)) \cup PutKeys(q)

Unblocked(r) == \A q \in Requests \ {r} : ~WaitsFor(r, q)

\* PostgreSQL aborts one of the transactions that wait in a circle.
Deadlocked(r) == \E D \in SUBSET Requests :
    /\ r \in D
    /\ \A a \in D : \E b, c \in D \ {a} : WaitsFor(a, b) /\ WaitsFor(c, a)

----------------------------------------------------------------------------
(* register and create: the address is looked up, then the transaction      *)
(* inserts the user, for a registration the tenant, and the membership.     *)

BeginRegister(r) ==
    /\ "register" \in Ops /\ pc[r] = "idle"
    /\ \E e \in Emails \ users, b \in Bases :
          arg' = [arg EXCEPT ![r].email = e, ![r].slug = b]
    /\ Goto(r, "slug")
    /\ UNCHANGED <<users, member, slug, link, performs, missed>>

SlugTaken(s) == \E t \in Tenants : slug[t] = s

\* generateUniqueSlug: a base that is taken gets a random suffix.
UniqueSlug(r, base) == IF SlugTaken(base) THEN <<base, r>> ELSE base

ChooseSlug(r) ==
    /\ pc[r] = "slug"
    /\ arg' = [arg EXCEPT ![r].slug = UniqueSlug(r, @)]
    /\ Goto(r, "user")
    /\ UNCHANGED <<users, member, slug, link, performs, missed>>

BeginCreateUnchecked(r) ==   \* mutant: the address is not looked up
    /\ "create" \in Ops /\ pc[r] = "idle"
    /\ \E e \in Emails, role \in TeamRoles :
          arg' = [arg EXCEPT ![r].email = e, ![r].role = role]
    /\ Goto(r, "user")
    /\ UNCHANGED <<users, member, slug, link, performs, missed>>

BeginCreate(r) ==
    /\ "create" \in Ops /\ pc[r] = "idle"
    /\ \E e \in Emails \ users, role \in TeamRoles :
          arg' = [arg EXCEPT ![r].email = e, ![r].role = role]
    /\ Goto(r, "user")
    /\ UNCHANGED <<users, member, slug, link, performs, missed>>

InsertUser(r) ==
    /\ pc[r] = "user"
    /\ Unblocked(r)
    /\ Goto(r, IF arg[r].email \in users THEN "failed"
               ELSE IF arg[r].slug = None THEN "member" ELSE "owner")
    /\ UNCHANGED <<users, member, slug, link, performs, arg, missed>>

\* The user and the membership become visible together.
Admit(r, t, role) ==
    /\ users' = users \cup {arg[r].email}
    /\ member' = [member EXCEPT ![arg[r].email] = [tenant |-> t, role |-> role, by |-> r]]
    /\ TakesEffect(r)

\* register: the tenant and its OWNER; Tenant.slug is unique.
CreateOwner(r) ==
    /\ pc[r] = "owner"
    /\ IF SlugTaken(arg[r].slug) 
       THEN Goto(r, "failed") /\ UNCHANGED <<users, member, slug, missed>>
       ELSE Admit(r, r, "OWNER") /\ slug' = [slug EXCEPT ![r] = arg[r].slug]
    /\ UNCHANGED <<link, performs, arg>>

\* create: a membership of the tenant in view.
CreateMember(r) ==
    /\ pc[r] = "member"
    /\ Admit(r, Home, arg[r].role)
    /\ UNCHANGED <<slug, link, performs, arg>>

\* updateCurrent: the slug is looked up, then written.
BeginSlug(r) ==
    /\ "slug" \in Ops /\ pc[r] = "idle"
    /\ \E s \in Bases : /\ \A t \in Tenants \ {Home} : slug[t] # s
                        /\ arg' = [arg EXCEPT ![r].slug = s]
    /\ Goto(r, "rename")
    /\ UNCHANGED <<users, member, slug, link, performs, missed>>

Rename(r) ==
    /\ pc[r] = "rename"
    /\ IF \E t \in Tenants \ {Home} : slug[t] = arg[r].slug
       THEN Goto(r, "failed") /\ UNCHANGED <<slug, missed>>
       ELSE slug' = [slug EXCEPT ![Home] = arg[r].slug] /\ TakesEffect(r)
    /\ UNCHANGED <<users, member, link, performs, arg>>

----------------------------------------------------------------------------
(* updateRole and linkEmployee: the member is read with its employee, and    *)
(* the transaction writes by the ids that were read.                        *)

InHome(e) == member[e] # None /\ member[e].tenant = Home

\* The employee a membership is read with.
ReadsOld(r, e, old) == \/ old \in LinkedTo(e)
                       \/ LinkedTo(e) = {} /\ old = None

BeginRole(r) ==
    /\ "role" \in Ops /\ pc[r] = "idle"
    /\ \E e \in Emails, role \in TeamRoles, old \in Employees \cup {None} :
          /\ InHome(e) /\ member[e].role # "OWNER"
          /\ ReadsOld(r, e, old)
          /\ arg' = [arg EXCEPT ![r].email = e, ![r].role = role, ![r].old = old]
          /\ Goto(r, IF role # Staff /\ old # None THEN "unlinkForRole" ELSE "role")
    /\ UNCHANGED <<users, member, slug, link, performs, missed>>

UnlinkForRole(r) ==
    /\ pc[r] = "unlinkForRole"
    /\ Unblocked(r)
    /\ Goto(r, "role")
    /\ UNCHANGED <<users, member, slug, link, performs, arg, missed>>

SetRoleOnly(r) ==   \* mutant: the employee stays linked
    /\ pc[r] = "role"
    /\ member' = [member EXCEPT ![arg[r].email].role = arg[r].role, ![arg[r].email].by = r]
    /\ TakesEffect(r)
    /\ UNCHANGED <<users, slug, link, performs, arg>>

SetRole(r) ==
    /\ pc[r] = "role"
    /\ member' = [member EXCEPT ![arg[r].email].role = arg[r].role, ![arg[r].email].by = r]
    /\ link' = [x \in Employees |-> IF x \in Held(r) THEN [member |-> None, by |-> r] ELSE link[x]]
    /\ TakesEffect(r)
    /\ UNCHANGED <<users, slug, performs, arg>>

BeginLink(r) ==
    /\ "link" \in Ops /\ pc[r] = "idle"
    /\ \E e \in Emails, x \in Employees, old \in Employees \cup {None} :
          /\ InHome(e) /\ member[e].role = Staff
          /\ ReadsOld(r, e, old)
          /\ arg' = [arg EXCEPT ![r].email = e, ![r].employee = x, ![r].old = old]
    /\ Goto(r, "employee")
    /\ UNCHANGED <<users, member, slug, link, performs, missed>>

UnlinkFirst(r) == arg[r].old \notin {None, arg[r].employee}

ReadEmployeeOnly(r) ==   \* mutant: an employee of another member is taken over
    /\ pc[r] = "employee"
    /\ Goto(r, IF UnlinkFirst(r) THEN "unlinkOld" ELSE "link")
    /\ UNCHANGED <<users, member, slug, link, performs, arg, missed>>

\* 'Este funcionário já está vinculado a outro usuário'
ReadEmployee(r) ==
    /\ pc[r] = "employee"
    /\ Goto(r, IF link[arg[r].employee].member \notin {None, arg[r].email} THEN "done"
               ELSE IF UnlinkFirst(r) THEN "unlinkOld" ELSE "link")
    /\ UNCHANGED <<users, member, slug, link, performs, arg, missed>>

UnlinkOld(r) ==
    /\ pc[r] = "unlinkOld"
    /\ Unblocked(r)
    /\ Goto(r, "link")
    /\ UNCHANGED <<users, member, slug, link, performs, arg, missed>>

\* Employee.membershipId is unique: another employee that has the member ...
Duplicates(r, e, x) == LinkedTo(e) \ (Held(r) \cup {x}) # {}

\* ... breaks the key.
LinkEmployee(r) ==
    /\ pc[r] = "link"
    /\ Unblocked(r)
    /\ IF Duplicates(r, arg[r].email, arg[r].employee)
       THEN Goto(r, "failed") /\ UNCHANGED <<link, missed>>
       ELSE /\ link' = [x \in Employees |-> 
                  IF x = arg[r].employee THEN [member |-> arg[r].email, by |-> r]
                  ELSE IF x \in Held(r) THEN [member |-> None, by |-> r] ELSE link[x]]
            /\ TakesEffect(r)
    /\ UNCHANGED <<users, member, slug, performs, arg>>

\* linkEmployee with employeeId null: one update, without a transaction.
BeginUnlink(r) ==
    /\ "unlink" \in Ops /\ pc[r] = "idle"
    /\ \E e \in Emails, old \in Employees :
          /\ InHome(e) /\ member[e].role = Staff
          /\ old \in LinkedTo(e)
          /\ arg' = [arg EXCEPT ![r].email = e, ![r].old = old]
    /\ Goto(r, "clear")
    /\ UNCHANGED <<users, member, slug, link, performs, missed>>

Unlink(r) ==
    /\ pc[r] = "clear"
    /\ Unblocked(r)
    /\ link' = [link EXCEPT ![arg[r].old] = [member |-> None, by |-> r]]
    /\ TakesEffect(r)
    /\ UNCHANGED <<users, member, slug, performs, arg>>

----------------------------------------------------------------------------
(* setServices: the transaction deletes the rows of the employee that its    *)
(* statement sees and inserts the new ones.                                 *)

BeginServices(r) ==
    /\ "services" \in Ops /\ pc[r] = "idle"
    /\ \E x \in Employees, new \in SUBSET Services :
          arg' = [arg EXCEPT ![r].employee = x, ![r].new = new]
    /\ Goto(r, "see")
    /\ UNCHANGED <<users, member, slug, link, performs, missed>>

SeeWhatGoes(r) ==   \* mutant: only the rows that are not to stay are deleted
    /\ pc[r] = "see"
    /\ arg' = [arg EXCEPT ![r].seen = {p \in performs : p.employee = arg[r].employee 
                                                        /\ p.service \notin arg[r].new}]
    /\ Goto(r, "delete")
    /\ UNCHANGED <<users, member, slug, link, performs, missed>>

\* The DELETE statement starts; ...
SeeServices(r) ==
    /\ pc[r] = "see"
    /\ arg' = [arg EXCEPT ![r].seen = {p \in performs : p.employee = arg[r].employee}]
    /\ Goto(r, "delete")
    /\ UNCHANGED <<users, member, slug, link, performs, missed>>

\* ... once it ends, the rows are deleted that nobody else has deleted meanwhile.  The
\* INSERT adds its rows one by one, in the order the request named the services.
DeleteServices(r) ==
    /\ pc[r] = "delete"
    /\ Unblocked(r)
    /\ \E s \in Services \cup {None} :
          /\ IF arg[r].new = {} THEN s = None ELSE s \in arg[r].new
          /\ arg' = [arg EXCEPT ![r].gone = arg[r].seen \cap performs, ![r].next = s]
    /\ Goto(r, "insert")
    /\ UNCHANGED <<users, member, slug, link, performs, missed>>

\* (employee, service) is unique, too.
Clashes(r) == NextKey(r) \in Keys(performs \ arg[r].gone)

ToInsert(r) == arg[r].new \ (arg[r].put \cup {arg[r].next})

InsertRow(r) ==
    /\ pc[r] = "insert"
    /\ Unblocked(r)
    /\ ~Clashes(r)
    /\ \E s \in ToInsert(r) :
          arg' = [arg EXCEPT ![r].put = @ \cup {arg[r].next}, ![r].next = s]
    /\ UNCHANGED <<users, member, slug, link, performs, pc, missed>>

InsertServicesBeside(r) ==   \* mutant: the old rows stay
    /\ pc[r] = "insert"
    /\ Unblocked(r)
    /\ \/ /\ Clashes(r)
          /\ Goto(r, "failed")
          /\ UNCHANGED <<performs, missed>>
       \/ /\ ~Clashes(r) /\ ToInsert(r) = {}
          /\ performs' = performs \cup NewRows(r)
          /\ TakesEffect(r)
    /\ UNCHANGED <<users, member, slug, link, arg>>

\* A row breaks the key, or the last one is in.
InsertServices(r) ==
    /\ pc[r] = "insert"
    /\ Unblocked(r)
    /\ \/ /\ Clashes(r)
          /\ Goto(r, "failed")
          /\ UNCHANGED <<performs, missed>>
       \/ /\ ~Clashes(r) /\ ToInsert(r) = {}
          /\ performs' = (performs \ arg[r].gone) \cup NewRows(r)
          /\ TakesEffect(r)
    /\ UNCHANGED <<users, member, slug, link, arg>>

BreakDeadlock(r) ==
    /\ Deadlocked(r)
    /\ Goto(r, "done")
    /\ UNCHANGED <<users, member, slug, link, performs, arg, missed>>

\* An open transaction runs out of time or loses its connection.
Rollback(r) ==
    /\ pc[r] \in {"user", "owner", "member", "unlinkForRole", "role", "unlinkOld", "link",
                  "see", "delete", "insert"}
    /\ Goto(r, "done")
    /\ UNCHANGED <<users, member, slug, link, performs, arg, missed>>

----------------------------------------------------------------------------
(* Specification *)

Begin(r) == \/ BeginRegister(r) \/ BeginCreate(r) \/ BeginSlug(r) \/ BeginRole(r)
            \/ BeginLink(r) \/ BeginUnlink(r) \/ BeginServices(r)

Serve(r) == \/ ChooseSlug(r) \/ InsertUser(r) \/ CreateOwner(r) \/ CreateMember(r) \/ Rename(r)
            \/ UnlinkForRole(r) \/ SetRole(r) \/ ReadEmployee(r) \/ UnlinkOld(r)
            \/ LinkEmployee(r) \/ Unlink(r)
            \/ SeeServices(r) \/ DeleteServices(r) \/ InsertRow(r) \/ InsertServices(r)
            \/ BreakDeadlock(r)

\* No request need come.
Quiet == (\A r \in Requests : pc[r] \in Ended \cup {"idle"}) /\ UNCHANGED vars

Next == (\E r \in Requests : Begin(r) \/ Serve(r) \/ Rollback(r)) \/ Quiet

Spec == Init /\ [][Next]_vars

----------------------------------------------------------------------------
(* Properties *)

\* Two requests that were served at the same time: one took effect after the
\* other's first read.
Overtook(a, b) == <<a, b>> \in missed \/ <<b, a>> \in missed

\* 'Somente usuários com função STAFF podem ser vinculados a um funcionário', of
\* a member that is linked and no longer STAFF: its role and its link were changed
\* by two requests that overtook each other.
LinkedIsStaff == \A x \in Employees :
    LET e == link[x].member IN
    e # None => member[e].role = Staff \/ Overtook(link[x].by, member[e].by)

\* A login has one employee.
OneEmployeePerMember == \A x, y \in Employees :
    x # y /\ link[x].member = link[y].member => link[x].member = None

\* A member loses its employee only to a request about that member, or to one that
\* did not see the link: it had read the employee before the link was made.
LinksAreTakenKnowingly == 
    [][\A x \in Employees : 
          link'[x] # link[x] /\ link[x].member # None =>
              LET r == link'[x].by IN
              arg[r].email = link[x].member \/ <<r, link[x].by>> \in missed']_vars

\* What passes the checks of its own request fails on a unique key only because
\* another request took effect between the check and the write.
UniqueErrorsAreRaces == \A r \in Requests :
    pc[r] = "failed" => \E q \in Requests : <<r, q>> \in missed

\* A request that replaces the services of an employee replaces all of them: the
\* services of two requests stand side by side only if neither saw the other's.
Saw(q) == IF q = None THEN {} ELSE arg[q].seen
ServicesAreReplacedWhole == \A p, q \in performs :
    p.employee = q.employee /\ p.by # q.by => p \notin Saw(q.by) /\ q \notin Saw(p.by)

\* Transactions wait in a circle only where they link an employee while they hold the
\* one they unlinked, or where two replace the services of one employee and one of them
\* has inserted a row: changing a role and registering never do, nor does a replacement
\* wait for ever on what another only deletes.
Cross(q, r) == /\ pc[q] = "insert" /\ pc[r] = "insert"
               /\ arg[q].employee = arg[r].employee
               /\ arg[q].put \cup arg[r].put # {}

DeadlocksAreCrossings == \A r \in Requests :
    Deadlocked(r) => pc[r] = "link" \/ \E q \in Requests \ {r} : Cross(q, r)
=============================================================================
