------------------------ MODULE AdministrationProofs ------------------------
(***************************************************************************)
(* What holds of Administration for any number of requests, addresses,     *)
(* employees and services.  Every conclusion rests on the same argument:   *)
(* what a request has read about a row is still so when it writes, or the  *)
(* request that changed the row took effect in between, and is recorded.   *)
(***************************************************************************)
EXTENDS Administration, TLAPS

USE OpsAssumption, RolesAssumption, HomeAssumption, NoneAssumption, BasesAssumption,
    SortsAssumption

----------------------------------------------------------------------------
(* The steps of one request *)

\* What a request has been given when it comes to use it, and the members it is about.
Begun == \A r \in Requests : 
    /\ pc[r] = "idle" => arg[r] = Blank
    /\ pc[r] \in {"slug", "rename"} => arg[r].slug \in Bases
    /\ pc[r] = "user" /\ arg[r].slug = None => arg[r].role # None
    /\ pc[r] \in {"unlinkForRole", "role", "employee", "unlinkOld", "link", "clear"} =>
          arg[r].email \in Emails /\ member[arg[r].email] # None
    /\ pc[r] = "insert" /\ arg[r].next = None => arg[r].new = {}

\* What TypeOK demands of a request at p that was given a.
Sound(p, a) ==
    /\ p \in {"slug", "user", "owner", "member", "unlinkForRole", "role", "employee",
              "unlinkOld", "link"} => a.email # None
    /\ p \in {"owner", "rename"} => a.slug # None
    /\ p \in {"member", "unlinkForRole", "role"} => a.role # None
    /\ p \in {"employee", "unlinkOld", "link", "see", "delete", "insert"} => a.employee # None
    /\ p \in {"unlinkForRole", "unlinkOld", "clear"} => a.old # None

\* A request goes on with what it has read, ...
LEMMA MoveType ==
    ASSUME TypeOK, NEW r \in Requests, NEW l \in PC, Goto(r, l), UNCHANGED arg,
           Sound(l, arg[r])
    PROVE  /\ pc' \in [Requests -> PC] /\ arg' \in [Requests -> Arg]
           /\ \A q \in Requests : Sound(pc'[q], arg'[q])
<1>1. \A q \in Requests : Sound(pc[q], arg[q])
  BY DEF TypeOK, Sound
<1>2. pc' \in [Requests -> PC] /\ pc' = [pc EXCEPT ![r] = l]
  BY DEF TypeOK, Goto
<1> QED
  BY <1>1, <1>2 DEF TypeOK

\* ... or reads more.
LEMMA ReadType ==
    ASSUME TypeOK, NEW r \in Requests, NEW l \in PC, Goto(r, l),
           NEW a \in Arg, arg' = [arg EXCEPT ![r] = a], Sound(l, a)
    PROVE  /\ pc' \in [Requests -> PC] /\ arg' \in [Requests -> Arg]
           /\ \A q \in Requests : Sound(pc'[q], arg'[q])
<1>1. \A q \in Requests : Sound(pc[q], arg[q])
  BY DEF TypeOK, Sound
<1>2. pc' \in [Requests -> PC] /\ pc' = [pc EXCEPT ![r] = l]
  BY DEF TypeOK, Goto
<1> QED
  BY <1>1, <1>2 DEF TypeOK

LEMMA TypeOfParts ==
    ASSUME users' \subseteq Emails,
           member' \in [Emails -> Membership \cup {None}],
           slug' \in [Tenants -> Slugs \cup {None}],
           link' \in [Employees -> Link], performs' \subseteq Row,
           missed' \subseteq Requests \X Requests,
           pc' \in [Requests -> PC], arg' \in [Requests -> Arg],
           \A q \in Requests : Sound(pc'[q], arg'[q])
    PROVE  TypeOK'
  BY DEF TypeOK, Sound

LEMMA MissedType ==
    ASSUME TypeOK, NEW r \in Requests
    PROVE  /\ Missed(r) \subseteq Requests \X Requests
           /\ missed \subseteq Missed(r)
           /\ \A q \in Requests \ {r} : pc[q] \notin Ended \cup {"idle"} => <<q, r>> \in Missed(r)
  BY DEF TypeOK, Missed

\* What a DELETE and the rows of an INSERT leave of what the request was given.
SameButRows(a, o) ==
    /\ a.email = o.email /\ a.role = o.role /\ a.slug = o.slug /\ a.employee = o.employee
    /\ a.old = o.old /\ a.new = o.new /\ a.seen = o.seen

LEMMA DeleteArg ==
    ASSUME TypeOK, NEW r \in Requests, DeleteServices(r)
    PROVE  /\ arg' = [arg EXCEPT ![r] = arg'[r]] /\ arg'[r] \in Arg
           /\ SameButRows(arg'[r], arg[r])
           /\ arg'[r].gone = arg[r].seen \cap performs
           /\ arg'[r].next = None => arg'[r].new = {}
<1> DEFINE o == arg[r]
<1>1. PICK s \in Services \cup {None} :
           /\ IF o.new = {} THEN s = None ELSE s \in o.new
           /\ arg' = [arg EXCEPT ![r].gone = o.seen \cap performs, ![r].next = s]
  BY DEF DeleteServices
<1> DEFINE a == [o EXCEPT !.gone = o.seen \cap performs, !.next = s]
<1>2. o \in Arg
  BY DEF TypeOK
<1>3. a \in Arg
  BY <1>2 DEF Arg, TypeOK
<1>4. arg' = [arg EXCEPT ![r] = a]
  BY <1>1 DEF TypeOK
<1>5. SameButRows(a, o) /\ a.gone = o.seen \cap performs /\ a.next = s
  BY <1>2 DEF Arg, SameButRows
<1>6. o.new \subseteq Services
  BY <1>2 DEF Arg
<1>7. a.next = None => a.new = {}
  BY <1>1, <1>5, <1>6 DEF SameButRows
<1>8. arg'[r] = a /\ arg \in [Requests -> Arg]
  BY <1>4 DEF TypeOK
<1> HIDE DEF a
<1> QED
  BY <1>3, <1>4, <1>5, <1>7, <1>8

LEMMA InsertRowArg ==
    ASSUME TypeOK, Begun, NEW r \in Requests, InsertRow(r)
    PROVE  /\ arg' = [arg EXCEPT ![r] = arg'[r]] /\ arg'[r] \in Arg
           /\ SameButRows(arg'[r], arg[r])
           /\ arg'[r].gone = arg[r].gone
           /\ arg'[r].next # None
<1> DEFINE o == arg[r]
<1>1. PICK s \in ToInsert(r) :
           arg' = [arg EXCEPT ![r].put = @ \cup {o.next}, ![r].next = s]
  BY DEF InsertRow
<1> DEFINE a == [o EXCEPT !.put = o.put \cup {o.next}, !.next = s]
<1>2. o \in Arg
  BY DEF TypeOK
<1>3. s \in o.new /\ o.new \subseteq Services
  BY <1>1, <1>2 DEF ToInsert, Arg
<1>4. o.next # None
  BY <1>3 DEF InsertRow, Begun
<1>5. o.next \in Services /\ o.put \subseteq Services
  BY <1>2, <1>4 DEF Arg
<1>6. a \in Arg
  BY <1>2, <1>3, <1>5 DEF Arg
<1>7. arg' = [arg EXCEPT ![r] = a]
  BY <1>1 DEF TypeOK
<1>8. SameButRows(a, o) /\ a.gone = o.gone /\ a.next = s
  BY <1>2 DEF Arg, SameButRows
<1>9. arg'[r] = a /\ a.next # None
  BY <1>3, <1>7, <1>8 DEF TypeOK
<1> HIDE DEF a
<1> QED
  BY <1>6, <1>7, <1>8, <1>9

----------------------------------------------------------------------------
(* Type correctness *)

LEMMA InitType == Init => TypeOK
<1> SUFFICES ASSUME Init PROVE TypeOK
  OBVIOUS
<1>1. PICK team \in [Emails \ {Owner} -> TeamRoles \cup {None}] :
          member = [e \in Emails |->
              IF e = Owner THEN [tenant |-> Home, role |-> "OWNER", by |-> None]
              ELSE IF team[e] = None THEN None
              ELSE [tenant |-> Home, role |-> team[e], by |-> None]]
  BY DEF Init
<1>2. member \in [Emails -> Membership \cup {None}]
  BY <1>1 DEF Membership, Tenants, Roles, Who
<1>3. slug \in [Tenants -> Slugs \cup {None}]
  BY DEF Init, Slugs
<1>4. users \subseteq Emails /\ link \in [Employees -> Link]
  BY DEF Init, Link, Who
<1>5. Blank \in Arg
  BY DEF Blank, Arg
<1>6. arg \in [Requests -> Arg] /\ pc \in [Requests -> PC] /\ \A r \in Requests : pc[r] = "idle"
  BY <1>5 DEF Init, PC
<1> QED
  BY <1>2, <1>3, <1>4, <1>6 DEF Init, TypeOK

\* The arguments a request begins with.
LEMMA BeginType ==
    ASSUME TypeOK, NEW r \in Requests, Begin(r)
    PROVE  TypeOK'
<1> DEFINE o == arg[r]
<1>1. o \in Arg
  BY DEF TypeOK
<1>2. CASE BeginRegister(r)
  <2>1. PICK e \in Emails \ users, b \in Bases : arg' = [arg EXCEPT ![r].email = e, ![r].slug = b]
    BY <1>2 DEF BeginRegister
  <2>2. /\ [o EXCEPT !.email = e, !.slug = b] \in Arg
        /\ arg' = [arg EXCEPT ![r] = [o EXCEPT !.email = e, !.slug = b]]
        /\ [o EXCEPT !.email = e, !.slug = b].email = e
    BY <1>1, <2>1 DEF Arg, Slugs, TypeOK
  <2> QED
    BY <1>2, <2>2, ReadType, TypeOfParts DEF BeginRegister, TypeOK, Sound, PC
<1>3. CASE BeginCreate(r)
  <2>1. PICK e \in Emails \ users, x \in TeamRoles : arg' = [arg EXCEPT ![r].email = e, ![r].role = x]
    BY <1>3 DEF BeginCreate
  <2>2. /\ [o EXCEPT !.email = e, !.role = x] \in Arg
        /\ arg' = [arg EXCEPT ![r] = [o EXCEPT !.email = e, !.role = x]]
        /\ [o EXCEPT !.email = e, !.role = x].email = e
    BY <1>1, <2>1 DEF Arg, Roles, TypeOK
  <2> QED
    BY <1>3, <2>2, ReadType, TypeOfParts DEF BeginCreate, TypeOK, Sound, PC
<1>4. CASE BeginSlug(r)
  <2>1. PICK s \in Bases : arg' = [arg EXCEPT ![r].slug = s]
    BY <1>4 DEF BeginSlug
  <2>2. /\ [o EXCEPT !.slug = s] \in Arg
        /\ arg' = [arg EXCEPT ![r] = [o EXCEPT !.slug = s]]
        /\ [o EXCEPT !.slug = s].slug = s
    BY <1>1, <2>1 DEF Arg, Slugs, TypeOK
  <2> QED
    BY <1>4, <2>2, ReadType, TypeOfParts DEF BeginSlug, TypeOK, Sound, PC
<1>5. CASE BeginRole(r)
  <2>1. PICK e \in Emails, x \in TeamRoles, old \in Employees \cup {None} :
             /\ InHome(e) /\ member[e].role # "OWNER"
             /\ ReadsOld(r, e, old)
             /\ arg' = [arg EXCEPT ![r].email = e, ![r].role = x, ![r].old = old]
             /\ Goto(r, IF x # Staff /\ old # None THEN "unlinkForRole" ELSE "role")
    BY <1>5 DEF BeginRole
  <2> DEFINE a == [o EXCEPT !.email = e, !.role = x, !.old = old]
  <2>2. a \in Arg /\ arg' = [arg EXCEPT ![r] = a] /\ a.email = e /\ a.role = x /\ a.old = old
    BY <1>1, <2>1 DEF Arg, Roles, TypeOK
  <2>3. CASE x # Staff /\ old # None
    <3>1. Goto(r, "unlinkForRole") /\ Sound("unlinkForRole", a)
      BY <2>1, <2>2, <2>3 DEF Goto, Sound, Roles
    <3> QED
      BY <1>5, <2>2, <3>1, ReadType, TypeOfParts DEF BeginRole, TypeOK, PC
  <2>4. CASE ~(x # Staff /\ old # None)
    <3>1. Goto(r, "role") /\ Sound("role", a)
      BY <2>1, <2>2, <2>4 DEF Goto, Sound, Roles
    <3> QED
      BY <1>5, <2>2, <3>1, ReadType, TypeOfParts DEF BeginRole, TypeOK, PC
  <2> QED
    BY <2>3, <2>4
<1>6. CASE BeginLink(r)
  <2>1. PICK e \in Emails, x \in Employees, old \in Employees \cup {None} :
             arg' = [arg EXCEPT ![r].email = e, ![r].employee = x, ![r].old = old]
    BY <1>6 DEF BeginLink
  <2> DEFINE a == [o EXCEPT !.email = e, !.employee = x, !.old = old]
  <2>2. a \in Arg /\ arg' = [arg EXCEPT ![r] = a] /\ a.email = e /\ a.employee = x
    BY <1>1, <2>1 DEF Arg, TypeOK
  <2> QED
    BY <1>6, <2>2, ReadType, TypeOfParts DEF BeginLink, TypeOK, Sound, PC
<1>7. CASE BeginUnlink(r)
  <2>1. PICK e \in Emails, old \in Employees : arg' = [arg EXCEPT ![r].email = e, ![r].old = old]
    BY <1>7 DEF BeginUnlink
  <2> DEFINE a == [o EXCEPT !.email = e, !.old = old]
  <2>2. a \in Arg /\ arg' = [arg EXCEPT ![r] = a] /\ a.old = old
    BY <1>1, <2>1 DEF Arg, TypeOK
  <2> QED
    BY <1>7, <2>2, ReadType, TypeOfParts DEF BeginUnlink, TypeOK, Sound, PC
<1>8. CASE BeginServices(r)
  <2>1. PICK x \in Employees, new \in SUBSET Services : 
             arg' = [arg EXCEPT ![r].employee = x, ![r].new = new]
    BY <1>8 DEF BeginServices
  <2> DEFINE a == [o EXCEPT !.employee = x, !.new = new]
  <2>2. a \in Arg /\ arg' = [arg EXCEPT ![r] = a] /\ a.employee = x
    BY <1>1, <2>1 DEF Arg, TypeOK
  <2> QED
    BY <1>8, <2>2, ReadType, TypeOfParts DEF BeginServices, TypeOK, Sound, PC
<1> QED
  BY <1>2, <1>3, <1>4, <1>5, <1>6, <1>7, <1>8 DEF Begin

\* A request that takes effect, or ends without.
LEMMA EndType ==
    ASSUME TypeOK, NEW r \in Requests, UNCHANGED arg,
           \/ TakesEffect(r)
           \/ Goto(r, "done") /\ UNCHANGED missed
           \/ Goto(r, "failed") /\ UNCHANGED missed
    PROVE  /\ pc' \in [Requests -> PC] /\ arg' \in [Requests -> Arg]
           /\ \A q \in Requests : Sound(pc'[q], arg'[q])
           /\ missed' \subseteq Requests \X Requests
<1>1. missed' \subseteq Requests \X Requests
  BY MissedType DEF TakesEffect, TypeOK
<1>2. "done" \in PC /\ "failed" \in PC /\ Sound("done", arg[r]) /\ Sound("failed", arg[r])
  BY DEF PC, Sound
<1>3. Goto(r, "done") \/ Goto(r, "failed")
  BY DEF TakesEffect
<1> QED
  BY <1>1, <1>2, <1>3, MoveType

LEMMA ServeType ==
    ASSUME TypeOK, Begun, NEW r \in Requests, Serve(r) \/ Rollback(r)
    PROVE  TypeOK'
<1> DEFINE o == arg[r]
<1>1. o \in Arg /\ r \in Who /\ r \in Tenants /\ Home \in Tenants /\ Sound(pc[r], o)
  BY DEF TypeOK, Who, Tenants, Sound
<1>2. CASE ChooseSlug(r)
  <2> DEFINE s == UniqueSlug(r, o.slug)
  <2> DEFINE a == [o EXCEPT !.slug = s]
  <2>1. s \in Slugs
    BY <1>2 DEF ChooseSlug, Begun, Slugs, UniqueSlug
  <2>2. a \in Arg /\ a.email = o.email /\ arg' = [arg EXCEPT ![r] = a]
    BY <1>1, <1>2, <2>1 DEF ChooseSlug, Arg, TypeOK
  <2> QED
    <3>1. Goto(r, "user") /\ UNCHANGED <<users, member, slug, link, performs, missed>>
      BY <1>2 DEF ChooseSlug
    <3>2. "user" \in PC /\ Sound("user", a)
      BY <1>1, <1>2, <2>2 DEF ChooseSlug, Sound, PC
    <3> HIDE DEF a
    <3>3. /\ pc' \in [Requests -> PC] /\ arg' \in [Requests -> Arg]
          /\ \A q \in Requests : Sound(pc'[q], arg'[q])
      BY <2>2, <3>1, <3>2, ReadType
    <3> QED
      BY <3>1, <3>3, TypeOfParts DEF TypeOK
<1>3. CASE InsertUser(r)
  <2> DEFINE l == IF o.email \in users THEN "failed" ELSE IF o.slug = None THEN "member" ELSE "owner"
  <2>1. Goto(r, l) /\ pc[r] = "user" /\ UNCHANGED <<users, member, slug, link, performs, arg, missed>>
    BY <1>3 DEF InsertUser
  <2>2. l \in PC /\ Sound(l, o)
    BY <1>1, <2>1 DEF PC, Sound, Begun
  <2> QED
    BY <2>1, <2>2, MoveType, TypeOfParts DEF TypeOK
<1>4. CASE CreateOwner(r)
  <2>1. o.email \in Emails /\ o.slug \in Slugs
    BY <1>1, <1>4 DEF CreateOwner, Sound, Arg
  <2>2. CASE SlugTaken(o.slug)
    BY <1>4, <2>2, EndType, TypeOfParts DEF CreateOwner, TypeOK
  <2>3. CASE ~SlugTaken(o.slug)
    <3>1. Admit(r, r, "OWNER") /\ slug' = [slug EXCEPT ![r] = o.slug] /\ UNCHANGED <<link, performs, arg>>
      BY <1>4, <2>3 DEF CreateOwner
    <3>2. [tenant |-> r, role |-> "OWNER", by |-> r] \in Membership
      BY <1>1 DEF Membership, Roles
    <3>3. users' \subseteq Emails /\ member' \in [Emails -> Membership \cup {None}]
      BY <2>1, <3>1, <3>2 DEF Admit, TypeOK
    <3>4. slug' \in [Tenants -> Slugs \cup {None}]
      BY <1>1, <2>1, <3>1 DEF TypeOK
    <3> QED
      BY <3>1, <3>3, <3>4, EndType, TypeOfParts DEF Admit, TypeOK
  <2> QED
    BY <2>2, <2>3
<1>5. CASE CreateMember(r)
  <2>1. o.email \in Emails /\ o.role \in Roles
    BY <1>1, <1>5 DEF CreateMember, Sound, Arg
  <2>2. Admit(r, Home, o.role) /\ UNCHANGED <<slug, link, performs, arg>>
    BY <1>5 DEF CreateMember
  <2>3. [tenant |-> Home, role |-> o.role, by |-> r] \in Membership
    BY <1>1, <2>1 DEF Membership
  <2>4. users' \subseteq Emails /\ member' \in [Emails -> Membership \cup {None}]
    BY <2>1, <2>2, <2>3 DEF Admit, TypeOK
  <2> QED
    BY <2>2, <2>4, EndType, TypeOfParts DEF Admit, TypeOK
<1>6. CASE Rename(r)
  <2>1. slug' \in [Tenants -> Slugs \cup {None}]
    BY <1>1, <1>6 DEF Rename, Arg, TypeOK
  <2> QED
    BY <1>6, <2>1, EndType, TypeOfParts DEF Rename, TypeOK
<1>7. CASE UnlinkForRole(r)
  BY <1>1, <1>7, MoveType, TypeOfParts DEF UnlinkForRole, TypeOK, PC, Sound
<1>8. CASE SetRole(r)
  <2>1. o.email \in Emails /\ o.role \in Roles
    BY <1>1, <1>8 DEF SetRole, Sound, Arg
  <2>2. member[o.email] \in Membership
    BY <1>8, <2>1 DEF SetRole, Begun, TypeOK
  <2>3. member' \in [Emails -> Membership \cup {None}]
    BY <1>1, <1>8, <2>1, <2>2 DEF SetRole, TypeOK, Membership
  <2>4. link' \in [Employees -> Link]
    BY <1>1, <1>8 DEF SetRole, TypeOK, Link
  <2> QED
    BY <1>8, <2>3, <2>4, EndType, TypeOfParts DEF SetRole, TypeOK
<1>9. CASE ReadEmployee(r)
  <2>1. PICK l \in {"done", "unlinkOld", "link"} : 
             Goto(r, l) /\ (l = "unlinkOld" => UnlinkFirst(r)) 
    BY <1>9 DEF ReadEmployee
  <2> QED
    BY <1>1, <1>9, <2>1, MoveType, TypeOfParts DEF ReadEmployee, UnlinkFirst, TypeOK, PC, Sound
<1>10. CASE UnlinkOld(r)
  BY <1>1, <1>10, MoveType, TypeOfParts DEF UnlinkOld, TypeOK, PC, Sound
<1>11. CASE LinkEmployee(r)
  <2>1. link' \in [Employees -> Link]
    BY <1>1, <1>11 DEF LinkEmployee, TypeOK, Link, Sound, Arg
  <2> QED
    BY <1>11, <2>1, EndType, TypeOfParts DEF LinkEmployee, TypeOK
<1>12. CASE Unlink(r)
  <2>1. link' \in [Employees -> Link]
    BY <1>1, <1>12 DEF Unlink, TypeOK, Link, Sound, Arg
  <2> QED
    BY <1>12, <2>1, EndType, TypeOfParts DEF Unlink, TypeOK
<1>13. CASE SeeServices(r)
  <2> DEFINE s == {p \in performs : p.employee = o.employee}
  <2> DEFINE a == [o EXCEPT !.seen = s]
  <2>1. a \in Arg /\ a.employee = o.employee
    BY <1>1 DEF Arg, TypeOK
  <2>2. arg' = [arg EXCEPT ![r] = a]
    BY <1>13 DEF SeeServices, TypeOK
  <2> QED
    <3>1. Goto(r, "delete") /\ UNCHANGED <<users, member, slug, link, performs, missed>>
      BY <1>13 DEF SeeServices
    <3>2. "delete" \in PC /\ Sound("delete", a)
      BY <1>1, <1>13, <2>1, <2>2 DEF SeeServices, Sound, PC
    <3> HIDE DEF a
    <3>3. /\ pc' \in [Requests -> PC] /\ arg' \in [Requests -> Arg]
          /\ \A q \in Requests : Sound(pc'[q], arg'[q])
      BY <2>1, <2>2, <3>1, <3>2, ReadType
    <3> QED
      BY <3>1, <3>3, TypeOfParts DEF TypeOK
<1>14. CASE DeleteServices(r)
  <2>1. PICK a \in Arg : a = arg'[r] /\ arg' = [arg EXCEPT ![r] = a] /\ SameButRows(a, o)
    BY <1>14, DeleteArg
  <2>2. Goto(r, "insert") /\ UNCHANGED <<users, member, slug, link, performs, missed>>
    BY <1>14 DEF DeleteServices
  <2>3. pc[r] = "delete" /\ o.employee # None /\ a.employee = o.employee
    BY <1>1, <1>14, <2>1 DEF DeleteServices, Sound, SameButRows
  <2>4. "insert" \in PC /\ Sound("insert", a)
    BY <2>3 DEF Sound, PC
  <2>5. /\ pc' \in [Requests -> PC] /\ arg' \in [Requests -> Arg]
        /\ \A q \in Requests : Sound(pc'[q], arg'[q])
    BY <2>1, <2>2, <2>4, ReadType
  <2> QED
    BY <2>2, <2>5, TypeOfParts DEF TypeOK
<1>17. CASE InsertRow(r)
  <2>1. PICK a \in Arg : a = arg'[r] /\ arg' = [arg EXCEPT ![r] = a] /\ SameButRows(a, o)
    BY <1>17, InsertRowArg
  <2>2. UNCHANGED <<users, member, slug, link, performs, pc, missed>> /\ pc[r] = "insert"
    BY <1>17 DEF InsertRow
  <2>3. Goto(r, "insert")
    BY <2>2 DEF Goto, TypeOK
  <2>4. o.employee # None /\ a.employee = o.employee
    BY <1>1, <2>1, <2>2 DEF Sound, SameButRows
  <2>5. "insert" \in PC /\ Sound("insert", a)
    BY <2>4 DEF Sound, PC
  <2>6. /\ pc' \in [Requests -> PC] /\ arg' \in [Requests -> Arg]
        /\ \A q \in Requests : Sound(pc'[q], arg'[q])
    BY <2>1, <2>3, <2>5, ReadType
  <2> QED
    BY <2>2, <2>6, TypeOfParts DEF TypeOK
<1>15. CASE InsertServices(r)
  <2>1. performs' \subseteq Row
    BY <1>1, <1>15 DEF InsertServices, NewRows, Row, TypeOK, Sound, Arg
  <2> QED
    BY <1>15, <2>1, EndType, TypeOfParts DEF InsertServices, TypeOK
<1>16. CASE BreakDeadlock(r) \/ Rollback(r)
  BY <1>16, EndType, TypeOfParts DEF BreakDeadlock, Rollback, TypeOK
<1> QED
  BY <1>2, <1>3, <1>4, <1>5, <1>6, <1>7, <1>8, <1>9, <1>10, <1>11, <1>12, <1>13, <1>14, <1>15,
     <1>16, <1>17 DEF Serve

----------------------------------------------------------------------------
(* What a step of one request leaves alone *)

Step(r) == Begin(r) \/ Serve(r) \/ Rollback(r)

\* Only requests that are blocked by others, or block them, are in a circle.
LEMMA DeadlockedIsActive ==
    ASSUME NEW r \in Requests, Deadlocked(r)
    PROVE  pc[r] \in {"user", "unlinkForRole", "unlinkOld", "clear", "link", "delete", "insert"}
  BY DEF Deadlocked, WaitsFor

LEMMA StepEnds ==
    ASSUME TypeOK, Begun, NEW r \in Requests, Step(r)
    PROVE  /\ pc[r] \notin Ended /\ pc'[r] # "idle"
           /\ \A q \in Requests \ {r} : pc'[q] = pc[q] /\ arg'[q] = arg[q]
<1>1. pc[r] \notin Ended
  BY DeadlockedIsActive DEF Step, Begin, Serve, Rollback, BeginRegister, BeginCreate, BeginSlug,
        BeginRole, BeginLink, BeginUnlink, BeginServices, ChooseSlug, InsertUser, CreateOwner,
        CreateMember, Rename, UnlinkForRole, SetRole, ReadEmployee, UnlinkOld, LinkEmployee,
        Unlink, SeeServices, DeleteServices, InsertRow, InsertServices, BreakDeadlock, Ended
<1>2. \E l \in PC \ {"idle"} : Goto(r, l)
  <2>1. CASE Begin(r) 
    BY <2>1 DEF Begin, BeginRegister, BeginCreate, BeginSlug, BeginRole, BeginLink, BeginUnlink,
                BeginServices, PC
  <2>2. CASE CreateOwner(r) \/ CreateMember(r) \/ Rename(r) \/ SetRole(r) \/ LinkEmployee(r) 
                \/ Unlink(r) \/ InsertServices(r)
    BY <2>2 DEF CreateOwner, CreateMember, Admit, TakesEffect, Rename, SetRole, LinkEmployee,
                Unlink, InsertServices, PC
  <2>3. CASE InsertRow(r)
    BY <2>3 DEF InsertRow, Goto, TypeOK, PC
  <2>4. CASE Serve(r) \/ Rollback(r)
    BY <2>2, <2>3, <2>4 DEF Serve, Rollback, ChooseSlug, InsertUser, UnlinkForRole, ReadEmployee,
                UnlinkOld, SeeServices, DeleteServices, BreakDeadlock, PC
  <2> QED
    BY <2>1, <2>4 DEF Step
<1>3. \A q \in Requests \ {r} : arg'[q] = arg[q]
  <2>1. CASE Begin(r) 
    BY <2>1 DEF Begin, BeginRegister, BeginCreate, BeginSlug, BeginRole, BeginLink, BeginUnlink,
                BeginServices, TypeOK
  <2>2. CASE ChooseSlug(r) \/ SeeServices(r)
    BY <2>2 DEF ChooseSlug, SeeServices, TypeOK
  <2>3. CASE DeleteServices(r) \/ InsertRow(r)
    BY <2>3, DeleteArg, InsertRowArg DEF TypeOK
  <2>4. CASE Serve(r) \/ Rollback(r)
    BY <2>2, <2>3, <2>4 DEF Serve, Rollback, InsertUser, CreateOwner, CreateMember, Rename,
          UnlinkForRole, SetRole, ReadEmployee, UnlinkOld, LinkEmployee, Unlink, InsertServices,
          BreakDeadlock
  <2> QED
    BY <2>1, <2>4 DEF Step
<1> QED
  BY <1>1, <1>2, <1>3 DEF Goto, TypeOK

\* Which actions change what is stored.
LEMMA StepKeeps ==
    ASSUME NEW r \in Requests, Step(r)
    PROVE  /\ UNCHANGED users \/ CreateOwner(r) \/ CreateMember(r)
           /\ UNCHANGED member \/ CreateOwner(r) \/ CreateMember(r) \/ SetRole(r)
           /\ UNCHANGED slug \/ CreateOwner(r) \/ Rename(r)
           /\ UNCHANGED link \/ SetRole(r) \/ LinkEmployee(r) \/ Unlink(r)
           /\ UNCHANGED performs \/ InsertServices(r)
  BY DEF Step, Begin, Serve, Rollback, BeginRegister, BeginCreate, BeginSlug, BeginRole,
         BeginLink, BeginUnlink, BeginServices, ChooseSlug, InsertUser, Rename, UnlinkForRole,
         SetRole, ReadEmployee, UnlinkOld, LinkEmployee, Unlink, SeeServices, DeleteServices,
         CreateOwner, CreateMember, InsertRow, InsertServices, BreakDeadlock

\* How a request comes to where it is.
LEMMA StepTo ==
    ASSUME TypeOK, NEW r \in Requests, Step(r)
    PROVE  /\ pc'[r] = "slug" => BeginRegister(r)
           /\ pc'[r] = "user" => ChooseSlug(r) \/ BeginCreate(r)
           /\ pc'[r] \in {"owner", "member"} => InsertUser(r)
           /\ pc'[r] = "rename" => BeginSlug(r)
           /\ pc'[r] = "unlinkForRole" => BeginRole(r)
           /\ pc'[r] = "role" => BeginRole(r) \/ UnlinkForRole(r)
           /\ pc'[r] = "employee" => BeginLink(r)
           /\ pc'[r] = "unlinkOld" => ReadEmployee(r)
           /\ pc'[r] = "link" => ReadEmployee(r) \/ UnlinkOld(r)
           /\ pc'[r] = "clear" => BeginUnlink(r)
           /\ pc'[r] = "see" => BeginServices(r)
           /\ pc'[r] = "delete" => SeeServices(r)
           /\ pc'[r] = "insert" => DeleteServices(r) \/ InsertRow(r)
           /\ pc'[r] = "failed" => InsertUser(r) \/ CreateOwner(r) \/ Rename(r) \/ LinkEmployee(r)
                                      \/ InsertServices(r)
<1>1. CASE Begin(r)
  <2>1. CASE BeginRole(r)
    <3>1. pc'[r] \in {"unlinkForRole", "role"}
      BY <2>1 DEF BeginRole, Goto, TypeOK
    <3> QED
      BY <2>1, <3>1
  <2>2. CASE BeginRegister(r) \/ BeginCreate(r) \/ BeginSlug(r) \/ BeginLink(r)
    <3>1. pc \in [Requests -> PC]
      BY DEF TypeOK
    <3>2. CASE BeginRegister(r)
      BY <3>1, <3>2 DEF BeginRegister, Goto
    <3>3. CASE BeginCreate(r)
      BY <3>1, <3>3 DEF BeginCreate, Goto
    <3>4. CASE BeginSlug(r)
      BY <3>1, <3>4 DEF BeginSlug, Goto
    <3>5. CASE BeginLink(r)
      BY <3>1, <3>5 DEF BeginLink, Goto
    <3> QED
      BY <2>2, <3>2, <3>3, <3>4, <3>5
  <2>3. CASE BeginUnlink(r) \/ BeginServices(r)
    BY <2>3 DEF BeginUnlink, BeginServices, Goto, TypeOK
  <2> QED
    BY <1>1, <2>1, <2>2, <2>3 DEF Begin
<1>2. CASE ChooseSlug(r) \/ UnlinkForRole(r) \/ UnlinkOld(r) \/ SeeServices(r) \/ DeleteServices(r)
  <2>1. pc \in [Requests -> PC]
    BY DEF TypeOK
  <2>2. CASE ChooseSlug(r)
    BY <2>1, <2>2 DEF ChooseSlug, Goto
  <2>3. CASE UnlinkForRole(r)
    BY <2>1, <2>3 DEF UnlinkForRole, Goto
  <2>4. CASE UnlinkOld(r)
    BY <2>1, <2>4 DEF UnlinkOld, Goto
  <2>5. CASE SeeServices(r)
    BY <2>1, <2>5 DEF SeeServices, Goto
  <2>6. CASE DeleteServices(r)
    BY <2>1, <2>6 DEF DeleteServices, Goto
  <2> QED
    BY <1>2, <2>2, <2>3, <2>4, <2>5, <2>6
<1>3. CASE InsertUser(r)
  BY <1>3 DEF InsertUser, Goto, TypeOK
<1>4. CASE ReadEmployee(r)
  BY <1>4 DEF ReadEmployee, Goto, TypeOK
<1>5. CASE SetRole(r) \/ Unlink(r) \/ CreateMember(r) \/ BreakDeadlock(r) \/ Rollback(r)
  <2>1. pc'[r] = "done"
    BY <1>5 DEF SetRole, Unlink, CreateMember, Admit, TakesEffect, BreakDeadlock, Rollback, Goto,
                TypeOK
  <2> QED
    BY <2>1
<1>6. CASE CreateOwner(r) \/ Rename(r) \/ LinkEmployee(r) \/ InsertServices(r)
  <2>1. pc'[r] \in {"done", "failed"}
    BY <1>6 DEF CreateOwner, Admit, TakesEffect, Rename, LinkEmployee, InsertServices, Goto, TypeOK
  <2> QED
    BY <1>6, <2>1
<1>7. CASE InsertRow(r)
  <2>1. pc'[r] = "insert"
    BY <1>7 DEF InsertRow
  <2> QED
    BY <1>7, <2>1
<1> QED
  BY <1>1, <1>2, <1>3, <1>4, <1>5, <1>6, <1>7 DEF Step, Serve

\* A request changes the rows in its last step, signs them, and is recorded.
LEMMA StepWrites ==
    ASSUME TypeOK, Begun, NEW r \in Requests, Step(r)
    PROVE  /\ missed \subseteq missed'
           /\ \/ UNCHANGED <<users, member, slug, link, performs>>
              \/ /\ pc'[r] = "done"
                 /\ \A q \in Requests \ {r} : pc[q] \notin Ended \cup {"idle"} => <<q, r>> \in missed'
           /\ \A e \in Emails : member'[e] = member[e] \/ member'[e].by = r
           /\ \A x \in Employees : link'[x] = link[x] \/ link'[x].by = r
<1>1. CASE Begin(r)
  BY <1>1 DEF Begin, BeginRegister, BeginCreate, BeginSlug, BeginRole, BeginLink, BeginUnlink,
              BeginServices
<1>2. CASE TakesEffect(r)
  <2>1. /\ missed \subseteq missed' /\ pc'[r] = "done"
        /\ \A q \in Requests \ {r} : pc[q] \notin Ended \cup {"idle"} => <<q, r>> \in missed'
    BY <1>2, MissedType DEF TakesEffect, Goto, TypeOK
  <2>2. \A e \in Emails : member'[e] = member[e] \/ member'[e].by = r
    <3>1. CASE SetRole(r)
      <4>1. member[arg[r].email] \in Membership
        BY <3>1 DEF SetRole, Begun, TypeOK
      <4> QED
        BY <3>1, <4>1 DEF SetRole, TypeOK, Membership
    <3>2. CASE CreateOwner(r) \/ CreateMember(r)
      BY <3>2 DEF CreateOwner, CreateMember, Admit, TypeOK
    <3> QED
      BY <3>1, <3>2, StepKeeps
  <2>3. \A x \in Employees : link'[x] = link[x] \/ link'[x].by = r
    <3>1. CASE SetRole(r)
      BY <3>1 DEF SetRole
    <3>2. CASE LinkEmployee(r)
      BY <3>2 DEF LinkEmployee
    <3>3. CASE Unlink(r)
      BY <3>3 DEF Unlink, TypeOK
    <3> QED
      BY <3>1, <3>2, <3>3, StepKeeps
  <2> QED
    BY <2>1, <2>2, <2>3
<1>3. CASE ~TakesEffect(r) /\ (Serve(r) \/ Rollback(r))
  BY <1>3 DEF Serve, Rollback, ChooseSlug, InsertUser, CreateOwner, CreateMember, Admit, Rename,
        UnlinkForRole, SetRole, ReadEmployee, UnlinkOld, LinkEmployee, Unlink, SeeServices,
        DeleteServices, InsertRow, InsertServices, BreakDeadlock
<1> QED
  BY <1>1, <1>2, <1>3 DEF Step

----------------------------------------------------------------------------
(* Accounts *)

\* A user has one membership, a linked employee a user; an address that is being
\* inserted has no row yet, and no other request is inserting it.
Accounts ==
    /\ \A e \in Emails : e \in users <=> member[e] # None
    /\ \A x \in Employees : link[x].member # None => link[x].member \in users
    /\ \A r \in Requests : pc[r] \in {"owner", "member"} => arg[r].email \notin users
    /\ \A q, r \in Requests : 
          q # r /\ pc[q] \in {"owner", "member"} /\ pc[r] \in {"owner", "member"} =>
             arg[q].email # arg[r].email

TInv == TypeOK /\ Begun

LEMMA StepType ==
    ASSUME TInv, NEW r \in Requests, Step(r)
    PROVE  TypeOK'
  BY BeginType, ServeType DEF TInv, Step

LEMMA MembersStay ==
    ASSUME TInv, NEW r \in Requests, Step(r), NEW e \in Emails, member[e] # None
    PROVE  member'[e] # None
<1> USE DEF TInv
<1>1. CASE SetRole(r)
  <2>1. arg[r].email \in Emails /\ member[arg[r].email] # None
    BY <1>1 DEF SetRole, Begun
  <2>2. CASE e = arg[r].email
    <3>1. member[e] \in Membership
      BY <2>1, <2>2 DEF TypeOK
    <3>2. arg[r].role \in Roles /\ r \in Who
      BY <1>1 DEF TypeOK, Arg, SetRole, Who
    <3>3. member'[e] = [member[e] EXCEPT !.role = arg[r].role, !.by = r]
      BY <1>1, <2>1, <2>2 DEF SetRole, TypeOK
    <3>4. member'[e] \in Membership
      BY <3>1, <3>2, <3>3 DEF Membership
    <3> QED
      BY <3>4
  <2>3. CASE e # arg[r].email
    BY <1>1, <2>3 DEF SetRole, TypeOK
  <2> QED
    BY <2>2, <2>3
<1>2. CASE CreateOwner(r) \/ CreateMember(r)
  <2>1. r \in Tenants /\ r \in Who /\ Home \in Tenants
    BY DEF Tenants, Who
  <2>2. CASE CreateOwner(r)
    <3>1. [tenant |-> r, role |-> "OWNER", by |-> r] \in Membership
      BY <2>1 DEF Membership, Roles
    <3> QED
      BY <2>2, <3>1 DEF CreateOwner, Admit, TypeOK
  <2>3. CASE CreateMember(r)
    <3>1. arg[r].role \in Roles
      BY <2>3 DEF CreateMember, TypeOK, Arg
    <3>2. [tenant |-> Home, role |-> arg[r].role, by |-> r] \in Membership
      BY <2>1, <3>1 DEF Membership
    <3> QED
      BY <2>3, <3>2 DEF CreateMember, Admit, TypeOK
  <2> QED
    BY <1>2, <2>2, <2>3
<1> QED
  BY <1>1, <1>2, StepKeeps

LEMMA BeginRoleReads ==
    ASSUME TypeOK, NEW r \in Requests, BeginRole(r)
    PROVE  \E e \in Emails, x \in TeamRoles, old \in Employees \cup {None} :
              /\ InHome(e) /\ member[e].role # "OWNER" /\ ReadsOld(r, e, old)
              /\ arg'[r].email = e /\ arg'[r].role = x /\ arg'[r].old = old
              /\ arg'[r].seen = arg[r].seen /\ arg'[r].slug = arg[r].slug
              /\ pc'[r] = IF x # Staff /\ old # None THEN "unlinkForRole" ELSE "role"
<1>1. PICK e \in Emails, x \in TeamRoles, old \in Employees \cup {None} :
           /\ InHome(e) /\ member[e].role # "OWNER"
           /\ ReadsOld(r, e, old)
           /\ arg' = [arg EXCEPT ![r].email = e, ![r].role = x, ![r].old = old]
           /\ Goto(r, IF x # Staff /\ old # None THEN "unlinkForRole" ELSE "role")
  BY DEF BeginRole
<1>2. /\ arg'[r].email = e /\ arg'[r].role = x /\ arg'[r].old = old 
      /\ arg'[r].seen = arg[r].seen /\ arg'[r].slug = arg[r].slug
  BY <1>1 DEF TypeOK, Arg
<1>3. pc'[r] = IF x # Staff /\ old # None THEN "unlinkForRole" ELSE "role"
  BY <1>1 DEF TypeOK, Goto
<1> QED
  BY <1>1, <1>2, <1>3

LEMMA BeginLinkReads ==
    ASSUME TypeOK, NEW r \in Requests, BeginLink(r)
    PROVE  \E e \in Emails, x \in Employees, old \in Employees \cup {None} :
              /\ InHome(e) /\ member[e].role = Staff /\ ReadsOld(r, e, old)
              /\ arg'[r].email = e /\ arg'[r].employee = x /\ arg'[r].old = old 
              /\ arg'[r].seen = arg[r].seen /\ arg'[r].slug = arg[r].slug
<1>1. PICK e \in Emails, x \in Employees, old \in Employees \cup {None} :
           /\ InHome(e) /\ member[e].role = Staff
           /\ ReadsOld(r, e, old)
           /\ arg' = [arg EXCEPT ![r].email = e, ![r].employee = x, ![r].old = old]
  BY DEF BeginLink
<1>2. /\ arg'[r].email = e /\ arg'[r].employee = x /\ arg'[r].old = old 
      /\ arg'[r].seen = arg[r].seen /\ arg'[r].slug = arg[r].slug
  BY <1>1 DEF TypeOK, Arg
<1> QED
  BY <1>1, <1>2

LEMMA BeginUnlinkReads ==
    ASSUME TypeOK, NEW r \in Requests, BeginUnlink(r)
    PROVE  \E e \in Emails, old \in Employees :
              /\ InHome(e) /\ old \in LinkedTo(e)
              /\ arg'[r].email = e /\ arg'[r].old = old 
              /\ arg'[r].seen = arg[r].seen /\ arg'[r].slug = arg[r].slug
<1>1. PICK e \in Emails, old \in Employees :
           /\ InHome(e) /\ member[e].role = Staff
           /\ old \in LinkedTo(e)
           /\ arg' = [arg EXCEPT ![r].email = e, ![r].old = old]
  BY DEF BeginUnlink
<1>2. /\ arg'[r].email = e /\ arg'[r].old = old 
      /\ arg'[r].seen = arg[r].seen /\ arg'[r].slug = arg[r].slug
  BY <1>1 DEF TypeOK, Arg
<1> QED
  BY <1>1, <1>2

\* Past its first read, a request keeps what it was given.
LEMMA KeepsArg ==
    ASSUME NEW r \in Requests,
           InsertUser(r) \/ UnlinkForRole(r) \/ ReadEmployee(r) \/ UnlinkOld(r)
    PROVE  UNCHANGED arg
  BY DEF InsertUser, UnlinkForRole, ReadEmployee, UnlinkOld

LEMMA BegunStep ==
    ASSUME TInv, NEW r \in Requests, Step(r)
    PROVE  Begun'
<1> USE DEF TInv
<1> SUFFICES ASSUME NEW q \in Requests
             PROVE  /\ pc'[q] = "idle" => arg'[q] = Blank
                    /\ pc'[q] \in {"slug", "rename"} => arg'[q].slug \in Bases
                    /\ pc'[q] = "user" /\ arg'[q].slug = None => arg'[q].role # None
                    /\ pc'[q] \in {"unlinkForRole", "role", "employee", "unlinkOld", "link", "clear"} =>
                          arg'[q].email \in Emails /\ member'[arg'[q].email] # None
                    /\ pc'[q] = "insert" /\ arg'[q].next = None => arg'[q].new = {}
  BY DEF Begun
<1>1. CASE q # r
  BY <1>1, StepEnds, MembersStay DEF Begun
<1>2. CASE q = r
  <2>1. pc'[r] # "idle"
    BY StepEnds
  <2>2. pc'[r] \in {"slug", "rename"} => arg'[r].slug \in Bases
    <3>1. CASE BeginRegister(r)
      BY <3>1 DEF BeginRegister, TypeOK, Arg
    <3>2. CASE BeginSlug(r)
      BY <3>2 DEF BeginSlug, TypeOK, Arg
    <3> QED
      BY <3>1, <3>2, StepTo
  <2>3. pc'[r] = "user" => arg'[r].slug # None \/ arg'[r].role # None
    <3>1. CASE ChooseSlug(r)
      BY <3>1 DEF ChooseSlug, UniqueSlug, Begun, TypeOK, Arg, Slugs
    <3>2. CASE BeginCreate(r)
      BY <3>2 DEF BeginCreate, TypeOK, Arg, Roles
    <3> QED
      BY <3>1, <3>2, StepTo
  <2>4. ASSUME pc'[r] \in {"unlinkForRole", "role", "employee", "unlinkOld", "link", "clear"}
        PROVE  arg'[r].email \in Emails /\ member[arg'[r].email] # None
    <3>1. CASE BeginRole(r) \/ BeginLink(r) \/ BeginUnlink(r)
      BY <3>1, BeginRoleReads, BeginLinkReads, BeginUnlinkReads DEF InHome
    <3>2. CASE UnlinkForRole(r) \/ ReadEmployee(r) \/ UnlinkOld(r)
      BY <3>2, KeepsArg DEF UnlinkForRole, ReadEmployee, UnlinkOld, Begun
    <3> QED
      BY <2>4, <3>1, <3>2, StepTo
  <2>5. pc'[r] = "insert" /\ arg'[r].next = None => arg'[r].new = {}
    BY StepTo, DeleteArg, InsertRowArg DEF TypeOK
  <2> QED
    BY <1>2, <2>1, <2>2, <2>3, <2>4, <2>5, MembersStay
<1> QED
  BY <1>1, <1>2

\* InsertUser waits for the transaction that inserts the same address.
LEMMA InsertUserFresh ==
    ASSUME TypeOK, NEW r \in Requests, InsertUser(r), pc'[r] \in {"owner", "member"}
    PROVE  /\ arg[r].email \notin users /\ UNCHANGED <<users, member, link, arg>>
           /\ \A q \in Requests \ {r} : pc[q] \in {"owner", "member"} => arg[q].email # arg[r].email
<1>1. Goto(r, IF arg[r].email \in users THEN "failed"
               ELSE IF arg[r].slug = None THEN "member" ELSE "owner")
  BY DEF InsertUser
<1>2. arg[r].email \notin users
  BY <1>1 DEF Goto, TypeOK
<1>3. \A q \in Requests \ {r} : ~WaitsFor(r, q)
  BY DEF InsertUser, Unblocked
<1>4. ASSUME NEW q \in Requests \ {r}, pc[q] \in {"owner", "member"}
      PROVE  arg[q].email # arg[r].email
  BY <1>3, <1>4 DEF WaitsFor, Inserted, InsertUser
<1> QED
  BY <1>2, <1>4 DEF InsertUser

LEMMA AccountsStep ==
    ASSUME TInv, Accounts, NEW r \in Requests, Step(r)
    PROVE  Accounts'
<1> USE DEF TInv
<1>1. UNCHANGED <<users>> \/ /\ pc[r] \in {"owner", "member"} /\ pc'[r] = "done"
                             /\ users' = users \cup {arg[r].email}
                             /\ \A e \in Emails \ {arg[r].email} : member'[e] = member[e]
                             /\ member'[arg[r].email] # None /\ UNCHANGED <<link, arg>>
  <2>1. CASE UNCHANGED users
    BY <2>1
  <2>2. CASE ~UNCHANGED users
    <3>1. CreateOwner(r) \/ CreateMember(r)
      BY <2>2, StepKeeps
    <3>2. /\ users' = users \cup {arg[r].email} /\ pc'[r] = "done" /\ UNCHANGED <<link, arg>>
          /\ pc[r] \in {"owner", "member"}
      BY <2>2, <3>1 DEF CreateOwner, CreateMember, Admit, TakesEffect, Goto, TypeOK
    <3>3. \A e \in Emails \ {arg[r].email} : member'[e] = member[e]
      BY <2>2, <3>1 DEF CreateOwner, CreateMember, Admit, TypeOK
    <3>4. member'[arg[r].email] # None
      <4>1. arg[r].email \in Emails
        BY <3>2 DEF TypeOK, Arg
      <4>2. r \in Tenants /\ r \in Who /\ Home \in Tenants
        BY DEF Tenants, Who
      <4>3. CASE CreateOwner(r)
        <5>1. [tenant |-> r, role |-> "OWNER", by |-> r] \in Membership
          BY <4>2 DEF Membership, Roles
        <5> QED
          BY <2>2, <4>1, <4>3, <5>1 DEF CreateOwner, Admit, TypeOK
      <4>4. CASE CreateMember(r)
        <5>1. arg[r].role \in Roles
          BY <4>4 DEF CreateMember, TypeOK, Arg
        <5>2. [tenant |-> Home, role |-> arg[r].role, by |-> r] \in Membership
          BY <4>2, <5>1 DEF Membership
        <5> QED
          BY <4>1, <4>4, <5>2 DEF CreateMember, Admit, TypeOK
      <4> QED
        BY <3>1, <4>3, <4>4
    <3> QED
      BY <3>2, <3>3, <3>4
  <2> QED
    BY <2>1, <2>2
<1>2. UNCHANGED users => \A e \in Emails : member'[e] = None <=> member[e] = None
  <2>1. CASE SetRole(r)
    BY <2>1, MembersStay DEF SetRole, TypeOK, Begun
  <2>2. CASE UNCHANGED users /\ (CreateOwner(r) \/ CreateMember(r))
    BY <2>2 DEF CreateOwner, CreateMember, Admit, Accounts, TypeOK, Arg
  <2> QED
    BY <2>1, <2>2, StepKeeps
<1>3. \A e \in Emails : e \in users' <=> member'[e] # None
  BY <1>1, <1>2 DEF Accounts, TypeOK, Arg
<1>4. ASSUME NEW x \in Employees, link'[x].member # None
      PROVE  link'[x].member \in users
  <2>1. CASE SetRole(r)
    BY <1>4, <2>1 DEF SetRole, Accounts, TypeOK
  <2>2. CASE LinkEmployee(r)
    BY <1>4, <2>2 DEF LinkEmployee, Accounts, Begun, TypeOK
  <2>3. CASE Unlink(r)
    BY <1>4, <2>3 DEF Unlink, Accounts, TypeOK
  <2> QED
    BY <1>4, <2>1, <2>2, <2>3, StepKeeps DEF Accounts
<1>5. ASSUME NEW q \in Requests, pc'[q] \in {"owner", "member"}
      PROVE  arg'[q].email \notin users'
  <2>1. CASE q = r
    BY <1>5, <2>1, StepTo, InsertUserFresh
  <2>2. CASE q # r
    BY <1>1, <1>5, <2>2, StepEnds DEF Accounts
  <2> QED
    BY <2>1, <2>2
<1>6. ASSUME NEW q \in Requests, NEW p \in Requests, q # p,
             pc'[q] \in {"owner", "member"}, pc'[p] \in {"owner", "member"}
      PROVE  arg'[q].email # arg'[p].email
  <2>1. CASE q = r \/ p = r
    <3>1. InsertUser(r)
      BY <1>6, <2>1, StepTo
    <3> QED
      BY <1>6, <2>1, <3>1, StepEnds, InsertUserFresh
  <2>2. CASE q # r /\ p # r
    BY <1>6, <2>2, StepEnds DEF Accounts
  <2> QED
    BY <2>1, <2>2
<1> QED
  BY <1>1, <1>3, <1>4, <1>5, <1>6 DEF Accounts

----------------------------------------------------------------------------
(* Links *)

\* What a request has read of its member and its employee is so, or whoever changed the
\* row overtook it: the employees its member is linked to, ...
OwnLinks(r) == pc[r] \in {"unlinkForRole", "role", "employee", "unlinkOld", "link"} =>
    \A x \in Employees : link[x].member = arg[r].email => 
        x = arg[r].old \/ <<r, link[x].by>> \in missed

\* ... the member of the employee it was read with, ...
OldLink(r) ==
    pc[r] \in {"unlinkForRole", "role", "employee", "unlinkOld", "link", "clear"} /\ arg[r].old # None =>
        link[arg[r].old].member = arg[r].email \/ <<r, link[arg[r].old].by>> \in missed

\* ... the role of the member, ...
StaffRead(r) == pc[r] \in {"employee", "unlinkOld", "link"} =>
    member[arg[r].email].role = Staff \/ <<r, member[arg[r].email].by>> \in missed

\* ... and the member of the employee to link.
EmployeeRead(r) == pc[r] \in {"unlinkOld", "link"} =>
    \/ link[arg[r].employee].member \in {None, arg[r].email} 
    \/ <<r, link[arg[r].employee].by>> \in missed

LinkReads == \A r \in Requests : OwnLinks(r) /\ OldLink(r) /\ StaffRead(r) /\ EmployeeRead(r)

LinkInv == OneEmployeePerMember /\ LinkedIsStaff /\ LinkReads

LEMMA ReadsOldOnly ==
    ASSUME OneEmployeePerMember, NEW e \in Emails, NEW old \in Employees \cup {None}, NEW r,
           ReadsOld(r, e, old)
    PROVE  /\ \A x \in Employees : link[x].member = e => x = old
           /\ old # None => link[old].member = e
  BY DEF OneEmployeePerMember, ReadsOld, LinkedTo

\* What another request has read goes stale only by being overtaken.
LEMMA OthersLinkReads ==
    ASSUME TInv, LinkReads, NEW r \in Requests, Step(r), NEW q \in Requests \ {r}
    PROVE  OwnLinks(q)' /\ OldLink(q)' /\ StaffRead(q)' /\ EmployeeRead(q)'
<1> USE DEF TInv
<1>1. pc'[q] = pc[q] /\ arg'[q] = arg[q]
  BY StepEnds
<1>2. CASE UNCHANGED <<member, link>>
  BY <1>1, <1>2, StepWrites DEF LinkReads, OwnLinks, OldLink, StaffRead, EmployeeRead
<1>3. CASE pc[q] \notin Ended \cup {"idle"} /\ ~UNCHANGED <<member, link>>
  <2>1. <<q, r>> \in missed' /\ missed \subseteq missed'
    BY <1>3, StepWrites
  <2>2. \A x \in Employees : link'[x] = link[x] \/ <<q, link'[x].by>> \in missed'
    BY <2>1, StepWrites
  <2>3. \A e \in Emails : member'[e] = member[e] \/ <<q, member'[e].by>> \in missed'
    BY <2>1, StepWrites
  <2>4. OwnLinks(q)'
    BY <1>1, <2>1, <2>2 DEF LinkReads, OwnLinks
  <2>5. OldLink(q)'
    BY <1>1, <2>1, <2>2 DEF LinkReads, OldLink, TypeOK, Arg
  <2>6. StaffRead(q)'
    BY <1>1, <2>1, <2>3 DEF LinkReads, StaffRead, TypeOK, Begun
  <2>7. EmployeeRead(q)'
    BY <1>1, <2>1, <2>2 DEF LinkReads, EmployeeRead, TypeOK, Arg
  <2> QED
    BY <2>4, <2>5, <2>6, <2>7
<1>4. CASE pc[q] \in Ended \cup {"idle"}
  BY <1>1, <1>4 DEF OwnLinks, OldLink, StaffRead, EmployeeRead, Ended
<1> QED
  BY <1>2, <1>3, <1>4

LEMMA OwnLinkReads ==
    ASSUME TInv, LinkInv, NEW r \in Requests, Step(r)
    PROVE  OwnLinks(r)' /\ OldLink(r)' /\ StaffRead(r)' /\ EmployeeRead(r)'
<1> USE DEF TInv, LinkInv
<1>1. CASE BeginRole(r)
  <2>1. pc'[r] \in {"unlinkForRole", "role"} /\ UNCHANGED <<link, missed>>
    BY <1>1, BeginRoleReads DEF BeginRole
  <2>2. PICK e \in Emails, old \in Employees \cup {None} : 
             ReadsOld(r, e, old) /\ arg'[r].email = e /\ arg'[r].old = old
    BY <1>1, BeginRoleReads
  <2> QED
    BY <2>1, <2>2, ReadsOldOnly DEF OwnLinks, OldLink, StaffRead, EmployeeRead
<1>2. CASE BeginLink(r)
  <2>1. pc'[r] = "employee" /\ UNCHANGED <<member, link, missed>>
    BY <1>2 DEF BeginLink, Goto, TypeOK
  <2>2. PICK e \in Emails, old \in Employees \cup {None} : 
             /\ ReadsOld(r, e, old) /\ member[e].role = Staff 
             /\ arg'[r].email = e /\ arg'[r].old = old
    BY <1>2, BeginLinkReads
  <2> QED
    BY <2>1, <2>2, ReadsOldOnly DEF OwnLinks, OldLink, StaffRead, EmployeeRead
<1>3. CASE BeginUnlink(r)
  <2>1. pc'[r] = "clear" /\ UNCHANGED <<link, missed>>
    BY <1>3 DEF BeginUnlink, Goto, TypeOK
  <2>2. PICK e \in Emails, old \in Employees : 
             old \in LinkedTo(e) /\ arg'[r].email = e /\ arg'[r].old = old
    BY <1>3, BeginUnlinkReads
  <2> QED
    BY <2>1, <2>2 DEF LinkedTo, OwnLinks, OldLink, StaffRead, EmployeeRead
<1>4. CASE ReadEmployee(r)
  <2>1. pc[r] = "employee" /\ UNCHANGED <<member, link, arg, missed>> 
    BY <1>4 DEF ReadEmployee
  <2>2. pc'[r] \in {"unlinkOld", "link"} => link[arg[r].employee].member \in {None, arg[r].email}
    BY <1>4 DEF ReadEmployee, Goto, TypeOK
  <2> QED
    BY <2>1, <2>2 DEF LinkReads, OwnLinks, OldLink, StaffRead, EmployeeRead
<1>5. CASE UnlinkForRole(r)
  <2>1. pc[r] = "unlinkForRole" /\ pc'[r] = "role" /\ UNCHANGED <<member, link, arg, missed>> 
    BY <1>5 DEF UnlinkForRole, Goto, TypeOK
  <2> QED
    BY <2>1 DEF LinkReads, OwnLinks, OldLink, StaffRead, EmployeeRead
<1>6. CASE UnlinkOld(r)
  <2>1. pc[r] = "unlinkOld" /\ pc'[r] = "link" /\ UNCHANGED <<member, link, arg, missed>> 
    BY <1>6 DEF UnlinkOld, Goto, TypeOK
  <2> QED
    BY <2>1 DEF LinkReads, OwnLinks, OldLink, StaffRead, EmployeeRead
<1>7. CASE pc'[r] \notin {"unlinkForRole", "role", "employee", "unlinkOld", "link", "clear"}
  BY <1>7 DEF OwnLinks, OldLink, StaffRead, EmployeeRead
<1> QED
  BY <1>1, <1>2, <1>3, <1>4, <1>5, <1>6, <1>7, StepTo

LEMMA LinkEmployeeWrites ==
    ASSUME TInv, NEW r \in Requests, LinkEmployee(r), ~UNCHANGED link
    PROVE  /\ LinkedTo(arg[r].email) \ (Held(r) \cup {arg[r].employee}) = {}
           /\ pc[r] = "link" /\ UNCHANGED <<users, member>> /\ arg[r].employee \in Employees
           /\ link' = [x \in Employees |-> 
                  IF x = arg[r].employee THEN [member |-> arg[r].email, by |-> r]
                  ELSE IF x \in Held(r) THEN [member |-> None, by |-> r] ELSE link[x]]
  BY DEF LinkEmployee, Duplicates, TypeOK, Arg, TInv

LEMMA OneEmployeeStep ==
    ASSUME TInv, OneEmployeePerMember, NEW r \in Requests, Step(r)
    PROVE  OneEmployeePerMember'
<1>1. CASE SetRole(r)
  BY <1>1 DEF SetRole, OneEmployeePerMember
<1>2. CASE LinkEmployee(r) /\ ~UNCHANGED link
  BY <1>2, LinkEmployeeWrites DEF OneEmployeePerMember, LinkedTo
<1>3. CASE Unlink(r)
  BY <1>3 DEF Unlink, OneEmployeePerMember, TInv, TypeOK
<1>4. CASE UNCHANGED link
  BY <1>4 DEF OneEmployeePerMember
<1> QED
  BY <1>1, <1>2, <1>3, <1>4, StepKeeps

LEMMA LinkedIsStaffStep ==
    ASSUME TInv, Accounts, LinkInv, NEW r \in Requests, Step(r)
    PROVE  LinkedIsStaff'
<1> USE DEF TInv, LinkInv
<1> SUFFICES ASSUME NEW x \in Employees, link'[x].member # None
             PROVE  \/ member'[link'[x].member].role = Staff 
                    \/ <<link'[x].by, member'[link'[x].member].by>> \in missed'
                    \/ <<member'[link'[x].member].by, link'[x].by>> \in missed'
  BY DEF LinkedIsStaff, Overtook
<1>1. missed \subseteq missed'
  BY StepWrites
<1>2. ASSUME link'[x] = link[x]
      PROVE  /\ link[x].member \in users /\ link[x].member \in Emails
             /\ \/ member[link[x].member].role = Staff 
                \/ <<link[x].by, member[link[x].member].by>> \in missed
                \/ <<member[link[x].member].by, link[x].by>> \in missed
  BY <1>2 DEF LinkedIsStaff, Overtook, Accounts, TypeOK
<1>3. CASE SetRole(r)
  <2> DEFINE e == arg[r].email
  <2>1. /\ link'[x] = link[x] /\ x \notin Held(r) /\ pc[r] = "role"
        /\ \A d \in Emails \ {e} : member'[d] = member[d]
    BY <1>3 DEF SetRole, TypeOK
  <2>2. CASE link[x].member # e
    BY <1>1, <1>2, <2>1, <2>2
  <2>3. CASE link[x].member = e
    <3>1. member'[e] = [member[e] EXCEPT !.role = arg[r].role, !.by = r] /\ member[e] \in Membership
      BY <1>3 DEF SetRole, TypeOK, Begun
    <3>2. member'[e].role = arg[r].role /\ member'[e].by = r
      BY <3>1 DEF Membership
    <3>3. CASE arg[r].role # Staff
      <4>1. Held(r) = {arg[r].old} \ {None}
        BY <2>1, <3>3 DEF Held
      <4>2. x # arg[r].old
        BY <2>1, <4>1
      <4> QED
        BY <1>1, <2>1, <2>3, <3>2, <4>2 DEF LinkReads, OwnLinks
    <3> QED
      BY <2>1, <2>3, <3>2, <3>3
  <2> QED
    BY <2>2, <2>3
<1>4. CASE LinkEmployee(r) /\ ~UNCHANGED link
  <2>1. CASE x = arg[r].employee
    <3>1. link'[x].member = arg[r].email /\ link'[x].by = r /\ pc[r] = "link" /\ UNCHANGED member
      BY <1>4, <2>1, LinkEmployeeWrites
    <3> QED
      BY <1>1, <3>1 DEF LinkReads, StaffRead
  <2>2. CASE x # arg[r].employee
    <3>1. link'[x] = link[x] /\ UNCHANGED member
      BY <1>4, <2>2, LinkEmployeeWrites
    <3> QED
      BY <1>1, <1>2, <3>1
  <2> QED
    BY <2>1, <2>2
<1>5. CASE Unlink(r)
  <2>1. link'[x] = link[x] /\ UNCHANGED member
    BY <1>5 DEF Unlink, TypeOK
  <2> QED
    BY <1>1, <1>2, <2>1
<1>6. CASE CreateOwner(r) \/ CreateMember(r)
  <2>1. UNCHANGED link /\ pc[r] \in {"owner", "member"}
    BY <1>6 DEF CreateOwner, CreateMember
  <2>2. arg[r].email \notin users
    BY <2>1 DEF Accounts
  <2>3. \A d \in Emails \ {arg[r].email} : member'[d] = member[d]
    BY <1>6 DEF CreateOwner, CreateMember, Admit, TypeOK
  <2> QED
    BY <1>1, <1>2, <2>1, <2>2, <2>3
<1>7. CASE UNCHANGED <<member, link>>
  BY <1>1, <1>2, <1>7
<1> QED
  BY <1>3, <1>4, <1>5, <1>6, <1>7, StepKeeps

----------------------------------------------------------------------------
(* Services *)

\* Rows appear when the request that writes them ends, so what was seen is of requests
\* that have ended; what is deleted is what was seen and is still there.
SeenInv ==
    /\ \A p \in performs : p.by \in Requests /\ pc[p.by] = "done"
    /\ \A r \in Requests : \A p \in arg[r].seen : 
          p.by \in Requests /\ pc[p.by] = "done" /\ p.employee = arg[r].employee
    /\ \A r \in Requests : pc[r] = "insert" => arg[r].gone = arg[r].seen \cap performs

\* Nobody sees his own rows, or rows that go with those he writes.
WholeInv == \A p, q \in performs : p \notin arg[q.by].seen

\* Of two requests for one employee, the one that looked later saw all that is left of what
\* the other saw; so only one of them can have deleted rows and not ended.
AfterSeeing == {"delete", "insert"}
NestedInv == \A q, r \in Requests :
    /\ q # r /\ pc[q] = "insert" /\ pc[r] = "insert" => arg[q].gone \cap arg[r].gone = {}
    /\ pc[q] \in AfterSeeing /\ pc[r] \in AfterSeeing /\ arg[q].employee = arg[r].employee =>
          \/ arg[q].seen \cap performs \subseteq arg[r].seen
          \/ arg[r].seen \cap performs \subseteq arg[q].seen
    /\ q # r /\ pc[q] = "insert" /\ pc[r] = "insert" /\ arg[q].employee = arg[r].employee => 
          arg[q].gone = {} \/ arg[r].gone = {}

ServicesInv == SeenInv /\ WholeInv /\ NestedInv

\* The steps that have nothing to do with services.
LEMMA OtherSteps ==
    ASSUME TInv, NEW r \in Requests, Step(r), 
           ~SeeServices(r), ~DeleteServices(r), ~InsertRow(r),
           ~(InsertServices(r) /\ ~UNCHANGED performs)
    PROVE  /\ UNCHANGED performs /\ pc'[r] \notin AfterSeeing
           /\ arg'[r].seen = arg[r].seen
           /\ arg'[r].employee = arg[r].employee \/ arg[r].seen = {}
<1> USE DEF TInv
<1>1. UNCHANGED performs /\ pc'[r] \notin AfterSeeing
  BY StepKeeps, StepTo DEF AfterSeeing
<1>2. CASE Begin(r)
  <2>1. pc[r] = "idle"
    BY <1>2 DEF Begin, BeginRegister, BeginCreate, BeginSlug, BeginRole, BeginLink, BeginUnlink,
                BeginServices
  <2>2. arg[r].seen = {} /\ arg[r] \in Arg
    BY <2>1 DEF Begun, Blank, TypeOK
  <2>3. arg'[r].seen = arg[r].seen
    <3>1. CASE BeginRegister(r)
      BY <2>2, <3>1 DEF BeginRegister, TypeOK, Arg
    <3>2. CASE BeginCreate(r)
      BY <2>2, <3>2 DEF BeginCreate, TypeOK, Arg
    <3>3. CASE BeginSlug(r)
      BY <2>2, <3>3 DEF BeginSlug, TypeOK, Arg
    <3>4. CASE BeginRole(r)
      BY <2>2, <3>4, BeginRoleReads
    <3>5. CASE BeginLink(r)
      BY <2>2, <3>5, BeginLinkReads
    <3>6. CASE BeginUnlink(r)
      BY <2>2, <3>6, BeginUnlinkReads
    <3>7. CASE BeginServices(r)
      BY <2>2, <3>7 DEF BeginServices, TypeOK, Arg
    <3> QED
      BY <1>2, <3>1, <3>2, <3>3, <3>4, <3>5, <3>6, <3>7 DEF Begin
  <2> QED
    BY <1>1, <2>2, <2>3
<1>3. CASE ChooseSlug(r)
  BY <1>1, <1>3 DEF ChooseSlug, TypeOK, Arg
<1>4. CASE Rollback(r) \/ (Serve(r) /\ ~ChooseSlug(r))
  <2>1. UNCHANGED arg
    BY <1>4 DEF Serve, Rollback, InsertUser, CreateOwner, CreateMember, Rename, UnlinkForRole,
          SetRole, ReadEmployee, UnlinkOld, LinkEmployee, Unlink, InsertServices, BreakDeadlock
  <2> QED
    BY <1>1, <2>1
<1> QED
  BY <1>2, <1>3, <1>4 DEF Step

LEMMA SeeFacts ==
    ASSUME TInv, NEW r \in Requests, SeeServices(r)
    PROVE  /\ pc[r] = "see" /\ pc'[r] = "delete" /\ UNCHANGED performs
           /\ arg'[r].seen = {p \in performs : p.employee = arg[r].employee}
           /\ arg'[r].employee = arg[r].employee
  BY DEF SeeServices, Goto, TInv, TypeOK, Arg

LEMMA DeleteFacts ==
    ASSUME TInv, NEW r \in Requests, DeleteServices(r)
    PROVE  /\ pc[r] = "delete" /\ pc'[r] = "insert" /\ UNCHANGED performs
           /\ arg'[r].seen = arg[r].seen /\ arg'[r].gone = arg[r].seen \cap performs
           /\ arg'[r].employee = arg[r].employee
           /\ \A q \in Requests \ {r} : pc[q] = "insert" => arg[r].seen \cap arg[q].gone = {}
<1>1. \A q \in Requests \ {r} : ~WaitsFor(r, q)
  BY DEF DeleteServices, Unblocked
<1>2. \A q \in Requests \ {r} : pc[q] = "insert" => arg[r].seen \cap arg[q].gone = {}
  BY <1>1 DEF WaitsFor, Deleted, DeleteServices
<1>3. /\ arg'[r].seen = arg[r].seen /\ arg'[r].gone = arg[r].seen \cap performs
      /\ arg'[r].employee = arg[r].employee
  BY DeleteArg DEF TInv, TypeOK, SameButRows
<1> QED
  BY <1>2, <1>3 DEF DeleteServices, Goto, TInv, TypeOK

LEMMA InsertRowFacts ==
    ASSUME TInv, NEW r \in Requests, InsertRow(r)
    PROVE  /\ pc[r] = "insert" /\ pc'[r] = "insert" /\ UNCHANGED <<performs, missed>>
           /\ arg'[r].seen = arg[r].seen /\ arg'[r].gone = arg[r].gone
           /\ arg'[r].employee = arg[r].employee
<1>1. /\ arg'[r].seen = arg[r].seen /\ arg'[r].gone = arg[r].gone
      /\ arg'[r].employee = arg[r].employee
  BY InsertRowArg DEF TInv, TypeOK, SameButRows
<1> QED
  BY <1>1 DEF InsertRow

LEMMA InsertFacts ==
    ASSUME TInv, NEW r \in Requests, InsertServices(r), ~UNCHANGED performs
    PROVE  /\ pc[r] = "insert" /\ pc'[r] = "done" /\ UNCHANGED arg
           /\ performs' = (performs \ arg[r].gone) \cup NewRows(r)
           /\ \A p \in NewRows(r) : p.by = r /\ p.employee = arg[r].employee
  BY DEF InsertServices, TakesEffect, Goto, TInv, TypeOK, NewRows

LEMMA SeenStep ==
    ASSUME TInv, ServicesInv, NEW r \in Requests, Step(r)
    PROVE  SeenInv'
<1> USE DEF TInv, ServicesInv
<1>1. /\ pc[r] # "done"
      /\ \A q \in Requests \ {r} : pc'[q] = pc[q] /\ arg'[q] = arg[q]
  BY StepEnds DEF Ended
<1>2. CASE SeeServices(r)
  BY <1>1, <1>2, SeeFacts DEF SeenInv
<1>3. CASE DeleteServices(r)
  BY <1>1, <1>3, DeleteFacts DEF SeenInv
<1>4. CASE InsertServices(r) /\ ~UNCHANGED performs
  <2>1. \A q \in Requests : NewRows(r) \cap arg[q].seen = {}
    BY <1>1, <1>4, InsertFacts DEF SeenInv
  <2>2. \A q \in Requests \ {r} : pc[q] = "insert" => arg[q].gone = arg[q].seen \cap performs'
    BY <1>4, <2>1, InsertFacts DEF SeenInv, NestedInv
  <2>3. \A p \in performs' : p.by \in Requests /\ pc'[p.by] = "done"
    BY <1>1, <1>4, InsertFacts DEF SeenInv
  <2> QED
    BY <1>1, <1>4, <2>2, <2>3, InsertFacts DEF SeenInv
<1>5. CASE InsertRow(r)
  BY <1>1, <1>5, InsertRowFacts DEF SeenInv
<1>6. CASE /\ ~SeeServices(r) /\ ~DeleteServices(r) /\ ~InsertRow(r)
           /\ ~(InsertServices(r) /\ ~UNCHANGED performs)
  BY <1>1, <1>6, OtherSteps DEF SeenInv, AfterSeeing
<1> QED
  BY <1>2, <1>3, <1>4, <1>5, <1>6

LEMMA WholeStep ==
    ASSUME TInv, ServicesInv, NEW r \in Requests, Step(r)
    PROVE  WholeInv'
<1> USE DEF TInv, ServicesInv
<1>1. /\ pc[r] # "done"
      /\ \A q \in Requests \ {r} : pc'[q] = pc[q] /\ arg'[q] = arg[q]
  BY StepEnds DEF Ended
<1>2. \A q \in performs : q.by \in Requests \ {r}
  BY <1>1 DEF SeenInv
<1>3. CASE InsertServices(r) /\ ~UNCHANGED performs
  <2>1. \A q \in Requests : NewRows(r) \cap arg[q].seen = {}
    BY <1>1, <1>3, InsertFacts DEF SeenInv
  <2>2. \A p \in performs' : p \notin arg[r].seen
    BY <1>3, <2>1, InsertFacts DEF SeenInv
  <2>3. \A p \in performs', q \in performs : p \notin arg[q.by].seen
    BY <1>2, <1>3, <2>1, InsertFacts DEF WholeInv
  <2> QED
    BY <1>3, <2>2, <2>3, InsertFacts DEF WholeInv
<1>4. CASE UNCHANGED performs
  BY <1>1, <1>2, <1>4 DEF WholeInv
<1> QED
  BY <1>3, <1>4, StepKeeps

\* NestedInv of one pair.
Disjoint(q, r) == q # r /\ pc[q] = "insert" /\ pc[r] = "insert" => arg[q].gone \cap arg[r].gone = {}
Nested(q, r) == 
    pc[q] \in AfterSeeing /\ pc[r] \in AfterSeeing /\ arg[q].employee = arg[r].employee =>
        \/ arg[q].seen \cap performs \subseteq arg[r].seen
        \/ arg[r].seen \cap performs \subseteq arg[q].seen
OneDeletes(q, r) == 
    q # r /\ pc[q] = "insert" /\ pc[r] = "insert" /\ arg[q].employee = arg[r].employee => 
        arg[q].gone = {} \/ arg[r].gone = {}

LEMMA NestedStep ==
    ASSUME TInv, ServicesInv, NEW r \in Requests, Step(r)
    PROVE  NestedInv'
<1> USE DEF TInv, ServicesInv
<1>1. /\ pc[r] # "done"
      /\ \A q \in Requests \ {r} : pc'[q] = pc[q] /\ arg'[q] = arg[q]
  BY StepEnds DEF Ended
<1>2. \A q, p \in Requests : Disjoint(q, p) /\ Nested(q, p) /\ OneDeletes(q, p)
  BY DEF NestedInv, Disjoint, Nested, OneDeletes
<1> SUFFICES \A q, p \in Requests : Disjoint(q, p)' /\ Nested(q, p)' /\ OneDeletes(q, p)'
  BY DEF NestedInv, Disjoint, Nested, OneDeletes, AfterSeeing
<1>3. CASE SeeServices(r)
  <2>1. pc'[r] = "delete" /\ UNCHANGED performs /\ arg'[r].employee = arg[r].employee
    BY <1>3, SeeFacts
  <2>2. ASSUME NEW q \in Requests, arg[q].employee = arg[r].employee
        PROVE  arg[q].seen \cap performs \subseteq arg'[r].seen
    BY <1>3, <2>2, SeeFacts DEF SeenInv
  <2> QED
    BY <1>1, <1>2, <2>1, <2>2 DEF Disjoint, Nested, OneDeletes
<1>4. CASE DeleteServices(r)
  <2>1. /\ pc[r] = "delete" /\ pc'[r] = "insert" /\ UNCHANGED performs
        /\ arg'[r].seen = arg[r].seen /\ arg'[r].gone = arg[r].seen \cap performs
        /\ arg'[r].employee = arg[r].employee
        /\ \A q \in Requests \ {r} : pc[q] = "insert" => arg[r].seen \cap arg[q].gone = {}
    BY <1>4, DeleteFacts
  <2>2. \A q \in Requests \ {r} : pc[q] = "insert" => arg[q].gone = arg[q].seen \cap performs
    BY DEF SeenInv
  <2>3. \A q \in Requests \ {r} : Disjoint(q, r)' /\ Disjoint(r, q)'
    BY <1>1, <2>1, <2>2 DEF Disjoint
  <2>4. \A q \in Requests \ {r} : Nested(q, r)' /\ Nested(r, q)'
    BY <1>1, <1>2, <2>1 DEF Nested, AfterSeeing
  <2>5. \A q \in Requests \ {r} : OneDeletes(q, r)' /\ OneDeletes(r, q)'
    BY <1>1, <1>2, <2>1, <2>2 DEF Nested, OneDeletes, AfterSeeing
  <2>6. Disjoint(r, r)' /\ Nested(r, r)' /\ OneDeletes(r, r)'
    BY DEF Disjoint, Nested, OneDeletes
  <2>7. \A q, p \in Requests \ {r} : Disjoint(q, p)' /\ Nested(q, p)' /\ OneDeletes(q, p)'
    BY <1>1, <1>2, <2>1 DEF Disjoint, Nested, OneDeletes
  <2> QED
    BY <2>3, <2>4, <2>5, <2>6, <2>7
<1>5. CASE InsertServices(r) /\ ~UNCHANGED performs
  <2>1. pc'[r] = "done" /\ UNCHANGED arg /\ performs' \subseteq performs \cup NewRows(r)
    BY <1>5, InsertFacts
  <2>2. \A q \in Requests : NewRows(r) \cap arg[q].seen = {}
    BY <1>1, <1>5, InsertFacts DEF SeenInv
  <2>3. \A q \in Requests : arg[q].seen \cap performs' \subseteq arg[q].seen \cap performs
    BY <2>1, <2>2
  <2> QED
    BY <1>1, <1>2, <2>1, <2>3 DEF Disjoint, Nested, OneDeletes, AfterSeeing
<1>6. CASE InsertRow(r)
  <2>1. /\ UNCHANGED performs /\ pc'[r] = pc[r]
        /\ \A q \in Requests : /\ arg'[q].seen = arg[q].seen /\ arg'[q].gone = arg[q].gone
                               /\ arg'[q].employee = arg[q].employee
    BY <1>1, <1>6, InsertRowFacts
  <2> QED
    BY <1>1, <1>2, <2>1 DEF Disjoint, Nested, OneDeletes
<1>7. CASE /\ ~SeeServices(r) /\ ~DeleteServices(r) /\ ~InsertRow(r)
           /\ ~(InsertServices(r) /\ ~UNCHANGED performs)
  <2>1. UNCHANGED performs /\ pc'[r] \notin AfterSeeing
    BY <1>7, OtherSteps
  <2> QED
    BY <1>1, <1>2, <2>1 DEF Disjoint, Nested, OneDeletes, AfterSeeing
<1> QED
  BY <1>3, <1>4, <1>5, <1>6, <1>7

LEMMA ServicesStep ==
    ASSUME TInv, ServicesInv, NEW r \in Requests, Step(r)
    PROVE  ServicesInv'
  BY SeenStep, WholeStep, NestedStep DEF ServicesInv

\* A row waits for a request that replaces the services of the same employee, and has
\* deleted or inserted one.
LEMMA RowWaits ==
    ASSUME TInv, SeenInv, NEW a \in Requests, NEW b \in Requests, WaitsFor(a, b), pc[a] = "insert"
    PROVE  /\ pc[b] = "insert" /\ arg[b].employee = arg[a].employee
           /\ arg[b].gone # {} \/ arg[b].put # {}
<1>1. NextKey(a) \in Keys(Deleted(b)) \/ NextKey(a) \in PutKeys(b)
  BY DEF WaitsFor
<1>2. CASE NextKey(a) \in Keys(Deleted(b))
  <2>1. PICK g \in Deleted(b) : NextKey(a) = <<g.employee, g.service>>
    BY <1>2 DEF Keys
  <2>2. g.employee = arg[a].employee
    BY <2>1 DEF NextKey
  <2>3. pc[b] = "insert" /\ g \in arg[b].gone
    BY <2>1 DEF Deleted
  <2>4. g.employee = arg[b].employee
    BY <2>3 DEF SeenInv
  <2> QED
    BY <2>2, <2>3, <2>4
<1>3. CASE NextKey(a) \in PutKeys(b)
  <2>1. pc[b] = "insert" /\ NextKey(a) \in {arg[b].employee} \X arg[b].put
    BY <1>3 DEF PutKeys
  <2> QED
    BY <2>1 DEF NextKey
<1> QED
  BY <1>1, <1>2, <1>3

\* Whoever waits and is waited for links an employee, or replaces services; and of those
\* who replace an employee's services only one has deleted rows, so the one it waits for
\* has inserted one.
LEMMA CircleCrosses ==
    ASSUME TInv, ServicesInv, NEW r \in Requests, Deadlocked(r)
    PROVE  pc[r] = "link" \/ \E q \in Requests \ {r} : Cross(q, r)
<1> USE DEF TInv, ServicesInv
<1>1. PICK D \in SUBSET Requests :
           r \in D /\ \A a \in D : \E b, c \in D \ {a} : WaitsFor(a, b) /\ WaitsFor(c, a)
  BY DEF Deadlocked
<1>2. ASSUME NEW a \in D PROVE pc[a] \in {"link", "insert"}
  <2>1. PICK b \in D, c \in D : WaitsFor(a, b) /\ WaitsFor(c, a)
    BY <1>1
  <2>2. Inserted(a) # {} \/ Held(a) # {} \/ Deleted(a) # {} \/ PutKeys(a) # {}
    BY <2>1 DEF WaitsFor, Keys
  <2>3. Held(a) # {} => pc[a] \in {"role", "link"}
    BY DEF Held
  <2>4. pc[a] \in {"owner", "member", "role", "link", "insert"}
    BY <2>2, <2>3 DEF Inserted, Deleted, PutKeys
  <2> QED
    BY <2>1, <2>4 DEF WaitsFor
<1>3. CASE pc[r] = "insert"
  <2>1. PICK b \in D \ {r} : WaitsFor(r, b)
    BY <1>1
  <2>2. /\ pc[b] = "insert" /\ arg[b].employee = arg[r].employee
        /\ arg[b].gone # {} \/ arg[b].put # {}
    BY <1>3, <2>1, RowWaits
  <2>3. PICK c \in D \ {b} : WaitsFor(b, c)
    BY <1>1, <2>1
  <2>4. /\ pc[c] = "insert" /\ arg[c].employee = arg[b].employee
        /\ arg[c].gone # {} \/ arg[c].put # {}
    BY <2>2, <2>3, RowWaits
  <2>5. arg[b].put # {} \/ arg[c].put # {}
    BY <2>2, <2>3, <2>4 DEF NestedInv
  <2>6. b \in Requests \ {r} /\ c \in Requests
    BY <2>1, <2>3
  <2>7. CASE arg[b].put # {}
    BY <1>3, <2>2, <2>6, <2>7 DEF Cross
  <2>8. CASE arg[c].put # {} /\ c # r
    BY <1>3, <2>2, <2>4, <2>6, <2>8 DEF Cross
  <2>9. CASE arg[c].put # {} /\ c = r
    BY <1>3, <2>2, <2>6, <2>9 DEF Cross
  <2> QED
    BY <2>5, <2>7, <2>8, <2>9
<1> QED
  BY <1>1, <1>2, <1>3

----------------------------------------------------------------------------
(* Unique keys *)

Overtaken(r) == \E q \in Requests : <<r, q>> \in missed

\* A slug with a suffix is the tenant's own, and a tenant has no slug before it is founded.
SlugInv ==
    /\ \A t \in Tenants : slug[t] \in {None} \cup Bases \cup (Bases \X {t})
    /\ \A r \in Requests : pc[r] # "done" => slug[r] = None

\* What was looked up is free, or the request was overtaken.
EmailFree(r) == pc[r] \in {"slug", "user"} => arg[r].email \notin users \/ Overtaken(r)
SlugFree(r) == pc[r] \in {"user", "owner"} /\ arg[r].slug # None => 
    (\A t \in Tenants : slug[t] # arg[r].slug) \/ Overtaken(r)
NameFree(r) == pc[r] = "rename" => 
    (\A t \in Tenants \ {Home} : slug[t] # arg[r].slug) \/ Overtaken(r)
RowsSeen(r) == pc[r] \in AfterSeeing => 
    (\A p \in performs : p.employee = arg[r].employee => p \in arg[r].seen) \/ Overtaken(r)
FailureIsRace(r) == pc[r] = "failed" => Overtaken(r)

Free(r) == EmailFree(r) /\ SlugFree(r) /\ NameFree(r) /\ RowsSeen(r) /\ FailureIsRace(r)

KeysInv == SlugInv /\ \A r \in Requests : Free(r)

\* A registration's slug is a base or has the request's own suffix.
SlugArg == \A r \in Requests : arg[r].slug \in {None} \cup Bases \cup (Bases \X {r})

LEMMA SlugArgStep ==
    ASSUME TInv, SlugArg, NEW r \in Requests, Step(r)
    PROVE  SlugArg'
<1> USE DEF TInv
<1>1. \A q \in Requests \ {r} : arg'[q] = arg[q]
  BY StepEnds
<1>2. arg'[r].slug \in {None} \cup Bases \cup (Bases \X {r})
  <2>1. arg[r].slug \in {None} \cup Bases \cup (Bases \X {r}) /\ arg[r] \in Arg
    BY DEF SlugArg, TypeOK
  <2>2. CASE BeginRegister(r)
    BY <2>1, <2>2 DEF BeginRegister, TypeOK, Arg
  <2>3. CASE BeginSlug(r)
    BY <2>1, <2>3 DEF BeginSlug, TypeOK, Arg
  <2>4. CASE BeginRole(r) \/ BeginLink(r) \/ BeginUnlink(r)
    BY <2>1, <2>4, BeginRoleReads, BeginLinkReads, BeginUnlinkReads
  <2>5. CASE BeginCreate(r)
    BY <2>1, <2>5 DEF BeginCreate, TypeOK, Arg
  <2>6. CASE BeginServices(r)
    BY <2>1, <2>6 DEF BeginServices, TypeOK, Arg
  <2>7. CASE ChooseSlug(r)
    <3>1. arg[r].slug \in Bases /\ arg'[r].slug = UniqueSlug(r, arg[r].slug)
      BY <2>7 DEF ChooseSlug, Begun, TypeOK, Arg
    <3> QED
      BY <3>1 DEF UniqueSlug
  <2>8. CASE SeeServices(r)
    BY <2>1, <2>8 DEF SeeServices, TypeOK, Arg
  <2>9. CASE DeleteServices(r) \/ InsertRow(r)
    BY <2>1, <2>9, DeleteArg, InsertRowArg DEF TypeOK, SameButRows
  <2>10. CASE \/ Rollback(r) 
              \/ Serve(r) /\ ~ChooseSlug(r) /\ ~SeeServices(r) /\ ~DeleteServices(r) /\ ~InsertRow(r)
    <3>1. UNCHANGED arg
      BY <2>10 DEF Serve, Rollback, InsertUser, CreateOwner, CreateMember, Rename, UnlinkForRole,
            SetRole, ReadEmployee, UnlinkOld, LinkEmployee, Unlink, InsertServices, BreakDeadlock
    <3> QED
      BY <2>1, <3>1
  <2> QED
    BY <2>2, <2>3, <2>4, <2>5, <2>6, <2>7, <2>8, <2>9, <2>10 DEF Step, Begin
<1> QED
  BY <1>1, <1>2 DEF SlugArg

LEMMA SlugStep ==
    ASSUME TInv, SlugArg, SlugInv, NEW r \in Requests, Step(r)
    PROVE  SlugInv'
<1> USE DEF TInv
<1>1. pc[r] # "done" /\ \A q \in Requests \ {r} : pc'[q] = pc[q]
  BY StepEnds DEF Ended
<1>2. r \in Tenants /\ Home \in Tenants /\ r # Home
  BY DEF Tenants
<1>3. CASE CreateOwner(r) /\ ~UNCHANGED slug
  <2>1. slug' = [slug EXCEPT ![r] = arg[r].slug] /\ pc'[r] = "done"
    BY <1>3 DEF CreateOwner, Admit, TakesEffect, Goto, TypeOK
  <2> QED
    BY <1>1, <1>2, <2>1 DEF SlugInv, SlugArg, TypeOK
<1>4. CASE Rename(r) /\ ~UNCHANGED slug
  <2>1. slug' = [slug EXCEPT ![Home] = arg[r].slug] /\ arg[r].slug \in Bases
    BY <1>4 DEF Rename, Begun
  <2> QED
    BY <1>1, <1>2, <1>4, <2>1 DEF SlugInv, TypeOK, Rename, TakesEffect, Goto
<1>5. CASE UNCHANGED slug
  BY <1>1, <1>5 DEF SlugInv
<1> QED
  BY <1>3, <1>4, <1>5, StepKeeps

\* What another request looked up is taken only by overtaking it.
LEMMA OthersFree ==
    ASSUME TInv, NEW r \in Requests, Step(r), NEW q \in Requests \ {r}, Free(q)
    PROVE  Free(q)'
<1> USE DEF TInv
<1>1. pc'[q] = pc[q] /\ arg'[q] = arg[q] /\ missed \subseteq missed'
  BY StepEnds, StepWrites
<1>2. Overtaken(q) => Overtaken(q)'
  BY <1>1 DEF Overtaken
<1>3. CASE UNCHANGED <<users, slug, performs>>
  BY <1>1, <1>2, <1>3 DEF Free, EmailFree, SlugFree, NameFree, RowsSeen, FailureIsRace
<1>4. CASE pc[q] \in Ended \cup {"idle"}
  BY <1>1, <1>2, <1>4 DEF Free, EmailFree, SlugFree, NameFree, RowsSeen, FailureIsRace, AfterSeeing,
                          Ended
<1>5. CASE pc[q] \notin Ended \cup {"idle"} /\ ~UNCHANGED <<users, slug, performs>>
  <2>1. Overtaken(q)'
    BY <1>5, StepWrites DEF Overtaken
  <2> QED
    BY <2>1 DEF Free, EmailFree, SlugFree, NameFree, RowsSeen, FailureIsRace
<1> QED
  BY <1>3, <1>4, <1>5

LEMMA OwnReadsFree ==
    ASSUME TInv, SlugArg, SlugInv, NEW r \in Requests, Step(r), Free(r)
    PROVE  EmailFree(r)' /\ SlugFree(r)' /\ NameFree(r)' /\ RowsSeen(r)'
<1> USE DEF TInv
<1>1. CASE BeginRegister(r)
  <2>1. pc'[r] = "slug" /\ UNCHANGED users /\ arg'[r].email \notin users
    BY <1>1 DEF BeginRegister, Goto, TypeOK, Arg
  <2> QED
    BY <2>1 DEF EmailFree, SlugFree, NameFree, RowsSeen, AfterSeeing
<1>2. CASE BeginCreate(r)
  <2>1. /\ pc[r] = "idle" /\ pc'[r] = "user" /\ UNCHANGED users
        /\ arg'[r].email \notin users /\ arg'[r].slug = arg[r].slug
    BY <1>2 DEF BeginCreate, Goto, TypeOK, Arg
  <2>2. arg'[r].slug = None
    BY <2>1 DEF Begun, Blank
  <2> QED
    BY <2>1, <2>2 DEF EmailFree, SlugFree, NameFree, RowsSeen, AfterSeeing
<1>3. CASE ChooseSlug(r)
  <2>1. /\ pc[r] = "slug" /\ pc'[r] = "user" /\ UNCHANGED <<users, slug, missed>>
        /\ arg'[r].email = arg[r].email /\ arg'[r].slug = UniqueSlug(r, arg[r].slug)
    BY <1>3 DEF ChooseSlug, Goto, TypeOK, Arg
  <2>2. \A t \in Tenants : slug[t] # arg'[r].slug
    <3>1. CASE ~SlugTaken(arg[r].slug)
      BY <2>1, <3>1 DEF UniqueSlug, SlugTaken
    <3>2. CASE SlugTaken(arg[r].slug)
      <4>1. arg'[r].slug = <<arg[r].slug, r>> /\ arg[r].slug \in Bases
        BY <2>1, <3>2 DEF UniqueSlug, Begun
      <4>2. arg'[r].slug \in Slugs /\ arg'[r].slug \notin Bases
        BY <4>1 DEF Slugs
      <4>3. slug[r] = None
        BY <2>1 DEF SlugInv
      <4> QED
        BY <4>1, <4>2, <4>3 DEF SlugInv
    <3> QED
      BY <3>1, <3>2
  <2> QED
    BY <2>1, <2>2 DEF Free, EmailFree, SlugFree, NameFree, RowsSeen, AfterSeeing, Overtaken
<1>4. CASE InsertUser(r)
  <2>1. /\ pc[r] = "user" /\ pc'[r] \in {"failed", "owner", "member"}
        /\ UNCHANGED <<users, slug, arg, missed>>
    BY <1>4 DEF InsertUser, Goto, TypeOK
  <2> QED
    BY <2>1 DEF Free, EmailFree, SlugFree, NameFree, RowsSeen, AfterSeeing, Overtaken
<1>5. CASE BeginSlug(r)
  <2>1. /\ pc'[r] = "rename" /\ UNCHANGED slug
        /\ \A t \in Tenants \ {Home} : slug[t] # arg'[r].slug
    BY <1>5 DEF BeginSlug, Goto, TypeOK, Arg
  <2> QED
    BY <2>1 DEF EmailFree, SlugFree, NameFree, RowsSeen, AfterSeeing
<1>6. CASE SeeServices(r)
  BY <1>6, SeeFacts DEF EmailFree, SlugFree, NameFree, RowsSeen
<1>7. CASE DeleteServices(r)
  <2>1. UNCHANGED missed
    BY <1>7 DEF DeleteServices
  <2> QED
    BY <1>7, <2>1, DeleteFacts DEF Free, EmailFree, SlugFree, NameFree, RowsSeen, Overtaken, AfterSeeing
<1>8. CASE InsertRow(r)
  BY <1>8, InsertRowFacts DEF Free, EmailFree, SlugFree, NameFree, RowsSeen, Overtaken, AfterSeeing
<1>9. CASE pc'[r] \notin {"slug", "user", "owner", "rename", "delete", "insert"}
  BY <1>9 DEF EmailFree, SlugFree, NameFree, RowsSeen, AfterSeeing
<1> QED
  BY <1>1, <1>2, <1>3, <1>4, <1>5, <1>6, <1>7, <1>8, <1>9, StepTo

LEMMA OwnFailure ==
    ASSUME TInv, LinkReads, SeenInv, NEW r \in Requests, Step(r), Free(r), pc'[r] = "failed"
    PROVE  Overtaken(r)'
<1> USE DEF TInv
<1> SUFFICES Overtaken(r)
  BY StepWrites DEF Overtaken
<1>1. CASE InsertUser(r)
  <2>1. pc[r] = "user" /\ arg[r].email \in users
    BY <1>1 DEF InsertUser, Goto, TypeOK
  <2> QED
    BY <2>1 DEF Free, EmailFree
<1>2. CASE CreateOwner(r)
  <2>1. pc[r] = "owner" /\ SlugTaken(arg[r].slug)
    BY <1>2 DEF CreateOwner, Admit, TakesEffect, Goto, TypeOK
  <2> QED
    BY <2>1 DEF Free, SlugFree, SlugTaken, TypeOK
<1>3. CASE Rename(r)
  <2>1. pc[r] = "rename" /\ \E t \in Tenants \ {Home} : slug[t] = arg[r].slug
    BY <1>3 DEF Rename, TakesEffect, Goto, TypeOK
  <2> QED
    BY <2>1 DEF Free, NameFree
<1>4. CASE LinkEmployee(r)
  <2>1. pc[r] = "link" /\ Duplicates(r, arg[r].email, arg[r].employee)
    BY <1>4 DEF LinkEmployee, TakesEffect, Goto, TypeOK
  <2>2. Held(r) = {arg[r].old} \ {None, arg[r].employee}
    BY <2>1 DEF Held
  <2>3. PICK x \in Employees : link[x].member = arg[r].email /\ x # arg[r].old
    BY <2>1, <2>2 DEF Duplicates, LinkedTo
  <2>4. <<r, link[x].by>> \in missed
    BY <2>1, <2>3 DEF LinkReads, OwnLinks
  <2> QED
    BY <2>4 DEF Overtaken, TypeOK
<1>5. CASE InsertServices(r)
  <2>1. pc[r] = "insert" /\ NextKey(r) \in Keys(performs \ arg[r].gone)
    BY <1>5 DEF InsertServices, Clashes, TakesEffect, Goto, TypeOK
  <2>2. PICK p \in performs \ arg[r].gone : NextKey(r) = <<p.employee, p.service>>
    BY <2>1 DEF Keys
  <2>3. p.employee = arg[r].employee
    BY <2>2 DEF NextKey
  <2>4. p \notin arg[r].seen
    BY <2>1, <2>2 DEF SeenInv
  <2> QED
    BY <2>1, <2>3, <2>4 DEF Free, RowsSeen, AfterSeeing
<1> QED
  BY <1>1, <1>2, <1>3, <1>4, <1>5, StepTo

----------------------------------------------------------------------------
(* The inductive invariant *)

IInv == TInv /\ Accounts /\ LinkInv /\ ServicesInv /\ SlugArg /\ KeysInv

LEMMA InitInv == Init => IInv
<1> SUFFICES ASSUME Init PROVE IInv
  OBVIOUS
<1>1. TypeOK
  BY InitType
<1>2. \A r \in Requests : pc[r] = "idle" /\ arg[r] = Blank
  BY DEF Init
<1>3. Begun
  BY <1>2 DEF Begun
<1>4. Accounts
  BY <1>2 DEF Init, Accounts
<1>5. LinkInv
  <2>1. OneEmployeePerMember
    BY DEF Init, OneEmployeePerMember
  <2>2. LinkedIsStaff
    BY DEF Init, LinkedIsStaff
  <2>3. LinkReads
    BY <1>2 DEF LinkReads, OwnLinks, OldLink, StaffRead, EmployeeRead
  <2> QED
    BY <2>1, <2>2, <2>3 DEF LinkInv
<1>6. ServicesInv
  <2>1. performs = {} /\ \A r \in Requests : arg[r].seen = {} /\ arg[r].gone = {}
    BY <1>2 DEF Init, Blank
  <2>2. SeenInv
    BY <1>2, <2>1 DEF SeenInv, AfterSeeing
  <2>3. WholeInv
    BY <2>1 DEF WholeInv
  <2>4. NestedInv
    BY <1>2, <2>1 DEF NestedInv, AfterSeeing
  <2> QED
    BY <2>2, <2>3, <2>4 DEF ServicesInv
<1>7. SlugArg
  <2>1. Blank.slug = None
    BY DEF Blank
  <2>2. \A r \in Requests : arg[r].slug \in {None}
    BY <1>2, <2>1
  <2> QED
    BY <2>2 DEF SlugArg
<1>8. SlugInv
  BY DEF Init, SlugInv, Tenants
<1>9. \A r \in Requests : Free(r)
  BY <1>2 DEF Free, EmailFree, SlugFree, NameFree, RowsSeen, FailureIsRace, AfterSeeing
<1> QED
  BY <1>1, <1>3, <1>4, <1>5, <1>6, <1>7, <1>8, <1>9 DEF IInv, TInv, KeysInv

LEMMA StepInv ==
    ASSUME IInv, NEW r \in Requests, Step(r)
    PROVE  IInv'
<1> USE DEF IInv, KeysInv
<1>1. TInv'
  BY StepType, BegunStep DEF TInv
<1>2. Accounts'
  BY AccountsStep
<1>3. LinkInv'
  BY OneEmployeeStep, LinkedIsStaffStep, OthersLinkReads, OwnLinkReads DEF LinkInv, LinkReads
<1>4. ServicesInv'
  BY ServicesStep
<1>5. SlugArg' /\ SlugInv'
  BY SlugArgStep, SlugStep
<1>6. Free(r)'
  BY OwnReadsFree, OwnFailure DEF Free, FailureIsRace, LinkInv, ServicesInv
<1>7. \A q \in Requests \ {r} : Free(q)'
  BY OthersFree
<1> QED
  BY <1>1, <1>2, <1>3, <1>4, <1>5, <1>6, <1>7

LEMMA Invariance == IInv /\ [Next]_vars => IInv'
<1> SUFFICES ASSUME IInv, [Next]_vars PROVE IInv'
  OBVIOUS
<1>1. CASE UNCHANGED vars
  <2> USE <1>1 DEF vars
  <2>1. TypeOK' = TypeOK /\ Begun' = Begun /\ Accounts' = Accounts
    BY DEF TypeOK, Begun, Accounts
  <2>2. LinkInv' = LinkInv
    BY DEF LinkInv, OneEmployeePerMember, LinkedIsStaff, Overtook, LinkReads, OwnLinks, OldLink,
           StaffRead, EmployeeRead
  <2>3. ServicesInv' = ServicesInv
    BY DEF ServicesInv, SeenInv, WholeInv, NestedInv
  <2>4. SlugArg' = SlugArg /\ KeysInv' = KeysInv
    BY DEF SlugArg, KeysInv, SlugInv, Free, EmailFree, SlugFree, NameFree, RowsSeen,
           FailureIsRace, Overtaken
  <2> QED
    BY <2>1, <2>2, <2>3, <2>4 DEF IInv, TInv
<1>2. CASE \E r \in Requests : Begin(r) \/ Serve(r) \/ Rollback(r)
  BY <1>2, StepInv DEF Step
<1> QED
  BY <1>1, <1>2 DEF Next, Quiet

----------------------------------------------------------------------------
(* The theorems *)

LEMMA Correct == Spec => []IInv
  BY InitInv, Invariance, PTL DEF Spec

\* Every row, and what every request was given and has read, has its type, and a
\* request that needs a value has it (the services of auth, team-members,
\* employees and tenants).
THEOREM TypeCorrect == Spec => []TypeOK
<1>1. IInv => TypeOK
  BY DEF IInv, TInv
<1> QED
  BY <1>1, Correct, PTL

\* The member an employee is linked to is STAFF, but for two requests that
\* overtook each other (updateRole, linkEmployee).
THEOREM LinksAreOfStaff == Spec => []LinkedIsStaff
<1>1. IInv => LinkedIsStaff
  BY DEF IInv, LinkInv
<1> QED
  BY <1>1, Correct, PTL

\* A request fails on a unique key only after another request overtook it
\* (register, create, updateCurrent, linkEmployee, setServices).
THEOREM FailuresAreRaces == Spec => []UniqueErrorsAreRaces
<1>1. IInv => UniqueErrorsAreRaces
  BY DEF IInv, KeysInv, Free, FailureIsRace, Overtaken, UniqueErrorsAreRaces
<1> QED
  BY <1>1, Correct, PTL

\* The services of two requests stand side by side only if neither saw the
\* other's (setServices).
THEOREM ServicesStandWhole == Spec => []ServicesAreReplacedWhole
<1>1. IInv => ServicesAreReplacedWhole
  BY NoneAssumption DEF IInv, ServicesInv, SeenInv, WholeInv, ServicesAreReplacedWhole, Saw
<1> QED
  BY <1>1, Correct, PTL

\* Transactions wait for each other in a circle only where they link employees, or where
\* two replace the services of one employee and one of them has inserted a row
\* (linkEmployee, setServices).
THEOREM OnlyTheseDeadlock == Spec => []DeadlocksAreCrossings
<1>1. IInv => DeadlocksAreCrossings
  BY CircleCrosses DEF IInv, DeadlocksAreCrossings
<1> QED
  BY <1>1, Correct, PTL

LEMMA TakenKnowingly ==
    ASSUME TInv, LinkReads, NEW r \in Requests, Step(r), NEW x \in Employees,
           link'[x] # link[x], link[x].member # None
    PROVE  /\ link'[x].by = r
           /\ arg[r].email = link[x].member \/ <<r, link[x].by>> \in missed'
<1> USE DEF TInv
<1>1. link'[x].by = r /\ missed \subseteq missed'
  BY StepWrites
<1>2. CASE SetRole(r)
  <2>1. pc[r] = "role" /\ x \in Held(r)
    BY <1>2 DEF SetRole
  <2>2. x = arg[r].old /\ x # None
    BY <2>1 DEF Held
  <2> QED
    BY <1>1, <2>1, <2>2 DEF LinkReads, OldLink
<1>3. CASE Unlink(r)
  <2>1. pc[r] = "clear" /\ x = arg[r].old /\ x # None
    BY <1>3, NoneAssumption DEF Unlink, TypeOK
  <2> QED
    BY <1>1, <2>1 DEF LinkReads, OldLink
<1>4. CASE LinkEmployee(r)
  <2>1. pc[r] = "link" /\ (x = arg[r].employee \/ x \in Held(r))
    BY <1>4 DEF LinkEmployee
  <2>2. CASE x = arg[r].employee
    BY <1>1, <2>1, <2>2 DEF LinkReads, EmployeeRead
  <2>3. CASE x \in Held(r)
    <3>1. x = arg[r].old /\ x # None
      BY <2>1, <2>3 DEF Held
    <3> QED
      BY <1>1, <2>1, <3>1 DEF LinkReads, OldLink
  <2> QED
    BY <2>1, <2>2, <2>3
<1> QED
  BY <1>2, <1>3, <1>4, StepKeeps

\* A member loses its employee only to a request about that member, or to one
\* that read the employee before the link was made (updateRole, linkEmployee).
THEOREM LinksGoKnowingly == Spec => LinksAreTakenKnowingly
<1> DEFINE Knowingly == \A x \in Employees : 
        link'[x] # link[x] /\ link[x].member # None =>
            LET r == link'[x].by IN
            arg[r].email = link[x].member \/ <<r, link[x].by>> \in missed'
<1>1. IInv /\ [Next]_vars => [Knowingly]_vars
  <2> SUFFICES ASSUME IInv, Next, NEW x \in Employees, link'[x] # link[x], link[x].member # None
               PROVE  LET r == link'[x].by IN
                      arg[r].email = link[x].member \/ <<r, link[x].by>> \in missed'
    OBVIOUS
  <2>1. PICK r \in Requests : Step(r)
    BY DEF Next, Quiet, vars, Step
  <2> QED
    BY <2>1, TakenKnowingly DEF IInv, LinkInv
<1> QED
  BY <1>1, Correct, PTL DEF Spec, LinksAreTakenKnowingly
=============================================================================
