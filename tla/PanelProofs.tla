---------------------------- MODULE PanelProofs ----------------------------
(***************************************************************************)
(* What holds of the pages of the panel for any sections, employees,       *)
(* dates, intervals, blocked times, zones, windows and accounts.  A page   *)
(* has an inductive invariant of its own; Panel mounts one of them.        *)
(***************************************************************************)
EXTENDS Panel, FiniteSetTheorems, TLAPS

----------------------------------------------------------------------------
(* The settings *)

\* No field of the active section, or no logo, that the user chose waits to be stored.
TabStored  == \A f \in Fields : TabOf[f] = ui.tab => db.wish[f] = None
LogoStored == db.choice = None

\* How far a handler has come: what it waits for, and what is stored by then.
Stages ==
    /\ ui.doing \in {"patch", "upload", "remove"} => net.op = ui.doing
    /\ ui.doing \in {"reload", "reloadRemoved"}   => net.op = "get"
    /\ ui.doing = "patch"  => /\ Settings!IsTabDirty(ui.tab) 
                              /\ net.answer = "ok" => TabStored
    /\ ui.doing = "upload" => /\ TabStored /\ ui.tab = LogoTab
                              /\ net.answer = "ok" => LogoStored
    /\ ui.doing = "reload" => TabStored /\ (ui.tab = LogoTab => LogoStored)
    /\ ui.doing = "remove" /\ net.answer = "ok" => LogoStored
    /\ ui.doing = "reloadRemoved" => LogoStored

\* A field that shows what is stored is not waiting to be.
Unchanged == \A f \in Fields : ui.form[f] = ui.saved[f] => db.wish[f] = None

SettingsInv == Settings!TypeOK /\ Settings!EditsAreKept /\ Unchanged /\ Stages

LEMMA SettingsInit ==
    ASSUME Settings!SettingsConstants, Settings!Init PROVE SettingsInv
BY DEF Settings!SettingsConstants, Settings!Init, SettingsInv, Settings!TypeOK, Settings!Page, 
       Settings!Tenant, Settings!Request, Settings!Form, Settings!NoWish, Settings!EditsAreKept, 
       Unchanged, Stages, TabStored, LogoStored

LEMMA SettingsUser ==
    ASSUME Settings!SettingsConstants, SettingsInv, Settings!User PROVE SettingsInv'
<1> USE DEF Settings!SettingsConstants, SettingsInv, Settings!TypeOK, Settings!Page, 
       Settings!Tenant, Settings!Request, Settings!Form, Settings!NoWish, Settings!EditsAreKept, 
       Unchanged, Stages, TabStored, LogoStored, Settings!Idle
<1>1. ASSUME NEW tab \in Tabs, Settings!ChangeTab(tab) PROVE SettingsInv'
  BY <1>1 DEF Settings!ChangeTab
<1>2. ASSUME NEW f \in Fields, NEW v \in Values, Settings!UpdateField(f, v) PROVE SettingsInv'
  BY <1>2 DEF Settings!UpdateField
<1>3. ASSUME NEW l \in Logos, Settings!SelectLogo(l) PROVE SettingsInv'
  BY <1>3 DEF Settings!SelectLogo
<1>4. CASE Settings!DiscardActiveChanges
  BY <1>4 DEF Settings!DiscardActiveChanges, Settings!Section
<1>5. CASE Settings!ForgetLogo
  BY <1>5 DEF Settings!ForgetLogo
<1>6. CASE Settings!HandleSubmit
  BY <1>6 DEF Settings!HandleSubmit, Settings!Send, Settings!ActiveTabDirty, Settings!IsTabDirty,
              Settings!FieldsOf
<1>7. CASE Settings!HandleRemoveLogo
  BY <1>7 DEF Settings!HandleRemoveLogo, Settings!Send
<1>8. QED
  BY <1>1, <1>2, <1>3, <1>4, <1>5, <1>6, <1>7 DEF Settings!User

\* What the API does to a request, and other administrators do to the row.
LEMMA SettingsApi ==
    ASSUME Settings!SettingsConstants, SettingsInv, 
           Settings!Serve \/ Settings!Lose \/ Settings!OtherSaves
    PROVE  SettingsInv'
<1> USE DEF Settings!SettingsConstants, SettingsInv, Settings!TypeOK, Settings!Page, 
       Settings!Tenant, Settings!Request, Settings!Form, Settings!NoWish, Settings!EditsAreKept, 
       Unchanged, Stages, TabStored, LogoStored
<1>1. ASSUME Settings!Serve, db' = Settings!Effect,
             net' = [net EXCEPT !.answer = "ok", !.row = db.row, !.logo = db.logo]
      PROVE  SettingsInv'
  <2>1. net \in Settings!Request /\ ui' = ui
    BY <1>1 DEF Settings!Serve
  <2>2. net' \in Settings!Request /\ net'.op = net.op
    BY <1>1, <2>1
  <2>3. CASE net.op = "patch"
    <3>1. db' = [db EXCEPT !.row = Settings!BuildPayload(@), !.wish = Settings!Section(Settings!NoWish, @)]
      BY <1>1, <2>3 DEF Settings!Effect
    <3>2. TabStored'
      BY <2>1, <3>1 DEF Settings!Section
    <3> QED
      BY <2>1, <2>2, <2>3, <3>1, <3>2 DEF Settings!BuildPayload, Settings!Section, Settings!IsTabDirty, 
                                          Settings!FieldsOf
  <2>4. CASE net.op = "upload"
    <3>1. db' = [db EXCEPT !.logo = net.logo, !.choice = None]
      BY <1>1, <2>4 DEF Settings!Effect
    <3> QED
      BY <2>1, <2>2, <2>4, <3>1
  <2>5. CASE net.op = "remove"
    <3>1. db' = [db EXCEPT !.logo = None, !.choice = None]
      BY <1>1, <2>5 DEF Settings!Effect
    <3> QED
      BY <2>1, <2>2, <2>5, <3>1
  <2>6. CASE net.op = "get"
    <3>1. db' = db
      BY <1>1, <2>6 DEF Settings!Effect
    <3> QED
      BY <2>1, <2>2, <2>6, <3>1
  <2> QED
    BY <2>1, <2>3, <2>4, <2>5, <2>6
<1>2. ASSUME Settings!Serve, net' = [net EXCEPT !.answer = "error"], UNCHANGED db 
      PROVE  SettingsInv'
  <2>1. net \in Settings!Request /\ ui' = ui
    BY <1>2 DEF Settings!Serve
  <2>2. net' \in Settings!Request /\ net'.op = net.op /\ net'.answer # "ok"
    BY <1>2, <2>1
  <2> QED
    BY <1>2, <2>1, <2>2 DEF Settings!IsTabDirty, Settings!FieldsOf
<1>3. CASE Settings!Lose
  BY <1>3 DEF Settings!Lose, Settings!IsTabDirty, Settings!FieldsOf
<1>4. CASE Settings!OtherSaves
  BY <1>4 DEF Settings!OtherSaves, Settings!IsTabDirty, Settings!FieldsOf
<1>5. QED
  BY <1>1, <1>2, <1>3, <1>4 DEF Settings!Serve

LEMMA SettingsAnswer ==
    ASSUME Settings!SettingsConstants, SettingsInv, 
           \/ Settings!Patched \/ Settings!Uploaded \/ Settings!Reloaded
           \/ Settings!Removed \/ Settings!ReloadedRemoved \/ Settings!Failed
    PROVE  SettingsInv'
<1> USE DEF Settings!SettingsConstants, SettingsInv, Settings!TypeOK, Settings!Page, 
       Settings!Tenant, Settings!Request, Settings!Form, Settings!EditsAreKept, 
       Unchanged, Stages, TabStored, LogoStored, Settings!Answered
<1>1. CASE Settings!Patched
  BY <1>1 DEF Settings!Patched, Settings!Send
<1>2. CASE Settings!Uploaded
  BY <1>2 DEF Settings!Uploaded, Settings!Send
<1>3. CASE Settings!Reloaded
  BY <1>3 DEF Settings!Reloaded, Settings!Settle, Settings!Section
<1>4. CASE Settings!Removed
  BY <1>4 DEF Settings!Removed, Settings!Send
<1>5. CASE Settings!ReloadedRemoved
  BY <1>5 DEF Settings!ReloadedRemoved, Settings!Settle
<1>6. CASE Settings!Failed
  BY <1>6 DEF Settings!Failed, Settings!Settle
<1>7. QED
  BY <1>1, <1>2, <1>3, <1>4, <1>5, <1>6

LEMMA SettingsNext ==
    ASSUME Settings!SettingsConstants, SettingsInv, Settings!Next PROVE SettingsInv'
BY SettingsUser, SettingsApi, SettingsAnswer DEF Settings!Next, Settings!Answer

\* Only a PATCH changes the row, and only the active section, which is dirty until it is
\* answered.
LEMMA SettingsChanges ==
    ASSUME SettingsInv, Settings!Next PROVE Settings!OnlyChangedSection
<1> SUFFICES ASSUME net' # net, NEW f \in Fields, db'.row[f] # db.row[f]
             PROVE  Settings!IsTabDirty(TabOf[f])
  BY DEF Settings!OnlyChangedSection
<1> USE DEF SettingsInv, Settings!TypeOK, Settings!Page, Settings!Tenant, Settings!Request, 
            Settings!Form
<1>1. CASE Settings!Serve
  <2>1. net \in Settings!Request /\ db' = Settings!Effect
    BY <1>1 DEF Settings!Serve
  <2>2. net.op = "patch"
    BY <2>1 DEF Settings!Effect
  <2>3. db'.row = Settings!Section(net.row, db.row)
    BY <2>1, <2>2 DEF Settings!Effect, Settings!BuildPayload
  <2>4. TabOf[f] = ui.tab
    BY <2>3 DEF Settings!Section
  <2>5. ui.doing = "patch"
    BY <1>1, <2>1, <2>2 DEF Settings!Serve, Stages
  <2> QED
    BY <2>4, <2>5 DEF Stages
<1>2. Settings!User => UNCHANGED net \/ UNCHANGED db
  BY DEF Settings!User, Settings!ChangeTab, Settings!UpdateField, Settings!SelectLogo, 
         Settings!DiscardActiveChanges, Settings!ForgetLogo, Settings!HandleSubmit, 
         Settings!HandleRemoveLogo, Settings!Send
<1>3. Settings!Answer => UNCHANGED db \/ Settings!Serve
  BY DEF Settings!Answer, Settings!Patched, Settings!Uploaded, Settings!Reloaded, 
         Settings!Removed, Settings!ReloadedRemoved, Settings!Failed, Settings!Send
<1>4. Settings!Lose \/ Settings!OtherSaves => UNCHANGED net \/ UNCHANGED db
  BY DEF Settings!Lose, Settings!OtherSaves
<1>5. QED
  BY <1>1, <1>2, <1>3, <1>4 DEF Settings!Next

----------------------------------------------------------------------------
(* The employees *)

TeamOfType == ui \in Team!Page /\ net \subseteq Team!Request /\ db \in Team!Database

\* The page is saving while one request that ends it is under way, and no longer.
TeamSaves == 
    /\ ui.saving <=> \E q \in net : Team!Saves(q)
    /\ \A q, r \in net : Team!Saves(q) /\ Team!Saves(r) => q = r

\* What is on its way while a section is open is for the section; and what is there is, too.
OnlyItsServices == 
    ~ui.crossed /\ ui.dialog # None => \A q \in Team!InFlight({"services"}) : q.employee = ui.dialog
ItsServices == 
    ui.dialog # None => ui.owner = ui.dialog \/ ui.crossed \/ Team!InFlight({"services"}) # {}

LEMMA TeamType == ASSUME TeamOfType, Team!Next PROVE TeamOfType'
<1> USE DEF TeamOfType, Team!Page, Team!InFlight, Team!Request, Team!ListRequest,
       Team!WriteRequest, Team!ServicesRequest, Team!PutRequest
<1>1. ASSUME NEW f \in Filters, Team!ChooseFilter(f) PROVE TeamOfType'
  <2>1. [op |-> "list", filter |-> f, ends |-> FALSE] \in Team!ListRequest
    OBVIOUS
  <2> QED
    BY <1>1, <2>1 DEF Team!ChooseFilter
<1>2. CASE Team!OpenForm \/ Team!CloseForm
  BY <1>2 DEF Team!OpenForm, Team!CloseForm
<1>3. CASE Team!HandleSubmit \/ Team!ToggleEmployee
  <2>1. \A op \in {"save", "toggle"} : [op |-> op, filter |-> ui.filter] \in Team!WriteRequest
    OBVIOUS
  <2> QED
    BY <1>3, <2>1 DEF Team!HandleSubmit, Team!ToggleEmployee
<1>4. ASSUME NEW x \in Employees, Team!OpenServices(x) PROVE TeamOfType'
  <2>1. [op |-> "services", employee |-> x] \in Team!ServicesRequest
    OBVIOUS
  <2> QED
    BY <1>4, <2>1 DEF Team!OpenServices
<1>5. CASE Team!CloseServices
  BY <1>5 DEF Team!CloseServices
<1>6. ASSUME NEW s \in Services, Team!ToggleService(s) PROVE TeamOfType'
  BY <1>6 DEF Team!ToggleService
<1>7. CASE Team!SaveEmployeeServices
  <2>1. [op |-> "put", employee |-> ui.dialog, ids |-> ui.ids, owner |-> ui.owner,
         hurried |-> ui.crossed \/ Team!InFlight({"services"}) # {}] \in Team!PutRequest
    BY <1>7 DEF Team!SaveEmployeeServices
  <2> QED
    BY <1>7, <2>1 DEF Team!SaveEmployeeServices
<1>8. ASSUME NEW s \in Services, Team!ServiceChanges(s) PROVE TeamOfType'
  BY <1>8 DEF Team!ServiceChanges, Team!Database
<1>9. ASSUME NEW q \in net, Team!AnswerList(q) PROVE TeamOfType'
  BY <1>9 DEF Team!AnswerList, Team!Saved
<1>10. ASSUME NEW q \in net, Team!AnswerWrite(q) PROVE TeamOfType'
  <2>1. Team!Reload(q) \in Team!ListRequest
    BY <1>10 DEF Team!AnswerWrite, Team!Reload
  <2> QED
    BY <1>10, <2>1 DEF Team!AnswerWrite, Team!Saved
<1>11. ASSUME NEW q \in net, Team!AnswerServices(q) PROVE TeamOfType'
  <2>1. {s \in Services : <<q.employee, s>> \in db.performs} \subseteq Services
    OBVIOUS
  <2>2. q.employee \in Employees /\ net' \subseteq net /\ db' = db
    BY <1>11 DEF Team!AnswerServices
  <2>3. \/ ui' = [ui EXCEPT !.loadingServices = FALSE, !.owner = q.employee,
                            !.ids = {s \in Services : <<q.employee, s>> \in db.performs}]
        \/ ui' = [ui EXCEPT !.loadingServices = FALSE, !.dialog = None]
    BY <1>11 DEF Team!AnswerServices
  <2>4. ui' \in Team!Page
    BY <2>1, <2>2, <2>3
  <2> QED
    BY <2>2, <2>4
<1>12. ASSUME NEW q \in net, Team!AnswerPut(q) PROVE TeamOfType'
  <2>1. q \in Team!PutRequest
    BY <1>12 DEF Team!AnswerPut
  <2>2. q.employee \in Employees /\ q.ids \subseteq Services
    BY <2>1
  <2>3. db' \in Team!Database
    BY <1>12, <2>2 DEF Team!AnswerPut, Team!Database
  <2>4. ui' \in Team!Page /\ net' \subseteq net
    BY <1>12 DEF Team!AnswerPut
  <2> QED
    BY <2>3, <2>4
<1>13. QED
  BY <1>1, <1>2, <1>3, <1>4, <1>5, <1>6, <1>7, <1>8, <1>9, <1>10, <1>11, <1>12 
     DEF Team!Next, Team!User, Team!Answer

LEMMA TeamSavesOne == ASSUME TeamOfType, TeamSaves, Team!Next PROVE TeamSaves'
<1> USE DEF TeamOfType, Team!Page, TeamSaves, Team!Saves
<1>1. ASSUME NEW f \in Filters, Team!ChooseFilter(f) PROVE TeamSaves'
  <2> DEFINE new == [op |-> "list", filter |-> f, ends |-> FALSE]
  <2>1. ~Team!Saves(new)
    OBVIOUS
  <2>2. ui'.saving = ui.saving /\ net' = net \cup {new}
    BY <1>1 DEF Team!ChooseFilter
  <2> HIDE DEF new
  <2> QED
    BY <2>1, <2>2
<1>2. CASE Team!OpenForm \/ Team!CloseForm \/ Team!CloseServices
  BY <1>2 DEF Team!OpenForm, Team!CloseForm, Team!CloseServices
<1>3. CASE Team!HandleSubmit
  <2> DEFINE new == [op |-> "save", filter |-> ui.filter]
  <2>1. Team!Saves(new)
    OBVIOUS
  <2>2. ~ui.saving /\ ui'.saving /\ net' = net \cup {new}
    BY <1>3 DEF Team!HandleSubmit
  <2> HIDE DEF new
  <2> QED
    BY <2>1, <2>2
<1>4. CASE Team!ToggleEmployee
  BY <1>4 DEF Team!ToggleEmployee
<1>5. ASSUME NEW x \in Employees, Team!OpenServices(x) PROVE TeamSaves'
  BY <1>5 DEF Team!OpenServices
<1>6. ASSUME NEW s \in Services, Team!ToggleService(s) \/ Team!ServiceChanges(s) PROVE TeamSaves'
  BY <1>6 DEF Team!ToggleService, Team!ServiceChanges
<1>7. CASE Team!SaveEmployeeServices
  <2> DEFINE new == [op |-> "put", employee |-> ui.dialog, ids |-> ui.ids, owner |-> ui.owner,
                     hurried |-> ui.crossed \/ Team!InFlight({"services"}) # {}]
  <2>1. new.op = "put"
    OBVIOUS
  <2>2. ~ui.saving /\ ui'.saving /\ net' = net \cup {new}
    BY <1>7 DEF Team!SaveEmployeeServices
  <2> HIDE DEF new
  <2> QED
    BY <2>1, <2>2
<1>8. ASSUME NEW q \in net, Team!AnswerList(q) PROVE TeamSaves'
  BY <1>8 DEF Team!AnswerList, Team!Saved, Team!InFlight
<1>9. ASSUME NEW q \in net, Team!AnswerWrite(q) PROVE TeamSaves'
  <2>1. Team!Saves(q) <=> q.op = "save"
    BY <1>9 DEF Team!AnswerWrite, Team!InFlight
  <2>2. CASE ui'.saving = ui.saving /\ net' = (net \ {q}) \cup {Team!Reload(q)}
    <3> DEFINE new == Team!Reload(q)
    <3>1. Team!Saves(new) <=> q.op = "save"
      BY DEF Team!Reload
    <3>2. \A r \in net' : r = new \/ (r \in net /\ r # q)
      BY <2>2
    <3>3. new \in net'
      BY <2>2
    <3> HIDE DEF new, Team!Saves
    <3> QED
      BY <1>9, <2>1, <2>2, <3>1, <3>2, <3>3
  <2>3. CASE ui' = Team!Saved(ui, q) /\ net' = net \ {q}
    BY <2>3 DEF Team!Saved
  <2> QED
    BY <1>9, <2>2, <2>3 DEF Team!AnswerWrite
<1>10. ASSUME NEW q \in net, Team!AnswerServices(q) PROVE TeamSaves'
  BY <1>10 DEF Team!AnswerServices, Team!InFlight
<1>11. ASSUME NEW q \in net, Team!AnswerPut(q) PROVE TeamSaves'
  BY <1>11 DEF Team!AnswerPut, Team!InFlight
<1>12. QED
  BY <1>1, <1>2, <1>3, <1>4, <1>5, <1>6, <1>7, <1>8, <1>9, <1>10, <1>11
     DEF Team!Next, Team!User, Team!Answer

TeamOwn == Team!ServicesAreTheirOwn /\ OnlyItsServices /\ ItsServices

\* Every other step leaves the section and its lists alone.
LEMMA TeamOwnsElse == 
    ASSUME TeamOfType, TeamOwn, 
           \A x \in {"services", "put"} : Team!InFlight({x})' \subseteq Team!InFlight({x}),
           ui'.dialog \in {None, ui.dialog},
           UNCHANGED <<ui.owner, ui.crossed, Team!InFlight({"services"})>>
    PROVE  TeamOwn'
BY DEF TeamOwn, Team!ServicesAreTheirOwn, OnlyItsServices, ItsServices

LEMMA TeamOwns == ASSUME TeamOfType, TeamOwn, Team!Next PROVE TeamOwn'
<1> USE DEF TeamOfType, Team!Page, Team!InFlight
<1>1. ASSUME NEW f \in Filters, Team!ChooseFilter(f) PROVE TeamOwn'
  BY <1>1, TeamOwnsElse DEF Team!ChooseFilter
<1>2. CASE Team!OpenForm \/ Team!CloseForm \/ Team!CloseServices
  BY <1>2, TeamOwnsElse DEF Team!OpenForm, Team!CloseForm, Team!CloseServices
<1>3. CASE Team!HandleSubmit \/ Team!ToggleEmployee
  BY <1>3, TeamOwnsElse DEF Team!HandleSubmit, Team!ToggleEmployee
<1>4. ASSUME NEW x \in Employees, Team!OpenServices(x) PROVE TeamOwn'
  <2> DEFINE new == [op |-> "services", employee |-> x]
  <2>1. new.op = "services" /\ new.employee = x
    OBVIOUS
  <2>2. /\ net' = net \cup {new} /\ ui'.dialog = x 
        /\ ui'.crossed <=> \E q \in net : q.op = "services"
    BY <1>4 DEF Team!OpenServices
  <2> HIDE DEF new
  <2> QED
    BY <2>1, <2>2 DEF TeamOwn, Team!ServicesAreTheirOwn, OnlyItsServices, ItsServices
<1>5. ASSUME NEW s \in Services, Team!ToggleService(s) \/ Team!ServiceChanges(s) PROVE TeamOwn'
  BY <1>5, TeamOwnsElse DEF Team!ToggleService, Team!ServiceChanges
<1>6. CASE Team!SaveEmployeeServices
  <2> DEFINE new == [op |-> "put", employee |-> ui.dialog, ids |-> ui.ids, owner |-> ui.owner,
                     hurried |-> ui.crossed \/ Team!InFlight({"services"}) # {}]
  <2>1. new.op = "put" /\ (new.owner = new.employee \/ new.hurried)
    BY <1>6 DEF Team!SaveEmployeeServices, TeamOwn, ItsServices
  <2>2. net' = net \cup {new} /\ UNCHANGED <<ui.dialog, ui.owner, ui.crossed>>
    BY <1>6 DEF Team!SaveEmployeeServices
  <2> HIDE DEF new
  <2> QED
    BY <2>1, <2>2 DEF TeamOwn, Team!ServicesAreTheirOwn, OnlyItsServices, ItsServices
<1>7. ASSUME NEW q \in net, Team!AnswerList(q) PROVE TeamOwn'
  BY <1>7, TeamOwnsElse DEF Team!AnswerList, Team!Saved
<1>8. ASSUME NEW q \in net, Team!AnswerWrite(q) PROVE TeamOwn'
  <2>1. Team!Reload(q).op = "list"
    BY DEF Team!Reload
  <2> QED
    BY <1>8, <2>1, TeamOwnsElse DEF Team!AnswerWrite, Team!Saved
<1>9. ASSUME NEW q \in net, Team!AnswerServices(q) PROVE TeamOwn'
  BY <1>9 DEF Team!AnswerServices, TeamOwn, Team!ServicesAreTheirOwn, OnlyItsServices, ItsServices
<1>10. ASSUME NEW q \in net, Team!AnswerPut(q) PROVE TeamOwn'
  BY <1>10, TeamOwnsElse DEF Team!AnswerPut
<1>11. QED
  BY <1>1, <1>2, <1>3, <1>4, <1>5, <1>6, <1>7, <1>8, <1>9, <1>10
     DEF Team!Next, Team!User, Team!Answer

TeamInv == TeamOfType /\ TeamSaves /\ TeamOwn

LEMMA TeamInit == ASSUME Team!Init PROVE TeamInv
BY DEF Team!Init, TeamInv, TeamOfType, Team!Page, Team!Database, TeamSaves, TeamOwn, 
       Team!ServicesAreTheirOwn, Team!InFlight, OnlyItsServices, ItsServices

LEMMA TeamNext == ASSUME TeamInv, Team!Next PROVE TeamInv'
BY TeamType, TeamSavesOne, TeamOwns DEF TeamInv

LEMMA TeamCardinality == ASSUME NEW S PROVE Team!Cardinality(S) = Cardinality(S)
BY DEF Team!Cardinality, Cardinality

LEMMA TeamTypeOK == ASSUME TeamInv PROVE Team!TypeOK
<1> DEFINE saving == {q \in net : Team!Saves(q)}
<1>1. saving = {} \/ \E q : saving = {q}
  BY DEF TeamInv, TeamSaves
<1>2. ui.saving <=> saving # {}
  BY DEF TeamInv, TeamSaves
<1>3. ui.saving \in BOOLEAN
  BY DEF TeamInv, TeamOfType, Team!Page
<1> HIDE DEF saving
<1>4. Cardinality(saving) = IF ui.saving THEN 1 ELSE 0
  BY <1>1, <1>2, <1>3, FS_EmptySet, FS_Singleton
<1> USE DEF saving
<1>5. QED
  BY <1>4, TeamCardinality DEF TeamInv, TeamOfType, Team!TypeOK

----------------------------------------------------------------------------
(* The agenda *)

AgendaOfType == ui \in Agenda!Page /\ net \subseteq Agenda!Request

\* One request at the most will reset saving, and only while it is set.
AgendaSaves ==
    /\ \A q \in net : Agenda!Saves(q) => ui.saving
    /\ \A q, r \in net : Agenda!Saves(q) /\ Agenda!Saves(r) => q = r

\* Every list of appointments that is still to come is of the date on show.
ListsOfTheDate == ~ui.overtaken => \A q \in net : Agenda!BringsList(q) => q.date = ui.date

\* The lookup a request will bring the slots of.
BringsSlotsOf(q) == IF q.op = "slots" THEN q.of ELSE q.rest.slots

\* The slots there are, and all that are to come, are of the lookup the form shows.
SlotsOfTheLookup == 
    LET l == Agenda!LookupOf(ui) IN ~ui.crossed /\ l # None =>
        /\ ui.slot \in {None, l} /\ ui.slots \in {None, l}
        /\ \A q \in net : Agenda!BringsSlots(q) => BringsSlotsOf(q) = l

\* The same of the section that reschedules.
SlotsOfTheSection ==
    ~ui.moveCrossed /\ ui.move # None =>
        /\ ui.moveSlot \in {None, ui.move} /\ ui.moveSlots \in {None, ui.move}
        /\ \A q \in net : q.op = "moveSlots" => q.of = ui.move

StatusBringsNoSlots == \A q \in net : q.op = "status" => q.rest.slots = None

AgendaInv == 
    /\ AgendaOfType /\ AgendaSaves
    /\ Agenda!ListIsOfTheDate /\ ListsOfTheDate
    /\ SlotsOfTheLookup /\ SlotsOfTheSection /\ StatusBringsNoSlots
    /\ Agenda!SlotsAreOfTheForm

\* The employee, service and date of a page make its lookup, or one of them is missing.
LEMMA AgendaLookup ==
    ASSUME NEW p \in Agenda!Page
    PROVE  Agenda!LookupOf(p) \in Agenda!Lookup \cup {None}
BY DEF Agenda!LookupOf, Agenda!Lookup, Agenda!Page

LEMMA AgendaSameLookup ==
    ASSUME NEW p, NEW r, p.employee = r.employee, p.service = r.service, p.date = r.date
    PROVE  Agenda!LookupOf(p) = Agenda!LookupOf(r)
BY DEF Agenda!LookupOf

\* What SlotsEffect and DateEffect leave alone, and what they change.
LEMMA AgendaSlotsEffect ==
    ASSUME NEW p \in Agenda!Page
    PROVE  LET e == Agenda!SlotsEffect(p) IN
           /\ e \in Agenda!Page
           /\ e.date = p.date /\ e.loading = p.loading /\ e.listed = p.listed
           /\ e.failed = p.failed /\ e.overtaken = p.overtaken /\ e.saving = p.saving
           /\ e.employee = p.employee /\ e.service = p.service /\ e.move = p.move
           /\ e.moveSlots = p.moveSlots /\ e.moveSlot = p.moveSlot /\ e.moveCrossed = p.moveCrossed
           /\ e.slots = None
           /\ Agenda!LookupOf(e) = Agenda!LookupOf(p)
           /\ Agenda!LookupOf(p) # None => /\ e.slot = None 
                                           /\ e.crossed <=> \E q \in net : Agenda!BringsSlots(q)
<1> DEFINE e == Agenda!SlotsEffect(p)
<1>1. CASE Agenda!LookupOf(p) = None
  <2>1. e = [p EXCEPT !.slots = None]
    BY <1>1 DEF Agenda!SlotsEffect
  <2> QED
    BY <1>1, <2>1, AgendaSameLookup DEF Agenda!Page
<1>2. CASE Agenda!LookupOf(p) # None
  <2>1. e = [p EXCEPT !.slot = None, !.slots = None, !.crossed = \E q \in net : Agenda!BringsSlots(q)]
    BY <1>2 DEF Agenda!SlotsEffect, Agenda!ClearSlots, Agenda!Page
  <2> QED
    BY <1>2, <2>1, AgendaSameLookup DEF Agenda!Page
<1> QED
  BY <1>1, <1>2

LEMMA AgendaDateEffect ==
    ASSUME NEW p \in Agenda!Page
    PROVE  LET e == Agenda!DateEffect(p) IN
           /\ e \in Agenda!Page /\ e.loading
           /\ e.overtaken <=> \E q \in net : Agenda!BringsList(q)
           /\ e.date = p.date /\ e.saving = p.saving /\ e.move = p.move
           /\ e.moveSlots = p.moveSlots /\ e.moveSlot = p.moveSlot /\ e.moveCrossed = p.moveCrossed
           /\ Agenda!LookupOf(e) = Agenda!LookupOf(p)
<1> DEFINE e == Agenda!DateEffect(p)
<1>1. e = [p EXCEPT !.loading = TRUE, !.overtaken = \E q \in net : Agenda!BringsList(q)]
  BY DEF Agenda!DateEffect
<1>2. e \in Agenda!Page
  BY <1>1 DEF Agenda!Page
<1>3. e.loading /\ (e.overtaken <=> \E q \in net : Agenda!BringsList(q))
  BY <1>1 DEF Agenda!Page
<1>4. /\ e.employee = p.employee /\ e.service = p.service
      /\ e.date = p.date /\ e.saving = p.saving /\ e.move = p.move
      /\ e.moveSlots = p.moveSlots /\ e.moveSlot = p.moveSlot /\ e.moveCrossed = p.moveCrossed
  BY <1>1 DEF Agenda!Page
<1>5. QED
  BY <1>2, <1>3, <1>4, AgendaSameLookup

\* The requests that are sent.
LEMMA AgendaLoadAgenda ==
    ASSUME NEW d, NEW rest
    PROVE  LET q == Agenda!LoadAgenda(d, rest) IN
           /\ q.op = "list" /\ q.date = d /\ q.rest = rest
           /\ d \in Dates /\ rest \in Agenda!Rest => q \in Agenda!Request
BY DEF Agenda!LoadAgenda, Agenda!Request, Agenda!ListRequest

LEMMA AgendaLoadSlots ==
    ASSUME NEW l, NEW ends
    PROVE  LET q == Agenda!LoadSlots(l, ends) IN
           /\ q.op = "slots" /\ q.of = l /\ q.ends = ends
           /\ l \in Agenda!Lookup /\ ends \in BOOLEAN => q \in Agenda!Request
BY DEF Agenda!LoadSlots, Agenda!Request, Agenda!SlotsRequest

LEMMA AgendaOver == Agenda!Over \in Agenda!Rest /\ Agenda!Over.slots = None /\ ~Agenda!Over.ends
BY DEF Agenda!Over, Agenda!Rest

LEMMA AgendaSends ==
    ASSUME NEW p \in Agenda!Page, NEW q \in Agenda!SlotsEffectSends(p)
    PROVE  /\ q \in Agenda!Request /\ q.op = "slots" /\ ~q.ends
           /\ q.of = Agenda!LookupOf(p) /\ q.of # None
<1>1. q = Agenda!LoadSlots(Agenda!LookupOf(p), FALSE) /\ Agenda!LookupOf(p) # None
  BY DEF Agenda!SlotsEffectSends
<1>2. Agenda!LookupOf(p) \in Agenda!Lookup
  BY <1>1, AgendaLookup
<1>3. QED
  BY <1>1, <1>2, AgendaLoadSlots

\* What the requests of each kind carry.
LEMMA AgendaOfOp ==
    ASSUME NEW q \in net, q \in Agenda!Request
    PROVE  /\ q.op \in {"list", "create", "status", "cancel"} => q.date \in Dates /\ q.rest \in Agenda!Rest
           /\ q.op = "slots" => q.of \in Agenda!Lookup /\ q.ends \in BOOLEAN
           /\ q.op \in {"move", "moveSlots"} => q.of \in Agenda!MoveLookup
           /\ q.op = "services" => q.employee \in Professionals
<1>1. CASE q \in Agenda!ListRequest
  BY <1>1 DEF Agenda!ListRequest
<1>2. CASE q \in Agenda!ServicesRequest
  BY <1>2 DEF Agenda!ServicesRequest
<1>3. CASE q \in Agenda!SlotsRequest
  BY <1>3 DEF Agenda!SlotsRequest
<1>4. CASE q \in Agenda!MoveSlotsRequest
  BY <1>4 DEF Agenda!MoveSlotsRequest
<1>5. CASE q \in Agenda!WriteRequest
  BY <1>5 DEF Agenda!WriteRequest
<1>6. CASE q \in Agenda!MoveRequest
  BY <1>6 DEF Agenda!MoveRequest
<1>7. QED
  BY <1>1, <1>2, <1>3, <1>4, <1>5, <1>6 DEF Agenda!Request

\* Ending saving, or forgetting the slots, leaves the rest of a page alone.
LEMMA AgendaSaved ==
    ASSUME NEW p \in Agenda!Page, NEW ends \in BOOLEAN
    PROVE  LET e == Agenda!Saved(p, ends) IN
           /\ e \in Agenda!Page
           /\ e.saving <=> p.saving /\ ~ends
           /\ e.date = p.date /\ e.loading = p.loading /\ e.listed = p.listed
           /\ e.failed = p.failed /\ e.overtaken = p.overtaken
           /\ e.slots = p.slots /\ e.slot = p.slot /\ e.crossed = p.crossed
           /\ e.moveSlots = p.moveSlots /\ e.moveSlot = p.moveSlot /\ e.moveCrossed = p.moveCrossed
           /\ e.move = p.move /\ Agenda!LookupOf(e) = Agenda!LookupOf(p)
<1>1. LET e == Agenda!Saved(p, ends) IN e.employee = p.employee /\ e.service = p.service /\ e.date = p.date
  BY DEF Agenda!Saved, Agenda!Page
<1>2. Agenda!LookupOf(Agenda!Saved(p, ends)) = Agenda!LookupOf(p)
  BY <1>1, AgendaSameLookup
<1>3. LET e == Agenda!Saved(p, ends) IN e \in Agenda!Page /\ (e.saving <=> p.saving /\ ~ends)
  <2>1. CASE ends
    <3>1. Agenda!Saved(p, ends) = [p EXCEPT !.saving = FALSE]
      BY <2>1 DEF Agenda!Saved
    <3> QED
      BY <2>1, <3>1 DEF Agenda!Page
  <2>2. CASE ~ends
    BY <2>2 DEF Agenda!Saved, Agenda!Page
  <2> QED
    BY <2>1, <2>2
<1>4. QED
  BY <1>2, <1>3 DEF Agenda!Saved, Agenda!Page

LEMMA AgendaClearSlots ==
    ASSUME NEW p \in Agenda!Page
    PROVE  LET e == Agenda!ClearSlots(p) IN
           /\ e \in Agenda!Page /\ e.saving = p.saving
           /\ e.date = p.date /\ e.loading = p.loading /\ e.listed = p.listed
           /\ e.failed = p.failed /\ e.overtaken = p.overtaken
           /\ e.slots = None /\ e.slot = None /\ e.crossed = p.crossed
           /\ e.moveSlots = p.moveSlots /\ e.moveSlot = p.moveSlot /\ e.moveCrossed = p.moveCrossed
           /\ e.move = p.move /\ Agenda!LookupOf(e) = Agenda!LookupOf(p)
<1>1. LET e == Agenda!ClearSlots(p) IN e.employee = p.employee /\ e.service = p.service /\ e.date = p.date
  BY DEF Agenda!ClearSlots, Agenda!Page
<1>2. Agenda!LookupOf(Agenda!ClearSlots(p)) = Agenda!LookupOf(p)
  BY <1>1, AgendaSameLookup
<1>3. QED
  BY <1>2 DEF Agenda!ClearSlots, Agenda!Page

LEMMA AgendaWrites ==
    ASSUME NEW op \in {"create", "status", "cancel"}, NEW d \in Dates, NEW rest \in Agenda!Rest, 
           NEW slot \in Agenda!Lookup \cup {None}, NEW astray \in BOOLEAN
    PROVE  [op |-> op, date |-> d, slot |-> slot, rest |-> rest, astray |-> astray] \in Agenda!Request
BY DEF Agenda!Request, Agenda!WriteRequest

\* The page with an answered list, and the page when it failed.
AgendaKeeps(p) ==
    /\ p.date = ui.date /\ p.overtaken = ui.overtaken /\ p.saving = ui.saving
    /\ p.employee = ui.employee /\ p.service = ui.service
    /\ p.slots = ui.slots /\ p.slot = ui.slot /\ p.crossed = ui.crossed
    /\ p.move = ui.move /\ p.moveSlots = ui.moveSlots 
    /\ p.moveSlot = ui.moveSlot /\ p.moveCrossed = ui.moveCrossed

LEMMA AgendaListed ==
    ASSUME AgendaOfType, NEW d \in Dates
    PROVE  LET p == [ui EXCEPT !.loading = FALSE, !.listed = d, !.failed = FALSE]
           IN  p \in Agenda!Page /\ AgendaKeeps(p) /\ p.listed = d
<1> DEFINE p == [ui EXCEPT !.loading = FALSE, !.listed = d, !.failed = FALSE]
<1>1. ui \in Agenda!Page
  BY DEF AgendaOfType
<1>2. p \in Agenda!Page
  BY <1>1 DEF Agenda!Page
<1>3. p.listed = d
  BY <1>1 DEF Agenda!Page
<1>4. AgendaKeeps(p)
  BY <1>1 DEF Agenda!Page, AgendaKeeps
<1> QED
  BY <1>2, <1>3, <1>4

LEMMA AgendaUnlisted ==
    ASSUME AgendaOfType
    PROVE  LET p == [ui EXCEPT !.loading = FALSE, !.failed = TRUE]
           IN  p \in Agenda!Page /\ AgendaKeeps(p) /\ p.failed
<1> DEFINE p == [ui EXCEPT !.loading = FALSE, !.failed = TRUE]
<1>1. ui \in Agenda!Page
  BY DEF AgendaOfType
<1>2. p \in Agenda!Page
  BY <1>1 DEF Agenda!Page
<1>3. p.failed
  BY <1>1 DEF Agenda!Page
<1>4. AgendaKeeps(p)
  BY <1>1 DEF Agenda!Page, AgendaKeeps
<1> QED
  BY <1>2, <1>3, <1>4

LEMMA AgendaType == ASSUME AgendaOfType, Agenda!Next PROVE AgendaOfType'
<1> USE DEF AgendaOfType
<1>1. ASSUME NEW d \in Dates, Agenda!ChooseDate(d) PROVE AgendaOfType'
  <2> DEFINE p == [ui EXCEPT !.date = d]
  <2>1. p \in Agenda!Page
    BY DEF Agenda!Page
  <2>2. Agenda!DateEffect(p) \in Agenda!Page
    BY <2>1, AgendaDateEffect
  <2>3. ui' \in Agenda!Page
    BY <1>1, <2>2, AgendaSlotsEffect DEF Agenda!ChooseDate
  <2>4. net' \subseteq Agenda!Request
    BY <1>1, <2>1, AgendaSends, AgendaLoadAgenda, AgendaOver DEF Agenda!ChooseDate
  <2> QED
    BY <2>3, <2>4
<1>2. CASE Agenda!RefreshAgenda
  <2>1. ui.date \in Dates
    BY DEF Agenda!Page
  <2> QED
    <3>1. ui' \in Agenda!Page
      BY <1>2 DEF Agenda!RefreshAgenda, Agenda!Page
    <3>2. net' \subseteq Agenda!Request
      BY <1>2, <2>1, AgendaLoadAgenda, AgendaOver DEF Agenda!RefreshAgenda
    <3> QED
      BY <3>1, <3>2
<1>3. ASSUME NEW x \in Professionals \cup {None}, Agenda!ChooseEmployee(x) PROVE AgendaOfType'
  <2> DEFINE p == [ui EXCEPT !.employee = x]
  <2>1. p \in Agenda!Page
    BY DEF Agenda!Page
  <2>2. Agenda!SlotsEffect(p) \in Agenda!Page
    BY <2>1, AgendaSlotsEffect
  <2>3. ui' \in Agenda!Page
    BY <1>3, <2>2 DEF Agenda!ChooseEmployee, Agenda!Page
  <2>4. x # None => [op |-> "services", employee |-> x] \in Agenda!Request
    BY DEF Agenda!Request, Agenda!ServicesRequest
  <2>5. net' \subseteq Agenda!Request
    BY <1>3, <2>1, <2>4, AgendaSends DEF Agenda!ChooseEmployee
  <2> QED
    BY <2>3, <2>5
<1>4. ASSUME NEW s \in Offers \cup {None}, Agenda!ChooseService(s) PROVE AgendaOfType'
  <2> DEFINE p == [ui EXCEPT !.service = s]
  <2>1. p \in Agenda!Page
    BY DEF Agenda!Page
  <2> QED
    BY <1>4, <2>1, AgendaSlotsEffect, AgendaSends DEF Agenda!ChooseService
<1>5. CASE Agenda!ChooseSlot \/ Agenda!CloseReschedule \/ Agenda!ChooseMoveSlot
  BY <1>5 DEF Agenda!ChooseSlot, Agenda!CloseReschedule, Agenda!ChooseMoveSlot, Agenda!Page
<1>6. CASE Agenda!HandleCreate \/ Agenda!HandleStatus \/ Agenda!HandleCancel
  <2>1. ui.date \in Dates /\ ui.slot \in Agenda!Lookup \cup {None}
    BY DEF Agenda!Page
  <2>2. \A ends \in BOOLEAN : /\ [slots |-> Agenda!LookupOf(ui), ends |-> ends] \in Agenda!Rest
                              /\ [slots |-> None, ends |-> ends] \in Agenda!Rest
    BY AgendaLookup DEF Agenda!Rest
  <2>3. net' \subseteq Agenda!Request
    <3>1. CASE Agenda!HandleCreate
      BY <3>1, <2>1, <2>2, AgendaWrites DEF Agenda!HandleCreate
    <3>2. CASE Agenda!HandleStatus
      BY <3>2, <2>1, <2>2, AgendaWrites DEF Agenda!HandleStatus
    <3>3. CASE Agenda!HandleCancel
      BY <3>3, <2>1, <2>2, AgendaWrites DEF Agenda!HandleCancel
    <3> QED
      BY <1>6, <3>1, <3>2, <3>3
  <2>4. ui' \in Agenda!Page
    BY <1>6 DEF Agenda!HandleCreate, Agenda!HandleStatus, Agenda!HandleCancel, Agenda!Page
  <2> QED
    BY <2>3, <2>4
<1>7. ASSUME NEW l \in Agenda!MoveLookup, Agenda!LoadMoveSlots(l) PROVE AgendaOfType'
  <2>1. [op |-> "moveSlots", of |-> l] \in Agenda!Request
    BY DEF Agenda!Request, Agenda!MoveSlotsRequest
  <2>2. ui' \in Agenda!Page
    <3> DEFINE crossed == Agenda!InFlight({"moveSlots"}) # {}
    <3>1. crossed \in BOOLEAN
      OBVIOUS
    <3>2. ui' = [ui EXCEPT !.move = l, !.moveSlots = None, !.moveSlot = None, !.moveCrossed = crossed]
      BY <1>7 DEF Agenda!LoadMoveSlots
    <3> HIDE DEF crossed
    <3> QED
      BY <3>1, <3>2 DEF Agenda!Page
  <2>3. net' \subseteq Agenda!Request
    BY <1>7, <2>1 DEF Agenda!LoadMoveSlots
  <2> QED
    BY <2>2, <2>3
<1>8. ASSUME NEW a \in Appointments, Agenda!OpenReschedule(a) PROVE AgendaOfType'
  BY <1>7, <1>8 DEF Agenda!OpenReschedule, Agenda!MoveLookup, Agenda!Page
<1>9. ASSUME NEW d \in Dates, Agenda!ChooseMoveDate(d) PROVE AgendaOfType'
  BY <1>7, <1>9 DEF Agenda!ChooseMoveDate, Agenda!MoveLookup, Agenda!Page
<1>10. CASE Agenda!HandleReschedule
  <2> DEFINE new == [op |-> "move", of |-> ui.move, slot |-> ui.moveSlot, 
                     astray |-> ui.moveSlot # ui.move /\ ~ui.moveCrossed]
  <2>1. new \in Agenda!Request
    BY <1>10 DEF Agenda!HandleReschedule, Agenda!Request, Agenda!MoveRequest, Agenda!Page
  <2> QED
    BY <1>10, <2>1 DEF Agenda!HandleReschedule, Agenda!Page
<1>11. ASSUME NEW q \in net, Agenda!AnswerList(q) PROVE AgendaOfType'
  <2>1. q.date \in Dates /\ q.rest.slots \in Agenda!Lookup \cup {None} /\ q.rest.ends \in BOOLEAN
    BY <1>11, AgendaOfOp DEF Agenda!AnswerList, Agenda!Rest
  <2>2. net' \subseteq Agenda!Request
    BY <1>11, <2>1, AgendaLoadSlots DEF Agenda!AnswerList
  <2>3. ui' \in Agenda!Page
    <3> DEFINE done == [ui EXCEPT !.loading = FALSE, !.listed = q.date, !.failed = FALSE]
               fail == [ui EXCEPT !.loading = FALSE, !.failed = TRUE]
    <3>1. done \in Agenda!Page
      BY <2>1, AgendaListed
    <3>2. fail \in Agenda!Page
      BY AgendaUnlisted
    <3>3. PICK p \in {done, fail} : ui' \in {Agenda!ClearSlots(p), Agenda!Saved(p, q.rest.ends)}
      BY <1>11 DEF Agenda!AnswerList
    <3> QED
      BY <2>1, <3>1, <3>2, <3>3, AgendaClearSlots, AgendaSaved
  <2> QED
    BY <2>2, <2>3
<1>12. ASSUME NEW q \in net, Agenda!AnswerServices(q) \/ Agenda!AnswerSlots(q) \/ Agenda!AnswerMoveSlots(q)
       PROVE  AgendaOfType'
  <2>1. net' \subseteq net
    BY <1>12 DEF Agenda!AnswerServices, Agenda!AnswerSlots, Agenda!AnswerMoveSlots
  <2>2. CASE Agenda!AnswerServices(q)
    BY <2>2, AgendaOfOp DEF Agenda!AnswerServices, Agenda!Page
  <2>3. CASE Agenda!AnswerSlots(q)
    <3>1. q.of \in Agenda!Lookup /\ q.ends \in BOOLEAN
      BY <2>3, AgendaOfOp DEF Agenda!AnswerSlots
    <3>2. [ui EXCEPT !.slots = q.of] \in Agenda!Page
      BY <3>1 DEF Agenda!Page
    <3>3. ui' \in Agenda!Page
      BY <2>3, <3>1, <3>2, AgendaSaved DEF Agenda!AnswerSlots
    <3> QED
      BY <2>1, <3>3
  <2>4. CASE Agenda!AnswerMoveSlots(q)
    BY <2>4, AgendaOfOp DEF Agenda!AnswerMoveSlots, Agenda!Page
  <2> QED
    BY <1>12, <2>2, <2>3, <2>4
<1>13. ASSUME NEW q \in net, Agenda!AnswerWrite(q) PROVE AgendaOfType'
  <2>1. q.date \in Dates /\ q.rest \in Agenda!Rest
    BY <1>13, AgendaOfOp DEF Agenda!AnswerWrite
  <2>2. net' \subseteq Agenda!Request
    BY <1>13, <2>1, AgendaLoadAgenda DEF Agenda!AnswerWrite
  <2>3. CASE ui' = Agenda!Saved(ui, q.rest.ends)
    <3>1. q.rest.ends \in BOOLEAN
      BY <2>1 DEF Agenda!Rest
    <3> QED
      BY <2>2, <2>3, <3>1, AgendaSaved
  <2>4. CASE ui' = [ui EXCEPT !.slot = IF q.op = "create" THEN None ELSE @, !.loading = TRUE]
    <3>1. ui \in Agenda!Page
      OBVIOUS
    <3>2. ui.slot \in Agenda!Lookup \cup {None}
      BY <3>1 DEF Agenda!Page
    <3>3. PICK l \in Agenda!Lookup \cup {None} : ui' = [ui EXCEPT !.slot = l, !.loading = TRUE]
      BY <2>4, <3>2
    <3>4. ui' \in Agenda!Page
      BY <3>1, <3>3 DEF Agenda!Page
    <3> QED
      BY <2>2, <3>4
  <2> QED
    BY <1>13, <2>3, <2>4 DEF Agenda!AnswerWrite
<1>14. ASSUME NEW q \in net, Agenda!AnswerMove(q) PROVE AgendaOfType'
  <2> DEFINE p == [ui EXCEPT !.move = None, !.moveSlot = None, !.date = q.of.date, !.loading = TRUE]
             rest == [slots |-> None, ends |-> TRUE]
  <2>1. q.of.date \in Dates /\ rest \in Agenda!Rest
    BY <1>14, AgendaOfOp DEF Agenda!AnswerMove, Agenda!MoveLookup, Agenda!Rest
  <2>2. p \in Agenda!Page /\ p.date = q.of.date
    BY <2>1 DEF Agenda!Page
  <2>3. Agenda!DateEffect(p) \in Agenda!Page
    BY <2>2, AgendaDateEffect
  <2>4. Agenda!SlotsEffect(Agenda!DateEffect(p)) \in Agenda!Page
    BY <2>3, AgendaSlotsEffect
  <2>5. Agenda!LoadAgenda(p.date, rest) \in Agenda!Request 
        /\ Agenda!LoadAgenda(p.date, Agenda!Over) \in Agenda!Request
    BY <2>1, <2>2, AgendaLoadAgenda, AgendaOver
  <2>6. Agenda!SlotsEffectSends(p) \subseteq Agenda!Request
    BY <2>2, AgendaSends
  <2>7. Agenda!Saved(ui, TRUE) \in Agenda!Page
    BY AgendaSaved
  <2>8. /\ ui' \in {p, Agenda!SlotsEffect(Agenda!DateEffect(p)), Agenda!Saved(ui, TRUE)}
        /\ net' \subseteq net \cup Agenda!SlotsEffectSends(p)
              \cup {Agenda!LoadAgenda(p.date, rest), Agenda!LoadAgenda(p.date, Agenda!Over)}
    BY <1>14 DEF Agenda!AnswerMove
  <2> QED
    BY <2>2, <2>4, <2>5, <2>6, <2>7, <2>8
<1>15. QED
  BY <1>1, <1>2, <1>3, <1>4, <1>5, <1>6, <1>8, <1>9, <1>10, <1>11, <1>12, <1>13, <1>14
     DEF Agenda!Next, Agenda!User, Agenda!Answer

\* Which requests will reset saving.
LEMMA AgendaSavers ==
    ASSUME NEW q
    PROVE  /\ q.op \in {"list", "create", "status", "cancel"} => (Agenda!Saves(q) <=> q.rest.ends)
           /\ q.op = "slots" => (Agenda!Saves(q) <=> q.ends)
           /\ q.op = "move" => Agenda!Saves(q)
           /\ q.op \in {"services", "moveSlots"} => ~Agenda!Saves(q)
BY DEF Agenda!Saves

\* What the effects of a date or a lookup send.
EffectLoad(q) ==
    \/ q.op = "list" /\ q.date = ui'.date /\ q.rest = Agenda!Over
    \/ q.op = "slots" /\ ~q.ends /\ q.of = Agenda!LookupOf(ui') /\ q.of # None

LEMMA AgendaEffectLoad ==
    ASSUME NEW q, EffectLoad(q)
    PROVE  /\ ~Agenda!Saves(q) 
           /\ Agenda!BringsList(q) => q.date = ui'.date
           /\ Agenda!BringsSlots(q) => BringsSlotsOf(q) = Agenda!LookupOf(ui')
           /\ q.op \in {"list", "slots"}
BY AgendaSavers, AgendaOver DEF EffectLoad, Agenda!BringsList, Agenda!BringsSlots, BringsSlotsOf

\* The date changes, and both effects run.
DateChanges ==
    /\ ui'.loading /\ (ui'.overtaken <=> \E q \in net : Agenda!BringsList(q))
    /\ ui'.slots = None 
    /\ Agenda!LookupOf(ui') # None => /\ ui'.slot = None 
                                      /\ ui'.crossed <=> \E q \in net : Agenda!BringsSlots(q)

LEMMA AgendaBothEffects ==
    ASSUME NEW p \in Agenda!Page, ui' = Agenda!SlotsEffect(Agenda!DateEffect(p))
    PROVE  /\ DateChanges /\ ui'.date = p.date /\ ui'.saving = p.saving /\ ui'.move = p.move
           /\ ui'.moveSlots = p.moveSlots /\ ui'.moveSlot = p.moveSlot 
           /\ ui'.moveCrossed = p.moveCrossed
           /\ \A q \in Agenda!SlotsEffectSends(p) \cup {Agenda!LoadAgenda(p.date, Agenda!Over)} : 
                 EffectLoad(q)
<1> DEFINE e == Agenda!DateEffect(p)
<1>1. /\ e \in Agenda!Page /\ e.loading
      /\ e.overtaken <=> \E q \in net : Agenda!BringsList(q)
      /\ e.date = p.date /\ e.saving = p.saving /\ e.move = p.move
      /\ e.moveSlots = p.moveSlots /\ e.moveSlot = p.moveSlot /\ e.moveCrossed = p.moveCrossed
      /\ Agenda!LookupOf(e) = Agenda!LookupOf(p)
  BY AgendaDateEffect
<1> HIDE DEF e
<1>2. ui' = Agenda!SlotsEffect(e)
  BY DEF e
<1>3. /\ ui'.date = p.date /\ ui'.saving = p.saving /\ ui'.move = p.move /\ ui'.loading 
      /\ ui'.overtaken = e.overtaken /\ ui'.slots = None
      /\ ui'.moveSlots = p.moveSlots /\ ui'.moveSlot = p.moveSlot /\ ui'.moveCrossed = p.moveCrossed
      /\ Agenda!LookupOf(ui') = Agenda!LookupOf(p)
  BY <1>1, <1>2, AgendaSlotsEffect
<1>4. Agenda!LookupOf(ui') # None => /\ ui'.slot = None 
                                     /\ ui'.crossed <=> \E q \in net : Agenda!BringsSlots(q)
  BY <1>1, <1>2, <1>3, AgendaSlotsEffect
<1>5. DateChanges
  BY <1>1, <1>3, <1>4 DEF DateChanges
<1>6. \A q \in Agenda!SlotsEffectSends(p) : EffectLoad(q)
  BY <1>3, AgendaSends DEF EffectLoad
<1>7. EffectLoad(Agenda!LoadAgenda(p.date, Agenda!Over))
  BY <1>3, AgendaLoadAgenda DEF EffectLoad
<1>8. QED
  BY <1>3, <1>5, <1>6, <1>7

LEMMA AgendaChooseDate ==
    ASSUME AgendaOfType, NEW d \in Dates, Agenda!ChooseDate(d)
    PROVE  /\ DateChanges /\ ui'.saving = ui.saving /\ ui'.move = ui.move
           /\ ui'.moveSlots = ui.moveSlots /\ ui'.moveSlot = ui.moveSlot 
           /\ ui'.moveCrossed = ui.moveCrossed
           /\ \A q \in net' : q \in net \/ EffectLoad(q)
<1> DEFINE p == [ui EXCEPT !.date = d]
<1>1. /\ p \in Agenda!Page /\ p.date = d /\ p.saving = ui.saving /\ p.move = ui.move
      /\ p.moveSlots = ui.moveSlots /\ p.moveSlot = ui.moveSlot /\ p.moveCrossed = ui.moveCrossed
  BY DEF AgendaOfType, Agenda!Page
<1>2. /\ ui' = Agenda!SlotsEffect(Agenda!DateEffect(p))
      /\ net' = net \cup {Agenda!LoadAgenda(d, Agenda!Over)} \cup Agenda!SlotsEffectSends(p)
  BY DEF Agenda!ChooseDate
<1> HIDE DEF p
<1>3. QED
  BY <1>1, <1>2, AgendaBothEffects

\* The load of the agenda that the handler of a move goes on with.
MoveLoad == Agenda!LoadAgenda(ui'.date, [slots |-> None, ends |-> TRUE])

LEMMA AgendaAnswerMove ==
    ASSUME AgendaOfType, NEW q \in net, Agenda!AnswerMove(q)
    PROVE  \/ ui' = Agenda!Saved(ui, TRUE) /\ net' = net \ {q}
           \/ /\ ui'.saving = ui.saving /\ ui'.loading /\ ui'.move = None
              /\ \A r \in net' : r \in net \ {q} \/ EffectLoad(r) \/ r = MoveLoad
              /\ \/ DateChanges 
                 \/ /\ UNCHANGED <<ui.date, ui.overtaken, ui.crossed, ui.slot, ui.slots>>
                    /\ Agenda!LookupOf(ui') = Agenda!LookupOf(ui)
<1> DEFINE p == [ui EXCEPT !.move = None, !.moveSlot = None, !.date = q.of.date, !.loading = TRUE]
           rest == [slots |-> None, ends |-> TRUE]
<1>1. q.of.date \in Dates
  BY AgendaOfOp DEF AgendaOfType, Agenda!AnswerMove, Agenda!MoveLookup
<1>2. /\ p \in Agenda!Page /\ p.date = q.of.date /\ p.saving = ui.saving /\ p.loading /\ p.move = None
      /\ p.overtaken = ui.overtaken /\ p.crossed = ui.crossed /\ p.slot = ui.slot /\ p.slots = ui.slots
      /\ p.employee = ui.employee /\ p.service = ui.service
  BY <1>1 DEF AgendaOfType, Agenda!Page
<1>3. \/ ui' = Agenda!Saved(ui, TRUE) /\ net' = net \ {q}
      \/ /\ p.date = ui.date /\ ui' = p /\ net' = (net \ {q}) \cup {Agenda!LoadAgenda(p.date, rest)}
      \/ /\ p.date # ui.date /\ ui' = Agenda!SlotsEffect(Agenda!DateEffect(p))
         /\ net' = (net \ {q}) \cup {Agenda!LoadAgenda(p.date, rest)}
                   \cup ({Agenda!LoadAgenda(p.date, Agenda!Over)} \cup Agenda!SlotsEffectSends(p))
  BY DEF Agenda!AnswerMove
<1> HIDE DEF p
<1>4. ui'.date = p.date => MoveLoad = Agenda!LoadAgenda(p.date, rest)
  BY DEF MoveLoad
<1>5. CASE p.date = ui.date /\ ui' = p /\ net' = (net \ {q}) \cup {Agenda!LoadAgenda(p.date, rest)}
  BY <1>2, <1>4, <1>5, AgendaSameLookup
<1>6. CASE /\ ui' = Agenda!SlotsEffect(Agenda!DateEffect(p))
           /\ net' = (net \ {q}) \cup {Agenda!LoadAgenda(p.date, rest)}
                     \cup ({Agenda!LoadAgenda(p.date, Agenda!Over)} \cup Agenda!SlotsEffectSends(p))
  <2>1. /\ DateChanges /\ ui'.date = p.date /\ ui'.saving = p.saving /\ ui'.move = p.move
        /\ \A r \in Agenda!SlotsEffectSends(p) \cup {Agenda!LoadAgenda(p.date, Agenda!Over)} : 
              EffectLoad(r)
    BY <1>2, <1>6, AgendaBothEffects
  <2>2. \A r \in net' : r \in net \ {q} \/ EffectLoad(r) \/ r = MoveLoad
    BY <1>4, <1>6, <2>1
  <2> QED
    BY <1>2, <2>1, <2>2 DEF DateChanges
<1>7. QED
  BY <1>3, <1>5, <1>6

\* No request begins to save; one does; one goes on as another; one ends.
LEMMA AgendaNoSaver ==
    ASSUME AgendaSaves, ui'.saving = ui.saving, \A q \in net' : Agenda!Saves(q) => q \in net
    PROVE  AgendaSaves'
BY DEF AgendaSaves

LEMMA AgendaNewSaver ==
    ASSUME AgendaSaves, ~ui.saving, ui'.saving, 
           NEW new, \A q \in net' : Agenda!Saves(q) => q \in net \/ q = new
    PROVE  AgendaSaves'
BY DEF AgendaSaves

LEMMA AgendaNextSaver ==
    ASSUME AgendaSaves, ui'.saving = ui.saving, NEW q \in net,
           NEW new, Agenda!Saves(new) => Agenda!Saves(q), 
           \A r \in net' : Agenda!Saves(r) => r \in net \ {q} \/ r = new
    PROVE  AgendaSaves'
BY DEF AgendaSaves

LEMMA AgendaSaverEnds ==
    ASSUME AgendaSaves, NEW q \in net, ui'.saving <=> ui.saving /\ ~Agenda!Saves(q),
           \A r \in net' : Agenda!Saves(r) => r \in net \ {q}
    PROVE  AgendaSaves'
BY DEF AgendaSaves

LEMMA AgendaSavesOne == ASSUME AgendaOfType, AgendaSaves, Agenda!Next PROVE AgendaSaves'
<1>1. ASSUME NEW d \in Dates, Agenda!ChooseDate(d) PROVE AgendaSaves'
  BY <1>1, AgendaChooseDate, AgendaEffectLoad, AgendaNoSaver
<1>2. CASE Agenda!RefreshAgenda
  BY <1>2, AgendaLoadAgenda, AgendaOver, AgendaSavers, AgendaNoSaver
     DEF Agenda!RefreshAgenda, AgendaOfType, Agenda!Page
<1>3. ASSUME NEW x \in Professionals \cup {None}, Agenda!ChooseEmployee(x) PROVE AgendaSaves'
  <2> DEFINE p == [ui EXCEPT !.employee = x]
             e == Agenda!SlotsEffect(p)
             new == [op |-> "services", employee |-> x]
  <2>1. p \in Agenda!Page /\ p.saving = ui.saving
    BY DEF AgendaOfType, Agenda!Page
  <2>2. e \in Agenda!Page /\ e.saving = ui.saving
    BY <2>1, AgendaSlotsEffect
  <2>3. ui'.saving = ui.saving
    <3> HIDE DEF e
    <3>1. ui' = [e EXCEPT !.services = None, !.service = None, !.slots = None]
      BY <1>3 DEF Agenda!ChooseEmployee, e
    <3> QED
      BY <2>2, <3>1 DEF Agenda!Page
  <2>4. ~Agenda!Saves(new)
    BY AgendaSavers
  <2>5. \A q \in Agenda!SlotsEffectSends(p) : ~Agenda!Saves(q)
    BY <2>1, AgendaSends, AgendaSavers
  <2>6. \A q \in net' : q \in net \/ q \in Agenda!SlotsEffectSends(p) \/ q = new
    BY <1>3 DEF Agenda!ChooseEmployee
  <2> QED
    BY <2>3, <2>4, <2>5, <2>6, AgendaNoSaver
<1>4. ASSUME NEW s \in Offers \cup {None}, Agenda!ChooseService(s) PROVE AgendaSaves'
  <2> DEFINE p == [ui EXCEPT !.service = s]
  <2>1. p \in Agenda!Page /\ p.saving = ui.saving
    BY DEF AgendaOfType, Agenda!Page
  <2>2. ui'.saving = ui.saving
    BY <1>4, <2>1, AgendaSlotsEffect DEF Agenda!ChooseService
  <2>3. \A q \in net' : q \in net \/ ~Agenda!Saves(q)
    BY <1>4, <2>1, AgendaSends, AgendaSavers DEF Agenda!ChooseService
  <2> QED
    BY <2>2, <2>3, AgendaNoSaver
<1>5. CASE Agenda!ChooseSlot \/ Agenda!CloseReschedule \/ Agenda!ChooseMoveSlot
  BY <1>5, AgendaNoSaver DEF Agenda!ChooseSlot, Agenda!CloseReschedule, Agenda!ChooseMoveSlot, 
                             AgendaOfType, Agenda!Page
<1>6. CASE Agenda!HandleCreate \/ Agenda!HandleStatus \/ Agenda!HandleReschedule
  <2>1. ~ui.saving /\ ui'.saving /\ \E new : net' = net \cup {new}
    BY <1>6 DEF Agenda!HandleCreate, Agenda!HandleStatus, Agenda!HandleReschedule,
                AgendaOfType, Agenda!Page
  <2> QED
    BY <2>1, AgendaNewSaver
<1>7. CASE Agenda!HandleCancel
  <2> DEFINE new == [op |-> "cancel", date |-> ui.date, slot |-> None, 
                     rest |-> [slots |-> Agenda!LookupOf(ui), ends |-> FALSE], astray |-> FALSE]
  <2>1. new.op = "cancel" /\ ~new.rest.ends
    OBVIOUS
  <2>2. ui' = ui /\ net' = net \cup {new}
    BY <1>7 DEF Agenda!HandleCancel
  <2> HIDE DEF new
  <2> QED
    BY <2>1, <2>2, AgendaSavers, AgendaNoSaver
<1>8. ASSUME NEW l, Agenda!LoadMoveSlots(l) PROVE AgendaSaves'
  <2> DEFINE new == [op |-> "moveSlots", of |-> l]
  <2>1. ui'.saving = ui.saving /\ net' = net \cup {new}
    BY <1>8 DEF Agenda!LoadMoveSlots, AgendaOfType, Agenda!Page
  <2>2. ~Agenda!Saves(new)
    BY AgendaSavers
  <2> QED
    BY <2>1, <2>2, AgendaNoSaver
<1>9. ASSUME NEW q \in net, Agenda!AnswerList(q) PROVE AgendaSaves'
  <2> DEFINE done == [ui EXCEPT !.loading = FALSE, !.listed = q.date, !.failed = FALSE]
             fail == [ui EXCEPT !.loading = FALSE, !.failed = TRUE]
             new == Agenda!LoadSlots(q.rest.slots, q.rest.ends)
  <2>1. q.op = "list" /\ q.date \in Dates /\ q.rest.ends \in BOOLEAN
    BY <1>9, AgendaOfOp DEF AgendaOfType, Agenda!AnswerList, Agenda!Rest
  <2>2. done \in Agenda!Page /\ done.saving = ui.saving
    BY <2>1, AgendaListed DEF AgendaKeeps
  <2>3. fail \in Agenda!Page /\ fail.saving = ui.saving
    BY AgendaUnlisted DEF AgendaKeeps
  <2>4. PICK p \in {done, fail} :
           \/ /\ q.rest.slots # None /\ ui' = Agenda!ClearSlots(p) /\ net' = (net \ {q}) \cup {new}
           \/ q.rest.slots = None /\ ui' = Agenda!Saved(p, q.rest.ends) /\ net' = net \ {q}
    BY <1>9 DEF Agenda!AnswerList
  <2>5. Agenda!Saves(new) <=> Agenda!Saves(q)
    BY <2>1, AgendaLoadSlots, AgendaSavers
  <2>6. Agenda!Saves(q) <=> q.rest.ends
    BY <2>1, AgendaSavers
  <2> HIDE DEF done, fail, new
  <2>7. p \in Agenda!Page /\ p.saving = ui.saving
    BY <2>2, <2>3
  <2>8. CASE ui' = Agenda!ClearSlots(p) /\ net' = (net \ {q}) \cup {new}
    <3>1. ui'.saving = ui.saving
      BY <2>7, <2>8, AgendaClearSlots
    <3> QED
      BY <2>5, <2>8, <3>1, AgendaNextSaver
  <2>9. CASE ui' = Agenda!Saved(p, q.rest.ends) /\ net' = net \ {q}
    <3>1. ui'.saving <=> ui.saving /\ ~q.rest.ends
      BY <2>1, <2>7, <2>9, AgendaSaved
    <3> QED
      BY <2>6, <2>9, <3>1, AgendaSaverEnds
  <2> QED
    BY <2>4, <2>8, <2>9
<1>10. ASSUME NEW q \in net, Agenda!AnswerServices(q) \/ Agenda!AnswerMoveSlots(q) PROVE AgendaSaves'
  BY <1>10, AgendaNoSaver DEF Agenda!AnswerServices, Agenda!AnswerMoveSlots, AgendaOfType, Agenda!Page
<1>11. ASSUME NEW q \in net, Agenda!AnswerSlots(q) PROVE AgendaSaves'
  <2>1. q.op = "slots" /\ q.of \in Agenda!Lookup /\ q.ends \in BOOLEAN
    BY <1>11, AgendaOfOp DEF AgendaOfType, Agenda!AnswerSlots
  <2> DEFINE p == [ui EXCEPT !.slots = q.of]
  <2>2. p \in Agenda!Page /\ p.saving = ui.saving
    BY <2>1 DEF AgendaOfType, Agenda!Page
  <2>3. ui'.saving <=> ui.saving /\ ~q.ends
    <3>1. ui' = Agenda!Saved(p, q.ends) \/ ui' = Agenda!Saved(ui, q.ends)
      BY <1>11 DEF Agenda!AnswerSlots
    <3> HIDE DEF p
    <3> QED
      BY <2>1, <2>2, <3>1, AgendaSaved DEF AgendaOfType
  <2> QED
    BY <1>11, <2>1, <2>3, AgendaSavers, AgendaSaverEnds DEF Agenda!AnswerSlots
<1>12. ASSUME NEW q \in net, Agenda!AnswerWrite(q) PROVE AgendaSaves'
  <2> DEFINE new == Agenda!LoadAgenda(q.date, q.rest)
  <2>1. /\ q.op \in {"create", "status", "cancel"} /\ q.rest.ends \in BOOLEAN
        /\ Agenda!Saves(q) <=> q.rest.ends
    BY <1>12, AgendaOfOp, AgendaSavers DEF AgendaOfType, Agenda!AnswerWrite, Agenda!Rest
  <2>2. Agenda!Saves(new) <=> Agenda!Saves(q)
    BY <2>1, AgendaLoadAgenda, AgendaSavers
  <2> HIDE DEF new
  <2>3. CASE ui'.saving = ui.saving /\ net' = (net \ {q}) \cup {new}
    BY <2>2, <2>3, AgendaNextSaver
  <2>4. CASE ui' = Agenda!Saved(ui, q.rest.ends) /\ net' = net \ {q}
    <3>1. ui'.saving <=> ui.saving /\ ~q.rest.ends
      BY <2>1, <2>4, AgendaSaved DEF AgendaOfType
    <3> QED
      BY <2>1, <2>4, <3>1, AgendaSaverEnds
  <2> QED
    BY <1>12, <2>3, <2>4 DEF Agenda!AnswerWrite, AgendaOfType, Agenda!Page, new
<1>13. ASSUME NEW q \in net, Agenda!AnswerMove(q) PROVE AgendaSaves'
  <2>1. Agenda!Saves(q)
    BY <1>13, AgendaSavers DEF Agenda!AnswerMove
  <2>2. CASE ui' = Agenda!Saved(ui, TRUE) /\ net' = net \ {q}
    <3>1. ~ui'.saving
      BY <2>2, AgendaSaved DEF AgendaOfType
    <3> QED
      BY <2>1, <2>2, <3>1, AgendaSaverEnds
  <2>3. CASE ui'.saving = ui.saving /\ \A r \in net' : r \in net \ {q} \/ EffectLoad(r) \/ r = MoveLoad
    BY <2>1, <2>3, AgendaEffectLoad, AgendaNextSaver
  <2> QED
    BY <1>13, <2>2, <2>3, AgendaAnswerMove
<1>14. QED
  BY <1>1, <1>2, <1>3, <1>4, <1>5, <1>6, <1>7, <1>8, <1>9, <1>10, <1>11, <1>12, <1>13
     DEF Agenda!Next, Agenda!User, Agenda!Answer, Agenda!OpenReschedule, Agenda!ChooseMoveDate

\* Which requests bring a list, and which bring slots.
LEMMA AgendaBrings ==
    ASSUME NEW q
    PROVE  /\ Agenda!BringsList(q) <=> q.op \in {"list", "create", "status", "cancel"}
           /\ q.op \in {"services", "status", "moveSlots", "move"} => ~Agenda!BringsSlots(q)
           /\ q.op = "slots" => Agenda!BringsSlots(q) /\ BringsSlotsOf(q) = q.of
           /\ q.op \in {"list", "create", "cancel"} => 
                 (Agenda!BringsSlots(q) <=> q.rest.slots # None) /\ BringsSlotsOf(q) = q.rest.slots
BY DEF Agenda!BringsList, Agenda!BringsSlots, BringsSlotsOf

AgendaLists == Agenda!ListIsOfTheDate /\ ListsOfTheDate

\* The date stays, and what the lists that come are of.
LEMMA AgendaDateStays ==
    ASSUME AgendaLists, ui'.date = ui.date, ui'.overtaken = ui.overtaken,
           \A q \in net' : Agenda!BringsList(q) => 
              q.date = ui.date \/ \E r \in net : Agenda!BringsList(r) /\ q.date = r.date,
           \/ ui'.loading
           \/ ui'.failed 
           \/ ui'.listed = ui.listed /\ ui'.loading = ui.loading /\ ui'.failed = ui.failed
           \/ \E r \in net : Agenda!BringsList(r) /\ ui'.listed = r.date
    PROVE  AgendaLists'
BY DEF AgendaLists, Agenda!ListIsOfTheDate, ListsOfTheDate

LEMMA AgendaDateMoves ==
    ASSUME DateChanges, \A q \in net' : q \in net \/ EffectLoad(q) \/ q = MoveLoad
    PROVE  AgendaLists'
<1>1. MoveLoad.date = ui'.date
  BY AgendaLoadAgenda DEF MoveLoad
<1>2. QED
  BY <1>1, AgendaEffectLoad DEF DateChanges, AgendaLists, Agenda!ListIsOfTheDate, ListsOfTheDate

LEMMA AgendaListsNext == ASSUME AgendaOfType, AgendaLists, Agenda!Next PROVE AgendaLists'
<1>1. ASSUME NEW d \in Dates, Agenda!ChooseDate(d) PROVE AgendaLists'
  BY <1>1, AgendaChooseDate, AgendaDateMoves
<1>2. CASE Agenda!RefreshAgenda
  BY <1>2, AgendaLoadAgenda, AgendaDateStays DEF Agenda!RefreshAgenda, AgendaOfType, Agenda!Page
<1>3. ASSUME NEW x \in Professionals \cup {None}, Agenda!ChooseEmployee(x) PROVE AgendaLists'
  <2> DEFINE p == [ui EXCEPT !.employee = x]
             e == Agenda!SlotsEffect(p)
             new == [op |-> "services", employee |-> x]
  <2>1. /\ p \in Agenda!Page /\ p.date = ui.date /\ p.overtaken = ui.overtaken
        /\ p.loading = ui.loading /\ p.failed = ui.failed /\ p.listed = ui.listed
    BY DEF AgendaOfType, Agenda!Page
  <2>2. /\ e \in Agenda!Page /\ e.date = ui.date /\ e.overtaken = ui.overtaken
        /\ e.loading = ui.loading /\ e.failed = ui.failed /\ e.listed = ui.listed
    BY <2>1, AgendaSlotsEffect
  <2>3. UNCHANGED <<ui.date, ui.overtaken, ui.loading, ui.failed, ui.listed>>
    <3> HIDE DEF e
    <3>1. ui' = [e EXCEPT !.services = None, !.service = None, !.slots = None]
      BY <1>3 DEF Agenda!ChooseEmployee, e
    <3> QED
      BY <2>2, <3>1 DEF Agenda!Page
  <2>4. \A q \in Agenda!SlotsEffectSends(p) \cup {new} : ~Agenda!BringsList(q)
    BY <2>1, AgendaSends, AgendaBrings
  <2>5. \A q \in net' : q \in net \/ q \in Agenda!SlotsEffectSends(p) \cup {new}
    BY <1>3 DEF Agenda!ChooseEmployee
  <2> QED
    BY <2>3, <2>4, <2>5, AgendaDateStays
<1>4. ASSUME NEW s \in Offers \cup {None}, Agenda!ChooseService(s) PROVE AgendaLists'
  <2> DEFINE p == [ui EXCEPT !.service = s]
  <2>1. /\ p \in Agenda!Page /\ p.date = ui.date /\ p.overtaken = ui.overtaken
        /\ p.loading = ui.loading /\ p.failed = ui.failed /\ p.listed = ui.listed
    BY DEF AgendaOfType, Agenda!Page
  <2>2. UNCHANGED <<ui.date, ui.overtaken, ui.loading, ui.failed, ui.listed>>
    BY <1>4, <2>1, AgendaSlotsEffect DEF Agenda!ChooseService
  <2>3. \A q \in net' : q \in net \/ ~Agenda!BringsList(q)
    BY <1>4, <2>1, AgendaSends, AgendaBrings DEF Agenda!ChooseService
  <2> QED
    BY <2>2, <2>3, AgendaDateStays
<1>5. CASE Agenda!ChooseSlot \/ Agenda!CloseReschedule \/ Agenda!ChooseMoveSlot
  BY <1>5, AgendaDateStays DEF Agenda!ChooseSlot, Agenda!CloseReschedule, Agenda!ChooseMoveSlot, 
                               AgendaOfType, Agenda!Page
<1>6. CASE Agenda!HandleCreate \/ Agenda!HandleStatus \/ Agenda!HandleCancel
  <2>1. UNCHANGED <<ui.date, ui.overtaken, ui.loading, ui.failed, ui.listed>>
    BY <1>6 DEF Agenda!HandleCreate, Agenda!HandleStatus, Agenda!HandleCancel, AgendaOfType, Agenda!Page
  <2>2. \E new : new.date = ui.date /\ net' = net \cup {new}
    BY <1>6 DEF Agenda!HandleCreate, Agenda!HandleStatus, Agenda!HandleCancel
  <2> QED
    BY <2>1, <2>2, AgendaDateStays
<1>7. CASE Agenda!HandleReschedule
  <2> DEFINE new == [op |-> "move", of |-> ui.move, slot |-> ui.moveSlot, 
                     astray |-> ui.moveSlot # ui.move /\ ~ui.moveCrossed]
  <2>1. ~Agenda!BringsList(new)
    BY AgendaBrings
  <2>2. net' = net \cup {new} /\ UNCHANGED <<ui.date, ui.overtaken, ui.loading, ui.failed, ui.listed>>
    BY <1>7 DEF Agenda!HandleReschedule, AgendaOfType, Agenda!Page
  <2> HIDE DEF new
  <2> QED
    BY <2>1, <2>2, AgendaDateStays
<1>8. ASSUME NEW l, Agenda!LoadMoveSlots(l) PROVE AgendaLists'
  <2> DEFINE new == [op |-> "moveSlots", of |-> l]
  <2>1. ~Agenda!BringsList(new)
    BY AgendaBrings
  <2>2. net' = net \cup {new} /\ UNCHANGED <<ui.date, ui.overtaken, ui.loading, ui.failed, ui.listed>>
    BY <1>8 DEF Agenda!LoadMoveSlots, AgendaOfType, Agenda!Page
  <2> HIDE DEF new
  <2> QED
    BY <2>1, <2>2, AgendaDateStays
<1>9. ASSUME NEW q \in net, Agenda!AnswerList(q) PROVE AgendaLists'
  <2> DEFINE done == [ui EXCEPT !.loading = FALSE, !.listed = q.date, !.failed = FALSE]
             fail == [ui EXCEPT !.loading = FALSE, !.failed = TRUE]
             new == Agenda!LoadSlots(q.rest.slots, q.rest.ends)
  <2>1. q.op = "list" /\ q.date \in Dates /\ q.rest.ends \in BOOLEAN
    BY <1>9, AgendaOfOp DEF AgendaOfType, Agenda!AnswerList, Agenda!Rest
  <2>2. /\ done \in Agenda!Page /\ done.date = ui.date /\ done.overtaken = ui.overtaken 
        /\ done.listed = q.date
    BY <2>1, AgendaListed DEF AgendaKeeps
  <2>3. fail \in Agenda!Page /\ fail.date = ui.date /\ fail.overtaken = ui.overtaken /\ fail.failed
    BY AgendaUnlisted DEF AgendaKeeps
  <2>4. PICK p \in {done, fail} :
           /\ ui' \in {Agenda!ClearSlots(p), Agenda!Saved(p, q.rest.ends)}
           /\ net' \subseteq net \cup {new}
    BY <1>9 DEF Agenda!AnswerList
  <2>5. ~Agenda!BringsList(new) /\ Agenda!BringsList(q)
    BY <2>1, AgendaLoadSlots, AgendaBrings
  <2> HIDE DEF done, fail, new
  <2>6. /\ ui'.date = p.date /\ ui'.overtaken = p.overtaken 
        /\ ui'.listed = p.listed /\ ui'.failed = p.failed
    BY <2>1, <2>2, <2>3, <2>4, AgendaClearSlots, AgendaSaved
  <2> QED
    BY <2>2, <2>3, <2>4, <2>5, <2>6, AgendaDateStays
<1>10. ASSUME NEW q \in net, Agenda!AnswerServices(q) \/ Agenda!AnswerMoveSlots(q) PROVE AgendaLists'
  BY <1>10, AgendaDateStays DEF Agenda!AnswerServices, Agenda!AnswerMoveSlots, AgendaOfType, Agenda!Page
<1>11. ASSUME NEW q \in net, Agenda!AnswerSlots(q) PROVE AgendaLists'
  <2> DEFINE p == [ui EXCEPT !.slots = q.of]
  <2>1. q.of \in Agenda!Lookup /\ q.ends \in BOOLEAN
    BY <1>11, AgendaOfOp DEF AgendaOfType, Agenda!AnswerSlots
  <2>2. /\ p \in Agenda!Page /\ p.date = ui.date /\ p.overtaken = ui.overtaken
        /\ p.loading = ui.loading /\ p.failed = ui.failed /\ p.listed = ui.listed
    BY <2>1 DEF AgendaOfType, Agenda!Page
  <2>3. ui' \in {Agenda!Saved(p, q.ends), Agenda!Saved(ui, q.ends)} /\ net' \subseteq net
    BY <1>11 DEF Agenda!AnswerSlots
  <2> HIDE DEF p
  <2>4. UNCHANGED <<ui.date, ui.overtaken, ui.loading, ui.failed, ui.listed>>
    BY <2>1, <2>2, <2>3, AgendaSaved DEF AgendaOfType
  <2> QED
    BY <2>3, <2>4, AgendaDateStays
<1>12. ASSUME NEW q \in net, Agenda!AnswerWrite(q) PROVE AgendaLists'
  <2> DEFINE new == Agenda!LoadAgenda(q.date, q.rest)
  <2>1. Agenda!BringsList(q) /\ new.date = q.date /\ q.rest.ends \in BOOLEAN
    BY <1>12, AgendaOfOp, AgendaBrings, AgendaLoadAgenda 
       DEF AgendaOfType, Agenda!AnswerWrite, Agenda!Rest
  <2> HIDE DEF new
  <2>2. CASE ui' = Agenda!Saved(ui, q.rest.ends) /\ net' = net \ {q}
    <3>1. UNCHANGED <<ui.date, ui.overtaken, ui.loading, ui.failed, ui.listed>>
      BY <2>1, <2>2, AgendaSaved DEF AgendaOfType
    <3> QED
      BY <2>2, <3>1, AgendaDateStays
  <2>3. CASE /\ ui' = [ui EXCEPT !.slot = IF q.op = "create" THEN None ELSE @, !.loading = TRUE]
             /\ net' = (net \ {q}) \cup {new}
    <3>1. ui'.loading /\ UNCHANGED <<ui.date, ui.overtaken>>
      BY <2>3 DEF AgendaOfType, Agenda!Page
    <3> QED
      BY <2>1, <2>3, <3>1, AgendaDateStays
  <2> QED
    BY <1>12, <2>2, <2>3 DEF Agenda!AnswerWrite, new
<1>13. ASSUME NEW q \in net, Agenda!AnswerMove(q) PROVE AgendaLists'
  <2>1. MoveLoad.date = ui'.date
    BY AgendaLoadAgenda DEF MoveLoad
  <2>2. CASE ui' = Agenda!Saved(ui, TRUE) /\ net' = net \ {q}
    <3>1. UNCHANGED <<ui.date, ui.overtaken, ui.loading, ui.failed, ui.listed>>
      BY <2>2, AgendaSaved DEF AgendaOfType
    <3> QED
      BY <2>2, <3>1, AgendaDateStays
  <2>3. CASE DateChanges /\ \A r \in net' : r \in net \ {q} \/ EffectLoad(r) \/ r = MoveLoad
    BY <2>3, AgendaDateMoves
  <2>4. CASE /\ ui'.loading /\ UNCHANGED <<ui.date, ui.overtaken>> 
             /\ \A r \in net' : r \in net \ {q} \/ EffectLoad(r) \/ r = MoveLoad
    BY <2>1, <2>4, AgendaEffectLoad, AgendaDateStays
  <2> QED
    BY <1>13, <2>2, <2>3, <2>4, AgendaAnswerMove
<1>14. QED
  BY <1>1, <1>2, <1>3, <1>4, <1>5, <1>6, <1>7, <1>8, <1>9, <1>10, <1>11, <1>12, <1>13
     DEF Agenda!Next, Agenda!User, Agenda!Answer, Agenda!OpenReschedule, Agenda!ChooseMoveDate

\* Where the slots on show may come from.
SlotsToCome == {BringsSlotsOf(r) : r \in {q \in net : Agenda!BringsSlots(q)}}

CreateIsNotAstray == \A q \in net : q.op = "create" => ~q.astray

AgendaSlots == SlotsOfTheLookup /\ StatusBringsNoSlots /\ CreateIsNotAstray

\* The lookup stays, and what the slots that come are of.
LEMMA AgendaLookupStays ==
    ASSUME AgendaSlots, Agenda!LookupOf(ui') = Agenda!LookupOf(ui), ui'.crossed = ui.crossed, 
           ui'.slot \in {None, ui.slot, ui.slots}, ui'.slots \in {None, ui.slots} \cup SlotsToCome,
           \A q \in net' : \/ q \in net
                           \/ /\ q.op = "status" => q.rest.slots = None
                              /\ q.op = "create" => ~q.astray
                              /\ Agenda!BringsSlots(q) => 
                                    BringsSlotsOf(q) \in {Agenda!LookupOf(ui)} \cup SlotsToCome
    PROVE  AgendaSlots'
<1>1. StatusBringsNoSlots' /\ CreateIsNotAstray'
  BY DEF AgendaSlots, StatusBringsNoSlots, CreateIsNotAstray
<1>2. SlotsOfTheLookup'
  BY DEF AgendaSlots, SlotsOfTheLookup, SlotsToCome
<1>3. QED
  BY <1>1, <1>2 DEF AgendaSlots

\* The lookup changes: what is on its way is of it, unless something was before.
LEMMA AgendaLookupChanges ==
    ASSUME AgendaSlots, ui'.slots = None,
           Agenda!LookupOf(ui') # None => 
              ui'.slot = None /\ (ui'.crossed <=> \E q \in net : Agenda!BringsSlots(q)),
           \A q \in net' : \/ q \in net
                           \/ /\ q.op \notin {"status", "create"}
                              /\ Agenda!BringsSlots(q) => Agenda!LookupOf(ui') \in {None, BringsSlotsOf(q)}
    PROVE  AgendaSlots'
<1>1. StatusBringsNoSlots' /\ CreateIsNotAstray'
  BY DEF AgendaSlots, StatusBringsNoSlots, CreateIsNotAstray
<1>2. SlotsOfTheLookup'
  BY DEF SlotsOfTheLookup
<1>3. QED
  BY <1>1, <1>2 DEF AgendaSlots

LEMMA AgendaSlotsNext == ASSUME AgendaOfType, AgendaSlots, Agenda!Next PROVE AgendaSlots'
<1>1. ASSUME NEW d \in Dates, Agenda!ChooseDate(d) PROVE AgendaSlots'
  BY <1>1, AgendaChooseDate, AgendaEffectLoad, AgendaLookupChanges DEF DateChanges
<1>2. CASE Agenda!RefreshAgenda
  <2> DEFINE new == Agenda!LoadAgenda(ui.date, Agenda!Over)
  <2>1. new.op = "list" /\ ~Agenda!BringsSlots(new)
    BY AgendaLoadAgenda, AgendaOver, AgendaBrings
  <2>2. /\ UNCHANGED <<ui.crossed, ui.slot, ui.slots, ui.employee, ui.service, ui.date>>
        /\ net' = net \cup {new}
    BY <1>2 DEF Agenda!RefreshAgenda, AgendaOfType, Agenda!Page
  <2> HIDE DEF new
  <2> QED
    BY <2>1, <2>2, AgendaSameLookup, AgendaLookupStays
<1>3. ASSUME NEW x \in Professionals \cup {None}, Agenda!ChooseEmployee(x) PROVE AgendaSlots'
  <2> DEFINE p == [ui EXCEPT !.employee = x]
             e == Agenda!SlotsEffect(p)
             new == [op |-> "services", employee |-> x]
  <2>1. p \in Agenda!Page
    BY DEF AgendaOfType, Agenda!Page
  <2>2. e \in Agenda!Page
    BY <2>1, AgendaSlotsEffect
  <2>3. ui'.service = None /\ ui'.slots = None
    <3> HIDE DEF e
    <3>1. ui' = [e EXCEPT !.services = None, !.service = None, !.slots = None]
      BY <1>3 DEF Agenda!ChooseEmployee, e
    <3> QED
      BY <2>2, <3>1 DEF Agenda!Page
  <2>4. Agenda!LookupOf(ui') = None
    BY <2>3 DEF Agenda!LookupOf
  <2>5. \A q \in Agenda!SlotsEffectSends(p) \cup {new} : q.op \notin {"status", "create"}
    BY <2>1, AgendaSends
  <2>6. \A q \in net' : q \in net \/ q \in Agenda!SlotsEffectSends(p) \cup {new}
    BY <1>3 DEF Agenda!ChooseEmployee
  <2> QED
    BY <2>3, <2>4, <2>5, <2>6, AgendaLookupChanges
<1>4. ASSUME NEW s \in Offers \cup {None}, Agenda!ChooseService(s) PROVE AgendaSlots'
  <2> DEFINE p == [ui EXCEPT !.service = s]
  <2>1. p \in Agenda!Page
    BY DEF AgendaOfType, Agenda!Page
  <2>2. ui' = Agenda!SlotsEffect(p) /\ net' = net \cup Agenda!SlotsEffectSends(p)
    BY <1>4 DEF Agenda!ChooseService
  <2> HIDE DEF p
  <2>3. /\ ui'.slots = None /\ Agenda!LookupOf(ui') = Agenda!LookupOf(p)
        /\ Agenda!LookupOf(ui') # None => 
              ui'.slot = None /\ (ui'.crossed <=> \E q \in net : Agenda!BringsSlots(q))
    BY <2>1, <2>2, AgendaSlotsEffect
  <2>4. \A q \in Agenda!SlotsEffectSends(p) : 
           q.op = "slots" /\ BringsSlotsOf(q) = Agenda!LookupOf(ui')
    BY <2>1, <2>3, AgendaSends, AgendaBrings
  <2> QED
    BY <2>2, <2>3, <2>4, AgendaLookupChanges
<1>5. CASE Agenda!ChooseSlot \/ Agenda!CloseReschedule \/ Agenda!ChooseMoveSlot
  <2>1. /\ UNCHANGED <<ui.crossed, ui.slots, ui.employee, ui.service, ui.date>>
        /\ ui'.slot \in {ui.slot, ui.slots} /\ net' = net
    BY <1>5 DEF Agenda!ChooseSlot, Agenda!CloseReschedule, Agenda!ChooseMoveSlot, 
                AgendaOfType, Agenda!Page
  <2> QED
    BY <2>1, AgendaSameLookup, AgendaLookupStays
<1>6. CASE Agenda!HandleCreate \/ Agenda!HandleStatus \/ Agenda!HandleCancel
  <2>1. /\ UNCHANGED <<ui.crossed, ui.slot, ui.slots, ui.employee, ui.service, ui.date>>
    BY <1>6 DEF Agenda!HandleCreate, Agenda!HandleStatus, Agenda!HandleCancel, AgendaOfType, Agenda!Page
  <2>2. \E new : /\ net' = net \cup {new} /\ new.op \in {"create", "status", "cancel"}
                 /\ new.op = "status" => new.rest.slots = None
                 /\ new.op \in {"create", "cancel"} => new.rest.slots = Agenda!LookupOf(ui)
                 /\ new.op = "create" => ~new.astray
    <3>1. CASE Agenda!HandleCreate
      <4>1. ui.slot = Agenda!LookupOf(ui) \/ ui.crossed
        BY <3>1 DEF Agenda!HandleCreate, AgendaSlots, SlotsOfTheLookup
      <4> DEFINE new == [op |-> "create", date |-> ui.date, slot |-> ui.slot, 
                         rest |-> [slots |-> Agenda!LookupOf(ui), ends |-> TRUE],
                         astray |-> ui.slot # Agenda!LookupOf(ui) /\ ~ui.crossed]
      <4>2. new.op = "create" /\ new.rest.slots = Agenda!LookupOf(ui) /\ ~new.astray
        BY <4>1
      <4>3. net' = net \cup {new}
        BY <3>1 DEF Agenda!HandleCreate
      <4> HIDE DEF new
      <4> QED
        BY <4>2, <4>3
    <3>2. CASE Agenda!HandleStatus
      <4> DEFINE new == [op |-> "status", date |-> ui.date, slot |-> None, 
                         rest |-> [slots |-> None, ends |-> TRUE], astray |-> FALSE]
      <4>1. new.op = "status" /\ new.rest.slots = None
        OBVIOUS
      <4>2. net' = net \cup {new}
        BY <3>2 DEF Agenda!HandleStatus
      <4> HIDE DEF new
      <4> QED
        BY <4>1, <4>2
    <3>3. CASE Agenda!HandleCancel
      <4> DEFINE new == [op |-> "cancel", date |-> ui.date, slot |-> None, 
                         rest |-> [slots |-> Agenda!LookupOf(ui), ends |-> FALSE], astray |-> FALSE]
      <4>1. new.op = "cancel" /\ new.rest.slots = Agenda!LookupOf(ui)
        OBVIOUS
      <4>2. net' = net \cup {new}
        BY <3>3 DEF Agenda!HandleCancel
      <4> HIDE DEF new
      <4> QED
        BY <4>1, <4>2
    <3> QED
      BY <1>6, <3>1, <3>2, <3>3
  <2> QED
    BY <2>1, <2>2, AgendaBrings, AgendaSameLookup, AgendaLookupStays
<1>7. CASE Agenda!HandleReschedule
  <2> DEFINE new == [op |-> "move", of |-> ui.move, slot |-> ui.moveSlot, 
                     astray |-> ui.moveSlot # ui.move /\ ~ui.moveCrossed]
  <2>1. new.op = "move"
    OBVIOUS
  <2>2. /\ UNCHANGED <<ui.crossed, ui.slot, ui.slots, ui.employee, ui.service, ui.date>>
        /\ net' = net \cup {new}
    BY <1>7 DEF Agenda!HandleReschedule, AgendaOfType, Agenda!Page
  <2> HIDE DEF new
  <2> QED
    BY <2>1, <2>2, AgendaBrings, AgendaSameLookup, AgendaLookupStays
<1>8. ASSUME NEW l, Agenda!LoadMoveSlots(l) PROVE AgendaSlots'
  <2> DEFINE new == [op |-> "moveSlots", of |-> l]
  <2>1. new.op = "moveSlots"
    OBVIOUS
  <2>2. /\ UNCHANGED <<ui.crossed, ui.slot, ui.slots, ui.employee, ui.service, ui.date>>
        /\ net' = net \cup {new}
    BY <1>8 DEF Agenda!LoadMoveSlots, AgendaOfType, Agenda!Page
  <2> HIDE DEF new
  <2> QED
    BY <2>1, <2>2, AgendaBrings, AgendaSameLookup, AgendaLookupStays
<1>9. ASSUME NEW q \in net, Agenda!AnswerList(q) PROVE AgendaSlots'
  <2> DEFINE done == [ui EXCEPT !.loading = FALSE, !.listed = q.date, !.failed = FALSE]
             fail == [ui EXCEPT !.loading = FALSE, !.failed = TRUE]
             new == Agenda!LoadSlots(q.rest.slots, q.rest.ends)
  <2>1. q.op = "list" /\ q.date \in Dates /\ q.rest.ends \in BOOLEAN
    BY <1>9, AgendaOfOp DEF AgendaOfType, Agenda!AnswerList, Agenda!Rest
  <2>2. /\ done \in Agenda!Page /\ done.crossed = ui.crossed /\ done.slot = ui.slot 
        /\ done.slots = ui.slots
        /\ done.employee = ui.employee /\ done.service = ui.service /\ done.date = ui.date
    BY <2>1, AgendaListed DEF AgendaKeeps
  <2>3. /\ fail \in Agenda!Page /\ fail.crossed = ui.crossed /\ fail.slot = ui.slot
        /\ fail.slots = ui.slots
        /\ fail.employee = ui.employee /\ fail.service = ui.service /\ fail.date = ui.date
    BY AgendaUnlisted DEF AgendaKeeps
  <2>4. PICK p \in {done, fail} :
           /\ ui' \in {Agenda!ClearSlots(p), Agenda!Saved(p, q.rest.ends)}
           /\ \A r \in net' : r \in net \/ (r = new /\ q.rest.slots # None)
    BY <1>9 DEF Agenda!AnswerList
  <2>5. new.op = "slots" /\ BringsSlotsOf(new) = q.rest.slots
    BY AgendaLoadSlots, AgendaBrings
  <2>6. q.rest.slots # None => Agenda!BringsSlots(q) /\ BringsSlotsOf(q) = q.rest.slots
    BY <2>1, AgendaBrings
  <2> HIDE DEF done, fail, new
  <2>7. /\ p \in Agenda!Page /\ p.crossed = ui.crossed /\ p.slot = ui.slot /\ p.slots = ui.slots
        /\ Agenda!LookupOf(p) = Agenda!LookupOf(ui)
    BY <2>2, <2>3, AgendaSameLookup
  <2>8. /\ ui'.crossed = ui.crossed /\ ui'.slot \in {None, ui.slot} /\ ui'.slots \in {None, ui.slots}
        /\ Agenda!LookupOf(ui') = Agenda!LookupOf(ui)
    BY <2>1, <2>4, <2>7, AgendaClearSlots, AgendaSaved
  <2>9. q.rest.slots # None => q.rest.slots \in SlotsToCome
    BY <2>6 DEF SlotsToCome
  <2> QED
    BY <2>4, <2>5, <2>8, <2>9, AgendaLookupStays
<1>10. ASSUME NEW q \in net, Agenda!AnswerServices(q) \/ Agenda!AnswerMoveSlots(q) PROVE AgendaSlots'
  <2>1. /\ UNCHANGED <<ui.crossed, ui.slot, ui.slots, ui.employee, ui.service, ui.date>>
        /\ net' \subseteq net
    BY <1>10 DEF Agenda!AnswerServices, Agenda!AnswerMoveSlots, AgendaOfType, Agenda!Page
  <2> QED
    BY <2>1, AgendaSameLookup, AgendaLookupStays
<1>11. ASSUME NEW q \in net, Agenda!AnswerSlots(q) PROVE AgendaSlots'
  <2> DEFINE p == [ui EXCEPT !.slots = q.of]
  <2>1. q.op = "slots" /\ q.of \in Agenda!Lookup /\ q.ends \in BOOLEAN
    BY <1>11, AgendaOfOp DEF AgendaOfType, Agenda!AnswerSlots
  <2>2. /\ p \in Agenda!Page /\ p.crossed = ui.crossed /\ p.slot = ui.slot /\ p.slots = q.of
        /\ p.employee = ui.employee /\ p.service = ui.service /\ p.date = ui.date
    BY <2>1 DEF AgendaOfType, Agenda!Page
  <2>3. ui' \in {Agenda!Saved(p, q.ends), Agenda!Saved(ui, q.ends)} /\ net' \subseteq net
    BY <1>11 DEF Agenda!AnswerSlots
  <2> HIDE DEF p
  <2>4. q.of \in SlotsToCome
    BY <2>1, AgendaBrings DEF SlotsToCome
  <2>5. Agenda!LookupOf(p) = Agenda!LookupOf(ui)
    BY <2>2, AgendaSameLookup
  <2>6. /\ ui'.crossed = ui.crossed /\ ui'.slot = ui.slot /\ ui'.slots \in {q.of, ui.slots}
        /\ Agenda!LookupOf(ui') = Agenda!LookupOf(ui)
    BY <2>1, <2>2, <2>3, <2>5, AgendaSaved DEF AgendaOfType
  <2> QED
    BY <2>3, <2>4, <2>6, AgendaLookupStays
<1>12. ASSUME NEW q \in net, Agenda!AnswerWrite(q) PROVE AgendaSlots'
  <2> DEFINE new == Agenda!LoadAgenda(q.date, q.rest)
  <2>1. q.op \in {"create", "status", "cancel"} /\ q.rest.ends \in BOOLEAN
    BY <1>12, AgendaOfOp DEF AgendaOfType, Agenda!AnswerWrite, Agenda!Rest
  <2>2. new.op = "list" /\ new.rest = q.rest
    BY AgendaLoadAgenda
  <2> HIDE DEF new
  <2>3. Agenda!BringsSlots(new) => BringsSlotsOf(new) \in SlotsToCome
    <3> SUFFICES ASSUME Agenda!BringsSlots(new) PROVE BringsSlotsOf(new) \in SlotsToCome
      OBVIOUS
    <3>1. q.rest.slots # None /\ BringsSlotsOf(new) = q.rest.slots
      BY <2>2, AgendaBrings
    <3>2. q.op \in {"create", "cancel"}
      BY <2>1, <3>1 DEF AgendaSlots, StatusBringsNoSlots
    <3> QED
      BY <3>1, <3>2, AgendaBrings DEF SlotsToCome
  <2>4. CASE ui' = Agenda!Saved(ui, q.rest.ends) /\ net' = net \ {q}
    <3>1. /\ UNCHANGED <<ui.crossed, ui.slot, ui.slots>>
          /\ Agenda!LookupOf(ui') = Agenda!LookupOf(ui)
      BY <2>1, <2>4, AgendaSaved DEF AgendaOfType
    <3> QED
      BY <2>4, <3>1, AgendaLookupStays
  <2>5. CASE /\ ui' = [ui EXCEPT !.slot = IF q.op = "create" THEN None ELSE @, !.loading = TRUE]
             /\ net' = (net \ {q}) \cup {new}
    <3>1. /\ UNCHANGED <<ui.crossed, ui.slots, ui.employee, ui.service, ui.date>>
          /\ ui'.slot \in {None, ui.slot}
      BY <2>5 DEF AgendaOfType, Agenda!Page
    <3> QED
      BY <2>2, <2>3, <2>5, <3>1, AgendaSameLookup, AgendaLookupStays
  <2> QED
    BY <1>12, <2>4, <2>5 DEF Agenda!AnswerWrite, new
<1>13. ASSUME NEW q \in net, Agenda!AnswerMove(q) PROVE AgendaSlots'
  <2>1. MoveLoad.op = "list" /\ ~Agenda!BringsSlots(MoveLoad)
    <3>1. MoveLoad.op = "list" /\ MoveLoad.rest.slots = None
      BY AgendaLoadAgenda DEF MoveLoad
    <3> QED
      BY <3>1, AgendaBrings
  <2>2. CASE ui' = Agenda!Saved(ui, TRUE) /\ net' = net \ {q}
    <3>1. /\ UNCHANGED <<ui.crossed, ui.slot, ui.slots>>
          /\ Agenda!LookupOf(ui') = Agenda!LookupOf(ui)
      BY <2>2, AgendaSaved DEF AgendaOfType
    <3> QED
      BY <2>2, <3>1, AgendaLookupStays
  <2>3. CASE DateChanges /\ \A r \in net' : r \in net \ {q} \/ EffectLoad(r) \/ r = MoveLoad
    BY <2>1, <2>3, AgendaEffectLoad, AgendaLookupChanges DEF DateChanges
  <2>4. CASE /\ UNCHANGED <<ui.crossed, ui.slot, ui.slots>>
             /\ Agenda!LookupOf(ui') = Agenda!LookupOf(ui)
             /\ \A r \in net' : r \in net \ {q} \/ EffectLoad(r) \/ r = MoveLoad
    BY <2>1, <2>4, AgendaEffectLoad, AgendaLookupStays
  <2> QED
    BY <1>13, <2>2, <2>3, <2>4, AgendaAnswerMove
<1>14. QED
  BY <1>1, <1>2, <1>3, <1>4, <1>5, <1>6, <1>7, <1>8, <1>9, <1>10, <1>11, <1>12, <1>13
     DEF Agenda!Next, Agenda!User, Agenda!Answer, Agenda!OpenReschedule, Agenda!ChooseMoveDate

MoveIsNotAstray == \A q \in net : q.op = "move" => ~q.astray

AgendaMoves == SlotsOfTheSection /\ MoveIsNotAstray

\* The section, and the slots that come, stay; or the section is closed.
LEMMA AgendaSectionStays ==
    ASSUME AgendaMoves, ui'.move \in {None, ui.move}, ui'.moveCrossed = ui.moveCrossed,
           ui'.moveSlot \in {None, ui.moveSlot, ui.moveSlots}, 
           \/ ui'.moveSlots = ui.moveSlots
           \/ \E r \in net : r.op = "moveSlots" /\ ui'.moveSlots = r.of,
           \A q \in net' : q \in net \/ q.op \notin {"move", "moveSlots"}
    PROVE  AgendaMoves'
BY DEF AgendaMoves, SlotsOfTheSection, MoveIsNotAstray

LEMMA AgendaMovesNext == ASSUME AgendaOfType, AgendaMoves, Agenda!Next PROVE AgendaMoves'
<1>1. ASSUME NEW d \in Dates, Agenda!ChooseDate(d) PROVE AgendaMoves'
  BY <1>1, AgendaChooseDate, AgendaEffectLoad, AgendaSectionStays
<1>2. CASE Agenda!RefreshAgenda
  BY <1>2, AgendaLoadAgenda, AgendaSectionStays DEF Agenda!RefreshAgenda, AgendaOfType, Agenda!Page
<1>3. ASSUME NEW x \in Professionals \cup {None}, Agenda!ChooseEmployee(x) PROVE AgendaMoves'
  <2> DEFINE p == [ui EXCEPT !.employee = x]
             e == Agenda!SlotsEffect(p)
             new == [op |-> "services", employee |-> x]
  <2>1. /\ p \in Agenda!Page /\ p.move = ui.move /\ p.moveCrossed = ui.moveCrossed
        /\ p.moveSlot = ui.moveSlot /\ p.moveSlots = ui.moveSlots
    BY DEF AgendaOfType, Agenda!Page
  <2>2. /\ e \in Agenda!Page /\ e.move = ui.move /\ e.moveCrossed = ui.moveCrossed
        /\ e.moveSlot = ui.moveSlot /\ e.moveSlots = ui.moveSlots
    BY <2>1, AgendaSlotsEffect
  <2>3. UNCHANGED <<ui.move, ui.moveCrossed, ui.moveSlot, ui.moveSlots>>
    <3> HIDE DEF e
    <3>1. ui' = [e EXCEPT !.services = None, !.service = None, !.slots = None]
      BY <1>3 DEF Agenda!ChooseEmployee, e
    <3> QED
      BY <2>2, <3>1 DEF Agenda!Page
  <2>4. \A q \in Agenda!SlotsEffectSends(p) \cup {new} : q.op \notin {"move", "moveSlots"}
    BY <2>1, AgendaSends
  <2>5. \A q \in net' : q \in net \/ q \in Agenda!SlotsEffectSends(p) \cup {new}
    BY <1>3 DEF Agenda!ChooseEmployee
  <2> QED
    BY <2>3, <2>4, <2>5, AgendaSectionStays
<1>4. ASSUME NEW s \in Offers \cup {None}, Agenda!ChooseService(s) PROVE AgendaMoves'
  <2> DEFINE p == [ui EXCEPT !.service = s]
  <2>1. /\ p \in Agenda!Page /\ p.move = ui.move /\ p.moveCrossed = ui.moveCrossed
        /\ p.moveSlot = ui.moveSlot /\ p.moveSlots = ui.moveSlots
    BY DEF AgendaOfType, Agenda!Page
  <2>2. UNCHANGED <<ui.move, ui.moveCrossed, ui.moveSlot, ui.moveSlots>>
    BY <1>4, <2>1, AgendaSlotsEffect DEF Agenda!ChooseService
  <2>3. \A q \in net' : q \in net \/ q.op = "slots"
    BY <1>4, <2>1, AgendaSends DEF Agenda!ChooseService
  <2> QED
    BY <2>2, <2>3, AgendaSectionStays
<1>5. CASE Agenda!ChooseSlot \/ Agenda!CloseReschedule \/ Agenda!ChooseMoveSlot
  BY <1>5, AgendaSectionStays DEF Agenda!ChooseSlot, Agenda!CloseReschedule, Agenda!ChooseMoveSlot, 
                                  AgendaOfType, Agenda!Page
<1>6. CASE Agenda!HandleCreate \/ Agenda!HandleStatus \/ Agenda!HandleCancel
  <2>1. UNCHANGED <<ui.move, ui.moveCrossed, ui.moveSlot, ui.moveSlots>>
    BY <1>6 DEF Agenda!HandleCreate, Agenda!HandleStatus, Agenda!HandleCancel, AgendaOfType, Agenda!Page
  <2>2. \E new : new.op \notin {"move", "moveSlots"} /\ net' = net \cup {new}
    BY <1>6 DEF Agenda!HandleCreate, Agenda!HandleStatus, Agenda!HandleCancel
  <2> QED
    BY <2>1, <2>2, AgendaSectionStays
<1>7. CASE Agenda!HandleReschedule
  <2> DEFINE new == [op |-> "move", of |-> ui.move, slot |-> ui.moveSlot, 
                     astray |-> ui.moveSlot # ui.move /\ ~ui.moveCrossed]
  <2>1. new.op = "move" /\ ~new.astray
    BY <1>7 DEF Agenda!HandleReschedule, AgendaMoves, SlotsOfTheSection
  <2>2. /\ UNCHANGED <<ui.move, ui.moveCrossed, ui.moveSlot, ui.moveSlots>>
        /\ net' = net \cup {new}
    BY <1>7 DEF Agenda!HandleReschedule, AgendaOfType, Agenda!Page
  <2> HIDE DEF new
  <2> QED
    BY <2>1, <2>2 DEF AgendaMoves, SlotsOfTheSection, MoveIsNotAstray
<1>8. ASSUME NEW l, Agenda!LoadMoveSlots(l) PROVE AgendaMoves'
  <2> DEFINE new == [op |-> "moveSlots", of |-> l]
             crossed == Agenda!InFlight({"moveSlots"}) # {}
  <2>1. new.op = "moveSlots" /\ new.of = l
    OBVIOUS
  <2>2. crossed <=> \E q \in net : q.op = "moveSlots"
    BY DEF Agenda!InFlight
  <2>3. /\ ui'.move = l /\ ui'.moveSlots = None /\ ui'.moveSlot = None /\ ui'.moveCrossed = crossed
        /\ net' = net \cup {new}
    BY <1>8 DEF Agenda!LoadMoveSlots, AgendaOfType, Agenda!Page
  <2> HIDE DEF new, crossed
  <2> QED
    BY <2>1, <2>2, <2>3 DEF AgendaMoves, SlotsOfTheSection, MoveIsNotAstray
<1>9. ASSUME NEW q \in net, Agenda!AnswerList(q) PROVE AgendaMoves'
  <2> DEFINE done == [ui EXCEPT !.loading = FALSE, !.listed = q.date, !.failed = FALSE]
             fail == [ui EXCEPT !.loading = FALSE, !.failed = TRUE]
             new == Agenda!LoadSlots(q.rest.slots, q.rest.ends)
  <2>1. q.op = "list" /\ q.date \in Dates /\ q.rest.ends \in BOOLEAN
    BY <1>9, AgendaOfOp DEF AgendaOfType, Agenda!AnswerList, Agenda!Rest
  <2>2. /\ done \in Agenda!Page /\ done.move = ui.move /\ done.moveCrossed = ui.moveCrossed
        /\ done.moveSlot = ui.moveSlot /\ done.moveSlots = ui.moveSlots
    BY <2>1, AgendaListed DEF AgendaKeeps
  <2>3. /\ fail \in Agenda!Page /\ fail.move = ui.move /\ fail.moveCrossed = ui.moveCrossed
        /\ fail.moveSlot = ui.moveSlot /\ fail.moveSlots = ui.moveSlots
    BY AgendaUnlisted DEF AgendaKeeps
  <2>4. PICK p \in {done, fail} :
           /\ ui' \in {Agenda!ClearSlots(p), Agenda!Saved(p, q.rest.ends)}
           /\ net' \subseteq net \cup {new}
    BY <1>9 DEF Agenda!AnswerList
  <2>5. new.op = "slots"
    BY AgendaLoadSlots
  <2> HIDE DEF done, fail, new
  <2>6. UNCHANGED <<ui.move, ui.moveCrossed, ui.moveSlot, ui.moveSlots>>
    BY <2>1, <2>2, <2>3, <2>4, AgendaClearSlots, AgendaSaved
  <2> QED
    BY <2>4, <2>5, <2>6, AgendaSectionStays
<1>10. ASSUME NEW q \in net, Agenda!AnswerServices(q) \/ Agenda!AnswerMoveSlots(q) PROVE AgendaMoves'
  BY <1>10, AgendaSectionStays DEF Agenda!AnswerServices, Agenda!AnswerMoveSlots, 
                                   AgendaOfType, Agenda!Page
<1>11. ASSUME NEW q \in net, Agenda!AnswerSlots(q) PROVE AgendaMoves'
  <2> DEFINE p == [ui EXCEPT !.slots = q.of]
  <2>1. q.of \in Agenda!Lookup /\ q.ends \in BOOLEAN
    BY <1>11, AgendaOfOp DEF AgendaOfType, Agenda!AnswerSlots
  <2>2. /\ p \in Agenda!Page /\ p.move = ui.move /\ p.moveCrossed = ui.moveCrossed
        /\ p.moveSlot = ui.moveSlot /\ p.moveSlots = ui.moveSlots
    BY <2>1 DEF AgendaOfType, Agenda!Page
  <2>3. ui' \in {Agenda!Saved(p, q.ends), Agenda!Saved(ui, q.ends)} /\ net' \subseteq net
    BY <1>11 DEF Agenda!AnswerSlots
  <2> HIDE DEF p
  <2>4. UNCHANGED <<ui.move, ui.moveCrossed, ui.moveSlot, ui.moveSlots>>
    BY <2>1, <2>2, <2>3, AgendaSaved DEF AgendaOfType
  <2> QED
    BY <2>3, <2>4, AgendaSectionStays
<1>12. ASSUME NEW q \in net, Agenda!AnswerWrite(q) PROVE AgendaMoves'
  <2>1. q.rest.ends \in BOOLEAN
    BY <1>12, AgendaOfOp DEF AgendaOfType, Agenda!AnswerWrite, Agenda!Rest
  <2>2. UNCHANGED <<ui.move, ui.moveCrossed, ui.moveSlot, ui.moveSlots>>
    <3>1. CASE ui' = Agenda!Saved(ui, q.rest.ends)
      BY <2>1, <3>1, AgendaSaved DEF AgendaOfType
    <3>2. CASE ui' = [ui EXCEPT !.slot = IF q.op = "create" THEN None ELSE @, !.loading = TRUE]
      BY <3>2 DEF AgendaOfType, Agenda!Page
    <3> QED
      BY <1>12, <3>1, <3>2 DEF Agenda!AnswerWrite
  <2>3. net' \subseteq net \cup {Agenda!LoadAgenda(q.date, q.rest)}
    BY <1>12 DEF Agenda!AnswerWrite
  <2> QED
    BY <2>2, <2>3, AgendaLoadAgenda, AgendaSectionStays
<1>13. ASSUME NEW q \in net, Agenda!AnswerMove(q) PROVE AgendaMoves'
  <2>1. MoveLoad.op = "list"
    BY AgendaLoadAgenda DEF MoveLoad
  <2>2. CASE ui' = Agenda!Saved(ui, TRUE) /\ net' = net \ {q}
    <3>1. UNCHANGED <<ui.move, ui.moveCrossed, ui.moveSlot, ui.moveSlots>>
      BY <2>2, AgendaSaved DEF AgendaOfType
    <3> QED
      BY <2>2, <3>1, AgendaSectionStays
  <2>3. CASE ui'.move = None /\ \A r \in net' : r \in net \ {q} \/ EffectLoad(r) \/ r = MoveLoad
    BY <2>1, <2>3, AgendaEffectLoad DEF AgendaMoves, SlotsOfTheSection, MoveIsNotAstray
  <2> QED
    BY <1>13, <2>2, <2>3, AgendaAnswerMove
<1>14. QED
  BY <1>1, <1>2, <1>3, <1>4, <1>5, <1>6, <1>7, <1>8, <1>9, <1>10, <1>11, <1>12, <1>13
     DEF Agenda!Next, Agenda!User, Agenda!Answer, Agenda!OpenReschedule, Agenda!ChooseMoveDate

LEMMA AgendaInit == ASSUME Agenda!Init PROVE AgendaInv
BY DEF Agenda!Init, AgendaInv, AgendaOfType, Agenda!Page, AgendaSaves, Agenda!ListIsOfTheDate,
       ListsOfTheDate, SlotsOfTheLookup, SlotsOfTheSection, StatusBringsNoSlots, 
       Agenda!SlotsAreOfTheForm, Agenda!InFlight

LEMMA AgendaNext == ASSUME AgendaInv, Agenda!Next PROVE AgendaInv'
<1>1. AgendaLists /\ AgendaSlots /\ AgendaMoves /\ AgendaOfType /\ AgendaSaves
  BY DEF AgendaInv, AgendaLists, AgendaSlots, AgendaMoves, CreateIsNotAstray, MoveIsNotAstray, 
         Agenda!SlotsAreOfTheForm, Agenda!InFlight
<1>2. AgendaLists' /\ AgendaSlots' /\ AgendaMoves' /\ AgendaOfType' /\ AgendaSaves'
  BY <1>1, AgendaType, AgendaSavesOne, AgendaListsNext, AgendaSlotsNext, AgendaMovesNext
<1>3. Agenda!SlotsAreOfTheForm'
  BY <1>2 DEF AgendaSlots, AgendaMoves, CreateIsNotAstray, MoveIsNotAstray, 
              Agenda!SlotsAreOfTheForm, Agenda!InFlight
<1>4. QED
  BY <1>2, <1>3 DEF AgendaInv, AgendaLists, AgendaSlots, AgendaMoves

LEMMA AgendaCardinality == ASSUME NEW S PROVE Agenda!Cardinality(S) = Cardinality(S)
BY DEF Agenda!Cardinality, Cardinality

LEMMA AgendaTypeOK == ASSUME AgendaInv PROVE Agenda!TypeOK
<1> DEFINE saving == {q \in net : Agenda!Saves(q)}
<1>1. saving = {} \/ \E q : saving = {q}
  BY DEF AgendaInv, AgendaSaves
<1>2. ui.saving \/ saving = {}
  BY DEF AgendaInv, AgendaSaves
<1> HIDE DEF saving
<1>3. Cardinality(saving) <= IF ui.saving THEN 1 ELSE 0
  <2>1. CASE saving = {}
    BY <2>1, FS_EmptySet
  <2>2. ASSUME NEW q, saving = {q} PROVE Cardinality(saving) <= IF ui.saving THEN 1 ELSE 0
    <3>1. Cardinality(saving) = 1 /\ ui.saving
      BY <1>2, <2>2, FS_Singleton
    <3> QED
      BY <3>1
  <2> QED
    BY <1>1, <2>1, <2>2
<1> USE DEF saving
<1>4. QED
  BY <1>3, AgendaCardinality DEF AgendaInv, AgendaOfType, Agenda!TypeOK

----------------------------------------------------------------------------
(* The hours *)

WeekOfType == 
    /\ ui \in Week!Page /\ db \in Week!Database
    /\ net \subseteq Week!PutRequest \cup Week!PostRequest \cup Week!DeleteRequest \cup Week!ListRequest

WeekSaves ==
    /\ ui.saving <=> \E q \in net : Week!Saves(q)
    /\ \A q, r \in net : Week!Saves(q) /\ Week!Saves(r) => q = r

\* What the form would store for a day.
ToStore(d) == IF ui.schedule[d].enabled THEN ui.schedule[d].intervals ELSE {}

\* On a day nobody has changed, the form and a request to save it hold what is stored.
DaysAsStored == ~ui.failed =>
    /\ \A d \in Days : d \in ui.edited \cup db.others \/ ToStore(d) = db.rules[d]
    /\ \A q \in net : q.op = "put" => q.edited \subseteq ui.edited
    /\ \A q \in net : q.op = "put" /\ q.answer = "none" => 
          \A d \in Days : d \in q.edited \cup db.others \/ q.hours[d] = db.rules[d]

\* An id is used once; what the page or an answer said is removed is removed.
RemovedForGood ==
    /\ db.blocked \subseteq db.used /\ ui.gone \subseteq db.used \ db.blocked
    /\ \A q \in net : q.op = "delete" /\ q.answer = "ok" => q.block \in db.used \ db.blocked
    
\* A list that was read while none other was under way shows nothing that was removed before.
ListsWithoutGone == ~ui.crossed => 
    /\ \A q, r \in Week!Lists : q = r
    /\ \A q \in Week!Lists : q.answer = "ok" => q.seen \cap ui.gone = {}

PostsConverted == \A q \in net : q.op = "post" => q.at = Week!ZonedLocalToIso(SessionZone, q.local)

WeekInv ==
    /\ WeekOfType /\ WeekSaves /\ DaysAsStored /\ RemovedForGood /\ ListsWithoutGone
    /\ Week!RemovedStaysAway /\ PostsConverted

\* Away from a change of the clocks, the instant a wall-clock time is converted to is the one
\* at which they show it.
LEMMA WeekClock ==
    ASSUME NEW z \in [before : Int, after : Int, change : Int], NEW local \in Int, 
           Week!Steady(z, local)
    PROVE  Week!Clock(z, Week!ZonedLocalToIso(z, local)) = local
<1> DEFINE iso == Week!ZonedLocalToIso(z, local)
<1>1. /\ (local + z.before < z.change) = (local + -z.before < z.change)
      /\ (local + z.after < z.change) = (local + -z.after < z.change)
  BY DEF Week!Steady
<1>2. CASE local < z.change
  <2>1. iso = local - z.before
    BY <1>2 DEF Week!ZonedLocalToIso, Week!Clock
  <2>2. iso < z.change
    BY <1>1, <1>2, <2>1
  <2> QED
    BY <2>1, <2>2 DEF Week!Clock
<1>3. CASE ~(local < z.change)
  <2>1. iso = local - z.after
    BY <1>3 DEF Week!ZonedLocalToIso, Week!Clock
  <2>2. ~(iso < z.change)
    BY <1>1, <1>3, <2>1
  <2> QED
    BY <2>1, <2>2 DEF Week!Clock
<1>4. QED
  BY <1>2, <1>3

WeekRequest == Week!PutRequest \cup Week!PostRequest \cup Week!DeleteRequest \cup Week!ListRequest

\* What the requests of each kind carry.
LEMMA WeekOfOp ==
    ASSUME NEW q \in WeekRequest
    PROVE  /\ q.op \in {"put", "post", "delete", "list"} /\ q.answer \in Week!Answers
           /\ q.op = "put" => q.hours \in Week!Hours /\ q.edited \subseteq Days
           /\ q.op = "post" => q.at \in Int /\ q.local \in Times
           /\ q.op = "delete" => q.block \in Blocks
           /\ q.op = "list" => q.ends \in BOOLEAN /\ q.of \subseteq Blocks /\ q.seen \subseteq Blocks
<1>1. CASE q \in Week!PutRequest
  BY <1>1 DEF Week!PutRequest
<1>2. CASE q \in Week!PostRequest
  BY <1>2 DEF Week!PostRequest
<1>3. CASE q \in Week!DeleteRequest
  BY <1>3 DEF Week!DeleteRequest
<1>4. CASE q \in Week!ListRequest
  BY <1>4 DEF Week!ListRequest
<1>5. QED
  BY <1>1, <1>2, <1>3, <1>4 DEF WeekRequest

\* An answer changes nothing else of a request.
LEMMA WeekAnswered ==
    ASSUME NEW q \in WeekRequest, NEW answer \in Week!Answers
    PROVE  LET new == [q EXCEPT !.answer = answer] IN
           /\ new \in WeekRequest /\ new.op = q.op /\ new.answer = answer
           /\ q.op = "put" => new.hours = q.hours /\ new.edited = q.edited
           /\ q.op = "post" => new.at = q.at /\ new.local = q.local
           /\ q.op = "delete" => new.block = q.block
           /\ q.op = "list" => new.ends = q.ends /\ new.seen = q.seen
<1>1. CASE q \in Week!PutRequest
  BY <1>1 DEF Week!PutRequest, WeekRequest
<1>2. CASE q \in Week!PostRequest
  BY <1>2 DEF Week!PostRequest, WeekRequest
<1>3. CASE q \in Week!DeleteRequest
  BY <1>3 DEF Week!DeleteRequest, WeekRequest
<1>4. CASE q \in Week!ListRequest
  BY <1>4 DEF Week!ListRequest, WeekRequest
<1>5. QED
  BY <1>1, <1>2, <1>3, <1>4 DEF WeekRequest

\* A list that was read.
LEMMA WeekRead ==
    ASSUME NEW q \in WeekRequest, q.op = "list", NEW seen \in SUBSET Blocks
    PROVE  LET new == [q EXCEPT !.answer = "ok", !.seen = seen] IN
           /\ new \in WeekRequest /\ new.op = "list" /\ new.answer = "ok" 
           /\ new.ends = q.ends /\ new.seen = seen
<1>1. q \in Week!ListRequest
  BY DEF WeekRequest, Week!PutRequest, Week!PostRequest, Week!DeleteRequest
<1>2. QED
  BY <1>1 DEF WeekRequest, Week!ListRequest, Week!Answers

LEMMA WeekLoad ==
    ASSUME NEW of \in SUBSET Blocks, NEW ends \in BOOLEAN
    PROVE  LET new == Week!LoadBlockedTimes(of, ends) IN
           /\ new \in WeekRequest /\ new.op = "list" /\ new.answer = "none" /\ new.ends = ends
BY DEF Week!LoadBlockedTimes, WeekRequest, Week!ListRequest, Week!Answers

\* What a day is edited to is a schedule of a day.
WeekEdits == \E d \in Days, day \in Week!DaySchedule : Week!Edit(d, day)

LEMMA WeekUser ==
    ASSUME Week!HoursConstants, WeekOfType, Week!User
    PROVE  \/ WeekEdits
           \/ Week!SaveSchedule
           \/ \E t \in Times : Week!CreateBlockedTime(t)
           \/ \E b \in Blocks : Week!DeleteBlockedTime(b)
<1> USE DEF Week!HoursConstants, WeekOfType, Week!Page, Week!DaySchedule
<1>1. ASSUME NEW d \in Days, Week!ToggleDay(d) PROVE WeekEdits
  <2> DEFINE day == [enabled |-> ~ui.schedule[d].enabled, 
                     intervals |-> IF ui.schedule[d].intervals = {} THEN {Default} 
                                   ELSE ui.schedule[d].intervals]
  <2>1. day \in Week!DaySchedule
    OBVIOUS
  <2>2. Week!Edit(d, day)
    BY <1>1 DEF Week!ToggleDay
  <2> QED
    BY <2>1, <2>2 DEF WeekEdits
<1>2. ASSUME NEW d \in Days, Week!AddInterval(d) PROVE WeekEdits
  <2> DEFINE day == [ui.schedule[d] EXCEPT !.intervals = @ \cup {Another}]
  <2>1. day \in Week!DaySchedule
    OBVIOUS
  <2>2. Week!Edit(d, day)
    BY <1>2 DEF Week!AddInterval
  <2> QED
    BY <2>1, <2>2 DEF WeekEdits
<1>3. ASSUME NEW d \in Days, NEW i \in Intervals, Week!RemoveInterval(d, i) PROVE WeekEdits
  <2> DEFINE day == [ui.schedule[d] EXCEPT !.intervals = @ \ {i}]
  <2>1. day \in Week!DaySchedule
    OBVIOUS
  <2>2. Week!Edit(d, day)
    BY <1>3 DEF Week!RemoveInterval
  <2> QED
    BY <2>1, <2>2 DEF WeekEdits
<1>4. ASSUME NEW d \in Days, NEW i \in Intervals, NEW j \in Intervals, Week!UpdateInterval(d, i, j) 
      PROVE  WeekEdits
  <2> DEFINE day == [ui.schedule[d] EXCEPT !.intervals = (@ \ {i}) \cup {j}]
  <2>1. day \in Week!DaySchedule
    OBVIOUS
  <2>2. Week!Edit(d, day)
    BY <1>4 DEF Week!UpdateInterval
  <2> QED
    BY <2>1, <2>2 DEF WeekEdits
<1>5. QED
  BY <1>1, <1>2, <1>3, <1>4 DEF Week!User

LEMMA WeekNet == WeekOfType <=> ui \in Week!Page /\ db \in Week!Database /\ net \subseteq WeekRequest
BY DEF WeekOfType, WeekRequest

LEMMA WeekEditsKeep == ASSUME WeekInv, WeekEdits PROVE WeekInv'
<1> PICK d \in Days, day \in Week!DaySchedule : Week!Edit(d, day)
  BY DEF WeekEdits
<1> USE DEF WeekInv
<1>1. /\ ui' = [ui EXCEPT !.schedule[d] = day, !.edited = @ \cup {d}]
      /\ UNCHANGED <<net, db>> /\ ui \in Week!Page /\ ui.schedule \in [Days -> Week!DaySchedule]
  BY DEF Week!Edit, WeekOfType, Week!Page
<1>2. /\ UNCHANGED <<ui.saving, ui.blocked, ui.failed, ui.crossed, ui.stale, ui.gone>>
      /\ ui'.schedule = [ui.schedule EXCEPT ![d] = day] /\ ui'.edited = ui.edited \cup {d}
  BY <1>1 DEF Week!Page
<1>3. WeekOfType'
  BY <1>1 DEF WeekOfType, Week!Page
<1>4. WeekSaves' /\ RemovedForGood' /\ ListsWithoutGone' /\ Week!RemovedStaysAway' /\ PostsConverted'
  BY <1>1, <1>2 DEF WeekSaves, RemovedForGood, ListsWithoutGone, Week!RemovedStaysAway, 
                    PostsConverted, Week!Lists
<1>5. DaysAsStored'
  BY <1>1, <1>2 DEF DaysAsStored, ToStore
<1>6. QED
  BY <1>3, <1>4, <1>5

LEMMA WeekSaveSchedule == 
    ASSUME Week!HoursConstants, WeekInv, Week!SaveSchedule PROVE WeekInv'
<1> DEFINE hours == [d \in Days |-> ToStore(d)]
           new == [op |-> "put", answer |-> "none", edited |-> ui.edited, hours |-> hours]
<1> USE DEF WeekInv
<1>1. ui \in Week!Page /\ ui.schedule \in [Days -> Week!DaySchedule] /\ ui.edited \subseteq Days
  BY DEF WeekOfType, Week!Page
<1>2. hours \in Week!Hours
  BY <1>1 DEF Week!DaySchedule, Week!Hours, ToStore
<1>3. /\ ~ui.saving /\ ui' = [ui EXCEPT !.saving = TRUE] /\ db' = db /\ net' = net \cup {new}
  BY DEF Week!SaveSchedule, ToStore
<1>4. ui'.saving /\ UNCHANGED <<ui.schedule, ui.blocked, ui.failed, ui.edited, ui.crossed, ui.stale, ui.gone>>
  BY <1>1, <1>3 DEF Week!Page
<1>5. \A d \in Days : hours[d] = ToStore(d)
  OBVIOUS
<1> HIDE DEF hours
<1>6. /\ new \in WeekRequest /\ new.op = "put" /\ new.answer = "none" /\ new.edited = ui.edited
      /\ new.hours = hours
  BY <1>1, <1>2 DEF WeekRequest, Week!PutRequest, Week!Answers
<1> HIDE DEF new
<1>7. WeekOfType'
  <2>1. ui' \in Week!Page
    BY <1>1, <1>3 DEF Week!Page
  <2> QED
    BY <1>3, <1>6, <2>1, WeekNet DEF WeekOfType, WeekRequest
<1>8. WeekSaves'
  BY <1>3, <1>4, <1>6 DEF WeekSaves, Week!Saves
<1>9. DaysAsStored'
  BY <1>3, <1>4, <1>5, <1>6 DEF DaysAsStored, ToStore
<1>10. RemovedForGood' /\ ListsWithoutGone' /\ Week!RemovedStaysAway' /\ PostsConverted'
  BY <1>3, <1>4, <1>6 DEF RemovedForGood, ListsWithoutGone, Week!RemovedStaysAway, 
                          PostsConverted, Week!Lists
<1>11. QED
  BY <1>7, <1>8, <1>9, <1>10

LEMMA WeekCreate ==
    ASSUME Week!HoursConstants, WeekInv, NEW t \in Times, Week!CreateBlockedTime(t) PROVE WeekInv'
<1> DEFINE iso == Week!ZonedLocalToIso(SessionZone, t)
           new == [op |-> "post", answer |-> "none", local |-> t, at |-> iso]
<1> USE DEF WeekInv
<1>1. ui \in Week!Page
  BY DEF WeekOfType
<1>2. iso \in Int
  BY DEF Week!HoursConstants, Week!ZonedLocalToIso, Week!Clock
<1>3. /\ ~ui.saving /\ ui' = [ui EXCEPT !.saving = TRUE] /\ db' = db /\ net' = net \cup {new}
  BY DEF Week!CreateBlockedTime
<1>4. ui'.saving /\ UNCHANGED <<ui.schedule, ui.blocked, ui.failed, ui.edited, ui.crossed, ui.stale, ui.gone>>
  BY <1>1, <1>3 DEF Week!Page
<1>5. iso = Week!ZonedLocalToIso(SessionZone, t)
  OBVIOUS
<1> HIDE DEF iso
<1>6. /\ new \in WeekRequest /\ new.op = "post" /\ new.answer = "none" /\ new.local = t 
      /\ new.at = iso
  BY <1>2 DEF WeekRequest, Week!PostRequest, Week!Answers
<1> HIDE DEF new
<1>7. WeekOfType'
  <2>1. ui' \in Week!Page
    BY <1>1, <1>3 DEF Week!Page
  <2> QED
    BY <1>3, <1>6, <2>1, WeekNet DEF WeekOfType, WeekRequest
<1>8. WeekSaves'
  BY <1>3, <1>4, <1>6 DEF WeekSaves, Week!Saves
<1>9. PostsConverted'
  BY <1>3, <1>5, <1>6 DEF PostsConverted
<1>10. DaysAsStored' /\ RemovedForGood' /\ ListsWithoutGone' /\ Week!RemovedStaysAway'
  BY <1>3, <1>4, <1>6 DEF DaysAsStored, ToStore, RemovedForGood, ListsWithoutGone, 
                          Week!RemovedStaysAway, Week!Lists
<1>11. QED
  BY <1>7, <1>8, <1>9, <1>10

LEMMA WeekDelete ==
    ASSUME WeekInv, NEW b \in Blocks, Week!DeleteBlockedTime(b) PROVE WeekInv'
<1> DEFINE new == [op |-> "delete", answer |-> "none", block |-> b]
<1> USE DEF WeekInv
<1>1. ui' = ui /\ db' = db /\ net' = net \cup {new}
  BY DEF Week!DeleteBlockedTime
<1>2. /\ new \in WeekRequest /\ new.op = "delete" /\ new.answer = "none"
  BY DEF WeekRequest, Week!DeleteRequest, Week!Answers
<1> HIDE DEF new
<1>3. WeekOfType'
  BY <1>1, <1>2 DEF WeekOfType, WeekRequest
<1>4. WeekSaves'
  BY <1>1, <1>2 DEF WeekSaves, Week!Saves
<1>5. /\ DaysAsStored' /\ RemovedForGood' /\ ListsWithoutGone' /\ Week!RemovedStaysAway' 
      /\ PostsConverted'
  BY <1>1, <1>2 DEF DaysAsStored, ToStore, RemovedForGood, ListsWithoutGone, 
                    Week!RemovedStaysAway, Week!Lists, PostsConverted
<1>6. QED
  BY <1>3, <1>4, <1>5

\* Whatever the API does to its row, q has been answered, and the rest waits.
LEMMA WeekAnsweredSaves ==
    ASSUME WeekInv, NEW q \in net, NEW new, new.op = q.op, q.op = "list" => new.ends = q.ends,
           ui' = ui, net' = (net \ {q}) \cup {new}
    PROVE  WeekSaves'
<1>1. Week!Saves(new) <=> Week!Saves(q)
  BY DEF Week!Saves
<1>2. \A r \in net' : r = new \/ (r \in net /\ r # q)
  OBVIOUS
<1>3. QED
  BY <1>1, <1>2 DEF WeekInv, WeekSaves

LEMMA WeekRefused == 
    ASSUME WeekInv, NEW q \in net, Week!Answered(q, "error"), UNCHANGED <<ui, db>> PROVE WeekInv'
<1> DEFINE new == [q EXCEPT !.answer = "error"]
<1> USE DEF WeekInv
<1>1. q \in WeekRequest /\ net' = (net \ {q}) \cup {new}
  BY DEF Week!Answered, WeekOfType, WeekRequest
<1>2. /\ new \in WeekRequest /\ new.op = q.op /\ new.answer = "error"
      /\ q.op = "put" => new.hours = q.hours /\ new.edited = q.edited
      /\ q.op = "post" => new.at = q.at /\ new.local = q.local
      /\ q.op = "list" => new.ends = q.ends
  BY <1>1, WeekAnswered DEF Week!Answers
<1> HIDE DEF new
<1>3. WeekOfType'
  BY <1>1, <1>2 DEF WeekOfType, WeekRequest
<1>4. WeekSaves'
  BY <1>1, <1>2, WeekAnsweredSaves
<1>5. DaysAsStored' /\ RemovedForGood' /\ PostsConverted'
  BY <1>1, <1>2 DEF DaysAsStored, ToStore, RemovedForGood, PostsConverted
<1>6. ListsWithoutGone' /\ Week!RemovedStaysAway'
  BY <1>1, <1>2 DEF ListsWithoutGone, Week!RemovedStaysAway, Week!Lists
<1>7. QED
  BY <1>3, <1>4, <1>5, <1>6

LEMMA WeekServePut ==
    ASSUME WeekInv, NEW q \in net, q.answer = "none", Week!ServePut(q), ui' = ui PROVE WeekInv'
<1> DEFINE new == [q EXCEPT !.answer = "ok"]
<1> USE DEF WeekInv
<1>1. q.op = "put" /\ q \in WeekRequest /\ net' = (net \ {q}) \cup {new}
  BY DEF Week!ServePut, Week!Answered, WeekOfType, WeekRequest
<1>2. /\ new \in WeekRequest /\ new.op = "put" /\ new.answer = "ok" 
      /\ new.hours = q.hours /\ new.edited = q.edited
  BY <1>1, WeekAnswered DEF Week!Answers
<1> HIDE DEF new
<1>3. db' = [db EXCEPT !.rules = q.hours] /\ db \in Week!Database /\ q.hours \in Week!Hours
  BY <1>1, WeekOfOp DEF Week!ServePut, WeekOfType
<1>4. db' \in Week!Database /\ db'.rules = q.hours /\ UNCHANGED <<db.blocked, db.used, db.others>>
  BY <1>3 DEF Week!Database
<1>5. WeekOfType'
  BY <1>1, <1>2, <1>4 DEF WeekOfType, WeekRequest
<1>6. WeekSaves'
  BY <1>1, <1>2, WeekAnsweredSaves
<1>7. DaysAsStored'
  <2> SUFFICES ASSUME ~ui.failed PROVE DaysAsStored'
    BY DEF DaysAsStored
  <2>1. \A d \in Days : d \in ui.edited \cup db.others \/ ToStore(d) = q.hours[d]
    BY <1>1 DEF DaysAsStored
  <2>2. \A r \in net' : r.op = "put" => r = new
    BY <1>1, <1>2 DEF WeekSaves, Week!Saves
  <2>3. q.edited \subseteq ui.edited
    BY <1>1 DEF DaysAsStored
  <2> QED
    BY <1>2, <1>4, <2>1, <2>2, <2>3 DEF DaysAsStored, ToStore
<1>8. RemovedForGood' /\ ListsWithoutGone' /\ Week!RemovedStaysAway' /\ PostsConverted'
  BY <1>1, <1>2, <1>4 DEF RemovedForGood, ListsWithoutGone, Week!RemovedStaysAway, Week!Lists, 
                          PostsConverted
<1>9. QED
  BY <1>5, <1>6, <1>7, <1>8

LEMMA WeekServePost ==
    ASSUME WeekInv, NEW q \in net, q.answer = "none", Week!ServePost(q), ui' = ui PROVE WeekInv'
<1> DEFINE new == [q EXCEPT !.answer = "ok"]
<1> USE DEF WeekInv
<1>1. q.op = "post" /\ q \in WeekRequest /\ net' = (net \ {q}) \cup {new}
  BY DEF Week!ServePost, Week!Answered, WeekOfType, WeekRequest
<1>2. /\ new \in WeekRequest /\ new.op = "post" /\ new.answer = "ok" 
      /\ new.at = q.at /\ new.local = q.local
  BY <1>1, WeekAnswered DEF Week!Answers
<1> HIDE DEF new
<1>3. PICK b \in Blocks \ db.used : db' = [db EXCEPT !.blocked = @ \cup {b}, !.used = @ \cup {b}]
  BY DEF Week!ServePost
<1>4. /\ db' \in Week!Database /\ UNCHANGED <<db.rules, db.others>>
      /\ db'.blocked = db.blocked \cup {b} /\ db'.used = db.used \cup {b}
  BY <1>3 DEF WeekOfType, Week!Database
<1>5. WeekOfType'
  BY <1>1, <1>2, <1>4 DEF WeekOfType, WeekRequest
<1>6. WeekSaves'
  BY <1>1, <1>2, WeekAnsweredSaves
<1>7. RemovedForGood'
  BY <1>1, <1>2, <1>3, <1>4 DEF RemovedForGood
<1>8. DaysAsStored' /\ ListsWithoutGone' /\ Week!RemovedStaysAway' /\ PostsConverted'
  BY <1>1, <1>2, <1>4 DEF DaysAsStored, ToStore, ListsWithoutGone, Week!RemovedStaysAway, 
                          Week!Lists, PostsConverted
<1>9. QED
  BY <1>5, <1>6, <1>7, <1>8

LEMMA WeekServeDelete ==
    ASSUME WeekInv, NEW q \in net, q.answer = "none", Week!ServeDelete(q), ui' = ui PROVE WeekInv'
<1> DEFINE new == [q EXCEPT !.answer = "ok"]
<1> USE DEF WeekInv
<1>1. /\ q.op = "delete" /\ q \in WeekRequest /\ net' = (net \ {q}) \cup {new} 
      /\ q.block \in db.blocked
  BY DEF Week!ServeDelete, Week!Answered, WeekOfType, WeekRequest
<1>2. /\ new \in WeekRequest /\ new.op = "delete" /\ new.answer = "ok" /\ new.block = q.block
  BY <1>1, WeekAnswered DEF Week!Answers
<1> HIDE DEF new
<1>3. /\ db' \in Week!Database /\ UNCHANGED <<db.rules, db.others, db.used>>
      /\ db'.blocked = db.blocked \ {q.block}
  BY DEF Week!ServeDelete, WeekOfType, Week!Database
<1>4. WeekOfType'
  BY <1>1, <1>2, <1>3 DEF WeekOfType, WeekRequest
<1>5. WeekSaves'
  BY <1>1, <1>2, WeekAnsweredSaves
<1>6. RemovedForGood'
  BY <1>1, <1>2, <1>3 DEF RemovedForGood
<1>7. DaysAsStored' /\ ListsWithoutGone' /\ Week!RemovedStaysAway' /\ PostsConverted'
  BY <1>1, <1>2, <1>3 DEF DaysAsStored, ToStore, ListsWithoutGone, Week!RemovedStaysAway, 
                          Week!Lists, PostsConverted
<1>8. QED
  BY <1>4, <1>5, <1>6, <1>7

LEMMA WeekServeList ==
    ASSUME WeekInv, NEW q \in net, q.answer = "none", Week!ServeList(q), ui' = ui PROVE WeekInv'
<1> DEFINE new == [q EXCEPT !.answer = "ok", !.seen = db.blocked]
<1> USE DEF WeekInv
<1>1. q.op = "list" /\ q \in WeekRequest /\ net' = (net \ {q}) \cup {new} /\ db' = db
  BY DEF Week!ServeList, WeekOfType, WeekRequest
<1>2. db.blocked \in SUBSET Blocks
  BY DEF WeekOfType, Week!Database
<1>3. /\ new \in WeekRequest /\ new.op = "list" /\ new.answer = "ok" 
      /\ new.ends = q.ends /\ new.seen = db.blocked
  BY <1>1, <1>2, WeekRead
<1> HIDE DEF new
<1>4. WeekOfType'
  BY <1>1, <1>3 DEF WeekOfType, WeekRequest
<1>5. WeekSaves'
  BY <1>1, <1>3, WeekAnsweredSaves
<1>6. ListsWithoutGone'
  BY <1>1, <1>3 DEF ListsWithoutGone, RemovedForGood, Week!Lists
<1>7. DaysAsStored' /\ RemovedForGood' /\ Week!RemovedStaysAway' /\ PostsConverted'
  BY <1>1, <1>3 DEF DaysAsStored, ToStore, RemovedForGood, Week!RemovedStaysAway, 
                    Week!Lists, PostsConverted
<1>8. QED
  BY <1>4, <1>5, <1>6, <1>7

LEMMA WeekOthers == ASSUME WeekInv, Week!OtherSaves PROVE WeekInv'
<1> USE DEF WeekInv
<1>1. ui' = ui /\ net' = net
  BY DEF Week!OtherSaves
<1>2. /\ db' \in Week!Database /\ UNCHANGED <<db.blocked, db.used>> /\ db.others \subseteq db'.others
      /\ \A d \in Days : d \in db'.others \/ db'.rules[d] = db.rules[d]
  <2>1. CASE \E d \in Days, hours \in SUBSET Intervals :
                db' = [db EXCEPT !.rules[d] = hours, !.others = @ \cup {d}]
    BY <2>1 DEF WeekOfType, Week!Database, Week!Hours
  <2>2. CASE \E z \in Zones : db' = [db EXCEPT !.zone = z]
    BY <2>2 DEF WeekOfType, Week!Database, Week!Hours
  <2> QED
    BY <2>1, <2>2 DEF Week!OtherSaves
<1>3. DaysAsStored'
  BY <1>1, <1>2 DEF DaysAsStored, ToStore
<1>4. WeekOfType' /\ WeekSaves' /\ RemovedForGood' /\ ListsWithoutGone' /\ Week!RemovedStaysAway'
      /\ PostsConverted'
  BY <1>1, <1>2 DEF WeekOfType, WeekSaves, RemovedForGood, ListsWithoutGone, Week!RemovedStaysAway, 
                    Week!Lists, PostsConverted
<1>5. QED
  BY <1>3, <1>4

\* What a settled request leaves: the page p, and saving over if it was what saved.
LEMMA WeekSettles ==
    ASSUME WeekInv, NEW q \in net, NEW p \in Week!Page, Week!Settled(q, p), db' = db,
           p.saving = ui.saving, p.schedule = ui.schedule, p.failed = ui.failed, 
           p.edited = ui.edited, p.crossed = ui.crossed, p.gone = ui.gone,
           \/ p.stale
           \/ q.op = "list" /\ q.answer = "ok" /\ p.blocked = q.seen
           \/ q.op # "list" /\ p.stale = ui.stale /\ p.blocked = ui.blocked
    PROVE  WeekInv'
<1> USE DEF WeekInv
<1>1. /\ ui' \in Week!Page /\ (ui'.saving <=> ui.saving /\ ~Week!Saves(q))
      /\ UNCHANGED <<ui.schedule, ui.failed, ui.edited, ui.crossed, ui.gone>>
      /\ ui'.stale = p.stale /\ ui'.blocked = p.blocked
  <2>1. CASE Week!Saves(q)
    BY <2>1 DEF Week!Settled, Week!Page
  <2>2. CASE ~Week!Saves(q)
    BY <2>2 DEF Week!Settled, Week!Page
  <2> QED
    BY <2>1, <2>2
<1>2. net' = net \ {q}
  BY DEF Week!Settled
<1>3. WeekOfType'
  BY <1>1, <1>2 DEF WeekOfType
<1>4. WeekSaves'
  BY <1>1, <1>2 DEF WeekSaves
<1>5. DaysAsStored' /\ RemovedForGood' /\ ListsWithoutGone' /\ PostsConverted'
  BY <1>1, <1>2 DEF DaysAsStored, ToStore, RemovedForGood, ListsWithoutGone, Week!Lists, PostsConverted
<1>6. Week!RemovedStaysAway'
  BY <1>1, <1>2 DEF Week!RemovedStaysAway, ListsWithoutGone, Week!Lists
<1>7. QED
  BY <1>3, <1>4, <1>5, <1>6

LEMMA WeekReloads ==
    ASSUME WeekInv, NEW q \in net, NEW gone \in SUBSET Blocks, Week!Reload(q, gone), db' = db,
           q.op \in {"post", "delete"}, gone \subseteq db.used \ db.blocked
    PROVE  WeekInv'
<1> DEFINE new == Week!LoadBlockedTimes(gone, q.op = "post")
           crossed == Week!Lists # {}
<1> USE DEF WeekInv
<1>1. /\ new \in WeekRequest /\ new.op = "list" /\ new.answer = "none" 
      /\ new.ends = (q.op = "post")
  BY WeekLoad
<1>2. net' = (net \ {q}) \cup {new} /\ ui' = [ui EXCEPT !.gone = @ \cup gone, !.crossed = crossed]
  BY DEF Week!Reload
<1>3. crossed \in BOOLEAN /\ (crossed <=> \E r \in net : r.op = "list")
  BY DEF Week!Lists
<1> HIDE DEF new, crossed
<1>4. /\ ui' \in Week!Page /\ ui'.gone = ui.gone \cup gone /\ ui'.crossed = crossed
      /\ UNCHANGED <<ui.schedule, ui.failed, ui.edited, ui.saving, ui.stale, ui.blocked>>
  BY <1>2, <1>3 DEF WeekOfType, Week!Page
<1>5. WeekOfType'
  BY <1>1, <1>2, <1>4 DEF WeekOfType, WeekRequest
<1>6. WeekSaves'
  <2>1. Week!Saves(new) <=> Week!Saves(q)
    BY <1>1 DEF Week!Saves
  <2>2. \A r \in net' : r = new \/ (r \in net /\ r # q)
    BY <1>2
  <2> QED
    BY <1>2, <1>4, <2>1, <2>2 DEF WeekSaves
<1>7. DaysAsStored' /\ RemovedForGood' /\ PostsConverted'
  BY <1>1, <1>2, <1>4 DEF DaysAsStored, ToStore, RemovedForGood, PostsConverted
<1>8. ListsWithoutGone' /\ Week!RemovedStaysAway'
  BY <1>1, <1>2, <1>3, <1>4 DEF ListsWithoutGone, Week!RemovedStaysAway, Week!Lists
<1>9. QED
  BY <1>5, <1>6, <1>7, <1>8

LEMMA WeekReceive == ASSUME WeekInv, NEW q \in net, Week!Receive(q) PROVE WeekInv'
<1>1. ui \in Week!Page /\ q \in WeekRequest /\ db' = db
  BY DEF WeekInv, WeekOfType, WeekRequest, Week!Receive
<1>2. CASE q.op # "list" /\ Week!Settled(q, ui)
  BY <1>1, <1>2, WeekSettles
<1>3. CASE q.op = "post" /\ Week!Reload(q, {})
  BY <1>1, <1>3, WeekReloads
<1>4. CASE q.op = "delete" /\ q.answer = "ok" /\ Week!Reload(q, {q.block})
  <2>1. {q.block} \in SUBSET Blocks
    BY <1>1, <1>4, WeekOfOp
  <2>2. {q.block} \subseteq db.used \ db.blocked
    BY <1>4 DEF WeekInv, RemovedForGood
  <2> QED
    BY <1>1, <1>4, <2>1, <2>2, WeekReloads
<1>5. CASE q.op = "list" /\ q.answer = "ok" 
           /\ Week!Settled(q, [ui EXCEPT !.blocked = q.seen, !.stale = FALSE])
  <2> DEFINE p == [ui EXCEPT !.blocked = q.seen, !.stale = FALSE]
  <2>1. q.seen \subseteq Blocks
    BY <1>1, <1>5, WeekOfOp
  <2>2. /\ p \in Week!Page /\ p.blocked = q.seen /\ p.saving = ui.saving /\ p.schedule = ui.schedule 
        /\ p.failed = ui.failed /\ p.edited = ui.edited /\ p.crossed = ui.crossed /\ p.gone = ui.gone
    BY <1>1, <2>1 DEF Week!Page
  <2>3. Week!Settled(q, p)
    BY <1>5
  <2> HIDE DEF p
  <2> QED
    BY <1>1, <1>5, <2>2, <2>3, WeekSettles
<1>6. CASE q.op = "list" /\ Week!Settled(q, [ui EXCEPT !.stale = TRUE])
  <2> DEFINE p == [ui EXCEPT !.stale = TRUE]
  <2>1. /\ p \in Week!Page /\ p.stale /\ p.saving = ui.saving /\ p.schedule = ui.schedule 
        /\ p.failed = ui.failed /\ p.edited = ui.edited /\ p.crossed = ui.crossed /\ p.gone = ui.gone
    BY <1>1 DEF Week!Page
  <2>2. Week!Settled(q, p)
    BY <1>6
  <2> HIDE DEF p
  <2> QED
    BY <1>1, <2>1, <2>2, WeekSettles
<1>7. QED
  BY <1>2, <1>3, <1>4, <1>5, <1>6 DEF Week!Receive

LEMMA WeekInit == ASSUME Week!HoursConstants, Week!Init PROVE WeekInv
<1>1. Week!CreateEmptySchedule \in [Days -> Week!DaySchedule]
  BY DEF Week!CreateEmptySchedule, Week!DaySchedule, Week!HoursConstants
<1>2. \A rules \in Week!Hours : Week!Grouped(rules) \in [Days -> Week!DaySchedule]
  BY <1>1 DEF Week!Grouped, Week!DaySchedule, Week!Hours
<1>3. PICK rules \in Week!Hours, blocked \in SUBSET Blocks, zone \in Zones, failed \in BOOLEAN :
         /\ db = [rules |-> rules, blocked |-> blocked, used |-> blocked, zone |-> zone, others |-> {}]
         /\ ui = [schedule |-> IF failed THEN Week!CreateEmptySchedule ELSE Week!Grouped(db.rules), 
                  saving |-> FALSE, blocked |-> IF failed THEN {} ELSE db.blocked,
                  failed |-> failed, edited |-> {}, crossed |-> FALSE, stale |-> failed, gone |-> {}]
         /\ net = {}
  BY DEF Week!Init
<1>4. WeekOfType
  BY <1>1, <1>2, <1>3 DEF WeekOfType, Week!Page, Week!Database
<1>5. DaysAsStored
  <2>1. ~failed => \A d \in Days : ToStore(d) = rules[d]
    BY <1>3 DEF ToStore, Week!Grouped, Week!CreateEmptySchedule
  <2> QED
    BY <1>3, <2>1 DEF DaysAsStored
<1>6. WeekSaves /\ RemovedForGood /\ ListsWithoutGone /\ Week!RemovedStaysAway /\ PostsConverted
  BY <1>3 DEF WeekSaves, RemovedForGood, ListsWithoutGone, Week!RemovedStaysAway, 
              Week!Lists, PostsConverted
<1>7. QED
  BY <1>4, <1>5, <1>6 DEF WeekInv

LEMMA WeekNext == ASSUME Week!HoursConstants, WeekInv, Week!Next PROVE WeekInv'
<1>1. CASE Week!User
  BY <1>1, WeekUser, WeekEditsKeep, WeekSaveSchedule, WeekCreate, WeekDelete DEF WeekInv
<1>2. ASSUME NEW q \in net, Week!Serve(q) PROVE WeekInv'
  BY <1>2, WeekServePut, WeekServePost, WeekServeDelete, WeekServeList, WeekRefused DEF Week!Serve
<1>3. ASSUME NEW q \in net, Week!Lose(q) PROVE WeekInv'
  BY <1>3, WeekRefused DEF Week!Lose
<1>4. QED
  BY <1>1, <1>2, <1>3, WeekReceive, WeekOthers DEF Week!Next

\* What is stored when a PUT is served is what its request held.
LEMMA WeekChanges == ASSUME WeekInv, Week!Next PROVE Week!OnlyEditedDays
<1> SUFFICES ASSUME NEW q \in net, q \notin net', q.op = "put", q.answer = "none",
                    NEW d \in Days, db'.rules[d] # db.rules[d], d \notin q.edited \cup db.others
             PROVE  ui.failed
  BY DEF Week!OnlyEditedDays
<1> USE DEF WeekInv
<1>1. CASE Week!User
  BY <1>1 DEF Week!User, Week!ToggleDay, Week!AddInterval, Week!RemoveInterval, Week!UpdateInterval, 
              Week!Edit, Week!SaveSchedule, Week!CreateBlockedTime, Week!DeleteBlockedTime
<1>2. CASE Week!OtherSaves
  BY <1>2 DEF Week!OtherSaves
<1>3. ASSUME NEW r \in net, Week!Serve(r) PROVE ui.failed
  <2>1. r = q
    BY <1>3 DEF Week!Serve, Week!Answered, Week!ServePut, Week!ServePost, Week!ServeDelete, Week!ServeList
  <2>2. db' = [db EXCEPT !.rules = q.hours]
    BY <1>3, <2>1 DEF Week!Serve, Week!ServePut, Week!ServePost, Week!ServeDelete, Week!ServeList
  <2>3. db'.rules = q.hours
    BY <2>2 DEF WeekOfType, Week!Database
  <2> QED
    BY <2>3 DEF DaysAsStored
<1>4. ASSUME NEW r \in net, Week!Lose(r) \/ Week!Receive(r) PROVE ui.failed
  BY <1>4 DEF Week!Lose, Week!Receive
<1>5. QED
  BY <1>1, <1>2, <1>3, <1>4 DEF Week!Next

LEMMA WeekBlocked == ASSUME Week!HoursConstants, WeekInv PROVE Week!BlockedAsEntered
<1> SUFFICES ASSUME NEW q \in net, q.op = "post", SessionZone = db.zone, Week!Steady(db.zone, q.local)
             PROVE  Week!Clock(db.zone, q.at) = q.local
  BY DEF Week!BlockedAsEntered
<1>1. q.at = Week!ZonedLocalToIso(SessionZone, q.local)
  BY DEF WeekInv, PostsConverted
<1>2. SessionZone \in [before : Int, after : Int, change : Int]
  BY DEF Week!HoursConstants
<1>3. q.local \in Int
  BY WeekOfOp DEF WeekInv, WeekOfType, WeekRequest, Week!HoursConstants
<1>4. QED
  BY <1>1, <1>2, <1>3, WeekClock

LEMMA WeekCardinality == ASSUME NEW S PROVE Week!Cardinality(S) = Cardinality(S)
BY DEF Week!Cardinality, Cardinality

LEMMA WeekTypeOK == ASSUME WeekInv PROVE Week!TypeOK
<1> DEFINE saving == {q \in net : Week!Saves(q)}
<1>1. saving = {} \/ \E q : saving = {q}
  BY DEF WeekInv, WeekSaves
<1>2. ui.saving <=> saving # {}
  BY DEF WeekInv, WeekSaves
<1>3. ui.saving \in BOOLEAN
  BY DEF WeekInv, WeekOfType, Week!Page
<1> HIDE DEF saving
<1>4. Cardinality(saving) = IF ui.saving THEN 1 ELSE 0
  BY <1>1, <1>2, <1>3, FS_EmptySet, FS_Singleton
<1> USE DEF saving
<1>5. QED
  BY <1>4, WeekCardinality DEF WeekInv, WeekOfType, Week!TypeOK

----------------------------------------------------------------------------
(* The session *)

\* While no shell was asking for its company when somebody logged in: the token and the user
\* are of one login, and so is what a shell or a page was mounted with, in a window where
\* nobody has logged in elsewhere since.
OneOfAll ==
    /\ None \in {db.accessToken, db.user} \/ db.accessToken = db.user
    /\ \A q \in net : q.op = "current" => q.token = q.shown /\ db.accessToken \in {None, q.token}
    /\ \A w \in Windows : ui[w].at = "panel" /\ ~ui[w].relogged => db.accessToken \in {None, ui[w].shown}
    /\ \A q \in net : q.op = "page" => q.token \in {None, q.shown} \/ q.relogged

ShownIsMounted ==
    /\ \A w \in Windows : ui[w].ready => ui[w].at = "panel"
    /\ \A w \in Windows : ui[w].at = "panel" => ui[w].shown # None
    /\ \A q \in net : q.op # "login" /\ q.mounted => ui[q.window].at = "panel"

\* While nothing was under way when somebody logged in, the company is of the login, too.
CompanyToo ==
    /\ db.tenant = db.user
    /\ \A q \in net : q.op = "page" => q.token = None \/ db.user \in {None, q.token}
    /\ \A q, r \in net : q.op = "page" /\ r.op = "current" => q.token \in {None, r.token}

SessionInv ==
    /\ Session!TypeOK /\ ShownIsMounted
    /\ "current" \in db.overtaken \/ OneOfAll
    /\ db.overtaken # {} \/ CompanyToo

SessionRequest == Session!LoginRequest \cup Session!PageRequest

\* r is q, whose page may have been left since.
Comes(r, q) ==
    /\ r.op = q.op
    /\ q.op # "login" => /\ r.window = q.window /\ r.token = q.token /\ r.shown = q.shown 
                         /\ r.relogged = q.relogged /\ (r.mounted => q.mounted)

\* What the requests of each kind carry.
LEMMA SessionOfOp ==
    ASSUME NEW q \in SessionRequest
    PROVE  /\ q.op \in {"login", "current", "page"} /\ q.window \in Windows
           /\ q.op = "login" => q.account \in Accounts
           /\ q.op # "login" => /\ q.token \in Session!Login \cup {None} /\ q.shown \in Session!Login 
                                /\ q.mounted \in BOOLEAN /\ q.relogged \in BOOLEAN
<1>1. CASE q \in Session!LoginRequest
  BY <1>1 DEF Session!LoginRequest
<1>2. CASE q \in Session!PageRequest
  BY <1>2 DEF Session!PageRequest
<1>3. QED
  BY <1>1, <1>2 DEF SessionRequest

\* No request of w that goes on has a page that is mounted.
LEMMA SessionLeft ==
    ASSUME NEW requests \in SUBSET SessionRequest, NEW w, NEW r \in Session!Left(w, requests)
    PROVE  /\ r \in SessionRequest 
           /\ \E q \in requests : Comes(r, q) /\ (q.op # "login" /\ q.window = w => ~r.mounted)
<1>1. PICK q \in requests : 
         r = IF q.op # "login" /\ q.window = w THEN [q EXCEPT !.mounted = FALSE] ELSE q
  BY DEF Session!Left
<1>2. CASE q.op # "login" /\ q.window = w
  <2>1. q \in Session!PageRequest /\ r = [q EXCEPT !.mounted = FALSE]
    BY <1>1, <1>2 DEF SessionRequest, Session!LoginRequest
  <2>2. /\ r \in Session!PageRequest /\ r.op = q.op /\ r.window = q.window /\ r.token = q.token 
        /\ r.shown = q.shown /\ r.relogged = q.relogged /\ ~r.mounted
    BY <2>1 DEF Session!PageRequest
  <2> QED
    BY <1>2, <2>2 DEF SessionRequest, Comes
<1>3. CASE ~(q.op # "login" /\ q.window = w)
  BY <1>1, <1>3 DEF Comes
<1>4. QED
  BY <1>2, <1>3

\* The request of the shell of a page that was mounted in w.
Asks(r, w, s) ==
    /\ r.op = "current" /\ r.window = w /\ r.token = s.accessToken /\ r.shown = s.user

LEMMA SessionMount ==
    ASSUME NEW windows \in [Windows -> Session!Window], NEW w \in Windows, NEW s,
           s.accessToken \in Session!Login \cup {None}, s.user \in Session!Login \cup {None}, 
           NEW requests \in SUBSET SessionRequest, Session!Mount(w, windows, s, requests)
    PROVE  /\ ui' \in [Windows -> Session!Window] /\ net' \subseteq SessionRequest
           /\ \A v \in Windows : v # w => ui'[v] = windows[v]
           /\ ui'[w].ready => ui'[w].at = "panel"
           /\ ui'[w].at = "panel" => ui'[w].shown = s.user /\ s.user # None /\ s.accessToken # None
           /\ \A r \in net' : 
                 \/ \E q \in requests : Comes(r, q) /\ (q.op # "login" /\ q.window = w => ~r.mounted)
                 \/ Asks(r, w, s) /\ ui'[w].at = "panel"
<1>1. CASE None \in {s.accessToken, s.user}
  <2>1. ui' = [windows EXCEPT ![w] = Session!Closed] /\ net' = Session!Left(w, requests)
    BY <1>1 DEF Session!Mount
  <2>2. Session!Closed \in Session!Window /\ Session!Closed.at = "login" /\ ~Session!Closed.ready
    BY DEF Session!Closed, Session!Window
  <2> QED
    BY <2>1, <2>2, SessionLeft
<1>2. CASE None \notin {s.accessToken, s.user}
  <2> DEFINE open == [at |-> "panel", shown |-> s.user, ready |-> FALSE, relogged |-> FALSE]
             new == [op |-> "current", window |-> w, token |-> s.accessToken, shown |-> s.user,
                     mounted |-> TRUE, relogged |-> FALSE]
  <2>1. ui' = [windows EXCEPT ![w] = open] /\ net' = Session!Left(w, requests) \cup {new}
    BY <1>2 DEF Session!Mount
  <2>2. open \in Session!Window /\ open.at = "panel" /\ open.shown = s.user
    BY DEF Session!Window
  <2>3. new \in SessionRequest /\ Asks(new, w, s)
    BY <1>2 DEF SessionRequest, Session!PageRequest, Asks
  <2> HIDE DEF open, new
  <2> QED
    BY <1>2, <2>1, <2>2, <2>3, SessionLeft
<1>3. QED
  BY <1>1, <1>2

SessionOfType == 
    /\ ui \in [Windows -> Session!Window] /\ db \in Session!Storage /\ net \subseteq SessionRequest

LEMMA SessionType == Session!TypeOK <=> SessionOfType
BY DEF Session!TypeOK, SessionOfType, SessionRequest

\* A page of the panel goes to the login, with or without the user being forgotten.
LEMMA SessionCloses ==
    ASSUME SessionInv, NEW w \in Windows, NEW requests \in SUBSET net,
           ui' = [ui EXCEPT ![w] = Session!Closed], net' = Session!Left(w, requests),
           \/ db' = [db EXCEPT !.accessToken = None, !.user = None, !.tenant = None]
           \/ db' = [db EXCEPT !.accessToken = None]
    PROVE  SessionInv'
<1>1. SessionOfType /\ requests \subseteq SessionRequest
  BY SessionType DEF SessionInv, SessionOfType
<1>2. /\ db' \in Session!Storage /\ db'.accessToken = None /\ db'.overtaken = db.overtaken
      /\ \/ db'.user = db.user /\ db'.tenant = db.tenant
         \/ db'.user = None /\ db'.tenant = None
  BY <1>1 DEF SessionOfType, Session!Storage
<1>3. /\ \A v \in Windows : v # w => ui'[v] = ui[v]
      /\ ui'[w].at = "login" /\ ~ui'[w].ready /\ ui' \in [Windows -> Session!Window]
  BY <1>1 DEF SessionOfType, Session!Closed, Session!Window
<1>4. /\ net' \subseteq SessionRequest
      /\ \A r \in net' : \E q \in net : Comes(r, q) /\ (q.op # "login" /\ q.window = w => ~r.mounted)
  BY <1>1, SessionLeft
<1>5. Session!TypeOK'
  BY <1>2, <1>3, <1>4, SessionType DEF SessionOfType, Session!TypeOK, SessionRequest
<1>6. ShownIsMounted'
  <2>1. \A v \in Windows : (ui'[v].ready => ui'[v].at = "panel") /\ (ui'[v].at = "panel" => ui'[v].shown # None)
    BY <1>3 DEF SessionInv, ShownIsMounted
  <2>2. ASSUME NEW r \in net', r.op # "login", r.mounted PROVE ui'[r.window].at = "panel"
    <3>1. PICK q \in net : Comes(r, q) /\ (q.op # "login" /\ q.window = w => ~r.mounted)
      BY <1>4
    <3>2. q.op # "login" /\ q.mounted /\ q.window = r.window /\ q.window # w
      BY <2>2, <3>1 DEF Comes
    <3>3. q.window \in Windows
      BY <1>1, SessionOfOp DEF SessionOfType
    <3> QED
      BY <1>3, <3>2, <3>3 DEF SessionInv, ShownIsMounted
  <2> QED
    BY <2>1, <2>2 DEF ShownIsMounted
<1>7. OneOfAll => OneOfAll'
  BY <1>2, <1>3, <1>4 DEF OneOfAll, Comes
<1>8. CompanyToo => CompanyToo'
  BY <1>2, <1>4 DEF CompanyToo, Comes
<1>9. QED
  BY <1>2, <1>5, <1>6, <1>7, <1>8 DEF SessionInv

LEMMA SessionOpenPage == ASSUME SessionInv, NEW w \in Windows, Session!OpenPage(w) PROVE SessionInv'
<1>1. SessionOfType
  BY SessionType DEF SessionInv
<1>2. PICK requests \in {net, {q \in net : q.window # w}} : Session!Mount(w, ui, db, requests)
  BY DEF Session!OpenPage
<1>3. db' = db /\ requests \subseteq net /\ requests \in SUBSET SessionRequest
  BY <1>1, <1>2 DEF Session!OpenPage, SessionOfType
<1>4. db.accessToken \in Session!Login \cup {None} /\ db.user \in Session!Login \cup {None}
  BY <1>1 DEF SessionOfType, Session!Storage
<1>5. /\ ui' \in [Windows -> Session!Window] /\ net' \subseteq SessionRequest
      /\ \A v \in Windows : v # w => ui'[v] = ui[v]
      /\ ui'[w].ready => ui'[w].at = "panel"
      /\ ui'[w].at = "panel" => ui'[w].shown = db.user /\ db.user # None /\ db.accessToken # None
      /\ \A r \in net' : 
            \/ \E q \in requests : Comes(r, q) /\ (q.op # "login" /\ q.window = w => ~r.mounted)
            \/ Asks(r, w, db) /\ ui'[w].at = "panel"
  BY <1>1, <1>2, <1>3, <1>4, SessionMount DEF SessionOfType
<1>6. Session!TypeOK'
  BY <1>1, <1>3, <1>5 DEF SessionOfType, Session!TypeOK, SessionRequest
<1>7. ShownIsMounted'
  <2>1. \A v \in Windows : (ui'[v].ready => ui'[v].at = "panel") /\ (ui'[v].at = "panel" => ui'[v].shown # None)
    BY <1>5 DEF SessionInv, ShownIsMounted
  <2>2. ASSUME NEW r \in net', r.op # "login", r.mounted PROVE ui'[r.window].at = "panel"
    <3>1. CASE Asks(r, w, db) /\ ui'[w].at = "panel"
      BY <3>1 DEF Asks
    <3>2. ASSUME NEW q \in requests, Comes(r, q), q.op # "login" /\ q.window = w => ~r.mounted
          PROVE  ui'[r.window].at = "panel"
      <4>1. q.op # "login" /\ q.mounted /\ q.window = r.window /\ q.window # w
        BY <2>2, <3>2 DEF Comes
      <4>2. q \in net /\ q.window \in Windows
        BY <1>3, <3>2, SessionOfOp
      <4> QED
        BY <1>5, <4>1, <4>2 DEF SessionInv, ShownIsMounted
    <3> QED
      BY <1>5, <3>1, <3>2
  <2> QED
    BY <2>1, <2>2 DEF ShownIsMounted
<1>8. OneOfAll => OneOfAll'
  <2> SUFFICES ASSUME OneOfAll PROVE OneOfAll'
    OBVIOUS
  <2>1. ui'[w].at = "panel" => db.accessToken = db.user
    BY <1>5 DEF OneOfAll
  <2>2. \A r \in net' : r.op = "current" => r.token = r.shown /\ db.accessToken \in {None, r.token}
    BY <1>3, <1>5, <2>1 DEF OneOfAll, Comes, Asks
  <2>3. \A r \in net' : r.op = "page" => r.token \in {None, r.shown} \/ r.relogged
    BY <1>3, <1>5 DEF OneOfAll, Comes, Asks
  <2>4. \A v \in Windows : ui'[v].at = "panel" /\ ~ui'[v].relogged => db.accessToken \in {None, ui'[v].shown}
    BY <1>5, <2>1 DEF OneOfAll
  <2> QED
    BY <1>3, <2>2, <2>3, <2>4 DEF OneOfAll
<1>9. OneOfAll /\ CompanyToo => CompanyToo'
  <2> SUFFICES ASSUME OneOfAll, CompanyToo PROVE CompanyToo'
    OBVIOUS
  <2>1. \A q \in net' : q.op = "page" => \E r \in net : r.op = "page" /\ q.token = r.token
    BY <1>3, <1>5 DEF Comes, Asks
  <2>2. \A q \in net' : q.op = "current" => 
           \/ \E r \in net : r.op = "current" /\ q.token = r.token
           \/ q.token = db.user /\ db.user # None
    BY <1>3, <1>5 DEF OneOfAll, Comes, Asks
  <2> QED
    BY <1>3, <2>1, <2>2 DEF CompanyToo
<1>10. QED
  BY <1>3, <1>6, <1>7, <1>8, <1>9 DEF SessionInv

LEMMA SessionSubmit == 
    ASSUME SessionInv, NEW w \in Windows, NEW a \in Accounts, Session!HandleSubmit(w, a) PROVE SessionInv'
<1> DEFINE new == [op |-> "login", window |-> w, account |-> a]
<1>1. new \in SessionRequest /\ new.op = "login"
  BY DEF SessionRequest, Session!LoginRequest
<1>2. net' = net \cup {new} /\ ui' = ui /\ db' = db
  BY DEF Session!HandleSubmit
<1> HIDE DEF new
<1>3. Session!TypeOK'
  BY <1>1, <1>2 DEF SessionInv, Session!TypeOK, SessionRequest
<1>4. ShownIsMounted' /\ (OneOfAll => OneOfAll') /\ (CompanyToo => CompanyToo')
  BY <1>1, <1>2 DEF SessionInv, ShownIsMounted, OneOfAll, CompanyToo
<1>5. QED
  BY <1>2, <1>3, <1>4 DEF SessionInv

LEMMA SessionFetch == ASSUME SessionInv, NEW w \in Windows, Session!ApiFetch(w) PROVE SessionInv'
<1> DEFINE new == [op |-> "page", window |-> w, token |-> db.accessToken, shown |-> ui[w].shown,
                   mounted |-> TRUE, relogged |-> ui[w].relogged]
<1>1. SessionOfType
  BY SessionType DEF SessionInv
<1>2. ui[w].ready /\ ui[w].at = "panel" /\ ui[w].shown # None
  BY DEF Session!ApiFetch, SessionInv, ShownIsMounted
<1>3. /\ new \in SessionRequest /\ new.op = "page" /\ new.window = w /\ new.token = db.accessToken 
      /\ new.shown = ui[w].shown /\ new.relogged = ui[w].relogged
  BY <1>1, <1>2 DEF SessionOfType, SessionRequest, Session!PageRequest, Session!Window, Session!Storage
<1>4. net' = net \cup {new} /\ ui' = ui /\ db' = db
  BY DEF Session!ApiFetch
<1> HIDE DEF new
<1>5. Session!TypeOK'
  BY <1>3, <1>4 DEF SessionInv, Session!TypeOK, SessionRequest
<1>6. ShownIsMounted'
  BY <1>2, <1>3, <1>4 DEF SessionInv, ShownIsMounted
<1>7. OneOfAll => OneOfAll'
  BY <1>2, <1>3, <1>4 DEF OneOfAll
<1>8. OneOfAll /\ CompanyToo => CompanyToo'
  BY <1>3, <1>4 DEF OneOfAll, CompanyToo
<1>9. QED
  BY <1>4, <1>5, <1>6, <1>7, <1>8 DEF SessionInv

LEMMA SessionLogin ==
    ASSUME Session!SessionConstants, SessionInv, NEW q \in net, Session!AnswerLogin(q) PROVE SessionInv'
<1> DEFINE login == [account |-> q.account, n |-> db.logins + 1]
           late == {r.op : r \in net} \ {"login"}
           s == [db EXCEPT !.accessToken = login, !.user = login, !.tenant = login, 
                           !.logins = @ + 1, !.overtaken = @ \cup late]
           windows == [w \in Windows |-> [ui[w] EXCEPT !.relogged = ui[w].at = "panel"]]
<1>1. SessionOfType
  BY SessionType DEF SessionInv
<1>2. q.op = "login" /\ q \in SessionRequest /\ q.window \in Windows /\ q.account \in Accounts
  BY <1>1, SessionOfOp DEF Session!AnswerLogin, SessionOfType
<1>3. CASE net' = net \ {q} /\ ui' = ui /\ db' = db
  <2>1. Session!TypeOK'
    BY <1>3 DEF SessionInv, Session!TypeOK
  <2>2. ShownIsMounted' /\ (OneOfAll => OneOfAll') /\ (CompanyToo => CompanyToo')
    BY <1>3 DEF SessionInv, ShownIsMounted, OneOfAll, CompanyToo
  <2> QED
    BY <1>3, <2>1, <2>2 DEF SessionInv
<1>4. CASE db.logins < MaxLogins /\ db' = s /\ Session!Mount(q.window, windows, s, net \ {q})
  <2>1. login \in Session!Login
    BY <1>1, <1>2, <1>4 DEF SessionOfType, Session!Storage, Session!Login, Session!SessionConstants
  <2>2. late \subseteq {"current", "page"}
    BY <1>1, SessionOfOp DEF SessionOfType
  <2>3. \A r \in net : r.op # "login" => r.op \in late
    OBVIOUS
  <2> HIDE DEF login, late
  <2>4. /\ s \in Session!Storage /\ s.accessToken = login /\ s.user = login /\ s.tenant = login
        /\ s.overtaken = db.overtaken \cup late
    <3>1. db \in Session!Storage /\ db.logins + 1 \in 0..MaxLogins
      BY <1>1, <1>4 DEF SessionOfType, Session!Storage, Session!SessionConstants
    <3>2. db.overtaken \cup late \in SUBSET {"current", "page"}
      BY <2>2, <3>1 DEF Session!Storage
    <3> QED
      BY <2>1, <3>1, <3>2 DEF Session!Storage
  <2>5. /\ windows \in [Windows -> Session!Window]
        /\ \A w \in Windows : /\ windows[w].at = ui[w].at /\ windows[w].ready = ui[w].ready
                              /\ windows[w].shown = ui[w].shown
                              /\ windows[w].relogged = (ui[w].at = "panel")
    BY <1>1 DEF SessionOfType, Session!Window
  <2>6. net \ {q} \in SUBSET SessionRequest
    BY <1>1 DEF SessionOfType
  <2>7. db' = s /\ Session!Mount(q.window, windows, s, net \ {q})
    BY <1>4
  <2> HIDE DEF s, windows
  <2>8. /\ ui' \in [Windows -> Session!Window] /\ net' \subseteq SessionRequest
        /\ \A v \in Windows : v # q.window => ui'[v] = windows[v]
        /\ ui'[q.window].ready => ui'[q.window].at = "panel"
        /\ ui'[q.window].at = "panel" => ui'[q.window].shown = login /\ login # None
        /\ \A r \in net' : 
              \/ \E p \in net : Comes(r, p) /\ (p.op # "login" /\ p.window = q.window => ~r.mounted)
              \/ Asks(r, q.window, s) /\ ui'[q.window].at = "panel"
    BY <1>2, <2>1, <2>4, <2>5, <2>6, <2>7, SessionMount
  <2>9. Session!TypeOK' /\ ShownIsMounted'
    <3>1. Session!TypeOK'
      BY <2>4, <2>7, <2>8 DEF Session!TypeOK, SessionRequest
    <3>2. \A v \in Windows : /\ ui'[v].ready => ui'[v].at = "panel"
                             /\ ui'[v].at = "panel" => ui'[v].shown # None
      BY <2>5, <2>8 DEF SessionInv, ShownIsMounted
    <3>3. ASSUME NEW r \in net', r.op # "login", r.mounted PROVE ui'[r.window].at = "panel"
      <4>1. CASE Asks(r, q.window, s) /\ ui'[q.window].at = "panel"
        BY <4>1 DEF Asks
      <4>2. ASSUME NEW p \in net, Comes(r, p), p.op # "login" /\ p.window = q.window => ~r.mounted
            PROVE  ui'[r.window].at = "panel"
        <5>1. p.op # "login" /\ p.mounted /\ p.window = r.window /\ p.window # q.window
          BY <3>3, <4>2 DEF Comes
        <5>2. p.window \in Windows
          BY <1>1, SessionOfOp DEF SessionOfType
        <5> QED
          BY <2>5, <2>8, <5>1, <5>2 DEF SessionInv, ShownIsMounted
      <4> QED
        BY <2>8, <4>1, <4>2
    <3> QED
      BY <3>1, <3>2, <3>3 DEF ShownIsMounted
  <2>10. ASSUME "current" \notin db'.overtaken PROVE OneOfAll'
    <3>1. "current" \notin db.overtaken /\ \A r \in net : r.op # "current"
      BY <2>3, <2>4, <2>7, <2>10
    <3>2. \A r \in net : r.op = "page" => r.token \in {None, r.shown} \/ r.relogged
      BY <3>1 DEF SessionInv, OneOfAll
    <3>3. \A r \in net' : r.op = "current" => r.token = login /\ r.shown = login
      BY <2>4, <2>8, <3>1 DEF Comes, Asks
    <3>4. \A r \in net' : r.op = "page" => r.token \in {None, r.shown} \/ r.relogged
      BY <2>8, <3>2 DEF Comes, Asks
    <3>5. \A v \in Windows : ui'[v].at = "panel" /\ ~ui'[v].relogged => ui'[v].shown = login
      <4>1. ASSUME NEW v \in Windows, v # q.window, ui'[v].at = "panel" PROVE ui'[v].relogged
        <5>1. ui[v].at = "panel" /\ ui'[v] = windows[v]
          BY <2>5, <2>8, <4>1
        <5> QED
          BY <2>5, <5>1
      <4> QED
        BY <2>8, <4>1
    <3> QED
      BY <2>4, <2>7, <3>3, <3>4, <3>5 DEF OneOfAll
  <2>11. ASSUME db'.overtaken = {} PROVE CompanyToo'
    <3>1. \A r \in net : r.op = "login"
      BY <2>3, <2>4, <2>7, <2>11
    <3>2. \A r \in net' : r.op # "page"
      BY <2>8, <3>1 DEF Comes, Asks
    <3> QED
      BY <2>4, <2>7, <3>2 DEF CompanyToo
  <2> QED
    BY <2>9, <2>10, <2>11 DEF SessionInv
<1>5. QED
  BY <1>3, <1>4 DEF Session!AnswerLogin, Session!Store

LEMMA SessionUnauthorized ==
    ASSUME SessionInv, NEW q \in net, Session!AnswerUnauthorized(q) PROVE SessionInv'
<1>1. q.window \in Windows
  BY SessionType, SessionOfOp DEF SessionInv, SessionOfType
<1>2. net \ {q} \in SUBSET net
  OBVIOUS
<1>3. /\ ui' = [ui EXCEPT ![q.window] = Session!Closed] /\ net' = Session!Left(q.window, net \ {q})
      /\ \/ db' = [db EXCEPT !.accessToken = None, !.user = None, !.tenant = None]
         \/ db' = [db EXCEPT !.accessToken = None]
  BY DEF Session!AnswerUnauthorized, Session!HandleLogout
<1>4. QED
  BY <1>1, <1>2, <1>3, SessionCloses

\* The shell, when it is told its company: what it stores is what it was mounted with.
LEMMA SessionCurrent ==
    ASSUME SessionInv, NEW q \in net, Session!AnswerCurrent(q) PROVE SessionInv'
<1>1. SessionOfType
  BY SessionType DEF SessionInv
<1>2. /\ q.op = "current" /\ q.window \in Windows /\ q.token \in Session!Login \cup {None} 
      /\ q.shown \in Session!Login
  BY <1>1, SessionOfOp DEF SessionOfType, Session!AnswerCurrent
<1>3. CASE Session!HandleLogout(q.window, net \ {q})
  BY <1>2, <1>3, SessionCloses DEF Session!HandleLogout
<1>4. CASE net' = net \ {q} /\ Session!Show(q) /\ (db' = db \/ db' = [db EXCEPT !.user = q.shown, !.tenant = q.token])
  <2>1. /\ ui' \in [Windows -> Session!Window]
        /\ \A v \in Windows : /\ ui'[v].at = ui[v].at /\ ui'[v].shown = ui[v].shown 
                              /\ ui'[v].relogged = ui[v].relogged
                              /\ ui'[v].ready => ui[v].ready \/ (v = q.window /\ q.mounted)
    <3>1. ui \in [Windows -> Session!Window]
      BY <1>1 DEF SessionOfType
    <3>2. CASE ~q.mounted
      BY <1>4, <3>1, <3>2 DEF Session!Show
    <3>3. CASE q.mounted
      <4> DEFINE x == [ui[q.window] EXCEPT !.ready = TRUE]
      <4>1. ui[q.window] \in Session!Window
        BY <1>2, <3>1
      <4>2. /\ x \in Session!Window /\ x.at = ui[q.window].at /\ x.shown = ui[q.window].shown
            /\ x.relogged = ui[q.window].relogged
        BY <4>1 DEF Session!Window
      <4>3. ui' = [ui EXCEPT ![q.window] = x]
        BY <1>4, <3>3 DEF Session!Show
      <4> HIDE DEF x
      <4> QED
        BY <1>2, <3>1, <3>3, <4>2, <4>3
    <3> QED
      BY <3>2, <3>3
  <2>2. /\ db' \in Session!Storage /\ db'.accessToken = db.accessToken /\ db'.overtaken = db.overtaken
        /\ \/ db'.user = db.user /\ db'.tenant = db.tenant
           \/ db'.user = q.shown /\ db'.tenant = q.token
    BY <1>1, <1>2, <1>4 DEF SessionOfType, Session!Storage
  <2>3. Session!TypeOK'
    BY <1>4, <2>1, <2>2 DEF SessionInv, Session!TypeOK
  <2>4. ShownIsMounted'
    <3>1. q.mounted => ui[q.window].at = "panel"
      BY <1>2 DEF SessionInv, ShownIsMounted
    <3>2. \A r \in net' : r.op # "login" => r.window \in Windows
      BY <1>1, <1>4, SessionOfOp DEF SessionOfType
    <3> QED
      BY <1>4, <2>1, <3>1, <3>2 DEF SessionInv, ShownIsMounted
  <2>5. OneOfAll => OneOfAll'
    BY <1>2, <1>4, <2>1, <2>2 DEF OneOfAll
  <2>6. OneOfAll /\ CompanyToo => CompanyToo'
    BY <1>2, <1>4, <2>2 DEF OneOfAll, CompanyToo
  <2> QED
    BY <2>2, <2>3, <2>4, <2>5, <2>6 DEF SessionInv
<1>5. QED
  BY <1>3, <1>4 DEF Session!AnswerCurrent

LEMMA SessionPage ==
    ASSUME SessionInv, NEW q \in net, Session!AnswerPage(q) PROVE SessionInv'
<1>1. SessionOfType
  BY SessionType DEF SessionInv
<1>2. q.op = "page" /\ q.token \in Session!Login \cup {None} /\ net' = net \ {q} /\ ui' = ui
  BY <1>1, SessionOfOp DEF SessionOfType, Session!AnswerPage
<1>3. /\ db' \in Session!Storage 
      /\ UNCHANGED <<db.accessToken, db.user, db.overtaken>>
      /\ db'.tenant = db.tenant \/ (db.user # None /\ q.token # None /\ db'.tenant = q.token)
  BY <1>1, <1>2 DEF Session!AnswerPage, Session!SynchronizeStoredTenant, Session!Refused, 
                    SessionOfType, Session!Storage
<1>4. Session!TypeOK' /\ ShownIsMounted'
  BY <1>2, <1>3 DEF SessionInv, Session!TypeOK, ShownIsMounted
<1>5. (OneOfAll => OneOfAll') /\ (CompanyToo => CompanyToo')
  BY <1>2, <1>3 DEF OneOfAll, CompanyToo
<1>6. QED
  BY <1>3, <1>4, <1>5 DEF SessionInv

LEMMA SessionExpires ==
    ASSUME SessionInv, NEW login \in Session!Login, Session!Expire(login) PROVE SessionInv'
<1>1. db \in Session!Storage /\ ui' = ui /\ net' = net
  BY DEF SessionInv, Session!TypeOK, Session!Expire
<1>2. /\ db' \in Session!Storage 
      /\ UNCHANGED <<db.accessToken, db.user, db.tenant, db.overtaken>>
  BY <1>1 DEF Session!Expire, Session!Storage
<1>3. Session!TypeOK' /\ ShownIsMounted' /\ (OneOfAll => OneOfAll') /\ (CompanyToo => CompanyToo')
  BY <1>1, <1>2 DEF SessionInv, Session!TypeOK, ShownIsMounted, OneOfAll, CompanyToo
<1>4. QED
  BY <1>2, <1>3 DEF SessionInv

LEMMA SessionInit == ASSUME Session!SessionConstants, Session!Init PROVE SessionInv
<1>1. Session!Closed \in Session!Window /\ Session!Closed.at = "login" /\ ~Session!Closed.ready
  BY DEF Session!Closed, Session!Window
<1>2. Session!TypeOK
  BY <1>1 DEF Session!Init, Session!TypeOK, Session!Storage, Session!SessionConstants
<1>3. ShownIsMounted /\ OneOfAll /\ CompanyToo
  BY <1>1 DEF Session!Init, ShownIsMounted, OneOfAll, CompanyToo
<1>4. QED
  BY <1>2, <1>3 DEF SessionInv

LEMMA SessionNext ==
    ASSUME Session!SessionConstants, SessionInv, Session!Next PROVE SessionInv'
<1>1. ASSUME NEW w \in Windows, Session!Logout(w) PROVE SessionInv'
  BY <1>1, SessionCloses DEF Session!Logout, Session!HandleLogout
<1>2. CASE Session!User
  BY <1>1, <1>2, SessionOpenPage, SessionFetch, SessionSubmit DEF Session!User
<1>3. ASSUME NEW q \in net, Session!Answer(q) PROVE SessionInv'
  BY <1>3, SessionLogin, SessionUnauthorized, SessionCurrent, SessionPage DEF Session!Answer
<1>4. QED
  BY <1>2, <1>3, SessionExpires DEF Session!Next

LEMMA SessionOneLogin == ASSUME SessionInv PROVE Session!OneLogin
BY DEF SessionInv, OneOfAll, CompanyToo, Session!OneLogin

----------------------------------------------------------------------------
(* The panel *)

\* The invariant of the page that is mounted.
PanelInv ==
    \/ On("settings") /\ SettingsInv
    \/ On("team")     /\ TeamInv
    \/ On("agenda")   /\ AgendaInv /\ db = None
    \/ On("hours")    /\ WeekInv
    \/ On("session")  /\ SessionInv

LEMMA PanelInit == Init => PanelInv
BY PanelAssumption, SettingsInit, TeamInit, AgendaInit, WeekInit, SessionInit 
   DEF PanelAssumption, Init, PanelInv

LEMMA PanelNext == PanelInv /\ [Next]_vars => PanelInv'
<1> SUFFICES ASSUME PanelInv, [Next]_vars PROVE PanelInv'
  OBVIOUS
<1> USE PanelAssumption DEF PanelAssumption, PanelInv, On
<1>1. CASE On("settings") /\ Settings!Next /\ UNCHANGED route
  BY <1>1, SettingsNext
<1>2. CASE On("team") /\ Team!Next /\ UNCHANGED route
  BY <1>2, TeamNext
<1>3. CASE On("agenda") /\ Agenda!Next /\ UNCHANGED <<db, route>>
  BY <1>3, AgendaNext
<1>4. CASE On("hours") /\ Week!Next /\ UNCHANGED route
  BY <1>4, WeekNext
<1>5. CASE On("session") /\ Session!Next /\ UNCHANGED route
  BY <1>5, SessionNext
<1>6. CASE UNCHANGED vars
  <2>1. ui' = ui /\ net' = net /\ db' = db /\ route' = route
    BY <1>6 DEF vars
  <2>2. SettingsInv => SettingsInv'
    BY <2>1 DEF SettingsInv, Settings!TypeOK, Settings!EditsAreKept, Unchanged, Stages, TabStored, 
                LogoStored, Settings!IsTabDirty, Settings!FieldsOf
  <2>3. TeamInv => TeamInv'
    BY <2>1 DEF TeamInv, TeamOfType, TeamSaves, TeamOwn, Team!ServicesAreTheirOwn, OnlyItsServices, 
                ItsServices, Team!InFlight
  <2>4. AgendaInv => AgendaInv'
    BY <2>1 DEF AgendaInv, AgendaOfType, AgendaSaves, Agenda!ListIsOfTheDate, ListsOfTheDate,
                SlotsOfTheLookup, SlotsOfTheSection, StatusBringsNoSlots, Agenda!SlotsAreOfTheForm, 
                Agenda!InFlight
  <2>5. WeekInv => WeekInv'
    BY <2>1 DEF WeekInv, WeekOfType, WeekSaves, DaysAsStored, ToStore, RemovedForGood, 
                ListsWithoutGone, Week!RemovedStaysAway, Week!Lists, PostsConverted
  <2>6. SessionInv => SessionInv'
    BY <2>1 DEF SessionInv, Session!TypeOK, ShownIsMounted, OneOfAll, CompanyToo
  <2> QED
    BY <2>1, <2>2, <2>3, <2>4, <2>5, <2>6
<1>7. QED
  BY <1>1, <1>2, <1>3, <1>4, <1>5, <1>6 DEF Next

THEOREM Invariance == Spec => []PanelInv
BY PanelInit, PanelNext, PTL DEF Spec

\* The page that is mounted, its requests and what the API stores of it are of their types,
\* and a page that is saving waits for one request that ends it.
THEOREM TypeCorrect == Spec => []TypeOK
<1>1. PanelInv => TypeOK
  BY TeamTypeOK, AgendaTypeOK, WeekTypeOK DEF PanelInv, TypeOK, SettingsInv, SessionInv
<1>2. QED
  BY <1>1, Invariance, PTL

\* A change of the settings stays in the form until it is stored or discarded, whatever fails
\* and whatever other administrators store meanwhile.
THEOREM ChangesAreKept == Spec => []EditsAreKept
<1>1. PanelInv => EditsAreKept
  BY DEF PanelInv, EditsAreKept, On, SettingsInv
<1>2. QED
  BY <1>1, Invariance, PTL

\* The services saved for an employee were checked on the employee's own list, as long as no
\* list of another's was on its way.
THEOREM ServicesAreChecked == Spec => []ServicesAreTheirOwn
<1>1. PanelInv => ServicesAreTheirOwn
  BY DEF PanelInv, ServicesAreTheirOwn, On, TeamInv, TeamOwn
<1>2. QED
  BY <1>1, Invariance, PTL

\* The agenda lists the date it shows, unless the date changed while an older list was coming.
THEOREM DateIsListed == Spec => []ListIsOfTheDate
<1>1. PanelInv => ListIsOfTheDate
  BY DEF PanelInv, ListIsOfTheDate, On, AgendaInv
<1>2. QED
  BY <1>1, Invariance, PTL

\* An appointment is created at, and moved to, a time that was offered for what is sent with it.
THEOREM TimesAreOffered == Spec => []SlotsAreOfTheForm
<1>1. PanelInv => SlotsAreOfTheForm
  BY DEF PanelInv, SlotsAreOfTheForm, On, AgendaInv
<1>2. QED
  BY <1>1, Invariance, PTL

\* A blocked time that was removed does not come back with a list that was read before.
THEOREM RemovedIsGone == Spec => []RemovedStaysAway
<1>1. PanelInv => RemovedStaysAway
  BY DEF PanelInv, RemovedStaysAway, On, WeekInv
<1>2. QED
  BY <1>1, Invariance, PTL

\* A blocked time is sent as the instant at which the company's clocks show what was entered,
\* in any zone, away from a change of its offset.
THEOREM BlockedAtItsTime == Spec => []BlockedAsEntered
<1>1. PanelInv => BlockedAsEntered
  BY PanelAssumption, WeekBlocked DEF PanelAssumption, PanelInv, BlockedAsEntered, On
<1>2. QED
  BY <1>1, Invariance, PTL

\* The token and the user in the browser are of one login, however many windows log in and out.
THEOREM OneAccount == Spec => []OneLogin
<1>1. PanelInv => OneLogin
  BY SessionOneLogin DEF PanelInv, OneLogin, On
<1>2. QED
  BY <1>1, Invariance, PTL

\* A save of the settings changes only the section that is active and was edited.
THEOREM SectionsStay == Spec => OthersSectionsStay
<1>1. PanelInv /\ [Next]_vars => [On("settings") => Settings!OnlyChangedSection]_vars
  <2> SUFFICES ASSUME PanelInv, Next, On("settings") PROVE Settings!OnlyChangedSection
    OBVIOUS
  <2> QED
    BY SettingsChanges DEF PanelInv, Next, On
<1>2. QED
  BY <1>1, Invariance, PTL DEF Spec, OthersSectionsStay

\* A save of the week changes only days the user changed, or somebody else meanwhile.
THEOREM DaysStay == Spec => OnlyEditedDays
<1>1. PanelInv /\ [Next]_vars => [On("hours") => Week!OnlyEditedDays]_vars
  <2> SUFFICES ASSUME PanelInv, Next, On("hours") PROVE Week!OnlyEditedDays
    OBVIOUS
  <2> QED
    BY WeekChanges DEF PanelInv, Next, On
<1>2. QED
  BY <1>1, Invariance, PTL DEF Spec, OnlyEditedDays
=============================================================================
