------------------------------- MODULE Panel -------------------------------
(***************************************************************************)
(* The administrative panel: one of its pages with state of its own is     *)
(* mounted, and its handlers run on the page's state, the requests under   *)
(* way and what the API stores.  Pages share nothing in the browser but    *)
(* the session, which SessionPages has, and leaving a page unmounts it: a  *)
(* behaviour is a visit to one page, or the session with pages that only   *)
(* send requests.  An answer that comes after the visit changes nothing on *)
(* the next page.                                                          *)
(***************************************************************************)
EXTENDS Naturals

CONSTANTS Tabs, Fields, TabOf, LogoTab, Values, Logos,   \* of SettingsPage
          Employees, Services, Filters,                  \* of EmployeesPage
          Professionals, Offers, Dates, Appointments,    \* of AgendaPage: employees, services
          Days, Intervals, Default, Another, Blocks,     \* of HoursPage
          Zones, Times, SessionZone,                     \* of HoursPage
          Windows, Accounts,                             \* of SessionPages
          MaxLogins,                                     \* bound: logins there ever are
          MaxRequests,                                   \* bound: requests in flight
          None

VARIABLES 
    route,   \* the page that is mounted
    ui,      \* its state
    net,     \* its requests
    db       \* what the API stores of it
vars == <<route, ui, net, db>>

Settings == INSTANCE SettingsPage
Team     == INSTANCE EmployeesPage
Agenda   == INSTANCE AgendaPage WITH Employees <- Professionals, Services <- Offers
Week     == INSTANCE HoursPage
Session  == INSTANCE SessionPages

ASSUME PanelAssumption == 
    Settings!SettingsConstants /\ Team!EmployeesConstants /\ Agenda!AgendaConstants
    /\ Week!HoursConstants /\ Session!SessionConstants

On(r) == route = r

Init == \/ On("settings") /\ Settings!Init
        \/ On("team")     /\ Team!Init
        \/ On("agenda")   /\ Agenda!Init /\ db = None
        \/ On("hours")    /\ Week!Init
        \/ On("session")  /\ Session!Init

Next == /\ \/ On("settings") /\ Settings!Next
           \/ On("team")     /\ Team!Next
           \/ On("agenda")   /\ Agenda!Next /\ UNCHANGED db
           \/ On("hours")    /\ Week!Next
           \/ On("session")  /\ Session!Next
        /\ UNCHANGED route

Spec == Init /\ [][Next]_vars

----------------------------------------------------------------------------
(* Properties: those of the pages *)

TypeOK == \/ On("settings") /\ Settings!TypeOK
          \/ On("team")     /\ Team!TypeOK
          \/ On("agenda")   /\ Agenda!TypeOK /\ db = None
          \/ On("hours")    /\ Week!TypeOK
          \/ On("session")  /\ Session!TypeOK

\* A change the user made in the settings is in the form until it is stored or discarded
\* (SettingsPage).
EditsAreKept == On("settings") => Settings!EditsAreKept

\* A save of the settings changes only a section that was edited (SettingsPage).
OthersSectionsStay == [][On("settings") => Settings!OnlyChangedSection]_vars

\* The services saved for an employee were checked on the employee's own (EmployeesPage).
ServicesAreTheirOwn == On("team") => Team!ServicesAreTheirOwn

\* Services that were checked can be saved (EmployeesPage).
CheckedCanBeSaved == On("team") => Team!CheckedCanBeSaved

\* The appointments listed are of the date on show (AgendaPage).
ListIsOfTheDate == On("agenda") => Agenda!ListIsOfTheDate

\* A time is sent with the employee, service and date it was offered for (AgendaPage).
SlotsAreOfTheForm == On("agenda") => Agenda!SlotsAreOfTheForm

\* A save of the week changes only days the user has changed, if the hours could be loaded
\* (HoursPage).
OnlyEditedDays == [][On("hours") => Week!OnlyEditedDays]_vars

\* A blocked time that was removed does not come back on show (HoursPage).
RemovedStaysAway == On("hours") => Week!RemovedStaysAway

\* A blocked time is stored at the instant at which the company's clocks show what was
\* entered, away from a change of them (HoursPage).
BlockedAsEntered == On("hours") => Week!BlockedAsEntered

\* The token and the user in the browser are of one login (SessionPages).
OneLogin == On("session") => Session!OneLogin
=============================================================================
