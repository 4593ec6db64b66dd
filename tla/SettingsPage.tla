---------------------------- MODULE SettingsPage ----------------------------
(***************************************************************************)
(* The settings of the company (apps/web/app/configuracoes/page.tsx) with  *)
(* the API behind it (tenants.service.ts, tenant-logo.service.ts): four    *)
(* sections of one form, saved one at a time, one of them with a logo that *)
(* is a request of its own.  Another administrator changes the same row.   *)
(*                                                                         *)
(* handleSubmit is up to three requests one after the other, each may be   *)
(* refused, lost on its way or answered into the void; the API's part of a *)
(* request and the page's reaction to the answer are two actions.          *)
(***************************************************************************)
EXTENDS Naturals

CONSTANTS Tabs, Fields,
          TabOf,     \* TAB_FIELDS: the section each field is in
          LogoTab,   \* 'aparencia'
          Values, Logos, None

VARIABLES
    ui,    \* the component's state
    net,   \* the request in flight
    db     \* the Tenant row, its TenantLogo row, and history

vars == <<ui, net, db>>

Form == [Fields -> Values]
NoWish == [f \in Fields |-> None]

\* form and saved are the two copies of the settings, logo is selectedLogo;
\* doing is what saving or removingLogo waits for.
Page == [form : Form, saved : Form, tab : Tabs, logo : Logos \cup {None},
         shownLogo : Logos \cup {None}, doing : {"nothing", "patch", "upload", "reload", 
                                                   "remove", "reloadRemoved"}]

\* What the API has to do, and what it answered.
Request == [op : {"get", "patch", "upload", "remove"}, answer : {"none", "ok", "error"},
            row : Form, logo : Logos \cup {None}]

\* What the composition, Panel, assumes of the constants: None is none of the values it
\* stands in for.
SettingsConstants ==
    /\ TabOf \in [Fields -> Tabs] /\ LogoTab \in Tabs
    /\ None \notin Values \cup Logos \cup Request

\* wish: history, what the user wrote into a field and no request has stored since;
\* choice: the same for the logo.
Tenant == [row : Form, logo : Logos \cup {None}, 
           wish : [Fields -> Values \cup {None}], choice : Logos \cup {None}]

TypeOK ==
    /\ ui \in Page /\ net \in Request \cup {None} /\ db \in Tenant
    /\ (ui.doing = "nothing") <=> (net = None)

\* loadTenant has been answered.
Init ==
    /\ db \in [row : Form, logo : Logos \cup {None}, wish : {NoWish}, choice : {None}]
    /\ ui = [form |-> db.row, saved |-> db.row, tab |-> LogoTab, logo |-> None, 
             shownLogo |-> db.logo, doing |-> "nothing"]
    /\ net = None

----------------------------------------------------------------------------
(* The user *)

FieldsOf(tab) == {f \in Fields : TabOf[f] = tab}

\* isTabDirty, without the logo and with it.
IsTabDirty(tab) == \E f \in FieldsOf(tab) : ui.form[f] # ui.saved[f]
ActiveTabDirty == IsTabDirty(ui.tab) \/ (ui.tab = LogoTab /\ ui.logo # None)

\* pickTabValues: the active section's values of one form, the others' of another.
Section(these, others) == [f \in Fields |-> IF TabOf[f] = ui.tab THEN these[f] ELSE others[f]]

Idle == ui.doing = "nothing"

ChangeTab(tab) ==
    /\ Idle /\ tab # ui.tab
    /\ ui' = [ui EXCEPT !.tab = tab] /\ UNCHANGED <<net, db>>

UpdateField(f, v) ==
    /\ Idle /\ f \in FieldsOf(ui.tab) /\ v # ui.form[f]
    /\ ui' = [ui EXCEPT !.form[f] = v]
    /\ db' = [db EXCEPT !.wish[f] = IF v = ui.saved[f] THEN None ELSE v]
    /\ UNCHANGED net

DiscardActiveChanges ==
    /\ Idle /\ ActiveTabDirty
    /\ ui' = [ui EXCEPT !.form = Section(ui.saved, @),
                        !.logo = IF ui.tab = LogoTab THEN None ELSE @]
    /\ db' = [db EXCEPT !.wish = Section(NoWish, @),
                        !.choice = IF ui.tab = LogoTab THEN None ELSE @]
    /\ UNCHANGED net

SelectLogo(l) ==
    /\ Idle /\ ui.tab = LogoTab /\ l # ui.logo
    /\ ui' = [ui EXCEPT !.logo = l] /\ db' = [db EXCEPT !.choice = l]
    /\ UNCHANGED net

\* The payload of a PATCH is the form's fields of the active section: the others keep
\* in the row whatever they have there.
Send(doing, op) ==
    /\ ui' = [ui EXCEPT !.doing = doing]
    /\ net' = [op |-> op, answer |-> "none", row |-> ui.form, logo |-> ui.logo]
    /\ UNCHANGED db

HandleSubmit ==
    /\ Idle /\ ActiveTabDirty
    /\ IF IsTabDirty(ui.tab) THEN Send("patch", "patch") ELSE Send("upload", "upload")

\* 'Cancelar seleção'
ForgetLogo ==
    /\ Idle /\ ui.tab = LogoTab /\ ui.logo # None
    /\ ui' = [ui EXCEPT !.logo = None] /\ db' = [db EXCEPT !.choice = None]
    /\ UNCHANGED net

\* The button is there for a logo that is stored.
HandleRemoveLogo ==
    /\ Idle /\ ui.tab = LogoTab /\ ui.shownLogo # None
    /\ Send("remove", "remove")

----------------------------------------------------------------------------
(* The API *)

BuildWholePayload(row) == net.row   \* mutant: sends every section

\* buildPayload, and the columns of the row that keep their value
BuildPayload(row) == Section(net.row, row)

\* PATCH /tenants/current; GET and POST and DELETE of the logo.
Effect == 
    CASE net.op = "patch"  -> [db EXCEPT !.row = BuildPayload(@), !.wish = Section(NoWish, @)]
      [] net.op = "upload" -> [db EXCEPT !.logo = net.logo, !.choice = None]
      [] net.op = "remove" -> [db EXCEPT !.logo = None, !.choice = None]
      [] net.op = "get"    -> db

\* Done and answered, with the row as it is now for a GET; or refused.
Serve ==
    /\ net # None /\ net.answer = "none"
    /\ \/ /\ db' = Effect
          /\ net' = [net EXCEPT !.answer = "ok", !.row = db.row, !.logo = db.logo]
       \/ net' = [net EXCEPT !.answer = "error"] /\ UNCHANGED db
    /\ UNCHANGED ui

\* The connection breaks, before or after the API has done its part.
Lose ==
    /\ net # None /\ net.answer # "error"
    /\ net' = [net EXCEPT !.answer = "error"]
    /\ UNCHANGED <<ui, db>>

\* Another administrator saves one field, or replaces the logo.
OtherSaves ==
    /\ \/ \E f \in Fields, v \in Values : db' = [db EXCEPT !.row[f] = v]
       \/ \E l \in Logos \cup {None} : db' = [db EXCEPT !.logo = l]
    /\ UNCHANGED <<ui, net>>

----------------------------------------------------------------------------
(* The answers *)

Answered(doing) == ui.doing = doing /\ net.answer = "ok"
Settle(p) == ui' = [p EXCEPT !.doing = "nothing"] /\ net' = None

PatchedWithoutLogo ==   \* mutant: after the fields the section counts as saved
    /\ Answered("patch") /\ Send("reload", "get")

Patched ==
    /\ Answered("patch")
    /\ IF ui.tab = LogoTab /\ ui.logo # None THEN Send("upload", "upload") 
                                             ELSE Send("reload", "get")

Uploaded == Answered("upload") /\ Send("reload", "get")

\* Only the values of the active section are taken over.
Reloaded ==
    /\ Answered("reload")
    /\ Settle([ui EXCEPT !.saved = Section(net.row, @), !.form = Section(net.row, @), !.shownLogo = net.logo,
                         !.logo = IF ui.tab = LogoTab THEN None ELSE @])
    /\ UNCHANGED db

Removed == Answered("remove") /\ Send("reloadRemoved", "get")

ReloadedRemoved ==
    /\ Answered("reloadRemoved")
    /\ Settle([ui EXCEPT !.shownLogo = net.logo, !.logo = None])
    /\ UNCHANGED db

\* The catch clauses: what was stored before the request that failed stays stored, and
\* the form stays as it is.
Failed ==
    /\ net # None /\ net.answer = "error"
    /\ Settle(ui) /\ UNCHANGED db

----------------------------------------------------------------------------
(* Specification *)

User == \/ \E tab \in Tabs : ChangeTab(tab)
        \/ \E f \in Fields, v \in Values : UpdateField(f, v)
        \/ \E l \in Logos : SelectLogo(l)
        \/ DiscardActiveChanges \/ ForgetLogo \/ HandleSubmit \/ HandleRemoveLogo

Answer == Serve \/ Patched \/ Uploaded \/ Reloaded \/ Removed \/ ReloadedRemoved \/ Failed

Next == User \/ Answer \/ Lose \/ OtherSaves

Spec == Init /\ [][Next]_vars

----------------------------------------------------------------------------
(* Properties *)

\* A change the user made, in whatever section, is in the form until it is stored or
\* discarded: no save of another section, no failure between the requests of a save
\* and no answer that was lost takes it away unseen.
EditsAreKept == 
    /\ \A f \in Fields : db.wish[f] # None => ui.form[f] = db.wish[f]
    /\ db.choice # None => ui.logo = db.choice

\* A request of this page changes what is stored only in a section its user changed,
\* so that what others saved meanwhile in the other sections stays.
OnlyChangedSection == net' # net => 
    \A f \in Fields : db'.row[f] # db.row[f] => IsTabDirty(TabOf[f])
OthersSectionsStay == [][OnlyChangedSection]_vars
=============================================================================
