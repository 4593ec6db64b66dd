---------------------------- MODULE SessionPages ----------------------------
(***************************************************************************)
(* The session in the browser: what app/login/page.tsx puts into           *)
(* localStorage, what lib/api.ts and components/panel-shell.tsx take out   *)
(* of it and put back.  Every window of the browser shares it.             *)
(*                                                                         *)
(* A page reads the user once, when it is mounted, and the token anew for  *)
(* every request.  Leaving a page inside the panel aborts none.            *)
(***************************************************************************)
EXTENDS FiniteSets, Naturals

CONSTANTS Windows, Accounts,
          MaxLogins,     \* bound: logins there ever are
          MaxRequests,   \* bound: requests in flight
          None

SessionConstants == MaxLogins \in Nat /\ MaxRequests \in Nat

VARIABLES ui, net, db
vars == <<ui, net, db>>

\* The n-th login there was: an accessToken, or the user or the company that came with it.
Login == [account : Accounts, n : 1..MaxLogins]

\* shown is the user a page of the panel was mounted with, ready whether it is on show;
\* relogged, history: somebody logged in since, in another window.
Window == [at : {"login", "panel"}, shown : Login \cup {None}, ready : BOOLEAN, relogged : BOOLEAN]

\* localStorage: accessToken and currentUser, with its user and its tenant; and the tokens that
\* have expired.  overtaken, history: what was under way when somebody logged in.
Storage == [accessToken : Login \cup {None}, user : Login \cup {None}, 
            tenant : Login \cup {None}, expired : SUBSET Login, logins : 0..MaxLogins,
            overtaken : SUBSET {"current", "page"}]

LoginRequest == [op : {"login"}, window : Windows, account : Accounts]
\* GET /tenants/current of the shell and any request of a page; mounted, while the page that
\* sent it is; shown and relogged are those of the window.
PageRequest == [op : {"current", "page"}, window : Windows, token : Login \cup {None}, 
                shown : Login, mounted : BOOLEAN, relogged : BOOLEAN]

TypeOK == ui \in [Windows -> Window] /\ db \in Storage /\ net \subseteq LoginRequest \cup PageRequest

Closed == [at |-> "login", shown |-> None, ready |-> FALSE, relogged |-> FALSE]

Init ==
    /\ ui = [w \in Windows |-> Closed] /\ net = {}
    /\ db = [accessToken |-> None, user |-> None, tenant |-> None, expired |-> {}, logins |-> 0, 
             overtaken |-> {}]

Room == Cardinality(net) < MaxRequests

----------------------------------------------------------------------------
(* Pages *)

Left(w, requests) == {IF q.op # "login" /\ q.window = w THEN [q EXCEPT !.mounted = FALSE] ELSE q : 
                         q \in requests}

\* A page of the panel is mounted in w over storage s, and its shell asks for the company;
\* without a token or a user it goes to the login.
Mount(w, windows, s, requests) ==
    IF None \in {s.accessToken, s.user} 
    THEN ui' = [windows EXCEPT ![w] = Closed] /\ net' = Left(w, requests)
    ELSE /\ ui' = [windows EXCEPT ![w] = [at |-> "panel", shown |-> s.user, 
                                          ready |-> FALSE, relogged |-> FALSE]]
         /\ net' = Left(w, requests) \cup
                     {[op |-> "current", window |-> w, token |-> s.accessToken, shown |-> s.user,
                       mounted |-> TRUE, relogged |-> FALSE]}

\* handleLogout, in w
HandleLogout(w, requests) ==
    /\ ui' = [ui EXCEPT ![w] = Closed] /\ net' = Left(w, requests)
    /\ db' = [db EXCEPT !.accessToken = None, !.user = None, !.tenant = None]

----------------------------------------------------------------------------
(* The user *)

HandleSubmit(w, a) ==
    /\ Room /\ ui[w].at = "login" /\ \A q \in net : ~(q.op = "login" /\ q.window = w)
    /\ net' = net \cup {[op |-> "login", window |-> w, account |-> a]} /\ UNCHANGED <<ui, db>>

\* A page of the panel, by the menu or the browser's history; or by its address, which
\* aborts what the window is waiting for.
OpenPage(w) ==
    /\ Room /\ UNCHANGED db
    /\ \E requests \in {net, {q \in net : q.window # w}} : Mount(w, ui, db, requests)

Logout(w) == ui[w].ready /\ HandleLogout(w, net)

\* apiFetch, by a page that is on show
ApiFetch(w) ==
    /\ Room /\ ui[w].ready
    /\ net' = net \cup {[op |-> "page", window |-> w, token |-> db.accessToken, shown |-> ui[w].shown,
                         mounted |-> TRUE, relogged |-> ui[w].relogged]}
    /\ UNCHANGED <<ui, db>>

----------------------------------------------------------------------------
(* The answers *)

\* mutant: the user that is stored stays
StoreTokenOnly(login) == 
    [db EXCEPT !.accessToken = login, !.user = IF @ = None THEN login ELSE @, !.tenant = login]

Store(login) == [db EXCEPT !.accessToken = login, !.user = login, !.tenant = login]

\* The token and the user are stored, and a page of the panel is opened; or refused.
AnswerLogin(q) ==
    LET login == [account |-> q.account, n |-> db.logins + 1]
        late == {r.op : r \in net} \ {"login"}
        s == [Store(login) EXCEPT !.logins = @ + 1, !.overtaken = @ \cup late]
    IN
    /\ q.op = "login"
    /\ \/ /\ db.logins < MaxLogins /\ db' = s
          /\ Mount(q.window, [w \in Windows |-> [ui[w] EXCEPT !.relogged = ui[w].at = "panel"]], 
                   s, net \ {q})
       \/ net' = net \ {q} /\ UNCHANGED <<ui, db>>

Refused(q) == q.token = None \/ q.token \in db.expired

\* A 401: apiFetch takes the accessToken away, whichever it is by now, and the page logs
\* out, or goes to the login and leaves the user.
AnswerUnauthorized(q) ==
    /\ q.op # "login" /\ Refused(q)
    /\ \/ HandleLogout(q.window, net \ {q})
       \/ /\ q.op = "page" /\ db' = [db EXCEPT !.accessToken = None]
          /\ ui' = [ui EXCEPT ![q.window] = Closed] /\ net' = Left(q.window, net \ {q})

Show(q) == ui' = IF q.mounted THEN [ui EXCEPT ![q.window].ready = TRUE] ELSE ui

\* The shell stores the user it was mounted with anew, with the company it was told; an
\* error leaves the user as he is; without an answer it logs out.
AnswerCurrent(q) ==
    /\ q.op = "current" 
    /\ \/ /\ ~Refused(q) /\ net' = net \ {q} /\ Show(q) 
          /\ db' = [db EXCEPT !.user = q.shown, !.tenant = q.token]
       \/ net' = net \ {q} /\ Show(q) /\ UNCHANGED db
       \/ HandleLogout(q.window, net \ {q})

\* The settings store the company they read back with the user who is there by now.
SynchronizeStoredTenant(q) == db' = [db EXCEPT !.tenant = IF db.user = None THEN @ ELSE q.token]

AnswerPage(q) ==
    /\ q.op = "page" /\ net' = net \ {q} /\ UNCHANGED ui
    /\ UNCHANGED db \/ (~Refused(q) /\ SynchronizeStoredTenant(q))

Expire(login) ==
    /\ login \notin db.expired /\ login.n <= db.logins
    /\ db' = [db EXCEPT !.expired = @ \cup {login}] /\ UNCHANGED <<ui, net>>

----------------------------------------------------------------------------
(* Specification *)

User == \E w \in Windows : \/ OpenPage(w) \/ Logout(w) \/ ApiFetch(w)
                           \/ \E a \in Accounts : HandleSubmit(w, a)

Answer(q) == AnswerLogin(q) \/ AnswerUnauthorized(q) \/ AnswerCurrent(q) \/ AnswerPage(q)

Next == User \/ (\E q \in net : Answer(q)) \/ \E login \in Login : Expire(login)

Spec == Init /\ [][Next]_vars

----------------------------------------------------------------------------
(* Properties *)

\* The token and the user in localStorage are of one login, unless a shell was asking for its
\* company while somebody logged in, and the company too, unless any page was waiting; and a 
\* page sends the token of the user it shows, unless somebody has logged in, in another window,
\* since it was opened.
OneLogin == "current" \in db.overtaken \/
    /\ None \in {db.accessToken, db.user} \/ db.accessToken = db.user
    /\ db.overtaken # {} \/ db.tenant = db.user
    /\ \A q \in net : q.op = "page" => q.token \in {None, q.shown} \/ q.relogged
=============================================================================
