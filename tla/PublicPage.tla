----------------------------- MODULE PublicPage -----------------------------
(***************************************************************************)
(* The public booking page (apps/web/app/agendar/[slug]/page.tsx) with its *)
(* Turnstile widget (components/turnstile-widget.tsx), the visitor who     *)
(* uses it, and the API that answers it (public-booking).                  *)
(*                                                                         *)
(* A click, an answer or a callback of the widget is one action, with the  *)
(* React effects its changes of state set off: React runs them before it   *)
(* handles the next click.  An aborted request is never heard of again.    *)
(* A day is one date, and the API's transaction (Booking) one step.  The   *)
(* phone, by which alone the API knows a client, is not kept: the visitor  *)
(* may give another one with every request, or that of another client.     *)
(***************************************************************************)
EXTENDS Integers, FiniteSets, Turnstile

CONSTANTS Services, Employees, Dates, Slots,
          Performs,    \* EmployeeService: <<employee, service>>
          Today,       \* the date the page starts with
          Configs,     \* the API's Turnstile configurations
          MaxOthers,   \* bound: appointments other clients make
          MaxAdrift,   \* bound: requests that are under way when the page has given them up
          None

ASSUME SortsAssumption ==
    /\ Performs \subseteq Employees \X Services /\ Today \in Dates /\ Configs \subseteq Config
    /\ None \notin Services \cup Employees \cup Dates \cup Slots
    /\ MaxOthers \in Nat /\ MaxAdrift \in Nat

Choice == [service : Services, employee : Employees, date : Dates, slot : Slots]
Lookup == [service : Services, employee : Employees, date : Dates]

VARIABLES
    page,     \* the component's state
    token,    \* turnstileToken: what has become of the token the page holds
    widget,   \* the widget, while it is shown
    online,   \* navigator.onLine
    post,     \* the POST the page waits for
    adrift,   \* the POSTs whose connection broke, and that the API may still serve
    config,   \* the API's configuration
    appts,    \* the appointments that occupy a slot
    near,     \* the times less than bookingMinAdvanceMinutes away
    told,     \* history: the choices the visitor saw confirmed
    lost      \* history: the choices whose answer never arrived

vars == <<page, token, widget, online, post, adrift, config, appts, near, told, lost>>

\* NEXT_PUBLIC_TURNSTILE_ENABLED follows the API's setting.
Required == IsEnabled(config)

----------------------------------------------------------------------------
(* State *)

\* The lists keep what they were loaded for; the requests in flight and not
\* aborted are named by what they look up.
Page == [service : Services \cup {None}, employee : Employees \cup {None},
         date : Dates \cup {None}, slot : Slots \cup {None},
         employees : SUBSET (Employees \X Services), slots : SUBSET Choice,
         loadingEmployees : BOOLEAN, employeesAsked : SUBSET Services,
         loadingSlots : BOOLEAN, slotsAsked : SUBSET Lookup,
         saving : BOOLEAN, confirmation : Choice \cup {None}]

\* "orphan": the widget that issued it is gone, so nobody will report that it expired.
Tokens == {"fresh", "orphan", "expired", "sent"}
Widgets == {"gone", "solving", "solved", "failed"}

\* `token` is what was sent; `answer` the status, once there is one.
Post == [choice : Choice, token : Tokens \cup {None}, 
         answer : {0, 201, 400, 403, 409, 429, 503}]
\* `mine`: by this page; `good`: its request carried a token that was still good.
Appointment == [date : Dates, employee : Employees, slot : Slots, mine : BOOLEAN, good : BOOLEAN]

\* None is none of the values it stands in for.
ASSUME NoneAssumption == None \notin Choice /\ None \notin Tokens /\ None \notin Post

TypeOK ==
    /\ page \in Page
    /\ token \in Tokens \cup {None} /\ widget \in Widgets /\ online \in BOOLEAN
    /\ post \in Post \cup {None} /\ adrift \subseteq Post /\ config \in Configs
    /\ appts \subseteq Appointment /\ near \subseteq Dates \X Slots
    /\ told \subseteq Choice /\ lost \subseteq Choice
    /\ (post # None) <=> page.saving

\* initialize: the tenant and its services are there.
Init ==
    /\ page = [service |-> None, employee |-> None, date |-> Today, slot |-> None,
               employees |-> {}, slots |-> {}, 
               loadingEmployees |-> FALSE, employeesAsked |-> {},
               loadingSlots |-> FALSE, slotsAsked |-> {},
               saving |-> FALSE, confirmation |-> None]
    /\ token = None /\ widget = "gone" /\ online = TRUE
    /\ post = None /\ adrift = {} /\ config \in Configs
    /\ appts = {} /\ near = {} /\ told = {} /\ lost = {}

Shown == page.confirmation = None   \* the page shows the form, not the confirmation

----------------------------------------------------------------------------
(* Effects *)

\* useEffect on the service: its cleanup aborts the request before.
EmployeesEffect(p) ==
    LET q == [p EXCEPT !.employee = None, !.slots = {}, !.slot = None] IN
    IF p.service = None THEN [q EXCEPT !.employees = {}, !.employeesAsked = {}]
    ELSE [q EXCEPT !.loadingEmployees = TRUE, !.employeesAsked = {p.service}]

\* mutant: no AbortController, so that an older request is heard of
SlotsEffectNoAbort(p) ==
    IF None \in {p.service, p.employee, p.date} 
    THEN [p EXCEPT !.slots = {}, !.slot = None]
    ELSE [p EXCEPT !.loadingSlots = TRUE, !.slot = None, !.slotsAsked = 
             @ \cup {[service |-> p.service, employee |-> p.employee, date |-> p.date]}]

\* useEffect on service, employee, date and slotsVersion.  The early return leaves
\* loadingSlots as it is.
SlotsEffect(p) ==
    IF None \in {p.service, p.employee, p.date} 
    THEN [p EXCEPT !.slots = {}, !.slot = None, !.slotsAsked = {}]
    ELSE [p EXCEPT !.loadingSlots = TRUE, !.slot = None, !.slotsAsked = 
             {[service |-> p.service, employee |-> p.employee, date |-> p.date]}]

\* The widget is mounted with the form, which is there once a slot is selected.
Mounted(p) == Required /\ p.slot # None /\ p.confirmation = None

\* The next page, with what its rendering does to the widget; `reset` is whether
\* turnstileResetKey changed.
Render(p, reset) ==
    /\ page' = p
    /\ widget' = IF ~Mounted(p) THEN "gone"
                 ELSE IF widget = "gone" THEN "solving"
                 ELSE IF ~reset THEN widget
                 ELSE IF online THEN "solving" ELSE "failed"

\* The widget is removed without a word to the page, which keeps the token.
Abandon(p) == IF token = "fresh" /\ ~Mounted(p) THEN "orphan" ELSE token

----------------------------------------------------------------------------
(* The visitor *)

ChooseService(v) ==
    /\ Shown
    /\ LET p == [page EXCEPT !.service = v]
           \* Both effects see the employee of before; its reset runs the second again.
           q == IF v = page.service THEN p ELSE SlotsEffect(EmployeesEffect(SlotsEffect(p)))
       IN Render(q, FALSE) /\ token' = Abandon(q)
    /\ UNCHANGED <<online, post, adrift, config, appts, near, told, lost>>

ChooseEmployee(x) ==
    /\ Shown /\ page.service # None /\ ~page.loadingEmployees
    /\ \E v \in Services : <<x, v>> \in page.employees
    /\ LET p == [page EXCEPT !.employee = x, !.slot = None]
           q == IF x = page.employee THEN p ELSE SlotsEffect(p)
       IN Render(q, FALSE) /\ token' = Abandon(q)
    /\ UNCHANGED <<online, post, adrift, config, appts, near, told, lost>>

ChooseDate(d) ==
    /\ Shown /\ page.employee # None /\ d # page.date
    /\ LET q == SlotsEffect([page EXCEPT !.date = d, !.slot = None])
       IN Render(q, FALSE) /\ token' = Abandon(q)
    /\ UNCHANGED <<online, post, adrift, config, appts, near, told, lost>>

ChooseSlot(t) ==
    /\ Shown /\ page.employee # None /\ ~page.loadingSlots
    /\ \E o \in page.slots : o.slot = t
    /\ Render([page EXCEPT !.slot = t], FALSE)
    /\ UNCHANGED <<token, online, post, adrift, config, appts, near, told, lost>>

Chosen == [service |-> page.service, employee |-> page.employee, 
           date |-> page.date, slot |-> page.slot]
CanSubmit == 
    /\ Shown /\ ~page.saving /\ page.slot # None
    /\ Required => token # None

\* handleSubmit, the time being less than the minimum away: look again.
SubmitLate ==
    /\ CanSubmit /\ <<page.date, page.slot>> \in near
    /\ LET q == SlotsEffect(page) IN Render(q, FALSE) /\ token' = Abandon(q)
    /\ UNCHANGED <<online, post, adrift, config, appts, near, told, lost>>

\* The token in the request: to the API an orphan is as good as another.
Carried == IF ~Required THEN None ELSE IF token = "orphan" THEN "fresh" ELSE token

\* handleSubmit, up to the answer; the visitor has entered a name and a phone, the same
\* as before or others.
Submit ==
    /\ CanSubmit /\ <<page.date, page.slot>> \notin near
    /\ post' = [choice |-> Chosen, token |-> Carried, answer |-> 0]
    /\ token' = IF Required THEN "sent" ELSE token
    /\ page' = [page EXCEPT !.saving = TRUE]
    /\ UNCHANGED <<widget, online, adrift, config, appts, near, told, lost>>

\* startAgain
StartAgain ==
    /\ ~Shown
    /\ LET p == [page EXCEPT !.service = None, !.employee = None, !.slot = None, 
                             !.employees = {}, !.slots = {}, !.date = Today, 
                             !.confirmation = None]
       IN Render(SlotsEffect(EmployeesEffect(p)), TRUE)
    /\ token' = None
    /\ UNCHANGED <<online, post, adrift, config, appts, near, told, lost>>

----------------------------------------------------------------------------
(* The API and the network *)

\* findEmployees; an error leaves the list as it was.
AnswerEmployees(v) ==
    /\ v \in page.employeesAsked
    /\ \E ok \in BOOLEAN :
          page' = [page EXCEPT !.employeesAsked = @ \ {v}, !.loadingEmployees = FALSE,
                               !.employees = IF ok THEN {e \in Performs : e[2] = v} ELSE @]
    /\ UNCHANGED <<token, widget, online, post, adrift, config, appts, near, told, lost>>

Occupied(x, d, t) == \E a \in appts : a.employee = x /\ a.date = d /\ a.slot = t

\* findAvailability, for an employee that performs the service; what is too near is
\* filtered out by the API and by the page.
Offered(l) == {o \in Choice : /\ o.service = l.service /\ o.employee = l.employee /\ o.date = l.date
                              /\ ~Occupied(o.employee, o.date, o.slot)
                              /\ <<o.date, o.slot>> \notin near}

AnswerSlotsUnfinished(l) ==   \* mutant: an error leaves the spinner, for want of a finally
    /\ l \in page.slotsAsked
    /\ \E ok \in BOOLEAN :
          page' = [page EXCEPT !.slotsAsked = @ \ {l}, !.loadingSlots = ~ok, !.slots =
                      IF ok /\ <<l.employee, l.service>> \in Performs THEN Offered(l) ELSE {}]
    /\ UNCHANGED <<token, widget, online, post, adrift, config, appts, near, told, lost>>

AnswerSlots(l) ==
    /\ l \in page.slotsAsked
    /\ \E ok \in BOOLEAN :
          page' = [page EXCEPT !.slotsAsked = @ \ {l}, !.loadingSlots = FALSE, !.slots =
                      IF ok /\ <<l.employee, l.service>> \in Performs THEN Offered(l) ELSE {}]
    /\ UNCHANGED <<token, widget, online, post, adrift, config, appts, near, told, lost>>

\* createAppointment, once the token of request p is accepted: the time must be free, and
\* the client of that phone must have no other appointment at it.
Book(p) ==
    LET c == p.choice IN
    IF <<c.date, c.slot>> \in near \/ <<c.employee, c.service>> \notin Performs THEN {400}
    ELSE IF Occupied(c.employee, c.date, c.slot) THEN {409}
    ELSE IF \E a \in appts : a.date = c.date /\ a.slot = c.slot 
    THEN {201, 409}   \* by the phone, the client of that appointment or another
    ELSE {201}

Good(p) == p.token = "fresh"

\* The limit of requests a minute comes first, then the token, then the booking.
\* Cloudflare approves a token once, and none that has expired.
Answer(p, verdict) ==
    LET status == Verify(config, p.token # None, verdict)
    IN IF status = 200 THEN Book(p) ELSE {status}
Answers(p) == {429} \cup UNION {Answer(p, verdict) : verdict \in
                                   {v \in Verdicts : v \in Approvals => Good(p)}}

\* What the API adds to its appointments with the answer.
Made(p, answer) ==
    IF answer # 201 THEN {}
    ELSE {[date |-> p.choice.date, employee |-> p.choice.employee, slot |-> p.choice.slot, 
           mine |-> TRUE, good |-> Good(p)]}

Serve ==
    /\ post # None /\ post.answer = 0
    /\ \E answer \in Answers(post) :
          /\ post' = [post EXCEPT !.answer = answer]
          /\ appts' = appts \cup Made(post, answer)
    /\ UNCHANGED <<page, token, widget, online, adrift, config, near, told, lost>>

\* The API serves a request of which the page has seen the failure.
ServeLate(p) ==
    /\ p \in adrift /\ adrift' = adrift \ {p}
    /\ \E answer \in Answers(p) :
          /\ appts' = appts \cup Made(p, answer)
          /\ lost' = IF answer = 201 THEN lost \cup {p.choice} ELSE lost
    /\ UNCHANGED <<page, token, widget, online, post, config, near, told>>

FinishKeepingToken(p) ==   \* mutant: the token stays
    /\ Render([p EXCEPT !.saving = FALSE], FALSE)
    /\ token' = token
    /\ post' = None
    /\ UNCHANGED <<online, config, appts, near>>

\* The `finally` of handleSubmit: a token that was sent is dropped, a new one asked for.
Finish(p) ==
    /\ Render([p EXCEPT !.saving = FALSE], Required)
    /\ token' = IF Required THEN None ELSE token
    /\ post' = None
    /\ UNCHANGED <<online, config, appts, near>>

ReceiveForSelection ==   \* mutant: confirms what is selected now
    /\ post # None /\ post.answer # 0
    /\ LET c == IF page.slot = None THEN post.choice ELSE Chosen IN
       IF post.answer = 201 
       THEN Finish([page EXCEPT !.confirmation = c]) /\ told' = told \cup {c}
       ELSE Finish(IF post.answer = 409 THEN SlotsEffect([page EXCEPT !.slot = None]) ELSE page)
            /\ UNCHANGED told
    /\ UNCHANGED <<adrift, lost>>

ReceiveIfUnchanged ==   \* mutant: the answer counts only for what is selected now
    /\ post # None /\ post.answer # 0
    /\ IF post.answer = 201 /\ post.choice = Chosen
       THEN Finish([page EXCEPT !.confirmation = post.choice]) /\ told' = told \cup {post.choice}
       ELSE Finish(IF post.answer = 409 THEN SlotsEffect([page EXCEPT !.slot = None]) ELSE page)
            /\ UNCHANGED told
    /\ UNCHANGED <<adrift, lost>>

Receive ==
    /\ post # None /\ post.answer # 0
    /\ IF post.answer = 201 
       THEN Finish([page EXCEPT !.confirmation = post.choice]) /\ told' = told \cup {post.choice}
       ELSE Finish(IF post.answer = 409 THEN SlotsEffect([page EXCEPT !.slot = None]) ELSE page)
            /\ UNCHANGED told
    /\ UNCHANGED <<adrift, lost>>

\* The connection breaks, before or after the API has done its part; a request it has
\* not served may yet arrive.
Lose ==
    /\ post # None
    /\ Finish(page)
    /\ lost' = IF post.answer = 201 THEN lost \cup {post.choice} ELSE lost
    /\ adrift' = IF post.answer = 0 /\ Cardinality(adrift) < MaxAdrift
                 THEN adrift \cup {post} ELSE adrift
    /\ UNCHANGED told

OtherBooks(x, d, t) ==
    /\ Cardinality({a \in appts : ~a.mine}) < MaxOthers
    /\ ~Occupied(x, d, t)
    /\ appts' = appts \cup {[date |-> d, employee |-> x, slot |-> t, mine |-> FALSE, good |-> FALSE]}
    /\ UNCHANGED <<page, token, widget, online, post, adrift, config, near, told, lost>>

TimePasses(d, t) ==
    /\ <<d, t>> \notin near /\ near' = near \cup {<<d, t>>}
    /\ UNCHANGED <<page, token, widget, online, post, adrift, config, appts, told, lost>>

----------------------------------------------------------------------------
(* The widget *)

Callback(w, tok) ==
    /\ widget' = w /\ token' = tok
    /\ UNCHANGED <<page, online, post, adrift, config, appts, near, told, lost>>

Solve == online /\ widget = "solving" /\ Callback("solved", "fresh")

\* error-callback and timeout-callback; expired-callback.
GiveUp == widget = "solving" /\ Callback("failed", None)
Expire == widget = "solved" /\ Callback("failed", None)

\* retryVerification, the button that is shown with an error.
Retry == online /\ widget = "failed" /\ Callback("solving", None)

\* The token of a widget that was removed expires unseen.
ExpireUnseen == token = "orphan" /\ Callback(widget, "expired")

\* handleOffline and handleOnline, while the widget is mounted.
GoOffline ==
    /\ online /\ online' = FALSE
    /\ token' = IF widget = "gone" THEN token ELSE None
    /\ UNCHANGED <<page, widget, post, adrift, config, appts, near, told, lost>>

GoOnline ==
    /\ ~online /\ online' = TRUE
    /\ IF widget = "gone" THEN UNCHANGED <<widget, token>> 
                          ELSE widget' = "solving" /\ token' = None
    /\ UNCHANGED <<page, post, adrift, config, appts, near, told, lost>>

----------------------------------------------------------------------------
(* Specification *)

Visitor == \/ \E v \in Services : ChooseService(v)
           \/ \E x \in Employees : ChooseEmployee(x)
           \/ \E d \in Dates \cup {None} : ChooseDate(d)
           \/ \E t \in Slots : ChooseSlot(t)
           \/ SubmitLate \/ Submit \/ StartAgain \/ Retry

AnswerLists == \/ \E v \in Services : AnswerEmployees(v)
               \/ \E l \in Lookup : AnswerSlots(l)
AnswerPost == Serve \/ Receive \/ Lose

World == \/ \E p \in adrift : ServeLate(p)
         \/ \E x \in Employees, d \in Dates, t \in Slots : OtherBooks(x, d, t)
         \/ \E d \in Dates, t \in Slots : TimePasses(d, t)
         \/ Solve \/ GiveUp \/ Expire \/ ExpireUnseen \/ GoOffline \/ GoOnline

Next == Visitor \/ AnswerLists \/ AnswerPost \/ World

Spec == Init /\ [][Next]_vars

\* A request is answered or fails; nothing is expected of the visitor.
FairSpec == Spec /\ WF_vars(AnswerLists) /\ WF_vars(AnswerPost)

----------------------------------------------------------------------------
(* Properties *)

\* README, 'Tokens enviados não são reutilizados': no request carries a token that
\* another one has carried.
TokenSentOnce == post # None => post.token # "sent"

\* An appointment the API made in production was verified by Cloudflare for this
\* page, with a real secret and a token that was still good.
BookedWasVerified == \A a \in appts : a.mine =>
    /\ Required => a.good
    /\ config.production => config.secret = "real" /\ config.hostnames = "page"

\* The times on show, and the one selected, are those of the service, the employee
\* and the date on show, however fast the visitor changes them.
SlotsAreOfTheChoice ==
    /\ ~page.loadingSlots => \A o \in page.slots :
          o.service = page.service /\ o.employee = page.employee /\ o.date = page.date
    /\ page.slot # None => Chosen \in page.slots

\* An appointment of the visitor has been confirmed to him, or is about to be, or
\* the answer to its request was lost.
BookedIsTold == \A a \in appts : a.mine =>
    \E c \in told \cup lost \cup (IF post = None THEN {} ELSE {post.choice}) :
        c.date = a.date /\ c.employee = a.employee /\ c.slot = a.slot

\* What the visitor saw confirmed, and what the page confirms now, he has, though he may
\* have chosen something else while he waited for the answer.
ConfirmedIsBooked == \A c \in (told \cup {page.confirmation}) \ {None} :
    \E a \in appts : 
        a.mine /\ a.date = c.date /\ a.employee = c.employee /\ a.slot = c.slot

\* A spinner on show, or the button that says 'Enviando', does not stay: the flag of
\* a request that was aborted is left set, but nowhere the visitor waits for it.
Waiting == \/ page.saving
           \/ Shown /\ page.service # None /\ page.loadingEmployees
           \/ Shown /\ page.employee # None /\ page.date # None /\ page.loadingSlots
WaitingEnds == Waiting ~> ~Waiting
=============================================================================
