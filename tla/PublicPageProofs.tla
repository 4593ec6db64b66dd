-------------------------- MODULE PublicPageProofs --------------------------
(***************************************************************************)
(* What holds of PublicPage for any services, employees, dates and times,  *)
(* any configurations of the API and any number of other clients.          *)
(***************************************************************************)
EXTENDS PublicPage, TLAPS

USE SortsAssumption, NoneAssumption

----------------------------------------------------------------------------
(* The inductive invariant *)

\* The lists of page p: one request at most is heard of, that of the selection; while
\* it is under way nothing is selected; what was selected is on show.
ListsInv(p) ==
    /\ p.slotsAsked # {} => p.loadingSlots
    /\ p.loadingSlots => p.slot = None
    /\ \A l \in p.slotsAsked : l.service = p.service /\ l.employee = p.employee /\ l.date = p.date
    /\ ~p.loadingSlots => \A o \in p.slots :
          o.service = p.service /\ o.employee = p.employee /\ o.date = p.date
    /\ p.slot # None => 
          [service |-> p.service, employee |-> p.employee, date |-> p.date, slot |-> p.slot] \in p.slots

\* A token that was sent is on the page only while its request is under way.
SentInv == 
    /\ token = "sent" => post # None /\ Required
    /\ TokenSentOnce

\* Strengthens BookedIsTold: only a request that booked answers for an appointment.
ToldInv == \A a \in appts : a.mine =>
    \E c \in Choice : 
       /\ c.date = a.date /\ c.employee = a.employee /\ c.slot = a.slot
       /\ c \in told \/ c \in lost \/ (post # None /\ post.answer = 201 /\ post.choice = c)

\* The visitor has what he chose in c.
Has(c) == \E a \in appts : a.mine /\ a.date = c.date /\ a.employee = c.employee /\ a.slot = c.slot

\* Strengthens ConfirmedIsBooked: what the page confirms it has told, and an answer that
\* is on its way confirms no more than there is.
ConfirmInv ==
    /\ page.confirmation # None => page.confirmation \in told
    /\ \A c \in told : Has(c)
    /\ post # None /\ post.answer = 201 => Has(post.choice)

Inv == TypeOK /\ ListsInv(page) /\ SentInv /\ BookedWasVerified /\ ToldInv /\ ConfirmInv

----------------------------------------------------------------------------
(* The effects *)

LEMMA EmployeesEffectPage ==
    ASSUME NEW p \in Page
    PROVE  /\ EmployeesEffect(p) \in Page
           /\ EmployeesEffect(p).saving = p.saving
           /\ EmployeesEffect(p).confirmation = p.confirmation
  BY DEF EmployeesEffect, Page

\* Whatever the lists were, the effect leaves them in order.
LEMMA SlotsEffectPage ==
    ASSUME NEW p \in Page
    PROVE  /\ SlotsEffect(p) \in Page
           /\ SlotsEffect(p).saving = p.saving
           /\ SlotsEffect(p).confirmation = p.confirmation
           /\ SlotsEffect(p).slot = None
           /\ ListsInv(SlotsEffect(p))
<1>1. CASE None \in {p.service, p.employee, p.date} 
  <2> DEFINE q == [p EXCEPT !.slots = {}, !.slot = None, !.slotsAsked = {}]
  <2>1. SlotsEffect(p) = q
    BY <1>1 DEF SlotsEffect
  <2>2. /\ q \in Page /\ q.slots = {} /\ q.slot = None /\ q.slotsAsked = {}
        /\ q.saving = p.saving /\ q.confirmation = p.confirmation
    BY DEF Page
  <2> HIDE DEF q
  <2> QED
    BY <2>1, <2>2 DEF ListsInv
<1>2. CASE None \notin {p.service, p.employee, p.date} 
  <2> DEFINE l == [service |-> p.service, employee |-> p.employee, date |-> p.date]
             q == [p EXCEPT !.loadingSlots = TRUE, !.slot = None, !.slotsAsked = {l}]
  <2>1. SlotsEffect(p) = q
    BY <1>2 DEF SlotsEffect
  <2>2. l \in Lookup
    BY <1>2 DEF Page, Lookup
  <2>3. l.service = p.service /\ l.employee = p.employee /\ l.date = p.date
    OBVIOUS
  <2> HIDE DEF l
  <2>4. /\ q \in Page /\ q.loadingSlots /\ q.slot = None /\ q.slotsAsked = {l}
        /\ q.saving = p.saving /\ q.confirmation = p.confirmation
        /\ q.service = p.service /\ q.employee = p.employee /\ q.date = p.date
    BY <2>2 DEF Page
  <2> HIDE DEF q
  <2> QED
    BY <2>1, <2>3, <2>4 DEF ListsInv
<1> QED BY <1>1, <1>2

LEMMA WidgetType ==
    ASSUME TypeOK, NEW p \in Page, NEW reset \in BOOLEAN, Render(p, reset)
    PROVE  page' = p /\ widget' \in Widgets
  BY DEF Render, TypeOK, Widgets

LEMMA AbandonType ==
    ASSUME TypeOK, NEW p
    PROVE  /\ Abandon(p) \in Tokens \cup {None}
           /\ Abandon(p) = "sent" => token = "sent"
  BY DEF Abandon, TypeOK, Tokens

----------------------------------------------------------------------------
(* The visitor and the widget *)

\* Steps of the page alone: nothing is sent, answered or booked.
LEMMA PageMoves ==
    ASSUME Inv, page' \in Page, page'.saving = page.saving, ListsInv(page'),
           page'.confirmation \in {page.confirmation, None},
           token' \in Tokens \cup {None}, token' = "sent" => token = "sent",
           widget' \in Widgets, online' \in BOOLEAN, near' \subseteq Dates \X Slots,
           UNCHANGED <<post, adrift, config, appts, told, lost>>
    PROVE  Inv'
<1>1. TypeOK'
  BY DEF Inv, TypeOK
<1>2. SentInv'
  BY DEF Inv, SentInv, TokenSentOnce, Required
<1>3. BookedWasVerified'
  BY DEF Inv, BookedWasVerified, Required
<1>4. ToldInv' /\ ConfirmInv'
  BY DEF Inv, ToldInv, ConfirmInv, Has
<1> QED
  BY <1>1, <1>2, <1>3, <1>4 DEF Inv

LEMMA ChooseServiceInv ==
    ASSUME Inv, NEW v \in Services, ChooseService(v)
    PROVE  Inv'
<1> DEFINE p == [page EXCEPT !.service = v]
           q == IF v = page.service THEN p ELSE SlotsEffect(EmployeesEffect(SlotsEffect(p)))
<1>1. page \in Page /\ TypeOK /\ ListsInv(page)
  BY DEF Inv, TypeOK
<1>2. p \in Page /\ p.saving = page.saving /\ p.confirmation = page.confirmation
  BY <1>1 DEF Page
<1>3. q \in Page /\ q.saving = page.saving /\ q.confirmation = page.confirmation /\ ListsInv(q)
  <2>1. CASE v = page.service
    <3>1. p = page
      BY <1>1, <2>1 DEF Page
    <3> QED BY <1>1, <2>1, <3>1
  <2>2. CASE v # page.service
    <3> HIDE DEF p
    <3>1. PICK p1 \in Page : p1 = SlotsEffect(p) /\ p1.saving = page.saving /\ p1.confirmation = page.confirmation
      BY <1>2, SlotsEffectPage
    <3>2. PICK p2 \in Page : p2 = EmployeesEffect(p1) /\ p2.saving = page.saving /\ p2.confirmation = page.confirmation
      BY <3>1, EmployeesEffectPage
    <3>3. q = SlotsEffect(p2)
      BY <2>2, <3>1, <3>2
    <3> HIDE DEF q
    <3> QED
      BY <3>2, <3>3, SlotsEffectPage
  <2> QED BY <2>1, <2>2
<1>4. Render(q, FALSE) /\ token' = Abandon(q) /\ UNCHANGED <<online, post, adrift, config, appts, near, told, lost>>
  BY DEF ChooseService
<1> HIDE DEF p, q
<1>5. page' = q /\ widget' \in Widgets
  BY <1>1, <1>3, <1>4, WidgetType
<1>6. token' \in Tokens \cup {None} /\ (token' = "sent" => token = "sent")
  BY <1>1, <1>4, AbandonType
<1> QED
  BY <1>1, <1>3, <1>4, <1>5, <1>6, PageMoves DEF TypeOK

LEMMA ChooseEmployeeInv ==
    ASSUME Inv, NEW x \in Employees, ChooseEmployee(x)
    PROVE  Inv'
<1> DEFINE p == [page EXCEPT !.employee = x, !.slot = None]
           q == IF x = page.employee THEN p ELSE SlotsEffect(p)
<1>1. page \in Page /\ TypeOK /\ ListsInv(page)
  BY DEF Inv, TypeOK
<1>2. /\ p \in Page /\ p.saving = page.saving /\ p.confirmation = page.confirmation /\ p.slot = None
      /\ p.service = page.service /\ p.employee = x /\ p.date = page.date
      /\ p.slots = page.slots /\ p.slotsAsked = page.slotsAsked /\ p.loadingSlots = page.loadingSlots
  BY <1>1 DEF Page
<1> HIDE DEF p
<1>3. q \in Page /\ q.saving = page.saving /\ q.confirmation = page.confirmation /\ ListsInv(q)
  <2>1. CASE x = page.employee
    BY <1>1, <1>2, <2>1 DEF ListsInv
  <2>2. CASE x # page.employee
    BY <1>2, <2>2, SlotsEffectPage
  <2> QED BY <2>1, <2>2
<1>4. Render(q, FALSE) /\ token' = Abandon(q) /\ UNCHANGED <<online, post, adrift, config, appts, near, told, lost>>
  BY DEF ChooseEmployee, p
<1> HIDE DEF q
<1>5. page' = q /\ widget' \in Widgets
  BY <1>1, <1>3, <1>4, WidgetType
<1>6. token' \in Tokens \cup {None} /\ (token' = "sent" => token = "sent")
  BY <1>1, <1>4, AbandonType
<1> QED
  BY <1>1, <1>3, <1>4, <1>5, <1>6, PageMoves DEF TypeOK

\* Looking the times up again, for a page that is otherwise in order.
LEMMA LookAgain ==
    ASSUME Inv, NEW p \in Page, p.saving = page.saving /\ p.confirmation = page.confirmation,
           Render(SlotsEffect(p), FALSE), token' = Abandon(SlotsEffect(p)),
           UNCHANGED <<online, post, adrift, config, appts, near, told, lost>>
    PROVE  Inv'
<1> DEFINE q == SlotsEffect(p)
<1>1. q \in Page /\ q.saving = page.saving /\ q.confirmation = page.confirmation /\ ListsInv(q)
  BY SlotsEffectPage
<1>2. Render(q, FALSE) /\ token' = Abandon(q) /\ TypeOK
  BY DEF Inv
<1> HIDE DEF q
<1>3. page' = q /\ widget' \in Widgets
  BY <1>1, <1>2, WidgetType
<1>4. token' \in Tokens \cup {None} /\ (token' = "sent" => token = "sent")
  BY <1>2, AbandonType
<1> QED
  BY <1>1, <1>2, <1>3, <1>4, PageMoves DEF TypeOK

LEMMA VisitorInv ==
    ASSUME Inv, Visitor, ~Submit
    PROVE  Inv'
<1>1. page \in Page /\ TypeOK /\ ListsInv(page)
  BY DEF Inv, TypeOK
<1>2. ASSUME NEW v \in Services, ChooseService(v) PROVE Inv'
  BY <1>2, ChooseServiceInv
<1>3. ASSUME NEW x \in Employees, ChooseEmployee(x) PROVE Inv'
  BY <1>3, ChooseEmployeeInv
<1>4. ASSUME NEW d \in Dates \cup {None}, ChooseDate(d) PROVE Inv'
  <2> DEFINE p == [page EXCEPT !.date = d, !.slot = None]
  <2>1. p \in Page /\ p.saving = page.saving /\ p.confirmation = page.confirmation
    BY <1>1 DEF Page
  <2>2. /\ Render(SlotsEffect(p), FALSE) /\ token' = Abandon(SlotsEffect(p))
        /\ UNCHANGED <<online, post, adrift, config, appts, near, told, lost>>
    BY <1>4 DEF ChooseDate
  <2> HIDE DEF p
  <2> QED
    BY <2>1, <2>2, LookAgain
<1>5. ASSUME NEW t \in Slots, ChooseSlot(t) PROVE Inv'
  <2> DEFINE p == [page EXCEPT !.slot = t]
  <2>1. /\ p \in Page /\ p.saving = page.saving /\ p.confirmation = page.confirmation /\ p.slot = t
        /\ p.service = page.service /\ p.employee = page.employee /\ p.date = page.date
        /\ p.slots = page.slots /\ p.slotsAsked = page.slotsAsked /\ p.loadingSlots = page.loadingSlots
    BY <1>1 DEF Page
  <2>2. /\ Render(p, FALSE) /\ ~page.loadingSlots
        /\ UNCHANGED <<token, online, post, adrift, config, appts, near, told, lost>>
    BY <1>5 DEF ChooseSlot
  <2> HIDE DEF p
  <2>3. PICK o \in page.slots : o.slot = t
    BY <1>5 DEF ChooseSlot
  <2>4. o \in Choice
    BY <1>1, <2>3 DEF Page
  <2>5. o = [service |-> page.service, employee |-> page.employee, date |-> page.date, slot |-> t]
    BY <1>1, <2>2, <2>3, <2>4 DEF ListsInv, Choice
  <2>6. [service |-> p.service, employee |-> p.employee, date |-> p.date, slot |-> p.slot] \in p.slots
    BY <2>1, <2>3, <2>5
  <2>7. ListsInv(p)
    BY <1>1, <2>1, <2>2, <2>6 DEF ListsInv
  <2>8. page' = p /\ widget' \in Widgets
    BY <1>1, <2>1, <2>2, WidgetType
  <2> QED
    BY <1>1, <2>1, <2>2, <2>7, <2>8, PageMoves DEF TypeOK
<1>6. ASSUME SubmitLate PROVE Inv'
  BY <1>1, <1>6, LookAgain DEF SubmitLate
<1>7. ASSUME StartAgain PROVE Inv'
  <2> DEFINE p == [page EXCEPT !.service = None, !.employee = None, !.slot = None, 
                               !.employees = {}, !.slots = {}, !.date = Today, 
                               !.confirmation = None]
  <2>1. p \in Page /\ p.saving = page.saving /\ p.confirmation = None
    BY <1>1 DEF Page
  <2>2. /\ Render(SlotsEffect(EmployeesEffect(p)), TRUE) /\ token' = None
        /\ UNCHANGED <<online, post, adrift, config, appts, near, told, lost>>
    BY <1>7 DEF StartAgain
  <2> HIDE DEF p
  <2>3. PICK p1 \in Page : p1 = EmployeesEffect(p) /\ p1.saving = page.saving /\ p1.confirmation = None
    BY <2>1, EmployeesEffectPage
  <2>4. PICK q \in Page : q = SlotsEffect(p1) /\ q.saving = page.saving /\ q.confirmation = None /\ ListsInv(q)
    BY <2>3, SlotsEffectPage
  <2>5. page' = q /\ widget' \in Widgets
    BY <1>1, <2>2, <2>3, <2>4, WidgetType
  <2>6. None # "sent"
    BY DEF Tokens
  <2> QED
    BY <1>1, <2>2, <2>4, <2>5, <2>6, PageMoves DEF TypeOK
<1>8. ASSUME Retry PROVE Inv'
  BY <1>1, <1>8, PageMoves DEF Retry, Callback, TypeOK, Widgets, Tokens
<1> QED
  BY <1>2, <1>3, <1>4, <1>5, <1>6, <1>7, <1>8 DEF Visitor

LEMMA WorldInv ==
    ASSUME Inv, Solve \/ GiveUp \/ Expire \/ ExpireUnseen \/ GoOffline \/ GoOnline
    PROVE  Inv'
<1>1. page \in Page /\ TypeOK /\ ListsInv(page)
  BY DEF Inv, TypeOK
<1>2. page' = page /\ UNCHANGED <<post, adrift, config, appts, near, told, lost>>
  BY DEF Solve, GiveUp, Expire, ExpireUnseen, GoOffline, GoOnline, Callback
<1>3. widget' \in Widgets /\ online' \in BOOLEAN
  BY <1>1 DEF Solve, GiveUp, Expire, ExpireUnseen, GoOffline, GoOnline, Callback, TypeOK, Widgets
<1>4. token' \in Tokens \cup {None} /\ (token' = "sent" => token = "sent")
  BY <1>1 DEF Solve, GiveUp, Expire, ExpireUnseen, GoOffline, GoOnline, Callback, TypeOK, Tokens
<1> QED
  BY <1>1, <1>2, <1>3, <1>4, PageMoves DEF TypeOK

----------------------------------------------------------------------------
(* The request for an appointment *)

LEMMA SubmitInv ==
    ASSUME Inv, Submit
    PROVE  Inv'
<1>1. page \in Page /\ TypeOK /\ ListsInv(page)
  BY DEF Inv, TypeOK
<1>2. /\ CanSubmit /\ page.slot # None /\ ~page.saving /\ post = None /\ token # "sent"
      /\ UNCHANGED <<widget, online, adrift, config, appts, near, told, lost>>
  BY <1>1 DEF Submit, CanSubmit, TypeOK, Inv, SentInv
<1> DEFINE p == [page EXCEPT !.saving = TRUE]
           tok == Carried
           r == [choice |-> Chosen, token |-> tok, answer |-> 0]
<1>3. /\ p \in Page /\ p.saving /\ p.slot = page.slot /\ p.confirmation = page.confirmation
      /\ p.service = page.service /\ p.employee = page.employee /\ p.date = page.date
      /\ p.slots = page.slots /\ p.slotsAsked = page.slotsAsked /\ p.loadingSlots = page.loadingSlots
  BY <1>1 DEF Page
<1>4. Chosen \in Choice
  BY <1>1, <1>2 DEF ListsInv, Chosen, Page
<1>5. tok \in Tokens \cup {None} /\ tok # "sent"
  BY <1>1, <1>2 DEF TypeOK, Tokens, Carried
<1>6. page' = p /\ post' = r /\ token' = IF Required THEN "sent" ELSE token
  BY DEF Submit
<1> HIDE DEF p, tok
<1>7. r \in Post /\ r.token # "sent" /\ r # None /\ r.answer = 0
  BY <1>4, <1>5 DEF Post
<1> HIDE DEF r
<1>8. token' \in Tokens \cup {None} /\ (token' = "sent" => Required)
  BY <1>1, <1>2, <1>6 DEF TypeOK, Tokens
<1>9. TypeOK'
  BY <1>1, <1>2, <1>3, <1>6, <1>7, <1>8 DEF TypeOK
<1>10. ListsInv(page)'
  BY <1>1, <1>3, <1>6 DEF ListsInv
<1>11. SentInv'
  BY <1>2, <1>6, <1>7, <1>8 DEF SentInv, TokenSentOnce, Required
<1>12. BookedWasVerified'
  BY <1>2 DEF Inv, BookedWasVerified, Required
<1>13. ToldInv'
  BY <1>2 DEF Inv, ToldInv
<1>14. ConfirmInv'
  BY <1>2, <1>3, <1>6, <1>7 DEF Inv, ConfirmInv, Has
<1> QED
  BY <1>9, <1>10, <1>11, <1>12, <1>13, <1>14 DEF Inv

\* What the API has verified before it books.
LEMMA VerifiedForPage ==
    ASSUME TypeOK, NEW hasToken \in BOOLEAN, NEW verdict \in Verdicts,
           Verify(config, hasToken, verdict) = 200
    PROVE  /\ Required => hasToken /\ verdict \in Approvals
           /\ config.production => config.secret = "real" /\ config.hostnames = "page"
<1>1. config \in Config
  BY DEF TypeOK
<1>2. verdict \in {"unreachable", "refused"} \cup Approvals
  BY DEF Verdicts
<1>3. IsEnabled(config) => hasToken /\ verdict \in Approvals
  BY <1>2 DEF Verify
<1>4. config.production => IsEnabled(config)
  BY DEF IsEnabled
<1>5. config.production => config.secret = "real" /\ config.hostnames = "page"
  BY <1>1, <1>4 DEF Verify, Config
<1> QED
  BY <1>3, <1>5 DEF Required

\* What the answers to request p are, and what a booking says of its token.
LEMMA AnswerTells ==
    ASSUME TypeOK, NEW p \in Post, NEW answer \in Answers(p)
    PROVE  /\ answer \in {201, 400, 403, 409, 429, 503}
           /\ answer = 201 => 
                 /\ Required => Good(p)
                 /\ config.production => config.secret = "real" /\ config.hostnames = "page"
<1>1. CASE answer = 429
  BY <1>1
<1>2. CASE answer # 429
  <2>1. PICK verdict \in Verdicts : 
           (verdict \in Approvals => Good(p)) /\ answer \in Answer(p, verdict)
    BY <1>2 DEF Answers
  <2> DEFINE hasToken == p.token # None
             status == Verify(config, hasToken, verdict)
  <2>2. status \in {200, 400, 403, 503}
    BY DEF Verify
  <2>3. answer \in IF status = 200 THEN Book(p) ELSE {status}
    BY <2>1 DEF Answer
  <2>4. Book(p) \subseteq {201, 400, 409}
    BY DEF Book
  <2>5. hasToken \in BOOLEAN
    OBVIOUS
  <2>6. status = 200 => 
           /\ Required => hasToken /\ verdict \in Approvals
           /\ config.production => config.secret = "real" /\ config.hostnames = "page"
    BY <2>5, VerifiedForPage
  <2> HIDE DEF hasToken, status
  <2> QED
    BY <2>1, <2>2, <2>3, <2>4, <2>6
<1> QED
  BY <1>1, <1>2

\* What the API books for request p, and what it leaves.
LEMMA MadeFacts ==
    ASSUME Inv, NEW p \in Post, NEW answer \in Answers(p), appts' = appts \cup Made(p, answer),
           UNCHANGED config
    PROVE  /\ appts' \subseteq Appointment /\ appts \subseteq appts'
           /\ BookedWasVerified'
           /\ \A c : Has(c) => Has(c)'
           /\ answer = 201 => Has(p.choice)'
           /\ \A a \in appts' \ appts : 
                 /\ answer = 201 /\ p.choice \in Choice
                 /\ p.choice.date = a.date /\ p.choice.employee = a.employee 
                 /\ p.choice.slot = a.slot
<1>1. /\ answer = 201 => 
           /\ Required => Good(p)
           /\ config.production => config.secret = "real" /\ config.hostnames = "page"
  BY AnswerTells DEF Inv
<1>2. appts \subseteq Appointment
  BY DEF Inv, TypeOK
<1>3. CASE answer # 201
  BY <1>2, <1>3 DEF Made, Inv, BookedWasVerified, Required, Has
<1>4. CASE answer = 201
  <2> DEFINE a0 == [date |-> p.choice.date, employee |-> p.choice.employee, slot |-> p.choice.slot,
                    mine |-> TRUE, good |-> Good(p)]
  <2>1. Good(p) \in BOOLEAN /\ p.choice \in Choice
    BY DEF Good, Post
  <2>2. /\ a0 \in Appointment /\ a0.mine /\ a0.good = Good(p) /\ a0.date = p.choice.date
        /\ a0.employee = p.choice.employee /\ a0.slot = p.choice.slot
    BY <2>1 DEF Choice, Appointment
  <2>3. appts' = appts \cup {a0}
    BY <1>4 DEF Made
  <2> HIDE DEF a0
  <2>4. BookedWasVerified'
    BY <1>1, <1>4, <2>2, <2>3 DEF Inv, BookedWasVerified, Required
  <2> QED
    BY <1>2, <1>4, <2>1, <2>2, <2>3, <2>4 DEF Has
<1> QED
  BY <1>3, <1>4

LEMMA ServeInv ==
    ASSUME Inv, Serve
    PROVE  Inv'
<1>1. page \in Page /\ TypeOK /\ ListsInv(page)
  BY DEF Inv, TypeOK
<1>2. /\ post \in Post /\ post # None /\ post.answer = 0
      /\ UNCHANGED <<page, token, widget, online, adrift, config, near, told, lost>>
  BY <1>1 DEF Serve, TypeOK
<1>3. PICK answer \in Answers(post) :
         post' = [post EXCEPT !.answer = answer] /\ appts' = appts \cup Made(post, answer)
  BY DEF Serve
<1>4. answer \in {201, 400, 403, 409, 429, 503}
  BY <1>1, <1>2, AnswerTells
<1>5. /\ post' \in Post /\ post' # None /\ post'.token = post.token
      /\ post'.choice = post.choice /\ post'.answer = answer
  BY <1>2, <1>3, <1>4 DEF Post
<1>6. /\ appts' \subseteq Appointment /\ BookedWasVerified'
      /\ \A c : Has(c) => Has(c)'
      /\ answer = 201 => Has(post.choice)'
      /\ \A a \in appts' \ appts : 
            /\ answer = 201 /\ post.choice \in Choice
            /\ post.choice.date = a.date /\ post.choice.employee = a.employee 
            /\ post.choice.slot = a.slot
  BY <1>2, <1>3, MadeFacts
<1>7. TypeOK'
  BY <1>1, <1>2, <1>5, <1>6 DEF TypeOK
<1>8. ListsInv(page)'
  BY <1>1, <1>2 DEF ListsInv
<1>9. SentInv'
  BY <1>2, <1>5 DEF Inv, SentInv, TokenSentOnce, Required
<1>10. ToldInv'
  BY <1>2, <1>5, <1>6 DEF Inv, ToldInv
<1>11. ConfirmInv'
  BY <1>2, <1>5, <1>6 DEF Inv, ConfirmInv
<1> QED
  BY <1>6, <1>7, <1>8, <1>9, <1>10, <1>11 DEF Inv

LEMMA ServeLateInv ==
    ASSUME Inv, NEW p \in adrift, ServeLate(p)
    PROVE  Inv'
<1>1. /\ page \in Page /\ TypeOK /\ ListsInv(page) /\ p \in Post /\ adrift' \subseteq Post
      /\ UNCHANGED <<page, token, widget, online, post, config, near, told>>
  BY DEF Inv, TypeOK, ServeLate
<1>2. PICK answer \in Answers(p) :
         /\ appts' = appts \cup Made(p, answer)
         /\ lost' = IF answer = 201 THEN lost \cup {p.choice} ELSE lost
  BY DEF ServeLate
<1>3. /\ appts' \subseteq Appointment /\ BookedWasVerified'
      /\ \A c : Has(c) => Has(c)'
      /\ \A a \in appts' \ appts : 
            /\ answer = 201 /\ p.choice \in Choice
            /\ p.choice.date = a.date /\ p.choice.employee = a.employee /\ p.choice.slot = a.slot
  BY <1>1, <1>2, MadeFacts
<1>4. TypeOK'
  BY <1>1, <1>2, <1>3 DEF TypeOK, Post
<1>5. ListsInv(page)' /\ SentInv'
  BY <1>1 DEF Inv, ListsInv, SentInv, TokenSentOnce, Required
<1>6. ToldInv'
  BY <1>1, <1>2, <1>3 DEF Inv, ToldInv
<1>7. ConfirmInv'
  BY <1>1, <1>3 DEF Inv, ConfirmInv
<1> QED
  BY <1>3, <1>4, <1>5, <1>6, <1>7 DEF Inv

\* The answer, or the loss of it: the request is over.
LEMMA FinishInv ==
    ASSUME Inv, post # None, NEW p \in Page, ListsInv(p), Finish(p),
           told' \subseteq Choice, lost' \subseteq Choice, told \subseteq told', lost \subseteq lost',
           post.answer = 201 => post.choice \in told' \cup lost', adrift' \subseteq Post,
           p.confirmation # None => p.confirmation \in told', \A c \in told' : Has(c)
    PROVE  Inv'
<1> DEFINE q == [p EXCEPT !.saving = FALSE]
<1>1. /\ q \in Page /\ ~q.saving /\ q.slot = p.slot /\ q.confirmation = p.confirmation
      /\ q.service = p.service /\ q.employee = p.employee /\ q.date = p.date
      /\ q.slots = p.slots /\ q.slotsAsked = p.slotsAsked /\ q.loadingSlots = p.loadingSlots
  BY DEF Page
<1>2. /\ Render(q, Required) /\ token' = (IF Required THEN None ELSE token) /\ post' = None
      /\ UNCHANGED <<online, config, appts, near>>
  BY DEF Finish
<1> HIDE DEF q
<1>3. Required \in BOOLEAN
  BY DEF Required, IsEnabled
<1>4. page' = q /\ widget' \in Widgets
  BY <1>1, <1>2, <1>3, WidgetType DEF Inv
<1>5. token' \in Tokens \cup {None} /\ token' # "sent"
  BY <1>2 DEF Inv, TypeOK, SentInv, Tokens
<1>6. TypeOK'
  BY <1>1, <1>2, <1>4, <1>5 DEF Inv, TypeOK
<1>7. ListsInv(page)'
  BY <1>1, <1>4 DEF ListsInv
<1>8. SentInv'
  BY <1>2, <1>5 DEF SentInv, TokenSentOnce
<1>9. BookedWasVerified'
  BY <1>2 DEF Inv, BookedWasVerified, Required
<1>10. ToldInv'
  <2> SUFFICES ASSUME NEW a \in appts, a.mine
               PROVE  \E c \in Choice : 
                         /\ c.date = a.date /\ c.employee = a.employee /\ c.slot = a.slot
                         /\ c \in told' \/ c \in lost'
    BY <1>2 DEF ToldInv
  <2>1. PICK c \in Choice : 
           /\ c.date = a.date /\ c.employee = a.employee /\ c.slot = a.slot
           /\ c \in told \/ c \in lost \/ (post # None /\ post.answer = 201 /\ post.choice = c)
    BY DEF Inv, ToldInv
  <2> QED
    BY <2>1
<1>11. ConfirmInv'
  BY <1>1, <1>2, <1>4 DEF ConfirmInv, Has
<1> QED
  BY <1>6, <1>7, <1>8, <1>9, <1>10, <1>11 DEF Inv

LEMMA ReceiveInv ==
    ASSUME Inv, Receive
    PROVE  Inv'
<1>1. page \in Page /\ TypeOK /\ ListsInv(page)
  BY DEF Inv, TypeOK
<1>2. post \in Post /\ post # None /\ post.choice \in Choice
  BY <1>1 DEF Receive, TypeOK, Post
<1>3. CASE post.answer = 201
  <2> DEFINE p == [page EXCEPT !.confirmation = post.choice]
  <2>1. /\ p \in Page /\ p.slot = page.slot /\ p.confirmation = post.choice
        /\ p.service = page.service /\ p.employee = page.employee /\ p.date = page.date
        /\ p.slots = page.slots /\ p.slotsAsked = page.slotsAsked /\ p.loadingSlots = page.loadingSlots
    BY <1>1, <1>2 DEF Page
  <2>2. Finish(p) /\ told' = told \cup {post.choice} /\ lost' = lost /\ adrift' = adrift
    BY <1>3 DEF Receive
  <2> HIDE DEF p
  <2>3. ListsInv(p)
    BY <1>1, <2>1 DEF ListsInv
  <2>4. told' \subseteq Choice /\ lost' \subseteq Choice /\ adrift' \subseteq Post
    BY <1>1, <1>2, <2>2 DEF TypeOK
  <2>5. \A c \in told' : Has(c)
    BY <1>2, <1>3, <2>2 DEF Inv, ConfirmInv
  <2> QED
    BY <1>2, <2>1, <2>2, <2>3, <2>4, <2>5, FinishInv
<1>4. CASE post.answer # 201
  <2> DEFINE q == [page EXCEPT !.slot = None]
             p == IF post.answer = 409 THEN SlotsEffect(q) ELSE page
  <2>1. q \in Page /\ q.confirmation = page.confirmation
    BY <1>1 DEF Page
  <2> HIDE DEF q
  <2>2. p \in Page /\ ListsInv(p) /\ p.confirmation = page.confirmation
    BY <1>1, <2>1, SlotsEffectPage
  <2>3. Finish(p) /\ told' = told /\ lost' = lost /\ adrift' = adrift
    BY <1>4 DEF Receive, q
  <2> HIDE DEF p
  <2>4. told' \subseteq Choice /\ lost' \subseteq Choice /\ adrift' \subseteq Post
    BY <1>1, <2>3 DEF TypeOK
  <2>5. (p.confirmation # None => p.confirmation \in told') /\ \A c \in told' : Has(c)
    BY <2>2, <2>3 DEF Inv, ConfirmInv
  <2> QED
    BY <1>2, <1>4, <2>2, <2>3, <2>4, <2>5, FinishInv
<1> QED BY <1>3, <1>4

LEMMA LoseInv ==
    ASSUME Inv, Lose
    PROVE  Inv'
<1>1. page \in Page /\ TypeOK /\ ListsInv(page)
  BY DEF Inv, TypeOK
<1>2. post \in Post /\ post # None /\ post.choice \in Choice
  BY <1>1 DEF Lose, TypeOK, Post
<1>3. /\ Finish(page) /\ told' = told
      /\ lost' = IF post.answer = 201 THEN lost \cup {post.choice} ELSE lost
  BY DEF Lose
<1>4. told' \subseteq Choice /\ lost' \subseteq Choice
  BY <1>1, <1>2, <1>3 DEF TypeOK
<1>5. adrift' \subseteq Post
  BY <1>1, <1>2 DEF Lose, TypeOK
<1>6. (page.confirmation # None => page.confirmation \in told') /\ \A c \in told' : Has(c)
  BY <1>3 DEF Inv, ConfirmInv
<1> QED
  BY <1>1, <1>2, <1>3, <1>4, <1>5, <1>6, FinishInv

----------------------------------------------------------------------------
(* The lists, the other clients and the clock *)

LEMMA AnswerListsInv ==
    ASSUME Inv, AnswerLists
    PROVE  Inv'
<1>1. page \in Page /\ TypeOK /\ ListsInv(page)
  BY DEF Inv, TypeOK
<1>2. ASSUME NEW p \in Page, p.saving = page.saving, p.confirmation = page.confirmation, ListsInv(p), page' = p,
             UNCHANGED <<token, widget, online, post, adrift, config, appts, near, told, lost>>
      PROVE  Inv'
  BY <1>1, <1>2, PageMoves DEF TypeOK
<1>3. ASSUME NEW v \in Services, AnswerEmployees(v) PROVE Inv'
  <2>1. PICK ok \in BOOLEAN :
          page' = [page EXCEPT !.employeesAsked = @ \ {v}, !.loadingEmployees = FALSE,
                               !.employees = IF ok THEN {e \in Performs : e[2] = v} ELSE @]
    BY <1>3 DEF AnswerEmployees
  <2> DEFINE es == IF ok THEN {e \in Performs : e[2] = v} ELSE page.employees
             p == [page EXCEPT !.employeesAsked = @ \ {v}, !.loadingEmployees = FALSE, !.employees = es]
  <2>2. es \subseteq Employees \X Services
    BY <1>1 DEF Page
  <2>3. page' = p
    BY <2>1
  <2> HIDE DEF es
  <2>4. /\ p \in Page /\ p.saving = page.saving /\ p.confirmation = page.confirmation /\ p.slot = page.slot
        /\ p.service = page.service /\ p.employee = page.employee /\ p.date = page.date
        /\ p.slots = page.slots /\ p.slotsAsked = page.slotsAsked /\ p.loadingSlots = page.loadingSlots
    BY <1>1, <2>2 DEF Page
  <2> HIDE DEF p
  <2>5. ListsInv(p)
    BY <1>1, <2>4 DEF ListsInv
  <2> QED
    BY <1>2, <1>3, <2>3, <2>4, <2>5 DEF AnswerEmployees
<1>4. ASSUME NEW l \in Lookup, AnswerSlots(l) PROVE Inv'
  <2>1. PICK ok \in BOOLEAN :
          page' = [page EXCEPT !.slotsAsked = @ \ {l}, !.loadingSlots = FALSE, !.slots =
                      IF ok /\ <<l.employee, l.service>> \in Performs THEN Offered(l) ELSE {}]
    BY <1>4 DEF AnswerSlots
  <2> DEFINE os == IF ok /\ <<l.employee, l.service>> \in Performs THEN Offered(l) ELSE {}
             p == [page EXCEPT !.slotsAsked = @ \ {l}, !.loadingSlots = FALSE, !.slots = os]
  <2>2. /\ os \subseteq Choice
        /\ \A o \in os : o.service = l.service /\ o.employee = l.employee /\ o.date = l.date
    BY DEF Offered
  <2>3. page' = p
    BY <2>1
  <2> HIDE DEF os
  <2>4. /\ p \in Page /\ p.saving = page.saving /\ p.confirmation = page.confirmation /\ p.slot = page.slot
        /\ p.service = page.service /\ p.employee = page.employee /\ p.date = page.date
        /\ p.slots = os /\ p.slotsAsked = page.slotsAsked \ {l} /\ ~p.loadingSlots
    BY <1>1, <2>2 DEF Page
  <2> HIDE DEF p
  <2>5. l \in page.slotsAsked /\ page.slot = None
    BY <1>1, <1>4 DEF AnswerSlots, ListsInv
  <2>6. l.service = page.service /\ l.employee = page.employee /\ l.date = page.date
    BY <1>1, <2>5 DEF ListsInv
  <2>7. p.slotsAsked = {}
    BY <1>1, <2>4, <2>5 DEF ListsInv, Page, Lookup
  <2>8. ListsInv(p)
    BY <2>2, <2>4, <2>5, <2>6, <2>7 DEF ListsInv
  <2> QED
    BY <1>2, <1>4, <2>3, <2>4, <2>8 DEF AnswerSlots
<1> QED
  BY <1>3, <1>4 DEF AnswerLists

LEMMA OtherBooksInv ==
    ASSUME Inv, NEW x \in Employees, NEW d \in Dates, NEW t \in Slots, OtherBooks(x, d, t)
    PROVE  Inv'
<1> DEFINE a0 == [date |-> d, employee |-> x, slot |-> t, mine |-> FALSE, good |-> FALSE]
<1>1. appts' = appts \cup {a0} /\ UNCHANGED <<page, token, widget, online, post, adrift, config, near, told, lost>>
  BY DEF OtherBooks
<1>2. a0 \in Appointment /\ ~a0.mine
  BY DEF Appointment
<1> HIDE DEF a0
<1>3. TypeOK'
  BY <1>1, <1>2 DEF Inv, TypeOK
<1>4. ListsInv(page)' /\ SentInv'
  BY <1>1 DEF Inv, ListsInv, SentInv, TokenSentOnce, Required
<1>5. BookedWasVerified'
  BY <1>1, <1>2 DEF Inv, BookedWasVerified, Required
<1>6. ToldInv' /\ ConfirmInv'
  BY <1>1, <1>2 DEF Inv, ToldInv, ConfirmInv, Has
<1> QED
  BY <1>3, <1>4, <1>5, <1>6 DEF Inv

LEMMA TimePassesInv ==
    ASSUME Inv, NEW d \in Dates, NEW t \in Slots, TimePasses(d, t)
    PROVE  Inv'
<1>1. near' = near \cup {<<d, t>>} /\ UNCHANGED <<page, token, widget, online, post, adrift, config, appts, told, lost>>
  BY DEF TimePasses
<1>2. page \in Page /\ near' \subseteq Dates \X Slots /\ TypeOK /\ ListsInv(page)
  BY <1>1 DEF Inv, TypeOK
<1> QED
  BY <1>1, <1>2, PageMoves DEF TypeOK

----------------------------------------------------------------------------
(* The invariant *)

LEMMA InitInv == Init => Inv
<1> SUFFICES ASSUME Init PROVE Inv
  OBVIOUS
<1>1. page \in Page /\ ~page.saving /\ page.slotsAsked = {} /\ page.slots = {} /\ page.slot = None
      /\ ~page.loadingSlots /\ page.confirmation = None
  BY DEF Init, Page
<1>2. /\ token = None /\ widget \in Widgets /\ online \in BOOLEAN /\ post = None /\ adrift = {} /\ config \in Configs
      /\ appts = {} /\ near = {} /\ told = {} /\ lost = {}
  BY DEF Init, Widgets
<1>3. TypeOK
  BY <1>1, <1>2 DEF TypeOK
<1>4. ListsInv(page)
  BY <1>1 DEF ListsInv
<1>5. SentInv
  BY <1>2 DEF SentInv, TokenSentOnce, Tokens
<1>6. BookedWasVerified /\ ToldInv /\ ConfirmInv
  BY <1>1, <1>2 DEF BookedWasVerified, ToldInv, ConfirmInv
<1> QED
  BY <1>3, <1>4, <1>5, <1>6 DEF Inv

LEMMA StepInv == Inv /\ [Next]_vars => Inv'
<1> SUFFICES ASSUME Inv, [Next]_vars PROVE Inv'
  OBVIOUS
<1>1. CASE Visitor
  BY <1>1, VisitorInv, SubmitInv
<1>2. CASE AnswerLists
  BY <1>2, AnswerListsInv
<1>3. CASE AnswerPost
  BY <1>3, ServeInv, ReceiveInv, LoseInv DEF AnswerPost
<1>4. CASE World
  BY <1>4, ServeLateInv, OtherBooksInv, TimePassesInv, WorldInv DEF World
<1>5. CASE UNCHANGED vars
  <2>1. TypeOK'
    BY <1>5 DEF Inv, TypeOK, vars
  <2>2. ListsInv(page)' /\ SentInv'
    BY <1>5 DEF Inv, ListsInv, SentInv, TokenSentOnce, Required, vars
  <2>3. BookedWasVerified' /\ ToldInv' /\ ConfirmInv'
    BY <1>5 DEF Inv, BookedWasVerified, ToldInv, ConfirmInv, Has, Required, vars
  <2> QED
    BY <2>1, <2>2, <2>3 DEF Inv
<1> QED
  BY <1>1, <1>2, <1>3, <1>4, <1>5 DEF Next

LEMMA Invariance == Spec => []Inv
<1>1. Init => Inv
  BY InitInv
<1>2. Inv /\ [Next]_vars => Inv'
  BY StepInv
<1> QED
  BY <1>1, <1>2, PTL DEF Spec

----------------------------------------------------------------------------
(* The theorems *)

\* The page, the widget and the API's records keep to their types; a request is in
\* flight exactly while the button says 'Enviando'.
THEOREM TypeCorrect == Spec => []TypeOK
<1>1. Inv => TypeOK
  BY DEF Inv
<1> QED
  BY <1>1, Invariance, PTL

\* README, 'Tokens enviados não são reutilizados': handleSubmit never sends a token twice.
THEOREM TokensGoOnce == Spec => []TokenSentOnce
<1>1. Inv => TokenSentOnce
  BY DEF Inv, SentInv
<1> QED
  BY <1>1, Invariance, PTL

\* What createAppointment books in production was approved by Cloudflare for this page's
\* host, with a real secret and a token that had not expired.
THEOREM BookingsAreVerified == Spec => []BookedWasVerified
<1>1. Inv => BookedWasVerified
  BY DEF Inv
<1> QED
  BY <1>1, Invariance, PTL

\* The times on the page, and the one selected, are always those of the selection,
\* whatever order the lookups of loadAvailability are answered in.
THEOREM TimesAreOfTheChoice == Spec => []SlotsAreOfTheChoice
<1>1. Inv => SlotsAreOfTheChoice
  BY DEF Inv, ListsInv, SlotsAreOfTheChoice, Chosen
<1> QED
  BY <1>1, Invariance, PTL

\* handleSubmit leaves no appointment of the visitor untold, unless its answer was lost.
THEOREM BookingsAreTold == Spec => []BookedIsTold
<1>1. ASSUME Inv PROVE BookedIsTold
  <2> SUFFICES ASSUME NEW a \in appts, a.mine
               PROVE  \E c \in told \cup lost \cup (IF post = None THEN {} ELSE {post.choice}) :
                         c.date = a.date /\ c.employee = a.employee /\ c.slot = a.slot
    BY DEF BookedIsTold
  <2>1. PICK c \in Choice : 
           /\ c.date = a.date /\ c.employee = a.employee /\ c.slot = a.slot
           /\ c \in told \/ c \in lost \/ (post # None /\ post.answer = 201 /\ post.choice = c)
    BY <1>1 DEF Inv, ToldInv
  <2> QED
    BY <2>1
<1> QED
  BY <1>1, Invariance, PTL

\* handleSubmit confirms what the API booked for this request: the visitor has every
\* appointment that the page shows, or has shown, as sent.
THEOREM ConfirmationsAreTrue == Spec => []ConfirmedIsBooked
<1>1. Inv => ConfirmedIsBooked
  BY DEF Inv, ConfirmInv, Has, ConfirmedIsBooked
<1> QED
  BY <1>1, Invariance, PTL

----------------------------------------------------------------------------
(* What the visitor waits for *)

\* On page p, what a spinner stands for has been asked for and is under way.
Asked(p) ==
    /\ p.employee # None => p.service # None
    /\ p.service # None /\ p.loadingEmployees => p.service \in p.employeesAsked
    /\ p.employee # None /\ p.date # None /\ p.loadingSlots =>
          [service |-> p.service, employee |-> p.employee, date |-> p.date] \in p.slotsAsked

\* Whatever the visitor waits for (Waiting) is under way, and is what he has chosen: an answer,
\* or the failure of one, ends the wait.
WaitsForAnAnswer == (page.saving => post # None) /\ Asked(page)

\* Pages that agree in what Asked is about.
LEMMA SameAsked ==
    ASSUME NEW p, NEW q, Asked(p),
           q.service = p.service, q.employee = p.employee, q.date = p.date,
           q.loadingEmployees = p.loadingEmployees, q.employeesAsked = p.employeesAsked,
           q.loadingSlots = p.loadingSlots, q.slotsAsked = p.slotsAsked
    PROVE  Asked(q)
  BY DEF Asked

\* Whatever was asked for before, the employees of the service now are.
LEMMA EmployeesEffectAsked ==
    ASSUME NEW p \in Page
    PROVE  EmployeesEffect(p) \in Page /\ Asked(EmployeesEffect(p))
<1>1. CASE p.service = None
  <2> DEFINE q == [[p EXCEPT !.employee = None, !.slots = {}, !.slot = None] 
                      EXCEPT !.employees = {}, !.employeesAsked = {}]
  <2>1. q = EmployeesEffect(p)
    BY <1>1 DEF EmployeesEffect, Page
  <2>2. q.employee = None /\ q.service = None
    BY <1>1 DEF Page
  <2> HIDE DEF q
  <2> QED
    BY <2>1, <2>2, EmployeesEffectPage DEF Asked
<1>2. CASE p.service # None
  <2> DEFINE q == [[p EXCEPT !.employee = None, !.slots = {}, !.slot = None] 
                      EXCEPT !.loadingEmployees = TRUE, !.employeesAsked = {p.service}]
  <2>1. q = EmployeesEffect(p)
    BY <1>2 DEF EmployeesEffect, Page
  <2>2. q.employee = None /\ q.service = p.service /\ q.employeesAsked = {p.service}
    BY DEF Page
  <2> HIDE DEF q
  <2> QED
    BY <2>1, <2>2, EmployeesEffectPage DEF Asked
<1> QED
  BY <1>1, <1>2

\* And so are the times of the selection.
LEMMA SlotsEffectAsked ==
    ASSUME NEW p \in Page, p.employee # None => p.service # None,
           p.service # None /\ p.loadingEmployees => p.service \in p.employeesAsked
    PROVE  SlotsEffect(p) \in Page /\ Asked(SlotsEffect(p))
<1>1. CASE None \in {p.service, p.employee, p.date} 
  <2> DEFINE q == [p EXCEPT !.slots = {}, !.slot = None, !.slotsAsked = {}]
  <2>1. q = SlotsEffect(p)
    BY <1>1 DEF SlotsEffect
  <2>2. /\ q.service = p.service /\ q.employee = p.employee /\ q.date = p.date
        /\ q.loadingEmployees = p.loadingEmployees /\ q.employeesAsked = p.employeesAsked
    BY DEF Page
  <2>3. p.employee = None \/ p.date = None
    BY <1>1
  <2> HIDE DEF q
  <2> QED
    BY <2>1, <2>2, <2>3, SlotsEffectPage DEF Asked
<1>2. CASE None \notin {p.service, p.employee, p.date} 
  <2> DEFINE l == [service |-> p.service, employee |-> p.employee, date |-> p.date]
             q == [p EXCEPT !.loadingSlots = TRUE, !.slot = None, !.slotsAsked = {l}]
  <2>1. q = SlotsEffect(p)
    BY <1>2 DEF SlotsEffect
  <2>2. /\ q.service = p.service /\ q.employee = p.employee /\ q.date = p.date
        /\ q.loadingEmployees = p.loadingEmployees /\ q.employeesAsked = p.employeesAsked
        /\ q.slotsAsked = {l}
    BY DEF Page
  <2> HIDE DEF q
  <2> QED
    BY <2>1, <2>2, SlotsEffectPage DEF Asked
<1> QED
  BY <1>1, <1>2

LEMMA VisitorAsked ==
    ASSUME page \in Page, Asked(page), Visitor
    PROVE  Asked(page')
<1>1. ASSUME NEW v \in Services, ChooseService(v) PROVE Asked(page')
  <2> DEFINE p == [page EXCEPT !.service = v]
  <2>1. CASE v = page.service
    <3>1. page' = page
      BY <1>1, <2>1 DEF ChooseService, Render, Page
    <3> QED
      BY <3>1
  <2>2. CASE v # page.service
    <3>1. page' = SlotsEffect(EmployeesEffect(SlotsEffect(p)))
      BY <1>1, <2>2 DEF ChooseService, Render
    <3>2. p \in Page
      BY DEF Page
    <3> HIDE DEF p
    <3>3. PICK p1 \in Page : p1 = SlotsEffect(p)
      BY <3>2, SlotsEffectPage
    <3>4. PICK p2 \in Page : p2 = EmployeesEffect(p1) /\ Asked(p2)
      BY <3>3, EmployeesEffectAsked
    <3>5. page' = SlotsEffect(p2)
      BY <3>1, <3>3, <3>4
    <3> QED
      BY <3>4, <3>5, SlotsEffectAsked DEF Asked
  <2> QED
    BY <2>1, <2>2
<1>2. ASSUME NEW x \in Employees, ChooseEmployee(x) PROVE Asked(page')
  <2> DEFINE p == [page EXCEPT !.employee = x, !.slot = None]
  <2>1. /\ p \in Page /\ p.service = page.service /\ p.employee = x /\ p.date = page.date
        /\ p.loadingEmployees = page.loadingEmployees /\ p.employeesAsked = page.employeesAsked
        /\ p.loadingSlots = page.loadingSlots /\ p.slotsAsked = page.slotsAsked
    BY DEF Page
  <2>2. page.service # None /\ page' = IF x = page.employee THEN p ELSE SlotsEffect(p)
    BY <1>2 DEF ChooseEmployee, Render
  <2> HIDE DEF p
  <2>3. CASE x = page.employee
    BY <2>1, <2>2, <2>3, SameAsked
  <2>4. CASE x # page.employee
    BY <2>1, <2>2, <2>4, SlotsEffectAsked DEF Asked
  <2> QED
    BY <2>3, <2>4
<1>3. ASSUME NEW d \in Dates \cup {None}, ChooseDate(d) PROVE Asked(page')
  <2> DEFINE p == [page EXCEPT !.date = d, !.slot = None]
  <2>1. /\ p \in Page /\ p.service = page.service /\ p.employee = page.employee
        /\ p.loadingEmployees = page.loadingEmployees /\ p.employeesAsked = page.employeesAsked
    BY DEF Page
  <2>2. page' = SlotsEffect(p)
    BY <1>3 DEF ChooseDate, Render
  <2> HIDE DEF p
  <2> QED
    BY <2>1, <2>2, SlotsEffectAsked DEF Asked
<1>4. ASSUME NEW t \in Slots, ChooseSlot(t) PROVE Asked(page')
  <2>1. page' = [page EXCEPT !.slot = t]
    BY <1>4 DEF ChooseSlot, Render
  <2> QED
    BY <2>1, SameAsked DEF Page
<1>5. CASE SubmitLate
  <2>1. page' = SlotsEffect(page)
    BY <1>5 DEF SubmitLate, Render
  <2> QED
    BY <2>1, SlotsEffectAsked DEF Asked
<1>6. CASE Submit
  BY <1>6, SameAsked DEF Submit, Page
<1>7. CASE StartAgain
  <2> DEFINE p == [page EXCEPT !.service = None, !.employee = None, !.slot = None, 
                               !.employees = {}, !.slots = {}, !.date = Today, 
                               !.confirmation = None]
  <2>1. p \in Page
    BY DEF Page
  <2>2. page' = SlotsEffect(EmployeesEffect(p))
    BY <1>7 DEF StartAgain, Render
  <2> HIDE DEF p
  <2>3. PICK p1 \in Page : p1 = EmployeesEffect(p) /\ Asked(p1)
    BY <2>1, EmployeesEffectAsked
  <2>4. page' = SlotsEffect(p1)
    BY <2>2, <2>3
  <2> QED
    BY <2>3, <2>4, SlotsEffectAsked DEF Asked
<1>8. CASE Retry
  BY <1>8 DEF Retry, Callback
<1> QED
  BY <1>1, <1>2, <1>3, <1>4, <1>5, <1>6, <1>7, <1>8 DEF Visitor

LEMMA AnswerAsked ==
    ASSUME page \in Page, Asked(page), AnswerLists \/ AnswerPost
    PROVE  Asked(page')
<1>1. ASSUME NEW v \in Services, AnswerEmployees(v) PROVE Asked(page')
  <2>1. PICK ok \in BOOLEAN :
          page' = [page EXCEPT !.employeesAsked = @ \ {v}, !.loadingEmployees = FALSE,
                               !.employees = IF ok THEN {e \in Performs : e[2] = v} ELSE @]
    BY <1>1 DEF AnswerEmployees
  <2>2. /\ page'.service = page.service /\ page'.employee = page.employee
        /\ page'.date = page.date /\ page'.loadingSlots = page.loadingSlots 
        /\ page'.slotsAsked = page.slotsAsked /\ ~page'.loadingEmployees
    BY <2>1 DEF Page
  <2> QED
    BY <2>2 DEF Asked
<1>2. ASSUME NEW l \in Lookup, AnswerSlots(l) PROVE Asked(page')
  <2>1. PICK ok \in BOOLEAN :
          page' = [page EXCEPT !.slotsAsked = @ \ {l}, !.loadingSlots = FALSE, !.slots =
                      IF ok /\ <<l.employee, l.service>> \in Performs THEN Offered(l) ELSE {}]
    BY <1>2 DEF AnswerSlots
  <2>2. /\ page'.service = page.service /\ page'.employee = page.employee
        /\ page'.loadingEmployees = page.loadingEmployees
        /\ page'.employeesAsked = page.employeesAsked /\ ~page'.loadingSlots
    BY <2>1 DEF Page
  <2> QED
    BY <2>2 DEF Asked
<1>3. CASE Serve
  BY <1>3 DEF Serve
<1>4. ASSUME NEW p \in Page, Asked(p), Finish(p) PROVE Asked(page')
  <2>1. page' = [p EXCEPT !.saving = FALSE]
    BY <1>4 DEF Finish, Render
  <2> QED
    BY <1>4, <2>1, SameAsked DEF Page
<1>5. CASE Receive
  <2>1. CASE post.answer = 201
    <3> DEFINE p == [page EXCEPT !.confirmation = post.choice]
               q == [p EXCEPT !.saving = FALSE]
    <3>1. page' = q
      BY <1>5, <2>1 DEF Receive, Finish, Render
    <3>2. /\ q.service = page.service /\ q.employee = page.employee /\ q.date = page.date
          /\ q.loadingEmployees = page.loadingEmployees
          /\ q.employeesAsked = page.employeesAsked
          /\ q.loadingSlots = page.loadingSlots /\ q.slotsAsked = page.slotsAsked
      BY DEF Page
    <3> HIDE DEF p, q
    <3> QED
      BY <3>1, <3>2, SameAsked
  <2>2. CASE post.answer = 409
    <3> DEFINE p == [page EXCEPT !.slot = None]
    <3>1. /\ p \in Page /\ p.service = page.service /\ p.employee = page.employee
          /\ p.loadingEmployees = page.loadingEmployees
          /\ p.employeesAsked = page.employeesAsked
      BY DEF Page
    <3>2. Finish(SlotsEffect(p))
      BY <1>5, <2>2 DEF Receive
    <3> HIDE DEF p
    <3>3. SlotsEffect(p) \in Page /\ Asked(SlotsEffect(p))
      BY <3>1, SlotsEffectAsked DEF Asked
    <3> QED
      BY <1>4, <3>2, <3>3
  <2>3. CASE post.answer \notin {201, 409}
    BY <1>4, <1>5, <2>3 DEF Receive
  <2> QED
    BY <2>1, <2>2, <2>3
<1>6. CASE Lose
  BY <1>4, <1>6 DEF Lose
<1> QED
  BY <1>1, <1>2, <1>3, <1>5, <1>6 DEF AnswerLists, AnswerPost

\* No spinner of the page, and no 'Enviando', is without a request under way that ends it and
\* that is for what is selected: the effects abort a request only when they send another, or
\* when nobody waits (loadEmployees, loadAvailability, handleSubmit).
THEOREM EveryWaitIsAnswered == Spec => []WaitsForAnAnswer
<1>1. Init => Asked(page)
  <2> SUFFICES ASSUME Init PROVE Asked(page)
    OBVIOUS
  <2>1. page.service = None /\ page.employee = None
    BY DEF Init
  <2> QED
    BY <2>1 DEF Asked
<1>2. Inv /\ Asked(page) /\ [Next]_vars => Asked(page)'
  <2> SUFFICES ASSUME Inv, Asked(page), [Next]_vars PROVE Asked(page')
    BY DEF Asked
  <2>1. page \in Page
    BY DEF Inv, TypeOK
  <2>2. CASE Visitor
    BY <2>1, <2>2, VisitorAsked
  <2>3. CASE AnswerLists \/ AnswerPost
    BY <2>1, <2>3, AnswerAsked
  <2>4. CASE World
    BY <2>4 DEF World, ServeLate, OtherBooks, TimePasses, Solve, GiveUp, Expire, ExpireUnseen, Callback,
       GoOffline, GoOnline
  <2>5. CASE UNCHANGED vars
    BY <2>5 DEF vars
  <2> QED
    BY <2>2, <2>3, <2>4, <2>5 DEF Next
<1>3. Inv /\ Asked(page) => WaitsForAnAnswer
  BY DEF Inv, TypeOK, WaitsForAnAnswer
<1> QED
  BY <1>1, <1>2, <1>3, Invariance, PTL DEF Spec
=============================================================================
