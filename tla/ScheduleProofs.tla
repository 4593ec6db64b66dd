--------------------------- MODULE ScheduleProofs ---------------------------
(***************************************************************************)
(* What holds of Schedule for any number of requests and any timetables:   *)
(* replaced hours and blocked times overlap only where two requests were   *)
(* served at the same time.                                                *)
(***************************************************************************)
EXTENDS Schedule, TLAPS

----------------------------------------------------------------------------
(* The inductive invariant *)

\* The requests whose `seen` is what a statement of theirs saw.
Saw(r) == \/ pc[r] \in Replacing \cup {"create"}
          \/ \E x \in rules \cup blocks : x.by = r

\* Rows appear when the request that writes them ends, ...
Written == \A x \in rules \cup blocks : x.by \in Requests => pc[x.by] = "done"

\* ... so nobody has seen rows of a request that has not ended, ...
SeenWritten == \A r \in Requests : Saw(r) => 
    \A x \in arg[r].seen : x.by \in Requests => pc[x.by] = "done"

\* ... and what a replacement saw and does not delete has been deleted by others.
GoneIsSeen == \A r \in Requests : pc[r] \in {"insert", "commit"} => 
    \A x \in arg[r].seen : x \in rules => x \in arg[r].gone

Checked == \A r \in Requests : 
    /\ pc[r] \in Replacing => ValidDays(arg[r].new)
    /\ pc[r] = "create" => 
          \A b \in arg[r].seen : ~Overlap(b.start, b.end, arg[r].start, arg[r].end)

\* The rows of one request, or of the initial timetable, do not overlap.
Apart(table) == \A x, y \in table :
    x # y /\ Overlap(x.start, x.end, y.start, y.end) => x.by # y.by

Unseen(x, y) == x \notin Seen(y.by) /\ y \notin Seen(x.by)

OverlapUnseen(table) == \A x, y \in table :
    x # y /\ Overlap(x.start, x.end, y.start, y.end) => Unseen(x, y)

Hist == /\ Written /\ SeenWritten /\ GoneIsSeen /\ Checked
        /\ Apart(rules) /\ Apart(blocks)
        /\ ReplacementIsWhole /\ OverlapUnseen(rules) /\ OverlapUnseen(blocks)

IInv == TypeOK /\ Hist

\* What a request has read while it looks for a slot, if nothing overtook it.
Current(r) ==
    /\ pc[r] \in {"blocks", "appointments"} => arg[r].rules = Hours(rules)
    /\ pc[r] = "appointments" => Hours(blocks) \subseteq arg[r].blocks
    /\ pc[r] = "write" => LET s == Label(arg[r].start) IN Free(s, s + arg[r].asked)

SlotInv == SlotIsFree /\ \A r \in Requests \ raced : Current(r)

USE TimeAssumption, NoneAssumption

----------------------------------------------------------------------------
(* Type correctness *)

LEMMA IntervalType ==
    ASSUME NEW h \in Timetables, NEW i \in h
    PROVE  i.start \in Nat /\ i.end \in Nat
  OBVIOUS

LEMMA RowsOfType ==
    ASSUME NEW r \in Requests \cup {None}, NEW h \in Timetables
    PROVE  RowsOf(r, h) \subseteq Row
  BY IntervalType DEF RowsOf, Row

LEMMA HoursType ==
    ASSUME NEW rows, rows \subseteq Row
    PROVE  Hours(rows) \in SUBSET [start : Nat, end : Nat]
  BY DEF Hours, Row

LEMMA InitType == Init => TypeOK
<1> SUFFICES ASSUME Init PROVE TypeOK
  OBVIOUS
<1>1. rules \subseteq Row
  BY RowsOfType DEF Init
<1> QED
  BY <1>1 DEF Init, TypeOK, PC, Replacing, Looking

\* A step that moves one request and at most changes what it has read.
LEMMA StepType ==
    ASSUME TypeOK, NEW r \in Requests, NEW l \in PC, Goto(r, l),
           NEW a \in ReplaceArg \cup BlockArg \cup RemoveArg \cup LookArg \cup {None},
           arg' = [arg EXCEPT ![r] = a],
           l \in Replacing => a \in ReplaceArg,
           l = "create" => a \in BlockArg,
           l = "remove" => a \in RemoveArg,
           l \in Looking => a \in LookArg
    PROVE  /\ pc' \in [Requests -> PC]
           /\ arg' \in [Requests -> ReplaceArg \cup BlockArg \cup RemoveArg \cup LookArg \cup {None}]
           /\ \A q \in Requests :
                /\ pc'[q] \in Replacing => arg'[q] \in ReplaceArg
                /\ pc'[q] = "create" => arg'[q] \in BlockArg
                /\ pc'[q] = "remove" => arg'[q] \in RemoveArg
                /\ pc'[q] \in Looking => arg'[q] \in LookArg
  BY DEF TypeOK, Goto

\* A step that moves one request and leaves what it has read.
LEMMA MoveType ==
    ASSUME TypeOK, NEW r \in Requests, NEW l \in PC, Goto(r, l), UNCHANGED arg,
           l \in Replacing => pc[r] \in Replacing,
           l = "create" => pc[r] = "create",
           l = "remove" => pc[r] = "remove",
           l \in Looking => pc[r] \in Looking
    PROVE  /\ pc' \in [Requests -> PC]
           /\ arg' \in [Requests -> ReplaceArg \cup BlockArg \cup RemoveArg \cup LookArg \cup {None}]
           /\ \A q \in Requests :
                /\ pc'[q] \in Replacing => arg'[q] \in ReplaceArg
                /\ pc'[q] = "create" => arg'[q] \in BlockArg
                /\ pc'[q] = "remove" => arg'[q] \in RemoveArg
                /\ pc'[q] \in Looking => arg'[q] \in LookArg
  BY DEF TypeOK, Goto

LEMMA BeginType ==
    ASSUME TypeOK, NEW r \in Requests, Begin(r)
    PROVE  TypeOK'
<1>1. CASE BeginReplace(r)
  <2>1. PICK h \in Timetables :
             arg' = [arg EXCEPT ![r] = [new |-> h, seen |-> rules, gone |-> {}]]
    BY <1>1 DEF BeginReplace
  <2>2. [new |-> h, seen |-> rules, gone |-> {}] \in ReplaceArg
    BY DEF TypeOK, ReplaceArg
  <2> QED
    BY <1>1, <2>1, <2>2, StepType DEF BeginReplace, TypeOK, PC, Replacing, Looking
<1>2. CASE BeginBlock(r)
  <2>1. PICK i \in Intervals :
             arg' = [arg EXCEPT ![r] = [start |-> i.start, end |-> i.end, seen |-> blocks]]
    BY <1>2 DEF BeginBlock
  <2>2. [start |-> i.start, end |-> i.end, seen |-> blocks] \in BlockArg
    BY DEF TypeOK, BlockArg
  <2> QED
    BY <1>2, <2>1, <2>2, StepType DEF BeginBlock, TypeOK, PC, Replacing, Looking
<1>3. CASE BeginRemove(r)
  <2>1. PICK b \in blocks : arg' = [arg EXCEPT ![r] = [block |-> b]]
    BY <1>3 DEF BeginRemove
  <2>2. [block |-> b] \in RemoveArg
    BY DEF TypeOK, RemoveArg
  <2> QED
    BY <1>3, <2>1, <2>2, StepType DEF BeginRemove, TypeOK, PC, Replacing, Looking
<1>4. CASE SetDuration(r)
  BY <1>4, MoveType DEF SetDuration, TypeOK, PC, Replacing, Looking
<1>5. CASE BeginBook(r)
  <2>1. PICK s \in Starts :
             arg' = [arg EXCEPT ![r] = [id |-> r, start |-> s, dur |-> dur, asked |-> dur,
                                        rules |-> {}, blocks |-> {}]]
    BY <1>5 DEF BeginBook
  <2>2. [id |-> r, start |-> s, dur |-> dur, asked |-> dur,
         rules |-> {}, blocks |-> {}] \in LookArg
    BY DEF TypeOK, LookArg
  <2> QED
    BY <1>5, <2>1, <2>2, StepType DEF BeginBook, TypeOK, PC, Replacing, Looking
<1>6. CASE BeginReschedule(r)
  <2>1. PICK a \in Requests, s \in Starts : 
             /\ appt[a] # None
             /\ arg' = [arg EXCEPT ![r] = [id |-> a, start |-> s, dur |-> appt[a].dur, 
                                           asked |-> dur, rules |-> {}, blocks |-> {}]]
    BY <1>6 DEF BeginReschedule
  <2>2. appt[a].dur \in Durations
    BY <2>1 DEF TypeOK, Appointment
  <2>3. [id |-> a, start |-> s, dur |-> appt[a].dur, asked |-> dur,
         rules |-> {}, blocks |-> {}] \in LookArg
    BY <2>2 DEF TypeOK, LookArg
  <2> QED
    BY <1>6, <2>1, <2>3, StepType DEF BeginReschedule, TypeOK, PC, Replacing, Looking
<1> QED
  BY <1>1, <1>2, <1>3, <1>4, <1>5, <1>6 DEF Begin

LEMMA ServeType ==
    ASSUME TypeOK, NEW r \in Requests, Serve(r) \/ Rollback(r)
    PROVE  TypeOK'
<1>1. CASE DeleteMany(r)
  <2>1. arg[r] \in ReplaceArg
    BY <1>1 DEF DeleteMany, TypeOK, Replacing
  <2> DEFINE a == [arg[r] EXCEPT !.gone = arg[r].seen \cap rules]
  <2>2. a \in ReplaceArg /\ arg' = [arg EXCEPT ![r] = a]
    BY <1>1, <2>1 DEF DeleteMany, ReplaceArg, TypeOK
  <2> HIDE DEF a
  <2> QED
    BY <1>1, <2>2, StepType DEF DeleteMany, TypeOK, PC, Replacing, Looking
<1>2. CASE CreateMany(r)
  BY <1>2, MoveType DEF CreateMany, TypeOK, PC, Replacing, Looking
<1>3. CASE CommitReplace(r)
  <2>1. arg[r].new \in Timetables
    BY <1>3 DEF CommitReplace, TypeOK, ReplaceArg, Replacing
  <2>2. rules' \subseteq Row
    BY <1>3, <2>1, RowsOfType DEF CommitReplace, TypeOK
  <2>3. raced' \subseteq Requests /\ due' = {}
    BY <1>3 DEF CommitReplace, Overtaken, TypeOK
  <2> QED
    BY <1>3, <2>2, <2>3, MoveType DEF CommitReplace, TypeOK, PC, Replacing, Looking
<1>4. CASE CreateBlock(r)
  <2>1. arg[r].start \in Nat /\ arg[r].end \in Nat
    BY <1>4 DEF CreateBlock, TypeOK, BlockArg
  <2>2. blocks' \subseteq Row
    BY <1>4, <2>1 DEF CreateBlock, TypeOK, Row
  <2>3. raced' \subseteq Requests /\ due' = {}
    BY <1>4 DEF CreateBlock, Overtaken, TypeOK
  <2> QED
    BY <1>4, <2>2, <2>3, MoveType DEF CreateBlock, TypeOK, PC, Replacing, Looking
<1>5. CASE RemoveBlock(r)
  BY <1>5, MoveType DEF RemoveBlock, TypeOK, PC, Replacing, Looking
<1>6. CASE ReadRules(r)
  <2>1. arg[r] \in LookArg /\ Hours(rules) \in SUBSET [start : Nat, end : Nat]
    BY <1>6, HoursType DEF ReadRules, TypeOK, Looking
  <2> DEFINE a == [arg[r] EXCEPT !.rules = Hours(rules)]
  <2>2. a \in LookArg /\ arg' = [arg EXCEPT ![r] = a]
    BY <1>6, <2>1 DEF ReadRules, LookArg, TypeOK
  <2> HIDE DEF a
  <2> QED
    BY <1>6, <2>2, StepType DEF ReadRules, TypeOK, PC, Replacing, Looking
<1>7. CASE ReadBlocks(r)
  <2>1. arg[r] \in LookArg /\ Hours(blocks) \in SUBSET [start : Nat, end : Nat]
    BY <1>7, HoursType DEF ReadBlocks, TypeOK, Looking
  <2> DEFINE a == [arg[r] EXCEPT !.blocks = Hours(blocks)]
  <2>2. a \in LookArg /\ arg' = [arg EXCEPT ![r] = a]
    BY <1>7, <2>1 DEF ReadBlocks, LookArg, TypeOK
  <2> HIDE DEF a
  <2> QED
    BY <1>7, <2>2, StepType DEF ReadBlocks, TypeOK, PC, Replacing, Looking
<1>8. CASE ReadAppointments(r)
  BY <1>8, MoveType DEF ReadAppointments, TypeOK, PC, Replacing, Looking
<1>9. CASE WriteAppointment(r)
  <2> DEFINE x == arg[r]
             a == [start |-> x.start, dur |-> x.dur, asked |-> x.asked]
  <2>1. x.id \in Requests /\ a \in Appointment
    BY <1>9 DEF WriteAppointment, TypeOK, LookArg, Looking, Appointment
  <2>2. appt' = [appt EXCEPT ![x.id] = a] /\ due' \subseteq due \cup {x.id}
    BY <1>9 DEF WriteAppointment
  <2> HIDE DEF x, a
  <2>3. /\ appt' \in [Requests -> Appointment \cup {None}]
        /\ due' \subseteq {b \in Requests : appt'[b] # None}
    BY <2>1, <2>2 DEF TypeOK
  <2> QED
    BY <1>9, <2>3, MoveType DEF WriteAppointment, TypeOK, PC, Replacing, Looking
<1>10. CASE RejectAppointment(r)
  BY <1>10, MoveType DEF RejectAppointment, TypeOK, PC, Replacing, Looking
<1>11. CASE Rollback(r)
  BY <1>11, MoveType DEF Rollback, TypeOK, PC, Replacing, Looking
<1> QED
  BY <1>1, <1>2, <1>3, <1>4, <1>5, <1>6, <1>7, <1>8, <1>9, <1>10, <1>11 DEF Serve

LEMMA NextType == TypeOK /\ [Next]_vars => TypeOK'
<1> SUFFICES ASSUME TypeOK, [Next]_vars PROVE TypeOK'
  OBVIOUS
<1>1. CASE UNCHANGED vars
  BY <1>1 DEF vars, TypeOK
<1> QED
  BY <1>1, BeginType, ServeType DEF Next, AllServed

\* Every reachable state is well typed, for any requests, timetables, instants and
\* durations.
THEOREM TypeCorrect == Spec => []TypeOK
<1> QED
  BY InitType, NextType, PTL DEF Spec

----------------------------------------------------------------------------
(* The history of hours and blocks *)

LEMMA ValidDaysApart ==
    ASSUME NEW h \in Timetables, ValidDays(h), NEW r \in Requests \cup {None}
    PROVE  \A x, y \in RowsOf(r, h) : x # y => ~Overlap(x.start, x.end, y.start, y.end)
<1> SUFFICES ASSUME NEW x \in RowsOf(r, h), NEW y \in RowsOf(r, h), x # y
             PROVE  ~Overlap(x.start, x.end, y.start, y.end)
  OBVIOUS
<1>1. PICK i \in h : x = [by |-> r, start |-> i.start, end |-> i.end]
  BY DEF RowsOf
<1>2. PICK j \in h : y = [by |-> r, start |-> j.start, end |-> j.end]
  BY DEF RowsOf
<1>3. i # j
  BY <1>1, <1>2
<1>4. /\ i.start \in Nat /\ i.end \in Nat
      /\ j.start \in Nat /\ j.end \in Nat
  BY IntervalType
<1>5. /\ i.start < i.end /\ j.start < j.end
      /\ i.end <= j.start \/ j.end <= i.start
  BY <1>3 DEF ValidDays
<1>6. /\ x.start = i.start /\ x.end = i.end
      /\ y.start = j.start /\ y.end = j.end
  BY <1>1, <1>2
<1> QED
  BY <1>4, <1>5, <1>6 DEF Overlap

LEMMA InitHist == Init => Hist
<1> SUFFICES ASSUME Init PROVE Hist
  OBVIOUS
<1>1. PICK h \in Timetables : ValidDays(h) /\ rules = RowsOf(None, h)
  BY DEF Init
<1>2. \A x \in rules : x.by = None
  BY <1>1 DEF RowsOf
<1>3. \A r \in Requests : pc[r] = "idle" /\ ~Saw(r)
  BY <1>2 DEF Init, Saw, Replacing
<1>4. blocks = {}
  BY DEF Init
<1>5. \A x, y \in rules : x # y => ~Overlap(x.start, x.end, y.start, y.end)
  BY <1>1, ValidDaysApart
<1> QED
  BY <1>2, <1>3, <1>4, <1>5 DEF Hist, Written, SeenWritten, GoneIsSeen, Checked, Apart,
     OverlapUnseen, ReplacementIsWhole, Replacing

\* A step of one request that leaves rules and blocks as they are.
LEMMA Frame ==
    ASSUME TypeOK, Hist, NEW r \in Requests, pc[r] # "done", 
           rules' = rules, blocks' = blocks, NEW l \in PC, Goto(r, l),
           \A q \in Requests \ {r} : arg'[q] = arg[q],
           l \in Replacing \cup {"create"} => 
              \A x \in arg'[r].seen : x.by \in Requests => pc[x.by] = "done",
           l \in {"insert", "commit"} => 
              \A x \in arg'[r].seen : x \in rules => x \in arg'[r].gone,
           l \in Replacing => ValidDays(arg'[r].new),
           l = "create" => 
              \A b \in arg'[r].seen : ~Overlap(b.start, b.end, arg'[r].start, arg'[r].end)
    PROVE  Hist'
<1>1. /\ pc'[r] = l
      /\ \A q \in Requests \ {r} : pc'[q] = pc[q]
  BY DEF Goto, TypeOK
<1>2. \A x \in rules \cup blocks : x.by # r
  BY DEF Hist, Written
<1>3. \A q \in Requests : pc[q] = "done" => pc'[q] = "done"
  BY <1>1
<1>4. Written'
  BY <1>3 DEF Hist, Written
<1>5. SeenWritten'
  <2> SUFFICES ASSUME NEW q \in Requests, Saw(q)', NEW x \in arg'[q].seen, x.by \in Requests
               PROVE  pc'[x.by] = "done"
    BY DEF SeenWritten
  <2>1. CASE q = r
    <3>1. l \in Replacing \cup {"create"}
      BY <1>1, <1>2, <2>1 DEF Saw
    <3> QED BY <1>3, <2>1, <3>1
  <2>2. CASE q # r
    <3>1. Saw(q) /\ arg'[q] = arg[q]
      BY <1>1, <2>2 DEF Saw
    <3> QED BY <1>3, <3>1 DEF Hist, SeenWritten
  <2> QED BY <2>1, <2>2
<1>6. GoneIsSeen'
  BY <1>1 DEF Hist, GoneIsSeen
<1>7. Checked'
  BY <1>1 DEF Hist, Checked
<1>8. \A x \in rules \cup blocks : Seen(x.by)' = Seen(x.by)
  <2> SUFFICES ASSUME NEW x \in rules \cup blocks PROVE Seen(x.by)' = Seen(x.by)
    OBVIOUS
  <2>1. x.by \in Requests \cup {None}
    BY DEF TypeOK, Row
  <2> QED BY <1>2, <2>1 DEF Seen
<1>9. (ReplacementIsWhole /\ OverlapUnseen(rules) /\ OverlapUnseen(blocks))'
  BY <1>8 DEF Hist, ReplacementIsWhole, OverlapUnseen, Unseen
<1>10. (Apart(rules) /\ Apart(blocks))'
  BY DEF Hist, Apart
<1> QED
  BY <1>4, <1>5, <1>6, <1>7, <1>9, <1>10 DEF Hist

\* Steps that neither replace nor block keep the history.
LEMMA OtherHist ==
    ASSUME TypeOK, Hist, NEW r \in Requests, pc[r] # "done", 
           rules' = rules, blocks' = blocks, NEW l \in PC, Goto(r, l),
           l \notin Replacing \cup {"create"},
           \A q \in Requests \ {r} : arg'[q] = arg[q]
    PROVE  Hist'
  BY Frame DEF Replacing

\* What is in a table now was written by a request that has ended.
LEMMA TableWritten ==
    ASSUME Hist
    PROVE  \A x \in rules \cup blocks : x.by \in Requests => pc[x.by] = "done"
  BY DEF Hist, Written

LEMMA BeginHist ==
    ASSUME TypeOK, Hist, NEW r \in Requests, Begin(r)
    PROVE  Hist'
<1>1. CASE BeginReplace(r)
  <2>1. PICK h \in Timetables : 
             /\ ValidDays(h)
             /\ arg' = [arg EXCEPT ![r] = [new |-> h, seen |-> rules, gone |-> {}]]
    BY <1>1 DEF BeginReplace
  <2>2. arg'[r].seen = rules /\ arg'[r].new = h
    BY <2>1 DEF TypeOK
  <2>3. \A q \in Requests \ {r} : arg'[q] = arg[q]
    BY <2>1 DEF TypeOK
  <2> QED
    BY <1>1, <2>1, <2>2, <2>3, TableWritten, Frame DEF BeginReplace, PC, Replacing
<1>2. CASE BeginBlock(r)
  <2>1. PICK i \in Intervals : 
             /\ ~Hit(i.start, i.end, blocks)
             /\ arg' = [arg EXCEPT ![r] = [start |-> i.start, end |-> i.end, seen |-> blocks]]
    BY <1>2 DEF BeginBlock
  <2>2. arg'[r].seen = blocks /\ arg'[r].start = i.start /\ arg'[r].end = i.end
    BY <2>1 DEF TypeOK
  <2>3. \A q \in Requests \ {r} : arg'[q] = arg[q]
    BY <2>1 DEF TypeOK
  <2>4. \A b \in arg'[r].seen : ~Overlap(b.start, b.end, arg'[r].start, arg'[r].end)
    BY <2>1, <2>2 DEF Hit
  <2> QED
    BY <1>2, <2>2, <2>3, <2>4, TableWritten, Frame DEF BeginBlock, PC, Replacing
<1>3. CASE BeginRemove(r)
  BY <1>3, OtherHist DEF BeginRemove, TypeOK, PC, Replacing
<1>4. CASE SetDuration(r)
  BY <1>4, OtherHist DEF SetDuration, TypeOK, PC, Replacing
<1>5. CASE BeginBook(r)
  BY <1>5, OtherHist DEF BeginBook, TypeOK, PC, Replacing
<1>6. CASE BeginReschedule(r)
  BY <1>6, OtherHist DEF BeginReschedule, TypeOK, PC, Replacing
<1> QED
  BY <1>1, <1>2, <1>3, <1>4, <1>5, <1>6 DEF Begin

\* A row that is written when its request ends has been seen by nobody.
LEMMA NewIsUnseen ==
    ASSUME TypeOK, Hist, NEW r \in Requests, pc[r] # "done",
           NEW x, x.by = r, NEW y \in rules \cup blocks
    PROVE  x \notin Seen(y.by)
<1>1. CASE y.by = None
  BY <1>1 DEF Seen
<1>2. CASE y.by \in Requests
  <2>1. Saw(y.by)
    BY <1>2 DEF Saw
  <2> QED BY <1>2, <2>1 DEF Seen, Hist, SeenWritten
<1> QED
  BY <1>1, <1>2 DEF TypeOK, Row

LEMMA CommitHist ==
    ASSUME TypeOK, Hist, NEW r \in Requests, CommitReplace(r)
    PROVE  Hist'
<1> DEFINE new == RowsOf(r, arg[r].new)
           old == rules \ arg[r].gone
<1>1. /\ pc[r] = "commit" /\ rules' = old \cup new /\ blocks' = blocks /\ arg' = arg
      /\ pc'[r] = "done" 
      /\ \A q \in Requests \ {r} : pc'[q] = pc[q]
  BY DEF CommitReplace, Goto, TypeOK
<1>2. \A x \in new : x.by = r
  BY DEF RowsOf
<1>3. \A x \in rules \cup blocks : x.by # r /\ x.by \in Requests \cup {None}
  BY <1>1 DEF Hist, Written, TypeOK, Row
<1>4. \A x, y \in new : x # y => ~Overlap(x.start, x.end, y.start, y.end)
  <2>1. ValidDays(arg[r].new) /\ arg[r].new \in Timetables
    BY <1>1 DEF Hist, Checked, TypeOK, ReplaceArg, Replacing
  <2> QED BY <2>1, ValidDaysApart
<1>5. old \subseteq rules
  OBVIOUS
<1>6. \A y \in old : y \notin Seen(r)
  BY <1>1 DEF Seen, Hist, GoneIsSeen
<1>7. \A x \in new, y \in rules \cup blocks : x \notin Seen(y.by)
  BY <1>1, <1>2, NewIsUnseen
<1> HIDE DEF new, old
<1>8. \A q : Seen(q)' = Seen(q)
  BY <1>1 DEF Seen
<1>9. Written'
  BY <1>1, <1>2, <1>3, <1>5 DEF Hist, Written
<1>10. SeenWritten'
  <2> SUFFICES ASSUME NEW q \in Requests, Saw(q)', NEW x \in arg[q].seen, x.by \in Requests
               PROVE  pc'[x.by] = "done"
    BY <1>1 DEF SeenWritten
  <2>1. Saw(q)
    BY <1>1, <1>2, <1>5 DEF Saw, Replacing
  <2> QED
    BY <1>1, <2>1 DEF Hist, SeenWritten
<1>11. GoneIsSeen'
  <2> SUFFICES ASSUME NEW q \in Requests, pc'[q] \in {"insert", "commit"},
                      NEW x \in arg[q].seen, x \in rules'
               PROVE  x \in arg[q].gone
    BY <1>1 DEF GoneIsSeen
  <2>1. pc[q] \in {"insert", "commit"} /\ Saw(q)
    BY <1>1 DEF Saw, Replacing
  <2>2. x \notin new
    BY <1>1, <1>2, <2>1 DEF Hist, SeenWritten
  <2> QED
    BY <1>1, <1>5, <2>1, <2>2 DEF Hist, GoneIsSeen
<1>12. Checked'
  BY <1>1 DEF Hist, Checked, Replacing
<1>13. Apart(rules)' /\ Apart(blocks)'
  BY <1>1, <1>2, <1>3, <1>4, <1>5 DEF Hist, Apart
<1>14. \A x, y \in rules' : x.by # y.by => x \notin Seen(y.by) /\ y \notin Seen(x.by)
  <2> SUFFICES ASSUME NEW x \in old \cup new, NEW y \in old \cup new, x.by # y.by
               PROVE  x \notin Seen(y.by)
    BY <1>1
  <2>1. CASE x \in old /\ y \in old
    BY <1>5, <2>1 DEF Hist, ReplacementIsWhole
  <2>2. CASE x \in old /\ y \in new
    BY <1>2, <1>6, <2>2
  <2>3. CASE x \in new /\ y \in old
    BY <1>5, <1>7, <2>3
  <2>4. CASE x \in new /\ y \in new
    BY <1>2, <2>4
  <2> QED BY <2>1, <2>2, <2>3, <2>4
<1>15. ReplacementIsWhole'
  BY <1>8, <1>14 DEF ReplacementIsWhole
<1>16. OverlapUnseen(rules)'
  BY <1>8, <1>13, <1>14 DEF OverlapUnseen, Apart, Unseen
<1>17. OverlapUnseen(blocks)'
  BY <1>1, <1>8 DEF Hist, OverlapUnseen, Unseen
<1> QED
  BY <1>9, <1>10, <1>11, <1>12, <1>13, <1>15, <1>16, <1>17 DEF Hist

LEMMA CreateBlockHist ==
    ASSUME TypeOK, Hist, NEW r \in Requests, CreateBlock(r)
    PROVE  Hist'
<1> DEFINE b == [by |-> r, start |-> arg[r].start, end |-> arg[r].end]
<1>1. /\ pc[r] = "create" /\ blocks' = blocks \cup {b} /\ rules' = rules /\ arg' = arg
      /\ pc'[r] = "done" 
      /\ \A q \in Requests \ {r} : pc'[q] = pc[q]
  BY DEF CreateBlock, Goto, TypeOK
<1>2. b.by = r /\ b.start = arg[r].start /\ b.end = arg[r].end
  OBVIOUS
<1>3. \A x \in rules \cup blocks : x.by # r /\ x.by \in Requests \cup {None}
  BY <1>1 DEF Hist, Written, TypeOK, Row
<1>4. \A y \in rules \cup blocks : b \notin Seen(y.by)
  BY <1>1, <1>2, NewIsUnseen
\* The check of create: the new block overlaps none that its query saw.
<1>5. \A y \in arg[r].seen : ~Overlap(y.start, y.end, b.start, b.end)
  BY <1>1, <1>2 DEF Hist, Checked
<1>6. \A y : Overlap(b.start, b.end, y.start, y.end) => y \notin Seen(r)
  BY <1>5 DEF Seen, Overlap
<1>7. \A y : Overlap(y.start, y.end, b.start, b.end) => y \notin Seen(r)
  BY <1>5 DEF Seen
<1> HIDE DEF b
<1>8. \A q : Seen(q)' = Seen(q)
  BY <1>1 DEF Seen
<1>9. Written'
  BY <1>1, <1>2, <1>3 DEF Hist, Written
<1>10. SeenWritten'
  <2> SUFFICES ASSUME NEW q \in Requests, Saw(q)', NEW x \in arg[q].seen, x.by \in Requests
               PROVE  pc'[x.by] = "done"
    BY <1>1 DEF SeenWritten
  <2>1. Saw(q)
    BY <1>1, <1>2 DEF Saw, Replacing
  <2> QED
    BY <1>1, <2>1 DEF Hist, SeenWritten
<1>11. GoneIsSeen'
  BY <1>1 DEF Hist, GoneIsSeen
<1>12. Checked'
  BY <1>1 DEF Hist, Checked, Replacing
<1>13. (Apart(rules) /\ ReplacementIsWhole /\ OverlapUnseen(rules))'
  BY <1>1, <1>8 DEF Hist, Apart, ReplacementIsWhole, OverlapUnseen, Unseen
<1>14. Apart(blocks)'
  BY <1>1, <1>2, <1>3 DEF Hist, Apart
<1>15. OverlapUnseen(blocks)'
  <2> SUFFICES ASSUME NEW x \in blocks \cup {b}, NEW y \in blocks \cup {b}, x # y,
                      Overlap(x.start, x.end, y.start, y.end)
               PROVE  Unseen(x, y)
    BY <1>1, <1>8 DEF OverlapUnseen, Unseen
  <2>1. CASE x \in blocks /\ y \in blocks
    BY <2>1 DEF Hist, OverlapUnseen
  <2>2. CASE x \in blocks /\ y = b
    BY <1>2, <1>4, <1>7, <2>2 DEF Unseen
  <2>3. CASE x = b /\ y \in blocks
    BY <1>2, <1>4, <1>6, <2>3 DEF Unseen
  <2> QED BY <2>1, <2>2, <2>3
<1> QED
  BY <1>9, <1>10, <1>11, <1>12, <1>13, <1>14, <1>15 DEF Hist

LEMMA RemoveBlockHist ==
    ASSUME TypeOK, Hist, NEW r \in Requests, RemoveBlock(r)
    PROVE  Hist'
<1>1. /\ pc[r] = "remove" /\ blocks' \subseteq blocks /\ rules' = rules /\ arg' = arg
      /\ pc'[r] = "done" 
      /\ \A q \in Requests \ {r} : pc'[q] = pc[q]
  BY DEF RemoveBlock, Goto, TypeOK
<1>2. \A q : Seen(q)' = Seen(q)
  BY <1>1 DEF Seen
<1>3. Written'
  BY <1>1 DEF Hist, Written
<1>4. SeenWritten'
  <2> SUFFICES ASSUME NEW q \in Requests, Saw(q)', NEW x \in arg[q].seen, x.by \in Requests
               PROVE  pc'[x.by] = "done"
    BY <1>1 DEF SeenWritten
  <2>1. Saw(q)
    BY <1>1 DEF Saw, Replacing
  <2> QED
    BY <1>1, <2>1 DEF Hist, SeenWritten
<1>5. GoneIsSeen' /\ Checked'
  BY <1>1 DEF Hist, GoneIsSeen, Checked, Replacing
<1>6. (Apart(rules) /\ ReplacementIsWhole /\ OverlapUnseen(rules))'
  BY <1>1, <1>2 DEF Hist, Apart, ReplacementIsWhole, OverlapUnseen, Unseen
<1>7. (Apart(blocks) /\ OverlapUnseen(blocks))'
  BY <1>1, <1>2 DEF Hist, Apart, OverlapUnseen, Unseen
<1> QED
  BY <1>3, <1>4, <1>5, <1>6, <1>7 DEF Hist

LEMMA ServeHist ==
    ASSUME TypeOK, Hist, NEW r \in Requests, Serve(r) \/ Rollback(r)
    PROVE  Hist'
<1>1. CASE DeleteMany(r)
  <2>1. arg[r] \in ReplaceArg
    BY <1>1 DEF DeleteMany, TypeOK, Replacing
  <2>2. /\ arg'[r].seen = arg[r].seen /\ arg'[r].new = arg[r].new
        /\ arg'[r].gone = arg[r].seen \cap rules
        /\ \A q \in Requests \ {r} : arg'[q] = arg[q]
    BY <1>1, <2>1 DEF DeleteMany, TypeOK, ReplaceArg
  <2>3. /\ \A x \in arg[r].seen : x.by \in Requests => pc[x.by] = "done"
        /\ ValidDays(arg[r].new)
    BY <1>1 DEF DeleteMany, Hist, SeenWritten, Saw, Checked, Replacing
  <2> QED
    BY <1>1, <2>2, <2>3, Frame DEF DeleteMany, PC, Replacing
<1>2. CASE CreateMany(r)
  <2>1. /\ \A x \in arg[r].seen : x.by \in Requests => pc[x.by] = "done"
        /\ \A x \in arg[r].seen : x \in rules => x \in arg[r].gone
        /\ ValidDays(arg[r].new)
    BY <1>2 DEF CreateMany, Hist, SeenWritten, Saw, GoneIsSeen, Checked, Replacing
  <2>2. PICK l \in {"commit", "done"} : Goto(r, l)
    BY <1>2 DEF CreateMany
  <2> QED
    BY <1>2, <2>1, <2>2, Frame DEF CreateMany, PC, Replacing
<1>3. CASE ReadRules(r)
  BY <1>3, OtherHist DEF ReadRules, TypeOK, PC, Replacing
<1>4. CASE ReadBlocks(r)
  BY <1>4, OtherHist DEF ReadBlocks, TypeOK, PC, Replacing
<1>5. CASE ReadAppointments(r)
  BY <1>5, OtherHist DEF ReadAppointments, TypeOK, PC, Replacing
<1>6. CASE WriteAppointment(r)
  BY <1>6, OtherHist DEF WriteAppointment, TypeOK, PC, Replacing
<1>7. CASE RejectAppointment(r)
  BY <1>7, OtherHist DEF RejectAppointment, TypeOK, PC, Replacing
<1>8. CASE Rollback(r)
  BY <1>8, OtherHist DEF Rollback, TypeOK, PC, Replacing
<1> QED
  BY <1>1, <1>2, <1>3, <1>4, <1>5, <1>6, <1>7, <1>8, 
     CommitHist, CreateBlockHist, RemoveBlockHist DEF Serve

LEMMA NextHist == TypeOK /\ Hist /\ [Next]_vars => Hist'
<1> SUFFICES ASSUME TypeOK, Hist, [Next]_vars PROVE Hist'
  OBVIOUS
<1>1. CASE UNCHANGED vars
  <2>1. \A q : Seen(q)' = Seen(q)
    BY <1>1 DEF vars, Seen
  <2> QED
    BY <1>1, <2>1 DEF vars, Hist, Written, SeenWritten, Saw, GoneIsSeen, Checked, Apart,
       OverlapUnseen, Unseen, ReplacementIsWhole
<1> QED
  BY <1>1, BeginHist, ServeHist DEF Next, AllServed

LEMMA Inductive == Spec => []IInv
<1>1. Init => IInv
  BY InitType, InitHist DEF IInv
<1>2. IInv /\ [Next]_vars => IInv'
  BY NextType, NextHist DEF IInv
<1> QED
  BY <1>1, <1>2, PTL DEF Spec

\* Working hours of two requests stand side by side only if neither saw the
\* other's, for any number of concurrent requests (setAvailability).
THEOREM HoursAreReplaced == Spec => []ReplacementIsWhole
<1>1. IInv => ReplacementIsWhole
  BY DEF IInv, Hist
<1> QED
  BY <1>1, Inductive, PTL

\* Working hours, and blocked times, overlap only where two requests missed each
\* other's rows (validateDays and the check of BlockedTimesService.create).
THEOREM NoOtherOverlap == Spec => []OverlapsAreUnseen
<1>1. IInv => OverlapsAreUnseen
  BY DEF IInv, Hist, Apart, OverlapUnseen, Unseen, OverlapsAreUnseen
<1> QED
  BY <1>1, Inductive, PTL

----------------------------------------------------------------------------
(* The slot an appointment is booked on *)

\* Removing blocked times frees time and takes none.
LEMMA FreeStays ==
    ASSUME rules' = rules, blocks' \subseteq blocks, NEW s, NEW e, Free(s, e)
    PROVE  Free(s, e)'
  BY DEF Free, Hit

\* What is offered on what was read is free, if what was read is current.
LEMMA OfferedIsFree ==
    ASSUME TypeOK, NEW x \in LookArg, Offered(x),
           x.rules = Hours(rules), Hours(blocks) \subseteq x.blocks
    PROVE  LET s == Label(x.start) IN Free(s, s + x.asked)
<1> DEFINE s == Label(x.start)
<1>1. PICK i \in x.rules : s \in SlotsOf(i, x.asked)
  BY DEF Offered
<1>2. i.start \in Nat /\ i.end \in Nat /\ x.asked \in Nat
  BY DEF LookArg
<1>3. s \in Int /\ i.start <= s /\ s + x.asked <= i.end
  BY <1>1, <1>2 DEF SlotsOf
<1>4. PICK y \in rules : i = [start |-> y.start, end |-> y.end]
  BY DEF Hours
<1>5. y.start <= s /\ s + x.asked <= y.end
  BY <1>3, <1>4
<1>6. ~Hit(s, s + x.asked, blocks)
  <2> SUFFICES ASSUME NEW b \in blocks, Overlap(b.start, b.end, s, s + x.asked)
               PROVE  FALSE
    BY DEF Hit
  <2>1. [start |-> b.start, end |-> b.end] \in x.blocks
    BY DEF Hours
  <2> QED
    BY <2>1 DEF Offered, Hit
<1> QED
  BY <1>5, <1>6 DEF Free

\* A step of one request that changes neither the tables nor what is due.
LEMMA SlotFrame ==
    ASSUME TypeOK, SlotInv, NEW r \in Requests, NEW l \in PC, Goto(r, l),
           UNCHANGED <<rules, blocks, appt, raced, due>>,
           \A q \in Requests \ {r} : arg'[q] = arg[q],
           r \notin raced => Current(r)'
    PROVE  SlotInv'
<1>1. \A q \in Requests \ {r} : pc'[q] = pc[q]
  BY DEF Goto, TypeOK
<1>2. SlotIsFree'
  BY DEF SlotInv, SlotIsFree, Free
<1>3. ASSUME NEW q \in Requests \ raced, q # r
      PROVE  Current(q)'
  BY <1>1, <1>3 DEF SlotInv, Current, Free
<1> QED
  BY <1>2, <1>3 DEF SlotInv

LEMMA BeginSlot ==
    ASSUME TypeOK, SlotInv, NEW r \in Requests, Begin(r)
    PROVE  SlotInv'
<1>1. UNCHANGED <<rules, blocks, appt, raced, due>>
  BY DEF Begin, BeginReplace, BeginBlock, BeginRemove, SetDuration, BeginBook, BeginReschedule
<1>2. \A q \in Requests \ {r} : arg'[q] = arg[q]
  BY DEF Begin, BeginReplace, BeginBlock, BeginRemove, SetDuration, BeginBook, 
     BeginReschedule, TypeOK
<1>3. PICK l \in {"delete", "create", "remove", "done", "rules"} : Goto(r, l)
  BY DEF Begin, BeginReplace, BeginBlock, BeginRemove, SetDuration, BeginBook, BeginReschedule
<1>4. Current(r)'
  BY <1>3 DEF Goto, TypeOK, Current
<1> QED
  BY <1>1, <1>2, <1>3, <1>4, SlotFrame DEF PC

LEMMA ServeSlot ==
    ASSUME TypeOK, SlotInv, NEW r \in Requests, Serve(r) \/ Rollback(r)
    PROVE  SlotInv'
<1>1. CASE DeleteMany(r)
  <2>1. Current(r)'
    BY <1>1 DEF DeleteMany, Goto, TypeOK, Current
  <2> QED
    BY <1>1, <2>1, SlotFrame DEF DeleteMany, TypeOK, PC
<1>2. CASE CreateMany(r)
  <2>1. PICK l \in {"commit", "done"} : Goto(r, l)
    BY <1>2 DEF CreateMany
  <2>2. Current(r)'
    BY <2>1 DEF Goto, TypeOK, Current
  <2> QED
    BY <1>2, <2>1, <2>2, SlotFrame DEF CreateMany, PC
<1>3. CASE CommitReplace(r)
  <2>1. ASSUME NEW q \in Requests \ raced'
        PROVE  Current(q)'
    BY <1>3, <2>1 DEF CommitReplace, Overtaken, Goto, TypeOK, Current
  <2> QED
    BY <1>3, <2>1 DEF CommitReplace, SlotInv, SlotIsFree
<1>4. CASE CreateBlock(r)
  <2>1. ASSUME NEW q \in Requests \ raced'
        PROVE  Current(q)'
    BY <1>4, <2>1 DEF CreateBlock, Overtaken, Goto, TypeOK, Current, SlotInv
  <2> QED
    BY <1>4, <2>1 DEF CreateBlock, SlotInv, SlotIsFree
<1>5. CASE RemoveBlock(r)
  <2>1. rules' = rules /\ blocks' \subseteq blocks /\ arg' = arg /\ appt' = appt 
    BY <1>5 DEF RemoveBlock
  <2>2. ASSUME NEW q \in Requests \ raced
        PROVE  Current(q)'
    <3>1. pc'[q] \in {"blocks", "appointments", "write"} => pc'[q] = pc[q]
      BY <1>5 DEF RemoveBlock, Goto, TypeOK
    <3>2. Hours(blocks') \subseteq Hours(blocks)
      BY <2>1 DEF Hours
    <3> QED
      BY <2>1, <2>2, <3>1, <3>2, FreeStays DEF SlotInv, Current
  <2>3. SlotIsFree'
    BY <1>5, <2>1, FreeStays DEF RemoveBlock, SlotInv, SlotIsFree
  <2> QED
    BY <1>5, <2>2, <2>3 DEF RemoveBlock, SlotInv
<1>6. CASE ReadRules(r)
  <2>1. arg[r] \in LookArg
    BY <1>6 DEF ReadRules, TypeOK, Looking
  <2>2. arg'[r].rules = Hours(rules) /\ pc'[r] = "blocks"
    BY <1>6, <2>1 DEF ReadRules, Goto, TypeOK, LookArg
  <2>3. Current(r)'
    BY <1>6, <2>2 DEF ReadRules, Current
  <2> QED
    BY <1>6, <2>3, SlotFrame DEF ReadRules, TypeOK, PC
<1>7. CASE ReadBlocks(r)
  <2>1. arg[r] \in LookArg
    BY <1>7 DEF ReadBlocks, TypeOK, Looking
  <2>2. /\ arg'[r].blocks = Hours(blocks) /\ arg'[r].rules = arg[r].rules 
        /\ pc'[r] = "appointments"
    BY <1>7, <2>1 DEF ReadBlocks, Goto, TypeOK, LookArg
  <2>3. r \notin raced => Current(r)'
    BY <1>7, <2>2 DEF ReadBlocks, Current, SlotInv
  <2> QED
    BY <1>7, <2>3, SlotFrame DEF ReadBlocks, TypeOK, PC
<1>8. CASE ReadAppointments(r)
  <2>1. arg[r] \in LookArg
    BY <1>8 DEF ReadAppointments, TypeOK, Looking
  <2>2. ASSUME r \notin raced PROVE Current(r)'
    <3>1. arg[r].rules = Hours(rules) /\ Hours(blocks) \subseteq arg[r].blocks
      BY <1>8, <2>2 DEF ReadAppointments, SlotInv, Current
    <3>2. CASE Offered(arg[r])
      <4>1. LET s == Label(arg[r].start) IN Free(s, s + arg[r].asked)
        BY <2>1, <3>1, <3>2, OfferedIsFree
      <4>2. pc'[r] = "write"
        BY <1>8, <3>2 DEF ReadAppointments, Goto, TypeOK
      <4> QED
        BY <1>8, <4>1, <4>2 DEF ReadAppointments, Current, Free
    <3>3. CASE ~Offered(arg[r])
      BY <1>8, <3>3 DEF ReadAppointments, Goto, TypeOK, Current
    <3> QED BY <3>2, <3>3
  <2>3. PICK l \in {"write", "done"} : Goto(r, l)
    BY <1>8 DEF ReadAppointments
  <2> QED
    BY <1>8, <2>2, <2>3, SlotFrame DEF ReadAppointments, PC
<1>9. CASE WriteAppointment(r)
  <2> DEFINE x == arg[r]
  <2>1. x \in LookArg
    BY <1>9 DEF WriteAppointment, TypeOK, Looking
  <2>2. /\ x.id \in Requests
        /\ appt'[x.id].start = x.start /\ appt'[x.id].asked = x.asked
        /\ \A a \in Requests \ {x.id} : appt'[a] = appt[a]
    BY <1>9, <2>1 DEF WriteAppointment, LookArg, TypeOK
  <2>3. /\ rules' = rules /\ blocks' = blocks /\ raced' = raced /\ arg' = arg
        /\ due' = IF r \in raced THEN due \ {x.id} ELSE due \cup {x.id}
    BY <1>9 DEF WriteAppointment
  <2>4. r \notin raced => LET s == Label(x.start) IN Free(s, s + x.asked)
    BY <1>9 DEF WriteAppointment, SlotInv, Current
  <2> HIDE DEF x
  <2>5. SlotIsFree'
    <3> SUFFICES ASSUME NEW a \in due'
                 PROVE  LET s == Label(appt'[a].start) IN Free(s, s + appt'[a].asked)
      BY <2>3 DEF SlotIsFree, Free
    <3>1. CASE a = x.id
      BY <2>2, <2>3, <2>4, <3>1
    <3>2. CASE a # x.id
      <4>1. a \in due /\ appt'[a] = appt[a]
        BY <2>2, <2>3, <3>2 DEF TypeOK
      <4> QED BY <4>1 DEF SlotInv, SlotIsFree
    <3> QED BY <3>1, <3>2
  <2>6. ASSUME NEW q \in Requests \ raced PROVE Current(q)'
    <3>1. pc'[q] \in {"blocks", "appointments", "write"} => pc'[q] = pc[q]
      BY <1>9 DEF WriteAppointment, Goto, TypeOK
    <3> QED
      BY <2>3, <2>6, <3>1 DEF SlotInv, Current, Free
  <2> QED
    BY <2>3, <2>5, <2>6 DEF SlotInv
<1>10. CASE RejectAppointment(r)
  <2>1. Current(r)'
    BY <1>10 DEF RejectAppointment, Goto, TypeOK, Current
  <2> QED
    BY <1>10, <2>1, SlotFrame DEF RejectAppointment, PC
<1>11. CASE Rollback(r)
  <2>1. Current(r)'
    BY <1>11 DEF Rollback, Goto, TypeOK, Current
  <2> QED
    BY <1>11, <2>1, SlotFrame DEF Rollback, PC
<1> QED
  BY <1>1, <1>2, <1>3, <1>4, <1>5, <1>6, <1>7, <1>8, <1>9, <1>10, <1>11 DEF Serve

\* A slot that was booked without anything changing meanwhile lies in the working
\* hours and outside the blocked times for as long as these stay
\* (getAvailableSlots, create and reschedule).
THEOREM BookedSlotIsFree == Spec => []SlotIsFree
<1>1. Init => SlotInv
  BY DEF Init, SlotInv, SlotIsFree, Current
<1>2. TypeOK /\ SlotInv /\ [Next]_vars => SlotInv'
  <2> SUFFICES ASSUME TypeOK, SlotInv, [Next]_vars PROVE SlotInv'
    OBVIOUS
  <2>1. CASE UNCHANGED vars
    BY <2>1 DEF vars, SlotInv, SlotIsFree, Current, Free
  <2> QED
    BY <2>1, BeginSlot, ServeSlot DEF Next, AllServed
<1>3. SlotInv => SlotIsFree
  BY DEF SlotInv
<1> QED
  BY <1>1, <1>2, <1>3, TypeCorrect, PTL DEF Spec

----------------------------------------------------------------------------
(* Replacements that wait for each other *)

\* r waits for rows or keys of q: the guards of DeleteMany and CreateMany are that it
\* waits for nobody.
WaitsFor(r, q) ==
    /\ q # r
    /\ \/ pc[r] = "delete" /\ LockedBy(q) \cap arg[r].seen # {}
       \/ pc[r] = "insert" /\ Pending(q) \cap arg[r].new # {}

\* Who is waited for is in its transaction, and who is waited for by one that is waited for
\* does not wait: nobody waits in a circle.  CreateMany is a statement as a whole here; that
\* two of them cross row by row is among the failures Rollback stands for.
WaitsEnd ==
    /\ \A r, q \in Requests : WaitsFor(r, q) => pc[q] \in {"insert", "commit"}
    /\ \A a, b, c, d \in Requests : ~(WaitsFor(a, b) /\ WaitsFor(b, c) /\ WaitsFor(c, d))

\* What is locked is still in the table.
LockedStand == \A q \in Requests : LockedBy(q) \subseteq rules

\* Only one transaction at a time holds rows it has deleted.
OneDeletes == \A p, q \in Requests : p # q => LockedBy(p) = {} \/ LockedBy(q) = {}

\* A DELETE that is about to run meets what others have deleted, or finds nothing.
MeetsOrMisses == \A p, q \in Requests : pc[p] = "delete" =>
    LockedBy(q) = {} \/ LockedBy(q) \cap arg[p].seen # {} \/ arg[p].seen \cap rules = {}

\* Rows do not come back, so of what two snapshots saw, the older one has not more left.
Ordered == \A p, q \in Requests : pc[p] = "delete" /\ pc[q] = "delete" =>
    \/ arg[p].seen \cap rules \subseteq arg[q].seen 
    \/ arg[q].seen \cap rules \subseteq arg[p].seen

LocksInv == LockedStand /\ OneDeletes /\ MeetsOrMisses /\ Ordered

\* A step after which nobody has seen more, or holds more, than before.
LEMMA LocksKept ==
    ASSUME LocksInv,
           \A q \in Requests : LockedBy(q)' \in {{}, LockedBy(q)} /\ LockedBy(q)' \subseteq rules',
           \A p \in Requests : pc'[p] = "delete" => 
              /\ pc[p] = "delete" /\ arg'[p].seen = arg[p].seen
              /\ arg[p].seen \cap rules' \subseteq rules
    PROVE  LocksInv'
<1>1. LockedStand'
  BY DEF LockedStand
<1>2. OneDeletes'
  <2> SUFFICES ASSUME NEW p \in Requests, NEW q \in Requests, p # q
               PROVE  LockedBy(p)' = {} \/ LockedBy(q)' = {}
    BY DEF OneDeletes
  <2>1. LockedBy(p) = {} \/ LockedBy(q) = {}
    BY DEF LocksInv, OneDeletes
  <2> QED
    BY <2>1
<1>3. MeetsOrMisses'
  <2> SUFFICES ASSUME NEW p \in Requests, NEW q \in Requests, pc'[p] = "delete"
               PROVE  \/ LockedBy(q)' = {} 
                      \/ LockedBy(q)' \cap arg'[p].seen # {} 
                      \/ arg'[p].seen \cap rules' = {}
    BY DEF MeetsOrMisses
  <2>1. \/ LockedBy(q) = {} 
        \/ LockedBy(q) \cap arg[p].seen # {} 
        \/ arg[p].seen \cap rules = {}
    BY DEF LocksInv, MeetsOrMisses
  <2>2. LockedBy(q)' = {} \/ LockedBy(q)' = LockedBy(q)
    OBVIOUS
  <2> QED
    BY <2>1, <2>2
<1>4. Ordered'
  BY DEF LocksInv, Ordered
<1> QED
  BY <1>1, <1>2, <1>3, <1>4 DEF LocksInv

\* A step of r that leaves the rules: r keeps what it holds, or lets it go.
LEMMA LocksOther ==
    ASSUME TypeOK, LocksInv, NEW r \in Requests, NEW l \in PC, Goto(r, l), rules' = rules,
           \A q \in Requests \ {r} : arg'[q] = arg[q],
           l # "delete",
           l \in {"insert", "commit"} => pc[r] \in {"insert", "commit"} /\ arg'[r] = arg[r]
    PROVE  LocksInv'
<1>1. pc'[r] = l /\ \A q \in Requests \ {r} : pc'[q] = pc[q]
  BY DEF Goto, TypeOK
<1>2. \A q \in Requests \ {r} : LockedBy(q)' = LockedBy(q)
  BY <1>1 DEF LockedBy
<1>3. LockedBy(r)' \in {{}, LockedBy(r)}
  BY <1>1 DEF LockedBy
<1>4. \A q \in Requests : LockedBy(q)' \in {{}, LockedBy(q)}
  BY <1>2, <1>3
<1>5. \A q \in Requests : LockedBy(q)' \subseteq rules'
  BY <1>4 DEF LocksInv, LockedStand
<1>6. \A p \in Requests : pc'[p] = "delete" => pc[p] = "delete" /\ arg'[p].seen = arg[p].seen
  BY <1>1
<1> QED
  BY <1>4, <1>5, <1>6, LocksKept

LEMMA BeginLocks ==
    ASSUME TypeOK, LocksInv, NEW r \in Requests, Begin(r)
    PROVE  LocksInv'
<1>1. CASE BeginReplace(r)
  <2>1. /\ pc'[r] = "delete" /\ arg'[r].seen = rules /\ rules' = rules
        /\ \A q \in Requests \ {r} : pc'[q] = pc[q] /\ arg'[q] = arg[q]
    BY <1>1 DEF BeginReplace, Goto, TypeOK
  <2>2. pc[r] = "idle" /\ LockedBy(r) = {} /\ LockedBy(r)' = {}
    BY <1>1, <2>1 DEF BeginReplace, LockedBy
  <2>3. \A q \in Requests : LockedBy(q)' = LockedBy(q)
    BY <2>1, <2>2 DEF LockedBy
  <2>4. LockedStand' /\ OneDeletes'
    BY <2>1, <2>3 DEF LocksInv, LockedStand, OneDeletes
  <2>5. MeetsOrMisses'
    <3> SUFFICES ASSUME NEW p \in Requests, NEW q \in Requests, pc'[p] = "delete"
                 PROVE  \/ LockedBy(q) = {} 
                        \/ LockedBy(q) \cap arg'[p].seen # {} 
                        \/ arg'[p].seen \cap rules = {}
      BY <2>1, <2>3 DEF MeetsOrMisses
    <3>1. LockedBy(q) \subseteq rules
      BY DEF LocksInv, LockedStand
    <3>2. CASE p = r
      BY <2>1, <3>1, <3>2
    <3>3. CASE p # r
      BY <2>1, <3>3 DEF LocksInv, MeetsOrMisses
    <3> QED
      BY <3>2, <3>3
  <2>6. Ordered'
    <3> SUFFICES ASSUME NEW p \in Requests, NEW q \in Requests,
                        pc'[p] = "delete", pc'[q] = "delete"
                 PROVE  \/ arg'[p].seen \cap rules \subseteq arg'[q].seen 
                        \/ arg'[q].seen \cap rules \subseteq arg'[p].seen
      BY <2>1 DEF Ordered
    <3>1. CASE p = r \/ q = r
      BY <2>1, <3>1
    <3>2. CASE p # r /\ q # r
      BY <2>1, <3>2 DEF LocksInv, Ordered
    <3> QED
      BY <3>1, <3>2
  <2> QED
    BY <2>4, <2>5, <2>6 DEF LocksInv
<1>2. CASE BeginBlock(r)
  BY <1>2, LocksOther DEF BeginBlock, TypeOK, PC
<1>3. CASE BeginRemove(r)
  BY <1>3, LocksOther DEF BeginRemove, TypeOK, PC
<1>4. CASE SetDuration(r)
  BY <1>4, LocksOther DEF SetDuration, TypeOK, PC
<1>5. CASE BeginBook(r)
  BY <1>5, LocksOther DEF BeginBook, TypeOK, PC
<1>6. CASE BeginReschedule(r)
  BY <1>6, LocksOther DEF BeginReschedule, TypeOK, PC
<1> QED
  BY <1>1, <1>2, <1>3, <1>4, <1>5, <1>6 DEF Begin

\* The rows r deletes are those its snapshot has left; whoever holds others makes it wait.
LEMMA DeleteLocks ==
    ASSUME TypeOK, LocksInv, NEW r \in Requests, DeleteMany(r)
    PROVE  LocksInv'
<1> DEFINE left == arg[r].seen \cap rules
<1>1. arg[r] \in ReplaceArg
  BY DEF DeleteMany, TypeOK, Replacing
<1>2. /\ pc[r] = "delete" /\ pc'[r] = "insert" /\ arg'[r].gone = left /\ rules' = rules
      /\ \A q \in Requests \ {r} : pc'[q] = pc[q] /\ arg'[q] = arg[q]
      /\ \A q \in Requests \ {r} : LockedBy(q) \cap arg[r].seen = {}
  BY <1>1 DEF DeleteMany, Goto, TypeOK, ReplaceArg
<1>3. /\ LockedBy(r)' = left
      /\ \A q \in Requests \ {r} : LockedBy(q)' = LockedBy(q)
  BY <1>2 DEF LockedBy
<1>4. LockedStand'
  BY <1>2, <1>3 DEF LocksInv, LockedStand
<1>5. ASSUME NEW q \in Requests \ {r} PROVE LockedBy(q) = {} \/ left = {}
  BY <1>2 DEF LocksInv, MeetsOrMisses
<1>6. OneDeletes'
  <2> SUFFICES ASSUME NEW p \in Requests, NEW q \in Requests, p # q
               PROVE  LockedBy(p)' = {} \/ LockedBy(q)' = {}
    BY DEF OneDeletes
  <2>1. CASE p = r
    BY <1>3, <1>5, <2>1
  <2>2. CASE q = r
    BY <1>3, <1>5, <2>2
  <2>3. CASE p # r /\ q # r
    BY <1>3, <2>3 DEF LocksInv, OneDeletes
  <2> QED
    BY <2>1, <2>2, <2>3
<1>7. MeetsOrMisses'
  <2> SUFFICES ASSUME NEW p \in Requests \ {r}, NEW q \in Requests, pc[p] = "delete"
               PROVE  \/ LockedBy(q)' = {} 
                      \/ LockedBy(q)' \cap arg[p].seen # {} 
                      \/ arg[p].seen \cap rules = {}
    BY <1>2 DEF MeetsOrMisses
  <2>1. CASE q = r
    <3>1. \/ arg[p].seen \cap rules \subseteq arg[r].seen 
          \/ arg[r].seen \cap rules \subseteq arg[p].seen
      BY <1>2 DEF LocksInv, Ordered
    <3> QED
      BY <1>3, <2>1, <3>1
  <2>2. CASE q # r
    BY <1>3, <2>2 DEF LocksInv, MeetsOrMisses
  <2> QED
    BY <2>1, <2>2
<1>8. Ordered'
  BY <1>2 DEF LocksInv, Ordered
<1> QED
  BY <1>4, <1>6, <1>7, <1>8 DEF LocksInv

\* The rows a replacement brings are in no snapshot, and those it takes nobody else holds.
LEMMA CommitLocks ==
    ASSUME TypeOK, Hist, LocksInv, NEW r \in Requests, CommitReplace(r)
    PROVE  LocksInv'
<1>1. /\ pc[r] = "commit" /\ pc'[r] = "done" /\ arg' = arg
      /\ rules' = (rules \ arg[r].gone) \cup RowsOf(r, arg[r].new)
      /\ \A q \in Requests \ {r} : pc'[q] = pc[q]
  BY DEF CommitReplace, Goto, TypeOK
<1>2. /\ LockedBy(r) = arg[r].gone /\ LockedBy(r)' = {}
      /\ \A q \in Requests \ {r} : LockedBy(q)' = LockedBy(q)
  BY <1>1 DEF LockedBy
<1>3. \A q \in Requests : LockedBy(q)' \in {{}, LockedBy(q)}
  BY <1>2
<1>4. ASSUME NEW q \in Requests PROVE LockedBy(q)' \subseteq rules'
  <2>1. CASE q = r
    BY <1>2, <2>1
  <2>2. CASE q # r
    <3>1. LockedBy(q) = {} \/ arg[r].gone = {}
      BY <1>2, <2>2 DEF LocksInv, OneDeletes
    <3>2. LockedBy(q) \subseteq rules
      BY DEF LocksInv, LockedStand
    <3> QED
      BY <1>1, <1>2, <2>2, <3>1, <3>2
  <2> QED
    BY <2>1, <2>2
<1>5. ASSUME NEW p \in Requests, pc'[p] = "delete"
      PROVE  pc[p] = "delete" /\ arg[p].seen \cap rules' \subseteq rules
  <2>1. pc[p] = "delete"
    BY <1>1, <1>5
  <2>2. \A x \in arg[p].seen : x.by \in Requests => pc[x.by] = "done"
    BY <2>1 DEF Hist, SeenWritten, Saw, Replacing
  <2>3. \A x \in RowsOf(r, arg[r].new) : x.by = r
    BY DEF RowsOf
  <2> QED
    BY <1>1, <2>1, <2>2, <2>3
<1> QED
  BY <1>1, <1>3, <1>4, <1>5, LocksKept

LEMMA ServeLocks ==
    ASSUME TypeOK, Hist, LocksInv, NEW r \in Requests, Serve(r) \/ Rollback(r)
    PROVE  LocksInv'
<1>1. CASE CreateMany(r)
  <2>1. PICK l \in {"commit", "done"} : Goto(r, l)
    BY <1>1 DEF CreateMany
  <2> QED
    BY <1>1, <2>1, LocksOther DEF CreateMany, PC
<1>2. CASE CreateBlock(r)
  BY <1>2, LocksOther DEF CreateBlock, PC
<1>3. CASE RemoveBlock(r)
  BY <1>3, LocksOther DEF RemoveBlock, PC
<1>4. CASE ReadRules(r)
  BY <1>4, LocksOther DEF ReadRules, TypeOK, PC
<1>5. CASE ReadBlocks(r)
  BY <1>5, LocksOther DEF ReadBlocks, TypeOK, PC
<1>6. CASE ReadAppointments(r)
  BY <1>6, LocksOther DEF ReadAppointments, PC
<1>7. CASE WriteAppointment(r)
  BY <1>7, LocksOther DEF WriteAppointment, PC
<1>8. CASE RejectAppointment(r)
  BY <1>8, LocksOther DEF RejectAppointment, PC
<1>9. CASE Rollback(r)
  BY <1>9, LocksOther DEF Rollback, PC
<1> QED
  BY <1>1, <1>2, <1>3, <1>4, <1>5, <1>6, <1>7, <1>8, <1>9, DeleteLocks, CommitLocks DEF Serve

\* One transaction holds deleted rows, and one that is past its INSERT waits for nothing.
LEMMA WaitsAreShort ==
    ASSUME LocksInv
    PROVE  WaitsEnd
<1>1. ASSUME NEW r \in Requests, NEW q \in Requests, WaitsFor(r, q)
      PROVE  /\ pc[r] \in {"delete", "insert"} /\ pc[q] \in {"insert", "commit"} /\ q # r
             /\ pc[q] = "insert" => LockedBy(q) # {}
  <2>1. CASE pc[r] = "delete"
    BY <1>1, <2>1 DEF WaitsFor, LockedBy
  <2>2. CASE pc[r] = "insert"
    <3>1. Pending(q) # {}
      BY <1>1, <2>2 DEF WaitsFor
    <3>2. LockedBy(q) # {} \/ pc[q] = "commit"
      BY <3>1 DEF Pending, Hours
    <3> QED
      BY <1>1, <2>2, <3>2 DEF WaitsFor, LockedBy
  <2> QED
    BY <1>1, <2>1, <2>2 DEF WaitsFor
<1>2. ASSUME NEW a \in Requests, NEW b \in Requests, NEW c \in Requests, NEW d \in Requests,
             WaitsFor(a, b), WaitsFor(b, c), WaitsFor(c, d)
      PROVE  FALSE
  <2>1. pc[b] = "insert" /\ LockedBy(b) # {} /\ pc[c] = "insert" /\ LockedBy(c) # {} /\ b # c
    BY <1>1, <1>2
  <2> QED
    BY <2>1 DEF LocksInv, OneDeletes
<1> QED
  BY <1>1, <1>2 DEF WaitsEnd

\* Replacements of the hours, statement by statement, never wait for each other in a circle,
\* which is why those that start also end (setAvailability: what one DELETE saw and left, no
\* other can hold).
THEOREM NobodyWaitsInACircle == Spec => []WaitsEnd
<1>1. Init => LocksInv
  BY DEF Init, LocksInv, LockedStand, OneDeletes, MeetsOrMisses, Ordered, LockedBy
<1>2. IInv /\ LocksInv /\ [Next]_vars => LocksInv'
  <2> SUFFICES ASSUME IInv, LocksInv, [Next]_vars PROVE LocksInv'
    OBVIOUS
  <2>1. CASE UNCHANGED vars
    BY <2>1 DEF vars, LocksInv, LockedStand, OneDeletes, MeetsOrMisses, Ordered, LockedBy
  <2> QED
    BY <2>1, BeginLocks, ServeLocks DEF Next, AllServed, IInv
<1>3. LocksInv => WaitsEnd
  BY WaitsAreShort
<1> QED
  BY <1>1, <1>2, <1>3, Inductive, PTL DEF Spec
=============================================================================
