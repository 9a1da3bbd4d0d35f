------------------------ MODULE FeeReminders_proofs -------------------------
(***************************************************************************)
(* For any number of processes, students, months and faults: a guardian    *)
(* gets at most one reminder a month, and the recorded status is true.     *)
(*                                                                         *)
(* The argument is ownership.  A process between claim and outcome owns    *)
(* its row: the row is at sending, where no other UPDATE matches it.       *)
(***************************************************************************)
EXTENDS FeeReminders, TLAPS

Honest == NoDuplicateSMS /\ StatusIsHonest

IInv == TypeOK /\ OneSender /\ ClaimOwnsRow /\ Honest
----------------------------------------------------------------------------
LEMMA InitHolds == Init => IInv
<1> SUFFICES ASSUME Init PROVE IInv  OBVIOUS
<1>1. 1 \in Month /\ 1 \in 1 .. LastMonth + 1
  BY RemindersAssumption DEF RemindersAssumption, Month
<1>2. TypeOK
  <2>1. Idle \in Cycle
    BY <1>1 DEF Idle, Cycle
  <2>2. 0 \in 0 .. MaxFaults
    BY RemindersAssumption DEF RemindersAssumption
  <2>. QED  BY <1>1, <2>1, <2>2 DEF Init, TypeOK, Status, Phase
<1>3. OneSender /\ ClaimOwnsRow
  BY DEF Init, OneSender, ClaimOwnsRow, Claimed
<1>4. Honest
  BY DEF Init, Honest, NoDuplicateSMS, StatusIsHonest
<1>. QED  BY <1>2, <1>3, <1>4 DEF IInv

\* Who is not between claim and outcome owns no row.
Outside == Phase \ Claimed

\* What a process in such a phase needs to know about its cycle.
Named(phase, c) == phase \in {"dropping", "claiming"} => c.current # Nobody

LEMMA CycleFields ==
    ASSUME IInv, NEW q \in Process
    PROVE  /\ cycle[q].month \in Month /\ cycle[q].todo \subseteq Student
           /\ pc[q] \in Claimed \cup {"dropping", "claiming"} => cycle[q].current \in Student
<1>1. cycle[q] \in Cycle
  BY DEF IInv, TypeOK
<1>. QED  BY <1>1 DEF IInv, ClaimOwnsRow, Cycle

\* What a process keeps doing, and one process that goes to such a phase.
LEMMA GoOutside ==
    ASSUME IInv, NEW p \in Process, NEW phase \in Outside, NEW c, Go(p, phase, c)
    PROVE  /\ pc'[p] = phase /\ cycle'[p] = c /\ phase \notin Claimed
           /\ \A q \in Process \ {p} : pc'[q] = pc[q] /\ cycle'[q] = cycle[q]
           /\ OneSender'
<1>1. pc'[p] = phase /\ cycle'[p] = c /\ phase \notin Claimed
  BY DEF Go, IInv, TypeOK, Outside
<1>2. \A q \in Process \ {p} : pc'[q] = pc[q] /\ cycle'[q] = cycle[q]
  BY DEF Go, IInv, TypeOK
<1>3. OneSender'
  BY <1>1, <1>2 DEF IInv, OneSender
<1>. QED  BY <1>1, <1>2, <1>3

\* A step that changes neither rows nor messages and leads to no claim.
LEMMA QuietStep ==
    ASSUME IInv, TypeOK', NEW p \in Process, NEW phase \in Outside, NEW c,
           Go(p, phase, c), Named(phase, c), UNCHANGED <<reminder, texted>>
    PROVE  IInv'
<1>1. ClaimOwnsRow'
  BY GoOutside DEF IInv, ClaimOwnsRow, Named, Claimed
<1>2. Honest'
  BY DEF IInv, Honest, NoDuplicateSMS, StatusIsHonest
<1>. QED  BY <1>1, <1>2, GoOutside DEF IInv

\* A step that gives one row a status and leads to no claim, made by the owner
\* of the row if it has one.
LEMMA RowStep ==
    ASSUME IInv, TypeOK', NEW p \in Process, NEW phase \in Outside, NEW c,
           Go(p, phase, c), Named(phase, c), texted' = texted,
           NEW s \in Student, NEW m \in Month, NEW to \in Status,
           reminder' = [reminder EXCEPT ![s][m] = to],
           reminder[s][m] = "sending"
               => pc[p] \in Claimed /\ cycle[p].current = s /\ cycle[p].month = m,
           to \in {"none", "pending", "failed"} => texted[s][m] = 0,
           to = "sent" => texted[s][m] = 1
    PROVE  IInv'
<1>1. \A t \in Student, n \in Month :
        reminder'[t][n] = IF t = s /\ n = m THEN to ELSE reminder[t][n]
  BY DEF IInv, TypeOK
<1>2. ASSUME NEW q \in Process, q # p, pc[q] \in Claimed
      PROVE  reminder'[cycle[q].current][cycle[q].month] = reminder[cycle[q].current][cycle[q].month]
  <2>1. reminder[cycle[q].current][cycle[q].month] = "sending"
    BY <1>2 DEF IInv, ClaimOwnsRow
  <2>2. ~(cycle[q].current = s /\ cycle[q].month = m)
    BY <1>2, <2>1 DEF IInv, OneSender
  <2>3. cycle[q].current \in Student /\ cycle[q].month \in Month
    BY <1>2, CycleFields
  <2>. QED  BY <1>1, <2>2, <2>3
<1>3. ClaimOwnsRow'
  BY <1>2, GoOutside DEF IInv, ClaimOwnsRow, Named, Claimed
<1>4. Honest'
  BY <1>1 DEF IInv, Honest, NoDuplicateSMS, StatusIsHonest
<1>. QED  BY <1>3, <1>4, GoOutside DEF IInv

\* An UPDATE of the current row, made by its owner if it is at sending.
LEMMA UpdateStep ==
    ASSUME IInv, TypeOK', NEW p \in Process, Done(p), texted' = texted,
           pc[p] \in Claimed \cup {"dropping"},
           NEW from \in Status, NEW to \in Status, Update(p, from, to),
           from = "sending" => pc[p] \in Claimed,
           LET n == texted[cycle[p].current][cycle[p].month]
           IN  reminder[cycle[p].current][cycle[p].month] = from =>
                 /\ to \in {"none", "pending", "failed"} => n = 0
                 /\ to = "sent" => n = 1
    PROVE  IInv'
<1> DEFINE s == cycle[p].current
           m == cycle[p].month
           c == [cycle[p] EXCEPT !.current = Nobody]
<1>1. s \in Student /\ m \in Month
  BY CycleFields
<1>2. "delivering" \in Outside /\ Go(p, "delivering", c) /\ Named("delivering", c)
  BY DEF Done, Outside, Phase, Claimed, Named
<1>3. CASE reminder[s][m] = from
  <2>1. reminder' = [reminder EXCEPT ![s][m] = to]
    BY <1>3 DEF Update
  <2>. HIDE DEF c
  <2>. QED  BY <1>1, <1>2, <1>3, <2>1, RowStep
<1>4. CASE reminder[s][m] # from
  <2>1. reminder' = reminder
    BY <1>1, <1>4 DEF Update, IInv, TypeOK
  <2>. HIDE DEF c
  <2>. QED  BY <1>2, <2>1, QuietStep
<1>. QED  BY <1>3, <1>4
----------------------------------------------------------------------------
(* Types *)

LEMMA GoType ==
    ASSUME TypeOK, NEW p \in Process, NEW phase \in Phase, NEW c \in Cycle, Go(p, phase, c)
    PROVE  pc' \in [Process -> Phase] /\ cycle' \in [Process -> Cycle]
BY DEF Go, TypeOK

LEMMA Cycles ==
    ASSUME TypeOK, NEW p \in Process
    PROVE  /\ Idle \in Cycle /\ cycle[p] \in Cycle
           /\ [cycle[p] EXCEPT !.current = Nobody] \in Cycle
           /\ \A s \in Student : /\ [cycle[p] EXCEPT !.todo = @ \ {s}] \in Cycle
                                 /\ [cycle[p] EXCEPT !.todo = @ \ {s}, !.current = s] \in Cycle
           /\ \A S \in SUBSET Student : [cycle[p] EXCEPT !.todo = S] \in Cycle
<1>1. cycle[p] \in Cycle
  BY DEF TypeOK
<1>2. 1 \in Month
  BY RemindersAssumption DEF Month, RemindersAssumption
<1>. QED  BY <1>1, <1>2 DEF Cycle, Idle

LEMMA RowType ==
    ASSUME TypeOK, NEW s, NEW m, NEW to \in Status
    PROVE  [reminder EXCEPT ![s][m] = to] \in [Student -> [Month -> Status]]
BY DEF TypeOK

LEMMA UpdateType ==
    ASSUME TypeOK, NEW p \in Process, NEW from, NEW to \in Status, Update(p, from, to)
    PROVE  reminder' \in [Student -> [Month -> Status]]
BY DEF TypeOK, Update

LEMMA SentType ==
    ASSUME TypeOK, NEW s \in Student, NEW m \in Month, NEW reached \in {0, 1}
    PROVE  [texted EXCEPT ![s][m] = @ + reached] \in [Student -> [Month -> Nat]]
BY DEF TypeOK

\* A process that goes to another phase, when the rest is of its type.
LEMMA StepType ==
    ASSUME TypeOK, NEW p \in Process, NEW phase \in Phase, NEW c \in Cycle, Go(p, phase, c),
           UNCHANGED world, faults' \in 0 .. MaxFaults,
           reminder' \in [Student -> [Month -> Status]], texted' \in [Student -> [Month -> Nat]]
    PROVE  TypeOK'
BY GoType DEF TypeOK, world
----------------------------------------------------------------------------
(* The actions *)

LEMMA BeginHolds ==
    ASSUME IInv, NEW p \in Process, Begin(p)
    PROVE  IInv'
<1> DEFINE c == [month |-> month, todo |-> owing, current |-> Nobody]
<1>1. c \in Cycle /\ "preparing" \in Phase
  BY DEF Begin, IInv, TypeOK, Cycle, Phase
<1>2. Go(p, "preparing", c) /\ UNCHANGED <<reminder, texted, world, faults>>
  BY DEF Begin, phone
<1>3. "preparing" \in Outside /\ Named("preparing", c)
  BY DEF Outside, Phase, Claimed, Named
<1>. HIDE DEF c
<1>4. TypeOK'
  BY <1>1, <1>2, StepType DEF IInv, TypeOK
<1>. QED  BY <1>2, <1>3, <1>4, QuietStep

LEMMA PrepareHolds ==
    ASSUME IInv, NEW p \in Process, NEW s \in Student, Prepare(p, s)
    PROVE  IInv'
<1> DEFINE c == [cycle[p] EXCEPT !.todo = @ \ {s}]
           m == cycle[p].month
<1>1. c \in Cycle /\ "preparing" \in Phase /\ m \in Month
  BY Cycles, CycleFields DEF IInv, Phase
<1>2. Go(p, "preparing", c) /\ UNCHANGED <<texted, world, faults>>
  BY DEF Prepare, phone
<1>3. "preparing" \in Outside /\ Named("preparing", c)
  BY DEF Outside, Phase, Claimed, Named
<1>. HIDE DEF c
<1>4. CASE reminder[s][m] = "none"
  <2>1. reminder' = [reminder EXCEPT ![s][m] = "pending"] /\ "pending" \in Status
    BY <1>4 DEF Prepare, Status
  <2>2. texted[s][m] = 0
    BY <1>1, <1>4 DEF IInv, Honest, StatusIsHonest
  <2>3. TypeOK'
    BY <1>1, <1>2, <2>1, RowType, StepType DEF IInv, TypeOK
  <2>. QED  BY <1>1, <1>2, <1>3, <1>4, <2>1, <2>2, <2>3, RowStep
<1>5. CASE reminder[s][m] # "none"
  <2>1. reminder' = reminder
    BY <1>1, <1>5 DEF Prepare, IInv, TypeOK
  <2>2. TypeOK'
    BY <1>1, <1>2, <2>1, StepType DEF IInv, TypeOK
  <2>. QED  BY <1>2, <1>3, <2>1, <2>2, QuietStep
<1>. QED  BY <1>4, <1>5

LEMMA ListPendingHolds ==
    ASSUME IInv, NEW p \in Process, ListPending(p)
    PROVE  IInv'
<1> DEFINE S == {s \in Student : reminder[s][cycle[p].month] = "pending"}
           c == [cycle[p] EXCEPT !.todo = S]
<1>1. c \in Cycle /\ "delivering" \in Phase
  BY Cycles DEF IInv, Phase
<1>2. Go(p, "delivering", c) /\ UNCHANGED <<reminder, texted, world, faults>>
  BY DEF ListPending, phone
<1>3. "delivering" \in Outside /\ Named("delivering", c)
  BY DEF Outside, Phase, Claimed, Named
<1>. HIDE DEF c
<1>4. TypeOK'
  BY <1>1, <1>2, StepType DEF IInv, TypeOK
<1>. QED  BY <1>2, <1>3, <1>4, QuietStep

LEMMA RefreshHolds ==
    ASSUME IInv, NEW p \in Process, NEW s \in Student, Refresh(p, s)
    PROVE  IInv'
<1> DEFINE c == [cycle[p] EXCEPT !.todo = @ \ {s}, !.current = s]
           phase == IF s \in owing THEN "claiming" ELSE "dropping"
<1>1. c \in Cycle /\ phase \in Phase
  BY Cycles DEF IInv, Phase
<1>2. Go(p, phase, c) /\ UNCHANGED <<reminder, texted, world, faults>>
  BY DEF Refresh, phone
<1>3. phase \in Outside
  BY DEF Outside, Phase, Claimed
<1>4. Named(phase, c)
  <2>1. c.current = s
    BY CycleFields, Cycles DEF IInv, TypeOK, Cycle
  <2>. QED  BY <2>1, RemindersAssumption DEF Named, RemindersAssumption
<1>. HIDE DEF c, phase
<1>5. TypeOK'
  BY <1>1, <1>2, StepType DEF IInv, TypeOK
<1>. QED  BY <1>2, <1>3, <1>4, <1>5, QuietStep

\* A process that is done with a row goes on delivering.
LEMMA DoneType ==
    ASSUME IInv, NEW p \in Process, Done(p), UNCHANGED <<phone, faults>>,
           reminder' \in [Student -> [Month -> Status]]
    PROVE  TypeOK'
<1>1. [cycle[p] EXCEPT !.current = Nobody] \in Cycle /\ "delivering" \in Phase
  BY Cycles DEF IInv, Phase
<1>. QED  BY <1>1, StepType DEF Done, phone, IInv, TypeOK

LEMMA DropHolds ==
    ASSUME IInv, NEW p \in Process, Drop(p)
    PROVE  IInv'
<1>1. "pending" \in Status /\ "failed" \in Status
  BY DEF Status
<1>2. TypeOK'
  BY <1>1, UpdateType, DoneType DEF Drop, IInv
<1>3. cycle[p].current \in Student /\ cycle[p].month \in Month
  BY CycleFields DEF Drop
<1>4. reminder[cycle[p].current][cycle[p].month] = "pending"
        => texted[cycle[p].current][cycle[p].month] = 0
  BY <1>3 DEF IInv, Honest, StatusIsHonest
<1>. QED  BY <1>1, <1>2, <1>4, UpdateStep DEF Drop, phone

LEMMA RecordSentHolds ==
    ASSUME IInv, NEW p \in Process, RecordSent(p)
    PROVE  IInv'
<1>1. "sending" \in Status /\ "sent" \in Status
  BY DEF Status
<1>2. TypeOK'
  BY <1>1, UpdateType, DoneType DEF RecordSent, IInv
<1>3. texted[cycle[p].current][cycle[p].month] = 1
  BY DEF RecordSent, IInv, ClaimOwnsRow
<1>. QED  BY <1>1, <1>2, <1>3, UpdateStep DEF RecordSent, phone, Claimed

LEMMA RecordUncertainHolds ==
    ASSUME IInv, NEW p \in Process, RecordUncertain(p)
    PROVE  IInv'
<1>1. "sending" \in Status /\ "uncertain" \in Status
  BY DEF Status
<1>2. TypeOK'
  BY <1>1, UpdateType, DoneType DEF RecordUncertain, IInv
<1>. QED  BY <1>1, <1>2, UpdateStep DEF RecordUncertain, phone, Claimed

\* A claim that finds its row pending makes this process its owner.
LEMMA ClaimHolds ==
    ASSUME IInv, NEW p \in Process, Claim(p)
    PROVE  IInv'
<1> DEFINE s == cycle[p].current
           m == cycle[p].month
<1>0. s \in Student /\ m \in Month /\ cycle[p] \in Cycle
  BY CycleFields, Cycles DEF Claim, IInv
<1>1. CASE reminder[s][m] = "pending"
  <2>1. /\ reminder' = [reminder EXCEPT ![s][m] = "sending"] /\ Go(p, "sending", cycle[p])
        /\ UNCHANGED <<texted, world, faults>> /\ "sending" \in Status /\ "sending" \in Phase
    BY <1>1 DEF Claim, Claimable, phone, Status, Phase
  <2>2. TypeOK'
    BY <1>0, <2>1, RowType, StepType DEF IInv, TypeOK
  <2>3. pc'[p] = "sending" /\ \A q \in Process \ {p} : pc'[q] = pc[q]
    BY <2>1 DEF Go, IInv, TypeOK
  <2>4. \A q \in Process : cycle'[q] = cycle[q]
    BY <2>1 DEF Go, IInv, TypeOK
  <2>5. \A t \in Student, n \in Month :
          reminder'[t][n] = IF t = s /\ n = m THEN "sending" ELSE reminder[t][n]
    BY <2>1 DEF IInv, TypeOK
  <2>6. ASSUME NEW q \in Process \ {p}, pc[q] \in Claimed
        PROVE  ~(cycle[q].current = s /\ cycle[q].month = m)
    BY <1>1, <2>6 DEF IInv, ClaimOwnsRow
  <2>7. OneSender'
    BY <2>3, <2>4, <2>6 DEF IInv, OneSender
  <2>8. texted[s][m] = 0
    BY <1>0, <1>1 DEF IInv, Honest, StatusIsHonest
  <2>9. ClaimOwnsRow'
    <3>1. \A q \in Process : pc[q] \in Claimed
             => cycle[q].current \in Student /\ cycle[q].month \in Month
      BY CycleFields
    <3>2. s # Nobody
      BY <1>0, RemindersAssumption DEF RemindersAssumption
    <3>. QED  BY <1>0, <2>1, <2>3, <2>4, <2>5, <2>6, <2>8, <3>1, <3>2
              DEF IInv, ClaimOwnsRow, Claimed
  <2>10. Honest'
    BY <2>1, <2>5 DEF IInv, Honest, NoDuplicateSMS, StatusIsHonest
  <2>. QED  BY <2>2, <2>7, <2>9, <2>10 DEF IInv
<1>2. CASE reminder[s][m] # "pending"
  <2>1. reminder' = reminder /\ Done(p) /\ UNCHANGED <<phone, faults>>
    BY <1>2 DEF Claim, Claimable
  <2>2. TypeOK'
    BY <2>1, DoneType DEF IInv, TypeOK
  <2>3. "delivering" \in Outside /\ Named("delivering", [cycle[p] EXCEPT !.current = Nobody])
    BY DEF Outside, Phase, Claimed, Named
  <2>. QED  BY <2>1, <2>2, <2>3, QuietStep DEF Done, phone
<1>. QED  BY <1>1, <1>2

\* Only the owner sends, and it has not sent before.
LEMMA SendHolds ==
    ASSUME IInv, NEW p \in Process, Send(p)
    PROVE  IInv'
<1> DEFINE s == cycle[p].current
           m == cycle[p].month
<1>0. s \in Student /\ m \in Month /\ cycle[p] \in Cycle /\ pc[p] \in Claimed
  BY CycleFields, Cycles DEF Send, IInv, Claimed
<1>1. PICK reached \in {0, 1}, answer \in {"accepted", "unanswered"} :
        /\ answer = "accepted" => reached = 1
        /\ texted' = [texted EXCEPT ![s][m] = @ + reached]
        /\ Go(p, answer, cycle[p])
  BY DEF Send
<1>2. UNCHANGED <<reminder, world, faults>> /\ answer \in Phase
  BY DEF Send, Phase
<1>3. TypeOK'
  BY <1>0, <1>1, <1>2, SentType, StepType DEF IInv, TypeOK
<1>4. pc'[p] = answer /\ \A q \in Process \ {p} : pc'[q] = pc[q]
  BY <1>1 DEF Go, IInv, TypeOK
<1>5. \A q \in Process : cycle'[q] = cycle[q]
  BY <1>1 DEF Go, IInv, TypeOK
<1>6. texted[s][m] = 0 /\ reminder[s][m] = "sending"
  BY <1>0 DEF Send, IInv, ClaimOwnsRow
<1>7. \A t \in Student, n \in Month :
        texted'[t][n] = IF t = s /\ n = m THEN reached ELSE texted[t][n]
  BY <1>1, <1>6 DEF IInv, TypeOK
<1>8. OneSender'
  BY <1>0, <1>4, <1>5 DEF IInv, OneSender
<1>9. ClaimOwnsRow'
  <2>1. \A q \in Process \ {p} : pc[q] \in Claimed
           => ~(cycle[q].current = s /\ cycle[q].month = m)
    BY <1>0 DEF IInv, OneSender
  <2>2. \A q \in Process : pc[q] \in Claimed
           => cycle[q].current \in Student /\ cycle[q].month \in Month
    BY CycleFields
  <2>3. s # Nobody
    BY <1>0, RemindersAssumption DEF RemindersAssumption
  <2>. QED  BY <1>0, <1>1, <1>2, <1>4, <1>5, <1>6, <1>7, <2>1, <2>2, <2>3
            DEF IInv, ClaimOwnsRow, Claimed
<1>10. Honest'
  BY <1>0, <1>2, <1>6, <1>7 DEF IInv, Honest, NoDuplicateSMS, StatusIsHonest
<1>. QED  BY <1>3, <1>8, <1>9, <1>10 DEF IInv

\* A cycle that ends, by itself or by a fault, and a process that starts.
LEMMA IdleHolds ==
    ASSUME IInv, NEW p \in Process, NEW phase \in {"waiting", "stopped"}, Go(p, phase, Idle),
           UNCHANGED <<reminder, phone>>, faults' \in 0 .. MaxFaults
    PROVE  IInv'
<1>1. phase \in Phase /\ phase \in Outside /\ Named(phase, Idle) /\ Idle \in Cycle
  BY Cycles DEF Phase, Outside, Claimed, Named, IInv
<1>2. TypeOK'
  BY <1>1, StepType DEF IInv, TypeOK, phone
<1>. QED  BY <1>1, <1>2, QuietStep DEF phone

LEMMA FaultHolds ==
    ASSUME IInv, NEW p \in Process, NEW phase \in {"waiting", "stopped"}, Fault(p, phase)
    PROVE  IInv'
<1>1. faults' \in 0 .. MaxFaults
  BY RemindersAssumption DEF Fault, IInv, TypeOK, RemindersAssumption
<1>. QED  BY <1>1, IdleHolds DEF Fault

LEMMA WorldHolds ==
    ASSUME IInv, UNCHANGED <<reminder, texted, pc, cycle, faults>>,
           \/ \E s \in Student : Owe(s)
           \/ HourComes \/ HourPasses
    PROVE  IInv'
<1>0. LastMonth \in Nat /\ TypeOK
  BY RemindersAssumption DEF RemindersAssumption, IInv
<1>1. TypeOK'
  <2>1. CASE \E s \in Student : Owe(s)
    BY <1>0, <2>1 DEF TypeOK, Owe
  <2>2. CASE HourComes
    BY <1>0, <2>2 DEF TypeOK, HourComes
  <2>3. CASE HourPasses
    <3>1. month' \in 1 .. LastMonth + 1 /\ due' = FALSE
      BY <1>0, <2>3 DEF TypeOK, HourPasses, Month
    <3>. QED  BY <1>0, <2>3, <3>1 DEF TypeOK, HourPasses
  <2>. QED  BY <2>1, <2>2, <2>3
<1>. QED  BY <1>1 DEF IInv, OneSender, ClaimOwnsRow, Honest, NoDuplicateSMS, StatusIsHonest

LEMMA NextHolds == IInv /\ [Next]_vars => IInv'
<1> SUFFICES ASSUME IInv, [Next]_vars PROVE IInv'  OBVIOUS
<1>1. ASSUME NEW p \in Process, Work(p) PROVE IInv'
  <2>1. CASE Finish(p)
    BY <2>1, IdleHolds DEF Finish, IInv, TypeOK
  <2>. QED  BY <1>1, <2>1, BeginHolds, ListPendingHolds, DropHolds, ClaimHolds, SendHolds,
               RecordSentHolds, RecordUncertainHolds, PrepareHolds, RefreshHolds DEF Work
<1>2. ASSUME NEW p \in Process, DatabaseError(p) \/ Crash(p) PROVE IInv'
  BY <1>2, FaultHolds DEF DatabaseError, Crash
<1>3. ASSUME NEW p \in Process, Restart(p) PROVE IInv'
  BY <1>3, IdleHolds DEF Restart, IInv, TypeOK
<1>4. CASE \/ \E s \in Student : Owe(s)
           \/ HourComes \/ HourPasses
  <2>1. UNCHANGED <<reminder, texted, pc, cycle, faults>>
    BY <1>4 DEF Owe, HourComes, HourPasses
  <2>. QED  BY <1>4, <2>1, WorldHolds
<1>5. CASE UNCHANGED vars
  BY <1>5 DEF vars, phone, world, IInv, TypeOK, OneSender, ClaimOwnsRow, Honest,
              NoDuplicateSMS, StatusIsHonest
<1>. QED  BY <1>1, <1>2, <1>3, <1>4, <1>5 DEF Next
----------------------------------------------------------------------------
\* The inductive invariant: whatever processes overlap, crash and start again,
\* a claimed row has one owner, and the table tells the truth.
THEOREM OwnershipHolds == Spec => []IInv
BY InitHolds, NextHolds, PTL DEF Spec

\* At most one process is between the claim of a reminder and its outcome.
THEOREM AtMostOneSender == Spec => []OneSender
<1>1. IInv => OneSender
  BY DEF IInv
<1>. QED  BY <1>1, OwnershipHolds, PTL

\* A guardian gets at most one reminder a month.
THEOREM NeverTwice == Spec => []NoDuplicateSMS
<1>1. IInv => NoDuplicateSMS
  BY DEF IInv, Honest
<1>. QED  BY <1>1, OwnershipHolds, PTL

\* A row at sent was sent, and one at pending or failed was not.
THEOREM StatusTellsTheTruth == Spec => []StatusIsHonest
<1>1. IInv => StatusIsHonest
  BY DEF IInv, Honest
<1>. QED  BY <1>1, OwnershipHolds, PTL

\* No step changes a row that has its outcome.
THEOREM OutcomesStay == Spec => OutcomeStays
<1> DEFINE Stays == \A s \in Student, m \in Month :
                      reminder[s][m] \in {"sent", "failed", "uncertain"}
                          => reminder'[s][m] = reminder[s][m]
<1>1. ASSUME TypeOK, NEW p \in Process, NEW from \in {"pending", "sending"}, NEW to,
             Update(p, from, to)
      PROVE  Stays
  BY <1>1 DEF Update, TypeOK
<1>2. ASSUME IInv, NEW p \in Process, Work(p) PROVE Stays
  <2>1. CASE Drop(p) \/ RecordSent(p) \/ RecordUncertain(p)
    BY <1>1, <1>2, <2>1 DEF Drop, RecordSent, RecordUncertain, IInv
  <2>2. CASE \E s \in Student : Prepare(p, s)
    BY <1>2, <2>2 DEF Prepare, IInv, TypeOK
  <2>3. CASE Claim(p)
    BY <1>2, <2>3 DEF Claim, Claimable, IInv, TypeOK
  <2>4. CASE \/ Begin(p) \/ ListPending(p) \/ Send(p) \/ Finish(p)
             \/ \E s \in Student : Refresh(p, s)
    BY <2>4 DEF Begin, ListPending, Send, Finish, Refresh
  <2>. QED  BY <1>2, <2>1, <2>2, <2>3, <2>4 DEF Work
<1>3. IInv /\ [Next]_vars => [Stays]_vars
  <2>1. ASSUME NEW p \in Process, DatabaseError(p) \/ Crash(p) \/ Restart(p) PROVE Stays
    BY <2>1 DEF DatabaseError, Crash, Restart, Fault
  <2>2. CASE \/ \E s \in Student : Owe(s)
             \/ HourComes \/ HourPasses
    BY <2>2 DEF Owe, HourComes, HourPasses
  <2>. QED  BY <1>2, <2>1, <2>2 DEF Next
<1>. QED  BY <1>3, OwnershipHolds, PTL DEF Spec, OutcomeStays
=============================================================================
