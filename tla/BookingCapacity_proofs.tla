----------------------- MODULE BookingCapacity_proofs -----------------------
(***************************************************************************)
(* For any number of handlers, bookings, layouts and closures: on SQLite   *)
(* the three-step handlers of BookingCapacity implement the atomic desk of *)
(* CourtInventory, and therefore never overbook the court; a confirmation  *)
(* is judged by the court as it is.  On both drivers statuses advance, and *)
(* a booking that is paid for stays in its slot.                           *)
(***************************************************************************)
EXTENDS BookingCapacity, TLAPS

Court == INSTANCE CourtInventory_proofs WITH held <- Held(schedule)

IInv == TypeOK /\ RequestsAreCurrent
----------------------------------------------------------------------------
(* Types *)

LEMMA NoJobType == IsTable(NoRows) /\ IsJob(NoJob)
<1>1. IsTable(NoRows)
  BY DEF IsTable, NoRows
<1>2. "insert" \in Op /\ "pending" \in Status
  BY DEF Op, Status, Live, Awaiting
<1>. QED  BY <1>1, <1>2 DEF NoJob, IsJob

LEMMA TypeInit == Init => TypeOK
BY NoJobType, BookingAssumption DEF Init, TypeOK, BookingAssumption

\* A handler that ends leaves well-typed requests.
LEMMA EndType ==
    ASSUME TypeOK, NEW H, End(H)
    PROVE  /\ pc' \in [Handler -> {"idle", "loaded", "checked"}]
           /\ DOMAIN job' = Handler /\ \A h \in Handler : IsJob(job'[h])
BY NoJobType DEF TypeOK, End

LEMMA BeginType ==
    ASSUME TypeOK, NEW h \in Handler, NEW op \in Op, NEW rows, IsTable(rows),
           NEW seen \in Status, Begin(h, op, rows, seen)
    PROVE  TypeOK'
<1> DEFINE j == [op |-> op, rows |-> rows, seen |-> seen, layouts |-> active]
<1>1. IsJob(j)
  BY DEF IsJob, TypeOK
<1>2. job' = [job EXCEPT ![h] = j]
  BY DEF Begin
<1>3. DOMAIN job' = Handler /\ \A k \in Handler : IsJob(job'[k])
  BY <1>1, <1>2 DEF TypeOK
<1>. QED  BY <1>3 DEF TypeOK, Begin, config, IsTable

LEMMA SetRowType ==
    ASSUME TypeOK, NEW i \in DOMAIN schedule, NEW row \in Row, SetRow(i, row)
    PROVE  TypeOK'
<1>1. IsTable(schedule')
  BY DEF SetRow, TypeOK, IsTable
<1>. QED  BY <1>1, EndType DEF SetRow, TypeOK, config

LEMMA BeginInsertType ==
    ASSUME TypeOK, NEW h \in Handler, NEW spans, NEW a, NEW q,
           NEW status \in Status, NEW app \in {"none", "scheduled"},
           BeginInsert(h, spans, a, q, status, app)
    PROVE  TypeOK'
<1>0. PICK S \in SUBSET FreeId : \E rows \in NewRows(S, spans, a, q, status, app) :
         /\ \A i \in S : rows[i].slot \in Slot
         /\ Begin(h, "insert", rows, "pending")
  BY DEF BeginInsert
<1>1. PICK rows \in NewRows(S, spans, a, q, status, app) :
         /\ \A i \in S : rows[i].slot \in Slot
         /\ Begin(h, "insert", rows, "pending")
  BY <1>0
<1>2. DOMAIN rows = S /\ rows = [i \in S |-> rows[i]]
  BY <1>1 DEF NewRows
<1>3. \A i \in S : rows[i] = NewRow(rows[i].slot, status, app)
  BY <1>1 DEF NewRows, NewRow
<1>4. ASSUME NEW i \in S PROVE rows[i] \in Row
  <2>1. rows[i].slot \in Slot
    BY <1>1
  <2>2. NewRow(rows[i].slot, status, app) \in Row
    BY <2>1 DEF NewRow, Row
  <2>. QED  BY <1>3, <2>2
<1>5. IsTable(rows)
  BY <1>2, <1>4 DEF IsTable, FreeId
<1>6. "pending" \in Status /\ "insert" \in Op
  BY DEF Status, Live, Awaiting, Op
<1>. QED  BY <1>1, <1>5, <1>6, BeginType

LEMMA OnlyIsTable ==
    ASSUME TypeOK, NEW i \in DOMAIN schedule, NEW s \in Slot, NEW to \in Status
    PROVE  IsTable(Only(i, NewRow(s, to, "none")))
BY DEF TypeOK, IsTable, Only, NewRow, Row

LEMMA RowFields ==
    ASSUME TypeOK, NEW i \in DOMAIN schedule
    PROVE  /\ schedule[i] \in Row
           /\ schedule[i].status \in Status /\ schedule[i].slot \in Slot
BY DEF TypeOK, IsTable, Row

LEMMA RowStepType ==
    ASSUME TypeOK, NEW i \in DOMAIN schedule, RowStep(i)
    PROVE  TypeOK'
<1>0. schedule[i] \in Row
  BY RowFields
<1>1. ASSUME NEW to \in Status, SetStatus(i, to) PROVE TypeOK'
  BY <1>0, <1>1, SetRowType DEF SetStatus, Row
<1>2. \A to \in {"rejected", "held", "expired", "cancelled", "completed", "no_show"} : to \in Status
  BY DEF Status, Live, Awaiting, Final
<1>3. ASSUME NEW to \in {"completed", "cancelled"}, FinishAppointment(i, to) PROVE TypeOK'
  <2>1. [schedule[i] EXCEPT !.status = to, !.appointment = to] \in Row
    BY <1>0, <1>2 DEF Row
  <2>. QED  BY <1>3, <2>1, SetRowType DEF FinishAppointment
<1>4. ASSUME CollectPayment(i) PROVE TypeOK'
  BY <1>0, <1>4, SetRowType DEF CollectPayment, Row
<1>5. ASSUME VoidPayments(i) PROVE TypeOK'
  BY <1>0, <1>5, SetRowType DEF VoidPayments, Row
<1>. QED  BY <1>1, <1>2, <1>3, <1>4, <1>5
          DEF RowStep, Decide, Expire, CancelBooking, FinishBooking

\* A commit leaves a well-typed table.
LEMMA CommitTable ==
    ASSUME TypeOK, NEW h \in Handler, Commit(h)
    PROVE  IsTable(schedule')
<1> DEFINE j == job[h]
<1>0. IsJob(j) /\ IsTable(j.rows) /\ IsTable(schedule)
  BY DEF TypeOK, IsJob
<1>1. CASE j.op = "insert"
  <2>1. schedule' = Merge(schedule, j.rows)
    BY <1>1 DEF Commit
  <2>. QED  BY <1>0, <2>1 DEF Merge, IsTable
<1>2. CASE j.op # "insert"
  <2>1. schedule' = [i \in DOMAIN schedule |-> IF i \in DOMAIN j.rows
                       THEN Written(j.op, schedule[i], j.rows[i]) ELSE schedule[i]]
    BY <1>2 DEF Commit
  <2>2. j.op \in {"edit", "reschedule", "confirm"}
    BY <1>0, <1>2 DEF IsJob, Op
  <2>3. ASSUME NEW i \in DOMAIN schedule, i \in DOMAIN j.rows
        PROVE  Written(j.op, schedule[i], j.rows[i]) \in Row
    <3>1. schedule[i] \in Row /\ j.rows[i] \in Row
      BY <1>0, <2>3 DEF IsTable
    <3>. QED  BY <2>2, <3>1 DEF Written, Row
  <2>4. \A i \in DOMAIN schedule : schedule[i] \in Row
    BY <1>0 DEF IsTable
  <2>. QED  BY <1>0, <2>1, <2>3, <2>4 DEF IsTable
<1>. QED  BY <1>1, <1>2

LEMMA HandlerStepType ==
    ASSUME TypeOK, NEW h \in Handler, HandlerStep(h)
    PROVE  TypeOK'
<1>0. "confirmed" \in Status /\ "pending" \in Status /\ "reschedule_pending" \in Status
      /\ Op = {"insert", "edit", "reschedule", "confirm"}
  BY DEF Status, Live, Awaiting, Op
<1>1. CASE BeginCreate(h)
  BY <1>0, <1>1, BeginInsertType DEF BeginCreate
<1>2. CASE BeginPublicRequest(h)
  BY <1>0, <1>2, BeginInsertType DEF BeginPublicRequest
<1>3. CASE BeginAppointment(h)
  BY <1>0, <1>3, BeginInsertType DEF BeginAppointment
<1>4. CASE BeginEdit(h)
  <2>1. PICK i \in DOMAIN schedule, s \in Slot :
          Begin(h, "edit", Only(i, NewRow(s, "pending", "none")), "pending")
    BY <1>4 DEF BeginEdit
  <2>. QED  BY <1>0, <2>1, OnlyIsTable, BeginType
<1>5. CASE BeginReschedule(h)
  <2>1. PICK i \in DOMAIN schedule, s \in Slot, to \in {"reschedule_pending", "confirmed"} :
          Begin(h, "reschedule", Only(i, NewRow(s, to, "none")), schedule[i].status)
    BY <1>5 DEF BeginReschedule
  <2>. QED  BY <1>0, <2>1, OnlyIsTable, BeginType, RowFields
<1>6. CASE BeginConfirm(h)
  <2>1. PICK i \in DOMAIN schedule :
          Begin(h, "confirm", Only(i, NewRow(schedule[i].slot, "confirmed", "none")), schedule[i].status)
    BY <1>6 DEF BeginConfirm
  <2>. QED  BY <1>0, <2>1, OnlyIsTable, BeginType, RowFields
<1>7. CASE CheckSlot(h)
  <2>1. IsJob([job[h] EXCEPT !.layouts = {}])
    <3>1. IsJob(job[h])
      BY DEF TypeOK
    <3>. QED  BY <3>1 DEF IsJob
  <2>2. DOMAIN job' = Handler /\ \A k \in Handler : IsJob(job'[k])
    BY <1>7, <2>1 DEF CheckSlot, TypeOK
  <2>. QED  BY <1>7, <2>2 DEF CheckSlot, TypeOK, config, IsTable
<1>8. CASE Commit(h)
  BY <1>8, CommitTable, EndType DEF Commit, TypeOK, config
<1>9. CASE Fail(h)
  BY <1>9, EndType DEF Fail, TypeOK, config, IsTable
<1>. QED  BY <1>1, <1>2, <1>3, <1>4, <1>5, <1>6, <1>7, <1>8, <1>9 DEF HandlerStep

LEMMA ConfigStepType == TypeOK /\ ConfigStep => TypeOK'
<1>1. ASSUME TypeOK, NEW drop \in AtMostOne(Layout), NEW add \in AtMostOne(Layout),
             BeginLayoutEdit(drop, add)
      PROVE  TypeOK'
  BY <1>1 DEF BeginLayoutEdit, TypeOK, AtMostOne, request, IsTable, IsJob
<1>2. ASSUME TypeOK, NEW e \in layoutEdits, CommitLayoutEdit(e)
      PROVE  TypeOK'
  BY <1>2, EndType DEF CommitLayoutEdit, TypeOK, IsTable
<1>3. ASSUME TypeOK, NEW drop \in AtMostOne(Closure), NEW add \in AtMostOne(Closure),
             ChangeClosures(drop, add)
      PROVE  TypeOK'
  BY <1>3, EndType DEF ChangeClosures, TypeOK, AtMostOne, IsTable
<1>. QED  BY <1>1, <1>2, <1>3 DEF ConfigStep

LEMMA TypeNext == TypeOK /\ [Next]_vars => TypeOK'
<1> SUFFICES ASSUME TypeOK, [Next]_vars PROVE TypeOK'  OBVIOUS
<1>1. CASE Tick
  BY <1>1, BookingAssumption DEF Tick, TypeOK, config, request, IsTable, IsJob, BookingAssumption
<1>2. CASE UNCHANGED vars
  BY <1>2 DEF vars, TypeOK, config, request, IsTable, IsJob
<1>. QED  BY <1>1, <1>2, HandlerStepType, RowStepType, ConfigStepType DEF Next

\* Every table the handlers can leave is well formed.
THEOREM TypeCorrect == Spec => []TypeOK
BY TypeInit, TypeNext, PTL DEF Spec
----------------------------------------------------------------------------
(* The rows of the open requests, on both drivers *)

RequestsOwn == \A h \in Handler : pc[h] # "idle" => OwnIds(h) /\ OwnRow(h)

\* Only a request that has been answered is paid for.
PaidIsAnswered == \A i \in DOMAIN schedule : schedule[i].paid => schedule[i].status \notin Awaiting

\* Nobody has paid for what is not booked yet.
NewIsUnpaid ==
    \A h \in Handler : pc[h] # "idle" /\ job[h].op = "insert" =>
        \A i \in DOMAIN job[h].rows : ~job[h].rows[i].paid

OwnInv == TypeOK /\ RequestsOwn /\ PaidIsAnswered /\ NewIsUnpaid

\* A commit that ends the requests in H leaves the others their rows.
LEMMA OwnAfterCommit ==
    ASSUME RequestsOwn, NEW H, End(H), DOMAIN schedule \subseteq DOMAIN schedule',
           \A h \in Handler \ H : pc[h] # "idle" /\ job[h].op = "insert" =>
               DOMAIN job[h].rows \cap DOMAIN schedule' = {}
    PROVE  RequestsOwn'
<1> SUFFICES ASSUME NEW h \in Handler, pc'[h] # "idle" PROVE OwnIds(h)' /\ OwnRow(h)'
  BY DEF RequestsOwn
<1>1. h \notin H /\ pc'[h] = pc[h] /\ job'[h] = job[h]
  BY DEF End
<1>2. OwnIds(h) /\ OwnRow(h)
  BY <1>1 DEF RequestsOwn
<1>3. OwnIds(h)'
  BY <1>1, <1>2 DEF OwnIds, End
<1>4. OwnRow(h)'
  BY <1>1, <1>2 DEF OwnRow
<1>. QED  BY <1>3, <1>4

\* Nothing is committed: only the requests in H change, and their rows are theirs.
LEMMA OwnWithoutCommit ==
    ASSUME RequestsOwn, schedule' = schedule, NEW H,
           \A h \in Handler \ H : pc'[h] = pc[h] /\ job'[h] = job[h],
           \A h \in H \cap Handler : pc'[h] # "idle" =>
               /\ OwnIds(h)' /\ OwnRow(h)'
               /\ \A k \in Handler \ H : pc[k] # "idle" /\ job[k].op = "insert" =>
                     DOMAIN job[k].rows \cap DOMAIN job'[h].rows = {}
    PROVE  RequestsOwn'
<1> SUFFICES ASSUME NEW h \in Handler \ H, pc'[h] # "idle" PROVE OwnIds(h)' /\ OwnRow(h)'
  BY DEF RequestsOwn
<1>1. pc'[h] = pc[h] /\ job'[h] = job[h]
  OBVIOUS
<1>2. OwnIds(h) /\ OwnRow(h)
  BY <1>1 DEF RequestsOwn
<1>3. OwnIds(h)'
  BY <1>1, <1>2 DEF OwnIds
<1>4. OwnRow(h)'
  BY <1>1, <1>2 DEF OwnRow
<1>. QED  BY <1>3, <1>4

LEMMA BeginOwn ==
    ASSUME TypeOK, RequestsOwn, NEW h \in Handler, NEW op \in Op, NEW rows, NEW seen,
           Begin(h, op, rows, seen),
           op = "insert" =>
               /\ DOMAIN rows \subseteq FreeId
               /\ \A i \in DOMAIN rows : rows[i].status \in Live,
           op # "insert" =>
               \E i \in DOMAIN schedule :
                   DOMAIN rows = {i} /\ rows[i].status \in Live /\ seen \in Awaiting
    PROVE  RequestsOwn'
<1>1. /\ schedule' = schedule
      /\ pc'[h] = "loaded" /\ job'[h].op = op /\ job'[h].rows = rows /\ job'[h].seen = seen
      /\ \A k \in Handler \ {h} : pc'[k] = pc[k] /\ job'[k] = job[k]
  BY DEF Begin, TypeOK
<1>2. OwnIds(h)'
  BY <1>1 DEF OwnIds, FreeId
<1>3. OwnRow(h)'
  BY <1>1 DEF OwnRow
<1>4. ASSUME NEW k \in Handler \ {h}, pc[k] # "idle", job[k].op = "insert"
      PROVE  DOMAIN job[k].rows \cap DOMAIN rows = {}
  <2>1. CASE op = "insert"
    BY <1>4, <2>1 DEF FreeId
  <2>2. CASE op # "insert"
    <3>1. DOMAIN job[k].rows \cap DOMAIN schedule = {}
      BY <1>4 DEF RequestsOwn, OwnIds
    <3>. QED  BY <2>2, <3>1
  <2>. QED  BY <2>1, <2>2
<1>5. \A k \in {h} \cap Handler : pc'[k] # "idle" =>
               /\ OwnIds(k)' /\ OwnRow(k)'
               /\ \A m \in Handler \ {h} : pc[m] # "idle" /\ job[m].op = "insert" =>
                     DOMAIN job[m].rows \cap DOMAIN job'[k].rows = {}
  BY <1>1, <1>2, <1>3, <1>4
<1>. QED  BY <1>1, <1>5, OwnWithoutCommit

LEMMA BeginInsertOwn ==
    ASSUME TypeOK, RequestsOwn, NEW h \in Handler, NEW spans, NEW a, NEW q,
           NEW status \in Live, NEW app, BeginInsert(h, spans, a, q, status, app)
    PROVE  RequestsOwn'
<1>0. PICK S \in SUBSET FreeId : \E rows \in NewRows(S, spans, a, q, status, app) :
         Begin(h, "insert", rows, "pending")
  BY DEF BeginInsert
<1>1. PICK rows \in NewRows(S, spans, a, q, status, app) : Begin(h, "insert", rows, "pending")
  BY <1>0
<1>2. DOMAIN rows = S /\ \A i \in S : rows[i].status = status
  BY <1>1 DEF NewRows, NewRow
<1>3. "insert" \in Op
  BY DEF Op
<1>. QED  BY <1>1, <1>2, <1>3, BeginOwn

\* A request to change a row begins with that row alone.
LEMMA BeginOneOwn ==
    ASSUME TypeOK, RequestsOwn, NEW h \in Handler, NEW op \in Op \ {"insert"},
           NEW i \in DOMAIN schedule, NEW s, NEW to \in Live, NEW seen \in Awaiting,
           Begin(h, op, Only(i, NewRow(s, to, "none")), seen)
    PROVE  RequestsOwn'
<1>1. PICK rows : rows = Only(i, NewRow(s, to, "none"))
  OBVIOUS
<1>2. DOMAIN rows = {i} /\ rows[i].status = to
  BY <1>1 DEF Only, NewRow
<1>3. op \in Op /\ op # "insert" /\ Begin(h, op, rows, seen)
  BY <1>1
<1>4. \E m \in DOMAIN schedule : DOMAIN rows = {m} /\ rows[m].status \in Live /\ seen \in Awaiting
  BY <1>2
<1>. QED  BY <1>3, <1>4, BeginOwn

LEMMA CheckSlotOwn ==
    ASSUME TypeOK, RequestsOwn, NEW h \in Handler, CheckSlot(h)
    PROVE  RequestsOwn'
<1>1. /\ schedule' = schedule /\ pc[h] # "idle"
      /\ pc'[h] = "checked" /\ job'[h].op = job[h].op /\ job'[h].rows = job[h].rows
      /\ job'[h].seen = job[h].seen
      /\ \A k \in Handler \ {h} : pc'[k] = pc[k] /\ job'[k] = job[k]
  BY DEF CheckSlot, TypeOK, IsJob
<1>2. OwnIds(h) /\ OwnRow(h)
  BY <1>1 DEF RequestsOwn
<1>3. OwnIds(h)'
  BY <1>1, <1>2 DEF OwnIds
<1>4. OwnRow(h)'
  BY <1>1, <1>2 DEF OwnRow
<1>5. \A k \in Handler \ {h} : pc[k] # "idle" /\ job[k].op = "insert" =>
         DOMAIN job[k].rows \cap DOMAIN job'[h].rows = {}
  BY <1>1 DEF RequestsOwn, OwnIds
<1>6. \A k \in {h} \cap Handler : pc'[k] # "idle" =>
               /\ OwnIds(k)' /\ OwnRow(k)'
               /\ \A m \in Handler \ {h} : pc[m] # "idle" /\ job[m].op = "insert" =>
                     DOMAIN job[m].rows \cap DOMAIN job'[k].rows = {}
  BY <1>3, <1>4, <1>5
<1>. QED  BY <1>1, <1>6, OwnWithoutCommit

LEMMA CommitOwn ==
    ASSUME TypeOK, RequestsOwn, NEW h \in Handler, Commit(h)
    PROVE  RequestsOwn'
<1> DEFINE j == job[h]
<1>0. End(Overtaken \cup {h}) /\ pc[h] = "checked"
  BY DEF Commit
<1>1. CASE j.op = "insert"
  <2>1. schedule' = Merge(schedule, j.rows)
    BY <1>1 DEF Commit
  <2>2. DOMAIN schedule' = DOMAIN schedule \cup DOMAIN j.rows
    BY <2>1 DEF Merge
  <2>3. ASSUME NEW k \in Handler \ (Overtaken \cup {h}), pc[k] # "idle", job[k].op = "insert"
        PROVE  DOMAIN job[k].rows \cap DOMAIN schedule' = {}
    <3>1. OwnIds(k)
      BY <2>3 DEF RequestsOwn
    <3>. QED  BY <1>0, <2>2, <2>3, <3>1 DEF OwnIds
  <2>. QED  BY <1>0, <2>2, <2>3, OwnAfterCommit
<1>2. CASE j.op # "insert"
  <2>1. DOMAIN schedule' = DOMAIN schedule
    BY <1>2 DEF Commit
  <2>2. ASSUME NEW k \in Handler \ (Overtaken \cup {h}), pc[k] # "idle", job[k].op = "insert"
        PROVE  DOMAIN job[k].rows \cap DOMAIN schedule' = {}
    BY <2>1, <2>2 DEF RequestsOwn, OwnIds
  <2>. QED  BY <1>0, <2>1, <2>2, OwnAfterCommit
<1>. QED  BY <1>1, <1>2

LEMMA HandlerStepOwn ==
    ASSUME TypeOK, RequestsOwn, NEW h \in Handler, HandlerStep(h)
    PROVE  RequestsOwn'
<1>0. "confirmed" \in Live /\ "pending" \in Live /\ "reschedule_pending" \in Live
      /\ "pending" \in Awaiting /\ Op = {"insert", "edit", "reschedule", "confirm"}
  BY DEF Live, Awaiting, Op
<1>1. CASE BeginCreate(h)
  BY <1>0, <1>1, BeginInsertOwn DEF BeginCreate
<1>2. CASE BeginPublicRequest(h)
  BY <1>0, <1>2, BeginInsertOwn DEF BeginPublicRequest
<1>3. CASE BeginAppointment(h)
  BY <1>0, <1>3, BeginInsertOwn DEF BeginAppointment
<1>4. CASE BeginEdit(h)
  BY <1>0, <1>4, BeginOneOwn DEF BeginEdit
<1>5. CASE BeginReschedule(h)
  BY <1>0, <1>5, BeginOneOwn DEF BeginReschedule
<1>6. CASE BeginConfirm(h)
  BY <1>0, <1>6, BeginOneOwn DEF BeginConfirm
<1>7. CASE CheckSlot(h)
  BY <1>7, CheckSlotOwn
<1>8. CASE Commit(h)
  BY <1>8, CommitOwn
<1>9. CASE Fail(h)
  <2>1. pc'[h] = "idle" /\ schedule' = schedule
        /\ \A k \in Handler \ {h} : pc'[k] = pc[k] /\ job'[k] = job[k]
    BY <1>9 DEF Fail, End
  <2>2. \A k \in {h} \cap Handler : pc'[k] # "idle" =>
               /\ OwnIds(k)' /\ OwnRow(k)'
               /\ \A m \in Handler \ {h} : pc[m] # "idle" /\ job[m].op = "insert" =>
                     DOMAIN job[m].rows \cap DOMAIN job'[k].rows = {}
    BY <2>1
  <2>. QED  BY <2>1, <2>2, OwnWithoutCommit
<1>. QED  BY <1>1, <1>2, <1>3, <1>4, <1>5, <1>6, <1>7, <1>8, <1>9 DEF HandlerStep

\* A step that does not commit anything to the table.
LEMMA WithoutCommit ==
    ASSUME NEW h \in Handler, HandlerStep(h) PROVE Commit(h) \/ schedule' = schedule
BY DEF HandlerStep, BeginCreate, BeginPublicRequest, BeginAppointment, BeginInsert,
       BeginEdit, BeginReschedule, BeginConfirm, Begin, CheckSlot, Fail

LEMMA RowStepRow ==
    ASSUME TypeOK, NEW i \in DOMAIN schedule, RowStep(i)
    PROVE  /\ End(Overtaken) /\ DOMAIN schedule' = DOMAIN schedule /\ UNCHANGED <<config, now>>
           /\ \A k \in DOMAIN schedule \ {i} : schedule'[k] = schedule[k]
           /\ schedule[i] \in Row /\ schedule'[i] \in Row
           /\ schedule'[i].slot = schedule[i].slot
           /\ schedule'[i].appointment # schedule[i].appointment => schedule[i].appointment = "scheduled"
           /\ schedule'[i].status \in Awaiting => schedule[i].status \in Awaiting
           /\ schedule'[i].paid /\ ~schedule[i].paid => schedule[i].status \notin Awaiting
           /\ schedule'[i].paid => schedule[i].paid \/ schedule'[i].status = schedule[i].status
           /\ schedule'[i].status # schedule[i].status =>
                 \/ schedule[i].status \in Awaiting
                 \/ schedule[i].appointment = "scheduled"
                 \/ /\ schedule[i].status = "confirmed"
                    /\ schedule'[i].status \in {"cancelled", "completed", "no_show"}
           /\ schedule'[i].status = "confirmed" => schedule[i].status = "confirmed"
<1>0. schedule[i] \in Row
  BY RowFields
<1>1. \A to \in {"rejected", "expired", "cancelled", "completed", "no_show"} :
          to \in Status /\ to \notin Live /\ to \notin Awaiting /\ to # "confirmed"
  BY DEF Status, Live, Awaiting, Final
<1>2. /\ "held" \in Status /\ "confirmed" \notin Awaiting /\ "held" # "confirmed"
      /\ "completed" \notin Awaiting /\ "cancelled" \notin Awaiting
  BY DEF Status, Live, Awaiting
<1>3. ASSUME NEW row, SetRow(i, row)
      PROVE  /\ End(Overtaken) /\ DOMAIN schedule' = DOMAIN schedule /\ UNCHANGED <<config, now>>
             /\ \A k \in DOMAIN schedule \ {i} : schedule'[k] = schedule[k]
             /\ schedule'[i] = row
  BY <1>3 DEF SetRow
<1>4. ASSUME NEW to \in Status, SetStatus(i, to)
      PROVE  /\ schedule'[i].status = to /\ schedule'[i].slot = schedule[i].slot
             /\ schedule'[i].paid = schedule[i].paid /\ schedule'[i] \in Row
             /\ schedule'[i].appointment = schedule[i].appointment
  BY <1>0, <1>3, <1>4 DEF SetStatus, Row
<1>5. CASE \E to \in {"rejected", "held", "expired"} : Decide(i, to)
  BY <1>0, <1>1, <1>2, <1>3, <1>4, <1>5 DEF Decide, SetStatus
<1>6. CASE CancelBooking(i)
  BY <1>0, <1>1, <1>2, <1>3, <1>4, <1>6 DEF CancelBooking, SetStatus
<1>7. CASE \E to \in {"completed", "no_show"} : FinishBooking(i, to)
  BY <1>0, <1>1, <1>2, <1>3, <1>4, <1>7 DEF FinishBooking, SetStatus
<1>8. CASE \E to \in {"completed", "cancelled"} : FinishAppointment(i, to)
  <2>1. PICK to \in {"completed", "cancelled"} : FinishAppointment(i, to)
    BY <1>8
  <2>2. PICK row : row = [schedule[i] EXCEPT !.status = to, !.appointment = to]
    OBVIOUS
  <2>3. /\ row \in Row /\ row.status = to /\ row.slot = schedule[i].slot
        /\ row.paid = schedule[i].paid
    BY <1>0, <1>1, <2>1, <2>2 DEF Row
  <2>4. SetRow(i, row) /\ schedule[i].appointment = "scheduled"
    BY <2>1, <2>2 DEF FinishAppointment
  <2>. QED  BY <1>0, <1>1, <1>3, <2>1, <2>3, <2>4 DEF Row
<1>9. CASE CollectPayment(i) \/ VoidPayments(i)
  <2>1. PICK paid \in BOOLEAN : /\ SetRow(i, [schedule[i] EXCEPT !.paid = paid])
                                /\ paid => schedule[i].status \in {"confirmed", "completed", "cancelled"}
    BY <1>9 DEF CollectPayment, VoidPayments
  <2>2. PICK row : row = [schedule[i] EXCEPT !.paid = paid]
    OBVIOUS
  <2>3. /\ row \in Row /\ row.status = schedule[i].status /\ row.slot = schedule[i].slot
        /\ row.paid = paid /\ row.appointment = schedule[i].appointment
    BY <1>0, <2>1, <2>2 DEF Row
  <2>. QED  BY <1>0, <1>2, <1>3, <2>1, <2>2, <2>3
<1>. QED  BY <1>5, <1>6, <1>7, <1>8, <1>9 DEF RowStep, Expire

\* What a commit does to a row that was there.
LEMMA CommitRow ==
    ASSUME TypeOK, RequestsOwn, NEW h \in Handler, Commit(h), NEW i \in DOMAIN schedule
    PROVE  /\ i \in DOMAIN schedule' /\ schedule[i] \in Row /\ schedule'[i] \in Row
           /\ schedule'[i].paid = schedule[i].paid
           /\ schedule'[i].appointment = schedule[i].appointment
           /\ \/ schedule'[i] = schedule[i]
              \/ /\ job[h].op = "edit" /\ schedule'[i].status = schedule[i].status
                 /\ schedule[i].paid => schedule'[i].slot = schedule[i].slot
              \/ /\ job[h].op \in {"reschedule", "confirm"} /\ DOMAIN job[h].rows = {i}
                 /\ schedule[i].status \in Awaiting
                 /\ schedule'[i].slot = IF job[h].op = "confirm" THEN schedule[i].slot
                                                                ELSE job[h].rows[i].slot
                 /\ DOMAIN schedule' = DOMAIN schedule
                 /\ \A k \in DOMAIN schedule \ {i} : schedule'[k] = schedule[k]
                 /\ schedule'[i].status \in Live
<1>0. schedule[i] \in Row /\ OwnIds(h) /\ OwnRow(h) /\ IsJob(job[h])
  BY RowFields DEF RequestsOwn, Commit, TypeOK
<1>1. CASE job[h].op = "insert"
  <2>1. schedule' = Merge(schedule, job[h].rows) /\ i \notin DOMAIN job[h].rows
    BY <1>0, <1>1 DEF Commit, OwnIds
  <2>. QED  BY <1>0, <2>1 DEF Merge
<1>2. CASE job[h].op # "insert"
  <2>1. PICK m \in DOMAIN schedule :
           DOMAIN job[h].rows = {m} /\ job[h].rows[m].status \in Live /\ job[h].seen \in Awaiting
    BY <1>0, <1>2 DEF OwnRow
  <2>2. /\ MayWrite(job[h], m) /\ DOMAIN schedule' = DOMAIN schedule
        /\ \A k \in DOMAIN schedule \ {m} : schedule'[k] = schedule[k]
        /\ schedule'[m] = Written(job[h].op, schedule[m], job[h].rows[m])
    BY <1>2, <2>1 DEF Commit
  <2>3. CASE i # m
    BY <1>0, <2>2, <2>3
  <2>4. CASE i = m
    <3>1. job[h].op \in {"edit", "reschedule", "confirm"} /\ job[h].rows[i] \in Row
      BY <1>0, <1>2, <2>1, <2>4 DEF IsJob, Op, IsTable
    <3>2. CASE job[h].op = "edit"
      BY <1>0, <2>2, <2>4, <3>1, <3>2 DEF Written, MayWrite, Row
    <3>3. CASE job[h].op = "reschedule"
      BY <1>0, <2>1, <2>2, <2>4, <3>1, <3>3 DEF Written, MayWrite, Row
    <3>4. CASE job[h].op = "confirm"
      BY <1>0, <2>1, <2>2, <2>4, <3>1, <3>4 DEF Written, MayWrite, Row
    <3>. QED  BY <3>1, <3>2, <3>3, <3>4
  <2>. QED  BY <2>3, <2>4
<1>. QED  BY <1>1, <1>2

LEMMA NewStaysUnpaid ==
    ASSUME TypeOK, NewIsUnpaid, [Next]_vars
    PROVE  NewIsUnpaid'
<1> SUFFICES ASSUME NEW h \in Handler, pc'[h] # "idle", job'[h].op = "insert", NEW i \in DOMAIN job'[h].rows
             PROVE  ~job'[h].rows[i].paid
  BY DEF NewIsUnpaid
<1>1. ASSUME pc[h] # "idle", job'[h].op = job[h].op, job'[h].rows = job[h].rows
      PROVE  ~job'[h].rows[i].paid
  BY <1>1 DEF NewIsUnpaid
<1>2. ASSUME NEW H, End(H) PROVE ~job'[h].rows[i].paid
  BY <1>1, <1>2 DEF End
<1>3. ASSUME NEW k \in Handler, HandlerStep(k) PROVE ~job'[h].rows[i].paid
  <2>1. CASE k # h
    <3>1. End(Overtaken \cup {k}) \/ End({k}) \/ (pc'[h] = pc[h] /\ job'[h] = job[h])
      BY <1>3, <2>1 DEF HandlerStep, BeginCreate, BeginPublicRequest, BeginAppointment, BeginInsert,
         BeginEdit, BeginReschedule, BeginConfirm, Begin, CheckSlot, Commit, Fail, TypeOK
    <3>. QED  BY <1>1, <1>2, <3>1
  <2>2. CASE k = h
    <3>1. ASSUME NEW spans, NEW a, NEW q, NEW status, NEW app, BeginInsert(h, spans, a, q, status, app)
          PROVE  ~job'[h].rows[i].paid
      <4>1. PICK S \in SUBSET FreeId : \E rows \in NewRows(S, spans, a, q, status, app) :
               Begin(h, "insert", rows, "pending")
        BY <3>1 DEF BeginInsert
      <4>2. PICK rows \in NewRows(S, spans, a, q, status, app) : Begin(h, "insert", rows, "pending")
        BY <4>1
      <4>3. job'[h].rows = rows
        BY <4>2 DEF Begin, TypeOK
      <4>. QED  BY <4>2, <4>3 DEF NewRows, NewRow
    <3>2. CASE BeginCreate(h) \/ BeginPublicRequest(h) \/ BeginAppointment(h)
      BY <3>1, <3>2 DEF BeginCreate, BeginPublicRequest, BeginAppointment
    <3>3. CASE BeginEdit(h) \/ BeginReschedule(h) \/ BeginConfirm(h)
      BY <3>3 DEF BeginEdit, BeginReschedule, BeginConfirm, Begin, TypeOK
    <3>4. CASE CheckSlot(h)
      BY <1>1, <3>4 DEF CheckSlot, TypeOK, IsJob
    <3>5. CASE Commit(h) \/ Fail(h)
      BY <1>2, <3>5 DEF Commit, Fail
    <3>. QED  BY <1>3, <2>2, <3>2, <3>3, <3>4, <3>5 DEF HandlerStep
  <2>. QED  BY <2>1, <2>2
<1>4. ASSUME NEW k \in DOMAIN schedule, RowStep(k) PROVE ~job'[h].rows[i].paid
  BY <1>2, <1>4, RowStepRow
<1>5. CASE ConfigStep \/ Tick \/ UNCHANGED vars
  <2>1. End(Overtaken) \/ (pc' = pc /\ job' = job)
    BY <1>5 DEF ConfigStep, BeginLayoutEdit, CommitLayoutEdit, ChangeClosures, Tick, vars, request
  <2>. QED  BY <1>1, <1>2, <2>1
<1>. QED  BY <1>3, <1>4, <1>5 DEF Next

LEMMA OwnNext == OwnInv /\ [Next]_vars => OwnInv'
<1> SUFFICES ASSUME OwnInv, [Next]_vars PROVE OwnInv'
  OBVIOUS
<1>0. TypeOK /\ RequestsOwn /\ PaidIsAnswered /\ NewIsUnpaid
  BY DEF OwnInv
<1>1. TypeOK' /\ NewIsUnpaid'
  BY <1>0, TypeNext, NewStaysUnpaid
<1>2. ASSUME schedule' = schedule, End(Overtaken) \/ (pc' = pc /\ job' = job) PROVE RequestsOwn'
  <2>1. CASE End(Overtaken)
    BY <1>0, <1>2, <2>1, OwnAfterCommit DEF RequestsOwn, OwnIds
  <2>2. CASE pc' = pc /\ job' = job
    <3>1. \A h \in {} \cap Handler : pc'[h] # "idle" =>
               /\ OwnIds(h)' /\ OwnRow(h)'
               /\ \A k \in Handler \ {} : pc[k] # "idle" /\ job[k].op = "insert" =>
                     DOMAIN job[k].rows \cap DOMAIN job'[h].rows = {}
      OBVIOUS
    <3>. QED  BY <1>0, <1>2, <2>2, <3>1, OwnWithoutCommit
  <2>. QED  BY <1>2, <2>1, <2>2
<1>3. ASSUME schedule' = schedule PROVE PaidIsAnswered'
  BY <1>0, <1>3 DEF PaidIsAnswered
<1>4. ASSUME NEW h \in Handler, Commit(h) PROVE PaidIsAnswered'
  <2> SUFFICES ASSUME NEW i \in DOMAIN schedule', schedule'[i].paid PROVE schedule'[i].status \notin Awaiting
    BY DEF PaidIsAnswered
  <2>1. CASE i \in DOMAIN schedule
    BY <1>0, <1>4, <2>1, CommitRow DEF PaidIsAnswered
  <2>2. CASE i \notin DOMAIN schedule
    <3>1. job[h].op = "insert" /\ schedule' = Merge(schedule, job[h].rows)
      BY <1>4, <2>2 DEF Commit
    <3>2. i \in DOMAIN job[h].rows /\ schedule'[i] = job[h].rows[i]
      BY <2>2, <3>1 DEF Merge
    <3>. QED  BY <1>0, <1>4, <3>1, <3>2 DEF NewIsUnpaid, Commit
  <2>. QED  BY <2>1, <2>2
<1>5. ASSUME NEW h \in Handler, HandlerStep(h) PROVE OwnInv'
  BY <1>0, <1>1, <1>3, <1>4, <1>5, HandlerStepOwn, WithoutCommit DEF OwnInv
<1>6. ASSUME NEW i \in DOMAIN schedule, RowStep(i) PROVE OwnInv'
  <2>1. RequestsOwn'
    <3>1. End(Overtaken) /\ DOMAIN schedule' = DOMAIN schedule
      BY <1>0, <1>6, RowStepRow
    <3>2. \A h \in Handler \ Overtaken : pc[h] # "idle" /\ job[h].op = "insert" =>
              DOMAIN job[h].rows \cap DOMAIN schedule' = {}
      BY <1>0, <3>1 DEF RequestsOwn, OwnIds
    <3>. QED  BY <1>0, <3>1, <3>2, OwnAfterCommit
  <2>2. PaidIsAnswered'
    <3>1. /\ DOMAIN schedule' = DOMAIN schedule
          /\ \A k \in DOMAIN schedule \ {i} : schedule'[k] = schedule[k]
          /\ schedule'[i].status \in Awaiting => schedule[i].status \in Awaiting
          /\ schedule'[i].paid /\ ~schedule[i].paid => schedule[i].status \notin Awaiting
      BY <1>0, <1>6, RowStepRow
    <3>. QED  BY <1>0, <3>1 DEF PaidIsAnswered
  <2>. QED  BY <1>1, <2>1, <2>2 DEF OwnInv
<1>7. CASE ConfigStep \/ Tick \/ UNCHANGED vars
  <2>1. schedule' = schedule /\ (End(Overtaken) \/ (pc' = pc /\ job' = job))
    BY <1>7 DEF ConfigStep, BeginLayoutEdit, CommitLayoutEdit, ChangeClosures, Tick, vars, request
  <2>. QED  BY <1>1, <1>2, <1>3, <2>1 DEF OwnInv
<1>. QED  BY <1>5, <1>6, <1>7 DEF Next

LEMMA OwnInvHolds == Spec => []OwnInv
<1>1. Init => OwnInv
  BY TypeInit DEF Init, OwnInv, RequestsOwn, PaidIsAnswered, NewIsUnpaid, NoRows
<1>. QED  BY <1>1, OwnNext, PTL DEF Spec
----------------------------------------------------------------------------
(* Statuses and payments, on both drivers *)

\* How the row i of a step may change: by one commit, or by a step of its own.
LEMMA RowAdvances ==
    ASSUME OwnInv, [Next]_vars, NEW i \in DOMAIN schedule
    PROVE  /\ schedule[i].paid => schedule'[i].slot = schedule[i].slot
           /\ schedule[i].appointment = "none" /\ schedule'[i].status # schedule[i].status =>
                 \/ schedule[i].status \in Awaiting
                 \/ /\ schedule[i].status = "confirmed"
                    /\ schedule'[i].status \in {"cancelled", "completed", "no_show"}
<1>0. TypeOK /\ RequestsOwn /\ PaidIsAnswered
  BY DEF OwnInv
<1>1. ASSUME NEW h \in Handler, HandlerStep(h), schedule' # schedule PROVE Commit(h)
  BY <1>1, WithoutCommit
<1>2. ASSUME NEW h \in Handler, Commit(h)
      PROVE  /\ schedule[i].paid => schedule'[i].slot = schedule[i].slot
             /\ schedule'[i].status # schedule[i].status => schedule[i].status \in Awaiting
  BY <1>0, <1>2, CommitRow DEF PaidIsAnswered
<1>3. ASSUME NEW k \in DOMAIN schedule, RowStep(k)
      PROVE  /\ schedule'[i].slot = schedule[i].slot
             /\ schedule[i].appointment = "none" /\ schedule'[i].status # schedule[i].status =>
                   \/ schedule[i].status \in Awaiting
                   \/ /\ schedule[i].status = "confirmed"
                    /\ schedule'[i].status \in {"cancelled", "completed", "no_show"}
  <2>1. CASE k = i
    BY <1>0, <1>3, <2>1, RowStepRow
  <2>2. CASE k # i
    BY <1>0, <1>3, <2>2, RowStepRow
  <2>. QED  BY <2>1, <2>2
<1>4. ConfigStep \/ Tick \/ UNCHANGED vars => schedule' = schedule
  BY DEF ConfigStep, BeginLayoutEdit, CommitLayoutEdit, ChangeClosures, Tick, vars
<1>. QED  BY <1>1, <1>2, <1>3, <1>4 DEF Next

\* On both drivers a booking that is no one-to-one appointment goes through its
\* statuses in one direction, whichever requests answer it at the same time.
THEOREM StatusesAdvance == Spec => StatusOrder
<1>1. OwnInv /\ [Next]_vars =>
         [\A i \in DOMAIN schedule :
            LET from == schedule[i].status
                to   == schedule'[i].status
            IN  schedule[i].appointment = "none" /\ to # from =>
                  \/ from \in Awaiting
                  \/ from = "confirmed" /\ to \in {"cancelled", "completed", "no_show"}]_vars
  BY RowAdvances
<1>. QED  BY <1>1, OwnInvHolds, PTL DEF Spec, StatusOrder

\* On both drivers no edit or reschedule in flight moves a booking that is paid for.
THEOREM PaidBookingsStay == Spec => PaidBookingKeepsItsSlot
<1>1. OwnInv /\ [Next]_vars =>
         [\A i \in DOMAIN schedule :
             schedule[i].paid => schedule'[i].slot = schedule[i].slot]_vars
  BY RowAdvances
<1>. QED  BY <1>1, OwnInvHolds, PTL DEF Spec, PaidBookingKeepsItsSlot
----------------------------------------------------------------------------
(* On SQLite what the open requests have seen stays true *)

\* A request that is to be answered: no closure covers its slot, and the layouts
\* that were active when it looked are.
AnswerIsCurrent(h) ==
    \A i \in DOMAIN job[h].rows :
        job[h].op \in {"reschedule", "confirm"} =>
            /\ ~Blocked(job[h].rows[i].slot, closures)
            /\ job[h].op = "confirm" => job[h].rows[i].slot = schedule[i].slot
            /\ pc[h] = "loaded" => job[h].layouts = active
            /\ pc[h] = "checked" => FitsSomeLayout(Judged(job[h]), i, active)

RequestsLooked == \A h \in Handler : pc[h] # "idle" => StillAvailable(h) /\ AnswerIsCurrent(h)

LookedInv == OwnInv /\ RequestsLooked

\* Whoever is not overtaken has only validated what its request says.
LEMMA LookedAfterCommit ==
    ASSUME TypeOK, Driver = "sqlite", NEW H, Overtaken \subseteq H, End(H)
    PROVE  RequestsLooked'
<1> SUFFICES ASSUME NEW h \in Handler, pc'[h] # "idle" PROVE StillAvailable(h)' /\ AnswerIsCurrent(h)'
  BY DEF RequestsLooked
<1>1. h \notin H /\ pc'[h] = pc[h] /\ job'[h] = job[h]
  BY DEF End
<1>2. pc[h] # "checked" /\ ~(pc[h] = "loaded" /\ job[h].op \in {"reschedule", "confirm"})
  BY <1>1 DEF Overtaken, Reading
<1>3. pc'[h] # "checked" /\ ~(pc'[h] = "loaded" /\ job'[h].op \in {"reschedule", "confirm"})
  BY <1>1, <1>2
<1>4. pc'[h] = "loaded"
  BY <1>1, <1>3 DEF TypeOK
<1>5. StillAvailable(h)'
  BY <1>3 DEF StillAvailable
<1>6. AnswerIsCurrent(h)'
  <2>1. job'[h].op \notin {"reschedule", "confirm"}
    BY <1>3, <1>4
  <2>. QED  BY <2>1 DEF AnswerIsCurrent
<1>. QED  BY <1>5, <1>6

\* Nothing is committed: only the request h changes, and it has looked.
LEMMA LookedWithoutCommit ==
    ASSUME RequestsLooked, UNCHANGED <<schedule, active, closures>>, NEW H,
           \A k \in Handler \ H : pc'[k] = pc[k] /\ job'[k] = job[k],
           \A k \in H \cap Handler : pc'[k] # "idle" => StillAvailable(k)' /\ AnswerIsCurrent(k)'
    PROVE  RequestsLooked'
<1> SUFFICES ASSUME NEW k \in Handler \ H, pc'[k] # "idle" PROVE StillAvailable(k)' /\ AnswerIsCurrent(k)'
  BY DEF RequestsLooked
<1>1. pc'[k] = pc[k] /\ job'[k] = job[k]
  OBVIOUS
<1>2. StillAvailable(k) /\ AnswerIsCurrent(k)
  BY <1>1 DEF RequestsLooked
<1>3. Judged(job[k])' = Judged(job[k])
  BY <1>1 DEF Judged, Held
<1>4. StillAvailable(k)'
  BY <1>1, <1>2, <1>3 DEF StillAvailable
<1>5. AnswerIsCurrent(k)'
  BY <1>1, <1>2, <1>3 DEF AnswerIsCurrent
<1>. QED  BY <1>4, <1>5

LEMMA BeginLooked ==
    ASSUME TypeOK, RequestsLooked, NEW h \in Handler, NEW op, NEW rows, NEW seen,
           Begin(h, op, rows, seen),
           op \in {"reschedule", "confirm"} =>
               \A i \in DOMAIN rows : /\ ~Blocked(rows[i].slot, closures)
                                      /\ op = "confirm" => rows[i].slot = schedule[i].slot
    PROVE  RequestsLooked'
<1>1. /\ UNCHANGED <<schedule, active, closures>>
      /\ pc'[h] = "loaded" /\ job'[h].op = op /\ job'[h].rows = rows /\ job'[h].layouts = active
      /\ \A k \in Handler \ {h} : pc'[k] = pc[k] /\ job'[k] = job[k]
  BY DEF Begin, TypeOK, config
<1>2. StillAvailable(h)'
  BY <1>1 DEF StillAvailable
<1>3. AnswerIsCurrent(h)'
  <2> SUFFICES ASSUME NEW i \in DOMAIN job'[h].rows, job'[h].op \in {"reschedule", "confirm"}
               PROVE  /\ ~Blocked(job'[h].rows[i].slot, closures')
                      /\ job'[h].op = "confirm" => job'[h].rows[i].slot = schedule'[i].slot
                      /\ job'[h].layouts = active' /\ pc'[h] # "checked"
    BY DEF AnswerIsCurrent
  <2>. QED  BY <1>1
<1>4. \A k \in {h} \cap Handler : pc'[k] # "idle" => StillAvailable(k)' /\ AnswerIsCurrent(k)'
  BY <1>2, <1>3
<1>. QED  BY <1>1, <1>4, LookedWithoutCommit

LEMMA BeginOneLooked ==
    ASSUME TypeOK, RequestsLooked, NEW h \in Handler, NEW op, NEW i \in DOMAIN schedule, NEW s, NEW to,
           NEW seen, Begin(h, op, Only(i, NewRow(s, to, "none")), seen),
           ~Blocked(s, closures), op = "confirm" => s = schedule[i].slot
    PROVE  RequestsLooked'
<1>1. PICK rows : rows = Only(i, NewRow(s, to, "none"))
  OBVIOUS
<1>2. DOMAIN rows = {i} /\ rows[i].slot = s
  BY <1>1 DEF Only, NewRow
<1>3. Begin(h, op, rows, seen)
  BY <1>1
<1>4. \A m \in DOMAIN rows : /\ ~Blocked(rows[m].slot, closures)
                             /\ op = "confirm" => rows[m].slot = schedule[m].slot
  BY <1>2
<1>. QED  BY <1>3, <1>4, BeginLooked

LEMMA CheckSlotLooked ==
    ASSUME TypeOK, RequestsLooked, NEW h \in Handler, CheckSlot(h)
    PROVE  RequestsLooked'
<1>1. /\ UNCHANGED <<schedule, active, closures>> /\ pc[h] = "loaded"
      /\ pc'[h] = "checked" /\ job'[h].op = job[h].op /\ job'[h].rows = job[h].rows
      /\ \A k \in Handler \ {h} : pc'[k] = pc[k] /\ job'[k] = job[k]
  BY DEF CheckSlot, TypeOK, IsJob, config
<1>2. Judged(job[h])' = Judged(job[h])
  BY <1>1 DEF Judged, Held
<1>3. \A n \in DOMAIN job[h].rows : FitsSomeLayout(Judged(job[h]), n, job[h].layouts)
  BY DEF CheckSlot, SlotAvailable
<1>4. StillAvailable(h)'
  <2>1. job[h].layouts \subseteq Layout
    BY DEF TypeOK, IsJob
  <2>2. \A n \in DOMAIN job[h].rows : FitsSomeLayout(Judged(job[h]), n, Layout)
    BY <1>3, <2>1 DEF FitsSomeLayout
  <2>. QED  BY <1>1, <1>2, <2>2 DEF StillAvailable
<1>5. AnswerIsCurrent(h)'
  <2>1. AnswerIsCurrent(h)
    BY <1>1 DEF RequestsLooked
  <2>. QED  BY <1>1, <1>2, <1>3, <2>1 DEF AnswerIsCurrent
<1>. QED  BY <1>1, <1>4, <1>5, LookedWithoutCommit

LEMMA LookedNext ==
    ASSUME TypeOK, RequestsLooked, Driver = "sqlite", [Next]_vars PROVE RequestsLooked'
<1>1. ASSUME NEW h \in Handler, HandlerStep(h) PROVE RequestsLooked'
  <2>1. CASE BeginCreate(h) \/ BeginPublicRequest(h) \/ BeginAppointment(h)
    <3>1. PICK rows : Begin(h, "insert", rows, "pending")
      BY <2>1 DEF BeginCreate, BeginPublicRequest, BeginAppointment, BeginInsert
    <3>. QED  BY <3>1, BeginLooked
  <2>2. CASE BeginEdit(h)
    <3>1. PICK i \in DOMAIN schedule, s \in Slot :
             Begin(h, "edit", Only(i, NewRow(s, "pending", "none")), "pending")
      BY <2>2 DEF BeginEdit
    <3>2. PICK rows : rows = Only(i, NewRow(s, "pending", "none"))
      OBVIOUS
    <3>. QED  BY <3>1, <3>2, BeginLooked
  <2>3. CASE BeginReschedule(h)
    <3>1. PICK i \in DOMAIN schedule, s \in Slot, to \in {"reschedule_pending", "confirmed"} :
             /\ ~Blocked(s, closures)
             /\ Begin(h, "reschedule", Only(i, NewRow(s, to, "none")), schedule[i].status)
      BY <2>3 DEF BeginReschedule, Bookable
    <3>. QED  BY <3>1, BeginOneLooked
  <2>4. CASE BeginConfirm(h)
    <3>1. PICK i \in DOMAIN schedule :
             /\ ~Blocked(schedule[i].slot, closures)
             /\ Begin(h, "confirm", Only(i, NewRow(schedule[i].slot, "confirmed", "none")),
                      schedule[i].status)
      BY <2>4 DEF BeginConfirm, Bookable
    <3>. QED  BY <3>1, BeginOneLooked
  <2>5. CASE CheckSlot(h)
    BY <2>5, CheckSlotLooked
  <2>6. CASE Commit(h)
    <3>1. End(Overtaken \cup {h}) /\ Overtaken \subseteq Overtaken \cup {h}
      BY <2>6 DEF Commit
    <3>. QED  BY <3>1, LookedAfterCommit
  <2>7. CASE Fail(h)
    <3>1. /\ UNCHANGED <<schedule, active, closures>> /\ pc'[h] = "idle"
          /\ \A k \in Handler \ {h} : pc'[k] = pc[k] /\ job'[k] = job[k]
      BY <2>7 DEF Fail, End, config
    <3>2. \A k \in {h} \cap Handler : pc'[k] # "idle" => StillAvailable(k)' /\ AnswerIsCurrent(k)'
      BY <3>1
    <3>. QED  BY <3>1, <3>2, LookedWithoutCommit
  <2>. QED  BY <1>1, <2>1, <2>2, <2>3, <2>4, <2>5, <2>6, <2>7 DEF HandlerStep
<1>2. ASSUME NEW i \in DOMAIN schedule, RowStep(i) PROVE RequestsLooked'
  BY <1>2, RowStepRow, LookedAfterCommit
<1>3. CASE ConfigStep \/ Tick \/ UNCHANGED vars
  <2>1. End(Overtaken) \/ UNCHANGED <<schedule, active, closures, pc, job>>
    BY <1>3 DEF ConfigStep, BeginLayoutEdit, CommitLayoutEdit, ChangeClosures, Tick, vars, config, request
  <2>2. CASE End(Overtaken)
    BY <2>2, LookedAfterCommit
  <2>3. CASE UNCHANGED <<schedule, active, closures, pc, job>>
    <3>1. \A k \in {} \cap Handler : pc'[k] # "idle" => StillAvailable(k)' /\ AnswerIsCurrent(k)'
      OBVIOUS
    <3>. QED  BY <2>3, <3>1, LookedWithoutCommit
  <2>. QED  BY <2>1, <2>2, <2>3
<1>. QED  BY <1>1, <1>2, <1>3 DEF Next

LEMMA LookedInvHolds == ASSUME Driver = "sqlite" PROVE Spec => []LookedInv
<1>1. Init => RequestsLooked
  BY DEF Init, RequestsLooked
<1>2. OwnInv /\ RequestsLooked /\ [Next]_vars => RequestsLooked'
  BY LookedNext DEF OwnInv
<1>. QED  BY <1>1, <1>2, OwnInvHolds, PTL DEF Spec, LookedInv

LEMMA CurrentHolds == ASSUME Driver = "sqlite" PROVE Spec => []IInv
<1>1. LookedInv => IInv
  BY DEF LookedInv, OwnInv, RequestsOwn, RequestsLooked, IInv, RequestsAreCurrent
<1>. QED  BY <1>1, LookedInvHolds, PTL

\* On SQLite what an open request has validated is still true: its ids are nobody
\* else's, its row is there, and its rows fit the court.
THEOREM RequestsStayCurrent == ASSUME Driver = "sqlite" PROVE Spec => []RequestsAreCurrent
<1>1. IInv => RequestsAreCurrent
  BY DEF IInv
<1>. QED  BY <1>1, CurrentHolds, PTL
----------------------------------------------------------------------------
(* On SQLite a confirmation is judged by the court as it is *)

LEMMA AnswersFit ==
    ASSUME LookedInv, Driver = "sqlite", TypeOK', NEW h \in Handler, Commit(h), NEW i \in DOMAIN schedule,
           schedule[i].status \in Awaiting, schedule'[i].status = "confirmed"
    PROVE  /\ ~Blocked(schedule'[i].slot, closures)
           /\ FitsSomeLayout(Held(schedule'), i, active)
<1>0. TypeOK /\ RequestsOwn /\ RequestsLooked /\ "confirmed" \notin Awaiting /\ Awaiting \subseteq Live
  BY DEF LookedInv, OwnInv, Awaiting, Live
<1>1. /\ job[h].op \in {"reschedule", "confirm"} /\ DOMAIN job[h].rows = {i}
      /\ schedule'[i].slot = IF job[h].op = "confirm" THEN schedule[i].slot ELSE job[h].rows[i].slot
      /\ DOMAIN schedule' = DOMAIN schedule
      /\ \A k \in DOMAIN schedule \ {i} : schedule'[k] = schedule[k]
      /\ schedule'[i].status \in Live
  BY <1>0, CommitRow
<1>2. AnswerIsCurrent(h) /\ pc[h] = "checked"
  BY <1>0 DEF RequestsLooked, Commit
<1>3. /\ ~Blocked(job[h].rows[i].slot, closures)
      /\ schedule'[i].slot = job[h].rows[i].slot
      /\ FitsSomeLayout(Judged(job[h]), i, active)
  BY <1>1, <1>2 DEF AnswerIsCurrent
<1>4. Held(schedule') = Judged(job[h])
  BY <1>0, <1>1, <1>3 DEF Held, Judged, Merge
<1>. QED  BY <1>3, <1>4

\* On SQLite a request is confirmed only in a slot that no closure covers and that
\* an active layout can host at the moment of the commit.
THEOREM ConfirmationsAreCurrent == ASSUME Driver = "sqlite" PROVE Spec => ConfirmationIsCurrent
<1>1. ASSUME LookedInv, LookedInv', [Next]_vars, NEW i \in DOMAIN schedule,
             schedule[i].status \in Awaiting, schedule'[i].status = "confirmed"
      PROVE  /\ ~Blocked(schedule'[i].slot, closures)
             /\ FitsSomeLayout(Held(schedule'), i, active)
  <2>1. TypeOK /\ TypeOK' /\ "confirmed" \notin Awaiting /\ schedule' # schedule
    BY <1>1 DEF LookedInv, OwnInv, Awaiting
  <2>2. ASSUME NEW k \in DOMAIN schedule, RowStep(k) PROVE FALSE
    <3>1. CASE k = i
      BY <1>1, <2>1, <2>2, <3>1, RowStepRow
    <3>2. CASE k # i
      BY <1>1, <2>1, <2>2, <3>2, RowStepRow
    <3>. QED  BY <3>1, <3>2
  <2>3. ~(ConfigStep \/ Tick \/ UNCHANGED vars)
    BY <2>1 DEF ConfigStep, BeginLayoutEdit, CommitLayoutEdit, ChangeClosures, Tick, vars
  <2>4. \E h \in Handler : Commit(h)
    BY <1>1, <2>1, <2>2, <2>3, WithoutCommit DEF Next
  <2>. QED  BY <1>1, <2>1, <2>4, AnswersFit
<1>2. LookedInv /\ LookedInv' /\ [Next]_vars =>
         [\A i \in DOMAIN schedule :
             schedule[i].status \in Awaiting /\ schedule'[i].status = "confirmed"
             => /\ ~Blocked(schedule'[i].slot, closures)
                /\ FitsSomeLayout(Held(schedule'), i, active)]_vars
  BY <1>1
<1>. QED  BY <1>2, LookedInvHolds, PTL DEF Spec, ConfirmationIsCurrent
----------------------------------------------------------------------------
(* The refinement: Held(schedule) evolves as CourtInventory allows *)

LEMMA SameRules ==
    ASSUME NEW f, NEW n
    PROVE  FitsSomeLayout(f, n, Layout) <=> Inventory!FitsSomeLayout(f, n, Layout)
<1>1. ASSUME NEW S, NEW a PROVE Usage(f, S, a) = Inventory!Usage(f, S, a)
  <2>1. Units(f, S, a) = Inventory!Units(f, S, a)
    BY DEF Units, Inventory!Units
  <2>. QED  BY <2>1 DEF Usage, Inventory!Usage, Cardinality, Inventory!Cardinality
<1>2. ASSUME NEW l, NEW S PROVE Supports(l, f, S) <=> Inventory!Supports(l, f, S)
  BY <1>1 DEF Supports, Inventory!Supports
<1>3. Sharing(f, n) = Inventory!Sharing(f, n)
  BY DEF Sharing, Inventory!Sharing, Overlap, Inventory!Overlap
<1>. QED  BY <1>2, <1>3 DEF FitsSomeLayout, Inventory!FitsSomeLayout

LEMMA HeldType ==
    ASSUME TypeOK
    PROVE  /\ DOMAIN Held(schedule) \subseteq Id
           /\ Held(schedule) \in [DOMAIN Held(schedule) -> Slot]
           /\ \A i : i \in DOMAIN Held(schedule) <=>
                      i \in DOMAIN schedule /\ schedule[i].status \in Live
           /\ \A i \in DOMAIN Held(schedule) : Held(schedule)[i] = schedule[i].slot
BY DEF TypeOK, IsTable, Row, Held

\* A step that changes one row's status or slot-independent columns releases
\* it or leaves the reservations alone.
LEMMA SameSlotStep ==
    ASSUME TypeOK, NEW i \in DOMAIN schedule, DOMAIN schedule' = DOMAIN schedule,
           \A k \in DOMAIN schedule \ {i} : schedule'[k] = schedule[k],
           schedule'[i].slot = schedule[i].slot,
           schedule'[i].status \in Live => schedule[i].status \in Live
    PROVE  [Inventory!Next]_(Held(schedule))
<1>1. CASE schedule[i].status \in Live /\ schedule'[i].status \notin Live
  <2>1. i \in DOMAIN Held(schedule) /\ i \in Id
    BY <1>1, HeldType
  <2>2. Held(schedule)' = [k \in DOMAIN Held(schedule) \ {i} |-> Held(schedule)[k]]
    BY <1>1 DEF Held
  <2>3. Inventory!Release(i)
    BY <2>1, <2>2 DEF Inventory!Release
  <2>. QED  BY <2>1, <2>3 DEF Inventory!Next
<1>2. CASE schedule[i].status \in Live <=> schedule'[i].status \in Live
  <2>1. Held(schedule)' = Held(schedule)
    BY <1>2 DEF Held
  <2>. QED  BY <2>1
<1>. QED  BY <1>1, <1>2

LEMMA RowStepRefines ==
    ASSUME TypeOK, NEW i \in DOMAIN schedule, RowStep(i)
    PROVE  [Inventory!Next]_(Held(schedule))
<1>0. schedule[i] \in Row
  BY RowFields
<1>1. ASSUME NEW row \in Row, SetRow(i, row), row.slot = schedule[i].slot,
             row.status \in Live => schedule[i].status \in Live
      PROVE  [Inventory!Next]_(Held(schedule))
  <2>1. /\ DOMAIN schedule' = DOMAIN schedule /\ schedule'[i] = row
        /\ \A k \in DOMAIN schedule \ {i} : schedule'[k] = schedule[k]
    BY <1>1 DEF SetRow
  <2>. QED  BY <1>1, <2>1, SameSlotStep
<1>2. ASSUME NEW to \in Status, SetStatus(i, to), to \in Live => schedule[i].status \in Live
      PROVE  [Inventory!Next]_(Held(schedule))
  <2>1. [schedule[i] EXCEPT !.status = to] \in Row
    BY <1>0 DEF Row
  <2>2. /\ [schedule[i] EXCEPT !.status = to].slot = schedule[i].slot
        /\ [schedule[i] EXCEPT !.status = to].status = to
    BY <1>0 DEF Row
  <2>. QED  BY <1>1, <1>2, <2>1, <2>2 DEF SetStatus
<1>3. \A to \in {"rejected", "expired", "cancelled", "completed", "no_show"} :
          to \in Status /\ to \notin Live
  BY DEF Status, Live, Awaiting, Final
<1>4. "held" \in Status /\ Awaiting \subseteq Live
  BY DEF Status, Live, Awaiting
<1>5. ASSUME NEW to \in {"completed", "cancelled"}, FinishAppointment(i, to)
      PROVE  [Inventory!Next]_(Held(schedule))
  <2> DEFINE row == [schedule[i] EXCEPT !.status = to, !.appointment = to]
  <2>1. row \in Row /\ row.slot = schedule[i].slot /\ row.status = to
    BY <1>0, <1>3 DEF Row
  <2>. QED  BY <1>1, <1>3, <1>5, <2>1 DEF FinishAppointment
<1>6. ASSUME NEW paid \in BOOLEAN, SetRow(i, [schedule[i] EXCEPT !.paid = paid])
      PROVE  [Inventory!Next]_(Held(schedule))
  <2> DEFINE row == [schedule[i] EXCEPT !.paid = paid]
  <2>1. row \in Row /\ row.slot = schedule[i].slot /\ row.status = schedule[i].status
    BY <1>0 DEF Row
  <2>. QED  BY <1>1, <1>6, <2>1
<1>. QED  BY <1>2, <1>3, <1>4, <1>5, <1>6
          DEF RowStep, Decide, Expire, CancelBooking, FinishBooking, CollectPayment, VoidPayments

LEMMA JudgedFits ==
    ASSUME RequestsAreCurrent, Driver = "sqlite", NEW h \in Handler, Commit(h)
    PROVE  \A n \in DOMAIN job[h].rows : Inventory!FitsSomeLayout(Judged(job[h]), n, Layout)
<1>1. StillAvailable(h) /\ pc[h] = "checked"
  BY DEF RequestsAreCurrent, Commit
<1>. QED  BY <1>1, SameRules DEF StillAvailable

LEMMA InsertRefines ==
    ASSUME IInv, IInv', Driver = "sqlite", NEW h \in Handler, Commit(h), job[h].op = "insert"
    PROVE  [Inventory!Next]_(Held(schedule))
<1> DEFINE rows == job[h].rows
<1>0. TypeOK /\ RequestsAreCurrent /\ TypeOK'
  BY DEF IInv
<1>1. OwnIds(h)
  BY <1>0 DEF RequestsAreCurrent, Commit
<1>2. DOMAIN rows \cap DOMAIN schedule = {} /\ \A i \in DOMAIN rows : rows[i].status \in Live
  BY <1>1 DEF OwnIds
<1>3. schedule' = Merge(schedule, rows)
  BY DEF Commit
<1>4. Held(schedule)' = Judged(job[h])
  BY <1>2, <1>3 DEF Held, Judged, Merge
<1>5. DOMAIN Held(schedule)' = DOMAIN Held(schedule) \cup DOMAIN rows
  BY <1>2, <1>4 DEF Judged, Merge, Held
<1>6. Held(schedule)' \in [DOMAIN Held(schedule) \cup DOMAIN rows -> Slot]
  <2>1. Held(schedule)' \in [DOMAIN Held(schedule)' -> Slot]
    BY <1>0 DEF TypeOK, IsTable, Row, Held
  <2>. QED  BY <1>5, <2>1
<1>7. \A i \in DOMAIN Held(schedule) : Held(schedule)'[i] = Held(schedule)[i]
  BY <1>2, <1>4 DEF Judged, Merge, Held
<1>8. \A n \in DOMAIN rows : Inventory!FitsSomeLayout(Held(schedule)', n, Layout)
  BY <1>0, <1>4, JudgedFits
<1>9. DOMAIN rows \in SUBSET Id /\ DOMAIN rows \cap DOMAIN Held(schedule) = {}
  BY <1>0, <1>2 DEF TypeOK, IsJob, IsTable, Held
<1>10. Inventory!Reserve(DOMAIN rows)
  BY <1>6, <1>7, <1>8, <1>9 DEF Inventory!Reserve, Inventory!Slot, Slot
<1>. QED  BY <1>9, <1>10 DEF Inventory!Next

\* An edit or a reschedule moves its row, if the row is live.
LEMMA MoveRefines ==
    ASSUME IInv, IInv', Driver = "sqlite", NEW h \in Handler, Commit(h),
           job[h].op \in {"edit", "reschedule"}
    PROVE  [Inventory!Next]_(Held(schedule))
<1> DEFINE rows == job[h].rows
<1>0. TypeOK /\ RequestsAreCurrent /\ TypeOK' /\ job[h].op # "insert" /\ Awaiting \subseteq Live
  BY DEF IInv, Live
<1>1. PICK i \in DOMAIN schedule : DOMAIN rows = {i} /\ rows[i].status \in Live
  BY <1>0 DEF RequestsAreCurrent, Commit, OwnRow
<1>2. /\ MayWrite(job[h], i) /\ DOMAIN schedule' = DOMAIN schedule
      /\ \A k \in DOMAIN schedule \ {i} : schedule'[k] = schedule[k]
      /\ schedule'[i] = Written(job[h].op, schedule[i], rows[i])
  BY <1>0, <1>1 DEF Commit
<1>3. /\ schedule'[i].slot = rows[i].slot
      /\ schedule[i].status \in Live <=> schedule'[i].status \in Live
  <2>1. schedule[i] \in Row
    BY <1>0, <1>1, RowFields
  <2>2. CASE job[h].op = "edit"
    BY <1>2, <2>1, <2>2 DEF Written, Row
  <2>3. CASE job[h].op = "reschedule"
    <3>1. schedule[i].status \in Awaiting
      BY <1>0, <1>1, <1>2, <2>3 DEF MayWrite, RequestsAreCurrent, Commit, OwnRow
    <3>2. schedule'[i].slot = rows[i].slot /\ schedule'[i].status = rows[i].status
      BY <1>2, <2>1, <2>3 DEF Written, Row
    <3>. QED  BY <1>0, <1>1, <3>1, <3>2
  <2>. QED  BY <2>2, <2>3
<1>4. CASE schedule[i].status \in Live
  <2>1. Held(schedule)' = Judged(job[h])
    BY <1>1, <1>2, <1>3, <1>4 DEF Held, Judged, Merge
  <2>2. DOMAIN Held(schedule)' = DOMAIN Held(schedule)
    BY <1>2, <1>3, <1>4 DEF Held
  <2>3. Held(schedule)' \in [DOMAIN Held(schedule)' -> Slot]
    BY <1>0 DEF TypeOK, IsTable, Row, Held
  <2>4. \A k \in DOMAIN Held(schedule) \ {i} : Held(schedule)'[k] = Held(schedule)[k]
    BY <1>2 DEF Held
  <2>5. Inventory!FitsSomeLayout(Held(schedule)', i, Layout)
    BY <1>0, <1>1, <2>1, JudgedFits
  <2>6. i \in DOMAIN Held(schedule) /\ i \in Id
    BY <1>0, <1>1, <1>4, HeldType
  <2>7. Inventory!Move(i)
    BY <2>2, <2>3, <2>4, <2>5, <2>6 DEF Inventory!Move, Inventory!Slot, Slot
  <2>. QED  BY <2>6, <2>7 DEF Inventory!Next
<1>5. CASE schedule[i].status \notin Live
  <2>1. Held(schedule)' = Held(schedule)
    BY <1>2, <1>3, <1>5 DEF Held
  <2>. QED  BY <2>1
<1>. QED  BY <1>4, <1>5

LEMMA ConfirmRefines ==
    ASSUME IInv, NEW h \in Handler, Commit(h), job[h].op = "confirm"
    PROVE  [Inventory!Next]_(Held(schedule))
<1>0. TypeOK /\ RequestsAreCurrent /\ Awaiting \subseteq Live
  BY DEF IInv, Live
<1>1. PICK i \in DOMAIN schedule : DOMAIN job[h].rows = {i} /\ job[h].seen \in Awaiting
  BY <1>0 DEF RequestsAreCurrent, Commit, OwnRow
<1>2. /\ MayWrite(job[h], i) /\ DOMAIN schedule' = DOMAIN schedule
      /\ \A k \in DOMAIN schedule \ {i} : schedule'[k] = schedule[k]
      /\ schedule'[i] = Written("confirm", schedule[i], job[h].rows[i])
  BY <1>1 DEF Commit
<1>3. schedule[i].status \in Live
  BY <1>0, <1>1, <1>2 DEF MayWrite
<1>4. schedule'[i].slot = schedule[i].slot
  <2>1. schedule[i] \in Row
    BY <1>0, <1>1, RowFields
  <2>. QED  BY <1>2, <2>1 DEF Written, Row
<1>. QED  BY <1>0, <1>2, <1>3, <1>4, SameSlotStep

LEMMA StepRefines ==
    ASSUME IInv, IInv', Driver = "sqlite", [Next]_vars
    PROVE  [Inventory!Next]_(Held(schedule))
<1>0. TypeOK
  BY DEF IInv
<1>1. ASSUME NEW h \in Handler, Commit(h) PROVE [Inventory!Next]_(Held(schedule))
  <2>1. job[h].op \in Op
    BY <1>0 DEF TypeOK, IsJob
  <2>. QED  BY <1>1, <2>1, InsertRefines, MoveRefines, ConfirmRefines DEF Op
<1>2. ASSUME schedule' = schedule PROVE [Inventory!Next]_(Held(schedule))
  BY <1>2 DEF Held
<1>3. ASSUME NEW h \in Handler, HandlerStep(h) PROVE [Inventory!Next]_(Held(schedule))
  <2>1. Commit(h) \/ schedule' = schedule
    BY <1>3 DEF HandlerStep, BeginCreate, BeginPublicRequest, BeginAppointment, BeginInsert,
                BeginEdit, BeginReschedule, BeginConfirm, Begin, CheckSlot, Fail
  <2>. QED  BY <1>1, <1>2, <2>1
<1>4. ConfigStep \/ Tick \/ UNCHANGED vars => schedule' = schedule
  BY DEF ConfigStep, BeginLayoutEdit, CommitLayoutEdit, ChangeClosures, Tick, vars
<1>. QED  BY <1>0, <1>2, <1>3, <1>4, RowStepRefines DEF Next

LEMMA InitRefines == Init => Inventory!Init
BY DEF Init, NoRows, Held, Inventory!Init

\* On SQLite the handlers implement atomic reservation.
THEOREM Refinement ==
    ASSUME Driver = "sqlite" PROVE Spec => ReservesAtomically
<1>1. IInv /\ IInv' /\ [Next]_vars => [Inventory!Next]_(Held(schedule))
  BY StepRefines
<1>. QED  BY <1>1, InitRefines, CurrentHolds, PTL DEF Spec, ReservesAtomically, Inventory!Spec

\* The rules of the court are the same wherever CourtSlots is instantiated.
LEMMA CourtSupports ==
    ASSUME NEW f, NEW l, NEW S PROVE Supports(l, f, S) <=> Court!Supports(l, f, S)
<1>1. ASSUME NEW a PROVE Usage(f, S, a) = Court!Usage(f, S, a)
  <2>1. Units(f, S, a) = Court!Units(f, S, a)
    BY DEF Units, Court!Units
  <2>. QED  BY <2>1 DEF Usage, Court!Usage, Cardinality, Court!Cardinality
<1>. QED  BY <1>1 DEF Supports, Court!Supports

LEMMA SameStep == [Inventory!Next]_(Held(schedule)) => [Court!Next]_(Held(schedule))
<1>1. ASSUME NEW f, NEW n
      PROVE  FitsSomeLayout(f, n, Layout) <=> Court!FitsSomeLayout(f, n, Layout)
  <2>1. Sharing(f, n) = Court!Sharing(f, n)
    BY DEF Sharing, Court!Sharing, Overlap, Court!Overlap
  <2>. QED  BY <2>1, CourtSupports DEF FitsSomeLayout, Court!FitsSomeLayout
<1>2. ASSUME NEW f, NEW n
      PROVE  Inventory!FitsSomeLayout(f, n, Layout) <=> Court!FitsSomeLayout(f, n, Layout)
  BY <1>1, SameRules
<1>3. Inventory!Slot = Court!Slot
  BY DEF Inventory!Slot, Court!Slot
<1>4. ASSUME NEW S, Inventory!Reserve(S) PROVE Court!Reserve(S)
  BY <1>2, <1>3, <1>4 DEF Inventory!Reserve, Court!Reserve
<1>5. ASSUME NEW n, Inventory!Move(n) PROVE Court!Move(n)
  BY <1>2, <1>3, <1>5 DEF Inventory!Move, Court!Move
<1>6. ASSUME NEW n, Inventory!Release(n) PROVE Court!Release(n)
  BY <1>6 DEF Inventory!Release, Court!Release
<1>. QED  BY <1>4, <1>5, <1>6 DEF Inventory!Next, Court!Next

LEMMA SameInvariant == Court!NoOverbooking => NoOverbooking
BY CourtSupports DEF NoOverbooking, Court!NoOverbooking, OnCourt, Court!OnCourt

\* On SQLite no half hour is ever overbooked.
THEOREM NeverOverbooked ==
    ASSUME Driver = "sqlite" PROVE Spec => []NoOverbooking
<1>1. Inventory!Init => Court!Init
  BY DEF Inventory!Init, Court!Init
<1>2. ReservesAtomically => Court!Spec
  BY <1>1, SameStep, PTL DEF ReservesAtomically, Inventory!Spec, Court!Spec
<1>3. Court!Spec => [](Court!TypeOK /\ Court!NoOverbooking)
  <2>1. Court!SlotsAssumption
    BY SlotsAssumption
       DEF SlotsAssumption, Court!SlotsAssumption, IsFiniteSet, Court!IsFiniteSet
  <2>. QED  BY <2>1, Court!InventoryNeverOverbooked, PTL
<1>. QED  BY <1>2, <1>3, Refinement, SameInvariant, PTL
=============================================================================
