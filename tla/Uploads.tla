------------------------------- MODULE Uploads -------------------------------
(***************************************************************************)
(* The files that students and events own: a photo and the image of the QR *)
(* code of a student, the image of an event.  A handler saves the new      *)
(* files, then writes the row, then removes the files that the row named   *)
(* before; a request that is refused removes its own new files.  The file  *)
(* system takes no part in the transaction, and the process may stop       *)
(* between any two of these steps.                                         *)
(*                                                                         *)
(* File names are random: no two uploads share one.  The number of a       *)
(* student stands for the part of it after the year.                       *)
(***************************************************************************)
EXTENDS Transactions

CONSTANTS
    Pupil,      \* admissions.id
    Show,       \* events.id
    MaxNumber,  \* bound: student numbers of the year
    MaxFiles    \* bound: files there are at a time

ASSUME UploadsAssumption ==
    MaxNumber \in Nat \ {0} /\ MaxFiles \in Nat /\ Pupil \cap Show = {} /\ 0 \notin Pupil \cup Show

VARIABLES
    pupils,   \* admissions: number, photo_path and qr_code_path; no file is 0
    shows,    \* events: image_path
    files,    \* the files on disk: the number a QR code says, 0 for an image
    tangled   \* history variable: rows that two requests have edited at once

uploads == <<pupils, shows, files, tangled>>
----------------------------------------------------------------------------
Numbers(P) == {P[p].number : p \in DOMAIN P}

Named == {pupils[p].photo : p \in DOMAIN pupils} \cup {pupils[p].qr : p \in DOMAIN pupils}
         \cup {shows[s] : s \in DOMAIN shows}
         \cup UNION {tx[r].named : r \in {r \in Request : IsOpen(r)}}

\* The name of a new file, and of one that is saved after the file f
Unused(F) == CHOOSE f \in 1 .. MaxFiles + 2 :
                 f \notin F /\ \A g \in 1 .. f - 1 : g \in F
NewFile  == Unused(Named \cup DOMAIN files)
After(f) == Unused(Named \cup DOMAIN files \cup {f})

\* saveStudentPhoto, saveStudentQRCode, saveEventImage; 0 is no file.
With(F, f, says) ==
    [g \in (DOMAIN F \cup {f}) \ {0} |-> IF g = f THEN says ELSE F[g]]

\* deleteStudentAsset, deleteEventImage: a file that is gone is no error.
Removed(F) == [f \in DOMAIN files \ F |-> files[f]]

Images(f) == {f} \ {0}

Drop(f, x) == [y \in DOMAIN f \ {x} |-> f[y]]

\* A file that no row and no request names any more is not followed.
Forgotten == files' = [f \in DOMAIN files \cap Named' |-> files[f]]

UploadsInit ==
    /\ pupils = [p \in {} |-> 0] /\ shows = [s \in {} |-> 0] /\ files = [f \in {} |-> 0]
    /\ tangled = {}

\* Another request has read the row x and not finished with it.
Shared(x) == {x} \cap ({tx[r].id : r \in {r \in Request : IsOpen(r)}} \ {0})

\* A request to the row id, which is to name the files now
Reads(r, op, id, row, now, new, old) ==
    /\ Look(r, [op |-> op, id |-> id, row |-> row, new |-> new, old |-> old,
                named |-> now \cup new \cup old])
    /\ tangled' = tangled \cup Shared(id)
    /\ UNCHANGED <<pupils, shows>>
----------------------------------------------------------------------------
(* Students *)

\* The row is written: what it named before is still to go.
ToTidy(r) == Proceed(r, [op |-> "tidy", id |-> tx[r].id, old |-> tx[r].old, named |-> tx[r].old])

\* nextStudentID
NextNumber == CHOOSE n \in 1 .. MaxNumber + 1 :
                  n - 1 \in Numbers(pupils) \cup {0} /\ \A m \in Numbers(pupils) : m < n

\* createAdmissionHandler up to createAdmissionWithOptionalPayment
LookToAdmit(r, hasPhoto) ==
    LET photo == IF hasPhoto THEN NewFile ELSE 0
        qr    == After(photo)
    IN
    /\ NextNumber <= MaxNumber /\ qr <= MaxFiles
    /\ files' = With(With(files, photo, 0), qr, NextNumber)
    /\ Reads(r, "admit", 0, [number |-> NextNumber, photo |-> photo, qr |-> qr],
             {}, Images(photo) \cup {qr}, {})

\* createAdmissionWithOptionalPaymentAt; admissions.student_id is UNIQUE.
Admit(r, p) ==
    LET j == tx[r] IN
    /\ j.op = "admit"
    /\ p \notin DOMAIN pupils /\ Shared(p) = {}
    /\ j.row.number \notin Numbers(pupils)
    /\ pupils' = Put(pupils, p, j.row)
    /\ End({r})
    /\ UNCHANGED <<shows, files, tangled>>

\* Mutant of Superseded: the photo counts as replaced whether or not it is.
SupersededAlways(was, row) == {was.photo, was.qr} \ {0, row.qr}

\* What updateAdmissionHandler removes at the end
Superseded(was, row) == {was.photo, was.qr} \ {0, row.photo, row.qr}

\* updateAdmissionHandler up to updateAdmissionWithOptionalPayment: the QR code is
\* made anew for a new number.
LookToEdit(r, p, number, hasPhoto) ==
    LET was   == pupils[p]
        photo == IF hasPhoto THEN NewFile ELSE 0
        qr    == IF number = was.number THEN 0 ELSE After(photo)
        row   == [number |-> number, photo |-> IF hasPhoto THEN photo ELSE was.photo,
                  qr |-> IF qr = 0 THEN was.qr ELSE qr]
    IN
    /\ photo <= MaxFiles /\ qr <= MaxFiles
    /\ files' = With(With(files, photo, 0), qr, number)
    /\ Reads(r, "edit", p, row, {row.photo, row.qr}, Images(photo) \cup Images(qr),
             Superseded(was, row))

\* updateAdmissionWithOptionalPayment
EditPupil(r) ==
    LET j == tx[r] IN
    /\ j.op = "edit" /\ j.id \in DOMAIN pupils
    /\ j.row.number \notin Numbers(Drop(pupils, j.id))
    /\ pupils' = [pupils EXCEPT ![j.id] = j.row]
    /\ ToTidy(r)
    /\ UNCHANGED <<shows, files, tangled>>

\* deleteAdmission; its files stay.
DeletePupil(p) ==
    /\ pupils' = Drop(pupils, p)
    /\ UNCHANGED <<driver, tx, shows, tangled>>
    /\ Forgotten
----------------------------------------------------------------------------
(* Events *)

\* createEventHandler and updateEventHandler up to their write; image is the new
\* file, or 0
LookToPublish(r, s, image, remove) ==
    LET was == IF s \in DOMAIN shows THEN shows[s] ELSE 0
        now == IF image # 0 THEN image ELSE IF remove THEN 0 ELSE was
    IN
    /\ remove => image = 0 /\ was # 0
    /\ image <= MaxFiles
    /\ files' = With(files, image, 0)
    /\ Reads(r, IF s \in DOMAIN shows THEN "change" ELSE "publish",
             IF s \in DOMAIN shows THEN s ELSE 0, now, {now}, Images(image), {was} \ {0, now})

\* createEvent
Publish(r, s) ==
    /\ tx[r].op = "publish"
    /\ s \notin DOMAIN shows /\ Shared(s) = {}
    /\ shows' = Put(shows, s, tx[r].row)
    /\ End({r})
    /\ UNCHANGED <<pupils, files, tangled>>

\* updateEvent, which does not mind that the event is gone
EditEvent(r) ==
    LET j == tx[r] IN
    /\ j.op = "change"
    /\ shows' = IF j.id \in DOMAIN shows THEN Put(shows, j.id, j.row) ELSE shows
    /\ ToTidy(r)
    /\ UNCHANGED <<pupils, tangled>>
    /\ Forgotten

\* deleteEventHandler up to its DELETE
LookToRemoveEvent(r, s) ==
    /\ Reads(r, "remove", s, 0, {}, {}, Images(shows[s]))
    /\ UNCHANGED files

RemoveEvent(r) ==
    /\ tx[r].op = "remove"
    /\ shows' = Drop(shows, tx[r].id)
    /\ ToTidy(r)
    /\ UNCHANGED <<pupils, files, tangled>>
----------------------------------------------------------------------------
\* The last lines of updateAdmissionHandler, updateEventHandler, deleteEventHandler
Tidy(r) ==
    /\ tx[r].op = "tidy"
    /\ files' = Removed(tx[r].old)
    /\ End({r})
    /\ UNCHANGED <<pupils, shows, tangled>>

\* validateAdmission, validateEvent or the write refuses: what was saved goes.
Refuse(r) ==
    /\ tx[r].op \in {"admit", "edit", "publish", "change"}
    /\ files' = Removed(tx[r].new)
    /\ End({r})
    /\ UNCHANGED <<pupils, shows, tangled>>

\* The process stops, or the removal fails: files that nobody names may remain.
Stop(r) == GiveUp(r) /\ UNCHANGED <<pupils, shows, tangled>> /\ Forgotten

AnyNext(r) == Tidy(r) \/ Refuse(r) \/ Stop(r)

PupilsNext ==
    \/ \E r \in Request, hasPhoto \in BOOLEAN :
        \/ LookToAdmit(r, hasPhoto)
        \/ \E p \in DOMAIN pupils, n \in 1 .. MaxNumber : LookToEdit(r, p, n, hasPhoto)
    \/ \E p \in DOMAIN pupils : DeletePupil(p)
    \/ \E r \in Request : (\E p \in Pupil : Admit(r, p)) \/ EditPupil(r) \/ AnyNext(r)

EventsNext ==
    \E r \in Request :
        \/ \E s \in Show, image \in {0, NewFile}, remove \in BOOLEAN :
              LookToPublish(r, s, image, remove)
        \/ \E s \in DOMAIN shows : LookToRemoveEvent(r, s)
        \/ (\E s \in Show : Publish(r, s)) \/ EditEvent(r) \/ RemoveEvent(r) \/ AnyNext(r)
----------------------------------------------------------------------------
UploadsTypeOK ==
    /\ DOMAIN pupils \subseteq Pupil
    /\ \A p \in DOMAIN pupils :
          pupils[p] \in [number : 1 .. MaxNumber, photo : 0 .. MaxFiles, qr : 1 .. MaxFiles]
    /\ DOMAIN shows \subseteq Show /\ \A s \in DOMAIN shows : shows[s] \in 0 .. MaxFiles
    /\ DOMAIN files \subseteq 1 .. MaxFiles /\ \A f \in DOMAIN files : files[f] \in 0 .. MaxNumber
    /\ tangled \subseteq Pupil \cup Show

\* Wherever a request is refused or the process stops, and whoever else is at
\* work: the photo, the QR code and the image that a row names are on disk, the
\* QR code says the number of its student, and no two students share a number.
\* Two edits of one row at a time are left out: the later one may write back a
\* path whose file the first one has removed.
FilesStand ==
    /\ \A p \in DOMAIN pupils \ tangled :
          /\ Images(pupils[p].photo) \subseteq DOMAIN files
          /\ pupils[p].qr \in DOMAIN files /\ files[pupils[p].qr] = pupils[p].number
    /\ \A s \in DOMAIN shows \ tangled : Images(shows[s]) \subseteq DOMAIN files
    /\ Cardinality(Numbers(pupils)) = Cardinality(DOMAIN pupils)
=============================================================================
