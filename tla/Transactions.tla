---------------------------- MODULE Transactions ----------------------------
(***************************************************************************)
(* How requests share the database, for the modules that put the handlers  *)
(* of the back office on top of it.  A request looks (it reads what it     *)
(* decides on) and later commits (one or several writes that appear        *)
(* together).  Which driver runs is settled when the server starts, so a   *)
(* run covers both.                                                        *)
(*                                                                         *)
(*  - On SQLite a transaction that has read fails at its first write once  *)
(*    another one has committed; the failure is taken at that commit.      *)
(*  - On PostgreSQL, at READ COMMITTED, it goes on with what it has read;  *)
(*    only a row it has locked is sure not to change meanwhile.            *)
(***************************************************************************)
EXTENDS Integers, FiniteSets

CONSTANT Request  \* requests served at the same time

VARIABLES
    driver,  \* DB_DRIVER
    tx       \* what each open request carries

\* A table, or any function, with the row v at x
Put(f, x, v) == [y \in DOMAIN f \cup {x} |-> IF y = x THEN v ELSE f[y]]

Idle == [op |-> "idle"]

IsOpen(r) == tx[r].op # "idle"

InitRequests ==
    /\ driver \in {"sqlite", "postgres"}
    /\ tx = [r \in Request |-> Idle]

\* The request r has read what j says.
Look(r, j) ==
    /\ ~IsOpen(r)
    /\ tx' = [tx EXCEPT ![r] = j]
    /\ UNCHANGED driver

\* It goes on with j.
Proceed(r, j) == tx' = [tx EXCEPT ![r] = j] /\ UNCHANGED driver

\* Outside: the operations whose reads are not part of their transaction.
Overtaken(Outside) ==
    IF driver = "sqlite" THEN {r \in Request : tx[r].op \notin Outside} ELSE {}

\* The requests R have committed, or failed for good.
End(R) ==
    /\ tx' = [r \in Request |-> IF r \in R THEN Idle ELSE tx[r]]
    /\ UNCHANGED driver

\* Any error, a lost connection or a stop of the process rolls back.
GiveUp(r) == IsOpen(r) /\ End({r})
=============================================================================
