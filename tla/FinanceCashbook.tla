--------------------------- MODULE FinanceCashbook ---------------------------
(***************************************************************************)
(* The cash book: income and expenses, transfers, opening balances,        *)
(* adjustments, cash counts, the accounts they are kept in and the lock of *)
(* a period.  A form is what an operation key (finance_operation_keys) is  *)
(* made of: user, accounts, amount, date and texts.                        *)
(*                                                                         *)
(* Posting asks the period lock, opens its transaction, reads the account, *)
(* reserves the key, reads a balance if it needs one and inserts; voiding  *)
(* and approving ask the lock inside their transaction.                    *)
(***************************************************************************)
EXTENDS Transactions, FiniteSetsExt

CONSTANTS
    Account,  \* finance_accounts of one division, all of cash
    System,   \* those with is_system = 1
    LastDay,  \* today
    LockDates,  \* bound: dates a period is locked until, 0 for none
    Forms,    \* entries that are filled in
    Counts    \* cash counts that are filled in

VARIABLES
    account,      \* finance_accounts: active, opening (opening_balance)
    book,         \* finance_transactions by the form they were posted with
    counted,      \* cash_reconciliations by the form they were posted with
    lockedUntil   \* finance_period_locks; 0 for none

cashbook == <<account, book, counted, lockedUntil>>
----------------------------------------------------------------------------
Date == 1 .. LastDay

\* createFinanceTransactionHandler: an expense is negative, either may be left
\* for approval.
ManualForm == [kind : {"manual"}, from : Account, amount : Int \ {0}, day : Date,
               pending : BOOLEAN, note : STRING]

\* createFinanceTransferHandler
TransferForm == {f \in [kind : {"transfer"}, from : Account, to : Account, amount : Nat \ {0},
                        day : Date, note : STRING] : f.from # f.to}

\* createFinanceOpeningBalanceHandler
OpeningForm == [kind : {"opening"}, from : Account, amount : Int \ {0}, day : Date, note : STRING]

\* createFinanceAdjustmentHandler
AdjustmentForm == [kind : {"adjustment"}, from : Account, amount : Int \ {0}, day : Date,
                   note : STRING]

\* createCashReconciliationHandler
CountForm == [account : Account, day : Date, amount : Int]

ASSUME CashbookAssumption ==
    /\ System \subseteq Account /\ LastDay \in Nat \ {0} /\ LockDates \subseteq 0 .. LastDay
    /\ Counts \subseteq CountForm
    /\ \A f \in Forms : f \in ManualForm \/ f \in TransferForm \/ f \in OpeningForm
                                         \/ f \in AdjustmentForm

\* copies: how often the form was inserted
Entry == [status : {"pending", "approved", "void"}, copies : Nat]

AccountsOf(f) == IF f.kind = "transfer" THEN {f.from, f.to} ELSE {f.from}

\* What the entry f adds to the account a
Effect(f, a) ==
    IF a \notin AccountsOf(f) THEN 0
    ELSE IF f.kind = "transfer" /\ a = f.from THEN -f.amount ELSE f.amount

\* listFinanceBalancesInclude
Posted(b) == {f \in DOMAIN b : b[f].status = "approved"}

\* financeAccountBalanceAsOfTx
BalanceAsOf(b, a, day) ==
    MapThenSumSet(LAMBDA f : Effect(f, a) * b[f].copies, {f \in Posted(b) : f.day <= day})

\* financeAccountBalanceTx
Balance(b, a) == MapThenSumSet(LAMBDA f : Effect(f, a) * b[f].copies, Posted(b))

OpeningsOf(b, a) == {f \in Posted(b) : f.kind = "opening" /\ f.from = a}

\* syncFinanceAccountOpeningBalanceMetadataTx: the latest of them
Opening(b, a) ==
    IF OpeningsOf(b, a) = {} THEN 0
    ELSE (CHOOSE f \in OpeningsOf(b, a) : \A g \in OpeningsOf(b, a) : g.day <= f.day).amount

\* Mutant of Unlocked: the last day of the lock is open.
UnlockedBefore(day) == day >= lockedUntil

\* ensureFinanceDateUnlocked, ensureFinanceDateUnlockedTx
Unlocked(day) == day > lockedUntil

CashbookInit ==
    /\ account = [a \in Account |-> [active |-> TRUE, opening |-> 0]]
    /\ book = [f \in {} |-> 0]
    /\ counted = [c \in {} |-> 0]
    /\ lockedUntil = 0

\* Every commit ends the transactions it overtakes; a form that has only asked
\* the period lock has no transaction yet.
Commit(R) == End(Overtaken({"asked"}) \cup R)

Keep == UNCHANGED cashbook
----------------------------------------------------------------------------
(* Posting *)

Ask(r, f) ==
    /\ Unlocked(f.day)
    /\ Look(r, [op |-> "asked", form |-> f])
    /\ Keep

\* Mutant of Reserved: the operation key is not looked up.
ReservedAlways(r, f) == TRUE

\* reserveFinanceOperationTx: a key that has been used, ever, is answered with
\* the entry it made; on PostgreSQL one in use keeps the second waiting.
Reserved(r, f) ==
    /\ f \notin DOMAIN book \cup DOMAIN counted
    /\ driver = "postgres" => \A k \in Request \ {r} : tx[k].op = "post" => tx[k].form # f

\* createManualFinanceTransactionForAccountWithApprovalInDivision
MayPostManual(f) == f.kind = "manual" /\ account[f.from].active

\* createFinanceTransfer
MayTransfer(f) ==
    /\ f.kind = "transfer"
    /\ f.to \in DOMAIN account
    /\ account[f.from].active /\ account[f.to].active
    /\ Balance(book, f.from) >= f.amount

\* createFinanceOpeningBalance
MayOpen(f) ==
    /\ f.kind = "opening"
    /\ account[f.from].active
    /\ OpeningsOf(book, f.from) = {}

\* createFinanceAdjustment
MayAdjust(f) == f.kind = "adjustment" /\ account[f.from].active

LookToPost(r) ==
    /\ tx[r].op = "asked"
    /\ tx[r].form \in Forms /\ tx[r].form.from \in DOMAIN account
    /\ LET f == tx[r].form IN
        /\ Reserved(r, f)
        /\ MayPostManual(f) \/ MayTransfer(f) \/ MayOpen(f) \/ MayAdjust(f)
        /\ tx' = [tx EXCEPT ![r] = [op |-> "post", form |-> f]]
    /\ UNCHANGED driver
    /\ Keep

\* On PostgreSQL the metadata is read before another opening commits, or after.
OpeningSeen(b, f, own) ==
    {Opening(b, f.from)} \cup IF driver = "postgres" THEN {own} ELSE {}

\* insertFinanceTransactionTx and the commit
Post(r) ==
    LET f == tx[r].form
        first == [status |-> IF f.kind = "manual" /\ f.pending THEN "pending" ELSE "approved",
                  copies |-> 1]
        copy == IF f \in DOMAIN book THEN [book[f] EXCEPT !.copies = @ + 1] ELSE first
    IN
    /\ tx[r].op = "post"
    /\ AccountsOf(f) \subseteq DOMAIN account
    /\ book' = Put(book, f, copy)
    /\ \E seen \in OpeningSeen(book', f, f.amount) :
          account' = IF f.kind = "opening" THEN [account EXCEPT ![f.from].opening = seen]
                     ELSE account
    /\ Commit({r})
    /\ UNCHANGED <<counted, lockedUntil>>

\* A key that has been used: nothing is written.
Answer(r) ==
    /\ tx[r].op = "asked"
    /\ tx[r].form \in DOMAIN book \cup DOMAIN counted
    /\ End({r})
    /\ Keep

AskToCount(r, c) ==
    /\ Unlocked(c.day)
    /\ Look(r, [op |-> "asked", form |-> c])
    /\ Keep

\* createCashReconciliation: what the books say at the end of that day is read
\* before the key is reserved.
LookToCount(r) ==
    LET c == tx[r].form IN
    /\ tx[r].op = "asked" /\ c \in Counts
    /\ c.account \in DOMAIN account
    /\ Reserved(r, c)
    /\ tx' = [tx EXCEPT ![r] = [op |-> "count", form |-> c,
                                expected |-> BalanceAsOf(book, c.account, c.day)]]
    /\ UNCHANGED driver
    /\ Keep

\* UNIQUE (finance_account_id, reconciliation_date) WHERE voided_at IS NULL
RecordCount(r) ==
    LET c == tx[r].form IN
    /\ tx[r].op = "count"
    /\ c.account \in DOMAIN account
    /\ \A d \in DOMAIN counted \ {c} :
          ~counted[d].void => ~(d.account = c.account /\ d.day = c.day)
    /\ counted' = Put(counted, c, [expected |-> tx[r].expected, void |-> FALSE])
    /\ Commit({r})
    /\ UNCHANGED <<account, book, lockedUntil>>
----------------------------------------------------------------------------
(* Voiding and approving *)

\* The entry is loaded before the transaction begins; all else is read in it.
LookToVoid(r, f) ==
    /\ book[f].status # "void" /\ Unlocked(f.day)
    /\ Look(r, [op |-> "void", form |-> f])
    /\ Keep

\* voidFinanceTransactionHandler; a second void on PostgreSQL changes no row.
VoidEntry(r) ==
    LET f == tx[r].form IN
    /\ tx[r].op = "void" /\ f.kind # "transfer"
    /\ book' = [book EXCEPT ![f].status = "void"]
    /\ \E seen \in OpeningSeen(book', f, 0) :
          account' = IF f.kind = "opening" THEN [account EXCEPT ![f.from].opening = seen]
                     ELSE account
    /\ Commit({r})
    /\ UNCHANGED <<counted, lockedUntil>>

\* voidFinanceTransferGroupExpected: both sides
VoidTransfer(r) ==
    /\ tx[r].op = "void" /\ tx[r].form.kind = "transfer"
    /\ book' = [book EXCEPT ![tx[r].form].status = "void"]
    /\ Commit({r})
    /\ UNCHANGED <<account, counted, lockedUntil>>

LookToApprove(r, f) ==
    /\ book[f].status = "pending" /\ Unlocked(f.day)
    /\ Look(r, [op |-> "approve", form |-> f])
    /\ Keep

\* approveFinanceTransaction: the UPDATE asks for a pending one again.
Approve(r) ==
    /\ tx[r].op = "approve"
    /\ book[tx[r].form].status = "pending"
    /\ book' = [book EXCEPT ![tx[r].form].status = "approved"]
    /\ Commit({r})
    /\ UNCHANGED <<account, counted, lockedUntil>>

LookToVoidCount(r, c) ==
    /\ ~counted[c].void /\ Unlocked(c.day)
    /\ Look(r, [op |-> "void count", form |-> c])
    /\ Keep

\* voidCashReconciliation
VoidCount(r) ==
    /\ tx[r].op = "void count"
    /\ counted' = [counted EXCEPT ![tx[r].form].void = TRUE]
    /\ Commit({r})
    /\ UNCHANGED <<account, book, lockedUntil>>
----------------------------------------------------------------------------
(* Accounts and the lock *)

\* createFinanceAccount; names and codes are unique.
CreateAccount(a) ==
    /\ a \notin DOMAIN account
    /\ account' = Put(account, a, [active |-> TRUE, opening |-> 0])
    /\ Commit({})
    /\ UNCHANGED <<book, counted, lockedUntil>>

Entries(a) == {f \in DOMAIN book : a \in AccountsOf(f)}

LookToDeactivate(r, a) ==
    /\ a \notin System /\ account[a].active /\ Entries(a) = {}
    /\ Look(r, [op |-> "deactivate", account |-> a])
    /\ Keep

\* updateFinanceAccount: an account with entries is not deactivated.
Deactivate(r) ==
    /\ tx[r].op = "deactivate" /\ tx[r].account \in DOMAIN account
    /\ account' = [account EXCEPT ![tx[r].account].active = FALSE]
    /\ Commit({r})
    /\ UNCHANGED <<book, counted, lockedUntil>>

Activate(a) ==
    /\ ~account[a].active
    /\ account' = [account EXCEPT ![a].active = TRUE]
    /\ Commit({})
    /\ UNCHANGED <<book, counted, lockedUntil>>

\* deleteFinanceAccount up to its DELETE
MayDeleteAccount(a) ==
    /\ a \notin System
    /\ Entries(a) = {}
    /\ \A c \in DOMAIN counted : c.account # a

LookToDeleteAccount(r, a) ==
    /\ MayDeleteAccount(a)
    /\ Look(r, [op |-> "delete account", account |-> a])
    /\ Keep

DeleteAccount(r) ==
    LET a == tx[r].account IN
    /\ tx[r].op = "delete account" /\ a \in DOMAIN account
    /\ account' = [b \in DOMAIN account \ {a} |-> account[b]]
    /\ Commit({r})
    /\ UNCHANGED <<book, counted, lockedUntil>>

\* updateFinancePeriodLock: one statement, to any date or none
SetLock(day) ==
    /\ day # lockedUntil
    /\ lockedUntil' = day
    /\ Commit({})
    /\ UNCHANGED <<account, book, counted>>

CashbookNext ==
    \/ \E r \in Request :
        \/ \E f \in Forms : Ask(r, f)
        \/ \E c \in Counts : AskToCount(r, c)
        \/ LookToPost(r) \/ Post(r) \/ Answer(r) \/ LookToCount(r) \/ RecordCount(r)
        \/ \E f \in DOMAIN book : LookToVoid(r, f) \/ LookToApprove(r, f)
        \/ VoidEntry(r) \/ VoidTransfer(r) \/ Approve(r)
        \/ \E c \in DOMAIN counted : LookToVoidCount(r, c)
        \/ VoidCount(r)
        \/ \E a \in DOMAIN account : LookToDeactivate(r, a) \/ LookToDeleteAccount(r, a)
        \/ Deactivate(r) \/ DeleteAccount(r)
    \/ \E a \in Account : CreateAccount(a)
    \/ \E a \in DOMAIN account : Activate(a)
    \/ \E day \in LockDates : SetLock(day)
----------------------------------------------------------------------------
CashbookTypeOK ==
    /\ DOMAIN account \subseteq Account
    /\ account \in [DOMAIN account -> [active : BOOLEAN, opening : Int]]
    /\ DOMAIN book \subseteq Forms /\ book \in [DOMAIN book -> Entry]
    /\ DOMAIN counted \subseteq Counts
    /\ counted \in [DOMAIN counted -> [expected : Int, void : BOOLEAN]]
    /\ lockedUntil \in LockDates \cup {0}

\* A form that is sent again, by a double click or a retry, while the first is
\* still being served or long after it was voided, is entered once.
EnteredOnce == \A f \in DOMAIN book : book[f].copies = 1

\* On SQLite the opening balance an account shows is that of the one entry in
\* force, through voiding and replacing it.
OpeningAgrees ==
    driver = "sqlite" =>
        \A a \in DOMAIN account :
            /\ Cardinality(OpeningsOf(book, a)) <= 1
            /\ \A f \in OpeningsOf(book, a) : account[a].opening = f.amount
            /\ OpeningsOf(book, a) = {} => account[a].opening = 0

\* On SQLite an account with any entry, void or not, is there and active, however
\* posting races with deactivating and deleting it.
HistoryKeepsItsAccount ==
    driver = "sqlite" =>
        \A f \in DOMAIN book :
            \A a \in AccountsOf(f) : a \in DOMAIN account /\ account[a].active

\* "transfer amount exceeds the available balance": on SQLite no transfer takes
\* its account below zero, whatever is entered, voided or approved meanwhile.
TransfersAreCovered ==
    [][driver = "sqlite" =>
          \A f \in DOMAIN book' \ DOMAIN book :
              f.kind = "transfer" => Balance(book', f.from) >= 0]_<<tx, cashbook>>

\* On SQLite an entry of a locked day is neither approved nor voided, whenever it
\* is locked.  (An entry that had asked before may still appear.)
LockedEntriesStay ==
    [][driver = "sqlite" =>
          \A f \in DOMAIN book :
              f.day <= lockedUntil => book'[f].status = book[f].status]_<<tx, cashbook>>

\* On SQLite a cash count is held against what the books say of that day at the
\* moment it is recorded.
CountedAgainstTheBooks ==
    [][driver = "sqlite" =>
          \A c \in DOMAIN counted' \ DOMAIN counted :
              counted'[c].expected = BalanceAsOf(book', c.account, c.day)]_<<tx, cashbook>>

\* What the accounts say is what the entries say: EnteredOnce, OpeningAgrees and
\* HistoryKeepsItsAccount hold.
BooksAgree == EnteredOnce /\ OpeningAgrees /\ HistoryKeepsItsAccount

\* An entry is made on what holds when it is made, and is settled afterwards:
\* LockedEntriesStay, TransfersAreCovered and CountedAgainstTheBooks hold.
EntriesAreSettled == LockedEntriesStay /\ TransfersAreCovered /\ CountedAgainstTheBooks
=============================================================================
