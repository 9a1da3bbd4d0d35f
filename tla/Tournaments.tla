----------------------------- MODULE Tournaments -----------------------------
(***************************************************************************)
(* The money of one tournament: its entry fees, which are one finance      *)
(* transaction that changes with the number of participants, and its       *)
(* sponsorships, payments to officials and expenses, each with one that    *)
(* may be voided.                                                          *)
(*                                                                         *)
(* Each form asks the period lock before it opens its transaction; voiding *)
(* asks it inside.                                                         *)
(***************************************************************************)
EXTENDS Transactions, Sequences, FiniteSetsExt

CONSTANTS
    Incomes,      \* participant_count times entry_fee
    Amounts,      \* amounts of the other entries
    BookDays,     \* dates of an entry, and of the period lock
    MaxItems,     \* bound: sponsorships, payments and expenses
    MaxPostings   \* bound: finance transactions

ASSUME TournamentsAssumption ==
    /\ Incomes \subseteq Nat /\ Amounts \subseteq Nat \ {0} /\ BookDays \subseteq Nat \ {0}
    /\ MaxItems \in Nat /\ MaxPostings \in Nat

VARIABLES
    tournament,  \* tournaments: made, income, posting (its transaction; 0 for none)
    items,       \* tournament_sponsorships, _official_payments and _expenses
    postings,    \* finance_transactions of the tournament, by id
    closedUntil  \* finance_period_locks; 0 for none

tournaments == <<tournament, items, postings, closedUntil>>
----------------------------------------------------------------------------
ItemKind == {"sponsorship", "official_payment", "expense"}

Signed(kind, amount) == IF kind = "sponsorship" THEN amount ELSE -amount

\* createTournamentHandler and updateTournamentHandler
TournamentForm == [kind : {"create", "update"}, amount : Incomes, day : BookDays]

\* createTournamentSponsorshipHandler
SponsorshipForm == [kind : {"sponsorship"}, amount : Amounts, day : BookDays]

\* createTournamentOfficialPaymentHandler
OfficialForm == [kind : {"official_payment"}, amount : Amounts, day : BookDays]

\* createTournamentExpenseHandler
ExpenseForm == [kind : {"expense"}, amount : Amounts, day : BookDays]

TournamentForms == TournamentForm \cup SponsorshipForm \cup OfficialForm \cup ExpenseForm

Standing == {p \in DOMAIN postings : ~postings[p].voided}

TotalOf(kind) ==
    MapThenSumSet(LAMBDA i : items[i].amount,
                  {i \in DOMAIN items : items[i].kind = kind /\ items[i].posting \in Standing})

\* buildTournamentFinancialSummary
Net ==
    tournament.income + TotalOf("sponsorship") - (TotalOf("official_payment") + TotalOf("expense"))

TournamentsInit ==
    /\ tournament = [made |-> FALSE, income |-> 0, posting |-> 0]
    /\ items = <<>>
    /\ postings = <<>>
    /\ closedUntil = 0

Posting(amount, day) == [amount |-> amount, day |-> day, voided |-> FALSE]

\* A form that has only asked has no transaction yet.
CommitTournament(R) == End(Overtaken({"form"}) \cup R)
----------------------------------------------------------------------------
\* ensureFinanceDateUnlocked, of the date on the form
FillIn(r, f) ==
    /\ (f.kind = "create") = ~tournament.made
    /\ f.day > closedUntil
    /\ Look(r, [op |-> "form", form |-> f])
    /\ UNCHANGED tournaments

Room == Len(postings) < MaxPostings

\* createTournament
CreateTournament(r) ==
    LET f == tx[r].form IN
    /\ tx[r].op = "form" /\ f.kind = "create" /\ ~tournament.made
    /\ f.amount > 0 => Room
    /\ tournament' = [made |-> TRUE, income |-> f.amount,
                      posting |-> IF f.amount > 0 THEN Len(postings) + 1 ELSE 0]
    /\ postings' = IF f.amount > 0 THEN Append(postings, Posting(f.amount, f.day)) ELSE postings
    /\ CommitTournament({r})
    /\ UNCHANGED <<items, closedUntil>>

\* loadTournamentBaseTx
LoadTournament(r) ==
    /\ tx[r].op = "form" /\ tx[r].form.kind = "update"
    /\ Proceed(r, [op |-> "update", form |-> tx[r].form, posting |-> tournament.posting])
    /\ UNCHANGED tournaments

Updates(r, f, posting) ==
    /\ tx[r].op = "update"
    /\ tournament' = [made |-> TRUE, income |-> f.amount, posting |-> posting]
    /\ CommitTournament({r})
    /\ UNCHANGED <<items, closedUntil>>

\* updateFinanceTransactionForTournamentTx: whatever the date it had
Repost(r) ==
    LET f == tx[r].form
        p == tx[r].posting
    IN
    /\ Updates(r, f, p)
    /\ f.amount > 0 /\ p # 0 /\ ~postings[p].voided
    /\ postings' = [postings EXCEPT ![p] = Posting(f.amount, f.day)]

\* updateTournament of one without a transaction
FirstPost(r) ==
    LET f == tx[r].form IN
    /\ Updates(r, f, IF f.amount > 0 THEN Len(postings) + 1 ELSE 0)
    /\ tx[r].posting = 0
    /\ f.amount > 0 => Room
    /\ postings' = IF f.amount > 0 THEN Append(postings, Posting(f.amount, f.day)) ELSE postings

\* Mutant of Unpost: the transaction is only forgotten.
UnpostForgotten(r) ==
    /\ Updates(r, tx[r].form, 0)
    /\ tx[r].form.amount = 0 /\ tx[r].posting # 0
    /\ UNCHANGED postings

\* updateTournament when no income is left: voidFinanceTransactionTx
Unpost(r) ==
    LET p == tx[r].posting IN
    /\ Updates(r, tx[r].form, 0)
    /\ tx[r].form.amount = 0 /\ p # 0
    /\ ~postings[p].voided /\ postings[p].day > closedUntil
    /\ postings' = [postings EXCEPT ![p].voided = TRUE]

\* What the three forms of an item have in common
Records(r, kind) ==
    LET f == tx[r].form IN
    /\ tx[r].op = "form" /\ f.kind = kind
    /\ tournament.made /\ Room /\ Len(items) < MaxItems
    /\ items' = Append(items, [kind |-> kind, amount |-> f.amount, posting |-> Len(postings) + 1])
    /\ postings' = Append(postings, Posting(Signed(kind, f.amount), f.day))
    /\ CommitTournament({r})
    /\ UNCHANGED <<tournament, closedUntil>>

\* createTournamentSponsorship
RecordSponsorship(r) == Records(r, "sponsorship")

\* createTournamentOfficialPayment
RecordOfficial(r) == Records(r, "official_payment")

\* createTournamentExpense
RecordExpense(r) == Records(r, "expense")

\* voidTournamentFinanceRecordExpected up to its UPDATE; on PostgreSQL a second
\* void changes no row.
LookToVoidItem(r, i) ==
    /\ ~postings[items[i].posting].voided
    /\ postings[items[i].posting].day > closedUntil
    /\ Look(r, [op |-> "void item", posting |-> items[i].posting])
    /\ UNCHANGED tournaments

\* voidTournamentFinanceRecordHandler
VoidItem(r) ==
    /\ tx[r].op = "void item"
    /\ postings' = [postings EXCEPT ![tx[r].posting].voided = TRUE]
    /\ CommitTournament({r})
    /\ UNCHANGED <<tournament, items, closedUntil>>

\* updateFinancePeriodLock
CloseBooks(day) ==
    /\ day # closedUntil
    /\ closedUntil' = day
    /\ CommitTournament({})
    /\ UNCHANGED <<tournament, items, postings>>

TournamentsNext ==
    \/ \E r \in Request :
        \/ \E f \in TournamentForms : FillIn(r, f)
        \/ CreateTournament(r) \/ LoadTournament(r)
        \/ Repost(r) \/ FirstPost(r) \/ Unpost(r)
        \/ RecordSponsorship(r) \/ RecordOfficial(r) \/ RecordExpense(r)
        \/ \E i \in DOMAIN items : LookToVoidItem(r, i)
        \/ VoidItem(r)
        \/ GiveUp(r) /\ UNCHANGED tournaments
    \/ \E day \in BookDays \cup {0} : CloseBooks(day)
----------------------------------------------------------------------------
TournamentsTypeOK ==
    /\ tournament \in [made : BOOLEAN, income : Incomes \cup {0}, posting : 0 .. MaxPostings]
    /\ Len(items) <= MaxItems
    /\ \A i \in DOMAIN items : items[i] \in [kind : ItemKind, amount : Amounts,
                                             posting : 1 .. MaxPostings]
    /\ Len(postings) <= MaxPostings
    /\ \A p \in DOMAIN postings : postings[p] \in [amount : Int, day : BookDays, voided : BOOLEAN]
    /\ closedUntil \in BookDays \cup {0}

\* What the page of a tournament shows as its net income is what the finance
\* ledger holds for it, on SQLite: however entry fees appear, change and go, and
\* entries are voided.
TournamentAgrees ==
    driver = "sqlite" =>
        Net = MapThenSumSet(LAMBDA p : postings[p].amount, Standing)
=============================================================================
