\* Two people keep the books of one division, the money of one tournament, or
\* the catalogue.
SPECIFICATION Spec
CONSTANTS
    Request = {r1, r2}
    cash = cash
    till = till
    Account = {cash, till}
    System = {cash}
    LastDay = 2
    LockDates = {0, 1}
    Forms <- MCForms
    Counts <- MCCounts
    Incomes = {0, 3}
    Amounts = {1}
    BookDays = {1, 2}
    MaxItems = 1
    MaxPostings = 2
    GameName = {"n1", "n2"}
    SlugOf <- MCSlugOf
    SeededGame = "n1"
    LayoutForms <- MCLayouts
    MaxGames = 2
    MaxCourts = 1
    MaxLayouts = 2
    MaxRules = 1
    MaxOfferings = 1
    MaxProgrammes = 1
    MaxEdits = 3
SYMMETRY RequestSymmetry
INVARIANTS TypeOK BooksAgree TournamentAgrees CatalogueResolves
PROPERTY EntriesAreSettled
