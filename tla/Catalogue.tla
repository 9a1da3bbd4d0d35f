------------------------------ MODULE Catalogue ------------------------------
(***************************************************************************)
(* What the booking pages and the price list are made of: the games, the   *)
(* activities, layouts and closures of a court, the pricing rules, the     *)
(* one-to-one offerings and the training programmes.                       *)
(*                                                                         *)
(* The rows name each other by the game's activity (a slug), which is not  *)
(* a foreign key, so every operation looks first and writes in another     *)
(* statement: what it relies on may be gone by then, on either driver.     *)
(* Operations that look at nothing that another one changes are one step.  *)
(***************************************************************************)
EXTENDS Transactions, Sequences, Functions

CONSTANTS
    GameName,     \* names a game may have
    SlugOf,       \* normalizeGameActivitySlug of each
    SeededGame,   \* the one there is at first
    LayoutForms,  \* what a layout may be filled in with
    MaxGames,     \* bound: games ever
    MaxCourts,    \* bound: quantity of an activity
    MaxLayouts,   \* bound: layouts of the court
    MaxRules,     \* bound: pricing rules
    MaxOfferings, \* bound: offerings ever
    MaxProgrammes, \* bound: programmes ever
    MaxEdits      \* bound: writes

ASSUME CatalogueAssumption ==
    /\ SlugOf \in [GameName -> STRING]
    /\ \A n \in GameName : SlugOf[n] \notin {"training", ""}
    /\ SeededGame \in GameName
    /\ [s \in {SlugOf[SeededGame]} |-> MaxCourts] \in LayoutForms
    /\ MaxGames \in Nat \ {0} /\ MaxCourts \in Nat \ {0} /\ MaxLayouts \in Nat
    /\ MaxRules \in Nat /\ MaxOfferings \in Nat /\ MaxProgrammes \in Nat
    /\ MaxEdits \in Nat

VARIABLES
    games,       \* games by id
    gamesEver,   \* ids are AUTOINCREMENT
    courtOpen,   \* the court is active
    activities,  \* court_activities by slug: UNIQUE(court_id, activity)
    layouts,     \* court_layouts by id, with their items
    closures,    \* activities that court_closures name; "" is the whole court
    rules,       \* pricing_rules: UNIQUE(activity, quantity)
    offerings,   \* one_to_one_offerings by id: the game each one names
    offeredEver,
    taken,       \* offerings that one_to_one_bookings refer to
    programmes,  \* training_programs of sports by id: UNIQUE(division, name)
    programmesEver,
    studied,     \* programmes that student_enrollments refer to
    edits,       \* writes so far
    overlapped   \* history variable: two operations overlapped

lessons == <<programmes, programmesEver, studied>>
catalogue == <<games, gamesEver, courtOpen, activities, layouts, closures, rules, offerings,
               offeredEver, taken, lessons, edits, overlapped>>
----------------------------------------------------------------------------
Slug == Range(SlugOf)
AnyActivity == Slug \cup {"training"}

SeededItems == [s \in {SlugOf[SeededGame]} |-> MaxCourts]

\* An operation begins; it overlaps those that are open.
Begin(r, j) ==
    /\ Look(r, j)
    /\ overlapped' = (overlapped \/ \E q \in Request : IsOpen(q))
    /\ UNCHANGED edits

Edit == edits < MaxEdits /\ edits' = edits + 1

Finish(r) == End({r}) /\ Edit /\ UNCHANGED overlapped

\* An operation of one step
AtOnce ==
    /\ overlapped' = (overlapped \/ \E q \in Request : IsOpen(q))
    /\ Edit
    /\ UNCHANGED <<driver, tx>>

ActiveLayouts == {l \in DOMAIN layouts : layouts[l].active}

LayoutQuantity(s) ==
    LET held == {layouts[l].items[s] : l \in {l \in ActiveLayouts : s \in DOMAIN layouts[l].items}}
    IN  CHOOSE q \in held \cup {0} : \A p \in held : p <= q

\* bookingOptionCatalog of activeBookingConfiguration: what is offered
Offered ==
    {o \in Slug \X (1 .. MaxCourts) :
        /\ courtOpen /\ o[1] \in DOMAIN activities /\ activities[o[1]].active
        /\ o[2] <= LayoutQuantity(o[1]) /\ o[2] <= activities[o[1]].max}

\* activeBookingConfiguration fails when nothing is configured.
IsConfigured == courtOpen /\ ActiveLayouts # {}

\* seedCourtManager, and the migration that makes a game of every activity: here
\* of one.
CatalogueInit ==
    LET s == SlugOf[SeededGame] IN
    /\ games = [g \in {1} |-> [name |-> SeededGame, slug |-> s, active |-> TRUE]]
    /\ gamesEver = 1 /\ courtOpen = TRUE
    /\ activities = [a \in {s, "training"} |->
                        IF a = s THEN [game |-> 1, max |-> MaxCourts, active |-> TRUE]
                                 ELSE [game |-> 0, max |-> 1, active |-> TRUE]]
    /\ layouts = [l \in {1} |-> [items |-> SeededItems, active |-> TRUE]]
    /\ closures = {} /\ rules = {}
    /\ offerings = <<>> /\ offeredEver = 0 /\ taken = {}
    /\ programmes = <<>> /\ programmesEver = 0 /\ studied = {}
    /\ edits = 0 /\ overlapped = FALSE
----------------------------------------------------------------------------
(* Games *)

NameFree(n, g) == \A h \in DOMAIN games \ {g} : games[h].name # n

\* createGameHandler; a game, once it is renamed, keeps its first slug, and both
\* are UNIQUE.
CreateGame(n) ==
    LET g == gamesEver + 1 IN
    /\ IsConfigured /\ g <= MaxGames /\ NameFree(n, g)
    /\ \A h \in DOMAIN games : games[h].slug # SlugOf[n]
    /\ games' = Put(games, g, [name |-> n, slug |-> SlugOf[n], active |-> TRUE])
    /\ gamesEver' = g
    /\ AtOnce
    /\ UNCHANGED <<courtOpen, activities, layouts, closures, rules, offerings, offeredEver, taken, lessons>>

Renamed(game, n, active) == [game EXCEPT !.name = n, !.active = active]

\* updateGameHandler
UpdateGame(g, n, active) ==
    /\ IsConfigured /\ NameFree(n, g)
    /\ games' = [games EXCEPT ![g] = Renamed(games[g], n, active)]
    /\ AtOnce
    /\ UNCHANGED <<gamesEver, courtOpen, activities, layouts, closures, rules, offerings,
                   offeredEver, taken, lessons>>

\* The count of deleteGame: offerings only
GameUnused(g) == \A o \in DOMAIN offerings : offerings[o] # games[g].slug

LookToDeleteGame(r, g) ==
    /\ GameUnused(g)
    /\ Begin(r, [op |-> "delete game", game |-> g])
    /\ UNCHANGED <<games, gamesEver, courtOpen, activities, layouts, closures, rules, offerings,
                   offeredEver, taken, lessons>>

DeleteGame(r) ==
    /\ tx[r].op = "delete game" /\ tx[r].game \in DOMAIN games
    /\ games' = Restrict(games, DOMAIN games \ {tx[r].game})
    /\ Finish(r)
    /\ UNCHANGED <<gamesEver, courtOpen, activities, layouts, closures, rules, offerings,
                   offeredEver, taken, lessons>>
----------------------------------------------------------------------------
(* The court: its activities *)

\* createCourtActivityHandler: the form names a game (courtActivityFromRequest) or
\* is for training.
LookToCreateActivity(r, g, max) ==
    /\ g \in DOMAIN games \cup {0}
    /\ Begin(r, [op |-> "create activity",
                 slug |-> IF g = 0 THEN "training" ELSE games[g].slug,
                 row |-> [game |-> g, max |-> max, active |-> TRUE]])
    /\ UNCHANGED <<games, gamesEver, courtOpen, activities, layouts, closures, rules, offerings,
                   offeredEver, taken, lessons>>

CreateActivity(r) ==
    /\ tx[r].op = "create activity" /\ tx[r].slug \notin DOMAIN activities
    /\ activities' = Put(activities, tx[r].slug, tx[r].row)
    /\ Finish(r)
    /\ UNCHANGED <<games, gamesEver, courtOpen, layouts, closures, rules, offerings, offeredEver,
                   taken, lessons>>

\* updateCourtActivityHandler: the layouts are not looked at.
UpdateActivity(s, max, active) ==
    /\ activities' = [activities EXCEPT ![s].max = max, ![s].active = active]
    /\ AtOnce
    /\ UNCHANGED <<games, gamesEver, courtOpen, layouts, closures, rules, offerings, offeredEver,
                   taken, lessons>>

\* updateCourtActivityGameHandler: the slug of the activity stays.
RelinkActivity(s, g) ==
    /\ g \in DOMAIN games \cup {0} /\ (g # 0 => s # "training")
    /\ activities' = [activities EXCEPT ![s].game = g]
    /\ AtOnce
    /\ UNCHANGED <<games, gamesEver, courtOpen, layouts, closures, rules, offerings, offeredEver,
                   taken, lessons>>

\* Mutant of ActivityUnused: the layouts are not looked at.
ActivityUnusedByLayouts(s) == s \notin closures /\ \A p \in rules : p.slug # s

\* The counts of deleteCourtActivity; space_schedules are left out.
ActivityUnused(s) ==
    /\ \A l \in DOMAIN layouts : s \notin DOMAIN layouts[l].items
    /\ s \notin closures
    /\ \A p \in rules : p.slug # s

LookToDeleteActivity(r, s) ==
    /\ ActivityUnused(s)
    /\ Begin(r, [op |-> "delete activity", slug |-> s])
    /\ UNCHANGED <<games, gamesEver, courtOpen, activities, layouts, closures, rules, offerings,
                   offeredEver, taken, lessons>>

DeleteActivity(r) ==
    /\ tx[r].op = "delete activity" /\ tx[r].slug \in DOMAIN activities
    /\ activities' = Restrict(activities, DOMAIN activities \ {tx[r].slug})
    /\ Finish(r)
    /\ UNCHANGED <<games, gamesEver, courtOpen, layouts, closures, rules, offerings, offeredEver,
                   taken, lessons>>

\* updateCourtHandler
UpdateCourt ==
    /\ courtOpen' = ~courtOpen
    /\ AtOnce
    /\ UNCHANGED <<games, gamesEver, activities, layouts, closures, rules, offerings, offeredEver,
                   taken, lessons>>
----------------------------------------------------------------------------
(* Its layouts *)

\* validateCourtLayout
IsLayout(items) ==
    /\ items # <<>>
    /\ \A s \in DOMAIN items :
          s \in DOMAIN activities /\ activities[s].active /\ items[s] <= activities[s].max

\* createCourtLayout and updateCourtLayout up to their writes
LookToSaveLayout(r, l, items, active) ==
    /\ IsLayout(items)
    /\ l \in DOMAIN layouts /\ ~active => ActiveLayouts \ {l} # {}
    /\ Begin(r, [op |-> IF l \in DOMAIN layouts THEN "update layout" ELSE "create layout",
                 id |-> l, row |-> [items |-> items, active |-> active]])
    /\ UNCHANGED <<games, gamesEver, courtOpen, activities, layouts, closures, rules, offerings,
                   offeredEver, taken, lessons>>

SaveLayout(r) ==
    LET j == tx[r] IN
    /\ \/ j.op = "create layout" /\ j.id \notin DOMAIN layouts
       \/ j.op = "update layout" /\ j.id \in DOMAIN layouts
    /\ layouts' = Put(layouts, j.id, j.row)
    /\ Finish(r)
    /\ UNCHANGED <<games, gamesEver, courtOpen, activities, closures, rules, offerings, offeredEver,
                   taken, lessons>>

\* The counts of toggleCourtLayout and deleteCourtLayout
MayTakeAway(l) == layouts[l].active => ActiveLayouts # {l}

LookToToggleLayout(r, l) ==
    /\ MayTakeAway(l)
    /\ Begin(r, [op |-> "toggle layout", id |-> l, active |-> ~layouts[l].active])
    /\ UNCHANGED <<games, gamesEver, courtOpen, activities, layouts, closures, rules, offerings,
                   offeredEver, taken, lessons>>

ToggleLayout(r) ==
    /\ tx[r].op = "toggle layout" /\ tx[r].id \in DOMAIN layouts
    /\ layouts' = [layouts EXCEPT ![tx[r].id].active = tx[r].active]
    /\ Finish(r)
    /\ UNCHANGED <<games, gamesEver, courtOpen, activities, closures, rules, offerings, offeredEver,
                   taken, lessons>>

LookToDeleteLayout(r, l) ==
    /\ MayTakeAway(l)
    /\ Begin(r, [op |-> "delete layout", id |-> l])
    /\ UNCHANGED <<games, gamesEver, courtOpen, activities, layouts, closures, rules, offerings,
                   offeredEver, taken, lessons>>

DeleteLayout(r) ==
    /\ tx[r].op = "delete layout" /\ tx[r].id \in DOMAIN layouts
    /\ layouts' = Restrict(layouts, DOMAIN layouts \ {tx[r].id})
    /\ Finish(r)
    /\ UNCHANGED <<games, gamesEver, courtOpen, activities, closures, rules, offerings, offeredEver,
                   taken, lessons>>
----------------------------------------------------------------------------
(* Closures and prices *)

\* validateCourtClosure
MayClose(s) == s # "" => s \in DOMAIN activities /\ activities[s].active

\* createCourtClosure and updateCourtClosure (which takes the place of another
\* one) up to their write
LookToSaveClosure(r, old, s) ==
    /\ MayClose(s)
    /\ Begin(r, [op |-> "save closure", old |-> old, slug |-> s])
    /\ UNCHANGED <<games, gamesEver, courtOpen, activities, layouts, closures, rules, offerings,
                   offeredEver, taken, lessons>>

SaveClosure(r) ==
    /\ tx[r].op = "save closure" /\ tx[r].old \subseteq closures
    /\ closures' = (closures \ tx[r].old) \cup {tx[r].slug}
    /\ Finish(r)
    /\ UNCHANGED <<games, gamesEver, courtOpen, activities, layouts, rules, offerings, offeredEver,
                   taken, lessons>>

\* deleteCourtClosure
DeleteClosure(s) ==
    /\ closures' = closures \ {s}
    /\ AtOnce
    /\ UNCHANGED <<games, gamesEver, courtOpen, activities, layouts, rules, offerings, offeredEver,
                   taken, lessons>>

\* createPricingHandler and updatePricingHandler (which takes the place of
\* another rule)
LookToPrice(r, old, g, quantity) ==
    /\ <<games[g].slug, quantity>> \in Offered
    /\ Begin(r, [op |-> "price", old |-> old,
                 rule |-> [game |-> g, slug |-> games[g].slug, quantity |-> quantity]])
    /\ UNCHANGED <<games, gamesEver, courtOpen, activities, layouts, closures, rules, offerings,
                   offeredEver, taken, lessons>>

\* An UPDATE of a rule that is gone changes nothing.
Price(r) ==
    LET rest == rules \ tx[r].old
        new  == tx[r].rule
    IN
    /\ tx[r].op = "price"
    /\ \A p \in rest : p.slug # new.slug \/ p.quantity # new.quantity
    /\ IF tx[r].old \subseteq rules
       THEN Cardinality(rest) < MaxRules /\ rules' = rest \cup {new}
       ELSE UNCHANGED rules
    /\ Finish(r)
    /\ UNCHANGED <<games, gamesEver, courtOpen, activities, layouts, closures, offerings,
                   offeredEver, taken, lessons>>

\* deletePricingHandler
DeletePrice(p) ==
    /\ rules' = rules \ {p}
    /\ AtOnce
    /\ UNCHANGED <<games, gamesEver, courtOpen, activities, layouts, closures, offerings,
                   offeredEver, taken, lessons>>
----------------------------------------------------------------------------
(* One-to-one offerings *)

\* validateOneToOneOffering
IsOffering(g) ==
    /\ IsConfigured /\ games[g].active
    /\ \E s \in DOMAIN activities : activities[s].active /\ activities[s].game = g

\* createOneToOneOfferingHandler and updateOneToOneOfferingHandler up to their write
LookToOffer(r, o, g) ==
    /\ IsOffering(g)
    /\ Begin(r, [op |-> "offer", id |-> o, slug |-> games[g].slug])
    /\ UNCHANGED <<games, gamesEver, courtOpen, activities, layouts, closures, rules, offerings,
                   offeredEver, taken, lessons>>

\* o = 0 is a new one.
Offer(r) ==
    LET o == IF tx[r].id = 0 THEN offeredEver + 1 ELSE tx[r].id IN
    /\ tx[r].op = "offer" /\ o <= MaxOfferings
    /\ tx[r].id # 0 => tx[r].id \in DOMAIN offerings
    /\ offerings' = Put(offerings, o, tx[r].slug)
    /\ offeredEver' = IF tx[r].id = 0 THEN o ELSE offeredEver
    /\ Finish(r)
    /\ UNCHANGED <<games, gamesEver, courtOpen, activities, layouts, closures, rules, taken, lessons>>

\* deleteOneToOneOffering
LookToWithdraw(r, o) ==
    /\ o \notin taken
    /\ Begin(r, [op |-> "withdraw", id |-> o])
    /\ UNCHANGED <<games, gamesEver, courtOpen, activities, layouts, closures, rules, offerings,
                   offeredEver, taken, lessons>>

\* one_to_one_bookings.offering_id REFERENCES one_to_one_offerings
NotReferenced(o) == o \notin taken

Withdraw(r) ==
    /\ tx[r].op = "withdraw" /\ tx[r].id \in DOMAIN offerings
    /\ NotReferenced(tx[r].id)
    /\ offerings' = Restrict(offerings, DOMAIN offerings \ {tx[r].id})
    /\ Finish(r)
    /\ UNCHANGED <<games, gamesEver, courtOpen, activities, layouts, closures, rules, offeredEver,
                   taken, lessons>>

\* A package of the offering is booked (OneToOnePackages).
TakeOffering(o) ==
    /\ taken' = taken \cup {o}
    /\ AtOnce
    /\ UNCHANGED <<games, gamesEver, courtOpen, activities, layouts, closures, rules, offerings,
                   offeredEver, lessons>>

----------------------------------------------------------------------------
(* Training programmes of the sports division *)

booking == <<games, gamesEver, courtOpen, activities, layouts, closures, rules, offerings,
             offeredEver, taken>>

\* trainingProgramFromRequest: the activity is copied from the game.
LookToTeach(r, p, g) ==
    /\ Begin(r, [op |-> "teach", id |-> p, row |-> [game |-> g, slug |-> games[g].slug]])
    /\ UNCHANGED <<booking, lessons>>

\* createTrainingProgramHandler (p = 0) and updateTrainingProgramHandler
Teach(r) ==
    LET p == IF tx[r].id = 0 THEN programmesEver + 1 ELSE tx[r].id IN
    /\ tx[r].op = "teach" /\ p <= MaxProgrammes
    /\ tx[r].id # 0 => tx[r].id \in DOMAIN programmes
    /\ programmes' = Put(programmes, p, tx[r].row)
    /\ programmesEver' = IF tx[r].id = 0 THEN p ELSE programmesEver
    /\ Finish(r)
    /\ UNCHANGED <<booking, studied>>

\* Mutant of NotStudied: no FOREIGN KEY.
NeverStudied(p) == TRUE

\* student_enrollments.training_program_id REFERENCES training_programs
NotStudied(p) == p \notin studied

\* deleteTrainingProgramHandler; its own count is of a column that nothing fills
\* in any more.
DeleteProgramme(p) ==
    /\ NotStudied(p)
    /\ programmes' = Restrict(programmes, DOMAIN programmes \ {p})
    /\ AtOnce
    /\ UNCHANGED <<booking, programmesEver, studied>>

\* A student is enrolled in it (Enrolments).
Study(p) ==
    /\ studied' = studied \cup {p}
    /\ AtOnce
    /\ UNCHANGED <<booking, programmes, programmesEver>>

GiveUpCatalogue(r) == GiveUp(r) /\ UNCHANGED catalogue

CatalogueNext ==
    \/ \E n \in GameName : CreateGame(n) \/ \E g \in DOMAIN games, a \in BOOLEAN : UpdateGame(g, n, a)
    \/ UpdateCourt
    \/ \E s \in DOMAIN activities :
        \/ \E max \in 1 .. MaxCourts, a \in BOOLEAN : UpdateActivity(s, max, a)
        \/ \E g \in 0 .. MaxGames : RelinkActivity(s, g)
    \/ \E s \in closures : DeleteClosure(s)
    \/ \E p \in rules : DeletePrice(p)
    \/ \E o \in DOMAIN offerings : TakeOffering(o)
    \/ \E r \in Request :
        \/ \E g \in DOMAIN games :
              \/ LookToDeleteGame(r, g)
              \/ \E p \in DOMAIN programmes \cup {0} : LookToTeach(r, p, g)
              \/ \E o \in DOMAIN offerings \cup {0} : LookToOffer(r, o, g)
              \/ \E q \in 1 .. MaxCourts, old \in {{}} \cup {{p} : p \in rules} :
                    LookToPrice(r, old, g, q)
        \/ \E g \in 0 .. MaxGames, max \in 1 .. MaxCourts : LookToCreateActivity(r, g, max)
        \/ \E s \in DOMAIN activities : LookToDeleteActivity(r, s)
        \/ \E l \in 1 .. MaxLayouts, items \in LayoutForms, a \in BOOLEAN : LookToSaveLayout(r, l, items, a)
        \/ \E l \in DOMAIN layouts : LookToToggleLayout(r, l) \/ LookToDeleteLayout(r, l)
        \/ \E old \in {{}} \cup {{s} : s \in closures}, s \in AnyActivity \cup {""} :
              LookToSaveClosure(r, old, s)
        \/ \E o \in DOMAIN offerings : LookToWithdraw(r, o)
        \/ DeleteGame(r) \/ CreateActivity(r) \/ DeleteActivity(r) \/ SaveLayout(r)
        \/ ToggleLayout(r) \/ DeleteLayout(r) \/ SaveClosure(r) \/ Price(r) \/ Offer(r)
        \/ Withdraw(r) \/ Teach(r) \/ GiveUpCatalogue(r)
    \/ \E p \in DOMAIN programmes : DeleteProgramme(p) \/ Study(p)
----------------------------------------------------------------------------
CatalogueTypeOK ==
    /\ DOMAIN games \subseteq 1 .. gamesEver /\ gamesEver <= MaxGames
    /\ \A g \in DOMAIN games : games[g] \in [name : GameName, slug : Slug, active : BOOLEAN]
    /\ DOMAIN activities \subseteq AnyActivity /\ courtOpen \in BOOLEAN
    /\ \A s \in DOMAIN activities :
          activities[s] \in [game : 0 .. MaxGames, max : 1 .. MaxCourts, active : BOOLEAN]
    /\ \A l \in DOMAIN layouts : layouts[l].items \in LayoutForms /\ layouts[l].active \in BOOLEAN
    /\ closures \subseteq AnyActivity \cup {""}
    /\ rules \subseteq [game : 1 .. MaxGames, slug : Slug, quantity : 1 .. MaxCourts]
    /\ Cardinality(rules) <= MaxRules
    /\ DOMAIN offerings \subseteq 1 .. offeredEver /\ Range(offerings) \subseteq Slug
    /\ studied \subseteq DOMAIN programmes /\ DOMAIN programmes \subseteq 1 .. programmesEver
    /\ edits \in 0 .. MaxEdits /\ overlapped \in BOOLEAN

\* As long as one administrator works at a time: an active layout remains, and
\* whatever names an activity or a game by its slug names one there is, through
\* every rename, relink, deactivation and delete.
ReferencesResolve ==
    ~overlapped =>
        /\ ActiveLayouts # {}
        /\ \A l \in DOMAIN layouts : DOMAIN layouts[l].items \subseteq DOMAIN activities
        /\ closures \ {""} \subseteq DOMAIN activities
        /\ \A p \in rules : p.slug \in DOMAIN activities
        /\ \A o \in DOMAIN offerings : \E g \in DOMAIN games : games[g].slug = offerings[o]

\* However they overlap: a pricing rule and a programme are for the slug of their
\* game, as long as it exists, and an offering that has been booked stays.
BookedAndPricedAgree ==
    /\ \A p \in DOMAIN programmes :
          programmes[p].game \in DOMAIN games => games[programmes[p].game].slug = programmes[p].slug
    /\ \A p \in rules : p.game \in DOMAIN games => games[p.game].slug = p.slug
    /\ taken \subseteq DOMAIN offerings

\* What names an entry of the catalogue finds it: ReferencesResolve and
\* BookedAndPricedAgree hold.
CatalogueResolves == ReferencesResolve /\ BookedAndPricedAgree
=============================================================================
