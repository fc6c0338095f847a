\* Two months, the first exported twice.
CONSTANTS
    jul = jul
    aug = aug
    NULL = NULL
    Date = {1, 2}
    TierPrice = {3}
    MaxCrashes = 1
    Document = {jul, aug}
    Exports <- BothMonths
    MaxLoose = 2
SPECIFICATION FairSpec
INVARIANTS
    TypeOK
    BookedOnce
    OneOutcome
    EveryRowExplained
    SaleIsAllConsigned
PROPERTIES
    ResyncBooksNothing
    ExportIsIngested
