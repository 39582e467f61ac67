CONSTANTS
    r1 = r1  r2 = r2  r3 = r3  r4 = r4
    e1 = e1  g1 = g1  p1 = p1  p2 = p2  p3 = p3
    a1 = a1  a2 = a2  a3 = a3  a4 = a4  a5 = a5  a6 = a6
    Request = {r1, r2, r3}
    Scenario <- Mixed
    Nothing = Nothing
    Flatmate = {1, 2, 3, 4, 5, 6}
    GroupStart <- MCGroupStart
    DefaultCategory <- MCDefaultCategory
    Now = 25
    BillStart <- MCBillStart
    MaxWorkspaces = 2
    PlanOf <- MCPlanOf
    WorkStart <- MCWorkStart
    VaultStart <- MCVaultStart
    Account <- MCAccounts
    Kind <- MCKind
    Reserved = {a3}
    Pool = {a1}
    Status0 <- MCStatus0
    Parent0 <- MCParent0
    NoParent = NoParent
    AssetName <- MCAssetName
    AssetStart <- MCAssetStart
    HabitToday = 2
    HabitMonth = 2
    HabitName = {"Fajr", "Isha", "Roza", "Run", "Walk", "Swim", "Read"}
    MonthDays = 3
    MaxChallenges = 2
    MaxItems = 3
    HabitStart <- MCHabitStart
    MaxOnShelf <- MCMaxOnShelf
    ShelfStart <- MCShelfStart
    MaxLists = 3
    MaxTasks = 2
    TodoStart <- MCTodoStart
    MonthLength = 2
    MaxReportMonths = 2
    LedgerAccount <- MCLedgerAccount
    BudgetStart <- MCBudgetStart
SYMMETRY Symmetry
SPECIFICATION Spec
INVARIANTS
    SettlementsExact
    PaymentsInOrder
    PagesAgree
    ExtrasInOrder
    OldPinsEnd
    ResetForgets
    ChartSound
    AssetsBalance
    SheetsKeep
    ListsSound
    EntriesFollow
PROPERTIES
    PagesTally
    ShelvesSerial
