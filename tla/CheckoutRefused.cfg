SPECIFICATION Spec
CONSTANTS
  Parts = {"checkout"}
  Tenants = {t1, t2}
  Customers = {c}
  DayLength = 4
  ann = ann
  bob = bob
  Staff = {ann, bob}
  Inputs <- MCInputs
  Dates = {0, 1, 2}
  Requests <- MCRequests
  FreeWindows = {2}
  MaxTime = 1
  MaxBookings = 2
  Never = Never
  Programs <- MCPrograms
  Totals = {0, 150}
  Redemptions = {0, 2}
  Adjustments <- MCAdjustments
  MaxDay = 2
  MaxLedger = 4
  LineLists <- MCLineLists
  Validities = {0, 1}
  MaxQuotes = 2
  LastDay = 2
  ApiRequests <- MCApiRequests
  MaxOrders = 2
  Carts <- MCCarts
  SavedMethods = {"visa"}
  DefaultMethod = "visa"
  TipPresets = {15}
  CustomTips = {300}
  MaxQuantity = 2
  MaxVisits = 1
  None = None
  CartRequests <- MCCartRequests
  CartQuantities = {3}
  CartModifiers <- MCCartModifiers
  Fulfillments <- MCFulfillments
  MaxSessions = 2
  MaxItems = 2
  MaxLoads = 1
  Names = {starter, pro}
  ModuleMaps <- MCModuleMaps
  FeatureSets = {{}}
  Limits = {1, NoLimit}
  NoLimit = NoLimit
  Subscribers = {s1}
  MaxPackages = 2
  MaxVersions = 3
  MaxUsage = 2
SYMMETRY Symmetry
CHECK_DEADLOCK FALSE
INVARIANTS
  SubmissionsAreWellFormed
