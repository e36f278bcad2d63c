CONSTANTS
  Accounts = {"c1"}
  TopPlan = 2
  PlanRequests = {"r1", "r2"}
  Invoices = {"i1", "i2"}
  Periods = {1, 2}
  MaxUses = 1
  TrialDays = 1
  PauseDays = 1
  GraceDays = 2
  CapDays = 1
  DueDays = 1
  Nobody = Nobody
  Erased = Erased
  MaxCalls = 4
  None = None
  Gadgets = {"g1"}
  Kids = {"k1"}
  MaxRules = 2
  MaxHour = 1
  Grace = 1
  KeptHistory = 1
  FamilyLimit = 1
  MaxDeeds = 3
  Households = {"h1", "h2"}
  Boxes = {"b1"}
  NoOwner = NoOwner
  Persons = {"p1"}
  MaxChanges = 5
SPECIFICATION DatesSpec
INVARIANT BooksSound
PROPERTIES DeletionsHold DatesKept
CHECK_DEADLOCK FALSE
