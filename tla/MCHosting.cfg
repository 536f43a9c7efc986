\* Each component on small constants; Calm ends a behaviour at an accident.
CONSTANTS
  None = None
  Requests = {r1, r2}
  a1 = a1
  p1 = p1
  n1 = n1
  Scripts = {a1, p1, n1}
  BackendOf <- Backends
  Contents = {c}
  MaxTries = 2
  MaxDeaths = 1
  info = info
  sales = sales
  box = box
  Addresses = {info, sales, box}
  example = example
  home = home
  MailDomains = {example, home}
  LocalDomain = home
  DomainOf <- DomainsOfAddresses
  mailbox = mailbox
  Mailboxes = {mailbox}
  NamesakeOf <- Namesakes
  Extends <- NoneExtends
  Main = main
  UnixUsers = {main, u1, u2}
  Away = {u1}
  DatabaseNames = {database}
  DatabaseUsers = {reader, writer}
  top = top
  www = www
  DomainNames = {top, www}
  Ancestors <- NamesAbove
  Versions = {v, w}
  MaxZoneDay = 1
  MaxNumber = 3
  Objects = {object}
  Monitorings = {periodic, asked}
  Asked = {asked}
  MaxTime = 4
  Day = 2
  Month = 2
  Old = 1
  MaxRows = 3
  worker1 = worker1
  Processes = {worker1, worker2}
  Orders = {order1, order2}
  LastDay = 2
  Ahead = 1
  Options <- BillOrSimulation
  Billings = {b1, b2}
  Values = {0, 3, 4, 13}
  Error = 1
  Period = 3
  Cuts = TRUE
  Delta = 1
  MaxDay = 3
  MaxOrders = 2
  MaxSaves = 4
  MaxBills = 3
  Concurrent = {1, 2, 3}
  LastPriced = 3
  RegisterDays = {0, 1}
  Points = {2, 3}
  Methods = {"step"}
  Tariffs <- TwoPlans
  UnitCosts <- PricesOfUnits
  Nominal = 3
SPECIFICATION Spec
SYMMETRY Symmetry
CONSTRAINT Calm
INVARIANTS
  ServedAsConfigured MailArrives UsersAgree GrantsAgree ZonesAgree CountedOnce
  ChargedAsMeasured BilledAsConfirmed PaidByDays UnitsArePriced
PROPERTIES SumsAreKept ConsumptionIsPaid
CHECK_DEADLOCK FALSE
