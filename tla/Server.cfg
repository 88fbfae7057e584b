SPECIFICATION MCSpec
CONSTANTS
  o3 = o3
  i1 = i1
  r1 = r1
  h1 = h1
  w1 = w1
  t1 = t1
  p1 = p1
  p2 = p2
  NoOne = NoOne
  Calls = {n1, n2, n3}
  LastYear = 1
  InvRooms = {r1, r2}
  InvBookings = {i1, i2}
  RoomsOf <- StayRooms
  Desk = {k1}
  Commissions = {cm}
  Tours = {tb}
  Trips = {tr}
  Vehicles = {v1, v2}
  Drivers = {d1}
  NoDriver = NoDriver
  Keep = Keep
  TripStatuses = {"pending", "completed", "cancelled"}
  Officers = {o1, o2, o3}
  Users = {u1, u2}
  Root = u1
  Links = {l1, l2}
  NoLink = NoLink
  Requests = {q1, q2, q3}
  Places = {p1, p2}
  Packages = {t1}
  MaxDays = 2
  Extras = {e1}
  Stays = {s1}
  Rates = {f1}
  LastDate = 3
  Unset = Unset
  Staff = {c1, c2}
  LimitKeys = {x1}
  NoKey = NoKey
  WindowMs = 2
  Limit = 2
  LastTick = 5
  Total = 2
  Makers = {m1, m2}
  Downloads = {g1, g2, g3}
  Agencies = {y1, y2}
  NoAgency = NoAgency
  Values = {z1, z2}
  Default = Default
  Savers = {h1, h2, h3}
  LastItem = 4
  UniqueItems = {1, 2}
  ParentItems = {3}
  RoleItems = {1}
  Scripts = {j1, j2}
  MaxDeleted = 2
  RateTables <- TheRateTables
  NewRates <- TheNewRates
  StaysAsked <- TheStays
  StaffRooms <- TheStaffRooms
  AnyPlan = "none"
  Service <- TheService
  SettingsSets <- TheSettings
  Hours = {0, 30, 100, 200}
  MaxRooms = 2
  MaxAdults = 3
  MaxEdits = 1
  Selections = {b1}
  Orders = {a1, a2}
  NoOrder = NoOrder
  NoSelection = NoSelection
  MaxCharges = 2
  MaxMoves = 2
  MaxSaves = 2
  People = {w1, w2}
  Nobody = Nobody
  Tabs = {b2, b3}
  AccessLife = 1
  RefreshLife = 1500
  Instants = {1, 1000, 1500}
  ReportBookings = {0, 1}
  ReportHotels = {h1, h2}
  ReportCustomers = {w1, w2}
  Departures = {n1, n2}
  ReportTours = {t1, t2}
  Destinations = {p1, p2}
  DestinationOf <- ToursTo
  ListLimit = 1
  LastDay = 1
  SeriesDays = 1
  Listed = {n1, n2, n3, n4}
  PageRows = 2
INVARIANTS
  ReportsSound
  SeriesIntact
  BookedInService
  StatusesSound
  EndedUntilLogin
  SuperAdminPermanent
  CatalogueConsistent
  LimitsFair
  NothingLeftBehind
  AgencySeesItsOwn
  SeedingSound
  PricesAgree
  
  CheckoutSound
  PagesCurrent
  CallsAsShown
PROPERTIES
  GivenBookable
  LinkUsedOnce
  DeletedWithoutTours
  
  RecordsKept
  UntouchedKept
CHECK_DEADLOCK FALSE
