SPECIFICATION Spec
CONSTANTS
  MaxFaults = 1
  Devices = {d1, d2}
  Admins = {x1, x2}
  MaxAccounts = 2
  AccountAdmins = {x1}
  Passes = {p1, p2}
  MaxActions = 6
  SessionIds = {s1, s2}
  Requests = {r1, r2}
  Links = {l}
  Codes = {c}
  MaxToken = 3
  Staff = {root, n1, n2}
  Seeded = root
  Configured = {root}
  Forms = {f1, f2}
  Screens = {v1, v2}
  MaxPassword = 3
  MaxSecret = 2
  Sockets = {1, 2, 3}
  Operators = {1, 2}
  OwnerOf <- TwoTabs
  Deliveries = {e1, e2}
  MaxAttempts = 2
  RateLimit = 1
  MaxDeliveryFaults = 2
  Checks = {k1, k2}
  MaxAlerts = 4
  Prices = {1, 2}
  MaxCandles = 2
  Buckets = 2
  MaxStarts = 2
  Fetches = {g1, g2, g3}
  MaxConcurrent = 2
  Retries = 1
  Keys = {b1, b2}
  Chiefs = {h1}
  MaxCrashes = 1
  MaxLosses = 1
  Clients = {c1, c2}
  Widgets = {w1, w2}
  Symbols = {m1, m2}
  MaxWire = 4
  MaxEffects = 4
  MaxOutages = 2
  Calls = {q1, q2}
  Posts = {q2}
  Confirmed = 2
  MaxHeight = 6
  MaxScanFaults = 2
  Terms = {t1, t2}
  Stops = {z1, z2}
  MaxIds = 2
  MaxEdits = 1
  MaxTicketLosses = 2
  Batches = {{y1}, {y2}}
  Stooq = {y2}
  MaxPauses = 2
  Customers = {u1, u2}
  Gets = {j1}
  Puts = {o1, o2}
  MaxRow = 2
  MaxMissed = 1
  Attempts = 4
  MaxBreaks = 12
  Accts = {a1, a2}
  MaxEvents = 1
  MaxTurns = 2
  Runs = {g1, g2}
  MaxUnits = 2
  MaxShifts = 1
  Thresholds = {"unsent", "pending"}
 
 
INVARIANT ChannelsAreKept
PROPERTY NothingIsUndone
PROPERTY TimersCatchUp
CHECK_DEADLOCK FALSE
