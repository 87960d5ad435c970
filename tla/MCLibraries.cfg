SPECIFICATION LibrarySpec
CONSTANTS
  DagNode <- Nodes
  ParallelLimits = {1, 3}
  Pass <- Passes
  MaxSubmissions = 2
  Client = {c1, c2, c3}
  Health = Health
  Conn = {k1, k2, k3}
  NoConn = NoConn
  MinSizes = {0, 1}
  MaxSize = 2
  MaxFaults = 2
  Caller = {a, b, c}
  FailureThreshold = 2
  SuccessThreshold = 2
  Message <- Messages
  NoMessage = NoMessage
  Subscription = {"s1", "s2"}
  Subscriber <- Subscribers
  SubscribesTo <- TwoAndOne
  MaxRedeliveries = 2
  MaxStops = 1
  Master <- Three
  Peers <- FullMesh
  Deference <- NobodyDefers
  MaxTerm = 2
  MaxCrashes = 2
  MaxLate = 0
  None = None
CHECK_DEADLOCK FALSE
INVARIANTS SubmittedInOrder OverIsOver ConnectionsAccounted
           CountsBelowThresholds ExclusiveIsAlone OneActive 
PROPERTIES DagEnds PoolServes BreakerCloses EveryMessageSettles
