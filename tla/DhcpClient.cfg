CONSTANTS
  s1 = s1
  s2 = s2
  Server = {s1, s2}
  Zero = zero
  Default = dflt
  Lease <- MCLease
  Handles <- MCHandles
  Divisor = 2
  Timeout = 1
  DefaultLease = 1
  Renewals = 1
  MaxDelay = 1
  MaxNet = 2
SPECIFICATION FairDhcp
INVARIANTS
  OneSocketForDhcp
  BoundMeansLeased
PROPERTIES
  OnlyGrantedAddresses
  LinkLossEndsLease
  NeverWaitsForEver
