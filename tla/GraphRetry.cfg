CONSTANTS
  d1 = d1
  d2 = d2
  d3 = d3
  m1 = m1
  m2 = m2
  s1 = s1
  b1 = b1
  b2 = b2
  r1 = r1
  r2 = r2
  NoState = NoState
  Messages = {m1, m2}
  Requests = {r1, r2}
  Daemons = {d1, d3}
  Churning = {d3}
  StateOf <- MCStateOf
  Batches <- TwoPosts
  Oversized = {m2}
  Ttl = 2
  MaxTime = 0
SPECIFICATION FairSpec
INVARIANT AcknowledgedIsAccountedFor
PROPERTY EventuallySettled
