CONSTANTS
  o1 = o1
  u = u
  v = v
  Orders = {o1}
  Users = {u, v}
  PartyOf <- OneTrade
  Private = {}
  MaxFaults = 0
  None = None
SPECIFICATION Spec
INVARIANT PublishedUnderRated
