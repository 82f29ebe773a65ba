SPECIFICATION AffiliatesSpec
CONSTANTS
  u1 = u1
  u2 = u2
  u3 = u3
  a1 = a1
  a2 = a2
  Users = {u1, u2, u3}
  None = None
  Orders = {1}
  Admins = {a1, a2}
  MaxLevel = 3
SYMMETRY Symmetric
INVARIANT AffiliatesAgree
PROPERTY CreditNeedsApproval
CHECK_DEADLOCK FALSE
