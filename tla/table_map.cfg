SPECIFICATION Spec
CONSTANTS
  p1 = p1
  p2 = p2
  p3 = p3
  p4 = p4
  NULL = NULL
  None = None
  Ptr = {p1, p2, p3, p4}
  Elem = {e1, e2, e3}
  Key = {k1, k2, k3}
  Value = {v1, v2}
  hashv <- HashFour
  HASH_INITIAL_NUM_BUCKETS = 1
  HASH_BKT_CAPACITY_THRESH = 2
INVARIANT Consistent
PROPERTY ImplementsMap
SYMMETRY Symmetric
