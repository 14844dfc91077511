SPECIFICATION Spec
CONSTANTS
  Producers = {p1, p2}
  Consumers = {c1, c2}
  Msgs = {m1, m2, m3, m4}
  NULL = NULL
  Pris = {"none", "high", "other"}
  Nobody = Nobody
  MaxSize = 3
SYMMETRY Symmetry
INVARIANTS ReadTokensAreElements
