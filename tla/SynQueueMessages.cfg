SPECIFICATION Spec
CONSTANTS
  Producers = {p1, p2, p3}
  Consumers = {c1, c2}
  Msgs = {m1, m2, m3, m4}
  NULL = NULL
  Pris = {"none", "high"}
  Nobody = Nobody
  MaxSize = 3
INVARIANTS TokenConservation SoleOwner NoLeak
PROPERTIES ImplementsDeque
