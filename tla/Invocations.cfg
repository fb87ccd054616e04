SPECIFICATION Spec
CONSTANTS
  Key = {k1, k2, k3}
  NoKey = NoKey
  Scope = {docA, docB, session}
  SessionScope = session
SYMMETRY Symmetry
INVARIANTS NeverResent NoBlindDispatch ClearanceBacked StoredHoldsValid
