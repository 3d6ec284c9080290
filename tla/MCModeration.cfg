CONSTANTS
  Event = {e1, e2}
  Report = {r1}
  Proc = {p1, p2}
  MaxFaults = 1
SPECIFICATION Spec
SYMMETRY Symmetry
INVARIANTS TypeOK NoFakeOutcome OneDecision OneLink RemovalIsMailed
PROPERTIES AppealMovesForward
