CONSTANTS
  Session = {s1, s2}
  Card = {c1, c2}
  Proc = {p1, p2}
  MaxFaults = 1
SPECIFICATION Spec
SYMMETRY Symmetry
INVARIANTS TypeOK GradedIsLogged GradesCounted GradedSessionEnds ScheduleIsLogged MetricsNotInflated
CHECK_DEADLOCK FALSE
