SPECIFICATION Spec
CONSTANTS
  Run = {r1, r2}
  Engine = {e1, e2, e3}
  Request = {q1}
  Kafka = TRUE
  Duration = TRUE
  GraceExpires = FALSE
  MaxFaults = 1
  None = None
SYMMETRY Symmetry
VIEW View
INVARIANTS
  TypeOK
  OneRunAtATime
  AnswersHold
  SinkReleased
