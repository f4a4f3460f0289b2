SPECIFICATION FairSpec
CONSTANTS
  Run = {r1}
  Engine = {e1, e2}
  Request = {q1}
  Kafka = FALSE
  Duration = FALSE
  GraceExpires = TRUE
  MaxFaults = 0
  None = None
PROPERTY
  RequestsAnswered
