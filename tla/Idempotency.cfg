\* Three requests at once with two bodies; two faults, three failures in all.
SPECIFICATION Spec
CONSTANTS
  Requests = {r1, r2, r3}
  Bodies = {b1, b2}
  MaxFaults = 2
  MaxFailures = 3
INVARIANT TypeOK
INVARIANT AtMostOnce
INVARIANT AnswersAgree
PROPERTY EventuallyAnswered
CHECK_DEADLOCK FALSE
