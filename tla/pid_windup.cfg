SPECIFICATION FairSpec
CONSTANTS
  Kp = 1
  Ki = 1
  Kd = 3
  OutMin = 0
  OutMax = 4
  Errors <- MCErrors
  TimeSteps = {1}
PROPERTIES Recovers
