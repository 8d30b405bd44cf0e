CONSTANTS
  host1 = host1
  host2 = host2
  c = c
  g = g
  r1 = r1
  r2 = r2
  NoOne = NoOne
  Node = {host1, host2}
  Client = {c, g}
  Gateway = {g}
  Request = {r1, r2}
  Default = host1
  Scenarios <- MCScenarios
  MaxTries = 2
SPECIFICATION RequestsSpec
CHECK_DEADLOCK FALSE
INVARIANTS FreshAnswer 
PROPERTIES AnswersAreCurrent ForwardingSettles
