SPECIFICATION Spec
CONSTANTS
  r1 = r1
  r2 = r2
  r3 = r3
  c1 = c1
  c2 = c2
  Req = {r1, r2, r3}
  Caller = {c1, c2}
  Turn = Turn
  Worker = Worker
  Exec = Exec
  NoReq = NoReq
  Plan <- RestartPlans
  QueueLimit = 1
  MaxCalls <- RestartCalls
  MaxRestarts = 1
CHECK_DEADLOCK FALSE
INVARIANTS AtMostOnce
PROPERTY ResultOnlyCancelled
