SPECIFICATION FairSpec
CONSTANTS
  r1 = r1
  r2 = r2
  r3 = r3
  c1 = c1
  c2 = c2
  Req = {r1}
  Caller = {c1, c2}
  Turn = Turn
  Worker = Worker
  Exec = Exec
  NoReq = NoReq
  Plan <- OneDirect
  QueueLimit = 1
  MaxCalls <- StopAndWait
  MaxRestarts = 0
CHECK_DEADLOCK FALSE
PROPERTY WaiterAnswered
