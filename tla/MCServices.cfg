SPECIFICATION ServiceLiveSpec
CONSTANTS
  Parts = {"pipe", "timer", "coroutine", "uptime", "simple"}
  r = r
  w = w
  x = x
  Task = {r, w, x}
  Ops <- MCOps
  Byte = {0, 255}
  Request = 3
  Amount = 4
  CharMax = 255
  Timers = {1, 2}
  Period <- MCPeriod
  Handlers = {"systick", "uptime"}
  TickMod = 5
  SizeMod = 65536
  HandlerEvery = 1
  SelfStart = FALSE
  MaxClock = 7
  Fn = {"f"}
  Priorities = {0, 2, 3}
  PcounterMod = 4
  FibersMod = 5
  HeapGarbage = {0, 1, 4}
  MaxCr = 3
  Readers = {"mtime_r", "CNT"}
  LowMod = 4
  SysTick = 3
  SysTickInRead = FALSE
  MaxHw = 12
  NTasks = 3
  Bases = {1, 2, 3}
  ItMax = 8
INVARIANTS ReadsTheTime
PROPERTIES PipeIsFifo PairProgress CalledAsAsked StartedTimersFire EveryCoroutineRuns ReadyTasksAreChosen
