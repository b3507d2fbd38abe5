SPECIFICATION LibSpec
CONSTANTS
  Parts = {"queue", "mq", "heap", "list", "dlist", "eeprom", "uart", "ethernet"}
  a = a
  b = b
  Null = Null
  Data <- MCData
  Size = 4
  MqPreempted = FALSE
  HeapLen = 18
  Requests = {0, 1, 4, 20}
  Allocators = {"default", "alt"}
  Node = {1, 2, 3, 4, 5}
  ListId = {1, 2}
  Val = {a, b}
  DNode = {1, 2, 3, 4, 5}
  DListId = {1, 2}
  DVal = {a, b}
  PageSize = 2
  BlockSize = 4
  Blocks = 2
  EByte = {0, 1}
  Buffers <- MCBuffers
  Seeks = {3}
  MaxRead = 2
  MaxPos = 4
  UTask = {1, 2}
  Openers = {1, 2}
  Char = {5, 6}
  NoChar = 0
  RxSize = 4
  Wanted = 2
  MaxReceived = 6
  h1 = h1
  Host = {h1, h2, h3, h4}
  Senders = {h1}
  Broadcast = Broadcast
  CacheSize = 2
  MaxFrames = 4
INVARIANTS CountMatchesRing BlocksDisjoint FreshSearchComplete ReadsWhatArrived PacketsGoToTheirHost
PROPERTIES ImplementsFifo ListsAreSequences DListsAreSequences EepromIsFile
SYMMETRY EitherDatum
