SPECIFICATION SequentialSpec
CONSTANTS
  Floppy <- MCFloppy
  JunkSize <- MCJunkSize
  b_MaxFails = 2
  Disk <- MCDisk
  JunkBpb <- MCDiskFormat
  JunkCluster = {0, 340, 4088}
  l_MaxFails = 1
  MaxLoaded = 5
  Image <- MCImage
  Size = 7
  MemSize = 12
  e_buff = 3
  seg_base = 0
  \* The start-up: the sizes of the source, addresses in the kernel's megabyte
  \* whose low and middle bytes differ, error codes of zero and another.
  GDT_SIZE = 128
  NR_TASKS = 3
  NR_PROCS = 32
  NR_NATIVE_PROCS = 4
  tss_addr = 1193046
  proc_table = 1217616
  sizeof_Process = 168
  ldt_offset = 74
  task_stack = 1251360
  Eip = {4096, 1048576}
  ErrCode = {0, 18}
  MaxForks = 2
  Host <- MCHost
  Options <- MCOptions
  BLOCKS = 3
  Ram <- MCRam
  LowWord <- MCLowWord
  Rom <- MCRom
  Call <- MCCall
  BUF = 12
  V_MEM_SIZE = 32768
  \* Delays: eight bits, ten milliseconds to a tick, calls right before, at and
  \* after the wrap of ticks, up to the longest delay seen in time.
  Width = 256
  Second = 20
  HZ = 2
  Delay = {0, 1, 9, 10, 11, 55, 90}
  Start = {0, 1, 120, 245, 250, 255}
  Lag = 2
CHECK_DEADLOCK FALSE
INVARIANTS JumpsToLoader KernelLoaded KernelPlaced SegmentsLoad PanicShowsFault LinesServed PassesAgree TreeReadBack LaidOutForKernel ReadsTheFile BlocksOwned BlocksInFreeMemory FormatsMessage NumbersReadBack NeverEarly
PROPERTIES LoadEnds BlocksKept LookupEnds DelayEnds
