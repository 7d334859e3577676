SPECIFICATION RendererSpec
CONSTANTS
  p1 = p1
  p2 = p2
  i1 = i1
  t1 = t1
  t2 = t2
  g1 = g1
  m1 = m1
  Slots = 4
  MemoSlots = 3
  CopySlots = 2
  SnapSlots = 2
  NoTlut = NoTlut
  BytesOf <- MCBytesOf
  HashBytes = 4
  Undecodable = {"unknown"}
  Rows <- MCRows
  Units = 2
  BatchMax = 2
  GpuSlots = 5
  PipeSlots = 2
  White = White
  Clear = Clear
  Addrs <- MCAddrs
  Contents <- MCContents
  Loadable = {"plain", "palette"}
  Draws <- MCDraws
  Areas <- MCAreas
  Boxes <- MCBoxes
  CopyDests = {"gpucopy", "memcopy"}
  CopyFmt <- MCCopyFmt
  XfbDests = {"memcopy"}
  Zeroes = Zeroes
  Yuv = Yuv
  MaxSteps = 5
INVARIANTS DrawnAsBound FrameComplete MemoSafe
CHECK_DEADLOCK FALSE
