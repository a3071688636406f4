SPECIFICATION MCSpec
CONSTANTS
  Buffers = {b1, b2}
  Slots = {s1, s2}
  Blocks = {f1, f2, f3}
  StdoutSize = 4
  MaxPrint = 2
  MaxErrors = 1
  StdinSize = 3
  Bytes = {x, y}
  MaxChunk = 2
  Readers = {t1, t2}
  Layers = {l1, l2}
  OsdBlocks = {c1, c2, c3}
  MaxOsd = 2
  Params = {p1, p2}
  Script = {t1, t2}
  Peers = {w1, w2}
  MaxPeers = 2
INVARIANTS
  TypesOK
  MediaAccounted
  FrameHandover
  EncoderSound
  RingHoldsPending
  DisplayBuffersSound
  MjpegEncoderSound
  PeersSound
PROPERTIES
  DrainsEnd
  StdinIsQueue
