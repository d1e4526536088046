CONSTANTS
  m1 = m1
  m2 = m2
  NoMsg = NoMsg
  Msg <- MCMsg
  MsgLen <- MCMsgLen
  Size <- MCSize
  NodeSz = 3
  Request <- MCRequest
SPECIFICATION Spec
INVARIANTS ReadableIsWhole IInv RingsFit
PROPERTY ImplementsQueue
