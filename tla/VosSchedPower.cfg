CONSTANTS
  Wrapper = {w1}
  NoWrapper = NoWrapper
  Poster = {p1}
  Mq <- MqRx
  ServiceOrder <- OrderRx
  Ops = {"suspend"}
SPECIFICATION Spec
CHECK_DEADLOCK FALSE
INVARIANT HandshakeInv
