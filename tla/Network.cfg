SPECIFICATION Spec
CONSTANTS
  Hosts = {"host", "gateway"}
  Gateway = "gateway"
  Remote = {"server"}
  Server = "server"
  RxCount = 4
  TxCount = 3
  ArpSize = 1
  MaxConns = 2
  MaxPorts = 2
  UdpPorts = {0, 53}
  Port = 53
  Streams = {"s1", "s2"}
  Datagrams = {"d1", "d2"}
  Loads <- NetworkLoads
INVARIANTS EndsAgree DatagramsInOrder SettledWhenQuiet
CHECK_DEADLOCK FALSE
