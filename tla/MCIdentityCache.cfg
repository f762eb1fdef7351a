SPECIFICATION Spec
CONSTANTS
  ts1 = ts1
  lo = lo
  lan = lan
  alice = alice
  server = server
  r1 = r1
  r2 = r2
  NoPeer = NoPeer
  DevPeer = DevPeer
  Addrs <- MCAddrs
  Tailnet <- MCTailnet
  Loopback <- MCLoopback
  Peers <- MCPeers
  Reqs <- MCReqs
  DevLoopback = FALSE
  HasApi = TRUE
  HasCli = TRUE
  TTL = 2
  MaxLatency = 2
SYMMETRY Symmetry
INVARIANT StampsBacked
PROPERTY FreshIdentity
