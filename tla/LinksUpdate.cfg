SPECIFICATION FairSpec
CONSTANTS
  me = me  tcp = tcp  udp = udp  None = None
  Uri = {me, tcp, udp}  SelfUri = me  UdpUri = {udp}
  FirstConnect = {"fails", "opening", "unheard"}
  Reconnect = {"fails", "opening", "unheard"}
  MaxAttempts = 3  MaxUpdates = 3  MaxLosses = 2
CHECK_DEADLOCK FALSE
INVARIANTS OneLinkPerPublisher PendingIsAwaited RetryIsScheduled NothingAfterShutdown
PROPERTIES ListedIsServed
