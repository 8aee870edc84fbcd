SPECIFICATION ReqSpec
CONSTANTS
  Main = main
  Http = {h1, h2}
  Recon = {r1, r2}
  NoThread = nothread
  HttpOps = {"reconnect", "disconnect", "send", "ping"}
INVARIANTS TypeOK HostAndPeer ReplyOnSameLink LoginHasToken OneReconnector LoginHasSession
