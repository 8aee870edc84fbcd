SPECIFICATION RecoverySpec
CONSTANTS
  Main = main
  Http = {h1}
  Recon = {r1}
  NoThread = nothread
  HttpOps = {"disconnect", "send"}
PROPERTIES ReconnectorFinishes LockReleased
