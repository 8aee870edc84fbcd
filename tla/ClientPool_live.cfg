SPECIFICATION FairSpec
CONSTANTS
  Main = main
  Http = {h1, h2}
  Client = {c1}
  Name = {n1}
  ServerNames = {}
  Ops = {"add", "remove", "use", "connect", "list"}
  Events = {"handle", "call", "lost"}
  Nobody = nobody
PROPERTIES RequestAnswered EveryBotPolled
