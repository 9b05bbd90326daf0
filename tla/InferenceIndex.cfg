CONSTANTS
  t1 = t1
  t2 = t2
  t3 = t3
  siteA = siteA
  siteB = siteB
  NoRoot = NoRoot
  Embed = "embed"
  Engines = {"vision"}
  Tasks = {t1, t2}
  Asks <- EmbedClients
  Roots = {siteA, siteB}
  Unreadable = {}
SPECIFICATION InferenceSpec
INVARIANT FreshIndexIsOfRoot
