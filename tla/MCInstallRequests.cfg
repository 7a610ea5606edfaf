SPECIFICATION FairRequestSpec
CONSTANTS
  t1 = t1
  t2 = t2
  t3 = t3
  nightly = nightly
  c1 = c1
  c2 = c2
  Nothing = Nothing
  Empty = Empty
  Half = Half
  Releases <- MCReleases
  Tags <- MCTags
  ScriptTags <- MCScriptTags
  Clients <- MCClients
  MaxAsked = 4
  MaxOutages = 2
PROPERTIES
  RequestNotReplaced
  RequestServed
