\* Two projects, three history entries, one reload, any answers of the server.
CONSTANTS
  Projects = {p1, p2}
  Children <- MCChildren
  TabOf <- MCTabOf
  LiveAnswers <- MCLiveAnswers
  SnapshotAnswers <- MCSnapshotAnswers
  NavigatorLanguage = "zh"
  MaxEntries = 3
  MaxReloads = 1
  Refused = Refused
  None = None
SPECIFICATION FairSpec
INVARIANT LinksOfProject
PROPERTY PageSettles
CHECK_DEADLOCK FALSE
