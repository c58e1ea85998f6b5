SPECIFICATION Spec
CONSTANTS
  Names <- OneName
  Users <- MCUsers
  Groups <- MCGroups
  SuperUser = "root"
  MastersGroup = "masters"
  Watchers <- E1L1
  UserOf <- MCUserOf
  GroupsOf <- MCGroupsOf
  IncludeExisting <- MCIncludeExisting
  ScopesOf <- NamedScopes
  ClusterRoles <- ViewerRole
  Answers <- TwoAnswers
  Capacity = 1
  MaxVersion = 1
  None = None
INVARIANT RegisteredWhileWatching
PROPERTIES
  NobodyLeftOut
  StoppedWatchersLeave
CHECK_DEADLOCK FALSE
