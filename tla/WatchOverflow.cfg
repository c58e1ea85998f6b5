SPECIFICATION Spec
CONSTANTS
  Names <- OneName
  Users <- MCUsers
  Groups <- MCGroups
  SuperUser = "root"
  MastersGroup = "masters"
  Watchers <- E1
  UserOf <- MCUserOf
  GroupsOf <- MCGroupsOf
  IncludeExisting <- MCIncludeExisting
  ScopesOf <- NamedScopes
  ClusterRoles <- ViewerRole
  Answers <- TwoAnswers
  Capacity = 1
  MaxVersion = 2
  None = None
PROPERTY OverflowedWatchersLeave
CHECK_DEADLOCK FALSE
