SPECIFICATION Spec
CONSTANTS
  Names <- TwoNames
  Users <- MCUsers
  Groups <- MCGroups
  SuperUser = "root"
  MastersGroup = "masters"
  Watchers <- E1
  UserOf <- MCUserOf
  GroupsOf <- MCGroupsOf
  IncludeExisting <- MCIncludeExisting
  ScopesOf <- NamedScopes
  ClusterRoles <- ViewerRole
  Answers <- ThreeAnswers
  Capacity = 2
  MaxVersion = 2
  None = None
INVARIANTS
  TypeOK
  ViewFollowsKnown
 
CHECK_DEADLOCK FALSE
