SPECIFICATION WatchedSpec
CONSTANTS
  Names <- OneCluster
  Users <- MCUsers
  Groups <- MCGroups
  Roles = {"r1"}
  Bindings = {b1}
  SuperUser = "root"
  MastersGroup = "masters"
  APIGroup = "cluster"
  Resource = "managedclusters"
  RoleContents <- OneRole
  SubjectSets <- OneSubjectSet
  Watchers <- L1
  UserOf <- MCUserOf
  GroupsOf <- MCGroupsOf
  IncludeExisting <- MCIncludeExisting
  Capacity = 1
  ScopesOf <- NamedScopes
  MaxVersion = 4
  None = None
INVARIANT DeletesOfKnownDetected
CHECK_DEADLOCK FALSE
