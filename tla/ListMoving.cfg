SPECIFICATION ReadersSpec
CONSTANTS
  Names <- OneCluster
  Users <- MCUsers
  Groups <- MCGroups
  Roles = {"r1"}
  Bindings = {b1}
  SuperUser = "root"
  MastersGroup = "masters"
  APIGroup = "cluster"
  Resource = "managedclusters"
  RoleContents <- OneRole
  SubjectSets <- MCSubjectSets
  Caller = "u1"
  CallerGroups <- MCCallerGroups
  MaxVersion = 4
  None = None
INVARIANT ListHasWhatUserCanAccess
