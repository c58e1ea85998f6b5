SPECIFICATION Spec
CONSTANTS
  Names <- OneCluster
  Users <- MCUsers
  Groups <- MCGroups
  Roles = {"r1"}
  Bindings = {b1}
  SuperUser = "root"
  MastersGroup = "masters"
  APIGroup = "cluster"
  Resource = "managedclusters"
  RoleContents <- MCLiveRoleContents
  SubjectSets <- OneSubjectSet
  MaxVersion = 3
  None = None
PROPERTY RevocationsEventuallyApplied
