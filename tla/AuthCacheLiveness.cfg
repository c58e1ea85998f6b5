SPECIFICATION Spec
CONSTANTS
  Names <- MCNames
  Users <- MCUsers
  Groups <- MCGroups
  Roles = {"r1"}
  Bindings = {b1}
  SuperUser = "root"
  MastersGroup = "masters"
  APIGroup = "cluster"
  Resource = "managedclusters"
  RoleContents <- MCLiveRoleContents
  SubjectSets <- OneSubjectSet
  MaxVersion = 4
  None = None
PROPERTIES
  GrantsEventuallyCached
  RecordsEventuallyOfListed
