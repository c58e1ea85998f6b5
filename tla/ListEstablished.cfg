SPECIFICATION ReadersSpec
CONSTANTS
  Names <- OneCluster
  Users <- MCUsers
  Groups <- MCGroups
  Roles = {"r1"}
  Bindings = {b1, b2}
  SuperUser = "root"
  MastersGroup = "masters"
  APIGroup = "cluster"
  Resource = "managedclusters"
  RoleContents <- MCRoleContents
  SubjectSets <- MCSubjectSets
  Caller = "u1"
  CallerGroups <- MCCallerGroups
  MaxVersion = 4
  None = None
INVARIANTS
  EstablishedGrantsListed
  ListHasEstablishedGrants
SYMMETRY BindingSymmetry
