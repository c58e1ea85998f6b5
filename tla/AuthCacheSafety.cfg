SPECIFICATION Spec
CONSTANTS
  Names <- MCNames
  Users <- MCUsers
  Groups <- MCGroups
  Roles = {"r1"}
  Bindings = {b1, b2}
  SuperUser = "root"
  MastersGroup = "masters"
  APIGroup = "cluster"
  Resource = "managedclusters"
  RoleContents <- MCRoleContents
  SubjectSets <- MCSubjectSets
  MaxVersion = 4
  None = None
INVARIANTS
  TypeOK
  SubjectsIndexRecords
  IdleKnowsItsRecords
  CurrentVersionsMeanCurrentGrants
PROPERTIES
  KeptSubjectsStayListed
  ImplementsReviewFeed
SYMMETRY BindingSymmetry
