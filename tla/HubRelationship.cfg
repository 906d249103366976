\* Two relationships one after the other and two enrollments in flight: a waiting
\* disconnect meets a second one, a forced one and a newer relationship.
SPECIFICATION LiveSpec
CONSTANTS
  MaxRelationships = 2
  MaxInFlight = 2
INVARIANTS
  TypeOK
  DrivenByOne
  StatusHonest
  AuthorityIsActive
  RevokedBeforeForgotten
  RevokesAfterSettling
PROPERTIES
  KeepsAuthority
  RelationshipSettles
