SPECIFICATION Spec
CONSTANTS
  Person = {p1}
  Owner = owner
  Account = {a1, a2}
  Request = {q1, q2}
  Null = Null
  MaxRows = 2
  MaxTokens = 3
  MaxPuts = 3
SYMMETRY Symmetry
INVARIANTS
  TypeOK
  GrantsAreAsked
PROPERTY
  MembersStay
