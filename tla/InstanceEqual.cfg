\* One id, name and version suffice for the scalar tests, two ids show the
\* id test; two metadata keys with "" and one other value, and up to two of
\* two endpoints, so that reordered and repeated endpoints occur.
CONSTANTS
  Ids = {i1, i2}
  Names = {n1}
  Versions = {v1}
  MetaKeys = {"a", "b"}
  MetaValues = {"", "v"}
  Endpoints = {1, 2}
  MaxEndpoints = 2
  TypedNilArg = FALSE
  NilPtr = NilPtr
  NilIface = NilIface
  Other = Other
  None = None
  Panic = Panic
SPECIFICATION Spec
INVARIANT EqualAgreesWithSpec
