SPECIFICATION Spec
CONSTANTS
  Class <- MCClass
  Prop <- MCProp
  Schemas <- MCSchemas
  Columns = 2
  FtsCols = 2
  RngCols = 4
  SparseSafe = 2
INVARIANT DeclaredKeysAreKept
