SPECIFICATION Spec
CONSTANTS
  MaxPath = 6
  MaxInt = 3
  Shapes <- MCShapes
INVARIANTS TypeOK AsDeclared
PROPERTIES ValidatedExactly 
\* One call and it is done.
CHECK_DEADLOCK FALSE
