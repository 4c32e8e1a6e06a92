CONSTANTS
  MaxWords = 7
  ClearBy = 2
  Half = 3
  InSize = 1
  OutSize = 6
  Threshold = 1
SPECIFICATION Spec
INVARIANTS
  TypeOK
  CountsAgree
  OutputFits
PROPERTIES
  ImplementsFifos
