SPECIFICATION Spec
CONSTANTS
  W = 8
  Operands <- MCOperands
PROPERTIES FlagsRight ResultRight
CHECK_DEADLOCK FALSE
