SPECIFICATION Spec
CONSTANTS
  U64 = 16
  Bodies <- MCBodies
  Cells <- MCCells
  Ints <- MCInts
  Layout <- MCLayout
  Dynamic <- MCDynamic
  Inputs <- MCInputs
  Callee <- MCCallee
PROPERTIES
  RefinesMir
  
  
