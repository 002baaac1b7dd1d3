CONSTANTS
  TreeHeight = 3
  SubsetSize = 4
  XmssHeight = 1
SPECIFICATION Spec
INVARIANTS MultiproofTypeOK FrontierServesTheNextLeaf SignatureIsMinimal AcceptsWhatWasSigned
CHECK_DEADLOCK FALSE
