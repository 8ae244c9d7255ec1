CONSTANTS
  Branch = {main, dev, feat}
  Main = main
  NoBranch = NoBranch
  Editable = {main}
  MaxRevs = 4
SPECIFICATION Spec
INVARIANTS TypeOK HeadsResolve ModelFileTruth CommonHistory NothingToMergeIffContained
PROPERTIES AncestorsImmutable HeadMoves OneBranchPerCommand NoRevival ImplementsRefs
SYMMETRY Symmetry
VIEW View
ACTION_CONSTRAINT CommandBounds
