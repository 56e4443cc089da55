CONSTANTS
  Labels = {"failed", "running"}
  LabelTop <- MCLabelTop
  LabelHeight = 4
  WindowHeight = 40
  Scrolls = {0, 4}
  TipHeights <- MCTipHeights
  NoLabel = NoLabel
  MaxHandlers = 4
SPECIFICATION Spec
INVARIANTS
  TypeOK
  ThePatientSeeTheTip
  ArrowPointsAtLabel
PROPERTIES
  TipsGoAway
