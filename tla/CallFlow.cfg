SPECIFICATION Spec
CONSTANT OtherIntents = {"warranty", ""}
INVARIANTS
  MandatoryHandoff
  HandoffContext
