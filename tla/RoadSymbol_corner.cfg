SPECIFICATION Spec
CONSTANT
  Turns = {0, 25}
INVARIANT CornerIsTwoSided
