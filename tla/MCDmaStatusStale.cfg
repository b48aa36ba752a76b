SPECIFICATION Spec
INVARIANTS
  OverflowIsOfThisCapture
