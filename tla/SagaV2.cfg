\* Every saga of up to three steps; whatever can fail fails.
CONSTANTS
  MaxSteps = 3
  ErrorTexts = {"text"}

SPECIFICATION Spec

PROPERTIES
  PromiseKept

CHECK_DEADLOCK FALSE
