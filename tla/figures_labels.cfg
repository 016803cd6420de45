SPECIFICATION Spec
CONSTANT
  Sessions <- SensitivityOnly
INVARIANT BarsAsLabelled
