CONSTANTS
  AllowedOrigins <- MCAllowedOrigins
  Origin <- MCOrigin
  None = None
SPECIFICATION Spec
INVARIANTS AdmitsOnlyCovered DocumentedFormsWork
