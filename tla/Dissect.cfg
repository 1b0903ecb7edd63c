SPECIFICATION Spec
CONSTANTS
  Native = "x86-64"
  Secondary = "x86"
  NoArch = ""
  VarUUID = "var-of-this-host"
  Inputs <- MCInputs
INVARIANTS BestPicked PolicyKept VerityIsUsed SignatureOfHash
