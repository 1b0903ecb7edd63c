SPECIFICATION Spec
CONSTANTS
  Unknown = {"bogus"}
  Texts <- MCTexts
  Order <- MCOrder
INVARIANTS TypeOK RefusesAmbiguity SameAsWritten DerivedPermits
