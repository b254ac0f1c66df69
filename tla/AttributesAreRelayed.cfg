SPECIFICATION Spec
CONSTANTS
  Cases <- MCCases
  Driven <- MCDriven
  Attributed <- LoadedAttributes
  Results = {"success"}
INVARIANT AttributesAreRelayed
