CONSTANTS
  Message <- MCMessage
  Value <- MCValue
  Invalid = {"bad"}
  Hardware = "v1"
  MaxMsg = 2
SPECIFICATION Spec
INVARIANTS IInv Durable InterfaceAgrees
