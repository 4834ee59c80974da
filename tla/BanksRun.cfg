\* Every exception, with a register that only FIQ mode banks and one that all do.
CONSTANTS
  Registers = {12, 14}
  Values = {v1, v2}
  WrittenModes <- ReturnModes
  Exceptions <- Exceptional
  Lists <- SafeLists
SYMMETRY Symmetric
CONSTRAINT FewHandlers
SPECIFICATION Spec
INVARIANTS
  TypeOK
  StoresUserRegisters
  PrivilegeFollowsMode
PROPERTIES
  ImplementsBanks
  LoadsUserRegisters
