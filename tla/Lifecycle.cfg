SPECIFICATION Spec
CONSTANTS
  MaxActivations = 2
  MaxDeactivations = 2
  MaxDepth = 3
INVARIANTS RegistrationsBalance ActivationOwns WindowsGo
CHECK_DEADLOCK FALSE
