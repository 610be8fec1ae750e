SPECIFICATION ProviderSpec
CONSTANTS
    Operator = {w1, w2}
    Deployment = {"production", "development"}
    MaxOperations = 3
    MaxKeyRows = 3
    MaxDefects = 1
INVARIANTS RegistryReflectsEnabled
CHECK_DEADLOCK FALSE
