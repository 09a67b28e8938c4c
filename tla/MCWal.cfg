SPECIFICATION Spec
CONSTANTS
    Policies <- AllPolicies
    MaxTerm = 2
    MaxIndex = 2
    MaxCalls = 4
INVARIANTS
    Durable
    FileIsAuthority
