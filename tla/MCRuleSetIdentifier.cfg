SPECIFICATION Spec
CONSTANTS
    Rules <- AllRules
    Lookups <- AllLookups
    Assigned <- OneNetwork
    MaxRules = 2
INVARIANT IdentifierIsNotFiltered
