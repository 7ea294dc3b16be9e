SPECIFICATION Spec
CONSTANTS
    Clients = {c1, c2}
    Nobody = Nobody
    Latest = Latest
    NoText = NoText
    NotCached = NotCached
    MaxSaves = 2
INVARIANTS
    TypeOK
    OneActive
    SavedIsKept
    NoneActiveWasContested
    StaleWasRaced
PROPERTY
    ImplementsVersionStore
