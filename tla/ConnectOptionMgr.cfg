CONSTANTS
    MaxIndex = 2
    Expiries = {60, 3600}
    MaxObjects = 4
SPECIFICATION Spec
INVARIANTS
    OneOwnerPerObject
    OneExpiryProperty
    WrongLookupsCostNoIndex
PROPERTIES
    ImplementsTable
