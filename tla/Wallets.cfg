\* An address, a key with two branches of two addresses, a descriptor.
SPECIFICATION FairSpec
CONSTANTS
    address = address
    xpub = xpub
    descriptor = descriptor
    Value = {address, xpub, descriptor}
    Kind <- KindOf
    Amount = {1}
    GapLimit = 1
    MaxAddressesPerPath = 2
    CoreRange = 2
    MaxWallets = 2
    MaxRequests = 1
    MaxPayments = 2
    MaxTimeouts = 1
INVARIANTS
    WalletsTypeOK
    RowsFollowTheChain
PROPERTIES
    ScansEnd
CHECK_DEADLOCK FALSE
