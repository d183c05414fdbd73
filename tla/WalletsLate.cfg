\* One call ends without its answer, which comes later.
SPECIFICATION Spec
CONSTANTS
    address = address
    xpub = xpub
    descriptor = descriptor
    Value = {address, xpub}
    Kind <- KindOf
    Amount = {1}
    GapLimit = 1
    MaxAddressesPerPath = 2
    CoreRange = 2
    MaxWallets = 2
    MaxRequests = 0
    MaxPayments = 1
    MaxTimeouts = 1
PROPERTIES
    BalanceIsOfTheAddress
CHECK_DEADLOCK FALSE
