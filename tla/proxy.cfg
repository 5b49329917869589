SPECIFICATION Spec
CONSTANTS
    Sessions = {s1, s2}
    Nodes = {n1}
    Addresses = {a1}
    AddressOf <- MCAddressOf
    MaxPerUser = 1
    MaxClients = 2
    MaxPending = 2
    MaxPerAddress = 1
    MaxFaults = 1
    None = None
INVARIANTS  PermitsReturned TransactionSticks
 
