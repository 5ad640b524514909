SPECIFICATION ApSpec
CONSTANTS
    Space <- MCSpace
    Ips <- MCIps
    Gateways <- MCGateways
    Starts <- MCStarts
    Masks <- MCMasks
INVARIANTS
    ApTypeOK
    RangeInSubnet
    RangeSparesHosts
