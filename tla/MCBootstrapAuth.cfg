CONSTANTS
    Gosh = {g1, g2}
    Agents = {a1, a2}
    Supported <- MCSupported
    Insecure <- MCInsecure
    Defaults <- MCDefaults
    Servers <- MCServers
    Files <- MCFiles
    Endings = {TRUE, FALSE}
SPECIFICATION Spec
SYMMETRY Interchangeable
INVARIANTS
    TriedInOrder
CHECK_DEADLOCK FALSE
