\* One instance and one client: the first step of the scenario.
SPECIFICATION Spec
CONSTANTS
    Instances = {i1}
    Keys = {a}
    Clients = {c1}
    Calls = {h1}
    MaxRPCs = 1
    MaxFaults = 0
    NoInstance = NoInstance
    NoKey = NoKey
    NoCall = NoCall
PROPERTIES
    DeniedIsTold
CHECK_DEADLOCK FALSE
