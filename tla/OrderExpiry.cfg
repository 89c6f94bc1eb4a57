CONSTANTS
    MaxPages = 1
    MaxFaults = 0
SPECIFICATION Spec
CHECK_DEADLOCK FALSE
PROPERTIES ExpiryKeepsAPaidOrder
