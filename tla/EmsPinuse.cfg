SPECIFICATION Spec
CONSTANTS
    HMU_NORMAL_NODE_CNT = 6
    SizeModulus = 256
    Uses <- Doubling
INVARIANT PinuseIsTrue
