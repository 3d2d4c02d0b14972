CONSTANTS
    AttesterKeys = {a1, a2}
    VerifierKeys = {v1, v2}
    ServiceKeys = {s1, s2}
    BoardKeys = {imx}
    ImxKey = imx
    Secrets = {blob}
    Garbled = Garbled
    None = None
    Guest = "any"
    Pins = {None}
    SecretSizes = {256}
    Window = 1
SPECIFICATION Spec
SYMMETRY KeySymmetry
CHECK_DEADLOCK FALSE
INVARIANT KeysServeOneExchange
PROPERTY AbsSpec
