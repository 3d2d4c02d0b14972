CONSTANTS
    AttesterKeys = {a1}
    VerifierKeys = {v1}
    ServiceKeys = {s1, s2}
    BoardKeys = {imx, other}
    ImxKey = imx
    Secrets = {blob}
    Garbled = Garbled
    None = None
    Guest = "any"
    Pins = {None, s1, Garbled}
    SecretSizes = {256}
    Window = 2
SPECIFICATION Spec
CHECK_DEADLOCK FALSE
INVARIANTS HandshakeIsWithTheService AcceptedQuoteIsFresh SecretOnlyToAttested
    
 
