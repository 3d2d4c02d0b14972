CONSTANTS
    AttesterKeys = {a1}
    VerifierKeys = {v1, v2}
    ServiceKeys = {s1, s2}
    BoardKeys = {imx}
    ImxKey = imx
    Secrets = {blob}
    Garbled = Garbled
    None = None
    Guest = "checked"
    Pins = {None, s1}
    SecretSizes = {38, 200, 256}
    Window = 2
SPECIFICATION FairSpec
PROPERTIES GuestFinishes 
