SPECIFICATION Spec
CONSTANTS
    Threads = {t1, t2}
    Objects = {dir, o1, o2}
    Preopened = dir
    None = None
    Asked = {{"read"}, {"open", "read"}, {"read", "write"}}
    Granted = {"open", "read"}
    SizeBits = 6
    MaxRenumbers = 1
INVARIANT CountIsPositive
