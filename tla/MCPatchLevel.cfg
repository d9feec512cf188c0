CONSTANTS
    Nil = Nil
    Malformed = Malformed
SPECIFICATION Spec
INVARIANT PatchedDeviceAccepted
