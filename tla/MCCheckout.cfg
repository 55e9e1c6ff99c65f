CONSTANTS
    x = x
    y = y
    z = z
    NoBlob = NoBlob
SPECIFICATION Spec
INVARIANT SafeLosesNothing
