SPECIFICATION Spec
CONSTANTS
    Callers = {c1, c2}
    Boxes = {0, 1}
    Sandboxes = {s1, s2, s3}
    NoSandbox = NoSandbox
INVARIANT
    OneOperationPerBox
