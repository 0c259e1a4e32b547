CONSTANTS
    Width = 8
    Inputs <- MCNonZero
    MaxCount = 10
SPECIFICATION Spec
INVARIANT ResultIsLzcnt
PROPERTY Returns
\* After the return the function has no further step.
CHECK_DEADLOCK FALSE
