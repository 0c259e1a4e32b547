CONSTANTS
    Seeds <- MCSeeds
    MaxDepth = 81
    StackFrames = 200
SPECIFICATION Spec
INVARIANT StackBounded
PROPERTY BacktraceEventuallyShown
\* After show_backtrace the calls return and main() waits for a key: the
\* jumper has no further step.
CHECK_DEADLOCK FALSE
