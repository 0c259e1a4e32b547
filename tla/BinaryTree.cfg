CONSTANTS
    Values = {1, 2, 3}
    MaxInserts = 4
    MAX_NODES = 5
SPECIFICATION Spec
INVARIANT TraversalIsSortedSentence FreeTreeFreesAll
\* main() returns after its inserts (or faults): the final states have no successor.
CHECK_DEADLOCK FALSE
