\* The symbols end in "done", "thrown" or, above DrawUpTo, with the function patterns.
CONSTANTS
    Calls <- MCCalls
    CopyMasks <- MCCopyMasks
    DrawUpTo <- MCDrawUpTo
SPECIFICATION Spec
CHECK_DEADLOCK FALSE
INVARIANTS
    FitsTightly
    ReadsBack
    BestMask
