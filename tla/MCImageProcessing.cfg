CONSTANTS
    Images <- MCImages
    Filters = {"conv_filter_x_y", "median_filter_x_y"}
    LUMINOSITY_R = 299
    LUMINOSITY_G = 587
    LUMINOSITY_B = 114
    FreedFieldGarbage = 1234567
SPECIFICATION Spec
INVARIANT VerdictMatchesReference FreedOnceIfFieldIntact
CHECK_DEADLOCK FALSE
