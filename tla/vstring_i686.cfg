\* A size_t as on i686, where it holds twice LA_VSTR_SIZE_MAX and no more.
CONSTANTS
    InitialSize = 4
    SizeMax = 31
    SizeModuli = {64}
    Lengths = {0, 1, 5, 15, 16, 31}
SPECIFICATION StringSpec
PROPERTY
    LimitIsEnforced
CHECK_DEADLOCK FALSE
