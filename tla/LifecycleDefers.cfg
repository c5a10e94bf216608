SPECIFICATION ProcessSpec
CONSTANT Request = {r1, r2}
INVARIANT DefersWait
CHECK_DEADLOCK FALSE
