SPECIFICATION ProcessSpec
CONSTANT Request = {r1, r2}
INVARIANT NothingIsLeftBehind
CHECK_DEADLOCK FALSE
