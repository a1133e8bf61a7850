\* Two sends, the second before the first is mined.
SPECIFICATION NonceSpec
CONSTANTS Sends = {x1, x2}
INVARIANT NoncesAreTheirOwn
CHECK_DEADLOCK FALSE
