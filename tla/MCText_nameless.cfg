SPECIFICATION NamelessSpec
CONSTANT Units = {"inline"}
INVARIANT ClosedIsFound
CHECK_DEADLOCK FALSE
