\* The patterns of Handler, in its order.
SPECIFICATION RouterSpec
PROPERTY AllRoutesRegistered
\* The last pattern ends the registration, and so does a panic.
CHECK_DEADLOCK FALSE
