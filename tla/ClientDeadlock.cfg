\* Two threads; one unsubscribes the datatype of the key, the other builds the key.
SPECIFICATION Spec
CONSTANTS
    u1 = u1
    u2 = u2
    Users = {u1, u2}
    Nobody = nobody
    Keys = {"k"}
    ValidKeys = {"k"}
    Priorities = {1}
    MaxHandlers = 0
    Scenarios <- MCUnsubscribe
PROPERTY DisabledIsDetached
\* Users may stop making calls.
CHECK_DEADLOCK FALSE
