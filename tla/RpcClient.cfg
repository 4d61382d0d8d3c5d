\* One thread makes a call, another connects or disconnects, a network that
\* grants two connections. The system rests when the call is completed and
\* the operation is spent.
SPECIFICATION Spec
CONSTANTS
    Users = {u1, u2}
    Loop = loop
    Calls = {k1}
    Options = {{"retry"}, {"failFast"}}
    Callers = {u1}
    Controllers = {u2}
    MaxRetries = 1
    MaxConnections = 2
    MaxOps = 1
INVARIANTS NoStrandedCall
PROPERTIES ImplementsCalls
CHECK_DEADLOCK FALSE
