\* One thread makes a call that may be retried once, another connects.
SPECIFICATION Spec
CONSTANTS
    Users = {u1, u2}
    Loop = loop
    Calls = {k1}
    Options = {{"retry"}}
    Callers = {u1}
    Controllers = {u2}
    MaxRetries = 1
    MaxConnections = 1
    MaxOps = 1
PROPERTY KeepsTrying
CHECK_DEADLOCK FALSE
