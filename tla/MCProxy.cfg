\* One request through the proxy and one invocation; they end.
SPECIFICATION ProxySpec
CONSTANTS
    Code = {200, 304}
    Size = {0, 1, 2}
    Declared <- MCDeclared
    Absent = Absent
    Garbage = Garbage
    MaxCalls = 3
INVARIANTS
    HeadFirst
    BodyIsAPrefix
    ReturnIsAnswered
    ClientSeesTheReply
CHECK_DEADLOCK FALSE
