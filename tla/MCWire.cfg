SPECIFICATION Spec
CONSTANTS
    Radix = 2
    Clients = {c1, c2}
    Python = {c2}
    c1 = c1
    c2 = c2
    MaxCalls <- MCMaxCalls
    Cuts = {1, 9}
    Ops <- MCOps
    Class <- MCClass
    Func <- MCFunc
    Args <- MCArgs
    Ret <- MCRet
    Values <- MCValues
    AnyValues <- MCAnyValues
    Objects <- MCObjects
    Object0 <- MCObject0
    Effect <- MCEffect
    Result <- MCResult
INVARIANT InStep
PROPERTY KeepsPromise CallEnds
CHECK_DEADLOCK FALSE
