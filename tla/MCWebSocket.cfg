SPECIFICATION Spec
CONSTANTS
    Radix = 16
    Commands <- MCCommands
    Args <- MCArgs
    Reply <- MCReply
    Odd <- MCOdd
    Masks <- MCMasks
    Xored <- MCXored
    MaxFrames = 2
    Cuts = {1, 9}
    SMALL_STREAM = 8
    MediumMax = 14
    WEBSOCK_READ_STR_LEN = 30
    Margin = 14
    KOHERON_READ_STR_LEN = 20
    WEBSOCK_SEND_BUF_LEN = 30
INVARIANTS InOrder InBuffer RepliesWhole
PROPERTIES CommandsRun SessionOver
CHECK_DEADLOCK FALSE
