SPECIFICATION SyncSpec
CONSTANTS
 Bits = {b0, b1}
 SyncDepth = 3
INVARIANTS SyncInv CaptureIsWhole
PROPERTIES ImplementsChannel
