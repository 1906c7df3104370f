CONSTANTS
    Buf = {b1, b2, b3}
    Thread = {t1, t2, t3}
    NoBuf = NoBuf
    msg_size = 1
    MaxRequest = 2
SPECIFICATION Spec
INVARIANTS TypeOK OneOwner DerefInBounds
PROPERTIES NoMsgsMeansAllOut StoreContract
