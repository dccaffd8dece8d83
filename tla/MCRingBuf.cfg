\* Three messages of a block; up to four of other lengths.
CONSTANTS
    Base = 4
    Buffers <- MCBuffers
    Messages <- MCMessages
SPECIFICATION RingSpec
PROPERTIES ImplementsByteFifo
