SPECIFICATION Spec
CONSTANTS
    m_block_size = 3
    header_size = 2
    overhead = 2
    MAX_BLOCKS = 1
    Bytes = {0, 1}
    Header = header
    Zero = zero
    Garbage = garbage
    MaxSize = 10
    Inputs <- Buffers
VIEW FileView
INVARIANTS
    LiteBlocksAuthentic
PROPERTIES
    CrashContained
    ImplementsByteStream
