SPECIFICATION Spec
CONSTANTS
    m_block_size = 2
    max_block_number = 2
    Bytes = {0, 1}
    Hole = hole
    Garbage = garbage
    Headers = {h1}
    NoHeader = noheader
    MaxSize = 7
    Inputs <- Buffers
VIEW FilesView
INVARIANTS
    BlocksAuthentic
    MetaFitsData
    CleanMetaIsCovered
    HeaderKept
PROPERTY
    ImplementsByteStream
