CONSTANTS
    Sections <- MCSections
    SectionLen <- MCSectionLen
    Packets <- MCPackets
    MIN_SECTION_LEN = 4
    PSI_MAX_SECTION_LEN = 9
SPECIFICATION AssemblerSpec
INVARIANTS
    BufferBounds
    UnbrokenHandled
