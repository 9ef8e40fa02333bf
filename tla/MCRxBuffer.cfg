SPECIFICATION LiveSpec
CONSTANTS
    m_rx_data_len = 10
    PacketLens = {4, 9}
    AnswerLens = {4, 13}
    MaxMessages = 3
INVARIANTS
    InBuffer
    BytesAccounted
    NothingLeftBehind
    CompleteIsAnswered
PROPERTIES
    AnswerReachesRequest
