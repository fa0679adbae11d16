SPECIFICATION Spec
CONSTANTS
    ChIds = {i1, i2, i3}
    Channels = {c1}
    None = none
    Sessions = {s1, s2}
    Types = {"ram", "nim", "es"}
    Programs = {{"video", "audio", "pcr"}, {"audio"}, {}}
    Direct = {{"audio", "desc"}, {"video"}}
    AppDevices = {"tsg", "dmx", "decv"}
INVARIANTS TypeOK MarkedIsOurs NothingLeftOpen EsDecoderStays SectionKeepsItsChannel StreamsOwnTheirChannels
SYMMETRY Symmetry
