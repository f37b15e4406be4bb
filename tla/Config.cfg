CONSTANTS
    a = a
    b = b
    c = c
    Doms = {a, b, c}
    Formats <- MCFormats
    Requests <- MCRequests
    Adjust <- MCAdjust
    ImageSize <- MCImageSize
    Offsets = {0, 2}
    Rates = {15, 30}
    HandlerCounts = {2, 3}
SPECIFICATION Spec
SYMMETRY Interchangeable
INVARIANTS
    ImageSizeStays
    FramesFit
    GrantsAreTaken
    ShortIsNoticed
PROPERTIES
    SharesFormat
