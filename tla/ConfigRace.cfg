CONSTANTS
    a = a
    b = b
    c = c
    Doms = {a, b, c}
    Formats <- MCFormats
    Requests <- MCRequests
    Adjust <- MCAdjust
    ImageSize <- MCImageSize
    Offsets = {0, 2}
    Rates = {15, 30}
    HandlerCounts = {1}
SPECIFICATION Spec
SYMMETRY Interchangeable
INVARIANTS
    FormatAgreement
