SPECIFICATION Spec
CONSTANTS
    Bits = 8
    Divide = 32
    Enable = 7
PROPERTIES ExchangesBytes SpiTiming RequestEnds
