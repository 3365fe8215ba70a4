SPECIFICATION Spec
CONSTANTS
    Dests <- TwoDests
    Sizes = {1, 300, 1472}
    MaxWire = 2
PROPERTIES UdpPacketsArrive
