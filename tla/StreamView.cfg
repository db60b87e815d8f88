SPECIFICATION FairSpec
CONSTANTS
    MaxEvents = 2
    QSize = 2
    WireCap = 1
    MaxDrops = 1
    Overlays = TRUE

    
PROPERTIES
    NoSilentLoss
    EndReaches
