CONSTANTS
    MaxIds = 2
    MaxConnections = 2
SPECIFICATION FairSpec
INVARIANTS
    NothingLeftBehind
    OpenMeansWhole
    TrustedAreWelcomed
    StopClearsAll
PROPERTIES
    PlacesComeBack
