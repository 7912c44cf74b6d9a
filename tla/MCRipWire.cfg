SPECIFICATION Spec
CONSTANTS
    Network <- MCNetwork
    IfIndex <- MCIfIndex
    Link = 1
    MaxEntries = 2
    MaxLocal = 3
    ForeignEntry <- MCForeignEntry
    ForeignLength = {3, 4, 24}
    None = None
INVARIANTS
    LearnsWhatWasConfigured
    KernelMeansTheSame
PROPERTIES
    AnnouncesWhatIsConfigured
    OwnDatagramsUnderstood
