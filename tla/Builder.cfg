SPECIFICATION Spec
CONSTANTS
    Modules <- MCModules
    OwnModules = {"own"}
    Revision <- MCRevision
    Worlds <- MCWorlds
    WithObjects = {"a", "b"}
    Parent <- MCParent
INVARIANTS LoadsAreWhole ServesWhatIsLoaded
PROPERTY CallsReturn
