\* Two workspaces, two clients and a server; commands are aborted and cut short.
SPECIFICATION Spec
CONSTANTS
    Roots = {"home", "other"}
    Home = "home"
    NoRoot = NoRoot
    ClientNames <- MCClientNames
    NoSite = NoSite
    Target <- MCTarget
    MaxCommands = 3
    MaxFiles = 1
INVARIANTS
    WorkspacesTypeOK
    DirectoriesExist
    InstalledIsWhole
    ServicesHaveDirectories
PROPERTIES
    SetupSucceeds
CHECK_DEADLOCK FALSE
