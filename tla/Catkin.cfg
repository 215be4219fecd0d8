\* Three sessions of catkin_make_isolated in a workspace of three packages.
SPECIFICATION Spec
CHECK_DEADLOCK FALSE
CONSTANTS
    Packages <- MCPackages
    Order <- MCOrder
    BuildType <- MCBuildType
    Depends <- MCDepends
    TestDepends <- MCTestDepends
    Format2 <- MCFormat2
    NoInstall = {"app"}
    NoLists = {"bare"}
    Options <- MCOptions
    Workspaces <- MCWorkspaces
    MaxSessions = 3
INVARIANTS ConfigurationSound EnvironmentSound
PROPERTIES ForeignSpaceUntouched
