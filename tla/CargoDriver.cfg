SPECIFICATION Spec
CONSTANTS
    Packages = {app, dep}
    RmcRoot <- MCRmcRoot
    CFiles <- MCCFiles
    Toml <- MCToml
    CommandLines <- MCCommandLines
    None = None
    MaxVersion = 1
    MaxRuns = 2
INVARIANTS CoversCrate FlagsOfRun   
 
CHECK_DEADLOCK FALSE
