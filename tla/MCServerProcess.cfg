CONSTANTS
    Nil = Nil
    Empty = Empty
    Servers = {s}
    Certgens = {g}
    MaxGenerations = 2
SPECIFICATION Spec
INVARIANTS TypeOK ServesOneGeneration DebugCAIsCurrent NoRequestCutEarly
PROPERTIES ExistingFilesAreKept StopsWhenToldOrBroken
CHECK_DEADLOCK FALSE
