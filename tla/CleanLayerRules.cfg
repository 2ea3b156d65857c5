CONSTANTS
    Nothing = Nothing
    i1 = i1
    i2 = i2
    Sprints = {A, B}
    Versions = {"v"}
    Columns = {"todo", "done"}
    StatusIds = {1, 2}
    NameCount = 3
    Worlds <- RuleWorlds
SPECIFICATION Spec
PROPERTY RulesPersist
CHECK_DEADLOCK FALSE
