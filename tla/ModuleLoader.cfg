SPECIFICATION Spec
CONSTANTS
    Dir = {"d1", "d2"}
    Name = {"a.dc", "b.dc", "c.dci"}
    Interface = {"c.dci"}
    Inode = {"a.dc", "b.dc", "c.dci"}
    ModuleName = {"a.dc", "b.dc", "c.dci"}
    Disks <- AllDisks
    RootLists <- Roots
    SearchLists <- SearchDirs
    MaxRoots = 2
    MaxImportPaths = 1
    MaxDepth = 2
    MaxFiles = 3
    MaxFileBytes = 2
    MaxTotalBytes = 3
    MaxTypeAliases = 4
    BuiltinAliases = 1
    Absent = Absent
    NotRegular = NotRegular
    NoCall = NoCall
    NoName = NoName
INVARIANTS TypeOK DependencyFirst PhysicalFilesOnce GraphIsImportRelation
    AliasesFollowImports BudgetRespected AnalyzedAfterDependencies
PROPERTIES CycleIsReal PrepareTerminates
