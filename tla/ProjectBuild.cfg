SPECIFICATION BuildSpec
CONSTANTS
    Dir = {"src", "out"}
    Name = {"a.dc", "b.dc", "c.dci", "0.o", "1.o", "2.o", "bin", "asm", "toml"}
    Interface = {"c.dci"}
    Inode = {"a.dc", "b.dc", "c.dci"}
    ModuleName = {"a.dc", "b.dc", "c.dci"}
    Disks <- BuildDisks
    RootLists <- BuildRoots
    SearchLists <- NoSearch
    Layouts <- BuildLayouts
    MaxRoots = 2
    MaxImportPaths = 1
    MaxDepth = 3
    MaxFiles = 3
    MaxFileBytes = 1
    MaxTotalBytes = 3
    MaxTypeAliases = 1
    BuiltinAliases = 1
    Absent = Absent
    NotRegular = NotRegular
    NoCall = NoCall
    NoName = NoName
INVARIANTS DriversKeepProtocol LinkOnlyThisBuild InputsPreserved
PROPERTY BuildTerminates
