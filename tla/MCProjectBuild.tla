--------------------------- MODULE MCProjectBuild ---------------------------
(***************************************************************************)
(* Three modules in directory "src" with the import relations of one       *)
(* import per file (two for the first), cycles included, a second path     *)
(* "out/a.dc" that may be a hard link to one of them, and output layouts   *)
(* some of which collide with an input, the manifest or one another.       *)
(***************************************************************************)
EXTENDS ProjectBuild

In(d, n) == [dir |-> d, name |-> n]
Src(n) == In("src", n)
Out(n) == In("out", n)

ListsUpTo(S, n) == UNION {[1 .. k -> S] : k \in 0 .. n}
SourceNames == {"a.dc", "b.dc", "c.dci"}

BuildDisks ==
    {[at      |-> [p \in Path |-> IF p.dir = "src" /\ p.name \in SourceNames THEN p.name
                                  ELSE IF p = Out("a.dc") THEN link ELSE Absent],
      imports |-> imports,
      module  |-> [f \in Inode |-> f],
      size    |-> [f \in Inode |-> 1],
      aliases |-> [f \in Inode |-> 0],
      shared  |-> {},
      fault   |-> [f \in Inode |-> "none"]] :
        link \in {Absent, "b.dc"},
        imports \in {im \in [Inode -> ListsUpTo(SourceNames, 2)] :
                        /\ Len(im["b.dc"]) <= 1 /\ Len(im["c.dci"]) <= 1
                        /\ \A f \in Inode : \A k \in 1 .. Len(im[f]) : im[f][k] # f
                        /\ Len(im["a.dc"]) = 2 => im["a.dc"][1] # im["a.dc"][2]}}

BuildRoots == {<<>>, <<Src("a.dc")>>, <<Src("b.dc")>>, <<Src("c.dci")>>,
               <<Src("a.dc"), Src("b.dc")>>, <<Src("b.dc"), Src("a.dc")>>,
               <<Out("a.dc"), Src("b.dc")>>}

Layout(objects, binary, assembly) ==
    [objects |-> objects, binary |-> binary, assembly |-> assembly, manifest |-> Src("toml")]

BuildLayouts ==
    LET plain == <<Out("0.o"), Out("1.o"), Out("2.o")>> IN
    {Layout(plain, Out("bin"), NoCall), Layout(plain, Out("bin"), Out("asm")),
     Layout(plain, Out("1.o"), NoCall), Layout(plain, Out("a.dc"), NoCall),
     Layout(plain, Src("b.dc"), NoCall), Layout(plain, Out("bin"), Src("toml")),
     Layout(<<Out("a.dc"), Out("1.o"), Out("2.o")>>, Out("bin"), NoCall)}

NoSearch == {<<>>}
=============================================================================
