--------------------------- MODULE MCModuleLoader ---------------------------
(***************************************************************************)
(* Instances of ModuleLoader.  GraphDisks: every import relation of three  *)
(* files in one directory, with repeated imports and cycles.  PathDisks:   *)
(* two directories, files reachable by two paths, missing and irregular    *)
(* entries, import directories, faults and byte limits.  ShadowDisks: one  *)
(* name for different files in two directories.  AliasDisks: files that    *)
(* declare the same alias name or, together, too many aliases.             *)
(***************************************************************************)
EXTENDS ModuleLoader

ListsUpTo(S, n) == UNION {[1 .. k -> S] : k \in 0 .. n}
In(d, n) == [dir |-> d, name |-> n]

\* Directory d1 only; file names are their own physical files.
GraphDisks ==
    {[at      |-> [p \in Path |-> IF p.dir = "d1" THEN p.name ELSE Absent],
      imports |-> imports,
      module  |-> [f \in Inode |-> f],
      size    |-> [f \in Inode |-> 1],
      aliases |-> [f \in Inode |-> 1],
      shared  |-> {},
      fault   |-> [f \in Inode |-> "none"]] :
         imports \in {im \in [Inode -> ListsUpTo(Name, 2)] : Len(im["c.dci"]) <= 1}}

\* "a.dc" and "c.dci" stand for the physical files; no path is named "b.dc".
Healthy == [f \in Inode |-> "none"]
PathDisk(at, imports, module, size, fault) ==
    [at      |-> [p \in Path |-> IF p.name = "b.dc" THEN Absent ELSE at[p]],
     imports |-> imports, module |-> module, size |-> size,
     aliases |-> [f \in Inode |-> IF f = "a.dc" THEN 1 ELSE size[f] + 1],
     shared |-> {}, fault |-> fault]

TwoNames == {p \in Path : p.name # "b.dc"}
Layouts == {at \in [TwoNames -> {"a.dc", "c.dci", Absent, NotRegular}] : at[In("d1", "a.dc")] = "a.dc"}
OneImport == {im \in [Inode -> ListsUpTo({"a.dc", "c.dci"}, 1)] : im["b.dc"] = <<>>}
Small == [f \in Inode |-> 1]
Named == [f \in Inode |-> f]

PathDisks ==
    {PathDisk(at, imports, Named, Small, Healthy) : at \in Layouts, imports \in OneImport}
    \cup {PathDisk(at, [f \in Inode |-> IF f = "a.dc" THEN <<"c.dci">> ELSE <<>>], module, size, fault) :
             at \in {a \in Layouts : a[In("d1", "c.dci")] = "c.dci" /\ a[In("d2", "c.dci")] = "a.dc"},
             module \in {Named, [f \in Inode |-> "a.dc"], [f \in Inode |-> NoName]},
             size \in {s \in [Inode -> 1 .. 3] : s["b.dc"] = 1},
             fault \in {[Healthy EXCEPT ![f] = k] : f \in {"a.dc", "c.dci"},
                           k \in {"none", "open", "preamble", "program", "declaration"}}}

\* Two different interfaces with one name, beside the importer and elsewhere.
ShadowDisks ==
    {PathDisk([p \in TwoNames |-> IF p.name = "a.dc" THEN (IF p.dir = "d1" THEN "a.dc" ELSE Absent)
                                  ELSE at[p.dir]],
              [f \in Inode |-> IF f = "a.dc" THEN <<"c.dci">> ELSE <<>>], Named, Small, Healthy) :
        at \in [Dir -> {"b.dc", "c.dci", Absent, NotRegular}]}

\* Two of the three files declare the same alias name, or all declare several.
FewImports == {g \in GraphDisks : \A f \in Inode : Len(g.imports[f]) = 2 => f = "a.dc"}
AliasDisks ==
    {[d EXCEPT !.shared = S] : d \in FewImports, S \in {{"b.dc", "c.dci"}, {"a.dc", "c.dci"}}}
    \cup {[d EXCEPT !.aliases = [f \in Inode |-> n]] : d \in FewImports, n \in 2 .. 3}

AllDisks == GraphDisks \cup PathDisks \cup ShadowDisks \cup AliasDisks

Roots == ListsUpTo({In("d1", n) : n \in Name}, 2)
         \cup {<<In("d1", "a.dc"), p>> : p \in {In("d2", "a.dc"), In("d2", "c.dci")}}
         \cup {<<In("d1", "a.dc"), In("d1", "b.dc"), In("d1", "c.dci")>>}
SearchDirs == {<<>>, <<"d2">>, <<"d2", "d2">>}

\* A chain a -> b -> c whose files may be listed deepest first.
ChainDisks == {d \in GraphDisks : d.imports["a.dc"] = <<"b.dc">>
                                  /\ d.imports["b.dc"] = <<"c.dci">> /\ d.imports["c.dci"] = <<>>}
=============================================================================
