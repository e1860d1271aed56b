------------------------- MODULE ModuleLoaderProofs -------------------------
(***************************************************************************)
(* For every file system, root list, search list and set of limits: the    *)
(* loader's tables are well typed, the analysis order it publishes is a    *)
(* topological order of the import graph, and no unit reaches the compiler *)
(* before everything it imports has been analyzed and published (first     *)
(* part, inductive invariant IInv); and the tables say of the files what   *)
(* the files' own import statements say: graph, aliases, bytes, roots and  *)
(* reported cycles (second part, inductive invariant Provenance).          *)
(***************************************************************************)
EXTENDS ModuleLoader, SequenceTheorems, FiniteSetTheorems, WellFoundedInduction, TLAPS

\* What a file's imports have become so far is loaded.
DependenciesLoaded == \A i \in Ids : m_graph[i].dependencies \subseteq Loaded

\* The files being loaded are known, unfinished and different from each other.
FramesOpen ==
    /\ \A k \in 1 .. Len(m_active) : m_active[k].id \in Ids /\ ~m_records[m_active[k].id].loaded
    /\ \A j, k \in 1 .. Len(m_active) : m_active[j].id = m_active[k].id => j = k

ReturnedLoaded == returned # Missing => returned \in Loaded

\* Every node stands for a file that was opened.
FilesRead == \A i \in Ids : disk.at[m_graph[i].path] \in Inode

\* Nothing leaves the loader before discovery has succeeded, and outside of a
\* discovery and of its success there is nothing to take.
NothingTaken ==
    /\ phase # "ready" => \A i \in Ids : ~m_records[i].taken
    /\ phase = "idle" => m_graph = <<>>

Structure ==
    /\ DependencyFirst /\ DependenciesLoaded /\ FramesOpen /\ ReturnedLoaded
    /\ FilesRead /\ NothingTaken /\ AnalyzedAfterDependencies

IInv == TypeOK /\ Structure

-----------------------------------------------------------------------------
\* Empty tables satisfy everything.
TablesEmpty ==
    /\ m_graph = <<>> /\ m_records = <<>> /\ m_active = <<>> /\ m_order = <<>>
    /\ returned = Missing

\* The invariant holds of a loader that has read nothing.
LEMMA EmptyTables == TablesEmpty => Structure
<1> SUFFICES ASSUME TablesEmpty PROVE Structure
  OBVIOUS
<1>1. Ids = {} /\ Len(m_order) = 0 /\ Len(m_active) = 0
  BY DEF Ids, TablesEmpty
<1>2. Loaded = {} /\ Ordered = {}
  BY <1>1 DEF Loaded, Ordered
<1> QED
  BY <1>1, <1>2 DEF TablesEmpty, Structure, DependencyFirst, DependenciesLoaded, FramesOpen,
     ReturnedLoaded, FilesRead, NothingTaken, AnalyzedAfterDependencies

\* A loader that was just constructed satisfies the invariant.
LEMMA InitIInv == Init => IInv
<1> SUFFICES ASSUME Init PROVE IInv
  OBVIOUS
<1>1. TypeOK
  BY LoaderAssumption DEF Init, TypeOK, Missing
<1>2. Structure
  BY EmptyTables DEF Init, TablesEmpty
<1> QED
  BY <1>1, <1>2 DEF IInv

\* The catch block of prepare restores the empty state.
LEMMA FailIInv ==
    ASSUME TypeOK, NEW kind \in {"kind", "cycle", "limit", "source", "import", "alias", "body"},
           Fail(kind)
    PROVE  IInv'
<1>1. TypeOK'
  BY DEF TypeOK, Fail, ClearTables, Missing
<1>2. Structure'
  <2>1. TablesEmpty'
    BY DEF TablesEmpty, Fail, ClearTables
  <2> QED
    BY <2>1, EmptyTables, PTL
<1> QED
  BY <1>1, <1>2 DEF IInv

\* A step that touches none of the tables keeps their structure, as long as
\* the result it hands back is a loaded file.
LEMMA TablesKept ==
    ASSUME Structure, UNCHANGED <<disk, m_graph, m_records, m_active, m_order>>,
           ReturnedLoaded', phase' \in {phase, "ready"}
    PROVE  Structure'
<1>1. Ids' = Ids /\ Loaded' = Loaded
  BY DEF Ids, Loaded
<1>2. \A i \in Ids : gather(i)' = gather(i)
  BY <1>1 DEF gather, ClosedUnderDependencies
<1>3. DependencyFirst'
  <2>1. Ordered' = Ordered /\ \A k \in 1 .. Len(m_order) : OrderedBefore(k)' = OrderedBefore(k)
    BY DEF Ordered, OrderedBefore
  <2> QED
    BY <1>1, <2>1 DEF Structure, DependencyFirst
<1>4. DependenciesLoaded' /\ FramesOpen' /\ FilesRead' /\ NothingTaken'
  BY <1>1 DEF Structure, DependenciesLoaded, FramesOpen, FilesRead, NothingTaken
<1>5. AnalyzedAfterDependencies'
  BY <1>1, <1>2 DEF Structure, AnalyzedAfterDependencies
<1> QED
  BY <1>3, <1>4, <1>5 DEF Structure

\* While prepare runs nothing has been taken, so the client's part of the
\* invariant cannot be disturbed by discovery.
LEMMA NothingTakenSuffices ==
    ASSUME phase' # "ready", NothingTaken'
    PROVE  AnalyzedAfterDependencies'
  BY DEF NothingTaken, AnalyzedAfterDependencies

\* The frame on top of the stack is the last one.
LEMMA TopFrame ==
    ASSUME TypeOK, Structure, m_active # <<>>
    PROVE  /\ Len(m_active) \in 1 .. Len(m_active)
           /\ Top = m_active[Len(m_active)] /\ Top \in Frame
           /\ Top.id \in Ids /\ ~m_records[Top.id].loaded /\ TopFile \in Inode
<1>1. Len(m_active) \in Nat \ {0}
  BY DEF TypeOK
<1>2. Top \in Frame
  BY <1>1 DEF TypeOK, Top
<1>3. Top.id \in Ids /\ ~m_records[Top.id].loaded
  BY <1>1 DEF Structure, FramesOpen, Top
<1>4. TopFile \in Inode
  BY <1>3 DEF Structure, FilesRead, TopFile
<1> QED
  BY <1>1, <1>2, <1>3, <1>4 DEF Top

-----------------------------------------------------------------------------
\* A new file is appended to the graph and pushed on the stack.
LEMMA LoadPreambleIInv == IInv /\ LoadPreamble => IInv'
<1> SUFFICES ASSUME IInv, LoadPreamble PROVE IInv'
  OBVIOUS
<1> USE DEF IInv
<1> DEFINE id   == Len(m_graph) + 1
           file == disk.at[call]
           node == [path |-> call, is_interface |-> isInterface(call), dependencies |-> {}]
           rec  == [aliases |-> {}, loaded |-> FALSE, taken |-> FALSE, completed |-> FALSE]
           top  == [id |-> id, next |-> 1, aliases |-> {}]
<1>1. /\ m_graph' = Append(m_graph, node) /\ m_records' = Append(m_records, rec)
      /\ m_active' = Append(m_active, top) /\ m_order' = m_order
      /\ disk' = disk /\ phase' = phase /\ returned' = returned /\ call' = NoCall
      /\ m_total_bytes' = m_total_bytes + disk.size[file]
  BY DEF LoadPreamble
<1>2. call \in Path /\ phase = "discover" /\ file \in Inode
  BY DEF LoadPreamble, Fresh, Readable, TypeOK
<1>3. node \in Node /\ rec \in Record /\ top \in Frame /\ id \in Nat
  BY <1>2 DEF Node, Record, Frame, TypeOK, isInterface
<1>4. TypeOK'
  <2>1. disk.size[file] \in Nat /\ disk.module[file] \in ModuleName \cup {NoName}
    BY <1>2 DEF TypeOK, Disk
  <2>2. m_total_bytes' \in Nat
    <3>1. m_total_bytes \in Nat
      BY DEF TypeOK
    <3> HIDE DEF file
    <3> QED
      BY <1>1, <2>1, <3>1
  <2>3. m_module_names' \subseteq ModuleName
    BY <2>1 DEF LoadPreamble, PreambleAccepted, TypeOK
  <2>4. m_graph' \in Seq(Node) /\ m_records' \in Seq(Record) /\ m_active' \in Seq(Frame)
    BY <1>1, <1>3 DEF TypeOK
  <2>5. Len(m_records') = Len(m_graph')
    BY <1>1 DEF TypeOK
  <2>6. /\ disk' \in Disk /\ phase' \in {"idle", "discover", "ready"}
        /\ UNCHANGED <<error, roots, next_root, m_import_paths, m_order, m_alias_bindings>>
        /\ returned' \in Nat /\ call' \in Path \cup {NoCall} /\ phase' = "discover"
    BY <1>1, <1>2 DEF LoadPreamble, TypeOK
  <2> QED
    BY <2>2, <2>3, <2>4, <2>5, <2>6 DEF TypeOK
<1>5. /\ Ids' = Ids \cup {id} /\ id \notin Ids
      /\ \A i \in Ids : m_graph'[i] = m_graph[i] /\ m_records'[i] = m_records[i]
      /\ m_graph'[id] = node /\ m_records'[id] = rec
  <2>1. /\ m_graph \in Seq(Node) /\ m_records \in Seq(Record)
        /\ Len(m_records) = Len(m_graph) /\ Len(m_graph) \in Nat
    BY DEF TypeOK
  <2>2. m_graph' = Append(m_graph, node) /\ m_records' = Append(m_records, rec)
    BY <1>1
  <2> HIDE DEF node, rec
  <2> QED
    BY <1>3, <2>1, <2>2 DEF Ids
<1>6. Loaded' = Loaded
  BY <1>5 DEF Loaded
<1>7. DependencyFirst'
  <2>1. \A k \in 1 .. Len(m_order) : m_order[k] \in Ids
    BY DEF Structure, DependencyFirst, Ordered, Loaded
  <2>2. Ordered' = Ordered /\ \A k \in 1 .. Len(m_order) : OrderedBefore(k)' = OrderedBefore(k)
    BY <1>1 DEF Ordered, OrderedBefore
  <2>3. m_order' = m_order
    BY <1>1
  <2> QED
    BY <1>5, <1>6, <2>1, <2>2, <2>3 DEF Structure, DependencyFirst
<1>8. DependenciesLoaded'
  BY <1>5, <1>6 DEF Structure, DependenciesLoaded
<1>9. FramesOpen'
  <2>1. /\ Len(m_active') = Len(m_active) + 1 /\ Len(m_active) \in Nat
        /\ m_active'[Len(m_active) + 1] = top
        /\ \A k \in 1 .. Len(m_active) : m_active'[k] = m_active[k]
    BY <1>1, <1>3 DEF TypeOK
  <2>2. \A k \in 1 .. Len(m_active) : m_active[k].id \in Ids
    BY DEF Structure, FramesOpen
  <2>3. top.id = id
    OBVIOUS
  <2> HIDE DEF id, top, rec, node
  <2>4. \A k \in 1 .. Len(m_active') : k \in 1 .. Len(m_active) \/ k = Len(m_active) + 1
    BY <2>1
  <2>5. \A k \in 1 .. Len(m_active') :
           m_active'[k].id \in Ids' /\ ~m_records'[m_active'[k].id].loaded
    BY <1>5, <2>1, <2>2, <2>3, <2>4 DEF Structure, FramesOpen, rec
  <2>6. \A j, k \in 1 .. Len(m_active') : m_active'[j].id = m_active'[k].id => j = k
    BY <1>5, <2>1, <2>2, <2>3, <2>4 DEF Structure, FramesOpen
  <2> QED
    BY <2>5, <2>6 DEF FramesOpen
<1>10. ReturnedLoaded'
  BY <1>1, <1>6 DEF Structure, ReturnedLoaded
<1>11. FilesRead'
  <2>1. disk' = disk /\ disk.at[node.path] \in Inode
    BY <1>1, <1>2
  <2> HIDE DEF node, rec, id
  <2> QED
    BY <1>5, <2>1 DEF Structure, FilesRead
<1>12. NothingTaken'
  <2>1. phase' = "discover" /\ ~rec.taken /\ phase # "ready"
    BY <1>1, <1>2
  <2> HIDE DEF node, rec, id
  <2> QED
    BY <1>5, <2>1 DEF Structure, NothingTaken
<1> QED
  BY <1>1, <1>2, <1>4, <1>7, <1>8, <1>9, <1>10, <1>11, <1>12, NothingTakenSuffices DEF Structure

-----------------------------------------------------------------------------
\* The importer records the edge to the file it got back.
LEMMA ImportReturnedIInv == IInv /\ ImportReturned => IInv'
<1> SUFFICES ASSUME IInv, ImportReturned PROVE IInv'
  OBVIOUS
<1> USE DEF IInv
<1> DEFINE n == Len(m_active)
           t == Top.id
           frame == [id |-> t, next |-> Top.next + 1, aliases |-> InheritedAliases]
<1>1. /\ m_graph' = [m_graph EXCEPT ![t].dependencies = @ \cup {returned}]
      /\ m_active' = [m_active EXCEPT ![n] = frame]
      /\ returned' = Missing /\ returned # Missing /\ m_active # <<>>
      /\ UNCHANGED <<disk, phase, error, roots, next_root, call, m_import_paths, m_records,
                     m_order, m_module_names, m_alias_bindings, m_total_bytes>>
  BY DEF ImportReturned
<1>2. /\ n \in 1 .. n /\ Top = m_active[n] /\ Top \in Frame
      /\ t \in Ids /\ ~m_records[t].loaded
  BY <1>1, TopFrame
<1>3. returned \in Loaded /\ returned \in Ids /\ phase = "discover"
  BY <1>1 DEF Structure, ReturnedLoaded, Loaded, TypeOK
<1>0. m_graph \in Seq(Node) /\ m_graph[t] \in Node /\ returned \in Nat
  BY <1>2 DEF TypeOK, Ids
<1> DEFINE node == [m_graph[t] EXCEPT !.dependencies = @ \cup {returned}]
<1>node. /\ node \in Node /\ node.path = m_graph[t].path
         /\ node.dependencies = m_graph[t].dependencies \cup {returned}
  BY <1>0 DEF Node
<1>set. m_graph' = [m_graph EXCEPT ![t] = node]
  BY <1>1
<1> HIDE DEF node
<1>4. /\ m_graph' \in Seq(Node) /\ Len(m_graph') = Len(m_graph) /\ Ids' = Ids
      /\ m_graph'[t] = node
  BY <1>2, <1>0, <1>node, <1>set DEF Ids
<1>others. \A i \in Ids : i # t => m_graph'[i] = m_graph[i]
  BY <1>2, <1>0, <1>set DEF Ids
<1>paths. \A i \in Ids : m_graph'[i].path = m_graph[i].path
  BY <1>4, <1>node, <1>others
<1>5. InheritedAliases \subseteq Nat
  <2>1. m_records[returned] \in Record
    BY <1>3 DEF TypeOK, Ids
  <2> QED
    BY <1>2, <2>1 DEF InheritedAliases, Frame, Record
<1>6. frame \in Frame
  BY <1>2, <1>5 DEF Frame
<1>7. /\ m_active' \in Seq(Frame) /\ Len(m_active') = n
      /\ \A k \in 1 .. n : m_active'[k].id = m_active[k].id
  BY <1>1, <1>2, <1>6 DEF TypeOK
<1>8. TypeOK'
  BY <1>1, <1>3, <1>4, <1>7 DEF TypeOK, Missing
<1> HIDE DEF t, n, frame
<1>9. Loaded' = Loaded
  BY <1>1, <1>4 DEF Loaded
<1>10. DependencyFirst'
  <2>1. \A k \in 1 .. Len(m_order) : m_order[k] \in Ids /\ m_order[k] # t
    BY <1>2 DEF Structure, DependencyFirst, Ordered, Loaded
  <2>2. Ordered' = Ordered /\ \A k \in 1 .. Len(m_order) : OrderedBefore(k)' = OrderedBefore(k)
    BY <1>1 DEF Ordered, OrderedBefore
  <2>3. m_order' = m_order
    BY <1>1
  <2>4. \A k \in 1 .. Len(m_order) : m_graph'[m_order[k]] = m_graph[m_order[k]]
    BY <1>others, <2>1
  <2> QED
    BY <1>9, <2>2, <2>3, <2>4 DEF Structure, DependencyFirst
<1>11. DependenciesLoaded'
  <2> SUFFICES ASSUME NEW i \in Ids PROVE m_graph'[i].dependencies \subseteq Loaded
    BY <1>4, <1>9 DEF DependenciesLoaded
  <2>1. m_graph[i].dependencies \subseteq Loaded
    BY DEF Structure, DependenciesLoaded
  <2>2. CASE i = t
    BY <1>3, <1>4, <1>node, <2>1, <2>2
  <2>3. CASE i # t
    BY <1>others, <2>1, <2>3
  <2> QED
    BY <2>2, <2>3
<1>12. FramesOpen'
  <2>1. m_records' = m_records /\ Ids' = Ids
    BY <1>1, <1>4
  <2>2. Len(m_active') = Len(m_active) /\ \A k \in 1 .. Len(m_active) : m_active'[k].id = m_active[k].id
    BY <1>7 DEF n
  <2> QED
    BY <2>1, <2>2 DEF Structure, FramesOpen
<1>13. ReturnedLoaded'
  BY <1>1 DEF ReturnedLoaded
<1>14. FilesRead'
  <2>1. disk' = disk
    BY <1>1
  <2>2. \A i \in Ids : m_graph'[i].path = m_graph[i].path /\ disk.at[m_graph[i].path] \in Inode
    BY <1>paths DEF Structure, FilesRead
  <2> QED
    BY <1>4, <2>1, <2>2 DEF FilesRead
<1>15. NothingTaken'
  <2>1. phase' = phase /\ m_records' = m_records
    BY <1>1
  <2> QED
    BY <1>4, <2>1 DEF Structure, NothingTaken
<1>16. phase' # "ready"
  BY <1>1, <1>3
<1> QED
  BY <1>8, <1>10, <1>11, <1>12, <1>13, <1>14, <1>15, <1>16, NothingTakenSuffices DEF Structure

-----------------------------------------------------------------------------
\* A finished file leaves the stack and closes the order.
LEMMA FileLoadedIInv == IInv /\ FileLoaded => IInv'
<1> SUFFICES ASSUME IInv, FileLoaded PROVE IInv'
  OBVIOUS
<1> USE DEF IInv
<1> DEFINE n == Len(m_active)
           t == Top.id
           declared == disk.aliases[TopFile]
           first == Len(m_alias_bindings) + 1
           rec == [m_records[t] EXCEPT !.aliases = Top.aliases \cup (first .. first + declared - 1),
                                       !.loaded = TRUE]
<1>1. /\ m_alias_bindings' = m_alias_bindings \o [k \in 1 .. declared |-> TopFile]
      /\ m_records' = [m_records EXCEPT ![t] = rec]
      /\ m_active' = SubSeq(m_active, 1, n - 1)
      /\ m_order' = Append(m_order, t)
      /\ returned' = t
      /\ UNCHANGED <<disk, phase, error, roots, next_root, call, m_import_paths, m_graph,
                     m_module_names, m_total_bytes>>
      /\ m_active # <<>> /\ phase = "discover"
  BY DEF FileLoaded, AtBody, InFile, Running
<1>2. /\ n \in 1 .. n /\ Top = m_active[n] /\ Top \in Frame
      /\ t \in Ids /\ ~m_records[t].loaded /\ TopFile \in Inode
  BY <1>1, TopFrame
<1>3. declared \in Nat /\ first \in Nat
  BY <1>2 DEF TypeOK, Disk
<1>4. m_alias_bindings' \in Seq(Inode)
  <2>1. m_alias_bindings \in Seq(Inode)
    BY DEF TypeOK
  <2> HIDE DEF declared
  <2>2. [k \in 1 .. declared |-> TopFile] \in Seq(Inode)
    BY <1>2, <1>3
  <2> QED
    BY <1>1, <2>1, <2>2
<1>5. rec \in Record /\ rec.loaded /\ rec.taken = m_records[t].taken
  <2>1. m_records[t] \in Record
    BY <1>2 DEF TypeOK, Ids
  <2>2. Top.aliases \cup (first .. first + declared - 1) \subseteq Nat
    <3> HIDE DEF first, declared
    <3> QED
      BY <1>2, <1>3 DEF Frame
  <2> QED
    BY <2>1, <2>2 DEF Record
<1> HIDE DEF rec, first, declared
<1>6. /\ m_records' \in Seq(Record) /\ Len(m_records') = Len(m_graph)
      /\ m_records'[t] = rec
      /\ \A i \in Ids : i # t => m_records'[i] = m_records[i]
  BY <1>1, <1>2, <1>5 DEF TypeOK, Ids
<1>7. /\ m_active' \in Seq(Frame) /\ Len(m_active') = n - 1
      /\ \A k \in 1 .. n - 1 : m_active'[k] = m_active[k]
  <2>1. n - 1 \in Nat /\ m_active \in Seq(Frame)
    BY <1>2 DEF TypeOK
  <2>2. \A i \in 1 .. n - 1 : m_active[i] \in Frame
    BY <2>1
  <2>3. m_active' = SubSeq(m_active, 1, n - 1)
    BY <1>1
  <2> HIDE DEF n
  <2> QED
    BY <2>1, <2>2, <2>3, SubSeqProperties
<1>8. /\ m_order' \in Seq(Nat) /\ Len(m_order) \in Nat /\ Len(m_order') = Len(m_order) + 1
      /\ m_order'[Len(m_order) + 1] = t
      /\ \A k \in 1 .. Len(m_order) : m_order'[k] = m_order[k]
  BY <1>1, <1>2 DEF TypeOK, Ids
<1>9. TypeOK'
  <2>1. t \in Nat
    BY <1>2 DEF Ids
  <2> QED
    BY <1>1, <1>4, <1>6, <1>7, <1>8, <2>1 DEF TypeOK
<1>10. Ids' = Ids /\ m_graph' = m_graph /\ Loaded' = Loaded \cup {t} /\ t \notin Loaded
  BY <1>1, <1>2, <1>5, <1>6 DEF Ids, Loaded
<1>11. DependencyFirst'
  <2>1. /\ Ordered' = Ordered \cup {t}
        /\ \A k \in 1 .. Len(m_order) : OrderedBefore(k)' = OrderedBefore(k)
        /\ \A k \in Nat : k = Len(m_order) + 1 => OrderedBefore(k)' = Ordered
    <3> HIDE DEF t
    <3>1. 1 .. Len(m_order') = (1 .. Len(m_order)) \cup {Len(m_order) + 1}
      BY <1>8
    <3>2. Ordered' = Ordered \cup {t}
      BY <1>8, <3>1 DEF Ordered
    <3>3. ASSUME NEW k \in 1 .. Len(m_order) PROVE OrderedBefore(k)' = OrderedBefore(k)
      <4>1. \A j \in 1 .. k - 1 : m_order'[j] = m_order[j]
        BY <1>8
      <4> QED
        BY <4>1 DEF OrderedBefore
    <3>4. ASSUME NEW k \in Nat, k = Len(m_order) + 1 PROVE OrderedBefore(k)' = Ordered
      <4>1. 1 .. k - 1 = 1 .. Len(m_order)
        BY <1>8, <3>4
      <4>2. OrderedBefore(k)' = {m_order'[j] : j \in 1 .. k - 1}
        BY DEF OrderedBefore
      <4> QED
        BY <1>8, <4>1, <4>2 DEF Ordered
    <3> QED
      BY <3>2, <3>3, <3>4
  <2>2. Ordered = Loaded /\ m_graph[t].dependencies \subseteq Loaded
    BY <1>2 DEF Structure, DependencyFirst, DependenciesLoaded
  <2>3. ASSUME NEW k \in 1 .. Len(m_order')
        PROVE  /\ m_order'[k] \notin OrderedBefore(k)'
               /\ m_graph'[m_order'[k]].dependencies \subseteq OrderedBefore(k)'
    <3>1. CASE k \in 1 .. Len(m_order)
      <4>1. /\ m_order[k] \notin OrderedBefore(k)
            /\ m_graph[m_order[k]].dependencies \subseteq OrderedBefore(k)
        BY <3>1 DEF Structure, DependencyFirst
      <4> QED
        BY <1>8, <1>10, <2>1, <3>1, <4>1
    <3>2. CASE k = Len(m_order) + 1
      BY <1>8, <1>10, <2>1, <2>2, <3>2
    <3> QED
      BY <1>8, <3>1, <3>2
  <2> QED
    BY <1>10, <2>1, <2>2, <2>3 DEF DependencyFirst
<1>12. DependenciesLoaded'
  BY <1>10 DEF Structure, DependenciesLoaded
<1>13. FramesOpen'
  <2>1. \A k \in 1 .. n - 1 : k \in 1 .. n /\ k # n /\ m_active[k].id # t
    BY <1>2 DEF Structure, FramesOpen
  <2> QED
    BY <1>6, <1>7, <1>10, <2>1 DEF Structure, FramesOpen
<1>14. ReturnedLoaded'
  BY <1>1, <1>10 DEF ReturnedLoaded
<1>15. FilesRead'
  <2>1. disk' = disk
    BY <1>1
  <2> QED
    BY <1>10, <2>1 DEF Structure, FilesRead
<1>16. NothingTaken'
  <2>1. phase # "ready" /\ phase' # "idle"
    BY <1>1
  <2> QED
    BY <1>2, <1>5, <1>6, <1>10, <2>1 DEF Structure, NothingTaken
<1>17. phase' # "ready"
  BY <1>1
<1> QED
  BY <1>9, <1>11, <1>12, <1>13, <1>14, <1>15, <1>16, <1>17, NothingTakenSuffices DEF Structure

-----------------------------------------------------------------------------
\* A set of numbers that is not empty has a least element.
LEMMA LeastElement ==
    ASSUME NEW S, S \subseteq Nat, S # {}
    PROVE  \E i \in S : \A j \in S : i <= j
<1> DEFINE R == OpToRel(<, Nat)
<1>1. IsWellFoundedOn(R, Nat)
  BY NatLessThanWellFounded
<1>2. \A i, j \in Nat : <<j, i>> \notin R => i <= j
  BY DEF OpToRel
<1> HIDE DEF R
<1>3. \E i \in S : \A j \in S : <<j, i>> \notin R
  BY <1>1, WFMin
<1> QED
  BY <1>2, <1>3

\* findFile answers Missing or the id of a node.
LEMMA FindFile ==
    ASSUME TypeOK, NEW path \in Path
    PROVE  findFile(path) # Missing => findFile(path) \in Ids
<1> DEFINE found == {i \in Ids : SameFile(path, m_graph[i].path)}
<1>1. CASE found = {}
  BY <1>1 DEF findFile
<1>2. CASE found # {}
  <2>1. found \subseteq Nat /\ found \subseteq Ids
    BY DEF Ids
  <2>2. \E i \in found : \A j \in found : i <= j
    <3> HIDE DEF found
    <3> QED
      BY <1>2, <2>1, LeastElement
  <2>3. findFile(path) = CHOOSE i \in found : \A j \in found : i <= j
    BY <1>2 DEF findFile
  <2> HIDE DEF found
  <2>4. findFile(path) \in found
    BY <2>2, <2>3
  <2> QED
    BY <2>1, <2>4
<1> QED
  BY <1>1, <1>2

\* Marking one record as taken or completed keeps types, order and graph.
LEMMA MarkRecord ==
    ASSUME TypeOK, Structure, phase = "ready", NEW id \in Ids, NEW rec \in Record,
           rec.loaded = m_records[id].loaded,
           m_records' = [m_records EXCEPT ![id] = rec],
           UNCHANGED <<disk, phase, error, roots, next_root, call, returned,
                       m_import_paths, m_graph, m_active, m_order, m_module_names,
                       m_alias_bindings, m_total_bytes>>
    PROVE  /\ TypeOK' /\ DependencyFirst' /\ DependenciesLoaded' /\ FramesOpen'
           /\ ReturnedLoaded' /\ FilesRead' /\ NothingTaken'
           /\ Ids' = Ids /\ \A i \in Ids : gather(i)' = gather(i)
           /\ m_records'[id] = rec
           /\ \A i \in Ids : i # id => m_records'[i] = m_records[i]
<1>1. /\ m_records' \in Seq(Record) /\ Len(m_records') = Len(m_records)
      /\ m_records'[id] = rec
      /\ \A i \in Ids : i # id => m_records'[i] = m_records[i]
  BY DEF TypeOK, Ids
<1>2. TypeOK'
  BY <1>1 DEF TypeOK
<1>3. Ids' = Ids
  BY DEF Ids
<1>4. \A i \in Ids : m_records'[i].loaded = m_records[i].loaded
  BY <1>1
<1>5. Loaded' = Loaded
  BY <1>3, <1>4 DEF Loaded
<1>6. DependencyFirst'
  <2>1. Ordered' = Ordered /\ \A k \in 1 .. Len(m_order) : OrderedBefore(k)' = OrderedBefore(k)
    BY DEF Ordered, OrderedBefore
  <2> QED
    BY <1>5, <2>1 DEF Structure, DependencyFirst
<1>7. DependenciesLoaded'
  BY <1>3, <1>5 DEF Structure, DependenciesLoaded
<1>8. FramesOpen'
  <2>1. m_active = <<>>
    BY DEF TypeOK
  <2> QED
    BY <2>1 DEF FramesOpen
<1>9. ReturnedLoaded' /\ FilesRead' /\ NothingTaken'
  BY <1>3, <1>5 DEF Structure, ReturnedLoaded, FilesRead, NothingTaken
<1>10. \A i \in Ids : gather(i)' = gather(i)
  BY <1>3 DEF gather, ClosedUnderDependencies
<1> QED
  BY <1>1, <1>2, <1>3, <1>6, <1>7, <1>8, <1>9, <1>10

\* An exception of take or complete changes nothing but the error.
LEMMA LogicErrorIInv ==
    ASSUME IInv, NEW kind \in {"transfer", "dependencies", "publish"}, LogicError(kind)
    PROVE  IInv'
<1>1. TypeOK'
  BY DEF IInv, TypeOK, LogicError, tables
<1>2. Structure'
  <2>1. ReturnedLoaded'
    BY DEF IInv, Structure, ReturnedLoaded, LogicError, tables, Loaded, Ids
  <2> QED
    BY <2>1, TablesKept DEF IInv, LogicError, tables
<1> QED
  BY <1>1, <1>2 DEF IInv

\* take marks a unit only after its closure was completed.
LEMMA TakeIInv ==
    ASSUME IInv, NEW path \in Path, take(path)
    PROVE  IInv'
<1> USE DEF IInv
<1> DEFINE id == findFile(path)
           rec == [m_records[id] EXCEPT !.taken = TRUE]
<1>1. CASE LogicError("transfer") \/ LogicError("dependencies")
  BY <1>1, LogicErrorIInv
<1>2. CASE /\ Transferable(id) /\ DependenciesAnalyzed(id)
           /\ m_records' = [m_records EXCEPT ![id] = rec]
           /\ UNCHANGED <<disk, phase, error, roots, next_root, call, returned,
                          m_import_paths, m_graph, m_active, m_order, m_module_names,
                          m_alias_bindings, m_total_bytes>>
  <2>1. id \in Ids
    BY <1>2, FindFile DEF Transferable
  <2>2. phase = "ready"
    <3>1. m_graph # <<>> /\ phase # "discover"
      BY <2>1 DEF take, Client, Ids
    <3> QED
      BY <3>1 DEF TypeOK, Structure, NothingTaken
  <2>3. m_records[id] \in Record
    BY <2>1 DEF TypeOK, Ids
  <2>4. rec \in Record /\ rec.loaded = m_records[id].loaded /\ rec.completed = m_records[id].completed
    BY <2>3 DEF Record
  <2>5. \A d \in gather(id) \ {id} : m_records[d].completed
    BY <1>2 DEF DependenciesAnalyzed
  <2> HIDE DEF id, rec
  <2>6. /\ TypeOK' /\ DependencyFirst' /\ DependenciesLoaded' /\ FramesOpen'
        /\ ReturnedLoaded' /\ FilesRead' /\ NothingTaken'
    BY <1>2, <2>1, <2>2, <2>4, MarkRecord
  <2>7. /\ Ids' = Ids /\ \A i \in Ids : gather(i)' = gather(i)
        /\ m_records'[id] = rec /\ \A i \in Ids : i # id => m_records'[i] = m_records[i]
    BY <1>2, <2>1, <2>2, <2>4, MarkRecord
  <2>8. \A i \in Ids : m_records'[i].completed = m_records[i].completed
    BY <2>4, <2>7
  <2>9. AnalyzedAfterDependencies'
    <3> SUFFICES ASSUME NEW i \in Ids, m_records'[i].taken, NEW d \in gather(i) \ {i}
                 PROVE  m_records[d].completed /\ d \in Ids
      BY <1>2, <2>2, <2>7, <2>8 DEF AnalyzedAfterDependencies
    <3>1. d \in Ids
      BY DEF gather
    <3>2. CASE i = id
      BY <2>5, <3>1, <3>2
    <3>3. CASE i # id
      BY <2>7, <3>1, <3>3 DEF Structure, AnalyzedAfterDependencies
    <3> QED
      BY <3>2, <3>3
  <2> QED
    BY <2>6, <2>9 DEF Structure
<1> QED
  BY <1>1, <1>2 DEF take

\* complete only ever adds to the published units.
LEMMA CompleteIInv ==
    ASSUME IInv, NEW path \in Path, complete(path)
    PROVE  IInv'
<1> USE DEF IInv
<1> DEFINE id == findFile(path)
           rec == [m_records[id] EXCEPT !.completed = TRUE]
<1>1. CASE LogicError("publish")
  BY <1>1, LogicErrorIInv
<1>2. CASE /\ Publishable(id)
           /\ m_records' = [m_records EXCEPT ![id] = rec]
           /\ UNCHANGED <<disk, phase, error, roots, next_root, call, returned,
                          m_import_paths, m_graph, m_active, m_order, m_module_names,
                          m_alias_bindings, m_total_bytes>>
  <2>1. id \in Ids
    BY <1>2, FindFile DEF Publishable
  <2>2. phase = "ready"
    <3>1. m_graph # <<>> /\ phase # "discover"
      BY <2>1 DEF complete, Client, Ids
    <3> QED
      BY <3>1 DEF TypeOK, Structure, NothingTaken
  <2>3. m_records[id] \in Record
    BY <2>1 DEF TypeOK, Ids
  <2>4. /\ rec \in Record /\ rec.loaded = m_records[id].loaded
        /\ rec.taken = m_records[id].taken /\ rec.completed
    BY <2>3 DEF Record
  <2> HIDE DEF id, rec
  <2>6. /\ TypeOK' /\ DependencyFirst' /\ DependenciesLoaded' /\ FramesOpen'
        /\ ReturnedLoaded' /\ FilesRead' /\ NothingTaken'
    BY <1>2, <2>1, <2>2, <2>4, MarkRecord
  <2>7. /\ Ids' = Ids /\ \A i \in Ids : gather(i)' = gather(i)
        /\ m_records'[id] = rec /\ \A i \in Ids : i # id => m_records'[i] = m_records[i]
    BY <1>2, <2>1, <2>2, <2>4, MarkRecord
  <2>8. \A i \in Ids : /\ m_records'[i].taken = m_records[i].taken
                       /\ m_records[i].completed => m_records'[i].completed
    BY <2>4, <2>7
  <2>9. AnalyzedAfterDependencies'
    <3> SUFFICES ASSUME NEW i \in Ids, m_records[i].taken, NEW d \in gather(i) \ {i}
                 PROVE  m_records'[d].completed
      BY <1>2, <2>2, <2>7, <2>8 DEF AnalyzedAfterDependencies
    <3>1. d \in Ids
      BY DEF gather
    <3> QED
      BY <2>8, <3>1 DEF Structure, AnalyzedAfterDependencies
  <2> QED
    BY <2>6, <2>9 DEF Structure
<1> QED
  BY <1>1, <1>2 DEF complete

-----------------------------------------------------------------------------
\* prepare starts over from empty tables.
LEMMA PrepareIInv ==
    ASSUME IInv, NEW rs \in RootLists, NEW dirs \in SearchLists, prepare(rs, dirs)
    PROVE  IInv'
<1>1. TypeOK'
  BY LoaderAssumption DEF IInv, TypeOK, prepare, ClearTables, Missing
<1>2. Structure'
  <2>1. TablesEmpty'
    BY DEF TablesEmpty, prepare, ClearTables
  <2> QED
    BY <2>1, EmptyTables, PTL
<1> QED
  BY <1>1, <1>2 DEF IInv

\* Steps of loadFile and of the loop over the roots that only move the
\* pending call or result.
LEMMA ControlIInv ==
    ASSUME IInv, LoadRoot \/ RootLoaded \/ Discovered \/ LoadAgain \/ ImportCall
    PROVE  IInv'
<1> USE DEF IInv
<1>1. UNCHANGED <<disk, error, roots, m_import_paths, tables>>
  BY DEF LoadRoot, RootLoaded, Discovered, LoadAgain, ImportCall
<1>2. phase = "discover"
  BY LoaderAssumption DEF LoadRoot, RootLoaded, Discovered, LoadAgain, ImportCall, AtImport,
     InFile, AtRoots, Running, Found, TypeOK
<1>3. phase' \in {"discover", "ready"} /\ next_root' \in Nat \ {0}
  BY <1>2 DEF LoadRoot, RootLoaded, Discovered, LoadAgain, ImportCall, TypeOK
<1>4. call' \in Path \cup {NoCall}
  <2>1. CASE LoadRoot
    <3>1. next_root \in Nat \ {0} /\ roots \in Seq(Path)
      BY DEF TypeOK
    <3> QED
      BY <2>1, <3>1 DEF LoadRoot
  <2>2. CASE RootLoaded \/ Discovered \/ LoadAgain \/ ImportCall
    BY <2>2 DEF RootLoaded, Discovered, LoadAgain, ImportCall, TypeOK
  <2> QED
    BY <2>1, <2>2
<1>5. returned' \in Nat /\ (returned' # Missing => returned' \in Loaded)
  <2>1. CASE LoadAgain
    BY <2>1 DEF LoadAgain, Loaded, Ids
  <2>2. CASE LoadRoot \/ RootLoaded \/ Discovered \/ ImportCall
    BY <2>2 DEF LoadRoot, RootLoaded, Discovered, ImportCall, Missing, TypeOK, Structure,
       ReturnedLoaded
  <2> QED
    BY <2>1, <2>2
<1>6. phase' # "discover" => call' = NoCall /\ returned' = Missing /\ m_active' = <<>>
  BY <1>2 DEF LoadRoot, RootLoaded, Discovered, LoadAgain, ImportCall, AtRoots, Running, tables
<1>7. TypeOK'
  BY <1>1, <1>3, <1>4, <1>5, <1>6 DEF TypeOK, tables
<1>8. ReturnedLoaded'
  <2>1. Loaded' = Loaded
    BY <1>1 DEF Loaded, Ids, tables
  <2> QED
    BY <1>5, <2>1 DEF ReturnedLoaded, Missing
<1>9. Structure'
  <2>1. phase' \in {phase, "ready"}
    BY <1>2, <1>3
  <2> QED
    BY <1>1, <1>8, <2>1, TablesKept DEF tables
<1> QED
  BY <1>7, <1>9

\* Every step of the loader and of its client preserves the invariant.
LEMMA NextIInv == IInv /\ [Next]_vars => IInv'
<1> SUFFICES ASSUME IInv, [Next]_vars PROVE IInv'
  OBVIOUS
<1>1. CASE LoadRoot \/ RootLoaded \/ Discovered \/ LoadAgain \/ ImportCall
  BY <1>1, ControlIInv
<1>2. CASE LoadKindMismatch \/ LoadCycle \/ LoadLimit \/ LoadRejected \/ ImportUnresolved
             \/ ImportRefused \/ BodyRejected
  <2>1. PICK kind \in {"kind", "cycle", "limit", "source", "import", "alias", "body"} : Fail(kind)
    BY <1>2 DEF LoadKindMismatch, LoadCycle, LoadLimit, LoadRejected, ImportUnresolved,
       ImportRefused, BodyRejected
  <2> QED
    BY <2>1, FailIInv DEF IInv
<1>3. CASE LoadPreamble
  BY <1>3, LoadPreambleIInv
<1>4. CASE ImportReturned
  BY <1>4, ImportReturnedIInv
<1>5. CASE FileLoaded
  BY <1>5, FileLoadedIInv
<1>6. CASE \E rs \in RootLists, dirs \in SearchLists : prepare(rs, dirs)
  BY <1>6, PrepareIInv
<1>7. CASE \E path \in Path : take(path)
  BY <1>7, TakeIInv
<1>8. CASE \E path \in Path : complete(path)
  BY <1>8, CompleteIInv
<1>9. CASE UNCHANGED vars
  <2>1. TypeOK'
    BY <1>9 DEF IInv, TypeOK, vars, tables
  <2>2. ReturnedLoaded'
    BY <1>9 DEF IInv, Structure, ReturnedLoaded, Loaded, Ids, vars, tables
  <2>3. Structure'
    BY <1>9, <2>2, TablesKept DEF IInv, vars, tables
  <2> QED
    BY <2>1, <2>3 DEF IInv
<1> QED
  BY <1>1, <1>2, <1>3, <1>4, <1>5, <1>6, <1>7, <1>8, <1>9 DEF Next, Discovery, loadFile

\* The inductive invariant holds in every reachable state of the loader.
THEOREM LoaderInvariant == Spec => []IInv
<1> QED
  BY InitIInv, NextIInv, PTL DEF Spec

\* Every table keeps its type; a pending call or result exists only inside
\* prepare.
THEOREM LoaderTypes == Spec => []TypeOK
<1>1. IInv => TypeOK
  BY DEF IInv
<1> QED
  BY <1>1, LoaderInvariant, PTL

\* m_order is a topological order of the loaded part of the import graph.
THEOREM OrderIsTopological == Spec => []DependencyFirst
<1>1. IInv => DependencyFirst
  BY DEF IInv, Structure
<1> QED
  BY <1>1, LoaderInvariant, PTL

\* take hands out a unit only after its whole import closure was completed,
\* and no later step of the loader invalidates that.
THEOREM UnitsFollowTheirImports == Spec => []AnalyzedAfterDependencies
<1>1. IInv => AnalyzedAfterDependencies
  BY DEF IInv, Structure
<1> QED
  BY <1>1, LoaderInvariant, PTL

-----------------------------------------------------------------------------
\* The physical file a node stands for, and the files of a set of nodes.
FileOf(i) == disk.at[m_graph[i].path]
FilesOf(S) == {FileOf(d) : d \in S}

\* No file is half loaded without being on the stack.
OpenOrLoaded == \A i \in Ids : i \in Loaded \/ i \in ActiveIds

\* While prepare runs nothing has failed, and loadFile has not been entered
\* again before its last result was used.
Pending ==
    /\ phase = "discover" => error = "none"
    /\ call = NoCall \/ returned = Missing

\* The import statement a frame is at leads to the given file.
Awaits(frame, target) ==
    LET names == disk.imports[FileOf(frame.id)]
    IN  /\ frame.next <= Len(names)
        /\ ImportedFile(m_graph[frame.id].path, names[frame.next]) = target

\* Each frame of the stack waits for the one above it, the last one for the
\* file being entered or handed back.
ChainImports ==
    /\ \A k \in 1 .. Len(m_active) - 1 : Awaits(m_active[k], FileOf(m_active[k + 1].id))
    /\ m_active # <<>> /\ call # NoCall => Awaits(Top, disk.at[call])
    /\ m_active # <<>> /\ returned # Missing => Awaits(Top, FileOf(returned))

\* The edges of a node are the import statements processed so far.
Imported(i, n) ==
    {ImportedFile(m_graph[i].path, disk.imports[FileOf(i)][k]) : k \in 1 .. n}
EdgesMatch(i, n) == FilesOf(m_graph[i].dependencies) = Imported(i, n)
EdgesFollowImports ==
    /\ \A i \in Loaded : EdgesMatch(i, Len(disk.imports[FileOf(i)]))
    /\ \A k \in 1 .. Len(m_active) :
          /\ m_active[k].next \in 1 .. Len(disk.imports[FileOf(m_active[k].id)]) + 1
          /\ EdgesMatch(m_active[k].id, m_active[k].next - 1)

\* The roots before next_root are loaded; what is being loaded is next_root.
RootFile == disk.at[roots[next_root]]
RootsFollow ==
    /\ \A k \in 1 .. Len(roots) : k < next_root => disk.at[roots[k]] \in FilesOf(Loaded)
    /\ m_active # <<>> => next_root <= Len(roots) /\ FileOf(m_active[1].id) = RootFile
    /\ m_active = <<>> /\ call # NoCall => next_root <= Len(roots) /\ disk.at[call] = RootFile
    /\ m_active = <<>> /\ returned # Missing => next_root <= Len(roots) /\ FileOf(returned) = RootFile
    /\ phase = "ready" => next_root > Len(roots)

\* Every node is below a finished root, a frame or the result on its way.
Anchored(x) ==
    \/ x \in ActiveIds
    \/ returned # Missing /\ x = returned
    \/ \E k \in 1 .. Len(roots) : k < next_root /\ FileOf(x) = disk.at[roots[k]]
Reached == \A i \in Ids : \E x \in Ids : Anchored(x) /\ i \in gather(x)

\* Aliases are registered by loaded files, and a frame knows those of the
\* imports it has finished.
BindingsIn(S) == {b \in 1 .. Len(m_alias_bindings) : m_alias_bindings[b] \in FilesOf(S)}
Below(i) == UNION {gather(d) : d \in m_graph[i].dependencies}
AliasesKnown ==
    /\ \A b \in 1 .. Len(m_alias_bindings) : m_alias_bindings[b] \in FilesOf(Loaded)
    /\ \A i \in Loaded : m_records[i].aliases = BindingsIn(gather(i))
    /\ \A k \in 1 .. Len(m_active) : m_active[k].aliases = BindingsIn(Below(m_active[k].id))

\* The bytes accounted for are those of finitely many, all of the files read.
BytesCounted == IsFiniteSet(BytesRead) /\ BudgetRespected

Provenance ==
    /\ PhysicalFilesOnce /\ BytesCounted /\ OpenOrLoaded /\ Pending
    /\ ChainImports /\ EdgesFollowImports /\ RootsFollow /\ Reached /\ AliasesKnown

-----------------------------------------------------------------------------
\* gather(x) holds x and is closed under dependencies; every closed set that
\* holds x includes it.
LEMMA GatherLeast ==
    ASSUME NEW S \in SUBSET Ids, NEW x \in S, ClosedUnderDependencies(S)
    PROVE  gather(x) \subseteq S
  BY DEF gather

\* The edges found so far lead to nodes, so gather(x) is itself closed.
LEMMA GatherClosed ==
    ASSUME DependenciesLoaded, NEW x \in Ids
    PROVE  /\ x \in gather(x) /\ gather(x) \subseteq Ids
           /\ ClosedUnderDependencies(gather(x))
<1>1. x \in gather(x) /\ gather(x) \subseteq Ids
  BY DEF gather
<1>2. ASSUME NEW i \in gather(x), NEW d \in m_graph[i].dependencies PROVE d \in gather(x)
  <2>1. d \in Ids
    BY <1>1 DEF DependenciesLoaded, Loaded
  <2>2. ASSUME NEW S \in SUBSET Ids, x \in S, ClosedUnderDependencies(S) PROVE d \in S
    <3>1. i \in S
      BY <2>2 DEF gather
    <3> QED
      BY <2>2, <3>1 DEF ClosedUnderDependencies
  <2> QED
    BY <2>1, <2>2 DEF gather
<1> QED
  BY <1>1, <1>2 DEF ClosedUnderDependencies

\* The closure of a node is the node and the closures of its dependencies.
LEMMA GatherUnfold ==
    ASSUME DependenciesLoaded, NEW x \in Ids
    PROVE  gather(x) = {x} \cup Below(x)
<1>1. \A d \in m_graph[x].dependencies : d \in Ids
  BY DEF DependenciesLoaded, Loaded
<1>2. /\ x \in gather(x) /\ gather(x) \subseteq Ids
      /\ ClosedUnderDependencies(gather(x))
  BY GatherClosed
<1>3. {x} \cup Below(x) \subseteq gather(x)
  <2>1. ASSUME NEW d \in m_graph[x].dependencies PROVE gather(d) \subseteq gather(x)
    <3>1. d \in gather(x)
      BY <1>2 DEF ClosedUnderDependencies
    <3> QED
      BY <1>2, <3>1, GatherLeast
  <2> QED
    BY <1>2, <2>1 DEF Below
<1>4. gather(x) \subseteq {x} \cup Below(x)
  <2>1. {x} \cup Below(x) \subseteq Ids
    BY <1>2, <1>3
  <2>2. ASSUME NEW i \in {x} \cup Below(x), NEW e \in m_graph[i].dependencies
        PROVE  e \in {x} \cup Below(x)
    <3>1. CASE i = x
      <4>1. e \in gather(e)
        BY <1>1, <3>1, GatherClosed
      <4> QED
        BY <3>1, <4>1 DEF Below
    <3>2. CASE i \in Below(x)
      <4>1. PICK d \in m_graph[x].dependencies : i \in gather(d)
        BY <3>2 DEF Below
      <4>2. ClosedUnderDependencies(gather(d))
        BY <1>1, GatherClosed
      <4>3. e \in gather(d)
        BY <4>1, <4>2 DEF ClosedUnderDependencies
      <4> QED
        BY <4>3 DEF Below
    <3> QED
      BY <3>1, <3>2
  <2>3. ClosedUnderDependencies({x} \cup Below(x))
    BY <2>2 DEF ClosedUnderDependencies
  <2> QED
    BY <2>1, <2>3, GatherLeast
<1> QED
  BY <1>3, <1>4

\* Everything a loaded file imports, directly or not, is loaded.
LEMMA GatherLoaded ==
    ASSUME DependenciesLoaded, NEW x \in Loaded
    PROVE  gather(x) \subseteq Loaded
<1>1. Loaded \subseteq Ids /\ ClosedUnderDependencies(Loaded)
  BY DEF DependenciesLoaded, Loaded, ClosedUnderDependencies
<1> QED
  BY <1>1, GatherLeast

\* The graph of a running discovery only grows.
Grows ==
    /\ UNCHANGED <<disk, m_import_paths>>
    /\ Ids \subseteq Ids'
    /\ \A i \in Ids : /\ m_graph'[i].path = m_graph[i].path
                      /\ m_graph[i].dependencies \subseteq m_graph'[i].dependencies

\* What a node stands for and what its import statements mean do not change
\* while the graph grows.
LEMMA GrowthKeepsFiles ==
    ASSUME Grows
    PROVE  /\ \A i \in Ids : FileOf(i)' = FileOf(i)
           /\ \A S \in SUBSET Ids : FilesOf(S)' = FilesOf(S)
           /\ \A i \in Ids, n \in Nat : Imported(i, n)' = Imported(i, n)
           /\ \A f, g : f.id \in Ids => Awaits(f, g)' = Awaits(f, g)
<1>1. \A i \in Ids : FileOf(i)' = FileOf(i)
  BY DEF Grows, FileOf
<1>2. \A S \in SUBSET Ids : FilesOf(S)' = FilesOf(S)
  BY <1>1 DEF FilesOf
<1>3. \A p, n : ImportedFile(p, n)' = ImportedFile(p, n)
  BY DEF Grows, ImportedFile, FirstWith
<1>4. \A i \in Ids, n \in Nat : Imported(i, n)' = Imported(i, n)
  BY <1>1, <1>3 DEF Grows, Imported
<1>5. \A f, g : f.id \in Ids => Awaits(f, g)' = Awaits(f, g)
  BY <1>1, <1>3 DEF Grows, Awaits
<1> QED
  BY <1>1, <1>2, <1>4, <1>5

\* Closures grow with the graph.
LEMMA GatherGrows ==
    ASSUME DependenciesLoaded, Grows, NEW x \in Ids
    PROVE  gather(x) \subseteq gather(x)'
<1> SUFFICES ASSUME NEW i \in gather(x) PROVE i \in gather(x)'
  OBVIOUS
<1>1. i \in Ids /\ i \in Ids' /\ x \in Ids'
  BY DEF gather, Grows
<1>2. ASSUME NEW S \in SUBSET Ids', x \in S, ClosedUnderDependencies(S)' PROVE i \in S
  <2>1. ClosedUnderDependencies(S \cap Ids)
    <3> SUFFICES ASSUME NEW j \in S \cap Ids, NEW d \in m_graph[j].dependencies
                 PROVE  d \in S \cap Ids
      BY DEF ClosedUnderDependencies
    <3>1. d \in Ids
      BY DEF DependenciesLoaded, Loaded
    <3>2. d \in m_graph'[j].dependencies
      BY DEF Grows
    <3> QED
      BY <1>2, <3>1, <3>2 DEF ClosedUnderDependencies
  <2> QED
    BY <1>2, <2>1, GatherLeast
<1> QED
  BY <1>1, <1>2 DEF gather

\* The closure of a loaded file is final.
LEMMA GatherKept ==
    ASSUME DependenciesLoaded, Grows, NEW x \in Loaded,
           \A i \in Loaded : m_graph'[i].dependencies = m_graph[i].dependencies
    PROVE  gather(x)' = gather(x)
<1>1. x \in Ids /\ gather(x) \subseteq Loaded /\ x \in gather(x) /\ ClosedUnderDependencies(gather(x))
  BY GatherLoaded, GatherClosed DEF Loaded
<1>2. gather(x) \subseteq Ids'
  BY <1>1 DEF Loaded, Grows
<1>3. ClosedUnderDependencies(gather(x)) => \A i \in gather(x) : m_graph'[i].dependencies \subseteq gather(x)
  BY <1>1 DEF ClosedUnderDependencies
<1>4. gather(x)' \subseteq gather(x)
  <2> SUFFICES ASSUME NEW i \in gather(x)' PROVE i \in gather(x)
    OBVIOUS
  <2> DEFINE G == gather(x)
  <2>1. \A S \in SUBSET Ids' : x \in S /\ (\A j \in S : m_graph'[j].dependencies \subseteq S) => i \in S
    BY DEF gather, ClosedUnderDependencies
  <2>2. G \in SUBSET Ids' /\ x \in G /\ \A j \in G : m_graph'[j].dependencies \subseteq G
    BY <1>1, <1>2, <1>3
  <2> HIDE DEF G
  <2>3. i \in G
    BY <2>1, <2>2
  <2> QED
    BY <2>3 DEF G
<1> QED
  BY <1>1, <1>4, GatherGrows

-----------------------------------------------------------------------------
\* resolveImport, which probes the candidate paths in order, finds what the
\* reference definition says: the file beside the importer or, if there is
\* none, the one in the first configured directory that has the name.
LEMMA ResolutionIsReference ==
    ASSUME TypeOK, NEW owner \in Path, NEW import \in Name, NEW path \in Path,
           Resolves(Candidates(owner, import), path)
    PROVE  ImportedFile(owner, import) = disk.at[path]
<1> DEFINE dirs == <<owner.dir>> \o m_import_paths
           beside == [dir |-> owner.dir, name |-> import]
           At(k) == disk.at[[dir |-> m_import_paths[k], name |-> import]]
           has == {k \in 1 .. Len(m_import_paths) : At(k) # Absent}
<1>1. m_import_paths \in Seq(Dir) /\ owner.dir \in Dir /\ Len(m_import_paths) \in Nat
  BY DEF TypeOK, Path
<1>2. /\ Len(dirs) = Len(m_import_paths) + 1 /\ dirs[1] = owner.dir
      /\ \A k \in 1 .. Len(m_import_paths) : dirs[k + 1] = m_import_paths[k]
  BY <1>1
<1> DEFINE cands == [k \in 1 .. Len(dirs) |-> [dir |-> dirs[k], name |-> import]]
<1>c. Candidates(owner, import) = cands
  BY DEF Candidates
<1> HIDE DEF dirs
<1>d. Len(cands) = Len(dirs) /\ \A k \in 1 .. Len(dirs) : cands[k] = [dir |-> dirs[k], name |-> import]
  BY <1>1, <1>2
<1> HIDE DEF cands
<1>3. PICK k \in 1 .. Len(dirs) :
         /\ [dir |-> dirs[k], name |-> import] = path /\ disk.at[path] # Absent
         /\ \A j \in 1 .. k - 1 : disk.at[[dir |-> dirs[j], name |-> import]] = Absent
  <2>1. PICK k \in 1 .. Len(dirs) :
           /\ cands[k] = path /\ disk.at[path] # Absent
           /\ \A j \in 1 .. k - 1 : disk.at[cands[j]] = Absent
    BY <1>c, <1>d DEF Resolves
  <2>2. \A j \in 1 .. k - 1 : j \in 1 .. Len(dirs)
    BY <1>1, <1>2
  <2> QED
    BY <1>d, <2>1, <2>2
<1>4. CASE k = 1
  BY <1>2, <1>3, <1>4 DEF ImportedFile
<1>5. CASE k # 1
  <2>1. k - 1 \in 1 .. Len(m_import_paths) /\ dirs[k] = m_import_paths[k - 1]
    BY <1>1, <1>2, <1>5
  <2>2. disk.at[beside] = Absent
    BY <1>1, <1>2, <1>3, <1>5
  <2>3. k - 1 \in has /\ At(k - 1) = disk.at[path]
    BY <1>3, <2>1
  <2>4. \A j \in has : k - 1 <= j
    <3> SUFFICES ASSUME NEW j \in 1 .. Len(m_import_paths), j < k - 1 PROVE At(j) = Absent
      BY <2>1
    <3>1. j + 1 \in 1 .. k - 1 /\ dirs[j + 1] = m_import_paths[j]
      BY <1>1, <1>2
    <3> QED
      BY <1>3, <3>1
  <2>5. (CHOOSE i \in has : \A j \in has : i <= j) = k - 1
    <3>1. has \subseteq Int
      BY <1>1
    <3> HIDE DEF has
    <3> DEFINE least == CHOOSE i \in has : \A j \in has : i <= j
    <3>2. least \in has /\ \A j \in has : least <= j
      BY <2>3, <2>4
    <3> HIDE DEF least
    <3>3. least <= k - 1 /\ k - 1 <= least /\ least \in Int /\ k - 1 \in Int
      BY <2>3, <2>4, <3>1, <3>2
    <3>4. least = k - 1
      BY <3>3
    <3> QED
      BY <3>4 DEF least
  <2>6. FirstWith(m_import_paths, import) =
           IF has = {} THEN Absent ELSE At(CHOOSE i \in has : \A j \in has : i <= j)
    BY DEF FirstWith
  <2>7. ImportedFile(owner, import) = FirstWith(m_import_paths, import)
    BY <2>2 DEF ImportedFile
  <2> HIDE DEF has, At
  <2> QED
    BY <2>3, <2>5, <2>6, <2>7
<1> QED
  BY <1>4, <1>5

\* findFile finds a node exactly when some node stands for the same file.
LEMMA FindFileFound ==
    ASSUME TypeOK, FilesRead, NEW path \in Path, NEW i \in Ids, disk.at[path] = FileOf(i)
    PROVE  /\ findFile(path) \in Ids /\ findFile(path) # Missing
           /\ FileOf(findFile(path)) = disk.at[path]
<1> DEFINE found == {j \in Ids : SameFile(path, m_graph[j].path)}
<1>1. i \in found
  BY DEF SameFile, FilesRead, FileOf
<1>2. found \subseteq Nat /\ found \subseteq Ids
  BY DEF Ids
<1>3. \A j \in found : FileOf(j) = disk.at[path]
  BY DEF SameFile, FileOf
<1>4. findFile(path) = CHOOSE k \in found : \A j \in found : k <= j
  BY <1>1 DEF findFile
<1> HIDE DEF found
<1>5. \E k \in found : \A j \in found : k <= j
  BY <1>1, <1>2, LeastElement
<1>6. findFile(path) \in found
  BY <1>4, <1>5
<1>7. \A j \in Ids : j # Missing
  BY DEF Ids, Missing
<1> QED
  BY <1>2, <1>3, <1>6, <1>7

\* What findFile answers stands for the file asked for.
LEMMA FoundFile ==
    ASSUME TypeOK, FilesRead, NEW id \in Ids, Found(id)
    PROVE  call \in Path /\ FileOf(id) = disk.at[call]
<1> DEFINE found == {j \in Ids : SameFile(call, m_graph[j].path)}
<1>1. call \in Path
  BY DEF Found, TypeOK
<1>2. found # {}
  BY DEF Found, findFile
<1>3. PICK i \in Ids : FileOf(i) = disk.at[call]
  BY <1>2 DEF SameFile, FileOf
<1> QED
  BY <1>1, <1>3, FindFileFound DEF Found

\* A file that is entered and not found is a new physical file.
LEMMA FreshFile ==
    ASSUME TypeOK, FilesRead, OpenOrLoaded, Fresh
    PROVE  call \in Path /\ \A i \in Ids : FileOf(i) # disk.at[call]
<1>1. call \in Path
  BY DEF Fresh, TypeOK
<1>2. SUFFICES ASSUME NEW i \in Ids, FileOf(i) = disk.at[call] PROVE FALSE
  BY <1>1
<1> DEFINE id == findFile(call)
<1>3. id \in Ids /\ id # Missing
  BY <1>1, <1>2, FindFileFound
<1> HIDE DEF id
<1>4. Found(id)
  BY <1>3 DEF Found, Fresh, id
<1>5. id \notin ActiveIds /\ ~m_records[id].loaded
  BY <1>3, <1>4 DEF Fresh
<1> QED
  BY <1>3, <1>5 DEF OpenOrLoaded, Loaded

-----------------------------------------------------------------------------
\* A loader that has read nothing yet, or has thrown everything away.
Blank ==
    /\ TablesEmpty /\ call = NoCall /\ m_alias_bindings = <<>> /\ m_total_bytes = 0
    /\ next_root = 1 /\ phase # "ready" /\ (phase = "discover" => error = "none")

\* Its tables tell nothing that could be wrong.
LEMMA BlankProvenance == Blank => Provenance
<1> SUFFICES ASSUME Blank PROVE Provenance
  OBVIOUS
<1>1. Ids = {} /\ Len(m_active) = 0 /\ Len(m_alias_bindings) = 0
  BY DEF Ids, Blank, TablesEmpty
<1>2. Loaded = {} /\ m_active = <<>> /\ call = NoCall /\ returned = Missing /\ next_root = 1
  BY <1>1 DEF Loaded, Blank, TablesEmpty
<1>3. MaxTotalBytes \in Nat
  BY LoaderAssumption
<1>4. PhysicalFilesOnce /\ BytesCounted /\ OpenOrLoaded /\ Pending
  <2>1. BytesRead = {}
    BY <1>1 DEF BytesRead
  <2>2. BytesCounted
    BY <1>3, <2>1, FS_EmptySet DEF BytesCounted, BudgetRespected, Blank
  <2> QED
    BY <1>1, <1>2, <2>2 DEF PhysicalFilesOnce, OpenOrLoaded, Pending, Blank
<1>5. ChainImports /\ EdgesFollowImports /\ Reached
  BY <1>1, <1>2 DEF ChainImports, EdgesFollowImports, Reached
<1>6. RootsFollow
  BY <1>1, <1>2 DEF RootsFollow, Blank
<1>7. AliasesKnown
  BY <1>1, <1>2 DEF AliasesKnown
<1> QED
  BY <1>4, <1>5, <1>6, <1>7 DEF Provenance

\* A step that leaves the graph, the stack and the registered aliases alone.
SameGraph ==
    /\ UNCHANGED <<disk, m_import_paths, m_graph, m_active, m_alias_bindings, m_total_bytes>>
    /\ Len(m_records') = Len(m_records)
    /\ \A i \in Ids : m_records'[i].loaded = m_records[i].loaded
                      /\ m_records'[i].aliases = m_records[i].aliases

\* Every part of the invariant that does not mention the pending call or
\* result, or the position in the roots, survives such a step.
LEMMA SameGraphKeeps ==
    ASSUME IInv, Provenance, SameGraph
    PROVE  /\ PhysicalFilesOnce' /\ BytesCounted' /\ OpenOrLoaded'
           /\ EdgesFollowImports' /\ AliasesKnown'
           /\ \A f, g : Awaits(f, g)' = Awaits(f, g)
           /\ \A i : FileOf(i)' = FileOf(i)
           /\ \A S : FilesOf(S)' = FilesOf(S)
           /\ Ids' = Ids /\ Loaded' = Loaded /\ ActiveIds' = ActiveIds /\ Grows
           /\ \A i \in Ids : gather(i)' = gather(i)
<1> USE DEF IInv, Structure
<1>1. Ids' = Ids /\ Loaded' = Loaded /\ ActiveIds' = ActiveIds
  BY DEF Ids, Loaded, ActiveIds, SameGraph
<1>2. Grows
  BY <1>1 DEF Grows, SameGraph
<1>3. \A i \in Ids : gather(i)' = gather(i)
  BY <1>1 DEF gather, ClosedUnderDependencies, SameGraph
<1>4. \A i : FileOf(i)' = FileOf(i)
  BY DEF FileOf, SameGraph
<1>5. \A S : FilesOf(S)' = FilesOf(S)
  BY <1>4 DEF FilesOf
<1>0. \A p, n : ImportedFile(p, n)' = ImportedFile(p, n)
  BY DEF ImportedFile, FirstWith, SameGraph
<1>6. \A i, n : Imported(i, n)' = Imported(i, n)
  BY <1>0, <1>4 DEF Imported, SameGraph
<1>7. \A f, g : Awaits(f, g)' = Awaits(f, g)
  BY <1>0, <1>4 DEF Awaits, SameGraph
<1>8. PhysicalFilesOnce' /\ BytesCounted' /\ OpenOrLoaded'
  <2>1. \A i : BytesOf(i)' = BytesOf(i)
    BY DEF BytesOf, SameGraph
  <2>2. BytesRead' = BytesRead
    BY <1>1, <2>1 DEF BytesRead
  <2>3. BytesCounted'
    BY <2>2 DEF Provenance, BytesCounted, BudgetRespected, SameGraph
  <2> QED
    BY <1>1, <2>3 DEF Provenance, PhysicalFilesOnce, OpenOrLoaded, SameGraph
<1>9. \A i, n : EdgesMatch(i, n)' = EdgesMatch(i, n)
  BY <1>5, <1>6 DEF EdgesMatch, SameGraph
<1>10. EdgesFollowImports'
  BY <1>1, <1>4, <1>9 DEF Provenance, EdgesFollowImports, SameGraph
<1>12. AliasesKnown'
  <2>1. \A S : BindingsIn(S)' = BindingsIn(S)
    BY <1>5 DEF BindingsIn, SameGraph
  <2>2. \A i \in Ids : Below(i)' = Below(i)
    <3> SUFFICES ASSUME NEW i \in Ids PROVE Below(i)' = Below(i)
      OBVIOUS
    <3>1. m_graph'[i].dependencies = m_graph[i].dependencies /\ m_graph[i].dependencies \subseteq Ids
      BY DEF SameGraph, DependenciesLoaded, Loaded
    <3> QED
      BY <1>3, <3>1 DEF Below
  <2>3. \A i \in Loaded : m_records'[i].aliases = BindingsIn(gather(i))'
    BY <1>3, <2>1 DEF SameGraph, Provenance, AliasesKnown, Loaded
  <2>4. \A k \in 1 .. Len(m_active) : m_active[k].id \in Ids
    BY DEF FramesOpen
  <2>5. \A k \in 1 .. Len(m_active) : m_active[k].aliases = BindingsIn(Below(m_active[k].id))'
    BY <2>1, <2>2, <2>4 DEF SameGraph, Provenance, AliasesKnown
  <2>6. m_active' = m_active /\ m_alias_bindings' = m_alias_bindings
    BY DEF SameGraph
  <2>7. \A b \in 1 .. Len(m_alias_bindings) : m_alias_bindings[b] \in FilesOf(Loaded)'
    BY <1>1, <1>5 DEF Provenance, AliasesKnown
  <2> QED
    BY <1>1, <2>3, <2>5, <2>6, <2>7 DEF AliasesKnown
<1> QED
  BY <1>1, <1>2, <1>3, <1>4, <1>5, <1>7, <1>8, <1>10, <1>12

\* Under such a step, what is left to show concerns the pending call and
\* result and the position in the roots.
LEMMA SameGraphStep ==
    ASSUME IInv, Provenance, SameGraph, Pending', RootsFollow',
           m_active # <<>> /\ call' # NoCall => Awaits(Top, disk.at[call']),
           m_active # <<>> /\ returned' # Missing => Awaits(Top, FileOf(returned')),
           \A x \in Ids : Anchored(x) => Anchored(x)'
    PROVE  Provenance'
<1>1. /\ PhysicalFilesOnce' /\ BytesCounted' /\ OpenOrLoaded'
      /\ EdgesFollowImports' /\ AliasesKnown'
      /\ \A f, g : Awaits(f, g)' = Awaits(f, g)
      /\ \A i : FileOf(i)' = FileOf(i)
      /\ Ids' = Ids /\ \A i \in Ids : gather(i)' = gather(i)
  BY SameGraphKeeps
<1>2. ChainImports'
  <2>1. Top' = Top /\ m_active' = m_active /\ disk' = disk
    BY DEF SameGraph, Top
  <2>2. \A k \in 1 .. Len(m_active) - 1 : Awaits(m_active[k], FileOf(m_active[k + 1].id))'
    BY <1>1, <2>1 DEF Provenance, ChainImports
  <2>3. m_active # <<>> /\ call' # NoCall => Awaits(Top, disk.at[call])'
    BY <1>1, <2>1
  <2>4. m_active # <<>> /\ returned' # Missing => Awaits(Top, FileOf(returned))'
    BY <1>1, <2>1
  <2> QED
    BY <2>1, <2>2, <2>3, <2>4 DEF ChainImports, Missing
<1>3. Reached'
  BY <1>1 DEF Provenance, Reached
<1> QED
  BY <1>1, <1>2, <1>3 DEF Provenance

\* Steps of loadFile and of the loop over the roots that only move the
\* pending call or result.
LEMMA ControlProvenance ==
    ASSUME IInv, Provenance, LoadRoot \/ RootLoaded \/ Discovered \/ LoadAgain \/ ImportCall
    PROVE  Provenance'
<1> USE DEF IInv, Structure
<1>1. UNCHANGED <<disk, error, roots, m_import_paths, tables>>
  BY DEF LoadRoot, RootLoaded, Discovered, LoadAgain, ImportCall
<1>2. SameGraph
  BY <1>1 DEF SameGraph, tables
<1>3. /\ FilesOf(Loaded)' = FilesOf(Loaded) /\ Loaded' = Loaded /\ Ids' = Ids
      /\ \A i : FileOf(i)' = FileOf(i) /\ ActiveIds' = ActiveIds
  <2>1. /\ \A S : FilesOf(S)' = FilesOf(S)
        /\ Loaded' = Loaded /\ Ids' = Ids /\ ActiveIds' = ActiveIds
        /\ \A i : FileOf(i)' = FileOf(i)
    BY <1>2, SameGraphKeeps
  <2> QED
    BY <2>1
<1>4. phase = "discover" /\ error = "none" /\ error' = "none"
  <2>1. phase = "discover"
    BY LoaderAssumption DEF LoadRoot, RootLoaded, Discovered, LoadAgain, ImportCall, AtImport,
       InFile, AtRoots, Running, Found, TypeOK
  <2> QED
    BY <1>1, <2>1 DEF Provenance, Pending
<1>5. /\ m_active' = m_active /\ roots' = roots /\ disk' = disk
      /\ next_root \in Nat \ {0} /\ Len(roots) \in Nat /\ roots \in Seq(Path)
  BY <1>1 DEF tables, TypeOK
<1>6. CASE LoadRoot
  <2>1. /\ m_active = <<>> /\ returned = Missing /\ returned' = Missing
        /\ next_root <= Len(roots) /\ call' = roots[next_root]
        /\ next_root' = next_root /\ phase' = phase
    BY <1>6 DEF LoadRoot, AtRoots, Running
  <2>2. Pending'
    BY <1>4, <2>1 DEF Pending
  <2>3. RootsFollow'
    BY <1>3, <1>4, <1>5, <2>1 DEF Provenance, RootsFollow, RootFile
  <2>4. \A x \in Ids : Anchored(x) => Anchored(x)'
    BY <1>3, <1>5, <2>1 DEF Anchored
  <2> QED
    BY <1>2, <2>1, <2>2, <2>3, <2>4, SameGraphStep
<1>7. CASE RootLoaded
  <2>1. /\ m_active = <<>> /\ returned # Missing /\ returned' = Missing
        /\ next_root' = next_root + 1 /\ call' = call /\ call = NoCall /\ phase' = phase
    BY <1>7 DEF RootLoaded, Provenance, Pending
  <2>2. /\ next_root <= Len(roots) /\ FileOf(returned) = disk.at[roots[next_root]]
        /\ returned \in Loaded
    BY <2>1 DEF Provenance, RootsFollow, RootFile, ReturnedLoaded
  <2>3. Pending'
    BY <1>4, <2>1 DEF Pending
  <2>4. RootsFollow'
    <3>1. disk.at[roots[next_root]] \in FilesOf(Loaded)
      BY <2>2 DEF FilesOf
    <3>2. \A k \in 1 .. Len(roots) : k < next_root + 1 => disk.at[roots[k]] \in FilesOf(Loaded)
      BY <1>5, <3>1 DEF Provenance, RootsFollow
    <3> QED
      BY <1>3, <1>4, <1>5, <2>1, <3>2 DEF RootsFollow
  <2>5. \A x \in Ids : Anchored(x) => Anchored(x)'
    <3> SUFFICES ASSUME NEW x \in Ids, Anchored(x) PROVE Anchored(x)'
      OBVIOUS
    <3>1. CASE x \in ActiveIds
      BY <1>3, <3>1 DEF Anchored
    <3>2. CASE x = returned
      <4>1. next_root \in 1 .. Len(roots') /\ next_root < next_root'
        BY <1>5, <2>1, <2>2
      <4>2. FileOf(x)' = disk'.at[roots'[next_root]]
        BY <1>3, <1>5, <2>2, <3>2
      <4> QED
        BY <4>1, <4>2 DEF Anchored
    <3>3. CASE \E k \in 1 .. Len(roots) : k < next_root /\ FileOf(x) = disk.at[roots[k]]
      <4>1. PICK k \in 1 .. Len(roots) : k < next_root /\ FileOf(x) = disk.at[roots[k]]
        BY <3>3
      <4>2. k \in 1 .. Len(roots') /\ k < next_root' /\ FileOf(x)' = disk'.at[roots'[k]]
        BY <1>3, <1>5, <2>1, <4>1
      <4> QED
        BY <4>2 DEF Anchored
    <3> QED
      BY <3>1, <3>2, <3>3 DEF Anchored
  <2> QED
    BY <1>2, <2>1, <2>3, <2>4, <2>5, SameGraphStep
<1>8. CASE Discovered
  <2>1. /\ m_active = <<>> /\ returned = Missing /\ returned' = Missing /\ call' = NoCall
        /\ next_root > Len(roots) /\ next_root' = next_root /\ phase' = "ready"
    BY <1>8 DEF Discovered, AtRoots, Running
  <2>2. Pending'
    BY <2>1 DEF Pending
  <2>3. RootsFollow'
    BY <1>3, <1>5, <2>1 DEF Provenance, RootsFollow
  <2>4. \A x \in Ids : Anchored(x) => Anchored(x)'
    BY <1>3, <1>5, <2>1 DEF Anchored
  <2> QED
    BY <1>2, <2>1, <2>2, <2>3, <2>4, SameGraphStep
<1>9. CASE LoadAgain
  <2>1. PICK id \in Ids : /\ Found(id) /\ m_records[id].loaded
                          /\ call' = NoCall /\ returned' = id
                          /\ phase' = phase /\ next_root' = next_root
    BY <1>9 DEF LoadAgain
  <2>2. call # NoCall /\ returned = Missing /\ FileOf(id) = disk.at[call]
    BY <2>1, FoundFile DEF Found, Provenance, Pending
  <2>3. Pending'
    BY <1>4, <2>1 DEF Pending
  <2>4. RootsFollow'
    <3>1. m_active = <<>> => next_root <= Len(roots) /\ FileOf(id) = disk.at[roots[next_root]]
      BY <2>2 DEF Provenance, RootsFollow, RootFile
    <3>2. FileOf(returned)' = FileOf(id)
      BY <1>3, <2>1
    <3>3. RootFile' = RootFile
      BY <1>5, <2>1 DEF RootFile
    <3> QED
      BY <1>3, <1>4, <1>5, <2>1, <3>1, <3>2, <3>3 DEF Provenance, RootsFollow, RootFile
  <2>5. \A x \in Ids : Anchored(x) => Anchored(x)'
    BY <1>3, <1>5, <2>1, <2>2 DEF Anchored
  <2>6. m_active # <<>> => Awaits(Top, FileOf(returned'))
    BY <2>1, <2>2 DEF Provenance, ChainImports
  <2> QED
    BY <1>2, <2>1, <2>3, <2>4, <2>5, <2>6, SameGraphStep
<1>10. CASE ImportCall
  <2>1. /\ m_active # <<>> /\ returned = Missing /\ returned' = Missing
        /\ next_root' = next_root /\ phase' = phase
        /\ Top.next <= Len(disk.imports[TopFile])
    BY <1>10 DEF ImportCall, AtImport, InFile, Running
  <2>2. call' \in Path /\ Resolves(ImportCandidates, call')
    BY <1>10 DEF ImportCall
  <2>3. Pending'
    BY <1>4, <2>1 DEF Pending
  <2>4. RootsFollow'
    BY <1>3, <1>4, <1>5, <2>1 DEF Provenance, RootsFollow, RootFile
  <2>5. \A x \in Ids : Anchored(x) => Anchored(x)'
    BY <1>3, <1>5, <2>1 DEF Anchored
  <2>6. Awaits(Top, disk.at[call'])
    <3> DEFINE owner == m_graph[Top.id].path
               import == disk.imports[TopFile][Top.next]
    <3>1. Top \in Frame /\ Top.id \in Ids /\ TopFile \in Inode /\ TopFile = FileOf(Top.id)
      BY <2>1, TopFrame DEF TopFile, FileOf
    <3>2. owner \in Path
      <4>1. m_graph[Top.id] \in Node
        BY <3>1 DEF TypeOK, Ids
      <4> QED
        BY <4>1 DEF Node
    <3>3. disk.imports[TopFile] \in Seq(Name)
      BY <3>1 DEF TypeOK, Disk
    <3>4. Top.next \in 1 .. Len(disk.imports[TopFile])
      <4>1. Top = m_active[Len(m_active)] /\ Len(m_active) \in 1 .. Len(m_active)
        BY <2>1, TopFrame
      <4>2. Top.next \in 1 .. Len(disk.imports[FileOf(Top.id)]) + 1
        BY <4>1 DEF Provenance, EdgesFollowImports
      <4> QED
        BY <2>1, <3>1, <3>3, <4>2
    <3>5. import \in Name
      BY <3>3, <3>4
    <3>6. ImportCandidates = Candidates(owner, import)
      BY DEF ImportCandidates
    <3>7. ImportedFile(owner, import) = disk.at[call']
      <4> HIDE DEF owner, import
      <4>1. \A path \in Path : Resolves(ImportCandidates, path) => ImportedFile(owner, import) = disk.at[path]
        BY <3>2, <3>5, <3>6, ResolutionIsReference
      <4> QED
        BY <2>2, <4>1
    <3> QED
      BY <2>1, <3>1, <3>7 DEF Awaits
  <2> QED
    BY <1>2, <2>1, <2>3, <2>4, <2>5, <2>6, SameGraphStep
<1> QED
  BY <1>6, <1>7, <1>8, <1>9, <1>10

\* What loadFile has changed when it reaches the first import of the new
\* file id.
Entered(id) ==
    /\ call \in Path /\ disk.at[call] \in Inode /\ phase = "discover"
    /\ id \notin Ids /\ Ids' = Ids \cup {id}
    /\ \A i \in Ids : m_graph'[i] = m_graph[i] /\ m_records'[i] = m_records[i]
    /\ m_graph'[id].path = call /\ m_graph'[id].dependencies = {}
    /\ ~m_records'[id].loaded /\ Loaded' = Loaded
    /\ Len(m_active) \in Nat /\ Len(m_active') = Len(m_active) + 1
    /\ \A k \in 1 .. Len(m_active) : m_active'[k] = m_active[k]
    /\ m_active'[Len(m_active) + 1] = [id |-> id, next |-> 1, aliases |-> {}]
    /\ Grows

\* LoadPreamble appends one node, one record and one frame.
LEMMA PreambleEffect ==
    ASSUME IInv, LoadPreamble
    PROVE  \E id \in Nat : Entered(id)
<1> DEFINE NewId == Len(m_graph) + 1
<1> USE DEF IInv
<1> DEFINE node == [path |-> call, is_interface |-> isInterface(call), dependencies |-> {}]
           rec  == [aliases |-> {}, loaded |-> FALSE, taken |-> FALSE, completed |-> FALSE]
           top  == [id |-> NewId, next |-> 1, aliases |-> {}]
<1>1. /\ m_graph' = Append(m_graph, node) /\ m_records' = Append(m_records, rec)
      /\ m_active' = Append(m_active, top)
      /\ disk' = disk /\ m_import_paths' = m_import_paths
  BY DEF LoadPreamble
<1>2. call \in Path /\ phase = "discover" /\ disk.at[call] \in Inode
  BY DEF LoadPreamble, Fresh, Readable, TypeOK
<1>3. /\ m_graph \in Seq(Node) /\ m_records \in Seq(Record) /\ m_active \in Seq(Frame)
      /\ Len(m_records) = Len(m_graph) /\ Len(m_graph) \in Nat /\ Len(m_active) \in Nat
  BY DEF TypeOK
<1>4. node \in Node /\ rec \in Record /\ top \in Frame /\ NewId \in Nat
  BY <1>2, <1>3 DEF Node, Record, Frame, isInterface
<1>5. node.path = call /\ node.dependencies = {} /\ ~rec.loaded
  OBVIOUS
<1>6. top = [id |-> NewId, next |-> 1, aliases |-> {}]
  OBVIOUS
<1> HIDE DEF node, rec, top
<1>7. /\ NewId \notin Ids /\ Ids' = Ids \cup {NewId}
      /\ \A i \in Ids : m_graph'[i] = m_graph[i] /\ m_records'[i] = m_records[i]
      /\ m_graph'[NewId] = node /\ m_records'[NewId] = rec
  BY <1>1, <1>3, <1>4 DEF Ids
<1> HIDE DEF NewId
<1>8. /\ Len(m_active') = Len(m_active) + 1 /\ m_active'[Len(m_active) + 1] = top
      /\ \A k \in 1 .. Len(m_active) : m_active'[k] = m_active[k]
  BY <1>1, <1>3, <1>4
<1>9. Loaded' = Loaded
  BY <1>5, <1>7 DEF Loaded
<1>10. Grows
  BY <1>1, <1>7 DEF Grows
<1>11. Entered(NewId)
  BY <1>2, <1>3, <1>5, <1>6, <1>7, <1>8, <1>9, <1>10 DEF Entered
<1> QED
  BY <1>4, <1>11

\* A new file is a new physical file, imports nothing yet, and is imported by
\* the frame below it.
LEMMA PreambleProvenance ==
    ASSUME IInv, Provenance, LoadPreamble
    PROVE  Provenance'
<1> USE DEF IInv, Structure
<1>0. PICK id \in Nat : Entered(id)
  BY PreambleEffect
<1> DEFINE n == Len(m_active)
           top == [id |-> id, next |-> 1, aliases |-> {}]
<1>1. /\ call \in Path /\ disk.at[call] \in Inode /\ phase = "discover"
      /\ id \notin Ids /\ Ids' = Ids \cup {id}
      /\ \A i \in Ids : m_graph'[i] = m_graph[i] /\ m_records'[i] = m_records[i]
      /\ m_graph'[id].path = call /\ m_graph'[id].dependencies = {}
      /\ ~m_records'[id].loaded /\ Loaded' = Loaded
  BY <1>0 DEF Entered
<1>2. /\ n \in Nat /\ Len(m_active') = n + 1
      /\ \A k \in 1 .. n : m_active'[k] = m_active[k]
      /\ m_active'[n + 1] = top /\ top.id = id /\ top.next = 1 /\ top.aliases = {}
      /\ Grows
  BY <1>0 DEF Entered
<1> HIDE DEF n, top
<1>3. /\ disk' = disk /\ phase' = phase /\ returned' = returned /\ call' = NoCall
      /\ m_total_bytes' = m_total_bytes + disk.size[disk.at[call]]
      /\ disk.size[disk.at[call]] <= MaxTotalBytes - m_total_bytes /\ Fresh /\ call # NoCall
      /\ UNCHANGED <<error, roots, next_root, m_import_paths, m_alias_bindings>>
  BY DEF LoadPreamble, FitsBudget, Fresh
<1>4. returned = Missing
  BY <1>3 DEF Provenance, Pending
<1>5. /\ \A i \in Ids : FileOf(i)' = FileOf(i)
      /\ \A S \in SUBSET Ids : FilesOf(S)' = FilesOf(S)
      /\ \A i \in Ids, m \in Nat : Imported(i, m)' = Imported(i, m)
      /\ \A f, g : f.id \in Ids => Awaits(f, g)' = Awaits(f, g)
  BY <1>2, GrowthKeepsFiles
<1>6. FileOf(id)' = disk.at[call]
  BY <1>1, <1>3 DEF FileOf
<1>7. \A k \in 1 .. n : m_active[k].id \in Ids
  BY DEF FramesOpen, n
<1>8. PhysicalFilesOnce'
  <2>1. \A i \in Ids : FileOf(i) # disk.at[call]
    BY <1>3, FreshFile DEF Provenance
  <2>2. \A i, j \in Ids : FileOf(i) = FileOf(j) => i = j
    BY DEF Provenance, PhysicalFilesOnce, FileOf
  <2>3. \A i, j \in Ids' : FileOf(i)' = FileOf(j)' => i = j
    BY <1>1, <1>5, <1>6, <2>1, <2>2
  <2> QED
    BY <2>3 DEF PhysicalFilesOnce, FileOf
<1>9. BytesCounted'
  <2> DEFINE size == disk.size[disk.at[call]]
             new == {id} \X (1 .. size)
  <2>1. size \in Nat /\ m_total_bytes \in Nat /\ MaxTotalBytes \in Nat
    BY <1>1, LoaderAssumption DEF TypeOK, Disk
  <2>2. m_total_bytes' = m_total_bytes + size /\ m_total_bytes' <= MaxTotalBytes
    <3>1. m_total_bytes' = m_total_bytes + size /\ size <= MaxTotalBytes - m_total_bytes
      BY <1>3
    <3> HIDE DEF size
    <3> QED
      BY <2>1, <3>1
  <2>3. BytesRead' = BytesRead \cup new
    <3>1. \A i \in Ids : BytesOf(i)' = BytesOf(i)
      BY <1>1, <1>3 DEF BytesOf
    <3>2. BytesOf(id)' = new
      BY <1>1, <1>3 DEF BytesOf
    <3> HIDE DEF new
    <3> QED
      BY <1>1, <3>1, <3>2 DEF BytesRead
  <2> HIDE DEF size
  <2>4. IsFiniteSet(new) /\ Cardinality(new) = size
    <3>1. IsFiniteSet(1 .. size) /\ Cardinality(1 .. size) = size
      BY <2>1, FS_Interval
    <3>2. IsFiniteSet({id}) /\ Cardinality({id}) = 1
      BY FS_Singleton
    <3>3. IsFiniteSet(new) /\ Cardinality(new) = Cardinality({id}) * Cardinality(1 .. size)
      BY <3>1, <3>2, FS_Product
    <3> HIDE DEF new
    <3> QED
      BY <2>1, <3>1, <3>2, <3>3
  <2>5. BytesRead \cap new = {}
    <3>1. ASSUME NEW x \in BytesRead PROVE x \notin new
      <4>1. PICK i \in Ids : x \in BytesOf(i)
        BY <3>1 DEF BytesRead
      <4> QED
        BY <1>1, <4>1 DEF BytesOf
    <3> QED
      BY <3>1
  <2> HIDE DEF new
  <2>6. IsFiniteSet(BytesRead) /\ m_total_bytes = Cardinality(BytesRead)
    BY DEF Provenance, BytesCounted, BudgetRespected
  <2>7. /\ IsFiniteSet(BytesRead \cup new)
        /\ Cardinality(BytesRead \cup new) = m_total_bytes + size - Cardinality(BytesRead \cap new)
    BY <2>4, <2>6, FS_Union
  <2>8. Cardinality(BytesRead \cap new) = 0
    BY <2>5, FS_EmptySet
  <2>9. IsFiniteSet(BytesRead') /\ Cardinality(BytesRead') = m_total_bytes'
    BY <2>1, <2>2, <2>3, <2>7, <2>8
  <2> QED
    BY <2>2, <2>9 DEF BytesCounted, BudgetRespected
<1>10. OpenOrLoaded' /\ Pending'
  <2>1. id \in ActiveIds' /\ ActiveIds \subseteq ActiveIds'
    BY <1>2 DEF ActiveIds, n
  <2> QED
    BY <1>1, <1>3, <2>1 DEF Provenance, OpenOrLoaded, Pending
<1>11. ChainImports'
  <2>1. ASSUME NEW k \in 1 .. Len(m_active') - 1
        PROVE  Awaits(m_active[k], FileOf(m_active[k + 1].id))'
    <3>0. k \in 1 .. n /\ m_active'[k] = m_active[k] /\ m_active[k].id \in Ids
      BY <1>2, <1>7
    <3>1. CASE k = n
      <4>1. m_active'[k + 1].id = id
        BY <1>2, <3>1
      <4>2. FileOf(m_active[k + 1].id)' = disk.at[call]
        BY <1>6, <4>1
      <4>3. m_active # <<>> /\ Top = m_active[k]
        BY <1>2, <3>1 DEF Top, n
      <4>4. Awaits(m_active[k], disk.at[call])
        BY <1>3, <4>3 DEF Provenance, ChainImports
      <4> QED
        BY <1>5, <3>0, <4>2, <4>4
    <3>2. CASE k # n
      <4>1. k \in 1 .. n - 1 /\ k + 1 \in 1 .. n
        BY <1>2, <3>0, <3>2
      <4>2. Awaits(m_active[k], FileOf(m_active[k + 1].id))
        BY <4>1 DEF Provenance, ChainImports, n
      <4>3. FileOf(m_active[k + 1].id)' = FileOf(m_active[k + 1].id)
        BY <1>2, <1>5, <1>7, <4>1
      <4> QED
        BY <1>5, <3>0, <4>2, <4>3
    <3> QED
      BY <3>1, <3>2
  <2> QED
    BY <1>3, <1>4, <2>1 DEF ChainImports, Missing
<1>12. EdgesFollowImports'
  <2>1. \A i \in Ids, m \in Nat : EdgesMatch(i, m)' = EdgesMatch(i, m)
    <3>1. \A i \in Ids : m_graph[i].dependencies \subseteq Ids
      BY DEF DependenciesLoaded, Loaded
    <3> QED
      BY <1>1, <1>5, <3>1 DEF EdgesMatch
  <2>2. EdgesMatch(id, 0)'
    BY <1>1 DEF EdgesMatch, FilesOf, Imported
  <2>3. \A i \in Ids : disk.imports[FileOf(i)] \in Seq(Name)
    BY DEF FilesRead, FileOf, TypeOK, Disk
  <2>4. \A i \in Loaded' : EdgesMatch(i, Len(disk.imports[FileOf(i)]))'
    <3> SUFFICES ASSUME NEW i \in Loaded PROVE EdgesMatch(i, Len(disk.imports[FileOf(i)]))'
      BY <1>1
    <3>1. i \in Ids /\ Len(disk.imports[FileOf(i)]) \in Nat
      BY <2>3 DEF Loaded
    <3>2. EdgesMatch(i, Len(disk.imports[FileOf(i)]))
      BY DEF Provenance, EdgesFollowImports
    <3>3. disk' = disk /\ FileOf(i)' = FileOf(i)
      BY <1>3, <1>5, <3>1
    <3> QED
      BY <2>1, <3>1, <3>2, <3>3
  <2>5. ASSUME NEW k \in 1 .. Len(m_active')
        PROVE  /\ m_active'[k].next \in 1 .. Len(disk'.imports[FileOf(m_active[k].id)']) + 1
               /\ EdgesMatch(m_active[k].id, m_active[k].next - 1)'
    <3>1. CASE k = n + 1
      <4>1. m_active'[k] = top /\ m_active'[k].id = id /\ m_active'[k].next = 1
        BY <1>2, <3>1
      <4>2. Len(disk.imports[disk.at[call]]) \in Nat
        BY <1>1 DEF TypeOK, Disk
      <4> QED
        BY <1>3, <1>6, <2>2, <4>1, <4>2
    <3>2. CASE k # n + 1
      <4>1. k \in 1 .. n /\ m_active'[k] = m_active[k] /\ m_active[k].id \in Ids
        BY <1>2, <1>7, <3>2
      <4>2. /\ m_active[k].next \in 1 .. Len(disk.imports[FileOf(m_active[k].id)]) + 1
            /\ EdgesMatch(m_active[k].id, m_active[k].next - 1)
        BY <4>1 DEF Provenance, EdgesFollowImports, n
      <4>3. m_active[k].next - 1 \in Nat
        BY <2>3, <4>1, <4>2
      <4> QED
        BY <1>3, <1>5, <2>1, <4>1, <4>2, <4>3
    <3> QED
      BY <3>1, <3>2
  <2> QED
    BY <2>4, <2>5 DEF EdgesFollowImports
<1>13. RootsFollow'
  <2>1. FilesOf(Loaded)' = FilesOf(Loaded)
    BY <1>1, <1>5 DEF Loaded
  <2>2. m_active' # <<>>
    BY <1>2
  <2>3. next_root <= Len(roots) /\ FileOf(m_active[1].id)' = disk.at[roots[next_root]]
    <3>1. CASE m_active = <<>>
      <4>1. n = 0 /\ m_active'[1].id = id
        BY <1>2, <3>1 DEF n
      <4> QED
        BY <1>3, <1>6, <3>1, <4>1 DEF Provenance, RootsFollow, RootFile
    <3>2. CASE m_active # <<>>
      <4>1. 1 \in 1 .. n
        BY <3>2 DEF n, TypeOK
      <4>2. m_active'[1] = m_active[1] /\ FileOf(m_active[1].id)' = FileOf(m_active[1].id)
        BY <1>2, <1>5, <1>7, <4>1
      <4> QED
        BY <3>2, <4>2 DEF Provenance, RootsFollow, RootFile
    <3> QED
      BY <3>1, <3>2
  <2> QED
    BY <1>1, <1>3, <2>1, <2>2, <2>3 DEF Provenance, RootsFollow, RootFile
<1>14. Reached'
  <2>1. id \in ActiveIds' /\ ActiveIds \subseteq ActiveIds'
    BY <1>2 DEF ActiveIds, n
  <2>2. id \in gather(id)'
    BY <1>1 DEF gather
  <2>3. ASSUME NEW i \in Ids PROVE \E x \in Ids' : Anchored(x)' /\ i \in gather(x)'
    <3>1. PICK x \in Ids : Anchored(x) /\ i \in gather(x)
      BY DEF Provenance, Reached
    <3>2. i \in gather(x)'
      BY <1>2, <3>1, GatherGrows
    <3>3. Anchored(x)'
      BY <1>3, <1>4, <1>5, <2>1, <3>1 DEF Anchored
    <3> QED
      BY <1>1, <3>2, <3>3
  <2>4. Anchored(id)'
    BY <2>1 DEF Anchored
  <2> QED
    BY <1>1, <2>2, <2>3, <2>4 DEF Reached
<1>15. AliasesKnown'
  <2>1. \A i \in Loaded : gather(i)' = gather(i) /\ gather(i) \subseteq Ids /\ i \in Ids
    <3>1. \A i \in Loaded : i \in Ids /\ m_graph'[i].dependencies = m_graph[i].dependencies
      BY <1>1 DEF Loaded
    <3> QED
      BY <1>2, <3>1, GatherKept, GatherClosed
  <2>2. \A S \in SUBSET Ids : BindingsIn(S)' = BindingsIn(S)
    BY <1>3, <1>5 DEF BindingsIn
  <2>3. \A i \in Loaded : m_records'[i].aliases = BindingsIn(gather(i))'
    <3> SUFFICES ASSUME NEW i \in Loaded PROVE m_records'[i].aliases = BindingsIn(gather(i))'
      OBVIOUS
    <3>1. m_records'[i] = m_records[i] /\ m_records[i].aliases = BindingsIn(gather(i))
      BY <1>1 DEF Provenance, AliasesKnown, Loaded
    <3> QED
      BY <2>1, <2>2, <3>1
  <2>4. \A i \in Ids : Below(i)' = Below(i) /\ Below(i) \subseteq Ids
    <3> SUFFICES ASSUME NEW i \in Ids PROVE Below(i)' = Below(i) /\ Below(i) \subseteq Ids
      OBVIOUS
    <3>1. m_graph'[i].dependencies = m_graph[i].dependencies /\ m_graph[i].dependencies \subseteq Loaded
      BY <1>1 DEF DependenciesLoaded
    <3> QED
      BY <2>1, <3>1 DEF Below
  <2>5. Below(id)' = {}
    BY <1>1 DEF Below
  <2>6. ASSUME NEW k \in 1 .. Len(m_active') PROVE m_active'[k].aliases = BindingsIn(Below(m_active[k].id))'
    <3>1. CASE k = n + 1
      <4>1. m_active'[k].aliases = {} /\ m_active'[k].id = id
        BY <1>2, <3>1
      <4>2. Below(m_active[k].id)' = {}
        BY <2>5, <4>1
      <4> QED
        BY <4>1, <4>2 DEF BindingsIn, FilesOf
    <3>2. CASE k # n + 1
      <4>1. k \in 1 .. n /\ m_active'[k] = m_active[k] /\ m_active[k].id \in Ids
        BY <1>2, <1>7, <3>2
      <4>2. m_active[k].aliases = BindingsIn(Below(m_active[k].id))
        BY <4>1 DEF Provenance, AliasesKnown, n
      <4> QED
        BY <2>2, <2>4, <4>1, <4>2
    <3> QED
      BY <3>1, <3>2
  <2>7. \A b \in 1 .. Len(m_alias_bindings) : m_alias_bindings[b] \in FilesOf(Loaded)'
    BY <1>1, <1>5 DEF Provenance, AliasesKnown, Loaded
  <2> QED
    BY <1>1, <1>3, <2>3, <2>6, <2>7 DEF AliasesKnown
<1> QED
  BY <1>8, <1>9, <1>10, <1>11, <1>12, <1>13, <1>14, <1>15 DEF Provenance

-----------------------------------------------------------------------------
\* What the importer t has changed when it takes over the file r handed back.
Returning(t, r) ==
    /\ t \in Ids /\ t \notin Loaded /\ r \in Loaded /\ r = returned /\ t = Top.id
    /\ Ids' = Ids /\ Loaded' = Loaded /\ m_records' = m_records /\ Grows
    /\ m_graph'[t].dependencies = m_graph[t].dependencies \cup {r}
    /\ \A i \in Ids : i # t => m_graph'[i] = m_graph[i]
    /\ Len(m_active) \in Nat \ {0} /\ Len(m_active') = Len(m_active)
    /\ \A k \in 1 .. Len(m_active) - 1 : m_active'[k] = m_active[k] /\ m_active[k].id # t
    /\ m_active'[Len(m_active)] = [id |-> t, next |-> Top.next + 1,
                                   aliases |-> Top.aliases \cup m_records[r].aliases]

\* ImportReturned adds one edge and advances one frame.
LEMMA ImportReturnedEffect ==
    ASSUME IInv, ImportReturned
    PROVE  \E t, r \in Nat : Returning(t, r)
<1> USE DEF IInv, Structure
<1> DEFINE n == Len(m_active)
           t == Top.id
           node == [m_graph[t] EXCEPT !.dependencies = @ \cup {returned}]
           frame == [id |-> t, next |-> Top.next + 1,
                     aliases |-> Top.aliases \cup m_records[returned].aliases]
<1>1. /\ m_graph' = [m_graph EXCEPT ![t] = node]
      /\ m_active' = [m_active EXCEPT ![n] = frame]
      /\ returned # Missing /\ m_active # <<>>
      /\ UNCHANGED <<disk, m_import_paths, m_records>>
  BY DEF ImportReturned, InheritedAliases
<1>2. n \in 1 .. n /\ n \in Nat \ {0} /\ Top = m_active[n] /\ t \in Ids /\ t \notin Loaded
  BY <1>1, TopFrame DEF Loaded, TypeOK
<1>3. returned \in Loaded /\ returned \in Nat
  BY <1>1 DEF ReturnedLoaded, TypeOK
<1>4. m_graph \in Seq(Node) /\ m_graph[t] \in Node /\ m_active \in Seq(Frame) /\ t \in Nat
  BY <1>2 DEF TypeOK, Ids
<1>5. node.path = m_graph[t].path /\ node.dependencies = m_graph[t].dependencies \cup {returned}
  BY <1>4 DEF Node
<1>6. frame = [id |-> t, next |-> Top.next + 1,
               aliases |-> Top.aliases \cup m_records[returned].aliases]
  OBVIOUS
<1>7. \A k \in 1 .. n - 1 : k \in 1 .. n /\ k # n /\ m_active[k].id # t
  BY <1>2 DEF FramesOpen
<1> HIDE DEF node, frame, t, n
<1>8. /\ Ids' = Ids /\ m_graph'[t] = node
      /\ \A i \in Ids : i # t => m_graph'[i] = m_graph[i]
  BY <1>1, <1>2, <1>4 DEF Ids
<1>9. Len(m_active') = n /\ m_active'[n] = frame /\ \A k \in 1 .. n - 1 : m_active'[k] = m_active[k]
  BY <1>1, <1>2, <1>4, <1>7 DEF n
<1>10. Grows
  BY <1>1, <1>5, <1>8 DEF Grows
<1>11. Loaded' = Loaded
  BY <1>1, <1>8 DEF Loaded
<1>12. Returning(t, returned)
  BY <1>1, <1>2, <1>3, <1>5, <1>6, <1>7, <1>8, <1>9, <1>10, <1>11 DEF Returning, n, t
<1> QED
  BY <1>3, <1>4, <1>12

\* The edge recorded is the import statement the frame was at, and the aliases
\* inherited are those of the module behind it.
LEMMA ImportReturnedProvenance ==
    ASSUME IInv, Provenance, ImportReturned
    PROVE  Provenance'
<1> USE DEF IInv, Structure
<1>0. PICK t, r \in Nat : Returning(t, r)
  BY ImportReturnedEffect
<1> DEFINE n == Len(m_active)
           names == disk.imports[FileOf(t)]
<1>1. /\ t \in Ids /\ t \notin Loaded /\ r \in Loaded /\ r = returned /\ t = Top.id
      /\ Ids' = Ids /\ Loaded' = Loaded /\ m_records' = m_records /\ Grows
      /\ m_graph'[t].dependencies = m_graph[t].dependencies \cup {r}
      /\ \A i \in Ids : i # t => m_graph'[i] = m_graph[i]
      /\ Loaded \subseteq Ids
  BY <1>0 DEF Returning, Loaded
<1>2. /\ n \in Nat \ {0} /\ Len(m_active') = n /\ Top = m_active[n] /\ n \in 1 .. n
      /\ \A k \in 1 .. n - 1 : m_active'[k] = m_active[k] /\ m_active[k].id # t
      /\ m_active'[n].id = t /\ m_active'[n].next = Top.next + 1
      /\ m_active'[n].aliases = Top.aliases \cup m_records[r].aliases
  BY <1>0 DEF Returning, Top
<1> HIDE DEF n
<1>3. /\ returned # Missing /\ returned' = Missing /\ m_active # <<>>
      /\ UNCHANGED <<disk, phase, error, roots, next_root, call, m_import_paths,
                     m_alias_bindings, m_total_bytes>>
  BY DEF ImportReturned
<1>4. call = NoCall
  BY <1>3 DEF Provenance, Pending
<1>5. /\ \A i \in Ids : FileOf(i)' = FileOf(i)
      /\ \A S \in SUBSET Ids : FilesOf(S)' = FilesOf(S)
      /\ \A i \in Ids, m \in Nat : Imported(i, m)' = Imported(i, m)
      /\ \A f, g : f.id \in Ids => Awaits(f, g)' = Awaits(f, g)
  BY <1>1, GrowthKeepsFiles
<1>6. \A k \in 1 .. n : m_active[k].id \in Ids
  BY DEF FramesOpen, n
<1>7. \A k \in 1 .. n : m_active'[k].id = m_active[k].id
  BY <1>1, <1>2
<1>8. PhysicalFilesOnce'
  <2>1. \A i, j \in Ids : FileOf(i) = FileOf(j) => i = j
    BY DEF Provenance, PhysicalFilesOnce, FileOf
  <2>2. \A i, j \in Ids' : FileOf(i)' = FileOf(j)' => i = j
    BY <1>1, <1>5, <2>1
  <2> QED
    BY <2>2 DEF PhysicalFilesOnce, FileOf
<1>9. BytesCounted'
  <2>1. \A i \in Ids : FileOf(i)' = FileOf(i) /\ BytesOf(i)' = {i} \X (1 .. disk.size[FileOf(i)])
    BY <1>3, <1>5 DEF BytesOf, FileOf
  <2>2. BytesRead' = BytesRead
    BY <1>1, <2>1 DEF BytesRead, BytesOf, FileOf
  <2> QED
    BY <1>3, <2>2 DEF Provenance, BytesCounted, BudgetRespected
<1>10. ActiveIds' = ActiveIds
  BY <1>2, <1>7 DEF ActiveIds, n
<1>11. OpenOrLoaded' /\ Pending'
  BY <1>1, <1>3, <1>4, <1>10 DEF Provenance, OpenOrLoaded, Pending
<1>12. ChainImports'
  <2>1. ASSUME NEW k \in 1 .. Len(m_active') - 1
        PROVE  Awaits(m_active[k], FileOf(m_active[k + 1].id))'
    <3>1. k \in 1 .. n - 1 /\ k \in 1 .. n /\ k + 1 \in 1 .. n
      BY <1>2
    <3>2. m_active'[k] = m_active[k] /\ m_active'[k + 1].id = m_active[k + 1].id
      BY <1>2, <1>7, <3>1
    <3>3. FileOf(m_active[k + 1].id)' = FileOf(m_active[k + 1].id)
      BY <1>5, <1>6, <3>1, <3>2
    <3>4. Awaits(m_active[k], FileOf(m_active[k + 1].id))
      BY <3>1 DEF Provenance, ChainImports, n
    <3> QED
      BY <1>5, <1>6, <3>1, <3>2, <3>3, <3>4
  <2> QED
    BY <1>3, <1>4, <2>1 DEF ChainImports, Missing
<1>13. names \in Seq(Name) /\ Top.next \in 1 .. Len(names)
       /\ ImportedFile(m_graph[t].path, names[Top.next]) = FileOf(r)
  <2>1. names \in Seq(Name)
    BY <1>1 DEF FilesRead, FileOf, TypeOK, Disk
  <2>2. Top.next \in 1 .. Len(names) + 1
    BY <1>1, <1>2 DEF Provenance, EdgesFollowImports, n
  <2>3. Awaits(Top, FileOf(r))
    BY <1>1, <1>3 DEF Provenance, ChainImports
  <2> QED
    BY <1>1, <2>1, <2>2, <2>3 DEF Awaits
<1>14. EdgesFollowImports'
  <2>1. ASSUME NEW i \in Ids, i # t, NEW m \in Nat PROVE EdgesMatch(i, m)' = EdgesMatch(i, m)
    <3>1. m_graph[i].dependencies \subseteq Ids
      BY DEF DependenciesLoaded, Loaded
    <3>2. FilesOf(m_graph[i].dependencies)' = FilesOf(m_graph[i].dependencies)
      BY <1>1, <1>5, <2>1, <3>1
    <3> QED
      BY <1>5, <3>2 DEF EdgesMatch
  <2>2. EdgesMatch(t, Top.next - 1) /\ Top.next - 1 \in Nat /\ Top.next \in Nat
    BY <1>1, <1>2, <1>13 DEF Provenance, EdgesFollowImports, n
  <2>3. FilesOf(m_graph[t].dependencies)' = Imported(t, Top.next)
    <3>1. m_graph[t].dependencies \cup {r} \subseteq Ids
      BY <1>1 DEF DependenciesLoaded, Loaded
    <3>2. FilesOf(m_graph[t].dependencies)' = FilesOf(m_graph[t].dependencies \cup {r})
      BY <1>1, <1>5, <3>1
    <3>3. FilesOf(m_graph[t].dependencies \cup {r}) = FilesOf(m_graph[t].dependencies) \cup {FileOf(r)}
      BY DEF FilesOf
    <3>4. Imported(t, Top.next) = Imported(t, Top.next - 1) \cup {FileOf(r)}
      <4>1. 1 .. Top.next = (1 .. Top.next - 1) \cup {Top.next}
        BY <2>2, <1>13
      <4> QED
        BY <1>13, <4>1 DEF Imported
    <3> QED
      BY <2>2, <3>2, <3>3, <3>4 DEF EdgesMatch
  <2>4. \A m \in Nat : m = Top.next => EdgesMatch(t, m)'
    BY <1>1, <1>5, <2>3 DEF EdgesMatch
  <2>5. \A i \in Ids : disk.imports[FileOf(i)] \in Seq(Name)
    BY DEF FilesRead, FileOf, TypeOK, Disk
  <2>6. ASSUME NEW i \in Loaded PROVE EdgesMatch(i, Len(disk.imports[FileOf(i)]))'
    <3>1. i \in Ids /\ i # t /\ Len(disk.imports[FileOf(i)]) \in Nat
      BY <1>1, <2>5
    <3>2. EdgesMatch(i, Len(disk.imports[FileOf(i)]))
      BY DEF Provenance, EdgesFollowImports
    <3>3. disk' = disk /\ FileOf(i)' = FileOf(i)
      BY <1>3, <1>5, <3>1
    <3> QED
      BY <2>1, <3>1, <3>2, <3>3
  <2>7. ASSUME NEW k \in 1 .. Len(m_active')
        PROVE  /\ m_active'[k].next \in 1 .. Len(disk'.imports[FileOf(m_active[k].id)']) + 1
               /\ EdgesMatch(m_active[k].id, m_active[k].next - 1)'
    <3>1. CASE k = n
      <4>1. m_active'[k].id = t /\ m_active'[k].next = Top.next + 1 /\ m_active'[k].next - 1 = Top.next
        BY <1>2, <2>2, <3>1
      <4>2. FileOf(t)' = FileOf(t)
        BY <1>1, <1>5
      <4>3. Top.next + 1 \in 1 .. Len(names) + 1
        BY <1>13
      <4> QED
        BY <1>3, <2>2, <2>4, <4>1, <4>2, <4>3
    <3>2. CASE k # n
      <4>1. /\ k \in 1 .. n /\ m_active'[k] = m_active[k] /\ m_active[k].id \in Ids
            /\ m_active[k].id # t
        BY <1>2, <1>6, <3>2
      <4>2. /\ m_active[k].next \in 1 .. Len(disk.imports[FileOf(m_active[k].id)]) + 1
            /\ EdgesMatch(m_active[k].id, m_active[k].next - 1)
        BY <4>1 DEF Provenance, EdgesFollowImports, n
      <4>3. m_active[k].next - 1 \in Nat
        BY <2>5, <4>1, <4>2
      <4> QED
        BY <1>3, <1>5, <2>1, <4>1, <4>2, <4>3
    <3> QED
      BY <3>1, <3>2
  <2> QED
    BY <1>1, <2>6, <2>7 DEF EdgesFollowImports
<1>15. RootsFollow'
  <2>1. FilesOf(Loaded)' = FilesOf(Loaded)
    BY <1>1, <1>5
  <2>2. m_active' # <<>>
    BY <1>2
  <2>3. FileOf(m_active[1].id)' = FileOf(m_active[1].id)
    <3>1. 1 \in 1 .. n
      BY <1>2
    <3> QED
      BY <1>5, <1>6, <1>7, <3>1
  <2> QED
    BY <1>3, <2>1, <2>2, <2>3 DEF Provenance, RootsFollow, RootFile
<1>16. Reached'
  <2>1. t \in ActiveIds'
    BY <1>2 DEF ActiveIds
  <2>2. gather(r)' \subseteq gather(t)'
    <3>1. r \in m_graph'[t].dependencies /\ t \in Ids'
      BY <1>1
    <3> QED
      BY <3>1 DEF gather, ClosedUnderDependencies
  <2>3. ASSUME NEW i \in Ids PROVE \E x \in Ids' : Anchored(x)' /\ i \in gather(x)'
    <3>1. PICK x \in Ids : Anchored(x) /\ i \in gather(x)
      BY DEF Provenance, Reached
    <3>2. i \in gather(x)'
      BY <1>1, <3>1, GatherGrows
    <3>3. CASE x = r
      BY <1>1, <2>1, <2>2, <3>2, <3>3 DEF Anchored
    <3>4. CASE x # r
      BY <1>1, <1>3, <1>5, <1>10, <3>1, <3>2, <3>4 DEF Anchored
    <3> QED
      BY <3>3, <3>4
  <2> QED
    BY <1>1, <2>3 DEF Reached
<1>17. AliasesKnown'
  <2>1. \A i \in Loaded : gather(i)' = gather(i) /\ gather(i) \subseteq Ids /\ i \in Ids
    <3>1. \A i \in Loaded : i \in Ids /\ m_graph'[i].dependencies = m_graph[i].dependencies
      BY <1>1
    <3> QED
      BY <1>1, <3>1, GatherKept, GatherClosed
  <2>2. \A S \in SUBSET Ids : BindingsIn(S)' = BindingsIn(S)
    BY <1>3, <1>5 DEF BindingsIn
  <2>3. \A i \in Loaded : m_records'[i].aliases = BindingsIn(gather(i))'
    <3> SUFFICES ASSUME NEW i \in Loaded PROVE m_records'[i].aliases = BindingsIn(gather(i))'
      OBVIOUS
    <3>1. m_records'[i] = m_records[i] /\ m_records[i].aliases = BindingsIn(gather(i))
      BY <1>1 DEF Provenance, AliasesKnown
    <3> QED
      BY <2>1, <2>2, <3>1
  <2>4. \A i \in Ids : m_graph[i].dependencies \subseteq Loaded /\ Below(i) \subseteq Ids
    <3>1. \A i \in Ids : m_graph[i].dependencies \subseteq Loaded
      BY DEF DependenciesLoaded
    <3> QED
      BY <2>1, <3>1 DEF Below
  <2>5. \A i \in Ids : i # t => Below(i)' = Below(i)
    <3> SUFFICES ASSUME NEW i \in Ids, i # t PROVE Below(i)' = Below(i)
      OBVIOUS
    <3>1. m_graph'[i].dependencies = m_graph[i].dependencies /\ m_graph[i].dependencies \subseteq Loaded
      BY <1>1, <2>4
    <3> QED
      BY <2>1, <3>1 DEF Below
  <2>6. Below(t)' = Below(t) \cup gather(r)
    <3>1. m_graph[t].dependencies \cup {r} \subseteq Loaded
      BY <1>1, <2>4
    <3> QED
      BY <1>1, <2>1, <3>1 DEF Below
  <2>7. \A A, B : BindingsIn(A \cup B) = BindingsIn(A) \cup BindingsIn(B)
    BY DEF BindingsIn, FilesOf
  <2>8. ASSUME NEW k \in 1 .. Len(m_active') PROVE m_active'[k].aliases = BindingsIn(Below(m_active[k].id))'
    <3>1. CASE k = n
      <4>1. m_active'[k].id = t /\ m_active'[k].aliases = Top.aliases \cup m_records[r].aliases
        BY <1>2, <3>1
      <4>2. Top.aliases = BindingsIn(Below(t))
        BY <1>1, <1>2 DEF Provenance, AliasesKnown, n
      <4>3. m_records[r].aliases = BindingsIn(gather(r))
        BY <1>1 DEF Provenance, AliasesKnown
      <4>4. m_active'[k].aliases = BindingsIn(Below(t) \cup gather(r))
        BY <2>7, <4>1, <4>2, <4>3
      <4>5. Below(t) \cup gather(r) \subseteq Ids
        BY <1>1, <2>1, <2>4
      <4>6. BindingsIn(Below(t))' = BindingsIn(Below(t) \cup gather(r))
        BY <2>2, <2>6, <4>5
      <4> QED
        BY <4>1, <4>4, <4>6
    <3>2. CASE k # n
      <4>1. /\ k \in 1 .. n /\ m_active'[k] = m_active[k] /\ m_active[k].id \in Ids
            /\ m_active[k].id # t
        BY <1>2, <1>6, <3>2
      <4>2. m_active[k].aliases = BindingsIn(Below(m_active[k].id))
        BY <4>1 DEF Provenance, AliasesKnown, n
      <4> QED
        BY <2>2, <2>4, <2>5, <4>1, <4>2
    <3> QED
      BY <3>1, <3>2
  <2>9. \A b \in 1 .. Len(m_alias_bindings) : m_alias_bindings[b] \in FilesOf(Loaded)'
    BY <1>1, <1>5 DEF Provenance, AliasesKnown
  <2> QED
    BY <1>1, <1>3, <2>3, <2>8, <2>9 DEF AliasesKnown
<1> QED
  BY <1>8, <1>9, <1>11, <1>12, <1>14, <1>15, <1>16, <1>17 DEF Provenance

-----------------------------------------------------------------------------
\* What loadFile has changed when it returns from the file t.
Finishing(t) ==
    /\ t \in Ids /\ t \notin Loaded /\ t = Top.id /\ returned' = t
    /\ m_graph' = m_graph /\ Ids' = Ids /\ Loaded' = Loaded \cup {t} /\ Grows
    /\ \A i \in Ids : i # t => m_records'[i] = m_records[i]
    /\ Len(m_active) \in Nat \ {0} /\ Len(m_active') = Len(m_active) - 1
    /\ \A k \in 1 .. Len(m_active) - 1 : m_active'[k] = m_active[k] /\ m_active[k].id # t
    /\ Len(m_alias_bindings) \in Nat /\ Len(m_alias_bindings') \in Nat
    /\ Len(m_alias_bindings) <= Len(m_alias_bindings')
    /\ \A b \in 1 .. Len(m_alias_bindings) : m_alias_bindings'[b] = m_alias_bindings[b]
    /\ \A b \in Len(m_alias_bindings) + 1 .. Len(m_alias_bindings') : m_alias_bindings'[b] = FileOf(t)
    /\ m_records'[t].aliases =
         Top.aliases \cup (Len(m_alias_bindings) + 1 .. Len(m_alias_bindings'))

\* FileLoaded pops one frame, marks one record and registers its aliases.
LEMMA FileLoadedEffect ==
    ASSUME IInv, FileLoaded
    PROVE  \E t \in Nat : Finishing(t)
<1> USE DEF IInv, Structure
<1> DEFINE n == Len(m_active)
           t == Top.id
           old == Len(m_alias_bindings)
           declared == disk.aliases[TopFile]
           added == [k \in 1 .. declared |-> TopFile]
           rec == [m_records[t] EXCEPT !.aliases = Top.aliases \cup (old + 1 .. old + 1 + declared - 1),
                                       !.loaded = TRUE]
<1>1. /\ m_alias_bindings' = m_alias_bindings \o added
      /\ m_records' = [m_records EXCEPT ![t] = rec]
      /\ m_active' = SubSeq(m_active, 1, n - 1)
      /\ returned' = t
      /\ UNCHANGED <<disk, m_import_paths, m_graph>>
      /\ m_active # <<>>
  BY DEF FileLoaded, AtBody, InFile, Running
<1>2. /\ n \in 1 .. n /\ n \in Nat \ {0} /\ Top = m_active[n] /\ Top \in Frame
      /\ t \in Ids /\ t \notin Loaded /\ TopFile \in Inode /\ TopFile = FileOf(t)
  <2>1. n \in Nat /\ TopFile = FileOf(t)
    BY DEF TypeOK, TopFile, FileOf
  <2>2. /\ n \in 1 .. n /\ Top = m_active[n] /\ Top \in Frame
        /\ t \in Ids /\ ~m_records[t].loaded /\ TopFile \in Inode
    BY <1>1, TopFrame
  <2> HIDE DEF rec, n, t
  <2> QED
    BY <2>1, <2>2 DEF Loaded
<1>3. declared \in Nat /\ old \in Nat /\ m_alias_bindings \in Seq(Inode)
  BY <1>2 DEF TypeOK, Disk
<1>4. m_records \in Seq(Record) /\ m_records[t] \in Record /\ Len(m_records) = Len(m_graph) /\ t \in Nat
  BY <1>2 DEF TypeOK, Ids
<1>5. rec.aliases = Top.aliases \cup (old + 1 .. old + 1 + declared - 1) /\ rec.loaded
  BY <1>4 DEF Record
<1>6. \A k \in 1 .. n - 1 : k \in 1 .. n /\ k # n /\ m_active[k].id # t
  BY <1>2 DEF FramesOpen
<1>7. /\ Len(m_alias_bindings') = old + declared
      /\ \A b \in 1 .. old : m_alias_bindings'[b] = m_alias_bindings[b]
      /\ \A b \in old + 1 .. old + declared : m_alias_bindings'[b] = TopFile
  <2> HIDE DEF declared
  <2>1. added \in Seq(Inode) /\ Len(added) = declared /\ \A k \in 1 .. declared : added[k] = TopFile
    BY <1>2, <1>3
  <2>2. m_alias_bindings' = m_alias_bindings \o added
    BY <1>1
  <2> HIDE DEF added, old, rec
  <2>3. old = Len(m_alias_bindings)
    BY DEF old
  <2>4. /\ Len(m_alias_bindings \o added) = old + declared
        /\ \A b \in 1 .. old : (m_alias_bindings \o added)[b] = m_alias_bindings[b]
        /\ \A b \in old + 1 .. old + declared : (m_alias_bindings \o added)[b] = added[b - old]
    BY <1>3, <2>1, <2>3
  <2>5. \A b \in old + 1 .. old + declared : b - old \in 1 .. declared
    BY <1>3
  <2> QED
    BY <2>1, <2>2, <2>4, <2>5
<1>8. /\ Len(m_active') = n - 1
      /\ \A k \in 1 .. n - 1 : m_active'[k] = m_active[k]
  <2>1. n - 1 \in Nat /\ m_active \in Seq(Frame)
    BY <1>2 DEF TypeOK
  <2>2. \A i \in 1 .. n - 1 : m_active[i] \in Frame
    BY <2>1
  <2>3. m_active' = SubSeq(m_active, 1, n - 1)
    BY <1>1
  <2> HIDE DEF n
  <2> QED
    BY <2>1, <2>2, <2>3, SubSeqProperties
<1> HIDE DEF rec, t, declared, added
<1>9. m_records'[t] = rec /\ \A i \in Ids : i # t => m_records'[i] = m_records[i]
  BY <1>1, <1>2, <1>4 DEF Ids
<1>10. Ids' = Ids /\ Grows /\ Loaded' = Loaded \cup {t}
  BY <1>1, <1>2, <1>5, <1>9 DEF Ids, Loaded, Grows
<1>11. rec.aliases = Top.aliases \cup (old + 1 .. Len(m_alias_bindings'))
  <2>1. old + 1 + declared - 1 = old + declared
    BY <1>3
  <2> QED
    BY <1>5, <1>7, <2>1
<1>12. Finishing(t)
  BY <1>1, <1>2, <1>3, <1>6, <1>7, <1>8, <1>9, <1>10, <1>11 DEF Finishing, t
<1> QED
  BY <1>4, <1>12

\* A finished file has processed all its imports, is what the frame below it
\* waits for, and its own aliases join those of its imports.
LEMMA FileLoadedProvenance ==
    ASSUME IInv, Provenance, FileLoaded
    PROVE  Provenance'
<1> USE DEF IInv, Structure
<1>0. PICK t \in Nat : Finishing(t)
  BY FileLoadedEffect
<1> DEFINE n == Len(m_active)
           old == Len(m_alias_bindings)
           new == Len(m_alias_bindings')
           names == disk.imports[FileOf(t)]
<1>1. /\ t \in Ids /\ t \notin Loaded /\ t = Top.id /\ returned' = t
      /\ m_graph' = m_graph /\ Ids' = Ids /\ Loaded' = Loaded \cup {t} /\ Grows
      /\ \A i \in Ids : i # t => m_records'[i] = m_records[i]
      /\ Loaded \subseteq Ids /\ t # Missing
  BY <1>0 DEF Finishing, Loaded, Missing, Ids
<1>2. /\ n \in Nat \ {0} /\ Len(m_active') = n - 1 /\ Top = m_active[n] /\ n \in 1 .. n
      /\ \A k \in 1 .. n - 1 : m_active'[k] = m_active[k] /\ m_active[k].id # t
  BY <1>0 DEF Finishing, Top
<1>3. /\ old \in Nat /\ new \in Nat /\ old <= new
      /\ \A b \in 1 .. old : m_alias_bindings'[b] = m_alias_bindings[b]
      /\ \A b \in old + 1 .. new : m_alias_bindings'[b] = FileOf(t)
      /\ m_records'[t].aliases = Top.aliases \cup (old + 1 .. new)
  BY <1>0 DEF Finishing
<1>4. /\ call = NoCall /\ call' = NoCall /\ returned = Missing /\ phase = "discover" /\ m_active # <<>>
      /\ UNCHANGED <<disk, phase, error, roots, next_root, m_import_paths, m_total_bytes>>
      /\ Top.next > Len(names)
  BY <1>1 DEF FileLoaded, AtBody, InFile, Running, TopFile, FileOf
<1> HIDE DEF n, old, new
<1>5. \A i : FileOf(i)' = FileOf(i)
  BY <1>1, <1>4 DEF FileOf
<1>6. \A S : FilesOf(S)' = FilesOf(S)
  BY <1>5 DEF FilesOf
<1>7. \A p, m : ImportedFile(p, m)' = ImportedFile(p, m)
  BY <1>4 DEF ImportedFile, FirstWith
<1>8. (\A i, m : EdgesMatch(i, m)' = EdgesMatch(i, m)) /\ \A f, g : Awaits(f, g)' = Awaits(f, g)
  <2>1. \A i, m : Imported(i, m)' = Imported(i, m)
    BY <1>1, <1>4, <1>5, <1>7 DEF Imported
  <2> QED
    BY <1>1, <1>4, <1>5, <1>6, <1>7, <2>1 DEF EdgesMatch, Awaits
<1>9. \A i : gather(i)' = gather(i) /\ Below(i)' = Below(i)
  <2>1. \A i : gather(i)' = gather(i)
    BY <1>1 DEF gather, ClosedUnderDependencies
  <2> QED
    BY <1>1, <2>1 DEF Below
<1>10. \A k \in 1 .. n : m_active[k].id \in Ids
  BY DEF FramesOpen, n
<1>11. PhysicalFilesOnce' /\ BytesCounted'
  <2>1. \A i : BytesOf(i)' = BytesOf(i)
    BY <1>1, <1>4 DEF BytesOf
  <2>2. BytesRead' = BytesRead
    BY <1>1, <2>1 DEF BytesRead
  <2>3. BytesCounted'
    BY <1>4, <2>2 DEF Provenance, BytesCounted, BudgetRespected
  <2> QED
    BY <1>1, <1>4, <2>3 DEF Provenance, PhysicalFilesOnce
<1>12. ActiveIds = ActiveIds' \cup {t}
  <2>1. 1 .. n = (1 .. n - 1) \cup {n}
    BY <1>2
  <2>2. ActiveIds = {m_active[k].id : k \in 1 .. n}
    BY DEF ActiveIds, n
  <2>3. ActiveIds' = {m_active'[k].id : k \in 1 .. n - 1}
    BY <1>2 DEF ActiveIds
  <2> QED
    BY <1>1, <1>2, <2>1, <2>2, <2>3
<1>13. OpenOrLoaded' /\ Pending'
  BY <1>1, <1>4, <1>12 DEF Provenance, OpenOrLoaded, Pending
<1>14. ChainImports'
  <2>1. ASSUME NEW k \in 1 .. Len(m_active') - 1
        PROVE  Awaits(m_active[k], FileOf(m_active[k + 1].id))'
    <3>1. k \in 1 .. n - 1 /\ k + 1 \in 1 .. n - 1
      BY <1>2
    <3>2. m_active'[k] = m_active[k] /\ m_active'[k + 1] = m_active[k + 1]
      BY <1>2, <3>1
    <3>3. Awaits(m_active[k], FileOf(m_active[k + 1].id))
      BY <3>1 DEF Provenance, ChainImports, n
    <3> QED
      BY <1>5, <1>8, <3>2, <3>3
  <2>2. m_active' # <<>> => Awaits(Top, FileOf(returned))'
    <3> SUFFICES ASSUME m_active' # <<>> PROVE Awaits(Top, FileOf(returned))'
      OBVIOUS
    <3>1. n - 1 \in 1 .. n - 1
      <4>1. m_active' \in Seq(Frame)
        BY FileLoadedIInv DEF TypeOK
      <4> QED
        BY <1>2, <4>1
    <3>2. Top' = m_active[n - 1] /\ m_active[n - 1 + 1] = Top
      BY <1>2, <3>1 DEF Top
    <3>3. Awaits(m_active[n - 1], FileOf(m_active[n - 1 + 1].id))
      BY <3>1 DEF Provenance, ChainImports, n
    <3>4. FileOf(returned)' = FileOf(t)
      BY <1>1, <1>5
    <3> QED
      BY <1>1, <1>8, <3>2, <3>3, <3>4
  <2> QED
    BY <1>4, <2>1, <2>2 DEF ChainImports
<1>15. EdgesFollowImports'
  <2>1. /\ names \in Seq(Name) /\ Top.next \in 1 .. Len(names) + 1
        /\ EdgesMatch(t, Top.next - 1)
    <3>1. names \in Seq(Name)
      BY <1>1 DEF FilesRead, FileOf, TypeOK, Disk
    <3>2. Top.next \in 1 .. Len(names) + 1 /\ EdgesMatch(t, Top.next - 1)
      BY <1>1, <1>2 DEF Provenance, EdgesFollowImports, n
    <3> QED
      BY <3>1, <3>2
  <2>2. Top.next - 1 = Len(names)
    BY <1>4, <2>1
  <2>3. \A i \in Loaded' : EdgesMatch(i, Len(disk.imports[FileOf(i)]))
    BY <1>1, <2>1, <2>2 DEF Provenance, EdgesFollowImports
  <2>4. \A k \in 1 .. n - 1 :
           /\ m_active[k].next \in 1 .. Len(disk.imports[FileOf(m_active[k].id)]) + 1
           /\ EdgesMatch(m_active[k].id, m_active[k].next - 1)
    <3>1. \A k \in 1 .. n - 1 : k \in 1 .. n
      BY <1>2
    <3> QED
      BY <3>1 DEF Provenance, EdgesFollowImports, n
  <2> QED
    BY <1>2, <1>4, <1>5, <1>8, <2>3, <2>4 DEF EdgesFollowImports
<1>16. RootsFollow'
  <2>1. FilesOf(Loaded) \subseteq FilesOf(Loaded)'
    <3>1. FilesOf(Loaded)' = FilesOf(Loaded \cup {t})
      BY <1>1, <1>6
    <3> QED
      BY <3>1 DEF FilesOf
  <2>2. next_root <= Len(roots) /\ FileOf(m_active[1].id) = disk.at[roots[next_root]]
    BY <1>4 DEF Provenance, RootsFollow, RootFile
  <2>3. m_active' # <<>> => FileOf(m_active[1].id)' = FileOf(m_active[1].id)
    <3> SUFFICES ASSUME m_active' # <<>> PROVE FileOf(m_active[1].id)' = FileOf(m_active[1].id)
      OBVIOUS
    <3>1. m_active' \in Seq(Frame)
      BY FileLoadedIInv DEF TypeOK
    <3>2. 1 \in 1 .. n - 1
      BY <1>2, <3>1
    <3> QED
      BY <1>2, <1>5, <3>2
  <2>4. m_active' = <<>> => FileOf(returned)' = FileOf(m_active[1].id)
    <3> SUFFICES ASSUME m_active' = <<>> PROVE FileOf(returned)' = FileOf(m_active[1].id)
      OBVIOUS
    <3>1. n = 1
      BY <1>2
    <3> QED
      BY <1>1, <1>2, <1>5, <3>1
  <2> QED
    BY <1>4, <2>1, <2>2, <2>3, <2>4 DEF Provenance, RootsFollow, RootFile
<1>17. Reached'
  <2>1. ASSUME NEW x \in Ids, Anchored(x) PROVE Anchored(x)'
    BY <1>1, <1>4, <1>5, <1>12, <2>1 DEF Anchored
  <2> QED
    BY <1>1, <1>9, <2>1 DEF Provenance, Reached
<1>18. AliasesKnown'
  <2>1. FileOf(t) \notin FilesOf(Loaded)
    BY <1>1 DEF Provenance, PhysicalFilesOnce, FilesOf, FileOf
  <2>2. \A S : S \subseteq Loaded => BindingsIn(S)' = BindingsIn(S)
    <3> SUFFICES ASSUME NEW S, S \subseteq Loaded PROVE BindingsIn(S)' = BindingsIn(S)
      OBVIOUS
    <3>1. FileOf(t) \notin FilesOf(S)
      BY <2>1 DEF FilesOf
    <3>2. 1 .. new = (1 .. old) \cup (old + 1 .. new)
      BY <1>3
    <3>3. BindingsIn(S)' = {b \in 1 .. new : m_alias_bindings'[b] \in FilesOf(S)}
      BY <1>6 DEF BindingsIn, new
    <3>4. BindingsIn(S) = {b \in 1 .. old : m_alias_bindings[b] \in FilesOf(S)}
      BY DEF BindingsIn, old
    <3> QED
      BY <1>3, <3>1, <3>2, <3>3, <3>4
  <2>3. \A i \in Loaded : gather(i) \subseteq Loaded
    BY GatherLoaded
  <2>4. \A i \in Ids : Below(i) \subseteq Loaded
    <3>1. \A i \in Ids : m_graph[i].dependencies \subseteq Loaded
      BY DEF DependenciesLoaded
    <3> QED
      BY <2>3, <3>1 DEF Below
  <2>5. \A i \in Loaded : m_records'[i].aliases = BindingsIn(gather(i))'
    <3> SUFFICES ASSUME NEW i \in Loaded PROVE m_records'[i].aliases = BindingsIn(gather(i))'
      OBVIOUS
    <3>1. m_records'[i] = m_records[i] /\ m_records[i].aliases = BindingsIn(gather(i))
      BY <1>1 DEF Provenance, AliasesKnown
    <3> QED
      BY <1>9, <2>2, <2>3, <3>1
  <2>6. m_records'[t].aliases = BindingsIn(gather(t))'
    <3>1. Top.aliases = BindingsIn(Below(t))
      BY <1>1, <1>2 DEF Provenance, AliasesKnown, n
    <3>2. gather(t) = {t} \cup Below(t)
      BY <1>1, GatherUnfold
    <3>3. FilesOf(gather(t)) = {FileOf(t)} \cup FilesOf(Below(t))
      BY <3>2 DEF FilesOf
    <3>4. BindingsIn(gather(t))' = {b \in 1 .. new : m_alias_bindings'[b] \in FilesOf(gather(t))}
      BY <1>6, <1>9 DEF BindingsIn, new
    <3>5. BindingsIn(Below(t)) = {b \in 1 .. old : m_alias_bindings[b] \in FilesOf(Below(t))}
      BY DEF BindingsIn, old
    <3>6. \A b \in 1 .. old : m_alias_bindings[b] # FileOf(t)
      BY <2>1 DEF Provenance, AliasesKnown, old
    <3>7. 1 .. new = (1 .. old) \cup (old + 1 .. new)
      BY <1>3
    <3> QED
      BY <1>3, <3>1, <3>3, <3>4, <3>5, <3>6, <3>7
  <2>7. ASSUME NEW k \in 1 .. n - 1 PROVE m_active'[k].aliases = BindingsIn(Below(m_active[k].id))'
    <3>1. k \in 1 .. n /\ m_active'[k] = m_active[k] /\ m_active[k].id \in Ids
      BY <1>2, <1>10
    <3>2. m_active[k].aliases = BindingsIn(Below(m_active[k].id))
      BY <3>1 DEF Provenance, AliasesKnown, n
    <3> QED
      BY <1>9, <2>2, <2>4, <3>1, <3>2
  <2>8. ASSUME NEW b \in 1 .. new PROVE m_alias_bindings'[b] \in FilesOf(Loaded)'
    <3>0. FilesOf(Loaded)' = FilesOf(Loaded \cup {t})
      BY <1>1, <1>6
    <3>1. FileOf(t) \in FilesOf(Loaded)' /\ FilesOf(Loaded) \subseteq FilesOf(Loaded)'
      BY <3>0 DEF FilesOf
    <3>2. CASE b \in 1 .. old
      BY <1>3, <3>1, <3>2 DEF Provenance, AliasesKnown, old
    <3>3. CASE b \in old + 1 .. new
      BY <1>3, <3>1, <3>3
    <3> QED
      BY <1>3, <3>2, <3>3
  <2> QED
    BY <1>1, <1>2, <2>5, <2>6, <2>7, <2>8 DEF AliasesKnown, new
<1> QED
  BY <1>11, <1>13, <1>14, <1>15, <1>16, <1>17, <1>18 DEF Provenance

-----------------------------------------------------------------------------
\* take and complete mark a record and touch nothing else; a step that
\* changes nothing is a special case.
LEMMA ClientProvenance ==
    ASSUME IInv, Provenance,
           \/ \E path \in Path : take(path) \/ complete(path)
           \/ UNCHANGED vars
    PROVE  Provenance'
<1> USE DEF IInv, Structure
<1>1. /\ UNCHANGED <<disk, phase, roots, next_root, call, returned, m_import_paths, m_graph,
                     m_active, m_alias_bindings, m_total_bytes>>
      /\ error' = error \/ phase # "discover"
  BY DEF take, complete, Client, LogicError, vars, tables
<1>2. /\ Len(m_records') = Len(m_records)
      /\ \A i \in Ids : m_records'[i].loaded = m_records[i].loaded
                        /\ m_records'[i].aliases = m_records[i].aliases
  <2>1. CASE m_records' = m_records
    BY <2>1
  <2>2. CASE \E id \in Ids : \/ m_records' = [m_records EXCEPT ![id] = [@ EXCEPT !.taken = TRUE]]
                             \/ m_records' = [m_records EXCEPT ![id] = [@ EXCEPT !.completed = TRUE]]
    <3>1. PICK id \in Ids : \/ m_records' = [m_records EXCEPT ![id] = [@ EXCEPT !.taken = TRUE]]
                            \/ m_records' = [m_records EXCEPT ![id] = [@ EXCEPT !.completed = TRUE]]
      BY <2>2
    <3> DEFINE took == [m_records[id] EXCEPT !.taken = TRUE]
               done == [m_records[id] EXCEPT !.completed = TRUE]
    <3>2. m_records \in Seq(Record) /\ id \in 1 .. Len(m_records) /\ m_records[id] \in Record
      BY DEF TypeOK, Ids
    <3>3. /\ took.loaded = m_records[id].loaded /\ took.aliases = m_records[id].aliases
          /\ done.loaded = m_records[id].loaded /\ done.aliases = m_records[id].aliases
      BY <3>2 DEF Record
    <3>4. m_records' = [m_records EXCEPT ![id] = took] \/ m_records' = [m_records EXCEPT ![id] = done]
      BY <3>1
    <3> HIDE DEF took, done
    <3>5. PICK rec \in {took, done} : m_records' = [m_records EXCEPT ![id] = rec]
      BY <3>4
    <3>6. /\ Len(m_records') = Len(m_records) /\ m_records'[id] = rec
          /\ \A i \in 1 .. Len(m_records) : i # id => m_records'[i] = m_records[i]
      BY <3>2, <3>5
    <3>7. Ids = 1 .. Len(m_records)
      BY DEF Ids, TypeOK
    <3> QED
      BY <3>3, <3>5, <3>6, <3>7
  <2>3. ASSUME NEW path \in Path, take(path) \/ complete(path), m_records' # m_records
        PROVE  \E id \in Ids : \/ m_records' = [m_records EXCEPT ![id] = [@ EXCEPT !.taken = TRUE]]
                               \/ m_records' = [m_records EXCEPT ![id] = [@ EXCEPT !.completed = TRUE]]
    <3>1. findFile(path) # Missing => findFile(path) \in Ids
      BY FindFile
    <3> QED
      BY <2>3, <3>1 DEF take, complete, Transferable, Publishable, LogicError, tables
  <2> QED
    BY <2>1, <2>2, <2>3 DEF vars, tables
<1>3. SameGraph
  BY <1>1, <1>2 DEF SameGraph
<1>4. /\ \A S : FilesOf(S)' = FilesOf(S) /\ Loaded' = Loaded /\ Ids' = Ids
      /\ \A i : FileOf(i)' = FileOf(i) /\ ActiveIds' = ActiveIds
  BY <1>3, SameGraphKeeps
<1>5. Pending'
  BY <1>1 DEF Provenance, Pending
<1>6. RootsFollow'
  <2>1. FilesOf(Loaded)' = FilesOf(Loaded)
    BY <1>4
  <2> QED
    BY <1>1, <1>4, <2>1 DEF Provenance, RootsFollow, RootFile
<1>7. \A x \in Ids : Anchored(x) => Anchored(x)'
  BY <1>1, <1>4 DEF Anchored
<1>8. /\ m_active # <<>> /\ call' # NoCall => Awaits(Top, disk.at[call'])
      /\ m_active # <<>> /\ returned' # Missing => Awaits(Top, FileOf(returned'))
  BY <1>1 DEF Provenance, ChainImports
<1> QED
  BY <1>3, <1>5, <1>6, <1>7, <1>8, SameGraphStep

\* Every step preserves the account of where the tables come from.
LEMMA NextProvenance == IInv /\ Provenance /\ [Next]_vars => Provenance'
<1> SUFFICES ASSUME IInv, Provenance, [Next]_vars PROVE Provenance'
  OBVIOUS
<1>1. CASE LoadRoot \/ RootLoaded \/ Discovered \/ LoadAgain \/ ImportCall
  BY <1>1, ControlProvenance
<1>2. CASE LoadKindMismatch \/ LoadCycle \/ LoadLimit \/ LoadRejected \/ ImportUnresolved
             \/ ImportRefused \/ BodyRejected
  <2>1. PICK kind \in {"kind", "cycle", "limit", "source", "import", "alias", "body"} : Fail(kind)
    BY <1>2 DEF LoadKindMismatch, LoadCycle, LoadLimit, LoadRejected, ImportUnresolved,
       ImportRefused, BodyRejected
  <2>2. Blank'
    BY <2>1 DEF Fail, ClearTables, Blank, TablesEmpty
  <2> QED
    BY <2>2, BlankProvenance, PTL
<1>3. CASE LoadPreamble
  BY <1>3, PreambleProvenance
<1>4. CASE ImportReturned
  BY <1>4, ImportReturnedProvenance
<1>5. CASE FileLoaded
  BY <1>5, FileLoadedProvenance
<1>6. CASE \E rs \in RootLists, dirs \in SearchLists : prepare(rs, dirs)
  <2>1. Blank'
    BY <1>6 DEF prepare, ClearTables, Blank, TablesEmpty
  <2> QED
    BY <2>1, BlankProvenance, PTL
<1>7. CASE (\E path \in Path : take(path)) \/ (\E path \in Path : complete(path)) \/ UNCHANGED vars
  BY <1>7, ClientProvenance
<1> QED
  BY <1>1, <1>2, <1>3, <1>4, <1>5, <1>6, <1>7 DEF Next, Discovery, loadFile

\* Together with the structure of the tables this is inductive.
THEOREM LoaderProvenance == Spec => []Provenance
<1>1. Init => Provenance
  <2>1. Init => Blank
    BY DEF Init, Blank, TablesEmpty
  <2> QED
    BY <2>1, BlankProvenance
<1> QED
  BY <1>1, LoaderInvariant, NextProvenance, PTL DEF Spec

\* No physical file is loaded twice, by whatever paths it is imported.
THEOREM FilesAreLoadedOnce == Spec => []PhysicalFilesOnce
<1>1. Provenance => PhysicalFilesOnce
  BY DEF Provenance
<1> QED
  BY <1>1, LoaderProvenance, PTL

\* m_total_bytes is the sum of the sizes of the files read and never exceeds the
\* budget, so the remainder loadFile computes without a sign does not wrap.
THEOREM BudgetIsRespected == Spec => []BudgetRespected
<1>1. Provenance => BudgetRespected
  BY DEF Provenance, BytesCounted
<1> QED
  BY <1>1, LoaderProvenance, PTL

\* Each parser knows the type aliases of its import closure and no others.
THEOREM AliasesAreThoseOfImports == Spec => []AliasesFollowImports
<1>1. Provenance => AliasesFollowImports
  BY DEF Provenance, AliasesKnown, BindingsIn, FilesOf, FileOf, AliasesFollowImports
<1> QED
  BY <1>1, LoaderProvenance, PTL

\* A finished discovery has recorded what the files import, and nothing that
\* no root leads to.
LEMMA ReadyGraph == IInv /\ Provenance => GraphIsImportRelation
<1> SUFFICES ASSUME IInv, Provenance, phase = "ready" PROVE GraphIsImportRelation
  BY DEF GraphIsImportRelation
<1> USE DEF IInv, Structure
<1>1. m_active = <<>> /\ returned = Missing /\ ActiveIds = {} /\ Len(roots) \in Nat
  <2>1. m_active = <<>> /\ returned = Missing /\ Len(roots) \in Nat
    BY DEF TypeOK
  <2> QED
    BY <2>1 DEF ActiveIds
<1>2. Loaded = Ids
  BY <1>1 DEF Provenance, OpenOrLoaded, Loaded
<1>3. next_root > Len(roots) /\ next_root \in Nat
  BY DEF Provenance, RootsFollow, TypeOK
<1>4. ASSUME NEW k \in 1 .. Len(roots) PROVE findFile(roots[k]) \in Ids
                                             /\ FileOf(findFile(roots[k])) = disk.at[roots[k]]
  <2>1. disk.at[roots[k]] \in FilesOf(Loaded) /\ roots[k] \in Path
    BY <1>3 DEF Provenance, RootsFollow, TypeOK
  <2>2. PICK i \in Ids : disk.at[roots[k]] = FileOf(i)
    BY <1>2, <2>1 DEF FilesOf
  <2> QED
    BY <2>1, <2>2, FindFileFound
<1>5. \A x \in Ids : Anchored(x) => \E k \in 1 .. Len(roots) : x = findFile(roots[k])
  <2> SUFFICES ASSUME NEW x \in Ids, Anchored(x) PROVE \E k \in 1 .. Len(roots) : x = findFile(roots[k])
    OBVIOUS
  <2>1. PICK k \in 1 .. Len(roots) : FileOf(x) = disk.at[roots[k]]
    BY <1>1 DEF Anchored
  <2>2. x = findFile(roots[k])
    BY <1>4, <2>1 DEF Provenance, PhysicalFilesOnce, FileOf
  <2> QED
    BY <2>2
<1>6. Ids = UNION {gather(findFile(roots[k])) : k \in 1 .. Len(roots)}
  <2>1. \A i \in Ids : \E k \in 1 .. Len(roots) : i \in gather(findFile(roots[k]))
    BY <1>5 DEF Provenance, Reached
  <2>2. \A k \in 1 .. Len(roots) : gather(findFile(roots[k])) \subseteq Ids
    BY DEF gather
  <2> QED
    BY <2>1, <2>2
<1>7. ASSUME NEW i \in Ids
      PROVE  LET file == disk.at[m_graph[i].path]
                 names == {disk.imports[file][k] : k \in 1 .. Len(disk.imports[file])}
             IN  {disk.at[m_graph[d].path] : d \in m_graph[i].dependencies} =
                    {ImportedFile(m_graph[i].path, n) : n \in names}
  <2>1. EdgesMatch(i, Len(disk.imports[FileOf(i)]))
    BY <1>2 DEF Provenance, EdgesFollowImports
  <2> QED
    BY <2>1 DEF EdgesMatch, FilesOf, Imported, FileOf
<1>8. \A k \in 1 .. Len(roots) : findFile(roots[k]) \in Loaded
  BY <1>2, <1>4
<1> QED
  BY <1>6, <1>7, <1>8 DEF GraphIsImportRelation

\* A successful discovery has found the import relation of the files, from
\* the roots down and nothing else.
THEOREM GraphIsTheImportRelation == Spec => []GraphIsImportRelation
<1> QED
  BY ReadyGraph, LoaderInvariant, LoaderProvenance, PTL

\* A cycle is reported only when the active files import each other in a ring.
THEOREM ReportedCyclesAreReal == Spec => CycleIsReal
<1>1. IInv /\ Provenance /\ [Next]_vars => [CycleReported => ActiveChainLeadsBack]_vars
  <2> SUFFICES ASSUME IInv, Provenance, Next, CycleReported PROVE ActiveChainLeadsBack
    OBVIOUS
  <2> USE DEF IInv, Structure
  <2>1. phase = "discover" /\ error = "none" /\ error' = "cycle"
    BY DEF CycleReported, Provenance, Pending
  <2>2. LoadCycle
    BY <2>1 DEF Next, Discovery, loadFile, LoadKindMismatch, LoadCycle, LoadAgain, LoadLimit,
       LoadRejected, LoadPreamble, ImportUnresolved, ImportCall, ImportRefused, ImportReturned,
       BodyRejected, FileLoaded, LoadRoot, RootLoaded, Discovered, Fail, prepare, take, complete, Client
  <2>3. PICK id \in Ids : Found(id) /\ id \in ActiveIds
    BY <2>2 DEF LoadCycle
  <2>4. FileOf(id) = disk.at[call] /\ call # NoCall
    BY <2>3, FoundFile DEF Found
  <2>5. PICK first \in 1 .. Len(m_active) : m_active[first].id = id
    BY <2>3 DEF ActiveIds
  <2>6. m_active # <<>>
    BY <2>5
  <2>7. ASSUME NEW f \in Frame, f.id \in Ids, f.next >= 1, NEW target, Awaits(f, target)
        PROVE  ImportsFile(f.id, target)
    <3> DEFINE names == disk.imports[FileOf(f.id)]
    <3>1. names \in Seq(Name) /\ f.next \in Nat
      BY <2>7 DEF FilesRead, FileOf, TypeOK, Disk, Frame
    <3>2. f.next \in 1 .. Len(names) /\ ImportedFile(m_graph[f.id].path, names[f.next]) = target
      BY <2>7, <3>1 DEF Awaits
    <3> QED
      BY <3>2 DEF ImportsFile, FileOf
  <2>8. \A k \in 1 .. Len(m_active) : m_active[k] \in Frame /\ m_active[k].id \in Ids /\ m_active[k].next >= 1
    <3>1. \A k \in 1 .. Len(m_active) : m_active[k] \in Frame /\ m_active[k].id \in Ids
      BY DEF TypeOK, FramesOpen
    <3>2. \A k \in 1 .. Len(m_active) : m_active[k].next \in 1 .. Len(disk.imports[FileOf(m_active[k].id)]) + 1
      BY DEF Provenance, EdgesFollowImports
    <3> QED
      BY <3>1, <3>2
  <2>9. ImportsFile(Top.id, disk.at[call])
    <3>1. Len(m_active) \in 1 .. Len(m_active)
      BY <2>5 DEF TypeOK
    <3>2. Awaits(Top, disk.at[call])
      BY <2>4, <2>6 DEF Provenance, ChainImports
    <3> QED
      BY <2>7, <2>8, <3>1, <3>2 DEF Top
  <2>10. ASSUME NEW k \in first .. Len(m_active) - 1
         PROVE  ImportsFile(m_active[k].id, disk.at[m_graph[m_active[k + 1].id].path])
    <3>1. k \in 1 .. Len(m_active) /\ k \in 1 .. Len(m_active) - 1
      BY <2>5 DEF TypeOK
    <3>2. Awaits(m_active[k], FileOf(m_active[k + 1].id))
      BY <3>1 DEF Provenance, ChainImports
    <3>3. ImportsFile(m_active[k].id, FileOf(m_active[k + 1].id))
      BY <2>7, <2>8, <3>1, <3>2
    <3> QED
      BY <3>3 DEF FileOf
  <2> QED
    BY <2>4, <2>5, <2>9, <2>10 DEF ActiveChainLeadsBack, FileOf
<1> QED
  BY <1>1, LoaderInvariant, LoaderProvenance, PTL DEF Spec, CycleIsReal
=============================================================================
