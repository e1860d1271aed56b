------------------------- MODULE ProjectBuildProofs -------------------------
(***************************************************************************)
(* For every file system, argument list, output layout and set of limits,  *)
(* and wherever analysis, code generation, a write or the link fails: both *)
(* drivers keep the loader's protocol, no input and no manifest is opened  *)
(* for writing, and the linker is started only on complete objects of this *)
(* build, one for each implementation of the import graph.                 *)
(*                                                                         *)
(* The loader's invariants (ModuleLoaderProofs) hold of the build because  *)
(* each step of a driver is a step of the loader or leaves it alone.       *)
(***************************************************************************)
EXTENDS ProjectBuild, ModuleLoaderProofs, FiniteSetTheorems

-----------------------------------------------------------------------------
\* The loader's part.  The graph stays within its limit, a node has the kind
\* of its name, and the roots loaded so far have the kind of theirs.
NodeKinds == \A i \in Ids : m_graph[i].is_interface = isInterface(m_graph[i].path)
RootKind == isInterface(roots[next_root])
RootKinds ==
    /\ \A k \in 1 .. Len(roots) : k < next_root =>
          \A i \in Ids : FileOf(i) = disk.at[roots[k]] =>
              m_graph[i].is_interface = isInterface(roots[k])
    /\ m_active # <<>> => m_graph[m_active[1].id].is_interface = RootKind
    /\ m_active = <<>> /\ call # NoCall => isInterface(call) = RootKind
    /\ m_active = <<>> /\ returned # Missing => m_graph[returned].is_interface = RootKind
Kinds == Len(m_graph) <= MaxFiles /\ NodeKinds /\ RootKinds

\* No unit has been handed out.
Untouched == \A i \in Ids : ~m_records[i].taken /\ ~m_records[i].completed

-----------------------------------------------------------------------------
DriverTypes ==
    /\ mode \in {"build", "compile"} /\ check \in BOOLEAN
    /\ layout \in Layouts
    /\ step \in {"start", "discover", "units", "link", "done"}
    /\ sources \in Seq(Path) /\ unit \in Nat \ {0}
    /\ stage \in {"take", "analyze", "backend"}
    /\ content \in [Path -> Nat] /\ written \subseteq Path

\* Before the units: nothing is written, nothing taken, and the loader was
\* prepared with the sources the driver accepted.
Preparing ==
    step \in {"start", "discover"} =>
        /\ written = {} /\ Untouched /\ unit = 1
        /\ step = "start" => phase = "idle"
        /\ step = "discover" /\ phase # "idle" =>
              /\ error = "none" /\ sources = roots
              /\ IF mode = "build" THEN SourcesAccepted(sources) ELSE Len(sources) = 1

Compiling == step \in {"units", "link"}

\* What Plan establishes of the list of sources: in a build they are the
\* implementations of the graph, each once; otherwise the file to compile,
\* which everything loaded was loaded for.
ListedOnce ==
    /\ \A j, k \in 1 .. Len(sources) : disk.at[sources[j]] = disk.at[sources[k]] => j = k
    /\ \A k \in 1 .. Len(sources) : \E i \in Ids :
          FileOf(i) = disk.at[sources[k]] /\ ~m_graph[i].is_interface
    /\ \A i \in Ids : ~m_graph[i].is_interface =>
          \E k \in 1 .. Len(sources) : FileOf(i) = disk.at[sources[k]]
InputLast ==
    /\ Len(sources) = 1 /\ Len(m_order) > 0
    /\ FileOf(m_order[Len(m_order)]) = disk.at[sources[1]]
    /\ Ids = gather(m_order[Len(m_order)])
Planned == Compiling => IF mode = "build" THEN ListedOnce ELSE InputLast

\* The outputs a build may write, and what Plan found out about them.
Targets == {Outputs(sources)[k] : k \in 1 .. Len(Outputs(sources))}
OutputsSafe ==
    Compiling /\ mode = "build" /\ ~check =>
        /\ \A w \in Targets : ~samePath(w, layout.manifest)
                              /\ \A p \in sourcePaths : ~samePath(w, p)
        /\ \A j, k \in 1 .. Len(Outputs(sources)) : Outputs(sources)[j] = Outputs(sources)[k] => j = k

\* The unit loop has published what lies behind it and touched nothing ahead.
Published(i) == m_records[i].taken /\ m_records[i].completed
UnitLoop ==
    Compiling =>
        /\ phase = "ready" /\ unit <= Len(m_order) + 1
        /\ step = "link" => unit = Len(m_order) + 1 /\ mode = "build" /\ ~check
        /\ \A k \in 1 .. Len(m_order) :
              /\ k < unit => Published(m_order[k])
              /\ k > unit => ~m_records[m_order[k]].taken /\ ~m_records[m_order[k]].completed
              /\ k = unit => /\ m_records[m_order[k]].taken <=> stage # "take"
                             /\ m_records[m_order[k]].completed <=> stage = "backend"

\* The objects behind the unit loop are those of this build.
Emitted ==
    Compiling =>
        /\ \A w \in written : content[w] # Torn
        /\ mode = "build" /\ ~check =>
              \A n \in 1 .. Len(sources) : \A k \in 1 .. Len(m_order) :
                  k < unit /\ FileOf(m_order[k]) = disk.at[sources[n]] =>
                      content[layout.objects[n]] = m_order[k]

\* No std::logic_error so far, and none while units are compiled.
NoLogicError ==
    /\ DriversKeepProtocol
    /\ Compiling => error = "none"

Ended ==
    step = "done" /\ status = 0 =>
        /\ \A w \in written : content[w] # Torn
        /\ \A i \in Ids : m_records[i].completed

DriverInv ==
    /\ DriverTypes /\ Preparing /\ Planned /\ OutputsSafe /\ UnitLoop /\ Emitted
    /\ NoLogicError /\ InputsPreserved /\ Ended
BuildInv == IInv /\ Provenance /\ Kinds /\ DriverInv

-----------------------------------------------------------------------------
\* Subsequences.

\* How many positions of K there are up to k.
Rank(K, k) == Cardinality({j \in K : j <= k})

\* Ranks number the positions of K from 1 to the size of K, in their order.
LEMMA RanksNumberPositions ==
    ASSUME NEW n \in Nat, NEW K \in SUBSET (1 .. n)
    PROVE  /\ IsFiniteSet(K) /\ Cardinality(K) \in Nat
           /\ \A k \in K : Rank(K, k) \in 1 .. Cardinality(K)
           /\ \A j, k \in K : j < k => Rank(K, j) < Rank(K, k)
           /\ \A m \in 1 .. Cardinality(K) : \E k \in K : Rank(K, k) = m
<1>1. IsFiniteSet(1 .. n)
  BY FS_Interval
<1>2. IsFiniteSet(K) /\ Cardinality(K) \in Nat
  BY <1>1, FS_Subset, FS_CardinalityType
<1>3. \A k \in K : k \in Nat
  OBVIOUS
<1>4. ASSUME NEW k \in K
      PROVE  /\ IsFiniteSet({j \in K : j <= k}) /\ Rank(K, k) \in Nat
             /\ Rank(K, k) <= Cardinality(K) /\ Rank(K, k) # 0
  <2>1. {j \in K : j <= k} \subseteq K /\ k \in {j \in K : j <= k}
    BY <1>3
  <2> HIDE DEF Rank
  <2> DEFINE S == {j \in K : j <= k}
  <2>2. IsFiniteSet(S) /\ Cardinality(S) <= Cardinality(K) /\ Cardinality(S) \in Nat
    BY <1>2, <2>1, FS_Subset, FS_CardinalityType
  <2>3. Cardinality(S) # 0
    BY <2>1, <2>2, FS_EmptySet
  <2> QED
    BY <2>2, <2>3 DEF Rank
<1>5. ASSUME NEW j \in K, NEW k \in K, j < k PROVE Rank(K, j) < Rank(K, k)
  <2> DEFINE S == {i \in K : i <= j}
             T == {i \in K : i <= k}
  <2>1. S \subseteq T /\ k \in T /\ k \notin S
    <3>1. j \in Nat /\ k \in Nat /\ j <= k /\ k <= k /\ ~(k <= j)
      BY <1>3, <1>5
    <3>2. \A i \in K : i <= j => i <= k
      BY <1>3, <3>1
    <3> QED
      BY <3>1, <3>2
  <2>2. IsFiniteSet(T) /\ IsFiniteSet(S) /\ Cardinality(S) \in Nat /\ Cardinality(T) \in Nat
    BY <1>4, FS_CardinalityType
  <2> HIDE DEF S, T
  <2>3. Cardinality(S) <= Cardinality(T) /\ (Cardinality(S) = Cardinality(T) => S = T)
    BY <2>1, <2>2, FS_Subset
  <2>4. Cardinality(S) < Cardinality(T)
    BY <2>1, <2>2, <2>3
  <2> QED
    BY <2>4 DEF Rank, S, T
<1>6. ASSUME NEW k \in K PROVE Rank(K, k) \in 1 .. Cardinality(K)
  <2>1. Rank(K, k) \in Nat /\ Rank(K, k) <= Cardinality(K) /\ Rank(K, k) # 0
    BY <1>4
  <2> QED
    BY <1>2, <2>1
<1>7. \A m \in 1 .. Cardinality(K) : \E k \in K : Rank(K, k) = m
  <2> DEFINE r == [k \in K |-> Rank(K, k)]
             T == 1 .. Cardinality(K)
  <2>1. r \in [K -> T]
    BY <1>6
  <2>2. \A j, k \in K : r[j] = r[k] => j = k
    <3>1. ASSUME NEW j \in K, NEW k \in K, Rank(K, j) = Rank(K, k) PROVE j = k
      <4>1. Rank(K, j) \in Nat /\ Rank(K, k) \in Nat
        BY <1>4
      <4>2. ~(j < k)
        BY <1>5, <3>1, <4>1
      <4>3. ~(k < j)
        BY <1>5, <3>1, <4>1
      <4> QED
        BY <1>3, <4>2, <4>3
    <3> QED
      BY <3>1
  <2>3. r \in Injection(K, T)
    BY <2>1, <2>2 DEF Injection, IsInjective
  <2>4. IsFiniteSet(T) /\ Cardinality(T) = Cardinality(K)
    <3>1. /\ IsFiniteSet(T)
          /\ Cardinality(T) = IF 1 > Cardinality(K) THEN 0 ELSE Cardinality(K) - 1 + 1
      BY <1>2, FS_Interval
    <3> QED
      BY <1>2, <3>1
  <2> HIDE DEF r
  <2>5. r \in Surjection(K, T)
    BY <2>3, <2>4, FS_Injection
  <2>6. \A m \in T : \E k \in K : r[k] = m
    BY <2>5 DEF Surjection
  <2> QED
    BY <2>6 DEF r
<1> QED
  BY <1>2, <1>5, <1>6, <1>7

\* A subsequence lists the elements at its positions, each position once.
LEMMA SubsequencePositions ==
    ASSUME NEW T, NEW s \in Seq(T), NEW K \in SUBSET (1 .. Len(s))
    PROVE  /\ Subsequence(s, K) \in Seq(T)
           /\ Len(Subsequence(s, K)) = Cardinality(K) /\ Cardinality(K) \in Nat
           /\ \E e \in [1 .. Cardinality(K) -> K] :
                 /\ \A m \in 1 .. Cardinality(K) : Subsequence(s, K)[m] = s[e[m]]
                 /\ \A m, n \in 1 .. Cardinality(K) : e[m] = e[n] => m = n
                 /\ \A k \in K : \E m \in 1 .. Cardinality(K) : e[m] = k
<1>1. Len(s) \in Nat /\ \A k \in 1 .. Len(s) : s[k] \in T
  OBVIOUS
<1>2. /\ Cardinality(K) \in Nat
      /\ \A k \in K : Rank(K, k) \in 1 .. Cardinality(K)
      /\ \A j, k \in K : j < k => Rank(K, j) < Rank(K, k)
      /\ \A m \in 1 .. Cardinality(K) : \E k \in K : Rank(K, k) = m
  BY <1>1, RanksNumberPositions
<1> DEFINE N == Cardinality(K)
           at(m) == CHOOSE k \in K : Rank(K, k) = m
           e == [m \in 1 .. N |-> at(m)]
<1>3. \A m \in 1 .. N : at(m) \in K /\ Rank(K, at(m)) = m
  BY <1>2
<1>4. Subsequence(s, K) = [m \in 1 .. N |-> s[at(m)]]
  BY DEF Subsequence, Rank
<1> HIDE DEF at, N
<1>5. e \in [1 .. N -> K] /\ \A m \in 1 .. N : e[m] = at(m)
  BY <1>3
<1>6. \A m, n \in 1 .. N : e[m] = e[n] => m = n
  <2>1. ASSUME NEW m \in 1 .. N, NEW n \in 1 .. N, at(m) = at(n) PROVE m = n
    BY <1>3, <2>1
  <2> QED
    BY <1>5, <2>1
<1>7. ASSUME NEW k \in K PROVE \E m \in 1 .. N : e[m] = k
  <2>1. Rank(K, k) \in 1 .. N
    BY <1>2 DEF N
  <2>2. at(Rank(K, k)) = k
    <3>1. PICK i \in K : i = at(Rank(K, k)) /\ Rank(K, i) = Rank(K, k)
      BY <1>3, <2>1
    <3>2. i \in Nat /\ k \in Nat /\ Rank(K, i) \in Nat /\ Rank(K, k) \in Nat
      BY <1>1, <1>2
    <3>3. ~(i < k) /\ ~(k < i)
      BY <1>2, <3>1, <3>2
    <3> QED
      BY <3>1, <3>2, <3>3
  <2> QED
    BY <1>5, <2>1, <2>2
<1>8. \A m \in 1 .. N : s[at(m)] \in T
  BY <1>1, <1>3
<1> HIDE DEF e
<1>9. Subsequence(s, K) \in Seq(T) /\ Len(Subsequence(s, K)) = N
  <2>1. N \in Nat
    BY <1>2 DEF N
  <2>2. [m \in 1 .. N |-> s[at(m)]] \in [1 .. N -> T]
    BY <1>8
  <2>3. Subsequence(s, K) \in Seq(T)
    BY <1>4, <2>1, <2>2, IsASeq
  <2> QED
    BY <1>4, <2>1, <2>2, <2>3, LenProperties
<1>10. \A m \in 1 .. N : Subsequence(s, K)[m] = s[e[m]]
  BY <1>4, <1>5
<1> QED
  BY <1>2, <1>5, <1>6, <1>7, <1>9, <1>10 DEF N

\* The subsequence at the first positions is a prefix.
LEMMA SubsequencePrefix ==
    ASSUME NEW T, NEW s \in Seq(T), NEW n \in 0 .. Len(s)
    PROVE  /\ Len(Subsequence(s, 1 .. n)) = n
           /\ \A k \in 1 .. n : Subsequence(s, 1 .. n)[k] = s[k]
<1>1. n \in Nat /\ Len(s) \in Nat
  OBVIOUS
<1>2. \A k \in 0 .. n : Cardinality(1 .. k) = k
  <2> SUFFICES ASSUME NEW k \in 0 .. n PROVE Cardinality(1 .. k) = k
    OBVIOUS
  <2>1. Cardinality(1 .. k) = IF 1 > k THEN 0 ELSE k - 1 + 1
    BY <1>1, FS_Interval
  <2> QED
    BY <1>1, <2>1
<1>3. 1 .. n \in SUBSET (1 .. Len(s))
  BY <1>1
<1>4. Len(Subsequence(s, 1 .. n)) = n
  BY <1>1, <1>2, <1>3, SubsequencePositions
<1>5. ASSUME NEW k \in 1 .. n PROVE Subsequence(s, 1 .. n)[k] = s[k]
  <2>1. ASSUME NEW i \in 1 .. n PROVE Cardinality({j \in 1 .. n : j <= i}) = i
    <3>1. {j \in 1 .. n : j <= i} = 1 .. i
      BY <1>1
    <3>2. i \in 0 .. n
      BY <1>1
    <3> QED
      BY <1>2, <3>1, <3>2
  <2>2. (CHOOSE i \in 1 .. n : Cardinality({j \in 1 .. n : j <= i}) = k) = k
    BY <2>1
  <2>3. k \in 1 .. Cardinality(1 .. n)
    BY <1>1, <1>2
  <2> QED
    BY <2>2, <2>3 DEF Subsequence
<1> QED
  BY <1>4, <1>5

-----------------------------------------------------------------------------
\* Discovery and the kinds of files.

\* An empty graph has no kinds to confuse and nothing to hand out.
LEMMA BlankKinds == Blank => Kinds /\ Untouched
<1> SUFFICES ASSUME Blank PROVE Kinds /\ Untouched
  OBVIOUS
<1>1. Len(m_graph) = 0 /\ Ids = {} /\ m_active = <<>> /\ call = NoCall /\ returned = Missing
      /\ next_root = 1
  BY DEF Blank, TablesEmpty, Ids
<1>2. MaxFiles \in Nat
  BY LoaderAssumption
<1> QED
  BY <1>1, <1>2 DEF Kinds, NodeKinds, RootKinds, Untouched

\* Entering and leaving loadFile without reading a file.
LEMMA ControlKinds ==
    ASSUME IInv, Provenance, Kinds, LoadRoot \/ RootLoaded \/ Discovered \/ LoadAgain \/ ImportCall
    PROVE  Kinds' /\ (Untouched => Untouched')
<1> USE DEF IInv, Structure
<1>1. /\ disk' = disk /\ roots' = roots /\ m_graph' = m_graph /\ m_records' = m_records
      /\ m_active' = m_active
  BY DEF LoadRoot, RootLoaded, Discovered, LoadAgain, ImportCall, tables
<1>2. Ids' = Ids /\ \A i : FileOf(i)' = FileOf(i)
  BY <1>1 DEF Ids, FileOf
<1>3. Untouched => Untouched'
  BY <1>1, <1>2 DEF Untouched
<1>4. Len(m_graph') <= MaxFiles /\ NodeKinds'
  BY <1>1, <1>2 DEF Kinds, NodeKinds, isInterface
<1>5. next_root \in Nat \ {0} /\ Len(roots) \in Nat
  BY DEF TypeOK
<1>6. CASE LoadRoot
  <2>1. /\ m_active = <<>> /\ returned = Missing /\ returned' = Missing
        /\ call' = roots[next_root] /\ next_root' = next_root
    BY <1>6 DEF LoadRoot, AtRoots, Running
  <2>2. RootKinds'
    BY <1>1, <1>2, <2>1 DEF Kinds, RootKinds, RootKind, isInterface
  <2> QED
    BY <1>3, <1>4, <2>2 DEF Kinds
<1>7. CASE RootLoaded
  <2>1. /\ m_active = <<>> /\ returned # Missing /\ returned' = Missing
        /\ next_root' = next_root + 1 /\ call' = call /\ call = NoCall
    BY <1>7 DEF RootLoaded, Provenance, Pending
  <2>2. /\ FileOf(returned) = disk.at[roots[next_root]] /\ returned \in Ids
        /\ m_graph[returned].is_interface = isInterface(roots[next_root])
    BY <2>1 DEF Provenance, RootsFollow, RootFile, ReturnedLoaded, Loaded, Kinds, RootKinds, RootKind
  <2>3. ASSUME NEW k \in 1 .. Len(roots), k < next_root + 1, NEW i \in Ids,
               FileOf(i) = disk.at[roots[k]]
        PROVE  m_graph[i].is_interface = isInterface(roots[k])
    <3>1. CASE k = next_root
      <4>1. i = returned
        BY <2>2, <2>3, <3>1 DEF Provenance, PhysicalFilesOnce, FileOf
      <4> QED
        BY <2>2, <3>1, <4>1
    <3>2. CASE k < next_root
      BY <2>3, <3>2 DEF Kinds, RootKinds
    <3> QED
      BY <1>5, <2>3, <3>1, <3>2
  <2>4. RootKinds'
    BY <1>1, <1>2, <2>1, <2>3 DEF RootKinds, isInterface
  <2> QED
    BY <1>3, <1>4, <2>4 DEF Kinds
<1>8. CASE Discovered
  <2>1. call' = call /\ returned' = returned /\ next_root' = next_root
    BY <1>8 DEF Discovered
  <2>2. RootKinds'
    BY <1>1, <1>2, <2>1 DEF Kinds, RootKinds, RootKind, isInterface
  <2> QED
    BY <1>3, <1>4, <2>2 DEF Kinds
<1>9. CASE LoadAgain
  <2>1. PICK id \in Ids : Found(id) /\ SameKind(id) /\ call' = NoCall /\ returned' = id
    BY <1>9 DEF LoadAgain
  <2>2. next_root' = next_root /\ call # NoCall
    BY <1>9 DEF LoadAgain, Found
  <2>3. m_active = <<>> => m_graph[id].is_interface = isInterface(roots[next_root])
    BY <2>1, <2>2 DEF SameKind, Kinds, RootKinds, RootKind
  <2>4. RootKinds'
    BY <1>1, <1>2, <2>1, <2>2, <2>3 DEF Kinds, RootKinds, RootKind, isInterface
  <2> QED
    BY <1>3, <1>4, <2>4 DEF Kinds
<1>10. CASE ImportCall
  <2>1. m_active # <<>> /\ next_root' = next_root
    BY <1>10 DEF ImportCall, AtImport, InFile
  <2>2. RootKinds'
    BY <1>1, <1>2, <2>1 DEF Kinds, RootKinds, RootKind, isInterface
  <2> QED
    BY <1>3, <1>4, <2>2 DEF Kinds
<1> QED
  BY <1>6, <1>7, <1>8, <1>9, <1>10

\* A new node takes the kind of the path it was entered with.
LEMMA PreambleKinds ==
    ASSUME IInv, Provenance, Kinds, LoadPreamble
    PROVE  Kinds' /\ (Untouched => Untouched')
<1> USE DEF IInv, Structure
<1>0. PICK id \in Nat : Entered(id)
  BY PreambleEffect
<1> DEFINE node == [path |-> call, is_interface |-> isInterface(call), dependencies |-> {}]
           rec  == [aliases |-> {}, loaded |-> FALSE, taken |-> FALSE, completed |-> FALSE]
<1>1. /\ m_graph' = Append(m_graph, node) /\ m_records' = Append(m_records, rec)
      /\ roots' = roots /\ next_root' = next_root /\ returned' = returned /\ call' = NoCall
      /\ Len(m_graph) < MaxFiles
  BY DEF LoadPreamble, WithinLimits
<1>2. /\ m_graph \in Seq(Node) /\ m_records \in Seq(Record)
      /\ Len(m_records) = Len(m_graph) /\ Len(m_graph) \in Nat
  BY DEF TypeOK
<1>3. call \in Path /\ call # NoCall
  BY <1>0, LoaderAssumption DEF Entered
<1>4. node \in Node /\ rec \in Record
  BY <1>3 DEF Node, Record, isInterface
<1>5. /\ node.path = call /\ node.is_interface = isInterface(call)
      /\ ~rec.taken /\ ~rec.completed
  OBVIOUS
<1> HIDE DEF node, rec
<1>6. /\ Len(m_graph') = Len(m_graph) + 1
      /\ m_graph'[Len(m_graph) + 1] = node /\ m_records'[Len(m_graph) + 1] = rec
  BY <1>1, <1>2, <1>4
<1>7. id = Len(m_graph) + 1
  <2>1. id \in Ids' /\ id \notin Ids
    BY <1>0 DEF Entered
  <2> QED
    BY <1>2, <1>6, <2>1 DEF Ids
<1>8. /\ Ids' = Ids \cup {id} /\ id \notin Ids
      /\ \A i \in Ids : m_graph'[i] = m_graph[i] /\ m_records'[i] = m_records[i]
      /\ m_graph'[id] = node /\ m_records'[id] = rec /\ disk' = disk
      /\ FileOf(id)' = disk.at[call]
      /\ \A i \in Ids : FileOf(i)' = FileOf(i)
  BY <1>0, <1>5, <1>6, <1>7 DEF Entered, Grows, FileOf
<1>9. Len(m_graph') <= MaxFiles
  BY <1>1, <1>2, <1>6, LoaderAssumption
<1>10. NodeKinds'
  BY <1>5, <1>8 DEF Kinds, NodeKinds, isInterface
<1>11. Untouched => Untouched'
  BY <1>5, <1>8 DEF Untouched
<1>12. /\ Len(m_active) \in Nat /\ Len(m_active') = Len(m_active) + 1
       /\ \A k \in 1 .. Len(m_active) : m_active'[k] = m_active[k]
       /\ m_active'[Len(m_active) + 1].id = id
  BY <1>0 DEF Entered
<1>13. m_active' # <<>> /\ m_active'[1].id \in Ids'
       /\ m_graph'[m_active'[1].id].is_interface = isInterface(roots[next_root])
  <2>1. m_active' # <<>>
    BY <1>12
  <2>2. CASE m_active = <<>>
    <3>1. m_active'[1].id = id
      BY <1>12, <2>2
    <3>2. isInterface(call) = isInterface(roots[next_root])
      BY <1>3, <2>2 DEF Kinds, RootKinds, RootKind
    <3> QED
      BY <1>5, <1>8, <2>1, <3>1, <3>2
  <2>3. CASE m_active # <<>>
    <3>1. 1 \in 1 .. Len(m_active)
      BY <1>12, <2>3 DEF TypeOK
    <3>2. m_active'[1] = m_active[1] /\ m_active[1].id \in Ids
      BY <1>12, <3>1 DEF FramesOpen
    <3>3. m_graph[m_active[1].id].is_interface = isInterface(roots[next_root])
      BY <2>3 DEF Kinds, RootKinds, RootKind
    <3> QED
      BY <1>8, <2>1, <3>2, <3>3
  <2> QED
    BY <2>2, <2>3
<1>14. ASSUME NEW k \in 1 .. Len(roots), k < next_root, NEW i \in Ids',
              FileOf(i)' = disk.at[roots[k]]
       PROVE  m_graph'[i].is_interface = isInterface(roots[k])
  <2>1. PICK j \in Ids : FileOf(j) = disk.at[roots[k]]
    BY <1>14 DEF Provenance, RootsFollow, FilesOf, Loaded
  <2>2. PhysicalFilesOnce'
    BY PreambleProvenance DEF Provenance
  <2>3. FileOf(j)' = FileOf(i)' /\ j \in Ids'
    BY <1>8, <1>14, <2>1
  <2>4. i = j
    BY <2>2, <2>3 DEF PhysicalFilesOnce, FileOf
  <2> QED
    BY <1>8, <1>14, <2>1, <2>4 DEF Kinds, RootKinds
<1>15. RootKinds'
  BY <1>1, <1>8, <1>13, <1>14 DEF RootKinds, RootKind, isInterface
<1> QED
  BY <1>9, <1>10, <1>11, <1>15 DEF Kinds

\* Recording an edge and finishing a file leave paths and kinds alone.
LEMMA FrameKinds ==
    ASSUME IInv, Provenance, Kinds, ImportReturned \/ FileLoaded
    PROVE  Kinds' /\ (Untouched => Untouched')
<1> USE DEF IInv, Structure
<1>1. m_active # <<>> /\ roots' = roots /\ next_root' = next_root /\ disk' = disk
      /\ call' = call /\ phase = "discover" /\ call = NoCall
  <2>1. CASE ImportReturned
    BY <2>1 DEF ImportReturned, TypeOK, Provenance, Pending
  <2>2. CASE FileLoaded
    BY <2>2 DEF FileLoaded, AtBody, InFile, Running
  <2> QED
    BY <2>1, <2>2
<1>2. Top.id \in Ids /\ Len(m_active) \in Nat \ {0} /\ m_graph \in Seq(Node)
      /\ m_records \in Seq(Record) /\ Len(m_records) = Len(m_graph) /\ Len(m_graph) \in Nat
  <2>1. Top.id \in Ids /\ Len(m_active) \in 1 .. Len(m_active)
    BY <1>1, TopFrame
  <2> QED
    BY <2>1 DEF TypeOK
<1>3. 1 \in 1 .. Len(m_active) /\ m_active[1].id \in Ids
      /\ m_graph[m_active[1].id].is_interface = isInterface(roots[next_root])
  BY <1>1, <1>2 DEF FramesOpen, Kinds, RootKinds, RootKind
<1>4. CASE ImportReturned
  <2>0. PICK t, r \in Nat : Returning(t, r)
    BY <1>4, ImportReturnedEffect
  <2>1. /\ m_graph' = [m_graph EXCEPT ![Top.id].dependencies = @ \cup {returned}]
        /\ m_records' = m_records /\ returned' = Missing
    BY <1>4 DEF ImportReturned
  <2>2. Len(m_graph') = Len(m_graph) /\ Ids' = Ids
    BY <1>2, <2>1 DEF Ids
  <2>3. ASSUME NEW i \in Ids
        PROVE  /\ m_graph'[i].path = m_graph[i].path
               /\ m_graph'[i].is_interface = m_graph[i].is_interface
    <3>1. m_graph[i] \in Node
      BY <1>2 DEF Ids
    <3>2. CASE i = Top.id
      <4>1. i \in DOMAIN m_graph
        BY <1>2 DEF Ids
      <4>2. m_graph'[i] = [m_graph[i] EXCEPT !.dependencies = @ \cup {returned}]
        BY <2>1, <3>2, <4>1
      <4> QED
        BY <3>1, <4>2 DEF Node
    <3>3. CASE i # Top.id
      BY <1>2, <2>1, <3>3 DEF Ids
    <3> QED
      BY <3>2, <3>3
  <2>4. \A i \in Ids : FileOf(i)' = FileOf(i)
    BY <1>1, <2>3 DEF FileOf
  <2>5. Untouched => Untouched'
    BY <2>1, <2>2 DEF Untouched
  <2>6. NodeKinds'
    BY <2>2, <2>3 DEF Kinds, NodeKinds, isInterface
  <2>7. m_active' # <<>> /\ m_active'[1].id = m_active[1].id
    <3>1. /\ Len(m_active') = Len(m_active)
          /\ \A k \in 1 .. Len(m_active) - 1 : m_active'[k] = m_active[k]
          /\ m_active'[Len(m_active)].id = t /\ t = m_active[Len(m_active)].id
      BY <2>0 DEF Returning, Top
    <3>2. CASE Len(m_active) = 1
      BY <1>2, <3>1, <3>2
    <3>3. CASE Len(m_active) # 1
      BY <1>2, <3>1, <3>3
    <3> QED
      BY <3>2, <3>3
  <2>8. RootKinds'
    BY <1>1, <1>3, <2>1, <2>2, <2>3, <2>4, <2>7 DEF Kinds, RootKinds, RootKind, isInterface
  <2> QED
    BY <2>2, <2>5, <2>6, <2>8 DEF Kinds
<1>5. CASE FileLoaded
  <2>0. PICK t \in Nat : Finishing(t)
    BY <1>5, FileLoadedEffect
  <2>1. /\ m_graph' = m_graph /\ Ids' = Ids /\ returned' = t /\ t = Top.id
        /\ \A i \in Ids : i # t => m_records'[i] = m_records[i]
        /\ Len(m_active') = Len(m_active) - 1
        /\ \A k \in 1 .. Len(m_active) - 1 : m_active'[k] = m_active[k]
    BY <2>0 DEF Finishing
  <2>2. \A i : FileOf(i)' = FileOf(i)
    BY <1>1, <2>1 DEF FileOf
  <2>3. Untouched => Untouched'
    <3>1. /\ m_records'[t].taken = m_records[t].taken
          /\ m_records'[t].completed = m_records[t].completed
      <4>1. PICK A : m_records' = [m_records EXCEPT ![Top.id] =
                        [@ EXCEPT !.aliases = A, !.loaded = TRUE]]
        BY <1>5 DEF FileLoaded
      <4>2. Top.id \in DOMAIN m_records /\ m_records[Top.id] \in Record
        BY <1>2 DEF Ids
      <4>3. m_records'[t] = [m_records[t] EXCEPT !.aliases = A, !.loaded = TRUE]
        BY <2>1, <4>1, <4>2
      <4> QED
        BY <2>1, <4>2, <4>3 DEF Record
    <3> QED
      BY <1>2, <2>1, <3>1 DEF Untouched
  <2>4. NodeKinds' /\ Len(m_graph') <= MaxFiles
    BY <2>1 DEF Kinds, NodeKinds, isInterface
  <2>5. CASE Len(m_active) = 1
    <3>1. m_active' = <<>>
      <4>1. m_active' \in Seq(Frame) /\ Len(m_active') = 0
        BY <1>5, <2>1, <2>5, FileLoadedIInv DEF TypeOK
      <4> QED
        BY <4>1
    <3>2. t = m_active[1].id
      BY <2>1, <2>5 DEF Top
    <3>3. RootKinds'
      BY <1>1, <1>3, <2>1, <2>2, <3>1, <3>2 DEF Kinds, RootKinds, RootKind, isInterface
    <3> QED
      BY <2>3, <2>4, <3>3 DEF Kinds
  <2>6. CASE Len(m_active) # 1
    <3>1. m_active' # <<>> /\ m_active'[1] = m_active[1]
      BY <1>2, <2>1, <2>6
    <3>2. RootKinds'
      BY <1>1, <1>3, <2>1, <2>2, <3>1 DEF Kinds, RootKinds, RootKind, isInterface
    <3> QED
      BY <2>3, <2>4, <3>2 DEF Kinds
  <2> QED
    BY <2>5, <2>6
<1> QED
  BY <1>4, <1>5

\* Discovery keeps kinds, hands nothing out and reports none of the
\* client's errors; where it ends, it ends in one of two ways.
LEMMA DiscoveryStep ==
    ASSUME IInv, Provenance, Kinds, Discovery
    PROVE  /\ Kinds' /\ (Untouched => Untouched')
           /\ phase = "discover" /\ disk' = disk
           /\ phase' # "idle" => error' = "none" /\ roots' = roots
           /\ error' \notin {"transfer", "dependencies", "publish", "unlisted"}
<1> USE DEF IInv, Structure
<1>0. phase = "discover" => error = "none"
  BY DEF Provenance, Pending
<1>1. CASE LoadRoot \/ RootLoaded \/ Discovered \/ LoadAgain \/ ImportCall
  <2>1. phase = "discover"
    BY <1>1, LoaderAssumption DEF LoadRoot, RootLoaded, Discovered, LoadAgain, ImportCall,
       AtImport, InFile, AtRoots, Running, Found, TypeOK
  <2>2. error' = error /\ disk' = disk /\ roots' = roots
    BY <1>1 DEF LoadRoot, RootLoaded, Discovered, LoadAgain, ImportCall
  <2> QED
    BY <1>0, <1>1, <2>1, <2>2, ControlKinds
<1>2. CASE LoadKindMismatch \/ LoadCycle \/ LoadLimit \/ LoadRejected \/ ImportUnresolved
             \/ ImportRefused \/ BodyRejected
  <2>1. PICK kind \in {"kind", "cycle", "limit", "source", "import", "alias", "body"} : Fail(kind)
    BY <1>2 DEF LoadKindMismatch, LoadCycle, LoadLimit, LoadRejected, ImportUnresolved,
       ImportRefused, BodyRejected
  <2>2. Blank' /\ phase' = "idle" /\ error' = kind /\ disk' = disk
    BY <2>1 DEF Fail, ClearTables, Blank, TablesEmpty
  <2>3. Kinds' /\ Untouched'
    BY <2>2, BlankKinds, PTL
  <2>4. phase = "discover"
    BY <1>2, LoaderAssumption DEF LoadKindMismatch, LoadCycle, LoadLimit, LoadRejected,
       ImportUnresolved, ImportRefused, BodyRejected, AtBody, AtImport, InFile, Running, Found, Fresh, TypeOK
  <2> QED
    BY <2>2, <2>3, <2>4
<1>3. CASE LoadPreamble
  <2>1. phase = "discover"
    BY <1>3, LoaderAssumption DEF LoadPreamble, Fresh, TypeOK
  <2>2. error' = error /\ disk' = disk /\ roots' = roots
    BY <1>3 DEF LoadPreamble
  <2> QED
    BY <1>0, <1>3, <2>1, <2>2, PreambleKinds
<1>4. CASE ImportReturned \/ FileLoaded
  <2>1. phase = "discover"
    BY <1>4 DEF ImportReturned, FileLoaded, AtBody, InFile, Running, TypeOK
  <2>2. error' = error /\ disk' = disk /\ roots' = roots
    BY <1>4 DEF ImportReturned, FileLoaded
  <2> QED
    BY <1>0, <1>4, <2>1, <2>2, FrameKinds
<1> QED
  BY <1>1, <1>2, <1>3, <1>4 DEF Discovery, loadFile

-----------------------------------------------------------------------------
\* What a driver may rely on once discovery has succeeded.

\* Two paths, one of them a file's, name the same file iff they lead to it.
LEMMA SamePathSameFile ==
    ASSUME NEW p, NEW q, disk.at[p] \in Inode \/ disk.at[q] \in Inode
    PROVE  samePath(p, q) <=> disk.at[p] = disk.at[q]
  BY DEF samePath, SameFile

\* The order of the two paths does not matter.
LEMMA SamePathSymmetric ==
    ASSUME NEW p, NEW q
    PROVE  samePath(p, q) <=> samePath(q, p)
  BY DEF samePath, SameFile

\* findFile finds the one node of a file.
LEMMA FindOne ==
    ASSUME IInv, Provenance, NEW path \in Path, NEW i \in Ids, disk.at[path] = FileOf(i)
    PROVE  findFile(path) = i /\ i # Missing
<1>1. /\ findFile(path) \in Ids /\ findFile(path) # Missing
      /\ FileOf(findFile(path)) = disk.at[path]
  BY FindFileFound DEF IInv, Structure
<1>2. PhysicalFilesOnce
  BY DEF Provenance
<1>3. findFile(path) = i
  BY <1>1, <1>2 DEF PhysicalFilesOnce, FileOf
<1> QED
  BY <1>1, <1>3

\* Every node is in the analysis order, once, after all it imports.
LEMMA ReadyOrder ==
    ASSUME IInv, Provenance, phase = "ready"
    PROVE  /\ m_graph \in Seq(Node) /\ m_records \in Seq(Record) /\ Len(m_graph) \in Nat
           /\ Len(m_records) = Len(m_graph)
           /\ m_order \in Seq(Nat) /\ Len(m_order) \in Nat
           /\ Loaded = Ids /\ \A k \in 1 .. Len(m_order) : m_order[k] \in Ids
           /\ \A i \in Ids : \E k \in 1 .. Len(m_order) : m_order[k] = i
           /\ \A j, k \in 1 .. Len(m_order) : m_order[j] = m_order[k] => j = k
           /\ \A k \in 1 .. Len(m_order) :
                 \A d \in gather(m_order[k]) \ {m_order[k]} :
                     \E j \in 1 .. Len(m_order) : j < k /\ m_order[j] = d
<1> USE DEF IInv, Structure
<1>1. /\ m_graph \in Seq(Node) /\ m_records \in Seq(Record) /\ Len(m_graph) \in Nat
      /\ Len(m_records) = Len(m_graph) /\ m_order \in Seq(Nat) /\ Len(m_order) \in Nat
      /\ m_active = <<>>
  BY DEF TypeOK
<1>2. Loaded = Ids
  <2>1. ActiveIds = {}
    BY <1>1 DEF ActiveIds
  <2> QED
    BY <2>1 DEF Provenance, OpenOrLoaded, Loaded
<1>3. Ordered = Ids
  BY <1>2 DEF DependencyFirst
<1>4. /\ \A k \in 1 .. Len(m_order) : m_order[k] \in Ids
      /\ \A i \in Ids : \E k \in 1 .. Len(m_order) : m_order[k] = i
  BY <1>3 DEF Ordered
<1>5. ASSUME NEW j \in 1 .. Len(m_order), NEW k \in 1 .. Len(m_order), m_order[j] = m_order[k]
      PROVE  j = k
  <2>1. ~(j < k)
    BY <1>5, <1>1 DEF DependencyFirst, OrderedBefore
  <2>2. ~(k < j)
    BY <1>5, <1>1 DEF DependencyFirst, OrderedBefore
  <2> QED
    BY <1>1, <2>1, <2>2
<1>6. ASSUME NEW k \in 1 .. Len(m_order), NEW d \in gather(m_order[k]) \ {m_order[k]}
      PROVE  \E j \in 1 .. Len(m_order) : j < k /\ m_order[j] = d
  <2> DEFINE S == {m_order[j] : j \in 1 .. k}
  <2>1. S \subseteq Ids /\ m_order[k] \in S
    <3>1. k \in 1 .. k /\ \A j \in 1 .. k : j \in 1 .. Len(m_order)
      BY <1>1
    <3> QED
      BY <1>4, <3>1
  <2>2. ASSUME NEW i \in S, NEW e \in m_graph[i].dependencies PROVE e \in S
    <3>1. PICK j \in 1 .. k : m_order[j] = i
      BY <2>2
    <3>2. j \in 1 .. Len(m_order)
      BY <1>1
    <3>3. e \in OrderedBefore(j)
      BY <2>2, <3>1, <3>2 DEF DependencyFirst
    <3>4. PICK h \in 1 .. j - 1 : m_order[h] = e
      BY <3>3 DEF OrderedBefore
    <3>5. h \in 1 .. k
      BY <1>1
    <3> QED
      BY <3>4, <3>5
  <2>3. ClosedUnderDependencies(S)
    BY <2>2 DEF ClosedUnderDependencies
  <2> HIDE DEF S
  <2>4. d \in S
    BY <1>6, <2>1, <2>3, GatherLeast
  <2>5. PICK j \in 1 .. k : m_order[j] = d
    BY <2>4 DEF S
  <2>6. j # k
    BY <1>6, <2>5
  <2>7. j \in 1 .. Len(m_order) /\ j < k
    BY <1>1, <2>6
  <2> QED
    BY <2>5, <2>7
<1> QED
  BY <1>1, <1>2, <1>4, <1>5, <1>6

\* The published order spells the paths of the nodes, and each is a file.
LEMMA AnalysisPaths ==
    ASSUME IInv, Provenance, phase = "ready"
    PROVE  /\ analysisOrder \in Seq(Path) /\ Len(analysisOrder) = Len(m_order)
           /\ \A k \in 1 .. Len(m_order) :
                 /\ analysisOrder[k] = m_graph[m_order[k]].path /\ analysisOrder[k] \in Path
                 /\ disk.at[analysisOrder[k]] = FileOf(m_order[k])
                 /\ FileOf(m_order[k]) \in Inode
           /\ \A j, k \in 1 .. Len(m_order) : FileOf(m_order[j]) = FileOf(m_order[k]) => j = k
<1>1. /\ m_graph \in Seq(Node) /\ Len(m_graph) \in Nat /\ Len(m_order) \in Nat
      /\ \A k \in 1 .. Len(m_order) : m_order[k] \in Ids
      /\ \A j, k \in 1 .. Len(m_order) : m_order[j] = m_order[k] => j = k
  BY ReadyOrder
<1>2. \A i \in Ids : m_graph[i].path \in Path
  <2>1. \A i \in Ids : m_graph[i] \in Node
    BY <1>1 DEF Ids
  <2> QED
    BY <2>1 DEF Node
<1>3. analysisOrder \in [1 .. Len(m_order) -> Path]
  BY <1>1, <1>2 DEF analysisOrder
<1>4. analysisOrder \in Seq(Path) /\ Len(analysisOrder) = Len(m_order)
  BY <1>1, <1>3, IsASeq, LenProperties
<1>5. ASSUME NEW k \in 1 .. Len(m_order)
      PROVE  /\ analysisOrder[k] = m_graph[m_order[k]].path /\ analysisOrder[k] \in Path
             /\ disk.at[analysisOrder[k]] = FileOf(m_order[k])
             /\ FileOf(m_order[k]) \in Inode
  <2>1. analysisOrder[k] = m_graph[m_order[k]].path
    BY DEF analysisOrder
  <2> QED
    BY <1>1, <1>2, <2>1 DEF FileOf, IInv, Structure, FilesRead
<1>6. \A j, k \in 1 .. Len(m_order) : FileOf(m_order[j]) = FileOf(m_order[k]) => j = k
  <2>1. PhysicalFilesOnce
    BY DEF Provenance
  <2> QED
    BY <1>1, <2>1 DEF PhysicalFilesOnce, FileOf
<1> QED
  BY <1>4, <1>5, <1>6

-----------------------------------------------------------------------------
\* The units of both drivers, in the order they are compiled, are the files of
\* the analysis order.
LEMMA UnitFiles ==
    ASSUME IInv, Provenance, Kinds, DriverTypes, Planned, Compiling, phase = "ready"
    PROVE  /\ Len(Units) = Len(m_order) /\ Len(m_order) \in Nat
           /\ \A u \in 1 .. Len(m_order) :
                 Units[u] \in Path /\ disk.at[Units[u]] = FileOf(m_order[u])
           /\ mode = "build" => \A u \in 1 .. Len(m_order) :
                 isInterface(Units[u]) = m_graph[m_order[u]].is_interface
<1>1. /\ Len(m_order) \in Nat
      /\ \A k \in 1 .. Len(m_order) : m_order[k] \in Ids
  BY ReadyOrder
<1>2. /\ analysisOrder \in Seq(Path) /\ Len(analysisOrder) = Len(m_order)
      /\ \A k \in 1 .. Len(m_order) :
            /\ analysisOrder[k] = m_graph[m_order[k]].path /\ analysisOrder[k] \in Path
            /\ disk.at[analysisOrder[k]] = FileOf(m_order[k])
            /\ FileOf(m_order[k]) \in Inode
      /\ \A j, k \in 1 .. Len(m_order) : FileOf(m_order[j]) = FileOf(m_order[k]) => j = k
  BY AnalysisPaths
<1>3. CASE mode = "build"
  <2>1. Units = analysisOrder
    BY <1>3 DEF Units
  <2>2. \A u \in 1 .. Len(m_order) : isInterface(Units[u]) = m_graph[m_order[u]].is_interface
    BY <1>1, <1>2, <2>1 DEF Kinds, NodeKinds
  <2> QED
    BY <1>1, <1>2, <2>1, <2>2
<1>4. CASE mode # "build"
  <2> DEFINE n == Len(m_order)
             front == Subsequence(analysisOrder, 1 .. n - 1)
  <2>1. /\ sources \in Seq(Path) /\ Len(sources) = 1 /\ n > 0
        /\ FileOf(m_order[n]) = disk.at[sources[1]]
    BY <1>4 DEF Planned, InputLast, DriverTypes
  <2>2. Others = 1 .. n - 1
    <3>1. n \in 1 .. n
      BY <1>1, <2>1
    <3>2. \A k \in 1 .. n : samePath(analysisOrder[k], sources[1]) <=>
                               FileOf(m_order[k]) = FileOf(m_order[n])
      BY <1>2, <2>1, SamePathSameFile
    <3>3. \A k \in 1 .. n : samePath(analysisOrder[k], sources[1]) <=> k = n
      BY <1>2, <3>1, <3>2
    <3>4. Others = {k \in 1 .. n : k # n}
      BY <1>2, <3>3 DEF Others
    <3> QED
      BY <1>1, <3>4
  <2>3. Units = front \o sources
    BY <1>4, <2>2 DEF Units
  <2>4. n - 1 \in 0 .. Len(analysisOrder)
    BY <1>1, <1>2, <2>1
  <2>5. Len(front) = n - 1 /\ \A k \in 1 .. n - 1 : front[k] = analysisOrder[k]
    BY <1>2, <2>4, SubsequencePrefix
  <2>6. front \in Seq(Path)
    <3>1. 1 .. n - 1 \in SUBSET (1 .. Len(analysisOrder))
      BY <1>1, <1>2
    <3> QED
      BY <1>2, <3>1, SubsequencePositions
  <2> HIDE DEF front, n
  <2>7. n \in Nat
    BY <1>1 DEF n
  <2>8. /\ Len(front \o sources) = n
        /\ \A k \in 1 .. n - 1 : (front \o sources)[k] = front[k]
        /\ (front \o sources)[n] = sources[1]
    <3>1. /\ Len(front \o sources) = Len(front) + Len(sources)
          /\ \A k \in 1 .. Len(front) + Len(sources) :
                (front \o sources)[k] = IF k <= Len(front) THEN front[k] ELSE sources[k - Len(front)]
      BY <2>1, <2>6, ConcatProperties
    <3>2. Len(front) = n - 1 /\ Len(sources) = 1 /\ n - 1 + 1 = n /\ n - (n - 1) = 1
          /\ ~(n <= n - 1) /\ n \in 1 .. n
      BY <2>1, <2>5, <2>7
    <3>3. \A k \in 1 .. n - 1 : k \in 1 .. n /\ k <= n - 1
      BY <2>7
    <3> HIDE DEF front
    <3> QED
      BY <3>1, <3>2, <3>3
  <2>9. ASSUME NEW u \in 1 .. n
        PROVE  Units[u] \in Path /\ disk.at[Units[u]] = FileOf(m_order[u])
    <3>1. CASE u = n
      <4>1. sources[1] \in Path
        BY <2>1
      <4> QED
        BY <2>1, <2>3, <2>8, <3>1, <4>1 DEF n
    <3>2. CASE u # n
      <4>1. u \in 1 .. n - 1 /\ u \in 1 .. Len(m_order)
        BY <2>7, <3>2 DEF n
      <4>2. Units[u] = analysisOrder[u]
        BY <2>3, <2>5, <2>8, <4>1
      <4> QED
        BY <1>2, <4>1, <4>2
    <3> QED
      BY <3>1, <3>2
  <2> QED
    BY <1>1, <1>4, <2>3, <2>8, <2>9 DEF n
<1> QED
  BY <1>3, <1>4

\* A build lists no more sources than there are object names.
LEMMA ObjectForEach ==
    ASSUME IInv, Kinds, DriverTypes, ListedOnce
    PROVE  /\ Len(sources) \in Nat /\ Len(sources) <= Len(layout.objects)
           /\ \A k \in 1 .. Len(sources) : layout.objects[k] \in Path
<1>1. sources \in Seq(Path) /\ Len(sources) \in Nat /\ layout.objects \in Seq(Path)
      /\ Len(layout.objects) >= MaxFiles /\ Len(m_graph) <= MaxFiles /\ Len(m_graph) \in Nat
      /\ MaxFiles \in Nat /\ Len(layout.objects) \in Nat
  BY BuildAssumption, LoaderAssumption DEF DriverTypes, Kinds, IInv, TypeOK
<1> DEFINE S == 1 .. Len(sources)
           f == [k \in S |-> CHOOSE i \in Ids : FileOf(i) = disk.at[sources[k]]]
<1>2. \A k \in S : f[k] \in Ids /\ FileOf(f[k]) = disk.at[sources[k]]
  BY DEF ListedOnce
<1>3. f \in [S -> Ids]
  BY <1>2
<1>4. \A j, k \in S : f[j] = f[k] => j = k
  BY <1>2 DEF ListedOnce
<1> HIDE DEF f
<1>5. f \in Injection(S, Ids)
  BY <1>3, <1>4 DEF Injection, IsInjective
<1>6. IsFiniteSet(Ids) /\ IsFiniteSet(S) /\ Cardinality(Ids) = Len(m_graph)
      /\ Cardinality(S) = Len(sources)
  <2>1. ASSUME NEW n \in Nat PROVE IsFiniteSet(1 .. n) /\ Cardinality(1 .. n) = n
    <3>1. IsFiniteSet(1 .. n) /\ Cardinality(1 .. n) = IF 1 > n THEN 0 ELSE n - 1 + 1
      BY FS_Interval
    <3> QED
      BY <3>1
  <2> QED
    BY <1>1, <2>1 DEF Ids
<1>7. Len(sources) <= Len(m_graph)
  BY <1>5, <1>6, FS_Injection
<1>8. Len(sources) <= Len(layout.objects)
  BY <1>1, <1>7
<1> QED
  BY <1>1, <1>8

\* The unit at hand is a node of the graph; in a build its source, if it is an
\* implementation, is on the list.
LEMMA UnitAtHand ==
    ASSUME IInv, Provenance, Kinds, DriverTypes, Planned, Compiling, phase = "ready",
           unit <= Len(Units)
    PROVE  /\ unit \in 1 .. Len(m_order)
           /\ Listed(Units[unit]) /\ UnitInput \in Path /\ UnitId = m_order[unit]
           /\ UnitId # Missing
           /\ mode = "build" =>
                 /\ isInterface(Units[unit]) = m_graph[UnitId].is_interface
                 /\ ~isInterface(Units[unit]) =>
                       /\ SourceIndex(Units[unit]) \in 1 .. Len(sources)
                       /\ disk.at[sources[SourceIndex(Units[unit])]] = FileOf(UnitId)
<1>1. /\ Len(Units) = Len(m_order) /\ Len(m_order) \in Nat
      /\ \A u \in 1 .. Len(m_order) :
            Units[u] \in Path /\ disk.at[Units[u]] = FileOf(m_order[u])
      /\ mode = "build" => \A u \in 1 .. Len(m_order) :
            isInterface(Units[u]) = m_graph[m_order[u]].is_interface
  BY UnitFiles
<1>2. unit \in 1 .. Len(m_order)
  BY <1>1 DEF DriverTypes
<1>3. PICK p : p = Units[unit]
  OBVIOUS
<1>4. PICK i : i = m_order[unit]
  OBVIOUS
<1>5. i \in Ids /\ FileOf(i) \in Inode
  BY <1>2, <1>4, ReadyOrder, AnalysisPaths
<1>6. p \in Path /\ disk.at[p] = FileOf(i) /\ (mode = "build" => isInterface(p) = m_graph[i].is_interface)
  BY <1>1, <1>2, <1>3, <1>4
<1>7. CASE mode = "build" /\ ~isInterface(p)
  <2> DEFINE found == {k \in 1 .. Len(sources) : samePath(p, sources[k])}
  <2>1. Len(sources) \in Nat /\ sources \in Seq(Path)
    BY DEF DriverTypes
  <2>2. PICK k \in 1 .. Len(sources) : FileOf(i) = disk.at[sources[k]]
    BY <1>5, <1>6, <1>7 DEF Planned, ListedOnce
  <2>3. k \in found
    BY <1>5, <1>6, <2>2, SamePathSameFile
  <2>4. found \subseteq Nat /\ \A j \in found : j \in 1 .. Len(sources) /\ disk.at[sources[j]] = FileOf(i)
    BY <1>5, <1>6, SamePathSameFile
  <2>5. SourceIndex(p) = CHOOSE j \in found : \A h \in found : j <= h
    BY <2>3 DEF SourceIndex
  <2> HIDE DEF found
  <2>6. \E j \in found : \A h \in found : j <= h
    BY <2>3, <2>4, LeastElement
  <2>7. SourceIndex(p) \in found
    BY <2>5, <2>6
  <2>8. PICK s : s = SourceIndex(p)
    OBVIOUS
  <2>9. s \in 1 .. Len(sources) /\ disk.at[sources[s]] = FileOf(i) /\ sources[s] \in Path
    <3>1. s \in found
      BY <2>7, <2>8
    <3>2. s \in 1 .. Len(sources) /\ disk.at[sources[s]] = FileOf(i)
      BY <2>4, <3>1
    <3> QED
      BY <2>1, <3>2
  <2>10. s # 0
    BY <2>1, <2>9
  <2>11. UnitInput = sources[s] /\ Listed(Units[unit])
    BY <1>3, <1>7, <2>8, <2>10 DEF UnitInput, Listed
  <2>12. findFile(sources[s]) = i /\ i # Missing
    BY <1>5, <2>9, FindOne
  <2> QED
    BY <1>2, <1>3, <1>4, <1>6, <2>8, <2>9, <2>11, <2>12 DEF UnitId
<1>8. CASE ~(mode = "build" /\ ~isInterface(p))
  <2>1. UnitInput = p
    BY <1>3, <1>8 DEF UnitInput
  <2>2. Listed(Units[unit])
    BY <1>3, <1>8 DEF Listed, DriverTypes
  <2>3. findFile(p) = i /\ i # Missing
    BY <1>5, <1>6, FindOne
  <2> QED
    BY <1>2, <1>3, <1>4, <1>6, <1>8, <2>1, <2>2, <2>3 DEF UnitId
<1> QED
  BY <1>7, <1>8

-----------------------------------------------------------------------------
\* What Plan decides.

\* The implementations added to the list are the nodes that are not on it.
LEMMA AddedSources ==
    ASSUME IInv, Provenance, Kinds, phase = "ready", DriverTypes
    PROVE  LET added == Subsequence(implementationOrder, NewSources) IN
           /\ added \in Seq(Path)
           /\ \E g \in [1 .. Len(added) -> 1 .. Len(m_order)] :
                 /\ \A m \in 1 .. Len(added) :
                       /\ added[m] = analysisOrder[g[m]] /\ ~isInterface(analysisOrder[g[m]])
                       /\ ~KnownIn(analysisOrder[g[m]], sources)
                 /\ \A m, n \in 1 .. Len(added) : g[m] = g[n] => m = n
                 /\ \A k \in 1 .. Len(m_order) :
                       ~isInterface(analysisOrder[k]) /\ ~KnownIn(analysisOrder[k], sources) =>
                          \E m \in 1 .. Len(added) : g[m] = k
<1> DEFINE I == {k \in 1 .. Len(analysisOrder) : ~isInterface(analysisOrder[k])}
           added == Subsequence(implementationOrder, NewSources)
<1>1. analysisOrder \in Seq(Path) /\ Len(analysisOrder) = Len(m_order) /\ Len(m_order) \in Nat
  BY AnalysisPaths, ReadyOrder
<1>2. I \in SUBSET (1 .. Len(analysisOrder))
  OBVIOUS
<1>3. implementationOrder = Subsequence(analysisOrder, I)
  BY DEF implementationOrder
<1>4. \A k : k \in I <=> k \in 1 .. Len(m_order) /\ ~isInterface(analysisOrder[k])
  BY <1>1
<1> HIDE DEF I
<1>5. /\ implementationOrder \in Seq(Path) /\ Len(implementationOrder) = Cardinality(I)
      /\ Cardinality(I) \in Nat
  BY <1>1, <1>2, <1>3, SubsequencePositions
<1>6. PICK e \in [1 .. Cardinality(I) -> I] :
         /\ \A m \in 1 .. Cardinality(I) : implementationOrder[m] = analysisOrder[e[m]]
         /\ \A m, n \in 1 .. Cardinality(I) : e[m] = e[n] => m = n
         /\ \A k \in I : \E m \in 1 .. Cardinality(I) : e[m] = k
  BY <1>1, <1>2, <1>3, SubsequencePositions
<1>7. PICK N : N = NewSources
  OBVIOUS
<1>8. /\ N \in SUBSET (1 .. Len(implementationOrder)) /\ added = Subsequence(implementationOrder, N)
      /\ \A m : m \in N <=> m \in 1 .. Cardinality(I) /\ ~KnownIn(implementationOrder[m], sources)
  BY <1>5, <1>7 DEF NewSources
<1> HIDE DEF added
<1>9. /\ added \in Seq(Path) /\ Len(added) = Cardinality(N) /\ Cardinality(N) \in Nat
  BY <1>5, <1>8, SubsequencePositions
<1>10. PICK f \in [1 .. Cardinality(N) -> N] :
         /\ \A m \in 1 .. Cardinality(N) : added[m] = implementationOrder[f[m]]
         /\ \A m, n \in 1 .. Cardinality(N) : f[m] = f[n] => m = n
         /\ \A k \in N : \E m \in 1 .. Cardinality(N) : f[m] = k
  BY <1>5, <1>8, SubsequencePositions
<1> DEFINE L == Len(added)
           g == [m \in 1 .. L |-> e[f[m]]]
<1>11. ASSUME NEW m \in 1 .. L
       PROVE  /\ f[m] \in N /\ f[m] \in 1 .. Cardinality(I) /\ e[f[m]] \in I
              /\ added[m] = analysisOrder[e[f[m]]]
              /\ ~KnownIn(analysisOrder[e[f[m]]], sources)
  <2>1. f[m] \in N
    BY <1>9, <1>10
  <2>2. f[m] \in 1 .. Cardinality(I) /\ ~KnownIn(implementationOrder[f[m]], sources)
    BY <1>8, <2>1
  <2>3. added[m] = implementationOrder[f[m]]
    BY <1>9, <1>10
  <2> QED
    BY <1>6, <2>1, <2>2, <2>3
<1>12. g \in [1 .. L -> 1 .. Len(m_order)] /\ \A m \in 1 .. L : g[m] = e[f[m]]
  BY <1>4, <1>11
<1>13. \A m \in 1 .. L : /\ added[m] = analysisOrder[g[m]] /\ ~isInterface(analysisOrder[g[m]])
                         /\ ~KnownIn(analysisOrder[g[m]], sources)
  BY <1>4, <1>11, <1>12
<1>14. ASSUME NEW m \in 1 .. L, NEW n \in 1 .. L, g[m] = g[n] PROVE m = n
  <2>1. e[f[m]] = e[f[n]] /\ f[m] \in 1 .. Cardinality(I) /\ f[n] \in 1 .. Cardinality(I)
    BY <1>11, <1>12, <1>14
  <2>2. f[m] = f[n]
    BY <1>6, <2>1
  <2> QED
    BY <1>9, <1>10, <2>2
<1>15. ASSUME NEW k \in 1 .. Len(m_order), ~isInterface(analysisOrder[k]),
              ~KnownIn(analysisOrder[k], sources)
       PROVE  \E m \in 1 .. L : g[m] = k
  <2>1. k \in I
    BY <1>4, <1>15
  <2>2. PICK n \in 1 .. Cardinality(I) : e[n] = k
    BY <1>6, <2>1
  <2>3. n \in N
    BY <1>6, <1>8, <1>15, <2>2
  <2>4. PICK m \in 1 .. Cardinality(N) : f[m] = n
    BY <1>10, <2>3
  <2> QED
    BY <1>9, <1>12, <2>2, <2>4
<1> HIDE DEF g
<1> QED
  BY <1>9, <1>12, <1>13, <1>14, <1>15 DEF added

\* The roots of a finished discovery are nodes of their own kind.
LEMMA RootNodes ==
    ASSUME IInv, Provenance, Kinds, phase = "ready", NEW k \in 1 .. Len(roots)
    PROVE  \E i \in Ids : /\ FileOf(i) = disk.at[roots[k]] /\ FileOf(i) \in Inode
                          /\ m_graph[i].is_interface = isInterface(roots[k])
<1> USE DEF IInv, Structure
<1>1. k < next_root
  BY DEF Provenance, RootsFollow, TypeOK
<1>2. PICK i \in Loaded : FileOf(i) = disk.at[roots[k]]
  BY <1>1 DEF Provenance, RootsFollow, FilesOf
<1>3. i \in Ids /\ FileOf(i) \in Inode
  BY <1>2 DEF Loaded, FilesRead, FileOf
<1>4. m_graph[i].is_interface = isInterface(roots[k])
  BY <1>1, <1>2, <1>3 DEF Kinds, RootKinds
<1> QED
  BY <1>2, <1>3, <1>4

\* The list a build goes on with names every implementation of the graph
\* exactly once, in whatever order and under whatever names the manifest does.
LEMMA PlanListsOnce ==
    ASSUME IInv, Provenance, Kinds, phase = "ready", DriverTypes,
           sources = roots, SourcesAccepted(sources),
           sources' = AllSources, disk' = disk, m_graph' = m_graph
    PROVE  ListedOnce' /\ sources' \in Seq(Path)
<1>1. PICK S : S = sources
  OBVIOUS
<1>2. PICK A : A = Subsequence(implementationOrder, NewSources)
  OBVIOUS
<1>3. /\ A \in Seq(Path)
      /\ \E g \in [1 .. Len(A) -> 1 .. Len(m_order)] :
            /\ \A m \in 1 .. Len(A) :
                  /\ A[m] = analysisOrder[g[m]] /\ ~isInterface(analysisOrder[g[m]])
                  /\ ~KnownIn(analysisOrder[g[m]], S)
            /\ \A m, n \in 1 .. Len(A) : g[m] = g[n] => m = n
            /\ \A k \in 1 .. Len(m_order) :
                  ~isInterface(analysisOrder[k]) /\ ~KnownIn(analysisOrder[k], S) =>
                     \E m \in 1 .. Len(A) : g[m] = k
  BY <1>1, <1>2, AddedSources
<1>4. PICK g \in [1 .. Len(A) -> 1 .. Len(m_order)] :
            /\ \A m \in 1 .. Len(A) :
                  /\ A[m] = analysisOrder[g[m]] /\ ~isInterface(analysisOrder[g[m]])
                  /\ ~KnownIn(analysisOrder[g[m]], S)
            /\ \A m, n \in 1 .. Len(A) : g[m] = g[n] => m = n
            /\ \A k \in 1 .. Len(m_order) :
                  ~isInterface(analysisOrder[k]) /\ ~KnownIn(analysisOrder[k], S) =>
                     \E m \in 1 .. Len(A) : g[m] = k
  BY <1>3
<1>5. S \in Seq(Path) /\ Len(S) \in Nat /\ Len(A) \in Nat /\ A \in Seq(Path)
  BY <1>1, <1>3 DEF DriverTypes
<1>6. /\ \A k \in 1 .. Len(m_order) :
            /\ analysisOrder[k] = m_graph[m_order[k]].path
            /\ disk.at[analysisOrder[k]] = FileOf(m_order[k])
            /\ FileOf(m_order[k]) \in Inode /\ m_order[k] \in Ids
            /\ isInterface(analysisOrder[k]) = m_graph[m_order[k]].is_interface
      /\ \A j, k \in 1 .. Len(m_order) : FileOf(m_order[j]) = FileOf(m_order[k]) => j = k
      /\ \A i \in Ids : \E k \in 1 .. Len(m_order) : m_order[k] = i
  BY AnalysisPaths, ReadyOrder DEF Kinds, NodeKinds
<1>7. sources' = S \o A
  BY <1>1, <1>2 DEF AllSources
<1>8. /\ S \o A \in Seq(Path) /\ Len(S \o A) = Len(S) + Len(A)
      /\ \A k \in 1 .. Len(S) : (S \o A)[k] = S[k]
      /\ \A m \in 1 .. Len(A) : (S \o A)[Len(S) + m] = A[m]
  <2>1. /\ S \o A \in Seq(Path) /\ Len(S \o A) = Len(S) + Len(A)
        /\ \A k \in 1 .. Len(S) + Len(A) :
              (S \o A)[k] = IF k <= Len(S) THEN S[k] ELSE A[k - Len(S)]
    BY <1>5, ConcatProperties
  <2> QED
    BY <1>5, <2>1
<1>9. \A k \in 1 .. Len(S) : \E i \in Ids :
         FileOf(i) = disk.at[S[k]] /\ ~m_graph[i].is_interface /\ disk.at[S[k]] \in Inode
  BY <1>1, RootNodes DEF SourcesAccepted
<1>10. \A j, k \in 1 .. Len(S) : disk.at[S[j]] = disk.at[S[k]] => j = k
  <2> SUFFICES ASSUME NEW j \in 1 .. Len(S), NEW k \in 1 .. Len(S), disk.at[S[j]] = disk.at[S[k]]
               PROVE  j = k
    OBVIOUS
  <2>1. samePath(S[j], S[k]) /\ samePath(S[k], S[j])
    BY <1>9, SamePathSameFile
  <2>2. ~(j < k) /\ ~(k < j)
    BY <1>1, <2>1 DEF SourcesAccepted
  <2> QED
    BY <1>5, <2>2
<1>11. ASSUME NEW m \in 1 .. Len(A)
       PROVE  /\ disk.at[A[m]] = FileOf(m_order[g[m]]) /\ m_order[g[m]] \in Ids
              /\ ~m_graph[m_order[g[m]]].is_interface
              /\ \A k \in 1 .. Len(S) : disk.at[S[k]] # disk.at[A[m]]
  <2>1. g[m] \in 1 .. Len(m_order) /\ A[m] = analysisOrder[g[m]]
        /\ ~isInterface(analysisOrder[g[m]]) /\ ~KnownIn(analysisOrder[g[m]], S)
    BY <1>4
  <2>2. \A k \in 1 .. Len(S) : ~samePath(A[m], S[k])
    BY <2>1 DEF KnownIn
  <2> QED
    BY <1>6, <2>1, <2>2, SamePathSameFile
<1>12. ASSUME NEW m \in 1 .. Len(A), NEW n \in 1 .. Len(A), disk.at[A[m]] = disk.at[A[n]]
       PROVE  m = n
  <2>1. g[m] \in 1 .. Len(m_order) /\ g[n] \in 1 .. Len(m_order)
    BY <1>4
  <2>2. FileOf(m_order[g[m]]) = FileOf(m_order[g[n]])
    BY <1>11, <1>12
  <2>3. g[m] = g[n]
    BY <1>6, <2>1, <2>2
  <2> QED
    BY <1>4, <2>3
<1>13. PICK B : B = S \o A
  OBVIOUS
<1>14. \A k \in 1 .. Len(B) :
         \/ k \in 1 .. Len(S) /\ B[k] = S[k]
         \/ \E m \in 1 .. Len(A) : k = Len(S) + m /\ B[k] = A[m]
  <2> SUFFICES ASSUME NEW k \in 1 .. Len(B)
               PROVE  \/ k \in 1 .. Len(S) /\ B[k] = S[k]
                      \/ \E m \in 1 .. Len(A) : k = Len(S) + m /\ B[k] = A[m]
    OBVIOUS
  <2>1. CASE k <= Len(S)
    BY <1>5, <1>8, <1>13, <2>1
  <2>2. CASE ~(k <= Len(S))
    <3>1. k - Len(S) \in 1 .. Len(A) /\ k = Len(S) + (k - Len(S))
      BY <1>5, <1>8, <1>13, <2>2
    <3> QED
      BY <1>8, <1>13, <3>1
  <2> QED
    BY <2>1, <2>2
<1>15. ASSUME NEW j \in 1 .. Len(B), NEW k \in 1 .. Len(B), disk.at[B[j]] = disk.at[B[k]]
       PROVE  j = k
  <2>1. CASE j \in 1 .. Len(S) /\ B[j] = S[j] /\ k \in 1 .. Len(S) /\ B[k] = S[k]
    BY <1>10, <1>15, <2>1
  <2>2. CASE \E m \in 1 .. Len(A) : j = Len(S) + m /\ B[j] = A[m]
    <3>1. PICK m \in 1 .. Len(A) : j = Len(S) + m /\ B[j] = A[m]
      BY <2>2
    <3>2. PICK n \in 1 .. Len(A) : k = Len(S) + n /\ B[k] = A[n]
      BY <1>11, <1>14, <1>15, <3>1
    <3> QED
      BY <1>12, <1>15, <3>1, <3>2
  <2>3. CASE \E m \in 1 .. Len(A) : k = Len(S) + m /\ B[k] = A[m]
    <3>1. PICK m \in 1 .. Len(A) : k = Len(S) + m /\ B[k] = A[m]
      BY <2>3
    <3>2. PICK n \in 1 .. Len(A) : j = Len(S) + n /\ B[j] = A[n]
      BY <1>11, <1>14, <1>15, <3>1
    <3> QED
      BY <1>12, <1>15, <3>1, <3>2
  <2> QED
    BY <1>14, <2>1, <2>2, <2>3
<1>16. ASSUME NEW k \in 1 .. Len(B)
       PROVE  \E i \in Ids : FileOf(i) = disk.at[B[k]] /\ ~m_graph[i].is_interface
  <2>1. CASE k \in 1 .. Len(S) /\ B[k] = S[k]
    BY <1>9, <2>1
  <2>2. CASE \E m \in 1 .. Len(A) : k = Len(S) + m /\ B[k] = A[m]
    <3>1. PICK m \in 1 .. Len(A) : B[k] = A[m]
      BY <2>2
    <3> QED
      BY <1>11, <3>1
  <2> QED
    BY <1>14, <2>1, <2>2
<1>17. ASSUME NEW i \in Ids, ~m_graph[i].is_interface
       PROVE  \E k \in 1 .. Len(B) : FileOf(i) = disk.at[B[k]]
  <2>1. PICK q \in 1 .. Len(m_order) : m_order[q] = i
    BY <1>6
  <2>2. ~isInterface(analysisOrder[q]) /\ disk.at[analysisOrder[q]] = FileOf(i) /\ FileOf(i) \in Inode
    BY <1>6, <1>17, <2>1
  <2>3. CASE KnownIn(analysisOrder[q], S)
    <3>1. PICK k \in 1 .. Len(S) : samePath(analysisOrder[q], S[k])
      BY <2>3 DEF KnownIn
    <3>2. disk.at[S[k]] = FileOf(i)
      BY <2>2, <3>1, SamePathSameFile
    <3>3. k \in 1 .. Len(B) /\ B[k] = S[k]
      BY <1>5, <1>8, <1>13
    <3> QED
      BY <3>2, <3>3
  <2>4. CASE ~KnownIn(analysisOrder[q], S)
    <3>1. PICK m \in 1 .. Len(A) : g[m] = q
      BY <1>4, <2>2, <2>4
    <3>2. disk.at[A[m]] = FileOf(i)
      BY <1>11, <2>1, <3>1
    <3>3. Len(S) + m \in 1 .. Len(B) /\ B[Len(S) + m] = A[m]
      BY <1>5, <1>8, <1>13
    <3> QED
      BY <3>2, <3>3
  <2> QED
    BY <2>3, <2>4
<1>18. sources' = B /\ Ids' = Ids /\ \A i : FileOf(i)' = FileOf(i)
  BY <1>7, <1>13 DEF Ids, FileOf
<1>19. ListedOnce'
  <2>1. /\ \A j, k \in 1 .. Len(B) : disk.at[B[j]] = disk.at[B[k]] => j = k
        /\ \A k \in 1 .. Len(B) : \E i \in Ids :
              FileOf(i) = disk.at[B[k]] /\ ~m_graph[i].is_interface
        /\ \A i \in Ids : ~m_graph[i].is_interface =>
              \E k \in 1 .. Len(B) : FileOf(i) = disk.at[B[k]]
    BY <1>15, <1>16, <1>17
  <2>2. disk' = disk /\ m_graph' = m_graph
    OBVIOUS
  <2>3. \A j, k \in 1 .. Len(sources') : disk'.at[sources'[j]] = disk'.at[sources'[k]] => j = k
    BY <1>18, <2>1, <2>2
  <2>4. \A k \in 1 .. Len(sources') : \E i \in Ids' :
           FileOf(i)' = disk'.at[sources'[k]] /\ ~m_graph'[i].is_interface
    BY <1>18, <2>1, <2>2 DEF FileOf
  <2>5. \A i \in Ids' : ~m_graph'[i].is_interface =>
           \E k \in 1 .. Len(sources') : FileOf(i)' = disk'.at[sources'[k]]
    BY <1>18, <2>1, <2>2 DEF FileOf
  <2> QED
    BY <2>3, <2>4, <2>5 DEF ListedOnce
<1> QED
  BY <1>7, <1>8, <1>19

\* A file that is compiled alone is the last unit of the analysis order.
LEMMA PlanInputLast ==
    ASSUME IInv, Provenance, phase = "ready", DriverTypes, sources = roots, Len(sources) = 1
    PROVE  InputLast
<1> USE DEF IInv, Structure
<1>1. sources \in Seq(Path) /\ sources[1] \in Path /\ 1 \in 1 .. Len(roots)
  BY DEF DriverTypes
<1>2. PICK r : r = findFile(sources[1])
  OBVIOUS
<1>3. GraphIsImportRelation
  BY ReadyGraph
<1>4. r \in Ids
  BY <1>1, <1>2, <1>3 DEF GraphIsImportRelation, Loaded
<1>5. Ids = gather(r)
  <2>1. {gather(findFile(roots[k])) : k \in 1 .. Len(roots)} = {gather(r)}
    BY <1>1, <1>2
  <2> QED
    BY <1>3, <2>1 DEF GraphIsImportRelation
<1>6. FileOf(r) = disk.at[sources[1]]
  <2>1. disk.at[sources[1]] \in FilesOf(Loaded)
    BY <1>1 DEF Provenance, RootsFollow, TypeOK
  <2>2. PICK i \in Ids : disk.at[sources[1]] = FileOf(i)
    BY <2>1 DEF FilesOf, Loaded
  <2> QED
    BY <1>1, <1>2, <2>2, FindFileFound
<1>7. /\ Len(m_order) \in Nat /\ \A k \in 1 .. Len(m_order) : m_order[k] \in Ids
      /\ \A j, k \in 1 .. Len(m_order) : m_order[j] = m_order[k] => j = k
      /\ \A k \in 1 .. Len(m_order) :
            \A d \in gather(m_order[k]) \ {m_order[k]} :
                \E j \in 1 .. Len(m_order) : j < k /\ m_order[j] = d
  BY ReadyOrder
<1>8. PICK k \in 1 .. Len(m_order) : m_order[k] = r
  BY <1>4, ReadyOrder
<1>9. k = Len(m_order)
  <2>1. SUFFICES ASSUME k # Len(m_order) PROVE FALSE
    OBVIOUS
  <2>2. Len(m_order) \in 1 .. Len(m_order) /\ k < Len(m_order)
    BY <1>7, <2>1
  <2>3. m_order[Len(m_order)] \in gather(m_order[k]) \ {m_order[k]}
    BY <1>5, <1>7, <1>8, <2>1, <2>2
  <2>4. PICK j \in 1 .. Len(m_order) : j < k /\ m_order[j] = m_order[Len(m_order)]
    BY <1>7, <2>3
  <2>5. j = Len(m_order)
    BY <1>7, <2>2, <2>4
  <2> QED
    BY <1>7, <2>2, <2>4, <2>5
<1>10. Len(m_order) > 0
  BY <1>7, <1>8
<1> QED
  BY <1>5, <1>6, <1>8, <1>9, <1>10 DEF InputLast

-----------------------------------------------------------------------------
\* The outputs of a build: one object for each source, the binary and, if it
\* was asked for, the listing.
LEMMA OutputNames ==
    ASSUME NEW list \in Seq(Path), layout \in Layouts, Len(list) <= Len(layout.objects)
    PROVE  LET outs == Outputs(list) IN
           /\ outs \in Seq(Path)
           /\ Len(list) \in Nat /\ Len(outs) > Len(list)
           /\ \A k \in 1 .. Len(list) : outs[k] = layout.objects[k] /\ layout.objects[k] \in Path
           /\ outs[Len(list) + 1] = layout.binary
           /\ layout.assembly # NoCall =>
                 Len(list) + 2 \in 1 .. Len(outs) /\ outs[Len(list) + 2] = layout.assembly
<1> DEFINE n == Len(list)
           objects == Objects(list)
           rest == IF layout.assembly = NoCall THEN <<>> ELSE <<layout.assembly>>
<1>1. /\ n \in Nat /\ layout.objects \in Seq(Path) /\ Len(layout.objects) \in Nat
      /\ layout.binary \in Path /\ layout.assembly \in Path \cup {NoCall}
  BY BuildAssumption
<1>2. \A k \in 1 .. n : layout.objects[k] \in Path
  BY <1>1
<1>3. objects \in [1 .. n -> Path] /\ \A k \in 1 .. n : objects[k] = layout.objects[k]
  BY <1>2 DEF Objects
<1>4. objects \in Seq(Path) /\ Len(objects) = n
  BY <1>1, <1>3, IsASeq, LenProperties
<1>5. rest \in Seq(Path) /\ (layout.assembly # NoCall => Len(rest) = 1 /\ rest[1] = layout.assembly)
      /\ Len(rest) \in Nat
  <2>1. CASE layout.assembly = NoCall
    BY <2>1
  <2>2. CASE layout.assembly # NoCall
    BY <1>1, <2>2
  <2> QED
    BY <2>1, <2>2
<1>6. PICK o, r : o = objects /\ r = rest
  OBVIOUS
<1>7. Outputs(list) = (o \o <<layout.binary>>) \o r
  BY <1>6 DEF Outputs
<1> HIDE DEF objects, rest, n
<1>8. /\ o \in Seq(Path) /\ Len(o) = n /\ n \in Nat
      /\ \A k \in 1 .. n : o[k] = layout.objects[k]
      /\ r \in Seq(Path) /\ Len(r) \in Nat
      /\ layout.assembly # NoCall => Len(r) = 1 /\ r[1] = layout.assembly
  BY <1>1, <1>3, <1>4, <1>5, <1>6
<1>9. PICK b : b = layout.binary
  OBVIOUS
<1>10. b \in Path
  BY <1>1, <1>9
<1>11. PICK ob : ob = o \o <<b>>
  OBVIOUS
<1>12. /\ ob \in Seq(Path) /\ Len(ob) = n + 1 /\ ob[n + 1] = b
       /\ \A k \in 1 .. n : ob[k] = o[k]
  <2>1. ob = Append(o, b)
    BY <1>8, <1>10, <1>11, AppendIsConcat
  <2>2. /\ Append(o, b) \in Seq(Path) /\ Len(Append(o, b)) = Len(o) + 1
        /\ \A k \in 1 .. Len(o) : Append(o, b)[k] = o[k]
        /\ Append(o, b)[Len(o) + 1] = b
    BY <1>8, <1>10, AppendProperties
  <2> QED
    BY <1>8, <2>1, <2>2
<1>13. PICK outs : outs = ob \o r
  OBVIOUS
<1>14. /\ outs \in Seq(Path) /\ Len(outs) = n + 1 + Len(r)
       /\ \A k \in 1 .. n + 1 : outs[k] = ob[k]
       /\ Len(r) = 1 => outs[n + 2] = r[1]
  <2>1. /\ ob \o r \in Seq(Path) /\ Len(ob \o r) = Len(ob) + Len(r)
        /\ \A k \in 1 .. Len(ob) + Len(r) :
              (ob \o r)[k] = IF k <= Len(ob) THEN ob[k] ELSE r[k - Len(ob)]
    <3>1. ob \in Seq(Path) /\ r \in Seq(Path)
      BY <1>8, <1>12
    <3> QED
      BY ONLY <3>1, ConcatProperties
  <2>2. \A k \in 1 .. n + 1 : k \in 1 .. Len(ob) + Len(r) /\ k <= Len(ob)
    BY <1>8, <1>12
  <2>3. Len(r) = 1 => n + 2 \in 1 .. Len(ob) + Len(r) /\ ~(n + 2 <= Len(ob)) /\ n + 2 - Len(ob) = 1
    BY <1>8, <1>12
  <2> QED
    BY <1>12, <1>13, <2>1, <2>2, <2>3
<1>15. Outputs(list) = outs
  BY <1>7, <1>9, <1>11, <1>13
<1>16. /\ Len(outs) > n /\ n + 1 \in 1 .. n + 1 /\ \A k \in 1 .. n : k \in 1 .. n + 1
       /\ Len(r) = 1 => n + 2 \in 1 .. Len(outs)
  BY <1>8, <1>14
<1>17. /\ \A k \in 1 .. n : outs[k] = layout.objects[k] /\ layout.objects[k] \in Path
       /\ outs[n + 1] = layout.binary
       /\ layout.assembly # NoCall => n + 2 \in 1 .. Len(outs) /\ outs[n + 2] = layout.assembly
  BY <1>2, <1>8, <1>9, <1>12, <1>14, <1>16 DEF n
<1> QED
  BY <1>8, <1>14, <1>15, <1>16, <1>17 DEF n

\* Hence, in a build, what may be written.
LEMMA BuildTargets ==
    ASSUME IInv, Kinds, DriverTypes, ListedOnce
    PROVE  /\ \A k \in 1 .. Len(sources) : layout.objects[k] \in Targets
           /\ layout.binary \in Targets /\ (layout.assembly # NoCall => layout.assembly \in Targets)
           /\ Targets \subseteq Path
           /\ \A k \in 1 .. Len(sources) : k \in 1 .. Len(Outputs(sources))
                                           /\ Outputs(sources)[k] = layout.objects[k]
<1>1. sources \in Seq(Path) /\ layout \in Layouts /\ Len(sources) <= Len(layout.objects)
  BY ObjectForEach DEF DriverTypes
<1>2. PICK outs : outs = Outputs(sources)
  OBVIOUS
<1>3. /\ outs \in Seq(Path)
      /\ Len(sources) \in Nat /\ Len(outs) > Len(sources)
      /\ \A k \in 1 .. Len(sources) : outs[k] = layout.objects[k]
      /\ outs[Len(sources) + 1] = layout.binary
      /\ layout.assembly # NoCall =>
            Len(sources) + 2 \in 1 .. Len(outs) /\ outs[Len(sources) + 2] = layout.assembly
  BY <1>1, <1>2, OutputNames
<1>4. Targets = {outs[k] : k \in 1 .. Len(outs)}
  BY <1>2 DEF Targets
<1>5. /\ Len(outs) \in Nat /\ \A k \in 1 .. Len(sources) : k \in 1 .. Len(outs)
      /\ Len(sources) + 1 \in 1 .. Len(outs)
  BY <1>3
<1>6. Targets \subseteq Path
  BY <1>3, <1>4
<1> QED
  BY <1>2, <1>3, <1>4, <1>5, <1>6

\* The test of the outputs covers every file of the graph and every source.
LEMMA PlanOutputsSafe ==
    ASSUME OutputsAccepted(AllSources), sources' = AllSources,
           disk' = disk, m_graph' = m_graph, layout' = layout
    PROVE  OutputsSafe'
<1>1. PICK list : list = AllSources
  OBVIOUS
<1>2. PICK outs : outs = Outputs(list)
  OBVIOUS
<1>3. /\ \A k \in 1 .. Len(outs) : ~samePath(outs[k], layout.manifest)
      /\ \A j, k \in 1 .. Len(outs) : j < k => ~samePath(outs[j], outs[k])
      /\ \A k \in 1 .. Len(outs), p \in sourcePaths : ~samePath(p, outs[k])
  BY <1>1, <1>2 DEF OutputsAccepted
<1>4. Outputs(sources)' = outs /\ sourcePaths' = sourcePaths
  BY <1>1, <1>2 DEF Outputs, Objects, sourcePaths, Ids
<1>5. Targets' = {outs[k] : k \in 1 .. Len(outs)}
  BY <1>4 DEF Targets
<1>6. ASSUME NEW j \in 1 .. Len(outs), NEW k \in 1 .. Len(outs), outs[j] = outs[k] PROVE j = k
  <2>1. samePath(outs[j], outs[k]) /\ samePath(outs[k], outs[j])
    BY <1>6 DEF samePath, SameFile
  <2>2. ~(j < k) /\ ~(k < j)
    BY <1>3, <2>1
  <2> QED
    BY <2>2
<1>7. ASSUME NEW w \in Targets'
      PROVE  ~samePath(w, layout.manifest) /\ \A p \in sourcePaths : ~samePath(w, p)
  <2>1. PICK k \in 1 .. Len(outs) : w = outs[k]
    BY <1>5
  <2> QED
    BY <1>3, <2>1, SamePathSymmetric
<1> QED
  BY <1>4, <1>6, <1>7 DEF OutputsSafe, samePath, SameFile

-----------------------------------------------------------------------------
\* The steps of the drivers.

\* A driver that stops with an error writes nothing more.
LEMMA FailedExit ==
    ASSUME DriverInv, Exit(1), UNCHANGED <<disk, m_graph, error>>
    PROVE  DriverInv'
<1>1. /\ step' = "done" /\ status' = 1
      /\ UNCHANGED <<mode, check, target, layout, sources, unit, stage, content, written>>
  BY DEF Exit
<1>2. sourcePaths' = sourcePaths
  BY DEF sourcePaths, Ids
<1>3. DriverTypes'
  BY <1>1 DEF DriverInv, DriverTypes
<1>4. Preparing' /\ Planned' /\ OutputsSafe' /\ UnitLoop' /\ Emitted' /\ Ended'
  BY <1>1 DEF Preparing, Planned, OutputsSafe, UnitLoop, Emitted, Ended, Compiling
<1>5. NoLogicError'
  BY <1>1 DEF DriverInv, NoLogicError, DriversKeepProtocol, Compiling
<1>6. InputsPreserved'
  BY <1>1, <1>2 DEF DriverInv, InputsPreserved, samePath, SameFile
<1> QED
  BY <1>3, <1>4, <1>5, <1>6 DEF DriverInv

\* Steps that leave the graph, the list and the layout alone keep the plan.
LEMMA PlanKept ==
    ASSUME Planned, OutputsSafe, Compiling' => Compiling,
           UNCHANGED <<disk, m_graph, m_order, sources, layout, mode, check>>
    PROVE  Planned' /\ OutputsSafe'
<1>1. Ids' = Ids /\ (\A i : FileOf(i)' = FileOf(i)) /\ sourcePaths' = sourcePaths
  BY DEF Ids, FileOf, sourcePaths
<1>2. ListedOnce' = ListedOnce
  BY <1>1 DEF ListedOnce
<1>3. InputLast' = InputLast
  <2>1. \A i : gather(i)' = gather(i)
    BY <1>1 DEF gather, ClosedUnderDependencies
  <2> QED
    BY <1>1, <2>1 DEF InputLast
<1>4. Planned'
  BY <1>2, <1>3 DEF Planned
<1>5. Outputs(sources)' = Outputs(sources) /\ Targets' = Targets
  BY DEF Outputs, Objects, Targets
<1>6. OutputsSafe'
  BY <1>1, <1>5 DEF OutputsSafe, samePath, SameFile
<1> QED
  BY <1>4, <1>6

\* The arguments are accepted and prepare is entered.
LEMMA StartKeeps ==
    ASSUME BuildInv, Start
    PROVE  DriverInv' /\ Kinds'
<1>1. PICK rs \in RootLists, dirs \in SearchLists :
         /\ IF mode = "build" THEN SourcesAccepted(rs) /\ (target = "gsu" \/ check)
                              ELSE Len(rs) = 1
         /\ prepare(rs, dirs) /\ sources' = rs
  BY DEF Start
<1>2. /\ step = "start" /\ step' = "discover"
      /\ UNCHANGED <<mode, check, target, layout, unit, stage, content, written, status>>
  BY DEF Start, fixed
<1>3. /\ Blank' /\ disk' = disk
      /\ phase' # "idle" => error' = "none" /\ roots' = rs
      /\ error' \in {"none", "roots"}
  BY <1>1 DEF prepare, ClearTables, Blank, TablesEmpty
<1>4. Kinds' /\ Untouched'
  BY <1>3, BlankKinds, PTL
<1>5. rs \in Seq(Path)
  BY LoaderAssumption
<1>6. DriverTypes'
  BY <1>1, <1>2, <1>5 DEF BuildInv, DriverInv, DriverTypes
<1>7. Preparing'
  <2>1. SourcesAccepted(rs) => SourcesAccepted(sources)'
    BY <1>1, <1>3 DEF SourcesAccepted, samePath, SameFile, isInterface
  <2>2. written' = {} /\ unit' = 1
    BY <1>2 DEF BuildInv, DriverInv, Preparing
  <2> QED
    BY <1>1, <1>2, <1>3, <1>4, <2>1, <2>2 DEF Preparing
<1>8. Planned' /\ OutputsSafe' /\ UnitLoop' /\ Emitted' /\ Ended'
  BY <1>2 DEF Planned, OutputsSafe, UnitLoop, Emitted, Ended, Compiling
<1>9. NoLogicError'
  BY <1>2, <1>3 DEF NoLogicError, DriversKeepProtocol, Compiling
<1>10. InputsPreserved'
  BY <1>7, <1>2 DEF Preparing, InputsPreserved
<1> QED
  BY <1>4, <1>6, <1>7, <1>8, <1>9, <1>10 DEF DriverInv

\* Discovery goes on.
LEMMA DiscoverKeeps ==
    ASSUME BuildInv, Discover
    PROVE  DriverInv' /\ Kinds'
<1>1. step = "discover" /\ Discovery
      /\ UNCHANGED <<mode, check, target, layout, step, sources, unit, stage, content, written, status>>
  BY DEF Discover, driver
<1>2. /\ Kinds' /\ (Untouched => Untouched')
      /\ phase = "discover" /\ disk' = disk
      /\ phase' # "idle" => error' = "none" /\ roots' = roots
      /\ error' \notin {"transfer", "dependencies", "publish", "unlisted"}
  BY <1>1, DiscoveryStep DEF BuildInv
<1>3. DriverTypes'
  BY <1>1 DEF BuildInv, DriverInv, DriverTypes
<1>4. Preparing'
  <2>1. written = {} /\ Untouched /\ unit = 1 /\ sources = roots
        /\ IF mode = "build" THEN SourcesAccepted(sources) ELSE Len(sources) = 1
    BY <1>1, <1>2 DEF BuildInv, DriverInv, Preparing
  <2>2. SourcesAccepted(sources)' = SourcesAccepted(sources)
    BY <1>1, <1>2 DEF SourcesAccepted, samePath, SameFile, isInterface
  <2> QED
    BY <1>1, <1>2, <2>1, <2>2 DEF Preparing
<1>5. Planned' /\ OutputsSafe' /\ UnitLoop' /\ Emitted' /\ Ended'
  BY <1>1 DEF Planned, OutputsSafe, UnitLoop, Emitted, Ended, Compiling
<1>6. NoLogicError'
  BY <1>1, <1>2 DEF NoLogicError, DriversKeepProtocol, Compiling
<1>7. InputsPreserved'
  BY <1>1, <1>4 DEF Preparing, InputsPreserved
<1> QED
  BY <1>2, <1>3, <1>4, <1>5, <1>6, <1>7 DEF DriverInv

\* Discovery has succeeded and the unit loop begins.
LEMMA PlanKeeps ==
    ASSUME BuildInv, Plan
    PROVE  DriverInv'
<1> USE DEF BuildInv
<1>1. /\ step = "discover" /\ phase = "ready"
      /\ mode = "build" => check \/ OutputsAccepted(AllSources)
      /\ sources' = IF mode = "build" THEN AllSources ELSE sources
      /\ step' = "units" /\ unit' = 1 /\ stage' = "take"
      /\ UNCHANGED <<mode, check, target, layout, content, written, status>>
  BY DEF Plan, fixed
<1>2. UNCHANGED <<disk, phase, error, m_graph, m_records, m_order>>
  BY DEF Plan, vars, tables
<1>3. /\ written = {} /\ Untouched /\ error = "none" /\ sources = roots
      /\ IF mode = "build" THEN SourcesAccepted(sources) ELSE Len(sources) = 1
      /\ DriverTypes
  BY <1>1 DEF DriverInv, Preparing
<1>4. Compiling'
  BY <1>1 DEF Compiling
<1>5. sources' \in Seq(Path) /\ Planned'
  <2>1. CASE mode = "build"
    <3>1. ListedOnce' /\ sources' \in Seq(Path)
      BY <1>1, <1>2, <1>3, <2>1, PlanListsOnce
    <3> QED
      BY <1>1, <2>1, <3>1 DEF Planned
  <2>2. CASE mode # "build"
    <3>1. InputLast
      BY <1>1, <1>3, <2>2, PlanInputLast
    <3>2. sources' = sources
      BY <1>1, <2>2
    <3>3. InputLast'
      BY <1>2, <3>1, <3>2 DEF InputLast, FileOf, Ids, gather, ClosedUnderDependencies
    <3> QED
      BY <1>1, <1>3, <2>2, <3>2, <3>3 DEF Planned, DriverTypes
  <2> QED
    BY <2>1, <2>2
<1>6. DriverTypes'
  BY <1>1, <1>3, <1>5 DEF DriverTypes
<1>7. Preparing' /\ Ended'
  BY <1>1 DEF Preparing, Ended
<1>8. OutputsSafe'
  <2>1. CASE mode = "build" /\ ~check
    BY <1>1, <1>2, <2>1, PlanOutputsSafe
  <2>2. CASE ~(mode = "build" /\ ~check)
    BY <1>1, <2>2 DEF OutputsSafe
  <2> QED
    BY <2>1, <2>2
<1>9. UnitLoop'
  <2>1. Len(m_order) \in Nat /\ \A k \in 1 .. Len(m_order) : m_order[k] \in Ids
    BY <1>1, ReadyOrder
  <2>2. \A k \in 1 .. Len(m_order) : ~m_records[m_order[k]].taken /\ ~m_records[m_order[k]].completed
    BY <1>3, <2>1 DEF Untouched
  <2>3. \A k \in 1 .. Len(m_order) : ~(k < 1)
    BY <2>1
  <2> QED
    BY <1>1, <1>2, <2>1, <2>2, <2>3 DEF UnitLoop
<1>10. Emitted'
  <2>1. Len(m_order) \in Nat
    BY <1>1, ReadyOrder
  <2>2. \A k \in 1 .. Len(m_order) : ~(k < 1)
    BY <2>1
  <2> QED
    BY <1>1, <1>2, <1>3, <2>2 DEF Emitted
<1>11. NoLogicError'
  BY <1>2, <1>3 DEF NoLogicError, DriversKeepProtocol
<1>12. InputsPreserved'
  BY <1>1, <1>3 DEF InputsPreserved
<1> QED
  BY <1>5, <1>6, <1>7, <1>8, <1>9, <1>10, <1>11, <1>12 DEF DriverInv

-----------------------------------------------------------------------------
\* Marking the record of the unit at hand advances its stage and nothing else.
LEMMA MarkUnit ==
    ASSUME BuildInv, step = "units", unit \in 1 .. Len(m_order),
           NEW s \in {"analyze", "backend"}, To(s),
           NEW rec \in Record,
           m_records' = [m_records EXCEPT ![m_order[unit]] = rec],
           rec.taken, rec.completed <=> s = "backend",
           UNCHANGED <<disk, phase, error, m_graph, m_order>>
    PROVE  DriverInv'
<1> USE DEF BuildInv
<1>1. /\ stage' = s
      /\ UNCHANGED <<mode, check, target, layout, step, sources, unit, content, written, status>>
  BY DEF To, fixed
<1>2. phase = "ready" /\ Compiling /\ Compiling'
  BY <1>1 DEF DriverInv, UnitLoop, Compiling
<1>3. /\ m_records \in Seq(Record) /\ Len(m_records) = Len(m_graph) /\ Len(m_order) \in Nat
      /\ \A k \in 1 .. Len(m_order) : m_order[k] \in Ids
      /\ \A j, k \in 1 .. Len(m_order) : m_order[j] = m_order[k] => j = k
  BY <1>2, ReadyOrder
<1>4. m_order[unit] \in DOMAIN m_records
  BY <1>3 DEF Ids
<1>5. /\ m_records'[m_order[unit]] = rec
      /\ \A k \in 1 .. Len(m_order) : k # unit => m_records'[m_order[k]] = m_records[m_order[k]]
  BY <1>3, <1>4
<1>6. DriverTypes'
  BY <1>1 DEF DriverInv, DriverTypes
<1>7. Preparing' /\ Ended'
  BY <1>1 DEF Preparing, Ended
<1>8. Planned' /\ OutputsSafe'
  BY <1>1, <1>2, PlanKept DEF DriverInv
<1>9. UnitLoop'
  <2>1. /\ unit <= Len(m_order) + 1
        /\ \A k \in 1 .. Len(m_order) :
              /\ k < unit => Published(m_order[k])
              /\ k > unit => ~m_records[m_order[k]].taken /\ ~m_records[m_order[k]].completed
    BY <1>2 DEF DriverInv, UnitLoop
  <2>2. s # "take"
    OBVIOUS
  <2>3. \A k \in 1 .. Len(m_order) :
           /\ k < unit => k # unit
           /\ k > unit => k # unit
    BY <1>3
  <2>4. ASSUME NEW k \in 1 .. Len(m_order)
        PROVE  /\ k < unit => m_records'[m_order[k]].taken /\ m_records'[m_order[k]].completed
               /\ k > unit => ~m_records'[m_order[k]].taken /\ ~m_records'[m_order[k]].completed
               /\ k = unit => /\ m_records'[m_order[k]].taken <=> s # "take"
                              /\ m_records'[m_order[k]].completed <=> s = "backend"
    <3>1. CASE k = unit
      BY <1>5, <2>2, <2>3, <3>1
    <3>2. CASE k # unit
      BY <1>5, <2>1, <3>2 DEF Published
    <3> QED
      BY <3>1, <3>2
  <2>5. step' # "link" /\ phase' = "ready" /\ unit' <= Len(m_order') + 1
    BY <1>1, <1>2, <2>1
  <2>6. m_order' = m_order
    OBVIOUS
  <2> QED
    BY <1>1, <2>4, <2>5, <2>6 DEF UnitLoop, Published
<1>10. Emitted'
  BY <1>1, <1>2 DEF DriverInv, Emitted, FileOf
<1>11. NoLogicError'
  BY <1>2 DEF DriverInv, NoLogicError, DriversKeepProtocol
<1>12. InputsPreserved'
  <2>1. sourcePaths' = sourcePaths
    BY DEF sourcePaths, Ids
  <2> QED
    BY <1>1, <2>1 DEF DriverInv, InputsPreserved, samePath, SameFile
<1> QED
  BY <1>6, <1>7, <1>8, <1>9, <1>10, <1>11, <1>12 DEF DriverInv

\* The loader hands out the unit at hand: it is loaded, it was not taken
\* before, and everything it imports lies behind the loop and is published.
LEMMA TakeSucceeds ==
    ASSUME BuildInv, UnitTake
    PROVE  /\ DriverInv' /\ \E path \in Path : take(path)
           /\ UNCHANGED <<m_graph, m_active, call, returned, roots, next_root>>
<1> USE DEF BuildInv
<1>1. step = "units" /\ unit <= Len(Units) /\ stage = "take"
  BY DEF UnitTake, AtUnit
<1>2. phase = "ready" /\ Compiling /\ error = "none" /\ DriverTypes /\ Planned
  BY <1>1 DEF DriverInv, UnitLoop, Compiling, NoLogicError
<1>3. /\ unit \in 1 .. Len(m_order) /\ Listed(Units[unit]) /\ UnitInput \in Path
      /\ UnitId = m_order[unit] /\ UnitId # Missing
  BY <1>1, <1>2, UnitAtHand
<1>4. PICK i : i = m_order[unit]
  OBVIOUS
<1>5. PICK p \in Path : p = UnitInput
  BY <1>3
<1>6. findFile(p) = i /\ i # Missing
  BY <1>3, <1>4, <1>5 DEF UnitId
<1>7. /\ m_records \in Seq(Record) /\ Len(m_records) = Len(m_graph)
      /\ \A k \in 1 .. Len(m_order) : m_order[k] \in Ids
      /\ Loaded = Ids
      /\ \A k \in 1 .. Len(m_order) : \A d \in gather(m_order[k]) \ {m_order[k]} :
            \E j \in 1 .. Len(m_order) : j < k /\ m_order[j] = d
  BY <1>2, ReadyOrder
<1>8. i \in Ids /\ m_records[i] \in Record /\ i \in DOMAIN m_records
  BY <1>3, <1>4, <1>7 DEF Ids
<1>9. m_records[i].loaded /\ ~m_records[i].taken /\ ~m_records[i].completed
  <2>1. m_records[i].loaded
    BY <1>7, <1>8 DEF Loaded
  <2>2. /\ m_records[i].taken <=> stage # "take"
        /\ m_records[i].completed <=> stage = "backend"
    BY <1>2, <1>3, <1>4 DEF DriverInv, UnitLoop
  <2> QED
    BY <1>1, <2>1, <2>2
<1>10. Transferable(i)
  BY <1>6, <1>9 DEF Transferable
<1>11. DependenciesAnalyzed(i)
  <2> SUFFICES ASSUME NEW d \in gather(i) \ {i} PROVE m_records[d].completed
    BY DEF DependenciesAnalyzed
  <2>1. PICK j \in 1 .. Len(m_order) : j < unit /\ m_order[j] = d
    BY <1>3, <1>4, <1>7
  <2>2. Published(m_order[j])
    BY <1>2, <2>1 DEF DriverInv, UnitLoop
  <2> QED
    BY <2>1, <2>2 DEF Published
<1>12. take(p)
  BY <1>3, <1>5 DEF UnitTake
<1>13. /\ m_records' = [m_records EXCEPT ![i] = [@ EXCEPT !.taken = TRUE]]
       /\ UNCHANGED <<disk, phase, error, roots, next_root, call, returned,
                      m_import_paths, m_graph, m_active, m_order, m_module_names,
                      m_alias_bindings, m_total_bytes>>
  BY <1>6, <1>10, <1>11, <1>12 DEF take
<1>14. To("analyze")
  BY <1>2, <1>13 DEF UnitTake
<1>15. PICK rec : rec = [m_records[i] EXCEPT !.taken = TRUE]
  OBVIOUS
<1>16. rec \in Record /\ rec.taken /\ ~rec.completed
  BY <1>8, <1>9, <1>15 DEF Record
<1>17. m_records' = [m_records EXCEPT ![m_order[unit]] = rec]
  BY <1>4, <1>8, <1>13, <1>15
<1>18. DriverInv'
  <2>1. rec.completed <=> "analyze" = "backend"
    BY <1>16
  <2>2. "analyze" \in {"analyze", "backend"}
    OBVIOUS
  <2> QED
    BY <1>1, <1>3, <1>13, <1>14, <1>16, <1>17, <2>1, <2>2, MarkUnit
<1> QED
  BY <1>12, <1>13, <1>18

\* Its interface is published once, after it was taken.
LEMMA CompleteSucceeds ==
    ASSUME BuildInv, UnitComplete
    PROVE  /\ DriverInv' /\ \E path \in Path : complete(path)
           /\ UNCHANGED <<m_graph, m_active, call, returned, roots, next_root>>
<1> USE DEF BuildInv
<1>1. step = "units" /\ unit <= Len(Units) /\ stage = "analyze" /\ complete(UnitInput)
  BY DEF UnitComplete, AtUnit
<1>2. phase = "ready" /\ Compiling /\ error = "none" /\ DriverTypes /\ Planned
  BY <1>1 DEF DriverInv, UnitLoop, Compiling, NoLogicError
<1>3. /\ unit \in 1 .. Len(m_order) /\ UnitInput \in Path
      /\ UnitId = m_order[unit] /\ UnitId # Missing
  BY <1>1, <1>2, UnitAtHand
<1>4. PICK i : i = m_order[unit]
  OBVIOUS
<1>5. PICK p \in Path : p = UnitInput
  BY <1>3
<1>6. findFile(p) = i /\ i # Missing
  BY <1>3, <1>4, <1>5 DEF UnitId
<1>7. /\ m_records \in Seq(Record) /\ Len(m_records) = Len(m_graph)
      /\ \A k \in 1 .. Len(m_order) : m_order[k] \in Ids
  BY <1>2, ReadyOrder
<1>8. i \in Ids /\ m_records[i] \in Record /\ i \in DOMAIN m_records
  BY <1>3, <1>4, <1>7 DEF Ids
<1>9. m_records[i].taken /\ ~m_records[i].completed
  <2>1. /\ m_records[i].taken <=> stage # "take"
        /\ m_records[i].completed <=> stage = "backend"
    BY <1>2, <1>3, <1>4 DEF DriverInv, UnitLoop
  <2> QED
    BY <1>1, <2>1
<1>10. Publishable(i)
  BY <1>6, <1>9 DEF Publishable
<1>11. complete(p)
  BY <1>1, <1>5
<1>12. /\ m_records' = [m_records EXCEPT ![i] = [@ EXCEPT !.completed = TRUE]]
       /\ UNCHANGED <<disk, phase, error, roots, next_root, call, returned,
                      m_import_paths, m_graph, m_active, m_order, m_module_names,
                      m_alias_bindings, m_total_bytes>>
  BY <1>6, <1>10, <1>11 DEF complete
<1>13. To("backend")
  BY <1>2, <1>12 DEF UnitComplete
<1>14. PICK rec : rec = [m_records[i] EXCEPT !.completed = TRUE]
  OBVIOUS
<1>15. rec \in Record /\ rec.taken /\ rec.completed
  BY <1>8, <1>9, <1>14 DEF Record
<1>16. m_records' = [m_records EXCEPT ![m_order[unit]] = rec]
  BY <1>4, <1>8, <1>12, <1>14
<1>17. DriverInv'
  <2>1. rec.completed <=> "backend" = "backend"
    BY <1>15
  <2>2. "backend" \in {"analyze", "backend"}
    OBVIOUS
  <2> QED
    BY <1>1, <1>3, <1>12, <1>13, <1>15, <1>16, <2>1, <2>2, MarkUnit
<1> QED
  BY <1>11, <1>12, <1>17

\* The loop goes on to the next unit, whose object, if it has one, is there.
LEMMA LoopAdvances ==
    ASSUME BuildInv, AtUnit("backend"), NextUnit, UNCHANGED vars,
           content' \in [Path -> Nat], written' \subseteq Path,
           \A w \in written' : content'[w] # Torn,
           mode = "build" /\ ~check =>
              \A n \in 1 .. Len(sources) : \A k \in 1 .. Len(m_order) :
                  k <= unit /\ FileOf(m_order[k]) = disk.at[sources[n]] =>
                      content'[layout.objects[n]] = m_order[k],
           \A w \in written' : ~samePath(w, layout.manifest)
                               /\ \A p \in sourcePaths : ~samePath(w, p),
           check => written' = {}
    PROVE  DriverInv'
<1> USE DEF BuildInv
<1>1. /\ step = "units" /\ unit <= Len(Units) /\ stage = "backend"
      /\ unit' = unit + 1 /\ stage' = "take"
      /\ UNCHANGED <<mode, check, target, layout, step, sources, status>>
  BY DEF AtUnit, NextUnit, fixed
<1>2. UNCHANGED <<disk, phase, error, m_graph, m_records, m_order>>
  BY DEF vars, tables
<1>3. phase = "ready" /\ Compiling /\ Compiling' /\ error = "none" /\ DriverTypes /\ Planned
  BY <1>1 DEF DriverInv, UnitLoop, Compiling, NoLogicError
<1>4. unit \in 1 .. Len(m_order)
  BY <1>1, <1>3, UnitAtHand
<1>5. Len(m_order) \in Nat
  BY <1>3, ReadyOrder
<1>6. DriverTypes'
  BY <1>1, <1>3 DEF DriverTypes
<1>7. Preparing' /\ Ended'
  BY <1>1 DEF Preparing, Ended
<1>8. Planned' /\ OutputsSafe'
  BY <1>1, <1>2, <1>3, PlanKept DEF DriverInv
<1>9. UnitLoop'
  <2>1. \A k \in 1 .. Len(m_order) :
           /\ k < unit => Published(m_order[k])
           /\ k > unit => ~m_records[m_order[k]].taken /\ ~m_records[m_order[k]].completed
           /\ k = unit => Published(m_order[k])
    <3>1. stage # "take"
      BY <1>1
    <3> QED
      BY <1>1, <1>3, <3>1 DEF DriverInv, UnitLoop, Published
  <2>2. \A k \in 1 .. Len(m_order) :
           /\ k < unit + 1 => k < unit \/ k = unit
           /\ k > unit + 1 => k > unit
           /\ k = unit + 1 => k > unit
    BY <1>4, <1>5
  <2>3. \A k \in 1 .. Len(m_order) :
           /\ k < unit + 1 => Published(m_order[k])
           /\ k > unit + 1 => ~m_records[m_order[k]].taken /\ ~m_records[m_order[k]].completed
           /\ k = unit + 1 => ~m_records[m_order[k]].taken /\ ~m_records[m_order[k]].completed
    BY <2>1, <2>2
  <2>4. unit + 1 <= Len(m_order) + 1
    BY <1>4, <1>5
  <2>5. step' # "link"
    BY <1>1
  <2> QED
    BY <1>1, <1>2, <1>3, <2>3, <2>4, <2>5 DEF UnitLoop, Published
<1>10. Emitted'
  <2>1. \A k \in 1 .. Len(m_order) : k < unit + 1 => k <= unit
    BY <1>4, <1>5
  <2>2. Torn' = Torn
    BY DEF Torn
  <2>3. mode = "build" /\ ~check =>
           \A n \in 1 .. Len(sources) : \A k \in 1 .. Len(m_order) :
               k < unit + 1 /\ FileOf(m_order[k]) = disk.at[sources[n]] =>
                   content'[layout.objects[n]] = m_order[k]
    BY <2>1
  <2> QED
    BY <1>1, <1>2, <2>2, <2>3 DEF Emitted, FileOf
<1>11. NoLogicError'
  BY <1>2, <1>3 DEF DriverInv, NoLogicError, DriversKeepProtocol
<1>12. InputsPreserved'
  <2>1. sourcePaths' = sourcePaths
    BY <1>2 DEF sourcePaths, Ids
  <2> QED
    BY <1>1, <1>2, <2>1 DEF InputsPreserved, samePath, SameFile
<1> QED
  BY <1>6, <1>7, <1>8, <1>9, <1>10, <1>11, <1>12 DEF DriverInv

\* A unit that emits nothing is no source of a build that links.
LEMMA CheckedUnitKeeps ==
    ASSUME BuildInv, UnitChecked
    PROVE  DriverInv'
<1> USE DEF BuildInv
<1>1. AtUnit("backend") /\ ~UnitEmits /\ NextUnit /\ UNCHANGED vars
      /\ content' = content /\ written' = written
  BY DEF UnitChecked
<1>2. step = "units" /\ unit <= Len(Units)
  BY <1>1 DEF AtUnit
<1>3. phase = "ready" /\ Compiling /\ DriverTypes /\ Planned /\ Emitted /\ InputsPreserved
  BY <1>2 DEF DriverInv, UnitLoop, Compiling
<1>4. /\ unit \in 1 .. Len(m_order) /\ UnitId = m_order[unit]
      /\ mode = "build" => isInterface(Units[unit]) = m_graph[UnitId].is_interface
  BY <1>2, <1>3, UnitAtHand
<1>5. m_order[unit] \in Ids /\ Len(m_order) \in Nat
  BY <1>3, <1>4, ReadyOrder
<1>6. ASSUME mode = "build", ~check, NEW n \in 1 .. Len(sources), NEW k \in 1 .. Len(m_order),
             k <= unit, FileOf(m_order[k]) = disk.at[sources[n]]
      PROVE  content[layout.objects[n]] = m_order[k]
  <2>1. CASE k = unit
    <3>1. m_graph[m_order[unit]].is_interface
      BY <1>1, <1>4, <1>6 DEF UnitEmits
    <3>2. PICK i \in Ids : FileOf(i) = disk.at[sources[n]] /\ ~m_graph[i].is_interface
      BY <1>3, <1>6 DEF Planned, ListedOnce
    <3>3. i = m_order[unit]
      BY <1>5, <1>6, <2>1, <3>2 DEF Provenance, PhysicalFilesOnce, FileOf
    <3> QED
      BY <3>1, <3>2, <3>3
  <2>2. CASE k # unit
    <3>1. k < unit
      BY <1>4, <1>5, <1>6, <2>2
    <3> QED
      BY <1>3, <1>6, <3>1 DEF Emitted
  <2> QED
    BY <2>1, <2>2
<1>7. \A w \in written : content[w] # Torn
  BY <1>3 DEF Emitted
<1>8. (\A w \in written : ~samePath(w, layout.manifest) /\ \A p \in sourcePaths : ~samePath(w, p))
      /\ (check => written = {})
  BY <1>3 DEF InputsPreserved
<1>9. content \in [Path -> Nat] /\ written \subseteq Path
  BY <1>3 DEF DriverTypes
<1> QED
  BY <1>1, <1>6, <1>7, <1>8, <1>9, LoopAdvances

\* Where a unit's object goes: nowhere an input or the manifest is.
LEMMA EmitTarget ==
    ASSUME BuildInv, AtUnit("backend"), UnitEmits, UnitOutputAccepted
    PROVE  /\ UnitOutput \in Path /\ ~check
           /\ ~samePath(UnitOutput, layout.manifest)
           /\ \A p \in sourcePaths : ~samePath(UnitOutput, p)
           /\ UnitId = m_order[unit] /\ unit \in 1 .. Len(m_order) /\ UnitId \in Ids
           /\ mode = "build" =>
                 \E s \in 1 .. Len(sources) : /\ UnitOutput = layout.objects[s]
                                              /\ disk.at[sources[s]] = FileOf(UnitId)
<1> USE DEF BuildInv
<1>1. step = "units" /\ unit <= Len(Units)
  BY DEF AtUnit
<1>2. phase = "ready" /\ Compiling /\ DriverTypes /\ Planned /\ OutputsSafe
  BY <1>1 DEF DriverInv, UnitLoop, Compiling
<1>3. /\ unit \in 1 .. Len(m_order) /\ UnitId = m_order[unit]
      /\ mode = "build" /\ ~isInterface(Units[unit]) =>
            /\ SourceIndex(Units[unit]) \in 1 .. Len(sources)
            /\ disk.at[sources[SourceIndex(Units[unit])]] = FileOf(UnitId)
  BY <1>1, <1>2, UnitAtHand
<1>4. UnitId \in Ids /\ Len(m_order) \in Nat
  BY <1>2, <1>3, ReadyOrder
<1>5. ~check /\ ~samePath(UnitOutput, layout.manifest)
      /\ \A d \in gather(UnitId) : ~samePath(m_graph[d].path, UnitOutput)
  BY DEF UnitEmits, UnitOutputAccepted
<1>6. CASE mode = "build"
  <2>1. PICK s : s = SourceIndex(Units[unit])
    OBVIOUS
  <2>2. ~isInterface(Units[unit])
    BY <1>6 DEF UnitEmits
  <2>3. s \in 1 .. Len(sources) /\ disk.at[sources[s]] = FileOf(UnitId) /\ UnitOutput = layout.objects[s]
    BY <1>3, <1>6, <2>1, <2>2 DEF UnitOutput
  <2>4. ListedOnce
    BY <1>2, <1>6 DEF Planned
  <2>5. UnitOutput \in Targets /\ Targets \subseteq Path
    BY <1>2, <2>3, <2>4, BuildTargets
  <2>6. \A p \in sourcePaths : ~samePath(UnitOutput, p)
    BY <1>2, <1>5, <1>6, <2>5 DEF OutputsSafe
  <2> QED
    BY <1>3, <1>4, <1>5, <2>3, <2>5, <2>6
<1>7. CASE mode # "build"
  <2>1. unit = Len(Units) /\ UnitOutput = layout.objects[1]
    BY <1>7 DEF UnitEmits, UnitOutput
  <2>2. Len(Units) = Len(m_order)
    BY <1>2, UnitFiles
  <2>3. Ids = gather(UnitId)
    BY <1>2, <1>3, <1>7, <2>1, <2>2 DEF Planned, InputLast
  <2>4. \A p \in sourcePaths : ~samePath(UnitOutput, p)
    BY <1>5, <2>3, SamePathSymmetric DEF sourcePaths
  <2>5. layout.objects[1] \in Path
    <3>1. layout.objects \in Seq(Path) /\ Len(layout.objects) >= MaxFiles /\ Len(layout.objects) \in Nat
      BY <1>2, BuildAssumption DEF DriverTypes
    <3>2. MaxFiles \in Nat /\ Len(m_graph) <= MaxFiles /\ Len(m_graph) >= 1 /\ Len(m_graph) \in Nat
      BY <1>4, LoaderAssumption DEF Kinds, Ids, IInv, TypeOK
    <3>3. 1 \in 1 .. Len(layout.objects)
      BY <3>1, <3>2
    <3> QED
      BY <3>1, <3>3
  <2> QED
    BY <1>3, <1>4, <1>5, <1>7, <2>1, <2>4, <2>5
<1> QED
  BY <1>6, <1>7

\* An object is written: it is the unit's own, and no other unit's object is
\* touched.
LEMMA EmitKeeps ==
    ASSUME BuildInv, Emit
    PROVE  DriverInv'
<1> USE DEF BuildInv
<1>1. AtUnit("backend") /\ UnitEmits /\ UnitOutputAccepted /\ NextUnit /\ UNCHANGED vars
  BY DEF Emit
<1>2. PICK o, i : o = UnitOutput /\ i = UnitId
  OBVIOUS
<1>3. content' = [content EXCEPT ![o] = i] /\ written' = written \cup {o}
  BY <1>2 DEF Emit
<1>4. /\ o \in Path /\ ~check /\ ~samePath(o, layout.manifest)
      /\ \A p \in sourcePaths : ~samePath(o, p)
      /\ i = m_order[unit] /\ unit \in 1 .. Len(m_order) /\ i \in Ids
      /\ mode = "build" =>
            \E s \in 1 .. Len(sources) : o = layout.objects[s] /\ disk.at[sources[s]] = FileOf(i)
  BY <1>1, <1>2, EmitTarget
<1>5. step = "units"
  BY <1>1 DEF AtUnit
<1>6. /\ phase = "ready" /\ Compiling /\ DriverTypes /\ Planned /\ Emitted /\ InputsPreserved
      /\ OutputsSafe
  BY <1>5 DEF DriverInv, UnitLoop, Compiling
<1>7. content \in [Path -> Nat] /\ written \subseteq Path
  BY <1>6 DEF DriverTypes
<1>8. i \in Nat /\ i # Torn
  <2>1. Len(m_graph) \in Nat /\ Len(m_graph) <= MaxFiles /\ MaxFiles \in Nat
    BY LoaderAssumption DEF Kinds, IInv, TypeOK
  <2> QED
    BY <1>4, <2>1 DEF Ids, Torn
<1>9. content' \in [Path -> Nat] /\ written' \subseteq Path
  BY <1>3, <1>4, <1>7, <1>8
<1>10. \A w \in written' : content'[w] # Torn
  BY <1>3, <1>4, <1>6, <1>7, <1>8 DEF Emitted
<1>11. ASSUME mode = "build", NEW n \in 1 .. Len(sources), NEW k \in 1 .. Len(m_order),
              k <= unit, FileOf(m_order[k]) = disk.at[sources[n]]
       PROVE  content'[layout.objects[n]] = m_order[k]
  <2>1. PICK s \in 1 .. Len(sources) : o = layout.objects[s] /\ disk.at[sources[s]] = FileOf(i)
    BY <1>4, <1>11
  <2>2. ListedOnce
    BY <1>6, <1>11 DEF Planned
  <2>3. /\ \A q \in 1 .. Len(sources) : q \in 1 .. Len(Outputs(sources))
                                        /\ Outputs(sources)[q] = layout.objects[q]
        /\ \A q \in 1 .. Len(sources) : layout.objects[q] \in Targets
        /\ Targets \subseteq Path
    BY <1>6, <2>2, BuildTargets
  <2>4. CASE k = unit
    <3>1. n = s
      BY <1>4, <1>11, <2>1, <2>2, <2>4 DEF ListedOnce
    <3> QED
      BY <1>3, <1>4, <1>7, <2>1, <2>4, <3>1
  <2>5. CASE k # unit
    <3>1. k < unit
      BY <1>4, <1>11, <2>5
    <3>2. n # s
      <4>1. \A j, h \in 1 .. Len(m_order) : FileOf(m_order[j]) = FileOf(m_order[h]) => j = h
        BY <1>6, AnalysisPaths
      <4> QED
        BY <1>4, <1>11, <2>1, <2>5, <4>1
    <3>3. layout.objects[n] # o /\ layout.objects[n] \in Path
      <4>1. \A j, h \in 1 .. Len(Outputs(sources)) : Outputs(sources)[j] = Outputs(sources)[h] => j = h
        BY <1>4, <1>6, <1>11 DEF OutputsSafe
      <4> QED
        BY <2>1, <2>3, <3>2, <4>1
    <3>4. content[layout.objects[n]] = m_order[k]
      BY <1>4, <1>6, <1>11, <3>1 DEF Emitted
    <3> QED
      BY <1>3, <1>7, <3>3, <3>4
  <2> QED
    BY <2>4, <2>5
<1>12. \A w \in written' : ~samePath(w, layout.manifest) /\ \A p \in sourcePaths : ~samePath(w, p)
  BY <1>3, <1>4, <1>6 DEF InputsPreserved
<1> QED
  BY <1>1, <1>4, <1>9, <1>10, <1>11, <1>12, LoopAdvances

\* The driver ends.
LEMMA EndKeeps ==
    ASSUME BuildInv, step' = "done", UNCHANGED <<vars, fixed, sources, unit, stage>>,
           content' \in [Path -> Nat], written' \subseteq Path,
           \A w \in written' : ~samePath(w, layout.manifest)
                               /\ \A p \in sourcePaths : ~samePath(w, p),
           check => written' = {}, Ended'
    PROVE  DriverInv'
<1> USE DEF BuildInv
<1>1. UNCHANGED <<disk, error, m_graph, mode, check, layout>>
  BY DEF vars, tables, fixed
<1>2. DriverTypes'
  BY <1>1 DEF DriverInv, DriverTypes
<1>3. Preparing' /\ Planned' /\ OutputsSafe' /\ UnitLoop' /\ Emitted'
  BY DEF Preparing, Planned, OutputsSafe, UnitLoop, Emitted, Compiling
<1>4. NoLogicError'
  BY <1>1 DEF DriverInv, NoLogicError, DriversKeepProtocol, Compiling
<1>5. InputsPreserved'
  <2>1. sourcePaths' = sourcePaths
    BY <1>1 DEF sourcePaths, Ids
  <2> QED
    BY <1>1, <2>1 DEF InputsPreserved, samePath, SameFile
<1> QED
  BY <1>2, <1>3, <1>4, <1>5 DEF DriverInv

\* An object is torn and the driver stops.
LEMMA EmitTornKeeps ==
    ASSUME BuildInv, EmitTorn
    PROVE  DriverInv'
<1> USE DEF BuildInv
<1>1. AtUnit("backend") /\ UnitEmits /\ UnitOutputAccepted /\ UNCHANGED vars
      /\ step' = "done" /\ status' = 1 /\ UNCHANGED <<fixed, sources, unit, stage>>
  BY DEF EmitTorn
<1>2. PICK o : o = UnitOutput
  OBVIOUS
<1>3. content' = [content EXCEPT ![o] = Torn] /\ written' = written \cup {o}
  BY <1>2 DEF EmitTorn
<1>4. /\ o \in Path /\ ~check /\ ~samePath(o, layout.manifest)
      /\ \A p \in sourcePaths : ~samePath(o, p)
  BY <1>1, <1>2, EmitTarget
<1>5. content \in [Path -> Nat] /\ written \subseteq Path /\ InputsPreserved
  BY DEF DriverInv, DriverTypes
<1>6. Torn \in Nat
  BY LoaderAssumption DEF Torn
<1>7. content' \in [Path -> Nat] /\ written' \subseteq Path
  BY <1>3, <1>4, <1>5, <1>6
<1>8. \A w \in written' : ~samePath(w, layout.manifest) /\ \A p \in sourcePaths : ~samePath(w, p)
  BY <1>3, <1>4, <1>5 DEF InputsPreserved
<1>9. Ended'
  BY <1>1 DEF Ended
<1> QED
  BY <1>1, <1>4, <1>7, <1>8, <1>9, EndKeeps

\* Behind the last unit everything is published.
LEMMA AllPublished ==
    ASSUME BuildInv, Compiling, unit > Len(Units)
    PROVE  unit = Len(m_order) + 1 /\ \A i \in Ids : m_records[i].completed
<1> USE DEF BuildInv
<1>1. phase = "ready" /\ DriverTypes /\ Planned /\ UnitLoop
  BY DEF DriverInv, UnitLoop
<1>2. Len(Units) = Len(m_order) /\ Len(m_order) \in Nat
  BY <1>1, UnitFiles
<1>3. unit = Len(m_order) + 1
  BY <1>1, <1>2 DEF UnitLoop, DriverTypes
<1>4. ASSUME NEW i \in Ids PROVE m_records[i].completed
  <2>1. PICK k \in 1 .. Len(m_order) : m_order[k] = i
    BY <1>1, ReadyOrder
  <2>2. k < unit
    BY <1>2, <1>3
  <2> QED
    BY <1>1, <2>1, <2>2 DEF UnitLoop, Published
<1> QED
  BY <1>3, <1>4

\* All units are checked, or the one file is compiled.
LEMMA CheckedKeeps ==
    ASSUME BuildInv, Checked
    PROVE  DriverInv'
<1> USE DEF BuildInv
<1>1. step = "units" /\ unit > Len(Units) /\ step' = "done" /\ status' = 0
      /\ UNCHANGED <<vars, fixed, sources, unit, stage, content, written>>
  BY DEF Checked, UnitsFinished, Exit, fixed
<1>2. Compiling /\ DriverTypes /\ Emitted /\ InputsPreserved
  BY <1>1 DEF Compiling, DriverInv
<1>3. \A i \in Ids : m_records[i].completed
  BY <1>1, <1>2, AllPublished
<1>4. content' = content /\ written' = written /\ m_graph' = m_graph /\ m_records' = m_records
  BY <1>1 DEF vars, tables
<1>5. Ended'
  BY <1>2, <1>3, <1>4 DEF Ended, Emitted, Ids, Torn
<1>6. content' \in [Path -> Nat] /\ written' \subseteq Path
  BY <1>2, <1>4 DEF DriverTypes
<1>7. /\ \A w \in written' : ~samePath(w, layout.manifest) /\ \A p \in sourcePaths : ~samePath(w, p)
      /\ check => written' = {}
  BY <1>2, <1>4 DEF InputsPreserved
<1> QED
  BY <1>1, <1>5, <1>6, <1>7, EndKeeps

\* The linker is started behind the last unit.
LEMMA StartLinkKeeps ==
    ASSUME BuildInv, StartLink
    PROVE  DriverInv'
<1> USE DEF BuildInv
<1>1. /\ step = "units" /\ unit > Len(Units) /\ step' = "link" /\ mode = "build" /\ ~check
      /\ UNCHANGED <<mode, check, target, layout, sources, unit, stage, content, written, status>>
  BY DEF StartLink, UnitsFinished, fixed
<1>2. UNCHANGED <<disk, phase, error, m_graph, m_records, m_order>>
  BY DEF StartLink, vars, tables
<1>3. Compiling /\ Compiling'
  BY <1>1 DEF Compiling
<1>4. unit = Len(m_order) + 1
  BY <1>1, <1>3, AllPublished
<1>5. DriverTypes' /\ Preparing' /\ Ended'
  BY <1>1 DEF DriverInv, DriverTypes, Preparing, Ended
<1>6. Planned' /\ OutputsSafe'
  BY <1>1, <1>2, <1>3, PlanKept DEF DriverInv
<1>7. UnitLoop'
  BY <1>1, <1>2, <1>3, <1>4 DEF DriverInv, UnitLoop, Published
<1>8. Emitted'
  BY <1>1, <1>2, <1>3 DEF DriverInv, Emitted, FileOf, Torn
<1>9. NoLogicError'
  BY <1>2, <1>3 DEF DriverInv, NoLogicError, DriversKeepProtocol
<1>10. InputsPreserved'
  <2>1. sourcePaths' = sourcePaths
    BY <1>2 DEF sourcePaths, Ids
  <2> QED
    BY <1>1, <1>2, <2>1 DEF DriverInv, InputsPreserved, samePath, SameFile
<1> QED
  BY <1>5, <1>6, <1>7, <1>8, <1>9, <1>10 DEF DriverInv

\* The linker writes the binary and the listing, or tears one of them.
LEMMA LinkKeeps ==
    ASSUME BuildInv, Link \/ LinkTorn
    PROVE  DriverInv'
<1> USE DEF BuildInv
<1>1. step = "link" /\ step' = "done" /\ UNCHANGED <<vars, fixed, sources, unit, stage>>
  BY DEF Link, LinkTorn
<1>2. /\ Compiling /\ DriverTypes /\ Planned /\ Emitted /\ InputsPreserved /\ OutputsSafe
      /\ UnitLoop
  BY <1>1 DEF Compiling, DriverInv
<1>3. phase = "ready" /\ mode = "build" /\ ~check /\ unit = Len(m_order) + 1
  BY <1>1, <1>2 DEF UnitLoop
<1>4. ListedOnce
  BY <1>2, <1>3 DEF Planned
<1> DEFINE outs == {layout.binary} \cup ({layout.assembly} \ {NoCall})
<1>5. outs \subseteq Targets /\ Targets \subseteq Path
  BY <1>2, <1>4, BuildTargets
<1>6. Torn \in Nat /\ Image \in Nat /\ Image # Torn
  BY LoaderAssumption DEF Torn, Image
<1>7. content \in [Path -> Nat] /\ written \subseteq Path
  BY <1>2 DEF DriverTypes
<1>8. \A w \in written \cup outs : ~samePath(w, layout.manifest)
                                   /\ \A p \in sourcePaths : ~samePath(w, p)
  BY <1>2, <1>3, <1>5 DEF InputsPreserved, OutputsSafe
<1>9. CASE Link
  <2>1. /\ content' = [p \in Path |-> IF p \in outs THEN Image ELSE content[p]]
        /\ written' = written \cup outs
    BY <1>9 DEF Link
  <2>2. content' \in [Path -> Nat] /\ written' \subseteq Path
    BY <1>5, <1>6, <1>7, <2>1
  <2>3. \A w \in written' : content'[w] # Torn
    BY <1>2, <1>5, <1>6, <1>7, <2>1 DEF Emitted
  <2>4. Len(Units) = Len(m_order) /\ Len(m_order) \in Nat
    BY <1>2, <1>3, UnitFiles
  <2>5. \A i \in Ids : m_records[i].completed
    BY <1>2, <1>3, <2>4, AllPublished
  <2>6. Ended'
    <3>1. m_graph' = m_graph /\ m_records' = m_records
      BY <1>1 DEF vars, tables
    <3> QED
      BY <2>3, <2>5, <3>1 DEF Ended, Ids, Torn
  <2> QED
    BY <1>1, <1>3, <1>8, <2>1, <2>2, <2>6, EndKeeps
<1>10. CASE LinkTorn
  <2>1. \/ /\ content' = [content EXCEPT ![layout.binary] = Torn]
           /\ written' = written \cup {layout.binary}
        \/ /\ layout.assembly # NoCall
           /\ content' = [content EXCEPT ![layout.binary] = Image, ![layout.assembly] = Torn]
           /\ written' = written \cup {layout.binary, layout.assembly}
    BY <1>10 DEF LinkTorn
  <2>2. status' = 1
    BY <1>10 DEF LinkTorn
  <2>3. content' \in [Path -> Nat] /\ written' \subseteq written \cup outs
    BY <1>5, <1>6, <1>7, <2>1
  <2>4. written' \subseteq Path
    BY <1>5, <1>7, <2>3
  <2>5. Ended'
    BY <2>2 DEF Ended
  <2> QED
    BY <1>1, <1>3, <1>8, <2>3, <2>4, <2>5, EndKeeps
<1> QED
  BY <1>9, <1>10

-----------------------------------------------------------------------------
\* The invariant of a build.

\* Kinds are those of the graph, the roots and the pending call.
LEMMA KindsKept ==
    ASSUME Kinds, UNCHANGED <<disk, m_graph, m_active, call, returned, roots, next_root>>
    PROVE  Kinds'
  BY DEF Kinds, NodeKinds, RootKinds, RootKind, FileOf, Ids, isInterface

\* A driver that was just started satisfies the invariant.
LEMMA InitBuildInv == BuildInit => BuildInv
<1> SUFFICES ASSUME BuildInit PROVE BuildInv
  OBVIOUS
<1>1. Init
  BY DEF BuildInit
<1>2. Blank
  BY <1>1 DEF Init, Blank, TablesEmpty
<1>3. IInv /\ Provenance /\ Kinds /\ Untouched
  BY <1>1, <1>2, InitIInv, BlankProvenance, BlankKinds
<1>4. DriverTypes
  BY DEF BuildInit, DriverTypes, Old
<1>5. Preparing
  BY <1>1, <1>3 DEF BuildInit, Init, Preparing
<1>6. Planned /\ OutputsSafe /\ UnitLoop /\ Emitted /\ Ended
  BY DEF BuildInit, Planned, OutputsSafe, UnitLoop, Emitted, Ended, Compiling
<1>7. NoLogicError
  BY <1>1 DEF BuildInit, Init, NoLogicError, DriversKeepProtocol, Compiling
<1>8. InputsPreserved
  BY DEF BuildInit, InputsPreserved
<1> QED
  BY <1>3, <1>4, <1>5, <1>6, <1>7, <1>8 DEF BuildInv, DriverInv

\* A step that leaves the whole state alone.
LEMMA StutterKeeps ==
    ASSUME BuildInv, UNCHANGED buildVars
    PROVE  DriverInv'
<1> USE DEF BuildInv, DriverInv
<1>1. /\ UNCHANGED <<disk, phase, error, m_graph, m_records, m_order, roots>>
      /\ UNCHANGED <<mode, check, target, layout, step, sources, unit, stage, content, written, status>>
  BY DEF buildVars, vars, tables, driver
<1>2. Ids' = Ids /\ sourcePaths' = sourcePaths /\ (\A i : FileOf(i)' = FileOf(i))
  BY <1>1 DEF Ids, sourcePaths, FileOf
<1>3. Planned' /\ OutputsSafe'
  BY <1>1, PlanKept DEF Compiling
<1>4. DriverTypes'
  BY <1>1 DEF DriverTypes
<1>5. Preparing'
  BY <1>1, <1>2 DEF Preparing, Untouched, SourcesAccepted, samePath, SameFile, isInterface
<1>6. UnitLoop'
  BY <1>1 DEF UnitLoop, Published, Compiling
<1>7. Emitted' /\ Ended'
  BY <1>1, <1>2 DEF Emitted, Ended, Compiling, Torn
<1>8. NoLogicError' /\ InputsPreserved'
  BY <1>1, <1>2 DEF NoLogicError, DriversKeepProtocol, InputsPreserved, samePath, SameFile, Compiling
<1> QED
  BY <1>3, <1>4, <1>5, <1>6, <1>7, <1>8

\* Every step of a driver is a step of the loader or leaves the loader alone,
\* and keeps the invariant.
LEMMA NextBuildInv == BuildInv /\ [BuildNext]_buildVars => BuildInv' /\ [Next]_vars
<1> SUFFICES ASSUME BuildInv, [BuildNext]_buildVars PROVE BuildInv' /\ [Next]_vars
  OBVIOUS
<1>1. SUFFICES [Next]_vars /\ Kinds' /\ DriverInv'
  <2>1. ASSUME [Next]_vars PROVE IInv' /\ Provenance'
    BY <2>1, NextIInv, NextProvenance DEF BuildInv
  <2> QED
    BY <2>1 DEF BuildInv
<1>2. ASSUME UNCHANGED vars PROVE [Next]_vars /\ Kinds'
  <2>1. UNCHANGED <<disk, m_graph, m_active, call, returned, roots, next_root>>
    BY <1>2 DEF vars, tables
  <2> QED
    BY <1>2, <2>1, KindsKept DEF BuildInv
<1>3. CASE Start
  <2>1. \E rs \in RootLists, dirs \in SearchLists : prepare(rs, dirs)
    BY <1>3 DEF Start
  <2> QED
    BY <1>3, <2>1, StartKeeps DEF Next
<1>4. CASE Discover
  BY <1>4, DiscoverKeeps DEF Next, Discover
<1>5. CASE Plan
  <2>1. UNCHANGED vars
    BY <1>5 DEF Plan
  <2> QED
    BY <1>2, <1>5, <2>1, PlanKeeps
<1>6. CASE UnitTake
  <2>1. /\ DriverInv' /\ \E path \in Path : take(path)
        /\ UNCHANGED <<m_graph, m_active, call, returned, roots, next_root>>
    BY <1>6, TakeSucceeds
  <2>2. disk' = disk
    BY <2>1 DEF take, LogicError
  <2> QED
    BY <2>1, <2>2, KindsKept DEF Next, BuildInv
<1>7. CASE UnitComplete
  <2>1. /\ DriverInv' /\ \E path \in Path : complete(path)
        /\ UNCHANGED <<m_graph, m_active, call, returned, roots, next_root>>
    BY <1>7, CompleteSucceeds
  <2>2. disk' = disk
    BY <2>1 DEF complete, LogicError
  <2> QED
    BY <2>1, <2>2, KindsKept DEF Next, BuildInv
<1>8. CASE UnitChecked
  <2>1. UNCHANGED vars
    BY <1>8 DEF UnitChecked
  <2> QED
    BY <1>2, <1>8, <2>1, CheckedUnitKeeps
<1>9. CASE Emit
  <2>1. UNCHANGED vars
    BY <1>9 DEF Emit
  <2> QED
    BY <1>2, <1>9, <2>1, EmitKeeps
<1>10. CASE EmitTorn
  <2>1. UNCHANGED vars
    BY <1>10 DEF EmitTorn
  <2> QED
    BY <1>2, <1>10, <2>1, EmitTornKeeps
<1>11. CASE Checked
  <2>1. UNCHANGED vars
    BY <1>11 DEF Checked
  <2> QED
    BY <1>2, <1>11, <2>1, CheckedKeeps
<1>12. CASE StartLink
  <2>1. UNCHANGED vars
    BY <1>12 DEF StartLink
  <2> QED
    BY <1>2, <1>12, <2>1, StartLinkKeeps
<1>13. CASE Link \/ LinkTorn
  <2>1. UNCHANGED vars
    BY <1>13 DEF Link, LinkTorn
  <2> QED
    BY <1>2, <1>13, <2>1, LinkKeeps
<1>14. CASE StartRejected \/ DiscoveryFailed \/ PlanRejected \/ AnalysisFails \/ BackendFails
              \/ EmitRejected \/ LinkFails
  <2>1. Exit(1) /\ UNCHANGED vars
    BY <1>14 DEF StartRejected, DiscoveryFailed, PlanRejected, AnalysisFails, BackendFails,
       EmitRejected, LinkFails
  <2>2. UNCHANGED <<disk, m_graph, error>>
    BY <2>1 DEF vars, tables
  <2> QED
    BY <1>2, <2>1, <2>2, FailedExit DEF BuildInv
<1>15. CASE Finished \/ UNCHANGED buildVars
  <2>1. UNCHANGED buildVars
    BY <1>15 DEF Finished
  <2>2. UNCHANGED vars
    BY <2>1 DEF buildVars
  <2> QED
    BY <1>2, <2>1, <2>2, StutterKeeps
<1> QED
  BY <1>3, <1>4, <1>5, <1>6, <1>7, <1>8, <1>9, <1>10, <1>11, <1>12, <1>13, <1>14, <1>15
     DEF BuildNext, BuildStep

\* The inductive invariant of both drivers.
THEOREM BuildInvariant == BuildSpec => []BuildInv
<1> QED
  BY InitBuildInv, NextBuildInv, PTL DEF BuildSpec

\* Both drivers use the loader as its own specification allows.
THEOREM DriversRunTheLoader == BuildSpec => Init /\ [][Next]_vars
<1>1. BuildInit => Init
  BY DEF BuildInit
<1> QED
  BY <1>1, InitBuildInv, NextBuildInv, PTL DEF BuildSpec

\* None of the std::logic_error branches of the loader and of buildProject is
\* reachable from either driver.
THEOREM LogicErrorsUnreachable == BuildSpec => []DriversKeepProtocol
<1>1. BuildInv => DriversKeepProtocol
  BY DEF BuildInv, DriverInv, NoLogicError
<1> QED
  BY <1>1, BuildInvariant, PTL

\* No file of the import graph and no manifest is opened for writing, and
\* --check writes nothing.
THEOREM InputsAreNeverWritten == BuildSpec => []InputsPreserved
<1>1. BuildInv => InputsPreserved
  BY DEF BuildInv, DriverInv
<1> QED
  BY <1>1, BuildInvariant, PTL

\* The linker is started on one complete object of this build for each
\* implementation of the graph, and success leaves nothing torn or unpublished.
THEOREM LinkerGetsThisBuild == BuildSpec => []LinkOnlyThisBuild
<1>1. BuildInv => LinkOnlyThisBuild
  <2> SUFFICES ASSUME BuildInv PROVE LinkOnlyThisBuild
    OBVIOUS
  <2> USE DEF BuildInv
  <2>1. step = "done" /\ status = 0 =>
           /\ \A w \in written : content[w] # Torn
           /\ \A i \in Ids : m_records[i].completed
    BY DEF DriverInv, Ended
  <2>2. SUFFICES ASSUME step = "link"
                 PROVE  /\ Len(sources) = Cardinality({i \in Ids : ~m_graph[i].is_interface})
                        /\ {content[layout.objects[k]] : k \in 1 .. Len(sources)} =
                              {i \in Ids : ~m_graph[i].is_interface}
    BY <2>1 DEF LinkOnlyThisBuild
  <2> DEFINE implementations == {i \in Ids : ~m_graph[i].is_interface}
  <2>3. Compiling /\ DriverTypes /\ Planned /\ UnitLoop /\ Emitted
    BY <2>2 DEF Compiling, DriverInv
  <2>4. phase = "ready" /\ mode = "build" /\ ~check /\ unit = Len(m_order) + 1
    BY <2>2, <2>3 DEF UnitLoop
  <2>5. ListedOnce
    BY <2>3, <2>4 DEF Planned
  <2>6. /\ Len(m_order) \in Nat
        /\ \A i \in Ids : \E k \in 1 .. Len(m_order) : m_order[k] = i
    BY <2>4, ReadyOrder
  <2>7. \A i, j \in Ids : FileOf(i) = FileOf(j) => i = j
    BY DEF Provenance, PhysicalFilesOnce, FileOf
  <2> DEFINE S == 1 .. Len(sources)
             f == [n \in S |-> content[layout.objects[n]]]
  <2>8. ASSUME NEW n \in S, NEW i \in Ids, FileOf(i) = disk.at[sources[n]]
        PROVE  content[layout.objects[n]] = i
    <3>1. PICK k \in 1 .. Len(m_order) : m_order[k] = i
      BY <2>6
    <3>2. k < unit
      BY <2>4, <2>6
    <3> QED
      BY <2>3, <2>4, <2>8, <3>1, <3>2 DEF Emitted
  <2>9. \A n \in S : f[n] \in implementations /\ FileOf(f[n]) = disk.at[sources[n]]
    BY <2>5, <2>8 DEF ListedOnce
  <2>10. \A m, n \in S : f[m] = f[n] => m = n
    BY <2>5, <2>9 DEF ListedOnce
  <2>11. \A i \in implementations : \E n \in S : f[n] = i
    BY <2>5, <2>8 DEF ListedOnce
  <2>12. {content[layout.objects[n]] : n \in S} = implementations
    BY <2>9, <2>11
  <2>13. Len(sources) \in Nat
    BY <2>3 DEF DriverTypes
  <2>14. IsFiniteSet(S) /\ Cardinality(S) = Len(sources)
    <3>1. IsFiniteSet(S) /\ Cardinality(S) = IF 1 > Len(sources) THEN 0 ELSE Len(sources) - 1 + 1
      BY <2>13, FS_Interval
    <3> QED
      BY <2>13, <3>1
  <2> HIDE DEF f, S, implementations
  <2>15. f \in [S -> implementations]
    <3>1. f = [n \in S |-> f[n]]
      BY DEF f
    <3> QED
      BY <2>9, <3>1
  <2>16. f \in Bijection(S, implementations)
    BY <2>10, <2>11, <2>15 DEF Bijection, Injection, Surjection, IsInjective
  <2>17. Cardinality(implementations) = Cardinality(S)
    BY <2>14, <2>16, FS_Bijection DEF ExistsBijection
  <2> QED
    BY <2>12, <2>14, <2>17 DEF S, implementations
<1> QED
  BY <1>1, BuildInvariant, PTL
=============================================================================
