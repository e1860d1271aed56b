------------------------ MODULE MCRegisterAllocator ------------------------
(***************************************************************************)
(* Every interference graph on four values, with every choice of up to     *)
(* MaxAffinityEdges weighted affinity edges and two colouring orders: a    *)
(* swap may have to carry a chain of three values.                         *)
(***************************************************************************)
EXTENDS RegisterAllocator

CONSTANTS MaxAffinityEdges, MaxAffinity

Weights(E) ==
    {f \in [Edge -> 0 .. MaxAffinity] :
        /\ \A e \in Edge : f[e] > 0 => e \in E
        /\ Cardinality({e \in Edge : f[e] > 0}) <= MaxAffinityEdges}

Ascending == [v \in Value |-> v]
Twisted == [v \in Value |-> (3 * v) % 5]

MCGraphs ==
    {[interference |-> i, affinity |-> w, rank |-> r] :
        i \in SUBSET Edge, w \in Weights(Edge), r \in {Ascending, Twisted}}
=============================================================================
