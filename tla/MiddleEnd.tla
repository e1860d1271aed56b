------------------------------ MODULE MiddleEnd ------------------------------
(***************************************************************************)
(* The middle end at O2: a program is lowered to IR, verified, and sent    *)
(* through the passes of IRGlobalOptimizer::run in their order.  After     *)
(* every pass the verifier's verdict on the module and what the module     *)
(* does on each input are recorded beside what the source program means.   *)
(*                                                                         *)
(* Block layout and phi-edge splitting are the subject of BlockTransforms. *)
(***************************************************************************)
EXTENDS IRLowering, IRVerification, SourceSemantics, ConditionalOptimizer, LocalOptimizer, CompactOptimizer

CONSTANTS Jobs    \* what is compiled: [program, inputs, size, compaction]

VARIABLES job, ir, todo, verified, seen, meaning,
          round     \* scalarizeToFixedPoint: the rounds so far and the accesses the last one began with
vars == <<job, ir, todo, verified, seen, meaning, round>>

Compactions == {"enabled", "disabled", "pointers"}
ASSUME JobsAssumption == \A j \in Jobs : j.size \in BOOLEAN /\ j.compaction \in Compactions /\ j.inputs # <<>>

\* The passes of one compilation, in order.
Clean == <<"propagate", "local", "value">>
Passes(j) ==
    <<"promote">> \o Clean \o <<"inline">> \o Clean \o <<"scalarize", "simplify">>
    \o (IF j.size THEN <<>> ELSE <<"hoist", "strength", "recurrences">>)
    \o Clean \o <<"propagate", "divmod">>
    \o (IF j.size THEN <<"share", "propagate", "local">> ELSE <<>>)
    \o (IF j.compaction # "enabled" THEN <<>>
        ELSE <<"compact">> \o (IF j.size THEN <<>> ELSE <<"hoist">>) \o <<"value", "propagate", "local">>)
    \o <<"local">> \o (IF j.size THEN <<>> ELSE <<"split">>) \o <<"predicates">>

\* What a module does on every input of the job.
Observed(functions, j) == Solid([n \in DOMAIN j.inputs |-> Execute(functions, j.inputs[n].arguments, j.inputs[n].input)])

\* The result of a pass, with the verifier's verdict; a rejected module is not run.
Replaces(functions) ==
    \E m \in {Solid(functions)} : \E ok \in {verify(m)} :
        /\ ir' = m /\ verified' = ok
        /\ seen' = IF ok THEN Observed(m, job) ELSE seen
        /\ UNCHANGED <<job, meaning>>
Becomes(functions) == Replaces(functions) /\ todo' = Tail(todo) /\ UNCHANGED round
Runs(pass) == todo # <<>> /\ Head(todo) = pass /\ verified

Init ==
    /\ job \in Jobs
    /\ ir = <<>> /\ verified = TRUE /\ seen = <<>> /\ meaning = <<>>
    /\ todo = <<"lower">> /\ round = [n |-> 0, before |-> 0]

Lower ==
    /\ Runs("lower")
    /\ \E m \in {lower(job.program)} : \E ok \in {m.err = "" /\ verify(m.functions)} :
          /\ ir' = m.functions /\ verified' = ok
          /\ seen' = IF ok THEN Observed(m.functions, job) ELSE seen
    /\ meaning' = Solid([n \in DOMAIN job.inputs |-> Interpret(job.program, job.inputs[n].arguments, job.inputs[n].input)])
    /\ todo' = Passes(job)
    /\ UNCHANGED <<job, round>>

NearPointers == job.compaction # "disabled"
Promote == Runs("promote") /\ Becomes([n \in DOMAIN ir |-> promote(exposeHardwareLoops(ir[n]), NearPointers)])
Propagate == Runs("propagate") /\ Becomes([n \in DOMAIN ir |-> conditionalOptimize(ir[n])])
Local == Runs("local") /\ Becomes([n \in DOMAIN ir |-> localOptimize(ir[n])])
Value == Runs("value") /\ Becomes([n \in DOMAIN ir |-> valueOptimize(ir[n])])
InlineLeaves == Runs("inline") /\ Becomes(inlineLeaves(ir, job.size))

\* scalarizeToFixedPoint: promote and clean up until no memory access goes
\* away; the round after the last one allowed is an error.
MemoryCount(functions) == Len(SelectSeq(Accumulate(LAMBDA s, f : s \o Flat(f), <<>>, functions), IsAccess))
MaxScalarRounds == 32
Scalarize ==
    /\ Runs("scalarize")
    /\ Replaces([n \in DOMAIN ir |-> promote(ir[n], NearPointers)])
    /\ round' = [n |-> round.n + 1, before |-> MemoryCount(ir)]
    /\ todo' = Clean \o <<"converge">> \o Tail(todo)
Converge ==
    LET settled == MemoryCount(ir) = round.before
    IN  /\ Runs("converge")
        /\ verified' = (settled \/ round.n < MaxScalarRounds)
        /\ todo' = (IF settled THEN <<>> ELSE <<"scalarize">>) \o Tail(todo)
        /\ UNCHANGED <<job, ir, seen, meaning, round>>

Simplify == Runs("simplify") /\ Becomes([n \in DOMAIN ir |-> simplifyPhis(ir[n])])
Hoist == Runs("hoist") /\ Becomes([n \in DOMAIN ir |-> hoist(ir[n])])
StrengthReduce == Runs("strength") /\ Becomes([n \in DOMAIN ir |-> strengthReduce(ir[n])])
ReduceRecurrences == Runs("recurrences") /\ Becomes([n \in DOMAIN ir |-> recurrences(ir[n])])
FuseDivMod == Runs("divmod") /\ Becomes([n \in DOMAIN ir |-> fuse(ir[n])])
ShareTails == Runs("share") /\ Becomes([n \in DOMAIN ir |-> share(ir[n])])
Compact == Runs("compact") /\ Becomes([n \in DOMAIN ir |-> compactLoops(ir[n], job.size)])
\* Which copies pay is left open: MaxRanks of the four candidates of a loop are told apart.
MaxRanks == 2
SplitLifetimes == Runs("split") /\ \E wins \in SUBSET (1..MaxRanks) : Becomes([n \in DOMAIN ir |-> splitLifetimes(ir[n], wins)])
RematerializePredicates == Runs("predicates") /\ Becomes([n \in DOMAIN ir |-> rematerializeBranchPredicates(ir[n])])

Next == \/ Lower \/ Promote \/ Propagate \/ Local \/ Value \/ InlineLeaves \/ Scalarize \/ Converge \/ Simplify \/ Hoist
        \/ StrengthReduce \/ ReduceRecurrences \/ FuseDivMod \/ ShareTails \/ Compact \/ SplitLifetimes
        \/ RematerializePredicates
Spec == Init /\ [][Next]_vars

-----------------------------------------------------------------------------
\* The verifier accepts the lowered module and the result of every pass: no
\* pass leaves a use its definition does not dominate, a phi without one
\* operand per predecessor, a broken hardware-loop scope or a type error, and
\* the promotion of scalar cells converges within its 32 rounds.
StaysVerified == verified

\* The lowered module and the result of every pass do what the source program
\* means: the same result or fault, the same volatile accesses, external calls
\* and pixels in the same order, the same globals at the end.
SameBehaviour == seen = meaning

===============================================================================
