---------------------------- MODULE IRVerification ----------------------------
(***************************************************************************)
(* IRVerifier::verifyFunction: what every pass may rely on and must        *)
(* re-establish.  Each operator is one of the verifier's checks, and       *)
(* verifyFunction their conjunction.  The storage layout and the address-  *)
(* space checks belong to metadata the model leaves out.                   *)
(***************************************************************************)
EXTENDS SsaIr

\* Where a value is defined, as a block and a position.
Places(f) == UNION {{<<b, n>> : n \in DOMAIN f.blocks[b]} : b \in DOMAIN f.blocks}
ValuePlaces(f) == {p \in Places(f) : producesValue(f.blocks[p[1]][p[2]])}

\* The operand and target counts each opcode demands.
Shape(i) ==
    LET none == i.args = <<>> /\ i.targets = <<>>
    IN  CASE i.op = "hardware_loop" -> /\ Len(i.args) = 1 /\ Len(i.targets) <= 1 /\ i.loop > 0 /\ i.oper = ""
                                       /\ i.targets # <<>> => i.loopTo > 0
          [] i.op = "hardware_loop.end" -> i.args = <<>> /\ Len(i.targets) \in {0, 2} /\ i.loop > 0 /\ i.oper = ""
          [] i.op = "hardware_loop.leave" -> none /\ i.loop > 0 /\ i.oper = ""
          [] i.op = "br" -> i.args = <<>> /\ Len(i.targets) = 1
          [] i.op = "condbr" -> Len(i.args) = 1 /\ Len(i.targets) = 2
          [] i.op = "switch" -> /\ Len(i.args) = 1 /\ i.targets # <<>>
                                /\ Len(i.targets) \in {Len(i.cases), Len(i.cases) + 1}   \* default or not
                                /\ \A m, n \in DOMAIN i.cases : i.cases[m] = i.cases[n] => m = n
          [] i.op = "return" -> Len(i.args) = 1
          [] i.op \in {"return.void", "unreachable"} -> none
          [] i.op = "phi" -> /\ i.args # <<>> /\ Len(i.args) = Len(i.targets) /\ i.oper = ""
                             /\ isIntegerType(i.type) \/ i.type.ptr > 0
          [] OTHER -> TRUE

\* Checks on one instruction in its place, before any control flow is known.
InstructionOK(f, b, n) ==
    LET i == f.blocks[b][n]
    IN  /\ i.loop > 0 => i.op \in LoopOpcodes
        /\ i.loopTo > 0 => i.op = "hardware_loop" /\ Len(i.targets) = 1 /\ i.loopTo \in DOMAIN f.blocks
        /\ (i.op = "phi" /\ n > 1) => f.blocks[b][n - 1].op = "phi"
        /\ i.vol => i.op \in {"load.indirect", "store.indirect"}
        /\ (i.op = "const" /\ i.oper = "null") => i.imm = 0 /\ i.type.ptr > 0 /\ i.args = <<>>
        /\ i.type.ptr \in 0..(IF i.op = "address" THEN 33 ELSE 32)
        /\ isTerminator(i) <=> n = Len(f.blocks[b])
        /\ IF producesValue(i) THEN i.res \in 1..f.values ELSE i.res = NoValue
        /\ \A m \in DOMAIN i.args : i.args[m] \in 1..f.values
        /\ \A m \in DOMAIN i.targets : i.targets[m] \in DOMAIN f.blocks
        /\ Shape(i)

\* Every id up to value_count is defined, once.
ValuesContiguous(f) ==
    LET where == ValuePlaces(f)
        defined == {f.blocks[p[1]][p[2]].res : p \in where}
    IN  Cardinality(where) = f.values /\ defined = 1..f.values

LoopsUnique(f) ==
    \A p, q \in {p \in Places(f) : f.blocks[p[1]][p[2]].op \in LoopOpcodes} :
        LET i == f.blocks[p[1]][p[2]]
            j == f.blocks[q[1]][q[2]]
        IN  i.op = j.op /\ i.loop = j.loop => p = q

UnreachableMarked(f, reachable) ==
    \A b \in DOMAIN f.blocks \ reachable : Len(f.blocks[b]) = 1 /\ f.blocks[b][1].op = "unreachable"

\* Setup, end and leave of a hardware loop match; an explicit loop's end
\* branches to the setup's loop target and the setup dominates both.
HardwareScopes(f, dom) ==
    LET at(op, id) == {p \in Places(f) : f.blocks[p[1]][p[2]].op = op /\ f.blocks[p[1]][p[2]].loop = id}
    IN  \A id \in {f.blocks[p[1]][p[2]].loop : p \in Places(f)} \ {0} :
            /\ at("hardware_loop", id) # {} /\ at("hardware_loop.end", id) # {}
            /\ LET s == CHOOSE p \in at("hardware_loop", id) : TRUE
                   e == CHOOSE p \in at("hardware_loop.end", id) : TRUE
                   setup == f.blocks[s[1]][s[2]]
                   end == f.blocks[e[1]][e[2]]
                   explicit == setup.targets # <<>>
               IN  /\ explicit <=> end.targets # <<>>
                   /\ explicit <=> at("hardware_loop.leave", id) # {}
                   /\ explicit => /\ setup.loopTo = end.targets[1]
                                  /\ s[1] \in dom[e[1]]
                                  /\ \A l \in at("hardware_loop.leave", id) : e[1] \in dom[l[1]]

\* The stack of active loops after a block entered with stack active; a
\* mismatch leaves the impossible id -1 on it.
ScopesAfter(block, active) ==
    Accumulate(LAMBDA s, i :
                 IF i.op = "hardware_loop" THEN <<i.loop>> \o s
                 ELSE IF i.op \in {"hardware_loop.end", "hardware_loop.leave"}
                 THEN IF s = <<>> \/ Head(s) # i.loop THEN <<-1>> \o s
                      ELSE IF i.op = "hardware_loop.leave" \/ i.targets = <<>> THEN Tail(s) ELSE s
                 ELSE s, active, block)
\* Every join agrees on the active stack and nothing leaves with one open.
RECURSIVE ScopesAgree(_, _, _)
ScopesAgree(f, scopes, pending) ==
    IF pending = <<>> THEN TRUE
    ELSE LET b == Head(pending)
             active == ScopesAfter(f.blocks[b], scopes[b])
             next == ToSet(Last(f.blocks[b]).targets)
             new == {s \in next : s \notin DOMAIN scopes}
         IN  /\ \A n \in DOMAIN active : active[n] # -1
             /\ next = {} => active = <<>>
             /\ \A s \in next \ new : scopes[s] = active
             /\ ScopesAgree(f, [s \in DOMAIN scopes \cup new |-> IF s \in new THEN active ELSE scopes[s]],
                            Tail(pending) \o Listed(new))

\* A phi has one incoming value per predecessor, of its own type, whose
\* definition dominates that predecessor.
PhiOK(f, b, i, types, home, dom) ==
    /\ b # 1
    /\ IsInjective(i.targets)
    /\ ToSet(i.targets) = Predecessors(f, b)
    /\ \A n \in DOMAIN i.args : /\ i.targets[n] \in DOMAIN dom
                                /\ home[i.args[n]][1] \in dom[i.targets[n]]
                                /\ sameValueType(i.type, types[i.args[n]])

\* A use follows its definition in the block, or is dominated by it.
UseDominated(b, n, place, dom) ==
    IF place[1] = b THEN place[2] < n
    ELSE b \in DOMAIN dom => place[1] \in dom[b]

\* The typing rules of memory, address and graphics opcodes; ty(n) is the type of operand n.
StorageOK(f, i, types) ==
    LET ty(n) == types[i.args[n]]
        n == Len(i.args)
        alone == i.targets = <<>>
    IN  CASE i.op = "memory.initialize" ->
                LET root == definitions(f)[i.args[1]]
                IN  /\ n = 1 /\ alone /\ Len(i.cases) \in 4..256 /\ isIntegerType(i.type) /\ ~i.type.vol /\ ~i.vol
                    /\ i.oper = "declare" /\ i.imm \in 1..f.frame /\ Len(i.cases) * sizeInBytes(i.type) <= i.imm
                    /\ root.op = "address" /\ root.oper = "" /\ root.type.ptr = 1 /\ ~root.type.vol
                    /\ sameValueType(i.type, pointeeType(root.type))
                    /\ \A v \in ToSet(i.cases) : v <= (CASE i.type.base = "bool" -> 1 [] i.type.base = "byte" -> 255 [] OTHER -> 65535)
          [] i.op = "cache" -> n = 0 /\ alone
          [] i.op = "pixel" -> i.plot /\ n = 0 /\ alone
          [] i.op = "rpix" -> n = 0 /\ alone /\ (producesValue(i) => i.plot /\ i.type.ptr = 0 /\ i.type.base = "byte")
          [] i.op = "color" -> i.plot /\ n = 1 /\ alone /\ isIntegerType(ty(1))
          [] i.op = "cmode" -> i.plot /\ n = 0 /\ alone /\ i.imm \in 0..31
          [] i.op \in {"cursor.read", "cursor.write"} ->
                /\ i.plot /\ alone /\ i.imm \in 0..1 /\ sameValueType(i.type, WordT)
                /\ IF i.op = "cursor.read" THEN n = 0 ELSE n = 1 /\ sameValueType(i.type, ty(1))
          [] i.op = "address" ->
                /\ i.type.ptr > 0
                /\ CASE i.oper = "" -> n = 0 /\ i.sym # ""
                     [] i.oper = "member" -> n = 1 /\ i.imm \in 0..65528 /\ ty(1).ptr > 0
                     [] i.oper = "temporary" -> n = 0 /\ i.imm \in -f.frame..-1 /\ i.imm % 2 = 0
                     [] OTHER -> FALSE
          [] i.op = "pointer.compare" -> n = 2 /\ i.type.base = "bool" /\ i.type.ptr = 0 /\ i.oper \in {"==", "!="} /\ ty(1).ptr > 0 /\ ty(2).ptr > 0
          [] i.op = "pointer.offset" ->
                LET scaled == i.oper \in {"scaled+", "scaled-"}
                IN  /\ i.oper \in {"+", "-", "scaled+", "scaled-"} /\ n = IF scaled THEN 3 ELSE 2
                    /\ i.imm \in 1..65528 /\ ty(1).ptr > 0 /\ sameValueType(i.type, ty(1)) /\ isIntegerType(ty(2))
                    /\ scaled => i.imm >= 4 /\ sameValueType(ty(2), UWordT) /\ sameValueType(ty(2), ty(3))
                    /\ (i.type.base # "struct" \/ i.type.ptr > 1) => i.imm = sizeInBytes(pointeeType(i.type))
          [] i.op = "load.indirect" ->
                n = 1 /\ ty(1).ptr > 0 /\ sameValueType(i.type, pointeeType(ty(1))) /\ i.vol = (ty(1).vol /\ ty(1).ptr = 1)
          [] i.op = "store.indirect" ->
                /\ n = 2 /\ ty(1).ptr > 0 /\ sameValueType(i.type, ty(2)) /\ sameValueType(i.type, pointeeType(ty(1)))
                /\ i.vol = (ty(1).vol /\ ty(1).ptr = 1)
          [] OTHER -> TRUE
\* The typing rules of arithmetic, calls and terminators.
ComputationOK(f, i, types) ==
    LET ty(n) == types[i.args[n]]
        n == Len(i.args)
        alone == i.targets = <<>>
    IN  CASE i.op = "divmod" ->
                n = 2 /\ alone /\ i.oper \in {"/", "%"} /\ i.type.base = "word" /\ i.type.ptr = 0
                /\ sameValueType(i.type, ty(1)) /\ sameValueType(i.type, ty(2))
          [] i.op = "divmod.result" ->
                /\ n = 1 /\ alone /\ i.oper \in {"/", "%"}
                /\ LET pair == definitions(f)[i.args[1]]
                   IN  pair.op = "divmod" /\ pair.oper # i.oper /\ sameValueType(i.type, pair.type)
          [] i.op = "binary" ->
                /\ n = 2 /\ i.oper \in BinaryOperations /\ isIntegerType(i.type) /\ isIntegerType(ty(1)) /\ isIntegerType(ty(2))
                /\ i.oper \notin {"<<", ">>"} => sameValueType(ty(1), ty(2))
          [] i.op = "bit.extract" ->
                n = 1 /\ alone /\ i.imm \in 0..15 /\ i.oper = "" /\ i.type.base = "word" /\ sameValueType(i.type, ty(1))
          [] i.op \in {"hardware_loop", "condbr", "switch"} -> isIntegerType(ty(1))
          [] i.op \in {"unary", "cast"} -> n = 1 /\ ~isVoidType(ty(1))
          [] i.op = "call" -> i.sym # "" /\ \A m \in 1..n : ~isVoidType(ty(m))
          [] i.op = "return" -> ~isVoidType(f.ret) /\ sameValueType(f.ret, ty(1))
          [] i.op = "return.void" -> isVoidType(f.ret)
          [] OTHER -> TRUE

SplitOK(i, types) ==
    i.split => /\ i.op = "cast" /\ Len(i.args) = 1 /\ isIntegerType(i.type) /\ i.oper = ""
               /\ sameValueType(i.type, types[i.args[1]])

verifyFunction(f) ==
    /\ f.blocks # <<>> /\ \A b \in DOMAIN f.blocks : f.blocks[b] # <<>>
    /\ \A p \in Places(f) : InstructionOK(f, p[1], p[2])
    /\ ValuesContiguous(f) /\ LoopsUnique(f)
    /\ LET dom == Dominators(f)
           defs == definitions(f)
           types == [v \in DOMAIN defs |-> defs[v].type]
           home == [v \in DOMAIN defs |-> CHOOSE p \in ValuePlaces(f) : f.blocks[p[1]][p[2]].res = v]
       IN  /\ UnreachableMarked(f, DOMAIN dom)
           /\ HardwareScopes(f, dom)
           /\ ScopesAgree(f, [b \in {1} |-> <<>>], <<1>>)
           /\ \A p \in Places(f) :
                LET i == f.blocks[p[1]][p[2]]
                IN  /\ IF i.op = "phi" THEN PhiOK(f, p[1], i, types, home, dom)
                       ELSE \A n \in DOMAIN i.args : UseDominated(p[1], p[2], home[i.args[n]], dom)
                    /\ SplitOK(i, types)
                    /\ StorageOK(f, i, types) /\ ComputationOK(f, i, types)

verify(functions) == \A n \in DOMAIN functions : verifyFunction(functions[n])

===============================================================================
