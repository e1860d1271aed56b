--------------------------- MODULE MachineScheduler ---------------------------
(***************************************************************************)
(* GSUMachineScheduler::run: the post-allocation pass over the compiler's  *)
(* own object code. Each loop of run() is one operator on the decoded      *)
(* instruction list, and one step of the specification in BackEnd.tla.     *)
(*                                                                         *)
(* An object is a record: code (bytes), syms and rels (its symbols and     *)
(* relocations with their section; a name is private when it starts with   *)
(* the internal marker), hint (the CACHE alignment symbol) and level.      *)
(***************************************************************************)
EXTENDS GsuMachine, SequencesExt

Missing == -1
CodeSymbols(object) == {s \in object.syms : s.section = "CODE"}
CodeRelocations(object) == {r \in object.rels : r.section = "CODE"}
Unknown == 16

Plain(ins) == ins.alt = 0 /\ ins.src = 0 /\ ins.dst = 0 /\ ~ins.with
\* An instruction of the working list: its old offset, its bytes (empty once it
\* is only an anchor for a label), the prefix state it executes in, whether it
\* is a delay slot or the operand left behind by a split immediate, and the old
\* offset a branch goes to.
NewInstruction(old, bytes, target) ==
    [old |-> old, bytes |-> bytes, slot |-> FALSE, fragment |-> FALSE, plain |-> FALSE,
     alt |-> 4, src |-> Unknown, dst |-> Unknown, target |-> target]

RECURSIVE Boundaries(_, _)
Boundaries(code, p) ==
    IF p >= Len(code) THEN <<>>
    ELSE LET op == code[p + 1]
             n == 1 + OperandBytes(op)
         IN  <<NewInstruction(p, SubSeq(code, p + 1, p + n),
                              IF IsBranch(op) THEN p + 2 + Signed(code[p + 2]) ELSE Missing)>>
             \o Boundaries(code, p + n)

\* The offsets where control may enter: symbols (the alignment hint is one, at
\* offset 0) and branch targets.
Entries(object) ==
    {s.off : s \in CodeSymbols(object)} \cup (IF object.hint THEN {0} ELSE {}) \cup
    {i.target : i \in {x \in Range(Boundaries(object.code, 0)) : x.target # Missing}}

\* The selector state after an opcode; an entry label forgets it.
AfterPrefix(state, op) ==
    LET clear == [alt |-> 0, src |-> 0, dst |-> 0, with |-> FALSE] IN
    CASE op \in 32..47 -> [state EXCEPT !.src = op % 16, !.dst = op % 16, !.with = TRUE]
      [] op \in 16..31 -> IF state.with THEN clear ELSE [state EXCEPT !.dst = op % 16]
      [] op \in 176..191 -> IF state.with THEN clear ELSE [state EXCEPT !.src = op % 16]
      [] op = 63 -> [state EXCEPT !.alt = 3, !.with = FALSE]
      [] op \in {61, 62} -> [state EXCEPT !.with = FALSE,
            !.alt = IF @ = 4 THEN 4 ELSE IF @ \in {3, op - 60} THEN @ ELSE @ + op - 60]
      [] IsBranch(op) -> state
      [] OTHER -> clear

IsTransfer(op) == IsBranch(op) \/ op = 255 \/ op \in 152..157 \/ op = 60

Decode(object) ==
    LET entries == Entries(object)
        unknown == [alt |-> 4, src |-> Unknown, dst |-> Unknown, with |-> FALSE]
        visit(acc, i) ==
            LET state == IF i.old \in entries THEN unknown ELSE acc.state
                here == [i EXCEPT !.plain = Plain(state), !.alt = state.alt, !.src = state.src,
                                  !.dst = state.dst, !.slot = acc.last # Missing /\ IsTransfer(acc.last)]
            IN  [code |-> Append(acc.code, here), state |-> AfterPrefix(state, i.bytes[1]), last |-> i.bytes[1]]
    IN  Accumulate(visit, [code |-> <<>>, state |-> unknown, last |-> Missing],
                 Boundaries(object.code, 0)).code

\* The bytes a relocation patches.
RelocationOffsets(object) ==
    UNION {r.off..(r.off + (IF r.type = "ADDR24_BANK" THEN 1 ELSE 2)) : r \in CodeRelocations(object)}
Protected(object) == Entries(object) \cup RelocationOffsets(object)

\* freeRange over the instructions at positions first..last.
Free(code, first, last, offsets) ==
    \A n \in first..last : \A b \in 0..(Len(code[n].bytes) - 1) : code[n].old + b \notin offsets
OneByte(i, op) == ~i.fragment /\ i.bytes = <<op>>
Increment(i) == Len(i.bytes) = 1 /\ (i.bytes[1] \in 208..221 \/ i.bytes[1] \in 224..237)

BranchFlags(op) ==
    CASE op = 5 -> {} [] op \in 6..7 -> {"s", "v"} [] op \in 8..9 -> {"z"}
      [] op \in 10..11 -> {"s"} [] op \in 12..13 -> {"c"} [] op \in 14..15 -> {"v"}

\* The flags a one-byte register operation writes, or "none" when it may not sit
\* in a branch's slot at all.
FlagsWritten(i) ==
    LET op == i.bytes[1]
        immediate == i.alt \in {2, 3} /\ ~(op \in 96..111 /\ i.alt = 3)
    IN  CASE op \in 80..111 \/ op \in 113..143 \/ op \in 193..207 ->
               IF ~immediate /\ op % 16 >= 14 THEN {"none"}
               ELSE IF op <= 111 THEN {"s", "z", "c", "v"} ELSE {"s", "z"}
          [] op \in {3, 4, 150, 151} -> {"s", "z", "c"}
          [] op \in {77, 79, 149, 158, 192} -> {"s", "z"}
          [] op = 78 \/ (op = 76 /\ i.alt = 0) -> {}
          [] OTHER -> {"none"}

\* Mutant: the flags the branch tests are not compared with those written.
RegisterSlot_AnyFlags(i, branch) ==
    /\ Len(i.bytes) = 1 /\ i.alt <= 3 /\ i.src < 14 /\ i.dst < 14
    /\ "none" \notin FlagsWritten(i)
RegisterSlot(i, branch) ==
    /\ Len(i.bytes) = 1 /\ i.alt <= 3 /\ i.src < 14 /\ i.dst < 14
    /\ "none" \notin FlagsWritten(i)
    /\ FlagsWritten(i) \cap BranchFlags(branch) = {}

\* How many instructions from position at form one fault-free register
\* operation that touches none of the forbidden registers (0: none).
Independent(code, at, forbidden) ==
    LET i == code[at]
        op == i.bytes[1]
        r == op % 16
        next(k) == code[at + k].bytes[1]
    IN  IF at > Len(code) \/ ~i.plain \/ i.slot THEN 0
        ELSE IF Increment(i) \/ op \in 160..173 \/ op \in 240..253 THEN IF r \in forbidden THEN 0 ELSE 1
        ELSE IF /\ op \in 32..45 /\ at + 1 <= Len(code) /\ next(1) \in 16..29
                /\ r \notin forbidden /\ next(1) % 16 \notin forbidden THEN 2
        ELSE IF /\ op \in 32..45 /\ at + 2 <= Len(code) /\ next(1) = 62 /\ r \notin forbidden
                /\ next(2) \in 80..111 \cup 113..127 \cup 193..207 THEN 3
        ELSE IF 0 \in forbidden THEN 0
        ELSE IF op \in {3, 4, 77, 79, 149, 150, 151, 158, 192} THEN 1
        ELSE IF op \in 80..93 \cup 96..109 \cup 113..125 /\ r \notin forbidden THEN 1 ELSE 0

\* A private one-PLOT loop: PLOT / LOOP / NOP becomes LOOP / PLOT, the entry
\* label staying on the LOOP.
PixelEntries(object, code) ==
    LET literal == {i.old : i \in {x \in Range(code) : x.bytes[1] = 253 /\ x.alt = 0 /\ ~x.slot}}
        named(r) == {s.off : s \in {x \in CodeSymbols(object) : x.name = r.sym}}
        r13(r) == r.section = "CODE" /\ r.type = "ADDR16_IWT" /\ r.off \in literal
        private == {s.off : s \in {x \in CodeSymbols(object) : x.name.private}}
        blocked == {i.target : i \in Range(code)} \cup
                   {s.off : s \in {x \in CodeSymbols(object) : ~x.name.private}} \cup
                   UNION {named(r) : r \in {x \in object.rels : ~r13(x)}}
    IN  (private \cap UNION {named(r) : r \in {x \in object.rels : r13(x)}}) \ blocked

RECURSIVE PixelLoops(_, _, _)
PixelLoops(object, code, n) ==
    IF n + 2 > Len(code) THEN code
    ELSE LET before == code[n - 1]
             clear(i, op) == [i EXCEPT !.bytes = <<op>>, !.plain = TRUE, !.alt = 0, !.src = 0, !.dst = 0]
         IN  IF /\ OneByte(code[n], 76) /\ OneByte(code[n + 1], 60) /\ OneByte(code[n + 2], 1)
                /\ ~code[n].slot /\ code[n].old \in PixelEntries(object, Decode(object))
                /\ Free(code, n + 1, n + 2, Entries(object))
                /\ Free(code, n, n + 2, RelocationOffsets(object))
                /\ ~before.slot
                /\ \/ OneByte(before, 1) \/ OneByte(before, 2)
                   \/ Len(before.bytes) = 3 /\ before.bytes[1] = 253 /\ before.alt = 0
             THEN PixelLoops(object,
                    SubSeq(code, 1, n - 1)
                      \o <<clear(code[n], 60), [clear(code[n + 1], 76) EXCEPT !.slot = TRUE]>>
                      \o SubSeq(code, n + 3, Len(code)), n + 1)
             ELSE PixelLoops(object, code, n + 1)

\* Work that follows a ROM-buffer read moves before it (GETC, or TO Rd; GETB),
\* possibly across one PLOT.
RECURSIVE RomOverlap(_, _, _)
RomOverlap(object, code, n) ==
    IF n > Len(code) THEN code
    ELSE LET op == code[n].bytes[1]
             getc == op = 223 /\ code[n].plain
             getb == /\ op \in 16..29 /\ code[n].plain /\ n + 1 <= Len(code)
                     /\ code[n + 1].bytes[1] = 239 /\ code[n + 1].alt = 0
             end == IF getc THEN n + 1 ELSE n + 2
             held == IF getc THEN {} ELSE {op % 16}
             direct == Independent(code, end, held)
             plot == direct = 0 /\ end <= Len(code) /\ code[end].bytes[1] = 76 /\ code[end].plain
             gap == IF plot THEN 1 ELSE 0
             work == IF plot THEN Independent(code, end + 1, held \cup {1, 2}) ELSE direct
             last == end + gap + work - 1
         IN  IF code[n].slot \/ ~(getc \/ getb) THEN RomOverlap(object, code, n + 1)
             ELSE IF work = 0 \/ ~Free(code, n, last, Protected(object)) THEN RomOverlap(object, code, n + 1)
             ELSE RomOverlap(object,
                    SubSeq(code, 1, n - 1) \o SubSeq(code, end + gap, last)
                      \o SubSeq(code, n, end + gap - 1) \o SubSeq(code, last + 1, Len(code)),
                    end + gap + work)

\* The instruction before a transfer moves into its NOP slot: a register
\* operation whose flags the branch does not read, the second half of a register
\* copy, or an INC/DEC/PLOT in front of the transfers it does not disturb.
CopyHalf(code, n) ==
    LET op == code[n].bytes[1]
        half == code[n - 1].bytes[1]
    IN  /\ n >= 3 /\ IsBranch(op)
        /\ code[n - 2].bytes[1] \in 32..45
        /\ half \in 16..29 \/ (half \in 176..189 /\ op \in {5, 12, 13})

\* The position of the slot an INC, DEC or PLOT before position n may fill
\* (0: none).
PlainSlot(code, n) ==
    LET c == code[n - 1]
        op == code[n].bytes[1]
        r == c.bytes[1] % 16
    IN  IF ~c.plain \/ ~(Increment(c) \/ c.bytes[1] = 76) THEN 0
        ELSE IF op = 5 \/ (op = 255 /\ code[n].alt = 0) THEN IF Increment(c) THEN n + 1 ELSE 0
        ELSE IF op \in 6..15 THEN IF Increment(c) /\ op >= 12 THEN n + 1 ELSE 0
        ELSE IF op \in 152..157 /\ code[n].alt = 0 THEN IF Increment(c) /\ r # op % 16 THEN n + 1 ELSE 0
        ELSE IF op = 148 /\ n + 2 <= Len(code) /\ code[n + 1].bytes[1] = 255 /\ code[n + 1].alt = 0
             THEN IF Increment(c) /\ r # 11 THEN n + 2 ELSE 0
        ELSE IF op = 60 /\ c.bytes[1] = 76 THEN n + 1 ELSE 0

RECURSIVE FillSlots(_, _, _)
FillSlots(object, code, n) ==
    IF n + 1 > Len(code) THEN code
    ELSE LET entries == Entries(object)
             guarded == Protected(object)
             op == code[n].bytes[1]
             slot == PlainSlot(code, n)
             \* Position at, the slot, takes the candidate; the list shrinks by one.
             moved(at) == SubSeq(code, 1, n - 2) \o SubSeq(code, n, at - 1)
                            \o <<[code[n - 1] EXCEPT !.slot = TRUE]>> \o SubSeq(code, at + 1, Len(code))
             next == IF n > 2 THEN n ELSE n + 1
         IN  IF code[n - 1].slot THEN FillSlots(object, code, n + 1)
             ELSE IF /\ IsBranch(op) /\ RegisterSlot(code[n - 1], op) /\ OneByte(code[n + 1], 1)
                     /\ Free(code, n - 1, n + 1, entries)
                     /\ Free(code, n - 1, n - 1, guarded) /\ Free(code, n + 1, n + 1, guarded)
             THEN FillSlots(object, moved(n + 1), next)
             ELSE IF /\ CopyHalf(code, n) /\ OneByte(code[n + 1], 1)
                     /\ Free(code, n - 2, n + 1, entries)
                     /\ Free(code, n - 2, n - 1, guarded) /\ Free(code, n + 1, n + 1, guarded)
             THEN FillSlots(object, moved(n + 1), next)
             ELSE IF /\ slot \in 1..Len(code) /\ code[slot].bytes[1] = 1
                     /\ Free(code, n - 1, slot, entries)
                     /\ Free(code, slot, slot, guarded) /\ Free(code, n - 1, n - 1, guarded)
             THEN FillSlots(object, moved(slot), next)
             ELSE FillSlots(object, code, n + 1)

\* Branches of the list that go to an old offset, and the offsets another object
\* or an absolute reference may enter.
Incoming(code, off) == Cardinality({n \in DOMAIN code : code[n].target = off /\ off # Missing})
SymbolOffset(object, name) == {s.off : s \in {x \in CodeSymbols(object) : x.name = name}}
ExternalTargets(object) ==
    {s.off : s \in {x \in CodeSymbols(object) : ~x.name.private}} \cup
    UNION {SymbolOffset(object, r.sym) : r \in object.rels}

\* Bcc / NOP / literal / STOP / NOP / selector: the selector of the taken path
\* moves into Bcc's slot, over the fault path that resets it.
FaultSelector(object, code, n) ==
    LET op == code[n].bytes[1]
        reset == code[n + 2]
        prefix == code[n + 5]
    IN  /\ code[n].bytes # <<>> /\ op \in 6..15 /\ code[n].plain /\ ~code[n].slot /\ OneByte(code[n + 1], 1)
        /\ reset.bytes # <<>>
        /\ \/ reset.bytes[1] \in 160..173 /\ Len(reset.bytes) = 2
           \/ reset.bytes[1] \in 240..253 /\ Len(reset.bytes) = 3
        /\ OneByte(code[n + 3], 0) /\ OneByte(code[n + 4], 1)
        /\ Len(prefix.bytes) = 1 /\ prefix.bytes[1] \in 16..29 \cup 32..45 \cup 176..189
        /\ code[n].target = prefix.old /\ Incoming(code, prefix.old) = 1
        /\ prefix.old \notin ExternalTargets(object)
        /\ Free(code, n + 1, n + 1, Protected(object)) /\ prefix.old \notin RelocationOffsets(object)

RECURSIVE FaultSelectors(_, _, _)
FaultSelectors(object, code, n) ==
    IF n + 6 > Len(code) THEN code
    ELSE FaultSelectors(object,
           IF FaultSelector(object, code, n)
           THEN [code EXCEPT ![n + 1].bytes = code[n + 5].bytes, ![n + 1].slot = TRUE, ![n + 5].bytes = <<>>]
           ELSE code, n + 1)

\* Incoming counts are those of the list before this loop, base: run() does not
\* refresh them.
\* Bcc exit / NOP / BRA body / NOP / exit becomes inverse-Bcc body / NOP / exit.
CompactBranch(object, base, code, n) ==
    LET op == code[n].bytes[1] IN
    /\ code[n].bytes # <<>> /\ op \in 6..15 /\ ~code[n].slot /\ OneByte(code[n + 1], 1)
    /\ Len(code[n + 2].bytes) = 2 /\ code[n + 2].bytes[1] = 5 /\ OneByte(code[n + 3], 1)
    /\ code[n].target = code[n + 4].old /\ code[n + 2].target # Missing
    /\ \A p \in (n + 1)..(n + 3) : Incoming(base, code[p].old) = 0 /\ code[p].old \notin ExternalTargets(object)
    /\ Free(code, n, n + 3, RelocationOffsets(object))

RECURSIVE CompactBranches(_, _, _, _)
CompactBranches(object, base, code, n) ==
    IF n + 4 > Len(code) THEN code
    ELSE CompactBranches(object, base,
           IF CompactBranch(object, base, code, n)
           THEN LET op == code[n].bytes[1] IN
                [code EXCEPT ![n].bytes[1] = IF op % 2 = 0 THEN op + 1 ELSE op - 1, ![n].target = code[n + 2].target,
                             ![n + 2].bytes = <<>>, ![n + 2].target = Missing, ![n + 3].bytes = <<>>]
           ELSE code, n + 1)

\* The byte at which each instruction of the list, and the end, starts.
Starts(code) == Accumulate(LAMBDA a, i : Append(a, a[Len(a)] + Len(i.bytes)), <<0>>, code)
\* Where each old offset starts in the list as it is now.
Positions(object, code) ==
    LET starts == Starts(code)
    IN  [off \in 0..Len(object.code) |->
            IF off = Len(object.code) THEN starts[Len(code) + 1]
            ELSE LET at == {n \in DOMAIN code : code[n].old = off}
                 IN  IF at = {} THEN Missing ELSE starts[CHOOSE n \in at : \A k \in at : k <= n]]

\* The old offset an IWT with a symbol relocation loads.
JumpTarget(object, off) ==
    UNION {SymbolOffset(object, r.sym) : r \in {x \in CodeRelocations(object) : x.off = off /\ x.type = "ADDR16_IWT"}}

\* A symbol-resolved PC literal that is no call and is near enough for BRA.
Shortens(object, code, positions, n) ==
    LET i == code[n] IN
    /\ JumpTarget(object, i.old) # {} /\ Len(i.bytes) = 3 /\ i.bytes[1] = 255 /\ i.plain /\ ~i.slot
    /\ ~(n > 1 /\ Len(code[n - 1].bytes) = 1 /\ code[n - 1].bytes[1] \in 145..148)
    /\ {i.old + 1, i.old + 2} \cap Entries(object) = {} /\ i.old + 3 \notin RelocationOffsets(object)
    /\ LET here == positions[i.old]
           there == positions[CHOOSE t \in JumpTarget(object, i.old) : TRUE]
       IN  /\ here # Missing /\ there # Missing
           /\ there - (here + 2) - (IF there > here THEN 1 ELSE 0) \in -128..127

RECURSIVE ShortenJumps(_, _, _)
ShortenJumps(object, code, round) ==
    LET positions == Positions(object, code)
        chosen == {n \in DOMAIN code : Shortens(object, code, positions, n)}
    IN  IF round = 8 \/ chosen = {} THEN code
        ELSE ShortenJumps(object,
               [n \in DOMAIN code |->
                  IF n \in chosen
                  THEN [code[n] EXCEPT !.bytes = <<5, 0>>,
                                       !.target = CHOOSE t \in JumpTarget(object, code[n].old) : TRUE]
                  ELSE code[n]], round + 1)

PublicAt(object, off) == \E s \in CodeSymbols(object) : s.off = off /\ ~s.name.private
\* Branches and relocated jumps to an old offset. The jump map is keyed by the
\* relocation, so a jump that became a BRA is counted twice.
EntryCount(object, code, off) ==
    Incoming(code, off) + Cardinality({r \in CodeRelocations(object) : r.type = "ADDR16_IWT" /\ off \in SymbolOffset(object, r.sym)})

\* An INC or DEC that is itself the entry of a BRA becomes that BRA's slot.
EntryIncrement(object, base, code, n) ==
    /\ code[n - 1].bytes # <<>> /\ ~code[n - 1].slot /\ Increment(code[n - 1])
    /\ Len(code[n].bytes) = 2 /\ code[n].bytes[1] = 5 /\ OneByte(code[n + 1], 1)
    /\ code[n - 1].old \in Entries(object) /\ code[n].old \notin Entries(object)
    /\ EntryCount(object, base, code[n].old) = 0
    /\ ~PublicAt(object, code[n - 1].old) /\ ~PublicAt(object, code[n].old)
    /\ Free(code, n - 1, n - 1, RelocationOffsets(object)) /\ Free(code, n + 1, n + 1, Protected(object))

RECURSIVE EntryIncrements(_, _, _, _)
EntryIncrements(object, base, code, n) ==
    IF n + 1 > Len(code) THEN code
    ELSE EntryIncrements(object, base,
           IF EntryIncrement(object, base, code, n)
           THEN [code EXCEPT ![n + 1].bytes = code[n - 1].bytes, ![n + 1].slot = TRUE,
                             ![n - 1].bytes = <<>>, ![n - 1].target = Missing]
           ELSE code, n + 1)

UnconditionalExit(i) ==
    /\ i.bytes # <<>>
    /\ \/ i.bytes = <<0>> \/ (i.bytes[1] = 5 /\ Len(i.bytes) = 2)
       \/ i.alt = 0 /\ ((i.bytes[1] \in 152..157 /\ Len(i.bytes) = 1) \/ (i.bytes[1] = 255 /\ Len(i.bytes) = 3))
SplitImmediate(i) ==
    /\ ~i.slot
    /\ (Len(i.bytes) = 2 /\ i.bytes[1] \in 160..174) \/ (Len(i.bytes) = 3 /\ i.bytes[1] \in 240..254)

\* Where the unconditional jump at position n goes, as an old offset.
JumpDestination(object, code, n) ==
    IF Len(code[n].bytes) = 2 /\ code[n].bytes[1] = 5 /\ code[n].plain THEN {code[n].target}
    ELSE IF Len(code[n].bytes) = 3 /\ code[n].bytes[1] = 255 /\ code[n].alt = 0
    THEN JumpTarget(object, code[n].old) ELSE {}
\* Ways into an old offset as planImmediateSlots counts them.
SplitIncoming(object, code, off) ==
    Incoming(code, off) + Cardinality({n \in DOMAIN code :
        /\ code[n].target = Missing /\ Len(code[n].bytes) = 3 /\ code[n].bytes[1] = 255
        /\ off \in JumpTarget(object, code[n].old)})

\* The position of the immediate whose opcode the jump at n may take into its
\* slot, its operand staying at the target (0: none).
SplitTarget(object, base, code, n) ==
    LET goal == JumpDestination(object, code, n)
        at == {k \in DOMAIN base : base[k].old # Missing /\ base[k].bytes # <<>> /\ base[k].old \in goal}
        k == CHOOSE x \in at : TRUE
        before == {p \in 1..(k - 1) : code[p].bytes # <<>>}
        predecessor == IF before = {} THEN 0 ELSE CHOOSE p \in before : \A q \in before : q <= p
    IN  IF /\ ~code[n].slot /\ OneByte(code[n + 1], 1)
           /\ ~(n > 1 /\ code[n - 1].bytes # <<>> /\ code[n - 1].bytes[1] \in 145..148)
           /\ \E t \in goal : SplitIncoming(object, base, t) = 1
           /\ at # {} /\ SplitImmediate(code[k]) /\ ~PublicAt(object, code[k].old)
           /\ Free(code, k, k, RelocationOffsets(object)) /\ Free(code, n + 1, n + 1, Protected(object))
           /\ predecessor \in {0, n + 1} \/ UnconditionalExit(code[predecessor])
        THEN k ELSE 0

RECURSIVE ImmediateSlots(_, _, _, _)
ImmediateSlots(object, base, code, n) ==
    IF n + 1 > Len(code) THEN code
    ELSE LET k == SplitTarget(object, base, code, n)
         IN  ImmediateSlots(object, base,
               IF k = 0 THEN code
               ELSE [code EXCEPT ![n + 1].bytes = <<code[k].bytes[1]>>, ![n + 1].slot = TRUE,
                                 ![k].bytes = Tail(@), ![k].fragment = TRUE], n + 1)

\* In an aligned object a CACHE that selects the window its straight-line
\* predecessor already selected is dropped.
DropNestedCaches(object, code) ==
    LET forget == [window |-> FALSE, clear |-> FALSE]
        visit(acc, i) ==
            LET know == IF i.old \in Entries(object) THEN forget ELSE acc.know
                op == i.bytes[1]
                next == acc.position + Len(i.bytes)
                keep(k, anchor) == [code |-> Append(acc.code, i), know |-> k, anchor |-> anchor, position |-> next]
            IN  IF i.bytes = <<>> \/ i.fragment THEN keep(know, acc.anchor)
                ELSE IF i.slot \/ IsTransfer(op) \/ op = 0 \/ op \in 145..148 THEN keep(forget, acc.anchor)
                ELSE IF ~OneByte(i, 2)
                THEN keep([know EXCEPT !.clear = op \notin 16..47 \cup 176..191 \cup 61..63], acc.anchor)
                ELSE IF know.window /\ know.clear /\ next \div 16 = acc.anchor \div 16
                THEN [acc EXCEPT !.code = Append(@, [i EXCEPT !.bytes = <<>>, !.target = Missing]), !.know = know]
                ELSE keep([window |-> TRUE, clear |-> TRUE], next)
    IN  IF ~object.hint \/ (\E i \in Range(code) : OneByte(i, 2) /\ PublicAt(object, i.old)) THEN code
        ELSE Accumulate(visit, [code |-> <<>>, know |-> forget, anchor |-> 0, position |-> 0], code).code

\* Function-entry CACHE opcodes are padded so that the byte after them starts a
\* cache line; the entry label follows the padding.
Aligned(object, code) ==
    LET visit(acc, i) ==
            LET pad == IF OneByte(i, 2) /\ PublicAt(object, i.old) THEN (15 - acc.bytes) % 16 ELSE 0
            IN  [code |-> acc.code \o [k \in 1..pad |-> NewInstruction(Missing, <<1>>, Missing)] \o <<i>>,
                 bytes |-> acc.bytes + pad + Len(i.bytes)]
    IN  Accumulate(visit, [code |-> <<>>, bytes |-> 0], code).code

\* The new object, or no object when a branch left its range: every symbol,
\* branch and remaining relocation is moved to the new offset of its old one.
Assembled(object, code) ==
    LET starts == Starts(code)
        owner(off) == {n \in DOMAIN code : code[n].old # Missing /\
                          off \in code[n].old..(code[n].old + (IF code[n].bytes = <<>> THEN 0 ELSE Len(code[n].bytes) - 1))}
        place(off) == IF off = Len(object.code) THEN starts[Len(code) + 1]
                      ELSE LET n == CHOOSE k \in owner(off) : \A j \in owner(off) : j <= k
                           IN  starts[n] + off - code[n].old
        distance(i) == place(i.target) - (place(i.old) + 2)
        emitted(i) == IF i.target = Missing THEN i.bytes ELSE <<i.bytes[1], distance(i) % 256>>
        gone == {i.old : i \in {x \in Range(code) : x.bytes # <<>> /\ x.bytes[1] = 5}}
    IN  [ok |-> \A i \in Range(code) : i.target # Missing => distance(i) \in -128..127,
         object |-> [object EXCEPT
            !.code = Accumulate(LAMBDA a, i : a \o emitted(i), <<>>, code),
            !.syms = {IF s.section = "CODE" THEN [s EXCEPT !.off = place(s.off)] ELSE s : s \in @},
            !.rels = {IF r.section = "CODE" THEN [r EXCEPT !.off = place(r.off)] ELSE r :
                         r \in {x \in @ : x.section # "CODE" \/ x.off \notin gone}}]]

\* layout(): with padding and the hint if that fits, as it is otherwise.
Laid(object, code) ==
    LET entry == \E i \in Range(code) : OneByte(i, 2) /\ PublicAt(object, i.old)
        padded == Assembled(object, Aligned(object, code))
    IN  IF object.level # "Os" /\ entry /\ padded.ok
        THEN [padded EXCEPT !.object.hint = TRUE] ELSE Assembled(object, code)

\* The last loop of run(): the plans, or the list without them, or the object
\* unchanged when neither keeps every branch in range.
Publish(object, planned, unplanned) ==
    IF Laid(object, planned).ok THEN Laid(object, planned).object
    ELSE IF Laid(object, unplanned).ok THEN Laid(object, unplanned).object ELSE object
================================================================================
