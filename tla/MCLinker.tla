------------------------------ MODULE MCLinker ------------------------------
(***************************************************************************)
(* Invocations of the linker.  Layouts: two objects with every mix of      *)
(* section sizes and alignments, data referenced globally and locally.     *)
(* Placements: one object with static RAM, a bitmap and a stack at         *)
(* neighbouring addresses.  Kinds: every relocation type against every     *)
(* kind of target.  Edges: bank ends, budgets, options and bad objects.    *)
(***************************************************************************)
EXTENDS Linker

NoBitmap == [enabled |-> FALSE, base |-> 0, height |-> 128, depth |-> 4]
Frame4 == [S4 |-> 4]
Sym(n, section, o) == [name |-> n, section |-> section, offset |-> o]
Rel(t, section, o, type) == [target |-> t, section |-> section, offset |-> o, type |-> type]

Plain == [code |-> 5, data |-> 0, ram |-> <<>>, cache |-> FALSE,
          data_alignment |-> 1, ram_alignment |-> 2,
          symbols |-> {Sym("main", "CODE", 0)}, relocations |-> <<>>,
          target |-> "GSU", mapping |-> "LoROM", origin |-> 32768, bitmap |-> NoBitmap]
Usual == [origin |-> Default, ram_bank |-> 0, rom_bank |-> Default, ram_origin |-> 1024,
          stack_pointer |-> 8192, init |-> TRUE, host_globals |-> FALSE,
          runtime_options |-> FALSE, entry |-> "main", execution |-> "Automatic",
          target |-> Default, mapping |-> Default, assembly |-> FALSE, outputs_distinct |-> TRUE]
Hosted == [Usual EXCEPT !.init = FALSE, !.host_globals = TRUE]
Link(os, op) == [objects |-> os, options |-> op]

\* Two objects, each reading its own table (L1) and one of the other's symbols.
First(code, data, align, cache) ==
    [Plain EXCEPT !.code = code, !.data = data, !.data_alignment = align, !.cache = cache,
        !.symbols = {Sym("main", "CODE", 0), Sym("L1", IF data > 3 THEN "DATA" ELSE "CODE", 1),
                     Sym("g", "RAM", 1)},
        !.ram = <<7, 0, 9>>,
        !.relocations = <<Rel("f", "CODE", 0, "ADDR16_JAL"), Rel("L1", "CODE", 3, "ADDR24_OFFSET")>>]
Second(code, data, align, cache) ==
    [Plain EXCEPT !.code = code, !.data = data, !.data_alignment = align, !.cache = cache,
        !.ram_alignment = 4, !.ram = <<0, 0, 0, 5>>,
        !.symbols = {Sym("f", "CODE", 1), Sym("L1", "DATA", 0), Sym("d", "DATA", data - 1)},
        !.relocations = <<Rel("L1", "CODE", 0, "ADDR24_BANK"), Rel("g", "CODE", 2, "ADDR16_RAM"),
                          Rel("d", "DATA", 0, "ADDR16_IWT")>>]
Layouts ==
    {Link(<<First(c1, d1, a1, h1), Second(c2, d2, a2, h2)>>, op) :
        c1 \in {6, 7}, d1 \in {0, 4}, a1 \in {1, 4}, h1 \in BOOLEAN,
        c2 \in {5, 8}, d2 \in {3, 4}, a2 \in {1, 2, 8}, h2 \in BOOLEAN,
        op \in {Usual, Hosted, [Hosted EXCEPT !.origin = 4194307]}}

\* Static RAM, bitmap, RAM code and stack close together in bank $70 or $71.
Placed(ram, bits) ==
    [Plain EXCEPT !.ram = ram, !.ram_alignment = 1, !.bitmap = bits,
        !.relocations = <<Rel("S4", "CODE", 0, "ADDR16_RAM")>>]
Bits(base) == [enabled |-> TRUE, base |-> base, height |-> 128, depth |-> 2]   \* 8 KiB
Placements ==
    {Link(<<Placed(ram, bits)>>, [op EXCEPT !.origin = o, !.ram_bank = b, !.ram_origin = r,
                                            !.stack_pointer = sp]) :
        ram \in {<<>>, <<1>>, <<0, 3, 0>>}, bits \in {NoBitmap, Bits(0), Bits(1024), Bits(64512)},
        op \in {Usual, Hosted}, o \in {32768, RamBase, RamBase + 980, RamBase + 65536},
        b \in 0 .. 1, r \in {0, 60, 1020, 9214, 65534}, sp \in {8, 64, 1022, 1062, 9216}}

\* Every relocation type against every kind of target.
Kinds ==
    {Link(<<[Plain EXCEPT !.code = 4, !.data = 4, !.ram = <<1, 1>>, !.origin = o, !.target = t,
                !.symbols = {Sym("main", "CODE", 0), Sym("f", "CODE", 4), Sym("d", "DATA", 1),
                             Sym("P1", "DATA", p), Sym("L1", "CODE", 0), Sym("g", "RAM", 0)},
                !.relocations = <<Rel(n, s, 0, type)>> \o more]>>,
          [Hosted EXCEPT !.ram_bank = b, !.rom_bank = rb]) :
        o \in {32768, RamBase + 32768}, t \in {"GSU"}, p \in {1, 4},
        n \in {"main", "f", "d", "P1", "L1", "g", "x", "S4", "nearram", "nearrom"},
        s \in {"CODE", "DATA"}, type \in RelocationType, b \in 0 .. 1, rb \in {Default, 64},
        more \in {<<>>, <<Rel("nearrom", "CODE", 2, "ADDR24_BANK")>>}}

Bare == [Usual EXCEPT !.init = FALSE]
Big(c, d) == [Plain EXCEPT !.code = c, !.data = d, !.data_alignment = 8]
EdgeOptions == {Bare, Usual, [Usual EXCEPT !.host_globals = TRUE], [Bare EXCEPT !.runtime_options = TRUE],
                [Bare EXCEPT !.ram_origin = 3], [Usual EXCEPT !.stack_pointer = 6],
                [Usual EXCEPT !.stack_pointer = 9], [Bare EXCEPT !.outputs_distinct = FALSE],
                [Bare EXCEPT !.execution = "Ram"], [Bare EXCEPT !.target = "SPC700"],
                [Bare EXCEPT !.mapping = "HiROM"], [Usual EXCEPT !.entry = "f"],
                [Bare EXCEPT !.assembly = TRUE]}
Spc == [Plain EXCEPT !.target = "SPC700", !.relocations = <<Rel("main", "CODE", 0, "ADDR16_IWT")>>]
Other == [Plain EXCEPT !.symbols = {}]
Edges ==
    {Link(<<Plain>>, op) : op \in EdgeOptions}
    \cup {Link(<<Big(c, d)>>, [Bare EXCEPT !.origin = 65536 - 16]) : c \in 1 .. 16, d \in 0 .. 9}
    \cup {Link(<<Big(c, 1), Big(3, d)>>, [Bare EXCEPT !.origin = 65536 - 16]) : c \in 1 .. 8, d \in 0 .. 9}
    \cup {Link(<<Plain, o>>, Usual) : o \in
            {Plain, Other, [Other EXCEPT !.mapping = "HiROM"], [Other EXCEPT !.origin = 0],
             [Other EXCEPT !.symbols = {Sym("S4", "CODE", 0)}],
             [Other EXCEPT !.symbols = {Sym("d", "DATA", 1)}],
             [Other EXCEPT !.data = 1, !.symbols = {Sym("main", "DATA", 0)}],
             [Other EXCEPT !.ram = <<1>>, !.symbols = {Sym("main", "RAM", 0)}],
             [Other EXCEPT !.relocations = <<Rel("main", "CODE", 3, "ADDR16_JAL")>>],
             [Other EXCEPT !.relocations = <<Rel("main", "CODE", 0, "ADDR16_JAL"),
                                             Rel("main", "CODE", 1, "ADDR16_JAL")>>],
             [Other EXCEPT !.data_alignment = 3],
             [Other EXCEPT !.bitmap = Bits(50)], [Other EXCEPT !.bitmap = Bits(130048)]}}
    \cup {Link(<<[Plain EXCEPT !.bitmap = Bits(0)], [Other EXCEPT !.bitmap = Bits(1024)]>>, Usual),
          Link(<<[Plain EXCEPT !.ram = <<1>>, !.symbols = {Sym("main", "CODE", 0), Sym("g", "RAM", 0)}],
                 [Other EXCEPT !.ram = <<1>>, !.symbols = {Sym("g", "RAM", 0)}]>>, Usual),
          Link(<<[Plain EXCEPT !.ram = <<1>>]>>, Bare),
          Link(<<Other, Other, Other>>, Bare)}
    \cup {Link(<<[Other EXCEPT !.ram = <<1>>], [Other EXCEPT !.ram_alignment = 16, !.ram = <<1, 1>>]>>,
               [Hosted EXCEPT !.ram_origin = r]) : r \in {65520, 65532}}
    \cup {Link(<<Spc>>, Bare), Link(<<[Spc EXCEPT !.origin = 65536]>>, Bare)}

AllLinks == Layouts \cup Placements \cup Kinds \cup Edges
=============================================================================
