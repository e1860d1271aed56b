------------------------------- MODULE Linker -------------------------------
(***************************************************************************)
(* discld (LinkerDriver.cpp, runLinker): options, loading, layout of       *)
(* static RAM, code and data, placement checks, relocation, output.        *)
(*                                                                         *)
(* A byte of the image is a cell [tag, value]: the tag says which byte of  *)
(* which input section it is (or padding, or startup code) and never       *)
(* changes; the value is "own" until a relocation patches it with a part   *)
(* of an address.  The tags let the properties say where a symbol really   *)
(* ended up, independently of the arithmetic that the code uses.           *)
(***************************************************************************)
EXTENDS GsuMemoryMap, ObjectFormat, FiniteSetsExt, SequencesExt

CONSTANTS
    Links,           \* invocations: [objects : Seq(Object), options : Options]
    StackLimit,      \* stack-limit symbol name -> bytes the frame needs
    PoolName,        \* local names of immutable array pools
    NearRam, NearRom,\* the two bank-context symbols
    MaxLinkBytes,    \* record budget of one link (128 MiB)
    Default          \* an option that was not given

Word == 0 .. 65535
StackPointer == 0 .. 65534       \* the word at the stack pointer is in its bank
Options == [origin : Nat \cup {Default}, ram_bank : 0 .. 1, rom_bank : (0 .. 95) \cup {Default},
            ram_origin : Word, stack_pointer : StackPointer,
            init : BOOLEAN, host_globals : BOOLEAN, runtime_options : BOOLEAN,
            entry : SymbolName, execution : {"Automatic", "Rom", "Ram"},
            target : {Default, "GSU", "SPC700"}, mapping : {Default, "LoROM", "HiROM"},
            assembly : BOOLEAN, outputs_distinct : BOOLEAN]

ASSUME LinkerAssumption ==
    /\ LocalName \subseteq SymbolName /\ PoolName \subseteq LocalName
    /\ DOMAIN StackLimit \subseteq SymbolName \ LocalName
    /\ \A name \in DOMAIN StackLimit : StackLimit[name] \in Nat
    /\ NearRam \in SymbolName \ LocalName /\ NearRom \in SymbolName \ LocalName
    /\ MaxLinkBytes \in Nat /\ NameBytes \in Nat
    /\ \A l \in Links : l.objects \in Seq(Object) /\ l.options \in Options

VARIABLES
    link,            \* the invocation: input objects and options
    phase, at, rel,  \* position: phase, object index, relocation index
    record_bytes,    \* decoded bytes charged so far
    final_ram, ram_bases,
    final_code, code_bases, final_data,
    symbols,         \* final_addresses, final_sections and code_targets
    data_start, data_base, stack_floor,
    binary, assembly,\* output files: "old", "torn", "new"
    status           \* exit status, -1 while running

layoutVars == <<final_ram, ram_bases, final_code, code_bases, final_data, symbols,
                data_start, data_base, stack_floor>>
outputs == <<binary, assembly>>
vars == <<link, phase, at, rel, record_bytes, layoutVars, outputs, status>>

objects == link.objects
options == link.options
Current == objects[at]
first == objects[1]
bitmap == LET with == {k \in 1 .. Len(objects) : objects[k].bitmap.enabled}
          IN  IF with = {} THEN first.bitmap ELSE objects[CHOOSE k \in with : TRUE].bitmap
IsGSU == first.target = "GSU"
code_start == IF options.origin = Default THEN first.origin ELSE options.origin
rom_bank == IF options.rom_bank # Default THEN options.rom_bank
            ELSE IF bank(code_start) <= 95 THEN bank(code_start) ELSE 0
ram_bank_base == RamBase + options.ram_bank * BankSize
static_start == ram_bank_base + options.ram_origin
payload_size == Len(final_code) + Len(final_data)

Cell(tag) == [tag |-> tag, value |-> "own"]
Bytes(k, section) ==
    [i \in 1 .. SectionSize(objects[k], section) |-> Cell(<<k, section, i - 1>>)]
Padding(n) == [i \in 1 .. n |-> Cell(<<"pad">>)]

\* Bytes to add to `position' to reach a multiple of `alignment'.
PadTo(position, alignment) == (alignment - (position % alignment)) % alignment

CodeBytes(n) == MapThenSumSet(LAMBDA k : objects[k].code, 1 .. n)
DataBytes(n) == MapThenSumSet(LAMBDA k : objects[k].data, 1 .. n)
RamBytes(n)  == MapThenSumSet(LAMBDA k : Len(objects[k].ram), 1 .. n)

-----------------------------------------------------------------------------
(***************************************************************************)
(* makeRuntimeInitialization: set the RAM bank and the stack pointer,      *)
(* clear the static image with a byte loop, store its nonzero words (the   *)
(* odd tail as a byte), jump to the entry.                                 *)
(***************************************************************************)
LiteralBytes(value) == IF value <= 127 \/ value >= 65408 THEN 2 ELSE 3

ByteAt(image, i) == IF i <= Len(image) THEN image[i] ELSE 0
NonzeroWords(image) ==
    {i \in 1 .. Len(image) : i % 2 = 1 /\ (image[i] # 0 \/ ByteAt(image, i + 1) # 0)}
\* Mutant: the odd tail is stored as a word.
Stores_WordTail(image) ==
    {[address |-> options.ram_origin + i - 1,
      value   |-> ByteAt(image, i) + 256 * ByteAt(image, i + 1),
      bytes   |-> 2] : i \in NonzeroWords(image)}
Stores(image) ==
    {[address |-> options.ram_origin + i - 1,
      value   |-> ByteAt(image, i) + 256 * ByteAt(image, i + 1),
      bytes   |-> IF i = Len(image) THEN 1 ELSE 2] : i \in NonzeroWords(image)}

startup_size ==
    LET image == final_ram
        clear == 2 + LiteralBytes(options.ram_origin) + LiteralBytes(Len(image) % 65536) + 7
        store(s) == LiteralBytes(s.address) + LiteralBytes(s.value) + (3 - s.bytes)
        stored == UNION {{s} \X (1 .. store(s)) : s \in Stores(image)}   \* its code, byte by byte
    IN  IF ~options.init THEN 0
        ELSE 4 + LiteralBytes(options.stack_pointer)
               + (IF image = <<>> THEN 0 ELSE clear + Cardinality(stored)) + 4
entry_patch == startup_size - 3     \* operand of the final IWT R15

-----------------------------------------------------------------------------
Init ==
    /\ link \in Links
    /\ phase = "options" /\ at = 1 /\ rel = 1 /\ record_bytes = 0
    /\ final_ram = <<>> /\ ram_bases = <<>>
    /\ final_code = <<>> /\ code_bases = <<>> /\ final_data = <<>>
    /\ symbols = {}
    /\ data_start = 0 /\ data_base = 0 /\ stack_floor = 0
    /\ binary = "old" /\ assembly = "old" /\ status = -1

Go(p) == phase' = p /\ at' = 1 /\ rel' = 1
Exit(code) == phase' = "done" /\ status' = code
Fail == Exit(1) /\ UNCHANGED <<link, at, rel, record_bytes, layoutVars, outputs>>

\* --- Options ---------------------------------------------------------------
OptionsAccepted ==
    /\ options.runtime_options => options.init
    /\ options.ram_origin % 2 = 0
    /\ ~(options.host_globals /\ options.init)
    /\ options.init => options.stack_pointer >= 8 /\ options.stack_pointer % 2 = 0
    /\ options.outputs_distinct
    /\ objects # <<>>

ReadOptions ==
    /\ phase = "options" /\ OptionsAccepted
    /\ Go("load")
    /\ UNCHANGED <<link, record_bytes, layoutVars, outputs, status>>

\* --- 1. Load all object files, one per step --------------------------------
Compatible(a, b) ==
    /\ a.target = b.target /\ a.mapping = b.mapping
    /\ options.origin = Default => a.origin = b.origin

LoadAccepted ==
    /\ validate(Current)
    /\ RecordBytes(Current) <= MaxLinkBytes - record_bytes
    /\ at = 1 => /\ options.target \in {Default, Current.target}
                 /\ options.mapping \in {Default, Current.mapping}
    /\ Compatible(first, Current)
    /\ Current.target = "GSU" =>
          /\ validatePayload(IF options.origin = Default THEN Current.origin ELSE options.origin,
                             CodeBytes(at), DataBytes(at))
          /\ RamBytes(at) <= BankSize - options.ram_origin

LoadObject ==
    /\ phase = "load" /\ at <= Len(objects) /\ LoadAccepted
    /\ record_bytes' = record_bytes + RecordBytes(Current)
    /\ at' = at + 1
    /\ UNCHANGED <<link, phase, rel, layoutVars, outputs, status>>

\* The merged configuration: execution region and one bitmap profile.
ConfigAccepted ==
    /\ options.execution # "Automatic" => IsGSU /\ region(code_start) = options.execution
    /\ \A j, k \in 1 .. Len(objects) :
          objects[j].bitmap.enabled /\ objects[k].bitmap.enabled =>
             objects[j].bitmap = objects[k].bitmap
    /\ options.init => IsGSU

Configure ==
    /\ phase = "load" /\ at > Len(objects) /\ ConfigAccepted
    /\ Go("ram")
    /\ UNCHANGED <<link, record_bytes, layoutVars, outputs, status>>

\* --- Static RAM: one aligned block per object ------------------------------
RamPad == PadTo(options.ram_origin + Len(final_ram), Current.ram_alignment)
RamFits == Len(final_ram) + RamPad + Len(Current.ram) <= BankSize - options.ram_origin

LayoutRam ==
    /\ phase = "ram" /\ at <= Len(objects) /\ RamFits
    /\ ram_bases' = Append(ram_bases, Len(final_ram) + RamPad)
    /\ final_ram' = final_ram \o [i \in 1 .. RamPad |-> 0] \o Current.ram
    /\ at' = at + 1
    /\ UNCHANGED <<link, phase, rel, record_bytes, final_code, code_bases, final_data, symbols,
                   data_start, data_base, stack_floor, outputs, status>>

Definition(k, s, address, instruction) ==
    [name |-> s.name, section |-> s.section, address |-> address,
     instruction |-> instruction, object |-> k, offset |-> s.offset]
Globals(k, section) == {s \in objects[k].symbols : s.section = section /\ s.name \notin LocalName}
Defined == {d.name : d \in symbols}

RamSymbols == UNION {{Definition(k, s, static_start + ram_bases[k] + s.offset, FALSE) :
                         s \in Globals(k, "RAM")} : k \in 1 .. Len(objects)}

RamAccepted ==
    /\ final_ram # <<>> => (options.init \/ options.host_globals) /\ IsGSU
    /\ IsGSU => validatePayload(code_start, startup_size + CodeBytes(Len(objects)),
                                DataBytes(Len(objects)))
    /\ \A d, e \in RamSymbols : d.name = e.name => d = e

StartCode ==
    /\ phase = "ram" /\ at > Len(objects) /\ RamAccepted
    /\ final_code' = [i \in 1 .. startup_size |-> Cell(<<"startup", i - 1>>)]
    /\ symbols' = RamSymbols
    /\ Go("code")
    /\ UNCHANGED <<link, record_bytes, final_ram, ram_bases, code_bases, final_data,
                   data_start, data_base, stack_floor, outputs, status>>

\* --- 2. Layout and symbol resolution: code, then data ----------------------
Reserved(name) == name \in {NearRam, NearRom} \cup DOMAIN StackLimit
\* Mutant: code is aligned in the image instead of at its final address.
CodePad_InImage == PadTo(Len(final_code), CodeAlignment(Current))
CodePad == PadTo(code_start + Len(final_code), CodeAlignment(Current))
CodeAccepted ==
    /\ \A s \in Current.symbols : ~Reserved(s.name)
    /\ \A s \in Globals(at, "CODE") : s.name \notin Defined

LayoutCode ==
    /\ phase = "code" /\ at <= Len(objects) /\ CodeAccepted
    /\ LET base == Len(final_code) + CodePad IN
       /\ code_bases' = Append(code_bases, base)
       /\ final_code' = final_code \o Padding(CodePad) \o Bytes(at, "CODE")
       /\ symbols' = symbols \cup {Definition(at, s, code_start + base + s.offset,
                                              s.offset < Current.code) : s \in Globals(at, "CODE")}
    /\ at' = at + 1
    /\ UNCHANGED <<link, phase, rel, record_bytes, final_ram, ram_bases, final_data,
                   data_start, data_base, stack_floor, outputs, status>>

data_alignment == Max({1} \cup {objects[k].data_alignment : k \in {j \in 1 .. Len(objects) : objects[j].data > 0}})

StartData ==
    /\ phase = "code" /\ at > Len(objects)
    /\ LET pad == PadTo(code_start + Len(final_code), data_alignment) IN
       /\ final_code' = final_code \o Padding(pad)
       /\ data_start' = code_start + Len(final_code) + pad
    /\ Go("data")
    /\ UNCHANGED <<link, record_bytes, final_ram, ram_bases, code_bases, final_data, symbols,
                   data_base, stack_floor, outputs, status>>

DataPad(base) == PadTo(data_start + base, Current.data_alignment)
DataAccepted == \A s \in Globals(at, "DATA") : s.name \notin Defined

LayoutData ==
    /\ phase = "data" /\ at <= Len(objects) /\ DataAccepted
    /\ LET base == Len(final_data) + DataPad(Len(final_data)) IN
       /\ final_data' = final_data \o Padding(DataPad(Len(final_data))) \o Bytes(at, "DATA")
       /\ symbols' = symbols \cup {Definition(at, s, data_start + base + s.offset, FALSE) :
                                     s \in Globals(at, "DATA")}
    /\ at' = at + 1
    /\ UNCHANGED <<link, phase, rel, record_bytes, final_ram, ram_bases, final_code, code_bases,
                   data_start, data_base, stack_floor, outputs, status>>

\* --- Placement checks, entry point, stack floor ----------------------------
payload_end == code_start + payload_size
stack_address == ram_bank_base + options.stack_pointer
Overlap(begin, bytes, other, other_bytes) ==
    bytes > 0 /\ begin < other + other_bytes /\ begin + bytes > other
OverlapsBitmap(begin, bytes) == Overlap(begin, bytes, RamBase + bitmap.base, sizeBytes(bitmap))

Entry == {d \in symbols : d.name = options.entry /\ d.section = "CODE" /\ d.instruction}

\* Mutant: the bitmap is compared with the payload only.
BitmapClear_PayloadOnly == ~OverlapsBitmap(code_start, payload_size)
BitmapClear ==
    /\ ~OverlapsBitmap(code_start, payload_size)
    /\ ~OverlapsBitmap(static_start, Len(final_ram))
    /\ options.init => ~OverlapsBitmap(stack_address, 2)

PlaceAccepted ==
    /\ IsGSU => validatePayload(code_start, Len(final_code), Len(final_data))
    /\ bitmap.enabled => BitmapClear
    /\ final_ram # <<>> =>
          /\ ~(static_start < payload_end /\ static_start + Len(final_ram) > code_start)
          /\ options.init => options.ram_origin + Len(final_ram) < options.stack_pointer
    /\ options.init =>
          /\ \E d \in Entry : validateNearTarget(code_start, d.address)
          /\ ~(stack_address < payload_end /\ stack_address + 2 > code_start)

\* What lies below the initial stack pointer in its bank raises the floor.
ReservedBelow(begin, end) ==
    IF begin < stack_address /\ end > ram_bank_base THEN {end - ram_bank_base} ELSE {}

StaticReserved == IF final_ram = <<>> THEN {}
                  ELSE {2 * ((options.ram_origin + Len(final_ram) + 1) \div 2)}
BitmapReserved == IF ~bitmap.enabled THEN {}
                  ELSE ReservedBelow(RamBase + bitmap.base, RamBase + bitmap.base + sizeBytes(bitmap))
PayloadReserved ==
    IF options.init /\ region(code_start) = "Ram" /\ bank(code_start) = FirstRamBank + options.ram_bank
    THEN ReservedBelow(code_start, payload_end) ELSE {}

\* Mutant: RAM code below the stack is not reserved.
StackFloor_NoPayload == Max({0} \cup StaticReserved \cup BitmapReserved)
StackFloor == Max({0} \cup StaticReserved \cup BitmapReserved \cup PayloadReserved)

Low(address)  == <<"low", address % 256>>
High(address) == <<"high", (address \div 256) % 256>>
Bank(address) == <<"bank", address \div BankSize>>
Put(cells, i, value) == [cells EXCEPT ![i].value = value]
PutWord(cells, i, address) == Put(Put(cells, i, Low(address)), i + 1, High(address))

Place ==
    /\ phase = "data" /\ at > Len(objects) /\ PlaceAccepted
    /\ final_code' = IF ~options.init THEN final_code
                     ELSE PutWord(final_code, entry_patch + 1, (CHOOSE d \in Entry : TRUE).address)
    /\ stack_floor' = StackFloor
    /\ data_base' = 0
    /\ Go("relocate")
    /\ UNCHANGED <<link, record_bytes, final_ram, ram_bases, code_bases, final_data, symbols,
                   data_start, outputs, status>>

\* --- 3. Relocation: one patch per step -------------------------------------
\* Mutant: the second pass forgets the alignment of the DATA blocks.
DataBase_Packed == data_base
DataBase == data_base + DataPad(data_base)     \* recomputed, not remembered
CodeBase == code_bases[at]
Relocation == Current.relocations[rel]

LocalDefinitions == {s \in Current.symbols : s.name \in LocalName /\ s.name = Relocation.target}
LocalTarget(s) ==
    [address |-> s.offset + (CASE s.section = "CODE" -> code_start + CodeBase
                               [] s.section = "DATA" -> data_start + DataBase
                               [] s.section = "RAM"  -> static_start + ram_bases[at]),
     section |-> s.section, instruction |-> s.section = "CODE" /\ s.offset < Current.code]

\* The targets a relocation may resolve to: none or exactly one.
Targets ==
    LET name == Relocation.target IN
    IF name \in LocalName
    THEN {LocalTarget(s) : s \in {d \in LocalDefinitions :
              name \in PoolName => d.section = "DATA" /\ d.offset < Current.data}}
    ELSE IF name \in DOMAIN StackLimit
    THEN IF /\ Relocation.type = "ADDR16_RAM" /\ IsGSU
            /\ stack_floor + StackLimit[name] <= 65535
            /\ options.init => stack_floor + StackLimit[name] <= options.stack_pointer
         THEN {[address |-> ram_bank_base + stack_floor + StackLimit[name],
                section |-> "RAM", instruction |-> FALSE]}
         ELSE {}
    ELSE IF name \in {NearRam, NearRom}
    THEN IF Relocation.type = "ADDR24_BANK" /\ IsGSU
         THEN {[address |-> IF name = NearRam THEN ram_bank_base
                            ELSE rom_bank * BankSize + (IF rom_bank <= 63 THEN 32768 ELSE 0),
                section |-> "CODE", instruction |-> FALSE]}
         ELSE {}
    ELSE {[address |-> d.address, section |-> d.section, instruction |-> d.instruction] :
             d \in {e \in symbols : e.name = name}}

UsesNearRom == \E r \in 1 .. Len(Current.relocations) : Current.relocations[r].target = NearRom

RamTargetAccepted(t) ==
    /\ bank(t.address) = FirstRamBank + options.ram_bank
    /\ \/ t.section = "RAM" /\ Relocation.target \notin PoolName
       \/ /\ Relocation.target \in PoolName /\ t.section = "DATA"
          /\ region(code_start) = "Ram" /\ region(t.address) = "Ram"
          /\ bank(code_start) = FirstRamBank + options.ram_bank

TargetAccepted(t) ==
    /\ Relocation.type = "ADDR16_JAL" => t.instruction
    /\ t.address <= MaxAddress
    /\ ~IsGSU /\ Relocation.type \in {"ADDR16_JAL", "ADDR16_IWT"} => t.address <= 65535
    /\ IsGSU =>
          /\ Relocation.type = "ADDR16_RAM" => RamTargetAccepted(t)
          /\ Relocation.type \in {"ADDR16_JAL", "ADDR16_IWT"} => validateNearTarget(code_start, t.address)
          /\ Relocation.type = "ADDR16_IWT" /\ t.section = "DATA" /\ UsesNearRom =>
                region(t.address) = "Rom" /\ bank(t.address) = rom_bank
          /\ Relocation.type \in {"ADDR24_BANK", "ADDR24_OFFSET"} => validateAddress(t.address)

PatchBase == Relocation.offset + (IF Relocation.section = "CODE" THEN CodeBase ELSE DataBase)
PatchInside ==
    PatchBase + PatchSize(Relocation.type) <=
        (IF Relocation.section = "CODE" THEN Len(final_code) ELSE Len(final_data))

\* Cells are numbered from 1, so the operand begins at cell PatchBase + 2.
Patched(cells, t) ==
    IF Relocation.type = "ADDR24_BANK" THEN Put(cells, PatchBase + 2, Bank(t.address))
    ELSE PutWord(cells, PatchBase + 2, t.address)

AtRelocation == phase = "relocate" /\ at <= Len(objects) /\ rel <= Len(Current.relocations)
RelocationAccepted == PatchInside /\ \E t \in Targets : TargetAccepted(t)

Relocate ==
    /\ AtRelocation /\ RelocationAccepted
    /\ \E t \in Targets :
          IF Relocation.section = "CODE"
          THEN final_code' = Patched(final_code, t) /\ UNCHANGED final_data
          ELSE final_data' = Patched(final_data, t) /\ UNCHANGED final_code
    /\ rel' = rel + 1
    /\ UNCHANGED <<link, phase, at, record_bytes, final_ram, ram_bases, code_bases, symbols,
                   data_start, data_base, stack_floor, outputs, status>>

NextObject ==
    /\ phase = "relocate" /\ at <= Len(objects) /\ rel > Len(Current.relocations)
    /\ data_base' = DataBase + Current.data
    /\ at' = at + 1 /\ rel' = 1
    /\ UNCHANGED <<link, phase, record_bytes, final_ram, ram_bases, final_code, code_bases,
                   final_data, symbols, data_start, stack_floor, outputs, status>>

Relocated ==
    /\ phase = "relocate" /\ at > Len(objects)
    /\ Go("write")
    /\ UNCHANGED <<link, record_bytes, layoutVars, outputs, status>>

-----------------------------------------------------------------------------
\* Every check that throws: the linker stops with status 1, writing nothing.
Reject ==
    /\ \/ phase = "options" /\ ~OptionsAccepted
       \/ phase = "load" /\ at <= Len(objects) /\ ~LoadAccepted
       \/ phase = "load" /\ at > Len(objects) /\ ~ConfigAccepted
       \/ phase = "ram" /\ at <= Len(objects) /\ ~RamFits
       \/ phase = "ram" /\ at > Len(objects) /\ ~RamAccepted
       \/ phase = "code" /\ at <= Len(objects) /\ ~CodeAccepted
       \/ phase = "data" /\ at <= Len(objects) /\ ~DataAccepted
       \/ phase = "data" /\ at > Len(objects) /\ ~PlaceAccepted
       \/ AtRelocation /\ ~RelocationAccepted
    /\ Fail

\* --- 4. Output: the payload, then the assembly listing ---------------------
Write ==
    /\ phase = "write"
    /\ \/ /\ binary' = "new"
          /\ assembly' = IF options.assembly THEN "new" ELSE assembly
          /\ Exit(0)
       \/ binary' \in {"old", "torn"} /\ UNCHANGED assembly /\ Exit(1)
       \/ /\ options.assembly
          /\ binary' = "new" /\ assembly' \in {"old", "torn"} /\ Exit(1)
    /\ UNCHANGED <<link, at, rel, record_bytes, layoutVars>>

Finished == phase = "done" /\ UNCHANGED vars

Step == ReadOptions \/ LoadObject \/ Configure \/ LayoutRam \/ StartCode \/ LayoutCode
           \/ StartData \/ LayoutData \/ Place \/ Relocate \/ NextObject \/ Relocated
           \/ Reject \/ Write
Next == Step \/ Finished
Spec == Init /\ [][Next]_vars /\ WF_vars(Step)

-----------------------------------------------------------------------------
Linked == phase = "write"
Image == final_code \o final_data

\* Where byte `o' of a section of object k is in memory, found by its tag.
PlaceOf(k, section, o) ==
    IF section = "RAM" THEN static_start + ram_bases[k] + o
    ELSE code_start + (CHOOSE i \in 1 .. Len(Image) : Image[i].tag = <<k, section, o>>) - 1

\* The symbol a relocation of object k names: its own local, or the global.
Named(k, name) ==
    IF name \in LocalName THEN {[object |-> k, symbol |-> s] : s \in {t \in objects[k].symbols : t.name = name}}
    ELSE UNION {{[object |-> j, symbol |-> s] : s \in {t \in objects[j].symbols : t.name = name}} :
                   j \in 1 .. Len(objects)}

Holds(cells, i, type, address) ==
    IF type = "ADDR24_BANK" THEN cells[i].value = Bank(address)
    ELSE cells[i].value = Low(address) /\ cells[i + 1].value = High(address)

\* Every relocated operand holds the address at which the byte its symbol
\* names really is in the linked image: the second pass finds the patch and
\* the target where the layout pass put them, local names resolve in their own
\* object, and no later patch overwrites an earlier one.
RelocationsPointHome ==
    Linked => \A k \in 1 .. Len(objects) : \A r \in 1 .. Len(objects[k].relocations) :
        LET reloc == objects[k].relocations[r] IN
        \A n \in Named(k, reloc.target) :
            n.symbol.offset < SectionSize(objects[n.object], n.symbol.section) =>
                Holds(Image, PlaceOf(k, reloc.section, reloc.offset) - code_start + 2, reloc.type,
                      PlaceOf(n.object, n.symbol.section, n.symbol.offset))

\* Every input byte is in the image exactly once, and each block starts at a
\* multiple of the alignment its object asked for.
LayoutExact ==
    Linked =>
        /\ \A k \in 1 .. Len(objects) : \A section \in {"CODE", "DATA"} :
              \A o \in 0 .. SectionSize(objects[k], section) - 1 :
                 Cardinality({i \in 1 .. Len(Image) : Image[i].tag = <<k, section, o>>}) = 1
        /\ \A k \in 1 .. Len(objects) :
              /\ objects[k].code > 0 => PlaceOf(k, "CODE", 0) % CodeAlignment(objects[k]) = 0
              /\ objects[k].data > 0 => PlaceOf(k, "DATA", 0) % objects[k].data_alignment = 0
              /\ objects[k].ram # <<>> => PlaceOf(k, "RAM", 0) % objects[k].ram_alignment = 0

Span(begin, bytes) == begin .. begin + bytes - 1
BitmapBytes == IF bitmap.enabled THEN Span(RamBase + bitmap.base, sizeBytes(bitmap)) ELSE {}
StaticBytes == Span(static_start, Len(final_ram))
PayloadBytes == Span(code_start, payload_size)
StackWord == IF options.init THEN Span(stack_address, 2) ELSE {}
Apart(S, T) == \A a \in S : a \notin T

\* What the linker accepts does not overlap: payload, static RAM, bitmap and
\* the initial stack word are disjoint, and payload and static RAM each stay
\* inside one bank.
RegionsDisjoint ==
    Linked /\ IsGSU =>
        /\ Apart(PayloadBytes, StaticBytes) /\ Apart(PayloadBytes, BitmapBytes)
        /\ Apart(StaticBytes, BitmapBytes)
        /\ Apart(StackWord, PayloadBytes) /\ Apart(StackWord, StaticBytes)
        /\ Apart(StackWord, BitmapBytes)
        /\ payload_size > 0 => bank(code_start) = bank(payload_end - 1)
        /\ final_ram # <<>> => bank(static_start) = bank(static_start + Len(final_ram) - 1)

\* A stack that starts at the initial stack pointer and stays at or above the
\* floor that the stack-limit relocations are computed from never reaches
\* static data, the bitmap or code running from the same RAM bank.
BelowFloor(S) ==
    \A a \in S : a \in ram_bank_base .. stack_address + 1 => a < ram_bank_base + stack_floor
StackNeverReachesData ==
    Linked /\ options.init =>
        BelowFloor(PayloadBytes) /\ BelowFloor(StaticBytes) /\ BelowFloor(BitmapBytes)

\* RAM after the startup code: the clear loop zeroes Len(image) bytes, then the
\* stores are made in address order.
AfterStartup(address) ==
    LET i == address - options.ram_origin
        hit == {s \in Stores(final_ram) : address \in s.address .. s.address + s.bytes - 1}
    IN  IF hit # {} THEN LET s == CHOOSE x \in hit : TRUE
                         IN  IF address = s.address THEN s.value % 256 ELSE s.value \div 256
        ELSE IF i \in 0 .. Len(final_ram) - 1 THEN 0 ELSE -1

\* The generated startup code leaves exactly the static image in RAM: each byte
\* of it, padding included, and no byte beyond it (odd sizes too).
StartupBuildsImage ==
    Linked /\ options.init =>
        /\ \A i \in 1 .. Len(final_ram) : AfterStartup(options.ram_origin + i - 1) = final_ram[i]
        /\ \A i \in {-1, Len(final_ram)} : AfterStartup(options.ram_origin + i) = -1
=============================================================================
