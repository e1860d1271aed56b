---------------------------- MODULE ObjectFormat ----------------------------
(***************************************************************************)
(* What ObjectFile::read hands to the linker: an object that passed        *)
(* ObjectFile::validate.  Section bytes are abstracted to their number,    *)
(* except the RAM image, whose zero bytes the startup code skips.  The     *)
(* caps on the size of one object (section bytes, table entries, name      *)
(* lengths) are left out: MaxLinkBytes bounds what a link may read.        *)
(***************************************************************************)
EXTENDS Integers, Sequences, FiniteSets

CONSTANTS
    SymbolName,      \* names of symbols and of relocation targets
    LocalName,       \* the names that begin with \x01
    NameBytes        \* bytes charged for a name

Section == {"CODE", "DATA", "RAM"}
RelocationType == {"ADDR16_JAL", "ADDR16_IWT", "ADDR24_BANK", "ADDR24_OFFSET", "ADDR16_RAM"}
Alignment == {1, 2, 4, 8, 16, 32, 64, 128}

SymbolEntry == [name : SymbolName, section : Section, offset : Nat]
RelocationEntry == [target : SymbolName, section : {"CODE", "DATA"}, offset : Nat,
                    type : RelocationType]
\* The host's frame buffer in cartridge RAM; height 256 stands for object mode.
Bitmap == [enabled : BOOLEAN, base : Nat, height : {128, 160, 192, 256}, depth : {2, 4, 8}]
sizeBytes(bitmap) == (256 * bitmap.height * bitmap.depth) \div 8
validateBitmap(bitmap) ==
    bitmap.enabled => bitmap.base % 1024 = 0 /\ bitmap.base + sizeBytes(bitmap) <= 131072

\* cache: the object carries the layout hint that asks for a 16-byte boundary.
Object == [code : Nat, data : Nat, ram : Seq(0 .. 255), cache : BOOLEAN,
           data_alignment : Nat, ram_alignment : Nat,
           symbols : SUBSET SymbolEntry, relocations : Seq(RelocationEntry),
           target : {"GSU", "SPC700"}, mapping : {"LoROM", "HiROM"}, origin : Nat,
           bitmap : Bitmap]

SectionSize(object, section) ==
    CASE section = "CODE" -> object.code
      [] section = "DATA" -> object.data
      [] section = "RAM"  -> Len(object.ram)

PatchSize(type) == IF type = "ADDR24_BANK" THEN 2 ELSE 3

validate_relocation(relocation, object) ==
    relocation.offset + PatchSize(relocation.type) <= SectionSize(object, relocation.section)

\* The operand bytes a relocation patches, without its opcode byte.
Operand(relocation) ==
    (relocation.offset + 1) .. (relocation.offset + PatchSize(relocation.type) - 1)

validate(object) ==
    /\ object.cache => object.target = "GSU"
    /\ validateBitmap(object.bitmap)
    /\ object.bitmap.enabled => object.target = "GSU"
    /\ object.data_alignment \in Alignment /\ object.ram_alignment \in Alignment
    /\ \A s \in object.symbols : s.offset <= SectionSize(object, s.section)
    /\ \A s, t \in object.symbols : s.name = t.name => s = t
    /\ \A r \in 1 .. Len(object.relocations) : validate_relocation(object.relocations[r], object)
    /\ \A q, r \in 1 .. Len(object.relocations) :
          LET a == object.relocations[q]  b == object.relocations[r] IN
          q # r /\ a.section = b.section => Operand(a) \cap Operand(b) = {}

\* Bytes the linker charges for a decoded object.
RecordBytes(object) ==
    35 + (IF object.bitmap.enabled THEN 10 ELSE 0)
       + object.code + object.data + Len(object.ram)
       + (9 + NameBytes) * Cardinality(object.symbols)
       + (10 + NameBytes) * Len(object.relocations)

\* GSUCodeLayout::alignment.
CodeAlignment(object) == IF object.cache THEN 16 ELSE 1
=============================================================================
