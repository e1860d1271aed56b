---------------------------- MODULE LinkerProofs ----------------------------
(***************************************************************************)
(* Proofs about Linker: what its sections hold, that accepted regions are  *)
(* disjoint, that the stack floor covers what lies below the stack, that   *)
(* the startup code rebuilds the static image, and where each byte is.     *)
(*                                                                         *)
(* LinkInv carries the argument.  Placement is decided once, in Place, on  *)
(* the lengths of the sections; relocation only patches values (PutFacts), *)
(* so the decision and the floor computed with it still stand when the     *)
(* image is written.  LayoutInv adds where each byte is.                   *)
(***************************************************************************)
EXTENDS Linker, FiniteSetTheorems, SequenceTheorems, WellFoundedInduction, TLAPS

Phase == {"options", "load", "ram", "code", "data", "relocate", "write", "done"}
Tag == {<<"pad">>} \cup ({"startup"} \X Nat) \cup (Nat \X {"CODE", "DATA"} \X Nat)
CellValue == {"own"} \cup ({"low", "high", "bank"} \X Int)
CellType == [tag : Tag, value : CellValue]

\* The position in the invocation; what has been checked on the way still holds.
Control ==
    /\ link \in Links /\ phase \in Phase
    /\ at \in 1 .. Len(objects) + 1 /\ rel \in Nat \ {0}
    /\ phase \notin {"options", "done"} => objects # <<>>
    /\ phase \notin {"options", "load", "done"} => ConfigAccepted
    /\ \A k \in 1 .. Len(objects) :
          phase \notin {"options", "done"} /\ (phase = "load" => k < at) => validate(objects[k])

\* The sections and the bases of their blocks.
Sections ==
    /\ final_ram \in Seq(0 .. 255) /\ ram_bases \in Seq(Nat)
    /\ final_code \in Seq(CellType) /\ code_bases \in Seq(Nat) /\ final_data \in Seq(CellType)
    /\ data_start \in Nat /\ data_base \in Nat /\ stack_floor \in Nat
    /\ \A d \in symbols : d.address \in Nat
    /\ Len(final_ram) <= BankSize - options.ram_origin

BasesSoFar ==
    /\ phase \in {"options", "load"} => Len(ram_bases) = 0
    /\ phase = "ram" => Len(ram_bases) = at - 1
    /\ phase \in {"code", "data", "relocate", "write"} => Len(ram_bases) = Len(objects)
    /\ phase \in {"options", "load", "ram"} => Len(code_bases) = 0
    /\ phase = "code" => Len(code_bases) = at - 1
    /\ phase \in {"data", "relocate", "write"} => Len(code_bases) = Len(objects)

\* What Place decided still stands: relocation changes no length.
PlacementStands ==
    phase \in {"relocate", "write"} => PlaceAccepted /\ stack_floor = StackFloor

LinkInv == Control /\ Sections /\ BasesSoFar /\ PlacementStands

\* Every option and every object is of its type.
LEMMA InvocationTypes ==
    ASSUME link \in Links
    PROVE  /\ objects \in Seq(Object) /\ options \in Options /\ Len(objects) \in Nat
           /\ \A k \in 1 .. Len(objects) : objects[k] \in Object
<1>1. objects \in Seq(Object) /\ options \in Options
  BY LinkerAssumption DEF objects, options
<1> QED
  BY <1>1

\* The options that placement uses.
LEMMA OptionTypes ==
    ASSUME link \in Links
    PROVE  /\ options.ram_origin \in Nat /\ options.ram_origin < BankSize
           /\ options.stack_pointer \in Nat /\ options.stack_pointer + 1 < BankSize
           /\ options.ram_bank \in 0 .. 1 /\ options.origin \in Nat \cup {Default}
           /\ options.init \in BOOLEAN
<1>1. options \in Options
  BY InvocationTypes
<1>2. /\ options.ram_origin \in Word /\ options.stack_pointer \in StackPointer
      /\ options.ram_bank \in 0 .. 1 /\ options.origin \in Nat \cup {Default}
      /\ options.init \in BOOLEAN
  BY <1>1, Zenon DEF Options
<1>3. \A x \in Word : x \in Nat /\ x < BankSize
  BY SMT DEF Word, BankSize
<1>4. \A x \in StackPointer : x \in Nat /\ x + 1 < BankSize
  BY SMT DEF StackPointer, BankSize
<1> QED
  BY <1>2, <1>3, <1>4, Zenon

\* The size of the bitmap, and the numbers of its record.
LEMMA BitmapSize ==
    ASSUME NEW b \in Bitmap
    PROVE  sizeBytes(b) \in Nat /\ sizeBytes(b) > 0 /\ b.base \in Nat /\ b.enabled \in BOOLEAN
<1>1. b.height \in {128, 160, 192, 256} /\ b.depth \in {2, 4, 8} /\ b.base \in Nat /\ b.enabled \in BOOLEAN
  BY DEF Bitmap
<1>2. CASE b.depth = 2
  BY <1>1, <1>2 DEF sizeBytes
<1>3. CASE b.depth = 4
  BY <1>1, <1>3 DEF sizeBytes
<1>4. CASE b.depth = 8
  BY <1>1, <1>4 DEF sizeBytes
<1> QED
  BY <1>1, <1>2, <1>3, <1>4

\* The code of the startup routine has a size.
LEMMA StartupSize ==
    ASSUME link \in Links, final_ram \in Seq(0 .. 255)
    PROVE  startup_size \in Nat
<1> DEFINE f == [i \in NonzeroWords(final_ram) |->
                   [address |-> options.ram_origin + i - 1,
                    value   |-> ByteAt(final_ram, i) + 256 * ByteAt(final_ram, i + 1),
                    bytes   |-> IF i = Len(final_ram) THEN 1 ELSE 2]]
<1>3. Len(final_ram) \in Nat
  OBVIOUS
<1>4. IsFiniteSet(1 .. Len(final_ram)) /\ NonzeroWords(final_ram) \in SUBSET (1 .. Len(final_ram))
  BY <1>3, FS_Interval DEF NonzeroWords
<1>5. IsFiniteSet(NonzeroWords(final_ram))
  BY <1>4, FS_Subset
<1>6. f \in Surjection(NonzeroWords(final_ram), Stores(final_ram))
  BY DEF Surjection, Stores
<1>7. IsFiniteSet(Stores(final_ram))
  BY <1>5, <1>6, FS_Surjection
<1>8. \A s \in Stores(final_ram) : s.bytes \in {1, 2}
  BY DEF Stores
<1> DEFINE store(s) == LiteralBytes(s.address) + LiteralBytes(s.value) + (3 - s.bytes)
           stored == UNION {{s} \X (1 .. store(s)) : s \in Stores(final_ram)}
<1>9. \A v : LiteralBytes(v) \in {2, 3}
  BY DEF LiteralBytes
<1>10. \A s \in Stores(final_ram) : store(s) \in 1 .. 8
  BY <1>8, <1>9
<1>11. stored \in SUBSET (Stores(final_ram) \X (1 .. 8))
  BY <1>10
<1>12. IsFiniteSet(1 .. 8)
  <2>1. 1 \in Int /\ 8 \in Int
    OBVIOUS
  <2> QED
    BY ONLY <2>1, FS_Interval
<1>13. IsFiniteSet(Stores(final_ram) \X (1 .. 8))
  BY <1>7, <1>12, FS_Product
<1>14. IsFiniteSet(stored)
  BY <1>11, <1>13, FS_Subset
<1>15. Cardinality(stored) \in Nat
  BY <1>14, FS_CardinalityType
<1> HIDE DEF stored
<1>16. startup_size = IF ~options.init THEN 0
        ELSE 4 + LiteralBytes(options.stack_pointer)
               + (IF final_ram = <<>> THEN 0
                  ELSE 2 + LiteralBytes(options.ram_origin) + LiteralBytes(Len(final_ram) % 65536) + 7
                       + Cardinality(stored)) + 4
  BY DEF startup_size, stored
<1> QED
  BY <1>9, <1>15, <1>16
-----------------------------------------------------------------------------
\* PadTo reaches the next multiple of an alignment.
LEMMA Padded ==
    ASSUME NEW position \in Nat, NEW alignment \in Alignment
    PROVE  /\ PadTo(position, alignment) \in Nat
           /\ (position + PadTo(position, alignment)) % alignment = 0
<1> USE DEF PadTo
<1>1. CASE alignment = 1
  BY <1>1, SMT
<1>2. CASE alignment = 2
  BY <1>2, SMT
<1>3. CASE alignment = 4
  BY <1>3, SMT
<1>4. CASE alignment = 8
  BY <1>4, SMT
<1>5. CASE alignment = 16
  BY <1>5, SMT
<1>6. CASE alignment = 32
  BY <1>6, SMT
<1>7. CASE alignment = 64
  BY <1>7, SMT
<1>8. CASE alignment = 128
  BY <1>8, SMT
<1> QED
  BY <1>1, <1>2, <1>3, <1>4, <1>5, <1>6, <1>7, <1>8, Zenon DEF Alignment

\* The fields of an object.
LEMMA ObjectFields ==
    ASSUME NEW o \in Object
    PROVE  /\ o.code \in Nat /\ o.data \in Nat /\ o.ram \in Seq(0 .. 255) /\ o.origin \in Nat
           /\ o.symbols \subseteq SymbolEntry /\ o.relocations \in Seq(RelocationEntry)
           /\ o.bitmap \in Bitmap /\ CodeAlignment(o) \in Alignment
<1>1. /\ o.code \in Nat /\ o.data \in Nat /\ o.ram \in Seq(0 .. 255) /\ o.origin \in Nat
      /\ o.symbols \subseteq SymbolEntry /\ o.relocations \in Seq(RelocationEntry)
      /\ o.bitmap \in Bitmap
  BY DEF Object
<1>2. CodeAlignment(o) \in Alignment
  BY DEF CodeAlignment, Alignment
<1> QED
  BY <1>1, <1>2

\* The two RAM banks.
LEMMA RamBank ==
    ASSUME options.ram_bank \in 0 .. 1
    PROVE  /\ RamBase = 7340032 /\ BankSize = 65536
           /\ \/ options.ram_bank = 0 /\ ram_bank_base = 7340032
              \/ options.ram_bank = 1 /\ ram_bank_base = 7405568
<1>1. RamBase = 7340032 /\ BankSize = 65536
  BY SMT DEF RamBase, BankSize, FirstRamBank
<1>2. options.ram_bank = 0 \/ options.ram_bank = 1
  BY SMT
<1>3. CASE options.ram_bank = 0
  BY <1>1, <1>3, SMT DEF ram_bank_base
<1>4. CASE options.ram_bank = 1
  BY <1>1, <1>4, SMT DEF ram_bank_base
<1> QED
  BY <1>1, <1>2, <1>3, <1>4, SMT

\* Addresses that the options fix.
LEMMA FixedAddresses ==
    ASSUME link \in Links, objects # <<>>
    PROVE  /\ code_start \in Nat /\ ram_bank_base \in Nat /\ static_start \in Nat
           /\ stack_address \in Nat /\ bitmap \in Bitmap
<1>1. /\ objects \in Seq(Object) /\ Len(objects) \in Nat
      /\ \A k \in 1 .. Len(objects) : objects[k] \in Object
  BY InvocationTypes
<1>2. Len(objects) > 0
  BY <1>1
<1>3. objects[1] \in Object
  BY <1>1, <1>2
<1>4. code_start \in Nat
  BY <1>3, OptionTypes, ObjectFields DEF code_start, first
<1>5. ram_bank_base \in Nat /\ static_start \in Nat /\ stack_address \in Nat
  <2>1. options.ram_origin \in Nat /\ options.stack_pointer \in Nat /\ options.ram_bank \in 0 .. 1
    BY OptionTypes
  <2>2. ram_bank_base \in Nat
    BY <2>1, RamBank
  <2> QED
    BY <2>1, <2>2, SMT DEF static_start, stack_address
<1>6. bitmap \in Bitmap
  <2> DEFINE with == {k \in 1 .. Len(objects) : objects[k].bitmap.enabled}
  <2>1. CASE with = {}
    BY <1>3, <2>1, ObjectFields DEF bitmap, first
  <2>2. CASE with # {}
    <3>1. (CHOOSE k \in with : TRUE) \in 1 .. Len(objects)
      BY <2>2
    <3>2. objects[CHOOSE k \in with : TRUE].bitmap \in Bitmap
      BY <1>1, <3>1, ObjectFields
    <3> QED
      BY <2>2, <3>2 DEF bitmap
  <2> QED
    BY <2>1, <2>2
<1> QED
  BY <1>4, <1>5, <1>6

\* The alignment of the DATA section is one of the alignments.
LEMMA DataAlignment ==
    ASSUME link \in Links, \A k \in 1 .. Len(objects) : validate(objects[k])
    PROVE  data_alignment \in Alignment
<1> DEFINE S == {1} \cup {objects[k].data_alignment : k \in {j \in 1 .. Len(objects) : objects[j].data > 0}}
           R == OpToRel(<, Nat)
           T == {128 - x : x \in S}
<1>1. S \subseteq Alignment /\ 1 \in S
  BY DEF validate, Alignment
<1>2. IsWellFoundedOn(R, Nat)
  BY NatLessThanWellFounded
<1>3. \A i, j \in Nat : <<j, i>> \notin R => i <= j
  BY DEF OpToRel
<1> HIDE DEF S, R
<1>4. T \subseteq Nat /\ T # {}
  BY <1>1 DEF Alignment
<1>5. PICK i \in T : \A j \in T : <<j, i>> \notin R
  BY <1>2, <1>4, WFMin
<1>6. \A j \in T : i <= j
  BY <1>3, <1>4, <1>5
<1>7. PICK x \in S : i = 128 - x
  OBVIOUS
<1>8. \A y \in S : x >= y
  <2>1. \A y \in S : i <= 128 - y
    BY <1>6
  <2> QED
    BY <1>1, <1>7, <2>1 DEF Alignment
<1>9. Max(S) \in S
  BY <1>7, <1>8 DEF Max
<1> QED
  BY <1>1, <1>9 DEF data_alignment, S

-----------------------------------------------------------------------------
\* No step of the linker changes its invocation.
LEMMA LinkFixed == [Next]_vars => link' = link
  BY DEF vars, Next, Step, ReadOptions, LoadObject, Configure, LayoutRam, StartCode, LayoutCode,
     StartData, LayoutData, Place, Relocate, NextObject, Relocated, Reject, Fail, Write, Finished

\* Padding and the bytes of a section are cells.
LEMMA NewCells ==
    ASSUME link \in Links
    PROVE  /\ \A n \in Nat : Padding(n) \in Seq(CellType) /\ Len(Padding(n)) = n
           /\ \A k \in 1 .. Len(objects) :
                 /\ Bytes(k, "CODE") \in Seq(CellType) /\ Len(Bytes(k, "CODE")) = objects[k].code
                 /\ Bytes(k, "DATA") \in Seq(CellType) /\ Len(Bytes(k, "DATA")) = objects[k].data
<1>1. \A n \in Nat : Padding(n) \in Seq(CellType) /\ Len(Padding(n)) = n
  <2>1. Cell(<<"pad">>) \in CellType
    BY DEF Cell, CellType, CellValue, Tag
  <2> QED
    BY <2>1 DEF Padding
<1>2. ASSUME NEW k \in 1 .. Len(objects), NEW section \in {"CODE", "DATA"}
      PROVE  /\ Bytes(k, section) \in Seq(CellType)
             /\ Len(Bytes(k, section)) = SectionSize(objects[k], section)
  <2>1. objects[k] \in Object
    BY InvocationTypes
  <2>2. SectionSize(objects[k], section) \in Nat
    BY <2>1, ObjectFields DEF SectionSize
  <2>3. \A o \in Nat : Cell(<<k, section, o>>) \in CellType
    BY InvocationTypes DEF Cell, CellType, CellValue, Tag
  <2> DEFINE n == SectionSize(objects[k], section)
  <2> HIDE DEF n
  <2>4. \A i \in 1 .. n : Cell(<<k, section, i - 1>>) \in CellType
    BY <2>2, <2>3 DEF n
  <2>5. Bytes(k, section) = [i \in 1 .. n |-> Cell(<<k, section, i - 1>>)]
    BY DEF Bytes, n
  <2>6. n \in Nat
    BY <2>2 DEF n
  <2>7. Bytes(k, section) \in Seq(CellType) /\ Len(Bytes(k, section)) = n
    BY <2>4, <2>5, <2>6
  <2> QED
    BY <2>7 DEF n
<1> QED
  BY <1>1, <1>2 DEF SectionSize

\* A patch changes the value of one cell.
LEMMA PutFacts ==
    ASSUME NEW cells \in Seq(CellType), NEW i \in Int, NEW v \in CellValue
    PROVE  /\ Put(cells, i, v) \in Seq(CellType) /\ Len(Put(cells, i, v)) = Len(cells)
           /\ \A j \in 1 .. Len(cells) :
                 /\ Put(cells, i, v)[j].tag = cells[j].tag
                 /\ Put(cells, i, v)[j].value = IF j = i THEN v ELSE cells[j].value
<1> DEFINE e == [cells[i] EXCEPT !.value = v]
<1>1. \A c \in CellType : /\ [c EXCEPT !.value = v] \in CellType
                          /\ [c EXCEPT !.value = v].tag = c.tag /\ [c EXCEPT !.value = v].value = v
  BY DEF CellType
<1>2. i \in 1 .. Len(cells) => e \in CellType /\ e.tag = cells[i].tag /\ e.value = v
  BY <1>1
<1>3. Put(cells, i, v) = [cells EXCEPT ![i] = e]
  BY DEF Put
<1> HIDE DEF e
<1>4. Put(cells, i, v) \in Seq(CellType) /\ Len(Put(cells, i, v)) = Len(cells)
  <2>1. Put(cells, i, v) = [j \in 1 .. Len(cells) |-> IF j = i THEN e ELSE cells[j]]
    <3>1. DOMAIN cells = 1 .. Len(cells)
      OBVIOUS
    <3>2. [cells EXCEPT ![i] = e] = [j \in DOMAIN cells |-> IF j = i THEN e ELSE cells[j]]
      BY Zenon
    <3> QED
      BY <1>3, <3>1, <3>2, Zenon
  <2>2. \A j \in 1 .. Len(cells) : (IF j = i THEN e ELSE cells[j]) \in CellType
    BY <1>2
  <2>3. Len(cells) \in Nat
    OBVIOUS
  <2> QED
    BY <2>1, <2>2, <2>3
<1>5. \A j \in 1 .. Len(cells) : Put(cells, i, v)[j] = IF j = i THEN e ELSE cells[j]
  BY <1>3
<1> QED
  BY <1>2, <1>4, <1>5

\* A word is patched in two cells.
LEMMA PutWordFacts ==
    ASSUME NEW cells \in Seq(CellType), NEW i \in Int, NEW address \in Nat
    PROVE  /\ PutWord(cells, i, address) \in Seq(CellType) /\ Len(PutWord(cells, i, address)) = Len(cells)
           /\ \A j \in 1 .. Len(cells) :
                 /\ PutWord(cells, i, address)[j].tag = cells[j].tag
                 /\ PutWord(cells, i, address)[j].value =
                       IF j = i THEN Low(address) ELSE IF j = i + 1 THEN High(address) ELSE cells[j].value
<1>1. Low(address) \in CellValue /\ High(address) \in CellValue
  BY DEF Low, High, CellValue
<1> DEFINE c == Put(cells, i, Low(address))
<1>2. /\ c \in Seq(CellType) /\ Len(c) = Len(cells)
      /\ \A j \in 1 .. Len(cells) : c[j].tag = cells[j].tag /\ c[j].value = IF j = i THEN Low(address) ELSE cells[j].value
  BY <1>1, PutFacts
<1> HIDE DEF c
<1>3. i + 1 \in Int
  OBVIOUS
<1> DEFINE d == Put(c, i + 1, High(address))
<1>4. /\ d \in Seq(CellType) /\ Len(d) = Len(c)
      /\ \A j \in 1 .. Len(c) : d[j].tag = c[j].tag /\ d[j].value = IF j = i + 1 THEN High(address) ELSE c[j].value
  BY <1>1, <1>2, <1>3, PutFacts
<1>5. d = PutWord(cells, i, address)
  BY DEF PutWord, c
<1> HIDE DEF d
<1> QED
  BY <1>2, <1>4, <1>5

\* A bank number is one cell.
LEMMA BankValue == ASSUME NEW address \in Nat PROVE Bank(address) \in CellValue
  BY SMT DEF Bank, CellValue, BankSize

\* A set that has a greatest element has one when an element is added.
LEMMA AddedMax ==
    ASSUME NEW S \in SUBSET Int, NEW T \in SUBSET Int,
           \E m \in S : \A y \in S : m >= y,
           T = {} \/ \E a \in Int : T = {a}
    PROVE  \E m \in S \cup T : \A y \in S \cup T : m >= y
<1>1. PICK m \in S : \A y \in S : m >= y
  OBVIOUS
<1>2. CASE T = {}
  BY <1>1, <1>2
<1>3. ASSUME NEW a \in Int, T = {a} PROVE \E n \in S \cup T : \A y \in S \cup T : n >= y
  <2>1. CASE a >= m
    BY <1>1, <1>3, <2>1
  <2>2. CASE a < m
    BY <1>1, <1>3, <2>2
  <2> QED
    BY <1>1, <1>3, <2>1, <2>2
<1> QED
  BY <1>2, <1>3

\* The stack floor is a number, and is not below anything reserved.
LEMMA FloorFacts ==
    ASSUME link \in Links, objects # <<>>, final_ram \in Seq(0 .. 255),
           final_code \in Seq(CellType), final_data \in Seq(CellType)
    PROVE  /\ StackFloor \in Nat
           /\ \A x \in StaticReserved \cup BitmapReserved \cup PayloadReserved : x \in Int /\ x <= StackFloor
<1>1. /\ Len(final_ram) \in Nat /\ Len(final_code) \in Nat /\ Len(final_data) \in Nat
      /\ code_start \in Nat /\ ram_bank_base \in Nat /\ bitmap \in Bitmap /\ options.ram_origin \in Nat
  BY FixedAddresses, OptionTypes
<1>2. sizeBytes(bitmap) \in Nat /\ bitmap.base \in Nat
  BY <1>1, BitmapSize
<1>3. RamBase \in Nat
  BY SMT DEF RamBase, FirstRamBank, BankSize
<1>4. payload_end \in Int
  BY <1>1, SMT DEF payload_end, payload_size
<1>5. \A b, e \in Int : ReservedBelow(b, e) = {} \/ \E a \in Int : ReservedBelow(b, e) = {a}
  <2> SUFFICES ASSUME NEW b \in Int, NEW e \in Int
               PROVE  ReservedBelow(b, e) = {} \/ \E a \in Int : ReservedBelow(b, e) = {a}
    OBVIOUS
  <2>1. e - ram_bank_base \in Int
    BY <1>1
  <2> QED
    BY <2>1 DEF ReservedBelow
<1>6. StaticReserved = {} \/ \E a \in Int : StaticReserved = {a}
  <2>1. 2 * ((options.ram_origin + Len(final_ram) + 1) \div 2) \in Int
    BY <1>1
  <2> QED
    BY <2>1 DEF StaticReserved
<1>7. BitmapReserved = {} \/ \E a \in Int : BitmapReserved = {a}
  <2>1. RamBase + bitmap.base \in Int /\ RamBase + bitmap.base + sizeBytes(bitmap) \in Int
    BY <1>2, <1>3
  <2> QED
    BY <1>5, <2>1, Zenon DEF BitmapReserved
<1>8. PayloadReserved = {} \/ \E a \in Int : PayloadReserved = {a}
  <2>1. code_start \in Int
    BY <1>1
  <2> QED
    BY <1>4, <1>5, <2>1, Zenon DEF PayloadReserved
<1> DEFINE S1 == {0} \cup StaticReserved
           S2 == S1 \cup BitmapReserved
           S == S2 \cup PayloadReserved
<1>9. {0} \in SUBSET Int /\ \E m \in {0} : \A y \in {0} : m >= y
  OBVIOUS
<1>10. S1 \in SUBSET Int /\ \E m \in S1 : \A y \in S1 : m >= y
  <2>1. StaticReserved \in SUBSET Int
    BY <1>6
  <2> QED
    BY <1>6, <1>9, <2>1, AddedMax
<1> HIDE DEF S1
<1>11. S2 \in SUBSET Int /\ \E m \in S2 : \A y \in S2 : m >= y
  <2>1. BitmapReserved \in SUBSET Int
    BY <1>7
  <2> QED
    BY <1>7, <1>10, <2>1, AddedMax
<1> HIDE DEF S2
<1>12. S \in SUBSET Int /\ \E m \in S : \A y \in S : m >= y
  <2>1. PayloadReserved \in SUBSET Int
    BY <1>8
  <2> QED
    BY <1>8, <1>11, <2>1, AddedMax
<1> HIDE DEF S
<1>13. Max(S) \in S /\ \A y \in S : Max(S) >= y
  BY <1>12 DEF Max
<1>14. S = {0} \cup StaticReserved \cup BitmapReserved \cup PayloadReserved
  BY DEF S, S1, S2
<1>15. StackFloor = Max(S)
  BY <1>14, Zenon DEF StackFloor
<1>16. 0 \in S /\ StaticReserved \cup BitmapReserved \cup PayloadReserved \subseteq S
  BY <1>14
<1>17. StackFloor \in Int /\ \A y \in S : y \in Int /\ y <= StackFloor
  BY <1>12, <1>13, <1>15
<1>18. StackFloor \in Nat
  BY <1>16, <1>17
<1> QED
  BY <1>16, <1>17, <1>18

-----------------------------------------------------------------------------
\* Before the first step.
LEMMA InitLinkInv == Init => LinkInv
<1> SUFFICES ASSUME Init PROVE LinkInv
  OBVIOUS
<1>1. link \in Links /\ phase = "options" /\ at = 1 /\ rel = 1
  BY DEF Init
<1>2. Control
  BY <1>1, InvocationTypes DEF Control, Phase
<1>3. options.ram_origin \in Nat /\ options.ram_origin < BankSize
  BY <1>1, OptionTypes
<1>4. BankSize \in Nat
  BY SMT DEF BankSize
<1>5. Sections
  BY <1>3, <1>4 DEF Init, Sections
<1>6. BasesSoFar /\ PlacementStands
  BY DEF Init, BasesSoFar, PlacementStands
<1> QED
  BY <1>2, <1>5, <1>6 DEF LinkInv

\* The operators that only depend on the invocation.
LEMMA SameInvocation ==
    ASSUME link' = link
    PROVE  /\ objects' = objects /\ options' = options /\ first' = first /\ bitmap' = bitmap
           /\ IsGSU' = IsGSU /\ code_start' = code_start /\ ram_bank_base' = ram_bank_base
           /\ static_start' = static_start /\ stack_address' = stack_address
           /\ ConfigAccepted' = ConfigAccepted
<1>1. objects' = objects /\ options' = options
  BY DEF objects, options
<1>2. first' = first
  BY <1>1 DEF first
<1>3. bitmap' = bitmap
  BY <1>1, <1>2 DEF bitmap
<1>4. IsGSU' = IsGSU /\ code_start' = code_start
  BY <1>1, <1>2 DEF IsGSU, code_start
<1>5. ram_bank_base' = ram_bank_base
  BY <1>1 DEF ram_bank_base
<1>6. static_start' = static_start /\ stack_address' = stack_address
  BY <1>1, <1>5 DEF static_start, stack_address
<1>7. ConfigAccepted' = ConfigAccepted
  BY <1>1, <1>4 DEF ConfigAccepted
<1> QED
  BY <1>1, <1>2, <1>3, <1>4, <1>5, <1>6, <1>7

\* Every step keeps the control.
LEMMA NextControl == Control /\ [Next]_vars => Control'
<1> SUFFICES ASSUME Control, [Next]_vars PROVE Control'
  OBVIOUS
<1>1. link' = link /\ objects' = objects /\ (ConfigAccepted' = ConfigAccepted) /\ Len(objects) \in Nat
  BY LinkFixed, SameInvocation, InvocationTypes DEF Control
<1> DEFINE Valid(p, n) == \A k \in 1 .. Len(objects) :
                             p \notin {"options", "done"} /\ (p = "load" => k < n) => validate(objects[k])
           Where(p, n, r) ==
               /\ p \in Phase /\ n \in 1 .. Len(objects) + 1 /\ r \in Nat \ {0}
               /\ p \notin {"options", "done"} => objects # <<>>
               /\ p \notin {"options", "load", "done"} => ConfigAccepted
               /\ Valid(p, n)
<1>2. Where(phase, at, rel)
  BY DEF Control
<1>3. SUFFICES Where(phase', at', rel')
  BY <1>1, <1>2 DEF Control
<1>4. CASE ReadOptions
  BY <1>1, <1>2, <1>4 DEF ReadOptions, Go, OptionsAccepted, Phase
<1>5. CASE LoadObject
  <2>1. phase' = "load" /\ phase = "load" /\ at' = at + 1 /\ rel' = rel /\ at <= Len(objects) /\ validate(objects[at])
    BY <1>5 DEF LoadObject, LoadAccepted, Current
  <2>2. ASSUME NEW k \in 1 .. Len(objects), k < at' PROVE validate(objects[k])
    BY <1>1, <1>2, <2>1, <2>2
  <2> QED
    BY <1>1, <1>2, <2>1, <2>2
<1>6. CASE Configure
  <2>1. /\ phase = "load" /\ phase' = "ram" /\ at' = 1 /\ rel' = 1 /\ at > Len(objects) /\ ConfigAccepted
    BY <1>6 DEF Configure, Go
  <2>2. \A k \in 1 .. Len(objects) : k < at
    BY <1>1, <1>2, <2>1
  <2> QED
    BY <1>1, <1>2, <2>1, <2>2 DEF Phase
<1>7. CASE LayoutRam \/ LayoutCode \/ LayoutData \/ NextObject \/ Relocate
  <2>1. /\ phase' = phase /\ phase \in {"ram", "code", "data", "relocate"} /\ at' \in {at, at + 1} /\ at <= Len(objects)
        /\ rel' \in {rel, rel + 1, 1}
    BY <1>7 DEF LayoutRam, LayoutCode, LayoutData, NextObject, Relocate, AtRelocation
  <2> QED
    BY <1>1, <1>2, <2>1
<1>8. CASE StartCode \/ StartData \/ Place \/ Relocated
  <2>1. phase' \in {"code", "data", "relocate", "write"} /\ phase \in {"ram", "code", "data", "relocate"} /\ at' = 1 /\ rel' = 1
    BY <1>8 DEF StartCode, StartData, Place, Relocated, Go
  <2> QED
    BY <1>1, <1>2, <2>1 DEF Phase
<1>9. CASE Reject \/ Write
  <2>1. phase' = "done" /\ at' = at /\ rel' = rel
    BY <1>9 DEF Reject, Fail, Write, Exit
  <2> QED
    BY <1>1, <1>2, <2>1 DEF Phase
<1>10. CASE UNCHANGED vars
  BY <1>2, <1>10 DEF vars
<1> QED
  BY <1>4, <1>5, <1>6, <1>7, <1>8, <1>9, <1>10 DEF Next, Step, Finished

\* Where the current object's blocks are, and what padding precedes the next.
LEMMA CurrentObject ==
    ASSUME Control, at <= Len(objects), phase \notin {"options", "load", "done"}
    PROVE  /\ Current \in Object /\ validate(Current) /\ at \in 1 .. Len(objects)
           /\ Current.data_alignment \in Alignment /\ Current.ram_alignment \in Alignment
<1>1. at \in 1 .. Len(objects) /\ \A k \in 1 .. Len(objects) : validate(objects[k])
  BY InvocationTypes DEF Control
<1>2. Current \in Object /\ validate(Current)
  BY <1>1, InvocationTypes DEF Control, Current
<1> QED
  BY <1>1, <1>2 DEF validate

\* The bases of the second pass are numbers.
LEMMA SecondPass ==
    ASSUME LinkInv, phase = "relocate", at <= Len(objects)
    PROVE  /\ CodeBase \in Nat /\ DataBase \in Nat /\ ram_bases[at] \in Nat
           /\ data_base + DataPad(data_base) = DataBase
           /\ (data_start + DataBase) % Current.data_alignment = 0
<1>1. Current \in Object /\ at \in 1 .. Len(objects) /\ Current.data_alignment \in Alignment
  BY CurrentObject DEF LinkInv
<1>2. CodeBase \in Nat /\ ram_bases[at] \in Nat
  BY <1>1 DEF LinkInv, Sections, BasesSoFar, CodeBase
<1>3. data_start \in Nat /\ data_base \in Nat
  BY DEF LinkInv, Sections
<1>4. data_start + data_base \in Nat
  BY <1>3
<1>5. DataPad(data_base) \in Nat /\ (data_start + data_base + DataPad(data_base)) % Current.data_alignment = 0
  BY <1>1, <1>4, Padded DEF DataPad
<1>6. data_start + data_base + DataPad(data_base) = data_start + (data_base + DataPad(data_base))
  BY <1>3, <1>5
<1> QED
  BY <1>2, <1>3, <1>5, <1>6 DEF DataBase

\* The fields of the current relocation.
LEMMA RelocationFields ==
    ASSUME LinkInv, AtRelocation
    PROVE  /\ Relocation \in RelocationEntry /\ PatchBase \in Nat
           /\ Relocation.offset \in Nat /\ Relocation.section \in {"CODE", "DATA"}
           /\ rel \in 1 .. Len(Current.relocations)
<1>1. phase = "relocate" /\ at <= Len(objects) /\ rel <= Len(Current.relocations)
  BY DEF AtRelocation
<1>2. Current \in Object
  BY <1>1, CurrentObject DEF LinkInv
<1>3. Current.relocations \in Seq(RelocationEntry)
  BY <1>2, ObjectFields
<1>4. rel \in 1 .. Len(Current.relocations)
  BY <1>1, <1>3 DEF LinkInv, Control
<1>5. Relocation \in RelocationEntry
  BY <1>3, <1>4 DEF Relocation
<1>6. Relocation.offset \in Nat /\ Relocation.section \in {"CODE", "DATA"}
  BY <1>5 DEF RelocationEntry
<1>7. CodeBase \in Nat /\ DataBase \in Nat
  BY <1>1, SecondPass
<1> QED
  BY <1>4, <1>5, <1>6, <1>7 DEF PatchBase

\* A relocation resolves to an address.
LEMMA TargetAddress ==
    ASSUME LinkInv, AtRelocation, NEW t \in Targets
    PROVE  t.address \in Nat
<1>1. phase = "relocate" /\ at <= Len(objects) /\ objects # <<>> /\ link \in Links
  BY DEF AtRelocation, LinkInv, Control
<1>2. /\ CodeBase \in Nat /\ DataBase \in Nat /\ ram_bases[at] \in Nat /\ Current \in Object
      /\ code_start \in Nat /\ static_start \in Nat /\ ram_bank_base \in Nat
      /\ data_start \in Nat /\ stack_floor \in Nat
  BY <1>1, SecondPass, CurrentObject, FixedAddresses DEF LinkInv, Sections
<1>3. ASSUME NEW s \in Current.symbols PROVE LocalTarget(s).address \in Nat
  <2>1. s.offset \in Nat /\ s.section \in {"CODE", "DATA", "RAM"}
    BY <1>2, ObjectFields DEF SymbolEntry, Section
  <2>2. LocalTarget(s).address = s.offset + (CASE s.section = "CODE" -> code_start + CodeBase
                               [] s.section = "DATA" -> data_start + DataBase
                               [] s.section = "RAM"  -> static_start + ram_bases[at])
    BY DEF LocalTarget
  <2>3. CASE s.section = "CODE"
    BY <1>2, <2>1, <2>2, <2>3
  <2>4. CASE s.section = "DATA"
    BY <1>2, <2>1, <2>2, <2>4
  <2>5. CASE s.section = "RAM"
    BY <1>2, <2>1, <2>2, <2>5
  <2> QED
    BY <2>1, <2>3, <2>4, <2>5
<1>4. CASE Relocation.target \in LocalName
  <2>1. \E s \in Current.symbols : t = LocalTarget(s)
    BY <1>4 DEF Targets, LocalDefinitions
  <2> QED
    BY <1>3, <2>1
<1>5. CASE Relocation.target \in DOMAIN StackLimit \ LocalName
  <2>1. t.address = ram_bank_base + stack_floor + StackLimit[Relocation.target]
    BY <1>5 DEF Targets
  <2> QED
    BY <1>2, <1>5, <2>1, LinkerAssumption
<1>6. CASE Relocation.target \in {NearRam, NearRom} \ (LocalName \cup DOMAIN StackLimit)
  <2>1. t.address = IF Relocation.target = NearRam THEN ram_bank_base
                    ELSE rom_bank * BankSize + (IF rom_bank <= 63 THEN 32768 ELSE 0)
    BY <1>6, SMT DEF Targets
  <2>2. rom_bank \in Nat
    <3>1. options.rom_bank \in (0 .. 95) \cup {Default}
      <4>1. options \in Options
        BY <1>1, InvocationTypes
      <4> QED
        BY <4>1, Zenon DEF Options
    <3>2. bank(code_start) \in Nat
      BY <1>2, SMT DEF bank, BankSize
    <3> QED
      BY <3>1, <3>2 DEF rom_bank
  <2>3. rom_bank * BankSize + (IF rom_bank <= 63 THEN 32768 ELSE 0) \in Nat
    BY <2>2, SMT DEF BankSize
  <2> QED
    BY <1>2, <2>1, <2>3
<1>7. CASE Relocation.target \notin {NearRam, NearRom} \cup LocalName \cup DOMAIN StackLimit
  <2>1. \E d \in symbols : t.address = d.address
    BY <1>7 DEF Targets
  <2> QED
    BY <2>1 DEF LinkInv, Sections
<1> QED
  BY <1>4, <1>5, <1>6, <1>7

\* The effect of a patch at cell p on the cells of a section.
Patches(old, new, p, type, address) ==
    /\ new \in Seq(CellType) /\ Len(new) = Len(old)
    /\ \A j \in 1 .. Len(old) :
          /\ new[j].tag = old[j].tag
          /\ new[j].value = IF j = p THEN IF type = "ADDR24_BANK" THEN Bank(address) ELSE Low(address)
                            ELSE IF j = p + 1 /\ type # "ADDR24_BANK" THEN High(address)
                            ELSE old[j].value

\* A relocation patches its operand in its section and nothing else.
LEMMA RelocateEffect ==
    ASSUME LinkInv, Relocate
    PROVE  /\ AtRelocation /\ PatchInside
           /\ \E t \in Targets :
                 /\ t.address \in Nat
                 /\ Relocation.section = "CODE" =>
                       Patches(final_code, final_code', PatchBase + 2, Relocation.type, t.address)
                         /\ final_data' = final_data
                 /\ Relocation.section = "DATA" =>
                       Patches(final_data, final_data', PatchBase + 2, Relocation.type, t.address)
                         /\ final_code' = final_code
<1>1. AtRelocation /\ PatchInside
  BY DEF Relocate, RelocationAccepted
<1>2. PICK t \in Targets :
          IF Relocation.section = "CODE"
          THEN final_code' = Patched(final_code, t) /\ UNCHANGED final_data
          ELSE final_data' = Patched(final_data, t) /\ UNCHANGED final_code
  BY DEF Relocate
<1>3. t.address \in Nat
  BY <1>1, TargetAddress
<1>4. PatchBase + 2 \in Int /\ PatchBase + 2 + 1 = PatchBase + 3
  BY <1>1, RelocationFields
<1>5. ASSUME NEW cells \in Seq(CellType)
      PROVE  Patches(cells, Patched(cells, t), PatchBase + 2, Relocation.type, t.address)
  <2> DEFINE p == PatchBase + 2
             a == t.address
  <2>0. p \in Int /\ a \in Nat
    BY <1>3, <1>4
  <2> HIDE DEF p, a
  <2>1. CASE Relocation.type = "ADDR24_BANK"
    <3>1. Patched(cells, t) = Put(cells, p, Bank(a))
      BY <2>1 DEF Patched, p, a
    <3>2. Bank(a) \in CellValue
      BY <2>0, BankValue
    <3>3. /\ Put(cells, p, Bank(a)) \in Seq(CellType) /\ Len(Put(cells, p, Bank(a))) = Len(cells)
          /\ \A j \in 1 .. Len(cells) :
                 /\ Put(cells, p, Bank(a))[j].tag = cells[j].tag
                 /\ Put(cells, p, Bank(a))[j].value = IF j = p THEN Bank(a) ELSE cells[j].value
      BY <2>0, <3>2, PutFacts
    <3>4. Patches(cells, Patched(cells, t), p, Relocation.type, a)
      BY <2>1, <3>1, <3>3 DEF Patches
    <3> QED
      BY <3>4 DEF p, a
  <2>2. CASE Relocation.type # "ADDR24_BANK"
    <3>1. Patched(cells, t) = PutWord(cells, p, a)
      BY <2>2 DEF Patched, p, a
    <3>2. /\ PutWord(cells, p, a) \in Seq(CellType) /\ Len(PutWord(cells, p, a)) = Len(cells)
          /\ \A j \in 1 .. Len(cells) :
                 /\ PutWord(cells, p, a)[j].tag = cells[j].tag
                 /\ PutWord(cells, p, a)[j].value =
                       IF j = p THEN Low(a) ELSE IF j = p + 1 THEN High(a) ELSE cells[j].value
      BY <2>0, PutWordFacts
    <3>3. Patches(cells, Patched(cells, t), p, Relocation.type, a)
      BY <2>2, <3>1, <3>2 DEF Patches
    <3> QED
      BY <3>3 DEF p, a
  <2> QED
    BY <2>1, <2>2
<1>6. Patches(final_code, Patched(final_code, t), PatchBase + 2, Relocation.type, t.address)
  BY <1>5 DEF LinkInv, Sections
<1>7. Patches(final_data, Patched(final_data, t), PatchBase + 2, Relocation.type, t.address)
  BY <1>5 DEF LinkInv, Sections
<1> QED
  BY <1>1, <1>2, <1>3, <1>6, <1>7

\* Placement patches the jump of the startup code: values, not tags.
LEMMA PlaceEffect ==
    ASSUME LinkInv, Place
    PROVE  /\ final_code' \in Seq(CellType) /\ Len(final_code') = Len(final_code)
           /\ \A j \in 1 .. Len(final_code) : final_code'[j].tag = final_code[j].tag
<1>1. PlaceAccepted /\ final_code \in Seq(CellType)
  BY DEF Place, LinkInv, Sections
<1>2. CASE ~options.init
  BY <1>1, <1>2 DEF Place
<1>3. CASE options.init
  <2>1. PICK d \in Entry : TRUE
    BY <1>1, <1>3 DEF PlaceAccepted
  <2> DEFINE a == (CHOOSE e \in Entry : TRUE).address
             p == entry_patch + 1
  <2>2. a \in Nat
    <3>1. (CHOOSE e \in Entry : TRUE) \in symbols
      BY <2>1 DEF Entry
    <3> QED
      BY <3>1 DEF LinkInv, Sections
  <2>3. p \in Int
    <3>1. startup_size \in Nat
      BY StartupSize DEF LinkInv, Control, Sections
    <3> QED
      BY <3>1 DEF entry_patch
  <2>4. final_code' = PutWord(final_code, p, a)
    BY <1>3 DEF Place
  <2> HIDE DEF a, p
  <2> QED
    BY <1>1, <2>2, <2>3, <2>4, PutWordFacts
<1> QED
  BY <1>2, <1>3

\* A section grows by padding up to `base' and the bytes of one object.
BlockAdded(old, new, base, k, section) ==
    /\ new \in Seq(CellType) /\ Len(new) = base + SectionSize(objects[k], section)
    /\ \A j \in 1 .. Len(old) : new[j] = old[j]
    /\ \A j \in Len(old) + 1 .. base : new[j].tag = <<"pad">>
    /\ \A o \in 0 .. SectionSize(objects[k], section) - 1 : new[base + 1 + o].tag = <<k, section, o>>

\* Padding and the bytes of an object, appended, are such a block.
LEMMA BlockFacts ==
    ASSUME link \in Links, NEW old \in Seq(CellType), NEW n \in Nat,
           NEW k \in 1 .. Len(objects), NEW section \in {"CODE", "DATA"}
    PROVE  BlockAdded(old, old \o Padding(n) \o Bytes(k, section), Len(old) + n, k, section)
<1> DEFINE size == SectionSize(objects[k], section)
           pad == Padding(n)
           bytes == Bytes(k, section)
           new == old \o pad \o bytes
<1>1. pad \in Seq(CellType) /\ Len(pad) = n /\ \A j \in 1 .. n : pad[j].tag = <<"pad">>
  BY NewCells DEF Padding, Cell
<1>2. size \in Nat /\ bytes \in Seq(CellType) /\ Len(bytes) = size
  <2>1. objects[k].code \in Nat /\ objects[k].data \in Nat
    BY InvocationTypes, ObjectFields
  <2>2. CASE section = "CODE"
    BY <2>1, <2>2, NewCells DEF SectionSize
  <2>3. CASE section = "DATA"
    BY <2>1, <2>3, NewCells DEF SectionSize
  <2> QED
    BY <2>2, <2>3
<1>3. \A j \in 1 .. size : bytes[j].tag = <<k, section, j - 1>>
  BY DEF Bytes, Cell
<1> HIDE DEF size, pad, bytes
<1>4. old \o pad \in Seq(CellType) /\ Len(old \o pad) = Len(old) + n
  <2>1. pad \in Seq(CellType) /\ Len(pad) = n
    BY <1>1
  <2> QED
    BY <2>1, ConcatProperties
<1>5. new \in Seq(CellType) /\ Len(new) = Len(old) + n + size
  BY <1>2, <1>4
<1>6. \A j \in 1 .. Len(old) : new[j] = old[j]
  BY <1>1, <1>2, <1>4
<1>7. \A j \in Len(old) + 1 .. Len(old) + n : new[j].tag = <<"pad">>
  <2> SUFFICES ASSUME NEW j \in Len(old) + 1 .. Len(old) + n PROVE new[j].tag = <<"pad">>
    OBVIOUS
  <2>1. new[j] = (old \o pad)[j]
    BY <1>2, <1>4
  <2>2. (old \o pad)[j] = pad[j - Len(old)] /\ j - Len(old) \in 1 .. n
    BY <1>1
  <2> QED
    BY <1>1, <2>1, <2>2
<1>8. \A o \in 0 .. size - 1 : new[Len(old) + n + 1 + o].tag = <<k, section, o>>
  <2> SUFFICES ASSUME NEW o \in 0 .. size - 1 PROVE new[Len(old) + n + 1 + o].tag = <<k, section, o>>
    OBVIOUS
  <2>1. new[Len(old) + n + 1 + o] = bytes[o + 1]
    BY <1>2, <1>4
  <2>2. o + 1 \in 1 .. size /\ o + 1 - 1 = o
    BY <1>2
  <2> QED
    BY <1>3, <2>1, <2>2
<1> HIDE DEF new
<1>9. BlockAdded(old, new, Len(old) + n, k, section)
  BY <1>5, <1>6, <1>7, <1>8 DEF BlockAdded, size
<1> QED
  BY <1>9 DEF new, pad, bytes

\* The RAM block of an object begins at a multiple of its alignment.
LEMMA LayoutRamEffect ==
    ASSUME LinkInv, LayoutRam
    PROVE  \E b \in Nat :
              /\ ram_bases' = Append(ram_bases, b) /\ final_ram' \in Seq(0 .. 255)
              /\ Len(final_ram') <= BankSize - options.ram_origin
              /\ (options.ram_origin + b) % Current.ram_alignment = 0
<1>1. phase = "ram" /\ at <= Len(objects) /\ RamFits
  BY DEF LayoutRam
<1>2. Current \in Object /\ Current.ram_alignment \in Alignment
  BY <1>1, CurrentObject DEF LinkInv
<1>3. /\ Current.ram \in Seq(0 .. 255) /\ final_ram \in Seq(0 .. 255) /\ options.ram_origin \in Nat
  BY <1>2, ObjectFields, OptionTypes DEF LinkInv, Control, Sections
<1>4. options.ram_origin + Len(final_ram) \in Nat /\ Len(final_ram) \in Nat
  BY <1>3
<1>5. RamPad \in Nat /\ (options.ram_origin + Len(final_ram) + RamPad) % Current.ram_alignment = 0
  BY <1>2, <1>4, Padded DEF RamPad
<1> DEFINE zeros == [i \in 1 .. RamPad |-> 0]
<1>6. zeros \in Seq(0 .. 255) /\ Len(zeros) = RamPad
  BY <1>5
<1>7. final_ram' = final_ram \o zeros \o Current.ram /\ ram_bases' = Append(ram_bases, Len(final_ram) + RamPad)
  BY DEF LayoutRam
<1> HIDE DEF zeros
<1>8. final_ram \o zeros \in Seq(0 .. 255) /\ Len(final_ram \o zeros) = Len(final_ram) + RamPad
  BY <1>3, <1>5, <1>6
<1>9. final_ram' \in Seq(0 .. 255) /\ Len(final_ram') = Len(final_ram) + RamPad + Len(Current.ram)
  <2> DEFINE Byte == 0 .. 255
             s == final_ram \o zeros
             r == Current.ram
  <2>1. s \in Seq(Byte) /\ r \in Seq(Byte) /\ Len(s) = Len(final_ram) + RamPad /\ final_ram' = s \o r
    BY <1>3, <1>7, <1>8
  <2> HIDE DEF Byte, s, r
  <2>2. s \o r \in Seq(Byte) /\ Len(s \o r) = Len(s) + Len(r)
    BY <2>1, ConcatProperties
  <2> QED
    BY <2>1, <2>2 DEF Byte, r
<1>10. options.ram_origin + Len(final_ram) + RamPad = options.ram_origin + (Len(final_ram) + RamPad)
       /\ Len(final_ram) + RamPad \in Nat
  BY <1>3, <1>4, <1>5
<1>11. Len(final_ram') <= BankSize - options.ram_origin
  BY <1>1, <1>9 DEF RamFits
<1> QED
  BY <1>5, <1>7, <1>9, <1>10, <1>11

\* The CODE block of an object begins at a multiple of its alignment.
LEMMA LayoutCodeEffect ==
    ASSUME LinkInv, LayoutCode
    PROVE  \E b \in Nat :
              /\ code_bases' = Append(code_bases, b) /\ b >= Len(final_code)
              /\ BlockAdded(final_code, final_code', b, at, "CODE")
              /\ (code_start + b) % CodeAlignment(Current) = 0
              /\ symbols' = symbols \cup {Definition(at, s, code_start + b + s.offset,
                                              s.offset < Current.code) : s \in Globals(at, "CODE")}
<1>1. phase = "code" /\ at <= Len(objects) /\ link \in Links /\ objects # <<>>
  BY DEF LayoutCode, LinkInv, Control
<1>2. Current \in Object /\ CodeAlignment(Current) \in Alignment /\ at \in 1 .. Len(objects)
  BY <1>1, CurrentObject, ObjectFields DEF LinkInv
<1>3. final_code \in Seq(CellType) /\ code_start \in Nat
  BY <1>1, FixedAddresses DEF LinkInv, Sections
<1>4. code_start + Len(final_code) \in Nat /\ Len(final_code) \in Nat
  BY <1>3
<1>5. CodePad \in Nat /\ (code_start + Len(final_code) + CodePad) % CodeAlignment(Current) = 0
  BY <1>2, <1>4, Padded DEF CodePad
<1>6. /\ code_bases' = Append(code_bases, Len(final_code) + CodePad)
      /\ final_code' = final_code \o Padding(CodePad) \o Bytes(at, "CODE")
      /\ symbols' = symbols \cup {Definition(at, s, code_start + (Len(final_code) + CodePad) + s.offset,
                                              s.offset < Current.code) : s \in Globals(at, "CODE")}
  BY DEF LayoutCode
<1>7. BlockAdded(final_code, final_code', Len(final_code) + CodePad, at, "CODE")
  BY <1>1, <1>2, <1>3, <1>5, <1>6, BlockFacts
<1>8. /\ code_start + Len(final_code) + CodePad = code_start + (Len(final_code) + CodePad)
      /\ Len(final_code) + CodePad \in Nat /\ Len(final_code) + CodePad >= Len(final_code)
  BY <1>3, <1>4, <1>5
<1> DEFINE b == Len(final_code) + CodePad
<1> HIDE DEF b
<1> QED
  BY <1>5, <1>6, <1>7, <1>8

\* The DATA section begins at a multiple of the largest alignment.
LEMMA StartDataEffect ==
    ASSUME LinkInv, StartData
    PROVE  \E n \in Nat :
              /\ final_code' = final_code \o Padding(n) /\ data_start' = code_start + Len(final_code')
              /\ final_code' \in Seq(CellType) /\ Len(final_code') = Len(final_code) + n
              /\ \A j \in 1 .. Len(final_code) : final_code'[j] = final_code[j]
              /\ \A j \in Len(final_code) + 1 .. Len(final_code') : final_code'[j].tag = <<"pad">>
<1>1. phase = "code" /\ at > Len(objects) /\ link \in Links /\ objects # <<>>
  BY DEF StartData, LinkInv, Control
<1>2. \A k \in 1 .. Len(objects) : validate(objects[k])
  BY <1>1 DEF LinkInv, Control
<1>3. data_alignment \in Alignment
  BY <1>1, <1>2, DataAlignment
<1>4. final_code \in Seq(CellType) /\ code_start \in Nat
  BY <1>1, FixedAddresses DEF LinkInv, Sections
<1> DEFINE n == PadTo(code_start + Len(final_code), data_alignment)
<1>5. n \in Nat
  <2>1. code_start + Len(final_code) \in Nat
    BY <1>4
  <2> QED
    BY <1>3, <2>1, Padded
<1>6. final_code' = final_code \o Padding(n) /\ data_start' = code_start + Len(final_code) + n
  BY DEF StartData
<1> HIDE DEF n
<1> DEFINE pad == Padding(n)
<1>7. pad \in Seq(CellType) /\ Len(pad) = n /\ \A j \in 1 .. n : pad[j].tag = <<"pad">>
  BY <1>1, <1>5, NewCells DEF Padding, Cell
<1>8. final_code' = final_code \o pad
  BY <1>6
<1> HIDE DEF pad
<1>9. final_code' \in Seq(CellType) /\ Len(final_code') = Len(final_code) + n
  BY <1>4, <1>5, <1>7, <1>8
<1>10. \A j \in 1 .. Len(final_code) : final_code'[j] = final_code[j]
  BY <1>4, <1>7, <1>8
<1>11. ASSUME NEW j \in Len(final_code) + 1 .. Len(final_code') PROVE final_code'[j].tag = <<"pad">>
  <2>1. final_code'[j] = pad[j - Len(final_code)] /\ j - Len(final_code) \in 1 .. n
    BY <1>4, <1>5, <1>7, <1>8, <1>9
  <2> QED
    BY <1>7, <2>1
<1>12. data_start' = code_start + Len(final_code')
  BY <1>4, <1>5, <1>6, <1>9
<1> QED
  BY <1>5, <1>6, <1>9, <1>10, <1>11, <1>12

\* The DATA block of an object begins at a multiple of its alignment.
LEMMA LayoutDataEffect ==
    ASSUME LinkInv, LayoutData
    PROVE  LET b == Len(final_data) + DataPad(Len(final_data)) IN
           /\ b \in Nat /\ b >= Len(final_data) /\ BlockAdded(final_data, final_data', b, at, "DATA")
           /\ (data_start + b) % Current.data_alignment = 0
           /\ symbols' = symbols \cup {Definition(at, s, data_start + b + s.offset, FALSE) :
                                     s \in Globals(at, "DATA")}
<1>1. phase = "data" /\ at <= Len(objects) /\ link \in Links
  BY DEF LayoutData, LinkInv, Control
<1>2. Current.data_alignment \in Alignment /\ at \in 1 .. Len(objects)
  BY <1>1, CurrentObject DEF LinkInv
<1>3. final_data \in Seq(CellType) /\ data_start \in Nat
  BY DEF LinkInv, Sections
<1> DEFINE n == DataPad(Len(final_data))
<1>4. data_start + Len(final_data) \in Nat /\ Len(final_data) \in Nat
  BY <1>3
<1>5. n \in Nat /\ (data_start + Len(final_data) + n) % Current.data_alignment = 0
  BY <1>2, <1>4, Padded DEF DataPad
<1>6. /\ final_data' = final_data \o Padding(n) \o Bytes(at, "DATA")
      /\ symbols' = symbols \cup {Definition(at, s, data_start + (Len(final_data) + n) + s.offset, FALSE) :
                                     s \in Globals(at, "DATA")}
  BY DEF LayoutData
<1> HIDE DEF n
<1>7. BlockAdded(final_data, final_data', Len(final_data) + n, at, "DATA")
  BY <1>1, <1>2, <1>3, <1>5, <1>6, BlockFacts
<1>8. /\ data_start + Len(final_data) + n = data_start + (Len(final_data) + n)
      /\ Len(final_data) + n \in Nat /\ Len(final_data) + n >= Len(final_data)
  BY <1>3, <1>4, <1>5
<1> QED
  BY <1>5, <1>6, <1>7, <1>8 DEF n

-----------------------------------------------------------------------------
\* Placement depends on lengths and symbols only.
LEMMA SamePlacement ==
    ASSUME link' = link, Len(final_code') = Len(final_code), Len(final_data') = Len(final_data),
           final_ram' = final_ram, symbols' = symbols
    PROVE  (PlaceAccepted' = PlaceAccepted) /\ StackFloor' = StackFloor
<1>1. /\ options' = options /\ bitmap' = bitmap /\ (IsGSU' = IsGSU) /\ code_start' = code_start
      /\ ram_bank_base' = ram_bank_base /\ static_start' = static_start /\ stack_address' = stack_address
  BY SameInvocation
<1>2. payload_size' = payload_size
  BY DEF payload_size
<1>3. payload_end' = payload_end
  BY <1>1, <1>2 DEF payload_end
<1>4. Entry' = Entry
  BY <1>1 DEF Entry
<1>5. BitmapClear' = BitmapClear
  BY <1>1, <1>2 DEF BitmapClear, OverlapsBitmap, Overlap
<1>6. PlaceAccepted' = PlaceAccepted
  BY <1>1, <1>3, <1>4, <1>5 DEF PlaceAccepted
<1>7. \A b, e : ReservedBelow(b, e)' = ReservedBelow(b, e)
  BY <1>1 DEF ReservedBelow
<1>8. StaticReserved' = StaticReserved
  BY <1>1 DEF StaticReserved
<1>9. BitmapReserved' = BitmapReserved
  BY <1>1, <1>7 DEF BitmapReserved, ReservedBelow
<1>10. PayloadReserved' = PayloadReserved
  BY <1>1, <1>3, <1>7 DEF PayloadReserved, ReservedBelow
<1>11. StackFloor' = StackFloor
  BY <1>8, <1>9, <1>10 DEF StackFloor
<1> QED
  BY <1>6, <1>11

\* Symbols keep addresses that are numbers.
LEMMA SymbolAddresses ==
    ASSUME LinkInv, NEW k \in 1 .. Len(objects), NEW section, NEW base \in Nat
    PROVE  \A s \in Globals(k, section) : s.offset \in Nat /\ base + s.offset \in Nat
<1>1. objects[k] \in Object
  BY InvocationTypes DEF LinkInv, Control
<1>2. \A s \in Globals(k, section) : s \in SymbolEntry
  BY <1>1, ObjectFields DEF Globals
<1>3. \A s \in Globals(k, section) : s.offset \in Nat
  BY <1>2 DEF SymbolEntry
<1> QED
  BY <1>3

\* Every step keeps the types of the sections.
LEMMA NextSections ==
    ASSUME LinkInv, [Next]_vars
    PROVE  Sections' /\ BasesSoFar' /\ PlacementStands'
<1>1. link' = link /\ objects' = objects /\ options' = options /\ link \in Links
  BY LinkFixed, SameInvocation DEF LinkInv, Control
<1>2. Len(objects) \in Nat
  BY <1>1, InvocationTypes
<1> DEFINE NoLayout == UNCHANGED layoutVars
<1>3. NoLayout => Sections'
  BY <1>1 DEF LinkInv, Sections, layoutVars
<1> USE DEF LinkInv
<1>4. CASE ReadOptions \/ LoadObject \/ Configure
  <2>1. NoLayout /\ phase' \in {"load", "ram"} /\ (phase' = "ram" => at' = 1) /\ phase \in {"options", "load"}
    BY <1>4 DEF ReadOptions, LoadObject, Configure, Go
  <2>2. ram_bases' = ram_bases /\ code_bases' = code_bases
    BY <2>1 DEF layoutVars
  <2> QED
    BY <1>3, <2>1, <2>2 DEF BasesSoFar, PlacementStands
<1>5. CASE LayoutRam
  <2>1. /\ phase = "ram" /\ phase' = "ram" /\ at' = at + 1 /\ at \in Nat
        /\ UNCHANGED <<final_code, code_bases, final_data, symbols, data_start, data_base, stack_floor>>
    BY <1>1, <1>2, <1>5 DEF LayoutRam, Control
  <2>2. PICK b \in Nat : /\ ram_bases' = Append(ram_bases, b) /\ final_ram' \in Seq(0 .. 255)
                         /\ Len(final_ram') <= BankSize - options.ram_origin
    BY <1>5, LayoutRamEffect
  <2>3. ram_bases' \in Seq(Nat) /\ Len(ram_bases') = Len(ram_bases) + 1
    BY <2>2 DEF Sections
  <2>4. Sections'
    BY <1>1, <2>1, <2>2, <2>3 DEF Sections
  <2> QED
    BY <1>1, <2>1, <2>3, <2>4 DEF BasesSoFar, PlacementStands
<1>6. CASE StartCode
  <2>1. /\ phase = "ram" /\ phase' = "code" /\ at > Len(objects) /\ at' = 1 /\ symbols' = RamSymbols
        /\ final_code' = [i \in 1 .. startup_size |-> Cell(<<"startup", i - 1>>)]
        /\ UNCHANGED <<final_ram, ram_bases, code_bases, final_data, data_start, data_base, stack_floor>>
    BY <1>6 DEF StartCode, Go
  <2>2. final_code' \in Seq(CellType)
    <3>1. startup_size \in Nat
      BY <1>1, StartupSize DEF Sections
    <3>2. \A i \in 1 .. startup_size : Cell(<<"startup", i - 1>>) \in CellType
      BY <3>1 DEF Cell, CellType, CellValue, Tag
    <3> DEFINE n == startup_size
    <3> HIDE DEF n
    <3>3. [i \in 1 .. n |-> Cell(<<"startup", i - 1>>)] \in Seq(CellType)
      BY <3>1, <3>2 DEF n
    <3> QED
      BY <2>1, <3>3 DEF n
  <2>3. at = Len(objects) + 1
    BY <1>2, <2>1 DEF Control
  <2>4. Len(ram_bases) = Len(objects)
    BY <1>2, <2>1, <2>3 DEF BasesSoFar
  <2>5. \A d \in symbols' : d.address \in Nat
    <3>0. objects # <<>>
      BY <2>1 DEF Control
    <3>1. static_start \in Nat
      BY <1>1, <3>0, FixedAddresses
    <3>2. ASSUME NEW k \in 1 .. Len(objects) PROVE static_start + ram_bases[k] \in Nat
      BY <1>2, <2>4, <3>1 DEF Sections
    <3>3. \A k \in 1 .. Len(objects) : \A s \in Globals(k, "RAM") : static_start + ram_bases[k] + s.offset \in Nat
      BY <3>2, SymbolAddresses
    <3> QED
      BY <2>1, <3>3 DEF RamSymbols, Definition
  <2>6. Sections'
    BY <1>1, <2>1, <2>2, <2>5 DEF Sections
  <2>7. BasesSoFar'
    BY <1>1, <2>1, <2>4 DEF BasesSoFar
  <2> QED
    BY <2>1, <2>6, <2>7 DEF PlacementStands
<1>7. CASE LayoutCode
  <2>1. /\ phase = "code" /\ phase' = "code" /\ at' = at + 1 /\ at \in 1 .. Len(objects)
        /\ UNCHANGED <<final_ram, ram_bases, final_data, data_start, data_base, stack_floor>>
    BY <1>2, <1>7 DEF LayoutCode, Control
  <2>2. PICK b \in Nat :
            /\ code_bases' = Append(code_bases, b)
            /\ BlockAdded(final_code, final_code', b, at, "CODE")
            /\ symbols' = symbols \cup {Definition(at, s, code_start + b + s.offset,
                                              s.offset < Current.code) : s \in Globals(at, "CODE")}
    BY <1>7, LayoutCodeEffect
  <2>3. code_bases' \in Seq(Nat) /\ Len(code_bases') = Len(code_bases) + 1
    BY <2>2 DEF Sections
  <2>4. \A d \in symbols' : d.address \in Nat
    <3>1. code_start + b \in Nat
      BY <1>1, <2>1, FixedAddresses DEF Control
    <3>2. \A s \in Globals(at, "CODE") : code_start + b + s.offset \in Nat
      BY <2>1, <3>1, SymbolAddresses
    <3> QED
      BY <2>2, <3>2 DEF Sections, Definition
  <2>5. Sections'
    BY <1>1, <2>1, <2>2, <2>3, <2>4 DEF Sections, BlockAdded
  <2> QED
    BY <1>1, <1>2, <2>1, <2>3, <2>5 DEF BasesSoFar, PlacementStands
<1>8. CASE StartData
  <2>1. /\ phase = "code" /\ phase' = "data" /\ at > Len(objects)
        /\ UNCHANGED <<final_ram, ram_bases, code_bases, final_data, symbols, data_base, stack_floor>>
    BY <1>8 DEF StartData, Go
  <2>2. final_code' \in Seq(CellType) /\ data_start' = code_start + Len(final_code')
    BY <1>8, StartDataEffect
  <2>3. data_start' \in Nat
    BY <1>1, <2>1, <2>2, FixedAddresses DEF Control
  <2>4. at = Len(objects) + 1
    BY <1>2, <2>1 DEF Control
  <2>5. Sections'
    BY <1>1, <2>1, <2>2, <2>3 DEF Sections
  <2> QED
    BY <1>1, <1>2, <2>1, <2>4, <2>5 DEF BasesSoFar, PlacementStands
<1>9. CASE LayoutData
  <2>1. /\ phase = "data" /\ phase' = "data" /\ at \in 1 .. Len(objects)
        /\ UNCHANGED <<final_ram, ram_bases, final_code, code_bases, data_start, data_base, stack_floor>>
    BY <1>2, <1>9 DEF LayoutData, Control
  <2>2. \E b \in Nat :
            /\ BlockAdded(final_data, final_data', b, at, "DATA")
            /\ symbols' = symbols \cup {Definition(at, s, data_start + b + s.offset, FALSE) : s \in Globals(at, "DATA")}
    BY <1>9, LayoutDataEffect
  <2>3. PICK b \in Nat :
            /\ BlockAdded(final_data, final_data', b, at, "DATA")
            /\ symbols' = symbols \cup {Definition(at, s, data_start + b + s.offset, FALSE) : s \in Globals(at, "DATA")}
    BY <2>2
  <2>4. \A d \in symbols' : d.address \in Nat
    <3>1. data_start + b \in Nat
      BY DEF Sections
    <3>2. \A s \in Globals(at, "DATA") : data_start + b + s.offset \in Nat
      BY <2>1, <3>1, SymbolAddresses
    <3> QED
      BY <2>3, <3>2 DEF Sections, Definition
  <2>5. Sections'
    BY <1>1, <2>1, <2>3, <2>4 DEF Sections, BlockAdded
  <2> QED
    BY <1>1, <2>1, <2>5 DEF BasesSoFar, PlacementStands
<1>10. CASE Place
  <2>1. /\ phase = "data" /\ phase' = "relocate" /\ PlaceAccepted /\ stack_floor' = StackFloor /\ data_base' = 0
        /\ UNCHANGED <<final_ram, ram_bases, code_bases, final_data, symbols, data_start>>
    BY <1>10 DEF Place, Go
  <2>2. final_code' \in Seq(CellType) /\ Len(final_code') = Len(final_code)
    BY <1>10, PlaceEffect
  <2>3. PlacementStands'
    BY <1>1, <2>1, <2>2, SamePlacement DEF PlacementStands
  <2>4. StackFloor \in Nat
    BY <1>1, <2>1, FloorFacts DEF Sections, Control
  <2>5. Sections'
    BY <1>1, <2>1, <2>2, <2>4 DEF Sections
  <2> QED
    BY <1>1, <2>1, <2>3, <2>5 DEF BasesSoFar
<1>11. CASE Relocate
  <2>1. /\ phase = "relocate" /\ phase' = "relocate"
        /\ UNCHANGED <<final_ram, ram_bases, code_bases, symbols, data_start, data_base, stack_floor>>
    BY <1>11 DEF Relocate, AtRelocation
  <2>2. /\ final_code' \in Seq(CellType) /\ Len(final_code') = Len(final_code)
        /\ final_data' \in Seq(CellType) /\ Len(final_data') = Len(final_data)
    <3>1. Relocation.section \in {"CODE", "DATA"}
      BY <1>11, RelocateEffect, RelocationFields
    <3> QED
      BY <1>11, <3>1, RelocateEffect DEF Patches, Sections
  <2>3. PlacementStands'
    BY <1>1, <2>1, <2>2, SamePlacement DEF PlacementStands
  <2>4. Sections'
    BY <1>1, <2>1, <2>2 DEF Sections
  <2> QED
    BY <1>1, <2>1, <2>3, <2>4 DEF BasesSoFar
<1>12. CASE NextObject
  <2>1. /\ phase = "relocate" /\ phase' = "relocate" /\ at <= Len(objects) /\ data_base' = DataBase + Current.data
        /\ UNCHANGED <<final_ram, ram_bases, final_code, code_bases, final_data, symbols, data_start, stack_floor>>
    BY <1>12 DEF NextObject
  <2>2. DataBase \in Nat /\ Current.data \in Nat
    BY <2>1, SecondPass, CurrentObject, ObjectFields
  <2>3. PlacementStands'
    BY <1>1, <2>1, SamePlacement DEF PlacementStands
  <2>4. Sections'
    BY <1>1, <2>1, <2>2 DEF Sections
  <2> QED
    BY <1>1, <2>1, <2>3, <2>4 DEF BasesSoFar
<1>13. CASE Relocated
  <2>1. phase = "relocate" /\ phase' = "write" /\ NoLayout
    BY <1>13 DEF Relocated, Go
  <2>2. PlacementStands'
    BY <1>1, <2>1, SamePlacement DEF PlacementStands, layoutVars
  <2> QED
    BY <1>1, <1>3, <2>1, <2>2 DEF BasesSoFar, layoutVars
<1>14. CASE Reject \/ Write
  <2>1. phase' = "done" /\ NoLayout
    BY <1>14 DEF Reject, Fail, Write, Exit
  <2> QED
    BY <1>3, <2>1 DEF BasesSoFar, PlacementStands
<1>15. CASE UNCHANGED vars
  <2>1. NoLayout /\ phase' = phase /\ at' = at
    BY <1>15 DEF vars
  <2>2. PlacementStands'
    BY <1>1, <2>1, SamePlacement DEF PlacementStands, layoutVars
  <2> QED
    BY <1>1, <1>3, <2>1, <2>2 DEF BasesSoFar, layoutVars
<1> QED
  BY <1>4, <1>5, <1>6, <1>7, <1>8, <1>9, <1>10, <1>11, <1>12, <1>13, <1>14, <1>15 DEF Next, Step, Finished

\* The link invariant.
THEOREM LinkInvariant == Spec => []LinkInv
<1>1. LinkInv /\ [Next]_vars => LinkInv'
  BY NextControl, NextSections DEF LinkInv
<1> QED
  BY <1>1, InitLinkInv, PTL DEF Spec

-----------------------------------------------------------------------------
\* The regions of a finished link as numbers.
LEMMA RegionFacts ==
    ASSUME LinkInv, phase = "write"
    PROVE  /\ code_start \in Nat /\ payload_size \in Nat /\ payload_end = code_start + payload_size
           /\ Len(final_ram) \in Nat /\ (final_ram = <<>> <=> Len(final_ram) = 0)
           /\ static_start = ram_bank_base + options.ram_origin
           /\ stack_address = ram_bank_base + options.stack_pointer
           /\ options.ram_origin \in Nat /\ options.stack_pointer \in Nat
           /\ options.stack_pointer + 1 < 65536 /\ Len(final_ram) <= 65536 - options.ram_origin
           /\ BankSize = 65536 /\ RamBase = 7340032
           /\ \/ options.ram_bank = 0 /\ ram_bank_base = 7340032
              \/ options.ram_bank = 1 /\ ram_bank_base = 7405568
           /\ bitmap.base \in Nat /\ sizeBytes(bitmap) \in Nat /\ sizeBytes(bitmap) > 0
<1>1. link \in Links /\ objects # <<>>
  BY DEF LinkInv, Control
<1>2. code_start \in Nat /\ bitmap \in Bitmap
  BY <1>1, FixedAddresses
<1>3. options.ram_bank \in 0 .. 1 /\ options.ram_origin \in Nat /\ options.stack_pointer \in Nat
      /\ options.stack_pointer + 1 < BankSize
  BY <1>1, OptionTypes
<1>4. BankSize = 65536 /\ RamBase = 7340032
           /\ \/ options.ram_bank = 0 /\ ram_bank_base = 7340032
              \/ options.ram_bank = 1 /\ ram_bank_base = 7405568
  BY <1>3, RamBank
<1>5. bitmap.base \in Nat /\ sizeBytes(bitmap) \in Nat /\ sizeBytes(bitmap) > 0
  BY <1>2, BitmapSize
<1>6. payload_size \in Nat /\ payload_end = code_start + payload_size
  BY DEF LinkInv, Sections, payload_size, payload_end
<1>7. Len(final_ram) \in Nat /\ (final_ram = <<>> <=> Len(final_ram) = 0) /\ Len(final_ram) <= BankSize - options.ram_origin
  BY DEF LinkInv, Sections
<1> QED
  BY <1>2, <1>3, <1>4, <1>5, <1>6, <1>7 DEF static_start, stack_address

\* Two spans that do not overlap have no byte in common.
LEMMA SpansApart ==
    ASSUME NEW a \in Int, NEW m \in Int, NEW b \in Int, NEW n \in Int, ~Overlap(a, m, b, n)
    PROVE  Apart(Span(a, m), Span(b, n)) /\ Apart(Span(b, n), Span(a, m))
  BY DEF Overlap, Apart, Span

\* Regions of an accepted link are disjoint, for every invocation.
THEOREM PlacedRegionsAreDisjoint == Spec => []RegionsDisjoint
<1>1. LinkInv => RegionsDisjoint
  <2> SUFFICES ASSUME LinkInv, phase = "write", IsGSU
               PROVE  /\ Apart(PayloadBytes, StaticBytes) /\ Apart(PayloadBytes, BitmapBytes)
                      /\ Apart(StaticBytes, BitmapBytes)
                      /\ Apart(StackWord, PayloadBytes) /\ Apart(StackWord, StaticBytes)
                      /\ Apart(StackWord, BitmapBytes)
                      /\ payload_size > 0 => bank(code_start) = bank(payload_end - 1)
                      /\ final_ram # <<>> => bank(static_start) = bank(static_start + Len(final_ram) - 1)
    BY DEF RegionsDisjoint, Linked
  <2> DEFINE c == code_start
             p == payload_size
             r == static_start
             n == Len(final_ram)
             s == stack_address
             b == RamBase + bitmap.base
             z == sizeBytes(bitmap)
  <2>1. c \in Nat /\ p \in Nat /\ r \in Nat /\ n \in Nat /\ s \in Nat /\ b \in Nat /\ z \in Nat /\ payload_end = c + p
    <3>1. c \in Nat /\ p \in Nat /\ n \in Nat /\ z \in Nat /\ payload_end = c + p
      BY RegionFacts
    <3>2. RamBase = 7340032 /\ bitmap.base \in Nat
      BY RegionFacts
    <3>3. r \in Nat /\ s \in Nat
      BY FixedAddresses DEF LinkInv, Control
    <3> QED
      BY <3>1, <3>2, <3>3, SMT
  <2>2. PlaceAccepted
    BY DEF LinkInv, PlacementStands
  <2>3. Apart(Span(c, p), Span(r, n))
    <3>1. CASE final_ram = <<>>
      <4>1. n = 0
        BY <3>1
      <4> HIDE DEF n
      <4> QED
        BY <2>1, <4>1 DEF Apart, Span
    <3>2. CASE final_ram # <<>>
      <4>1. ~Overlap(c, p, r, n)
        BY <2>1, <2>2, <3>2 DEF PlaceAccepted, Overlap
      <4> QED
        BY <2>1, <4>1, SpansApart
    <3> QED
      BY <3>1, <3>2
  <2>4. bitmap.enabled => ~Overlap(c, p, b, z) /\ ~Overlap(r, n, b, z) /\ (options.init => ~Overlap(s, 2, b, z))
    BY <2>2 DEF PlaceAccepted, BitmapClear, OverlapsBitmap
  <2>5. options.init => ~Overlap(s, 2, c, p)
    BY <2>1, <2>2 DEF PlaceAccepted, Overlap
  <2>6. options.init => Apart(Span(s, 2), Span(r, n))
    <3>1. CASE final_ram = <<>>
      <4>1. n = 0
        BY <3>1
      <4> HIDE DEF n
      <4> QED
        BY <2>1, <4>1 DEF Apart, Span
    <3>2. CASE final_ram # <<>> /\ options.init
      <4>1. options.ram_origin + n < options.stack_pointer
        BY <2>2, <3>2 DEF PlaceAccepted
      <4>2. r = ram_bank_base + options.ram_origin /\ s = ram_bank_base + options.stack_pointer
        BY DEF static_start, stack_address
      <4>3. ram_bank_base \in Nat /\ options.ram_origin \in Nat /\ options.stack_pointer \in Nat
        BY FixedAddresses, OptionTypes DEF LinkInv, Control
      <4> HIDE DEF r, s, n
      <4>4. r + n < s
        BY <2>1, <4>1, <4>2, <4>3, SMT
      <4> QED
        BY <2>1, <4>4, SMT DEF Apart, Span
    <3> QED
      BY <3>1, <3>2
  <2>7. p > 0 => bank(code_start) = bank(payload_end - 1)
    <3>1. validatePayload(c, Len(final_code), Len(final_data)) /\ Len(final_code) \in Nat /\ Len(final_data) \in Nat
      BY <2>2 DEF PlaceAccepted, LinkInv, Sections
    <3>2. p <= 65536 - (c % 65536)
      BY <2>1, <3>1, SMT DEF validatePayload, offset, BankSize, payload_size
    <3> HIDE DEF c, p
    <3>3. p > 0 => c \div 65536 = (c + p - 1) \div 65536
      BY <2>1, <3>2, SMT
    <3> QED
      BY <2>1, <3>3, SMT DEF bank, BankSize, c, p
  <2>8. n > 0 => bank(static_start) = bank(static_start + n - 1)
    <3>1. /\ r = ram_bank_base + options.ram_origin /\ options.ram_origin \in Nat /\ n <= 65536 - options.ram_origin
          /\ ram_bank_base \in {7340032, 7405568}
      BY RegionFacts, SMT
    <3> DEFINE o == options.ram_origin
    <3> HIDE DEF r, n, o
    <3>2. n > 0 => r \div 65536 = (r + n - 1) \div 65536
      BY <2>1, <3>1, SMT DEF o
    <3> QED
      BY <2>1, <3>2, SMT DEF bank, BankSize, r, n
  <2> HIDE DEF c, p, r, n, s, b, z
  <2>9. Apart(PayloadBytes, StaticBytes)
    BY <2>3 DEF PayloadBytes, StaticBytes, c, p, r, n
  <2>10. Apart(PayloadBytes, BitmapBytes) /\ Apart(StaticBytes, BitmapBytes) /\ Apart(StackWord, BitmapBytes)
    BY <2>1, <2>4, SpansApart DEF PayloadBytes, StaticBytes, StackWord, BitmapBytes, Apart, c, p, r, n, b, z, s
  <2>11. Apart(StackWord, PayloadBytes) /\ Apart(StackWord, StaticBytes)
    BY <2>1, <2>5, <2>6, SpansApart DEF PayloadBytes, StaticBytes, StackWord, Apart, c, p, r, n, s
  <2> QED
    BY <2>7, <2>8, <2>9, <2>10, <2>11, RegionFacts DEF p, n
<1> QED
  BY <1>1, LinkInvariant, PTL

\* What ends below the stack pointer raises the floor above its end.
LEMMA ReservedRaisesFloor ==
    ASSUME NEW base \in Nat, NEW s \in Nat, NEW floor \in Nat, NEW b \in Nat, NEW z \in Nat,
           ~Overlap(s, 2, b, z),
           b < s /\ b + z > base => b + z - base <= floor
    PROVE  \A a \in Span(b, z) : a \in base .. s + 1 => a < base + floor
  BY SMT DEF Overlap, Span

\* The stack cannot grow down into data, for every invocation.
THEOREM StackStaysAboveFloor == Spec => []StackNeverReachesData
<1>1. LinkInv => StackNeverReachesData
  <2> SUFFICES ASSUME LinkInv, phase = "write", options.init
               PROVE  BelowFloor(PayloadBytes) /\ BelowFloor(StaticBytes) /\ BelowFloor(BitmapBytes)
    BY DEF StackNeverReachesData, Linked
  <2> DEFINE c == code_start
             p == payload_size
             n == Len(final_ram)
             s == stack_address
             base == ram_bank_base
             b == RamBase + bitmap.base
             z == sizeBytes(bitmap)
  <2>1. /\ c \in Nat /\ p \in Nat /\ n \in Nat /\ s \in Nat /\ b \in Nat /\ z \in Nat /\ base \in Nat
        /\ payload_end = c + p /\ stack_floor \in Nat /\ z > 0
    <3>1. c \in Nat /\ p \in Nat /\ n \in Nat /\ z \in Nat /\ payload_end = c + p /\ z > 0
      BY RegionFacts
    <3>2. RamBase = 7340032 /\ bitmap.base \in Nat
      BY RegionFacts
    <3>3. base \in Nat /\ s \in Nat
      BY FixedAddresses DEF LinkInv, Control
    <3> QED
      BY <3>1, <3>2, <3>3, SMT DEF LinkInv, Sections
  <2>2. PlaceAccepted /\ stack_floor = StackFloor
    BY DEF LinkInv, PlacementStands
  <2>3. IsGSU
    <3>1. ConfigAccepted
      BY DEF LinkInv, Control
    <3> QED
      BY <3>1 DEF ConfigAccepted
  <2>4. \A x \in StaticReserved \cup BitmapReserved \cup PayloadReserved : x <= stack_floor
    BY <2>2, FloorFacts DEF LinkInv, Control, Sections
  <2>5. ASSUME NEW first_byte \in Nat, NEW end \in Nat, first_byte < s, end > base
        PROVE  ReservedBelow(first_byte, end) = {end - base}
    BY <2>5 DEF ReservedBelow
  <2>6. BelowFloor(BitmapBytes)
    <3>1. CASE bitmap.enabled
      <4>1. ~Overlap(s, 2, b, z)
        BY <2>2, <3>1 DEF PlaceAccepted, BitmapClear, OverlapsBitmap
      <4>2. b < s /\ b + z > base => b + z - base <= stack_floor
        <5>1. BitmapReserved = ReservedBelow(b, b + z)
          BY <3>1 DEF BitmapReserved
        <5> HIDE DEF b, z, s, base
        <5>2. b + z \in Nat
          BY <2>1
        <5>3. ASSUME b < s, b + z > base PROVE b + z - base <= stack_floor
          <6>1. ReservedBelow(b, b + z) = {b + z - base}
            BY <2>1, <2>5, <5>2, <5>3
          <6> QED
            BY <2>4, <5>1, <6>1
        <5> QED
          BY <5>3
      <4> HIDE DEF b, z, s, base
      <4>3. \A a \in Span(b, z) : a \in base .. s + 1 => a < base + stack_floor
        BY <2>1, <4>1, <4>2, ReservedRaisesFloor
      <4> QED
        BY <3>1, <4>3 DEF BelowFloor, BitmapBytes, b, z, s, base
    <3>2. CASE ~bitmap.enabled
      BY <3>2 DEF BitmapBytes, BelowFloor
    <3> QED
      BY <3>1, <3>2
  <2>7. BelowFloor(StaticBytes)
    <3> SUFFICES ASSUME NEW a \in StaticBytes PROVE a < base + stack_floor
      BY DEF BelowFloor
    <3> DEFINE o == options.ram_origin
    <3>1. o \in Nat /\ static_start = base + o
      BY OptionTypes DEF LinkInv, Control, static_start
    <3>2. a \in base + o .. base + o + n - 1
      BY <3>1 DEF StaticBytes, Span
    <3>3. n > 0
      <4> HIDE DEF base, o, n
      <4> QED
        BY <2>1, <3>1, <3>2
    <3>4. 2 * ((o + n + 1) \div 2) \in StaticReserved
      BY <3>3 DEF StaticReserved
    <3>5. 2 * ((o + n + 1) \div 2) <= stack_floor
      BY <2>4, <3>4
    <3> HIDE DEF base, o, n
    <3>6. o + n <= stack_floor
      BY <2>1, <3>1, <3>5, SMT
    <3> QED
      BY <2>1, <3>1, <3>2, <3>6, SMT
  <2>8. BelowFloor(PayloadBytes)
    <3> SUFFICES ASSUME NEW a \in Span(c, p), a \in base .. s + 1 PROVE a < base + stack_floor
      BY DEF BelowFloor, PayloadBytes
    <3>1. ~Overlap(s, 2, c, p)
      BY <2>1, <2>2 DEF PlaceAccepted, Overlap
    <3>2. validatePayload(c, Len(final_code), Len(final_data)) /\ Len(final_code) \in Nat /\ Len(final_data) \in Nat
      BY <2>2, <2>3 DEF PlaceAccepted, LinkInv, Sections
    <3>3. p <= 65536 - (c % 65536)
      BY <2>1, <3>2, SMT DEF validatePayload, offset, BankSize, payload_size
    <3>4. /\ \/ options.ram_bank = 0 /\ base = 7340032
             \/ options.ram_bank = 1 /\ base = 7405568
          /\ s = base + options.stack_pointer /\ options.stack_pointer \in Nat /\ options.stack_pointer + 1 < 65536
      BY RegionFacts
    <3>5. c \div 65536 = 112 + options.ram_bank
      <4> HIDE DEF c, p, s, base
      <4>1. a \in c .. c + p - 1 /\ a \in base .. base + 65535
        BY <2>1, <3>4, SMT DEF Span
      <4>2. c \div 65536 = a \div 65536
        BY <2>1, <3>3, <4>1, SMT
      <4>3. CASE options.ram_bank = 0 /\ base = 7340032
        BY <2>1, <4>1, <4>2, <4>3, SMT
      <4>4. CASE options.ram_bank = 1 /\ base = 7405568
        BY <2>1, <4>1, <4>2, <4>4, SMT
      <4> QED
        BY <3>4, <4>3, <4>4
    <3>6. bank(c) = FirstRamBank + options.ram_bank /\ region(c) = "Ram"
      <4>1. bank(c) = c \div 65536
        BY SMT DEF bank, BankSize
      <4>2. bank(c) = 112 \/ bank(c) = 113
        BY <3>4, <3>5, <4>1, SMT
      <4> HIDE DEF c
      <4>3. c <= 16777215
        BY <2>1, <4>1, <4>2, SMT
      <4>4. MaxAddress = 16777215
        BY SMT DEF MaxAddress, BankSize
      <4>5. region(c) = "Ram"
        <5>1. /\ ~(c > MaxAddress) /\ ~(bank(c) <= 63) /\ bank(c) \notin 64 .. 95
              /\ bank(c) \in {FirstRamBank, FirstRamBank + 1}
          <6>1. ~(c > MaxAddress)
            BY <2>1, <4>3, <4>4, SMT
          <6>2. FirstRamBank = 112
            BY DEF FirstRamBank
          <6> DEFINE d == bank(c)
          <6>3. d = 112 \/ d = 113
            BY <4>2
          <6> HIDE DEF d
          <6>4. ~(d <= 63) /\ d \notin 64 .. 95 /\ d \in {FirstRamBank, FirstRamBank + 1}
            BY ONLY <6>2, <6>3, SMT
          <6> QED
            BY <6>1, <6>4 DEF d
        <5> QED
          BY ONLY <5>1, SMT DEF region
      <4> QED
        BY <3>5, <4>1, <4>5, SMT DEF FirstRamBank
    <3>7. PayloadReserved = ReservedBelow(c, c + p)
      BY <2>1, <3>6 DEF PayloadReserved
    <3>8. c < s /\ c + p > base => c + p - base <= stack_floor
      <4> HIDE DEF c, p, s, base
      <4>1. c + p \in Nat
        BY <2>1
      <4>2. ASSUME c < s, c + p > base PROVE c + p - base <= stack_floor
        <5>1. ReservedBelow(c, c + p) = {c + p - base}
          BY <2>1, <2>5, <4>1, <4>2
        <5> QED
          BY <2>4, <3>7, <5>1
      <4> QED
        BY <4>2
    <3> HIDE DEF c, p, s, base
    <3> QED
      BY <2>1, <3>1, <3>8, ReservedRaisesFloor
  <2> QED
    BY <2>6, <2>7, <2>8
<1> QED
  BY <1>1, LinkInvariant, PTL

-----------------------------------------------------------------------------
\* Bytes of an image, read with the code's guard against its end.
LEMMA ImageBytes ==
    ASSUME NEW B, 0 \in B, NEW image \in Seq(B)
    PROVE  /\ Len(image) \in Nat
           /\ \A i \in 1 .. Len(image) : ByteAt(image, i) = image[i] /\ ByteAt(image, i) \in B
           /\ \A i \in Nat : ByteAt(image, i + 1) \in B
<1> DEFINE n == Len(image)
<1>1. n \in Nat /\ \A i \in 1 .. n : image[i] \in B
  BY ElementOfSeq
<1>2. \A i \in 1 .. n : ByteAt(image, i) = image[i]
  <2> SUFFICES ASSUME NEW i \in 1 .. n PROVE ByteAt(image, i) = image[i]
    OBVIOUS
  <2>1. i <= n
    BY <1>1
  <2> QED
    BY <2>1 DEF ByteAt
<1>3. ASSUME NEW i \in Nat PROVE ByteAt(image, i + 1) \in B
  <2>1. CASE i + 1 <= n
    <3>1. i + 1 \in 1 .. n
      BY <1>1, <2>1
    <3> HIDE DEF n
    <3> QED
      BY <1>1, <1>2, <3>1
  <2>2. CASE ~(i + 1 <= n)
    <3>1. ByteAt(image, i + 1) = 0
      BY <2>2 DEF ByteAt
    <3> QED
      BY <3>1
  <2> QED
    BY <2>1, <2>2
<1> QED
  BY <1>1, <1>2, <1>3

\* A word gives back the two bytes it was made of.
LEMMA WordBytes ==
    ASSUME NEW x \in 0 .. 255, NEW y \in 0 .. 255
    PROVE  (x + 256 * y) % 256 = x /\ (x + 256 * y) \div 256 = y
<1> DEFINE v == x + 256 * y
<1>1. v \in Nat /\ v = x + 256 * y
  BY SMT
<1> HIDE DEF v
<1>2. v % 256 = x /\ v \div 256 = y
  BY <1>1, SMT
<1> QED
  BY <1>2 DEF v

\* The startup code leaves the static image in RAM, for every image.
THEOREM StartupCodeBuildsImage == Spec => []StartupBuildsImage
<1>1. LinkInv => StartupBuildsImage
  <2> SUFFICES ASSUME LinkInv
               PROVE  /\ \A i \in 1 .. Len(final_ram) : AfterStartup(options.ram_origin + i - 1) = final_ram[i]
                      /\ \A i \in {-1, Len(final_ram)} : AfterStartup(options.ram_origin + i) = -1
    BY DEF StartupBuildsImage
  <2> DEFINE n == Len(final_ram)
             o == options.ram_origin
             value(i) == ByteAt(final_ram, i) + 256 * ByteAt(final_ram, i + 1)
             bytes(i) == IF i = n THEN 1 ELSE 2
             hit(a) == {s \in Stores(final_ram) : a \in s.address .. s.address + s.bytes - 1}
  <2>1. final_ram \in Seq(0 .. 255) /\ n \in Nat /\ o \in Nat
    BY OptionTypes DEF LinkInv, Control, Sections
  <2>0. 0 \in 0 .. 255
    BY SMT
  <2>2. \A i \in Nat : ByteAt(final_ram, i + 1) \in 0 .. 255
    BY <2>0, <2>1, ImageBytes
  <2>3. \A i \in 1 .. n : ByteAt(final_ram, i) = final_ram[i] /\ ByteAt(final_ram, i) \in 0 .. 255
    BY <2>0, <2>1, ImageBytes
  \* A store that covers address a is the one of the word at a, or at a - 1.
  <2>4. ASSUME NEW a \in Int, NEW s \in hit(a)
        PROVE  \E j \in NonzeroWords(final_ram) :
                  /\ s.address = o + j - 1 /\ s.value = value(j) /\ s.bytes = bytes(j)
                  /\ o + j - 1 <= a /\ a <= o + j - 1 + bytes(j) - 1
    <3>1. PICK j \in NonzeroWords(final_ram) :
              s = [address |-> o + j - 1, value |-> value(j), bytes |-> bytes(j)]
      BY DEF Stores
    <3>2. s.address = o + j - 1 /\ s.value = value(j) /\ s.bytes = bytes(j)
      BY <3>1
    <3>3. a \in s.address .. s.address + s.bytes - 1
      OBVIOUS
    <3>4. j \in Nat
      BY <2>1 DEF NonzeroWords
    <3>5. bytes(j) \in Nat
      OBVIOUS
    <3> HIDE DEF o, bytes, value, hit
    <3> QED
      BY <2>1, <3>2, <3>3, <3>4, <3>5
  <2>5. ASSUME NEW j \in NonzeroWords(final_ram), NEW a \in Int, o + j - 1 <= a, a <= o + j - 1 + bytes(j) - 1
        PROVE  hit(a) # {}
    <3> DEFINE s == [address |-> o + j - 1, value |-> value(j), bytes |-> bytes(j)]
    <3>1. s \in Stores(final_ram)
      BY DEF Stores
    <3>2. s.address = o + j - 1 /\ s.bytes = bytes(j)
      OBVIOUS
    <3>3. j \in Nat /\ bytes(j) \in Nat
      BY <2>1 DEF NonzeroWords
    <3>4. a \in s.address .. s.address + s.bytes - 1
      <4> HIDE DEF s, o, bytes
      <4> QED
        BY <2>1, <2>5, <3>2, <3>3
    <3> QED
      BY <3>1, <3>4
  <2>6. \A a : AfterStartup(a) =
            IF hit(a) # {} THEN LET s == CHOOSE x \in hit(a) : TRUE
                                IN  IF a = s.address THEN s.value % 256 ELSE s.value \div 256
            ELSE IF a - o \in 0 .. n - 1 THEN 0 ELSE -1
    BY DEF AfterStartup
  <2>8. \A j \in NonzeroWords(final_ram) : j \in 1 .. n /\ j % 2 = 1
    BY DEF NonzeroWords
  <2>9. \A j \in 1 .. n : j % 2 = 1 /\ j \notin NonzeroWords(final_ram) => final_ram[j] = 0 /\ ByteAt(final_ram, j + 1) = 0
    BY DEF NonzeroWords
  <2>10. \A j \in 1 .. n : value(j) % 256 = final_ram[j] /\ value(j) \div 256 = ByteAt(final_ram, j + 1)
    <3> SUFFICES ASSUME NEW j \in 1 .. n
                 PROVE  value(j) % 256 = final_ram[j] /\ value(j) \div 256 = ByteAt(final_ram, j + 1)
      OBVIOUS
    <3> DEFINE x == ByteAt(final_ram, j)
               y == ByteAt(final_ram, j + 1)
    <3>1. x \in 0 .. 255 /\ y \in 0 .. 255 /\ x = final_ram[j]
      <4>1. j \in Nat
        BY <2>1
      <4> QED
        BY <2>2, <2>3, <4>1
    <3>2. value(j) = x + 256 * y
      OBVIOUS
    <3> HIDE DEF x, y, value
    <3>3. value(j) % 256 = x /\ value(j) \div 256 = y
      <4>1. (x + 256 * y) % 256 = x /\ (x + 256 * y) \div 256 = y
        BY <3>1, WordBytes
      <4> QED
        BY <3>2, <4>1
    <3> QED
      BY <3>1, <3>3 DEF y
  <2> HIDE DEF hit, value
  <2>11. ASSUME NEW i \in 1 .. n PROVE AfterStartup(o + i - 1) = final_ram[i]
    <3> DEFINE a == o + i - 1
    <3>0. a \in Int /\ a - o = i - 1 /\ i - 1 \in 0 .. n - 1
      BY <2>1
    <3>1. CASE hit(a) # {}
      <4> DEFINE s == CHOOSE x \in hit(a) : TRUE
      <4>1. s \in hit(a)
        BY <3>1
      <4>2. AfterStartup(a) = IF a = s.address THEN s.value % 256 ELSE s.value \div 256
        BY <2>6, <3>1
      <4> HIDE DEF s, a
      <4>3. PICK j \in NonzeroWords(final_ram) :
                  /\ s.address = o + j - 1 /\ s.value = value(j) /\ s.bytes = bytes(j)
                  /\ o + j - 1 <= a /\ a <= o + j - 1 + bytes(j) - 1
        BY <2>4, <3>0, <4>1
      <4>4. j \in 1 .. n
        BY <2>8
      <4>5. CASE i = j
        <5>1. a = s.address
          BY <4>3, <4>5 DEF a
        <5> QED
          BY <2>10, <4>2, <4>3, <4>4, <4>5, <5>1 DEF a
      <4>6. CASE i # j
        <5>1. i = j + 1 /\ a # s.address
          BY <2>1, <4>3, <4>4, <4>6 DEF a
        <5>2. ByteAt(final_ram, j + 1) = final_ram[i]
          BY <2>3, <5>1
        <5> QED
          BY <2>10, <4>2, <4>3, <4>4, <5>1, <5>2 DEF a
      <4> QED
        BY <4>5, <4>6
    <3>2. CASE hit(a) = {}
      <4>1. AfterStartup(a) = 0
        <5> HIDE DEF a
        <5> QED
          BY <2>6, <3>0, <3>2
      <4>2. final_ram[i] = 0
        <5>1. CASE i % 2 = 1
          <6>1. i \notin NonzeroWords(final_ram)
            <7>1. o + i - 1 <= a /\ a <= o + i - 1 + bytes(i) - 1
              BY <2>1
            <7> QED
              BY <2>5, <3>0, <3>2, <7>1
          <6> QED
            BY <2>9, <5>1, <6>1
        <5>2. CASE i % 2 = 0
          <6>1. i - 1 \in 1 .. n /\ (i - 1) % 2 = 1 /\ bytes(i - 1) = 2 /\ i - 1 + 1 = i
            <7>1. i - 1 \in 1 .. n /\ (i - 1) % 2 = 1 /\ i - 1 # n /\ i - 1 + 1 = i
              <8> HIDE DEF n
              <8> QED
                BY <2>1, <5>2, SMT
            <7> QED
              BY <7>1
          <6>2. i - 1 \notin NonzeroWords(final_ram)
            <7>1. o + (i - 1) - 1 <= a /\ a <= o + (i - 1) - 1 + bytes(i - 1) - 1
              BY <2>1, <6>1
            <7> QED
              BY <2>5, <3>0, <3>2, <7>1
          <6> QED
            BY <2>3, <2>9, <6>1, <6>2
        <5> QED
          BY <2>1, <5>1, <5>2
      <4> QED
        BY <4>1, <4>2
    <3> QED
      BY <3>1, <3>2
  <2>12. ASSUME NEW i \in {-1, n} PROVE AfterStartup(o + i) = -1
    <3> DEFINE a == o + i
    <3>1. a \in Int /\ a - o = i /\ i \notin 0 .. n - 1
      BY <2>1
    <3>2. hit(a) = {}
      <4>1. SUFFICES ASSUME NEW s \in hit(a) PROVE FALSE
        OBVIOUS
      <4>2. PICK j \in NonzeroWords(final_ram) : o + j - 1 <= a /\ a <= o + j - 1 + bytes(j) - 1
        BY <2>4, <3>1
      <4>3. j \in 1 .. n
        BY <2>8
      <4> QED
        BY <2>1, <4>2, <4>3
    <3> HIDE DEF a
    <3>3. AfterStartup(a) = -1
      BY <2>6, <3>1, <3>2
    <3> QED
      BY <3>3 DEF a
  <2> QED
    BY <2>11, <2>12
<1> QED
  BY <1>1, LinkInvariant, PTL

-----------------------------------------------------------------------------
(***************************************************************************)
(* Where the bytes are.  LayoutInv says that each section is the sequence  *)
(* of its objects' blocks, that a global symbol has one definition with    *)
(* the address of its block, and that every operand patched so far holds   *)
(* the address of the symbol it names.                                     *)
(*                                                                         *)
(* The code does not keep the bases of the DATA blocks: the second pass    *)
(* recomputes them.  The invariant speaks of a sequence b of them, which   *)
(* grows by one when LayoutData adds a block and which the second pass is  *)
(* shown to find again (SecondPassAgrees).                                 *)
(***************************************************************************)
Laid == {"code", "data", "relocate", "write"}
FixedTag == {<<"pad">>} \cup ({"startup"} \X Nat)

\* A section holds the blocks of the objects in their order, and nothing else
\* but padding and startup code: a byte's tag is found only at its place.
Blocks(os, cells, section, bases) ==
    /\ Len(bases) <= Len(os)
    /\ \A k \in 1 .. Len(bases) :
          /\ bases[k] + SectionSize(os[k], section) <= Len(cells)
          /\ \A o \in 0 .. SectionSize(os[k], section) - 1 : cells[bases[k] + 1 + o].tag = <<k, section, o>>
    /\ \A j, k \in 1 .. Len(bases) : j < k => bases[j] + SectionSize(os[j], section) <= bases[k]
    /\ \A i \in 1 .. Len(cells) :
          \/ cells[i].tag \in FixedTag
          \/ \E k \in 1 .. Len(bases) : \E o \in 0 .. SectionSize(os[k], section) - 1 :
                cells[i].tag = <<k, section, o>> /\ i = bases[k] + 1 + o

BlockEnd(b, k) == IF k = 0 THEN 0 ELSE b[k] + objects[k].data

RamAligned == \A k \in 1 .. Len(ram_bases) :
                 (options.ram_origin + ram_bases[k]) % objects[k].ram_alignment = 0

CodeLaid == phase \in Laid =>
    /\ Blocks(objects, final_code, "CODE", code_bases)
    /\ \A k \in 1 .. Len(code_bases) :
          /\ (code_start + code_bases[k]) % CodeAlignment(objects[k]) = 0
          /\ \A s \in objects[k].symbols : ~Reserved(s.name)

\* Both passes compute the same bases: a block begins where the one before it
\* ends, padded to its alignment.
DataLaid(b) ==
    /\ Blocks(objects, final_data, "DATA", b)
    /\ \A k \in 1 .. Len(b) :
          b[k] = BlockEnd(b, k - 1) + PadTo(data_start + BlockEnd(b, k - 1), objects[k].data_alignment)
    /\ phase \notin {"data", "relocate", "write"} => Len(b) = 0 /\ Len(final_data) = 0
    /\ phase = "data" => Len(b) = at - 1 /\ Len(final_data) = BlockEnd(b, at - 1)
    /\ phase \in {"relocate", "write"} => Len(b) = Len(objects)
    /\ phase = "relocate" => data_base = BlockEnd(b, at - 1)
    /\ phase \in {"data", "relocate", "write"} => data_start = code_start + Len(final_code)

\* The address of a symbol of object k, from the base of its block.
HomeOf(k, s, b) == s.offset + (CASE s.section = "CODE" -> code_start + code_bases[k]
                                 [] s.section = "DATA" -> data_start + b[k]
                                 [] s.section = "RAM"  -> static_start + ram_bases[k])

Reached(k, section, b) ==
    (section = "CODE" => k <= Len(code_bases)) /\ (section = "DATA" => k <= Len(b))

\* A global name has one definition, and it has the address of its symbol.
SymbolsHome(b) == phase \in Laid =>
    /\ \A d, e \in symbols : d.name = e.name => d = e
    /\ \A k \in 1 .. Len(objects) : \A s \in objects[k].symbols :
          s.name \notin LocalName /\ Reached(k, s.section, b) =>
             \E d \in symbols : d.name = s.name /\ d.address = HomeOf(k, s, b)

SectionCells(section) == IF section = "CODE" THEN final_code ELSE final_data
SectionBase(k, section, b) == IF section = "CODE" THEN code_bases[k] ELSE b[k]

\* The first cell of a relocation's operand, and all of them.
PatchCell(k, r, b) == r.offset + SectionBase(k, r.section, b) + 2
OperandCells(k, r, b) == PatchCell(k, r, b) .. PatchCell(k, r, b) + PatchSize(r.type) - 2
RelocationDone(k, i) == phase = "write" \/ k < at \/ (k = at /\ i < rel)

\* What is patched holds the address of the symbol it names.
PatchesHold(b) == phase \in {"relocate", "write"} =>
    \A k \in 1 .. Len(objects) : \A i \in 1 .. Len(objects[k].relocations) :
        RelocationDone(k, i) =>
            LET r == objects[k].relocations[i] IN
            \A n \in Named(k, r.target) :
                Holds(SectionCells(r.section), PatchCell(k, r, b), r.type, HomeOf(n.object, n.symbol, b))

LayoutInv ==
    /\ LinkInv /\ RamAligned /\ CodeLaid
    /\ phase # "done" => \E b \in Seq(Nat) : DataLaid(b) /\ SymbolsHome(b) /\ PatchesHold(b)

\* Tags of different kinds, and of different bytes, differ.
LEMMA TagsDiffer ==
    /\ \A k, s, o : <<k, s, o>> \notin FixedTag
    /\ \A k, s, o, k2, s2, o2 : <<k, s, o>> = <<k2, s2, o2>> => k = k2 /\ s = s2 /\ o = o2
<1>1. ASSUME NEW k, NEW s, NEW o PROVE <<k, s, o>> \notin FixedTag
  <2>1. <<k, s, o>> # <<"pad">>
    <3>1. Len(<<k, s, o>>) = 3 /\ Len(<<"pad">>) = 1
      OBVIOUS
    <3> QED
      BY <3>1
  <2>2. ASSUME NEW i \in Nat PROVE <<k, s, o>> # <<"startup", i>>
    <3>1. Len(<<k, s, o>>) = 3 /\ Len(<<"startup", i>>) = 2
      OBVIOUS
    <3> QED
      BY <3>1
  <2> QED
    BY <2>1, <2>2 DEF FixedTag
<1> QED
  BY <1>1

\* The size of a section of an object.
LEMMA SectionSizes ==
    ASSUME NEW o \in Object
    PROVE  /\ SectionSize(o, "CODE") = o.code /\ SectionSize(o, "DATA") = o.data
           /\ SectionSize(o, "RAM") = Len(o.ram)
           /\ \A section \in Section : SectionSize(o, section) \in Nat
<1>1. /\ SectionSize(o, "CODE") = o.code /\ SectionSize(o, "DATA") = o.data
      /\ SectionSize(o, "RAM") = Len(o.ram)
  <2>1. SectionSize(o, "CODE") = o.code
    BY Zenon DEF SectionSize
  <2>2. SectionSize(o, "DATA") = o.data
    BY Zenon DEF SectionSize
  <2>3. SectionSize(o, "RAM") = Len(o.ram)
    BY Zenon DEF SectionSize
  <2> QED
    BY <2>1, <2>2, <2>3
<1>2. o.code \in Nat /\ o.data \in Nat /\ Len(o.ram) \in Nat
  BY ObjectFields
<1> QED
  BY <1>1, <1>2 DEF Section

\* A byte of a block is in the section exactly once, at its place.
LEMMA ByteHome ==
    ASSUME NEW os \in Seq(Object), NEW cells \in Seq(CellType), NEW section \in {"CODE", "DATA"},
           NEW bases \in Seq(Nat), Blocks(os, cells, section, bases),
           NEW k \in 1 .. Len(bases), NEW o \in 0 .. SectionSize(os[k], section) - 1
    PROVE  /\ bases[k] + 1 + o \in 1 .. Len(cells)
           /\ cells[bases[k] + 1 + o].tag = <<k, section, o>>
           /\ \A i \in 1 .. Len(cells) : cells[i].tag = <<k, section, o>> => i = bases[k] + 1 + o
<1>1. os[k] \in Object /\ bases[k] \in Nat /\ Len(bases) \in Nat /\ Len(cells) \in Nat
  BY DEF Blocks
<1> DEFINE size == SectionSize(os[k], section)
<1>2. size \in Nat
  BY <1>1, SectionSizes DEF Section
<1>3. bases[k] + size <= Len(cells) /\ cells[bases[k] + 1 + o].tag = <<k, section, o>>
  BY DEF Blocks
<1>4. bases[k] + 1 + o \in 1 .. Len(cells)
  <2> DEFINE c == bases[k]
             m == Len(cells)
  <2>1. o \in 0 .. size - 1 /\ c \in Nat /\ m \in Nat /\ c + size <= m
    BY <1>1, <1>3
  <2> HIDE DEF size, c, m
  <2>2. c + 1 + o \in 1 .. m
    BY <1>2, <2>1
  <2> QED
    BY <2>2 DEF c, m
<1>5. ASSUME NEW i \in 1 .. Len(cells), cells[i].tag = <<k, section, o>> PROVE i = bases[k] + 1 + o
  <2>1. cells[i].tag \notin FixedTag
    BY <1>5, TagsDiffer
  <2>2. PICK k2 \in 1 .. Len(bases) : \E o2 \in 0 .. SectionSize(os[k2], section) - 1 :
                cells[i].tag = <<k2, section, o2>> /\ i = bases[k2] + 1 + o2
    BY <2>1 DEF Blocks
  <2>3. PICK o2 \in 0 .. SectionSize(os[k2], section) - 1 :
                cells[i].tag = <<k2, section, o2>> /\ i = bases[k2] + 1 + o2
    BY <2>2
  <2>4. k = k2 /\ o = o2
    BY <1>5, <2>3, TagsDiffer
  <2> QED
    BY <2>3, <2>4
<1> QED
  BY <1>3, <1>4, <1>5

\* Cells of other sections have no byte of this one.
LEMMA NoStrangers ==
    ASSUME NEW os, NEW cells, NEW section, NEW bases, Blocks(os, cells, section, bases),
           NEW i \in 1 .. Len(cells), NEW k, NEW other, NEW o, other # section
    PROVE  cells[i].tag # <<k, other, o>>
<1> SUFFICES ASSUME cells[i].tag = <<k, other, o>> PROVE FALSE
  OBVIOUS
<1>1. cells[i].tag \notin FixedTag
  BY TagsDiffer
<1>2. PICK k2 \in 1 .. Len(bases) : \E o2 \in 0 .. SectionSize(os[k2], section) - 1 :
                cells[i].tag = <<k2, section, o2>>
  BY <1>1 DEF Blocks
<1> QED
  BY <1>2, TagsDiffer

\* Blocks depend only on the tags.
LEMMA BlocksKept ==
    ASSUME NEW os, NEW cells, NEW new, NEW section, NEW bases, Blocks(os, cells, section, bases),
           Len(new) = Len(cells), \A j \in 1 .. Len(cells) : new[j].tag = cells[j].tag,
           Len(cells) \in Nat, Len(bases) \in Nat,
           \A k \in 1 .. Len(bases) : bases[k] \in Nat /\ SectionSize(os[k], section) \in Nat
    PROVE  Blocks(os, new, section, bases)
<1>1. ASSUME NEW k \in 1 .. Len(bases), NEW o \in 0 .. SectionSize(os[k], section) - 1
      PROVE  new[bases[k] + 1 + o].tag = <<k, section, o>>
  <2> DEFINE size == SectionSize(os[k], section)
             c == bases[k]
  <2>1. c \in Nat /\ size \in Nat /\ c + size <= Len(cells) /\ o \in 0 .. size - 1
    BY DEF Blocks
  <2>2. cells[c + 1 + o].tag = <<k, section, o>>
    BY DEF Blocks
  <2> HIDE DEF size, c
  <2>3. c + 1 + o \in 1 .. Len(cells)
    BY <2>1
  <2>4. new[c + 1 + o].tag = <<k, section, o>>
    BY <2>2, <2>3
  <2> QED
    BY <2>4 DEF c
<1>2. ASSUME NEW i \in 1 .. Len(new)
      PROVE  \/ new[i].tag \in FixedTag
             \/ \E k \in 1 .. Len(bases) : \E o \in 0 .. SectionSize(os[k], section) - 1 :
                new[i].tag = <<k, section, o>> /\ i = bases[k] + 1 + o
  <2>1. i \in 1 .. Len(cells) /\ new[i].tag = cells[i].tag
    OBVIOUS
  <2>2. \/ cells[i].tag \in FixedTag
        \/ \E k \in 1 .. Len(bases) : \E o \in 0 .. SectionSize(os[k], section) - 1 :
                cells[i].tag = <<k, section, o>> /\ i = bases[k] + 1 + o
    BY <2>1, Zenon DEF Blocks
  <2> QED
    BY <2>1, <2>2, Zenon
<1> QED
  BY <1>1, <1>2 DEF Blocks

\* Padding after the last block moves no block.
LEMMA BlocksPadded ==
    ASSUME NEW os, NEW cells, NEW new, NEW section, NEW bases, Blocks(os, cells, section, bases),
           Len(new) \in Nat, Len(cells) \in Nat, Len(bases) \in Nat, Len(new) >= Len(cells),
           \A j \in 1 .. Len(cells) : new[j] = cells[j],
           \A j \in Len(cells) + 1 .. Len(new) : new[j].tag \in FixedTag,
           \A k \in 1 .. Len(bases) : bases[k] \in Nat /\ SectionSize(os[k], section) \in Nat
    PROVE  Blocks(os, new, section, bases)
<1>1. ASSUME NEW k \in 1 .. Len(bases)
      PROVE  /\ bases[k] + SectionSize(os[k], section) <= Len(new)
             /\ \A o \in 0 .. SectionSize(os[k], section) - 1 : new[bases[k] + 1 + o].tag = <<k, section, o>>
  <2> DEFINE size == SectionSize(os[k], section)
             c == bases[k]
  <2>1. c \in Nat /\ size \in Nat /\ c + size <= Len(cells)
    BY DEF Blocks
  <2>2. \A o \in 0 .. size - 1 : cells[c + 1 + o].tag = <<k, section, o>>
    BY DEF Blocks
  <2> HIDE DEF size, c
  <2>3. \A o \in 0 .. size - 1 : c + 1 + o \in 1 .. Len(cells)
    BY <2>1
  <2>4. c + size <= Len(new)
    BY <2>1
  <2>5. \A o \in 0 .. size - 1 : new[c + 1 + o].tag = <<k, section, o>>
    BY <2>2, <2>3
  <2> QED
    BY <2>4, <2>5 DEF c, size
<1>2. ASSUME NEW i \in 1 .. Len(new)
      PROVE  \/ new[i].tag \in FixedTag
             \/ \E k \in 1 .. Len(bases) : \E o \in 0 .. SectionSize(os[k], section) - 1 :
                new[i].tag = <<k, section, o>> /\ i = bases[k] + 1 + o
  <2>1. CASE i \in 1 .. Len(cells)
    BY <2>1 DEF Blocks
  <2>2. CASE i \in Len(cells) + 1 .. Len(new)
    BY <2>2
  <2> QED
    BY <2>1, <2>2
<1> QED
  BY <1>1, <1>2 DEF Blocks

\* A block is added at the end.
LEMMA BlocksAppended ==
    ASSUME link \in Links, NEW cells \in Seq(CellType), NEW new, NEW section \in {"CODE", "DATA"},
           NEW bases \in Seq(Nat), Blocks(objects, cells, section, bases),
           Len(bases) < Len(objects), NEW b \in Nat, b >= Len(cells),
           BlockAdded(cells, new, b, Len(bases) + 1, section)
    PROVE  Blocks(objects, new, section, Append(bases, b))
<1> DEFINE n == Len(bases)
           more == Append(bases, b)
           size(k) == SectionSize(objects[k], section)
<1>1. /\ n \in Nat /\ Len(cells) \in Nat /\ Len(objects) \in Nat /\ n + 1 <= Len(objects)
      /\ \A k \in 1 .. n : bases[k] \in Nat
  BY InvocationTypes
<1>2. \A k \in 1 .. Len(objects) : size(k) \in Nat
  BY InvocationTypes, SectionSizes DEF Section
<1>3. more \in Seq(Nat) /\ Len(more) = n + 1 /\ more[n + 1] = b /\ \A k \in 1 .. n : more[k] = bases[k]
  BY AppendProperties
<1>4. /\ \A k \in 1 .. n : bases[k] + size(k) <= Len(cells)
      /\ \A k \in 1 .. n : \A o \in 0 .. size(k) - 1 : cells[bases[k] + 1 + o].tag = <<k, section, o>>
      /\ \A j, k \in 1 .. n : j < k => bases[j] + size(j) <= bases[k]
      /\ \A i \in 1 .. Len(cells) :
          \/ cells[i].tag \in FixedTag
          \/ \E k \in 1 .. n : \E o \in 0 .. size(k) - 1 :
                cells[i].tag = <<k, section, o>> /\ i = bases[k] + 1 + o
  BY DEF Blocks
<1>5. /\ Len(new) = b + size(n + 1)
      /\ \A j \in 1 .. Len(cells) : new[j] = cells[j]
      /\ \A j \in Len(cells) + 1 .. b : new[j].tag = <<"pad">>
      /\ \A o \in 0 .. size(n + 1) - 1 : new[b + 1 + o].tag = <<n + 1, section, o>>
  BY DEF BlockAdded
<1> HIDE DEF n, more, size
<1>6. \A k \in 1 .. n + 1 : k \in 1 .. n \/ k = n + 1
  BY <1>1
<1>7. ASSUME NEW k \in 1 .. n + 1
      PROVE  more[k] + size(k) <= Len(new) /\ \A o \in 0 .. size(k) - 1 : new[more[k] + 1 + o].tag = <<k, section, o>>
  <2>1. CASE k = n + 1
    <3>1. size(k) \in Nat /\ more[k] = b /\ Len(new) = b + size(k)
      BY <1>1, <1>2, <1>3, <1>5, <2>1
    <3>2. \A o \in 0 .. size(k) - 1 : new[more[k] + 1 + o].tag = <<k, section, o>>
      BY <1>5, <2>1, <3>1
    <3> QED
      BY <3>1, <3>2
  <2>2. CASE k \in 1 .. n
    <3>1. bases[k] \in Nat /\ size(k) \in Nat /\ size(n + 1) \in Nat
      BY <1>1, <1>2, <2>2
    <3>2. bases[k] + size(k) <= Len(cells) /\ more[k] = bases[k]
      BY <1>3, <1>4, <2>2
    <3>3. more[k] + size(k) <= Len(new)
      BY <1>1, <1>5, <3>1, <3>2
    <3>4. ASSUME NEW o \in 0 .. size(k) - 1 PROVE new[more[k] + 1 + o].tag = <<k, section, o>>
      <4>1. bases[k] + 1 + o \in 1 .. Len(cells)
        <5> DEFINE c == bases[k]
                   z == size(k)
                   m == Len(cells)
        <5>1. c \in Nat /\ z \in Nat /\ c + z <= m /\ o \in 0 .. z - 1 /\ m \in Nat
          BY <1>1, <3>1, <3>2
        <5> HIDE DEF c, z, m
        <5>2. c + 1 + o \in 1 .. m
          BY <5>1
        <5> QED
          BY <5>2 DEF c, m
      <4> QED
        BY <1>4, <1>5, <2>2, <3>2, <4>1
    <3> QED
      BY <3>3, <3>4
  <2> QED
    BY <1>6, <2>1, <2>2
<1>8. ASSUME NEW j \in 1 .. n + 1, NEW k \in 1 .. n + 1, j < k PROVE more[j] + size(j) <= more[k]
  <2>1. j \in 1 .. n
    BY <1>1, <1>8
  <2>2. CASE k \in 1 .. n
    BY <1>3, <1>4, <1>8, <2>1, <2>2
  <2>3. CASE k = n + 1
    <3>1. more[j] = bases[j] /\ bases[j] + size(j) <= Len(cells) /\ bases[j] \in Nat /\ size(j) \in Nat
      BY <1>1, <1>2, <1>3, <1>4, <2>1
    <3> QED
      BY <1>1, <1>3, <2>3, <3>1
  <2> QED
    BY <1>6, <2>2, <2>3
<1>9. ASSUME NEW i \in 1 .. Len(new)
      PROVE  \/ new[i].tag \in FixedTag
             \/ \E k \in 1 .. n + 1 : \E o \in 0 .. size(k) - 1 :
                new[i].tag = <<k, section, o>> /\ i = more[k] + 1 + o
  <2>0. size(n + 1) \in Nat
    BY <1>1, <1>2
  <2>1. i \in 1 .. Len(cells) \/ i \in Len(cells) + 1 .. b \/ i \in b + 1 .. b + size(n + 1)
    BY <1>1, <1>5, <2>0
  <2>2. CASE i \in 1 .. Len(cells)
    <3>1. \A k \in 1 .. n : k \in 1 .. n + 1
      BY <1>1
    <3>2. new[i] = cells[i]
      BY <1>5, <2>2
    <3>3. CASE cells[i].tag \in FixedTag
      BY <3>2, <3>3
    <3>4. CASE cells[i].tag \notin FixedTag
      <4>1. PICK k \in 1 .. n : \E o \in 0 .. size(k) - 1 : cells[i].tag = <<k, section, o>> /\ i = bases[k] + 1 + o
        BY <1>4, <2>2, <3>4
      <4>2. \E o \in 0 .. size(k) - 1 : new[i].tag = <<k, section, o>> /\ i = more[k] + 1 + o
        BY <1>3, <3>2, <4>1
      <4> QED
        BY <3>1, <4>2
    <3> QED
      BY <3>3, <3>4
  <2>3. CASE i \in Len(cells) + 1 .. b
    BY <1>5, <2>3 DEF FixedTag
  <2>4. CASE i \in b + 1 .. b + size(n + 1)
    <3> DEFINE o == i - b - 1
    <3>1. o \in 0 .. size(n + 1) - 1 /\ i = b + 1 + o
      BY <2>0, <2>4
    <3> HIDE DEF o
    <3>2. new[i].tag = <<n + 1, section, o>> /\ i = more[n + 1] + 1 + o
      BY <1>3, <1>5, <3>1
    <3>3. n + 1 \in 1 .. n + 1
      BY <1>1
    <3> QED
      BY <3>1, <3>2, <3>3
  <2> QED
    BY <2>1, <2>2, <2>3, <2>4
<1>10. Len(more) <= Len(objects)
  BY <1>1, <1>3
<1>11. /\ Len(more) <= Len(objects)
       /\ \A k \in 1 .. Len(more) :
          /\ more[k] + size(k) <= Len(new)
          /\ \A o \in 0 .. size(k) - 1 : new[more[k] + 1 + o].tag = <<k, section, o>>
       /\ \A j, k \in 1 .. Len(more) : j < k => more[j] + size(j) <= more[k]
       /\ \A i \in 1 .. Len(new) :
          \/ new[i].tag \in FixedTag
          \/ \E k \in 1 .. Len(more) : \E o \in 0 .. size(k) - 1 :
                new[i].tag = <<k, section, o>> /\ i = more[k] + 1 + o
  <2>1. 1 .. Len(more) = 1 .. n + 1
    BY <1>3
  <2> QED
    BY <1>7, <1>8, <1>9, <1>10, <2>1, Zenon
<1>12. Blocks(objects, new, section, more)
  BY <1>11, Zenon DEF Blocks, size
<1> QED
  BY <1>12 DEF more

\* The RAM blocks stay where they are, aligned.
LEMMA NextRamAligned ==
    ASSUME LinkInv, RamAligned, [Next]_vars
    PROVE  RamAligned'
<1>1. link' = link /\ objects' = objects /\ options' = options
  BY LinkFixed, SameInvocation
<1>2. CASE LayoutRam
  <2>1. phase = "ram" /\ at <= Len(objects)
    BY <1>2 DEF LayoutRam
  <2>2. PICK b \in Nat : ram_bases' = Append(ram_bases, b)
                           /\ (options.ram_origin + b) % Current.ram_alignment = 0
    BY <1>2, LayoutRamEffect
  <2>3. ram_bases \in Seq(Nat) /\ Len(ram_bases) = at - 1 /\ at \in Nat
    BY <2>1 DEF LinkInv, Sections, BasesSoFar, Control
  <2> DEFINE n == Len(ram_bases)
  <2>4. Len(ram_bases') = n + 1 /\ ram_bases'[n + 1] = b /\ \A k \in 1 .. n : ram_bases'[k] = ram_bases[k]
    BY <2>2, <2>3, AppendProperties
  <2>5. n \in Nat /\ n + 1 = at
    BY <2>3
  <2> HIDE DEF n
  <2>6. ASSUME NEW k \in 1 .. Len(ram_bases')
        PROVE  (options.ram_origin + ram_bases'[k]) % objects[k].ram_alignment = 0
    <3>1. k \in 1 .. n \/ k = n + 1
      BY <2>4, <2>5
    <3>2. CASE k \in 1 .. n
      BY <2>4, <3>2, Zenon DEF RamAligned, n
    <3>3. CASE k = n + 1
      BY <2>2, <2>4, <2>5, <3>3, Zenon DEF Current
    <3> QED
      BY <3>1, <3>2, <3>3
  <2> QED
    BY <1>1, <2>6, Zenon DEF RamAligned
<1>3. CASE ram_bases' = ram_bases
  BY <1>1, <1>3 DEF RamAligned
<1>4. [Next]_vars => LayoutRam \/ ram_bases' = ram_bases
  BY DEF vars, layoutVars, Next, Step, ReadOptions, LoadObject, Configure, StartCode, LayoutCode,
     StartData, LayoutData, Place, Relocate, NextObject, Relocated, Reject, Fail, Write, Finished
<1> QED
  BY <1>2, <1>3, <1>4

\* Sizes of the sections of all objects, as blocks need them.
LEMMA BlockSizes ==
    ASSUME link \in Links, NEW section \in Section
    PROVE  \A k \in 1 .. Len(objects) : SectionSize(objects[k], section) \in Nat
  BY InvocationTypes, SectionSizes

\* The CODE blocks: LayoutCode adds one, StartData pads, patches keep the tags.
LEMMA NextCodeLaid ==
    ASSUME LinkInv, CodeLaid, [Next]_vars
    PROVE  CodeLaid'
<1>1. link' = link /\ link \in Links /\ objects' = objects /\ code_start' = code_start
  BY LinkFixed, SameInvocation DEF LinkInv, Control
<1>2. /\ final_code \in Seq(CellType) /\ code_bases \in Seq(Nat)
      /\ Len(final_code) \in Nat /\ Len(code_bases) \in Nat /\ Len(objects) \in Nat
      /\ \A k \in 1 .. Len(code_bases) : code_bases[k] \in Nat
  BY <1>1, InvocationTypes DEF LinkInv, Sections
<1>3. \A k \in 1 .. Len(objects) : SectionSize(objects[k], "CODE") \in Nat
  BY <1>1, BlockSizes DEF Section
<1>4. CASE StartCode
  <2>1. phase' = "code" /\ phase = "ram" /\ code_bases' = code_bases /\ Len(code_bases) = 0
    BY <1>4 DEF StartCode, Go, LinkInv, BasesSoFar
  <2>2. final_code' = [i \in 1 .. startup_size |-> Cell(<<"startup", i - 1>>)] /\ startup_size \in Nat
    BY <1>1, <1>4, StartupSize DEF StartCode, LinkInv, Sections
  <2> DEFINE n == startup_size
  <2>3. Len(final_code') = n /\ \A i \in 1 .. n : final_code'[i].tag = <<"startup", i - 1>>
    <3> HIDE DEF n
    <3> QED
      BY <2>2 DEF Cell, n
  <2>4. \A i \in 1 .. n : i - 1 \in Nat
    BY <2>2
  <2>5. \A i \in 1 .. Len(final_code') : final_code'[i].tag \in FixedTag
    <3>1. \A i \in 1 .. n : <<"startup", i - 1>> \in FixedTag
      BY <2>4 DEF FixedTag
    <3> QED
      BY <2>3, <3>1
  <2>6. 1 .. Len(code_bases') = {}
    BY <2>1
  <2>7. Blocks(objects, final_code', "CODE", code_bases')
    BY <1>2, <2>1, <2>5, <2>6 DEF Blocks
  <2> QED
    BY <1>1, <2>6, <2>7 DEF CodeLaid
<1>5. CASE LayoutCode
  <2>1. phase = "code" /\ at \in 1 .. Len(objects) /\ CodeAccepted /\ Len(code_bases) = at - 1
    BY <1>5 DEF LayoutCode, LinkInv, BasesSoFar, Control
  <2>2. PICK b \in Nat : /\ code_bases' = Append(code_bases, b) /\ b >= Len(final_code)
                         /\ BlockAdded(final_code, final_code', b, at, "CODE")
                         /\ (code_start + b) % CodeAlignment(Current) = 0
    BY <1>5, LayoutCodeEffect
  <2> DEFINE n == Len(code_bases)
  <2>3. n + 1 = at /\ n < Len(objects)
    BY <1>2, <2>1
  <2>4. Blocks(objects, final_code, "CODE", code_bases)
    BY <2>1 DEF CodeLaid, Laid
  <2>5. Blocks(objects, final_code', "CODE", code_bases')
    <3>1. BlockAdded(final_code, final_code', b, n + 1, "CODE")
      BY <2>2, <2>3
    <3>2. Blocks(objects, final_code', "CODE", Append(code_bases, b))
      BY <1>1, <1>2, <2>2, <2>3, <2>4, <3>1, BlocksAppended
    <3> QED
      BY <2>2, <3>2
  <2>6. Len(code_bases') = n + 1 /\ code_bases'[n + 1] = b /\ \A k \in 1 .. n : code_bases'[k] = code_bases[k]
    BY <1>2, <2>2, AppendProperties
  <2> HIDE DEF n
  <2>7. ASSUME NEW k \in 1 .. Len(code_bases')
        PROVE  /\ (code_start + code_bases'[k]) % CodeAlignment(objects[k]) = 0
               /\ \A s \in objects[k].symbols : ~Reserved(s.name)
    <3>1. k \in 1 .. n \/ k = n + 1
      BY <1>2, <2>6 DEF n
    <3>2. CASE k \in 1 .. n
      BY <2>1, <2>6, <3>2, Zenon DEF CodeLaid, Laid, n
    <3>3. CASE k = n + 1
      BY <2>1, <2>2, <2>3, <2>6, <3>3, Zenon DEF Current, CodeAccepted
    <3> QED
      BY <3>1, <3>2, <3>3
  <2> QED
    BY <1>1, <2>5, <2>7, Zenon DEF CodeLaid, Reserved
<1>6. ASSUME phase \in Laid, code_bases' = code_bases, Blocks(objects, final_code', "CODE", code_bases)
      PROVE  CodeLaid'
  BY <1>1, <1>6 DEF CodeLaid, Reserved
<1>7. phase \in Laid => /\ Blocks(objects, final_code, "CODE", code_bases)
                        /\ \A k \in 1 .. Len(code_bases) : k \in 1 .. Len(objects)
  <2> SUFFICES ASSUME phase \in Laid
               PROVE  /\ Blocks(objects, final_code, "CODE", code_bases)
                      /\ \A k \in 1 .. Len(code_bases) : k \in 1 .. Len(objects)
    OBVIOUS
  <2>1. Blocks(objects, final_code, "CODE", code_bases)
    BY DEF CodeLaid
  <2>2. Len(code_bases) <= Len(objects)
    BY <2>1 DEF Blocks
  <2> QED
    BY <1>2, <2>1, <2>2
<1>8. CASE StartData
  <2>1. phase \in Laid /\ code_bases' = code_bases
    BY <1>8 DEF StartData, Laid
  <2>2. PICK n \in Nat :
              /\ Len(final_code') = Len(final_code) + n
              /\ \A j \in 1 .. Len(final_code) : final_code'[j] = final_code[j]
              /\ \A j \in Len(final_code) + 1 .. Len(final_code') : final_code'[j].tag = <<"pad">>
    BY <1>8, StartDataEffect
  <2>3. \A j \in Len(final_code) + 1 .. Len(final_code') : final_code'[j].tag \in FixedTag
    BY <2>2, Zenon DEF FixedTag
  <2>4. Len(final_code') \in Nat /\ Len(final_code') >= Len(final_code)
    BY <1>2, <2>2
  <2>5. Blocks(objects, final_code', "CODE", code_bases)
    BY <1>2, <1>3, <1>7, <2>1, <2>2, <2>3, <2>4, BlocksPadded, Zenon
  <2> QED
    BY <1>6, <2>1, <2>5
<1>9. CASE Place \/ Relocate
  <2>1. phase \in Laid /\ code_bases' = code_bases
    BY <1>9 DEF Place, Relocate, AtRelocation, Laid
  <2>2. Len(final_code') = Len(final_code) /\ \A j \in 1 .. Len(final_code) : final_code'[j].tag = final_code[j].tag
    <3>1. CASE Place
      BY <3>1, PlaceEffect
    <3>2. CASE Relocate
      <4>1. Relocation.section \in {"CODE", "DATA"}
        BY <3>2, RelocateEffect, RelocationFields
      <4> QED
        BY <3>2, <4>1, RelocateEffect DEF Patches
    <3> QED
      BY <1>9, <3>1, <3>2
  <2>3. Blocks(objects, final_code', "CODE", code_bases)
    BY <1>2, <1>3, <1>7, <2>1, <2>2, BlocksKept, Zenon
  <2> QED
    BY <1>6, <2>1, <2>3
<1>10. CASE /\ phase' \in Laid => phase \in Laid
            /\ UNCHANGED <<final_code, code_bases>>
  BY <1>1, <1>10 DEF CodeLaid, Reserved
<1>11. CASE phase' \notin Laid
  BY <1>11 DEF CodeLaid
<1>12. CASE ReadOptions \/ LoadObject \/ Configure \/ LayoutRam \/ Reject \/ Write
  <2>1. phase' \notin Laid
    BY <1>12 DEF ReadOptions, LoadObject, Configure, LayoutRam, Reject, Write, Fail, Exit, Go, Laid
  <2> QED
    BY <1>11, <2>1
<1>13. CASE LayoutData \/ NextObject \/ Relocated \/ UNCHANGED vars
  <2>1. (phase' \in Laid => phase \in Laid) /\ UNCHANGED <<final_code, code_bases>>
    BY <1>13 DEF LayoutData, NextObject, Relocated, vars, layoutVars, Laid, Go
  <2> QED
    BY <1>10, <2>1
<1> QED
  BY <1>4, <1>5, <1>8, <1>9, <1>12, <1>13 DEF Next, Step, Finished

\* The end of a block depends on the invocation only.
LEMMA BlockEndFixed == ASSUME link' = link PROVE \A b, k : BlockEnd(b, k)' = BlockEnd(b, k)
  BY SameInvocation DEF BlockEnd

\* The base the second pass computes is the one of the first.
LEMMA SecondPassAgrees ==
    ASSUME LinkInv, NEW b \in Seq(Nat), DataLaid(b), phase = "relocate", at <= Len(objects)
    PROVE  DataBase = b[at] /\ at \in 1 .. Len(b)
<1>1. at \in 1 .. Len(b)
  BY DEF LinkInv, Control, DataLaid
<1>2. b[at] = BlockEnd(b, at - 1) + PadTo(data_start + BlockEnd(b, at - 1), objects[at].data_alignment)
  BY <1>1 DEF DataLaid
<1>3. data_base = BlockEnd(b, at - 1)
  BY DEF DataLaid
<1> QED
  BY <1>1, <1>2, <1>3, Zenon DEF DataBase, DataPad, Current

\* Every step but LayoutData keeps the DATA blocks.
LEMMA DataKept ==
    ASSUME LinkInv, NEW b \in Seq(Nat), DataLaid(b), [Next]_vars, ~LayoutData, phase' # "done"
    PROVE  DataLaid(b)'
<1>1. /\ link' = link /\ link \in Links /\ objects' = objects /\ code_start' = code_start
      /\ Len(objects) \in Nat
  BY LinkFixed, SameInvocation, InvocationTypes DEF LinkInv, Control
<1>2. \A k : BlockEnd(b, k)' = BlockEnd(b, k)
  BY <1>1, BlockEndFixed
<1>3. Len(b) \in Nat /\ final_data \in Seq(CellType) /\ Len(final_data) \in Nat /\ at \in Nat
  BY <1>1 DEF LinkInv, Sections, Control
<1>4. Blocks(objects, final_data, "DATA", b)
  BY DEF DataLaid
<1> DEFINE Recurrence ==
             \A k \in 1 .. Len(b) :
                b[k] = BlockEnd(b, k - 1) + PadTo(data_start + BlockEnd(b, k - 1), objects[k].data_alignment)
           Where ==
    /\ phase \notin {"data", "relocate", "write"} => Len(b) = 0 /\ Len(final_data) = 0
    /\ phase = "data" => Len(b) = at - 1 /\ Len(final_data) = BlockEnd(b, at - 1)
    /\ phase \in {"relocate", "write"} => Len(b) = Len(objects)
    /\ phase = "relocate" => data_base = BlockEnd(b, at - 1)
    /\ phase \in {"data", "relocate", "write"} => data_start = code_start + Len(final_code)
<1>5. Recurrence /\ Where
  BY DEF DataLaid
<1>6. Blocks(objects, final_data', "DATA", b)
  <2>1. CASE final_data' = final_data
    BY <1>4, <2>1
  <2>2. CASE Relocate
    <3>1. Relocation.section \in {"CODE", "DATA"}
      BY <2>2, RelocateEffect, RelocationFields
    <3>2. Len(final_data') = Len(final_data) /\ \A j \in 1 .. Len(final_data) : final_data'[j].tag = final_data[j].tag
      BY <2>2, <3>1, RelocateEffect DEF Patches
    <3>3. \A k \in 1 .. Len(b) : b[k] \in Nat /\ SectionSize(objects[k], "DATA") \in Nat
      <4>1. Len(b) <= Len(objects)
        BY <1>4 DEF Blocks
      <4>2. \A k \in 1 .. Len(b) : k \in 1 .. Len(objects)
        BY <1>1, <1>3, <4>1
      <4>3. \A k \in 1 .. Len(objects) : SectionSize(objects[k], "DATA") \in Nat
        BY <1>1, BlockSizes DEF Section
      <4>4. \A k \in 1 .. Len(b) : b[k] \in Nat
        OBVIOUS
      <4> QED
        BY <4>2, <4>3, <4>4
    <3> QED
      BY <1>3, <1>4, <3>2, <3>3, BlocksKept, Zenon
  <2> QED
    BY <2>1, <2>2 DEF vars, layoutVars, Next, Step, ReadOptions, LoadObject, Configure, LayoutRam, StartCode,
       LayoutCode, StartData, Place, NextObject, Relocated, Reject, Fail, Write, Finished
<1>7. Len(final_data') = Len(final_data)
  <2>1. CASE Relocate
    BY <2>1, RelocateEffect, RelocationFields DEF Patches
  <2> QED
    BY <2>1 DEF vars, layoutVars, Next, Step, ReadOptions, LoadObject, Configure, LayoutRam, StartCode,
       LayoutCode, StartData, Place, NextObject, Relocated, Reject, Fail, Write, Finished
<1>8. CASE StartData
  <2>1. /\ phase = "code" /\ phase' = "data" /\ at' = 1
        /\ data_start' = code_start + Len(final_code')
    BY <1>8, StartDataEffect DEF StartData, Go
  <2>2. Len(b) = 0 /\ Len(final_data) = 0
    BY <1>5, <2>1
  <2>3. 1 .. Len(b) = {}
    BY <2>2
  <2>4. BlockEnd(b, at - 1)' = 0 /\ at' - 1 = 0
    BY <2>1 DEF BlockEnd
  <2>5. Where'
    BY <1>1, <1>7, <2>1, <2>2, <2>4
  <2> QED
    BY <1>1, <1>6, <2>3, <2>5 DEF DataLaid
<1>9. ASSUME data_start' = data_start, Where' PROVE DataLaid(b)'
  <2>1. Recurrence'
    BY <1>1, <1>2, <1>5, <1>9
  <2> HIDE DEF Recurrence
  <2> QED
    BY <1>1, <1>6, <1>9, <2>1 DEF DataLaid, Recurrence
<1>10. CASE Place
  <2>1. /\ phase = "data" /\ phase' = "relocate" /\ at' = 1 /\ data_base' = 0 /\ at > Len(objects)
        /\ data_start' = data_start /\ Len(final_code') = Len(final_code)
    BY <1>10, PlaceEffect DEF Place, Go
  <2>2. at = Len(objects) + 1 /\ Len(b) = at - 1
    BY <1>1, <1>5, <2>1 DEF LinkInv, Control
  <2>3. at' - 1 = 0 /\ BlockEnd(b, at - 1)' = 0
    BY <2>1 DEF BlockEnd
  <2>4. Where'
    BY <1>1, <1>5, <2>1, <2>2, <2>3
  <2> QED
    BY <1>9, <2>1, <2>4
<1>11. CASE NextObject
  <2>1. /\ phase = "relocate" /\ phase' = "relocate" /\ at' = at + 1 /\ at <= Len(objects)
        /\ data_base' = DataBase + Current.data /\ data_start' = data_start /\ final_code' = final_code
    BY <1>11 DEF NextObject
  <2>2. DataBase = b[at] /\ at \in 1 .. Len(b)
    BY <2>1, SecondPassAgrees
  <2>3. at' - 1 = at /\ at # 0
    BY <1>3, <2>1, <2>2
  <2>4. data_base' = BlockEnd(b, at - 1)'
    <3>1. BlockEnd(b, at) = b[at] + objects[at].data
      BY <2>3 DEF BlockEnd
    <3> QED
      BY <1>2, <2>1, <2>2, <2>3, <3>1 DEF Current
  <2>5. Where'
    BY <1>1, <1>5, <2>1, <2>4
  <2> QED
    BY <1>9, <2>1, <2>5
<1>12. CASE Relocate
  <2>1. /\ phase = "relocate" /\ phase' = "relocate" /\ at' = at /\ data_base' = data_base /\ data_start' = data_start
    BY <1>12 DEF Relocate, AtRelocation
  <2>2. Len(final_code') = Len(final_code)
    BY <1>12, RelocateEffect, RelocationFields DEF Patches
  <2>3. Where'
    BY <1>1, <1>2, <1>5, <2>1, <2>2
  <2> QED
    BY <1>9, <2>1, <2>3
<1>13. CASE Relocated
  <2>1. phase = "relocate" /\ phase' = "write" /\ data_start' = data_start /\ final_code' = final_code
    BY <1>13 DEF Relocated, Go, layoutVars
  <2>2. Where'
    BY <1>1, <1>5, <2>1
  <2> QED
    BY <1>9, <2>1, <2>2
<1>14. CASE ReadOptions \/ LoadObject \/ Configure \/ LayoutRam \/ StartCode \/ LayoutCode
  <2>1. /\ phase \notin {"data", "relocate", "write"} /\ phase' \notin {"data", "relocate", "write"}
        /\ data_start' = data_start
    BY <1>14 DEF ReadOptions, LoadObject, Configure, LayoutRam, StartCode, LayoutCode, Go, layoutVars
  <2>2. Where'
    BY <1>5, <1>7, <2>1
  <2> QED
    BY <1>9, <2>1, <2>2
<1>15. CASE Reject \/ Write
  BY <1>15 DEF Reject, Write, Fail, Exit
<1>16. CASE UNCHANGED vars
  <2>1. /\ phase' = phase /\ at' = at /\ data_base' = data_base /\ data_start' = data_start /\ final_code' = final_code
    BY <1>16 DEF vars, layoutVars
  <2>2. Where'
    BY <1>1, <1>2, <1>5, <1>7, <2>1
  <2> QED
    BY <1>9, <2>1, <2>2
<1> QED
  BY <1>8, <1>10, <1>11, <1>12, <1>13, <1>14, <1>15, <1>16 DEF Next, Step, Finished

\* LayoutData adds a DATA block.
LEMMA DataAdded ==
    ASSUME LinkInv, NEW b \in Seq(Nat), DataLaid(b), LayoutData
    PROVE  \E x \in Nat :
              /\ x = Len(final_data) + DataPad(Len(final_data))
              /\ Append(b, x) \in Seq(Nat) /\ DataLaid(Append(b, x))' /\ at = Len(b) + 1
<1>0. PICK base \in Nat : base = Len(final_data) + DataPad(Len(final_data))
  BY LayoutDataEffect
<1> DEFINE n == Len(b)
           c == Append(b, base)
<1>1. /\ link' = link /\ link \in Links /\ objects' = objects /\ code_start' = code_start
      /\ Len(objects) \in Nat
  BY SameInvocation, InvocationTypes DEF LinkInv, Control, LayoutData
<1>2. /\ phase = "data" /\ phase' = "data" /\ at \in 1 .. Len(objects) /\ at' = at + 1
      /\ data_start' = data_start /\ final_code' = final_code
  BY DEF LayoutData, LinkInv, Control
<1>3. base \in Nat /\ base >= Len(final_data) /\ BlockAdded(final_data, final_data', base, at, "DATA")
  BY <1>0, LayoutDataEffect
<1>4. /\ n = at - 1 /\ n \in Nat /\ at = n + 1 /\ Len(final_data) = BlockEnd(b, n) /\ Blocks(objects, final_data, "DATA", b)
      /\ data_start = code_start + Len(final_code) /\ n < Len(objects)
  BY <1>1, <1>2 DEF DataLaid
<1>5. c \in Seq(Nat) /\ Len(c) = n + 1 /\ c[n + 1] = base /\ \A k \in 1 .. n : c[k] = b[k]
  BY <1>3, AppendProperties
<1>6. Blocks(objects, final_data', "DATA", c)
  <2>1. final_data \in Seq(CellType)
    BY DEF LinkInv, Sections
  <2> QED
    BY <1>1, <1>3, <1>4, <2>1, BlocksAppended
<1> HIDE DEF c, n
<1>7. \A k \in 0 .. n : BlockEnd(c, k) = BlockEnd(b, k)
  <2> SUFFICES ASSUME NEW k \in 0 .. n PROVE BlockEnd(c, k) = BlockEnd(b, k)
    OBVIOUS
  <2>1. k = 0 \/ k \in 1 .. n
    BY <1>4
  <2> QED
    BY <1>5, <2>1, Zenon DEF BlockEnd
<1>8. ASSUME NEW k \in 1 .. n + 1
      PROVE  c[k] = BlockEnd(c, k - 1) + PadTo(data_start + BlockEnd(c, k - 1), objects[k].data_alignment)
  <2>1. k - 1 \in 0 .. n
    BY <1>4
  <2>2. BlockEnd(c, k - 1) = BlockEnd(b, k - 1)
    BY <1>7, <2>1
  <2>3. CASE k \in 1 .. n
    BY <1>5, <2>2, <2>3, Zenon DEF DataLaid, n
  <2>4. CASE k = n + 1
    <3>1. k - 1 = n /\ c[k] = base /\ objects[k] = Current
      BY <1>4, <1>5, <2>4 DEF Current
    <3> QED
      BY <1>0, <1>4, <2>2, <3>1, Zenon DEF DataPad
  <2> QED
    BY <1>4, <2>3, <2>4
<1>9. Len(final_data') = BlockEnd(c, n + 1)
  <2>1. Len(final_data') = base + SectionSize(objects[at], "DATA")
    BY <1>3 DEF BlockAdded
  <2>2. SectionSize(objects[at], "DATA") = objects[at].data
    BY <1>1, <1>2, InvocationTypes, SectionSizes
  <2>3. n + 1 # 0
    BY <1>4
  <2> QED
    BY <1>4, <1>5, <2>1, <2>2, <2>3 DEF BlockEnd
<1>10. \A k : BlockEnd(c, k)' = BlockEnd(c, k)
  BY <1>1, BlockEndFixed
<1>11. DataLaid(c)'
  <2>1. at' - 1 = n + 1 /\ Len(c) = at' - 1
    BY <1>2, <1>4, <1>5
  <2>2. Len(final_data') = BlockEnd(c, at - 1)'
    BY <1>9, <1>10, <2>1
  <2>3. \A k \in 1 .. Len(c) :
            c[k] = BlockEnd(c, k - 1) + PadTo(data_start + BlockEnd(c, k - 1), objects[k].data_alignment)
    BY <1>5, <1>8
  <2>4. \A k \in 1 .. Len(c) :
            c[k] = BlockEnd(c, k - 1)' + PadTo(data_start' + BlockEnd(c, k - 1)', objects'[k].data_alignment)
    BY <1>1, <1>2, <1>10, <2>3
  <2> QED
    BY <1>1, <1>2, <1>4, <1>6, <2>1, <2>2, <2>4 DEF DataLaid
<1> QED
  BY <1>0, <1>4, <1>5, <1>11 DEF c, n

\* The three kinds of home.
LEMMA Homes ==
    ASSUME NEW k, NEW s, NEW b
    PROVE  /\ s.section = "CODE" => HomeOf(k, s, b) = s.offset + (code_start + code_bases[k])
           /\ s.section = "DATA" => HomeOf(k, s, b) = s.offset + (data_start + b[k])
           /\ s.section = "RAM" => HomeOf(k, s, b) = s.offset + (static_start + ram_bases[k])
<1>1. ASSUME s.section = "CODE" PROVE HomeOf(k, s, b) = s.offset + (code_start + code_bases[k])
  BY <1>1, Zenon DEF HomeOf
<1>2. ASSUME s.section = "DATA" PROVE HomeOf(k, s, b) = s.offset + (data_start + b[k])
  BY <1>2, Zenon DEF HomeOf
<1>3. ASSUME s.section = "RAM" PROVE HomeOf(k, s, b) = s.offset + (static_start + ram_bases[k])
  BY <1>3, Zenon DEF HomeOf
<1> QED
  BY <1>1, <1>2, <1>3

\* The symbols of the objects of a link.
LEMMA SymbolFields ==
    ASSUME link \in Links, NEW k \in 1 .. Len(objects), NEW s \in objects[k].symbols
    PROVE  s.name \in SymbolName /\ s.section \in {"CODE", "DATA", "RAM"} /\ s.offset \in Nat
<1>1. s \in SymbolEntry
  BY InvocationTypes, ObjectFields
<1> QED
  BY <1>1 DEF SymbolEntry, Section

\* Definitions keep their addresses while the bases they rest on stay.
LEMMA SymbolsKept ==
    ASSUME LinkInv, NEW b \in Seq(Nat), DataLaid(b), SymbolsHome(b), link' = link,
           phase' \in Laid => phase \in Laid,
           UNCHANGED <<symbols, code_bases, ram_bases>>,
           data_start' = data_start \/ Len(b) = 0
    PROVE  SymbolsHome(b)'
<1> SUFFICES ASSUME phase' \in Laid PROVE SymbolsHome(b)'
  BY DEF SymbolsHome
<1>1. /\ link \in Links /\ objects' = objects /\ code_start' = code_start /\ static_start' = static_start
      /\ phase \in Laid
  BY SameInvocation DEF LinkInv, Control
<1>2. ASSUME NEW k \in 1 .. Len(objects), NEW s \in objects[k].symbols,
             s.name \notin LocalName, Reached(k, s.section, b)
      PROVE  \E d \in symbols : d.name = s.name /\ d.address = HomeOf(k, s, b)'
  <2>1. PICK d \in symbols : d.name = s.name /\ d.address = HomeOf(k, s, b)
    BY <1>1, <1>2 DEF SymbolsHome
  <2>2. s.section \in {"CODE", "DATA", "RAM"}
    BY <1>1, SymbolFields
  <2>3. s.section = "DATA" => data_start' = data_start
    BY <1>2 DEF Reached
  <2>4. HomeOf(k, s, b)' = HomeOf(k, s, b)
    BY <1>1, <2>2, <2>3, Zenon DEF HomeOf
  <2> QED
    BY <2>1, <2>4
<1>3. \A k, section : Reached(k, section, b)' = Reached(k, section, b)
  BY DEF Reached
<1> QED
  BY <1>1, <1>2, <1>3 DEF SymbolsHome

\* StartCode enters the symbols of static RAM.
LEMMA SymbolsOfRam ==
    ASSUME LinkInv, NEW b \in Seq(Nat), DataLaid(b), StartCode
    PROVE  SymbolsHome(b)'
<1>1. /\ link' = link /\ link \in Links /\ objects' = objects /\ static_start' = static_start
      /\ phase = "ram" /\ RamAccepted /\ symbols' = RamSymbols /\ UNCHANGED <<ram_bases, code_bases>>
  BY SameInvocation DEF StartCode, LinkInv, Control
<1>2. Len(b) = 0 /\ Len(code_bases) = 0 /\ Len(ram_bases) = Len(objects) /\ Len(objects) \in Nat
  BY <1>1, InvocationTypes DEF StartCode, DataLaid, LinkInv, BasesSoFar, Control
<1>3. static_start \in Nat /\ ram_bases \in Seq(Nat)
  BY <1>1, FixedAddresses DEF LinkInv, Control, Sections
<1>4. ASSUME NEW k \in 1 .. Len(objects), NEW s \in objects[k].symbols,
             s.name \notin LocalName, Reached(k, s.section, b)'
      PROVE  \E d \in RamSymbols : d.name = s.name /\ d.address = HomeOf(k, s, b)'
  <2>1. s.section \in {"CODE", "DATA", "RAM"} /\ s.offset \in Nat
    BY <1>1, SymbolFields
  <2>2. s.section = "RAM"
    BY <1>1, <1>2, <1>4, <2>1 DEF Reached
  <2> DEFINE d == Definition(k, s, static_start + ram_bases[k] + s.offset, FALSE)
  <2>3. d \in RamSymbols
    <3>1. s \in Globals(k, "RAM")
      BY <1>4, <2>2 DEF Globals
    <3>2. d \in {Definition(k, t, static_start + ram_bases[k] + t.offset, FALSE) : t \in Globals(k, "RAM")}
      BY <3>1
    <3> QED
      BY <3>2, Zenon DEF RamSymbols
  <2>4. d.name = s.name /\ d.address = static_start + ram_bases[k] + s.offset
    BY DEF Definition
  <2>5. HomeOf(k, s, b)' = s.offset + (static_start + ram_bases[k])
    BY <1>1, <2>2, Zenon DEF HomeOf
  <2>6. ram_bases[k] \in Nat
    BY <1>2, <1>3
  <2>7. d.address = HomeOf(k, s, b)'
    <3> HIDE DEF d
    <3> QED
      BY <1>3, <2>1, <2>4, <2>5, <2>6
  <2> QED
    BY <2>3, <2>4, <2>7
<1> QED
  BY <1>1, <1>4 DEF SymbolsHome, RamAccepted

\* New definitions with names of their own leave every name one definition.
LEMMA UniqueNames ==
    ASSUME NEW S, NEW N, \A d, e \in S : d.name = e.name => d = e,
           \A d, e \in N : d.name = e.name => d = e,
           \A d \in N : d.name \notin {e.name : e \in S}
    PROVE  \A d, e \in S \cup N : d.name = e.name => d = e
  OBVIOUS

\* LayoutCode enters the CODE symbols of one object.
LEMMA SymbolsOfCode ==
    ASSUME LinkInv, NEW b \in Seq(Nat), DataLaid(b), SymbolsHome(b), LayoutCode
    PROVE  SymbolsHome(b)'
<1>1. /\ link' = link /\ link \in Links /\ objects' = objects /\ static_start' = static_start
      /\ code_start' = code_start /\ phase = "code" /\ CodeAccepted /\ at \in 1 .. Len(objects)
      /\ UNCHANGED <<ram_bases, data_start>> /\ Len(objects) \in Nat
  BY SameInvocation, InvocationTypes DEF LayoutCode, LinkInv, Control
<1>2. PICK x \in Nat :
          /\ code_bases' = Append(code_bases, x)
          /\ symbols' = symbols \cup {Definition(at, s, code_start + x + s.offset,
                                              s.offset < Current.code) : s \in Globals(at, "CODE")}
  BY LayoutCodeEffect
<1> DEFINE N == {Definition(at, s, code_start + x + s.offset, s.offset < Current.code) : s \in Globals(at, "CODE")}
<1>3. code_bases \in Seq(Nat) /\ Len(code_bases) = at - 1 /\ Len(b) = 0 /\ code_start \in Nat
  BY <1>1, FixedAddresses DEF LinkInv, Sections, BasesSoFar, DataLaid, Control
<1>4. /\ Len(code_bases') = at /\ code_bases'[at] = x
      /\ \A k \in 1 .. Len(code_bases) : code_bases'[k] = code_bases[k]
  <2>1. Len(code_bases) + 1 = at
    BY <1>1, <1>3
  <2> QED
    BY <1>2, <1>3, <2>1, AppendProperties
<1>5. \A s : Definition(at, s, code_start + x + s.offset, s.offset < Current.code).name = s.name
  BY DEF Definition
<1>6. \A d \in N : \E s \in Globals(at, "CODE") :
          d = Definition(at, s, code_start + x + s.offset, s.offset < Current.code) /\ d.name = s.name
  BY <1>5, Zenon
<1>7. validate(objects[at])
  BY <1>1, CurrentObject DEF LinkInv, Current
<1>8. \A s, t \in Globals(at, "CODE") : s.name = t.name => s = t
  BY <1>7 DEF Globals, validate
<1> HIDE DEF N
<1>9. \A d, e \in N : d.name = e.name => d = e
  BY <1>6, <1>8, Zenon
<1>10. \A d \in N : d.name \notin {e.name : e \in symbols}
  BY <1>1, <1>6, Zenon DEF CodeAccepted, Defined
<1>11. \A d, e \in symbols \cup N : d.name = e.name => d = e
  <2>1. \A d, e \in symbols : d.name = e.name => d = e
    BY <1>1 DEF SymbolsHome, Laid
  <2> QED
    BY <1>9, <1>10, <2>1, UniqueNames, Zenon
<1>12. ASSUME NEW k \in 1 .. Len(objects), NEW s \in objects[k].symbols,
              s.name \notin LocalName, Reached(k, s.section, b)'
       PROVE  \E d \in symbols \cup N : d.name = s.name /\ d.address = HomeOf(k, s, b)'
  <2>1. s.section \in {"CODE", "DATA", "RAM"} /\ s.offset \in Nat
    BY <1>1, SymbolFields
  <2>2. CASE s.section = "CODE" /\ k = at
    <3>1. s \in Globals(at, "CODE")
      BY <1>12, <2>2 DEF Globals
    <3> DEFINE d == Definition(at, s, code_start + x + s.offset, s.offset < Current.code)
    <3>2. d \in N
      BY <3>1 DEF N
    <3>3. d.name = s.name /\ d.address = code_start + x + s.offset
      BY DEF Definition
    <3>4. HomeOf(k, s, b)' = s.offset + (code_start + x)
      BY <1>1, <1>4, <2>2, Zenon DEF HomeOf
    <3>5. d.address = HomeOf(k, s, b)'
      <4> HIDE DEF d
      <4> QED
        BY <1>3, <2>1, <3>3, <3>4
    <3> QED
      BY <3>2, <3>3, <3>5
  <2>3. CASE ~(s.section = "CODE" /\ k = at)
    <3>1. s.section = "CODE" => k \in 1 .. Len(code_bases)
      BY <1>1, <1>3, <1>4, <1>12, <2>3 DEF Reached
    <3>2. Reached(k, s.section, b)
      <4>1. s.section = "CODE" => k <= Len(code_bases)
        BY <3>1
      <4>2. s.section = "DATA" => k <= Len(b)
        BY <1>12 DEF Reached
      <4> QED
        BY <4>1, <4>2 DEF Reached
    <3>3. PICK d \in symbols : d.name = s.name /\ d.address = HomeOf(k, s, b)
      BY <1>1, <1>12, <3>2 DEF SymbolsHome, Laid
    <3>4. HomeOf(k, s, b)' = HomeOf(k, s, b)
      <4>1. s.section = "CODE" => code_bases'[k] = code_bases[k]
        BY <1>4, <3>1
      <4> QED
        BY <1>1, <2>1, <4>1, Zenon DEF HomeOf
    <3> QED
      BY <3>3, <3>4
  <2> QED
    BY <2>2, <2>3
<1>13. symbols' = symbols \cup N
  BY <1>2 DEF N
<1> QED
  BY <1>1, <1>11, <1>12, <1>13 DEF SymbolsHome

\* LayoutData enters the DATA symbols of one object.
LEMMA SymbolsOfData ==
    ASSUME LinkInv, NEW b \in Seq(Nat), DataLaid(b), SymbolsHome(b), LayoutData,
           NEW x \in Nat, x = Len(final_data) + DataPad(Len(final_data))
    PROVE  SymbolsHome(Append(b, x))'
<1> DEFINE c == Append(b, x)
           N == {Definition(at, s, data_start + x + s.offset, FALSE) : s \in Globals(at, "DATA")}
<1>1. /\ link' = link /\ link \in Links /\ objects' = objects /\ static_start' = static_start
      /\ code_start' = code_start /\ phase = "data" /\ DataAccepted /\ at \in 1 .. Len(objects)
      /\ UNCHANGED <<ram_bases, code_bases, data_start>> /\ Len(objects) \in Nat
  BY SameInvocation, InvocationTypes DEF LayoutData, LinkInv, Control
<1>2. symbols' = symbols \cup N
  BY LayoutDataEffect
<1>3. Len(b) = at - 1 /\ data_start \in Nat
  BY <1>1 DEF LinkInv, Sections, DataLaid
<1>4. Len(c) = at /\ c[at] = x /\ \A k \in 1 .. Len(b) : c[k] = b[k]
  <2>1. Len(b) + 1 = at
    BY <1>1, <1>3
  <2> QED
    BY <2>1, AppendProperties
<1>5. \A s : Definition(at, s, data_start + x + s.offset, FALSE).name = s.name
  BY DEF Definition
<1>6. \A d \in N : \E s \in Globals(at, "DATA") :
          d = Definition(at, s, data_start + x + s.offset, FALSE) /\ d.name = s.name
  BY <1>5, Zenon
<1>7. validate(objects[at])
  BY <1>1, CurrentObject DEF LinkInv, Current
<1>8. \A s, t \in Globals(at, "DATA") : s.name = t.name => s = t
  BY <1>7 DEF Globals, validate
<1> HIDE DEF N, c
<1>9. \A d, e \in N : d.name = e.name => d = e
  BY <1>6, <1>8, Zenon
<1>10. \A d \in N : d.name \notin {e.name : e \in symbols}
  BY <1>1, <1>6, Zenon DEF DataAccepted, Defined
<1>11. \A d, e \in symbols \cup N : d.name = e.name => d = e
  <2>1. \A d, e \in symbols : d.name = e.name => d = e
    BY <1>1 DEF SymbolsHome, Laid
  <2> QED
    BY <1>9, <1>10, <2>1, UniqueNames, Zenon
<1>12. ASSUME NEW k \in 1 .. Len(objects), NEW s \in objects[k].symbols,
              s.name \notin LocalName, Reached(k, s.section, c)'
       PROVE  \E d \in symbols \cup N : d.name = s.name /\ d.address = HomeOf(k, s, c)'
  <2>1. s.section \in {"CODE", "DATA", "RAM"} /\ s.offset \in Nat
    BY <1>1, SymbolFields
  <2>2. CASE s.section = "DATA" /\ k = at
    <3>1. s \in Globals(at, "DATA")
      BY <1>12, <2>2 DEF Globals
    <3> DEFINE d == Definition(at, s, data_start + x + s.offset, FALSE)
    <3>2. d \in N
      BY <3>1 DEF N
    <3>3. d.name = s.name /\ d.address = data_start + x + s.offset
      BY DEF Definition
    <3>4. HomeOf(k, s, c)' = s.offset + (data_start + x)
      BY <1>1, <1>4, <2>2, Zenon DEF HomeOf
    <3>5. d.address = HomeOf(k, s, c)'
      <4> HIDE DEF d
      <4> QED
        BY <1>3, <2>1, <3>3, <3>4
    <3> QED
      BY <3>2, <3>3, <3>5
  <2>3. CASE ~(s.section = "DATA" /\ k = at)
    <3>1. s.section = "DATA" => k \in 1 .. Len(b)
      BY <1>1, <1>3, <1>4, <1>12, <2>3 DEF Reached
    <3>2. Reached(k, s.section, b)
      <4>1. s.section = "CODE" => k <= Len(code_bases)
        BY <1>1, <1>12 DEF Reached
      <4>2. s.section = "DATA" => k <= Len(b)
        BY <3>1
      <4> QED
        BY <4>1, <4>2 DEF Reached
    <3>3. PICK d \in symbols : d.name = s.name /\ d.address = HomeOf(k, s, b)
      BY <1>1, <1>12, <3>2 DEF SymbolsHome, Laid
    <3>4. HomeOf(k, s, c)' = HomeOf(k, s, b)
      <4>1. s.section = "DATA" => c[k] = b[k]
        BY <1>4, <3>1
      <4> QED
        BY <1>1, <2>1, <4>1, Zenon DEF HomeOf
    <3> QED
      BY <3>3, <3>4
  <2> QED
    BY <2>2, <2>3
<1>13. SymbolsHome(c)'
  BY <1>1, <1>2, <1>11, <1>12 DEF SymbolsHome
<1> QED
  BY <1>13 DEF c

\* The blocks of both sections when relocation begins.
LEMMA SectionBlocks ==
    ASSUME LinkInv, CodeLaid, NEW b \in Seq(Nat), DataLaid(b), phase \in {"relocate", "write"},
           NEW section \in {"CODE", "DATA"}, NEW k \in 1 .. Len(objects)
    PROVE  /\ SectionBase(k, section, b) \in Nat /\ SectionSize(objects[k], section) \in Nat
           /\ SectionCells(section) \in Seq(CellType) /\ Len(SectionCells(section)) \in Nat
           /\ SectionBase(k, section, b) + SectionSize(objects[k], section) <= Len(SectionCells(section))
           /\ \A j \in 1 .. Len(objects) :
                 j < k => SectionBase(j, section, b) + SectionSize(objects[j], section) <= SectionBase(k, section, b)
<1>1. link \in Links /\ Len(objects) \in Nat
  BY InvocationTypes DEF LinkInv, Control
<1>2. SectionSize(objects[k], section) \in Nat
  BY <1>1, BlockSizes DEF Section
<1>3. Len(code_bases) = Len(objects) /\ Len(b) = Len(objects) /\ code_bases \in Seq(Nat)
  BY DEF LinkInv, BasesSoFar, DataLaid, Sections
<1>4. SectionCells(section) \in Seq(CellType) /\ Len(SectionCells(section)) \in Nat
  BY DEF SectionCells, LinkInv, Sections
<1>5. CASE section = "CODE"
  <2>1. Blocks(objects, final_code, "CODE", code_bases)
    BY DEF CodeLaid, Laid
  <2>2. \A j : SectionBase(j, section, b) = code_bases[j]
    BY <1>5 DEF SectionBase
  <2>3. SectionCells(section) = final_code
    BY <1>5 DEF SectionCells
  <2>4. code_bases[k] \in Nat
    BY <1>3
  <2> QED
    <3>1. /\ code_bases[k] + SectionSize(objects[k], "CODE") <= Len(final_code)
          /\ \A j \in 1 .. Len(objects) : j < k => code_bases[j] + SectionSize(objects[j], "CODE") <= code_bases[k]
      BY <1>3, <2>1, Zenon DEF Blocks
    <3> QED
      BY <1>2, <1>4, <1>5, <2>2, <2>3, <2>4, <3>1, Zenon
<1>6. CASE section = "DATA"
  <2>1. Blocks(objects, final_data, "DATA", b)
    BY DEF DataLaid
  <2>2. \A j : SectionBase(j, section, b) = b[j]
    BY <1>6 DEF SectionBase
  <2>3. SectionCells(section) = final_data
    BY <1>6 DEF SectionCells
  <2>4. b[k] \in Nat
    BY <1>3
  <2> QED
    <3>1. /\ b[k] + SectionSize(objects[k], "DATA") <= Len(final_data)
          /\ \A j \in 1 .. Len(objects) : j < k => b[j] + SectionSize(objects[j], "DATA") <= b[k]
      BY <1>3, <2>1, Zenon DEF Blocks
    <3> QED
      BY <1>2, <1>4, <1>6, <2>2, <2>3, <2>4, <3>1, Zenon
<1> QED
  BY <1>5, <1>6

\* The relocations of a validated object.
LEMMA ObjectRelocations ==
    ASSUME LinkInv, phase \in {"relocate", "write"},
           NEW k \in 1 .. Len(objects), NEW i \in 1 .. Len(objects[k].relocations)
    PROVE  LET r == objects[k].relocations[i] IN
           /\ r \in RelocationEntry /\ r.offset \in Nat /\ r.section \in {"CODE", "DATA"}
           /\ PatchSize(r.type) \in {2, 3} /\ (PatchSize(r.type) = 2 <=> r.type = "ADDR24_BANK")
           /\ r.offset + PatchSize(r.type) <= SectionSize(objects[k], r.section)
           /\ validate(objects[k])
<1> DEFINE r == objects[k].relocations[i]
<1>1. link \in Links /\ validate(objects[k])
  BY DEF LinkInv, Control
<1>2. objects[k].relocations \in Seq(RelocationEntry)
  BY <1>1, InvocationTypes, ObjectFields
<1>3. r \in RelocationEntry
  BY <1>2
<1>4. validate_relocation(r, objects[k])
  BY <1>1 DEF validate
<1> HIDE DEF r
<1>5. r.offset \in Nat /\ r.section \in {"CODE", "DATA"}
  BY <1>3 DEF RelocationEntry
<1>6. PatchSize(r.type) \in {2, 3} /\ (PatchSize(r.type) = 2 <=> r.type = "ADDR24_BANK")
  BY DEF PatchSize
<1>7. r.offset + PatchSize(r.type) <= SectionSize(objects[k], r.section)
  BY <1>4 DEF validate_relocation
<1> QED
  BY <1>1, <1>3, <1>5, <1>6, <1>7 DEF r

\* Operands lie inside their blocks, and two operands share no cell.
LEMMA OperandsApart ==
    ASSUME LinkInv, CodeLaid, NEW b \in Seq(Nat), DataLaid(b), phase \in {"relocate", "write"},
           NEW k \in 1 .. Len(objects), NEW i \in 1 .. Len(objects[k].relocations),
           NEW k2 \in 1 .. Len(objects), NEW i2 \in 1 .. Len(objects[k2].relocations),
           k # k2 \/ i # i2,
           objects[k].relocations[i].section = objects[k2].relocations[i2].section
    PROVE  \A y \in OperandCells(k, objects[k].relocations[i], b) :
              y \notin OperandCells(k2, objects[k2].relocations[i2], b)
<1> DEFINE r == objects[k].relocations[i]
           r2 == objects[k2].relocations[i2]
           section == r.section
           z == PatchSize(r.type)
           z2 == PatchSize(r2.type)
           c == SectionBase(k, section, b)
           c2 == SectionBase(k2, section, b)
           size == SectionSize(objects[k], section)
           size2 == SectionSize(objects[k2], section)
           o == r.offset
           o2 == r2.offset
<1>1. o \in Nat /\ z \in {2, 3} /\ o + z <= size /\ section \in {"CODE", "DATA"} /\ validate(objects[k])
  BY ObjectRelocations
<1>2. o2 \in Nat /\ z2 \in {2, 3} /\ o2 + z2 <= size2 /\ r2.section = section
  BY ObjectRelocations
<1>3. c \in Nat /\ size \in Nat /\ (k2 < k => c2 + size2 <= c)
  BY <1>1, SectionBlocks
<1>4. c2 \in Nat /\ size2 \in Nat /\ (k < k2 => c + size <= c2)
  BY <1>1, SectionBlocks
<1>5. /\ OperandCells(k, r, b) = (o + c + 2) .. (o + c + 2 + z - 2)
      /\ OperandCells(k2, r2, b) = (o2 + c2 + 2) .. (o2 + c2 + 2 + z2 - 2)
  BY <1>2, Zenon DEF OperandCells, PatchCell
<1>6. k = k2 => (o + 1) .. (o + z - 1) \cap (o2 + 1) .. (o2 + z2 - 1) = {}
  <2> SUFFICES ASSUME k = k2 PROVE (o + 1) .. (o + z - 1) \cap (o2 + 1) .. (o2 + z2 - 1) = {}
    OBVIOUS
  <2>1. i # i2 /\ i2 \in 1 .. Len(objects[k].relocations) /\ r2 = objects[k].relocations[i2]
    OBVIOUS
  <2>2. Operand(r) \cap Operand(r2) = {}
    BY <1>1, <1>2, <2>1, Zenon DEF validate
  <2> QED
    BY <2>2, Zenon DEF Operand
<1>7. k = k2 => c = c2
  OBVIOUS
<1>8. k \in Nat /\ k2 \in Nat
  BY InvocationTypes DEF LinkInv, Control
<1> HIDE DEF r, r2, section, z, z2, c, c2, size, size2, o, o2
<1>9. ASSUME NEW y \in (o + c + 2) .. (o + c + 2 + z - 2), y \in (o2 + c2 + 2) .. (o2 + c2 + 2 + z2 - 2)
      PROVE  FALSE
  <2>1. y \in Int
    BY <1>1, <1>3
  <2>2. CASE k = k2
    <3>1. y - c - 1 \in (o + 1) .. (o + z - 1) /\ y - c - 1 \in (o2 + 1) .. (o2 + z2 - 1)
      BY <1>1, <1>2, <1>3, <1>4, <1>7, <1>9, <2>1, <2>2
    <3> QED
      BY <1>6, <2>2, <3>1
  <2>3. CASE k < k2
    BY <1>1, <1>2, <1>3, <1>4, <1>9, <2>1, <2>3
  <2>4. CASE k2 < k
    BY <1>1, <1>2, <1>3, <1>4, <1>9, <2>1, <2>4
  <2> QED
    BY <1>8, <2>2, <2>3, <2>4
<1> QED
  BY <1>5, <1>9 DEF r, r2

\* The operand of a relocation is inside its section.
LEMMA OperandsInside ==
    ASSUME LinkInv, CodeLaid, NEW b \in Seq(Nat), DataLaid(b), phase \in {"relocate", "write"},
           NEW k \in 1 .. Len(objects), NEW i \in 1 .. Len(objects[k].relocations)
    PROVE  LET r == objects[k].relocations[i] IN
           /\ PatchCell(k, r, b) \in Nat
           /\ PatchCell(k, r, b) \in OperandCells(k, r, b)
           /\ r.type # "ADDR24_BANK" => PatchCell(k, r, b) + 1 \in OperandCells(k, r, b)
           /\ \A y \in OperandCells(k, r, b) : y \in 1 .. Len(SectionCells(r.section))
<1> DEFINE r == objects[k].relocations[i]
           section == r.section
           z == PatchSize(r.type)
           c == SectionBase(k, section, b)
           size == SectionSize(objects[k], section)
           o == r.offset
           m == Len(SectionCells(section))
           p == PatchCell(k, r, b)
<1>1. o \in Nat /\ z \in {2, 3} /\ o + z <= size /\ section \in {"CODE", "DATA"} /\ (z = 2 <=> r.type = "ADDR24_BANK")
  BY ObjectRelocations
<1>2. c \in Nat /\ size \in Nat /\ c + size <= m /\ m \in Nat
  BY <1>1, SectionBlocks
<1>3. p = o + c + 2 /\ OperandCells(k, r, b) = p .. p + z - 2
  BY DEF PatchCell, OperandCells
<1> HIDE DEF section, z, c, size, o, m, p
<1>4. p \in Nat /\ p \in p .. p + z - 2 /\ (z = 3 => p + 1 \in p .. p + z - 2) /\ \A y \in p .. p + z - 2 : y \in 1 .. m
  BY <1>1, <1>2, <1>3
<1> QED
  BY <1>1, <1>3, <1>4, Zenon DEF p, m, section

\* A relocation resolves to the home of every symbol its name can mean.
LEMMA TargetHome ==
    ASSUME LinkInv, CodeLaid, NEW b \in Seq(Nat), DataLaid(b), SymbolsHome(b), AtRelocation,
           NEW t \in Targets, NEW n \in Named(at, Relocation.target)
    PROVE  t.address = HomeOf(n.object, n.symbol, b)
<1> DEFINE name == Relocation.target
<1>1. /\ phase = "relocate" /\ at \in 1 .. Len(objects) /\ link \in Links /\ validate(objects[at])
      /\ Len(objects) \in Nat
  BY InvocationTypes DEF AtRelocation, LinkInv, Control
<1>2. DataBase = b[at] /\ Len(code_bases) = Len(objects) /\ Len(b) = Len(objects)
  BY <1>1, SecondPassAgrees DEF LinkInv, BasesSoFar, DataLaid
<1>3. CASE name \in LocalName
  <2>1. PICK s \in LocalDefinitions : t = LocalTarget(s)
    <3>1. t \in {LocalTarget(s) : s \in {d \in LocalDefinitions :
              name \in PoolName => d.section = "DATA" /\ d.offset < Current.data}}
      BY <1>3 DEF Targets
    <3> QED
      BY <3>1
  <2>2. s \in objects[at].symbols /\ s.name = name
    BY DEF LocalDefinitions, Current
  <2>3. PICK s2 \in objects[at].symbols : s2.name = name /\ n = [object |-> at, symbol |-> s2]
    BY <1>3 DEF Named
  <2>4. s = s2
    BY <1>1, <2>2, <2>3, Zenon DEF validate
  <2>5. n.object = at /\ n.symbol = s
    BY <2>3, <2>4
  <2>6. t.address = s.offset + (CASE s.section = "CODE" -> code_start + CodeBase
                               [] s.section = "DATA" -> data_start + DataBase
                               [] s.section = "RAM"  -> static_start + ram_bases[at])
    BY <2>1, Zenon DEF LocalTarget
  <2>7. t.address = HomeOf(at, s, b)
    BY <1>2, <2>6, Zenon DEF HomeOf, CodeBase
  <2> QED
    BY <2>5, <2>7
<1>4. CASE name \notin LocalName
  <2>1. PICK j \in 1 .. Len(objects) : \E s \in objects[j].symbols : s.name = name /\ n = [object |-> j, symbol |-> s]
    <3>1. n \in UNION {{[object |-> j, symbol |-> s] : s \in {x \in objects[j].symbols : x.name = name}} :
                   j \in 1 .. Len(objects)}
      BY <1>4 DEF Named
    <3> QED
      BY <3>1
  <2>2. PICK s \in objects[j].symbols : s.name = name /\ n = [object |-> j, symbol |-> s]
    BY <2>1
  <2>3. ~Reserved(name)
    <3>1. j \in 1 .. Len(code_bases) /\ phase \in Laid
      BY <1>1, <1>2 DEF Laid
    <3> QED
      BY <2>2, <3>1, Zenon DEF CodeLaid
  <2>4. t \in {[address |-> d.address, section |-> d.section, instruction |-> d.instruction] :
             d \in {e \in symbols : e.name = name}}
    BY <1>4, <2>3 DEF Targets, Reserved
  <2>5. PICK d \in symbols : d.name = name /\ t.address = d.address
    BY <2>4
  <2>6. Reached(j, s.section, b)
    BY <1>1, <1>2 DEF Reached
  <2>7. PICK e \in symbols : e.name = s.name /\ e.address = HomeOf(j, s, b)
    BY <1>1, <1>4, <2>2, <2>6 DEF SymbolsHome, Laid
  <2>8. d = e
    BY <1>1, <2>2, <2>5, <2>7, Zenon DEF SymbolsHome, Laid
  <2>9. n.object = j /\ n.symbol = s
    BY <2>2
  <2> QED
    BY <2>5, <2>7, <2>8, <2>9
<1> QED
  BY <1>3, <1>4

\* Relocate patches one more operand and spoils none.
LEMMA RelocatePatches ==
    ASSUME LinkInv, CodeLaid, NEW b \in Seq(Nat), DataLaid(b), SymbolsHome(b), PatchesHold(b), Relocate
    PROVE  PatchesHold(b)'
<1>1. /\ AtRelocation /\ phase = "relocate" /\ phase' = "relocate" /\ at' = at /\ rel' = rel + 1
      /\ at \in 1 .. Len(objects) /\ rel \in 1 .. Len(Current.relocations) /\ rel \in Nat
      /\ link' = link /\ objects' = objects /\ code_start' = code_start /\ static_start' = static_start
      /\ UNCHANGED <<ram_bases, code_bases, data_start>>
  <2>1. AtRelocation /\ phase' = "relocate" /\ at' = at /\ rel' = rel + 1 /\ link' = link
           /\ UNCHANGED <<ram_bases, code_bases, data_start>>
    BY DEF Relocate, AtRelocation
  <2> QED
    BY <2>1, SameInvocation DEF LinkInv, Control, AtRelocation
<1>0. PICK R : R = objects[at].relocations[rel]
  OBVIOUS
<1>k. PICK K \in 1 .. Len(objects) : K = at
  BY <1>1
<1>i. PICK I \in Nat : I = rel
  BY <1>1
<1>2. PICK t \in Targets :
                 /\ t.address \in Nat
                 /\ Relocation.section = "CODE" =>
                       Patches(final_code, final_code', PatchBase + 2, Relocation.type, t.address)
                         /\ final_data' = final_data
                 /\ Relocation.section = "DATA" =>
                       Patches(final_data, final_data', PatchBase + 2, Relocation.type, t.address)
                         /\ final_code' = final_code
  BY RelocateEffect
<1>3. /\ Relocation = R /\ R = objects[K].relocations[I] /\ I \in 1 .. Len(objects[K].relocations)
      /\ R.section \in {"CODE", "DATA"} /\ R.offset \in Nat
  BY <1>0, <1>1, <1>k, <1>i, RelocationFields DEF Relocation, Current
<1>4. PatchBase + 2 = PatchCell(K, R, b)
  <2>1. DataBase = b[K]
    BY <1>1, <1>k, SecondPassAgrees
  <2> QED
    BY <1>3, <1>k, <2>1, Zenon DEF PatchBase, PatchCell, SectionBase, CodeBase
<1>5. /\ Patches(SectionCells(R.section), SectionCells(R.section)', PatchCell(K, R, b), R.type, t.address)
      /\ \A section \in {"CODE", "DATA"} : section # R.section => SectionCells(section)' = SectionCells(section)
  <2>1. \A x : (x = "CODE" => SectionCells(x) = final_code /\ SectionCells(x)' = final_code')
               /\ (x = "DATA" => SectionCells(x) = final_data /\ SectionCells(x)' = final_data')
    BY DEF SectionCells
  <2>2. CASE R.section = "CODE"
    BY <1>2, <1>3, <1>4, <2>1, <2>2
  <2>3. CASE R.section = "DATA"
    BY <1>2, <1>3, <1>4, <2>1, <2>3
  <2> QED
    BY <1>3, <2>2, <2>3
<1>6. \A k, s : HomeOf(k, s, b)' = HomeOf(k, s, b)
  BY <1>1, Zenon DEF HomeOf
<1>7. \A k, r : PatchCell(k, r, b)' = PatchCell(k, r, b)
  BY <1>1, Zenon DEF PatchCell, SectionBase
<1>8. \A k, name : Named(k, name)' = Named(k, name)
  BY <1>1 DEF Named
<1> DEFINE p == PatchCell(K, R, b)
           Z == OperandCells(K, R, b)
<1>9. /\ p \in Nat /\ p \in Z /\ (R.type # "ADDR24_BANK" => p + 1 \in Z)
      /\ \A y \in Z : y \in 1 .. Len(SectionCells(R.section))
  BY <1>1, <1>3, OperandsInside
<1>10. ASSUME NEW k \in 1 .. Len(objects), NEW i \in 1 .. Len(objects[k].relocations),
              RelocationDone(k, i)', NEW r, r = objects[k].relocations[i], NEW n \in Named(k, r.target)
       PROVE  Holds(SectionCells(r.section)', PatchCell(k, r, b), r.type, HomeOf(n.object, n.symbol, b))
  <2> DEFINE q == PatchCell(k, r, b)
             Y == OperandCells(k, r, b)
             a == HomeOf(n.object, n.symbol, b)
  <2>1. /\ q \in Nat /\ q \in Y /\ (r.type # "ADDR24_BANK" => q + 1 \in Y)
        /\ \A y \in Y : y \in 1 .. Len(SectionCells(r.section))
    BY <1>1, <1>10, OperandsInside
  <2>2. r.section \in {"CODE", "DATA"}
    BY <1>1, <1>10, ObjectRelocations
  <2>3. CASE k = K /\ i = I
    <3>1. r = R
      BY <1>3, <1>10, <2>3
    <3>2. n \in Named(at, Relocation.target)
      BY <1>3, <1>k, <1>10, <2>3, <3>1
    <3>3. t.address = a
      BY <1>1, <3>2, TargetHome
    <3>4. Patches(SectionCells(r.section), SectionCells(r.section)', q, r.type, a)
      BY <1>5, <2>3, <3>1, <3>3
    <3> HIDE DEF q, a, Y
    <3>5. q \in 1 .. Len(SectionCells(r.section)) /\ (r.type # "ADDR24_BANK" => q + 1 \in 1 .. Len(SectionCells(r.section)))
      BY <2>1
    <3>6. q + 1 # q
      BY <2>1
    <3>7. Holds(SectionCells(r.section)', q, r.type, a)
      BY <3>4, <3>5, <3>6, Zenon DEF Patches, Holds
    <3> QED
      BY <3>7 DEF q, a
  <2>4. CASE k # K \/ i # I
    <3>1. RelocationDone(k, i)
      <4>1. k < at \/ (k = at /\ i < rel + 1)
        BY <1>1, <1>10 DEF RelocationDone
      <4>2. i \in Nat
        <5>1. objects[k].relocations \in Seq(RelocationEntry)
          BY InvocationTypes, ObjectFields DEF LinkInv, Control
        <5> QED
          BY <5>1
      <4> QED
        BY <1>1, <1>k, <1>i, <2>4, <4>1, <4>2 DEF RelocationDone
    <3>2. Holds(SectionCells(r.section), q, r.type, a)
      BY <1>1, <1>10, <3>1, Zenon DEF PatchesHold
    <3>3. CASE r.section # R.section
      <4>1. SectionCells(r.section)' = SectionCells(r.section)
        BY <1>5, <2>2, <3>3
      <4> QED
        BY <3>2, <4>1
    <3>4. CASE r.section = R.section
      <4>1. \A y \in Y : y \notin Z
        BY <1>1, <1>3, <1>10, <2>4, <3>4, OperandsApart
      <4>2. Patches(SectionCells(r.section), SectionCells(r.section)', p, R.type, t.address)
        BY <1>5, <3>4
      <4> HIDE DEF q, a, Y, p, Z
      <4>3. q # p /\ (q = p + 1 => R.type = "ADDR24_BANK")
        BY <1>9, <2>1, <4>1, Zenon
      <4>4. ASSUME r.type # "ADDR24_BANK"
            PROVE  /\ q + 1 \in 1 .. Len(SectionCells(r.section)) /\ q + 1 # p
                   /\ q + 1 = p + 1 => R.type = "ADDR24_BANK"
        BY <1>9, <2>1, <4>1, <4>4, Zenon
      <4>5. q \in 1 .. Len(SectionCells(r.section))
        BY <2>1
      <4>6. Holds(SectionCells(r.section)', q, r.type, a)
        <5>1. PICK old, new : old = SectionCells(r.section) /\ new = SectionCells(r.section)'
          OBVIOUS
        <5>2. Patches(old, new, p, R.type, t.address)
          BY <4>2, <5>1
        <5>4. Holds(old, q, r.type, a)
          BY <3>2, <5>1 DEF q, a
        <5>5. Len(old) = Len(SectionCells(r.section))
          BY <5>1
        <5>6. q \in 1 .. Len(old)
          BY <4>5, <5>5
        <5>7. r.type # "ADDR24_BANK" => q + 1 \in 1 .. Len(old)
          BY <4>4, <5>5
        <5>3. Holds(new, q, r.type, a)
          <6>1. new[q].value = old[q].value
            BY <4>3, <5>2, <5>6 DEF Patches
          <6>2. r.type # "ADDR24_BANK" => new[q + 1].value = old[q + 1].value
            BY <4>4, <5>2, <5>7 DEF Patches
          <6> QED
            BY <5>4, <6>1, <6>2, Zenon DEF Holds
        <5> QED
          BY <5>1, <5>3
      <4> QED
        BY <4>6 DEF q, a
    <3> QED
      BY <3>3, <3>4
  <2> QED
    BY <2>3, <2>4
<1>11. ASSUME NEW k \in 1 .. Len(objects), NEW i \in 1 .. Len(objects[k].relocations), RelocationDone(k, i)',
              NEW r, r = objects[k].relocations[i], NEW n \in Named(k, r.target)'
       PROVE  Holds(SectionCells(r.section), PatchCell(k, r, b), r.type, HomeOf(n.object, n.symbol, b))'
  <2>1. n \in Named(k, r.target)
    BY <1>8, <1>11
  <2>2. Holds(SectionCells(r.section)', PatchCell(k, r, b), r.type, HomeOf(n.object, n.symbol, b))
    BY <1>10, <1>11, <2>1
  <2> QED
    BY <1>6, <1>7, <2>2, Zenon DEF Holds
<1> QED
  BY <1>1, <1>11, Zenon DEF PatchesHold

\* A step that moves no block and changes no cell keeps what is patched.
LEMMA PatchesKept ==
    ASSUME LinkInv, NEW b \in Seq(Nat), PatchesHold(b), link' = link,
           phase \in {"relocate", "write"},
           UNCHANGED <<final_code, final_data, code_bases, ram_bases, data_start>>,
           \A k \in 1 .. Len(objects) : \A i \in 1 .. Len(objects[k].relocations) :
              RelocationDone(k, i)' => RelocationDone(k, i)
    PROVE  PatchesHold(b)'
<1>1. objects' = objects /\ code_start' = code_start /\ static_start' = static_start
  BY SameInvocation
<1>2. \A k, s : HomeOf(k, s, b)' = HomeOf(k, s, b)
  BY <1>1, Zenon DEF HomeOf
<1>3. \A k, r : PatchCell(k, r, b)' = PatchCell(k, r, b)
  BY <1>1, Zenon DEF PatchCell, SectionBase
<1>4. \A k, name : Named(k, name)' = Named(k, name)
  BY <1>1 DEF Named
<1>5. \A section : SectionCells(section)' = SectionCells(section)
  BY DEF SectionCells
<1>6. ASSUME NEW k \in 1 .. Len(objects), NEW i \in 1 .. Len(objects[k].relocations), RelocationDone(k, i)',
             NEW r, r = objects[k].relocations[i], NEW n \in Named(k, r.target)'
      PROVE  Holds(SectionCells(r.section), PatchCell(k, r, b), r.type, HomeOf(n.object, n.symbol, b))'
  <2>1. n \in Named(k, r.target) /\ RelocationDone(k, i)
    BY <1>4, <1>6
  <2>2. Holds(SectionCells(r.section), PatchCell(k, r, b), r.type, HomeOf(n.object, n.symbol, b))
    BY <1>6, <2>1, Zenon DEF PatchesHold
  <2> QED
    BY <1>2, <1>3, <1>5, <2>2, Zenon DEF Holds
<1> QED
  BY <1>1, <1>6, Zenon DEF PatchesHold

\* What is patched stays patched.
LEMMA NextPatches ==
    ASSUME LinkInv, CodeLaid, NEW b \in Seq(Nat), DataLaid(b), SymbolsHome(b), PatchesHold(b), [Next]_vars,
           phase' # "done"
    PROVE  PatchesHold(b)'
<1>1. /\ link' = link /\ link \in Links /\ at \in Nat /\ Len(objects) \in Nat /\ rel \in Nat
      /\ objects' = objects
  BY LinkFixed, SameInvocation, InvocationTypes DEF LinkInv, Control
<1>2. \A k \in 1 .. Len(objects) : \A i \in 1 .. Len(objects[k].relocations) : i \in Nat \ {0} /\ k \in Nat \ {0}
  <2> SUFFICES ASSUME NEW k \in 1 .. Len(objects), NEW i \in 1 .. Len(objects[k].relocations)
               PROVE  i \in Nat \ {0} /\ k \in Nat \ {0}
    OBVIOUS
  <2>1. objects[k].relocations \in Seq(RelocationEntry)
    BY <1>1, InvocationTypes, ObjectFields
  <2>2. Len(objects[k].relocations) \in Nat
    BY <2>1
  <2> QED
    BY <1>1, <2>2
<1>3. CASE Relocate
  BY <1>3, RelocatePatches
<1>4. CASE Place
  <2>1. phase' = "relocate" /\ at' = 1 /\ rel' = 1
    BY <1>4 DEF Place, Go
  <2>2. \A k \in 1 .. Len(objects) : \A i \in 1 .. Len(objects[k].relocations) : ~RelocationDone(k, i)'
    BY <1>2, <2>1 DEF RelocationDone
  <2> QED
    BY <1>1, <2>2, Zenon DEF PatchesHold
<1>5. CASE NextObject
  <2>1. /\ phase = "relocate" /\ phase' = "relocate" /\ at' = at + 1 /\ rel' = 1
        /\ at <= Len(objects) /\ rel > Len(objects[at].relocations)
        /\ UNCHANGED <<final_code, final_data, code_bases, ram_bases, data_start>>
    BY <1>5 DEF NextObject, Current
  <2>2. ASSUME NEW k \in 1 .. Len(objects), NEW i \in 1 .. Len(objects[k].relocations), RelocationDone(k, i)'
        PROVE  RelocationDone(k, i)
    <3>1. i \in Nat \ {0} /\ k \in Nat \ {0}
      BY <1>2
    <3>2. k < at + 1
      BY <1>1, <2>1, <2>2, <3>1 DEF RelocationDone
    <3>3. CASE k < at
      BY <3>3 DEF RelocationDone
    <3>4. CASE k = at
      <4>1. objects[k].relocations \in Seq(RelocationEntry)
        BY <1>1, InvocationTypes, ObjectFields
      <4>2. Len(objects[k].relocations) \in Nat
        BY <4>1
      <4>3. i < rel
        BY <1>1, <2>1, <3>4, <4>2
      <4> QED
        BY <3>4, <4>3 DEF RelocationDone
    <3> QED
      BY <1>1, <3>1, <3>2, <3>3, <3>4
  <2> QED
    BY <1>1, <2>1, <2>2, PatchesKept
<1>6. CASE Relocated
  <2>1. /\ phase = "relocate" /\ at > Len(objects)
        /\ UNCHANGED <<final_code, final_data, code_bases, ram_bases, data_start>>
    BY <1>6 DEF Relocated, Go, layoutVars
  <2>2. ASSUME NEW k \in 1 .. Len(objects), NEW i \in 1 .. Len(objects[k].relocations)
        PROVE  RelocationDone(k, i)
    <3>1. k < at
      BY <1>1, <2>1
    <3> QED
      BY <3>1 DEF RelocationDone
  <2> QED
    BY <1>1, <2>1, <2>2, PatchesKept
<1>7. CASE UNCHANGED vars
  <2>1. /\ phase' = phase /\ at' = at /\ rel' = rel
        /\ UNCHANGED <<final_code, final_data, code_bases, ram_bases, data_start>>
    BY <1>7 DEF vars, layoutVars
  <2>2. \A k, i : RelocationDone(k, i)' = RelocationDone(k, i)
    BY <2>1 DEF RelocationDone
  <2>3. CASE phase \in {"relocate", "write"}
    BY <1>1, <2>1, <2>2, <2>3, PatchesKept
  <2>4. CASE phase \notin {"relocate", "write"}
    BY <2>1, <2>4 DEF PatchesHold
  <2> QED
    BY <2>3, <2>4
<1>8. CASE \/ ReadOptions \/ LoadObject \/ Configure \/ LayoutRam \/ StartCode \/ LayoutCode
           \/ StartData \/ LayoutData
  <2>1. phase' \notin {"relocate", "write"}
    BY <1>8 DEF ReadOptions, LoadObject, Configure, LayoutRam, StartCode, LayoutCode, StartData, LayoutData, Go
  <2> QED
    BY <2>1 DEF PatchesHold
<1>9. CASE Reject \/ Write
  BY <1>9 DEF Reject, Write, Fail, Exit
<1> QED
  BY <1>3, <1>4, <1>5, <1>6, <1>7, <1>8, <1>9 DEF Next, Step, Finished

\* Every step keeps the layout.
LEMMA NextLayout == LayoutInv /\ [Next]_vars => LayoutInv'
<1> SUFFICES ASSUME LayoutInv, [Next]_vars PROVE LayoutInv'
  OBVIOUS
<1>1. LinkInv /\ RamAligned /\ CodeLaid
  BY DEF LayoutInv
<1>2. LinkInv' /\ RamAligned' /\ CodeLaid'
  BY <1>1, NextControl, NextSections, NextRamAligned, NextCodeLaid DEF LinkInv
<1>3. ASSUME phase' # "done" PROVE \E c \in Seq(Nat) : (DataLaid(c) /\ SymbolsHome(c) /\ PatchesHold(c))'
  <2>1. phase # "done"
    BY <1>3 DEF vars, Next, Step, ReadOptions, LoadObject, Configure, LayoutRam, StartCode, LayoutCode, AtRelocation,
       StartData, LayoutData, Place, Relocate, NextObject, Relocated, Reject, Fail, Exit, Write, Finished
  <2>2. PICK b \in Seq(Nat) : DataLaid(b) /\ SymbolsHome(b) /\ PatchesHold(b)
    BY <2>1 DEF LayoutInv
  <2>3. CASE LayoutData
    <3>1. PICK x \in Nat : /\ x = Len(final_data) + DataPad(Len(final_data))
                           /\ Append(b, x) \in Seq(Nat) /\ DataLaid(Append(b, x))'
      BY <1>1, <2>2, <2>3, DataAdded
    <3>2. SymbolsHome(Append(b, x))'
      BY <1>1, <2>2, <2>3, <3>1, SymbolsOfData
    <3>3. PatchesHold(Append(b, x))'
      <4>1. phase' = "data"
        BY <2>3 DEF LayoutData
      <4> QED
        BY <4>1 DEF PatchesHold
    <3> QED
      BY <3>1, <3>2, <3>3
  <2>4. CASE ~LayoutData
    <3>1. DataLaid(b)'
      BY <1>1, <1>3, <2>2, <2>4, DataKept
    <3>2. PatchesHold(b)'
      BY <1>1, <1>3, <2>2, NextPatches
    <3>3. link' = link
      BY LinkFixed
    <3>4. SymbolsHome(b)'
      <4>1. CASE StartCode
        BY <1>1, <2>2, <4>1, SymbolsOfRam
      <4>2. CASE LayoutCode
        BY <1>1, <2>2, <4>2, SymbolsOfCode
      <4>3. CASE ReadOptions \/ LoadObject \/ Configure \/ LayoutRam
        <5>1. phase' \notin Laid
          BY <4>3 DEF ReadOptions, LoadObject, Configure, LayoutRam, Go, Laid
        <5> QED
          BY <5>1 DEF SymbolsHome
      <4>4. CASE StartData
        <5>1. phase = "code" /\ UNCHANGED <<symbols, code_bases, ram_bases>>
          BY <4>4 DEF StartData
        <5>2. Len(b) = 0 /\ phase \in Laid
          BY <2>2, <5>1 DEF DataLaid, Laid
        <5> QED
          BY <1>1, <2>2, <3>3, <5>1, <5>2, SymbolsKept
      <4>5. CASE Place \/ Relocate \/ NextObject \/ Relocated \/ UNCHANGED vars
        <5>1. /\ phase' \in Laid => phase \in Laid
              /\ UNCHANGED <<symbols, code_bases, ram_bases, data_start>>
          BY <4>5 DEF Place, Relocate, AtRelocation, NextObject, Relocated, Laid, vars, layoutVars
        <5> QED
          BY <1>1, <2>2, <3>3, <5>1, SymbolsKept
      <4>6. CASE Reject \/ Write
        BY <1>3, <4>6 DEF Reject, Write, Fail, Exit
      <4> QED
        BY <2>4, <4>1, <4>2, <4>3, <4>4, <4>5, <4>6 DEF Next, Step, Finished
    <3> QED
      BY <3>1, <3>2, <3>4
  <2> QED
    BY <2>3, <2>4
<1> QED
  BY <1>2, <1>3 DEF LayoutInv

\* Where every byte and every symbol is, at every moment of a link.
THEOREM LayoutInvariant == Spec => []LayoutInv
<1>1. Init => LayoutInv
  <2> SUFFICES ASSUME Init PROVE LayoutInv
    OBVIOUS
  <2>1. LinkInv /\ phase = "options" /\ ram_bases = <<>> /\ final_data = <<>>
    BY InitLinkInv DEF Init
  <2>2. 1 .. Len(ram_bases) = {} /\ 1 .. Len(final_data) = {} /\ Len(final_data) = 0
    BY <2>1
  <2>3. Len(objects) \in Nat
    BY <2>1, InvocationTypes DEF LinkInv, Control
  <2> DEFINE b == <<>>
  <2>4. b \in Seq(Nat) /\ Len(b) = 0 /\ 1 .. Len(b) = {}
    OBVIOUS
  <2> HIDE DEF b
  <2>5. DataLaid(b)
    <3>1. Blocks(objects, final_data, "DATA", b)
      BY <2>2, <2>3, <2>4 DEF Blocks
    <3> QED
      BY <2>1, <2>2, <2>4, <3>1 DEF DataLaid
  <2>6. SymbolsHome(b) /\ PatchesHold(b) /\ CodeLaid
    BY <2>1 DEF SymbolsHome, PatchesHold, CodeLaid, Laid
  <2>7. RamAligned
    BY <2>2 DEF RamAligned
  <2> QED
    BY <2>1, <2>4, <2>5, <2>6, <2>7 DEF LayoutInv
<1> QED
  BY <1>1, NextLayout, PTL DEF Spec

-----------------------------------------------------------------------------
\* The image, cell by cell.
LEMMA ImageCells ==
    ASSUME LinkInv
    PROVE  /\ Image \in Seq(CellType) /\ Len(Image) = Len(final_code) + Len(final_data)
           /\ Len(final_code) \in Nat /\ Len(final_data) \in Nat
           /\ \A i \in 1 .. Len(final_code) : i \in 1 .. Len(Image) /\ Image[i] = final_code[i]
           /\ \A i \in 1 .. Len(final_data) : Len(final_code) + i \in 1 .. Len(Image)
                                                /\ Image[Len(final_code) + i] = final_data[i]
           /\ \A i \in 1 .. Len(Image) : i \in 1 .. Len(final_code)
                                          \/ \E j \in 1 .. Len(final_data) : i = Len(final_code) + j
<1> DEFINE m == Len(final_code)
           n == Len(final_data)
<1>1. final_code \in Seq(CellType) /\ final_data \in Seq(CellType) /\ m \in Nat /\ n \in Nat
  BY DEF LinkInv, Sections
<1>2. /\ Image \in Seq(CellType) /\ Len(Image) = m + n
      /\ \A i \in 1 .. m + n : Image[i] = IF i <= m THEN final_code[i] ELSE final_data[i - m]
  BY <1>1, ConcatProperties DEF Image
<1> HIDE DEF m, n
<1>3. \A i \in 1 .. m : i \in 1 .. m + n /\ i <= m
  BY <1>1
<1>4. \A i \in 1 .. n : m + i \in 1 .. m + n /\ ~(m + i <= m) /\ m + i - m = i
  BY <1>1
<1>5. \A i \in 1 .. m + n : i \in 1 .. m \/ \E j \in 1 .. n : i = m + j
  <2> SUFFICES ASSUME NEW i \in 1 .. m + n, i \notin 1 .. m PROVE \E j \in 1 .. n : i = m + j
    OBVIOUS
  <2>1. i - m \in 1 .. n /\ i = m + (i - m)
    BY <1>1
  <2> QED
    BY <2>1
<1>6. \A i \in 1 .. m : i \in 1 .. Len(Image) /\ Image[i] = final_code[i]
  BY <1>2, <1>3
<1>7. \A i \in 1 .. n : m + i \in 1 .. Len(Image) /\ Image[m + i] = final_data[i]
  <2> SUFFICES ASSUME NEW i \in 1 .. n PROVE m + i \in 1 .. Len(Image) /\ Image[m + i] = final_data[i]
    OBVIOUS
  <2>1. m + i \in 1 .. m + n /\ ~(m + i <= m) /\ m + i - m = i
    BY <1>4
  <2> DEFINE y == m + i
  <2> HIDE DEF y
  <2>2. y \in 1 .. m + n /\ ~(y <= m) /\ y - m = i
    BY <1>1, <2>1 DEF y
  <2>3. y \in 1 .. Len(Image) /\ Image[y] = final_data[y - m]
    BY <1>2, <2>2
  <2> QED
    BY <2>2, <2>3 DEF y
<1>8. \A i \in 1 .. Len(Image) : i \in 1 .. m \/ \E j \in 1 .. n : i = m + j
  BY <1>2, <1>5
<1> QED
  BY <1>1, <1>2, <1>6, <1>7, <1>8, Zenon DEF m, n

\* A byte of an input section is in the image once; PlaceOf finds it.
LEMMA BytePlace ==
    ASSUME LinkInv, CodeLaid, NEW b \in Seq(Nat), DataLaid(b), phase = "write",
           NEW k \in 1 .. Len(objects), NEW section \in {"CODE", "DATA"},
           NEW o \in 0 .. SectionSize(objects[k], section) - 1
    PROVE  LET i == (IF section = "CODE" THEN 0 ELSE Len(final_code)) + SectionBase(k, section, b) + 1 + o IN
           /\ {j \in 1 .. Len(Image) : Image[j].tag = <<k, section, o>>} = {i}
           /\ PlaceOf(k, section, o) = code_start + i - 1
<1>1. link \in Links /\ objects \in Seq(Object) /\ Len(objects) \in Nat
  BY InvocationTypes DEF LinkInv, Control
<1>2. /\ Blocks(objects, final_code, "CODE", code_bases) /\ Blocks(objects, final_data, "DATA", b)
      /\ final_code \in Seq(CellType) /\ final_data \in Seq(CellType) /\ code_bases \in Seq(Nat)
      /\ Len(code_bases) = Len(objects) /\ Len(b) = Len(objects)
  BY DEF CodeLaid, DataLaid, Laid, LinkInv, Sections, BasesSoFar
<1> DEFINE tag == <<k, section, o>>
<1>3. ASSUME NEW i \in 1 .. Len(Image), Image[i].tag = tag, \A j \in 1 .. Len(Image) : Image[j].tag = tag => j = i
      PROVE  {j \in 1 .. Len(Image) : Image[j].tag = tag} = {i} /\ PlaceOf(k, section, o) = code_start + i - 1
  <2>1. {j \in 1 .. Len(Image) : Image[j].tag = tag} = {i}
    BY <1>3
  <2>2. (CHOOSE j \in 1 .. Len(Image) : Image[j].tag = <<k, section, o>>) = i
    BY <1>3
  <2>3. section # "RAM"
    OBVIOUS
  <2> QED
    BY <2>1, <2>2, <2>3 DEF PlaceOf
<1>4. CASE section = "CODE"
  <2> DEFINE i == code_bases[k] + 1 + o
  <2>1. /\ i \in 1 .. Len(final_code) /\ final_code[i].tag = tag
        /\ \A j \in 1 .. Len(final_code) : final_code[j].tag = tag => j = i
    <3>1. k \in 1 .. Len(code_bases) /\ o \in 0 .. SectionSize(objects[k], "CODE") - 1
      BY <1>2, <1>4
    <3>2. "CODE" \in {"CODE", "DATA"}
      OBVIOUS
    <3>3. /\ i \in 1 .. Len(final_code) /\ final_code[i].tag = <<k, "CODE", o>>
          /\ \A j \in 1 .. Len(final_code) : final_code[j].tag = <<k, "CODE", o>> => j = i
      <4>1. PICK os \in Seq(Object), cells \in Seq(CellType), c \in Seq(Nat) :
                os = objects /\ cells = final_code /\ c = code_bases
        BY <1>1, <1>2
      <4>2. Blocks(os, cells, "CODE", c) /\ k \in 1 .. Len(c) /\ o \in 0 .. SectionSize(os[k], "CODE") - 1
        BY <1>2, <3>1, <4>1
      <4>3. /\ c[k] + 1 + o \in 1 .. Len(cells) /\ cells[c[k] + 1 + o].tag = <<k, "CODE", o>>
            /\ \A j \in 1 .. Len(cells) : cells[j].tag = <<k, "CODE", o>> => j = c[k] + 1 + o
        BY ONLY <3>2, <4>2, ByteHome
      <4> QED
        BY <4>1, <4>3
    <3> QED
      BY <1>4, <3>3
  <2>2. \A j \in 1 .. Len(final_data) : final_data[j].tag # tag
    <3>1. \A j \in 1 .. Len(final_data) : final_data[j].tag # <<k, "CODE", o>>
      BY <1>2, NoStrangers
    <3> QED
      BY <1>4, <3>1
  <2> HIDE DEF i, tag
  <2>3. i \in 1 .. Len(Image) /\ Image[i].tag = tag
    BY <2>1, ImageCells
  <2>4. ASSUME NEW j \in 1 .. Len(Image), Image[j].tag = tag PROVE j = i
    <3>1. CASE j \in 1 .. Len(final_code)
      BY <2>1, <2>4, <3>1, ImageCells
    <3>2. CASE \E x \in 1 .. Len(final_data) : j = Len(final_code) + x
      BY <2>2, <2>4, <3>2, ImageCells
    <3> QED
      BY <3>1, <3>2, ImageCells
  <2>5. (IF section = "CODE" THEN 0 ELSE Len(final_code)) + SectionBase(k, section, b) + 1 + o = i
    <3>1. SectionBase(k, section, b) = code_bases[k] /\ code_bases[k] \in Nat
      BY <1>2, <1>4 DEF SectionBase
    <3>2. 0 + code_bases[k] = code_bases[k]
      BY <3>1
    <3> QED
      BY <1>4, <3>1, <3>2 DEF i
  <2>6. {j \in 1 .. Len(Image) : Image[j].tag = tag} = {i} /\ PlaceOf(k, section, o) = code_start + i - 1
    BY <1>3, <2>3, <2>4
  <2> QED
    BY <2>5, <2>6 DEF tag
<1>5. CASE section = "DATA"
  <2> DEFINE i == b[k] + 1 + o
  <2>1. /\ i \in 1 .. Len(final_data) /\ final_data[i].tag = tag
        /\ \A j \in 1 .. Len(final_data) : final_data[j].tag = tag => j = i
    <3>1. k \in 1 .. Len(b) /\ o \in 0 .. SectionSize(objects[k], "DATA") - 1
      BY <1>2, <1>5
    <3>2. "DATA" \in {"CODE", "DATA"}
      OBVIOUS
    <3>3. /\ i \in 1 .. Len(final_data) /\ final_data[i].tag = <<k, "DATA", o>>
          /\ \A j \in 1 .. Len(final_data) : final_data[j].tag = <<k, "DATA", o>> => j = i
      <4>1. PICK os \in Seq(Object), cells \in Seq(CellType), c \in Seq(Nat) :
                os = objects /\ cells = final_data /\ c = b
        BY <1>1, <1>2
      <4>2. Blocks(os, cells, "DATA", c) /\ k \in 1 .. Len(c) /\ o \in 0 .. SectionSize(os[k], "DATA") - 1
        BY <1>2, <3>1, <4>1
      <4>3. /\ c[k] + 1 + o \in 1 .. Len(cells) /\ cells[c[k] + 1 + o].tag = <<k, "DATA", o>>
            /\ \A j \in 1 .. Len(cells) : cells[j].tag = <<k, "DATA", o>> => j = c[k] + 1 + o
        BY ONLY <3>2, <4>2, ByteHome
      <4> QED
        BY <4>1, <4>3
    <3> QED
      BY <1>5, <3>3
  <2>2. \A j \in 1 .. Len(final_code) : final_code[j].tag # tag
    <3>1. \A j \in 1 .. Len(final_code) : final_code[j].tag # <<k, "DATA", o>>
      BY <1>2, NoStrangers
    <3> QED
      BY <1>5, <3>1
  <2>5. (IF section = "CODE" THEN 0 ELSE Len(final_code)) + SectionBase(k, section, b) + 1 + o = Len(final_code) + i
    <3>1. SectionBase(k, section, b) = b[k] /\ b[k] \in Nat /\ Len(final_code) \in Nat /\ o \in Nat
      <4>1. SectionSize(objects[k], section) \in Nat
        BY <1>1, BlockSizes DEF Section
      <4> QED
        BY <1>2, <1>5, <4>1 DEF SectionBase
    <3>2. Len(final_code) + b[k] + 1 + o = Len(final_code) + (b[k] + 1 + o)
      BY <3>1
    <3> QED
      BY <1>5, <3>1, <3>2 DEF i
  <2> HIDE DEF i, tag
  <2>3. Len(final_code) + i \in 1 .. Len(Image) /\ Image[Len(final_code) + i].tag = tag
    BY <2>1, ImageCells
  <2>4. ASSUME NEW j \in 1 .. Len(Image), Image[j].tag = tag PROVE j = Len(final_code) + i
    <3>1. CASE j \in 1 .. Len(final_code)
      BY <2>2, <2>4, <3>1, ImageCells
    <3>2. CASE \E x \in 1 .. Len(final_data) : j = Len(final_code) + x
      <4>1. PICK x \in 1 .. Len(final_data) : j = Len(final_code) + x
        BY <3>2
      <4>2. final_data[x].tag = tag
        BY <2>4, <4>1, ImageCells
      <4> QED
        BY <2>1, <4>1, <4>2
    <3> QED
      BY <3>1, <3>2, ImageCells
  <2>6. /\ {j \in 1 .. Len(Image) : Image[j].tag = tag} = {Len(final_code) + i}
        /\ PlaceOf(k, section, o) = code_start + (Len(final_code) + i) - 1
    BY <1>3, <2>3, <2>4
  <2> QED
    BY <2>5, <2>6 DEF tag
<1> QED
  BY <1>4, <1>5

\* PlaceOf, as a number.
LEMMA PlaceIs ==
    ASSUME LinkInv, CodeLaid, NEW b \in Seq(Nat), DataLaid(b), phase = "write", NEW k \in 1 .. Len(objects)
    PROVE  /\ \A o \in 0 .. objects[k].code - 1 : PlaceOf(k, "CODE", o) = code_start + code_bases[k] + o
           /\ \A o \in 0 .. objects[k].data - 1 : PlaceOf(k, "DATA", o) = data_start + b[k] + o
           /\ \A o : PlaceOf(k, "RAM", o) = static_start + ram_bases[k] + o
           /\ code_bases[k] \in Nat /\ b[k] \in Nat /\ ram_bases[k] \in Nat
           /\ code_start \in Nat /\ data_start = code_start + Len(final_code)
           /\ data_start \in Nat /\ static_start \in Nat
<1>1. /\ link \in Links /\ objects[k] \in Object /\ objects # <<>> /\ Len(objects) \in Nat
      /\ objects[k].code \in Nat /\ objects[k].data \in Nat
  BY InvocationTypes, ObjectFields DEF LinkInv, Control
<1>2. /\ code_start \in Nat /\ static_start \in Nat /\ Len(final_code) \in Nat
      /\ data_start = code_start + Len(final_code) /\ data_start \in Nat
  BY <1>1, FixedAddresses DEF DataLaid, LinkInv, Sections
<1>3. code_bases[k] \in Nat /\ b[k] \in Nat /\ ram_bases[k] \in Nat
  <2>1. /\ code_bases \in Seq(Nat) /\ ram_bases \in Seq(Nat)
        /\ Len(code_bases) = Len(objects) /\ Len(ram_bases) = Len(objects)
    BY DEF LinkInv, Sections, BasesSoFar
  <2>2. Len(b) = Len(objects)
    BY DEF DataLaid
  <2>3. \A f \in Seq(Nat) : Len(f) = Len(objects) => f[k] \in Nat
    OBVIOUS
  <2> QED
    BY <2>1, <2>2, <2>3
<1>4. SectionSize(objects[k], "CODE") = objects[k].code /\ SectionSize(objects[k], "DATA") = objects[k].data
  BY <1>1, SectionSizes
<1>5. ASSUME NEW o \in 0 .. objects[k].code - 1 PROVE PlaceOf(k, "CODE", o) = code_start + code_bases[k] + o
  <2>1. PlaceOf(k, "CODE", o) = code_start + (0 + code_bases[k] + 1 + o) - 1
    BY <1>4, BytePlace, Zenon DEF SectionBase
  <2> QED
    BY <1>1, <1>2, <1>3, <2>1
<1>6. ASSUME NEW o \in 0 .. objects[k].data - 1 PROVE PlaceOf(k, "DATA", o) = data_start + b[k] + o
  <2>1. SectionBase(k, "DATA", b) = b[k] /\ (IF "DATA" = "CODE" THEN 0 ELSE Len(final_code)) = Len(final_code)
    BY DEF SectionBase
  <2>2. PlaceOf(k, "DATA", o) = code_start + (Len(final_code) + b[k] + 1 + o) - 1
    <3>1. o \in 0 .. SectionSize(objects[k], "DATA") - 1 /\ "DATA" \in {"CODE", "DATA"}
      BY <1>4
    <3>2. PlaceOf(k, "DATA", o)
            = code_start + ((IF "DATA" = "CODE" THEN 0 ELSE Len(final_code)) + SectionBase(k, "DATA", b) + 1 + o) - 1
      BY <3>1, BytePlace, Zenon
    <3> QED
      BY <2>1, <3>2
  <2> DEFINE x == b[k]
             m == Len(final_code)
             c == code_start
  <2>3. x \in Nat /\ m \in Nat /\ c \in Nat /\ o \in Nat /\ data_start = c + m /\ PlaceOf(k, "DATA", o) = c + (m + x + 1 + o) - 1
    BY <1>1, <1>2, <1>3, <2>2
  <2> HIDE DEF x, m, c
  <2>4. PlaceOf(k, "DATA", o) = data_start + x + o
    BY <2>3
  <2> QED
    BY <2>4 DEF x
<1>7. \A o : PlaceOf(k, "RAM", o) = static_start + ram_bases[k] + o
  BY DEF PlaceOf
<1> QED
  BY <1>2, <1>3, <1>5, <1>6, <1>7

\* A multiple of the largest alignment does not change what is aligned.
LEMMA BankAligned ==
    ASSUME NEW x \in Nat, NEW a \in Alignment, x % a = 0, NEW base \in {7340032, 7405568}
    PROVE  (base + x) % a = 0
<1>1. CASE a = 1
  BY <1>1, SMT
<1>2. CASE a = 2
  BY <1>2, SMT
<1>3. CASE a = 4
  BY <1>3, SMT
<1>4. CASE a = 8
  BY <1>4, SMT
<1>5. CASE a = 16
  BY <1>5, SMT
<1>6. CASE a = 32
  BY <1>6, SMT
<1>7. CASE a = 64
  BY <1>7, SMT
<1>8. CASE a = 128
  BY <1>8, SMT
<1> QED
  BY <1>1, <1>2, <1>3, <1>4, <1>5, <1>6, <1>7, <1>8 DEF Alignment

\* Every input byte is in the image once, at an aligned place: for every link.
THEOREM EveryByteIsPlacedOnce == Spec => []LayoutExact
<1>1. LayoutInv => LayoutExact
  <2> SUFFICES ASSUME LayoutInv, phase = "write" PROVE LayoutExact
    BY DEF LayoutExact, Linked
  <2>1. LinkInv /\ RamAligned /\ CodeLaid
    BY DEF LayoutInv
  <2>2. PICK b \in Seq(Nat) : DataLaid(b)
    BY DEF LayoutInv
  <2>3. ASSUME NEW k \in 1 .. Len(objects), NEW section \in {"CODE", "DATA"},
               NEW o \in 0 .. SectionSize(objects[k], section) - 1
        PROVE  Cardinality({i \in 1 .. Len(Image) : Image[i].tag = <<k, section, o>>}) = 1
    <3> DEFINE x == (IF section = "CODE" THEN 0 ELSE Len(final_code)) + SectionBase(k, section, b) + 1 + o
    <3>1. {i \in 1 .. Len(Image) : Image[i].tag = <<k, section, o>>} = {x}
      <4>1. LET i == x IN {j \in 1 .. Len(Image) : Image[j].tag = <<k, section, o>>} = {i}
        BY ONLY <2>1, <2>2, phase = "write", BytePlace, k \in 1 .. Len(objects), section \in {"CODE", "DATA"},
                o \in 0 .. SectionSize(objects[k], section) - 1
      <4> QED
        BY <4>1
    <3> HIDE DEF x
    <3> QED
      BY <3>1, FS_Singleton
  <2>4. ASSUME NEW k \in 1 .. Len(objects)
        PROVE  /\ objects[k].code > 0 => PlaceOf(k, "CODE", 0) % CodeAlignment(objects[k]) = 0
               /\ objects[k].data > 0 => PlaceOf(k, "DATA", 0) % objects[k].data_alignment = 0
               /\ objects[k].ram # <<>> => PlaceOf(k, "RAM", 0) % objects[k].ram_alignment = 0
    <3>1. /\ \A o \in 0 .. objects[k].code - 1 : PlaceOf(k, "CODE", o) = code_start + code_bases[k] + o
          /\ \A o \in 0 .. objects[k].data - 1 : PlaceOf(k, "DATA", o) = data_start + b[k] + o
          /\ PlaceOf(k, "RAM", 0) = static_start + ram_bases[k] + 0
          /\ code_bases[k] \in Nat /\ b[k] \in Nat /\ ram_bases[k] \in Nat
          /\ code_start \in Nat /\ data_start \in Nat /\ static_start \in Nat
      BY <2>1, <2>2, PlaceIs
    <3>2. /\ link \in Links /\ objects[k].code \in Nat /\ objects[k].data \in Nat /\ Len(objects) \in Nat
          /\ objects[k].data_alignment \in Alignment /\ objects[k].ram_alignment \in Alignment
      <4>1. link \in Links /\ validate(objects[k])
        BY <2>1 DEF LinkInv, Control
      <4> QED
        BY <4>1, InvocationTypes, ObjectFields DEF validate
    <3>3. ASSUME objects[k].code > 0 PROVE PlaceOf(k, "CODE", 0) % CodeAlignment(objects[k]) = 0
      <4>1. 0 \in 0 .. objects[k].code - 1
        BY <3>2, <3>3
      <4>2. PlaceOf(k, "CODE", 0) = code_start + code_bases[k] + 0
        BY <3>1, <4>1
      <4>3. PlaceOf(k, "CODE", 0) = code_start + code_bases[k]
        BY <3>1, <4>2
      <4>4. k \in 1 .. Len(code_bases)
        BY <2>1 DEF LinkInv, BasesSoFar
      <4> QED
        BY <2>1, <4>3, <4>4, Zenon DEF CodeLaid, Laid
    <3>4. ASSUME objects[k].data > 0 PROVE PlaceOf(k, "DATA", 0) % objects[k].data_alignment = 0
      <4>1. 0 \in 0 .. objects[k].data - 1
        BY <3>2, <3>4
      <4>2. PlaceOf(k, "DATA", 0) = data_start + b[k] + 0
        BY <3>1, <4>1
      <4>3. PlaceOf(k, "DATA", 0) = data_start + b[k]
        BY <3>1, <4>2
      <4>4. (data_start + b[k]) % objects[k].data_alignment = 0
        <5> DEFINE e == BlockEnd(b, k - 1)
                   a == objects[k].data_alignment
        <5>1. k \in 1 .. Len(b) /\ Len(b) = Len(objects)
          BY <2>2 DEF DataLaid
        <5>2. b[k] = e + PadTo(data_start + e, a)
          BY <2>2, <5>1, Zenon DEF DataLaid
        <5>3. e \in Nat
          <6>1. CASE k - 1 = 0
            BY <6>1 DEF BlockEnd
          <6>2. CASE k - 1 # 0
            <7>1. k - 1 \in 1 .. Len(b)
              BY <3>2, <5>1, <6>2
            <7>2. b[k - 1] \in Nat
              BY <7>1
            <7>3. objects[k - 1].data \in Nat
              BY <3>2, <5>1, <7>1, InvocationTypes, ObjectFields
            <7> QED
              BY <6>2, <7>2, <7>3 DEF BlockEnd
          <6> QED
            BY <6>1, <6>2
        <5> HIDE DEF e, a
        <5>4. data_start + e \in Nat /\ PadTo(data_start + e, a) \in Nat /\ (data_start + e + PadTo(data_start + e, a)) % a = 0
          <6>1. data_start + e \in Nat /\ a \in Alignment
            BY <3>1, <3>2, <5>3 DEF a
          <6> QED
            BY <6>1, Padded
        <5>5. data_start + b[k] = data_start + e + PadTo(data_start + e, a)
          BY <3>1, <5>2, <5>3, <5>4
        <5> QED
          BY <5>4, <5>5 DEF a
      <4> QED
        BY <4>3, <4>4
    <3>5. PlaceOf(k, "RAM", 0) % objects[k].ram_alignment = 0
      <4> DEFINE x == options.ram_origin + ram_bases[k]
                 a == objects[k].ram_alignment
      <4>1. k \in 1 .. Len(ram_bases)
        BY <2>1 DEF LinkInv, BasesSoFar
      <4>2. x % a = 0 /\ x \in Nat /\ options.ram_origin \in Nat
        BY <2>1, <3>1, <3>2, <4>1, OptionTypes DEF RamAligned
      <4>3. options.ram_bank \in 0 .. 1
        BY <3>2, OptionTypes
      <4>4. ram_bank_base \in {7340032, 7405568}
        BY <4>3, RamBank
      <4>5. PlaceOf(k, "RAM", 0) = ram_bank_base + x
        <5>1. ram_bank_base \in Nat
          BY <4>4, SMT
        <5>2. PlaceOf(k, "RAM", 0) = ram_bank_base + options.ram_origin + ram_bases[k] + 0
          BY <3>1 DEF static_start
        <5> QED
          BY <3>1, <4>2, <5>1, <5>2
      <4> HIDE DEF x, a
      <4>6. a \in Alignment
        BY <3>2 DEF a
      <4>7. (ram_bank_base + x) % a = 0
        BY <4>2, <4>4, <4>6, BankAligned
      <4> QED
        BY <4>5, <4>7 DEF a
    <3> QED
      BY <3>3, <3>4, <3>5
  <2> QED
    BY <2>3, <2>4 DEF LayoutExact
<1> QED
  BY <1>1, LayoutInvariant, PTL

\* Every relocated operand holds the address at which its symbol is: for
\* every link.
THEOREM RelocationsReachTheirSymbols == Spec => []RelocationsPointHome
<1>1. LayoutInv => RelocationsPointHome
  <2> SUFFICES ASSUME LayoutInv, phase = "write",
                      NEW k \in 1 .. Len(objects), NEW i \in 1 .. Len(objects[k].relocations),
                      NEW r, r = objects[k].relocations[i], NEW n \in Named(k, r.target),
                      n.symbol.offset < SectionSize(objects[n.object], n.symbol.section)
               PROVE  Holds(Image, PlaceOf(k, r.section, r.offset) - code_start + 2, r.type,
                            PlaceOf(n.object, n.symbol.section, n.symbol.offset))
    BY Zenon DEF RelocationsPointHome, Linked
  <2>1. LinkInv /\ CodeLaid /\ link \in Links /\ Len(objects) \in Nat
    BY InvocationTypes DEF LayoutInv, LinkInv, Control
  <2>2. PICK b \in Seq(Nat) : DataLaid(b) /\ SymbolsHome(b) /\ PatchesHold(b)
    BY DEF LayoutInv
  <2> DEFINE j == n.object
             s == n.symbol
             a == HomeOf(j, s, b)
             q == PatchCell(k, r, b)
  <2>3. Holds(SectionCells(r.section), q, r.type, a)
    <3>1. RelocationDone(k, i)
      BY DEF RelocationDone
    <3> QED
      BY <2>2, <3>1, Zenon DEF PatchesHold
  <2>4. j \in 1 .. Len(objects) /\ s \in objects[j].symbols
    <3>1. CASE r.target \in LocalName
      BY <3>1 DEF Named
    <3>2. CASE r.target \notin LocalName
      <4>1. n \in UNION {{[object |-> x, symbol |-> y] : y \in {z \in objects[x].symbols : z.name = r.target}} :
                   x \in 1 .. Len(objects)}
        BY <3>2 DEF Named
      <4>2. PICK x \in 1 .. Len(objects) : \E y \in objects[x].symbols : n = [object |-> x, symbol |-> y]
        BY <4>1
      <4> QED
        BY <4>2
    <3> QED
      BY <3>1, <3>2
  <2>5. s.section \in {"CODE", "DATA", "RAM"} /\ s.offset \in Nat /\ objects[j] \in Object
        /\ s.offset < SectionSize(objects[j], s.section)
    BY <2>1, <2>4, SymbolFields, InvocationTypes
  <2> HIDE DEF j, s
  <2>6. PlaceOf(j, s.section, s.offset) = a
    <3>1. /\ \A o \in 0 .. objects[j].code - 1 : PlaceOf(j, "CODE", o) = code_start + code_bases[j] + o
          /\ \A o \in 0 .. objects[j].data - 1 : PlaceOf(j, "DATA", o) = data_start + b[j] + o
          /\ \A o : PlaceOf(j, "RAM", o) = static_start + ram_bases[j] + o
          /\ code_bases[j] \in Nat /\ b[j] \in Nat /\ ram_bases[j] \in Nat
          /\ code_start \in Nat /\ data_start \in Nat /\ static_start \in Nat
      BY <2>1, <2>2, <2>4, PlaceIs
    <3>2. objects[j].code \in Nat /\ objects[j].data \in Nat
      BY <2>5, ObjectFields
    <3>3. CASE s.section = "CODE"
      <4>1. s.offset < objects[j].code
        BY <2>5, <3>3, SectionSizes
      <4>2. s.offset \in 0 .. objects[j].code - 1
        BY <2>5, <3>2, <4>1
      <4>3. PlaceOf(j, "CODE", s.offset) = code_start + code_bases[j] + s.offset
        BY <3>1, <4>2
      <4>4. a = s.offset + (code_start + code_bases[j])
        BY <3>3, Homes
      <4> QED
        BY <2>5, <3>1, <3>3, <4>3, <4>4
    <3>4. CASE s.section = "DATA"
      <4>1. s.offset < objects[j].data
        BY <2>5, <3>4, SectionSizes
      <4>2. s.offset \in 0 .. objects[j].data - 1
        BY <2>5, <3>2, <4>1
      <4>3. PlaceOf(j, "DATA", s.offset) = data_start + b[j] + s.offset
        BY <3>1, <4>2
      <4>4. a = s.offset + (data_start + b[j])
        BY <3>4, Homes
      <4> QED
        BY <2>5, <3>1, <3>4, <4>3, <4>4
    <3>5. CASE s.section = "RAM"
      <4>3. PlaceOf(j, "RAM", s.offset) = static_start + ram_bases[j] + s.offset
        BY <3>1
      <4>4. a = s.offset + (static_start + ram_bases[j])
        BY <3>5, Homes
      <4> QED
        BY <2>5, <3>1, <3>5, <4>3, <4>4
    <3> QED
      BY <2>5, <3>3, <3>4, <3>5
  <2>7. /\ q \in 1 .. Len(SectionCells(r.section))
        /\ r.type # "ADDR24_BANK" => q + 1 \in 1 .. Len(SectionCells(r.section))
        /\ q \in Nat
    BY <2>1, <2>2, OperandsInside
  <2>8. /\ r.section \in {"CODE", "DATA"} /\ r.offset \in Nat /\ PatchSize(r.type) \in {2, 3}
        /\ r.offset + PatchSize(r.type) <= SectionSize(objects[k], r.section)
    BY <2>1, ObjectRelocations
  <2> DEFINE p == PlaceOf(k, r.section, r.offset) - code_start + 2
             m == IF r.section = "CODE" THEN 0 ELSE Len(final_code)
  <2>9. p = m + q
    <3>1. SectionBase(k, r.section, b) \in Nat /\ SectionSize(objects[k], r.section) \in Nat
      BY <2>1, <2>2, <2>8, SectionBlocks
    <3>2. r.offset \in 0 .. SectionSize(objects[k], r.section) - 1
      BY <2>8, <3>1
    <3>3. PlaceOf(k, r.section, r.offset) = code_start + (m + SectionBase(k, r.section, b) + 1 + r.offset) - 1
      BY <2>1, <2>2, <2>8, <3>2, BytePlace
    <3>4. code_start \in Nat /\ m \in Nat
      BY <2>1, <2>2, PlaceIs, ImageCells
    <3>5. q = r.offset + SectionBase(k, r.section, b) + 2
      BY DEF PatchCell
    <3> DEFINE c == code_start
               d == SectionBase(k, r.section, b)
               o == r.offset
               w == PlaceOf(k, r.section, r.offset)
    <3>6. c \in Nat /\ d \in Nat /\ o \in Nat /\ m \in Nat /\ w = c + (m + d + 1 + o) - 1 /\ q = o + d + 2
      BY <2>8, <3>1, <3>3, <3>4, <3>5
    <3> HIDE DEF m, q, c, d, o, w
    <3>7. w - c + 2 = m + q
      BY <3>6
    <3> QED
      BY <3>7 DEF c, w
  <2> HIDE DEF p, q, a
  <2>10. ASSUME NEW y \in Nat, y \in 1 .. Len(SectionCells(r.section))
         PROVE  Image[m + y] = SectionCells(r.section)[y]
    <3>1. CASE r.section = "CODE"
      BY <2>1, <2>10, <3>1, ImageCells DEF SectionCells
    <3>2. CASE r.section = "DATA"
      BY <2>1, <2>10, <3>2, ImageCells DEF SectionCells
    <3> QED
      BY <2>8, <3>1, <3>2
  <2>11. Image[p] = SectionCells(r.section)[q]
    BY <2>7, <2>9, <2>10
  <2>12. r.type # "ADDR24_BANK" => Image[p + 1] = SectionCells(r.section)[q + 1]
    <3>1. p + 1 = m + (q + 1) /\ q + 1 \in Nat
      <4>1. m \in Nat
        BY <2>1, ImageCells
      <4> HIDE DEF m
      <4> QED
        BY <2>7, <2>9, <4>1
    <3> QED
      BY <2>7, <2>10, <3>1
  <2>13. Holds(Image, p, r.type, a)
    BY <2>3, <2>11, <2>12, Zenon DEF Holds
  <2> QED
    BY <2>6, <2>13 DEF p, s, j
<1> QED
  BY <1>1, LayoutInvariant, PTL
=============================================================================
