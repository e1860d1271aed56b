---------------------------- MODULE GsuMemoryMap ----------------------------
(***************************************************************************)
(* The GSU address space as GsuMemoryMap.hpp defines it: 64 KiB banks, ROM *)
(* in the upper half of banks $00-$3F and in all of $40-$5F, RAM in $70    *)
(* and $71, nothing else.  Addresses are 24-bit numbers.                   *)
(***************************************************************************)
EXTENDS Integers

BankSize == 65536
FirstRamBank == 112                      \* $70
RamBase == FirstRamBank * BankSize       \* $700000
MaxAddress == 256 * BankSize - 1         \* $FFFFFF

bank(address) == address \div BankSize
offset(address) == address % BankSize

region(address) ==
    IF address > MaxAddress THEN "Unmapped"
    ELSE IF \/ bank(address) <= 63 /\ offset(address) >= 32768
            \/ bank(address) \in 64 .. 95 THEN "Rom"
    ELSE IF bank(address) \in {FirstRamBank, FirstRamBank + 1} THEN "Ram"
    ELSE "Unmapped"

validateAddress(address) == region(address) # "Unmapped"

validatePayload(origin, code_bytes, data_bytes) ==
    /\ validateAddress(origin)
    /\ code_bytes <= BankSize - offset(origin)
    /\ data_bytes <= BankSize - offset(origin) - code_bytes

validateNearTarget(origin, target) ==
    validateAddress(origin) /\ validateAddress(target) /\ bank(origin) = bank(target)
=============================================================================
