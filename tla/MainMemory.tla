------------------------------ MODULE MainMemory -----------------------------
(***************************************************************************)
(* Byte-addressed, little-endian main memory (main_memory.c): a function   *)
(* from addresses to bytes.                                                *)
(***************************************************************************)
EXTENDS Word

CONSTANT MEMORY_SIZE

ASSUME MemorySizeAssumption == MEMORY_SIZE \in Words \ {0}

Addresses == 0 .. MEMORY_SIZE - 1

\* Loads wrap, because speculation may produce any address.
main_memory_load_byte(mm, addr) == mm[addr % MEMORY_SIZE]

main_memory_load_half(mm, addr) ==
    main_memory_load_byte(mm, addr) + BYTE * main_memory_load_byte(mm, plus(addr, 1))

main_memory_load_word(mm, addr) ==
    main_memory_load_half(mm, addr) + HALF * main_memory_load_half(mm, plus(addr, 2))

\* Stores do not wrap.  One beyond the array is undefined; the programs of the runs have none.
main_memory_store_byte(mm, addr, val) ==
    IF addr \in Addresses THEN [mm EXCEPT ![addr] = val % BYTE] ELSE mm

main_memory_store_half(mm, addr, val) ==
    main_memory_store_byte(main_memory_store_byte(mm, addr, val),
                           plus(addr, 1), (val % HALF) \div BYTE)

main_memory_store_word(mm, addr, val) ==
    main_memory_store_half(main_memory_store_half(mm, addr, val), plus(addr, 2), val \div HALF)

\* What a load of memory_step puts in its register.
load(mm, op, addr) ==
    CASE op = "LW"  -> main_memory_load_word(mm, addr)
      [] op = "LH"  -> sext_half(main_memory_load_half(mm, addr))
      [] op = "LHU" -> main_memory_load_half(mm, addr)
      [] op = "LB"  -> sext_byte(main_memory_load_byte(mm, addr))
      [] op = "LBU" -> main_memory_load_byte(mm, addr)
=============================================================================
