--------------------------------- MODULE Cdb ---------------------------------
(***************************************************************************)
(* The common data bus (cdb.c): the results the functional units broadcast *)
(* in one cycle.  The array of num_entries entries, in which an entry with *)
(* rob_id 0 is free, is the sequence of the entries taken so far.          *)
(***************************************************************************)
EXTENDS Integers, Sequences

\* num_entries: NUM_ALU_UNITS + NUM_BRANCH_UNITS + NUM_MEMORY_UNITS (cpu.c:37).
CONSTANT CDB_SIZE

ASSUME CdbSizeAssumption == CDB_SIZE \in Nat \ {0}

cdb_init == << >>

\* A result written to a full bus is dropped without a report, as in the code.
cdb_write(cdb, rob_id, val) ==
    IF Len(cdb) < CDB_SIZE
    THEN Append(cdb, [rob_id |-> rob_id, val |-> val])
    ELSE cdb

cdb_is_val_ready(cdb, rob_id) == \E i \in DOMAIN cdb : cdb[i].rob_id = rob_id

\* The first match; callers ask cdb_is_val_ready before.
cdb_get_val(cdb, rob_id) ==
    LET matches == {i \in DOMAIN cdb : cdb[i].rob_id = rob_id}
    IN  cdb[CHOOSE i \in matches : \A j \in matches : i <= j].val

cdb_clear(cdb) == << >>
=============================================================================
