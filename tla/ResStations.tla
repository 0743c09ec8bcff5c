----------------------------- MODULE ResStations -----------------------------
(***************************************************************************)
(* A pool of reservation stations (res_stations.c), kept twice like the    *)
(* reorder buffer.  Stations are found in the current copy and changed in  *)
(* the next one, so the n-th addition, or removal, of a cycle skips the n  *)
(* stations that were found before it.                                     *)
(***************************************************************************)
EXTENDS Integers, FiniteSets, Cdb

\* The element of S that has n smaller ones.
Nth(S, n) == CHOOSE i \in S : Cardinality({j \in S : j < i}) = n

Station(Words, Ops, RobIds) ==
    [busy : BOOLEAN, op : Ops, qj : {0} \cup RobIds, qk : {0} \cup RobIds,
     vj : Words, vk : Words, a : Words, rob_id : {0} \cup RobIds, inst_pc : Words]

\* malloc'ed fields other than busy are read together with busy only.
res_stations_init(num_stations) ==
    LET stations == [i \in 1 .. num_stations |->
            [busy |-> FALSE, op |-> "ADD", qj |-> 0, qk |-> 0, vj |-> 0, vk |-> 0,
             a |-> 0, rob_id |-> 0, inst_pc |-> 0]]
    IN  [current |-> stations, next |-> stations, removed |-> 0, added |-> 0]

FreeStations(rs) == {i \in DOMAIN rs.current : ~rs.current[i].busy}

ReadyStations(rs) ==
    {i \in DOMAIN rs.current : /\ rs.current[i].qj = 0 /\ rs.current[i].qk = 0
                               /\ rs.current[i].busy}

res_stations_num_free(rs) == Cardinality(FreeStations(rs))

\* An operand that waits takes its value from the bus.
Captured(station, cdb) ==
    LET j == station.qj # 0 /\ cdb_is_val_ready(cdb, station.qj)
        k == station.qk # 0 /\ cdb_is_val_ready(cdb, station.qk)
    IN  IF ~station.busy THEN station
        ELSE [station EXCEPT !.vj = IF j THEN cdb_get_val(cdb, station.qj) ELSE @,
                             !.qj = IF j THEN 0 ELSE @,
                             !.vk = IF k THEN cdb_get_val(cdb, station.qk) ELSE @,
                             !.qk = IF k THEN 0 ELSE @]

res_stations_step(rs, cdb) ==
    [rs EXCEPT !.next = [i \in DOMAIN rs.next |-> Captured(rs.next[i], cdb)]]

\* Without a station left nothing is added, and nothing reports it.
res_stations_add(rs, op, qj, qk, vj, vk, a, rob_id, inst_pc) ==
    IF rs.added >= res_stations_num_free(rs) THEN rs
    ELSE [rs EXCEPT
            !.next[Nth(FreeStations(rs), rs.added)] =
                [busy |-> TRUE, op |-> op, qj |-> qj, qk |-> qk, vj |-> vj, vk |-> vk,
                 a |-> a, rob_id |-> rob_id, inst_pc |-> inst_pc],
            !.added = @ + 1]

\* Seeded fault: every unit that asks in one cycle is given the same entry.
res_stations_ready_first(rs) == rs.current[Nth(ReadyStations(rs), 0)]

\* res_stations_remove returns an entry, or NULL.
res_stations_has_ready(rs) == rs.removed < Cardinality(ReadyStations(rs))
res_stations_ready(rs) == rs.current[Nth(ReadyStations(rs), rs.removed)]

res_stations_remove(rs) ==
    [rs EXCEPT !.next[Nth(ReadyStations(rs), rs.removed)].busy = FALSE,
               !.removed = @ + 1]

\* Seeded fault: the copy that is about to be overwritten is cleared.
res_stations_clear_current(rs) ==
    [rs EXCEPT !.current = [i \in DOMAIN rs.next |-> [rs.next[i] EXCEPT !.busy = FALSE]]]

res_stations_clear(rs) ==
    [rs EXCEPT !.next = [i \in DOMAIN rs.next |-> [rs.next[i] EXCEPT !.busy = FALSE]]]

res_stations_update_current(rs) ==
    [rs EXCEPT !.current = rs.next, !.removed = 0, !.added = 0]
=============================================================================
