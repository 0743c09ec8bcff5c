------------------------------- MODULE PoolLemmas ------------------------------
(***************************************************************************)
(* The reservation stations and the memory buffers: whatever values their  *)
(* entries hold, which entry an operation takes from the current copy, and *)
(* what it does to the next one.                                           *)
(***************************************************************************)
EXTENDS MemoryBuffers, RobLemmas, FiniteSetTheorems

\* How many of the chosen come before i.
Rank(chosen, i) == Cardinality({j \in chosen : j < i})

\* Nth finds the element it is named for.
LEMMA RankOfNth ==
    ASSUME NEW n \in Nat, NEW T \in SUBSET (1 .. n), NEW k \in Nat, k < Cardinality(T)
    PROVE  Nth(T, k) \in T /\ Rank(T, Nth(T, k)) = k
<1> DEFINE Upto(m) == {j \in T : j <= m}
           size(m) == Cardinality(Upto(m))
<1>1. \A j \in T : j \in Nat /\ 1 <= j /\ j <= n
  OBVIOUS
<1>2. \A m \in 0 .. n : IsFiniteSet(Upto(m)) /\ size(m) \in Nat
  <2> TAKE m \in 0 .. n
  <2>1. IsFiniteSet(1 .. n)
    BY FS_Interval
  <2>2. IsFiniteSet(Upto(m))
    BY <2>1, FS_Subset
  <2> QED
    BY <2>2, FS_CardinalityType
<1>3. size(0) = 0 /\ size(n) > k
  <2>1. ASSUME NEW j \in T PROVE ~(j <= 0) /\ j <= n
    BY <1>1
  <2>2. Upto(0) = {} /\ Upto(n) = T
    BY <2>1, Zenon
  <2> QED
    BY <2>2, FS_EmptySet
<1>4. ASSUME NEW m \in 1 .. n
      PROVE  size(m) = IF m \in T THEN size(m - 1) + 1 ELSE size(m - 1)
  <2>1. ASSUME NEW j \in T PROVE j <= m <=> (j <= m - 1 \/ j = m)
    BY <1>1
  <2>2. Upto(m) = IF m \in T THEN Upto(m - 1) \cup {m} ELSE Upto(m - 1)
    BY <2>1, Zenon
  <2>3. m \notin Upto(m - 1) /\ IsFiniteSet(Upto(m - 1))
    <3>1. m - 1 \in 0 .. n /\ ~(m <= m - 1)
      OBVIOUS
    <3> QED
      BY <1>2, <3>1, Zenon
  <2> HIDE DEF Upto
  <2> QED
    BY <2>2, <2>3, FS_AddElement
<1>5. \A m \in T : size(m - 1) = Rank(T, m)
  <2>1. ASSUME NEW m \in T, NEW j \in T PROVE j <= m - 1 <=> j < m
    BY <1>1
  <2>2. \A m \in T : Upto(m - 1) = {j \in T : j < m}
    BY <2>1, Zenon
  <2> QED
    BY <2>2, Zenon DEF Rank
<1> HIDE DEF size
<1> DEFINE above == {m \in 0 .. n : size(m) > k}
<1>6. PICK m \in above : \A x \in above : m <= x
  <2>1. above \in SUBSET Nat /\ above # {}
    BY <1>3
  <2> HIDE DEF above
  <2> QED
    BY <2>1, LeastExists
<1>7. m \in 1 .. n /\ size(m - 1) \in Nat /\ ~(size(m - 1) > k)
  <2>1. m \in 1 .. n
    BY <1>3, <1>6
  <2>2. m - 1 \in 0 .. n /\ ~(m <= m - 1)
    BY <2>1
  <2>3. m - 1 \notin above
    BY <1>6, <2>2, Zenon
  <2> QED
    BY <1>2, <2>1, <2>2, <2>3, Zenon
<1>8. m \in T /\ Rank(T, m) = k
  BY <1>4, <1>5, <1>6, <1>7
<1>9. m \in T /\ Cardinality({j \in T : j < m}) = k
  BY <1>8 DEF Rank
<1> QED
  BY <1>9, Zenon DEF Nth, Rank

\* The ranks of a set of numbers up to n.
LEMMA RankType ==
    ASSUME NEW n \in Nat, NEW T \in SUBSET (1 .. n)
    PROVE  Cardinality(T) \in Nat /\ \A i : Rank(T, i) \in Nat
<1>1. IsFiniteSet(1 .. n)
  BY FS_Interval
<1>2. IsFiniteSet(T) /\ \A i : IsFiniteSet({j \in T : j < i})
  BY <1>1, FS_Subset
<1> QED
  BY <1>2, FS_CardinalityType DEF Rank

-----------------------------------------------------------------------------

(* Reservation stations. *)

StationsOf(V, n) ==
    [current : [1 .. n -> Station(V, V, RobIds)], next : [1 .. n -> Station(V, V, RobIds)],
     removed : Nat, added : Nat]

\* A pool of n stations, whatever their values.
IsStations(rs, n) == \E V : rs \in StationsOf(V, n)

\* Who holds an instruction: the kind of place, the place, the id and the operation.
Holder(place, i, id, op) == <<place, i, id, op>>

InPool(name, pool) ==
    {Holder(name, i, pool[i].rob_id, pool[i].op) : i \in {k \in DOMAIN pool : pool[k].busy}}

Gains(new, old, h) == \A g : g \in new <=> g \in old \/ g = h
Loses(new, old, h) == h \in old /\ \A g : g \in new <=> g \in old /\ g # h

\* An instruction enters a pool, or leaves it.
Joins(new, old, name, id, op) ==
    \E i : Gains(InPool(name, new), InPool(name, old), Holder(name, i, id, op))

Departs(new, old, name, id, op) ==
    \E i : Loses(InPool(name, new), InPool(name, old), Holder(name, i, id, op))

\* The parts of a holder.
LEMMA HolderParts ==
    ASSUME NEW place, NEW i, NEW id, NEW op
    PROVE  LET h == Holder(place, i, id, op)
           IN  h[1] = place /\ h[2] = i /\ h[3] = id /\ h[4] = op
  BY DEF Holder

(***************************************************************************)
(* Of the entries of the current copy the next one lacks those that have   *)
(* been removed in this cycle, of its free ones it has used those that     *)
(* have been added, and both were taken in the order of their places.      *)
(***************************************************************************)
StationsInStep(rs) ==
    \A i \in DOMAIN rs.current :
        IF rs.current[i].busy
        THEN /\ rs.next[i].rob_id = rs.current[i].rob_id
             /\ rs.next[i].op = rs.current[i].op
             /\ ~rs.next[i].busy =>
                    i \in ReadyStations(rs) /\ Rank(ReadyStations(rs), i) < rs.removed
        ELSE rs.next[i].busy => Rank(FreeStations(rs), i) < rs.added

\* Stations of some values are stations of any larger set of values.
LEMMA StationsGrow ==
    ASSUME NEW n, NEW V, NEW W, V \subseteq W, NEW rs \in StationsOf(V, n)
    PROVE  rs \in StationsOf(W, n)
<1>1. Station(V, V, RobIds) \subseteq Station(W, W, RobIds)
  BY DEF Station
<1> QED
  BY <1>1 DEF StationsOf

\* res_stations_init builds empty stations.
LEMMA InitStations ==
    ASSUME NEW n \in Nat
    PROVE  LET new == res_stations_init(n)
           IN  /\ IsStations(new, n)
               /\ new.current = new.next /\ new.removed = 0 /\ new.added = 0
               /\ \A name : InPool(name, new.next) = {}
<1> DEFINE station == [busy |-> FALSE, op |-> "ADD", qj |-> 0, qk |-> 0, vj |-> 0, vk |-> 0,
                       a |-> 0, rob_id |-> 0, inst_pc |-> 0]
           V == {0, "ADD"}
           pool == [i \in 1 .. n |-> station]
<1>1. station \in Station(V, V, RobIds) /\ ~station.busy
  BY DEF Station
<1>2. res_stations_init(n) = [current |-> pool, next |-> pool, removed |-> 0, added |-> 0]
  BY DEF res_stations_init
<1> HIDE DEF station, V
<1>3. pool \in [1 .. n -> Station(V, V, RobIds)]
  BY <1>1
<1>4. InPool("", pool) = {} /\ \A name : InPool(name, pool) = {}
  BY <1>1 DEF InPool
<1> HIDE DEF pool
<1>5. /\ res_stations_init(n) \in StationsOf(V, n)
      /\ res_stations_init(n).current = pool /\ res_stations_init(n).next = pool
      /\ res_stations_init(n).removed = 0 /\ res_stations_init(n).added = 0
  BY <1>2, <1>3 DEF StationsOf
<1> QED
  BY <1>4, <1>5, Zenon DEF IsStations

\* An instruction is in the next free station, and the other stations are as they were.
StationFilled(new, rs, n, rob_id, op) ==
    /\ IsStations(new, n)
    /\ new.current = rs.current /\ new.removed = rs.removed /\ new.added = rs.added + 1
    /\ \E i \in 1 .. n :
          /\ i \in FreeStations(rs) /\ Rank(FreeStations(rs), i) = rs.added
          /\ ~rs.current[i].busy
          /\ new.next[i].busy
          /\ new.next[i].rob_id = rob_id /\ new.next[i].op = op
          /\ \A k \in 1 .. n : k # i => new.next[k] = rs.next[k]

\* While the batch fits, res_stations_add fills a station that was free at the start of the
\* cycle.
LEMMA AddStation ==
    ASSUME NEW n \in Nat, NEW rs, IsStations(rs, n), NEW op,
           NEW qj \in {0} \cup RobIds, NEW qk \in {0} \cup RobIds, NEW vj, NEW vk, NEW a,
           NEW rob_id \in RobIds, NEW inst_pc,
           rs.added < res_stations_num_free(rs)
    PROVE  StationFilled(res_stations_add(rs, op, qj, qk, vj, vk, a, rob_id, inst_pc),
                         rs, n, rob_id, op)
<1> DEFINE station == [busy |-> TRUE, op |-> op, qj |-> qj, qk |-> qk, vj |-> vj, vk |-> vk,
                       a |-> a, rob_id |-> rob_id, inst_pc |-> inst_pc]
           i == Nth(FreeStations(rs), rs.added)
           new == res_stations_add(rs, op, qj, qk, vj, vk, a, rob_id, inst_pc)
<1>1. PICK U : rs \in StationsOf(U, n)
  BY DEF IsStations
<1> DEFINE V == U \cup {op, vj, vk, a, inst_pc}
<1>2. rs \in StationsOf(V, n)
  BY <1>1, StationsGrow
<1>3. station \in Station(V, V, RobIds)
  BY DEF Station
<1>4. /\ station.busy /\ station.rob_id = rob_id /\ station.op = op
      /\ station.qj = qj /\ station.qk = qk
  OBVIOUS
<1> HIDE DEF V
<1>5. FreeStations(rs) \in SUBSET (1 .. n) /\ rs.added \in Nat /\ rs.removed \in Nat
  BY <1>2 DEF FreeStations, StationsOf
<1>6. i \in FreeStations(rs) /\ Rank(FreeStations(rs), i) = rs.added
  BY <1>5, RankOfNth DEF res_stations_num_free
<1>7. i \in 1 .. n /\ ~rs.current[i].busy
  BY <1>5, <1>6 DEF FreeStations
<1>8. new = [rs EXCEPT !.next[i] = station, !.added = @ + 1]
  <2>1. Cardinality(FreeStations(rs)) \in Nat
    BY <1>5, RankType
  <2>2. ~(rs.added >= res_stations_num_free(rs))
    BY <1>5, <2>1 DEF res_stations_num_free
  <2> QED
    BY <2>2 DEF res_stations_add
<1> HIDE DEF station, i, new
<1> DEFINE next == [rs.next EXCEPT ![i] = station]
<1>9. /\ next \in [1 .. n -> Station(V, V, RobIds)]
      /\ next[i] = station
      /\ \A k \in 1 .. n : k # i => next[k] = rs.next[k]
  BY <1>2, <1>3, <1>7 DEF StationsOf
<1>10. new = [rs EXCEPT !.next = next, !.removed = rs.removed, !.added = rs.added + 1]
  BY <1>2, <1>8 DEF StationsOf
<1> HIDE DEF next
<1>11. rs.added + 1 \in Nat
  BY <1>5
<1>12. /\ new \in StationsOf(V, n) /\ new.current = rs.current /\ new.next = next
       /\ new.removed = rs.removed /\ new.added = rs.added + 1
  BY <1>2, <1>5, <1>9, <1>10, <1>11 DEF StationsOf
<1> QED
  <2>1. IsStations(new, n)
    BY <1>12 DEF IsStations
  <2>2. new.next[i].busy /\ new.next[i].rob_id = rob_id /\ new.next[i].op = op
    BY <1>4, <1>9, <1>12
  <2>3. \A k \in 1 .. n : k # i => new.next[k] = rs.next[k]
    BY <1>9, <1>12
  <2>4. StationFilled(new, rs, n, rob_id, op)
    BY <1>6, <1>7, <1>12, <2>1, <2>2, <2>3 DEF StationFilled
  <2> QED
    BY <2>4 DEF new

\* The parts of a pool of stations.
LEMMA StationFields ==
    ASSUME NEW n, NEW rs, IsStations(rs, n)
    PROVE  /\ DOMAIN rs.current = 1 .. n /\ DOMAIN rs.next = 1 .. n
           /\ rs.removed \in Nat /\ rs.added \in Nat
           /\ \A i \in 1 .. n :
                 /\ rs.current[i].busy \in BOOLEAN /\ rs.next[i].busy \in BOOLEAN
                 /\ {rs.next[i].qj, rs.next[i].qk} \subseteq {0} \cup RobIds
<1>1. PICK V : rs \in StationsOf(V, n)
  BY DEF IsStations
<1>2. /\ DOMAIN rs.current = 1 .. n /\ DOMAIN rs.next = 1 .. n
      /\ rs.removed \in Nat /\ rs.added \in Nat
      /\ \A i \in 1 .. n : rs.current[i] \in Station(V, V, RobIds)
                            /\ rs.next[i] \in Station(V, V, RobIds)
  BY <1>1 DEF StationsOf
<1> QED
  BY <1>2 DEF Station

\* Freeing an entry, as removal and flush do.
LEMMA FreedStation ==
    ASSUME NEW V, NEW station \in Station(V, V, RobIds)
    PROVE  LET freed == [station EXCEPT !.busy = FALSE]
           IN  /\ freed \in Station(V, V, RobIds) /\ ~freed.busy
               /\ freed.rob_id = station.rob_id /\ freed.op = station.op
  BY DEF Station

\* The station taken is free, and the others are as they were.
StationFreed(new, station, rs, n) ==
    /\ IsStations(new, n)
    /\ new.current = rs.current /\ new.removed = rs.removed + 1 /\ new.added = rs.added
    /\ \E i \in ReadyStations(rs) :
          /\ i \in 1 .. n /\ rs.current[i].busy
          /\ Rank(ReadyStations(rs), i) = rs.removed
          /\ station = rs.current[i]
          /\ ~new.next[i].busy
          /\ new.next[i].rob_id = rs.next[i].rob_id /\ new.next[i].op = rs.next[i].op
          /\ \A k \in 1 .. n : k # i => new.next[k] = rs.next[k]

\* res_stations_remove frees one station that was ready at the start of the cycle, the next
\* that no unit has taken.
LEMMA RemoveStation ==
    ASSUME NEW n \in Nat, NEW rs, IsStations(rs, n), res_stations_has_ready(rs)
    PROVE  StationFreed(res_stations_remove(rs), res_stations_ready(rs), rs, n)
<1> DEFINE i == Nth(ReadyStations(rs), rs.removed)
           new == res_stations_remove(rs)
<1>1. PICK V : rs \in StationsOf(V, n)
  BY DEF IsStations
<1>2. ReadyStations(rs) \in SUBSET (1 .. n) /\ rs.removed \in Nat
  BY <1>1 DEF ReadyStations, StationsOf
<1>3. i \in ReadyStations(rs) /\ Rank(ReadyStations(rs), i) = rs.removed
  BY <1>2, RankOfNth DEF res_stations_has_ready
<1>4. i \in 1 .. n /\ rs.current[i].busy
  BY <1>2, <1>3 DEF ReadyStations
<1>5. res_stations_ready(rs) = rs.current[i]
  BY DEF res_stations_ready
<1>6. new = [rs EXCEPT !.next[i].busy = FALSE, !.removed = @ + 1]
  BY DEF res_stations_remove
<1> HIDE DEF i, new
<1> DEFINE freed == [rs.next[i] EXCEPT !.busy = FALSE]
           next == [rs.next EXCEPT ![i] = freed]
<1>7. /\ rs.next[i] \in Station(V, V, RobIds) /\ rs.current[i] \in Station(V, V, RobIds)
      /\ rs.next \in [1 .. n -> Station(V, V, RobIds)]
  BY <1>1, <1>4 DEF StationsOf
<1>8. /\ freed \in Station(V, V, RobIds) /\ ~freed.busy
      /\ freed.rob_id = rs.next[i].rob_id /\ freed.op = rs.next[i].op
  BY <1>7, FreedStation
<1>9. new = [rs EXCEPT !.next = next, !.removed = rs.removed + 1]
  BY <1>1, <1>6 DEF StationsOf
<1> HIDE DEF freed
<1>10. /\ next \in [1 .. n -> Station(V, V, RobIds)] /\ next[i] = freed
       /\ \A k \in 1 .. n : k # i => next[k] = rs.next[k]
  BY <1>4, <1>7, <1>8
<1> HIDE DEF next
<1>11. /\ new \in StationsOf(V, n) /\ new.current = rs.current /\ new.next = next
       /\ new.removed = rs.removed + 1 /\ new.added = rs.added
  <2>1. rs.removed + 1 \in Nat
    BY <1>2
  <2> QED
    BY <1>1, <1>9, <1>10, <2>1 DEF StationsOf
<1>12. IsStations(new, n)
  BY <1>11 DEF IsStations
<1>13. ~new.next[i].busy /\ new.next[i].rob_id = rs.next[i].rob_id /\ new.next[i].op = rs.next[i].op
  BY <1>8, <1>10, <1>11
<1>14. \A k \in 1 .. n : k # i => new.next[k] = rs.next[k]
  BY <1>10, <1>11
<1>15. StationFreed(new, res_stations_ready(rs), rs, n)
  BY <1>3, <1>4, <1>5, <1>11, <1>12, <1>13, <1>14 DEF StationFreed
<1> QED
  BY <1>15 DEF new

\* What an entry takes from the bus changes neither who it is nor whether it is busy.
LEMMA CapturedStation ==
    ASSUME NEW V, NEW station \in Station(V, V, RobIds), NEW bus \in Bus(V)
    PROVE  LET new == Captured(station, bus)
           IN  /\ new \in Station(V, V, RobIds)
               /\ new.busy = station.busy
               /\ new.rob_id = station.rob_id /\ new.op = station.op
               /\ new.qj # 0 => new.qj = station.qj
               /\ new.qk # 0 => new.qk = station.qk
               /\ new.busy => /\ new.qj # 0 => ~cdb_is_val_ready(bus, new.qj)
                              /\ new.qk # 0 => ~cdb_is_val_ready(bus, new.qk)
<1> DEFINE j == station.qj # 0 /\ cdb_is_val_ready(bus, station.qj)
           k == station.qk # 0 /\ cdb_is_val_ready(bus, station.qk)
           vj == cdb_get_val(bus, station.qj)
           vk == cdb_get_val(bus, station.qk)
           both == [station EXCEPT !.vj = IF j THEN vj ELSE @, !.qj = IF j THEN 0 ELSE @,
                                   !.vk = IF k THEN vk ELSE @, !.qk = IF k THEN 0 ELSE @]
<1>1. Captured(station, bus) = IF ~station.busy THEN station ELSE both
  BY DEF Captured
<1>2. (j => vj \in V) /\ (k => vk \in V)
  BY GetValType
<1> HIDE DEF j, k, vj, vk
<1>3. /\ both \in Station(V, V, RobIds)
      /\ both.busy = station.busy
      /\ both.rob_id = station.rob_id /\ both.op = station.op
      /\ both.qj = (IF j THEN 0 ELSE station.qj)
      /\ both.qk = (IF k THEN 0 ELSE station.qk)
  BY <1>2 DEF Station
<1> HIDE DEF both
<1> QED
  BY <1>1, <1>3 DEF j, k

\* A flush frees all entries; the end of a cycle makes the next copy current.
LEMMA StepStations ==
    ASSUME NEW n \in Nat, NEW rs, IsStations(rs, n), NEW V, NEW bus \in Bus(V)
    PROVE  LET new == res_stations_step(rs, bus)
           IN  /\ IsStations(new, n)
               /\ new.current = rs.current
               /\ new.removed = rs.removed /\ new.added = rs.added
               /\ \A i \in 1 .. n : new.next[i] = Captured(rs.next[i], bus)
<1>1. PICK U : rs \in StationsOf(U, n)
  BY DEF IsStations
<1> DEFINE W == U \cup V
           next == [i \in 1 .. n |-> Captured(rs.next[i], bus)]
           new == res_stations_step(rs, bus)
<1>2. rs \in StationsOf(W, n) /\ bus \in Bus(W)
  <2>1. rs \in StationsOf(W, n)
    BY <1>1, StationsGrow
  <2>2. bus \in Bus(W)
    BY BusGrow
  <2> QED
    BY <2>1, <2>2
<1> HIDE DEF W
<1>3. ASSUME NEW i \in 1 .. n PROVE Captured(rs.next[i], bus) \in Station(W, W, RobIds)
  <2>1. rs.next[i] \in Station(W, W, RobIds)
    BY <1>2 DEF StationsOf
  <2> QED
    BY <1>2, <2>1, CapturedStation
<1>4. new = [rs EXCEPT !.next = next]
  BY <1>2 DEF res_stations_step, StationsOf
<1>5. next \in [1 .. n -> Station(W, W, RobIds)]
      /\ \A i \in 1 .. n : next[i] = Captured(rs.next[i], bus)
  BY <1>3
<1> HIDE DEF next, new
<1>6. /\ new \in StationsOf(W, n)
      /\ new.current = rs.current /\ new.next = next
      /\ new.removed = rs.removed /\ new.added = rs.added
  BY <1>2, <1>4, <1>5 DEF StationsOf
<1> QED
  BY <1>5, <1>6 DEF new, IsStations

\* res_stations_clear frees every station.
LEMMA ClearStations ==
    ASSUME NEW n \in Nat, NEW rs, IsStations(rs, n)
    PROVE  LET new == res_stations_clear(rs)
           IN  /\ IsStations(new, n)
               /\ \A i \in 1 .. n : ~new.next[i].busy
<1>1. PICK V : rs \in StationsOf(V, n)
  BY DEF IsStations
<1> DEFINE next == [i \in 1 .. n |-> [rs.next[i] EXCEPT !.busy = FALSE]]
           new == res_stations_clear(rs)
<1>2. ASSUME NEW i \in 1 .. n
      PROVE  [rs.next[i] EXCEPT !.busy = FALSE] \in Station(V, V, RobIds)
             /\ ~[rs.next[i] EXCEPT !.busy = FALSE].busy
  <2>1. rs.next[i] \in Station(V, V, RobIds)
    BY <1>1 DEF StationsOf
  <2> QED
    BY <2>1, FreedStation
<1>3. new = [rs EXCEPT !.next = next]
  BY <1>1 DEF res_stations_clear, StationsOf
<1>4. next \in [1 .. n -> Station(V, V, RobIds)] /\ \A i \in 1 .. n : ~next[i].busy
  BY <1>2
<1> HIDE DEF next, new
<1>5. new \in StationsOf(V, n) /\ new.next = next
  BY <1>1, <1>3, <1>4 DEF StationsOf
<1> QED
  BY <1>4, <1>5 DEF new, IsStations

\* res_stations_update_current makes the current copy equal to the next.
LEMMA UpdateStations ==
    ASSUME NEW n \in Nat, NEW rs, IsStations(rs, n)
    PROVE  LET new == res_stations_update_current(rs)
           IN  /\ IsStations(new, n)
               /\ new.current = rs.next /\ new.next = rs.next
               /\ new.removed = 0 /\ new.added = 0
<1>1. PICK V : rs \in StationsOf(V, n)
  BY DEF IsStations
<1> QED
  BY <1>1 DEF res_stations_update_current, StationsOf, IsStations

-----------------------------------------------------------------------------

(* Who is in a pool of reservation stations, step by step. *)

\* Who is in a pool.
LEMMA PoolMember ==
    ASSUME NEW name, NEW pool, NEW h
    PROVE  h \in InPool(name, pool) <=>
               \E i \in DOMAIN pool : pool[i].busy /\ h = Holder(name, i, pool[i].rob_id, pool[i].op)
  BY DEF InPool

\* What an instruction's arrival in a pool, or its departure, does to the pool.
StationEnters(new, rs, n, id, op) ==
    /\ IsStations(new, n) /\ StationsInStep(new)
    /\ new.current = rs.current /\ new.added = rs.added + 1
    /\ \A name : Joins(new.next, rs.next, name, id, op)

StationLeaves(new, rs, n, id, op) ==
    /\ IsStations(new, n) /\ StationsInStep(new)
    /\ new.current = rs.current /\ new.added = rs.added
    /\ \A name : Departs(new.next, rs.next, name, id, op)

\* An entry is added to a free place.
LEMMA EnterStations ==
    ASSUME NEW n \in Nat, NEW rs, IsStations(rs, n), StationsInStep(rs), NEW op,
           NEW qj \in {0} \cup RobIds, NEW qk \in {0} \cup RobIds, NEW vj, NEW vk, NEW a,
           NEW rob_id \in RobIds, NEW inst_pc,
           rs.added < res_stations_num_free(rs)
    PROVE  StationEnters(res_stations_add(rs, op, qj, qk, vj, vk, a, rob_id, inst_pc),
                         rs, n, rob_id, op)
<1> DEFINE new == res_stations_add(rs, op, qj, qk, vj, vk, a, rob_id, inst_pc)
           free == FreeStations(rs)
<1>0. StationFilled(new, rs, n, rob_id, op)
  BY AddStation
<1> HIDE DEF new
<1>1. /\ IsStations(new, n)
      /\ new.current = rs.current /\ new.removed = rs.removed /\ new.added = rs.added + 1
      /\ \E i \in 1 .. n :
            /\ i \in free /\ Rank(free, i) = rs.added
            /\ ~rs.current[i].busy
            /\ new.next[i].busy
            /\ new.next[i].rob_id = rob_id /\ new.next[i].op = op
            /\ \A k \in 1 .. n : k # i => new.next[k] = rs.next[k]
  BY <1>0 DEF StationFilled
<1>2. PICK i \in 1 .. n :
            /\ i \in free /\ Rank(free, i) = rs.added
            /\ ~rs.current[i].busy
            /\ new.next[i].busy
            /\ new.next[i].rob_id = rob_id /\ new.next[i].op = op
            /\ \A k \in 1 .. n : k # i => new.next[k] = rs.next[k]
  BY <1>1
<1>3. /\ DOMAIN rs.current = 1 .. n /\ DOMAIN rs.next = 1 .. n /\ DOMAIN new.next = 1 .. n
      /\ rs.added \in Nat
  BY <1>1, StationFields
<1>4. ReadyStations(new) = ReadyStations(rs) /\ FreeStations(new) = free
  BY <1>1 DEF ReadyStations, FreeStations
<1>5. \A k : Rank(free, k) \in Nat
  <2>1. free \in SUBSET (1 .. n)
    BY <1>3 DEF FreeStations
  <2> QED
    BY <2>1, RankType
<1>6. StationsInStep(new)
  <2> SUFFICES ASSUME NEW k \in 1 .. n
               PROVE IF rs.current[k].busy
                     THEN /\ new.next[k].rob_id = rs.current[k].rob_id
                          /\ new.next[k].op = rs.current[k].op
                          /\ ~new.next[k].busy =>
                               k \in ReadyStations(rs) /\ Rank(ReadyStations(rs), k) < rs.removed
                     ELSE new.next[k].busy => Rank(free, k) < rs.added + 1
    BY <1>1, <1>3, <1>4 DEF StationsInStep
  <2> HIDE DEF free
  <2>1. CASE k = i
    BY <2>1, <1>2, <1>3
  <2>2. CASE k # i
    BY <2>2, <1>2, <1>3, <1>5 DEF StationsInStep, free
  <2> QED
    BY <2>1, <2>2
<1>7. ~rs.next[i].busy
  BY <1>2, <1>3 DEF StationsInStep
<1>8. ASSUME NEW name
      PROVE  Gains(InPool(name, new.next), InPool(name, rs.next), Holder(name, i, rob_id, op))
  BY <1>2, <1>3, <1>7, PoolMember, HolderParts DEF Gains
<1> QED
  BY <1>1, <1>6, <1>8 DEF new, Joins, StationEnters

\* What a functional unit is given leaves its place.
LEMMA LeaveStations ==
    ASSUME NEW n \in Nat, NEW rs, IsStations(rs, n), StationsInStep(rs),
           res_stations_has_ready(rs)
    PROVE  StationLeaves(res_stations_remove(rs), rs, n,
                         res_stations_ready(rs).rob_id, res_stations_ready(rs).op)
<1> DEFINE new == res_stations_remove(rs)
           station == res_stations_ready(rs)
           chosen == ReadyStations(rs)
<1>0. StationFreed(new, station, rs, n)
  BY RemoveStation
<1> HIDE DEF new, station
<1>1. /\ IsStations(new, n)
      /\ new.current = rs.current /\ new.removed = rs.removed + 1 /\ new.added = rs.added
      /\ \E i \in chosen :
            /\ i \in 1 .. n /\ rs.current[i].busy
            /\ Rank(chosen, i) = rs.removed
            /\ station = rs.current[i]
            /\ ~new.next[i].busy
            /\ new.next[i].rob_id = rs.next[i].rob_id /\ new.next[i].op = rs.next[i].op
            /\ \A k \in 1 .. n : k # i => new.next[k] = rs.next[k]
  BY <1>0 DEF StationFreed
<1>2. PICK i \in chosen :
            /\ i \in 1 .. n /\ rs.current[i].busy
            /\ Rank(chosen, i) = rs.removed
            /\ station = rs.current[i]
            /\ ~new.next[i].busy
            /\ new.next[i].rob_id = rs.next[i].rob_id /\ new.next[i].op = rs.next[i].op
            /\ \A k \in 1 .. n : k # i => new.next[k] = rs.next[k]
  BY <1>1
<1>3. /\ DOMAIN rs.current = 1 .. n /\ DOMAIN rs.next = 1 .. n /\ DOMAIN new.next = 1 .. n
      /\ rs.removed \in Nat
  BY <1>1, StationFields
<1>4. ReadyStations(new) = chosen /\ FreeStations(new) = FreeStations(rs)
  BY <1>1 DEF ReadyStations, FreeStations
<1>5. \A k : Rank(chosen, k) \in Nat
  <2>1. chosen \in SUBSET (1 .. n)
    BY <1>3 DEF ReadyStations
  <2> QED
    BY <2>1, RankType
<1>6. i \in chosen
  OBVIOUS
<1> HIDE DEF chosen
<1>7. /\ rs.next[i].busy
      /\ rs.next[i].rob_id = station.rob_id /\ rs.next[i].op = station.op
  BY <1>2, <1>3 DEF StationsInStep, chosen
<1>8. StationsInStep(new)
  <2> SUFFICES ASSUME NEW k \in 1 .. n
               PROVE IF rs.current[k].busy
                     THEN /\ new.next[k].rob_id = rs.current[k].rob_id
                          /\ new.next[k].op = rs.current[k].op
                          /\ ~new.next[k].busy =>
                               k \in chosen /\ Rank(chosen, k) < rs.removed + 1
                     ELSE new.next[k].busy => Rank(FreeStations(rs), k) < rs.added
    BY <1>1, <1>3, <1>4 DEF StationsInStep
  <2>1. CASE k = i
    BY <2>1, <1>2, <1>3, <1>6, <1>7
  <2>2. CASE k # i
    BY <2>2, <1>2, <1>3, <1>5 DEF StationsInStep, chosen
  <2> QED
    BY <2>1, <2>2
<1>10. ASSUME NEW name
       PROVE  Loses(InPool(name, new.next), InPool(name, rs.next),
                    Holder(name, i, station.rob_id, station.op))
  <2> DEFINE h == Holder(name, i, station.rob_id, station.op)
  <2>1. h \in InPool(name, rs.next)
    BY <1>3, <1>7, <1>2, PoolMember
  <2>2. \A g \in InPool(name, new.next) : g \in InPool(name, rs.next) /\ g # h
    BY <1>2, <1>3, PoolMember, HolderParts
  <2>3. \A g \in InPool(name, rs.next) : g # h => g \in InPool(name, new.next)
    BY <1>2, <1>3, <1>7, PoolMember
  <2> QED
    BY <2>1, <2>2, <2>3 DEF Loses
<1> QED
  BY <1>1, <1>8, <1>10 DEF new, station, Departs, StationLeaves

\* What capture, flush and the end of the cycle do to them.
StationsStay(new, rs, n) ==
    /\ IsStations(new, n)
    /\ StationsInStep(rs) => StationsInStep(new)
    /\ \A name : InPool(name, new.next) = InPool(name, rs.next)

StationsEmptied(new, n) == IsStations(new, n) /\ \A name : InPool(name, new.next) = {}

StationsTurned(new, rs, n) ==
    /\ IsStations(new, n) /\ StationsInStep(new)
    /\ new.current = new.next /\ new.added = 0
    /\ \A name : InPool(name, new.next) = InPool(name, rs.next)

\* Nobody moves when operands arrive, or when a cycle ends.
LEMMA StayInStations ==
    ASSUME NEW n \in Nat, NEW rs, IsStations(rs, n)
    PROVE  /\ \A bus : IsBus(bus) => StationsStay(res_stations_step(rs, bus), rs, n)
           /\ StationsEmptied(res_stations_clear(rs), n)
           /\ StationsTurned(res_stations_update_current(rs), rs, n)
<1>1. ASSUME NEW V, NEW bus \in Bus(V)
      PROVE  StationsStay(res_stations_step(rs, bus), rs, n)
  <2> DEFINE new == res_stations_step(rs, bus)
  <2>1. /\ IsStations(new, n)
        /\ new.current = rs.current
        /\ new.removed = rs.removed /\ new.added = rs.added
        /\ \A i \in 1 .. n : new.next[i] = Captured(rs.next[i], bus)
    BY StepStations
  <2> HIDE DEF new
  <2>2. \A i \in 1 .. n : /\ new.next[i].busy = rs.next[i].busy
                          /\ new.next[i].rob_id = rs.next[i].rob_id
                          /\ new.next[i].op = rs.next[i].op
    <3>1. PICK U : rs \in StationsOf(U, n)
      BY DEF IsStations
    <3> DEFINE W == U \cup V
    <3>2. rs \in StationsOf(W, n) /\ bus \in Bus(W)
      BY <3>1, StationsGrow, BusGrow
    <3> HIDE DEF W
    <3>3. \A i \in 1 .. n : rs.next[i] \in Station(W, W, RobIds)
      BY <3>2 DEF StationsOf
    <3> QED
      BY <2>1, <3>2, <3>3, CapturedStation
  <2>3. /\ DOMAIN rs.current = 1 .. n /\ DOMAIN rs.next = 1 .. n /\ DOMAIN new.next = 1 .. n
    BY <2>1, StationFields
  <2>4. ReadyStations(new) = ReadyStations(rs) /\ FreeStations(new) = FreeStations(rs)
    BY <2>1 DEF ReadyStations, FreeStations
  <2>5. StationsInStep(rs) => StationsInStep(new)
    BY <2>1, <2>2, <2>3, <2>4 DEF StationsInStep
  <2>6. ASSUME NEW name PROVE InPool(name, new.next) = InPool(name, rs.next)
    <3>1. ASSUME NEW h PROVE h \in InPool(name, new.next) <=> h \in InPool(name, rs.next)
      BY <2>2, <2>3, PoolMember
    <3> QED
      BY <3>1
  <2> QED
    BY <2>1, <2>5, <2>6 DEF new, StationsStay
<1>2. StationsEmptied(res_stations_clear(rs), n)
  <2> DEFINE new == res_stations_clear(rs)
  <2>1. IsStations(new, n) /\ \A i \in 1 .. n : ~new.next[i].busy
    BY ClearStations
  <2> HIDE DEF new
  <2>2. DOMAIN new.next = 1 .. n
    BY <2>1, StationFields
  <2>3. ASSUME NEW name PROVE InPool(name, new.next) = {}
    BY <2>1, <2>2 DEF InPool
  <2> QED
    BY <2>1, <2>3 DEF new, StationsEmptied
<1>3. StationsTurned(res_stations_update_current(rs), rs, n)
  <2> DEFINE new == res_stations_update_current(rs)
  <2>1. IsStations(new, n) /\ new.current = rs.next /\ new.next = rs.next /\ new.added = 0
    BY UpdateStations
  <2> HIDE DEF new
  <2>2. StationsInStep(new)
    BY <2>1 DEF StationsInStep
  <2> QED
    BY <2>1, <2>2 DEF new, StationsTurned
<1> QED
  BY <1>1, <1>2, <1>3 DEF IsBus
-----------------------------------------------------------------------------

(* Memory buffers. *)

Buffer(V) ==
    [busy : BOOLEAN, op : V, qj : {0} \cup RobIds, qk : {0} \cup RobIds,
     vj : V, vk : V, a : V, rob_id : {0} \cup RobIds, queue_pos : Int]

BuffersOf(V, n) ==
    [current : [1 .. n -> Buffer(V)], next : [1 .. n -> Buffer(V)],
     num_in_queue_current : Int, num_in_queue_next : Int,
     count_address : Nat, count_memory : Nat, count_enqueue : Nat]

IsBuffers(buffers, n) == \E V : buffers \in BuffersOf(V, n)

\* The buffers address_candidate would offer before buffer i.
SentBefore(buffers, i) ==
    Cardinality({k \in ToAddressUnit(buffers) :
                    buffers.current[k].queue_pos < buffers.current[i].queue_pos})

\* Buffer i has been given to a memory unit, or to an address unit, in this cycle.
GivenAway(buffers, r, i) ==
    \/ /\ i \in LoadsToMemory(buffers, r)
       /\ Rank(LoadsToMemory(buffers, r), i) < buffers.count_memory
    \/ /\ i \in ToAddressUnit(buffers)
       /\ SentBefore(buffers, i) < buffers.count_address

\* As StationsInStep; r is the reorder buffer.
BuffersInStep(buffers, r) ==
    \A i \in DOMAIN buffers.current :
        IF buffers.current[i].busy
        THEN /\ buffers.next[i].rob_id = buffers.current[i].rob_id
             /\ buffers.next[i].op = buffers.current[i].op
             /\ ~buffers.next[i].busy => GivenAway(buffers, r, i)
        ELSE buffers.next[i].busy => Rank(FreeBuffers(buffers), i) < buffers.count_enqueue

\* Buffers of some values are buffers of any larger set of values.
LEMMA BuffersGrow ==
    ASSUME NEW n, NEW V, NEW W, V \subseteq W, NEW buffers \in BuffersOf(V, n)
    PROVE  buffers \in BuffersOf(W, n)
<1>1. Buffer(V) \subseteq Buffer(W)
  BY DEF Buffer
<1> QED
  BY <1>1 DEF BuffersOf

\* The parts of the memory buffers.
LEMMA BufferFields ==
    ASSUME NEW n, NEW buffers, IsBuffers(buffers, n)
    PROVE  /\ DOMAIN buffers.current = 1 .. n /\ DOMAIN buffers.next = 1 .. n
           /\ buffers.count_address \in Nat /\ buffers.count_memory \in Nat
           /\ buffers.count_enqueue \in Nat
           /\ \A i \in 1 .. n :
                 /\ buffers.current[i].busy \in BOOLEAN /\ buffers.next[i].busy \in BOOLEAN
                 /\ {buffers.next[i].qj, buffers.next[i].qk} \subseteq {0} \cup RobIds
<1>1. PICK V : buffers \in BuffersOf(V, n)
  BY DEF IsBuffers
<1>2. /\ DOMAIN buffers.current = 1 .. n /\ DOMAIN buffers.next = 1 .. n
      /\ buffers.count_address \in Nat /\ buffers.count_memory \in Nat
      /\ buffers.count_enqueue \in Nat
      /\ \A i \in 1 .. n : buffers.current[i] \in Buffer(V) /\ buffers.next[i] \in Buffer(V)
  BY <1>1 DEF BuffersOf
<1> QED
  BY <1>2 DEF Buffer

\* How many come before a buffer is a number.
LEMMA CountsType ==
    ASSUME NEW n \in Nat, NEW buffers, IsBuffers(buffers, n), NEW r
    PROVE  /\ \A i : /\ Rank(LoadsToMemory(buffers, r), i) \in Nat
                     /\ Rank(FreeBuffers(buffers), i) \in Nat
                     /\ SentBefore(buffers, i) \in Nat
           /\ LoadsToMemory(buffers, r) \in SUBSET (1 .. n)
           /\ FreeBuffers(buffers) \in SUBSET (1 .. n)
           /\ ToAddressUnit(buffers) \in SUBSET (1 .. n)
<1>1. DOMAIN buffers.current = 1 .. n
  BY BufferFields
<1>2. /\ LoadsToMemory(buffers, r) \in SUBSET (1 .. n)
      /\ FreeBuffers(buffers) \in SUBSET (1 .. n)
      /\ ToAddressUnit(buffers) \in SUBSET (1 .. n)
  BY <1>1 DEF LoadsToMemory, FreeBuffers, ToAddressUnit, Queued
<1>3. IsFiniteSet(1 .. n)
  BY FS_Interval
<1>4. \A i : SentBefore(buffers, i) \in Nat
  <2> TAKE i
  <2> DEFINE before == {k \in ToAddressUnit(buffers) :
                           buffers.current[k].queue_pos < buffers.current[i].queue_pos}
  <2>1. before \in SUBSET (1 .. n)
    BY <1>2
  <2> HIDE DEF before
  <2>2. Cardinality(before) \in Nat
    BY <1>3, <2>1, FS_Subset, FS_CardinalityType
  <2> QED
    BY <2>2 DEF SentBefore, before
<1> QED
  BY <1>2, <1>4, RankType

\* What has been given away stays so while the counters grow.
LEMMA GivenStaysGiven ==
    ASSUME NEW n \in Nat, NEW buffers, IsBuffers(buffers, n), NEW new, IsBuffers(new, n), NEW r,
           new.current = buffers.current,
           new.count_memory >= buffers.count_memory,
           new.count_address >= buffers.count_address,
           NEW k, GivenAway(buffers, r, k)
    PROVE  GivenAway(new, r, k)
<1>1. /\ LoadsToMemory(new, r) = LoadsToMemory(buffers, r)
      /\ ToAddressUnit(new) = ToAddressUnit(buffers)
      /\ SentBefore(new, k) = SentBefore(buffers, k)
  BY DEF LoadsToMemory, ToAddressUnit, Queued, SentBefore
<1>2. /\ Rank(LoadsToMemory(buffers, r), k) \in Nat /\ SentBefore(buffers, k) \in Nat
      /\ buffers.count_memory \in Nat /\ new.count_memory \in Nat
      /\ buffers.count_address \in Nat /\ new.count_address \in Nat
  BY CountsType, BufferFields
<1> QED
  BY <1>1, <1>2 DEF GivenAway

\* A change that keeps everyone in place, but for the busy bit of buffer i.
OnlyFrees(buffers, new, n, i, r) ==
    /\ IsBuffers(buffers, n) /\ BuffersInStep(buffers, r) /\ IsBuffers(new, n)
    /\ i \in 1 .. n
    /\ new.current = buffers.current
    /\ new.count_enqueue = buffers.count_enqueue
    /\ \A k \in 1 .. n : /\ new.next[k].rob_id = buffers.next[k].rob_id
                         /\ new.next[k].op = buffers.next[k].op
                         /\ k # i => new.next[k].busy = buffers.next[k].busy
                         /\ GivenAway(buffers, r, k) => GivenAway(new, r, k)
    /\ \/ new.next[i].busy = buffers.next[i].busy
       \/ ~new.next[i].busy /\ buffers.current[i].busy /\ GivenAway(new, r, i)

\* What it does to the bookkeeping and to who is in the buffers.
LEMMA ChangeBuffer ==
    ASSUME NEW n \in Nat, NEW buffers, NEW new, NEW i, NEW r, NEW name,
           OnlyFrees(buffers, new, n, i, r)
    PROVE  /\ BuffersInStep(new, r)
           /\ new.next[i].busy = buffers.next[i].busy
                  => InPool(name, new.next) = InPool(name, buffers.next)
           /\ new.next[i].busy # buffers.next[i].busy
                  => Loses(InPool(name, new.next), InPool(name, buffers.next),
                           Holder(name, i, buffers.next[i].rob_id, buffers.next[i].op))
<1> USE DEF OnlyFrees
<1>1. /\ DOMAIN buffers.current = 1 .. n /\ DOMAIN buffers.next = 1 .. n /\ DOMAIN new.next = 1 .. n
      /\ \A k \in 1 .. n : new.next[k].busy \in BOOLEAN /\ buffers.next[k].busy \in BOOLEAN
  BY BufferFields
<1>2. FreeBuffers(new) = FreeBuffers(buffers)
  BY DEF FreeBuffers
<1>3. \A k \in 1 .. n : GivenAway(buffers, r, k) => GivenAway(new, r, k)
  OBVIOUS
<1>4. BuffersInStep(new, r)
  <2> SUFFICES ASSUME NEW k \in 1 .. n
               PROVE IF buffers.current[k].busy
                     THEN /\ new.next[k].rob_id = buffers.current[k].rob_id
                          /\ new.next[k].op = buffers.current[k].op
                          /\ ~new.next[k].busy => GivenAway(new, r, k)
                     ELSE new.next[k].busy => Rank(FreeBuffers(buffers), k) < buffers.count_enqueue
    BY <1>1, <1>2 DEF BuffersInStep
  <2>1. IF buffers.current[k].busy
        THEN /\ buffers.next[k].rob_id = buffers.current[k].rob_id
             /\ buffers.next[k].op = buffers.current[k].op
             /\ ~buffers.next[k].busy => GivenAway(buffers, r, k)
        ELSE buffers.next[k].busy => Rank(FreeBuffers(buffers), k) < buffers.count_enqueue
    BY <1>1 DEF BuffersInStep
  <2> QED
    BY <1>1, <1>3, <2>1
<1>5. CASE new.next[i].busy = buffers.next[i].busy
  <2>1. ASSUME NEW h PROVE h \in InPool(name, new.next) <=> h \in InPool(name, buffers.next)
    BY <1>1, <1>5, PoolMember
  <2> QED
    BY <1>4, <1>5, <2>1
<1>6. CASE ~new.next[i].busy /\ new.next[i].busy # buffers.next[i].busy
  <2> DEFINE h == Holder(name, i, buffers.next[i].rob_id, buffers.next[i].op)
  <2>1. h \in InPool(name, buffers.next)
    BY <1>1, <1>6, PoolMember
  <2>2. \A g : g \in InPool(name, new.next) <=> g \in InPool(name, buffers.next) /\ g # h
    BY <1>1, <1>6, PoolMember, HolderParts
  <2> QED
    BY <1>4, <1>6, <2>1, <2>2 DEF Loses
<1> QED
  BY <1>5, <1>6
\* What the code writes into a buffer leaves it a buffer of the same instruction.
LEMMA FreedBuffer ==
    ASSUME NEW V, NEW buffer \in Buffer(V)
    PROVE  LET new == [buffer EXCEPT !.busy = FALSE]
           IN  new \in Buffer(V) /\ ~new.busy /\ new.rob_id = buffer.rob_id /\ new.op = buffer.op
  BY DEF Buffer

WithAddress(buffer, address) == [buffer EXCEPT !.a = address, !.queue_pos = 0]

\* Giving a buffer its address leaves its instruction alone.
LEMMA AddressedBuffer ==
    ASSUME NEW V, NEW buffer \in Buffer(V), NEW address \in V
    PROVE  LET new == WithAddress(buffer, address)
           IN  /\ new \in Buffer(V) /\ new.busy = buffer.busy
               /\ new.rob_id = buffer.rob_id /\ new.op = buffer.op
<1> DEFINE pos == 0
<1>1. pos \in Int
  OBVIOUS
<1> HIDE DEF pos
<1>2. LET new == [buffer EXCEPT !.a = address, !.queue_pos = pos]
      IN  /\ new \in Buffer(V) /\ new.busy = buffer.busy
          /\ new.rob_id = buffer.rob_id /\ new.op = buffer.op
  BY <1>1 DEF Buffer
<1> QED
  BY <1>2 DEF pos, WithAddress

MovedUp(buffer) == [buffer EXCEPT !.queue_pos = @ - 1]

\* Moving up in the queue leaves the instruction alone.
LEMMA MovedBuffer ==
    ASSUME NEW V, NEW buffer \in Buffer(V)
    PROVE  LET new == MovedUp(buffer)
           IN  /\ new \in Buffer(V) /\ new.busy = buffer.busy
               /\ new.rob_id = buffer.rob_id /\ new.op = buffer.op
<1> DEFINE pos == buffer.queue_pos - 1
<1>1. pos \in Int
  BY DEF Buffer
<1>2. MovedUp(buffer) = [buffer EXCEPT !.queue_pos = pos]
  BY DEF Buffer, MovedUp
<1> HIDE DEF pos
<1> QED
  BY <1>1, <1>2 DEF Buffer

\* memory_buffers_init builds empty buffers.
LEMMA InitBuffers ==
    ASSUME NEW n \in Nat, NEW r, NEW name
    PROVE  LET new == memory_buffers_init(n)
           IN  /\ IsBuffers(new, n) /\ BuffersInStep(new, r)
               /\ InPool(name, new.next) = {} /\ new.count_enqueue = 0
<1> DEFINE buffer == [busy |-> FALSE, op |-> "LW", qj |-> 0, qk |-> 0, vj |-> 0, vk |-> 0,
                      a |-> 0, rob_id |-> 0, queue_pos |-> 0]
           V == {0, "LW"}
           pool == [i \in 1 .. n |-> buffer]
           new == memory_buffers_init(n)
<1>1. buffer \in Buffer(V) /\ ~buffer.busy
  BY DEF Buffer
<1>2. new = [current |-> pool, next |-> pool, num_in_queue_current |-> 0,
             num_in_queue_next |-> 0, count_address |-> 0, count_memory |-> 0,
             count_enqueue |-> 0]
  BY DEF memory_buffers_init
<1> HIDE DEF buffer, V
<1>3. pool \in [1 .. n -> Buffer(V)] /\ \A i \in 1 .. n : ~pool[i].busy
  BY <1>1
<1> HIDE DEF pool, new
<1>4. new \in BuffersOf(V, n) /\ new.current = pool /\ new.next = pool /\ new.count_enqueue = 0
  BY <1>2, <1>3 DEF BuffersOf
<1>5. DOMAIN pool = 1 .. n
  BY <1>3
<1>6. BuffersInStep(new, r)
  BY <1>3, <1>4, <1>5 DEF BuffersInStep
<1>7. InPool(name, pool) = {}
  BY <1>3, <1>5 DEF InPool
<1> QED
  BY <1>4, <1>6, <1>7 DEF new, IsBuffers

BufferEnters(new, buffers, n, r, id, op) ==
    /\ IsBuffers(new, n) /\ BuffersInStep(new, r)
    /\ new.current = buffers.current /\ new.count_enqueue = buffers.count_enqueue + 1
    /\ \A name : Joins(new.next, buffers.next, name, id, op)

\* A load or store enters a free buffer.
LEMMA EnterBuffers ==
    ASSUME NEW n \in Nat, NEW buffers, IsBuffers(buffers, n), NEW r, BuffersInStep(buffers, r),
           NEW op, NEW qj \in {0} \cup RobIds, NEW qk \in {0} \cup RobIds,
           NEW vj, NEW vk, NEW a, NEW rob_id \in RobIds,
           buffers.count_enqueue < memory_buffers_num_free(buffers)
    PROVE  BufferEnters(memory_buffers_enqueue(buffers, op, qj, qk, vj, vk, a, rob_id),
                        buffers, n, r, rob_id, op)
<1> DEFINE buffer == [busy |-> TRUE, op |-> op, qj |-> qj, qk |-> qk, vj |-> vj, vk |-> vk,
                      a |-> a, rob_id |-> rob_id,
                      queue_pos |-> buffers.num_in_queue_current + 1 + buffers.count_enqueue]
           free == FreeBuffers(buffers)
           i == Nth(free, buffers.count_enqueue)
           new == memory_buffers_enqueue(buffers, op, qj, qk, vj, vk, a, rob_id)
<1>1. PICK U : buffers \in BuffersOf(U, n)
  BY DEF IsBuffers
<1> DEFINE V == U \cup {op, vj, vk, a}
<1>2. buffers \in BuffersOf(V, n)
  BY <1>1, BuffersGrow
<1>3. buffer \in Buffer(V) /\ buffer.busy /\ buffer.rob_id = rob_id /\ buffer.op = op
  <2>1. buffers.num_in_queue_current \in Int /\ buffers.count_enqueue \in Nat
    BY <1>1 DEF BuffersOf
  <2>2. buffers.num_in_queue_current + 1 + buffers.count_enqueue \in Int
    BY <2>1
  <2> QED
    BY <2>2 DEF Buffer
<1> HIDE DEF V
<1>4. /\ free \in SUBSET (1 .. n) /\ buffers.count_enqueue \in Nat
      /\ \A k : Rank(free, k) \in Nat
      /\ Cardinality(free) \in Nat
  BY CountsType, BufferFields, RankType
<1>5. i \in free /\ Rank(free, i) = buffers.count_enqueue
  BY <1>4, RankOfNth DEF memory_buffers_num_free
<1>6. i \in 1 .. n /\ ~buffers.current[i].busy
  BY <1>4, <1>5 DEF FreeBuffers
<1>7. new = [buffers EXCEPT !.next[i] = buffer, !.num_in_queue_next = @ + 1,
                            !.count_enqueue = @ + 1]
  <2>1. ~(buffers.count_enqueue >= memory_buffers_num_free(buffers))
    BY <1>4 DEF memory_buffers_num_free
  <2> QED
    BY <2>1 DEF memory_buffers_enqueue
<1> HIDE DEF buffer, i, new
<1> DEFINE next == [buffers.next EXCEPT ![i] = buffer]
<1>8. /\ next \in [1 .. n -> Buffer(V)]
      /\ next[i] = buffer
      /\ \A k \in 1 .. n : k # i => next[k] = buffers.next[k]
  BY <1>2, <1>3, <1>6 DEF BuffersOf
<1> DEFINE queued == buffers.num_in_queue_next + 1
           enqueue == buffers.count_enqueue + 1
<1>9. new = [buffers EXCEPT !.next = next, !.num_in_queue_next = queued,
                            !.count_address = buffers.count_address,
                            !.count_memory = buffers.count_memory,
                            !.count_enqueue = enqueue]
  BY <1>2, <1>7 DEF BuffersOf
<1>10. /\ IsBuffers(new, n)
       /\ new.current = buffers.current /\ new.next = next
       /\ new.count_address = buffers.count_address /\ new.count_memory = buffers.count_memory
       /\ new.count_enqueue = enqueue
  <2>1. /\ buffers.num_in_queue_next \in Int /\ buffers.count_enqueue \in Nat
        /\ buffers.count_address \in Nat /\ buffers.count_memory \in Nat
    BY <1>2 DEF BuffersOf
  <2>2. queued \in Int /\ enqueue \in Nat
    BY <2>1
  <2> HIDE DEF next, queued, enqueue
  <2> QED
    BY <1>2, <1>8, <1>9, <2>1, <2>2 DEF BuffersOf, IsBuffers
<1> HIDE DEF next
<1>11. /\ DOMAIN buffers.current = 1 .. n /\ DOMAIN buffers.next = 1 .. n
       /\ DOMAIN new.next = 1 .. n
  BY <1>10, BufferFields
<1>12. /\ FreeBuffers(new) = free
       /\ \A k : GivenAway(new, r, k) = GivenAway(buffers, r, k)
  BY <1>10 DEF FreeBuffers, GivenAway, LoadsToMemory, ToAddressUnit, Queued, SentBefore
<1>13. BuffersInStep(new, r)
  <2> SUFFICES ASSUME NEW k \in 1 .. n
               PROVE IF buffers.current[k].busy
                     THEN /\ new.next[k].rob_id = buffers.current[k].rob_id
                          /\ new.next[k].op = buffers.current[k].op
                          /\ ~new.next[k].busy => GivenAway(buffers, r, k)
                     ELSE new.next[k].busy => Rank(free, k) < buffers.count_enqueue + 1
    BY <1>10, <1>11, <1>12 DEF BuffersInStep
  <2>1. CASE k = i
    BY <2>1, <1>4, <1>5, <1>6
  <2>2. CASE k # i
    <3>1. IF buffers.current[k].busy
          THEN /\ buffers.next[k].rob_id = buffers.current[k].rob_id
               /\ buffers.next[k].op = buffers.current[k].op
               /\ ~buffers.next[k].busy => GivenAway(buffers, r, k)
          ELSE buffers.next[k].busy => Rank(free, k) < buffers.count_enqueue
      BY <1>11 DEF BuffersInStep
    <3> HIDE DEF free
    <3> QED
      BY <2>2, <1>4, <1>8, <1>10, <3>1
  <2> QED
    BY <2>1, <2>2
<1>14. ~buffers.next[i].busy
  BY <1>4, <1>5, <1>6, <1>11 DEF BuffersInStep
<1>15. ASSUME NEW name
       PROVE  Gains(InPool(name, new.next), InPool(name, buffers.next),
                    Holder(name, i, rob_id, op))
  BY <1>3, <1>6, <1>8, <1>10, <1>11, <1>14, PoolMember, HolderParts DEF Gains
<1> QED
  BY <1>10, <1>13, <1>15 DEF new, Joins, BufferEnters
BuffersAfter(new, buffers, n, r) ==
    /\ IsBuffers(new, n) /\ BuffersInStep(new, r)
    /\ new.current = buffers.current /\ new.count_enqueue = buffers.count_enqueue

HolderOf(name, i, buffers) ==
    Holder(name, i, buffers.current[i].rob_id, buffers.current[i].op)

LoadLeaves(new, buffers, n, r, name, i) ==
    /\ BuffersAfter(new, buffers, n, r)
    /\ buffers.current[i].op \in LoadOp
    /\ Loses(InPool(name, new.next), InPool(name, buffers.next), HolderOf(name, i, buffers))

AddressLeaves(new, buffers, n, r, name, i) ==
    /\ BuffersAfter(new, buffers, n, r)
    /\ i \in 1 .. n
    /\ HolderOf(name, i, buffers) \in InPool(name, buffers.next)
    /\ IF buffers.current[i].op \in StoreOp
       THEN Loses(InPool(name, new.next), InPool(name, buffers.next), HolderOf(name, i, buffers))
       ELSE InPool(name, new.next) = InPool(name, buffers.next)

\* The load a memory unit is given leaves its buffer.
LEMMA LeaveForMemory ==
    ASSUME NEW n \in Nat, NEW buffers, IsBuffers(buffers, n), NEW r, BuffersInStep(buffers, r),
           NEW i \in memory_candidate(buffers, r), NEW name
    PROVE  LoadLeaves(memory_buffers_dequeue_memory(buffers, i), buffers, n, r, name, i)
<1> DEFINE new == memory_buffers_dequeue_memory(buffers, i)
           loads == LoadsToMemory(buffers, r)
<1>1. PICK V : buffers \in BuffersOf(V, n)
  BY DEF IsBuffers
<1>2. /\ loads \in SUBSET (1 .. n)
      /\ \A k : Rank(loads, k) \in Nat /\ SentBefore(buffers, k) \in Nat
      /\ buffers.count_memory \in Nat /\ buffers.count_address \in Nat
  BY CountsType, BufferFields
<1>3. /\ buffers.count_memory < Cardinality(loads)
      /\ i = Nth(loads, buffers.count_memory)
  BY DEF memory_candidate
<1>4. i \in loads /\ Rank(loads, i) = buffers.count_memory
  BY <1>2, <1>3, RankOfNth
<1>5. /\ i \in 1 .. n /\ buffers.current[i].busy /\ buffers.current[i].op \in LoadOp
      /\ i \notin ToAddressUnit(buffers)
  BY <1>2, <1>4 DEF LoadsToMemory, ToAddressUnit, Queued
<1> HIDE DEF loads
<1>6. /\ buffers.next[i].busy
      /\ buffers.next[i].rob_id = buffers.current[i].rob_id
      /\ buffers.next[i].op = buffers.current[i].op
  <2>1. DOMAIN buffers.current = 1 .. n
    BY BufferFields
  <2> QED
    BY <1>2, <1>4, <1>5, <2>1 DEF BuffersInStep, GivenAway, loads
<1> DEFINE freed == [buffers.next[i] EXCEPT !.busy = FALSE]
           next == [buffers.next EXCEPT ![i] = freed]
           memory == buffers.count_memory + 1
<1>7. /\ freed \in Buffer(V) /\ ~freed.busy
      /\ freed.rob_id = buffers.next[i].rob_id /\ freed.op = buffers.next[i].op
  <2>1. buffers.next[i] \in Buffer(V)
    BY <1>1, <1>5 DEF BuffersOf
  <2> QED
    BY <2>1 DEF Buffer
<1>8. new = [buffers EXCEPT !.next = next, !.count_memory = memory]
  BY <1>1 DEF memory_buffers_dequeue_memory, BuffersOf
<1> HIDE DEF freed, new
<1>9. /\ next \in [1 .. n -> Buffer(V)] /\ next[i] = freed
      /\ \A k \in 1 .. n : k # i => next[k] = buffers.next[k]
  BY <1>1, <1>5, <1>7 DEF BuffersOf
<1>10. memory \in Nat
  BY <1>2
<1> HIDE DEF next, memory
<1>11. /\ IsBuffers(new, n) /\ new.current = buffers.current /\ new.next = next
       /\ new.count_memory = memory /\ new.count_address = buffers.count_address
       /\ new.count_enqueue = buffers.count_enqueue
  BY <1>1, <1>8, <1>9, <1>10 DEF BuffersOf, IsBuffers
<1>12. GivenAway(new, r, i)
  <2>1. LoadsToMemory(new, r) = loads
    BY <1>11 DEF LoadsToMemory, loads
  <2> QED
    BY <1>2, <1>4, <1>11, <2>1 DEF GivenAway, memory
<1>13. \A k : GivenAway(buffers, r, k) => GivenAway(new, r, k)
  <2>1. new.count_memory >= buffers.count_memory /\ new.count_address >= buffers.count_address
    BY <1>2, <1>11 DEF memory
  <2> QED
    BY <1>11, <2>1, GivenStaysGiven
<1>14. /\ BuffersInStep(new, r)
       /\ new.next[i].busy = buffers.next[i].busy
              => InPool(name, new.next) = InPool(name, buffers.next)
       /\ new.next[i].busy # buffers.next[i].busy
              => Loses(InPool(name, new.next), InPool(name, buffers.next),
                       Holder(name, i, buffers.next[i].rob_id, buffers.next[i].op))
  <2>1. OnlyFrees(buffers, new, n, i, r)
    BY <1>5, <1>7, <1>9, <1>11, <1>12, <1>13 DEF OnlyFrees
  <2> QED
    BY <2>1, ChangeBuffer
<1>15. Holder(name, i, buffers.next[i].rob_id, buffers.next[i].op) \in InPool(name, buffers.next)
  BY <1>5, <1>6, BufferFields, PoolMember
<1> QED
  BY <1>5, <1>6, <1>7, <1>9, <1>11, <1>14, <1>15 DEF new, LoadLeaves, BuffersAfter, HolderOf

\* Those behind move up, but nobody else leaves.
LEMMA ShiftedBuffers ==
    ASSUME NEW n \in Nat, NEW V, NEW buffers \in BuffersOf(V, n), NEW pos
    PROVE  LET new == shift_queue(buffers, pos)
           IN  /\ new \in BuffersOf(V, n)
               /\ new.current = buffers.current
               /\ new.count_address = buffers.count_address
               /\ new.count_memory = buffers.count_memory
               /\ new.count_enqueue = buffers.count_enqueue
               /\ \A k \in 1 .. n : /\ new.next[k].busy = buffers.next[k].busy
                                    /\ new.next[k].rob_id = buffers.next[k].rob_id
                                    /\ new.next[k].op = buffers.next[k].op
<1> DEFINE shifted(k) == IF buffers.next[k].busy /\ buffers.next[k].queue_pos > pos
                         THEN MovedUp(buffers.next[k])
                         ELSE buffers.next[k]
           next == [k \in 1 .. n |-> shifted(k)]
           queued == buffers.num_in_queue_next - 1
           new == shift_queue(buffers, pos)
<1>1. ASSUME NEW k \in 1 .. n
      PROVE  /\ shifted(k) \in Buffer(V)
             /\ shifted(k).busy = buffers.next[k].busy
             /\ shifted(k).rob_id = buffers.next[k].rob_id
             /\ shifted(k).op = buffers.next[k].op
  <2>1. buffers.next[k] \in Buffer(V)
    BY DEF BuffersOf
  <2>2. LET b == MovedUp(buffers.next[k])
        IN  b \in Buffer(V) /\ b.busy = buffers.next[k].busy
            /\ b.rob_id = buffers.next[k].rob_id /\ b.op = buffers.next[k].op
    BY <2>1, MovedBuffer
  <2>3. CASE buffers.next[k].busy /\ buffers.next[k].queue_pos > pos
    BY <2>2, <2>3
  <2>4. CASE ~(buffers.next[k].busy /\ buffers.next[k].queue_pos > pos)
    BY <2>1, <2>4
  <2> QED
    BY <2>3, <2>4
<1>2. new = [buffers EXCEPT !.next = next, !.num_in_queue_next = queued]
  BY DEF shift_queue, BuffersOf, MovedUp
<1>3. queued \in Int
  BY DEF BuffersOf
<1> HIDE DEF shifted, new, queued
<1>4. next \in [1 .. n -> Buffer(V)] /\ \A k \in 1 .. n : next[k] = shifted(k)
  BY <1>1
<1> HIDE DEF next
<1>5. /\ new \in BuffersOf(V, n)
      /\ new.current = buffers.current /\ new.next = next
      /\ new.count_address = buffers.count_address
      /\ new.count_memory = buffers.count_memory
      /\ new.count_enqueue = buffers.count_enqueue
  BY <1>2, <1>3, <1>4 DEF BuffersOf
<1> QED
  BY <1>1, <1>4, <1>5 DEF new

\* The address unit is given a store for good, and of a load only the address.
LEMMA LeaveForAddress ==
    ASSUME NEW n \in Nat, NEW buffers, IsBuffers(buffers, n), NEW r, BuffersInStep(buffers, r),
           NEW i \in address_candidate(buffers), NEW name
    PROVE  AddressLeaves(memory_buffers_dequeue_address(buffers, i), buffers, n, r, name, i)
<1> DEFINE new == memory_buffers_dequeue_address(buffers, i)
           shifted == shift_queue(buffers, buffers.next[i].queue_pos)
           is_store == buffers.current[i].op \in StoreOp
<1>1. PICK U : buffers \in BuffersOf(U, n)
  BY DEF IsBuffers
<1> DEFINE V == U \cup {0}
<1>2. buffers \in BuffersOf(V, n)
  BY <1>1, BuffersGrow
<1>3. 0 \in V
  OBVIOUS
<1> HIDE DEF V
<1>4. /\ ToAddressUnit(buffers) \in SUBSET (1 .. n)
      /\ \A k : SentBefore(buffers, k) \in Nat
      /\ buffers.count_memory \in Nat /\ buffers.count_address \in Nat
  BY CountsType, BufferFields
<1>5. i \in ToAddressUnit(buffers) /\ SentBefore(buffers, i) = buffers.count_address
  BY DEF address_candidate, SentBefore
<1>6. /\ i \in 1 .. n /\ buffers.current[i].busy
      /\ i \notin LoadsToMemory(buffers, r)
  BY <1>4, <1>5 DEF LoadsToMemory, ToAddressUnit, Queued
<1>7. /\ buffers.next[i].busy
      /\ buffers.next[i].rob_id = buffers.current[i].rob_id
      /\ buffers.next[i].op = buffers.current[i].op
  <2>1. DOMAIN buffers.current = 1 .. n
    BY BufferFields
  <2> QED
    BY <1>4, <1>5, <1>6, <2>1 DEF BuffersInStep, GivenAway
<1>8. /\ shifted \in BuffersOf(V, n)
      /\ shifted.current = buffers.current
      /\ shifted.count_address = buffers.count_address
      /\ shifted.count_memory = buffers.count_memory
      /\ shifted.count_enqueue = buffers.count_enqueue
      /\ \A k \in 1 .. n : /\ shifted.next[k].busy = buffers.next[k].busy
                           /\ shifted.next[k].rob_id = buffers.next[k].rob_id
                           /\ shifted.next[k].op = buffers.next[k].op
  BY <1>2, ShiftedBuffers
<1>9. new = [shifted EXCEPT
                !.next[i] = IF is_store THEN [@ EXCEPT !.busy = FALSE]
                            ELSE [@ EXCEPT !.a = 0, !.queue_pos = 0],
                !.count_address = @ + 1]
  BY DEF memory_buffers_dequeue_address
<1> HIDE DEF shifted, new, is_store
<1> DEFINE changed == IF is_store THEN [shifted.next[i] EXCEPT !.busy = FALSE]
                      ELSE WithAddress(shifted.next[i], 0)
           next == [shifted.next EXCEPT ![i] = changed]
           address == buffers.count_address + 1
<1>10. /\ changed \in Buffer(V)
       /\ changed.busy = IF is_store THEN FALSE ELSE buffers.next[i].busy
       /\ changed.rob_id = buffers.next[i].rob_id /\ changed.op = buffers.next[i].op
  <2>1. shifted.next[i] \in Buffer(V)
    BY <1>6, <1>8 DEF BuffersOf
  <2>2. CASE is_store
    <3>1. LET b == [shifted.next[i] EXCEPT !.busy = FALSE]
          IN  b \in Buffer(V) /\ ~b.busy
              /\ b.rob_id = shifted.next[i].rob_id /\ b.op = shifted.next[i].op
      BY <2>1, FreedBuffer
    <3>2. changed = [shifted.next[i] EXCEPT !.busy = FALSE]
      BY <2>2
    <3> HIDE DEF changed
    <3> QED
      BY <1>6, <1>8, <2>2, <3>1, <3>2
  <2>3. CASE ~is_store
    <3> DEFINE b == WithAddress(shifted.next[i], 0)
    <3>1. /\ b \in Buffer(V) /\ b.busy = shifted.next[i].busy
          /\ b.rob_id = shifted.next[i].rob_id /\ b.op = shifted.next[i].op
      BY <1>3, <2>1, AddressedBuffer
    <3>2. changed = b
      BY <2>3
    <3> HIDE DEF b
    <3> HIDE DEF changed
    <3> QED
      BY <1>6, <1>8, <2>3, <3>1, <3>2
  <2> QED
    BY <2>2, <2>3
<1>11. new = [shifted EXCEPT !.next = next, !.count_address = address]
  BY <1>8, <1>9 DEF BuffersOf, WithAddress
<1> HIDE DEF changed
<1>12. /\ next \in [1 .. n -> Buffer(V)] /\ next[i] = changed
       /\ \A k \in 1 .. n : k # i => next[k] = shifted.next[k]
  BY <1>6, <1>8, <1>10 DEF BuffersOf
<1>13. address \in Nat
  BY <1>4
<1> HIDE DEF next, address
<1>14. /\ IsBuffers(new, n) /\ new.current = buffers.current /\ new.next = next
       /\ new.count_memory = buffers.count_memory /\ new.count_address = address
       /\ new.count_enqueue = buffers.count_enqueue
  BY <1>8, <1>11, <1>12, <1>13 DEF BuffersOf, IsBuffers
<1>15. GivenAway(new, r, i)
  <2>1. ToAddressUnit(new) = ToAddressUnit(buffers) /\ SentBefore(new, i) = SentBefore(buffers, i)
    BY <1>14 DEF ToAddressUnit, Queued, SentBefore
  <2> QED
    BY <1>4, <1>5, <1>14, <2>1 DEF GivenAway, address
<1>16. \A k : GivenAway(buffers, r, k) => GivenAway(new, r, k)
  <2>1. new.count_memory >= buffers.count_memory /\ new.count_address >= buffers.count_address
    BY <1>4, <1>14 DEF address
  <2> QED
    BY <1>14, <2>1, GivenStaysGiven
<1>17. new.next[i].busy = IF is_store THEN FALSE ELSE buffers.next[i].busy
  BY <1>10, <1>12, <1>14
<1>18. OnlyFrees(buffers, new, n, i, r)
  <2>1. ASSUME NEW k \in 1 .. n
        PROVE  /\ new.next[k].rob_id = buffers.next[k].rob_id
               /\ new.next[k].op = buffers.next[k].op
               /\ k # i => new.next[k].busy = buffers.next[k].busy
    <3>1. CASE k = i
      BY <3>1, <1>10, <1>12, <1>14
    <3>2. CASE k # i
      BY <3>2, <1>8, <1>12, <1>14
    <3> QED
      BY <3>1, <3>2
  <2>2. \/ new.next[i].busy = buffers.next[i].busy
        \/ ~new.next[i].busy /\ buffers.current[i].busy /\ GivenAway(new, r, i)
    BY <1>6, <1>15, <1>17
  <2> QED
    BY <1>6, <1>14, <1>16, <2>1, <2>2 DEF OnlyFrees
<1>19. /\ BuffersInStep(new, r)
       /\ new.next[i].busy = buffers.next[i].busy
              => InPool(name, new.next) = InPool(name, buffers.next)
       /\ new.next[i].busy # buffers.next[i].busy
              => Loses(InPool(name, new.next), InPool(name, buffers.next),
                       Holder(name, i, buffers.next[i].rob_id, buffers.next[i].op))
  BY <1>18, ChangeBuffer
<1>20. Holder(name, i, buffers.next[i].rob_id, buffers.next[i].op) \in InPool(name, buffers.next)
  BY <1>6, <1>7, BufferFields, PoolMember
<1> QED
  BY <1>6, <1>7, <1>14, <1>17, <1>19, <1>20
  DEF new, is_store, AddressLeaves, BuffersAfter, HolderOf
\* The address of a load reaches its buffer.
LEMMA TakeAddress ==
    ASSUME NEW n \in Nat, NEW buffers, IsBuffers(buffers, n), NEW r, BuffersInStep(buffers, r),
           NEW i, NEW address, NEW name
    PROVE  LET new == memory_buffers_add_address(buffers, i, address)
           IN  /\ BuffersAfter(new, buffers, n, r)
               /\ InPool(name, new.next) = InPool(name, buffers.next)
<1> DEFINE new == memory_buffers_add_address(buffers, i, address)
           next == [buffers.next EXCEPT ![i] = WithAddress(@, address)]
<1>1. PICK U : buffers \in BuffersOf(U, n)
  BY DEF IsBuffers
<1> DEFINE V == U \cup {address}
<1>2. buffers \in BuffersOf(V, n)
  BY <1>1, BuffersGrow
<1>3. address \in V
  OBVIOUS
<1> HIDE DEF V
<1>4. new = [buffers EXCEPT !.next = next]
  BY <1>2 DEF memory_buffers_add_address, BuffersOf, WithAddress
<1>5. CASE i \notin 1 .. n
  <2>1. next = buffers.next
    BY <1>2, <1>5 DEF BuffersOf
  <2> HIDE DEF next
  <2>2. new = buffers
    BY <1>2, <1>4, <2>1 DEF BuffersOf
  <2> QED
    BY <2>2 DEF BuffersAfter
<1>6. CASE i \in 1 .. n
  <2>1. buffers.next[i] \in Buffer(V)
    BY <1>2, <1>6 DEF BuffersOf
  <2> DEFINE changed == WithAddress(buffers.next[i], address)
  <2>2. /\ changed \in Buffer(V) /\ changed.busy = buffers.next[i].busy
        /\ changed.rob_id = buffers.next[i].rob_id /\ changed.op = buffers.next[i].op
    BY <1>3, <2>1, AddressedBuffer
  <2>3. next = [buffers.next EXCEPT ![i] = changed]
    OBVIOUS
  <2> HIDE DEF changed, next, new
  <2>4. /\ next \in [1 .. n -> Buffer(V)] /\ next[i] = changed
        /\ \A k \in 1 .. n : k # i => next[k] = buffers.next[k]
    BY <1>2, <1>6, <2>2, <2>3 DEF BuffersOf
  <2>5. /\ IsBuffers(new, n) /\ new.current = buffers.current /\ new.next = next
        /\ new.count_memory = buffers.count_memory
        /\ new.count_address = buffers.count_address
        /\ new.count_enqueue = buffers.count_enqueue
    BY <1>2, <1>4, <2>4 DEF BuffersOf, IsBuffers
  <2>6. \A k : GivenAway(buffers, r, k) => GivenAway(new, r, k)
    BY <2>5 DEF GivenAway, LoadsToMemory, ToAddressUnit, Queued, SentBefore
  <2>7. OnlyFrees(buffers, new, n, i, r)
    BY <1>6, <2>2, <2>4, <2>5, <2>6 DEF OnlyFrees
  <2>8. new.next[i].busy = buffers.next[i].busy
    BY <2>2, <2>4, <2>5
  <2>9. BuffersInStep(new, r) /\ InPool(name, new.next) = InPool(name, buffers.next)
    <3>1. BuffersInStep(new, r)
      BY <2>7, ChangeBuffer
    <3>2. InPool(name, new.next) = InPool(name, buffers.next)
      <4>1. /\ DOMAIN new.next = 1 .. n /\ DOMAIN buffers.next = 1 .. n
            /\ \A k \in 1 .. n : /\ new.next[k].busy = buffers.next[k].busy
                                 /\ new.next[k].rob_id = buffers.next[k].rob_id
                                 /\ new.next[k].op = buffers.next[k].op
        BY <2>5, <2>7, <2>8, BufferFields DEF OnlyFrees
      <4>2. ASSUME NEW h PROVE h \in InPool(name, new.next) <=> h \in InPool(name, buffers.next)
        BY <4>1, PoolMember
      <4> QED
        BY <4>2
    <3> QED
      BY <3>1, <3>2
  <2> QED
    BY <2>5, <2>9 DEF new, BuffersAfter
<1> QED
  BY <1>5, <1>6

\* What a buffer takes from the bus, as CapturedStation.
LEMMA CapturedBuffer ==
    ASSUME NEW V, NEW buffer \in Buffer(V), NEW bus \in Bus(V)
    PROVE  LET new == Captured(buffer, bus)
           IN  /\ new \in Buffer(V)
               /\ new.busy = buffer.busy
               /\ new.rob_id = buffer.rob_id /\ new.op = buffer.op
               /\ new.qj # 0 => new.qj = buffer.qj
               /\ new.qk # 0 => new.qk = buffer.qk
               /\ new.busy => /\ new.qj # 0 => ~cdb_is_val_ready(bus, new.qj)
                              /\ new.qk # 0 => ~cdb_is_val_ready(bus, new.qk)
<1> DEFINE j == buffer.qj # 0 /\ cdb_is_val_ready(bus, buffer.qj)
           k == buffer.qk # 0 /\ cdb_is_val_ready(bus, buffer.qk)
           vj == cdb_get_val(bus, buffer.qj)
           vk == cdb_get_val(bus, buffer.qk)
           both == [buffer EXCEPT !.vj = IF j THEN vj ELSE @, !.qj = IF j THEN 0 ELSE @,
                                  !.vk = IF k THEN vk ELSE @, !.qk = IF k THEN 0 ELSE @]
<1>1. Captured(buffer, bus) = IF ~buffer.busy THEN buffer ELSE both
  BY DEF Captured
<1>2. (j => vj \in V) /\ (k => vk \in V)
  BY GetValType
<1> HIDE DEF j, k, vj, vk
<1>3. /\ both \in Buffer(V)
      /\ both.busy = buffer.busy
      /\ both.rob_id = buffer.rob_id /\ both.op = buffer.op
      /\ both.qj = (IF j THEN 0 ELSE buffer.qj)
      /\ both.qk = (IF k THEN 0 ELSE buffer.qk)
  BY <1>2 DEF Buffer
<1> HIDE DEF both
<1> QED
  BY <1>1, <1>3 DEF j, k

\* memory_buffers_step captures operands and leaves everything else alone.
LEMMA StepBuffers ==
    ASSUME NEW n \in Nat, NEW buffers, IsBuffers(buffers, n), NEW V, NEW bus \in Bus(V)
    PROVE  LET new == memory_buffers_step(buffers, bus)
           IN  /\ IsBuffers(new, n)
               /\ new.current = buffers.current
               /\ new.count_memory = buffers.count_memory
               /\ new.count_address = buffers.count_address
               /\ new.count_enqueue = buffers.count_enqueue
               /\ \A i \in 1 .. n : /\ new.next[i] = Captured(buffers.next[i], bus)
                                    /\ new.next[i].busy = buffers.next[i].busy
                                    /\ new.next[i].rob_id = buffers.next[i].rob_id
                                    /\ new.next[i].op = buffers.next[i].op
<1>1. PICK U : buffers \in BuffersOf(U, n)
  BY DEF IsBuffers
<1> DEFINE W == U \cup V
           next == [i \in 1 .. n |-> Captured(buffers.next[i], bus)]
           new == memory_buffers_step(buffers, bus)
<1>2. buffers \in BuffersOf(W, n) /\ bus \in Bus(W)
  BY <1>1, BuffersGrow, BusGrow
<1> HIDE DEF W
<1>3. ASSUME NEW i \in 1 .. n
      PROVE  /\ Captured(buffers.next[i], bus) \in Buffer(W)
             /\ Captured(buffers.next[i], bus).busy = buffers.next[i].busy
             /\ Captured(buffers.next[i], bus).rob_id = buffers.next[i].rob_id
             /\ Captured(buffers.next[i], bus).op = buffers.next[i].op
  <2>1. buffers.next[i] \in Buffer(W)
    BY <1>2 DEF BuffersOf
  <2> QED
    BY <1>2, <2>1, CapturedBuffer
<1>4. new = [buffers EXCEPT !.next = next]
  BY <1>2 DEF memory_buffers_step, BuffersOf
<1>5. next \in [1 .. n -> Buffer(W)]
      /\ \A i \in 1 .. n : next[i] = Captured(buffers.next[i], bus)
  BY <1>3
<1> HIDE DEF next, new
<1>6. /\ new \in BuffersOf(W, n)
      /\ new.current = buffers.current /\ new.next = next
      /\ new.count_memory = buffers.count_memory
      /\ new.count_address = buffers.count_address
      /\ new.count_enqueue = buffers.count_enqueue
  BY <1>2, <1>4, <1>5 DEF BuffersOf
<1>7. IsBuffers(new, n)
  BY <1>6 DEF IsBuffers
<1> QED
  BY <1>3, <1>5, <1>6, <1>7 DEF new

\* What capture, flush and the end of the cycle do to them.
BuffersStay(new, buffers, n, r) ==
    /\ IsBuffers(new, n)
    /\ BuffersInStep(buffers, r) => BuffersInStep(new, r)
    /\ \A name : InPool(name, new.next) = InPool(name, buffers.next)

BuffersEmptied(new, n) == IsBuffers(new, n) /\ \A name : InPool(name, new.next) = {}

BuffersTurned(new, buffers, n, r) ==
    /\ IsBuffers(new, n) /\ BuffersInStep(new, r)
    /\ new.current = new.next /\ new.count_enqueue = 0
    /\ \A name : InPool(name, new.next) = InPool(name, buffers.next)

\* As StayInStations.
LEMMA StayInBuffers ==
    ASSUME NEW n \in Nat, NEW buffers, IsBuffers(buffers, n), NEW r
    PROVE  /\ \A bus : IsBus(bus) => BuffersStay(memory_buffers_step(buffers, bus), buffers, n, r)
           /\ BuffersEmptied(memory_buffers_clear(buffers), n)
           /\ BuffersTurned(memory_buffers_update_current(buffers), buffers, n, r)
<1>1. ASSUME NEW V, NEW bus \in Bus(V)
      PROVE  BuffersStay(memory_buffers_step(buffers, bus), buffers, n, r)
  <2> DEFINE new == memory_buffers_step(buffers, bus)
  <2>1. /\ IsBuffers(new, n)
        /\ new.current = buffers.current
        /\ new.count_memory = buffers.count_memory
        /\ new.count_address = buffers.count_address
        /\ new.count_enqueue = buffers.count_enqueue
        /\ \A i \in 1 .. n : /\ new.next[i].busy = buffers.next[i].busy
                             /\ new.next[i].rob_id = buffers.next[i].rob_id
                             /\ new.next[i].op = buffers.next[i].op
    BY StepBuffers
  <2> HIDE DEF new
  <2>2. /\ DOMAIN buffers.current = 1 .. n /\ DOMAIN buffers.next = 1 .. n
        /\ DOMAIN new.next = 1 .. n
    BY <2>1, BufferFields
  <2>3. /\ FreeBuffers(new) = FreeBuffers(buffers)
        /\ \A k : GivenAway(buffers, r, k) => GivenAway(new, r, k)
    BY <2>1 DEF FreeBuffers, GivenAway, LoadsToMemory, ToAddressUnit, Queued, SentBefore
  <2>4. BuffersInStep(buffers, r) => BuffersInStep(new, r)
    BY <2>1, <2>2, <2>3 DEF BuffersInStep
  <2>5. ASSUME NEW name PROVE InPool(name, new.next) = InPool(name, buffers.next)
    <3>1. ASSUME NEW h PROVE h \in InPool(name, new.next) <=> h \in InPool(name, buffers.next)
      BY <2>1, <2>2, PoolMember
    <3> QED
      BY <3>1
  <2> QED
    BY <2>1, <2>4, <2>5 DEF new, BuffersStay
<1>2. BuffersEmptied(memory_buffers_clear(buffers), n)
  <2>1. PICK V : buffers \in BuffersOf(V, n)
    BY DEF IsBuffers
  <2> DEFINE next == [i \in 1 .. n |-> [buffers.next[i] EXCEPT !.busy = FALSE]]
             new == memory_buffers_clear(buffers)
             zero == 0
  <2>2. ASSUME NEW i \in 1 .. n
        PROVE  [buffers.next[i] EXCEPT !.busy = FALSE] \in Buffer(V)
               /\ ~[buffers.next[i] EXCEPT !.busy = FALSE].busy
    <3>1. buffers.next[i] \in Buffer(V)
      BY <2>1 DEF BuffersOf
    <3> QED
      BY <3>1, FreedBuffer
  <2>3. new = [buffers EXCEPT !.next = next, !.num_in_queue_next = zero]
    BY <2>1 DEF memory_buffers_clear, BuffersOf
  <2>4. next \in [1 .. n -> Buffer(V)] /\ \A i \in 1 .. n : ~next[i].busy
    BY <2>2
  <2>5. zero \in Int
    OBVIOUS
  <2> HIDE DEF next, new, zero
  <2>6. new \in BuffersOf(V, n) /\ new.next = next
    BY <2>1, <2>3, <2>4, <2>5 DEF BuffersOf
  <2>7. DOMAIN next = 1 .. n
    BY <2>4
  <2>8. ASSUME NEW name PROVE InPool(name, next) = {}
    BY <2>4, <2>7 DEF InPool
  <2> QED
    BY <2>6, <2>8 DEF new, IsBuffers, BuffersEmptied
<1>3. BuffersTurned(memory_buffers_update_current(buffers), buffers, n, r)
  <2> DEFINE new == memory_buffers_update_current(buffers)
             zero == 0
  <2>1. PICK V : buffers \in BuffersOf(V, n)
    BY DEF IsBuffers
  <2>2. zero \in Nat
    OBVIOUS
  <2>3. new = [buffers EXCEPT !.current = buffers.next,
                              !.num_in_queue_current = buffers.num_in_queue_next,
                              !.count_address = zero, !.count_memory = zero,
                              !.count_enqueue = zero]
    BY DEF memory_buffers_update_current
  <2> HIDE DEF new, zero
  <2>4. /\ new \in BuffersOf(V, n) /\ new.current = buffers.next /\ new.next = buffers.next
        /\ new.count_enqueue = zero
    BY <2>1, <2>2, <2>3 DEF BuffersOf
  <2>5. BuffersInStep(new, r)
    BY <2>4 DEF BuffersInStep
  <2> QED
    BY <2>4, <2>5 DEF new, zero, IsBuffers, BuffersTurned
<1> QED
  BY <1>1, <1>2, <1>3 DEF IsBus

-----------------------------------------------------------------------------

(* Who in a pool waits for whom. *)

\* An instruction in the pool has an operand that q has yet to deliver.
Waiting(pool, id, q) ==
    /\ q # 0
    /\ \E i \in DOMAIN pool : /\ pool[i].busy /\ pool[i].rob_id = id
                              /\ q \in {pool[i].qj, pool[i].qk}

\* Nobody waits who has not waited before, and nobody for those that are heard.
StillWaiting(new, old, heard) ==
    \A id, q : Waiting(new, id, q) => Waiting(old, id, q) /\ q \notin heard

\* Nobody waits but those who have waited before, and id, for the producers of its operands.
WaitsToo(new, old, id, operands) ==
    \A k, q : Waiting(new, k, q) => Waiting(old, k, q) \/ (k = id /\ q \in operands)

\* The entry e waits for nobody that the entry old has not waited for.
WaitsNoMore(e, old) ==
    e.busy => /\ old.busy /\ e.rob_id = old.rob_id
              /\ e.qj # 0 => e.qj = old.qj
              /\ e.qk # 0 => e.qk = old.qk

\* It is enough to look at each entry.
LEMMA WaitByEntry ==
    ASSUME NEW n, NEW new, NEW old, DOMAIN new = 1 .. n, DOMAIN old = 1 .. n,
           \A i \in 1 .. n : WaitsNoMore(new[i], old[i])
    PROVE  StillWaiting(new, old, {})
<1> SUFFICES ASSUME NEW id, NEW q, Waiting(new, id, q) PROVE Waiting(old, id, q)
  BY DEF StillWaiting
<1>1. PICK i \in 1 .. n : /\ q # 0 /\ new[i].busy /\ new[i].rob_id = id
                          /\ q \in {new[i].qj, new[i].qk}
  BY DEF Waiting
<1>2. WaitsNoMore(new[i], old[i])
  OBVIOUS
<1> QED
  BY <1>1, <1>2 DEF Waiting, WaitsNoMore

\* An entry that replaces one that waits for as many.
LEMMA WaitInPlace ==
    ASSUME NEW n, NEW T, NEW pool \in [1 .. n -> T], NEW i, NEW e,
           i \in 1 .. n => WaitsNoMore(e, pool[i])
    PROVE  StillWaiting([pool EXCEPT ![i] = e], pool, {})
<1> DEFINE new == [pool EXCEPT ![i] = e]
<1>1. DOMAIN new = 1 .. n /\ DOMAIN pool = 1 .. n
  OBVIOUS
<1>2. ASSUME NEW k \in 1 .. n PROVE WaitsNoMore(new[k], pool[k])
  <2>1. CASE k = i
    <3>1. new[k] = e
      BY <2>1
    <3> QED
      BY <2>1, <3>1
  <2>2. CASE k # i
    <3>1. new[k] = pool[k]
      BY <2>2
    <3> QED
      BY <3>1 DEF WaitsNoMore
  <2> QED
    BY <2>1, <2>2
<1> HIDE DEF new
<1>3. StillWaiting(new, pool, {})
  BY <1>1, <1>2, WaitByEntry
<1> QED
  BY <1>3 DEF new

\* An entry that joins the others waits for its own operands.
LEMMA WaitInNewPlace ==
    ASSUME NEW n, NEW T, NEW pool \in [1 .. n -> T], NEW i, NEW e
    PROVE  WaitsToo([pool EXCEPT ![i] = e], pool, e.rob_id, {e.qj, e.qk})
<1> DEFINE new == [pool EXCEPT ![i] = e]
<1>1. DOMAIN new = 1 .. n /\ DOMAIN pool = 1 .. n
  OBVIOUS
<1>2. /\ \A k \in 1 .. n : k # i => new[k] = pool[k]
      /\ i \in 1 .. n => new[i] = e
  OBVIOUS
<1> HIDE DEF new
<1>3. WaitsToo(new, pool, e.rob_id, {e.qj, e.qk})
  <2> SUFFICES ASSUME NEW id, NEW q, Waiting(new, id, q)
               PROVE  Waiting(pool, id, q) \/ (id = e.rob_id /\ q \in {e.qj, e.qk})
    BY DEF WaitsToo
  <2>1. PICK k \in 1 .. n : /\ q # 0 /\ new[k].busy /\ new[k].rob_id = id
                            /\ q \in {new[k].qj, new[k].qk}
    BY <1>1 DEF Waiting
  <2>2. CASE k = i
    BY <1>2, <2>1, <2>2
  <2>3. CASE k # i
    <3>1. new[k] = pool[k]
      BY <1>2, <2>3
    <3> QED
      BY <1>1, <2>1, <3>1 DEF Waiting
  <2> QED
    BY <2>2, <2>3
<1> QED
  BY <1>3 DEF new

\* A station that is added waits for its operands.
LEMMA WaitAfterAdd ==
    ASSUME NEW n, NEW rs, IsStations(rs, n), NEW op, NEW qj, NEW qk, NEW vj, NEW vk, NEW a,
           NEW rob_id, NEW inst_pc
    PROVE  WaitsToo(res_stations_add(rs, op, qj, qk, vj, vk, a, rob_id, inst_pc).next, rs.next,
                    rob_id, {qj, qk})
<1> DEFINE station == [busy |-> TRUE, op |-> op, qj |-> qj, qk |-> qk, vj |-> vj, vk |-> vk,
                       a |-> a, rob_id |-> rob_id, inst_pc |-> inst_pc]
           i == Nth(FreeStations(rs), rs.added)
           new == res_stations_add(rs, op, qj, qk, vj, vk, a, rob_id, inst_pc)
<1>1. PICK V : rs \in StationsOf(V, n)
  BY DEF IsStations
<1>2. station.rob_id = rob_id /\ station.qj = qj /\ station.qk = qk
  OBVIOUS
<1>3. rs.next \in [1 .. n -> Station(V, V, RobIds)]
  BY <1>1 DEF StationsOf
<1>4. new = rs \/ new = [rs EXCEPT !.next[i] = station, !.added = @ + 1]
  BY DEF res_stations_add
<1> HIDE DEF station, i, new
<1>5. new.next = rs.next \/ new.next = [rs.next EXCEPT ![i] = station]
  BY <1>1, <1>4 DEF StationsOf
<1>6. WaitsToo([rs.next EXCEPT ![i] = station], rs.next, station.rob_id, {station.qj, station.qk})
  BY <1>3, WaitInNewPlace
<1>7. WaitsToo(rs.next, rs.next, rob_id, {qj, qk})
  BY DEF WaitsToo
<1>8. WaitsToo(new.next, rs.next, rob_id, {qj, qk})
  BY <1>2, <1>5, <1>6, <1>7
<1> QED
  BY <1>8 DEF new

\* A station that is taken waits for nobody.
LEMMA WaitAfterRemove ==
    ASSUME NEW n, NEW rs, IsStations(rs, n)
    PROVE  StillWaiting(res_stations_remove(rs).next, rs.next, {})
<1> DEFINE i == Nth(ReadyStations(rs), rs.removed)
           freed == [rs.next[i] EXCEPT !.busy = FALSE]
           new == res_stations_remove(rs)
<1>1. PICK V : rs \in StationsOf(V, n)
  BY DEF IsStations
<1>2. rs.next \in [1 .. n -> Station(V, V, RobIds)]
  BY <1>1 DEF StationsOf
<1>3. new = [rs EXCEPT !.next[i].busy = FALSE, !.removed = @ + 1]
  BY DEF res_stations_remove
<1> HIDE DEF i, new
<1>4. new.next = [rs.next EXCEPT ![i] = freed]
  BY <1>1, <1>3 DEF StationsOf
<1>5. ASSUME i \in 1 .. n PROVE WaitsNoMore(freed, rs.next[i])
  <2>1. rs.next[i] \in Station(V, V, RobIds)
    BY <1>2, <1>5
  <2>2. ~freed.busy
    BY <2>1, FreedStation
  <2> QED
    BY <2>2 DEF WaitsNoMore
<1> HIDE DEF freed
<1>6. StillWaiting([rs.next EXCEPT ![i] = freed], rs.next, {})
  BY <1>2, <1>5, WaitInPlace
<1>7. StillWaiting(new.next, rs.next, {})
  BY <1>4, <1>6
<1> QED
  BY <1>7 DEF new

\* Whatever is heard on the bus.
Heard(bus) == {id \in RobIds : cdb_is_val_ready(bus, id)}

\* Nobody goes on waiting for a result that is on the bus.
LEMMA WaitAfterStep ==
    ASSUME NEW n \in Nat, NEW rs, IsStations(rs, n), NEW bus, IsBus(bus)
    PROVE  StillWaiting(res_stations_step(rs, bus).next, rs.next, Heard(bus))
<1> DEFINE new == res_stations_step(rs, bus)
<1>1. PICK B : bus \in Bus(B)
  BY DEF IsBus
<1>2. /\ IsStations(new, n)
      /\ \A i \in 1 .. n : new.next[i] = Captured(rs.next[i], bus)
  BY <1>1, StepStations
<1> HIDE DEF new
<1>3. DOMAIN new.next = 1 .. n /\ DOMAIN rs.next = 1 .. n
  BY <1>2, StationFields
<1>4. PICK U : rs \in StationsOf(U, n)
  BY DEF IsStations
<1> DEFINE V == U \cup B
<1>5. rs \in StationsOf(V, n) /\ bus \in Bus(V)
  BY <1>1, <1>4, StationsGrow, BusGrow
<1> HIDE DEF V
<1>6. ASSUME NEW i \in 1 .. n
      PROVE  /\ WaitsNoMore(new.next[i], rs.next[i])
             /\ new.next[i].busy => /\ new.next[i].qj # 0 => ~cdb_is_val_ready(bus, new.next[i].qj)
                                    /\ new.next[i].qk # 0 => ~cdb_is_val_ready(bus, new.next[i].qk)
  <2>1. rs.next[i] \in Station(V, V, RobIds)
    BY <1>5 DEF StationsOf
  <2> DEFINE e == Captured(rs.next[i], bus)
  <2>2. /\ e.busy = rs.next[i].busy /\ e.rob_id = rs.next[i].rob_id
        /\ e.qj # 0 => e.qj = rs.next[i].qj
        /\ e.qk # 0 => e.qk = rs.next[i].qk
        /\ e.busy => /\ e.qj # 0 => ~cdb_is_val_ready(bus, e.qj)
                     /\ e.qk # 0 => ~cdb_is_val_ready(bus, e.qk)
    BY <1>5, <2>1, CapturedStation
  <2>3. new.next[i] = e
    BY <1>2
  <2> HIDE DEF e
  <2> QED
    BY <2>2, <2>3 DEF WaitsNoMore
<1>7. StillWaiting(new.next, rs.next, {})
  BY <1>3, <1>6, WaitByEntry
<1>8. ASSUME NEW id, NEW q, Waiting(new.next, id, q) PROVE ~cdb_is_val_ready(bus, q)
  BY <1>3, <1>6, <1>8 DEF Waiting
<1>9. StillWaiting(new.next, rs.next, Heard(bus))
  BY <1>7, <1>8 DEF StillWaiting, Heard
<1> QED
  BY <1>9 DEF new

\* The end of a cycle changes nobody's operands.
LEMMA WaitAfterUpdate ==
    ASSUME NEW n, NEW rs, IsStations(rs, n)
    PROVE  res_stations_update_current(rs).next = rs.next
<1>1. PICK V : rs \in StationsOf(V, n)
  BY DEF IsStations
<1> QED
  BY <1>1 DEF res_stations_update_current, StationsOf

\* A buffer that is filled waits for its operands.
LEMMA BufferWaitAfterEnqueue ==
    ASSUME NEW n, NEW buffers, IsBuffers(buffers, n), NEW op, NEW qj, NEW qk,
           NEW vj, NEW vk, NEW a, NEW rob_id
    PROVE  WaitsToo(memory_buffers_enqueue(buffers, op, qj, qk, vj, vk, a, rob_id).next,
                    buffers.next, rob_id, {qj, qk})
<1> DEFINE buffer == [busy |-> TRUE, op |-> op, qj |-> qj, qk |-> qk, vj |-> vj, vk |-> vk,
                      a |-> a, rob_id |-> rob_id,
                      queue_pos |-> buffers.num_in_queue_current + 1 + buffers.count_enqueue]
           i == Nth(FreeBuffers(buffers), buffers.count_enqueue)
           new == memory_buffers_enqueue(buffers, op, qj, qk, vj, vk, a, rob_id)
<1>1. PICK V : buffers \in BuffersOf(V, n)
  BY DEF IsBuffers
<1>2. buffer.rob_id = rob_id /\ buffer.qj = qj /\ buffer.qk = qk
  OBVIOUS
<1>3. buffers.next \in [1 .. n -> Buffer(V)]
  BY <1>1 DEF BuffersOf
<1>4. \/ new = buffers
      \/ new = [buffers EXCEPT !.next[i] = buffer, !.num_in_queue_next = @ + 1,
                               !.count_enqueue = @ + 1]
  BY DEF memory_buffers_enqueue
<1> HIDE DEF buffer, i, new
<1>5. new.next = buffers.next \/ new.next = [buffers.next EXCEPT ![i] = buffer]
  BY <1>1, <1>4 DEF BuffersOf
<1>6. WaitsToo([buffers.next EXCEPT ![i] = buffer], buffers.next,
               buffer.rob_id, {buffer.qj, buffer.qk})
  BY <1>3, WaitInNewPlace
<1>7. WaitsToo(buffers.next, buffers.next, rob_id, {qj, qk})
  BY DEF WaitsToo
<1>8. WaitsToo(new.next, buffers.next, rob_id, {qj, qk})
  BY <1>2, <1>5, <1>6, <1>7
<1> QED
  BY <1>8 DEF new

\* The load that is taken waits for nobody.
LEMMA BufferWaitAfterMemory ==
    ASSUME NEW n, NEW buffers, IsBuffers(buffers, n), NEW i
    PROVE  StillWaiting(memory_buffers_dequeue_memory(buffers, i).next, buffers.next, {})
<1> DEFINE freed == [buffers.next[i] EXCEPT !.busy = FALSE]
           new == memory_buffers_dequeue_memory(buffers, i)
<1>1. PICK V : buffers \in BuffersOf(V, n)
  BY DEF IsBuffers
<1>2. buffers.next \in [1 .. n -> Buffer(V)]
  BY <1>1 DEF BuffersOf
<1>3. new = [buffers EXCEPT !.next[i].busy = FALSE, !.count_memory = @ + 1]
  BY DEF memory_buffers_dequeue_memory
<1> HIDE DEF new
<1>4. new.next = [buffers.next EXCEPT ![i] = freed]
  BY <1>1, <1>3 DEF BuffersOf
<1>5. ASSUME i \in 1 .. n PROVE WaitsNoMore(freed, buffers.next[i])
  <2>1. buffers.next[i] \in Buffer(V)
    BY <1>2, <1>5
  <2>2. ~freed.busy
    BY <2>1, FreedBuffer
  <2> QED
    BY <2>2 DEF WaitsNoMore
<1> HIDE DEF freed
<1>6. StillWaiting([buffers.next EXCEPT ![i] = freed], buffers.next, {})
  BY <1>2, <1>5, WaitInPlace
<1>7. StillWaiting(new.next, buffers.next, {})
  BY <1>4, <1>6
<1> QED
  BY <1>7 DEF new

\* What the code writes into a buffer on its way to memory lets it wait for nobody else.
LEMMA WrittenBuffers ==
    ASSUME NEW V, NEW buffer \in Buffer(V)
    PROVE  /\ WaitsNoMore(buffer, buffer)
           /\ WaitsNoMore(MovedUp(buffer), buffer)
           /\ \A address : WaitsNoMore(WithAddress(buffer, address), buffer)
           /\ WaitsNoMore([buffer EXCEPT !.busy = FALSE], buffer)
<1>1. WaitsNoMore(MovedUp(buffer), buffer)
  BY DEF Buffer, MovedUp, WaitsNoMore
<1>2. ASSUME NEW address PROVE WaitsNoMore(WithAddress(buffer, address), buffer)
  BY DEF Buffer, WithAddress, WaitsNoMore
<1>3. WaitsNoMore([buffer EXCEPT !.busy = FALSE], buffer)
  BY DEF Buffer, WaitsNoMore
<1> QED
  BY <1>1, <1>2, <1>3 DEF WaitsNoMore

\* The address of a load reaches a buffer that waits for as many as before.
LEMMA BufferWaitAfterAdd ==
    ASSUME NEW n, NEW buffers, IsBuffers(buffers, n), NEW i, NEW address
    PROVE  StillWaiting(memory_buffers_add_address(buffers, i, address).next, buffers.next, {})
<1> DEFINE changed == WithAddress(buffers.next[i], address)
           new == memory_buffers_add_address(buffers, i, address)
<1>1. PICK V : buffers \in BuffersOf(V, n)
  BY DEF IsBuffers
<1>2. buffers.next \in [1 .. n -> Buffer(V)]
  BY <1>1 DEF BuffersOf
<1>3. new.next = [buffers.next EXCEPT ![i] = changed]
  BY <1>1 DEF memory_buffers_add_address, BuffersOf, WithAddress
<1>4. ASSUME i \in 1 .. n PROVE WaitsNoMore(changed, buffers.next[i])
  <2>1. buffers.next[i] \in Buffer(V)
    BY <1>2, <1>4
  <2> QED
    BY <2>1, WrittenBuffers
<1> HIDE DEF changed, new
<1>5. StillWaiting([buffers.next EXCEPT ![i] = changed], buffers.next, {})
  BY <1>2, <1>4, WaitInPlace
<1>6. StillWaiting(new.next, buffers.next, {})
  BY <1>3, <1>5
<1> QED
  BY <1>6 DEF new

\* Nobody waits for more when an address unit is given a buffer and the queue moves up.
LEMMA BufferWaitAfterAddress ==
    ASSUME NEW n \in Nat, NEW buffers, IsBuffers(buffers, n), NEW i
    PROVE  StillWaiting(memory_buffers_dequeue_address(buffers, i).next, buffers.next, {})
<1> DEFINE pos == buffers.next[i].queue_pos
           shifted == shift_queue(buffers, pos)
           changed == IF buffers.current[i].op \in StoreOp
                      THEN [shifted.next[i] EXCEPT !.busy = FALSE]
                      ELSE WithAddress(shifted.next[i], 0)
           new == memory_buffers_dequeue_address(buffers, i)
<1>1. PICK V : buffers \in BuffersOf(V, n)
  BY DEF IsBuffers
<1>2. buffers.next \in [1 .. n -> Buffer(V)]
  BY <1>1 DEF BuffersOf
<1>3. shifted \in BuffersOf(V, n)
  BY <1>1, ShiftedBuffers
<1>4. \A k \in 1 .. n : \/ shifted.next[k] = buffers.next[k]
                        \/ shifted.next[k] = MovedUp(buffers.next[k])
  BY <1>1 DEF shift_queue, BuffersOf, MovedUp
<1>5. new.next = [shifted.next EXCEPT ![i] = changed]
  BY <1>3 DEF memory_buffers_dequeue_address, BuffersOf, WithAddress
<1> HIDE DEF pos, shifted, new
<1>6. shifted.next \in [1 .. n -> Buffer(V)]
  BY <1>3 DEF BuffersOf
<1>7. StillWaiting(shifted.next, buffers.next, {})
  <2>1. ASSUME NEW k \in 1 .. n PROVE WaitsNoMore(shifted.next[k], buffers.next[k])
    <3>1. buffers.next[k] \in Buffer(V)
      BY <1>2
    <3>2. WaitsNoMore(buffers.next[k], buffers.next[k]) /\ WaitsNoMore(MovedUp(buffers.next[k]), buffers.next[k])
      BY <3>1, WrittenBuffers
    <3> QED
      BY <1>4, <3>2
  <2>2. DOMAIN shifted.next = 1 .. n /\ DOMAIN buffers.next = 1 .. n
    BY <1>2, <1>6
  <2> QED
    BY <2>1, <2>2, WaitByEntry
<1>8. ASSUME i \in 1 .. n PROVE WaitsNoMore(changed, shifted.next[i])
  <2>1. shifted.next[i] \in Buffer(V)
    BY <1>6, <1>8
  <2>2. WaitsNoMore([shifted.next[i] EXCEPT !.busy = FALSE], shifted.next[i])
        /\ WaitsNoMore(WithAddress(shifted.next[i], 0), shifted.next[i])
    BY <2>1, WrittenBuffers
  <2> QED
    BY <2>2
<1> HIDE DEF changed
<1>9. StillWaiting([shifted.next EXCEPT ![i] = changed], shifted.next, {})
  BY <1>6, <1>8, WaitInPlace
<1>10. StillWaiting(new.next, buffers.next, {})
  BY <1>5, <1>7, <1>9 DEF StillWaiting
<1> QED
  BY <1>10 DEF new

\* As WaitAfterStep.
LEMMA BufferWaitAfterStep ==
    ASSUME NEW n \in Nat, NEW buffers, IsBuffers(buffers, n), NEW bus, IsBus(bus)
    PROVE  StillWaiting(memory_buffers_step(buffers, bus).next, buffers.next, Heard(bus))
<1> DEFINE new == memory_buffers_step(buffers, bus)
<1>1. PICK B : bus \in Bus(B)
  BY DEF IsBus
<1>2. /\ IsBuffers(new, n)
      /\ \A i \in 1 .. n : new.next[i] = Captured(buffers.next[i], bus)
  BY <1>1, StepBuffers
<1> HIDE DEF new
<1>3. DOMAIN new.next = 1 .. n /\ DOMAIN buffers.next = 1 .. n
  BY <1>2, BufferFields
<1>4. PICK U : buffers \in BuffersOf(U, n)
  BY DEF IsBuffers
<1> DEFINE V == U \cup B
<1>5. buffers \in BuffersOf(V, n) /\ bus \in Bus(V)
  BY <1>1, <1>4, BuffersGrow, BusGrow
<1> HIDE DEF V
<1>6. ASSUME NEW i \in 1 .. n
      PROVE  /\ WaitsNoMore(new.next[i], buffers.next[i])
             /\ new.next[i].busy => /\ new.next[i].qj # 0 => ~cdb_is_val_ready(bus, new.next[i].qj)
                                    /\ new.next[i].qk # 0 => ~cdb_is_val_ready(bus, new.next[i].qk)
  <2>1. buffers.next[i] \in Buffer(V)
    BY <1>5 DEF BuffersOf
  <2> DEFINE e == Captured(buffers.next[i], bus)
  <2>2. /\ e.busy = buffers.next[i].busy /\ e.rob_id = buffers.next[i].rob_id
        /\ e.qj # 0 => e.qj = buffers.next[i].qj
        /\ e.qk # 0 => e.qk = buffers.next[i].qk
        /\ e.busy => /\ e.qj # 0 => ~cdb_is_val_ready(bus, e.qj)
                     /\ e.qk # 0 => ~cdb_is_val_ready(bus, e.qk)
    BY <1>5, <2>1, CapturedBuffer
  <2>3. new.next[i] = e
    BY <1>2
  <2> HIDE DEF e
  <2> QED
    BY <2>2, <2>3 DEF WaitsNoMore
<1>7. StillWaiting(new.next, buffers.next, {})
  BY <1>3, <1>6, WaitByEntry
<1>8. ASSUME NEW id, NEW q, Waiting(new.next, id, q) PROVE ~cdb_is_val_ready(bus, q)
  BY <1>3, <1>6, <1>8 DEF Waiting
<1>9. StillWaiting(new.next, buffers.next, Heard(bus))
  BY <1>7, <1>8 DEF StillWaiting, Heard
<1> QED
  BY <1>9 DEF new

\* As WaitAfterUpdate.
LEMMA BufferWaitAfterUpdate ==
    ASSUME NEW n, NEW buffers, IsBuffers(buffers, n)
    PROVE  memory_buffers_update_current(buffers).next = buffers.next
<1>1. PICK V : buffers \in BuffersOf(V, n)
  BY DEF IsBuffers
<1> QED
  BY <1>1 DEF memory_buffers_update_current, BuffersOf

\* A pool nobody is in.
LEMMA NobodyWaits ==
    ASSUME NEW pool, NEW name, InPool(name, pool) = {}, NEW id, NEW q
    PROVE  ~Waiting(pool, id, q)
<1> SUFFICES ASSUME Waiting(pool, id, q) PROVE FALSE
  OBVIOUS
<1>1. PICK i \in DOMAIN pool : pool[i].busy
  BY DEF Waiting
<1> QED
  BY <1>1 DEF InPool

\* Whoever waits in a pool is there.
LEMMA WaiterIsThere ==
    ASSUME NEW pool, NEW name, NEW id, NEW q, Waiting(pool, id, q)
    PROVE  \E h \in InPool(name, pool) : h[3] = id
<1>1. PICK i \in DOMAIN pool : pool[i].busy /\ pool[i].rob_id = id
  BY DEF Waiting
<1> DEFINE h == Holder(name, i, pool[i].rob_id, pool[i].op)
<1>2. h \in InPool(name, pool)
  BY <1>1, PoolMember
<1>3. h[3] = id
  BY <1>1, HolderParts
<1> QED
  BY <1>2, <1>3

-----------------------------------------------------------------------------

(* The queue of the memory buffers: one operation. *)

\* The parts of the memory buffers that keep the queue.
LEMMA QueueFields ==
    ASSUME NEW n, NEW buffers, IsBuffers(buffers, n)
    PROVE  /\ buffers.num_in_queue_current \in Int /\ buffers.num_in_queue_next \in Int
           /\ \A i \in 1 .. n : /\ buffers.current[i].queue_pos \in Int
                                /\ buffers.next[i].queue_pos \in Int
<1>1. PICK V : buffers \in BuffersOf(V, n)
  BY DEF IsBuffers
<1>2. \A i \in 1 .. n : buffers.current[i] \in Buffer(V) /\ buffers.next[i] \in Buffer(V)
  BY <1>1 DEF BuffersOf
<1> QED
  BY <1>1, <1>2 DEF BuffersOf, Buffer

\* Two buffers are alike for the queue.
SameInQueue(e, f) ==
    /\ e.busy = f.busy /\ e.rob_id = f.rob_id /\ e.op = f.op
    /\ e.queue_pos = f.queue_pos /\ e.a = f.a

\* What an operation leaves of the rest.
SameCounts(new, buffers) ==
    /\ new.current = buffers.current
    /\ new.num_in_queue_current = buffers.num_in_queue_current
    /\ new.num_in_queue_next = buffers.num_in_queue_next
    /\ new.count_address = buffers.count_address
    /\ new.count_enqueue = buffers.count_enqueue

\* A load or store has the free buffer i and the last place in the queue.
QueueJoined(new, buffers, n, i, id, op) ==
    /\ new.current = buffers.current
    /\ new.num_in_queue_current = buffers.num_in_queue_current
    /\ new.num_in_queue_next = buffers.num_in_queue_next + 1
    /\ new.count_address = buffers.count_address
    /\ new.count_enqueue = buffers.count_enqueue + 1
    /\ i \in 1 .. n /\ ~buffers.current[i].busy /\ ~buffers.next[i].busy
    /\ new.next[i].busy /\ new.next[i].rob_id = id /\ new.next[i].op = op
    /\ new.next[i].queue_pos = (buffers.num_in_queue_current + 1) + buffers.count_enqueue
    /\ \A k \in 1 .. n : k # i => new.next[k] = buffers.next[k]

QueueJoins(new, buffers, n, id, op) == \E i \in 1 .. n : QueueJoined(new, buffers, n, i, id, op)

\* memory_buffers_enqueue, with room.
LEMMA EnqueueJoins ==
    ASSUME NEW n \in Nat, NEW buffers, IsBuffers(buffers, n), NEW r, BuffersInStep(buffers, r),
           NEW op, NEW qj, NEW qk, NEW vj, NEW vk, NEW a, NEW id,
           buffers.count_enqueue < memory_buffers_num_free(buffers)
    PROVE  QueueJoins(memory_buffers_enqueue(buffers, op, qj, qk, vj, vk, a, id),
                      buffers, n, id, op)
<1> DEFINE buffer == [busy |-> TRUE, op |-> op, qj |-> qj, qk |-> qk, vj |-> vj, vk |-> vk,
                      a |-> a, rob_id |-> id,
                      queue_pos |-> buffers.num_in_queue_current + 1 + buffers.count_enqueue]
           free == FreeBuffers(buffers)
           i == Nth(free, buffers.count_enqueue)
           new == memory_buffers_enqueue(buffers, op, qj, qk, vj, vk, a, id)
<1>1. PICK V : buffers \in BuffersOf(V, n)
  BY DEF IsBuffers
<1>2. /\ free \in SUBSET (1 .. n) /\ buffers.count_enqueue \in Nat
      /\ \A k : Rank(free, k) \in Nat
      /\ Cardinality(free) \in Nat
      /\ DOMAIN buffers.current = 1 .. n
  BY CountsType, BufferFields, RankType
<1>3. i \in free /\ Rank(free, i) = buffers.count_enqueue
  BY <1>2, RankOfNth DEF memory_buffers_num_free
<1>4. i \in 1 .. n /\ ~buffers.current[i].busy
  BY <1>2, <1>3 DEF FreeBuffers
<1>5. ~buffers.next[i].busy
  BY <1>2, <1>3, <1>4 DEF BuffersInStep
<1>6. new = [buffers EXCEPT !.next[i] = buffer, !.num_in_queue_next = @ + 1,
                            !.count_enqueue = @ + 1]
  <2>1. ~(buffers.count_enqueue >= memory_buffers_num_free(buffers))
    BY <1>2 DEF memory_buffers_num_free
  <2> QED
    BY <2>1 DEF memory_buffers_enqueue
<1>7. /\ buffer.busy /\ buffer.rob_id = id /\ buffer.op = op
      /\ buffer.queue_pos = (buffers.num_in_queue_current + 1) + buffers.count_enqueue
  <2>1. buffers.num_in_queue_current \in Int /\ buffers.count_enqueue \in Nat
    BY <1>1 DEF BuffersOf
  <2> QED
    BY <2>1
<1> HIDE DEF buffer, i, new
<1>8. /\ new.current = buffers.current
      /\ new.num_in_queue_current = buffers.num_in_queue_current
      /\ new.num_in_queue_next = buffers.num_in_queue_next + 1
      /\ new.count_address = buffers.count_address
      /\ new.count_enqueue = buffers.count_enqueue + 1
      /\ new.next = [buffers.next EXCEPT ![i] = buffer]
  BY <1>1, <1>6 DEF BuffersOf
<1>9. new.next[i] = buffer /\ \A k \in 1 .. n : k # i => new.next[k] = buffers.next[k]
  BY <1>1, <1>4, <1>8 DEF BuffersOf
<1>10. QueueJoined(new, buffers, n, i, id, op)
  BY <1>4, <1>5, <1>7, <1>8, <1>9 DEF QueueJoined
<1> QED
  BY <1>4, <1>10 DEF QueueJoins, new

\* The load in buffer i has its address, and no store before it writes there.
MayLoad(buffers, r, n, i) ==
    /\ i \in 1 .. n
    /\ buffers.current[i].op \in LoadOp /\ buffers.current[i].busy
    /\ buffers.current[i].queue_pos = 0 /\ buffers.current[i].a # 0
    /\ ~rob_earlier_stores(r, buffers.current[i].rob_id, buffers.current[i].a)

\* It leaves for a memory unit.
QueueSpared(new, buffers, n, i) ==
    /\ SameCounts(new, buffers)
    /\ ~new.next[i].busy
    /\ \A k \in 1 .. n : k # i => new.next[k] = buffers.next[k]

\* memory_buffers_dequeue_memory.
LEMMA DequeueMemorySpares ==
    ASSUME NEW n \in Nat, NEW buffers, IsBuffers(buffers, n), NEW r,
           NEW i \in memory_candidate(buffers, r)
    PROVE  /\ MayLoad(buffers, r, n, i)
           /\ QueueSpared(memory_buffers_dequeue_memory(buffers, i), buffers, n, i)
<1> DEFINE new == memory_buffers_dequeue_memory(buffers, i)
           loads == LoadsToMemory(buffers, r)
<1>1. PICK V : buffers \in BuffersOf(V, n)
  BY DEF IsBuffers
<1>2. /\ loads \in SUBSET (1 .. n) /\ buffers.count_memory \in Nat
      /\ Cardinality(loads) \in Nat
      /\ DOMAIN buffers.current = 1 .. n
  BY CountsType, BufferFields, RankType
<1>3. i \in loads
  <2>1. buffers.count_memory < Cardinality(loads) /\ i = Nth(loads, buffers.count_memory)
    BY DEF memory_candidate
  <2> QED
    BY <1>2, <2>1, RankOfNth
<1>4. MayLoad(buffers, r, n, i)
  BY <1>2, <1>3 DEF MayLoad, LoadsToMemory
<1>5. /\ SameCounts(new, buffers)
      /\ new.next = [buffers.next EXCEPT ![i] = [buffers.next[i] EXCEPT !.busy = FALSE]]
  BY <1>1 DEF BuffersOf, SameCounts, memory_buffers_dequeue_memory
<1>6. /\ new.next[i] = [buffers.next[i] EXCEPT !.busy = FALSE]
      /\ \A k \in 1 .. n : k # i => new.next[k] = buffers.next[k]
  BY <1>1, <1>2, <1>3, <1>5 DEF BuffersOf
<1>7. ~new.next[i].busy
  <2>1. buffers.next[i] \in Buffer(V)
    BY <1>1, <1>2, <1>3 DEF BuffersOf
  <2> QED
    BY <1>6, <2>1 DEF Buffer
<1> QED
  BY <1>4, <1>5, <1>6, <1>7 DEF QueueSpared

\* Buffer e as it is in the queue when those behind pos have moved up.
MovesUp(new, e, pos) ==
    /\ new.busy = e.busy /\ new.rob_id = e.rob_id /\ new.op = e.op /\ new.a = e.a
    /\ new.queue_pos = IF e.busy /\ e.queue_pos > pos THEN e.queue_pos - 1 ELSE e.queue_pos

\* An address unit has been given buffer i, the next in the queue whose turn it is.
QueueLeft(new, buffers, n, i) ==
    /\ new.current = buffers.current
    /\ new.num_in_queue_current = buffers.num_in_queue_current
    /\ new.num_in_queue_next = buffers.num_in_queue_next - 1
    /\ new.count_address = buffers.count_address + 1
    /\ new.count_enqueue = buffers.count_enqueue
    /\ i \in 1 .. n
    /\ i \in ToAddressUnit(buffers) /\ SentBefore(buffers, i) = buffers.count_address
    /\ IF buffers.current[i].op \in StoreOp THEN ~new.next[i].busy
       ELSE /\ new.next[i].busy = buffers.next[i].busy
            /\ new.next[i].rob_id = buffers.next[i].rob_id
            /\ new.next[i].op = buffers.next[i].op
            /\ new.next[i].a = 0 /\ new.next[i].queue_pos = 0
    /\ \A k \in 1 .. n : k # i => MovesUp(new.next[k], buffers.next[k], buffers.next[i].queue_pos)

\* memory_buffers_dequeue_address.
LEMMA DequeueAddressLeaves ==
    ASSUME NEW n \in Nat, NEW buffers, IsBuffers(buffers, n),
           NEW i \in address_candidate(buffers)
    PROVE  QueueLeft(memory_buffers_dequeue_address(buffers, i), buffers, n, i)
<1> DEFINE new == memory_buffers_dequeue_address(buffers, i)
           pos == buffers.next[i].queue_pos
           shifted == shift_queue(buffers, pos)
           is_store == buffers.current[i].op \in StoreOp
<1>1. PICK V : buffers \in BuffersOf(V, n)
  BY DEF IsBuffers
<1>2. i \in ToAddressUnit(buffers) /\ SentBefore(buffers, i) = buffers.count_address
  BY DEF address_candidate, SentBefore
<1>3. i \in 1 .. n
  BY <1>2, CountsType
<1>4. /\ shifted.current = buffers.current
      /\ shifted.num_in_queue_current = buffers.num_in_queue_current
      /\ shifted.num_in_queue_next = buffers.num_in_queue_next - 1
      /\ shifted.count_address = buffers.count_address
      /\ shifted.count_enqueue = buffers.count_enqueue
      /\ DOMAIN shifted.next = 1 .. n
      /\ \A k \in 1 .. n : MovesUp(shifted.next[k], buffers.next[k], pos)
  <2> DEFINE next == [k \in DOMAIN buffers.next |->
                        IF buffers.next[k].busy /\ buffers.next[k].queue_pos > pos
                        THEN MovedUp(buffers.next[k]) ELSE buffers.next[k]]
  <2>1. shifted = [buffers EXCEPT !.num_in_queue_next = @ - 1, !.next = next]
    BY DEF shift_queue, MovedUp
  <2> HIDE DEF shifted
  <2>2. DOMAIN buffers.next = 1 .. n
    BY BufferFields
  <2>3. ASSUME NEW k \in 1 .. n
        PROVE  MovesUp(next[k], buffers.next[k], pos)
    <3>1. buffers.next[k] \in Buffer(V)
      BY <1>1 DEF BuffersOf
    <3>2. LET b == MovedUp(buffers.next[k])
          IN  /\ b.busy = buffers.next[k].busy /\ b.rob_id = buffers.next[k].rob_id
              /\ b.op = buffers.next[k].op /\ b.a = buffers.next[k].a
              /\ b.queue_pos = buffers.next[k].queue_pos - 1
      BY <3>1 DEF Buffer, MovedUp
    <3>3. next[k] = IF buffers.next[k].busy /\ buffers.next[k].queue_pos > pos
                    THEN MovedUp(buffers.next[k]) ELSE buffers.next[k]
      BY <2>2
    <3> HIDE DEF next, pos
    <3>4. CASE buffers.next[k].busy /\ buffers.next[k].queue_pos > pos
      BY <3>2, <3>3, <3>4 DEF MovesUp
    <3>5. CASE ~(buffers.next[k].busy /\ buffers.next[k].queue_pos > pos)
      BY <3>3, <3>5 DEF MovesUp
    <3> QED
      BY <3>4, <3>5
  <2>4. DOMAIN next = 1 .. n
    BY <2>2
  <2> HIDE DEF next, pos
  <2> QED
    BY <1>1, <2>1, <2>3, <2>4 DEF BuffersOf
<1>5. new = [shifted EXCEPT
                !.next[i] = IF is_store THEN [@ EXCEPT !.busy = FALSE]
                            ELSE [@ EXCEPT !.a = 0, !.queue_pos = 0],
                !.count_address = @ + 1]
  BY DEF memory_buffers_dequeue_address
<1>6. shifted \in BuffersOf(V, n)
  BY <1>1, ShiftedBuffers
<1> HIDE DEF shifted, new, is_store, pos
<1> DEFINE changed == IF is_store THEN [shifted.next[i] EXCEPT !.busy = FALSE]
                      ELSE [shifted.next[i] EXCEPT !.a = 0, !.queue_pos = 0]
<1>7. IF is_store THEN ~changed.busy
      ELSE /\ changed.busy = shifted.next[i].busy /\ changed.rob_id = shifted.next[i].rob_id
           /\ changed.op = shifted.next[i].op /\ changed.a = 0 /\ changed.queue_pos = 0
  <2>1. shifted.next[i] \in Buffer(V)
    BY <1>3, <1>6 DEF BuffersOf
  <2>2. CASE is_store
    BY <2>1, <2>2 DEF Buffer
  <2>3. CASE ~is_store
    BY <2>1, <2>3 DEF Buffer
  <2> QED
    BY <2>2, <2>3
<1>8. /\ new.current = shifted.current
      /\ new.num_in_queue_current = shifted.num_in_queue_current
      /\ new.num_in_queue_next = shifted.num_in_queue_next
      /\ new.count_address = shifted.count_address + 1
      /\ new.count_enqueue = shifted.count_enqueue
      /\ new.next = [shifted.next EXCEPT ![i] = changed]
  BY <1>5, <1>6 DEF BuffersOf
<1> HIDE DEF changed
<1>9. new.next[i] = changed /\ \A k \in 1 .. n : k # i => new.next[k] = shifted.next[k]
  BY <1>3, <1>4, <1>8
<1>10. /\ shifted.next[i].busy = buffers.next[i].busy
       /\ shifted.next[i].rob_id = buffers.next[i].rob_id
       /\ shifted.next[i].op = buffers.next[i].op
  BY <1>3, <1>4 DEF MovesUp
<1>11. IF is_store THEN ~new.next[i].busy
       ELSE /\ new.next[i].busy = buffers.next[i].busy
            /\ new.next[i].rob_id = buffers.next[i].rob_id
            /\ new.next[i].op = buffers.next[i].op
            /\ new.next[i].a = 0 /\ new.next[i].queue_pos = 0
  <2>1. CASE is_store
    BY <1>7, <1>9, <2>1
  <2>2. CASE ~is_store
    BY <1>7, <1>9, <1>10, <2>2
  <2> QED
    BY <2>1, <2>2
<1>12. QueueLeft(new, buffers, n, i)
  BY <1>2, <1>3, <1>4, <1>8, <1>9, <1>11 DEF QueueLeft, is_store, pos
<1> QED
  BY <1>12 DEF new

\* Buffer i, if it is one, has the address; its place in the queue is 0.
QueueAddressed(new, buffers, n, i, address) ==
    /\ SameCounts(new, buffers)
    /\ i \in 1 .. n => /\ new.next[i].busy = buffers.next[i].busy
                       /\ new.next[i].rob_id = buffers.next[i].rob_id
                       /\ new.next[i].op = buffers.next[i].op
                       /\ new.next[i].a = address /\ new.next[i].queue_pos = 0
    /\ \A k \in 1 .. n : k # i => new.next[k] = buffers.next[k]

\* memory_buffers_add_address.
LEMMA AddAddresses ==
    ASSUME NEW n, NEW buffers, IsBuffers(buffers, n), NEW i, NEW address
    PROVE  QueueAddressed(memory_buffers_add_address(buffers, i, address), buffers, n, i, address)
<1> DEFINE new == memory_buffers_add_address(buffers, i, address)
           changed == [buffers.next[i] EXCEPT !.a = address, !.queue_pos = 0]
<1>1. PICK V : buffers \in BuffersOf(V, n)
  BY DEF IsBuffers
<1>2. /\ SameCounts(new, buffers)
      /\ new.next = [buffers.next EXCEPT ![i] = changed]
  BY <1>1 DEF BuffersOf, SameCounts, memory_buffers_add_address
<1>3. i \in 1 .. n => /\ changed.busy = buffers.next[i].busy
                      /\ changed.rob_id = buffers.next[i].rob_id
                      /\ changed.op = buffers.next[i].op
                      /\ changed.a = address /\ changed.queue_pos = 0
  <2>1. i \in 1 .. n => buffers.next[i] \in Buffer(V)
    BY <1>1 DEF BuffersOf
  <2> QED
    BY <2>1 DEF Buffer
<1> HIDE DEF changed, new
<1>4. DOMAIN buffers.next = 1 .. n
  BY BufferFields
<1>5. QueueAddressed(new, buffers, n, i, address)
  BY <1>2, <1>3, <1>4 DEF QueueAddressed
<1> QED
  BY <1>5 DEF new

\* Nobody's place has changed.
QueueKept(new, buffers, n) ==
    /\ SameCounts(new, buffers)
    /\ \A k \in 1 .. n : SameInQueue(new.next[k], buffers.next[k])

\* memory_buffers_step.
LEMMA StepKeepsQueue ==
    ASSUME NEW n \in Nat, NEW buffers, IsBuffers(buffers, n), NEW bus
    PROVE  QueueKept(memory_buffers_step(buffers, bus), buffers, n)
<1> DEFINE new == memory_buffers_step(buffers, bus)
<1>1. PICK V : buffers \in BuffersOf(V, n)
  BY DEF IsBuffers
<1>2. DOMAIN buffers.next = 1 .. n
  BY BufferFields
<1>3. /\ SameCounts(new, buffers)
      /\ new.next = [i \in 1 .. n |-> Captured(buffers.next[i], bus)]
  BY <1>1, <1>2 DEF BuffersOf, SameCounts, memory_buffers_step
<1> HIDE DEF new
<1>4. ASSUME NEW k \in 1 .. n
      PROVE  SameInQueue(new.next[k], buffers.next[k])
  <2>1. buffers.next[k] \in Buffer(V)
    BY <1>1 DEF BuffersOf
  <2>2. new.next[k] = Captured(buffers.next[k], bus)
    BY <1>3
  <2>3. CASE ~buffers.next[k].busy
    BY <2>2, <2>3 DEF Captured, SameInQueue
  <2>4. CASE buffers.next[k].busy
    <3> DEFINE e == buffers.next[k]
    <3>1. PICK vj, qj, vk, qk : new.next[k] = [e EXCEPT !.vj = vj, !.qj = qj, !.vk = vk, !.qk = qk]
      BY <2>2, <2>4 DEF Captured
    <3> HIDE DEF e
    <3>2. SameInQueue(new.next[k], e)
      BY <2>1, <3>1 DEF Buffer, SameInQueue, e
    <3> QED
      BY <3>2 DEF e
  <2> QED
    BY <2>3, <2>4
<1> QED
  BY <1>3, <1>4 DEF QueueKept, new

\* memory_buffers_clear and memory_buffers_update_current.
LEMMA ClearAndUpdateQueue ==
    ASSUME NEW n, NEW buffers, IsBuffers(buffers, n)
    PROVE  /\ LET new == memory_buffers_clear(buffers)
              IN  /\ new.current = buffers.current
                  /\ new.num_in_queue_next = 0
                  /\ DOMAIN new.next = 1 .. n
                  /\ \A k \in 1 .. n : ~new.next[k].busy
           /\ LET new == memory_buffers_update_current(buffers)
              IN  /\ new.current = buffers.next /\ new.next = buffers.next
                  /\ new.num_in_queue_current = buffers.num_in_queue_next
                  /\ new.num_in_queue_next = buffers.num_in_queue_next
                  /\ new.count_address = 0 /\ new.count_enqueue = 0
<1>1. PICK V : buffers \in BuffersOf(V, n)
  BY DEF IsBuffers
<1>2. DOMAIN buffers.next = 1 .. n /\ \A k \in 1 .. n : buffers.next[k] \in Buffer(V)
  BY <1>1 DEF BuffersOf
<1>3. \A k \in 1 .. n : ~[buffers.next[k] EXCEPT !.busy = FALSE].busy
  BY <1>2 DEF Buffer
<1>4. LET new == memory_buffers_clear(buffers)
      IN  /\ new.current = buffers.current
          /\ new.num_in_queue_next = 0
          /\ new.next = [k \in 1 .. n |-> [buffers.next[k] EXCEPT !.busy = FALSE]]
  BY <1>1, <1>2 DEF BuffersOf, memory_buffers_clear
<1>5. LET new == memory_buffers_update_current(buffers)
      IN  /\ new.current = buffers.next /\ new.next = buffers.next
          /\ new.num_in_queue_current = buffers.num_in_queue_next
          /\ new.num_in_queue_next = buffers.num_in_queue_next
          /\ new.count_address = 0 /\ new.count_enqueue = 0
  BY <1>1 DEF BuffersOf, memory_buffers_update_current
<1> QED
  BY <1>3, <1>4, <1>5

-----------------------------------------------------------------------------

(* The queue of the memory buffers: its order, from the start of a cycle on. *)

\* The buffers of a copy that wait for an address unit.
InQueue(copy) == {i \in DOMAIN copy : copy[i].busy /\ copy[i].queue_pos # 0}

\* Their places are 1 .. num, each taken once.
Ordered(copy, num) ==
    /\ num \in Nat
    /\ \A i \in InQueue(copy) : copy[i].queue_pos \in 1 .. num
    /\ \A p \in 1 .. num : \E i \in InQueue(copy) : copy[i].queue_pos = p
    /\ \A i, k \in InQueue(copy) : copy[i].queue_pos = copy[k].queue_pos => i = k

\* An address unit has been given buffer i in this cycle.
Sent(buffers, i) ==
    i \in ToAddressUnit(buffers) /\ SentBefore(buffers, i) < buffers.count_address

\* Of the queue at the start of the cycle the next copy lacks those that have been sent; the
\* others are in the order of before, and those that have entered are behind them.
QueueInStep(buffers) ==
    /\ Ordered(buffers.current, buffers.num_in_queue_current)
    /\ \A i \in DOMAIN buffers.current :
           buffers.current[i].busy =>
               (i \in InQueue(buffers.next)
                    <=> i \in InQueue(buffers.current) /\ ~Sent(buffers, i))
    /\ \A i, k \in InQueue(buffers.next) :
           /\ i # k /\ buffers.current[i].busy
           /\ buffers.current[k].busy
                  => buffers.current[i].queue_pos < buffers.current[k].queue_pos
           => buffers.next[i].queue_pos < buffers.next[k].queue_pos

-----------------------------------------------------------------------------

\* What the lemmas need of the shape.
QueueShape(buffers, n) ==
    /\ DOMAIN buffers.current = 1 .. n /\ DOMAIN buffers.next = 1 .. n
    /\ buffers.num_in_queue_current \in Int /\ buffers.num_in_queue_next \in Int
    /\ buffers.count_address \in Nat /\ buffers.count_enqueue \in Nat
    /\ \A i \in 1 .. n : /\ buffers.current[i].queue_pos \in Int
                         /\ buffers.next[i].queue_pos \in Int

\* Buffers have it.
LEMMA QueueShaped ==
    ASSUME NEW n, NEW buffers, IsBuffers(buffers, n)
    PROVE  QueueShape(buffers, n)
  BY QueueFields, BufferFields DEF QueueShape

\* Who is in the queue.
LEMMA InQueueMember ==
    ASSUME NEW copy, NEW i
    PROVE  i \in InQueue(copy) <=> i \in DOMAIN copy /\ copy[i].busy /\ copy[i].queue_pos # 0
  BY DEF InQueue

\* The queue is in step, and in order.
QueueSound(buffers) ==
    Ordered(buffers.next, buffers.num_in_queue_next) /\ QueueInStep(buffers)

\* Nobody overtakes, and nobody new is there.
KeepsOrder(new, old) ==
    /\ \A k \in InQueue(new) : /\ k \in InQueue(old)
                               /\ new[k].rob_id = old[k].rob_id /\ new[k].op = old[k].op
    /\ \A k, l \in InQueue(new) :
           new[k].queue_pos < new[l].queue_pos => old[k].queue_pos < old[l].queue_pos

\* Who is sent depends on the current copy and the number of those sent.
LEMMA SameSent ==
    ASSUME NEW new, NEW buffers, new.current = buffers.current
    PROVE  /\ ToAddressUnit(new) = ToAddressUnit(buffers)
           /\ \A k : SentBefore(new, k) = SentBefore(buffers, k)
           /\ new.count_address = buffers.count_address
                  => \A k : Sent(new, k) <=> Sent(buffers, k)
<1>1. ToAddressUnit(new) = ToAddressUnit(buffers)
  BY DEF ToAddressUnit, Queued
<1>2. \A k : SentBefore(new, k) = SentBefore(buffers, k)
  BY <1>1 DEF SentBefore
<1> QED
  BY <1>1, <1>2 DEF Sent

\* If nothing changes for the queue, it stays as it is.
LEMMA QueueRests ==
    ASSUME NEW n, NEW buffers, QueueShape(buffers, n), NEW new,
           DOMAIN new.next = 1 .. n, SameCounts(new, buffers),
           \A k \in 1 .. n : (k \in InQueue(new.next) <=> k \in InQueue(buffers.next)),
           \A k \in InQueue(buffers.next) : SameInQueue(new.next[k], buffers.next[k]),
           QueueSound(buffers)
    PROVE  QueueSound(new) /\ KeepsOrder(new.next, buffers.next)
<1>1. /\ DOMAIN buffers.next = 1 .. n /\ DOMAIN buffers.current = 1 .. n
      /\ new.current = buffers.current
      /\ new.num_in_queue_next = buffers.num_in_queue_next
      /\ new.num_in_queue_current = buffers.num_in_queue_current
      /\ new.count_address = buffers.count_address
  BY DEF QueueShape, SameCounts
<1>2. InQueue(new.next) = InQueue(buffers.next)
  BY <1>1, InQueueMember
<1>3. \A k \in InQueue(buffers.next) :
         /\ new.next[k].queue_pos = buffers.next[k].queue_pos
         /\ new.next[k].rob_id = buffers.next[k].rob_id
         /\ new.next[k].op = buffers.next[k].op
  BY DEF SameInQueue
<1>4. Ordered(new.next, new.num_in_queue_next)
  BY <1>1, <1>2, <1>3 DEF Ordered, QueueSound
<1>5. \A k : Sent(new, k) <=> Sent(buffers, k)
  BY <1>1, SameSent
<1>6. QueueInStep(new)
  BY <1>1, <1>2, <1>3, <1>5 DEF QueueInStep, QueueSound
<1>7. KeepsOrder(new.next, buffers.next)
  BY <1>2, <1>3 DEF KeepsOrder
<1> QED
  BY <1>4, <1>6, <1>7 DEF QueueSound

\* In the phases before the address units nobody has been sent, and the queue has grown by
\* those that entered.
QueueGrows(buffers) ==
    /\ buffers.count_address = 0
    /\ buffers.num_in_queue_next = buffers.num_in_queue_current + buffers.count_enqueue

\* The queue gains i at its end.
QueueGains(new, old, i, id, op) ==
    /\ i \in InQueue(new) /\ i \notin InQueue(old)
    /\ new[i].rob_id = id /\ new[i].op = op
    /\ \A k \in InQueue(new) : k # i => /\ k \in InQueue(old) /\ new[k] = old[k]
                                        /\ new[k].queue_pos < new[i].queue_pos

\* A load or store that enters is last.
LEMMA QueueAfterJoin ==
    ASSUME NEW n, NEW buffers, QueueShape(buffers, n), NEW new, QueueShape(new, n),
           NEW i, NEW id, NEW op, QueueJoined(new, buffers, n, i, id, op),
           QueueSound(buffers), QueueGrows(buffers)
    PROVE  QueueSound(new) /\ QueueGrows(new) /\ QueueGains(new.next, buffers.next, i, id, op)
<1> DEFINE num == buffers.num_in_queue_next
<1>1. /\ DOMAIN buffers.next = 1 .. n /\ DOMAIN buffers.current = 1 .. n
      /\ DOMAIN new.next = 1 .. n
      /\ new.current = buffers.current
      /\ new.num_in_queue_next = num + 1
      /\ new.num_in_queue_current = buffers.num_in_queue_current
      /\ new.count_address = buffers.count_address
      /\ new.count_enqueue = buffers.count_enqueue + 1
  BY DEF QueueShape, QueueJoined
<1>2. /\ i \in 1 .. n /\ ~buffers.current[i].busy /\ ~buffers.next[i].busy
      /\ new.next[i].busy /\ new.next[i].rob_id = id /\ new.next[i].op = op
      /\ \A k \in 1 .. n : k # i => new.next[k] = buffers.next[k]
  BY DEF QueueJoined
<1>3. num \in Nat /\ new.next[i].queue_pos = num + 1
  BY DEF QueueShape, QueueJoined, QueueGrows, QueueSound, Ordered
<1>4. QueueGrows(new)
  <2>1. buffers.num_in_queue_current \in Int /\ buffers.count_enqueue \in Nat
    BY DEF QueueShape
  <2> QED
    BY <1>1, <2>1 DEF QueueGrows
<1>5. i \in InQueue(new.next) /\ i \notin InQueue(buffers.next)
  <2>1. new.next[i].queue_pos # 0
    BY <1>3
  <2>2. i \in DOMAIN new.next
    BY <1>1, <1>2
  <2> QED
    BY <1>2, <2>1, <2>2, InQueueMember
<1>6. ASSUME NEW k
      PROVE  k \in InQueue(new.next) <=> k = i \/ k \in InQueue(buffers.next)
  <2>1. CASE k = i
    BY <1>5, <2>1
  <2>2. CASE k # i /\ k \in 1 .. n
    <3>1. new.next[k] = buffers.next[k]
      BY <1>2, <2>2
    <3> QED
      BY <1>1, <2>2, <3>1, InQueueMember
  <2>3. CASE k # i /\ k \notin 1 .. n
    BY <1>1, <2>3, InQueueMember
  <2> QED
    BY <2>1, <2>2, <2>3
<1>7. \A k \in InQueue(buffers.next) : /\ k \in 1 .. n /\ k # i /\ new.next[k] = buffers.next[k]
                                       /\ buffers.next[k].queue_pos \in 1 .. num
  BY <1>1, <1>2, <1>5, InQueueMember DEF QueueSound, Ordered
<1>8. Ordered(new.next, new.num_in_queue_next)
  <2>1. \A k \in InQueue(new.next) : new.next[k].queue_pos \in 1 .. num + 1
    BY <1>3, <1>6, <1>7
  <2>2. ASSUME NEW p \in 1 .. num + 1
        PROVE  \E k \in InQueue(new.next) : new.next[k].queue_pos = p
    <3>1. CASE p = num + 1
      BY <1>3, <1>5, <3>1
    <3>2. CASE p # num + 1
      <4>1. p \in 1 .. num
        BY <1>3, <3>2
      <4>2. PICK k \in InQueue(buffers.next) : buffers.next[k].queue_pos = p
        BY <4>1 DEF QueueSound, Ordered
      <4> QED
        BY <1>6, <1>7, <4>2
    <3> QED
      BY <3>1, <3>2
  <2>3. ASSUME NEW k \in InQueue(new.next), NEW l \in InQueue(new.next),
               new.next[k].queue_pos = new.next[l].queue_pos
        PROVE  k = l
    <3>1. CASE k \in InQueue(buffers.next) /\ l \in InQueue(buffers.next)
      BY <1>7, <2>3, <3>1 DEF QueueSound, Ordered
    <3>2. CASE k \notin InQueue(buffers.next) \/ l \notin InQueue(buffers.next)
      BY <1>3, <1>6, <1>7, <2>3, <3>2
    <3> QED
      BY <3>1, <3>2
  <2> QED
    BY <1>1, <1>3, <2>1, <2>2, <2>3 DEF Ordered
<1>9. \A k : Sent(new, k) <=> Sent(buffers, k)
  BY <1>1, SameSent
<1>10. QueueInStep(new)
  <2>1. Ordered(new.current, new.num_in_queue_current)
    BY <1>1 DEF QueueSound, QueueInStep
  <2>2. ASSUME NEW k \in DOMAIN new.current, new.current[k].busy
        PROVE  k \in InQueue(new.next) <=> k \in InQueue(new.current) /\ ~Sent(new, k)
    BY <1>1, <1>2, <1>6, <1>9, <2>2 DEF QueueSound, QueueInStep
  <2>3. ASSUME NEW k \in InQueue(new.next), NEW l \in InQueue(new.next),
               k # l, new.current[k].busy,
               new.current[l].busy => new.current[k].queue_pos < new.current[l].queue_pos
        PROVE  new.next[k].queue_pos < new.next[l].queue_pos
    <3>1. k # i /\ k \in InQueue(buffers.next)
      BY <1>1, <1>2, <1>6, <2>3
    <3>2. CASE l = i
      BY <1>3, <1>7, <3>1, <3>2
    <3>3. CASE l # i
      BY <1>1, <1>6, <1>7, <2>3, <3>1, <3>3 DEF QueueSound, QueueInStep
    <3> QED
      BY <3>2, <3>3
  <2> QED
    BY <2>1, <2>2, <2>3 DEF QueueInStep
<1>11. QueueGains(new.next, buffers.next, i, id, op)
  BY <1>2, <1>3, <1>5, <1>6, <1>7 DEF QueueGains
<1> QED
  BY <1>4, <1>8, <1>10, <1>11 DEF QueueSound

\* A load that is read from memory has not been in the queue.
LEMMA QueueAfterMemory ==
    ASSUME NEW n, NEW buffers, QueueShape(buffers, n), NEW new, QueueShape(new, n), NEW i, NEW r,
           MayLoad(buffers, r, n, i), QueueSpared(new, buffers, n, i), QueueSound(buffers)
    PROVE  QueueSound(new) /\ KeepsOrder(new.next, buffers.next)
<1>1. /\ DOMAIN buffers.next = 1 .. n /\ DOMAIN buffers.current = 1 .. n
      /\ DOMAIN new.next = 1 .. n
  BY DEF QueueShape
<1>2. i \notin InQueue(buffers.next) /\ i \notin InQueue(new.next)
  <2>1. i \in 1 .. n /\ buffers.current[i].busy /\ i \notin InQueue(buffers.current)
    BY InQueueMember DEF MayLoad
  <2>2. ~new.next[i].busy
    BY DEF QueueSpared
  <2> QED
    BY <1>1, <2>1, <2>2, InQueueMember DEF QueueSound, QueueInStep
<1>3. SameCounts(new, buffers) /\ \A k \in 1 .. n : k # i => new.next[k] = buffers.next[k]
  BY DEF QueueSpared
<1>4. \A k \in 1 .. n : (k \in InQueue(new.next) <=> k \in InQueue(buffers.next))
  BY <1>1, <1>2, <1>3, InQueueMember
<1>5. \A k \in InQueue(buffers.next) : SameInQueue(new.next[k], buffers.next[k])
  BY <1>1, <1>2, <1>3, InQueueMember DEF SameInQueue
<1> QED
  BY <1>1, <1>3, <1>4, <1>5, QueueRests

\* Nor has a buffer whose address comes from its unit.
LEMMA QueueAfterAddress ==
    ASSUME NEW n, NEW buffers, QueueShape(buffers, n), NEW new, QueueShape(new, n), NEW i, NEW address,
           i \in 1 .. n, buffers.next[i].queue_pos = 0,
           QueueAddressed(new, buffers, n, i, address), QueueSound(buffers)
    PROVE  QueueSound(new) /\ KeepsOrder(new.next, buffers.next)
<1>1. /\ DOMAIN buffers.next = 1 .. n /\ DOMAIN buffers.current = 1 .. n
      /\ DOMAIN new.next = 1 .. n
  BY DEF QueueShape
<1>2. i \notin InQueue(buffers.next) /\ i \notin InQueue(new.next)
  BY InQueueMember DEF QueueAddressed
<1>3. SameCounts(new, buffers) /\ \A k \in 1 .. n : k # i => new.next[k] = buffers.next[k]
  BY DEF QueueAddressed
<1>4. \A k \in 1 .. n : (k \in InQueue(new.next) <=> k \in InQueue(buffers.next))
  BY <1>1, <1>2, <1>3, InQueueMember
<1>5. \A k \in InQueue(buffers.next) : SameInQueue(new.next[k], buffers.next[k])
  BY <1>1, <1>2, <1>3, InQueueMember DEF SameInQueue
<1> QED
  BY <1>1, <1>3, <1>4, <1>5, QueueRests

\* What is captured from the bus moves nobody.
LEMMA QueueAfterStep ==
    ASSUME NEW n, NEW buffers, QueueShape(buffers, n), NEW new, QueueShape(new, n),
           QueueKept(new, buffers, n), QueueSound(buffers)
    PROVE  QueueSound(new) /\ KeepsOrder(new.next, buffers.next)
<1>1. DOMAIN buffers.next = 1 .. n /\ DOMAIN new.next = 1 .. n
  BY DEF QueueShape
<1>2. SameCounts(new, buffers) /\ \A k \in 1 .. n : SameInQueue(new.next[k], buffers.next[k])
  BY DEF QueueKept
<1>3. \A k \in 1 .. n : (k \in InQueue(new.next) <=> k \in InQueue(buffers.next))
  BY <1>1, <1>2, InQueueMember DEF SameInQueue
<1>4. \A k \in InQueue(buffers.next) : SameInQueue(new.next[k], buffers.next[k])
  BY <1>1, <1>2, InQueueMember
<1> QED
  BY <1>1, <1>2, <1>3, <1>4, QueueRests

-----------------------------------------------------------------------------

\* Those sent to the address units are sent one by one.
LEMMA SentInOrder ==
    ASSUME NEW n \in Nat, NEW buffers, IsBuffers(buffers, n),
           NEW i \in ToAddressUnit(buffers), NEW k \in ToAddressUnit(buffers),
           buffers.current[i].queue_pos < buffers.current[k].queue_pos
    PROVE  SentBefore(buffers, i) < SentBefore(buffers, k)
<1> DEFINE before(j) == {l \in ToAddressUnit(buffers) :
                            buffers.current[l].queue_pos < buffers.current[j].queue_pos}
<1>1. ToAddressUnit(buffers) \in SUBSET (1 .. n)
  BY CountsType
<1>2. \A l \in ToAddressUnit(buffers) : buffers.current[l].queue_pos \in Int
  BY <1>1, QueueFields
<1>3. IsFiniteSet(before(k)) /\ Cardinality(before(k)) \in Nat
  <2>1. IsFiniteSet(1 .. n)
    BY FS_Interval
  <2>2. before(k) \in SUBSET (1 .. n)
    BY <1>1
  <2> HIDE DEF before
  <2>3. IsFiniteSet(before(k))
    BY <2>1, <2>2, FS_Subset
  <2> QED
    BY <2>3, FS_CardinalityType
<1>4. before(i) \in SUBSET before(k) /\ i \in before(k) /\ i \notin before(i)
  BY <1>2
<1>5. SentBefore(buffers, i) = Cardinality(before(i)) /\ SentBefore(buffers, k) = Cardinality(before(k))
  BY DEF SentBefore
<1> HIDE DEF before
<1>6. /\ Cardinality(before(i)) \in Nat /\ Cardinality(before(i)) <= Cardinality(before(k))
      /\ Cardinality(before(i)) # Cardinality(before(k))
  <2>1. /\ IsFiniteSet(before(i))
        /\ Cardinality(before(i)) <= Cardinality(before(k))
        /\ Cardinality(before(k)) = Cardinality(before(i)) => before(k) = before(i)
    BY <1>3, <1>4, FS_Subset
  <2>2. Cardinality(before(i)) \in Nat
    BY <2>1, FS_CardinalityType
  <2> QED
    BY <1>4, <2>1, <2>2
<1> QED
  BY <1>3, <1>5, <1>6

\* One more is sent, and only that one.
LEMMA OneMoreSent ==
    ASSUME NEW n \in Nat, NEW buffers, IsBuffers(buffers, n), NEW new, IsBuffers(new, n),
           NEW i, QueueLeft(new, buffers, n, i), QueueSound(buffers), NEW k \in InQueue(buffers.current)
    PROVE  Sent(new, k) <=> Sent(buffers, k) \/ k = i
<1>1. /\ new.current = buffers.current /\ new.count_address = buffers.count_address + 1
      /\ i \in ToAddressUnit(buffers) /\ SentBefore(buffers, i) = buffers.count_address
      /\ buffers.count_address \in Nat
  BY QueueShaped DEF QueueLeft, QueueShape
<1>2. ToAddressUnit(new) = ToAddressUnit(buffers) /\ SentBefore(new, k) = SentBefore(buffers, k)
  BY <1>1, SameSent
<1>3. SentBefore(buffers, k) \in Nat
  BY CountsType
<1>4. CASE k \notin ToAddressUnit(buffers)
  BY <1>1, <1>2, <1>4 DEF Sent
<1>5. CASE k \in ToAddressUnit(buffers)
  <2>1. i \in InQueue(buffers.current)
    BY <1>1 DEF ToAddressUnit, Queued, InQueue
  <2>2. /\ buffers.current[i].queue_pos \in Int /\ buffers.current[k].queue_pos \in Int
        /\ buffers.current[i].queue_pos = buffers.current[k].queue_pos => i = k
    BY <2>1, QueueShaped, InQueueMember DEF QueueShape, QueueSound, QueueInStep, Ordered
  <2>3. k # i => SentBefore(buffers, k) # SentBefore(buffers, i)
    <3>1. CASE buffers.current[i].queue_pos < buffers.current[k].queue_pos
      <4>1. SentBefore(buffers, i) < SentBefore(buffers, k)
        BY <1>1, <1>5, <3>1, SentInOrder
      <4> QED
        BY <1>1, <1>3, <4>1
    <3>2. CASE buffers.current[k].queue_pos < buffers.current[i].queue_pos
      <4>1. SentBefore(buffers, k) < SentBefore(buffers, i)
        BY <1>1, <1>5, <3>2, SentInOrder
      <4> QED
        BY <1>1, <1>3, <4>1
    <3> QED
      BY <2>2, <3>1, <3>2
  <2>4. Sent(new, k) <=> SentBefore(buffers, k) < buffers.count_address + 1
    BY <1>1, <1>2, <1>5 DEF Sent
  <2>5. Sent(buffers, k) <=> SentBefore(buffers, k) < buffers.count_address
    BY <1>5 DEF Sent
  <2>6. k = i => SentBefore(buffers, k) = buffers.count_address
    BY <1>1
  <2> QED
    BY <1>1, <1>3, <2>3, <2>4, <2>5, <2>6
<1> QED
  BY <1>4, <1>5

\* What leaves the queue has been in it.
LEMMA LeavesFromQueue ==
    ASSUME NEW n \in Nat, NEW buffers, IsBuffers(buffers, n), NEW new,
           NEW i, QueueLeft(new, buffers, n, i), QueueSound(buffers)
    PROVE  /\ i \in 1 .. n /\ buffers.current[i].busy
           /\ i \in InQueue(buffers.current) /\ i \in InQueue(buffers.next)
<1>1. /\ i \in 1 .. n
      /\ i \in ToAddressUnit(buffers) /\ SentBefore(buffers, i) = buffers.count_address
      /\ buffers.count_address \in Nat
      /\ DOMAIN buffers.current = 1 .. n
  BY QueueShaped DEF QueueLeft, QueueShape
<1>2. i \in InQueue(buffers.current) /\ buffers.current[i].busy
  BY <1>1 DEF ToAddressUnit, Queued, InQueue
<1>3. ~Sent(buffers, i)
  BY <1>1 DEF Sent
<1>4. i \in InQueue(buffers.next)
  BY <1>1, <1>2, <1>3 DEF QueueSound, QueueInStep
<1> QED
  BY <1>1, <1>2, <1>4

\* The queue closes up behind what leaves.
LEMMA QueueAfterLeave ==
    ASSUME NEW n \in Nat, NEW buffers, IsBuffers(buffers, n), NEW new, IsBuffers(new, n),
           NEW i, QueueLeft(new, buffers, n, i), QueueSound(buffers)
    PROVE  /\ QueueSound(new) /\ KeepsOrder(new.next, buffers.next)
           /\ i \notin InQueue(new.next)
<1> DEFINE num == buffers.num_in_queue_next
           pos == buffers.next[i].queue_pos
           old(k) == buffers.next[k].queue_pos
           now(k) == new.next[k].queue_pos
<1>1. /\ DOMAIN buffers.next = 1 .. n /\ DOMAIN buffers.current = 1 .. n
      /\ DOMAIN new.next = 1 .. n
      /\ \A k \in 1 .. n : old(k) \in Int /\ now(k) \in Int
  BY QueueShaped DEF QueueShape
<1>2. /\ i \in 1 .. n /\ buffers.current[i].busy
      /\ i \in InQueue(buffers.current) /\ i \in InQueue(buffers.next)
  BY LeavesFromQueue
<1>3. /\ new.current = buffers.current
      /\ new.num_in_queue_current = buffers.num_in_queue_current
      /\ new.num_in_queue_next = num - 1
      /\ ~new.next[i].busy \/ new.next[i].queue_pos = 0
      /\ \A k \in 1 .. n : k # i => MovesUp(new.next[k], buffers.next[k], pos)
  BY DEF QueueLeft
<1>4. /\ num \in Nat
      /\ \A k \in InQueue(buffers.next) : old(k) \in 1 .. num
      /\ \A p \in 1 .. num : \E k \in InQueue(buffers.next) : old(k) = p
      /\ \A k, l \in InQueue(buffers.next) : old(k) = old(l) => k = l
  BY DEF QueueSound, Ordered
<1>5. i \notin InQueue(new.next)
  BY <1>3, InQueueMember
<1>6. ASSUME NEW k \in 1 .. n, k # i
      PROVE  /\ new.next[k].busy = buffers.next[k].busy
             /\ new.next[k].rob_id = buffers.next[k].rob_id
             /\ new.next[k].op = buffers.next[k].op
             /\ now(k) = IF buffers.next[k].busy /\ old(k) > pos THEN old(k) - 1 ELSE old(k)
  BY <1>3, <1>6 DEF MovesUp
<1>7. num >= 1 /\ pos \in 1 .. num
  BY <1>2, <1>4
<1> HIDE DEF old, now, pos
<1>8. ASSUME NEW k \in InQueue(buffers.next), k # i
      PROVE  /\ k \in InQueue(new.next)
             /\ new.next[k].rob_id = buffers.next[k].rob_id
             /\ new.next[k].op = buffers.next[k].op
             /\ now(k) = IF old(k) > pos THEN old(k) - 1 ELSE old(k)
             /\ old(k) # pos /\ old(k) \in 1 .. num
  <2>1. k \in 1 .. n /\ buffers.next[k].busy /\ old(k) \in 1 .. num /\ old(k) # pos
    BY <1>1, <1>2, <1>4, <1>8, InQueueMember DEF old, pos
  <2>2. now(k) = IF old(k) > pos THEN old(k) - 1 ELSE old(k)
    BY <1>6, <1>8, <2>1
  <2>3. now(k) # 0
    BY <1>7, <2>1, <2>2
  <2>4. new.next[k].busy /\ new.next[k].queue_pos # 0
    BY <1>6, <1>8, <2>1, <2>3 DEF now
  <2> QED
    BY <1>1, <1>6, <1>8, <2>1, <2>2, <2>4, InQueueMember
<1>9. ASSUME NEW k \in InQueue(new.next)
      PROVE  k \in InQueue(buffers.next) /\ k # i
  <2>1. k \in 1 .. n /\ k # i /\ new.next[k].busy /\ now(k) # 0
    BY <1>1, <1>5, InQueueMember DEF now
  <2>2. buffers.next[k].busy
    BY <1>6, <2>1
  <2>3. old(k) # 0
    BY <1>6, <1>7, <2>1
  <2> QED
    BY <1>1, <2>1, <2>2, <2>3, InQueueMember DEF old
<1>10. ASSUME NEW k \in InQueue(new.next), NEW l \in InQueue(new.next)
       PROVE  /\ now(k) < now(l) <=> old(k) < old(l)
              /\ now(k) = now(l) => k = l
  <2>1. /\ now(k) = IF old(k) > pos THEN old(k) - 1 ELSE old(k)
        /\ now(l) = IF old(l) > pos THEN old(l) - 1 ELSE old(l)
        /\ old(k) # pos /\ old(k) \in 1 .. num /\ old(l) # pos /\ old(l) \in 1 .. num
        /\ old(k) = old(l) => k = l
    BY <1>4, <1>8, <1>9
  <2> QED
    BY <1>4, <1>7, <2>1
<1>11. KeepsOrder(new.next, buffers.next)
  BY <1>8, <1>9, <1>10 DEF KeepsOrder, old, now
<1>12. Ordered(new.next, new.num_in_queue_next)
  <2>1. ASSUME NEW k \in InQueue(new.next)
        PROVE  now(k) \in 1 .. num - 1
    BY <1>4, <1>7, <1>8, <1>9
  <2>2. ASSUME NEW p \in 1 .. num - 1
        PROVE  \E k \in InQueue(new.next) : now(k) = p
    <3> DEFINE q == IF p < pos THEN p ELSE p + 1
    <3>1. q \in 1 .. num /\ q # pos
      BY <1>4, <1>7
    <3>2. PICK k \in InQueue(buffers.next) : old(k) = q
      BY <1>4, <3>1
    <3>3. k # i
      BY <3>1, <3>2 DEF old, pos
    <3>4. k \in InQueue(new.next) /\ now(k) = IF old(k) > pos THEN old(k) - 1 ELSE old(k)
      BY <1>8, <3>3
    <3>5. now(k) = p
      BY <1>7, <3>2, <3>4
    <3> QED
      BY <3>4, <3>5
  <2>3. num - 1 \in Nat
    BY <1>4, <1>7
  <2> HIDE DEF num
  <2>4. Ordered(new.next, num - 1)
    BY <1>10, <2>1, <2>2, <2>3 DEF Ordered, now
  <2> QED
    BY <1>3, <2>4
<1>13. QueueInStep(new)
  <2>1. Ordered(new.current, new.num_in_queue_current)
    BY <1>3 DEF QueueSound, QueueInStep
  <2>2. ASSUME NEW k \in DOMAIN new.current, new.current[k].busy
        PROVE  k \in InQueue(new.next) <=> k \in InQueue(new.current) /\ ~Sent(new, k)
    <3>1. k \in InQueue(buffers.next) <=> k \in InQueue(buffers.current) /\ ~Sent(buffers, k)
      BY <1>3, <2>2 DEF QueueSound, QueueInStep
    <3>2. k \in InQueue(new.next) <=> k \in InQueue(buffers.next) /\ k # i
      BY <1>8, <1>9
    <3>3. k \in InQueue(buffers.current) => (Sent(new, k) <=> Sent(buffers, k) \/ k = i)
      BY OneMoreSent
    <3> QED
      BY <1>3, <3>1, <3>2, <3>3
  <2>3. ASSUME NEW k \in InQueue(new.next), NEW l \in InQueue(new.next),
               k # l, new.current[k].busy,
               new.current[l].busy => new.current[k].queue_pos < new.current[l].queue_pos
        PROVE  now(k) < now(l)
    <3>1. k \in InQueue(buffers.next) /\ l \in InQueue(buffers.next)
      BY <1>9
    <3>2. old(k) < old(l)
      BY <1>3, <2>3, <3>1 DEF QueueSound, QueueInStep, old
    <3> QED
      BY <1>10, <3>2
  <2> QED
    BY <2>1, <2>2, <2>3 DEF QueueInStep, now
<1> QED
  BY <1>5, <1>11, <1>12, <1>13 DEF QueueSound

\* A load that leaves the queue leaves no store behind that was before it.
LEMMA LoadLeavesLast ==
    ASSUME NEW n \in Nat, NEW buffers, IsBuffers(buffers, n), NEW r, BuffersInStep(buffers, r),
           NEW new, NEW i, QueueLeft(new, buffers, n, i), QueueSound(buffers),
           buffers.current[i].op \notin StoreOp,
           buffers.current[i].op \in LoadOp,
           NEW k \in InQueue(buffers.next), buffers.next[k].op \in StoreOp
    PROVE  buffers.next[i].queue_pos < buffers.next[k].queue_pos
<1>1. /\ i \in 1 .. n /\ buffers.current[i].busy
      /\ i \in InQueue(buffers.current) /\ i \in InQueue(buffers.next)
  BY LeavesFromQueue
<1>2. /\ i \in ToAddressUnit(buffers) /\ SentBefore(buffers, i) = buffers.count_address
  BY DEF QueueLeft
<1>3. /\ DOMAIN buffers.next = 1 .. n /\ DOMAIN buffers.current = 1 .. n
      /\ \A l \in 1 .. n : buffers.current[l].queue_pos \in Int /\ buffers.next[l].queue_pos \in Int
      /\ buffers.count_address \in Nat
  BY QueueShaped DEF QueueShape
<1>4. k \in 1 .. n
  BY <1>3, InQueueMember
<1>5. k # i
  <2>1. buffers.next[i].op = buffers.current[i].op
    BY <1>1, <1>3 DEF BuffersInStep
  <2> QED
    BY <2>1
<1>6. SUFFICES ASSUME buffers.current[k].busy,
                      ~(buffers.current[i].queue_pos < buffers.current[k].queue_pos)
               PROVE  FALSE
  BY <1>1, <1>5 DEF QueueSound, QueueInStep
<1>7. k \in InQueue(buffers.current) /\ ~Sent(buffers, k)
  BY <1>3, <1>4, <1>6 DEF QueueSound, QueueInStep
<1>8. buffers.current[k].queue_pos < buffers.current[i].queue_pos
  <2>1. buffers.current[k].queue_pos # buffers.current[i].queue_pos
    BY <1>1, <1>5, <1>7 DEF QueueSound, QueueInStep, Ordered
  <2> QED
    BY <1>1, <1>3, <1>4, <1>6, <2>1
<1>9. buffers.current[k].op \in StoreOp
  BY <1>3, <1>4, <1>6 DEF BuffersInStep
<1>10. k \in Queued(buffers)
  BY <1>7 DEF Queued, InQueue
<1>11. k \in ToAddressUnit(buffers)
  <2>1. buffers.current[k].qj = 0
    BY <1>2, <1>8, <1>9, <1>10 DEF ToAddressUnit
  <2>2. buffers.current[k].op \notin LoadOp
    BY <1>9 DEF LoadOp, StoreOp
  <2> QED
    BY <1>10, <2>1, <2>2 DEF ToAddressUnit
<1>12. SentBefore(buffers, k) < SentBefore(buffers, i)
  BY <1>2, <1>8, <1>11, SentInOrder
<1> QED
  BY <1>2, <1>7, <1>11, <1>12 DEF Sent

\* The next cycle starts with the queue this one has built.
LEMMA QueueTurns ==
    ASSUME NEW n \in Nat, NEW buffers, IsBuffers(buffers, n), NEW new, IsBuffers(new, n),
           new.current = buffers.next, new.next = buffers.next,
           new.num_in_queue_current = buffers.num_in_queue_next,
           new.num_in_queue_next = buffers.num_in_queue_next,
           new.count_address = 0, new.count_enqueue = 0,
           Ordered(buffers.next, buffers.num_in_queue_next)
    PROVE  QueueSound(new) /\ QueueGrows(new) /\ KeepsOrder(new.next, buffers.next)
<1>1. ASSUME NEW k
      PROVE  ~Sent(new, k)
  <2>1. SentBefore(new, k) \in Nat
    BY CountsType
  <2> QED
    BY <2>1 DEF Sent
<1>2. /\ DOMAIN new.next = 1 .. n
      /\ \A k \in 1 .. n : new.next[k].queue_pos \in Int
  BY QueueShaped DEF QueueShape
<1>3. QueueInStep(new)
  <2>1. \A k, l \in InQueue(new.next) : k # l /\ new.current[k].busy
            /\ (new.current[l].busy => new.current[k].queue_pos < new.current[l].queue_pos)
            => new.next[k].queue_pos < new.next[l].queue_pos
    BY InQueueMember
  <2> QED
    BY <1>1, <2>1 DEF QueueInStep
<1>4. QueueGrows(new)
  <2>1. buffers.num_in_queue_next \in Int
    BY QueueShaped DEF QueueShape
  <2> QED
    BY <2>1 DEF QueueGrows
<1> QED
  BY <1>3, <1>4 DEF QueueSound, KeepsOrder

\* A queue nobody is in.
LEMMA EmptyQueue ==
    ASSUME NEW copy, \A k \in DOMAIN copy : ~copy[k].busy
    PROVE  InQueue(copy) = {} /\ Ordered(copy, 0)
<1>1. InQueue(copy) = {}
  BY InQueueMember
<1> QED
  BY <1>1 DEF Ordered
===============================================================================
